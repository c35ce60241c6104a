------------------------------- MODULE Crm_proofs -------------------------------
(***************************************************************************)
(* Proofs about Crm, for any opportunities, users, requests and bodies:    *)
(* the history of an opportunity ends at the stage it is in, and repeats a *)
(* stage only for requests that overlap.  What makes both inductive is     *)
(* PatchesReadTheHistory: what a patch compares its body with is a row of  *)
(* the history, the newest one if nothing was committed meanwhile.  And    *)
(* the five answers of a page read between two commits agree: they are all *)
(* answers about the tables as they are (PInv), and sums and cardinalities *)
(* over the four open columns are those over the open opportunities.  The  *)
(* model sums with a fold over a finite set; what it computes is found by  *)
(* induction on the subsets of the set, from the smallest counterexample.  *)
(***************************************************************************)
EXTENDS Crm, SequenceTheorems, FiniteSetTheorems, WellFoundedInduction, TLAPS

IInv == TypeOK /\ PatchesReadTheHistory /\ HistoryEndsAtStage /\ RepeatsNeedOverlap

HistoryRow == [stage : ALL_STAGES, seen : Nat]

------------------------------------------------------------------------------
(* Rows and columns.                                                         *)

\* A row is inserted.
LEMMA Inserted ==
  ASSUME NEW S, NEW s \in Seq(S), NEW e \in S
  PROVE  /\ Append(s, e) \in Seq(S)
         /\ Len(s) \in Nat
         /\ Len(Append(s, e)) = Len(s) + 1
         /\ \A k \in 1..Len(s) : Append(s, e)[k] = s[k]
         /\ Append(s, e)[Len(s) + 1] = e
BY AppendProperties, LenProperties

\* A given value is a value of its column.
LEMMA GivenIsValue ==
  ASSUME NEW body \in Bodies, NEW column \in Columns, NEW default \in ColumnValues(column)
  PROVE  Given(body, column, default) \in ColumnValues(column)
BY CrmAssumption DEF Given

LEMMA GivenTypes ==
  ASSUME NEW body \in Bodies
  PROVE  /\ \A d \in ALL_STAGES : Given(body, "stage", d) \in ALL_STAGES
         /\ \A d \in Nat : Given(body, "value", d) \in Nat
         /\ \A d \in 0 .. Parts \cup {None} : Given(body, "probability", d) \in 0 .. Parts \cup {None}
         /\ \A d \in Reps \cup {None} : Given(body, "owner_rep_id", d) \in Reps \cup {None}
<1>1. ColumnValues("stage") = ALL_STAGES  BY DEF ColumnValues
<1>2. ColumnValues("value") = Nat  BY DEF ColumnValues
<1>3. ColumnValues("probability") = 0 .. Parts \cup {None}  BY DEF ColumnValues
<1>4. ColumnValues("owner_rep_id") = Reps \cup {None}  BY DEF ColumnValues
<1>5. {"stage", "value", "probability", "owner_rep_id"} \subseteq Columns  BY DEF Columns
<1> QED  BY <1>1, <1>2, <1>3, <1>4, <1>5, GivenIsValue

\* The session writes rows of the schema, whatever a patch has read.
LEMMA MergedIsRow ==
  ASSUME NEW r, NEW body \in Bodies, NEW now \in Opportunity
  PROVE  /\ Merged(r, body, now) \in Opportunity
         /\ Merged(r, body, now).stage = IF StageChanges(r, body) THEN body["stage"] ELSE now.stage
<1> DEFINE column(c) == IF c \in DOMAIN body /\ body[c] # req[r].loaded[c] THEN body[c] ELSE now[c]
<1>1. DOMAIN now = {"customer_id", "stage", "value", "probability", "owner_rep_id"}
  BY DEF Opportunity
<1>2. Merged(r, body, now) = [customer_id |-> column("customer_id"), stage |-> column("stage"),
                              value |-> column("value"), probability |-> column("probability"),
                              owner_rep_id |-> column("owner_rep_id")]
  BY <1>1 DEF Merged
<1>3. \A c \in DOMAIN body : c \in Columns /\ body[c] \in ColumnValues(c)  BY CrmAssumption
<1>4. column("customer_id") \in Customers
  BY <1>3 DEF Columns, Opportunity
<1>5. column("stage") \in ALL_STAGES
  BY <1>3 DEF ColumnValues, Opportunity
<1>6. column("value") \in Nat
  BY <1>3 DEF ColumnValues, Opportunity
<1>7. column("probability") \in 0 .. Parts \cup {None}
  BY <1>3 DEF ColumnValues, Opportunity
<1>8. column("owner_rep_id") \in Reps \cup {None}
  BY <1>3 DEF ColumnValues, Opportunity
<1>9. Merged(r, body, now) \in Opportunity
  BY <1>2, <1>4, <1>5, <1>6, <1>7, <1>8 DEF Opportunity
<1>10. Merged(r, body, now).stage = column("stage")  BY <1>2
<1> QED  BY <1>9, <1>10 DEF StageChanges

------------------------------------------------------------------------------
(* Requests.                                                                 *)

Shaped(q) == q = [pc |-> q.pc, scope |-> q.scope, on |-> q.on, loaded |-> q.loaded,
                  seen |-> q.seen, got |-> q.got]

\* A commit tears pages, and leaves the patches as they are.
LEMMA TornKeepsPatches ==
  ASSUME req = [r \in Requests |-> req[r]], \A r \in Requests : Shaped(req[r])
  PROVE  /\ Torn = [r \in Requests |-> Torn[r]]
         /\ \A r \in Requests : /\ Shaped(Torn[r])
                                /\ Torn[r].pc = "patching" => Torn[r] = req[r]
<1>1. \A r \in Requests :
        \/ Torn[r] = req[r]
        \/ Torn[r] = [pc |-> "torn", scope |-> {}, on |-> None, loaded |-> None, seen |-> 0,
                      got |-> <<>>]
  BY DEF Torn, Fresh
<1>2. Torn = [r \in Requests |-> Torn[r]]  BY DEF Torn
<1> QED  BY <1>1, <1>2 DEF Shaped

------------------------------------------------------------------------------
(* The invariant holds at first and is kept by every step.                   *)

LEMMA InitEstablishes ==
  Init => IInv
<1> SUFFICES ASSUME Init PROVE IInv
  OBVIOUS
<1>1. \A o \in Ids : opportunity[o] = None /\ history[o] = <<>>
  BY DEF Init
<1>2. opportunity \in [Ids -> Opportunity \cup {None}]  BY DEF Init
<1>3. history \in [Ids -> Seq([stage : ALL_STAGES, seen : Nat])]  BY DEF Init
<1>4. /\ req = [r \in Requests |-> [pc |-> req[r].pc, scope |-> req[r].scope, on |-> req[r].on,
                                    loaded |-> req[r].loaded, seen |-> req[r].seen,
                                    got |-> req[r].got]]
      /\ \A r \in Requests : req[r].pc = "idle"
  BY DEF Init, Idle, Fresh
<1>5. TypeOK  BY <1>2, <1>3, <1>4 DEF Init, TypeOK
<1>6. PatchesReadTheHistory  BY <1>4 DEF PatchesReadTheHistory
<1>7. HistoryEndsAtStage  BY <1>1 DEF HistoryEndsAtStage
<1>8. RepeatsNeedOverlap  BY <1>1 DEF RepeatsNeedOverlap
<1> QED  BY <1>5, <1>6, <1>7, <1>8 DEF IInv

\* A step that leaves the opportunities alone, and adds no patch, keeps everything.
LEMMA ReadersKeep ==
  ASSUME IInv, UNCHANGED <<users, defaults, opportunity, history>>,
         req' = [r \in Requests |-> req'[r]],
         \A r \in Requests : /\ Shaped(req'[r])
                             /\ req'[r].pc = "patching" => req'[r] = req[r]
  PROVE  IInv'
<1>1. TypeOK'  BY DEF IInv, TypeOK, Shaped
<1>2. PatchesReadTheHistory'  BY DEF IInv, PatchesReadTheHistory
<1>3. HistoryEndsAtStage'  BY DEF IInv, HistoryEndsAtStage
<1>4. RepeatsNeedOverlap'  BY DEF IInv, RepeatsNeedOverlap
<1> QED  BY <1>1, <1>2, <1>3, <1>4 DEF IInv

LEMMA RequestsAreShaped ==
  ASSUME IInv
  PROVE  req = [r \in Requests |-> req[r]] /\ \A r \in Requests : Shaped(req[r])
BY DEF IInv, TypeOK, Shaped

LEMMA UpdateUserKeeps ==
  ASSUME IInv, NEW admin \in Users, NEW u \in Users, NEW role \in Roles \cup {None},
         NEW rep \in Reps \cup {None}, UpdateUser(admin, u, role, rep)
  PROVE  IInv'
<1>1. UNCHANGED <<defaults, opportunity, history, req>>  BY DEF UpdateUser
<1> DEFINE row == [role |-> IF role = None THEN users[u].role ELSE role,
                   rep |-> IF rep = None THEN users[u].rep ELSE rep]
<1>2. users' \in [Users -> [role : Roles, rep : Reps \cup {None}]]
  <2>1. users \in [Users -> [role : Roles, rep : Reps \cup {None}]]  BY DEF IInv, TypeOK
  <2>2. row \in [role : Roles, rep : Reps \cup {None}]  BY <2>1
  <2>3. users' = [users EXCEPT ![u] = row]  BY DEF UpdateUser
  <2> QED  BY <2>1, <2>2, <2>3
<1>3. TypeOK'  BY <1>1, <1>2 DEF IInv, TypeOK
<1> QED
  BY <1>1, <1>3 DEF IInv, PatchesReadTheHistory, HistoryEndsAtStage, RepeatsNeedOverlap

LEMMA SetDefaultsKeeps ==
  ASSUME IInv, NEW u \in Users, NEW probabilities \in Defaults, SetDefaults(u, probabilities)
  PROVE  IInv'
<1>1. UNCHANGED <<users, opportunity, history>> /\ defaults' = probabilities /\ req' = Torn
  BY DEF SetDefaults
<1>2. /\ Torn = [r \in Requests |-> Torn[r]]
      /\ \A r \in Requests : Shaped(Torn[r]) /\ (Torn[r].pc = "patching" => Torn[r] = req[r])
  BY RequestsAreShaped, TornKeepsPatches
<1>3. TypeOK'  BY <1>1, <1>2 DEF IInv, TypeOK, Shaped
<1>4. PatchesReadTheHistory'  BY <1>1, <1>2 DEF IInv, PatchesReadTheHistory
<1>5. HistoryEndsAtStage'  BY <1>1 DEF IInv, HistoryEndsAtStage
<1>6. RepeatsNeedOverlap'  BY <1>1 DEF IInv, RepeatsNeedOverlap
<1> QED  BY <1>3, <1>4, <1>5, <1>6 DEF IInv

\* The first row of the history is the stage of the new opportunity, which no request has read.
LEMMA CreateKeeps ==
  ASSUME IInv, NEW o \in Ids, NEW u \in Users, NEW c \in Customers, NEW body \in Bodies,
         Create(o, u, c, body)
  PROVE  IInv'
<1> DEFINE stage == Given(body, "stage", "lead")
           owner == IF users[u].role = "sales_rep" THEN users[u].rep
                    ELSE Given(body, "owner_rep_id", None)
           row == [customer_id |-> c, stage |-> stage, value |-> Given(body, "value", 0),
                   probability |-> Given(body, "probability", None), owner_rep_id |-> owner]
           first == [stage |-> stage, seen |-> 0]
<1>1. /\ opportunity[o] = None
      /\ opportunity' = [opportunity EXCEPT ![o] = row]
      /\ history' = [history EXCEPT ![o] = <<first>>]
      /\ req' = Torn /\ UNCHANGED <<users, defaults>>
  BY DEF Create
<1>2. /\ Torn = [r \in Requests |-> Torn[r]]
      /\ \A r \in Requests : Shaped(Torn[r]) /\ (Torn[r].pc = "patching" => Torn[r] = req[r])
  BY RequestsAreShaped, TornKeepsPatches
<1>3. stage \in ALL_STAGES
  BY GivenTypes DEF ALL_STAGES, OPEN_STAGES
<1>4. owner \in Reps \cup {None}
  BY GivenTypes DEF IInv, TypeOK
<1>5. row \in Opportunity
  BY <1>3, <1>4, GivenTypes DEF Opportunity
<1>6. first \in [stage : ALL_STAGES, seen : Nat]  BY <1>3
<1>7. /\ opportunity'[o] = row /\ history'[o] = <<first>>
      /\ \A p \in Ids \ {o} : opportunity'[p] = opportunity[p] /\ history'[p] = history[p]
  BY <1>1 DEF IInv, TypeOK
<1>8. TypeOK'
  <2>1. opportunity' \in [Ids -> Opportunity \cup {None}]
    BY <1>1, <1>5 DEF IInv, TypeOK
  <2>2. <<first>> \in Seq([stage : ALL_STAGES, seen : Nat])  BY <1>6
  <2>3. history' \in [Ids -> Seq([stage : ALL_STAGES, seen : Nat])]
    BY <1>1, <2>2 DEF IInv, TypeOK
  <2> HIDE DEF first, row
  <2> QED  BY <1>1, <1>2, <2>1, <2>3 DEF IInv, TypeOK, Shaped
<1>9. PatchesReadTheHistory'
  <2> SUFFICES ASSUME NEW r \in Requests, req'[r].pc = "patching"
               PROVE  LET p == req'[r].on
                      IN  /\ opportunity'[p] # None
                          /\ req'[r].seen \in 1 .. Len(history'[p])
                          /\ req'[r].loaded.stage = history'[p][req'[r].seen].stage
    BY DEF PatchesReadTheHistory
  <2>1. req'[r] = req[r] /\ req[r].pc = "patching"  BY <1>1, <1>2
  <2>2. /\ req[r].on \in Ids /\ opportunity[req[r].on] # None
        /\ req[r].seen \in 1 .. Len(history[req[r].on])
        /\ req[r].loaded.stage = history[req[r].on][req[r].seen].stage
    BY <2>1 DEF IInv, TypeOK, PatchesReadTheHistory
  <2> QED  BY <2>1, <2>2, <1>1, <1>7
<1>10. HistoryEndsAtStage'
  <2>1. history'[o] # <<>> /\ Len(history'[o]) = 1 /\ history'[o][1] = first
    BY <1>7
  <2>2. opportunity'[o].stage = first.stage  BY <1>7
  <2> QED  BY <1>7, <2>1, <2>2 DEF IInv, HistoryEndsAtStage
<1>11. RepeatsNeedOverlap'
  <2>1. \A k : k \notin 2 .. Len(history'[o])
    <3>1. Len(history'[o]) = 1  BY <1>7
    <3> QED  BY <3>1
  <2>2. \A p \in Ids \ {o} : \A k \in 2 .. Len(history'[p]) :
           history'[p][k].stage = history'[p][k - 1].stage => history'[p][k].seen < k - 1
    <3>1. \A p \in Ids \ {o} : history'[p] = history[p]  BY <1>7
    <3> QED  BY <3>1 DEF IInv, RepeatsNeedOverlap
  <2> QED  BY <2>1, <2>2, Zenon DEF RepeatsNeedOverlap
<1> QED  BY <1>8, <1>9, <1>10, <1>11 DEF IInv

\* What a patch reads is the newest row.
LEMMA OpenKeeps ==
  ASSUME IInv, NEW r \in Requests, NEW u \in Users, NEW o \in Ids, Open(r, u, o)
  PROVE  IInv'
<1> DEFINE opened == [pc |-> "patching", scope |-> {}, on |-> o, loaded |-> opportunity[o],
                      seen |-> Len(history[o]), got |-> <<>>]
<1>1. /\ opportunity[o] # None
      /\ req' = [req EXCEPT ![r] = opened]
      /\ UNCHANGED <<users, defaults, opportunity, history>>
  BY DEF Open, Fresh
<1>2. opportunity[o] \in Opportunity /\ history[o] \in Seq(HistoryRow)
  BY <1>1 DEF IInv, TypeOK, HistoryRow
<1>3. req'[r] = opened /\ \A q \in Requests \ {r} : req'[q] = req[q]
  BY <1>1, RequestsAreShaped
<1>4. history[o] # <<>> /\ opportunity[o].stage = history[o][Len(history[o])].stage
  BY <1>1 DEF IInv, HistoryEndsAtStage
<1>5. Len(history[o]) \in Nat /\ Len(history[o]) \in 1 .. Len(history[o])
  BY <1>2, <1>4, LenProperties, EmptySeq
<1>6. TypeOK'
  <2>1. req' = [q \in Requests |-> req'[q]]  BY <1>1, RequestsAreShaped
  <2>2. \A q \in Requests : Shaped(req'[q])  BY <1>3, RequestsAreShaped DEF Shaped
  <2>3. \A q \in Requests : req'[q].pc = "patching" =>
          req'[q].on \in Ids /\ req'[q].loaded \in Opportunity /\ req'[q].seen \in Nat
    <3>1. req'[r].on = o /\ req'[r].loaded = opportunity[o] /\ req'[r].seen = Len(history[o])
      BY <1>3
    <3>2. \A q \in Requests \ {r} : req[q].pc = "patching" =>
            req[q].on \in Ids /\ req[q].loaded \in Opportunity /\ req[q].seen \in Nat
      BY DEF IInv, TypeOK
    <3> QED  BY <1>2, <1>3, <1>5, <3>1, <3>2
  <2> QED  BY <1>1, <2>1, <2>2, <2>3 DEF IInv, TypeOK, Shaped
<1>7. PatchesReadTheHistory'
  BY <1>1, <1>3, <1>4, <1>5 DEF IInv, PatchesReadTheHistory
<1>8. HistoryEndsAtStage'  BY <1>1 DEF IInv, HistoryEndsAtStage
<1>9. RepeatsNeedOverlap'  BY <1>1 DEF IInv, RepeatsNeedOverlap
<1> QED  BY <1>6, <1>7, <1>8, <1>9 DEF IInv

\* A patch that changes the stage appends it; one that had read the newest row, and not an
\* older one, finds the stage different from it.
LEMMA PatchKeeps ==
  ASSUME IInv, NEW r \in Requests, NEW body \in Bodies, Patch(r, body)
  PROVE  IInv'
<1> DEFINE o == req[r].on
           new == Merged(r, body, opportunity[o])
           added == [stage |-> body["stage"], seen |-> req[r].seen]
           rows == IF StageChanges(r, body) THEN Append(history[o], added) ELSE history[o]
<1>1. /\ o \in Ids /\ req[r].seen \in Nat /\ opportunity[o] # None
      /\ req[r].seen \in 1 .. Len(history[o])
      /\ req[r].loaded.stage = history[o][req[r].seen].stage
  BY DEF Patch, IInv, TypeOK, PatchesReadTheHistory
<1>2. opportunity[o] \in Opportunity /\ history[o] \in Seq(HistoryRow)
  BY <1>1 DEF IInv, TypeOK, HistoryRow
<1>3. new \in Opportunity
      /\ new.stage = IF StageChanges(r, body) THEN body["stage"] ELSE opportunity[o].stage
  BY <1>2, MergedIsRow
<1>4. StageChanges(r, body) => added \in HistoryRow
  BY <1>1, CrmAssumption DEF StageChanges, HistoryRow, ColumnValues
<1>5. /\ rows \in Seq(HistoryRow)
      /\ Len(history[o]) \in Nat /\ Len(rows) \in Nat /\ Len(rows) >= Len(history[o])
      /\ \A k \in 1 .. Len(history[o]) : rows[k] = history[o][k]
      /\ StageChanges(r, body) =>
            Len(rows) = Len(history[o]) + 1 /\ rows[Len(rows)] = added
  BY <1>2, <1>4, Inserted, LenProperties
<1>6. /\ opportunity' = [opportunity EXCEPT ![o] = new]
      /\ history' = [history EXCEPT ![o] = rows]
      /\ UNCHANGED <<users, defaults>>
  BY <1>1 DEF Patch, IInv, TypeOK
<1>7. /\ opportunity'[o] = new /\ history'[o] = rows
      /\ \A p \in Ids \ {o} : opportunity'[p] = opportunity[p] /\ history'[p] = history[p]
  BY <1>1, <1>6 DEF IInv, TypeOK
<1>8. /\ req' = [q \in Requests |-> req'[q]]
      /\ \A q \in Requests : Shaped(req'[q])
      /\ \A q \in Requests : req'[q].pc = "patching" => req'[q] = req[q]
  <2>1. /\ Torn = [q \in Requests |-> Torn[q]]
        /\ \A q \in Requests : Shaped(Torn[q]) /\ (Torn[q].pc = "patching" => Torn[q] = req[q])
    BY RequestsAreShaped, TornKeepsPatches
  <2>2. req' = [Torn EXCEPT ![r] = Idle]  BY DEF Patch
  <2>3. Shaped(Idle) /\ Idle.pc = "idle"  BY DEF Shaped, Idle, Fresh
  <2>4. req'[r] = Idle /\ \A q \in Requests \ {r} : req'[q] = Torn[q]
    BY <2>1, <2>2
  <2>5. req' = [q \in Requests |-> req'[q]]  BY <2>1, <2>2
  <2> QED  BY <2>1, <2>3, <2>4, <2>5
<1> HIDE DEF new, rows, added
<1>9. TypeOK'
  <2>1. opportunity' \in [Ids -> Opportunity \cup {None}]
    BY <1>3, <1>6 DEF IInv, TypeOK
  <2>2. history' \in [Ids -> Seq([stage : ALL_STAGES, seen : Nat])]
    BY <1>5, <1>6 DEF IInv, TypeOK, HistoryRow
  <2>3. req' = [q \in Requests |-> [pc |-> req'[q].pc, scope |-> req'[q].scope,
                   on |-> req'[q].on, loaded |-> req'[q].loaded, seen |-> req'[q].seen,
                   got |-> req'[q].got]]
    BY <1>8, Zenon DEF Shaped
  <2>4. ASSUME NEW q \in Requests, req'[q].pc = "patching"
        PROVE  req'[q].on \in Ids /\ req'[q].loaded \in Opportunity /\ req'[q].seen \in Nat
    <3>1. req'[q] = req[q]  BY <1>8, <2>4
    <3> QED  BY <2>4, <3>1 DEF IInv, TypeOK
  <2>5. /\ users' \in [Users -> [role : Roles, rep : Reps \cup {None}]]
        /\ defaults' \in Defaults
    BY <1>6 DEF IInv, TypeOK
  <2> QED  BY <2>1, <2>2, <2>3, <2>4, <2>5 DEF TypeOK
<1>10. PatchesReadTheHistory'
  <2> SUFFICES ASSUME NEW q \in Requests, req'[q].pc = "patching"
               PROVE  LET p == req'[q].on
                      IN  /\ opportunity'[p] # None
                          /\ req'[q].seen \in 1 .. Len(history'[p])
                          /\ req'[q].loaded.stage = history'[p][req'[q].seen].stage
    BY DEF PatchesReadTheHistory
  <2>1. req'[q] = req[q] /\ req[q].pc = "patching"  BY <1>8
  <2>2. /\ req[q].on \in Ids /\ opportunity[req[q].on] # None
        /\ req[q].seen \in 1 .. Len(history[req[q].on])
        /\ req[q].loaded.stage = history[req[q].on][req[q].seen].stage
    BY <2>1 DEF IInv, TypeOK, PatchesReadTheHistory
  <2>3. CASE req[q].on = o
    <3>1. new # None  BY <1>3, CrmAssumption
    <3>2. req[q].seen \in 1 .. Len(rows) /\ rows[req[q].seen] = history[o][req[q].seen]
      BY <2>2, <2>3, <1>5
    <3> QED  BY <2>1, <2>2, <2>3, <3>1, <3>2, <1>7
  <2>4. CASE req[q].on # o
    BY <2>1, <2>2, <2>4, <1>7
  <2> QED  BY <2>3, <2>4
<1>11. HistoryEndsAtStage'
  <2>1. history[o] # <<>> /\ opportunity[o].stage = history[o][Len(history[o])].stage
    BY <1>1 DEF IInv, HistoryEndsAtStage
  <2>2. rows # <<>> /\ new.stage = rows[Len(rows)].stage
    <3>1. CASE StageChanges(r, body)
      BY <3>1, <1>2, <1>3, <1>5, EmptySeq DEF added
    <3>2. CASE ~StageChanges(r, body)
      BY <3>2, <2>1, <1>3 DEF rows
    <3> QED  BY <3>1, <3>2
  <2> QED  BY <1>7, <2>2 DEF IInv, HistoryEndsAtStage
<1>12. RepeatsNeedOverlap'
  <2>1. ASSUME NEW k \in 2 .. Len(rows), rows[k].stage = rows[k - 1].stage
        PROVE  rows[k].seen < k - 1
    <3>1. \A j \in 2 .. Len(history[o]) :
            history[o][j].stage = history[o][j - 1].stage => history[o][j].seen < j - 1
      BY <1>1 DEF IInv, RepeatsNeedOverlap
    <3>2. CASE k \in 2 .. Len(history[o])
      <4>1. k \in 1 .. Len(history[o]) /\ k - 1 \in 1 .. Len(history[o])  BY <3>2, <1>5
      <4>2. rows[k] = history[o][k] /\ rows[k - 1] = history[o][k - 1]  BY <1>5, <4>1, Zenon
      <4> QED  BY <2>1, <3>1, <3>2, <4>2, Zenon
    <3>3. CASE k \notin 2 .. Len(history[o])
      <4>1. StageChanges(r, body)
        BY <3>3 DEF rows
      <4>2. k = Len(history[o]) + 1 /\ rows[k] = added /\ rows[k - 1] = history[o][k - 1]
        BY <4>1, <3>3, <1>5
      <4>3. added.stage # req[r].loaded.stage /\ added.seen = req[r].seen
        BY <4>1 DEF StageChanges, added
      <4>4. req[r].seen # k - 1
        BY <4>2, <4>3, <2>1, <1>1
      <4> QED  BY <4>2, <4>3, <4>4, <1>1, <1>5
    <3> QED  BY <3>2, <3>3
  <2> QED  BY <1>7, <2>1 DEF IInv, RepeatsNeedOverlap
<1> QED  BY <1>9, <1>10, <1>11, <1>12 DEF IInv

\* A page changes nothing but its own request, which is no patch.
LEMMA ViewKeeps ==
  ASSUME IInv, NEW r \in Requests, NEW u \in Users, View(r, u)
  PROVE  IInv'
<1> DEFINE viewing == [pc |-> "viewing", scope |-> Visible(u), on |-> None, loaded |-> None,
                       seen |-> 0, got |-> <<>>]
<1>1. req' = [req EXCEPT ![r] = viewing] /\ UNCHANGED <<users, defaults, opportunity, history>>
  BY DEF View, Fresh
<1>2. Shaped(viewing) /\ viewing.pc # "patching"  BY DEF Shaped
<1> HIDE DEF viewing
<1>3. /\ req' = [q \in Requests |-> req'[q]]
      /\ \A q \in Requests : Shaped(req'[q]) /\ (req'[q].pc = "patching" => req'[q] = req[q])
  BY <1>1, <1>2, RequestsAreShaped
<1> QED  BY <1>1, <1>3, ReadersKeep

LEMMA QueryKeeps ==
  ASSUME IInv, NEW r \in Requests, Query(r)
  PROVE  IInv'
<1> DEFINE got == Append(req[r].got, Answer(Len(req[r].got) + 1, req[r].scope))
           after == [req[r] EXCEPT !.got = got]
<1>1. /\ req[r].pc = "viewing" /\ req' = [req EXCEPT ![r] = after]
      /\ UNCHANGED <<users, defaults, opportunity, history>>
  BY RequestsAreShaped DEF Query
<1> HIDE DEF got
<1>2. Shaped(after) /\ after.pc # "patching"
  BY <1>1, RequestsAreShaped DEF Shaped
<1> HIDE DEF after
<1>3. /\ req' = [q \in Requests |-> req'[q]]
      /\ \A q \in Requests : Shaped(req'[q]) /\ (req'[q].pc = "patching" => req'[q] = req[q])
  BY <1>1, <1>2, RequestsAreShaped
<1> QED  BY <1>1, <1>3, ReadersKeep

LEMMA RespondKeeps ==
  ASSUME IInv, NEW r \in Requests, Respond(r)
  PROVE  IInv'
<1>1. Shaped(Idle) /\ Idle.pc # "patching"  BY DEF Shaped, Idle, Fresh
<1>2. req' = [req EXCEPT ![r] = Idle] /\ UNCHANGED <<users, defaults, opportunity, history>>
  BY DEF Respond
<1>3. /\ req' = [q \in Requests |-> req'[q]]
      /\ \A q \in Requests : Shaped(req'[q]) /\ (req'[q].pc = "patching" => req'[q] = req[q])
  BY <1>1, <1>2, RequestsAreShaped
<1> QED  BY <1>2, <1>3, ReadersKeep

LEMMA StepKeeps ==
  IInv /\ [Next]_vars => IInv'
<1> SUFFICES ASSUME IInv, [Next]_vars PROVE IInv'
  OBVIOUS
<1>1. CASE UNCHANGED vars
  BY <1>1 DEF vars, IInv, TypeOK, PatchesReadTheHistory, HistoryEndsAtStage, RepeatsNeedOverlap
<1>2. CASE \E admin, u \in Users, role \in Roles \cup {None}, rep \in Reps \cup {None} :
             UpdateUser(admin, u, role, rep)
  BY <1>2, UpdateUserKeeps
<1>3. CASE \E u \in Users, probabilities \in Defaults : SetDefaults(u, probabilities)
  BY <1>3, SetDefaultsKeeps
<1>4. CASE \E o \in Ids, u \in Users, c \in Customers, body \in Bodies : Create(o, u, c, body)
  BY <1>4, CreateKeeps
<1>5. CASE \E r \in Requests, u \in Users, o \in Ids : Open(r, u, o)
  BY <1>5, OpenKeeps
<1>6. CASE \E r \in Requests, body \in Bodies : Patch(r, body)
  BY <1>6, PatchKeeps
<1>7. CASE \E r \in Requests, u \in Users : View(r, u)
  BY <1>7, ViewKeeps
<1>8. CASE \E r \in Requests : Query(r) \/ Respond(r)
  BY <1>8, QueryKeeps, RespondKeeps
<1> QED  BY <1>1, <1>2, <1>3, <1>4, <1>5, <1>6, <1>7, <1>8 DEF Next

------------------------------------------------------------------------------
(* Sums over finite sets.                                                    *)

\* A set of numbers has a least one.
LEMMA LeastOne ==
  ASSUME NEW T, T \subseteq Nat, T # {}
  PROVE  \E x \in T : \A y \in T : x <= y
<1> DEFINE R == OpToRel(<, Nat)
<1>1. IsWellFoundedOn(R, Nat)  BY NatLessThanWellFounded
<1>2. \A x, y \in Nat : y < x => <<y, x>> \in R  BY DEF OpToRel
<1> HIDE DEF R
<1>3. \E x \in T : \A y \in T : ~(<<y, x>> \in R)  BY <1>1, WFMin
<1>4. PICK x \in T : \A y \in T : ~(<<y, x>> \in R)  BY <1>3
<1>5. ASSUME NEW y \in T PROVE x <= y
  <2>1. x \in Nat /\ y \in Nat  OBVIOUS
  <2>2. ~(y < x)  BY <1>2, <1>4, <2>1
  <2> QED  BY <2>1, <2>2
<1> QED  BY <1>5

\* What holds of a set if it holds of the sets with one element less holds of every subset of a
\* finite set.
LEMMA SubsetInduction ==
  ASSUME NEW S, IsFiniteSet(S), NEW G,
         \A s \in SUBSET S : (\A x \in s : s \ {x} \in G) => s \in G
  PROVE  \A s \in SUBSET S : s \in G
<1> SUFFICES ASSUME NEW s \in SUBSET S, s \notin G PROVE FALSE
  OBVIOUS
<1> DEFINE Bad == {n \in Nat : \E t \in SUBSET S : t \notin G /\ Cardinality(t) = n}
<1>1. \A t \in SUBSET S : IsFiniteSet(t) /\ Cardinality(t) \in Nat
  BY FS_Subset, FS_CardinalityType
<1>2. Bad # {}  BY <1>1
<1>3. PICK n \in Bad : \A m \in Bad : n <= m  BY <1>2, LeastOne
<1>4. PICK t \in SUBSET S : t \notin G /\ Cardinality(t) = n  BY <1>3
<1>5. PICK x \in t : t \ {x} \notin G  BY <1>4
<1>6. Cardinality(t \ {x}) = n - 1  BY <1>1, <1>4, <1>5, FS_RemoveElement
<1>7. t \ {x} \in SUBSET S /\ Cardinality(t \ {x}) \in Nat  BY <1>1
<1>8. n - 1 \in Bad  BY <1>5, <1>6, <1>7
<1> QED  BY <1>3, <1>6, <1>7, <1>8

\* The sum that MapThenSumSet computes, of a function's values: the element that is taken next is
\* chosen by the set, and a sum is a function on the subsets.
Pick(s) == CHOOSE x \in s : TRUE
IsSum(h, f, S) ==
    h = [s \in SUBSET S |-> IF s = {} THEN 0 ELSE f[Pick(s)] + h[s \ {Pick(s)}]]
Total(f, S) == (CHOOSE h : IsSum(h, f, S))[S]

LEMMA SumUnfolds ==
  ASSUME NEW h, NEW f, NEW S, IsSum(h, f, S)
  PROVE  /\ DOMAIN h = SUBSET S
         /\ h[{}] = 0
         /\ \A s \in SUBSET S : s # {} =>
               /\ Pick(s) \in s /\ s \ {Pick(s)} \in SUBSET S
               /\ h[s] = f[Pick(s)] + h[s \ {Pick(s)}]
<1>1. \A s \in SUBSET S : s # {} => Pick(s) \in s  BY DEF Pick
<1> QED  BY <1>1 DEF IsSum

LEMMA SumStep ==
  ASSUME NEW h, NEW f, NEW S, IsSum(h, f, S), NEW s, s \subseteq S, s # {}
  PROVE  Pick(s) \in s /\ h[s] = f[Pick(s)] + h[s \ {Pick(s)}]
<1>1. \A t \in SUBSET S : t # {} =>
               /\ Pick(t) \in t /\ t \ {Pick(t)} \in SUBSET S
               /\ h[t] = f[Pick(t)] + h[t \ {Pick(t)}]
  BY SumUnfolds
<1>2. s \in SUBSET S  OBVIOUS
<1> QED  BY <1>1, <1>2

\* Two sums agree where what they sum agrees.
LEMMA SumsAgree ==
  ASSUME NEW h, NEW f, NEW S, IsSum(h, f, S), NEW k, NEW g, NEW T, IsSum(k, g, T),
         NEW U, IsFiniteSet(U), U \subseteq S, U \subseteq T, \A x \in U : f[x] = g[x]
  PROVE  h[U] = k[U]
<1> DEFINE G == {u \in SUBSET U : h[u] = k[u]}
<1>1. ASSUME NEW u \in SUBSET U, \A x \in u : u \ {x} \in G PROVE u \in G
  <2>1. CASE u = {}  BY <2>1, SumUnfolds
  <2>2. CASE u # {}
    <3>1. Pick(u) \in u /\ h[u] = f[Pick(u)] + h[u \ {Pick(u)}]
      <4>1. u \subseteq S  OBVIOUS
      <4> HIDE DEF G
      <4> QED  BY <2>2, <4>1, SumStep
    <3>4. Pick(u) \in u /\ k[u] = g[Pick(u)] + k[u \ {Pick(u)}]
      <4>1. u \subseteq T  OBVIOUS
      <4> HIDE DEF G
      <4> QED  BY <2>2, <4>1, SumStep
    <3>2. h[u \ {Pick(u)}] = k[u \ {Pick(u)}]  BY <1>1, <3>1
    <3> QED  BY <3>1, <3>2, <3>4
  <2> QED  BY <2>1, <2>2
<1> HIDE DEF G
<1>2. \A u \in SUBSET U : u \in G  BY <1>1, SubsetInduction
<1>3. U \in G  BY <1>2
<1> QED  BY <1>3 DEF G

\* There is a sum over every finite set.
LEMMA SumExists ==
  ASSUME NEW f, NEW S, IsFiniteSet(S)
  PROVE  \E h : IsSum(h, f, S)
<1> DEFINE G == {s \in SUBSET S : \A u \in SUBSET s : \E h : IsSum(h, f, u)}
<1>1. ASSUME NEW s \in SUBSET S, \A x \in s : s \ {x} \in G PROVE s \in G
  <2>1. ASSUME NEW u \in SUBSET s, u # s PROVE \E h : IsSum(h, f, u)
    <3>1. PICK x \in s : x \notin u  BY <2>1
    <3>2. u \in SUBSET (s \ {x})  BY <3>1
    <3> QED  BY <1>1, <3>2
  <2> DEFINE V(t) == (CHOOSE h : IsSum(h, f, t))[t]
             h == [t \in SUBSET s |-> IF t = {} THEN 0 ELSE f[Pick(t)] + V(t \ {Pick(t)})]
  <2>2. ASSUME NEW t \in SUBSET s, t # {}
        PROVE  /\ Pick(t) \in t
               /\ t \ {Pick(t)} \in SUBSET s
               /\ t \ {Pick(t)} # s
    BY <2>2 DEF Pick
  <2>3. ASSUME NEW u \in SUBSET s, u # s PROVE h[u] = V(u)
    <3>1. IsFiniteSet(u)  BY FS_Subset
    <3> DEFINE k == CHOOSE k : IsSum(k, f, u)
    <3>2. IsSum(k, f, u)  BY <2>1, <2>3
    <3> HIDE DEF k
    <3>3. CASE u = {}
      <4>1. k[u] = 0  BY <3>2, <3>3, SumUnfolds
      <4> QED  BY <3>3, <4>1 DEF k
    <3>4. CASE u # {}
      <4> DEFINE w == u \ {Pick(u)}
                 l == CHOOSE l : IsSum(l, f, w)
      <4>1. w \in SUBSET u /\ w \in SUBSET s /\ w # s  BY <2>2, <2>3, <3>4
      <4>2. IsSum(l, f, w)  BY <2>1, <4>1
      <4>3. IsFiniteSet(w)  BY <3>1, <4>1, FS_Subset
      <4> HIDE DEF l
      <4>4. k[w] = l[w]
        <5> HIDE DEF w
        <5> QED  BY <3>2, <4>1, <4>2, <4>3, SumsAgree
      <4>5. k[u] = f[Pick(u)] + k[w]  BY <3>2, <3>4, SumUnfolds
      <4>6. h[u] = f[Pick(u)] + V(w)  BY <2>3, <3>4
      <4> QED  BY <4>4, <4>5, <4>6 DEF k, l
    <3> QED  BY <3>3, <3>4
  <2> HIDE DEF V
  <2>4. IsSum(h, f, s)
    <3>1. \A t \in SUBSET s : t # {} => h[t \ {Pick(t)}] = V(t \ {Pick(t)})
      <4> HIDE DEF h
      <4> QED  BY <2>2, <2>3
    <3> QED  BY <3>1 DEF IsSum
  <2> QED  BY <2>1, <2>4
<1> HIDE DEF G
<1>2. \A s \in SUBSET S : s \in G  BY <1>1, SubsetInduction
<1>3. S \in G  BY <1>2
<1> QED  BY <1>3 DEF G

\* It does not matter within which set one sums.
LEMMA TotalIsSum ==
  ASSUME NEW f, NEW S, IsFiniteSet(S), NEW h, IsSum(h, f, S), NEW s \in SUBSET S
  PROVE  h[s] = Total(f, s)
<1> DEFINE k == CHOOSE k : IsSum(k, f, s)
<1>1. IsFiniteSet(s)  BY FS_Subset
<1>2. IsSum(k, f, s)  BY <1>1, SumExists
<1> HIDE DEF k
<1>3. h[s] = k[s]  BY <1>1, <1>2, SumsAgree
<1> QED  BY <1>3 DEF Total, k

LEMMA TotalUnfolds ==
  ASSUME NEW f, NEW S, IsFiniteSet(S)
  PROVE  /\ S = {} => Total(f, S) = 0
         /\ S # {} => /\ Pick(S) \in S
                      /\ Total(f, S) = f[Pick(S)] + Total(f, S \ {Pick(S)})
<1>1. PICK h : IsSum(h, f, S)  BY SumExists
<1>2. \A s \in SUBSET S : h[s] = Total(f, s)  BY <1>1, TotalIsSum
<1>3. h[S] = Total(f, S)  BY <1>2
<1>4. CASE S = {}
  <2>1. h[S] = 0  BY <1>1, <1>4, SumUnfolds
  <2> QED  BY <1>3, <1>4, <2>1
<1>5. CASE S # {}
  <2>1. S \in SUBSET S  OBVIOUS
  <2>2. Pick(S) \in S /\ h[S] = f[Pick(S)] + h[S \ {Pick(S)}]
    BY <1>1, <1>5, SumStep
  <2>3. h[S \ {Pick(S)}] = Total(f, S \ {Pick(S)})  BY <1>2
  <2> QED  BY <1>3, <1>5, <2>2, <2>3
<1> QED  BY <1>4, <1>5

LEMMA TotalIsNat ==
  ASSUME NEW f, NEW S, IsFiniteSet(S), \A x \in S : f[x] \in Nat
  PROVE  Total(f, S) \in Nat
<1> DEFINE G == {s \in SUBSET S : Total(f, s) \in Nat}
<1>1. ASSUME NEW s \in SUBSET S, \A x \in s : s \ {x} \in G PROVE Total(f, s) \in Nat
  <2>1. IsFiniteSet(s)  BY FS_Subset
  <2>2. CASE s = {}
    <3>1. Total(f, s) = 0  BY <2>1, <2>2, TotalUnfolds
    <3> QED  BY <3>1
  <2>3. CASE s # {}
    <3>1. Pick(s) \in s /\ Total(f, s) = f[Pick(s)] + Total(f, s \ {Pick(s)})
      <4> HIDE DEF G
      <4> QED  BY <2>1, <2>3, TotalUnfolds
    <3>2. Total(f, s \ {Pick(s)}) \in Nat /\ f[Pick(s)] \in Nat  BY <1>1, <3>1
    <3> HIDE DEF G
    <3> QED  BY <3>1, <3>2
  <2> QED  BY <2>2, <2>3
<1>2. \A s \in SUBSET S : (\A x \in s : s \ {x} \in G) => s \in G  BY <1>1
<1> HIDE DEF G
<1>3. S \in G
  <2>1. \A s \in SUBSET S : s \in G  BY <1>2, SubsetInduction
  <2> QED  BY <2>1
<1> QED  BY <1>3 DEF G

\* It does not matter which element is taken first.
LEMMA TotalWithout ==
  ASSUME NEW f, NEW S, IsFiniteSet(S), \A x \in S : f[x] \in Nat, NEW x \in S
  PROVE  Total(f, S) = f[x] + Total(f, S \ {x})
<1> DEFINE G == {s \in SUBSET S : \A y \in s : Total(f, s) = f[y] + Total(f, s \ {y})}
<1>0. \A s \in SUBSET S : IsFiniteSet(s) /\ Total(f, s) \in Nat
  <2>1. ASSUME NEW s \in SUBSET S PROVE IsFiniteSet(s) /\ Total(f, s) \in Nat
    <3>1. IsFiniteSet(s)  BY FS_Subset
    <3>2. \A y \in s : f[y] \in Nat  OBVIOUS
    <3> QED  BY <3>1, <3>2, TotalIsNat
  <2> QED  BY <2>1
<1>1. ASSUME NEW s \in SUBSET S, \A y \in s : s \ {y} \in G, NEW y \in s
      PROVE  Total(f, s) = f[y] + Total(f, s \ {y})
  <2> DEFINE p == Pick(s)
             t == (s \ {p}) \ {y}
  <2>1. p \in s /\ Total(f, s) = f[p] + Total(f, s \ {p})
    <3> HIDE DEF G
    <3> QED  BY <1>0, TotalUnfolds
  <2>2. CASE y = p  BY <2>1, <2>2
  <2>3. CASE y # p
    <3> HIDE DEF p
    <3>1. Total(f, s \ {p}) = f[y] + Total(f, (s \ {p}) \ {y})  BY <1>1, <2>1, <2>3
    <3>2. Total(f, s \ {y}) = f[p] + Total(f, (s \ {y}) \ {p})  BY <1>1, <2>1, <2>3
    <3>3. (s \ {y}) \ {p} = t  OBVIOUS
    <3>4. f[y] \in Nat /\ f[p] \in Nat /\ Total(f, t) \in Nat  BY <1>0, <2>1
    <3> HIDE DEF G
    <3>5. Total(f, s \ {p}) = f[y] + Total(f, t)  BY <3>1
    <3>6. Total(f, s \ {y}) = f[p] + Total(f, t)  BY <3>2, <3>3
    <3> HIDE DEF t
    <3> QED  BY <2>1, <3>4, <3>5, <3>6
  <2> QED  BY <2>2, <2>3
<1>2. \A s \in SUBSET S : (\A y \in s : s \ {y} \in G) => s \in G  BY <1>1
<1> HIDE DEF G
<1>3. S \in G
  <2>1. \A s \in SUBSET S : s \in G  BY <1>2, SubsetInduction
  <2> QED  BY <2>1
<1> QED  BY <1>3 DEF G

\* The sum over two sets with no common element is the sum of the sums.
LEMMA TotalOfUnion ==
  ASSUME NEW f, NEW A, IsFiniteSet(A), NEW B, IsFiniteSet(B), A \cap B = {},
         \A x \in A \cup B : f[x] \in Nat
  PROVE  Total(f, A \cup B) = Total(f, A) + Total(f, B)
<1> DEFINE G == {a \in SUBSET A : Total(f, a \cup B) = Total(f, a) + Total(f, B)}
<1>1. Total(f, B) \in Nat
  <2>1. \A x \in B : f[x] \in Nat  OBVIOUS
  <2> QED  BY <2>1, TotalIsNat
<1>2. ASSUME NEW a \in SUBSET A PROVE IsFiniteSet(a) /\ IsFiniteSet(a \cup B) /\ Total(f, a) \in Nat /\ Total(f, a \cup B) \in Nat
  <2>1. IsFiniteSet(a)  BY FS_Subset
  <2>2. IsFiniteSet(a \cup B)  BY <2>1, FS_Union
  <2>3. Total(f, a) \in Nat
    <3>1. \A x \in a : f[x] \in Nat  OBVIOUS
    <3> QED  BY <2>1, <3>1, TotalIsNat
  <2>4. Total(f, a \cup B) \in Nat
    <3>1. \A x \in a \cup B : f[x] \in Nat  OBVIOUS
    <3> QED  BY <2>2, <3>1, TotalIsNat
  <2> QED  BY <2>1, <2>2, <2>3, <2>4
<1>3. ASSUME NEW a \in SUBSET A, \A x \in a : a \ {x} \in G
      PROVE  Total(f, a \cup B) = Total(f, a) + Total(f, B)
  <2>1. CASE a = {}
    <3>1. Total(f, a) = 0
      <4> HIDE DEF G
      <4> QED  BY <1>2, <2>1, TotalUnfolds
    <3>2. a \cup B = B  BY <2>1
    <3>3. Total(f, a \cup B) = Total(f, B)  BY <3>2
    <3> QED  BY <1>1, <3>1, <3>3
  <2>2. CASE a # {}
    <3>1. PICK x \in a : TRUE  BY <2>2
    <3>2. Total(f, (a \ {x}) \cup B) = Total(f, a \ {x}) + Total(f, B)  BY <1>3, <3>1
    <3> HIDE DEF G
    <3>3. Total(f, a) = f[x] + Total(f, a \ {x})
      <4>1. \A y \in a : f[y] \in Nat  OBVIOUS
      <4>2. IsFiniteSet(a)  BY <1>2
      <4> QED  BY <4>1, <4>2, TotalWithout
    <3>4. Total(f, a \cup B) = f[x] + Total(f, (a \ {x}) \cup B)
      <4>1. \A y \in a \cup B : f[y] \in Nat  OBVIOUS
      <4>2. x \in a \cup B  OBVIOUS
      <4>3. Total(f, a \cup B) = f[x] + Total(f, (a \cup B) \ {x})
        <5> DEFINE c == a \cup B
        <5>1. IsFiniteSet(c)  BY <1>2
        <5>2. x \in c /\ \A y \in c : f[y] \in Nat  BY <4>1
        <5> HIDE DEF c
        <5>3. Total(f, c) = f[x] + Total(f, c \ {x})  BY <5>1, <5>2, TotalWithout
        <5> QED  BY <5>3 DEF c
      <4>4. (a \cup B) \ {x} = (a \ {x}) \cup B  OBVIOUS
      <4> QED  BY <4>3, <4>4
    <3>5. f[x] \in Nat /\ Total(f, a \ {x}) \in Nat  BY <1>2
    <3> QED  BY <1>1, <3>2, <3>3, <3>4, <3>5
  <2> QED  BY <2>1, <2>2
<1>4. \A a \in SUBSET A : (\A x \in a : a \ {x} \in G) => a \in G  BY <1>3
<1> HIDE DEF G
<1>5. A \in G
  <2>1. \A s \in SUBSET A : s \in G  BY <1>4, SubsetInduction
  <2> QED  BY <2>1
<1> QED  BY <1>5 DEF G

------------------------------------------------------------------------------
(* The pipeline page.                                                        *)

Worth == [o \in Ids |-> opportunity[o].value * Effective(o)]

\* What Weighted computes is the sum of what the rows are worth.
LEMMA WeightedIsTotal ==
  ASSUME NEW rows, rows \subseteq Ids, IsFiniteSet(rows)
  PROVE  Weighted(rows) = Total(Worth, rows)
<1> DEFINE worth(s) == opportunity[CHOOSE x \in s : TRUE].value
                         * Effective(CHOOSE x \in s : TRUE)
           Sums(h) == h = [s \in SUBSET rows |->
               IF s = {} THEN 0 ELSE worth(s) + h[s \ {CHOOSE x \in s : TRUE}]]
           h == CHOOSE h : Sums(h)
<1>1. Weighted(rows) = h[rows]
  BY DEF Weighted, MapThenSumSet, MapThenFoldSet
<1>2. ASSUME NEW s \in SUBSET rows, s # {} PROVE worth(s) = Worth[Pick(s)]
  BY <1>2 DEF Pick, Worth
<1> HIDE DEF worth
<1>3. ASSUME NEW k PROVE Sums(k) <=> IsSum(k, Worth, rows)
  BY <1>2 DEF IsSum, Pick
<1> HIDE DEF Sums
<1>4. \E k : Sums(k)
  <2>1. PICK k : IsSum(k, Worth, rows)  BY SumExists
  <2> QED  BY <1>3, <2>1
<1>5. Sums(h)  BY <1>4
<1> HIDE DEF h
<1>6. IsSum(h, Worth, rows)  BY <1>3, <1>5
<1>7. rows \in SUBSET rows  OBVIOUS
<1>8. h[rows] = Total(Worth, rows)  BY <1>6, <1>7, TotalIsSum
<1> QED  BY <1>1, <1>8

LEMMA OpenStagesFinite ==
  IsFiniteSet(OPEN_STAGES)
<1>1. IsFiniteSet({"lead"}) /\ IsFiniteSet({"qualified"}) /\ IsFiniteSet({"proposal"})
      /\ IsFiniteSet({"negotiation"})
  BY FS_Singleton
<1>2. IsFiniteSet({"lead"} \cup {"qualified"}) /\ IsFiniteSet({"proposal"} \cup {"negotiation"})
  BY <1>1, FS_Union
<1>3. IsFiniteSet(({"lead"} \cup {"qualified"}) \cup ({"proposal"} \cup {"negotiation"}))
  BY <1>2, FS_Union
<1>4. OPEN_STAGES = ({"lead"} \cup {"qualified"}) \cup ({"proposal"} \cup {"negotiation"})
  BY DEF OPEN_STAGES
<1> QED  BY <1>3, <1>4

\* A sum of one field of the columns is one of four numbers.
LEMMA TotalOfStages ==
  ASSUME NEW f, \A s \in OPEN_STAGES : f[s] \in Nat
  PROVE  Total(f, OPEN_STAGES)
           = f["lead"] + (f["qualified"] + (f["proposal"] + f["negotiation"]))
<1> DEFINE S1 == {"qualified", "proposal", "negotiation"}
           S2 == {"proposal", "negotiation"}
           S3 == {"negotiation"}
<1>1. /\ OPEN_STAGES \ {"lead"} = S1 /\ S1 \ {"qualified"} = S2 /\ S2 \ {"proposal"} = S3
      /\ S3 \ {"negotiation"} = {}
      /\ "lead" \in OPEN_STAGES /\ "qualified" \in S1 /\ "proposal" \in S2 /\ "negotiation" \in S3
      /\ S1 \subseteq OPEN_STAGES /\ S2 \subseteq OPEN_STAGES /\ S3 \subseteq OPEN_STAGES
  BY DEF OPEN_STAGES
<1>2. IsFiniteSet(OPEN_STAGES)  BY OpenStagesFinite
<1> HIDE DEF S1, S2, S3
<1>3. IsFiniteSet(S1) /\ IsFiniteSet(S2) /\ IsFiniteSet(S3)  BY <1>1, <1>2, FS_Subset
<1>4. Total(f, OPEN_STAGES) = f["lead"] + Total(f, S1)
  <2>1. Total(f, OPEN_STAGES) = f["lead"] + Total(f, OPEN_STAGES \ {"lead"})
    BY <1>1, <1>2, TotalWithout
  <2> QED  BY <1>1, <2>1
<1>5. Total(f, S1) = f["qualified"] + Total(f, S2)
  <2>1. \A s \in S1 : f[s] \in Nat  BY <1>1
  <2>2. Total(f, S1) = f["qualified"] + Total(f, S1 \ {"qualified"})
    BY <1>1, <1>3, <2>1, TotalWithout
  <2> QED  BY <1>1, <2>2
<1>6. Total(f, S2) = f["proposal"] + Total(f, S3)
  <2>1. \A s \in S2 : f[s] \in Nat  BY <1>1
  <2>2. Total(f, S2) = f["proposal"] + Total(f, S2 \ {"proposal"})
    BY <1>1, <1>3, <2>1, TotalWithout
  <2> QED  BY <1>1, <2>2
<1>7. Total(f, S3) = f["negotiation"] + 0
  <2>1. \A s \in S3 : f[s] \in Nat  BY <1>1
  <2>2. Total(f, S3) = f["negotiation"] + Total(f, S3 \ {"negotiation"})
    BY <1>1, <1>3, <2>1, TotalWithout
  <2>3. Total(f, {}) = 0  BY FS_EmptySet, TotalUnfolds
  <2>4. Total(f, S3 \ {"negotiation"}) = 0  BY <1>1, <2>3
  <2> QED  BY <2>2, <2>4
<1>8. f["negotiation"] \in Nat  BY DEF OPEN_STAGES
<1> QED  BY <1>4, <1>5, <1>6, <1>7, <1>8

\* The two sums that the page's figures are compared with.
LEMMA ColumnsAdd ==
  ASSUME NEW columns,
         \A s \in OPEN_STAGES : columns[s].weighted \in Nat /\ columns[s].count \in Nat
  PROVE  /\ MapThenSumSet(LAMBDA s : columns[s].weighted, OPEN_STAGES)
              = columns["lead"].weighted + (columns["qualified"].weighted
                  + (columns["proposal"].weighted + columns["negotiation"].weighted))
         /\ MapThenSumSet(LAMBDA s : columns[s].count, OPEN_STAGES)
              = columns["lead"].count + (columns["qualified"].count
                  + (columns["proposal"].count + columns["negotiation"].count))
<1> DEFINE f == [s \in OPEN_STAGES |-> columns[s].weighted]
           g == [s \in OPEN_STAGES |-> columns[s].count]
           Weights(h) == h = [s \in SUBSET OPEN_STAGES |->
               IF s = {} THEN 0 ELSE columns[CHOOSE x \in s : TRUE].weighted
                                     + h[s \ {CHOOSE x \in s : TRUE}]]
           Counts(h) == h = [s \in SUBSET OPEN_STAGES |->
               IF s = {} THEN 0 ELSE columns[CHOOSE x \in s : TRUE].count
                                     + h[s \ {CHOOSE x \in s : TRUE}]]
<1>1. /\ MapThenSumSet(LAMBDA s : columns[s].weighted, OPEN_STAGES)
           = (CHOOSE h : Weights(h))[OPEN_STAGES]
      /\ MapThenSumSet(LAMBDA s : columns[s].count, OPEN_STAGES)
           = (CHOOSE h : Counts(h))[OPEN_STAGES]
  BY DEF MapThenSumSet, MapThenFoldSet
<1>2. ASSUME NEW s \in SUBSET OPEN_STAGES, s # {}
      PROVE  /\ columns[CHOOSE x \in s : TRUE].weighted = f[Pick(s)]
             /\ columns[CHOOSE x \in s : TRUE].count = g[Pick(s)]
  BY <1>2 DEF Pick
<1>3. ASSUME NEW h PROVE /\ Weights(h) <=> IsSum(h, f, OPEN_STAGES)
                         /\ Counts(h) <=> IsSum(h, g, OPEN_STAGES)
  <2> HIDE DEF f, g
  <2>1. Weights(h) <=> IsSum(h, f, OPEN_STAGES)  BY <1>2 DEF IsSum, Pick
  <2>2. Counts(h) <=> IsSum(h, g, OPEN_STAGES)  BY <1>2 DEF IsSum, Pick
  <2> QED  BY <2>1, <2>2
<1>4. /\ \A s \in OPEN_STAGES : f[s] \in Nat /\ f[s] = columns[s].weighted
      /\ \A s \in OPEN_STAGES : g[s] \in Nat /\ g[s] = columns[s].count
  OBVIOUS
<1>5. IsFiniteSet(OPEN_STAGES) /\ OPEN_STAGES \in SUBSET OPEN_STAGES
  BY OpenStagesFinite
<1>6. {"lead", "qualified", "proposal", "negotiation"} \subseteq OPEN_STAGES  BY DEF OPEN_STAGES
<1> HIDE DEF f, g, Weights, Counts
<1>7. (CHOOSE h : Weights(h))[OPEN_STAGES] = Total(f, OPEN_STAGES)
  <2> DEFINE h == CHOOSE h : Weights(h)
  <2>1. PICK k : IsSum(k, f, OPEN_STAGES)  BY <1>5, SumExists
  <2>2. Weights(h)  BY <1>3, <2>1
  <2> HIDE DEF h
  <2>3. IsSum(h, f, OPEN_STAGES)  BY <1>3, <2>2
  <2>4. h[OPEN_STAGES] = Total(f, OPEN_STAGES)  BY <1>5, <2>3, TotalIsSum, ZenonT(60)
  <2> QED  BY <2>4 DEF h
<1>8. (CHOOSE h : Counts(h))[OPEN_STAGES] = Total(g, OPEN_STAGES)
  <2> DEFINE h == CHOOSE h : Counts(h)
  <2>1. PICK k : IsSum(k, g, OPEN_STAGES)  BY <1>5, SumExists
  <2>2. Counts(h)  BY <1>3, <2>1
  <2> HIDE DEF h
  <2>3. IsSum(h, g, OPEN_STAGES)  BY <1>3, <2>2
  <2>4. h[OPEN_STAGES] = Total(g, OPEN_STAGES)  BY <1>5, <2>3, TotalIsSum, ZenonT(60)
  <2> QED  BY <2>4 DEF h
<1>9. Total(f, OPEN_STAGES)
        = f["lead"] + (f["qualified"] + (f["proposal"] + f["negotiation"]))
  BY <1>4, TotalOfStages
<1>10. Total(g, OPEN_STAGES)
         = g["lead"] + (g["qualified"] + (g["proposal"] + g["negotiation"]))
  BY <1>4, TotalOfStages
<1>11. MapThenSumSet(LAMBDA s : columns[s].weighted, OPEN_STAGES) = Total(f, OPEN_STAGES)
  BY <1>1, <1>7
<1>12. MapThenSumSet(LAMBDA s : columns[s].count, OPEN_STAGES) = Total(g, OPEN_STAGES)
  BY <1>1, <1>8
<1> QED  BY <1>4, <1>6, <1>9, <1>10, <1>11, <1>12

\* The rows of the opportunities, and the pages that are being read: their answers are those of
\* the tables as they are, since a commit tears them.
RowsFinite == IsFiniteSet({o \in Ids : opportunity[o] # None})

ReadNow(q) ==
    /\ Len(q.got) \in Nat /\ DOMAIN q.got = 1 .. Len(q.got)
    /\ q.pc # "viewing" => Len(q.got) = 0
    /\ \A n \in 1 .. Len(q.got) : q.got[n] = Answer(n, q.scope)

PInv == RowsFinite /\ \A r \in Requests : ReadNow(req[r])

\* Each row of the scope is in one column, and the open ones in one of four.
LEMMA ColumnsPartition ==
  ASSUME IInv, RowsFinite, NEW scope
  PROVE  /\ \A stages : At(scope, stages) \subseteq Ids /\ IsFiniteSet(At(scope, stages))
         /\ At(scope, OPEN_STAGES)
              = At(scope, {"lead"}) \cup (At(scope, {"qualified"})
                  \cup (At(scope, {"proposal"}) \cup At(scope, {"negotiation"})))
         /\ At(scope, Closed(ALL_STAGES)) = At(scope, {"won"}) \cup At(scope, {"lost"})
         /\ \A s, t : s # t => At(scope, {s}) \cap At(scope, {t}) = {}
<1>1. ASSUME NEW stages
      PROVE  At(scope, stages) \subseteq Ids /\ IsFiniteSet(At(scope, stages))
  <2>1. At(scope, stages) \subseteq {o \in Ids : opportunity[o] # None}  BY DEF At, InScope
  <2>2. IsFiniteSet(At(scope, stages))  BY <2>1, FS_Subset DEF RowsFinite
  <2> QED  BY <2>1, <2>2
<1>2. At(scope, OPEN_STAGES)
        = At(scope, {"lead"}) \cup (At(scope, {"qualified"})
            \cup (At(scope, {"proposal"}) \cup At(scope, {"negotiation"})))
  BY DEF At, OPEN_STAGES
<1>3. At(scope, Closed(ALL_STAGES)) = At(scope, {"won"}) \cup At(scope, {"lost"})
  BY DEF At, Closed, ALL_STAGES, CLOSED_STAGES
<1>4. \A s, t : s # t => At(scope, {s}) \cap At(scope, {t}) = {}  BY DEF At
<1> QED  BY <1>1, <1>2, <1>3, <1>4

LEMMA WorthIsNat ==
  ASSUME IInv, NEW scope, NEW stages, NEW o \in At(scope, stages)
  PROVE  Worth[o] \in Nat
<1>1. o \in Ids /\ opportunity[o] \in Opportunity
  BY DEF IInv, TypeOK, At, InScope
<1>2. defaults \in [ALL_STAGES -> 0 .. Parts]  BY CrmAssumption DEF IInv, TypeOK
<1>3. opportunity[o].value \in Nat /\ opportunity[o].stage \in ALL_STAGES
  BY <1>1 DEF Opportunity
<1>4. Effective(o) \in 0 .. Parts
  BY <1>1, <1>2, <1>3 DEF Effective, Opportunity
<1>5. \A x \in Nat : \A y \in 0 .. Parts : x * y \in Nat  BY CrmAssumption
<1> QED  BY <1>1, <1>3, <1>4, <1>5 DEF Worth

\* Two columns together.
LEMMA Joined ==
  ASSUME NEW A, A \subseteq Ids, IsFiniteSet(A), NEW B, B \subseteq Ids, IsFiniteSet(B),
         A \cap B = {}, \A o \in A \cup B : Worth[o] \in Nat
  PROVE  /\ A \cup B \subseteq Ids /\ IsFiniteSet(A \cup B)
         /\ Cardinality(A \cup B) = Cardinality(A) + Cardinality(B)
         /\ Weighted(A \cup B) = Weighted(A) + Weighted(B)
<1>1. IsFiniteSet(A \cup B)  BY FS_Union
<1>2. Cardinality(A \cap B) = 0  BY FS_EmptySet
<1>3. Cardinality(A) \in Nat /\ Cardinality(B) \in Nat  BY FS_CardinalityType
<1>4. Cardinality(A \cup B) = Cardinality(A) + Cardinality(B) - Cardinality(A \cap B)
  BY FS_Union
<1>5. Cardinality(A \cup B) = Cardinality(A) + Cardinality(B)  BY <1>2, <1>3, <1>4
<1>6. Total(Worth, A \cup B) = Total(Worth, A) + Total(Worth, B)  BY TotalOfUnion
<1>7. Weighted(A) = Total(Worth, A) /\ Weighted(B) = Total(Worth, B)  BY WeightedIsTotal
<1>8. Weighted(A \cup B) = Total(Worth, A \cup B)
  <2> DEFINE C == A \cup B
  <2>1. C \subseteq Ids /\ IsFiniteSet(C)  BY <1>1
  <2> HIDE DEF C
  <2>2. Weighted(C) = Total(Worth, C)  BY <2>1, WeightedIsTotal
  <2> QED  BY <2>2 DEF C
<1> QED  BY <1>1, <1>5, <1>6, <1>7, <1>8

\* Rounding a sum to cents is off by half a cent at most.
LEMMA CentsAreNear ==
  ASSUME NEW x \in Nat
  PROVE  /\ Cents(x) \in Nat
         /\ (2 * Parts) * Cents(x) <= 2 * x + Parts
         /\ 2 * x < (2 * Parts) * Cents(x) + Parts
<1> DEFINE n == 2 * x + Parts
           d == 2 * Parts
<1>1. n \in Nat /\ d \in Nat /\ d > 0  BY CrmAssumption
<1>2. Cents(x) = n \div d  BY DEF Cents
<1>3. n = d + (2 * x - Parts) /\ Parts \in Nat  BY CrmAssumption
<1> HIDE DEF n, d
<1>4. n \div d \in Int /\ n % d \in 0 .. d - 1 /\ n = d * (n \div d) + (n % d)
  BY <1>1
<1>5. n \div d >= 0  BY <1>1, <1>4
<1>6. d * (n \div d) <= n /\ n < d * (n \div d) + d  BY <1>1, <1>4
<1> QED  BY <1>2, <1>3, <1>5, <1>4, <1>6 DEF n, d

\* Four sums rounded one by one and their sum rounded once differ by two cents at most.
LEMMA RoundedSums ==
  ASSUME NEW a \in Nat, NEW b \in Nat, NEW c \in Nat, NEW d \in Nat
  PROVE  (Cents(a) + (Cents(b) + (Cents(c) + Cents(d)))) - Cents(a + (b + (c + d))) \in -2 .. 2
<1> DEFINE n == Cents(a) + (Cents(b) + (Cents(c) + Cents(d)))
           t == Cents(a + (b + (c + d)))
           p == 2 * Parts
<1>1. Parts \in Nat /\ Parts > 0  BY CrmAssumption
<1>2. /\ Cents(a) \in Nat /\ p * Cents(a) <= 2 * a + Parts /\ 2 * a < p * Cents(a) + Parts
      /\ Cents(b) \in Nat /\ p * Cents(b) <= 2 * b + Parts /\ 2 * b < p * Cents(b) + Parts
      /\ Cents(c) \in Nat /\ p * Cents(c) <= 2 * c + Parts /\ 2 * c < p * Cents(c) + Parts
      /\ Cents(d) \in Nat /\ p * Cents(d) <= 2 * d + Parts /\ 2 * d < p * Cents(d) + Parts
  BY CentsAreNear
<1>3. /\ t \in Nat /\ p * t <= 2 * (a + (b + (c + d))) + Parts
      /\ 2 * (a + (b + (c + d))) < p * t + Parts
  BY CentsAreNear
<1>4. p \in Nat /\ p = 2 * Parts  BY <1>1
<1> HIDE DEF p
<1>5. p * n = p * Cents(a) + p * Cents(b) + p * Cents(c) + p * Cents(d) /\ n \in Nat
  BY <1>2, <1>4
<1> HIDE DEF t, n
<1>6. p * n < p * t + 5 * Parts /\ p * t < p * n + 5 * Parts
  BY <1>1, <1>2, <1>3, <1>4, <1>5
<1>7. ~(n >= t + 3)
  <2> SUFFICES ASSUME n >= t + 3 PROVE FALSE  OBVIOUS
  <2>1. PICK k \in Nat : n = t + 3 + k
    <3>1. n - (t + 3) \in Nat /\ n = t + 3 + (n - (t + 3))  BY <1>3, <1>5
    <3> QED  BY <3>1
  <2>2. p * n = p * t + p * 3 + p * k  BY <1>3, <1>4, <1>5, <2>1
  <2>3. p * k \in Nat  BY <1>4
  <2>4. p * 3 = 6 * Parts  BY <1>1, <1>4
  <2>5. p * n \in Int /\ p * t \in Int  BY <1>3, <1>4, <1>5
  <2> QED  BY <1>1, <1>6, <2>2, <2>3, <2>4, <2>5
<1>8. ~(t >= n + 3)
  <2> SUFFICES ASSUME t >= n + 3 PROVE FALSE  OBVIOUS
  <2>1. PICK k \in Nat : t = n + 3 + k
    <3>1. t - (n + 3) \in Nat /\ t = n + 3 + (t - (n + 3))  BY <1>3, <1>5
    <3> QED  BY <3>1
  <2>2. p * t = p * n + p * 3 + p * k  BY <1>3, <1>4, <1>5, <2>1
  <2>3. p * k \in Nat  BY <1>4
  <2>4. p * 3 = 6 * Parts  BY <1>1, <1>4
  <2>5. p * n \in Int /\ p * t \in Int  BY <1>3, <1>4, <1>5
  <2> QED  BY <1>1, <1>6, <2>2, <2>3, <2>4, <2>5
<1>9. n - t \in -2 .. 2  BY <1>3, <1>5, <1>7, <1>8
<1> QED  BY <1>9 DEF n, t

\* The figures of one moment agree.
LEMMA FiguresAgree ==
  ASSUME IInv, RowsFinite, NEW scope
  PROVE  /\ \A s \in ALL_STAGES : Figures(scope)[s].count = Cardinality(Cards(scope)[s])
         /\ MapThenSumSet(LAMBDA s : Figures(scope)[s].weighted, OPEN_STAGES)
              - Cents(Weighted(At(scope, OPEN_STAGES))) \in -2 .. 2
         /\ Conversion(scope)
              = [won |-> Figures(scope)["won"].count,
                 closed |-> Figures(scope)["won"].count + Figures(scope)["lost"].count]
         /\ Cardinality(At(scope, OPEN_STAGES))
              = MapThenSumSet(LAMBDA s : Figures(scope)[s].count, OPEN_STAGES)
<1> DEFINE F == Figures(scope)
           C(s) == At(scope, {s})
<1>1. \A s \in ALL_STAGES : /\ F[s].count = Cardinality(C(s)) /\ F[s].weighted = Cents(Weighted(C(s)))
                            /\ Cards(scope)[s] = C(s)
  BY DEF Figures, Cards
<1>2. \A s : /\ C(s) \subseteq Ids /\ IsFiniteSet(C(s)) /\ Cardinality(C(s)) \in Nat
             /\ \A o \in C(s) : Worth[o] \in Nat
  BY ColumnsPartition, WorthIsNat, FS_CardinalityType
<1>3. \A s : Weighted(C(s)) \in Nat
  <2> SUFFICES ASSUME NEW s PROVE Weighted(C(s)) \in Nat
    OBVIOUS
  <2> HIDE DEF C
  <2>1. Total(Worth, C(s)) \in Nat  BY <1>2, TotalIsNat
  <2>2. Weighted(C(s)) = Total(Worth, C(s))  BY <1>2, WeightedIsTotal
  <2> QED  BY <2>1, <2>2
<1>4. /\ At(scope, OPEN_STAGES)
           = C("lead") \cup (C("qualified") \cup (C("proposal") \cup C("negotiation")))
      /\ At(scope, Closed(ALL_STAGES)) = C("won") \cup C("lost")
      /\ \A s, t : s # t => C(s) \cap C(t) = {}
  BY ColumnsPartition
<1>5. /\ "won" \in ALL_STAGES /\ "lost" \in ALL_STAGES /\ OPEN_STAGES \subseteq ALL_STAGES
      /\ "lead" \in OPEN_STAGES /\ "qualified" \in OPEN_STAGES /\ "proposal" \in OPEN_STAGES
      /\ "negotiation" \in OPEN_STAGES
  BY DEF ALL_STAGES, OPEN_STAGES, CLOSED_STAGES
<1> HIDE DEF C
<1>6. Conversion(scope) = [won |-> F["won"].count, closed |-> F["won"].count + F["lost"].count]
  <2>1. Cardinality(C("won") \cup C("lost")) = Cardinality(C("won")) + Cardinality(C("lost"))
    BY <1>2, <1>4, Joined
  <2>2. Conversion(scope) = [won |-> Cardinality(C("won")),
                             closed |-> Cardinality(C("won") \cup C("lost"))]
    BY <1>4 DEF Conversion, C
  <2> QED  BY <1>1, <1>5, <2>1, <2>2
<1> DEFINE D3 == C("proposal") \cup C("negotiation")
           D2 == C("qualified") \cup D3
           D1 == C("lead") \cup D2
<1>7. /\ C("lead") \cap D2 = {} /\ C("qualified") \cap D3 = {}
      /\ C("proposal") \cap C("negotiation") = {}
  BY <1>4
<1>8. /\ \A o \in D3 : Worth[o] \in Nat
      /\ \A o \in D2 : Worth[o] \in Nat
      /\ \A o \in D1 : Worth[o] \in Nat
  BY <1>2
<1>9. /\ D3 \subseteq Ids /\ IsFiniteSet(D3)
      /\ Cardinality(D3) = Cardinality(C("proposal")) + Cardinality(C("negotiation"))
      /\ Weighted(D3) = Weighted(C("proposal")) + Weighted(C("negotiation"))
  BY <1>2, <1>7, <1>8, Joined
<1>10. /\ D2 \subseteq Ids /\ IsFiniteSet(D2)
       /\ Cardinality(D2) = Cardinality(C("qualified")) + Cardinality(D3)
       /\ Weighted(D2) = Weighted(C("qualified")) + Weighted(D3)
  <2> HIDE DEF D3
  <2> QED  BY <1>2, <1>7, <1>8, <1>9, Joined
<1>11. /\ Cardinality(D1) = Cardinality(C("lead")) + Cardinality(D2)
       /\ Weighted(D1) = Weighted(C("lead")) + Weighted(D2)
  <2> HIDE DEF D2
  <2> QED  BY <1>2, <1>7, <1>8, <1>10, Joined
<1>12. At(scope, OPEN_STAGES) = D1  BY <1>4
<1> HIDE DEF D1, D2, D3, F
<1>13. \A s \in OPEN_STAGES : F[s].weighted \in Nat /\ F[s].count \in Nat
  BY <1>1, <1>2, <1>3, <1>5, CentsAreNear
<1>14. MapThenSumSet(LAMBDA s : F[s].weighted, OPEN_STAGES)
         = F["lead"].weighted + (F["qualified"].weighted
             + (F["proposal"].weighted + F["negotiation"].weighted))
  BY <1>13, ColumnsAdd
<1>15. MapThenSumSet(LAMBDA s : F[s].count, OPEN_STAGES)
         = F["lead"].count + (F["qualified"].count
             + (F["proposal"].count + F["negotiation"].count))
  BY <1>13, ColumnsAdd
<1>16. MapThenSumSet(LAMBDA s : F[s].weighted, OPEN_STAGES)
         - Cents(Weighted(At(scope, OPEN_STAGES))) \in -2 .. 2
  <2> DEFINE W(s) == Weighted(C(s))
  <2>1. \A s \in OPEN_STAGES : F[s].weighted = Cents(W(s))  BY <1>1, <1>5
  <2>2. Weighted(At(scope, OPEN_STAGES))
          = W("lead") + (W("qualified") + (W("proposal") + W("negotiation")))
    BY <1>9, <1>10, <1>11, <1>12
  <2>3. \A s : W(s) \in Nat  BY <1>3
  <2> HIDE DEF W
  <2> QED  BY <1>5, <1>14, <2>1, <2>2, <2>3, RoundedSums
<1>17. Cardinality(At(scope, OPEN_STAGES)) = MapThenSumSet(LAMBDA s : F[s].count, OPEN_STAGES)
  BY <1>1, <1>5, <1>9, <1>10, <1>11, <1>12, <1>15
<1>18. \A s \in ALL_STAGES : F[s].count = Cardinality(Cards(scope)[s])  BY <1>1
<1> QED  BY <1>6, <1>16, <1>17, <1>18 DEF F

\* What a page has read stays true while nothing is committed.
LEMMA WeightedStays ==
  ASSUME UNCHANGED <<opportunity, defaults>>, NEW rows
  PROVE  Weighted(rows)' = Weighted(rows)
<1>1. \A o : Effective(o)' = Effective(o)  BY DEF Effective
<1> QED  BY <1>1, ZenonT(60) DEF Weighted, MapThenSumSet, MapThenFoldSet

LEMMA AnswersStay ==
  ASSUME UNCHANGED <<opportunity, defaults>>, NEW n, NEW scope
  PROVE  Answer(n, scope)' = Answer(n, scope)
<1>1. \A stages : At(scope, stages)' = At(scope, stages)  BY DEF At, InScope
<1>2. \A rows : Weighted(rows)' = Weighted(rows)  BY WeightedStays
<1>3. Figures(scope)' = Figures(scope)
  <2>1. \A s : /\ Cardinality(At(scope, {s}))' = Cardinality(At(scope, {s}))
               /\ Cents(Weighted(At(scope, {s})))' = Cents(Weighted(At(scope, {s})))
    BY <1>1, <1>2 DEF Cents
  <2> QED  BY <2>1 DEF Figures
<1>4. Cards(scope)' = Cards(scope)  BY <1>1 DEF Cards
<1>5. Conversion(scope)' = Conversion(scope)  BY <1>1 DEF Conversion
<1>6. Cents(Weighted(At(scope, OPEN_STAGES)))' = Cents(Weighted(At(scope, OPEN_STAGES)))
  BY <1>1, <1>2 DEF Cents
<1>7. Cardinality(At(scope, OPEN_STAGES))' = Cardinality(At(scope, OPEN_STAGES))  BY <1>1
<1> QED  BY <1>3, <1>4, <1>5, <1>6, <1>7 DEF Answer

\* A request that has read nothing of a page.
Bare(q) == q.pc # "viewing" /\ Len(q.got) = 0 /\ DOMAIN q.got = 1 .. 0

LEMMA BareReads ==
  ASSUME NEW q, Bare(q)
  PROVE  ReadNow(q)
BY DEF Bare, ReadNow

LEMMA NothingRead ==
  ASSUME PInv
  PROVE  /\ Bare(Idle)
         /\ \A pc \in {"patching", "torn"} : \A scope, on, loaded, seen :
               Bare(Fresh(pc, scope, on, loaded, seen))
         /\ \A r \in Requests : req[r].pc # "viewing" => Bare(req[r])
         /\ \A r \in Requests : Bare(Torn[r])
<1>1. Len(<<>>) = 0 /\ DOMAIN <<>> = 1 .. 0  OBVIOUS
<1>2. \A pc, scope, on, loaded, seen : pc # "viewing" => Bare(Fresh(pc, scope, on, loaded, seen))
  BY <1>1 DEF Bare, Fresh
<1>3. Bare(Idle)  BY <1>2 DEF Idle
<1>4. \A r \in Requests : req[r].pc # "viewing" => Bare(req[r])
  BY DEF PInv, ReadNow, Bare
<1>5. \A r \in Requests : Bare(Torn[r])  BY <1>2, <1>4 DEF Torn
<1> QED  BY <1>2, <1>3, <1>4, <1>5

\* A commit leaves no page half read.
LEMMA CommitKeeps ==
  ASSUME RowsFinite', \A r \in Requests : Bare(req'[r])
  PROVE  PInv'
<1> SUFFICES ASSUME NEW r \in Requests PROVE ReadNow(req[r])'
  BY DEF PInv
<1>1. Bare(req'[r])  OBVIOUS
<1>2. Len(req'[r].got) = 0 /\ DOMAIN req'[r].got = 1 .. 0 /\ req'[r].pc # "viewing"
  BY <1>1 DEF Bare
<1> QED  BY <1>2 DEF ReadNow

\* A step of one request that commits nothing.
LEMMA ReaderKeeps ==
  ASSUME IInv, PInv, UNCHANGED <<defaults, opportunity>>, NEW r \in Requests,
         \A q \in Requests \ {r} : req'[q] = req[q], ReadNow(req[r])'
  PROVE  PInv'
<1>1. RowsFinite'  BY DEF PInv, RowsFinite
<1>2. ASSUME NEW q \in Requests \ {r} PROVE ReadNow(req[q])'
  <2>1. ReadNow(req[q])  BY DEF PInv
  <2>2. req'[q] = req[q]  OBVIOUS
  <2>3. \A n, scope : Answer(n, scope)' = Answer(n, scope)  BY AnswersStay
  <2> QED  BY <2>1, <2>2, <2>3 DEF ReadNow
<1> QED  BY <1>1, <1>2 DEF PInv

\* The next query answers from the tables that the earlier ones have seen.
LEMMA QueryReads ==
  ASSUME IInv, PInv, NEW r \in Requests, Query(r)
  PROVE  PInv'
<1> DEFINE before == req[r].got
           got == Append(before, Answer(Len(before) + 1, req[r].scope))
<1>1. /\ req[r].pc = "viewing" /\ UNCHANGED <<users, defaults, opportunity, history>>
      /\ req' = [req EXCEPT ![r].got = got]
  BY RequestsAreShaped DEF Query
<1>2. ReadNow(req[r])  BY DEF PInv
<1>3. /\ Len(before) \in Nat /\ DOMAIN before = 1 .. Len(before)
      /\ \A n \in 1 .. Len(before) : before[n] = Answer(n, req[r].scope)
  BY <1>2 DEF ReadNow
<1>4. /\ Len(got) = Len(before) + 1 /\ DOMAIN got = 1 .. Len(before) + 1
      /\ \A n \in 1 .. Len(before) : got[n] = before[n]
      /\ got[Len(before) + 1] = Answer(Len(before) + 1, req[r].scope)
  BY <1>3
<1> HIDE DEF got
<1>5. /\ req'[r].got = got /\ req'[r].pc = "viewing" /\ req'[r].scope = req[r].scope
      /\ \A q \in Requests \ {r} : req'[q] = req[q]
  BY <1>1, RequestsAreShaped DEF Shaped
<1>6. \A n, scope : Answer(n, scope)' = Answer(n, scope)  BY <1>1, AnswersStay
<1>7. ASSUME NEW n \in 1 .. Len(got) PROVE got[n] = Answer(n, req[r].scope)
  <2>1. n \in 1 .. Len(before) \/ n = Len(before) + 1  BY <1>3, <1>4
  <2> QED  BY <1>3, <1>4, <2>1
<1>8. Len(got) \in Nat /\ DOMAIN got = 1 .. Len(got)  BY <1>3, <1>4
<1>9. ReadNow(req[r])'
  BY <1>5, <1>6, <1>7, <1>8 DEF ReadNow
<1> QED  BY <1>1, <1>5, <1>9, ReaderKeeps

\* A step after which the request has read nothing.
LEMMA StartsBare ==
  ASSUME IInv, PInv, UNCHANGED <<defaults, opportunity>>, NEW r \in Requests, NEW q,
         req' = [req EXCEPT ![r] = q], ReadNow(q)
  PROVE  PInv'
<1>1. \A p \in Requests \ {r} : req'[p] = req[p]  BY RequestsAreShaped
<1>2. req'[r] = q  BY RequestsAreShaped
<1>3. \A n, scope : Answer(n, scope)' = Answer(n, scope)  BY AnswersStay
<1>4. ReadNow(req[r])'  BY <1>2, <1>3 DEF ReadNow
<1> QED  BY <1>1, <1>4, ReaderKeeps

\* Every step keeps the pages: it commits nothing, or it tears them.
LEMMA PagesKept ==
  IInv /\ PInv /\ [Next]_vars => PInv'
<1> SUFFICES ASSUME IInv, PInv, [Next]_vars PROVE PInv'
  OBVIOUS
<1>1. CASE UNCHANGED vars
  <2>1. UNCHANGED <<defaults, opportunity, req>>  BY <1>1 DEF vars
  <2>2. \A n, scope : Answer(n, scope)' = Answer(n, scope)  BY <2>1, AnswersStay
  <2>3. RowsFinite'  BY <2>1 DEF PInv, RowsFinite
  <2>4. \A r \in Requests : ReadNow(req[r])'  BY <2>1, <2>2 DEF PInv, ReadNow
  <2> QED  BY <2>3, <2>4 DEF PInv
<1>2. ASSUME NEW admin \in Users, NEW u \in Users, NEW role \in Roles \cup {None},
             NEW rep \in Reps \cup {None}, UpdateUser(admin, u, role, rep)
      PROVE  PInv'
  <2>1. UNCHANGED <<defaults, opportunity, req>>  BY <1>2 DEF UpdateUser
  <2>2. \A n, scope : Answer(n, scope)' = Answer(n, scope)  BY <2>1, AnswersStay
  <2>3. RowsFinite'  BY <2>1 DEF PInv, RowsFinite
  <2>4. \A r \in Requests : ReadNow(req[r])'  BY <2>1, <2>2 DEF PInv, ReadNow
  <2> QED  BY <2>3, <2>4 DEF PInv
<1>3. ASSUME NEW u \in Users, NEW probabilities \in Defaults, SetDefaults(u, probabilities)
      PROVE  PInv'
  <2>1. req' = Torn /\ opportunity' = opportunity  BY <1>3 DEF SetDefaults
  <2>2. RowsFinite'  BY <2>1 DEF PInv, RowsFinite
  <2>3. \A r \in Requests : Bare(req'[r])  BY <2>1, NothingRead
  <2> QED  BY <2>2, <2>3, CommitKeeps
<1>4. ASSUME NEW o \in Ids, NEW u \in Users, NEW c \in Customers, NEW body \in Bodies,
             Create(o, u, c, body)
      PROVE  PInv'
  <2>1. /\ req' = Torn
        /\ \A p \in Ids \ {o} : opportunity'[p] = opportunity[p]
    BY <1>4 DEF Create, IInv, TypeOK
  <2>2. RowsFinite'
    <3> DEFINE before == {p \in Ids : opportunity[p] # None}
               after == {p \in Ids : opportunity'[p] # None}
    <3>1. after \subseteq before \cup {o}  BY <2>1
    <3>2. IsFiniteSet(before)  BY DEF PInv, RowsFinite
    <3> HIDE DEF before, after
    <3>3. IsFiniteSet(before \cup {o})  BY <3>2, FS_AddElement
    <3>4. IsFiniteSet(after)  BY <3>1, <3>3, FS_Subset
    <3> QED  BY <3>4 DEF RowsFinite, after
  <2>3. \A r \in Requests : Bare(req'[r])  BY <2>1, NothingRead
  <2> QED  BY <2>2, <2>3, CommitKeeps
<1>5. ASSUME NEW r \in Requests, NEW u \in Users, NEW o \in Ids, Open(r, u, o)
      PROVE  PInv'
  <2> DEFINE q == Fresh("patching", {}, o, opportunity[o], Len(history[o]))
  <2>1. UNCHANGED <<defaults, opportunity>> /\ req' = [req EXCEPT ![r] = q]
    BY <1>5 DEF Open
  <2>2. ReadNow(q)
    <3>1. Bare(q)  BY NothingRead
    <3> QED  BY <3>1, BareReads
  <2> HIDE DEF q
  <2> QED  BY <2>1, <2>2, StartsBare
<1>6. ASSUME NEW r \in Requests, NEW body \in Bodies, Patch(r, body)
      PROVE  PInv'
  <2> DEFINE o == req[r].on
  <2>1. /\ req[r].pc = "patching" /\ req' = [Torn EXCEPT ![r] = Idle]
        /\ \A p \in Ids \ {o} : opportunity'[p] = opportunity[p]
    BY <1>6 DEF Patch, IInv, TypeOK
  <2>2. o \in Ids /\ opportunity[o] # None
    BY <2>1 DEF IInv, TypeOK, PatchesReadTheHistory
  <2>3. RowsFinite'
    <3> DEFINE before == {p \in Ids : opportunity[p] # None}
               after == {p \in Ids : opportunity'[p] # None}
    <3>1. after \subseteq before  BY <2>1, <2>2
    <3>2. IsFiniteSet(before)  BY DEF PInv, RowsFinite
    <3> HIDE DEF before
    <3>3. IsFiniteSet(after)  BY <3>1, <3>2, FS_Subset
    <3> QED  BY <3>3 DEF RowsFinite
  <2>4. \A q \in Requests : req'[q] = Idle \/ req'[q] = Torn[q]
    BY <2>1, RequestsAreShaped, TornKeepsPatches
  <2>5. \A q \in Requests : Bare(req'[q])  BY <2>4, NothingRead
  <2> QED  BY <2>3, <2>5, CommitKeeps
<1>7. ASSUME NEW r \in Requests, NEW u \in Users, View(r, u)
      PROVE  PInv'
  <2> DEFINE q == Fresh("viewing", Visible(u), None, None, 0)
  <2>1. UNCHANGED <<defaults, opportunity>> /\ req' = [req EXCEPT ![r] = q]
    BY <1>7 DEF View
  <2>2. q.got = <<>>  BY DEF Fresh
  <2>3. Len(<<>>) = 0 /\ DOMAIN <<>> = 1 .. 0  OBVIOUS
  <2> HIDE DEF q
  <2>4. ReadNow(q)  BY <2>2, <2>3 DEF ReadNow
  <2> QED  BY <2>1, <2>4, StartsBare
<1>8. ASSUME NEW r \in Requests, Query(r) \/ Respond(r)
      PROVE  PInv'
  <2>1. CASE Query(r)  BY <2>1, QueryReads
  <2>2. CASE Respond(r)
    <3>1. UNCHANGED <<defaults, opportunity>> /\ req' = [req EXCEPT ![r] = Idle]
      BY <2>2 DEF Respond
    <3>2. ReadNow(Idle)  BY NothingRead, BareReads
    <3> HIDE DEF Idle
    <3> QED  BY <3>1, <3>2, StartsBare
  <2> QED  BY <1>8, <2>1, <2>2
<1> QED  BY <1>1, <1>2, <1>3, <1>4, <1>5, <1>6, <1>7, <1>8 DEF Next

LEMMA PagesBegin ==
  Init => PInv
<1> SUFFICES ASSUME Init PROVE PInv
  OBVIOUS
<1>1. {o \in Ids : opportunity[o] # None} = {}  BY DEF Init
<1>2. RowsFinite  BY <1>1, FS_EmptySet DEF RowsFinite
<1>3. Len(<<>>) = 0 /\ DOMAIN <<>> = 1 .. 0  OBVIOUS
<1>4. Bare(Idle)  BY <1>3 DEF Bare, Idle, Fresh
<1>5. \A r \in Requests : ReadNow(req[r])  BY <1>4, BareReads DEF Init
<1> QED  BY <1>2, <1>5 DEF PInv

\* A page that has its five answers has them of one state.
LEMMA CompletePagesAgree ==
  IInv /\ PInv => PipelineAgrees
<1> SUFFICES ASSUME IInv, PInv, NEW r \in Requests, Len(req[r].got) = 5
             PROVE  LET columns == req[r].got[1]
                        cards == req[r].got[2]
                        Sum(Figure(_)) == MapThenSumSet(Figure, OPEN_STAGES)
                    IN  /\ \A s \in ALL_STAGES : columns[s].count = Cardinality(cards[s])
                        /\ Sum(LAMBDA s : columns[s].weighted) - req[r].got[3] \in -2 .. 2
                        /\ req[r].got[4] = [won |-> columns["won"].count,
                                            closed |-> columns["won"].count + columns["lost"].count]
                        /\ req[r].got[5] = Sum(LAMBDA s : columns[s].count)
  BY DEF PipelineAgrees
<1> DEFINE scope == req[r].scope
<1>1. RowsFinite /\ ReadNow(req[r])  BY DEF PInv
<1>2. \A n \in 1 .. 5 : req[r].got[n] = Answer(n, scope)  BY <1>1 DEF ReadNow
<1>3. /\ Answer(1, scope) = Figures(scope)
      /\ Answer(2, scope) = Cards(scope)
      /\ Answer(3, scope) = Cents(Weighted(At(scope, OPEN_STAGES)))
      /\ Answer(4, scope) = Conversion(scope)
      /\ Answer(5, scope) = Cardinality(At(scope, OPEN_STAGES))
  BY DEF Answer
<1>4. /\ req[r].got[1] = Figures(scope)
      /\ req[r].got[2] = Cards(scope)
      /\ req[r].got[3] = Cents(Weighted(At(scope, OPEN_STAGES)))
      /\ req[r].got[4] = Conversion(scope)
      /\ req[r].got[5] = Cardinality(At(scope, OPEN_STAGES))
  BY <1>2, <1>3
<1> HIDE DEF scope
<1> DEFINE F == Figures(scope)
<1>5. /\ \A s \in ALL_STAGES : F[s].count = Cardinality(Cards(scope)[s])
      /\ MapThenSumSet(LAMBDA s : F[s].weighted, OPEN_STAGES)
           - Cents(Weighted(At(scope, OPEN_STAGES))) \in -2 .. 2
      /\ Conversion(scope)
           = [won |-> F["won"].count, closed |-> F["won"].count + F["lost"].count]
      /\ Cardinality(At(scope, OPEN_STAGES)) = MapThenSumSet(LAMBDA s : F[s].count, OPEN_STAGES)
  BY <1>1, FiguresAgree
<1> HIDE DEF F
<1>6. req[r].got[1] = F  BY <1>4 DEF F
<1> QED  BY <1>4, <1>5, <1>6

------------------------------------------------------------------------------
(* What the runs check.                                                      *)

\* Everything that is inductive together holds in every reachable state.
THEOREM Invariant == Spec => []IInv
BY InitEstablishes, StepKeeps, PTL DEF Spec

\* The tables hold rows of their schema, whatever the session writes of a body
\* (crm/service.py:246-275).
THEOREM TypeCorrect == Spec => []TypeOK
<1>1. IInv => TypeOK  BY DEF IInv
<1> QED  BY <1>1, Invariant, PTL

\* However many patches of one opportunity overlap, its history ends at the stage it is in
\* (crm/service.py:253-262).
THEOREM HistoryEnds == Spec => []HistoryEndsAtStage
<1>1. IInv => HistoryEndsAtStage  BY DEF IInv
<1> QED  BY <1>1, Invariant, PTL

\* A stage follows itself in a history only if two patches overlapped (crm/service.py:254).
THEOREM RepeatsOverlap == Spec => []RepeatsNeedOverlap
<1>1. IInv => RepeatsNeedOverlap  BY DEF IInv
<1> QED  BY <1>1, Invariant, PTL

\* A page read between two commits agrees with itself: the columns count their cards and add up
\* to the totals, the weighted ones to within the two cents that rounding each for itself can
\* cost, for any rows, scope and probabilities (crm/service.py:101-171).
THEOREM PagesAgree == Spec => []PipelineAgrees
<1>1. Spec => [](IInv /\ PInv)
  <2>1. Init => IInv /\ PInv  BY InitEstablishes, PagesBegin
  <2>2. IInv /\ PInv /\ [Next]_vars => (IInv /\ PInv)'  BY StepKeeps, PagesKept
  <2> QED  BY <2>1, <2>2, PTL DEF Spec
<1> QED  BY <1>1, CompletePagesAgree, PTL
=============================================================================
