------------------------- MODULE PassBWorkflowProofs -------------------------
(***************************************************************************)
(* Proofs about the workflow of Pass B, for any plan and any assignments    *)
(* and sessions: one current assignment per item, reviewed work stands,     *)
(* completion is exact and leaves nothing open, and every behaviour is one  *)
(* of the reviewed plan.                                                    *)
(*                                                                         *)
(* The heart of it is that the assignments of a step form a line: every one *)
(* but the last was repaired by another.  When a step is completed, its     *)
(* last assignment is the accepted one, so all the others were sent back,   *)
(* nothing of the step is open, and its review items are completed too.     *)
(*                                                                         *)
(* The last part is about the completion coordinator, which implements the  *)
(* workflow: what its thread holds of the store between two transactions of *)
(* a call still holds when it comes to the next one.                        *)
(***************************************************************************)
EXTENDS PassBCoordinator, TLAPS

\* An assignment that does not exist has done nothing, and the launch claim is
\* completed together with the evidence.
Existing ==
    /\ \A a \in Assignments : workItem[a] = None =>
          /\ state[a] = "ABSENT" /\ launch[a] = "NONE"
          /\ review[a] = "NONE" /\ repairs[a] = None /\ item[a] = "ABSENT"
    /\ \A a \in Assignments : workItem[a] # None => session[a] \in Sessions
    /\ \A a \in Assignments : launch[a] = "COMPLETED" <=> evidence[a] # "NONE"

\* A review item belongs to a producer of validated evidence.  It has no reviewer
\* while it is READY, then one.
ReviewItems ==
    /\ \A p \in Assignments : item[p] # "ABSENT" =>
          /\ workItem[p] \in Steps /\ evidence[p] = "VALIDATED"
          /\ item[p] # "REPAIR_REQUIRED"
    /\ \A v \in Assignments : IsReviewer(v) =>
          /\ item[Producer(v)] \in {"ASSIGNED", "COMPLETED"}
          /\ ProviderOf[session[v]] # ProviderOf[session[Producer(v)]]
          /\ item[Producer(v)] = "COMPLETED" <=> review[v] \in Dispositions
    /\ \A v, w \in Assignments :
          IsReviewer(v) /\ workItem[v] = workItem[w] => v = w

\* A review is of validated evidence, and decides what it said.
Judged ==
    \A v \in Assignments : review[v] # "NONE" =>
        /\ IsReviewer(v)
        /\ evidence[v] = "VALIDATED" /\ disposition[v] \in Dispositions
        /\ review[v] \in Dispositions => review[v] = disposition[v]

\* Assignments that a repair followed, and assignments that were accepted.
Mended == {a \in Assignments : \E b \in Assignments :
              repairs[b] # None /\ Producer(repairs[b]) = a}
Approved == {a \in Assignments : Accepted(a)}

\* Repairs follow a review that sent their original back, on the same step, and
\* every assignment of a step but the last was repaired.
Lines ==
    /\ \A b \in Assignments : repairs[b] # None =>
          /\ repairs[b] \in Assignments /\ review[repairs[b]] = "REPAIR_REQUIRED"
          /\ workItem[b] \in Steps
          /\ workItem[b] = workItem[Producer(repairs[b])]
    /\ \A a, b \in Assignments : a # b /\ workItem[a] \in Steps
                                 /\ workItem[a] = workItem[b]
          => session[a] = session[b] /\ (a \in Mended \/ b \in Mended)

\* A step is begun after the steps it depends on, and completed with the
\* acceptance of its last assignment.
StepStates ==
    \A s \in Steps :
        /\ item[s] # "ABSENT"
        /\ item[s] = "READY" <=> AssignmentsOn(s) = {}
        /\ item[s] # "READY" => \A d \in Before[s] : item[d] = "COMPLETED"
        /\ item[s] = "COMPLETED" <=>
              \E a \in Assignments : workItem[a] = s /\ a \in Approved
        /\ item[s] = "COMPLETED" =>
              \A a \in Assignments : workItem[a] = s => a \in Mended \/ a \in Approved

Exact == workflow = "COMPLETED" <=> \A s \in Steps : item[s] = "COMPLETED"

Inv == /\ TypeOK /\ Existing /\ ReviewItems /\ Judged /\ Lines /\ StepStates
       /\ Exact

-----------------------------------------------------------------------------
(* Steps that run assignments                                               *)

\* What such a step leaves alone, and what it keeps of launches and evidence.
Running ==
    /\ UNCHANGED <<workflow, item, bindings, reviews>>
    /\ \A a \in Assignments :
          /\ evidence[a] = "VALIDATED" => evidence'[a] = "VALIDATED"
          /\ launch'[a] = "COMPLETED" <=> evidence'[a] # "NONE"
          /\ workItem[a] = None => state'[a] = "ABSENT" /\ launch'[a] = "NONE"

RunStep ==
    \E a \in Assignments :
        \/ Launch(a) \/ CompleteAttempt(a) \/ CompleteCancellation(a)
        \/ \E doubt \in Doubt : MarkUncertain(a, doubt)
        \/ ReconcileCancellation(a) \/ PauseForUsage(a)
        \/ ResumeAfterUsageReset(a)
        \/ \E outcome \in {"VALIDATED", "REJECTED"} : ValidateEvidence(a, outcome)

LEMMA RunsKeepTypes ==
  ASSUME Inv, RunStep
  PROVE  TypeOK' /\ Running
  <1> PICK a \in Assignments :
        \/ Launch(a) \/ CompleteAttempt(a) \/ CompleteCancellation(a)
        \/ \E doubt \in Doubt : MarkUncertain(a, doubt)
        \/ ReconcileCancellation(a) \/ PauseForUsage(a)
        \/ ResumeAfterUsageReset(a)
        \/ \E outcome \in {"VALIDATED", "REJECTED"} : ValidateEvidence(a, outcome)
    BY DEF RunStep
  <1> TypeOK /\ Existing
    BY DEF Inv
  <1>1. CASE Launch(a)
    BY <1>1 DEF Launch, TypeOK, Existing, Running, bindings, reviews, Doubt
  <1>2. CASE CompleteAttempt(a)
    BY <1>2 DEF CompleteAttempt, TypeOK, Existing, Running, bindings, reviews,
                Doubt
  <1>3. CASE CompleteCancellation(a)
    BY <1>3 DEF CompleteCancellation, TypeOK, Existing, Running, bindings,
                reviews, Doubt
  <1>4. CASE \E doubt \in Doubt : MarkUncertain(a, doubt)
    BY <1>4 DEF MarkUncertain, TypeOK, Existing, Running, bindings, reviews,
                Doubt
  <1>5. CASE ReconcileCancellation(a)
    BY <1>5 DEF ReconcileCancellation, TypeOK, Existing, Running, bindings,
                reviews, Doubt
  <1>6. CASE PauseForUsage(a) \/ ResumeAfterUsageReset(a)
    BY <1>6 DEF PauseForUsage, ResumeAfterUsageReset, TypeOK, Existing, Running,
                bindings, reviews, Doubt
  <1>7. CASE \E outcome \in {"VALIDATED", "REJECTED"} :
                ValidateEvidence(a, outcome)
    BY <1>7 DEF ValidateEvidence, TypeOK, Existing, Running, bindings, reviews,
                Doubt
  <1>q. QED
    BY <1>1, <1>2, <1>3, <1>4, <1>5, <1>6, <1>7

\* Everything else depends only on what these steps leave alone or keep.
LEMMA RunsKeep ==
  ASSUME Inv, RunStep
  PROVE  Inv'
  <1>1. TypeOK' /\ Running
    BY RunsKeepTypes
  <1>2. Existing'
    BY <1>1 DEF Running, Existing, Inv, bindings, reviews
  <1>3. ReviewItems'
    BY <1>1 DEF Running, ReviewItems, IsReviewer, Producer, Inv, bindings, reviews
  <1>4. Judged'
    BY <1>1 DEF Running, Judged, IsReviewer, Inv, bindings, reviews
  <1>5. Lines' /\ StepStates' /\ Exact'
    BY <1>1 DEF Running, Lines, Mended, StepStates, AssignmentsOn, Approved, Accepted,
                Producer, Exact, Inv, bindings, reviews
  <1>q. QED
    BY <1>1, <1>2, <1>3, <1>4, <1>5 DEF Inv

-----------------------------------------------------------------------------
(* Steps that insert work items, assignments and reviews                    *)

\* A review item begins READY, without a reviewer.
LEMMA InsertReviewItemKeeps ==
  ASSUME Inv, NEW p \in Assignments, InsertReviewItem(p)
  PROVE  Inv'
  <1> /\ TypeOK /\ Existing /\ ReviewItems /\ Judged /\ Lines /\ StepStates
      /\ Exact
    BY DEF Inv
  <1> USE WorkflowConstants DEF Items
  <1>1. /\ UNCHANGED <<workflow, workItem, repairs, session, state, launch,
                       evidence, review, disposition>>
        /\ item' = [item EXCEPT ![p] = "READY"]
        /\ item[p] = "ABSENT" /\ workItem[p] \in Steps
        /\ evidence[p] = "VALIDATED" /\ p \notin Steps
    BY DEF InsertReviewItem, bindings, reviews
  <1>2. TypeOK'
    BY <1>1 DEF TypeOK
  <1>3. Existing'
    BY <1>1 DEF Existing, TypeOK
  <1>4. ReviewItems'
    BY <1>1 DEF ReviewItems, IsReviewer, Producer, TypeOK
  <1>5. Judged'
    BY <1>1 DEF Judged, IsReviewer
  <1>6. \A s \in Steps : item'[s] = item[s]
    BY <1>1 DEF TypeOK
  <1>7. Lines' /\ StepStates' /\ Exact'
    BY <1>1, <1>6 DEF Lines, Mended, StepStates, AssignmentsOn, Approved, Accepted,
                      Producer, Exact
  <1>q. QED
    BY <1>2, <1>3, <1>4, <1>5, <1>7 DEF Inv

\* What the insertion of an assignment on item i does.
Inserted(a, i, v, x) ==
    /\ workItem[a] = None
    /\ workItem' = [workItem EXCEPT ![a] = i]
    /\ repairs' = [repairs EXCEPT ![a] = v]
    /\ session' = [session EXCEPT ![a] = x]
    /\ state' = [state EXCEPT ![a] = "READY"]
    /\ UNCHANGED <<workflow, launch, evidence, review, disposition>>

\* The first assignment of a step, or the reviewer of a review item.
LEMMA ClaimPreparedKeeps ==
  ASSUME Inv, NEW a \in Assignments, NEW i \in Items, NEW x \in Sessions,
         ClaimPreparedAssignment(a, i, x)
  PROVE  Inv'
  <1> /\ TypeOK /\ Existing /\ ReviewItems /\ Judged /\ Lines /\ StepStates
      /\ Exact
    BY DEF Inv
  <1> USE WorkflowConstants DEF Items
  <1>1. /\ Inserted(a, i, None, x)
        /\ item' = [item EXCEPT ![i] = "ASSIGNED"]
        /\ workflow = "ACTIVE" /\ item[i] = "READY"
        /\ \A b \in Assignments : workItem[b] # i
        /\ i \in Steps => \A d \in Before[i] : item[d] = "COMPLETED"
        /\ i \in Assignments => ProviderOf[x] # ProviderOf[session[i]]
    BY DEF ClaimPreparedAssignment, Insert, Inserted, Bound, AssignmentsOn,
           Independent, reviews
  <1>2. i \in Assignments => workItem[i] \in Steps /\ i # a
    BY <1>1 DEF ReviewItems, Inserted
  <1>3. TypeOK'
    BY <1>1 DEF TypeOK, Inserted
  <1>4. \A b \in Assignments : b # a =>
           workItem'[b] = workItem[b] /\ repairs'[b] = repairs[b]
             /\ session'[b] = session[b]
    BY <1>1 DEF TypeOK, Inserted
  <1>5. workItem'[a] = i /\ repairs'[a] = None /\ session'[a] = x
    BY <1>1 DEF TypeOK, Inserted
  <1>6. \A b \in Assignments : workItem[b] # a
    BY <1>1 DEF Inserted, Existing, ReviewItems, IsReviewer, Producer
  <1>7. item[a] = "ABSENT" /\ review[a] = "NONE" /\ launch[a] = "NONE"
          /\ repairs[a] = None
    BY <1>1 DEF Inserted, Existing
  <1>8. Existing'
    <2>1. \A b \in Assignments : workItem'[b] = None =>
             b # a /\ workItem[b] = None /\ b # i
      BY <1>2, <1>4, <1>5
    <2>q. QED
      BY <1>1, <1>4, <1>5, <2>1 DEF Existing, Inserted, TypeOK
  <1>9. ReviewItems'
    <2>1. \A p \in Assignments : item'[p] # "ABSENT" =>
             /\ workItem'[p] \in Steps /\ evidence'[p] = "VALIDATED"
             /\ item'[p] # "REPAIR_REQUIRED"
      BY <1>1, <1>4, <1>7, <1>2 DEF ReviewItems, Inserted, TypeOK
    <2>2. ASSUME NEW v \in Assignments, IsReviewer(v)'
          PROVE  /\ item'[workItem'[v]] \in {"ASSIGNED", "COMPLETED"}
                 /\ ProviderOf[session'[v]] # ProviderOf[session'[workItem'[v]]]
                 /\ item'[workItem'[v]] = "COMPLETED"
                       <=> review'[v] \in Dispositions
      <3>1. CASE v = a
        BY <2>2, <3>1, <1>1, <1>2, <1>4, <1>5, <1>7
           DEF IsReviewer, Inserted, TypeOK, Dispositions
      <3>2. CASE v # a
        <4>1. workItem'[v] = workItem[v] /\ session'[v] = session[v]
                /\ workItem[v] # i /\ workItem[v] # a /\ workItem[v] \in Assignments
          BY <3>2, <2>2, <1>1, <1>4, <1>6 DEF IsReviewer
        <4>2. session'[workItem[v]] = session[workItem[v]]
                /\ item'[workItem[v]] = item[workItem[v]]
          BY <4>1, <1>1, <1>4 DEF TypeOK
        <4>3. /\ item[workItem[v]] \in {"ASSIGNED", "COMPLETED"}
              /\ ProviderOf[session[v]] # ProviderOf[session[workItem[v]]]
              /\ item[workItem[v]] = "COMPLETED" <=> review[v] \in Dispositions
          BY <4>1 DEF ReviewItems, IsReviewer, Producer
        <4>4. review' = review
          BY <1>1 DEF Inserted
        <4>q. QED
          BY <4>1, <4>2, <4>3, <4>4
      <3>q. QED
        BY <3>1, <3>2
    <2>3. \A v, w \in Assignments :
             workItem'[v] \in Assignments /\ workItem'[v] = workItem'[w] => v = w
      BY <1>1, <1>4, <1>5 DEF ReviewItems, IsReviewer
    <2>q. QED
      BY <2>1, <2>2, <2>3 DEF ReviewItems, IsReviewer, Producer
  <1>10. Judged'
    BY <1>1, <1>4, <1>7 DEF Judged, IsReviewer, Inserted
  <1>11. \A b \in Assignments :
            /\ b \in Mended => b \in Mended'
            /\ b \in Approved' <=> b \in Approved
    <2>1. ASSUME NEW b \in Assignments, b \in Mended PROVE b \in Mended'
      <3>1. PICK c \in Assignments :
              repairs[c] # None /\ Producer(repairs[c]) = b
        BY <2>1 DEF Mended
      <3>2. c # a /\ repairs[c] \in Assignments /\ repairs[c] # a
        BY <3>1, <1>7 DEF Lines
      <3>q. QED
        BY <3>1, <3>2, <1>4 DEF Mended, Producer
    <2>2. ASSUME NEW b \in Assignments PROVE b \in Approved' <=> b \in Approved
      BY <1>1, <1>4, <1>7 DEF Approved, Accepted, Producer, Inserted
    <2>q. QED
      BY <2>1, <2>2
  <1>12. Lines'
    <2>1. ASSUME NEW b \in Assignments, repairs'[b] # None
          PROVE  /\ repairs'[b] \in Assignments
                 /\ review'[repairs'[b]] = "REPAIR_REQUIRED"
                 /\ workItem'[b] \in Steps
                 /\ workItem'[b] = workItem'[Producer(repairs[b])']
      <3>1. b # a /\ repairs'[b] = repairs[b] /\ repairs[b] \in Assignments
              /\ repairs[b] # a
        BY <2>1, <1>4, <1>5, <1>7 DEF Lines
      <3>2. workItem[repairs[b]] \in Assignments /\ workItem[repairs[b]] # a
              /\ workItem'[repairs[b]] = workItem[repairs[b]]
        BY <2>1, <3>1, <1>4, <1>6 DEF Lines, Judged, IsReviewer, Dispositions
      <3>q. QED
        BY <2>1, <3>1, <3>2, <1>1, <1>4 DEF Lines, Producer, Inserted
    <2>2. ASSUME NEW b \in Assignments, NEW c \in Assignments, b # c,
                 workItem'[b] \in Steps, workItem'[b] = workItem'[c]
          PROVE  session'[b] = session'[c] /\ (b \in Mended' \/ c \in Mended')
      <3>1. b # a /\ c # a
        BY <2>2, <1>1, <1>4, <1>5
      <3>q. QED
        BY <2>2, <3>1, <1>4, <1>11 DEF Lines
    <2>q. QED
      BY <2>1, <2>2 DEF Lines, Producer
  <1>13. StepStates'
    <2> SUFFICES ASSUME NEW s \in Steps
                 PROVE  /\ item'[s] # "ABSENT"
                        /\ item'[s] = "READY" <=> AssignmentsOn(s)' = {}
                        /\ item'[s] # "READY" =>
                              \A d \in Before[s] : item'[d] = "COMPLETED"
                        /\ item'[s] = "COMPLETED" <=>
                              \E b \in Assignments :
                                 workItem'[b] = s /\ b \in Approved'
                        /\ item'[s] = "COMPLETED" =>
                              \A b \in Assignments :
                                 workItem'[b] = s => b \in Mended' \/ b \in Approved'
      BY DEF StepStates
    <2>1. \A d \in Steps : item[d] = "COMPLETED" => item'[d] = "COMPLETED"
      BY <1>1 DEF TypeOK
    <2>2. a \notin Approved
      BY <1>6 DEF Approved, Accepted, Producer
    <2>3. CASE s = i
      BY <2>3, <2>1, <2>2, <1>1, <1>4, <1>5, <1>11
         DEF AssignmentsOn, TypeOK
    <2>4. CASE s # i
      <3>1. item'[s] = item[s] /\ workItem'[a] # s /\ workItem[a] # s
        BY <2>4, <1>1, <1>5 DEF TypeOK, Inserted
      <3>2. \A b \in Assignments : workItem'[b] = s <=> workItem[b] = s
        BY <3>1, <1>4
      <3>q. QED
        BY <3>1, <3>2, <2>1, <1>11 DEF StepStates, AssignmentsOn
    <2>q. QED
      BY <2>3, <2>4
  <1>14. Exact'
    BY <1>1 DEF Exact, Inserted, TypeOK
  <1>q. QED
    BY <1>3, <1>8, <1>9, <1>10, <1>12, <1>13, <1>14 DEF Inv

\* A repair lengthens the line of its step: the original is mended, and so is
\* every other assignment of the step, since the original was the last.
LEMMA ClaimRepairKeeps ==
  ASSUME Inv, NEW a \in Assignments, NEW v \in Assignments,
         ClaimRepairAssignment(a, v)
  PROVE  Inv'
  <1> /\ TypeOK /\ Existing /\ ReviewItems /\ Judged /\ Lines /\ StepStates
      /\ Exact
    BY DEF Inv
  <1> USE WorkflowConstants DEF Items
  <1>0. PICK p \in Assignments, s \in Steps :
          workItem[v] = p /\ workItem[p] = s
    <2>1. IsReviewer(v)
      BY DEF ClaimRepairAssignment, Judged
    <2>2. workItem[v] \in Assignments /\ item[workItem[v]] # "ABSENT"
      BY <2>1 DEF ReviewItems, IsReviewer, Producer
    <2>q. QED
      BY <2>2 DEF ReviewItems
  <1>1. /\ Inserted(a, s, v, session[p]) /\ item' = item
        /\ review[v] = "REPAIR_REQUIRED" /\ item[s] = "REPAIR_REQUIRED"
        /\ \A b \in Assignments : repairs[b] # v
    BY <1>0 DEF ClaimRepairAssignment, Insert, Inserted, Producer, Repaired,
                reviews
  <1>2. p # a /\ session[p] \in Sessions
    BY <1>0, <1>1 DEF Inserted, Existing
  <1>3. TypeOK'
    BY <1>1, <1>2 DEF TypeOK, Inserted
  <1>4. \A b \in Assignments : b # a =>
           workItem'[b] = workItem[b] /\ repairs'[b] = repairs[b]
             /\ session'[b] = session[b]
    BY <1>1 DEF TypeOK, Inserted
  <1>5. workItem'[a] = s /\ repairs'[a] = v /\ session'[a] = session[p]
    BY <1>1 DEF TypeOK, Inserted
  <1>6. \A b \in Assignments : workItem[b] # a
    BY <1>1 DEF Inserted, Existing, ReviewItems, IsReviewer, Producer
  <1>7. /\ item[a] = "ABSENT" /\ review[a] = "NONE" /\ launch[a] = "NONE"
        /\ repairs[a] = None /\ workItem[a] = None
    BY <1>1 DEF Inserted, Existing
  <1>8. Existing'
    BY <1>1, <1>2, <1>4, <1>5 DEF Existing, Inserted, TypeOK
  <1>9. ReviewItems'
    <2>1. \A q \in Assignments : item'[q] # "ABSENT" =>
             /\ workItem'[q] \in Steps /\ evidence'[q] = "VALIDATED"
             /\ item'[q] # "REPAIR_REQUIRED"
      BY <1>1, <1>4, <1>7 DEF ReviewItems, Inserted
    <2>2. \A w \in Assignments : workItem'[w] \in Assignments =>
             /\ w # a /\ workItem'[w] = workItem[w] /\ session'[w] = session[w]
             /\ session'[workItem[w]] = session[workItem[w]]
      BY <1>2, <1>4, <1>5, <1>6
    <2>q. QED
      BY <2>1, <2>2, <1>1 DEF ReviewItems, IsReviewer, Producer, Inserted
  <1>10. Judged'
    BY <1>1, <1>4, <1>7 DEF Judged, IsReviewer, Inserted
  <1>11. v # a /\ workItem'[v] = p
    BY <1>0, <1>1, <1>4, <1>7
  <1>12. \A b \in Assignments : repairs[b] # None =>
            /\ b # a /\ repairs[b] \in Assignments /\ repairs[b] # a
            /\ workItem[repairs[b]] \in Assignments
            /\ workItem[repairs[b]] # a
            /\ workItem'[repairs[b]] = workItem[repairs[b]]
    BY <1>4, <1>6, <1>7 DEF Lines, Judged, IsReviewer
  <1>13. \A b \in Assignments : /\ b \in Mended => b \in Mended'
                                /\ b \in Approved' <=> b \in Approved
    <2>1. \A b \in Assignments : b \in Mended => b \in Mended'
      BY <1>4, <1>12 DEF Mended, Producer
    <2>2. \A b \in Assignments : b \in Approved' <=> b \in Approved
      BY <1>1, <1>4, <1>7 DEF Approved, Accepted, Producer, Inserted
    <2>q. QED
      BY <2>1, <2>2
  <1>14. p \notin Mended
    BY <1>0, <1>1, <1>12 DEF Mended, Producer, ReviewItems, IsReviewer
  <1>15. p \in Mended'
    BY <1>5, <1>11 DEF Mended, Producer
  <1>16. ASSUME NEW c \in Assignments, c # a, workItem[c] = s
         PROVE  session[c] = session[p] /\ c \in Mended'
    <2>1. CASE c = p
      BY <2>1, <1>15
    <2>2. CASE c # p
      BY <2>2, <1>0, <1>13, <1>14, <1>16 DEF Lines
    <2>q. QED
      BY <2>1, <2>2
  <1>17. Lines'
    <2>1. ASSUME NEW b \in Assignments, repairs'[b] # None
          PROVE  /\ repairs'[b] \in Assignments
                 /\ review'[repairs'[b]] = "REPAIR_REQUIRED"
                 /\ workItem'[b] \in Steps
                 /\ workItem'[b] = workItem'[workItem'[repairs'[b]]]
      <3>1. CASE b = a
        BY <3>1, <1>0, <1>1, <1>2, <1>4, <1>5, <1>11 DEF Inserted
      <3>2. CASE b # a
        <4>1. repairs'[b] = repairs[b] /\ repairs[b] # None
          BY <2>1, <3>2, <1>4
        <4>q. QED
          BY <3>2, <4>1, <1>1, <1>4, <1>12 DEF Lines, Producer, Inserted
      <3>q. QED
        BY <3>1, <3>2
    <2>2. ASSUME NEW b \in Assignments, NEW c \in Assignments, b # c,
                 workItem'[b] \in Steps, workItem'[b] = workItem'[c]
          PROVE  session'[b] = session'[c] /\ (b \in Mended' \/ c \in Mended')
      <3>1. CASE b # a /\ c # a
        BY <2>2, <3>1, <1>4, <1>13 DEF Lines
      <3>2. CASE b = a
        BY <2>2, <3>2, <1>4, <1>5, <1>16
      <3>3. CASE c = a
        BY <2>2, <3>3, <1>4, <1>5, <1>16
      <3>q. QED
        BY <3>1, <3>2, <3>3
    <2>q. QED
      BY <2>1, <2>2 DEF Lines, Producer
  <1>18. StepStates'
    <2> SUFFICES ASSUME NEW t \in Steps
                 PROVE  /\ item'[t] # "ABSENT"
                        /\ item'[t] = "READY" <=> AssignmentsOn(t)' = {}
                        /\ item'[t] # "READY" =>
                              \A d \in Before[t] : item'[d] = "COMPLETED"
                        /\ item'[t] = "COMPLETED" <=>
                              \E b \in Assignments :
                                 workItem'[b] = t /\ b \in Approved'
                        /\ item'[t] = "COMPLETED" =>
                              \A b \in Assignments :
                                 workItem'[b] = t => b \in Mended' \/ b \in Approved'
      BY DEF StepStates
    <2>1. a \notin Approved
      BY <1>6 DEF Approved, Accepted, Producer
    <2>2. CASE t = s
      BY <2>1, <2>2, <1>1, <1>4, <1>5, <1>13 DEF StepStates, AssignmentsOn
    <2>3. CASE t # s
      <3>1. \A b \in Assignments : workItem'[b] = t <=> workItem[b] = t
        BY <2>3, <1>4, <1>5, <1>7
      <3>q. QED
        BY <3>1, <1>1, <1>13 DEF StepStates, AssignmentsOn
    <2>q. QED
      BY <2>2, <2>3
  <1>19. Exact'
    BY <1>1 DEF Exact, Inserted
  <1>q. QED
    BY <1>3, <1>8, <1>9, <1>10, <1>17, <1>18, <1>19 DEF Inv

\* A review that is pending decides nothing yet.
LEMMA CreateReviewKeeps ==
  ASSUME Inv, NEW v \in Assignments, NEW said \in Dispositions,
         CreateReview(v, said)
  PROVE  Inv'
  <1> /\ TypeOK /\ Existing /\ ReviewItems /\ Judged /\ Lines /\ StepStates
      /\ Exact
    BY DEF Inv
  <1>1. /\ UNCHANGED <<workflow, item, workItem, repairs, session, state, launch,
                       evidence>>
        /\ IsReviewer(v) /\ review[v] = "NONE" /\ evidence[v] = "VALIDATED"
        /\ review' = [review EXCEPT ![v] = "PENDING"]
        /\ disposition' = [disposition EXCEPT ![v] = said]
    BY DEF CreateReview, bindings
  <1>2. TypeOK'
    BY <1>1 DEF TypeOK, Dispositions
  <1>3. \A w \in Assignments : \A d \in Dispositions :
           review'[w] = d <=> review[w] = d
    BY <1>1 DEF TypeOK, Dispositions
  <1>4. Existing'
    BY <1>1 DEF Existing, TypeOK, IsReviewer
  <1>5. ReviewItems'
    BY <1>1, <1>3 DEF ReviewItems, IsReviewer, Producer
  <1>6. Judged'
    BY <1>1 DEF Judged, IsReviewer, TypeOK, Dispositions
  <1>7. \A b \in Assignments : /\ b \in Mended' <=> b \in Mended
                               /\ b \in Approved' <=> b \in Approved
    <2>1. \A b \in Assignments : b \in Mended' <=> b \in Mended
      BY <1>1 DEF Mended, Producer
    <2>2. \A b \in Assignments : b \in Approved' <=> b \in Approved
      BY <1>1, <1>3 DEF Approved, Accepted, Producer, Dispositions
    <2>q. QED
      BY <2>1, <2>2
  <1>8. Lines' /\ StepStates' /\ Exact'
    BY <1>1, <1>3, <1>7 DEF Lines, StepStates, AssignmentsOn, Producer, Exact,
                            Dispositions
  <1>q. QED
    BY <1>2, <1>4, <1>5, <1>6, <1>8 DEF Inv

-----------------------------------------------------------------------------
(* The decision, and completion                                             *)

\* When every step is completed, so is every review item: its producer was
\* accepted, or mended after it was sent back.
LEMMA StepsSettleItems ==
  ASSUME ReviewItems, Judged, Lines, StepStates,
         \A s \in Steps : item[s] = "COMPLETED"
  PROVE  AllCompleted(item)
  <1> SUFFICES ASSUME NEW p \in Assignments, item[p] # "ABSENT"
               PROVE  item[p] = "COMPLETED"
    BY DEF AllCompleted, Items
  <1>1. workItem[p] \in Steps /\ item[workItem[p]] = "COMPLETED"
    BY DEF ReviewItems
  <1>2. p \in Mended \/ p \in Approved
    BY <1>1 DEF StepStates
  <1>3. PICK v \in Assignments : workItem[v] = p /\ review[v] \in Dispositions
    BY <1>2 DEF Mended, Approved, Accepted, Producer, Lines, Dispositions
  <1>q. QED
    BY <1>3 DEF ReviewItems, IsReviewer, Producer

LEMMA StepsSettleItemsNext ==
  ASSUME ReviewItems', Judged', Lines', StepStates',
         \A s \in Steps : item'[s] = "COMPLETED"
  PROVE  AllCompleted(item')
  <1> SUFFICES ASSUME NEW p \in Assignments, item'[p] # "ABSENT"
               PROVE  item'[p] = "COMPLETED"
    BY DEF AllCompleted, Items
  <1>1. workItem'[p] \in Steps /\ item'[workItem'[p]] = "COMPLETED"
    BY DEF ReviewItems
  <1>2. p \in Mended' \/ p \in Approved'
    BY <1>1 DEF StepStates
  <1>3. PICK v \in Assignments : workItem'[v] = p /\ review'[v] \in Dispositions
    BY <1>2 DEF Mended, Approved, Accepted, Producer, Lines, Dispositions
  <1>q. QED
    BY <1>3 DEF ReviewItems, IsReviewer, Producer

\* A producer under review is the last of its step, which is not completed yet.
LEMMA DecideReviewKeeps ==
  ASSUME Inv, NEW v \in Assignments, DecideReview(v)
  PROVE  Inv'
  <1> /\ TypeOK /\ Existing /\ ReviewItems /\ Judged /\ Lines /\ StepStates
      /\ Exact
    BY DEF Inv
  <1> USE WorkflowConstants DEF Items
  <1>0. PICK p \in Assignments, s \in Steps :
          workItem[v] = p /\ workItem[p] = s
    <2>1. IsReviewer(v)
      BY DEF DecideReview
    <2>2. workItem[v] \in Assignments /\ item[workItem[v]] # "ABSENT"
      BY <2>1 DEF ReviewItems, IsReviewer, Producer
    <2>q. QED
      BY <2>2 DEF ReviewItems
  <1> DEFINE said == disposition[v]
             outcome == IF said = "ACCEPTED" THEN "COMPLETED"
                                             ELSE "REPAIR_REQUIRED"
  <1>1. /\ UNCHANGED <<workItem, repairs, session, launch, evidence, disposition>>
        /\ workflow = "ACTIVE" /\ review[v] = "PENDING" /\ item[s] # "COMPLETED"
        /\ review' = [review EXCEPT ![v] = said]
        /\ item' = [item EXCEPT ![s] = outcome, ![p] = "COMPLETED"]
        /\ state' = [state EXCEPT ![p] = outcome, ![v] = "COMPLETED"]
        /\ workflow' = IF said = "ACCEPTED" /\ AllCompleted(item')
                         THEN "COMPLETED" ELSE workflow
    BY <1>0 DEF DecideReview, Decide, Producer, Bound, bindings
  <1>2. said \in Dispositions /\ evidence[v] = "VALIDATED"
    BY <1>1 DEF Judged
  <1>3. p # s /\ v # p
    BY <1>0
  <1>4. TypeOK'
    BY <1>1, <1>2 DEF TypeOK, Dispositions
  <1>5. /\ item'[s] = outcome /\ item'[p] = "COMPLETED"
        /\ \A i \in Items : i # s /\ i # p => item'[i] = item[i]
        /\ review'[v] = said
        /\ \A w \in Assignments : w # v => review'[w] = review[w]
    BY <1>1, <1>3 DEF TypeOK
  <1>6. \A w \in Assignments : workItem[w] = p => w = v
    BY <1>0 DEF ReviewItems, IsReviewer
  <1>7. Existing'
    <2>1. \A b \in Assignments : workItem[b] = None => b # p /\ b # v
      BY <1>0
    <2>q. QED
      BY <1>1, <1>5, <2>1 DEF Existing, TypeOK
  <1>8. ReviewItems'
    <2>1. \A q \in Assignments : item'[q] # "ABSENT" =>
             /\ workItem'[q] \in Steps /\ evidence'[q] = "VALIDATED"
             /\ item'[q] # "REPAIR_REQUIRED"
      <3>1. item[p] # "ABSENT"
        BY <1>0 DEF ReviewItems, IsReviewer, Producer
      <3>2. ASSUME NEW q \in Assignments, item'[q] # "ABSENT"
            PROVE  /\ item[q] # "ABSENT"
                   /\ item'[q] = item[q] \/ item'[q] = "COMPLETED"
        <4>1. q \in Items /\ q # s
          BY <1>0
        <4>q. QED
          BY <1>5, <3>1, <3>2, <4>1
      <3>3. UNCHANGED <<workItem, evidence>>
        BY <1>1
      <3>q. QED
        BY <3>2, <3>3 DEF ReviewItems
    <2>2. ASSUME NEW w \in Assignments, workItem[w] \in Assignments
          PROVE  /\ item'[workItem[w]] \in {"ASSIGNED", "COMPLETED"}
                 /\ item'[workItem[w]] = "COMPLETED" <=> review'[w] \in Dispositions
      <3>1. CASE w = v
        BY <3>1, <1>0, <1>2, <1>5
      <3>2. CASE w # v
        <4>1. workItem[w] # p /\ workItem[w] # s
          BY <3>2, <2>2, <1>0, <1>6
        <4>2. workItem[w] \in Items
          BY <2>2
        <4>3. item'[workItem[w]] = item[workItem[w]] /\ review'[w] = review[w]
          BY <4>1, <4>2, <3>2, <1>5
        <4>4. /\ item[workItem[w]] \in {"ASSIGNED", "COMPLETED"}
              /\ item[workItem[w]] = "COMPLETED" <=> review[w] \in Dispositions
          BY <2>2 DEF ReviewItems, IsReviewer, Producer
        <4>q. QED
          BY <4>3, <4>4
      <3>q. QED
        BY <3>1, <3>2
    <2>3. \A w \in Assignments : workItem[w] \in Assignments =>
             ProviderOf[session[w]] # ProviderOf[session[workItem[w]]]
      BY DEF ReviewItems, IsReviewer, Producer
    <2>4. \A w, u \in Assignments :
             workItem[w] \in Assignments /\ workItem[w] = workItem[u] => w = u
      BY DEF ReviewItems, IsReviewer
    <2>5. UNCHANGED <<workItem, session>>
      BY <1>1
    <2>q. QED
      BY <2>1, <2>2, <2>3, <2>4, <2>5 DEF ReviewItems, IsReviewer, Producer
  <1>9. Judged'
    BY <1>0, <1>1, <1>2, <1>5 DEF Judged, IsReviewer, Dispositions
  <1>10. p \notin Mended
    BY <1>1, <1>6 DEF Mended, Producer, Lines
  <1>11. Mended' = Mended
    BY <1>1 DEF Mended, Producer
  <1>12. \A b \in Assignments :
            b \in Approved' <=> b \in Approved \/ (b = p /\ said = "ACCEPTED")
    <2>1. \A b \in Assignments : b # p => (b \in Approved' <=> b \in Approved)
      BY <1>0, <1>1, <1>5 DEF Approved, Accepted, Producer
    <2>2. p \notin Approved
      BY <1>1, <1>6 DEF Approved, Accepted, Producer
    <2>3. p \in Approved' <=> said = "ACCEPTED"
      BY <1>0, <1>1, <1>5, <1>6 DEF Approved, Accepted, Producer
    <2>q. QED
      BY <2>1, <2>2, <2>3
  <1>13. Lines'
    BY <1>1, <1>5, <1>11 DEF Lines, Producer
  <1>14. StepStates'
    <2> SUFFICES ASSUME NEW t \in Steps
                 PROVE  /\ item'[t] # "ABSENT"
                        /\ item'[t] = "READY" <=> AssignmentsOn(t)' = {}
                        /\ item'[t] # "READY" =>
                              \A d \in Before[t] : item'[d] = "COMPLETED"
                        /\ item'[t] = "COMPLETED" <=>
                              \E b \in Assignments :
                                 workItem'[b] = t /\ b \in Approved'
                        /\ item'[t] = "COMPLETED" =>
                              \A b \in Assignments :
                                 workItem'[b] = t => b \in Mended' \/ b \in Approved'
      BY DEF StepStates
    <2>1. \A d \in Steps : item[d] = "COMPLETED" => item'[d] = "COMPLETED"
      BY <1>1, <1>5
    <2>2. AssignmentsOn(t)' = AssignmentsOn(t)
      BY <1>1 DEF AssignmentsOn
    <2>3. CASE t = s
      <3>1. p \in AssignmentsOn(t) /\ item[t] # "READY"
        BY <2>3, <1>0 DEF AssignmentsOn, StepStates
      <3>2. \A b \in Assignments : workItem[b] = t => b \notin Approved
        BY <2>3, <1>1 DEF StepStates
      <3>3. \A b \in Assignments : workItem[b] = t => b = p \/ b \in Mended
        BY <2>3, <1>0, <1>10 DEF Lines
      <3>4. item'[t] = outcome /\ \A d \in Before[t] : item'[d] = "COMPLETED"
        BY <2>1, <2>3, <3>1, <1>5 DEF StepStates
      <3>5. outcome \in {"COMPLETED", "REPAIR_REQUIRED"}
              /\ (outcome = "COMPLETED" <=> said = "ACCEPTED")
        OBVIOUS
      <3>6. \A b \in Assignments :
               workItem[b] = t => (b \in Approved' <=> b = p /\ said = "ACCEPTED")
        BY <3>2, <1>12
      <3> HIDE DEF outcome
      <3>q. QED
        <4>1. item'[t] # "ABSENT" /\ item'[t] # "READY"
          BY <3>4, <3>5
        <4>2. AssignmentsOn(t)' # {}
          BY <2>2, <3>1
        <4>3. \A b \in Assignments : workItem'[b] = workItem[b]
          BY <1>1
        <4>4. (\E b \in Assignments : workItem'[b] = t /\ b \in Approved')
                 <=> said = "ACCEPTED"
          BY <4>3, <3>6, <2>3, <1>0
        <4>5. item'[t] = "COMPLETED" =>
                 \A b \in Assignments :
                    workItem'[b] = t => b \in Mended' \/ b \in Approved'
          BY <4>3, <3>3, <3>4, <3>5, <3>6, <1>11
        <4>q. QED
          BY <3>4, <3>5, <4>1, <4>2, <4>4, <4>5
    <2>4. CASE t # s
      <3>1. item'[t] = item[t]
        BY <2>4, <1>5
      <3>2. \A b \in Assignments :
               workItem[b] = t => (b \in Approved' <=> b \in Approved)
        BY <2>4, <1>0, <1>12
      <3>3. /\ item'[t] # "ABSENT"
            /\ item'[t] = "READY" <=> AssignmentsOn(t)' = {}
            /\ item'[t] # "READY" => \A d \in Before[t] : item'[d] = "COMPLETED"
        BY <2>1, <2>2, <3>1 DEF StepStates
      <3>4. \A b \in Assignments : workItem'[b] = workItem[b]
        BY <1>1
      <3>5. item'[t] = "COMPLETED" <=>
               \E b \in Assignments : workItem'[b] = t /\ b \in Approved'
        BY <3>1, <3>2, <3>4 DEF StepStates
      <3>6. item'[t] = "COMPLETED" =>
               \A b \in Assignments :
                  workItem'[b] = t => b \in Mended' \/ b \in Approved'
        BY <3>1, <3>2, <3>4, <1>11 DEF StepStates
      <3>q. QED
        BY <3>3, <3>5, <3>6
    <2>q. QED
      BY <2>3, <2>4
  <1>15. Exact'
    <2>1. CASE said = "ACCEPTED" /\ AllCompleted(item')
      <3>1. workflow' = "COMPLETED"
        BY <2>1, <1>1
      <3>2. \A t \in Steps : item'[t] # "ABSENT"
        BY <1>14 DEF StepStates
      <3>q. QED
        BY <2>1, <3>1, <3>2 DEF Exact, AllCompleted
    <2>2. CASE ~(said = "ACCEPTED" /\ AllCompleted(item'))
      <3>1. workflow' # "COMPLETED"
        BY <2>2, <1>1
      <3>2. ~\A t \in Steps : item'[t] = "COMPLETED"
        <4>1. CASE said = "ACCEPTED"
          BY <4>1, <2>2, <1>8, <1>9, <1>13, <1>14, StepsSettleItemsNext
        <4>2. CASE said # "ACCEPTED"
          BY <4>2, <1>5
        <4>q. QED
          BY <4>1, <4>2
      <3>q. QED
        BY <3>1, <3>2 DEF Exact
    <2>q. QED
      BY <2>1, <2>2
  <1>q. QED
    BY <1>4, <1>7, <1>8, <1>9, <1>13, <1>14, <1>15 DEF Inv

\* Reconciling a completion finds the workflow completed already.
LEMMA ReconcileKeeps ==
  ASSUME Inv, ReconcileWorkflowCompletion
  PROVE  workflow = "COMPLETED" /\ UNCHANGED vars
  <1>1. \A s \in Steps : item[s] = "COMPLETED"
    BY DEF ReconcileWorkflowCompletion, AllCompleted, Items, Inv, StepStates
  <1>2. workflow = "COMPLETED"
    BY <1>1 DEF Inv, Exact
  <1>q. QED
    BY <1>2 DEF ReconcileWorkflowCompletion, vars, bindings, reviews

-----------------------------------------------------------------------------
(* The invariant, and the properties                                        *)

LEMMA InitInv == Init => Inv
  <1> SUFFICES ASSUME Init PROVE Inv
    OBVIOUS
  <1> USE WorkflowConstants DEF Items
  <1>1. TypeOK
    BY DEF Init, TypeOK, Doubt, Dispositions
  <1>2. Existing /\ ReviewItems /\ Judged
    BY DEF Init, Existing, ReviewItems, Judged, IsReviewer
  <1>3. Lines
    BY DEF Init, Lines
  <1>4. StepStates /\ Exact
    BY DEF Init, StepStates, AssignmentsOn, Exact
  <1>q. QED
    BY <1>1, <1>2, <1>3, <1>4 DEF Inv

LEMMA StepKeeps == Inv /\ [Next]_vars => Inv'
  <1> SUFFICES ASSUME Inv, [Next]_vars PROVE Inv'
    OBVIOUS
  <1>1. CASE UNCHANGED vars
    BY <1>1 DEF vars, Inv, TypeOK, Existing, ReviewItems, Judged, Lines, StepStates,
                Exact, IsReviewer, Producer, Mended, Approved, Accepted,
                AssignmentsOn
  <1>2. CASE Next
    <2>1. ASSUME NEW a \in Assignments, InsertReviewItem(a) PROVE Inv'
      BY <2>1, InsertReviewItemKeeps
    <2>2. ASSUME NEW a \in Assignments, NEW i \in Items, NEW x \in Sessions,
                 ClaimPreparedAssignment(a, i, x)
          PROVE  Inv'
      BY <2>2, ClaimPreparedKeeps
    <2>3. ASSUME NEW a \in Assignments, NEW v \in Assignments,
                 ClaimRepairAssignment(a, v)
          PROVE  Inv'
      BY <2>3, ClaimRepairKeeps
    <2>4. CASE RunStep
      BY <2>4, RunsKeep
    <2>5. ASSUME NEW v \in Assignments, NEW said \in Dispositions,
                 CreateReview(v, said)
          PROVE  Inv'
      BY <2>5, CreateReviewKeeps
    <2>6. ASSUME NEW v \in Assignments, DecideReview(v) PROVE Inv'
      BY <2>6, DecideReviewKeeps
    <2>7. CASE ReconcileWorkflowCompletion
      BY <2>7, <1>1, ReconcileKeeps
    <2>q. QED
      BY <1>2, <2>1, <2>2, <2>3, <2>4, <2>5, <2>6, <2>7 DEF Next, RunStep
  <1>q. QED
    BY <1>1, <1>2

THEOREM Invariance == Spec => []Inv
  BY InitInv, StepKeeps, PTL DEF Spec

\* Types are kept, whoever calls what.
THEOREM TypeCorrect == Spec => []TypeOK
  BY Invariance, PTL DEF Inv

\* One current assignment for each item: repairs form a line, reviews have one
\* reviewer.
THEOREM OneCurrent == Spec => []OneCurrentAssignment
  <1>1. Inv => OneCurrentAssignment
    <2> SUFFICES ASSUME Inv, NEW a \in Assignments, NEW b \in Assignments, a # b,
                        workItem[a] # None, workItem[a] = workItem[b]
                 PROVE  SentBack(a) \/ SentBack(b)
      BY DEF OneCurrentAssignment
    <2>1. workItem[a] \in Steps
      BY DEF Inv, TypeOK, ReviewItems, IsReviewer, Items
    <2>2. a \in Mended \/ b \in Mended
      BY <2>1 DEF Inv, Lines
    <2>q. QED
      BY <2>2 DEF Mended, SentBack, Inv, Lines
  <1>q. QED
    BY <1>1, Invariance, PTL

\* What was reviewed is not run again, and its evidence stays validated.
THEOREM ReviewsStand == Spec => []ReviewedWorkStands
  <1>1. Inv => ReviewedWorkStands
    BY DEF Inv, ReviewedWorkStands, Judged, ReviewItems, Existing, IsReviewer,
           Producer
  <1>q. QED
    BY <1>1, Invariance, PTL

\* A workflow is completed exactly when its steps are, with no review item open.
THEOREM Completion == Spec => []CompletionIsExact
  <1>1. Inv => CompletionIsExact
    BY StepsSettleItems DEF Inv, Exact, CompletionIsExact
  <1>q. QED
    BY <1>1, Invariance, PTL

\* A completed workflow leaves no attempt, assignment, review or repair open.
THEOREM NothingOpen == Spec => []NothingLeftOpen
  <1>1. Inv => NothingLeftOpen
    <2> SUFFICES ASSUME Inv, workflow = "COMPLETED",
                        NEW a \in Assignments, workItem[a] # None
                 PROVE  /\ launch[a] = "COMPLETED"
                        /\ IsReviewer(a) => review[a] \in Dispositions
                        /\ ~IsReviewer(a) => Accepted(a) \/ SentBack(a)
      BY DEF NothingLeftOpen
    <2>1. (\A s \in Steps : item[s] = "COMPLETED") /\ AllCompleted(item)
      BY StepsSettleItems DEF Inv, Exact
    <2>2. CASE IsReviewer(a)
      <3>1. item[workItem[a]] = "COMPLETED"
        BY <2>1, <2>2 DEF AllCompleted, Items, Inv, ReviewItems, IsReviewer,
                          Producer
      <3>2. review[a] \in Dispositions
        BY <2>2, <3>1 DEF Inv, ReviewItems, Producer
      <3>q. QED
        BY <2>2, <3>2 DEF Inv, Judged, Existing, Dispositions
    <2>3. CASE ~IsReviewer(a)
      <3>1. workItem[a] \in Steps
        BY <2>3 DEF Inv, TypeOK, Items, IsReviewer
      <3>2. a \in Mended \/ a \in Approved
        BY <2>1, <3>1 DEF Inv, StepStates
      <3>3. Accepted(a) \/ SentBack(a)
        BY <3>2 DEF Mended, Approved, SentBack, Inv, Lines
      <3>4. PICK v \in Assignments : workItem[v] = a /\ review[v] # "NONE"
        BY <3>3 DEF Accepted, SentBack, Producer
      <3>q. QED
        BY <2>3, <3>3, <3>4 DEF Inv, ReviewItems, Judged, Existing, IsReviewer,
                                Producer
    <2>q. QED
      BY <2>2, <2>3
  <1>q. QED
    BY <1>1, Invariance, PTL

-----------------------------------------------------------------------------
(* Refinement of the reviewed plan                                          *)

\* All assignments of a step have one provider, and one review accepted it; in
\* a state and in the next one.
LEMMA AuthorIs ==
  ASSUME Inv, NEW s \in Steps
  PROVE  /\ AssignmentsOn(s) = {} => Author(s) = None
         /\ \A a \in AssignmentsOn(s) :
               Author(s) = ProviderOf[session[a]] /\ Author(s) # None
  <1> USE WorkflowConstants
  <1>1. ASSUME NEW a \in AssignmentsOn(s), NEW b \in AssignmentsOn(s)
        PROVE  session[a] = session[b] /\ session[a] \in Sessions
    BY <1>1 DEF AssignmentsOn, Inv, Lines, Existing, Items
  <1>q. QED
    BY <1>1 DEF Author

LEMMA JudgeIs ==
  ASSUME Inv, NEW s \in Steps
  PROVE  /\ Judges(s) = {} => Judge(s) = None
         /\ \A v \in Judges(s) :
               Judge(s) = ProviderOf[session[v]] /\ Judge(s) # None
         /\ Judge(s) # None <=> item[s] = "COMPLETED"
  <1> USE WorkflowConstants
  <1>1. ASSUME NEW v \in Judges(s), NEW w \in Judges(s)
        PROVE  v = w /\ session[v] \in Sessions
    <2>1. PICK p \in Assignments : p = workItem[v] /\ workItem[p] = s
                                  /\ review[v] = "ACCEPTED"
      BY DEF Judges, AssignmentsOn, Producer
    <2>2. PICK r \in Assignments : r = workItem[w] /\ workItem[r] = s
                                  /\ review[w] = "ACCEPTED"
      BY DEF Judges, AssignmentsOn, Producer
    <2>3. \A u \in Assignments : workItem[u] = p => u = v
      BY <2>1 DEF Inv, ReviewItems, IsReviewer, Judges
    <2>4. \A u \in Assignments : workItem[u] = r => u = w
      BY <2>2 DEF Inv, ReviewItems, IsReviewer, Judges
    <2>5. p \notin Mended /\ r \notin Mended
      BY <2>1, <2>2, <2>3, <2>4 DEF Mended, Producer, Inv, Lines
    <2>6. p = r
      BY <2>1, <2>2, <2>5 DEF Inv, Lines
    <2>q. QED
      BY <2>1, <2>2, <2>3, <2>6 DEF Judges, Inv, Existing
  <1>2. Judges(s) # {} <=> item[s] = "COMPLETED"
    <2>1. item[s] = "COMPLETED" <=>
             \E a \in Assignments : workItem[a] = s /\ a \in Approved
      BY DEF Inv, StepStates
    <2>q. QED
      BY <2>1 DEF Judges, AssignmentsOn, Approved, Accepted, Producer
  <1>q. QED
    BY <1>1, <1>2 DEF Judge

LEMMA AuthorIsNext ==
  ASSUME Inv', NEW s \in Steps
  PROVE  /\ AssignmentsOn(s)' = {} => Author(s)' = None
         /\ \A a \in AssignmentsOn(s)' :
               Author(s)' = ProviderOf[session'[a]] /\ Author(s)' # None
  <1> USE WorkflowConstants
  <1>1. ASSUME NEW a \in AssignmentsOn(s)', NEW b \in AssignmentsOn(s)'
        PROVE  session'[a] = session'[b] /\ session'[a] \in Sessions
    BY <1>1 DEF AssignmentsOn, Inv, Lines, Existing, Items
  <1>q. QED
    BY <1>1 DEF Author

LEMMA JudgeIsNext ==
  ASSUME Inv', NEW s \in Steps
  PROVE  /\ Judges(s)' = {} => Judge(s)' = None
         /\ \A v \in Judges(s)' :
               Judge(s)' = ProviderOf[session'[v]] /\ Judge(s)' # None
         /\ Judge(s)' # None <=> item'[s] = "COMPLETED"
  <1> USE WorkflowConstants
  <1>1. ASSUME NEW v \in Judges(s)', NEW w \in Judges(s)'
        PROVE  v = w /\ session'[v] \in Sessions
    <2>1. PICK p \in Assignments : p = workItem'[v] /\ workItem'[p] = s
                                  /\ review'[v] = "ACCEPTED"
      BY DEF Judges, AssignmentsOn, Producer
    <2>2. PICK r \in Assignments : r = workItem'[w] /\ workItem'[r] = s
                                  /\ review'[w] = "ACCEPTED"
      BY DEF Judges, AssignmentsOn, Producer
    <2>3. \A u \in Assignments : workItem'[u] = p => u = v
      BY <2>1 DEF Inv, ReviewItems, IsReviewer, Judges
    <2>4. \A u \in Assignments : workItem'[u] = r => u = w
      BY <2>2 DEF Inv, ReviewItems, IsReviewer, Judges
    <2>5. p \notin Mended' /\ r \notin Mended'
      BY <2>1, <2>2, <2>3, <2>4 DEF Mended, Producer, Inv, Lines
    <2>6. p = r
      BY <2>1, <2>2, <2>5 DEF Inv, Lines
    <2>q. QED
      BY <2>1, <2>2, <2>3, <2>6 DEF Judges, Inv, Existing
  <1>2. Judges(s)' # {} <=> item'[s] = "COMPLETED"
    <2>1. item'[s] = "COMPLETED" <=>
             \E a \in Assignments : workItem'[a] = s /\ a \in Approved'
      BY DEF Inv, StepStates
    <2>q. QED
      BY <2>1 DEF Judges, AssignmentsOn, Approved, Accepted, Producer
  <1>q. QED
    BY <1>1, <1>2 DEF Judge

\* What the mapping is built from stays the same.
PlanUnchanged ==
    /\ \A s \in Steps : Author(s)' = Author(s) /\ Judge(s)' = Judge(s)
    /\ workflow' = workflow

PlanStep == [Plan!Next]_(Plan!vars)

LEMMA UnchangedPlan ==
  ASSUME PlanUnchanged
  PROVE  PlanStep
  BY DEF PlanUnchanged, PlanStep, Plan!vars

\* Only the claim of a step and an acceptance are steps of the plan.
LEMMA QuietSteps ==
  ASSUME Inv, Inv',
         \/ RunStep \/ UNCHANGED vars
         \/ \E p \in Assignments : InsertReviewItem(p)
         \/ \E v \in Assignments, said \in Dispositions : CreateReview(v, said)
  PROVE  PlanUnchanged
  <1>1. /\ UNCHANGED <<workflow, workItem, session>>
        /\ \A v \in Assignments : review'[v] = "ACCEPTED" <=> review[v] = "ACCEPTED"
    <2>1. CASE RunStep
      BY <2>1, RunsKeepTypes DEF Running, bindings, reviews
    <2>2. CASE UNCHANGED vars
      BY <2>2 DEF vars
    <2>3. CASE \E p \in Assignments : InsertReviewItem(p)
      BY <2>3 DEF InsertReviewItem, bindings, reviews
    <2>4. ASSUME NEW v \in Assignments, NEW said \in Dispositions,
                 CreateReview(v, said)
          PROVE  /\ UNCHANGED <<workflow, workItem, session>>
                 /\ \A w \in Assignments :
                       review'[w] = "ACCEPTED" <=> review[w] = "ACCEPTED"
      BY <2>4 DEF CreateReview, bindings, Inv, TypeOK
    <2>q. QED
      BY <2>1, <2>2, <2>3, <2>4
  <1>2. ASSUME NEW s \in Steps
        PROVE  AssignmentsOn(s)' = AssignmentsOn(s) /\ Judges(s)' = Judges(s)
    BY <1>1 DEF AssignmentsOn, Judges, Producer
  <1>3. ASSUME NEW s \in Steps PROVE Author(s)' = Author(s)
    BY <1>1, <1>2, AuthorIs, AuthorIsNext
  <1>4. ASSUME NEW s \in Steps PROVE Judge(s)' = Judge(s)
    BY <1>1, <1>2, JudgeIs, JudgeIsNext
  <1>q. QED
    BY <1>1, <1>3, <1>4 DEF PlanUnchanged

\* A repair is made in the session of its original.
LEMMA RepairIsQuiet ==
  ASSUME Inv, Inv', NEW a \in Assignments, NEW v \in Assignments,
         ClaimRepairAssignment(a, v)
  PROVE  PlanUnchanged
  <1>0. PICK p \in Assignments, t \in Steps :
          workItem[v] = p /\ workItem[p] = t
    <2>1. IsReviewer(v)
      BY DEF ClaimRepairAssignment, Inv, Judged
    <2>2. workItem[v] \in Assignments /\ item[workItem[v]] # "ABSENT"
      BY <2>1 DEF Inv, ReviewItems, IsReviewer, Producer
    <2>q. QED
      BY <2>2 DEF Inv, ReviewItems
  <1>1. Inserted(a, t, v, session[p]) /\ review' = review
    BY <1>0 DEF ClaimRepairAssignment, Insert, Inserted, Producer, reviews
  <1>2. /\ workItem'[a] = t /\ workItem[a] = None /\ review[a] = "NONE"
        /\ \A b \in Assignments : b # a =>
              workItem'[b] = workItem[b] /\ session'[b] = session[b]
        /\ \A b \in Assignments : workItem[b] # a
    BY <1>1 DEF Inserted, Inv, TypeOK, Existing, ReviewItems, IsReviewer, Producer
  <1>3. ASSUME NEW s \in Steps PROVE Author(s)' = Author(s)
    <2>1. CASE s = t
      <3>1. p \in AssignmentsOn(s) /\ p \in AssignmentsOn(s)'
              /\ session'[p] = session[p]
        BY <2>1, <1>0, <1>2, WorkflowConstants DEF AssignmentsOn, Items
      <3>q. QED
        BY <3>1, AuthorIs, AuthorIsNext
    <2>2. CASE s # t
      <3>1. AssignmentsOn(s)' = AssignmentsOn(s) /\ a \notin AssignmentsOn(s)
        BY <2>2, <1>2, WorkflowConstants DEF AssignmentsOn, Items
      <3>q. QED
        BY <3>1, <1>2, AuthorIs, AuthorIsNext DEF AssignmentsOn
    <2>q. QED
      BY <2>1, <2>2
  <1>4. ASSUME NEW s \in Steps PROVE Judge(s)' = Judge(s)
    <2>1. Judges(s)' = Judges(s) /\ a \notin Judges(s)
      BY <1>1, <1>2 DEF Judges, AssignmentsOn, Producer
    <2>q. QED
      BY <2>1, <1>2, JudgeIs, JudgeIsNext DEF Judges
  <1>q. QED
    BY <1>1, <1>3, <1>4 DEF PlanUnchanged, Inserted

\* The claim of a step begins it; the claim of a review changes nothing.
LEMMA ClaimIsPlanned ==
  ASSUME Inv, Inv', NEW a \in Assignments, NEW i \in Items, NEW x \in Sessions,
         ClaimPreparedAssignment(a, i, x)
  PROVE  PlanStep
  <1> USE WorkflowConstants
  <1>1. /\ Inserted(a, i, None, x) /\ review' = review /\ item[i] = "READY"
        /\ AssignmentsOn(i) = {}
        /\ i \in Steps => \A d \in Before[i] : item[d] = "COMPLETED"
    BY DEF ClaimPreparedAssignment, Insert, Inserted, reviews
  <1>2. /\ workItem'[a] = i /\ session'[a] = x
        /\ workItem[a] = None /\ review[a] = "NONE"
        /\ \A b \in Assignments : b # a =>
              workItem'[b] = workItem[b] /\ session'[b] = session[b]
        /\ \A b \in Assignments : workItem[b] # a
    <2>1. item[a] = "ABSENT" /\ workItem[a] = None /\ review[a] = "NONE"
      BY <1>1 DEF Inserted, Inv, Existing
    <2>2. \A b \in Assignments : workItem[b] # a
      BY <2>1 DEF Inv, ReviewItems, IsReviewer, Producer
    <2>q. QED
      BY <1>1, <2>1, <2>2 DEF Inserted, Inv, TypeOK
  <1>3. ASSUME NEW s \in Steps PROVE Judge(s)' = Judge(s)
    <2>1. Judges(s)' = Judges(s) /\ a \notin Judges(s)
      BY <1>1, <1>2 DEF Judges, AssignmentsOn, Producer
    <2>q. QED
      BY <2>1, <1>2, JudgeIs, JudgeIsNext DEF Judges
  <1>4. ASSUME NEW s \in Steps, s # i PROVE Author(s)' = Author(s)
    <2>1. AssignmentsOn(s)' = AssignmentsOn(s) /\ a \notin AssignmentsOn(s)
      BY <1>2, <1>4 DEF AssignmentsOn, Items
    <2>q. QED
      BY <2>1, <1>2, AuthorIs, AuthorIsNext DEF AssignmentsOn
  <1>5. CASE i \notin Steps
    BY <1>1, <1>3, <1>4, <1>5, UnchangedPlan DEF PlanUnchanged, Inserted
  <1>6. CASE i \in Steps
    <2>1. Author(i) = None
      BY <1>1, <1>6, AuthorIs
    <2>2. Author(i)' = ProviderOf[x]
      <3>1. a \in AssignmentsOn(i)'
        BY <1>2 DEF AssignmentsOn
      <3>q. QED
        BY <3>1, <1>2, <1>6, AuthorIsNext
    <2>3. \A d \in Before[i] : d \in Steps /\ Judge(d) # None
      BY <1>1, <1>6, JudgeIs
    <2>4. Plan!Begin(i, ProviderOf[x])
      BY <1>1, <1>3, <1>4, <1>6, <2>1, <2>2, <2>3 DEF Plan!Begin, Inserted
    <2>q. QED
      BY <2>4, <1>6 DEF PlanStep, Plan!Next
  <1>q. QED
    BY <1>5, <1>6

\* An accepting review accepts its step, by another provider; one that sends
\* the work back changes nothing.
LEMMA DecisionIsPlanned ==
  ASSUME Inv, Inv', NEW v \in Assignments, DecideReview(v)
  PROVE  PlanStep
  <1> USE WorkflowConstants
  <1>0. PICK p \in Assignments, t \in Steps :
          workItem[v] = p /\ workItem[p] = t
    <2>1. IsReviewer(v)
      BY DEF DecideReview
    <2>2. workItem[v] \in Assignments /\ item[workItem[v]] # "ABSENT"
      BY <2>1 DEF Inv, ReviewItems, IsReviewer, Producer
    <2>q. QED
      BY <2>2 DEF Inv, ReviewItems
  <1>1. /\ UNCHANGED <<workItem, session>> /\ item[t] # "COMPLETED"
        /\ review' = [review EXCEPT ![v] = disposition[v]]
        /\ disposition[v] # "ACCEPTED" => workflow' = workflow
        /\ review[v] = "PENDING"
    BY <1>0 DEF DecideReview, Decide, Producer, Bound, bindings
  <1>2. ASSUME NEW s \in Steps PROVE Author(s)' = Author(s)
    <2>1. AssignmentsOn(s)' = AssignmentsOn(s)
      BY <1>1 DEF AssignmentsOn
    <2>q. QED
      BY <2>1, <1>1, AuthorIs, AuthorIsNext
  <1>3. ASSUME NEW s \in Steps, s # t \/ disposition[v] # "ACCEPTED"
        PROVE  Judge(s)' = Judge(s)
    <2>1. Judges(s)' = Judges(s)
      BY <1>0, <1>1, <1>3 DEF Judges, AssignmentsOn, Producer, Inv, TypeOK
    <2>q. QED
      BY <2>1, <1>1, JudgeIs, JudgeIsNext
  <1>4. CASE disposition[v] # "ACCEPTED"
    BY <1>1, <1>2, <1>3, <1>4, UnchangedPlan DEF PlanUnchanged
  <1>5. CASE disposition[v] = "ACCEPTED"
    <2>1. Judge(t) = None
      BY <1>1, JudgeIs
    <2>2. Author(t) = ProviderOf[session[p]] /\ Author(t) # None
      <3>1. p \in AssignmentsOn(t)
        BY <1>0 DEF AssignmentsOn
      <3>q. QED
        BY <3>1, AuthorIs
    <2>3. Judge(t)' = ProviderOf[session[v]]
      <3>1. v \in Judges(t)'
        BY <1>0, <1>1, <1>5 DEF Judges, AssignmentsOn, Producer, Inv, TypeOK
      <3>q. QED
        BY <3>1, <1>1, JudgeIsNext
    <2>4. ProviderOf[session[v]] # ProviderOf[session[p]] /\ session[v] \in Sessions
      BY <1>0 DEF Inv, ReviewItems, Existing, IsReviewer, Producer, Items
    <2>5. workflow' = "COMPLETED" <=> \A s \in Steps : Judge(s)' # None
      <3>1. workflow' = "COMPLETED" <=> \A s \in Steps : item'[s] = "COMPLETED"
        BY DEF Inv, Exact
      <3>2. \A s \in Steps : Judge(s)' # None <=> item'[s] = "COMPLETED"
        BY JudgeIsNext
      <3>q. QED
        BY <3>1, <3>2
    <2>6. Plan!Accept(t, ProviderOf[session[v]])
      BY <1>2, <1>3, <2>1, <2>2, <2>3, <2>4, <2>5 DEF Plan!Accept
    <2>q. QED
      BY <2>4, <2>6 DEF PlanStep, Plan!Next
  <1>q. QED
    BY <1>4, <1>5

\* Every behaviour is one of the reviewed plan, for any plan.
THEOREM Reviewed == Spec => PlanIsReviewed
  <1>1. Init => Plan!Init
    <2> SUFFICES ASSUME Init PROVE Plan!Init
      OBVIOUS
    <2>1. ASSUME NEW s \in Steps
          PROVE  AssignmentsOn(s) = {} /\ Judges(s) = {}
      BY WorkflowConstants DEF Init, AssignmentsOn, Judges, Items
    <2>q. QED
      BY <2>1 DEF Plan!Init, Init, Author, Judge
  <1>2. Inv /\ Inv' /\ [Next]_vars => PlanStep
    <2> SUFFICES ASSUME Inv, Inv', [Next]_vars PROVE PlanStep
      OBVIOUS
    <2>1. CASE \/ RunStep \/ UNCHANGED vars
               \/ \E p \in Assignments : InsertReviewItem(p)
               \/ \E v \in Assignments, said \in Dispositions :
                     CreateReview(v, said)
      BY <2>1, QuietSteps, UnchangedPlan
    <2>2. ASSUME NEW a \in Assignments, NEW i \in Items, NEW x \in Sessions,
                 ClaimPreparedAssignment(a, i, x)
          PROVE  PlanStep
      BY <2>2, ClaimIsPlanned
    <2>3. ASSUME NEW a \in Assignments, NEW v \in Assignments,
                 ClaimRepairAssignment(a, v)
          PROVE  PlanStep
      BY <2>3, RepairIsQuiet, UnchangedPlan
    <2>4. ASSUME NEW v \in Assignments, DecideReview(v) PROVE PlanStep
      BY <2>4, DecisionIsPlanned
    <2>5. CASE ReconcileWorkflowCompletion
      BY <2>1, <2>5, ReconcileKeeps
    <2>q. QED
      BY <2>1, <2>2, <2>3, <2>4, <2>5 DEF Next, RunStep
  <1>q. QED
    BY <1>1, <1>2, Invariance, PTL DEF Spec, PlanIsReviewed, Plan!Spec, PlanStep

-----------------------------------------------------------------------------
(* The completion coordinator                                               *)

\* The places at which a call carries out assignment mine, which has not run yet.
Preparing == {"WORKSPACE", "USAGE", "RUN"}

\* What the store will ask for of the transaction that comes next.
NotRefused ==
    /\ at = "PREPARE" =>
          /\ task \in Items /\ Bound(task) /\ item[task] = "READY"
          /\ AssignmentsOn(task) = {}
          /\ task \in Steps => \A d \in Before[task] : item[d] = "COMPLETED"
    /\ at \in Preparing =>
          /\ state[mine] = "READY" /\ launch[mine] = "NONE" /\ Bound(workItem[mine])
          /\ IsReviewer(mine) => evidence[Producer(mine)] = "VALIDATED"
    /\ at = "RUN" => mine \in held \cap granted
    /\ at = "COMPLETE" =>
          state[mine] = "RUNNING" /\ launch[mine] = "RUNNING" /\ Bound(workItem[mine])
    /\ at = "VALIDATE" => evidence[mine] = "UNTRUSTED"
    /\ at = "DECIDE" =>
          /\ IsReviewer(mine) /\ review[mine] = "PENDING"
          /\ Bound(Producer(mine)) /\ Bound(workItem[Producer(mine)])
          /\ \A a \in {mine, Producer(mine)} :
                state[a] = "REVIEW_REQUIRED" /\ evidence[a] = "VALIDATED"
          /\ session[Producer(mine)] # session[mine]

\* A review item that has no decision keeps its producer in review, so _runnable_work_item
\* never comes to it.
ReviewComesFirst ==
    \A p \in Assignments : item[p] \in {"READY", "ASSIGNED"} => p \in Unreviewed

\* Usage is reserved for an assignment that may still run, or in doubt.
GrantedIsOpen ==
    \A a \in granted :
        /\ state[a] \in {"READY", "RUNNING", "UNCERTAIN"}
        /\ launch[a] \in Doubt \cup {"NONE", "RUNNING"}

\* A reviewer whose review is decided is completed with it.
DecidedOnce ==
    \A v \in Assignments :
        state[v] = "REVIEW_REQUIRED" => review[v] \in {"NONE", "PENDING"}

CoordinatorTyped ==
    /\ task \in Items \cup {None} /\ mine \in Assignments \cup {None}
    /\ at \in {"PREPARE", "ADVANCE"} \/ mine \in Assignments
    /\ held \subseteq Assignments /\ granted \subseteq Assignments
    /\ at = "USAGE" => mine \in held \ granted
    /\ at = "WORKSPACE" => mine \notin granted

CoordinatorInv ==
    /\ CoordinatorTyped /\ NotRefused /\ ReviewComesFirst /\ GrantedIsOpen /\ DecidedOnce

\* The coordinator takes no step the workflow does not have.
LEMMA CoordinatorSteps ==
  ASSUME CoordinatorInv, [CoordinatorNext]_coordinatorVars
  PROVE  [Next]_vars
  <1> USE DEF CoordinatorInv, CoordinatorTyped, NotRefused
  <1>1. CASE BeginStage \/ ReserveWorkspace \/ Release \/ Interrupt
    BY <1>1 DEF BeginStage, ReserveWorkspace, Release, Interrupt
  <1>2. CASE BeginReview
    BY <1>2 DEF BeginReview, Unreviewed, Next
  <1>3. CASE BeginRepair
    BY <1>3 DEF BeginRepair, Next
  <1>4. CASE FinishReview
    BY <1>4 DEF FinishReview, CreateOnce, Undecided, Next
  <1>5. CASE Prepare
    BY <1>5 DEF Prepare, Next
  <1>6. CASE ReserveUsage
    BY <1>6 DEF ReserveUsage, Next
  <1>7. CASE Run \/ Complete \/ Validate \/ DecideCreated
    BY <1>7 DEF Run, Complete, Validate, DecideCreated, Next
  <1>8. ASSUME NEW a \in Assignments, Recover(a) \/ Resume(a)
        PROVE  Next
    BY <1>8 DEF Recover, Resume, Next, Doubt
  <1>9. CASE UNCHANGED coordinatorVars
    BY <1>9 DEF coordinatorVars
  <1>q. QED
    BY <1>1, <1>2, <1>3, <1>4, <1>5, <1>6, <1>7, <1>8, <1>9
    DEF CoordinatorNext, Coordinate

\* Nothing is written, and the call goes on where nothing more is asked for.
LEMMA CallKeeps ==
  ASSUME CoordinatorInv, UNCHANGED <<vars, granted>>
  PROVE  ReviewComesFirst' /\ GrantedIsOpen' /\ DecidedOnce'
  BY DEF CoordinatorInv, ReviewComesFirst, Unreviewed, GrantedIsOpen, DecidedOnce, vars

\* A call looks for work, and an interruption ends one.
LEMMA CallBegins ==
  ASSUME Inv, CoordinatorInv, BeginStage \/ Interrupt
  PROVE  CoordinatorInv'
  <1>1. UNCHANGED <<vars, granted, held, mine>>
    BY DEF BeginStage, Interrupt
  <1>2. ReviewComesFirst' /\ GrantedIsOpen' /\ DecidedOnce'
    BY <1>1, CallKeeps
  <1>3. CASE BeginStage
    <2>1. /\ at' = "PREPARE" /\ task' \in Runnable /\ workflow = "ACTIVE"
      BY <1>3 DEF BeginStage, Advances, Goto
    <2>2. CoordinatorTyped'
      BY <1>1, <2>1 DEF CoordinatorInv, CoordinatorTyped, Runnable, Items
    <2>3. NotRefused'
      BY <1>1, <2>1 DEF vars, NotRefused, Preparing, Runnable, Bound, AssignmentsOn, Items
    <2>q. QED
      BY <1>2, <2>2, <2>3 DEF CoordinatorInv
  <1>4. CASE Interrupt
    <2>1. at' = "ADVANCE" /\ UNCHANGED task
      BY <1>4 DEF Interrupt
    <2>2. CoordinatorTyped'
      BY <1>1, <2>1 DEF CoordinatorInv, CoordinatorTyped
    <2>3. NotRefused'
      BY <2>1 DEF NotRefused, Preparing
    <2>q. QED
      BY <1>2, <2>2, <2>3 DEF CoordinatorInv
  <1>q. QED
    BY <1>3, <1>4

\* A call reserves a workspace, and releases it.
LEMMA WorkspaceKeeps ==
  ASSUME CoordinatorInv, ReserveWorkspace \/ Release
  PROVE  CoordinatorInv'
  <1>1. UNCHANGED <<vars, granted, mine, task>>
    BY DEF ReserveWorkspace, Release
  <1>2. ReviewComesFirst' /\ GrantedIsOpen' /\ DecidedOnce'
    BY <1>1, CallKeeps
  <1>3. \/ at' = "ADVANCE"
        \/ at = "WORKSPACE" /\ at' = "USAGE" /\ mine \in held'
    BY DEF ReserveWorkspace, Release, Goto
  <1>4. mine \in Assignments
    BY DEF ReserveWorkspace, Release, CoordinatorInv, CoordinatorTyped
  <1>5. held' \subseteq Assignments
    BY <1>4 DEF ReserveWorkspace, Release, CoordinatorInv, CoordinatorTyped
  <1>6. CoordinatorTyped'
    BY <1>1, <1>3, <1>4, <1>5 DEF CoordinatorInv, CoordinatorTyped
  <1>7. NotRefused'
    BY <1>1, <1>3 DEF CoordinatorInv, NotRefused, Preparing, vars, bindings, reviews,
       Bound, IsReviewer, Producer
  <1>q. QED
    BY <1>2, <1>6, <1>7 DEF CoordinatorInv

\* A review item is inserted for a producer that is in review, or found.
LEMMA BeginReviewKeeps ==
  ASSUME Inv, CoordinatorInv, BeginReview
  PROVE  CoordinatorInv'
  <1>1. PICK p \in Unreviewed :
          /\ evidence[p] = "VALIDATED" /\ task' = p
          /\ InsertReviewItem(p) \/ (item[p] = "READY" /\ UNCHANGED vars)
    BY DEF BeginReview
  <1>2. /\ at' = "PREPARE" /\ workflow = "ACTIVE" /\ p \in Assignments
        /\ UNCHANGED <<mine, held, granted>>
    BY <1>1 DEF BeginReview, Advances, Goto, Unreviewed
  <1>3. /\ UNCHANGED <<workflow, bindings, state, launch, evidence, reviews>>
        /\ item'[p] = "READY"
        /\ \A q \in Assignments : q # p => item'[q] = item[q]
    <2>1. CASE InsertReviewItem(p)
      <3>1. DOMAIN item = Items /\ p \in Items
        BY <1>2 DEF Inv, TypeOK, Items
      <3>q. QED
        BY <2>1, <3>1 DEF InsertReviewItem, Items
    <2>2. CASE item[p] = "READY" /\ UNCHANGED vars
      BY <2>2 DEF vars, bindings, reviews
    <2>q. QED
      BY <1>1, <2>1, <2>2
  <1>4. AssignmentsOn(p) = {}
    <2>1. item[p] \in {"ABSENT", "READY"}
      BY <1>1 DEF InsertReviewItem
    <2>q. QED
      BY <1>2, <2>1 DEF Inv, ReviewItems, AssignmentsOn, IsReviewer, Producer
  <1>5. p \notin Steps
    BY <1>2, WorkflowConstants
  <1>6. CoordinatorTyped'
    BY <1>2, <1>1 DEF CoordinatorInv, CoordinatorTyped, Items
  <1>7. NotRefused'
    BY <1>1, <1>2, <1>3, <1>4, <1>5 DEF NotRefused, Preparing, Bound, AssignmentsOn, Items,
       bindings
  <1>8. ReviewComesFirst'
    BY <1>1, <1>3 DEF CoordinatorInv, ReviewComesFirst, Unreviewed, bindings
  <1>9. GrantedIsOpen' /\ DecidedOnce'
    BY <1>2, <1>3 DEF CoordinatorInv, GrantedIsOpen, DecidedOnce, reviews
  <1>q. QED
    BY <1>6, <1>7, <1>8, <1>9 DEF CoordinatorInv

\* An assignment that was just inserted has not run, and leaves the reviews alone.
LEMMA InsertedKeeps ==
  ASSUME Inv, CoordinatorInv, NEW a \in Assignments, NEW i \in Items, NEW v, NEW x,
         Insert(a, i, v, x), mine' = a, at' = "WORKSPACE",
         UNCHANGED <<workflow, launch, evidence, reviews, held, granted>>,
         \A p \in Assignments : item'[p] = item[p]
                                \/ (p = i /\ item[p] = "READY" /\ item'[p] = "ASSIGNED"),
         item'[i] \notin {"ABSENT", "COMPLETED"}, workflow = "ACTIVE",
         task \in Items \cup {None}, UNCHANGED task
  PROVE  CoordinatorInv'
  <1>1. /\ workItem[a] = None /\ state[a] = "ABSENT" /\ launch[a] = "NONE"
        /\ item[a] = "ABSENT" /\ review[a] = "NONE"
    BY DEF Insert, Inv, Existing
  <1>2. /\ workItem'[a] = i /\ state'[a] = "READY"
        /\ \A b \in Assignments \ {a} : workItem'[b] = workItem[b] /\ state'[b] = state[b]
    BY DEF Insert, Inv, TypeOK
  <1>3. a \notin granted
    BY <1>1 DEF CoordinatorInv, GrantedIsOpen
  <1>4. CoordinatorTyped'
    BY <1>3 DEF CoordinatorInv, CoordinatorTyped
  <1>5. ReviewComesFirst'
    BY <1>1, <1>2 DEF CoordinatorInv, ReviewComesFirst, Unreviewed
  <1>6. GrantedIsOpen' /\ DecidedOnce'
    BY <1>2, <1>3 DEF CoordinatorInv, CoordinatorTyped, GrantedIsOpen, DecidedOnce, reviews
  <1>7. i \in Assignments => evidence[i] = "VALIDATED"
    BY DEF Inv, ReviewItems
  <1>8. NotRefused'
    BY <1>1, <1>2, <1>7 DEF NotRefused, Preparing, Bound, IsReviewer, Producer
  <1>q. QED
    BY <1>4, <1>5, <1>6, <1>8 DEF CoordinatorInv

\* The call claims an assignment on the item it found, or a repair.
LEMMA ClaimsKeep ==
  ASSUME Inv, CoordinatorInv, BeginRepair \/ Prepare
  PROVE  CoordinatorInv'
  <1>1. at' = "WORKSPACE" /\ UNCHANGED <<task, held, granted>>
    BY DEF BeginRepair, Prepare, Goto
  <1>2. task \in Items \cup {None}
    BY DEF CoordinatorInv, CoordinatorTyped
  <1>3. CASE Prepare
    <2>1. PICK a \in Assignments, x \in Sessions :
            ClaimPreparedAssignment(a, task, x) /\ mine' = a
      BY <1>3 DEF Prepare
    <2>2. task \in Items
      BY <1>3 DEF Prepare, CoordinatorInv, NotRefused
    <2>3. /\ item'[task] = "ASSIGNED" /\ item[task] = "READY" /\ workflow = "ACTIVE"
          /\ \A p \in Items \ {task} : item'[p] = item[p]
      BY <2>1, <2>2 DEF ClaimPreparedAssignment, Bound, Inv, TypeOK
    <2>4. \A p \in Assignments : p \in Items
      BY DEF Items
    <2>5. Insert(a, task, None, x) /\ UNCHANGED <<workflow, launch, evidence, reviews>>
      BY <2>1 DEF ClaimPreparedAssignment
    <2>q. QED
      BY <1>1, <1>2, <2>1, <2>2, <2>3, <2>4, <2>5, InsertedKeeps
  <1>4. CASE BeginRepair
    <2>1. PICK p \in Unrepaired, v, a \in Assignments :
            Producer(v) = p /\ ClaimRepairAssignment(a, v) /\ mine' = a
      BY <1>4 DEF BeginRepair
    <2>2. /\ Insert(a, workItem[p], v, session[p])
          /\ UNCHANGED <<workflow, item, launch, evidence, reviews>>
          /\ Bound(workItem[p]) /\ workItem[p] \in Items
      BY <2>1 DEF ClaimRepairAssignment, Unrepaired, Items
    <2>q. QED
      BY <1>1, <1>2, <2>1, <2>2, InsertedKeeps DEF Bound
  <1>q. QED
    BY <1>3, <1>4

\* A review has a decision when its item is completed, and no decision leaves a step
\* that its producer did completed.
LEMMA OpenReview ==
  ASSUME Inv, CoordinatorInv, NEW v \in Assignments, IsReviewer(v),
         review[v] \notin Dispositions, workflow = "ACTIVE"
  PROVE  /\ Producer(v) \in Unreviewed /\ evidence[Producer(v)] = "VALIDATED"
         /\ Bound(Producer(v)) /\ Bound(workItem[Producer(v)])
         /\ session[Producer(v)] # session[v]
  <1> DEFINE p == Producer(v)
  <1>1. p \in Assignments
    BY DEF IsReviewer, Producer
  <1>2. /\ item[p] = "ASSIGNED"
        /\ ProviderOf[session[v]] # ProviderOf[session[p]]
    BY <1>1 DEF Inv, ReviewItems, IsReviewer
  <1>3. /\ workItem[p] \in Steps /\ evidence[p] = "VALIDATED" /\ p \in Unreviewed
    BY <1>1, <1>2 DEF Inv, ReviewItems, CoordinatorInv, ReviewComesFirst
  <1>4. \A w \in Assignments : Producer(w) = p => w = v
    BY <1>1 DEF Inv, ReviewItems, IsReviewer, Producer
  <1>5. p \notin Approved
    BY <1>4 DEF Approved, Accepted, Dispositions
  <1>6. p \notin Mended
    <2>1. ASSUME NEW b \in Assignments, repairs[b] # None, Producer(repairs[b]) = p
          PROVE  FALSE
      <3>1. repairs[b] \in Assignments /\ review[repairs[b]] = "REPAIR_REQUIRED"
        BY <2>1 DEF Inv, Lines
      <3>q. QED
        BY <1>4, <2>1, <3>1 DEF Dispositions
    <2>q. QED
      BY <2>1 DEF Mended
  <1>7. item[workItem[p]] \notin {"ABSENT", "COMPLETED"}
    BY <1>1, <1>3, <1>5, <1>6 DEF Inv, StepStates
  <1>q. QED
    BY <1>2, <1>3, <1>7 DEF Bound

\* A call finds a reviewer that has run, and creates its review or finds it.
LEMMA FinishReviewKeeps ==
  ASSUME Inv, CoordinatorInv, FinishReview
  PROVE  CoordinatorInv'
  <1>1. PICK v \in Undecided :
          /\ evidence[v] = "VALIDATED" /\ evidence[Producer(v)] = "VALIDATED"
          /\ CreateOnce(v) /\ mine' = v
    BY DEF FinishReview
  <1>2. /\ at' = "DECIDE" /\ workflow = "ACTIVE" /\ UNCHANGED <<task, held, granted>>
        /\ v \in Assignments /\ IsReviewer(v) /\ state[v] = "REVIEW_REQUIRED"
    BY <1>1 DEF FinishReview, Advances, Goto, Undecided
  <1>3. /\ UNCHANGED <<workflow, item, bindings, state, launch, evidence>>
        /\ review'[v] = "PENDING"
        /\ \A w \in Assignments : w # v => review'[w] = review[w]
    <2>1. CASE \E said \in Dispositions : CreateReview(v, said)
      BY <1>2, <2>1 DEF CreateReview, Inv, TypeOK
    <2>2. CASE review[v] = "PENDING" /\ UNCHANGED vars
      BY <2>2 DEF vars, bindings, reviews
    <2>q. QED
      BY <1>1, <2>1, <2>2 DEF CreateOnce
  <1>4. review[v] \notin Dispositions
    BY <1>2 DEF CoordinatorInv, DecidedOnce, Dispositions
  <1>5. /\ Producer(v) \in Unreviewed
        /\ Bound(Producer(v)) /\ Bound(workItem[Producer(v)])
        /\ session[Producer(v)] # session[v]
    BY <1>2, <1>4, OpenReview
  <1>6. CoordinatorTyped'
    BY <1>2, <1>1 DEF CoordinatorInv, CoordinatorTyped
  <1>7. NotRefused'
    BY <1>1, <1>2, <1>3, <1>5 DEF NotRefused, Preparing, Bound, IsReviewer, Producer,
       Unreviewed, bindings
  <1>8. ReviewComesFirst' /\ GrantedIsOpen' /\ DecidedOnce'
    BY <1>2, <1>3 DEF CoordinatorInv, ReviewComesFirst, Unreviewed, GrantedIsOpen,
       DecidedOnce, bindings
  <1>q. QED
    BY <1>6, <1>7, <1>8 DEF CoordinatorInv

\* What happens to assignment a, which is in review neither before nor after, is not
\* about what is.
LEMMA RunsKeepReviews ==
  ASSUME ReviewComesFirst, DecidedOnce, NEW a \in Assignments,
         UNCHANGED <<item, bindings, reviews>>,
         state[a] # "REVIEW_REQUIRED",
         state'[a] = "REVIEW_REQUIRED" => review[a] \in {"NONE", "PENDING"},
         \A b \in Assignments \ {a} : state'[b] = state[b]
  PROVE  ReviewComesFirst' /\ DecidedOnce'
  BY DEF ReviewComesFirst, DecidedOnce, Unreviewed, bindings, reviews

\* The call reserves usage for its assignment, or pauses it.
LEMMA UsageKeeps ==
  ASSUME Inv, CoordinatorInv, ReserveUsage
  PROVE  CoordinatorInv'
  <1>1. /\ at = "USAGE" /\ UNCHANGED <<task, mine, held>>
        /\ mine \in Assignments /\ mine \in held \ granted
        /\ state[mine] = "READY" /\ launch[mine] = "NONE"
    BY DEF ReserveUsage, CoordinatorInv, CoordinatorTyped, NotRefused, Preparing
  <1>2. CASE granted' = granted \cup {mine} /\ at' = "RUN" /\ UNCHANGED vars
    <2>1. CoordinatorTyped'
      BY <1>1, <1>2 DEF CoordinatorInv, CoordinatorTyped
    <2>2. NotRefused'
      BY <1>1, <1>2 DEF CoordinatorInv, NotRefused, Preparing, Bound, IsReviewer, Producer,
         vars, bindings, reviews
    <2>3. ReviewComesFirst' /\ GrantedIsOpen' /\ DecidedOnce'
      BY <1>1, <1>2 DEF CoordinatorInv, ReviewComesFirst, Unreviewed, GrantedIsOpen,
         DecidedOnce, vars, bindings, reviews
    <2>q. QED
      BY <2>1, <2>2, <2>3 DEF CoordinatorInv
  <1>3. CASE PauseForUsage(mine) /\ at' = "ADVANCE" /\ UNCHANGED granted
    <2>1. /\ state'[mine] = "WAITING_FOR_USAGE_RESET"
          /\ \A b \in Assignments \ {mine} : state'[b] = state[b]
          /\ UNCHANGED <<item, bindings, launch, reviews>>
      BY <1>1, <1>3 DEF PauseForUsage, Inv, TypeOK
    <2>2. CoordinatorTyped'
      BY <1>1, <1>3 DEF CoordinatorInv, CoordinatorTyped
    <2>3. NotRefused'
      BY <1>3 DEF NotRefused, Preparing
    <2>4. ReviewComesFirst' /\ DecidedOnce'
      BY <1>1, <2>1, RunsKeepReviews DEF CoordinatorInv
    <2>5. GrantedIsOpen'
      BY <1>1, <1>3, <2>1 DEF CoordinatorInv, CoordinatorTyped, GrantedIsOpen
    <2>q. QED
      BY <2>2, <2>3, <2>4, <2>5 DEF CoordinatorInv
  <1>q. QED
    BY <1>2, <1>3 DEF ReserveUsage, Goto

\* The call runs its assignment and completes the attempt.
LEMMA RunKeeps ==
  ASSUME Inv, CoordinatorInv, Run \/ Complete
  PROVE  CoordinatorInv'
  <1>1. mine \in Assignments /\ UNCHANGED <<task, mine, held>>
    BY DEF Run, Complete, CoordinatorInv, CoordinatorTyped
  <1>2. CASE Run
    <2>1. /\ at = "RUN" /\ at' = "COMPLETE" /\ state[mine] = "READY"
          /\ Bound(workItem[mine]) /\ UNCHANGED granted
          /\ UNCHANGED <<workflow, item, bindings, evidence, reviews>>
          /\ state'[mine] = "RUNNING" /\ launch'[mine] = "RUNNING"
          /\ \A b \in Assignments \ {mine} : state'[b] = state[b] /\ launch'[b] = launch[b]
      BY <1>1, <1>2 DEF Run, Launch, Goto, Inv, TypeOK
    <2>2. CoordinatorTyped'
      BY <1>1, <2>1 DEF CoordinatorInv, CoordinatorTyped
    <2>3. NotRefused'
      BY <1>1, <2>1 DEF NotRefused, Preparing, Bound, bindings
    <2>4. ReviewComesFirst' /\ DecidedOnce'
      BY <1>1, <2>1, RunsKeepReviews DEF CoordinatorInv
    <2>5. GrantedIsOpen'
      BY <1>1, <2>1 DEF CoordinatorInv, CoordinatorTyped, GrantedIsOpen
    <2>q. QED
      BY <2>2, <2>3, <2>4, <2>5 DEF CoordinatorInv
  <1>3. CASE Complete
    <2>1. /\ at' = "VALIDATE" /\ state[mine] = "RUNNING" /\ launch[mine] = "RUNNING"
          /\ granted' = granted \ {mine}
          /\ UNCHANGED <<workflow, item, bindings, reviews>>
          /\ state'[mine] = "REVIEW_REQUIRED" /\ evidence'[mine] = "UNTRUSTED"
          /\ \A b \in Assignments \ {mine} : state'[b] = state[b] /\ launch'[b] = launch[b]
      BY <1>1, <1>3 DEF Complete, CompleteAttempt, Goto, Inv, TypeOK
    <2>2. review[mine] = "NONE"
      BY <1>1, <2>1 DEF Inv, Existing, Judged
    <2>3. CoordinatorTyped'
      BY <1>1, <2>1 DEF CoordinatorInv, CoordinatorTyped
    <2>4. NotRefused'
      BY <1>1, <2>1 DEF NotRefused, Preparing
    <2>5. ReviewComesFirst' /\ DecidedOnce'
      BY <1>1, <2>1, <2>2, RunsKeepReviews DEF CoordinatorInv
    <2>6. GrantedIsOpen'
      BY <1>1, <2>1 DEF CoordinatorInv, CoordinatorTyped, GrantedIsOpen
    <2>q. QED
      BY <2>3, <2>4, <2>5, <2>6 DEF CoordinatorInv
  <1>q. QED
    BY <1>2, <1>3

\* The call validates the evidence it was given.
LEMMA ValidateKeeps ==
  ASSUME CoordinatorInv, Validate
  PROVE  CoordinatorInv'
  <1>1. /\ UNCHANGED <<task, mine, held, granted, item, bindings, state, launch, reviews>>
        /\ mine \in Assignments /\ at' \in {"ADVANCE", "RELEASE"}
    BY DEF Validate, ValidateEvidence, AfterEvidence, Goto, CoordinatorInv, CoordinatorTyped
  <1>2. CoordinatorTyped'
    BY <1>1 DEF CoordinatorInv, CoordinatorTyped
  <1>3. NotRefused'
    BY <1>1 DEF NotRefused, Preparing
  <1>4. ReviewComesFirst' /\ GrantedIsOpen' /\ DecidedOnce'
    BY <1>1 DEF CoordinatorInv, ReviewComesFirst, Unreviewed, GrantedIsOpen, DecidedOnce,
       bindings, reviews
  <1>q. QED
    BY <1>2, <1>3, <1>4 DEF CoordinatorInv

\* The call decides its review: neither side is in review any more.
LEMMA DecisionKeeps ==
  ASSUME Inv, CoordinatorInv, DecideCreated
  PROVE  CoordinatorInv'
  <1> DEFINE p == Producer(mine)
  <1>1. /\ mine \in Assignments /\ p \in Assignments /\ workItem[p] \in Steps
        /\ at' = "RELEASE" /\ UNCHANGED <<task, mine, held, granted>>
        /\ DecideReview(mine) /\ workItem[mine] = p
        /\ launch[mine] = "COMPLETED" /\ launch[p] = "COMPLETED"
    BY DEF DecideCreated, DecideReview, Goto, CoordinatorInv, CoordinatorTyped, IsReviewer,
       Producer, Inv, ReviewItems, Existing, Bound
  <1>2. /\ UNCHANGED <<bindings, launch, evidence>>
        /\ item'[p] = "COMPLETED"
        /\ \A q \in Assignments \ {p} : item'[q] = item[q]
        /\ state'[p] # "REVIEW_REQUIRED" /\ state'[mine] # "REVIEW_REQUIRED"
        /\ \A b \in Assignments \ {p, mine} :
              state'[b] = state[b] /\ review'[b] = review[b]
    BY <1>1, WorkflowConstants DEF DecideReview, Decide, Inv, TypeOK, Items
  <1>3. \A q \in Assignments \ {p} : item[q] \in {"READY", "ASSIGNED"} => q # mine
    BY <1>1, WorkflowConstants DEF Inv, ReviewItems, Items
  <1>4. CoordinatorTyped'
    BY <1>1 DEF CoordinatorInv, CoordinatorTyped
  <1>5. NotRefused'
    BY <1>1 DEF NotRefused, Preparing
  <1>6. ReviewComesFirst'
    BY <1>2, <1>3 DEF CoordinatorInv, ReviewComesFirst, Unreviewed, bindings
  <1>7. DecidedOnce'
    BY <1>2 DEF CoordinatorInv, DecidedOnce
  <1>8. p \notin granted /\ mine \notin granted
    BY <1>1 DEF CoordinatorInv, GrantedIsOpen, Doubt
  <1>9. GrantedIsOpen'
    BY <1>1, <1>2, <1>8 DEF CoordinatorInv, CoordinatorTyped, GrantedIsOpen
  <1>q. QED
    BY <1>4, <1>5, <1>6, <1>7, <1>9 DEF CoordinatorInv

\* A restart, and the reset of the pool, reach only assignments nobody carries out.
LEMMA OthersKeep ==
  ASSUME Inv, CoordinatorInv, NEW a \in Assignments, Recover(a) \/ Resume(a)
  PROVE  CoordinatorInv'
  <1>1. /\ UNCHANGED <<at, task, mine, held, granted, workflow, item, bindings, evidence,
                       reviews>>
        /\ \A b \in Assignments \ {a} : state'[b] = state[b] /\ launch'[b] = launch[b]
    BY DEF Recover, MarkUncertain, Resume, ResumeAfterUsageReset, Inv, TypeOK
  <1>2. \/ /\ launch[a] = "RUNNING" /\ at # "COMPLETE"
           /\ launch'[a] = "UNCERTAIN" /\ state'[a] = "UNCERTAIN"
        \/ /\ state[a] = "WAITING_FOR_USAGE_RESET" /\ state'[a] = "READY"
           /\ UNCHANGED launch
    BY DEF Recover, MarkUncertain, Resume, ResumeAfterUsageReset, Inv, TypeOK
  <1>3. item[a] = "ABSENT" \/ launch[a] = "COMPLETED"
    BY DEF Inv, ReviewItems, Existing
  <1>4. review[a] # "NONE" => launch[a] = "COMPLETED"
    BY DEF Inv, Judged, Existing
  <1>5. CoordinatorTyped'
    BY <1>1 DEF CoordinatorInv, CoordinatorTyped
  <1>6. ReviewComesFirst'
    <2>1. item[a] \notin {"READY", "ASSIGNED"}
      BY <1>2, <1>3 DEF CoordinatorInv, ReviewComesFirst, Unreviewed
    <2>q. QED
      BY <1>1, <2>1 DEF CoordinatorInv, ReviewComesFirst, Unreviewed, bindings
  <1>7. GrantedIsOpen' /\ DecidedOnce'
    BY <1>1, <1>2 DEF CoordinatorInv, CoordinatorTyped, GrantedIsOpen, DecidedOnce, Doubt,
       reviews
  <1>8. at \in Preparing \cup {"COMPLETE"} => a # mine
    BY <1>2 DEF CoordinatorInv, NotRefused, Preparing
  <1>9. at = "DECIDE" => a # mine /\ a # Producer(mine)
    <2>1. ASSUME at = "DECIDE", a \in {mine, Producer(mine)}
          PROVE  FALSE
      <3>1. state[a] = "REVIEW_REQUIRED" /\ evidence[a] = "VALIDATED"
        BY <2>1 DEF CoordinatorInv, NotRefused
      <3>2. launch[a] = "COMPLETED"
        BY <3>1 DEF Inv, Existing
      <3>q. QED
        BY <1>2, <3>1, <3>2
    <2>q. QED
      BY <2>1
  <1>10. NotRefused'
    <2>1. at \in Preparing \cup {"COMPLETE", "DECIDE"} => mine \in Assignments
      BY DEF Preparing, CoordinatorInv, CoordinatorTyped
    <2>2. at = "DECIDE" => Producer(mine) \in Assignments
      BY DEF CoordinatorInv, NotRefused, IsReviewer, Producer
    <2>q. QED
      BY <1>1, <1>8, <1>9, <2>1, <2>2 DEF CoordinatorInv, NotRefused, Preparing, Bound,
         AssignmentsOn, IsReviewer, Producer, bindings, reviews
  <1>q. QED
    BY <1>5, <1>6, <1>7, <1>10 DEF CoordinatorInv

\* No step of the coordinator, of a restart or of the pool breaks the invariant.
LEMMA CoordinatorKeeps ==
  ASSUME Inv, CoordinatorInv, [CoordinatorNext]_coordinatorVars
  PROVE  CoordinatorInv'
  <1>1. CASE Coordinate
    BY <1>1, CallBegins, WorkspaceKeeps, BeginReviewKeeps, ClaimsKeep, FinishReviewKeeps,
       UsageKeeps, RunKeeps, ValidateKeeps, DecisionKeeps DEF Coordinate
  <1>2. CASE Interrupt
    BY <1>2, CallBegins
  <1>3. ASSUME NEW a \in Assignments, Recover(a) \/ Resume(a)
        PROVE  CoordinatorInv'
    BY <1>3, OthersKeep
  <1>4. CASE UNCHANGED coordinatorVars
    <2>1. UNCHANGED <<vars, at, task, mine, held, granted>>
      BY <1>4 DEF coordinatorVars
    <2>2. CoordinatorTyped' /\ NotRefused'
      BY <2>1 DEF CoordinatorInv, CoordinatorTyped, NotRefused, Preparing, Bound,
         AssignmentsOn, IsReviewer, Producer, vars
    <2>q. QED
      BY <2>1, <2>2, CallKeeps DEF CoordinatorInv
  <1>q. QED
    BY <1>1, <1>2, <1>3, <1>4 DEF CoordinatorNext

\* No call has been made yet.
LEMMA InitCoordinator == CoordinatorInit => Init /\ CoordinatorInv
  <1> SUFFICES ASSUME CoordinatorInit PROVE Init /\ CoordinatorInv
    OBVIOUS
  <1>1. Init
    BY DEF CoordinatorInit
  <1>2. CoordinatorTyped /\ NotRefused /\ GrantedIsOpen
    BY DEF CoordinatorInit, CoordinatorTyped, NotRefused, Preparing, GrantedIsOpen
  <1>3. ReviewComesFirst /\ DecidedOnce
    BY <1>1, WorkflowConstants DEF Init, ReviewComesFirst, DecidedOnce, Items
  <1>q. QED
    BY <1>1, <1>2, <1>3 DEF CoordinatorInv

\* The completion coordinator implements the workflow, whichever of its calls are
\* interrupted: all that was proved of the workflow holds of it.
THEOREM CoordinatorIsWorkflow == CoordinatorSpec => Spec
  <1>1. Inv /\ CoordinatorInv /\ [CoordinatorNext]_coordinatorVars
           => [Next]_vars /\ Inv' /\ CoordinatorInv'
    BY CoordinatorSteps, CoordinatorKeeps, StepKeeps
  <1>2. CoordinatorInit => Init /\ Inv /\ CoordinatorInv
    BY InitCoordinator, InitInv
  <1>q. QED
    BY <1>1, <1>2, PTL DEF CoordinatorSpec, Spec

\* The inductive invariant of the coordinator.
THEOREM CoordinatorInvariance == CoordinatorSpec => []CoordinatorInv
  <1>1. Inv /\ CoordinatorInv /\ [CoordinatorNext]_coordinatorVars => CoordinatorInv'
    BY CoordinatorKeeps
  <1>2. CoordinatorInit => CoordinatorInv
    BY InitCoordinator
  <1>q. QED
    BY <1>1, <1>2, CoordinatorIsWorkflow, Invariance, PTL DEF CoordinatorSpec

\* No transaction of a call is refused for what another one wrote: what advance read
\* before the first of them still holds at the last, after restarts and resets.
THEOREM CallsAreCarriedOut == CoordinatorSpec => []NotRefused
  <1>1. CoordinatorInv => NotRefused
    BY DEF CoordinatorInv
  <1>q. QED
    BY <1>1, CoordinatorInvariance, PTL

\* advance finds a review to begin or decide before it could take the review item for a
\* stage of the plan (_runnable_work_item).
THEOREM ReviewsComeFirst == CoordinatorSpec => []ReviewComesFirst
  <1>1. CoordinatorInv => ReviewComesFirst
    BY DEF CoordinatorInv
  <1>q. QED
    BY <1>1, CoordinatorInvariance, PTL

\* An interrupted call leaves usage reserved only for an assignment that can still run or
\* is in doubt.
THEOREM GrantsAreOpen == CoordinatorSpec => []GrantedIsOpen
  <1>1. CoordinatorInv => GrantedIsOpen
    BY DEF CoordinatorInv
  <1>q. QED
    BY <1>1, CoordinatorInvariance, PTL
=============================================================================
