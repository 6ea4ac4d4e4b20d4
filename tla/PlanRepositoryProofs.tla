------------------------ MODULE PlanRepositoryProofs ------------------------
(***************************************************************************)
(* What PlanRepository guarantees for any number of executions, workers,   *)
(* operators and publishers, and any bounds.                               *)
(***************************************************************************)
EXTENDS PlanRepository, TLAPS

-----------------------------------------------------------------------------
(* Types *)

(* What a worker carries. *)
Copies == [epoch : Nat, revision : Nat, done : BOOLEAN]

(* The repository starts empty, with every variable in its domain. *)
LEMMA InitType == Init => TypeOK
BY RepositoryAssumption DEF Init, TypeOK, Records, Absent, NoCopy, NoForm

(* update() leaves a well-formed table. *)
LEMMA WrittenType ==
  ASSUME TypeOK, NEW e \in Executions, NEW status \in {"absent", "active", "finished"}
  PROVE  Written(e, status) \in [Executions -> Records]
<1>1. record[e] \in Records /\ record[e].revision + 1 \in Nat
  BY DEF TypeOK, Records
<1>2. [record[e] EXCEPT !.status = status, !.revision = record[e].revision + 1] \in Records
  BY <1>1 DEF Records
<1> QED
  BY <1>2 DEF Written, TypeOK

(* claim() leaves a well-formed table. *)
LEMMA ClaimedType ==
  ASSUME TypeOK, NEW w \in Workers, NEW e \in Executions
  PROVE  EpochFor(w, e) \in Nat /\ Claimed(w, e) \in [Executions -> Records]
<1>1. record[e] \in Records /\ EpochFor(w, e) \in Nat
  BY DEF EpochFor, TypeOK, Records
<1>2. [record[e] EXCEPT !.owner = w, !.live = TRUE, !.epoch = EpochFor(w, e)] \in Records
  BY <1>1 DEF Records
<1> QED
  BY <1>1, <1>2 DEF Claimed, TypeOK

(* Every action keeps every variable in its domain. *)
LEMMA NextType == TypeOK /\ [Next]_vars => TypeOK'
<1> SUFFICES ASSUME TypeOK, [Next]_vars PROVE TypeOK'
  OBVIOUS
<1> USE DEF TypeOK, Records
<1>1. ASSUME NEW e \in Executions, Create(e) PROVE TypeOK'
  BY <1>1 DEF Create
<1>2. ASSUME NEW e \in Executions, LeaseExpires(e) PROVE TypeOK'
  <2>1. \A r \in Records : [r EXCEPT !.live = FALSE] \in Records
    OBVIOUS
  <2>2. record' \in [Executions -> Records]
    BY <1>2, <2>1 DEF LeaseExpires
  <2> QED
    BY <1>2, <2>2 DEF LeaseExpires
<1>3. ASSUME NEW w \in Workers, NEW e \in Executions, Claim(w, e) PROVE TypeOK'
  <2>1. [epoch |-> EpochFor(w, e), revision |-> record[e].revision, done |-> FALSE] \in Copies
    BY ClaimedType DEF Copies, Records
  <2>2. record' \in [Executions -> Records]
    BY <1>3, ClaimedType DEF Claim
  <2>3. copy' \in [Workers -> [Executions -> Copies]]
    BY <1>3, <2>1 DEF Claim, Copies
  <2>4. form' = form /\ batch' = batch /\ log' = log
    BY <1>3 DEF Claim
  <2> QED
    BY <2>2, <2>3, <2>4 DEF Copies
<1>4. ASSUME NEW w \in Workers, NEW e \in Executions, Fence(w, e) PROVE TypeOK'
  BY <1>4, ClaimedType DEF Fence
<1>5. ASSUME NEW w \in Workers, NEW e \in Executions, Release(w, e) PROVE TypeOK'
  BY <1>5 DEF Release, NoCopy
<1>6. ASSUME NEW w \in Workers, NEW e \in Executions, Update(w, e) PROVE TypeOK'
  <2>1. PICK status \in {"active", "finished"} :
          /\ record' = Written(e, status)
          /\ copy' = [copy EXCEPT ![w][e] =
                        [@ EXCEPT !.revision = record[e].revision + 1, !.done = status = "finished"]]
    BY <1>6 DEF Update
  <2>2. record[e].revision + 1 \in Nat /\ (status = "finished") \in BOOLEAN
    BY DEF Records
  <2>3. [copy[w][e] EXCEPT !.revision = record[e].revision + 1, !.done = status = "finished"] \in Copies
    <3>1. copy[w][e] \in Copies
      BY DEF Copies
    <3>2. ASSUME NEW n \in Nat, NEW d \in BOOLEAN
          PROVE  [copy[w][e] EXCEPT !.revision = n, !.done = d] \in Copies
      BY <3>1 DEF Copies
    <3> QED
      BY <2>2, <3>2
  <2>4. record' \in [Executions -> Records]
    BY <2>1, WrittenType
  <2>5. copy' \in [Workers -> [Executions -> Copies]]
    BY <2>1, <2>3 DEF Copies
  <2> QED
    BY <1>6, <2>4, <2>5 DEF Update, Copies
<1>7. ASSUME NEW w \in Workers, NEW e \in Executions, UpdateUnanswered(w, e) PROVE TypeOK'
  <2>1. PICK status \in {"active", "finished"} : record' = Written(e, status)
    BY <1>7 DEF UpdateUnanswered
  <2>2. record' \in [Executions -> Records]
    BY <2>1, WrittenType
  <2> QED
    BY <1>7, <2>2 DEF UpdateUnanswered
<1>8. ASSUME NEW w \in Workers, Restart(w) PROVE TypeOK'
  <2>1. \A r \in Records : [r EXCEPT !.owner = IF @ = w THEN NoWorker ELSE @] \in Records
    OBVIOUS
  <2>2. record' \in [Executions -> Records]
    BY <1>8, <2>1 DEF Restart
  <2>3. copy' \in [Workers -> [Executions -> [epoch : Nat, revision : Nat, done : BOOLEAN]]]
    BY <1>8 DEF Restart, NoCopy
  <2> QED
    BY <1>8, <2>2, <2>3 DEF Restart
<1>9. ASSUME NEW o \in Operators, NEW e \in Executions, OperatorReads(o, e) PROVE TypeOK'
  BY <1>9 DEF OperatorReads
<1>10. ASSUME NEW o \in Operators, NEW e \in Executions, OperatorUpdates(o, e) PROVE TypeOK'
  <2>1. record[e].status \in {"absent", "active", "finished"}
    BY DEF Records
  <2>2. PICK status \in {"active", record[e].status} :
          record' = IF Current(e, form[o][e].revision) /\ Patchable(e, status)
                    THEN Written(e, status) ELSE record
    BY <1>10 DEF OperatorUpdates
  <2>3. status \in {"absent", "active", "finished"}
    BY <2>1, <2>2
  <2>4. record' \in [Executions -> Records]
    BY <2>2, <2>3, WrittenType
  <2> QED
    BY <1>10, <2>4 DEF OperatorUpdates, NoForm
<1>11. ASSUME NEW p \in Publishers, ListPendingEvents(p) PROVE TypeOK'
  <2>1. ASSUME NEW e \in Executions PROVE Pending(e) \subseteq Executions \X Nat
    <3>1. record[e].cursor \in Nat \cup {-1} /\ record[e].revision \in Nat
      BY DEF Records
    <3>2. (record[e].cursor + 1)..record[e].revision \subseteq Nat
      BY <3>1
    <3> QED
      BY <3>2 DEF Pending
  <2>2. UNION {Pending(e) : e \in Executions} \subseteq Executions \X Nat
    BY <2>1
  <2> QED
    BY <1>11, <2>2 DEF ListPendingEvents
<1>12. ASSUME NEW p \in Publishers, NEW e \in Executions, NEW r \in 0..MaxRevision,
              Publish(p, e, r)
       PROVE  TypeOK'
  <2>1. <<e, r>> \in Executions \X Nat
    BY RepositoryAssumption
  <2> QED
    BY <1>12, <2>1 DEF Publish
<1>13. ASSUME NEW p \in Publishers, NEW e \in Executions, NEW r \in 0..MaxRevision,
              AcknowledgeEvent(p, e, r)
       PROVE  TypeOK'
  <2>1. [record EXCEPT ![e].cursor = r] \in [Executions -> Records]
    <3>1. r \in Nat
      BY RepositoryAssumption
    <3> QED
      BY <3>1
  <2>2. record' \in [Executions -> Records]
    BY <1>13, <2>1 DEF AcknowledgeEvent
  <2>3. batch' \in [Publishers -> SUBSET (Executions \X Nat)]
    BY <1>13 DEF AcknowledgeEvent
  <2> QED
    BY <1>13, <2>2, <2>3 DEF AcknowledgeEvent
<1>14. ASSUME NEW p \in Publishers, FlushFails(p) PROVE TypeOK'
  BY <1>14 DEF FlushFails
<1>15. CASE UNCHANGED vars
  BY <1>15 DEF vars
<1> QED
  BY <1>1, <1>2, <1>3, <1>4, <1>5, <1>6, <1>7, <1>8, <1>9, <1>10, <1>11, <1>12, <1>13, <1>14,
     <1>15 DEF Next, Lease, Relay, PublishSome, AcknowledgeSome

(* Type correctness of the repository: record, copies, requests, batches   *)
(* and log keep their domains under every operation.                       *)
THEOREM TypeCorrect == Spec => []TypeOK
BY InitType, NextType, PTL DEF Spec

-----------------------------------------------------------------------------
(* Stamps *)

(* Nobody carries an epoch or a revision the record has not reached, and a *)
(* record that was ever claimed has left epoch 0.                          *)
StampsReached ==
  /\ \A w \in Workers, e \in Executions :
       /\ copy[w][e].epoch <= record[e].epoch
       /\ copy[w][e].revision <= record[e].revision
  /\ \A o \in Operators, e \in Executions : form[o][e].revision <= record[e].revision
  /\ \A e \in Executions : record[e].owner # NoWorker => record[e].epoch > 0

(* Whoever could still write a finished record carries an older revision.  *)
FinishedUnreachable ==
  \A e \in Executions : record[e].status = "finished" =>
    /\ \A w \in Workers : Carrying(w, e) /\ ~copy[w][e].done =>
                            copy[w][e].revision < record[e].revision
    /\ \A o \in Operators : form[o][e].read => form[o][e].revision < record[e].revision

StampInv == TypeOK /\ StampsReached /\ FinishedUnreachable

(* What update() changes in the table. *)
LEMMA WrittenFields ==
  ASSUME TypeOK, NEW e \in Executions, NEW status \in {"absent", "active", "finished"}
  PROVE  \A f \in Executions :
           /\ Written(e, status)[f].owner = record[f].owner
           /\ Written(e, status)[f].live = record[f].live
           /\ Written(e, status)[f].epoch = record[f].epoch
           /\ Written(e, status)[f].status = IF f = e THEN status ELSE record[f].status
           /\ Written(e, status)[f].revision = IF f = e THEN record[f].revision + 1 ELSE record[f].revision
BY DEF Written, TypeOK, Records

(* What claim() changes in the table. *)
LEMMA ClaimedFields ==
  ASSUME TypeOK, NEW w \in Workers, NEW e \in Executions
  PROVE  \A f \in Executions :
           /\ Claimed(w, e)[f].owner = IF f = e THEN w ELSE record[f].owner
           /\ Claimed(w, e)[f].epoch = IF f = e THEN EpochFor(w, e) ELSE record[f].epoch
           /\ Claimed(w, e)[f].status = record[f].status
           /\ Claimed(w, e)[f].revision = record[f].revision
BY DEF Claimed, TypeOK, Records

(* claim() leaves the claimed lease unexpired. *)
LEMMA ClaimedLive ==
  ASSUME TypeOK, NEW w \in Workers, NEW e \in Executions
  PROVE  /\ Claimed(w, e)[e].live = TRUE
         /\ \A f \in Executions \ {e} : Claimed(w, e)[f] = record[f]
BY DEF Claimed, TypeOK, Records

(* A claim never goes back, and leaves the epoch only for a fresh one. *)
LEMMA EpochForBound ==
  ASSUME TypeOK, StampsReached, NEW w \in Workers, NEW e \in Executions
  PROVE  /\ EpochFor(w, e) \in Nat
         /\ EpochFor(w, e) >= record[e].epoch
         /\ EpochFor(w, e) > 0
BY RepositoryAssumption DEF EpochFor, TypeOK, Records, StampsReached

(* An empty table has no stamp to fall behind, and nothing finished. *)
LEMMA InitStamps == Init => StampsReached /\ FinishedUnreachable
BY RepositoryAssumption DEF Init, StampsReached, FinishedUnreachable, Absent, NoCopy, NoForm, Carrying

(* Every action leaves the stamps of workers and requests behind those of  *)
(* the record.                                                             *)
LEMMA NextStamps == StampInv /\ [Next]_vars => StampsReached' /\ FinishedUnreachable'
<1> SUFFICES ASSUME StampInv, [Next]_vars PROVE StampsReached' /\ FinishedUnreachable'
  OBVIOUS
<1> USE DEF StampInv
<1>t. /\ \A e \in Executions : /\ record[e].epoch \in Nat /\ record[e].revision \in Nat
                                /\ record[e].status \in {"absent", "active", "finished"}
      /\ \A w \in Workers, e \in Executions : copy[w][e].epoch \in Nat /\ copy[w][e].revision \in Nat
      /\ \A o \in Operators, e \in Executions : form[o][e].revision \in Nat
  BY DEF TypeOK, Records
<1> DEFINE Kept == StampsReached' /\ FinishedUnreachable'
<1>1. ASSUME NEW e \in Executions, Create(e) PROVE Kept
  BY <1>1, <1>t DEF Create, StampsReached, FinishedUnreachable, Carrying, TypeOK, Records
<1>2. ASSUME NEW e \in Executions, LeaseExpires(e) PROVE Kept
  BY <1>2, <1>t DEF LeaseExpires, StampsReached, FinishedUnreachable, Carrying, TypeOK, Records
<1>3. ASSUME NEW w \in Workers, NEW e \in Executions, Claim(w, e) PROVE Kept
  <2>1. record' = Claimed(w, e) /\ form' = form /\ record[e].status = "active"
    BY <1>3 DEF Claim, Claimable, Active
  <2>2. \A v \in Workers, f \in Executions :
          copy'[v][f] = IF v = w /\ f = e
                        THEN [epoch |-> EpochFor(w, e), revision |-> record[e].revision, done |-> FALSE]
                        ELSE copy[v][f]
    BY <1>3 DEF Claim, TypeOK
  <2>3. \A f \in Executions :
          /\ record'[f].owner = IF f = e THEN w ELSE record[f].owner
          /\ record'[f].epoch = IF f = e THEN EpochFor(w, e) ELSE record[f].epoch
          /\ record'[f].status = record[f].status /\ record'[f].revision = record[f].revision
    BY <2>1, ClaimedFields
  <2>4. EpochFor(w, e) \in Nat /\ EpochFor(w, e) >= record[e].epoch /\ EpochFor(w, e) > 0
    BY EpochForBound
  <2>5. StampsReached'
    BY <2>1, <2>2, <2>3, <2>4, <1>t DEF StampsReached
  <2>6. FinishedUnreachable'
    BY <2>1, <2>2, <2>3, <1>t DEF FinishedUnreachable, Carrying
  <2> QED
    BY <2>5, <2>6
<1>4. ASSUME NEW w \in Workers, NEW e \in Executions, Fence(w, e) PROVE Kept
  <2>1. record' = Claimed(w, e) /\ form' = form /\ copy' = copy
    BY <1>4 DEF Fence
  <2>2. \A f \in Executions :
          /\ record'[f].owner = IF f = e THEN w ELSE record[f].owner
          /\ record'[f].epoch = IF f = e THEN EpochFor(w, e) ELSE record[f].epoch
          /\ record'[f].status = record[f].status /\ record'[f].revision = record[f].revision
    BY <2>1, ClaimedFields
  <2>3. EpochFor(w, e) \in Nat /\ EpochFor(w, e) >= record[e].epoch /\ EpochFor(w, e) > 0
    BY EpochForBound
  <2>4. StampsReached'
    BY <2>1, <2>2, <2>3, <1>t DEF StampsReached
  <2>5. FinishedUnreachable'
    BY <2>1, <2>2, <1>t DEF FinishedUnreachable, Carrying
  <2> QED
    BY <2>4, <2>5
<1>5. ASSUME NEW w \in Workers, NEW e \in Executions, Release(w, e) PROVE Kept
  <2>1. /\ form' = form
        /\ \A f \in Executions :
             /\ record'[f].owner = record[f].owner /\ record'[f].epoch = record[f].epoch
             /\ record'[f].status = record[f].status /\ record'[f].revision = record[f].revision
    BY <1>5 DEF Release, TypeOK, Records
  <2>2. \A v \in Workers, f \in Executions :
          copy'[v][f] = IF v = w /\ f = e THEN NoCopy ELSE copy[v][f]
    BY <1>5 DEF Release, TypeOK
  <2> QED
    BY <2>1, <2>2, <1>t DEF StampsReached, FinishedUnreachable, Carrying, NoCopy
<1>6. ASSUME NEW w \in Workers, NEW e \in Executions, Update(w, e) PROVE Kept
  <2>1. PICK status \in {"active", "finished"} :
          /\ record' = Written(e, status)
          /\ Patchable(e, status)
          /\ copy' = [copy EXCEPT ![w][e] =
                        [@ EXCEPT !.revision = record[e].revision + 1, !.done = status = "finished"]]
    BY <1>6 DEF Update
  <2>2. /\ form' = form
        /\ Carrying(w, e) /\ ~copy[w][e].done /\ copy[w][e].revision = record[e].revision
    BY <1>6 DEF Update, Current
  <2>3. record[e].status # "finished"
    BY <2>2, <1>t DEF FinishedUnreachable
  <2>4. \A v \in Workers, f \in Executions :
          /\ copy'[v][f].epoch = copy[v][f].epoch
          /\ v # w \/ f # e => copy'[v][f] = copy[v][f]
          /\ v = w /\ f = e => /\ copy'[v][f].revision = record[e].revision + 1
                               /\ copy'[v][f].done = (status = "finished")
    BY <2>1 DEF TypeOK
  <2>5. \A f \in Executions :
          /\ record'[f].owner = record[f].owner /\ record'[f].epoch = record[f].epoch
          /\ record'[f].status = IF f = e THEN status ELSE record[f].status
          /\ record'[f].revision = IF f = e THEN record[f].revision + 1 ELSE record[f].revision
    BY <2>1, WrittenFields
  <2>6. StampsReached'
    BY <2>2, <2>4, <2>5, <1>t DEF StampsReached
  <2>7. \A v \in Workers : Carrying(v, e) /\ v # w => copy'[v][e].revision < record'[e].revision
    BY <2>4, <2>5, <1>t DEF StampsReached
  <2>8. \A o \in Operators : form'[o][e].revision < record'[e].revision
    BY <2>2, <2>5, <1>t DEF StampsReached
  <2>9. FinishedUnreachable'
    <3>1. ASSUME NEW f \in Executions, f # e
          PROVE  /\ record'[f].status = record[f].status /\ record'[f].revision = record[f].revision
                 /\ \A v \in Workers : copy'[v][f] = copy[v][f]
      BY <3>1, <2>4, <2>5
    <3>2. status = "finished" => copy'[w][e].done
      BY <2>4
    <3> QED
      BY <2>2, <2>4, <2>5, <2>7, <2>8, <3>1, <3>2 DEF FinishedUnreachable, Carrying
  <2> QED
    BY <2>6, <2>9
<1>7. ASSUME NEW w \in Workers, NEW e \in Executions, UpdateUnanswered(w, e) PROVE Kept
  <2>1. PICK status \in {"active", "finished"} : record' = Written(e, status)
    BY <1>7 DEF UpdateUnanswered
  <2>2. form' = form /\ copy' = copy
    BY <1>7 DEF UpdateUnanswered
  <2> QED
    BY <2>1, <2>2, <1>t, WrittenFields DEF StampsReached, FinishedUnreachable, Carrying
<1>8. ASSUME NEW w \in Workers, Restart(w) PROVE Kept
  <2>1. /\ form' = form
        /\ \A f \in Executions :
             /\ record'[f].owner \in {record[f].owner, NoWorker} /\ record'[f].epoch = record[f].epoch
             /\ record'[f].status = record[f].status /\ record'[f].revision = record[f].revision
    BY <1>8 DEF Restart, TypeOK, Records
  <2>2. \A v \in Workers, f \in Executions : copy'[v][f] = IF v = w THEN NoCopy ELSE copy[v][f]
    BY <1>8 DEF Restart, TypeOK
  <2> QED
    BY <2>1, <2>2, <1>t DEF StampsReached, FinishedUnreachable, Carrying, NoCopy
<1>9. ASSUME NEW o \in Operators, NEW e \in Executions, OperatorReads(o, e) PROVE Kept
  <2>1. record' = record /\ copy' = copy /\ record[e].status = "active"
    BY <1>9 DEF OperatorReads, Active
  <2>2. \A q \in Operators, f \in Executions :
          form'[q][f] = IF q = o /\ f = e THEN [read |-> TRUE, revision |-> record[e].revision]
                        ELSE form[q][f]
    BY <1>9 DEF OperatorReads, TypeOK
  <2> QED
    BY <2>1, <2>2, <1>t DEF StampsReached, FinishedUnreachable, Carrying
<1>10. ASSUME NEW o \in Operators, NEW e \in Executions, OperatorUpdates(o, e) PROVE Kept
  <2>1. PICK status \in {"active", record[e].status} :
          record' = IF Current(e, form[o][e].revision) /\ Patchable(e, status)
                    THEN Written(e, status) ELSE record
    BY <1>10 DEF OperatorUpdates
  <2>2. copy' = copy /\ form[o][e].read
    BY <1>10 DEF OperatorUpdates
  <2>3. \A q \in Operators, f \in Executions :
          form'[q][f] = IF q = o /\ f = e THEN NoForm ELSE form[q][f]
    BY <1>10 DEF OperatorUpdates, TypeOK
  <2>4. CASE record' = record
    BY <2>2, <2>3, <2>4, <1>t DEF StampsReached, FinishedUnreachable, Carrying, NoForm
  <2>5. CASE record' = Written(e, status) /\ form[o][e].revision = record[e].revision
    <3>1. record[e].status # "finished"
      BY <2>2, <2>5, <1>t DEF FinishedUnreachable
    <3>2. status \in {"absent", "active", "finished"}
      BY <1>t
    <3>3. \A f \in Executions :
            /\ record'[f].owner = record[f].owner /\ record'[f].epoch = record[f].epoch
            /\ record'[f].revision \in Nat /\ record'[f].revision >= record[f].revision
            /\ record'[f].status = "finished" => record[f].status = "finished"
      <4>1. status # "finished"
        BY <3>1
      <4> QED
        BY <2>5, <3>2, <4>1, <1>t, WrittenFields
    <3>4. \A q \in Operators, f \in Executions :
            /\ form'[q][f].revision \in Nat /\ form'[q][f].revision <= form[q][f].revision
            /\ form'[q][f].read => form'[q][f] = form[q][f]
      BY <2>3, <1>t DEF NoForm
    <3>5. StampsReached'
      BY <2>2, <3>3, <3>4, <1>t DEF StampsReached
    <3>6. FinishedUnreachable'
      BY <2>2, <3>3, <3>4, <1>t DEF FinishedUnreachable, Carrying
    <3> QED
      BY <3>5, <3>6
  <2> QED
    BY <2>1, <2>4, <2>5 DEF Current
<1>11. ASSUME NEW p \in Publishers, NEW e \in Executions, NEW r \in 0..MaxRevision,
              AcknowledgeEvent(p, e, r)
       PROVE  Kept
  <2>1. /\ form' = form /\ copy' = copy
        /\ \A f \in Executions :
             /\ record'[f].owner = record[f].owner /\ record'[f].epoch = record[f].epoch
             /\ record'[f].status = record[f].status /\ record'[f].revision = record[f].revision
    BY <1>11 DEF AcknowledgeEvent, TypeOK, Records
  <2> QED
    BY <2>1, <1>t DEF StampsReached, FinishedUnreachable, Carrying
<1>12. CASE UNCHANGED <<record, copy, form>>
  BY <1>12 DEF StampsReached, FinishedUnreachable, Carrying
<1>13. ASSUME NEW p \in Publishers, Relay(p) \/ FlushFails(p)
       PROVE  \/ UNCHANGED <<record, copy, form>>
              \/ \E e \in Executions, r \in 0..MaxRevision : AcknowledgeEvent(p, e, r)
  BY <1>13 DEF Relay, FlushFails, ListPendingEvents, PublishSome, Publish, AcknowledgeSome
<1> QED
  BY <1>1, <1>2, <1>3, <1>4, <1>5, <1>6, <1>7, <1>8, <1>9, <1>10, <1>11, <1>12, <1>13
  DEF Next, Lease, vars

(* The invariant behind both the lease and the finality of executions.     *)
LEMMA StampsHold == Spec => []StampInv
<1>1. Init => StampInv
  BY InitType, InitStamps DEF StampInv
<1>2. StampInv /\ [Next]_vars => StampInv'
  BY NextType, NextStamps DEF StampInv
<1> QED
  BY <1>1, <1>2, PTL DEF Spec

-----------------------------------------------------------------------------
(* Finished executions *)

(* The steps that write a record need a revision that, once it is          *)
(* finished, nobody has.                                                   *)
LEMMA FinishedStep ==
  ASSUME StampInv, [Next]_vars, NEW e \in Executions, record[e].status = "finished"
  PROVE  record'[e].status = "finished" /\ record'[e].revision = record[e].revision
<1> USE DEF StampInv
<1> DEFINE Same == record'[e].status = record[e].status /\ record'[e].revision = record[e].revision
<1>t. record \in [Executions -> Records]
  BY DEF TypeOK
<1>1. ASSUME NEW f \in Executions, Create(f) PROVE Same
  BY <1>1, <1>t DEF Create, Records
<1>2. ASSUME NEW f \in Executions, LeaseExpires(f) PROVE Same
  BY <1>2, <1>t DEF LeaseExpires, Records
<1>3. ASSUME NEW w \in Workers, NEW f \in Executions, Claim(w, f) \/ Fence(w, f) PROVE Same
  BY <1>3, ClaimedFields DEF Claim, Fence
<1>4. ASSUME NEW w \in Workers, NEW f \in Executions, Release(w, f) PROVE Same
  BY <1>4, <1>t DEF Release, Records
<1>5. ASSUME NEW w \in Workers, NEW f \in Executions, Update(w, f) \/ UpdateUnanswered(w, f)
      PROVE  Same
  <2>1. PICK status \in {"active", "finished"} : record' = Written(f, status)
    BY <1>5 DEF Update, UpdateUnanswered
  <2>2. Carrying(w, f) /\ ~copy[w][f].done /\ copy[w][f].revision = record[f].revision
    BY <1>5 DEF Update, UpdateUnanswered, Current
  <2>3. record[f].revision \in Nat
    BY <1>t DEF Records
  <2>4. f # e
    BY <2>2, <2>3 DEF FinishedUnreachable
  <2> QED
    BY <2>1, <2>4, WrittenFields
<1>6. ASSUME NEW w \in Workers, Restart(w) PROVE Same
  BY <1>6, <1>t DEF Restart, Records
<1>7. ASSUME NEW o \in Operators, NEW f \in Executions, OperatorUpdates(o, f) PROVE Same
  <2>1. PICK status \in {"active", record[f].status} :
          record' = IF Current(f, form[o][f].revision) /\ Patchable(f, status)
                    THEN Written(f, status) ELSE record
    BY <1>7 DEF OperatorUpdates
  <2>2. status \in {"absent", "active", "finished"} /\ record[f].revision \in Nat
    BY <1>t DEF Records
  <2>3. form[o][f].read
    BY <1>7 DEF OperatorUpdates
  <2>4. Current(f, form[o][f].revision) => f # e
    BY <2>2, <2>3 DEF Current, FinishedUnreachable
  <2> QED
    BY <2>1, <2>2, <2>4, WrittenFields
<1>8. ASSUME NEW p \in Publishers, NEW f \in Executions, NEW r \in 0..MaxRevision,
             AcknowledgeEvent(p, f, r)
      PROVE  Same
  BY <1>8, <1>t DEF AcknowledgeEvent, Records
<1>9. CASE UNCHANGED record
  BY <1>9
<1>10. ASSUME NEW p \in Publishers, Relay(p) \/ FlushFails(p)
       PROVE  \/ UNCHANGED record
              \/ \E f \in Executions, r \in 0..MaxRevision : AcknowledgeEvent(p, f, r)
  BY <1>10 DEF Relay, FlushFails, ListPendingEvents, PublishSome, Publish, AcknowledgeSome
<1>11. ASSUME NEW o \in Operators, NEW f \in Executions, OperatorReads(o, f) PROVE UNCHANGED record
  BY <1>11 DEF OperatorReads
<1> QED
  BY <1>1, <1>2, <1>3, <1>4, <1>5, <1>6, <1>7, <1>8, <1>9, <1>10, <1>11 DEF Next, Lease, vars

(* FinishedIsFinal for any number of workers and requests: update() writes *)
(* no finished execution, whichever copy or lease it is called with.       *)
THEOREM FinishedFinal == Spec => FinishedIsFinal
<1>1. StampInv /\ [Next]_vars =>
        [\A e \in Executions : record[e].status = "finished" =>
           record'[e].status = "finished" /\ record'[e].revision = record[e].revision]_vars
  BY FinishedStep
<1> QED
  BY <1>1, StampsHold, PTL DEF Spec, FinishedIsFinal

-----------------------------------------------------------------------------
(* The lease *)

(* How the watched lease of e sees a step that leaves its columns alone.   *)
LEMMA LeaseUntouched ==
  ASSUME NEW e \in Executions,
         record'[e].owner = record[e].owner, record'[e].live = record[e].live,
         record'[e].epoch = record[e].epoch, record'[e].revision = record[e].revision,
         \A w \in Workers : copy'[w][e] = copy[w][e],
         record[e].owner \in Workers \cup {NoWorker}
  PROVE  UNCHANGED WatchedLease(e)!fenceVars
<1>1. Holder(e)' = Holder(e)
  BY DEF Holder
<1>2. Fresh(e)' = Fresh(e)
  BY DEF Fresh, Carrying
<1> QED
  BY <1>1, <1>2 DEF WatchedLease!fenceVars

(* A record nobody has claimed is an unclaimed lease. *)
LEMMA InitFenced == Init => \A e \in Executions : WatchedLease(e)!FenceInit
BY DEF Init, Absent, NoCopy, WatchedLease!FenceInit, Holder, Fresh, Carrying

(* A worker holds the record's epoch exactly if the stored stamps say so.  *)
LEMMA HolderIs ==
  ASSUME StampInv, NEW w \in Workers, NEW e \in Executions
  PROVE  Holder(e) = w <=> record[e].owner = w /\ copy[w][e].epoch = record[e].epoch
BY RepositoryAssumption DEF Holder

(* claim() and the claim of a fence(), seen by the execution they are for. *)
LEMMA ClaimFenced ==
  ASSUME StampInv, NEW w \in Workers, NEW e \in Executions, Claim(w, e)
  PROVE  WatchedLease(e)!Claim(w)
<1> USE DEF StampInv
<1>1. record' = Claimed(w, e) /\ (record[e].owner = w \/ ~record[e].live)
  BY DEF Claim, Claimable
<1>2. /\ record'[e].owner = w /\ record'[e].epoch = EpochFor(w, e)
      /\ record'[e].revision = record[e].revision
  BY <1>1, ClaimedFields
<1>live. record'[e].live = TRUE
  BY <1>1, ClaimedLive
<1>3. \A v \in Workers :
        copy'[v][e] = IF v = w
                      THEN [epoch |-> EpochFor(w, e), revision |-> record[e].revision, done |-> FALSE]
                      ELSE copy[v][e]
  BY DEF Claim, TypeOK
<1>4. EpochFor(w, e) # 0
  BY EpochForBound
<1>5. Holder(e)' = w
  BY <1>2, <1>3, RepositoryAssumption DEF Holder
<1>6. Fresh(e)' = Fresh(e) \cup {w}
  BY <1>2, <1>3, <1>4 DEF Fresh, Carrying
<1> QED
  BY <1>1, <1>2, <1>live, <1>5, <1>6 DEF WatchedLease!Claim, WatchedLease!Claimable

(* fence() that claims again: a renewal, or a lease nobody carries. *)
LEMMA FenceFenced ==
  ASSUME StampInv, NEW w \in Workers, NEW e \in Executions, Fence(w, e)
  PROVE  WatchedLease(e)!Reclaim(w) \/ UNCHANGED WatchedLease(e)!fenceVars
<1> USE DEF StampInv
<1>1. record' = Claimed(w, e) /\ copy' = copy /\ (record[e].owner = w \/ ~record[e].live)
  BY DEF Fence, Claimable
<1>2. /\ record'[e].owner = w /\ record'[e].epoch = EpochFor(w, e)
      /\ record'[e].revision = record[e].revision
  BY <1>1, ClaimedFields
<1>live. record'[e].live = TRUE
  BY <1>1, ClaimedLive
<1>3. record[e].owner \in Workers \cup {NoWorker} /\ record[e].live \in BOOLEAN
      /\ record[e].epoch \in Nat
  BY DEF TypeOK, Records
<1>4. CASE record[e].owner = w /\ record[e].live
  <2>1. record'[e].epoch = record[e].epoch
    BY <1>2, <1>4 DEF EpochFor
  <2> QED
    BY <1>1, <1>2, <1>live, <1>3, <1>4, <2>1, LeaseUntouched
<1>5. CASE ~(record[e].owner = w /\ record[e].live)
  <2>1. EpochFor(w, e) = record[e].epoch + 1
    BY <1>5 DEF EpochFor
  <2>2. copy[w][e].epoch \in Nat /\ copy[w][e].epoch <= record[e].epoch
    BY DEF TypeOK, StampsReached
  <2>3. Holder(e)' = NoWorker
    BY <1>1, <1>2, <1>3, <2>1, <2>2, RepositoryAssumption DEF Holder
  <2>4. Fresh(e)' = Fresh(e)
    BY <1>1, <1>2 DEF Fresh, Carrying
  <2>5. ~(Holder(e) = w /\ record[e].live)
    BY <1>5, HolderIs
  <2> QED
    BY <1>1, <1>2, <1>live, <1>5, <2>3, <2>4, <2>5
    DEF WatchedLease!Reclaim, WatchedLease!Claimable, WatchedLease!Valid
<1> QED
  BY <1>4, <1>5

(* A leased update, whether its answer arrives or not. *)
LEMMA UpdateFenced ==
  ASSUME StampInv, NEW w \in Workers, NEW e \in Executions
  PROVE  /\ Update(w, e) => WatchedLease(e)!Write(w)
         /\ UpdateUnanswered(w, e) => WatchedLease(e)!ForeignWrite
<1> USE DEF StampInv
<1>t. \A v \in Workers : copy[v][e].revision \in Nat /\ copy[v][e].revision <= record[e].revision
  BY DEF TypeOK, StampsReached
<1>r. record[e].revision \in Nat /\ record[e].owner \in Workers \cup {NoWorker}
  BY DEF TypeOK, Records
<1> DEFINE Lands == /\ record'[e].owner = record[e].owner /\ record'[e].live = record[e].live
                    /\ record'[e].epoch = record[e].epoch
                    /\ record'[e].revision = record[e].revision + 1
<1>1. ASSUME Update(w, e) PROVE WatchedLease(e)!Write(w)
  <2>1. PICK status \in {"active", "finished"} :
          /\ record' = Written(e, status)
          /\ copy' = [copy EXCEPT ![w][e] =
                        [@ EXCEPT !.revision = record[e].revision + 1, !.done = status = "finished"]]
    BY <1>1 DEF Update
  <2>2. Lands
    BY <2>1, WrittenFields
  <2>3. \A v \in Workers :
          /\ copy'[v][e].epoch = copy[v][e].epoch
          /\ copy'[v][e].revision = IF v = w THEN record[e].revision + 1 ELSE copy[v][e].revision
    BY <2>1 DEF TypeOK
  <2>4. LeaseHeld(w, e) /\ copy[w][e].revision = record[e].revision /\ Carrying(w, e)
    BY <1>1 DEF Update, Current
  <2>5. Holder(e)' = Holder(e)
    BY <1>r, <2>2, <2>3 DEF Holder
  <2>6. Fresh(e)' = {w}
    BY <1>t, <1>r, <2>2, <2>3, <2>4 DEF Fresh, Carrying
  <2>7. Holder(e) = w /\ record[e].live /\ w \in Fresh(e)
    BY <2>4, HolderIs DEF LeaseHeld, Fresh
  <2> QED
    BY <2>2, <2>5, <2>6, <2>7 DEF WatchedLease!Write, WatchedLease!Valid
<1>2. ASSUME UpdateUnanswered(w, e) PROVE WatchedLease(e)!ForeignWrite
  <2>1. PICK status \in {"active", "finished"} : record' = Written(e, status)
    BY <1>2 DEF UpdateUnanswered
  <2>2. Lands /\ copy' = copy
    BY <1>2, <2>1, WrittenFields DEF UpdateUnanswered
  <2>3. Holder(e)' = Holder(e)
    BY <2>2 DEF Holder
  <2>4. Fresh(e)' = {}
    BY <1>t, <1>r, <2>2 DEF Fresh, Carrying
  <2> QED
    BY <2>2, <2>3, <2>4 DEF WatchedLease!ForeignWrite
<1> QED
  BY <1>1, <1>2

(* An operator's update leaves every worker's copy behind. *)
LEMMA OperatorFenced ==
  ASSUME StampInv, NEW o \in Operators, NEW e \in Executions, OperatorUpdates(o, e)
  PROVE  WatchedLease(e)!ForeignWrite \/ UNCHANGED <<record, copy>>
<1> USE DEF StampInv
<1>1. PICK status \in {"active", record[e].status} :
        record' = IF Current(e, form[o][e].revision) /\ Patchable(e, status)
                  THEN Written(e, status) ELSE record
  BY DEF OperatorUpdates
<1>2. copy' = copy
  BY DEF OperatorUpdates
<1>t. /\ \A v \in Workers : copy[v][e].revision \in Nat /\ copy[v][e].revision <= record[e].revision
      /\ record[e].revision \in Nat /\ status \in {"absent", "active", "finished"}
  BY DEF TypeOK, StampsReached, Records
<1>3. CASE record' = Written(e, status)
  <2>1. /\ record'[e].owner = record[e].owner /\ record'[e].live = record[e].live
        /\ record'[e].epoch = record[e].epoch /\ record'[e].revision = record[e].revision + 1
    BY <1>3, <1>t, WrittenFields
  <2>2. Holder(e)' = Holder(e)
    BY <1>2, <2>1 DEF Holder
  <2>3. Fresh(e)' = {}
    BY <1>2, <1>t, <2>1 DEF Fresh, Carrying
  <2> QED
    BY <2>1, <2>2, <2>3 DEF WatchedLease!ForeignWrite
<1> QED
  BY <1>1, <1>2, <1>3

(* release() ends a lease only for the continuation that carries it. *)
LEMMA ReleaseFenced ==
  ASSUME StampInv, NEW w \in Workers, NEW e \in Executions, Release(w, e)
  PROVE  WatchedLease(e)!Release(w)
<1> USE DEF StampInv
<1>t. /\ record[e].owner \in Workers \cup {NoWorker} /\ record[e].live \in BOOLEAN
      /\ record[e].epoch \in Nat /\ (record[e].owner # NoWorker => record[e].epoch > 0)
  BY DEF TypeOK, Records, StampsReached
<1>1. /\ record'[e].owner = record[e].owner /\ record'[e].epoch = record[e].epoch
      /\ record'[e].revision = record[e].revision
  BY DEF Release, TypeOK, Records
<1>2. /\ Holder(e) = w => record'[e].live = FALSE
      /\ Holder(e) # w => record'[e].live = record[e].live
  <2>1. CASE record[e].owner = w /\ record[e].epoch = copy[w][e].epoch
    <3>1. record' = [record EXCEPT ![e].live = FALSE]
      BY <2>1 DEF Release
    <3>2. record'[e].live = FALSE
      BY <3>1 DEF TypeOK, Records
    <3> QED
      BY <2>1, <3>2, HolderIs
  <2>2. CASE ~(record[e].owner = w /\ record[e].epoch = copy[w][e].epoch)
    <3>1. record' = record
      BY <2>2 DEF Release
    <3> QED
      BY <2>2, <3>1, HolderIs
  <2> QED
    BY <2>1, <2>2
<1>3. \A v \in Workers : copy'[v][e] = IF v = w THEN NoCopy ELSE copy[v][e]
  BY DEF Release, TypeOK
<1>4. Holder(e)' = IF Holder(e) = w THEN NoWorker ELSE Holder(e)
  BY <1>t, <1>1, <1>3, RepositoryAssumption DEF Holder, NoCopy
<1>5. Fresh(e)' = Fresh(e) \ {w}
  BY <1>1, <1>3 DEF Fresh, Carrying, NoCopy
<1> QED
  BY <1>t, <1>1, <1>2, <1>4, <1>5 DEF WatchedLease!Release

(* A new process carries nothing and owns nothing. *)
LEMMA RestartFenced ==
  ASSUME StampInv, NEW w \in Workers, NEW e \in Executions, Restart(w)
  PROVE  WatchedLease(e)!Die(w)
<1> USE DEF StampInv
<1>t. /\ record[e].owner \in Workers \cup {NoWorker}
      /\ record[e].epoch \in Nat /\ (record[e].owner # NoWorker => record[e].epoch > 0)
  BY DEF TypeOK, Records, StampsReached
<1>1. /\ record'[e].owner = IF record[e].owner = w THEN NoWorker ELSE record[e].owner
      /\ record'[e].epoch = record[e].epoch /\ record'[e].revision = record[e].revision
      /\ record'[e].live = record[e].live
  BY DEF Restart, TypeOK, Records
<1>3. \A v \in Workers : copy'[v][e] = IF v = w THEN NoCopy ELSE copy[v][e]
  BY DEF Restart, TypeOK
<1>4. Holder(e)' = IF Holder(e) = w THEN NoWorker ELSE Holder(e)
  BY <1>t, <1>1, <1>3, RepositoryAssumption DEF Holder, NoCopy
<1>5. Fresh(e)' = Fresh(e) \ {w}
  BY <1>1, <1>3 DEF Fresh, Carrying, NoCopy
<1> QED
  BY <1>1, <1>4, <1>5 DEF WatchedLease!Die

(* Every step of the repository is a step of each execution's fenced       *)
(* record, or leaves it alone.                                             *)
LEMMA NextFenced ==
  ASSUME StampInv, [Next]_vars, NEW e \in Executions
  PROVE  WatchedLease(e)!FenceNext \/ UNCHANGED WatchedLease(e)!fenceVars
<1> USE DEF StampInv
<1> DEFINE Done == WatchedLease(e)!FenceNext \/ UNCHANGED WatchedLease(e)!fenceVars
<1>t. record \in [Executions -> Records] /\ record[e].owner \in Workers \cup {NoWorker}
  BY DEF TypeOK, Records
<1>s. UNCHANGED <<record, copy>> => Done
  BY <1>t, LeaseUntouched
<1>1. ASSUME NEW f \in Executions, Create(f) PROVE Done
  <2>1. /\ record'[e].owner = record[e].owner /\ record'[e].live = record[e].live
        /\ record'[e].epoch = record[e].epoch /\ record'[e].revision = record[e].revision
    BY <1>1, <1>t DEF Create, Records
  <2> QED
    BY <1>1, <2>1, <1>t, LeaseUntouched DEF Create
<1>2. ASSUME NEW f \in Executions, LeaseExpires(f) PROVE Done
  <2>1. /\ record'[e].owner = record[e].owner
        /\ record'[e].epoch = record[e].epoch /\ record'[e].revision = record[e].revision
        /\ copy' = copy
    BY <1>2, <1>t DEF LeaseExpires, Records
  <2>2. CASE f = e
    <3>1. record[e].live /\ record'[e].live = FALSE
      BY <1>2, <2>2, <1>t DEF LeaseExpires, Records
    <3>2. Holder(e)' = Holder(e) /\ Fresh(e)' = Fresh(e)
      BY <2>1 DEF Holder, Fresh, Carrying
    <3> QED
      BY <2>1, <3>1, <3>2 DEF WatchedLease!FenceNext, WatchedLease!Expire
  <2>3. CASE f # e
    <3>1. record'[e].live = record[e].live
      BY <1>2, <2>3, <1>t DEF LeaseExpires
    <3> QED
      BY <2>1, <3>1, <1>t, LeaseUntouched
  <2> QED
    BY <2>2, <2>3
\* A worker's step for another execution leaves e's lease and copies alone.
<1>o. ASSUME NEW w \in Workers, NEW f \in Executions, f # e, Lease(w, f) PROVE Done
  <2>1. record'[e] = record[e]
    <3>1. CASE Claim(w, f) \/ Fence(w, f)
      BY <1>o, <3>1, ClaimedLive DEF Claim, Fence
    <3>2. CASE Release(w, f)
      BY <1>o, <3>2, <1>t DEF Release
    <3>3. CASE Update(w, f) \/ UpdateUnanswered(w, f)
      BY <1>o, <3>3, <1>t DEF Update, UpdateUnanswered, Written
    <3> QED
      BY <1>o, <3>1, <3>2, <3>3 DEF Lease
  <2>2. \A v \in Workers : copy'[v][e] = copy[v][e]
    BY <1>o DEF Lease, Claim, Fence, Release, Update, UpdateUnanswered, TypeOK
  <2> QED
    BY <2>1, <2>2, <1>t, LeaseUntouched
<1>3. ASSUME NEW w \in Workers, Lease(w, e) PROVE Done
  BY <1>3, ClaimFenced, FenceFenced, UpdateFenced, ReleaseFenced DEF Lease, WatchedLease!FenceNext
<1>4. ASSUME NEW w \in Workers, Restart(w) PROVE Done
  BY <1>4, RestartFenced DEF WatchedLease!FenceNext
<1>5. ASSUME NEW o \in Operators, NEW f \in Executions, OperatorUpdates(o, f) PROVE Done
  <2>1. CASE f = e
    BY <1>5, <2>1, <1>s, OperatorFenced DEF WatchedLease!FenceNext
  <2>2. CASE f # e
    <3>1. record'[e] = record[e] /\ copy' = copy
      BY <1>5, <2>2, <1>t DEF OperatorUpdates, Written
    <3> QED
      BY <3>1, <1>t, LeaseUntouched
  <2> QED
    BY <2>1, <2>2
<1>6. ASSUME NEW o \in Operators, NEW f \in Executions, OperatorReads(o, f) PROVE Done
  BY <1>6, <1>s DEF OperatorReads
<1>7. ASSUME NEW p \in Publishers, NEW f \in Executions, NEW r \in 0..MaxRevision,
             AcknowledgeEvent(p, f, r)
      PROVE  Done
  <2>1. /\ record'[e].owner = record[e].owner /\ record'[e].live = record[e].live
        /\ record'[e].epoch = record[e].epoch /\ record'[e].revision = record[e].revision
        /\ copy' = copy
    BY <1>7, <1>t DEF AcknowledgeEvent, Records
  <2> QED
    BY <2>1, <1>t, LeaseUntouched
<1>8. ASSUME NEW p \in Publishers, Relay(p) \/ FlushFails(p)
      PROVE  \/ UNCHANGED <<record, copy>>
             \/ \E f \in Executions, r \in 0..MaxRevision : AcknowledgeEvent(p, f, r)
  BY <1>8 DEF Relay, FlushFails, ListPendingEvents, PublishSome, Publish, AcknowledgeSome
<1>9. CASE UNCHANGED vars
  BY <1>9, <1>s DEF vars
<1>10. ASSUME NEW w \in Workers, NEW f \in Executions, Lease(w, f) PROVE Done
  BY <1>10, <1>o, <1>3
<1>11. ASSUME NEW p \in Publishers, Relay(p) \/ FlushFails(p) PROVE Done
  BY <1>11, <1>8, <1>s, <1>7
<1> HIDE DEF Done
<1>12. ASSUME Next PROVE Done
  BY <1>12, <1>1, <1>2, <1>10, <1>4, <1>5, <1>6, <1>11 DEF Next
<1> QED
  BY <1>9, <1>12 DEF Done

(* The stored stamps implement FencedRecord for any number of workers,     *)
(* requests, executions and publishers: the equality of epochs and         *)
(* revisions that update() and release() test tells exactly what the       *)
(* controllers rely on.                                                    *)
THEOREM FencingImplemented == Spec => ImplementsFencing
<1>1. Spec => \A e \in Executions : WatchedLease(e)!FenceInit
  BY InitFenced, PTL DEF Spec
<1>2. StampInv /\ [Next]_vars =>
        [\A e \in Executions :
           WatchedLease(e)!FenceNext \/ UNCHANGED WatchedLease(e)!fenceVars]_vars
  BY NextFenced
<1> QED
  BY <1>1, <1>2, StampsHold, PTL DEF Spec, ImplementsFencing

-----------------------------------------------------------------------------
(* The relay *)

(* Of what a publisher has listed, everything that comes before it is      *)
(* either listed too or in the log already.                                *)
BatchesFollow ==
  \A p \in Publishers, e \in Executions, r \in Nat :
    <<e, r>> \in batch[p] /\ r > 0 => <<e, r - 1>> \in batch[p] \/ Published(<<e, r - 1>>)

RelayInv == TypeOK /\ RelayInOrder /\ BatchesFollow

(* Only Publish() writes the log, and only at its end.                     *)
LEMMA AppendKeeps ==
  ASSUME TypeOK, NEW event \in Executions \X Nat, log' = Append(log, event)
  PROVE  /\ Len(log') = Len(log) + 1
         /\ log'[Len(log) + 1] = event
         /\ DOMAIN log = 1..Len(log) /\ DOMAIN log' = 1..(Len(log) + 1) /\ Len(log) \in Nat
         /\ \A i \in 1..Len(log) : log'[i] = log[i]
BY DEF TypeOK

(* An empty log is in order. *)
LEMMA InitRelay == Init => RelayInOrder /\ BatchesFollow
BY DEF Init, RelayInOrder, BatchesFollow, Absent, Published

(* A step that changes neither log, cursors nor batches.                   *)
LEMMA RelayUntouched ==
  ASSUME RelayInv, log' = log, batch' = batch,
         \A e \in Executions : record'[e].cursor = record[e].cursor
  PROVE  RelayInOrder' /\ BatchesFollow'
BY DEF RelayInv, RelayInOrder, BatchesFollow, Published

(* publish() of the first listed revision extends the log in order. *)
LEMMA PublishRelays ==
  ASSUME RelayInv, NEW p \in Publishers, NEW e \in Executions, NEW r \in Nat, Publish(p, e, r)
  PROVE  RelayInOrder' /\ BatchesFollow'
<1> USE DEF RelayInv
<1> DEFINE n == Len(log)
<1>1. /\ n \in Nat /\ DOMAIN log = 1..n /\ DOMAIN log' = 1..(n + 1)
      /\ log'[n + 1] = <<e, r>> /\ \A i \in 1..n : log'[i] = log[i]
  BY AppendKeeps DEF Publish
<1>2. <<e, r>> \in batch[p] /\ <<e, r - 1>> \notin batch[p] /\ batch' = batch /\ record' = record
  BY DEF Publish, NextEvent
<1>3. \A i \in 1..n : log[i] # <<e, r>>
  BY <1>1 DEF Publish, Published
<1>4. ASSUME NEW event, Published(event) PROVE Published(event)'
  BY <1>1, <1>4 DEF Published
<1>5. r > 0 => \E j \in 1..n : log[j] = <<e, r - 1>>
  BY <1>1, <1>2 DEF BatchesFollow, Published
<1>6. \A i, j \in DOMAIN log' : log'[i] = log'[j] => i = j
  BY <1>1, <1>3 DEF RelayInOrder
<1>7. ASSUME NEW i \in DOMAIN log', log'[i][2] > 0
      PROVE  \E j \in 1..(i - 1) : log'[j] = <<log'[i][1], log'[i][2] - 1>>
  <2>1. CASE i = n + 1
    BY <1>1, <1>5, <1>7, <2>1
  <2>2. CASE i # n + 1
    <3>1. i \in 1..n /\ log'[i] = log[i]
      BY <1>1, <1>7, <2>2
    <3>2. PICK j \in 1..(i - 1) : log[j] = <<log[i][1], log[i][2] - 1>>
      BY <1>1, <1>7, <3>1 DEF RelayInOrder
    <3>3. log'[j] = log[j]
      BY <1>1, <3>1, <3>2
    <3> QED
      BY <3>1, <3>2, <3>3
  <2> QED
    BY <2>1, <2>2
<1>8. \A f \in Executions : \A q \in 0..record'[f].cursor : Published(<<f, q>>)'
  BY <1>2, <1>4 DEF RelayInOrder
<1>9. BatchesFollow'
  BY <1>2, <1>4 DEF BatchesFollow
<1> QED
  BY <1>6, <1>7, <1>8, <1>9 DEF RelayInOrder

(* The cursor moves over a revision that is in the log. *)
LEMMA AcknowledgeRelays ==
  ASSUME RelayInv, NEW p \in Publishers, NEW e \in Executions, NEW r \in Nat,
         AcknowledgeEvent(p, e, r)
  PROVE  RelayInOrder' /\ BatchesFollow'
<1> USE DEF RelayInv
<1>1. log' = log /\ Published(<<e, r>>)
  BY DEF AcknowledgeEvent
<1>2. \A f \in Executions : record[f].cursor \in Nat \cup {-1}
  BY DEF TypeOK, Records
<1>3. \A f \in Executions :
        \/ record'[f].cursor = record[f].cursor
        \/ f = e /\ record'[f].cursor = r /\ r = record[f].cursor + 1
  <2>1. record \in [Executions -> Records]
    BY DEF TypeOK
  <2>2. CASE r = record[e].cursor + 1
    <3>1. record' = [record EXCEPT ![e].cursor = r]
      BY <2>2 DEF AcknowledgeEvent
    <3>2. record'[e].cursor = r
      BY <2>1, <3>1 DEF Records
    <3>3. \A f \in Executions \ {e} : record'[f] = record[f]
      BY <2>1, <3>1
    <3> QED
      BY <2>2, <3>2, <3>3
  <2>3. CASE r # record[e].cursor + 1
    BY <2>3 DEF AcknowledgeEvent
  <2> QED
    BY <2>2, <2>3
<1>4. ASSUME NEW f \in Executions, NEW q \in 0..record'[f].cursor PROVE Published(<<f, q>>)
  <2>1. CASE record'[f].cursor = record[f].cursor
    BY <2>1 DEF RelayInOrder
  <2>2. CASE f = e /\ record'[f].cursor = r /\ r = record[f].cursor + 1
    <3>1. q = r \/ q \in 0..record[f].cursor
      BY <1>2, <2>2
    <3> QED
      BY <1>1, <2>2, <3>1 DEF RelayInOrder
  <2> QED
    BY <1>3, <2>1, <2>2
<1>5. RelayInOrder'
  BY <1>1, <1>4 DEF RelayInOrder, Published
<1>6. \A q \in Publishers :
        batch'[q] = batch[q] \/ batch'[q] = {} \/ batch'[q] = batch[q] \ {<<e, r>>}
  BY DEF AcknowledgeEvent, TypeOK
<1>7. BatchesFollow'
  <2> SUFFICES ASSUME NEW q \in Publishers, NEW f \in Executions, NEW k \in Nat,
                      <<f, k>> \in batch'[q], k > 0
               PROVE  <<f, k - 1>> \in batch'[q] \/ Published(<<f, k - 1>>)
    BY <1>1 DEF BatchesFollow, Published
  <2>1. <<f, k>> \in batch[q]
    BY <1>6
  <2>2. <<f, k - 1>> \in batch[q] \/ Published(<<f, k - 1>>)
    BY <2>1 DEF BatchesFollow
  <2> QED
    BY <1>1, <1>6, <2>2
<1> QED
  BY <1>5, <1>7

(* What is listed starts right behind the cursor. *)
LEMMA ListRelays ==
  ASSUME RelayInv, NEW p \in Publishers, ListPendingEvents(p) \/ FlushFails(p)
  PROVE  RelayInOrder' /\ BatchesFollow'
<1> USE DEF RelayInv
<1>1. log' = log /\ record' = record /\ \A q \in Publishers \ {p} : batch'[q] = batch[q]
  BY DEF ListPendingEvents, FlushFails, TypeOK
<1>2. RelayInOrder'
  BY <1>1 DEF RelayInOrder, Published
<1>3. ASSUME NEW f \in Executions, NEW k \in Nat, <<f, k>> \in batch'[p], k > 0
      PROVE  <<f, k - 1>> \in batch'[p] \/ Published(<<f, k - 1>>)
  <2>1. batch'[p] = UNION {Pending(e) : e \in Executions}
    BY <1>3 DEF ListPendingEvents, FlushFails, TypeOK
  <2>2. <<f, k>> \in Pending(f)
    <3>1. PICK e \in Executions : <<f, k>> \in Pending(e)
      BY <1>3, <2>1
    <3>2. e = f
      BY <3>1 DEF Pending
    <3> QED
      BY <3>1, <3>2
  <2>3. /\ record[f].status # "absent" /\ k \in (record[f].cursor + 1)..record[f].revision
        /\ record[f].cursor \in Nat \cup {-1} /\ record[f].revision \in Nat
    BY <2>2 DEF Pending, TypeOK, Records
  <2>4. CASE k = record[f].cursor + 1
    BY <1>3, <2>3, <2>4 DEF RelayInOrder
  <2>5. CASE k # record[f].cursor + 1
    <3>1. k - 1 \in (record[f].cursor + 1)..record[f].revision
      BY <1>3, <2>3, <2>5
    <3>2. <<f, k - 1>> \in Pending(f)
      BY <2>3, <3>1 DEF Pending
    <3> QED
      BY <2>1, <3>2
  <2> QED
    BY <2>4, <2>5
<1>4. BatchesFollow'
  BY <1>1, <1>3 DEF BatchesFollow, Published
<1> QED
  BY <1>2, <1>4

(* update() and claim() keep the cursor of the outbox. *)
LEMMA WrittenCursor ==
  ASSUME record \in [Executions -> Records], NEW e \in Executions
  PROVE  /\ \A status : \A f \in Executions : Written(e, status)[f].cursor = record[f].cursor
         /\ \A w \in Workers : \A f \in Executions : Claimed(w, e)[f].cursor = record[f].cursor
<1>1. ASSUME NEW status, NEW f \in Executions PROVE Written(e, status)[f].cursor = record[f].cursor
  BY DEF Written, Records
<1>2. ASSUME NEW w \in Workers, NEW f \in Executions PROVE Claimed(w, e)[f].cursor = record[f].cursor
  <2>1. CASE f = e
    BY <2>1 DEF Claimed, Records
  <2>2. CASE f # e
    BY <2>2 DEF Claimed
  <2> QED
    BY <2>1, <2>2
<1> QED
  BY <1>1, <1>2

(* Every step keeps the log in order. *)
LEMMA NextRelay == RelayInv /\ [Next]_vars => RelayInOrder' /\ BatchesFollow'
<1> SUFFICES ASSUME RelayInv, [Next]_vars PROVE RelayInOrder' /\ BatchesFollow'
  OBVIOUS
<1> DEFINE Kept == RelayInOrder' /\ BatchesFollow'
<1>r. record \in [Executions -> Records]
  BY DEF RelayInv, TypeOK
<1>s. 0..MaxRevision \subseteq Nat
  BY RepositoryAssumption
<1>1. ASSUME NEW e \in Executions, Create(e) \/ LeaseExpires(e) PROVE Kept
  <2>1. log' = log /\ batch' = batch /\ \A f \in Executions : record'[f].cursor = record[f].cursor
    BY <1>1, <1>r DEF Create, LeaseExpires, Records
  <2> QED
    BY <2>1, RelayUntouched
<1>2. ASSUME NEW w \in Workers, NEW e \in Executions, Lease(w, e) PROVE Kept
  <2>1. log' = log /\ batch' = batch
    BY <1>2 DEF Lease, Claim, Fence, Release, Update, UpdateUnanswered
  <2>2. \A f \in Executions : record'[f].cursor = record[f].cursor
    <3>1. CASE Claim(w, e) \/ Fence(w, e)
      <4>1. record' = Claimed(w, e)
        BY <3>1 DEF Claim, Fence
      <4> QED
        BY <4>1, <1>r, WrittenCursor
    <3>2. CASE Release(w, e)
      BY <3>2, <1>r DEF Release, Records
    <3>3. CASE Update(w, e) \/ UpdateUnanswered(w, e)
      BY <3>3, <1>r, WrittenCursor DEF Update, UpdateUnanswered
    <3> QED
      BY <1>2, <3>1, <3>2, <3>3 DEF Lease
  <2> QED
    BY <2>1, <2>2, RelayUntouched
<1>3. ASSUME NEW w \in Workers, Restart(w) PROVE Kept
  <2>1. log' = log /\ batch' = batch /\ \A f \in Executions : record'[f].cursor = record[f].cursor
    BY <1>3, <1>r DEF Restart, Records
  <2> QED
    BY <2>1, RelayUntouched
<1>4. ASSUME NEW o \in Operators, NEW e \in Executions, OperatorReads(o, e) \/ OperatorUpdates(o, e)
      PROVE  Kept
  <2>1. log' = log /\ batch' = batch
    BY <1>4 DEF OperatorReads, OperatorUpdates
  <2>2. \A f \in Executions : record'[f].cursor = record[f].cursor
    BY <1>4, <1>r, WrittenCursor DEF OperatorReads, OperatorUpdates
  <2> QED
    BY <2>1, <2>2, RelayUntouched
<1>5. ASSUME NEW p \in Publishers, Relay(p) \/ FlushFails(p) PROVE Kept
  BY <1>5, <1>s, ListRelays, PublishRelays, AcknowledgeRelays DEF Relay, PublishSome, AcknowledgeSome
<1>6. CASE UNCHANGED vars
  BY <1>6, RelayUntouched DEF vars
<1> QED
  BY <1>1, <1>2, <1>3, <1>4, <1>5, <1>6 DEF Next

(* RelayInOrder for any number of concurrent flushes, executions and       *)
(* revisions: each revision is logged once, after the one before it, and   *)
(* leaves the outbox only then.                                            *)
THEOREM RelayOrdered == Spec => []RelayInOrder
<1>1. Init => RelayInv
  BY InitType, InitRelay DEF RelayInv
<1>2. RelayInv /\ [Next]_vars => RelayInv'
  BY NextType, NextRelay DEF RelayInv
<1>3. RelayInv => RelayInOrder
  BY DEF RelayInv
<1> QED
  BY <1>1, <1>2, <1>3, PTL DEF Spec
=============================================================================
