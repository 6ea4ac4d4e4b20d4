--------------------------- MODULE PlanRepository ---------------------------
(***************************************************************************)
(* The durable store of managed plan executions: creation under a request  *)
(* id, the leased and revision-checked update, claim and release of the    *)
(* lease, and the outbox of revisions that publishers relay to the room's  *)
(* event log.  Epochs and revisions are the store's integers.              *)
(*                                                                         *)
(* Each action is one transaction of the PostgreSQL repository; the        *)
(* in-memory one runs the same code between two awaits.                    *)
(***************************************************************************)
EXTENDS Integers, Sequences

CONSTANTS Workers, NoWorker,
          Operators,      \* requests of the HTTP routes under way
          Publishers,     \* concurrent calls of flushEvents()
          Executions,     \* one per request id: a repeated request returns its execution
          PaneOf, PlanOf, \* what each request asks for
          MaxRevision,    \* bound
          MaxEpoch        \* bound

ASSUME RepositoryAssumption ==
  /\ NoWorker \notin Workers
  /\ MaxRevision \in Nat
  /\ MaxEpoch \in Nat

VARIABLES record,   \* managed_plan_executions, the lease columns included
          copy,     \* the record and lease a worker's continuation carries
          form,     \* the record an operator's request has read
          batch,    \* the events a publisher has listed and not yet dealt with
          log       \* the events table

vars == <<record, copy, form, batch, log>>

Absent == [status |-> "absent", revision |-> 0, cursor |-> -1,
           owner |-> NoWorker, epoch |-> 0, live |-> FALSE]

\* 0 for the epoch: no continuation (or request) of the execution is under way.
NoCopy == [epoch |-> 0, revision |-> 0, done |-> FALSE]
NoForm == [read |-> FALSE, revision |-> 0]

Active(e) == record[e].status = "active"

Init ==
  /\ record = [e \in Executions |-> Absent]
  /\ copy = [w \in Workers |-> [e \in Executions |-> NoCopy]]
  /\ form = [o \in Operators |-> [e \in Executions |-> NoForm]]
  /\ batch = [p \in Publishers |-> {}]
  /\ log = <<>>

-----------------------------------------------------------------------------
(* create(): the partial unique indexes admit one active execution per pane *)
(* and per plan.                                                            *)
Create(e) ==
  /\ record[e].status = "absent"
  /\ \A f \in Executions : Active(f) => PaneOf[f] # PaneOf[e] /\ PlanOf[f] # PlanOf[e]
  /\ record' = [record EXCEPT ![e].status = "active"]
  /\ UNCHANGED <<copy, form, batch, log>>

-----------------------------------------------------------------------------
(* The lease *)

\* Mutant: the owner keeps its epoch though its lease has expired.
EpochOfOwner(w, e) ==
  IF record[e].owner = w THEN record[e].epoch ELSE record[e].epoch + 1

EpochFor(w, e) ==
  IF record[e].owner = w /\ record[e].live THEN record[e].epoch ELSE record[e].epoch + 1

Claimable(w, e) ==
  /\ Active(e)
  /\ record[e].owner = w \/ ~record[e].live
  /\ EpochFor(w, e) <= MaxEpoch

Claimed(w, e) ==
  [record EXCEPT ![e] = [@ EXCEPT !.owner = w, !.live = TRUE, !.epoch = EpochFor(w, e)]]

Carrying(w, e) == copy[w][e].epoch # 0

\* claim() at the start of advance(); a worker advances one execution at a time.
Claim(w, e) ==
  /\ \A f \in Executions : ~Carrying(w, f)
  /\ Claimable(w, e)
  /\ record' = Claimed(w, e)
  /\ copy' = [copy EXCEPT ![w][e] = [epoch |-> EpochFor(w, e), revision |-> record[e].revision,
                                       done |-> FALSE]]
  /\ UNCHANGED <<form, batch, log>>

\* fence(): claim() again.  It throws unless epoch and revision are those
\* carried, and the continuation then goes on to release().
Fence(w, e) ==
  /\ Carrying(w, e)
  /\ Claimable(w, e)
  /\ record' = Claimed(w, e)
  /\ UNCHANGED <<copy, form, batch, log>>

LeaseHeld(w, e) ==
  /\ record[e].owner = w
  /\ record[e].epoch = copy[w][e].epoch
  /\ record[e].live

Release(w, e) ==
  /\ Carrying(w, e)
  /\ record' = IF record[e].owner = w /\ record[e].epoch = copy[w][e].epoch
               THEN [record EXCEPT ![e].live = FALSE] ELSE record
  /\ copy' = [copy EXCEPT ![w][e] = NoCopy]
  /\ UNCHANGED <<form, batch, log>>

\* A new process has a new worker id: nobody can renew the lease left behind.
Restart(w) ==
  /\ copy' = [copy EXCEPT ![w] = [e \in Executions |-> NoCopy]]
  /\ record' = [e \in Executions |->
       [record[e] EXCEPT !.owner = IF @ = w THEN NoWorker ELSE @]]
  /\ UNCHANGED <<form, batch, log>>

LeaseExpires(e) ==
  /\ record[e].live
  /\ record' = [record EXCEPT ![e].live = FALSE]
  /\ UNCHANGED <<copy, form, batch, log>>

-----------------------------------------------------------------------------
(* update(): the revision is compared under the row lock, every write adds  *)
(* one to it and one event to the outbox.                                   *)

\* Mutant: only a revision still to come is refused.
CurrentOrOlder(e, revision) == revision <= record[e].revision

Current(e, revision) == record[e].revision = revision

\* applyPlanExecutionPatch() refuses to change a finished status.
Patchable(e, status) == Active(e) \/ status = record[e].status

Written(e, status) ==
  [record EXCEPT ![e] = [@ EXCEPT !.status = status, !.revision = record[e].revision + 1]]

\* The controller's save(); after a finished status advance() only releases.
Update(w, e) ==
  /\ Carrying(w, e)
  /\ ~copy[w][e].done
  /\ record[e].revision < MaxRevision
  /\ Current(e, copy[w][e].revision)
  /\ LeaseHeld(w, e)
  /\ \E status \in {"active", "finished"} :
       /\ Patchable(e, status)
       /\ record' = Written(e, status)
       /\ copy' = [copy EXCEPT ![w][e] =
                     [@ EXCEPT !.revision = record[e].revision + 1, !.done = status = "finished"]]
  /\ UNCHANGED <<form, batch, log>>

\* The same, but the COMMIT's answer is lost: the worker's copy stays behind.
UpdateUnanswered(w, e) ==
  /\ Carrying(w, e)
  /\ ~copy[w][e].done
  /\ record[e].revision < MaxRevision
  /\ Current(e, copy[w][e].revision)
  /\ LeaseHeld(w, e)
  /\ \E status \in {"active", "finished"} : Patchable(e, status) /\ record' = Written(e, status)
  /\ UNCHANGED <<copy, form, batch, log>>

\* An operator's request reads the record, asks the agent, then updates
\* without a lease; the patch may leave the status alone.  A finished
\* execution is refused on what was read.
OperatorReads(o, e) ==
  /\ ~form[o][e].read
  /\ Active(e)
  /\ form' = [form EXCEPT ![o][e] = [read |-> TRUE, revision |-> record[e].revision]]
  /\ UNCHANGED <<record, copy, batch, log>>

OperatorUpdates(o, e) ==
  /\ form[o][e].read
  /\ record[e].revision < MaxRevision
  /\ form' = [form EXCEPT ![o][e] = NoForm]
  /\ \E status \in {"active", record[e].status} :
       record' = IF Current(e, form[o][e].revision) /\ Patchable(e, status)
                 THEN Written(e, status) ELSE record
  /\ UNCHANGED <<copy, batch, log>>

-----------------------------------------------------------------------------
(* flushEvents(): list, then publish and acknowledge one event at a time,   *)
(* those of one execution by revision.                                      *)

\* Mutant: the acknowledged event is listed again.
PendingFromCursor(e) ==
  IF record[e].status = "absent" THEN {} ELSE {e} \X (record[e].cursor..record[e].revision)

Pending(e) ==
  IF record[e].status = "absent" THEN {} ELSE {e} \X ((record[e].cursor + 1)..record[e].revision)

ListPendingEvents(p) ==
  /\ batch[p] = {}
  /\ batch' = [batch EXCEPT ![p] = UNION {Pending(e) : e \in Executions}]
  /\ batch'[p] # {}
  /\ UNCHANGED <<record, copy, form, log>>

Published(event) == \E i \in DOMAIN log : log[i] = event

\* Mutant: a publisher takes the listed events in any order.
NextUnordered(p, e, revision) == <<e, revision>> \in batch[p]

NextEvent(p, e, revision) ==
  /\ <<e, revision>> \in batch[p]
  /\ <<e, revision - 1>> \notin batch[p]

\* ON CONFLICT(id) DO NOTHING.
Publish(p, e, revision) ==
  /\ NextEvent(p, e, revision)
  /\ ~Published(<<e, revision>>)
  /\ log' = Append(log, <<e, revision>>)
  /\ UNCHANGED <<record, copy, form, batch>>

\* Mutant: an acknowledgment moves the cursor to the end of the outbox.
AcknowledgeAll(p, e, revision) ==
  /\ NextEvent(p, e, revision)
  /\ Published(<<e, revision>>)
  /\ record' = [record EXCEPT ![e].cursor = record[e].revision]
  /\ batch' = [batch EXCEPT ![p] = @ \ {<<e, revision>>}]
  /\ UNCHANGED <<copy, form, log>>

\* acknowledgeEvent(): an event already acknowledged is passed over; one
\* beyond the next is refused, which ends the flush.
AcknowledgeEvent(p, e, revision) ==
  LET next == record[e].cursor + 1 IN
  /\ NextEvent(p, e, revision)
  /\ Published(<<e, revision>>)
  /\ record' = IF revision = next THEN [record EXCEPT ![e].cursor = revision] ELSE record
  /\ batch' = [batch EXCEPT ![p] = IF revision > next THEN {} ELSE @ \ {<<e, revision>>}]
  /\ UNCHANGED <<copy, form, log>>

\* The relay or the store fails, or the process ends.
FlushFails(p) ==
  /\ batch[p] # {}
  /\ batch' = [batch EXCEPT ![p] = {}]
  /\ UNCHANGED <<record, copy, form, log>>

-----------------------------------------------------------------------------

Lease(w, e) == Claim(w, e) \/ Fence(w, e) \/ Release(w, e) \/ Update(w, e)
               \/ UpdateUnanswered(w, e)
PublishSome(p) == \E e \in Executions, r \in 0..MaxRevision : Publish(p, e, r)
AcknowledgeSome(p) == \E e \in Executions, r \in 0..MaxRevision : AcknowledgeEvent(p, e, r)
Relay(p) == ListPendingEvents(p) \/ PublishSome(p) \/ AcknowledgeSome(p)

Next ==
  \/ \E e \in Executions : Create(e) \/ LeaseExpires(e)
  \/ \E w \in Workers, e \in Executions : Lease(w, e)
  \/ \E w \in Workers : Restart(w)
  \/ \E o \in Operators, e \in Executions : OperatorReads(o, e) \/ OperatorUpdates(o, e)
  \/ \E p \in Publishers : Relay(p) \/ FlushFails(p)

Spec == Init /\ [][Next]_vars

-----------------------------------------------------------------------------
(* Properties *)

Records == [status : {"absent", "active", "finished"}, revision : Nat, cursor : Nat \cup {-1},
            owner : Workers \cup {NoWorker}, epoch : Nat, live : BOOLEAN]

(* Every variable stays in its domain. *)
TypeOK ==
  /\ record \in [Executions -> Records]
  /\ copy \in [Workers -> [Executions -> [epoch : Nat, revision : Nat, done : BOOLEAN]]]
  /\ form \in [Operators -> [Executions -> [read : BOOLEAN, revision : Nat]]]
  /\ batch \in [Publishers -> SUBSET (Executions \X Nat)]
  /\ log \in Seq(Executions \X Nat)

(* However many flushes run, overlap, fail half way and run again, the log *)
(* gains each revision of an execution once and in order, and a revision   *)
(* leaves the outbox only when it is in the log.                           *)
RelayInOrder ==
  /\ \A i, j \in DOMAIN log : log[i] = log[j] => i = j
  /\ \A i \in DOMAIN log : log[i][2] > 0 => \E j \in 1..(i - 1) : log[j] = <<log[i][1], log[i][2] - 1>>
  /\ \A e \in Executions : \A r \in 0..record[e].cursor : Published(<<e, r>>)

(* A finished execution is never written again: not by a controller whose  *)
(* lease or copy is old, nor by a request that read it before it finished. *)
FinishedIsFinal ==
  [][\A e \in Executions : record[e].status = "finished" =>
       record'[e].status = "finished" /\ record'[e].revision = record[e].revision]_vars

(* The worker whose continuation carries the record's epoch. *)
Holder(e) ==
  IF record[e].owner # NoWorker /\ copy[record[e].owner][e].epoch = record[e].epoch
  THEN record[e].owner ELSE NoWorker

(* The workers whose copy is the record's revision. *)
Fresh(e) == {w \in Workers : Carrying(w, e) /\ copy[w][e].revision = record[e].revision}

WatchedLease(e) == INSTANCE FencedRecord WITH
  owner <- record[e].owner, live <- record[e].live, holder <- Holder(e), fresh <- Fresh(e)

(* The stored epochs and revisions implement FencedRecord, which the       *)
(* controllers' model is built on, for every execution: a worker's save    *)
(* lands only if nobody else wrote since the worker's own last read or     *)
(* write, and no lease was given to anybody since this continuation        *)
(* claimed its own: an epoch never stands for two.                         *)
ImplementsFencing ==
  /\ \A e \in Executions : WatchedLease(e)!FenceInit
  /\ [][\A e \in Executions :
          WatchedLease(e)!FenceNext \/ UNCHANGED WatchedLease(e)!fenceVars]_vars

(* The scheduler flushes on every tick and the relay does not fail every   *)
(* time.                                                                   *)
Fairness == \A p \in Publishers : WF_vars(Relay(p)) /\ SF_vars(PublishSome(p)) /\ SF_vars(AcknowledgeSome(p))

FairSpec == Spec /\ Fairness

(* Every revision reaches the log, also those of finished executions, and  *)
(* through publishers that stop between publishing and acknowledging.      *)
EverythingRelayed ==
  \A e \in Executions : <>[](record[e].status # "absent" => Published(<<e, record[e].revision>>))
=============================================================================
