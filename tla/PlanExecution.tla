--------------------------- MODULE PlanExecution ---------------------------
(***************************************************************************)
(* Managed plan execution: PlanExecutionController advancing one durable   *)
(* execution against a native agent thread, while operators pause, resume  *)
(* and change the stage model, users type into the same thread, processes  *)
(* end, leases lapse, and native answers are late, lost or refused.        *)
(*                                                                         *)
(* One execution, any number of controllers.  A START command is named by  *)
(* the index of its attempt; a native turn by its position in the thread.  *)
(* Every write of the record goes through the fenced update of             *)
(* FencedRecord; every step at which the code may find its lease or        *)
(* revision gone is covered by Conflict.                                   *)
(***************************************************************************)
EXTENDS FencedRecord, Integers, Sequences, FiniteSets

CONSTANTS Models,            \* model selections a stage may ask for
          NStages,           \* stages of the plan's snapshot
          StageModel,        \* the selection the snapshot gives each stage
          MaxStageAttempts,  \* SPACE_PLAN_STAGE_MAX_ATTEMPTS
          MaxUserTurns,      \* bound: turns users start themselves
          MaxRequests,       \* bound: accepted operator requests
          MaxFaults          \* bound: crashes, and leases lapsing under a worker

Stages == 1..NStages
Ids == 1..(NStages * MaxStageAttempts)

ASSUME PlanAssumption ==
  /\ NStages \in Nat \ {0}
  /\ MaxStageAttempts \in Nat \ {0}
  /\ MaxUserTurns \in Nat
  /\ MaxRequests \in Nat
  /\ MaxFaults \in Nat
  /\ StageModel \in [Stages -> Models]

VARIABLES exec,      \* the durable ManagedPlanExecution
          at,        \* each controller's position in advance(), and its locals
          mem,       \* each controller's maps: observation, receipt, acknowledgment
          native,    \* the agent thread: its turns and the state of the last one
          stopping,  \* an interrupt has reached the running turn
          wire,      \* turn/start requests sent and not yet decided by the agent
          proven,    \* history: stages a turn of their own completed by itself
          held,      \* history: a pause was accepted and no resume since
          left       \* operator requests and faults still to come

envVars == <<native, stopping, wire, proven>>
histVars == <<held, left>>
vars == <<owner, live, holder, fresh, exec, at, mem, native, stopping, wire,
          proven, held, left>>

-----------------------------------------------------------------------------
(* The record *)

Runnable == {"RUNNING", "SWITCHING_MODEL", "RESUMING_STAGE", "WAITING_FOR_INPUT",
             "WAITING_FOR_MODEL"}
Terminal == {"COMPLETED", "FAILED"}
Statuses == Runnable \cup Terminal \cup {"PAUSED", "BLOCKED"}
Delivery == {"PREPARED", "SENT", "UNKNOWN"}
AttemptStatuses == {"PREPARED", "RUNNING", "COMPLETED", "INTERRUPTED", "FAILED"}

\* id is 0 but for a START; turn is 0 until acceptance is recorded; base is the
\* length of the thread the command was prepared against (baselineTurnIds).
NoCommand == [type |-> "NONE", id |-> 0, stage |-> 1, sel |-> StageModel[1],
              status |-> "PREPARED", turn |-> 0, base |-> 0]
NoInterrupt == [turn |-> 0, status |-> "PREPARED"]

NewPlanExecution ==
  [status |-> "RUNNING", active |-> 1, completed |-> <<>>, attempts |-> <<>>,
   pending |-> NoCommand, interrupt |-> NoInterrupt, reason |-> "NONE",
   choice |-> StageModel, corrected |-> FALSE]

StartPending == exec.pending.type = "START"
StageAttempts(e, s) == Cardinality({k \in DOMAIN e.attempts : e.attempts[k].stage = s})

(* The attempt of the pending START with a new status. *)
Attempted(e, status) == [e.attempts EXCEPT ![e.pending.id].status = status]

(* pendingCommand, interruptCommand and interruptReason set to null. *)
Released(e) == [e EXCEPT !.pending = NoCommand, !.interrupt = NoInterrupt, !.reason = "NONE"]

(* The pending intent is withdrawn at once: nothing was sent that a later  *)
(* turn could come from.                                                   *)
Withdrawn(e, reason) ==
  [Released(e) EXCEPT
     !.status = IF reason = "PAUSE" \/ e.status = "PAUSED" THEN "PAUSED" ELSE "RESUMING_STAGE"]

(* The START and its observer are kept, and its turn, if known, is to be   *)
(* interrupted.                                                            *)
ToInterrupt(e, reason) ==
  [e EXCEPT !.reason = reason, !.status = "SWITCHING_MODEL",
            !.interrupt = IF @.turn = 0 THEN [NoInterrupt EXCEPT !.turn = e.pending.turn] ELSE @]

\* Mutant: a START that is not a turn yet is left alone.
InterruptedIfAccepted(e, reason) ==
  IF e.pending.type # "START" THEN Withdrawn(e, reason)
  ELSE IF e.pending.turn = 0 THEN e
  ELSE ToInterrupt(e, reason)

(* interrupt(execution, reason) of an operator's pause or model change. *)
Interrupted(e, reason) ==
  IF e.pending.type # "START" THEN Withdrawn(e, reason) ELSE ToInterrupt(e, reason)

-----------------------------------------------------------------------------
(* The thread, as readThread shows it: a turn is the START it carries, or 0 *)
(* for a turn a user started.  solo: the last turn holds a single message.  *)

NoThread == [turns |-> <<>>, last |-> "none", solo |-> TRUE]
Outcomes == {"interrupted", "failed", "failedRetryable",
             "CONTINUE", "COMPLETED", "BLOCKED", "insufficient"}
LastStates == Outcomes \cup {"none", "inProgress", "closed"}

Busy(t) == t.last = "inProgress"
Unmoved(c, t) == ~Busy(t) /\ Len(t.turns) = c.base

(* The one new turn since the command was prepared, and the last, is its own. *)
Matches(c, t) ==
  /\ Len(t.turns) = c.base + 1
  /\ \A i \in DOMAIN t.turns : t.turns[i] = c.id <=> i = c.base + 1
  /\ c.turn \in {0, c.base + 1}

-----------------------------------------------------------------------------
(* A controller *)

Idle == [pc |-> "idle", id |-> 0, was |-> "PREPARED", turn |-> 0, seen |-> NoThread]
NoMemory == [cmd |-> 0, evidence |-> "none", receipt |-> "none", acked |-> 0]

At(w, pc) == at[w].pc = pc
Goto(w, pc) == at' = [at EXCEPT ![w] = [Idle EXCEPT !.pc = pc]]
GotoWith(w, pc, id, was) == at' = [at EXCEPT ![w] = [Idle EXCEPT !.pc = pc, !.id = id, !.was = was]]

(* save(patch): one fenced update of the record. *)
Save(w, e) == Write(w) /\ exec' = e /\ UNCHANGED <<held, left>>

(* A step of the controller that touches nothing but its own position. *)
Local == UNCHANGED <<fenceVars, exec, mem, envVars, histVars>>
Return(w) == Goto(w, "finish") /\ Local
SaveAndReturn(w, e) == Save(w, e) /\ Goto(w, "finish") /\ UNCHANGED <<mem, envVars>>

Observed(w) == IF mem[w].cmd = exec.pending.id THEN mem[w].evidence ELSE "none"
Receipt(w) == IF mem[w].cmd = exec.pending.id THEN mem[w].receipt ELSE "none"

Init ==
  /\ FenceInit
  /\ exec = NewPlanExecution
  /\ at = [w \in Workers |-> Idle]
  /\ mem = [w \in Workers |-> NoMemory]
  /\ native = NoThread
  /\ stopping = FALSE
  /\ wire = {}
  /\ proven = {}
  /\ held = FALSE
  /\ left = [requests |-> MaxRequests, faults |-> MaxFaults]

-----------------------------------------------------------------------------
(* advance(): claim, look at the thread, decide *)

\* The candidate may have been listed while it was still runnable.
Advance(w) ==
  /\ At(w, "idle")
  /\ exec.status \notin Terminal
  /\ Claim(w)
  /\ Goto(w, IF exec.status \in Runnable THEN "read" ELSE "finish")
  /\ UNCHANGED <<exec, mem, envVars, histVars>>

\* nextRetryAt has not passed.
RetryLater(w) ==
  /\ At(w, "read")
  /\ exec.status = "WAITING_FOR_MODEL"
  /\ Return(w)

ReadThread(w) ==
  /\ At(w, "read")
  /\ Valid(w)
  /\ at' = [at EXCEPT ![w].pc = "decide", ![w].seen = native]
  /\ Local

(* What was asked for takes precedence over what the receipt says. *)
UnacceptedStatus(e, receipt) ==
  IF e.reason = "PAUSE" THEN "PAUSED"
  ELSE IF e.reason = "OVERRIDE" THEN "RESUMING_STAGE"
  ELSE IF receipt = "RETRYABLE" THEN "WAITING_FOR_MODEL"
  ELSE IF receipt = "NOT_SENT" THEN "RESUMING_STAGE"
  ELSE "BLOCKED"

(* The patch of settleUnaccepted: the START demonstrably never became a    *)
(* turn.                                                                   *)
Unaccepted(e, receipt) ==
  [Released(e) EXCEPT
     !.attempts = Attempted(e, "FAILED"),
     !.status = UnacceptedStatus(e, receipt)]

\* From the failed send itself, or from a later tick that holds the receipt
\* and sees no turn carrying the command.
Settle(w) ==
  /\ \/ At(w, "settling")
     \/ /\ At(w, "decide")
        /\ StartPending
        /\ \A i \in DOMAIN at[w].seen.turns : at[w].seen.turns[i] # exec.pending.id
  /\ Receipt(w) # "none"
  /\ Save(w, Unaccepted(exec, Receipt(w)))
  /\ mem' = [mem EXCEPT ![w].receipt = "none"]
  /\ Goto(w, "finish")
  /\ UNCHANGED envVars

Accepted(w) ==
  /\ At(w, "decide")
  /\ StartPending
  /\ Receipt(w) = "none"
  /\ Matches(exec.pending, at[w].seen)

AckToNote(w) == exec.interrupt.turn # 0 /\ mem[w].acked = exec.interrupt.turn

NoteAcknowledgement(w) ==
  /\ Accepted(w)
  /\ AckToNote(w)
  /\ Save(w, [exec EXCEPT !.interrupt.status = "SENT"])
  /\ mem' = [mem EXCEPT ![w].acked = 0]
  /\ UNCHANGED <<at, envVars>>

PendingAttempt == exec.attempts[exec.pending.id]
Verified(w) == PendingAttempt.verified \/ Observed(w) = "verified"

AcceptanceNoted(w) ==
  /\ exec.pending.turn # 0
  /\ exec.pending.status = "SENT"
  /\ PendingAttempt.status = "RUNNING"
  /\ PendingAttempt.verified = Verified(w)

NoteAcceptance(w) ==
  /\ Accepted(w)
  /\ ~AckToNote(w)
  /\ ~AcceptanceNoted(w)
  /\ Save(w, [exec EXCEPT
                !.pending = [@ EXCEPT !.status = "SENT", !.turn = exec.pending.base + 1],
                !.attempts = [Attempted(exec, "RUNNING") EXCEPT
                                ![exec.pending.id].verified = Verified(w)]])
  /\ UNCHANGED <<at, mem, envVars>>

\* Everything a tick knows of the accepted turn is on the record.
Reconciled(w) ==
  /\ Accepted(w)
  /\ ~AckToNote(w)
  /\ AcceptanceNoted(w)
  /\ Observed(w) # "invalid"

\* Mutant: a START the thread does not show is given up.
InconsistentGivenUp(w) ==
  /\ At(w, "decide")
  /\ StartPending
  /\ Receipt(w) = "none"
  /\ ~Matches(exec.pending, at[w].seen)
  /\ SaveAndReturn(w, [Released(exec) EXCEPT !.status = "RESUMING_STAGE"])

\* Mutant: a START the thread does not show is waited for.
InconsistentAwaited(w) ==
  /\ At(w, "decide")
  /\ StartPending
  /\ ~Matches(exec.pending, at[w].seen)
  /\ Return(w)

\* Acceptance ambiguous, a receipt the thread contradicts, or evidence lost:
\* an error, which blocks the execution and keeps the command.
Inconsistent(w) ==
  /\ At(w, "decide")
  /\ StartPending
  /\ IF Receipt(w) # "none"
     THEN \E i \in DOMAIN at[w].seen.turns : at[w].seen.turns[i] = exec.pending.id
     ELSE \/ ~Matches(exec.pending, at[w].seen)
          \/ ~AckToNote(w) /\ AcceptanceNoted(w) /\ Observed(w) = "invalid"
  /\ SaveAndReturn(w, [exec EXCEPT !.status = "BLOCKED"])

-----------------------------------------------------------------------------
(* The turn is running *)

\* Only the status follows the turn's flags; equal status is not saved again.
Watch(w) ==
  /\ Reconciled(w)
  /\ Busy(at[w].seen)
  /\ exec.reason = "NONE"
  /\ \E status \in {"RUNNING", "WAITING_FOR_INPUT"} :
       IF exec.status = status THEN UNCHANGED <<fenceVars, exec, histVars>>
                               ELSE Save(w, [exec EXCEPT !.status = status])
  /\ Goto(w, "finish")
  /\ UNCHANGED <<mem, envVars>>

PrepareInterrupt(w) ==
  /\ Reconciled(w)
  /\ Busy(at[w].seen)
  /\ exec.reason # "NONE"
  /\ exec.interrupt.turn = 0
  /\ Save(w, [exec EXCEPT !.interrupt = [turn |-> exec.pending.turn, status |-> "PREPARED"]])
  /\ UNCHANGED <<at, mem, envVars>>

\* Mutant: an interrupt without an answer is not sent again.
BeginInterruptOnce(w) ==
  /\ Reconciled(w)
  /\ Busy(at[w].seen)
  /\ exec.reason # "NONE"
  /\ exec.interrupt.turn = exec.pending.turn
  /\ IF exec.interrupt.status # "PREPARED"
     THEN Goto(w, "finish")
     ELSE GotoWith(w, "interrupt", exec.interrupt.turn, "PREPARED")
  /\ Local

BeginInterrupt(w) ==
  /\ Reconciled(w)
  /\ Busy(at[w].seen)
  /\ exec.reason # "NONE"
  /\ exec.interrupt.turn = exec.pending.turn
  /\ IF exec.interrupt.status = "SENT"
     THEN Goto(w, "finish")
     ELSE GotoWith(w, "interrupt", exec.interrupt.turn, "PREPARED")
  /\ Local

\* Mutant: whatever turn runs is interrupted.
InterruptibleAnyTurn(w) == Busy(native)

\* The turn this interrupt names is the thread's last one and still running.
Interruptible(w) == Busy(native) /\ Len(native.turns) = at[w].id

ArmInterrupt(w) ==
  /\ At(w, "interrupt")
  /\ Interruptible(w)
  /\ Save(w, [exec EXCEPT !.interrupt.status = "UNKNOWN"])
  /\ GotoWith(w, "interrupting", at[w].id, "PREPARED")
  /\ UNCHANGED <<mem, envVars>>

\* The turn closed before the interrupt, or the connection failed: no send.
DropInterrupt(w) ==
  /\ At(w, "interrupt")
  /\ Return(w)

InterruptAcknowledged(w) ==
  /\ At(w, "interrupting")
  /\ holder = w /\ live
  /\ Interruptible(w)
  /\ stopping' = TRUE
  /\ mem' = [mem EXCEPT ![w].acked = at[w].id]
  /\ Goto(w, "acked")
  /\ UNCHANGED <<fenceVars, exec, native, wire, proven, histVars>>

\* The answer is lost; the interrupt itself may have arrived.
InterruptUncertain(w) ==
  /\ At(w, "interrupting")
  /\ holder = w /\ live
  /\ stopping' \in {stopping, stopping \/ Interruptible(w)}
  /\ Goto(w, "finish")
  /\ UNCHANGED <<fenceVars, exec, mem, native, wire, proven, histVars>>

SaveAcknowledgement(w) ==
  /\ At(w, "acked")
  /\ Save(w, [exec EXCEPT !.interrupt.status = "SENT"])
  /\ mem' = [mem EXCEPT ![w].acked = 0]
  /\ Goto(w, "finish")
  /\ UNCHANGED envVars

-----------------------------------------------------------------------------
(* The turn is closed *)

Closed(w) == Reconciled(w) /\ ~Busy(at[w].seen)

\* History shows the closure before the observer's notification does; past a
\* deadline the execution blocks.
AwaitClosure(w) ==
  /\ Closed(w)
  /\ ~PendingAttempt.verified
  /\ Observed(w) = "observing"
  /\ Save(w, [exec EXCEPT !.status = "RUNNING"]) \/ UNCHANGED <<fenceVars, exec, histVars>>
  /\ Goto(w, "finish")
  /\ UNCHANGED <<mem, envVars>>

Unverifiable(w) ==
  /\ Closed(w)
  /\ ~PendingAttempt.verified \/ ~at[w].seen.solo
  /\ SaveAndReturn(w, [exec EXCEPT !.status = "BLOCKED"])

\* Mutant: a turn with other messages in it counts.
ClosedVerifiedShared(w) == Closed(w) /\ PendingAttempt.verified

ClosedVerified(w) == Closed(w) /\ PendingAttempt.verified /\ at[w].seen.solo

(* An interrupted or failed turn. *)
StoppedStatus(last) ==
  CASE last = "interrupted" ->
         IF exec.reason = "OVERRIDE" /\ exec.interrupt.status = "SENT"
         THEN "RESUMING_STAGE" ELSE "PAUSED"
    [] last = "failedRetryable" /\ exec.reason # "PAUSE" -> "WAITING_FOR_MODEL"
    [] OTHER -> "BLOCKED"

Stopped(w) ==
  LET last == at[w].seen.last IN
  /\ ClosedVerified(w)
  /\ last \in {"interrupted", "failed", "failedRetryable"}
  /\ SaveAndReturn(w, [Released(exec) EXCEPT
                !.status = StoppedStatus(last),
                !.attempts = Attempted(exec, IF last = "interrupted" THEN "INTERRUPTED" ELSE "FAILED")])

\* Not a result, or a completion without evidence for every criterion: one
\* correction, then the execution blocks.
Insufficient(w) ==
  /\ ClosedVerified(w)
  /\ at[w].seen.last = "insufficient"
  /\ SaveAndReturn(w, [Released(exec) EXCEPT
                !.attempts = Attempted(exec, "COMPLETED"),
                !.corrected = TRUE,
                !.status = IF exec.reason = "PAUSE" THEN "PAUSED"
                           ELSE IF exec.corrected THEN "BLOCKED"
                           ELSE "RESUMING_STAGE"])

\* Mutant: the index moves past the last stage.
NextActivePastEnd(stageDone, done) == IF stageDone THEN exec.active + 1 ELSE exec.active

\* The index of the active stage, which stays on the last one.
NextActive(stageDone, done) == IF stageDone /\ ~done THEN exec.active + 1 ELSE exec.active

Sufficient(w) ==
  LET outcome == at[w].seen.last
      stageDone == outcome = "COMPLETED"
      completed == IF stageDone THEN Append(exec.completed, exec.active) ELSE exec.completed
      done == Len(completed) = NStages
  IN
  /\ ClosedVerified(w)
  /\ outcome \in {"CONTINUE", "COMPLETED", "BLOCKED"}
  /\ SaveAndReturn(w, [Released(exec) EXCEPT
                !.attempts = Attempted(exec, "COMPLETED"),
                !.completed = completed,
                !.active = NextActive(stageDone, done),
                !.corrected = IF stageDone THEN FALSE ELSE @,
                !.status = IF outcome = "BLOCKED" THEN "BLOCKED"
                           ELSE IF done THEN "COMPLETED"
                           ELSE IF exec.reason = "PAUSE" THEN "PAUSED"
                           ELSE "RESUMING_STAGE"])

-----------------------------------------------------------------------------
(* No START pending: prepare the next one *)

Free(w) == At(w, "decide") /\ ~StartPending

\* Never interrupt or queue behind a user-owned turn.
UserOwned(w) ==
  /\ Free(w)
  /\ Busy(at[w].seen)
  /\ Return(w)

\* Mutant: only turns that returned a result count.
BudgetOfResults ==
  Cardinality({k \in DOMAIN exec.attempts :
    exec.attempts[k].stage = exec.active /\ exec.attempts[k].status = "COMPLETED"}) >= MaxStageAttempts

BudgetSpent == StageAttempts(exec, exec.active) >= MaxStageAttempts

Exhausted(w) ==
  /\ Free(w)
  /\ ~Busy(at[w].seen)
  /\ BudgetSpent
  /\ SaveAndReturn(w, [exec EXCEPT !.status = "FAILED", !.pending = NoCommand])

Startable(w) == Free(w) /\ ~Busy(at[w].seen) /\ ~BudgetSpent

\* The runtime does not advertise the stage's selection now.
ModelUnavailable(w) ==
  /\ Startable(w)
  /\ SaveAndReturn(w, [exec EXCEPT !.status = "WAITING_FOR_MODEL"])

PrepareSettings(w) ==
  /\ Startable(w)
  /\ exec.pending = NoCommand
  /\ Save(w, [exec EXCEPT
                !.status = "SWITCHING_MODEL",
                !.pending = [NoCommand EXCEPT !.type = "SETTINGS",
                                              !.stage = exec.active,
                                              !.sel = exec.choice[exec.active],
                                              !.base = Len(at[w].seen.turns)]])
  /\ GotoWith(w, "settings", 0, "NEW")
  /\ UNCHANGED <<mem, envVars>>

\* An earlier tick's intent, whatever became of its delivery.
ReuseSettings(w) ==
  /\ Startable(w)
  /\ exec.pending.type = "SETTINGS"
  /\ exec.pending.stage = exec.active
  /\ exec.pending.sel = exec.choice[exec.active]
  /\ GotoWith(w, "settings", 0, exec.pending.status)
  /\ Local

\* The intent no longer fits the stage's choice, or the thread has moved on
\* since it was prepared: an error, which blocks and keeps the intent.
StaleIntent(w) ==
  /\ \/ /\ Startable(w)
        /\ exec.pending.type = "SETTINGS"
        /\ exec.pending.stage # exec.active \/ exec.pending.sel # exec.choice[exec.active]
     \/ /\ At(w, "settings") \/ At(w, "prepare")
        /\ ~Unmoved(exec.pending, native)
  /\ SaveAndReturn(w, [exec EXCEPT !.status = "BLOCKED"])

\* The readback shows the selection already in place.
SettingsInPlace(w) ==
  /\ At(w, "settings")
  /\ Valid(w)
  /\ Unmoved(exec.pending, native)
  /\ at[w].was # "NEW"
  /\ GotoWith(w, "confirm", 0, at[w].was)
  /\ Local

\* The readback refutes an uncertain write: it may be repeated, later.
RetrySettings(w) ==
  /\ At(w, "settings")
  /\ Unmoved(exec.pending, native)
  /\ at[w].was = "UNKNOWN"
  /\ SaveAndReturn(w, [exec EXCEPT !.status = "WAITING_FOR_MODEL", !.pending.status = "PREPARED"])

\* The fence is the last thing before updateThreadSettings sends.
SendSettings(w) ==
  /\ At(w, "settings")
  /\ Valid(w)
  /\ Unmoved(exec.pending, native)
  /\ at[w].was # "UNKNOWN"
  /\ GotoWith(w, "configuring", 0, at[w].was)
  /\ Local

SettingsAcknowledged(w) ==
  /\ At(w, "configuring")
  /\ GotoWith(w, "confirm", 0, at[w].was)
  /\ Local

SettingsRejected(w) ==
  /\ At(w, "configuring")
  /\ \/ SaveAndReturn(w, [exec EXCEPT !.status = "WAITING_FOR_MODEL", !.pending.status = "PREPARED"])
     \/ SaveAndReturn(w, [exec EXCEPT !.status = "BLOCKED", !.pending = NoCommand])

SettingsUncertain(w) ==
  /\ At(w, "configuring")
  /\ SaveAndReturn(w, [exec EXCEPT !.status = "RESUMING_STAGE", !.pending.status = "UNKNOWN"])

ConfirmSettings(w) ==
  /\ At(w, "confirm")
  /\ Save(w, [exec EXCEPT !.pending.status = "SENT"])
  /\ GotoWith(w, "prepare", 0, at[w].was)
  /\ UNCHANGED <<mem, envVars>>

\* start = {...command, type: "START"}: command is the intent this tick read
\* or prepared, with the delivery status it had then.
PrepareStart(w) ==
  LET id == Len(exec.attempts) + 1 IN
  /\ At(w, "prepare")
  /\ Unmoved(exec.pending, native)
  /\ Save(w, [exec EXCEPT
                !.pending.type = "START",
                !.pending.id = id,
                !.pending.status = IF at[w].was = "NEW" THEN "PREPARED" ELSE at[w].was,
                !.attempts = Append(@, [stage |-> exec.active, status |-> "PREPARED",
                                        verified |-> FALSE])])
  /\ GotoWith(w, "starting", id, "PREPARED")
  /\ UNCHANGED <<mem, envVars>>

-----------------------------------------------------------------------------
(* The send *)

\* beforeSend: the thread is unmoved, and the last fence holds.
ArmStart(w) ==
  /\ At(w, "starting")
  /\ Valid(w)
  /\ Unmoved(exec.pending, native)
  /\ GotoWith(w, "armed", at[w].id, "PREPARED")
  /\ Local

\* The fence's answer is acted on at once: the lease is unexpired, but an
\* operator's request may have been saved since.
SendStart(w) ==
  /\ At(w, "armed")
  /\ holder = w /\ live
  /\ wire' = wire \cup {at[w].id}
  /\ GotoWith(w, "await", at[w].id, "PREPARED")
  /\ UNCHANGED <<fenceVars, exec, mem, native, stopping, proven, histVars>>

Remember(w, evidence, receipt) ==
  mem' = [mem EXCEPT ![w].cmd = at[w].id, ![w].evidence = evidence, ![w].receipt = receipt]

\* Anything that fails before the request leaves, fence() included.
NotSent(w) ==
  /\ At(w, "starting") \/ At(w, "armed")
  /\ Remember(w, "none", "NOT_SENT")
  /\ GotoWith(w, "settling", at[w].id, "PREPARED")
  /\ UNCHANGED <<fenceVars, exec, envVars, histVars>>

\* The agent answers the request with an error.
Rejected(w) ==
  /\ At(w, "await")
  /\ at[w].id \in wire
  /\ wire' = wire \ {at[w].id}
  /\ \E receipt \in {"REJECTED", "RETRYABLE"} : Remember(w, "none", receipt)
  /\ GotoWith(w, "settling", at[w].id, "PREPARED")
  /\ UNCHANGED <<fenceVars, exec, native, stopping, proven, histVars>>

\* The response names the turn.
Responded(w) ==
  /\ At(w, "await")
  /\ \E i \in DOMAIN native.turns :
       /\ native.turns[i] = at[w].id
       /\ at' = [at EXCEPT ![w].pc = "started", ![w].turn = i]
  /\ Remember(w, "observing", "none")
  /\ UNCHANGED <<fenceVars, exec, envVars, histVars>>

SaveStarted(w) ==
  /\ At(w, "started")
  /\ SaveAndReturn(w, [exec EXCEPT
                !.status = "RUNNING",
                !.pending = [@ EXCEPT !.status = "SENT", !.turn = at[w].turn],
                !.attempts = Attempted(exec, "RUNNING")])

\* Mutant: no answer counts as a refusal.
UncertainGivenUp(w) ==
  /\ At(w, "await") \/ At(w, "started")
  /\ SaveAndReturn(w, Unaccepted(exec, "NOT_SENT"))

\* No answer in time, or the save above failed for another reason than a
\* conflict.
Uncertain(w) ==
  /\ At(w, "await") \/ At(w, "started")
  /\ SaveAndReturn(w, [exec EXCEPT !.status = "RUNNING", !.pending.status = "UNKNOWN"])

-----------------------------------------------------------------------------
(* How advance() ends *)

Working == {"read", "decide", "interrupt", "interrupting", "acked", "settings",
            "configuring", "confirm", "prepare", "starting", "settling", "await", "started"}

\* fence() or save() finds the lease or the revision gone, or the thread has
\* moved before the settings were sent.  fence() may have claimed again.
Conflict(w) ==
  /\ at[w].pc \in Working
  /\ \/ ~Valid(w) /\ UNCHANGED fenceVars
     \/ Reclaim(w) /\ exec.status \notin Terminal
     \/ At(w, "configuring") /\ UNCHANGED fenceVars
  /\ Goto(w, "finish")
  /\ UNCHANGED <<exec, mem, envVars, histVars>>

\* Authority, identity or the native state could not be confirmed.
InspectionFails(w) ==
  /\ at[w].pc \in Working
  /\ SaveAndReturn(w, [exec EXCEPT !.status = "BLOCKED"])

Fault == left.faults > 0 /\ left' = [left EXCEPT !.faults = @ - 1]

\* The controller is closing, or the database does not answer.
Abandon(w) ==
  /\ at[w].pc \in Working
  /\ Fault
  /\ Goto(w, "finish")
  /\ UNCHANGED <<fenceVars, exec, mem, envVars, held>>

(* The finally block: keep what the record still waits for. *)
Kept(m) ==
  LET awaited == exec.status \in Runnable /\ exec.pending.id = m.cmd
      acking == exec.status \in Runnable /\ exec.interrupt.turn = m.acked
  IN [cmd      |-> IF awaited THEN m.cmd ELSE 0,
      evidence |-> IF awaited THEN m.evidence ELSE "none",
      receipt  |-> IF awaited THEN m.receipt ELSE "none",
      acked    |-> IF acking THEN m.acked ELSE 0]

Finish(w) ==
  /\ At(w, "finish")
  /\ mem' = [mem EXCEPT ![w] = Kept(@)]
  /\ Release(w)
  /\ Goto(w, "idle")
  /\ UNCHANGED <<exec, envVars, histVars>>

\* The finally block's own read fails: nothing is dropped or released.
FinishUnread(w) ==
  /\ At(w, "finish")
  /\ Fault
  /\ Goto(w, "idle")
  /\ UNCHANGED <<fenceVars, exec, mem, envVars, held>>

\* The process ends, at any step; another takes its place.
Crash(w) ==
  /\ Fault
  /\ Die(w)
  /\ Goto(w, "idle")
  /\ mem' = [mem EXCEPT ![w] = NoMemory]
  /\ UNCHANGED <<exec, envVars, held>>

\* A lease nobody carries runs out; one a worker carries only by a fault.
Lapse ==
  /\ Expire
  /\ IF holder = NoWorker THEN UNCHANGED left ELSE Fault
  /\ UNCHANGED <<exec, at, mem, envVars, held>>

\* The observer of w's START sees the turn close, or loses continuity.
Notify(w) ==
  /\ mem[w].evidence = "observing"
  /\ Len(native.turns) > 0
  /\ \E i \in DOMAIN native.turns :
       native.turns[i] = mem[w].cmd /\ (i < Len(native.turns) \/ ~Busy(native))
  /\ mem' = [mem EXCEPT ![w].evidence = "verified"]
  /\ UNCHANGED <<fenceVars, exec, at, envVars, histVars>>

LoseContinuity(w) ==
  /\ mem[w].evidence = "observing"
  /\ mem' = [mem EXCEPT ![w].evidence = "invalid"]
  /\ UNCHANGED <<fenceVars, exec, at, envVars, histVars>>

-----------------------------------------------------------------------------
(* Operators: a request reads the record and saves against that revision,  *)
(* so an accepted request is one step.                                     *)

Request(e, pause) ==
  /\ left.requests > 0
  /\ left' = [left EXCEPT !.requests = @ - 1]
  /\ exec.status \notin Terminal
  /\ ForeignWrite
  /\ exec' = e
  /\ held' = pause
  /\ UNCHANGED <<at, mem, envVars>>

Pause == Request(Interrupted(exec, "PAUSE"), TRUE)

CanResume ==
  /\ ~StartPending
  /\ exec.interrupt.turn = 0
  /\ exec.reason = "NONE"

Resume ==
  /\ CanResume
  /\ exec.status \in {"PAUSED", "BLOCKED", "WAITING_FOR_MODEL"}
  /\ Request([exec EXCEPT !.status = "RESUMING_STAGE"], FALSE)

\* An override never revokes a pause or unblocks ambiguous acceptance.
Override(s, m) ==
  LET e == [exec EXCEPT !.choice[s] = m] IN
  /\ \A i \in DOMAIN exec.completed : exec.completed[i] # s
  /\ Request(IF s = exec.active /\ exec.status # "BLOCKED"
             THEN Interrupted(e, IF exec.reason = "PAUSE" THEN "PAUSE" ELSE "OVERRIDE")
             ELSE e, held)

-----------------------------------------------------------------------------
(* The agent process and the users at its prompt (outside this repository) *)

\* A request that reaches a busy thread joins the running turn.
NativeAccept(k) ==
  /\ k \in wire
  /\ wire' = wire \ {k}
  /\ native' =
       IF Busy(native)
       THEN [native EXCEPT !.turns[Len(native.turns)] = k, !.solo = FALSE]
       ELSE [turns |-> Append(native.turns, k), last |-> "inProgress", solo |-> TRUE]
  /\ UNCHANGED <<fenceVars, exec, at, mem, stopping, proven, histVars>>

NativeLose(k) ==
  /\ k \in wire
  /\ wire' = wire \ {k}
  /\ UNCHANGED <<fenceVars, exec, at, mem, native, stopping, proven, histVars>>

Current == native.turns[Len(native.turns)]

NativeClose ==
  /\ Busy(native)
  /\ stopping' = FALSE
  /\ \E outcome \in IF Current = 0 THEN {"closed"} ELSE Outcomes :
       /\ native' = [native EXCEPT !.last = outcome]
       /\ proven' = IF outcome = "COMPLETED" /\ native.solo
                    THEN proven \cup {exec.attempts[Current].stage} ELSE proven
  /\ UNCHANGED <<fenceVars, exec, at, mem, wire, histVars>>

UserTurn ==
  /\ ~Busy(native)
  /\ Cardinality({i \in DOMAIN native.turns : native.turns[i] = 0}) < MaxUserTurns
  /\ native' = [turns |-> Append(native.turns, 0), last |-> "inProgress", solo |-> TRUE]
  /\ UNCHANGED <<fenceVars, exec, at, mem, stopping, wire, proven, histVars>>

\* A user adds a message to the controller's running turn.
UserSteer ==
  /\ Busy(native)
  /\ Current # 0
  /\ MaxUserTurns > 0
  /\ native.solo
  /\ native' = [native EXCEPT !.solo = FALSE]
  /\ UNCHANGED <<fenceVars, exec, at, mem, stopping, wire, proven, histVars>>

-----------------------------------------------------------------------------

(* The steps a live controller takes for itself. *)
Continue(w) ==
  \/ Advance(w) \/ RetryLater(w) \/ ReadThread(w)
  \/ Settle(w) \/ NoteAcknowledgement(w) \/ NoteAcceptance(w) \/ Inconsistent(w)
  \/ Watch(w) \/ PrepareInterrupt(w) \/ BeginInterrupt(w) \/ ArmInterrupt(w)
  \/ DropInterrupt(w) \/ InterruptAcknowledged(w) \/ InterruptUncertain(w)
  \/ SaveAcknowledgement(w)
  \/ AwaitClosure(w) \/ Unverifiable(w) \/ Stopped(w) \/ Insufficient(w) \/ Sufficient(w)
  \/ UserOwned(w) \/ Exhausted(w) \/ ModelUnavailable(w)
  \/ PrepareSettings(w) \/ ReuseSettings(w) \/ StaleIntent(w) \/ SettingsInPlace(w)
  \/ RetrySettings(w) \/ SendSettings(w) \/ SettingsAcknowledged(w) \/ SettingsRejected(w)
  \/ SettingsUncertain(w) \/ ConfirmSettings(w)
  \/ PrepareStart(w) \/ ArmStart(w) \/ SendStart(w) \/ NotSent(w) \/ Rejected(w)
  \/ Responded(w) \/ SaveStarted(w) \/ Uncertain(w)
  \/ Conflict(w) \/ Finish(w)

Disturb(w) ==
  \/ InspectionFails(w) \/ Abandon(w) \/ FinishUnread(w) \/ Crash(w)
  \/ Notify(w) \/ LoseContinuity(w)

Operator == Pause \/ Resume \/ \E s \in Stages, m \in Models : Override(s, m)

Agent == NativeClose \/ UserTurn \/ UserSteer \/ \E k \in wire : NativeAccept(k) \/ NativeLose(k)

Next ==
  \/ \E w \in Workers : Continue(w) \/ Disturb(w)
  \/ Lapse
  \/ Operator
  \/ Agent

Spec == Init /\ [][Next]_vars

-----------------------------------------------------------------------------
(* Invariants *)

Commands == [type : {"NONE", "SETTINGS", "START"}, id : Nat, stage : Stages, sel : Models,
             status : Delivery, turn : Nat, base : Nat]
Interrupts == [turn : Nat, status : Delivery]
Attempts == [stage : Stages, status : AttemptStatuses, verified : BOOLEAN]
Executions == [status : Statuses, active : Stages, completed : Seq(Stages),
               attempts : Seq(Attempts), pending : Commands, interrupt : Interrupts,
               reason : {"NONE", "OVERRIDE", "PAUSE"}, choice : [Stages -> Models],
               corrected : BOOLEAN]
Threads == [turns : Seq(Nat), last : LastStates, solo : BOOLEAN]
Positions == [pc : Working \cup {"idle", "armed", "finish"}, id : Nat,
              was : Delivery \cup {"NEW"}, turn : Nat, seen : Threads]
Memories == [cmd : Nat, evidence : {"none", "observing", "verified", "invalid"},
             receipt : {"none", "NOT_SENT", "REJECTED", "RETRYABLE"}, acked : Nat]

(* Every variable stays in its domain. *)
TypeOK ==
  /\ FenceTypeOK
  /\ exec \in Executions
  /\ at \in [Workers -> Positions]
  /\ mem \in [Workers -> Memories]
  /\ native \in Threads
  /\ stopping \in BOOLEAN
  /\ wire \subseteq Nat
  /\ proven \subseteq Stages
  /\ held \in BOOLEAN
  /\ left \in [requests : Nat, faults : Nat]

(* The STARTs the agent may still act on or is acting on. *)
Running == IF Busy(native) /\ Len(native.turns) > 0 /\ Current # 0 THEN {Current} ELSE {}
Outstanding == wire \cup Running \cup {at[w].id : w \in {v \in Workers : at[v].pc = "armed" /\ holder = v /\ live}}

(* Everything the agent may still start or is doing for this execution is  *)
(* the one START the record names as pending: a command is given up only   *)
(* on proof that it will never run, whoever held the lease when it was     *)
(* sent (settleUnaccepted, the closure branches, interrupt()).             *)
OneOutstanding ==
  \A k \in Outstanding : StartPending /\ k = exec.pending.id

(* A paused or finished execution is at rest in the agent too: no START on *)
(* the wire, none about to be sent, no turn of its own running.  (PAUSED   *)
(* is written by the controller after closure, or at once by interrupt().) *)
QuietAtRest ==
  exec.status \in {"PAUSED", "COMPLETED", "FAILED"} => Outstanding = {} /\ ~StartPending

(* Completed stages are the stages before the active one, in order, each   *)
(* because a turn of that very stage, nobody else's message in it, ended   *)
(* COMPLETED; the execution is COMPLETED exactly when they are all there.  *)
CompletionProven ==
  /\ \A i \in DOMAIN exec.completed : exec.completed[i] = i /\ i \in proven
  /\ exec.status = "COMPLETED" <=> Len(exec.completed) = NStages
  /\ exec.status # "COMPLETED" => exec.active = Len(exec.completed) + 1

(* No stage starts more native turns than its budget, over all controllers *)
(* and restarts, and every managed turn has a durable attempt.             *)
TurnBudget ==
  /\ \A s \in Stages : StageAttempts(exec, s) <= MaxStageAttempts
  /\ \A i \in DOMAIN native.turns : native.turns[i] \in {0} \cup DOMAIN exec.attempts
  /\ \A i, j \in DOMAIN native.turns : native.turns[i] = native.turns[j] => i = j \/ native.turns[i] = 0

(* A START that nobody has asked to stop carries the selection chosen for  *)
(* the stage that is active: a model change made between its preparation   *)
(* and its send is never lost.                                             *)
ChoiceHonoured ==
  StartPending =>
    /\ exec.pending.stage = exec.active
    /\ exec.attempts[exec.pending.id].stage = exec.active
    /\ exec.status \in Runnable /\ exec.reason = "NONE" => exec.pending.sel = exec.choice[exec.active]

(* An interrupt names a turn of the pending START, and one that has        *)
(* reached the agent stops that turn and no other: a user's turn that      *)
(* started meanwhile is left alone.                                        *)
InterruptsOwnTurn ==
  /\ exec.interrupt.turn # 0 =>
       /\ StartPending
       /\ exec.interrupt.turn \in DOMAIN native.turns
       /\ native.turns[exec.interrupt.turn] = exec.pending.id
  /\ stopping => Busy(native) /\ StartPending /\ Current = exec.pending.id /\ exec.reason # "NONE"

-----------------------------------------------------------------------------
(* Action properties *)

(* From an accepted pause to the next resume no attempt is made, whichever *)
(* override, refusal, failure, result or crash comes between.              *)
PauseHolds == [][held /\ held' => Len(exec'.attempts) = Len(exec.attempts)]_vars

-----------------------------------------------------------------------------
(* The promise about START commands *)

Promise == INSTANCE StageCommands WITH
  issued    <- [k \in DOMAIN exec.attempts |-> exec.attempts[k].stage],
  open      <- IF StartPending THEN exec.pending.id ELSE 0,
  taken     <- {native.turns[i] : i \in DOMAIN native.turns} \ {0},
  completed <- exec.completed

(* The controllers, operators and agent together keep the promise of       *)
(* StageCommands.                                                          *)
KeepsPromise == Promise!Spec

-----------------------------------------------------------------------------
(* Liveness *)

(* The scheduler ticks again and again and every await of a tick settles;   *)
(* the agent decides on what reaches it and stops an interrupted turn; an   *)
(* observer hears of the closure or loses its connection; a lease nobody    *)
(* renews runs out.  Strong fairness: the retry delay passes, a model does  *)
(* not stay unadvertised, settings do not fail and an interrupt is not lost *)
(* every single time.                                                       *)
Fairness ==
  /\ \A w \in Workers :
       /\ WF_vars(Continue(w))
       /\ WF_vars(Notify(w) \/ LoseContinuity(w))
       /\ SF_vars(ReadThread(w))
       /\ SF_vars(PrepareSettings(w) \/ ReuseSettings(w))
       /\ SF_vars(SettingsInPlace(w) \/ SendSettings(w))
       /\ SF_vars(SettingsAcknowledged(w))
       /\ SF_vars(ArmInterrupt(w))
       /\ SF_vars(InterruptAcknowledged(w))
  /\ WF_vars(\E k \in wire : NativeAccept(k) \/ NativeLose(k))
  /\ WF_vars(NativeClose /\ stopping)
  /\ WF_vars(Lapse /\ holder = NoWorker)

FairSpec == Spec /\ Fairness

(* An execution does not stay in motion for ever: it completes, fails, or  *)
(* comes to rest where an operator looks at it, after at most its budget   *)
(* of native turns.  Active work has no deadline (options of the           *)
(* controller), so this holds of turns that end.                           *)
ComesToRest == WF_vars(NativeClose) => (exec.status \in Runnable ~> exec.status \notin Runnable)

(* A requested stop or model change of a running turn takes effect, even   *)
(* of a turn that would never end: the interrupt is prepared once, repeated *)
(* until it is acknowledged, and reconciled; or the execution blocks.      *)
RequestTakesEffect ==
  exec.reason # "NONE" ~> exec.reason = "NONE" \/ exec.status = "BLOCKED"

-----------------------------------------------------------------------------
(* What the source says of itself and its steps do not keep *)

(* "Review before resuming": an execution that blocked can be resumed.     *)
(* (The status reasons of advance(); resume in executionControlPatch.)     *)
BlockedCanResume == exec.status = "BLOCKED" => CanResume
=============================================================================
