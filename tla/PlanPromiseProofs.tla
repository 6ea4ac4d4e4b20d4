------------------------- MODULE PlanPromiseProofs -------------------------
(***************************************************************************)
(* PlanExecution implements StageCommands, for any number of controllers,  *)
(* stages, attempts, requests, user turns and faults: each of its steps is *)
(* a step of the promise about START commands or leaves what the promise   *)
(* speaks of alone.                                                        *)
(***************************************************************************)
EXTENDS PlanCommandsProofs, SequenceTheorems

-----------------------------------------------------------------------------
(* What the promise sees of a state *)

Issued == [k \in DOMAIN exec.attempts |-> exec.attempts[k].stage]
Open == IF StartPending THEN exec.pending.id ELSE 0
TakenUp == {native.turns[i] : i \in DOMAIN native.turns} \ {0}

(* The stages of a sequence of attempts are a sequence of stages.          *)
LEMMA StagesOfAttempts ==
  ASSUME NEW a \in Seq(Attempts)
  PROVE  LET s == [k \in DOMAIN a |-> a[k].stage]
         IN s \in Seq(Stages) /\ Len(s) = Len(a) /\ \A k \in 1..Len(a) : s[k] = a[k].stage
<1> DEFINE n == Len(a)
           s == [k \in DOMAIN a |-> a[k].stage]
<1>1. n \in Nat /\ DOMAIN a = 1..n
  OBVIOUS
<1>2. \A k \in 1..n : a[k].stage \in Stages
  <2>1. \A k \in 1..n : a[k] \in Attempts
    BY <1>1
  <2> QED
    BY <2>1 DEF Attempts
<1>3. s \in [1..n -> Stages]
  BY <1>1, <1>2
<1>4. s \in Seq(Stages) /\ DOMAIN s = 1..n
  BY <1>1, <1>3
<1> QED
  BY <1>1, <1>4

(* Those of the record are. *)
LEMMA IssuedType ==
  ASSUME IndInv
  PROVE  /\ Issued \in Seq(Stages) /\ Len(Issued) = NAttempts /\ NAttempts \in Nat
         /\ \A k \in 1..NAttempts : Issued[k] = exec.attempts[k].stage
<1>1. exec.attempts \in Seq(Attempts) /\ NAttempts = Len(exec.attempts) /\ NAttempts \in Nat
  BY RecordType DEF NAttempts
<1> QED
  BY <1>1, StagesOfAttempts DEF Issued

(* The open command of the promise is a durable one, or none. *)
LEMMA OpenType ==
  ASSUME IndInv, CommandInv
  PROVE  /\ Open = exec.pending.id
         /\ StartPending => Open \in 1..NAttempts /\ Issued[Open] = exec.active
         /\ Open # 0 <=> StartPending
<1>1. exec.pending.id # 0 <=> StartPending
  BY DEF CommandInv, NamesOwnTurns
<1>2. StartPending =>
        exec.pending.id \in 1..NAttempts /\ exec.attempts[exec.pending.id].stage = exec.active
  BY DEF IndInv, PendingStage
<1> QED
  BY <1>1, <1>2, IssuedType DEF Open

(* A START is taken up when it is in a turn. *)
LEMMA TakenUpTook ==
  ASSUME IndInv, NEW k, k # 0
  PROVE  k \in TakenUp <=> Took(k)
BY ThreadType DEF TakenUp, Took

-----------------------------------------------------------------------------
(* Steps the promise does not see *)

(* A record with the same START pending, if any, the same attempts and the *)
(* same completed stages.                                                  *)
SameToPromise(e) ==
  /\ e.pending.type = "START" <=> StartPending
  /\ StartPending => e.pending.id = exec.pending.id
  /\ e.completed = exec.completed
  /\ Len(e.attempts) = NAttempts
  /\ \A k \in 1..NAttempts : e.attempts[k].stage = exec.attempts[k].stage

(* The attempts of such a record were issued to the same stages.           *)
LEMMA SameIssued ==
  ASSUME IndInv, IndInv', Len(exec'.attempts) = NAttempts,
         \A k \in 1..NAttempts : exec'.attempts[k].stage = exec.attempts[k].stage
  PROVE  Issued' = Issued
<1>1. DOMAIN exec.attempts = 1..NAttempts /\ DOMAIN exec'.attempts = 1..NAttempts
  <2>1. exec'.attempts \in Seq(Attempts)
    BY DEF IndInv, TypeOK, Executions
  <2> QED
    BY <2>1, RecordType DEF NAttempts
<1> QED
  BY <1>1 DEF Issued

(* A step to such a record that leaves the turns alone is a stutter.       *)
LEMMA Stutter ==
  ASSUME IndInv, IndInv', SameToPromise(exec'), native'.turns = native.turns
  PROVE  UNCHANGED <<Issued, Open, TakenUp, exec.completed>>
<1>1. Issued' = Issued
  BY SameIssued DEF SameToPromise
<1>2. Open' = Open
  BY DEF Open, StartPending, SameToPromise
<1>3. TakenUp' = TakenUp
  BY DEF TakenUp
<1> QED
  BY <1>1, <1>2, <1>3 DEF SameToPromise

(* The same record is such a record. *)
LEMMA SameRecord ==
  ASSUME IndInv, exec' = exec
  PROVE  SameToPromise(exec')
BY RecordType DEF SameToPromise, StartPending, NAttempts

(* The saves that keep the command as it is. *)
LEMMA StatusSame ==
  ASSUME IndInv, NEW w \in Workers,
         \/ NoteAcknowledgement(w) \/ Inconsistent(w) \/ Watch(w) \/ PrepareInterrupt(w)
         \/ ArmInterrupt(w) \/ SaveAcknowledgement(w) \/ AwaitClosure(w) \/ Unverifiable(w)
         \/ ModelUnavailable(w) \/ StaleIntent(w) \/ RetrySettings(w)
         \/ SettingsUncertain(w) \/ ConfirmSettings(w) \/ Uncertain(w) \/ InspectionFails(w)
  PROVE  SameToPromise(exec')
<1>1. exec'.attempts = exec.attempts
  BY NoAttempt
<1>2. exec \in Executions /\ exec.pending \in Commands
  BY RecordType
<1>3. /\ exec'.pending.type = exec.pending.type /\ exec'.pending.id = exec.pending.id
      /\ exec'.completed = exec.completed
  <2>1. CASE \/ NoteAcknowledgement(w) \/ Inconsistent(w) \/ PrepareInterrupt(w)
             \/ ArmInterrupt(w) \/ SaveAcknowledgement(w) \/ Unverifiable(w) \/ ModelUnavailable(w)
    BY <1>2, <2>1
       DEF NoteAcknowledgement, Inconsistent, PrepareInterrupt, ArmInterrupt,
           SaveAcknowledgement, Unverifiable, ModelUnavailable, SaveAndReturn, Save, Executions
  <2>2. CASE Watch(w) \/ AwaitClosure(w)
    BY <1>2, <2>2 DEF Watch, AwaitClosure, Save, Executions
  <2>3. CASE StaleIntent(w) \/ InspectionFails(w)
    BY <1>2, <2>3 DEF StaleIntent, InspectionFails, SaveAndReturn, Save, Executions
  <2>4. CASE RetrySettings(w) \/ SettingsUncertain(w) \/ ConfirmSettings(w) \/ Uncertain(w)
    <3>1. \E status, delivery :
            exec' \in {[exec EXCEPT !.status = status, !.pending.status = delivery],
                      [exec EXCEPT !.pending.status = delivery]}
      BY <2>4 DEF RetrySettings, SettingsUncertain, ConfirmSettings, Uncertain, SaveAndReturn, Save
    <3> QED
      BY <1>2, <3>1 DEF Executions, Commands
  <2> QED
    BY <2>1, <2>2, <2>3, <2>4
<1> QED
  BY <1>1, <1>3, RecordType DEF SameToPromise, StartPending, NAttempts

(* What is recorded of an accepted START leaves it the same. *)
LEMMA AcceptanceSame ==
  ASSUME IndInv, NEW w \in Workers, NoteAcceptance(w) \/ SaveStarted(w)
  PROVE  SameToPromise(exec')
<1>1. KeepsCommand(exec')
  <2>1. CASE NoteAcceptance(w)
    <3> DEFINE e == [exec EXCEPT
                       !.pending = [@ EXCEPT !.status = "SENT", !.turn = exec.pending.base + 1],
                       !.attempts = [Attempted(exec, "RUNNING") EXCEPT
                                       ![exec.pending.id].verified = Verified(w)]]
    <3>1. Save(w, e) /\ w \in fresh /\ at[w].pc = "decide"
      BY <2>1, SaveNeeds DEF NoteAcceptance, Accepted, At
    <3>2. exec.status \in Runnable
      BY <3>1, CurrentCopy DEF Working
    <3>3. Verified(w) \in BOOLEAN /\ exec.pending.base + 1 \in Nat
      BY RecordType DEF Verified, Commands
    <3>4. KeepsCommand(e)
      BY <3>2, <3>3, AcceptedPatch
    <3> HIDE DEF e
    <3> QED
      BY <3>1, <3>4 DEF Save
  <2>2. CASE SaveStarted(w)
    <3> DEFINE e == [exec EXCEPT
                       !.status = "RUNNING",
                       !.pending = [@ EXCEPT !.status = "SENT", !.turn = at[w].turn],
                       !.attempts = Attempted(exec, "RUNNING")]
    <3>1. SaveAndReturn(w, e)
      BY <2>2 DEF SaveStarted
    <3>2. at[w].turn \in Nat
      BY DEF IndInv, TypeOK, Positions
    <3>3. KeepsCommand(e)
      BY <3>2, AcceptedPatch
    <3> HIDE DEF e
    <3> QED
      BY <3>1, <3>3 DEF SaveAndReturn, Save
  <2> QED
    BY <2>1, <2>2
<1> QED
  BY <1>1 DEF KeepsCommand, SameToPromise, StartPending

(* Settings intents come and go between two STARTs. *)
LEMMA IntentSame ==
  ASSUME IndInv, NEW w \in Workers, PrepareSettings(w) \/ Exhausted(w) \/ SettingsRejected(w)
  PROVE  SameToPromise(exec')
<1>1. exec'.attempts = exec.attempts
  BY NoAttempt
<1>2. ~StartPending
  <2>1. w \in fresh
    BY SaveNeeds, ReturnNeeds DEF PrepareSettings, Exhausted, SettingsRejected
  <2> QED
    BY <2>1, CurrentCopy
       DEF PrepareSettings, Exhausted, SettingsRejected, Startable, Free, At, BeforeStart, Working
<1>3. exec'.pending.type # "START" /\ exec'.completed = exec.completed
  <2>1. exec \in Executions /\ exec.pending \in Commands
    BY RecordType
  <2>2. CASE PrepareSettings(w)
    BY <2>1, <2>2 DEF PrepareSettings, Save, Executions, NoCommand
  <2>3. CASE Exhausted(w)
    BY <2>1, <2>3 DEF Exhausted, SaveAndReturn, Save, Executions, NoCommand
  <2>4. CASE SettingsRejected(w)
    <3>1. PICK status :
            exec' \in {[exec EXCEPT !.status = status, !.pending.status = "PREPARED"],
                      [exec EXCEPT !.status = status, !.pending = NoCommand]}
      BY <2>4 DEF SettingsRejected, SaveAndReturn, Save
    <3>2. CASE exec' = [exec EXCEPT !.status = status, !.pending.status = "PREPARED"]
      BY <1>2, <2>1, <3>2 DEF Executions, Commands, StartPending
    <3>3. CASE exec' = [exec EXCEPT !.status = status, !.pending = NoCommand]
      BY <2>1, <3>3 DEF Executions, NoCommand
    <3> QED
      BY <3>1, <3>2, <3>3
  <2> QED
    BY <2>2, <2>3, <2>4
<1> QED
  BY <1>1, <1>2, <1>3, RecordType DEF SameToPromise, NAttempts

(* A request of an operator leaves START and completed stages alone.       *)
LEMMA OperatorSame ==
  ASSUME IndInv, CommandInv, Operator
  PROVE  SameToPromise(exec') /\ native' = native
<1>1. PICK e, pause : Request(e, pause) /\ KeepsStart(e)
  BY OperatorKeeps
<1>2. exec' = e /\ native' = native
  BY <1>1 DEF Request, envVars
<1> QED
  BY <1>1, <1>2, RecordType DEF KeepsStart, SameToPromise, NAttempts

(* The steps of a controller that save nothing. *)
LEMMA UnsavedSame ==
  ASSUME IndInv, NEW w \in Workers,
         \/ Advance(w) \/ RetryLater(w) \/ ReadThread(w) \/ BeginInterrupt(w) \/ DropInterrupt(w)
         \/ InterruptAcknowledged(w) \/ InterruptUncertain(w) \/ UserOwned(w) \/ ReuseSettings(w)
         \/ SettingsInPlace(w) \/ SendSettings(w) \/ SettingsAcknowledged(w)
         \/ ArmStart(w) \/ SendStart(w) \/ NotSent(w) \/ Rejected(w) \/ Responded(w)
         \/ Conflict(w) \/ Finish(w) \/ Abandon(w) \/ FinishUnread(w) \/ Crash(w)
         \/ Notify(w) \/ LoseContinuity(w)
  PROVE  SameToPromise(exec')
<1>1. exec' = exec
  BY DEF Advance, RetryLater, ReadThread, BeginInterrupt, DropInterrupt, InterruptAcknowledged,
         InterruptUncertain, UserOwned, ReuseSettings, SettingsInPlace, SendSettings,
         SettingsAcknowledged, ArmStart, SendStart, NotSent, Rejected, Responded, Conflict, Finish,
         Abandon, FinishUnread, Crash, Notify, LoseContinuity, Return, Local
<1> QED
  BY <1>1, SameRecord

(* No step of a controller touches a turn.                                 *)
LEMMA TurnsSame ==
  ASSUME NEW w \in Workers, Continue(w) \/ Disturb(w)
  PROVE  native' = native
BY DEF Continue, Disturb, envVars, Local, Return, SaveAndReturn,
       Advance, RetryLater, ReadThread, Settle, NoteAcknowledgement, NoteAcceptance, Inconsistent,
       Watch, PrepareInterrupt, BeginInterrupt, ArmInterrupt, DropInterrupt,
       InterruptAcknowledged, InterruptUncertain, SaveAcknowledgement, AwaitClosure, Unverifiable,
       Stopped, Insufficient, Sufficient, UserOwned, Exhausted, ModelUnavailable,
       PrepareSettings, ReuseSettings, StaleIntent, SettingsInPlace, RetrySettings, SendSettings,
       SettingsAcknowledged, SettingsRejected, SettingsUncertain, ConfirmSettings, PrepareStart,
       ArmStart, SendStart, NotSent, Rejected, Responded, SaveStarted, Uncertain, Conflict, Finish,
       InspectionFails, Abandon, FinishUnread, Crash, Notify, LoseContinuity

-----------------------------------------------------------------------------
(* Steps of the promise *)

(* PrepareStart issues a command for the stage after the completed ones.   *)
LEMMA StartIssues ==
  ASSUME IndInv, IndInv', CommandInv, CommandInv', NEW w \in Workers, PrepareStart(w)
  PROVE  /\ Open = 0 /\ Len(exec.completed) < NStages
         /\ Issued' = Append(Issued, Len(exec.completed) + 1) /\ Open' = Len(Issued) + 1
         /\ UNCHANGED <<TakenUp, exec.completed>>
<1> DEFINE id == Len(exec.attempts) + 1
           attempt == [stage |-> exec.active, status |-> "PREPARED", verified |-> FALSE]
           delivery == IF at[w].was = "NEW" THEN "PREPARED" ELSE at[w].was
           a == Append(exec.attempts, attempt)
<1>1. /\ Save(w, [exec EXCEPT !.pending.type = "START", !.pending.id = id,
                              !.pending.status = delivery, !.attempts = a])
      /\ at[w].pc = "prepare" /\ native' = native
  BY DEF PrepareStart, At, envVars
<1>2. /\ exec'.pending.type = "START" /\ exec'.pending.id = id
      /\ exec'.attempts = a /\ exec'.completed = exec.completed
  BY <1>1, RecordType DEF Save, Executions, Commands
<1>3. ~StartPending /\ Len(exec.completed) < NStages /\ exec.active = Len(exec.completed) + 1
  BY <1>1, SaveNeeds, CurrentCopy DEF BeforeStart, Working
<1>4. /\ exec.attempts \in Seq(Attempts) /\ attempt \in Attempts
      /\ NAttempts = Len(exec.attempts) /\ NAttempts \in Nat
  BY RecordType DEF Attempts, AttemptStatuses, NAttempts
<1>5. /\ Len(a) = NAttempts + 1 /\ a[NAttempts + 1] = attempt
      /\ \A k \in 1..NAttempts : a[k] = exec.attempts[k]
  BY <1>4
<1> HIDE DEF attempt, a, delivery
<1>6. Issued' = Append(Issued, exec.active)
  <2> DEFINE f == Append(Issued, exec.active)
  <2>1. PICK g, n : g = Issued' /\ n = NAttempts'
    OBVIOUS
  <2>2. n = NAttempts + 1
    BY <1>2, <1>5, <2>1 DEF NAttempts
  <2>3. /\ Issued \in Seq(Stages) /\ Len(Issued) = NAttempts /\ exec.active \in Stages
        /\ \A k \in 1..NAttempts : Issued[k] = exec.attempts[k].stage
    BY IssuedType, RecordType
  <2>4. g \in Seq(Stages) /\ Len(g) = n /\ \A k \in 1..n : g[k] = exec'.attempts[k].stage
    <3>1. PICK b \in Seq(Attempts) : b = exec'.attempts
      BY DEF IndInv, TypeOK, Executions
    <3>2. g = [k \in DOMAIN b |-> b[k].stage] /\ n = Len(b)
      BY <2>1, <3>1 DEF Issued, NAttempts
    <3> QED
      BY <3>1, <3>2, StagesOfAttempts
  <2>5. f \in Seq(Stages) /\ Len(f) = NAttempts + 1 /\ f[NAttempts + 1] = exec.active
        /\ \A k \in 1..NAttempts : f[k] = Issued[k]
    BY <1>4, <2>3
  <2> HIDE DEF f
  <2>6. ASSUME NEW k \in 1..n PROVE g[k] = f[k]
    <3>1. exec'.attempts = a /\ attempt.stage = exec.active
      BY <1>2 DEF attempt
    <3>2. k \in 1..NAttempts \/ k = NAttempts + 1
      BY ONLY <1>4, <2>2, k \in 1..n
    <3>3. CASE k = NAttempts + 1
      BY <1>5, <2>4, <2>5, <3>1, <3>3
    <3>4. CASE k \in 1..NAttempts
      BY <1>5, <2>3, <2>4, <2>5, <3>1, <3>4
    <3> QED
      BY <3>2, <3>3, <3>4
  <2>7. g = f
    BY <2>2, <2>4, <2>5, <2>6, SeqEqual
  <2> QED
    BY <2>1, <2>7 DEF f
<1>7. Open = 0 /\ Open' = Len(Issued) + 1
  BY <1>2, <1>3, <1>4, IssuedType DEF Open, StartPending
<1>8. TakenUp' = TakenUp
  BY <1>1 DEF TakenUp
<1> QED
  BY <1>2, <1>3, <1>6, <1>7, <1>8

(* NativeAccept takes the open command up. *)
LEMMA AcceptTakesUp ==
  ASSUME IndInv, IndInv', CommandInv, NEW k, NativeAccept(k)
  PROVE  /\ Open # 0 /\ Open \notin TakenUp /\ TakenUp' = TakenUp \cup {Open}
         /\ UNCHANGED <<Issued, Open, exec.completed>>
<1> DEFINE n == Len(native.turns)
<1>1. k \in wire /\ exec' = exec
  BY DEF NativeAccept
<1>2. StartPending /\ k = exec.pending.id /\ ~Took(k) /\ k # 0 /\ (Busy(native) => Current = 0)
  BY <1>1, RequestArrives
<1>3. Open = k /\ k \notin TakenUp
  BY <1>2, TakenUpTook DEF Open
<1>4. UNCHANGED <<Issued, Open, exec.completed>>
  BY <1>1 DEF Issued, Open, StartPending
<1>5. n \in Nat /\ native.turns \in Seq(Nat) /\ k \in Nat /\ native \in Threads
  BY <1>1, ThreadType DEF Threads
<1>6. TakenUp' = TakenUp \cup {k}
  <2>1. CASE Busy(native)
    <3>1. n \in 1..n
      BY <2>1, <1>5 DEF IndInv, KnownIds, HasTurn
    <3>2. native'.turns = [native.turns EXCEPT ![n] = k]
      BY <2>1, <1>5 DEF NativeAccept, Threads
    <3>3. /\ DOMAIN native.turns = 1..n /\ DOMAIN native'.turns = 1..n /\ native'.turns[n] = k
          /\ \A i \in 1..n : i # n => native'.turns[i] = native.turns[i]
      BY <1>5, <3>1, <3>2
    <3>4. native.turns[n] = 0
      BY <1>2, <2>1 DEF Current
    <3> QED
      BY <1>2, <3>1, <3>3, <3>4 DEF TakenUp
  <2>2. CASE ~Busy(native)
    <3>1. native'.turns = Append(native.turns, k)
      BY <2>2 DEF NativeAccept
    <3>2. /\ DOMAIN native.turns = 1..n /\ DOMAIN native'.turns = 1..(n + 1)
          /\ native'.turns[n + 1] = k
          /\ \A i \in 1..n : native'.turns[i] = native.turns[i]
      BY <1>5, <3>1
    <3>3. \A i \in 1..(n + 1) : i \in 1..n \/ i = n + 1
      BY <1>5
    <3>4. \A x : x \in TakenUp' => x \in TakenUp \/ x = k
      BY <3>2, <3>3 DEF TakenUp
    <3>5. n + 1 \in 1..(n + 1) /\ \A i \in 1..n : i \in 1..(n + 1)
      BY <1>5
    <3>6. k \in TakenUp' /\ \A x \in TakenUp : x \in TakenUp'
      BY <1>2, <3>2, <3>5 DEF TakenUp
    <3> QED
      BY <3>4, <3>6
  <2> QED
    BY <2>1, <2>2
<1> QED
  BY <1>2, <1>3, <1>4, <1>6

(* What every release of a START leaves. *)
LEMMA ReleaseCloses ==
  ASSUME IndInv, IndInv', NEW outcome \in AttemptStatuses,
         exec'.pending = NoCommand, exec'.attempts = Attempted(exec, outcome), native' = native
  PROVE  Open' = 0 /\ UNCHANGED <<Issued, TakenUp>>
<1>1. Len(exec'.attempts) = NAttempts
      /\ \A k \in 1..NAttempts : exec'.attempts[k].stage = exec.attempts[k].stage
  BY AttemptedType
<1>2. Issued' = Issued
  BY <1>1, SameIssued
<1> QED
  BY <1>2 DEF Open, StartPending, NoCommand, TakenUp

(* A START that is settled as not accepted is given up.                    *)
LEMMA SettleGivesUp ==
  ASSUME IndInv, IndInv', CommandInv, NEW w \in Workers, Settle(w)
  PROVE  /\ Open # 0 /\ Open \notin TakenUp /\ Open' = 0
         /\ UNCHANGED <<Issued, TakenUp, exec.completed>>
<1>1. exec' = Unaccepted(exec, Receipt(w)) /\ native' = native /\ Receipt(w) # "none"
  BY DEF Settle, Save, envVars
<1>2. StartPending /\ ~Took(exec.pending.id)
  BY <1>1, ReceiptOver
<1>3. Open = exec.pending.id /\ Open # 0
  BY <1>2, OpenType
<1>4. Open \notin TakenUp
  BY <1>2, <1>3, TakenUpTook
<1>5. /\ Released(exec) \in Executions /\ Released(exec).pending = NoCommand
      /\ Released(exec).completed = exec.completed
  BY RecordType, NothingPending DEF Released, Executions
<1>6. /\ exec'.pending = NoCommand /\ exec'.attempts = Attempted(exec, "FAILED")
      /\ exec'.completed = exec.completed
  BY <1>1, <1>5 DEF Unaccepted, Executions
<1>7. Open' = 0 /\ UNCHANGED <<Issued, TakenUp>>
  BY <1>1, <1>6, ReleaseCloses DEF AttemptStatuses
<1> QED
  BY <1>3, <1>4, <1>6, <1>7

(* A START whose turn was seen closed has ended, and completes its own     *)
(* stage or none.                                                          *)
LEMMA ClosureEnds ==
  ASSUME IndInv, IndInv', CommandInv, NEW w \in Workers,
         Stopped(w) \/ Insufficient(w) \/ Sufficient(w)
  PROVE  /\ Open \in TakenUp /\ Open' = 0
         /\ exec'.completed \in {exec.completed, Append(exec.completed, Issued[Open])}
         /\ UNCHANGED <<Issued, TakenUp>>
<1>1. native' = native
  BY DEF Stopped, Insufficient, Sufficient, SaveAndReturn, envVars
<1>2. StartPending /\ Took(exec.pending.id)
  BY ClosedOver DEF Stopped, Insufficient, Sufficient, ClosedVerified
<1>3. Open = exec.pending.id /\ Open # 0 /\ Issued[Open] = exec.active
  BY <1>2, OpenType
<1>4. Open \in TakenUp
  BY <1>2, <1>3, TakenUpTook
<1>5. /\ Released(exec) \in Executions /\ Released(exec).pending = NoCommand
      /\ Released(exec).completed = exec.completed
  BY RecordType, NothingPending DEF Released, Executions
<1>6. /\ exec'.pending = NoCommand
      /\ \E outcome \in AttemptStatuses : exec'.attempts = Attempted(exec, outcome)
      /\ exec'.completed \in {exec.completed, Append(exec.completed, exec.active)}
  <2>1. CASE Stopped(w)
    BY <1>5, <2>1 DEF Stopped, SaveAndReturn, Save, Executions, AttemptStatuses
  <2>2. CASE Insufficient(w)
    BY <1>5, <2>2 DEF Insufficient, SaveAndReturn, Save, Executions, AttemptStatuses
  <2>3. CASE Sufficient(w)
    BY <1>5, <2>3 DEF Sufficient, SaveAndReturn, Save, Executions, AttemptStatuses
  <2> QED
    BY <2>1, <2>2, <2>3
<1>7. Open' = 0 /\ UNCHANGED <<Issued, TakenUp>>
  BY <1>1, <1>6, ReleaseCloses
<1> QED
  BY <1>3, <1>4, <1>6, <1>7

-----------------------------------------------------------------------------
(* The refinement *)

(* A new execution has issued nothing. *)
LEMMA PromiseInit == Init => Promise!Init
<1> SUFFICES ASSUME Init PROVE Promise!Init
  OBVIOUS
<1>1. /\ exec.attempts = <<>> /\ exec.completed = <<>> /\ native.turns = <<>>
      /\ ~StartPending
  BY DEF Init, NewPlanExecution, NoCommand, NoThread, StartPending
<1>2. Issued = <<>>
  <2>1. exec.attempts \in Seq(Attempts)
    BY <1>1
  <2>2. Issued \in Seq(Stages) /\ Len(Issued) = 0
    BY <1>1, <2>1, StagesOfAttempts DEF Issued
  <2> QED
    BY <2>2
<1>3. TakenUp = {} /\ Open = 0
  BY <1>1 DEF TakenUp, Open
<1> QED
  BY <1>1, <1>2, <1>3 DEF Promise!Init, Issued, TakenUp, Open

(* Every step is a step of the promise, or one it does not see.            *)
LEMMA PromiseNext ==
  ASSUME IndInv, IndInv', CommandInv, CommandInv', [Next]_vars
  PROVE  [Promise!Next]_Promise!commandVars
<1>1. SameToPromise(exec') /\ native'.turns = native.turns => UNCHANGED Promise!commandVars
  BY Stutter DEF Promise!commandVars, Issued, Open, TakenUp
<1>2. ASSUME NEW w \in Workers, Continue(w) \/ Disturb(w)
      PROVE  [Promise!Next]_Promise!commandVars
  <2>1. native' = native
    BY <1>2, TurnsSame
  <2>2. CASE PrepareStart(w)
    <3>1. Promise!Issue
      BY <2>2, StartIssues DEF Promise!Issue, Issued, Open, TakenUp
    <3> QED
      BY <3>1 DEF Promise!Next
  <2>3. CASE Settle(w)
    <3>1. Promise!GiveUp
      BY <2>3, SettleGivesUp DEF Promise!GiveUp, Issued, Open, TakenUp
    <3> QED
      BY <3>1 DEF Promise!Next
  <2>4. CASE Stopped(w) \/ Insufficient(w) \/ Sufficient(w)
    <3>1. Promise!End
      BY <2>4, ClosureEnds DEF Promise!End, Issued, Open, TakenUp
    <3> QED
      BY <3>1 DEF Promise!Next
  <2>5. CASE ~(PrepareStart(w) \/ Settle(w) \/ Stopped(w) \/ Insufficient(w) \/ Sufficient(w))
    <3>1. SameToPromise(exec')
      BY <1>2, <2>5, StatusSame, AcceptanceSame, IntentSame, UnsavedSame DEF Continue, Disturb
    <3> QED
      BY <1>1, <2>1, <3>1
  <2> QED
    BY <2>2, <2>3, <2>4, <2>5
<1>3. CASE Operator
  BY <1>1, <1>3, OperatorSame
<1>4. CASE Agent
  <2>1. ASSUME NEW k \in wire, NativeAccept(k) PROVE [Promise!Next]_Promise!commandVars
    <3>1. Promise!TakeUp
      BY <2>1, AcceptTakesUp DEF Promise!TakeUp, Issued, Open, TakenUp
    <3> QED
      BY <3>1 DEF Promise!Next
  <2>2. CASE (\E k \in wire : NativeLose(k)) \/ NativeClose \/ UserSteer
    <3>1. exec' = exec /\ native'.turns = native.turns
      BY <2>2, ThreadType DEF NativeLose, NativeClose, UserSteer, Threads
    <3> QED
      BY <1>1, <3>1, SameRecord
  <2>3. CASE UserTurn
    <3> DEFINE n == Len(native.turns)
    <3>1. exec' = exec /\ native'.turns = Append(native.turns, 0)
      BY <2>3 DEF UserTurn
    <3>2. native.turns \in Seq(Nat) /\ n \in Nat
      BY ThreadType DEF Threads
    <3>3. /\ DOMAIN native.turns = 1..n /\ DOMAIN native'.turns = 1..(n + 1)
          /\ native'.turns[n + 1] = 0 /\ \A i \in 1..n : native'.turns[i] = native.turns[i]
      BY <3>1, <3>2
    <3>4. TakenUp' = TakenUp
      <4>1. \A i \in 1..(n + 1) : i \in 1..n \/ i = n + 1
        BY <3>2
      <4>2. \A x : x \in TakenUp' => x \in TakenUp
        BY <3>3, <4>1 DEF TakenUp
      <4>3. \A i \in 1..n : i \in 1..(n + 1)
        BY <3>2
      <4>4. \A x : x \in TakenUp => x \in TakenUp'
        BY <3>3, <4>3 DEF TakenUp
      <4> QED
        BY <4>2, <4>4
    <3>5. UNCHANGED <<Issued, Open, exec.completed>>
      BY <3>1 DEF Issued, Open, StartPending
    <3> QED
      BY <3>4, <3>5 DEF Promise!commandVars, Issued, Open, TakenUp
  <2> QED
    BY <1>4, <2>1, <2>2, <2>3 DEF Agent
<1>5. CASE Lapse \/ UNCHANGED vars
  <2>1. exec' = exec /\ native' = native
    BY <1>5 DEF Lapse, vars, envVars
  <2> QED
    BY <1>1, <2>1, SameRecord
<1> QED
  BY <1>2, <1>3, <1>4, <1>5 DEF Next

(* The managed execution keeps the promise of StageCommands under every    *)
(* interleaving of controllers, operators, users and the agent, with       *)
(* crashes, lapsed leases and lost or refused requests: the agent takes up *)
(* a START at most once and only while it is the pending one, a START is   *)
(* given up only if it was not taken up and then never is, and stages      *)
(* complete in order through commands of their own.                        *)
THEOREM PromiseIsKept == Spec => KeepsPromise
<1>1. IndInv /\ IndInv' /\ CommandInv /\ CommandInv' /\ [Next]_vars
      => [Promise!Next]_Promise!commandVars
  BY PromiseNext
<1> QED
  BY <1>1, PromiseInit, Invariance, CommandsInvariant, PTL DEF Spec, KeepsPromise, Promise!Spec
=============================================================================
