------------------------ MODULE PlanExecutionProofs ------------------------
(***************************************************************************)
(* What PlanExecution guarantees for any number of controllers, stages,    *)
(* attempts, requests, user turns and faults.                              *)
(***************************************************************************)
EXTENDS PlanExecution, TLAPS

-----------------------------------------------------------------------------
(* The inductive invariant *)

NAttempts == Len(exec.attempts)

(* The completed stages are the stages before the active one, in order.    *)
StagesInOrder ==
  /\ Len(exec.completed) <= NStages
  /\ \A i \in 1..Len(exec.completed) : exec.completed[i] = i /\ i \in proven
  /\ exec.status = "COMPLETED" <=> Len(exec.completed) = NStages
  /\ exec.status # "COMPLETED" => exec.active = Len(exec.completed) + 1

(* The pending START is an attempt of the active stage. *)
PendingStage ==
  StartPending =>
    exec.pending.id \in 1..NAttempts /\ exec.attempts[exec.pending.id].stage = exec.active

(* The turns of a thread are attempts or users' turns. *)
KnownTurns(t) == \A i \in 1..Len(t.turns) : t.turns[i] \in 0..NAttempts

(* A turn that closed COMPLETED with its own message only proved its stage. *)
ClosedProven(t) ==
  LET k == t.turns[Len(t.turns)] IN
  t.last = "COMPLETED" /\ t.solo /\ Len(t.turns) > 0 /\ k # 0 => exec.attempts[k].stage \in proven

(* A busy thread has a turn. *)
HasTurn(t) == Busy(t) => Len(t.turns) > 0

(* Every START the agent has, or is about to get, has a durable attempt.   *)
KnownIds ==
  /\ wire \subseteq 1..NAttempts
  /\ KnownTurns(native) /\ ClosedProven(native) /\ HasTurn(native)
  /\ \A w \in Workers :
       /\ at[w].pc \in {"starting", "armed"} => at[w].id \in 1..NAttempts
       /\ KnownTurns(at[w].seen) /\ ClosedProven(at[w].seen)

(* The positions between the choice of settings and the START. *)
BeforeStart == {"settings", "configuring", "confirm", "prepare"}

(* The positions of a tick that has claimed its execution. *)
Underway == Working \cup {"armed"}

(* A controller in mid-course whose copy is current works on a runnable    *)
(* execution, and, on its way to a START, on one that has none.            *)
FreshRuns ==
  \A w \in fresh :
    /\ at[w].pc \in Underway => exec.status \in Runnable
    /\ at[w].pc \in BeforeStart => ~StartPending

(* A resting or finished execution has no START pending. *)
RestReleased == exec.status \in {"PAUSED", "COMPLETED", "FAILED"} => ~StartPending

(* A pause is kept: the execution rests, or is being stopped. *)
PauseRespected(e) ==
  e.status \notin Runnable \/ (e.pending.type = "START" /\ e.reason = "PAUSE")

PauseKept == held => PauseRespected(exec)

IndInv ==
  /\ TypeOK
  /\ StagesInOrder
  /\ PendingStage
  /\ KnownIds
  /\ FreshRuns
  /\ RestReleased
  /\ PauseKept

-----------------------------------------------------------------------------
(* The fence *)

(* Every step of the fence keeps its variables in their domains.           *)
LEMMA FenceType ==
  ASSUME FenceTypeOK, FenceNext \/ UNCHANGED fenceVars
  PROVE  FenceTypeOK'
BY DEF FenceTypeOK, FenceNext, fenceVars, Claim, Reclaim, Write, ForeignWrite, Release, Die, Expire

-----------------------------------------------------------------------------
(* Positions *)

Pcs == Working \cup {"idle", "armed", "finish"}

(* A controller between two ticks. *)
LEMMA IdlePosition == Idle \in Positions /\ NoThread \in Threads
<1>1. NoThread \in Threads
  BY DEF NoThread, Threads, LastStates, Outcomes
<1> QED
  BY <1>1 DEF Idle, Positions, Delivery

(* Where GotoWith and Goto put a controller. *)
LEMMA GotoWithStep ==
  ASSUME NEW w \in Workers, NEW pc \in Pcs, NEW id \in Nat, NEW was \in Delivery \cup {"NEW"},
         GotoWith(w, pc, id, was)
  PROVE  \E q \in Positions : /\ at' = [at EXCEPT ![w] = q]
                              /\ q.pc = pc /\ q.id = id /\ q.seen = NoThread
<1> DEFINE q == [Idle EXCEPT !.pc = pc, !.id = id, !.was = was]
<1>1. q \in Positions /\ q.pc = pc /\ q.id = id /\ q.seen = NoThread
  BY IdlePosition DEF Idle, Positions, Pcs
<1>2. at' = [at EXCEPT ![w] = q]
  BY DEF GotoWith
<1> HIDE DEF q
<1> QED
  BY <1>1, <1>2

(* Goto is GotoWith without locals. *)
LEMMA GotoStep ==
  ASSUME NEW w \in Workers, NEW pc \in Pcs, Goto(w, pc)
  PROVE  \E q \in Positions : at' = [at EXCEPT ![w] = q] /\ q.pc = pc /\ q.seen = NoThread
<1> DEFINE q == [Idle EXCEPT !.pc = pc]
<1>1. q \in Positions /\ q.pc = pc /\ q.seen = NoThread
  BY IdlePosition DEF Idle, Positions, Pcs, Delivery
<1>2. at' = [at EXCEPT ![w] = q]
  BY DEF Goto
<1> HIDE DEF q
<1> QED
  BY <1>1, <1>2

-----------------------------------------------------------------------------
(* The initial state *)

(* A new execution and idle controllers. *)
LEMMA InitType == Init => TypeOK
<1> SUFFICES ASSUME Init PROVE TypeOK
  OBVIOUS
<1> USE DEF Init
<1>1. FenceTypeOK
  BY DEF FenceInit, FenceTypeOK
<1>2. exec \in Executions
  <2>1. 1 \in Stages /\ StageModel[1] \in Models /\ StageModel \in [Stages -> Models]
    BY PlanAssumption DEF Stages
  <2>2. NoCommand \in Commands
    BY <2>1 DEF NoCommand, Commands, Delivery
  <2>3. NoInterrupt \in Interrupts
    BY DEF NoInterrupt, Interrupts, Delivery
  <2> QED
    BY <2>1, <2>2, <2>3 DEF NewPlanExecution, Executions, Statuses, Runnable
<1>3. NoThread \in Threads
  BY DEF NoThread, Threads, LastStates, Outcomes
<1>4. at \in [Workers -> Positions]
  BY <1>3 DEF Idle, Positions, Delivery
<1>5. mem \in [Workers -> Memories]
  BY DEF NoMemory, Memories
<1>6. left \in [requests : Nat, faults : Nat]
  BY PlanAssumption
<1> QED
  BY <1>1, <1>2, <1>3, <1>4, <1>5, <1>6 DEF TypeOK

(* The invariant holds of a new execution. *)
LEMMA InitInv == Init => IndInv
<1> SUFFICES ASSUME Init PROVE IndInv
  OBVIOUS
<1>1. exec.status = "RUNNING" /\ exec.active = 1 /\ exec.completed = <<>> /\ exec.attempts = <<>>
      /\ exec.pending.type = "NONE"
  BY DEF Init, NewPlanExecution, NoCommand
<1>2. native = NoThread /\ \A w \in Workers : at[w] = Idle
  BY DEF Init
<1>3. StagesInOrder
  BY <1>1, PlanAssumption DEF StagesInOrder
<1>4. KnownIds
  BY <1>1, <1>2 DEF KnownIds, KnownTurns, ClosedProven, HasTurn, Busy, NoThread, Idle, Init, NAttempts
<1>5. PendingStage /\ RestReleased
  BY <1>1 DEF PendingStage, StartPending, RestReleased
<1>6. FreshRuns /\ PauseKept
  BY DEF Init, FenceInit, FreshRuns, PauseKept
<1> QED
  BY InitType, <1>3, <1>4, <1>5, <1>6 DEF IndInv

-----------------------------------------------------------------------------
(* Patches and steps *)

(* What most patches of the record have in common: no stage completes, no  *)
(* attempt is made, and a START stays the same START.                      *)
PatchOK(e) ==
  /\ e \in Executions
  /\ e.completed = exec.completed /\ e.active = exec.active
  /\ e.status = "COMPLETED" <=> exec.status = "COMPLETED"
  /\ Len(e.attempts) = NAttempts
  /\ \A k \in 1..NAttempts : e.attempts[k].stage = exec.attempts[k].stage
  /\ e.pending.type = "START" =>
       /\ StartPending /\ e.pending.id = exec.pending.id
       /\ e.status \notin {"PAUSED", "COMPLETED", "FAILED"}

(* Attempts are only added, and keep their stage. *)
AttemptsGrow ==
  /\ NAttempts <= NAttempts'
  /\ \A k \in 1..NAttempts : exec'.attempts[k].stage = exec.attempts[k].stage

(* What is known of a thread stays so. *)
LEMMA ThreadKeeps ==
  ASSUME IndInv, AttemptsGrow, NAttempts' \in Nat, proven \subseteq proven',
         NEW t \in Threads, KnownTurns(t), ClosedProven(t)
  PROVE  KnownTurns(t)' /\ ClosedProven(t)'
<1>1. NAttempts \in Nat
  BY DEF IndInv, TypeOK, Executions, NAttempts
<1>2. KnownTurns(t)'
  BY <1>1 DEF KnownTurns, AttemptsGrow
<1>3. Len(t.turns) \in Nat
  BY DEF Threads
<1>4. Len(t.turns) > 0 /\ t.turns[Len(t.turns)] # 0 => t.turns[Len(t.turns)] \in 1..NAttempts
  BY <1>1, <1>3 DEF KnownTurns
<1> QED
  BY <1>2, <1>4 DEF ClosedProven, AttemptsGrow

(* The part of the invariant that such a patch keeps by itself. *)
LEMMA PatchKeeps ==
  ASSUME IndInv, PatchOK(exec'), held' => PauseRespected(exec'), proven' = proven
  PROVE  /\ exec' \in Executions
         /\ StagesInOrder' /\ PendingStage' /\ RestReleased' /\ PauseKept'
         /\ NAttempts' = NAttempts /\ AttemptsGrow
<1> USE DEF IndInv, PatchOK
<1>1. StagesInOrder'
  BY DEF StagesInOrder
<1>2. NAttempts' = NAttempts /\ NAttempts \in Nat
  BY DEF NAttempts, TypeOK, Executions
<1>3. PendingStage'
  BY <1>2 DEF PendingStage, StartPending
<1>4. RestReleased'
  BY DEF RestReleased, StartPending
<1>5. PauseKept'
  BY DEF PauseKept, PauseRespected
<1> QED
  BY <1>1, <1>2, <1>3, <1>4, <1>5 DEF AttemptsGrow

(* A step of controller w to position q that may write the record keeps    *)
(* what the other controllers and the thread rely on.                      *)
LEMMA AnyStepKeeps ==
  ASSUME IndInv, NEW w \in Workers, NEW q \in Positions, at' = [at EXCEPT ![w] = q],
         exec' \in Executions, StagesInOrder', PendingStage', RestReleased', PauseKept',
         AttemptsGrow, FenceNext \/ UNCHANGED fenceVars,
         fresh' \subseteq {w} \/ (exec' = exec /\ fresh' \subseteq fresh \cup {w}),
         mem' \in [Workers -> Memories], left' \in [requests : Nat, faults : Nat],
         stopping' \in BOOLEAN, held' \in BOOLEAN,
         native' = native, proven' = proven, wire' \subseteq 1..NAttempts',
         q.pc \in {"starting", "armed"} => q.id \in 1..NAttempts',
         q.seen \in {NoThread, at[w].seen, native},
         w \in fresh' /\ q.pc \in Underway => exec'.status \in Runnable,
         w \in fresh' /\ q.pc \in BeforeStart => exec'.pending.type # "START"
  PROVE  IndInv'
<1> USE DEF IndInv
<1>1. NAttempts' \in Nat /\ NAttempts \in Nat
  BY DEF NAttempts, TypeOK, Executions
<1>2. at \in [Workers -> Positions] /\ native \in Threads /\ NoThread \in Threads
  BY IdlePosition DEF TypeOK
<1>3. at'[w] = q /\ \A v \in Workers \ {w} : at'[v] = at[v]
  BY <1>2
<1>4. TypeOK'
  <2>1. FenceTypeOK'
    BY FenceType DEF TypeOK
  <2>2. at' \in [Workers -> Positions]
    BY <1>2
  <2>3. 1..NAttempts' \subseteq Nat
    OBVIOUS
  <2> QED
    BY <2>1, <2>2, <2>3 DEF TypeOK
<1>5. KnownIds'
  <2>1. KnownTurns(NoThread) /\ ClosedProven(NoThread)
    BY DEF KnownTurns, ClosedProven, NoThread
  <2>2. \A v \in Workers : at[v].seen \in Threads
    BY <1>2 DEF Positions
  <2>3. \A v \in Workers : KnownTurns(at[v].seen)' /\ ClosedProven(at[v].seen)'
    <3> TAKE v \in Workers
    <3>1. at'[v].seen \in {NoThread, at[v].seen, native}
      BY <1>3
    <3>2. PICK t \in Threads : t = at'[v].seen /\ KnownTurns(t) /\ ClosedProven(t)
      BY <1>2, <2>1, <2>2, <3>1 DEF KnownIds
    <3>3. KnownTurns(t)' /\ ClosedProven(t)'
      BY <1>1, <3>2, ThreadKeeps
    <3> QED
      BY <3>2, <3>3 DEF KnownTurns, ClosedProven
  <2>4. KnownTurns(native)' /\ ClosedProven(native)'
    <3>1. PICK t \in Threads : t = native /\ KnownTurns(t) /\ ClosedProven(t)
      BY <1>2 DEF KnownIds
    <3>2. KnownTurns(t)' /\ ClosedProven(t)'
      BY <1>1, <3>1, ThreadKeeps
    <3> QED
      BY <3>1, <3>2 DEF KnownTurns, ClosedProven
  <2>5. \A v \in Workers : at'[v].pc \in {"starting", "armed"} => at'[v].id \in 1..NAttempts'
    BY <1>1, <1>3 DEF KnownIds, AttemptsGrow
  <2>6. HasTurn(native)'
    BY DEF KnownIds, HasTurn, Busy
  <2> QED
    BY <1>1, <2>3, <2>4, <2>5, <2>6 DEF KnownIds
<1>6. FreshRuns'
  <2> SUFFICES ASSUME NEW v \in fresh'
               PROVE  /\ at'[v].pc \in Underway => exec'.status \in Runnable
                      /\ at'[v].pc \in BeforeStart => exec'.pending.type # "START"
    BY DEF FreshRuns, StartPending, Underway
  <2>1. v \in Workers
    BY <1>4 DEF TypeOK, FenceTypeOK
  <2>2. CASE v = w
    BY <1>3, <2>2
  <2>3. CASE v # w
    <3>1. at'[v] = at[v] /\ exec' = exec /\ v \in fresh
      BY <1>3, <2>1, <2>3
    <3> QED
      BY <3>1 DEF FreshRuns, StartPending
  <2> QED
    BY <2>2, <2>3
<1> QED
  BY <1>4, <1>5, <1>6

(* A step of controller w to position q that patches the record, or leaves *)
(* it alone, keeps the invariant.                                          *)
LEMMA StepKeeps ==
  ASSUME IndInv, NEW w \in Workers, NEW q \in Positions, at' = [at EXCEPT ![w] = q],
         PatchOK(exec'), held' => PauseRespected(exec'), FenceNext \/ UNCHANGED fenceVars,
         fresh' \subseteq {w} \/ (exec' = exec /\ fresh' \subseteq fresh \cup {w}),
         mem' \in [Workers -> Memories], left' \in [requests : Nat, faults : Nat],
         stopping' \in BOOLEAN, held' \in BOOLEAN,
         native' = native, proven' = proven, wire' \subseteq 1..NAttempts,
         q.pc \in {"starting", "armed"} => q.id \in 1..NAttempts,
         q.seen \in {NoThread, at[w].seen, native},
         w \in fresh' /\ q.pc \in Underway => exec'.status \in Runnable,
         w \in fresh' /\ q.pc \in BeforeStart => exec'.pending.type # "START"
  PROVE  IndInv'
<1>1. /\ exec' \in Executions
      /\ StagesInOrder' /\ PendingStage' /\ RestReleased' /\ PauseKept'
      /\ NAttempts' = NAttempts /\ AttemptsGrow
  BY PatchKeeps
<1>2. wire' \subseteq 1..NAttempts' /\ (q.pc \in {"starting", "armed"} => q.id \in 1..NAttempts')
  BY <1>1
<1> QED
  BY <1>1, <1>2, AnyStepKeeps

(* The record itself is such a patch. *)
LEMMA SamePatch == IndInv => PatchOK(exec) /\ (held => PauseRespected(exec))
BY DEF IndInv, PatchOK, TypeOK, RestReleased, PauseKept, NAttempts, StartPending

(* A step of controller w that leaves the record and the agent alone.      *)
LEMMA LocalKeeps ==
  ASSUME IndInv, NEW w \in Workers, NEW q \in Positions, at' = [at EXCEPT ![w] = q],
         exec' = exec, held' = held, native' = native, proven' = proven,
         FenceNext \/ UNCHANGED fenceVars, fresh' \subseteq fresh \cup {w},
         mem' \in [Workers -> Memories], left' \in [requests : Nat, faults : Nat],
         stopping' \in BOOLEAN, wire' \subseteq 1..NAttempts,
         q.pc \in {"starting", "armed"} => q.id \in 1..NAttempts,
         q.seen \in {NoThread, at[w].seen, native},
         w \in fresh' /\ q.pc \in Underway => exec.status \in Runnable,
         w \in fresh' /\ q.pc \in BeforeStart => ~StartPending
  PROVE  IndInv'
<1>1. PatchOK(exec') /\ (held' => PauseRespected(exec'))
  BY SamePatch
<1>2. w \in fresh' /\ q.pc \in Underway => exec'.status \in Runnable
  OBVIOUS
<1>3. w \in fresh' /\ q.pc \in BeforeStart => exec'.pending.type # "START"
  BY DEF StartPending
<1>4. fresh' \subseteq {w} \/ (exec' = exec /\ fresh' \subseteq fresh \cup {w})
  OBVIOUS
<1>5. held' \in BOOLEAN
  BY DEF IndInv, TypeOK
<1> QED
  BY <1>1, <1>2, <1>3, <1>4, <1>5, StepKeeps

(* What a controller that may save, or arm a send, knows of the record.    *)
LEMMA CurrentCopy ==
  ASSUME IndInv, NEW w \in Workers, w \in fresh, at[w].pc \in Working
  PROVE  /\ exec.status \in Runnable
         /\ at[w].pc \in BeforeStart => ~StartPending
         /\ held => StartPending /\ exec.reason = "PAUSE"
         /\ exec.status # "COMPLETED"
         /\ Len(exec.completed) < NStages /\ exec.active = Len(exec.completed) + 1
<1> USE DEF IndInv
<1>1. exec.status \in Runnable /\ (at[w].pc \in BeforeStart => ~StartPending)
  BY DEF FreshRuns, Underway
<1>2. held => StartPending /\ exec.reason = "PAUSE"
  BY <1>1 DEF PauseKept, PauseRespected, StartPending
<1>3. exec.status # "COMPLETED"
  BY <1>1 DEF Runnable
<1>4. Len(exec.completed) \in Nat /\ NStages \in Nat
  BY PlanAssumption DEF TypeOK, Executions
<1>5. Len(exec.completed) < NStages /\ exec.active = Len(exec.completed) + 1
  BY <1>3, <1>4 DEF StagesInOrder
<1> QED
  BY <1>1, <1>2, <1>3, <1>5

(* A save by controller w. *)
LEMMA SaveKeeps ==
  ASSUME IndInv, NEW w \in Workers, NEW q \in Positions, at' = [at EXCEPT ![w] = q],
         NEW e, Save(w, e), PatchOK(e), held => PauseRespected(e),
         UNCHANGED envVars, mem' \in [Workers -> Memories],
         q.pc \in {"starting", "armed"} => q.id \in 1..NAttempts,
         q.seen \in {NoThread, at[w].seen},
         q.pc \in Underway => e.status \in Runnable,
         q.pc \in BeforeStart => e.pending.type # "START"
  PROVE  IndInv'
<1>1. exec' = e /\ held' = held /\ left' = left
  BY DEF Save, histVars
<1>2. fresh' = {w} /\ FenceNext
  BY DEF Save, Write, FenceNext
<1>3. native' = native /\ stopping' = stopping /\ wire' = wire /\ proven' = proven
  BY DEF envVars
<1>4. /\ held' \in BOOLEAN /\ stopping' \in BOOLEAN /\ left' \in [requests : Nat, faults : Nat]
      /\ wire' \subseteq 1..NAttempts
  BY <1>1, <1>3 DEF IndInv, TypeOK, KnownIds
<1> QED
  BY <1>1, <1>2, <1>3, <1>4, StepKeeps

(* save(patch) and return. *)
LEMMA ReturnKeeps ==
  ASSUME IndInv, NEW w \in Workers, NEW e, SaveAndReturn(w, e),
         PatchOK(e), held => PauseRespected(e)
  PROVE  IndInv'
<1>1. PICK q \in Positions : at' = [at EXCEPT ![w] = q] /\ q.pc = "finish" /\ q.seen = NoThread
  BY GotoStep DEF SaveAndReturn, Pcs
<1>2. Save(w, e) /\ UNCHANGED envVars /\ mem' \in [Workers -> Memories]
  BY DEF SaveAndReturn, IndInv, TypeOK
<1> QED
  BY <1>1, <1>2, SaveKeeps DEF Working, Underway, BeforeStart

(* Saves that leave the controller where it is. *)
LEMMA StayKeeps ==
  ASSUME IndInv, NEW w \in Workers, NEW e, Save(w, e), at' = at,
         PatchOK(e), held => PauseRespected(e), e.status \in Runnable,
         UNCHANGED envVars, mem' \in [Workers -> Memories],
         at[w].pc \notin BeforeStart
  PROVE  IndInv'
<1>1. at[w] \in Positions /\ at' = [at EXCEPT ![w] = at[w]]
  BY DEF IndInv, TypeOK
<1>2. at[w].pc \in {"starting", "armed"} => at[w].id \in 1..NAttempts
  BY DEF IndInv, KnownIds
<1> QED
  BY <1>1, <1>2, SaveKeeps

-----------------------------------------------------------------------------
(* The patches of the controller *)

(* The fields of the record. *)
LEMMA RecordType ==
  ASSUME IndInv
  PROVE  /\ exec \in Executions /\ exec.status \in Statuses /\ exec.active \in Stages
         /\ exec.completed \in Seq(Stages) /\ exec.attempts \in Seq(Attempts)
         /\ exec.pending \in Commands /\ exec.interrupt \in Interrupts
         /\ exec.reason \in {"NONE", "OVERRIDE", "PAUSE"} /\ exec.choice \in [Stages -> Models]
         /\ exec.corrected \in BOOLEAN
         /\ NAttempts \in Nat /\ DOMAIN exec.attempts = 1..NAttempts
BY DEF IndInv, TypeOK, Executions, NAttempts

(* The absent command and the absent interrupt. *)
LEMMA NothingPending == NoCommand \in Commands /\ NoInterrupt \in Interrupts
<1>1. 1 \in Stages /\ StageModel[1] \in Models
  BY PlanAssumption DEF Stages
<1> QED
  BY <1>1 DEF NoCommand, Commands, NoInterrupt, Interrupts, Delivery

(* A new status of an attempt changes neither the stages nor the number of *)
(* attempts.                                                               *)
LEMMA AttemptedType ==
  ASSUME IndInv, NEW status \in AttemptStatuses
  PROVE  /\ Attempted(exec, status) \in Seq(Attempts)
         /\ Len(Attempted(exec, status)) = NAttempts
         /\ \A k \in 1..NAttempts : Attempted(exec, status)[k].stage = exec.attempts[k].stage
<1> DEFINE j == exec.pending.id
<1>1. exec.attempts \in Seq(Attempts) /\ NAttempts = Len(exec.attempts)
  BY RecordType DEF NAttempts
<1>2. CASE j \in 1..NAttempts
  <2>1. exec.attempts[j] \in Attempts
    BY <1>1, <1>2
  <2>2. [exec.attempts[j] EXCEPT !.status = status] \in Attempts
    BY <2>1 DEF Attempts
  <2>3. [exec.attempts[j] EXCEPT !.status = status].stage = exec.attempts[j].stage
    BY <2>1 DEF Attempts
  <2>4. Attempted(exec, status) = [exec.attempts EXCEPT ![j] = [exec.attempts[j] EXCEPT !.status = status]]
    BY DEF Attempted
  <2> QED
    BY <1>1, <1>2, <2>2, <2>3, <2>4
<1>3. CASE j \notin 1..NAttempts
  <2>1. Attempted(exec, status) = exec.attempts
    BY <1>1, <1>3 DEF Attempted
  <2> QED
    BY <1>1, <2>1
<1> QED
  BY <1>2, <1>3

(* A patch that gives up or ends the pending START, without completing its *)
(* stage.                                                                  *)
LEMMA EndPatch ==
  ASSUME IndInv, exec.status # "COMPLETED",
         NEW status \in Statuses \ {"COMPLETED"}, NEW outcome \in AttemptStatuses
  PROVE  /\ PatchOK([Released(exec) EXCEPT !.attempts = Attempted(exec, outcome), !.status = status])
         /\ PatchOK([Released(exec) EXCEPT !.status = status, !.attempts = Attempted(exec, outcome)])
         /\ PatchOK([Released(exec) EXCEPT !.attempts = Attempted(exec, outcome), !.corrected = TRUE,
                                           !.status = status])
BY RecordType, NothingPending, AttemptedType DEF PatchOK, Released, Executions, NoCommand

(* A patch that keeps the pending command and what was asked of it. *)
KeepsCommand(e) ==
  /\ e \in Executions
  /\ e.completed = exec.completed /\ e.active = exec.active
  /\ Len(e.attempts) = NAttempts
  /\ \A k \in 1..NAttempts : e.attempts[k].stage = exec.attempts[k].stage
  /\ e.pending.type = exec.pending.type /\ e.pending.id = exec.pending.id
  /\ e.reason = exec.reason
  /\ e.status \notin {"PAUSED", "COMPLETED", "FAILED"}

(* Such a patch keeps the pause that a current copy knows of. *)
LEMMA KeepPatch ==
  ASSUME IndInv, NEW w \in Workers, w \in fresh, at[w].pc \in Working, NEW e, KeepsCommand(e)
  PROVE  PatchOK(e) /\ (held => PauseRespected(e))
<1>1. exec.status # "COMPLETED" /\ (held => StartPending /\ exec.reason = "PAUSE")
  BY CurrentCopy
<1>2. PatchOK(e)
  BY <1>1 DEF PatchOK, KeepsCommand, StartPending
<1> QED
  BY <1>1, <1>2 DEF PauseRespected, KeepsCommand, StartPending

(* The patches that touch nothing but the statuses of record, command and  *)
(* interrupt.                                                              *)
LEMMA StatusPatches ==
  ASSUME IndInv, NEW status \in Statuses \ {"PAUSED", "COMPLETED", "FAILED"},
         NEW delivery \in Delivery, NEW i \in Interrupts
  PROVE  /\ KeepsCommand([exec EXCEPT !.status = status])
         /\ KeepsCommand([exec EXCEPT !.status = status, !.pending.status = delivery])
         /\ exec.status \in Runnable =>
              /\ KeepsCommand([exec EXCEPT !.pending.status = delivery])
              /\ KeepsCommand([exec EXCEPT !.interrupt.status = delivery])
              /\ KeepsCommand([exec EXCEPT !.interrupt = i])
<1>1. [exec.pending EXCEPT !.status = delivery] \in Commands
      /\ [exec.pending EXCEPT !.status = delivery].type = exec.pending.type
      /\ [exec.pending EXCEPT !.status = delivery].id = exec.pending.id
  BY RecordType DEF Commands
<1>2. [exec.interrupt EXCEPT !.status = delivery] \in Interrupts
  BY RecordType DEF Interrupts
<1>3. exec.status \in Runnable => exec.status \notin {"PAUSED", "COMPLETED", "FAILED"}
  BY DEF Runnable
<1>4. KeepsCommand([exec EXCEPT !.status = status])
  BY RecordType DEF KeepsCommand, Executions, NAttempts
<1>5. KeepsCommand([exec EXCEPT !.status = status, !.pending.status = delivery])
  BY RecordType, <1>1 DEF KeepsCommand, Executions, NAttempts
<1>6. exec.status \in Runnable => KeepsCommand([exec EXCEPT !.pending.status = delivery])
  BY RecordType, <1>1, <1>3 DEF KeepsCommand, Executions, NAttempts
<1>7. exec.status \in Runnable => KeepsCommand([exec EXCEPT !.interrupt.status = delivery])
  BY RecordType, <1>2, <1>3 DEF KeepsCommand, Executions, NAttempts
<1>8. exec.status \in Runnable => KeepsCommand([exec EXCEPT !.interrupt = i])
  BY RecordType, <1>3 DEF KeepsCommand, Executions, NAttempts
<1> QED
  BY <1>4, <1>5, <1>6, <1>7, <1>8

(* What is recorded of an accepted START. *)
LEMMA AcceptedPatch ==
  ASSUME IndInv, NEW turn \in Nat, NEW d \in BOOLEAN
  PROVE  /\ exec.status \in Runnable =>
              KeepsCommand([exec EXCEPT
                !.pending = [@ EXCEPT !.status = "SENT", !.turn = turn],
                !.attempts = [Attempted(exec, "RUNNING") EXCEPT ![exec.pending.id].verified = d]])
         /\ KeepsCommand([exec EXCEPT
                !.status = "RUNNING",
                !.pending = [@ EXCEPT !.status = "SENT", !.turn = turn],
                !.attempts = Attempted(exec, "RUNNING")])
<1> DEFINE j == exec.pending.id
           a == Attempted(exec, "RUNNING")
           b == [a EXCEPT ![j].verified = d]
           c == [exec.pending EXCEPT !.status = "SENT", !.turn = turn]
<1>1. c \in Commands /\ c.type = exec.pending.type /\ c.id = exec.pending.id
  BY RecordType DEF Commands, Delivery
<1>2. /\ a \in Seq(Attempts) /\ Len(a) = NAttempts /\ NAttempts \in Nat
      /\ \A k \in 1..NAttempts : a[k].stage = exec.attempts[k].stage
  BY AttemptedType, RecordType DEF AttemptStatuses
<1>3. /\ b \in Seq(Attempts) /\ Len(b) = NAttempts
      /\ \A k \in 1..NAttempts : b[k].stage = exec.attempts[k].stage
  <2> HIDE DEF a
  <2>1. CASE j \in 1..NAttempts
    <3>1. a[j] \in Attempts
      BY <1>2, <2>1
    <3>2. [a[j] EXCEPT !.verified = d] \in Attempts /\ [a[j] EXCEPT !.verified = d].stage = a[j].stage
      BY <3>1 DEF Attempts
    <3>3. b = [a EXCEPT ![j] = [a[j] EXCEPT !.verified = d]]
      OBVIOUS
    <3> QED
      BY <1>2, <2>1, <3>2, <3>3
  <2>2. CASE j \notin 1..NAttempts
    <3>1. b = a
      BY <1>2, <2>2
    <3> QED
      BY <1>2, <3>1
  <2> QED
    BY <2>1, <2>2
<1>4. exec.status \in Runnable => exec.status \notin {"PAUSED", "COMPLETED", "FAILED"}
  BY DEF Runnable
<1> HIDE DEF a, b, c
<1>5. exec.status \in Runnable => KeepsCommand([exec EXCEPT !.pending = c, !.attempts = b])
  BY RecordType, <1>1, <1>3, <1>4 DEF KeepsCommand, Executions
<1>6. KeepsCommand([exec EXCEPT !.status = "RUNNING", !.pending = c, !.attempts = a])
  BY RecordType, <1>1, <1>2 DEF KeepsCommand, Executions, Statuses, Runnable
<1> QED
  BY <1>5, <1>6 DEF a, b, c

-----------------------------------------------------------------------------
(* The steps that reconcile a pending START *)

(* A save needs a current copy. *)
LEMMA SaveNeeds ==
  ASSUME NEW w \in Workers, NEW e, Save(w, e)
  PROVE  w \in fresh
BY DEF Save, Write, Valid

(* So does a save before returning. *)
LEMMA ReturnNeeds ==
  ASSUME NEW w \in Workers, NEW e, SaveAndReturn(w, e)
  PROVE  w \in fresh
BY SaveNeeds DEF SaveAndReturn

(* The status settleUnaccepted gives the execution. *)
LEMMA UnacceptedSettles ==
  ASSUME IndInv, NEW receipt
  PROVE  /\ UnacceptedStatus(exec, receipt) \in Statuses \ {"COMPLETED"}
         /\ exec.reason = "PAUSE" => UnacceptedStatus(exec, receipt) = "PAUSED"
BY DEF UnacceptedStatus, Statuses, Runnable

(* The patch of settleUnaccepted. *)
LEMMA UnacceptedPatch ==
  ASSUME IndInv, NEW w \in Workers, w \in fresh, at[w].pc \in Working, NEW receipt
  PROVE  /\ PatchOK(Unaccepted(exec, receipt))
         /\ held => PauseRespected(Unaccepted(exec, receipt))
<1> DEFINE s == UnacceptedStatus(exec, receipt)
           e == [Released(exec) EXCEPT !.attempts = Attempted(exec, "FAILED"), !.status = s]
<1>1. exec.status # "COMPLETED" /\ (held => exec.reason = "PAUSE")
  BY CurrentCopy
<1>2. s \in Statuses \ {"COMPLETED"} /\ (exec.reason = "PAUSE" => s = "PAUSED")
  BY UnacceptedSettles
<1> HIDE DEF s
<1>3. PatchOK(e)
  BY <1>1, <1>2, EndPatch DEF AttemptStatuses
<1>4. e.status = s
  BY RecordType DEF Released, Executions
<1> HIDE DEF e
<1>5. held => PauseRespected(e)
  BY <1>1, <1>2, <1>4 DEF PauseRespected, Runnable
<1> QED
  BY <1>3, <1>5 DEF Unaccepted, e, s

(* The START never became a turn: it is given up. *)
LEMMA SettleKeeps ==
  ASSUME IndInv, NEW w \in Workers, Settle(w)
  PROVE  IndInv'
<1> DEFINE e == Unaccepted(exec, Receipt(w))
<1>1. /\ Save(w, e) /\ at[w].pc \in Working /\ w \in fresh /\ UNCHANGED envVars
      /\ Goto(w, "finish")
  BY SaveNeeds DEF Settle, At, Working
<1>2. mem' \in [Workers -> Memories]
  BY DEF Settle, IndInv, TypeOK, Memories
<1>3. PICK q \in Positions : at' = [at EXCEPT ![w] = q] /\ q.pc = "finish" /\ q.seen = NoThread
  BY <1>1, GotoStep DEF Pcs
<1>4. PatchOK(e) /\ (held => PauseRespected(e))
  BY <1>1, UnacceptedPatch
<1> HIDE DEF e
<1> QED
  BY <1>1, <1>2, <1>3, <1>4, SaveKeeps DEF Working, Underway, BeforeStart

(* The acknowledgment an earlier tick got is recorded. *)
LEMMA NoteAcknowledgementKeeps ==
  ASSUME IndInv, NEW w \in Workers, NoteAcknowledgement(w)
  PROVE  IndInv'
<1> DEFINE e == [exec EXCEPT !.interrupt.status = "SENT"]
<1>1. /\ Save(w, e) /\ w \in fresh /\ at' = at /\ at[w].pc = "decide"
      /\ UNCHANGED envVars
  BY SaveNeeds DEF NoteAcknowledgement, Accepted, At
<1>2. mem' \in [Workers -> Memories]
  BY DEF NoteAcknowledgement, IndInv, TypeOK, Memories
<1>3. exec.status \in Runnable
  BY <1>1, CurrentCopy DEF Working
<1>4. e.status = exec.status
  BY RecordType DEF Executions
<1>5. KeepsCommand(e)
  BY <1>3, StatusPatches, RecordType DEF Delivery, Statuses, Runnable
<1> HIDE DEF e
<1>6. PatchOK(e) /\ (held => PauseRespected(e))
  BY <1>1, <1>5, KeepPatch DEF Working
<1> QED
  BY <1>1, <1>2, <1>3, <1>4, <1>6, StayKeeps DEF BeforeStart

(* The accepted turn and its evidence are recorded. *)
LEMMA NoteAcceptanceKeeps ==
  ASSUME IndInv, NEW w \in Workers, NoteAcceptance(w)
  PROVE  IndInv'
<1> DEFINE e == [exec EXCEPT
                   !.pending = [@ EXCEPT !.status = "SENT", !.turn = exec.pending.base + 1],
                   !.attempts = [Attempted(exec, "RUNNING") EXCEPT
                                   ![exec.pending.id].verified = Verified(w)]]
<1>1. /\ Save(w, e) /\ w \in fresh /\ at' = at /\ at[w].pc = "decide"
      /\ UNCHANGED envVars /\ mem' = mem
  BY SaveNeeds DEF NoteAcceptance, Accepted, At
<1>2. mem' \in [Workers -> Memories]
  BY <1>1 DEF IndInv, TypeOK
<1>3. exec.status \in Runnable
  BY <1>1, CurrentCopy DEF Working
<1>4. e.status = exec.status
  BY RecordType DEF Executions
<1>5. Verified(w) \in BOOLEAN /\ exec.pending.base + 1 \in Nat
  BY RecordType DEF Verified, Commands
<1>6. KeepsCommand(e)
  BY <1>3, <1>5, AcceptedPatch
<1> HIDE DEF e
<1>7. PatchOK(e) /\ (held => PauseRespected(e))
  BY <1>1, <1>6, KeepPatch DEF Working
<1> QED
  BY <1>1, <1>2, <1>3, <1>4, <1>7, StayKeeps DEF BeforeStart

(* The interrupt is recorded before it is sent. *)
LEMMA PrepareInterruptKeeps ==
  ASSUME IndInv, NEW w \in Workers, PrepareInterrupt(w)
  PROVE  IndInv'
<1> DEFINE e == [exec EXCEPT !.interrupt = [turn |-> exec.pending.turn, status |-> "PREPARED"]]
<1>1. /\ Save(w, e) /\ w \in fresh /\ at' = at /\ at[w].pc = "decide"
      /\ UNCHANGED envVars /\ mem' = mem
  BY SaveNeeds DEF PrepareInterrupt, Reconciled, Accepted, At
<1>2. mem' \in [Workers -> Memories]
  BY <1>1 DEF IndInv, TypeOK
<1>3. exec.status \in Runnable
  BY <1>1, CurrentCopy DEF Working
<1>4. e.status = exec.status
  BY RecordType DEF Executions
<1>5. [turn |-> exec.pending.turn, status |-> "PREPARED"] \in Interrupts
  BY RecordType DEF Commands, Interrupts, Delivery
<1>6. KeepsCommand(e)
  BY <1>3, <1>5, StatusPatches DEF Delivery, Statuses, Runnable
<1> HIDE DEF e
<1>7. PatchOK(e) /\ (held => PauseRespected(e))
  BY <1>1, <1>6, KeepPatch DEF Working
<1> QED
  BY <1>1, <1>2, <1>3, <1>4, <1>7, StayKeeps DEF BeforeStart

(* The interrupt's delivery is uncertain from here on. *)
LEMMA ArmInterruptKeeps ==
  ASSUME IndInv, NEW w \in Workers, ArmInterrupt(w)
  PROVE  IndInv'
<1> DEFINE e == [exec EXCEPT !.interrupt.status = "UNKNOWN"]
<1>1. /\ Save(w, e) /\ w \in fresh /\ at[w].pc = "interrupt" /\ mem' = mem
      /\ GotoWith(w, "interrupting", at[w].id, "PREPARED") /\ UNCHANGED envVars
  BY SaveNeeds DEF ArmInterrupt, At
<1>2. mem' \in [Workers -> Memories] /\ at[w].id \in Nat
  BY <1>1 DEF IndInv, TypeOK, Positions
<1>3. PICK q \in Positions : at' = [at EXCEPT ![w] = q] /\ q.pc = "interrupting" /\ q.seen = NoThread
  <2>1. "interrupting" \in Pcs /\ "PREPARED" \in Delivery \cup {"NEW"}
    BY DEF Pcs, Working, Delivery
  <2> QED
    BY <1>1, <1>2, <2>1, GotoWithStep
<1>4. exec.status \in Runnable
  BY <1>1, CurrentCopy DEF Working
<1>5. e.status = exec.status
  BY RecordType DEF Executions
<1>6. KeepsCommand(e)
  BY <1>4, StatusPatches, RecordType DEF Delivery, Statuses, Runnable
<1> HIDE DEF e
<1>7. PatchOK(e) /\ (held => PauseRespected(e))
  BY <1>1, <1>6, KeepPatch DEF Working
<1> QED
  BY <1>1, <1>2, <1>3, <1>4, <1>5, <1>7, SaveKeeps DEF BeforeStart

(* The interrupt was acknowledged. *)
LEMMA SaveAcknowledgementKeeps ==
  ASSUME IndInv, NEW w \in Workers, SaveAcknowledgement(w)
  PROVE  IndInv'
<1> DEFINE e == [exec EXCEPT !.interrupt.status = "SENT"]
<1>1. /\ Save(w, e) /\ w \in fresh /\ at[w].pc = "acked" /\ UNCHANGED envVars
      /\ Goto(w, "finish")
  BY SaveNeeds DEF SaveAcknowledgement, At
<1>2. mem' \in [Workers -> Memories]
  BY DEF SaveAcknowledgement, IndInv, TypeOK, Memories
<1>3. PICK q \in Positions : at' = [at EXCEPT ![w] = q] /\ q.pc = "finish" /\ q.seen = NoThread
  BY <1>1, GotoStep DEF Pcs
<1>4. exec.status \in Runnable
  BY <1>1, CurrentCopy DEF Working
<1>5. KeepsCommand(e)
  BY <1>4, StatusPatches, RecordType DEF Delivery, Statuses, Runnable
<1> HIDE DEF e
<1>6. PatchOK(e) /\ (held => PauseRespected(e))
  BY <1>1, <1>5, KeepPatch DEF Working
<1> QED
  BY <1>1, <1>2, <1>3, <1>6, SaveKeeps DEF Working, Underway, BeforeStart

(* The steps that save a status, and perhaps a delivery status, and return. *)
LEMMA StatusReturnKeeps ==
  ASSUME IndInv, NEW w \in Workers, at[w].pc \in Working,
         NEW status \in Statuses \ {"PAUSED", "COMPLETED", "FAILED"}, NEW delivery \in Delivery,
         \/ SaveAndReturn(w, [exec EXCEPT !.status = status])
         \/ SaveAndReturn(w, [exec EXCEPT !.status = status, !.pending.status = delivery])
  PROVE  IndInv'
<1> DEFINE e == [exec EXCEPT !.status = status]
           f == [exec EXCEPT !.status = status, !.pending.status = delivery]
<1>1. w \in fresh
  BY ReturnNeeds
<1>2. KeepsCommand(e) /\ KeepsCommand(f)
  BY StatusPatches, NothingPending
<1>3. SaveAndReturn(w, e) \/ SaveAndReturn(w, f)
  OBVIOUS
<1> HIDE DEF e, f
<1>4. PatchOK(e) /\ PatchOK(f) /\ (held => PauseRespected(e) /\ PauseRespected(f))
  BY <1>1, <1>2, KeepPatch
<1> QED
  BY <1>3, <1>4, ReturnKeeps

(* An error blocks the execution and keeps its command. *)
LEMMA BlockKeeps ==
  ASSUME IndInv, NEW w \in Workers, at[w].pc \in Working,
         SaveAndReturn(w, [exec EXCEPT !.status = "BLOCKED"])
  PROVE  IndInv'
BY StatusReturnKeeps DEF Statuses, Delivery

(* The end of a tick, or of a process, that leaves the record alone.       *)
LEMMA QuitKeeps ==
  ASSUME IndInv, NEW w \in Workers, NEW pc \in {"idle", "finish"}, Goto(w, pc),
         exec' = exec, held' = held, native' = native, proven' = proven, wire' = wire,
         FenceNext \/ UNCHANGED fenceVars, fresh' \subseteq fresh \cup {w},
         mem' \in [Workers -> Memories], left' \in [requests : Nat, faults : Nat],
         stopping' \in BOOLEAN
  PROVE  IndInv'
<1>1. PICK q \in Positions : at' = [at EXCEPT ![w] = q] /\ q.pc = pc /\ q.seen = NoThread
  BY GotoStep DEF Pcs
<1>2. wire' \subseteq 1..NAttempts
  BY DEF IndInv, KnownIds
<1> QED
  BY <1>1, <1>2, LocalKeeps DEF Working, Underway, BeforeStart

(* A tick that ends without a write. *)
LEMMA ReturnLocalKeeps ==
  ASSUME IndInv, NEW w \in Workers, Return(w)
  PROVE  IndInv'
<1>1. /\ Goto(w, "finish") /\ exec' = exec /\ held' = held /\ native' = native
      /\ proven' = proven /\ wire' = wire /\ UNCHANGED fenceVars /\ fresh' = fresh
      /\ mem' = mem /\ left' = left /\ stopping' = stopping
  BY DEF Return, Local, fenceVars, envVars, histVars
<1>2. /\ mem' \in [Workers -> Memories] /\ left' \in [requests : Nat, faults : Nat]
      /\ stopping' \in BOOLEAN /\ fresh' \subseteq fresh \cup {w}
  BY <1>1 DEF IndInv, TypeOK
<1> QED
  BY <1>1, <1>2, QuitKeeps

(* A move to another position, with no START pending before one is made.   *)
LEMMA MoveKeeps ==
  ASSUME IndInv, NEW w \in Workers, NEW q \in Positions, at' = [at EXCEPT ![w] = q], Local,
         q.pc \in {"starting", "armed"} => q.id \in 1..NAttempts,
         q.seen \in {NoThread, at[w].seen, native},
         w \in fresh /\ q.pc \in Underway => at[w].pc \in Underway,
         w \in fresh /\ q.pc \in BeforeStart => ~StartPending
  PROVE  IndInv'
<1>1. /\ exec' = exec /\ held' = held /\ native' = native
      /\ proven' = proven /\ wire' = wire /\ UNCHANGED fenceVars /\ fresh' = fresh
      /\ mem' = mem /\ left' = left /\ stopping' = stopping
  BY DEF Local, fenceVars, envVars, histVars
<1>2. /\ mem' \in [Workers -> Memories] /\ left' \in [requests : Nat, faults : Nat]
      /\ stopping' \in BOOLEAN /\ fresh' \subseteq fresh \cup {w} /\ wire' \subseteq 1..NAttempts
  BY <1>1 DEF IndInv, TypeOK, KnownIds
<1>3. w \in fresh' /\ q.pc \in Underway => exec.status \in Runnable
  BY <1>1 DEF IndInv, FreshRuns
<1> QED
  BY <1>1, <1>2, <1>3, LocalKeeps

(* The errors that block. *)
LEMMA InconsistentKeeps ==
  ASSUME IndInv, NEW w \in Workers, Inconsistent(w) \/ Unverifiable(w) \/ StaleIntent(w)
                                     \/ InspectionFails(w)
  PROVE  IndInv'
<1>1. at[w].pc \in Working /\ SaveAndReturn(w, [exec EXCEPT !.status = "BLOCKED"])
  BY DEF Inconsistent, Unverifiable, StaleIntent, InspectionFails, Startable, Free, Closed,
         Reconciled, Accepted, At, Working
<1> QED
  BY <1>1, BlockKeeps

(* The model is not advertised now. *)
LEMMA ModelUnavailableKeeps ==
  ASSUME IndInv, NEW w \in Workers, ModelUnavailable(w)
  PROVE  IndInv'
<1>1. at[w].pc \in Working /\ SaveAndReturn(w, [exec EXCEPT !.status = "WAITING_FOR_MODEL"])
  BY DEF ModelUnavailable, Startable, Free, At, Working
<1>2. "WAITING_FOR_MODEL" \in Statuses \ {"PAUSED", "COMPLETED", "FAILED"} /\ "SENT" \in Delivery
  BY DEF Statuses, Runnable, Delivery
<1> QED
  BY <1>1, <1>2, StatusReturnKeeps

(* The readback refutes an uncertain settings update. *)
LEMMA RetrySettingsKeeps ==
  ASSUME IndInv, NEW w \in Workers, RetrySettings(w)
  PROVE  IndInv'
<1>1. /\ at[w].pc \in Working
      /\ SaveAndReturn(w, [exec EXCEPT !.status = "WAITING_FOR_MODEL", !.pending.status = "PREPARED"])
  BY DEF RetrySettings, At, Working
<1>2. "WAITING_FOR_MODEL" \in Statuses \ {"PAUSED", "COMPLETED", "FAILED"} /\ "PREPARED" \in Delivery
  BY DEF Statuses, Runnable, Delivery
<1> QED
  BY <1>1, <1>2, StatusReturnKeeps

(* The settings update has no answer. *)
LEMMA SettingsUncertainKeeps ==
  ASSUME IndInv, NEW w \in Workers, SettingsUncertain(w)
  PROVE  IndInv'
<1>1. /\ at[w].pc \in Working
      /\ SaveAndReturn(w, [exec EXCEPT !.status = "RESUMING_STAGE", !.pending.status = "UNKNOWN"])
  BY DEF SettingsUncertain, At, Working
<1>2. "RESUMING_STAGE" \in Statuses \ {"PAUSED", "COMPLETED", "FAILED"} /\ "UNKNOWN" \in Delivery
  BY DEF Statuses, Runnable, Delivery
<1> QED
  BY <1>1, <1>2, StatusReturnKeeps

(* turn/start has no answer: the START stays pending. *)
LEMMA UncertainKeeps ==
  ASSUME IndInv, NEW w \in Workers, Uncertain(w)
  PROVE  IndInv'
<1>1. /\ at[w].pc \in Working
      /\ SaveAndReturn(w, [exec EXCEPT !.status = "RUNNING", !.pending.status = "UNKNOWN"])
  BY DEF Uncertain, At, Working
<1>2. "RUNNING" \in Statuses \ {"PAUSED", "COMPLETED", "FAILED"} /\ "UNKNOWN" \in Delivery
  BY DEF Statuses, Runnable, Delivery
<1> QED
  BY <1>1, <1>2, StatusReturnKeeps

(* Ticks that find nothing to do yet. *)
LEMMA WaitKeeps ==
  ASSUME IndInv, NEW w \in Workers, RetryLater(w) \/ UserOwned(w) \/ DropInterrupt(w)
  PROVE  IndInv'
BY ReturnLocalKeeps DEF RetryLater, UserOwned, DropInterrupt

(* Saves or not, then returns. *)
LEMMA MaybeSaveKeeps ==
  ASSUME IndInv, NEW w \in Workers, at[w].pc \in Working,
         NEW status \in Statuses \ {"PAUSED", "COMPLETED", "FAILED"},
         Save(w, [exec EXCEPT !.status = status]) \/ UNCHANGED <<fenceVars, exec, histVars>>,
         Goto(w, "finish"), UNCHANGED <<mem, envVars>>
  PROVE  IndInv'
<1>1. CASE Save(w, [exec EXCEPT !.status = status])
  <2>1. SaveAndReturn(w, [exec EXCEPT !.status = status])
    BY <1>1 DEF SaveAndReturn
  <2> QED
    BY <2>1, StatusReturnKeeps DEF Delivery
<1>2. CASE UNCHANGED <<fenceVars, exec, histVars>>
  <2>1. Return(w)
    BY <1>2 DEF Return, Local
  <2> QED
    BY <2>1, ReturnLocalKeeps
<1> QED
  BY <1>1, <1>2

(* The status follows the running turn. *)
LEMMA WatchKeeps ==
  ASSUME IndInv, NEW w \in Workers, Watch(w)
  PROVE  IndInv'
<1>1. PICK status \in {"RUNNING", "WAITING_FOR_INPUT"} :
        Save(w, [exec EXCEPT !.status = status]) \/ UNCHANGED <<fenceVars, exec, histVars>>
  BY DEF Watch
<1>2. status \in Statuses \ {"PAUSED", "COMPLETED", "FAILED"}
  BY <1>1 DEF Statuses, Runnable
<1>3. at[w].pc \in Working /\ Goto(w, "finish") /\ UNCHANGED <<mem, envVars>>
  BY DEF Watch, Reconciled, Accepted, At, Working
<1> QED
  BY <1>1, <1>2, <1>3, MaybeSaveKeeps

(* The closure is awaited. *)
LEMMA AwaitClosureKeeps ==
  ASSUME IndInv, NEW w \in Workers, AwaitClosure(w)
  PROVE  IndInv'
<1>1. at[w].pc \in Working /\ Goto(w, "finish") /\ UNCHANGED <<mem, envVars>>
  BY DEF AwaitClosure, Closed, Reconciled, Accepted, At, Working
<1>2. "RUNNING" \in Statuses \ {"PAUSED", "COMPLETED", "FAILED"}
  BY DEF Statuses, Runnable
<1>3. Save(w, [exec EXCEPT !.status = "RUNNING"]) \/ UNCHANGED <<fenceVars, exec, histVars>>
  BY DEF AwaitClosure
<1> QED
  BY <1>1, <1>2, <1>3, MaybeSaveKeeps

(* A step by GotoWith that touches nothing else. *)
LEMMA GotoWithKeeps ==
  ASSUME IndInv, NEW w \in Workers, at[w].pc \in Working,
         NEW pc \in Pcs, NEW id \in Nat, NEW was \in Delivery \cup {"NEW"}, GotoWith(w, pc, id, was),
         Local, pc \in {"starting", "armed"} => id \in 1..NAttempts,
         w \in fresh /\ pc \in BeforeStart => ~StartPending
  PROVE  IndInv'
<1>1. PICK q \in Positions : at' = [at EXCEPT ![w] = q] /\ q.pc = pc /\ q.id = id /\ q.seen = NoThread
  BY GotoWithStep
<1> QED
  BY <1>1, MoveKeeps DEF Underway

(* On the way to an interrupt, or none is needed. *)
LEMMA BeginInterruptKeeps ==
  ASSUME IndInv, NEW w \in Workers, BeginInterrupt(w)
  PROVE  IndInv'
<1>1. at[w].pc \in Working /\ Local
  BY DEF BeginInterrupt, Reconciled, Accepted, At, Working
<1>2. CASE Goto(w, "finish")
  BY <1>1, <1>2, ReturnLocalKeeps DEF Return
<1>3. CASE GotoWith(w, "interrupt", exec.interrupt.turn, "PREPARED")
  <2>1. exec.interrupt.turn \in Nat
    BY RecordType DEF Interrupts
  <2> QED
    BY <1>1, <1>3, <2>1, GotoWithKeeps DEF Pcs, Working, Delivery, BeforeStart
<1> QED
  BY <1>2, <1>3 DEF BeginInterrupt

(* The steps between the intent and the START that save nothing. *)
LEMMA SettingsMoveKeeps ==
  ASSUME IndInv, NEW w \in Workers,
         ReuseSettings(w) \/ SettingsInPlace(w) \/ SendSettings(w) \/ SettingsAcknowledged(w)
  PROVE  IndInv'
<1>1. at[w].pc \in Working /\ Local
  BY DEF ReuseSettings, SettingsInPlace, SendSettings, SettingsAcknowledged, Startable, Free, At, Working
<1>2. w \in fresh => ~StartPending
  BY <1>1, CurrentCopy
     DEF ReuseSettings, SettingsInPlace, SendSettings, SettingsAcknowledged, Startable, Free, At,
         BeforeStart
<1>3. at[w].was \in Delivery \cup {"NEW"} /\ exec.pending.status \in Delivery \cup {"NEW"}
  BY RecordType DEF IndInv, TypeOK, Positions, Commands
<1>4. \E pc \in {"settings", "confirm", "configuring"}, was \in Delivery \cup {"NEW"} : GotoWith(w, pc, 0, was)
  BY <1>3 DEF ReuseSettings, SettingsInPlace, SendSettings, SettingsAcknowledged
<1> QED
  BY <1>1, <1>2, <1>4, GotoWithKeeps DEF Pcs, Working

(* The last fence before the send names a durable attempt. *)
LEMMA ArmStartKeeps ==
  ASSUME IndInv, NEW w \in Workers, ArmStart(w)
  PROVE  IndInv'
<1>1. at[w].pc \in Working /\ Local /\ at[w].pc = "starting"
  BY DEF ArmStart, At, Working
<1>2. at[w].id \in 1..NAttempts /\ at[w].id \in Nat
  BY <1>1 DEF IndInv, KnownIds, TypeOK, Positions
<1> QED
  BY <1>1, <1>2, GotoWithKeeps DEF ArmStart, Pcs, Delivery, BeforeStart

(* The interrupt reaches the agent and is answered. *)
LEMMA InterruptAcknowledgedKeeps ==
  ASSUME IndInv, NEW w \in Workers, InterruptAcknowledged(w)
  PROVE  IndInv'
<1>1. /\ at[w].pc = "interrupting" /\ exec' = exec /\ held' = held /\ native' = native
      /\ proven' = proven /\ wire' = wire /\ UNCHANGED fenceVars /\ fresh' = fresh
      /\ left' = left /\ stopping' = TRUE
  BY DEF InterruptAcknowledged, At, fenceVars, histVars
<1>2. /\ mem' \in [Workers -> Memories] /\ left' \in [requests : Nat, faults : Nat]
      /\ stopping' \in BOOLEAN /\ fresh' \subseteq fresh \cup {w} /\ wire' \subseteq 1..NAttempts
  BY <1>1 DEF InterruptAcknowledged, IndInv, TypeOK, KnownIds, Memories, Positions
<1>3. PICK q \in Positions : at' = [at EXCEPT ![w] = q] /\ q.pc = "acked" /\ q.seen = NoThread
  BY GotoStep DEF Pcs, Working, InterruptAcknowledged
<1>4. w \in fresh' => exec.status \in Runnable
  BY <1>1 DEF IndInv, FreshRuns, Working, Underway
<1> QED
  BY <1>1, <1>2, <1>3, <1>4, LocalKeeps DEF BeforeStart

(* The interrupt may or may not have reached the agent. *)
LEMMA InterruptUncertainKeeps ==
  ASSUME IndInv, NEW w \in Workers, InterruptUncertain(w)
  PROVE  IndInv'
<1>1. /\ Goto(w, "finish") /\ exec' = exec /\ held' = held /\ native' = native
      /\ proven' = proven /\ wire' = wire /\ UNCHANGED fenceVars /\ fresh' = fresh
      /\ left' = left /\ mem' = mem /\ stopping' \in {stopping, stopping \/ Interruptible(w)}
  BY DEF InterruptUncertain, fenceVars, histVars
<1>2. stopping \in BOOLEAN
  BY DEF IndInv, TypeOK
<1>3. stopping' \in BOOLEAN
  BY <1>1, <1>2
<1>4. /\ mem' \in [Workers -> Memories] /\ left' \in [requests : Nat, faults : Nat]
      /\ fresh' \subseteq fresh \cup {w}
  BY <1>1 DEF IndInv, TypeOK
<1> QED
  BY <1>1, <1>3, <1>4, QuitKeeps

-----------------------------------------------------------------------------
(* The steps that end a START *)

(* An end that does not complete the stage keeps the invariant if it       *)
(* leaves a paused execution at rest.                                      *)
LEMMA EndKeeps ==
  ASSUME IndInv, NEW w \in Workers, at[w].pc \in Working,
         NEW status \in Statuses \ {"COMPLETED"}, NEW outcome \in AttemptStatuses,
         exec.reason = "PAUSE" => status \notin Runnable,
         \/ SaveAndReturn(w, [Released(exec) EXCEPT !.status = status,
                                                    !.attempts = Attempted(exec, outcome)])
         \/ SaveAndReturn(w, [Released(exec) EXCEPT !.attempts = Attempted(exec, outcome),
                                                    !.corrected = TRUE, !.status = status])
  PROVE  IndInv'
<1> DEFINE e == [Released(exec) EXCEPT !.status = status, !.attempts = Attempted(exec, outcome)]
           f == [Released(exec) EXCEPT !.attempts = Attempted(exec, outcome), !.corrected = TRUE,
                                       !.status = status]
<1>1. w \in fresh
  BY ReturnNeeds
<1>2. exec.status # "COMPLETED" /\ (held => exec.reason = "PAUSE")
  BY <1>1, CurrentCopy
<1>3. PatchOK(e) /\ PatchOK(f)
  BY <1>2, EndPatch
<1>4. e.status = status /\ f.status = status
  BY RecordType DEF Released, Executions
<1>5. SaveAndReturn(w, e) \/ SaveAndReturn(w, f)
  OBVIOUS
<1> HIDE DEF e, f
<1>6. held => PauseRespected(e) /\ PauseRespected(f)
  BY <1>2, <1>4 DEF PauseRespected
<1> QED
  BY <1>3, <1>5, <1>6, ReturnKeeps

(* An interrupted or failed turn ends its START. *)
LEMMA StoppedKeeps ==
  ASSUME IndInv, NEW w \in Workers, Stopped(w)
  PROVE  IndInv'
<1> DEFINE last == at[w].seen.last
           status == StoppedStatus(last)
           outcome == IF last = "interrupted" THEN "INTERRUPTED" ELSE "FAILED"
<1>1. at[w].pc \in Working
  BY DEF Stopped, ClosedVerified, Closed, Reconciled, Accepted, At, Working
<1>2. last \in {"interrupted", "failed", "failedRetryable"}
  BY DEF Stopped
<1>3. status \in {"RESUMING_STAGE", "PAUSED", "WAITING_FOR_MODEL", "BLOCKED"}
      /\ (exec.reason = "PAUSE" => status \in {"PAUSED", "BLOCKED"})
  <2> HIDE DEF last
  <2>1. CASE last = "interrupted"
    BY <2>1 DEF StoppedStatus
  <2>2. CASE last = "failed"
    BY <2>2 DEF StoppedStatus
  <2>3. CASE last = "failedRetryable" /\ exec.reason # "PAUSE"
    BY <2>3 DEF StoppedStatus
  <2>4. CASE last = "failedRetryable" /\ exec.reason = "PAUSE"
    BY <2>4 DEF StoppedStatus
  <2> QED
    BY <1>2, <2>1, <2>2, <2>3, <2>4
<1>4. outcome \in AttemptStatuses
  BY DEF AttemptStatuses
<1>5. SaveAndReturn(w, [Released(exec) EXCEPT !.status = status, !.attempts = Attempted(exec, outcome)])
  BY DEF Stopped
<1> HIDE DEF status, outcome
<1>6. status \in Statuses \ {"COMPLETED"} /\ (exec.reason = "PAUSE" => status \notin Runnable)
  BY <1>3 DEF Statuses, Runnable
<1> QED
  BY <1>1, <1>4, <1>5, <1>6, EndKeeps

(* A turn without a sufficient result ends its START. *)
LEMMA InsufficientKeeps ==
  ASSUME IndInv, NEW w \in Workers, Insufficient(w)
  PROVE  IndInv'
<1> DEFINE status == IF exec.reason = "PAUSE" THEN "PAUSED"
                     ELSE IF exec.corrected THEN "BLOCKED" ELSE "RESUMING_STAGE"
<1>1. at[w].pc \in Working
  BY DEF Insufficient, ClosedVerified, Closed, Reconciled, Accepted, At, Working
<1>2. status \in Statuses \ {"COMPLETED"} /\ (exec.reason = "PAUSE" => status \notin Runnable)
  BY DEF Statuses, Runnable
<1>3. SaveAndReturn(w, [Released(exec) EXCEPT !.attempts = Attempted(exec, "COMPLETED"),
                                              !.corrected = TRUE, !.status = status])
  BY DEF Insufficient
<1> HIDE DEF status
<1> QED
  BY <1>1, <1>2, <1>3, EndKeeps DEF AttemptStatuses

(* The closed turn a controller sees is the pending START's, of the active *)
(* stage, which a COMPLETED closure has proved.                            *)
LEMMA ClosureProves ==
  ASSUME IndInv, NEW w \in Workers, ClosedVerified(w), at[w].seen.last = "COMPLETED"
  PROVE  exec.active \in proven
<1> DEFINE t == at[w].seen
<1>1. StartPending /\ Matches(exec.pending, t) /\ t.solo
  BY DEF ClosedVerified, Closed, Reconciled, Accepted
<1>2. exec.pending.id \in 1..NAttempts /\ exec.attempts[exec.pending.id].stage = exec.active
  BY <1>1 DEF IndInv, PendingStage
<1>3. t \in Threads /\ exec.pending \in Commands /\ NAttempts \in Nat
  BY RecordType DEF IndInv, TypeOK, Positions
<1>4. Len(t.turns) = exec.pending.base + 1 /\ Len(t.turns) \in DOMAIN t.turns /\ Len(t.turns) > 0
  BY <1>1, <1>3 DEF Matches, Threads, Commands
<1>5. t.turns[Len(t.turns)] = exec.pending.id
  BY <1>1, <1>4 DEF Matches
<1>6. ClosedProven(t)
  BY DEF IndInv, KnownIds
<1> QED
  BY <1>1, <1>2, <1>3, <1>4, <1>5, <1>6 DEF ClosedProven

(* A result that does not complete the stage. *)
LEMMA ContinuedKeeps ==
  ASSUME IndInv, NEW w \in Workers, at[w].pc \in Working, NEW corrected \in BOOLEAN,
         NEW status \in Statuses \ {"COMPLETED"}, exec.reason = "PAUSE" => status \notin Runnable,
         SaveAndReturn(w, [Released(exec) EXCEPT
                !.attempts = Attempted(exec, "COMPLETED"), !.completed = exec.completed,
                !.active = exec.active, !.corrected = corrected, !.status = status])
  PROVE  IndInv'
<1> DEFINE e == [Released(exec) EXCEPT
                !.attempts = Attempted(exec, "COMPLETED"), !.completed = exec.completed,
                !.active = exec.active, !.corrected = corrected, !.status = status]
<1>1. w \in fresh
  BY ReturnNeeds
<1>2. exec.status # "COMPLETED" /\ (held => exec.reason = "PAUSE")
  BY <1>1, CurrentCopy
<1>3. PatchOK(e)
  BY <1>2, RecordType, NothingPending, AttemptedType
     DEF PatchOK, Released, Executions, NoCommand, AttemptStatuses
<1>4. e.status = status
  BY RecordType DEF Released, Executions
<1>5. SaveAndReturn(w, e)
  OBVIOUS
<1> HIDE DEF e
<1>6. held => PauseRespected(e)
  BY <1>2, <1>4 DEF PauseRespected
<1> QED
  BY <1>3, <1>5, <1>6, ReturnKeeps

(* A result that completes the active stage. *)
LEMMA CompletedKeeps ==
  ASSUME IndInv, NEW w \in Workers, at[w].pc \in Working,
         ClosedVerified(w), at[w].seen.last = "COMPLETED",
         NEW completed, completed = Append(exec.completed, exec.active),
         NEW active, active = IF Len(completed) = NStages THEN exec.active ELSE exec.active + 1,
         NEW status, status = IF Len(completed) = NStages THEN "COMPLETED"
                              ELSE IF exec.reason = "PAUSE" THEN "PAUSED" ELSE "RESUMING_STAGE",
         SaveAndReturn(w, [Released(exec) EXCEPT
                !.attempts = Attempted(exec, "COMPLETED"), !.completed = completed,
                !.active = active, !.corrected = FALSE, !.status = status])
  PROVE  IndInv'
<1> DEFINE e == [Released(exec) EXCEPT
                !.attempts = Attempted(exec, "COMPLETED"), !.completed = completed,
                !.active = active, !.corrected = FALSE, !.status = status]
<1>1. w \in fresh /\ Save(w, e) /\ Goto(w, "finish") /\ UNCHANGED <<mem, envVars>>
  BY SaveNeeds DEF SaveAndReturn
<1>2. /\ exec.status # "COMPLETED" /\ (held => exec.reason = "PAUSE")
      /\ Len(exec.completed) < NStages /\ exec.active = Len(exec.completed) + 1
  BY <1>1, CurrentCopy
<1>3. exec.active \in proven
  BY ClosureProves
<1>4. /\ completed \in Seq(Stages) /\ Len(completed) = exec.active /\ exec.active \in Stages
      /\ \A i \in 1..Len(exec.completed) : completed[i] = exec.completed[i]
      /\ completed[exec.active] = exec.active /\ Len(exec.completed) \in Nat
  BY <1>2, RecordType
<1>5. NStages \in Nat /\ Stages = 1..NStages
  BY PlanAssumption DEF Stages
<1>6. active \in Stages
  BY <1>2, <1>4, <1>5
<1>7. status \in Statuses
  BY DEF Statuses, Runnable, Terminal
<1>8. /\ e \in Executions /\ e.completed = completed /\ e.active = active /\ e.status = status
      /\ e.attempts = Attempted(exec, "COMPLETED") /\ e.pending.type = "NONE"
  <2>1. Released(exec) \in Executions /\ Released(exec).pending.type = "NONE"
    BY RecordType, NothingPending DEF Released, Executions, NoCommand
  <2>2. Attempted(exec, "COMPLETED") \in Seq(Attempts)
    BY AttemptedType DEF AttemptStatuses
  <2> QED
    BY <1>4, <1>6, <1>7, <2>1, <2>2 DEF Executions
<1>9. exec' = e /\ held' = held /\ left' = left /\ fresh' = {w} /\ FenceNext
  BY <1>1 DEF Save, Write, FenceNext
<1> HIDE DEF e
<1>10. native' = native /\ proven' = proven /\ stopping' = stopping /\ wire' = wire /\ mem' = mem
  BY <1>1 DEF envVars
<1>11. AttemptsGrow /\ NAttempts' = NAttempts
  BY <1>8, <1>9, AttemptedType, RecordType DEF AttemptsGrow, NAttempts, AttemptStatuses
<1>12. StagesInOrder'
  <2>1. Len(completed) <= NStages
    BY <1>2, <1>4, <1>5
  <2>2. \A i \in 1..Len(completed) : completed[i] = i /\ i \in proven
    <3>1. \A i \in 1..Len(exec.completed) : exec.completed[i] = i /\ i \in proven
      BY DEF IndInv, StagesInOrder
    <3> QED
      BY <1>2, <1>3, <1>4, <3>1
  <2>3. status = "COMPLETED" <=> Len(completed) = NStages
    OBVIOUS
  <2>4. status # "COMPLETED" => active = Len(completed) + 1
    BY <1>4
  <2> QED
    BY <1>8, <1>9, <1>10, <2>1, <2>2, <2>3, <2>4 DEF StagesInOrder
<1>13. PendingStage' /\ RestReleased'
  BY <1>8, <1>9 DEF PendingStage, RestReleased, StartPending
<1>14. PauseKept'
  BY <1>2, <1>8, <1>9 DEF PauseKept, PauseRespected, Runnable
<1>15. PICK q \in Positions : at' = [at EXCEPT ![w] = q] /\ q.pc = "finish" /\ q.seen = NoThread
  BY <1>1, GotoStep DEF Pcs
<1>16. /\ mem' \in [Workers -> Memories] /\ left' \in [requests : Nat, faults : Nat]
       /\ stopping' \in BOOLEAN /\ held' \in BOOLEAN /\ wire' \subseteq 1..NAttempts'
  BY <1>9, <1>10, <1>11 DEF IndInv, TypeOK, KnownIds
<1>17. exec' \in Executions
  BY <1>8, <1>9
<1> QED
  BY <1>9, <1>10, <1>11, <1>12, <1>13, <1>14, <1>15, <1>16, <1>17, AnyStepKeeps DEF Working, Underway, BeforeStart

(* A turn with a sufficient result ends its START. *)
LEMMA SufficientKeeps ==
  ASSUME IndInv, NEW w \in Workers, Sufficient(w)
  PROVE  IndInv'
<1> DEFINE outcome == at[w].seen.last
<1>1. at[w].pc \in Working /\ ClosedVerified(w) /\ outcome \in {"CONTINUE", "COMPLETED", "BLOCKED"}
  BY DEF Sufficient, ClosedVerified, Closed, Reconciled, Accepted, At, Working
<1>2. CASE outcome = "COMPLETED"
  <2> DEFINE completed == Append(exec.completed, exec.active)
             active == IF Len(completed) = NStages THEN exec.active ELSE exec.active + 1
             status == IF Len(completed) = NStages THEN "COMPLETED"
                       ELSE IF exec.reason = "PAUSE" THEN "PAUSED" ELSE "RESUMING_STAGE"
  <2>1. SaveAndReturn(w, [Released(exec) EXCEPT
                !.attempts = Attempted(exec, "COMPLETED"), !.completed = completed,
                !.active = active, !.corrected = FALSE, !.status = status])
    BY <1>2 DEF Sufficient, NextActive
  <2> HIDE DEF completed, active, status
  <2> QED
    BY <1>1, <1>2, <2>1, CompletedKeeps DEF completed, active, status
<1>3. CASE outcome # "COMPLETED"
  <2> DEFINE status == IF outcome = "BLOCKED" THEN "BLOCKED"
                       ELSE IF exec.reason = "PAUSE" THEN "PAUSED" ELSE "RESUMING_STAGE"
  <2>1. w \in fresh
    BY ReturnNeeds DEF Sufficient
  <2>2. Len(exec.completed) # NStages
    BY <1>1, <2>1, CurrentCopy, RecordType
  <2> DEFINE corrected == Released(exec).corrected
  <2>3. SaveAndReturn(w, [Released(exec) EXCEPT
                !.attempts = Attempted(exec, "COMPLETED"), !.completed = exec.completed,
                !.active = exec.active, !.corrected = corrected, !.status = status])
    BY <1>3, <2>2 DEF Sufficient, NextActive
  <2>5. corrected \in BOOLEAN
    BY RecordType DEF Released, Executions
  <2>4. status \in Statuses \ {"COMPLETED"} /\ (exec.reason = "PAUSE" => status \notin Runnable)
    BY DEF Statuses, Runnable
  <2> HIDE DEF status, corrected
  <2> QED
    BY <1>1, <2>3, <2>4, <2>5, ContinuedKeeps
<1> QED
  BY <1>2, <1>3

-----------------------------------------------------------------------------
(* The steps that prepare and send a START *)

(* A controller that may act on an execution without a START acts on one   *)
(* that nobody has paused.                                                 *)
LEMMA NotHeld ==
  ASSUME IndInv, NEW w \in Workers, w \in fresh, at[w].pc \in Working, ~StartPending
  PROVE  ~held /\ exec.status # "COMPLETED" /\ exec.status \in Runnable
BY CurrentCopy

(* Patches of an execution that nobody has paused.                         *)
LEMMA FreePatch ==
  ASSUME IndInv, exec.status # "COMPLETED", NEW status \in Statuses \ {"COMPLETED"},
         NEW c \in Commands, c.type # "START"
  PROVE  PatchOK([exec EXCEPT !.status = status, !.pending = c])
BY RecordType DEF PatchOK, Executions, NAttempts

(* The attempts of the stage are used up. *)
LEMMA ExhaustedKeeps ==
  ASSUME IndInv, NEW w \in Workers, Exhausted(w)
  PROVE  IndInv'
<1> DEFINE e == [exec EXCEPT !.status = "FAILED", !.pending = NoCommand]
<1>1. SaveAndReturn(w, e) /\ w \in fresh /\ at[w].pc \in Working /\ ~StartPending
  BY ReturnNeeds DEF Exhausted, Free, At, Working
<1>2. ~held /\ exec.status # "COMPLETED"
  BY <1>1, NotHeld
<1>3. PatchOK(e)
  BY <1>2, FreePatch, NothingPending DEF NoCommand, Statuses, Terminal
<1> HIDE DEF e
<1> QED
  BY <1>1, <1>2, <1>3, ReturnKeeps

(* The settings update is refused. *)
LEMMA SettingsRejectedKeeps ==
  ASSUME IndInv, NEW w \in Workers, SettingsRejected(w)
  PROVE  IndInv'
<1>1. at[w].pc \in Working /\ at[w].pc \in BeforeStart
  BY DEF SettingsRejected, At, Working, BeforeStart
<1>2. CASE SaveAndReturn(w, [exec EXCEPT !.status = "WAITING_FOR_MODEL", !.pending.status = "PREPARED"])
  <2>1. "WAITING_FOR_MODEL" \in Statuses \ {"PAUSED", "COMPLETED", "FAILED"} /\ "PREPARED" \in Delivery
    BY DEF Statuses, Runnable, Delivery
  <2> QED
    BY <1>1, <1>2, <2>1, StatusReturnKeeps
<1>3. CASE SaveAndReturn(w, [exec EXCEPT !.status = "BLOCKED", !.pending = NoCommand])
  <2> DEFINE e == [exec EXCEPT !.status = "BLOCKED", !.pending = NoCommand]
  <2>1. w \in fresh /\ SaveAndReturn(w, e)
    BY <1>3, ReturnNeeds
  <2>2. ~StartPending
    BY <1>1, <2>1, CurrentCopy
  <2>3. ~held /\ exec.status # "COMPLETED"
    BY <1>1, <2>1, <2>2, NotHeld
  <2>4. PatchOK(e)
    BY <2>3, FreePatch, NothingPending DEF NoCommand, Statuses
  <2> HIDE DEF e
  <2> QED
    BY <2>1, <2>3, <2>4, ReturnKeeps
<1> QED
  BY <1>2, <1>3 DEF SettingsRejected

(* The settings intent becomes durable. *)
LEMMA PrepareSettingsKeeps ==
  ASSUME IndInv, NEW w \in Workers, PrepareSettings(w)
  PROVE  IndInv'
<1> DEFINE c == [NoCommand EXCEPT !.type = "SETTINGS", !.stage = exec.active,
                                  !.sel = exec.choice[exec.active], !.base = Len(at[w].seen.turns)]
           e == [exec EXCEPT !.status = "SWITCHING_MODEL", !.pending = c]
<1>1. /\ Save(w, e) /\ w \in fresh /\ at[w].pc \in Working /\ ~StartPending
      /\ GotoWith(w, "settings", 0, "NEW") /\ UNCHANGED <<mem, envVars>>
  BY SaveNeeds DEF PrepareSettings, Startable, Free, At, Working
<1>2. ~held /\ exec.status # "COMPLETED"
  BY <1>1, NotHeld
<1>3. Len(at[w].seen.turns) \in Nat /\ exec.choice[exec.active] \in Models
  BY RecordType DEF IndInv, TypeOK, Positions, Threads
<1>4. c \in Commands /\ c.type = "SETTINGS"
  BY <1>3, NothingPending, RecordType DEF Commands, NoCommand
<1> HIDE DEF c
<1>5. PatchOK(e)
  BY <1>2, <1>4, FreePatch DEF Statuses, Runnable
<1>6. e.status \in Runnable /\ e.pending.type # "START"
  BY <1>4, RecordType DEF Executions, Runnable
<1> HIDE DEF e
<1>7. PICK q \in Positions : at' = [at EXCEPT ![w] = q] /\ q.pc = "settings" /\ q.seen = NoThread
  BY <1>1, GotoWithStep DEF Pcs, Working
<1>8. mem' \in [Workers -> Memories] /\ UNCHANGED envVars
  BY <1>1 DEF IndInv, TypeOK
<1> QED
  BY <1>1, <1>2, <1>5, <1>6, <1>7, <1>8, SaveKeeps

(* The selection is confirmed. *)
LEMMA ConfirmSettingsKeeps ==
  ASSUME IndInv, NEW w \in Workers, ConfirmSettings(w)
  PROVE  IndInv'
<1> DEFINE e == [exec EXCEPT !.pending.status = "SENT"]
<1>1. /\ Save(w, e) /\ w \in fresh /\ at[w].pc \in Working /\ at[w].pc \in BeforeStart
      /\ GotoWith(w, "prepare", 0, at[w].was) /\ UNCHANGED <<mem, envVars>>
  BY SaveNeeds DEF ConfirmSettings, At, Working, BeforeStart
<1>2. exec.status \in Runnable /\ ~StartPending
  BY <1>1, CurrentCopy
<1>3. KeepsCommand(e)
  BY <1>2, StatusPatches, RecordType, NothingPending DEF Delivery, Statuses, Runnable, Interrupts
<1>4. e.status = exec.status
  BY RecordType DEF Executions
<1> HIDE DEF e
<1>5. PatchOK(e) /\ (held => PauseRespected(e))
  BY <1>1, <1>3, KeepPatch
<1>6. e.pending.type # "START"
  BY <1>2, <1>3 DEF KeepsCommand, StartPending
<1>7. PICK q \in Positions : at' = [at EXCEPT ![w] = q] /\ q.pc = "prepare" /\ q.seen = NoThread
  <2>1. at[w].was \in Delivery \cup {"NEW"}
    BY DEF IndInv, TypeOK, Positions
  <2> QED
    BY <1>1, <2>1, GotoWithStep DEF Pcs, Working
<1>8. mem' \in [Workers -> Memories] /\ UNCHANGED envVars
  BY <1>1 DEF IndInv, TypeOK
<1> QED
  BY <1>1, <1>2, <1>4, <1>5, <1>6, <1>7, <1>8, SaveKeeps

(* The one step that makes an attempt: the execution is not paused, and    *)
(* the attempt is of the active stage.                                     *)
LEMMA PrepareStartKeeps ==
  ASSUME IndInv, NEW w \in Workers, PrepareStart(w)
  PROVE  IndInv' /\ ~held
<1> DEFINE id == Len(exec.attempts) + 1
           attempt == [stage |-> exec.active, status |-> "PREPARED", verified |-> FALSE]
           delivery == IF at[w].was = "NEW" THEN "PREPARED" ELSE at[w].was
           c == [exec.pending EXCEPT !.type = "START", !.id = id, !.status = delivery]
           a == Append(exec.attempts, attempt)
           e == [exec EXCEPT !.pending = c, !.attempts = a]
<1>1. /\ Save(w, e) /\ w \in fresh /\ at[w].pc \in Working /\ at[w].pc \in BeforeStart
      /\ GotoWith(w, "starting", id, "PREPARED") /\ UNCHANGED <<mem, envVars>>
  <2>1. Save(w, [exec EXCEPT !.pending.type = "START", !.pending.id = id,
                             !.pending.status = delivery, !.attempts = a])
    BY DEF PrepareStart
  <2>2. [exec EXCEPT !.pending.type = "START", !.pending.id = id,
                     !.pending.status = delivery, !.attempts = a] = e
    BY RecordType DEF Executions, Commands
  <2> QED
    BY <2>1, <2>2, SaveNeeds DEF PrepareStart, At, Working, BeforeStart
<1>2. ~StartPending /\ exec.active = Len(exec.completed) + 1 /\ exec.status # "COMPLETED"
  BY <1>1, CurrentCopy
<1>3. ~held /\ exec.status \in Runnable
  BY <1>1, <1>2, NotHeld
<1>4. at[w].was \in Delivery \cup {"NEW"}
  BY DEF IndInv, TypeOK, Positions
<1>5. delivery \in Delivery
  BY <1>4 DEF Delivery
<1>6. attempt \in Attempts /\ attempt.stage = exec.active
  BY RecordType DEF Attempts, AttemptStatuses
<1>7. id \in Nat /\ id = NAttempts + 1 /\ NAttempts \in Nat
  BY RecordType DEF NAttempts
<1> HIDE DEF delivery, attempt
<1>8. c \in Commands /\ c.type = "START" /\ c.id = id
  BY <1>5, <1>7, RecordType DEF Commands
<1>9. /\ a \in Seq(Attempts) /\ Len(a) = id /\ a[id] = attempt
      /\ \A k \in 1..NAttempts : a[k] = exec.attempts[k]
  BY <1>6, <1>7, RecordType DEF NAttempts
<1> HIDE DEF c, a, id
<1>10. /\ e \in Executions /\ e.pending = c /\ e.attempts = a /\ e.status = exec.status
       /\ e.completed = exec.completed /\ e.active = exec.active
  BY <1>8, <1>9, RecordType DEF Executions
<1> HIDE DEF e
<1>11. exec' = e /\ held' = held /\ left' = left /\ fresh' = {w} /\ FenceNext
  BY <1>1 DEF Save, Write, FenceNext
<1>12. native' = native /\ proven' = proven /\ stopping' = stopping /\ wire' = wire /\ mem' = mem
  BY <1>1 DEF envVars
<1>13. NAttempts' = id /\ id \in 1..NAttempts' /\ AttemptsGrow
  BY <1>7, <1>9, <1>10, <1>11 DEF NAttempts, AttemptsGrow
<1>14. StagesInOrder'
  BY <1>10, <1>11, <1>12 DEF IndInv, StagesInOrder
<1>15. PendingStage'
  BY <1>6, <1>8, <1>9, <1>10, <1>11, <1>13 DEF PendingStage
<1>16. RestReleased' /\ PauseKept'
  BY <1>3, <1>10, <1>11 DEF RestReleased, PauseKept, Runnable
<1>17. PICK q \in Positions : /\ at' = [at EXCEPT ![w] = q] /\ q.pc = "starting" /\ q.id = id
                              /\ q.seen = NoThread
  BY <1>1, <1>7, GotoWithStep DEF Pcs, Working, Delivery
<1>18. /\ mem' \in [Workers -> Memories] /\ left' \in [requests : Nat, faults : Nat]
       /\ stopping' \in BOOLEAN /\ held' \in BOOLEAN /\ wire' \subseteq 1..NAttempts'
  BY <1>7, <1>11, <1>12, <1>13 DEF IndInv, TypeOK, KnownIds
<1>19. exec' \in Executions /\ exec'.status \in Runnable
  BY <1>3, <1>10, <1>11
<1> QED
  BY <1>3, <1>11, <1>12, <1>13, <1>14, <1>15, <1>16, <1>17, <1>18, <1>19, AnyStepKeeps DEF BeforeStart

(* A step of the send that may change the wire and the maps.               *)
LEMMA SendKeeps ==
  ASSUME IndInv, NEW w \in Workers, UNCHANGED <<fenceVars, exec, native, stopping, proven, histVars>>,
         NEW q \in Positions, at' = [at EXCEPT ![w] = q], q.seen \in {NoThread, at[w].seen},
         q.pc \in {"await", "settling", "started"}, at[w].pc \in Underway,
         mem' \in [Workers -> Memories], wire' \subseteq 1..NAttempts
  PROVE  IndInv'
<1>1. /\ exec' = exec /\ held' = held /\ native' = native /\ proven' = proven
      /\ stopping' = stopping /\ left' = left /\ UNCHANGED fenceVars /\ fresh' = fresh
  BY DEF fenceVars, histVars
<1>2. /\ left' \in [requests : Nat, faults : Nat] /\ stopping' \in BOOLEAN
      /\ fresh' \subseteq fresh \cup {w}
  BY <1>1 DEF IndInv, TypeOK
<1>3. q.pc \notin {"starting", "armed"} /\ q.pc \notin BeforeStart
  BY DEF BeforeStart
<1>4. w \in fresh' /\ q.pc \in Underway => exec.status \in Runnable
  BY <1>1 DEF IndInv, FreshRuns
<1> QED
  BY <1>1, <1>2, <1>3, <1>4, LocalKeeps

(* The maps stay in their domain. *)
LEMMA RememberType ==
  ASSUME IndInv, NEW w \in Workers,
         NEW evidence \in {"none", "observing", "verified", "invalid"},
         NEW receipt \in {"none", "NOT_SENT", "REJECTED", "RETRYABLE"}, Remember(w, evidence, receipt)
  PROVE  mem' \in [Workers -> Memories]
<1>1. mem \in [Workers -> Memories] /\ at[w].id \in Nat
  BY DEF IndInv, TypeOK, Positions
<1>2. [mem[w] EXCEPT !.cmd = at[w].id, !.evidence = evidence, !.receipt = receipt] \in Memories
  BY <1>1 DEF Memories
<1>3. mem' = [mem EXCEPT ![w] =
                [mem[w] EXCEPT !.cmd = at[w].id, !.evidence = evidence, !.receipt = receipt]]
  BY <1>1 DEF Remember, Memories
<1> QED
  BY <1>1, <1>2, <1>3

(* The request leaves with the id of a durable attempt. *)
LEMMA SendStartKeeps ==
  ASSUME IndInv, NEW w \in Workers, SendStart(w)
  PROVE  IndInv'
<1>1. at[w].pc = "armed" /\ at[w].pc \in Underway
  BY DEF SendStart, At, Underway
<1>2. at[w].id \in Nat /\ at[w].id \in 1..NAttempts /\ wire \subseteq 1..NAttempts
  BY <1>1 DEF IndInv, TypeOK, Positions, KnownIds
<1>3. PICK q \in Positions : at' = [at EXCEPT ![w] = q] /\ q.pc = "await" /\ q.seen = NoThread
  BY <1>2, GotoWithStep DEF SendStart, Pcs, Working, Delivery
<1>4. mem' \in [Workers -> Memories] /\ wire' \subseteq 1..NAttempts
  BY <1>2 DEF SendStart, IndInv, TypeOK
<1> QED
  BY <1>1, <1>3, <1>4, SendKeeps DEF SendStart

(* The send fails before the request leaves. *)
LEMMA NotSentKeeps ==
  ASSUME IndInv, NEW w \in Workers, NotSent(w)
  PROVE  IndInv'
<1>1. at[w].pc \in Underway
  BY DEF NotSent, At, Underway, Working
<1>2. at[w].id \in Nat /\ wire \subseteq 1..NAttempts
  BY DEF IndInv, TypeOK, Positions, KnownIds
<1>3. PICK q \in Positions : at' = [at EXCEPT ![w] = q] /\ q.pc = "settling" /\ q.seen = NoThread
  BY <1>2, GotoWithStep DEF NotSent, Pcs, Working, Delivery
<1>4. mem' \in [Workers -> Memories]
  BY RememberType DEF NotSent
<1>5. UNCHANGED <<fenceVars, exec, native, stopping, proven, histVars>> /\ wire' = wire
  BY DEF NotSent, envVars
<1> QED
  BY <1>1, <1>2, <1>3, <1>4, <1>5, SendKeeps

(* The agent answers with an error. *)
LEMMA RejectedKeeps ==
  ASSUME IndInv, NEW w \in Workers, Rejected(w)
  PROVE  IndInv'
<1>1. at[w].pc \in Underway
  BY DEF Rejected, At, Underway, Working
<1>2. at[w].id \in Nat /\ wire' \subseteq 1..NAttempts
  BY DEF Rejected, IndInv, TypeOK, Positions, KnownIds
<1>3. PICK q \in Positions : at' = [at EXCEPT ![w] = q] /\ q.pc = "settling" /\ q.seen = NoThread
  BY <1>2, GotoWithStep DEF Rejected, Pcs, Working, Delivery
<1>4. mem' \in [Workers -> Memories]
  BY RememberType DEF Rejected
<1> QED
  BY <1>1, <1>2, <1>3, <1>4, SendKeeps DEF Rejected

(* The agent answers with a turn. *)
LEMMA RespondedKeeps ==
  ASSUME IndInv, NEW w \in Workers, Responded(w)
  PROVE  IndInv'
<1>1. at[w].pc \in Underway
  BY DEF Responded, At, Underway, Working
<1>2. PICK i \in DOMAIN native.turns : at' = [at EXCEPT ![w].pc = "started", ![w].turn = i]
  BY DEF Responded
<1>3. native \in Threads /\ at \in [Workers -> Positions]
  BY DEF IndInv, TypeOK
<1>4. i \in Nat
  BY <1>3 DEF Threads
<1> DEFINE q == [at[w] EXCEPT !.pc = "started", !.turn = i]
<1>5. q \in Positions /\ q.pc = "started" /\ q.seen = at[w].seen
  BY <1>3, <1>4 DEF Positions, Working
<1>6. at' = [at EXCEPT ![w] = q]
  BY <1>2, <1>3
<1> HIDE DEF q
<1>7. mem' \in [Workers -> Memories]
  BY RememberType DEF Responded
<1>8. /\ UNCHANGED <<fenceVars, exec, native, stopping, proven, histVars>>
      /\ wire' \subseteq 1..NAttempts
  BY DEF Responded, envVars, IndInv, KnownIds
<1> QED
  BY <1>1, <1>5, <1>6, <1>7, <1>8, SendKeeps

(* The answered START is recorded. *)
LEMMA SaveStartedKeeps ==
  ASSUME IndInv, NEW w \in Workers, SaveStarted(w)
  PROVE  IndInv'
<1> DEFINE e == [exec EXCEPT
                !.status = "RUNNING",
                !.pending = [@ EXCEPT !.status = "SENT", !.turn = at[w].turn],
                !.attempts = Attempted(exec, "RUNNING")]
<1>1. SaveAndReturn(w, e) /\ w \in fresh /\ at[w].pc \in Working
  BY ReturnNeeds DEF SaveStarted, At, Working
<1>2. at[w].turn \in Nat
  BY DEF IndInv, TypeOK, Positions
<1>3. KeepsCommand(e)
  BY <1>2, AcceptedPatch
<1> HIDE DEF e
<1>4. PatchOK(e) /\ (held => PauseRespected(e))
  BY <1>1, <1>3, KeepPatch
<1> QED
  BY <1>1, <1>4, ReturnKeeps

-----------------------------------------------------------------------------
(* How a tick begins and ends *)

(* A tick claims the execution. *)
LEMMA AdvanceKeeps ==
  ASSUME IndInv, NEW w \in Workers, Advance(w)
  PROVE  IndInv'
<1> DEFINE pc == IF exec.status \in Runnable THEN "read" ELSE "finish"
<1>1. /\ exec' = exec /\ held' = held /\ native' = native /\ proven' = proven
      /\ wire' = wire /\ stopping' = stopping /\ mem' = mem /\ left' = left
  BY DEF Advance, envVars, histVars
<1>2. /\ mem' \in [Workers -> Memories] /\ left' \in [requests : Nat, faults : Nat]
      /\ stopping' \in BOOLEAN /\ wire' \subseteq 1..NAttempts
  BY <1>1 DEF IndInv, TypeOK, KnownIds
<1>3. FenceNext /\ fresh' = fresh \cup {w}
  BY DEF Advance, FenceNext, Claim
<1>4. PICK q \in Positions : at' = [at EXCEPT ![w] = q] /\ q.pc = pc /\ q.seen = NoThread
  BY GotoStep DEF Advance, Pcs, Working
<1>5. q.pc \in Underway => exec.status \in Runnable
  BY <1>4 DEF Underway, Working
<1>6. q.pc \notin {"starting", "armed"} /\ q.pc \notin BeforeStart
  BY <1>4 DEF BeforeStart
<1> QED
  BY <1>1, <1>2, <1>3, <1>4, <1>5, <1>6, LocalKeeps

(* A tick reads the thread as it is. *)
LEMMA ReadThreadKeeps ==
  ASSUME IndInv, NEW w \in Workers, ReadThread(w)
  PROVE  IndInv'
<1> DEFINE q == [at[w] EXCEPT !.pc = "decide", !.seen = native]
<1>1. at \in [Workers -> Positions] /\ native \in Threads
  BY DEF IndInv, TypeOK
<1>2. q \in Positions /\ q.pc = "decide" /\ q.seen = native
  BY <1>1 DEF Positions, Working
<1>3. at' = [at EXCEPT ![w] = q] /\ Local /\ at[w].pc = "read"
  BY <1>1 DEF ReadThread, At
<1> HIDE DEF q
<1> QED
  BY <1>2, <1>3, MoveKeeps DEF Underway, Working, BeforeStart

(* What a fault leaves. *)
LEMMA FaultType ==
  ASSUME IndInv, Fault
  PROVE  left' \in [requests : Nat, faults : Nat]
BY DEF Fault, IndInv, TypeOK

(* A tick that finds its lease or revision gone. *)
LEMMA ConflictKeeps ==
  ASSUME IndInv, NEW w \in Workers, Conflict(w)
  PROVE  IndInv'
<1>1. /\ exec' = exec /\ held' = held /\ native' = native /\ proven' = proven
      /\ wire' = wire /\ stopping' = stopping /\ mem' = mem /\ left' = left /\ Goto(w, "finish")
  BY DEF Conflict, envVars, histVars
<1>2. /\ mem' \in [Workers -> Memories] /\ left' \in [requests : Nat, faults : Nat]
      /\ stopping' \in BOOLEAN
  BY <1>1 DEF IndInv, TypeOK
<1>3. (FenceNext \/ UNCHANGED fenceVars) /\ fresh' = fresh
  BY DEF Conflict, FenceNext, Reclaim, fenceVars
<1> QED
  BY <1>1, <1>2, <1>3, QuitKeeps

(* Ticks that end without their last write or read. *)
LEMMA AbandonKeeps ==
  ASSUME IndInv, NEW w \in Workers, Abandon(w) \/ FinishUnread(w)
  PROVE  IndInv'
<1>1. /\ exec' = exec /\ held' = held /\ native' = native /\ proven' = proven
      /\ wire' = wire /\ stopping' = stopping /\ mem' = mem /\ UNCHANGED fenceVars /\ fresh' = fresh
  BY DEF Abandon, FinishUnread, envVars, fenceVars
<1>2. /\ mem' \in [Workers -> Memories] /\ left' \in [requests : Nat, faults : Nat]
      /\ stopping' \in BOOLEAN
  BY <1>1, FaultType DEF IndInv, TypeOK, Abandon, FinishUnread
<1>3. \E pc \in {"idle", "finish"} : Goto(w, pc)
  BY DEF Abandon, FinishUnread
<1> QED
  BY <1>1, <1>2, <1>3, QuitKeeps

(* The finally block. *)
LEMMA FinishKeeps ==
  ASSUME IndInv, NEW w \in Workers, Finish(w)
  PROVE  IndInv'
<1>1. /\ exec' = exec /\ held' = held /\ native' = native /\ proven' = proven
      /\ wire' = wire /\ stopping' = stopping /\ left' = left /\ Goto(w, "idle")
  BY DEF Finish, envVars, histVars
<1>2. left' \in [requests : Nat, faults : Nat] /\ stopping' \in BOOLEAN
  BY <1>1 DEF IndInv, TypeOK
<1>3. mem' \in [Workers -> Memories]
  <2>1. mem \in [Workers -> Memories] /\ mem' = [mem EXCEPT ![w] = Kept(mem[w])]
    BY DEF Finish, IndInv, TypeOK
  <2>2. Kept(mem[w]) \in Memories
    BY <2>1 DEF Kept, Memories
  <2> QED
    BY <2>1, <2>2
<1>4. FenceNext /\ fresh' \subseteq fresh
  BY DEF Finish, FenceNext, Release
<1> QED
  BY <1>1, <1>2, <1>3, <1>4, QuitKeeps

(* A process ends and another takes its place. *)
LEMMA CrashKeeps ==
  ASSUME IndInv, NEW w \in Workers, Crash(w)
  PROVE  IndInv'
<1>1. /\ exec' = exec /\ held' = held /\ native' = native /\ proven' = proven
      /\ wire' = wire /\ stopping' = stopping /\ Goto(w, "idle")
  BY DEF Crash, envVars
<1>2. left' \in [requests : Nat, faults : Nat] /\ stopping' \in BOOLEAN
  BY <1>1, FaultType DEF IndInv, TypeOK, Crash
<1>3. mem' \in [Workers -> Memories]
  BY DEF Crash, IndInv, TypeOK, NoMemory, Memories
<1>4. FenceNext /\ fresh' \subseteq fresh
  BY DEF Crash, FenceNext, Die
<1> QED
  BY <1>1, <1>2, <1>3, <1>4, QuitKeeps

-----------------------------------------------------------------------------
(* Steps that move no controller *)

(* Whatever such a step does to the record, the maps and the thread. *)
LEMMA OthersKeep ==
  ASSUME IndInv, at' = at,
         exec' \in Executions, StagesInOrder', PendingStage', RestReleased', PauseKept',
         AttemptsGrow, FenceNext \/ UNCHANGED fenceVars,
         fresh' = {} \/ (exec' = exec /\ fresh' \subseteq fresh),
         mem' \in [Workers -> Memories], left' \in [requests : Nat, faults : Nat],
         stopping' \in BOOLEAN, held' \in BOOLEAN, native' \in Threads,
         KnownTurns(native)', ClosedProven(native)', HasTurn(native)',
         proven \subseteq proven', proven' \subseteq Stages, wire' \subseteq 1..NAttempts'
  PROVE  IndInv'
<1> USE DEF IndInv
<1>1. NAttempts' \in Nat /\ NAttempts \in Nat
  BY DEF NAttempts, TypeOK, Executions
<1>2. TypeOK'
  <2>1. FenceTypeOK'
    BY FenceType DEF TypeOK
  <2>2. 1..NAttempts' \subseteq Nat
    OBVIOUS
  <2> QED
    BY <2>1, <2>2 DEF TypeOK
<1>3. KnownIds'
  <2>1. \A v \in Workers : KnownTurns(at[v].seen)' /\ ClosedProven(at[v].seen)'
    <3> TAKE v \in Workers
    <3>1. PICK t \in Threads : t = at[v].seen /\ KnownTurns(t) /\ ClosedProven(t)
      BY DEF TypeOK, Positions, KnownIds
    <3>2. KnownTurns(t)' /\ ClosedProven(t)'
      BY <1>1, <3>1, ThreadKeeps
    <3> QED
      BY <3>1, <3>2 DEF KnownTurns, ClosedProven
  <2>2. \A v \in Workers : at'[v].pc \in {"starting", "armed"} => at'[v].id \in 1..NAttempts'
    BY <1>1 DEF KnownIds, AttemptsGrow
  <2> QED
    BY <2>1, <2>2 DEF KnownIds
<1>4. FreshRuns'
  BY DEF FreshRuns, StartPending
<1> QED
  BY <1>2, <1>3, <1>4

(* Steps that leave record and agent alone. *)
LEMMA AsideKeeps ==
  ASSUME IndInv, UNCHANGED <<exec, at, envVars, held>>, FenceNext \/ UNCHANGED fenceVars,
         fresh' \subseteq fresh,
         mem' \in [Workers -> Memories], left' \in [requests : Nat, faults : Nat]
  PROVE  IndInv'
<1>1. /\ exec' = exec /\ at' = at /\ held' = held /\ native' = native /\ proven' = proven
      /\ wire' = wire /\ stopping' = stopping
  BY DEF envVars
<1>2. /\ exec' \in Executions /\ StagesInOrder' /\ PendingStage' /\ RestReleased' /\ PauseKept'
      /\ NAttempts' = NAttempts /\ AttemptsGrow
  BY <1>1, PatchKeeps, SamePatch
<1>3. /\ stopping' \in BOOLEAN /\ held' \in BOOLEAN /\ native' \in Threads
      /\ proven \subseteq proven' /\ proven' \subseteq Stages /\ wire' \subseteq 1..NAttempts'
  BY <1>1, <1>2 DEF IndInv, TypeOK, KnownIds
<1>4. KnownTurns(native)' /\ ClosedProven(native)' /\ HasTurn(native)'
  BY <1>1, <1>2 DEF IndInv, KnownIds, KnownTurns, ClosedProven, HasTurn, Busy
<1> QED
  BY <1>1, <1>2, <1>3, <1>4, OthersKeep

(* A lease runs out. *)
LEMMA LapseKeeps ==
  ASSUME IndInv, Lapse
  PROVE  IndInv'
<1>1. UNCHANGED <<exec, at, envVars, held>> /\ mem' = mem /\ FenceNext /\ fresh' = fresh
  BY DEF Lapse, FenceNext, Expire
<1>2. mem' \in [Workers -> Memories] /\ left' \in [requests : Nat, faults : Nat]
  BY <1>1, FaultType DEF Lapse, IndInv, TypeOK
<1> QED
  BY <1>1, <1>2, AsideKeeps

(* The observer's callbacks. *)
LEMMA NotifyKeeps ==
  ASSUME IndInv, NEW w \in Workers, Notify(w) \/ LoseContinuity(w)
  PROVE  IndInv'
<1>1. /\ UNCHANGED <<exec, at, envVars, held>> /\ UNCHANGED fenceVars /\ fresh' = fresh
      /\ left' = left
  BY DEF Notify, LoseContinuity, histVars, fenceVars
<1>2. mem' \in [Workers -> Memories] /\ left' \in [requests : Nat, faults : Nat]
  <2>1. mem \in [Workers -> Memories] /\ left \in [requests : Nat, faults : Nat]
    BY DEF IndInv, TypeOK
  <2>2. PICK evidence \in {"verified", "invalid"} : mem' = [mem EXCEPT ![w].evidence = evidence]
    BY DEF Notify, LoseContinuity
  <2>3. [mem[w] EXCEPT !.evidence = evidence] \in Memories
    BY <2>1 DEF Memories
  <2> QED
    BY <1>1, <2>1, <2>2, <2>3
<1> QED
  BY <1>1, <1>2, AsideKeeps

-----------------------------------------------------------------------------
(* Operators *)

(* An accepted request whose patch respects the pause it makes or finds.   *)
LEMMA RequestKeeps ==
  ASSUME IndInv, NEW e, NEW pause \in BOOLEAN, Request(e, pause),
         PatchOK(e), pause => PauseRespected(e)
  PROVE  IndInv'
<1>1. /\ exec' = e /\ held' = pause /\ at' = at /\ mem' = mem /\ native' = native
      /\ proven' = proven /\ wire' = wire /\ stopping' = stopping
      /\ FenceNext /\ fresh' = {} /\ left' = [left EXCEPT !.requests = @ - 1] /\ left.requests > 0
  BY DEF Request, ForeignWrite, FenceNext, envVars
<1>2. /\ exec' \in Executions /\ StagesInOrder' /\ PendingStage' /\ RestReleased' /\ PauseKept'
      /\ NAttempts' = NAttempts /\ AttemptsGrow
  BY <1>1, PatchKeeps
<1>3. /\ stopping' \in BOOLEAN /\ held' \in BOOLEAN /\ native' \in Threads
      /\ proven \subseteq proven' /\ proven' \subseteq Stages /\ wire' \subseteq 1..NAttempts'
      /\ mem' \in [Workers -> Memories] /\ left' \in [requests : Nat, faults : Nat]
  BY <1>1, <1>2 DEF IndInv, TypeOK, KnownIds
<1>4. KnownTurns(native)' /\ ClosedProven(native)' /\ HasTurn(native)'
  <2>1. PICK t \in Threads : t = native /\ KnownTurns(t) /\ ClosedProven(t) /\ HasTurn(t)
    BY DEF IndInv, TypeOK, KnownIds
  <2>2. KnownTurns(t)' /\ ClosedProven(t)'
    BY <1>1, <1>2, <2>1, RecordType, ThreadKeeps
  <2> QED
    BY <1>1, <2>1, <2>2 DEF KnownTurns, ClosedProven, HasTurn, Busy
<1> QED
  BY <1>1, <1>2, <1>3, <1>4, OthersKeep

(* The record with a stage's choice changed, or not.                       *)
Rechosen(choice) == [exec EXCEPT !.choice = choice]

(* A changed choice alone keeps everything the invariant needs. *)
LEMMA RechosenPatch ==
  ASSUME IndInv, NEW choice \in [Stages -> Models]
  PROVE  /\ PatchOK(Rechosen(choice)) /\ (held => PauseRespected(Rechosen(choice)))
         /\ Rechosen(choice) \in Executions
         /\ Rechosen(choice).status = exec.status /\ Rechosen(choice).pending = exec.pending
         /\ Rechosen(choice).reason = exec.reason
<1> DEFINE e == Rechosen(choice)
<1>1. /\ e \in Executions /\ e.completed = exec.completed /\ e.active = exec.active
      /\ e.status = exec.status /\ e.pending = exec.pending /\ e.attempts = exec.attempts
      /\ e.reason = exec.reason
  BY RecordType DEF Rechosen, Executions
<1> HIDE DEF e
<1>2. PatchOK(e)
  BY <1>1, SamePatch DEF PatchOK, StartPending
<1>3. held => PauseRespected(e)
  BY <1>1, SamePatch DEF PauseRespected
<1> QED
  BY <1>1, <1>2, <1>3 DEF e

(* interrupt() leaves a paused execution paused, or being stopped.         *)
LEMMA InterruptedPatch ==
  ASSUME IndInv, exec.status \notin Terminal, NEW choice \in [Stages -> Models],
         NEW reason \in {"PAUSE", "OVERRIDE"}
  PROVE  LET f == Interrupted(Rechosen(choice), reason) IN
         /\ PatchOK(f)
         /\ reason = "PAUSE" \/ (~StartPending /\ exec.status = "PAUSED") => PauseRespected(f)
<1> DEFINE e == Rechosen(choice)
           f == Interrupted(e, reason)
<1>1. /\ e \in Executions /\ e.completed = exec.completed /\ e.active = exec.active
      /\ e.status = exec.status /\ e.pending = exec.pending /\ e.attempts = exec.attempts
      /\ e.reason = exec.reason /\ e.interrupt = exec.interrupt
  BY RecordType DEF Rechosen, Executions
<1>2. exec.status # "COMPLETED" /\ exec.pending.turn \in Nat
  BY RecordType DEF Terminal, Commands
<1> HIDE DEF e
<1>3. CASE ~StartPending
  <2> DEFINE s == IF reason = "PAUSE" \/ e.status = "PAUSED" THEN "PAUSED" ELSE "RESUMING_STAGE"
  <2>1. f = [Released(e) EXCEPT !.status = s]
    BY <1>1, <1>3 DEF Interrupted, Withdrawn, StartPending
  <2>2. s \in Statuses \ {"COMPLETED"}
    BY DEF Statuses, Runnable
  <2>3. reason = "PAUSE" \/ exec.status = "PAUSED" => s = "PAUSED"
    BY <1>1
  <2> HIDE DEF s, f
  <2>4. /\ Released(e) \in Executions /\ Released(e).completed = exec.completed
        /\ Released(e).active = exec.active /\ Released(e).attempts = exec.attempts
        /\ Released(e).pending.type = "NONE"
    BY <1>1, NothingPending DEF Released, Executions, NoCommand
  <2>5. PatchOK(f) /\ f.status = s
    BY <1>2, <2>1, <2>2, <2>4, RecordType DEF PatchOK, Executions, NAttempts
  <2>6. reason = "PAUSE" \/ exec.status = "PAUSED" => PauseRespected(f)
    BY <2>3, <2>5 DEF PauseRespected, Runnable
  <2> QED
    BY <1>3, <2>5, <2>6 DEF f, e
<1>4. CASE StartPending
  <2> DEFINE i == IF e.interrupt.turn = 0 THEN [NoInterrupt EXCEPT !.turn = e.pending.turn] ELSE e.interrupt
  <2>1. f = [e EXCEPT !.reason = reason, !.status = "SWITCHING_MODEL", !.interrupt = i]
    BY <1>1, <1>4 DEF Interrupted, ToInterrupt, StartPending, Executions
  <2>2. i \in Interrupts
    BY <1>1, <1>2, NothingPending, RecordType DEF Interrupts, NoInterrupt
  <2> HIDE DEF i, f
  <2>3. /\ f \in Executions /\ f.completed = exec.completed /\ f.active = exec.active
        /\ f.attempts = exec.attempts /\ f.pending = exec.pending
        /\ f.status = "SWITCHING_MODEL" /\ f.reason = reason
    BY <1>1, <2>1, <2>2 DEF Executions, Statuses, Runnable
  <2>4. PatchOK(f)
    BY <1>2, <1>4, <2>3, RecordType DEF PatchOK, NAttempts
  <2>5. reason = "PAUSE" => PauseRespected(f)
    BY <1>4, <2>3 DEF PauseRespected, StartPending
  <2> QED
    BY <1>4, <2>4, <2>5 DEF f, e
<1> QED
  BY <1>3, <1>4

(* pause. *)
LEMMA PauseKeeps ==
  ASSUME IndInv, Pause
  PROVE  IndInv'
<1>1. Rechosen(exec.choice) = exec /\ exec.choice \in [Stages -> Models]
  BY RecordType DEF Rechosen, Executions
<1>2. exec.status \notin Terminal /\ Request(Interrupted(exec, "PAUSE"), TRUE)
  BY DEF Pause, Request
<1>3. PatchOK(Interrupted(exec, "PAUSE")) /\ PauseRespected(Interrupted(exec, "PAUSE"))
  BY <1>1, <1>2, InterruptedPatch
<1> QED
  BY <1>2, <1>3, RequestKeeps

(* resume. *)
LEMMA ResumeKeeps ==
  ASSUME IndInv, Resume
  PROVE  IndInv'
<1> DEFINE e == [exec EXCEPT !.status = "RESUMING_STAGE"]
<1>1. Request(e, FALSE) /\ ~StartPending /\ exec.status # "COMPLETED"
  BY DEF Resume, CanResume
<1>2. PatchOK(e)
  BY <1>1, RecordType DEF PatchOK, Executions, NAttempts, Statuses, Runnable, StartPending
<1> HIDE DEF e
<1> QED
  BY <1>1, <1>2, RequestKeeps

(* override of a stage's model. *)
LEMMA OverrideKeeps ==
  ASSUME IndInv, NEW s \in Stages, NEW m \in Models, Override(s, m)
  PROVE  IndInv'
<1> DEFINE choice == [exec.choice EXCEPT ![s] = m]
           reason == IF exec.reason = "PAUSE" THEN "PAUSE" ELSE "OVERRIDE"
           e == Rechosen(choice)
<1>1. choice \in [Stages -> Models]
  BY RecordType
<1>2. [exec EXCEPT !.choice[s] = m] = e
  BY DEF Rechosen
<1>3. held \in BOOLEAN /\ reason \in {"PAUSE", "OVERRIDE"}
  BY DEF IndInv, TypeOK
<1>4. e.reason = exec.reason
  BY <1>1, RechosenPatch
<1> HIDE DEF choice
<1>5. CASE s = exec.active /\ exec.status # "BLOCKED"
  <2>1. Request(Interrupted(e, reason), held) /\ exec.status \notin Terminal
    BY <1>2, <1>5, <1>4 DEF Override, Request
  <2>2. held => reason = "PAUSE" \/ (~StartPending /\ exec.status = "PAUSED")
    BY <1>5, <2>1, RecordType DEF IndInv, PauseKept, PauseRespected, RestReleased, StartPending, Statuses, Terminal
  <2> HIDE DEF e, reason
  <2>3. PatchOK(Interrupted(e, reason)) /\ (held => PauseRespected(Interrupted(e, reason)))
    BY <1>1, <1>3, <2>1, <2>2, InterruptedPatch DEF e
  <2> QED
    BY <1>3, <2>1, <2>3, RequestKeeps
<1>6. CASE ~(s = exec.active /\ exec.status # "BLOCKED")
  <2>1. Request(e, held)
    BY <1>2, <1>6 DEF Override
  <2>2. PatchOK(e) /\ (held => PauseRespected(e))
    BY <1>1, RechosenPatch
  <2> QED
    BY <1>3, <2>1, <2>2, RequestKeeps
<1> QED
  BY <1>5, <1>6

-----------------------------------------------------------------------------
(* The agent and its users *)

(* A step of the agent that keeps to the STARTs it has.                    *)
LEMMA AgentKeeps ==
  ASSUME IndInv, UNCHANGED <<fenceVars, exec, at, mem, histVars>>, stopping' \in BOOLEAN,
         wire' \subseteq wire, native' \in Threads, KnownTurns(native'), proven \subseteq proven',
         proven' \subseteq Stages, ClosedProven(native)', HasTurn(native)'
  PROVE  IndInv'
<1>1. /\ exec' = exec /\ at' = at /\ mem' = mem /\ held' = held /\ left' = left
      /\ UNCHANGED fenceVars /\ fresh' = fresh
  BY DEF histVars, fenceVars
<1>2. exec' \in Executions /\ NAttempts' = NAttempts /\ NAttempts \in Nat
  BY <1>1, RecordType DEF NAttempts
<1>3. StagesInOrder' /\ PendingStage' /\ RestReleased' /\ PauseKept' /\ AttemptsGrow
  BY <1>1, <1>2
     DEF IndInv, StagesInOrder, PendingStage, StartPending, RestReleased, PauseKept, PauseRespected,
         AttemptsGrow
<1>4. KnownTurns(native)'
  BY <1>2 DEF KnownTurns
<1>5. /\ mem' \in [Workers -> Memories] /\ left' \in [requests : Nat, faults : Nat]
      /\ held' \in BOOLEAN /\ wire' \subseteq 1..NAttempts'
  BY <1>1, <1>2 DEF IndInv, TypeOK, KnownIds
<1> QED
  BY <1>1, <1>2, <1>3, <1>4, <1>5, OthersKeep

(* What the invariant says of the thread. *)
LEMMA ThreadType ==
  ASSUME IndInv
  PROVE  /\ native \in Threads /\ Len(native.turns) \in Nat /\ DOMAIN native.turns = 1..Len(native.turns)
         /\ KnownTurns(native) /\ ClosedProven(native) /\ NAttempts \in Nat
         /\ Busy(native) => Current \in 0..NAttempts
         /\ wire \subseteq 1..NAttempts /\ stopping \in BOOLEAN /\ proven \subseteq Stages
<1>1. native \in Threads /\ stopping \in BOOLEAN /\ proven \subseteq Stages
  BY DEF IndInv, TypeOK
<1>2. Len(native.turns) \in Nat /\ DOMAIN native.turns = 1..Len(native.turns)
  BY <1>1 DEF Threads
<1>3. /\ KnownTurns(native) /\ ClosedProven(native) /\ wire \subseteq 1..NAttempts
      /\ Busy(native) => Len(native.turns) > 0
  BY DEF IndInv, KnownIds, HasTurn
<1>4. Busy(native) => Current \in 0..NAttempts
  BY <1>2, <1>3 DEF KnownTurns, Current
<1> QED
  BY <1>1, <1>2, <1>3, <1>4, RecordType

(* A thread that is running a turn more than before.                       *)
LEMMA TurnBegins ==
  ASSUME IndInv, NEW k \in 0..NAttempts,
         native' = [turns |-> Append(native.turns, k), last |-> "inProgress", solo |-> TRUE]
  PROVE  native' \in Threads /\ KnownTurns(native') /\ ClosedProven(native)' /\ HasTurn(native)'
<1> DEFINE turns == Append(native.turns, k)
<1>1. native.turns \in Seq(Nat) /\ k \in Nat
  BY ThreadType DEF Threads
<1>2. /\ turns \in Seq(Nat) /\ Len(turns) = Len(native.turns) + 1
      /\ \A i \in 1..Len(native.turns) : turns[i] = native.turns[i]
      /\ turns[Len(native.turns) + 1] = k
  BY <1>1
<1>3. \A i \in 1..Len(turns) : turns[i] \in 0..NAttempts
  BY <1>2, ThreadType DEF KnownTurns
<1> HIDE DEF turns
<1>4. native'.turns = turns /\ native'.last = "inProgress" /\ native' \in Threads
  BY <1>2 DEF turns, Threads, LastStates
<1> QED
  BY <1>2, <1>3, <1>4, ThreadType DEF KnownTurns, ClosedProven, HasTurn

(* A request starts a turn, or joins one. *)
LEMMA NativeAcceptKeeps ==
  ASSUME IndInv, NEW k, NativeAccept(k)
  PROVE  IndInv'
<1>1. /\ k \in 1..NAttempts /\ wire' \subseteq wire /\ stopping' = stopping /\ proven' = proven
      /\ UNCHANGED <<fenceVars, exec, at, mem, histVars>>
  BY ThreadType DEF NativeAccept
<1>2. native' \in Threads /\ KnownTurns(native') /\ ClosedProven(native)' /\ HasTurn(native)'
  <2>1. CASE ~Busy(native)
    <3>1. native' = [turns |-> Append(native.turns, k), last |-> "inProgress", solo |-> TRUE]
      BY <2>1 DEF NativeAccept
    <3>2. k \in 0..NAttempts
      BY <1>1, ThreadType
    <3> QED
      BY <3>1, <3>2, TurnBegins
  <2>2. CASE Busy(native)
    <3> DEFINE n == Len(native.turns)
               turns == [native.turns EXCEPT ![n] = k]
    <3>1. n \in 1..n
      BY <2>2, ThreadType DEF IndInv, KnownIds, HasTurn
    <3>2. turns \in Seq(Nat) /\ Len(turns) = n /\ \A i \in 1..n : turns[i] \in 0..NAttempts
      BY <1>1, <3>1, ThreadType DEF Threads, KnownTurns
    <3>3. native' = [native EXCEPT !.turns = turns, !.solo = FALSE]
      BY <2>2 DEF NativeAccept
    <3> HIDE DEF turns
    <3>4. native' \in Threads /\ native'.turns = turns /\ native'.last = "inProgress"
      BY <2>2, <3>2, <3>3, ThreadType DEF Threads, Busy
    <3> QED
      BY <3>1, <3>2, <3>4, ThreadType DEF KnownTurns, ClosedProven, HasTurn
  <2> QED
    BY <2>1, <2>2
<1> QED
  BY <1>1, <1>2, ThreadType, AgentKeeps

(* A request is lost. *)
LEMMA NativeLoseKeeps ==
  ASSUME IndInv, NEW k, NativeLose(k)
  PROVE  IndInv'
<1>1. /\ wire' \subseteq wire /\ stopping' = stopping /\ proven' = proven /\ native' = native
      /\ UNCHANGED <<fenceVars, exec, at, mem, histVars>>
  BY DEF NativeLose
<1>2. exec' = exec
  BY <1>1
<1>3. KnownTurns(native') /\ ClosedProven(native)' /\ HasTurn(native)'
  BY <1>1, <1>2 DEF IndInv, KnownIds, KnownTurns, ClosedProven, HasTurn, Busy
<1> QED
  BY <1>1, <1>3, ThreadType, AgentKeeps

(* A turn ends; COMPLETED with its own message only proves its stage. *)
LEMMA NativeCloseKeeps ==
  ASSUME IndInv, NativeClose
  PROVE  IndInv'
<1>1. PICK outcome \in Outcomes \cup {"closed"} :
        /\ outcome # "closed" => Current # 0
        /\ Current = 0 => outcome = "closed"
        /\ native' = [native EXCEPT !.last = outcome]
        /\ proven' = IF outcome = "COMPLETED" /\ native.solo
                     THEN proven \cup {exec.attempts[Current].stage} ELSE proven
  BY DEF NativeClose, Outcomes
<1>2. /\ Busy(native) /\ stopping' = FALSE /\ wire' = wire
      /\ UNCHANGED <<fenceVars, exec, at, mem, histVars>> /\ exec' = exec
  BY DEF NativeClose
<1>3. Current \in 0..NAttempts
  BY <1>2, ThreadType
<1>4. /\ native' \in Threads /\ native'.turns = native.turns /\ native'.last = outcome
      /\ native'.solo = native.solo
  BY <1>1, ThreadType DEF Threads, LastStates
<1>5. proven \subseteq proven' /\ proven' \subseteq Stages
  <2>1. CASE outcome = "COMPLETED"
    <3>1. Current \in 1..NAttempts
      BY <1>1, <1>3, <2>1, ThreadType
    <3>2. exec.attempts[Current] \in Attempts
      BY <3>1, RecordType DEF NAttempts
    <3>3. exec.attempts[Current].stage \in Stages
      BY <3>2 DEF Attempts
    <3> QED
      BY <1>1, <3>3, ThreadType
  <2>2. CASE outcome # "COMPLETED"
    BY <1>1, <2>2, ThreadType
  <2> QED
    BY <2>1, <2>2
<1>6. ClosedProven(native)'
  <2> SUFFICES ASSUME outcome = "COMPLETED", native.solo
               PROVE  exec.attempts[Current].stage \in proven'
    BY <1>2, <1>4 DEF ClosedProven, Current
  <2> QED
    BY <1>1
<1>7. KnownTurns(native') /\ HasTurn(native)'
  BY <1>1, <1>4, ThreadType DEF KnownTurns, HasTurn, Busy, Outcomes
<1> QED
  BY <1>2, <1>4, <1>5, <1>6, <1>7, AgentKeeps

(* Users start turns and add to running ones. *)
LEMMA UserKeeps ==
  ASSUME IndInv, UserTurn \/ UserSteer
  PROVE  IndInv'
<1>1. /\ wire' = wire /\ stopping' = stopping /\ proven' = proven
      /\ UNCHANGED <<fenceVars, exec, at, mem, histVars>> /\ exec' = exec
  BY DEF UserTurn, UserSteer
<1>2. native' \in Threads /\ KnownTurns(native') /\ ClosedProven(native)' /\ HasTurn(native)'
  <2>1. CASE UserTurn
    <3>1. native' = [turns |-> Append(native.turns, 0), last |-> "inProgress", solo |-> TRUE]
      BY <2>1 DEF UserTurn
    <3>2. 0 \in 0..NAttempts
      BY ThreadType
    <3> QED
      BY <3>1, <3>2, TurnBegins
  <2>2. CASE UserSteer
    <3>1. Busy(native) /\ native' = [native EXCEPT !.solo = FALSE]
      BY <2>2 DEF UserSteer
    <3>2. native' \in Threads /\ native'.turns = native.turns /\ native'.last = "inProgress"
      BY <3>1, ThreadType DEF Threads, Busy
    <3> QED
      BY <3>1, <3>2, ThreadType DEF KnownTurns, ClosedProven, HasTurn, IndInv, KnownIds
  <2> QED
    BY <2>1, <2>2
<1> QED
  BY <1>1, <1>2, ThreadType, AgentKeeps

-----------------------------------------------------------------------------
(* The theorems *)

(* Every step keeps the invariant. *)
LEMMA ContinueKeeps ==
  ASSUME IndInv, NEW w \in Workers, Continue(w)
  PROVE  IndInv'
BY AdvanceKeeps, WaitKeeps, ReadThreadKeeps, SettleKeeps, NoteAcknowledgementKeeps,
   NoteAcceptanceKeeps, InconsistentKeeps, WatchKeeps, PrepareInterruptKeeps, BeginInterruptKeeps,
   ArmInterruptKeeps, InterruptAcknowledgedKeeps, InterruptUncertainKeeps, SaveAcknowledgementKeeps,
   AwaitClosureKeeps, StoppedKeeps, InsufficientKeeps, SufficientKeeps, ExhaustedKeeps,
   ModelUnavailableKeeps, PrepareSettingsKeeps, SettingsMoveKeeps, RetrySettingsKeeps,
   SettingsRejectedKeeps, SettingsUncertainKeeps, ConfirmSettingsKeeps, PrepareStartKeeps,
   ArmStartKeeps, SendStartKeeps, NotSentKeeps, RejectedKeeps, RespondedKeeps, SaveStartedKeeps,
   UncertainKeeps, ConflictKeeps, FinishKeeps
   DEF Continue

(* Every step of the system keeps the invariant. *)
LEMMA NextKeeps == IndInv /\ [Next]_vars => IndInv'
<1> SUFFICES ASSUME IndInv, [Next]_vars PROVE IndInv'
  OBVIOUS
<1>1. ASSUME NEW w \in Workers, Continue(w) PROVE IndInv'
  BY <1>1, ContinueKeeps
<1>2. ASSUME NEW w \in Workers, Disturb(w) PROVE IndInv'
  BY <1>2, InconsistentKeeps, AbandonKeeps, CrashKeeps, NotifyKeeps DEF Disturb
<1>3. CASE Lapse
  BY <1>3, LapseKeeps
<1>4. CASE Operator
  BY <1>4, PauseKeeps, ResumeKeeps, OverrideKeeps DEF Operator
<1>5. CASE Agent
  BY <1>5, NativeAcceptKeeps, NativeLoseKeeps, NativeCloseKeeps, UserKeeps DEF Agent
<1>6. CASE UNCHANGED vars
  <2>1. UNCHANGED <<exec, at, envVars, held>> /\ UNCHANGED fenceVars /\ mem' = mem /\ left' = left
        /\ fresh' = fresh
    BY <1>6 DEF vars, envVars, fenceVars
  <2>2. mem' \in [Workers -> Memories] /\ left' \in [requests : Nat, faults : Nat]
    BY <2>1 DEF IndInv, TypeOK
  <2> QED
    BY <2>1, <2>2, AsideKeeps
<1> QED
  BY <1>1, <1>2, <1>3, <1>4, <1>5, <1>6 DEF Next

(* The inductive invariant holds in every reachable state. *)
THEOREM Invariance == Spec => []IndInv
BY InitInv, NextKeeps, PTL DEF Spec

(* Every variable stays in its domain, whatever happens to the controllers *)
(* of an execution.                                                        *)
THEOREM TypeCorrect == Spec => []TypeOK
<1>1. IndInv => TypeOK
  BY DEF IndInv
<1> QED
  BY <1>1, Invariance, PTL

(* A stage is recorded as completed only after a turn of that very stage,  *)
(* with no other message in it, ended COMPLETED; in order, none twice, and *)
(* the execution completes with the last: the branch of advance() that     *)
(* appends to completedStageIds, under every interleaving, crash, pause    *)
(* and user turn.                                                          *)
THEOREM CompletionIsProven == Spec => []CompletionProven
<1>1. IndInv => CompletionProven
  <2> SUFFICES ASSUME IndInv PROVE CompletionProven
    OBVIOUS
  <2>1. DOMAIN exec.completed = 1..Len(exec.completed)
    BY RecordType
  <2> QED
    BY <2>1 DEF IndInv, StagesInOrder, CompletionProven
<1> QED
  BY <1>1, Invariance, PTL

-----------------------------------------------------------------------------
(* Who makes attempts *)

(* The steps that leave the attempts alone. *)
LEMMA NoAttempt ==
  ASSUME IndInv, NEW w \in Workers,
         \/ NoteAcknowledgement(w) \/ Inconsistent(w) \/ Watch(w) \/ PrepareInterrupt(w)
         \/ ArmInterrupt(w) \/ SaveAcknowledgement(w) \/ AwaitClosure(w) \/ Unverifiable(w)
         \/ Exhausted(w) \/ ModelUnavailable(w) \/ PrepareSettings(w) \/ StaleIntent(w)
         \/ RetrySettings(w) \/ SettingsRejected(w) \/ SettingsUncertain(w) \/ ConfirmSettings(w)
         \/ Uncertain(w) \/ InspectionFails(w)
  PROVE  exec'.attempts = exec.attempts
<1>1. exec \in Executions
  BY RecordType
<1>2. CASE \/ NoteAcknowledgement(w) \/ Inconsistent(w) \/ PrepareInterrupt(w) \/ ArmInterrupt(w)
           \/ SaveAcknowledgement(w) \/ Unverifiable(w) \/ Exhausted(w) \/ ModelUnavailable(w)
  BY <1>1, <1>2
     DEF NoteAcknowledgement, Inconsistent, PrepareInterrupt, ArmInterrupt, SaveAcknowledgement,
         Unverifiable, Exhausted, ModelUnavailable, SaveAndReturn, Save, Executions
<1>3. CASE Watch(w) \/ AwaitClosure(w)
  BY <1>1, <1>3 DEF Watch, AwaitClosure, Save, Executions
<1>4. CASE \/ PrepareSettings(w) \/ StaleIntent(w) \/ RetrySettings(w) \/ SettingsRejected(w)
           \/ SettingsUncertain(w) \/ ConfirmSettings(w) \/ Uncertain(w) \/ InspectionFails(w)
  BY <1>1, <1>4
     DEF PrepareSettings, StaleIntent, RetrySettings, SettingsRejected, SettingsUncertain,
         ConfirmSettings, Uncertain, InspectionFails, SaveAndReturn, Save, Executions
<1> QED
  BY <1>2, <1>3, <1>4

(* The steps that give the pending START's attempt another status.         *)
LEMMA SameAttempts ==
  ASSUME IndInv, NEW w \in Workers,
         \/ Settle(w) \/ NoteAcceptance(w) \/ Stopped(w) \/ Insufficient(w) \/ Sufficient(w)
         \/ SaveStarted(w)
  PROVE  NAttempts' = NAttempts
<1>1. exec \in Executions /\ Released(exec) \in Executions
  BY RecordType, NothingPending DEF Released, Executions
<1>2. \A status \in AttemptStatuses : Len(Attempted(exec, status)) = NAttempts
  BY AttemptedType
<1>3. CASE NoteAcceptance(w)
  <2>1. exec'.attempts = [Attempted(exec, "RUNNING") EXCEPT ![exec.pending.id].verified = Verified(w)]
    BY <1>1, <1>3 DEF NoteAcceptance, Save, Executions
  <2>2. Attempted(exec, "RUNNING") \in Seq(Attempts)
    BY AttemptedType DEF AttemptStatuses
  <2>3. Len(exec'.attempts) = Len(Attempted(exec, "RUNNING"))
    BY <2>1, <2>2
  <2> QED
    BY <1>2, <2>3 DEF NAttempts, AttemptStatuses
<1>4. CASE \/ Settle(w) \/ Stopped(w) \/ Insufficient(w) \/ Sufficient(w) \/ SaveStarted(w)
  <2>1. \E status \in AttemptStatuses : exec'.attempts = Attempted(exec, status)
    <3>1. CASE Settle(w)
      BY <1>1, <3>1 DEF Settle, Save, Unaccepted, Executions, AttemptStatuses
    <3>2. CASE Stopped(w)
      BY <1>1, <3>2 DEF Stopped, SaveAndReturn, Save, Executions, AttemptStatuses
    <3>3. CASE Insufficient(w)
      BY <1>1, <3>3 DEF Insufficient, SaveAndReturn, Save, Executions, AttemptStatuses
    <3>4. CASE Sufficient(w)
      BY <1>1, <3>4 DEF Sufficient, SaveAndReturn, Save, Executions, AttemptStatuses
    <3>5. CASE SaveStarted(w)
      BY <1>1, <3>5 DEF SaveStarted, SaveAndReturn, Save, Executions, AttemptStatuses
    <3> QED
      BY <1>4, <3>1, <3>2, <3>3, <3>4, <3>5
  <2> QED
    BY <1>2, <2>1 DEF NAttempts
<1> QED
  BY <1>3, <1>4

(* A request of an operator leaves the attempts alone. *)
LEMMA RequestAttempts ==
  ASSUME IndInv, Operator
  PROVE  exec'.attempts = exec.attempts
<1>1. exec \in Executions
  BY RecordType
<1>2. ASSUME NEW e \in Executions, NEW reason
      PROVE  Interrupted(e, reason).attempts = e.attempts
  <2>1. Withdrawn(e, reason).attempts = e.attempts
    BY <1>2 DEF Withdrawn, Released, Executions
  <2>2. ToInterrupt(e, reason).attempts = e.attempts
    BY <1>2 DEF ToInterrupt, Executions
  <2> QED
    BY <2>1, <2>2 DEF Interrupted
<1>3. CASE Pause
  BY <1>1, <1>2, <1>3 DEF Pause, Request
<1>4. CASE Resume
  BY <1>1, <1>4 DEF Resume, Request, Executions
<1>5. ASSUME NEW s \in Stages, NEW m \in Models, Override(s, m)
      PROVE  exec'.attempts = exec.attempts
  <2> DEFINE e == [exec EXCEPT !.choice = [exec.choice EXCEPT ![s] = m]]
  <2>1. [exec EXCEPT !.choice[s] = m] = e
    OBVIOUS
  <2>2. e \in Executions /\ e.attempts = exec.attempts
    BY <1>1 DEF Executions
  <2>3. exec' \in {e, Interrupted(e, "PAUSE"), Interrupted(e, "OVERRIDE")}
    BY <1>5, <2>1 DEF Override, Request
  <2> HIDE DEF e
  <2> QED
    BY <1>2, <2>2, <2>3
<1> QED
  BY <1>3, <1>4, <1>5 DEF Operator

(* Only PrepareStart makes an attempt, and it finds the execution unheld.  *)
LEMMA HeldMakesNone ==
  ASSUME IndInv, [Next]_vars, held
  PROVE  NAttempts' = NAttempts
<1>1. ASSUME NEW w \in Workers, Continue(w) PROVE NAttempts' = NAttempts
  <2>1. CASE PrepareStart(w)
    BY <2>1, PrepareStartKeeps
  <2>2. CASE exec' = exec
    BY <2>2 DEF NAttempts
  <2>3. \/ Advance(w) \/ RetryLater(w) \/ ReadThread(w) \/ BeginInterrupt(w) \/ DropInterrupt(w)
        \/ InterruptAcknowledged(w) \/ InterruptUncertain(w) \/ UserOwned(w) \/ ReuseSettings(w)
        \/ SettingsInPlace(w) \/ SendSettings(w) \/ SettingsAcknowledged(w)
        \/ ArmStart(w) \/ SendStart(w) \/ NotSent(w) \/ Rejected(w) \/ Responded(w)
        \/ Conflict(w) \/ Finish(w)
        => exec' = exec
    BY DEF Advance, RetryLater, ReadThread, BeginInterrupt, DropInterrupt, InterruptAcknowledged,
           InterruptUncertain, UserOwned, ReuseSettings, SettingsInPlace, SendSettings,
           SettingsAcknowledged, ArmStart, SendStart, NotSent, Rejected, Responded, Conflict, Finish,
           Return, Local
  <2> QED
    BY <1>1, <2>1, <2>2, <2>3, NoAttempt, SameAttempts DEF Continue, NAttempts
<1>2. ASSUME NEW w \in Workers, Disturb(w) PROVE NAttempts' = NAttempts
  <2>1. Abandon(w) \/ FinishUnread(w) \/ Crash(w) \/ Notify(w) \/ LoseContinuity(w) => exec' = exec
    BY DEF Abandon, FinishUnread, Crash, Notify, LoseContinuity
  <2> QED
    BY <1>2, <2>1, NoAttempt DEF Disturb, NAttempts
<1>3. CASE Operator
  BY <1>3, RequestAttempts DEF NAttempts
<1>4. CASE Lapse \/ Agent \/ UNCHANGED vars
  <2>1. exec' = exec
    BY <1>4 DEF Lapse, Agent, NativeClose, UserTurn, UserSteer, NativeAccept, NativeLose, vars
  <2> QED
    BY <2>1 DEF NAttempts
<1> QED
  BY <1>1, <1>2, <1>3, <1>4 DEF Next

(* From an accepted pause to the next resume no attempt is made: a         *)
(* controller that was about to prepare a START when the pause was saved,  *)
(* or that comes to the execution afterwards, finds its copy stale or the  *)
(* execution at rest, through overrides, refusals, failures and crashes.   *)
THEOREM PausesHold == Spec => PauseHolds
<1>1. IndInv /\ [Next]_vars => [held /\ held' => Len(exec'.attempts) = Len(exec.attempts)]_vars
  BY HeldMakesNone DEF NAttempts
<1> QED
  BY <1>1, Invariance, PTL DEF Spec, PauseHolds
=============================================================================
