------------------------- MODULE PlanCommandsProofs -------------------------
(***************************************************************************)
(* PlanExecution and its START commands, for any number of controllers,    *)
(* stages, attempts, requests, user turns and faults: at most one is       *)
(* outstanding, a resting execution has none, stages keep to their budget  *)
(* and their model, an interrupt stops its own turn, and all of it keeps   *)
(* the promise of StageCommands.                                           *)
(***************************************************************************)
EXTENDS PlanExecutionProofs, FiniteSetTheorems

-----------------------------------------------------------------------------
(* The inductive invariant *)

(* A controller on its way to the send. *)
Launching(w) == at[w].pc \in {"starting", "armed"}

(* START k is a turn, or part of one. *)
Took(k) == \E i \in 1..Len(native.turns) : native.turns[i] = k

(* START k is not a turn and never will be. *)
NeverRuns(k) == k \notin wire /\ ~Took(k) /\ \A w \in Workers : Launching(w) => at[w].id # k

(* A request on its way to the agent is the pending START, not yet taken. *)
WirePending == \A k \in wire : StartPending /\ k = exec.pending.id /\ ~Took(k)

(* One controller at most is about to send, and what it sends is the       *)
(* pending START, not sent before.                                         *)
LaunchPending ==
  /\ \A w \in Workers : Launching(w) =>
       StartPending /\ at[w].id = exec.pending.id /\ at[w].id \notin wire /\ ~Took(at[w].id)
  /\ \A v, w \in Workers : Launching(v) /\ Launching(w) => v = w

(* A running turn of the agent's own is the pending START's. *)
RunsPending == Busy(native) /\ Current # 0 => StartPending /\ Current = exec.pending.id

(* The agent takes up a START once. *)
TakenOnce ==
  \A i, j \in 1..Len(native.turns) : native.turns[i] = native.turns[j] => i = j \/ native.turns[i] = 0

(* A receipt tells the truth: what was refused or not sent never runs. *)
ReceiptsTrue ==
  \A w \in Workers : mem[w].receipt # "none" =>
    mem[w].cmd \in 1..NAttempts /\ NeverRuns(mem[w].cmd)

(* What a controller saw of the thread is still there: its turns have not  *)
(* changed hands, and one it saw closed has not gone on.                   *)
PartOf(t) ==
  /\ Len(t.turns) <= Len(native.turns)
  /\ \A i \in 1..Len(t.turns) : t.turns[i] # 0 => native.turns[i] = t.turns[i]
  /\ Len(t.turns) = Len(native.turns) /\ Busy(native) => Busy(t)

SeenKept == \A w \in Workers : PartOf(at[w].seen)

(* Turn i is the pending START's. *)
OwnTurn(i) == StartPending /\ i \in 1..Len(native.turns) /\ native.turns[i] = exec.pending.id

(* The turns the record names are those of its START. *)
NamesOwnTurns ==
  /\ exec.pending.id # 0 <=> StartPending
  /\ exec.pending.turn # 0 => OwnTurn(exec.pending.turn)
  /\ exec.interrupt.turn # 0 => OwnTurn(exec.interrupt.turn)

(* What a controller with a current copy knows of the pending command. *)
SettingsFit(e) ==
  /\ e.pending.type = "SETTINGS"
  /\ e.pending.stage = e.active
  /\ e.pending.sel = e.choice[e.active]
  /\ StageAttempts(e, e.active) < MaxStageAttempts

AfterStart == {"starting", "armed", "await", "started", "settling"}

FreshKnows ==
  \A w \in fresh :
    /\ at[w].pc \in BeforeStart => SettingsFit(exec)
    /\ at[w].pc \in AfterStart => StartPending /\ at[w].id = exec.pending.id
    /\ at[w].pc = "started" => OwnTurn(at[w].turn)

(* A START carries the selection of its stage unless it is to be stopped. *)
ChoiceFits(e) ==
  e.pending.type = "START" =>
    /\ e.pending.stage = e.active
    /\ e.status \in Runnable /\ e.reason = "NONE" => e.pending.sel = e.choice[e.active]

(* Only the turn of a START that is to be stopped is being stopped, by     *)
(* the controller that holds the lease.                                    *)
StopsPending ==
  /\ stopping => Busy(native) /\ StartPending /\ Current = exec.pending.id /\ exec.reason # "NONE"
  /\ \A w \in Workers : holder = w /\ live /\ at[w].pc \in {"interrupt", "interrupting"} =>
       StartPending /\ at[w].id # 0 /\ at[w].id = exec.interrupt.turn /\ exec.reason # "NONE"

(* Every stage is within its budget. *)
WithinBudget == \A s \in Stages : StageAttempts(exec, s) <= MaxStageAttempts

CommandInv ==
  /\ WirePending /\ LaunchPending /\ RunsPending /\ TakenOnce
  /\ ReceiptsTrue
  /\ SeenKept
  /\ NamesOwnTurns
  /\ FreshKnows
  /\ ChoiceFits(exec)
  /\ StopsPending
  /\ WithinBudget

-----------------------------------------------------------------------------
(* The initial state *)

(* The invariant holds of a new execution. *)
LEMMA CommandInit == Init => CommandInv
<1> SUFFICES ASSUME Init PROVE CommandInv
  OBVIOUS
<1>1. /\ exec.pending.type = "NONE" /\ exec.pending.id = 0 /\ exec.pending.turn = 0
      /\ exec.interrupt.turn = 0 /\ exec.attempts = <<>>
  BY DEF Init, NewPlanExecution, NoCommand, NoInterrupt
<1>2. /\ native = NoThread /\ wire = {} /\ stopping = FALSE /\ fresh = {}
      /\ \A w \in Workers : at[w] = Idle /\ mem[w] = NoMemory
  BY DEF Init, FenceInit
<1>3. WirePending /\ LaunchPending /\ RunsPending
  BY <1>2 DEF WirePending, LaunchPending, RunsPending, Launching, Idle, Busy, NoThread
<1>4. TakenOnce /\ SeenKept
  BY <1>2 DEF TakenOnce, SeenKept, PartOf, Busy, Idle, NoThread
<1>5. ReceiptsTrue /\ FreshKnows
  BY <1>2 DEF ReceiptsTrue, FreshKnows, NoMemory
<1>6. NamesOwnTurns /\ ChoiceFits(exec)
  BY <1>1 DEF NamesOwnTurns, ChoiceFits, StartPending
<1>7. StopsPending
  BY <1>2 DEF StopsPending, Idle
<1>8. WithinBudget
  <2> SUFFICES ASSUME NEW s \in Stages PROVE StageAttempts(exec, s) <= MaxStageAttempts
    BY DEF WithinBudget
  <2>1. {k \in DOMAIN exec.attempts : exec.attempts[k].stage = s} = {}
    BY <1>1
  <2>2. StageAttempts(exec, s) = 0
    BY <2>1, FS_EmptySet DEF StageAttempts
  <2> QED
    BY <2>2, PlanAssumption
<1> QED
  BY <1>3, <1>4, <1>5, <1>6, <1>7, <1>8 DEF CommandInv

-----------------------------------------------------------------------------
(* Steps of a controller *)

(* START k is neither on its way to the agent nor running there. *)
Over(k) ==
  /\ k \notin wire
  /\ \A v \in Workers : Launching(v) => at[v].id # k
  /\ ~(Busy(native) /\ Current = k)

(* The attempts of a stage are counted by their stages alone. *)
LEMMA SameCounts ==
  ASSUME IndInv, NEW e, e.attempts \in Seq(Attempts), Len(e.attempts) = NAttempts,
         \A k \in 1..NAttempts : e.attempts[k].stage = exec.attempts[k].stage
  PROVE  \A s \in Stages : StageAttempts(e, s) = StageAttempts(exec, s)
<1> TAKE s \in Stages
<1>1. DOMAIN e.attempts = 1..NAttempts /\ DOMAIN exec.attempts = 1..NAttempts
  BY RecordType
<1>2. {k \in DOMAIN e.attempts : e.attempts[k].stage = s}
      = {k \in DOMAIN exec.attempts : exec.attempts[k].stage = s}
  BY <1>1
<1> QED
  BY <1>2 DEF StageAttempts

(* They are counted at all.                                                *)
LEMMA CountType ==
  ASSUME NEW e, e.attempts \in Seq(Attempts), NEW s
  PROVE  /\ IsFiniteSet({k \in DOMAIN e.attempts : e.attempts[k].stage = s})
         /\ StageAttempts(e, s) \in Nat
<1> DEFINE A == {k \in DOMAIN e.attempts : e.attempts[k].stage = s}
           n == Len(e.attempts)
<1>1. n \in Nat /\ A \subseteq 1..n
  OBVIOUS
<1> HIDE DEF A, n
<1>2. IsFiniteSet(1..n)
  BY <1>1, FS_Interval
<1>3. IsFiniteSet(A)
  BY <1>1, <1>2, FS_Subset
<1>4. Cardinality(A) \in Nat
  BY <1>3, FS_CardinalityType
<1> QED
  BY <1>3, <1>4 DEF A, StageAttempts

(* A step of controller w that leaves a START pending unless it is over,   *)
(* and puts on the wire at most the START it was about to send, keeps the  *)
(* invariant.                                                              *)
LEMMA WorkerStep ==
  ASSUME IndInv, IndInv', CommandInv,
         NEW w \in Workers, NEW q \in Positions, NEW m \in Memories,
         at' = [at EXCEPT ![w] = q], mem' = [mem EXCEPT ![w] = m],
         native' = native,
         \A k \in wire' : k \in wire \/ (Launching(w) /\ k = at[w].id /\ exec' = exec
                            /\ \A v \in Workers : at'[v].pc \in {"starting", "armed"} => at'[v].id # k),
         fresh' \subseteq {w} \/ (exec' = exec /\ fresh' \subseteq fresh \cup {w}),
         \A v \in Workers \ {w} : holder' = v /\ live' => holder = v /\ live /\ exec' = exec,
         exec'.pending.type = "START" => StartPending /\ exec'.pending.id = exec.pending.id,
         exec'.pending.type # "START" /\ StartPending => Over(exec.pending.id),
         NamesOwnTurns', ChoiceFits(exec'), NAttempts' = NAttempts, AttemptsGrow,
         q.pc \in {"starting", "armed"} => Launching(w) /\ q.id = at[w].id,
         m.receipt # "none" =>
           /\ m.cmd \in 1..NAttempts /\ m.cmd \notin wire' /\ ~Took(m.cmd)
           /\ \A v \in Workers : at'[v].pc \in {"starting", "armed"} => at'[v].id # m.cmd,
         q.seen \in {NoThread, at[w].seen, native},
         w \in fresh' =>
           /\ q.pc \in BeforeStart => SettingsFit(exec')
           /\ q.pc \in AfterStart => exec'.pending.type = "START" /\ q.id = exec'.pending.id
           /\ q.pc = "started" => /\ q.turn \in 1..Len(native.turns)
                                  /\ native.turns[q.turn] = exec'.pending.id,
         stopping' => /\ Busy(native) /\ exec'.pending.type = "START"
                      /\ Current = exec'.pending.id /\ exec'.reason # "NONE",
         holder' = w /\ live' /\ q.pc \in {"interrupt", "interrupting"} =>
           /\ exec'.pending.type = "START" /\ q.id # 0
           /\ q.id = exec'.interrupt.turn /\ exec'.reason # "NONE"
  PROVE  CommandInv'
<1> USE DEF CommandInv
<1>1. at'[w] = q /\ \A v \in Workers \ {w} : at'[v] = at[v]
  BY DEF IndInv, TypeOK
<1>2. mem'[w] = m /\ \A v \in Workers \ {w} : mem'[v] = mem[v]
  BY DEF IndInv, TypeOK
<1>3. \A v \in Workers : Launching(v)' => Launching(v) /\ at'[v].id = at[v].id
  BY <1>1 DEF Launching
<1>4. ASSUME NEW k PROVE Took(k)' <=> Took(k)
  BY DEF Took
<1>5. WirePending'
  <2> SUFFICES ASSUME NEW k \in wire'
               PROVE  exec'.pending.type = "START" /\ k = exec'.pending.id /\ ~Took(k)'
    BY DEF WirePending, StartPending
  <2>1. StartPending /\ k = exec.pending.id /\ ~Took(k)
    BY DEF WirePending, LaunchPending
  <2> QED
    BY <1>4, <2>1 DEF Over, StartPending
<1>6. LaunchPending'
  <2>1. ASSUME NEW v \in Workers, Launching(v)'
        PROVE  /\ exec'.pending.type = "START" /\ at'[v].id = exec'.pending.id
               /\ at'[v].id \notin wire' /\ ~Took(at[v].id)'
    <3>1. Launching(v) /\ at'[v].id = at[v].id
      BY <1>3, <2>1
    <3>2. StartPending /\ at[v].id = exec.pending.id /\ at[v].id \notin wire /\ ~Took(at[v].id)
      BY <3>1 DEF LaunchPending
    <3>3. at'[v].id \notin wire'
      BY <2>1, <3>1, <3>2 DEF Launching
    <3> QED
      BY <3>1, <3>2, <3>3 DEF Over, Took
  <2>2. \A u, v \in Workers : Launching(u)' /\ Launching(v)' => u = v
    BY <1>3 DEF LaunchPending
  <2> QED
    BY <2>1, <2>2 DEF LaunchPending, StartPending
<1>7. RunsPending'
  BY DEF RunsPending, Over, StartPending, Busy, Current
<1>8. TakenOnce'
  BY DEF TakenOnce
<1>9. ReceiptsTrue'
  <2> SUFFICES ASSUME NEW v \in Workers, mem'[v].receipt # "none"
               PROVE  mem'[v].cmd \in 1..NAttempts' /\ NeverRuns(mem[v].cmd)'
    BY DEF ReceiptsTrue
  <2>1. CASE v = w
    BY <1>1, <1>2, <2>1 DEF NeverRuns, Took, Launching
  <2>2. CASE v # w
    <3>1. mem'[v] = mem[v] /\ mem[v].cmd \in 1..NAttempts /\ NeverRuns(mem[v].cmd)
      BY <1>2, <2>2 DEF ReceiptsTrue
    <3>2. mem[v].cmd \notin wire'
      BY <3>1 DEF NeverRuns
    <3> QED
      BY <1>3, <3>1, <3>2 DEF NeverRuns, Took
  <2> QED
    BY <2>1, <2>2
<1>10. SeenKept'
  <2>1. HasTurn(native) /\ native \in Threads
    BY DEF IndInv, TypeOK, KnownIds
  <2>2. PartOf(NoThread) /\ PartOf(native) /\ PartOf(at[w].seen)
    BY <2>1 DEF PartOf, NoThread, Busy, HasTurn, Threads, SeenKept
  <2>3. \A v \in Workers : at'[v].seen \in {NoThread, at[v].seen, native}
    BY <1>1
  <2>4. \A v \in Workers : PartOf(at'[v].seen)
    BY <2>2, <2>3 DEF SeenKept
  <2> QED
    BY <2>4 DEF SeenKept, PartOf, Busy
<1>11. FreshKnows'
  <2>1. \A v \in fresh' : v = w \/ (v \in fresh /\ at'[v] = at[v] /\ exec' = exec)
    BY <1>1 DEF IndInv, TypeOK, FenceTypeOK
  <2>2. w \in fresh' =>
           /\ at'[w].pc \in BeforeStart => SettingsFit(exec')
           /\ at'[w].pc \in AfterStart => StartPending' /\ at'[w].id = exec'.pending.id
           /\ at'[w].pc = "started" => OwnTurn(at[w].turn)'
    BY <1>1 DEF StartPending, OwnTurn, AfterStart
  <2>3. ASSUME NEW v \in fresh, at'[v] = at[v], exec' = exec
        PROVE  /\ at'[v].pc \in BeforeStart => SettingsFit(exec')
               /\ at'[v].pc \in AfterStart => StartPending' /\ at'[v].id = exec'.pending.id
               /\ at'[v].pc = "started" => OwnTurn(at[v].turn)'
    BY <2>3 DEF FreshKnows, OwnTurn, StartPending
  <2> QED
    BY <2>1, <2>2, <2>3 DEF FreshKnows
<1>12. StopsPending'
  <2>1. stopping' => /\ Busy(native)' /\ StartPending' /\ Current' = exec'.pending.id
                     /\ exec'.reason # "NONE"
    BY DEF Busy, Current, StartPending
  <2>2. ASSUME NEW v \in Workers, holder' = v, live', at'[v].pc \in {"interrupt", "interrupting"}
        PROVE  /\ StartPending' /\ at'[v].id # 0
               /\ at'[v].id = exec'.interrupt.turn /\ exec'.reason # "NONE"
    BY <1>1, <2>2 DEF StopsPending, StartPending
  <2> QED
    BY <2>1, <2>2 DEF StopsPending
<1>13. WithinBudget'
  <2>1. exec' \in Executions
    BY DEF IndInv, TypeOK
  <2>2. \A s \in Stages : StageAttempts(exec', s) = StageAttempts(exec, s)
    <3>1. exec'.attempts \in Seq(Attempts) /\ Len(exec'.attempts) = NAttempts
      BY <2>1 DEF Executions, NAttempts
    <3> QED
      BY <3>1, SameCounts DEF AttemptsGrow
  <2> QED
    BY <2>2 DEF WithinBudget
<1> QED
  BY <1>5, <1>6, <1>7, <1>8, <1>9, <1>10, <1>11, <1>12, <1>13

(* What the steps of a controller leave of another's lease. *)
LEMMA OtherLease ==
  ASSUME NEW w \in Workers,
         Claim(w) \/ Reclaim(w) \/ Write(w) \/ Release(w) \/ Die(w) \/ UNCHANGED fenceVars
  PROVE  \A v \in Workers \ {w} : holder' = v /\ live' => holder = v /\ live
BY NoWorkerAssumption DEF Claim, Reclaim, Write, Release, Die, fenceVars

(* A controller's saves are the only steps of its own that change the      *)
(* record, and they need the lease.                                        *)
LEMMA SavingLease ==
  ASSUME NEW w \in Workers, NEW e, Save(w, e)
  PROVE  /\ w \in fresh /\ fresh' = {w} /\ exec' = e /\ holder = w /\ live
         /\ \A v \in Workers \ {w} : ~(holder' = v /\ live')
BY DEF Save, Write, Valid

(* A step of controller w that leaves record and agent alone.              *)
LEMMA LocalStep ==
  ASSUME IndInv, IndInv', CommandInv,
         NEW w \in Workers, NEW q \in Positions, NEW m \in Memories,
         at' = [at EXCEPT ![w] = q], mem' = [mem EXCEPT ![w] = m],
         exec' = exec, native' = native, wire' = wire,
         fresh' \subseteq fresh \cup {w},
         \A v \in Workers \ {w} : holder' = v /\ live' => holder = v /\ live,
         q.pc \in {"starting", "armed"} => Launching(w) /\ q.id = at[w].id,
         m.receipt # "none" => m.cmd = mem[w].cmd /\ mem[w].receipt # "none",
         q.seen \in {NoThread, at[w].seen, native},
         w \in fresh' =>
           /\ q.pc \in BeforeStart => SettingsFit(exec)
           /\ q.pc \in AfterStart => StartPending /\ q.id = exec.pending.id
           /\ q.pc = "started" => OwnTurn(q.turn),
         stopping' => /\ Busy(native) /\ StartPending
                      /\ Current = exec.pending.id /\ exec.reason # "NONE",
         holder' = w /\ live' /\ q.pc \in {"interrupt", "interrupting"} =>
           /\ StartPending /\ q.id # 0 /\ q.id = exec.interrupt.turn /\ exec.reason # "NONE"
  PROVE  CommandInv'
<1>1. NAttempts' = NAttempts /\ AttemptsGrow
  BY RecordType DEF NAttempts, AttemptsGrow
<1>2. NamesOwnTurns' /\ ChoiceFits(exec')
  BY DEF CommandInv, NamesOwnTurns, OwnTurn, StartPending
<1>3. at'[w] = q /\ \A v \in Workers \ {w} : at'[v] = at[v]
  BY DEF IndInv, TypeOK
<1>4. m.receipt # "none" =>
           /\ m.cmd \in 1..NAttempts /\ m.cmd \notin wire /\ ~Took(m.cmd)
           /\ \A v \in Workers : at'[v].pc \in {"starting", "armed"} => at'[v].id # m.cmd
  BY <1>3 DEF CommandInv, ReceiptsTrue, NeverRuns, Launching
<1>5. /\ exec'.pending.type = "START" => StartPending /\ exec'.pending.id = exec.pending.id
      /\ exec'.pending.type # "START" /\ StartPending => Over(exec.pending.id)
  BY DEF StartPending
<1>6. \A v \in Workers \ {w} : holder' = v /\ live' => holder = v /\ live /\ exec' = exec
  OBVIOUS
<1>7. w \in fresh' =>
           /\ q.pc \in BeforeStart => SettingsFit(exec')
           /\ q.pc \in AfterStart => exec'.pending.type = "START" /\ q.id = exec'.pending.id
           /\ q.pc = "started" => /\ q.turn \in 1..Len(native.turns)
                                  /\ native.turns[q.turn] = exec'.pending.id
  BY DEF StartPending, OwnTurn
<1>8. /\ stopping' => /\ Busy(native) /\ exec'.pending.type = "START"
                      /\ Current = exec'.pending.id /\ exec'.reason # "NONE"
      /\ holder' = w /\ live' /\ q.pc \in {"interrupt", "interrupting"} =>
           /\ exec'.pending.type = "START" /\ q.id # 0
           /\ q.id = exec'.interrupt.turn /\ exec'.reason # "NONE"
  BY DEF StartPending
<1>9. fresh' \subseteq {w} \/ (exec' = exec /\ fresh' \subseteq fresh \cup {w})
  OBVIOUS
<1> QED
  BY <1>1, <1>2, <1>4, <1>5, <1>6, <1>7, <1>8, <1>9, WorkerStep

(* The positions at which a controller has nothing in hand. *)
Aside == {"idle", "finish", "read", "decide", "acked"}

(* Its receipts are kept or dropped. *)
KeepsReceipt(w, m) == m.receipt # "none" => m.cmd = mem[w].cmd /\ mem[w].receipt # "none"

(* Such a step to one of them.                                             *)
LEMMA AsideStep ==
  ASSUME IndInv, IndInv', CommandInv,
         NEW w \in Workers, NEW q \in Positions, NEW m \in Memories,
         at' = [at EXCEPT ![w] = q], mem' = [mem EXCEPT ![w] = m],
         exec' = exec, native' = native, wire' = wire, stopping' => stopping,
         Claim(w) \/ Reclaim(w) \/ Release(w) \/ Die(w) \/ UNCHANGED fenceVars,
         KeepsReceipt(w, m), q.pc \in Aside, q.seen \in {NoThread, at[w].seen, native}
  PROVE  CommandInv'
<1>1. fresh' \subseteq fresh \cup {w}
  BY DEF Claim, Reclaim, Release, Die, fenceVars
<1>2. \A v \in Workers \ {w} : holder' = v /\ live' => holder = v /\ live
  BY OtherLease
<1>3. stopping' => /\ Busy(native) /\ StartPending
                   /\ Current = exec.pending.id /\ exec.reason # "NONE"
  BY DEF CommandInv, StopsPending
<1>4. q.pc \notin BeforeStart \cup AfterStart \cup {"interrupt", "interrupting"}
  BY DEF Aside, BeforeStart, AfterStart
<1>5. q.pc \notin {"starting", "armed", "started"}
  BY DEF Aside
<1> QED
  BY <1>1, <1>2, <1>3, <1>4, <1>5, LocalStep DEF KeepsReceipt

(* Memory left as it is. *)
LEMMA SameMemory ==
  ASSUME IndInv, NEW w \in Workers, mem' = mem
  PROVE  \E m \in Memories : mem' = [mem EXCEPT ![w] = m] /\ KeepsReceipt(w, m)
BY DEF IndInv, TypeOK, KeepsReceipt

(* Goto one of them. *)
LEMMA AsideGoto ==
  ASSUME IndInv, IndInv', CommandInv, NEW w \in Workers, NEW pc \in Aside, Goto(w, pc),
         mem' = mem, exec' = exec, native' = native, wire' = wire, stopping' => stopping,
         Claim(w) \/ Reclaim(w) \/ Release(w) \/ Die(w) \/ UNCHANGED fenceVars
  PROVE  CommandInv'
<1>1. PICK q \in Positions : at' = [at EXCEPT ![w] = q] /\ q.pc = pc /\ q.seen = NoThread
  BY GotoStep DEF Aside, Pcs, Working
<1>2. PICK m \in Memories : mem' = [mem EXCEPT ![w] = m] /\ KeepsReceipt(w, m)
  BY SameMemory
<1> QED
  BY <1>1, <1>2, AsideStep

-----------------------------------------------------------------------------
(* The steps that leave the record alone *)

(* Steps that come to, or stay at, nothing in hand. *)
LEMMA AsideCommands ==
  ASSUME IndInv, IndInv', CommandInv, NEW w \in Workers,
         \/ Advance(w) \/ RetryLater(w) \/ DropInterrupt(w) \/ UserOwned(w)
         \/ Conflict(w) \/ Abandon(w) \/ FinishUnread(w)
  PROVE  CommandInv'
<1>1. /\ mem' = mem /\ exec' = exec /\ native' = native /\ wire' = wire /\ stopping' = stopping
      /\ Claim(w) \/ Reclaim(w) \/ Release(w) \/ Die(w) \/ UNCHANGED fenceVars
  BY DEF Advance, RetryLater, DropInterrupt, UserOwned, Conflict, Abandon, FinishUnread,
         Return, Local, envVars
<1>2. \E pc \in Aside : Goto(w, pc)
  BY DEF Advance, RetryLater, DropInterrupt, UserOwned, Conflict, Abandon, FinishUnread,
         Return, Aside
<1> QED
  BY <1>1, <1>2, AsideGoto

(* What is read of the thread is part of it. *)
LEMMA ReadThreadCommands ==
  ASSUME IndInv, IndInv', CommandInv, NEW w \in Workers, ReadThread(w)
  PROVE  CommandInv'
<1> DEFINE q == [at[w] EXCEPT !.pc = "decide", !.seen = native]
<1>1. q \in Positions /\ q.pc = "decide" /\ q.seen = native
  BY DEF IndInv, TypeOK, Positions, Working
<1>2. at' = [at EXCEPT ![w] = q]
  BY DEF ReadThread, IndInv, TypeOK
<1>3. UNCHANGED fenceVars /\ exec' = exec /\ mem' = mem /\ native' = native /\ wire' = wire
      /\ stopping' = stopping
  BY DEF ReadThread, Local, envVars
<1>4. PICK m \in Memories : mem' = [mem EXCEPT ![w] = m] /\ KeepsReceipt(w, m)
  BY <1>3, SameMemory
<1> HIDE DEF q
<1> QED
  BY <1>1, <1>2, <1>3, <1>4, AsideStep DEF Aside

(* The finally block keeps a receipt or drops it, as a crash does. *)
LEMMA FinishCommands ==
  ASSUME IndInv, IndInv', CommandInv, NEW w \in Workers, Finish(w) \/ Crash(w)
  PROVE  CommandInv'
<1>1. mem[w] \in Memories /\ NoMemory \in Memories
  BY DEF IndInv, TypeOK, NoMemory, Memories
<1>2. Kept(mem[w]) \in Memories /\ KeepsReceipt(w, Kept(mem[w])) /\ KeepsReceipt(w, NoMemory)
  BY <1>1 DEF Kept, Memories, KeepsReceipt, NoMemory
<1>3. \E m \in Memories : mem' = [mem EXCEPT ![w] = m] /\ KeepsReceipt(w, m)
  <2>1. CASE Finish(w)
    <3>1. mem' = [mem EXCEPT ![w] = Kept(mem[w])]
      BY <2>1 DEF Finish, IndInv, TypeOK
    <3> QED
      BY <3>1, <1>2
  <2>2. CASE Crash(w)
    BY <2>2, <1>1, <1>2 DEF Crash
  <2> QED
    BY <2>1, <2>2
<1>4. PICK m \in Memories : mem' = [mem EXCEPT ![w] = m] /\ KeepsReceipt(w, m)
  BY <1>3
<1>5. PICK q \in Positions : at' = [at EXCEPT ![w] = q] /\ q.pc = "idle" /\ q.seen = NoThread
  BY GotoStep DEF Finish, Crash, Pcs
<1>6. /\ exec' = exec /\ native' = native /\ wire' = wire /\ stopping' = stopping
      /\ Release(w) \/ Die(w)
  BY DEF Finish, Crash, envVars
<1> QED
  BY <1>4, <1>5, <1>6, AsideStep DEF Aside

(* A step that leaves everything but memory as it is. *)
LEMMA MemoryCommands ==
  ASSUME IndInv, IndInv', CommandInv, NEW w \in Workers, Notify(w) \/ LoseContinuity(w)
  PROVE  CommandInv'
<1>1. /\ UNCHANGED fenceVars /\ fresh' = fresh /\ holder' = holder /\ live' = live
      /\ exec' = exec /\ native' = native /\ wire' = wire /\ stopping' = stopping /\ at' = at
  BY DEF Notify, LoseContinuity, envVars, fenceVars
<1>2. at[w] \in Positions /\ mem[w] \in Memories /\ at' = [at EXCEPT ![w] = at[w]]
  BY <1>1 DEF IndInv, TypeOK
<1>3. PICK evidence \in {"verified", "invalid"} : mem' = [mem EXCEPT ![w].evidence = evidence]
  BY DEF Notify, LoseContinuity
<1> DEFINE m == [mem[w] EXCEPT !.evidence = evidence]
<1>4. m \in Memories /\ KeepsReceipt(w, m)
  BY <1>2 DEF Memories, KeepsReceipt
<1>5. mem' = [mem EXCEPT ![w] = m]
  BY <1>3 DEF IndInv, TypeOK
<1> HIDE DEF m
<1>6. w \in fresh =>
        /\ at[w].pc \in BeforeStart => SettingsFit(exec)
        /\ at[w].pc \in AfterStart => StartPending /\ at[w].id = exec.pending.id
        /\ at[w].pc = "started" => OwnTurn(at[w].turn)
  BY DEF CommandInv, FreshKnows
<1>7. /\ stopping => /\ Busy(native) /\ StartPending
                     /\ Current = exec.pending.id /\ exec.reason # "NONE"
      /\ holder = w /\ live /\ at[w].pc \in {"interrupt", "interrupting"} =>
           /\ StartPending /\ at[w].id # 0 /\ at[w].id = exec.interrupt.turn /\ exec.reason # "NONE"
  BY DEF CommandInv, StopsPending
<1>8. at[w].pc \in {"starting", "armed"} => Launching(w) /\ at[w].id = at[w].id
  BY DEF Launching
<1>9. PICK q \in Positions : q = at[w]
  BY <1>2
<1> QED
  BY <1>1, <1>2, <1>4, <1>5, <1>6, <1>7, <1>8, <1>9, LocalStep DEF KeepsReceipt

(* Moves on the way to the START. *)
LEMMA SettingsCommands ==
  ASSUME IndInv, IndInv', CommandInv, NEW w \in Workers,
         \/ ReuseSettings(w) \/ SettingsInPlace(w) \/ SendSettings(w) \/ SettingsAcknowledged(w)
  PROVE  CommandInv'
<1>1. /\ Local /\ at[w] \in Positions
      /\ \E pc \in BeforeStart, was \in Delivery \cup {"NEW"} : GotoWith(w, pc, 0, was)
  <2>1. at[w] \in Positions /\ exec.pending \in Commands
    BY RecordType DEF IndInv, TypeOK
  <2>2. at[w].was \in Delivery \cup {"NEW"} /\ exec.pending.status \in Delivery
    BY <2>1 DEF Positions, Commands
  <2> QED
    BY <2>1, <2>2 DEF ReuseSettings, SettingsInPlace, SendSettings, SettingsAcknowledged, BeforeStart
<1>2. PICK pc \in BeforeStart, was \in Delivery \cup {"NEW"} : GotoWith(w, pc, 0, was)
  BY <1>1
<1>3. PICK q \in Positions : at' = [at EXCEPT ![w] = q] /\ q.pc = pc /\ q.id = 0 /\ q.seen = NoThread
  BY <1>2, GotoWithStep DEF BeforeStart, Pcs, Working
<1>4. /\ UNCHANGED fenceVars /\ fresh' = fresh /\ holder' = holder /\ live' = live
      /\ exec' = exec /\ mem' = mem /\ native' = native /\ wire' = wire /\ stopping' = stopping
  BY <1>1 DEF Local, envVars, fenceVars
<1>5. w \in fresh => SettingsFit(exec)
  <2>1. CASE ReuseSettings(w)
    <3>1. StageAttempts(exec, exec.active) \in Nat
      BY RecordType, CountType
    <3> QED
      BY <2>1, <3>1, PlanAssumption DEF ReuseSettings, Startable, BudgetSpent, SettingsFit
  <2>2. CASE SettingsInPlace(w) \/ SendSettings(w) \/ SettingsAcknowledged(w)
    BY <2>2 DEF SettingsInPlace, SendSettings, SettingsAcknowledged, At, BeforeStart,
                CommandInv, FreshKnows
  <2> QED
    BY <2>1, <2>2
<1>6. PICK m \in Memories : mem' = [mem EXCEPT ![w] = m] /\ KeepsReceipt(w, m)
  BY <1>4, SameMemory
<1>7. q.pc \notin AfterStart /\ q.pc \notin {"starting", "armed", "started", "interrupt", "interrupting"}
  BY <1>3 DEF BeforeStart, AfterStart
<1>8. stopping => /\ Busy(native) /\ StartPending
                  /\ Current = exec.pending.id /\ exec.reason # "NONE"
  BY DEF CommandInv, StopsPending
<1>9. /\ fresh' \subseteq fresh \cup {w}
      /\ \A v \in Workers \ {w} : holder' = v /\ live' => holder = v /\ live
      /\ w \in fresh' /\ q.pc \in BeforeStart => SettingsFit(exec)
      /\ q.seen \in {NoThread, at[w].seen, native}
  BY <1>3, <1>4, <1>5
<1> QED
  BY <1>3, <1>4, <1>6, <1>7, <1>8, <1>9, LocalStep DEF KeepsReceipt

(* The last check before the send. *)
LEMMA ArmStartCommands ==
  ASSUME IndInv, IndInv', CommandInv, NEW w \in Workers, ArmStart(w)
  PROVE  CommandInv'
<1>1. Local /\ at[w].pc = "starting" /\ at[w].id \in Nat
  BY DEF ArmStart, At, IndInv, TypeOK, Positions
<1>2. PICK q \in Positions :
        at' = [at EXCEPT ![w] = q] /\ q.pc = "armed" /\ q.id = at[w].id /\ q.seen = NoThread
  <2>1. GotoWith(w, "armed", at[w].id, "PREPARED")
    BY DEF ArmStart
  <2> QED
    BY <1>1, <2>1, GotoWithStep DEF Pcs, Delivery
<1>3. /\ UNCHANGED fenceVars /\ fresh' = fresh /\ holder' = holder /\ live' = live
      /\ exec' = exec /\ mem' = mem /\ native' = native /\ wire' = wire /\ stopping' = stopping
  BY <1>1 DEF Local, envVars, fenceVars
<1>4. PICK m \in Memories : mem' = [mem EXCEPT ![w] = m] /\ KeepsReceipt(w, m)
  BY <1>3, SameMemory
<1>5. w \in fresh => StartPending /\ q.id = exec.pending.id
  BY <1>1, <1>2 DEF CommandInv, FreshKnows, AfterStart
<1>6. stopping => /\ Busy(native) /\ StartPending
                  /\ Current = exec.pending.id /\ exec.reason # "NONE"
  BY DEF CommandInv, StopsPending
<1>7. q.pc \notin BeforeStart /\ q.pc \notin {"started", "interrupt", "interrupting"} /\ Launching(w)
  BY <1>1, <1>2 DEF BeforeStart, Launching
<1> QED
  BY <1>2, <1>3, <1>4, <1>5, <1>6, <1>7, LocalStep DEF KeepsReceipt

(* An interrupt is about to be sent for the turn the record names. *)
LEMMA BeginInterruptCommands ==
  ASSUME IndInv, IndInv', CommandInv, NEW w \in Workers, BeginInterrupt(w)
  PROVE  CommandInv'
<1>1. Local
  BY DEF BeginInterrupt
<1>2. /\ UNCHANGED fenceVars /\ fresh' = fresh /\ holder' = holder /\ live' = live
      /\ exec' = exec /\ mem' = mem /\ native' = native /\ wire' = wire /\ stopping' = stopping
  BY <1>1 DEF Local, envVars, fenceVars
<1>3. CASE Goto(w, "finish")
  BY <1>2, <1>3, AsideGoto DEF Aside
<1>4. CASE GotoWith(w, "interrupt", exec.interrupt.turn, "PREPARED")
  <2>1. exec.interrupt.turn \in Nat
    BY RecordType DEF Interrupts
  <2>2. PICK q \in Positions : /\ at' = [at EXCEPT ![w] = q] /\ q.pc = "interrupt"
                               /\ q.id = exec.interrupt.turn /\ q.seen = NoThread
    BY <1>4, <2>1, GotoWithStep DEF Pcs, Working, Delivery
  <2>3. StartPending /\ q.id # 0 /\ exec.reason # "NONE"
    BY <2>2 DEF BeginInterrupt, Reconciled, Accepted, AcceptanceNoted
  <2>4. PICK m \in Memories : mem' = [mem EXCEPT ![w] = m] /\ KeepsReceipt(w, m)
    BY <1>2, SameMemory
  <2>5. stopping => /\ Busy(native) /\ StartPending
                    /\ Current = exec.pending.id /\ exec.reason # "NONE"
    BY DEF CommandInv, StopsPending
  <2>6. q.pc \notin BeforeStart \cup AfterStart /\ q.pc \notin {"started", "starting", "armed"}
    BY <2>2 DEF BeforeStart, AfterStart
  <2> QED
    BY <1>2, <2>2, <2>3, <2>4, <2>5, <2>6, LocalStep DEF KeepsReceipt
<1> QED
  BY <1>3, <1>4 DEF BeginInterrupt

(* The turn that an interrupt stops is the pending START's. *)
LEMMA InterruptsOwn ==
  ASSUME IndInv, CommandInv, NEW w \in Workers, at[w].pc = "interrupting", holder = w, live,
         Interruptible(w)
  PROVE  Busy(native) /\ StartPending /\ Current = exec.pending.id /\ exec.reason # "NONE"
<1>1. StartPending /\ at[w].id # 0 /\ at[w].id = exec.interrupt.turn /\ exec.reason # "NONE"
  BY DEF CommandInv, StopsPending
<1>2. OwnTurn(at[w].id) /\ Len(native.turns) = at[w].id /\ Busy(native)
  BY <1>1 DEF CommandInv, NamesOwnTurns, Interruptible
<1> QED
  BY <1>1, <1>2 DEF OwnTurn, Current

(* An interrupt arrives, or may have arrived. *)
LEMMA InterruptCommands ==
  ASSUME IndInv, IndInv', CommandInv, NEW w \in Workers,
         InterruptAcknowledged(w) \/ InterruptUncertain(w)
  PROVE  CommandInv'
<1>1. /\ UNCHANGED fenceVars /\ fresh' = fresh /\ holder' = holder /\ live' = live
      /\ exec' = exec /\ native' = native /\ wire' = wire
      /\ at[w].pc = "interrupting" /\ holder = w /\ live
  BY DEF InterruptAcknowledged, InterruptUncertain, At, fenceVars
<1>2. \E m \in Memories : mem' = [mem EXCEPT ![w] = m] /\ KeepsReceipt(w, m)
  <2>1. CASE InterruptAcknowledged(w)
    <3> DEFINE m == [mem[w] EXCEPT !.acked = at[w].id]
    <3>1. mem[w] \in Memories /\ at[w].id \in Nat
      BY DEF IndInv, TypeOK, Positions
    <3>2. m \in Memories
      BY ONLY <3>1 DEF Memories
    <3>3. m.receipt = mem[w].receipt /\ m.cmd = mem[w].cmd
      BY ONLY <3>1 DEF Memories
    <3>4. mem' = [mem EXCEPT ![w] = m]
      BY <2>1 DEF InterruptAcknowledged, IndInv, TypeOK
    <3> HIDE DEF m
    <3>5. KeepsReceipt(w, m)
      BY ONLY <3>3 DEF KeepsReceipt
    <3> QED
      BY ONLY <3>2, <3>4, <3>5
  <2>2. CASE InterruptUncertain(w)
    BY <2>2, SameMemory DEF InterruptUncertain
  <2> QED
    BY <2>1, <2>2
<1>3. PICK m \in Memories : mem' = [mem EXCEPT ![w] = m] /\ KeepsReceipt(w, m)
  BY <1>2
<1>4. \E pc \in {"acked", "finish"} : Goto(w, pc)
  BY DEF InterruptAcknowledged, InterruptUncertain
<1>5. PICK pc \in {"acked", "finish"} : Goto(w, pc)
  BY <1>4
<1>6. PICK q \in Positions : at' = [at EXCEPT ![w] = q] /\ q.pc = pc /\ q.seen = NoThread
  BY <1>5, GotoStep DEF Pcs, Working
<1>7. stopping' => /\ Busy(native) /\ StartPending
                   /\ Current = exec.pending.id /\ exec.reason # "NONE"
  <2>1. stopping \in BOOLEAN
    BY DEF IndInv, TypeOK
  <2>2. stopping' => stopping \/ Interruptible(w)
    BY <2>1 DEF InterruptAcknowledged, InterruptUncertain
  <2> QED
    BY <1>1, <2>2, InterruptsOwn DEF CommandInv, StopsPending
<1>8. q.pc \notin BeforeStart \cup AfterStart \cup {"interrupt", "interrupting"}
  BY <1>6 DEF BeforeStart, AfterStart
<1>9. q.pc \notin {"started", "starting", "armed"}
  BY <1>6
<1> QED
  BY <1>1, <1>3, <1>6, <1>7, <1>8, <1>9, LocalStep DEF KeepsReceipt

(* What a receipt means when it is given. *)
Refused(k) ==
  /\ k \in 1..NAttempts /\ k \notin wire' /\ ~Took(k)
  /\ \A v \in Workers : at'[v].pc \in {"starting", "armed"} => at'[v].id # k

(* The steps of a send. *)
LEMMA SendStep ==
  ASSUME IndInv, IndInv', CommandInv, NEW w \in Workers, NEW q \in Positions, NEW m \in Memories,
         UNCHANGED <<fenceVars, exec, native, stopping>>,
         at[w].pc \in AfterStart, q.pc \in {"await", "settling", "started"}, q.id = at[w].id,
         q.seen \in {NoThread, at[w].seen},
         q.pc = "started" => q.turn \in 1..Len(native.turns) /\ native.turns[q.turn] = at[w].id,
         at' = [at EXCEPT ![w] = q], mem' = [mem EXCEPT ![w] = m],
         \A k \in wire' : k \in wire \/ (Launching(w) /\ k = at[w].id),
         m.receipt # "none" => Refused(m.cmd)
  PROVE  CommandInv'
<1>1. /\ exec' = exec /\ native' = native /\ stopping' = stopping
      /\ UNCHANGED fenceVars /\ fresh' = fresh /\ holder' = holder /\ live' = live
  BY DEF fenceVars
<1>2. NAttempts' = NAttempts /\ AttemptsGrow
  BY <1>1, RecordType DEF NAttempts, AttemptsGrow
<1>3. NamesOwnTurns' /\ ChoiceFits(exec')
  BY <1>1 DEF CommandInv, NamesOwnTurns, OwnTurn, StartPending
<1>4. at'[w] = q /\ \A v \in Workers \ {w} : at'[v] = at[v]
  BY DEF IndInv, TypeOK
<1>5. q.pc \notin {"starting", "armed"} /\ q.pc \notin BeforeStart \cup {"interrupt", "interrupting"}
  BY DEF BeforeStart
<1>6. \A k \in wire' : k \in wire \/ (Launching(w) /\ k = at[w].id /\ exec' = exec
                            /\ \A v \in Workers : at'[v].pc \in {"starting", "armed"} => at'[v].id # k)
  <2>1. Launching(w) => \A v \in Workers \ {w} : ~Launching(v)
    BY DEF CommandInv, LaunchPending
  <2> QED
    BY <1>1, <1>4, <1>5, <2>1 DEF Launching
<1>7. w \in fresh =>
           /\ q.pc \in BeforeStart => SettingsFit(exec')
           /\ q.pc \in AfterStart => exec'.pending.type = "START" /\ q.id = exec'.pending.id
           /\ q.pc = "started" => /\ q.turn \in 1..Len(native.turns)
                                  /\ native.turns[q.turn] = exec'.pending.id
  BY <1>1, <1>5 DEF CommandInv, FreshKnows, StartPending
<1>8. /\ exec'.pending.type = "START" => StartPending /\ exec'.pending.id = exec.pending.id
      /\ exec'.pending.type # "START" /\ StartPending => Over(exec.pending.id)
      /\ stopping' => /\ Busy(native) /\ exec'.pending.type = "START"
                      /\ Current = exec'.pending.id /\ exec'.reason # "NONE"
  BY <1>1 DEF StartPending, CommandInv, StopsPending
<1>9. /\ fresh' \subseteq {w} \/ (exec' = exec /\ fresh' \subseteq fresh \cup {w})
      /\ \A v \in Workers \ {w} : holder' = v /\ live' => holder = v /\ live /\ exec' = exec
  BY <1>1
<1>10. m.receipt # "none" =>
           /\ m.cmd \in 1..NAttempts /\ m.cmd \notin wire' /\ ~Took(m.cmd)
           /\ \A v \in Workers : at'[v].pc \in {"starting", "armed"} => at'[v].id # m.cmd
  BY DEF Refused
<1> QED
  BY <1>1, <1>2, <1>3, <1>5, <1>6, <1>7, <1>8, <1>9, <1>10, WorkerStep

(* What Remember leaves. *)
LEMMA Remembered ==
  ASSUME IndInv, NEW w \in Workers,
         NEW evidence \in {"none", "observing", "verified", "invalid"},
         NEW receipt \in {"none", "NOT_SENT", "REJECTED", "RETRYABLE"}, Remember(w, evidence, receipt)
  PROVE  \E m \in Memories : mem' = [mem EXCEPT ![w] = m] /\ m.cmd = at[w].id /\ m.receipt = receipt
<1> DEFINE m == [mem[w] EXCEPT !.cmd = at[w].id, !.evidence = evidence, !.receipt = receipt]
<1>1. mem \in [Workers -> Memories] /\ at[w].id \in Nat
  BY DEF IndInv, TypeOK, Positions
<1>2. m \in Memories /\ m.cmd = at[w].id /\ m.receipt = receipt
  BY <1>1 DEF Memories
<1>3. mem' = [mem EXCEPT ![w] = m]
  BY <1>1 DEF Remember, Memories
<1> HIDE DEF m
<1> QED
  BY <1>2, <1>3

(* The request leaves. *)
LEMMA SendStartCommands ==
  ASSUME IndInv, IndInv', CommandInv, NEW w \in Workers, SendStart(w)
  PROVE  CommandInv'
<1>1. at[w].pc = "armed" /\ at[w].pc \in AfterStart /\ Launching(w) /\ at[w].id \in Nat
  BY DEF SendStart, At, AfterStart, Launching, IndInv, TypeOK, Positions
<1>2. PICK q \in Positions :
        at' = [at EXCEPT ![w] = q] /\ q.pc = "await" /\ q.id = at[w].id /\ q.seen = NoThread
  BY <1>1, GotoWithStep DEF SendStart, Pcs, Working, Delivery
<1>3. UNCHANGED <<fenceVars, exec, native, stopping>> /\ mem' = mem /\ wire' = wire \cup {at[w].id}
  BY DEF SendStart
<1>4. mem[w] \in Memories /\ mem' = [mem EXCEPT ![w] = mem[w]]
  BY <1>3 DEF IndInv, TypeOK
<1>5. mem[w].receipt # "none" => Refused(mem[w].cmd)
  <2>1. at'[w] = q /\ \A v \in Workers \ {w} : at'[v] = at[v]
    BY <1>2 DEF IndInv, TypeOK
  <2>2. mem[w].receipt # "none" => mem[w].cmd \in 1..NAttempts /\ NeverRuns(mem[w].cmd)
    BY DEF CommandInv, ReceiptsTrue
  <2> QED
    BY <1>1, <1>2, <1>3, <2>1, <2>2 DEF Refused, NeverRuns, Launching
<1>6. PICK m \in Memories : m = mem[w]
  BY <1>4
<1> QED
  BY <1>1, <1>2, <1>3, <1>4, <1>5, <1>6, SendStep

(* The send fails before the request leaves, or is refused: the receipt is *)
(* a true one.                                                             *)
LEMMA RefusalCommands ==
  ASSUME IndInv, IndInv', CommandInv, NEW w \in Workers, NotSent(w) \/ Rejected(w)
  PROVE  CommandInv'
<1>1. at[w].pc \in AfterStart /\ at[w].id \in Nat
  BY DEF NotSent, Rejected, At, AfterStart, IndInv, TypeOK, Positions
<1>2. PICK q \in Positions :
        at' = [at EXCEPT ![w] = q] /\ q.pc = "settling" /\ q.id = at[w].id /\ q.seen = NoThread
  BY <1>1, GotoWithStep DEF NotSent, Rejected, Pcs, Working, Delivery
<1>3. UNCHANGED <<fenceVars, exec, native, stopping>> /\ wire' \subseteq wire
  BY DEF NotSent, Rejected, envVars
<1>4. \E m \in Memories : mem' = [mem EXCEPT ![w] = m] /\ m.cmd = at[w].id
  BY Remembered DEF NotSent, Rejected
<1>5. Refused(at[w].id)
  <2>1. at'[w] = q /\ \A v \in Workers \ {w} : at'[v] = at[v]
    BY <1>2 DEF IndInv, TypeOK
  <2>2. CASE NotSent(w)
    <3>1. Launching(w) /\ wire' = wire
      BY <2>2 DEF NotSent, At, Launching, envVars
    <3>2. at[w].id \in 1..NAttempts /\ at[w].id \notin wire /\ ~Took(at[w].id)
      BY <3>1 DEF IndInv, KnownIds, CommandInv, LaunchPending, Launching
    <3>3. \A v \in Workers \ {w} : ~Launching(v)
      BY <3>1 DEF CommandInv, LaunchPending
    <3> QED
      BY <1>2, <2>1, <3>1, <3>2, <3>3 DEF Refused, Launching
  <2>3. CASE Rejected(w)
    <3>1. at[w].id \in wire /\ at[w].id \notin wire'
      BY <2>3 DEF Rejected
    <3>2. at[w].id \in 1..NAttempts /\ ~Took(at[w].id)
      BY <3>1 DEF IndInv, KnownIds, CommandInv, WirePending
    <3>3. \A v \in Workers : Launching(v) => at[v].id # at[w].id
      BY <3>1 DEF CommandInv, LaunchPending
    <3> QED
      BY <1>2, <2>1, <3>1, <3>2, <3>3 DEF Refused, Launching
  <2> QED
    BY <2>2, <2>3
<1>6. PICK m \in Memories : mem' = [mem EXCEPT ![w] = m] /\ m.cmd = at[w].id
  BY <1>4
<1> QED
  BY <1>1, <1>2, <1>3, <1>5, <1>6, SendStep

(* The response names the START's turn. *)
LEMMA RespondedCommands ==
  ASSUME IndInv, IndInv', CommandInv, NEW w \in Workers, Responded(w)
  PROVE  CommandInv'
<1>1. at[w].pc \in AfterStart
  BY DEF Responded, At, AfterStart
<1>2. PICK i \in DOMAIN native.turns : /\ at' = [at EXCEPT ![w].pc = "started", ![w].turn = i]
                                       /\ native.turns[i] = at[w].id
  BY DEF Responded
<1>3. native \in Threads /\ at \in [Workers -> Positions]
  BY DEF IndInv, TypeOK
<1>4. i \in 1..Len(native.turns) /\ i \in Nat
  BY <1>3 DEF Threads
<1> DEFINE q == [at[w] EXCEPT !.pc = "started", !.turn = i]
<1>5. q \in Positions /\ q.pc = "started" /\ q.seen = at[w].seen /\ q.id = at[w].id /\ q.turn = i
  BY <1>3, <1>4 DEF Positions, Working
<1>6. at' = [at EXCEPT ![w] = q]
  BY <1>2, <1>3
<1> HIDE DEF q
<1>7. PICK m \in Memories : mem' = [mem EXCEPT ![w] = m] /\ m.receipt = "none"
  BY Remembered DEF Responded
<1>8. UNCHANGED <<fenceVars, exec, native, stopping>> /\ wire' = wire
  BY DEF Responded, envVars
<1> QED
  BY <1>1, <1>2, <1>4, <1>5, <1>6, <1>7, <1>8, SendStep

-----------------------------------------------------------------------------
(* The saves that keep the pending command *)

(* A patch after which the same command is pending for the same reason,    *)
(* and names only turns of its own.                                        *)
SameStart(e) ==
  /\ e.pending.type = exec.pending.type /\ e.pending.id = exec.pending.id
  /\ e.pending.stage = exec.pending.stage /\ e.pending.sel = exec.pending.sel
  /\ e.pending.turn # 0 => OwnTurn(e.pending.turn)
  /\ e.interrupt.turn \in {0, exec.interrupt.turn, exec.pending.turn}
  /\ exec.interrupt.turn # 0 => e.interrupt.turn = exec.interrupt.turn
  /\ e.reason = exec.reason /\ e.active = exec.active /\ e.choice = exec.choice
  /\ Len(e.attempts) = NAttempts
  /\ \A k \in 1..NAttempts : e.attempts[k].stage = exec.attempts[k].stage

(* A controller saves such a patch. *)
LEMMA SaveStep ==
  ASSUME IndInv, IndInv', CommandInv, NEW w \in Workers, NEW q \in Positions, NEW m \in Memories,
         at' = [at EXCEPT ![w] = q], mem' = [mem EXCEPT ![w] = m],
         NEW e, Save(w, e), SameStart(e), UNCHANGED envVars, KeepsReceipt(w, m),
         at[w].pc \in Working, q.pc \notin AfterStart,
         q.pc \in BeforeStart => at[w].pc \in BeforeStart,
         q.pc \in {"interrupt", "interrupting"} => at[w].pc = "interrupt" /\ q.id = at[w].id,
         q.seen \in {NoThread, at[w].seen}
  PROVE  CommandInv'
<1>1. /\ w \in fresh /\ fresh' = {w} /\ exec' = e /\ holder = w /\ live
      /\ \A v \in Workers \ {w} : ~(holder' = v /\ live')
  BY SavingLease
<1>2. native' = native /\ stopping' = stopping /\ wire' = wire
  BY DEF envVars
<1>3. NAttempts' = NAttempts /\ AttemptsGrow /\ NAttempts \in Nat
  BY <1>1, RecordType DEF NAttempts, AttemptsGrow, SameStart
<1>4. exec.status \in Runnable
  BY <1>1, CurrentCopy
<1>5. NamesOwnTurns'
  BY <1>1, <1>2 DEF CommandInv, NamesOwnTurns, OwnTurn, StartPending, SameStart
<1>6. ChoiceFits(exec')
  BY <1>1, <1>4 DEF CommandInv, ChoiceFits, SameStart
<1>7. /\ exec'.pending.type = "START" => StartPending /\ exec'.pending.id = exec.pending.id
      /\ exec'.pending.type # "START" /\ StartPending => Over(exec.pending.id)
  BY <1>1 DEF StartPending, SameStart
<1>8. q.pc \in BeforeStart => SettingsFit(exec')
  <2>1. e.attempts \in Seq(Attempts)
    BY <1>1 DEF IndInv, TypeOK, Executions
  <2>2. StageAttempts(e, e.active) = StageAttempts(exec, exec.active)
    BY <2>1, RecordType, SameCounts DEF SameStart
  <2>3. q.pc \in BeforeStart => SettingsFit(exec)
    BY <1>1 DEF CommandInv, FreshKnows
  <2> QED
    BY <1>1, <2>2, <2>3 DEF SettingsFit, SameStart
<1>9. stopping' => /\ Busy(native) /\ exec'.pending.type = "START"
                   /\ Current = exec'.pending.id /\ exec'.reason # "NONE"
  BY <1>1, <1>2 DEF CommandInv, StopsPending, StartPending, SameStart
<1>10. q.pc \in {"interrupt", "interrupting"} =>
           /\ exec'.pending.type = "START" /\ q.id # 0
           /\ q.id = exec'.interrupt.turn /\ exec'.reason # "NONE"
  BY <1>1 DEF CommandInv, StopsPending, StartPending, SameStart
<1>11. at'[w] = q /\ \A v \in Workers \ {w} : at'[v] = at[v]
  BY DEF IndInv, TypeOK
<1>12. q.pc \notin {"starting", "armed", "started"}
  BY DEF AfterStart
<1>13. m.receipt # "none" =>
           /\ m.cmd \in 1..NAttempts /\ m.cmd \notin wire' /\ ~Took(m.cmd)
           /\ \A v \in Workers : at'[v].pc \in {"starting", "armed"} => at'[v].id # m.cmd
  BY <1>2, <1>11, <1>12 DEF CommandInv, ReceiptsTrue, NeverRuns, Launching, KeepsReceipt
<1> QED
  BY <1>1, <1>2, <1>3, <1>5, <1>6, <1>7, <1>8, <1>9, <1>10, <1>12, <1>13, WorkerStep

(* The patches of statuses only. *)
LEMMA SameStatus ==
  ASSUME IndInv, CommandInv, NEW status, NEW delivery
  PROVE  /\ SameStart([exec EXCEPT !.status = status])
         /\ SameStart([exec EXCEPT !.status = status, !.pending.status = delivery])
         /\ SameStart([exec EXCEPT !.pending.status = delivery])
         /\ SameStart([exec EXCEPT !.interrupt.status = delivery])
<1>1. /\ exec \in Executions /\ exec.pending \in Commands /\ exec.interrupt \in Interrupts
      /\ NAttempts = Len(exec.attempts)
  BY RecordType DEF NAttempts
<1>2. exec.pending.turn # 0 => OwnTurn(exec.pending.turn)
  BY DEF CommandInv, NamesOwnTurns
<1>3. SameStart([exec EXCEPT !.status = status])
  BY <1>1, <1>2 DEF SameStart, Executions
<1>4. SameStart([exec EXCEPT !.status = status, !.pending.status = delivery])
  BY <1>1, <1>2 DEF SameStart, Executions, Commands
<1>5. SameStart([exec EXCEPT !.pending.status = delivery])
  BY <1>1, <1>2 DEF SameStart, Executions, Commands
<1>6. SameStart([exec EXCEPT !.interrupt.status = delivery])
  BY <1>1, <1>2 DEF SameStart, Executions, Interrupts
<1> QED
  BY <1>3, <1>4, <1>5, <1>6

(* Saves before returning. *)
LEMMA ReturnStep ==
  ASSUME IndInv, IndInv', CommandInv, NEW w \in Workers, NEW e, SaveAndReturn(w, e), SameStart(e),
         at[w].pc \in Working
  PROVE  CommandInv'
<1>1. Save(w, e) /\ UNCHANGED envVars /\ mem' = mem
  BY DEF SaveAndReturn
<1>2. PICK q \in Positions : at' = [at EXCEPT ![w] = q] /\ q.pc = "finish" /\ q.seen = NoThread
  BY GotoStep DEF SaveAndReturn, Pcs
<1>3. PICK m \in Memories : mem' = [mem EXCEPT ![w] = m] /\ KeepsReceipt(w, m)
  BY <1>1, SameMemory
<1> QED
  BY <1>1, <1>2, <1>3, SaveStep DEF AfterStart, BeforeStart

(* Saves of a controller that goes on with its decision. *)
LEMMA StayStep ==
  ASSUME IndInv, IndInv', CommandInv, NEW w \in Workers, NEW e, Save(w, e), SameStart(e),
         at' = at, at[w].pc = "decide", UNCHANGED envVars,
         NEW m \in Memories, mem' = [mem EXCEPT ![w] = m], KeepsReceipt(w, m)
  PROVE  CommandInv'
<1>1. at[w] \in Positions /\ at' = [at EXCEPT ![w] = at[w]]
  BY DEF IndInv, TypeOK
<1>2. PICK q \in Positions : q = at[w]
  BY <1>1
<1>3. q.pc = "decide"
  BY <1>2
<1> QED
  BY <1>1, <1>2, <1>3, SaveStep DEF AfterStart, BeforeStart, Working

(* The saves of a status before returning. *)
LEMMA StatusCommands ==
  ASSUME IndInv, IndInv', CommandInv, NEW w \in Workers,
         \/ Inconsistent(w) \/ Unverifiable(w) \/ ModelUnavailable(w) \/ StaleIntent(w)
         \/ RetrySettings(w) \/ SettingsUncertain(w) \/ Uncertain(w) \/ InspectionFails(w)
  PROVE  CommandInv'
<1>1. at[w].pc \in Working
  BY DEF Inconsistent, Unverifiable, ModelUnavailable, StaleIntent, RetrySettings,
         SettingsUncertain, Uncertain, InspectionFails, Closed, Reconciled, Accepted,
         Startable, Free, At, Working
<1>2. \/ \E s \in Statuses : SaveAndReturn(w, [exec EXCEPT !.status = s])
      \/ \E s \in Statuses, d \in Delivery :
           SaveAndReturn(w, [exec EXCEPT !.status = s, !.pending.status = d])
  BY DEF Inconsistent, Unverifiable, ModelUnavailable, StaleIntent, RetrySettings,
         SettingsUncertain, Uncertain, InspectionFails, Statuses, Runnable, Delivery
<1> QED
  BY <1>1, <1>2, SameStatus, ReturnStep

(* The steps that watch a turn, and save its status or nothing. *)
LEMMA WatchCommands ==
  ASSUME IndInv, IndInv', CommandInv, NEW w \in Workers, Watch(w) \/ AwaitClosure(w)
  PROVE  CommandInv'
<1>1. Goto(w, "finish") /\ mem' = mem /\ UNCHANGED envVars /\ at[w].pc = "decide"
  BY DEF Watch, AwaitClosure, Closed, Reconciled, Accepted, At
<1>2. CASE UNCHANGED <<fenceVars, exec, histVars>>
  BY <1>1, <1>2, AsideGoto DEF Aside, envVars
<1>3. CASE \E s \in Statuses : Save(w, [exec EXCEPT !.status = s])
  BY <1>1, <1>3, SameStatus, ReturnStep DEF SaveAndReturn, Working
<1> QED
  BY <1>2, <1>3 DEF Watch, AwaitClosure, Statuses, Runnable

(* The turn that an accepted START became. *)
LEMMA AcceptedOwn ==
  ASSUME IndInv, CommandInv, NEW w \in Workers, Accepted(w)
  PROVE  /\ OwnTurn(exec.pending.base + 1) /\ exec.pending.base + 1 \in Nat
         /\ exec.pending.id # 0
         /\ Len(at[w].seen.turns) = exec.pending.base + 1
<1> DEFINE b == exec.pending.base + 1
<1>1. b \in Nat /\ b \in 1..b
  BY RecordType DEF Commands
<1>2. StartPending /\ exec.pending.id # 0
  BY DEF Accepted, CommandInv, NamesOwnTurns
<1>3. Len(at[w].seen.turns) = b /\ at[w].seen.turns[b] = exec.pending.id
  <2>1. at[w].seen.turns \in Seq(Nat)
    BY DEF IndInv, TypeOK, Positions, Threads
  <2>2. Len(at[w].seen.turns) = b
    BY DEF Accepted, Matches
  <2>3. b \in DOMAIN at[w].seen.turns
    BY <1>1, <2>1, <2>2
  <2> QED
    BY <2>2, <2>3 DEF Accepted, Matches
<1>4. b \in 1..Len(native.turns) /\ native.turns[b] = exec.pending.id
  <2>1. PartOf(at[w].seen)
    BY DEF CommandInv, SeenKept
  <2>2. Len(native.turns) \in Nat
    BY DEF IndInv, TypeOK, Threads
  <2> HIDE DEF b
  <2> QED
    BY <1>1, <1>2, <1>3, <2>1, <2>2 DEF PartOf
<1> QED
  BY <1>1, <1>2, <1>3, <1>4 DEF OwnTurn

(* What is noted of an accepted START names its turn. *)
LEMMA NotesCommands ==
  ASSUME IndInv, IndInv', CommandInv, NEW w \in Workers,
         NoteAcknowledgement(w) \/ NoteAcceptance(w) \/ PrepareInterrupt(w)
  PROVE  CommandInv'
<1>1. at[w].pc = "decide" /\ at' = at /\ UNCHANGED envVars /\ Accepted(w)
  BY DEF NoteAcknowledgement, NoteAcceptance, PrepareInterrupt, Reconciled, Accepted, At
<1>2. /\ exec \in Executions /\ exec.pending \in Commands /\ exec.interrupt \in Interrupts
      /\ NAttempts = Len(exec.attempts)
  BY RecordType DEF NAttempts
<1>3. CASE NoteAcknowledgement(w)
  <2> DEFINE m == [mem[w] EXCEPT !.acked = 0]
  <2>1. m \in Memories /\ KeepsReceipt(w, m)
    BY DEF IndInv, TypeOK, Memories, KeepsReceipt
  <2>2. mem' = [mem EXCEPT ![w] = m]
    BY <1>3 DEF NoteAcknowledgement, IndInv, TypeOK
  <2> HIDE DEF m
  <2> QED
    BY <1>1, <1>3, <2>1, <2>2, SameStatus, StayStep DEF NoteAcknowledgement
<1>4. CASE NoteAcceptance(w)
  <2> DEFINE b == exec.pending.base + 1
             v == Verified(w)
             a == Attempted(exec, "RUNNING")
             c == [exec.pending EXCEPT !.status = "SENT", !.turn = b]
             x == [a EXCEPT ![exec.pending.id].verified = v]
             e == [exec EXCEPT !.pending = c, !.attempts = x]
  <2>1. Save(w, e) /\ mem' = mem
    BY <1>4 DEF NoteAcceptance
  <2>2. /\ c.type = exec.pending.type /\ c.id = exec.pending.id /\ c.stage = exec.pending.stage
        /\ c.sel = exec.pending.sel /\ c.turn = b
    BY <1>2 DEF Commands
  <2>3. OwnTurn(b)
    BY <1>1, AcceptedOwn
  <2>4. /\ a \in Seq(Attempts) /\ Len(a) = NAttempts
        /\ \A k \in 1..NAttempts : a[k].stage = exec.attempts[k].stage
    BY AttemptedType DEF AttemptStatuses
  <2>5. Len(x) = NAttempts /\ \A k \in 1..NAttempts : x[k].stage = exec.attempts[k].stage
    <3> HIDE DEF a, v
    <3>1. \A k \in 1..NAttempts : x[k].stage = a[k].stage
      <4> TAKE k \in 1..NAttempts
      <4>1. a[k] \in Attempts
        BY <2>4
      <4>2. [a[k] EXCEPT !.verified = v].stage = a[k].stage
        BY <4>1 DEF Attempts
      <4>3. x[k] \in {a[k], [a[k] EXCEPT !.verified = v]}
        BY <2>4
      <4> QED
        BY <4>2, <4>3
    <3> QED
      BY <2>4, <3>1
  <2> HIDE DEF a, v, b, c, x
  <2>6. SameStart(e)
    BY <1>2, <2>2, <2>3, <2>5 DEF SameStart, Executions
  <2> HIDE DEF e
  <2>7. PICK m \in Memories : mem' = [mem EXCEPT ![w] = m] /\ KeepsReceipt(w, m)
    BY <2>1, SameMemory
  <2> QED
    BY <1>1, <2>1, <2>6, <2>7, StayStep
<1>5. CASE PrepareInterrupt(w)
  <2> DEFINE i == [turn |-> exec.pending.turn, status |-> "PREPARED"]
             e == [exec EXCEPT !.interrupt = i]
  <2>1. Save(w, e) /\ mem' = mem /\ exec.interrupt.turn = 0
    BY <1>5 DEF PrepareInterrupt
  <2>2. exec.pending.turn # 0 => OwnTurn(exec.pending.turn)
    BY DEF CommandInv, NamesOwnTurns
  <2>3. SameStart(e)
    BY <1>2, <2>1, <2>2 DEF SameStart, Executions
  <2> HIDE DEF e
  <2>4. PICK m \in Memories : mem' = [mem EXCEPT ![w] = m] /\ KeepsReceipt(w, m)
    BY <2>1, SameMemory
  <2> QED
    BY <1>1, <2>1, <2>3, <2>4, StayStep
<1> QED
  BY <1>3, <1>4, <1>5

(* Before and after an interrupt is sent. *)
LEMMA InterruptSaves ==
  ASSUME IndInv, IndInv', CommandInv, NEW w \in Workers, ArmInterrupt(w) \/ SaveAcknowledgement(w)
  PROVE  CommandInv'
<1>1. UNCHANGED envVars
  BY DEF ArmInterrupt, SaveAcknowledgement
<1>2. CASE ArmInterrupt(w)
  <2>1. at[w].pc = "interrupt" /\ at[w].id \in Nat /\ mem' = mem
    BY <1>2 DEF ArmInterrupt, At, IndInv, TypeOK, Positions
  <2>2. PICK q \in Positions : /\ at' = [at EXCEPT ![w] = q] /\ q.pc = "interrupting"
                               /\ q.id = at[w].id /\ q.seen = NoThread
    BY <1>2, <2>1, GotoWithStep DEF ArmInterrupt, Pcs, Working, Delivery
  <2>3. PICK m \in Memories : mem' = [mem EXCEPT ![w] = m] /\ KeepsReceipt(w, m)
    BY <2>1, SameMemory
  <2> QED
    BY <1>1, <1>2, <2>1, <2>2, <2>3, SameStatus, SaveStep
       DEF ArmInterrupt, AfterStart, BeforeStart, Working
<1>3. CASE SaveAcknowledgement(w)
  <2> DEFINE m == [mem[w] EXCEPT !.acked = 0]
  <2>1. m \in Memories /\ KeepsReceipt(w, m)
    BY DEF IndInv, TypeOK, Memories, KeepsReceipt
  <2>2. mem' = [mem EXCEPT ![w] = m] /\ at[w].pc = "acked"
    BY <1>3 DEF SaveAcknowledgement, At, IndInv, TypeOK
  <2> HIDE DEF m
  <2>3. PICK q \in Positions : at' = [at EXCEPT ![w] = q] /\ q.pc = "finish" /\ q.seen = NoThread
    BY <1>3, GotoStep DEF SaveAcknowledgement, Pcs
  <2> QED
    BY <1>1, <1>3, <2>1, <2>2, <2>3, SameStatus, SaveStep
       DEF SaveAcknowledgement, AfterStart, BeforeStart, Working
<1> QED
  BY <1>2, <1>3

(* The settings are confirmed. *)
LEMMA ConfirmSettingsCommands ==
  ASSUME IndInv, IndInv', CommandInv, NEW w \in Workers, ConfirmSettings(w)
  PROVE  CommandInv'
<1>1. UNCHANGED envVars /\ mem' = mem /\ at[w].pc = "confirm" /\ at[w].was \in Delivery \cup {"NEW"}
  BY DEF ConfirmSettings, At, IndInv, TypeOK, Positions
<1>2. PICK q \in Positions : at' = [at EXCEPT ![w] = q] /\ q.pc = "prepare" /\ q.seen = NoThread
  BY <1>1, GotoWithStep DEF ConfirmSettings, Pcs, Working
<1>3. PICK m \in Memories : mem' = [mem EXCEPT ![w] = m] /\ KeepsReceipt(w, m)
  BY <1>1, SameMemory
<1> QED
  BY <1>1, <1>2, <1>3, SameStatus, SaveStep DEF ConfirmSettings, AfterStart, BeforeStart, Working

(* The response is recorded. *)
LEMMA SaveStartedCommands ==
  ASSUME IndInv, IndInv', CommandInv, NEW w \in Workers, SaveStarted(w)
  PROVE  CommandInv'
<1> DEFINE t == at[w].turn
           a == Attempted(exec, "RUNNING")
           c == [exec.pending EXCEPT !.status = "SENT", !.turn = t]
           e == [exec EXCEPT !.status = "RUNNING", !.pending = c, !.attempts = a]
<1>1. SaveAndReturn(w, e) /\ at[w].pc = "started"
  BY DEF SaveStarted, At
<1>2. /\ exec \in Executions /\ exec.pending \in Commands /\ exec.interrupt \in Interrupts
  BY RecordType
<1>3. /\ c.type = exec.pending.type /\ c.id = exec.pending.id /\ c.stage = exec.pending.stage
      /\ c.sel = exec.pending.sel /\ c.turn = t
  BY <1>2 DEF Commands
<1>4. OwnTurn(t)
  BY <1>1, ReturnNeeds DEF CommandInv, FreshKnows
<1>5. Len(a) = NAttempts /\ \A k \in 1..NAttempts : a[k].stage = exec.attempts[k].stage
  BY AttemptedType DEF AttemptStatuses
<1> HIDE DEF t, a, c
<1>6. SameStart(e)
  BY <1>2, <1>3, <1>4, <1>5 DEF SameStart, Executions
<1> HIDE DEF e
<1> QED
  BY <1>1, <1>6, ReturnStep DEF Working

-----------------------------------------------------------------------------
(* The saves after which no START is pending *)

(* A patch that leaves no START pending. *)
Ended(e) ==
  /\ e.pending.type # "START" /\ e.pending.id = 0 /\ e.pending.turn = 0 /\ e.interrupt.turn = 0
  /\ Len(e.attempts) = NAttempts
  /\ \A k \in 1..NAttempts : e.attempts[k].stage = exec.attempts[k].stage

(* A controller saves such a patch, when the START that was pending, if    *)
(* any, is over.                                                           *)
LEMMA EndStep ==
  ASSUME IndInv, IndInv', CommandInv, NEW w \in Workers, NEW q \in Positions, NEW m \in Memories,
         at' = [at EXCEPT ![w] = q], mem' = [mem EXCEPT ![w] = m],
         NEW e, Save(w, e), Ended(e), UNCHANGED envVars, KeepsReceipt(w, m),
         StartPending => Over(exec.pending.id),
         q.pc \in {"finish", "settings"}, q.pc = "settings" => SettingsFit(e),
         q.seen \in {NoThread, at[w].seen}
  PROVE  CommandInv'
<1>1. /\ w \in fresh /\ fresh' = {w} /\ exec' = e /\ holder = w /\ live
      /\ \A v \in Workers \ {w} : ~(holder' = v /\ live')
  BY SavingLease
<1>2. native' = native /\ stopping' = stopping /\ wire' = wire
  BY DEF envVars
<1>3. NAttempts' = NAttempts /\ AttemptsGrow /\ NAttempts \in Nat
  BY <1>1, RecordType DEF NAttempts, AttemptsGrow, Ended
<1>4. NamesOwnTurns' /\ ChoiceFits(exec')
  BY <1>1 DEF NamesOwnTurns, StartPending, ChoiceFits, Ended
<1>5. /\ exec'.pending.type = "START" => StartPending /\ exec'.pending.id = exec.pending.id
      /\ exec'.pending.type # "START" /\ StartPending => Over(exec.pending.id)
  BY <1>1 DEF Ended
<1>6. ~stopping'
  BY <1>2 DEF CommandInv, StopsPending, Over
<1>7. /\ q.pc \notin AfterStart /\ q.pc \notin {"starting", "armed", "started", "interrupt", "interrupting"}
      /\ q.pc \in BeforeStart => SettingsFit(exec')
  BY <1>1 DEF AfterStart, BeforeStart
<1>8. at'[w] = q /\ \A v \in Workers \ {w} : at'[v] = at[v]
  BY DEF IndInv, TypeOK
<1>9. m.receipt # "none" =>
           /\ m.cmd \in 1..NAttempts /\ m.cmd \notin wire' /\ ~Took(m.cmd)
           /\ \A v \in Workers : at'[v].pc \in {"starting", "armed"} => at'[v].id # m.cmd
  BY <1>2, <1>7, <1>8 DEF CommandInv, ReceiptsTrue, NeverRuns, Launching, KeepsReceipt
<1> QED
  BY <1>1, <1>2, <1>3, <1>4, <1>5, <1>6, <1>7, <1>9, WorkerStep

(* Before returning. *)
LEMMA EndReturn ==
  ASSUME IndInv, IndInv', CommandInv, NEW w \in Workers, NEW e, SaveAndReturn(w, e), Ended(e),
         StartPending => Over(exec.pending.id)
  PROVE  CommandInv'
<1>1. Save(w, e) /\ UNCHANGED envVars /\ mem' = mem
  BY DEF SaveAndReturn
<1>2. PICK q \in Positions : at' = [at EXCEPT ![w] = q] /\ q.pc = "finish" /\ q.seen = NoThread
  BY GotoStep DEF SaveAndReturn, Pcs
<1>3. PICK m \in Memories : mem' = [mem EXCEPT ![w] = m] /\ KeepsReceipt(w, m)
  BY <1>1, SameMemory
<1> QED
  BY <1>1, <1>2, <1>3, EndStep

(* What is released names no START. *)
LEMMA ReleasedEnds ==
  ASSUME IndInv, NEW outcome \in AttemptStatuses, NEW e,
         \E r \in Executions :
           /\ r.pending = NoCommand /\ r.interrupt = NoInterrupt
           /\ e.pending = r.pending /\ e.interrupt = r.interrupt
           /\ e.attempts = Attempted(exec, outcome)
  PROVE  Ended(e)
BY AttemptedType DEF Ended, NoCommand, NoInterrupt

(* A START that a receipt says was not taken is over. *)
LEMMA ReceiptOver ==
  ASSUME IndInv, CommandInv, NEW w \in Workers, Receipt(w) # "none"
  PROVE  StartPending /\ Over(exec.pending.id) /\ ~Took(exec.pending.id)
<1>1. mem[w].cmd = exec.pending.id /\ mem[w].receipt # "none"
  BY DEF Receipt
<1>2. exec.pending.id \in 1..NAttempts /\ NeverRuns(exec.pending.id)
  BY <1>1 DEF CommandInv, ReceiptsTrue
<1>3. StartPending
  BY <1>2, RecordType DEF CommandInv, NamesOwnTurns
<1>4. Busy(native) => Took(Current)
  BY ThreadType DEF IndInv, KnownIds, HasTurn, Took, Current
<1> QED
  BY <1>2, <1>3, <1>4 DEF NeverRuns, Over

(* A START whose turn was seen closed is over. *)
LEMMA ClosedOver ==
  ASSUME IndInv, CommandInv, NEW w \in Workers, Closed(w)
  PROVE  StartPending /\ Over(exec.pending.id) /\ Took(exec.pending.id)
<1> DEFINE b == exec.pending.base + 1
<1>1. Accepted(w) /\ ~Busy(at[w].seen)
  BY DEF Closed, Reconciled
<1>2. OwnTurn(b) /\ exec.pending.id # 0 /\ Len(at[w].seen.turns) = b
  BY <1>1, AcceptedOwn
<1> HIDE DEF b
<1>3. Took(exec.pending.id) /\ StartPending
  BY <1>2 DEF OwnTurn, Took
<1>4. exec.pending.id \notin wire
  BY <1>3 DEF CommandInv, WirePending
<1>5. \A v \in Workers : Launching(v) => at[v].id # exec.pending.id
  BY <1>3 DEF CommandInv, LaunchPending
<1>6. ~(Busy(native) /\ Current = exec.pending.id)
  <2> SUFFICES ASSUME Busy(native), Current = exec.pending.id PROVE FALSE
    OBVIOUS
  <2>1. Len(native.turns) \in 1..Len(native.turns)
    BY ThreadType DEF IndInv, KnownIds, HasTurn
  <2>2. Len(native.turns) = b
    BY <1>2, <2>1 DEF CommandInv, TakenOnce, OwnTurn, Current
  <2>3. PartOf(at[w].seen)
    BY DEF CommandInv, SeenKept
  <2> QED
    BY <1>1, <1>2, <2>2, <2>3 DEF PartOf
<1> QED
  BY <1>3, <1>4, <1>5, <1>6 DEF Over

(* A START is given up for a receipt. *)
LEMMA SettleCommands ==
  ASSUME IndInv, IndInv', CommandInv, NEW w \in Workers, Settle(w)
  PROVE  CommandInv'
<1> DEFINE e == Unaccepted(exec, Receipt(w))
           m == [mem[w] EXCEPT !.receipt = "none"]
<1>1. Save(w, e) /\ UNCHANGED envVars /\ Receipt(w) # "none"
  BY DEF Settle
<1>2. m \in Memories /\ KeepsReceipt(w, m)
  BY DEF IndInv, TypeOK, Memories, KeepsReceipt
<1>3. mem' = [mem EXCEPT ![w] = m]
  BY DEF Settle, IndInv, TypeOK
<1>4. PICK q \in Positions : at' = [at EXCEPT ![w] = q] /\ q.pc = "finish" /\ q.seen = NoThread
  BY GotoStep DEF Settle, Pcs
<1>5. Ended(e)
  <2>1. Released(exec) \in Executions /\ Released(exec).pending = NoCommand
        /\ Released(exec).interrupt = NoInterrupt
    BY RecordType, NothingPending DEF Released, Executions
  <2>2. /\ e.pending = Released(exec).pending /\ e.interrupt = Released(exec).interrupt
        /\ e.attempts = Attempted(exec, "FAILED")
    BY <2>1 DEF Unaccepted, Executions
  <2> QED
    BY <2>1, <2>2, ReleasedEnds DEF AttemptStatuses
<1>6. Over(exec.pending.id)
  BY <1>1, ReceiptOver
<1> HIDE DEF e, m
<1> QED
  BY <1>1, <1>2, <1>3, <1>4, <1>5, <1>6, EndStep

(* A START ends with its turn. *)
LEMMA ClosureCommands ==
  ASSUME IndInv, IndInv', CommandInv, NEW w \in Workers,
         Stopped(w) \/ Insufficient(w) \/ Sufficient(w)
  PROVE  CommandInv'
<1>1. Over(exec.pending.id)
  BY ClosedOver DEF Stopped, Insufficient, Sufficient, ClosedVerified
<1>2. \E e : SaveAndReturn(w, e) /\ Ended(e)
  <2>1. Released(exec) \in Executions /\ Released(exec).pending = NoCommand
        /\ Released(exec).interrupt = NoInterrupt
    BY RecordType, NothingPending DEF Released, Executions
  <2>2. CASE Stopped(w)
    <3> DEFINE s == StoppedStatus(at[w].seen.last)
               o == IF at[w].seen.last = "interrupted" THEN "INTERRUPTED" ELSE "FAILED"
               e == [Released(exec) EXCEPT !.status = s, !.attempts = Attempted(exec, o)]
    <3>1. SaveAndReturn(w, e)
      BY <2>2 DEF Stopped
    <3>2. o \in AttemptStatuses
      BY DEF AttemptStatuses
    <3>3. e.pending = Released(exec).pending /\ e.interrupt = Released(exec).interrupt
          /\ e.attempts = Attempted(exec, o)
      BY <2>1 DEF Executions
    <3> HIDE DEF e, o
    <3> QED
      BY <2>1, <3>1, <3>2, <3>3, ReleasedEnds
  <2>3. CASE Insufficient(w)
    <3> DEFINE s == IF exec.reason = "PAUSE" THEN "PAUSED"
                    ELSE IF exec.corrected THEN "BLOCKED" ELSE "RESUMING_STAGE"
               e == [Released(exec) EXCEPT !.attempts = Attempted(exec, "COMPLETED"),
                                           !.corrected = TRUE, !.status = s]
    <3>1. SaveAndReturn(w, e)
      BY <2>3 DEF Insufficient
    <3>2. e.pending = Released(exec).pending /\ e.interrupt = Released(exec).interrupt
          /\ e.attempts = Attempted(exec, "COMPLETED")
      BY <2>1 DEF Executions
    <3> HIDE DEF e
    <3> QED
      BY <2>1, <3>1, <3>2, ReleasedEnds DEF AttemptStatuses
  <2>4. CASE Sufficient(w)
    <3> DEFINE stageDone == at[w].seen.last = "COMPLETED"
               completed == IF stageDone THEN Append(exec.completed, exec.active) ELSE exec.completed
               done == Len(completed) = NStages
               s == IF at[w].seen.last = "BLOCKED" THEN "BLOCKED"
                    ELSE IF done THEN "COMPLETED"
                    ELSE IF exec.reason = "PAUSE" THEN "PAUSED" ELSE "RESUMING_STAGE"
               e == [Released(exec) EXCEPT
                      !.attempts = Attempted(exec, "COMPLETED"),
                      !.completed = completed,
                      !.active = NextActive(stageDone, done),
                      !.corrected = IF stageDone THEN FALSE ELSE @,
                      !.status = s]
    <3>1. SaveAndReturn(w, e)
      BY <2>4 DEF Sufficient
    <3>2. e.pending = Released(exec).pending /\ e.interrupt = Released(exec).interrupt
          /\ e.attempts = Attempted(exec, "COMPLETED")
      BY <2>1 DEF Executions
    <3> HIDE DEF e
    <3> QED
      BY <2>1, <3>1, <3>2, ReleasedEnds DEF AttemptStatuses
  <2> QED
    BY <2>2, <2>3, <2>4
<1> QED
  BY <1>1, <1>2, EndReturn

(* The pending intent is dropped. *)
LEMMA DroppedCommands ==
  ASSUME IndInv, IndInv', CommandInv, NEW w \in Workers, Exhausted(w) \/ SettingsRejected(w)
  PROVE  CommandInv'
<1>1. PICK status \in Statuses :
        \/ SaveAndReturn(w, [exec EXCEPT !.status = status, !.pending = NoCommand])
        \/ /\ SaveAndReturn(w, [exec EXCEPT !.status = status, !.pending.status = "PREPARED"])
           /\ at[w].pc = "configuring"
  BY DEF Exhausted, SettingsRejected, At, Statuses, Runnable, Terminal
<1>2. CASE SaveAndReturn(w, [exec EXCEPT !.status = status, !.pending.status = "PREPARED"])
           /\ at[w].pc = "configuring"
  BY <1>2, SameStatus, ReturnStep DEF Working
<1>3. CASE SaveAndReturn(w, [exec EXCEPT !.status = status, !.pending = NoCommand])
  <2> DEFINE e == [exec EXCEPT !.status = status, !.pending = NoCommand]
  <2>1. ~StartPending
    <3>1. w \in fresh
      BY <1>3, ReturnNeeds
    <3> QED
      BY <3>1, CurrentCopy DEF Exhausted, SettingsRejected, Free, At, BeforeStart, Working
  <2>2. exec.interrupt.turn = 0 /\ exec \in Executions /\ NAttempts = Len(exec.attempts)
    BY <2>1, RecordType DEF CommandInv, NamesOwnTurns, OwnTurn, NAttempts
  <2>3. Ended(e)
    BY <2>2 DEF Ended, Executions, NoCommand
  <2> HIDE DEF e
  <2> QED
    BY <1>3, <2>1, <2>3, EndReturn DEF e
<1> QED
  BY <1>1, <1>2, <1>3

(* A settings intent is prepared for the stage's choice, within budget. *)
LEMMA PrepareSettingsCommands ==
  ASSUME IndInv, IndInv', CommandInv, NEW w \in Workers, PrepareSettings(w)
  PROVE  CommandInv'
<1> DEFINE c == [NoCommand EXCEPT !.type = "SETTINGS", !.stage = exec.active,
                                  !.sel = exec.choice[exec.active], !.base = Len(at[w].seen.turns)]
           e == [exec EXCEPT !.status = "SWITCHING_MODEL", !.pending = c]
<1>1. /\ Save(w, e) /\ ~StartPending /\ ~BudgetSpent
      /\ GotoWith(w, "settings", 0, "NEW") /\ mem' = mem /\ UNCHANGED envVars
  BY DEF PrepareSettings, Startable, Free
<1>2. /\ c.type = "SETTINGS" /\ c.id = 0 /\ c.turn = 0 /\ c.stage = exec.active
      /\ c.sel = exec.choice[exec.active]
  BY DEF NoCommand
<1> HIDE DEF c
<1>3. /\ e.pending = c /\ e.active = exec.active /\ e.choice = exec.choice
      /\ e.attempts = exec.attempts /\ e.interrupt = exec.interrupt
  BY RecordType DEF Executions
<1> HIDE DEF e
<1>4. exec.interrupt.turn = 0
  BY <1>1 DEF CommandInv, NamesOwnTurns, OwnTurn
<1>5. Ended(e)
  BY <1>2, <1>3, <1>4 DEF Ended, NAttempts
<1>6. SettingsFit(e)
  <2>1. StageAttempts(exec, exec.active) \in Nat
    BY RecordType, CountType
  <2>2. StageAttempts(e, e.active) = StageAttempts(exec, exec.active)
    BY <1>3 DEF StageAttempts
  <2>3. StageAttempts(exec, exec.active) < MaxStageAttempts
    BY <1>1, <2>1, PlanAssumption DEF BudgetSpent
  <2> QED
    BY <1>2, <1>3, <2>2, <2>3 DEF SettingsFit
<1>7. PICK q \in Positions : at' = [at EXCEPT ![w] = q] /\ q.pc = "settings" /\ q.seen = NoThread
  BY <1>1, GotoWithStep DEF Pcs, Working
<1>8. PICK m \in Memories : mem' = [mem EXCEPT ![w] = m] /\ KeepsReceipt(w, m)
  BY <1>1, SameMemory
<1> QED
  BY <1>1, <1>5, <1>6, <1>7, <1>8, EndStep

(* The attempts of each stage when one more is appended.                   *)
LEMMA OneMoreCounted ==
  ASSUME NEW e, NEW f, NEW s,
         e.attempts \in Seq(Attempts), f.attempts \in Seq(Attempts),
         Len(f.attempts) = Len(e.attempts) + 1,
         \A k \in 1..Len(e.attempts) : f.attempts[k] = e.attempts[k]
  PROVE  StageAttempts(f, s) = StageAttempts(e, s)
                             + (IF s = f.attempts[Len(f.attempts)].stage THEN 1 ELSE 0)
<1> DEFINE n == Len(e.attempts)
           t == f.attempts[n + 1].stage
<1>0. n \in Nat
  OBVIOUS
<1> DEFINE A == {k \in DOMAIN e.attempts : e.attempts[k].stage = s}
           B == {k \in DOMAIN f.attempts : f.attempts[k].stage = s}
<1>1. DOMAIN e.attempts = 1..n /\ DOMAIN f.attempts = 1..(n + 1)
  OBVIOUS
<1>2. B = IF s = t THEN A \cup {n + 1} ELSE A
  BY <1>1
<1>3. n + 1 \notin A
  BY <1>1
<1>4. IsFiniteSet(A) /\ Cardinality(A) \in Nat
  <2>1. IsFiniteSet(A)
    BY ONLY e.attempts \in Seq(Attempts), CountType
  <2> HIDE DEF A
  <2> QED
    BY ONLY <2>1, FS_CardinalityType
<1>5. StageAttempts(e, s) = Cardinality(A) /\ StageAttempts(f, s) = Cardinality(B)
  BY DEF StageAttempts
<1> HIDE DEF A, B
<1>6. Cardinality(A \cup {n + 1}) = Cardinality(A) + 1
  BY <1>3, <1>4, FS_AddElement
<1>7. f.attempts[Len(f.attempts)].stage = t
  OBVIOUS
<1> HIDE DEF n, t
<1> QED
  BY <1>2, <1>4, <1>5, <1>6, <1>7

(* A START is prepared: the intent with a current copy behind it fits the  *)
(* stage's choice and budget, and no earlier START is left.                *)
LEMMA PrepareStartCommands ==
  ASSUME IndInv, IndInv', CommandInv, NEW w \in Workers, PrepareStart(w)
  PROVE  CommandInv'
<1> DEFINE id == Len(exec.attempts) + 1
           attempt == [stage |-> exec.active, status |-> "PREPARED", verified |-> FALSE]
           delivery == IF at[w].was = "NEW" THEN "PREPARED" ELSE at[w].was
           c == [exec.pending EXCEPT !.type = "START", !.id = id, !.status = delivery]
           a == Append(exec.attempts, attempt)
           e == [exec EXCEPT !.pending = c, !.attempts = a]
<1>1. /\ Save(w, e) /\ at[w].pc = "prepare"
      /\ GotoWith(w, "starting", id, "PREPARED") /\ UNCHANGED <<mem, envVars>>
  <2>1. Save(w, [exec EXCEPT !.pending.type = "START", !.pending.id = id,
                             !.pending.status = delivery, !.attempts = a])
    BY DEF PrepareStart
  <2>2. [exec EXCEPT !.pending.type = "START", !.pending.id = id,
                     !.pending.status = delivery, !.attempts = a] = e
    BY RecordType DEF Executions, Commands
  <2> QED
    BY <2>1, <2>2 DEF PrepareStart, At
<1>2. /\ w \in fresh /\ fresh' = {w} /\ exec' = e /\ holder = w /\ live
      /\ \A v \in Workers \ {w} : ~(holder' = v /\ live')
  BY <1>1, SavingLease
<1>3. ~StartPending /\ SettingsFit(exec)
  <2> HIDE DEF c, a, e
  <2>1. at[w].pc \in BeforeStart
    BY <1>1 DEF BeforeStart
  <2>2. SettingsFit(exec)
    BY <1>2, <2>1 DEF CommandInv, FreshKnows
  <2> QED
    BY <2>2 DEF SettingsFit, StartPending
<1>4. exec.pending.turn = 0 /\ exec.interrupt.turn = 0
  BY <1>3 DEF CommandInv, NamesOwnTurns, OwnTurn
<1>5. id \in Nat \ {0} /\ id = NAttempts + 1 /\ NAttempts \in Nat /\ attempt.stage = exec.active
  BY RecordType DEF NAttempts
<1>6. /\ Len(a) = id /\ a[id] = attempt /\ \A k \in 1..NAttempts : a[k] = exec.attempts[k]
  BY <1>5, RecordType DEF NAttempts
<1>7. /\ c.type = "START" /\ c.id = id /\ c.stage = exec.pending.stage
      /\ c.sel = exec.pending.sel /\ c.turn = 0
  BY <1>4, RecordType DEF Commands
<1>8. PICK q \in Positions : /\ at' = [at EXCEPT ![w] = q] /\ q.pc = "starting" /\ q.id = id
                             /\ q.seen = NoThread
  BY <1>1, <1>5, GotoWithStep DEF Pcs, Working, Delivery
<1> HIDE DEF attempt, c, a, id, delivery
<1>9. /\ exec'.pending = c /\ exec'.attempts = a /\ exec'.status = exec.status
      /\ exec'.active = exec.active /\ exec'.choice = exec.choice
      /\ exec'.interrupt = exec.interrupt /\ exec'.reason = exec.reason
  BY <1>2, RecordType DEF Executions
<1> HIDE DEF e
<1>10. native' = native /\ stopping' = stopping /\ wire' = wire /\ mem' = mem
  BY <1>1 DEF envVars
<1>11. StartPending' /\ exec'.pending.id = id /\ NAttempts' = NAttempts + 1
  BY <1>5, <1>6, <1>7, <1>9 DEF StartPending, NAttempts
<1>12. at'[w] = q /\ \A v \in Workers \ {w} : at'[v] = at[v]
  BY <1>8 DEF IndInv, TypeOK
<1>13. \A v \in Workers : ~Launching(v)
  BY <1>3 DEF CommandInv, LaunchPending
<1>14. \A v \in Workers : Launching(v)' => v = w
  BY <1>12, <1>13 DEF Launching
<1>15. ~Took(id)
  BY <1>5, ThreadType DEF KnownTurns, Took
<1>16. wire = {} /\ ~stopping /\ ~(Busy(native) /\ Current # 0)
  BY <1>3 DEF CommandInv, WirePending, RunsPending, StopsPending
<1>17. WirePending'
  BY <1>10, <1>16 DEF WirePending
<1>18. LaunchPending'
  <2>1. \A v \in Workers : Launching(v)' => at'[v].id = id
    BY <1>8, <1>12, <1>14
  <2>2. \A v \in Workers : Launching(v)' => ~Took(at[v].id)'
    BY <1>10, <1>15, <2>1 DEF Took
  <2> QED
    BY <1>10, <1>11, <1>14, <1>16, <2>1, <2>2 DEF LaunchPending
<1>19. RunsPending' /\ TakenOnce'
  BY <1>10, <1>16 DEF RunsPending, TakenOnce, Busy, Current, CommandInv
<1>20. ReceiptsTrue'
  <2> SUFFICES ASSUME NEW v \in Workers, mem[v].receipt # "none"
               PROVE  mem[v].cmd \in 1..NAttempts' /\ NeverRuns(mem[v].cmd)'
    BY <1>10 DEF ReceiptsTrue
  <2>1. mem[v].cmd \in 1..NAttempts /\ NeverRuns(mem[v].cmd)
    BY DEF CommandInv, ReceiptsTrue
  <2>2. \A u \in Workers : Launching(u)' => at'[u].id # mem[v].cmd
    BY <1>5, <1>8, <1>12, <1>14, <2>1
  <2> QED
    BY <1>5, <1>10, <1>11, <2>1, <2>2 DEF NeverRuns, Took
<1>21. SeenKept'
  <2>1. PartOf(NoThread)
    BY ThreadType DEF PartOf, NoThread, Busy, IndInv, KnownIds, HasTurn
  <2>2. \A v \in Workers : PartOf(at'[v].seen)
    BY <1>8, <1>12, <2>1 DEF CommandInv, SeenKept
  <2> QED
    BY <1>10, <2>2 DEF SeenKept, PartOf, Busy
<1>22. NamesOwnTurns'
  BY <1>4, <1>5, <1>7, <1>9, <1>11 DEF NamesOwnTurns
<1>23. FreshKnows'
  BY <1>2, <1>8, <1>11, <1>12 DEF FreshKnows, BeforeStart
<1>24. ChoiceFits(exec')
  BY <1>3, <1>7, <1>9 DEF ChoiceFits, SettingsFit
<1>25. StopsPending'
  BY <1>2, <1>8, <1>10, <1>12, <1>16 DEF StopsPending
<1>26. WithinBudget'
  <2> SUFFICES ASSUME NEW s \in Stages PROVE StageAttempts(exec', s) <= MaxStageAttempts
    BY DEF WithinBudget
  <2>1. exec.attempts \in Seq(Attempts) /\ exec'.attempts \in Seq(Attempts)
    BY DEF IndInv, TypeOK, Executions
  <2>2. Len(exec.attempts) = NAttempts /\ Len(exec'.attempts) = NAttempts + 1
    BY <1>5, <1>6, <1>9 DEF NAttempts
  <2>3. exec'.attempts[NAttempts + 1].stage = exec.active
    BY <1>5, <1>6, <1>9
  <2>4. \A k \in 1..NAttempts : exec'.attempts[k] = exec.attempts[k]
    BY <1>6, <1>9
  <2>5. StageAttempts(exec', s) = StageAttempts(exec, s) + (IF s = exec.active THEN 1 ELSE 0)
    <3>1. PICK b, f : b = exec /\ f = exec'
      OBVIOUS
    <3>2. /\ b.attempts \in Seq(Attempts) /\ f.attempts \in Seq(Attempts)
          /\ Len(f.attempts) = Len(b.attempts) + 1
          /\ \A k \in 1..Len(b.attempts) : f.attempts[k] = b.attempts[k]
      BY ONLY <2>1, <2>2, <2>4, <3>1
    <3>3. StageAttempts(f, s) = StageAttempts(b, s)
                              + (IF s = f.attempts[Len(f.attempts)].stage THEN 1 ELSE 0)
      BY ONLY <3>2, OneMoreCounted
    <3>4. f.attempts[Len(f.attempts)].stage = exec.active
      BY ONLY <2>2, <2>3, <3>1
    <3> QED
      BY ONLY <3>1, <3>3, <3>4 DEF StageAttempts
  <2>6. StageAttempts(exec, s) \in Nat /\ StageAttempts(exec, exec.active) \in Nat
    BY ONLY <2>1, CountType
  <2>7. StageAttempts(exec, s) <= MaxStageAttempts
    BY DEF CommandInv, WithinBudget
  <2>8. StageAttempts(exec, exec.active) < MaxStageAttempts
    BY <1>3 DEF SettingsFit
  <2> QED
    BY <2>5, <2>6, <2>7, <2>8, PlanAssumption
<1> QED
  BY <1>17, <1>18, <1>19, <1>20, <1>21, <1>22, <1>23, <1>24, <1>25, <1>26 DEF CommandInv

-----------------------------------------------------------------------------
(* Operators *)

(* A request that keeps the START that is pending, if any, and what is     *)
(* known of it: its turn may be named as one to interrupt.                 *)
KeepsStart(e) ==
  /\ e.attempts = exec.attempts /\ e.completed = exec.completed
  /\ e.pending.type = "START" <=> StartPending
  /\ e.pending.id = exec.pending.id /\ e.pending.turn = exec.pending.turn
  /\ \/ e.interrupt.turn = exec.interrupt.turn
     \/ exec.interrupt.turn = 0 /\ e.interrupt.turn = exec.pending.turn
  /\ StartPending /\ exec.reason # "NONE" => e.reason # "NONE"

(* Such a request keeps the invariant: controllers that were in the middle *)
(* of something find their copy of the record out of date.                 *)
LEMMA RequestStep ==
  ASSUME IndInv, IndInv', CommandInv, NEW e, NEW pause, Request(e, pause),
         KeepsStart(e), ChoiceFits(e)
  PROVE  CommandInv'
<1> USE DEF CommandInv
<1>1. /\ exec' = e /\ at' = at /\ mem' = mem /\ native' = native /\ wire' = wire
      /\ stopping' = stopping /\ fresh' = {} /\ holder' = holder /\ live' = live
  BY DEF Request, ForeignWrite, envVars
<1>2. /\ StartPending' <=> StartPending
      /\ exec'.pending.id = exec.pending.id /\ exec'.pending.turn = exec.pending.turn
      /\ NAttempts' = NAttempts
  BY <1>1 DEF KeepsStart, StartPending, NAttempts
<1>3. WirePending' /\ LaunchPending' /\ RunsPending' /\ TakenOnce'
  BY <1>1, <1>2 DEF WirePending, LaunchPending, RunsPending, TakenOnce, Took, Launching, Busy, Current
<1>4. ReceiptsTrue' /\ SeenKept'
  BY <1>1, <1>2 DEF ReceiptsTrue, NeverRuns, Took, Launching, SeenKept, PartOf, Busy
<1>5. NamesOwnTurns'
  BY <1>1, <1>2 DEF NamesOwnTurns, OwnTurn, KeepsStart
<1>6. FreshKnows' /\ ChoiceFits(exec')
  BY <1>1 DEF FreshKnows
<1>7. StopsPending'
  BY <1>1, <1>2 DEF StopsPending, KeepsStart, Busy, Current
<1>8. WithinBudget'
  BY <1>1 DEF WithinBudget, StageAttempts, KeepsStart
<1> QED
  BY <1>3, <1>4, <1>5, <1>6, <1>7, <1>8

(* What a changed choice leaves. *)
LEMMA RechosenKeeps ==
  ASSUME IndInv, CommandInv, NEW choice \in [Stages -> Models]
  PROVE  /\ KeepsStart(Rechosen(choice))
         /\ \/ exec.choice[exec.active] = choice[exec.active]
            \/ exec.status \notin Runnable \/ exec.reason # "NONE" \/ ~StartPending
            => ChoiceFits(Rechosen(choice))
<1> DEFINE e == Rechosen(choice)
<1>1. /\ e.active = exec.active /\ e.status = exec.status /\ e.pending = exec.pending
      /\ e.attempts = exec.attempts /\ e.reason = exec.reason /\ e.interrupt = exec.interrupt
      /\ e.choice = choice /\ e.completed = exec.completed
  BY RecordType DEF Rechosen, Executions
<1> HIDE DEF e
<1>2. KeepsStart(e)
  BY <1>1 DEF KeepsStart, StartPending
<1>3. \/ exec.choice[exec.active] = choice[exec.active]
      \/ exec.status \notin Runnable \/ exec.reason # "NONE" \/ ~StartPending
      => ChoiceFits(e)
  BY <1>1 DEF CommandInv, ChoiceFits, StartPending
<1> QED
  BY <1>2, <1>3 DEF e

(* interrupt() withdraws an intent that was not sent, and keeps a START it *)
(* wants stopped.                                                          *)
LEMMA InterruptedKeeps ==
  ASSUME IndInv, CommandInv, NEW choice \in [Stages -> Models], NEW reason \in {"PAUSE", "OVERRIDE"}
  PROVE  LET f == Interrupted(Rechosen(choice), reason) IN KeepsStart(f) /\ ChoiceFits(f)
<1> DEFINE e == Rechosen(choice)
           f == Interrupted(e, reason)
<1>1. /\ e \in Executions /\ e.active = exec.active /\ e.completed = exec.completed
      /\ e.pending = exec.pending /\ e.attempts = exec.attempts /\ e.interrupt = exec.interrupt
  BY RecordType DEF Rechosen, Executions
<1> HIDE DEF e
<1>2. CASE ~StartPending
  <2>1. f = Withdrawn(e, reason)
    BY <1>1, <1>2 DEF Interrupted, StartPending
  <2>2. /\ Released(e) \in Executions /\ Released(e).attempts = exec.attempts
        /\ Released(e).completed = exec.completed /\ Released(e).pending = NoCommand /\ Released(e).interrupt = NoInterrupt
    BY <1>1, NothingPending DEF Released, Executions
  <2>3. /\ f.attempts = exec.attempts /\ f.completed = exec.completed
        /\ f.pending = NoCommand /\ f.interrupt = NoInterrupt
    BY <2>1, <2>2 DEF Withdrawn, Executions
  <2> HIDE DEF f
  <2>4. exec.pending.id = 0 /\ exec.pending.turn = 0 /\ exec.interrupt.turn = 0
    BY <1>2, RecordType DEF CommandInv, NamesOwnTurns, OwnTurn
  <2>5. KeepsStart(f) /\ ChoiceFits(f)
    BY <1>2, <2>3, <2>4 DEF KeepsStart, ChoiceFits, NoCommand, NoInterrupt
  <2> QED
    BY <2>5 DEF f, e
<1>3. CASE StartPending
  <2> DEFINE i == IF e.interrupt.turn = 0 THEN [NoInterrupt EXCEPT !.turn = e.pending.turn] ELSE e.interrupt
  <2>1. f = [e EXCEPT !.reason = reason, !.status = "SWITCHING_MODEL", !.interrupt = i]
    BY <1>1, <1>3 DEF Interrupted, ToInterrupt, StartPending, Executions
  <2>2. \/ i.turn = exec.interrupt.turn
        \/ exec.interrupt.turn = 0 /\ i.turn = exec.pending.turn
    BY <1>1 DEF NoInterrupt
  <2> HIDE DEF i, f
  <2>3. /\ f.attempts = exec.attempts /\ f.completed = exec.completed
        /\ f.pending = exec.pending /\ f.active = exec.active /\ f.reason = reason /\ f.interrupt = i
    BY <1>1, <2>1 DEF Executions
  <2>4. KeepsStart(f)
    BY <1>3, <2>2, <2>3 DEF KeepsStart, StartPending
  <2>5. ChoiceFits(f)
    BY <1>3, <2>3 DEF CommandInv, ChoiceFits, StartPending
  <2> QED
    BY <2>4, <2>5 DEF f, e
<1> QED
  BY <1>2, <1>3

(* pause, resume and override are such requests. *)
LEMMA OperatorKeeps ==
  ASSUME IndInv, CommandInv, Operator
  PROVE  \E e, pause : Request(e, pause) /\ KeepsStart(e) /\ ChoiceFits(e)
<1>1. CASE Pause
  <2>1. Rechosen(exec.choice) = exec /\ exec.choice \in [Stages -> Models]
    BY RecordType DEF Rechosen, Executions
  <2>2. Request(Interrupted(exec, "PAUSE"), TRUE)
    BY <1>1 DEF Pause
  <2>3. KeepsStart(Interrupted(exec, "PAUSE")) /\ ChoiceFits(Interrupted(exec, "PAUSE"))
    BY <2>1, InterruptedKeeps
  <2> QED
    BY <2>2, <2>3
<1>2. CASE Resume
  <2> DEFINE e == [exec EXCEPT !.status = "RESUMING_STAGE"]
  <2>1. Request(e, FALSE) /\ ~StartPending
    BY <1>2 DEF Resume, CanResume
  <2>2. KeepsStart(e) /\ ChoiceFits(e)
    BY <2>1, RecordType DEF KeepsStart, ChoiceFits, Executions, StartPending
  <2> HIDE DEF e
  <2> QED
    BY <2>1, <2>2
<1>3. ASSUME NEW s \in Stages, NEW m \in Models, Override(s, m)
      PROVE  \E e, pause : Request(e, pause) /\ KeepsStart(e) /\ ChoiceFits(e)
  <2> DEFINE choice == [exec.choice EXCEPT ![s] = m]
             reason == IF exec.reason = "PAUSE" THEN "PAUSE" ELSE "OVERRIDE"
             e == Rechosen(choice)
  <2>1. choice \in [Stages -> Models] /\ reason \in {"PAUSE", "OVERRIDE"}
    BY RecordType
  <2>2. [exec EXCEPT !.choice[s] = m] = e
    BY DEF Rechosen
  <2>3. e.reason = exec.reason
    BY <2>1, RechosenPatch
  <2>4. s # exec.active => exec.choice[exec.active] = choice[exec.active]
    BY RecordType
  <2> HIDE DEF choice
  <2>5. CASE s = exec.active /\ exec.status # "BLOCKED"
    <3>1. Request(Interrupted(e, reason), held)
      BY <1>3, <2>2, <2>3, <2>5 DEF Override
    <3> HIDE DEF reason
    <3>2. KeepsStart(Interrupted(e, reason)) /\ ChoiceFits(Interrupted(e, reason))
      BY <2>1, InterruptedKeeps
    <3> QED
      BY <3>1, <3>2
  <2>6. CASE ~(s = exec.active /\ exec.status # "BLOCKED")
    <3>1. Request(e, held)
      BY <1>3, <2>2, <2>6 DEF Override
    <3>2. KeepsStart(e) /\ ChoiceFits(e)
      BY <2>1, <2>4, <2>6, RechosenKeeps DEF Runnable
    <3> QED
      BY <3>1, <3>2
  <2> QED
    BY <2>5, <2>6
<1> QED
  BY <1>1, <1>2, <1>3 DEF Operator

(* They keep the invariant. *)
LEMMA OperatorCommands ==
  ASSUME IndInv, IndInv', CommandInv, Operator
  PROVE  CommandInv'
BY OperatorKeeps, RequestStep

-----------------------------------------------------------------------------
(* The agent and its users *)

(* A step of the agent at which the turns it has keep their commands, and  *)
(* only a request that was on its way becomes a turn or part of one.       *)
LEMMA AgentStep ==
  ASSUME IndInv, CommandInv, UNCHANGED <<fenceVars, exec, at, mem, histVars>>, wire' \subseteq wire,
         Len(native'.turns) \in Nat, Len(native.turns) <= Len(native'.turns),
         \A i \in 1..Len(native.turns) :
           native.turns[i] # 0 => native'.turns[i] = native.turns[i],
         \A i \in 1..Len(native'.turns) : native'.turns[i] # 0 =>
           \/ i \in 1..Len(native.turns) /\ native'.turns[i] = native.turns[i]
           \/ native'.turns[i] \in wire \ wire',
         Len(native'.turns) = Len(native.turns) /\ Busy(native)' => Busy(native),
         RunsPending', TakenOnce',
         stopping' => stopping /\ Busy(native)' /\ Current' = Current
  PROVE  CommandInv'
<1> USE DEF CommandInv
<1>1. /\ exec' = exec /\ at' = at /\ mem' = mem /\ fresh' = fresh /\ holder' = holder
      /\ live' = live /\ NAttempts' = NAttempts /\ (StartPending' <=> StartPending)
  BY DEF fenceVars, NAttempts, StartPending
<1>2. /\ Len(native.turns) \in Nat /\ wire \subseteq 1..NAttempts /\ NAttempts \in Nat
      /\ exec.pending.id \in Nat
  BY ThreadType, RecordType DEF Commands
<1>3. ASSUME NEW k, k # 0, k \notin wire \/ k \in wire', ~Took(k)
      PROVE  ~Took(k)'
  <2> SUFFICES ASSUME NEW i \in 1..Len(native'.turns), native'.turns[i] = k PROVE FALSE
    BY DEF Took
  <2>1. i \in 1..Len(native.turns) /\ native.turns[i] = k
    <3>1. native'.turns[i] # 0 =>
            \/ i \in 1..Len(native.turns) /\ native'.turns[i] = native.turns[i]
            \/ native'.turns[i] \in wire \ wire'
      OBVIOUS
    <3>2. ~(k \in wire \ wire')
      BY ONLY <1>3
    <3>3. native'.turns[i] = k
      OBVIOUS
    <3> QED
      BY ONLY <1>3, <3>1, <3>2, <3>3
  <2> QED
    BY <1>3, <2>1 DEF Took
<1>4. WirePending'
  <2> SUFFICES ASSUME NEW k \in wire' PROVE StartPending /\ k = exec.pending.id /\ ~Took(k)'
    BY <1>1 DEF WirePending
  <2>1. k \in wire
    OBVIOUS
  <2>2. WirePending
    BY DEF CommandInv
  <2>3. StartPending /\ k = exec.pending.id /\ ~Took(k)
    BY ONLY <2>1, <2>2 DEF WirePending
  <2>4. k # 0
    BY ONLY <1>2, <2>1
  <2> QED
    BY <1>3, <2>3, <2>4
<1>5. LaunchPending'
  <2>1. ASSUME NEW w \in Workers, Launching(w)
        PROVE  /\ StartPending /\ at[w].id = exec.pending.id /\ at[w].id \notin wire'
               /\ at[w].id # 0 /\ ~Took(at[w].id) /\ at[w].id \notin wire
    BY <1>2, <2>1 DEF LaunchPending, Launching, IndInv, KnownIds
  <2>2. ASSUME NEW w \in Workers, Launching(w) PROVE ~Took(at[w].id)'
    <3>1. PICK k : k = at[w].id
      OBVIOUS
    <3>2. ~Took(k)'
      BY <1>3, <2>1, <2>2, <3>1
    <3> QED
      BY <1>1, <3>1, <3>2 DEF Took
  <2>3. \A w \in Workers : Launching(w)' <=> Launching(w)
    BY <1>1 DEF Launching
  <2> QED
    BY <1>1, <2>1, <2>2, <2>3 DEF LaunchPending
<1>6. ReceiptsTrue'
  <2> SUFFICES ASSUME NEW w \in Workers, mem[w].receipt # "none"
               PROVE  mem[w].cmd \in 1..NAttempts /\ NeverRuns(mem[w].cmd)'
    BY <1>1 DEF ReceiptsTrue
  <2>1. PICK k : k = mem[w].cmd
    OBVIOUS
  <2>2. k \in 1..NAttempts /\ NeverRuns(k)
    BY <2>1 DEF ReceiptsTrue
  <2>3. ~Took(k)'
    BY <1>2, <1>3, <2>2 DEF NeverRuns
  <2>4. NeverRuns(k)'
    BY <1>1, <2>2, <2>3 DEF NeverRuns, Launching
  <2> QED
    BY <1>1, <2>1, <2>2, <2>4 DEF NeverRuns, Took
<1>7. SeenKept'
  <2> SUFFICES ASSUME NEW w \in Workers PROVE PartOf(at[w].seen)'
    BY <1>1 DEF SeenKept
  <2>1. at[w].seen \in Threads /\ PartOf(at[w].seen)
    BY DEF SeenKept, IndInv, TypeOK, Positions
  <2>2. PICK t \in Threads : t = at[w].seen /\ PartOf(t)
    BY <2>1
  <2>3. Len(t.turns) \in Nat
    BY <2>2 DEF Threads
  <2>4. /\ Len(t.turns) <= Len(native'.turns)
        /\ \A i \in 1..Len(t.turns) : t.turns[i] # 0 => native'.turns[i] = t.turns[i]
    <3>1. /\ Len(t.turns) <= Len(native.turns)
          /\ \A i \in 1..Len(t.turns) : t.turns[i] # 0 => native.turns[i] = t.turns[i]
      BY <2>2 DEF PartOf
    <3>2. \A i \in 1..Len(t.turns) : i \in 1..Len(native.turns)
      BY ONLY <1>2, <2>3, <3>1
    <3> QED
      BY <1>2, <2>3, <3>1, <3>2
  <2>5. Len(t.turns) = Len(native'.turns) /\ Busy(native)' => Busy(t)
    <3>1. Len(t.turns) <= Len(native.turns) /\ (Len(t.turns) = Len(native.turns) /\ Busy(native) => Busy(t))
      BY <2>2 DEF PartOf
    <3>2. Len(t.turns) = Len(native'.turns) => Len(native.turns) = Len(native'.turns)
      BY <1>2, <2>3, <3>1
    <3> QED
      BY <3>1, <3>2
  <2> QED
    BY <1>1, <2>2, <2>4, <2>5 DEF PartOf, Busy
<1>8. ASSUME NEW i, OwnTurn(i) PROVE OwnTurn(i)'
  <2>1. /\ StartPending /\ i \in 1..Len(native.turns) /\ native.turns[i] = exec.pending.id
        /\ exec.pending.id # 0
    BY <1>8 DEF OwnTurn, NamesOwnTurns
  <2> QED
    BY <1>1, <1>2, <2>1 DEF OwnTurn
<1>9. NamesOwnTurns'
  <2>1. PICK i, j : i = exec.pending.turn /\ j = exec.interrupt.turn
    OBVIOUS
  <2>2. (i # 0 => OwnTurn(i)') /\ (j # 0 => OwnTurn(j)')
    BY <1>8, <2>1 DEF NamesOwnTurns
  <2> QED
    BY <1>1, <2>1, <2>2 DEF NamesOwnTurns, OwnTurn
<1>10. FreshKnows'
  <2> SUFFICES ASSUME NEW w \in fresh, at[w].pc = "started" PROVE OwnTurn(at[w].turn)'
    BY <1>1 DEF FreshKnows, SettingsFit, StageAttempts
  <2>1. PICK i : i = at[w].turn /\ OwnTurn(i)'
    BY <1>8 DEF FreshKnows
  <2> QED
    BY <1>1, <2>1 DEF OwnTurn
<1>11. ChoiceFits(exec') /\ WithinBudget'
  BY <1>1 DEF WithinBudget, StageAttempts
<1>12. StopsPending'
  BY <1>1 DEF StopsPending
<1> QED
  BY <1>4, <1>5, <1>6, <1>7, <1>9, <1>10, <1>11, <1>12

(* What a request finds that reaches the agent: it is the pending START,   *)
(* and a turn it joins is a user's.                                        *)
LEMMA RequestArrives ==
  ASSUME IndInv, CommandInv, NEW k \in wire
  PROVE  /\ StartPending /\ k = exec.pending.id /\ ~Took(k) /\ k # 0
         /\ ~stopping /\ (Busy(native) => Current = 0)
<1>1. StartPending /\ k = exec.pending.id /\ ~Took(k) /\ k # 0
  BY ThreadType DEF CommandInv, WirePending
<1>2. Busy(native) => Took(Current)
  BY ThreadType DEF IndInv, KnownIds, HasTurn, Took, Current
<1>3. Busy(native) => Current = 0
  BY <1>1, <1>2 DEF CommandInv, RunsPending
<1> QED
  BY <1>1, <1>3 DEF CommandInv, StopsPending

(* A request starts a turn, or joins one. *)
LEMMA AcceptCommands ==
  ASSUME IndInv, CommandInv, NEW k, NativeAccept(k)
  PROVE  CommandInv'
<1> DEFINE n == Len(native.turns)
<1>1. /\ k \in wire /\ wire' = wire \ {k} /\ stopping' = stopping /\ proven' = proven
      /\ UNCHANGED <<fenceVars, exec, at, mem, histVars>>
  BY DEF NativeAccept
<1>2. /\ StartPending /\ k = exec.pending.id /\ ~Took(k) /\ k # 0
      /\ ~stopping /\ (Busy(native) => Current = 0)
  BY <1>1, RequestArrives
<1>3. n \in Nat /\ native.turns \in Seq(Nat) /\ k \in Nat /\ native \in Threads
  BY <1>1, ThreadType DEF Threads
<1>4. PICK p \in 1..(n + 1) :
        /\ Len(native'.turns) \in Nat /\ p = Len(native'.turns) /\ n <= p
        /\ native'.turns[p] = k
        /\ \A i \in 1..p : i # p => i \in 1..n /\ native'.turns[i] = native.turns[i]
        /\ p \in 1..n => Busy(native) /\ native.turns[p] = 0
  <2>1. CASE Busy(native)
    <3> DEFINE turns == [native.turns EXCEPT ![n] = k]
    <3>1. n \in 1..n
      BY <2>1, <1>3 DEF IndInv, KnownIds, HasTurn
    <3>2. Len(turns) = n /\ turns[n] = k /\ \A i \in 1..n : i # n => turns[i] = native.turns[i]
      BY <1>3, <3>1
    <3>3. native'.turns = turns
      BY <2>1, <1>3 DEF NativeAccept, Threads
    <3> HIDE DEF turns
    <3> QED
      BY <1>2, <1>3, <2>1, <3>1, <3>2, <3>3 DEF Current
  <2>2. CASE ~Busy(native)
    <3> DEFINE turns == Append(native.turns, k)
    <3>1. Len(turns) = n + 1 /\ turns[n + 1] = k /\ \A i \in 1..n : turns[i] = native.turns[i]
      BY <1>3
    <3>2. native'.turns = turns
      BY <2>2 DEF NativeAccept
    <3>5. n \in Nat
      BY ONLY <1>3
    <3> HIDE DEF turns, n
    <3>3. /\ n + 1 \in 1..(n + 1) /\ n + 1 \notin 1..n /\ n <= n + 1 /\ n + 1 \in Nat
          /\ \A i \in 1..(n + 1) : i # n + 1 => i \in 1..n
      BY ONLY <3>5
    <3>4. /\ Len(native'.turns) = n + 1 /\ native'.turns[n + 1] = k
          /\ \A i \in 1..n : native'.turns[i] = native.turns[i]
      BY ONLY <3>1, <3>2
    <3> QED
      BY ONLY <3>3, <3>4
  <2> QED
    BY <2>1, <2>2
<1>5. exec' = exec
  BY <1>1
<1>6. RunsPending'
  BY <1>2, <1>4, <1>5 DEF RunsPending, Current, StartPending
<1>7. TakenOnce'
  <2> SUFFICES ASSUME NEW i \in 1..p, NEW j \in 1..p,
                      native'.turns[i] = native'.turns[j], i # j
               PROVE  native'.turns[i] = 0
    BY <1>4 DEF TakenOnce
  <2>1. \A h \in 1..n : native.turns[h] # k
    BY <1>2 DEF Took
  <2>2. i # p /\ j # p
    BY ONLY <1>4, <2>1, i \in 1..p, j \in 1..p, native'.turns[i] = native'.turns[j], i # j
  <2>3. /\ i \in 1..n /\ native'.turns[i] = native.turns[i]
        /\ j \in 1..n /\ native'.turns[j] = native.turns[j]
    BY ONLY <1>4, <2>2, i \in 1..p, j \in 1..p
  <2>4. TakenOnce
    BY DEF CommandInv
  <2> QED
    BY ONLY <2>3, <2>4, native'.turns[i] = native'.turns[j], i # j DEF TakenOnce
<1>8. \A i \in 1..n : native.turns[i] # 0 => native'.turns[i] = native.turns[i]
  BY <1>3, <1>4
<1>9. \A i \in 1..Len(native'.turns) : native'.turns[i] # 0 =>
           \/ i \in 1..n /\ native'.turns[i] = native.turns[i]
           \/ native'.turns[i] \in wire \ wire'
  BY <1>1, <1>4
<1>10. Len(native'.turns) = n => Busy(native)
  BY <1>3, <1>4
<1> QED
  BY <1>1, <1>2, <1>4, <1>6, <1>7, <1>8, <1>9, <1>10, AgentStep

(* A request is lost, a turn ends, or a user adds to it: no turn changes   *)
(* hands and none begins.                                                  *)
LEMMA ThreadCommands ==
  ASSUME IndInv, CommandInv,
         (\E k \in wire : NativeLose(k)) \/ NativeClose \/ UserSteer
  PROVE  CommandInv'
<1>1. /\ UNCHANGED <<fenceVars, exec, at, mem, histVars>> /\ wire' \subseteq wire
      /\ exec' = exec
  BY DEF NativeLose, NativeClose, UserSteer
<1>2. native'.turns = native.turns /\ (Busy(native)' => Busy(native))
  BY ThreadType DEF NativeLose, NativeClose, UserSteer, Threads, Busy, Outcomes
<1>3. stopping' => stopping /\ Busy(native)'
  BY <1>2 DEF NativeLose, NativeClose, UserSteer, CommandInv, StopsPending, Busy, Threads, IndInv, TypeOK
<1>4. RunsPending' /\ TakenOnce'
  BY <1>1, <1>2 DEF CommandInv, RunsPending, TakenOnce, Current, StartPending
<1> QED
  BY <1>1, <1>2, <1>3, <1>4, ThreadType, AgentStep DEF Current

(* A user's turn begins. *)
LEMMA UserTurnCommands ==
  ASSUME IndInv, CommandInv, UserTurn
  PROVE  CommandInv'
<1> DEFINE n == Len(native.turns)
           turns == Append(native.turns, 0)
<1>1. /\ UNCHANGED <<fenceVars, exec, at, mem, histVars>> /\ wire' = wire /\ stopping' = stopping
      /\ ~Busy(native) /\ native'.turns = turns
  BY DEF UserTurn
<1>2. /\ n \in Nat /\ Len(turns) = n + 1 /\ turns[n + 1] = 0
      /\ \A i \in 1..n : turns[i] = native.turns[i]
  BY ThreadType DEF Threads
<1> HIDE DEF turns
<1>3. ~stopping'
  BY <1>1 DEF CommandInv, StopsPending
<1>4. RunsPending' /\ TakenOnce'
  BY <1>1, <1>2 DEF CommandInv, RunsPending, TakenOnce, Current
<1>5. \A i \in 1..Len(native'.turns) : native'.turns[i] # 0 =>
        i \in 1..n /\ native'.turns[i] = native.turns[i]
  BY <1>1, <1>2
<1> QED
  BY <1>1, <1>2, <1>3, <1>4, <1>5, AgentStep

(* A step that leaves everything but the lease.                            *)
LEMMA LapseCommands ==
  ASSUME IndInv, CommandInv, Lapse \/ UNCHANGED vars
  PROVE  CommandInv'
<1>1. /\ exec' = exec /\ at' = at /\ mem' = mem /\ native' = native /\ wire' = wire
      /\ stopping' = stopping /\ fresh' = fresh /\ holder' = holder /\ (live' => live)
  BY DEF Lapse, Expire, vars, envVars
<1> USE DEF CommandInv
<1>2. WirePending' /\ LaunchPending' /\ RunsPending' /\ TakenOnce'
  BY <1>1 DEF WirePending, LaunchPending, RunsPending, TakenOnce, Took, Launching, Busy, Current,
              StartPending
<1>3. ReceiptsTrue' /\ SeenKept'
  BY <1>1 DEF ReceiptsTrue, NeverRuns, Took, Launching, SeenKept, PartOf, Busy, NAttempts
<1>4. NamesOwnTurns' /\ FreshKnows' /\ ChoiceFits(exec')
  BY <1>1 DEF NamesOwnTurns, OwnTurn, FreshKnows, StartPending
<1>5. StopsPending' /\ WithinBudget'
  BY <1>1 DEF StopsPending, WithinBudget, Busy, Current, StartPending, StageAttempts
<1> QED
  BY <1>2, <1>3, <1>4, <1>5

-----------------------------------------------------------------------------
(* The theorems *)

(* Every step of a controller keeps the invariant. *)
LEMMA ContinueCommands ==
  ASSUME IndInv, IndInv', CommandInv, NEW w \in Workers, Continue(w) \/ Disturb(w)
  PROVE  CommandInv'
BY AsideCommands, ReadThreadCommands, FinishCommands, MemoryCommands, SettingsCommands,
   ArmStartCommands, BeginInterruptCommands, InterruptCommands, SendStartCommands,
   RefusalCommands, RespondedCommands, StatusCommands, WatchCommands, NotesCommands,
   InterruptSaves, ConfirmSettingsCommands, SaveStartedCommands, SettleCommands,
   ClosureCommands, DroppedCommands, PrepareSettingsCommands, PrepareStartCommands
   DEF Continue, Disturb

(* Every step of the system keeps the invariant. *)
LEMMA CommandNext == IndInv /\ IndInv' /\ CommandInv /\ [Next]_vars => CommandInv'
<1> SUFFICES ASSUME IndInv, IndInv', CommandInv, [Next]_vars PROVE CommandInv'
  OBVIOUS
<1>1. CASE \E w \in Workers : Continue(w) \/ Disturb(w)
  BY <1>1, ContinueCommands
<1>2. CASE Operator
  BY <1>2, OperatorCommands
<1>3. CASE Agent
  BY <1>3, AcceptCommands, ThreadCommands, UserTurnCommands DEF Agent
<1>4. CASE Lapse \/ UNCHANGED vars
  BY <1>4, LapseCommands
<1> QED
  BY <1>1, <1>2, <1>3, <1>4 DEF Next

(* What controllers, the wire, the agent and the record know of each       *)
(* START agrees in every reachable state.                                  *)
THEOREM CommandsInvariant == Spec => []CommandInv
<1>1. Spec => []IndInv
  BY Invariance
<1> QED
  BY <1>1, CommandInit, CommandNext, PTL DEF Spec

(* At most one START is outstanding in the agent, and it is the one the    *)
(* record names as pending: a command is given up only on proof that it    *)
(* will never run, whoever held the lease when it was sent                 *)
(* (settleUnaccepted, the closure branches of advance(), interrupt()).     *)
THEOREM OneIsOutstanding == Spec => []OneOutstanding
<1>1. IndInv /\ CommandInv => OneOutstanding
  <2> SUFFICES ASSUME IndInv, CommandInv, NEW k \in Outstanding
               PROVE  StartPending /\ k = exec.pending.id
    BY DEF OneOutstanding
  <2>1. CASE k \in wire
    BY <2>1 DEF CommandInv, WirePending
  <2>2. CASE k \in Running
    BY <2>2 DEF Running, CommandInv, RunsPending
  <2>3. CASE k \in {at[w].id : w \in {v \in Workers : at[v].pc = "armed" /\ holder = v /\ live}}
    BY <2>3 DEF CommandInv, LaunchPending, Launching
  <2> QED
    BY <2>1, <2>2, <2>3 DEF Outstanding
<1> QED
  BY <1>1, Invariance, CommandsInvariant, PTL

(* A paused or finished execution is at rest in the agent too: no START is *)
(* pending, on the wire, about to be sent or running.                      *)
THEOREM RestIsQuiet == Spec => []QuietAtRest
<1>1. IndInv /\ OneOutstanding => QuietAtRest
  BY DEF IndInv, RestReleased, OneOutstanding, QuietAtRest
<1> QED
  BY <1>1, Invariance, OneIsOutstanding, PTL

(* No stage starts more native turns than its budget, over all controllers *)
(* and restarts, and every managed turn has a durable attempt of its own.  *)
THEOREM TurnsWithinBudget == Spec => []TurnBudget
<1>1. IndInv /\ CommandInv => TurnBudget
  <2> SUFFICES ASSUME IndInv, CommandInv PROVE TurnBudget
    OBVIOUS
  <2>1. DOMAIN exec.attempts = 1..NAttempts /\ DOMAIN native.turns = 1..Len(native.turns)
    BY RecordType, ThreadType DEF NAttempts
  <2>2. \A i \in DOMAIN native.turns : native.turns[i] \in {0} \cup DOMAIN exec.attempts
    BY <2>1, ThreadType DEF KnownTurns
  <2> QED
    BY <2>1, <2>2 DEF TurnBudget, CommandInv, WithinBudget, TakenOnce
<1> QED
  BY <1>1, Invariance, CommandsInvariant, PTL

(* A START nobody has asked to stop carries the selection of the active    *)
(* stage: a change made between its preparation and its send is never lost *)
(* (interrupt() and the comparison of the intent in advance()).            *)
THEOREM ChoiceIsHonoured == Spec => []ChoiceHonoured
<1>1. IndInv /\ CommandInv => ChoiceHonoured
  BY DEF IndInv, PendingStage, CommandInv, ChoiceFits, ChoiceHonoured, StartPending
<1> QED
  BY <1>1, Invariance, CommandsInvariant, PTL

(* An interrupt names a turn of the pending START, and what has reached    *)
(* the agent stops that turn and no other: one a user started meanwhile is *)
(* left alone (interruptTurn, after its check of the running turn).        *)
THEOREM InterruptsItsOwnTurn == Spec => []InterruptsOwnTurn
<1>1. IndInv /\ CommandInv => InterruptsOwnTurn
  BY ThreadType DEF CommandInv, NamesOwnTurns, OwnTurn, StopsPending, InterruptsOwnTurn
<1> QED
  BY <1>1, Invariance, CommandsInvariant, PTL
=============================================================================
