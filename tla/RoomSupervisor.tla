---------------------------- MODULE RoomSupervisor ----------------------------
(***************************************************************************)
(* One mission of the Room Agent: its row and its turns in PostgreSQL, the *)
(* operator who sends follow-ups, pauses, resumes and stops, the signals   *)
(* that tell the room's supervisor workflow of them, and the workflow,     *)
(* which runs the turns one by one and continues the mission by itself     *)
(* once the background actions of a turn have settled.                     *)
(*                                                                         *)
(* Turns are numbered in the order of their rows, so the newest is the     *)
(* last.  A continue-as-new carries the whole state of the workflow and is *)
(* a stuttering step.  Other missions of the room are left out: the        *)
(* handlers and the loop treat each mission apart, in one queue.           *)
(***************************************************************************)
EXTENDS Naturals, Sequences, FiniteSets, Functions

CONSTANTS MaxRequests,    \* bound: operator turns
          MaxGeneration,  \* automatic continuations after one operator turn
          MaxPauses,      \* bound: pauses
          MaxFaults       \* bound: repeated signals, lost replies, failed activities

ASSUME RoomAssumption ==
  /\ MaxRequests \in Nat \ {0} /\ MaxGeneration \in Nat
  /\ MaxPauses \in Nat /\ MaxFaults \in Nat

VARIABLES mission,   \* room_agent_missions
          turns,     \* room_agent_requests with their space_agent_runs
          work,      \* whether a background action is QUEUED or RUNNING
          sup,       \* the supervisor workflow
          linger,    \* turns with an attempt the workflow no longer waits for
          stopped,   \* whether an operator stopped the mission
          troubles,  \* history: what happened beside the ordinary
          pauses, faults

vars == <<mission, turns, work, sup, linger, stopped, troubles, pauses, faults>>

Active == {"QUEUED", "RUNNING", "PAUSED"}
Ended == {"COMPLETED", "FAILED", "INTERRUPTED"}
Unfinished == {"QUEUED", "RUNNING"}

Latest == Len(turns)
IsContinuation(n) == turns[n].source # 0
Recorded(n) == turns[n].run = "COMPLETED" /\ turns[n].outcome # "NONE"

NewTurn(source, generation, signal) ==
  [source |-> source, generation |-> generation, run |-> "QUEUED",
   outcome |-> "NONE", signal |-> signal]

\* A supervisor run that waits for its first signal.
Fresh == [pc |-> "idle", item |-> 0, active |-> FALSE, cancelled |-> FALSE, caught |-> FALSE,
          pending |-> <<>>, interrupted |-> <<>>, monitoring |-> FALSE,
          changed |-> FALSE, verdict |-> "NONE",
          seen |-> [status |-> "NONE", latest |-> 0], made |-> 0]

Init ==
  /\ mission = [status |-> "NONE", done |-> "NONE", origin |-> "NONE"]
  /\ turns = <<>>
  /\ work = FALSE
  /\ sup = Fresh
  /\ linger = {}
  /\ stopped = FALSE
  /\ troubles = {}
  /\ pauses = 0 /\ faults = 0

store == <<mission, turns, work>>
bounds == <<troubles, pauses, faults>>

Trouble(what) ==
  /\ faults < MaxFaults /\ faults' = faults + 1
  /\ troubles' = troubles \cup {what}
  /\ UNCHANGED pauses

-----------------------------------------------------------------------------
(* The operator, through the API *)

\* enqueueRoomAgentMission(): an unfinished mission accepts a follow-up, and
\* a completion kept for its resumption no longer counts.
Request ==
  /\ mission.status \in Active \cup {"NONE"}
  /\ Cardinality({n \in DOMAIN turns : ~IsContinuation(n)}) < MaxRequests
  /\ turns' = Append(turns, NewTurn(0, 0, "UNSENT"))
  /\ mission' = IF mission.status = "NONE" THEN [mission EXCEPT !.status = "QUEUED"]
                ELSE [mission EXCEPT !.done = "NONE"]
  /\ UNCHANGED <<work, sup, linger, stopped, bounds>>

Pause ==
  /\ pauses < MaxPauses
  /\ mission.status \in Unfinished
  /\ mission' = [mission EXCEPT !.status = "PAUSED", !.origin = mission.status]
  /\ pauses' = pauses + 1
  /\ troubles' = troubles \cup {"paused"}
  /\ UNCHANGED <<turns, work, sup, linger, stopped, faults>>

Resume ==
  /\ mission.status = "PAUSED"
  /\ mission' =
       [status |-> IF mission.done # "NONE" THEN mission.done
                   ELSE IF mission.origin = "QUEUED" THEN "QUEUED" ELSE "RUNNING",
        done |-> "NONE", origin |-> "NONE"]
  /\ UNCHANGED <<turns, work, sup, linger, stopped, bounds>>

\* The row first, then the actions; the signal is StopSignal.
Stop ==
  /\ mission.status \in Active
  /\ mission' = [mission EXCEPT !.status = "INTERRUPTED"]
  /\ work' = FALSE
  /\ stopped' = TRUE
  /\ UNCHANGED <<turns, sup, linger, bounds>>

WorkSettles ==
  /\ work /\ work' = FALSE
  /\ UNCHANGED <<mission, turns, sup, linger, stopped, bounds>>

-----------------------------------------------------------------------------
(* The signals and their handlers in the workflow *)

HasPending == sup.pending # <<>>

\* signalRevision is compared with what it was before the preparation only.
Preparing == sup.pc \in {"prepare", "prepareWrite", "prepared"}

\* Mutant: the active item is not looked at.
KnownQueued(n) == n \in Range(sup.pending)

Known(n) == n \in Range(sup.pending) \/ (sup.active /\ sup.item = n)

\* The items of a queue that are in a set, in their order.
Picked(queue, S) ==
  LET picked[i \in 0..Len(queue)] ==
        IF i = 0 THEN <<>>
        ELSE IF queue[i] \in S THEN Append(picked[i - 1], queue[i]) ELSE picked[i - 1]
  IN picked[Len(queue)]

\* An operator's turn takes the place of the mission's automatic turns.
Enqueued(n) ==
  LET automatic == {k \in DOMAIN turns : IsContinuation(k)}
  IN IF Known(n) THEN sup
     ELSE [sup EXCEPT
       !.changed = Preparing,
       !.interrupted = @ \o Picked(sup.pending, automatic),
       !.pending = Append(Picked(sup.pending, DOMAIN turns \ automatic), n),
       !.cancelled = @ \/ (sup.active /\ IsContinuation(sup.item))]

Overtakes(n) == \E k \in 1..(n - 1) : turns[k].signal = "UNSENT"

\* workflow.enqueue() of the request, or of the recovery at the next start.
Signal(n) ==
  /\ turns[n].signal = "UNSENT"
  /\ sup' = Enqueued(n)
  /\ turns' = [turns EXCEPT ![n].signal = "SENT"]
  /\ troubles' = IF Overtakes(n) THEN troubles \cup {"overtaken"} ELSE troubles
  /\ UNCHANGED <<mission, work, linger, stopped, pauses, faults>>

MarkSignaled(n) ==
  /\ turns[n].signal = "SENT"
  /\ turns' = [turns EXCEPT ![n].signal = "MARKED"]
  /\ UNCHANGED <<mission, work, sup, linger, stopped, bounds>>

\* The process ended before the mark: recoverPending() sends it again.
Resignal(n) ==
  /\ turns[n].signal = "SENT"
  /\ mission.status \in Active
  /\ sup' = Enqueued(n)
  /\ Trouble("resent")
  /\ UNCHANGED <<store, linger, stopped>>

\* Sent after the row is INTERRUPTED, by the stop and by its repetitions.
StopSignal ==
  /\ stopped
  /\ sup' = [sup EXCEPT
       !.changed = Preparing,
       !.interrupted = @ \o sup.pending,
       !.pending = <<>>,
       !.monitoring = FALSE,
       !.cancelled = @ \/ sup.active]
  /\ UNCHANGED <<store, linger, stopped, bounds>>

-----------------------------------------------------------------------------
(* The loop of the workflow *)

Step(pc) == sup' = [sup EXCEPT !.pc = pc]

\* The end of an iteration: no item is active any more.
Rest(s) == [s EXCEPT !.pc = "idle", !.item = 0, !.active = FALSE,
                     !.cancelled = FALSE, !.caught = FALSE, !.verdict = "NONE",
                     !.seen = Fresh.seen, !.made = 0, !.changed = FALSE]

TakeInterrupted ==
  /\ sup.pc = "idle" /\ sup.interrupted # <<>>
  /\ sup' = [sup EXCEPT !.pc = "discard", !.item = Head(sup.interrupted),
                        !.interrupted = Tail(@), !.verdict = "INTERRUPTED"]
  /\ UNCHANGED <<store, linger, stopped, bounds>>

TakePending ==
  /\ sup.pc = "idle" /\ sup.interrupted = <<>> /\ HasPending
  /\ sup' = [sup EXCEPT !.pc = "check", !.item = Head(sup.pending),
                        !.pending = Tail(@), !.active = TRUE]
  /\ UNCHANGED <<store, linger, stopped, bounds>>

\* The item waits behind the others while the mission is paused.
\* Mutant: the item of a paused mission is not put back.
RequeuedNever == Rest(sup)

Requeued == Rest([sup EXCEPT !.pending = Append(@, sup.item)])

\* supervisorTurnState(): whether a turn may still run.
MayRun(n) ==
  /\ mission.status \in Active
  /\ turns[n].run \in Unfinished \/ Recorded(n)
  /\ IsContinuation(n) => n = Latest

Check ==
  /\ sup.pc = "check"
  /\ sup' = IF ~MayRun(sup.item) THEN [sup EXCEPT !.pc = "skip"]
            ELSE IF mission.status = "PAUSED" THEN Requeued
            ELSE IF mission.status = "RUNNING" THEN [sup EXCEPT !.pc = "begin"]
            ELSE [sup EXCEPT !.pc = "checkWrite", !.seen.latest = Latest]
  /\ UNCHANGED <<store, linger, stopped, bounds>>

\* The mission is started unless it changed since it was read.
CheckWrite ==
  /\ sup.pc = "checkWrite"
  /\ mission' = IF mission.status = "QUEUED" /\ sup.seen.latest = Latest
                THEN [mission EXCEPT !.status = "RUNNING"] ELSE mission
  /\ sup' = IF mission.status \in Ended THEN [sup EXCEPT !.pc = "skip"]
            ELSE IF mission.status = "PAUSED" THEN Requeued
            ELSE [sup EXCEPT !.pc = "begin"]
  /\ UNCHANGED <<turns, work, linger, stopped, bounds>>

DiscardedRun(n, status) ==
  IF turns[n].run \in Unfinished THEN [turns EXCEPT ![n].run = status] ELSE turns

Skip ==
  /\ sup.pc = "skip"
  /\ turns' = DiscardedRun(sup.item, "INTERRUPTED")
  /\ sup' = Rest(sup)
  /\ UNCHANGED <<mission, work, linger, stopped, bounds>>

\* What the workflow makes of the result of a turn.  A request that finishes
\* while an earlier one is still monitored leaves the mission to the monitoring.
Verdict(result) ==
  CASE result \in {"VERIFIED", "WORKING"} -> "COMPLETED"
    [] result = "CANCELLED" -> "INTERRUPTED"
    [] OTHER -> "FAILED"

\* Mutant: the monitoring is not looked at.
ResultedAlone(result) ==
  IF result = "WORKING" THEN Rest([sup EXCEPT !.monitoring = TRUE])
  ELSE IF HasPending THEN Rest(sup)
  ELSE [sup EXCEPT !.monitoring = FALSE, !.pc = "finish", !.verdict = Verdict(result)]

Resulted(result) ==
  IF result = "WORKING" THEN Rest([sup EXCEPT !.monitoring = TRUE])
  ELSE IF HasPending \/ (result = "VERIFIED" /\ sup.monitoring /\ ~IsContinuation(sup.item))
       THEN Rest(sup)
  ELSE [sup EXCEPT !.monitoring = FALSE, !.pc = "finish", !.verdict = Verdict(result)]

-----------------------------------------------------------------------------
(* The turn: a child workflow with one activity *)

\* An outcome that is on record is returned, whoever recorded it.
AnswerRecorded ==
  /\ sup.pc = "begin" /\ Recorded(sup.item)
  /\ sup' = Resulted(turns[sup.item].outcome)
  /\ UNCHANGED <<store, linger, stopped, bounds>>

\* Mutant: nothing is asked of the record.
MayBeginAgain(n) == TRUE

MayBegin(n) == ~Recorded(n)

\* A continuation asks again whether it may run, and waits while paused.
BeginWork ==
  /\ sup.pc = "begin" /\ MayBegin(sup.item)
  /\ IsContinuation(sup.item) => MayRun(sup.item) /\ mission.status # "PAUSED"
  /\ turns' = [turns EXCEPT ![sup.item].run = "RUNNING"]
  /\ mission' = IF IsContinuation(sup.item) /\ mission.status = "QUEUED"
                THEN [mission EXCEPT !.status = "RUNNING"] ELSE mission
  /\ Step("work")
  /\ UNCHANGED <<work, linger, stopped, bounds>>

RefuseWork ==
  /\ sup.pc = "begin" /\ ~Recorded(sup.item)
  /\ IsContinuation(sup.item) /\ ~MayRun(sup.item)
  /\ turns' = DiscardedRun(sup.item, "INTERRUPTED")
  /\ sup' = Resulted("CANCELLED")
  /\ UNCHANGED <<mission, work, linger, stopped, bounds>>

\* What an attempt leaves in the store when the agent is done.
Leaves(n, result) ==
  /\ turns' = [turns EXCEPT
       ![n].run = IF result = "UNVERIFIED" THEN "FAILED" ELSE "COMPLETED",
       ![n].outcome = IF result = "UNVERIFIED" THEN @ ELSE result]
  /\ work' = (work \/ (result = "WORKING" /\ mission.status \in Active))

WorkEnds(result) ==
  /\ sup.pc = "work"
  /\ Leaves(sup.item, result)
  /\ sup' = Resulted(result)
  /\ UNCHANGED <<mission, linger, stopped, bounds>>

\* The reply is lost with the worker: the next attempt starts over.
WorkUnanswered(result) ==
  /\ sup.pc = "work"
  /\ Leaves(sup.item, result)
  /\ Step("begin")
  /\ Trouble("unanswered")
  /\ UNCHANGED <<mission, linger, stopped>>

\* The worker ended, or it misses its heartbeats and is still at work.
WorkRetried(alive) ==
  /\ sup.pc = "work"
  /\ linger' = IF alive THEN linger \cup {sup.item} ELSE linger
  /\ Trouble(IF alive THEN "stalled" ELSE "retried")
  /\ Step("begin")
  /\ UNCHANGED <<store, stopped>>

\* An attempt nobody waits for ends the turn, or notices and gives it up.
LateEnd(n, result) ==
  /\ n \in linger
  /\ linger' = linger \ {n}
  /\ IF result = "ABORTED"
     THEN turns' = [turns EXCEPT ![n].run = "INTERRUPTED"] /\ UNCHANGED work
     ELSE Leaves(n, result)
  /\ troubles' = troubles \cup {"late"}
  /\ UNCHANGED <<mission, sup, stopped, pauses, faults>>

-----------------------------------------------------------------------------
(* Cancellation, failures and the end of a mission *)

InScope == sup.active /\ ~sup.caught

\* The scope reports the cancellation at once; an attempt at work learns of
\* it from a later heartbeat.
Cancelled ==
  /\ sup.cancelled /\ InScope
  /\ linger' = IF sup.pc = "work" THEN linger \cup {sup.item} ELSE linger
  /\ sup' = [sup EXCEPT !.pc = "discard", !.caught = TRUE, !.verdict = "INTERRUPTED"]
  /\ UNCHANGED <<store, stopped, bounds>>

\* Every attempt of an activity or of the turn failed.
ScopeFails ==
  /\ InScope
  /\ sup' = [sup EXCEPT !.pc = "discard", !.caught = TRUE, !.verdict = "FAILED"]
  /\ Trouble("failed")
  /\ UNCHANGED <<store, linger, stopped>>

Discard ==
  /\ sup.pc = "discard"
  /\ turns' = DiscardedRun(sup.item, sup.verdict)
  /\ sup' = IF sup.active /\ HasPending THEN Rest(sup)
            ELSE [sup EXCEPT !.pc = "finish",
                             !.monitoring = IF sup.active THEN FALSE ELSE @]
  /\ UNCHANGED <<mission, work, linger, stopped, bounds>>

\* finishSupervisorTurn(): the mission as it is read ...
FinishRead ==
  /\ sup.pc = "finish"
  /\ sup' = IF mission.status \in Active
            THEN [sup EXCEPT !.pc = "finishWrite", !.seen.status = mission.status]
            ELSE Rest(sup)
  /\ UNCHANGED <<store, linger, stopped, bounds>>

\* Mutants: the newest turn, or the status, is not compared.
FinishWritesAny ==
  IF mission.status # sup.seen.status THEN mission
  ELSE IF mission.status = "PAUSED" THEN [mission EXCEPT !.done = sup.verdict]
  ELSE [mission EXCEPT !.status = sup.verdict]
FinishWritesOver ==
  IF Latest # sup.item THEN mission
  ELSE IF sup.seen.status = "PAUSED" THEN [mission EXCEPT !.done = sup.verdict]
  ELSE [mission EXCEPT !.status = sup.verdict]

\* ... and as it is written, if neither it nor its newest turn changed.
FinishWrites ==
  IF mission.status # sup.seen.status \/ Latest # sup.item THEN mission
  ELSE IF mission.status = "PAUSED" THEN [mission EXCEPT !.done = sup.verdict]
  ELSE [mission EXCEPT !.status = sup.verdict]

FinishWrite ==
  /\ sup.pc = "finishWrite"
  /\ mission' = FinishWrites
  /\ sup' = Rest(sup)
  /\ UNCHANGED <<turns, work, linger, stopped, bounds>>

\* The reply is lost: the activity runs again.
FinishRepeats ==
  /\ sup.pc = "finishWrite"
  /\ mission' = FinishWrites
  /\ Step("finish")
  /\ Trouble("retried")
  /\ UNCHANGED <<turns, work, linger, stopped>>

-----------------------------------------------------------------------------
(* Automatic continuation *)

Watch ==
  /\ sup.pc = "idle" /\ sup.interrupted = <<>> /\ ~HasPending /\ sup.monitoring
  /\ sup' = [sup EXCEPT !.pc = "prepare", !.changed = FALSE]
  /\ UNCHANGED <<store, linger, stopped, bounds>>

PrepareDone ==
  \/ mission.status \notin Active
  \/ mission.status # "PAUSED" /\ turns[Latest].run \in {"FAILED", "INTERRUPTED"}

PrepareWaits ==
  /\ mission.status \in Active
  /\ \/ mission.status = "PAUSED"
     \/ turns[Latest].run \in Unfinished
     \/ turns[Latest].run = "COMPLETED" /\ work

\* Mutant: a retry does not look for the turn it has made.
PrepareReadAlone ==
  /\ sup.pc = "prepare"
  /\ sup' = IF PrepareDone THEN Rest([sup EXCEPT !.monitoring = FALSE])
            ELSE IF PrepareWaits THEN Rest(sup)
            ELSE [sup EXCEPT !.pc = "prepareWrite",
                             !.seen = [status |-> mission.status, latest |-> Latest]]
  /\ UNCHANGED <<store, linger, stopped, bounds>>

\* prepareBackgroundContinuation(): a retry finds the turn it has made.
PrepareRead ==
  /\ sup.pc = "prepare"
  /\ sup' = IF sup.made # 0 THEN [sup EXCEPT !.pc = "prepared"]
            ELSE IF PrepareDone THEN Rest([sup EXCEPT !.monitoring = FALSE])
            ELSE IF PrepareWaits THEN Rest(sup)
            ELSE [sup EXCEPT !.pc = "prepareWrite",
                             !.seen = [status |-> mission.status, latest |-> Latest]]
  /\ UNCHANGED <<store, linger, stopped, bounds>>

\* The continuations, or the measured tokens, have reached their limit.
PrepareLimit(spent) ==
  /\ sup.pc = "prepareWrite"
  /\ spent \/ turns[sup.seen.latest].generation >= MaxGeneration
  /\ mission' = IF mission.status = sup.seen.status /\ Latest = sup.seen.latest
                THEN [mission EXCEPT !.status = "FAILED"] ELSE mission
  /\ sup' = Rest([sup EXCEPT !.monitoring = FALSE])
  /\ UNCHANGED <<turns, work, linger, stopped, bounds>>

\* Mutant: the newest turn is not compared.
MayContinueAny(source) == mission.status = "RUNNING"

\* The transaction refuses a continuation of anything but the newest turn.
MayContinue(source) == mission.status = "RUNNING" /\ Latest = source

Prepare(answered) ==
  /\ sup.pc = "prepareWrite"
  /\ turns[sup.seen.latest].generation < MaxGeneration
  /\ IF MayContinue(sup.seen.latest)
     THEN /\ turns' = Append(turns,
               NewTurn(sup.seen.latest, turns[sup.seen.latest].generation + 1, "MARKED"))
          /\ mission' = [mission EXCEPT !.done = "NONE"]
          /\ sup' = [sup EXCEPT !.made = Latest + 1,
                                !.pc = IF answered THEN "prepared" ELSE "prepare"]
     ELSE answered /\ sup' = Rest(sup) /\ UNCHANGED <<turns, mission>>
  /\ IF answered THEN UNCHANGED bounds ELSE Trouble("retried")
  /\ UNCHANGED <<work, linger, stopped>>

\* A signal came in meanwhile: the continuation is discarded.
Outdated == sup.changed \/ ~sup.monitoring

UsePrepared ==
  /\ sup.pc = "prepared"
  /\ turns' = IF Outdated THEN DiscardedRun(sup.made, "INTERRUPTED") ELSE turns
  /\ sup' = IF Outdated THEN Rest(sup) ELSE Rest([sup EXCEPT !.pending = Append(@, sup.made)])
  /\ UNCHANGED <<mission, work, linger, stopped, bounds>>

\* Every attempt of an activity outside the scope failed: the workflow fails,
\* and the next signal starts a run that knows nothing of this one.
SupervisorFails ==
  /\ sup.pc # "idle" /\ ~InScope
  /\ sup' = Fresh
  /\ Trouble("lost")
  /\ UNCHANGED <<store, linger, stopped>>

-----------------------------------------------------------------------------
Results == {"VERIFIED", "WORKING", "UNVERIFIED"}

Operator == Request \/ Pause \/ Resume \/ Stop \/ StopSignal

Signals == \E n \in DOMAIN turns : Signal(n) \/ MarkSignaled(n)

Loop == TakeInterrupted \/ TakePending \/ Watch

Activity ==
  \/ Check \/ CheckWrite \/ Skip
  \/ AnswerRecorded \/ BeginWork \/ RefuseWork
  \/ \E result \in Results : WorkEnds(result)
  \/ Cancelled \/ Discard \/ FinishRead \/ FinishWrite
  \/ PrepareRead \/ PrepareLimit(FALSE) \/ Prepare(TRUE) \/ UsePrepared

Late == \E n \in linger, result \in Results \cup {"ABORTED"} : LateEnd(n, result)

Faulty ==
  \/ \E n \in DOMAIN turns : Resignal(n)
  \/ \E result \in Results : WorkUnanswered(result)
  \/ \E alive \in BOOLEAN : WorkRetried(alive)
  \/ ScopeFails \/ FinishRepeats \/ SupervisorFails
  \/ Prepare(FALSE)

Next == Operator \/ Signals \/ WorkSettles \/ Loop \/ Activity \/ Late \/ Faulty
          \/ PrepareLimit(TRUE)

Spec == Init /\ [][Next]_vars

\* The API signals what it has stored, Temporal runs the workflow and its
\* activities, the agent and its background actions end, late attempts too.
Fairness == WF_vars(Signals) /\ WF_vars(Loop \/ Activity) /\ WF_vars(WorkSettles)

FairSpec == Spec /\ Fairness
-----------------------------------------------------------------------------
(* Properties *)

Verdicts == {"COMPLETED", "FAILED", "INTERRUPTED"}

\* The type of the variables: one record per turn, a queue of turns of the
\* store, and an item exactly while the workflow has an activity to wait for.
TypeOK ==
  /\ mission \in [status : {"NONE"} \cup Active \cup Ended,
                 done : {"NONE"} \cup Verdicts, origin : {"NONE"} \cup Unfinished]
  /\ \A n \in DOMAIN turns :
       turns[n] \in [source : 0..(n - 1), generation : 0..MaxGeneration,
                    run : Unfinished \cup Ended, outcome : {"NONE", "VERIFIED", "WORKING"},
                    signal : {"UNSENT", "SENT", "MARKED"}]
  /\ work \in BOOLEAN /\ stopped \in BOOLEAN
  /\ linger \subseteq DOMAIN turns
  /\ Range(sup.pending) \cup Range(sup.interrupted) \subseteq DOMAIN turns
  /\ sup.item \in DOMAIN turns <=> sup.pc # "idle" /\ ~Preparing
  /\ sup.active => sup.item \notin Range(sup.pending)
  /\ sup.cancelled => sup.active

\* A mission that has ended never changes again: a stop, or a completion, that
\* is committed between the read and the write of another party wins
\* (finishSupervisorTurn, prepareBackgroundContinuation, roomAgentMissionGuardMatches).
EndedStaysEnded == [][mission.status \in Ended => mission' = mission]_vars

\* A mission does not complete or fail over its newest turn: whatever is
\* discarded, repeated or late, the newest turn is not waiting or at work then
\* (finishSupervisorTurn with expectedRunId, the handlers and the queue).
NewestTurnDecides ==
  [][mission.status \in Active /\ mission'.status \in {"COMPLETED", "FAILED"}
       => turns[Latest].run \notin Unfinished]_vars

\* The recorded outcome of a turn is final: a signal or an activity that is
\* repeated, a cancellation and a discarded queue leave it as it is, unless an
\* attempt nobody waits for any more has written
\* (runCodexAppServerTurnImplementation, supervisorTurnState, discard).
RecordedIsFinal ==
  [][\A n \in DOMAIN turns :
       Recorded(n) /\ "late" \notin troubles' =>
         turns'[n].run = "COMPLETED" /\ turns'[n].outcome = turns[n].outcome]_vars

\* An automatic turn continues the turn right before it: no request came
\* between, and no turn is continued twice, also when the preparation is
\* repeated after a lost reply (enqueueRoomAgentMission).
ContinuesTheNewest ==
  \A n \in DOMAIN turns : IsContinuation(n) => turns[n].source = n - 1

\* A mission does not complete while background actions of its turns are at
\* work, as long as its signals come in order and once, and neither a failed
\* workflow nor an attempt that was given up hides them from the monitoring.
\* A turn that fails ends the monitoring also when a newer request keeps its
\* mission from failing, so missions with a failed turn are left out.
CompletedAfterWork ==
  [][mission.status \in Active /\ mission'.status = "COMPLETED"
       /\ troubles \cap {"overtaken", "resent", "late", "lost", "failed"} = {}
       /\ (\A n \in DOMAIN turns : turns[n].run # "FAILED") => ~work]_vars

\* An operator's turn that reached the supervisor is not dropped: until it has
\* ended it is queued or active, also when its mission is stopped or over (the
\* two handlers and the loop, which move an item between four places).
RequestsAreKept ==
  "lost" \notin troubles =>
    \A n \in DOMAIN turns :
      ~IsContinuation(n) /\ turns[n].signal # "UNSENT" /\ turns[n].run \in Unfinished =>
        n \in Range(sup.pending) \cup Range(sup.interrupted) \/ sup.item = n

\* A mission is interrupted only when an operator stopped it.
InterruptedOnRequest == mission.status = "INTERRUPTED" => stopped

\* The same, as long as no signal is repeated or overtaken and no attempt ends
\* without its answer: a cancelled automatic turn leaves the mission to the
\* request that superseded it (the handler of the signal, finishSupervisorTurn).
InterruptedInOrder ==
  troubles \cap {"resent", "overtaken", "unanswered", "stalled"} = {} => InterruptedOnRequest

\* Under fairness a mission comes to an end, however often activities are
\* repeated, unless it is paused or its signals, its supervisor or its
\* attempts go astray (the loop, the activities, the polling of the actions).
Settles ==
  mission.status \in Unfinished ~>
    (mission.status \in Ended \/ ~(troubles \subseteq {"retried", "failed", "unanswered", "late"}))
=============================================================================
