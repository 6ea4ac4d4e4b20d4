------------------------ MODULE RoomSupervisorProofs ------------------------
(***************************************************************************)
(* What RoomSupervisor guarantees for any number of requests, automatic    *)
(* continuations, pauses and faults.                                       *)
(***************************************************************************)
EXTENDS RoomSupervisor, SequenceTheorems, WellFoundedInduction, TLAPS

-----------------------------------------------------------------------------
(* The state of the workflow *)

(* A supervisor run has its fields; what the queues hold is left open. *)
Shaped(s) ==
  /\ s \in [pc : {s.pc}, item : {s.item}, active : {s.active}, cancelled : {s.cancelled},
            caught : {s.caught}, pending : {s.pending}, interrupted : {s.interrupted},
            monitoring : {s.monitoring}, changed : {s.changed}, verdict : {s.verdict},
            seen : {s.seen}, made : {s.made}]
  /\ s.seen \in [status : {s.seen.status}, latest : {s.seen.latest}]

(* Where a run stands; its queues and its flags may change. *)
Stays(s, t) == t.pc = s.pc /\ t.seen = s.seen /\ t.verdict = s.verdict

LEMMA FreshShape == Shaped(Fresh) /\ Fresh.pc = "idle" /\ Fresh.seen.latest = 0
BY DEF Shaped, Fresh

LEMMA RestShape ==
  ASSUME NEW s, Shaped(s) PROVE Shaped(Rest(s)) /\ Rest(s).pc = "idle"
<1>1. Fresh.seen \in [status : {Fresh.seen.status}, latest : {Fresh.seen.latest}]
  BY DEF Fresh
<1> QED
  BY <1>1 DEF Shaped, Rest

LEMMA EnqueuedShape ==
  ASSUME Shaped(sup), NEW n PROVE Shaped(Enqueued(n)) /\ Stays(sup, Enqueued(n))
BY DEF Shaped, Stays, Enqueued

LEMMA RequeuedShape ==
  ASSUME Shaped(sup) PROVE Shaped(Requeued) /\ Requeued.pc = "idle"
<1>1. Shaped([sup EXCEPT !.pending = Append(@, sup.item)])
  BY DEF Shaped
<1> QED
  BY <1>1, RestShape DEF Requeued

LEMMA MonitoringShape ==
  ASSUME Shaped(sup), NEW m PROVE Shaped([sup EXCEPT !.monitoring = m])
BY DEF Shaped

LEMMA ResultedShape ==
  ASSUME Shaped(sup), NEW result
  PROVE  /\ Shaped(Resulted(result))
         /\ \/ Resulted(result).pc = "idle"
            \/ Resulted(result).pc = "finish" /\ Resulted(result).verdict \in Verdicts
<1>1. CASE Resulted(result) = [sup EXCEPT !.monitoring = FALSE, !.pc = "finish",
                                          !.verdict = Verdict(result)]
  BY <1>1 DEF Shaped, Verdict, Verdicts
<1>2. CASE Resulted(result) = Rest(sup)
  BY <1>2, RestShape
<1>3. CASE Resulted(result) = Rest([sup EXCEPT !.monitoring = TRUE])
  BY <1>3, RestShape, MonitoringShape
<1> QED
  BY <1>1, <1>2, <1>3 DEF Resulted

LEMMA StepShape ==
  ASSUME Shaped(sup), NEW pc, Step(pc)
  PROVE  Shaped(sup') /\ sup'.pc = pc /\ sup'.seen = sup.seen /\ sup'.verdict = sup.verdict
BY DEF Shaped, Step

-----------------------------------------------------------------------------
(* The turns *)

Turns == [source : Nat, generation : Nat, run : Unfinished \cup Ended,
          outcome : {"NONE", "VERIFIED", "WORKING"}, signal : {"UNSENT", "SENT", "MARKED"}]

(* A turn may become another: what it continues stays, and a mark stays.    *)
Follows(t, u) ==
  /\ u.source = t.source /\ u.generation = t.generation
  /\ t.signal = "MARKED" => u.signal = "MARKED"

(* A step that adds no turn and keeps what a turn continues. *)
NoneAdded ==
  /\ turns' \in Seq(Turns) /\ Len(turns') = Len(turns)
  /\ \A n \in DOMAIN turns : Follows(turns[n], turns'[n])

(* One turn is replaced by another one of the same origin. *)
LEMMA TurnReplaced ==
  ASSUME turns \in Seq(Turns), NEW n, NEW t,
         n \in DOMAIN turns => t \in Turns /\ Follows(turns[n], t),
         turns' = [turns EXCEPT ![n] = t]
  PROVE  NoneAdded
<1>1. CASE n \in DOMAIN turns
  <2>1. n \in 1..Len(turns)
    BY <1>1, LenProperties
  <2>2. turns' \in Seq(Turns) /\ Len(turns') = Len(turns)
    BY <1>1, <2>1, ExceptSeq
  <2> QED
    BY <1>1, <2>2 DEF NoneAdded, Follows
<1>2. CASE n \notin DOMAIN turns
  <2>1. turns' = turns
    BY <1>2
  <2> QED
    BY <1>2, <2>1 DEF NoneAdded, Follows
<1> QED
  BY <1>1, <1>2

(* Setting how a turn runs, or what its signal is. *)
LEMMA RunSet ==
  ASSUME turns \in Seq(Turns), NEW n, NEW run \in Unfinished \cup Ended,
         turns' = [turns EXCEPT ![n].run = run]
  PROVE  NoneAdded
<1> DEFINE t == [turns[n] EXCEPT !.run = run]
<1>1. n \in DOMAIN turns => turns[n] \in Turns
  BY ElementOfSeq, LenProperties
<1>2. n \in DOMAIN turns => t \in Turns /\ Follows(turns[n], t)
  BY <1>1 DEF Turns, Follows
<1>3. turns' = [turns EXCEPT ![n] = t]
  OBVIOUS
<1> HIDE DEF t
<1> QED
  BY <1>2, <1>3, TurnReplaced

LEMMA SignalSet ==
  ASSUME turns \in Seq(Turns), NEW n, NEW signal \in {"UNSENT", "SENT", "MARKED"},
         turns[n].signal # "MARKED", turns' = [turns EXCEPT ![n].signal = signal]
  PROVE  NoneAdded
<1> DEFINE t == [turns[n] EXCEPT !.signal = signal]
<1>1. n \in DOMAIN turns => turns[n] \in Turns
  BY ElementOfSeq, LenProperties
<1>2. n \in DOMAIN turns => t \in Turns /\ Follows(turns[n], t)
  BY <1>1 DEF Turns, Follows
<1>3. turns' = [turns EXCEPT ![n] = t]
  OBVIOUS
<1> HIDE DEF t
<1> QED
  BY <1>2, <1>3, TurnReplaced

LEMMA RunDiscarded ==
  ASSUME turns \in Seq(Turns), NEW n, NEW status \in Ended, turns' = DiscardedRun(n, status)
  PROVE  NoneAdded
<1>1. CASE turns' = [turns EXCEPT ![n].run = status]
  <2>1. status \in Unfinished \cup Ended
    OBVIOUS
  <2> QED
    BY <1>1, <2>1, RunSet
<1>2. CASE turns' = turns
  BY <1>2 DEF NoneAdded, Follows
<1> QED
  BY <1>1, <1>2 DEF DiscardedRun

(* What an attempt leaves in the store. *)
LEMMA RunLeft ==
  ASSUME turns \in Seq(Turns), NEW n, NEW result \in Results, Leaves(n, result)
  PROVE  NoneAdded
<1> DEFINE t == [turns[n] EXCEPT !.run = IF result = "UNVERIFIED" THEN "FAILED" ELSE "COMPLETED",
                                 !.outcome = IF result = "UNVERIFIED" THEN @ ELSE result]
<1>1. n \in DOMAIN turns => turns[n] \in Turns
  BY ElementOfSeq, LenProperties
<1>2. n \in DOMAIN turns => t \in Turns /\ Follows(turns[n], t)
  BY <1>1 DEF Turns, Results, Unfinished, Ended, Follows
<1>3. n \in DOMAIN turns => turns' = [turns EXCEPT ![n] = t]
  BY <1>1 DEF Leaves, Turns
<1>4. n \notin DOMAIN turns => turns' = turns
  BY DEF Leaves
<1> HIDE DEF t
<1>5. n \notin DOMAIN turns => NoneAdded
  BY <1>4 DEF NoneAdded, Follows
<1> QED
  BY <1>2, <1>3, <1>5, TurnReplaced

-----------------------------------------------------------------------------
(* The inductive invariant *)

Missions == [status : {"NONE"} \cup Active \cup Ended, done : {"NONE"} \cup Verdicts,
             origin : {"NONE"} \cup Unfinished]

(* What a run relies on where it stands: the mission was not over when it was read. *)
Sound(s) ==
  /\ Shaped(s)
  /\ s.pc = "discard" => s.verdict \in {"FAILED", "INTERRUPTED"}
  /\ s.pc \in {"finish", "finishWrite"} => s.verdict \in Verdicts
  /\ s.pc \in {"finishWrite", "prepareWrite"} => s.seen.status \in Active

Sources == \A n \in DOMAIN turns : IsContinuation(n) => turns[n].source = n - 1

RoomInv ==
  /\ mission \in Missions
  /\ turns \in Seq(Turns)
  /\ mission.status # "NONE" => Len(turns) # 0
  /\ Sound(sup)
  /\ Sources

LEMMA InitRoom == Init => RoomInv
<1> SUFFICES ASSUME Init PROVE RoomInv
  OBVIOUS
<1>1. mission \in Missions /\ mission.status = "NONE"
  BY DEF Init, Missions, Verdicts
<1>2. turns \in Seq(Turns) /\ DOMAIN turns = {}
  BY EmptySeq DEF Init
<1>3. Sound(sup)
  BY FreshShape DEF Init, Sound
<1> QED
  BY <1>1, <1>2, <1>3 DEF RoomInv, Sources

(* A run that stands where it stood, or where nothing is asked of it. *)
LEMMA SoundStays ==
  ASSUME NEW s, Sound(s), NEW t, Shaped(t),
         Stays(s, t) \/ t.pc \notin {"discard", "finish", "finishWrite", "prepareWrite"}
  PROVE  Sound(t)
BY DEF Sound, Stays

(* A step that adds no turn. *)
LEMMA RoomStep ==
  ASSUME RoomInv, NoneAdded, Sound(sup'), mission' \in Missions,
         mission'.status # "NONE" => mission.status # "NONE"
  PROVE  RoomInv'
<1>1. DOMAIN turns' = DOMAIN turns /\ DOMAIN turns = 1..Len(turns)
  BY LenProperties DEF NoneAdded, RoomInv
<1>2. Sources'
  BY <1>1 DEF Sources, NoneAdded, Follows, RoomInv, IsContinuation
<1>3. Sound(sup)'
  BY DEF Sound, Shaped
<1> QED
  BY <1>2, <1>3 DEF RoomInv, NoneAdded

LEMMA RoomStepSame ==
  ASSUME RoomInv, NoneAdded, Sound(sup'), mission' = mission PROVE RoomInv'
BY RoomStep DEF RoomInv

LEMMA TurnsSame == ASSUME RoomInv, turns' = turns PROVE NoneAdded
BY DEF NoneAdded, Follows, RoomInv

(* A new turn is the newest, and continues none or the one before. *)
LEMMA RoomGrows ==
  ASSUME RoomInv, NEW source \in Nat, NEW generation \in Nat, NEW signal \in {"UNSENT", "MARKED"},
         turns' = Append(turns, NewTurn(source, generation, signal)),
         source # 0 => source = Latest,
         mission' \in Missions, Sound(sup')
  PROVE  RoomInv'
<1> DEFINE t == NewTurn(source, generation, signal)
<1>1. t \in Turns /\ t.source = source
  BY DEF NewTurn, Turns, Unfinished
<1>2. /\ turns \in Seq(Turns) /\ Len(turns) \in Nat /\ DOMAIN turns = 1..Len(turns)
  BY LenProperties DEF RoomInv
<1>a. turns' = Append(turns, t)
  OBVIOUS
<1> HIDE DEF t
<1>3. /\ turns' \in Seq(Turns) /\ Len(turns') = Len(turns) + 1
      /\ \A n \in DOMAIN turns : turns'[n] = turns[n]
      /\ turns'[Len(turns) + 1] = t
  BY <1>1, <1>2, <1>a, AppendProperties
<1>4. DOMAIN turns' = 1..(Len(turns) + 1)
  BY <1>3, LenProperties
<1>5. Sources'
  <2> SUFFICES ASSUME NEW n \in 1..(Len(turns) + 1), turns'[n].source # 0
               PROVE  turns'[n].source = n - 1
    BY <1>4 DEF Sources, IsContinuation
  <2>1. CASE n \in DOMAIN turns
    BY <2>1, <1>3 DEF RoomInv, Sources, IsContinuation
  <2>2. CASE n = Len(turns) + 1
    <3>1. turns'[n].source = source
      BY <2>2, <1>1, <1>3
    <3>2. source = Len(turns)
      BY <3>1 DEF Latest
    <3> QED
      BY <2>2, <3>1, <3>2, <1>2
  <2> QED
    BY <2>1, <2>2, <1>2
<1>6. Sound(sup)'
  BY DEF Sound, Shaped
<1>7. Len(turns') # 0
  BY <1>2, <1>3
<1> QED
  BY <1>3, <1>5, <1>6, <1>7 DEF RoomInv

(* The operator's actions. *)
LEMMA OperatorRoom == ASSUME RoomInv, Operator PROVE RoomInv'
<1>t. /\ mission \in Missions /\ turns \in Seq(Turns) /\ Sound(sup)
      /\ mission.status # "NONE" => Len(turns) # 0
  BY DEF RoomInv
<1> USE DEF store, bounds
<1>1. ASSUME Request PROVE RoomInv'
  <2>1. mission' \in Missions
    BY <1>1, <1>t DEF Request, Missions, Active, Unfinished, Verdicts, Ended
  <2> QED
    BY <1>1, <2>1, <1>t, RoomGrows DEF Request
<1>2. ASSUME Pause PROVE RoomInv'
  <2>1. mission' \in Missions /\ mission.status # "NONE"
    BY <1>2, <1>t DEF Pause, Missions, Active, Unfinished
  <2> QED
    BY <1>2, <2>1, <1>t, RoomStep, TurnsSame DEF Pause
<1>3. ASSUME Resume PROVE RoomInv'
  <2>1. mission' \in Missions /\ mission.status # "NONE"
    BY <1>3, <1>t DEF Resume, Missions, Active, Ended, Verdicts
  <2> QED
    BY <1>3, <2>1, <1>t, RoomStep, TurnsSame DEF Resume
<1>4. ASSUME Stop PROVE RoomInv'
  <2>1. mission' \in Missions /\ mission.status # "NONE"
    BY <1>4, <1>t DEF Stop, Missions, Active, Ended
  <2> QED
    BY <1>4, <2>1, <1>t, RoomStep, TurnsSame DEF Stop
<1>5. ASSUME StopSignal PROVE RoomInv'
  <2>1. Shaped(sup') /\ Stays(sup, sup')
    BY <1>5, <1>t DEF StopSignal, Shaped, Stays, Sound
  <2> QED
    BY <1>5, <2>1, <1>t, SoundStays, RoomStepSame, TurnsSame DEF StopSignal
<1> QED
  BY <1>1, <1>2, <1>3, <1>4, <1>5 DEF Operator

(* The signals. *)
LEMMA SignalRoom ==
  ASSUME RoomInv, NEW n \in DOMAIN turns, Signal(n) \/ MarkSignaled(n) \/ Resignal(n)
  PROVE  RoomInv'
<1>t. mission \in Missions /\ turns \in Seq(Turns) /\ Sound(sup) /\ Shaped(sup)
  BY DEF RoomInv, Sound
<1>1. mission' = mission
  BY DEF Signal, MarkSignaled, Resignal, store
<1>2. NoneAdded
  BY <1>t, SignalSet, TurnsSame DEF Signal, MarkSignaled, Resignal, store
<1>3. sup' = sup \/ sup' = Enqueued(n)
  BY DEF Signal, MarkSignaled, Resignal
<1>4. Sound(sup')
  BY <1>3, <1>t, EnqueuedShape, SoundStays
<1> QED
  BY <1>1, <1>2, <1>4, RoomStepSame

(* The loop takes an item, or watches the background actions. *)
LEMMA LoopRoom == ASSUME RoomInv, Loop PROVE RoomInv'
<1>t. Sound(sup) /\ Shaped(sup)
  BY DEF RoomInv, Sound
<1>1. mission' = mission /\ turns' = turns
  BY DEF Loop, TakeInterrupted, TakePending, Watch, store
<1>2. Sound(sup')
  <2>1. TakeInterrupted => Sound(sup')
    BY <1>t DEF TakeInterrupted, Sound, Shaped, Verdicts
  <2>2. TakePending => Sound(sup')
    BY <1>t DEF TakePending, Sound, Shaped
  <2>3. Watch => Sound(sup')
    BY <1>t DEF Watch, Sound, Shaped
  <2> QED
    BY <2>1, <2>2, <2>3 DEF Loop
<1> QED
  BY <1>1, <1>2, TurnsSame, RoomStepSame

(* The check and the skipping of an item. *)
LEMMA CheckRoom == ASSUME RoomInv, Check \/ CheckWrite \/ Skip PROVE RoomInv'
<1>t. mission \in Missions /\ turns \in Seq(Turns) /\ Sound(sup) /\ Shaped(sup)
  BY DEF RoomInv, Sound
<1> USE DEF store, bounds
<1>q. Sound(Requeued) /\ Sound(Rest(sup))
  BY <1>t, RequeuedShape, RestShape, SoundStays
<1>p. \A pc \in {"skip", "begin"} : Sound([sup EXCEPT !.pc = pc])
  BY <1>t DEF Sound, Shaped
<1>1. ASSUME Check PROVE RoomInv'
  <2>1. Sound([sup EXCEPT !.pc = "checkWrite", !.seen.latest = Latest])
    BY <1>t DEF Sound, Shaped
  <2>2. Sound(sup')
    BY <1>1, <2>1, <1>q, <1>p DEF Check
  <2> QED
    BY <1>1, <2>2, TurnsSame, RoomStepSame DEF Check
<1>2. ASSUME CheckWrite PROVE RoomInv'
  <2>1. Sound(sup')
    BY <1>2, <1>q, <1>p DEF CheckWrite
  <2>2. mission' \in Missions /\ (mission'.status # "NONE" => mission.status # "NONE")
    BY <1>2, <1>t DEF CheckWrite, Missions, Active
  <2> QED
    BY <1>2, <2>1, <2>2, TurnsSame, RoomStep DEF CheckWrite
<1>3. ASSUME Skip PROVE RoomInv'
  <2>1. NoneAdded
    BY <1>3, <1>t, RunDiscarded DEF Skip, Ended
  <2> QED
    BY <1>3, <2>1, <1>q, RoomStepSame DEF Skip
<1> QED
  BY <1>1, <1>2, <1>3

(* The attempts of a turn. *)
LEMMA WorkRoom ==
  ASSUME RoomInv,
         \/ AnswerRecorded \/ BeginWork \/ RefuseWork
         \/ \E result \in Results : WorkEnds(result) \/ WorkUnanswered(result)
         \/ \E alive \in BOOLEAN : WorkRetried(alive)
         \/ Late
  PROVE  RoomInv'
<1>t. mission \in Missions /\ turns \in Seq(Turns) /\ Sound(sup) /\ Shaped(sup)
  BY DEF RoomInv, Sound
<1> USE DEF store, bounds
<1>r. ASSUME NEW result PROVE Sound(Resulted(result))
  <2>1. /\ Shaped(Resulted(result))
        /\ \/ Resulted(result).pc = "idle"
           \/ Resulted(result).pc = "finish" /\ Resulted(result).verdict \in Verdicts
    BY <1>t, ResultedShape
  <2> QED
    BY <2>1 DEF Sound
<1>p. ASSUME NEW pc \in {"begin", "work"}, Step(pc) PROVE Sound(sup')
  BY <1>p, <1>t, StepShape DEF Sound
<1>1. ASSUME AnswerRecorded PROVE RoomInv'
  BY <1>1, <1>r, TurnsSame, RoomStepSame DEF AnswerRecorded
<1>2. ASSUME BeginWork PROVE RoomInv'
  <2>1. mission' \in Missions /\ (mission'.status # "NONE" => mission.status # "NONE")
    BY <1>2, <1>t DEF BeginWork, Missions, Active
  <2>2. NoneAdded
    BY <1>2, <1>t, RunSet DEF BeginWork, Unfinished
  <2> QED
    BY <1>2, <2>1, <2>2, <1>p, RoomStep DEF BeginWork
<1>3. ASSUME RefuseWork PROVE RoomInv'
  <2>1. NoneAdded
    BY <1>3, <1>t, RunDiscarded DEF RefuseWork, Ended
  <2> QED
    BY <1>3, <2>1, <1>r, RoomStepSame DEF RefuseWork
<1>4. ASSUME NEW result \in Results, WorkEnds(result) PROVE RoomInv'
  BY <1>4, <1>t, <1>r, RunLeft, RoomStepSame DEF WorkEnds
<1>5. ASSUME NEW result \in Results, WorkUnanswered(result) PROVE RoomInv'
  BY <1>5, <1>t, <1>p, RunLeft, RoomStepSame DEF WorkUnanswered
<1>6. ASSUME NEW alive \in BOOLEAN, WorkRetried(alive) PROVE RoomInv'
  BY <1>6, <1>p, TurnsSame, RoomStepSame DEF WorkRetried
<1>7. ASSUME NEW n \in linger, NEW result \in Results \cup {"ABORTED"}, LateEnd(n, result)
      PROVE  RoomInv'
  <2>1. NoneAdded
    <3>1. CASE result = "ABORTED"
      <4>1. turns' = [turns EXCEPT ![n].run = "INTERRUPTED"] /\ "INTERRUPTED" \in Unfinished \cup Ended
        BY <1>7, <3>1 DEF LateEnd, Ended
      <4> QED
        BY <4>1, <1>t, RunSet
    <3>2. CASE result # "ABORTED"
      BY <1>7, <3>2, <1>t, RunLeft DEF LateEnd
    <3> QED
      BY <3>1, <3>2
  <2> QED
    BY <1>7, <2>1, <1>t, RoomStepSame DEF LateEnd
<1> QED
  BY <1>1, <1>2, <1>3, <1>4, <1>5, <1>6, <1>7 DEF Late

(* Cancellation, failures and the end of a mission. *)
LEMMA EndRoom ==
  ASSUME RoomInv,
         Cancelled \/ ScopeFails \/ Discard \/ FinishRead \/ FinishWrite \/ FinishRepeats
           \/ SupervisorFails
  PROVE  RoomInv'
<1>t. mission \in Missions /\ turns \in Seq(Turns) /\ Sound(sup) /\ Shaped(sup)
  BY DEF RoomInv, Sound
<1> USE DEF store, bounds
<1>q. Sound(Rest(sup)) /\ Sound(Fresh)
  BY <1>t, RestShape, FreshShape, SoundStays
<1>1. ASSUME Cancelled PROVE RoomInv'
  <2>1. Sound(sup')
    BY <1>1, <1>t DEF Cancelled, Sound, Shaped, Verdicts
  <2> QED
    BY <1>1, <2>1, TurnsSame, RoomStepSame DEF Cancelled
<1>2. ASSUME ScopeFails PROVE RoomInv'
  <2>1. Sound(sup')
    BY <1>2, <1>t DEF ScopeFails, Sound, Shaped, Verdicts
  <2> QED
    BY <1>2, <2>1, TurnsSame, RoomStepSame DEF ScopeFails
<1>3. ASSUME Discard PROVE RoomInv'
  <2>1. sup.verdict \in Verdicts /\ sup.verdict \in Ended
    BY <1>3, <1>t DEF Discard, Sound, Verdicts, Ended
  <2>2. NoneAdded
    BY <1>3, <2>1, <1>t, RunDiscarded DEF Discard
  <2>3. \A m : Sound([sup EXCEPT !.pc = "finish", !.monitoring = m])
    BY <2>1, <1>t DEF Sound, Shaped
  <2>4. Sound(sup')
    BY <1>3, <2>3, <1>q DEF Discard
  <2> QED
    BY <1>3, <2>2, <2>4, RoomStepSame DEF Discard
<1>4. ASSUME FinishRead PROVE RoomInv'
  <2>1. mission.status \in Active
          => Sound([sup EXCEPT !.pc = "finishWrite", !.seen.status = mission.status])
    BY <1>4, <1>t DEF FinishRead, Sound, Shaped
  <2>2. Sound(sup')
    BY <1>4, <2>1, <1>q DEF FinishRead
  <2> QED
    BY <1>4, <2>2, TurnsSame, RoomStepSame DEF FinishRead
<1>w. ASSUME sup.pc = "finishWrite", mission' = FinishWrites
      PROVE  mission' \in Missions /\ (mission'.status # "NONE" => mission.status # "NONE")
  BY <1>w, <1>t DEF FinishWrites, Missions, Sound, Verdicts, Active, Ended
<1>5. ASSUME FinishWrite PROVE RoomInv'
  BY <1>5, <1>w, <1>q, TurnsSame, RoomStep DEF FinishWrite
<1>6. ASSUME FinishRepeats PROVE RoomInv'
  <2>1. Sound(sup')
    BY <1>6, <1>t, StepShape DEF FinishRepeats, Sound
  <2> QED
    BY <1>6, <2>1, <1>w, TurnsSame, RoomStep DEF FinishRepeats
<1>7. ASSUME SupervisorFails PROVE RoomInv'
  BY <1>7, <1>q, TurnsSame, RoomStepSame DEF SupervisorFails
<1> QED
  BY <1>1, <1>2, <1>3, <1>4, <1>5, <1>6, <1>7

(* Automatic continuation. *)
LEMMA PrepareRoom ==
  ASSUME RoomInv,
         \/ PrepareRead \/ UsePrepared
         \/ \E spent \in BOOLEAN : PrepareLimit(spent)
         \/ \E answered \in BOOLEAN : Prepare(answered)
  PROVE  RoomInv'
<1>t. mission \in Missions /\ turns \in Seq(Turns) /\ Sound(sup) /\ Shaped(sup)
  BY DEF RoomInv, Sound
<1> USE DEF store, bounds
<1>q. Sound(Rest(sup)) /\ Sound(Rest([sup EXCEPT !.monitoring = FALSE]))
  BY <1>t, RestShape, MonitoringShape, SoundStays
<1>1. ASSUME PrepareRead PROVE RoomInv'
  <2>1. Sound([sup EXCEPT !.pc = "prepared"])
    BY <1>t DEF Sound, Shaped
  <2>2. ~PrepareDone => mission.status \in Active
    BY DEF PrepareDone
  <2>3. ~PrepareDone
          => Sound([sup EXCEPT !.pc = "prepareWrite",
                               !.seen = [status |-> mission.status, latest |-> Latest]])
    BY <2>2, <1>t DEF Sound, Shaped
  <2>4. Sound(sup')
    BY <1>1, <2>1, <2>3, <1>q DEF PrepareRead
  <2> QED
    BY <1>1, <2>4, TurnsSame, RoomStepSame DEF PrepareRead
<1>2. ASSUME UsePrepared PROVE RoomInv'
  <2>1. NoneAdded
    BY <1>2, <1>t, RunDiscarded, TurnsSame DEF UsePrepared, Ended
  <2>2. Shaped([sup EXCEPT !.pending = Append(@, sup.made)])
    BY <1>t DEF Shaped
  <2>3. Sound(Rest([sup EXCEPT !.pending = Append(@, sup.made)]))
    BY <2>2, RestShape DEF Sound
  <2> QED
    BY <1>2, <2>1, <2>3, <1>q, RoomStepSame DEF UsePrepared
<1>3. ASSUME NEW spent \in BOOLEAN, PrepareLimit(spent) PROVE RoomInv'
  <2>1. sup.seen.status \in Active
    BY <1>3, <1>t DEF PrepareLimit, Sound
  <2>2. mission' \in Missions /\ (mission'.status # "NONE" => mission.status # "NONE")
    BY <1>3, <2>1, <1>t DEF PrepareLimit, Missions, Active, Ended
  <2> QED
    BY <1>3, <2>2, <1>q, TurnsSame, RoomStep DEF PrepareLimit
<1>4. ASSUME NEW answered \in BOOLEAN, Prepare(answered) PROVE RoomInv'
  <2>1. CASE MayContinue(sup.seen.latest)
    <3> DEFINE source == sup.seen.latest
               generation == turns[sup.seen.latest].generation + 1
    <3>1. mission.status = "RUNNING" /\ source = Latest
      BY <2>1 DEF MayContinue
    <3>2. Latest \in DOMAIN turns /\ Latest \in Nat
      BY <3>1, LenProperties DEF RoomInv, Latest
    <3>3. turns[Latest] \in Turns
      BY <3>2, <1>t, ElementOfSeq, LenProperties
    <3>4. source \in Nat /\ generation \in Nat
      BY <3>1, <3>2, <3>3 DEF Turns
    <3>5. mission' \in Missions
      BY <1>4, <2>1, <1>t DEF Prepare, Missions
    <3>6. turns' = Append(turns, NewTurn(source, generation, "MARKED"))
      BY <1>4, <2>1 DEF Prepare
    <3>7. Sound(sup')
      BY <1>4, <2>1, <1>t DEF Prepare, Sound, Shaped
    <3> HIDE DEF source, generation
    <3> QED
      BY <3>1, <3>4, <3>5, <3>6, <3>7, RoomGrows
  <2>2. CASE ~MayContinue(sup.seen.latest)
    BY <1>4, <2>2, <1>q, TurnsSame, RoomStepSame DEF Prepare
  <2> QED
    BY <2>1, <2>2
<1> QED
  BY <1>1, <1>2, <1>3, <1>4

(* RoomInv is kept by every step. *)
LEMMA NextRoom == RoomInv /\ [Next]_vars => RoomInv'
<1> SUFFICES ASSUME RoomInv, [Next]_vars PROVE RoomInv'
  OBVIOUS
<1>1. CASE UNCHANGED <<mission, turns, sup>>
  BY <1>1, TurnsSame, RoomStepSame DEF RoomInv
<1>2. CASE WorkSettles
  BY <1>1, <1>2 DEF WorkSettles
<1>3. CASE Signals
  BY <1>3, SignalRoom DEF Signals
<1>4. CASE Activity
  BY <1>4, CheckRoom, WorkRoom, EndRoom, PrepareRoom DEF Activity
<1>5. CASE Faulty
  BY <1>5, SignalRoom, WorkRoom, EndRoom, PrepareRoom DEF Faulty
<1>6. CASE Next
  BY <1>2, <1>3, <1>4, <1>5, <1>6, OperatorRoom, LoopRoom, WorkRoom, PrepareRoom DEF Next
<1> QED
  BY <1>1, <1>6 DEF vars

LEMMA RoomAlways == Spec => []RoomInv
BY InitRoom, NextRoom, PTL DEF Spec

-----------------------------------------------------------------------------
(* The properties *)

(* An automatic turn continues the turn right before it: no request came       *)
(* between, and no turn is continued twice.                                    *)
THEOREM NewestContinued == Spec => []ContinuesTheNewest
<1>1. RoomInv => ContinuesTheNewest
  BY DEF RoomInv, Sources, ContinuesTheNewest
<1> QED
  BY <1>1, RoomAlways, PTL

(* A mission that has ended never changes again, whoever read it before. *)
THEOREM MissionStaysEnded == Spec => EndedStaysEnded
<1>1. RoomInv /\ [Next]_vars => [mission.status \in Ended => mission' = mission]_vars
  <2> SUFFICES ASSUME RoomInv, Next, mission.status \in Ended PROVE mission' = mission
    BY DEF vars
  <2>0. mission.status \notin Active /\ mission.status # "NONE" /\ mission.status # "QUEUED"
        /\ mission.status # "RUNNING" /\ mission.status # "PAUSED" /\ mission.status \notin Unfinished
    BY DEF Ended, Active, Unfinished
  <2>s. sup.pc \in {"finishWrite", "prepareWrite"} => sup.seen.status \in Active
    BY DEF RoomInv, Sound
  <2> USE DEF store
  <2>1. CASE Operator
    BY <2>0, <2>1 DEF Operator, Request, Pause, Resume, Stop, StopSignal
  <2>2. CASE Signals \/ WorkSettles \/ Loop \/ Late
    BY <2>2 DEF Signals, Signal, MarkSignaled, WorkSettles, Loop, TakeInterrupted, TakePending,
       Watch, Late, LateEnd
  <2>3. CASE Check \/ CheckWrite \/ Skip
    BY <2>0, <2>3 DEF Check, CheckWrite, Skip
  <2>4. CASE AnswerRecorded \/ BeginWork \/ RefuseWork \/ Cancelled \/ Discard \/ FinishRead
               \/ \E result \in Results : WorkEnds(result)
    BY <2>0, <2>4 DEF AnswerRecorded, BeginWork, RefuseWork, Cancelled, Discard, FinishRead, WorkEnds
  <2>5. CASE FinishWrite \/ FinishRepeats
    BY <2>0, <2>5, <2>s DEF FinishWrite, FinishRepeats, FinishWrites
  <2>6. CASE PrepareRead \/ UsePrepared
    BY <2>6 DEF PrepareRead, UsePrepared
  <2>7. ASSUME NEW spent \in BOOLEAN, PrepareLimit(spent) PROVE mission' = mission
    BY <2>0, <2>7, <2>s DEF PrepareLimit
  <2>8. ASSUME NEW answered \in BOOLEAN, Prepare(answered) PROVE mission' = mission
    BY <2>0, <2>8 DEF Prepare, MayContinue
  <2>9. CASE Activity
    BY <2>9, <2>3, <2>4, <2>5, <2>6, <2>7, <2>8 DEF Activity
  <2>10. CASE Faulty
    <3>1. CASE \/ \E n \in DOMAIN turns : Resignal(n)
               \/ \E result \in Results : WorkUnanswered(result)
               \/ \E alive \in BOOLEAN : WorkRetried(alive)
               \/ ScopeFails \/ SupervisorFails
      BY <3>1 DEF Resignal, WorkUnanswered, WorkRetried, ScopeFails, SupervisorFails
    <3> QED
      BY <3>1, <2>5, <2>8, <2>10 DEF Faulty
  <2> QED
    BY <2>1, <2>2, <2>7, <2>9, <2>10 DEF Next
<1> QED
  BY <1>1, RoomAlways, PTL DEF Spec, EndedStaysEnded

(* Only BeginWork puts the supervisor to work. *)
LEMMA ComesToWork ==
  ASSUME RoomInv, Next, sup.pc # "work", sup'.pc = "work" PROVE BeginWork
<1>t. Shaped(sup)
  BY DEF RoomInv, Sound
<1>r. /\ Rest(sup).pc = "idle" /\ Requeued.pc = "idle" /\ Fresh.pc = "idle"
      /\ Rest([sup EXCEPT !.monitoring = FALSE]).pc = "idle"
      /\ \A result : Resulted(result).pc \in {"idle", "finish"}
  BY <1>t, RestShape, RequeuedShape, FreshShape, MonitoringShape, ResultedShape
<1>m. Rest([sup EXCEPT !.pending = Append(@, sup.made)]).pc = "idle"
  <2>1. Shaped([sup EXCEPT !.pending = Append(@, sup.made)])
    BY <1>t DEF Shaped
  <2> QED
    BY <2>1, RestShape
<1>e. \A n : Enqueued(n).pc = sup.pc
  BY <1>t, EnqueuedShape DEF Stays
<1>s. ASSUME NEW pc \in {"begin", "finish"}, Step(pc) PROVE FALSE
  BY <1>s, <1>t, StepShape
<1>1. ~Operator
  BY <1>t DEF Operator, Request, Pause, Resume, Stop, StopSignal, Shaped
<1>2. ~Signals /\ ~WorkSettles /\ ~Late
  BY <1>e DEF Signals, Signal, MarkSignaled, WorkSettles, Late, LateEnd
<1>3. ~Loop
  <2>1. ~TakeInterrupted
    BY <1>t DEF TakeInterrupted, Shaped
  <2>2. ~TakePending
    BY <1>t DEF TakePending, Shaped
  <2>3. ~Watch
    <3>1. Watch => sup' = [sup EXCEPT !.pc = "prepare", !.changed = FALSE]
      BY DEF Watch
    <3>2. [sup EXCEPT !.pc = "prepare", !.changed = FALSE].pc = "prepare"
      BY <1>t DEF Shaped
    <3> QED
      BY <3>1, <3>2
  <2> QED
    BY <2>1, <2>2, <2>3 DEF Loop
<1>4. ~Check /\ ~CheckWrite /\ ~Skip
  BY <1>t, <1>r DEF Check, CheckWrite, Skip, Shaped
<1>5. ~AnswerRecorded /\ ~RefuseWork /\ \A result : ~WorkEnds(result) /\ ~WorkUnanswered(result)
  BY <1>r, <1>s DEF AnswerRecorded, RefuseWork, WorkEnds, WorkUnanswered
<1>6. ~Cancelled /\ ~ScopeFails
  BY <1>t DEF Cancelled, ScopeFails, Shaped
<1>7. ~Discard
  BY <1>t, <1>r DEF Discard, Shaped
<1>8. ~FinishRead
  BY <1>t, <1>r DEF FinishRead, Shaped
<1>9. ~FinishWrite /\ ~FinishRepeats /\ ~SupervisorFails /\ \A alive : ~WorkRetried(alive)
  BY <1>r, <1>s DEF FinishWrite, FinishRepeats, SupervisorFails, WorkRetried
<1>10. ~PrepareRead
  BY <1>t, <1>r DEF PrepareRead, Shaped
<1>11. ~UsePrepared /\ \A spent : ~PrepareLimit(spent)
  BY <1>r, <1>m DEF UsePrepared, PrepareLimit
<1>12. \A answered \in BOOLEAN : ~Prepare(answered)
  BY <1>t, <1>r DEF Prepare, Shaped
<1>13. \A n : ~Resignal(n)
  BY <1>e DEF Resignal
<1> QED
  BY <1>1, <1>2, <1>3, <1>4, <1>5, <1>6, <1>7, <1>8, <1>9, <1>10, <1>11, <1>12, <1>13
     DEF Next, Activity, Faulty

-----------------------------------------------------------------------------
(* Recorded outcomes *)

OutcomesKept ==
  \A n \in DOMAIN turns : Recorded(n) =>
    turns'[n].run = "COMPLETED" /\ turns'[n].outcome = turns[n].outcome

NoneRecorded == \A n \in DOMAIN turns' : Recorded(n)' => n \in DOMAIN turns /\ Recorded(n)

(* A turn is at work without an outcome, as long as no attempt writes late. *)
WorkOpen ==
  "late" \notin troubles /\ sup.pc = "work" /\ sup.item \in DOMAIN turns => ~Recorded(sup.item)

LEMMA TurnsUnrecorded == ASSUME turns' = turns PROVE OutcomesKept /\ NoneRecorded
BY DEF OutcomesKept, NoneRecorded, Recorded

(* The run of one turn is set, and the turn is not recorded or stays as it is. *)
LEMMA RunUnrecorded ==
  ASSUME turns \in Seq(Turns), NEW n, NEW run,
         n \in DOMAIN turns => ~Recorded(n) /\ run # "COMPLETED",
         turns' = [turns EXCEPT ![n].run = run]
  PROVE  OutcomesKept /\ NoneRecorded
<1>1. DOMAIN turns' = DOMAIN turns
  OBVIOUS
<1>2. \A k \in DOMAIN turns : k # n => turns'[k] = turns[k]
  OBVIOUS
<1>3. n \in DOMAIN turns => turns[n] \in Turns
  BY ElementOfSeq, LenProperties
<1>4. n \in DOMAIN turns => turns'[n].run # "COMPLETED"
  BY <1>3 DEF Turns
<1> QED
  BY <1>1, <1>2, <1>4 DEF OutcomesKept, NoneRecorded, Recorded

LEMMA SignalUnrecorded ==
  ASSUME turns \in Seq(Turns), NEW n, NEW signal, turns' = [turns EXCEPT ![n].signal = signal]
  PROVE  OutcomesKept /\ NoneRecorded
<1>1. DOMAIN turns' = DOMAIN turns
  OBVIOUS
<1>2. \A k \in DOMAIN turns : k # n => turns'[k] = turns[k]
  OBVIOUS
<1>3. n \in DOMAIN turns => turns[n] \in Turns
  BY ElementOfSeq, LenProperties
<1>4. n \in DOMAIN turns => turns'[n].run = turns[n].run /\ turns'[n].outcome = turns[n].outcome
  BY <1>3 DEF Turns
<1> QED
  BY <1>1, <1>2, <1>4 DEF OutcomesKept, NoneRecorded, Recorded

LEMMA DiscardUnrecorded ==
  ASSUME turns \in Seq(Turns), NEW n, NEW status \in {"FAILED", "INTERRUPTED"},
         turns' = DiscardedRun(n, status)
  PROVE  OutcomesKept /\ NoneRecorded
<1>1. CASE turns[n].run \in Unfinished
  <2>1. turns' = [turns EXCEPT ![n].run = status]
    BY <1>1 DEF DiscardedRun
  <2>2. ~Recorded(n) /\ status # "COMPLETED"
    BY <1>1 DEF Recorded, Unfinished
  <2> QED
    BY <2>1, <2>2, RunUnrecorded
<1>2. CASE turns[n].run \notin Unfinished
  BY <1>2, TurnsUnrecorded DEF DiscardedRun
<1> QED
  BY <1>1, <1>2

LEMMA AddedUnrecorded ==
  ASSUME turns \in Seq(Turns), NEW t \in Turns, t.run = "QUEUED", turns' = Append(turns, t)
  PROVE  OutcomesKept /\ NoneRecorded
<1>1. /\ DOMAIN turns = 1..Len(turns) /\ DOMAIN turns' = 1..(Len(turns) + 1)
      /\ Len(turns) \in Nat
      /\ \A k \in 1..Len(turns) : turns'[k] = turns[k]
      /\ turns'[Len(turns) + 1] = t
  BY AppendProperties, LenProperties
<1>2. \A k \in DOMAIN turns' : k = Len(turns) + 1 \/ k \in 1..Len(turns)
  BY <1>1
<1> QED
  BY <1>1, <1>2 DEF OutcomesKept, NoneRecorded, Recorded

(* What an attempt leaves is the first outcome of its turn. *)
LEMMA LeavesOpen ==
  ASSUME turns \in Seq(Turns), NEW n, NEW result, Leaves(n, result),
         n \in DOMAIN turns => ~Recorded(n)
  PROVE  OutcomesKept
<1>1. DOMAIN turns' = DOMAIN turns
  BY DEF Leaves
<1>2. \A k \in DOMAIN turns : k # n => turns'[k] = turns[k]
  BY DEF Leaves
<1> QED
  BY <1>1, <1>2 DEF OutcomesKept, Recorded

(* The outcomes under each step. *)
LEMMA StepOutcomes ==
  ASSUME RoomInv, WorkOpen, Next, "late" \notin troubles'
  PROVE  /\ OutcomesKept
         /\ \/ NoneRecorded
            \/ \E result \in Results : WorkEnds(result) \/ WorkUnanswered(result)
<1>t. turns \in Seq(Turns)
  BY DEF RoomInv
<1> USE DEF store, bounds
<1> DEFINE Done == OutcomesKept /\ NoneRecorded
<1>1. ASSUME Request PROVE Done
  <2>1. NewTurn(0, 0, "UNSENT") \in Turns /\ NewTurn(0, 0, "UNSENT").run = "QUEUED"
    BY DEF NewTurn, Turns, Unfinished
  <2> QED
    BY <1>1, <1>t, <2>1, AddedUnrecorded DEF Request
<1>2. ASSUME NEW n \in DOMAIN turns, Signal(n) \/ MarkSignaled(n) PROVE Done
  BY <1>2, <1>t, SignalUnrecorded DEF Signal, MarkSignaled
<1>3. CASE Skip \/ RefuseWork \/ UsePrepared
  BY <1>3, <1>t, TurnsUnrecorded, DiscardUnrecorded DEF Skip, RefuseWork, UsePrepared
<1>4. CASE Discard
  <2>1. turns' = DiscardedRun(sup.item, sup.verdict) /\ sup.verdict \in {"FAILED", "INTERRUPTED"}
    BY <1>4 DEF Discard, RoomInv, Sound
  <2> QED
    BY <2>1, <1>t, DiscardUnrecorded
<1>5. CASE BeginWork
  BY <1>5, <1>t, RunUnrecorded DEF BeginWork, MayBegin
<1>6. ASSUME NEW result \in Results, WorkEnds(result) \/ WorkUnanswered(result)
      PROVE  OutcomesKept
  <2>1. "late" \notin troubles
    BY <1>6 DEF WorkEnds, WorkUnanswered, Trouble
  <2> QED
    BY <1>6, <1>t, <2>1, LeavesOpen DEF WorkOpen, WorkEnds, WorkUnanswered
<1>7. ASSUME NEW answered \in BOOLEAN, Prepare(answered) PROVE Done
  <2>1. CASE MayContinue(sup.seen.latest)
    <3> DEFINE t == NewTurn(sup.seen.latest, turns[sup.seen.latest].generation + 1, "MARKED")
    <3>1. turns' = Append(turns, t)
      BY <1>7, <2>1 DEF Prepare
    <3>2. sup.seen.latest = Len(turns) /\ Len(turns) \in Nat
      BY <2>1, <1>t, LenProperties DEF MayContinue, Latest
    <3>3. mission.status # "NONE"
      BY <2>1 DEF MayContinue
    <3>4. sup.seen.latest \in 1..Len(turns)
      BY <3>2, <3>3 DEF RoomInv
    <3>5. turns[sup.seen.latest].generation \in Nat
      <4>1. turns[sup.seen.latest] \in Turns
        BY <3>4, <1>t, ElementOfSeq
      <4> QED
        BY <4>1 DEF Turns
    <3>6. t \in Turns /\ t.run = "QUEUED"
      BY <3>2, <3>5 DEF NewTurn, Turns, Unfinished
    <3> HIDE DEF t
    <3> QED
      BY <3>1, <3>6, <1>t, AddedUnrecorded
  <2>2. CASE ~MayContinue(sup.seen.latest)
    BY <1>7, <2>2, TurnsUnrecorded DEF Prepare
  <2> QED
    BY <2>1, <2>2
<1>8. CASE turns' = turns
  BY <1>8, TurnsUnrecorded
<1>9. ~Late
  BY DEF Late, LateEnd
<1>10. CASE Operator
  BY <1>10, <1>1, <1>8 DEF Operator, Pause, Resume, Stop, StopSignal
<1>11. CASE Signals \/ WorkSettles \/ Loop \/ \E spent \in BOOLEAN : PrepareLimit(spent)
  BY <1>11, <1>2, <1>8
     DEF Signals, WorkSettles, Loop, TakeInterrupted, TakePending, Watch, PrepareLimit
<1>12. CASE Activity
  BY <1>12, <1>3, <1>4, <1>5, <1>6, <1>7, <1>8, <1>11
     DEF Activity, Check, CheckWrite, AnswerRecorded, Cancelled, FinishRead, FinishWrite, PrepareRead
<1>13. CASE Faulty
  BY <1>13, <1>6, <1>7, <1>8
     DEF Faulty, Resignal, WorkRetried, ScopeFails, FinishRepeats, SupervisorFails
<1> QED
  BY <1>9, <1>10, <1>11, <1>12, <1>13 DEF Next

(* The turn at work is the one it was. *)
LEMMA StaysAtWork ==
  ASSUME RoomInv, Next, sup.pc = "work", sup'.pc = "work", "late" \notin troubles'
  PROVE  sup'.item = sup.item /\ \A result : ~WorkEnds(result) /\ ~WorkUnanswered(result)
<1>t. Shaped(sup)
  BY DEF RoomInv, Sound
<1>r. \A result : Resulted(result).pc \in {"idle", "finish"}
  BY <1>t, ResultedShape
<1>e. \A n : Enqueued(n).item = sup.item
  BY <1>t DEF Shaped, Enqueued
<1>1. \A result : ~WorkEnds(result) /\ ~WorkUnanswered(result)
  BY <1>t, <1>r DEF WorkEnds, WorkUnanswered, Step, Shaped
<1>2. CASE Operator
  <2>1. StopSignal => sup'.item = sup.item
    BY <1>t DEF StopSignal, Shaped
  <2> QED
    BY <1>1, <1>2, <2>1 DEF Operator, Request, Pause, Resume, Stop
<1>3. CASE Signals \/ WorkSettles
  <2>1. \A n \in DOMAIN turns : Signal(n) => sup'.item = sup.item
    BY <1>e DEF Signal
  <2>2. \A n \in DOMAIN turns : MarkSignaled(n) => sup'.item = sup.item
    BY DEF MarkSignaled
  <2>3. WorkSettles => sup'.item = sup.item
    BY DEF WorkSettles
  <2> QED
    BY <1>1, <1>3, <2>1, <2>2, <2>3 DEF Signals
<1>4. ~Late
  BY DEF Late, LateEnd
<1>5. ~Loop /\ \A spent \in BOOLEAN : ~PrepareLimit(spent)
  BY DEF Loop, TakeInterrupted, TakePending, Watch, PrepareLimit
<1>6. ~Cancelled /\ ~ScopeFails /\ \A alive \in BOOLEAN : ~WorkRetried(alive)
  <2>1. \A verdict :
          [sup EXCEPT !.pc = "discard", !.caught = TRUE, !.verdict = verdict].pc = "discard"
    BY <1>t DEF Shaped
  <2>2. ~Cancelled /\ ~ScopeFails
    BY <2>1 DEF Cancelled, ScopeFails
  <2>3. ASSUME NEW alive \in BOOLEAN PROVE ~WorkRetried(alive)
    BY <1>t, StepShape DEF WorkRetried
  <2> QED
    BY <2>2, <2>3
<1>7. ~Activity
  BY <1>1, <1>5, <1>6 DEF Activity, Check, CheckWrite, Skip, AnswerRecorded, BeginWork, RefuseWork,
     Discard, FinishRead, FinishWrite, PrepareRead, Prepare, UsePrepared
<1>8. CASE Faulty
  <2>1. ~SupervisorFails
    BY FreshShape DEF SupervisorFails
  <2>2. ~FinishRepeats /\ ~Prepare(FALSE)
    BY DEF FinishRepeats, Prepare
  <2> QED
    BY <1>1, <1>6, <1>8, <1>e, <2>1, <2>2 DEF Faulty, Resignal
<1> QED
  BY <1>1, <1>2, <1>3, <1>4, <1>5, <1>7, <1>8 DEF Next

LEMMA TroublesStay == Next => troubles \subseteq troubles'
<1> SUFFICES ASSUME Next PROVE troubles \subseteq troubles'
  OBVIOUS
<1> USE DEF store, bounds, Trouble
<1>1. CASE Operator \/ Signals \/ WorkSettles \/ Loop \/ Late
  BY <1>1 DEF Operator, Request, Pause, Resume, Stop, StopSignal, Signals, Signal, MarkSignaled,
     WorkSettles, Loop, TakeInterrupted, TakePending, Watch, Late, LateEnd
<1>2. ASSUME NEW answered \in BOOLEAN, Prepare(answered) PROVE troubles \subseteq troubles'
  BY <1>2 DEF Prepare
<1>3. CASE Activity
  BY <1>2, <1>3 DEF Activity, Check, CheckWrite, Skip, AnswerRecorded, BeginWork, RefuseWork, WorkEnds,
     Cancelled, Discard, FinishRead, FinishWrite, PrepareRead, PrepareLimit, UsePrepared
<1>4. CASE Faulty \/ PrepareLimit(TRUE)
  BY <1>2, <1>4 DEF Faulty, Resignal, WorkUnanswered, WorkRetried, ScopeFails, FinishRepeats,
     SupervisorFails, PrepareLimit
<1> QED
  BY <1>1, <1>3, <1>4 DEF Next

LEMMA WorkStaysOpen == RoomInv /\ WorkOpen /\ [Next]_vars => WorkOpen'
<1> SUFFICES ASSUME RoomInv, WorkOpen, [Next]_vars, "late" \notin troubles', sup'.pc = "work",
                    sup'.item \in DOMAIN turns'
             PROVE  ~Recorded(sup.item)'
  BY DEF WorkOpen
<1>1. CASE UNCHANGED vars
  BY <1>1 DEF vars, WorkOpen, Recorded
<1>2. CASE Next /\ sup.pc = "work"
  <2>1. NoneRecorded /\ sup'.item = sup.item /\ "late" \notin troubles
    BY <1>2, StepOutcomes, StaysAtWork, TroublesStay
  <2> QED
    BY <1>2, <2>1 DEF NoneRecorded, WorkOpen, Recorded
<1>3. CASE Next /\ sup.pc # "work"
  <2>1. BeginWork /\ Shaped(sup) /\ turns \in Seq(Turns)
    BY <1>3, ComesToWork DEF RoomInv, Sound
  <2>2. sup'.item = sup.item
    BY <2>1 DEF BeginWork, Step, Shaped
  <2>3. turns' = [turns EXCEPT ![sup.item].run = "RUNNING"] /\ sup.item \in DOMAIN turns
    BY <2>1, <2>2 DEF BeginWork
  <2>4. turns[sup.item] \in Turns
    BY <2>1, <2>3, ElementOfSeq, LenProperties
  <2>5. turns'[sup.item].run = "RUNNING"
    BY <2>3, <2>4 DEF Turns
  <2> QED
    BY <2>2, <2>5 DEF Recorded
<1> QED
  BY <1>1, <1>2, <1>3

(* The recorded outcome of a turn is final, unless an attempt that was given up *)
(* has written: nothing else works on a recorded turn or discards it.           *)
THEOREM RecordedOutcomeIsFinal == Spec => RecordedIsFinal
<1>1. Init => WorkOpen
  BY FreshShape DEF Init, WorkOpen
<1>2. RoomInv /\ WorkOpen /\ [Next]_vars
        => [\A n \in DOMAIN turns :
              Recorded(n) /\ "late" \notin troubles' =>
                turns'[n].run = "COMPLETED" /\ turns'[n].outcome = turns[n].outcome]_vars
  BY StepOutcomes DEF OutcomesKept
<1> QED
  BY <1>1, <1>2, WorkStaysOpen, RoomAlways, PTL DEF Spec, RecordedIsFinal

-----------------------------------------------------------------------------
(* The queues of the workflow *)

(* The items of the first i places, for each i up to n.                    *)
PicksUpTo(q, S, n, f) ==
  f = [i \in 0..n |-> IF i = 0 THEN <<>>
                      ELSE IF q[i] \in S THEN Append(f[i - 1], q[i]) ELSE f[i - 1]]

(* A set of numbers that has members has a least one.                       *)
LEMMA LeastOf ==
  ASSUME NEW T \in SUBSET Nat, T # {}
  PROVE  \E n \in T : \A m \in T : n <= m
<1>1. PICK R : IsWellFoundedOn(R, Nat) /\ R = {p \in Nat \X Nat : p[1] < p[2]}
  BY NatLessThanWellFounded DEF OpToRel
<1>a. \A m, k \in Nat : m < k => <<m, k>> \in R
  BY <1>1
<1>2. PICK n \in T : \A m \in T : ~(<<m, n>> \in R)
  BY <1>1, WFMin
<1>3. ASSUME NEW m \in T PROVE n <= m
  <2>1. m \in Nat /\ n \in Nat /\ ~(<<m, n>> \in R)
    BY <1>2
  <2>2. ~(m < n)
    BY ONLY <1>a, <2>1
  <2> QED
    BY ONLY <2>1, <2>2
<1> QED
  BY <1>3

(* The recursive definition of Picked has a solution, ...                   *)
LEMMA PicksExist ==
  ASSUME NEW q, NEW S, NEW n \in Nat PROVE \E f : PicksUpTo(q, S, n, f)
<1> DEFINE T == {m \in Nat : ~\E f : PicksUpTo(q, S, m, f)}
<1>1. SUFFICES ASSUME T # {} PROVE FALSE
  OBVIOUS
<1>2. PICK m \in T : \A k \in T : m <= k
  BY <1>1, LeastOf
<1>3. CASE m = 0
  <2>1. PicksUpTo(q, S, 0, [i \in 0..0 |-> <<>>])
    BY DEF PicksUpTo
  <2> QED
    BY <1>2, <1>3, <2>1
<1>4. CASE m # 0
  <2>1. m - 1 \in Nat /\ m - 1 \notin T
    BY <1>2, <1>4
  <2>2. PICK f : PicksUpTo(q, S, m - 1, f)
    BY <2>1
  <2> DEFINE g == [i \in 0..m |-> IF i < m THEN f[i]
                     ELSE IF q[m] \in S THEN Append(f[m - 1], q[m]) ELSE f[m - 1]]
  <2>3. \A i \in 0..m : i # 0 => i - 1 \in 0..m /\ i - 1 < m /\ g[i - 1] = f[i - 1]
    BY <1>2
  <2>4. \A i \in 0..(m - 1) : f[i] = IF i = 0 THEN <<>>
                      ELSE IF q[i] \in S THEN Append(f[i - 1], q[i]) ELSE f[i - 1]
    BY <2>2 DEF PicksUpTo
  <2>5. ASSUME NEW i \in 0..m
        PROVE  g[i] = IF i = 0 THEN <<>>
                      ELSE IF q[i] \in S THEN Append(g[i - 1], q[i]) ELSE g[i - 1]
    <3>1. CASE i < m
      <4>1. i \in 0..(m - 1) /\ g[i] = f[i]
        BY <3>1, <1>2
      <4> HIDE DEF g
      <4> QED
        BY <4>1, <2>3, <2>4
    <3>2. CASE i = m
      <4>1. g[i] = IF q[m] \in S THEN Append(f[m - 1], q[m]) ELSE f[m - 1]
        BY <3>2
      <4> HIDE DEF g
      <4> QED
        BY <4>1, <3>2, <1>4, <2>3
    <3> QED
      BY <3>1, <3>2, <1>2
  <2>6. PicksUpTo(q, S, m, g)
    <3>1. g = [i \in 0..m |-> g[i]]
      OBVIOUS
    <3> HIDE DEF g
    <3> QED
      BY <3>1, <2>5 DEF PicksUpTo
  <2> QED
    BY <1>2, <2>6
<1> QED
  BY <1>3, <1>4

(* ... and Picked is its last value.                                        *)
LEMMA PickedValue ==
  ASSUME NEW q, NEW S, Len(q) \in Nat
  PROVE  \E f : PicksUpTo(q, S, Len(q), f) /\ Picked(q, S) = f[Len(q)]
<1>1. PICK g : PicksUpTo(q, S, Len(q), g)
  BY PicksExist
<1> DEFINE f == CHOOSE h : PicksUpTo(q, S, Len(q), h)
<1>2. PicksUpTo(q, S, Len(q), f)
  BY <1>1
<1>3. Picked(q, S) = f[Len(q)]
  BY DEF Picked, PicksUpTo
<1> QED
  BY <1>2, <1>3

(* What is picked of a queue: the items in the set, and none twice.         *)
LEMMA PickedQueue ==
  ASSUME NEW X, NEW q \in Seq(X), NEW S
  PROVE  /\ Picked(q, S) \in Seq(X)
         /\ Range(Picked(q, S)) = Range(q) \cap S
         /\ IsInjective(q) => IsInjective(Picked(q, S))
<1>1. PICK f : PicksUpTo(q, S, Len(q), f) /\ Picked(q, S) = f[Len(q)]
  BY PickedValue, LenProperties
<1> DEFINE n == Len(q)
           Good(i) == /\ f[i] \in Seq(X)
                      /\ Range(f[i]) = {q[j] : j \in {k \in 1..i : q[k] \in S}}
                      /\ IsInjective(q) => IsInjective(f[i])
           T == {i \in 0..n : ~Good(i)}
<1>2. n \in Nat /\ DOMAIN q = 1..n /\ \A i \in 1..n : q[i] \in X
  BY LenProperties, ElementOfSeq
<1>3. /\ f[0] = <<>>
      /\ \A i \in 1..n : f[i] = IF q[i] \in S THEN Append(f[i - 1], q[i]) ELSE f[i - 1]
  <2>1. PicksUpTo(q, S, n, f) /\ n \in Nat
    BY <1>1, <1>2
  <2> HIDE DEF n
  <2>2. \A i \in 0..n : f[i] = IF i = 0 THEN <<>>
                               ELSE IF q[i] \in S THEN Append(f[i - 1], q[i]) ELSE f[i - 1]
    BY <2>1 DEF PicksUpTo
  <2>3. 0 \in 0..n /\ \A i \in 1..n : i \in 0..n /\ i # 0
    BY <2>1
  <2> QED
    BY <2>2, <2>3
<1>4. Good(0)
  BY <1>3 DEF Range, IsInjective
<1>5. ASSUME NEW i \in 1..n, Good(i - 1) PROVE Good(i)
  <2>1. CASE q[i] \notin S
    <3>1. f[i] = f[i - 1]
      BY <1>3, <2>1
    <3>2. {k \in 1..i : q[k] \in S} = {k \in 1..(i - 1) : q[k] \in S}
      BY <2>1, <1>2
    <3> QED
      BY <1>5, <3>1, <3>2
  <2>2. CASE q[i] \in S
    <3> DEFINE p == f[i - 1]
               l == Len(p)
    <3>1. p \in Seq(X) /\ q[i] \in X /\ f[i] = Append(p, q[i])
      BY <1>2, <1>3, <1>5, <2>2
    <3>2. Range(p) = {q[j] : j \in {k \in 1..(i - 1) : q[k] \in S}} /\ (IsInjective(q) => IsInjective(p))
      BY <1>5
    <3> HIDE DEF p
    <3>3. /\ f[i] \in Seq(X) /\ l \in Nat /\ DOMAIN p = 1..l /\ DOMAIN f[i] = 1..(l + 1)
          /\ \A k \in 1..l : f[i][k] = p[k]
          /\ f[i][l + 1] = q[i]
      BY <3>1, AppendProperties, LenProperties
    <3> HIDE DEF l
    <3>4. Range(f[i]) = Range(p) \cup {q[i]}
      BY <3>3 DEF Range
    <3>5. {k \in 1..i : q[k] \in S} = {k \in 1..(i - 1) : q[k] \in S} \cup {i}
      BY <2>2, <1>2
    <3>6. Range(f[i]) = {q[j] : j \in {k \in 1..i : q[k] \in S}}
      BY <3>2, <3>4, <3>5
    <3>7. ASSUME IsInjective(q) PROVE IsInjective(f[i])
      <4>1. q[i] \notin Range(p)
        BY <3>2, <3>7, <1>2 DEF IsInjective
      <4>2. \A k \in 1..l : f[i][k] # q[i]
        BY <3>3, <4>1 DEF Range
      <4>3. \A k, m \in 1..l : f[i][k] = f[i][m] => k = m
        BY <3>2, <3>3, <3>7 DEF IsInjective
      <4> QED
        BY <3>3, <4>2, <4>3 DEF IsInjective
    <3> QED
      BY <3>3, <3>6, <3>7
  <2> QED
    BY <2>1, <2>2
<1> HIDE DEF Good
<1>6. T = {}
  <2> SUFFICES ASSUME T # {} PROVE FALSE
    OBVIOUS
  <2>0. T \in SUBSET Nat
    BY <1>2
  <2>1. PICK i \in T : \A k \in T : i <= k
    <3> HIDE DEF T
    <3> QED
      BY <2>0, LeastOf
  <2>2. i # 0 /\ i \in 0..n /\ ~Good(i)
    BY <1>4, <2>1
  <2>3. i \in 1..n /\ i - 1 \in 0..n /\ ~(i <= i - 1)
    BY <1>2, <2>2
  <2>4. Good(i - 1)
    BY <2>1, <2>3
  <2> QED
    BY <1>5, <2>2, <2>3, <2>4
<1>7. Good(n)
  BY <1>2, <1>6
<1>8. {q[j] : j \in {k \in 1..n : q[k] \in S}} = Range(q) \cap S
  BY <1>2 DEF Range
<1> QED
  BY <1>1, <1>7, <1>8 DEF Good


-----------------------------------------------------------------------------
(* Where the workflow stands *)

AtItem == {"check", "checkWrite", "skip", "begin", "work"}
Ending == {"discard", "finish", "finishWrite"}
Between == {"idle", "prepare", "prepareWrite", "prepared"}

(* A run whose queues, item and made turn are turns of T; an item that is   *)
(* active, or a turn that was made, is in no queue.                         *)
Placed(T, s) ==
  /\ s.active \in BOOLEAN /\ s.cancelled \in BOOLEAN
  /\ s.pending \in Seq(DOMAIN T) /\ s.interrupted \in Seq(DOMAIN T) /\ IsInjective(s.pending)
  /\ \/ s.pc \in Between /\ s.item = 0 /\ ~s.active
     \/ s.pc \in AtItem /\ s.item \in DOMAIN T /\ s.active
     \/ s.pc \in Ending /\ s.item \in DOMAIN T
  /\ s.active => s.item \notin Range(s.pending)
  /\ s.cancelled => s.active
  /\ s.pc = "prepareWrite" => s.seen.latest \in DOMAIN T
  /\ s.pc = "prepared" => s.made # 0
  /\ s.made # 0 => /\ s.pc \in {"prepare", "prepared"} /\ s.made \in DOMAIN T
                   /\ T[s.made].signal = "MARKED" /\ s.made \notin Range(s.pending)

(* The iteration of s has ended in t, and the item has left the run. *)
Rested(s, t) ==
  /\ t.pc = "idle" /\ t.item = 0 /\ t.active = FALSE /\ t.cancelled = FALSE /\ t.made = 0
  /\ t.verdict = "NONE" /\ t.pending = s.pending /\ t.interrupted = s.interrupted

(* From s to t the run stays with its item. *)
Moved(s, t) ==
  /\ t.item = s.item /\ t.active = s.active /\ t.cancelled = s.cancelled /\ t.made = s.made
  /\ t.pending = s.pending /\ t.interrupted = s.interrupted

LEMMA RestRested == ASSUME NEW s, Shaped(s) PROVE Rested(s, Rest(s))
BY DEF Shaped, Rest, Rested

LEMMA MonitoringRested ==
  ASSUME NEW s, Shaped(s), NEW m PROVE Rested(s, Rest([s EXCEPT !.monitoring = m]))
<1>1. Shaped([s EXCEPT !.monitoring = m])
  BY DEF Shaped
<1>2. /\ [s EXCEPT !.monitoring = m].pending = s.pending
      /\ [s EXCEPT !.monitoring = m].interrupted = s.interrupted
  BY DEF Shaped
<1> QED
  BY <1>1, <1>2, RestRested DEF Rested

LEMMA ResultedMoves ==
  ASSUME Shaped(sup), NEW result
  PROVE  \/ Rested(sup, Resulted(result))
         \/ /\ Moved(sup, Resulted(result)) /\ Resulted(result).pc = "finish"
            /\ Resulted(result).verdict = Verdict(result) /\ result # "WORKING"
<1>1. CASE Resulted(result) = [sup EXCEPT !.monitoring = FALSE, !.pc = "finish",
                                          !.verdict = Verdict(result)] /\ result # "WORKING"
  BY <1>1 DEF Shaped, Moved
<1>2. CASE Resulted(result) = Rest(sup)
  BY <1>2, RestRested
<1>3. CASE Resulted(result) = Rest([sup EXCEPT !.monitoring = TRUE])
  BY <1>3, MonitoringRested
<1> QED
  BY <1>1, <1>2, <1>3 DEF Resulted

LEMMA StepMoves ==
  ASSUME Shaped(sup), NEW pc, Step(pc) PROVE Moved(sup, sup') /\ sup'.pc = pc
BY DEF Shaped, Step, Moved

-----------------------------------------------------------------------------
(* A larger set of turns, and the ends of a queue *)

LEMMA SeqGrows ==
  ASSUME NEW X, NEW Y, X \subseteq Y, NEW q \in Seq(X) PROVE q \in Seq(Y)
<1>1. Len(q) \in Nat /\ q = [i \in 1..Len(q) |-> q[i]] /\ \A i \in 1..Len(q) : q[i] \in X
  BY LenProperties, ElementOfSeq
<1> QED
  BY <1>1, IsASeq

LEMMA QueueAppended ==
  ASSUME NEW X, NEW q \in Seq(X), NEW x \in X
  PROVE  /\ Append(q, x) \in Seq(X) /\ Range(Append(q, x)) = Range(q) \cup {x}
         /\ IsInjective(q) /\ x \notin Range(q) => IsInjective(Append(q, x))
<1> DEFINE p == Append(q, x)
           l == Len(q)
<1>1. /\ p \in Seq(X) /\ l \in Nat /\ DOMAIN q = 1..l /\ DOMAIN p = 1..(l + 1)
      /\ \A k \in 1..l : p[k] = q[k]
      /\ p[l + 1] = x
  <2>1. /\ p \in Seq(X) /\ Len(p) = l + 1 /\ l \in Nat
        /\ \A k \in 1..l : p[k] = q[k]
        /\ p[l + 1] = x
    BY AppendProperties, LenProperties
  <2> HIDE DEF p
  <2> QED
    BY <2>1, LenProperties
<1> HIDE DEF p, l
<1>2. Range(p) = Range(q) \cup {x}
  BY <1>1 DEF Range
<1>3. ASSUME IsInjective(q), x \notin Range(q) PROVE IsInjective(p)
  <2>1. \A k \in 1..l : p[k] # x
    BY <1>1, <1>3 DEF Range
  <2>2. \A k, m \in 1..l : p[k] = p[m] => k = m
    BY <1>1, <1>3 DEF IsInjective
  <2> QED
    BY <1>1, <2>1, <2>2 DEF IsInjective
<1> QED
  BY <1>1, <1>2, <1>3 DEF p

LEMMA QueueTaken ==
  ASSUME NEW X, NEW q \in Seq(X), q # <<>>
  PROVE  /\ Head(q) \in X /\ Tail(q) \in Seq(X) /\ Range(q) = Range(Tail(q)) \cup {Head(q)}
         /\ IsInjective(q) => IsInjective(Tail(q)) /\ Head(q) \notin Range(Tail(q))
<1> DEFINE p == Tail(q)
           l == Len(q)
<1>1. /\ Head(q) = q[1] /\ p \in Seq(X) /\ l \in Nat /\ l # 0 /\ DOMAIN q = 1..l
      /\ DOMAIN p = 1..(l - 1)
      /\ \A k \in 1..(l - 1) : p[k] = q[k + 1]
      /\ q[1] \in X
  <2>0. Head(q) = q[1]
    OBVIOUS
  <2>1. Head(q) = q[1] /\ p \in Seq(X) /\ Len(p) = Len(q) - 1
    BY <2>0, HeadTailProperties
  <2>2. l \in Nat /\ l # 0 /\ DOMAIN q = 1..l
    BY LenProperties, EmptySeq
  <2>3. \A k \in 1..(l - 1) : p[k] = q[k + 1]
    BY HeadTailProperties, <2>1
  <2>4. DOMAIN p = 1..(l - 1)
    <3> HIDE DEF p
    <3> QED
      BY <2>1, LenProperties
  <2>5. q[1] \in X
    BY <2>2, ElementOfSeq
  <2> QED
    BY <2>1, <2>2, <2>3, <2>4, <2>5
<1> HIDE DEF p, l
<1>2. \A k \in 1..l : k = 1 \/ (k - 1 \in 1..(l - 1) /\ q[k] = p[k - 1])
  BY <1>1
<1>3. \A k \in 1..(l - 1) : k + 1 \in 1..l /\ k + 1 # 1
  BY <1>1
<1>4. Range(q) = Range(p) \cup {q[1]}
  <2>1. ASSUME NEW k \in 1..l PROVE q[k] \in Range(p) \cup {q[1]}
    BY <1>1, <1>2 DEF Range
  <2>2. ASSUME NEW k \in 1..(l - 1) PROVE p[k] \in Range(q)
    BY <1>1, <1>3 DEF Range
  <2>3. q[1] \in Range(q)
    BY <1>1 DEF Range
  <2> QED
    BY <1>1, <2>1, <2>2, <2>3 DEF Range
<1>5. ASSUME IsInjective(q) PROVE IsInjective(p) /\ q[1] \notin Range(p)
  <2>1. \A k, m \in 1..l : q[k] = q[m] => k = m
    BY <1>1, <1>5 DEF IsInjective
  <2>2. \A k, m \in 1..(l - 1) : p[k] = p[m] => k = m
    BY <1>1, <1>3, <2>1
  <2>3. 1 \in 1..l
    BY <1>1
  <2>4. \A k \in 1..(l - 1) : p[k] # q[1]
    BY <1>1, <1>3, <2>1, <2>3
  <2> QED
    BY <1>1, <2>2, <2>4 DEF IsInjective, Range
<1> QED
  BY <1>1, <1>4, <1>5 DEF p

LEMMA QueuesJoined ==
  ASSUME NEW X, NEW p \in Seq(X), NEW q \in Seq(X)
  PROVE  p \o q \in Seq(X) /\ Range(p \o q) = Range(p) \cup Range(q)
<1> DEFINE r == p \o q
           l == Len(p)
           m == Len(q)
<1>1. /\ r \in Seq(X) /\ l \in Nat /\ m \in Nat
      /\ DOMAIN p = 1..l /\ DOMAIN q = 1..m /\ DOMAIN r = 1..(l + m)
      /\ \A i \in 1..(l + m) : r[i] = IF i <= l THEN p[i] ELSE q[i - l]
  BY ConcatProperties, LenProperties
<1> HIDE DEF r, l, m
<1>2. \A i \in 1..l : i \in 1..(l + m) /\ r[i] = p[i]
  BY <1>1
<1>3. \A i \in 1..m : l + i \in 1..(l + m) /\ r[l + i] = q[i]
  BY <1>1
<1>4. \A i \in 1..(l + m) : i \in 1..l \/ (i - l \in 1..m /\ l + (i - l) = i)
  BY <1>1
<1>5. Range(r) \subseteq Range(p) \cup Range(q)
  <2> SUFFICES ASSUME NEW i \in 1..(l + m) PROVE r[i] \in Range(p) \cup Range(q)
    BY <1>1 DEF Range
  <2>1. CASE i \in 1..l
    BY <1>1, <1>2, <2>1 DEF Range
  <2>2. CASE i - l \in 1..m /\ l + (i - l) = i
    <3>1. r[i] = q[i - l]
      BY <1>3, <2>2
    <3> QED
      BY <1>1, <2>2, <3>1 DEF Range
  <2> QED
    BY <1>4, <2>1, <2>2
<1>6. Range(p) \subseteq Range(r) /\ Range(q) \subseteq Range(r)
  <2>1. ASSUME NEW i \in 1..l PROVE p[i] \in Range(r)
    BY <1>1, <1>2 DEF Range
  <2>2. ASSUME NEW i \in 1..m PROVE q[i] \in Range(r)
    <3>1. l + i \in DOMAIN r /\ r[l + i] = q[i]
      BY <1>1, <1>3
    <3> QED
      BY <3>1 DEF Range
  <2> QED
    BY <1>1, <2>1, <2>2 DEF Range
<1> QED
  BY <1>1, <1>5, <1>6 DEF r

-----------------------------------------------------------------------------
(* Every item stays in its place *)

LEMMA PlacedRested ==
  ASSUME NEW T, NEW s, NEW t, Placed(T, s), Rested(s, t) PROVE Placed(T, t)
BY DEF Placed, Rested, Between

LEMMA PlacedMoved ==
  ASSUME NEW T, NEW s, NEW t, Placed(T, s), Moved(s, t),
         \/ s.pc \in AtItem /\ t.pc \in AtItem \cup Ending
         \/ s.pc \in Ending /\ t.pc \in Ending
  PROVE  Placed(T, t)
<1>1. s.pc \notin Between /\ t.pc \notin Between
  BY DEF AtItem, Ending, Between
<1>2. s.made = 0 /\ s.item \in DOMAIN T
  BY <1>1 DEF Placed, AtItem, Ending, Between
<1>3. t.pc \notin {"prepareWrite", "prepared"}
  BY <1>1 DEF Between
<1>4. s.pc \in AtItem => s.active
  BY <1>1 DEF Placed, AtItem, Ending
<1> QED
  BY <1>1, <1>2, <1>3, <1>4 DEF Placed, Moved

(* The item, or the turn that was made, goes to the end of the queue. *)
LEMMA PlacedBehind ==
  ASSUME NEW T, NEW s, NEW t, Placed(T, s), Shaped(s), NEW n \in DOMAIN T, n \notin Range(s.pending),
         t = Rest([s EXCEPT !.pending = Append(@, n)])
  PROVE  Placed(T, t)
<1>1. Shaped([s EXCEPT !.pending = Append(@, n)])
  BY DEF Shaped
<1>2. /\ [s EXCEPT !.pending = Append(@, n)].pending = Append(s.pending, n)
      /\ [s EXCEPT !.pending = Append(@, n)].interrupted = s.interrupted
  BY DEF Shaped
<1>3. /\ t.pc = "idle" /\ t.item = 0 /\ t.active = FALSE /\ t.cancelled = FALSE /\ t.made = 0
      /\ t.pending = Append(s.pending, n) /\ t.interrupted = s.interrupted
  BY <1>1, <1>2, RestRested DEF Rested
<1>4. Append(s.pending, n) \in Seq(DOMAIN T) /\ IsInjective(Append(s.pending, n))
  BY QueueAppended DEF Placed
<1> QED
  BY <1>3, <1>4 DEF Placed, Between

LEMMA PlacedGrows ==
  ASSUME NEW T, NEW U, NEW s, Placed(T, s), DOMAIN T \subseteq DOMAIN U,
         \A n \in DOMAIN T : T[n].signal = "MARKED" => U[n].signal = "MARKED"
  PROVE  Placed(U, s)
<1>1. s.pending \in Seq(DOMAIN U) /\ s.interrupted \in Seq(DOMAIN U)
  BY SeqGrows DEF Placed
<1> QED
  BY <1>1 DEF Placed

(* What the handler of the signal does to the queues. *)
LEMMA EnqueuedMoves ==
  ASSUME Shaped(sup), Placed(turns, sup), NEW n \in DOMAIN turns, ~Known(n)
  PROVE  LET s == Enqueued(n)
         IN /\ s.pc = sup.pc /\ s.item = sup.item /\ s.active = sup.active
            /\ s.cancelled = (sup.cancelled \/ (sup.active /\ IsContinuation(sup.item)))
            /\ s.made = sup.made /\ s.verdict = sup.verdict /\ s.seen = sup.seen
            /\ s.pending \in Seq(DOMAIN turns) /\ s.interrupted \in Seq(DOMAIN turns)
            /\ IsInjective(s.pending)
            /\ Range(s.pending) = {k \in Range(sup.pending) : ~IsContinuation(k)} \cup {n}
            /\ Range(s.interrupted) = Range(sup.interrupted)
                                        \cup {k \in Range(sup.pending) : IsContinuation(k)}
<1> DEFINE A == {k \in DOMAIN turns : IsContinuation(k)}
           B == DOMAIN turns \ A
           p == Picked(sup.pending, B)
           i == Picked(sup.pending, A)
           s == Enqueued(n)
<1>1. /\ sup.pending \in Seq(DOMAIN turns) /\ sup.interrupted \in Seq(DOMAIN turns)
      /\ IsInjective(sup.pending) /\ n \notin Range(sup.pending)
  BY DEF Placed, Known
<1>2. /\ p \in Seq(DOMAIN turns) /\ Range(p) = Range(sup.pending) \cap B /\ IsInjective(p)
      /\ i \in Seq(DOMAIN turns) /\ Range(i) = Range(sup.pending) \cap A
  BY <1>1, PickedQueue
<1>3. s = [sup EXCEPT !.changed = Preparing, !.interrupted = @ \o i, !.pending = Append(p, n),
                      !.cancelled = @ \/ (sup.active /\ IsContinuation(sup.item))]
  BY DEF Enqueued
<1> HIDE DEF p, i, s
<1>4. /\ s.pc = sup.pc /\ s.item = sup.item /\ s.active = sup.active
      /\ s.cancelled = (sup.cancelled \/ (sup.active /\ IsContinuation(sup.item)))
      /\ s.made = sup.made /\ s.verdict = sup.verdict /\ s.seen = sup.seen
      /\ s.pending = Append(p, n) /\ s.interrupted = sup.interrupted \o i
  BY <1>3 DEF Shaped
<1>5. Range(sup.pending) \subseteq DOMAIN turns
  <2>1. \A k \in DOMAIN sup.pending : sup.pending[k] \in DOMAIN turns
    BY <1>1, LenProperties, ElementOfSeq
  <2> QED
    BY <2>1 DEF Range
<1>6. /\ s.pending \in Seq(DOMAIN turns) /\ IsInjective(s.pending)
      /\ Range(s.pending) = Range(p) \cup {n}
  BY <1>1, <1>2, <1>4, QueueAppended
<1>7. /\ s.interrupted \in Seq(DOMAIN turns)
      /\ Range(s.interrupted) = Range(sup.interrupted) \cup Range(i)
  BY <1>1, <1>2, <1>4, QueuesJoined
<1>8. /\ Range(p) = {k \in Range(sup.pending) : ~IsContinuation(k)}
      /\ Range(i) = {k \in Range(sup.pending) : IsContinuation(k)}
  BY <1>2, <1>5
<1> QED
  BY <1>4, <1>6, <1>7, <1>8 DEF s

LEMMA PlacedEnqueued ==
  ASSUME Shaped(sup), Placed(turns, sup), NEW n \in DOMAIN turns, turns[n].signal # "MARKED"
  PROVE  Placed(turns, Enqueued(n))
<1>1. CASE Known(n)
  BY <1>1 DEF Enqueued
<1>2. CASE ~Known(n)
  <2> DEFINE s == Enqueued(n)
  <2>1. /\ s.pc = sup.pc /\ s.item = sup.item /\ s.active = sup.active
        /\ s.cancelled = (sup.cancelled \/ (sup.active /\ IsContinuation(sup.item)))
        /\ s.made = sup.made /\ s.seen = sup.seen
        /\ s.pending \in Seq(DOMAIN turns) /\ s.interrupted \in Seq(DOMAIN turns)
        /\ IsInjective(s.pending)
        /\ Range(s.pending) \subseteq Range(sup.pending) \cup {n}
    BY <1>2, EnqueuedMoves
  <2> HIDE DEF s
  <2>2. ~(sup.active /\ sup.item = n) /\ (sup.made # 0 => sup.made # n)
    BY <1>2 DEF Known, Placed
  <2>3. s.active => s.item \notin Range(s.pending)
    BY <2>1, <2>2 DEF Placed
  <2>4. s.cancelled \in BOOLEAN /\ (s.cancelled => s.active)
    BY <2>1 DEF Placed
  <2>5. s.made # 0 => /\ s.pc \in {"prepare", "prepared"} /\ s.made \in DOMAIN turns
                      /\ turns[s.made].signal = "MARKED" /\ s.made \notin Range(s.pending)
    BY <2>1, <2>2 DEF Placed
  <2>6. Placed(turns, s)
    BY <2>1, <2>3, <2>4, <2>5 DEF Placed
  <2> QED
    BY <2>6 DEF s
<1> QED
  BY <1>1, <1>2

LEMMA PlacedStopped == ASSUME Shaped(sup), Placed(turns, sup), StopSignal PROVE Placed(turns, sup')
<1>1. /\ sup'.pc = sup.pc /\ sup'.item = sup.item /\ sup'.active = sup.active
      /\ sup'.cancelled = (sup.cancelled \/ sup.active)
      /\ sup'.made = sup.made /\ sup'.seen = sup.seen
      /\ sup'.pending = <<>> /\ sup'.interrupted = sup.interrupted \o sup.pending
  BY DEF StopSignal, Shaped
<1>2. sup'.pending \in Seq(DOMAIN turns) /\ IsInjective(sup'.pending) /\ Range(sup'.pending) = {}
  BY <1>1, EmptySeq DEF IsInjective, Range
<1>3. sup'.interrupted \in Seq(DOMAIN turns)
  BY <1>1, QueuesJoined DEF Placed
<1> QED
  BY <1>1, <1>2, <1>3 DEF Placed

(* A step moves the run to another place, and Placed with it. *)
LEMMA PlacedLoop ==
  ASSUME RoomInv, Placed(turns, sup), Loop PROVE Placed(turns, sup')
<1>t. Shaped(sup)
  BY DEF RoomInv, Sound
<1>i. sup.pc = "idle" => sup.item = 0 /\ ~sup.active /\ ~sup.cancelled /\ sup.made = 0
  BY DEF Placed, AtItem, Ending
<1>1. ASSUME TakeInterrupted PROVE Placed(turns, sup')
  <2>1. /\ sup'.pc = "discard" /\ sup'.item = Head(sup.interrupted)
        /\ sup'.interrupted = Tail(sup.interrupted) /\ sup'.pending = sup.pending
        /\ sup'.active = sup.active /\ sup'.cancelled = sup.cancelled /\ sup'.made = sup.made
    BY <1>1, <1>t DEF TakeInterrupted, Shaped
  <2>2. sup'.interrupted \in Seq(DOMAIN turns) /\ sup'.item \in DOMAIN turns
    <3>1. sup.interrupted \in Seq(DOMAIN turns) /\ sup.interrupted # <<>>
      BY <1>1 DEF TakeInterrupted, Placed
    <3>2. Head(sup.interrupted) \in DOMAIN turns /\ Tail(sup.interrupted) \in Seq(DOMAIN turns)
      BY ONLY <3>1, QueueTaken
    <3> QED
      BY <2>1, <3>2
  <2> QED
    BY <1>1, <1>i, <2>1, <2>2 DEF Placed, Ending, TakeInterrupted
<1>2. ASSUME TakePending PROVE Placed(turns, sup')
  <2>1. /\ sup'.pc = "check" /\ sup'.item = Head(sup.pending)
        /\ sup'.pending = Tail(sup.pending) /\ sup'.interrupted = sup.interrupted
        /\ sup'.active = TRUE /\ sup'.cancelled = sup.cancelled /\ sup'.made = sup.made
    BY <1>2, <1>t DEF TakePending, Shaped
  <2>2. /\ sup'.pending \in Seq(DOMAIN turns) /\ sup'.item \in DOMAIN turns
        /\ IsInjective(sup'.pending) /\ sup'.item \notin Range(sup'.pending)
    <3>1. sup.pending \in Seq(DOMAIN turns) /\ sup.pending # <<>> /\ IsInjective(sup.pending)
      BY <1>2 DEF TakePending, HasPending, Placed
    <3>2. /\ Head(sup.pending) \in DOMAIN turns /\ Tail(sup.pending) \in Seq(DOMAIN turns)
          /\ IsInjective(Tail(sup.pending)) /\ Head(sup.pending) \notin Range(Tail(sup.pending))
      BY ONLY <3>1, QueueTaken
    <3> QED
      BY <2>1, <3>2
  <2> QED
    BY <1>2, <1>i, <2>1, <2>2 DEF Placed, AtItem, TakePending
<1>3. ASSUME Watch PROVE Placed(turns, sup')
  <2>1. sup'.pc = "prepare" /\ Moved(sup, sup')
    BY <1>3, <1>t DEF Watch, Shaped, Moved
  <2> QED
    BY <1>3, <1>i, <2>1 DEF Placed, Between, Moved, Watch
<1> QED
  BY <1>1, <1>2, <1>3 DEF Loop

LEMMA PlacedCheck ==
  ASSUME RoomInv, Placed(turns, sup), Check \/ CheckWrite PROVE Placed(turns, sup')
<1>t. Shaped(sup)
  BY DEF RoomInv, Sound
<1>0. sup.pc \in AtItem /\ sup.item \in DOMAIN turns /\ sup.item \notin Range(sup.pending)
  BY DEF Check, CheckWrite, Placed, AtItem, Between, Ending
<1>1. ASSUME sup' = Requeued PROVE Placed(turns, sup')
  BY <1>0, <1>1, <1>t, PlacedBehind DEF Requeued
<1>2. ASSUME NEW pc \in {"skip", "begin"}, sup' = [sup EXCEPT !.pc = pc] PROVE Placed(turns, sup')
  <2>1. sup'.pc = pc /\ Moved(sup, sup')
    BY <1>2, <1>t DEF Shaped, Moved
  <2> QED
    BY <1>0, <2>1, PlacedMoved DEF AtItem
<1>3. ASSUME sup' = [sup EXCEPT !.pc = "checkWrite", !.seen.latest = Latest]
      PROVE  Placed(turns, sup')
  <2>1. sup'.pc = "checkWrite" /\ Moved(sup, sup')
    BY <1>3, <1>t DEF Shaped, Moved
  <2> QED
    BY <1>0, <2>1, PlacedMoved DEF AtItem
<1> QED
  BY <1>1, <1>2, <1>3 DEF Check, CheckWrite

LEMMA PlacedWork ==
  ASSUME RoomInv, Placed(turns, sup),
         \/ Skip \/ AnswerRecorded \/ BeginWork \/ RefuseWork
         \/ \E result \in Results : WorkEnds(result) \/ WorkUnanswered(result)
         \/ \E alive \in BOOLEAN : WorkRetried(alive)
  PROVE  Placed(turns, sup')
<1>t. Shaped(sup)
  BY DEF RoomInv, Sound
<1>0. sup.pc \in {"skip", "begin", "work"}
  BY DEF Skip, AnswerRecorded, BeginWork, RefuseWork, WorkEnds, WorkUnanswered, WorkRetried
<1>1. ASSUME sup' = Rest(sup) PROVE Placed(turns, sup')
  BY <1>1, <1>t, RestRested, PlacedRested
<1>2. ASSUME NEW result, sup' = Resulted(result) PROVE Placed(turns, sup')
  BY <1>0, <1>2, <1>t, ResultedMoves, PlacedRested, PlacedMoved DEF AtItem, Ending
<1>3. ASSUME NEW pc \in {"begin", "work"}, Step(pc) PROVE Placed(turns, sup')
  BY <1>0, <1>3, <1>t, StepMoves, PlacedMoved DEF AtItem
<1> QED
  BY <1>1, <1>2, <1>3
     DEF Skip, AnswerRecorded, BeginWork, RefuseWork, WorkEnds, WorkUnanswered, WorkRetried

LEMMA PlacedEnd ==
  ASSUME RoomInv, Placed(turns, sup),
         Cancelled \/ ScopeFails \/ Discard \/ FinishRead \/ FinishWrite \/ FinishRepeats
           \/ SupervisorFails
  PROVE  Placed(turns, sup')
<1>t. Shaped(sup)
  BY DEF RoomInv, Sound
<1>r. ASSUME sup' = Rest(sup) PROVE Placed(turns, sup')
  BY <1>r, <1>t, RestRested, PlacedRested
<1>1. CASE Cancelled \/ ScopeFails
  <2>1. sup'.pc = "discard" /\ Moved(sup, sup')
    BY <1>1, <1>t DEF Cancelled, ScopeFails, Shaped, Moved
  <2>2. sup.pc \in AtItem \cup Ending
    BY <1>1 DEF Cancelled, ScopeFails, InScope, Placed
  <2> QED
    BY <2>1, <2>2, PlacedMoved DEF Ending
<1>2. CASE Discard
  <2>1. sup.pc \in Ending /\ (sup' = Rest(sup) \/ (sup'.pc = "finish" /\ Moved(sup, sup')))
    BY <1>2, <1>t DEF Discard, Shaped, Moved, Ending
  <2> QED
    BY <1>r, <2>1, PlacedMoved DEF Ending
<1>3. CASE FinishRead
  <2>1. sup.pc \in Ending /\ (sup' = Rest(sup) \/ (sup'.pc = "finishWrite" /\ Moved(sup, sup')))
    BY <1>3, <1>t DEF FinishRead, Shaped, Moved, Ending
  <2> QED
    BY <1>r, <2>1, PlacedMoved DEF Ending
<1>4. CASE FinishWrite
  BY <1>4, <1>r DEF FinishWrite
<1>5. CASE FinishRepeats
  BY <1>5, <1>t, StepMoves, PlacedMoved DEF FinishRepeats, Ending
<1>6. CASE SupervisorFails
  <2>1. /\ sup'.pc = "idle" /\ sup'.item = 0 /\ sup'.active = FALSE /\ sup'.cancelled = FALSE
        /\ sup'.pending = <<>> /\ sup'.interrupted = <<>> /\ sup'.made = 0
    BY <1>6 DEF SupervisorFails, Fresh
  <2>2. <<>> \in Seq(DOMAIN turns) /\ IsInjective(<<>>)
    BY EmptySeq DEF IsInjective
  <2> QED
    BY <2>1, <2>2 DEF Placed, Between
<1> QED
  BY <1>1, <1>2, <1>3, <1>4, <1>5, <1>6

LEMMA PlacedPrepare ==
  ASSUME RoomInv, Placed(turns, sup),
         \/ PrepareRead \/ UsePrepared
         \/ \E spent \in BOOLEAN : PrepareLimit(spent)
         \/ ~MayContinue(sup.seen.latest) /\ \E answered \in BOOLEAN : Prepare(answered)
  PROVE  Placed(turns, sup')
<1>t. Shaped(sup) /\ turns \in Seq(Turns)
  BY DEF RoomInv, Sound
<1>r. ASSUME sup' = Rest(sup) \/ sup' = Rest([sup EXCEPT !.monitoring = FALSE])
      PROVE  Placed(turns, sup')
  BY <1>r, <1>t, RestRested, MonitoringRested, PlacedRested
<1>1. CASE PrepareRead
  <2>i. sup.pc = "prepare" /\ sup.item = 0 /\ ~sup.active
    BY <1>1 DEF PrepareRead, Placed, AtItem, Ending
  <2>1. ASSUME sup.made # 0, sup' = [sup EXCEPT !.pc = "prepared"] PROVE Placed(turns, sup')
    <3>1. sup'.pc = "prepared" /\ Moved(sup, sup')
      BY <2>1, <1>t DEF Shaped, Moved
    <3> QED
      BY <2>1, <2>i, <3>1 DEF Placed, Moved, Between
  <2>2. ASSUME sup.made = 0, ~PrepareDone,
               sup' = [sup EXCEPT !.pc = "prepareWrite",
                             !.seen = [status |-> mission.status, latest |-> Latest]]
        PROVE  Placed(turns, sup')
    <3>1. sup'.pc = "prepareWrite" /\ Moved(sup, sup') /\ sup'.seen.latest = Latest
      BY <2>2, <1>t DEF Shaped, Moved
    <3>2. Latest \in DOMAIN turns
      <4>1. Len(turns) # 0
        BY <2>2 DEF PrepareDone, Active, RoomInv
      <4> QED
        BY <4>1, <1>t, LenProperties DEF Latest
    <3> QED
      BY <2>2, <2>i, <3>1, <3>2 DEF Placed, Moved, Between
  <2> QED
    BY <1>1, <1>r, <2>1, <2>2 DEF PrepareRead
<1>2. CASE UsePrepared
  <2>1. sup.made \in DOMAIN turns /\ sup.made \notin Range(sup.pending)
    BY <1>2 DEF UsePrepared, Placed
  <2>2. ASSUME sup' = Rest([sup EXCEPT !.pending = Append(@, sup.made)]) PROVE Placed(turns, sup')
    BY <2>1, <2>2, <1>t, PlacedBehind
  <2> QED
    BY <1>2, <1>r, <2>2 DEF UsePrepared
<1>3. CASE \E spent \in BOOLEAN : PrepareLimit(spent)
  BY <1>3, <1>r DEF PrepareLimit
<1>4. CASE ~MayContinue(sup.seen.latest) /\ \E answered \in BOOLEAN : Prepare(answered)
  BY <1>4, <1>r DEF Prepare
<1> QED
  BY <1>1, <1>2, <1>3, <1>4

(* A turn is added by a request or by a continuation, and by nothing else. *)
Continues == MayContinue(sup.seen.latest) /\ \E answered \in BOOLEAN : Prepare(answered)

LEMMA TurnsMove == ASSUME RoomInv, [Next]_vars PROVE NoneAdded \/ Request \/ Continues
<1>t. turns \in Seq(Turns) /\ Sound(sup)
  BY DEF RoomInv
<1> USE DEF store, bounds
<1>1. CASE turns' = turns
  BY <1>1, TurnsSame
<1>2. ASSUME NEW n \in DOMAIN turns, Signal(n) \/ MarkSignaled(n) PROVE NoneAdded
  BY <1>2, <1>t, SignalSet DEF Signal, MarkSignaled
<1>3. ASSUME NEW n, NEW status \in {"FAILED", "INTERRUPTED"}, turns' = DiscardedRun(n, status)
      PROVE  NoneAdded
  BY <1>3, <1>t, RunDiscarded DEF Ended
<1>4. CASE Skip \/ RefuseWork
  BY <1>4, <1>3 DEF Skip, RefuseWork
<1>5. CASE Discard
  <2>1. turns' = DiscardedRun(sup.item, sup.verdict) /\ sup.verdict \in {"FAILED", "INTERRUPTED"}
    BY <1>5, <1>t DEF Discard, Sound
  <2> QED
    BY <1>3, <2>1
<1>6. CASE UsePrepared
  BY <1>1, <1>3, <1>6 DEF UsePrepared
<1>7. CASE BeginWork
  BY <1>7, <1>t, RunSet DEF BeginWork, Unfinished
<1>8. ASSUME NEW result \in Results, WorkEnds(result) \/ WorkUnanswered(result) PROVE NoneAdded
  BY <1>8, <1>t, RunLeft DEF WorkEnds, WorkUnanswered
<1>9. CASE Late
  <2>1. PICK n \in linger, result \in Results \cup {"ABORTED"} : LateEnd(n, result)
    BY <1>9 DEF Late
  <2>2. CASE result = "ABORTED"
    <3>1. turns' = [turns EXCEPT ![n].run = "INTERRUPTED"] /\ "INTERRUPTED" \in Unfinished \cup Ended
      BY <2>1, <2>2 DEF LateEnd, Ended
    <3> QED
      BY <3>1, <1>t, RunSet
  <2>3. CASE result # "ABORTED"
    BY <2>1, <2>3, <1>t, RunLeft DEF LateEnd
  <2> QED
    BY <2>2, <2>3
<1>10. ASSUME NEW answered \in BOOLEAN, Prepare(answered) PROVE NoneAdded \/ Continues
  <2>1. MayContinue(sup.seen.latest) \/ turns' = turns
    BY <1>10 DEF Prepare
  <2>2. \E other \in BOOLEAN : Prepare(other)
    BY <1>10, Zenon
  <2> QED
    BY <2>1, <2>2, TurnsSame DEF Continues
<1>11. CASE Operator
  BY <1>1, <1>11 DEF Operator, Pause, Resume, Stop, StopSignal
<1>12. CASE Signals \/ WorkSettles \/ Loop \/ \E spent \in BOOLEAN : PrepareLimit(spent)
  BY <1>1, <1>2, <1>12
     DEF Signals, WorkSettles, Loop, TakeInterrupted, TakePending, Watch, PrepareLimit
<1>13. CASE Activity
  BY <1>1, <1>4, <1>5, <1>6, <1>7, <1>8, <1>10, <1>12, <1>13
     DEF Activity, Check, CheckWrite, AnswerRecorded, Cancelled, FinishRead, FinishWrite, PrepareRead
<1>14. CASE Faulty
  BY <1>1, <1>8, <1>10, <1>14
     DEF Faulty, Resignal, WorkRetried, ScopeFails, FinishRepeats, SupervisorFails
<1> QED
  BY <1>1, <1>9, <1>11, <1>12, <1>13, <1>14 DEF Next, vars

(* The number of the turn that a continuation makes, and what it copies. *)
LEMMA ContinuationMade ==
  ASSUME RoomInv, Placed(turns, sup), Continues
  PROVE  \E t \in Turns :
           /\ turns' = Append(turns, t) /\ t.run = "QUEUED" /\ t.signal = "MARKED"
           /\ t.source = Latest /\ t.source # 0 /\ t.generation \in 0..MaxGeneration
           /\ sup.pc = "prepareWrite" /\ sup'.pc \in {"prepared", "prepare"}
           /\ sup'.made = Latest + 1 /\ sup'.item = sup.item /\ sup'.active = sup.active
           /\ sup'.cancelled = sup.cancelled /\ sup'.pending = sup.pending
           /\ sup'.interrupted = sup.interrupted
           /\ mission' = [mission EXCEPT !.done = "NONE"]
<1> DEFINE t == NewTurn(Latest, turns[Latest].generation + 1, "MARKED")
<1>1. /\ mission.status = "RUNNING" /\ sup.seen.latest = Latest /\ sup.pc = "prepareWrite"
      /\ turns[Latest].generation < MaxGeneration /\ turns' = Append(turns, t)
      /\ mission' = [mission EXCEPT !.done = "NONE"]
      /\ \E answered \in BOOLEAN : sup' = [sup EXCEPT !.made = Latest + 1,
                                             !.pc = IF answered THEN "prepared" ELSE "prepare"]
  BY DEF Continues, Prepare, MayContinue
<1>2. turns \in Seq(Turns) /\ Latest \in Nat /\ Latest # 0 /\ Latest \in DOMAIN turns
  BY <1>1, LenProperties DEF RoomInv, Latest
<1>3. turns[Latest].generation \in Nat
  <2>1. turns[Latest] \in Turns
    BY <1>2, ElementOfSeq, LenProperties
  <2> QED
    BY <2>1 DEF Turns
<1>4. turns[Latest].generation + 1 \in 0..MaxGeneration
  BY <1>1, <1>3, RoomAssumption
<1>5. /\ t \in Turns /\ t.run = "QUEUED" /\ t.signal = "MARKED" /\ t.source = Latest
      /\ t.generation \in 0..MaxGeneration
  BY <1>2, <1>3, <1>4 DEF NewTurn, Turns, Unfinished
<1>6. /\ sup'.pc \in {"prepared", "prepare"}
      /\ sup'.made = Latest + 1 /\ sup'.item = sup.item /\ sup'.active = sup.active
      /\ sup'.cancelled = sup.cancelled /\ sup'.pending = sup.pending
      /\ sup'.interrupted = sup.interrupted
  BY <1>1 DEF RoomInv, Sound, Shaped
<1> HIDE DEF t
<1> QED
  BY <1>1, <1>2, <1>5, <1>6

LEMMA TurnAppended ==
  ASSUME turns \in Seq(Turns), NEW t \in Turns, turns' = Append(turns, t)
  PROVE  /\ turns' \in Seq(Turns) /\ Latest \in Nat /\ Latest' = Latest + 1
         /\ DOMAIN turns = 1..Latest /\ DOMAIN turns' = 1..(Latest + 1)
         /\ \A n \in DOMAIN turns : turns'[n] = turns[n]
         /\ turns'[Latest + 1] = t
<1>1. /\ turns' \in Seq(Turns) /\ Len(turns') = Len(turns) + 1 /\ Len(turns) \in Nat
      /\ \A n \in 1..Len(turns) : turns'[n] = turns[n]
      /\ turns'[Len(turns) + 1] = t /\ DOMAIN turns = 1..Len(turns)
  BY AppendProperties, LenProperties
<1>2. DOMAIN turns' = 1..Len(turns')
  BY <1>1, LenProperties
<1> QED
  BY <1>1, <1>2 DEF Latest

(* What a request adds. *)
LEMMA RequestMade ==
  ASSUME RoomInv, Request
  PROVE  \E t \in Turns :
           /\ turns' = Append(turns, t) /\ t.run = "QUEUED" /\ t.signal = "UNSENT"
           /\ t.source = 0 /\ t.generation = 0 /\ sup' = sup
<1>1. NewTurn(0, 0, "UNSENT") \in Turns
  BY DEF NewTurn, Turns, Unfinished
<1> QED
  BY <1>1 DEF Request, NewTurn

(* Turns are added at the end and keep their origin. *)
Bounded == \A n \in DOMAIN turns : turns[n].generation <= MaxGeneration

LEMMA TurnsGrow ==
  ASSUME RoomInv, Placed(turns, sup), [Next]_vars
  PROVE  /\ DOMAIN turns \subseteq DOMAIN turns' /\ Latest <= Latest'
         /\ \A n \in DOMAIN turns : Follows(turns[n], turns'[n])
         /\ Bounded => Bounded'
<1>t. turns \in Seq(Turns) /\ DOMAIN turns = 1..Latest /\ Latest \in Nat
  BY LenProperties DEF RoomInv, Latest
<1>1. CASE NoneAdded
  <2>1. DOMAIN turns' = DOMAIN turns /\ Latest' = Latest
    BY <1>1, <1>t, LenProperties DEF NoneAdded, Latest
  <2> QED
    BY <1>1, <1>t, <2>1 DEF NoneAdded, Bounded, Follows
<1>2. ASSUME NEW t \in Turns, turns' = Append(turns, t), t.generation \in 0..MaxGeneration
      PROVE  /\ DOMAIN turns \subseteq DOMAIN turns' /\ Latest <= Latest'
             /\ \A n \in DOMAIN turns : Follows(turns[n], turns'[n])
             /\ Bounded => Bounded'
  <2>1. /\ DOMAIN turns' = 1..(Latest + 1) /\ Latest' = Latest + 1
        /\ \A n \in DOMAIN turns : turns'[n] = turns[n]
        /\ turns'[Latest + 1] = t
    BY <1>2, <1>t, TurnAppended
  <2>2. \A n \in DOMAIN turns' : n \in DOMAIN turns \/ n = Latest + 1
    BY <1>t, <2>1
  <2>3. t.generation <= MaxGeneration
    BY <1>2
  <2> QED
    BY <1>t, <2>1, <2>2, <2>3 DEF Follows, Bounded
<1>3. CASE Request
  BY <1>2, <1>3, RequestMade, RoomAssumption
<1>4. CASE Continues
  BY <1>2, <1>4, ContinuationMade
<1> QED
  BY <1>1, <1>3, <1>4, TurnsMove


LEMMA PlacedSup ==
  ASSUME RoomInv, Placed(turns, sup), [Next]_vars, ~Continues
  PROVE  Placed(turns, sup')
<1>t. Shaped(sup)
  BY DEF RoomInv, Sound
<1>1. CASE sup' = sup
  BY <1>1
<1>2. ASSUME NEW n \in DOMAIN turns, Signal(n) \/ Resignal(n) PROVE Placed(turns, sup')
  <2>1. sup' = Enqueued(n) /\ turns[n].signal # "MARKED"
    BY <1>2 DEF Signal, Resignal
  <2> QED
    BY <2>1, <1>t, PlacedEnqueued
<1>3. CASE Operator
  BY <1>1, <1>3, <1>t, PlacedStopped DEF Operator, Request, Pause, Resume, Stop
<1>4. CASE Signals \/ WorkSettles \/ Late
  BY <1>1, <1>2, <1>4 DEF Signals, MarkSignaled, WorkSettles, Late, LateEnd
<1>5. ASSUME NEW answered \in BOOLEAN, Prepare(answered) PROVE Placed(turns, sup')
  <2>1. \E other \in BOOLEAN : Prepare(other)
    BY <1>5, Zenon
  <2>2. ~MayContinue(sup.seen.latest)
    BY <2>1 DEF Continues
  <2> QED
    BY <2>1, <2>2, PlacedPrepare
<1>6. ASSUME NEW spent \in BOOLEAN, PrepareLimit(spent) PROVE Placed(turns, sup')
  <2>1. \E other \in BOOLEAN : PrepareLimit(other)
    BY <1>6, Zenon
  <2> QED
    BY <2>1, PlacedPrepare
<1>7. CASE Activity
  BY <1>5, <1>6, <1>7, PlacedCheck, PlacedWork, PlacedEnd, PlacedPrepare DEF Activity
<1>8. CASE Faulty
  BY <1>2, <1>5, <1>8, PlacedWork, PlacedEnd DEF Faulty
<1> QED
  BY <1>1, <1>3, <1>4, <1>6, <1>7, <1>8, PlacedLoop DEF Next, vars

LEMMA PlacedStep ==
  ASSUME RoomInv, Placed(turns, sup), [Next]_vars PROVE Placed(turns', sup')
<1>1. /\ DOMAIN turns \subseteq DOMAIN turns'
      /\ \A n \in DOMAIN turns : turns[n].signal = "MARKED" => turns'[n].signal = "MARKED"
  BY TurnsGrow DEF Follows
<1>2. CASE ~Continues
  <2>1. Placed(turns, sup')
    BY <1>2, PlacedSup
  <2> QED
    BY <1>1, <2>1, PlacedGrows
<1>3. CASE Continues
  <2>1. PICK t \in Turns :
          /\ turns' = Append(turns, t) /\ t.signal = "MARKED"
          /\ sup.pc = "prepareWrite" /\ sup'.pc \in {"prepared", "prepare"}
          /\ sup'.made = Latest + 1 /\ sup'.item = sup.item /\ sup'.active = sup.active
          /\ sup'.cancelled = sup.cancelled /\ sup'.pending = sup.pending
          /\ sup'.interrupted = sup.interrupted
    BY <1>3, ContinuationMade
  <2>2. /\ Latest \in Nat /\ DOMAIN turns = 1..Latest /\ DOMAIN turns' = 1..(Latest + 1)
        /\ turns'[Latest + 1] = t
    BY <2>1, TurnAppended DEF RoomInv
  <2>3. sup.item = 0 /\ ~sup.active
    BY <2>1 DEF Placed, AtItem, Ending
  <2>4. sup.pending \in Seq(DOMAIN turns') /\ sup.interrupted \in Seq(DOMAIN turns')
    BY <1>1, SeqGrows DEF Placed
  <2>5. Latest + 1 \notin Range(sup.pending)
    <3>1. \A k \in DOMAIN sup.pending : sup.pending[k] \in 1..Latest
      BY <2>2, LenProperties, ElementOfSeq DEF Placed
    <3> QED
      BY <2>2, <3>1 DEF Range
  <2>6. Latest + 1 \in DOMAIN turns' /\ Latest + 1 # 0
    BY <2>2
  <2> QED
    BY <2>1, <2>2, <2>3, <2>4, <2>5, <2>6 DEF Placed, Between
<1> QED
  BY <1>2, <1>3

(* The attempts the workflow no longer waits for are attempts of turns. *)
PlaceInv ==
  /\ RoomInv /\ Placed(turns, sup) /\ Bounded
  /\ work \in BOOLEAN /\ stopped \in BOOLEAN
  /\ linger \subseteq DOMAIN turns

LEMMA InitPlaces == Init => PlaceInv
<1> SUFFICES ASSUME Init PROVE PlaceInv
  OBVIOUS
<1>1. RoomInv
  BY InitRoom
<1>2. <<>> \in Seq(DOMAIN turns) /\ IsInjective(<<>>)
  BY EmptySeq DEF IsInjective
<1>3. Placed(turns, sup)
  BY <1>2 DEF Init, Placed, Fresh, Between
<1>4. DOMAIN turns = {}
  BY DEF Init
<1> QED
  BY <1>1, <1>3, <1>4 DEF Init, PlaceInv, Bounded

LEMMA FlagsStay ==
  ASSUME PlaceInv, [Next]_vars
  PROVE  /\ work' \in BOOLEAN /\ stopped' \in BOOLEAN /\ (stopped => stopped')
         /\ linger' \subseteq linger \cup {sup.item}
         /\ linger' \subseteq linger \/ (sup.active /\ (Cancelled \/ "stalled" \in troubles'))
<1>t. work \in BOOLEAN /\ stopped \in BOOLEAN
  BY DEF PlaceInv
<1> USE DEF store, Leaves
<1>1. CASE Operator \/ Signals \/ WorkSettles \/ Loop \/ Late
  BY <1>1, <1>t DEF Operator, Request, Pause, Resume, Stop, StopSignal, Signals, Signal, MarkSignaled,
     WorkSettles, Loop, TakeInterrupted, TakePending, Watch, Late, LateEnd
<1>2. CASE Activity \/ PrepareLimit(TRUE)
  BY <1>2, <1>t DEF InScope, Activity, Check, CheckWrite, Skip, AnswerRecorded, BeginWork, RefuseWork, WorkEnds,
     Cancelled, Discard, FinishRead, FinishWrite, PrepareRead, PrepareLimit, Prepare, UsePrepared
<1>3. CASE Faulty
  <2>1. sup.pc = "work" => sup.active
    BY DEF PlaceInv, Placed, Between, Ending
  <2> QED
    BY <1>3, <1>t, <2>1 DEF Trouble, Faulty, Resignal, WorkUnanswered, WorkRetried, ScopeFails, FinishRepeats,
       SupervisorFails, Prepare
<1> QED
  BY <1>1, <1>2, <1>3, <1>t DEF Next, vars

LEMMA PlacesStay == PlaceInv /\ [Next]_vars => PlaceInv'
<1> SUFFICES ASSUME PlaceInv, [Next]_vars PROVE PlaceInv'
  OBVIOUS
<1>1. RoomInv'
  BY NextRoom DEF PlaceInv
<1>2. Placed(turns, sup)'
  BY PlacedStep DEF PlaceInv, Placed
<1>3. Bounded' /\ DOMAIN turns \subseteq DOMAIN turns'
  BY TurnsGrow DEF PlaceInv
<1>4. work' \in BOOLEAN /\ stopped' \in BOOLEAN
  BY FlagsStay
<1>5. linger' \subseteq DOMAIN turns'
  <2>1. linger \subseteq DOMAIN turns /\ (sup.active => sup.item \in DOMAIN turns)
    BY DEF PlaceInv, Placed
  <2> QED
    BY <1>3, <2>1, FlagsStay
<1> QED
  BY <1>1, <1>2, <1>3, <1>4, <1>5 DEF PlaceInv

LEMMA PlacesAlways == Spec => []PlaceInv
<1> QED
  BY InitPlaces, PlacesStay, PTL DEF Spec

LEMMA PlacesTyped == PlaceInv => TypeOK
<1> SUFFICES ASSUME PlaceInv PROVE TypeOK
  OBVIOUS
<1>1. /\ RoomInv /\ Placed(turns, sup) /\ Bounded /\ work \in BOOLEAN /\ stopped \in BOOLEAN
      /\ linger \subseteq DOMAIN turns
  BY DEF PlaceInv
<1>2. mission \in Missions /\ turns \in Seq(Turns) /\ DOMAIN turns = 1..Len(turns) /\ Len(turns) \in Nat
  BY <1>1, LenProperties DEF RoomInv
<1>3. ASSUME NEW n \in DOMAIN turns
      PROVE  turns[n] \in [source : 0..(n - 1), generation : 0..MaxGeneration,
                    run : Unfinished \cup Ended, outcome : {"NONE", "VERIFIED", "WORKING"},
                    signal : {"UNSENT", "SENT", "MARKED"}]
  <2>1. turns[n] \in Turns /\ n \in Nat /\ n # 0
    BY <1>2, ElementOfSeq
  <2>2. turns[n].source \in 0..(n - 1)
    <3>1. turns[n].source \in Nat /\ (turns[n].source # 0 => turns[n].source = n - 1)
      BY <1>1, <2>1 DEF RoomInv, Sources, IsContinuation, Turns
    <3> QED
      BY <2>1, <3>1
  <2>3. turns[n].generation \in 0..MaxGeneration
    BY <1>1, <2>1, RoomAssumption DEF Bounded, Turns
  <2> QED
    BY <2>1, <2>2, <2>3 DEF Turns
<1>4. Range(sup.pending) \cup Range(sup.interrupted) \subseteq DOMAIN turns
  <2>1. ASSUME NEW q \in Seq(DOMAIN turns) PROVE Range(q) \subseteq DOMAIN turns
    <3>1. \A k \in DOMAIN q : q[k] \in DOMAIN turns
      BY LenProperties, ElementOfSeq
    <3> QED
      BY <3>1 DEF Range
  <2> QED
    BY <1>1, <2>1 DEF Placed
<1>5. sup.item \in DOMAIN turns <=> sup.pc # "idle" /\ ~Preparing
  <2>1. 0 \notin DOMAIN turns
    BY <1>2
  <2>2. sup.pc \in Between <=> sup.pc = "idle" \/ Preparing
    BY DEF Between, Preparing
  <2>3. sup.pc \notin Between => sup.item \in DOMAIN turns
    BY <1>1 DEF Placed
  <2>4. sup.pc \in Between => sup.item = 0
    BY <1>1 DEF Placed, Between, AtItem, Ending
  <2> QED
    BY <2>1, <2>2, <2>3, <2>4
<1>6. (sup.active => sup.item \notin Range(sup.pending)) /\ (sup.cancelled => sup.active)
  BY <1>1 DEF Placed
<1> QED
  BY <1>1, <1>2, <1>3, <1>4, <1>5, <1>6 DEF TypeOK, Missions

(* The mission, its turns and the workflow are of their types: every queue holds  *)
(* turns of the store, the workflow has an item exactly while it waits for an     *)
(* activity, and the active item is in no queue, whatever the signals repeat.     *)
THEOREM RoomTyped == Spec => []TypeOK
BY PlacesAlways, PlacesTyped, PTL

-----------------------------------------------------------------------------
(* What becomes of one turn *)

(* A turn that has ended stays ended unless it is begun again, and its signal   *)
(* changes with the signals only.                                               *)
Stable(n) ==
  /\ turns'[n].run = turns[n].run \/ turns'[n].run \notin Unfinished
       \/ (BeginWork /\ n = sup.item)
  /\ turns'[n].signal = turns[n].signal \/ Signal(n) \/ MarkSignaled(n)

LEMMA RunStable ==
  ASSUME turns \in Seq(Turns), NEW n \in DOMAIN turns, NEW k, NEW run,
         turns' = [turns EXCEPT ![k].run = run],
         run \notin Unfinished \/ (BeginWork /\ k = sup.item)
  PROVE  Stable(n)
<1>1. turns[n] \in Turns
  BY ElementOfSeq, LenProperties
<1>2. CASE n # k
  BY <1>2 DEF Stable
<1>3. CASE n = k
  <2>1. turns'[n].run = run /\ turns'[n].signal = turns[n].signal
    BY <1>1, <1>3 DEF Turns
  <2> QED
    BY <1>3, <2>1 DEF Stable
<1> QED
  BY <1>2, <1>3

LEMMA LeavesStable ==
  ASSUME turns \in Seq(Turns), NEW n \in DOMAIN turns, NEW k, NEW result, Leaves(k, result)
  PROVE  Stable(n) /\ (n = k => turns'[n].run \notin Unfinished)
<1>1. turns[n] \in Turns
  BY ElementOfSeq, LenProperties
<1>2. CASE n # k
  BY <1>2 DEF Leaves, Stable
<1>3. CASE n = k
  <2>1. turns'[n].run \in {"FAILED", "COMPLETED"} /\ turns'[n].signal = turns[n].signal
    BY <1>1, <1>3 DEF Turns, Leaves
  <2> QED
    BY <1>3, <2>1 DEF Stable, Unfinished
<1> QED
  BY <1>2, <1>3

LEMMA DiscardStable ==
  ASSUME turns \in Seq(Turns), NEW n \in DOMAIN turns, NEW k, NEW status \in Ended,
         turns' = DiscardedRun(k, status)
  PROVE  Stable(n) /\ (n = k => turns'[n].run \notin Unfinished)
<1>0. status \notin Unfinished /\ turns[n] \in Turns
  BY ElementOfSeq, LenProperties DEF Ended, Unfinished
<1>1. CASE turns' = turns /\ turns[k].run \notin Unfinished
  BY <1>1 DEF Stable
<1>2. CASE turns' = [turns EXCEPT ![k].run = status]
  <2>1. n = k => turns'[n].run = status
    BY <1>0, <1>2 DEF Turns
  <2> QED
    BY <1>0, <1>2, <2>1, RunStable
<1> QED
  BY <1>1, <1>2 DEF DiscardedRun

LEMMA TurnStays ==
  ASSUME RoomInv, Placed(turns, sup), [Next]_vars, NEW n \in DOMAIN turns PROVE Stable(n)
<1>t. turns \in Seq(Turns) /\ Sound(sup) /\ turns[n] \in Turns
  BY ElementOfSeq, LenProperties DEF RoomInv
<1> USE DEF store, bounds
<1>1. ASSUME turns' = turns PROVE Stable(n)
  BY <1>1 DEF Stable
<1>2. ASSUME NEW k \in DOMAIN turns, Signal(k) \/ MarkSignaled(k) PROVE Stable(n)
  <2>1. PICK signal : turns' = [turns EXCEPT ![k].signal = signal]
    BY <1>2 DEF Signal, MarkSignaled
  <2>2. CASE n # k
    BY <2>1, <2>2 DEF Stable
  <2>3. CASE n = k
    <3>1. turns'[n].run = turns[n].run
      BY <1>t, <2>1 DEF Turns
    <3> QED
      BY <1>2, <2>3, <3>1 DEF Stable
  <2> QED
    BY <2>2, <2>3
<1>3. ASSUME NEW t \in Turns, turns' = Append(turns, t) PROVE Stable(n)
  BY <1>3, <1>t, TurnAppended DEF Stable
<1>4. CASE Request \/ Continues
  BY <1>3, <1>4, RequestMade, ContinuationMade
<1>5. CASE Skip \/ RefuseWork
  BY <1>5, <1>t, DiscardStable DEF Skip, RefuseWork, Ended
<1>6. CASE Discard
  <2>1. turns' = DiscardedRun(sup.item, sup.verdict) /\ sup.verdict \in Ended
    BY <1>6, <1>t DEF Discard, Sound, Ended
  <2> QED
    BY <2>1, <1>t, DiscardStable
<1>7. CASE UsePrepared
  BY <1>1, <1>7, <1>t, DiscardStable DEF UsePrepared, Ended
<1>8. CASE BeginWork
  <2>1. turns' = [turns EXCEPT ![sup.item].run = "RUNNING"]
    BY <1>8 DEF BeginWork
  <2> QED
    BY <1>8, <2>1, <1>t, RunStable
<1>9. ASSUME NEW result \in Results, WorkEnds(result) \/ WorkUnanswered(result) PROVE Stable(n)
  BY <1>9, <1>t, LeavesStable DEF WorkEnds, WorkUnanswered
<1>10. CASE Late
  <2>1. PICK k \in linger, result \in Results \cup {"ABORTED"} : LateEnd(k, result)
    BY <1>10 DEF Late
  <2>2. CASE result = "ABORTED"
    BY <2>1, <2>2, <1>t, RunStable DEF LateEnd, Unfinished
  <2>3. CASE result # "ABORTED"
    BY <2>1, <2>3, <1>t, LeavesStable DEF LateEnd
  <2> QED
    BY <2>2, <2>3
<1>11. ASSUME NEW answered \in BOOLEAN, Prepare(answered) PROVE Stable(n)
  <2>1. MayContinue(sup.seen.latest) \/ turns' = turns
    BY <1>11 DEF Prepare
  <2>2. \E other \in BOOLEAN : Prepare(other)
    BY <1>11, Zenon
  <2> QED
    BY <1>1, <1>4, <2>1, <2>2 DEF Continues
<1>12. CASE Operator
  BY <1>1, <1>4, <1>12 DEF Operator, Pause, Resume, Stop, StopSignal
<1>13. CASE Signals \/ WorkSettles \/ Loop \/ \E spent \in BOOLEAN : PrepareLimit(spent)
  BY <1>1, <1>2, <1>13
     DEF Signals, WorkSettles, Loop, TakeInterrupted, TakePending, Watch, PrepareLimit
<1>14. CASE Activity
  BY <1>1, <1>5, <1>6, <1>7, <1>8, <1>9, <1>11, <1>13, <1>14
     DEF Activity, Check, CheckWrite, AnswerRecorded, Cancelled, FinishRead, FinishWrite, PrepareRead
<1>15. CASE Faulty
  BY <1>1, <1>9, <1>11, <1>15
     DEF Faulty, Resignal, WorkRetried, ScopeFails, FinishRepeats, SupervisorFails
<1> QED
  BY <1>1, <1>10, <1>12, <1>13, <1>14, <1>15 DEF Next, vars

-----------------------------------------------------------------------------
(* No item is dropped before its turn has ended *)

Held(s) == Range(s.pending) \cup Range(s.interrupted) \cup {s.item}

(* A mission is brought to its end over a turn that has ended. *)
Settled == sup.pc \in {"finish", "finishWrite"} => turns[sup.item].run \notin Unfinished

(* A step keeps what the workflow holds, or the turn has ended with it. *)
Keeps ==
  /\ \A n \in Held(sup) \cap DOMAIN turns :
       n \in Held(sup') \/ turns'[n].run \notin Unfinished \/ IsContinuation(n)
  /\ sup'.pc \in {"finish", "finishWrite"} => turns'[sup'.item].run \notin Unfinished

LEMMA KeepsRested ==
  ASSUME Rested(sup, sup'),
         sup.item \in DOMAIN turns =>
           turns'[sup.item].run \notin Unfinished \/ IsContinuation(sup.item)
  PROVE  Keeps
BY DEF Keeps, Held, Rested

LEMMA KeepsMoved ==
  ASSUME Moved(sup, sup'),
         sup'.pc \in {"finish", "finishWrite"} => turns'[sup.item].run \notin Unfinished
  PROVE  Keeps
BY DEF Keeps, Held, Moved

LEMMA KeepsHeard ==
  ASSUME RoomInv, Placed(turns, sup), Settled, [Next]_vars,
         sup'.pc = sup.pc, sup'.item = sup.item, Held(sup) \subseteq Held(sup')
  PROVE  Keeps
<1>1. ASSUME sup'.pc \in {"finish", "finishWrite"} PROVE turns'[sup'.item].run \notin Unfinished
  <2>1. sup.item \in DOMAIN turns
    BY <1>1 DEF Placed, Between, AtItem
  <2>2. ~BeginWork
    BY <1>1 DEF BeginWork
  <2> QED
    BY <1>1, <2>1, <2>2, TurnStays DEF Settled, Stable
<1> QED
  BY <1>1 DEF Keeps

LEMMA KeepsBehind ==
  ASSUME Shaped(sup), Placed(turns, sup), NEW k \in DOMAIN turns,
         sup' = Rest([sup EXCEPT !.pending = Append(@, k)]),
         sup.item \in DOMAIN turns => sup.item = k
  PROVE  Keeps
<1>1. Shaped([sup EXCEPT !.pending = Append(@, k)])
  BY DEF Shaped
<1>2. /\ [sup EXCEPT !.pending = Append(@, k)].pending = Append(sup.pending, k)
      /\ [sup EXCEPT !.pending = Append(@, k)].interrupted = sup.interrupted
  BY DEF Shaped
<1>3. sup'.pending = Append(sup.pending, k) /\ sup'.interrupted = sup.interrupted /\ sup'.pc = "idle"
  BY <1>1, <1>2, RestRested DEF Rested
<1>4. Range(Append(sup.pending, k)) = Range(sup.pending) \cup {k}
  BY QueueAppended DEF Placed
<1> QED
  BY <1>3, <1>4 DEF Keeps, Held

LEMMA KeepsEnqueued ==
  ASSUME Shaped(sup), Placed(turns, sup), NEW n \in DOMAIN turns, sup' = Enqueued(n)
  PROVE  sup'.pc = sup.pc /\ sup'.item = sup.item /\ Held(sup) \cup {n} \subseteq Held(sup')
<1>1. CASE Known(n)
  BY <1>1 DEF Enqueued, Known, Held
<1>2. CASE ~Known(n)
  <2> DEFINE s == Enqueued(n)
  <2>1. /\ s.pc = sup.pc /\ s.item = sup.item
        /\ Range(s.pending) = {k \in Range(sup.pending) : ~IsContinuation(k)} \cup {n}
        /\ Range(s.interrupted) = Range(sup.interrupted)
                                    \cup {k \in Range(sup.pending) : IsContinuation(k)}
    BY <1>2, EnqueuedMoves
  <2> HIDE DEF s
  <2>2. Held(sup) \cup {n} \subseteq Held(s)
    BY <2>1 DEF Held
  <2> QED
    BY <2>1, <2>2 DEF s
<1> QED
  BY <1>1, <1>2

LEMMA KeepsStopped ==
  ASSUME Shaped(sup), Placed(turns, sup), StopSignal
  PROVE  sup'.pc = sup.pc /\ sup'.item = sup.item /\ Held(sup) \subseteq Held(sup')
<1>1. /\ sup'.pc = sup.pc /\ sup'.item = sup.item
      /\ sup'.interrupted = sup.interrupted \o sup.pending
  BY DEF StopSignal, Shaped
<1>2. Range(sup.interrupted \o sup.pending) = Range(sup.interrupted) \cup Range(sup.pending)
  BY QueuesJoined DEF Placed
<1> QED
  BY <1>1, <1>2 DEF Held

LEMMA KeepsLoop ==
  ASSUME RoomInv, Placed(turns, sup), Loop PROVE Keeps
<1>t. Shaped(sup) /\ 0 \notin DOMAIN turns
  BY LenProperties DEF RoomInv, Sound
<1>i. sup.pc = "idle" => sup.item = 0
  BY DEF Placed, AtItem, Ending
<1>1. ASSUME TakeInterrupted PROVE Keeps
  <2>1. /\ sup'.pc = "discard" /\ sup'.item = Head(sup.interrupted)
        /\ sup'.interrupted = Tail(sup.interrupted) /\ sup'.pending = sup.pending
    BY <1>1, <1>t DEF TakeInterrupted, Shaped
  <2>2. sup.interrupted \in Seq(DOMAIN turns) /\ sup.interrupted # <<>>
    BY <1>1 DEF TakeInterrupted, Placed
  <2>3. Range(sup.interrupted) = Range(Tail(sup.interrupted)) \cup {Head(sup.interrupted)}
    BY ONLY <2>2, QueueTaken
  <2> QED
    BY <1>1, <1>i, <1>t, <2>1, <2>3 DEF Keeps, Held, TakeInterrupted
<1>2. ASSUME TakePending PROVE Keeps
  <2>1. /\ sup'.pc = "check" /\ sup'.item = Head(sup.pending)
        /\ sup'.pending = Tail(sup.pending) /\ sup'.interrupted = sup.interrupted
    BY <1>2, <1>t DEF TakePending, Shaped
  <2>2. sup.pending \in Seq(DOMAIN turns) /\ sup.pending # <<>>
    BY <1>2 DEF TakePending, HasPending, Placed
  <2>3. Range(sup.pending) = Range(Tail(sup.pending)) \cup {Head(sup.pending)}
    BY ONLY <2>2, QueueTaken
  <2> QED
    BY <1>2, <1>i, <1>t, <2>1, <2>3 DEF Keeps, Held, TakePending
<1>3. ASSUME Watch PROVE Keeps
  <2>1. sup'.pc = "prepare" /\ Moved(sup, sup')
    BY <1>3, <1>t DEF Watch, Shaped, Moved
  <2> QED
    BY <2>1, KeepsMoved
<1> QED
  BY <1>1, <1>2, <1>3 DEF Loop

LEMMA KeepsCheck ==
  ASSUME RoomInv, Placed(turns, sup), Check \/ CheckWrite PROVE Keeps
<1>t. Shaped(sup)
  BY DEF RoomInv, Sound
<1>0. sup.item \in DOMAIN turns
  BY DEF Check, CheckWrite, Placed, AtItem, Between, Ending
<1>1. ASSUME sup' = Requeued PROVE Keeps
  BY <1>0, <1>1, <1>t, KeepsBehind DEF Requeued
<1>2. ASSUME NEW pc \in {"skip", "begin"}, sup' = [sup EXCEPT !.pc = pc] PROVE Keeps
  <2>1. sup'.pc = pc /\ Moved(sup, sup')
    BY <1>2, <1>t DEF Shaped, Moved
  <2> QED
    BY <2>1, KeepsMoved
<1>3. ASSUME sup' = [sup EXCEPT !.pc = "checkWrite", !.seen.latest = Latest] PROVE Keeps
  <2>1. sup'.pc = "checkWrite" /\ Moved(sup, sup')
    BY <1>3, <1>t DEF Shaped, Moved
  <2> QED
    BY <2>1, KeepsMoved
<1> QED
  BY <1>1, <1>2, <1>3 DEF Check, CheckWrite

LEMMA KeepsWork ==
  ASSUME RoomInv, Placed(turns, sup),
         \/ Skip \/ AnswerRecorded \/ BeginWork \/ RefuseWork
         \/ \E result \in Results : WorkEnds(result) \/ WorkUnanswered(result)
         \/ \E alive \in BOOLEAN : WorkRetried(alive)
  PROVE  Keeps
<1>t. Shaped(sup) /\ turns \in Seq(Turns)
  BY DEF RoomInv, Sound
<1>0. sup.pc \in {"skip", "begin", "work"}
  BY DEF Skip, AnswerRecorded, BeginWork, RefuseWork, WorkEnds, WorkUnanswered, WorkRetried
<1>i. sup.item \in DOMAIN turns
  BY <1>0 DEF Placed, Between, Ending
<1>1. ASSUME sup' = Rest(sup), turns'[sup.item].run \notin Unfinished PROVE Keeps
  BY <1>1, <1>t, RestRested, KeepsRested
<1>2. ASSUME NEW result, sup' = Resulted(result), turns'[sup.item].run \notin Unfinished PROVE Keeps
  BY <1>2, <1>t, ResultedMoves, KeepsRested, KeepsMoved
<1>3. ASSUME NEW pc \in {"begin", "work"}, Step(pc) PROVE Keeps
  BY <1>3, <1>t, StepMoves, KeepsMoved
<1>4. CASE Skip \/ RefuseWork
  <2>1. turns' = DiscardedRun(sup.item, "INTERRUPTED") /\ "INTERRUPTED" \in Ended
    BY <1>4 DEF Skip, RefuseWork, Ended
  <2>2. turns'[sup.item].run \notin Unfinished
    BY <1>i, <1>t, <2>1, DiscardStable
  <2> QED
    BY <1>1, <1>2, <1>4, <2>2 DEF Skip, RefuseWork
<1>5. CASE AnswerRecorded
  <2>1. turns'[sup.item].run \notin Unfinished
    BY <1>5 DEF AnswerRecorded, store, Recorded, Unfinished
  <2> QED
    BY <1>2, <1>5, <2>1 DEF AnswerRecorded
<1>6. ASSUME NEW result \in Results, WorkEnds(result) PROVE Keeps
  <2>1. turns'[sup.item].run \notin Unfinished
    BY <1>6, <1>i, <1>t, LeavesStable DEF WorkEnds
  <2> QED
    BY <1>2, <1>6, <2>1 DEF WorkEnds
<1> QED
  BY <1>3, <1>4, <1>5, <1>6 DEF BeginWork, WorkUnanswered, WorkRetried

LEMMA KeepsEnd ==
  ASSUME RoomInv, Placed(turns, sup), Settled,
         Cancelled \/ ScopeFails \/ Discard \/ FinishRead \/ FinishWrite \/ FinishRepeats
  PROVE  Keeps
<1>t. Shaped(sup) /\ turns \in Seq(Turns)
  BY DEF RoomInv, Sound
<1>1. CASE Cancelled \/ ScopeFails
  <2>1. sup'.pc = "discard" /\ Moved(sup, sup')
    BY <1>1, <1>t DEF Cancelled, ScopeFails, Shaped, Moved
  <2> QED
    BY <2>1, KeepsMoved
<1>2. CASE Discard
  <2>1. sup' = Rest(sup) \/ Moved(sup, sup')
    BY <1>2, <1>t DEF Discard, Shaped, Moved
  <2>2. turns' = DiscardedRun(sup.item, sup.verdict) /\ sup.verdict \in Ended /\ sup.item \in DOMAIN turns
    BY <1>2 DEF Discard, RoomInv, Sound, Ended, Placed, Between, AtItem
  <2>3. turns'[sup.item].run \notin Unfinished
    BY <1>t, <2>2, DiscardStable
  <2> QED
    BY <1>t, <2>1, <2>3, RestRested, KeepsRested, KeepsMoved
<1>3. CASE FinishRead \/ FinishWrite \/ FinishRepeats
  <2>1. turns'[sup.item].run \notin Unfinished
    BY <1>3 DEF FinishRead, FinishWrite, FinishRepeats, store, Settled
  <2>2. sup' = Rest(sup) \/ Moved(sup, sup')
    BY <1>3, <1>t, StepMoves DEF FinishRead, FinishWrite, FinishRepeats, Shaped, Moved
  <2> QED
    BY <1>t, <2>1, <2>2, RestRested, KeepsRested, KeepsMoved
<1> QED
  BY <1>1, <1>2, <1>3

LEMMA KeepsPrepare ==
  ASSUME RoomInv, Placed(turns, sup),
         \/ PrepareRead \/ UsePrepared
         \/ \E spent \in BOOLEAN : PrepareLimit(spent)
         \/ \E answered \in BOOLEAN : Prepare(answered)
  PROVE  Keeps
<1>t. Shaped(sup)
  BY DEF RoomInv, Sound
<1>i. sup.item \notin DOMAIN turns
  <2>1. 0 \notin DOMAIN turns
    BY LenProperties DEF RoomInv
  <2>2. sup.item = 0
    BY DEF PrepareRead, UsePrepared, PrepareLimit, Prepare, Placed, AtItem, Ending
  <2> QED
    BY <2>1, <2>2
<1>r. ASSUME sup' = Rest(sup) \/ sup' = Rest([sup EXCEPT !.monitoring = FALSE])
      PROVE  Keeps
  BY <1>i, <1>r, <1>t, RestRested, MonitoringRested, KeepsRested
<1>1. CASE PrepareRead
  <2>1. ASSUME sup' = [sup EXCEPT !.pc = "prepared"] PROVE Keeps
    <3>1. sup'.pc = "prepared" /\ Moved(sup, sup')
      BY <2>1, <1>t DEF Shaped, Moved
    <3> QED
      BY <3>1, KeepsMoved
  <2>2. ASSUME sup' = [sup EXCEPT !.pc = "prepareWrite",
                             !.seen = [status |-> mission.status, latest |-> Latest]]
        PROVE  Keeps
    <3>1. sup'.pc = "prepareWrite" /\ Moved(sup, sup')
      BY <2>2, <1>t DEF Shaped, Moved
    <3> QED
      BY <3>1, KeepsMoved
  <2> QED
    BY <1>1, <1>r, <2>1, <2>2 DEF PrepareRead
<1>2. CASE UsePrepared
  <2>1. sup.made \in DOMAIN turns
    BY <1>2 DEF UsePrepared, Placed
  <2> QED
    BY <1>2, <1>i, <1>r, <1>t, <2>1, KeepsBehind DEF UsePrepared
<1>3. CASE \E spent \in BOOLEAN : PrepareLimit(spent)
  BY <1>3, <1>r DEF PrepareLimit
<1>4. CASE \E answered \in BOOLEAN : Prepare(answered)
  <2>1. CASE sup' = Rest(sup)
    BY <2>1, <1>r
  <2>2. CASE sup' # Rest(sup)
    <3>1. PICK pc \in {"prepared", "prepare"} : sup' = [sup EXCEPT !.made = Latest + 1, !.pc = pc]
      BY <1>4, <2>2 DEF Prepare
    <3>2. /\ sup'.pc = pc /\ sup'.item = sup.item /\ sup'.pending = sup.pending
          /\ sup'.interrupted = sup.interrupted
      BY <3>1, <1>t DEF Shaped
    <3> QED
      BY <3>2 DEF Keeps, Held
  <2> QED
    BY <2>1, <2>2
<1> QED
  BY <1>1, <1>2, <1>3, <1>4

LEMMA KeepsNext ==
  ASSUME RoomInv, Placed(turns, sup), Settled, [Next]_vars, ~SupervisorFails PROVE Keeps
<1>t. Shaped(sup)
  BY DEF RoomInv, Sound
<1>1. CASE sup' = sup
  BY <1>1, KeepsHeard
<1>2. ASSUME NEW n \in DOMAIN turns, Signal(n) \/ Resignal(n) PROVE Keeps
  <2>1. sup' = Enqueued(n)
    BY <1>2 DEF Signal, Resignal
  <2> QED
    BY <2>1, <1>t, KeepsEnqueued, KeepsHeard
<1>3. CASE Operator
  BY <1>1, <1>3, <1>t, KeepsStopped, KeepsHeard DEF Operator, Request, Pause, Resume, Stop
<1>4. CASE Signals \/ WorkSettles \/ Late
  BY <1>1, <1>2, <1>4 DEF Signals, MarkSignaled, WorkSettles, Late, LateEnd
<1>5. ASSUME NEW answered \in BOOLEAN, Prepare(answered) PROVE Keeps
  <2>1. \E other \in BOOLEAN : Prepare(other)
    BY <1>5, Zenon
  <2> QED
    BY <2>1, KeepsPrepare
<1>6. ASSUME NEW spent \in BOOLEAN, PrepareLimit(spent) PROVE Keeps
  <2>1. \E other \in BOOLEAN : PrepareLimit(other)
    BY <1>6, Zenon
  <2> QED
    BY <2>1, KeepsPrepare
<1>7. CASE Activity
  BY <1>5, <1>6, <1>7, KeepsCheck, KeepsWork, KeepsEnd, KeepsPrepare DEF Activity
<1>8. CASE Faulty
  BY <1>2, <1>5, <1>8, KeepsWork, KeepsEnd DEF Faulty
<1> QED
  BY <1>1, <1>3, <1>4, <1>6, <1>7, <1>8, KeepsLoop DEF Next, vars

LEMMA SettledStays ==
  ASSUME RoomInv, Placed(turns, sup), Settled, [Next]_vars PROVE Settled'
<1>1. CASE SupervisorFails
  BY <1>1 DEF SupervisorFails, Fresh, Settled
<1>2. CASE ~SupervisorFails
  BY <1>2, KeepsNext DEF Keeps, Settled
<1> QED
  BY <1>1, <1>2

(* A turn that is new or that a signal announces is queued with the signal. *)
LEMMA KeptStays ==
  ASSUME RoomInv, Placed(turns, sup), Settled, RequestsAreKept, [Next]_vars PROVE RequestsAreKept'
<1> SUFFICES ASSUME "lost" \notin troubles', NEW n \in DOMAIN turns',
                    turns'[n].source = 0, turns'[n].signal # "UNSENT", turns'[n].run \in Unfinished
             PROVE  n \in Held(sup')
  BY DEF RequestsAreKept, Held, IsContinuation
<1>t. Shaped(sup) /\ turns \in Seq(Turns) /\ DOMAIN turns = 1..Latest
  BY LenProperties DEF RoomInv, Sound, Latest
<1>1. "lost" \notin troubles /\ ~SupervisorFails
  <2>1. troubles \subseteq troubles'
    BY TroublesStay DEF vars
  <2> QED
    BY <2>1 DEF SupervisorFails, Trouble
<1>2. CASE n \in DOMAIN turns
  <2>1. turns[n].source = 0
    BY <1>2, TurnsGrow DEF Follows
  <2>2. CASE Signal(n)
    BY <1>2, <1>t, <2>2, KeepsEnqueued DEF Signal
  <2>3. CASE ~Signal(n)
    <3>1. turns[n].signal # "UNSENT"
      BY <1>2, <2>3, TurnStays DEF Stable, MarkSignaled
    <3>2. n \in Held(sup)
      <4>1. CASE turns[n].run \in Unfinished
        BY <1>1, <1>2, <2>1, <3>1, <4>1 DEF RequestsAreKept, IsContinuation, Held
      <4>2. CASE n = sup.item
        BY <4>2 DEF Held
      <4> QED
        BY <1>2, <4>1, <4>2, TurnStays DEF Stable
    <3> QED
      BY <1>1, <1>2, <2>1, <3>2, KeepsNext DEF Keeps, IsContinuation
  <2> QED
    BY <2>2, <2>3
<1>3. CASE n \notin DOMAIN turns
  <2>1. ASSUME NEW t \in Turns, turns' = Append(turns, t) PROVE turns'[n] = t
    <3>1. DOMAIN turns' = 1..(Latest + 1) /\ turns'[Latest + 1] = t /\ Latest \in Nat
      BY <1>t, <2>1, TurnAppended
    <3>2. n = Latest + 1
      BY <1>3, <1>t, <3>1
    <3> QED
      BY <3>1, <3>2
  <2>2. ~Request
    BY <2>1, RequestMade
  <2>3. ~Continues
    BY <2>1, ContinuationMade
  <2>4. ~NoneAdded
    BY <1>3, <1>t, LenProperties DEF NoneAdded, Latest
  <2> QED
    BY <2>2, <2>3, <2>4, TurnsMove
<1> QED
  BY <1>2, <1>3

(* An operator's turn that the supervisor has heard of is queued or active until   *)
(* it has ended, whatever is paused, stopped, superseded, cancelled or repeated:   *)
(* the handlers, the loop and the ends of an iteration move it and never drop it.  *)
THEOREM NoRequestIsDropped == Spec => []RequestsAreKept
<1> DEFINE Inv == PlaceInv /\ Settled /\ RequestsAreKept
<1>1. Init => Inv
  <2> SUFFICES ASSUME Init PROVE Settled /\ RequestsAreKept
    BY InitPlaces
  <2>1. DOMAIN turns = {} /\ sup.pc = "idle"
    BY DEF Init, Fresh
  <2> QED
    BY <2>1 DEF Settled, RequestsAreKept
<1>2. Inv /\ [Next]_vars => Inv'
  BY PlacesStay, SettledStays, KeptStays DEF PlaceInv
<1> QED
  BY <1>1, <1>2, PTL DEF Spec

-----------------------------------------------------------------------------
(* The newest turn decides *)

(* Where the workflow may come to a write to the mission or to a turn. *)
Writing == {"checkWrite", "begin", "work", "prepareWrite"}

LEMMA ComesToWrite ==
  ASSUME RoomInv, [Next]_vars
  PROVE  \/ sup'.pc = sup.pc /\ sup'.seen = sup.seen /\ sup'.item = sup.item
         \/ sup'.pc \notin Writing
         \/ Check \/ CheckWrite \/ BeginWork \/ PrepareRead
         \/ /\ sup.pc = "work" /\ sup'.pc = "begin" /\ sup'.item = sup.item
            /\ turns' = turns \/ "unanswered" \in troubles'
<1>t. Shaped(sup)
  BY DEF RoomInv, Sound
<1> DEFINE Apart == sup'.pc \notin Writing
           Here == sup'.pc = sup.pc /\ sup'.seen = sup.seen /\ sup'.item = sup.item
           Again == /\ sup.pc = "work" /\ sup'.pc = "begin" /\ sup'.item = sup.item
                    /\ turns' = turns \/ "unanswered" \in troubles'
<1>r. /\ Rest(sup).pc = "idle" /\ Fresh.pc = "idle"
      /\ Rest([sup EXCEPT !.monitoring = FALSE]).pc = "idle"
      /\ \A result : Resulted(result).pc \in {"idle", "finish"}
  BY <1>t, RestShape, FreshShape, MonitoringShape, ResultedShape
<1>m. Rest([sup EXCEPT !.pending = Append(@, sup.made)]).pc = "idle"
  <2>1. Shaped([sup EXCEPT !.pending = Append(@, sup.made)])
    BY <1>t DEF Shaped
  <2> QED
    BY <2>1, RestShape
<1>e. \A n : Enqueued(n).pc = sup.pc /\ Enqueued(n).seen = sup.seen
         /\ Enqueued(n).item = sup.item
  BY <1>t DEF Enqueued, Shaped
<1>1. CASE Operator
  <2>1. StopSignal => Here
    BY <1>t DEF StopSignal, Shaped
  <2> QED
    BY <1>1, <2>1 DEF Operator, Request, Pause, Resume, Stop
<1>2. CASE Signals \/ WorkSettles \/ Late \/ \E n \in DOMAIN turns : Resignal(n)
  BY <1>e, <1>2 DEF Signals, Signal, MarkSignaled, WorkSettles, Late, LateEnd, Resignal
<1>3. CASE Loop
  <2>1. TakeInterrupted => Apart
    BY <1>t DEF TakeInterrupted, Shaped, Writing
  <2>2. TakePending => Apart
    BY <1>t DEF TakePending, Shaped, Writing
  <2>3. Watch => Apart
    BY <1>t DEF Watch, Shaped, Writing
  <2> QED
    BY <1>3, <2>1, <2>2, <2>3 DEF Loop
<1>4. Skip \/ AnswerRecorded \/ RefuseWork \/ FinishWrite \/ SupervisorFails => Apart
  BY <1>r DEF Skip, AnswerRecorded, RefuseWork, FinishWrite, SupervisorFails, Writing
<1>5. ASSUME NEW result, WorkEnds(result) PROVE Apart
  BY <1>5, <1>r DEF WorkEnds, Writing
<1>6. Cancelled \/ ScopeFails => Apart
  BY <1>t DEF Cancelled, ScopeFails, Shaped, Writing
<1>7. Discard => Apart
  BY <1>t, <1>r DEF Discard, Shaped, Writing
<1>8. FinishRead \/ FinishRepeats => Apart
  <2>1. FinishRead => Apart
    BY <1>t, <1>r DEF FinishRead, Shaped, Writing
  <2>2. FinishRepeats => sup'.pc = "finish"
    BY <1>t, StepShape DEF FinishRepeats
  <2> QED
    BY <2>1, <2>2 DEF Writing
<1>9. UsePrepared => Apart
  BY <1>r, <1>m DEF UsePrepared, Writing
<1>10. ASSUME NEW spent, PrepareLimit(spent) PROVE Apart
  BY <1>r, <1>10 DEF PrepareLimit, Writing
<1>11. ASSUME NEW answered \in BOOLEAN, Prepare(answered) PROVE Apart
  <2>1. sup' = Rest(sup) \/ \E pc \in {"prepared", "prepare"} :
                              sup' = [sup EXCEPT !.made = Latest + 1, !.pc = pc]
    BY <1>11 DEF Prepare
  <2> QED
    BY <1>t, <1>r, <2>1 DEF Shaped, Writing
<1>12. ASSUME NEW result, WorkUnanswered(result) PROVE Again
  BY <1>t, <1>12, StepMoves DEF WorkUnanswered, Trouble, Moved
<1>13. ASSUME NEW alive, WorkRetried(alive) PROVE Again
  BY <1>t, <1>13, StepMoves DEF WorkRetried, store, Moved
<1>14. CASE Activity \/ PrepareLimit(TRUE)
  BY <1>4, <1>5, <1>6, <1>7, <1>8, <1>9, <1>10, <1>11, <1>14 DEF Activity
<1>15. CASE Faulty
  BY <1>2, <1>4, <1>6, <1>8, <1>11, <1>12, <1>13, <1>15 DEF Faulty
<1> QED
  BY <1>1, <1>2, <1>3, <1>14, <1>15 DEF Next, vars

LEMMA MissionMoves ==
  ASSUME [Next]_vars
  PROVE  \/ mission' = mission
         \/ Request \/ Pause \/ Resume \/ Stop \/ CheckWrite \/ BeginWork \/ Continues
         \/ \E spent \in BOOLEAN : PrepareLimit(spent)
         \/ FinishWrite \/ FinishRepeats
<1> USE DEF store
<1>1. CASE Operator
  BY <1>1 DEF Operator, StopSignal
<1>2. CASE Signals \/ WorkSettles \/ Loop \/ Late
  BY <1>2 DEF Signals, Signal, MarkSignaled, WorkSettles, Loop, TakeInterrupted, TakePending,
     Watch, Late, LateEnd
<1>3. ASSUME NEW answered \in BOOLEAN, Prepare(answered) PROVE mission' = mission \/ Continues
  <2>1. MayContinue(sup.seen.latest) \/ mission' = mission
    BY <1>3 DEF Prepare
  <2>2. \E other \in BOOLEAN : Prepare(other)
    BY <1>3, Zenon
  <2> QED
    BY <2>1, <2>2 DEF Continues
<1>4. ASSUME NEW spent \in BOOLEAN, PrepareLimit(spent)
      PROVE  \E other \in BOOLEAN : PrepareLimit(other)
  BY <1>4, Zenon
<1>5. CASE Activity
  BY <1>3, <1>4, <1>5 DEF Activity, Check, Skip, AnswerRecorded, RefuseWork, WorkEnds, Cancelled,
     Discard, FinishRead, PrepareRead, UsePrepared
<1>6. CASE Faulty
  BY <1>3, <1>6 DEF Faulty, Resignal, WorkUnanswered, WorkRetried, ScopeFails, SupervisorFails
<1> QED
  BY <1>1, <1>2, <1>4, <1>5, <1>6 DEF Next, vars

(* A completion that a pause holds back is over a turn that has ended, and      *)
(* nothing that is about to start a turn runs; a continuation that is about to  *)
(* be written was read over a turn that has ended.                              *)
Decided ==
  /\ mission.status = "NONE" => mission.done = "NONE"
  /\ mission.done # "NONE" /\ mission.status \in Active =>
       /\ mission.status = "PAUSED" /\ turns[Latest].run \notin Unfinished
       /\ sup.pc \notin {"checkWrite", "begin", "work"}
  /\ sup.pc = "prepareWrite" => turns[sup.seen.latest].run \notin Unfinished

LEMMA ContinuationDecided ==
  ASSUME RoomInv, Placed(turns, sup), Decided, [Next]_vars, sup'.pc = "prepareWrite"
  PROVE  turns'[sup'.seen.latest].run \notin Unfinished
<1>t. Shaped(sup)
  BY DEF RoomInv, Sound
<1>1. CASE sup'.pc = sup.pc /\ sup'.seen = sup.seen
  <2>1. sup.seen.latest \in DOMAIN turns /\ ~BeginWork
    BY <1>1 DEF Placed, BeginWork
  <2> QED
    BY <1>1, <2>1, TurnStays DEF Decided, Stable
<1>2. CASE PrepareRead
  <2>1. CASE sup' = [sup EXCEPT !.pc = "prepareWrite",
                             !.seen = [status |-> mission.status, latest |-> Latest]]
                /\ ~PrepareDone /\ ~PrepareWaits /\ turns' = turns
    <3>1. sup'.seen.latest = Latest
      BY <1>t, <2>1 DEF Shaped
    <3> QED
      BY <2>1, <3>1 DEF PrepareDone, PrepareWaits
  <2>2. CASE sup' = [sup EXCEPT !.pc = "prepared"]
    BY <1>t, <2>2 DEF Shaped
  <2>3. CASE sup' = Rest(sup) \/ sup' = Rest([sup EXCEPT !.monitoring = FALSE])
    BY <1>t, <2>3, RestShape, MonitoringShape
  <2> QED
    BY <1>2, <2>1, <2>2, <2>3 DEF PrepareRead, store
<1>3. ~Check
  <2>1. Requeued.pc = "idle"
    BY <1>t, RequeuedShape
  <2> QED
    BY <1>t, <2>1 DEF Check, Shaped
<1>4. ~CheckWrite
  <2>1. Requeued.pc = "idle"
    BY <1>t, RequeuedShape
  <2> QED
    BY <1>t, <2>1 DEF CheckWrite, Shaped
<1>5. ~BeginWork
  BY <1>t, StepShape DEF BeginWork
<1> QED
  BY <1>1, <1>2, <1>3, <1>4, <1>5, ComesToWrite DEF Writing

LEMMA PausedStaysApart ==
  ASSUME RoomInv, [Next]_vars, mission.status = "PAUSED",
         sup.pc \notin {"checkWrite", "begin", "work"}
  PROVE  sup'.pc \notin {"checkWrite", "begin", "work"}
<1>t. Shaped(sup)
  BY DEF RoomInv, Sound
<1>r. Requeued.pc = "idle" /\ Rest(sup).pc = "idle" /\ Rest([sup EXCEPT !.monitoring = FALSE]).pc = "idle"
  BY <1>t, RequeuedShape, RestShape, MonitoringShape
<1>1. CASE Check
  BY <1>t, <1>r, <1>1 DEF Check, Shaped
<1>2. CASE PrepareRead
  BY <1>t, <1>r, <1>2 DEF PrepareRead, Shaped
<1>3. ~CheckWrite /\ ~BeginWork
  BY DEF CheckWrite, BeginWork
<1> QED
  BY <1>1, <1>2, <1>3, ComesToWrite DEF Writing

LEMMA DecidedStays ==
  ASSUME RoomInv, Placed(turns, sup), Settled, Decided, [Next]_vars PROVE Decided'
<1>t. Shaped(sup) /\ mission \in Missions /\ turns \in Seq(Turns) /\ DOMAIN turns = 1..Latest
        /\ Latest \in Nat
  BY LenProperties DEF RoomInv, Sound, Latest
<1>1. sup'.pc = "prepareWrite" => turns'[sup'.seen.latest].run \notin Unfinished
  BY ContinuationDecided
<1>2. ASSUME mission'.done # "NONE", mission'.status \in Active
      PROVE  /\ mission'.status = "PAUSED" /\ turns'[Latest'].run \notin Unfinished
             /\ sup'.pc \notin {"checkWrite", "begin", "work"}
  <2>1. CASE mission' = mission
    <3>1. /\ mission.status = "PAUSED" /\ turns[Latest].run \notin Unfinished
          /\ sup.pc \notin {"checkWrite", "begin", "work"}
      BY <1>2, <2>1 DEF Decided
    <3>2. Latest \in DOMAIN turns
      BY <1>t, <3>1 DEF RoomInv, Latest
    <3>3. ~Request /\ ~Continues
      <4>1. ~Request
        BY <1>t, <1>2, <3>1 DEF Request, Missions, Active
      <4>2. ~Continues
        BY <3>1 DEF Continues, MayContinue
      <4> QED
        BY <4>1, <4>2
    <3>4. Latest' = Latest
      BY <3>3, TurnsMove DEF NoneAdded, Latest
    <3>5. turns'[Latest].run \notin Unfinished
      BY <3>1, <3>2, TurnStays DEF Stable, BeginWork
    <3> QED
      BY <2>1, <3>1, <3>4, <3>5, PausedStaysApart
  <2>2. ~Request /\ ~Resume /\ ~Stop /\ ~Continues /\ \A spent \in BOOLEAN : PrepareLimit(spent) => mission' = mission
    <3>1. ~Request
      BY <1>t, <1>2 DEF Request, Missions, Decided
    <3>2. ~Resume /\ ~Stop
      BY <1>t, <1>2 DEF Resume, Stop, Missions, Active
    <3>3. ~Continues
      BY <1>t, <1>2, ContinuationMade DEF Missions
    <3>4. \A spent \in BOOLEAN : PrepareLimit(spent) => mission' = mission
      BY <1>t, <1>2 DEF PrepareLimit, Missions, Active
    <3> QED
      BY <3>1, <3>2, <3>3, <3>4
  <2>3. ~Pause
    BY <1>t, <1>2 DEF Pause, Missions, Decided, Active, Unfinished
  <2>4. CheckWrite => mission' = mission
    BY <1>t, <1>2 DEF CheckWrite, Missions, Decided, Active
  <2>5. BeginWork => mission' = mission
    BY <1>t, <1>2 DEF BeginWork, Missions, Decided, Active
  <2>6. ASSUME FinishWrite \/ FinishRepeats, mission' # mission
        PROVE  /\ mission'.status = "PAUSED" /\ turns'[Latest'].run \notin Unfinished
               /\ sup'.pc \notin {"checkWrite", "begin", "work"}
    <3>1. mission' = FinishWrites /\ sup.pc = "finishWrite" /\ turns' = turns
      BY <2>6 DEF FinishWrite, FinishRepeats
    <3>2. Latest = sup.item /\ mission.status = "PAUSED"
      <4>1. sup.verdict \notin Active
        BY <3>1 DEF RoomInv, Sound, Verdicts, Active
      <4> QED
        BY <1>t, <1>2, <2>6, <3>1, <4>1 DEF FinishWrites, Missions
    <3>3. turns'[Latest'].run \notin Unfinished
      BY <3>1, <3>2 DEF Settled, Latest
    <3>4. mission'.status = "PAUSED"
      BY <1>t, <3>1, <3>2 DEF FinishWrites, Missions
    <3>5. sup'.pc \in {"idle", "finish"}
      BY <1>t, <2>6, RestShape, StepShape DEF FinishWrite, FinishRepeats
    <3> QED
      BY <3>3, <3>4, <3>5
  <2> QED
    BY <2>1, <2>2, <2>3, <2>4, <2>5, <2>6, MissionMoves
<1>3. ASSUME mission'.status = "NONE" PROVE mission'.done = "NONE"
  <2>1. ~Request /\ ~Pause /\ ~Stop /\ ~Continues
    BY <1>t, <1>3, ContinuationMade DEF Request, Pause, Stop, Missions, Continues, MayContinue
  <2>2. ~Resume
    BY <1>t, <1>3 DEF Resume, Missions, Verdicts
  <2>3. CheckWrite \/ BeginWork => mission' = mission
    BY <1>t, <1>3 DEF CheckWrite, BeginWork, Missions
  <2>4. \A spent \in BOOLEAN : PrepareLimit(spent) => mission' = mission
    BY <1>t, <1>3 DEF PrepareLimit, Missions
  <2>5. FinishWrite \/ FinishRepeats => mission' = mission
    <3>1. sup.pc = "finishWrite" => sup.seen.status \in Active /\ sup.verdict # "NONE"
      BY DEF RoomInv, Sound, Verdicts
    <3> QED
      BY <1>t, <1>3, <3>1 DEF FinishWrite, FinishRepeats, FinishWrites, Missions, Active
  <2> QED
    BY <1>3, <2>1, <2>2, <2>3, <2>4, <2>5, MissionMoves DEF Decided
<1> QED
  BY <1>1, <1>2, <1>3 DEF Decided

LEMMA InitDecided == Init => Settled /\ Decided
<1> SUFFICES ASSUME Init PROVE Settled /\ Decided
  OBVIOUS
<1>1. mission.done = "NONE" /\ sup.pc = "idle"
  BY DEF Init, Fresh
<1> QED
  BY <1>1 DEF Settled, Decided

(* A mission completes or fails when its newest turn has ended, and never over  *)
(* one that waits or is at work: not when a request is added between the read   *)
(* and the write of the completion, not when a pause holds the completion back  *)
(* and the resumption applies it, not at a limit.                               *)
THEOREM NewestTurnIsDecisive == Spec => NewestTurnDecides
<1> DEFINE Inv == PlaceInv /\ Settled /\ Decided
<1>1. Init => Inv
  BY InitPlaces, InitDecided
<1>2. Inv /\ [Next]_vars => Inv'
  BY PlacesStay, SettledStays, DecidedStays DEF PlaceInv
<1>3. Inv /\ [Next]_vars
        => [mission.status \in Active /\ mission'.status \in {"COMPLETED", "FAILED"}
              => turns[Latest].run \notin Unfinished]_vars
  <2> SUFFICES ASSUME RoomInv, Settled, Decided, Next, mission.status \in Active,
                      mission'.status \in {"COMPLETED", "FAILED"}
               PROVE  turns[Latest].run \notin Unfinished
    BY DEF PlaceInv
  <2>t. mission \in Missions
    BY DEF RoomInv
  <2>1. mission' # mission
    BY DEF Active
  <2>2. ~Request /\ ~Pause /\ ~Stop /\ ~CheckWrite /\ ~BeginWork /\ ~Continues
    BY <2>t DEF Request, Pause, Stop, CheckWrite, BeginWork, Continues, Prepare, MayContinue,
       Missions, Active
  <2>3. CASE Resume
    BY <2>3, <2>t DEF Resume, Missions, Decided, Active
  <2>4. CASE \E spent \in BOOLEAN : PrepareLimit(spent)
    BY <2>1, <2>4 DEF PrepareLimit, Decided
  <2>5. CASE FinishWrite \/ FinishRepeats
    <3>1. mission' = FinishWrites /\ sup.pc = "finishWrite" /\ Latest = sup.item
      BY <2>1, <2>5 DEF FinishWrite, FinishRepeats, FinishWrites
    <3> QED
      BY <3>1 DEF Settled
  <2> QED
    BY <2>1, <2>2, <2>3, <2>4, <2>5, MissionMoves
<1> HIDE DEF Inv
<1> QED
  BY <1>1, <1>2, <1>3, PTL DEF Spec, NewestTurnDecides


-----------------------------------------------------------------------------
(* How the workflow moves *)

(* The iteration of s has ended in t, and k waits behind the others. *)
Behind(s, t, k) ==
  /\ t.pc = "idle" /\ t.item = 0 /\ t.active = FALSE /\ t.cancelled = FALSE /\ t.made = 0
  /\ t.verdict = "NONE" /\ t.pending = Append(s.pending, k) /\ t.interrupted = s.interrupted

LEMMA RestBehind ==
  ASSUME Shaped(sup), NEW k
  PROVE  Behind(sup, Rest([sup EXCEPT !.pending = Append(@, k)]), k)
<1>1. Shaped([sup EXCEPT !.pending = Append(@, k)])
  BY DEF Shaped
<1>2. /\ [sup EXCEPT !.pending = Append(@, k)].pending = Append(sup.pending, k)
      /\ [sup EXCEPT !.pending = Append(@, k)].interrupted = sup.interrupted
  BY DEF Shaped
<1> QED
  BY <1>1, <1>2, RestRested DEF Rested, Behind

Moves ==
  \/ sup' = sup
  \/ \E n \in DOMAIN turns : (Signal(n) \/ Resignal(n)) /\ sup' = Enqueued(n)
  \/ StopSignal \/ TakeInterrupted \/ TakePending \/ SupervisorFails \/ Continues
  \/ Rested(sup, sup') \/ Moved(sup, sup')
  \/ \E k \in {sup.item, sup.made} \cap DOMAIN turns : Behind(sup, sup', k)

LEMMA SupMoves == ASSUME RoomInv, Placed(turns, sup), [Next]_vars PROVE Moves
<1>t. Shaped(sup)
  BY DEF RoomInv, Sound
<1>r. ASSUME sup' = Rest(sup) \/ sup' = Rest([sup EXCEPT !.monitoring = FALSE]) PROVE Rested(sup, sup')
  BY <1>r, <1>t, RestRested, MonitoringRested
<1>m. ASSUME NEW result, sup' = Resulted(result) PROVE Rested(sup, sup') \/ Moved(sup, sup')
  BY <1>m, <1>t, ResultedMoves
<1>s. ASSUME NEW pc, Step(pc) PROVE Moved(sup, sup')
  BY <1>s, <1>t, StepMoves
<1>b. ASSUME NEW k \in {sup.item, sup.made} \cap DOMAIN turns,
             sup' = Rest([sup EXCEPT !.pending = Append(@, k)])
      PROVE  Moves
  BY <1>b, <1>t, RestBehind DEF Moves
<1>1. CASE sup' = sup
  BY <1>1 DEF Moves
<1>2. ASSUME NEW n \in DOMAIN turns, Signal(n) \/ Resignal(n) PROVE Moves
  BY <1>2 DEF Signal, Resignal, Moves
<1>3. CASE Operator
  BY <1>1, <1>3 DEF Operator, Request, Pause, Resume, Stop, Moves
<1>4. CASE Signals \/ WorkSettles \/ Late
  BY <1>1, <1>2, <1>4 DEF Signals, MarkSignaled, WorkSettles, Late, LateEnd
<1>5. CASE Loop
  <2>1. Watch => Moved(sup, sup')
    BY <1>t DEF Watch, Shaped, Moved
  <2> QED
    BY <1>5, <2>1 DEF Loop, Moves
<1>6. CASE Check \/ CheckWrite
  <2>1. ASSUME sup' = Requeued PROVE Moves
    <3>1. sup.item \in DOMAIN turns
      BY <1>6 DEF Check, CheckWrite, Placed, Between, Ending
    <3> QED
      BY <2>1, <3>1, <1>b DEF Requeued
  <2>2. ASSUME NEW pc, sup' = [sup EXCEPT !.pc = pc] PROVE Moved(sup, sup')
    BY <1>t, <2>2 DEF Shaped, Moved
  <2>3. ASSUME sup' = [sup EXCEPT !.pc = "checkWrite", !.seen.latest = Latest] PROVE Moved(sup, sup')
    BY <1>t, <2>3 DEF Shaped, Moved
  <2> QED
    BY <1>6, <2>1, <2>2, <2>3 DEF Check, CheckWrite, Moves
<1>7. CASE Skip \/ AnswerRecorded \/ BeginWork \/ RefuseWork
  BY <1>7, <1>r, <1>m, <1>s DEF Skip, AnswerRecorded, BeginWork, RefuseWork, Moves
<1>8. ASSUME NEW result, WorkEnds(result) \/ WorkUnanswered(result) PROVE Moves
  BY <1>8, <1>m, <1>s DEF WorkEnds, WorkUnanswered, Moves
<1>9. ASSUME NEW alive, WorkRetried(alive) PROVE Moves
  BY <1>9, <1>s DEF WorkRetried, Moves
<1>10. CASE Cancelled \/ ScopeFails
  BY <1>10, <1>t DEF Cancelled, ScopeFails, Shaped, Moved, Moves
<1>11. CASE Discard
  <2>1. sup' = Rest(sup) \/ Moved(sup, sup')
    BY <1>11, <1>t DEF Discard, Shaped, Moved
  <2> QED
    BY <2>1, <1>r DEF Moves
<1>12. CASE FinishRead \/ FinishWrite \/ FinishRepeats
  <2>1. sup' = Rest(sup) \/ Moved(sup, sup')
    BY <1>12, <1>t, <1>s DEF FinishRead, FinishWrite, FinishRepeats, Shaped, Moved
  <2> QED
    BY <2>1, <1>r DEF Moves
<1>13. CASE PrepareRead
  <2>1. ASSUME sup' = [sup EXCEPT !.pc = "prepared"] PROVE Moved(sup, sup')
    BY <2>1, <1>t DEF Shaped, Moved
  <2>2. ASSUME sup' = [sup EXCEPT !.pc = "prepareWrite",
                             !.seen = [status |-> mission.status, latest |-> Latest]]
        PROVE Moved(sup, sup')
    BY <2>2, <1>t DEF Shaped, Moved
  <2> QED
    BY <1>13, <1>r, <2>1, <2>2 DEF PrepareRead, Moves
<1>14. CASE UsePrepared
  <2>1. sup.made \in DOMAIN turns
    BY <1>14 DEF UsePrepared, Placed
  <2> QED
    BY <1>14, <1>r, <1>b, <2>1 DEF UsePrepared, Moves
<1>15. ASSUME NEW spent, PrepareLimit(spent) PROVE Moves
  BY <1>15, <1>r DEF PrepareLimit, Moves
<1>16. ASSUME NEW answered \in BOOLEAN, Prepare(answered) PROVE Moves
  <2>1. MayContinue(sup.seen.latest) \/ sup' = Rest(sup)
    BY <1>16 DEF Prepare
  <2>2. \E other \in BOOLEAN : Prepare(other)
    BY <1>16, Zenon
  <2> QED
    BY <1>r, <2>1, <2>2 DEF Continues, Moves
<1>17. CASE SupervisorFails
  BY <1>17 DEF Moves
<1>18. CASE Activity \/ PrepareLimit(TRUE)
  BY <1>18, <1>6, <1>7, <1>8, <1>10, <1>11, <1>12, <1>13, <1>14, <1>15, <1>16 DEF Activity
<1>19. CASE Faulty
  BY <1>19, <1>2, <1>8, <1>9, <1>10, <1>12, <1>16, <1>17 DEF Faulty
<1> QED
  BY <1>1, <1>3, <1>4, <1>5, <1>18, <1>19 DEF Next, vars

(* What interrupts an item that leaves the workflow. *)
LEMMA VerdictFrom ==
  ASSUME RoomInv, Placed(turns, sup), [Next]_vars,
         sup'.pc \in Ending, sup'.verdict = "INTERRUPTED"
  PROVE  \/ TakeInterrupted
         \/ /\ sup'.item = sup.item
            /\ \/ sup.pc \in Ending /\ sup.verdict = "INTERRUPTED"
               \/ Cancelled \/ RefuseWork
<1>t. Shaped(sup)
  BY DEF RoomInv, Sound
<1> DEFINE Same == sup'.item = sup.item /\ sup.pc \in Ending /\ sup.verdict = "INTERRUPTED"
<1>r. ASSUME NEW s, Rested(s, sup') PROVE FALSE
  BY <1>r DEF Rested, Ending
<1>1. ~Rested(sup, sup')
  BY <1>r
<1>2. sup' # Rest(sup) /\ sup' # Rest([sup EXCEPT !.monitoring = FALSE])
  BY <1>1, <1>t, RestRested, MonitoringRested
<1>3. sup' # Requeued /\ sup' # Rest([sup EXCEPT !.pending = Append(@, sup.made)])
  <2>1. \A k : ~Behind(sup, sup', k)
    BY DEF Behind, Ending
  <2> QED
    BY <2>1, <1>t, RestBehind DEF Requeued
<1>4. ASSUME NEW pc, pc \notin Ending, Step(pc) PROVE FALSE
  BY <1>4, <1>t, StepMoves
<1>5. CASE sup' = sup
  BY <1>5
<1>6. ASSUME NEW n \in DOMAIN turns, Signal(n) \/ Resignal(n) PROVE Same
  BY <1>6, <1>t DEF Signal, Resignal, Enqueued, Shaped
<1>7. CASE Operator
  <2>1. StopSignal => Same
    BY <1>t DEF StopSignal, Shaped
  <2> QED
    BY <1>5, <1>7, <2>1 DEF Operator, Request, Pause, Resume, Stop
<1>8. CASE Signals \/ WorkSettles \/ Late
  BY <1>5, <1>6, <1>8 DEF Signals, MarkSignaled, WorkSettles, Late, LateEnd
<1>9. CASE Loop
  <2>1. ~TakePending
    BY <1>t DEF TakePending, Shaped, Ending
  <2>2. ~Watch
    BY <1>t DEF Watch, Shaped, Ending
  <2> QED
    BY <1>9, <2>1, <2>2 DEF Loop
<1>10. ~Check
  BY <1>t, <1>3 DEF Check, Shaped, Ending
<1>11. ~CheckWrite
  BY <1>t, <1>3 DEF CheckWrite, Shaped, Ending
<1>12. ~Skip /\ ~BeginWork /\ ~FinishWrite /\ ~UsePrepared
  BY <1>2, <1>3, <1>4 DEF Skip, BeginWork, FinishWrite, UsePrepared, Ending
<1>13. ASSUME NEW result \in {"VERIFIED", "WORKING", "UNVERIFIED"}, sup' = Resulted(result) PROVE FALSE
  BY <1>1, <1>13, <1>t, ResultedMoves DEF Verdict
<1>14. ~AnswerRecorded
  <2>1. AnswerRecorded => sup.item \in DOMAIN turns
    BY DEF AnswerRecorded, Placed, Between, Ending
  <2>2. sup.item \in DOMAIN turns => turns[sup.item] \in Turns
    BY ElementOfSeq, LenProperties DEF RoomInv
  <2>3. AnswerRecorded => turns[sup.item].outcome \in {"VERIFIED", "WORKING", "UNVERIFIED"}
    BY <2>1, <2>2 DEF AnswerRecorded, Recorded, Turns
  <2> QED
    BY <1>13, <2>3 DEF AnswerRecorded
<1>15. \A result \in Results : ~WorkEnds(result) /\ ~WorkUnanswered(result)
  BY <1>4, <1>13 DEF WorkEnds, WorkUnanswered, Results, Ending
<1>16. RefuseWork => sup'.item = sup.item
  BY <1>1, <1>t, ResultedMoves DEF RefuseWork, Moved
<1>17. Cancelled => sup'.item = sup.item
  BY <1>t DEF Cancelled, Shaped
<1>18. ~ScopeFails
  BY <1>t DEF ScopeFails, Shaped
<1>19. Discard => Same
  BY <1>2, <1>t DEF Discard, Shaped, Ending
<1>20. FinishRead => Same
  BY <1>2, <1>t DEF FinishRead, Shaped, Ending
<1>21. FinishRepeats => Same
  <2>1. FinishRepeats => sup' = [sup EXCEPT !.pc = "finish"] /\ sup.pc = "finishWrite"
    BY DEF FinishRepeats, Step
  <2> QED
    BY <2>1, <1>t DEF Shaped, Ending
<1>22. ~PrepareRead
  <2>1. /\ [sup EXCEPT !.pc = "prepared"].pc = "prepared"
        /\ [sup EXCEPT !.pc = "prepareWrite",
                       !.seen = [status |-> mission.status, latest |-> Latest]].pc = "prepareWrite"
    BY <1>t DEF Shaped
  <2> QED
    BY <2>1, <1>2 DEF PrepareRead, Ending
<1>23. \A spent \in BOOLEAN : ~PrepareLimit(spent)
  BY <1>2 DEF PrepareLimit
<1>24. \A answered \in BOOLEAN : ~Prepare(answered)
  <2>1. \A pc \in {"prepared", "prepare"} : [sup EXCEPT !.made = Latest + 1, !.pc = pc].pc = pc
    BY <1>t DEF Shaped
  <2>2. ASSUME NEW answered \in BOOLEAN, Prepare(answered) PROVE FALSE
    <3>1. PICK pc \in {"prepared", "prepare"} : sup' = [sup EXCEPT !.made = Latest + 1, !.pc = pc]
      BY <2>2, <1>2 DEF Prepare
    <3> QED
      BY <2>1, <3>1 DEF Ending
  <2> QED
    BY <2>2
<1>25. \A alive \in BOOLEAN : ~WorkRetried(alive)
  BY <1>4 DEF WorkRetried, Ending
<1>26. ~SupervisorFails
  BY DEF SupervisorFails, Fresh, Ending
<1>27. CASE Activity
  BY <1>10, <1>11, <1>12, <1>14, <1>15, <1>16, <1>17, <1>19, <1>20, <1>22, <1>23, <1>24, <1>27
     DEF Activity
<1>28. CASE Faulty
  BY <1>6, <1>15, <1>18, <1>21, <1>24, <1>25, <1>26, <1>28 DEF Faulty
<1> QED
  BY <1>5, <1>7, <1>8, <1>9, <1>23, <1>27, <1>28 DEF Next, vars

(* Whose run a step changes. *)
Touched(n) ==
  \/ turns'[n].run = turns[n].run /\ turns'[n].outcome = turns[n].outcome
  \/ n \in linger /\ "late" \in troubles'
  \/ n = sup.made /\ UsePrepared
  \/ /\ n = sup.item
     /\ \/ Skip \/ RefuseWork \/ Discard \/ BeginWork
        \/ \E result \in Results : WorkEnds(result) \/ WorkUnanswered(result)

LEMMA TurnTouched ==
  ASSUME RoomInv, Placed(turns, sup), [Next]_vars, NEW n \in DOMAIN turns PROVE Touched(n)
<1>t. turns \in Seq(Turns) /\ turns[n] \in Turns
  BY ElementOfSeq, LenProperties DEF RoomInv
<1> USE DEF store, bounds
<1>1. ASSUME turns' = turns \/ turns'[n] = turns[n] PROVE Touched(n)
  BY <1>1 DEF Touched
<1>2. ASSUME NEW k \in DOMAIN turns, Signal(k) \/ MarkSignaled(k) PROVE Touched(n)
  <2>1. PICK signal : turns' = [turns EXCEPT ![k].signal = signal]
    BY <1>2 DEF Signal, MarkSignaled
  <2>2. CASE n # k
    BY <1>1, <2>1, <2>2
  <2>3. CASE n = k
    <3>1. turns'[n].run = turns[n].run /\ turns'[n].outcome = turns[n].outcome
      BY <1>t, <2>1 DEF Turns
    <3> QED
      BY <3>1 DEF Touched
  <2> QED
    BY <2>2, <2>3
<1>3. ASSUME NEW t \in Turns, turns' = Append(turns, t) PROVE Touched(n)
  BY <1>1, <1>3, <1>t, TurnAppended
<1>4. CASE Request \/ Continues
  BY <1>3, <1>4, RequestMade, ContinuationMade
<1>5. ASSUME NEW k, NEW status, turns' = DiscardedRun(k, status), n # k PROVE Touched(n)
  BY <1>1, <1>5 DEF DiscardedRun
<1>6. CASE Skip \/ RefuseWork \/ Discard
  <2>1. turns' = DiscardedRun(sup.item, "INTERRUPTED") \/ turns' = DiscardedRun(sup.item, sup.verdict)
    BY <1>6 DEF Skip, RefuseWork, Discard
  <2> QED
    BY <1>5, <1>6, <2>1 DEF Touched
<1>7. CASE UsePrepared
  <2>1. turns' = turns \/ turns' = DiscardedRun(sup.made, "INTERRUPTED")
    BY <1>7 DEF UsePrepared
  <2> QED
    BY <1>1, <1>5, <1>7, <2>1 DEF Touched
<1>8. CASE BeginWork
  <2>1. turns' = [turns EXCEPT ![sup.item].run = "RUNNING"]
    BY <1>8 DEF BeginWork
  <2>2. n # sup.item => turns'[n] = turns[n]
    BY <2>1
  <2> QED
    BY <1>8, <1>1, <2>2 DEF Touched
<1>9. ASSUME NEW result \in Results, WorkEnds(result) \/ WorkUnanswered(result) PROVE Touched(n)
  <2>1. n # sup.item => turns'[n] = turns[n]
    BY <1>9 DEF WorkEnds, WorkUnanswered, Leaves
  <2> QED
    BY <1>9, <1>1, <2>1 DEF Touched
<1>10. CASE Late
  <2>1. PICK k \in linger, result \in Results \cup {"ABORTED"} : LateEnd(k, result)
    BY <1>10 DEF Late
  <2>2. "late" \in troubles' /\ (n # k => turns'[n] = turns[n])
    BY <2>1 DEF LateEnd, Leaves
  <2> QED
    BY <1>1, <2>1, <2>2 DEF Touched
<1>11. ASSUME NEW answered \in BOOLEAN, Prepare(answered) PROVE Touched(n)
  <2>1. MayContinue(sup.seen.latest) \/ turns' = turns
    BY <1>11 DEF Prepare
  <2>2. \E other \in BOOLEAN : Prepare(other)
    BY <1>11, Zenon
  <2> QED
    BY <1>1, <1>4, <2>1, <2>2 DEF Continues
<1>12. CASE Operator
  BY <1>1, <1>4, <1>12 DEF Operator, Pause, Resume, Stop, StopSignal
<1>13. CASE Signals \/ WorkSettles \/ Loop \/ \E spent \in BOOLEAN : PrepareLimit(spent)
  BY <1>1, <1>2, <1>13
     DEF Signals, WorkSettles, Loop, TakeInterrupted, TakePending, Watch, PrepareLimit
<1>14. CASE Activity
  BY <1>1, <1>6, <1>7, <1>8, <1>9, <1>11, <1>13, <1>14
     DEF Activity, Check, CheckWrite, AnswerRecorded, Cancelled, FinishRead, FinishWrite, PrepareRead
<1>15. CASE Faulty
  BY <1>1, <1>9, <1>11, <1>15
     DEF Faulty, Resignal, WorkRetried, ScopeFails, FinishRepeats, SupervisorFails
<1> QED
  BY <1>1, <1>10, <1>12, <1>13, <1>14, <1>15 DEF Next, vars

-----------------------------------------------------------------------------
(* The order of the signals *)

Unsent(n) == turns[n].signal = "UNSENT"

(* A turn the supervisor has not heard of is in none of its places. *)
Heard == \A n \in DOMAIN turns : n \in Held(sup) \cup linger => ~Unsent(n)

(* It waits as it was stored. *)
Unheard == \A n \in DOMAIN turns : Unsent(n) => turns[n].run = "QUEUED"

(* The signals come in the order of the turns. *)
InTurn ==
  "overtaken" \notin troubles =>
    \A k, n \in DOMAIN turns : Unsent(k) /\ k < n => Unsent(n)

(* A signal that was sent stays sent, and what enters the workflow was heard of. *)
LEMMA SentStays ==
  ASSUME RoomInv, Placed(turns, sup), [Next]_vars, NEW n \in DOMAIN turns
  PROVE  Unsent(n)' => Unsent(n) /\ \A k \in DOMAIN turns : Signal(k) => k # n
<1>t. turns \in Seq(Turns) /\ turns[n] \in Turns
  BY ElementOfSeq, LenProperties DEF RoomInv
<1>1. Signal(n) => turns'[n].signal = "SENT"
  BY <1>t DEF Signal, Turns
<1>2. MarkSignaled(n) => turns'[n].signal = "MARKED"
  BY <1>t DEF MarkSignaled, Turns
<1>3. Unsent(n)' => turns[n].signal = "UNSENT" /\ ~Signal(n)
  BY <1>1, <1>2, TurnStays DEF Unsent, Stable
<1> QED
  BY <1>3 DEF Unsent

LEMMA HeldFrom ==
  ASSUME RoomInv, Placed(turns, sup), [Next]_vars, NEW n \in DOMAIN turns, n \in Held(sup')
  PROVE  n \in Held(sup) \/ n = sup.made \/ Signal(n) \/ Resignal(n)
<1>t. Shaped(sup) /\ 0 \notin DOMAIN turns /\ Range(<<>>) = {}
  BY LenProperties DEF RoomInv, Sound, Range
<1>1. ASSUME NEW k \in DOMAIN turns, Signal(k) \/ Resignal(k), sup' = Enqueued(k)
      PROVE  n \in Held(sup) \/ Signal(n) \/ Resignal(n)
  <2>1. CASE Known(k)
    BY <1>1, <2>1 DEF Enqueued
  <2>2. CASE ~Known(k)
    <3> DEFINE s == Enqueued(k)
    <3>1. /\ s.item = sup.item
          /\ Range(s.pending) = {m \in Range(sup.pending) : ~IsContinuation(m)} \cup {k}
          /\ Range(s.interrupted) = Range(sup.interrupted)
                                      \cup {m \in Range(sup.pending) : IsContinuation(m)}
      BY <2>2, <1>t, EnqueuedMoves
    <3>2. n \in Held(s)
      BY <1>1
    <3> HIDE DEF s
    <3>3. n \in Held(sup) \/ n = k
      BY <3>1, <3>2 DEF Held
    <3> QED
      BY <1>1, <3>3
  <2> QED
    BY <2>1, <2>2
<1>2. CASE StopSignal
  <2>1. /\ sup'.item = sup.item /\ sup'.pending = <<>>
        /\ sup'.interrupted = sup.interrupted \o sup.pending
    BY <1>2, <1>t DEF StopSignal, Shaped
  <2>2. Range(sup.interrupted \o sup.pending) = Range(sup.interrupted) \cup Range(sup.pending)
    BY QueuesJoined DEF Placed
  <2> QED
    BY <1>t, <2>1, <2>2 DEF Held
<1>3. CASE TakeInterrupted
  <2>1. /\ sup'.item = Head(sup.interrupted)
        /\ sup'.interrupted = Tail(sup.interrupted) /\ sup'.pending = sup.pending
    BY <1>3, <1>t DEF TakeInterrupted, Shaped
  <2>2. sup.interrupted \in Seq(DOMAIN turns) /\ sup.interrupted # <<>>
    BY <1>3 DEF TakeInterrupted, Placed
  <2>3. Range(sup.interrupted) = Range(Tail(sup.interrupted)) \cup {Head(sup.interrupted)}
    BY ONLY <2>2, QueueTaken
  <2> QED
    BY <2>1, <2>3 DEF Held
<1>4. CASE TakePending
  <2>1. /\ sup'.item = Head(sup.pending)
        /\ sup'.pending = Tail(sup.pending) /\ sup'.interrupted = sup.interrupted
    BY <1>4, <1>t DEF TakePending, Shaped
  <2>2. sup.pending \in Seq(DOMAIN turns) /\ sup.pending # <<>>
    BY <1>4 DEF TakePending, HasPending, Placed
  <2>3. Range(sup.pending) = Range(Tail(sup.pending)) \cup {Head(sup.pending)}
    BY ONLY <2>2, QueueTaken
  <2> QED
    BY <2>1, <2>3 DEF Held
<1>5. ~SupervisorFails
  BY <1>t DEF SupervisorFails, Fresh, Held
<1>6. CASE Continues
  <2>1. sup'.item = sup.item /\ sup'.pending = sup.pending /\ sup'.interrupted = sup.interrupted
    BY <1>6, ContinuationMade
  <2> QED
    BY <2>1 DEF Held
<1>7. CASE Rested(sup, sup') \/ Moved(sup, sup')
  BY <1>7, <1>t DEF Rested, Moved, Held
<1>8. ASSUME NEW k \in {sup.item, sup.made} \cap DOMAIN turns, Behind(sup, sup', k)
      PROVE  n \in Held(sup) \/ n = sup.made
  <2>1. Range(Append(sup.pending, k)) = Range(sup.pending) \cup {k}
    BY QueueAppended DEF Placed
  <2> QED
    BY <1>8, <1>t, <2>1 DEF Behind, Held
<1> QED
  BY <1>1, <1>2, <1>3, <1>4, <1>5, <1>6, <1>7, <1>8, SupMoves DEF Moves

LEMMA HeldTurns ==
  ASSUME NEW T, NEW s, Placed(T, s) PROVE Held(s) \subseteq DOMAIN T \cup {0}
<1>1. ASSUME NEW q \in Seq(DOMAIN T) PROVE Range(q) \subseteq DOMAIN T
  <2>1. \A k \in DOMAIN q : q[k] \in DOMAIN T
    BY LenProperties, ElementOfSeq
  <2> QED
    BY <2>1 DEF Range
<1>2. s.item \in DOMAIN T \cup {0}
  BY DEF Placed
<1> QED
  BY <1>1, <1>2 DEF Placed, Held

LEMMA NewTurnIs ==
  ASSUME RoomInv, Placed(turns, sup), [Next]_vars, NEW n \in DOMAIN turns', n \notin DOMAIN turns
  PROVE  /\ n = Latest + 1 /\ turns'[n].run = "QUEUED"
         /\ \/ Request /\ sup' = sup /\ turns'[n].signal = "UNSENT"
            \/ Continues /\ turns'[n].signal = "MARKED"
<1>t. turns \in Seq(Turns) /\ DOMAIN turns = 1..Latest
  BY LenProperties DEF RoomInv, Latest
<1>1. ASSUME NEW t \in Turns, turns' = Append(turns, t) PROVE n = Latest + 1 /\ turns'[n] = t
  <2>1. DOMAIN turns' = 1..(Latest + 1) /\ turns'[Latest + 1] = t /\ Latest \in Nat
    BY <1>t, <1>1, TurnAppended
  <2>2. n = Latest + 1
    BY <1>t, <2>1
  <2> QED
    BY <2>1, <2>2
<1>2. CASE Request
  BY <1>1, <1>2, RequestMade
<1>3. CASE Continues
  BY <1>1, <1>3, ContinuationMade
<1>4. ~NoneAdded
  BY <1>t, LenProperties DEF NoneAdded, Latest
<1> QED
  BY <1>2, <1>3, <1>4, TurnsMove

LEMMA HeardStays == ASSUME PlaceInv, Heard, [Next]_vars PROVE Heard'
<1> SUFFICES ASSUME NEW n \in DOMAIN turns', n \in Held(sup') \cup linger', Unsent(n)' PROVE FALSE
  BY DEF Heard, Held
<1>p. RoomInv /\ Placed(turns, sup) /\ linger \subseteq DOMAIN turns
  BY DEF PlaceInv
<1>0. 0 \notin DOMAIN turns /\ 0 \notin DOMAIN turns'
  <2>1. turns \in Seq(Turns) /\ turns' \in Seq(Turns)
    BY <1>p, NextRoom DEF RoomInv
  <2> QED
    BY <2>1, LenProperties
<1>l. linger' \subseteq linger \cup {sup.item}
  BY FlagsStay
<1>1. CASE n \in DOMAIN turns
  <2>1. Unsent(n) /\ ~Signal(n)
    BY <1>1, <1>p, SentStays
  <2>2. ~Resignal(n)
    BY <2>1 DEF Unsent, Resignal
  <2>3. n # sup.made
    BY <1>1, <1>0, <1>p, <2>1 DEF Placed, Unsent
  <2>4. n \in Held(sup) \cup linger
    BY <1>1, <1>l, <1>p, <2>1, <2>2, <2>3, HeldFrom DEF Held
  <2> QED
    BY <1>1, <2>1, <2>4 DEF Heard
<1>2. CASE n \notin DOMAIN turns
  <2>1. Request /\ sup' = sup
    BY <1>2, <1>p, NewTurnIs DEF Unsent
  <2>2. n \in Held(sup) \cup linger
    BY <2>1 DEF Request
  <2> QED
    BY <1>0, <1>2, <1>p, <2>2, HeldTurns
<1> QED
  BY <1>1, <1>2

LEMMA UnheardStays == ASSUME PlaceInv, Heard, Unheard, [Next]_vars PROVE Unheard'
<1> SUFFICES ASSUME NEW n \in DOMAIN turns', Unsent(n)' PROVE turns'[n].run = "QUEUED"
  BY DEF Unheard
<1>p. RoomInv /\ Placed(turns, sup)
  BY DEF PlaceInv
<1>1. CASE n \in DOMAIN turns
  <2>1. Unsent(n) /\ 0 \notin DOMAIN turns
    BY <1>1, <1>p, SentStays, LenProperties DEF RoomInv
  <2>2. n # sup.made
    BY <1>1, <1>p, <2>1 DEF Placed, Unsent
  <2>3. n \notin linger /\ n # sup.item
    BY <1>1, <2>1 DEF Heard, Held
  <2> QED
    BY <1>1, <1>p, <2>1, <2>2, <2>3, TurnTouched DEF Touched, Unheard
<1>2. CASE n \notin DOMAIN turns
  BY <1>2, <1>p, NewTurnIs
<1> QED
  BY <1>1, <1>2

LEMMA InTurnStays ==
  ASSUME PlaceInv, Decided, Unheard, InTurn, [Next]_vars PROVE InTurn'
<1> SUFFICES ASSUME "overtaken" \notin troubles', NEW k \in DOMAIN turns', NEW n \in DOMAIN turns',
                    Unsent(k)', k < n
             PROVE  Unsent(n)'
  BY DEF InTurn
<1>p. /\ RoomInv /\ Placed(turns, sup) /\ turns \in Seq(Turns) /\ DOMAIN turns = 1..Latest
      /\ Latest \in Nat
  BY LenProperties DEF PlaceInv, RoomInv, Latest
<1>o. "overtaken" \notin troubles
  BY TroublesStay DEF vars
<1>d. k \in Nat /\ n \in Nat
  BY <1>p, NewTurnIs
<1>1. k \in DOMAIN turns /\ Unsent(k)
  <2>1. k \in DOMAIN turns
    <3>1. k \notin DOMAIN turns => k = Latest + 1
      BY <1>p, NewTurnIs
    <3>2. n \notin DOMAIN turns => n = Latest + 1
      BY <1>p, NewTurnIs
    <3> QED
      BY <1>d, <1>p, <3>1, <3>2
  <2> QED
    BY <1>p, <2>1, SentStays
<1>2. CASE n \in DOMAIN turns
  <2>1. Unsent(n)
    BY <1>1, <1>2, <1>o DEF InTurn
  <2>2. ~Signal(n)
    <3>1. ASSUME Signal(n) PROVE "overtaken" \in troubles'
      <4>1. k \in 1..(n - 1)
        BY <1>1, <1>2, <1>p
      <4> QED
        BY <1>1, <3>1, <4>1 DEF Signal, Overtakes, Unsent
    <3> QED
      BY <3>1
  <2>3. ~MarkSignaled(n)
    BY <2>1 DEF MarkSignaled, Unsent
  <2> QED
    BY <1>2, <1>p, <2>1, <2>2, <2>3, TurnStays DEF Stable, Unsent
<1>3. CASE n \notin DOMAIN turns
  <2>1. ~Continues
    <3> SUFFICES ASSUME Continues PROVE FALSE
      OBVIOUS
    <3>1. Latest \in DOMAIN turns /\ Latest = sup.seen.latest /\ sup.pc = "prepareWrite"
      BY <1>1, <1>p DEF Continues, MayContinue, Prepare
    <3>2. Unsent(Latest)
      BY <1>1, <1>o, <1>p, <3>1 DEF InTurn
    <3> QED
      BY <3>1, <3>2 DEF Unheard, Decided, Unfinished
  <2> QED
    BY <1>3, <1>p, <2>1, NewTurnIs DEF Unsent
<1> QED
  BY <1>2, <1>3

-----------------------------------------------------------------------------
(* A mission is interrupted by its operator *)

Orderly == troubles \cap {"resent", "overtaken"} = {}

Calm == troubles \cap {"resent", "overtaken", "unanswered", "stalled"} = {}

(* A newer turn has come, or the mission was stopped. *)
Over(k) == stopped \/ k < Latest

(* What is to be discarded, or cancelled, has been superseded or stopped. *)
Dropped ==
  Orderly =>
    /\ \A k \in Range(sup.interrupted) : Over(k)
    /\ sup.cancelled => Over(sup.item)

(* So has what is brought to an end as interrupted, and a turn that neither *)
(* waits nor works nor has an outcome.                                      *)
Superseded ==
  Calm =>
    /\ \A k \in linger : Over(k)
    /\ sup.pc \in Ending /\ sup.verdict = "INTERRUPTED" =>
         Over(sup.item) \/ mission.status \in Ended
    /\ sup.pc \in {"checkWrite", "begin", "work"} =>
         turns[sup.item].run \in Unfinished \/ Recorded(sup.item) \/ Over(sup.item)
    /\ mission.done = "INTERRUPTED" => stopped

(* A mission with a turn was opened. *)
Opened == mission.status = "NONE" => DOMAIN turns = {}

LEMMA StatusComes ==
  ASSUME RoomInv, [Next]_vars, mission'.status = "NONE" PROVE mission' = mission
<1>t. mission \in Missions
  BY DEF RoomInv
<1>1. ~Request /\ ~Pause /\ ~Stop
  BY <1>t DEF Request, Pause, Stop, Missions
<1>2. Continues => mission.status = "RUNNING" /\ mission' = [mission EXCEPT !.done = "NONE"]
  BY DEF Continues, Prepare, MayContinue
<1>3. ~Resume
  BY <1>t DEF Resume, Missions, Verdicts
<1>4. CheckWrite \/ BeginWork => mission' = mission
  BY <1>t DEF CheckWrite, BeginWork, Missions
<1>5. \A spent \in BOOLEAN : PrepareLimit(spent) => mission' = mission
  BY <1>t DEF PrepareLimit, Missions
<1>6. FinishWrite \/ FinishRepeats => mission' = mission
  <2>1. sup.pc = "finishWrite" => sup.seen.status \in Active /\ sup.verdict # "NONE"
    BY DEF RoomInv, Sound, Verdicts
  <2> QED
    BY <1>t, <2>1 DEF FinishWrite, FinishRepeats, FinishWrites, Missions, Active
<1> QED
  BY <1>t, <1>1, <1>2, <1>3, <1>4, <1>5, <1>6, MissionMoves DEF Missions

LEMMA OpenedStays ==
  ASSUME RoomInv, Placed(turns, sup), Opened, [Next]_vars PROVE Opened'
<1> SUFFICES ASSUME mission'.status = "NONE", NEW n \in DOMAIN turns' PROVE FALSE
  BY DEF Opened
<1>1. mission' = mission /\ DOMAIN turns = {}
  BY StatusComes DEF Opened
<1>2. Request \/ Continues
  BY <1>1, NewTurnIs
<1>3. mission \in Missions
  BY DEF RoomInv
<1> QED
  BY <1>1, <1>2, <1>3 DEF Request, Continues, Prepare, MayContinue, Missions

(* What is over stays over, and an order without troubles was one. *)
LEMMA OverStays ==
  ASSUME PlaceInv, [Next]_vars, NEW k \in DOMAIN turns, Over(k) PROVE Over(k)'
<1>1. stopped => stopped'
  BY FlagsStay
<1>2. Latest <= Latest' /\ k \in Nat /\ Latest \in Nat /\ Latest' \in Nat
  BY TurnsGrow, NextRoom, LenProperties DEF PlaceInv, RoomInv, Latest
<1> QED
  BY <1>1, <1>2 DEF Over

LEMMA OrderlyBefore ==
  ASSUME [Next]_vars, Orderly'
  PROVE  Orderly /\ "overtaken" \notin troubles /\ \A n : ~Resignal(n)
<1>1. troubles \subseteq troubles'
  BY TroublesStay DEF vars
<1> QED
  BY <1>1 DEF Orderly, Resignal, Trouble

LEMMA CalmBefore ==
  ASSUME [Next]_vars, Calm'
  PROVE  Calm /\ Orderly /\ "unanswered" \notin troubles' /\ "stalled" \notin troubles'
<1>1. troubles \subseteq troubles'
  BY TroublesStay DEF vars
<1> QED
  BY <1>1 DEF Calm, Orderly

(* A turn that is announced is newer than what the workflow holds. *)
LEMMA AnnouncedIsNewer ==
  ASSUME PlaceInv, Heard, InTurn, "overtaken" \notin troubles,
         NEW n \in DOMAIN turns, Signal(n), NEW k \in DOMAIN turns, k \in Held(sup)
  PROVE  k < Latest
<1>1. DOMAIN turns = 1..Latest /\ Latest \in Nat
  BY LenProperties DEF PlaceInv, RoomInv, Latest
<1>2. Unsent(n) /\ ~Unsent(k)
  BY DEF Signal, Unsent, Heard
<1>3. ~(n < k) /\ n # k
  BY <1>2 DEF InTurn
<1> QED
  BY <1>1, <1>3

(* What is interrupted, or cancelled, is over. *)
LEMMA InterruptedOver ==
  ASSUME PlaceInv, Heard, InTurn, Dropped, [Next]_vars, Orderly',
         NEW k \in Range(sup'.interrupted)
  PROVE  Over(k)'
<1>p. RoomInv /\ Placed(turns, sup) /\ Shaped(sup)
  BY DEF PlaceInv, RoomInv, Sound
<1>c. Orderly /\ "overtaken" \notin troubles /\ \A n : ~Resignal(n)
  BY OrderlyBefore
<1>h. Range(sup.interrupted) \cup Range(sup.pending) \subseteq DOMAIN turns
  <2>1. 0 \notin Range(sup.interrupted) \cup Range(sup.pending)
    <3>1. \A j \in DOMAIN sup.interrupted : sup.interrupted[j] \in DOMAIN turns
      BY <1>p, LenProperties, ElementOfSeq DEF Placed
    <3>2. \A j \in DOMAIN sup.pending : sup.pending[j] \in DOMAIN turns
      BY <1>p, LenProperties, ElementOfSeq DEF Placed
    <3>3. 0 \notin DOMAIN turns
      BY <1>p, LenProperties DEF RoomInv
    <3> QED
      BY <3>1, <3>2, <3>3 DEF Range
  <2> QED
    BY <1>p, <2>1, HeldTurns DEF Held
<1>s. ASSUME k \in Range(sup.interrupted) PROVE Over(k)'
  BY <1>c, <1>h, <1>s, OverStays DEF Dropped
<1>1. ASSUME NEW n \in DOMAIN turns, Signal(n) \/ Resignal(n), sup' = Enqueued(n) PROVE Over(k)'
  <2>1. CASE Known(n)
    BY <1>s, <1>1, <2>1 DEF Enqueued
  <2>2. CASE ~Known(n)
    <3> DEFINE s == Enqueued(n)
    <3>1. Range(s.interrupted) = Range(sup.interrupted)
                                   \cup {m \in Range(sup.pending) : IsContinuation(m)}
      BY <2>2, <1>p, EnqueuedMoves
    <3>2. k \in Range(s.interrupted)
      BY <1>1
    <3> HIDE DEF s
    <3>3. k \in Range(sup.interrupted) \/ k \in Range(sup.pending)
      BY <3>1, <3>2
    <3>4. ASSUME k \in Range(sup.pending) PROVE Over(k)'
      <4>1. k \in DOMAIN turns /\ k \in Held(sup)
        BY <3>4, <1>h DEF Held
      <4>2. Signal(n)
        BY <1>1, <1>c
      <4>3. k < Latest
        BY <1>c, <4>1, <4>2, AnnouncedIsNewer
      <4> QED
        BY <4>1, <4>3, OverStays DEF Over
    <3> QED
      BY <1>s, <3>3, <3>4
  <2> QED
    BY <2>1, <2>2
<1>2. CASE StopSignal
  BY <1>2 DEF StopSignal, Over
<1>3. CASE TakeInterrupted
  <2>1. sup'.interrupted = Tail(sup.interrupted)
    BY <1>3, <1>p DEF TakeInterrupted, Shaped
  <2>2. sup.interrupted \in Seq(DOMAIN turns) /\ sup.interrupted # <<>>
    BY <1>3, <1>p DEF TakeInterrupted, Placed
  <2>3. Range(sup.interrupted) = Range(Tail(sup.interrupted)) \cup {Head(sup.interrupted)}
    BY ONLY <2>2, QueueTaken
  <2> QED
    BY <1>s, <2>1, <2>3
<1>4. CASE TakePending
  BY <1>4, <1>p, <1>s DEF TakePending, Shaped
<1>5. ~SupervisorFails
  BY DEF SupervisorFails, Fresh, Range
<1>6. CASE Continues
  <2>1. sup'.interrupted = sup.interrupted
    BY <1>6, <1>p, ContinuationMade
  <2> QED
    BY <1>s, <2>1
<1>7. CASE Rested(sup, sup') \/ Moved(sup, sup') \/ sup' = sup
  BY <1>s, <1>7 DEF Rested, Moved
<1>8. ASSUME NEW j, Behind(sup, sup', j) PROVE Over(k)'
  BY <1>s, <1>8 DEF Behind
<1> QED
  BY <1>p, <1>1, <1>2, <1>3, <1>4, <1>5, <1>6, <1>7, <1>8, SupMoves DEF Moves

LEMMA CancelledOver ==
  ASSUME PlaceInv, Heard, InTurn, Dropped, [Next]_vars, Orderly', sup'.cancelled
  PROVE  Over(sup.item)'
<1>p. RoomInv /\ Placed(turns, sup) /\ Shaped(sup)
  BY DEF PlaceInv, RoomInv, Sound
<1>c. Orderly /\ "overtaken" \notin troubles /\ \A n : ~Resignal(n)
  BY OrderlyBefore
<1>i. sup.active => sup.item \in DOMAIN turns /\ sup.item \in Held(sup)
  BY <1>p DEF Placed, Held
<1>s. ASSUME sup.cancelled, sup'.item = sup.item PROVE Over(sup.item)'
  <2>1. sup.item \in DOMAIN turns /\ Over(sup.item)
    BY <1>c, <1>i, <1>p, <1>s DEF Dropped, Placed
  <2>2. PICK k \in DOMAIN turns : k = sup.item
    BY <2>1
  <2>3. Over(k)'
    BY <2>1, <2>2, OverStays
  <2> QED
    BY <1>s, <2>2, <2>3 DEF Over
<1>1. ASSUME NEW n \in DOMAIN turns, Signal(n) \/ Resignal(n), sup' = Enqueued(n)
      PROVE  Over(sup.item)'
  <2>1. CASE Known(n)
    BY <1>s, <1>1, <2>1 DEF Enqueued
  <2>2. CASE ~Known(n)
    <3>1. /\ sup'.item = sup.item
          /\ sup'.cancelled = (sup.cancelled \/ (sup.active /\ IsContinuation(sup.item)))
      BY <1>1, <1>p, <2>2, EnqueuedMoves
    <3>2. ASSUME sup.active PROVE Over(sup.item)'
      <4>1. PICK k \in DOMAIN turns : k = sup.item /\ k \in Held(sup)
        BY <1>i, <3>2
      <4>2. Signal(n)
        BY <1>1, <1>c
      <4>3. k < Latest
        BY <1>c, <4>1, <4>2, AnnouncedIsNewer
      <4>4. Over(k)'
        BY <4>1, <4>3, OverStays DEF Over
      <4> QED
        BY <3>1, <4>1, <4>4 DEF Over
    <3> QED
      BY <1>s, <3>1, <3>2
  <2> QED
    BY <2>1, <2>2
<1>2. CASE StopSignal
  BY <1>2 DEF StopSignal, Over
<1>3. ~TakeInterrupted /\ ~TakePending
  <2>1. sup.pc = "idle" => ~sup.cancelled
    BY <1>p DEF Placed, AtItem, Ending
  <2>2. ~TakeInterrupted
    BY <1>p, <2>1 DEF TakeInterrupted, Shaped
  <2>3. ~TakePending
    BY <1>p, <2>1 DEF TakePending, Shaped
  <2> QED
    BY <2>2, <2>3
<1>4. ~SupervisorFails
  BY DEF SupervisorFails, Fresh
<1>5. CASE Continues
  <2>1. sup'.cancelled = sup.cancelled /\ sup'.item = sup.item
    BY <1>5, <1>p, ContinuationMade
  <2> QED
    BY <1>s, <2>1
<1>6. ~Rested(sup, sup') /\ \A j : ~Behind(sup, sup', j)
  BY DEF Rested, Behind
<1>7. CASE Moved(sup, sup') \/ sup' = sup
  BY <1>s, <1>7 DEF Moved
<1> QED
  BY <1>p, <1>1, <1>2, <1>3, <1>4, <1>5, <1>6, <1>7, SupMoves DEF Moves

LEMMA LingerOver ==
  ASSUME PlaceInv, Dropped, Superseded, [Next]_vars, Calm', NEW k \in linger' PROVE Over(k)'
<1>p. linger \subseteq DOMAIN turns /\ Placed(turns, sup)
  BY DEF PlaceInv
<1>c. Calm /\ Orderly /\ "stalled" \notin troubles'
  BY CalmBefore
<1>1. CASE k \in linger
  BY <1>1, <1>c, <1>p, OverStays DEF Superseded
<1>2. CASE k \notin linger
  <2>1. k = sup.item /\ sup.active /\ Cancelled
    BY <1>2, <1>c, FlagsStay
  <2>2. k \in DOMAIN turns /\ Over(k)
    BY <2>1, <1>c, <1>p DEF Cancelled, Dropped, Placed
  <2> QED
    BY <2>2, OverStays
<1> QED
  BY <1>1, <1>2

(* An ended mission stays as it is. *)
LEMMA EndedMission ==
  ASSUME RoomInv, [Next]_vars, mission.status \in Ended PROVE mission' = mission
<1>0. mission.status \notin Active \cup {"NONE"}
  BY DEF Active, Ended
<1>1. ~Request /\ ~Pause /\ ~Resume /\ ~Stop /\ ~Continues
  BY <1>0 DEF Request, Pause, Resume, Stop, Continues, MayContinue, Active, Unfinished
<1>2. CheckWrite \/ BeginWork => mission' = mission
  BY <1>0 DEF CheckWrite, BeginWork, Active
<1>3. sup.pc \in {"finishWrite", "prepareWrite"} => sup.seen.status \in Active
  BY DEF RoomInv, Sound
<1>4. \A spent \in BOOLEAN : PrepareLimit(spent) => mission' = mission
  BY <1>0, <1>3 DEF PrepareLimit
<1>5. FinishWrite \/ FinishRepeats => mission' = mission
  BY <1>0, <1>3 DEF FinishWrite, FinishRepeats, FinishWrites
<1> QED
  BY <1>1, <1>2, <1>4, <1>5, MissionMoves

(* A run that is brought to an end as interrupted is over. *)
LEMMA VerdictOver ==
  ASSUME PlaceInv, Opened, Dropped, Superseded, [Next]_vars, Calm',
         sup'.pc \in Ending, sup'.verdict = "INTERRUPTED"
  PROVE  Over(sup.item)' \/ mission'.status \in Ended
<1>p. RoomInv /\ Placed(turns, sup) /\ Shaped(sup)
  BY DEF PlaceInv, RoomInv, Sound
<1>c. Calm /\ Orderly
  BY CalmBefore
<1>s. ASSUME NEW k \in DOMAIN turns, Over(k), sup'.item = k PROVE Over(sup.item)'
  BY <1>s, OverStays DEF Over
<1>1. CASE TakeInterrupted
  <2>1. sup'.item = Head(sup.interrupted)
    BY <1>1, <1>p DEF TakeInterrupted, Shaped
  <2>2. sup.interrupted \in Seq(DOMAIN turns) /\ sup.interrupted # <<>>
    BY <1>1, <1>p DEF TakeInterrupted, Placed
  <2>3. /\ Range(sup.interrupted) = Range(Tail(sup.interrupted)) \cup {Head(sup.interrupted)}
        /\ Head(sup.interrupted) \in DOMAIN turns
    BY ONLY <2>2, QueueTaken
  <2>4. Over(Head(sup.interrupted))
    BY <1>c, <2>3 DEF Dropped
  <2> QED
    BY <1>s, <2>1, <2>3, <2>4
<1>2. CASE sup'.item = sup.item /\ sup.pc \in Ending /\ sup.verdict = "INTERRUPTED"
  <2>1. sup.item \in DOMAIN turns
    BY <1>2, <1>p DEF Placed, Between, AtItem, Ending
  <2>2. Over(sup.item) \/ mission.status \in Ended
    BY <1>2, <1>c DEF Superseded
  <2>3. mission.status \in Ended => mission' = mission
    BY <1>p, EndedMission
  <2> QED
    BY <1>2, <1>s, <2>1, <2>2, <2>3
<1>3. CASE Cancelled /\ sup'.item = sup.item
  <2>1. sup.item \in DOMAIN turns /\ Over(sup.item)
    BY <1>3, <1>c, <1>p DEF Cancelled, InScope, Dropped, Placed
  <2> QED
    BY <1>3, <1>s, <2>1
<1>4. CASE RefuseWork /\ sup'.item = sup.item
  <2>1. /\ sup.item \in DOMAIN turns /\ sup.pc = "begin" /\ ~Recorded(sup.item)
        /\ ~MayRun(sup.item) /\ mission' = mission
    BY <1>4, <1>p DEF RefuseWork, Placed, Between, Ending
  <2>2. CASE mission.status \notin Active
    <3>1. mission.status # "NONE" /\ mission \in Missions
      BY <1>p, <2>1 DEF Opened, RoomInv
    <3> QED
      BY <2>1, <2>2, <3>1 DEF Missions
  <2>3. CASE turns[sup.item].run \notin Unfinished
    BY <1>4, <1>c, <1>s, <2>1, <2>3 DEF Superseded
  <2>4. CASE sup.item # Latest
    <3>1. DOMAIN turns = 1..Latest /\ Latest \in Nat
      BY <1>p, LenProperties DEF RoomInv, Latest
    <3>2. Over(sup.item)
      BY <2>1, <2>4, <3>1 DEF Over
    <3> QED
      BY <1>4, <1>s, <2>1, <3>2
  <2> QED
    BY <2>1, <2>2, <2>3, <2>4 DEF MayRun
<1> QED
  BY <1>p, <1>1, <1>2, <1>3, <1>4, VerdictFrom

(* A turn that is about to work may work, or is over. *)
LEMMA WorkOver ==
  ASSUME PlaceInv, Superseded, [Next]_vars, Calm', sup'.pc \in {"checkWrite", "begin", "work"}
  PROVE  turns'[sup'.item].run \in Unfinished \/ Recorded(sup.item)' \/ Over(sup.item)'
<1>p. RoomInv /\ Placed(turns, sup) /\ Shaped(sup)
  BY DEF PlaceInv, RoomInv, Sound
<1>c. Calm /\ "unanswered" \notin troubles'
  BY CalmBefore
<1>s. ASSUME sup.pc \in {"checkWrite", "begin", "work"}, sup'.item = sup.item,
             turns'[sup.item].run = turns[sup.item].run /\ turns'[sup.item].outcome = turns[sup.item].outcome
      PROVE  turns'[sup'.item].run \in Unfinished \/ Recorded(sup.item)' \/ Over(sup.item)'
  <2>1. PICK k \in DOMAIN turns : k = sup.item
    BY <1>p, <1>s DEF Placed, Between, Ending
  <2>2. turns[k].run \in Unfinished \/ Recorded(k) \/ Over(k)
    BY <1>c, <1>s, <2>1 DEF Superseded
  <2>3. Over(k) => Over(k)'
    BY <2>1, OverStays
  <2> QED
    BY <1>s, <2>1, <2>2, <2>3 DEF Recorded, Over
<1>b. ASSUME BeginWork PROVE turns'[sup'.item].run \in Unfinished
  <2>1. sup'.item = sup.item /\ turns' = [turns EXCEPT ![sup.item].run = "RUNNING"]
    BY <1>b, <1>p, StepMoves DEF BeginWork, Moved
  <2>2. sup.item \in DOMAIN turns
    BY <1>b, <1>p DEF BeginWork, Placed, Between, Ending
  <2>3. turns[sup.item] \in Turns
    BY <1>p, <2>2, ElementOfSeq, LenProperties DEF RoomInv
  <2> QED
    BY <2>1, <2>2, <2>3 DEF Turns, Unfinished
<1>1. CASE sup'.pc = sup.pc /\ sup'.item = sup.item
  <2>1. sup.item \in DOMAIN turns
    BY <1>1, <1>p DEF Placed, Between, Ending
  <2>2. CASE sup.item \in linger
    <3>1. PICK k \in DOMAIN turns : k = sup.item
      BY <2>1
    <3>2. Over(k)'
      BY <1>c, <2>2, <3>1, OverStays DEF Superseded
    <3> QED
      BY <1>1, <3>1, <3>2 DEF Over
  <2>3. ~UsePrepared /\ ~Skip /\ ~Discard
    BY <1>1 DEF UsePrepared, Skip, Discard
  <2>4. \A result : Resulted(result).pc \in {"idle", "finish"}
    BY <1>p, ResultedShape
  <2>5. ~RefuseWork /\ \A result : ~WorkEnds(result)
    BY <2>4 DEF RefuseWork, WorkEnds
  <2>6. \A result : ~WorkUnanswered(result)
    BY <1>c DEF WorkUnanswered, Trouble
  <2> QED
    BY <1>1, <1>b, <1>p, <1>s, <2>1, <2>2, <2>3, <2>5, <2>6, TurnTouched DEF Touched
<1>2. CASE Check
  <2>1. Requeued.pc = "idle"
    BY <1>p, RequeuedShape
  <2>2. MayRun(sup.item) /\ turns' = turns
    BY <1>2, <1>p, <2>1 DEF Check, store, Shaped
  <2>3. sup'.item = sup.item
    BY <1>2, <1>p, <2>1 DEF Check, Shaped
  <2> QED
    BY <2>2, <2>3 DEF MayRun, Recorded
<1>3. CASE CheckWrite
  <2>1. Requeued.pc = "idle"
    BY <1>p, RequeuedShape
  <2>2. sup'.item = sup.item
    BY <1>3, <1>p, <2>1 DEF CheckWrite, Shaped
  <2> QED
    BY <1>3, <1>s, <2>2 DEF CheckWrite
<1>4. CASE PrepareRead
  <2>1. sup.item = 0
    BY <1>4, <1>p DEF PrepareRead, Placed, AtItem, Ending
  <2>2. sup'.pc \in {"prepared", "prepareWrite", "idle"}
    BY <1>4, <1>p, RestShape, MonitoringShape DEF PrepareRead, Shaped
  <2> QED
    BY <2>2
<1>5. CASE sup.pc = "work" /\ sup'.pc = "begin" /\ sup'.item = sup.item /\ turns' = turns
  BY <1>5, <1>s
<1> QED
  BY <1>b, <1>c, <1>p, <1>1, <1>2, <1>3, <1>4, <1>5, ComesToWrite DEF Writing

(* Over a newest turn only the operator interrupts. *)
LEMMA FinishOver ==
  ASSUME PlaceInv, Superseded, Calm, FinishWrite \/ FinishRepeats, mission' # mission,
         sup.verdict = "INTERRUPTED"
  PROVE  stopped
<1>1. sup.pc = "finishWrite" /\ Latest = sup.item /\ mission.status \in Active
  BY DEF FinishWrite, FinishRepeats, FinishWrites, PlaceInv, RoomInv, Sound
<1>2. Over(sup.item)
  BY <1>1 DEF Superseded, Ending, Active, Ended
<1>3. Latest \in Nat
  BY LenProperties DEF PlaceInv, RoomInv, Latest
<1> QED
  BY <1>1, <1>2, <1>3 DEF Over

LEMMA DoneOver ==
  ASSUME PlaceInv, Superseded, [Next]_vars, Calm', mission'.done = "INTERRUPTED" PROVE stopped'
<1>p. mission \in Missions /\ (stopped => stopped')
  BY FlagsStay DEF PlaceInv, RoomInv
<1>c. Calm
  BY CalmBefore
<1>1. CASE mission'.done = mission.done
  BY <1>1, <1>c, <1>p DEF Superseded
<1>2. Request \/ Pause \/ Stop \/ CheckWrite \/ BeginWork
        => mission'.done \in {mission.done, "NONE"}
  BY <1>p DEF Request, Pause, Stop, CheckWrite, BeginWork, Missions
<1>3. ~Resume
  BY DEF Resume
<1>4. Continues => mission'.done = "NONE"
  BY <1>p DEF Continues, Prepare, MayContinue, Missions
<1>5. \A spent \in BOOLEAN : PrepareLimit(spent) => mission'.done = mission.done
  BY <1>p DEF PrepareLimit, Missions
<1>6. ASSUME FinishWrite \/ FinishRepeats, mission'.done # mission.done PROVE stopped'
  <2>1. sup.verdict = "INTERRUPTED" /\ mission' # mission
    BY <1>6, <1>p DEF FinishWrite, FinishRepeats, FinishWrites, Missions
  <2> QED
    BY <1>6, <1>c, <1>p, <2>1, FinishOver
<1> QED
  BY <1>1, <1>2, <1>3, <1>4, <1>5, <1>6, MissionMoves

LEMMA DroppedStays == ASSUME PlaceInv, Heard, InTurn, Dropped, [Next]_vars PROVE Dropped'
BY InterruptedOver, CancelledOver DEF Dropped

LEMMA SupersededStays ==
  ASSUME PlaceInv, Opened, Dropped, Superseded, [Next]_vars PROVE Superseded'
<1> SUFFICES ASSUME Calm' PROVE
      /\ \A k \in linger' : Over(k)'
      /\ sup'.pc \in Ending /\ sup'.verdict = "INTERRUPTED" =>
           Over(sup.item)' \/ mission'.status \in Ended
      /\ sup'.pc \in {"checkWrite", "begin", "work"} =>
           turns'[sup'.item].run \in Unfinished \/ Recorded(sup.item)' \/ Over(sup.item)'
      /\ mission'.done = "INTERRUPTED" => stopped'
  BY DEF Superseded
<1>1. \A k \in linger' : Over(k)'
  BY LingerOver
<1>2. sup'.pc \in Ending /\ sup'.verdict = "INTERRUPTED" =>
        Over(sup.item)' \/ mission'.status \in Ended
  BY VerdictOver
<1>3. sup'.pc \in {"checkWrite", "begin", "work"} =>
        turns'[sup'.item].run \in Unfinished \/ Recorded(sup.item)' \/ Over(sup.item)'
  BY WorkOver
<1>4. mission'.done = "INTERRUPTED" => stopped'
  BY DoneOver
<1> QED
  BY <1>1, <1>2, <1>3, <1>4

LEMMA InterruptedInOrderStays ==
  ASSUME PlaceInv, Superseded, InterruptedInOrder, [Next]_vars PROVE InterruptedInOrder'
<1> SUFFICES ASSUME Calm', mission'.status = "INTERRUPTED" PROVE stopped'
  BY DEF InterruptedInOrder, InterruptedOnRequest, Calm
<1>p. mission \in Missions /\ (stopped => stopped')
  BY FlagsStay DEF PlaceInv, RoomInv
<1>c. Calm
  BY CalmBefore
<1>1. CASE mission.status = "INTERRUPTED"
  BY <1>1, <1>c, <1>p DEF InterruptedInOrder, InterruptedOnRequest, Calm
<1>2. CASE Stop
  BY <1>2 DEF Stop
<1>3. ~Request /\ ~Pause /\ ~Continues
  BY <1>p DEF Request, Pause, Continues, Prepare, MayContinue, Missions, Active
<1>4. CheckWrite \/ BeginWork => mission' = mission
  BY <1>p DEF CheckWrite, BeginWork, Missions
<1>5. CASE Resume
  BY <1>5, <1>c, <1>p DEF Resume, Superseded, Missions
<1>6. \A spent \in BOOLEAN : PrepareLimit(spent) => mission' = mission
  BY <1>p DEF PrepareLimit, Missions
<1>7. CASE (FinishWrite \/ FinishRepeats) /\ mission' # mission
  <2>1. CASE sup.verdict = "INTERRUPTED"
    BY <1>7, <1>c, <1>p, <2>1, FinishOver
  <2>2. CASE sup.verdict # "INTERRUPTED"
    BY <1>7, <1>p, <2>2 DEF FinishWrite, FinishRepeats, FinishWrites, Missions
  <2> QED
    BY <2>1, <2>2
<1> QED
  BY <1>1, <1>2, <1>3, <1>4, <1>5, <1>6, <1>7, MissionMoves

(* A mission is interrupted only when an operator stopped it, as long as signals  *)
(* come in order and once and every attempt answers: a cancelled automatic turn   *)
(* was superseded by a request, and the end of a turn that is not the newest      *)
(* leaves the mission as it is.                                                   *)
THEOREM OnlyStopsInterrupt == Spec => []InterruptedInOrder
<1> DEFINE Inv == /\ PlaceInv /\ Settled /\ Decided /\ Opened
                  /\ Heard /\ Unheard /\ InTurn /\ Dropped /\ Superseded /\ InterruptedInOrder
<1>1. Init => Inv
  <2> SUFFICES ASSUME Init
               PROVE  Opened /\ Heard /\ Unheard /\ InTurn /\ Dropped /\ Superseded /\ InterruptedInOrder
    BY InitPlaces, InitDecided
  <2>1. /\ DOMAIN turns = {} /\ linger = {} /\ sup.interrupted = <<>> /\ ~sup.cancelled
        /\ sup.pc = "idle" /\ mission.done = "NONE" /\ mission.status = "NONE"
    BY DEF Init, Fresh
  <2>2. Range(sup.interrupted) = {}
    BY <2>1 DEF Range
  <2> QED
    BY <2>1, <2>2 DEF Opened, Heard, Unheard, InTurn, Dropped, Superseded, Ending, InterruptedInOrder,
       InterruptedOnRequest
<1>2. Inv /\ [Next]_vars => Inv'
  <2> SUFFICES ASSUME Inv, [Next]_vars PROVE Inv'
    OBVIOUS
  <2>1. PlaceInv' /\ Settled' /\ Decided' /\ Opened'
    BY PlacesStay, SettledStays, DecidedStays, OpenedStays DEF PlaceInv
  <2>2. Heard' /\ Unheard' /\ InTurn'
    BY HeardStays, UnheardStays, InTurnStays
  <2>3. Dropped' /\ Superseded' /\ InterruptedInOrder'
    BY DroppedStays, SupersededStays, InterruptedInOrderStays
  <2> QED
    BY <2>1, <2>2, <2>3
<1> QED
  BY <1>1, <1>2, PTL DEF Spec

-----------------------------------------------------------------------------
(* Where the workflow goes while its signals come once and in order, and neither *)
(* its scopes nor itself fail                                                    *)

Tidy == troubles \cap {"overtaken", "resent", "late", "lost", "failed"} = {}

LEMMA TidyBefore ==
  ASSUME [Next]_vars, Tidy'
  PROVE  /\ Tidy /\ Orderly /\ Orderly' /\ "overtaken" \notin troubles /\ "late" \notin troubles'
         /\ ~ScopeFails /\ ~SupervisorFails /\ \A n : ~Resignal(n)
<1>1. troubles \subseteq troubles'
  BY TroublesStay DEF vars
<1> QED
  BY <1>1 DEF Tidy, Orderly, Resignal, ScopeFails, SupervisorFails, Trouble

(* A turn is announced that the workflow does not hold. *)
Announced == \E n \in DOMAIN turns : Signal(n) /\ ~Known(n) /\ sup' = Enqueued(n)

(* A position is left for another one; what is monitored stays as it is. *)
Went(pc) ==
  /\ Moved(sup, sup') /\ sup'.pc = pc
  /\ sup'.monitoring = sup.monitoring /\ sup'.changed = sup.changed

(* An item stays in the workflow, at another position. *)
Goes ==
  \/ Check /\ Went("skip") /\ ~MayRun(sup.item)
  \/ Check /\ (Went("begin") \/ Went("checkWrite")) /\ MayRun(sup.item)
  \/ CheckWrite /\ (Went("begin") \/ (Went("skip") /\ mission.status \in Ended))
  \/ BeginWork /\ Went("work")
  \/ (\E result \in Results : WorkUnanswered(result)) /\ Went("begin")
  \/ (\E alive \in BOOLEAN : WorkRetried(alive)) /\ Went("begin")
  \/ Cancelled /\ Went("discard") /\ sup'.verdict = "INTERRUPTED"
  \/ Discard /\ ~sup.active /\ Went("finish") /\ sup'.verdict = sup.verdict
  \/ FinishRead /\ Went("finishWrite") /\ sup'.verdict = sup.verdict
  \/ FinishRepeats /\ Went("finish") /\ sup'.verdict = sup.verdict

(* A result ends the monitoring, unless it is that of a request and the mission *)
(* is monitored for the actions of another turn.                                *)
EndsWith(result) ==
  /\ result # "WORKING" /\ sup'.verdict = Verdict(result)
  /\ result = "VERIFIED" /\ sup.monitoring => IsContinuation(sup.item)

(* The mission is to be ended, and is not monitored any more. *)
Ends ==
  /\ Moved(sup, sup') /\ sup'.pc = "finish" /\ ~sup'.monitoring /\ ~HasPending
  /\ \/ AnswerRecorded /\ EndsWith(turns[sup.item].outcome)
     \/ RefuseWork /\ EndsWith("CANCELLED")
     \/ \E result \in Results : WorkEnds(result) /\ EndsWith(result)
     \/ Discard /\ sup.active /\ sup'.verdict = sup.verdict

(* An iteration of the loop is over. *)
Rests ==
  /\ \/ Rested(sup, sup')
     \/ Check /\ Behind(sup, sup', sup.item) /\ sup'.monitoring = sup.monitoring
     \/ CheckWrite /\ Behind(sup, sup', sup.item) /\ sup'.monitoring = sup.monitoring
     \/ UsePrepared /\ Behind(sup, sup', sup.made) /\ ~Outdated /\ sup'.monitoring = sup.monitoring
  /\ \/ sup'.monitoring \/ sup'.monitoring = sup.monitoring
     \/ PrepareRead /\ PrepareDone
     \/ \E spent \in BOOLEAN : PrepareLimit(spent)
  /\ sup.pc = "begin" => RefuseWork \/ AnswerRecorded

(* The workflow prepares a continuation. *)
Reads ==
  /\ PrepareRead
  /\ \/ sup.made # 0 /\ Went("prepared")
     \/ /\ sup.made = 0 /\ Went("prepareWrite") /\ sup'.seen.latest = Latest
        /\ ~PrepareDone /\ ~PrepareWaits

Watches == Watch /\ Moved(sup, sup') /\ sup'.pc = "prepare"
             /\ sup'.monitoring = sup.monitoring /\ sup'.changed = FALSE

Grows == Continues /\ sup'.monitoring = sup.monitoring /\ sup'.changed = sup.changed

Ways ==
  \/ sup' = sup
  \/ Announced \/ StopSignal \/ TakeInterrupted \/ TakePending
  \/ Watches \/ Goes \/ Ends \/ Rests \/ Reads \/ Grows

LEMMA StepWent ==
  ASSUME Shaped(sup), NEW pc, Step(pc) PROVE Went(pc) /\ sup'.verdict = sup.verdict
BY DEF Shaped, Step, Moved, Went

LEMMA RestMonitored ==
  ASSUME NEW s, Shaped(s), NEW m
  PROVE  Rest(s).monitoring = s.monitoring /\ Rest([s EXCEPT !.monitoring = m]).monitoring = m
BY DEF Shaped, Rest

LEMMA ResultedMonitored ==
  ASSUME Shaped(sup), NEW result
  PROVE  /\ result = "WORKING" => Resulted(result).monitoring /\ Resulted(result).pc = "idle"
         /\ \/ /\ Rested(sup, Resulted(result))
               /\ Resulted(result).monitoring \/ Resulted(result).monitoring = sup.monitoring
            \/ /\ Moved(sup, Resulted(result)) /\ Resulted(result).pc = "finish"
               /\ ~Resulted(result).monitoring /\ ~HasPending
               /\ Resulted(result).verdict = Verdict(result) /\ result # "WORKING"
               /\ result = "VERIFIED" /\ sup.monitoring => IsContinuation(sup.item)
<1>1. CASE Resulted(result) = [sup EXCEPT !.monitoring = FALSE, !.pc = "finish",
                                          !.verdict = Verdict(result)]
           /\ result # "WORKING" /\ ~HasPending
           /\ (result = "VERIFIED" /\ sup.monitoring => IsContinuation(sup.item))
  BY <1>1 DEF Shaped, Moved
<1>2. CASE Resulted(result) = Rest(sup) /\ result # "WORKING"
  BY <1>2, RestRested, RestMonitored
<1>3. CASE Resulted(result) = Rest([sup EXCEPT !.monitoring = TRUE])
  BY <1>3, MonitoringRested, RestMonitored, MonitoringShape, RestShape
<1> QED
  BY <1>1, <1>2, <1>3 DEF Resulted

LEMMA ResultedWays ==
  ASSUME Shaped(sup), NEW result, sup' = Resulted(result),
         sup.pc = "begin" => RefuseWork \/ AnswerRecorded
  PROVE  \/ Rests
         \/ /\ Moved(sup, sup') /\ sup'.pc = "finish" /\ ~sup'.monitoring /\ ~HasPending
            /\ EndsWith(result)
BY ResultedMonitored DEF Rests, EndsWith

LEMMA EndingWays ==
  ASSUME Shaped(sup), Cancelled \/ Discard \/ FinishRead \/ FinishWrite \/ FinishRepeats
  PROVE  Goes \/ Ends \/ Rests
<1>r. ASSUME sup' = Rest(sup), sup.pc # "begin" PROVE Rests
  BY <1>r, RestRested, RestMonitored DEF Rests
<1>1. CASE Cancelled
  BY <1>1 DEF Cancelled, Goes, Went, Moved, Shaped
<1>2. CASE Discard
  <2>1. CASE sup' = Rest(sup)
    BY <1>2, <2>1, <1>r DEF Discard
  <2>2. CASE ~(sup.active /\ HasPending)
    BY <1>2, <2>2 DEF Discard, Goes, Ends, Went, Moved, Shaped
  <2> QED
    BY <1>2, <2>1, <2>2 DEF Discard
<1>3. CASE FinishRead
  <2>1. CASE sup' = Rest(sup)
    BY <1>3, <2>1, <1>r DEF FinishRead
  <2>2. CASE mission.status \in Active
    BY <1>3, <2>2 DEF FinishRead, Goes, Went, Moved, Shaped
  <2> QED
    BY <1>3, <2>1, <2>2 DEF FinishRead
<1>4. CASE FinishWrite
  BY <1>4, <1>r DEF FinishWrite
<1>5. CASE FinishRepeats
  BY <1>5, StepWent DEF FinishRepeats, Goes
<1> QED
  BY <1>1, <1>2, <1>3, <1>4, <1>5

LEMMA CheckWays ==
  ASSUME Shaped(sup), Check \/ CheckWrite PROVE Goes \/ Rests
<1>1. ASSUME sup' = Requeued PROVE Behind(sup, sup', sup.item) /\ sup'.monitoring = sup.monitoring
  <2>1. Shaped([sup EXCEPT !.pending = Append(@, sup.item)])
    BY DEF Shaped
  <2>2. [sup EXCEPT !.pending = Append(@, sup.item)].monitoring = sup.monitoring
    BY DEF Shaped
  <2> QED
    BY <1>1, <2>1, <2>2, RestBehind, RestMonitored DEF Requeued
<1>2. ASSUME NEW pc, sup' = [sup EXCEPT !.pc = pc] PROVE Went(pc)
  BY <1>2 DEF Went, Moved, Shaped
<1>3. CASE Check
  <2>1. CASE sup' = Requeued
    BY <1>1, <1>3, <2>1 DEF Rests, Check
  <2>2. CASE sup' = [sup EXCEPT !.pc = "checkWrite", !.seen.latest = Latest] /\ MayRun(sup.item)
    BY <1>3, <2>2 DEF Goes, Went, Moved, Shaped
  <2> QED
    BY <1>2, <1>3, <2>1, <2>2 DEF Goes, Check
<1>4. CASE CheckWrite
  <2>1. CASE sup' = Requeued
    BY <1>1, <1>4, <2>1 DEF Rests, CheckWrite
  <2> QED
    BY <1>2, <1>4, <2>1 DEF Goes, CheckWrite
<1> QED
  BY <1>3, <1>4

LEMMA PrepareWays ==
  ASSUME RoomInv, Shaped(sup),
         \/ PrepareRead \/ UsePrepared
         \/ \E spent \in BOOLEAN : PrepareLimit(spent)
         \/ \E answered \in BOOLEAN : Prepare(answered)
  PROVE  Rests \/ Reads \/ Grows
<1>r. ASSUME sup' = Rest(sup), sup.pc # "begin" PROVE Rests
  BY <1>r, RestRested, RestMonitored DEF Rests
<1>1. CASE PrepareRead
  <2>1. CASE sup' = Rest([sup EXCEPT !.monitoring = FALSE]) /\ PrepareDone
    BY <1>1, <2>1, MonitoringRested DEF Rests, PrepareRead
  <2>2. CASE sup' = [sup EXCEPT !.pc = "prepared"] /\ sup.made # 0
    BY <1>1, <2>2 DEF Reads, Went, Moved, Shaped
  <2>3. CASE /\ sup' = [sup EXCEPT !.pc = "prepareWrite",
                             !.seen = [status |-> mission.status, latest |-> Latest]]
             /\ sup.made = 0 /\ ~PrepareDone /\ ~PrepareWaits
    BY <1>1, <2>3 DEF Reads, Went, Moved, Shaped
  <2> QED
    BY <1>1, <1>r, <2>1, <2>2, <2>3 DEF PrepareRead
<1>2. CASE UsePrepared
  <2>1. CASE Outdated
    BY <1>2, <1>r, <2>1 DEF UsePrepared
  <2>2. CASE ~Outdated
    <3>1. sup' = Rest([sup EXCEPT !.pending = Append(@, sup.made)]) /\ sup.pc = "prepared"
      BY <1>2, <2>2 DEF UsePrepared
    <3>2. Shaped([sup EXCEPT !.pending = Append(@, sup.made)])
      BY DEF Shaped
    <3>3. [sup EXCEPT !.pending = Append(@, sup.made)].monitoring = sup.monitoring
      BY DEF Shaped
    <3>4. Behind(sup, sup', sup.made) /\ sup'.monitoring = sup.monitoring
      BY <3>1, <3>2, <3>3, RestBehind, RestMonitored
    <3> QED
      BY <1>2, <2>2, <3>1, <3>4 DEF Rests
  <2> QED
    BY <2>1, <2>2
<1>3. ASSUME NEW spent \in BOOLEAN, PrepareLimit(spent) PROVE Rests
  <2>1. sup' = Rest([sup EXCEPT !.monitoring = FALSE]) /\ sup.pc # "begin"
    BY <1>3 DEF PrepareLimit
  <2>2. \E other \in BOOLEAN : PrepareLimit(other)
    BY <1>3, Zenon
  <2> QED
    BY <2>1, <2>2, MonitoringRested DEF Rests
<1>4. ASSUME NEW answered \in BOOLEAN, Prepare(answered) PROVE Rests \/ Grows
  <2>1. CASE ~MayContinue(sup.seen.latest)
    BY <1>4, <1>r, <2>1 DEF Prepare
  <2>2. CASE MayContinue(sup.seen.latest)
    <3>1. \E other \in BOOLEAN : Prepare(other)
      BY <1>4, Zenon
    <3>2. \E pc : sup' = [sup EXCEPT !.made = Latest + 1, !.pc = pc]
      BY <1>4, <2>2 DEF Prepare
    <3>3. sup'.monitoring = sup.monitoring /\ sup'.changed = sup.changed
      BY <3>2 DEF Shaped
    <3> QED
      BY <2>2, <3>1, <3>3 DEF Grows, Continues
  <2> QED
    BY <2>1, <2>2
<1> QED
  BY <1>1, <1>2, <1>3, <1>4

LEMMA WorkWays ==
  ASSUME Shaped(sup), Placed(turns, sup), RoomInv,
         \/ Skip \/ AnswerRecorded \/ BeginWork \/ RefuseWork
         \/ \E result \in Results : WorkEnds(result) \/ WorkUnanswered(result)
         \/ \E alive \in BOOLEAN : WorkRetried(alive)
  PROVE  Goes \/ Ends \/ Rests
<1>1. CASE Skip
  BY <1>1, RestRested, RestMonitored DEF Skip, Rests
<1>2. CASE AnswerRecorded
  BY <1>2, ResultedWays DEF AnswerRecorded, Ends
<1>3. CASE BeginWork
  BY <1>3, StepWent DEF BeginWork, Goes
<1>4. CASE RefuseWork
  BY <1>4, ResultedWays DEF RefuseWork, Ends
<1>5. ASSUME NEW result \in Results, WorkEnds(result) PROVE Ends \/ Rests
  <2>1. sup' = Resulted(result) /\ sup.pc = "work"
    BY <1>5 DEF WorkEnds
  <2> QED
    BY <1>5, <2>1, ResultedWays DEF Ends
<1>6. ASSUME NEW result \in Results, WorkUnanswered(result) PROVE Goes
  BY <1>6, StepWent DEF WorkUnanswered, Goes
<1>7. CASE \E alive \in BOOLEAN : WorkRetried(alive)
  <2>1. Went("begin")
    BY <1>7, StepWent DEF WorkRetried
  <2> QED
    BY <1>7, <2>1 DEF Goes
<1> QED
  BY <1>1, <1>2, <1>3, <1>4, <1>5, <1>6, <1>7

LEMMA NextWays == ASSUME PlaceInv, [Next]_vars, Tidy' PROVE Ways
<1>t. Shaped(sup) /\ Placed(turns, sup) /\ RoomInv
  BY DEF PlaceInv, RoomInv, Sound
<1>x. ~ScopeFails /\ ~SupervisorFails /\ \A n : ~Resignal(n)
  BY TidyBefore
<1>1. ASSUME NEW n \in DOMAIN turns, Signal(n) PROVE sup' = sup \/ Announced
  BY <1>1 DEF Signal, Announced, Enqueued
<1>2. CASE Operator
  BY <1>2 DEF Operator, Request, Pause, Resume, Stop, Ways
<1>3. CASE Signals \/ WorkSettles \/ Late
  BY <1>1, <1>3 DEF Signals, MarkSignaled, WorkSettles, Late, LateEnd, Ways
<1>4. CASE Loop
  <2>1. Watch => Watches
    BY <1>t DEF Watch, Watches, Moved, Shaped
  <2> QED
    BY <1>4, <2>1 DEF Loop, Ways
<1>5. CASE Check \/ CheckWrite
  BY <1>5, <1>t, CheckWays DEF Ways
<1>6. CASE \/ Skip \/ AnswerRecorded \/ BeginWork \/ RefuseWork
           \/ \E result \in Results : WorkEnds(result) \/ WorkUnanswered(result)
           \/ \E alive \in BOOLEAN : WorkRetried(alive)
  BY <1>6, <1>t, WorkWays DEF Ways
<1>7. CASE Cancelled \/ Discard \/ FinishRead \/ FinishWrite \/ FinishRepeats
  BY <1>7, <1>t, EndingWays DEF Ways
<1>8. CASE \/ PrepareRead \/ UsePrepared
           \/ \E spent \in BOOLEAN : PrepareLimit(spent)
           \/ \E answered \in BOOLEAN : Prepare(answered)
  BY <1>8, <1>t, PrepareWays DEF Ways
<1>9. CASE Activity \/ PrepareLimit(TRUE)
  BY <1>5, <1>6, <1>7, <1>8, <1>9 DEF Activity
<1>10. CASE Faulty
  BY <1>6, <1>7, <1>8, <1>10, <1>x DEF Faulty
<1>11. CASE UNCHANGED vars
  BY <1>11 DEF vars, Ways
<1> QED
  BY <1>2, <1>3, <1>4, <1>9, <1>10, <1>11 DEF Next

-----------------------------------------------------------------------------
(* What is known before and after a step                                         *)

(* An automatic turn is never announced. *)
Marked == \A n \in DOMAIN turns : IsContinuation(n) => turns[n].signal = "MARKED"

StopEnds == stopped => mission.status \in Ended

Basis ==
  /\ PlaceInv /\ Decided /\ Opened /\ Heard /\ Unheard /\ InTurn /\ Dropped
  /\ Marked /\ StopEnds

RunStays(n) == turns'[n].run = turns[n].run /\ turns'[n].outcome = turns[n].outcome

LEMMA TurnsTyped ==
  ASSUME PlaceInv
  PROVE  /\ RoomInv /\ Placed(turns, sup) /\ Shaped(sup) /\ mission \in Missions
         /\ turns \in Seq(Turns) /\ Latest \in Nat /\ DOMAIN turns = 1..Latest /\ 0 \notin DOMAIN turns
         /\ \A n \in DOMAIN turns : turns[n] \in Turns /\ n \in Nat
         /\ Range(sup.pending) \subseteq DOMAIN turns /\ Range(sup.interrupted) \subseteq DOMAIN turns
<1>1. RoomInv /\ Placed(turns, sup) /\ Shaped(sup) /\ mission \in Missions /\ turns \in Seq(Turns)
  BY DEF PlaceInv, RoomInv, Sound
<1>2. /\ Latest \in Nat /\ DOMAIN turns = 1..Latest
      /\ \A n \in DOMAIN turns : turns[n] \in Turns
  BY <1>1, ElementOfSeq, LenProperties DEF Latest
<1>3. ASSUME NEW q \in Seq(DOMAIN turns) PROVE Range(q) \subseteq DOMAIN turns
  <2>1. \A k \in DOMAIN q : q[k] \in DOMAIN turns
    BY LenProperties, ElementOfSeq
  <2> QED
    BY <2>1 DEF Range
<1>4. sup.pending \in Seq(DOMAIN turns) /\ sup.interrupted \in Seq(DOMAIN turns)
  BY <1>1 DEF Placed
<1> QED
  BY <1>1, <1>2, <1>3, <1>4

(* Turns are numbered on: one more, or as many as before. *)
LEMMA LatestComes ==
  ASSUME PlaceInv, [Next]_vars
  PROVE  /\ Latest' \in Nat /\ Latest' \in {Latest, Latest + 1}
         /\ DOMAIN turns \subseteq DOMAIN turns'
         /\ \A n \in DOMAIN turns' : n \in DOMAIN turns \/ n = Latest + 1
         /\ \A n \in DOMAIN turns : turns'[n].source = turns[n].source
         /\ \A n \in DOMAIN turns : IsContinuation(n)' <=> IsContinuation(n)
         /\ Latest' # Latest => /\ Request \/ Continues
                                /\ Latest' \in DOMAIN turns' /\ turns'[Latest'].run = "QUEUED"
<1>p. /\ RoomInv /\ Placed(turns, sup) /\ turns \in Seq(Turns) /\ Latest \in Nat
      /\ DOMAIN turns = 1..Latest
  BY TurnsTyped
<1>1. \A n \in DOMAIN turns : turns'[n].source = turns[n].source
  BY <1>p, TurnsGrow DEF Follows
<1>2. CASE NoneAdded
  <2>1. Latest' = Latest /\ DOMAIN turns' = DOMAIN turns
    BY <1>2, <1>p, LenProperties DEF NoneAdded, Latest
  <2> QED
    BY <1>1, <1>p, <2>1 DEF IsContinuation
<1>3. CASE Request \/ Continues
  <2>1. PICK t \in Turns : turns' = Append(turns, t) /\ t.run = "QUEUED"
    BY <1>3, <1>p, RequestMade, ContinuationMade
  <2>2. /\ Latest' = Latest + 1 /\ DOMAIN turns' = 1..(Latest + 1) /\ turns'[Latest + 1] = t
    BY <1>p, <2>1, TurnAppended
  <2> QED
    BY <1>1, <1>3, <1>p, <2>1, <2>2 DEF IsContinuation
<1> QED
  BY <1>p, <1>2, <1>3, TurnsMove

LEMMA StoppedBy ==
  ASSUME [Next]_vars PROVE stopped' = stopped \/ Stop
<1> USE DEF store, bounds
<1>1. CASE Operator \/ Signals \/ WorkSettles \/ Loop \/ Late
  BY <1>1 DEF Operator, Request, Pause, Resume, StopSignal, Signals, Signal, MarkSignaled,
     WorkSettles, Loop, TakeInterrupted, TakePending, Watch, Late, LateEnd
<1>2. CASE Activity \/ PrepareLimit(TRUE)
  BY <1>2 DEF Activity, Check, CheckWrite, Skip, AnswerRecorded, BeginWork, RefuseWork, WorkEnds,
     Cancelled, Discard, FinishRead, FinishWrite, PrepareRead, PrepareLimit, Prepare, UsePrepared
<1>3. CASE Faulty
  BY <1>3 DEF Faulty, Resignal, WorkUnanswered, WorkRetried, ScopeFails, FinishRepeats,
     SupervisorFails, Prepare
<1> QED
  BY <1>1, <1>2, <1>3 DEF Next, vars

LEMMA StopEndsStays == ASSUME RoomInv, StopEnds, [Next]_vars PROVE StopEnds'
<1>1. CASE Stop
  BY <1>1 DEF Stop, StopEnds, Ended, RoomInv, Missions
<1>2. CASE stopped' = stopped
  BY <1>2, EndedMission DEF StopEnds
<1> QED
  BY <1>1, <1>2, StoppedBy

(* Only a turn at work leaves actions, while its mission is active. *)
WorkStarts(result) == WorkEnds(result) \/ WorkUnanswered(result)

LEMMA WorkFrom ==
  ASSUME [Next]_vars, "late" \notin troubles', work', ~work
  PROVE  mission.status \in Active /\ mission' = mission /\ sup.pc = "work" /\ WorkStarts("WORKING")
<1> USE DEF store, bounds
<1>1. ~Operator /\ ~Signals /\ ~WorkSettles /\ ~Loop
  BY DEF Operator, Request, Pause, Resume, Stop, StopSignal, Signals, Signal, MarkSignaled,
     WorkSettles, Loop, TakeInterrupted, TakePending, Watch
<1>2. ~Late
  BY DEF Late, LateEnd
<1>3. ASSUME NEW result \in Results, WorkEnds(result) \/ WorkUnanswered(result)
      PROVE  mission.status \in Active /\ mission' = mission /\ sup.pc = "work" /\ WorkStarts("WORKING")
  BY <1>3 DEF WorkEnds, WorkUnanswered, Leaves, WorkStarts
<1>4. CASE Activity \/ PrepareLimit(TRUE)
  BY <1>3, <1>4 DEF Activity, Check, CheckWrite, Skip, AnswerRecorded, BeginWork, RefuseWork,
     Cancelled, Discard, FinishRead, FinishWrite, PrepareRead, PrepareLimit, Prepare, UsePrepared
<1>5. CASE Faulty
  BY <1>3, <1>5 DEF Faulty, Resignal, WorkRetried, ScopeFails, FinishRepeats,
     SupervisorFails, Prepare
<1> QED
  BY <1>1, <1>2, <1>4, <1>5 DEF Next, vars

LEMMA MarkedStays == ASSUME PlaceInv, Marked, [Next]_vars PROVE Marked'
<1> SUFFICES ASSUME NEW n \in DOMAIN turns', IsContinuation(n)' PROVE turns'[n].signal = "MARKED"
  BY DEF Marked
<1>p. RoomInv /\ Placed(turns, sup) /\ turns \in Seq(Turns)
  BY TurnsTyped
<1>1. CASE n \in DOMAIN turns
  BY <1>1, <1>p, LatestComes, TurnsGrow DEF Marked, Follows
<1>2. CASE n \notin DOMAIN turns
  <2>1. CASE Request
    <3>1. PICK t \in Turns : turns' = Append(turns, t) /\ t.source = 0
      BY <1>p, <2>1, RequestMade
    <3>2. n = Latest + 1 /\ turns'[Latest + 1] = t
      BY <1>2, <1>p, <3>1, TurnAppended, NewTurnIs
    <3> QED
      BY <3>1, <3>2 DEF IsContinuation
  <2> QED
    BY <1>2, <1>p, <2>1, NewTurnIs
<1> QED
  BY <1>1, <1>2

(* While the workflow stays where it is no turn begins or ends. *)
LEMMA RunsStand ==
  ASSUME PlaceInv, [Next]_vars, "late" \notin troubles', sup'.pc = sup.pc
  PROVE  /\ \A n \in DOMAIN turns : RunStays(n)
         /\ work' => work
         /\ ~Continues /\ (Latest' # Latest => Request)
<1>p. RoomInv /\ Placed(turns, sup) /\ Shaped(sup)
  BY TurnsTyped
<1>r. Rest(sup).pc = "idle" /\ \A result : Resulted(result).pc \in {"idle", "finish"}
  BY <1>p, RestShape, ResultedShape
<1>1. ~Skip /\ ~RefuseWork /\ \A result : ~WorkEnds(result)
  BY <1>r DEF Skip, RefuseWork, WorkEnds
<1>2. ~BeginWork /\ \A result : ~WorkUnanswered(result)
  BY <1>p, StepMoves DEF BeginWork, WorkUnanswered
<1>3. ~Discard
  BY <1>p, <1>r DEF Discard, Shaped
<1>4. ~UsePrepared
  <2>1. Rest([sup EXCEPT !.pending = Append(@, sup.made)]).pc = "idle"
    BY <1>p, RestBehind DEF Behind
  <2> QED
    BY <1>r, <2>1 DEF UsePrepared
<1>5. ~Continues
  BY <1>p, ContinuationMade
<1>6. ASSUME NEW n \in DOMAIN turns PROVE RunStays(n)
  BY <1>1, <1>2, <1>3, <1>4, <1>p, TurnTouched DEF Touched, RunStays
<1>7. work' => work
  BY <1>1, <1>2, WorkFrom DEF WorkStarts
<1>8. Latest' # Latest => Request
  BY <1>5, LatestComes
<1> QED
  BY <1>5, <1>6, <1>7, <1>8

-----------------------------------------------------------------------------
(* What each way tells                                                            *)

(* The run stands where it stood, with its item and what it made. *)
Stands ==
  /\ sup'.pc = sup.pc /\ sup'.item = sup.item /\ sup'.active = sup.active
  /\ sup'.made = sup.made /\ sup'.verdict = sup.verdict /\ sup'.seen = sup.seen

LEMMA AnnouncedSays ==
  ASSUME Basis, "overtaken" \notin troubles, Announced
  PROVE  /\ Stands /\ sup'.changed = Preparing /\ sup'.monitoring = sup.monitoring
         /\ sup'.cancelled = (sup.cancelled \/ (sup.active /\ IsContinuation(sup.item)))
         /\ sup'.pending # <<>>
         /\ \A k \in Range(sup'.pending) : k \in DOMAIN turns /\ ~IsContinuation(k)
         /\ Unsent(Latest) /\ Latest \in DOMAIN turns
         /\ \A k \in DOMAIN turns : ~Unsent(k) => k < Latest
         /\ UNCHANGED <<mission, work, linger, stopped>>
<1>p. /\ RoomInv /\ Placed(turns, sup) /\ Shaped(sup) /\ Latest \in Nat /\ DOMAIN turns = 1..Latest
      /\ Range(sup.pending) \subseteq DOMAIN turns
  BY TurnsTyped DEF Basis
<1>1. PICK n \in DOMAIN turns : Signal(n) /\ ~Known(n) /\ sup' = Enqueued(n)
  BY DEF Announced
<1> DEFINE s == Enqueued(n)
<1>2. /\ s.pc = sup.pc /\ s.item = sup.item /\ s.active = sup.active
      /\ s.cancelled = (sup.cancelled \/ (sup.active /\ IsContinuation(sup.item)))
      /\ s.made = sup.made /\ s.verdict = sup.verdict /\ s.seen = sup.seen
      /\ Range(s.pending) = {k \in Range(sup.pending) : ~IsContinuation(k)} \cup {n}
  BY <1>1, <1>p, EnqueuedMoves
<1>3. s.changed = Preparing /\ s.monitoring = sup.monitoring
  BY <1>1, <1>p DEF Enqueued, Shaped
<1>4. sup' = s
  BY <1>1
<1> HIDE DEF s
<1>5. Unsent(n) /\ ~IsContinuation(n)
  BY <1>1 DEF Signal, Unsent, Basis, Marked
<1>6. /\ n \in Range(sup'.pending)
      /\ \A k \in Range(sup'.pending) : k \in DOMAIN turns /\ ~IsContinuation(k)
  BY <1>2, <1>4, <1>5, <1>p
<1>7. sup'.pending # <<>>
  BY <1>6 DEF Range
<1>8. \A k \in DOMAIN turns : n <= k => Unsent(k)
  BY <1>1, <1>5, <1>p DEF Basis, InTurn
<1>9. Latest \in DOMAIN turns /\ Unsent(Latest)
  BY <1>1, <1>8, <1>p
<1>10. \A k \in DOMAIN turns : ~Unsent(k) => k < Latest
  BY <1>8, <1>9, <1>p
<1>11. UNCHANGED <<mission, work, linger, stopped>>
  BY <1>1 DEF Signal
<1> QED
  BY <1>2, <1>3, <1>4, <1>6, <1>7, <1>9, <1>10, <1>11 DEF Stands

LEMMA StopSays ==
  ASSUME PlaceInv, StopSignal
  PROVE  /\ Stands /\ stopped /\ stopped' /\ sup'.pending = <<>> /\ Range(sup'.pending) = {}
         /\ sup'.monitoring = FALSE /\ UNCHANGED store
<1>1. Shaped(sup)
  BY TurnsTyped
<1>2. Range(<<>>) = {}
  BY DEF Range
<1> QED
  BY <1>1, <1>2 DEF StopSignal, Shaped, Stands

LEMMA TakenSays ==
  ASSUME PlaceInv, Dropped, Orderly, TakeInterrupted
  PROVE  /\ sup.pc = "idle" /\ sup'.pc = "discard" /\ sup'.verdict = "INTERRUPTED"
         /\ sup'.item \in DOMAIN turns /\ Over(sup'.item)
         /\ ~sup.active /\ ~sup'.active /\ ~sup'.cancelled
         /\ sup'.pending = sup.pending /\ sup'.made = sup.made /\ sup'.monitoring = sup.monitoring
         /\ sup'.made = 0 /\ UNCHANGED <<mission, turns, work, stopped>>
<1>p. Placed(turns, sup) /\ Shaped(sup)
  BY TurnsTyped
<1>1. /\ sup'.item = Head(sup.interrupted) /\ sup'.pc = "discard" /\ sup'.verdict = "INTERRUPTED"
      /\ sup'.active = sup.active /\ sup'.cancelled = sup.cancelled /\ sup.pc = "idle"
      /\ sup'.pending = sup.pending /\ sup'.made = sup.made /\ sup'.monitoring = sup.monitoring
  BY <1>p DEF TakeInterrupted, Shaped
<1>2. sup.interrupted \in Seq(DOMAIN turns) /\ sup.interrupted # <<>>
  BY <1>p DEF TakeInterrupted, Placed
<1>3. Head(sup.interrupted) \in Range(sup.interrupted) /\ Head(sup.interrupted) \in DOMAIN turns
  BY ONLY <1>2, QueueTaken
<1>4. ~sup.active /\ ~sup.cancelled /\ sup.made = 0
  BY <1>1, <1>p DEF Placed, AtItem, Ending
<1>5. Over(sup'.item)
  BY <1>1, <1>3 DEF Dropped
<1> QED
  BY <1>1, <1>3, <1>4, <1>5 DEF TakeInterrupted, store

LEMMA PendingSays ==
  ASSUME PlaceInv, TakePending
  PROVE  /\ sup.pc = "idle" /\ sup'.pc = "check" /\ sup'.item \in DOMAIN turns
         /\ sup'.active /\ ~sup'.cancelled /\ sup'.made = 0 /\ sup'.monitoring = sup.monitoring
         /\ Range(sup.pending) = Range(sup'.pending) \cup {sup'.item}
         /\ sup'.item \notin Range(sup'.pending) /\ sup'.pending \in Seq(DOMAIN turns)
         /\ UNCHANGED <<mission, turns, work, stopped>>
<1>p. Placed(turns, sup) /\ Shaped(sup)
  BY TurnsTyped
<1>1. /\ sup'.item = Head(sup.pending) /\ sup'.pc = "check" /\ sup'.active = TRUE
      /\ sup'.cancelled = sup.cancelled /\ sup'.made = sup.made /\ sup'.monitoring = sup.monitoring
      /\ sup'.pending = Tail(sup.pending) /\ sup.pc = "idle"
  BY <1>p DEF TakePending, Shaped
<1>2. sup.pending \in Seq(DOMAIN turns) /\ sup.pending # <<>> /\ IsInjective(sup.pending)
  BY <1>p DEF TakePending, HasPending, Placed
<1>3. /\ Head(sup.pending) \in DOMAIN turns /\ Tail(sup.pending) \in Seq(DOMAIN turns)
      /\ Range(sup.pending) = Range(Tail(sup.pending)) \cup {Head(sup.pending)}
      /\ Head(sup.pending) \notin Range(Tail(sup.pending))
  BY ONLY <1>2, QueueTaken
<1>4. ~sup.cancelled /\ sup.made = 0
  BY <1>1, <1>p DEF Placed, AtItem, Ending
<1> QED
  BY <1>1, <1>3, <1>4 DEF TakePending, store

LEMMA GrowsSays ==
  ASSUME PlaceInv, [Next]_vars, Grows
  PROVE  /\ sup.pc = "prepareWrite" /\ sup'.pc \in {"prepared", "prepare"}
         /\ sup.made = 0 /\ sup'.made = Latest + 1 /\ Latest' = Latest + 1
         /\ sup.item = 0 /\ sup'.item = 0 /\ ~sup.active /\ ~sup'.active
         /\ sup'.cancelled = sup.cancelled /\ sup'.pending = sup.pending
         /\ sup'.monitoring = sup.monitoring /\ sup'.changed = sup.changed
         /\ mission.status = "RUNNING" /\ mission'.status = "RUNNING" /\ mission'.done = "NONE"
         /\ sup.seen.latest = Latest /\ UNCHANGED <<work, stopped>>
         /\ Latest \in DOMAIN turns
<1>p. RoomInv /\ Placed(turns, sup) /\ mission \in Missions /\ turns \in Seq(Turns)
  BY TurnsTyped
<1>1. PICK t \in Turns :
           /\ turns' = Append(turns, t)
           /\ sup.pc = "prepareWrite" /\ sup'.pc \in {"prepared", "prepare"}
           /\ sup'.made = Latest + 1 /\ sup'.item = sup.item /\ sup'.active = sup.active
           /\ sup'.cancelled = sup.cancelled /\ sup'.pending = sup.pending
           /\ mission' = [mission EXCEPT !.done = "NONE"]
  BY <1>p, ContinuationMade DEF Grows
<1>2. Latest' = Latest + 1
  BY <1>1, <1>p, TurnAppended
<1>3. mission.status = "RUNNING" /\ sup.seen.latest = Latest /\ UNCHANGED <<work, stopped>>
  BY DEF Grows, Continues, MayContinue, Prepare
<1>4. mission'.status = mission.status /\ mission'.done = "NONE"
  BY <1>1, <1>p DEF Missions
<1>5. sup.made = 0 /\ sup.item = 0 /\ ~sup.active /\ Latest \in DOMAIN turns
  BY <1>1, <1>3, <1>p DEF Placed, AtItem, Ending
<1> QED
  BY <1>1, <1>2, <1>3, <1>4, <1>5 DEF Grows

-----------------------------------------------------------------------------
(* What was withdrawn has been superseded or stopped                              *)

Discarding == sup.pc = "discard" => Over(sup.item) /\ sup.verdict = "INTERRUPTED"

Skipping ==
  sup.pc = "skip" =>
    mission.status \in Ended \/ turns[sup.item].run \notin Unfinished \/ Over(sup.item)

(* Nothing but a stop ends the monitoring while a continuation is prepared. *)
Monitored == Preparing /\ ~sup.monitoring => stopped

Waits(n) == n \in DOMAIN turns /\ turns[n].run \in Unfinished

(* A signal that came in meanwhile is that of a newer turn. *)
Changed ==
  Preparing /\ sup.changed =>
    \/ stopped
    \/ sup.made # 0 /\ sup.made # Latest
    \/ sup.made = 0 /\ sup.pc = "prepare" /\ Waits(Latest)
    \/ sup.pc = "prepareWrite" /\ sup.seen.latest # Latest

Interrupted ==
  \A n \in DOMAIN turns : turns[n].run = "INTERRUPTED" => Over(n) \/ mission.status \in Ended

Withdrawn == Discarding /\ Skipping /\ Monitored /\ Changed /\ Interrupted

LEMMA ItemOver ==
  ASSUME PlaceInv, [Next]_vars, NEW k \in DOMAIN turns, k = sup'.item, Over(k)
  PROVE  Over(sup.item)'
BY OverStays DEF Over

LEMMA DiscardingStays ==
  ASSUME Basis, Discarding, [Next]_vars, Tidy' PROVE Discarding'
<1> SUFFICES ASSUME sup'.pc = "discard" PROVE Over(sup.item)' /\ sup'.verdict = "INTERRUPTED"
  BY DEF Discarding
<1>p. PlaceInv /\ Placed(turns, sup)
  BY DEF Basis, PlaceInv
<1>t. Orderly /\ "overtaken" \notin troubles
  BY TidyBefore
<1>1. CASE sup'.pc = sup.pc /\ sup'.item = sup.item /\ sup'.verdict = sup.verdict
  <2>1. sup.item \in DOMAIN turns
    BY <1>1, <1>p DEF Placed, AtItem, Between, Ending
  <2> QED
    BY <1>1, <1>p, <2>1, ItemOver DEF Discarding
<1>2. CASE Announced \/ StopSignal
  BY <1>1, <1>2, <1>p, <1>t, AnnouncedSays, StopSays DEF Stands
<1>3. CASE TakeInterrupted
  <2>1. sup'.verdict = "INTERRUPTED" /\ sup'.item \in DOMAIN turns /\ Over(sup'.item)
    BY <1>3, <1>p, <1>t, TakenSays DEF Basis
  <2> QED
    BY <1>p, <2>1, ItemOver
<1>4. CASE Goes
  <2>1. Cancelled /\ sup'.item = sup.item /\ sup'.verdict = "INTERRUPTED"
    BY <1>4 DEF Goes, Went, Moved
  <2>2. sup.item \in DOMAIN turns /\ Over(sup.item)
    BY <1>p, <1>t, <2>1 DEF Basis, Cancelled, InScope, Dropped, Placed
  <2> QED
    BY <1>p, <2>1, <2>2, ItemOver
<1>5. ~TakePending /\ ~Grows
  BY <1>p, PendingSays, GrowsSays
<1>6. ~Watches /\ ~Ends /\ ~Rests /\ ~Reads
  BY DEF Watches, Ends, Rests, Reads, Rested, Behind, Went
<1> QED
  BY <1>1, <1>2, <1>3, <1>4, <1>5, <1>6, <1>p, NextWays DEF Ways

(* A turn that may not run is over, or its mission is, or it has ended. *)
LEMMA NotToRun ==
  ASSUME PlaceInv, Opened, NEW n \in DOMAIN turns, ~MayRun(n)
  PROVE  mission.status \in Ended \/ turns[n].run \notin Unfinished \/ Over(n)
<1>1. /\ Latest \in Nat /\ DOMAIN turns = 1..Latest /\ mission \in Missions
  BY TurnsTyped
<1>2. mission.status \notin Active => mission.status \in Ended
  BY <1>1 DEF Opened, Missions
<1>3. n # Latest => Over(n)
  BY <1>1 DEF Over
<1> QED
  BY <1>2, <1>3 DEF MayRun

LEMMA SkippingStays ==
  ASSUME Basis, Skipping, [Next]_vars, Tidy' PROVE Skipping'
<1> SUFFICES ASSUME sup'.pc = "skip"
             PROVE  mission'.status \in Ended \/ turns'[sup'.item].run \notin Unfinished \/ Over(sup.item)'
  BY DEF Skipping
<1>p. PlaceInv /\ Placed(turns, sup) /\ RoomInv /\ Opened
  BY DEF Basis, PlaceInv
<1>t. Orderly /\ "overtaken" \notin troubles /\ "late" \notin troubles'
  BY TidyBefore
<1>s. ASSUME sup'.item = sup.item, sup.item \in DOMAIN turns, RunStays(sup.item),
             mission.status \in Ended \/ turns[sup.item].run \notin Unfinished \/ Over(sup.item)
      PROVE  mission'.status \in Ended \/ turns'[sup'.item].run \notin Unfinished \/ Over(sup.item)'
  BY <1>p, <1>s, ItemOver, EndedMission DEF RunStays
<1>1. CASE sup'.pc = sup.pc /\ sup'.item = sup.item
  <2>1. sup.item \in DOMAIN turns
    BY <1>1, <1>p DEF Placed, Between, Ending
  <2>2. RunStays(sup.item)
    BY <1>1, <1>p, <1>t, <2>1, RunsStand
  <2> QED
    BY <1>1, <1>s, <2>1, <2>2 DEF Skipping
<1>2. CASE Announced \/ StopSignal
  BY <1>1, <1>2, <1>p, <1>t, AnnouncedSays, StopSays DEF Stands
<1>3. CASE Goes
  <2>1. /\ Check \/ CheckWrite
        /\ sup'.item = sup.item /\ turns' = turns
        /\ ~MayRun(sup.item) \/ mission.status \in Ended
    BY <1>3 DEF Goes, Went, Moved, Check, CheckWrite, store
  <2>2. sup.item \in DOMAIN turns
    BY <1>p, <2>1 DEF Check, CheckWrite, Placed, Between, Ending
  <2> QED
    BY <1>p, <1>s, <2>1, <2>2, NotToRun DEF RunStays
<1>4. ~TakePending /\ ~Grows /\ ~TakeInterrupted
  BY <1>p, <1>t, PendingSays, GrowsSays, TakenSays DEF Basis
<1>5. ~Watches /\ ~Ends /\ ~Rests /\ ~Reads
  BY DEF Watches, Ends, Rests, Reads, Rested, Behind, Went
<1> QED
  BY <1>1, <1>2, <1>3, <1>4, <1>5, <1>p, NextWays DEF Ways

LEMMA MonitoredStays ==
  ASSUME Basis, Monitored, [Next]_vars, Tidy' PROVE Monitored'
<1> SUFFICES ASSUME Preparing', ~sup'.monitoring PROVE stopped'
  BY DEF Monitored
<1>p. PlaceInv
  BY DEF Basis
<1>t. Orderly /\ "overtaken" \notin troubles
  BY TidyBefore
<1>1. CASE sup'.monitoring = sup.monitoring /\ Preparing
  BY <1>1, <1>p, FlagsStay DEF Monitored
<1>2. CASE sup' = sup \/ Announced \/ StopSignal
  BY <1>1, <1>2, <1>p, <1>t, AnnouncedSays, StopSays DEF Stands, Preparing
<1>3. ~TakePending /\ ~TakeInterrupted
  BY <1>p, <1>t, PendingSays, TakenSays DEF Basis, Preparing
<1>4. ~Goes /\ ~Ends /\ ~Rests
  BY DEF Goes, Ends, Rests, Rested, Behind, Went, Preparing
<1>5. ~Watches
  BY DEF Watches, Watch
<1>6. CASE Reads \/ Grows
  BY <1>1, <1>6, <1>p, GrowsSays DEF Reads, PrepareRead, Went, Preparing
<1> QED
  BY <1>2, <1>3, <1>4, <1>5, <1>6, <1>p, NextWays DEF Ways

(* A signal that comes in while a continuation is prepared. *)
LEMMA ChangedBy ==
  ASSUME Basis, "overtaken" \notin troubles, [Next]_vars, "late" \notin troubles', Announced, Preparing
  PROVE  \/ sup.made # 0 /\ sup.made # Latest
         \/ sup.made = 0 /\ sup.pc = "prepare" /\ Latest \in DOMAIN turns'
              /\ turns'[Latest].run \in Unfinished
         \/ sup.pc = "prepareWrite" /\ sup.seen.latest # Latest
<1>1. /\ Unsent(Latest) /\ Latest \in DOMAIN turns /\ sup'.pc = sup.pc
      /\ \A k \in DOMAIN turns : ~Unsent(k) => k < Latest
  BY AnnouncedSays DEF Stands
<1>p. PlaceInv /\ Placed(turns, sup) /\ Latest \in Nat
  BY TurnsTyped DEF Basis
<1>2. /\ turns[Latest].run = "QUEUED" /\ turns'[Latest].run = "QUEUED" /\ Latest \in DOMAIN turns'
  BY <1>1, <1>p, RunsStand, LatestComes DEF Basis, Unheard, RunStays
<1>3. CASE sup.made # 0
  BY <1>1, <1>3, <1>p DEF Placed, Unsent
<1>4. CASE sup.pc = "prepareWrite"
  BY <1>2, <1>4 DEF Basis, Decided, Unfinished
<1> QED
  BY <1>2, <1>3, <1>4, <1>p DEF Preparing, Placed, Unfinished

LEMMA ChangedStays ==
  ASSUME Basis, Changed, [Next]_vars, Tidy' PROVE Changed'
<1> SUFFICES ASSUME Preparing', sup'.changed
             PROVE  \/ stopped'
                    \/ sup'.made # 0 /\ sup'.made # Latest'
                    \/ sup'.made = 0 /\ sup'.pc = "prepare" /\ Waits(Latest)'
                    \/ sup'.pc = "prepareWrite" /\ sup'.seen.latest # Latest'
  BY DEF Changed
<1>p. /\ PlaceInv /\ Placed(turns, sup) /\ RoomInv /\ Latest \in Nat /\ DOMAIN turns = 1..Latest
      /\ mission \in Missions /\ turns \in Seq(Turns)
  BY TurnsTyped DEF Basis
<1>t. Orderly /\ "overtaken" \notin troubles /\ "late" \notin troubles'
  BY TidyBefore
<1>f. stopped => stopped'
  BY <1>p, FlagsStay
<1>l. Latest' \in Nat /\ Latest' \in {Latest, Latest + 1}
  BY <1>p, LatestComes
<1>1. CASE sup' = sup
  <2>1. sup.made # 0 => sup.made \in DOMAIN turns
    BY <1>p DEF Placed
  <2>2. sup.pc = "prepareWrite" => sup.seen.latest \in DOMAIN turns
    BY <1>p DEF Placed
  <2>3. Waits(Latest) => Waits(Latest)'
    <3>1. CASE Latest' = Latest
      BY <1>1, <1>p, <1>t, <3>1, LatestComes, RunsStand DEF RunStays, Waits
    <3>2. CASE Latest' # Latest
      BY <1>p, <3>2, LatestComes DEF Waits, Unfinished
    <3> QED
      BY <3>1, <3>2
  <2>4. Preparing /\ sup.changed
    BY <1>1 DEF Preparing
  <2> QED
    BY <1>1, <1>f, <1>l, <1>p, <2>1, <2>2, <2>3, <2>4 DEF Changed
<1>2. CASE Announced
  <2>1. Preparing /\ sup'.pc = sup.pc /\ sup'.made = sup.made /\ sup'.seen = sup.seen
    BY <1>2, <1>t, AnnouncedSays DEF Stands, Preparing
  <2>2. Latest' = Latest
    <3>1. ~Request
      BY <1>2, <1>p, AnnouncedSays, <1>t DEF Announced, Signal, Request
    <3> QED
      BY <1>p, <1>t, <2>1, <3>1, RunsStand
  <2> QED
    BY <1>2, <1>t, <2>1, <2>2, ChangedBy DEF Waits
<1>3. CASE StopSignal
  BY <1>3, <1>p, StopSays
<1>4. ~TakePending /\ ~TakeInterrupted
  BY <1>p, <1>t, PendingSays, TakenSays DEF Basis, Preparing
<1>5. ~Goes /\ ~Ends /\ ~Rests
  BY DEF Goes, Ends, Rests, Rested, Behind, Went, Preparing
<1>6. ~Watches
  BY DEF Watches
<1>7. CASE Reads
  <2>1. sup.changed /\ Preparing /\ sup.pc = "prepare" /\ turns' = turns /\ Latest' = Latest
    BY <1>7 DEF Reads, Went, PrepareRead, Preparing, store, Latest
  <2>2. CASE sup.made # 0 /\ Went("prepared")
    BY <1>f, <2>1, <2>2 DEF Changed, Went, Moved
  <2>3. CASE sup.made = 0
    <3>1. ~PrepareDone /\ ~PrepareWaits
      BY <1>7, <2>3 DEF Reads
    <3>2. mission.status \in Active /\ turns[Latest].run \notin Unfinished
      BY <3>1 DEF PrepareDone, PrepareWaits
    <3>3. ~stopped
      BY <3>2 DEF Basis, StopEnds, Active, Ended
    <3> QED
      BY <2>1, <2>3, <3>2, <3>3 DEF Changed, Waits
  <2> QED
    BY <1>7, <2>2, <2>3 DEF Reads
<1>8. ~Grows
  <2> SUFFICES ASSUME Grows PROVE FALSE
    OBVIOUS
  <2>1. /\ sup.pc = "prepareWrite" /\ sup.made = 0 /\ sup.seen.latest = Latest /\ sup.changed
        /\ mission.status = "RUNNING"
    BY <1>p, GrowsSays
  <2>2. ~stopped
    BY <2>1 DEF Basis, StopEnds, Ended
  <2> QED
    BY <2>1, <2>2 DEF Changed, Preparing
<1> QED
  BY <1>1, <1>2, <1>3, <1>4, <1>5, <1>6, <1>7, <1>8, <1>p, NextWays DEF Ways

LEMMA InterruptedStays ==
  ASSUME Basis, Withdrawn, [Next]_vars, Tidy' PROVE Interrupted'
<1> SUFFICES ASSUME NEW n \in DOMAIN turns', turns'[n].run = "INTERRUPTED"
             PROVE  Over(n)' \/ mission'.status \in Ended
  BY DEF Interrupted
<1>p. /\ PlaceInv /\ Placed(turns, sup) /\ RoomInv /\ Latest \in Nat /\ DOMAIN turns = 1..Latest
      /\ turns \in Seq(Turns) /\ Opened /\ \A k \in DOMAIN turns : turns[k] \in Turns
  BY TurnsTyped DEF Basis
<1>t. "late" \notin troubles'
  BY TidyBefore
<1>1. n \in DOMAIN turns
  BY <1>p, NewTurnIs
<1>s. ASSUME Over(n) \/ mission.status \in Ended PROVE Over(n)' \/ mission'.status \in Ended
  BY <1>1, <1>p, <1>s, OverStays, EndedMission
<1>d. ASSUME NEW k, NEW status, turns' = DiscardedRun(k, status), turns[n].run # "INTERRUPTED"
      PROVE  k = n /\ turns[n].run \in Unfinished
  BY <1>d DEF DiscardedRun
<1>2. CASE turns[n].run = "INTERRUPTED"
  BY <1>1, <1>2, <1>s DEF Withdrawn, Interrupted
<1>3. CASE n = sup.made /\ UsePrepared /\ turns[n].run # "INTERRUPTED"
  <2>1. sup.pc = "prepared" /\ Outdated /\ sup.made # 0
    BY <1>3, <1>p DEF UsePrepared, Placed
  <2>2. stopped \/ sup.made # Latest
    BY <2>1 DEF Withdrawn, Monitored, Changed, Outdated, Preparing
  <2>3. Over(n)
    BY <1>1, <1>3, <1>p, <2>2 DEF Over
  <2> QED
    BY <1>s, <2>3
<1>4. CASE n = sup.item /\ turns[n].run # "INTERRUPTED" /\ Skip
  BY <1>4, <1>d, <1>s DEF Skip, Withdrawn, Skipping
<1>5. CASE n = sup.item /\ turns[n].run # "INTERRUPTED" /\ RefuseWork
  <2>1. turns[n].run \in Unfinished /\ ~MayRun(n)
    BY <1>5, <1>d DEF RefuseWork
  <2> QED
    BY <1>1, <1>p, <1>s, <2>1, NotToRun
<1>6. CASE n = sup.item /\ Discard
  BY <1>6, <1>s DEF Discard, Withdrawn, Discarding
<1>7. ~(n = sup.item /\ BeginWork)
  <2>1. BeginWork => turns' = [turns EXCEPT ![sup.item].run = "RUNNING"]
    BY DEF BeginWork
  <2>2. turns[n] \in Turns
    BY <1>1, <1>p
  <2> QED
    BY <2>1, <2>2 DEF Turns
<1>8. ASSUME NEW result \in Results, WorkEnds(result) \/ WorkUnanswered(result) PROVE n # sup.item
  <2>1. turns[n] \in Turns
    BY <1>1, <1>p
  <2> QED
    BY <1>8, <2>1 DEF WorkEnds, WorkUnanswered, Leaves, Turns
<1> QED
  BY <1>1, <1>2, <1>3, <1>4, <1>5, <1>6, <1>7, <1>8, <1>p, <1>t, TurnTouched DEF Touched

LEMMA WithdrawnStays ==
  ASSUME Basis, Withdrawn, [Next]_vars, Tidy' PROVE Withdrawn'
BY DiscardingStays, SkippingStays, MonitoredStays, ChangedStays, InterruptedStays DEF Withdrawn

-----------------------------------------------------------------------------
(* A continuation is alone, and its mission is monitored                          *)

(* No continuation waits while one is prepared, and nothing waits unannounced. *)
Unshared ==
  Preparing => /\ \A c \in Range(sup.pending) : ~IsContinuation(c)
               /\ ~sup.changed => sup.pending = <<>>

InHand(c) == c \in Range(sup.pending) \/ (c = sup.item /\ sup.pc \in AtItem)

Followed == \A c \in DOMAIN turns : InHand(c) /\ IsContinuation(c) => stopped \/ sup.monitoring

(* An item is cancelled for the one that takes its place. *)
Replaced ==
  /\ sup.cancelled \/ (sup.pc = "discard" /\ sup.active) => stopped \/ HasPending
  /\ sup.cancelled => stopped \/ IsContinuation(sup.item)

(* The newest turn, when it continues another, waits or runs alone. *)
AloneInQueue ==
  \A c \in Range(sup.pending) : IsContinuation(c) /\ c = Latest =>
    Range(sup.pending) = {c} /\ ~sup.active /\ ~work

AloneAtItem ==
  sup.pc \in AtItem /\ IsContinuation(sup.item) /\ sup.item = Latest =>
    ~HasPending /\ (sup.pc = "check" => ~work)

(* A turn has left its actions and its answer was lost. *)
Answer == sup.pc = "begin" /\ Recorded(sup.item) /\ turns[sup.item].outcome = "WORKING"

AtRest ==
  /\ sup.pc \in {"checkWrite", "begin", "work"} /\ IsContinuation(sup.item) /\ work => Answer
  /\ sup.pc = "prepareWrite" \/ sup.made # 0 => ~work

Continuing == Unshared /\ Followed /\ Replaced /\ AloneInQueue /\ AloneAtItem /\ AtRest

LEMMA UnsharedStays ==
  ASSUME Basis, Unshared, [Next]_vars, Tidy' PROVE Unshared'
<1> SUFFICES ASSUME Preparing'
             PROVE  /\ \A c \in Range(sup'.pending) : ~IsContinuation(c)'
                    /\ ~sup'.changed => sup'.pending = <<>>
  BY DEF Unshared
<1>p. PlaceInv /\ Range(sup.pending) \subseteq DOMAIN turns
  BY TurnsTyped DEF Basis
<1>t. Orderly /\ "overtaken" \notin troubles
  BY TidyBefore
<1>e. Range(<<>>) = {}
  BY DEF Range
<1>c. \A c \in DOMAIN turns : IsContinuation(c)' <=> IsContinuation(c)
  BY <1>p, LatestComes
<1>1. CASE Preparing /\ sup'.pending = sup.pending /\ sup'.changed = sup.changed
  BY <1>1, <1>c, <1>p DEF Unshared
<1>2. CASE Announced
  <2>1. /\ Preparing /\ sup'.changed
        /\ \A c \in Range(sup'.pending) : c \in DOMAIN turns /\ ~IsContinuation(c)
    BY <1>2, <1>t, AnnouncedSays DEF Stands, Preparing
  <2> QED
    BY <1>c, <2>1
<1>3. CASE StopSignal
  BY <1>3, <1>e, <1>p, StopSays
<1>4. ~TakePending /\ ~TakeInterrupted
  BY <1>p, <1>t, PendingSays, TakenSays DEF Basis, Preparing
<1>5. ~Goes /\ ~Ends /\ ~Rests
  BY DEF Goes, Ends, Rests, Rested, Behind, Went, Preparing
<1>6. CASE Watches
  BY <1>6, <1>e DEF Watches, Watch, HasPending, Moved
<1>7. CASE Reads \/ Grows
  <2>1. Preparing
    BY <1>7, <1>p, GrowsSays DEF Reads, PrepareRead, Preparing
  <2> QED
    BY <1>1, <1>7, <1>p, <2>1, GrowsSays DEF Reads, Went, Moved
<1>8. CASE sup' = sup
  BY <1>1, <1>8 DEF Preparing
<1> QED
  BY <1>2, <1>3, <1>4, <1>5, <1>6, <1>7, <1>8, <1>p, NextWays DEF Ways

(* A queue without its items is empty. *)
LEMMA QueueEmpty == ASSUME NEW X, NEW q \in Seq(X), Range(q) = {} PROVE q = <<>>
<1>1. \A k \in DOMAIN q : q[k] \in Range(q)
  BY DEF Range
<1>2. DOMAIN q = {} /\ DOMAIN q = 1..Len(q) /\ Len(q) \in Nat
  BY <1>1, LenProperties
<1>3. Len(q) = 0
  BY <1>2
<1> QED
  BY <1>3, EmptySeq

LEMMA FollowedStays ==
  ASSUME Basis, Unshared, Followed, [Next]_vars, Tidy' PROVE Followed'
<1>p. /\ PlaceInv /\ Placed(turns, sup) /\ Range(sup.pending) \subseteq DOMAIN turns
      /\ Range(sup'.pending) \subseteq DOMAIN turns' /\ 0 \notin DOMAIN turns'
  <2>1. PlaceInv
    BY DEF Basis
  <2>2. PlaceInv'
    BY <2>1, PlacesStay
  <2>3. \A T, s : Placed(T, s) => Held(s) \subseteq DOMAIN T \cup {0}
    BY HeldTurns
  <2>4. 0 \notin DOMAIN turns'
    BY <2>2, LenProperties DEF PlaceInv, RoomInv
  <2>5. ASSUME NEW q \in Seq(DOMAIN turns') PROVE Range(q) \subseteq DOMAIN turns'
    <3>1. \A k \in DOMAIN q : q[k] \in DOMAIN turns'
      BY LenProperties, ElementOfSeq
    <3> QED
      BY <3>1 DEF Range
  <2>6. sup'.pending \in Seq(DOMAIN turns')
    BY <2>2 DEF PlaceInv, Placed
  <2> QED
    BY <2>1, <2>4, <2>5, <2>6, TurnsTyped
<1>t. Orderly /\ "overtaken" \notin troubles
  BY TidyBefore
<1>f. stopped => stopped'
  BY <1>p, FlagsStay
<1> SUFFICES ASSUME NEW c \in DOMAIN turns', InHand(c)', IsContinuation(c)', ~stopped'
             PROVE  sup'.monitoring
  BY DEF Followed
<1>c. \A k \in DOMAIN turns : IsContinuation(k)' <=> IsContinuation(k)
  BY <1>p, LatestComes
<1>s. ASSUME InHand(c), sup'.monitoring = sup.monitoring PROVE sup'.monitoring
  <2>1. c \in DOMAIN turns
    BY <1>p, <1>s DEF InHand, Placed, Between, Ending
  <2> QED
    BY <1>c, <1>f, <1>s, <2>1 DEF Followed
<1>1. CASE sup' = sup
  BY <1>1, <1>s DEF InHand
<1>2. CASE Announced
  <2>1. /\ sup'.pc = sup.pc /\ sup'.item = sup.item /\ sup'.monitoring = sup.monitoring
        /\ \A k \in Range(sup'.pending) : k \in DOMAIN turns /\ ~IsContinuation(k)
    BY <1>2, <1>t, AnnouncedSays DEF Stands
  <2>2. c \notin Range(sup'.pending)
    BY <1>c, <2>1
  <2> QED
    BY <1>s, <2>1, <2>2 DEF InHand
<1>3. ~StopSignal
  BY <1>p, StopSays
<1>4. CASE TakeInterrupted
  <2>1. /\ sup'.pc = "discard" /\ sup'.pending = sup.pending /\ sup'.monitoring = sup.monitoring
    BY <1>4, <1>p, <1>t, TakenSays DEF Basis
  <2> QED
    BY <1>s, <2>1 DEF InHand, AtItem
<1>5. CASE TakePending
  BY <1>5, <1>p, <1>s, PendingSays DEF InHand
<1>6. CASE Watches \/ Reads
  BY <1>6, <1>s DEF Watches, Reads, Went, Moved, InHand, AtItem
<1>7. CASE Grows
  BY <1>7, <1>p, <1>s, GrowsSays DEF InHand, AtItem
<1>8. CASE Goes
  <2>1. sup'.pending = sup.pending /\ sup'.item = sup.item /\ sup'.monitoring = sup.monitoring
    BY <1>8 DEF Goes, Went, Moved
  <2>2. sup'.pc \in AtItem => sup.pc \in AtItem
    BY <1>8 DEF Goes, Went, AtItem, Check, CheckWrite, BeginWork, WorkUnanswered, WorkRetried
  <2> QED
    BY <1>s, <2>1, <2>2 DEF InHand
<1>9. CASE Ends
  <2>1. sup'.pc = "finish" /\ sup'.pending = <<>>
    BY <1>9 DEF Ends, Moved, HasPending
  <2>2. Range(<<>>) = {}
    BY DEF Range
  <2> QED
    BY <2>1, <2>2 DEF InHand, AtItem
<1>10. CASE Rests
  <2>1. sup'.pc = "idle"
    BY <1>10 DEF Rests, Rested, Behind
  <2>2. CASE Rested(sup, sup')
    <3>1. c \in Range(sup.pending) /\ c \in DOMAIN turns /\ IsContinuation(c)
      BY <1>c, <1>p, <2>1, <2>2 DEF InHand, AtItem, Rested
    <3>2. ~Preparing
      BY <3>1 DEF Unshared
    <3>3. sup'.monitoring \/ sup'.monitoring = sup.monitoring
      BY <1>10, <3>2 DEF Rests, PrepareRead, PrepareLimit, Preparing
    <3> QED
      BY <1>s, <3>1, <3>3 DEF InHand
  <2>3. ASSUME (Check \/ CheckWrite) /\ Behind(sup, sup', sup.item) /\ sup'.monitoring = sup.monitoring
        PROVE  sup'.monitoring
    <3>1. sup.item \in DOMAIN turns /\ sup.pc \in AtItem
      BY <1>p, <2>3 DEF Check, CheckWrite, Placed, Between, Ending, AtItem
    <3>2. Range(sup'.pending) = Range(sup.pending) \cup {sup.item}
      BY <1>p, <2>3, <3>1, QueueAppended DEF Placed, Behind
    <3>3. InHand(c)
      BY <2>1, <3>1, <3>2 DEF InHand, AtItem
    <3> QED
      BY <1>s, <2>3, <3>3
  <2>4. CASE ~Outdated /\ sup'.monitoring = sup.monitoring
    BY <2>4 DEF Outdated
  <2> QED
    BY <1>10, <2>2, <2>3, <2>4 DEF Rests
<1> QED
  BY <1>1, <1>2, <1>3, <1>4, <1>5, <1>6, <1>7, <1>8, <1>9, <1>10, <1>p, NextWays DEF Ways

LEMMA ReplacedStays ==
  ASSUME Basis, Replaced, [Next]_vars, Tidy' PROVE Replaced'
<1>p. PlaceInv /\ Placed(turns, sup)
  BY DEF Basis, PlaceInv
<1>t. Orderly /\ "overtaken" \notin troubles
  BY TidyBefore
<1>f. stopped => stopped'
  BY <1>p, FlagsStay
<1>c. \A k \in DOMAIN turns : IsContinuation(k)' <=> IsContinuation(k)
  BY <1>p, LatestComes
<1>a. sup.active => sup.item \in DOMAIN turns
  BY <1>p DEF Placed
<1>s. ASSUME sup'.item = sup.item, sup'.active = sup.active, sup'.cancelled = sup.cancelled,
             sup'.pending = sup.pending, sup'.pc = "discard" => sup.pc = "discard" \/ sup.cancelled
      PROVE  Replaced'
  <2>1. sup.cancelled => sup.item \in DOMAIN turns
    BY <1>a, <1>p DEF Placed
  <2> QED
    BY <1>c, <1>f, <1>s, <2>1 DEF Replaced, HasPending
<1>1. CASE sup' = sup
  BY <1>1, <1>s
<1>2. CASE Announced
  <2>1. /\ sup'.item = sup.item /\ sup'.pending # <<>>
        /\ sup'.cancelled = (sup.cancelled \/ (sup.active /\ IsContinuation(sup.item)))
    BY <1>2, <1>t, AnnouncedSays DEF Stands
  <2>2. sup.cancelled => sup.active
    BY <1>p DEF Placed
  <2> QED
    BY <1>a, <1>c, <1>f, <2>1, <2>2 DEF Replaced, HasPending
<1>3. CASE StopSignal
  BY <1>3, <1>p, StopSays DEF Replaced
<1>4. CASE TakeInterrupted \/ TakePending
  BY <1>4, <1>p, <1>t, TakenSays, PendingSays DEF Replaced, Basis
<1>5. CASE Watches \/ Reads
  BY <1>5, <1>s DEF Watches, Reads, Went, Moved
<1>6. CASE Grows
  <2>1. /\ sup'.item = sup.item /\ sup'.active = sup.active /\ sup'.cancelled = sup.cancelled
        /\ sup'.pending = sup.pending /\ sup'.pc # "discard"
    <3>1. /\ sup'.pc \in {"prepared", "prepare"} /\ sup.item = 0 /\ sup'.item = 0
          /\ ~sup.active /\ ~sup'.active
          /\ sup'.cancelled = sup.cancelled /\ sup'.pending = sup.pending
      BY <1>6, <1>p, GrowsSays
    <3>2. sup.active \in BOOLEAN /\ sup'.active \in BOOLEAN
      BY <1>p, PlacesStay DEF PlaceInv, Placed
    <3> QED
      BY <3>1, <3>2
  <2> QED
    BY <1>s, <2>1
<1>7. CASE Goes
  BY <1>7, <1>s DEF Goes, Went, Moved, Cancelled
<1>8. CASE Ends
  BY <1>8, <1>s DEF Ends, Moved
<1>9. CASE Rests
  BY <1>9 DEF Rests, Rested, Behind, Replaced
<1> QED
  BY <1>1, <1>2, <1>3, <1>4, <1>5, <1>6, <1>7, <1>8, <1>9, <1>p, NextWays DEF Ways

LEMMA AloneInQueueStays ==
  ASSUME Basis, Continuing, [Next]_vars, Tidy' PROVE AloneInQueue'
<1>p. /\ PlaceInv /\ Placed(turns, sup) /\ Shaped(sup) /\ RoomInv /\ work \in BOOLEAN
      /\ Range(sup.pending) \subseteq DOMAIN turns
      /\ Latest \in Nat /\ DOMAIN turns = 1..Latest
  BY TurnsTyped DEF Basis, PlaceInv
<1>t. Orderly /\ "overtaken" \notin troubles /\ "late" \notin troubles'
  BY TidyBefore
<1>l. /\ Latest' \in {Latest, Latest + 1}
      /\ \A k \in DOMAIN turns : IsContinuation(k)' <=> IsContinuation(k)
  BY <1>p, LatestComes
<1> SUFFICES ASSUME NEW c \in Range(sup'.pending), IsContinuation(c)', c = Latest'
             PROVE  Range(sup'.pending) = {c} /\ ~sup'.active /\ ~work'
  BY DEF AloneInQueue
<1>o. ASSUME c \in DOMAIN turns PROVE c = Latest /\ Latest' = Latest /\ IsContinuation(c)
  BY <1>l, <1>o, <1>p
<1>w. ~sup.active => (work' => work)
  <2>1. sup.pc = "work" => sup.active
    BY <1>p DEF Placed, Between, Ending
  <2> QED
    BY <1>p, <1>t, <2>1, WorkFrom
<1>s. ASSUME c \in Range(sup.pending)
      PROVE  Range(sup.pending) = {c} /\ ~sup.active /\ ~work'
  <2>1. c = Latest /\ IsContinuation(c)
    BY <1>o, <1>p, <1>s
  <2> QED
    BY <1>s, <1>w, <2>1 DEF Continuing, AloneInQueue
<1>1. CASE sup' = sup
  BY <1>1, <1>s
<1>2. ~Announced
  <2> SUFFICES ASSUME Announced PROVE FALSE
    OBVIOUS
  <2>1. c \in DOMAIN turns /\ ~IsContinuation(c)
    BY <1>t, AnnouncedSays
  <2> QED
    BY <1>l, <2>1
<1>3. ~StopSignal
  BY <1>p, StopSays
<1>4. CASE TakeInterrupted
  <2>1. sup'.pending = sup.pending /\ ~sup'.active
    BY <1>4, <1>p, <1>t, TakenSays DEF Basis
  <2> QED
    BY <1>s, <2>1
<1>5. ~TakePending
  <2> SUFFICES ASSUME TakePending PROVE FALSE
    OBVIOUS
  <2>1. /\ Range(sup.pending) = Range(sup'.pending) \cup {sup'.item}
        /\ sup'.item \notin Range(sup'.pending)
    BY <1>p, PendingSays
  <2>2. Range(sup.pending) = {c}
    BY <1>s, <2>1
  <2> QED
    BY <2>1, <2>2
<1>6. CASE Watches \/ Reads \/ Goes \/ Ends
  <2>1. sup'.pending = sup.pending /\ sup'.active = sup.active
    BY <1>6 DEF Watches, Reads, Goes, Ends, Went, Moved
  <2> QED
    BY <1>s, <2>1
<1>7. ~Grows
  <2> SUFFICES ASSUME Grows PROVE FALSE
    OBVIOUS
  <2>1. sup'.pending = sup.pending /\ Latest' = Latest + 1
    BY <1>p, GrowsSays
  <2> QED
    BY <1>p, <2>1
<1>8. CASE Rests
  <2>1. CASE Rested(sup, sup')
    BY <1>s, <2>1 DEF Rested
  <2>2. ASSUME NEW k \in DOMAIN turns, Behind(sup, sup', k),
               c = k => Range(sup.pending) = {} /\ ~work',
               c \in Range(sup.pending) => c = k
        PROVE  Range(sup'.pending) = {c} /\ ~sup'.active /\ ~work'
    <3>1. sup'.pending = Append(sup.pending, k) /\ sup'.active = FALSE
      BY <2>2 DEF Behind
    <3>q. sup.pending \in Seq(DOMAIN turns) /\ k \in DOMAIN turns
      BY <1>p, <2>2 DEF Placed
    <3>2. Range(sup'.pending) = Range(sup.pending) \cup {k}
      BY ONLY <3>1, <3>q, QueueAppended
    <3>3. c = k
      BY <2>2, <3>2
    <3> QED
      BY <2>2, <3>1, <3>2, <3>3
  <2>e. Range(<<>>) = {}
    BY DEF Range
  <2>3. CASE (Check \/ CheckWrite) /\ Behind(sup, sup', sup.item)
    <3>1. sup.item \in DOMAIN turns /\ sup.pc \in {"check", "checkWrite"} /\ sup.active /\ work' = work
      BY <1>p, <2>3 DEF Check, CheckWrite, Placed, Between, Ending, store
    <3>2. c \notin Range(sup.pending)
      BY <1>s, <3>1
    <3>3. ASSUME c = sup.item PROVE Range(sup.pending) = {} /\ ~work'
      <4>1. c = Latest /\ IsContinuation(c)
        BY <1>o, <3>1, <3>3
      <4>2. sup.pending = <<>> /\ (sup.pc = "check" => ~work)
        BY <3>1, <3>3, <4>1 DEF Continuing, AloneAtItem, AtItem, HasPending
      <4>3. sup.pc = "checkWrite" => ~work
        BY <3>3, <4>1 DEF Continuing, AtRest, Answer
      <4> QED
        BY <2>e, <3>1, <4>2, <4>3
    <3> QED
      BY <2>2, <2>3, <3>1, <3>2, <3>3
  <2>4. CASE UsePrepared /\ Behind(sup, sup', sup.made) /\ ~Outdated
    <3>1. sup.pc = "prepared" /\ sup.made # 0 /\ sup.made \in DOMAIN turns /\ work' = work
      BY <1>p, <2>4 DEF UsePrepared, Placed
    <3>2. sup.pending = <<>> /\ ~work
      BY <2>4, <3>1 DEF Continuing, Unshared, AtRest, Outdated, Preparing
    <3> QED
      BY <2>2, <2>4, <2>e, <3>1, <3>2
  <2> QED
    BY <1>8, <2>1, <2>3, <2>4 DEF Rests
<1> QED
  BY <1>1, <1>2, <1>3, <1>4, <1>5, <1>6, <1>7, <1>8, <1>p, NextWays DEF Ways

LEMMA AloneAtItemStays ==
  ASSUME Basis, Continuing, [Next]_vars, Tidy' PROVE AloneAtItem'
<1>p. /\ PlaceInv /\ Placed(turns, sup)
      /\ Range(sup.pending) \subseteq DOMAIN turns
      /\ Latest \in Nat /\ DOMAIN turns = 1..Latest
  BY TurnsTyped DEF Basis
<1>t. Orderly /\ "overtaken" \notin troubles /\ "late" \notin troubles'
  BY TidyBefore
<1>l. /\ Latest' \in {Latest, Latest + 1}
      /\ \A k \in DOMAIN turns : IsContinuation(k)' <=> IsContinuation(k)
  BY <1>p, LatestComes
<1> SUFFICES ASSUME sup'.pc \in AtItem, IsContinuation(sup.item)', sup'.item = Latest'
             PROVE  sup'.pending = <<>> /\ (sup'.pc = "check" => ~work')
  BY DEF AloneAtItem, HasPending
<1>o. ASSUME sup'.item \in DOMAIN turns
      PROVE  sup'.item = Latest /\ Latest' = Latest /\ IsContinuation(sup'.item)
  <2>1. Latest' \in DOMAIN turns
    BY <1>o
  <2>2. Latest' = Latest
    BY <1>l, <1>p, <2>1
  <2>3. \A k \in DOMAIN turns : k = sup'.item => IsContinuation(k)
    BY <1>l DEF IsContinuation
  <2> QED
    BY <1>o, <2>2, <2>3
<1>i. sup.pc \in AtItem => sup.item \in DOMAIN turns
  BY <1>p DEF Placed, Between, Ending, AtItem
<1>w. sup.pc # "work" => (work' => work)
  BY <1>p, <1>t, WorkFrom
<1>s. ASSUME sup.pc \in AtItem, sup'.item = sup.item
      PROVE  sup.pending = <<>> /\ (sup.pc = "check" => ~work')
  <2>1. sup.item = Latest /\ IsContinuation(sup.item)
    BY <1>i, <1>o, <1>s
  <2> QED
    BY <1>s, <1>w, <2>1 DEF Continuing, AloneAtItem, HasPending
<1>1. CASE sup' = sup
  BY <1>1, <1>s
<1>2. ~Announced
  <2> SUFFICES ASSUME Announced PROVE FALSE
    OBVIOUS
  <2>1. /\ sup'.pc = sup.pc /\ sup'.item = sup.item
        /\ \A k \in DOMAIN turns : ~Unsent(k) => k < Latest
    BY <1>t, AnnouncedSays DEF Stands
  <2>2. sup.item \in DOMAIN turns /\ ~Unsent(sup.item) /\ sup.item = Latest
    BY <1>i, <1>o, <2>1 DEF Basis, Heard, Held
  <2> QED
    BY <1>p, <2>1, <2>2
<1>3. CASE StopSignal
  <2>1. sup'.pc = sup.pc /\ sup'.item = sup.item /\ sup'.pending = <<>>
    BY <1>3, <1>p, StopSays DEF Stands
  <2> QED
    BY <1>s, <2>1
<1>4. ~TakeInterrupted /\ ~Grows
  BY <1>p, <1>t, TakenSays, GrowsSays DEF Basis, AtItem
<1>5. CASE TakePending
  <2>1. /\ Range(sup.pending) = Range(sup'.pending) \cup {sup'.item}
        /\ sup'.item \notin Range(sup'.pending) /\ sup'.pending \in Seq(DOMAIN turns)
        /\ sup'.item \in DOMAIN turns /\ work' = work
    BY <1>5, <1>p, PendingSays
  <2>2. sup'.item \in Range(sup.pending) /\ sup'.item = Latest /\ IsContinuation(sup'.item)
    BY <1>o, <2>1
  <2>3. Range(sup.pending) = {sup'.item} /\ ~work
    BY <2>2 DEF Continuing, AloneInQueue
  <2>4. Range(sup'.pending) = {}
    BY <2>1, <2>3
  <2> QED
    BY <2>1, <2>3, <2>4, QueueEmpty
<1>6. ~Watches /\ ~Reads /\ ~Ends /\ ~Rests
  BY DEF Watches, Reads, Ends, Rests, Rested, Behind, Went, AtItem
<1>7. CASE Goes
  <2>1. sup'.pending = sup.pending /\ sup'.item = sup.item
    BY <1>7 DEF Goes, Went, Moved
  <2>2. sup.pc \in AtItem /\ sup'.pc # "check"
    BY <1>7 DEF Goes, Went, AtItem, Check, CheckWrite, BeginWork, WorkUnanswered, WorkRetried
  <2> QED
    BY <1>s, <2>1, <2>2
<1> QED
  BY <1>1, <1>2, <1>3, <1>4, <1>5, <1>6, <1>7, <1>p, NextWays DEF Ways

(* An answer that is on record stays there while the workflow stands. *)
LEMMA AnswerStands ==
  ASSUME PlaceInv, [Next]_vars, "late" \notin troubles', Answer,
         sup'.pc = sup.pc, sup'.item = sup.item
  PROVE  Answer'
<1>1. sup.item \in DOMAIN turns /\ sup.pc = "begin"
  BY TurnsTyped DEF Answer, Placed, Between, Ending
<1>2. RunStays(sup.item)
  BY <1>1, RunsStand
<1> QED
  BY <1>1, <1>2 DEF Answer, RunStays, Recorded

(* A turn that leaves its actions without an answer has left them on record. *)
LEMMA AnswerLeft ==
  ASSUME PlaceInv, [Next]_vars, mission.status \in Active, WorkUnanswered("WORKING") PROVE Answer'
<1>1. /\ turns' = [turns EXCEPT ![sup.item].run = "COMPLETED", ![sup.item].outcome = "WORKING"]
      /\ Step("begin") /\ sup.pc = "work"
  BY DEF WorkUnanswered, Leaves
<1>2. Shaped(sup) /\ sup.item \in DOMAIN turns /\ turns[sup.item] \in Turns
  BY <1>1, TurnsTyped DEF Placed, Between, Ending
<1>3. sup'.pc = "begin" /\ sup'.item = sup.item
  BY <1>1, <1>2, StepMoves DEF Moved
<1>4. turns'[sup.item].run = "COMPLETED" /\ turns'[sup.item].outcome = "WORKING"
  BY <1>1, <1>2 DEF Turns
<1> QED
  BY <1>3, <1>4 DEF Answer, Recorded

(* Where the steps of a turn lead. *)
Working == {"checkWrite", "begin", "work"}

LEMMA GoesSays ==
  ASSUME Placed(turns, sup), Goes, sup'.pc \in Working
  PROVE  /\ sup'.item = sup.item /\ sup'.pending = sup.pending /\ sup'.made = sup.made
         /\ sup'.monitoring = sup.monitoring /\ sup.item \in DOMAIN turns
         /\ \/ Check /\ MayRun(sup.item)
            \/ CheckWrite /\ sup'.pc = "begin"
            \/ BeginWork /\ sup'.pc = "work"
            \/ (\E result \in Results : WorkUnanswered(result)) /\ sup'.pc = "begin"
            \/ (\E alive \in BOOLEAN : WorkRetried(alive)) /\ sup'.pc = "begin"
<1>1. sup'.item = sup.item /\ sup'.pending = sup.pending /\ sup'.made = sup.made
      /\ sup'.monitoring = sup.monitoring
  BY DEF Goes, Went, Moved
<1>2. \/ Check /\ MayRun(sup.item)
      \/ CheckWrite /\ sup'.pc = "begin"
      \/ BeginWork /\ sup'.pc = "work"
      \/ (\E result \in Results : WorkUnanswered(result)) /\ sup'.pc = "begin"
      \/ (\E alive \in BOOLEAN : WorkRetried(alive)) /\ sup'.pc = "begin"
  BY DEF Goes, Went, Working
<1>3. sup.pc \in AtItem
  BY <1>2 DEF Check, CheckWrite, BeginWork, WorkUnanswered, WorkRetried, AtItem
<1>4. sup.item \in DOMAIN turns
  BY <1>3 DEF Placed, Between, Ending, AtItem
<1> QED
  BY <1>1, <1>2, <1>4

(* A continuation that is at work leaves no actions but with its outcome. *)
LEMMA AnsweredStays ==
  ASSUME Basis, Continuing, [Next]_vars, Tidy',
         sup'.pc \in Working, IsContinuation(sup.item)', work'
  PROVE  Answer'
<1>p. /\ PlaceInv /\ Placed(turns, sup) /\ Shaped(sup)
  BY TurnsTyped DEF Basis
<1>t. Orderly /\ "overtaken" \notin troubles /\ "late" \notin troubles'
  BY TidyBefore
<1>c. sup'.item \in DOMAIN turns => IsContinuation(sup'.item)
  <2>1. \A k \in DOMAIN turns : k = sup'.item => IsContinuation(k)
    BY <1>p, LatestComes DEF IsContinuation
  <2> QED
    BY <2>1
<1>w. sup.pc # "work" => (work' => work)
  BY <1>p, <1>t, WorkFrom
<1>1. CASE sup'.pc = sup.pc /\ sup'.item = sup.item
  <2>1. sup.item \in DOMAIN turns /\ work
    BY <1>1, <1>p, <1>t, RunsStand DEF Working, Placed, Between, Ending
  <2>2. Answer
    BY <1>1, <1>c, <2>1 DEF Continuing, AtRest, Working
  <2> QED
    BY <1>1, <1>p, <1>t, <2>2, AnswerStands
<1>2. CASE Announced \/ StopSignal
  BY <1>1, <1>2, <1>p, <1>t, AnnouncedSays, StopSays DEF Stands
<1>3. ~TakeInterrupted /\ ~TakePending /\ ~Grows
  BY <1>p, <1>t, TakenSays, PendingSays, GrowsSays DEF Basis, Working
<1>4. ~Watches /\ ~Reads /\ ~Ends /\ ~Rests
  BY DEF Watches, Reads, Ends, Rests, Rested, Behind, Went, Working
<1>5. CASE Goes
  <2>1. /\ sup'.item = sup.item /\ sup.item \in DOMAIN turns /\ IsContinuation(sup.item)
        /\ \/ Check /\ MayRun(sup.item)
           \/ CheckWrite /\ sup'.pc = "begin"
           \/ BeginWork /\ sup'.pc = "work"
           \/ (\E result \in Results : WorkUnanswered(result)) /\ sup'.pc = "begin"
           \/ (\E alive \in BOOLEAN : WorkRetried(alive)) /\ sup'.pc = "begin"
    BY <1>5, <1>c, <1>p, GoesSays
  <2>2. ~(Check /\ MayRun(sup.item))
    <3> SUFFICES ASSUME Check, MayRun(sup.item) PROVE FALSE
      OBVIOUS
    <3>1. sup.item = Latest /\ sup.pc = "check" /\ work
      BY <1>w, <2>1 DEF MayRun, Check
    <3> QED
      BY <2>1, <3>1 DEF Continuing, AloneAtItem, AtItem
  <2>3. ~CheckWrite /\ ~BeginWork
    <3> SUFFICES ASSUME CheckWrite \/ BeginWork PROVE FALSE
      OBVIOUS
    <3>1. sup.pc \in Working /\ work /\ ~Answer
      BY <1>w DEF CheckWrite, BeginWork, MayBegin, Answer, Working
    <3> QED
      BY <2>1, <3>1 DEF Continuing, AtRest, Working
  <2>4. sup.pc = "work"
    BY <2>1, <2>2, <2>3 DEF WorkUnanswered, WorkRetried
  <2>5. ~work
    BY <2>1, <2>4 DEF Continuing, AtRest, Answer
  <2>6. mission.status \in Active /\ WorkStarts("WORKING")
    BY <1>p, <1>t, <2>5, WorkFrom
  <2>7. ~WorkEnds("WORKING")
    BY <1>p, ResultedShape DEF WorkEnds, Working
  <2> QED
    BY <1>p, <2>6, <2>7, AnswerLeft DEF WorkStarts
<1> QED
  BY <1>1, <1>2, <1>3, <1>4, <1>5, <1>p, NextWays DEF Ways

LEMMA PreparedAtRest ==
  ASSUME Basis, Continuing, [Next]_vars, Tidy', sup'.pc = "prepareWrite" \/ sup'.made # 0
  PROVE  ~work'
<1>p. /\ PlaceInv /\ Placed(turns, sup) /\ Shaped(sup) /\ mission \in Missions
      /\ \A n \in DOMAIN turns : turns[n] \in Turns
      /\ Latest \in Nat /\ DOMAIN turns = 1..Latest /\ RoomInv
  BY TurnsTyped DEF Basis
<1>t. Orderly /\ "overtaken" \notin troubles /\ "late" \notin troubles'
  BY TidyBefore
<1>w. sup.pc # "work" => (work' => work)
  BY <1>p, <1>t, WorkFrom
<1>s. ASSUME sup.pc = "prepareWrite" \/ sup.made # 0 PROVE ~work'
  <2>1. sup.pc # "work"
    BY <1>p, <1>s DEF Placed
  <2> QED
    BY <1>s, <1>w, <2>1 DEF Continuing, AtRest
<1>1. CASE sup' = sup \/ Announced \/ StopSignal
  BY <1>1, <1>p, <1>s, <1>t, AnnouncedSays, StopSays DEF Stands
<1>2. ~TakeInterrupted /\ ~TakePending
  BY <1>p, <1>t, TakenSays, PendingSays DEF Basis
<1>3. CASE Grows
  BY <1>3, <1>p, <1>s, GrowsSays
<1>4. ~Rests
  BY DEF Rests, Rested, Behind
<1>5. CASE Watches \/ Goes \/ Ends
  BY <1>5, <1>s DEF Watches, Goes, Ends, Went, Moved
<1>6. CASE Reads
  <2>1. CASE sup.made # 0
    BY <1>s, <2>1
  <2>2. CASE sup.made = 0 /\ ~PrepareDone /\ ~PrepareWaits
    <3>1. mission.status \in Active /\ mission.status # "PAUSED" /\ sup.pc = "prepare" /\ work' = work
      BY <1>6, <2>2 DEF PrepareDone, PrepareWaits, Reads, PrepareRead, store
    <3>2. turns[Latest].run \notin Unfinished \cup {"FAILED", "INTERRUPTED"}
      BY <2>2, <3>1 DEF PrepareDone, PrepareWaits
    <3>3. Latest # 0
      BY <1>p, <3>1 DEF RoomInv, Active, Latest
    <3>4. turns[Latest] \in Turns
      BY <1>p, <3>3
    <3>5. turns[Latest].run = "COMPLETED"
      BY <3>2, <3>4 DEF Turns, Ended
    <3> QED
      BY <2>2, <3>1, <3>5 DEF PrepareWaits
  <2> QED
    BY <1>6, <2>1, <2>2 DEF Reads
<1> QED
  BY <1>1, <1>2, <1>3, <1>4, <1>5, <1>6, <1>p, NextWays DEF Ways

LEMMA AtRestStays ==
  ASSUME Basis, Continuing, [Next]_vars, Tidy' PROVE AtRest'
BY AnsweredStays, PreparedAtRest DEF AtRest, Working

LEMMA ContinuingStays ==
  ASSUME Basis, Continuing, [Next]_vars, Tidy' PROVE Continuing'
BY UnsharedStays, FollowedStays, ReplacedStays, AloneInQueueStays, AloneAtItemStays, AtRestStays
   DEF Continuing

-----------------------------------------------------------------------------
(* A mission completes after the actions of its turns                             *)

(* Actions are at work for a mission only. *)
NoWork == mission.status = "NONE" => ~work

(* A turn that nothing begins again has failed. *)
GoneFailed == \E n \in DOMAIN turns : turns[n].run = "FAILED" /\ ~(sup.item = n /\ sup.pc \in Working)

Watched == work /\ mission.status \in Active => sup.monitoring \/ Answer \/ GoneFailed

(* What completes a mission has ended its monitoring. *)
Unmonitored == sup.pc \in {"finish", "finishWrite"} /\ sup.verdict = "COMPLETED" => ~sup.monitoring

HeldBack == mission.done = "COMPLETED" /\ mission.status \in Active /\ work => GoneFailed

Watching == NoWork /\ Watched /\ Unmonitored /\ HeldBack

LEMMA NoWorkStays ==
  ASSUME RoomInv, NoWork, [Next]_vars, "late" \notin troubles' PROVE NoWork'
<1> SUFFICES ASSUME mission'.status = "NONE", work' PROVE FALSE
  BY DEF NoWork
<1>1. mission' = mission
  BY StatusComes
<1>2. ~work
  BY <1>1 DEF NoWork
<1> QED
  BY <1>1, <1>2, WorkFrom DEF Active

LEMMA GoneFailedStays ==
  ASSUME PlaceInv, GoneFailed, [Next]_vars, Tidy' PROVE GoneFailed'
<1>p. /\ Placed(turns, sup) /\ RoomInv /\ \A k \in DOMAIN turns : turns[k] \in Turns
  BY TurnsTyped
<1>t. "late" \notin troubles' /\ Orderly /\ "overtaken" \notin troubles
  BY TidyBefore
<1>1. PICK n \in DOMAIN turns : turns[n].run = "FAILED" /\ ~(sup.item = n /\ sup.pc \in Working)
  BY DEF GoneFailed
<1>d. ASSUME NEW k, NEW status, turns' = DiscardedRun(k, status)
      PROVE  turns'[n].run = "FAILED"
  BY <1>1, <1>d DEF DiscardedRun, Unfinished
<1>2. Skip \/ RefuseWork \/ Discard \/ UsePrepared => turns'[n].run = "FAILED"
  BY <1>1, <1>d DEF Skip, RefuseWork, Discard, UsePrepared
<1>3. n = sup.item => ~BeginWork /\ \A result : ~WorkEnds(result) /\ ~WorkUnanswered(result)
  BY <1>1 DEF BeginWork, WorkEnds, WorkUnanswered, Working
<1>4. turns'[n].run = "FAILED"
  BY <1>1, <1>2, <1>3, <1>p, <1>t, TurnTouched DEF Touched
<1>5. ASSUME sup'.item = n, sup'.pc \in Working PROVE FALSE
  <2>1. CASE sup'.pc = sup.pc /\ sup'.item = sup.item
    BY <1>1, <1>5, <2>1
  <2>2. ~Announced
    <3> SUFFICES ASSUME Announced PROVE FALSE
      OBVIOUS
    <3>1. PICK k \in DOMAIN turns : ~Known(k) /\ sup' = Enqueued(k)
      BY DEF Announced
    <3>2. Enqueued(k).pc = sup.pc /\ Enqueued(k).item = sup.item
      BY <1>p, <3>1, EnqueuedMoves, TurnsTyped
    <3> QED
      BY <2>1, <3>1, <3>2
  <2>3. ~StopSignal
    BY <2>1, StopSays DEF Stands
  <2>4. ~TakePending /\ ~Grows
    BY <1>5, PendingSays, GrowsSays DEF Working
  <2>5. ~TakeInterrupted
    <3>1. TakeInterrupted => sup'.pc = "discard"
      BY TurnsTyped DEF TakeInterrupted, Shaped
    <3> QED
      BY <1>5, <3>1 DEF Working
  <2>6. ~Watches /\ ~Reads /\ ~Ends /\ ~Rests
    BY <1>5 DEF Watches, Reads, Ends, Rests, Rested, Behind, Went, Working
  <2>7. CASE Goes
    <3>1. /\ sup'.item = sup.item
          /\ (Check /\ MayRun(sup.item)) \/ sup.pc \in Working
      BY <1>5, <1>p, <2>7, GoesSays DEF CheckWrite, BeginWork, WorkUnanswered, WorkRetried, Working
    <3> QED
      BY <1>1, <1>5, <3>1 DEF MayRun, Recorded, Unfinished
  <2> QED
    BY <2>1, <2>2, <2>3, <2>4, <2>5, <2>6, <2>7, NextWays DEF Ways
<1>6. n \in DOMAIN turns'
  BY LatestComes
<1> QED
  BY <1>4, <1>5, <1>6 DEF GoneFailed

(* A result that ends the monitoring of a mission leaves no actions at work,     *)
(* or a turn that has failed.                                                     *)
LEMMA EndsAtRest ==
  ASSUME Basis, Continuing, [Next]_vars, Tidy', Ends, work, sup.monitoring, mission.status \in Active
  PROVE  GoneFailed'
<1>p. /\ PlaceInv /\ Placed(turns, sup) /\ \A k \in DOMAIN turns : turns[k] \in Turns
  BY TurnsTyped DEF Basis
<1>0. ~stopped
  BY DEF Basis, StopEnds, Active, Ended
<1>1. ~(AnswerRecorded /\ EndsWith(turns[sup.item].outcome))
  <2> SUFFICES ASSUME AnswerRecorded, EndsWith(turns[sup.item].outcome) PROVE FALSE
    OBVIOUS
  <2>1. sup.pc = "begin" /\ Recorded(sup.item) /\ turns[sup.item].outcome # "WORKING"
    BY DEF AnswerRecorded, EndsWith
  <2>2. turns[sup.item].outcome = "VERIFIED"
    <3>1. turns[sup.item] \in Turns
      BY <1>p, <2>1 DEF Placed, Between, Ending
    <3> QED
      BY <2>1, <3>1 DEF Recorded, Turns
  <2>3. IsContinuation(sup.item)
    BY <2>2 DEF EndsWith
  <2> QED
    BY <2>1, <2>3 DEF Continuing, AtRest, Answer
<1>2. ~RefuseWork
  BY DEF RefuseWork, Continuing, AtRest, Answer
<1>3. ASSUME NEW result \in Results, WorkEnds(result), EndsWith(result) PROVE GoneFailed'
  <2>1. sup.pc = "work" /\ sup'.pc = "finish" /\ sup.item \in DOMAIN turns
    BY <1>3, <1>p DEF WorkEnds, Ends, Placed, Between, Ending
  <2>2. result # "VERIFIED"
    BY <1>3, <2>1 DEF EndsWith, Continuing, AtRest, Answer
  <2>3. result = "UNVERIFIED"
    BY <1>3, <2>2 DEF EndsWith, Results
  <2>4. turns'[sup.item].run = "FAILED"
    BY <1>3, <1>p, <2>1, <2>3 DEF WorkEnds, Leaves, Turns
  <2>5. sup.item \in DOMAIN turns'
    BY <1>p, <2>1, LatestComes
  <2> QED
    BY <2>1, <2>4, <2>5 DEF GoneFailed, Working
<1>4. ~(Discard /\ sup.active)
  BY <1>0 DEF Discard, Continuing, Replaced, Ends
<1> QED
  BY <1>1, <1>2, <1>3, <1>4 DEF Ends

(* The monitoring ends with a mission, or over a turn that has failed. *)
LEMMA DoneAtRest ==
  ASSUME Basis, Withdrawn, Continuing, [Next]_vars, Tidy', Rests, work, sup.monitoring, ~sup'.monitoring,
         mission.status \in Active
  PROVE  GoneFailed
<1>p. /\ PlaceInv /\ Placed(turns, sup) /\ Latest \in Nat /\ DOMAIN turns = 1..Latest /\ RoomInv
  BY TurnsTyped DEF Basis
<1>0. ~stopped /\ mission.status \notin Ended
  BY DEF Basis, StopEnds, Active, Ended
<1>1. Latest \in DOMAIN turns
  BY <1>p DEF RoomInv, Active, Latest
<1>2. CASE PrepareRead /\ PrepareDone
  <2>1. sup.pc = "prepare" /\ turns[Latest].run \in {"FAILED", "INTERRUPTED"}
    BY <1>2 DEF PrepareRead, PrepareDone
  <2>2. turns[Latest].run # "INTERRUPTED"
    BY <1>0, <1>1, <1>p DEF Withdrawn, Interrupted, Over
  <2> QED
    BY <1>1, <2>1, <2>2 DEF GoneFailed, Working
<1>3. ASSUME NEW spent \in BOOLEAN, PrepareLimit(spent) PROVE FALSE
  BY <1>3 DEF PrepareLimit, Continuing, AtRest
<1>4. sup'.monitoring # sup.monitoring
  OBVIOUS
<1> QED
  BY <1>2, <1>3, <1>4 DEF Rests

(* The actions of a turn are watched from the moment they are left. *)
LEMMA WatchedFrom ==
  ASSUME PlaceInv, [Next]_vars, Tidy', work', ~work PROVE sup'.monitoring \/ Answer'
<1>p. Shaped(sup) /\ "late" \notin troubles'
  BY TurnsTyped, TidyBefore
<1>1. mission.status \in Active /\ WorkStarts("WORKING")
  BY <1>p, WorkFrom
<1>2. WorkEnds("WORKING") => sup'.monitoring
  BY <1>p, ResultedMonitored DEF WorkEnds
<1> QED
  BY <1>1, <1>2, AnswerLeft DEF WorkStarts

(* A lost answer is given again, or a signal has made it needless. *)
LEMMA AnswerWatched ==
  ASSUME Basis, Continuing, [Next]_vars, Tidy', Answer, mission.status \in Active, ~StopSignal
  PROVE  sup'.monitoring \/ Answer'
<1>p. /\ PlaceInv /\ Placed(turns, sup) /\ Shaped(sup) /\ sup.pc = "begin" /\ Recorded(sup.item)
      /\ turns[sup.item].outcome = "WORKING"
  BY TurnsTyped DEF Basis, Answer
<1>t. Orderly /\ "overtaken" \notin troubles /\ "late" \notin troubles'
  BY TidyBefore
<1>0. ~stopped
  BY DEF Basis, StopEnds, Active, Ended
<1>1. CASE sup' = sup \/ Announced
  <2>1. sup'.pc = sup.pc /\ sup'.item = sup.item
    BY <1>1, <1>t, AnnouncedSays DEF Stands
  <2> QED
    BY <1>p, <1>t, <2>1, AnswerStands
<1>2. ~TakeInterrupted /\ ~TakePending /\ ~Grows /\ ~Watches /\ ~Reads
  BY <1>p, <1>t, TakenSays, PendingSays, GrowsSays DEF Basis, Watches, Watch, Reads, PrepareRead
<1>3. ~RefuseWork /\ ~BeginWork
  BY <1>p DEF RefuseWork, BeginWork, MayBegin
<1>4. CASE Goes
  <2>1. Cancelled /\ sup'.monitoring = sup.monitoring
    BY <1>3, <1>4, <1>p DEF Goes, Went, Check, CheckWrite, WorkUnanswered, WorkRetried, Discard,
       FinishRead, FinishRepeats
  <2>2. sup.item \in DOMAIN turns /\ IsContinuation(sup.item)
    BY <1>0, <1>p, <2>1 DEF Cancelled, Continuing, Replaced, Placed, Between, Ending
  <2>3. InHand(sup.item)
    BY <1>p DEF InHand, AtItem
  <2> QED
    BY <1>0, <2>1, <2>2, <2>3 DEF Continuing, Followed
<1>5. AnswerRecorded => sup'.monitoring
  BY <1>p, ResultedMonitored DEF AnswerRecorded
<1>6. CASE Ends \/ Rests
  BY <1>3, <1>5, <1>6, <1>p DEF Ends, Rests, EndsWith, WorkEnds, Discard
<1> QED
  BY <1>1, <1>2, <1>4, <1>6, <1>p, NextWays DEF Ways

LEMMA StaysMonitored ==
  ASSUME Basis, Withdrawn, Continuing, [Next]_vars, Tidy', work, sup.monitoring,
         mission.status \in Active, ~StopSignal
  PROVE  sup'.monitoring \/ GoneFailed'
<1>p. PlaceInv
  BY DEF Basis
<1>t. Orderly /\ "overtaken" \notin troubles
  BY TidyBefore
<1>1. CASE sup' = sup \/ Announced \/ TakeInterrupted \/ TakePending \/ Grows
  <2>1. sup'.monitoring = sup.monitoring
    BY <1>1, <1>p, <1>t, AnnouncedSays, TakenSays, PendingSays, GrowsSays DEF Basis
  <2> QED
    BY <2>1
<1>2. CASE Watches \/ Goes \/ Reads
  BY <1>2 DEF Watches, Goes, Reads, Went
<1>3. CASE Ends
  BY <1>3, EndsAtRest
<1>4. CASE Rests /\ ~sup'.monitoring
  BY <1>4, <1>p, DoneAtRest, GoneFailedStays
<1> QED
  BY <1>1, <1>2, <1>3, <1>4, <1>p, NextWays DEF Ways

LEMMA WatchedStays ==
  ASSUME Basis, Withdrawn, Continuing, NoWork, Watched, [Next]_vars, Tidy' PROVE Watched'
<1> SUFFICES ASSUME work', mission'.status \in Active
             PROVE  sup'.monitoring \/ Answer' \/ GoneFailed'
  BY DEF Watched
<1>p. PlaceInv /\ mission \in Missions /\ RoomInv
  BY TurnsTyped DEF Basis
<1>1. CASE ~work
  BY <1>1, <1>p, WatchedFrom
<1>2. CASE work
  <2>1. mission.status \notin Ended
    BY <1>p, EndedMission DEF Active, Ended
  <2>2. mission.status \in Active
    BY <1>2, <1>p, <2>1 DEF NoWork, Missions
  <2>3. ~StopSignal
    BY <2>1 DEF StopSignal, Basis, StopEnds
  <2>4. sup.monitoring \/ Answer \/ GoneFailed
    BY <1>2, <2>2 DEF Watched
  <2> QED
    BY <1>2, <1>p, <2>2, <2>3, <2>4, StaysMonitored, AnswerWatched, GoneFailedStays
<1> QED
  BY <1>1, <1>2

LEMMA UnmonitoredStays ==
  ASSUME Basis, Discarding, Unmonitored, [Next]_vars, Tidy' PROVE Unmonitored'
<1> SUFFICES ASSUME sup'.pc \in {"finish", "finishWrite"}, sup'.verdict = "COMPLETED"
             PROVE  ~sup'.monitoring
  BY DEF Unmonitored
<1>p. PlaceInv
  BY DEF Basis
<1>t. Orderly /\ "overtaken" \notin troubles
  BY TidyBefore
<1>s. ASSUME sup.pc \in {"finish", "finishWrite"}, sup'.verdict = sup.verdict,
             sup'.monitoring = sup.monitoring
      PROVE  ~sup'.monitoring
  BY <1>s DEF Unmonitored
<1>1. CASE sup' = sup \/ Announced
  <2>1. sup'.pc = sup.pc /\ sup'.verdict = sup.verdict /\ sup'.monitoring = sup.monitoring
    BY <1>1, <1>t, AnnouncedSays DEF Stands
  <2> QED
    BY <1>s, <2>1
<1>2. CASE StopSignal
  BY <1>2, <1>p, StopSays
<1>3. ~TakeInterrupted /\ ~TakePending /\ ~Grows
  BY <1>p, <1>t, TakenSays, PendingSays, GrowsSays DEF Basis
<1>4. ~Watches /\ ~Reads /\ ~Rests
  BY DEF Watches, Reads, Rests, Rested, Behind, Went
<1>5. CASE Goes
  <2>1. ~Discard \/ sup'.verdict # sup.verdict
    BY DEF Discard, Discarding
  <2>2. /\ FinishRead \/ FinishRepeats
        /\ sup'.verdict = sup.verdict /\ sup'.monitoring = sup.monitoring
    BY <1>5, <2>1 DEF Goes, Went
  <2> QED
    BY <1>s, <2>2 DEF FinishRead, FinishRepeats
<1>6. CASE Ends
  BY <1>6 DEF Ends
<1> QED
  BY <1>1, <1>2, <1>3, <1>4, <1>5, <1>6, <1>p, NextWays DEF Ways

(* What is written at the end of a turn, over a mission that is still active. *)
LEMMA FinishSays ==
  ASSUME PlaceInv, FinishWrite \/ FinishRepeats, mission' # mission
  PROVE  /\ sup.pc = "finishWrite" /\ mission.status \in Active
         /\ mission'.done = sup.verdict \/ mission'.done = mission.done
         /\ mission'.status = sup.verdict \/ mission'.status = mission.status
<1>1. mission \in Missions
  BY TurnsTyped
<1>2. sup.pc = "finishWrite" /\ mission.status = sup.seen.status
  BY DEF FinishWrite, FinishRepeats, FinishWrites
<1>3. mission.status \in Active
  BY <1>2 DEF PlaceInv, RoomInv, Sound
<1> QED
  BY <1>1, <1>2, <1>3 DEF FinishWrite, FinishRepeats, FinishWrites, Missions

(* A completion is written over a mission without actions, or with a turn that  *)
(* has failed.                                                                    *)
LEMMA CompletedOver ==
  ASSUME Watched, Unmonitored, sup.pc = "finishWrite", sup.verdict = "COMPLETED",
         mission.status \in Active, work
  PROVE  GoneFailed
BY DEF Watched, Unmonitored, Answer

LEMMA HeldBackStays ==
  ASSUME Basis, Watching, [Next]_vars, Tidy' PROVE HeldBack'
<1> SUFFICES ASSUME mission'.done = "COMPLETED", mission'.status \in Active, work' PROVE GoneFailed'
  BY DEF HeldBack
<1>p. /\ PlaceInv /\ mission \in Missions /\ RoomInv /\ Placed(turns, sup)
  BY TurnsTyped DEF Basis
<1>t. "late" \notin troubles'
  BY TidyBefore
<1>a. mission.status \notin Ended
  BY <1>p, EndedMission DEF Active, Ended
<1>1. CASE mission'.done = mission.done
  <2>1. mission.status \in Active
    BY <1>1, <1>a, <1>p DEF Basis, Decided, Missions
  <2>2. sup.pc # "work"
    BY <1>1, <2>1 DEF Basis, Decided
  <2>3. work
    BY <1>t, <2>2, WorkFrom
  <2>4. GoneFailed
    BY <1>1, <2>1, <2>3 DEF Watching, HeldBack
  <2> QED
    BY <1>p, <2>4, GoneFailedStays
<1>2. CASE mission'.done # mission.done
  <2>1. ~Request /\ ~Pause /\ ~Stop /\ ~CheckWrite /\ ~BeginWork
    BY <1>2, <1>p DEF Request, Pause, Stop, CheckWrite, BeginWork, Missions
  <2>2. ~Resume /\ ~Continues
    <3>1. Continues => mission' = [mission EXCEPT !.done = "NONE"]
      BY DEF Continues, Prepare, MayContinue
    <3>2. Continues => mission'.done = "NONE"
      BY <1>p, <3>1 DEF Missions
    <3>3. Resume => mission'.done = "NONE"
      BY DEF Resume
    <3> QED
      BY <3>2, <3>3
  <2>3. \A spent \in BOOLEAN : ~PrepareLimit(spent)
    BY <1>2, <1>p DEF PrepareLimit, Missions
  <2>4. (FinishWrite \/ FinishRepeats) /\ mission' # mission
    BY <1>2, <2>1, <2>2, <2>3, MissionMoves
  <2>5. sup.pc = "finishWrite" /\ sup.verdict = "COMPLETED" /\ mission.status \in Active
    BY <1>2, <1>p, <2>4, FinishSays
  <2>6. work
    BY <1>t, <2>5, WorkFrom
  <2>7. GoneFailed
    BY <2>5, <2>6, CompletedOver DEF Watching
  <2> QED
    BY <1>p, <2>7, GoneFailedStays
<1> QED
  BY <1>1, <1>2

LEMMA WatchingStays ==
  ASSUME Basis, Withdrawn, Continuing, Watching, [Next]_vars, Tidy' PROVE Watching'
<1>1. PlaceInv /\ RoomInv /\ "late" \notin troubles'
  BY TidyBefore DEF Basis, PlaceInv
<1>2. NoWork'
  BY <1>1, NoWorkStays DEF Watching
<1> QED
  BY <1>2, WatchedStays, UnmonitoredStays, HeldBackStays DEF Watching, Withdrawn

LEMMA CompletesOver ==
  ASSUME PlaceInv, Watching, [Next]_vars, mission.status \in Active, mission'.status = "COMPLETED", work
  PROVE  GoneFailed
<1>p. mission \in Missions
  BY TurnsTyped
<1>1. ~Request /\ ~Pause /\ ~Stop /\ ~CheckWrite /\ ~BeginWork
  BY <1>p DEF Request, Pause, Stop, CheckWrite, BeginWork, Missions, Active
<1>2. ~Continues
  BY <1>p DEF Continues, Prepare, MayContinue, Missions
<1>3. \A spent \in BOOLEAN : ~PrepareLimit(spent)
  BY <1>p DEF PrepareLimit, Missions, Active
<1>4. CASE Resume
  <2>1. mission.done = "COMPLETED"
    BY <1>4, <1>p DEF Resume, Missions
  <2> QED
    BY <2>1 DEF Watching, HeldBack
<1>5. CASE (FinishWrite \/ FinishRepeats) /\ mission' # mission
  <2>1. sup.pc = "finishWrite" /\ sup.verdict = "COMPLETED"
    BY <1>5, FinishSays DEF Active
  <2> QED
    BY <2>1, CompletedOver DEF Watching
<1>6. mission' # mission
  BY DEF Active
<1> QED
  BY <1>1, <1>2, <1>3, <1>4, <1>5, <1>6, MissionMoves

(* A mission completes with no background action of its turns at work, while its  *)
(* signals come once and in order and neither the workflow nor a scope fails nor  *)
(* an attempt that was given up writes: the supervisor monitors the mission for   *)
(* them until they have settled, whatever requests, pauses, repetitions and lost  *)
(* answers come between.  Only a turn that failed may have ended the monitoring.  *)
THEOREM CompletesAfterWork == Spec => CompletedAfterWork
<1> DEFINE Inv == Basis /\ Settled /\ (Tidy => Withdrawn /\ Continuing /\ Watching)
<1>1. Init => Inv
  <2> SUFFICES ASSUME Init PROVE Inv
    OBVIOUS
  <2>1. /\ DOMAIN turns = {} /\ linger = {} /\ sup.interrupted = <<>> /\ ~sup.cancelled
        /\ sup.pc = "idle" /\ mission.done = "NONE" /\ mission.status = "NONE"
        /\ sup.pending = <<>> /\ sup.made = 0 /\ ~sup.active /\ ~work /\ ~stopped
    BY DEF Init, Fresh
  <2>2. Range(sup.interrupted) = {} /\ Range(sup.pending) = {}
    BY <2>1 DEF Range
  <2>3. Basis /\ Settled
    BY <2>1, <2>2, InitPlaces, InitDecided
       DEF Basis, Opened, Heard, Unheard, InTurn, Dropped, Marked, StopEnds
  <2>4. Withdrawn
    BY <2>1 DEF Withdrawn, Discarding, Skipping, Monitored, Changed, Interrupted, Preparing
  <2>5. Continuing
    BY <2>1, <2>2 DEF Continuing, Unshared, Followed, Replaced, AloneInQueue, AloneAtItem, AtRest,
       Preparing, AtItem, InHand
  <2>6. Watching
    BY <2>1 DEF Watching, NoWork, Watched, Unmonitored, HeldBack
  <2> QED
    BY <2>3, <2>4, <2>5, <2>6
<1>2. Inv /\ [Next]_vars => Inv'
  <2> SUFFICES ASSUME Inv, [Next]_vars PROVE Inv'
    OBVIOUS
  <2>1. PlaceInv' /\ Settled' /\ Decided' /\ Opened'
    BY PlacesStay, SettledStays, DecidedStays, OpenedStays DEF Basis, PlaceInv
  <2>2. Heard' /\ Unheard' /\ InTurn' /\ Dropped'
    BY HeardStays, UnheardStays, InTurnStays, DroppedStays DEF Basis
  <2>3. Marked' /\ StopEnds'
    BY MarkedStays, StopEndsStays DEF Basis, PlaceInv
  <2>4. Basis' /\ Settled'
    BY <2>1, <2>2, <2>3 DEF Basis
  <2> QED
    BY <2>4, WithdrawnStays, ContinuingStays, WatchingStays, TidyBefore
<1>3. Inv /\ [Next]_vars
        => [mission.status \in Active /\ mission'.status = "COMPLETED"
              /\ troubles \cap {"overtaken", "resent", "late", "lost", "failed"} = {}
              /\ (\A n \in DOMAIN turns : turns[n].run # "FAILED") => ~work]_vars
  BY CompletesOver DEF Basis, Tidy, GoneFailed
<1> HIDE DEF Inv
<1> QED
  BY <1>1, <1>2, <1>3, PTL DEF Spec, CompletedAfterWork
=============================================================================
