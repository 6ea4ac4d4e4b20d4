------------------------ MODULE MemoryEvidenceProofs ------------------------
(***************************************************************************)
(* What the status of a change set says of its file: APPLIED that it was   *)
(* written, FAILED that it was not.  A recovery only has the journal and   *)
(* the contents of the files to tell, so this rests on what the other      *)
(* change sets, the savers and the editors can have done to them.          *)
(***************************************************************************)
EXTENDS MemoryMutationProofs

-----------------------------------------------------------------------------
(* The steps of an attempt *)

(* What a step of attempt a does to the files, the rows and the journals. *)
Effects(a) ==
  LET c == at[a].change IN
  /\ saver' = saver /\ saved' = saved
  /\ \/ content' = content /\ replaced' = replaced
     \/ Rename(a)
  /\ \/ journal' = journal
     \/ at[a].pc = "prepare" /\ AsApproved(c) /\ journal' = [journal EXCEPT ![c] = Prepared]
     \/ at[a].pc \in {"rename", "finalize"} /\ journal' = [journal EXCEPT ![c] = NoJournal]
     \/ at[a].pc = "verify" /\ journal' = [journal EXCEPT ![c] = Written(content)]
  /\ \/ row' = row
     \/ at[a].pc = "claim" /\ row[c].status = "APPROVED"
          /\ row' = [row EXCEPT ![c].status = "APPLYING"]
     \/ at[a].pc = "failed" /\ row[c].status = "APPLYING"
          /\ row' = [row EXCEPT ![c].status = "FAILED"]
     \/ at[a].pc \in {"applied", "recovered"} /\ Appliable(c, at[a].result)
          /\ row' = Applied(c, at[a].result)

(* Where a step of attempt a leads, and from where. *)
Arrives(a) ==
  LET c == at[a].change
      q == at'[a]
  IN
  /\ at[a].pc # "idle"
  /\ q.pc # "idle" => q.change = c
  /\ at[a].pc = "claim" => q.pc \in {"idle", "lock"}
  /\ q.pc # "claim"
  /\ q.pc = "lock" => at[a].pc = "claim" /\ row[c].status = "APPROVED"
                        /\ row'[c].status = "APPLYING"
  /\ q.pc = "prepare" => at[a].pc = "lock"
  /\ q.pc = "rename" => at[a].pc = "prepare" /\ AsApproved(c)
  /\ q.pc = "verify" => Rename(a)
  /\ q.pc = "release" => \/ q.next = "failed" /\ at[a].pc \in {"prepare", "rename"}
                         \/ q.next \in {"applied", "reconcile"} /\ at[a].pc = "verify"
  /\ q.pc = "applied" => at[a].pc = "release" /\ at[a].next = "applied"
  /\ q.pc = "recovered" => at[a].pc = "recover" /\ ShowsAfter(c)
  /\ q.pc = "failed" => \/ at[a].pc = "release" /\ at[a].next = "failed"
                        \/ at[a].pc = "recover" /\ ShowsBefore(c)

LEMMA StepEffects ==
  ASSUME NEW a \in Attempts, Attempt(a) \/ AttemptFails(a)
  PROVE  Effects(a)
<1> USE DEF Effects
<1>1. CASE Claim(a)
  <2>1. "APPLYING" \in MayBecome(row[at[a].change].status) => row[at[a].change].status = "APPROVED"
    BY DEF MayBecome
  <2> QED
    BY <1>1, <2>1 DEF Claim, files, history
<1>2. CASE AcquireLock(a) \/ LockTimeout(a) \/ Release(a) \/ Reconcile(a) \/ Recover(a) \/ Crash(a)
  BY <1>2 DEF AcquireLock, LockTimeout, Release, Reconcile, Recover, Crash, files, history
<1>3. CASE Prepare(a) \/ PrepareFails(a)
  BY <1>3 DEF Prepare, PrepareFails, history
<1>4. CASE Rename(a)
  BY <1>4 DEF Rename
<1>5. CASE RenameFails(a)
  BY <1>5 DEF RenameFails, history
<1>6. CASE Verify(a) \/ VerifyFails(a)
  BY <1>6 DEF Verify, VerifyFails, history
<1>7. CASE SettleApplied(a) \/ SettleUnanswered(a)
  BY <1>7 DEF SettleApplied, SettleUnanswered, files, history
<1>8. CASE SettleFailed(a)
  <2>1. "FAILED" \in MayBecome(row[at[a].change].status) => row[at[a].change].status = "APPLYING"
    BY DEF MayBecome
  <2> QED
    BY <1>8, <2>1 DEF SettleFailed, files, history
<1>9. CASE Finalize(a)
  BY <1>9 DEF Finalize, history
<1> QED
  BY <1>1, <1>2, <1>3, <1>4, <1>5, <1>6, <1>7, <1>8, <1>9 DEF Attempt, AttemptFails

LEMMA StepArrives ==
  ASSUME Typed, NEW a \in Attempts, Attempt(a) \/ AttemptFails(a)
  PROVE  Arrives(a) /\ \A b \in Attempts : b # a => at'[b] = at[b]
<1> DEFINE Rest == \A b \in Attempts : b # a => at'[b] = at[b]
           Stays == at'[a].change = at[a].change
<1> HIDE DEF Rest, Stays
<1>e. ASSUME End(a), at[a].pc # "idle" PROVE Arrives(a) /\ Rest
  BY <1>e, EndFacts DEF Arrives, Rest
<1>g. ASSUME NEW pc \in AttemptPcs, Go(a, pc), at[a].pc # "idle", pc # "release"
      PROVE  at'[a].pc = pc /\ Stays /\ Rest
  BY <1>g, GoFacts DEF Rest, Stays
<1>r. ASSUME NEW next \in {"failed", "reconcile"}, ReleaseWith(a, next), at[a].pc # "idle"
      PROVE  at'[a].pc = "release" /\ at'[a].next = next /\ Stays /\ Rest
  <2>1. at'[a].next = next
    BY <1>r DEF ReleaseWith, Typed, TypeOK
  <2> QED
    BY <1>r, <2>1, ReleaseWithFacts DEF Rest, Stays
<1>i. at[a].pc = "idle" => ~Attempt(a) /\ ~AttemptFails(a)
  BY DEF Attempt, AttemptFails, Claim, AcquireLock, LockTimeout, Locking, Prepare, Rename, Verify,
     Release, SettleApplied, SettleFailed, Reconcile, Recover, Finalize, PrepareFails,
     RenameFails, VerifyFails, SettleUnanswered, Crash
<1>n. at[a].pc # "idle"
  BY <1>i
<1>1. ASSUME Claim(a) PROVE Arrives(a) /\ Rest
  <2>1. CASE Go(a, "lock") /\ row' = [row EXCEPT ![at[a].change].status = "APPLYING"]
    <3>1. row[at[a].change].status = "APPROVED"
      BY <1>1, <1>g, <1>n, EndFacts, <2>1 DEF Claim, MayBecome, AttemptPcs
    <3>2. row'[at[a].change].status = "APPLYING"
      BY <1>n, <2>1, StatusFacts DEF Typed, Placed, Status
    <3> QED
      BY <1>1, <1>n, <2>1, <3>1, <3>2, <1>g DEF Claim, Arrives, AttemptPcs, Stays
  <2>2. CASE End(a)
    BY <1>n, <2>2, <1>e
  <2> QED
    BY <1>1, <2>1, <2>2 DEF Claim
<1>2. ASSUME AcquireLock(a) PROVE Arrives(a) /\ Rest
  <2>1. /\ Opened(a) \in {"prepare", "recover", "finalize"} /\ Go(a, Opened(a))
        /\ Opened(a) = "prepare" => at[a].pc = "lock"
        /\ at[a].pc \in {"lock", "lockRecover", "lockFinalize"}
    BY <1>2 DEF AcquireLock, Opened, Locking
  <2> QED
    BY <1>n, <2>1, <1>g DEF Arrives, AttemptPcs, Stays
<1>3. ASSUME LockTimeout(a) PROVE Arrives(a) /\ Rest
  <2>1. at[a].pc \in {"lock", "lockRecover", "lockFinalize"} /\ (End(a) \/ Go(a, "reconcile"))
    BY <1>3 DEF LockTimeout, Locking
  <2> QED
    BY <1>n, <2>1, <1>e, <1>g DEF Arrives, AttemptPcs, Stays
<1>4. ASSUME Prepare(a) \/ PrepareFails(a) PROVE Arrives(a) /\ Rest
  <2>1. at[a].pc = "prepare" /\ ((AsApproved(at[a].change) /\ Go(a, "rename")) \/ ReleaseWith(a, "failed"))
    BY <1>4 DEF Prepare, PrepareFails
  <2> QED
    BY <1>n, <2>1, <1>g, <1>r DEF Arrives, AttemptPcs, Stays
<1>5. ASSUME Rename(a) \/ RenameFails(a) PROVE Arrives(a) /\ Rest
  <2>1. at[a].pc = "rename" /\ ((Rename(a) /\ Go(a, "verify")) \/ ReleaseWith(a, "failed"))
    BY <1>5 DEF Rename, RenameFails
  <2> QED
    BY <1>n, <2>1, <1>g, <1>r DEF Arrives, AttemptPcs, Stays
<1>6. ASSUME Verify(a) \/ VerifyFails(a) PROVE Arrives(a) /\ Rest
  <2>1. /\ at[a].pc = "verify"
        /\ \/ at' = [at EXCEPT ![a].pc = "release", ![a].next = "applied", ![a].result = content]
           \/ ReleaseWith(a, "reconcile")
    BY <1>6 DEF Verify, VerifyFails
  <2>2. CASE at' = [at EXCEPT ![a].pc = "release", ![a].next = "applied", ![a].result = content]
    <3>1. at'[a].pc = "release" /\ at'[a].next = "applied" /\ Stays /\ Rest
      BY <2>2 DEF Typed, TypeOK, Stays, Rest
    <3> QED
      BY <1>n, <2>1, <3>1 DEF Arrives, Stays
  <2> QED
    BY <1>n, <2>1, <2>2, <1>r DEF Arrives, Stays
<1>7. ASSUME Release(a) PROVE Arrives(a) /\ Rest
  <2>1. /\ at[a].pc = "release" /\ Go(a, at[a].next)
        /\ at[a].next \in {"failed", "applied", "reconcile"}
    BY <1>7 DEF Release, Typed, Placed
  <2> QED
    BY <1>n, <2>1, <1>g DEF Arrives, AttemptPcs, Stays
<1>8. ASSUME SettleApplied(a) \/ SettleFailed(a) \/ SettleUnanswered(a) \/ Reconcile(a) PROVE Arrives(a) /\ Rest
  <2>1. at[a].pc \in {"applied", "recovered", "failed", "reconcile"}
    BY <1>8 DEF SettleApplied, SettleFailed, SettleUnanswered, Reconcile
  <2>2. End(a) \/ Go(a, "reconcile") \/ Go(a, "lockFinalize") \/ Go(a, "lockRecover")
    BY <1>8 DEF SettleApplied, SettleFailed, SettleUnanswered, Reconcile
  <2> QED
    BY <1>n, <2>1, <2>2, <1>e, <1>g DEF Arrives, AttemptPcs, Stays
<1>9. ASSUME Recover(a) PROVE Arrives(a) /\ Rest
  <2>1. /\ at[a].pc = "recover"
        /\ \/ ShowsAfter(at[a].change)
                /\ at' = [at EXCEPT ![a].pc = "recovered", ![a].result = content]
           \/ ShowsBefore(at[a].change) /\ Go(a, "failed")
           \/ End(a)
    BY <1>9 DEF Recover
  <2>2. CASE at' = [at EXCEPT ![a].pc = "recovered", ![a].result = content]
    <3>1. at'[a].pc = "recovered" /\ Stays /\ Rest
      BY <2>2 DEF Typed, TypeOK, Stays, Rest
    <3>2. ~End(a) /\ ~Go(a, "failed")
      BY <1>n, <3>1, EndFacts, <1>g DEF AttemptPcs
    <3> QED
      BY <1>n, <2>1, <3>1, <3>2 DEF Arrives, Stays
  <2> QED
    BY <1>n, <2>1, <2>2, <1>e, <1>g DEF Arrives, AttemptPcs, Stays
<1>10. ASSUME Finalize(a) \/ Crash(a) PROVE Arrives(a) /\ Rest
  BY <1>10, <1>n, <1>e DEF Finalize, Crash
<1> QED
  BY <1>1, <1>2, <1>3, <1>4, <1>5, <1>6, <1>7, <1>8, <1>9, <1>10 DEF Attempt, AttemptFails, Rest

(* A change set keeps what it is about. *)
SameBody(c) ==
  /\ row'[c].path = row[c].path /\ row'[c].of = row[c].of
  /\ row'[c].before = row[c].before /\ row'[c].after = row[c].after

(* How the rows change when attempt a takes a step. *)
LEMMA StepRows ==
  ASSUME Typed, NEW a \in Attempts, Effects(a), at[a].pc # "idle", NEW d \in ChangeSets
  PROVE  /\ SameBody(d)
         /\ \/ row'[d].status = row[d].status
            \/ /\ d = at[a].change /\ at[a].pc = "claim"
               /\ row[d].status = "APPROVED" /\ row'[d].status = "APPLYING"
            \/ /\ d = at[a].change /\ at[a].pc = "failed"
               /\ row[d].status = "APPLYING" /\ row'[d].status = "FAILED"
            \/ /\ d = at[a].change /\ at[a].pc \in {"applied", "recovered"}
               /\ row[d].status = "APPLYING" /\ row'[d].status = "APPLIED"
            \/ row[d].status = "APPLIED" /\ row'[d].status = "ROLLED_BACK"
<1> DEFINE c == at[a].change
<1>t. /\ row \in [ChangeSets -> Rows] /\ c \in ChangeSets
      /\ \A e \in ChangeSets : row[e] \in Rows
  BY DEF Typed, TypeOK, Placed, Rows
<1> HIDE DEF c
<1>1. ASSUME NEW to, row' = [row EXCEPT ![c].status = to]
      PROVE  SameBody(d) /\ row'[d].status = IF d = c THEN to ELSE row[d].status
  BY <1>1, <1>t DEF SameBody, Rows
<1>2. ASSUME NEW sources, Appliable(c, sources), row' = Applied(c, sources)
      PROVE  /\ SameBody(d)
             /\ \/ row'[d].status = row[d].status
                \/ d = c /\ row[d].status = "APPLYING" /\ row'[d].status = "APPLIED"
                \/ row[d].status = "APPLIED" /\ row'[d].status = "ROLLED_BACK"
  <2>1. row[c].status = "APPLYING"
    BY <1>2 DEF Appliable, MayBecome
  <2>2. d = row[c].of => row[d].status = "APPLIED"
    BY <1>2, MemoryAssumption DEF Appliable
  <2>3. row'[d] = IF d = c THEN [row[c] EXCEPT !.status = "APPLIED", !.result = sources]
                  ELSE IF d = row[c].of THEN [row[d] EXCEPT !.status = "ROLLED_BACK"]
                  ELSE row[d]
    BY <1>2 DEF Applied
  <2> QED
    BY <2>1, <2>2, <2>3, <1>t DEF SameBody, Rows
<1>3. CASE row' = row
  BY <1>3 DEF SameBody
<1>4. CASE /\ at[a].pc = "claim" /\ row[c].status = "APPROVED"
           /\ row' = [row EXCEPT ![c].status = "APPLYING"]
  BY <1>4, <1>1 DEF c
<1>5. CASE /\ at[a].pc = "failed" /\ row[c].status = "APPLYING"
           /\ row' = [row EXCEPT ![c].status = "FAILED"]
  BY <1>5, <1>1 DEF c
<1>6. CASE /\ at[a].pc \in {"applied", "recovered"} /\ Appliable(c, at[a].result)
           /\ row' = Applied(c, at[a].result)
  BY <1>6, <1>2 DEF c
<1> QED
  BY <1>3, <1>4, <1>5, <1>6 DEF Effects, c

(* How the journals change when attempt a takes a step. *)
LEMMA StepJournals ==
  ASSUME Typed, NEW a \in Attempts, Effects(a), at[a].pc # "idle", NEW d \in ChangeSets
  PROVE  \/ journal'[d] = journal[d]
         \/ /\ d = at[a].change
            /\ \/ at[a].pc = "prepare" /\ AsApproved(d) /\ journal'[d] = Prepared
               \/ at[a].pc \in {"rename", "finalize"} /\ journal'[d] = NoJournal
               \/ at[a].pc = "verify" /\ journal'[d] = Written(content)
BY DEF Effects, Typed, TypeOK, Placed

(* Proposals and reviews write one row that nobody has claimed. *)
LEMMA ChangeRows ==
  ASSUME Typed, NEW c \in ChangeSets, Change(c)
  PROVE  /\ Fresh(c) /\ Fresh(c)' /\ row'[c].status # "NONE"
         /\ \A d \in ChangeSets : d # c => row'[d] = row[d]
         /\ row[c].status # "NONE" => SameBody(c)
         /\ UNCHANGED <<files, lock, at, saver, history, faults>>
<1>t. row \in [ChangeSets -> Rows] /\ row[c] \in Rows
  BY DEF Typed, TypeOK, Rows
<1>1. ASSUME NEW p \in Paths, Propose(c, p) PROVE row'[c].status = "PROPOSED" /\ row[c].status = "NONE"
  BY <1>1, <1>t DEF Propose
<1>2. ASSUME NEW t \in ChangeSets, ProposeRollback(c, t)
      PROVE  row'[c].status = "PROPOSED" /\ row[c].status = "NONE"
  BY <1>2, <1>t DEF ProposeRollback
<1>3. ASSUME NEW verdict \in Status, Review(c, verdict)
      PROVE  /\ row'[c].status \in {"APPROVED", "REJECTED"}
             /\ row[c].status \in {"PROPOSED", "APPROVED"} /\ SameBody(c)
  <2>1. row'[c] = [row[c] EXCEPT !.status = verdict] /\ verdict \in {"APPROVED", "REJECTED"}
    BY <1>3, <1>t DEF Review
  <2>2. row[c].status \in {"PROPOSED", "APPROVED"}
    BY <1>3, <1>t, Transitions DEF Review, Rows
  <2> QED
    BY <2>1, <2>2, <1>t DEF SameBody, Rows
<1>4. \A d \in ChangeSets : d # c => row'[d] = row[d]
  BY <1>t DEF Change, Propose, ProposeRollback, Review
<1>5. UNCHANGED <<files, lock, at, saver, history, faults>>
  BY DEF Change, Propose, ProposeRollback, Review
<1> QED
  BY <1>1, <1>2, <1>3, <1>4, <1>5 DEF Change, Fresh

-----------------------------------------------------------------------------
(* One execution, and the attempts that settle its outcome *)

(* The outcome of the change set is decided, or about to be told. *)
Over(a) == at[a].pc \in {"release", "applied", "recovered", "failed"}

(* Beyond its claim an attempt works on a row that was claimed. *)
Claimed == \A a \in Attempts : at[a].pc \notin {"idle", "claim"} => ~Fresh(at[a].change)

(* A row that nobody claimed has no journal. *)
NoTrace == \A c \in ChangeSets : Fresh(c) => journal[c] = NoJournal

(* What the executing attempt can rely on. *)
Sure(a) ==
  /\ Executing(a) => row[at[a].change].status = "APPLYING"
  /\ at[a].pc \in {"lock", "prepare"} => journal[at[a].change] = NoJournal
  /\ at[a].pc = "verify" => at[a].change \in replaced

(* No outcome is decided while the change set may still be executed. *)
Ended ==
  \A a, b \in Attempts : Over(a) /\ Executing(b) => at[a].change # at[b].change

Course == Claimed /\ NoTrace /\ (\A a \in Attempts : Sure(a)) /\ Ended

LEMMA InitCourse == Init => Course
BY DEF Init, Course, Claimed, NoTrace, Sure, Ended, Over, Executing, Idle

(* A step that leaves the journals, the attempts and the claimed rows alone. *)
LEMMA CourseUndisturbed ==
  ASSUME Typed, Course, UNCHANGED <<journal, at, replaced>>,
         \A c \in ChangeSets : row'[c] = row[c] \/ (Fresh(c) /\ Fresh(c)')
  PROVE  Course'
<1>1. \A c \in ChangeSets : Fresh(c)' <=> Fresh(c)
  BY DEF Fresh
<1>2. Claimed'
  BY <1>1 DEF Course, Claimed, Typed, Placed
<1>3. NoTrace'
  BY <1>1 DEF Course, NoTrace
<1>4. ASSUME NEW a \in Attempts PROVE Sure(a)'
  <2>1. Executing(a) => at[a].change \in ChangeSets /\ row'[at[a].change] = row[at[a].change]
    BY DEF Course, Sure, Executing, Typed, Placed, Fresh
  <2> QED
    BY <2>1 DEF Course, Sure, Executing
<1>5. Ended'
  BY DEF Course, Ended, Over, Executing
<1> QED
  BY <1>2, <1>3, <1>4, <1>5 DEF Course

(* An attempt under the lock file excludes every other. *)
LEMMA HoldsAlone ==
  ASSUME Exclusive, NEW a \in Attempts, NEW b \in Attempts, Holding(a), Holding(b)
  PROVE  a = b
BY DEF Exclusive

LEMMA AttemptCourse ==
  ASSUME Typed, Replacement, Exclusive, Course, NEW a \in Attempts, Attempt(a) \/ AttemptFails(a)
  PROVE  Course'
<1> DEFINE c == at[a].change
<1>s. Effects(a) /\ Arrives(a) /\ \A b \in Attempts : b # a => at'[b] = at[b]
  BY StepEffects, StepArrives
<1>c. at[a].pc # "idle" /\ c \in ChangeSets
  BY <1>s DEF Arrives, Typed, Placed
<1>r. replaced' = replaced \/ (Rename(a) /\ replaced' = replaced \cup {c})
  BY <1>s DEF Effects, Rename
<1>1. ASSUME NEW d \in ChangeSets PROVE Fresh(d)' => Fresh(d)
  BY <1>s, <1>c, StepRows DEF Fresh
<1>2. Claimed'
  <2> SUFFICES ASSUME NEW b \in Attempts, at'[b].pc \notin {"idle", "claim"}
               PROVE  ~Fresh(at[b].change)'
    BY DEF Claimed, Fresh
  <2>1. CASE b # a
    <3>1. at'[b] = at[b] /\ at[b].change \in ChangeSets
      BY <1>s, <2>1 DEF Typed, Placed
    <3>2. ~Fresh(at[b].change)
      BY <3>1 DEF Course, Claimed
    <3> QED
      BY <3>1, <3>2, <1>1 DEF Fresh
  <2>2. CASE b = a
    <3>1. at'[a].change = c
      BY <1>s, <2>2 DEF Arrives
    <3>2. CASE at[a].pc = "claim"
      <4>1. row'[c].status = "APPLYING"
        BY <1>s, <2>2, <3>2 DEF Arrives
      <4> QED
        BY <2>2, <3>1, <4>1 DEF Fresh
    <3>3. CASE at[a].pc # "claim"
      <4>1. ~Fresh(c)
        BY <1>c, <3>3 DEF Course, Claimed
      <4> QED
        BY <1>1, <1>c, <2>2, <3>1, <4>1 DEF Fresh
    <3> QED
      BY <3>2, <3>3
  <2> QED
    BY <2>1, <2>2
<1>3. NoTrace'
  <2> SUFFICES ASSUME NEW d \in ChangeSets, Fresh(d)' PROVE journal'[d] = NoJournal
    BY DEF NoTrace
  <2>1. Fresh(d) /\ journal[d] = NoJournal
    BY <1>1 DEF Course, NoTrace
  <2>2. at[a].pc # "claim" => d # c
    BY <1>c, <2>1 DEF Course, Claimed
  <2> QED
    BY <1>s, <1>c, <2>1, <2>2, StepJournals
<1>4. ASSUME NEW b \in Attempts, b # a PROVE Sure(b)'
  <2>1. at'[b] = at[b] /\ (at[b].pc # "idle" => at[b].change \in ChangeSets) /\ Sure(b)
    BY <1>s, <1>4 DEF Course, Typed, Placed
  <2>2. ASSUME Executing(b) PROVE row'[at[b].change].status = "APPLYING"
    <3>1. at[b].change \in ChangeSets /\ row[at[b].change].status = "APPLYING"
      BY <2>1, <2>2 DEF Executing, Sure
    <3>2. at[a].pc \in {"failed", "applied", "recovered"} => at[b].change # c
      BY <2>2 DEF Course, Ended, Over
    <3> QED
      BY <1>s, <1>c, <3>1, <3>2, StepRows
  <2>3. ASSUME at[b].pc \in {"lock", "prepare"} PROVE journal'[at[b].change] = NoJournal
    <3>1. at[b].change \in ChangeSets /\ journal[at[b].change] = NoJournal /\ Executing(b)
      BY <2>1, <2>3 DEF Executing, Sure
    <3>2. at[a].pc \in {"prepare", "verify"} => at[b].change # c
      BY <1>4, <3>1 DEF Replacement, Alone, Executing
    <3> QED
      BY <1>s, <1>c, <3>1, <3>2, StepJournals
  <2> QED
    BY <2>1, <2>2, <2>3, <1>r DEF Sure, Executing
<1>5. Sure(a)'
  <2> SUFFICES ASSUME Executing(a)' PROVE Sure(a)'
    BY DEF Sure, Executing
  <2>0. at'[a].change = c
    BY <1>s DEF Arrives, Executing
  <2>1. CASE at'[a].pc = "lock"
    <3>1. at[a].pc = "claim" /\ row[c].status = "APPROVED" /\ row'[c].status = "APPLYING"
      BY <1>s, <2>1 DEF Arrives
    <3>2. journal[c] = NoJournal
      BY <1>c, <3>1 DEF Course, NoTrace, Fresh
    <3>3. journal'[c] = NoJournal
      BY <1>s, <1>c, <3>1, <3>2, StepJournals
    <3> QED
      BY <2>0, <2>1, <3>1, <3>3 DEF Sure, Executing
  <2>2. CASE at'[a].pc # "lock"
    <3>1. at[a].pc \in {"lock", "prepare", "rename"} /\ (at'[a].pc = "verify" => Rename(a))
          /\ (at'[a].pc = "prepare" => at[a].pc = "lock")
      BY <1>s, <2>2 DEF Arrives, Executing, Rename
    <3>2. row'[c].status = "APPLYING"
      <4>1. row[c].status = "APPLYING"
        BY <3>1 DEF Course, Sure, Executing
      <4> QED
        BY <1>s, <1>c, <3>1, <4>1, StepRows
    <3>3. at'[a].pc = "prepare" => journal'[c] = NoJournal
      <4>1. at[a].pc = "lock" => journal[c] = NoJournal
        BY DEF Course, Sure
      <4> QED
        BY <1>s, <1>c, <3>1, <4>1, StepJournals
    <3>4. at'[a].pc = "verify" => c \in replaced'
      BY <3>1 DEF Rename
    <3> QED
      BY <2>0, <2>2, <3>2, <3>3, <3>4 DEF Sure, Executing
  <2> QED
    BY <2>1, <2>2
<1>6. ASSUME NEW x \in Attempts, NEW y \in Attempts, Over(x)', Executing(y)'
      PROVE  at'[x].change # at'[y].change
  <2>1. CASE x # a /\ y # a
    BY <1>s, <1>6, <2>1 DEF Course, Ended, Over, Executing
  <2>2. CASE x = a /\ y # a
    <3> SUFFICES ASSUME at[y].change = c PROVE FALSE
      BY <1>s, <1>6, <2>2 DEF Over, Arrives
    <3>1. Executing(y)
      BY <1>s, <1>6, <2>2 DEF Executing
    <3>2. ~Over(a) /\ ~Executing(a)
      BY <2>2, <3>1 DEF Course, Ended, Replacement, Alone
    <3>3. at[a].pc = "recover" /\ (ShowsAfter(c) \/ ShowsBefore(c))
      BY <1>s, <1>6, <2>2, <3>2 DEF Arrives, Over, Executing
    <3>4. journal[c] # NoJournal
      BY <3>3 DEF ShowsAfter, ShowsBefore, Prepared, NoJournal
    <3>5. at[y].pc \in {"rename", "verify"}
      BY <3>1, <3>4 DEF Course, Sure, Executing
    <3> QED
      BY <2>2, <3>3, <3>5, HoldsAlone DEF Holding
  <2>3. CASE y = a /\ x # a
    <3> SUFFICES ASSUME at[x].change = c PROVE FALSE
      BY <1>s, <1>6, <2>3 DEF Executing, Arrives
    <3>1. Over(x)
      BY <1>s, <1>6, <2>3 DEF Over
    <3>2. ~Executing(a)
      BY <3>1 DEF Course, Ended
    <3>3. row[c].status = "APPROVED"
      BY <1>s, <1>6, <2>3, <3>2 DEF Arrives, Executing, Rename
    <3> QED
      BY <3>1, <3>3 DEF Course, Claimed, Over, Fresh
  <2>4. CASE x = a /\ y = a
    BY <1>6, <2>4 DEF Over, Executing
  <2> QED
    BY <2>1, <2>2, <2>3, <2>4
<1>7. Ended'
  BY <1>6 DEF Ended, Over, Executing
<1> QED
  BY <1>2, <1>3, <1>4, <1>5, <1>7 DEF Course

LEMMA NextCourse == Typed /\ Replacement /\ Exclusive /\ Course /\ [Next]_vars => Course'
<1> SUFFICES ASSUME Typed, Replacement, Exclusive, Course, [Next]_vars PROVE Course'
  OBVIOUS
<1>1. ASSUME NEW c \in ChangeSets, Change(c) PROVE Course'
  BY <1>1, ChangeRows, CourseUndisturbed DEF files, history
<1>2. ASSUME NEW a \in Attempts, NEW c \in ChangeSets, Start(a, c) PROVE Course'
  <2>1. /\ row' = row /\ journal' = journal /\ replaced' = replaced
        /\ \A b \in Attempts : b # a => at'[b] = at[b]
    BY <1>2, StartFacts DEF Start, history
  <2>2. /\ at'[a].pc \in {"claim", "reconcile"}
        /\ at'[a].pc = "reconcile" => at'[a].change = c /\ ~Fresh(c)
    BY <1>2 DEF Start, Idle, Fresh, Typed, TypeOK
  <2>3. Claimed'
    BY <2>1, <2>2 DEF Course, Claimed, Fresh
  <2>4. (\A b \in Attempts : Sure(b)') /\ Ended'
    BY <2>1, <2>2 DEF Course, Sure, Ended, Over, Executing
  <2> QED
    BY <2>1, <2>3, <2>4 DEF Course, NoTrace, Fresh
<1>3. ASSUME NEW s \in Savers, Save(s) \/ SaverCrashes(s) PROVE Course'
  <2>1. UNCHANGED <<row, journal, at, replaced>>
    BY <1>3 DEF Save, SaverAcquires, JudgeLock, RemoveStaleLock, SaverGivesUp, AppendEntry,
           SaverReleases, SaverCrashes, files, history
  <2> QED
    BY <2>1, CourseUndisturbed
<1>4. ASSUME NEW e \in Editors, NEW p \in Paths, Edit(e, p) PROVE Course'
  BY <1>4, CourseUndisturbed DEF Edit, history
<1>5. CASE UNCHANGED vars
  BY <1>5, CourseUndisturbed DEF vars
<1>6. CASE Next
  BY <1>6, <1>1, <1>2, <1>3, <1>4, AttemptCourse DEF Next
<1> QED
  BY <1>5, <1>6

-----------------------------------------------------------------------------
(* What the change sets are about *)

Known(c) == row[c].status # "NONE"

(* The mark of a change that was not proposed yet is nowhere. *)
Unmarked ==
  \A c \in ChangeSets : ~Known(c) =>
    /\ \A p \in Paths : c \notin content[p]
    /\ \A d \in ChangeSets : c \notin row[d].before /\ c \notin row[d].after

Alike(c, d) == row[c].before = row[d].before /\ row[c].after = row[d].after
Reverse(c, d) == row[c].before = row[d].after /\ row[c].after = row[d].before

(* Change set c does or undoes what proposal m once brought in. *)
Root(m, c) ==
  /\ Known(m) /\ row[m].of = NoTarget
  /\ m \notin row[m].before /\ row[m].after = row[m].before \cup {m}
  /\ row[c].path = row[m].path
  /\ Alike(c, m) \/ Reverse(c, m)
  /\ c # m => Settled(m) /\ row[c].of # NoTarget

(* Every change set stems from one proposal, and undoes one that was applied. *)
Stemmed(c) ==
  /\ \E m \in ChangeSets : Root(m, c)
  /\ row[c].of # NoTarget => row[c].of \in ChangeSets /\ Settled(row[c].of)

Rooted == \A c \in ChangeSets : Known(c) => Stemmed(c)

LEMMA InitRooted == Init => Unmarked /\ Rooted
BY DEF Init, Unmarked, Rooted, Known, NoRow, Paths

(* What a change set stems from stays so, as rows are settled for good. *)
LEMMA StemKept ==
  ASSUME NEW c \in ChangeSets, Stemmed(c), SameBody(c),
         \A d \in ChangeSets : Known(d) => Known(d)' /\ SameBody(d),
         \A d \in ChangeSets : Settled(d) => Settled(d)'
  PROVE  Stemmed(c)'
<1>1. PICK m \in ChangeSets : Root(m, c)
  BY DEF Stemmed
<1>2. SameBody(m) /\ Known(m)' /\ (Settled(m) => Settled(m)')
  BY <1>1 DEF Root
<1>3. Root(m, c)'
  BY <1>1, <1>2 DEF Root, SameBody, Alike, Reverse, Known, Settled
<1>4. row'[c].of # NoTarget => row'[c].of \in ChangeSets /\ Settled(row[c].of)'
  BY DEF Stemmed, SameBody
<1>5. row'[c].of = row[c].of
  BY DEF SameBody
<1> QED
  BY <1>3, <1>4, <1>5 DEF Stemmed, Settled

(* The one mark by which the contents before and after a change set differ. *)
LEMMA RootTells ==
  ASSUME NEW m, NEW c, Root(m, c)
  PROVE  /\ m \in row[c].before <=> m \notin row[c].after
         /\ \A n : n # m => (n \in row[c].before <=> n \in row[c].after)
BY DEF Root, Alike, Reverse

(* Steps that write no row but of claimed change sets, and bring no mark in. *)
LEMMA RootedUndisturbed ==
  ASSUME Unmarked, Rooted,
         \A d \in ChangeSets : SameBody(d) /\ (Known(d)' <=> Known(d)) /\ (Settled(d) => Settled(d)'),
         \A d \in ChangeSets : ~Known(d) => \A p \in Paths : d \notin content'[p]
  PROVE  Unmarked' /\ Rooted'
<1>1. Unmarked'
  BY DEF Unmarked, Known, SameBody
<1>2. ASSUME NEW c \in ChangeSets, Known(c)' PROVE Stemmed(c)'
  <2>1. Stemmed(c)
    BY <1>2 DEF Rooted
  <2> QED
    BY <2>1, StemKept
<1> QED
  BY <1>1, <1>2 DEF Rooted, Known

LEMMA ChangeRooted ==
  ASSUME Typed, Unmarked, Rooted, NEW c \in ChangeSets, Change(c) PROVE Unmarked' /\ Rooted'
<1>f. /\ Fresh(c) /\ Fresh(c)' /\ row'[c].status # "NONE" /\ content' = content
      /\ \A d \in ChangeSets : d # c => row'[d] = row[d]
      /\ Known(c) => SameBody(c)
  BY ChangeRows DEF files, Known
<1>t. row \in [ChangeSets -> Rows] /\ row[c] \in Rows
  BY DEF Typed, TypeOK, Rows
<1>k. \A d \in ChangeSets : Known(d) => Known(d)' /\ SameBody(d)
  BY <1>f DEF Known, SameBody
<1>s. \A d \in ChangeSets : Settled(d) => d # c /\ Settled(d)'
  BY <1>f DEF Settled, Fresh
<1>o. ASSUME NEW d \in ChangeSets, Known(d)', d # c \/ Known(c) PROVE Stemmed(d)'
  <2>1. Known(d) /\ SameBody(d)
    BY <1>f, <1>k, <1>o DEF Known
  <2>2. Stemmed(d)
    BY <2>1 DEF Rooted
  <2> QED
    BY <2>1, <2>2, <1>k, <1>s, StemKept
<1>1. CASE Known(c)
  <2>1. Rooted'
    BY <1>1, <1>o DEF Rooted
  <2>2. \A d \in ChangeSets : ~Known(d)' => ~Known(d)
    BY <1>k
  <2>3. \A d \in ChangeSets : SameBody(d)
    BY <1>1, <1>f DEF SameBody
  <2> QED
    BY <2>1, <2>2, <2>3, <1>f DEF Unmarked, SameBody
<1>2. ASSUME NEW p \in Paths, Propose(c, p), ~Known(c) PROVE Unmarked' /\ Rooted'
  <2>1. /\ row'[c].path = p /\ row'[c].of = NoTarget
        /\ row'[c].before = content[p] /\ row'[c].after = content[p] \cup {c}
    BY <1>2, <1>t DEF Propose
  <2>2. c \notin content[p]
    BY <1>2 DEF Unmarked
  <2>3. Root(c, c)'
    BY <1>f, <2>1, <2>2 DEF Root, Alike, Known
  <2>4. Stemmed(c)'
    BY <2>1, <2>3 DEF Stemmed
  <2>5. Unmarked'
    BY <1>f, <1>k, <2>1 DEF Unmarked, Known
  <2> QED
    BY <1>o, <2>4, <2>5 DEF Rooted
<1>3. ASSUME NEW t \in ChangeSets, ProposeRollback(c, t), ~Known(c) PROVE Unmarked' /\ Rooted'
  <2>1. /\ row'[c].path = row[t].path /\ row'[c].of = t /\ t # NoTarget
        /\ row'[c].before = row[t].after /\ row'[c].after = row[t].before
        /\ Settled(t) /\ Known(t)
    BY <1>3, <1>t, MemoryAssumption DEF ProposeRollback, Settled, Known
  <2>2. PICK m \in ChangeSets : Root(m, t)
    BY <2>1 DEF Rooted, Stemmed
  <2>3. m # c /\ SameBody(m) /\ Known(m)' /\ Settled(m) /\ Settled(m)'
    BY <1>3, <1>k, <1>s, <2>1, <2>2 DEF Root
  <2>4. Root(m, c)'
    BY <2>1, <2>2, <2>3 DEF Root, Alike, Reverse, SameBody
  <2>5. Settled(t)'
    BY <1>s, <2>1
  <2>6. Stemmed(c)'
    <3>1. row'[c].of = t
      BY <2>1
    <3> QED
      BY <2>4, <2>5, <3>1 DEF Stemmed, Settled
  <2>7. Unmarked'
    <3>1. \A d \in ChangeSets : ~Known(d)' => ~Known(d) /\ d \notin row'[c].before /\ d \notin row'[c].after
      BY <1>k, <2>1 DEF Unmarked
    <3> QED
      BY <1>f, <3>1 DEF Unmarked
  <2> QED
    BY <1>o, <2>6, <2>7 DEF Rooted
<1>4. ASSUME NEW verdict \in Status, Review(c, verdict) PROVE Known(c)
  BY <1>4, <1>t, Transitions DEF Review, Rows, Known
<1> QED
  BY <1>1, <1>2, <1>3, <1>4 DEF Change

LEMMA AttemptRooted ==
  ASSUME Typed, Course, Unmarked, Rooted, NEW a \in Attempts, Attempt(a) \/ AttemptFails(a)
  PROVE  Unmarked' /\ Rooted'
<1>s. Effects(a) /\ at[a].pc # "idle"
  BY StepEffects, StepArrives DEF Arrives
<1>1. \A d \in ChangeSets :
        SameBody(d) /\ (Known(d)' <=> Known(d)) /\ (Settled(d) => Settled(d)')
  BY <1>s, StepRows DEF Known, Settled
<1>2. ASSUME NEW d \in ChangeSets, ~Known(d), NEW p \in Paths PROVE d \notin content'[p]
  <2>1. d \notin content[p]
    BY <1>2 DEF Unmarked
  <2>2. CASE content' = content
    BY <2>1, <2>2
  <2>3. CASE Rename(a)
    <3>1. at[a].change \in ChangeSets /\ content \in Contents
      BY <1>s DEF Typed, TypeOK, Placed
    <3>2. content' = [content EXCEPT ![row[at[a].change].path] = row[at[a].change].after]
      BY <2>3 DEF Rename
    <3>3. d \notin row[at[a].change].after
      BY <1>2, <3>1 DEF Unmarked
    <3> QED
      BY <2>1, <3>1, <3>2, <3>3 DEF Contents
  <2> QED
    BY <1>s, <2>2, <2>3 DEF Effects
<1> QED
  BY <1>1, <1>2, RootedUndisturbed

LEMMA NextRooted == Typed /\ Course /\ Unmarked /\ Rooted /\ [Next]_vars => Unmarked' /\ Rooted'
<1> SUFFICES ASSUME Typed, Course, Unmarked, Rooted, [Next]_vars PROVE Unmarked' /\ Rooted'
  OBVIOUS
<1>t. content \in Contents
  BY DEF Typed, TypeOK
<1>0. ASSUME row' = row, \A d \in ChangeSets : ~Known(d) => \A p \in Paths : d \notin content'[p]
      PROVE  Unmarked' /\ Rooted'
  BY <1>0, RootedUndisturbed DEF SameBody, Known, Settled
<1>u. ASSUME UNCHANGED <<row, content>> PROVE Unmarked' /\ Rooted'
  BY <1>0, <1>u DEF Unmarked
<1>1. ASSUME NEW a \in Attempts, NEW c \in ChangeSets, Start(a, c) PROVE Unmarked' /\ Rooted'
  BY <1>1, <1>u DEF Start
<1>2. ASSUME NEW s \in Savers, Save(s) \/ SaverCrashes(s) PROVE Unmarked' /\ Rooted'
  <2>1. row' = row
    BY <1>2 DEF Save, SaverAcquires, JudgeLock, RemoveStaleLock, SaverGivesUp, AppendEntry,
           SaverReleases, SaverCrashes, files
  <2>2. content' = content \/ content' = [content EXCEPT ![Monthly] = @ \cup {s}]
    BY <1>2 DEF Save, SaverAcquires, JudgeLock, RemoveStaleLock, SaverGivesUp, AppendEntry,
           SaverReleases, SaverCrashes, files
  <2>3. s \notin ChangeSets
    BY MemoryAssumption
  <2>4. \A d \in ChangeSets : ~Known(d) => \A p \in Paths : d \notin content'[p]
    BY <1>t, <2>2, <2>3 DEF Unmarked, Contents
  <2> QED
    BY <1>0, <2>1, <2>4
<1>3. ASSUME NEW e \in Editors, NEW p \in Paths, Edit(e, p) PROVE Unmarked' /\ Rooted'
  <2>1. row' = row /\ content' = [content EXCEPT ![p] = @ \cup {e}]
    BY <1>3 DEF Edit
  <2>2. e \notin ChangeSets
    BY MemoryAssumption
  <2>3. \A d \in ChangeSets : ~Known(d) => \A q \in Paths : d \notin content'[q]
    BY <1>t, <2>1, <2>2 DEF Unmarked, Contents
  <2> QED
    BY <1>0, <2>1, <2>3
<1>4. CASE UNCHANGED vars
  BY <1>4, <1>u DEF vars
<1>5. CASE Next
  BY <1>5, <1>1, <1>2, <1>3, ChangeRooted, AttemptRooted DEF Next
<1> QED
  BY <1>4, <1>5

-----------------------------------------------------------------------------
(* What the files tell of a change set *)

(* Its contents were written, by its own rename or by another's. *)
WrittenAs(c) == \E d \in replaced : row[d].path = row[c].path /\ row[d].after = row[c].after

(* The mark it brings in or takes away is where it left it. *)
Landed(c) ==
  \A m \in ChangeSets : (m \in row[c].before <=> m \notin row[c].after) =>
    (m \in content[row[c].path] <=> m \in row[c].after)

(* Between the validation and the rename no change set writes the file. *)
Renaming ==
  \A a \in Attempts : at[a].pc = "rename" => \A m \in ChangeSets :
    m \in content[row[at[a].change].path] <=> m \in row[at[a].change].before

(* What was replaced and not yet recorded is still to be seen in the file, or put back. *)
Standing ==
  \A c \in replaced : row[c].status = "APPLYING" => Landed(c) \/ PutBack(c)

(* The entries a prepared change set has seen stay in the file. *)
EntriesStay ==
  \A c \in ChangeSets : journal[c] # NoJournal /\ row[c].path = Monthly =>
    row[c].before \cap Savers \subseteq content[Monthly]

(* A prepared change set finds its result in the file only where it was written. *)
Shown ==
  \A c \in ChangeSets :
    journal[c] # NoJournal /\ content[row[c].path] = row[c].after => WrittenAs(c)

(* An attempt that is about to record a success, or a failure. *)
Succeeding(a) ==
  at[a].pc \in {"applied", "recovered"} \/ (at[a].pc = "release" /\ at[a].next = "applied")
Failing(a) ==
  at[a].pc = "failed" \/ (at[a].pc = "release" /\ at[a].next = "failed")

(* An outcome that is about to be recorded is true. *)
Told(a) ==
  LET c == at[a].change IN
  /\ Succeeding(a) => WrittenAs(c)
  /\ Failing(a) /\ row[c].status = "APPLYING" /\ c \in replaced => PutBack(c)

FailedIsUndone == \A c \in replaced : row[c].status = "FAILED" => PutBack(c)
AppliedShown ==
  \A c \in ChangeSets : row[c].status \in {"APPLIED", "ROLLED_BACK"} => WrittenAs(c)

Evidence ==
  /\ Renaming /\ Standing /\ EntriesStay /\ Shown
  /\ \A a \in Attempts : Told(a)
  /\ FailedIsUndone /\ AppliedShown

LEMMA InitEvidence == Init => Evidence
BY DEF Init, Evidence, Renaming, Standing, EntriesStay, Shown, Told, FailedIsUndone,
       AppliedShown, NoRow, Idle, Succeeding, Failing

(* What was written and what was put back stays so. *)
LEMMA TraceKept ==
  ASSUME Typed, Replacement, NEW c \in ChangeSets, SameBody(c), replaced \subseteq replaced',
         \A d \in ChangeSets : Known(d) => SameBody(d)
  PROVE  /\ WrittenAs(c) => WrittenAs(c)'
         /\ PutBack(c) => PutBack(c)'
<1>1. \A d \in replaced : SameBody(d) /\ d \in replaced'
  BY DEF Typed, TypeOK, Replacement, FreshUnwritten, Fresh, Known
<1>2. ASSUME WrittenAs(c) PROVE WrittenAs(c)'
  BY <1>1, <1>2 DEF WrittenAs, SameBody
<1>3. ASSUME PutBack(c) PROVE PutBack(c)'
  BY <1>1, <1>3 DEF PutBack, SameBody
<1> QED
  BY <1>2, <1>3

(* A file that is back at what a change set found no longer shows its mark. *)
LEMMA BackIsNotLanded ==
  ASSUME NEW c \in ChangeSets, Stemmed(c), content[row[c].path] = row[c].before
  PROVE  ~Landed(c) /\ row[c].before # row[c].after
<1>1. PICK m \in ChangeSets : Root(m, c)
  BY DEF Stemmed
<1> QED
  BY <1>1, RootTells DEF Landed

(* A rename that moves the mark of another change set puts it back. *)
LEMMA RenameMoves ==
  ASSUME NEW c \in ChangeSets, NEW e \in ChangeSets, Stemmed(c), Stemmed(e), Known(c),
         row[c].path = row[e].path, row[c].status = "APPLYING", row[e].status = "APPLYING",
         \A m \in ChangeSets : m \in content[row[e].path] <=> m \in row[e].before,
         Landed(c), c # e
  PROVE  \/ \A m \in ChangeSets : (m \in row[c].before <=> m \notin row[c].after) =>
              (m \in row[e].after <=> m \in row[c].after)
         \/ Reverse(c, e) /\ row[e].of # NoTarget /\ e # row[c].of
<1>1. PICK m \in ChangeSets : Root(m, c)
  BY DEF Stemmed
<1>2. PICK n \in ChangeSets : Root(n, e)
  BY DEF Stemmed
<1>3. CASE m # n
  <2>1. m \in row[e].before <=> m \in row[e].after
    BY <1>2, <1>3, RootTells
  <2>2. m \in row[c].after <=> m \in row[e].before
    BY <1>1, RootTells DEF Landed
  <2>3. ASSUME NEW k \in ChangeSets, k \in row[c].before <=> k \notin row[c].after PROVE k = m
    BY <1>1, <2>3, RootTells
  <2> QED
    BY <2>1, <2>2, <2>3
<1>4. CASE m = n
  <2>1. Alike(c, e) \/ Reverse(c, e)
    BY <1>1, <1>2, <1>4 DEF Root, Alike, Reverse
  <2>2. ~Settled(c) /\ ~Settled(e)
    BY DEF Settled
  <2>3. m # c /\ m # e
    BY <1>1, <1>2, <1>4, <2>2 DEF Root
  <2>4. row[e].of # NoTarget
    BY <1>2, <1>4, <2>3 DEF Root
  <2>5. e # row[c].of
    BY <2>2, <1>1, <2>3 DEF Stemmed, Root
  <2> QED
    BY <2>1, <2>4, <2>5 DEF Alike
<1> QED
  BY <1>3, <1>4

Basis == Typed /\ Replacement /\ Exclusive /\ Kept /\ Course /\ Rooted

LEMMA AttemptEvidence ==
  ASSUME Basis, Evidence, NEW a \in Attempts, Attempt(a) \/ AttemptFails(a)
  PROVE  Evidence'
<1> DEFINE c == at[a].change
<1> USE DEF Basis
<1>s. Effects(a) /\ Arrives(a) /\ \A b \in Attempts : b # a => at'[b] = at[b]
  BY StepEffects, StepArrives
<1>c. at[a].pc # "idle" /\ c \in ChangeSets
  BY <1>s DEF Arrives, Typed, Placed
<1>t. content \in Contents /\ replaced \subseteq ChangeSets /\ \A d \in ChangeSets : row[d].path \in Paths
  BY DEF Typed, TypeOK
<1>r. \/ content' = content /\ replaced' = replaced
      \/ /\ Rename(a) /\ at[a].pc = "rename" /\ replaced' = replaced \cup {c}
         /\ row' = row /\ journal' = journal
         /\ content' = [content EXCEPT ![row[c].path] = row[c].after]
  BY <1>s DEF Effects, Rename
<1>b. \A d \in ChangeSets : SameBody(d)
  BY <1>s, <1>c, StepRows
<1>k. \A d \in ChangeSets : (WrittenAs(d) => WrittenAs(d)') /\ (PutBack(d) => PutBack(d)')
  BY <1>b, <1>r, TraceKept
<1>n. ASSUME NEW d \in replaced PROVE Known(d) /\ ~Fresh(d) /\ d \in ChangeSets
  BY <1>t DEF Replacement, FreshUnwritten, Fresh, Known
<1>a. \A d \in ChangeSets : ~Fresh(d) => Known(d) /\ Stemmed(d)
  BY DEF Fresh, Rooted, Known
<1>x. at[a].pc = "rename" => Executing(a) /\ row[c].status = "APPLYING" /\ ~Fresh(c)
  BY DEF Course, Sure, Executing, Fresh
<1> HIDE DEF c
<1>1. Renaming'
  <2> SUFFICES ASSUME NEW b \in Attempts, at'[b].pc = "rename", NEW m \in ChangeSets
               PROVE  m \in content'[row'[at'[b].change].path] <=> m \in row'[at'[b].change].before
    BY DEF Renaming
  <2>1. CASE b = a
    <3>1. at[a].pc = "prepare" /\ AsApproved(c) /\ at'[a].change = c
      BY <1>s, <2>1 DEF Arrives, c
    <3>2. content' = content /\ content[row[c].path] = row[c].before
      BY <1>r, <3>1 DEF AsApproved
    <3> QED
      BY <1>b, <1>c, <2>1, <3>1, <3>2 DEF SameBody
  <2>2. CASE b # a
    <3>1. at'[b] = at[b] /\ at[b].pc = "rename" /\ at[b].change \in ChangeSets
      BY <1>s, <2>2 DEF Typed, Placed
    <3>2. at[a].pc # "rename"
      BY <2>2, <3>1, HoldsAlone DEF Holding
    <3>3. content' = content
      BY <1>r, <3>2
    <3> QED
      BY <1>b, <3>1, <3>3 DEF SameBody, Evidence, Renaming
  <2> QED
    BY <2>1, <2>2
<1>2. Standing'
  <2> SUFFICES ASSUME NEW d \in replaced', row'[d].status = "APPLYING"
               PROVE  Landed(d)' \/ PutBack(d)'
    BY DEF Standing
  <2>1. CASE content' = content /\ replaced' = replaced
    <3>1. d \in ChangeSets /\ ~Fresh(d)
      BY <1>n, <2>1
    <3>2. row[d].status = "APPLYING"
      BY <1>s, <1>c, <3>1, StepRows DEF Fresh
    <3>3. Landed(d) \/ PutBack(d)
      BY <2>1, <3>2 DEF Evidence, Standing
    <3> QED
      BY <1>b, <1>k, <2>1, <3>1, <3>3 DEF Landed, SameBody
  <2>2. CASE /\ Rename(a) /\ at[a].pc = "rename" /\ replaced' = replaced \cup {c}
             /\ row' = row /\ journal' = journal
             /\ content' = [content EXCEPT ![row[c].path] = row[c].after]
    <3>1. content'[row[c].path] = row[c].after
      BY <1>c, <1>t, <2>2 DEF Contents
    <3>2. CASE d = c
      BY <2>2, <3>1, <3>2 DEF Landed
    <3>3. CASE d # c
      <4>1. d \in replaced /\ d \in ChangeSets /\ Stemmed(d) /\ Stemmed(c) /\ Known(d)
        BY <1>a, <1>c, <1>n, <1>x, <2>2, <3>3
      <4>2. CASE PutBack(d)
        BY <1>k, <4>1, <4>2
      <4>3. CASE Landed(d) /\ row[d].path # row[c].path
        <5>1. content'[row[d].path] = content[row[d].path]
          BY <1>t, <2>2, <4>1, <4>3 DEF Contents
        <5> QED
          BY <2>2, <4>3, <5>1 DEF Landed
      <4>4. CASE Landed(d) /\ row[d].path = row[c].path
        <5>1. \A m \in ChangeSets : m \in content[row[c].path] <=> m \in row[c].before
          BY <2>2 DEF Evidence, Renaming, c
        <5>2. row[d].status = "APPLYING" /\ row[c].status = "APPLYING"
          BY <1>x, <2>2
        <5>3. \/ \A m \in ChangeSets : (m \in row[d].before <=> m \notin row[d].after) =>
                    (m \in row[c].after <=> m \in row[d].after)
              \/ Reverse(d, c) /\ row[c].of # NoTarget /\ c # row[d].of
          BY <1>c, <3>3, <4>1, <4>4, <5>1, <5>2, RenameMoves
        <5>4. CASE \A m \in ChangeSets : (m \in row[d].before <=> m \notin row[d].after) =>
                     (m \in row[c].after <=> m \in row[d].after)
          BY <2>2, <3>1, <4>4, <5>4 DEF Landed
        <5>5. CASE Reverse(d, c) /\ row[c].of # NoTarget /\ c # row[d].of
          BY <2>2, <4>4, <5>5 DEF PutBack, Reverse
        <5> QED
          BY <5>3, <5>4, <5>5
      <4> QED
        BY <2>2, <4>1, <4>2, <4>3, <4>4 DEF Evidence, Standing
    <3> QED
      BY <3>2, <3>3
  <2> QED
    BY <1>r, <2>1, <2>2
<1>p. ASSUME NEW d \in ChangeSets, journal'[d] # NoJournal
      PROVE  \/ journal[d] # NoJournal
             \/ content[row[d].path] = row[d].before /\ content' = content /\ ~Fresh(d)
  <2> SUFFICES ASSUME journal[d] = NoJournal
               PROVE  content[row[d].path] = row[d].before /\ content' = content /\ ~Fresh(d)
    OBVIOUS
  <2>1. d = c /\ ((at[a].pc = "prepare" /\ AsApproved(d)) \/ at[a].pc = "verify")
    BY <1>s, <1>c, <1>p, StepJournals DEF c
  <2>2. at[a].pc # "verify"
    <3>1. at[a].pc = "verify" => journal[c] = Prepared
      BY DEF Replacement, Staged, c
    <3> QED
      BY <2>1, <3>1 DEF Prepared, NoJournal
  <2>3. content' = content
    BY <1>r, <2>1, <2>2
  <2>4. ~Fresh(c)
    BY <1>c, <2>1, <2>2 DEF Course, Claimed, c
  <2> QED
    BY <2>1, <2>2, <2>3, <2>4 DEF AsApproved
<1>v. \A p \in Paths : content'[p] \cap Savers = content[p] \cap Savers
  <2>1. CASE Rename(a) /\ at[a].pc = "rename" /\ content' = [content EXCEPT ![row[c].path] = row[c].after]
    <3>1. content[row[c].path] \cap Savers = row[c].after \cap Savers
      BY <1>c, <2>1 DEF Kept, Validated, Marked, c
    <3> QED
      BY <1>c, <1>t, <2>1, <3>1 DEF Contents
  <2> QED
    BY <1>r, <2>1
<1>3. EntriesStay'
  <2> SUFFICES ASSUME NEW d \in ChangeSets, journal'[d] # NoJournal, row'[d].path = Monthly
               PROVE  row'[d].before \cap Savers \subseteq content'[Monthly]
    BY DEF EntriesStay
  <2>1. row[d].path = Monthly /\ row'[d].before = row[d].before
    BY <1>b DEF SameBody
  <2>2. row[d].before \cap Savers \subseteq content[Monthly]
    BY <1>p, <2>1 DEF Evidence, EntriesStay
  <2>3. content'[Monthly] \cap Savers = content[Monthly] \cap Savers
    BY <1>v DEF Paths
  <2> QED
    BY <2>1, <2>2, <2>3
<1>4. Shown'
  <2> SUFFICES ASSUME NEW d \in ChangeSets, journal'[d] # NoJournal,
                      content'[row'[d].path] = row'[d].after
               PROVE  WrittenAs(d)'
    BY DEF Shown
  <2>1. row'[d].path = row[d].path /\ row'[d].after = row[d].after
    BY <1>b DEF SameBody
  <2>2. CASE content' = content
    <3>1. CASE journal[d] # NoJournal
      BY <1>k, <2>1, <2>2, <3>1 DEF Evidence, Shown
    <3>2. CASE content[row[d].path] = row[d].before /\ ~Fresh(d)
      BY <1>a, <2>1, <2>2, <3>2, BackIsNotLanded
    <3> QED
      BY <1>p, <3>1, <3>2
  <2>3. CASE /\ replaced' = replaced \cup {c} /\ row' = row /\ journal' = journal
             /\ content' = [content EXCEPT ![row[c].path] = row[c].after]
    <3>1. content'[row[c].path] = row[c].after
      BY <1>c, <1>t, <2>3 DEF Contents
    <3>2. CASE row[d].path = row[c].path
      BY <2>1, <2>3, <3>1, <3>2 DEF WrittenAs
    <3>3. CASE row[d].path # row[c].path
      <4>1. content'[row[d].path] = content[row[d].path]
        BY <1>t, <2>3, <3>3 DEF Contents
      <4> QED
        BY <1>k, <2>1, <2>3, <4>1 DEF Evidence, Shown
    <3> QED
      BY <3>2, <3>3
  <2> QED
    BY <1>r, <2>2, <2>3
<1>5. \A b \in Attempts : b # a => Told(b)'
  <2> SUFFICES ASSUME NEW b \in Attempts, b # a PROVE Told(b)'
    OBVIOUS
  <2>1. at'[b] = at[b] /\ Told(b)
    BY <1>s DEF Evidence
  <2>2. CASE ~Over(b)
    BY <2>1, <2>2 DEF Told, Succeeding, Failing, Over
  <2>3. CASE Over(b)
    <3>1. at[b].change \in ChangeSets /\ ~Fresh(at[b].change)
      BY <2>3 DEF Over, Typed, Placed, Course, Claimed
    <3>2. PICK d \in ChangeSets : d = at[b].change /\ ~Fresh(d)
      BY <3>1
    <3>3. Executing(a) => d # c
      BY <2>3, <3>2 DEF Course, Ended, c
    <3>4. d \in replaced' => d \in replaced
      BY <1>r, <1>x, <3>3
    <3>5. row'[d].status = "APPLYING" => row[d].status = "APPLYING"
      BY <1>s, <1>c, <3>2, StepRows DEF Fresh
    <3>6. (WrittenAs(d) => WrittenAs(d)') /\ (PutBack(d) => PutBack(d)')
      BY <1>k
    <3>7. /\ Succeeding(b) => WrittenAs(d)
          /\ Failing(b) /\ row[d].status = "APPLYING" /\ d \in replaced => PutBack(d)
      BY <2>1, <3>2 DEF Told
    <3>8. (Succeeding(b)' <=> Succeeding(b)) /\ (Failing(b)' <=> Failing(b))
      BY <2>1 DEF Succeeding, Failing
    <3>9. /\ Succeeding(b)' => WrittenAs(d)'
          /\ Failing(b)' /\ row'[d].status = "APPLYING" /\ d \in replaced' => PutBack(d)'
      BY <3>4, <3>5, <3>6, <3>7, <3>8
    <3> QED
      BY <2>1, <3>2, <3>9 DEF Told
  <2> QED
    BY <2>2, <2>3
<1>6. Told(a)'
  <2>0. PICK d \in ChangeSets : d = c
    BY <1>c
  <2>1. ASSUME Succeeding(a)' PROVE at'[a].change = d /\ WrittenAs(d)'
    <3>1. \/ at[a].pc = "release" /\ at[a].next = "applied"
          \/ at[a].pc = "recover" /\ ShowsAfter(c)
          \/ at[a].pc = "verify"
      BY <1>s, <2>1 DEF Arrives, Succeeding, c
    <3>2. WrittenAs(d)
      <4>1. CASE at[a].pc = "verify"
        BY <1>c, <2>0, <4>1 DEF Course, Sure, WrittenAs, c
      <4>2. CASE at[a].pc = "recover" /\ ShowsAfter(c)
        BY <1>c, <2>0, <4>2 DEF ShowsAfter, Evidence, Shown
      <4>3. CASE at[a].pc = "release" /\ at[a].next = "applied"
        BY <2>0, <4>3 DEF Evidence, Told, Succeeding, c
      <4> QED
        BY <3>1, <4>1, <4>2, <4>3
    <3>3. WrittenAs(d)'
      BY <1>k, <3>2
    <3>4. at'[a].change = d
      BY <1>s, <2>0, <2>1 DEF Arrives, Succeeding, c
    <3> QED
      BY <3>3, <3>4
  <2>2. ASSUME Failing(a)', row'[d].status = "APPLYING", d \in replaced'
        PROVE  PutBack(d)'
    <3>1. \/ at[a].pc = "release" /\ at[a].next = "failed"
          \/ at[a].pc = "recover" /\ ShowsBefore(c)
          \/ at[a].pc \in {"prepare", "rename"}
      BY <1>s, <2>2 DEF Arrives, Failing, c
    <3>2. content' = content /\ replaced' = replaced
      <4>1. ~Rename(a) \/ at'[a].pc = "verify"
        BY <1>c, GoFacts DEF Rename, AttemptPcs
      <4> QED
        BY <1>r, <2>2, <4>1 DEF Failing
    <3>3. at[a].pc \notin {"prepare", "rename"}
      BY <2>0, <2>2, <3>2 DEF Replacement, Staged, c
    <3>4. row[d].status = "APPLYING"
      BY <1>s, <1>c, <1>n, <2>2, <3>2, StepRows DEF Fresh
    <3>5. PutBack(d)
      <4>1. CASE at[a].pc = "release" /\ at[a].next = "failed"
        BY <2>0, <2>2, <3>2, <3>4, <4>1 DEF Evidence, Told, Failing, c
      <4>2. CASE at[a].pc = "recover" /\ ShowsBefore(c)
        <5>1. content[row[d].path] = row[d].before /\ Stemmed(d)
          BY <1>a, <1>n, <2>0, <2>2, <3>2, <4>2 DEF ShowsBefore
        <5>2. ~Landed(d)
          BY <5>1, BackIsNotLanded
        <5> QED
          BY <2>2, <3>2, <3>4, <5>2 DEF Evidence, Standing
      <4> QED
        BY <3>1, <3>3, <4>1, <4>2
    <3> QED
      BY <1>k, <3>5
  <2>3. at'[a].pc # "idle" => at'[a].change = d
    BY <1>s, <2>0 DEF Arrives, c
  <2>4. Failing(a)' => at'[a].pc # "idle"
    BY DEF Failing
  <2>5. /\ Succeeding(a)' => WrittenAs(at[a].change)'
        /\ Failing(a)' /\ row'[at'[a].change].status = "APPLYING" /\ at'[a].change \in replaced'
             => PutBack(at[a].change)'
    BY <2>1, <2>2, <2>3, <2>4
  <2> QED
    BY <2>5 DEF Told
<1>7. FailedIsUndone'
  <2> SUFFICES ASSUME NEW d \in replaced', row'[d].status = "FAILED" PROVE PutBack(d)'
    BY DEF FailedIsUndone
  <2>1. d \in ChangeSets
    BY <1>c, <1>n, <1>r
  <2>2. CASE row[d].status = "FAILED"
    <3>1. d \in replaced
      BY <1>r, <1>x, <2>2
    <3> QED
      BY <1>k, <2>1, <2>2, <3>1 DEF Evidence, FailedIsUndone
  <2>3. CASE row[d].status # "FAILED"
    <3>1. d = c /\ at[a].pc = "failed" /\ row[d].status = "APPLYING"
      BY <1>s, <1>c, <2>1, <2>3, StepRows DEF c
    <3>2. replaced' = replaced
      BY <1>r, <3>1
    <3> QED
      BY <1>k, <2>1, <3>1, <3>2 DEF Evidence, Told, Succeeding, Failing, c
  <2> QED
    BY <2>2, <2>3
<1>8. AppliedShown'
  <2> SUFFICES ASSUME NEW d \in ChangeSets, row'[d].status \in {"APPLIED", "ROLLED_BACK"}
               PROVE  WrittenAs(d)'
    BY DEF AppliedShown, WrittenAs
  <2>1. \/ row[d].status \in {"APPLIED", "ROLLED_BACK"}
        \/ d = c /\ at[a].pc \in {"applied", "recovered"}
    BY <1>s, <1>c, StepRows DEF c
  <2>2. WrittenAs(d)
    BY <2>1 DEF Evidence, AppliedShown, WrittenAs, Told, Succeeding, Failing, c
  <2> QED
    BY <1>k, <2>2
<1> QED
  BY <1>1, <1>2, <1>3, <1>4, <1>5, <1>6, <1>7, <1>8 DEF Evidence

(* A step that writes no file, no journal and no row but an unclaimed one. *)
LEMMA ChangeEvidence ==
  ASSUME Basis, Evidence, NEW c \in ChangeSets, Change(c) PROVE Evidence'
<1> USE DEF Basis
<1>f. /\ Fresh(c) /\ Fresh(c)' /\ UNCHANGED <<content, journal, at, replaced>>
      /\ \A d \in ChangeSets : d # c => row'[d] = row[d]
      /\ Known(c) => SameBody(c)
  BY ChangeRows DEF files, history, Known
<1>c. c \notin replaced /\ journal[c] = NoJournal
  BY <1>f DEF Replacement, FreshUnwritten, Course, NoTrace
<1>k. ASSUME NEW d \in ChangeSets, d # c
      PROVE  (WrittenAs(d) => WrittenAs(d)') /\ (PutBack(d) => PutBack(d)') /\ row'[d] = row[d]
  <2>1. \A e \in ChangeSets : Known(e) => SameBody(e)
    BY <1>f DEF SameBody
  <2>2. SameBody(d)
    BY <1>f, <1>k DEF SameBody
  <2> QED
    BY <1>f, <1>k, <2>1, <2>2, TraceKept
<1>t. replaced \subseteq ChangeSets
  BY DEF Typed, TypeOK
<1>a. ASSUME NEW a \in Attempts, at[a].pc \notin {"idle", "claim"}
      PROVE  at[a].change \in ChangeSets /\ at[a].change # c
  BY <1>a, <1>f DEF Typed, Placed, Course, Claimed
<1>1. Renaming'
  <2> SUFFICES ASSUME NEW a \in Attempts, at[a].pc = "rename"
               PROVE  row'[at[a].change] = row[at[a].change]
    BY <1>f DEF Evidence, Renaming
  <2> QED
    BY <1>a, <1>k
<1>2. Standing'
  BY <1>c, <1>f, <1>k, <1>t DEF Evidence, Standing, Landed
<1>3. EntriesStay'
  BY <1>c, <1>f, <1>k DEF Evidence, EntriesStay
<1>4. Shown'
  BY <1>c, <1>f, <1>k DEF Evidence, Shown
<1>5. ASSUME NEW a \in Attempts PROVE Told(a)'
  <2>1. CASE at[a].pc \notin {"release", "applied", "recovered", "failed"}
    BY <1>f, <2>1 DEF Told, Succeeding, Failing
  <2>2. CASE at[a].pc \in {"release", "applied", "recovered", "failed"}
    <3>1. PICK d \in ChangeSets : d = at[a].change /\ d # c
      BY <1>a, <2>2
    <3>2. (WrittenAs(d) => WrittenAs(d)') /\ (PutBack(d) => PutBack(d)') /\ row'[d] = row[d]
      BY <1>k, <3>1
    <3>3. Told(a)
      BY DEF Evidence
    <3> QED
      BY <1>f, <3>1, <3>2, <3>3 DEF Told, Succeeding, Failing
  <2> QED
    BY <2>1, <2>2
<1>6. FailedIsUndone'
  BY <1>c, <1>f, <1>k, <1>t DEF Evidence, FailedIsUndone
<1>7. AppliedShown'
  <2> SUFFICES ASSUME NEW d \in ChangeSets, row'[d].status \in {"APPLIED", "ROLLED_BACK"}
               PROVE  WrittenAs(d)'
    BY DEF AppliedShown, WrittenAs
  <2>1. d # c
    BY <1>f DEF Fresh
  <2> QED
    BY <1>k, <2>1 DEF Evidence, AppliedShown, WrittenAs
<1> QED
  BY <1>1, <1>2, <1>3, <1>4, <1>5, <1>6, <1>7 DEF Evidence

(* A step that only adds marks of savers and editors to the files. *)
LEMMA AddedEvidence ==
  ASSUME Basis, Evidence, UNCHANGED <<row, journal, at, replaced>>,
         \A p \in Paths : content[p] \subseteq content'[p],
         \A p \in Paths : \A m \in ChangeSets : m \in content'[p] => m \in content[p],
         \A d \in ChangeSets : journal[d] # NoJournal
           /\ content'[row[d].path] = row[d].after => content'[row[d].path] = content[row[d].path]
  PROVE  Evidence'
<1> USE DEF Basis
<1>t. /\ replaced \subseteq ChangeSets /\ Monthly \in Paths
      /\ \A d \in ChangeSets : row[d].path \in Paths
  BY DEF Typed, TypeOK, Paths
<1>0. \A d : (WrittenAs(d)' <=> WrittenAs(d)) /\ (PutBack(d)' <=> PutBack(d))
  BY DEF WrittenAs, PutBack
<1>1. Renaming'
  <2> SUFFICES ASSUME NEW a \in Attempts, at[a].pc = "rename", NEW m \in ChangeSets
               PROVE  m \in content'[row[at[a].change].path] <=> m \in row[at[a].change].before
    BY DEF Renaming
  <2>1. at[a].change \in ChangeSets
    BY DEF Typed, Placed
  <2> QED
    BY <1>t, <2>1 DEF Evidence, Renaming
<1>2. \A d \in ChangeSets : Landed(d) => Landed(d)'
  BY <1>t DEF Landed
<1>3. Standing'
  BY <1>0, <1>2, <1>t DEF Evidence, Standing
<1>4. EntriesStay'
  BY <1>t DEF Evidence, EntriesStay
<1>5. Shown'
  BY <1>0, <1>t DEF Evidence, Shown
<1>6. \A a \in Attempts : Told(a)'
  BY <1>0 DEF Evidence, Told, Succeeding, Failing
<1>7. FailedIsUndone' /\ AppliedShown'
  BY <1>0 DEF Evidence, FailedIsUndone, AppliedShown
<1> QED
  BY <1>1, <1>3, <1>4, <1>5, <1>6, <1>7 DEF Evidence

LEMMA SaverEvidence ==
  ASSUME Basis, Evidence, NEW s \in Savers, Save(s) \/ SaverCrashes(s) PROVE Evidence'
<1> USE DEF Basis
<1>t. content \in Contents /\ Monthly \in Paths /\ \A d \in ChangeSets : row[d].path \in Paths
  BY DEF Typed, TypeOK, Paths
<1>1. UNCHANGED <<row, journal, at, replaced>>
  BY DEF Save, SaverAcquires, JudgeLock, RemoveStaleLock, SaverGivesUp, AppendEntry,
         SaverReleases, SaverCrashes, files, history
<1>2. content' = content \/ content' = [content EXCEPT ![Monthly] = @ \cup {s}]
  BY DEF Save, SaverAcquires, JudgeLock, RemoveStaleLock, SaverGivesUp, AppendEntry,
         SaverReleases, SaverCrashes, files
<1>3. s \notin ChangeSets
  BY MemoryAssumption
<1>4. CASE content' = content
  BY <1>1, <1>4, AddedEvidence
<1>5. CASE content' = [content EXCEPT ![Monthly] = @ \cup {s}]
  <2>1. \A p \in Paths : content'[p] = IF p = Monthly THEN content[Monthly] \cup {s} ELSE content[p]
    BY <1>t, <1>5 DEF Contents
  <2>2. ASSUME NEW d \in ChangeSets, journal[d] # NoJournal, content'[row[d].path] = row[d].after
        PROVE  content'[row[d].path] = content[row[d].path]
    <3>1. CASE row[d].path = Monthly
      <4>1. s \in row[d].before
        BY <2>1, <2>2, <3>1, <1>t DEF Kept, Marked
      <4>2. s \in content[Monthly]
        BY <2>2, <3>1, <4>1 DEF Evidence, EntriesStay
      <4> QED
        BY <1>t, <2>1, <3>1, <4>2
    <3>2. CASE row[d].path # Monthly
      BY <1>t, <2>1, <3>2
    <3> QED
      BY <3>1, <3>2
  <2>3. /\ \A p \in Paths : content[p] \subseteq content'[p]
        /\ \A p \in Paths : \A m \in ChangeSets : m \in content'[p] => m \in content[p]
    BY <1>3, <2>1
  <2> QED
    BY <1>1, <2>2, <2>3, AddedEvidence
<1> QED
  BY <1>2, <1>4, <1>5

LEMMA NextEvidence == Basis /\ Evidence /\ [Next]_vars => Evidence'
<1> SUFFICES ASSUME Basis, Evidence, [Next]_vars PROVE Evidence'
  OBVIOUS
<1>t. content \in Contents /\ \A d \in ChangeSets : row[d].path \in Paths
  BY DEF Basis, Typed, TypeOK
<1>1. ASSUME NEW a \in Attempts, NEW c \in ChangeSets, Start(a, c) PROVE Evidence'
  <2>1. /\ UNCHANGED <<row, content, journal, replaced>>
        /\ at'[a].pc \in {"claim", "reconcile"} /\ \A b \in Attempts : b # a => at'[b] = at[b]
    BY <1>1, StartFacts DEF Start, Basis, history
  <2>2. \A d : (WrittenAs(d)' <=> WrittenAs(d)) /\ (PutBack(d)' <=> PutBack(d))
               /\ (Landed(d)' <=> Landed(d))
    BY <2>1 DEF WrittenAs, PutBack, Landed
  <2>3. Renaming' /\ \A b \in Attempts : Told(b)'
    BY <2>1, <2>2 DEF Evidence, Renaming, Told, Succeeding, Failing
  <2>4. Standing' /\ EntriesStay' /\ Shown'
    BY <2>1, <2>2 DEF Evidence, Standing, EntriesStay, Shown
  <2>5. FailedIsUndone' /\ AppliedShown'
    BY <2>1, <2>2 DEF Evidence, FailedIsUndone, AppliedShown
  <2> QED
    BY <2>3, <2>4, <2>5 DEF Evidence
<1>2. ASSUME NEW e \in Editors, NEW p \in Paths, Edit(e, p) PROVE Evidence'
  <2>1. /\ UNCHANGED <<row, journal, at, replaced>>
        /\ \A q \in Paths : content'[q] = IF q = p THEN content[p] \cup {e} ELSE content[q]
        /\ e \notin content[p] /\ \A d \in ChangeSets : e \notin row[d].after
    BY <1>2, <1>t DEF Edit, Contents, history
  <2>2. e \notin ChangeSets
    BY MemoryAssumption
  <2>3. ASSUME NEW d \in ChangeSets, content'[row[d].path] = row[d].after
        PROVE  content'[row[d].path] = content[row[d].path]
    BY <1>t, <2>1, <2>3
  <2>4. /\ \A q \in Paths : content[q] \subseteq content'[q]
        /\ \A q \in Paths : \A m \in ChangeSets : m \in content'[q] => m \in content[q]
    BY <2>1, <2>2
  <2> QED
    BY <2>1, <2>3, <2>4, AddedEvidence
<1>3. CASE UNCHANGED vars
  BY <1>3, AddedEvidence DEF vars
<1>4. CASE Next
  BY <1>4, <1>1, <1>2, ChangeEvidence, AttemptEvidence, SaverEvidence DEF Next
<1> QED
  BY <1>3, <1>4

(* As long as no living holder is robbed of the lock file, the files, the  *)
(* journals and the rows agree, whatever change sets, savers and editors   *)
(* do between the crash of an attempt and its recovery.                    *)
THEOREM EvidenceHolds == Spec => [](Unrobbed => Basis /\ Evidence)
<1> DEFINE Some == Typed /\ Replacement
           Rest == Exclusive /\ Kept /\ Course /\ Rooted /\ Unmarked /\ Evidence
           All == Some /\ (Unrobbed => Rest)
<1>1. Init => All
  BY InitTyped, InitReplacement, InitExclusive, InitKept, InitCourse, InitRooted, InitEvidence
<1>2. All /\ [Next]_vars => All'
  <2> SUFFICES ASSUME All, [Next]_vars PROVE All'
    OBVIOUS
  <2>1. Typed' /\ Replacement'
    BY NextTyped, NextReplacement
  <2>2. ASSUME Unrobbed' PROVE Rest'
    <3>1. Rest
      BY <2>2, RobbedStays DEF Unrobbed
    <3>2. Exclusive' /\ Kept'
      BY <2>2, <3>1, NextExclusive, NextKept
    <3>3. Course'
      BY <2>2, <3>1, NextCourse
    <3>4. Unmarked' /\ Rooted'
      BY <2>2, <3>1, NextRooted
    <3>5. Evidence'
      BY <2>2, <3>1, NextEvidence DEF Basis
    <3> QED
      BY <3>2, <3>3, <3>4, <3>5
  <2> QED
    BY <2>1, <2>2
<1>3. All => (Unrobbed => Basis /\ Evidence)
  BY DEF Basis
<1> HIDE DEF All
<1> QED
  BY <1>1, <1>2, <1>3, PTL DEF Spec

(* A change set recorded as APPLIED was written (SettleApplied, after an   *)
(* execution or a recovery that found the new contents in the file), with  *)
(* any number of savers, until a living holder is robbed of the lock file. *)
THEOREM AppliedAlwaysWritten == Spec => []AppliedIsWritten
<1>1. (Unrobbed => Basis /\ Evidence) => AppliedIsWritten
  BY DEF Evidence, AppliedShown, WrittenAs, AppliedIsWritten
<1> QED
  BY <1>1, EvidenceHolds, PTL

(* A change set recorded as FAILED did not replace its file, unless it is  *)
(* a rollback and another one has put back what it replaced (SettleFailed, *)
(* after a failed execution or a recovery that found the old contents).    *)
THEOREM FailedIsNeverWritten == Spec => []FailedNeverWritten
<1>1. ASSUME Basis, Evidence, NEW c \in replaced, row[c].status = "FAILED"
      PROVE  row[c].of # NoTarget /\ PutBack(c)
  <2>1. PutBack(c)
    BY <1>1 DEF Evidence, FailedIsUndone
  <2>2. PICK d \in replaced : /\ row[d].of # NoTarget /\ d # row[c].of
                              /\ row[d].path = row[c].path /\ Reverse(d, c)
    BY <2>1 DEF PutBack, Reverse
  <2>3. c \in ChangeSets /\ d \in ChangeSets /\ Known(c) /\ Known(d)
    BY <1>1 DEF Basis, Typed, TypeOK, Replacement, FreshUnwritten, Fresh, Known
  <2>4. (\E m \in ChangeSets : Root(m, c)) /\ (\E m \in ChangeSets : Root(m, d))
    BY <1>1, <2>3 DEF Basis, Rooted, Stemmed
  <2>5. PICK m \in ChangeSets : Root(m, c)
    BY <2>4
  <2>6. PICK n \in ChangeSets : Root(n, d)
    BY <2>4
  <2>7. m = n
    BY <2>2, <2>5, <2>6, RootTells DEF Reverse
  <2>8. ~Settled(c)
    BY <1>1 DEF Settled
  <2> QED
    BY <2>1, <2>2, <2>5, <2>6, <2>7, <2>8 DEF Root
<1>2. (Unrobbed => Basis /\ Evidence) => FailedNeverWritten
  <2> SUFFICES ASSUME Basis, Evidence PROVE FailedNeverWritten
    BY DEF FailedNeverWritten
  <2> QED
    BY <1>1 DEF FailedNeverWritten
<1> QED
  BY <1>2, EvidenceHolds, PTL
=============================================================================
