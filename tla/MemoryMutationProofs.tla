------------------------ MODULE MemoryMutationProofs ------------------------
(***************************************************************************)
(* What MemoryMutation guarantees for any number of change sets, attempts, *)
(* savers and editors, and any number of faults.                           *)
(***************************************************************************)
EXTENDS MemoryMutation, FiniteSetTheorems, TLAPS

-----------------------------------------------------------------------------
(* Types *)

Rows == [status : Status, path : Paths, before : SUBSET Marks, after : SUBSET Marks,
         expected : Contents \cup {NoSources}, result : Contents \cup {NoSources},
         of : ChangeSets \cup {NoTarget}]

Journals == [phase : {"NONE", "PREPARED", "WRITTEN"}, result : Contents \cup {NoSources}]

Places == [pc : AttemptPcs, change : ChangeSets \cup {NoChange},
           next : AttemptPcs, result : Contents \cup {NoSources}]

(* An attempt under way has its change set, and after its lock goes on to an outcome. *)
Placed ==
  \A a \in Attempts :
    /\ at[a].pc # "idle" => at[a].change \in ChangeSets
    /\ at[a].pc = "release" => at[a].next \in {"failed", "applied", "reconcile"}

Typed == TypeOK /\ Placed

(* The transitions that updateMemoryChangeSet() allows. *)
LEMMA Transitions ==
  ASSUME NEW from \in Status, NEW to \in MayBecome(from)
  PROVE  /\ to \in Status
         /\ to \in {"APPROVED", "REJECTED"} => from \in {"PROPOSED", "APPROVED"}
         /\ to = "APPLYING" => from = "APPROVED"
         /\ to \in {"APPLIED", "FAILED"} => from = "APPLYING"
         /\ to \notin {"NONE", "PROPOSED", "ROLLED_BACK"}
BY DEF MayBecome, Status

(* Where an attempt may be sent. *)
LEMMA GoFacts ==
  ASSUME Typed, NEW a \in Attempts, NEW pc \in AttemptPcs, Go(a, pc), at[a].pc # "idle",
         pc # "release"
  PROVE  /\ at' \in [Attempts -> Places]
         /\ Placed'
         /\ at' = [at EXCEPT ![a].pc = pc]
         /\ at'[a].pc = pc /\ at'[a].change = at[a].change
         /\ \A b \in Attempts : b # a => at'[b] = at[b]
<1>1. at[a] \in Places /\ at \in [Attempts -> Places]
  BY DEF Typed, TypeOK, Places
<1>2. at' = [at EXCEPT ![a] = [at[a] EXCEPT !.pc = pc]]
  BY DEF Go
<1>3. [at[a] EXCEPT !.pc = pc] \in Places
  BY <1>1 DEF Places
<1>4. at' \in [Attempts -> Places] /\ \A b \in Attempts : b # a => at'[b] = at[b]
  BY <1>1, <1>2, <1>3
<1>5. at'[a].pc = pc /\ at'[a].change = at[a].change /\ at'[a].next = at[a].next
  BY <1>1, <1>2 DEF Places
<1>6. Placed'
  BY <1>4, <1>5 DEF Typed, Placed
<1> QED
  BY <1>4, <1>5, <1>6 DEF Go

(* An attempt that ends. *)
LEMMA EndFacts ==
  ASSUME Typed, NEW a \in Attempts, End(a)
  PROVE  /\ at' \in [Attempts -> Places]
         /\ Placed'
         /\ at'[a].pc = "idle"
         /\ \A b \in Attempts : b # a => at'[b] = at[b]
<1>1. Idle \in Places
  BY DEF Idle, Places, AttemptPcs
<1>2. at' = [at EXCEPT ![a] = Idle] /\ at \in [Attempts -> Places]
  BY DEF End, Typed, TypeOK, Places
<1>3. at'[a] = Idle /\ \A b \in Attempts : b # a => at'[b] = at[b]
  BY <1>2
<1> QED
  BY <1>1, <1>2, <1>3 DEF Typed, Placed, Idle

(* An attempt that gives its lock back and goes on to an outcome. *)
LEMMA ReleaseFacts ==
  ASSUME Typed, NEW a \in Attempts, NEW next \in {"failed", "applied", "reconcile"},
         NEW result \in Contents \cup {NoSources}, at[a].pc # "idle",
         at' = [at EXCEPT ![a].pc = "release", ![a].next = next, ![a].result = result]
  PROVE  /\ at' \in [Attempts -> Places]
         /\ Placed'
         /\ at'[a].pc = "release" /\ at'[a].change = at[a].change
         /\ \A b \in Attempts : b # a => at'[b] = at[b]
<1>1. at[a] \in Places /\ at \in [Attempts -> Places]
  BY DEF Typed, TypeOK, Places
<1>2. at' = [at EXCEPT ![a] = [at[a] EXCEPT !.pc = "release", !.next = next, !.result = result]]
  OBVIOUS
<1>3. [at[a] EXCEPT !.pc = "release", !.next = next, !.result = result] \in Places
  BY <1>1 DEF Places, AttemptPcs
<1>4. at' \in [Attempts -> Places] /\ \A b \in Attempts : b # a => at'[b] = at[b]
  BY <1>1, <1>2, <1>3
<1>5. at'[a].pc = "release" /\ at'[a].change = at[a].change /\ at'[a].next = next
  BY <1>1, <1>2 DEF Places
<1> QED
  BY <1>4, <1>5 DEF Typed, Placed

LEMMA ReleaseWithFacts ==
  ASSUME Typed, NEW a \in Attempts, NEW next \in {"failed", "applied", "reconcile"},
         at[a].pc # "idle", ReleaseWith(a, next)
  PROVE  /\ at' \in [Attempts -> Places]
         /\ Placed'
         /\ at'[a].pc = "release" /\ at'[a].change = at[a].change
         /\ \A b \in Attempts : b # a => at'[b] = at[b]
<1>1. at[a] \in Places /\ at \in [Attempts -> Places]
  BY DEF Typed, TypeOK, Places
<1>2. at' = [at EXCEPT ![a] = [at[a] EXCEPT !.pc = "release", !.next = next]]
  BY DEF ReleaseWith
<1>3. [at[a] EXCEPT !.pc = "release", !.next = next] \in Places
  BY <1>1 DEF Places, AttemptPcs
<1>4. at' \in [Attempts -> Places] /\ \A b \in Attempts : b # a => at'[b] = at[b]
  BY <1>1, <1>2, <1>3
<1>5. at'[a].pc = "release" /\ at'[a].change = at[a].change /\ at'[a].next = next
  BY <1>1, <1>2 DEF Places
<1> QED
  BY <1>4, <1>5 DEF Typed, Placed

(* updateMemoryChangeSet() to another status. *)
LEMMA StatusFacts ==
  ASSUME TypeOK, NEW c \in ChangeSets, NEW to \in Status, row' = [row EXCEPT ![c].status = to]
  PROVE  /\ row' \in [ChangeSets -> Rows]
         /\ row'[c].status = to
         /\ \A d \in ChangeSets : row'[d].of = row[d].of /\ (d # c => row'[d] = row[d])
<1>1. row \in [ChangeSets -> Rows] /\ row[c] \in Rows
  BY DEF TypeOK, Rows
<1>2. [row[c] EXCEPT !.status = to] \in Rows
  BY <1>1 DEF Rows
<1>3. row' = [row EXCEPT ![c] = [row[c] EXCEPT !.status = to]]
  OBVIOUS
<1> QED
  BY <1>1, <1>2, <1>3 DEF Rows

(* updateMemoryChangeSet() to APPLIED, with the target of a rollback. *)
LEMMA AppliedFacts ==
  ASSUME TypeOK, NEW c \in ChangeSets, NEW sources \in Contents \cup {NoSources},
         Appliable(c, sources), row' = Applied(c, sources)
  PROVE  /\ row' \in [ChangeSets -> Rows]
         /\ row[c].status = "APPLYING" /\ row'[c].status = "APPLIED"
         /\ row[c].of # c
         /\ row[c].of # NoTarget => row[row[c].of].status = "APPLIED"
         /\ \A d \in ChangeSets :
              /\ row'[d].of = row[d].of
              /\ d # c /\ d = row[c].of => row'[d].status = "ROLLED_BACK"
              /\ d # c /\ d # row[c].of => row'[d] = row[d]
<1>1. row \in [ChangeSets -> Rows] /\ \A d \in ChangeSets : row[d] \in Rows
  BY DEF TypeOK, Rows
<1>2. row[c].status = "APPLYING"
  BY <1>1, Transitions DEF Appliable, Rows
<1>3. row[c].of # NoTarget => row[row[c].of].status = "APPLIED"
  BY DEF Appliable
<1>4. row[c].of # c
  BY <1>2, <1>3, MemoryAssumption
<1>5. ASSUME NEW d \in ChangeSets
      PROVE  /\ row'[d] \in Rows
             /\ row'[d].of = row[d].of
             /\ d = c => row'[d].status = "APPLIED"
             /\ d # c /\ d = row[c].of => row'[d].status = "ROLLED_BACK"
             /\ d # c /\ d # row[c].of => row'[d] = row[d]
  <2>1. CASE d = c
    <3>1. row'[d] = [row[c] EXCEPT !.status = "APPLIED", !.result = sources]
      BY <2>1 DEF Applied
    <3> QED
      BY <2>1, <3>1, <1>1 DEF Rows, Status
  <2>2. CASE d # c /\ d = row[c].of
    <3>1. row'[d] = [row[d] EXCEPT !.status = "ROLLED_BACK"]
      BY <2>2 DEF Applied
    <3> QED
      BY <2>2, <3>1, <1>1 DEF Rows, Status
  <2>3. CASE d # c /\ d # row[c].of
    <3>1. row'[d] = row[d]
      BY <2>3 DEF Applied
    <3> QED
      BY <2>3, <3>1, <1>1
  <2> QED
    BY <2>1, <2>2, <2>3
<1>6. row' \in [ChangeSets -> Rows]
  BY <1>5 DEF Applied
<1> QED
  BY <1>2, <1>3, <1>4, <1>5, <1>6

(* The system starts idle and empty. *)
LEMMA InitTyped == Init => Typed
<1> SUFFICES ASSUME Init PROVE Typed
  OBVIOUS
<1>1. [p \in Paths |-> {}] \in Contents
  BY DEF Contents
<1>2. NoRow \in Rows /\ NoJournal \in Journals /\ Idle \in Places
  BY DEF NoRow, Rows, NoJournal, Journals, Idle, Places, AttemptPcs, Status, Paths
<1>3. 0 \in 0..MaxFaults
  BY MemoryAssumption
<1> QED
  BY <1>1, <1>2, <1>3 DEF Init, Typed, TypeOK, Placed, Rows, Journals, Places, Idle

(* The bounded counter of faults. *)
LEMMA FaultFacts == ASSUME TypeOK, Fault PROVE faults' \in 0..MaxFaults
BY MemoryAssumption DEF TypeOK, Fault

(* The actions of the change-set row keep every variable in its domain. *)
LEMMA ChangeTyped == ASSUME Typed, NEW c \in ChangeSets, Change(c) PROVE Typed'
<1>0. row \in [ChangeSets -> Rows] /\ (\A d \in ChangeSets : row[d] \in Rows) /\ content \in Contents
  BY DEF Typed, TypeOK, Rows
<1>1. ASSUME NEW p \in Paths, Propose(c, p) PROVE row' \in [ChangeSets -> Rows]
  <2>1. [status |-> "PROPOSED", path |-> p, before |-> content[p],
        after |-> content[p] \cup {c}, expected |-> content,
        result |-> NoSources, of |-> NoTarget] \in Rows
    BY <1>0 DEF Rows, Contents, Marks, Status
  <2> QED
    BY <1>0, <1>1, <2>1 DEF Propose
<1>2. ASSUME NEW t \in ChangeSets, ProposeRollback(c, t) PROVE row' \in [ChangeSets -> Rows]
  <2>1. [status |-> "PROPOSED", path |-> row[t].path, before |-> row[t].after,
        after |-> row[t].before, expected |-> row[t].result,
        result |-> NoSources, of |-> t] \in Rows
    BY <1>0 DEF Rows, Status
  <2> QED
    BY <1>0, <1>2, <2>1 DEF ProposeRollback
<1>3. ASSUME NEW verdict \in Status, Review(c, verdict) PROVE row' \in [ChangeSets -> Rows]
  BY <1>3, StatusFacts DEF Review, Typed
<1>4. /\ row' \in [ChangeSets -> Rows]
      /\ UNCHANGED <<files, lock, at, saver, history, faults>>
  BY <1>1, <1>2, <1>3 DEF Change, Propose, ProposeRollback, Review
<1> QED
  BY <1>4 DEF Typed, TypeOK, Placed, Rows, files, history

(* The journal keeps its shape. *)
LEMMA JournalFacts ==
  ASSUME TypeOK, NEW c \in ChangeSets, NEW j \in {NoJournal, Prepared, Written(content)},
         journal' = [journal EXCEPT ![c] = j]
  PROVE  /\ journal' \in [ChangeSets -> Journals]
         /\ journal'[c] = j
         /\ \A d \in ChangeSets : d # c => journal'[d] = journal[d]
<1>1. j \in Journals /\ journal \in [ChangeSets -> Journals]
  BY DEF TypeOK, Journals, NoJournal, Prepared, Written
<1> QED
  BY <1>1

(* The three shapes a journal has are different. *)
LEMMA JournalShapes ==
  /\ NoJournal # Prepared
  /\ \A sources : Written(sources) \notin {NoJournal, Prepared}
  /\ Prepared.phase = "PREPARED" /\ NoJournal.phase = "NONE"
BY DEF NoJournal, Prepared, Written

(* The steps of an attempt keep every variable in its domain. *)
LEMMA AttemptTyped == ASSUME Typed, NEW a \in Attempts, Attempt(a) PROVE Typed'
<1> DEFINE c == at[a].change
<1>t. /\ TypeOK /\ Placed
      /\ row \in [ChangeSets -> Rows] /\ journal \in [ChangeSets -> Journals]
      /\ at \in [Attempts -> Places] /\ content \in Contents
      /\ \A b \in Attempts : at[b] \in Places
      /\ \A d \in ChangeSets : row[d] \in Rows
  BY DEF Typed, TypeOK, Rows, Journals, Places
<1>p. at[a].pc # "idle" => c \in ChangeSets
  BY <1>t DEF Placed
<1>d. ASSUME /\ content' \in Contents /\ row' \in [ChangeSets -> Rows]
             /\ journal' \in [ChangeSets -> Journals]
             /\ lock' \in {Free, Orphan} \cup Attempts \cup Savers
             /\ at' \in [Attempts -> Places] /\ Placed'
             /\ saver' = saver /\ saved' = saved /\ replaced' \subseteq ChangeSets
             /\ asked' \subseteq ChangeSets /\ robbed' = robbed /\ faults' = faults
      PROVE  Typed'
  BY <1>d, <1>t DEF Typed, TypeOK, Rows, Journals, Places
<1>l. ASSUME NEW pc \in {"lock", "lockFinalize", "lockRecover", "prepare", "recover", "finalize",
                         "reconcile", "rename", "verify", "failed"},
             Go(a, pc), at[a].pc # "idle"
      PROVE  at' \in [Attempts -> Places] /\ Placed'
  <2>1. pc \in AttemptPcs /\ pc # "release"
    BY DEF AttemptPcs
  <2> QED
    BY <2>1, <1>l, GoFacts
<1>u. /\ content' = content => content' \in Contents
      /\ row' = row => row' \in [ChangeSets -> Rows]
      /\ journal' = journal => journal' \in [ChangeSets -> Journals]
      /\ lock' \in {lock, a, Free} => lock' \in {Free, Orphan} \cup Attempts \cup Savers
      /\ replaced' = replaced => replaced' \subseteq ChangeSets
      /\ asked' = asked => asked' \subseteq ChangeSets
  BY <1>t DEF TypeOK
<1> HIDE DEF c
<1> USE DEF files, history
<1>1. ASSUME Claim(a) PROVE Typed'
  <2>1. at[a].pc = "claim" /\ UNCHANGED <<files, lock, saver, history, faults>>
    BY <1>1 DEF Claim
  <2>2. CASE "APPLYING" \in MayBecome(row[c].status)
    <3>1. row' = [row EXCEPT ![c].status = "APPLYING"] /\ Go(a, "lock")
      BY <1>1, <2>2 DEF Claim, c
    <3>2. row' \in [ChangeSets -> Rows]
      BY <3>1, <2>1, <1>p, <1>t, StatusFacts DEF Status
    <3> QED
      BY <2>1, <3>1, <3>2, <1>d, <1>l, <1>u
  <2>3. CASE "APPLYING" \notin MayBecome(row[c].status)
    <3>1. row' = row /\ End(a)
      BY <1>1, <2>3 DEF Claim, c
    <3> QED
      BY <2>1, <3>1, <1>d, <1>u, EndFacts
  <2> QED
    BY <2>2, <2>3
<1>2. ASSUME AcquireLock(a) PROVE Typed'
  <2>1. Opened(a) \in {"prepare", "recover", "finalize"} /\ at[a].pc # "idle"
    BY <1>2 DEF AcquireLock, Opened, Locking
  <2> QED
    BY <2>1, <1>2, <1>d, <1>l, <1>u DEF AcquireLock
<1>3. ASSUME LockTimeout(a) PROVE Typed'
  <2>1. at[a].pc # "idle" /\ (Go(a, "reconcile") \/ End(a))
    BY <1>3 DEF LockTimeout, Locking
  <2> QED
    BY <2>1, <1>3, <1>d, <1>l, <1>u, EndFacts DEF LockTimeout
<1>4. ASSUME Prepare(a) PROVE Typed'
  <2>1. at[a].pc = "prepare" /\ c \in ChangeSets
    BY <1>4, <1>p DEF Prepare
  <2>2. \/ journal' = [journal EXCEPT ![c] = Prepared] /\ Go(a, "rename")
        \/ journal' = journal /\ ReleaseWith(a, "failed")
    BY <1>4 DEF Prepare, c
  <2>3. journal' \in [ChangeSets -> Journals]
    BY <2>1, <2>2, <1>t, <1>u, JournalFacts
  <2>4. at' \in [Attempts -> Places] /\ Placed'
    BY <2>1, <2>2, <1>l, ReleaseWithFacts
  <2> QED
    BY <1>4, <2>3, <2>4, <1>d, <1>u DEF Prepare
<1>5. ASSUME Rename(a) PROVE Typed'
  <2>1. at[a].pc = "rename" /\ c \in ChangeSets
    BY <1>5, <1>p DEF Rename
  <2>2. row[c].after \in SUBSET Marks /\ row[c].path \in Paths
    BY <2>1, <1>t DEF Rows
  <2>3. content' \in Contents /\ replaced' \subseteq ChangeSets
    BY <1>5, <2>1, <2>2, <1>t DEF Rename, c, Contents, TypeOK
  <2> QED
    BY <1>5, <2>1, <2>3, <1>d, <1>l, <1>u DEF Rename
<1>6. ASSUME Verify(a) PROVE Typed'
  <2>1. at[a].pc = "verify" /\ c \in ChangeSets
    BY <1>6, <1>p DEF Verify
  <2>2. CASE content[row[c].path] = row[c].after
    <3>1. /\ journal' = [journal EXCEPT ![c] = Written(content)]
          /\ at' = [at EXCEPT ![a].pc = "release", ![a].next = "applied", ![a].result = content]
      BY <1>6, <2>2 DEF Verify, c
    <3>2. journal' \in [ChangeSets -> Journals]
      BY <2>1, <3>1, <1>t, JournalFacts
    <3>3. at' \in [Attempts -> Places] /\ Placed'
      BY <2>1, <3>1, <1>t, ReleaseFacts
    <3> QED
      BY <1>6, <3>2, <3>3, <1>d, <1>u DEF Verify
  <2>3. CASE content[row[c].path] # row[c].after
    <3>1. journal' = journal /\ ReleaseWith(a, "reconcile")
      BY <1>6, <2>3 DEF Verify, c
    <3> QED
      BY <1>6, <2>1, <3>1, <1>d, <1>u, ReleaseWithFacts DEF Verify
  <2> QED
    BY <2>2, <2>3
<1>7. ASSUME Release(a) PROVE Typed'
  <2>1. at[a].pc = "release" /\ at[a].next \in {"failed", "applied", "reconcile"}
    BY <1>7, <1>t DEF Release, Placed
  <2>2. at[a].next \in AttemptPcs /\ Go(a, at[a].next)
    BY <1>7, <2>1 DEF Release, AttemptPcs
  <2>3. at' \in [Attempts -> Places] /\ Placed'
    BY <2>1, <2>2, GoFacts
  <2> QED
    BY <1>7, <2>3, <1>d, <1>u DEF Release
<1>8. ASSUME SettleApplied(a) PROVE Typed'
  <2>1. at[a].pc \in {"applied", "recovered"} /\ c \in ChangeSets
    BY <1>8, <1>p DEF SettleApplied
  <2>2. at[a].result \in Contents \cup {NoSources}
    BY <1>t DEF Places
  <2>3. \/ Appliable(c, at[a].result) /\ row' = Applied(c, at[a].result) /\ Go(a, "lockFinalize")
        \/ row' = row /\ (Go(a, "reconcile") \/ End(a))
    BY <1>8 DEF SettleApplied, c
  <2>4. row' \in [ChangeSets -> Rows]
    BY <2>1, <2>2, <2>3, <1>t, <1>u, AppliedFacts
  <2>5. at' \in [Attempts -> Places] /\ Placed'
    BY <2>1, <2>3, <1>l, EndFacts
  <2> QED
    BY <1>8, <2>4, <2>5, <1>d, <1>u DEF SettleApplied
<1>9. ASSUME SettleFailed(a) PROVE Typed'
  <2>1. at[a].pc = "failed" /\ c \in ChangeSets /\ End(a)
    BY <1>9, <1>p DEF SettleFailed
  <2>2. row' = row \/ row' = [row EXCEPT ![c].status = "FAILED"]
    BY <1>9 DEF SettleFailed, c
  <2>3. row' \in [ChangeSets -> Rows]
    BY <2>1, <2>2, <1>t, <1>u, StatusFacts DEF Status
  <2> QED
    BY <1>9, <2>1, <2>3, <1>d, <1>u, EndFacts DEF SettleFailed
<1>10. ASSUME Reconcile(a) PROVE Typed'
  <2>1. at[a].pc = "reconcile" /\ (Go(a, "lockFinalize") \/ Go(a, "lockRecover") \/ End(a))
    BY <1>10 DEF Reconcile
  <2>2. at' \in [Attempts -> Places] /\ Placed'
    BY <2>1, <1>l, EndFacts
  <2> QED
    BY <1>10, <2>2, <1>d, <1>u DEF Reconcile
<1>11. ASSUME Recover(a) PROVE Typed'
  <2>1. at[a].pc = "recover" /\ c \in ChangeSets
    BY <1>11, <1>p DEF Recover
  <2>2. \/ at' = [at EXCEPT ![a].pc = "recovered", ![a].result = content]
        \/ Go(a, "failed")
        \/ End(a)
    BY <1>11 DEF Recover, c
  <2>3. at' \in [Attempts -> Places] /\ Placed'
    <3>1. CASE at' = [at EXCEPT ![a].pc = "recovered", ![a].result = content]
      <4>1. at' = [at EXCEPT ![a] = [at[a] EXCEPT !.pc = "recovered", !.result = content]]
        BY <3>1
      <4>2. [at[a] EXCEPT !.pc = "recovered", !.result = content] \in Places
        BY <1>t DEF Places, AttemptPcs
      <4>3. at' \in [Attempts -> Places] /\ \A b \in Attempts : b # a => at'[b] = at[b]
        BY <4>1, <4>2, <1>t
      <4>4. at'[a].pc = "recovered" /\ at'[a].change = c
        BY <4>1, <1>t DEF Places, c
      <4> QED
        BY <4>3, <4>4, <2>1, <1>t DEF Placed
    <3> QED
      BY <2>1, <2>2, <3>1, <1>l, EndFacts
  <2>4. asked' \subseteq ChangeSets
    BY <1>11, <2>1, <1>t DEF Recover, TypeOK, c
  <2> QED
    BY <1>11, <2>3, <2>4, <1>d, <1>u DEF Recover
<1>12. ASSUME Finalize(a) PROVE Typed'
  <2>1. at[a].pc = "finalize" /\ c \in ChangeSets /\ End(a)
    BY <1>12, <1>p DEF Finalize
  <2>2. journal' = journal \/ journal' = [journal EXCEPT ![c] = NoJournal]
    BY <1>12 DEF Finalize, c
  <2>3. journal' \in [ChangeSets -> Journals]
    BY <2>1, <2>2, <1>t, <1>u, JournalFacts
  <2> QED
    BY <1>12, <2>1, <2>3, <1>d, <1>u, EndFacts DEF Finalize
<1> QED
  BY <1>1, <1>2, <1>3, <1>4, <1>5, <1>6, <1>7, <1>8, <1>9, <1>10, <1>11, <1>12 DEF Attempt

(* So do failures, crashes, starts, savers and editors. *)
LEMMA AttemptFailsTyped == ASSUME Typed, NEW a \in Attempts, AttemptFails(a) PROVE Typed'
<1> DEFINE c == at[a].change
<1>t. /\ TypeOK /\ Placed
      /\ row \in [ChangeSets -> Rows] /\ journal \in [ChangeSets -> Journals]
      /\ at \in [Attempts -> Places]
      /\ \A b \in Attempts : at[b] \in Places
  BY DEF Typed, TypeOK, Rows, Journals, Places
<1>p. at[a].pc # "idle" => c \in ChangeSets
  BY <1>t DEF Placed
<1>f. Fault => faults' \in 0..MaxFaults
  BY <1>t, FaultFacts
<1>d. ASSUME /\ row' \in [ChangeSets -> Rows]
             /\ journal' \in [ChangeSets -> Journals]
             /\ lock' \in {lock, Orphan}
             /\ at' \in [Attempts -> Places] /\ Placed' /\ faults' \in 0..MaxFaults
             /\ content' = content /\ saver' = saver /\ UNCHANGED history
      PROVE  Typed'
  BY <1>d, <1>t DEF Typed, TypeOK, Rows, Journals, Places, history
<1>j. /\ row' = row => row' \in [ChangeSets -> Rows]
      /\ journal' = journal => journal' \in [ChangeSets -> Journals]
      /\ \A j \in {NoJournal, Prepared, Written(content)} :
           c \in ChangeSets /\ journal' = [journal EXCEPT ![c] = j] => journal' \in [ChangeSets -> Journals]
  BY <1>t, JournalFacts
<1> HIDE DEF c
<1> USE DEF files
<1>1. ASSUME PrepareFails(a) PROVE Typed'
  <2>1. at[a].pc = "prepare" /\ c \in ChangeSets /\ Fault /\ ReleaseWith(a, "failed")
    BY <1>1, <1>p DEF PrepareFails
  <2>2. journal' = journal \/ journal' = [journal EXCEPT ![c] = Prepared]
    BY <1>1 DEF PrepareFails, c
  <2> QED
    BY <1>1, <2>1, <2>2, <1>d, <1>f, <1>j, ReleaseWithFacts DEF PrepareFails
<1>2. ASSUME RenameFails(a) PROVE Typed'
  <2>1. at[a].pc = "rename" /\ c \in ChangeSets /\ Fault /\ ReleaseWith(a, "failed")
    BY <1>2, <1>p DEF RenameFails
  <2>2. journal' = journal \/ journal' = [journal EXCEPT ![c] = NoJournal]
    BY <1>2 DEF RenameFails, c
  <2> QED
    BY <1>2, <2>1, <2>2, <1>d, <1>f, <1>j, ReleaseWithFacts DEF RenameFails
<1>3. ASSUME VerifyFails(a) PROVE Typed'
  <2>1. at[a].pc = "verify" /\ c \in ChangeSets /\ Fault /\ ReleaseWith(a, "reconcile")
    BY <1>3, <1>p DEF VerifyFails
  <2>2. journal' = journal \/ journal' = [journal EXCEPT ![c] = Written(content)]
    BY <1>3 DEF VerifyFails, c
  <2> QED
    BY <1>3, <2>1, <2>2, <1>d, <1>f, <1>j, ReleaseWithFacts DEF VerifyFails
<1>4. ASSUME SettleUnanswered(a) PROVE Typed'
  <2>1. at[a].pc \in {"applied", "recovered"} /\ c \in ChangeSets /\ Fault
    BY <1>4, <1>p DEF SettleUnanswered
  <2>2. at[a].result \in Contents \cup {NoSources}
    BY <1>t DEF Places
  <2>3. \/ row' = row
        \/ Appliable(c, at[a].result) /\ row' = Applied(c, at[a].result)
    BY <1>4 DEF SettleUnanswered, c
  <2>4. row' \in [ChangeSets -> Rows]
    BY <2>1, <2>2, <2>3, <1>t, AppliedFacts
  <2>5. Go(a, "reconcile") \/ End(a)
    BY <1>4 DEF SettleUnanswered
  <2>6. "reconcile" \in AttemptPcs
    BY DEF AttemptPcs
  <2>7. at' \in [Attempts -> Places] /\ Placed'
    BY <2>1, <2>5, <2>6, GoFacts, EndFacts
  <2> QED
    BY <1>4, <2>1, <2>4, <2>7, <1>d, <1>f, <1>j DEF SettleUnanswered
<1>5. ASSUME Crash(a) PROVE Typed'
  BY <1>5, <1>d, <1>f, <1>j, EndFacts DEF Crash
<1> QED
  BY <1>1, <1>2, <1>3, <1>4, <1>5 DEF AttemptFails

(* An attempt that starts. *)
LEMMA StartFacts ==
  ASSUME Typed, NEW a \in Attempts, NEW c \in ChangeSets, Start(a, c)
  PROVE  /\ Typed'
         /\ at'[a].pc \in {"claim", "reconcile"} /\ at'[a].change = c
         /\ \A b \in Attempts : b # a => at'[b] = at[b]
<1>1. at \in [Attempts -> Places] /\ Idle \in Places
  BY DEF Typed, TypeOK, Places, Idle, AttemptPcs
<1>2. PICK pc \in {"claim", "reconcile"} :
        at' = [at EXCEPT ![a] = [Idle EXCEPT !.change = c, !.pc = pc]]
  BY DEF Start
<1>3. [Idle EXCEPT !.change = c, !.pc = pc] \in Places
  BY <1>1 DEF Places, AttemptPcs
<1>4. at' \in [Attempts -> Places] /\ at'[a] = [Idle EXCEPT !.change = c, !.pc = pc]
      /\ \A b \in Attempts : b # a => at'[b] = at[b]
  BY <1>1, <1>2, <1>3
<1>5. at'[a].pc = pc /\ at'[a].change = c
  BY <1>1, <1>4 DEF Places
<1> QED
  BY <1>4, <1>5 DEF Start, Typed, TypeOK, Placed, Places, files, history

LEMMA SaverTyped ==
  ASSUME Typed, NEW s \in Savers, Save(s) \/ SaverCrashes(s) PROVE Typed'
<1>1. /\ at' = at /\ row' = row /\ journal' = journal /\ replaced' = replaced /\ asked' = asked
      /\ lock' \in {lock, s, Free, Orphan}
      /\ saved' \in {saved, saved \cup {s}}
  BY DEF Save, SaverAcquires, JudgeLock, RemoveStaleLock, SaverGivesUp, AppendEntry,
         SaverReleases, SaverCrashes, files, history
<1>2. PICK pc \in {"idle", "waiting", "removing", "inside", "leaving"} :
        saver' = [saver EXCEPT ![s] = pc]
  BY DEF Save, SaverAcquires, JudgeLock, RemoveStaleLock, SaverGivesUp, AppendEntry,
         SaverReleases, SaverCrashes
<1>3. content' = content \/ content' = [content EXCEPT ![Monthly] = @ \cup {s}]
  BY DEF Save, SaverAcquires, JudgeLock, RemoveStaleLock, SaverGivesUp, AppendEntry,
         SaverReleases, SaverCrashes, files
<1>4. content' \in Contents
  BY <1>3 DEF Typed, TypeOK, Contents, Marks, Paths
<1>5. faults' \in 0..MaxFaults
  <2>1. faults' = faults \/ Fault
    BY DEF Save, SaverAcquires, JudgeLock, RemoveStaleLock, SaverGivesUp, AppendEntry,
           SaverReleases, SaverCrashes
  <2> QED
    BY <2>1, FaultFacts DEF Typed, TypeOK
<1>6. robbed' \subseteq Attempts \cup Savers
  <2>1. robbed' = robbed \/ robbed' = robbed \cup ({lock} \ {Free, Orphan})
    BY DEF Save, SaverAcquires, JudgeLock, RemoveStaleLock, SaverGivesUp, AppendEntry,
           SaverReleases, SaverCrashes, history
  <2> QED
    BY <2>1 DEF Typed, TypeOK
<1> QED
  BY <1>1, <1>2, <1>4, <1>5, <1>6 DEF Typed, TypeOK, Placed

LEMMA EditTyped ==
  ASSUME Typed, NEW e \in Editors, NEW p \in Paths, Edit(e, p) PROVE Typed'
<1>1. content' \in Contents
  BY DEF Edit, Typed, TypeOK, Contents, Marks
<1> QED
  BY <1>1 DEF Edit, Typed, TypeOK, Placed, history

(* Every action keeps every variable in its domain. *)
LEMMA NextTyped == Typed /\ [Next]_vars => Typed'
<1> SUFFICES ASSUME Typed, [Next]_vars PROVE Typed'
  OBVIOUS
<1>1. CASE UNCHANGED vars
  BY <1>1 DEF vars, Typed, TypeOK, Placed
<1>2. CASE Next
  BY <1>2, ChangeTyped, StartFacts, AttemptTyped, AttemptFailsTyped, SaverTyped, EditTyped DEF Next
<1> QED
  BY <1>1, <1>2

(* Every variable keeps the shape its table, file or process gives it. *)
THEOREM TypeCorrect == Spec => []TypeOK
<1>1. Spec => []Typed
  BY InitTyped, NextTyped, PTL DEF Spec
<1>2. Typed => TypeOK
  BY DEF Typed
<1> QED
  BY <1>1, <1>2, PTL

-----------------------------------------------------------------------------
(* One replacement per change set, and the journal that tells of it *)

Fresh(c) == row[c].status \in {"NONE", "PROPOSED", "APPROVED", "REJECTED"}
Settled(c) == row[c].status \in {"APPLIED", "ROLLED_BACK"}

(* From the claim to the end of the execution proper. *)
Executing(a) == at[a].pc \in {"lock", "prepare", "rename", "verify"}

(* What an attempt can rely on where it stands. *)
Staged(a) ==
  /\ Executing(a) => ~Fresh(at[a].change)
  /\ at[a].pc \in {"lock", "prepare", "rename"} => at[a].change \notin replaced
  /\ at[a].pc \in {"rename", "verify"} => journal[at[a].change] = Prepared
  /\ at[a].pc \in {"lockFinalize", "finalize"} => Settled(at[a].change)

(* The claim lets one attempt of a change set execute it, for good. *)
Alone ==
  \A a, b \in Attempts :
    Executing(a) /\ Executing(b) /\ at[a].change = at[b].change => a = b

FreshUnwritten == \A c \in ChangeSets : Fresh(c) => c \notin replaced

Replacement == (\A a \in Attempts : Staged(a)) /\ Alone /\ FreshUnwritten /\ EvidenceKept

LEMMA InitReplacement == Init => Replacement
BY DEF Init, Replacement, Staged, Alone, FreshUnwritten, EvidenceKept, Executing, Fresh,
       Settled, Idle, NoRow

(* A step of one attempt that replaces no file: what it has to respect. *)
LEMMA StepOfOne ==
  ASSUME Typed, Replacement, NEW a \in Attempts,
         \A b \in Attempts : b # a => at'[b] = at[b],
         replaced' = replaced,
         \A c \in ChangeSets :
           /\ Fresh(c)' => Fresh(c)
           /\ Settled(c) => Settled(c)'
           /\ row'[c].status = "APPLYING" => row[c].status = "APPLYING" \/ c \notin replaced
           /\ \/ journal'[c] = journal[c]
              \/ /\ journal'[c] # NoJournal \/ c \notin replaced \/ row'[c].status # "APPLYING"
                 /\ \A b \in Attempts :
                      b # a /\ at[b].pc \in {"rename", "verify"} => at[b].change # c,
         Staged(a)',
         Executing(a)' => \A b \in Attempts :
                            b # a /\ Executing(b) => at[b].change # at'[a].change
  PROVE  Replacement'
<1>1. ASSUME NEW b \in Attempts PROVE Staged(b)'
  <2>1. CASE b = a
    BY <2>1
  <2>2. CASE b # a
    <3>1. at'[b] = at[b] /\ Staged(b)
      BY <2>2 DEF Replacement
    <3>2. CASE at[b].pc = "idle"
      BY <3>1, <3>2 DEF Staged, Executing
    <3>3. CASE at[b].pc # "idle"
      <4>1. at[b].change \in ChangeSets
        BY <3>3 DEF Typed, Placed
      <4> QED
        BY <2>2, <3>1, <4>1 DEF Staged, Executing
    <3> QED
      BY <3>2, <3>3
  <2> QED
    BY <2>1, <2>2
<1>2. Alone'
  BY DEF Alone, Replacement, Executing
<1>3. FreshUnwritten'
  BY DEF FreshUnwritten, Replacement
<1>4. EvidenceKept'
  <2> SUFFICES ASSUME NEW c \in ChangeSets, c \in replaced, row'[c].status = "APPLYING"
               PROVE  journal'[c] # NoJournal
    BY DEF EvidenceKept, Typed, TypeOK
  <2>1. row[c].status = "APPLYING"
    OBVIOUS
  <2>2. journal[c] # NoJournal
    BY <2>1 DEF Replacement, EvidenceKept
  <2> QED
    BY <2>2
<1> QED
  BY <1>1, <1>2, <1>3, <1>4 DEF Replacement

(* A step that leaves the rows, the journals and the attempts alone. *)
LEMMA StepOfNone ==
  ASSUME Replacement, UNCHANGED <<row, journal, at, replaced>>
  PROVE  Replacement'
BY DEF Replacement, Staged, Alone, FreshUnwritten, EvidenceKept, Executing, Fresh, Settled

(* Proposals and reviews concern rows that nobody has claimed. *)
LEMMA ChangeReplacement ==
  ASSUME Typed, Replacement, NEW c \in ChangeSets, Change(c) PROVE Replacement'
<1>1. at' = at /\ journal' = journal /\ replaced' = replaced
  BY DEF Change, Propose, ProposeRollback, Review, files, history
<1>2. row \in [ChangeSets -> Rows] /\ \A d \in ChangeSets : row[d].status \in Status
  BY DEF Typed, TypeOK, Rows
<1>3. \A d \in ChangeSets : d # c => row'[d] = row[d]
  BY <1>2 DEF Change, Propose, ProposeRollback, Review
<1>4. Fresh(c) /\ Fresh(c)'
  <2>1. ASSUME NEW p \in Paths, Propose(c, p) PROVE Fresh(c) /\ Fresh(c)'
    BY <2>1, <1>2 DEF Propose, Fresh
  <2>2. ASSUME NEW t \in ChangeSets, ProposeRollback(c, t) PROVE Fresh(c) /\ Fresh(c)'
    BY <2>2, <1>2 DEF ProposeRollback, Fresh
  <2>3. ASSUME NEW verdict \in Status, Review(c, verdict) PROVE Fresh(c) /\ Fresh(c)'
    <3>1. row'[c].status = verdict /\ verdict \in {"APPROVED", "REJECTED"}
      BY <2>3, StatusFacts DEF Review, Typed
    <3>2. row[c].status \in {"PROPOSED", "APPROVED"}
      BY <2>3, <1>2, Transitions DEF Review
    <3> QED
      BY <3>1, <3>2 DEF Fresh
  <2> QED
    BY <2>1, <2>2, <2>3 DEF Change
<1>5. \A d \in ChangeSets :
        (Fresh(d)' <=> Fresh(d)) /\ (Settled(d)' <=> Settled(d))
          /\ (row'[d].status = "APPLYING" => row[d].status = "APPLYING")
  BY <1>3, <1>4 DEF Fresh, Settled
<1>6. ASSUME NEW a \in Attempts PROVE Staged(a)'
  <2>1. at[a].pc # "idle" => at[a].change \in ChangeSets
    BY DEF Typed, Placed
  <2> QED
    BY <1>1, <1>5, <2>1 DEF Replacement, Staged, Executing
<1>7. Alone'
  BY <1>1 DEF Replacement, Alone, Executing
<1>8. FreshUnwritten'
  BY <1>1, <1>5 DEF Replacement, FreshUnwritten
<1>9. EvidenceKept'
  <2> SUFFICES ASSUME NEW d \in ChangeSets, d \in replaced, row'[d].status = "APPLYING"
               PROVE  journal[d] # NoJournal
    BY <1>1 DEF EvidenceKept, Typed, TypeOK
  <2> QED
    BY <1>5 DEF Replacement, EvidenceKept
<1> QED
  BY <1>6, <1>7, <1>8, <1>9 DEF Replacement

(* The steps of an attempt. *)
LEMMA AttemptReplacement ==
  ASSUME Typed, Replacement, NEW a \in Attempts, Attempt(a) PROVE Replacement'
<1> DEFINE c == at[a].change
<1>t. /\ TypeOK /\ Staged(a) /\ Alone /\ FreshUnwritten /\ EvidenceKept
      /\ row \in [ChangeSets -> Rows] /\ journal \in [ChangeSets -> Journals]
      /\ \A d \in ChangeSets : row[d].status \in Status
  BY DEF Typed, TypeOK, Rows, Journals, Replacement
<1>p. at[a].pc # "idle" => c \in ChangeSets
  BY DEF Typed, Placed
<1>u. ASSUME row' = row
      PROVE  \A d \in ChangeSets :
               /\ Fresh(d)' => Fresh(d)
               /\ Settled(d) => Settled(d)'
               /\ row'[d].status = "APPLYING" => row[d].status = "APPLYING" \/ d \notin replaced
  BY <1>u DEF Fresh, Settled
<1>o. Executing(a) => \A b \in Attempts : b # a /\ Executing(b) => at[b].change # c
  BY <1>t DEF Alone
<1>e. ASSUME End(a)
      PROVE  /\ \A b \in Attempts : b # a => at'[b] = at[b]
             /\ Staged(a)' /\ ~Executing(a)'
  <2>1. at'[a].pc = "idle" /\ \A b \in Attempts : b # a => at'[b] = at[b]
    BY <1>e, EndFacts
  <2> QED
    BY <2>1 DEF Staged, Executing
<1>g. ASSUME NEW pc \in AttemptPcs, Go(a, pc), at[a].pc # "idle", pc # "release"
      PROVE  /\ \A b \in Attempts : b # a => at'[b] = at[b]
             /\ at'[a].pc = pc /\ at'[a].change = c
  BY <1>g, GoFacts
<1>s. ASSUME NEW pc \in {"lockRecover", "recover", "reconcile", "failed", "applied"},
             Go(a, pc), at[a].pc # "idle"
      PROVE  /\ \A b \in Attempts : b # a => at'[b] = at[b]
             /\ Staged(a)' /\ ~Executing(a)'
  <2>1. pc \in AttemptPcs /\ pc # "release"
    BY DEF AttemptPcs
  <2>2. at'[a].pc = pc /\ \A b \in Attempts : b # a => at'[b] = at[b]
    BY <2>1, <1>s, <1>g
  <2> QED
    BY <2>2 DEF Staged, Executing
<1>r. ASSUME at'[a].pc = "release" PROVE Staged(a)' /\ ~Executing(a)'
  BY <1>r DEF Staged, Executing
<1> HIDE DEF c
<1> USE DEF files, history
<1>1. ASSUME Claim(a) PROVE Replacement'
  <2>1. at[a].pc = "claim" /\ c \in ChangeSets /\ UNCHANGED <<files, lock, saver, history, faults>>
    BY <1>1, <1>p DEF Claim
  <2>2. CASE "APPLYING" \in MayBecome(row[c].status)
    <3>1. row' = [row EXCEPT ![c].status = "APPLYING"] /\ Go(a, "lock")
      BY <1>1, <2>2 DEF Claim, c
    <3>2. row[c].status = "APPROVED"
      BY <2>1, <2>2, <1>t, Transitions
    <3>3. row'[c].status = "APPLYING" /\ \A d \in ChangeSets : d # c => row'[d] = row[d]
      BY <3>1, <2>1, <1>t, StatusFacts DEF Status
    <3>4. /\ \A b \in Attempts : b # a => at'[b] = at[b]
          /\ at'[a].pc = "lock" /\ at'[a].change = c
      BY <3>1, <2>1, <1>g DEF AttemptPcs
    <3>5. Fresh(c) /\ c \notin replaced /\ ~Settled(c)
      <4>1. Fresh(c) /\ ~Settled(c)
        BY <3>2 DEF Fresh, Settled
      <4>2. c \notin replaced
        BY <2>1, <4>1, <1>t DEF FreshUnwritten
      <4> QED
        BY <4>1, <4>2
    <3>6. \A b \in Attempts : b # a /\ Executing(b) => at[b].change # c
      BY <3>5 DEF Replacement, Staged
    <3>7. Staged(a)'
      <4>1. replaced' = replaced /\ row'[at'[a].change].status = "APPLYING"
        BY <2>1, <3>3, <3>4
      <4> QED
        BY <3>4, <3>5, <4>1 DEF Staged, Fresh
    <3>8. \A d \in ChangeSets :
            /\ Fresh(d)' => Fresh(d)
            /\ Settled(d) => Settled(d)'
            /\ row'[d].status = "APPLYING" => row[d].status = "APPLYING" \/ d \notin replaced
      BY <3>3, <3>5 DEF Fresh, Settled
    <3> QED
      BY <2>1, <3>4, <3>6, <3>7, <3>8, StepOfOne
  <2>3. CASE "APPLYING" \notin MayBecome(row[c].status)
    <3>1. row' = row /\ End(a)
      BY <1>1, <2>3 DEF Claim, c
    <3> QED
      BY <2>1, <3>1, <1>u, <1>e, StepOfOne
  <2> QED
    BY <2>2, <2>3
<1>2. ASSUME AcquireLock(a) PROVE Replacement'
  <2>1. at[a].pc # "idle" /\ UNCHANGED <<files, row, saver, history, faults>>
    BY <1>2 DEF AcquireLock, Locking
  <2>2. \/ at[a].pc = "lock" /\ Go(a, "prepare")
        \/ at[a].pc = "lockRecover" /\ Go(a, "recover")
        \/ at[a].pc = "lockFinalize" /\ Go(a, "finalize")
    BY <1>2 DEF AcquireLock, Locking, Opened
  <2>3. /\ \A b \in Attempts : b # a => at'[b] = at[b]
        /\ at'[a].change = c
        /\ \/ at[a].pc = "lock" /\ at'[a].pc = "prepare"
           \/ at[a].pc = "lockRecover" /\ at'[a].pc = "recover"
           \/ at[a].pc = "lockFinalize" /\ at'[a].pc = "finalize"
    BY <2>1, <2>2, <1>g DEF AttemptPcs
  <2>4. Staged(a)' /\ (Executing(a)' => Executing(a))
    BY <2>1, <2>3, <1>t, <1>u DEF Staged, Executing, c, Fresh, Settled
  <2> QED
    BY <2>1, <2>3, <2>4, <1>u, <1>o, StepOfOne
<1>3. ASSUME LockTimeout(a) PROVE Replacement'
  <2>1. at[a].pc # "idle" /\ (Go(a, "reconcile") \/ End(a))
    BY <1>3 DEF LockTimeout, Locking
  <2> QED
    BY <1>3, <2>1, <1>u, <1>s, <1>e, StepOfOne DEF LockTimeout
<1>4. ASSUME Prepare(a) PROVE Replacement'
  <2>1. at[a].pc = "prepare" /\ c \in ChangeSets /\ row' = row /\ replaced' = replaced
    BY <1>4, <1>p DEF Prepare
  <2>2. c \notin replaced /\ ~Fresh(c) /\ Executing(a)
    BY <2>1, <1>t DEF Staged, c, Executing
  <2>3. CASE journal' = [journal EXCEPT ![c] = Prepared] /\ Go(a, "rename")
    <3>1. journal'[c] = Prepared /\ \A d \in ChangeSets : d # c => journal'[d] = journal[d]
      BY <2>1, <2>3, <1>t, JournalFacts
    <3>2. /\ \A b \in Attempts : b # a => at'[b] = at[b]
          /\ at'[a].pc = "rename" /\ at'[a].change = c
      BY <2>1, <2>3, <1>g DEF AttemptPcs
    <3>3. Staged(a)'
      BY <2>1, <2>2, <3>1, <3>2 DEF Staged, Fresh
    <3>4. \A b \in Attempts : b # a /\ Executing(b) => at[b].change # c
      BY <2>2, <1>o
    <3>5. \A b \in Attempts : b # a /\ at[b].pc \in {"rename", "verify"} => at[b].change # c
      BY <3>4 DEF Executing
    <3> QED
      BY <2>1, <2>2, <3>1, <3>2, <3>3, <3>4, <3>5, <1>u, StepOfOne
  <2>4. CASE journal' = journal /\ ReleaseWith(a, "failed")
    BY <2>1, <2>4, <1>u, <1>r, ReleaseWithFacts, StepOfOne
  <2> QED
    BY <1>4, <2>3, <2>4 DEF Prepare, c
<1>5. ASSUME Rename(a) PROVE Replacement'
  <2>1. /\ at[a].pc = "rename" /\ c \in ChangeSets /\ row' = row /\ journal' = journal
        /\ replaced' = replaced \cup {c} /\ Go(a, "verify")
    BY <1>5, <1>p DEF Rename, c
  <2>2. ~Fresh(c) /\ journal[c] = Prepared /\ Executing(a)
    BY <2>1, <1>t DEF Staged, c, Executing
  <2>3. /\ \A b \in Attempts : b # a => at'[b] = at[b]
        /\ at'[a].pc = "verify" /\ at'[a].change = c
    BY <2>1, <1>g DEF AttemptPcs
  <2>4. ASSUME NEW b \in Attempts PROVE Staged(b)'
    <3>1. CASE b = a
      BY <2>1, <2>2, <2>3, <3>1 DEF Staged, Fresh
    <3>2. CASE b # a
      <4>1. Staged(b) /\ at'[b] = at[b] /\ (Executing(b) => at[b].change # c)
        BY <2>2, <2>3, <3>2, <1>o DEF Replacement
      <4> QED
        BY <2>1, <4>1 DEF Staged, Executing, Fresh, Settled
    <3> QED
      BY <3>1, <3>2
  <2>5. Alone'
    BY <2>2, <2>3, <1>t, <1>o DEF Alone, Executing
  <2>6. FreshUnwritten'
    BY <2>1, <2>2, <1>t DEF FreshUnwritten, Fresh
  <2>7. EvidenceKept'
    BY <2>1, <2>2, <1>t, JournalShapes DEF EvidenceKept
  <2> QED
    BY <2>4, <2>5, <2>6, <2>7 DEF Replacement
<1>6. ASSUME Verify(a) PROVE Replacement'
  <2>1. at[a].pc = "verify" /\ c \in ChangeSets /\ row' = row /\ replaced' = replaced
    BY <1>6, <1>p DEF Verify
  <2>2. \A b \in Attempts : b # a /\ at[b].pc \in {"rename", "verify"} => at[b].change # c
    BY <2>1, <1>o DEF Executing
  <2>3. CASE content[row[c].path] = row[c].after
    <3>1. /\ journal' = [journal EXCEPT ![c] = Written(content)]
          /\ at' = [at EXCEPT ![a].pc = "release", ![a].next = "applied", ![a].result = content]
      BY <1>6, <2>3 DEF Verify, c
    <3>2. /\ journal'[c] = Written(content)
          /\ \A d \in ChangeSets : d # c => journal'[d] = journal[d]
      BY <2>1, <3>1, <1>t, JournalFacts
    <3>3. at'[a].pc = "release" /\ \A b \in Attempts : b # a => at'[b] = at[b]
      BY <2>1, <3>1, <1>t, ReleaseFacts DEF TypeOK
    <3>4. journal'[c] # NoJournal
      BY <3>2, JournalShapes
    <3> QED
      BY <2>1, <2>2, <3>2, <3>3, <3>4, <1>u, <1>r, StepOfOne
  <2>4. CASE content[row[c].path] # row[c].after
    <3>1. journal' = journal /\ ReleaseWith(a, "reconcile")
      BY <1>6, <2>4 DEF Verify, c
    <3> QED
      BY <2>1, <3>1, <1>u, <1>r, ReleaseWithFacts, StepOfOne
  <2> QED
    BY <2>3, <2>4
<1>7. ASSUME Release(a) PROVE Replacement'
  <2>1. at[a].pc = "release" /\ at[a].next \in {"failed", "applied", "reconcile"}
    BY <1>7 DEF Release, Typed, Placed
  <2>2. Go(a, at[a].next)
    BY <1>7 DEF Release
  <2> QED
    BY <1>7, <2>1, <2>2, <1>u, <1>s, StepOfOne DEF Release
<1>8. ASSUME SettleApplied(a) PROVE Replacement'
  <2>1. /\ at[a].pc \in {"applied", "recovered"} /\ c \in ChangeSets
        /\ journal' = journal /\ replaced' = replaced
    BY <1>8, <1>p DEF SettleApplied
  <2>2. CASE Appliable(c, at[a].result) /\ row' = Applied(c, at[a].result) /\ Go(a, "lockFinalize")
    <3>1. at[a].result \in Contents \cup {NoSources}
      BY <1>t DEF TypeOK
    <3>2. /\ row[c].status = "APPLYING" /\ row'[c].status = "APPLIED"
          /\ row[c].of # c
          /\ row[c].of # NoTarget => row[row[c].of].status = "APPLIED"
          /\ \A d \in ChangeSets :
               /\ d # c /\ d = row[c].of => row'[d].status = "ROLLED_BACK"
               /\ d # c /\ d # row[c].of => row'[d] = row[d]
      BY <2>1, <2>2, <3>1, <1>t, AppliedFacts
    <3>3. \A d \in ChangeSets : d = row[c].of => d # NoTarget
      BY MemoryAssumption
    <3>4. \A d \in ChangeSets :
            /\ Fresh(d)' => Fresh(d)
            /\ Settled(d) => Settled(d)'
            /\ row'[d].status = "APPLYING" => row[d].status = "APPLYING" \/ d \notin replaced
      BY <3>2, <3>3 DEF Fresh, Settled
    <3>5. /\ \A b \in Attempts : b # a => at'[b] = at[b]
          /\ at'[a].pc = "lockFinalize" /\ at'[a].change = c
      BY <2>1, <2>2, <1>g DEF AttemptPcs
    <3>6. Staged(a)' /\ ~Executing(a)'
      BY <3>2, <3>5 DEF Staged, Executing, Settled
    <3> QED
      BY <2>1, <3>4, <3>5, <3>6, StepOfOne
  <2>3. CASE row' = row /\ (Go(a, "reconcile") \/ End(a))
    BY <2>1, <2>3, <1>u, <1>s, <1>e, StepOfOne
  <2> QED
    BY <1>8, <2>2, <2>3 DEF SettleApplied, c
<1>9. ASSUME SettleFailed(a) PROVE Replacement'
  <2>1. /\ at[a].pc = "failed" /\ c \in ChangeSets /\ End(a)
        /\ journal' = journal /\ replaced' = replaced
    BY <1>9, <1>p DEF SettleFailed
  <2>2. CASE "FAILED" \in MayBecome(row[c].status) /\ row' = [row EXCEPT ![c].status = "FAILED"]
    <3>1. row[c].status = "APPLYING"
      BY <2>1, <2>2, <1>t, Transitions
    <3>2. row'[c].status = "FAILED" /\ \A d \in ChangeSets : d # c => row'[d] = row[d]
      BY <2>1, <2>2, <1>t, StatusFacts DEF Status
    <3>3. \A d \in ChangeSets :
            /\ Fresh(d)' => Fresh(d)
            /\ Settled(d) => Settled(d)'
            /\ row'[d].status = "APPLYING" => row[d].status = "APPLYING" \/ d \notin replaced
      BY <3>1, <3>2 DEF Fresh, Settled
    <3> QED
      BY <2>1, <3>3, <1>e, StepOfOne
  <2>3. CASE row' = row
    BY <2>1, <2>3, <1>u, <1>e, StepOfOne
  <2> QED
    BY <1>9, <2>2, <2>3 DEF SettleFailed, c
<1>10. ASSUME Reconcile(a) PROVE Replacement'
  <2>1. /\ at[a].pc = "reconcile" /\ c \in ChangeSets
        /\ UNCHANGED <<files, row, lock, saver, history, faults>>
    BY <1>10, <1>p DEF Reconcile
  <2>2. CASE row[c].status = "APPLIED" /\ Go(a, "lockFinalize")
    <3>1. /\ \A b \in Attempts : b # a => at'[b] = at[b]
          /\ at'[a].pc = "lockFinalize" /\ at'[a].change = c
      BY <2>1, <2>2, <1>g DEF AttemptPcs
    <3>2. Staged(a)' /\ ~Executing(a)'
      BY <2>1, <2>2, <3>1 DEF Staged, Executing, Settled
    <3> QED
      BY <2>1, <3>1, <3>2, <1>u, StepOfOne
  <2>3. CASE Go(a, "lockRecover") \/ End(a)
    BY <2>1, <2>3, <1>u, <1>s, <1>e, StepOfOne
  <2> QED
    BY <1>10, <2>2, <2>3 DEF Reconcile, c
<1>11. ASSUME Recover(a) PROVE Replacement'
  <2>1. /\ at[a].pc = "recover" /\ row' = row /\ journal' = journal /\ replaced' = replaced
    BY <1>11 DEF Recover
  <2>2. CASE at' = [at EXCEPT ![a].pc = "recovered", ![a].result = content]
    <3>1. at \in [Attempts -> Places]
      BY <1>t DEF TypeOK, Places
    <3>2. at'[a].pc = "recovered" /\ \A b \in Attempts : b # a => at'[b] = at[b]
      BY <2>2, <3>1 DEF Places
    <3>3. Staged(a)' /\ ~Executing(a)'
      BY <3>2 DEF Staged, Executing
    <3> QED
      BY <2>1, <3>2, <3>3, <1>u, StepOfOne
  <2>3. CASE Go(a, "failed") \/ End(a)
    BY <2>1, <2>3, <1>u, <1>s, <1>e, StepOfOne
  <2> QED
    BY <1>11, <2>2, <2>3 DEF Recover, c
<1>12. ASSUME Finalize(a) PROVE Replacement'
  <2>1. /\ at[a].pc = "finalize" /\ c \in ChangeSets /\ End(a)
        /\ row' = row /\ replaced' = replaced
    BY <1>12, <1>p DEF Finalize
  <2>2. CASE journal[c].phase = "WRITTEN" /\ journal' = [journal EXCEPT ![c] = NoJournal]
    <3>1. \A d \in ChangeSets : d # c => journal'[d] = journal[d]
      BY <2>1, <2>2, <1>t, JournalFacts
    <3>2. row'[c].status # "APPLYING"
      BY <2>1, <1>t DEF Staged, Settled, c
    <3>3. journal[c] # Prepared
      BY <2>2, JournalShapes
    <3>4. \A b \in Attempts : b # a /\ at[b].pc \in {"rename", "verify"} => at[b].change # c
      BY <3>3 DEF Replacement, Staged
    <3> QED
      BY <2>1, <3>1, <3>2, <3>4, <1>u, <1>e, StepOfOne
  <2>3. CASE journal' = journal
    BY <2>1, <2>3, <1>u, <1>e, StepOfOne
  <2> QED
    BY <1>12, <2>2, <2>3 DEF Finalize, c
<1> QED
  BY <1>1, <1>2, <1>3, <1>4, <1>5, <1>6, <1>7, <1>8, <1>9, <1>10, <1>11, <1>12 DEF Attempt

(* Failures, crashes and starts. *)
LEMMA AttemptFailsReplacement ==
  ASSUME Typed, Replacement, NEW a \in Attempts, AttemptFails(a) PROVE Replacement'
<1> DEFINE c == at[a].change
<1>t. /\ TypeOK /\ Staged(a) /\ Alone
  BY DEF Typed, Replacement
<1>p. at[a].pc # "idle" => c \in ChangeSets
  BY DEF Typed, Placed
<1>u. ASSUME row' = row
      PROVE  \A d \in ChangeSets :
               /\ Fresh(d)' => Fresh(d)
               /\ Settled(d) => Settled(d)'
               /\ row'[d].status = "APPLYING" => row[d].status = "APPLYING" \/ d \notin replaced
  BY <1>u DEF Fresh, Settled
<1>o. ASSUME Executing(a)
      PROVE  \A b \in Attempts : b # a /\ at[b].pc \in {"rename", "verify"} => at[b].change # c
  BY <1>o, <1>t DEF Alone, Executing
<1>e. ASSUME End(a) \/ (Go(a, "reconcile") /\ at[a].pc # "idle")
      PROVE  /\ \A b \in Attempts : b # a => at'[b] = at[b]
             /\ Staged(a)' /\ ~Executing(a)'
  <2>1. at'[a].pc \in {"idle", "reconcile"} /\ \A b \in Attempts : b # a => at'[b] = at[b]
    BY <1>e, EndFacts, GoFacts DEF AttemptPcs
  <2> QED
    BY <2>1 DEF Staged, Executing
<1>r. ASSUME NEW next \in {"failed", "reconcile"}, ReleaseWith(a, next), at[a].pc # "idle"
      PROVE  /\ \A b \in Attempts : b # a => at'[b] = at[b]
             /\ Staged(a)' /\ ~Executing(a)'
  <2>1. at'[a].pc = "release" /\ \A b \in Attempts : b # a => at'[b] = at[b]
    BY <1>r, ReleaseWithFacts
  <2> QED
    BY <2>1 DEF Staged, Executing
<1>j. ASSUME NEW j \in {NoJournal, Prepared, Written(content)}, c \in ChangeSets, Executing(a),
             journal' = [journal EXCEPT ![c] = j], j # NoJournal \/ c \notin replaced
      PROVE  \A d \in ChangeSets :
               \/ journal'[d] = journal[d]
               \/ /\ journal'[d] # NoJournal \/ d \notin replaced
                  /\ \A b \in Attempts :
                       b # a /\ at[b].pc \in {"rename", "verify"} => at[b].change # d
  BY <1>j, <1>t, <1>o, JournalFacts
<1> HIDE DEF c
<1> USE DEF files, history
<1>1. ASSUME PrepareFails(a) PROVE Replacement'
  <2>1. /\ at[a].pc = "prepare" /\ c \in ChangeSets /\ Executing(a) /\ c \notin replaced
        /\ ReleaseWith(a, "failed") /\ row' = row /\ replaced' = replaced
    BY <1>1, <1>p, <1>t DEF PrepareFails, Executing, Staged, c
  <2>2. journal' = journal \/ journal' = [journal EXCEPT ![c] = Prepared]
    BY <1>1 DEF PrepareFails, c
  <2>3. CASE journal' = journal
    BY <2>1, <2>3, <1>u, <1>r, StepOfOne
  <2>4. CASE journal' = [journal EXCEPT ![c] = Prepared]
    BY <2>1, <2>4, <1>u, <1>r, <1>j, StepOfOne
  <2> QED
    BY <2>2, <2>3, <2>4
<1>2. ASSUME RenameFails(a) PROVE Replacement'
  <2>1. /\ at[a].pc = "rename" /\ c \in ChangeSets /\ Executing(a) /\ c \notin replaced
        /\ ReleaseWith(a, "failed") /\ row' = row /\ replaced' = replaced
    BY <1>2, <1>p, <1>t DEF RenameFails, Executing, Staged, c
  <2>2. journal' = journal \/ journal' = [journal EXCEPT ![c] = NoJournal]
    BY <1>2 DEF RenameFails, c
  <2>3. CASE journal' = journal
    BY <2>1, <2>3, <1>u, <1>r, StepOfOne
  <2>4. CASE journal' = [journal EXCEPT ![c] = NoJournal]
    BY <2>1, <2>4, <1>u, <1>r, <1>j, StepOfOne
  <2> QED
    BY <2>2, <2>3, <2>4
<1>3. ASSUME VerifyFails(a) PROVE Replacement'
  <2>1. /\ at[a].pc = "verify" /\ c \in ChangeSets /\ Executing(a)
        /\ ReleaseWith(a, "reconcile") /\ row' = row /\ replaced' = replaced
    BY <1>3, <1>p DEF VerifyFails, Executing
  <2>2. journal' = journal \/ journal' = [journal EXCEPT ![c] = Written(content)]
    BY <1>3 DEF VerifyFails, c
  <2>3. CASE journal' = journal
    BY <2>1, <2>3, <1>u, <1>r, StepOfOne
  <2>4. CASE journal' = [journal EXCEPT ![c] = Written(content)]
    <3>1. Written(content) # NoJournal
      BY JournalShapes
    <3> QED
      BY <2>1, <2>4, <3>1, <1>u, <1>r, <1>j, StepOfOne
  <2> QED
    BY <2>2, <2>3, <2>4
<1>4. ASSUME SettleUnanswered(a) PROVE Replacement'
  <2>1. /\ at[a].pc \in {"applied", "recovered"} /\ c \in ChangeSets
        /\ journal' = journal /\ replaced' = replaced /\ (End(a) \/ Go(a, "reconcile"))
    BY <1>4, <1>p DEF SettleUnanswered
  <2>2. \/ row' = row
        \/ Appliable(c, at[a].result) /\ row' = Applied(c, at[a].result)
    BY <1>4 DEF SettleUnanswered, c
  <2>3. CASE row' = row
    BY <2>1, <2>3, <1>u, <1>e, StepOfOne
  <2>4. CASE Appliable(c, at[a].result) /\ row' = Applied(c, at[a].result)
    <3>1. at[a].result \in Contents \cup {NoSources}
      BY <1>t DEF TypeOK
    <3>2. /\ row'[c].status = "APPLIED"
          /\ row[c].of # NoTarget => row[row[c].of].status = "APPLIED"
          /\ \A d \in ChangeSets :
               /\ d # c /\ d = row[c].of => row'[d].status = "ROLLED_BACK"
               /\ d # c /\ d # row[c].of => row'[d] = row[d]
      BY <2>1, <2>4, <3>1, <1>t, AppliedFacts
    <3>3. \A d \in ChangeSets : d = row[c].of => d # NoTarget
      BY MemoryAssumption
    <3>4. \A d \in ChangeSets :
            /\ Fresh(d)' => Fresh(d)
            /\ Settled(d) => Settled(d)'
            /\ row'[d].status = "APPLYING" => row[d].status = "APPLYING" \/ d \notin replaced
      BY <3>2, <3>3 DEF Fresh, Settled
    <3> QED
      BY <2>1, <3>4, <1>e, StepOfOne
  <2> QED
    BY <2>2, <2>3, <2>4
<1>5. ASSUME Crash(a) PROVE Replacement'
  BY <1>5, <1>u, <1>e, StepOfOne DEF Crash
<1> QED
  BY <1>1, <1>2, <1>3, <1>4, <1>5 DEF AttemptFails

LEMMA StartReplacement ==
  ASSUME Typed, Replacement, NEW a \in Attempts, NEW c \in ChangeSets, Start(a, c)
  PROVE  Replacement'
<1>1. /\ row' = row /\ journal' = journal /\ replaced' = replaced
      /\ at'[a].pc \in {"claim", "reconcile"}
      /\ \A b \in Attempts : b # a => at'[b] = at[b]
  BY StartFacts DEF Start, history
<1>2. Staged(a)' /\ ~Executing(a)'
  BY <1>1 DEF Staged, Executing
<1>3. \A d \in ChangeSets :
        /\ Fresh(d)' => Fresh(d)
        /\ Settled(d) => Settled(d)'
        /\ row'[d].status = "APPLYING" => row[d].status = "APPLYING"
  BY <1>1 DEF Fresh, Settled
<1> QED
  BY <1>1, <1>2, <1>3, StepOfOne

(* Replacement is kept by every step. *)
LEMMA NextReplacement == Typed /\ Replacement /\ [Next]_vars => Replacement'
<1> SUFFICES ASSUME Typed, Replacement, [Next]_vars PROVE Replacement'
  OBVIOUS
<1>1. CASE UNCHANGED vars
  BY <1>1, StepOfNone DEF vars
<1>2. ASSUME NEW s \in Savers, Save(s) \/ SaverCrashes(s) PROVE Replacement'
  BY <1>2, StepOfNone DEF Save, SaverAcquires, JudgeLock, RemoveStaleLock, SaverGivesUp,
     AppendEntry, SaverReleases, SaverCrashes, files, history
<1>3. ASSUME NEW e \in Editors, NEW p \in Paths, Edit(e, p) PROVE Replacement'
  BY <1>3, StepOfNone DEF Edit, history
<1>4. CASE Next
  BY <1>4, <1>2, <1>3, ChangeReplacement, StartReplacement, AttemptReplacement,
     AttemptFailsReplacement DEF Next
<1> QED
  BY <1>1, <1>4

LEMMA ReplacementAlways == Spec => [](Typed /\ Replacement)
BY InitTyped, NextTyped, InitReplacement, NextReplacement, PTL DEF Spec

(* While a replacement is not recorded, its journal is there for a recovery. *)
THEOREM EvidenceAlwaysKept == Spec => []EvidenceKept
<1>1. Typed /\ Replacement => EvidenceKept
  BY DEF Replacement
<1> QED
  BY <1>1, ReplacementAlways, PTL

(* However often a change set is attempted, retried and recovered, its file is *)
(* replaced once at most. *)
THEOREM FileRenamedOnce == Spec => RenamedOnce
<1>1. Typed /\ Replacement /\ [Next]_vars
        => [\A a \in Attempts : Rename(a) => at[a].change \notin replaced]_vars
  BY DEF Replacement, Staged, Rename
<1> QED
  BY <1>1, ReplacementAlways, PTL DEF Spec, RenamedOnce

-----------------------------------------------------------------------------
(* Rollbacks *)

Undoing(t) == {c \in ChangeSets : row[c].of = t /\ Settled(c)}

(* A change is rolled back exactly when one applied change set undoes it. *)
Undone ==
  \A t \in ChangeSets :
    IF row[t].status = "ROLLED_BACK"
    THEN \E c \in ChangeSets : Undoing(t) = {c}
    ELSE Undoing(t) = {}

(* A step that settles nothing and keeps the targets of what is settled. *)
LEMMA UndoingUnchanged ==
  ASSUME Undone,
         \A c \in ChangeSets :
           /\ Settled(c)' <=> Settled(c)
           /\ Settled(c) => row'[c].of = row[c].of
           /\ row'[c].status = "ROLLED_BACK" <=> row[c].status = "ROLLED_BACK"
  PROVE  Undone'
<1>1. ASSUME NEW t \in ChangeSets PROVE Undoing(t)' = Undoing(t)
  BY DEF Undoing
<1> QED
  BY <1>1 DEF Undone

(* A rollback that is applied becomes the one that undoes its target. *)
LEMMA UndoingApplied ==
  ASSUME Typed, Undone, NEW c \in ChangeSets, NEW sources \in Contents \cup {NoSources},
         Appliable(c, sources), row' = Applied(c, sources)
  PROVE  Undone'
<1>1. /\ row[c].status = "APPLYING" /\ row'[c].status = "APPLIED"
      /\ row[c].of # c
      /\ row[c].of # NoTarget => row[row[c].of].status = "APPLIED"
      /\ \A d \in ChangeSets :
           /\ row'[d].of = row[d].of
           /\ d # c /\ d = row[c].of => row'[d].status = "ROLLED_BACK"
           /\ d # c /\ d # row[c].of => row'[d] = row[d]
  BY AppliedFacts DEF Typed
<1>2. ~Settled(c) /\ Settled(c)'
  BY <1>1 DEF Settled
<1>3. ASSUME NEW d \in ChangeSets, d # c PROVE Settled(d)' <=> Settled(d)
  <2>1. CASE d = row[c].of
    <3>1. row[d].status = "APPLIED" /\ row'[d].status = "ROLLED_BACK"
      BY <1>1, <1>3, <2>1, MemoryAssumption
    <3> QED
      BY <3>1 DEF Settled
  <2>2. CASE d # row[c].of
    BY <1>1, <1>3, <2>2 DEF Settled
  <2> QED
    BY <2>1, <2>2
<1>4. ASSUME NEW t \in ChangeSets
      PROVE  IF row'[t].status = "ROLLED_BACK"
             THEN \E d \in ChangeSets : Undoing(t)' = {d}
             ELSE Undoing(t)' = {}
  <2>1. CASE t = row[c].of
    <3>1. row[t].status = "APPLIED" /\ row'[t].status = "ROLLED_BACK"
      BY <1>1, <2>1, MemoryAssumption
    <3>2. Undoing(t) = {}
      BY <3>1 DEF Undone
    <3>3. Undoing(t)' = {c}
      BY <2>1, <3>2, <1>1, <1>2, <1>3 DEF Undoing
    <3> QED
      BY <3>1, <3>3
  <2>2. CASE t # row[c].of
    <3>1. Undoing(t)' = Undoing(t)
      BY <2>2, <1>1, <1>2, <1>3 DEF Undoing
    <3>2. row'[t].status = "ROLLED_BACK" <=> row[t].status = "ROLLED_BACK"
      BY <2>2, <1>1
    <3> QED
      BY <3>1, <3>2 DEF Undone
  <2> QED
    BY <2>1, <2>2
<1> QED
  BY <1>4 DEF Undone

LEMMA InitUndone == Init => Undone
BY DEF Init, Undone, Undoing, Settled, NoRow

(* A change set without a record, or one that only changes its status. *)
LEMMA UndoingOfOthers ==
  ASSUME Undone, NEW c \in ChangeSets, ~Settled(c), row'[c].status \notin {"APPLIED", "ROLLED_BACK"},
         \A d \in ChangeSets : d # c => row'[d] = row[d]
  PROVE  Undone'
<1>1. ASSUME NEW d \in ChangeSets
      PROVE  /\ Settled(d)' <=> Settled(d)
             /\ Settled(d) => row'[d].of = row[d].of
             /\ row'[d].status = "ROLLED_BACK" <=> row[d].status = "ROLLED_BACK"
  <2>1. CASE d = c
    BY <2>1 DEF Settled
  <2>2. CASE d # c
    BY <2>2 DEF Settled
  <2> QED
    BY <2>1, <2>2
<1> QED
  BY <1>1, UndoingUnchanged

LEMMA NextUndone == Typed /\ Undone /\ [Next]_vars => Undone'
<1> SUFFICES ASSUME Typed, Undone, [Next]_vars PROVE Undone'
  OBVIOUS
<1>t. row \in [ChangeSets -> Rows] /\ \A d \in ChangeSets : row[d].status \in Status
  BY DEF Typed, TypeOK, Rows
<1>u. ASSUME row' = row PROVE Undone'
  <2>1. \A c \in ChangeSets : Settled(c)' <=> Settled(c)
    BY <1>u DEF Settled
  <2> QED
    BY <1>u, <2>1, UndoingUnchanged
<1>1. ASSUME NEW c \in ChangeSets, NEW p \in Paths, Propose(c, p) PROVE Undone'
  BY <1>1, <1>t, UndoingOfOthers DEF Propose, Settled
<1>2. ASSUME NEW c \in ChangeSets, NEW t \in ChangeSets, ProposeRollback(c, t) PROVE Undone'
  BY <1>2, <1>t, UndoingOfOthers DEF ProposeRollback, Settled
<1>s. ASSUME NEW c \in ChangeSets, NEW to \in {"APPROVED", "REJECTED", "APPLYING", "FAILED"},
             to \in MayBecome(row[c].status), row' = [row EXCEPT ![c].status = to]
      PROVE  Undone'
  <2>1. ~Settled(c)
    BY <1>s, <1>t, Transitions DEF Settled
  <2>2. row'[c].status = to /\ \A d \in ChangeSets : d # c => row'[d] = row[d]
    BY <1>s, StatusFacts DEF Typed, Status
  <2> QED
    BY <2>1, <2>2, UndoingOfOthers
<1>3. ASSUME NEW c \in ChangeSets, NEW verdict \in Status, Review(c, verdict) PROVE Undone'
  BY <1>3, <1>s DEF Review
<1>c. \A a \in Attempts : at[a].pc # "idle" => at[a].change \in ChangeSets
  BY DEF Typed, Placed
<1>4. ASSUME NEW a \in Attempts, Claim(a) PROVE Undone'
  BY <1>4, <1>c, <1>s, <1>u DEF Claim
<1>5. ASSUME NEW a \in Attempts, SettleFailed(a) PROVE Undone'
  BY <1>5, <1>c, <1>s, <1>u DEF SettleFailed
<1>6. ASSUME NEW a \in Attempts, SettleApplied(a) \/ SettleUnanswered(a) PROVE Undone'
  <2>1. at[a].change \in ChangeSets /\ at[a].result \in Contents \cup {NoSources}
    BY <1>6, <1>c DEF SettleApplied, SettleUnanswered, Typed, TypeOK
  <2>2. \/ row' = row
        \/ /\ Appliable(at[a].change, at[a].result)
           /\ row' = Applied(at[a].change, at[a].result)
    BY <1>6 DEF SettleApplied, SettleUnanswered
  <2> QED
    BY <2>1, <2>2, <1>u, UndoingApplied
<1>7. ASSUME NEW a \in Attempts, Attempt(a) \/ AttemptFails(a) PROVE Undone'
  BY <1>4, <1>5, <1>6, <1>7, <1>u
     DEF Attempt, AttemptFails, AcquireLock, LockTimeout, Prepare, Rename, Verify, Release,
         Reconcile, Recover, Finalize, PrepareFails, RenameFails, VerifyFails, Crash
<1>8. ASSUME NEW s \in Savers, Save(s) \/ SaverCrashes(s) PROVE Undone'
  BY <1>8, <1>u DEF Save, SaverAcquires, JudgeLock, RemoveStaleLock, SaverGivesUp,
     AppendEntry, SaverReleases, SaverCrashes
<1>9. ASSUME NEW a \in Attempts, NEW c \in ChangeSets, Start(a, c) PROVE Undone'
  BY <1>9, <1>u DEF Start
<1>10. ASSUME NEW e \in Editors, NEW p \in Paths, Edit(e, p) PROVE Undone'
  BY <1>10, <1>u DEF Edit
<1>11. CASE UNCHANGED vars
  BY <1>11, <1>u DEF vars
<1>12. CASE Next
  BY <1>12, <1>1, <1>2, <1>3, <1>7, <1>8, <1>9, <1>10 DEF Next, Change
<1> QED
  BY <1>11, <1>12

(* A change is undone by one applied rollback, and by no more than one. *)
THEOREM ChangeUndoneOnce == Spec => []UndoneOnce
<1>1. Spec => [](Typed /\ Undone)
  BY InitTyped, NextTyped, InitUndone, NextUndone, PTL DEF Spec
<1>2. Typed /\ Undone => UndoneOnce
  <2> SUFFICES ASSUME Undone, NEW t \in ChangeSets
               PROVE  Cardinality(Undoing(t)) = IF row[t].status = "ROLLED_BACK" THEN 1 ELSE 0
    BY DEF UndoneOnce, Undoing, Settled
  <2>1. CASE row[t].status = "ROLLED_BACK"
    <3>1. PICK c \in ChangeSets : Undoing(t) = {c}
      BY <2>1 DEF Undone
    <3> QED
      BY <2>1, <3>1, FS_Singleton
  <2>2. CASE row[t].status # "ROLLED_BACK"
    BY <2>2, FS_EmptySet DEF Undone
  <2> QED
    BY <2>1, <2>2
<1> QED
  BY <1>1, <1>2, PTL

-----------------------------------------------------------------------------
(* The lock file, while no living holder has been robbed of it *)

(* Whoever works under the lock file is the one who created it. *)
Exclusive ==
  /\ \A a \in Attempts : Holding(a) => lock = a
  /\ \A s \in Savers : saver[s] \in {"inside", "leaving"} => lock = s

(* Who was robbed stays robbed, and only the removal of a lock file robs. *)
LEMMA RobbedStays ==
  ASSUME [Next]_vars
  PROVE  /\ robbed \subseteq robbed'
         /\ \/ robbed' = robbed
            \/ \E s \in Savers : RemoveStaleLock(s)
<1>1. CASE UNCHANGED vars
  BY <1>1 DEF vars
<1>2. ASSUME NEW c \in ChangeSets, Change(c) PROVE robbed' = robbed
  BY <1>2 DEF Change, Propose, ProposeRollback, Review, history
<1>3. ASSUME NEW a \in Attempts, NEW c \in ChangeSets, Start(a, c) PROVE robbed' = robbed
  BY <1>3 DEF Start, history
<1>4. ASSUME NEW a \in Attempts, Attempt(a) \/ AttemptFails(a) PROVE robbed' = robbed
  BY <1>4 DEF Attempt, AttemptFails, Claim, AcquireLock, LockTimeout, Prepare, Rename, Verify,
     Release, SettleApplied, SettleFailed, Reconcile, Recover, Finalize, PrepareFails, RenameFails,
     VerifyFails, SettleUnanswered, Crash, history
<1>5. ASSUME NEW s \in Savers, Save(s) \/ SaverCrashes(s), ~RemoveStaleLock(s)
      PROVE  robbed' = robbed
  BY <1>5 DEF Save, SaverAcquires, JudgeLock, SaverGivesUp, AppendEntry, SaverReleases,
     SaverCrashes, history
<1>6. ASSUME NEW s \in Savers, RemoveStaleLock(s) PROVE robbed \subseteq robbed'
  BY <1>6 DEF RemoveStaleLock
<1>7. ASSUME NEW e \in Editors, NEW p \in Paths, Edit(e, p) PROVE robbed' = robbed
  BY <1>7 DEF Edit, history
<1> QED
  BY <1>1, <1>2, <1>3, <1>4, <1>5, <1>6, <1>7 DEF Next

(* A step of one attempt that frees, keeps or abandons the lock file. *)
LEMMA ExclusiveStep ==
  ASSUME Exclusive, NEW a \in Attempts, saver' = saver,
         \A b \in Attempts : b # a => at'[b] = at[b],
         \/ lock' = lock /\ (Holding(a)' => Holding(a))
         \/ lock' \in {Free, Orphan} /\ Holding(a) /\ ~Holding(a)'
  PROVE  Exclusive'
<1>1. CASE lock' = lock /\ (Holding(a)' => Holding(a))
  <2>1. ASSUME NEW b \in Attempts, Holding(b)' PROVE Holding(b)
    <3>1. CASE b = a
      BY <1>1, <2>1, <3>1
    <3>2. CASE b # a
      BY <2>1, <3>2 DEF Holding
    <3> QED
      BY <3>1, <3>2
  <2> QED
    BY <1>1, <2>1 DEF Exclusive
<1>2. CASE lock' \in {Free, Orphan} /\ Holding(a) /\ ~Holding(a)'
  <2>1. lock = a /\ \A s \in Savers : a # s
    BY <1>2, MemoryAssumption DEF Exclusive
  <2>2. a # Orphan
    BY MemoryAssumption
  <2>3. \A s \in Savers : saver[s] \notin {"inside", "leaving"}
    BY <2>1, <2>2 DEF Exclusive
  <2>4. ASSUME NEW b \in Attempts PROVE ~Holding(b)'
    <3>1. CASE b = a
      BY <1>2, <3>1
    <3>2. CASE b # a
      <4>1. ~Holding(b) /\ at'[b] = at[b]
        BY <2>1, <3>2 DEF Exclusive
      <4> QED
        BY <4>1 DEF Holding
    <3> QED
      BY <3>1, <3>2
  <2> QED
    BY <2>3, <2>4 DEF Exclusive
<1> QED
  BY <1>1, <1>2

LEMMA InitExclusive == Init => Exclusive
BY DEF Init, Exclusive, Holding, Idle

LEMMA AttemptExclusive ==
  ASSUME Typed, Exclusive, NEW a \in Attempts, Attempt(a) \/ AttemptFails(a)
  PROVE  Exclusive'
<1>e. ASSUME End(a) PROVE ~Holding(a)' /\ \A b \in Attempts : b # a => at'[b] = at[b]
  BY <1>e, EndFacts DEF Holding
<1>g. ASSUME NEW pc \in AttemptPcs, Go(a, pc), at[a].pc # "idle", pc # "release"
      PROVE  at'[a].pc = pc /\ \A b \in Attempts : b # a => at'[b] = at[b]
  BY <1>g, GoFacts
<1>r. ASSUME NEW next \in {"failed", "reconcile"}, ReleaseWith(a, next), at[a].pc # "idle"
      PROVE  at'[a].pc = "release" /\ \A b \in Attempts : b # a => at'[b] = at[b]
  BY <1>r, ReleaseWithFacts
<1>1. ASSUME Claim(a) PROVE Exclusive'
  <2>1. lock' = lock /\ saver' = saver /\ ~Holding(a)
    BY <1>1 DEF Claim, Holding
  <2>2. ~Holding(a)' /\ \A b \in Attempts : b # a => at'[b] = at[b]
    <3>1. CASE End(a)
      BY <3>1, <1>e
    <3>2. CASE Go(a, "lock")
      BY <1>1, <3>2, <1>g DEF Claim, Holding, AttemptPcs
    <3> QED
      BY <1>1, <3>1, <3>2 DEF Claim
  <2> QED
    BY <2>1, <2>2, ExclusiveStep
<1>2. ASSUME AcquireLock(a) PROVE Exclusive'
  <2>1. lock = Free /\ lock' = a /\ saver' = saver
    BY <1>2 DEF AcquireLock
  <2>2. Opened(a) \in AttemptPcs /\ Opened(a) # "release" /\ at[a].pc # "idle" /\ Go(a, Opened(a))
    BY <1>2 DEF AcquireLock, Opened, Locking, AttemptPcs
  <2>3. \A b \in Attempts : b # a => at'[b] = at[b]
    BY <2>2, <1>g
  <2>4. /\ \A b \in Attempts : ~Holding(b)
        /\ \A s \in Savers : saver[s] \notin {"inside", "leaving"}
    BY <2>1, MemoryAssumption DEF Exclusive
  <2>5. ASSUME NEW b \in Attempts, b # a PROVE ~Holding(b)'
    BY <2>3, <2>4, <2>5 DEF Holding
  <2> QED
    BY <2>1, <2>4, <2>5 DEF Exclusive
<1>3. ASSUME LockTimeout(a) PROVE Exclusive'
  <2>1. lock' = lock /\ saver' = saver /\ at[a].pc # "idle" /\ (End(a) \/ Go(a, "reconcile"))
    BY <1>3 DEF LockTimeout, Locking
  <2>2. ~Holding(a)' /\ \A b \in Attempts : b # a => at'[b] = at[b]
    BY <2>1, <1>e, <1>g DEF Holding, AttemptPcs
  <2> QED
    BY <2>1, <2>2, ExclusiveStep
<1>4. ASSUME Prepare(a) \/ PrepareFails(a) PROVE Exclusive'
  <2>1. lock' = lock /\ saver' = saver /\ at[a].pc = "prepare" /\ Holding(a)
    BY <1>4 DEF Prepare, PrepareFails, Holding
  <2>2. Go(a, "rename") \/ ReleaseWith(a, "failed")
    BY <1>4 DEF Prepare, PrepareFails
  <2>3. \A b \in Attempts : b # a => at'[b] = at[b]
    BY <2>1, <2>2, <1>g, <1>r DEF AttemptPcs
  <2> QED
    BY <2>1, <2>3, ExclusiveStep
<1>5. ASSUME Rename(a) \/ RenameFails(a) PROVE Exclusive'
  <2>1. lock' = lock /\ saver' = saver /\ at[a].pc = "rename" /\ Holding(a)
    BY <1>5 DEF Rename, RenameFails, Holding
  <2>2. Go(a, "verify") \/ ReleaseWith(a, "failed")
    BY <1>5 DEF Rename, RenameFails
  <2>3. \A b \in Attempts : b # a => at'[b] = at[b]
    BY <2>1, <2>2, <1>g, <1>r DEF AttemptPcs
  <2> QED
    BY <2>1, <2>3, ExclusiveStep
<1>6. ASSUME Verify(a) \/ VerifyFails(a) PROVE Exclusive'
  <2>1. lock' = lock /\ saver' = saver /\ at[a].pc = "verify" /\ Holding(a)
    BY <1>6 DEF Verify, VerifyFails, Holding
  <2>2. \/ at' = [at EXCEPT ![a].pc = "release", ![a].next = "applied", ![a].result = content]
        \/ ReleaseWith(a, "reconcile")
    BY <1>6 DEF Verify, VerifyFails
  <2>3. \A b \in Attempts : b # a => at'[b] = at[b]
    BY <2>1, <2>2, <1>r, ReleaseFacts DEF Typed, TypeOK
  <2> QED
    BY <2>1, <2>3, ExclusiveStep
<1>7. ASSUME Release(a) PROVE Exclusive'
  <2>1. /\ lock' = Free /\ saver' = saver /\ at[a].pc = "release" /\ Holding(a)
        /\ Go(a, at[a].next) /\ at[a].next \in {"failed", "applied", "reconcile"}
    BY <1>7 DEF Release, Holding, Typed, Placed
  <2>2. ~Holding(a)' /\ \A b \in Attempts : b # a => at'[b] = at[b]
    BY <2>1, <1>g DEF Holding, AttemptPcs
  <2> QED
    BY <2>1, <2>2, ExclusiveStep
<1>8. ASSUME SettleApplied(a) \/ SettleFailed(a) \/ SettleUnanswered(a) \/ Reconcile(a)
      PROVE  Exclusive'
  <2>1. lock' = lock /\ saver' = saver /\ at[a].pc # "idle"
    BY <1>8 DEF SettleApplied, SettleFailed, SettleUnanswered, Reconcile
  <2>2. End(a) \/ Go(a, "reconcile") \/ Go(a, "lockFinalize") \/ Go(a, "lockRecover")
    BY <1>8 DEF SettleApplied, SettleFailed, SettleUnanswered, Reconcile
  <2>3. ~Holding(a)' /\ \A b \in Attempts : b # a => at'[b] = at[b]
    BY <2>1, <2>2, <1>e, <1>g DEF Holding, AttemptPcs
  <2> QED
    BY <2>1, <2>3, ExclusiveStep
<1>9. ASSUME Recover(a) PROVE Exclusive'
  <2>1. lock' = Free /\ saver' = saver /\ at[a].pc = "recover" /\ Holding(a)
    BY <1>9 DEF Recover, Holding
  <2>2. \/ at' = [at EXCEPT ![a].pc = "recovered", ![a].result = content]
        \/ Go(a, "failed")
        \/ End(a)
    BY <1>9 DEF Recover
  <2>3. ~Holding(a)' /\ \A b \in Attempts : b # a => at'[b] = at[b]
    <3>1. CASE at' = [at EXCEPT ![a].pc = "recovered", ![a].result = content]
      <4>1. at'[a].pc = "recovered" /\ \A b \in Attempts : b # a => at'[b] = at[b]
        BY <3>1 DEF Typed, TypeOK
      <4> QED
        BY <4>1 DEF Holding
    <3> QED
      BY <2>1, <2>2, <3>1, <1>e, <1>g DEF Holding, AttemptPcs
  <2> QED
    BY <2>1, <2>3, ExclusiveStep
<1>10. ASSUME Finalize(a) PROVE Exclusive'
  <2>1. lock' = Free /\ saver' = saver /\ Holding(a) /\ End(a)
    BY <1>10 DEF Finalize, Holding
  <2> QED
    BY <2>1, <1>e, ExclusiveStep
<1>11. ASSUME Crash(a) PROVE Exclusive'
  <2>1. saver' = saver /\ End(a) /\ lock' = IF lock = a THEN Orphan ELSE lock
    BY <1>11 DEF Crash
  <2>2. CASE lock = a
    <3>1. /\ lock' = Orphan
          /\ \A b \in Attempts : b # a => ~Holding(b)
          /\ \A s \in Savers : saver[s] \notin {"inside", "leaving"}
      BY <2>1, <2>2, MemoryAssumption DEF Exclusive
    <3>2. ASSUME NEW b \in Attempts PROVE ~Holding(b)'
      BY <2>1, <3>1, <1>e DEF Holding
    <3> QED
      BY <2>1, <3>1, <3>2 DEF Exclusive
  <2>3. CASE lock # a
    BY <2>1, <2>3, <1>e, ExclusiveStep DEF Exclusive
  <2> QED
    BY <2>2, <2>3
<1> QED
  BY <1>1, <1>2, <1>3, <1>4, <1>5, <1>6, <1>7, <1>8, <1>9, <1>10, <1>11 DEF Attempt, AttemptFails

LEMMA SaverExclusive ==
  ASSUME Typed, Exclusive, Unrobbed', NEW s \in Savers, Save(s) \/ SaverCrashes(s)
  PROVE  Exclusive'
<1>1. at' = at
  BY DEF Save, SaverAcquires, JudgeLock, RemoveStaleLock, SaverGivesUp, AppendEntry,
         SaverReleases, SaverCrashes, files
<1>h. \A a \in Attempts : Holding(a)' <=> Holding(a)
  BY <1>1 DEF Holding
<1>s. ASSUME NEW pc, saver' = [saver EXCEPT ![s] = pc]
      PROVE  saver'[s] = pc /\ \A t \in Savers : t # s => saver'[t] = saver[t]
  BY <1>s DEF Typed, TypeOK
<1> DEFINE Working(t) == saver[t] \in {"inside", "leaving"}
<1>n. ASSUME lock \in {Free, Orphan}
      PROVE  (\A a \in Attempts : ~Holding(a)) /\ \A t \in Savers : ~Working(t)
  BY <1>n, MemoryAssumption DEF Exclusive
<1>m. ASSUME lock = s
      PROVE  (\A a \in Attempts : ~Holding(a)) /\ \A t \in Savers : t # s => ~Working(t)
  BY <1>m, MemoryAssumption DEF Exclusive
<1>k. ASSUME lock' = lock, saver'[s] \in {"inside", "leaving"} => Working(s),
             \A t \in Savers : t # s => saver'[t] = saver[t]
      PROVE  Exclusive'
  BY <1>k, <1>h DEF Exclusive
<1>f. ASSUME \A a \in Attempts : ~Holding(a), \A t \in Savers : t # s => ~Working(t),
             \A t \in Savers : t # s => saver'[t] = saver[t],
             saver'[s] \in {"inside", "leaving"} => lock' = s
      PROVE  Exclusive'
  BY <1>f, <1>h DEF Exclusive
<1>3. ASSUME SaverAcquires(s) PROVE Exclusive'
  BY <1>3, <1>s, <1>n, <1>f DEF SaverAcquires
<1>4. ASSUME JudgeLock(s) PROVE Exclusive'
  <2>1. lock' = lock /\ saver' = [saver EXCEPT ![s] = IF Stale THEN "removing" ELSE "waiting"]
    BY <1>4 DEF JudgeLock
  <2> QED
    BY <2>1, <1>s, <1>k
<1>5. ASSUME RemoveStaleLock(s) PROVE Exclusive'
  <2>1. lock \in {Free, Orphan}
    BY <1>5 DEF RemoveStaleLock, Unrobbed
  <2> QED
    BY <1>5, <2>1, <1>s, <1>n, <1>f DEF RemoveStaleLock
<1>6. ASSUME SaverGivesUp(s) PROVE Exclusive'
  BY <1>6, <1>s, <1>k DEF SaverGivesUp
<1>7. ASSUME AppendEntry(s) PROVE Exclusive'
  BY <1>7, <1>s, <1>k DEF AppendEntry
<1>8. ASSUME SaverReleases(s) PROVE Exclusive'
  <2>1. lock = s /\ saver' = [saver EXCEPT ![s] = "idle"]
    BY <1>8 DEF SaverReleases, Exclusive
  <2>2. saver'[s] = "idle" /\ \A t \in Savers : t # s => saver'[t] = saver[t]
    BY <2>1, <1>s
  <2> QED
    BY <2>1, <2>2, <1>m, <1>f
<1>9. ASSUME SaverCrashes(s) PROVE Exclusive'
  <2>1. /\ saver' = [saver EXCEPT ![s] = "idle"]
        /\ lock' = IF lock = s THEN Orphan ELSE lock
    BY <1>9 DEF SaverCrashes
  <2>2. CASE lock = s
    BY <2>1, <2>2, <1>s, <1>m, <1>f
  <2>3. CASE lock # s
    BY <2>1, <2>3, <1>s, <1>k
  <2> QED
    BY <2>2, <2>3
<1> QED
  BY <1>3, <1>4, <1>5, <1>6, <1>7, <1>8, <1>9 DEF Save

LEMMA NextExclusive ==
  ASSUME Typed, Exclusive, [Next]_vars, Unrobbed'
  PROVE  Exclusive'
<1>1. ASSUME UNCHANGED <<lock, at, saver>> PROVE Exclusive'
  BY <1>1 DEF Exclusive, Holding
<1>2. ASSUME NEW c \in ChangeSets, Change(c) PROVE Exclusive'
  BY <1>1, <1>2 DEF Change, Propose, ProposeRollback, Review
<1>3. ASSUME NEW a \in Attempts, NEW c \in ChangeSets, Start(a, c) PROVE Exclusive'
  <2>1. /\ lock' = lock /\ saver' = saver
        /\ at'[a].pc \in {"claim", "reconcile"} /\ \A b \in Attempts : b # a => at'[b] = at[b]
    BY <1>3, StartFacts DEF Start
  <2>2. ~Holding(a)'
    BY <2>1 DEF Holding
  <2> QED
    BY <2>1, <2>2, ExclusiveStep
<1>4. ASSUME NEW e \in Editors, NEW p \in Paths, Edit(e, p) PROVE Exclusive'
  BY <1>1, <1>4 DEF Edit
<1>5. CASE UNCHANGED vars
  BY <1>1, <1>5 DEF vars
<1>6. CASE Next
  BY <1>6, <1>2, <1>3, <1>4, AttemptExclusive, SaverExclusive DEF Next
<1> QED
  BY <1>5, <1>6

(* As long as no living holder is robbed, the lock file excludes. *)
Guarded == Unrobbed => Exclusive

LEMMA NextGuarded == Typed /\ Guarded /\ [Next]_vars => Guarded'
<1> SUFFICES ASSUME Typed, Guarded, [Next]_vars, Unrobbed' PROVE Exclusive'
  BY DEF Guarded
<1>1. Exclusive
  BY RobbedStays DEF Guarded, Unrobbed
<1> QED
  BY <1>1, NextExclusive

(* While no living holder was robbed, one process at a time is inside. *)
LEMMA ExclusionUnlessRobbed == Spec => [](Unrobbed => OneInside)
<1>1. Init => Guarded
  BY InitExclusive DEF Guarded
<1>2. Guarded => (Unrobbed => OneInside)
  <2> SUFFICES ASSUME Exclusive PROVE Cardinality(Inside) <= 1
    BY DEF Guarded, OneInside
  <2>1. Inside \subseteq {lock}
    BY DEF Inside, Exclusive
  <2>2. CASE Inside = {}
    BY <2>2, FS_EmptySet
  <2>3. CASE Inside = {lock}
    <3>1. Cardinality({lock}) = 1
      BY FS_Singleton
    <3> QED
      BY <2>3, <3>1
  <2> QED
    BY <2>1, <2>2, <2>3
<1> QED
  BY <1>1, <1>2, InitTyped, NextTyped, NextGuarded, PTL DEF Spec

-----------------------------------------------------------------------------
(* What it takes to rob a living holder *)

(* Without a stall and a crash no lock file is ever stale. *)
Calm ==
  ~MayStall /\ faults = 0 =>
    lock # Orphan /\ robbed = {} /\ \A s \in Savers : saver[s] # "removing"

(* Without a stall, a single saver removes the orphaned lock file it has judged. *)
Solo ==
  ~MayStall /\ (\A s, t \in Savers : s = t) =>
    robbed = {} /\ \A s \in Savers : saver[s] = "removing" => lock = Orphan

LEMMA InitRace == Init => Calm /\ Solo
BY MemoryAssumption DEF Init, Calm, Solo

(* How a step can change the lock file. *)
LEMMA LockMoves ==
  ASSUME Typed, [Next]_vars
  PROVE  \/ lock' = lock
         \/ lock = Free /\ lock' \in Attempts \cup Savers
         \/ lock' = Free /\ \E a \in Attempts : Holding(a)
         \/ lock' = Free /\ \E s \in Savers : saver[s] = "leaving"
         \/ lock' = Free /\ \E s \in Savers : RemoveStaleLock(s)
         \/ lock' = Orphan /\ lock \in Attempts \cup Savers /\ faults' = faults + 1
<1>1. CASE UNCHANGED vars
  BY <1>1 DEF vars
<1>2. ASSUME NEW c \in ChangeSets, Change(c) PROVE lock' = lock
  BY <1>2 DEF Change, Propose, ProposeRollback, Review
<1>3. ASSUME NEW a \in Attempts, NEW c \in ChangeSets, Start(a, c) PROVE lock' = lock
  BY <1>3 DEF Start
<1>4. ASSUME NEW a \in Attempts, AcquireLock(a) PROVE lock = Free /\ lock' \in Attempts
  BY <1>4 DEF AcquireLock
<1>5. ASSUME NEW a \in Attempts, Release(a) \/ Recover(a) \/ Finalize(a)
      PROVE  lock' = Free /\ Holding(a)
  BY <1>5 DEF Release, Recover, Finalize, Holding
<1>6. ASSUME NEW a \in Attempts, Crash(a)
      PROVE  lock' = lock \/ (lock' = Orphan /\ lock = a /\ faults' = faults + 1)
  BY <1>6 DEF Crash, Fault
<1>7. ASSUME NEW a \in Attempts, Attempt(a) \/ AttemptFails(a), ~AcquireLock(a), ~Crash(a),
             ~(Release(a) \/ Recover(a) \/ Finalize(a))
      PROVE  lock' = lock
  BY <1>7 DEF Attempt, AttemptFails, Claim, LockTimeout, Prepare, Rename, Verify, SettleApplied,
     SettleFailed, Reconcile, PrepareFails, RenameFails, VerifyFails, SettleUnanswered
<1>8. ASSUME NEW s \in Savers, Save(s) \/ SaverCrashes(s)
      PROVE  \/ lock' = lock
             \/ lock = Free /\ lock' = s
             \/ lock' = Free /\ saver[s] = "leaving"
             \/ lock' = Free /\ RemoveStaleLock(s)
             \/ lock' = Orphan /\ lock = s /\ faults' = faults + 1
  BY <1>8 DEF Save, SaverAcquires, JudgeLock, RemoveStaleLock, SaverGivesUp, AppendEntry,
         SaverReleases, SaverCrashes, Fault
<1>9. ASSUME NEW e \in Editors, NEW p \in Paths, Edit(e, p) PROVE lock' = lock
  BY <1>9 DEF Edit
<1>10. ASSUME NEW a \in Attempts, Attempt(a) \/ AttemptFails(a)
       PROVE  \/ lock' = lock
              \/ lock = Free /\ lock' \in Attempts
              \/ lock' = Free /\ Holding(a)
              \/ lock' = Orphan /\ lock = a /\ faults' = faults + 1
  BY <1>10, <1>4, <1>5, <1>6, <1>7
<1> QED
  BY <1>1, <1>2, <1>3, <1>8, <1>9, <1>10 DEF Next

(* A saver comes to remove a lock file only by judging it stale. *)
LEMMA ComesToRemove ==
  ASSUME Typed, [Next]_vars, NEW s \in Savers, saver'[s] = "removing"
  PROVE  \/ saver[s] = "removing" /\ ~RemoveStaleLock(s)
         \/ Stale /\ lock' = lock
<1>1. saver' = saver \/ \E t \in Savers : Save(t) \/ SaverCrashes(t)
  BY DEF Next, vars, Change, Propose, ProposeRollback, Review, Start, Edit, Attempt, AttemptFails,
     Claim, AcquireLock, LockTimeout, Prepare, Rename, Verify, Release, SettleApplied, SettleFailed,
     Reconcile, Recover, Finalize, PrepareFails, RenameFails, VerifyFails, SettleUnanswered, Crash
<1>2. CASE saver' = saver
  BY <1>2 DEF RemoveStaleLock, Typed, TypeOK
<1>3. ASSUME NEW t \in Savers, Save(t) \/ SaverCrashes(t), saver' # saver
      PROVE  \/ saver[s] = "removing" /\ ~RemoveStaleLock(s)
             \/ Stale /\ lock' = lock
  <2>1. PICK pc : saver' = [saver EXCEPT ![t] = pc]
    BY <1>3 DEF Save, SaverAcquires, JudgeLock, RemoveStaleLock, SaverGivesUp, AppendEntry,
           SaverReleases, SaverCrashes
  <2>2. CASE t # s
    BY <2>1, <2>2 DEF RemoveStaleLock, Typed, TypeOK
  <2>3. CASE t = s
    BY <1>3, <2>3 DEF Save, SaverAcquires, JudgeLock, RemoveStaleLock, SaverGivesUp, AppendEntry,
           SaverReleases, SaverCrashes, Typed, TypeOK
  <2> QED
    BY <2>2, <2>3
<1> QED
  BY <1>1, <1>2, <1>3

LEMMA FaultsGrow ==
  ASSUME [Next]_vars PROVE faults' = faults \/ faults' = faults + 1
BY DEF Next, vars, Change, Propose, ProposeRollback, Review, Start, Edit, Attempt, AttemptFails,
   Claim, AcquireLock, LockTimeout, Prepare, Rename, Verify, Release, SettleApplied, SettleFailed,
   Reconcile, Recover, Finalize, PrepareFails, RenameFails, VerifyFails, SettleUnanswered, Crash,
   Save, SaverAcquires, JudgeLock, RemoveStaleLock, SaverGivesUp, AppendEntry, SaverReleases,
   SaverCrashes, Fault

LEMMA NextCalm == Typed /\ Calm /\ [Next]_vars => Calm'
<1> SUFFICES ASSUME Typed, Calm, [Next]_vars, ~MayStall, faults' = 0
             PROVE  lock' # Orphan /\ robbed' = {} /\ \A s \in Savers : saver'[s] # "removing"
  BY DEF Calm
<1>1. faults = 0 /\ faults' = faults
  BY FaultsGrow DEF Typed, TypeOK
<1>2. lock # Orphan /\ robbed = {} /\ \A s \in Savers : saver[s] # "removing"
  BY <1>1 DEF Calm
<1>3. \A s \in Savers : ~RemoveStaleLock(s)
  BY <1>2 DEF RemoveStaleLock
<1>4. robbed' = {}
  BY <1>2, <1>3, RobbedStays
<1>5. lock' # Orphan
  BY <1>1, <1>2, LockMoves, MemoryAssumption
<1>6. ~Stale
  BY <1>2 DEF Stale
<1>7. \A s \in Savers : saver'[s] # "removing"
  BY <1>2, <1>6, ComesToRemove
<1> QED
  BY <1>4, <1>5, <1>7

LEMMA NextSolo == Typed /\ Guarded /\ Solo /\ [Next]_vars => Solo'
<1> SUFFICES ASSUME Typed, Guarded, Solo, [Next]_vars, ~MayStall, \A s, t \in Savers : s = t
             PROVE  robbed' = {} /\ \A s \in Savers : saver'[s] = "removing" => lock' = Orphan
  BY DEF Solo
<1>1. robbed = {} /\ \A s \in Savers : saver[s] = "removing" => lock = Orphan
  BY DEF Solo
<1>2. Exclusive
  BY <1>1 DEF Guarded, Unrobbed
<1>3. ASSUME NEW s \in Savers, RemoveStaleLock(s) PROVE robbed' = robbed
  BY <1>1, <1>3 DEF RemoveStaleLock
<1>4. robbed' = {}
  BY <1>1, <1>3, RobbedStays
<1>5. ASSUME NEW s \in Savers, saver'[s] = "removing" PROVE lock' = Orphan
  <2>1. CASE Stale /\ lock' = lock
    BY <2>1 DEF Stale
  <2>2. CASE saver[s] = "removing" /\ ~RemoveStaleLock(s)
    <3>1. lock = Orphan /\ \A t \in Savers : saver[t] # "leaving" /\ ~RemoveStaleLock(t)
      BY <1>1, <2>2
    <3>2. \A a \in Attempts : ~Holding(a)
      BY <1>2, <3>1, MemoryAssumption DEF Exclusive
    <3> QED
      BY <3>1, <3>2, LockMoves, MemoryAssumption
  <2> QED
    BY <1>5, <2>1, <2>2, ComesToRemove
<1> QED
  BY <1>4, <1>5

(* A living holder is robbed of its lock file only beyond the age of a     *)
(* stale one, or, after a crash, in a race of two savers (removeStaleLock, *)
(* which judges and removes in two steps).                                 *)
THEOREM RobbedOnlyInRace == Spec => []RobbedInRace
<1>1. Init => Guarded
  BY InitExclusive DEF Guarded
<1>2. Typed /\ Calm /\ Solo => RobbedInRace
  BY DEF Typed, TypeOK, Calm, Solo, RobbedInRace
<1> QED
  BY <1>1, <1>2, InitTyped, NextTyped, NextGuarded, InitRace, NextCalm, NextSolo, PTL DEF Spec

(* As long as no saver removes the lock file of a living holder, one       *)
(* process at a time works under it (withFileLock and acquireLock), and it *)
(* takes a stall or a race of two savers for that removal.                 *)
THEOREM OneInsideAlways == Spec => []OneInsideUnlessRobbed
<1>1. (Unrobbed => OneInside) /\ RobbedInRace => OneInsideUnlessRobbed
  BY DEF OneInsideUnlessRobbed
<1> QED
  BY <1>1, ExclusionUnlessRobbed, RobbedOnlyInRace, PTL

-----------------------------------------------------------------------------
(* Saved entries *)

(* What a change set takes away or brings in is never the mark of a saver. *)
Marked == \A c \in ChangeSets : row[c].before \cap Savers = row[c].after \cap Savers

(* Between the validation and the rename nobody saves an entry into the file. *)
Validated ==
  \A a \in Attempts : at[a].pc = "rename" =>
    content[row[at[a].change].path] \cap Savers = row[at[a].change].before \cap Savers

Appended == \A s \in Savers : saver[s] = "leaving" => s \in content[Monthly]

SavedStay == saved \subseteq content[Monthly]

Kept == Marked /\ Validated /\ Appended /\ SavedStay

LEMMA InitKept == Init => Kept
BY DEF Init, Kept, Marked, Validated, Appended, SavedStay, NoRow, Idle

(* The files a change set is about stay the same. *)
LEMMA ChangeKeepsMarks ==
  ASSUME Typed, Replacement, Kept, NEW c \in ChangeSets, Change(c) PROVE Kept'
<1>t. row \in [ChangeSets -> Rows] /\ content \in Contents /\ \A d \in ChangeSets : row[d] \in Rows
  BY DEF Typed, TypeOK, Rows
<1>0. content' = content /\ at' = at /\ saver' = saver /\ saved' = saved
  BY DEF Change, Propose, ProposeRollback, Review, files, history
<1>1. ASSUME NEW p \in Paths, Propose(c, p) PROVE Marked' /\ Fresh(c)
  <2>1. /\ row'[c].before = content[p] /\ row'[c].after = content[p] \cup {c}
        /\ \A d \in ChangeSets : d # c => row'[d] = row[d]
    BY <1>1, <1>t DEF Propose
  <2>2. c \notin Savers
    BY MemoryAssumption
  <2>3. row'[c].before \cap Savers = row'[c].after \cap Savers
    BY <2>1, <2>2
  <2> QED
    BY <1>1, <2>1, <2>3 DEF Propose, Kept, Marked, Fresh
<1>2. ASSUME NEW t \in ChangeSets, ProposeRollback(c, t) PROVE Marked' /\ Fresh(c)
  <2>1. /\ row'[c].before = row[t].after /\ row'[c].after = row[t].before
        /\ \A d \in ChangeSets : d # c => row'[d] = row[d]
    BY <1>2, <1>t DEF ProposeRollback
  <2> QED
    BY <1>2, <2>1 DEF ProposeRollback, Kept, Marked, Fresh
<1>3. ASSUME NEW verdict \in Status, Review(c, verdict) PROVE Marked' /\ Fresh(c)
  <2>1. /\ row'[c].before = row[c].before /\ row'[c].after = row[c].after
        /\ \A d \in ChangeSets : d # c => row'[d] = row[d]
    BY <1>3, <1>t DEF Review, Rows
  <2>2. row[c].status \in {"PROPOSED", "APPROVED"}
    BY <1>3, <1>t, Transitions DEF Review, Rows
  <2> QED
    BY <2>1, <2>2 DEF Kept, Marked, Fresh
<1>4. Marked' /\ Fresh(c)
  BY <1>1, <1>2, <1>3 DEF Change
<1>5. \A d \in ChangeSets : d # c => row'[d] = row[d]
  BY <1>t DEF Change, Propose, ProposeRollback, Review
<1>6. Validated'
  <2> SUFFICES ASSUME NEW a \in Attempts, at[a].pc = "rename"
               PROVE  content[row'[at[a].change].path] \cap Savers = row'[at[a].change].before \cap Savers
    BY <1>0 DEF Validated
  <2>1. ~Fresh(at[a].change) /\ at[a].change \in ChangeSets
    BY DEF Replacement, Staged, Executing, Typed, Placed
  <2> QED
    BY <2>1, <1>4, <1>5 DEF Kept, Validated
<1>7. Appended' /\ SavedStay'
  BY <1>0 DEF Kept, Appended, SavedStay
<1> QED
  BY <1>4, <1>6, <1>7 DEF Kept

(* No step of an attempt changes what a change set is about. *)
LEMMA BodiesKept ==
  ASSUME Typed, NEW a \in Attempts, Attempt(a) \/ AttemptFails(a)
  PROVE  \A c \in ChangeSets :
           /\ row'[c].path = row[c].path
           /\ row'[c].before = row[c].before /\ row'[c].after = row[c].after
<1>t. row \in [ChangeSets -> Rows]
  BY DEF Typed, TypeOK, Rows
<1> DEFINE Same == \A c \in ChangeSets :
             /\ row'[c].path = row[c].path
             /\ row'[c].before = row[c].before /\ row'[c].after = row[c].after
<1>1. ASSUME NEW c, NEW to, row' = [row EXCEPT ![c].status = to] PROVE Same
  BY <1>1, <1>t DEF Rows
<1>2. ASSUME NEW c, NEW sources, row' = Applied(c, sources) PROVE Same
  BY <1>2, <1>t DEF Applied, Rows
<1>3. CASE row' = row
  BY <1>3
<1>4. \/ row' = row
      \/ \E c, to : row' = [row EXCEPT ![c].status = to]
      \/ \E c, sources : row' = Applied(c, sources)
  <2>1. Claim(a) \/ SettleFailed(a)
          => \/ row' = row
             \/ \E to : row' = [row EXCEPT ![at[a].change].status = to]
    BY DEF Claim, SettleFailed
  <2>2. SettleApplied(a) \/ SettleUnanswered(a)
          => \/ row' = row
             \/ row' = Applied(at[a].change, at[a].result)
    BY DEF SettleApplied, SettleUnanswered
  <2> QED
    BY <2>1, <2>2 DEF Attempt, AttemptFails, AcquireLock, LockTimeout, Prepare, Rename, Verify,
       Release, Reconcile, Recover, Finalize, PrepareFails, RenameFails, VerifyFails, Crash
<1> QED
  BY <1>1, <1>2, <1>3, <1>4

(* Only a prepared attempt comes to its rename. *)
LEMMA ComesToRename ==
  ASSUME Typed, NEW a \in Attempts, Attempt(a) \/ AttemptFails(a), at'[a].pc = "rename"
  PROVE  /\ Prepare(a) /\ at'[a].change = at[a].change
         /\ content[row[at[a].change].path] = row[at[a].change].before
<1>e. ~End(a)
  BY EndFacts
<1>g. ASSUME NEW pc \in AttemptPcs \ {"release"}, Go(a, pc), at[a].pc # "idle"
      PROVE  pc = "rename" /\ at'[a].change = at[a].change
  BY <1>g, GoFacts
<1>r. \A next \in {"failed", "reconcile"} : ReleaseWith(a, next) => at[a].pc = "idle"
  BY ReleaseWithFacts
<1> USE DEF AttemptPcs
<1>1. ~Claim(a) /\ ~LockTimeout(a) /\ ~Reconcile(a)
  BY <1>e, <1>g DEF Claim, LockTimeout, Locking, Reconcile
<1>2. ~AcquireLock(a)
  BY <1>g DEF AcquireLock, Locking, Opened
<1>3. ~Rename(a) /\ ~RenameFails(a) /\ ~PrepareFails(a) /\ ~VerifyFails(a)
  BY <1>g, <1>r DEF Rename, RenameFails, PrepareFails, VerifyFails
<1>4. ~Verify(a)
  <2> SUFFICES ASSUME Verify(a) PROVE FALSE
    OBVIOUS
  <2>1. \/ at' = [at EXCEPT ![a].pc = "release", ![a].next = "applied", ![a].result = content]
        \/ ReleaseWith(a, "reconcile")
    BY DEF Verify
  <2> QED
    BY <2>1, <1>r DEF Verify, Typed, TypeOK
<1>5. ~Release(a)
  BY <1>g DEF Release, Typed, Placed
<1>6. ~SettleApplied(a) /\ ~SettleUnanswered(a) /\ ~SettleFailed(a)
  BY <1>e, <1>g DEF SettleApplied, SettleUnanswered, SettleFailed
<1>7. ~Recover(a)
  <2> SUFFICES ASSUME Recover(a) PROVE FALSE
    OBVIOUS
  <2>1. \/ at' = [at EXCEPT ![a].pc = "recovered", ![a].result = content]
        \/ Go(a, "failed")
        \/ End(a)
    BY DEF Recover
  <2>2. at[a].pc = "recover"
    BY DEF Recover
  <2> QED
    BY <2>1, <2>2, <1>e, <1>g DEF Typed, TypeOK
<1>8. ~Finalize(a) /\ ~Crash(a)
  BY <1>e DEF Finalize, Crash
<1>9. Prepare(a)
  BY <1>1, <1>2, <1>3, <1>4, <1>5, <1>6, <1>7, <1>8 DEF Attempt, AttemptFails
<1>10. at[a].pc = "prepare" /\ Go(a, "rename")
  BY <1>9, <1>r DEF Prepare
<1>11. content[row[at[a].change].path] = row[at[a].change].before
  BY <1>9, <1>r DEF Prepare, AsApproved
<1> QED
  BY <1>9, <1>10, <1>11, <1>g

LEMMA AttemptKeepsMarks ==
  ASSUME Typed, Replacement, Exclusive, Kept, NEW a \in Attempts,
         Attempt(a) \/ AttemptFails(a)
  PROVE  Kept'
<1>t. content \in Contents /\ \A c \in ChangeSets : row[c] \in Rows
  BY DEF Typed, TypeOK, Rows
<1>1. saver' = saver /\ saved' = saved
  BY DEF Attempt, AttemptFails, Claim, AcquireLock, LockTimeout, Prepare, Rename, Verify, Release,
     SettleApplied, SettleFailed, Reconcile, Recover, Finalize, PrepareFails, RenameFails,
     VerifyFails, SettleUnanswered, Crash, history
<1>2. \A b \in Attempts : b # a => at'[b] = at[b]
  BY DEF Attempt, AttemptFails, Claim, AcquireLock, LockTimeout, Prepare, Rename, Verify, Release,
     SettleApplied, SettleFailed, Reconcile, Recover, Finalize, PrepareFails, RenameFails,
     VerifyFails, SettleUnanswered, Crash, Go, End, ReleaseWith, Typed, TypeOK
<1>3. Rename(a) \/ content' = content
  BY DEF Attempt, AttemptFails, Claim, AcquireLock, LockTimeout, Prepare, Verify, Release,
     SettleApplied, SettleFailed, Reconcile, Recover, Finalize, PrepareFails, RenameFails,
     VerifyFails, SettleUnanswered, Crash, files
<1>4. \A p \in Paths : content'[p] \cap Savers = content[p] \cap Savers
  <2>1. ASSUME Rename(a) PROVE \A p \in Paths : content'[p] \cap Savers = content[p] \cap Savers
    <3> DEFINE c == at[a].change
    <3>1. at[a].pc = "rename" /\ c \in ChangeSets
      BY <2>1 DEF Rename, Typed, Placed
    <3>2. row[c].path \in Paths /\ content' = [content EXCEPT ![row[c].path] = row[c].after]
      BY <2>1, <3>1, <1>t DEF Rename, Rows
    <3>3. content[row[c].path] \cap Savers = row[c].after \cap Savers
      BY <3>1 DEF Kept, Validated, Marked
    <3> HIDE DEF c
    <3> QED
      BY <3>2, <3>3, <1>t DEF Contents
  <2> QED
    BY <1>3, <2>1
<1>5. Marked'
  BY BodiesKept DEF Kept, Marked
<1>6. Appended' /\ SavedStay'
  <2>1. content'[Monthly] \cap Savers = content[Monthly] \cap Savers
    BY <1>4 DEF Paths
  <2>2. saved \subseteq Savers
    BY DEF Typed, TypeOK
  <2> QED
    BY <2>1, <2>2, <1>1 DEF Kept, Appended, SavedStay
<1>7. Validated'
  <2> SUFFICES ASSUME NEW b \in Attempts, at'[b].pc = "rename"
               PROVE  content'[row'[at'[b].change].path] \cap Savers
                        = row'[at'[b].change].before \cap Savers
    BY DEF Validated
  <2>1. CASE b # a
    <3>1. at'[b] = at[b] /\ at[b].change \in ChangeSets
      BY <2>1, <1>2 DEF Typed, Placed
    <3>2. row[at[b].change].path \in Paths
      BY <3>1, <1>t DEF Rows
    <3> QED
      BY <3>1, <3>2, <1>4, BodiesKept DEF Kept, Validated
  <2>2. CASE b = a
    <3>1. /\ Prepare(a) /\ at'[a].change = at[a].change
          /\ content[row[at[a].change].path] = row[at[a].change].before
      BY <2>2, ComesToRename
    <3>2. content' = content /\ row' = row
      BY <3>1 DEF Prepare
    <3> QED
      BY <2>2, <3>1, <3>2
  <2> QED
    BY <2>1, <2>2
<1> QED
  BY <1>5, <1>6, <1>7 DEF Kept

LEMMA SaverKeepsMarks ==
  ASSUME Typed, Exclusive, Kept, NEW s \in Savers, Save(s) \/ SaverCrashes(s)
  PROVE  Kept'
<1>t. content \in Contents /\ saver \in [Savers -> {"idle", "waiting", "removing", "inside", "leaving"}]
  BY DEF Typed, TypeOK
<1>1. at' = at /\ row' = row
  BY DEF Save, SaverAcquires, JudgeLock, RemoveStaleLock, SaverGivesUp, AppendEntry,
         SaverReleases, SaverCrashes, files
<1>2. Marked'
  BY <1>1 DEF Kept, Marked
<1>3. ASSUME AppendEntry(s) PROVE Kept'
  <2>1. \A a \in Attempts : at[a].pc # "rename"
    <3>1. lock = s
      BY <1>3 DEF AppendEntry, Exclusive
    <3> QED
      BY <3>1, MemoryAssumption DEF Exclusive, Holding
  <2>2. Validated'
    BY <2>1, <1>1 DEF Validated
  <2>3. content'[Monthly] = content[Monthly] \cup {s} /\ saved' = saved
    BY <1>3, <1>t DEF AppendEntry, Contents, Paths, history
  <2>4. \A t \in Savers : saver'[t] = "leaving" => t = s \/ saver[t] = "leaving"
    BY <1>3, <1>t DEF AppendEntry
  <2>5. Appended' /\ SavedStay'
    BY <2>3, <2>4 DEF Kept, Appended, SavedStay
  <2> QED
    BY <1>2, <2>2, <2>5 DEF Kept
<1>4. ASSUME ~AppendEntry(s) PROVE Kept'
  <2>1. content' = content
    BY <1>4 DEF Save, SaverAcquires, JudgeLock, RemoveStaleLock, SaverGivesUp, SaverReleases,
           SaverCrashes, files
  <2>2. \A t \in Savers : saver'[t] = "leaving" => saver[t] = "leaving"
    BY <1>4, <1>t DEF Save, SaverAcquires, JudgeLock, RemoveStaleLock, SaverGivesUp, SaverReleases,
           SaverCrashes
  <2>3. \/ saved' = saved
        \/ saver[s] = "leaving" /\ saved' = saved \cup {s}
    BY <1>4 DEF Save, SaverAcquires, JudgeLock, RemoveStaleLock, SaverGivesUp, SaverReleases,
           SaverCrashes, history
  <2>4. Validated'
    BY <2>1, <1>1 DEF Kept, Validated
  <2>5. Appended' /\ SavedStay'
    BY <2>1, <2>2, <2>3 DEF Kept, Appended, SavedStay
  <2> QED
    BY <1>2, <2>4, <2>5 DEF Kept
<1> QED
  BY <1>3, <1>4

LEMMA NextKept == Typed /\ Replacement /\ Exclusive /\ Kept /\ [Next]_vars => Kept'
<1> SUFFICES ASSUME Typed, Replacement, Exclusive, Kept, [Next]_vars PROVE Kept'
  OBVIOUS
<1>1. ASSUME NEW a \in Attempts, NEW c \in ChangeSets, Start(a, c) PROVE Kept'
  <2>1. /\ row' = row /\ content' = content /\ saver' = saver /\ saved' = saved
        /\ at'[a].pc # "rename" /\ \A b \in Attempts : b # a => at'[b] = at[b]
    BY <1>1, StartFacts DEF Start, history
  <2>2. \A b \in Attempts : at'[b].pc = "rename" => at'[b] = at[b]
    BY <2>1
  <2>3. Validated'
    BY <2>1, <2>2 DEF Kept, Validated
  <2> QED
    BY <2>1, <2>3 DEF Kept, Marked, Appended, SavedStay
<1>2. ASSUME NEW e \in Editors, NEW p \in Paths, Edit(e, p) PROVE Kept'
  <2>1. row' = row /\ at' = at /\ saver' = saver /\ saved' = saved
    BY <1>2 DEF Edit, history
  <2>2. \A q \in Paths : content'[q] \cap Savers = content[q] \cap Savers
    BY <1>2, MemoryAssumption DEF Edit, Typed, TypeOK, Contents
  <2>3. Validated'
    <3> SUFFICES ASSUME NEW a \in Attempts, at[a].pc = "rename"
                 PROVE  content'[row[at[a].change].path] \cap Savers
                          = row[at[a].change].before \cap Savers
      BY <2>1 DEF Validated
    <3>1. row[at[a].change].path \in Paths
      BY DEF Typed, TypeOK, Placed
    <3> QED
      BY <2>2, <3>1 DEF Kept, Validated
  <2>4. Appended' /\ SavedStay'
    <3>1. content'[Monthly] \cap Savers = content[Monthly] \cap Savers
      BY <2>2 DEF Paths
    <3>2. saved \subseteq Savers
      BY DEF Typed, TypeOK
    <3> QED
      BY <2>1, <3>1, <3>2 DEF Kept, Appended, SavedStay
  <2> QED
    BY <2>1, <2>3, <2>4 DEF Kept, Marked
<1>3. CASE UNCHANGED vars
  BY <1>3 DEF vars, Kept, Marked, Validated, Appended, SavedStay
<1>4. CASE Next
  BY <1>4, <1>1, <1>2, ChangeKeepsMarks, AttemptKeepsMarks, SaverKeepsMarks DEF Next
<1> QED
  BY <1>3, <1>4

(* An entry whose save was answered stays in the monthly file, with any    *)
(* number of savers, until a living holder is robbed of the lock file      *)
(* (appendCanonicalSpaceMemory next to executeCanonicalMemoryMutation).    *)
THEOREM SavesAlwaysKept == Spec => []SavesKept
<1> DEFINE All == Unrobbed => Exclusive /\ Kept
<1>1. Init => All
  BY InitExclusive, InitKept
<1>2. Typed /\ Replacement /\ All /\ [Next]_vars => All'
  <2> SUFFICES ASSUME Typed, Replacement, All, [Next]_vars, Unrobbed' PROVE Exclusive' /\ Kept'
    OBVIOUS
  <2>1. Exclusive /\ Kept
    BY RobbedStays DEF Unrobbed
  <2> QED
    BY <2>1, NextExclusive, NextKept
<1>3. All => SavesKept
  BY DEF Kept, SavedStay, SavesKept
<1> HIDE DEF All
<1> QED
  BY <1>1, <1>2, <1>3, InitTyped, NextTyped, InitReplacement, NextReplacement, PTL DEF Spec
=============================================================================
