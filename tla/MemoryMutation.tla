--------------------------- MODULE MemoryMutation ---------------------------
(***************************************************************************)
(* Approved changes of the canonical memory files: the change-set row, the *)
(* Temporal activity that executes or reconciles it, the executor with its *)
(* lock file and its recovery journal, and the savers of memory entries,   *)
(* which append to the monthly file under the same lock file.              *)
(*                                                                         *)
(* Contents are sets of marks: what a change set, a save or a foreign edit *)
(* brings in.  A source hash is the contents it is computed from.          *)
(***************************************************************************)
EXTENDS Naturals, FiniteSets

CONSTANTS ChangeSets,  \* one workflow each; reconciliations are further attempts
          Attempts,    \* attempts of the activity, on any worker process
          Savers,      \* entries saved through the canonical bridge
          Editors,     \* edits of a file by a tool that knows no lock
          Index, Monthly,
          Free, Orphan,   \* no lock file; the lock file of a process that ended
          NoSources, NoTarget, NoChange,
          MayStall,    \* whether a live process may keep the lock beyond every timeout
          MaxFaults    \* bound: crashes and failed file or database operations

Paths == {Index, Monthly}
Marks == ChangeSets \cup Savers \cup Editors
Contents == [Paths -> SUBSET Marks]

ASSUME MemoryAssumption ==
  /\ Index # Monthly
  /\ Free # Orphan
  /\ Attempts \cap Savers = {}
  /\ {Free, Orphan} \cap (Attempts \cup Savers) = {}
  /\ Savers \cap (ChangeSets \cup Editors) = {}
  /\ ChangeSets \cap Editors = {}
  /\ NoSources \notin Contents
  /\ {NoTarget, NoChange} \cap ChangeSets = {}
  /\ MayStall \in BOOLEAN
  /\ MaxFaults \in Nat

VARIABLES content,   \* the canonical files
          row,       \* memory_graph_change_sets
          journal,   \* the journal file of each change set
          lock,      \* who created the lock file
          at,        \* where each attempt stands, with the change set it works on
          saver,     \* where each saver stands
          saved,     \* history: savers that were told their entry is saved
          replaced,  \* history: change sets whose rename took place
          asked,     \* history: change sets reported as OPERATOR_REQUIRED
          robbed,    \* history: holders whose lock file a saver removed as stale
          faults

vars == <<content, row, journal, lock, at, saver, saved, replaced, asked, robbed, faults>>

Status == {"NONE", "PROPOSED", "APPROVED", "REJECTED", "APPLYING", "APPLIED",
           "FAILED", "ROLLED_BACK"}

NoRow == [status |-> "NONE", path |-> Monthly, before |-> {}, after |-> {},
          expected |-> NoSources, result |-> NoSources, of |-> NoTarget]

\* Mutant: a missing journal has no result field.
NoJournalBare == [phase |-> "NONE"]

NoJournal == [phase |-> "NONE", result |-> NoSources]
Prepared == [phase |-> "PREPARED", result |-> NoSources]
Written(sources) == [phase |-> "WRITTEN", result |-> sources]

Idle == [pc |-> "idle", change |-> NoChange, next |-> "idle", result |-> NoSources]

Init ==
  /\ content = [p \in Paths |-> {}]
  /\ row = [c \in ChangeSets |-> NoRow]
  /\ journal = [c \in ChangeSets |-> NoJournal]
  /\ lock = Free
  /\ at = [a \in Attempts |-> Idle]
  /\ saver = [s \in Savers |-> "idle"]
  /\ saved = {} /\ replaced = {} /\ asked = {} /\ robbed = {}
  /\ faults = 0

Go(a, pc) == at' = [at EXCEPT ![a].pc = pc]
End(a) == at' = [at EXCEPT ![a] = Idle]
Fault == faults < MaxFaults /\ faults' = faults + 1

files == <<content, journal>>
history == <<saved, replaced, asked, robbed>>

-----------------------------------------------------------------------------
(* The change-set row *)

MayBecome(from) ==
  CASE from = "PROPOSED" -> {"APPROVED", "REJECTED"}
    [] from = "APPROVED" -> {"APPLYING", "REJECTED"}
    [] from = "APPLYING" -> {"APPLIED", "FAILED"}
    [] OTHER -> {}

\* A change of a file as it is now; it brings in its own mark.
Propose(c, p) ==
  /\ row[c].status = "NONE"
  /\ row' = [row EXCEPT ![c] =
       [status |-> "PROPOSED", path |-> p, before |-> content[p],
        after |-> content[p] \cup {c}, expected |-> content,
        result |-> NoSources, of |-> NoTarget]]
  /\ UNCHANGED <<files, lock, at, saver, history, faults>>

\* A rollback reverses the snapshots and the hashes of an applied change.
ProposeRollback(c, t) ==
  /\ row[c].status = "NONE"
  /\ row[t].status = "APPLIED"
  /\ row' = [row EXCEPT ![c] =
       [status |-> "PROPOSED", path |-> row[t].path, before |-> row[t].after,
        after |-> row[t].before, expected |-> row[t].result,
        result |-> NoSources, of |-> t]]
  /\ UNCHANGED <<files, lock, at, saver, history, faults>>

Review(c, verdict) ==
  /\ verdict \in {"APPROVED", "REJECTED"}
  /\ verdict \in MayBecome(row[c].status)
  /\ row' = [row EXCEPT ![c].status = verdict]
  /\ UNCHANGED <<files, lock, at, saver, history, faults>>

\* updateMemoryChangeSet() to APPLIED: a rollback also needs its target.
Appliable(c, sources) ==
  /\ "APPLIED" \in MayBecome(row[c].status)
  /\ row[c].of # NoTarget =>
       /\ row[row[c].of].status = "APPLIED"
       /\ sources = row[row[c].of].expected

Applied(c, sources) ==
  [d \in ChangeSets |->
     IF d = c THEN [row[c] EXCEPT !.status = "APPLIED", !.result = sources]
     ELSE IF d = row[c].of THEN [row[d] EXCEPT !.status = "ROLLED_BACK"]
     ELSE row[d]]

-----------------------------------------------------------------------------
(* The activity: claim the change set, execute it, settle the outcome *)

\* A first attempt, a retry or the attempt of a requested reconciliation.
Start(a, c) ==
  /\ at[a].pc = "idle"
  /\ row[c].status \in {"APPROVED", "APPLYING", "APPLIED"}
  /\ at' = [at EXCEPT ![a] = [Idle EXCEPT !.change = c, !.pc =
       IF row[c].status = "APPROVED" THEN "claim" ELSE "reconcile"]]
  /\ UNCHANGED <<content, row, journal, lock, saver, history, faults>>

Claim(a) == LET c == at[a].change IN
  /\ at[a].pc = "claim"
  /\ IF "APPLYING" \in MayBecome(row[c].status)
     THEN /\ row' = [row EXCEPT ![c].status = "APPLYING"]
          /\ Go(a, "lock")
     ELSE End(a) /\ UNCHANGED row
  /\ UNCHANGED <<files, lock, saver, history, faults>>

Opened(a) ==
  CASE at[a].pc = "lock" -> "prepare"
    [] at[a].pc = "lockRecover" -> "recover"
    [] at[a].pc = "lockFinalize" -> "finalize"

Locking(a) == at[a].pc \in {"lock", "lockRecover", "lockFinalize"}

AcquireLock(a) ==
  /\ Locking(a)
  /\ lock = Free
  /\ lock' = a
  /\ Go(a, Opened(a))
  /\ UNCHANGED <<files, row, saver, history, faults>>

\* Mutant: whoever waited long enough goes on without the lock file.
LockTimeoutIgnored(a) ==
  /\ Locking(a)
  /\ lock # Free
  /\ lock \in Savers => MayStall
  /\ Go(a, Opened(a))
  /\ UNCHANGED <<files, row, lock, saver, history, faults>>

\* The lock error of an execution is none of the executor's own: it is reconciled.
\* A saver that does not stall is gone long before the timeout.
LockTimeout(a) ==
  /\ Locking(a)
  /\ lock # Free
  /\ lock \in Savers => MayStall
  /\ IF at[a].pc = "lock" THEN Go(a, "reconcile") ELSE End(a)
  /\ UNCHANGED <<files, row, lock, saver, history, faults>>

ReleaseWith(a, next) ==
  at' = [at EXCEPT ![a].pc = "release", ![a].next = next]

\* Mutant: the change is written over whatever the file has become.
PrepareUnseen(a) == LET c == at[a].change IN
  /\ at[a].pc = "prepare"
  /\ journal' = [journal EXCEPT ![c] = Prepared]
  /\ Go(a, "rename")
  /\ UNCHANGED <<content, row, lock, saver, history, faults>>

\* The sources are the approved ones, and no journal tells of an earlier execution.
AsApproved(c) ==
  /\ content[row[c].path] = row[c].before
  /\ content = row[c].expected
  /\ journal[c] = NoJournal

\* Validation of the sources and the PREPARED journal.
Prepare(a) == LET c == at[a].change IN
  /\ at[a].pc = "prepare"
  /\ IF AsApproved(c)
     THEN /\ journal' = [journal EXCEPT ![c] = Prepared]
          /\ Go(a, "rename")
     ELSE ReleaseWith(a, "failed") /\ UNCHANGED journal
  /\ UNCHANGED <<content, row, lock, saver, history, faults>>

\* The validation fails on an error, or the journal cannot be written, or only its
\* directory not be synced.
PrepareFails(a) == LET c == at[a].change IN
  /\ at[a].pc = "prepare"
  /\ Fault
  /\ \/ UNCHANGED journal
     \/ AsApproved(c) /\ journal' = [journal EXCEPT ![c] = Prepared]
  /\ ReleaseWith(a, "failed")
  /\ UNCHANGED <<content, row, lock, saver, history>>

\* The commit point: the whole file is replaced.
Rename(a) == LET c == at[a].change IN
  /\ at[a].pc = "rename"
  /\ content' = [content EXCEPT ![row[c].path] = row[c].after]
  /\ replaced' = replaced \cup {c}
  /\ Go(a, "verify")
  /\ UNCHANGED <<row, journal, lock, saver, saved, asked, robbed, faults>>

\* A failure before the rename takes the journal back, if that does not fail as well.
RenameFails(a) == LET c == at[a].change IN
  /\ at[a].pc = "rename"
  /\ Fault
  /\ \/ journal' = [journal EXCEPT ![c] = NoJournal]
     \/ UNCHANGED journal
  /\ ReleaseWith(a, "failed")
  /\ UNCHANGED <<content, row, lock, saver, history>>

\* Directory sync, verification of what was written, WRITTEN journal.
Verify(a) == LET c == at[a].change IN
  /\ at[a].pc = "verify"
  /\ IF content[row[c].path] = row[c].after
     THEN /\ journal' = [journal EXCEPT ![c] = Written(content)]
          /\ at' = [at EXCEPT ![a].pc = "release", ![a].next = "applied",
                              ![a].result = content]
     ELSE ReleaseWith(a, "reconcile") /\ UNCHANGED journal
  /\ UNCHANGED <<content, row, lock, saver, history, faults>>

\* Mutant: a failed verification takes the journal back as well.
VerifyDrops(a) == LET c == at[a].change IN
  /\ at[a].pc = "verify"
  /\ Fault
  /\ journal' = [journal EXCEPT ![c] = NoJournal]
  /\ ReleaseWith(a, "failed")
  /\ UNCHANGED <<content, row, lock, saver, history>>

\* Mutant: a failed verification is taken for a failed execution.
VerifyFailsForGood(a) ==
  /\ at[a].pc = "verify"
  /\ Fault
  /\ ReleaseWith(a, "failed")
  /\ UNCHANGED <<files, row, lock, saver, history>>

\* Mutant: a failed verification writes the file again.
VerifyRetries(a) ==
  /\ at[a].pc = "verify"
  /\ Fault
  /\ Go(a, "rename")
  /\ UNCHANGED <<files, row, lock, saver, history>>

VerifyFails(a) == LET c == at[a].change IN
  /\ at[a].pc = "verify"
  /\ Fault
  /\ \/ UNCHANGED journal
     \/ /\ content[row[c].path] = row[c].after
        /\ journal' = [journal EXCEPT ![c] = Written(content)]
  /\ ReleaseWith(a, "reconcile")
  /\ UNCHANGED <<content, row, lock, saver, history>>

\* rm(lockPath, force): whoever created the file.
Release(a) ==
  /\ at[a].pc = "release"
  /\ lock' = Free
  /\ Go(a, at[a].next)
  /\ UNCHANGED <<files, row, saver, history, faults>>

\* The row of an execution ("applied") or of a reconciliation ("recovered").
SettleApplied(a) == LET c == at[a].change IN
  /\ at[a].pc \in {"applied", "recovered"}
  /\ IF Appliable(c, at[a].result)
     THEN row' = Applied(c, at[a].result) /\ Go(a, "lockFinalize")
     ELSE /\ UNCHANGED row
          /\ IF at[a].pc = "applied" THEN Go(a, "reconcile") ELSE End(a)
  /\ UNCHANGED <<files, lock, saver, history, faults>>

\* The database fails, or commits and its answer is lost.
SettleUnanswered(a) == LET c == at[a].change IN
  /\ at[a].pc \in {"applied", "recovered"}
  /\ Fault
  /\ \/ UNCHANGED row
     \/ Appliable(c, at[a].result) /\ row' = Applied(c, at[a].result)
  /\ IF at[a].pc = "applied" THEN Go(a, "reconcile") ELSE End(a)
  /\ UNCHANGED <<files, lock, saver, history>>

\* A settled row refuses; the activity throws.
SettleFailed(a) == LET c == at[a].change IN
  /\ at[a].pc = "failed"
  /\ IF "FAILED" \in MayBecome(row[c].status)
     THEN row' = [row EXCEPT ![c].status = "FAILED"]
     ELSE UNCHANGED row
  /\ End(a)
  /\ UNCHANGED <<files, lock, saver, history, faults>>

-----------------------------------------------------------------------------
(* Reconciliation and the journal's end *)

Reconcile(a) == LET c == at[a].change IN
  /\ at[a].pc = "reconcile"
  /\ CASE row[c].status = "APPLIED" -> Go(a, "lockFinalize")
       [] row[c].status = "APPLYING" -> Go(a, "lockRecover")
       [] OTHER -> End(a)
  /\ UNCHANGED <<files, row, lock, saver, history, faults>>

\* The sources as they were approved, but for the target file.
OthersUnchanged(c) ==
  [content EXCEPT ![row[c].path] = row[c].before] = row[c].expected

\* Mutant: a journal of unchanged sources is enough.
ShowsAfterJournal(c) == journal[c] # NoJournal /\ OthersUnchanged(c)

ShowsAfter(c) ==
  /\ journal[c] # NoJournal
  /\ OthersUnchanged(c)
  /\ content[row[c].path] = row[c].after
  /\ journal[c].phase = "WRITTEN" => journal[c].result = content

ShowsBefore(c) ==
  /\ journal[c] = Prepared
  /\ OthersUnchanged(c)
  /\ content[row[c].path] = row[c].before

\* Classification from the journal and the files, and the lock's release.
Recover(a) == LET c == at[a].change IN
  /\ at[a].pc = "recover"
  /\ lock' = Free
  /\ \/ /\ ShowsAfter(c)
        /\ at' = [at EXCEPT ![a].pc = "recovered", ![a].result = content]
        /\ UNCHANGED asked
     \/ ~ShowsAfter(c) /\ ShowsBefore(c) /\ Go(a, "failed") /\ UNCHANGED asked
     \/ /\ ~ShowsAfter(c) /\ ~ShowsBefore(c)
        /\ asked' = asked \cup {c}
        /\ End(a)
  /\ UNCHANGED <<files, row, saver, saved, replaced, robbed, faults>>

\* Best effort: the row is settled whatever becomes of the journal.
Finalize(a) == LET c == at[a].change IN
  /\ at[a].pc = "finalize"
  /\ lock' = Free
  /\ IF journal[c].phase = "WRITTEN" /\ journal[c].result = row[c].result
     THEN journal' = [journal EXCEPT ![c] = NoJournal]
     ELSE UNCHANGED journal
  /\ End(a)
  /\ UNCHANGED <<content, row, saver, history, faults>>

-----------------------------------------------------------------------------
(* Savers: withFileLock() around an append to the monthly file *)

SaverAcquires(s) ==
  /\ saver[s] \in {"idle", "waiting"}
  /\ lock = Free
  /\ lock' = s
  /\ saver' = [saver EXCEPT ![s] = "inside"]
  /\ UNCHANGED <<files, row, at, history, faults>>

\* Mutant: no lock file is taken for stale.
NoLock == FALSE

\* An executor's lock file starts with JSON, which yields no process number:
\* once it is old enough, its holder is not asked.
Stale == lock = Orphan \/ (MayStall /\ lock \in Attempts)

\* The one check for a stale lock file; the removal is a later step.
JudgeLock(s) ==
  /\ saver[s] = "idle"
  /\ lock # Free
  /\ saver' = [saver EXCEPT ![s] = IF Stale THEN "removing" ELSE "waiting"]
  /\ UNCHANGED <<files, row, lock, at, history, faults>>

\* Whichever lock file is there by now, a living holder's too.
RemoveStaleLock(s) ==
  /\ saver[s] = "removing"
  /\ lock' = Free
  /\ robbed' = robbed \cup ({lock} \ {Free, Orphan})
  /\ saver' = [saver EXCEPT ![s] = "waiting"]
  /\ UNCHANGED <<files, row, at, saved, replaced, asked, faults>>

SaverGivesUp(s) ==
  /\ saver[s] = "waiting"
  /\ lock # Free
  /\ saver' = [saver EXCEPT ![s] = "idle"]
  /\ UNCHANGED <<files, row, lock, at, history, faults>>

\* An entry that is in the file already is returned instead.
AppendEntry(s) ==
  /\ saver[s] = "inside"
  /\ content' = [content EXCEPT ![Monthly] = @ \cup {s}]
  /\ saver' = [saver EXCEPT ![s] = "leaving"]
  /\ UNCHANGED <<row, journal, lock, at, history, faults>>

SaverReleases(s) ==
  /\ saver[s] = "leaving"
  /\ lock' = Free
  /\ saved' = saved \cup {s}
  /\ saver' = [saver EXCEPT ![s] = "idle"]
  /\ UNCHANGED <<files, row, at, replaced, asked, robbed, faults>>

-----------------------------------------------------------------------------
(* Foreign edits and crashes *)

Edit(e, p) ==
  /\ \A q \in Paths : e \notin content[q]
  /\ \A c \in ChangeSets : e \notin row[c].before \cup row[c].after
  /\ content' = [content EXCEPT ![p] = @ \cup {e}]
  /\ UNCHANGED <<row, journal, lock, at, saver, history, faults>>

Crash(a) ==
  /\ at[a].pc # "idle"
  /\ Fault
  /\ End(a)
  /\ lock' = IF lock = a THEN Orphan ELSE lock
  /\ UNCHANGED <<files, row, saver, history>>

SaverCrashes(s) ==
  /\ saver[s] # "idle"
  /\ Fault
  /\ saver' = [saver EXCEPT ![s] = "idle"]
  /\ lock' = IF lock = s THEN Orphan ELSE lock
  /\ UNCHANGED <<files, row, at, history>>

-----------------------------------------------------------------------------
Attempt(a) ==
  \/ Claim(a) \/ AcquireLock(a) \/ LockTimeout(a)
  \/ Prepare(a) \/ Rename(a) \/ Verify(a) \/ Release(a)
  \/ SettleApplied(a) \/ SettleFailed(a)
  \/ Reconcile(a) \/ Recover(a) \/ Finalize(a)

AttemptFails(a) ==
  PrepareFails(a) \/ RenameFails(a) \/ VerifyFails(a) \/ SettleUnanswered(a) \/ Crash(a)

Save(s) ==
  \/ SaverAcquires(s) \/ JudgeLock(s) \/ RemoveStaleLock(s) \/ SaverGivesUp(s)
  \/ AppendEntry(s) \/ SaverReleases(s)

Change(c) ==
  \/ \E p \in Paths : Propose(c, p)
  \/ \E t \in ChangeSets : ProposeRollback(c, t)
  \/ \E verdict \in Status : Review(c, verdict)

Next ==
  \/ \E c \in ChangeSets : Change(c)
  \/ \E a \in Attempts, c \in ChangeSets : Start(a, c)
  \/ \E a \in Attempts : Attempt(a) \/ AttemptFails(a)
  \/ \E s \in Savers : Save(s) \/ SaverCrashes(s)
  \/ \E e \in Editors, p \in Paths : Edit(e, p)

Spec == Init /\ [][Next]_vars

\* Attempts and savers take their steps, and both come back: the retries and
\* requested reconciliations of what is still APPLYING, and further saves.  An
\* attempt that keeps trying finds the lock free once it is free time and again.
Fairness ==
  /\ \A a \in Attempts : WF_vars(Attempt(a)) /\ SF_vars(AcquireLock(a))
  /\ \A s \in Savers : WF_vars(Save(s))
  /\ \A c \in ChangeSets :
       WF_vars(row[c].status = "APPLYING" /\ \E a \in Attempts : Start(a, c))

FairSpec == Spec /\ Fairness

-----------------------------------------------------------------------------
(* Properties *)

AttemptPcs ==
  {"idle", "claim", "lock", "lockRecover", "lockFinalize", "prepare", "rename", "verify",
   "release", "applied", "recovered", "failed", "reconcile", "recover", "finalize"}

\* Every variable keeps the shape its table, file or process gives it.
TypeOK ==
  /\ content \in Contents
  /\ row \in [ChangeSets -> [status : Status, path : Paths, before : SUBSET Marks,
        after : SUBSET Marks, expected : Contents \cup {NoSources},
        result : Contents \cup {NoSources}, of : ChangeSets \cup {NoTarget}]]
  /\ journal \in [ChangeSets -> [phase : {"NONE", "PREPARED", "WRITTEN"},
                                 result : Contents \cup {NoSources}]]
  /\ lock \in {Free, Orphan} \cup Attempts \cup Savers
  /\ at \in [Attempts -> [pc : AttemptPcs, change : ChangeSets \cup {NoChange},
                          next : AttemptPcs, result : Contents \cup {NoSources}]]
  /\ saver \in [Savers -> {"idle", "waiting", "removing", "inside", "leaving"}]
  /\ saved \subseteq Savers
  /\ replaced \subseteq ChangeSets
  /\ asked \subseteq ChangeSets
  /\ robbed \subseteq Attempts \cup Savers
  /\ faults \in 0..MaxFaults

Holding(a) == at[a].pc \in {"prepare", "rename", "verify", "release", "recover", "finalize"}
Inside == {a \in Attempts : Holding(a)} \cup {s \in Savers : saver[s] \in {"inside", "leaving"}}

\* One process at a time works under the lock file: a saver waits for a live
\* executor and an executor for a live saver.
OneInside == Cardinality(Inside) <= 1

\* No saver has removed the lock file of a living holder.
Unrobbed == robbed = {}

\* It takes two to rob a living holder: a holder beyond the age of a stale lock, or an
\* orphaned lock file that two savers judge before either of them has removed it.
RobbedInRace ==
  robbed # {} => MayStall \/ (faults > 0 /\ \E s, t \in Savers : s # t)

\* And that is the one way to lose the exclusion: without it neither timeouts, crashes
\* and failures nor any number of savers do.
OneInsideUnlessRobbed == (Unrobbed => OneInside) /\ RobbedInRace

\* An entry whose save was answered stays in the monthly file, whatever change
\* is executed, fails, recovers or is rolled back afterwards, and whoever else saves,
\* as long as no living holder was robbed of the lock file.
SavesKept == Unrobbed => saved \subseteq content[Monthly]

\* A rollback, not the target of c, has written what c found over what c wrote.
PutBack(c) ==
  \E d \in replaced :
    /\ row[d].of # NoTarget /\ d # row[c].of
    /\ row[d].path = row[c].path
    /\ row[d].before = row[c].after /\ row[d].after = row[c].before

\* A change set that is recorded as FAILED never replaced its file, though the
\* activity and its recoveries only have indirect evidence: unless it is a rollback,
\* and another rollback had put back what it replaced when the recovery looked.  A
\* recovery beside a robbed executor looks before that one's rename.
FailedNeverWritten ==
  Unrobbed =>
    \A c \in replaced : row[c].status = "FAILED" => row[c].of # NoTarget /\ PutBack(c)

\* A change set that is recorded as applied was written: by its own rename, or, for
\* a rollback, by another one of the same change.  The late rename of a robbed
\* executor can bring earlier contents back, and a recovery takes them for its own.
AppliedIsWritten ==
  Unrobbed =>
    \A c \in ChangeSets : row[c].status \in {"APPLIED", "ROLLED_BACK"} =>
      \E d \in replaced : row[d].path = row[c].path /\ row[d].after = row[c].after

\* While a replacement is not recorded, its journal is there for a recovery.
EvidenceKept ==
  \A c \in replaced : row[c].status = "APPLYING" => journal[c] # NoJournal

\* However often a change set is attempted, retried and recovered, its file is
\* replaced once at most.
RenamedOnce == [][\A a \in Attempts : Rename(a) => at[a].change \notin replaced]_vars

\* A change is undone by one applied rollback, and by no more than one, though a
\* recovery may find what it wanted in the file after another rollback wrote it.
UndoneOnce ==
  \A t \in ChangeSets :
    Cardinality({c \in ChangeSets : row[c].of = t /\ row[c].status \in {"APPLIED", "ROLLED_BACK"}})
      = IF row[t].status = "ROLLED_BACK" THEN 1 ELSE 0

\* A change that was claimed is settled or brought to an operator, though attempts
\* crash and leave their lock file behind.
Answered ==
  \A c \in ChangeSets :
    row[c].status = "APPLYING" ~> row[c].status # "APPLYING" \/ c \in asked
=============================================================================
