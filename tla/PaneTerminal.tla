----------------------------- MODULE PaneTerminal -----------------------------
(***************************************************************************)
(* The terminal of one CLI session.  The pane host owns the process: it    *)
(* numbers its output, keeps the last of it in a ring buffer, sends it to  *)
(* the attachments and ends a process nobody has been attached to for the  *)
(* lease.  The API attaches a transport while a browser shows the pane,    *)
(* gathers the output in batches and stores them in the transcript, whose  *)
(* last sequence is the cursor from which the next transport is replayed.  *)
(*                                                                         *)
(* A host process that is spawned again is a new generation and numbers    *)
(* its output from 0.  The host handles a request, the spawn included, at  *)
(* one go.  What a transport receives is its feed: the replay of the       *)
(* answer, then the events in order.                                       *)
(***************************************************************************)
EXTENDS Integers, Sequences, FiniteSets

CONSTANTS Transports,      \* bound: the transports of the session
          BufferSize,      \* outputs the ring buffer of the host keeps
          MaxGenerations,  \* bound: spawned processes
          MaxOutput,       \* bound: outputs of the first process, each later one has one less
          MaxFaults        \* bound: crashes, host restarts, failed writes, missed exits

ASSUME TerminalAssumption ==
  /\ IsFiniteSet(Transports) /\ BufferSize \in Nat \ {0}
  /\ MaxGenerations \in Nat /\ MaxOutput \in Nat /\ MaxFaults \in Nat

VARIABLES host,      \* the session of the registry and its process
          attached,  \* the transports with an attachment at the host
          trs,       \* the transports of the API
          feed,      \* what the host has sent to each and it has not handled
          stored,    \* the stored batches of output, oldest first
          row,       \* the status of the session in PostgreSQL
          skipped,   \* history: <<generation, sequence>> a truncated replay left out
          troubles,  \* history: "overlapped", "late"
          faults

vars == <<host, attached, trs, feed, stored, row, skipped, troubles, faults>>

Sequence == 0 .. MaxOutput - 1
Batch == [lo : Sequence, hi : Sequence]
Exit == MaxOutput   \* the status event, in a feed
Attaching == {"inspect", "cursor", "attach", "tail"}
Listening == {"open", "leaving", "stuck", "detached"}

Idle == [pc |-> "idle", gen |-> 0, next |-> 0, after |-> -1, wait |-> -1,
         batch |-> <<>>, queue |-> <<>>, stalled |-> FALSE]

\* No session in the registry; gen counts the processes there have been.
NoSession(gen) ==
  [status |-> "NONE", gen |-> gen, alive |-> FALSE, exiting |-> FALSE,
   low |-> 0, next |-> 0, lease |-> "none"]

Init ==
  /\ host = NoSession(0)
  /\ attached = {}
  /\ trs = [t \in Transports |-> Idle]
  /\ feed = [t \in Transports |-> <<>>]
  /\ stored = <<>>
  /\ row = "RUNNING"
  /\ skipped = {} /\ troubles = {} /\ faults = 0

Fault == faults < MaxFaults /\ faults' = faults + 1

calm == <<skipped, troubles, faults>>

-----------------------------------------------------------------------------
(* The process and its session at the host *)

\* Mutant: the ring buffer never drops an output.
ProduceKept ==
  /\ host.status = "RUNNING" /\ host.alive /\ host.gen + host.next <= MaxOutput
  /\ host' = [host EXCEPT !.next = @ + 1]
  /\ feed' = [t \in Transports |-> IF t \in attached THEN Append(feed[t], host.next) ELSE feed[t]]
  /\ UNCHANGED <<attached, trs, stored, row, calm>>

\* recordOutputChunk(): the ring buffer drops its oldest output, never its last.
Produce ==
  /\ host.status = "RUNNING" /\ host.alive /\ host.gen + host.next <= MaxOutput
  /\ host' = [host EXCEPT !.next = @ + 1,
                          !.low = IF host.next + 1 - @ > BufferSize THEN @ + 1 ELSE @]
  /\ feed' = [t \in Transports |-> IF t \in attached THEN Append(feed[t], host.next) ELSE feed[t]]
  /\ UNCHANGED <<attached, trs, stored, row, calm>>

ProcessEnds ==
  /\ host.alive
  /\ host' = [host EXCEPT !.alive = FALSE, !.exiting = TRUE]
  /\ UNCHANGED <<attached, trs, feed, stored, row, calm>>

\* onExit()
ExitNoticed ==
  /\ host.exiting
  /\ host' = [host EXCEPT !.status = "ENDED", !.exiting = FALSE]
  /\ feed' = [t \in Transports |-> IF t \in attached THEN Append(feed[t], Exit) ELSE feed[t]]
  /\ UNCHANGED <<attached, trs, stored, row, calm>>

ExitMissed ==
  /\ host.exiting /\ host.status = "RUNNING"
  /\ host' = [host EXCEPT !.exiting = FALSE]
  /\ Fault
  /\ UNCHANGED <<attached, trs, feed, stored, row, skipped, troubles>>

LeaseLapses ==
  /\ host.lease = "running"
  /\ host' = [host EXCEPT !.lease = "over"]
  /\ UNCHANGED <<attached, trs, feed, stored, row, calm>>

\* reapInactiveSessions(): the process is killed, its exit is noticed later.
Reapable == host.status = "RUNNING" /\ host.alive /\ attached = {} /\ host.lease = "over"

Reap ==
  /\ Reapable
  /\ host' = [host EXCEPT !.alive = FALSE, !.exiting = TRUE]
  /\ UNCHANGED <<attached, trs, feed, stored, row, calm>>

\* Mutant: a session is given up without asking whether its process lives.
MarkGoneUnasked ==
  /\ host.status = "RUNNING"
  /\ host' = [host EXCEPT !.status = "ENDED"]
  /\ UNCHANGED <<attached, trs, feed, stored, row, calm>>

\* markProcessGone(), which tells no attachment.
MarkGone ==
  /\ host.status = "RUNNING" /\ ~host.alive
  /\ host' = [host EXCEPT !.status = "ENDED"]
  /\ UNCHANGED <<attached, trs, feed, stored, row, calm>>

\* sweepStaleSessions(), once the retention of an ended session is over: minutes,
\* which neither an attach nor the handling of the exit takes.
Prune ==
  /\ host.status = "ENDED" /\ ~host.exiting
  /\ \A t \in Transports : trs[t].pc \notin Attaching \cup {"ready", "ended"} /\ feed[t] = <<>>
  /\ host' = NoSession(host.gen)
  /\ attached' = {}
  /\ UNCHANGED <<trs, feed, stored, row, calm>>

\* Mutant: the time of the last detachment is not kept.
DetachedUntimed(gone) == attached' = attached \ gone /\ host' = host

\* detach() of some attachments: the lease begins with the last one's.
Detached(gone) ==
  /\ attached' = attached \ gone
  /\ host' = IF gone \cap attached # {} /\ attached' = {} /\ host.status = "RUNNING"
             THEN [host EXCEPT !.lease = "running"] ELSE host

-----------------------------------------------------------------------------
(* Attaching a transport *)

\* getOrSpawnSession(): a later viewer shares the attach or the transport.
Open(t) ==
  /\ row = "RUNNING" /\ trs[t] = Idle
  /\ \A u \in Transports : trs[u].pc \notin Attaching \cup {"ready", "open"}
  /\ trs' = [trs EXCEPT ![t].pc = "inspect"]
  /\ UNCHANGED <<host, attached, feed, stored, row, calm>>

InspectNone(t) ==
  /\ trs[t].pc = "inspect" /\ host.status = "NONE"
  /\ trs' = [trs EXCEPT ![t].pc = "attach"]
  /\ UNCHANGED <<host, attached, feed, stored, row, calm>>

InspectRunning(t) ==
  /\ trs[t].pc = "inspect" /\ host.status = "RUNNING"
  /\ trs' = [trs EXCEPT ![t].pc = "cursor", ![t].gen = host.gen, ![t].next = host.next]
  /\ UNCHANGED <<host, attached, feed, stored, row, calm>>

\* persistClosedNormalHostSession()
InspectEnded(t) ==
  /\ trs[t].pc = "inspect" /\ host.status = "ENDED"
  /\ row' = "ENDED"
  /\ trs' = [trs EXCEPT ![t] = Idle]
  /\ UNCHANGED <<host, attached, feed, stored, calm>>

\* getPaneCliHostOutputCursor()
Cursor(g) ==
  CHOOSE s \in -1 .. MaxOutput :
    /\ \A i \in DOMAIN stored : stored[i].gen = g => stored[i].hi <= s
    /\ s = -1 \/ \E i \in DOMAIN stored : stored[i].gen = g /\ stored[i].hi = s

\* Transports beside t which still receive or hold output.
Others(t) ==
  {u \in Transports \ {t} : u \in attached \/ feed[u] # <<>> \/ trs[u].batch \o trs[u].queue # <<>>}

ReadCursor(t) ==
  /\ trs[t].pc = "cursor"
  /\ trs' = [trs EXCEPT ![t].pc = "attach", ![t].after = Cursor(trs[t].gen)]
  /\ troubles' = IF Others(t) = {} THEN troubles ELSE troubles \cup {"overlapped"}
  /\ UNCHANGED <<host, attached, feed, stored, row, skipped, faults>>

\* getOrCreate() and spawnSession(), for an attach that found no session.
Spawned(t) ==
  /\ trs[t].pc = "attach" /\ trs[t].gen = 0
  /\ host.status = "NONE" /\ host.gen < MaxGenerations
  /\ host' = [NoSession(host.gen + 1) EXCEPT !.status = "RUNNING", !.alive = TRUE]
  /\ attached' = {t}
  /\ trs' = [trs EXCEPT ![t] = [Idle EXCEPT !.pc = "ready", !.gen = host.gen + 1]]
  /\ UNCHANGED <<feed, stored, row, calm>>

ReplayGap(t) == host.low < host.next /\ trs[t].after < host.low - 1

Replay(t) == [i \in 1 .. host.next - trs[t].after - 1 |-> trs[t].after + i]

\* attach() to the running session: the replay, then every event.  A transport
\* that attached to the tail records the truncation.
Attached(t) ==
  /\ trs[t].pc \in {"attach", "tail"}
  /\ host.status = "RUNNING" /\ ~ReplayGap(t)
  /\ attached' = attached \cup {t}
  /\ host' = [host EXCEPT !.lease = "none"]
  /\ feed' = [feed EXCEPT ![t] = Replay(t)]
  /\ skipped' = IF trs[t].pc = "tail"
                THEN skipped \cup {<<host.gen, s>> : s \in Cursor(host.gen) + 1 .. trs[t].after}
                ELSE skipped
  /\ trs' = [trs EXCEPT ![t] = [Idle EXCEPT !.pc = "ready", !.gen = host.gen]]
  /\ UNCHANGED <<stored, row, troubles, faults>>

\* CLI_HOST_REPLAY_GAP of a session that was inspected.
AttachToTail(t) ==
  /\ trs[t].pc = "attach" /\ trs[t].gen # 0
  /\ host.status = "RUNNING" /\ ReplayGap(t)
  /\ trs' = [trs EXCEPT ![t].pc = "tail", ![t].after = trs[t].next - 1]
  /\ UNCHANGED <<host, attached, feed, stored, row, calm>>

\* CLI_HOST_SESSION_CLOSED, CLI_HOST_SESSION_NOT_FOUND, a second gap, no process.
AttachRefused(t) ==
  /\ trs[t].pc \in {"attach", "tail"}
  /\ \/ host.status # "RUNNING"
     \/ ReplayGap(t) /\ trs[t].pc = "tail"
  /\ trs' = [trs EXCEPT ![t] = Idle]
  /\ UNCHANGED <<host, attached, feed, stored, row, calm>>

\* createOrRestoreSession() records the running session, the browser gets the
\* stored transcript, then the feed is handled.
Ready(t) ==
  /\ trs[t].pc = "ready"
  /\ row' = "RUNNING"
  /\ trs' = [trs EXCEPT ![t].pc = "open"]
  /\ UNCHANGED <<host, attached, feed, stored, calm>>

-----------------------------------------------------------------------------
(* The output in the API and its way to the transcript *)

\* bufferHostOutput(): an output joins the batch that waits.
Gathered(t, s) ==
  IF trs[t].batch = <<>> THEN <<[lo |-> s, hi |-> s]>>
  ELSE <<[trs[t].batch[1] EXCEPT !.hi = s]>>

\* handleHostEvent() of an output, by a transport that is not closed.
Output(t) ==
  /\ trs[t].pc \in Listening /\ feed[t] # <<>> /\ Head(feed[t]) # Exit
  /\ trs' = [trs EXCEPT ![t].batch = Gathered(t, Head(feed[t]))]
  /\ feed' = [feed EXCEPT ![t] = Tail(@)]
  /\ UNCHANGED <<host, attached, stored, row, calm>>

\* flushHostOutput(): the batch that waits joins the queue of those to store.
Flushed(tr) == [tr EXCEPT !.queue = @ \o tr.batch, !.batch = <<>>, !.stalled = FALSE]

Flush(t) ==
  /\ trs[t].batch # <<>>
  /\ trs' = [trs EXCEPT ![t] = Flushed(@)]
  /\ UNCHANGED <<host, attached, feed, stored, row, calm>>

\* handleHostEvent() of the exit: the session's row is closed after the output.
ExitHandled(t) ==
  /\ trs[t].pc \in Listening /\ feed[t] # <<>> /\ Head(feed[t]) = Exit
  /\ trs' = [trs EXCEPT ![t] = [Flushed(@) EXCEPT !.pc = "ended"]]
  /\ feed' = [feed EXCEPT ![t] = <<>>]
  /\ UNCHANGED <<host, attached, stored, row, calm>>

\* Mutant: a batch is stored whatever was.
KnownNot(b, g) == FALSE

\* appendPaneCliHostOutputChunk(): a batch whose last sequence is stored is there.
Known(b, g) == \E i \in DOMAIN stored : stored[i].gen = g /\ stored[i].hi = b.hi

Written(t) ==
  LET b == Head(trs[t].queue)
  IN IF Known(b, trs[t].gen) THEN stored
     ELSE Append(stored, [gen |-> trs[t].gen, lo |-> b.lo, hi |-> b.hi])

\* persistHostOutputThrough()
Store(t) ==
  /\ trs[t].queue # <<>> /\ ~trs[t].stalled
  /\ stored' = Written(t)
  /\ trs' = [trs EXCEPT ![t].queue = Tail(@)]
  /\ UNCHANGED <<host, attached, feed, row, calm>>

\* Mutant: a batch leaves the queue before its write has succeeded.
AfterFailureShifted(tr) ==
  [tr EXCEPT !.stalled = TRUE, !.queue = Tail(@), !.pc = IF @ = "leaving" THEN "stuck" ELSE @]

\* A write that fails, perhaps after its commit, keeps its batch for the next
\* flush.  The flush a detaching transport waits for ends the detaching.
AfterFailure(tr) ==
  [tr EXCEPT !.stalled = TRUE, !.pc = IF @ = "leaving" THEN "stuck" ELSE @]

StoreFails(t) ==
  /\ trs[t].queue # <<>> /\ ~trs[t].stalled
  /\ stored' \in {stored, Written(t)}
  /\ trs' = [trs EXCEPT ![t] = AfterFailure(@)]
  /\ Fault
  /\ UNCHANGED <<host, attached, feed, row, skipped, troubles>>

\* Another flush (input, a screen read, the last one of a detached or ended
\* transport) takes up what a failed one left.
Retry(t) ==
  /\ trs[t].stalled /\ trs[t].pc # "lost"
  /\ trs' = [trs EXCEPT ![t] = Flushed(@)]
  /\ UNCHANGED <<host, attached, feed, stored, row, calm>>

\* detachTransport(), once no browser shows the pane: flush, then detach.
Leave(t) ==
  /\ trs[t].pc = "open"
  /\ LET now == Flushed(trs[t])
     IN trs' = [trs EXCEPT ![t] =
          [now EXCEPT !.pc = "leaving",
                      !.wait = IF now.queue = <<>> THEN -1 ELSE now.queue[Len(now.queue)].hi]]
  /\ UNCHANGED <<host, attached, feed, stored, row, calm>>

FlushAwaited(t) == trs[t].queue # <<>> => Head(trs[t].queue).lo > trs[t].wait

Detach(t) ==
  /\ trs[t].pc = "leaving" /\ FlushAwaited(t)
  /\ Detached({t})
  /\ trs' = [trs EXCEPT ![t].pc = "detached", ![t].wait = -1]
  /\ UNCHANGED <<feed, stored, row, calm>>

\* Nothing of a detached or closed transport is under way any more: all is
\* stored, or its last write failed.
Finish(t) ==
  /\ trs[t].pc \in {"detached", "lost", "ended"}
  /\ feed[t] = <<>> /\ trs[t].batch = <<>>
  /\ trs[t].queue = <<>> \/ trs[t].stalled
  /\ trs' = [trs EXCEPT ![t] = Idle]
  /\ row' = IF trs[t].pc = "ended" /\ ~trs[t].stalled THEN "ENDED" ELSE row
  /\ troubles' = IF trs[t].pc = "ended" /\ trs[t].gen # host.gen
                 THEN troubles \cup {"late"} ELSE troubles
  /\ UNCHANGED <<host, attached, feed, stored, skipped, faults>>

-----------------------------------------------------------------------------
(* Crashes *)

\* The API ends; the host's cleanup() detaches what the connection had.
ApiCrash ==
  /\ \E t \in Transports : trs[t] # Idle
  /\ Fault
  /\ Detached(Transports)
  /\ trs' = [t \in Transports |-> Idle]
  /\ feed' = [t \in Transports |-> <<>>]
  /\ UNCHANGED <<stored, row, skipped, troubles>>

\* shutdown() of the host, and handleHostTransportClosed() in the API.
Disconnected(tr) ==
  CASE tr.pc \in Attaching -> Idle
    [] tr.pc \in {"ready", "open"} -> [tr EXCEPT !.pc = "lost"]
    [] tr.pc \in {"leaving", "stuck"} -> [tr EXCEPT !.pc = "detached"]
    [] OTHER -> tr

HostRestart ==
  /\ host.status # "NONE"
  /\ Fault
  /\ host' = NoSession(host.gen)
  /\ attached' = {}
  /\ trs' = [t \in Transports |-> Disconnected(trs[t])]
  /\ feed' = [t \in Transports |-> <<>>]
  /\ UNCHANGED <<stored, row, skipped, troubles>>

-----------------------------------------------------------------------------
\* What the host does by itself: timers and the events of the process.
HostWork == ExitNoticed \/ LeaseLapses \/ Reap \/ MarkGone

AttachStep(t) ==
  \/ InspectNone(t) \/ InspectRunning(t) \/ InspectEnded(t) \/ ReadCursor(t)
  \/ Spawned(t) \/ Attached(t) \/ AttachToTail(t) \/ AttachRefused(t) \/ Ready(t)

OutputStep(t) == Output(t) \/ ExitHandled(t) \/ Flush(t) \/ Store(t) \/ Detach(t) \/ Finish(t)

Next ==
  \/ Produce \/ ProcessEnds \/ HostWork \/ ExitMissed \/ Prune
  \/ \E t \in Transports :
       Open(t) \/ AttachStep(t) \/ OutputStep(t) \/ StoreFails(t) \/ Retry(t) \/ Leave(t)
  \/ ApiCrash \/ HostRestart

Spec == Init /\ [][Next]_vars

\* Promises and timers of the API run on, so do the sweep of the host and time.
\* Nobody has to watch, to leave or to retry, and no process has to end.
Work == HostWork \/ \E t \in Transports : OutputStep(t)

FairSpec == Spec /\ WF_vars(Work)

-----------------------------------------------------------------------------
\* Every variable keeps its shape, and the ring buffer of the host its size
\* (SessionRecord, recordOutputChunk, the transports of CliTerminalManager).
TypeOK ==
  /\ host \in [status : {"NONE", "RUNNING", "ENDED"}, gen : 0 .. MaxGenerations,
               alive : BOOLEAN, exiting : BOOLEAN, low : 0 .. MaxOutput, next : 0 .. MaxOutput,
               lease : {"none", "running", "over"}]
  /\ host.low <= host.next /\ host.next - host.low <= BufferSize
  /\ attached \subseteq Transports
  /\ \A t \in Transports :
       /\ trs[t].pc \in Attaching \cup Listening \cup {"idle", "ready", "lost", "ended"}
       /\ trs[t].gen \in 0 .. host.gen
       /\ trs[t].batch \in Seq(Batch) /\ Len(trs[t].batch) <= 1
       /\ trs[t].queue \in Seq(Batch)
       /\ feed[t] \in Seq(Sequence \cup {Exit})
  /\ stored \in Seq([gen : 1 .. MaxGenerations, lo : Sequence, hi : Sequence])
  /\ row \in {"RUNNING", "ENDED"}

StoredOutput(g) == UNION {stored[i].lo .. stored[i].hi : i \in {j \in DOMAIN stored : stored[j].gen = g}}

\* Below the cursor the transcript has every output of the process, or a
\* truncated replay was recorded: whatever transports overlap, fail or crash,
\* the cursor never passes an output that is not stored, which no later replay
\* would bring back (getPaneCliHostOutputCursor, persistHostOutputThrough, attach).
NothingLost ==
  \A g \in 1 .. host.gen : \A s \in 0 .. Cursor(g) :
    s \in StoredOutput(g) \/ <<g, s>> \in skipped

\* No output is stored twice and each process's output is stored in order, as
\* long as no transport reads the cursor while another still has output
\* (appendPaneCliHostOutputChunk, replay after the cursor).
StoredOnce ==
  "overlapped" \notin troubles =>
    \A i, j \in DOMAIN stored :
      i < j /\ stored[i].gen = stored[j].gen => stored[i].hi < stored[j].lo

\* A session recorded as ended, which no browser can attach to again, has no
\* living process but one whose transport is about to be recorded, or one that
\* nobody is attached to and the lease ends, unless an old exit is recorded
\* after a new process came (handleHostEvent, persistClosedNormalHostSession,
\* sweepStaleSessions, createOrRestoreSession).
EndedIsOver ==
  "late" \notin troubles =>
    (row = "ENDED" /\ host.alive => attached = {} \/ \E t \in Transports : trs[t].pc = "ready")

Shown == \E t \in Transports : trs[t].pc \in Attaching \cup {"ready", "open"}

\* Under fairness a process no browser shows is ended, unless a browser comes
\* or a failed write stopped the detaching of a transport, which then keeps the
\* process (detachTransport, cleanup of a connection, reapInactiveSessions).
Reaped ==
  (host.alive /\ ~Shown) ~>
    (~host.alive \/ Shown \/ \E t \in Transports : trs[t].pc = "stuck")
=============================================================================
