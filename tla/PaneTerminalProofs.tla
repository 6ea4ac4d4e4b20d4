-------------------------- MODULE PaneTerminalProofs --------------------------
(***************************************************************************)
(* What PaneTerminal guarantees for any number of transports, processes    *)
(* and outputs, any ring buffer and any number of faults.                  *)
(***************************************************************************)
EXTENDS PaneTerminal, SequenceTheorems, WellFoundedInduction, TLAPS

-----------------------------------------------------------------------------
(* Numbers and sequences *)

LEMMA Least ==
  ASSUME NEW S, S \subseteq Nat, S # {} PROVE \E x \in S : \A y \in S : x <= y
<1> DEFINE R == OpToRel(<, Nat)
<1>1. \A x, y \in Nat : x < y => <<x, y>> \in R
  BY DEF OpToRel
<1>2. IsWellFoundedOn(R, Nat)
  BY NatLessThanWellFounded
<1> HIDE DEF R
<1>3. PICK x \in S : \A y \in S : ~(<<y, x>> \in R)
  BY <1>2, WFMin
<1>4. \A y \in S : x <= y
  <2> TAKE y \in S
  <2>1. x \in Nat /\ y \in Nat
    OBVIOUS
  <2>2. ~(y < x)
    BY <1>1, <1>3, <2>1
  <2> QED
    BY <2>1, <2>2
<1> QED
  BY <1>4

LEMMA Greatest ==
  ASSUME NEW S, NEW m \in Nat, S \subseteq 0 .. m, S # {}
  PROVE  \E x \in S : \A y \in S : y <= x
<1> DEFINE T == {n \in 0 .. m : m - n \in S}
<1>1. \A x \in S : m - x \in T
  <2> TAKE x \in S
  <2>1. x \in 0 .. m
    OBVIOUS
  <2>2. m - x \in 0 .. m /\ m - (m - x) = x
    BY <2>1
  <2> QED
    BY <2>2
<1>2. PICK z \in T : \A y \in T : z <= y
  <2>1. T \subseteq Nat
    OBVIOUS
  <2>2. T # {}
    BY <1>1
  <2> HIDE DEF T
  <2> QED
    BY <2>1, <2>2, Least
<1>3. m - z \in S /\ z \in 0 .. m
  OBVIOUS
<1>4. \A y \in S : y <= m - z
  <2> TAKE y \in S
  <2>1. y \in 0 .. m /\ m - y \in T
    BY <1>1
  <2>2. z <= m - y
    BY <2>1, <1>2
  <2> QED
    BY <1>3, <2>1, <2>2
<1> QED
  BY <1>3, <1>4

(* An ascending count as a sequence. *)
LEMMA CountSeq ==
  ASSUME NEW k \in Int, NEW n \in Nat, NEW S, k + 1 .. k + n \subseteq S
  PROVE  /\ [i \in 1 .. n |-> k + i] \in Seq(S)
         /\ Len([i \in 1 .. n |-> k + i]) = n
<1> DEFINE f == [i \in 1 .. n |-> k + i]
<1>1. \A i \in 1 .. n : f[i] \in S
  OBVIOUS
<1>2. f \in [1 .. n -> S]
  BY <1>1
<1>3. f \in Seq(S)
  BY <1>2, SeqDef
<1>4. DOMAIN f = 1 .. n
  OBVIOUS
<1> HIDE DEF f
<1>5. Len(f) = n
  BY <1>3, <1>4, LenProperties
<1> QED
  BY <1>3, <1>5 DEF f

-----------------------------------------------------------------------------
(* The types *)

Places == Attaching \cup Listening \cup {"idle", "ready", "lost", "ended"}

Transport ==
  [pc : Places, gen : 0 .. MaxGenerations, next : 0 .. MaxOutput, after : -1 .. MaxOutput,
   wait : -1 .. MaxOutput, batch : Seq(Batch), queue : Seq(Batch), stalled : BOOLEAN]

Hosts ==
  [status : {"NONE", "RUNNING", "ENDED"}, gen : 0 .. MaxGenerations, alive : BOOLEAN,
   exiting : BOOLEAN, low : 0 .. MaxOutput, next : 0 .. MaxOutput,
   lease : {"none", "running", "over"}]

Chunk == [gen : 1 .. MaxGenerations, lo : Sequence, hi : Sequence]

Typed ==
  /\ host \in Hosts /\ attached \subseteq Transports
  /\ trs \in [Transports -> Transport]
  /\ feed \in [Transports -> Seq(Sequence \cup {Exit})]
  /\ stored \in Seq(Chunk)
  /\ row \in {"RUNNING", "ENDED"}

(* The host's session: its ring buffer, its process, its attachments. *)
HostSound ==
  /\ host.low <= host.next /\ host.next - host.low <= BufferSize
  /\ host.low = host.next => host.next = 0
  /\ host.alive => host.status = "RUNNING" /\ ~host.exiting
  /\ host.status = "NONE" => ~host.exiting /\ attached = {}
  /\ host.status # "NONE" => host.gen >= 1

Served == {"ready", "open", "leaving", "stuck"}
Resting == {"idle"} \cup Attaching

HasExit(f) == \E i \in 1 .. Len(f) : f[i] = Exit

(* A transport and the process it belongs to: who is attached is of the     *)
(* process there is, or the exit was announced; an exit is the last of it.  *)
Placed(t) ==
  /\ trs[t].gen <= host.gen
  /\ Len(trs[t].batch) <= 1
  /\ trs[t].pc \in Resting => feed[t] = <<>> /\ trs[t].batch = <<>> /\ trs[t].queue = <<>>
  /\ trs[t].pc \in {"idle", "inspect"} => trs[t].gen = 0 /\ trs[t].after = -1
  /\ trs[t].pc \in {"cursor", "tail"} => trs[t].gen # 0
  /\ trs[t].pc \notin Resting => trs[t].gen # 0
  /\ t \in attached => \/ trs[t].gen = host.gen /\ trs[t].pc \in Served
                       \/ host.status = "ENDED" /\ ~host.exiting
  /\ (trs[t].pc = "ended" \/ HasExit(feed[t])) /\ trs[t].gen = host.gen
     => host.status # "RUNNING" /\ ~host.exiting
  /\ trs[t].pc \in {"cursor", "attach", "tail"} /\ trs[t].gen # 0 =>
       /\ trs[t].gen = host.gen /\ host.status # "NONE"
       /\ trs[t].next <= host.next /\ trs[t].after < host.next
  /\ trs[t].pc = "attach" /\ trs[t].gen = 0 => host.status = "NONE" /\ trs[t].after = -1

(* At most one transport is being attached or is open. *)
Busy(t) == trs[t].pc \in Attaching \cup {"ready", "open"}
OneBusy == \A t, u \in Transports : Busy(t) /\ Busy(u) => t = u

Control == Typed /\ HostSound /\ OneBusy /\ \A t \in Transports : Placed(t)

-----------------------------------------------------------------------------
(* The output that is stored *)

(* Below n, every output of the process g is stored, or its truncation is recorded. *)
Settled(g, n) ==
  \A s \in 0 .. n - 1 : (\E i \in 1 .. Len(stored) : stored[i].gen = g /\ s \in stored[i].lo .. stored[i].hi)
                        \/ <<g, s>> \in skipped

StoredSound ==
  \A i \in 1 .. Len(stored) :
    /\ stored[i].gen <= host.gen
    /\ Settled(stored[i].gen, stored[i].hi + 1)
    /\ stored[i].gen = host.gen /\ host.status # "NONE" => stored[i].hi < host.next

(* The cursor is the last stored sequence of the process, -1 without any. *)
LEMMA CursorIsLast ==
  ASSUME Typed, TerminalAssumption, NEW g
  PROVE  /\ Cursor(g) \in -1 .. MaxOutput
         /\ \A i \in 1 .. Len(stored) : stored[i].gen = g => stored[i].hi <= Cursor(g)
         /\ \/ Cursor(g) = -1
            \/ \E i \in 1 .. Len(stored) : stored[i].gen = g /\ stored[i].hi = Cursor(g)
<1> DEFINE P(s) == /\ \A i \in DOMAIN stored : stored[i].gen = g => stored[i].hi <= s
                   /\ s = -1 \/ \E i \in DOMAIN stored : stored[i].gen = g /\ stored[i].hi = s
           H == {s \in 0 .. MaxOutput : \E i \in DOMAIN stored : stored[i].gen = g /\ stored[i].hi = s}
<1>1. /\ DOMAIN stored = 1 .. Len(stored) /\ MaxOutput \in Nat
      /\ \A i \in DOMAIN stored : stored[i].hi \in 0 .. MaxOutput
  <2>1. stored \in Seq(Chunk) /\ MaxOutput \in Nat
    BY DEF Typed, TerminalAssumption
  <2>2. DOMAIN stored = 1 .. Len(stored)
    BY <2>1, LenProperties
  <2>3. \A i \in DOMAIN stored : stored[i] \in Chunk
    BY <2>1, <2>2, ElementOfSeq
  <2> QED
    BY <2>1, <2>2, <2>3 DEF Chunk, Sequence
<1>2. \E s \in -1 .. MaxOutput : P(s)
  <2>1. CASE H = {}
    <3>1. P(-1)
      BY <1>1, <2>1
    <3> QED
      BY <1>1, <3>1
  <2>2. CASE H # {}
    <3>1. H \subseteq 0 .. MaxOutput
      OBVIOUS
    <3> HIDE DEF H
    <3>2. PICK s \in H : \A y \in H : y <= s
      BY <1>1, <2>2, <3>1, Greatest
    <3>3. s \in -1 .. MaxOutput
      BY <3>1, <1>1
    <3>4. P(s)
      BY <1>1, <3>2 DEF H
    <3> QED
      BY <3>3, <3>4
  <2> QED
    BY <2>1, <2>2
<1>3. Cursor(g) = CHOOSE s \in -1 .. MaxOutput : P(s)
  BY DEF Cursor
<1> HIDE DEF P
<1>4. Cursor(g) \in -1 .. MaxOutput /\ P(Cursor(g))
  BY <1>2, <1>3
<1> QED
  BY <1>1, <1>4 DEF P
-----------------------------------------------------------------------------
(* Steps of one transport *)

(* All of the host's session but the lease. *)
HostKept ==
  /\ host' \in Hosts
  /\ host'.status = host.status /\ host'.gen = host.gen /\ host'.alive = host.alive
  /\ host'.exiting = host.exiting /\ host'.low = host.low /\ host'.next = host.next

LEMMA HostUnchanged == ASSUME Typed, host' = host PROVE HostKept
BY DEF Typed, HostKept

LEMMA HostLeased ==
  ASSUME Typed, NEW l \in {"none", "running", "over"}, host' = [host EXCEPT !.lease = l]
  PROVE  HostKept
BY DEF Typed, HostKept, Hosts

LEMMA IdleTyped == ASSUME TerminalAssumption PROVE Idle \in Transport
<1>1. <<>> \in Seq(Batch)
  BY EmptySeq
<1> QED
  BY <1>1 DEF Idle, Transport, Places, TerminalAssumption

(* A transport becomes r and its feed changes, those of the others do not. *)
LocalStep(t, r) ==
  /\ trs' = [trs EXCEPT ![t] = r]
  /\ feed' \in [Transports -> Seq(Sequence \cup {Exit})]
  /\ \A u \in Transports \ {t} : feed'[u] = feed[u]
  /\ HostKept

LEMMA LocalSame ==
  ASSUME Typed, NEW t \in Transports, NEW r, trs' = [trs EXCEPT ![t] = r], feed' = feed, HostKept
  PROVE  LocalStep(t, r)
BY DEF LocalStep, Typed

LEMMA LocalControl ==
  ASSUME Control, NEW t \in Transports, NEW r \in Transport, LocalStep(t, r), Placed(t)',
         attached' \subseteq attached \cup (IF host.status = "NONE" THEN {} ELSE {t}),
         r.pc \in Attaching \cup {"ready", "open"} => \A u \in Transports \ {t} : ~Busy(u),
         stored' \in Seq(Chunk), row' \in {"RUNNING", "ENDED"}
  PROVE  Control'
<1>1. trs'[t] = r /\ \A u \in Transports \ {t} : trs'[u] = trs[u]
  BY DEF Control, Typed, LocalStep
<1>2. Typed'
  BY DEF Control, Typed, LocalStep, HostKept
<1>3. HostSound'
  BY DEF Control, HostSound, LocalStep, HostKept
<1>4. ASSUME NEW u \in Transports \ {t} PROVE Placed(u)'
  BY <1>1 DEF Control, Placed, LocalStep, HostKept
<1>5. OneBusy'
  BY <1>1 DEF Control, OneBusy, Busy
<1> QED
  BY <1>2, <1>3, <1>4, <1>5 DEF Control

(* What a transport is. *)
LEMMA TransportFields ==
  ASSUME Typed, NEW t \in Transports
  PROVE  /\ trs[t] \in Transport
         /\ trs[t].pc \in Places /\ trs[t].gen \in 0 .. MaxGenerations
         /\ trs[t].next \in 0 .. MaxOutput /\ trs[t].after \in -1 .. MaxOutput
         /\ trs[t].batch \in Seq(Batch) /\ trs[t].queue \in Seq(Batch)
         /\ feed[t] \in Seq(Sequence \cup {Exit})
BY DEF Typed, Transport

LEMMA FlushedTyped ==
  ASSUME NEW r \in Transport
  PROVE  /\ Flushed(r) \in Transport
         /\ Flushed(r).pc = r.pc /\ Flushed(r).gen = r.gen
         /\ Flushed(r).batch = <<>> /\ Flushed(r).queue = r.queue \o r.batch
         /\ Flushed(r).next = r.next /\ Flushed(r).after = r.after
<1>1. r.queue \o r.batch \in Seq(Batch) /\ <<>> \in Seq(Batch)
  BY ConcatProperties, EmptySeq DEF Transport
<1> QED
  BY <1>1 DEF Flushed, Transport

LEMMA OpenControl ==
  ASSUME Control, TerminalAssumption, NEW t \in Transports, Open(t) PROVE Control'
<1> DEFINE r == [trs[t] EXCEPT !.pc = "inspect"]
<1>1. Typed
  BY DEF Control
<1>2. r \in Transport /\ r.pc = "inspect"
  BY <1>1, TransportFields DEF Transport, Places, Attaching
<1>3. LocalStep(t, r)
  BY <1>1, LocalSame, HostUnchanged DEF Open, calm
<1>4. Placed(t)'
  <2>1. trs'[t] = r
    BY <1>1 DEF Typed, Open
  <2> QED
    BY <1>1, <2>1, IdleTyped, EmptySeq DEF Control, Placed, Open, Idle, Resting, Attaching, Served, Typed
<1>5. \A u \in Transports \ {t} : ~Busy(u)
  BY DEF Open, Busy
<1> HIDE DEF r
<1> QED
  BY <1>1, <1>2, <1>3, <1>4, <1>5, LocalControl DEF Open, Typed

LEMMA InspectControl ==
  ASSUME Control, TerminalAssumption, NEW t \in Transports,
         InspectNone(t) \/ InspectRunning(t) \/ InspectEnded(t)
  PROVE  Control'
<1>1. Typed /\ Placed(t)
  BY DEF Control
<1>2. \A u \in Transports \ {t} : ~Busy(u)
  BY DEF Control, OneBusy, Busy, InspectNone, InspectRunning, InspectEnded, Attaching
<1>3. CASE InspectNone(t)
  <2> DEFINE r == [trs[t] EXCEPT !.pc = "attach"]
  <2>1. r \in Transport /\ r.pc = "attach"
    BY <1>1, TransportFields DEF Transport, Places, Attaching
  <2>2. LocalStep(t, r)
    BY <1>1, <1>3, LocalSame, HostUnchanged DEF InspectNone, calm
  <2>3. Placed(t)'
    <3>1. trs'[t] = r
      BY <1>1, <1>3 DEF Typed, InspectNone
    <3>2. trs[t].pc = "inspect" /\ host.status = "NONE" /\ trs[t].gen = 0 /\ trs[t].after = -1
      BY <1>1, <1>3 DEF Placed, InspectNone
    <3>3. feed[t] = <<>> /\ trs[t].batch = <<>> /\ trs[t].queue = <<>>
      BY <1>1, <3>2 DEF Placed, Resting, Attaching
    <3>4. /\ r.gen = 0 /\ r.after = -1 /\ r.batch = <<>> /\ r.queue = <<>>
      BY <1>1, <3>2, <3>3, TransportFields DEF Transport
    <3>5. host' = host /\ attached' = attached /\ feed' = feed
      BY <1>3 DEF InspectNone
    <3>6. t \notin attached
      BY <1>1, <3>2 DEF Placed, Served
    <3>7. 0 <= host.gen /\ Len(<<>>) = 0 /\ ~HasExit(feed[t])
      BY <1>1, <3>3, EmptySeq DEF Typed, Hosts, HasExit
    <3> HIDE DEF r
    <3> QED
      BY <2>1, <3>1, <3>2, <3>3, <3>4, <3>5, <3>6, <3>7 DEF Placed, Resting, Attaching
  <2> HIDE DEF r
  <2> QED
    BY <1>1, <1>2, <1>3, <2>1, <2>2, <2>3, LocalControl DEF InspectNone, Typed
<1>4. CASE InspectRunning(t)
  <2> DEFINE r == [trs[t] EXCEPT !.pc = "cursor", !.gen = host.gen, !.next = host.next]
  <2>0. host.gen \in 0 .. MaxGenerations /\ host.next \in 0 .. MaxOutput
    BY <1>1 DEF Typed, Hosts
  <2>1. r \in Transport /\ r.pc = "cursor"
    BY <1>1, <2>0, TransportFields DEF Transport, Places, Attaching
  <2>2. LocalStep(t, r)
    BY <1>1, <1>4, LocalSame, HostUnchanged DEF InspectRunning, calm
  <2>3. Placed(t)'
    <3>1. trs'[t] = r
      BY <1>1, <1>4 DEF Typed, InspectRunning
    <3>2. t \notin attached /\ feed[t] = <<>> /\ Len(feed[t]) = 0
      BY <1>1, <1>4, EmptySeq DEF Placed, InspectRunning, Resting, Attaching, Served
    <3>3. trs[t].after = -1 /\ trs[t].batch = <<>> /\ trs[t].queue = <<>> /\ Len(<<>>) = 0
      BY <1>1, <1>4, EmptySeq DEF Placed, InspectRunning, Resting, Attaching
    <3>4. host.gen >= 1 /\ host.gen \in Nat /\ host.next \in Nat /\ host.status = "RUNNING"
      BY <1>1, <1>4 DEF Control, HostSound, InspectRunning, Typed, Hosts
    <3>5. host' = host /\ attached' = attached /\ feed' = feed
      BY <1>4 DEF InspectRunning
    <3>6. /\ r.pc = "cursor" /\ r.gen = host.gen /\ r.next = host.next
          /\ r.after = -1 /\ r.batch = <<>> /\ r.queue = <<>>
      BY <1>1, <3>3, TransportFields DEF Transport
    <3> HIDE DEF r
    <3>7. ~HasExit(feed[t])
      BY <3>2 DEF HasExit
    <3> QED
      BY <3>1, <3>2, <3>3, <3>4, <3>5, <3>6, <3>7 DEF Placed, Resting, Attaching, Served
  <2> HIDE DEF r
  <2> QED
    BY <1>1, <1>2, <1>4, <2>1, <2>2, <2>3, LocalControl DEF InspectRunning, Typed
<1>5. CASE InspectEnded(t)
  <2>1. Idle \in Transport /\ Idle.pc = "idle"
    BY IdleTyped DEF Idle
  <2>2. LocalStep(t, Idle)
    BY <1>1, <1>5, LocalSame, HostUnchanged DEF InspectEnded, calm
  <2>3. Placed(t)'
    <3>1. trs'[t] = Idle
      BY <1>1, <1>5 DEF Typed, InspectEnded
    <3> QED
      BY <1>1, <1>5, <3>1, TransportFields, EmptySeq
      DEF Control, Placed, InspectEnded, Resting, Attaching, Served, Transport, HostSound, Typed, Hosts, Idle
  <2> QED
    BY <1>1, <1>5, <2>1, <2>2, <2>3, LocalControl DEF InspectEnded, Typed, Attaching
<1> QED
  BY <1>3, <1>4, <1>5

(* A transport that is being attached holds nothing and is not attached to a living process. *)
LEMMA RestingHoldsNothing ==
  ASSUME Control, NEW t \in Transports, trs[t].pc \in Resting
  PROVE  /\ feed[t] = <<>> /\ Len(feed[t]) = 0
         /\ trs[t].batch = <<>> /\ trs[t].queue = <<>>
         /\ t \in attached => host.status = "ENDED" /\ ~host.exiting
<1>1. Placed(t) /\ Len(<<>>) = 0
  BY EmptySeq DEF Control
<1> QED
  BY <1>1 DEF Placed, Resting, Attaching, Served

(* What is asked of a transport that is idle or being attached. *)
LEMMA RestingPlaced ==
  ASSUME NEW t \in Transports, NEW r, trs'[t] = r, r.pc \in Resting, r.gen \in Nat, r.gen <= host'.gen,
         r.batch = <<>>, r.queue = <<>>, feed'[t] = <<>>,
         t \in attached' => host'.status = "ENDED" /\ ~host'.exiting,
         r.pc \in {"idle", "inspect"} => r.gen = 0 /\ r.after = -1,
         r.pc \in {"cursor", "tail"} => r.gen # 0,
         r.gen # 0 => /\ r.gen = host'.gen /\ host'.status # "NONE"
                      /\ r.next <= host'.next /\ r.after < host'.next,
         r.pc = "attach" /\ r.gen = 0 => host'.status = "NONE" /\ r.after = -1
  PROVE  Placed(t)'
<1>1. Len(<<>>) = 0
  BY EmptySeq
<1>2. ~HasExit(feed'[t])
  BY <1>1 DEF HasExit
<1>3. r.pc # "ended"
  BY DEF Resting, Attaching
<1> QED
  BY <1>1, <1>2, <1>3 DEF Placed, Served, Resting

LEMMA CursorControl ==
  ASSUME Control, StoredSound, TerminalAssumption, NEW t \in Transports, ReadCursor(t)
  PROVE  Control'
<1> DEFINE r == [trs[t] EXCEPT !.pc = "attach", !.after = Cursor(trs[t].gen)]
<1>1. Typed /\ Placed(t) /\ Cursor(trs[t].gen) \in -1 .. MaxOutput
  BY CursorIsLast DEF Control
<1>2. r \in Transport /\ r.pc = "attach" /\ r.after = Cursor(trs[t].gen) /\ r.gen = trs[t].gen
      /\ r.next = trs[t].next /\ r.batch = trs[t].batch /\ r.queue = trs[t].queue
  BY <1>1, TransportFields DEF Transport, Places, Attaching
<1>3. LocalStep(t, r)
  BY <1>1, LocalSame, HostUnchanged DEF ReadCursor
<1>4. trs'[t] = r
  BY <1>1 DEF Typed, ReadCursor
<1> HIDE DEF r
<1>5. trs[t].pc \in Resting /\ trs[t].pc = "cursor"
  BY DEF ReadCursor, Resting, Attaching
<1>6. trs[t].gen # 0 /\ trs[t].gen = host.gen /\ host.status # "NONE" /\ trs[t].next <= host.next
  BY <1>1, <1>5 DEF Placed
<1>7. host.gen \in Nat /\ host.next \in Nat /\ trs[t].next \in Int
  BY <1>1, TransportFields DEF Typed, Hosts
<1>8. Cursor(trs[t].gen) < host.next
  BY <1>1, <1>6, <1>7, CursorIsLast DEF StoredSound
<1>9. Placed(t)'
  <2>1. host' = host /\ attached' = attached /\ feed' = feed
    BY DEF ReadCursor
  <2>2. r.pc \in Resting /\ r.gen \in Nat /\ r.after < host.next /\ r.next <= host.next
    BY <1>2, <1>6, <1>7, <1>8 DEF Resting, Attaching
  <2> QED
    BY <1>2, <1>4, <1>5, <1>6, <1>7, <2>1, <2>2, RestingHoldsNothing, RestingPlaced
<1>10. \A u \in Transports \ {t} : ~Busy(u)
  BY <1>5 DEF Control, OneBusy, Busy, Attaching
<1> QED
  BY <1>1, <1>2, <1>3, <1>9, <1>10, LocalControl DEF ReadCursor, Typed

LEMMA TailControl ==
  ASSUME Control, TerminalAssumption, NEW t \in Transports, AttachToTail(t)
  PROVE  Control'
<1> DEFINE r == [trs[t] EXCEPT !.pc = "tail", !.after = trs[t].next - 1]
<1>1. Typed /\ Placed(t)
  BY DEF Control
<1>2. r \in Transport /\ r.pc = "tail" /\ r.after = trs[t].next - 1 /\ r.gen = trs[t].gen
      /\ r.next = trs[t].next /\ r.batch = trs[t].batch /\ r.queue = trs[t].queue
  <2>1. trs[t].next - 1 \in -1 .. MaxOutput
    BY <1>1, TransportFields DEF TerminalAssumption
  <2> QED
    BY <1>1, <2>1, TransportFields DEF Transport, Places, Attaching
<1>3. LocalStep(t, r)
  BY <1>1, LocalSame, HostUnchanged DEF AttachToTail, calm
<1>4. trs'[t] = r
  BY <1>1 DEF Typed, AttachToTail
<1> HIDE DEF r
<1>5. trs[t].pc \in Resting /\ trs[t].pc = "attach" /\ trs[t].gen # 0
  BY DEF AttachToTail, Resting, Attaching
<1>6. trs[t].gen = host.gen /\ host.status # "NONE" /\ trs[t].next <= host.next
  BY <1>1, <1>5 DEF Placed
<1>7. host.gen \in Nat /\ host.next \in Nat /\ trs[t].next \in Int
  BY <1>1, TransportFields DEF Typed, Hosts
<1>9. Placed(t)'
  <2>1. host' = host /\ attached' = attached /\ feed' = feed
    BY DEF AttachToTail
  <2>2. r.pc \in Resting /\ r.gen \in Nat /\ r.after < host.next /\ r.next <= host.next
    BY <1>2, <1>6, <1>7 DEF Resting, Attaching
  <2> QED
    BY <1>2, <1>4, <1>5, <1>6, <1>7, <2>1, <2>2, RestingHoldsNothing, RestingPlaced
<1>10. \A u \in Transports \ {t} : ~Busy(u)
  BY <1>5 DEF Control, OneBusy, Busy, Attaching
<1> QED
  BY <1>1, <1>2, <1>3, <1>9, <1>10, LocalControl DEF AttachToTail, Typed

LEMMA RefusedControl ==
  ASSUME Control, TerminalAssumption, NEW t \in Transports, AttachRefused(t)
  PROVE  Control'
<1>1. Typed /\ Placed(t)
  BY DEF Control
<1>2. Idle \in Transport /\ Idle.pc = "idle" /\ Idle.gen = 0 /\ Idle.after = -1 /\ Idle.next = 0
      /\ Idle.batch = <<>> /\ Idle.queue = <<>>
  BY IdleTyped DEF Idle
<1>3. LocalStep(t, Idle)
  BY <1>1, LocalSame, HostUnchanged DEF AttachRefused, calm
<1>4. trs'[t] = Idle
  BY <1>1 DEF Typed, AttachRefused
<1>5. trs[t].pc \in Resting
  BY DEF AttachRefused, Resting, Attaching
<1>7. host.gen \in Nat /\ host.next \in Nat
  BY <1>1 DEF Typed, Hosts
<1>9. Placed(t)'
  BY <1>2, <1>4, <1>5, <1>7, RestingHoldsNothing, RestingPlaced
  DEF AttachRefused, Resting, Attaching
<1> QED
  BY <1>1, <1>2, <1>3, <1>9, LocalControl DEF AttachRefused, Typed, Attaching

(* A transport that goes on with the process it has. *)
LEMMA MovedPlaced ==
  ASSUME Control, NEW t \in Transports, NEW r \in Transport, trs'[t] = r, HostKept,
         attached' \subseteq attached,
         trs[t].pc \notin Resting, r.pc \notin Resting, r.gen = trs[t].gen, Len(r.batch) <= 1,
         t \in attached' => r.pc \in Served \/ (host.status = "ENDED" /\ ~host.exiting),
         HasExit(feed'[t]) => HasExit(feed[t]),
         r.pc = "ended" => trs[t].pc = "ended" \/ HasExit(feed[t])
  PROVE  Placed(t)'
<1>1. Placed(t)
  BY DEF Control
<1>2. trs[t].gen <= host.gen /\ trs[t].gen # 0
  BY <1>1 DEF Placed
<1>3. host'.status = host.status /\ host'.gen = host.gen /\ host'.exiting = host.exiting
  BY DEF HostKept
<1>4. t \in attached' => \/ r.gen = host.gen /\ r.pc \in Served
                         \/ host.status = "ENDED" /\ ~host.exiting
  BY <1>1 DEF Placed
<1>5. r.pc = "ended" \/ HasExit(feed'[t]) => trs[t].pc = "ended" \/ HasExit(feed[t])
  OBVIOUS
<1>6. (trs[t].pc = "ended" \/ HasExit(feed[t])) /\ trs[t].gen = host.gen
        => host.status # "RUNNING" /\ ~host.exiting
  BY <1>1 DEF Placed
<1>7. r.pc \notin {"idle", "inspect", "cursor", "attach", "tail"}
  BY DEF Resting, Attaching
<1> QED
  BY <1>2, <1>3, <1>4, <1>5, <1>6, <1>7 DEF Placed

LEMMA ReadyControl ==
  ASSUME Control, NEW t \in Transports, Ready(t) PROVE Control'
<1> DEFINE r == [trs[t] EXCEPT !.pc = "open"]
<1>1. Typed /\ Placed(t)
  BY DEF Control
<1>2. r \in Transport /\ r.pc = "open" /\ r.gen = trs[t].gen /\ r.batch = trs[t].batch
  BY <1>1, TransportFields DEF Transport, Places, Listening
<1>3. LocalStep(t, r) /\ HostKept
  BY <1>1, LocalSame, HostUnchanged DEF Ready, calm
<1>4. trs'[t] = r
  BY <1>1 DEF Typed, Ready
<1> HIDE DEF r
<1>5. trs[t].pc \notin Resting /\ r.pc \notin Resting /\ r.pc \in Served /\ r.pc # "ended"
  BY <1>2 DEF Ready, Resting, Attaching, Served
<1>6. feed' = feed /\ attached' = attached
  BY DEF Ready
<1>7. Placed(t)'
  <2>1. Len(r.batch) <= 1
    BY <1>1, <1>2 DEF Placed
  <2> QED
    BY <1>2, <1>3, <1>4, <1>5, <1>6, <2>1, MovedPlaced
<1>8. \A u \in Transports \ {t} : ~Busy(u)
  BY DEF Control, OneBusy, Busy, Ready
<1> QED
  BY <1>1, <1>2, <1>3, <1>6, <1>7, <1>8, LocalControl DEF Ready, Typed

Readied(g) == [Idle EXCEPT !.pc = "ready", !.gen = g]

LEMMA ReadyTyped ==
  ASSUME TerminalAssumption, NEW g \in 1 .. MaxGenerations
  PROVE  /\ Readied(g) \in Transport /\ Readied(g).pc = "ready" /\ Readied(g).gen = g
         /\ Readied(g).batch = <<>> /\ Readied(g).queue = <<>>
<1>1. Idle \in Transport /\ Idle.batch = <<>> /\ Idle.queue = <<>>
  BY IdleTyped DEF Idle
<1>2. g \in 0 .. MaxGenerations
  BY DEF TerminalAssumption
<1> QED
  BY <1>1, <1>2 DEF Readied, Transport, Places

LEMMA SpawnedControl ==
  ASSUME Control, TerminalAssumption, NEW t \in Transports, Spawned(t) PROVE Control'
<1> DEFINE r == Readied(host.gen + 1)
<1>1. Typed /\ HostSound /\ host.gen + 1 \in 1 .. MaxGenerations /\ host.gen \in Nat
  BY DEF Control, Typed, Hosts, Spawned, TerminalAssumption
<1>2. r \in Transport /\ r.pc = "ready" /\ r.gen = host.gen + 1 /\ r.batch = <<>> /\ r.queue = <<>>
  BY <1>1, EmptySeq, ReadyTyped
<1>3. trs' = [trs EXCEPT ![t] = r] /\ feed' = feed /\ attached' = {t} /\ row' = row /\ stored' = stored
  BY DEF Spawned, calm, Readied
<1>4. trs'[t] = r /\ \A u \in Transports \ {t} : trs'[u] = trs[u]
  BY <1>1, <1>3 DEF Typed
<1> HIDE DEF r
<1>5. /\ host' \in Hosts /\ host'.status = "RUNNING" /\ host'.gen = host.gen + 1 /\ host'.alive
      /\ ~host'.exiting /\ host'.low = 0 /\ host'.next = 0
  <2>1. host' = [status |-> "RUNNING", gen |-> host.gen + 1, alive |-> TRUE, exiting |-> FALSE,
                 low |-> 0, next |-> 0, lease |-> "none"]
    BY DEF Spawned, NoSession
  <2>2. 0 \in 0 .. MaxOutput /\ host.gen + 1 \in 0 .. MaxGenerations
    BY <1>1 DEF TerminalAssumption
  <2> QED
    BY <2>1, <2>2 DEF Hosts
<1>6. Typed'
  BY <1>1, <1>2, <1>3, <1>5 DEF Typed
<1>7. HostSound'
  BY <1>1, <1>5 DEF HostSound, TerminalAssumption
<1>8. trs[t].pc \in Resting /\ Busy(t)
  BY DEF Spawned, Resting, Attaching, Busy
<1>9. feed[t] = <<>> /\ Len(feed[t]) = 0 /\ Len(<<>>) = 0
  BY <1>8, EmptySeq, RestingHoldsNothing
<1>10. Placed(t)'
  <2>1. ~HasExit(feed'[t])
    BY <1>3, <1>9 DEF HasExit
  <2>2. host'.gen >= 1 /\ host'.gen \in Nat
    BY <1>1, <1>5
  <2> QED
    BY <1>2, <1>4, <1>5, <1>9, <2>1, <2>2 DEF Placed, Served, Resting, Attaching
<1>11. ASSUME NEW u \in Transports \ {t} PROVE Placed(u)'
  <2>1. Placed(u) /\ ~Busy(u) /\ trs[u].gen \in Nat
    BY <1>1, <1>8, TransportFields DEF Control, OneBusy
  <2>2. trs[u].pc \notin {"inspect", "cursor", "attach", "tail"}
    BY <2>1 DEF Busy, Attaching
  <2>3. trs[u].gen <= host'.gen /\ trs[u].gen # host'.gen
    BY <1>1, <1>5, <2>1 DEF Placed
  <2>4. u \notin attached' /\ feed'[u] = feed[u] /\ trs'[u] = trs[u]
    BY <1>3, <1>4
  <2> QED
    BY <2>1, <2>2, <2>3, <2>4 DEF Placed, Attaching, Resting
<1>12. OneBusy'
  BY <1>4, <1>8 DEF Control, OneBusy, Busy
<1> QED
  BY <1>6, <1>7, <1>10, <1>11, <1>12 DEF Control

LEMMA AttachedControl ==
  ASSUME Control, TerminalAssumption, NEW t \in Transports, Attached(t) PROVE Control'
<1> DEFINE r == Readied(host.gen)
<1>1. Typed /\ HostSound /\ host.gen \in 1 .. MaxGenerations /\ Placed(t)
  BY DEF Control, Typed, Hosts, Attached, HostSound, TerminalAssumption
<1>2. r \in Transport /\ r.pc = "ready" /\ r.gen = host.gen /\ r.batch = <<>> /\ r.queue = <<>>
  BY <1>1, EmptySeq, ReadyTyped
<1>3. trs' = [trs EXCEPT ![t] = r] /\ row' = row /\ stored' = stored
      /\ feed' = [feed EXCEPT ![t] = Replay(t)] /\ attached' = attached \cup {t}
  BY DEF Attached, Readied
<1>4. trs'[t] = r
  BY <1>1, <1>3 DEF Typed
<1> HIDE DEF r
<1>5. trs[t].pc \in Resting /\ trs[t].pc \in Attaching /\ host.status = "RUNNING"
  BY DEF Attached, Resting, Attaching
<1>6. trs[t].gen = host.gen /\ trs[t].after < host.next
  BY <1>1, <1>5 DEF Placed, Attached
<1>7. Replay(t) \in Seq(Sequence) /\ \A i \in 1 .. Len(Replay(t)) : Replay(t)[i] \in Sequence
  <2>1. /\ trs[t].after \in -1 .. MaxOutput /\ trs[t].after \in Int
        /\ host.next - trs[t].after - 1 \in Nat /\ host.next <= MaxOutput
    BY <1>1, <1>6, TransportFields DEF Typed, Hosts, TerminalAssumption
  <2>2. trs[t].after + 1 .. trs[t].after + (host.next - trs[t].after - 1) \subseteq Sequence
    <3>1. host.next \in Nat /\ MaxOutput \in Nat
      BY <1>1 DEF TerminalAssumption, Typed, Hosts
    <3>2. trs[t].after + (host.next - trs[t].after - 1) = host.next - 1
      BY <2>1, <3>1
    <3> QED
      BY <2>1, <3>1, <3>2 DEF Sequence
  <2>3. Replay(t) \in Seq(Sequence)
    BY <2>1, <2>2, CountSeq DEF Replay
  <2> QED
    BY <2>3, ElementOfSeq
<1>8. feed' \in [Transports -> Seq(Sequence \cup {Exit})]
  <2>1. Replay(t) \in Seq(Sequence \cup {Exit})
    BY <1>7, SeqMonotonic
  <2> QED
    BY <1>1, <1>3, <2>1 DEF Typed
<1>9. HostKept
  BY <1>1, HostLeased DEF Attached
<1>10. LocalStep(t, r)
  BY <1>1, <1>3, <1>8, <1>9 DEF LocalStep, Typed
<1>11. Placed(t)'
  <2>1. feed'[t] = Replay(t) /\ Len(<<>>) = 0
    BY <1>1, <1>3, EmptySeq DEF Typed
  <2>2. Exit \notin Sequence
    BY DEF Exit, Sequence, TerminalAssumption
  <2>3. ~HasExit(feed'[t])
    BY <1>7, <2>1, <2>2 DEF HasExit
  <2> QED
    BY <1>1, <1>2, <1>4, <1>9, <2>1, <2>3 DEF Placed, Served, Resting, Attaching, HostKept
<1>12. \A u \in Transports \ {t} : ~Busy(u)
  BY <1>5 DEF Control, OneBusy, Busy
<1> QED
  BY <1>1, <1>2, <1>3, <1>5, <1>10, <1>11, <1>12, LocalControl DEF Typed

LEMMA MovedControl ==
  ASSUME Control, NEW t \in Transports, NEW r \in Transport, LocalStep(t, r),
         attached' \subseteq attached,
         trs[t].pc \notin Resting, r.pc \notin Resting, r.gen = trs[t].gen, Len(r.batch) <= 1,
         r.pc \in {"ready", "open"} => r.pc = trs[t].pc,
         t \in attached' => r.pc \in Served \/ (host.status = "ENDED" /\ ~host.exiting),
         HasExit(feed'[t]) => HasExit(feed[t]),
         r.pc = "ended" => trs[t].pc = "ended" \/ HasExit(feed[t]),
         stored' \in Seq(Chunk), row' \in {"RUNNING", "ENDED"}
  PROVE  Control'
<1>1. trs'[t] = r /\ HostKept
  BY DEF Control, Typed, LocalStep
<1>2. Placed(t)'
  BY <1>1, MovedPlaced
<1>3. r.pc \in Attaching \cup {"ready", "open"} => \A u \in Transports \ {t} : ~Busy(u)
  BY DEF Control, OneBusy, Busy, Resting
<1> QED
  BY <1>2, <1>3, LocalControl

(* Where a transport stays attached while it goes on. *)
LEMMA StillServed ==
  ASSUME Control, NEW t \in Transports, t \in attached, trs[t].pc \notin Resting
  PROVE  trs[t].pc \in Served \/ (host.status = "ENDED" /\ ~host.exiting)
<1>1. Placed(t)
  BY DEF Control
<1> QED
  BY <1>1 DEF Placed

LEMMA GatheredTyped ==
  ASSUME Typed, TerminalAssumption, NEW t \in Transports, Len(trs[t].batch) <= 1, NEW s \in Sequence
  PROVE  /\ Gathered(t, s) \in Seq(Batch) /\ Len(Gathered(t, s)) = 1
         /\ Gathered(t, s)[1].hi = s
         /\ Gathered(t, s)[1].lo = IF trs[t].batch = <<>> THEN s ELSE trs[t].batch[1].lo
<1>1. trs[t].batch \in Seq(Batch)
  BY TransportFields
<1>2. CASE trs[t].batch = <<>>
  <2>1. [lo |-> s, hi |-> s] \in Batch
    BY DEF Batch
  <2> QED
    BY <1>2, <2>1 DEF Gathered
<1>3. CASE trs[t].batch # <<>>
  <2> DEFINE b == [trs[t].batch[1] EXCEPT !.hi = s]
  <2>1. trs[t].batch[1] \in Batch
    BY <1>1, <1>3, EmptySeq, ElementOfSeq
  <2>2. b \in Batch /\ b.hi = s /\ b.lo = trs[t].batch[1].lo
    BY <2>1 DEF Batch
  <2>3. Gathered(t, s) = <<b>>
    BY <1>3 DEF Gathered
  <2> HIDE DEF b
  <2> QED
    BY <1>3, <2>2, <2>3
<1> QED
  BY <1>2, <1>3

LEMMA TailExit ==
  ASSUME NEW S, NEW f \in Seq(S), f # <<>>, HasExit(Tail(f)) PROVE HasExit(f)
<1>1. PICK i \in 1 .. Len(Tail(f)) : Tail(f)[i] = Exit
  BY DEF HasExit
<1>2. f[i + 1] = Exit /\ i + 1 \in 1 .. Len(f)
  BY <1>1, HeadTailProperties, LenProperties
<1> QED
  BY <1>2 DEF HasExit

LEMMA OutputControl ==
  ASSUME Control, TerminalAssumption, NEW t \in Transports, Output(t) PROVE Control'
<1> DEFINE r == [trs[t] EXCEPT !.batch = Gathered(t, Head(feed[t]))]
<1>1. Typed /\ Placed(t) /\ feed[t] \in Seq(Sequence \cup {Exit}) /\ feed[t] # <<>>
  BY TransportFields DEF Control, Output
<1>2. Head(feed[t]) \in Sequence /\ Tail(feed[t]) \in Seq(Sequence \cup {Exit})
  BY <1>1, HeadTailProperties DEF Output
<1>3. Gathered(t, Head(feed[t])) \in Seq(Batch) /\ Len(Gathered(t, Head(feed[t]))) = 1
  BY <1>1, <1>2, GatheredTyped DEF Placed
<1>4. r \in Transport /\ r.pc = trs[t].pc /\ r.gen = trs[t].gen /\ Len(r.batch) <= 1
  <2>1. trs[t] \in Transport
    BY <1>1, TransportFields
  <2> DEFINE b == Gathered(t, Head(feed[t]))
  <2> HIDE DEF b
  <2>2. b \in Seq(Batch) /\ Len(b) = 1
    BY <1>3 DEF b
  <2>3. r = [trs[t] EXCEPT !.batch = b]
    BY DEF b
  <2> HIDE DEF r
  <2>4. r \in Transport /\ r.batch = b /\ r.pc = trs[t].pc /\ r.gen = trs[t].gen
    BY <2>1, <2>2, <2>3 DEF Transport
  <2>5. Len(r.batch) = 1
    BY <2>2, <2>4
  <2> QED
    BY <2>4, <2>5
<1>5. LocalStep(t, r)
  BY <1>1, <1>2, HostUnchanged DEF Output, LocalStep, Typed, calm
<1> HIDE DEF r
<1>6. feed'[t] = Tail(feed[t]) /\ (HasExit(feed'[t]) => HasExit(feed[t]))
  BY <1>1, TailExit DEF Output, Typed
<1>7. trs[t].pc \notin Resting
  BY DEF Output, Listening, Resting, Attaching
<1>8. attached' = attached /\ stored' = stored /\ row' = row
  BY DEF Output, calm
<1> QED
  BY <1>1, <1>4, <1>5, <1>6, <1>7, <1>8, StillServed, MovedControl DEF Typed

LEMMA FlushControl ==
  ASSUME Control, TerminalAssumption, NEW t \in Transports, Flush(t) \/ Retry(t) PROVE Control'
<1> DEFINE r == Flushed(trs[t])
<1>1. Typed /\ Placed(t) /\ trs[t] \in Transport
  BY TransportFields DEF Control
<1>2. r \in Transport /\ r.pc = trs[t].pc /\ r.gen = trs[t].gen /\ r.batch = <<>> /\ Len(<<>>) = 0
  BY <1>1, FlushedTyped, EmptySeq
<1>3. trs' = [trs EXCEPT ![t] = r] /\ feed' = feed /\ host' = host /\ attached' = attached
      /\ stored' = stored /\ row' = row
  BY DEF Flush, Retry, calm
<1> HIDE DEF r
<1>4. LocalStep(t, r)
  BY <1>1, <1>3, LocalSame, HostUnchanged
<1>5. CASE trs[t].pc \notin Resting
  BY <1>1, <1>2, <1>3, <1>4, <1>5, StillServed, MovedControl DEF Typed
<1>6. CASE trs[t].pc \in Resting
  <2>1. trs[t].batch = <<>> /\ trs[t].queue = <<>> /\ feed[t] = <<>>
    BY <1>6, RestingHoldsNothing
  <2>2. Retry(t)
    BY <2>1 DEF Flush
  <2>3. r.queue = <<>> /\ r.next = trs[t].next /\ r.after = trs[t].after
    <3>1. /\ r.queue = trs[t].queue \o trs[t].batch
          /\ r.next = trs[t].next /\ r.after = trs[t].after
      BY <1>1, FlushedTyped DEF r
    <3> QED
      BY ONLY <2>1, <3>1, ConcatEmptySeq
  <2>4. trs'[t] = r
    BY <1>1, <1>3 DEF Typed
  <2>5. Placed(t)'
    BY <1>1, <1>2, <1>3, <2>1, <2>3, <2>4 DEF Placed
  <2>6. r.pc \in Attaching \cup {"ready", "open"} => \A u \in Transports \ {t} : ~Busy(u)
    BY <1>2 DEF Control, OneBusy, Busy
  <2> QED
    BY <1>1, <1>2, <1>3, <1>4, <2>5, <2>6, LocalControl DEF Typed
<1> QED
  BY <1>5, <1>6

LEMMA LeaveControl ==
  ASSUME Control, TerminalAssumption, NEW t \in Transports, Leave(t) PROVE Control'
<1> DEFINE now == Flushed(trs[t])
           w == IF now.queue = <<>> THEN -1 ELSE now.queue[Len(now.queue)].hi
           r == [now EXCEPT !.pc = "leaving", !.wait = w]
<1>1. Typed /\ Placed(t) /\ trs[t] \in Transport
  BY TransportFields DEF Control
<1>2. now \in Transport /\ now.gen = trs[t].gen /\ now.batch = <<>> /\ Len(<<>>) = 0
  BY <1>1, FlushedTyped, EmptySeq
<1>3. trs' = [trs EXCEPT ![t] = r] /\ feed' = feed /\ host' = host /\ attached' = attached
      /\ stored' = stored /\ row' = row
  BY DEF Leave, calm
<1> HIDE DEF now
<1>4. w \in -1 .. MaxOutput
  <2>1. now.queue \in Seq(Batch)
    BY <1>2 DEF Transport
  <2>2. now.queue # <<>> => now.queue[Len(now.queue)] \in Batch
    BY <2>1, EmptySeq, ElementOfSeq, LenProperties
  <2> QED
    BY <2>2 DEF Batch, Sequence, TerminalAssumption
<1> HIDE DEF w
<1>5. r \in Transport /\ r.pc = "leaving" /\ r.gen = trs[t].gen /\ r.batch = <<>>
  BY <1>2, <1>4 DEF Transport, Places, Listening
<1> HIDE DEF r
<1>6. LocalStep(t, r)
  BY <1>1, <1>3, LocalSame, HostUnchanged
<1>7. trs[t].pc \notin Resting /\ r.pc \notin Resting /\ r.pc \in Served
  BY <1>5 DEF Leave, Resting, Attaching, Served
<1>8. /\ attached' \subseteq attached /\ Len(r.batch) <= 1
      /\ r.pc \notin {"ready", "open", "ended"} /\ HasExit(feed'[t]) => HasExit(feed[t])
  BY <1>2, <1>3, <1>5 DEF HasExit
<1>9. stored' \in Seq(Chunk) /\ row' \in {"RUNNING", "ENDED"}
  BY <1>1, <1>3 DEF Typed
<1> QED
  BY <1>5, <1>6, <1>7, <1>8, <1>9, MovedControl

LEMMA ExitControl ==
  ASSUME Control, TerminalAssumption, NEW t \in Transports, ExitHandled(t) PROVE Control'
<1> DEFINE now == Flushed(trs[t])
           r == [now EXCEPT !.pc = "ended"]
<1>1. Typed /\ Placed(t) /\ trs[t] \in Transport /\ feed[t] \in Seq(Sequence \cup {Exit})
  BY TransportFields DEF Control
<1>2. now \in Transport /\ now.gen = trs[t].gen /\ now.batch = <<>> /\ Len(<<>>) = 0
  BY <1>1, FlushedTyped, EmptySeq
<1>3. trs' = [trs EXCEPT ![t] = r] /\ feed' = [feed EXCEPT ![t] = <<>>] /\ host' = host
      /\ attached' = attached /\ stored' = stored /\ row' = row
  BY DEF ExitHandled, calm
<1> HIDE DEF now
<1>4. r \in Transport /\ r.pc = "ended" /\ r.gen = trs[t].gen /\ r.batch = <<>>
  BY <1>2 DEF Transport, Places
<1> HIDE DEF r
<1>5. LocalStep(t, r)
  <2>1. <<>> \in Seq(Sequence \cup {Exit})
    BY EmptySeq
  <2> QED
    BY <1>1, <1>3, <2>1, HostUnchanged DEF LocalStep, Typed
<1>6. HasExit(feed[t]) /\ ~HasExit(feed'[t])
  <2>1. feed[t] # <<>> /\ Head(feed[t]) = Exit /\ feed'[t] = <<>>
    BY <1>1, <1>3 DEF ExitHandled, Typed
  <2>2. 1 \in 1 .. Len(feed[t]) /\ feed[t][1] = Exit
    BY <1>1, <2>1, EmptySeq, LenProperties
  <2> QED
    BY <1>2, <2>1, <2>2 DEF HasExit
<1>7. trs[t].pc \notin Resting /\ r.pc \notin Resting
  BY <1>4 DEF ExitHandled, Resting, Attaching, Listening
<1>8. t \in attached => host.status = "ENDED" /\ ~host.exiting
  BY <1>1, <1>6 DEF Control, Placed, HostSound, Typed, Hosts
<1> QED
  BY <1>1, <1>2, <1>3, <1>4, <1>5, <1>6, <1>7, <1>8, MovedControl DEF Typed

(* A batch is stored, unless its last sequence is. *)
LEMMA WrittenTyped ==
  ASSUME Typed, NEW t \in Transports, trs[t].queue # <<>>, trs[t].gen # 0
  PROVE  /\ Written(t) \in Seq(Chunk)
         /\ trs[t].queue[1] \in Batch /\ Head(trs[t].queue) = trs[t].queue[1]
<1>1. trs[t].queue \in Seq(Batch) /\ trs[t].gen \in 1 .. MaxGenerations /\ stored \in Seq(Chunk)
  BY TransportFields DEF Typed
<1>2. trs[t].queue[1] \in Batch /\ Head(trs[t].queue) = trs[t].queue[1]
  BY <1>1, EmptySeq, ElementOfSeq
<1> DEFINE b == Head(trs[t].queue)
           c == [gen |-> trs[t].gen, lo |-> b.lo, hi |-> b.hi]
<1>3. c \in Chunk
  BY <1>1, <1>2 DEF Chunk, Batch
<1>4. Written(t) = stored \/ Written(t) = Append(stored, c)
  BY DEF Written
<1> HIDE DEF c
<1> QED
  BY <1>1, <1>2, <1>3, <1>4, AppendProperties

LEMMA StoreControl ==
  ASSUME Control, TerminalAssumption, NEW t \in Transports, Store(t) \/ StoreFails(t) PROVE Control'
<1>1. Typed /\ Placed(t) /\ trs[t] \in Transport
  BY TransportFields DEF Control
<1>2. trs[t].queue # <<>>
  BY DEF Store, StoreFails
<1>3. trs[t].pc \notin Resting /\ trs[t].gen # 0
  BY <1>1, <1>2 DEF Placed
<1>4. Written(t) \in Seq(Chunk) /\ Len(trs[t].batch) <= 1
  BY <1>1, <1>2, <1>3, WrittenTyped DEF Placed
<1>5. feed' = feed /\ host' = host /\ attached' = attached /\ row' = row /\ stored' \in Seq(Chunk)
  BY <1>1, <1>4 DEF Store, StoreFails, calm, Typed
<1>6. CASE Store(t)
  <2> DEFINE r == [trs[t] EXCEPT !.queue = Tail(trs[t].queue)]
  <2>1. Tail(trs[t].queue) \in Seq(Batch)
    BY <1>1, <1>2, HeadTailProperties DEF Transport
  <2>2. r \in Transport /\ r.pc = trs[t].pc /\ r.gen = trs[t].gen /\ r.batch = trs[t].batch
    BY <1>1, <2>1 DEF Transport
  <2>3. LocalStep(t, r)
    BY <1>1, <1>5, <1>6, LocalSame, HostUnchanged DEF Store
  <2> HIDE DEF r
  <2> QED
    BY <1>1, <1>3, <1>4, <1>5, <2>2, <2>3, StillServed, MovedControl DEF Typed
<1>7. CASE StoreFails(t)
  <2> DEFINE r == AfterFailure(trs[t])
  <2>1. /\ r \in Transport /\ r.gen = trs[t].gen /\ r.batch = trs[t].batch
        /\ r.pc = IF trs[t].pc = "leaving" THEN "stuck" ELSE trs[t].pc
    BY <1>1 DEF Transport, AfterFailure, Places, Listening
  <2>2. LocalStep(t, r)
    BY <1>1, <1>5, <1>7, LocalSame, HostUnchanged DEF StoreFails
  <2> HIDE DEF r
  <2>3. r.pc \notin Resting /\ (r.pc # trs[t].pc => r.pc = "stuck" /\ r.pc \in Served)
    BY <1>3, <2>1 DEF Resting, Attaching, Served
  <2> QED
    BY <1>1, <1>3, <1>4, <1>5, <2>1, <2>2, <2>3, StillServed, MovedControl DEF Typed
<1> QED
  BY <1>6, <1>7

LEMMA DetachControl ==
  ASSUME Control, TerminalAssumption, NEW t \in Transports, Detach(t) PROVE Control'
<1> DEFINE r == [trs[t] EXCEPT !.pc = "detached", !.wait = -1]
<1>1. Typed /\ Placed(t) /\ trs[t] \in Transport /\ Len(trs[t].batch) <= 1
  BY TransportFields DEF Control, Placed
<1>2. r \in Transport /\ r.pc = "detached" /\ r.gen = trs[t].gen /\ r.batch = trs[t].batch
  <2>1. -1 \in -1 .. MaxOutput
    BY DEF TerminalAssumption
  <2> QED
    BY <1>1, <2>1 DEF Transport, Places, Listening
<1>3. attached' = attached \ {t} /\ feed' = feed /\ stored' = stored /\ row' = row
  BY DEF Detach, Detached, calm
<1>4. HostKept
  BY <1>1, HostUnchanged, HostLeased DEF Detach, Detached
<1>5. LocalStep(t, r)
  BY <1>1, <1>3, <1>4, LocalSame DEF Detach
<1> HIDE DEF r
<1>6. trs[t].pc \notin Resting /\ r.pc \notin Resting
  BY <1>2 DEF Detach, Resting, Attaching
<1> QED
  BY <1>1, <1>2, <1>3, <1>5, <1>6, MovedControl DEF Typed

LEMMA FinishControl ==
  ASSUME Control, TerminalAssumption, NEW t \in Transports, Finish(t) PROVE Control'
<1>1. Typed /\ Placed(t)
  BY DEF Control
<1>2. Idle \in Transport /\ Idle.pc = "idle" /\ Idle.gen = 0 /\ Idle.after = -1
      /\ Idle.batch = <<>> /\ Idle.queue = <<>>
  BY IdleTyped DEF Idle
<1>3. attached' = attached /\ feed' = feed /\ host' = host /\ stored' = stored
      /\ row' \in {"RUNNING", "ENDED"} /\ feed[t] = <<>>
  BY <1>1 DEF Finish, Typed
<1>4. LocalStep(t, Idle) /\ trs'[t] = Idle
  BY <1>1, <1>3, LocalSame, HostUnchanged DEF Finish, Typed
<1>5. t \in attached => host.status = "ENDED" /\ ~host.exiting
  BY <1>1 DEF Placed, Finish, Served
<1>6. Placed(t)'
  <2>1. Idle.pc \in Resting /\ Idle.gen <= host'.gen /\ Idle.gen \in Nat
    BY <1>1, <1>2, <1>3 DEF Resting, Typed, Hosts
  <2> QED
    BY <1>2, <1>3, <1>4, <1>5, <2>1, RestingPlaced
<1> QED
  BY <1>1, <1>2, <1>3, <1>4, <1>6, LocalControl DEF Typed, Attaching

-----------------------------------------------------------------------------
(* Steps of the host and crashes *)

(* A step of the host that leaves the transports and what they were sent. *)
LEMMA HostControl ==
  ASSUME Control, host' \in Hosts, HostSound', trs' = trs, attached' \subseteq attached,
         feed' \in [Transports -> Seq(Sequence \cup {Exit})], stored' = stored, row' = row,
         \A t \in Transports : Placed(t)'
  PROVE  Control'
<1>1. Typed'
  BY DEF Control, Typed
<1>2. OneBusy'
  BY DEF Control, OneBusy, Busy
<1> QED
  BY <1>1, <1>2 DEF Control

(* The feeds after the host has sent e to every attachment. *)
LEMMA SentTyped ==
  ASSUME Typed, NEW e \in Sequence \cup {Exit},
         feed' = [t \in Transports |-> IF t \in attached THEN Append(feed[t], e) ELSE feed[t]]
  PROVE  /\ feed' \in [Transports -> Seq(Sequence \cup {Exit})]
         /\ \A t \in Transports : HasExit(feed'[t]) => HasExit(feed[t]) \/ (e = Exit /\ t \in attached)
<1>1. ASSUME NEW t \in Transports
      PROVE  /\ feed'[t] \in Seq(Sequence \cup {Exit})
             /\ HasExit(feed'[t]) => HasExit(feed[t]) \/ (e = Exit /\ t \in attached)
  <2>1. feed[t] \in Seq(Sequence \cup {Exit})
    BY DEF Typed
  <2>2. CASE t \notin attached
    BY <2>1, <2>2
  <2>3. CASE t \in attached
    <3>1. feed'[t] = Append(feed[t], e)
      BY <2>3
    <3>2. feed'[t] \in Seq(Sequence \cup {Exit}) /\ Len(feed'[t]) = Len(feed[t]) + 1
      BY <2>1, <3>1, AppendProperties
    <3>3. ASSUME HasExit(feed'[t]), e # Exit PROVE HasExit(feed[t])
      <4>1. PICK i \in 1 .. Len(feed'[t]) : feed'[t][i] = Exit
        BY <3>3 DEF HasExit
      <4>2. i \in 1 .. Len(feed[t]) /\ feed[t][i] = Exit
        BY <2>1, <3>1, <3>2, <3>3, <4>1, AppendProperties, LenProperties
      <4> QED
        BY <4>2 DEF HasExit
    <3> QED
      BY <2>3, <3>2, <3>3
  <2> QED
    BY <2>2, <2>3
<1>2. DOMAIN feed' = Transports
  OBVIOUS
<1> QED
  BY <1>1, <1>2

LEMMA ProduceControl ==
  ASSUME Control, TerminalAssumption, Produce PROVE Control'
<1>1. Typed /\ HostSound /\ host.gen >= 1 /\ host.next \in Nat /\ host.low \in Nat /\ host.next + 1 <= MaxOutput
  BY DEF Control, Typed, Hosts, HostSound, Produce, TerminalAssumption
<1>2. host.next \in Sequence /\ host.next # Exit
  BY <1>1 DEF Sequence, Exit, TerminalAssumption
<1>3. feed' \in [Transports -> Seq(Sequence \cup {Exit})]
      /\ \A t \in Transports : HasExit(feed'[t]) => HasExit(feed[t])
  BY <1>1, <1>2, SentTyped DEF Produce
<1>4. /\ host' \in Hosts /\ host'.status = host.status /\ host'.gen = host.gen
      /\ host'.alive = host.alive /\ host'.exiting = host.exiting /\ host'.next = host.next + 1
      /\ host'.low = IF host.next + 1 - host.low > BufferSize THEN host.low + 1 ELSE host.low
  <2> DEFINE l == IF host.next + 1 - host.low > BufferSize THEN host.low + 1 ELSE host.low
  <2>1. host.next + 1 \in 0 .. MaxOutput /\ l \in 0 .. MaxOutput
    BY <1>1 DEF HostSound, TerminalAssumption
  <2>2. host' = [host EXCEPT !.next = host.next + 1, !.low = l]
    BY DEF Produce
  <2> HIDE DEF l
  <2>3. /\ host' \in Hosts /\ host'.status = host.status /\ host'.gen = host.gen
        /\ host'.alive = host.alive /\ host'.exiting = host.exiting /\ host'.next = host.next + 1
        /\ host'.low = l
    BY <1>1, <2>1, <2>2 DEF Typed, Hosts
  <2> QED
    BY <2>3 DEF l
<1>5. HostSound'
  <2>1. host.low <= host.next /\ host.next - host.low <= BufferSize /\ BufferSize \in Nat \ {0}
    BY <1>1 DEF HostSound, TerminalAssumption
  <2>2. /\ host'.low <= host'.next /\ host'.next - host'.low <= BufferSize
        /\ host'.low # host'.next
    BY <1>1, <1>4, <2>1
  <2>3. attached' = attached
    BY DEF Produce, calm
  <2> QED
    BY <1>1, <1>4, <2>2, <2>3 DEF HostSound
<1>6. ASSUME NEW t \in Transports PROVE Placed(t)'
  <2>1. Placed(t) /\ trs'[t] = trs[t] /\ attached' = attached
    BY DEF Control, Produce, calm
  <2>2. trs[t].next \in Int /\ trs[t].after \in Int
    BY <1>1, TransportFields
  <2>3. t \in attached => trs[t].pc \notin Resting
    BY <2>1 DEF Placed, Produce, Served, Resting, Attaching
  <2>4. trs[t].pc \in Resting => feed'[t] = <<>>
    BY <1>1, <2>1, <2>3 DEF Placed, Produce, Typed
  <2> QED
    BY <1>1, <1>3, <1>4, <2>1, <2>2, <2>4 DEF Placed
<1> QED
  BY <1>1, <1>3, <1>4, <1>5, <1>6, HostControl DEF Produce, calm

(* The process ends, its exit is missed, the lease lapses, the session is given up. *)
LEMMA LifeControl ==
  ASSUME Control, TerminalAssumption, ProcessEnds \/ Reap \/ ExitMissed \/ LeaseLapses \/ MarkGone
  PROVE  Control'
<1>1. Typed /\ HostSound
  BY DEF Control
<1>2. trs' = trs /\ attached' = attached /\ feed' = feed /\ stored' = stored /\ row' = row
  BY DEF ProcessEnds, Reap, ExitMissed, LeaseLapses, MarkGone, calm
<1>3. /\ host' \in Hosts /\ host'.gen = host.gen /\ host'.low = host.low /\ host'.next = host.next
      /\ host'.status # host.status => host.status = "RUNNING" /\ host'.status = "ENDED"
      /\ host'.alive => host.alive /\ host'.status = host.status
      /\ host'.exiting /\ ~host.exiting => host.alive /\ ~host'.alive /\ host'.status = host.status
      /\ host'.alive => host'.exiting = host.exiting
  <2>1. CASE ProcessEnds \/ Reap
    <3>1. host' = [host EXCEPT !.alive = FALSE, !.exiting = TRUE] /\ host.alive
      BY <2>1 DEF ProcessEnds, Reap, Reapable
    <3> QED
      BY <1>1, <3>1 DEF Typed, Hosts
  <2>2. CASE ExitMissed
    BY <1>1, <2>2 DEF ExitMissed, Typed, Hosts, HostSound
  <2>3. CASE LeaseLapses
    BY <1>1, <2>3 DEF LeaseLapses, Typed, Hosts
  <2>4. CASE MarkGone
    BY <1>1, <2>4 DEF MarkGone, Typed, Hosts
  <2> QED
    BY <2>1, <2>2, <2>3, <2>4
<1>4. HostSound'
  BY <1>1, <1>2, <1>3 DEF HostSound, Hosts
<1>5. ASSUME NEW t \in Transports PROVE Placed(t)'
  <2>1. Placed(t) /\ trs'[t] = trs[t] /\ feed'[t] = feed[t] /\ (host.alive => host.status = "RUNNING")
    BY <1>1, <1>2 DEF Control, HostSound
  <2> QED
    BY <1>2, <1>3, <2>1 DEF Placed
<1> QED
  BY <1>1, <1>2, <1>3, <1>4, <1>5, HostControl DEF Typed

LEMMA NoticedControl ==
  ASSUME Control, TerminalAssumption, ExitNoticed PROVE Control'
<1>1. Typed /\ HostSound /\ host.exiting /\ host.status # "NONE" /\ ~host.alive
  BY DEF Control, HostSound, ExitNoticed
<1>2. trs' = trs /\ attached' = attached /\ stored' = stored /\ row' = row
  BY DEF ExitNoticed, calm
<1>3. /\ host' \in Hosts /\ host'.gen = host.gen /\ host'.low = host.low /\ host'.next = host.next
      /\ host'.status = "ENDED" /\ ~host'.exiting /\ ~host'.alive
  BY <1>1 DEF ExitNoticed, Typed, Hosts
<1>4. feed' \in [Transports -> Seq(Sequence \cup {Exit})]
  BY <1>1, SentTyped DEF ExitNoticed
<1>5. HostSound'
  BY <1>1, <1>2, <1>3 DEF HostSound
<1>6. ASSUME NEW t \in Transports PROVE Placed(t)'
  <2>1. Placed(t) /\ trs'[t] = trs[t]
    BY <1>2 DEF Control
  <2>2. trs[t].pc \in Resting => t \notin attached /\ feed'[t] = <<>>
    BY <1>1, <2>1, RestingHoldsNothing DEF ExitNoticed, Typed
  <2> QED
    BY <1>1, <1>2, <1>3, <2>1, <2>2 DEF Placed
<1> QED
  BY <1>1, <1>2, <1>3, <1>4, <1>5, <1>6, HostControl DEF Typed

(* There is no session any more. *)
LEMMA GoneTyped ==
  ASSUME Typed, TerminalAssumption, host' = NoSession(host.gen), attached' = {}
  PROVE  /\ host' \in Hosts /\ host'.gen = host.gen /\ host'.status = "NONE"
         /\ ~host'.alive /\ ~host'.exiting /\ host'.low = 0 /\ host'.next = 0
         /\ HostSound'
<1>1. 0 \in 0 .. MaxOutput /\ host.gen \in 0 .. MaxGenerations
  BY DEF TerminalAssumption, Typed, Hosts
<1>2. /\ host' \in Hosts /\ host'.gen = host.gen /\ host'.status = "NONE"
      /\ ~host'.alive /\ ~host'.exiting /\ host'.low = 0 /\ host'.next = 0
  BY <1>1 DEF NoSession, Hosts
<1> QED
  BY <1>2 DEF HostSound, TerminalAssumption

LEMMA PruneControl ==
  ASSUME Control, TerminalAssumption, Prune PROVE Control'
<1>1. Typed
  BY DEF Control
<1>2. /\ host' \in Hosts /\ host'.gen = host.gen /\ host'.status = "NONE"
      /\ ~host'.alive /\ ~host'.exiting /\ host'.low = 0 /\ host'.next = 0
      /\ HostSound'
  BY <1>1, GoneTyped DEF Prune
<1>3. trs' = trs /\ attached' = {} /\ feed' = feed /\ stored' = stored /\ row' = row
  BY DEF Prune, calm
<1>4. ASSUME NEW t \in Transports PROVE Placed(t)'
  <2>1. Placed(t) /\ trs'[t] = trs[t] /\ trs[t].pc \notin {"inspect", "cursor", "attach", "tail"}
    BY <1>3 DEF Control, Prune, Attaching
  <2> QED
    BY <1>2, <1>3, <2>1 DEF Placed
<1> QED
  BY <1>1, <1>2, <1>3, <1>4, HostControl DEF Typed

LEMMA ApiCrashControl ==
  ASSUME Control, TerminalAssumption, ApiCrash PROVE Control'
<1>1. Typed /\ HostSound
  BY DEF Control
<1>2. /\ trs' = [t \in Transports |-> Idle] /\ feed' = [t \in Transports |-> <<>>]
      /\ stored' = stored /\ row' = row /\ attached' = {}
  BY <1>1 DEF ApiCrash, Detached, Typed
<1>3. HostKept
  BY <1>1, HostUnchanged, HostLeased DEF ApiCrash, Detached
<1>4. Idle \in Transport /\ Idle.pc = "idle" /\ Idle.gen = 0 /\ Idle.after = -1
      /\ Idle.batch = <<>> /\ Idle.queue = <<>>
  BY IdleTyped DEF Idle
<1>5. Typed'
  <2>1. <<>> \in Seq(Sequence \cup {Exit})
    BY EmptySeq
  <2> QED
    BY <1>1, <1>2, <1>3, <1>4, <2>1 DEF Typed, HostKept
<1>6. HostSound'
  BY <1>1, <1>2, <1>3 DEF HostSound, HostKept
<1>7. ASSUME NEW t \in Transports PROVE Placed(t)' /\ ~Busy(t)'
  <2>1. trs'[t] = Idle /\ feed'[t] = <<>> /\ t \notin attached'
    BY <1>2
  <2>2. Idle.pc \in Resting /\ Idle.gen <= host'.gen /\ Idle.gen \in Nat
    BY <1>3, <1>4 DEF Resting, HostKept, Hosts
  <2>3. Placed(t)'
    BY <1>4, <2>1, <2>2, RestingPlaced
  <2> QED
    BY <1>4, <2>1, <2>3 DEF Busy, Attaching
<1> QED
  BY <1>5, <1>6, <1>7 DEF Control, OneBusy

(* What a lost connection makes of a transport. *)
LEMMA DisconnectedTyped ==
  ASSUME TerminalAssumption, NEW r \in Transport
  PROVE  \/ Disconnected(r) = Idle
         \/ /\ Disconnected(r) \in Transport
            /\ Disconnected(r).gen = r.gen /\ Disconnected(r).batch = r.batch
            /\ Disconnected(r).queue = r.queue /\ Disconnected(r).next = r.next
            /\ Disconnected(r).after = r.after
            /\ Disconnected(r).pc \notin Attaching \cup {"ready", "open"}
            /\ r.pc \notin Attaching
            /\ Disconnected(r).pc = r.pc \/ (r.pc # "idle" /\ Disconnected(r).pc \notin {"idle", "ended"})
<1>1. CASE r.pc \in Attaching
  BY <1>1 DEF Disconnected, Attaching
<1>2. CASE r.pc \in {"ready", "open"}
  <2>1. Disconnected(r) = [r EXCEPT !.pc = "lost"]
    BY <1>2 DEF Disconnected, Attaching
  <2> QED
    BY <1>2, <2>1 DEF Transport, Places, Attaching
<1>3. CASE r.pc \in {"leaving", "stuck"}
  <2>1. Disconnected(r) = [r EXCEPT !.pc = "detached"]
    BY <1>3 DEF Disconnected, Attaching
  <2> QED
    BY <1>3, <2>1 DEF Transport, Places, Attaching, Listening
<1>4. CASE r.pc \notin Attaching \cup {"ready", "open", "leaving", "stuck"}
  <2>1. Disconnected(r) = r
    BY <1>4 DEF Disconnected, Attaching
  <2> QED
    BY <1>4, <2>1 DEF Attaching
<1> QED
  BY <1>1, <1>2, <1>3, <1>4

LEMMA RestartControl ==
  ASSUME Control, TerminalAssumption, HostRestart PROVE Control'
<1>1. Typed
  BY DEF Control
<1>2. /\ host' \in Hosts /\ host'.gen = host.gen /\ host'.status = "NONE"
      /\ ~host'.alive /\ ~host'.exiting /\ host'.low = 0 /\ host'.next = 0
      /\ HostSound'
  BY <1>1, GoneTyped DEF HostRestart
<1>3. /\ trs' = [t \in Transports |-> Disconnected(trs[t])] /\ feed' = [t \in Transports |-> <<>>]
      /\ attached' = {} /\ stored' = stored /\ row' = row
  BY DEF HostRestart
<1>4. Idle \in Transport /\ Idle.pc = "idle" /\ Idle.gen = 0 /\ Idle.after = -1
      /\ Idle.batch = <<>> /\ Idle.queue = <<>> /\ Len(<<>>) = 0
  BY IdleTyped, EmptySeq DEF Idle
<1>5. ASSUME NEW t \in Transports
      PROVE  trs'[t] \in Transport /\ feed'[t] = <<>> /\ Placed(t)' /\ ~Busy(t)'
  <2>1. trs'[t] = Disconnected(trs[t]) /\ feed'[t] = <<>> /\ t \notin attached' /\ trs[t] \in Transport
        /\ Placed(t)
    BY <1>1, <1>3, TransportFields DEF Control
  <2>2. CASE Disconnected(trs[t]) = Idle
    <3>1. Idle.pc \in Resting /\ Idle.gen <= host'.gen /\ Idle.gen \in Nat
      BY <1>2, <1>4 DEF Resting, Hosts
    <3>2. Placed(t)'
      BY <1>4, <2>1, <2>2, <3>1, RestingPlaced
    <3> QED
      BY <1>4, <2>1, <2>2, <3>2 DEF Busy, Attaching
  <2>3. CASE Disconnected(trs[t]) # Idle
    <3> DEFINE r == Disconnected(trs[t])
    <3>1. /\ r \in Transport /\ r.gen = trs[t].gen /\ r.batch = trs[t].batch
          /\ r.queue = trs[t].queue /\ r.after = trs[t].after
          /\ r.pc \notin Attaching \cup {"ready", "open"} /\ trs[t].pc \notin Attaching
          /\ r.pc = trs[t].pc \/ (trs[t].pc # "idle" /\ r.pc \notin {"idle", "ended"})
      BY <2>1, <2>3, DisconnectedTyped
    <3> HIDE DEF r
    <3>2. trs'[t] = r
      BY <2>1 DEF r
    <3>3. ~HasExit(feed'[t])
      BY <1>4, <2>1 DEF HasExit
    <3>4. r.pc \notin {"inspect", "cursor", "attach", "tail"} /\ (r.pc = "idle" <=> trs[t].pc = "idle")
      BY <3>1 DEF Attaching
    <3>5. Placed(t)'
      BY <1>2, <2>1, <3>1, <3>2, <3>3, <3>4 DEF Placed, Resting, Attaching
    <3> QED
      BY <2>1, <3>1, <3>2, <3>5 DEF Busy
  <2> QED
    BY <2>2, <2>3
<1>6. Typed'
  <2>1. <<>> \in Seq(Sequence \cup {Exit})
    BY EmptySeq
  <2> QED
    BY <1>1, <1>2, <1>3, <1>5, <2>1 DEF Typed
<1> QED
  BY <1>2, <1>5, <1>6 DEF Control, OneBusy

LEMMA ControlInit == ASSUME Init, TerminalAssumption PROVE Control
<1>1. /\ host \in Hosts /\ host.gen = 0 /\ host.status = "NONE" /\ ~host.alive /\ ~host.exiting
      /\ host.low = 0 /\ host.next = 0
  <2>1. 0 \in 0 .. MaxOutput /\ 0 \in 0 .. MaxGenerations
    BY DEF TerminalAssumption
  <2> QED
    BY <2>1 DEF Init, NoSession, Hosts
<1>2. Idle \in Transport /\ Idle.pc = "idle" /\ Idle.gen = 0 /\ Idle.after = -1
      /\ Idle.batch = <<>> /\ Idle.queue = <<>> /\ Len(<<>>) = 0
  BY IdleTyped, EmptySeq DEF Idle
<1>3. Typed
  <2>1. <<>> \in Seq(Sequence \cup {Exit}) /\ <<>> \in Seq(Chunk)
    BY EmptySeq
  <2> QED
    BY <1>1, <1>2, <2>1 DEF Init, Typed
<1>4. HostSound
  BY <1>1 DEF Init, HostSound, TerminalAssumption
<1>5. ASSUME NEW t \in Transports PROVE Placed(t) /\ ~Busy(t)
  <2>1. trs[t] = Idle /\ feed[t] = <<>> /\ t \notin attached
    BY DEF Init
  <2>2. ~HasExit(feed[t])
    BY <1>2, <2>1 DEF HasExit
  <2> QED
    BY <1>1, <1>2, <2>1, <2>2 DEF Placed, Busy, Attaching, Resting
<1> QED
  BY <1>3, <1>4, <1>5 DEF Control, OneBusy

LEMMA ControlStep ==
  ASSUME Control, StoredSound, TerminalAssumption, [Next]_vars PROVE Control'
<1>1. CASE UNCHANGED vars
  BY <1>1 DEF vars, calm, Control, Typed, HostSound, OneBusy, Busy, Placed
<1>2. CASE Produce
  BY <1>2, ProduceControl
<1>3. CASE ProcessEnds \/ Reap \/ ExitMissed \/ LeaseLapses \/ MarkGone
  BY <1>3, LifeControl
<1>4. CASE ExitNoticed
  BY <1>4, NoticedControl
<1>5. CASE Prune
  BY <1>5, PruneControl
<1>6. CASE ApiCrash
  BY <1>6, ApiCrashControl
<1>7. CASE HostRestart
  BY <1>7, RestartControl
<1>8. ASSUME NEW t \in Transports, Open(t) \/ AttachStep(t) PROVE Control'
  BY <1>8, OpenControl, InspectControl, CursorControl, SpawnedControl, AttachedControl, TailControl,
     RefusedControl, ReadyControl DEF AttachStep
<1>9. ASSUME NEW t \in Transports, OutputStep(t) \/ StoreFails(t) \/ Retry(t) \/ Leave(t) PROVE Control'
  BY <1>9, OutputControl, ExitControl, FlushControl, StoreControl, DetachControl, FinishControl,
     LeaveControl DEF OutputStep
<1> QED
  BY <1>1, <1>2, <1>3, <1>4, <1>5, <1>6, <1>7, <1>8, <1>9 DEF Next, HostWork

LEMMA ControlIsTyped ==
  ASSUME Control, TerminalAssumption PROVE TypeOK
<1>1. Typed /\ HostSound /\ host.gen \in Nat
  BY DEF Control, Typed, Hosts
<1>2. ASSUME NEW t \in Transports
      PROVE  /\ trs[t].pc \in Attaching \cup Listening \cup {"idle", "ready", "lost", "ended"}
             /\ trs[t].gen \in 0 .. host.gen
             /\ trs[t].batch \in Seq(Batch) /\ Len(trs[t].batch) <= 1
             /\ trs[t].queue \in Seq(Batch)
             /\ feed[t] \in Seq(Sequence \cup {Exit})
  <2>1. Placed(t) /\ trs[t].gen \in 0 .. MaxGenerations
    BY <1>1, TransportFields DEF Control
  <2>2. Len(trs[t].batch) <= 1 /\ trs[t].gen \in 0 .. host.gen
    BY <1>1, <2>1 DEF Placed, TerminalAssumption
  <2> QED
    BY <1>1, <2>2, TransportFields DEF Places
<1> QED
  BY <1>1, <1>2 DEF TypeOK, Typed, Hosts, HostSound, Chunk

-----------------------------------------------------------------------------
(* What is recorded as ended is over *)

LEMMA EndedInit == ASSUME Init PROVE EndedIsOver
BY DEF Init, EndedIsOver, NoSession

(* A step that ends no session in the database and attaches nobody. *)
LEMMA EndedKept ==
  ASSUME EndedIsOver, row' \in {row, "RUNNING"}, host'.alive => host.alive,
         troubles \subseteq troubles', attached' \subseteq attached,
         attached' = {} \/ \A t \in Transports : trs[t].pc = "ready" => trs'[t].pc = "ready"
  PROVE  EndedIsOver'
BY DEF EndedIsOver

LEMMA EndedStep ==
  ASSUME Control, TerminalAssumption, EndedIsOver, [Next]_vars PROVE EndedIsOver'
<1>1. Typed /\ HostSound
  BY DEF Control
<1>2. CASE UNCHANGED vars
  BY <1>2 DEF vars, calm, EndedIsOver
<1>3. CASE Produce \/ ProcessEnds \/ HostWork \/ ExitMissed \/ Prune
  <2>1. /\ trs' = trs /\ attached' \subseteq attached /\ row' = row /\ troubles' = troubles
        /\ host'.alive => host.alive
    <3>1. CASE Produce
      BY <1>1, <3>1 DEF Produce, calm, Typed, Hosts
    <3>2. CASE ProcessEnds \/ Reap \/ LeaseLapses \/ MarkGone \/ ExitMissed
      BY <1>1, <3>2 DEF ProcessEnds, Reap, LeaseLapses, MarkGone, ExitMissed, calm, Typed, Hosts
    <3>3. CASE ExitNoticed
      BY <1>1, <3>3 DEF ExitNoticed, calm, Typed, Hosts
    <3>4. CASE Prune
      BY <1>1, <3>4 DEF Prune, NoSession, calm, Typed, Hosts
    <3> QED
      BY <1>3, <3>1, <3>2, <3>3, <3>4 DEF HostWork
  <2> QED
    BY <2>1, EndedKept
<1>4. CASE ApiCrash \/ HostRestart
  <2>1. attached' = {}
    BY <1>1, <1>4 DEF ApiCrash, Detached, HostRestart, Typed
  <2> QED
    BY <2>1 DEF EndedIsOver
<1>5. ASSUME NEW t \in Transports, Spawned(t) \/ Attached(t) PROVE EndedIsOver'
  <2>1. \E g : trs' = [trs EXCEPT ![t] = Readied(g)]
    BY <1>5 DEF Spawned, Attached, Readied
  <2>2. \A g : Readied(g).pc = "ready"
    BY DEF Readied, Idle
  <2>3. trs'[t].pc = "ready"
    BY <1>1, <2>1, <2>2 DEF Typed
  <2> QED
    BY <2>3 DEF EndedIsOver
<1>6. ASSUME NEW t \in Transports, Ready(t) PROVE EndedIsOver'
  BY <1>6 DEF Ready, EndedIsOver
<1>7. ASSUME NEW t \in Transports, InspectEnded(t) PROVE EndedIsOver'
  BY <1>1, <1>7 DEF InspectEnded, EndedIsOver, HostSound
<1>8. ASSUME NEW t \in Transports, Finish(t) PROVE EndedIsOver'
  <2>1. host' = host /\ attached' = attached /\ troubles \subseteq troubles'
        /\ \A u \in Transports : trs[u].pc = "ready" => trs'[u].pc = "ready"
    BY <1>1, <1>8 DEF Finish, Typed
  <2>2. CASE row' = row
    BY <2>1, <2>2, EndedKept
  <2>3. CASE row' # row
    <3>1. trs[t].pc = "ended"
      BY <1>8, <2>3 DEF Finish
    <3>2. trs[t].gen # host.gen => "late" \in troubles'
      BY <1>8, <3>1 DEF Finish
    <3>3. trs[t].gen = host.gen => ~host.alive
      BY <1>1, <3>1 DEF Control, Placed, HostSound
    <3> QED
      BY <2>1, <3>2, <3>3 DEF EndedIsOver
  <2> QED
    BY <2>2, <2>3
<1>9. ASSUME NEW t \in Transports,
             Open(t) \/ InspectNone(t) \/ InspectRunning(t) \/ ReadCursor(t) \/ AttachToTail(t)
               \/ AttachRefused(t)
      PROVE  EndedIsOver'
  <2>1. host' = host /\ attached' = attached /\ row' = row /\ troubles \subseteq troubles'
    BY <1>9 DEF Open, InspectNone, InspectRunning, ReadCursor, AttachToTail, AttachRefused, calm
  <2>2. trs[t].pc # "ready" /\ \A u \in Transports \ {t} : trs'[u] = trs[u]
    BY <1>1, <1>9 DEF Open, InspectNone, InspectRunning, ReadCursor, AttachToTail, AttachRefused,
         Typed, Idle
  <2> QED
    BY <2>1, <2>2, EndedKept
<1>10. ASSUME NEW t \in Transports,
              Output(t) \/ ExitHandled(t) \/ Detach(t) \/ Leave(t)
       PROVE  EndedIsOver'
  <2>1. host'.alive = host.alive /\ attached' \subseteq attached /\ row' = row /\ troubles' = troubles
    BY <1>1, <1>10 DEF Output, ExitHandled, Detach, Detached, Leave, calm, Typed, Hosts
  <2>2. trs[t].pc # "ready" /\ \A u \in Transports \ {t} : trs'[u] = trs[u]
    BY <1>1, <1>10 DEF Output, ExitHandled, Detach, Leave, Typed, Listening
  <2> QED
    BY <2>1, <2>2, EndedKept
<1>11. ASSUME NEW t \in Transports, Flush(t) \/ Retry(t) \/ Store(t) \/ StoreFails(t)
       PROVE  EndedIsOver'
  <2>1. host' = host /\ attached' = attached /\ row' = row /\ troubles' = troubles
    BY <1>11 DEF Flush, Retry, Store, StoreFails, calm
  <2>2. trs[t] \in Transport /\ \A u \in Transports \ {t} : trs'[u] = trs[u]
    BY <1>1, <1>11, TransportFields DEF Flush, Retry, Store, StoreFails, Typed
  <2>3. trs[t].pc = "ready" => trs'[t].pc = "ready"
    <3>1. CASE Flush(t) \/ Retry(t)
      <4>1. trs' = [trs EXCEPT ![t] = Flushed(trs[t])]
        BY <3>1 DEF Flush, Retry
      <4>2. trs'[t] = Flushed(trs[t])
        BY <1>1, <4>1 DEF Typed
      <4>3. Flushed(trs[t]).pc = trs[t].pc
        BY <2>2, FlushedTyped
      <4> QED
        BY ONLY <4>2, <4>3
    <3>2. CASE Store(t)
      BY <1>1, <2>2, <3>2 DEF Store, Typed, Transport
    <3>3. CASE StoreFails(t)
      BY <1>1, <2>2, <3>3 DEF StoreFails, AfterFailure, Typed, Transport
    <3> QED
      BY <1>11, <3>1, <3>2, <3>3
  <2> QED
    BY <2>1, <2>2, <2>3, EndedKept
<1> QED
  BY <1>2, <1>3, <1>4, <1>5, <1>6, <1>7, <1>8, <1>9, <1>10, <1>11 DEF Next, AttachStep, OutputStep

-----------------------------------------------------------------------------
(* The output a transport holds *)

(* The batches q cover a .. b - 1 without a gap. *)
Spans(q, a, b) ==
  /\ q = <<>> => a = b
  /\ q # <<>> => q[1].lo = a /\ q[Len(q)].hi + 1 = b
  /\ \A i \in 1 .. Len(q) : q[i].lo <= q[i].hi /\ q[i].hi < b
  /\ \A i \in 1 .. Len(q) - 1 : q[i + 1].lo = q[i].hi + 1

(* The feed f is c .. e - 1, perhaps with the exit behind it. *)
FeedSpans(f, c, e) ==
  /\ c <= e /\ Len(f) \in {e - c, e - c + 1}
  /\ \A i \in 1 .. Len(f) : f[i] = IF i <= e - c THEN c + i - 1 ELSE Exit

LEMMA SpansOrdered ==
  ASSUME NEW q \in Seq(Batch), NEW a \in Nat, NEW b \in Nat, Spans(q, a, b) PROVE a <= b
<1>1. CASE q = <<>>
  BY <1>1 DEF Spans
<1>2. CASE q # <<>>
  <2>1. 1 \in 1 .. Len(q) /\ q[1] \in Batch
    BY <1>2, EmptySeq, LenProperties, ElementOfSeq
  <2>2. q[1].lo = a /\ q[1].lo <= q[1].hi /\ q[1].hi < b /\ q[1].hi \in Int
    BY <1>2, <2>1 DEF Spans, Batch, Sequence
  <2> QED
    BY <2>2
<1> QED
  BY <1>1, <1>2

LEMMA SpansNothing == ASSUME NEW a PROVE Spans(<<>>, a, a) /\ Len(<<>>) = 0
<1>1. Len(<<>>) = 0
  BY EmptySeq
<1> QED
  BY <1>1 DEF Spans

LEMMA EmptyLen ==
  ASSUME NEW S, NEW q \in Seq(S) PROVE Len(q) \in Nat /\ (q = <<>> <=> Len(q) = 0)
<1>1. Len(q) \in Nat
  BY LenProperties
<1> QED
  BY <1>1, EmptySeq

LEMMA SpansTail ==
  ASSUME NEW q \in Seq(Batch), q # <<>>, NEW a \in Nat, NEW b \in Nat, Spans(q, a, b),
         MaxOutput \in Nat
  PROVE  /\ q[1] \in Batch /\ q[1].lo = a /\ q[1].lo <= q[1].hi /\ q[1].hi < b
         /\ q[1].hi + 1 \in 0 .. MaxOutput
         /\ Tail(q) \in Seq(Batch) /\ Spans(Tail(q), q[1].hi + 1, b)
<1>1. Len(q) \in Nat /\ Len(q) >= 1 /\ 1 \in 1 .. Len(q) /\ q[1] \in Batch
  <2>1. Len(q) \in Nat /\ Len(q) # 0
    BY EmptyLen
  <2>2. Len(q) >= 1 /\ 1 \in 1 .. Len(q)
    BY <2>1
  <2> QED
    BY <2>1, <2>2, ElementOfSeq
<1>2. q[1].lo = a /\ q[1].lo <= q[1].hi /\ q[1].hi < b
  BY <1>1 DEF Spans
<1>3. /\ Tail(q) \in Seq(Batch) /\ Len(Tail(q)) = Len(q) - 1
      /\ \A i \in 1 .. Len(q) - 1 : Tail(q)[i] = q[i + 1]
  BY HeadTailProperties
<1>4. q[1].hi + 1 \in 0 .. MaxOutput
  BY <1>1 DEF Batch, Sequence
<1>5. CASE Len(q) = 1
  <2>1. Tail(q) = <<>>
    <3>1. Len(Tail(q)) = 0
      BY <1>3, <1>5
    <3> QED
      BY <1>3, <3>1, EmptyLen
  <2>2. q[1].hi + 1 = b
    BY <1>5 DEF Spans
  <2>3. Spans(Tail(q), q[1].hi + 1, b)
    BY <2>1, <2>2, SpansNothing
  <2> QED
    BY <1>1, <1>2, <1>3, <1>4, <2>3
<1>6. CASE Len(q) > 1
  <2>0. Len(q) - 1 \in 1 .. Len(q) - 1 /\ 1 \in 1 .. Len(q) - 1 /\ Len(Tail(q)) # 0
    BY <1>1, <1>3, <1>6
  <2>1. Tail(q) # <<>>
    BY <1>3, <2>0, EmptyLen
  <2>2. Tail(q)[1].lo = q[1].hi + 1 /\ Tail(q)[Len(Tail(q))].hi + 1 = b
    BY <1>1, <1>3, <2>0 DEF Spans
  <2>3. \A i \in 1 .. Len(Tail(q)) : Tail(q)[i].lo <= Tail(q)[i].hi /\ Tail(q)[i].hi < b
    BY <1>1, <1>3 DEF Spans
  <2>4. \A i \in 1 .. Len(Tail(q)) - 1 : Tail(q)[i + 1].lo = Tail(q)[i].hi + 1
    <3> TAKE i \in 1 .. Len(Tail(q)) - 1
    <3>1. i \in 1 .. Len(q) - 1 /\ i + 1 \in 1 .. Len(q) - 1
      BY <1>1, <1>3
    <3>2. Tail(q)[i] = q[i + 1] /\ Tail(q)[i + 1] = q[i + 1 + 1]
      BY <1>3, <3>1
    <3> QED
      BY <3>1, <3>2 DEF Spans
  <2>5. Spans(Tail(q), q[1].hi + 1, b)
    BY <2>1, <2>2, <2>3, <2>4 DEF Spans
  <2> QED
    BY <1>1, <1>2, <1>3, <1>4, <2>5
<1>7. Len(q) = 1 \/ Len(q) > 1
  <2> DEFINE n == Len(q)
  <2>1. n \in Nat /\ n >= 1
    BY <1>1
  <2> HIDE DEF n
  <2>2. n = 1 \/ n > 1
    BY <2>1
  <2> QED
    BY <2>2 DEF n
<1> QED
  BY <1>5, <1>6, <1>7

(* The k elements of s are the m elements of q, then those of r. *)
Joins(q, r, s, m, k) == \A i \in 1 .. k : s[i] = IF i <= m THEN q[i] ELSE r[i - m]

LEMMA SpansJoined ==
  ASSUME NEW q \in Seq(Batch), NEW r \in Seq(Batch), NEW s \in Seq(Batch),
         NEW m \in Nat, NEW n \in Nat, NEW k \in Nat, m >= 1, n >= 1, k = m + n,
         Len(q) = m, Len(r) = n, Len(s) = k,
         Joins(q, r, s, m, k),
         NEW a \in Nat, NEW b \in Nat, NEW c \in Nat, Spans(q, a, b), Spans(r, b, c)
  PROVE  Spans(s, a, c)
<1>1. q # <<>> /\ r # <<>> /\ s # <<>>
  BY EmptyLen
<1>2. \A i \in 1 .. m : q[i] \in Batch
  BY ElementOfSeq
<1>3. /\ q[1].lo = a /\ q[m].hi + 1 = b /\ r[1].lo = b /\ r[n].hi + 1 = c
      /\ \A i \in 1 .. m : q[i].lo <= q[i].hi /\ q[i].hi < b
      /\ \A i \in 1 .. n : r[i].lo <= r[i].hi /\ r[i].hi < c
      /\ \A i \in 1 .. m - 1 : q[i + 1].lo = q[i].hi + 1
      /\ \A i \in 1 .. n - 1 : r[i + 1].lo = r[i].hi + 1
  BY <1>1 DEF Spans
<1>4. b <= c
  BY SpansOrdered
<1>5. s[1] = q[1] /\ s[k] = r[n]
  <2>1. 1 \in 1 .. k /\ k \in 1 .. k /\ 1 <= m /\ ~(k <= m) /\ k - m = n
    OBVIOUS
  <2>2. s[1] = q[1] /\ s[k] = r[k - m]
    BY <2>1 DEF Joins
  <2> QED
    BY <2>1, <2>2
<1>6. \A i \in 1 .. k : s[i].lo <= s[i].hi /\ s[i].hi < c
  <2> TAKE i \in 1 .. k
  <2>1. CASE i <= m
    <3>1. i \in 1 .. m /\ s[i] = q[i] /\ q[i] \in Batch
      BY <1>2, <2>1 DEF Joins
    <3>2. q[i].hi \in Int
      BY <3>1 DEF Batch, Sequence
    <3> QED
      BY <1>3, <1>4, <3>1, <3>2
  <2>2. CASE i > m
    <3>1. i - m \in 1 .. n /\ s[i] = r[i - m]
      BY <2>2 DEF Joins
    <3> QED
      BY <1>3, <3>1
  <2> QED
    BY <2>1, <2>2
<1>7. \A i \in 1 .. k - 1 : s[i + 1].lo = s[i].hi + 1
  <2> TAKE i \in 1 .. k - 1
  <2>1. i \in 1 .. k /\ i + 1 \in 1 .. k
    OBVIOUS
  <2>2. CASE i < m
    <3>1. i \in 1 .. m - 1 /\ s[i] = q[i] /\ s[i + 1] = q[i + 1]
      BY <2>1, <2>2 DEF Joins
    <3> QED
      BY <1>3, <3>1
  <2>3. CASE i = m
    <3>1. s[i] = q[i] /\ s[i + 1] = r[i + 1 - m]
      <4>1. i <= m /\ ~(i + 1 <= m)
        BY <2>3
      <4> QED
        BY <2>1, <4>1 DEF Joins
    <3>2. i + 1 - m = 1
      BY <2>3
    <3> QED
      BY <1>3, <2>3, <3>1, <3>2
  <2>4. CASE i > m
    <3>1. i - m \in 1 .. n - 1 /\ s[i] = r[i - m] /\ s[i + 1] = r[i + 1 - m] /\ i + 1 - m = (i - m) + 1
      BY <2>1, <2>4 DEF Joins
    <3> QED
      BY <1>3, <3>1
  <2> QED
    BY <2>2, <2>3, <2>4
<1> QED
  BY <1>1, <1>3, <1>5, <1>6, <1>7 DEF Spans

LEMMA SpansConcat ==
  ASSUME NEW q \in Seq(Batch), NEW r \in Seq(Batch), NEW a \in Nat, NEW b \in Nat, NEW c \in Nat,
         Spans(q, a, b), Spans(r, b, c)
  PROVE  Spans(q \o r, a, c)
<1>1. CASE r = <<>>
  <2>1. q \o r = q /\ b = c
    BY <1>1, ConcatEmptySeq DEF Spans
  <2> QED
    BY <2>1
<1>2. CASE q = <<>>
  <2>1. q \o r = r /\ a = b
    BY <1>2, ConcatEmptySeq DEF Spans
  <2> QED
    BY <2>1
<1>3. CASE q # <<>> /\ r # <<>>
  <2>1. Len(q) \in Nat /\ Len(q) # 0 /\ Len(r) \in Nat /\ Len(r) # 0
    BY <1>3, EmptyLen
  <2>2. Len(q) >= 1 /\ Len(r) >= 1 /\ Len(q) + Len(r) \in Nat
    BY <2>1
  <2>3. /\ q \o r \in Seq(Batch) /\ Len(q \o r) = Len(q) + Len(r)
        /\ \A i \in 1 .. Len(q) + Len(r) : (q \o r)[i] = IF i <= Len(q) THEN q[i] ELSE r[i - Len(q)]
    BY ConcatProperties
  <2>4. PICK s, m, n, k : s = q \o r /\ m = Len(q) /\ n = Len(r) /\ k = m + n
    OBVIOUS
  <2>5. /\ s \in Seq(Batch) /\ m \in Nat /\ n \in Nat /\ k \in Nat /\ m >= 1 /\ n >= 1
        /\ Len(s) = k /\ Len(q) = m /\ Len(r) = n /\ k = m + n
    BY <2>1, <2>2, <2>3, <2>4
  <2>6. Joins(q, r, s, m, k)
    BY <2>3, <2>4 DEF Joins
  <2>7. Spans(s, a, c)
    BY <2>5, <2>6, SpansJoined
  <2> QED
    BY <2>4, <2>7
<1> QED
  BY <1>1, <1>2, <1>3

LEMMA FeedNothing == ASSUME NEW c \in Int PROVE FeedSpans(<<>>, c, c)
<1>1. Len(<<>>) = 0
  BY EmptySeq
<1> QED
  BY <1>1 DEF FeedSpans

LEMMA FeedHead ==
  ASSUME NEW f \in Seq(Sequence \cup {Exit}), f # <<>>, NEW c \in Nat, NEW e \in Nat,
         FeedSpans(f, c, e), Head(f) # Exit
  PROVE  Head(f) = c /\ c + 1 <= e /\ FeedSpans(Tail(f), c + 1, e)
<1>1. PICK n : n = Len(f)
  OBVIOUS
<1>2. n \in Nat /\ n # 0
  BY <1>1, EmptyLen
<1>3. /\ c <= e /\ n \in {e - c, e - c + 1}
      /\ \A i \in 1 .. n : f[i] = IF i <= e - c THEN c + i - 1 ELSE Exit
  BY <1>1 DEF FeedSpans
<1>4. PICK g : g = Tail(f)
  OBVIOUS
<1>5. Len(g) = n - 1 /\ \A i \in 1 .. Len(g) : g[i] = f[i + 1]
  BY <1>1, <1>4, HeadTailProperties
<1>6. Head(f) = f[1]
  OBVIOUS
<1>7. 1 <= e - c /\ f[1] = c
  <2>1. 1 \in 1 .. n
    BY <1>2
  <2>2. f[1] = IF 1 <= e - c THEN c + 1 - 1 ELSE Exit
    BY <1>3, <2>1
  <2>3. c + 1 - 1 = c
    OBVIOUS
  <2> QED
    BY <1>6, <2>2, <2>3
<1>8. FeedSpans(g, c + 1, e)
  <2>1. c + 1 <= e /\ Len(g) \in {e - (c + 1), e - (c + 1) + 1}
    BY <1>2, <1>3, <1>5, <1>7
  <2>2. \A i \in 1 .. Len(g) : g[i] = IF i <= e - (c + 1) THEN (c + 1) + i - 1 ELSE Exit
    <3> TAKE i \in 1 .. Len(g)
    <3>1. i \in Int /\ i + 1 \in 1 .. n
      BY <1>2, <1>5
    <3>2. g[i] = IF i + 1 <= e - c THEN c + (i + 1) - 1 ELSE Exit
      BY <1>3, <1>5, <3>1
    <3>3. (i + 1 <= e - c <=> i <= e - (c + 1)) /\ c + (i + 1) - 1 = (c + 1) + i - 1
      BY <3>1
    <3> QED
      BY <3>2, <3>3
  <2> QED
    BY <2>1, <2>2 DEF FeedSpans
<1> QED
  BY <1>4, <1>6, <1>7, <1>8

(* The next output, or the exit, behind a feed without an exit. *)
LEMMA FeedAppend ==
  ASSUME NEW f \in Seq(Sequence \cup {Exit}), NEW c \in Nat, NEW e \in Nat,
         FeedSpans(f, c, e), ~HasExit(f)
  PROVE  /\ FeedSpans(Append(f, e), c, e + 1)
         /\ FeedSpans(Append(f, Exit), c, e)
<1>1. PICK n : n = Len(f)
  OBVIOUS
<1>2. n \in Nat
  BY <1>1, EmptyLen
<1>3. /\ c <= e /\ n \in {e - c, e - c + 1}
      /\ \A i \in 1 .. n : f[i] = IF i <= e - c THEN c + i - 1 ELSE Exit
  BY <1>1 DEF FeedSpans
<1>4. n = e - c
  <2>1. SUFFICES ASSUME n = e - c + 1 PROVE FALSE
    BY <1>3
  <2>2. n \in 1 .. n /\ ~(n <= e - c)
    BY <1>2, <1>3, <2>1
  <2>3. f[n] = Exit
    BY <1>3, <2>2
  <2> QED
    BY <1>1, <2>2, <2>3 DEF HasExit
<1>5. ASSUME NEW x, x = e \/ x = Exit
      PROVE  Len(Append(f, x)) = n + 1 /\ Append(f, x)[n + 1] = x
             /\ \A i \in 1 .. n : Append(f, x)[i] = c + i - 1
  <2>1. f \in Seq(Sequence \cup {Exit} \cup {x}) /\ x \in Sequence \cup {Exit} \cup {x}
    BY SeqMonotonic
  <2>2. /\ Len(Append(f, x)) = n + 1 /\ Append(f, x)[n + 1] = x
        /\ \A i \in 1 .. n : Append(f, x)[i] = f[i]
    BY <1>1, <2>1, AppendProperties
  <2>3. \A i \in 1 .. n : f[i] = c + i - 1
    BY <1>3, <1>4
  <2> QED
    BY <2>2, <2>3
<1>6. FeedSpans(Append(f, e), c, e + 1)
  <2>1. PICK g : g = Append(f, e)
    OBVIOUS
  <2>2. Len(g) = n + 1 /\ g[n + 1] = e /\ \A i \in 1 .. n : g[i] = c + i - 1
    BY <1>5, <2>1
  <2>3. c <= e + 1 /\ n + 1 = e + 1 - c
    BY <1>2, <1>3, <1>4
  <2>4. \A i \in 1 .. n + 1 : g[i] = c + i - 1 /\ i <= e + 1 - c
    <3> TAKE i \in 1 .. n + 1
    <3>1. CASE i = n + 1
      <4>1. c + i - 1 = e /\ i <= e + 1 - c
        BY <1>2, <1>4, <3>1
      <4> QED
        BY <2>2, <3>1, <4>1
    <3>2. CASE i # n + 1
      <4>1. i \in 1 .. n /\ i <= e + 1 - c
        BY <1>2, <1>4, <3>2
      <4> QED
        BY <2>2, <4>1
    <3> QED
      BY <3>1, <3>2
  <2>5. FeedSpans(g, c, e + 1)
    BY <2>2, <2>3, <2>4 DEF FeedSpans
  <2> QED
    BY <2>1, <2>5
<1>7. FeedSpans(Append(f, Exit), c, e)
  <2>1. PICK g : g = Append(f, Exit)
    OBVIOUS
  <2>2. Len(g) = n + 1 /\ g[n + 1] = Exit /\ \A i \in 1 .. n : g[i] = c + i - 1
    BY <1>5, <2>1
  <2>3. c <= e /\ n + 1 = e - c + 1
    BY <1>2, <1>3, <1>4
  <2>4. \A i \in 1 .. n + 1 : g[i] = IF i <= e - c THEN c + i - 1 ELSE Exit
    <3> TAKE i \in 1 .. n + 1
    <3>1. CASE i = n + 1
      <4>1. ~(i <= e - c)
        BY <1>2, <1>4, <3>1
      <4> QED
        BY <2>2, <3>1, <4>1
    <3>2. CASE i # n + 1
      <4>1. i \in 1 .. n /\ i <= e - c
        BY <1>2, <1>4, <3>2
      <4> QED
        BY <2>2, <4>1
    <3> QED
      BY <3>1, <3>2
  <2>5. FeedSpans(g, c, e)
    BY <2>2, <2>3, <2>4 DEF FeedSpans
  <2> QED
    BY <2>1, <2>5
<1> QED
  BY <1>6, <1>7

LEMMA ReplaySpans ==
  ASSUME Control, NEW t \in Transports, trs[t].after < host.next
  PROVE  FeedSpans(Replay(t), trs[t].after + 1, host.next)
<1>1. PICK k, n : k = trs[t].after /\ n = host.next - trs[t].after - 1
  OBVIOUS
<1>2. k \in Int /\ host.next \in Nat /\ n \in Nat /\ host.next = k + 1 + n
  BY <1>1, TransportFields DEF Control, Typed, Hosts
<1>3. PICK f : f = [i \in 1 .. n |-> k + i]
  OBVIOUS
<1>4. Replay(t) = f
  BY <1>1, <1>3 DEF Replay
<1>5. Len(f) = n
  BY <1>2, <1>3, CountSeq
<1>6. \A i \in 1 .. n : f[i] = k + i /\ k + i = (k + 1) + i - 1 /\ i <= host.next - (k + 1)
  BY <1>2, <1>3
<1>7. k + 1 <= host.next /\ n = host.next - (k + 1)
  BY <1>2
<1>8. FeedSpans(f, k + 1, host.next)
  BY <1>5, <1>6, <1>7 DEF FeedSpans
<1> QED
  BY <1>1, <1>4, <1>8

(* No output of t's process at or above a is stored, but perhaps the batch  *)
(* whose write failed after its commit.                                     *)
Fresh(t, a) ==
  \A i \in 1 .. Len(stored) : stored[i].gen = trs[t].gen =>
    stored[i].hi < a \/ (trs[t].queue # <<>> /\ stored[i].hi = trs[t].queue[1].hi)

Holding(t) == t \in attached \/ feed[t] # <<>> \/ trs[t].batch # <<>> \/ trs[t].queue # <<>>

(* The queue, the batch and the feed of t continue the settled output up to *)
(* what its process has produced, as long as it is attached to it.          *)
HeldAt(t, a, b, c, e) ==
  /\ Settled(trs[t].gen, a)
  /\ Spans(trs[t].queue, a, b) /\ Spans(trs[t].batch, b, c) /\ FeedSpans(feed[t], c, e)
  /\ t \in attached /\ host.alive => e = host.next
  /\ trs[t].gen = host.gen /\ host.status # "NONE" => e <= host.next
  /\ "overlapped" \notin troubles /\ Holding(t) => Fresh(t, a)

Held(t) == \E a, b, c, e \in 0 .. MaxOutput : HeldAt(t, a, b, c, e)

Cursored(t) == trs[t].pc = "attach" => Settled(trs[t].gen, trs[t].after + 1)

(* Two transports with output, or about to get it, are of different processes. *)
Claims(t) == trs[t].gen # 0 /\ (Holding(t) \/ trs[t].pc \in {"attach", "tail"})

Bounded(t) ==
  \A i \in 1 .. Len(stored) : stored[i].gen = trs[t].gen =>
    /\ trs[t].pc = "attach" => stored[i].hi <= trs[t].after
    /\ trs[t].pc = "tail" => stored[i].hi < host.low - 1

Alone ==
  "overlapped" \notin troubles =>
    /\ \A t, u \in Transports : Claims(t) /\ Claims(u) /\ trs[t].gen = trs[u].gen => t = u
    /\ \A t \in Transports : Bounded(t)

Data == StoredSound /\ Alone /\ \A t \in Transports : Held(t) /\ Cursored(t)

LEMMA DataInit == ASSUME Init, TerminalAssumption PROVE Data /\ StoredOnce
<1>1. stored = <<>> /\ Len(stored) = 0
  BY EmptySeq DEF Init
<1>2. StoredSound
  BY <1>1 DEF StoredSound
<1>3. ASSUME NEW t \in Transports
      PROVE  /\ Held(t) /\ Cursored(t) /\ trs[t].gen = 0 /\ trs[t].pc = "idle"
  <2>1. trs[t] = Idle /\ feed[t] = <<>> /\ t \notin attached
    BY DEF Init
  <2>2. Idle.pc = "idle" /\ Idle.gen = 0 /\ Idle.batch = <<>> /\ Idle.queue = <<>>
    BY DEF Idle
  <2>3. HeldAt(t, 0, 0, 0, 0)
    <3>1. Settled(trs[t].gen, 0)
      BY DEF Settled
    <3>2. host.next = 0
      BY DEF Init, NoSession
    <3> QED
      BY <1>1, <2>1, <2>2, <3>1, <3>2, SpansNothing, FeedNothing DEF HeldAt, Fresh
  <2>4. Held(t)
    BY <2>3 DEF Held, TerminalAssumption
  <2> QED
    BY <2>1, <2>2, <2>4 DEF Cursored
<1>4. Alone
  BY <1>1, <1>3 DEF Alone, Claims, Bounded
<1>5. StoredOnce
  BY <1>1 DEF StoredOnce, Init
<1> QED
  BY <1>2, <1>3, <1>4, <1>5 DEF Data

(* The process there is stays or is followed by another one. *)
HostOn ==
  \A g \in 0 .. host.gen :
    g = host'.gen /\ host'.status # "NONE" =>
      g = host.gen /\ host.status # "NONE" /\ host.next <= host'.next

LEMMA HostKeptOn == ASSUME Typed, HostKept PROVE HostOn
BY DEF Typed, Hosts, HostKept, HostOn

(* What is settled stays so, because stored output stays. *)
SettledStays == \A g, n : Settled(g, n) => Settled(g, n)'

LEMMA SettledGrows ==
  ASSUME Typed, NEW c \in Chunk, stored' \in {stored, Append(stored, c)}, skipped \subseteq skipped'
  PROVE  SettledStays
<1>1. stored \in Seq(Chunk)
  BY DEF Typed
<1>2. Len(stored) \in Nat /\ Len(stored') \in Nat /\ Len(stored) <= Len(stored')
      /\ \A i \in 1 .. Len(stored) : stored'[i] = stored[i]
  <2>1. CASE stored' = stored
    BY <1>1, <2>1, EmptyLen
  <2>2. CASE stored' = Append(stored, c)
    <3>1. Len(stored') = Len(stored) + 1 /\ \A i \in 1 .. Len(stored) : stored'[i] = stored[i]
      BY <1>1, <2>2, AppendProperties
    <3>2. Len(stored) \in Nat
      BY <1>1, EmptyLen
    <3> QED
      BY <3>1, <3>2
  <2> QED
    BY <2>1, <2>2
<1>3. ASSUME NEW g, NEW n, Settled(g, n) PROVE Settled(g, n)'
  <2>1. ASSUME NEW s \in 0 .. n - 1
        PROVE  (\E i \in 1 .. Len(stored') : stored'[i].gen = g /\ s \in stored'[i].lo .. stored'[i].hi)
               \/ <<g, s>> \in skipped'
    <3>1. CASE \E i \in 1 .. Len(stored) : stored[i].gen = g /\ s \in stored[i].lo .. stored[i].hi
      <4>1. PICK i \in 1 .. Len(stored) : stored[i].gen = g /\ s \in stored[i].lo .. stored[i].hi
        BY <3>1
      <4>2. i \in 1 .. Len(stored') /\ stored'[i] = stored[i]
        BY <1>2
      <4> QED
        BY <4>1, <4>2
    <3>2. CASE <<g, s>> \in skipped
      BY <3>2
    <3> QED
      BY <1>3, <3>1, <3>2 DEF Settled
  <2> QED
    BY <2>1 DEF Settled
<1> QED
  BY <1>3 DEF SettledStays

LEMMA SettledSame == ASSUME stored' = stored, skipped \subseteq skipped' PROVE SettledStays
BY DEF SettledStays, Settled

(* A transport that holds and receives what it did, or is left by its host. *)
Same(u) ==
  /\ trs'[u].gen = trs[u].gen /\ trs'[u].queue = trs[u].queue /\ trs'[u].batch = trs[u].batch
  /\ feed'[u] = feed[u]
  /\ u \in attached' => u \in attached
  /\ u \in attached' /\ host'.alive => host.alive /\ host'.next = host.next

LEMMA HeldSame ==
  ASSUME Control, NEW u \in Transports, Held(u), Same(u), HostOn, SettledStays,
         troubles \subseteq troubles', host' \in Hosts,
         \A a : "overlapped" \notin troubles' /\ Holding(u) /\ Fresh(u, a) => Fresh(u, a)'
  PROVE  Held(u)'
<1>1. PICK a, b, c, e \in 0 .. MaxOutput : HeldAt(u, a, b, c, e)
  BY DEF Held
<1>2. Settled(trs[u].gen, a)'
  <2>1. Settled(trs[u].gen, a)
    BY <1>1 DEF HeldAt
  <2>2. \A g, n : Settled(g, n) => Settled(g, n)'
    BY DEF SettledStays
  <2>3. trs'[u].gen = trs[u].gen
    BY DEF Same
  <2> QED
    BY <2>1, <2>2, <2>3 DEF Settled
<1>3. /\ Spans(trs'[u].queue, a, b) /\ Spans(trs'[u].batch, b, c) /\ FeedSpans(feed'[u], c, e)
  BY <1>1 DEF HeldAt, Same
<1>4. u \in attached' /\ host'.alive => e = host'.next
  BY <1>1 DEF HeldAt, Same
<1>5. trs'[u].gen = host'.gen /\ host'.status # "NONE" => e <= host'.next
  <2>1. trs[u].gen \in 0 .. host.gen
    BY TransportFields DEF Control, Typed, Hosts, Placed
  <2>2. host.next \in Nat /\ host'.next \in Nat
    BY DEF Control, Typed, Hosts
  <2>3. trs'[u].gen = trs[u].gen
    BY DEF Same
  <2> QED
    BY <1>1, <2>1, <2>2, <2>3 DEF HeldAt, HostOn
<1>6. "overlapped" \notin troubles' /\ Holding(u)' => Fresh(u, a)'
  <2>1. Holding(u)' => Holding(u)
    BY DEF Holding, Same
  <2> QED
    BY <1>1, <2>1 DEF HeldAt
<1>7. HeldAt(u, a, b, c, e)'
  BY <1>2, <1>3, <1>4, <1>5, <1>6 DEF HeldAt
<1> QED
  BY <1>7 DEF Held

LEMMA HeldEmpty ==
  ASSUME TerminalAssumption, Control', NEW t \in Transports,
         trs'[t].queue = <<>>, trs'[t].batch = <<>>, feed'[t] = <<>>,
         ~(t \in attached' /\ host'.alive), trs'[t].gen = 0 \/ t \notin attached'
  PROVE  Held(t)'
<1>1. Settled(trs[t].gen, 0)'
  BY DEF Settled
<1>2. host'.next \in Nat
  BY DEF Control, Typed, Hosts
<1>3. Holding(t)' => Fresh(t, 0)'
  <2>1. CASE t \notin attached'
    BY <2>1 DEF Holding
  <2>2. CASE trs'[t].gen = 0
    <3>1. stored' \in Seq(Chunk)
      BY DEF Control, Typed
    <3>2. ASSUME NEW i \in 1 .. Len(stored') PROVE stored'[i].gen # 0
      <4>1. stored'[i] \in Chunk
        BY <3>1, ElementOfSeq
      <4> QED
        BY <4>1 DEF Chunk
    <3> QED
      BY <2>2, <3>2 DEF Fresh
  <2> QED
    BY <2>1, <2>2
<1>4. Spans(trs'[t].queue, 0, 0) /\ Spans(trs'[t].batch, 0, 0) /\ FeedSpans(feed'[t], 0, 0)
  BY SpansNothing, FeedNothing
<1>5. HeldAt(t, 0, 0, 0, 0)'
  BY <1>1, <1>2, <1>3, <1>4 DEF HeldAt
<1> QED
  BY <1>5 DEF Held, TerminalAssumption
(* The steps that store nothing: those of S change, the others hold what they did. *)
Untouched(u) ==
  /\ Same(u)
  /\ trs'[u].pc \in {"attach", "tail"} =>
       trs'[u].pc = trs[u].pc /\ trs'[u].after = trs[u].after /\ host'.low >= host.low

LEMMA BoundedUntouched ==
  ASSUME TerminalAssumption, Typed, host' \in Hosts, NEW u \in Transports, Untouched(u), stored' = stored, Bounded(u)
  PROVE  Bounded(u)'
<1>1. ASSUME NEW i \in 1 .. Len(stored) PROVE stored[i].hi \in Int
  <2>1. stored[i] \in Chunk
    BY ElementOfSeq DEF Typed
  <2> QED
    BY <2>1 DEF Chunk, Sequence, TerminalAssumption
<1>2. host.low \in Int /\ host'.low \in Int
  BY DEF Typed, Hosts
<1> QED
  BY <1>1, <1>2 DEF Bounded, Untouched, Same

LEMMA SoundStays ==
  ASSUME TerminalAssumption, Control, StoredSound, HostOn, SettledStays, stored' = stored, host' \in Hosts,
         host'.gen >= host.gen
  PROVE  StoredSound'
<1> SUFFICES ASSUME NEW i \in 1 .. Len(stored)
             PROVE  /\ stored[i].gen <= host'.gen
                    /\ Settled(stored[i].gen, stored[i].hi + 1)'
                    /\ stored[i].gen = host'.gen /\ host'.status # "NONE" => stored[i].hi < host'.next
  BY DEF StoredSound
<1>1. stored[i] \in Chunk
  BY ElementOfSeq DEF Control, Typed
<1>2. stored[i].gen \in Nat /\ stored[i].hi \in Int /\ host.gen \in Nat /\ host'.gen \in Nat
      /\ host.next \in Nat /\ host'.next \in Nat
  <2>1. stored[i].gen \in Nat /\ stored[i].hi \in Int
    BY <1>1 DEF Chunk, Sequence, TerminalAssumption
  <2>2. host.gen \in Nat /\ host'.gen \in Nat /\ host.next \in Nat /\ host'.next \in Nat
    BY DEF Control, Typed, Hosts
  <2> QED
    BY <2>1, <2>2
<1>3. stored[i].gen <= host.gen /\ Settled(stored[i].gen, stored[i].hi + 1)
      /\ (stored[i].gen = host.gen /\ host.status # "NONE" => stored[i].hi < host.next)
  BY DEF StoredSound
<1>4. Settled(stored[i].gen, stored[i].hi + 1)'
  <2>1. \A g, n : Settled(g, n) => Settled(g, n)'
    BY DEF SettledStays
  <2>2. stored'[i] = stored[i]
    OBVIOUS
  <2> QED
    BY <1>3, <2>1, <2>2
<1>5. stored[i].gen = host'.gen /\ host'.status # "NONE" => stored[i].hi < host'.next
  <2>1. stored[i].gen \in 0 .. host.gen
    BY <1>2, <1>3
  <2> QED
    BY <1>2, <1>3, <2>1 DEF HostOn
<1> QED
  BY <1>2, <1>3, <1>4, <1>5

(* A transport claims no process it did not claim, or no other claims it. *)
Claimable(u) ==
  \/ Claims(u)' => Claims(u) /\ trs'[u].gen = trs[u].gen
  \/ "overlapped" \in troubles'
  \/ \A v \in Transports \ {u} : Claims(v)' => trs'[v].gen # trs'[u].gen

LEMMA DataFrame ==
  ASSUME TerminalAssumption, Control, Control', Data, HostOn, SettledStays, troubles \subseteq troubles',
         stored' = stored, host'.gen >= host.gen, NEW S \in SUBSET Transports,
         \A u \in Transports \ S : Untouched(u),
         \A u \in S : Held(u)' /\ Cursored(u)' /\ ("overlapped" \notin troubles' => Bounded(u)'),
         \A u \in S : Claimable(u)
  PROVE  Data'
<1>1. host' \in Hosts /\ Typed
  BY DEF Control, Typed
<1>2. StoredSound'
  BY <1>1, SoundStays DEF Data
<1>3. ASSUME NEW u \in Transports 
      PROVE  Held(u)' /\ Cursored(u)' /\ ("overlapped" \notin troubles' /\ Bounded(u) => Bounded(u)')
  <2>1. CASE u \in S
    BY <2>1
  <2>2. CASE u \notin S
    <3>1. Untouched(u) /\ Same(u)
      BY <2>2 DEF Untouched
    <3>2. Held(u) /\ Cursored(u)
      BY DEF Data
    <3>3. \A a : Fresh(u, a) => Fresh(u, a)'
      BY <3>1 DEF Fresh, Same
    <3>4. Held(u)'
      BY <1>1, <3>1, <3>2, <3>3, HeldSame
    <3>5. Cursored(u)'
      <4>1. CASE trs'[u].pc = "attach"
        <5>1. Settled(trs[u].gen, trs[u].after + 1)
          BY <3>1, <3>2, <4>1 DEF Cursored, Untouched
        <5>2. \A g, n : Settled(g, n) => Settled(g, n)'
          BY DEF SettledStays
        <5>3. trs'[u].gen = trs[u].gen /\ trs'[u].after = trs[u].after
          BY <3>1, <4>1 DEF Untouched, Same
        <5> QED
          BY <5>1, <5>2, <5>3 DEF Cursored, Settled
      <4> QED
        BY <4>1 DEF Cursored
    <3> QED
      BY <1>1, <3>1, <3>4, <3>5, BoundedUntouched
  <2> QED
    BY <2>1, <2>2
<1>4. ASSUME NEW u \in Transports PROVE Claimable(u)
  <2>1. CASE u \in S
    BY <2>1
  <2>2. CASE u \notin S
    <3>1. Untouched(u)
      BY <2>2
    <3> QED
      BY <3>1 DEF Claimable, Untouched, Same, Claims, Holding
  <2> QED
    BY <2>1, <2>2
<1>5. ASSUME "overlapped" \notin troubles', NEW u \in Transports, NEW v \in Transports,
             Claims(u)', Claims(v)', trs'[u].gen = trs'[v].gen
      PROVE  u = v
  <2>1. Claimable(u) /\ Claimable(v)
    BY <1>4
  <2>2. SUFFICES ASSUME u # v PROVE FALSE
    OBVIOUS
  <2>3. Claims(u) /\ trs'[u].gen = trs[u].gen /\ Claims(v) /\ trs'[v].gen = trs[v].gen
    BY <1>5, <2>1, <2>2 DEF Claimable
  <2> QED
    BY <1>5, <2>2, <2>3 DEF Data, Alone
<1>6. Alone'
  BY <1>3, <1>5 DEF Data, Alone
<1> QED
  BY <1>2, <1>3, <1>6 DEF Data
-----------------------------------------------------------------------------
(* The steps that store nothing keep the data *)

LEMMA DataUntouched ==
  ASSUME TerminalAssumption, Control, Control', Data, HostOn, SettledStays,
         troubles \subseteq troubles', stored' = stored, host'.gen >= host.gen,
         \A u \in Transports : Untouched(u)
  PROVE  Data'
<1>1. PICK S \in SUBSET Transports : S = {}
  OBVIOUS
<1>2. /\ \A u \in Transports \ S : Untouched(u)
      /\ \A u \in S : Held(u)' /\ Cursored(u)' /\ ("overlapped" \notin troubles' => Bounded(u)')
      /\ \A u \in S : Claimable(u)
  BY <1>1
<1> QED
  BY <1>2, DataFrame

LEMMA HostStepData ==
  ASSUME TerminalAssumption, Control, Control', Data,
         ProcessEnds \/ Reap \/ ExitMissed \/ LeaseLapses \/ MarkGone \/ Prune
  PROVE  Data'
<1>1. host \in Hosts /\ host' \in Hosts
  BY DEF Control, Typed
<1>2. /\ host'.gen = host.gen /\ (host'.alive => host.alive)
      /\ host'.status = "NONE" \/ (host.status # "NONE" /\ host'.next = host.next)
      /\ attached' \subseteq attached /\ stored' = stored /\ skipped' = skipped
      /\ troubles' = troubles /\ trs' = trs /\ feed' = feed
      /\ host'.alive => host'.next = host.next
      /\ Prune \/ host'.low = host.low
  <2>1. CASE Prune
    BY <1>1, <2>1 DEF Prune, NoSession, Hosts, calm
  <2>2. CASE ProcessEnds \/ Reap
    BY <1>1, <2>2 DEF ProcessEnds, Reap, Reapable, Hosts, calm, Control, HostSound
  <2>3. CASE ExitMissed \/ LeaseLapses \/ MarkGone
    BY <1>1, <2>3 DEF ExitMissed, LeaseLapses, MarkGone, Fault, Hosts, calm, Control, HostSound
  <2> QED
    BY <2>1, <2>2, <2>3
<1>3. HostOn
  BY <1>1, <1>2 DEF HostOn, Hosts
<1>4. SettledStays
  BY <1>2, SettledSame
<1>5. ASSUME NEW u \in Transports PROVE Untouched(u)
  <2>1. Same(u)
    BY <1>2 DEF Same
  <2>2. trs[u].pc \in {"attach", "tail"} => host'.low >= host.low
    <3>1. CASE Prune
      BY <3>1 DEF Prune, Attaching
    <3>2. CASE host'.low = host.low
      BY <1>1, <3>2 DEF Hosts
    <3> QED
      BY <1>2, <3>1, <3>2
  <2> QED
    BY <1>2, <2>1, <2>2 DEF Untouched
<1>6. host'.gen >= host.gen
  BY <1>1, <1>2 DEF Hosts
<1> QED
  BY <1>2, <1>3, <1>4, <1>5, <1>6, DataUntouched
(* Steps of one transport. *)
LEMMA LocalData ==
  ASSUME TerminalAssumption, Control, Control', Data, NEW t \in Transports, NEW r, LocalStep(t, r),
         attached' \subseteq attached \cup {t},
         stored' = stored, skipped \subseteq skipped', troubles \subseteq troubles',
         Held(t)', Cursored(t)', "overlapped" \notin troubles' => Bounded(t)', Claimable(t)
  PROVE  Data'
<1>1. Typed /\ HostKept /\ trs' = [trs EXCEPT ![t] = r]
  BY DEF Control, LocalStep
<1>2. HostOn /\ SettledStays
  BY <1>1, HostKeptOn, SettledSame
<1>3. host.low \in Nat /\ host'.low = host.low /\ host.gen \in Nat /\ host'.gen = host.gen
  BY <1>1 DEF Typed, Hosts, HostKept
<1>4. host'.gen >= host.gen
  BY <1>3
<1>5. ASSUME NEW u \in Transports \ {t} PROVE Untouched(u)
  <2>1. trs'[u] = trs[u] /\ feed'[u] = feed[u]
    BY <1>1 DEF LocalStep, Typed
  <2>2. host'.low >= host.low
    BY <1>3
  <2> QED
    BY <1>1, <2>1, <2>2 DEF Untouched, Same, HostKept
<1>6. PICK S \in SUBSET Transports : S = {t}
  OBVIOUS
<1>7. /\ \A u \in Transports \ S : Untouched(u)
      /\ \A u \in S : Held(u)' /\ Cursored(u)' /\ ("overlapped" \notin troubles' => Bounded(u)')
      /\ \A u \in S : Claimable(u)
  BY <1>5, <1>6
<1> QED
  BY <1>2, <1>4, <1>7, DataFrame

LEMMA Unattaching ==
  ASSUME NEW t \in Transports, trs'[t].pc \notin {"attach", "tail"} PROVE Cursored(t)' /\ Bounded(t)'
BY DEF Cursored, Bounded

(* A transport that only goes on to another place. *)
LEMMA PlaceData ==
  ASSUME TerminalAssumption, Control, Control', Data, NEW t \in Transports,
         Open(t) \/ Ready(t) \/ Detach(t)
  PROVE  Data'
<1>1. Typed /\ host' \in Hosts
  BY DEF Control, Typed
<1>2. PICK r : /\ trs' = [trs EXCEPT ![t] = r]
               /\ r.gen = trs[t].gen /\ r.queue = trs[t].queue /\ r.batch = trs[t].batch
               /\ r.pc \notin {"attach", "tail"}
  <2>1. trs[t] \in Transport
    BY <1>1, TransportFields
  <2>2. CASE Open(t)
    <3> DEFINE r == [trs[t] EXCEPT !.pc = "inspect"]
    <3>1. trs' = [trs EXCEPT ![t] = r]
      BY <2>2 DEF Open
    <3>2. /\ r.gen = trs[t].gen /\ r.queue = trs[t].queue /\ r.batch = trs[t].batch
          /\ r.pc \notin {"attach", "tail"}
      BY <2>1 DEF Transport
    <3> HIDE DEF r
    <3> QED
      BY <3>1, <3>2
  <2>3. CASE Ready(t)
    <3> DEFINE r == [trs[t] EXCEPT !.pc = "open"]
    <3>1. trs' = [trs EXCEPT ![t] = r]
      BY <2>3 DEF Ready
    <3>2. /\ r.gen = trs[t].gen /\ r.queue = trs[t].queue /\ r.batch = trs[t].batch
          /\ r.pc \notin {"attach", "tail"}
      BY <2>1 DEF Transport
    <3> HIDE DEF r
    <3> QED
      BY <3>1, <3>2
  <2>4. CASE Detach(t)
    <3> DEFINE r == [trs[t] EXCEPT !.pc = "detached", !.wait = -1]
    <3>1. trs' = [trs EXCEPT ![t] = r]
      BY <2>4 DEF Detach
    <3>2. /\ r.gen = trs[t].gen /\ r.queue = trs[t].queue /\ r.batch = trs[t].batch
          /\ r.pc \notin {"attach", "tail"}
      BY <2>1 DEF Transport
    <3> HIDE DEF r
    <3> QED
      BY <3>1, <3>2
  <2> QED
    BY <2>2, <2>3, <2>4
<1>3. /\ feed' = feed /\ stored' = stored /\ skipped' = skipped /\ troubles' = troubles
      /\ attached' \subseteq attached
  BY DEF Open, Ready, Detach, Detached, calm
<1>4. HostKept
  BY <1>1, HostUnchanged, HostLeased DEF Open, Ready, Detach, Detached
<1>5. trs'[t] = r /\ LocalStep(t, r)
  BY <1>1, <1>2, <1>3, <1>4, LocalSame DEF Typed
<1>6. Same(t)
  BY <1>2, <1>3, <1>4, <1>5 DEF Same, HostKept
<1>7. Held(t)'
  <2>1. \A a : Fresh(t, a) => Fresh(t, a)'
    BY <1>3, <1>6 DEF Fresh, Same
  <2> QED
    BY <1>1, <1>3, <1>4, <1>6, <2>1, HeldSame, HostKeptOn, SettledSame DEF Data
<1>8. Claimable(t)
  BY <1>2, <1>5, <1>6 DEF Claimable, Claims, Holding, Same
<1> QED
  BY <1>2, <1>3, <1>5, <1>7, <1>8, Unattaching, LocalData

(* A transport that gives up. *)
LEMMA IdleData ==
  ASSUME TerminalAssumption, Control, Control', Data, NEW t \in Transports,
         InspectEnded(t) \/ AttachRefused(t) \/ Finish(t)
  PROVE  Data'
<1>1. Typed /\ host' \in Hosts /\ host' = host
  BY DEF Control, Typed, InspectEnded, AttachRefused, Finish
<1>2. trs' = [trs EXCEPT ![t] = Idle] /\ feed' = feed /\ stored' = stored /\ skipped' = skipped
      /\ troubles \subseteq troubles' /\ attached' = attached
  BY DEF InspectEnded, AttachRefused, Finish, calm
<1>3. trs'[t] = Idle /\ LocalStep(t, Idle)
  BY <1>1, <1>2, LocalSame, HostUnchanged DEF Typed
<1>4. Idle.pc = "idle" /\ Idle.gen = 0 /\ Idle.batch = <<>> /\ Idle.queue = <<>>
  BY DEF Idle
<1>5. feed[t] = <<>> /\ trs[t].pc \notin Served
  BY DEF InspectEnded, AttachRefused, Finish, Control, Placed, Resting, Attaching, Served
<1>6. ~(t \in attached' /\ host'.alive)
  BY <1>1, <1>2, <1>5 DEF Control, Placed, HostSound
<1>7. Held(t)'
  BY <1>2, <1>3, <1>4, <1>5, <1>6, HeldEmpty
<1>8. Cursored(t)' /\ Bounded(t)' /\ Claimable(t)
  BY <1>3, <1>4, Unattaching DEF Claimable, Claims
<1> QED
  BY <1>2, <1>3, <1>7, <1>8, LocalData
LEMMA StoredChunk ==
  ASSUME Typed, TerminalAssumption, NEW i \in 1 .. Len(stored)
  PROVE  stored[i].gen \in Nat \ {0} /\ stored[i].lo \in Nat /\ stored[i].hi \in Nat
         /\ stored[i].hi + 1 <= MaxOutput
<1>1. stored[i] \in Chunk
  BY ElementOfSeq DEF Typed
<1> QED
  BY <1>1 DEF Chunk, Sequence, TerminalAssumption

LEMMA InspectData ==
  ASSUME TerminalAssumption, Control, Control', Data, NEW t \in Transports,
         InspectNone(t) \/ InspectRunning(t)
  PROVE  Data'
<1>1. Typed /\ Placed(t) /\ host' \in Hosts /\ host' = host /\ trs[t] \in Transport /\ trs[t].pc = "inspect"
  BY TransportFields DEF Control, Typed, InspectNone, InspectRunning, calm
<1>2. feed' = feed /\ stored' = stored /\ skipped' = skipped /\ troubles' = troubles /\ attached' = attached
  BY DEF InspectNone, InspectRunning, calm
<1>3. feed[t] = <<>> /\ trs[t].batch = <<>> /\ trs[t].queue = <<>> /\ trs[t].gen = 0 /\ trs[t].after = -1
  BY <1>1 DEF Placed, Resting, Attaching
<1>4. t \notin attached
  BY <1>1 DEF Placed, Served, InspectNone, InspectRunning, Control, HostSound
<1>5. CASE InspectNone(t)
  <2> DEFINE r == [trs[t] EXCEPT !.pc = "attach"]
  <2>1. r.queue = <<>> /\ r.batch = <<>> /\ r.gen = 0 /\ r.after = -1
    BY <1>1, <1>3 DEF Transport
  <2>2. trs' = [trs EXCEPT ![t] = r]
    BY <1>5 DEF InspectNone
  <2> HIDE DEF r
  <2>3. trs'[t] = r /\ LocalStep(t, r)
    BY <1>1, <1>2, <2>2, LocalSame, HostUnchanged DEF Typed
  <2>4. Held(t)'
    BY <1>2, <1>3, <1>4, <2>1, <2>3, HeldEmpty
  <2>5. Cursored(t)'
    BY <2>1, <2>3 DEF Cursored, Settled
  <2>6. Bounded(t)'
    BY <1>1, <1>2, <2>1, <2>3, StoredChunk DEF Bounded
  <2>7. Claimable(t)
    BY <2>1, <2>3 DEF Claimable, Claims
  <2> QED
    BY <1>2, <2>3, <2>4, <2>5, <2>6, <2>7, LocalData
<1>6. CASE InspectRunning(t)
  <2> DEFINE r == [trs[t] EXCEPT !.pc = "cursor", !.gen = host.gen, !.next = host.next]
  <2>1. r.queue = <<>> /\ r.batch = <<>> /\ r.pc = "cursor"
    BY <1>1, <1>3 DEF Transport
  <2>2. trs' = [trs EXCEPT ![t] = r]
    BY <1>6 DEF InspectRunning
  <2> HIDE DEF r
  <2>3. trs'[t] = r /\ LocalStep(t, r)
    BY <1>1, <1>2, <2>2, LocalSame, HostUnchanged DEF Typed
  <2>4. Held(t)'
    BY <1>2, <1>3, <1>4, <2>1, <2>3, HeldEmpty
  <2>5. Cursored(t)' /\ Bounded(t)'
    BY <2>1, <2>3, Unattaching
  <2>6. Claimable(t)
    BY <1>2, <1>3, <1>4, <2>1, <2>3 DEF Claimable, Claims, Holding
  <2> QED
    BY <1>2, <2>3, <2>4, <2>5, <2>6, LocalData
<1> QED
  BY <1>5, <1>6

(* Up to its cursor the output of a process is settled. *)
LEMMA CursorSettled ==
  ASSUME Typed, TerminalAssumption, StoredSound, NEW g PROVE Settled(g, Cursor(g) + 1)
<1>1. CASE Cursor(g) = -1
  BY <1>1 DEF Settled
<1>2. CASE \E i \in 1 .. Len(stored) : stored[i].gen = g /\ stored[i].hi = Cursor(g)
  BY <1>2 DEF StoredSound
<1> QED
  BY <1>1, <1>2, CursorIsLast

LEMMA ConcatNothing ==
  ASSUME NEW q \in Seq(Batch), NEW r \in Seq(Batch), q \o r = <<>> PROVE q = <<>> /\ r = <<>>
<1>1. PICK m, n : m = Len(q) /\ n = Len(r)
  OBVIOUS
<1>2. m \in Nat /\ n \in Nat /\ (q = <<>> <=> m = 0) /\ (r = <<>> <=> n = 0)
  BY <1>1, EmptyLen
<1>3. Len(q \o r) = m + n
  BY <1>1, ConcatProperties
<1>4. Len(q \o r) = 0
  BY EmptySeq
<1>5. m = 0 /\ n = 0
  BY <1>2, <1>3, <1>4
<1> QED
  BY <1>2, <1>5

LEMMA CursorData ==
  ASSUME TerminalAssumption, Control, Control', Data, NEW t \in Transports, ReadCursor(t)
  PROVE  Data'
<1> DEFINE r == [trs[t] EXCEPT !.pc = "attach", !.after = Cursor(trs[t].gen)]
<1>1. Typed /\ host' \in Hosts /\ host' = host /\ trs[t] \in Transport /\ trs[t].pc = "cursor"
  BY TransportFields DEF Control, Typed, ReadCursor
<1>2. feed' = feed /\ stored' = stored /\ skipped' = skipped /\ troubles \subseteq troubles' /\ attached' = attached
  BY DEF ReadCursor
<1>3. /\ r.queue = trs[t].queue /\ r.batch = trs[t].batch /\ r.gen = trs[t].gen
      /\ r.pc = "attach" /\ r.after = Cursor(trs[t].gen)
  BY <1>1 DEF Transport
<1>4. trs' = [trs EXCEPT ![t] = r]
  BY DEF ReadCursor
<1> HIDE DEF r
<1>5. trs'[t] = r /\ LocalStep(t, r)
  BY <1>1, <1>2, <1>4, LocalSame, HostUnchanged DEF Typed
<1>6. Held(t)'
  <2>1. Same(t)
    BY <1>1, <1>2, <1>3, <1>5 DEF Same
  <2>2. \A a : Fresh(t, a) => Fresh(t, a)'
    BY <1>2, <2>1 DEF Fresh, Same
  <2>3. HostOn /\ SettledStays
    BY <1>1, <1>2, HostUnchanged, HostKeptOn, SettledSame
  <2> QED
    BY <1>1, <1>2, <2>1, <2>2, <2>3, HeldSame DEF Data
<1>7. Cursored(t)'
  <2>1. Settled(trs[t].gen, Cursor(trs[t].gen) + 1)
    BY <1>1, CursorSettled DEF Data
  <2> QED
    BY <1>2, <1>3, <1>5, <2>1 DEF Cursored, Settled
<1>8. Bounded(t)'
  BY <1>1, <1>2, <1>3, <1>5, CursorIsLast DEF Bounded
<1>9. Claimable(t)
  <2>1. SUFFICES ASSUME "overlapped" \notin troubles', NEW u \in Transports \ {t}, Claims(u)'
                 PROVE  FALSE
    BY DEF Claimable
  <2>2. Others(t) = {}
    BY <2>1 DEF ReadCursor
  <2>3. trs'[u] = trs[u]
    BY <1>1, <1>4 DEF Typed
  <2>4. trs[u].pc \notin {"attach", "tail"}
    BY <1>1 DEF Control, OneBusy, Busy, Attaching
  <2>5. u \notin attached /\ feed[u] = <<>> /\ trs[u].batch \o trs[u].queue = <<>>
    BY <2>2 DEF Others
  <2>6. trs[u].batch = <<>> /\ trs[u].queue = <<>>
    <3>1. trs[u].batch \in Seq(Batch) /\ trs[u].queue \in Seq(Batch)
      BY <1>1, TransportFields
    <3> QED
      BY <2>5, <3>1, ConcatNothing
  <2> QED
    BY <1>2, <2>1, <2>3, <2>4, <2>5, <2>6 DEF Claims, Holding
<1> QED
  BY <1>2, <1>5, <1>6, <1>7, <1>8, <1>9, LocalData

LEMMA TailData ==
  ASSUME TerminalAssumption, Control, Control', Data, NEW t \in Transports, AttachToTail(t)
  PROVE  Data'
<1> DEFINE r == [trs[t] EXCEPT !.pc = "tail", !.after = trs[t].next - 1]
<1>1. Typed /\ host' \in Hosts /\ host' = host /\ trs[t] \in Transport /\ trs[t].pc = "attach"
  BY TransportFields DEF Control, Typed, AttachToTail, calm
<1>2. feed' = feed /\ stored' = stored /\ skipped' = skipped /\ troubles' = troubles /\ attached' = attached
  BY DEF AttachToTail, calm
<1>3. /\ r.queue = trs[t].queue /\ r.batch = trs[t].batch /\ r.gen = trs[t].gen /\ r.pc = "tail"
  BY <1>1 DEF Transport
<1>4. trs' = [trs EXCEPT ![t] = r]
  BY DEF AttachToTail
<1> HIDE DEF r
<1>5. trs'[t] = r /\ LocalStep(t, r)
  BY <1>1, <1>2, <1>4, LocalSame, HostUnchanged DEF Typed
<1>6. Same(t)
  BY <1>1, <1>2, <1>3, <1>5 DEF Same
<1>7. Held(t)'
  <2>1. \A a : Fresh(t, a) => Fresh(t, a)'
    BY <1>2, <1>6 DEF Fresh, Same
  <2>2. HostOn /\ SettledStays
    BY <1>1, <1>2, HostUnchanged, HostKeptOn, SettledSame
  <2> QED
    BY <1>1, <1>2, <1>6, <2>1, <2>2, HeldSame DEF Data
<1>8. Cursored(t)'
  BY <1>3, <1>5 DEF Cursored
<1>9. ASSUME "overlapped" \notin troubles' PROVE Bounded(t)'
  <2>1. Bounded(t)
    BY <1>2, <1>9 DEF Data, Alone
  <2>2. trs[t].after < host.low - 1 /\ trs[t].after \in Int /\ host.low \in Int
    BY <1>1 DEF AttachToTail, ReplayGap, Transport, Typed, Hosts
  <2>3. ASSUME NEW i \in 1 .. Len(stored), stored[i].gen = trs[t].gen PROVE stored[i].hi < host.low - 1
    <3>1. stored[i].hi <= trs[t].after /\ stored[i].hi \in Nat
      BY <1>1, <2>1, <2>3, StoredChunk DEF Bounded
    <3> QED
      BY <2>2, <3>1
  <2> QED
    BY <1>1, <1>2, <1>3, <1>5, <2>3 DEF Bounded
<1>10. Claimable(t)
  BY <1>1, <1>2, <1>3, <1>5 DEF Claimable, Claims, Holding
<1> QED
  BY <1>2, <1>5, <1>7, <1>8, <1>9, <1>10, LocalData
LEMMA SpawnedData ==
  ASSUME TerminalAssumption, Control, Control', Data, NEW t \in Transports, Spawned(t)
  PROVE  Data'
<1>1. Typed /\ host \in Hosts /\ host' \in Hosts /\ Placed(t) /\ trs[t].pc = "attach"
  BY DEF Control, Typed, Spawned
<1>2. feed' = feed /\ stored' = stored /\ skipped' = skipped /\ troubles' = troubles /\ attached' = {t}
  BY DEF Spawned, calm
<1>3. host'.gen = host.gen + 1 /\ host'.next = 0 /\ host.gen \in Nat
  BY <1>1 DEF Spawned, NoSession, Hosts
<1>4. trs'[t] = Readied(host.gen + 1) /\ \A u \in Transports \ {t} : trs'[u] = trs[u]
  BY <1>1 DEF Spawned, Readied, Typed
<1>5. /\ Readied(host.gen + 1).pc = "ready" /\ Readied(host.gen + 1).gen = host.gen + 1
      /\ Readied(host.gen + 1).batch = <<>> /\ Readied(host.gen + 1).queue = <<>>
  BY DEF Readied, Idle
<1>6. feed[t] = <<>>
  BY <1>1 DEF Placed, Resting, Attaching
<1>7. HostOn /\ SettledStays /\ host'.gen >= host.gen
  BY <1>2, <1>3, SettledSame DEF HostOn
<1>8. ASSUME NEW u \in Transports \ {t} PROVE Untouched(u)
  <2>1. trs[u].pc \notin {"attach", "tail"}
    BY <1>1 DEF Control, OneBusy, Busy, Attaching
  <2> QED
    BY <1>2, <1>4, <2>1 DEF Untouched, Same
<1>9. Held(t)'
  <2>1. Settled(trs[t].gen, 0)'
    BY DEF Settled
  <2>2. Fresh(t, 0)'
    <3>1. ASSUME NEW i \in 1 .. Len(stored) PROVE stored[i].gen # host.gen + 1
      BY <1>1, <1>3, StoredChunk DEF Data, StoredSound
    <3> QED
      BY <1>2, <1>4, <1>5, <3>1 DEF Fresh
  <2>3. Spans(trs'[t].queue, 0, 0) /\ Spans(trs'[t].batch, 0, 0) /\ FeedSpans(feed'[t], 0, 0)
    BY <1>2, <1>4, <1>5, <1>6, SpansNothing, FeedNothing
  <2>4. HeldAt(t, 0, 0, 0, 0)'
    BY <1>3, <2>1, <2>2, <2>3 DEF HeldAt
  <2> QED
    BY <2>4 DEF Held, TerminalAssumption
<1>10. Cursored(t)' /\ Bounded(t)'
  BY <1>4, <1>5, Unattaching
<1>11. Claimable(t)
  <2>1. ASSUME NEW u \in Transports \ {t} PROVE trs'[u].gen # trs'[t].gen
    <3>1. trs[u].gen <= host.gen /\ trs[u].gen \in Nat
      BY <1>1, TransportFields DEF Control, Placed
    <3> QED
      BY <1>3, <1>4, <1>5, <3>1
  <2> QED
    BY <2>1 DEF Claimable
<1>12. PICK S \in SUBSET Transports : S = {t}
  OBVIOUS
<1>13. /\ \A u \in Transports \ S : Untouched(u)
       /\ \A u \in S : Held(u)' /\ Cursored(u)' /\ ("overlapped" \notin troubles' => Bounded(u)')
       /\ \A u \in S : Claimable(u)
  BY <1>8, <1>9, <1>10, <1>11, <1>12
<1> QED
  BY <1>2, <1>7, <1>13, DataFrame

LEMMA AttachedData ==
  ASSUME TerminalAssumption, Control, Control', Data, NEW t \in Transports, Attached(t)
  PROVE  Data'
<1> DEFINE r == Readied(host.gen)
<1>0. PICK k, g : k = trs[t].after /\ g = host.gen
  OBVIOUS
<1>1. Typed /\ Placed(t) /\ HostSound /\ host \in Hosts /\ host' \in Hosts /\ trs[t] \in Transport
  BY TransportFields DEF Control, Typed
<1>2. /\ stored' = stored /\ skipped \subseteq skipped' /\ troubles' = troubles
      /\ attached' = attached \cup {t} /\ trs' = [trs EXCEPT ![t] = r]
  BY DEF Attached, Readied
<1>3. r.pc = "ready" /\ r.gen = host.gen /\ r.batch = <<>> /\ r.queue = <<>>
  BY DEF Readied, Idle
<1> HIDE DEF r
<1>4. trs[t].gen # 0 /\ trs[t].gen = host.gen /\ trs[t].pc \in {"attach", "tail"}
  BY <1>1 DEF Attached, Placed
<1>5. k < host.next /\ k \in -1 .. MaxOutput /\ host.next \in 0 .. MaxOutput /\ host.low \in 0 .. MaxOutput
  BY <1>0, <1>1, <1>4 DEF Placed, Transport, Hosts
<1>6. k + 1 \in 0 .. MaxOutput
  BY <1>5 DEF TerminalAssumption
<1>7. FeedSpans(Replay(t), k + 1, host.next)
  BY <1>0, <1>5, ReplaySpans
<1>8. HostKept
  BY <1>1, HostLeased DEF Attached
<1>9. trs'[t] = r /\ feed'[t] = Replay(t) /\ LocalStep(t, r)
  <2>1. feed' = [feed EXCEPT ![t] = Replay(t)]
    BY DEF Attached
  <2>2. feed' \in [Transports -> Seq(Sequence \cup {Exit})]
    BY DEF Control, Typed
  <2> QED
    BY <1>1, <1>2, <1>8, <2>1, <2>2 DEF LocalStep, Typed
<1>10. SettledStays
  BY <1>2, SettledSame
<1>11. Settled(g, k + 1)'
  <2>1. CASE trs[t].pc = "attach"
    <3>1. Settled(g, k + 1)
      BY <1>0, <1>4, <2>1 DEF Data, Cursored
    <3>2. \A x, n : Settled(x, n) => Settled(x, n)'
      BY <1>10 DEF SettledStays
    <3> QED
      BY <3>1, <3>2
  <2>2. CASE trs[t].pc = "tail"
    <3>1. PICK m : m = Cursor(g)
      OBVIOUS
    <3>2. Settled(g, m + 1) /\ m \in -1 .. MaxOutput
      BY <1>1, <3>1, CursorSettled, CursorIsLast DEF Data
    <3>3. skipped' = skipped \cup {<<g, s>> : s \in m + 1 .. k}
      BY <1>0, <2>2, <3>1 DEF Attached
    <3>4. ASSUME NEW s \in 0 .. k
          PROVE  (\E i \in 1 .. Len(stored) : stored[i].gen = g /\ s \in stored[i].lo .. stored[i].hi)
                 \/ <<g, s>> \in skipped'
      <4>1. CASE s \in m + 1 .. k
        BY <3>3, <4>1
      <4>2. CASE s \in 0 .. m
        <5>1. s \in 0 .. m + 1 - 1
          BY <3>2, <4>2
        <5> QED
          BY <1>2, <3>2, <5>1 DEF Settled
      <4> QED
        BY <1>5, <3>2, <4>1, <4>2
    <3>5. PICK n : n = k + 1
      OBVIOUS
    <3>6. \A s \in 0 .. n - 1 : s \in 0 .. k
      BY <1>5, <3>5
    <3>7. stored' = stored
      BY <1>2
    <3>8. ASSUME NEW s \in 0 .. n - 1
          PROVE  (\E i \in 1 .. Len(stored') : stored'[i].gen = g /\ s \in stored'[i].lo .. stored'[i].hi)
                 \/ <<g, s>> \in skipped'
      BY <3>4, <3>6, <3>7
    <3>9. Settled(g, n)'
      BY <3>8 DEF Settled
    <3> QED
      BY <3>5, <3>9
  <2> QED
    BY <1>4, <2>1, <2>2
<1>12. ASSUME "overlapped" \notin troubles' PROVE Fresh(t, k + 1)'
  <2>1. Bounded(t)
    BY <1>2, <1>12 DEF Data, Alone
  <2>2. trs[t].pc = "tail" => host.low - 1 <= k + 1
    BY <1>0, <1>1, <1>5 DEF Attached, ReplayGap, HostSound
  <2>3. ASSUME NEW i \in 1 .. Len(stored), stored[i].gen = g PROVE stored[i].hi < k + 1
    <3>1. stored[i].hi \in Nat
      BY <1>1, StoredChunk
    <3>2. CASE trs[t].pc = "attach"
      <4>1. stored[i].hi <= k
        BY <1>0, <1>4, <2>1, <2>3, <3>2 DEF Bounded
      <4> QED
        BY <1>5, <3>1, <4>1
    <3>3. CASE trs[t].pc = "tail"
      <4>1. stored[i].hi < host.low - 1
        BY <1>0, <1>4, <2>1, <2>3, <3>3 DEF Bounded
      <4> QED
        BY <1>5, <2>2, <3>1, <3>3, <4>1
    <3> QED
      BY <1>4, <3>2, <3>3
  <2> QED
    BY <1>0, <1>2, <1>3, <1>9, <2>3 DEF Fresh
<1>13. Held(t)'
  <2>1. PICK e : e = host.next
    OBVIOUS
  <2>2. host'.next = e /\ e \in 0 .. MaxOutput
    BY <1>5, <1>8, <2>1 DEF HostKept
  <2>3. Spans(trs'[t].queue, k + 1, k + 1) /\ Spans(trs'[t].batch, k + 1, k + 1)
        /\ FeedSpans(feed'[t], k + 1, e)
    BY <1>3, <1>7, <1>9, <2>1, SpansNothing
  <2>4. Settled(trs[t].gen, k + 1)'
    BY <1>0, <1>3, <1>9, <1>11 DEF Settled
  <2>5. HeldAt(t, k + 1, k + 1, k + 1, e)'
    BY <1>12, <2>2, <2>3, <2>4 DEF HeldAt
  <2> QED
    BY <1>6, <2>2, <2>5 DEF Held
<1>14. Cursored(t)' /\ Bounded(t)'
  BY <1>3, <1>9, Unattaching
<1>15. Claimable(t)
  BY <1>3, <1>4, <1>9 DEF Claimable, Claims
<1> QED
  BY <1>2, <1>9, <1>13, <1>14, <1>15, LocalData

(* A transport that goes on with what it holds: its queue begins with the same batch. *)
LEMMA HeldMoves ==
  ASSUME TerminalAssumption, Control, NEW t \in Transports,
         NEW a \in 0 .. MaxOutput, NEW b \in 0 .. MaxOutput, NEW c \in 0 .. MaxOutput,
         NEW e \in 0 .. MaxOutput, HeldAt(t, a, b, c, e),
         NEW d \in 0 .. MaxOutput, NEW f \in 0 .. MaxOutput, NEW h \in 0 .. MaxOutput,
         Spans(trs'[t].queue, a, d), Spans(trs'[t].batch, d, f), FeedSpans(feed'[t], f, h),
         h = e \/ (h <= e /\ (t \in attached => ~host.alive)),
         trs'[t].gen = trs[t].gen, HostKept,
         trs[t].queue # <<>> => trs'[t].queue # <<>> /\ trs'[t].queue[1] = trs[t].queue[1],
         Holding(t)' => Holding(t), attached' = attached, stored' = stored, skipped' = skipped,
         troubles' = troubles
  PROVE  Held(t)'
<1>1. Settled(trs[t].gen, a)'
  <2>1. Settled(trs[t].gen, a)
    BY DEF HeldAt
  <2> QED
    BY <2>1 DEF Settled
<1>2. t \in attached' /\ host'.alive => h = host'.next
  BY DEF HeldAt, HostKept
<1>3. trs'[t].gen = host'.gen /\ host'.status # "NONE" => h <= host'.next
  <2>1. host.next \in Nat
    BY DEF Control, Typed, Hosts
  <2> QED
    BY <2>1 DEF HeldAt, HostKept
<1>4. "overlapped" \notin troubles' /\ Holding(t)' => Fresh(t, a)'
  BY DEF HeldAt, Fresh
<1>5. HeldAt(t, a, d, f, h)'
  BY <1>1, <1>2, <1>3, <1>4 DEF HeldAt
<1> QED
  BY <1>5 DEF Held

LEMMA SpansGathered ==
  ASSUME Typed, TerminalAssumption, NEW t \in Transports, Len(trs[t].batch) <= 1,
         NEW s \in Sequence, NEW b \in Nat, Spans(trs[t].batch, b, s)
  PROVE  Spans(Gathered(t, s), b, s + 1) /\ Gathered(t, s) # <<>>
<1>1. PICK q : q = Gathered(t, s)
  OBVIOUS
<1>2. PICK o : o = trs[t].batch
  OBVIOUS
<1>3. o \in Seq(Batch) /\ s \in Nat
  BY <1>2, TransportFields DEF Sequence, TerminalAssumption
<1>4. q \in Seq(Batch) /\ Len(q) = 1 /\ q[1].hi = s /\ q[1].lo = IF o = <<>> THEN s ELSE o[1].lo
  BY <1>1, <1>2, GatheredTyped
<1>5. q # <<>>
  <2>1. Len(q) # 0 /\ Len(<<>>) = 0
    BY <1>4, EmptySeq
  <2> QED
    BY <2>1
<1>6. q[1].lo = b /\ b <= s
  <2>1. Spans(o, b, s)
    BY <1>2
  <2>2. CASE o = <<>>
    BY <1>3, <1>4, <2>1, <2>2 DEF Spans
  <2>3. CASE o # <<>>
    BY <1>3, <1>4, <2>1, <2>3, SpansOrdered DEF Spans
  <2> QED
    BY <2>2, <2>3
<1>7. Spans(q, b, s + 1)
  BY <1>3, <1>4, <1>5, <1>6 DEF Spans
<1> QED
  BY <1>1, <1>5, <1>7

LEMMA OutputData ==
  ASSUME TerminalAssumption, Control, Control', Data, NEW t \in Transports, Output(t)
  PROVE  Data'
<1>1. Typed /\ Placed(t) /\ trs[t] \in Transport /\ feed[t] \in Seq(Sequence \cup {Exit})
  BY TransportFields DEF Control
<1>2. PICK g : g = Gathered(t, Head(feed[t]))
  OBVIOUS
<1>3. PICK r : r = [trs[t] EXCEPT !.batch = g]
  OBVIOUS
<1>4. /\ trs' = [trs EXCEPT ![t] = r] /\ feed' = [feed EXCEPT ![t] = Tail(@)] /\ host' = host
      /\ attached' = attached /\ stored' = stored /\ skipped' = skipped /\ troubles' = troubles
  BY <1>2, <1>3 DEF Output, calm
<1>5. r.queue = trs[t].queue /\ r.batch = g /\ r.gen = trs[t].gen /\ r.pc = trs[t].pc
  BY <1>1, <1>3 DEF Transport
<1>6. trs'[t] = r /\ feed'[t] = Tail(feed[t]) /\ LocalStep(t, r) /\ HostKept
  <2>1. feed' \in [Transports -> Seq(Sequence \cup {Exit})]
    BY DEF Control, Typed
  <2> QED
    BY <1>1, <1>4, <2>1, HostUnchanged DEF LocalStep, Typed
<1>7. PICK a, b, c, e \in 0 .. MaxOutput : HeldAt(t, a, b, c, e)
  BY DEF Data, Held
<1>8. a \in Nat /\ b \in Nat /\ c \in Nat /\ e \in Nat
  BY <1>7 DEF TerminalAssumption
<1>9. Head(feed[t]) = c /\ c + 1 <= e /\ FeedSpans(Tail(feed[t]), c + 1, e) /\ c \in Sequence
  <2>1. Head(feed[t]) = c /\ c + 1 <= e /\ FeedSpans(Tail(feed[t]), c + 1, e)
    BY <1>1, <1>7, <1>8, FeedHead DEF Output, HeldAt
  <2> QED
    BY <1>7, <2>1 DEF Sequence, TerminalAssumption
<1>10. c + 1 \in 0 .. MaxOutput
  BY <1>7, <1>9 DEF TerminalAssumption
<1>11. Spans(g, b, c + 1)
  BY <1>1, <1>2, <1>7, <1>8, <1>9, SpansGathered DEF Placed, HeldAt
<1>12. Holding(t)
  BY DEF Output, Holding
<1>13. Held(t)'
  BY <1>4, <1>5, <1>6, <1>7, <1>9, <1>10, <1>11, <1>12, HeldMoves DEF HeldAt
<1>14. trs[t].pc \notin {"attach", "tail"}
  BY DEF Output, Listening
<1>15. Cursored(t)' /\ Bounded(t)' /\ Claimable(t)
  BY <1>5, <1>6, <1>12, <1>14, Unattaching DEF Claimable, Claims
<1> QED
  BY <1>4, <1>6, <1>13, <1>15, LocalData

(* A transport r after a flush of what t holds. *)
FlushStep(t, r) ==
  /\ r.queue = trs[t].queue \o trs[t].batch /\ r.batch = <<>> /\ r.gen = trs[t].gen
  /\ LocalStep(t, r) /\ attached' = attached /\ stored' = stored /\ skipped' = skipped
  /\ troubles' = troubles

LEMMA FlushedHeld ==
  ASSUME TerminalAssumption, Control, NEW t \in Transports, NEW r, FlushStep(t, r),
         Data, feed'[t] = feed[t] \/ (feed'[t] = <<>> /\ (t \in attached => ~host.alive))
  PROVE  Held(t)'
<1>1. Typed /\ trs' = [trs EXCEPT ![t] = r] /\ HostKept
  BY DEF Control, FlushStep, LocalStep
<1>2. trs'[t] = r
  BY <1>1 DEF Typed
<1>3. PICK a, b, c, e \in 0 .. MaxOutput : HeldAt(t, a, b, c, e)
  BY DEF Data, Held
<1>4. a \in Nat /\ b \in Nat /\ c \in Nat /\ e \in Nat
  BY <1>3 DEF TerminalAssumption
<1>5. PICK q, o : q = trs[t].queue /\ o = trs[t].batch
  OBVIOUS
<1>6. q \in Seq(Batch) /\ o \in Seq(Batch) /\ Spans(q, a, b) /\ Spans(o, b, c)
  BY <1>1, <1>3, <1>5, TransportFields DEF HeldAt
<1>7. r.queue = q \o o /\ r.batch = <<>> /\ r.gen = trs[t].gen
  BY <1>5 DEF FlushStep
<1>8. Spans(q \o o, a, c) /\ Spans(<<>>, c, c)
  BY <1>4, <1>6, SpansConcat, SpansNothing
<1>9. q # <<>> => q \o o # <<>> /\ (q \o o)[1] = q[1]
  <2>1. SUFFICES ASSUME q # <<>> PROVE q \o o # <<>> /\ (q \o o)[1] = q[1]
    OBVIOUS
  <2>2. q \o o # <<>>
    BY <1>6, <2>1, ConcatNothing
  <2>3. PICK m, n : m = Len(q) /\ n = Len(o)
    OBVIOUS
  <2>4. m \in Nat /\ n \in Nat /\ m # 0
    BY <1>6, <2>1, <2>3, EmptyLen
  <2>5. 1 \in 1 .. m + n /\ 1 <= m
    BY <2>4
  <2>6. \A i \in 1 .. m + n : (q \o o)[i] = IF i <= m THEN q[i] ELSE o[i - m]
    BY <1>6, <2>3, ConcatProperties
  <2> QED
    BY <2>2, <2>5, <2>6
<1>10. q \o o # <<>> => q # <<>> \/ o # <<>>
  BY <1>6, ConcatEmptySeq
<1>11. Holding(t)' => Holding(t)
  BY <1>2, <1>5, <1>7, <1>10 DEF Holding, FlushStep
<1>12. PICK h \in 0 .. MaxOutput :
         FeedSpans(feed'[t], c, h) /\ (h = e \/ (h <= e /\ (t \in attached => ~host.alive)))
  <2>1. FeedSpans(feed[t], c, e) /\ c <= e
    BY <1>3 DEF HeldAt, FeedSpans
  <2>2. CASE feed'[t] = feed[t]
    BY <1>3, <2>1, <2>2
  <2>3. CASE feed'[t] = <<>> /\ (t \in attached => ~host.alive)
    BY <1>3, <1>4, <2>1, <2>3, FeedNothing
  <2> QED
    BY <2>2, <2>3
<1>13. /\ Spans(trs'[t].queue, a, c) /\ Spans(trs'[t].batch, c, c)
       /\ trs[t].queue # <<>> => trs'[t].queue # <<>> /\ trs'[t].queue[1] = trs[t].queue[1]
       /\ trs'[t].gen = trs[t].gen
  BY <1>2, <1>5, <1>7, <1>8, <1>9
<1>14. attached' = attached /\ stored' = stored /\ skipped' = skipped /\ troubles' = troubles
  BY DEF FlushStep
<1> QED
  BY <1>1, <1>3, <1>11, <1>12, <1>13, <1>14, HeldMoves

LEMMA FlushData ==
  ASSUME TerminalAssumption, Control, Control', Data, NEW t \in Transports,
         Flush(t) \/ Retry(t) \/ Leave(t) \/ ExitHandled(t)
  PROVE  Data'
<1>1. Typed /\ Placed(t) /\ trs[t] \in Transport /\ feed[t] \in Seq(Sequence \cup {Exit})
  BY TransportFields DEF Control
<1>2. PICK n : n = Flushed(trs[t])
  OBVIOUS
<1>3. /\ n.queue = trs[t].queue \o trs[t].batch /\ n.batch = <<>> /\ n.gen = trs[t].gen
      /\ n.pc = trs[t].pc /\ n.after = trs[t].after /\ n \in Transport
  BY <1>1, <1>2, FlushedTyped
<1>4. /\ host' = host /\ attached' = attached /\ stored' = stored /\ skipped' = skipped
      /\ troubles' = troubles
  BY DEF Flush, Retry, Leave, ExitHandled, calm
<1>5. HostKept
  BY <1>1, <1>4, HostUnchanged
<1>6. CASE Flush(t) \/ Retry(t)
  <2>1. trs' = [trs EXCEPT ![t] = n] /\ feed' = feed
    BY <1>2, <1>6 DEF Flush, Retry
  <2>2. trs'[t] = n /\ LocalStep(t, n)
    BY <1>1, <1>5, <2>1, LocalSame DEF Typed
  <2>3. Held(t)'
    BY <1>3, <1>4, <2>1, <2>2, FlushedHeld DEF FlushStep
  <2>4. Holding(t)' => Holding(t)
    BY <1>1, <1>3, <1>4, <2>1, <2>2, ConcatEmptySeq DEF Holding, Transport
  <2>5. Cursored(t)' /\ ("overlapped" \notin troubles' => Bounded(t)')
    BY <1>3, <1>4, <2>2 DEF Cursored, Settled, Bounded, Data, Alone
  <2>6. Claimable(t)
    BY <1>3, <2>2, <2>4 DEF Claimable, Claims
  <2> QED
    BY <1>4, <2>2, <2>3, <2>5, <2>6, LocalData
<1>7. CASE Leave(t) \/ ExitHandled(t)
  <2>1. PICK r : /\ trs' = [trs EXCEPT ![t] = r]
                 /\ r.queue = n.queue /\ r.batch = n.batch /\ r.gen = n.gen
                 /\ r.pc \in {"leaving", "ended"}
    <3>1. CASE Leave(t)
      <4> DEFINE w == IF n.queue = <<>> THEN -1 ELSE n.queue[Len(n.queue)].hi
                 r == [n EXCEPT !.pc = "leaving", !.wait = w]
      <4>1. trs' = [trs EXCEPT ![t] = r]
        BY <1>2, <3>1 DEF Leave
      <4> HIDE DEF w
      <4>2. r.queue = n.queue /\ r.batch = n.batch /\ r.gen = n.gen /\ r.pc = "leaving"
        BY <1>3 DEF Transport
      <4> HIDE DEF r
      <4> QED
        BY <4>1, <4>2
    <3>2. CASE ExitHandled(t)
      <4> DEFINE r == [n EXCEPT !.pc = "ended"]
      <4>1. trs' = [trs EXCEPT ![t] = r]
        BY <1>2, <3>2 DEF ExitHandled
      <4>2. r.queue = n.queue /\ r.batch = n.batch /\ r.gen = n.gen /\ r.pc = "ended"
        BY <1>3 DEF Transport
      <4> HIDE DEF r
      <4> QED
        BY <4>1, <4>2
    <3> QED
      BY <1>7, <3>1, <3>2
  <2>2. feed'[t] = feed[t] \/ (feed'[t] = <<>> /\ (t \in attached => ~host.alive))
    <3>1. CASE Leave(t)
      BY <3>1 DEF Leave
    <3>2. CASE ExitHandled(t)
      <4>1. 1 \in 1 .. Len(feed[t]) /\ feed[t][1] = Exit
        BY <1>1, <3>2, EmptySeq, LenProperties DEF ExitHandled
      <4>2. HasExit(feed[t])
        BY <4>1 DEF HasExit
      <4>3. t \in attached => host.status # "RUNNING"
        BY <1>1, <4>2 DEF Placed
      <4> QED
        BY <1>1, <3>2, <4>3 DEF ExitHandled, Typed, Control, HostSound
    <3> QED
      BY <1>7, <3>1, <3>2
  <2>3. trs'[t] = r /\ LocalStep(t, r)
    <3>1. feed' \in [Transports -> Seq(Sequence \cup {Exit})]
      BY DEF Control, Typed
    <3> QED
      BY <1>1, <1>5, <1>7, <2>1, <3>1 DEF LocalStep, Leave, ExitHandled, Typed
  <2>4. Held(t)'
    BY <1>3, <1>4, <2>1, <2>2, <2>3, FlushedHeld DEF FlushStep
  <2>5. Claims(t)' => Claims(t)
    <3>1. Holding(t)' => Holding(t)
      BY <1>1, <1>3, <1>4, <2>1, <2>2, <2>3, ConcatEmptySeq DEF Holding, Transport
    <3> QED
      BY <1>3, <2>1, <2>3, <3>1 DEF Claims
  <2>6. Cursored(t)' /\ Bounded(t)' /\ Claimable(t)
    BY <1>3, <2>1, <2>3, <2>5, Unattaching DEF Claimable
  <2> QED
    BY <1>4, <2>3, <2>4, <2>6, LocalData
<1> QED
  BY <1>6, <1>7

(* The host sends an output or the exit to every attachment. *)
LEMMA SentData ==
  ASSUME TerminalAssumption, Control, Control', Data, Produce \/ ExitNoticed
  PROVE  Data'
<1>1. Typed /\ HostSound /\ host \in Hosts /\ host' \in Hosts /\ attached \subseteq Transports
  BY DEF Control, Typed
<1>2. /\ attached' = attached /\ stored' = stored /\ skipped' = skipped /\ troubles' = troubles
      /\ trs' = trs /\ host'.gen = host.gen
      /\ \A u \in Transports \ attached : feed'[u] = feed[u]
  BY <1>1 DEF Produce, ExitNoticed, calm, Hosts
<1>3. /\ host.status # "NONE" /\ (host'.alive => host.alive)
      /\ Produce => host.alive /\ host.status = "RUNNING" /\ host'.next = host.next + 1 /\ host'.low >= host.low
      /\ ExitNoticed => ~host.alive /\ host.exiting /\ host'.next = host.next /\ host'.low = host.low
                        /\ ~host'.alive
  <2>1. host.next \in Nat /\ host.low \in Nat
    BY <1>1 DEF Hosts
  <2>2. CASE Produce
    BY <1>1, <2>1, <2>2 DEF Produce, Hosts, ExitNoticed, HostSound
  <2>3. CASE ExitNoticed
    BY <1>1, <2>1, <2>3 DEF Produce, Hosts, ExitNoticed, HostSound
  <2> QED
    BY <2>2, <2>3
<1>4. HostOn /\ SettledStays /\ host'.gen >= host.gen
  <2>1. host.next \in Nat /\ host.gen \in Nat /\ host.next <= host'.next
    BY <1>1, <1>3 DEF Hosts
  <2> QED
    BY <1>2, <1>3, <2>1, SettledSame DEF HostOn
<1>5. ASSUME NEW u \in Transports \ attached PROVE Untouched(u)
  <2>1. host'.low >= host.low
    BY <1>1, <1>3 DEF Hosts
  <2> QED
    BY <1>2, <2>1 DEF Untouched, Same
<1>6. ASSUME NEW u \in attached
      PROVE  Held(u)' /\ Cursored(u)' /\ ("overlapped" \notin troubles' => Bounded(u)') /\ Claimable(u)
  <2>1. Placed(u) /\ feed[u] \in Seq(Sequence \cup {Exit}) /\ u \in Transports
    BY <1>1, TransportFields DEF Control
  <2>2. trs[u].gen = host.gen /\ trs[u].pc \notin {"attach", "tail"} /\ ~HasExit(feed[u])
    BY <1>1, <1>3, <2>1 DEF Placed, Served, HostSound
  <2>3. PICK a, b, c, e \in 0 .. MaxOutput : HeldAt(u, a, b, c, e)
    BY <2>1 DEF Data, Held
  <2>4. a \in Nat /\ b \in Nat /\ c \in Nat /\ e \in Nat /\ FeedSpans(feed[u], c, e) /\ e <= host.next
        /\ (host.alive => e = host.next)
    BY <1>3, <2>2, <2>3 DEF HeldAt, TerminalAssumption
  <2>5. FeedSpans(Append(feed[u], e), c, e + 1) /\ FeedSpans(Append(feed[u], Exit), c, e)
    BY <2>1, <2>2, <2>4, FeedAppend
  <2>6. PICK h \in 0 .. MaxOutput : FeedSpans(feed'[u], c, h) /\ h <= host'.next
                                    /\ (host'.alive => h = host'.next)
    <3>1. CASE Produce
      <4>1. e + 1 = host'.next /\ e = host.next
        BY <1>3, <2>4, <3>1
      <4>2. feed'[u] = Append(feed[u], e)
        BY <2>1, <3>1, <4>1 DEF Produce
      <4>3. e + 1 \in 0 .. MaxOutput
        BY <1>1, <4>1 DEF Hosts
      <4> QED
        BY <2>4, <2>5, <4>1, <4>2, <4>3
    <3>2. CASE ExitNoticed
      <4>1. feed'[u] = Append(feed[u], Exit)
        BY <2>1, <3>2 DEF ExitNoticed
      <4> QED
        BY <1>3, <2>3, <2>4, <2>5, <3>2, <4>1
    <3> QED
      BY <3>1, <3>2
  <2>7. Settled(trs[u].gen, a)' /\ (\A x : Fresh(u, x) => Fresh(u, x)')
    BY <1>2, <2>3 DEF HeldAt, Settled, Fresh
  <2>8. Holding(u)
    BY DEF Holding
  <2>9. HeldAt(u, a, b, c, h)'
    BY <1>2, <2>3, <2>6, <2>7, <2>8 DEF HeldAt
  <2>10. Held(u)'
    BY <2>9 DEF Held
  <2>11. Claimable(u)
    BY <1>2, <2>8 DEF Claimable, Claims
  <2> QED
    BY <1>2, <2>1, <2>2, <2>10, <2>11, Unattaching
<1> QED
  BY <1>1, <1>2, <1>4, <1>5, <1>6, DataFrame

(* The host or the API ends. *)
LEMMA CrashData ==
  ASSUME TerminalAssumption, Control, Control', Data, ApiCrash \/ HostRestart
  PROVE  Data'
<1>1. Typed /\ HostSound /\ host \in Hosts /\ host' \in Hosts
  BY DEF Control, Typed
<1>2. /\ attached' = {} /\ stored' = stored /\ skipped' = skipped /\ troubles' = troubles
      /\ \A u \in Transports : feed'[u] = <<>>
  BY <1>1 DEF ApiCrash, HostRestart, Detached, Typed
<1>3. HostOn /\ SettledStays /\ host'.gen >= host.gen
  <2>1. host.gen \in Nat /\ host.next \in Nat /\ host'.gen = host.gen
        /\ (host'.status = "NONE" \/ (host'.status = host.status /\ host'.next = host.next))
    BY <1>1 DEF ApiCrash, HostRestart, Detached, NoSession, Hosts
  <2> QED
    BY <1>2, <2>1, SettledSame DEF HostOn
<1>4. ASSUME NEW u \in Transports
      PROVE  Held(u)' /\ Cursored(u)' /\ ("overlapped" \notin troubles' => Bounded(u)') /\ Claimable(u)
  <2>1. trs[u] \in Transport /\ Placed(u)
    BY <1>1, TransportFields DEF Control
  <2>2. CASE trs'[u] = Idle
    <3>1. Idle.pc = "idle" /\ Idle.gen = 0 /\ Idle.batch = <<>> /\ Idle.queue = <<>>
      BY DEF Idle
    <3>2. Held(u)'
      BY <1>2, <2>2, <3>1, HeldEmpty
    <3> QED
      BY <2>2, <3>1, <3>2, Unattaching DEF Claimable, Claims
  <2>3. CASE HostRestart /\ trs[u].pc \notin Attaching
    <3>1. /\ trs'[u].gen = trs[u].gen /\ trs'[u].queue = trs[u].queue /\ trs'[u].batch = trs[u].batch
          /\ trs'[u].pc \notin {"attach", "tail"}
      <4>1. trs'[u] = Disconnected(trs[u])
        BY <2>3 DEF HostRestart
      <4> QED
        BY <2>1, <2>3, <4>1 DEF Disconnected, Transport, Attaching
    <3>2. PICK a, b, c, e \in 0 .. MaxOutput : HeldAt(u, a, b, c, e)
      BY DEF Data, Held
    <3>3. c \in Nat /\ FeedSpans(<<>>, c, c)
      BY <3>2, FeedNothing DEF TerminalAssumption
    <3>4. Settled(trs[u].gen, a)' /\ (\A x : Fresh(u, x) => Fresh(u, x)')
      BY <1>2, <3>1, <3>2 DEF HeldAt, Settled, Fresh
    <3>5. Holding(u)' => Holding(u)
      BY <1>2, <3>1 DEF Holding
    <3>6. host'.status = "NONE"
      BY <2>3 DEF HostRestart, NoSession
    <3>7. HeldAt(u, a, b, c, c)'
      BY <1>2, <3>1, <3>2, <3>3, <3>4, <3>5, <3>6 DEF HeldAt
    <3>8. Held(u)'
      BY <3>7 DEF Held
    <3>9. Claimable(u)
      BY <3>1, <3>5 DEF Claimable, Claims
    <3> QED
      BY <3>1, <3>8, <3>9, Unattaching
  <2>4. CASE ApiCrash
    BY <2>2, <2>4 DEF ApiCrash
  <2>5. CASE HostRestart /\ trs[u].pc \in Attaching
    <3>1. trs'[u] = Disconnected(trs[u])
      BY <2>5 DEF HostRestart
    <3>2. Disconnected(trs[u]) = Idle
      BY <2>5 DEF Disconnected, Attaching
    <3> QED
      BY <2>2, <3>1, <3>2
  <2> QED
    BY <2>3, <2>4, <2>5
<1>5. PICK S \in SUBSET Transports : S = Transports
  OBVIOUS
<1>6. /\ \A u \in Transports \ S : Untouched(u)
      /\ \A u \in S : Held(u)' /\ Cursored(u)' /\ ("overlapped" \notin troubles' => Bounded(u)')
      /\ \A u \in S : Claimable(u)
  BY <1>4, <1>5
<1> QED
  BY <1>2, <1>3, <1>6, DataFrame

-----------------------------------------------------------------------------
(* The steps that store *)

(* The chunk k is appended, or nothing is. *)
Appending(k) == stored' = stored \/ stored' = Append(stored, k)

LEMMA AppendedChunks ==
  ASSUME Typed, NEW k \in Chunk, Appending(k)
  PROVE  /\ Len(stored) \in Nat /\ Len(stored') \in Nat /\ Len(stored) <= Len(stored')
         /\ \A i \in 1 .. Len(stored) : stored'[i] = stored[i]
         /\ \A i \in 1 .. Len(stored') :
              i \in 1 .. Len(stored) \/ (i = Len(stored) + 1 /\ stored' = Append(stored, k) /\ stored'[i] = k)
<1>1. stored \in Seq(Chunk) /\ Len(stored) \in Nat
  BY EmptyLen DEF Typed
<1>2. CASE stored' = stored
  BY <1>1, <1>2
<1>3. CASE stored' = Append(stored, k)
  <2>1. /\ Len(stored') = Len(stored) + 1 /\ stored'[Len(stored) + 1] = k
        /\ \A i \in 1 .. Len(stored) : stored'[i] = stored[i]
    BY <1>1, <1>3, AppendProperties
  <2>2. \A i \in 1 .. Len(stored') : i \in 1 .. Len(stored) \/ i = Len(stored) + 1
    BY <1>1, <2>1
  <2>3. Len(stored') \in Nat /\ Len(stored) <= Len(stored')
    BY <1>1, <2>1
  <2> QED
    BY ONLY <1>1, <1>3, <2>1, <2>2, <2>3
<1> QED
  BY <1>2, <1>3 DEF Appending

(* What is stored is the first batch of the queue, which continues what is settled. *)
Storing(t, g, q, a, b) ==
  /\ q \in Seq(Batch) /\ q # <<>> /\ q[1] \in Batch /\ g # 0 /\ g \in Nat /\ g <= host.gen
  /\ trs[t].pc \notin Resting
  /\ a <= q[1].hi /\ q[1].hi \in Nat /\ q[1].hi + 1 \in 0 .. MaxOutput
  /\ Tail(q) \in Seq(Batch) /\ Spans(Tail(q), q[1].hi + 1, b)
  /\ g = host.gen /\ host.status # "NONE" => q[1].hi < host.next
  /\ \E k \in Chunk :
       /\ k.gen = g /\ k.lo = a /\ k.hi = q[1].hi /\ Appending(k)
       /\ \/ stored' = stored
          \/ \A i \in 1 .. Len(stored) : stored[i].gen = g => stored[i].hi # q[1].hi
       /\ Store(t) => stored' = Append(stored, k) \/ Known(q[1], g)

LEMMA StoredNext ==
  ASSUME TerminalAssumption, Control, Data, NEW t \in Transports, Store(t) \/ StoreFails(t),
         NEW g, NEW q, g = trs[t].gen, q = trs[t].queue,
         NEW a \in 0 .. MaxOutput, NEW b \in 0 .. MaxOutput, NEW c \in 0 .. MaxOutput,
         NEW e \in 0 .. MaxOutput, HeldAt(t, a, b, c, e)
  PROVE  Storing(t, g, q, a, b)
<1>1. Typed /\ Placed(t) /\ host \in Hosts /\ trs[t] \in Transport /\ q \in Seq(Batch) /\ q # <<>>
  BY TransportFields DEF Control, Typed, Store, StoreFails
<1>2. g # 0 /\ trs[t].pc \notin Resting /\ g \in 1 .. MaxGenerations /\ g <= host.gen
  <2>1. trs[t].pc \notin Resting /\ trs[t].gen # 0 /\ trs[t].gen <= host.gen
    BY <1>1 DEF Placed
  <2> QED
    BY <1>1, <2>1, TransportFields
<1>3. a \in Nat /\ b \in Nat /\ c \in Nat /\ e \in Nat /\ MaxOutput \in Nat
  BY DEF TerminalAssumption
<1>4. /\ q[1] \in Batch /\ q[1].lo = a /\ q[1].lo <= q[1].hi /\ q[1].hi < b
      /\ q[1].hi + 1 \in 0 .. MaxOutput
      /\ Tail(q) \in Seq(Batch) /\ Spans(Tail(q), q[1].hi + 1, b)
  BY <1>1, <1>3, SpansTail DEF HeldAt
<1>5. q[1].hi \in Nat /\ q[1].lo \in Sequence /\ q[1].hi \in Sequence
  <2>1. q[1].lo \in Sequence /\ q[1].hi \in Sequence
    BY <1>4 DEF Batch
  <2>2. \A s \in Sequence : s \in Nat
    BY <1>3 DEF Sequence
  <2> QED
    BY <2>1, <2>2
<1>6. b <= c /\ c <= e
  <2>1. trs[t].batch \in Seq(Batch)
    BY <1>1 DEF Transport
  <2> QED
    BY <1>3, <2>1, SpansOrdered DEF HeldAt, FeedSpans
<1>7. g = host.gen /\ host.status # "NONE" => q[1].hi < host.next
  <2>1. host.next \in Nat
    BY <1>1 DEF Hosts
  <2>2. q[1].hi < e
    BY <1>3, <1>4, <1>5, <1>6
  <2> QED
    BY <1>3, <1>5, <2>1, <2>2 DEF HeldAt
<1>8. PICK k : k = [gen |-> g, lo |-> q[1].lo, hi |-> q[1].hi]
  OBVIOUS
<1>9. k \in Chunk /\ k.gen = g /\ k.lo = a /\ k.hi = q[1].hi
  BY <1>2, <1>4, <1>5, <1>8 DEF Chunk
<1>10. Head(q) = q[1]
  BY <1>1
<1>11. Written(t) = IF Known(q[1], g) THEN stored ELSE Append(stored, k)
  BY <1>8, <1>10 DEF Written
<1>12. DOMAIN stored = 1 .. Len(stored)
  BY <1>1, LenProperties DEF Typed
<1>13. ~Known(q[1], g) => \A i \in 1 .. Len(stored) : stored[i].gen = g => stored[i].hi # q[1].hi
  BY <1>12 DEF Known
<1>14. stored' = stored \/ (stored' = Append(stored, k) /\ ~Known(q[1], g))
  BY <1>11 DEF Store, StoreFails
<1>15. Store(t) => stored' = Append(stored, k) \/ Known(q[1], g)
  BY <1>11 DEF Store
<1>16. Appending(k)
  BY <1>14 DEF Appending
<1>17. \E l \in Chunk :
         /\ l.gen = g /\ l.lo = a /\ l.hi = q[1].hi /\ Appending(l)
         /\ \/ stored' = stored
            \/ \A i \in 1 .. Len(stored) : stored[i].gen = g => stored[i].hi # q[1].hi
         /\ Store(t) => stored' = Append(stored, l) \/ Known(q[1], g)
  <2>1. \/ stored' = stored
        \/ \A i \in 1 .. Len(stored) : stored[i].gen = g => stored[i].hi # q[1].hi
    BY <1>13, <1>14
  <2> QED
    BY <1>9, <1>15, <1>16, <2>1
<1>18. g \in Nat /\ a <= q[1].hi
  <2>1. \A i \in 1 .. MaxGenerations : i \in Nat
    BY DEF TerminalAssumption
  <2> QED
    BY <1>2, <1>4, <2>1
<1> QED
  BY <1>1, <1>2, <1>4, <1>5, <1>7, <1>17, <1>18 DEF Storing

(* After it the output up to the end of that batch is settled. *)
LEMMA StoreSound ==
  ASSUME TerminalAssumption, Control, Control', StoredSound, NEW k \in Chunk, Appending(k),
         host' = host, skipped' = skipped, Settled(k.gen, k.lo), k.gen <= host.gen,
         k.gen = host.gen /\ host.status # "NONE" => k.hi < host.next
  PROVE  /\ SettledStays /\ StoredSound'
         /\ stored' = stored \/ Settled(k.gen, k.hi + 1)'
         /\ (\E i \in 1 .. Len(stored) : stored[i].gen = k.gen /\ stored[i].hi = k.hi)
              => Settled(k.gen, k.hi + 1)'
<1>1. Typed
  BY DEF Control
<1>2. SettledStays
  BY <1>1, SettledGrows DEF Appending
<1>3. \A g, n : Settled(g, n) => Settled(g, n)'
  BY <1>2 DEF SettledStays
<1>4. k.lo \in Nat /\ k.hi \in Nat
  <2>1. k.lo \in Sequence /\ k.hi \in Sequence
    BY DEF Chunk
  <2> QED
    BY <2>1 DEF Sequence, TerminalAssumption
<1>5. ASSUME stored' = Append(stored, k) PROVE Settled(k.gen, k.hi + 1)'
  <2>1. PICK n, m, h, g, j : n = Len(stored) + 1 /\ m = k.lo /\ h = k.hi /\ g = k.gen /\ j = h + 1
    OBVIOUS
  <2>2. n \in 1 .. Len(stored') /\ stored'[n] = k
    BY <1>1, <1>5, <2>1, EmptyLen, AppendProperties DEF Typed
  <2>3. Settled(g, m)'
    BY <1>3, <2>1
  <2>4. m \in Nat /\ h \in Nat /\ j = h + 1
    BY <1>4, <2>1
  <2>5. ASSUME NEW s \in 0 .. j - 1
        PROVE  (\E i \in 1 .. Len(stored') : stored'[i].gen = g /\ s \in stored'[i].lo .. stored'[i].hi)
               \/ <<g, s>> \in skipped'
    <3>1. CASE s \in 0 .. m - 1
      BY <2>3, <3>1 DEF Settled
    <3>2. CASE s \in m .. h
      <4>1. stored'[n].gen = g /\ s \in stored'[n].lo .. stored'[n].hi
        BY <2>1, <2>2, <3>2
      <4> QED
        BY <2>2, <4>1
    <3> QED
      BY <2>4, <3>1, <3>2
  <2>6. Settled(g, j)'
    BY <2>5 DEF Settled
  <2> QED
    BY <2>1, <2>6
<1>6. (\E i \in 1 .. Len(stored) : stored[i].gen = k.gen /\ stored[i].hi = k.hi)
        => Settled(k.gen, k.hi + 1)'
  BY <1>3 DEF StoredSound
<1>7. StoredSound'
  <2> SUFFICES ASSUME NEW i \in 1 .. Len(stored')
               PROVE  /\ stored'[i].gen <= host'.gen
                      /\ Settled(stored[i].gen, stored[i].hi + 1)'
                      /\ stored'[i].gen = host'.gen /\ host'.status # "NONE" => stored'[i].hi < host'.next
    BY DEF StoredSound
  <2>1. CASE i \in 1 .. Len(stored)
    <3>1. stored'[i] = stored[i]
      BY <1>1, <2>1, AppendedChunks
    <3>2. Settled(stored[i].gen, stored[i].hi + 1)'
      <4>1. PICK g, n : g = stored[i].gen /\ n = stored[i].hi + 1
        OBVIOUS
      <4>2. Settled(g, n)
        BY <2>1, <4>1 DEF StoredSound
      <4>3. Settled(g, n)'
        BY <1>3, <4>2
      <4> QED
        BY <3>1, <4>1, <4>3
    <3> QED
      BY <2>1, <3>1, <3>2 DEF StoredSound
  <2>2. CASE stored' = Append(stored, k) /\ stored'[i] = k
    <3>1. Settled(stored[i].gen, stored[i].hi + 1)'
      BY <1>5, <2>2
    <3> QED
      BY <2>2, <3>1
  <2> QED
    BY <1>1, <2>1, <2>2, AppendedChunks
<1> QED
  BY <1>2, <1>5, <1>6, <1>7 DEF Appending

LEMMA StoreData ==
  ASSUME TerminalAssumption, Control, Control', Data, StoredOnce, NEW t \in Transports,
         Store(t) \/ StoreFails(t)
  PROVE  Data' /\ StoredOnce'
<1>1. Typed /\ host \in Hosts /\ host' \in Hosts /\ trs[t] \in Transport /\ MaxOutput \in Nat
  BY TransportFields DEF Control, Typed, TerminalAssumption
<1>2. /\ host' = host /\ feed' = feed /\ attached' = attached /\ skipped' = skipped
      /\ troubles' = troubles
  BY DEF Store, StoreFails, calm
<1>3. PICK a, b, c, e \in 0 .. MaxOutput : HeldAt(t, a, b, c, e)
  BY DEF Data, Held
<1>4. PICK g, q : g = trs[t].gen /\ q = trs[t].queue
  OBVIOUS
<1>5. /\ q \in Seq(Batch) /\ q # <<>> /\ q[1] \in Batch /\ g # 0 /\ g \in Nat /\ g <= host.gen
      /\ trs[t].pc \notin Resting
      /\ a <= q[1].hi /\ q[1].hi \in Nat /\ q[1].hi + 1 \in 0 .. MaxOutput
      /\ Tail(q) \in Seq(Batch) /\ Spans(Tail(q), q[1].hi + 1, b)
      /\ g = host.gen /\ host.status # "NONE" => q[1].hi < host.next
      /\ \E k \in Chunk :
           /\ k.gen = g /\ k.lo = a /\ k.hi = q[1].hi /\ Appending(k)
           /\ \/ stored' = stored
              \/ \A i \in 1 .. Len(stored) : stored[i].gen = g => stored[i].hi # q[1].hi
           /\ Store(t) => stored' = Append(stored, k) \/ Known(q[1], g)
  <2>1. Storing(t, g, q, a, b)
    BY <1>3, <1>4, StoredNext
  <2> QED
    BY <2>1 DEF Storing
<1>6. PICK k \in Chunk :
        /\ k.gen = g /\ k.lo = a /\ k.hi = q[1].hi /\ Appending(k)
        /\ \/ stored' = stored
           \/ \A i \in 1 .. Len(stored) : stored[i].gen = g => stored[i].hi # q[1].hi
        /\ Store(t) => stored' = Append(stored, k) \/ Known(q[1], g)
  BY <1>5
<1>7. PICK h : h = q[1].hi
  OBVIOUS
<1>8. h \in Nat /\ a \in Nat /\ a <= h /\ h + 1 \in 0 .. MaxOutput /\ k.hi = h
  BY <1>1, <1>5, <1>6, <1>7
<1>9. Settled(g, a)
  BY <1>3, <1>4 DEF HeldAt
<1>10. /\ SettledStays /\ StoredSound'
       /\ stored' = stored \/ Settled(g, h + 1)'
       /\ (\E i \in 1 .. Len(stored) : stored[i].gen = g /\ stored[i].hi = h) => Settled(g, h + 1)'
  <2>1. Settled(k.gen, k.lo) /\ k.gen <= host.gen
        /\ (k.gen = host.gen /\ host.status # "NONE" => k.hi < host.next)
    BY <1>5, <1>6, <1>9
  <2> QED
    BY <1>2, <1>6, <1>7, <2>1, StoreSound DEF Data
<1>11. HostOn
  BY <1>1, <1>2, HostUnchanged, HostKeptOn
<1>12. /\ \A u \in Transports \ {t} : trs'[u] = trs[u]
       /\ trs'[t].gen = g /\ trs'[t].batch = trs[t].batch /\ trs'[t].pc \notin Resting
       /\ Store(t) => trs'[t].queue = Tail(q)
       /\ StoreFails(t) => trs'[t].queue = q
  <2>1. CASE Store(t)
    <3>1. trs' = [trs EXCEPT ![t] = [trs[t] EXCEPT !.queue = Tail(q)]]
      BY <1>4, <2>1 DEF Store
    <3>2. PICK o : o = Tail(q)
      OBVIOUS
    <3>3. trs'[t] = [trs[t] EXCEPT !.queue = o] /\ \A u \in Transports \ {t} : trs'[u] = trs[u]
      BY <1>1, <3>1, <3>2 DEF Typed
    <3>4. trs'[t].gen = g /\ trs'[t].batch = trs[t].batch /\ trs'[t].pc = trs[t].pc /\ trs'[t].queue = o
      BY <1>1, <1>4, <3>3 DEF Transport
    <3>5. StoreFails(t) => trs'[t].queue = q
      BY <1>1, <1>4 DEF StoreFails, AfterFailure, Typed, Transport
    <3> QED
      BY <1>5, <3>2, <3>3, <3>4, <3>5
  <2>2. CASE StoreFails(t)
    <3>1. trs'[t] = AfterFailure(trs[t]) /\ \A u \in Transports \ {t} : trs'[u] = trs[u]
      BY <1>1, <2>2 DEF StoreFails, Typed
    <3>2. /\ trs'[t].gen = g /\ trs'[t].batch = trs[t].batch /\ trs'[t].queue = q
          /\ trs'[t].pc = IF trs[t].pc = "leaving" THEN "stuck" ELSE trs[t].pc
      BY <1>1, <1>4, <3>1 DEF AfterFailure, Transport
    <3>3. Store(t) => trs'[t].queue = Tail(q)
      BY <1>1, <1>4 DEF Store, Typed, Transport
    <3> QED
      BY <1>5, <3>1, <3>2, <3>3 DEF Resting, Attaching
  <2> QED
    BY <2>1, <2>2
<1>13. Claims(t)
  BY <1>4, <1>5 DEF Claims, Holding
<1>14. ASSUME NEW i \in 1 .. Len(stored')
       PROVE  \/ i \in 1 .. Len(stored) /\ stored'[i] = stored[i]
              \/ i = Len(stored) + 1 /\ stored'[i] = k /\ stored' = Append(stored, k)
  BY <1>1, <1>6, AppendedChunks
<1>15. ASSUME "overlapped" \notin troubles, NEW i \in 1 .. Len(stored), stored[i].gen = g
       PROVE  stored[i].hi < a \/ stored[i].hi = h
  <2>1. Fresh(t, a)
    BY <1>3, <1>13, <1>15 DEF HeldAt, Claims, Holding, Resting, Attaching, Store, StoreFails
  <2> QED
    BY <1>4, <1>7, <1>15, <2>1 DEF Fresh
<1>16. DOMAIN stored = 1 .. Len(stored) /\ DOMAIN stored' = 1 .. Len(stored')
  <2>1. stored \in Seq(Chunk) /\ stored' \in Seq(Chunk)
    BY DEF Control, Typed
  <2> QED
    BY <2>1, LenProperties
<1>17. ASSUME NEW x, x = a \/ x = h + 1, Settled(g, x)', x = a => StoreFails(t),
             Spans(trs'[t].queue, x, b), "overlapped" \notin troubles' => Fresh(t, x)'
       PROVE  HeldAt(t, x, b, c, e)'
  <2>1. /\ Spans(trs[t].batch, b, c) /\ FeedSpans(feed[t], c, e)
        /\ t \in attached /\ host.alive => e = host.next
        /\ trs[t].gen = host.gen /\ host.status # "NONE" => e <= host.next
    BY <1>3 DEF HeldAt
  <2>2. trs'[t].batch = trs[t].batch /\ trs'[t].gen = trs[t].gen
    BY <1>4, <1>12
  <2>3. Settled(trs[t].gen, x)'
    BY <1>12, <1>17 DEF Settled
  <2> QED
    BY <1>2, <1>17, <2>1, <2>2, <2>3 DEF HeldAt
<1>18. Held(t)'
  <2>1. CASE Store(t)
    <3>1. Settled(g, h + 1)'
      <4>1. CASE stored' = Append(stored, k)
        <5>1. stored' # stored
          BY <1>1, <4>1, AppendProperties, EmptyLen DEF Typed
        <5> QED
          BY <1>10, <5>1
      <4>2. CASE Known(q[1], g)
        BY <1>7, <1>10, <1>16, <4>2 DEF Known
      <4> QED
        BY <1>6, <2>1, <4>1, <4>2
    <3>2. ASSUME "overlapped" \notin troubles' PROVE Fresh(t, h + 1)'
      <4>1. ASSUME NEW i \in 1 .. Len(stored'), stored'[i].gen = g PROVE stored'[i].hi < h + 1
        <5>1. CASE i \in 1 .. Len(stored) /\ stored'[i] = stored[i]
          <6>1. stored[i].hi < a \/ stored[i].hi = h
            BY <1>2, <1>15, <3>2, <4>1, <5>1
          <6>2. stored[i].hi \in Nat
            BY <1>1, <5>1, StoredChunk
          <6> QED
            BY <1>8, <5>1, <6>1, <6>2
        <5>2. CASE stored'[i] = k
          BY <1>8, <5>2
        <5> QED
          BY <1>14, <5>1, <5>2
      <4> QED
        BY <1>12, <4>1 DEF Fresh
    <3>3. Spans(trs'[t].queue, h + 1, b)
      BY <1>5, <1>7, <1>12, <2>1
    <3>4. h + 1 # a
      BY <1>8
    <3>5. HeldAt(t, h + 1, b, c, e)'
      BY <1>17, <3>1, <3>2, <3>3, <3>4
    <3> QED
      BY <1>3, <1>8, <3>5 DEF Held
  <2>2. CASE StoreFails(t)
    <3>1. Settled(g, a)'
      BY <1>9, <1>10 DEF SettledStays
    <3>2. ASSUME "overlapped" \notin troubles' PROVE Fresh(t, a)'
      <4>1. ASSUME NEW i \in 1 .. Len(stored'), stored'[i].gen = g
            PROVE  stored'[i].hi < a \/ stored'[i].hi = h
        <5>1. CASE i \in 1 .. Len(stored) /\ stored'[i] = stored[i]
          BY <1>2, <1>15, <3>2, <4>1, <5>1
        <5>2. CASE stored'[i] = k
          BY <1>8, <5>2
        <5> QED
          BY <1>14, <5>1, <5>2
      <4>2. trs'[t].queue = q /\ q # <<>> /\ q[1].hi = h
        BY <1>5, <1>7, <1>12, <2>2
      <4> QED
        BY <1>12, <4>1, <4>2 DEF Fresh
    <3>3. Spans(trs'[t].queue, a, b)
      BY <1>3, <1>4, <1>12, <2>2 DEF HeldAt
    <3>4. HeldAt(t, a, b, c, e)'
      BY <1>17, <2>2, <3>1, <3>2, <3>3
    <3> QED
      BY <1>3, <3>4 DEF Held
  <2> QED
    BY <2>1, <2>2
<1>19. ASSUME "overlapped" \notin troubles, NEW u \in Transports \ {t}, Claims(u),
              NEW i \in 1 .. Len(stored'), stored'[i].gen = trs[u].gen
       PROVE  i \in 1 .. Len(stored) /\ stored'[i] = stored[i]
  <2>1. trs[u].gen # g
    BY <1>4, <1>13, <1>19 DEF Data, Alone
  <2> QED
    BY <1>6, <1>14, <1>19, <2>1
<1>20. ASSUME NEW u \in Transports \ {t} PROVE Held(u)' /\ Cursored(u)'
  <2>1. Same(u)
    BY <1>2, <1>12 DEF Same
  <2>2. ASSUME NEW x, "overlapped" \notin troubles', Holding(u), Fresh(u, x) PROVE Fresh(u, x)'
    <3>1. ASSUME NEW i \in 1 .. Len(stored'), stored'[i].gen = trs[u].gen
          PROVE  i \in 1 .. Len(stored) /\ stored'[i] = stored[i]
      <4>1. trs[u].gen # 0
        <5>1. stored'[i] \in Chunk
          BY ElementOfSeq DEF Control, Typed
        <5> QED
          BY <3>1, <5>1 DEF Chunk
      <4> QED
        BY <1>2, <1>19, <2>2, <3>1, <4>1 DEF Claims
    <3> QED
      BY <1>12, <2>2, <3>1 DEF Fresh
  <2>3. Held(u)'
    BY <1>1, <1>2, <1>10, <1>11, <2>1, <2>2, HeldSame DEF Data
  <2>4. Cursored(u)'
    <3>1. PICK v, n : v = trs[u].gen /\ n = trs[u].after + 1
      OBVIOUS
    <3>2. trs[u].pc = "attach" => Settled(v, n)'
      BY <1>10, <3>1 DEF SettledStays, Data, Cursored
    <3> QED
      BY <1>12, <3>1, <3>2 DEF Cursored, Settled
  <2> QED
    BY <2>3, <2>4
<1>21. Cursored(t)' /\ Bounded(t)'
  BY <1>12, Unattaching DEF Resting, Attaching
<1>22. ASSUME NEW u \in Transports PROVE Claims(u)' => Claims(u) /\ trs'[u].gen = trs[u].gen
  <2>1. CASE u = t
    BY <1>4, <1>12, <1>13, <2>1
  <2>2. CASE u # t
    BY <1>2, <1>12, <2>2 DEF Claims, Holding
  <2> QED
    BY <2>1, <2>2
<1>23. ASSUME "overlapped" \notin troubles, NEW u \in Transports \ {t} PROVE Bounded(u)'
  <2>1. Bounded(u)
    BY <1>23 DEF Data, Alone
  <2>2. ASSUME NEW i \in 1 .. Len(stored'), stored'[i].gen = trs[u].gen,
               trs[u].pc \in {"attach", "tail"}
        PROVE  i \in 1 .. Len(stored) /\ stored'[i] = stored[i]
    <3>1. trs[u].gen # 0
      <4>1. stored'[i] \in Chunk
        BY ElementOfSeq DEF Control, Typed
      <4> QED
        BY <2>2, <4>1 DEF Chunk
    <3> QED
      BY <1>19, <1>23, <2>2, <3>1 DEF Claims
  <2> QED
    BY <1>2, <1>12, <2>1, <2>2 DEF Bounded
<1>24. Alone'
  BY <1>2, <1>21, <1>22, <1>23 DEF Data, Alone
<1>25. StoredOnce'
  <2> SUFFICES ASSUME "overlapped" \notin troubles, NEW i \in DOMAIN stored', NEW j \in DOMAIN stored',
                      i < j, stored'[i].gen = stored'[j].gen
               PROVE  stored'[i].hi < stored'[j].lo
    BY <1>2 DEF StoredOnce
  <2>1. i \in 1 .. Len(stored') /\ j \in 1 .. Len(stored') /\ Len(stored) \in Nat
    BY <1>1, <1>16, EmptyLen DEF Typed
  <2>2. CASE j \in 1 .. Len(stored) /\ stored'[j] = stored[j]
    <3>1. i \in 1 .. Len(stored) /\ stored'[i] = stored[i]
      BY <1>14, <2>1, <2>2
    <3> QED
      BY <1>16, <2>2, <3>1 DEF StoredOnce
  <2>3. CASE j = Len(stored) + 1 /\ stored'[j] = k /\ stored' = Append(stored, k)
    <3>1. i \in 1 .. Len(stored) /\ stored'[i] = stored[i]
      BY <1>14, <2>1, <2>3
    <3>2. stored' # stored
      BY <1>1, <2>3, AppendProperties, EmptyLen DEF Typed
    <3>3. stored[i].hi # h
      BY <1>6, <1>7, <2>3, <3>1, <3>2
    <3>4. stored[i].hi < a
      BY <1>6, <1>15, <2>3, <3>1, <3>3
    <3> QED
      BY <1>6, <2>3, <3>1, <3>4
  <2> QED
    BY <1>14, <2>1, <2>2, <2>3
<1> QED
  BY <1>10, <1>18, <1>20, <1>21, <1>24, <1>25 DEF Data

-----------------------------------------------------------------------------
(* The inductive invariant *)

PaneInv == Control /\ Data /\ StoredOnce /\ EndedIsOver

LEMMA OnceKept ==
  ASSUME StoredOnce, stored' = stored, troubles \subseteq troubles' PROVE StoredOnce'
BY DEF StoredOnce

LEMMA PaneInvInit == ASSUME Init, TerminalAssumption PROVE PaneInv
BY ControlInit, DataInit, EndedInit DEF PaneInv

LEMMA DataStep ==
  ASSUME TerminalAssumption, Control, Control', Data, StoredOnce, [Next]_vars
  PROVE  Data' /\ StoredOnce'
<1>1. CASE UNCHANGED vars
  <2>1. UNCHANGED <<host, attached, trs, feed, stored, skipped, troubles>>
    BY <1>1 DEF vars, calm
  <2>2. \A t \in Transports : Held(t)' /\ Cursored(t)'
    BY <2>1 DEF Data, Held, HeldAt, Settled, Fresh, Holding, Cursored
  <2>3. StoredSound' /\ Alone'
    BY <2>1 DEF Data, StoredSound, Settled, Alone, Claims, Holding, Bounded
  <2> QED
    BY <2>1, <2>2, <2>3, OnceKept DEF Data
<1>2. CASE Produce \/ ExitNoticed
  <2>1. stored' = stored /\ troubles' = troubles
    BY <1>2 DEF Produce, ExitNoticed, calm
  <2> QED
    BY <1>2, <2>1, SentData, OnceKept
<1>3. CASE ProcessEnds \/ Reap \/ ExitMissed \/ LeaseLapses \/ MarkGone \/ Prune
  <2>1. stored' = stored /\ troubles' = troubles
    BY <1>3 DEF ProcessEnds, Reap, ExitMissed, LeaseLapses, MarkGone, Prune, calm
  <2> QED
    BY <1>3, <2>1, HostStepData, OnceKept
<1>4. CASE ApiCrash \/ HostRestart
  <2>1. stored' = stored /\ troubles' = troubles
    BY <1>4 DEF ApiCrash, HostRestart
  <2> QED
    BY <1>4, <2>1, CrashData, OnceKept
<1>5. ASSUME NEW t \in Transports, Open(t) \/ AttachStep(t) PROVE Data' /\ StoredOnce'
  <2>1. stored' = stored /\ troubles \subseteq troubles'
    BY <1>5 DEF AttachStep, Open, InspectNone, InspectRunning, InspectEnded, ReadCursor, Spawned,
       Attached, AttachToTail, AttachRefused, Ready, calm
  <2>2. Data'
    BY <1>5, PlaceData, InspectData, IdleData, CursorData, SpawnedData, AttachedData, TailData
       DEF AttachStep
  <2> QED
    BY <2>1, <2>2, OnceKept
<1>6. ASSUME NEW t \in Transports,
             Output(t) \/ Flush(t) \/ Retry(t) \/ Leave(t) \/ ExitHandled(t) \/ Detach(t) \/ Finish(t)
      PROVE  Data' /\ StoredOnce'
  <2>1. stored' = stored /\ troubles \subseteq troubles'
    BY <1>6 DEF Output, Flush, Retry, Leave, ExitHandled, Detach, Finish, calm
  <2>2. Data'
    BY <1>6, OutputData, FlushData, PlaceData, IdleData
  <2> QED
    BY <2>1, <2>2, OnceKept
<1>7. ASSUME NEW t \in Transports, Store(t) \/ StoreFails(t) PROVE Data' /\ StoredOnce'
  BY <1>7, StoreData
<1> QED
  BY <1>1, <1>2, <1>3, <1>4, <1>5, <1>6, <1>7 DEF Next, HostWork, OutputStep

LEMMA PaneInvStep == ASSUME PaneInv, TerminalAssumption, [Next]_vars PROVE PaneInv'
<1>1. Control'
  BY ControlStep DEF PaneInv, Data
<1>2. Data' /\ StoredOnce'
  BY <1>1, DataStep DEF PaneInv
<1>3. EndedIsOver'
  BY EndedStep DEF PaneInv
<1> QED
  BY <1>1, <1>2, <1>3 DEF PaneInv

LEMMA PaneInvAlways == Spec => []PaneInv
<1>1. Init => PaneInv
  BY PaneInvInit, TerminalAssumption
<1>2. PaneInv /\ [Next]_vars => PaneInv'
  BY PaneInvStep, TerminalAssumption
<1> QED
  BY <1>1, <1>2, PTL DEF Spec

(* Every variable keeps its type, the ring buffer never holds more than its  *)
(* size, and no transport is ever of a process that does not exist yet       *)
(* (recordOutputChunk, createOrRestoreSession).                              *)
THEOREM TypeCorrect == Spec => []TypeOK
<1>1. PaneInv => TypeOK
  BY ControlIsTyped, TerminalAssumption DEF PaneInv
<1> QED
  BY <1>1, PaneInvAlways, PTL

(* Whatever transports come, overlap, crash or fail to write, however much is *)
(* produced and however small the ring buffer is, the cursor never passes an  *)
(* output that is neither stored nor recorded as truncated                    *)
(* (getPaneCliHostOutputCursor, persistHostOutputThrough, attach).            *)
THEOREM OutputNeverLost == Spec => []NothingLost
<1>1. PaneInv => NothingLost
  <2> SUFFICES ASSUME PaneInv, NEW g \in 1 .. host.gen, NEW s \in 0 .. Cursor(g)
               PROVE  s \in StoredOutput(g) \/ <<g, s>> \in skipped
    BY DEF NothingLost
  <2>1. Typed /\ StoredSound
    BY DEF PaneInv, Control, Data
  <2>2. PICK n : n = Cursor(g) + 1
    OBVIOUS
  <2>3. Settled(g, n) /\ s \in 0 .. n - 1
    <3>1. Cursor(g) \in -1 .. MaxOutput
      BY <2>1, TerminalAssumption, CursorIsLast
    <3>2. s \in 0 .. n - 1
      BY <2>2, <3>1, TerminalAssumption DEF TerminalAssumption
    <3> QED
      BY <2>1, <2>2, <3>2, TerminalAssumption, CursorSettled
  <2>4. DOMAIN stored = 1 .. Len(stored)
    BY <2>1, LenProperties DEF Typed
  <2>5. CASE \E i \in 1 .. Len(stored) : stored[i].gen = g /\ s \in stored[i].lo .. stored[i].hi
    BY <2>4, <2>5 DEF StoredOutput
  <2> QED
    BY <2>3, <2>5 DEF Settled
<1> QED
  BY <1>1, PaneInvAlways, PTL

(* As long as no transport reads the cursor while another still has output,   *)
(* no output is stored twice and each process's output is stored in order,    *)
(* even where a write failed after its commit and is repeated                 *)
(* (appendPaneCliHostOutputChunk, flushHostOutput).                           *)
THEOREM OutputStoredOnce == Spec => []StoredOnce
<1>1. PaneInv => StoredOnce
  BY DEF PaneInv
<1> QED
  BY <1>1, PaneInvAlways, PTL

(* A session recorded as ended has no living process but one about to be      *)
(* recorded or one nobody is attached to (handleHostEvent, attach,            *)
(* persistClosedNormalHostSession, createOrRestoreSession).                   *)
THEOREM EndedSessionIsOver == Spec => []EndedIsOver
<1>1. PaneInv => EndedIsOver
  BY DEF PaneInv
<1> QED
  BY <1>1, PaneInvAlways, PTL
=============================================================================
