---------------------------- MODULE FencedRecord ----------------------------
(***************************************************************************)
(* What the durable plan-execution record promises the controllers that    *)
(* work on it: one of them at a time may continue, and only while nobody   *)
(* else has changed the record since it last read it.                      *)
(*                                                                         *)
(* The repository compares lease epochs and record revisions for equality  *)
(* only, so this module keeps the outcome of the comparisons instead of    *)
(* the numbers.  PlanRepository keeps the numbers and is shown to          *)
(* implement this module; PlanExecution is built on it.                    *)
(***************************************************************************)

CONSTANTS Workers,     \* controllers: one worker id per PlanExecutionController
          NoWorker     \* nobody, or a controller whose process is gone

ASSUME NoWorkerAssumption == NoWorker \notin Workers

VARIABLES owner,       \* lease.owner
          live,        \* lease.expiresAt is in the future
          holder,      \* the worker whose continuation carries the current epoch
          fresh        \* the workers whose copy of the record is the current revision

fenceVars == <<owner, live, holder, fresh>>

FenceTypeOK ==
  /\ owner \in Workers \cup {NoWorker}
  /\ live \in BOOLEAN
  /\ holder \in Workers \cup {NoWorker}
  /\ fresh \subseteq Workers

FenceInit ==
  /\ owner = NoWorker
  /\ live = FALSE
  /\ holder = NoWorker
  /\ fresh = {}

-----------------------------------------------------------------------------
(* A lease can be claimed by its owner, or by anyone once it has expired.  *)
Claimable(w) == owner = w \/ ~live

\* Mutant: the lease is checked, the revision is not.
ValidLease(w) == holder = w /\ live

(* The check of a leased update and of the controller's fence(): the same  *)
(* owner and epoch, unexpired, and the revision this worker read.          *)
Valid(w) == holder = w /\ live /\ w \in fresh

(* claim() at the start of advance(): the claim returns the record. *)
Claim(w) ==
  /\ Claimable(w)
  /\ owner' = w
  /\ live' = TRUE
  /\ holder' = w
  /\ fresh' = fresh \cup {w}

(* claim() inside a fence() that then throws.  Claiming an expired lease   *)
(* starts a new epoch: no continuation carries it, not even the claimer's. *)
Reclaim(w) ==
  /\ ~Valid(w)
  /\ Claimable(w)
  /\ owner' = w
  /\ live' = TRUE
  /\ holder' = IF owner = w /\ live THEN holder ELSE NoWorker
  /\ UNCHANGED fresh

(* update() with a lease. *)
Write(w) ==
  /\ Valid(w)
  /\ fresh' = {w}
  /\ UNCHANGED <<owner, live, holder>>

(* update() without a lease: an operator's request. *)
ForeignWrite ==
  /\ fresh' = {}
  /\ UNCHANGED <<owner, live, holder>>

(* release() at the end of advance(): expires the lease if the epoch is    *)
(* still this continuation's.                                              *)
Release(w) ==
  /\ live' = (live /\ holder # w)
  /\ holder' = IF holder = w THEN NoWorker ELSE holder
  /\ fresh' = fresh \ {w}
  /\ UNCHANGED owner

(* The process of w ends: its lease stays until it expires, and the worker *)
(* id that could renew it never comes back.                                *)
Die(w) ==
  /\ owner' = IF owner = w THEN NoWorker ELSE owner
  /\ holder' = IF holder = w THEN NoWorker ELSE holder
  /\ fresh' = fresh \ {w}
  /\ UNCHANGED live

(* Time passes the lease's expiresAt. *)
Expire ==
  /\ live
  /\ live' = FALSE
  /\ UNCHANGED <<owner, holder, fresh>>

FenceNext ==
  \/ \E w \in Workers : Claim(w) \/ Reclaim(w) \/ Write(w) \/ Release(w) \/ Die(w)
  \/ ForeignWrite
  \/ Expire

FenceSpec == FenceInit /\ [][FenceNext]_fenceVars
=============================================================================
