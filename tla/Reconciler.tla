----------------------------- MODULE Reconciler ------------------------------
(***************************************************************************)
(* The worker of a controller: one reconcile is a sequence of calls, pc    *)
(* names the next one.  A call either lets the reconcile go on, or ends it *)
(* with a result that controller-runtime turns into "no requeue", "requeue *)
(* after 2 s" or "requeue with backoff".  The deferred Close of the scope  *)
(* runs in every case.                                                     *)
(***************************************************************************)
EXTENDS Naturals

CONSTANT MaxFaults      \* bound: failed calls and crashes in a behaviour

ASSUME FaultAssumption == MaxFaults \in Nat

VARIABLES
    pc,      \* the next call of the worker, or "idle"
    res,     \* how the reconcile ends
    faults   \* failed calls and crashes so far

Results == {"done", "requeue", "error", "panic"}

\* The reconcile goes on to the next call.
Proceed(p) == pc' = p /\ UNCHANGED <<res, faults>>

\* Reconcile returns; the deferred Close still runs.
Return(r) == pc' = "close" /\ res' = r /\ UNCHANGED faults

\* One more failure, if the bound allows it.
Fault == faults < MaxFaults /\ faults' = faults + 1

\* A call fails, or its reply is lost: the error is returned.
CallFails == Fault /\ pc' = "close" /\ res' = "error"

\* A call took effect; its reply arrives or is lost.
Reply(p) == Proceed(p) \/ CallFails

=============================================================================
