------------------------------- MODULE EcLocks -------------------------------
(***************************************************************************)
(* The locks of the EtherCAT compatibility layer as the master (not part   *)
(* of this repository) uses them: a Linux semaphore initialised to one     *)
(* around a critical section, entered with down() or with                  *)
(* down_interruptible(), and an rt_mutex.  down() is nxsem_wait() here     *)
(* (ethercat/nuttx/linux/semaphore.h), which a signal interrupts, and its  *)
(* callers have no result to look at in Linux, so they go on as if they    *)
(* had the semaphore.  rt_mutex_lock() is nxmutex_lock(), which does not   *)
(* return before it has the mutex.                                         *)
(***************************************************************************)
EXTENDS Integers, FiniteSets

CONSTANTS
  Task,          \* the tasks
  Signals        \* bound: signals delivered to waiting tasks

ASSUME LocksAssumption == IsFiniteSet(Task) /\ Signals \in Nat

VARIABLES
  lkKind,        \* what the section is guarded by: "down",
                 \* "down_interruptible" or "rt_mutex"
  lkCount,       \* units left in the semaphore
  lkAt,          \* per task: "out", "waiting", "in", "failed"
  lkSignals      \* signals delivered so far
lkVars == <<lkKind, lkCount, lkAt, lkSignals>>

Kinds == {"down", "down_interruptible", "rt_mutex"}
Inside == {t \in Task : lkAt[t] = "in"}
Move(t, place) == lkAt' = [lkAt EXCEPT ![t] = place]

\* sema_init(s, 1) and rt_mutex_init().
LkInit ==
  /\ lkKind \in Kinds
  /\ lkCount = 1
  /\ lkAt = [t \in Task |-> "out"]
  /\ lkSignals = 0

\* The task calls down(), down_interruptible() or rt_mutex_lock().
LkCall(t) ==
  /\ lkAt[t] \in {"out", "failed"}
  /\ Move(t, "waiting")
  /\ UNCHANGED <<lkKind, lkCount, lkSignals>>

LkTake(t) ==
  /\ lkAt[t] = "waiting" /\ lkCount > 0
  /\ lkCount' = lkCount - 1
  /\ Move(t, "in")
  /\ UNCHANGED <<lkKind, lkSignals>>

LkSignalReturns(t) ==      \* fault: down_interruptible()'s result is not used either
  /\ lkAt[t] = "waiting" /\ lkCount = 0 /\ lkSignals < Signals
  /\ lkSignals' = lkSignals + 1
  /\ Move(t, IF lkKind = "rt_mutex" THEN "waiting" ELSE "in")
  /\ UNCHANGED <<lkKind, lkCount>>

\* A signal ends nxsem_wait() with -EINTR: the caller of down() goes on, that
\* of down_interruptible() gives up, nxmutex_lock() waits again.
LkSignal(t) ==
  /\ lkAt[t] = "waiting" /\ lkCount = 0 /\ lkSignals < Signals
  /\ lkSignals' = lkSignals + 1
  /\ \/ lkKind = "down" /\ Move(t, "in")
     \/ lkKind = "down_interruptible" /\ Move(t, "failed")
     \/ lkKind = "rt_mutex" /\ UNCHANGED lkAt
  /\ UNCHANGED <<lkKind, lkCount>>

\* up() and rt_mutex_unlock(), by whoever left the section.
LkLeave(t) ==
  /\ lkAt[t] = "in"
  /\ lkCount' = lkCount + 1
  /\ Move(t, "out")
  /\ UNCHANGED <<lkKind, lkSignals>>

LkNext == \E t \in Task : LkCall(t) \/ LkTake(t) \/ LkSignal(t) \/ LkLeave(t)

LkSpec == LkInit /\ [][LkNext]_lkVars

-----------------------------------------------------------------------------
\* Every variable has its type.
LkTypeOK ==
  /\ lkKind \in Kinds /\ lkCount \in Nat
  /\ lkAt \in [Task -> {"out", "waiting", "in", "failed"}]
  /\ lkSignals \in 0..Signals

\* Every signal that ends a down() lets one more task in for good, because
\* its up() adds a unit nobody took; with down_interruptible() and rt_mutex
\* there is never more than one task inside (semaphore.h, rtmutex.h).
InsideBounded ==
  Cardinality(Inside) <= 1 + (IF lkKind = "down" THEN lkSignals ELSE 0)
=============================================================================
