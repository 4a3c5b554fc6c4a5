---------------------------- MODULE EcWaitQueue ----------------------------
(***************************************************************************)
(* Wait queues of the EtherCAT shim (ethercat/nuttx/linux/wait.h): a       *)
(* wait_queue_head_t is a counting semaphore; wait_event tests its         *)
(* condition and waits in a loop, wake_up_interruptible posts once and     *)
(* wake_up_all posts until it sees a positive value.  Unlike in Linux, a   *)
(* waiter is not on the queue when it tests its condition.                 *)
(*                                                                         *)
(* The callers (external) are threads waiting for requests of their own    *)
(* and threads that complete requests and wake the queue.                  *)
(***************************************************************************)
EXTENDS Integers, FiniteSets

CONSTANTS
  Waiter, Waker,
  MaxCalls      \* bound: wake-ups each waker makes

ASSUME WaitQueueAssumption ==
  /\ IsFiniteSet(Waiter) /\ IsFiniteSet(Waker)
  /\ MaxCalls \in Nat

VARIABLES
  sem,          \* the value of the semaphore
  blocked,      \* threads waiting in it
  done,         \* the condition of each waiter
  waiter,       \* where each waiter is
  waker,        \* where each waker is
  calls,        \* how many calls each waker has begun
  owed,         \* history: of each waker's latest wake_up_all, the waiters that
                \* were blocked when it made their condition true
  singles       \* history: calls of wake_up_interruptible

vars == <<sem, blocked, done, waiter, waker, calls, owed, singles>>

Init ==
  /\ sem = 0
  /\ blocked = {}
  /\ done = [w \in Waiter |-> FALSE]
  /\ waiter = [w \in Waiter |-> "test"]
  /\ waker = [k \in Waker |-> "idle"]
  /\ calls = [k \in Waker |-> 0]
  /\ owed = [k \in Waker |-> {}]
  /\ singles = 0

-----------------------------------------------------------------------------
(* NuttX semaphores (external).                                            *)

\* nxsem_wait: take a unit or block.
SemWait(w) ==
  /\ sem' = sem - 1
  /\ \/ sem > 0 /\ waiter' = [waiter EXCEPT ![w] = "test"] /\ UNCHANGED blocked
     \/ sem <= 0 /\ waiter' = [waiter EXCEPT ![w] = "blocked"]
                 /\ blocked' = blocked \cup {w}

\* nxsem_post: leave a unit or hand it to a blocked thread.
SemPost ==
  /\ sem' = sem + 1
  /\ \/ blocked = {} /\ UNCHANGED <<blocked, waiter>>
     \/ \E w \in blocked :
          /\ blocked' = blocked \ {w}
          /\ waiter' = [waiter EXCEPT ![w] = "test"]

-----------------------------------------------------------------------------
(* __wait_event                                                            *)

\* while (!(c))
Test(w) ==
  /\ waiter[w] = "test"
  /\ waiter' = [waiter EXCEPT ![w] = IF done[w] THEN "out" ELSE "wait"]
  /\ UNCHANGED <<sem, blocked, done, waker, calls, owed, singles>>

Wait(w) ==
  /\ waiter[w] = "wait"
  /\ SemWait(w)
  /\ UNCHANGED <<done, waker, calls, owed, singles>>

\* -EINTR: the unit is given back, and the loop goes on all the same.
Interrupted(w) ==
  /\ waiter[w] = "blocked"
  /\ sem' = sem + 1
  /\ blocked' = blocked \ {w}
  /\ waiter' = [waiter EXCEPT ![w] = "test"]
  /\ UNCHANGED <<done, waker, calls, owed, singles>>

\* The caller makes a new request and waits for it.
Restart(w) ==
  /\ waiter[w] = "out"
  /\ done' = [done EXCEPT ![w] = FALSE]
  /\ waiter' = [waiter EXCEPT ![w] = "test"]
  /\ owed' = [k \in Waker |-> owed[k] \ {w}]
  /\ UNCHANGED <<sem, blocked, waker, calls, singles>>

-----------------------------------------------------------------------------
(* wake_up_all and wake_up_interruptible                                   *)

\* The caller completes requests, then calls one of the two.
Complete(k) ==
  /\ waker[k] = "idle"
  /\ calls[k] < MaxCalls
  /\ calls' = [calls EXCEPT ![k] = @ + 1]
  /\ \E S \in SUBSET Waiter \ {{}}, to \in {"read", "one"} :
       /\ done' = [w \in Waiter |-> done[w] \/ w \in S]
       /\ owed' = [owed EXCEPT ![k] = IF to = "read" THEN S \cap blocked ELSE {}]
       /\ waker' = [waker EXCEPT ![k] = to]
  /\ UNCHANGED <<sem, blocked, waiter, singles>>

\* wake_up_interruptible
PostOne(k) ==
  /\ waker[k] = "one"
  /\ SemPost
  /\ singles' = singles + 1
  /\ waker' = [waker EXCEPT ![k] = "idle"]
  /\ UNCHANGED <<done, calls, owed>>

ReadValueOne(k) ==           \* fault: semval <= 1
  /\ waker[k] = "read"
  /\ waker' = [waker EXCEPT ![k] = IF sem <= 1 THEN "post" ELSE "idle"]
  /\ UNCHANGED <<sem, blocked, done, waiter, calls, owed, singles>>

\* while (nxsem_get_value(q, &semval) >= 0 && semval <= 0)
ReadValue(k) ==
  /\ waker[k] = "read"
  /\ waker' = [waker EXCEPT ![k] = IF sem <= 0 THEN "post" ELSE "idle"]
  /\ UNCHANGED <<sem, blocked, done, waiter, calls, owed, singles>>

PostOnce(k) ==               \* fault: "if" for "while"
  /\ waker[k] = "post"
  /\ SemPost
  /\ waker' = [waker EXCEPT ![k] = "idle"]
  /\ UNCHANGED <<done, calls, owed, singles>>

PostForgotten(k) ==          \* fault: no nxsem_post
  /\ waker[k] = "post"
  /\ waker' = [waker EXCEPT ![k] = "read"]
  /\ UNCHANGED <<sem, blocked, waiter, done, calls, owed, singles>>

Post(k) ==
  /\ waker[k] = "post"
  /\ SemPost
  /\ waker' = [waker EXCEPT ![k] = "read"]
  /\ UNCHANGED <<done, calls, owed, singles>>

-----------------------------------------------------------------------------
WaiterStep(w) == Test(w) \/ Wait(w) \/ Interrupted(w) \/ Restart(w)
WakerStep(k) == Complete(k) \/ PostOne(k) \/ ReadValue(k) \/ Post(k)

Next == (\E w \in Waiter : WaiterStep(w)) \/ (\E k \in Waker : WakerStep(k))

Spec == Init /\ [][Next]_vars

\* Threads are scheduled; signals need not arrive and requests need not be
\* made or completed.
Fairness ==
  /\ \A w \in Waiter : WF_vars(Test(w) \/ Wait(w))
  /\ \A k \in Waker : WF_vars(PostOne(k) \/ ReadValue(k) \/ Post(k))

FairSpec == Spec /\ Fairness

-----------------------------------------------------------------------------
(* Properties                                                              *)

\* Every variable has its type, and the semaphore counts its waiters.
TypeOK ==
  /\ sem \in -Cardinality(Waiter) .. Cardinality(Waker) * MaxCalls
  /\ blocked = {w \in Waiter : waiter[w] = "blocked"}
  /\ sem < 0 => Cardinality(blocked) = -sem
  /\ sem >= 0 => blocked = {}
  /\ done \in [Waiter -> BOOLEAN]
  /\ waiter \in [Waiter -> {"test", "wait", "blocked", "out"}]
  /\ waker \in [Waker -> {"idle", "read", "post", "one"}]
  /\ calls \in [Waker -> 0 .. MaxCalls]
  /\ owed \in [Waker -> SUBSET Waiter]
  /\ singles \in 0 .. Cardinality(Waker) * MaxCalls

\* Units left behind by wake_up_all do not pile up, however often it is
\* called: besides one for each wake_up_interruptible there is never more than
\* one per waker, in the queue or about to be posted.
UnitsBounded ==
  sem + Cardinality({k \in Waker : waker[k] = "post"}) <= Cardinality(Waker) + singles

\* When wake_up_all returns, every waiter that was blocked when its condition
\* became true has been woken, although others wait and are woken meanwhile.
OwedWoken ==
  \A k \in Waker : waker[k] = "idle" => owed[k] \cap blocked = {}

\* From some time on no one waits for anything else.
Settled == <>[](\A w \in Waiter : done[w])

\* In that case wake_up_all returns (else its loop and the loop of a waiter
\* whose condition is false can keep each other going)...
WakeEnds == Settled => \A k \in Waker : waker[k] # "idle" ~> waker[k] = "idle"

\* ...and so does a waiter that was blocked when its condition became true.
OwedReturn ==
  Settled => \A w \in Waiter : (\E k \in Waker : w \in owed[k]) ~> waiter[w] = "out"
=============================================================================
