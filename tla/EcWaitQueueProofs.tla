-------------------------- MODULE EcWaitQueueProofs --------------------------
(***************************************************************************)
(* For any number of waiters, wakers and calls: the semaphore of a wait    *)
(* queue counts its waiters, wake_up_all does not pile up units, it wakes  *)
(* every waiter that was blocked when its condition became true, and while *)
(* no condition is false it runs down to its return.                       *)
(***************************************************************************)
EXTENDS EcWaitQueue, FiniteSetTheorems, TLAPS

Posting == {k \in Waker : waker[k] = "post"}

Types ==
  /\ sem \in Int
  /\ done \in [Waiter -> BOOLEAN]
  /\ waiter \in [Waiter -> {"test", "wait", "blocked", "out"}]
  /\ waker \in [Waker -> {"idle", "read", "post", "one"}]
  /\ calls \in [Waker -> 0 .. MaxCalls]
  /\ owed \in [Waker -> SUBSET Waiter]
  /\ singles \in Nat
  /\ blocked = {w \in Waiter : waiter[w] = "blocked"}

\* The value of the semaphore is minus the number of its waiters.
Counted == Cardinality(blocked) = IF sem < 0 THEN -sem ELSE 0

\* A waiter that is owed a wake-up has its condition and only has to see it;
\* a wake_up_interruptible owes nobody.
Served ==
  \A k \in Waker :
    /\ \A w \in owed[k] : done[w] /\ waiter[w] \in {"blocked", "test", "out"}
    /\ waker[k] = "one" => owed[k] = {}

IInv == Types /\ Counted /\ Served /\ UnitsBounded /\ OwedWoken

LEMMA BlockedFinite ==
  ASSUME Types
  PROVE  IsFiniteSet(blocked) /\ Cardinality(blocked) \in Nat
<1>1. blocked \in SUBSET Waiter
  BY DEF Types
<1>2. IsFiniteSet(blocked)
  BY <1>1, FS_Subset, WaitQueueAssumption
<1> QED
  BY <1>2, FS_CardinalityType

LEMMA PostingFinite ==
  /\ IsFiniteSet(Posting) /\ Cardinality(Posting) \in Nat
  /\ Cardinality(Posting) <= Cardinality(Waker) /\ Cardinality(Waker) \in Nat
<1>1. Posting \in SUBSET Waker
  BY DEF Posting
<1>2. IsFiniteSet(Posting) /\ Cardinality(Posting) <= Cardinality(Waker)
  BY <1>1, FS_Subset, WaitQueueAssumption
<1> QED
  BY <1>2, FS_CardinalityType, WaitQueueAssumption

LEMMA NoneBlocked ==
  ASSUME Types, Counted
  PROVE  sem >= 0 <=> blocked = {}
<1>1. Cardinality(blocked) = 0 <=> blocked = {}
  BY BlockedFinite, FS_EmptySet
<1> QED
  BY <1>1 DEF Counted, Types

\* A blocked thread leaves, or none is blocked, and the value grows by one.
LEMMA LeaveCounts ==
  ASSUME Types, Counted, sem' = sem + 1,
         \/ blocked = {} /\ blocked' = blocked
         \/ \E w \in blocked : blocked' = blocked \ {w}
  PROVE  Counted'
<1>1. CASE blocked = {} /\ blocked' = blocked
  <2>1. sem >= 0 /\ sem \in Int
    BY <1>1, NoneBlocked DEF Types
  <2>2. Cardinality(blocked)' = 0 /\ sem' >= 0
    BY <1>1, <2>1, FS_EmptySet
  <2> QED
    BY <2>1, <2>2 DEF Counted
<1>2. CASE \E w \in blocked : blocked' = blocked \ {w}
  <2>1. PICK w \in blocked : blocked' = blocked \ {w}
    BY <1>2
  <2>2. Cardinality(blocked \ {w}) = Cardinality(blocked) - 1
    BY <2>1, BlockedFinite, FS_RemoveElement
  <2>3. sem < 0
    BY <2>1, NoneBlocked DEF Types
  <2> QED
    BY <2>1, <2>2, <2>3 DEF Counted, Types
<1> QED
  BY <1>1, <1>2

LEMMA WaitCounts ==
  ASSUME Types, Counted, NEW w \in Waiter, waiter[w] = "wait", SemWait(w)
  PROVE  Counted'
<1>1. CASE sem > 0
  <2>1. sem \in Int /\ sem' = sem - 1 /\ blocked' = blocked
    BY <1>1 DEF Types, SemWait
  <2>2. Cardinality(blocked)' = Cardinality(blocked)
    BY <2>1
  <2> QED
    BY <1>1, <2>1, <2>2 DEF Counted
<1>2. CASE sem <= 0
  <2>1. w \notin blocked /\ blocked' = blocked \cup {w} /\ sem' = sem - 1
    BY <1>2 DEF Types, SemWait
  <2>2. Cardinality(blocked \cup {w}) = Cardinality(blocked) + 1
    BY <2>1, BlockedFinite, FS_AddElement
  <2> QED
    BY <1>2, <2>1, <2>2 DEF Counted, Types
<1> QED
  BY <1>1, <1>2 DEF Types

LEMMA Initially == Init => IInv
<1> SUFFICES ASSUME Init PROVE IInv
  OBVIOUS
<1>1. Types
  BY WaitQueueAssumption DEF Init, Types
<1>2. Counted
  BY FS_EmptySet DEF Init, Counted
<1>3. Served /\ OwedWoken
  BY DEF Init, Served, OwedWoken
<1>4. UnitsBounded
  <2>1. /\ Cardinality(Posting) <= Cardinality(Waker)
        /\ Cardinality(Posting) \in Nat /\ Cardinality(Waker) \in Nat
        /\ sem = 0 /\ singles = 0
    BY PostingFinite DEF Init
  <2> QED
    BY <2>1 DEF UnitsBounded, Posting
<1> QED
  BY <1>1, <1>2, <1>3, <1>4 DEF IInv

-----------------------------------------------------------------------------
(* The steps of a waiter.                                                  *)

LEMMA WaiterKeeps ==
  ASSUME IInv, NEW w \in Waiter, WaiterStep(w)
  PROVE  IInv'
<1>1. Types /\ Counted /\ Served /\ UnitsBounded /\ OwedWoken
  BY DEF IInv
<1>2. waker' = waker /\ singles' = singles /\ Posting' = Posting
  BY DEF WaiterStep, Test, Wait, Interrupted, Restart, Posting
<1>3. sem \in Int /\ singles \in Nat /\ Cardinality(Posting) \in Nat /\ Cardinality(Waker) \in Nat
      /\ Cardinality(Posting) <= Cardinality(Waker)
  BY <1>1, PostingFinite DEF Types
<1>4. CASE Test(w)
  <2>1. Types'
    BY <1>1, <1>4 DEF Types, Test
  <2>2. Counted' /\ UnitsBounded' /\ OwedWoken'
    BY <1>1, <1>4 DEF Counted, UnitsBounded, OwedWoken, Test
  <2>3. Served'
    BY <1>1, <1>4 DEF Types, Served, Test
  <2> QED
    BY <2>1, <2>2, <2>3 DEF IInv
<1>5. CASE Wait(w)
  <2>1. waiter[w] = "wait" /\ SemWait(w) /\ UNCHANGED <<done, waker, calls, owed, singles>>
    BY <1>5 DEF Wait
  <2>2. Types'
    BY <1>1, <2>1 DEF Types, SemWait
  <2>3. Counted'
    BY <1>1, <2>1, WaitCounts
  <2>4. \A k \in Waker : w \notin owed[k]
    BY <1>1, <2>1 DEF Served
  <2>5. Served'
    BY <1>1, <2>1, <2>4 DEF Types, Served, SemWait
  <2>6. OwedWoken'
    BY <1>1, <2>1, <2>4 DEF OwedWoken, SemWait
  <2>7. UnitsBounded'
    <3>1. sem' = sem - 1
      BY <2>1 DEF SemWait
    <3> QED
      BY <1>1, <1>2, <1>3, <3>1 DEF UnitsBounded, Posting
  <2> QED
    BY <2>2, <2>3, <2>5, <2>6, <2>7 DEF IInv
<1>6. CASE Interrupted(w)
  <2>1. w \in blocked /\ sem' = sem + 1 /\ blocked' = blocked \ {w}
    BY <1>1, <1>6 DEF Types, Interrupted
  <2>2. Types'
    BY <1>1, <1>6 DEF Types, Interrupted
  <2>3. Counted'
    BY <1>1, <2>1, LeaveCounts
  <2>4. Served' /\ OwedWoken'
    BY <1>1, <1>6 DEF Types, Served, OwedWoken, Interrupted
  <2>5. UnitsBounded'
    <3>1. sem < 0
      BY <1>1, <2>1, NoneBlocked DEF Types
    <3> QED
      BY <1>2, <1>3, <2>1, <3>1 DEF UnitsBounded, Posting
  <2> QED
    BY <2>2, <2>3, <2>4, <2>5 DEF IInv
<1>7. CASE Restart(w)
  <2>1. Types'
    BY <1>1, <1>7 DEF Types, Restart
  <2>2. Counted' /\ UnitsBounded'
    BY <1>1, <1>7 DEF Counted, UnitsBounded, Restart
  <2>3. Served' /\ OwedWoken'
    BY <1>1, <1>7 DEF Types, Served, OwedWoken, Restart
  <2> QED
    BY <2>1, <2>2, <2>3 DEF IInv
<1> QED
  BY <1>4, <1>5, <1>6, <1>7 DEF WaiterStep

-----------------------------------------------------------------------------
(* The steps of a waker.                                                   *)

LEMMA WakerKeeps ==
  ASSUME IInv, NEW k \in Waker, WakerStep(k)
  PROVE  IInv'
<1>1. Types /\ Counted /\ Served /\ UnitsBounded /\ OwedWoken
  BY DEF IInv
<1>2. sem \in Int /\ singles \in Nat /\ Cardinality(Waker) \in Nat /\ IsFiniteSet(Posting)
      /\ Cardinality(Posting) \in Nat
      /\ Cardinality(Posting)' \in Nat
      /\ Cardinality(Posting)' <= Cardinality(Waker)
  <2>1. Posting' \in SUBSET Waker
    BY DEF Posting
  <2>2. IsFiniteSet(Posting') /\ Cardinality(Posting') <= Cardinality(Waker)
    BY <2>1, FS_Subset, WaitQueueAssumption
  <2>3. Cardinality(Posting') \in Nat
    BY <2>2, FS_CardinalityType
  <2> QED
    BY <1>1, <2>2, <2>3, PostingFinite DEF Types
<1>3. CASE Complete(k)
  <2>1. PICK S \in SUBSET Waiter, to \in {"read", "one"} :
           /\ done' = [w \in Waiter |-> done[w] \/ w \in S]
           /\ owed' = [owed EXCEPT ![k] = IF to = "read" THEN S \cap blocked ELSE {}]
           /\ waker' = [waker EXCEPT ![k] = to]
    BY <1>3 DEF Complete
  <2>2. waker[k] = "idle" /\ calls[k] < MaxCalls
        /\ UNCHANGED <<sem, blocked, waiter, singles>>
        /\ calls' = [calls EXCEPT ![k] = @ + 1]
    BY <1>3 DEF Complete
  <2>3. Types'
    BY <1>1, <2>1, <2>2, WaitQueueAssumption DEF Types
  <2>4. Counted' /\ OwedWoken'
    BY <1>1, <2>1, <2>2 DEF Types, Counted, OwedWoken
  <2>5. Served'
    BY <1>1, <2>1, <2>2 DEF Types, Served
  <2>6. UnitsBounded'
    <3>1. Posting' = Posting
      BY <1>1, <2>1, <2>2 DEF Types, Posting
    <3> QED
      BY <1>1, <2>2, <3>1 DEF UnitsBounded, Posting
  <2> QED
    BY <2>3, <2>4, <2>5, <2>6 DEF IInv
<1>4. CASE ReadValue(k)
  <2>1. waker[k] = "read" /\ UNCHANGED <<sem, blocked, done, waiter, calls, owed, singles>>
        /\ waker' = [waker EXCEPT ![k] = IF sem <= 0 THEN "post" ELSE "idle"]
    BY <1>4 DEF ReadValue
  <2>2. Types' /\ Counted' /\ Served'
    BY <1>1, <2>1 DEF Types, Counted, Served
  <2>3. OwedWoken'
    <3>1. sem > 0 => blocked = {}
      BY <1>1, <1>2, NoneBlocked
    <3> QED
      BY <1>1, <2>1, <3>1 DEF Types, OwedWoken
  <2>4. UnitsBounded'
    <3>1. CASE sem <= 0
      BY <1>2, <2>1, <3>1 DEF UnitsBounded, Posting
    <3>2. CASE sem > 0
      <4>1. Posting' = Posting
        BY <1>1, <1>2, <2>1, <3>2 DEF Types, Posting
      <4> QED
        BY <1>1, <2>1, <4>1 DEF UnitsBounded, Posting
    <3> QED
      BY <1>2, <3>1, <3>2
  <2> QED
    BY <2>2, <2>3, <2>4 DEF IInv
<1>5. ASSUME SemPost, UNCHANGED <<done, calls, owed>>,
             waker[k] \in {"post", "one"},
             NEW to \in {"read", "idle"}, waker' = [waker EXCEPT ![k] = to],
             to = "idle" => waker[k] = "one", singles' \in Nat
      PROVE  Types' /\ Counted' /\ Served' /\ OwedWoken'
  <2>1. /\ sem' = sem + 1
        /\ \/ blocked = {} /\ blocked' = blocked
           \/ \E w \in blocked : blocked' = blocked \ {w}
        /\ blocked' \subseteq blocked
    BY <1>5 DEF SemPost
  <2>2. Types'
    BY <1>1, <1>5 DEF Types, SemPost
  <2>3. Counted'
    BY <1>1, <2>1, LeaveCounts
  <2>4. Served'
    BY <1>1, <1>5, <2>1 DEF Types, Served, SemPost
  <2>5. OwedWoken'
    BY <1>1, <1>5, <2>1 DEF Types, Served, OwedWoken
  <2> QED
    BY <2>2, <2>3, <2>4, <2>5
<1>6. CASE PostOne(k)
  <2>1. waker[k] = "one" /\ SemPost /\ UNCHANGED <<done, calls, owed>>
        /\ waker' = [waker EXCEPT ![k] = "idle"] /\ singles' = singles + 1
    BY <1>6 DEF PostOne
  <2>2. Types' /\ Counted' /\ Served' /\ OwedWoken'
    BY <1>2, <1>5, <2>1
  <2>3. UnitsBounded'
    <3>1. sem' = sem + 1
      BY <2>1 DEF SemPost
    <3>2. Posting' = Posting
      BY <1>1, <2>1 DEF Types, Posting
    <3> QED
      BY <1>1, <1>2, <2>1, <3>1, <3>2 DEF UnitsBounded, Posting
  <2> QED
    BY <2>2, <2>3 DEF IInv
<1>7. CASE Post(k)
  <2>1. waker[k] = "post" /\ SemPost /\ UNCHANGED <<done, calls, owed, singles>>
        /\ waker' = [waker EXCEPT ![k] = "read"]
    BY <1>7 DEF Post
  <2>2. Types' /\ Counted' /\ Served' /\ OwedWoken'
    BY <1>2, <1>5, <2>1
  <2>3. UnitsBounded'
    <3>1. k \in Posting /\ Posting' = Posting \ {k}
      BY <1>1, <2>1 DEF Types, Posting
    <3>2. Cardinality(Posting') = Cardinality(Posting) - 1
      BY <1>2, <3>1, FS_RemoveElement
    <3>3. sem' = sem + 1
      BY <2>1 DEF SemPost
    <3> QED
      BY <1>1, <1>2, <2>1, <3>2, <3>3 DEF UnitsBounded, Posting
  <2> QED
    BY <2>2, <2>3 DEF IInv
<1> QED
  BY <1>3, <1>4, <1>6, <1>7 DEF WakerStep

LEMMA Invariant == Spec => []IInv
<1>1. IInv /\ [Next]_vars => IInv'
  <2>1. CASE UNCHANGED vars
    BY <2>1 DEF vars, IInv, Types, Counted, Served, UnitsBounded, OwedWoken
  <2> QED
    BY <2>1, WaiterKeeps, WakerKeeps DEF Next
<1> QED
  BY <1>1, Initially, PTL DEF Spec

\* However often and from however many threads wake_up_all is called, it leaves
\* at most one unit per calling thread in the semaphore.
THEOREM UnitsStayBounded == Spec => []UnitsBounded
BY Invariant, PTL DEF IInv

\* When wake_up_all returns, every waiter that was blocked when its condition
\* became true has been woken.
THEOREM OwedAreWoken == Spec => []OwedWoken
BY Invariant, PTL DEF IInv

-----------------------------------------------------------------------------
(* How far a call of wake_up_all is from its end, and an owed waiter from  *)
(* its return.                                                             *)

\* The units that the waiters of the queue, and those about to join it, are short
\* of; and the posts before a value above zero stays in the semaphore.
Waiting == {w \in Waiter : waiter[w] = "wait"}
Short == Cardinality(Waiting) - sem
PostsNeeded(short) == IF short < 0 THEN 0 ELSE short + 1

\* The steps a call has left, by where it is.
CallSteps(at, short) ==
  IF at = "idle" THEN 0
  ELSE IF at = "one" THEN 1
  ELSE IF at = "read" THEN 2 * PostsNeeded(short) + 1
  ELSE IF PostsNeeded(short) = 0 THEN 2 ELSE 2 * PostsNeeded(short)

CallBounded ==
  \A k \in Waker : CallSteps(waker[k], Short) \in 0..(2 * Cardinality(Waiter) + 3)

\* While no condition is false every step of a call leaves it fewer steps, and no
\* step of another thread gives it more.
CallRunsDown ==
  [][(\A w \in Waiter : done[w]) =>
       \A k \in Waker :
         /\ PostOne(k) \/ ReadValue(k) \/ Post(k)
              => CallSteps(waker[k], Short)' < CallSteps(waker[k], Short)
         /\ waker[k]' = waker[k]
              => CallSteps(waker[k], Short)' <= CallSteps(waker[k], Short)]_vars

\* A waiter that is owed a wake-up, blocked or awake, only moves on: it never joins
\* the queue again before it has returned.
OwedMovesOn ==
  [][\A k \in Waker, w \in Waiter :
       w \in owed[k] /\ w \in owed[k]' =>
         /\ waiter[w] = "blocked" => waiter[w]' \in {"blocked", "test"}
         /\ waiter[w] = "test" => waiter[w]' \in {"test", "out"}
         /\ waiter[w] = "out" => waiter[w]' = "out"
         /\ Test(w) => waiter[w]' = "out"]_vars

\* What is short never exceeds the number of waiters.
LEMMA ShortBounded ==
  ASSUME IInv
  PROVE  /\ IsFiniteSet(Waiting) /\ Cardinality(Waiting) \in Nat /\ Cardinality(Waiter) \in Nat
         /\ sem \in Int /\ Short \in Int /\ Short <= Cardinality(Waiter)
<1>1. Types /\ Counted
  BY DEF IInv
<1>2. Waiting \in SUBSET Waiter /\ blocked \in SUBSET Waiter /\ Waiting \cap blocked = {}
  BY <1>1 DEF Types, Waiting
<1>3. /\ IsFiniteSet(Waiting) /\ IsFiniteSet(blocked)
      /\ Cardinality(Waiting \cup blocked) <= Cardinality(Waiter)
  <2>1. Waiting \cup blocked \in SUBSET Waiter
    BY <1>2
  <2>2. QED
    BY <1>2, <2>1, FS_Subset, WaitQueueAssumption
<1>4. Cardinality(Waiting \cup blocked)
        = Cardinality(Waiting) + Cardinality(blocked) - Cardinality(Waiting \cap blocked)
  BY <1>3, FS_Union
<1>5. /\ Cardinality(Waiting) \in Nat /\ Cardinality(blocked) \in Nat
      /\ Cardinality(Waiter) \in Nat /\ Cardinality(Waiting \cap blocked) = 0
  BY <1>2, <1>3, FS_CardinalityType, FS_EmptySet, WaitQueueAssumption
<1>6. sem \in Int /\ -sem <= Cardinality(blocked)
  BY <1>1 DEF Types, Counted
<1>7. QED
  BY <1>3, <1>4, <1>5, <1>6 DEF Short

\* A call has less to do when less is short, and a step of it leaves less.
LEMMA CallStepsValues ==
  ASSUME NEW x \in Int, NEW y \in Int, y <= x
  PROVE  /\ \A at \in {"idle", "one", "read", "post"} : CallSteps(at, y) <= CallSteps(at, x)
         /\ x >= 0 => CallSteps("post", x) < CallSteps("read", x)
         /\ CallSteps("idle", x) < CallSteps("read", x)
         /\ CallSteps("idle", x) < CallSteps("one", y)
         /\ y = x - 1 => CallSteps("read", y) < CallSteps("post", x)
<1>1. /\ PostsNeeded(x) \in Nat /\ PostsNeeded(y) \in Nat /\ PostsNeeded(y) <= PostsNeeded(x)
      /\ x >= 0 => PostsNeeded(x) > 0
      /\ x >= 0 /\ y = x - 1 => PostsNeeded(y) = PostsNeeded(x) - 1
      /\ x < 0 => PostsNeeded(y) = 0 /\ PostsNeeded(x) = 0
  BY DEF PostsNeeded
<1>2. \A at \in {"idle", "one", "read", "post"} : CallSteps(at, y) <= CallSteps(at, x)
  BY <1>1 DEF CallSteps
<1>3. x >= 0 => CallSteps("post", x) < CallSteps("read", x)
  BY <1>1 DEF CallSteps
<1>4. CallSteps("idle", x) < CallSteps("read", x) /\ CallSteps("idle", x) < CallSteps("one", y)
  BY <1>1 DEF CallSteps
<1>5. y = x - 1 => CallSteps("read", y) < CallSteps("post", x)
  BY <1>1 DEF CallSteps
<1>6. QED
  BY <1>2, <1>3, <1>4, <1>5

\* While no condition is false a waiter makes nothing short.
LEMMA WaiterShortens ==
  ASSUME IInv, \A v \in Waiter : done[v], NEW w \in Waiter, WaiterStep(w)
  PROVE  Short' \in Int /\ Short' <= Short /\ waker' = waker
<1>1. /\ Types /\ sem \in Int /\ IsFiniteSet(Waiting) /\ Cardinality(Waiting) \in Nat
      /\ Short \in Int
  BY ShortBounded DEF IInv
<1>2. waker' = waker
  BY DEF WaiterStep, Test, Wait, Interrupted, Restart
<1>3. CASE Test(w) \/ Restart(w)
  <2>1. sem' = sem /\ Waiting' = Waiting
    BY <1>1, <1>3 DEF Test, Restart, Types, Waiting
  <2>2. QED
    BY <1>1, <1>2, <2>1 DEF Short
<1>4. CASE Wait(w)
  <2>1. sem' = sem - 1 /\ w \in Waiting /\ Waiting' = Waiting \ {w}
    BY <1>1, <1>4 DEF Wait, SemWait, Types, Waiting
  <2>2. Cardinality(Waiting \ {w}) = Cardinality(Waiting) - 1
    BY <1>1, <2>1, FS_RemoveElement
  <2>3. Short' = Short
    BY <1>1, <2>1, <2>2 DEF Short
  <2>4. QED
    BY <1>1, <1>2, <2>3
<1>5. CASE Interrupted(w)
  <2>1. sem' = sem + 1 /\ Waiting' = Waiting
    BY <1>1, <1>5 DEF Interrupted, Types, Waiting
  <2>2. QED
    BY <1>1, <1>2, <2>1 DEF Short
<1>6. QED
  BY <1>3, <1>4, <1>5 DEF WaiterStep

\* nxsem_post makes one less short.
LEMMA PostShortens ==
  ASSUME IInv, SemPost
  PROVE  Short' = Short - 1 /\ Short \in Int
<1>1. Types /\ sem \in Int /\ Cardinality(Waiting) \in Nat /\ Short \in Int
  BY ShortBounded DEF IInv
<1>2. sem' = sem + 1 /\ Waiting' = Waiting
  BY <1>1 DEF SemPost, Types, Waiting
<1>3. QED
  BY <1>1, <1>2 DEF Short

\* A step of a call leaves that call fewer steps and the others no more.
LEMMA CallShortens ==
  ASSUME IInv, NEW k \in Waker, PostOne(k) \/ ReadValue(k) \/ Post(k)
  PROVE  /\ CallSteps(waker[k], Short)' < CallSteps(waker[k], Short)
         /\ Short' \in Int /\ Short' <= Short
         /\ waker' = [waker EXCEPT ![k] = waker'[k]] /\ waker[k]' # waker[k]
<1>1. Types /\ Short \in Int /\ sem \in Int
  BY ShortBounded DEF IInv
<1>2. CASE PostOne(k)
  <2>1. Short' = Short - 1
    BY <1>2, PostShortens DEF PostOne
  <2>2. waker[k] = "one" /\ waker[k]' = "idle" /\ waker' = [waker EXCEPT ![k] = waker'[k]]
    BY <1>1, <1>2 DEF PostOne, Types
  <2>3. Short' \in Int /\ Short' <= Short
    BY <1>1, <2>1
  <2>4. CallSteps("idle", Short') < CallSteps("one", Short)
    BY <1>1, <2>3 DEF CallSteps
  <2>5. QED
    BY <2>2, <2>3, <2>4
<1>3. CASE ReadValue(k)
  <2>1. /\ Short' = Short /\ waker[k] = "read"
        /\ waker' = [waker EXCEPT ![k] = waker'[k]]
        /\ waker[k]' = IF sem <= 0 THEN "post" ELSE "idle"
    BY <1>1, <1>3 DEF ReadValue, Types, Short, Waiting
  <2>2. sem <= 0 => Short >= 0
    BY ShortBounded DEF Short
  <2>3. CallSteps(waker[k]', Short) < CallSteps("read", Short)
    BY <1>1, <2>1, <2>2, CallStepsValues
  <2>4. QED
    BY <1>1, <2>1, <2>3
<1>4. CASE Post(k)
  <2>1. Short' = Short - 1
    BY <1>4, PostShortens DEF Post
  <2>2. waker[k] = "post" /\ waker[k]' = "read" /\ waker' = [waker EXCEPT ![k] = waker'[k]]
    BY <1>1, <1>4 DEF Post, Types
  <2>3. Short' \in Int /\ Short' <= Short
    BY <1>1, <2>1
  <2>4. CallSteps("read", Short') < CallSteps("post", Short)
    BY <1>1, <2>1, <2>3, CallStepsValues
  <2>5. QED
    BY <2>2, <2>3, <2>4
<1>5. QED
  BY <1>2, <1>3, <1>4

\* For any number of threads: a wake_up_all has at most 2 * Cardinality(Waiter) + 3
\* of its own steps left, each a call of nxsem_get_value or of nxsem_post, whatever
\* number of units the others take and leave (ethercat/nuttx/linux/wait.h,
\* wake_up_all).
THEOREM WakeIsBounded == Spec => []CallBounded
<1>1. IInv => CallBounded
  <2> SUFFICES ASSUME IInv, NEW k \in Waker
               PROVE  CallSteps(waker[k], Short) \in 0..(2 * Cardinality(Waiter) + 3)
    BY DEF CallBounded
  <2>1. Short \in Int /\ Cardinality(Waiter) \in Nat /\ Short <= Cardinality(Waiter)
    BY ShortBounded
  <2>2. PostsNeeded(Short) \in 0..(Cardinality(Waiter) + 1)
    BY <2>1 DEF PostsNeeded
  <2>3. QED
    BY <2>1, <2>2 DEF CallSteps
<1>2. QED
  BY <1>1, Invariant, PTL

\* For any number of threads: once no condition is false every wake_up_all runs
\* down to its return, the waiters that still join the queue and take its units
\* notwithstanding; the waiter of a condition that stays false can keep it going
\* (ethercat/nuttx/linux/wait.h, wake_up_all and __wait_event).
THEOREM WakeRunsDown == Spec => CallRunsDown
<1>1. IInv /\ [Next]_vars =>
        [(\A w \in Waiter : done[w]) =>
           \A k \in Waker :
             /\ PostOne(k) \/ ReadValue(k) \/ Post(k)
                  => CallSteps(waker[k], Short)' < CallSteps(waker[k], Short)
             /\ waker[k]' = waker[k]
                  => CallSteps(waker[k], Short)' <= CallSteps(waker[k], Short)]_vars
  <2> SUFFICES ASSUME IInv, Next, \A w \in Waiter : done[w], NEW k \in Waker
               PROVE  /\ PostOne(k) \/ ReadValue(k) \/ Post(k)
                           => CallSteps(waker[k], Short)' < CallSteps(waker[k], Short)
                      /\ waker[k]' = waker[k]
                           => CallSteps(waker[k], Short)' <= CallSteps(waker[k], Short)
    OBVIOUS
  <2>1. Types /\ Short \in Int /\ waker[k] \in {"idle", "one", "read", "post"}
    BY ShortBounded DEF IInv, Types
  <2>2. PostOne(k) \/ ReadValue(k) \/ Post(k)
          => CallSteps(waker[k], Short)' < CallSteps(waker[k], Short)
    BY CallShortens
  <2>3. Short' \in Int /\ Short' <= Short
    <3>1. ASSUME NEW w \in Waiter, WaiterStep(w) PROVE Short' \in Int /\ Short' <= Short
      BY <3>1, WaiterShortens
    <3>2. ASSUME NEW i \in Waker, PostOne(i) \/ ReadValue(i) \/ Post(i)
          PROVE  Short' \in Int /\ Short' <= Short
      BY <3>2, CallShortens
    <3>3. ASSUME NEW i \in Waker, Complete(i) PROVE Short' \in Int /\ Short' <= Short
      BY <2>1, <3>3 DEF Complete, Short, Waiting
    <3>4. QED
      BY <3>1, <3>2, <3>3 DEF Next, WakerStep
  <2>4. CallSteps(waker[k], Short') <= CallSteps(waker[k], Short)
    BY <2>1, <2>3, CallStepsValues
  <2>5. QED
    BY <2>2, <2>4
<1>2. QED
  BY <1>1, Invariant, PTL DEF Spec, CallRunsDown

\* For any number of threads: a waiter that wake_up_all owes a wake-up has its
\* condition, so a signal or the wake-up of another call sends it out of the loop
\* and never back into the queue (ethercat/nuttx/linux/wait.h, __wait_event).
THEOREM OwedOnlyMovesOn == Spec => OwedMovesOn
<1>1. IInv /\ [Next]_vars =>
        [\A k \in Waker, w \in Waiter :
           w \in owed[k] /\ w \in owed[k]' =>
             /\ waiter[w] = "blocked" => waiter[w]' \in {"blocked", "test"}
             /\ waiter[w] = "test" => waiter[w]' \in {"test", "out"}
             /\ waiter[w] = "out" => waiter[w]' = "out"
             /\ Test(w) => waiter[w]' = "out"]_vars
  <2> SUFFICES ASSUME IInv, Next, NEW k \in Waker, NEW w \in Waiter,
                      w \in owed[k], w \in owed[k]'
               PROVE  /\ waiter[w] = "blocked" => waiter[w]' \in {"blocked", "test"}
                      /\ waiter[w] = "test" => waiter[w]' \in {"test", "out"}
                      /\ waiter[w] = "out" => waiter[w]' = "out"
                      /\ Test(w) => waiter[w]' = "out"
    OBVIOUS
  <2>1. Types /\ done[w]
    BY DEF IInv, Served
  <2>2. ASSUME NEW v \in Waiter, Test(v) PROVE waiter' = [waiter EXCEPT ![v] = waiter'[v]]
                                               /\ (v = w => waiter[w] = "test" /\ waiter'[w] = "out")
    BY <2>1, <2>2 DEF Test, Types
  <2>3. CASE \E v \in Waiter : Test(v)
    BY <2>1, <2>2, <2>3 DEF Test, Types
  <2>4. ASSUME ~\E v \in Waiter : Test(v)
        PROVE  /\ waiter[w] = "blocked" => waiter[w]' \in {"blocked", "test"}
               /\ waiter[w] = "test" => waiter[w]' = "test"
               /\ waiter[w] = "out" => waiter[w]' = "out"
    <3>1. ASSUME NEW v \in Waiter, Wait(v) \/ Interrupted(v)
          PROVE  /\ waiter[w] = "blocked" => waiter[w]' \in {"blocked", "test"}
                 /\ waiter[w] = "test" => waiter[w]' = "test"
                 /\ waiter[w] = "out" => waiter[w]' = "out"
      BY <2>1, <3>1 DEF Wait, SemWait, Interrupted, Types
    <3>2. ASSUME NEW v \in Waiter, Restart(v)
          PROVE  v # w /\ waiter' = [waiter EXCEPT ![v] = "test"] /\ waiter[v] = "out"
      <4>1. owed[k]' = owed[k] \ {v}
        BY <3>2 DEF Restart
      <4>2. QED
        BY <3>2, <4>1 DEF Restart
    <3>3. ASSUME NEW i \in Waker, WakerStep(i)
          PROVE  waiter' = waiter \/ \E v \in blocked : waiter' = [waiter EXCEPT ![v] = "test"]
      BY <3>3 DEF WakerStep, Complete, PostOne, ReadValue, Post, SemPost
    <3>4. CASE \E v \in Waiter : Restart(v)
      BY <2>1, <3>2, <3>4 DEF Types
    <3>5. CASE \E i \in Waker : WakerStep(i)
      BY <2>1, <3>3, <3>5 DEF Types
    <3>6. QED
      BY <2>4, <3>1, <3>4, <3>5 DEF Next, WaiterStep
  <2>5. QED
    BY <2>3, <2>4
<1>2. QED
  BY <1>1, Invariant, PTL DEF Spec, OwedMovesOn

-----------------------------------------------------------------------------
(* A call of either function leaves at most one unit behind.               *)

\* The calls begun, as pairs; and the wakers about to post.
Begun(n) == {c \in Waker \X (1 .. MaxCalls) : c[2] <= n[c[1]]}
At(where, at) == {k \in Waker : at[k] \in where}

\* The units in the semaphore and those about to be posted are at most one for each
\* call, and so are the calls of wake_up_interruptible.
UnitsPerCall ==
  /\ \A k \in Waker : waker[k] # "idle" => calls[k] >= 1
  /\ sem + Cardinality(At({"post", "one"}, waker)) <= Cardinality(Begun(calls))
  /\ singles + Cardinality(At({"one"}, waker)) <= Cardinality(Begun(calls))

LEMMA BegunFinite ==
  ASSUME NEW n
  PROVE  /\ IsFiniteSet(Begun(n)) /\ Cardinality(Begun(n)) \in Nat
         /\ Cardinality(Begun(n)) <= Cardinality(Waker) * MaxCalls
         /\ Cardinality(Waker) \in Nat
<1>1. /\ IsFiniteSet(Waker) /\ Cardinality(Waker) \in Nat
      /\ IsFiniteSet(1 .. MaxCalls) /\ Cardinality(1 .. MaxCalls) = MaxCalls
  <2>1. IsFiniteSet(Waker) /\ 1 \in Int /\ MaxCalls \in Int /\ MaxCalls >= 0
    BY WaitQueueAssumption
  <2>2. /\ IsFiniteSet(1 .. MaxCalls)
        /\ Cardinality(1 .. MaxCalls) = IF 1 > MaxCalls THEN 0 ELSE MaxCalls - 1 + 1
    BY <2>1, FS_Interval
  <2>3. Cardinality(Waker) \in Nat
    BY <2>1, FS_CardinalityType
  <2>4. QED
    BY <2>1, <2>2, <2>3
<1>2. /\ IsFiniteSet(Waker \X (1 .. MaxCalls))
      /\ Cardinality(Waker \X (1 .. MaxCalls)) = Cardinality(Waker) * MaxCalls
  <2>1. /\ IsFiniteSet(Waker \X (1 .. MaxCalls))
        /\ Cardinality(Waker \X (1 .. MaxCalls))
             = Cardinality(Waker) * Cardinality(1 .. MaxCalls)
    BY <1>1, FS_Product
  <2>2. QED
    BY <1>1, <2>1
<1>3. Begun(n) \in SUBSET (Waker \X (1 .. MaxCalls))
  BY DEF Begun
<1>4. /\ IsFiniteSet(Begun(n))
      /\ Cardinality(Begun(n)) <= Cardinality(Waker \X (1 .. MaxCalls))
  BY <1>2, <1>3, FS_Subset
<1>5. QED
  BY <1>1, <1>2, <1>4, FS_CardinalityType

LEMMA AtFinite ==
  ASSUME NEW where, NEW at
  PROVE  IsFiniteSet(At(where, at)) /\ Cardinality(At(where, at)) \in Nat
<1>1. At(where, at) \in SUBSET Waker
  BY DEF At
<1>2. IsFiniteSet(At(where, at))
  BY <1>1, FS_Subset, WaitQueueAssumption
<1>3. QED
  BY <1>2, FS_CardinalityType

\* A waker that is about to post has begun a call.
LEMMA PostsAreCalls ==
  ASSUME NEW n \in [Waker -> 0 .. MaxCalls], NEW at,
         \A k \in Waker : at[k] # "idle" => n[k] >= 1
  PROVE  Cardinality(At({"post", "one"}, at)) <= Cardinality(Begun(n))
<1> DEFINE S == At({"post", "one"}, at)
           first == [k \in S |-> <<k, 1>>]
<1>1. \A k \in S : k \in Waker /\ <<k, 1>> \in Begun(n)
  BY WaitQueueAssumption DEF At, Begun
<1>2. first \in Injection(S, Begun(n))
  BY <1>1 DEF Injection, IsInjective
<1>3. QED
  BY <1>2, BegunFinite, FS_Injection

LEMMA WaiterKeepsUnits ==
  ASSUME IInv, UnitsPerCall, NEW w \in Waiter, WaiterStep(w)
  PROVE  UnitsPerCall'
<1> DEFINE P == Cardinality(At({"post", "one"}, waker))
           B == Cardinality(Begun(calls))
<1>1. UNCHANGED <<waker, calls, singles>>
  BY DEF WaiterStep, Test, Wait, Interrupted, Restart
<1>2. sem \in Int /\ P \in Nat /\ B \in Nat /\ P <= B
  <2>1. sem \in Int /\ calls \in [Waker -> 0 .. MaxCalls]
    BY DEF IInv, Types
  <2>2. QED
    BY <2>1, AtFinite, BegunFinite, PostsAreCalls DEF UnitsPerCall
<1>3. sem' <= sem \/ sem' <= 0
  <2>1. CASE Test(w) \/ Restart(w)
    BY <1>2, <2>1 DEF Test, Restart
  <2>2. CASE Wait(w)
    BY <1>2, <2>2 DEF Wait, SemWait
  <2>3. CASE Interrupted(w)
    <3>1. sem' = sem + 1 /\ w \in blocked
      BY <2>3 DEF Interrupted, IInv, Types
    <3>2. sem < 0
      BY <1>2, <3>1, NoneBlocked DEF IInv
    <3>3. QED
      BY <1>2, <3>1, <3>2
  <2>4. QED
    BY <2>1, <2>2, <2>3 DEF WaiterStep
<1>4. sem' \in Int
  BY <1>2 DEF WaiterStep, Test, Wait, SemWait, Interrupted, Restart
<1>5. sem + P <= B
  BY DEF UnitsPerCall
<1>6. sem' + P <= B
  <2>1. ASSUME NEW u \in Int, NEW v \in Int, NEW p \in Nat, NEW b \in Nat,
               v <= u \/ v <= 0, p <= b, u + p <= b
        PROVE  v + p <= b
    BY <2>1
  <2> HIDE DEF P, B
  <2>2. QED
    BY <1>2, <1>3, <1>4, <1>5, <2>1
<1>7. QED
  BY <1>1, <1>6 DEF UnitsPerCall

LEMMA WakerKeepsUnits ==
  ASSUME IInv, UnitsPerCall, NEW k \in Waker, WakerStep(k)
  PROVE  UnitsPerCall'
<1> DEFINE where == {"post", "one"}
           P == Cardinality(At(where, waker))
           P1 == Cardinality(At(where, waker'))
           O == Cardinality(At({"one"}, waker))
           O1 == Cardinality(At({"one"}, waker'))
           B == Cardinality(Begun(calls))
           B1 == Cardinality(Begun(calls'))
<1>1. /\ waker \in [Waker -> {"idle", "read", "post", "one"}]
      /\ calls \in [Waker -> 0 .. MaxCalls] /\ sem \in Int /\ singles \in Nat /\ MaxCalls \in Nat
  BY WaitQueueAssumption DEF IInv, Types
<1>2. P \in Nat /\ P1 \in Nat /\ O \in Nat /\ O1 \in Nat /\ B \in Nat /\ B1 \in Nat
  BY AtFinite, BegunFinite
<1>3. /\ \A i \in Waker : waker[i] # "idle" => calls[i] >= 1
      /\ sem + P <= B /\ singles + O <= B
  BY DEF UnitsPerCall
<1>4. SUFFICES /\ \A i \in Waker : waker'[i] # "idle" => calls'[i] >= 1
               /\ sem' + P1 <= B1 /\ singles' + O1 <= B1
  BY DEF UnitsPerCall
<1>5. CASE Complete(k)
  <2>1. PICK to \in {"read", "one"} : waker' = [waker EXCEPT ![k] = to]
    BY <1>5 DEF Complete
  <2>2. waker[k] = "idle" /\ calls[k] < MaxCalls /\ calls' = [calls EXCEPT ![k] = @ + 1]
        /\ sem' = sem /\ singles' = singles
    BY <1>5 DEF Complete
  <2>3. \A i \in Waker : waker'[i] # "idle" => calls'[i] >= 1
    BY <1>1, <1>3, <2>1, <2>2
  <2>4. B1 = B + 1
    <3> DEFINE c == <<k, calls[k] + 1>>
    <3>1. c \notin Begun(calls)
      BY <1>1 DEF Begun
    <3>2. Begun(calls') = Begun(calls) \cup {c}
      BY <1>1, <2>2 DEF Begun
    <3>3. QED
      BY <3>1, <3>2, BegunFinite, FS_AddElement
  <2>5. P1 <= P + 1 /\ O1 <= O + 1
    <3>1. ASSUME NEW W PROVE Cardinality(At(W, waker')) <= Cardinality(At(W, waker)) + 1
      <4>1. At(W, waker') \in SUBSET (At(W, waker) \cup {k})
        BY <1>1, <2>1 DEF At
      <4>2. /\ IsFiniteSet(At(W, waker) \cup {k})
            /\ Cardinality(At(W, waker) \cup {k}) <= Cardinality(At(W, waker)) + 1
        BY AtFinite, FS_AddElement
      <4>3. Cardinality(At(W, waker')) <= Cardinality(At(W, waker) \cup {k})
        BY <4>1, <4>2, FS_Subset
      <4>4. Cardinality(At(W, waker) \cup {k}) \in Nat
        BY <4>2, FS_CardinalityType
      <4>5. QED
        BY <4>2, <4>3, <4>4, AtFinite
    <3>2. QED
      BY <3>1
  <2> HIDE DEF P, P1, O, O1, B, B1
  <2>6. QED
    BY <1>1, <1>2, <1>3, <2>2, <2>3, <2>4, <2>5
<1>6. CASE PostOne(k)
  <2>1. /\ waker[k] = "one" /\ waker' = [waker EXCEPT ![k] = "idle"]
        /\ sem' = sem + 1 /\ singles' = singles + 1 /\ calls' = calls
    BY <1>6 DEF PostOne, SemPost
  <2>2. \A i \in Waker : waker'[i] # "idle" => calls'[i] >= 1
    BY <1>1, <1>3, <2>1
  <2>3. P1 = P - 1
    <3>1. k \in At(where, waker) /\ At(where, waker') = At(where, waker) \ {k}
      BY <1>1, <2>1 DEF At
    <3>2. QED
      BY <3>1, AtFinite, FS_RemoveElement
  <2>4. O1 = O - 1
    <3>1. k \in At({"one"}, waker) /\ At({"one"}, waker') = At({"one"}, waker) \ {k}
      BY <1>1, <2>1 DEF At
    <3>2. QED
      BY <3>1, AtFinite, FS_RemoveElement
  <2>5. B1 = B
    BY <2>1
  <2> HIDE DEF P, P1, O, O1, B, B1
  <2>6. QED
    BY <1>1, <1>2, <1>3, <2>1, <2>2, <2>3, <2>4, <2>5
<1>7. CASE ReadValue(k)
  <2>1. /\ waker[k] = "read" /\ UNCHANGED <<sem, calls, singles>>
        /\ waker' = [waker EXCEPT ![k] = IF sem <= 0 THEN "post" ELSE "idle"]
    BY <1>7 DEF ReadValue
  <2>2. \A i \in Waker : waker'[i] # "idle" => calls'[i] >= 1
    BY <1>1, <1>3, <2>1
  <2>3. O1 = O /\ B1 = B
    <3>1. At({"one"}, waker') = At({"one"}, waker)
      BY <1>1, <2>1 DEF At
    <3>2. QED
      BY <2>1, <3>1
  <2>4. sem > 0 => P1 = P
    <3>1. sem > 0 => At(where, waker') = At(where, waker)
      BY <1>1, <2>1 DEF At
    <3>2. QED
      BY <3>1
  <2>5. P1 <= B1
    <3>1. calls' \in [Waker -> 0 .. MaxCalls]
      BY <1>1, <2>1
    <3>2. QED
      BY <2>2, <3>1, PostsAreCalls
  <2> HIDE DEF P, P1, O, O1, B, B1
  <2>6. QED
    BY <1>1, <1>2, <1>3, <2>1, <2>2, <2>3, <2>4, <2>5
<1>8. CASE Post(k)
  <2>1. /\ waker[k] = "post" /\ waker' = [waker EXCEPT ![k] = "read"]
        /\ sem' = sem + 1 /\ UNCHANGED <<calls, singles>>
    BY <1>8 DEF Post, SemPost
  <2>2. \A i \in Waker : waker'[i] # "idle" => calls'[i] >= 1
    BY <1>1, <1>3, <2>1
  <2>3. P1 = P - 1
    <3>1. k \in At(where, waker) /\ At(where, waker') = At(where, waker) \ {k}
      BY <1>1, <2>1 DEF At
    <3>2. QED
      BY <3>1, AtFinite, FS_RemoveElement
  <2>4. O1 = O /\ B1 = B
    <3>1. At({"one"}, waker') = At({"one"}, waker)
      BY <1>1, <2>1 DEF At
    <3>2. QED
      BY <2>1, <3>1
  <2> HIDE DEF P, P1, O, O1, B, B1
  <2>5. QED
    BY <1>1, <1>2, <1>3, <2>1, <2>2, <2>3, <2>4
<1>9. QED
  BY <1>5, <1>6, <1>7, <1>8 DEF WakerStep

\* Every variable has its type: the semaphore counts its waiters downwards, and
\* upwards never more units than there were calls (ethercat/nuttx/linux/wait.h,
\* wake_up_all and wake_up_interruptible).
THEOREM TypeCorrect == Spec => []TypeOK
<1>1. Init => UnitsPerCall
  <2> SUFFICES ASSUME Init PROVE UnitsPerCall
    OBVIOUS
  <2>1. /\ \A k \in Waker : waker[k] = "idle"
        /\ sem = 0 /\ singles = 0
    BY DEF Init
  <2>2. At({"post", "one"}, waker) = {} /\ At({"one"}, waker) = {}
    BY <2>1 DEF At
  <2>3. /\ Cardinality(At({"post", "one"}, waker)) = 0
        /\ Cardinality(At({"one"}, waker)) = 0
    BY <2>2, FS_EmptySet
  <2>4. Cardinality(Begun(calls)) \in Nat
    BY BegunFinite
  <2>5. QED
    BY <2>1, <2>3, <2>4 DEF UnitsPerCall
<1>2. IInv /\ UnitsPerCall /\ [Next]_vars => UnitsPerCall'
  <2>1. CASE UNCHANGED vars
    BY <2>1 DEF vars, UnitsPerCall
  <2>2. QED
    BY <2>1, WaiterKeepsUnits, WakerKeepsUnits DEF Next
<1>3. IInv /\ UnitsPerCall => TypeOK
  <2> SUFFICES ASSUME IInv, UnitsPerCall PROVE TypeOK
    OBVIOUS
  <2> DEFINE bound == Cardinality(Waker) * MaxCalls
  <2>1. Types /\ Counted
    BY DEF IInv
  <2>2. /\ sem \in Int /\ singles \in Nat
        /\ Cardinality(blocked) = IF sem < 0 THEN -sem ELSE 0
    BY <2>1 DEF Types, Counted
  <2>3. /\ Cardinality(blocked) <= Cardinality(Waiter)
        /\ Cardinality(blocked) \in Nat /\ Cardinality(Waiter) \in Nat
    <3>1. blocked \in SUBSET Waiter
      BY <2>1 DEF Types
    <3>2. QED
      BY <2>1, <3>1, BlockedFinite, FS_Subset, FS_CardinalityType, WaitQueueAssumption
  <2>4. bound \in Nat /\ sem <= bound /\ singles <= bound
    <3>1. /\ Cardinality(Begun(calls)) \in Nat /\ Cardinality(Begun(calls)) <= bound
          /\ Cardinality(Waker) \in Nat /\ MaxCalls \in Nat
      BY BegunFinite, WaitQueueAssumption
    <3>2. /\ Cardinality(At({"post", "one"}, waker)) \in Nat
          /\ Cardinality(At({"one"}, waker)) \in Nat
      BY AtFinite
    <3>3. bound \in Nat
      BY <3>1
    <3>4. /\ sem + Cardinality(At({"post", "one"}, waker)) <= Cardinality(Begun(calls))
          /\ singles + Cardinality(At({"one"}, waker)) <= Cardinality(Begun(calls))
      BY DEF UnitsPerCall
    <3> HIDE DEF bound
    <3>5. QED
      BY <2>2, <3>1, <3>2, <3>3, <3>4
  <2> HIDE DEF bound
  <2>5. sem \in -Cardinality(Waiter) .. bound /\ singles \in 0 .. bound
    BY <2>2, <2>3, <2>4
  <2>6. (sem < 0 => Cardinality(blocked) = -sem) /\ (sem >= 0 => blocked = {})
    BY <2>1, <2>2, NoneBlocked
  <2>7. QED
    BY <2>1, <2>5, <2>6 DEF TypeOK, Types, bound
<1>4. QED
  BY <1>1, <1>2, <1>3, Invariant, PTL DEF Spec
=============================================================================
