-------------------------- MODULE EcKthreadProofs --------------------------
(***************************************************************************)
(* As long as no kthread_stop is interrupted, the master and one thread    *)
(* share one task_struct and hand it to each other in order, for any       *)
(* number of threads started in any number of memory blocks.               *)
(* Interrupted or not, kthread_stop returns after a few steps, and every   *)
(* variable has its type.                                                  *)
(***************************************************************************)
EXTENDS EcKthread, FiniteSetTheorems, TLAPS

\* The points of the master at which the latest thread may run.
MayRun == {"created", "up", "wait"}

Types ==
  /\ owner \in [Block -> {0} \cup Thread]
  /\ running \in [Block -> BOOLEAN]
  /\ semexit \in [Block -> Nat]
  /\ main \in {"idle", "create", "created", "up", "wait", "free", "freed"}
  /\ t \in Block \cup {Null}
  /\ started \in 0 .. MaxStart
  /\ pc \in [Thread -> {"none", "start", "loop", "post", "done"}]
  /\ arg \in [Thread -> Block \cup {Null}]
  /\ early \in BOOLEAN

\* The one struct is that of the latest thread, and t refers to it.
OneStruct ==
  /\ \A b \in Block : owner[b] # 0 => b = t /\ main \notin {"idle", "freed"}
  /\ main \notin {"idle", "freed"} =>
       t \in Block /\ started \in Thread /\ owner[t] = started
  /\ thread = IF main \in {"up", "wait", "free", "freed"} THEN t ELSE Null

\* Only the latest thread runs; it has posted semexit exactly when it is done.
OneThread ==
  /\ \A k \in Thread :
       pc[k] \in {"start", "loop", "post"} => k = started /\ main \in MayRun
  /\ main = "create" => semexit[t] = 0
  /\ main \in MayRun =>
       /\ arg[started] = t
       /\ pc[started] # "none"
       /\ semexit[t] = IF pc[started] = "done" THEN 1 ELSE 0
  /\ main = "created" /\ pc[started] # "start" => early

NoStrays == strays \subseteq (IF early THEN {"null"} ELSE {})

InOrder == Types /\ OneStruct /\ OneThread /\ NoStrays

IInv == interrupted \/ InOrder

-----------------------------------------------------------------------------
LEMMA Initially == Init => IInv
<1> SUFFICES ASSUME Init PROVE InOrder
  BY DEF IInv
<1> USE KthreadAssumption DEF Init
<1>1. Types
  <2>1. running \in [Block -> BOOLEAN]
    BY Zenon
  <2>2. early \in BOOLEAN
    OBVIOUS
  <2> QED
    BY <2>1, <2>2 DEF Types, Thread
<1>2. OneStruct
  BY DEF OneStruct
<1>3. OneThread /\ NoStrays
  BY DEF OneThread, NoStrays, MayRun
<1> QED
  BY <1>1, <1>2, <1>3 DEF InOrder

\* The steps of the master.
LEMMA MasterKeeps ==
  ASSUME InOrder, ~interrupted, MasterStep
  PROVE  IInv'
<1> USE KthreadAssumption
    DEF InOrder, Types, OneStruct, OneThread, NoStrays, MayRun, Thread, IInv, heap
<1>1. CASE Allocate
  BY <1>1 DEF Allocate
<1>2. CASE Create
  BY <1>2 DEF Create
<1>3. CASE CreateFails
  BY <1>3 DEF CreateFails
<1>4. CASE Store
  BY <1>4 DEF Store
<1>5. CASE Stop
  BY <1>5 DEF Stop
<1>6. CASE Wait
  BY <1>6 DEF Wait
<1>7. CASE WaitInterrupted
  BY <1>7 DEF WaitInterrupted
<1>8. CASE Free
  BY <1>8 DEF Free
<1>9. CASE Forget
  BY <1>9 DEF Forget
<1> QED
  BY <1>1, <1>2, <1>3, <1>4, <1>5, <1>6, <1>7, <1>8, <1>9 DEF MasterStep

\* The steps of a thread.
LEMMA ThreadKeeps ==
  ASSUME InOrder, NEW k \in Thread, ThreadStep(k)
  PROVE  IInv'
<1> USE KthreadAssumption
    DEF InOrder, Types, OneStruct, OneThread, NoStrays, MayRun, Thread, IInv, heap
<1>1. CASE Enter(k)
  BY <1>1 DEF Enter
<1>2. CASE ShouldStop(k)
  BY <1>2 DEF ShouldStop, ThreadLive
<1>3. CASE Post(k)
  BY <1>3 DEF Post
<1> QED
  BY <1>1, <1>2, <1>3 DEF ThreadStep

LEMMA Invariant == Spec => []IInv
<1>1. IInv /\ [Next]_vars => IInv'
  <2>1. CASE UNCHANGED vars
    BY <2>1 DEF vars, heap, IInv, InOrder, Types, OneStruct, OneThread, NoStrays
  <2>2. CASE interrupted /\ Next
    BY <2>2 DEF IInv, Next, MasterStep, ThreadStep, Allocate, Create, CreateFails,
       Store, Stop, Wait, WaitInterrupted, Free, Forget, Enter, ShouldStop, Post
  <2> QED
    BY <2>1, <2>2, MasterKeeps, ThreadKeeps DEF IInv, Next
<1> QED
  BY <1>1, Initially, PTL DEF Spec

\* As long as no kthread_stop was interrupted, no thread looks at or posts a
\* task_struct that is not its own, however the blocks are reused, and it finds
\* master->thread NULL only if some thread ran before its creator stored it.
THEOREM OwnTaskOnly == Spec => []OwnTask
<1>1. IInv => OwnTask
  BY DEF IInv, InOrder, NoStrays, OwnTask
<1> QED
  BY <1>1, Invariant, PTL

\* In the same case kthread_stop returns only when the thread is at its end, and
\* the only task_struct allocated is that of the thread being run or stopped.
THEOREM NothingLeft == Spec => []StopLeavesNothing
<1>1. IInv => StopLeavesNothing
  BY DEF IInv, InOrder, Types, OneStruct, OneThread, MayRun, StopLeavesNothing, Thread
<1> QED
  BY <1>1, Invariant, PTL

-----------------------------------------------------------------------------
(* The end of kthread_stop, whatever was interrupted before and whichever  *)
(* structs earlier threads still use.                                      *)

Stopping == main \in {"wait", "free", "freed"}

\* The steps of kthread_stop, and of the thread it waits for, before it returns.
StopSteps ==
  CASE main = "wait" -> 3 + (CASE pc[started] = "start" -> 3 [] pc[started] = "loop" -> 2
                               [] pc[started] = "post" -> 1 [] OTHER -> 0)
    [] main = "free" -> 2
    [] main = "freed" -> 1
    [] OTHER -> 0

\* The struct of the latest thread is its own until it is freed, and a thread
\* that is done has posted it.
StopInv ==
  /\ \A k \in Thread : pc[k] # "none" => arg[k] \in Block
  /\ main \notin {"idle", "freed"} => t \in Block /\ started \in Thread /\ owner[t] = started
  /\ main \in {"up", "wait", "free", "freed"} => thread = t
  /\ main \notin {"idle", "create", "freed"} => arg[started] = t
  /\ main = "wait" => running[t] = FALSE
  /\ main \in MayRun => /\ pc[started] \in {"start", "loop", "post", "done"}
                        /\ pc[started] = "done" => semexit[t] > 0

\* kthread_stop never waits for a post that nobody is going to make, and returns
\* after six steps of its own and of the thread at most.
StopBounded ==
  Stopping =>
    /\ StopSteps \in 1 .. 6
    /\ main = "wait" => semexit[t] > 0 \/ pc[started] \in {"start", "loop", "post"}

\* Each step of the two is one fewer, and no other thread adds one.  (When the
\* wait was interrupted the thread may live on, but nobody waits for it.)
StopRunsDown ==
  [][Stopping => /\ StopSteps' <= StopSteps
                 /\ MasterStep \/ (main = "wait" /\ ThreadStep(started)) => StopSteps' < StopSteps]_vars

LEMMA TypesKept ==
  ASSUME Types, StopInv, Next
  PROVE  Types'
<1> USE KthreadAssumption DEF Types, StopInv, Thread, heap
<1>1. CASE Allocate
  BY <1>1 DEF Allocate
<1>2. CASE Create \/ CreateFails \/ Store
  BY <1>2 DEF Create, CreateFails, Store
<1>3. CASE Stop \/ WaitInterrupted
  BY <1>3 DEF Stop, WaitInterrupted
<1>4. CASE Wait
  <2>1. t \in Block /\ semexit[t] \in Nat /\ semexit[t] > 0
        /\ semexit' = [semexit EXCEPT ![t] = semexit[t] - 1]
    BY <1>4 DEF Wait
  <2>2. semexit' \in [Block -> Nat]
    BY <2>1
  <2> QED
    BY <1>4, <2>2 DEF Wait
<1>5. CASE Free \/ Forget
  BY <1>5 DEF Free, Forget
<1>6. ASSUME NEW k \in Thread, ThreadStep(k)
      PROVE  Types'
  <2>1. CASE Enter(k)
    BY <2>1 DEF Enter
  <2>2. CASE ShouldStop(k)
    BY <2>2 DEF ShouldStop
  <2>3. CASE Post(k)
    BY <2>3 DEF Post
  <2> QED
    BY <1>6, <2>1, <2>2, <2>3 DEF ThreadStep
<1> QED
  BY <1>1, <1>2, <1>3, <1>4, <1>5, <1>6 DEF Next, MasterStep

LEMMA StopKept ==
  ASSUME Types, StopInv, Next
  PROVE  StopInv'
<1> USE KthreadAssumption DEF Types, StopInv, Thread, heap, MayRun
<1>1. CASE Allocate
  BY <1>1 DEF Allocate
<1>2. CASE Create
  BY <1>2 DEF Create
<1>3. CASE CreateFails
  BY <1>3 DEF CreateFails
<1>4. CASE Store
  BY <1>4 DEF Store
<1>5. CASE Stop
  BY <1>5 DEF Stop
<1>6. CASE Wait \/ WaitInterrupted
  BY <1>6 DEF Wait, WaitInterrupted
<1>7. CASE Free \/ Forget
  BY <1>7 DEF Free, Forget
<1>8. ASSUME NEW k \in Thread, ThreadStep(k)
      PROVE  StopInv'
  <2>1. CASE Enter(k)
    BY <2>1 DEF Enter
  <2>2. CASE ShouldStop(k)
    BY <2>2 DEF ShouldStop
  <2>3. CASE Post(k)
    BY <2>3 DEF Post
  <2> QED
    BY <1>8, <2>1, <2>2, <2>3 DEF ThreadStep
<1> QED
  BY <1>1, <1>2, <1>3, <1>4, <1>5, <1>6, <1>7, <1>8 DEF Next, MasterStep

LEMMA StopInvariant == Spec => [](Types /\ StopInv)
<1>1. Init => Types /\ StopInv
  <2> SUFFICES ASSUME Init PROVE Types /\ StopInv
    OBVIOUS
  <2>1. running \in [Block -> BOOLEAN] /\ early \in BOOLEAN
    BY Zenon DEF Init
  <2> QED
    BY <2>1, KthreadAssumption DEF Init, Types, StopInv, Thread, MayRun
<1>2. Types /\ StopInv /\ [Next]_vars => (Types /\ StopInv)'
  <2>1. CASE UNCHANGED vars
    BY <2>1 DEF vars, heap, Types, StopInv
  <2> QED
    BY <2>1, TypesKept, StopKept
<1> QED
  BY <1>1, <1>2, PTL DEF Spec

\* Interrupted or not, whatever earlier threads still do: a master in
\* kthread_stop always has its own step or one of its thread before it.
THEOREM StopIsBounded == Spec => []StopBounded
<1>1. ASSUME Types, StopInv
      PROVE  StopBounded
  BY <1>1 DEF StopInv, StopBounded, Stopping, StopSteps, MayRun
<1> QED
  BY <1>1, StopInvariant, PTL

\* The thread sees that it shall stop at its next look, and posts; nothing that
\* other threads do to their structs or to this one delays kthread_stop.
THEOREM StopIsRunDown == Spec => StopRunsDown
<1>1. ASSUME Types, StopInv, Next, Stopping
      PROVE  /\ StopSteps' <= StopSteps
             /\ MasterStep \/ (main = "wait" /\ ThreadStep(started)) => StopSteps' < StopSteps
  <2> USE <1>1 DEF StopSteps
  <2>1. CASE MasterStep
    BY <2>1 DEF Stopping, StopInv, MayRun, MasterStep, Allocate, Create, CreateFails, Store,
       Stop, Wait, WaitInterrupted, Free, Forget
  <2>2. ASSUME NEW k \in Thread, ThreadStep(k), k = started, main = "wait"
        PROVE  StopSteps' < StopSteps
    <3>1. pc \in [Thread -> {"none", "start", "loop", "post", "done"}] /\ main' = main
          /\ started' = started
      BY <2>2 DEF Types, ThreadStep, Enter, ShouldStop, Post
    <3>2. CASE Enter(k)
      BY <2>2, <3>1, <3>2 DEF Enter
    <3>3. CASE ShouldStop(k)
      <4>1. ThreadLive /\ ~running[thread]
        BY <2>2, KthreadAssumption DEF StopInv, ThreadLive, Thread
      <4> QED
        BY <2>2, <3>1, <3>3, <4>1 DEF ShouldStop
    <3>4. CASE Post(k)
      BY <2>2, <3>1, <3>4 DEF Post
    <3> QED
      BY <2>2, <3>2, <3>3, <3>4 DEF ThreadStep
  <2>3. ASSUME NEW k \in Thread, ThreadStep(k), k # started \/ main # "wait"
        PROVE  StopSteps' = StopSteps
    <3>1. main' = main /\ started' = started
      BY <2>3 DEF ThreadStep, Enter, ShouldStop, Post
    <3>2. main = "wait" => pc'[started] = pc[started]
      BY <2>3 DEF Types, StopInv, ThreadStep, Enter, ShouldStop, Post
    <3> QED
      BY <3>1, <3>2 DEF Stopping
  <2>4. ThreadStep(started) /\ main = "wait" => started \in Thread
    BY DEF StopInv
  <2>5. StopSteps \in Nat
    OBVIOUS
  <2> HIDE DEF StopSteps
  <2>6. main = "wait" /\ ThreadStep(started) => StopSteps' < StopSteps
    BY <2>2, <2>4
  <2>7. ASSUME NEW k \in Thread, ThreadStep(k)
        PROVE  StopSteps' < StopSteps \/ StopSteps' = StopSteps
    BY <2>2, <2>3, <2>7
  <2>8. CASE ~MasterStep
    <3>1. PICK k \in Thread : ThreadStep(k)
      BY <1>1, <2>8 DEF Next
    <3>2. StopSteps' < StopSteps \/ StopSteps' = StopSteps
      BY <2>7, <3>1
    <3>3. StopSteps' \in Nat
      BY DEF StopSteps
    <3> QED
      BY <2>5, <2>6, <2>8, <3>2, <3>3
  <2> QED
    BY <2>1, <2>8
<1>2. Types /\ StopInv /\ [Next]_vars
        => [Stopping => /\ StopSteps' <= StopSteps
                        /\ MasterStep \/ (main = "wait" /\ ThreadStep(started))
                             => StopSteps' < StopSteps]_vars
  BY <1>1
<1> QED
  BY <1>2, StopInvariant, PTL DEF Spec, StopRunsDown


-----------------------------------------------------------------------------
(* Every variable has its type, whether or not calls were interrupted.     *)

Done == {k \in Thread : pc[k] = "done"}

\* A struct's semaphore has been posted by threads that are done, each once; while
\* no call was interrupted, by one at most.
PostInv ==
  /\ thread \in Block \cup {Null}
  /\ strays \subseteq {"null", "running", "post"}
  /\ interrupted \in BOOLEAN
  /\ \A k \in Thread : k > started \/ (k = started /\ main = "create") => pc[k] = "none"
  /\ \A b \in Block : semexit[b] <= Cardinality(Done)
  /\ interrupted \/ \A b \in Block : semexit[b] <= 1

LEMMA DoneFinite ==
  /\ IsFiniteSet(Done) /\ Cardinality(Done) \in 0 .. MaxStart
  /\ IsFiniteSet(Done') /\ Cardinality(Done') \in 0 .. MaxStart
<1>1. IsFiniteSet(Thread) /\ Cardinality(Thread) = MaxStart
  BY KthreadAssumption, FS_Interval DEF Thread
<1>2. Done \in SUBSET Thread /\ Done' \in SUBSET Thread
  BY DEF Done
<1>3. /\ IsFiniteSet(Done) /\ Cardinality(Done) <= MaxStart
      /\ IsFiniteSet(Done') /\ Cardinality(Done') <= MaxStart
  BY <1>1, <1>2, FS_Subset
<1>4. Cardinality(Done) \in Nat /\ Cardinality(Done') \in Nat
  BY <1>3, FS_CardinalityType
<1> QED
  BY <1>3, <1>4, KthreadAssumption

LEMMA PostKept ==
  ASSUME Types, StopInv, IInv, PostInv, Next
  PROVE  PostInv'
<1> USE KthreadAssumption DEF Types, StopInv, PostInv, Thread, heap
<1> Cardinality(Done) \in Nat
  BY DoneFinite
<1>1. CASE Allocate
  <2>1. Done' = Done
    BY <1>1 DEF Allocate, Done
  <2>2. semexit' \in [Block -> Nat] /\ \A b \in Block : semexit'[b] <= semexit[b]
    BY <1>1 DEF Allocate
  <2> QED
    BY <1>1, <2>1, <2>2 DEF Allocate
<1>2. CASE Create
  <2>1. pc' = [pc EXCEPT ![started] = "start"] /\ pc[started] # "done"
        /\ UNCHANGED <<semexit, thread, started, strays, interrupted>> /\ main' = "created"
        /\ main = "create" /\ started \in Thread
    BY <1>2 DEF Create
  <2>2. Done' = Done
    BY <2>1 DEF Done
  <2> QED
    BY <2>1, <2>2
<1>3. CASE CreateFails \/ Store \/ Stop \/ WaitInterrupted \/ Free \/ Forget
  <2>1. UNCHANGED <<pc, semexit, started, strays>> /\ Done' = Done /\ main' # "create"
    BY <1>3 DEF CreateFails, Store, Stop, WaitInterrupted, Free, Forget, Done
  <2>2. interrupted' \in BOOLEAN /\ (interrupted => interrupted')
    <3>1. interrupted' = interrupted \/ interrupted' = TRUE
      BY <1>3 DEF CreateFails, Store, Stop, WaitInterrupted, Free, Forget
    <3> QED
      BY <3>1, Zenon
  <2>3. thread' \in Block \cup {Null}
    BY <1>3 DEF CreateFails, Store, Stop, WaitInterrupted, Free, Forget
  <2> QED
    BY <2>1, <2>2, <2>3
<1>4. CASE Wait
  <2>1. t \in Block /\ semexit' = [semexit EXCEPT ![t] = semexit[t] - 1]
        /\ UNCHANGED <<pc, thread, started, strays, interrupted>> /\ Done' = Done /\ main' # "create"
    BY <1>4 DEF Wait, Done
  <2>2. \A b \in Block : semexit'[b] <= semexit[b] /\ semexit'[b] \in Int
    BY <2>1
  <2> QED
    BY <2>1, <2>2
<1>5. ASSUME NEW k \in Thread, ThreadStep(k)
      PROVE  PostInv'
  <2>1. CASE Enter(k) \/ ShouldStop(k)
    <3>1. PICK p \in {"loop", "post"} : pc' = [pc EXCEPT ![k] = p]
      BY <2>1 DEF Enter, ShouldStop
    <3>2. pc[k] \in {"start", "loop"} /\ UNCHANGED <<semexit, main, thread, started, interrupted>>
          /\ strays' \subseteq strays \cup {"null", "running"}
      BY <2>1 DEF Enter, ShouldStop
    <3>3. Done' = Done
      BY <3>1, <3>2 DEF Done
    <3> QED
      BY <3>1, <3>2, <3>3
  <2>2. CASE Post(k)
    <3>1. /\ pc[k] = "post" /\ arg[k] \in Block
          /\ semexit' = [semexit EXCEPT ![arg[k]] = @ + 1]
          /\ pc' = [pc EXCEPT ![k] = "done"]
          /\ UNCHANGED <<main, thread, started, interrupted>>
          /\ strays' \subseteq strays \cup {"post"}
      BY <2>2 DEF Post
    <3>2. Cardinality(Done') = Cardinality(Done) + 1
      <4>1. Done' = Done \cup {k} /\ k \notin Done
        BY <3>1 DEF Done
      <4> QED
        BY <4>1, DoneFinite, FS_AddElement
    <3>3. \A b \in Block : semexit'[b] <= Cardinality(Done')
      BY <3>1, <3>2
    <3>4. ASSUME ~interrupted PROVE \A b \in Block : semexit'[b] <= 1
      <4>1. k = started /\ main \in MayRun /\ arg[started] = t /\ semexit[t] = 0
        BY <3>1, <3>4 DEF IInv, InOrder, OneThread
      <4> QED
        BY <3>1, <3>4, <4>1
    <3> QED
      BY <3>1, <3>3, <3>4
  <2> QED
    BY <1>5, <2>1, <2>2 DEF ThreadStep
<1> QED
  BY <1>1, <1>2, <1>3, <1>4, <1>5 DEF Next, MasterStep

\* Every variable has its type, and no semaphore of a struct counts more than the
\* threads started, nor, while no kthread_stop was interrupted, more than one
\* (linux/kthread.h, kthread_run, kthread_work and kthread_stop).
THEOREM TypeCorrect == Spec => []TypeOK
<1>1. Init => PostInv
  <2>1. ASSUME Init PROVE \A b \in Block : semexit[b] = 0 /\ 0 <= Cardinality(Done)
    BY <2>1, DoneFinite DEF Init
  <2>2. ASSUME Init
        PROVE  /\ interrupted \in BOOLEAN /\ thread \in Block \cup {Null} /\ strays = {}
               /\ \A k \in Thread : pc[k] = "none"
    BY <2>2 DEF Init
  <2>3. ASSUME Init, NEW b \in Block PROVE semexit[b] <= Cardinality(Done) /\ semexit[b] <= 1
    BY <2>1, <2>3, DoneFinite
  <2> QED
    BY <2>2, <2>3 DEF PostInv
<1>2. Types /\ StopInv /\ IInv /\ PostInv /\ [Next]_vars => PostInv'
  <2>1. CASE UNCHANGED vars
    BY <2>1 DEF vars, heap, PostInv, Done
  <2> QED
    BY <2>1, PostKept
<1>3. Types /\ PostInv => TypeOK
  <2> SUFFICES ASSUME Types, PostInv PROVE TypeOK
    OBVIOUS
  <2>1. semexit \in [Block -> 0 .. MaxStart]
    <3>1. \A b \in Block : semexit[b] \in Nat /\ semexit[b] <= MaxStart
      BY DoneFinite, KthreadAssumption DEF Types, PostInv
    <3> QED
      BY <3>1, KthreadAssumption DEF Types
  <2>2. /\ owner \in [Block -> {0} \cup Thread] /\ running \in [Block -> BOOLEAN]
        /\ pc \in [Thread -> {"none", "start", "loop", "post", "done"}]
        /\ early \in BOOLEAN /\ interrupted \in BOOLEAN
    BY Zenon DEF Types, PostInv
  <2>3. main \in {"idle", "create", "created", "up", "wait", "free", "freed"}
        /\ t \in Block \cup {Null} /\ started \in 0 .. MaxStart
        /\ arg \in [Thread -> Block \cup {Null}]
        /\ strays \subseteq {"null", "running", "post"}
        /\ (interrupted \/ \A b \in Block : semexit[b] <= 1)
    BY Zenon DEF Types, PostInv
  <2>4. thread \in Block \cup {Null}
    BY DEF PostInv
  <2> QED
    BY <2>1, <2>2, <2>3, <2>4 DEF TypeOK
<1> QED
  BY <1>1, <1>2, <1>3, Invariant, StopInvariant, PTL DEF Spec
=============================================================================
