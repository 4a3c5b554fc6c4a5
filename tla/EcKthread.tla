----------------------------- MODULE EcKthread -----------------------------
(***************************************************************************)
(* Kernel threads of the EtherCAT shim (ethercat/nuttx/linux/kthread.c and *)
(* kthread.h): kthread_run, kthread_stop, the trampoline kthread_work and  *)
(* kthread_should_stop, which looks at master->thread, not at the calling  *)
(* thread.  The master (external) starts one thread per phase, stores what *)
(* kthread_run returned in master->thread, and stops it again; malloc may  *)
(* hand a freed task_struct out for the next one.                          *)
(***************************************************************************)
EXTENDS Naturals, FiniteSets

CONSTANTS
  Block,        \* memory blocks that task_structs are allocated in
  Null,
  MaxStart      \* bound: how many threads are started

ASSUME KthreadAssumption == Null \notin Block /\ MaxStart \in Nat

Thread == 1 .. MaxStart

VARIABLES
  owner,        \* the thread each block is allocated for, 0 if it is free
  running,      \* t->running of the task_struct in each block
  semexit,      \* t->semexit
  main,         \* where the master is
  t,            \* the local t of kthread_run and kthread_stop
  thread,       \* master->thread
  started,      \* threads started so far
  pc,           \* where each thread is
  arg,          \* its local t
  strays,       \* history: accesses that missed the thread's own task_struct
  early,        \* history: some thread ran before its creator had stored it
  interrupted   \* history: some kthread_stop was interrupted

heap == <<owner, running, semexit>>
vars == <<heap, main, t, thread, started, pc, arg, strays, early, interrupted>>

Init ==
  /\ owner = [b \in Block |-> 0]
  /\ running = [b \in Block |-> FALSE]
  /\ semexit = [b \in Block |-> 0]
  /\ main = "idle"
  /\ t = Null
  /\ thread = Null
  /\ started = 0
  /\ pc = [k \in Thread |-> "none"]
  /\ arg = [k \in Thread |-> Null]
  /\ strays = {}
  /\ early = FALSE
  /\ interrupted = FALSE

-----------------------------------------------------------------------------
(* The master: kthread_run                                                 *)

\* kmalloc and the fields.  (When kmalloc fails nothing changes.)
Allocate ==
  /\ main = "idle"
  /\ started < MaxStart
  /\ \E b \in Block :
       /\ owner[b] = 0
       /\ owner' = [owner EXCEPT ![b] = started + 1]
       /\ running' = [running EXCEPT ![b] = TRUE]
       /\ semexit' = [semexit EXCEPT ![b] = 0]
       /\ t' = b
  /\ started' = started + 1
  /\ main' = "create"
  /\ UNCHANGED <<thread, pc, arg, strays, early, interrupted>>

Create ==
  /\ main = "create"
  /\ pc' = [pc EXCEPT ![started] = "start"]
  /\ arg' = [arg EXCEPT ![started] = t]
  /\ main' = "created"
  /\ UNCHANGED <<heap, t, thread, started, strays, early, interrupted>>

CreateFails ==
  /\ main = "create"
  /\ owner' = [owner EXCEPT ![t] = 0]
  /\ main' = "idle"
  /\ UNCHANGED <<running, semexit, t, thread, started, pc, arg, strays, early, interrupted>>

\* master->thread = kthread_run(...)
Store ==
  /\ main = "created"
  /\ thread' = t
  /\ main' = "up"
  /\ UNCHANGED <<heap, t, started, pc, arg, strays, early, interrupted>>

-----------------------------------------------------------------------------
(* The master: kthread_stop(master->thread); master->thread = NULL         *)

StopOnlyWaits ==             \* fault: the thread is not told to stop
  /\ main = "up"
  /\ t' = thread
  /\ main' = "wait"
  /\ UNCHANGED <<heap, thread, started, pc, arg, strays, early, interrupted>>

StopWithoutWaiting ==        \* fault: no nxsem_wait
  /\ main = "up"
  /\ t' = thread
  /\ running' = [running EXCEPT ![thread] = FALSE]
  /\ main' = "free"
  /\ UNCHANGED <<owner, semexit, thread, started, pc, arg, strays, early, interrupted>>

Stop ==
  /\ main = "up"
  /\ t' = thread
  /\ running' = [running EXCEPT ![thread] = FALSE]
  /\ main' = "wait"
  /\ UNCHANGED <<owner, semexit, thread, started, pc, arg, strays, early, interrupted>>

Wait ==
  /\ main = "wait"
  /\ semexit[t] > 0
  /\ semexit' = [semexit EXCEPT ![t] = @ - 1]
  /\ main' = "free"
  /\ UNCHANGED <<owner, running, t, thread, started, pc, arg, strays, early, interrupted>>

\* A signal ends nxsem_wait, whose result is not looked at.
WaitInterrupted ==
  /\ main = "wait"
  /\ interrupted' = TRUE
  /\ main' = "free"
  /\ UNCHANGED <<heap, t, thread, started, pc, arg, strays, early>>

FreeNot ==                   \* fault: no free
  /\ main = "free"
  /\ main' = "freed"
  /\ UNCHANGED <<heap, t, thread, started, pc, arg, strays, early, interrupted>>

Free ==
  /\ main = "free"
  /\ owner' = [owner EXCEPT ![t] = 0]
  /\ main' = "freed"
  /\ UNCHANGED <<running, semexit, t, thread, started, pc, arg, strays, early, interrupted>>

Forget ==
  /\ main = "freed"
  /\ thread' = Null
  /\ main' = "idle"
  /\ UNCHANGED <<heap, t, started, pc, arg, strays, early, interrupted>>

-----------------------------------------------------------------------------
(* A thread: kthread_work, and the loop of its function.                   *)

Enter(k) ==
  /\ pc[k] = "start"
  /\ pc' = [pc EXCEPT ![k] = "loop"]
  /\ early' = (early \/ (main = "created" /\ started = k))
  /\ UNCHANGED <<heap, main, t, thread, started, arg, strays, interrupted>>

ThreadLive == thread # Null /\ owner[thread] # 0

\* while (!kthread_should_stop()): master->thread may be NULL, freed or of
\* another thread; what is read through NULL or freed memory can be anything.
ShouldStop(k) ==
  /\ pc[k] = "loop"
  /\ \E p \in {"loop", "post"} :
       /\ ThreadLive => (p = "loop" <=> running[thread])
       /\ pc' = [pc EXCEPT ![k] = p]
  /\ strays' = strays \cup (IF thread = Null THEN {"null"}
                              ELSE IF owner[thread] # k THEN {"running"} ELSE {})
  /\ UNCHANGED <<heap, main, t, thread, started, arg, early, interrupted>>

\* threadfn has returned: nxsem_post(&t->semexit).
Post(k) ==
  /\ pc[k] = "post"
  /\ semexit' = [semexit EXCEPT ![arg[k]] = @ + 1]
  /\ strays' = strays \cup (IF owner[arg[k]] = k THEN {} ELSE {"post"})
  /\ pc' = [pc EXCEPT ![k] = "done"]
  /\ UNCHANGED <<owner, running, main, t, thread, started, arg, early, interrupted>>

ThreadStep(k) == Enter(k) \/ ShouldStop(k) \/ Post(k)

MasterStep ==
  \/ Allocate \/ Create \/ CreateFails \/ Store
  \/ Stop \/ Wait \/ WaitInterrupted \/ Free \/ Forget

Next == MasterStep \/ \E k \in Thread : ThreadStep(k)

Spec == Init /\ [][Next]_vars

\* Every thread and the master are scheduled; when to stop a thread is the
\* master's decision, and so is when to start one.
Fairness ==
  /\ WF_vars(Create \/ CreateFails \/ Store)
  /\ WF_vars(Wait \/ Free \/ Forget)
  /\ \A k \in Thread : WF_vars(ThreadStep(k))

FairSpec == Spec /\ Fairness

-----------------------------------------------------------------------------
(* Properties                                                              *)

\* Every variable has its type; without interruptions semexit never counts
\* more than the end of one thread.
TypeOK ==
  /\ owner \in [Block -> {0} \cup Thread]
  /\ running \in [Block -> BOOLEAN]
  /\ semexit \in [Block -> 0 .. MaxStart]
  /\ interrupted \/ \A b \in Block : semexit[b] <= 1
  /\ main \in {"idle", "create", "created", "up", "wait", "free", "freed"}
  /\ t \in Block \cup {Null} /\ thread \in Block \cup {Null}
  /\ started \in 0 .. MaxStart
  /\ pc \in [Thread -> {"none", "start", "loop", "post", "done"}]
  /\ arg \in [Thread -> Block \cup {Null}]
  /\ strays \subseteq {"null", "running", "post"}
  /\ early \in BOOLEAN /\ interrupted \in BOOLEAN

\* As long as no kthread_stop was interrupted, a thread never reads or posts
\* the task_struct of another thread or one that was freed, wherever master
\* and threads are in their calls; and it never finds master->thread NULL
\* unless some thread ran before its creator had stored it.
OwnTask == interrupted \/ strays \subseteq (IF early THEN {"null"} ELSE {})

\* In the same case the end of kthread_stop is the end of the thread: it never
\* runs when the master has stopped it, so there is never more than one, and no
\* task_struct is left allocated or freed while it is needed.
StopLeavesNothing ==
  \/ interrupted
  \/ /\ \A k \in Thread : pc[k] \in {"start", "loop", "post"} =>
          k = started /\ main \in {"created", "up", "wait"}
     /\ {b \in Block : owner[b] # 0} =
          IF main \in {"idle", "freed"} THEN {} ELSE {t}

\* kthread_stop returns, whatever interrupts it and whichever struct the
\* thread finds.
StopEnds == main = "wait" ~> main = "idle"
=============================================================================
