------------------------- MODULE MtpTransportProofs -------------------------
(***************************************************************************)
(* Proofs about MtpTransport for every number of retries and of files      *)
(* other tasks open: the descriptors the driver keeps name its endpoints,  *)
(* and none of its files is left open.                                     *)
(***************************************************************************)
EXTENDS MtpTransport, TLAPS, WellFoundedInduction

\* Who runs a routine of the device: the responder or the reader, never both.
Roles ==
  /\ main \in {"start", "opening"} => reader = "none"
  /\ reader \in {"read", "deinit", "init", "reopened"} => main \in {"running", "joining"}
  /\ main = "closing" => reader = "done"
  /\ routine \in {"close", "reset"} => main = "closing" \/ reader = "deinit"
  /\ routine \in {"init", "open", "cleanup"} => main = "opening" \/ reader = "init"

Gone(e) == \A f \in FD : fdt[f] # e
AllGone == \A e \in EpName : Gone(e)

\* An endpoint that is open is known to the driver.
Tracked == \A f \in FD : fdt[f] \in EpName => ep[fdt[f]] = f

\* How far the routine in progress has come.
Progress ==
  /\ routine = "close" => \A i \in 1 .. 3 : i < k => Gone(Ep[i])
  /\ routine = "reset" => \A i \in 1 .. 3 : i <= k => Gone(Ep[i])
  /\ routine = "init" => k = 1 /\ AllGone
  /\ routine = "open" =>
       \A i \in 1 .. 3 : IF i < k THEN File(ep[Ep[i]]) = Ep[i] ELSE Gone(Ep[i])
  /\ routine = "cleanup" => \A i \in 1 .. 3 : i > k => Gone(Ep[i])

\* No endpoint is open before an init, after a deinit or a failed init.
ClosedAround ==
  /\ routine = "idle"
  /\ \/ main \in {"start", "end", "closing"}
     \/ reader = "deinit"
     \/ ~result /\ (main = "opening" \/ reader = "init")
  => AllGone

Current ==
  /\ EndpointsCurrent
  /\ intact => routine = "idle"

\* Before the first failed __io_init a variable is only wrong between a close()
\* and the assignment after it.
NoStale ==
  /\ ~ioFailed =>
       \A i \in 1 .. 3 : \/ ep[Ep[i]] = -1
                         \/ File(ep[Ep[i]]) = Ep[i]
                         \/ routine = "reset" /\ i = k
  /\ routine = "cleanup" => ioFailed
  /\ OwnUnlessFailed

\* Without others, bulk-in always gets the lowest descriptor.
Alone ==
  ~shared => /\ \A f \in FD : fdt[f] # "other"
             /\ ep["in"] \in {-1, FirstFd} /\ polled \in {-1, FirstFd}

IInv ==
  TypeOK /\ Roles /\ Tracked /\ Progress /\ ClosedAround /\ Current /\ NoStale /\ Alone

-----------------------------------------------------------------------------
(* Descriptors and endpoints.                                              *)

LEMMA FdFacts ==
  /\ FD \subseteq Nat /\ -1 \notin FD /\ FirstFd \in FD
  /\ \A f \in FD : FirstFd <= f
BY EndpointsAssumption DEF FD

LEMMA EpFacts ==
  /\ EpName = {"in", "out", "status"}
  /\ Ep[1] = "in" /\ Ep[2] = "out" /\ Ep[3] = "status"
  /\ \A i \in 1 .. 3 : i = 1 \/ i = 2 \/ i = 3
<1>1. Ep[1] = "in" /\ Ep[2] = "out" /\ Ep[3] = "status"
  BY DEF Ep
<1>2. \A i \in 1 .. 3 : i = 1 \/ i = 2 \/ i = 3
  OBVIOUS
<1>3. 1 \in 1 .. 3 /\ 2 \in 1 .. 3 /\ 3 \in 1 .. 3
  OBVIOUS
<1> QED
  BY <1>1, <1>2, <1>3 DEF EpName

LEMMA EpIndex ==
  /\ \A i \in 1 .. 3 : Ep[i] \in EpName
  /\ \A i, j \in 1 .. 3 : Ep[i] = Ep[j] => i = j
  /\ \A e \in EpName : \E i \in 1 .. 3 : e = Ep[i]
  /\ "other" \notin EpName /\ "none" \notin EpName
BY EpFacts

LEMMA MinFacts ==
  ASSUME Free # {}
  PROVE  Min(Free) \in Free /\ \A f \in Free : Min(Free) <= f
<1>1. Free \subseteq Nat
  BY FdFacts DEF Free
<1>2. PICK x \in Free : \A y \in Free : ~ (<<y, x>> \in OpToRel(<, Nat))
  BY <1>1, WFMin, NatLessThanWellFounded, Zenon
<1>3. \A y \in Free : x <= y
  <2>1. \A y \in Free : ~ (y < x)
    BY <1>1, <1>2 DEF OpToRel
  <2> QED
    BY <1>1, <2>1
<1> QED
  BY <1>3, Zenon DEF Min

\* The types after a step of a routine, from those of what it changes.
LEMMA RoutineTypes ==
  ASSUME TypeOK,
         fdt' \in [FD -> EpName \cup {"other", "none"}],
         ep' \in [EpName -> FD \cup {-1}],
         routine' \in {"idle", "close", "reset", "init", "open", "cleanup"},
         k' \in 1 .. 3, result' \in BOOLEAN,
         strays' \subseteq {"bulk", "event", "read", "close"},
         UNCHANGED <<intact, ioFailed, shared, main, reader, retry, writer, polled>>
  PROVE  TypeOK'
<1>1. /\ intact' \in BOOLEAN /\ ioFailed' \in BOOLEAN /\ shared' \in BOOLEAN
      /\ main' \in {"start", "opening", "running", "joining", "closing", "end"}
      /\ reader' \in {"none", "read", "deinit", "init", "reopened", "done"}
      /\ retry' \in 0 .. MaxRetry
      /\ writer' \in {"none", "start", "loop", "write", "done"}
      /\ polled' \in FD \cup {-1}
  <2>1. /\ intact' = intact /\ ioFailed' = ioFailed /\ shared' = shared
        /\ main' = main /\ reader' = reader /\ retry' = retry
        /\ writer' = writer /\ polled' = polled
    OBVIOUS
  <2>2. /\ intact \in BOOLEAN /\ ioFailed \in BOOLEAN /\ shared \in BOOLEAN
        /\ main \in {"start", "opening", "running", "joining", "closing", "end"}
        /\ reader \in {"none", "read", "deinit", "init", "reopened", "done"}
        /\ retry \in 0 .. MaxRetry
        /\ writer \in {"none", "start", "loop", "write", "done"}
        /\ polled \in FD \cup {-1}
    BY Zenon DEF TypeOK
  <2> QED
    BY <2>1, <2>2, Zenon
<1> QED
  BY <1>1, Zenon DEF TypeOK

-----------------------------------------------------------------------------
(* Steps that leave the descriptors and the routine alone.                 *)

LEMMA Initially == Init => IInv
<1> SUFFICES ASSUME Init PROVE IInv
  OBVIOUS
<1> USE DEF Init, EpInit
<1>1. AllGone
  BY EpFacts DEF AllGone, Gone
<1>2. TypeOK
  <2>1. fdt \in [FD -> EpName \cup {"other", "none"}] /\ ep \in [EpName -> FD \cup {-1}]
    BY Zenon
  <2>2. result \in BOOLEAN /\ intact \in BOOLEAN /\ ioFailed \in BOOLEAN
        /\ shared \in BOOLEAN
    BY Zenon
  <2> QED
    BY <2>1, <2>2, TransportAssumption DEF TypeOK
<1>3. Roles /\ Tracked /\ Progress /\ ClosedAround
  BY <1>1, EpFacts DEF Roles, Tracked, Progress, ClosedAround
<1>4. Current /\ NoStale /\ Alone
  BY EpFacts DEF Current, EndpointsCurrent, NoStale, OwnUnlessFailed, Alone
<1> QED
  BY <1>2, <1>3, <1>4 DEF IInv

LEMMA SilentKeeps ==
  ASSUME IInv, UNCHANGED epVars,
         \/ StartThreads \/ OpenDeviceFailed \/ CancelThreads \/ Finish
         \/ ReadEnds \/ Reopened \/ ReadAnyway
         \/ WriterStart \/ Poll \/ WriterCancelled \/ UNCHANGED vars
  PROVE  IInv'
<1> USE DEF epVars
<1>1. TypeOK'
  <2>1. main' \in {"start", "opening", "running", "joining", "closing", "end"}
        /\ writer' \in {"none", "start", "loop", "write", "done"}
    BY DEF IInv, TypeOK, StartThreads, OpenDeviceFailed, CancelThreads, Finish,
           ReadEnds, Reopened, ReadAnyway, WriterStart, Poll, WriterCancelled, vars,
           threadVars
  <2>2. reader' \in {"none", "read", "deinit", "init", "reopened", "done"}
    BY DEF IInv, TypeOK, StartThreads, OpenDeviceFailed, CancelThreads, Finish,
           ReadEnds, Reopened, ReadAnyway, WriterStart, Poll, WriterCancelled, vars,
           threadVars
  <2>3. retry' \in 0 .. MaxRetry
    BY TransportAssumption
    DEF IInv, TypeOK, StartThreads, OpenDeviceFailed, CancelThreads, Finish,
        ReadEnds, Reopened, ReadAnyway, WriterStart, Poll, WriterCancelled, vars,
        threadVars
  <2>4. polled' \in FD \cup {-1}
    BY EpFacts
    DEF IInv, TypeOK, StartThreads, OpenDeviceFailed, CancelThreads, Finish,
        ReadEnds, Reopened, ReadAnyway, WriterStart, Poll, WriterCancelled, vars,
        threadVars
  <2>5. UNCHANGED <<fdt, ep, routine, k, result, intact, ioFailed, strays, shared>>
    OBVIOUS
  <2> QED
    BY <2>1, <2>2, <2>3, <2>4, <2>5, Zenon DEF IInv, TypeOK
<1>2. Roles' /\ ClosedAround'
  BY DEF IInv, Roles, ClosedAround, AllGone, Gone, StartThreads, OpenDeviceFailed,
         CancelThreads, Finish, ReadEnds, Reopened, ReadAnyway, WriterStart, Poll,
         WriterCancelled, vars, threadVars
<1>3. Tracked' /\ Progress' /\ Current' /\ NoStale'
  BY DEF IInv, Tracked, Progress, Gone, AllGone, File, Current, EndpointsCurrent,
         NoStale, OwnUnlessFailed
<1>4. Alone'
  BY DEF IInv, Alone, StartThreads, OpenDeviceFailed, CancelThreads, Finish, ReadEnds,
         Reopened, ReadAnyway, WriterStart, Poll, WriterCancelled, vars, threadVars
<1> QED
  BY <1>1, <1>2, <1>3, <1>4 DEF IInv

\* Calls of the threads on their descriptors.
LEMMA IoKeeps ==
  ASSUME IInv, ReadAnswers \/ WriteBulk \/ WriteEvent
  PROVE  IInv'
<1>1. UNCHANGED <<fdt, ep, routine, k, result, intact, ioFailed, shared, main, reader,
                  polled>>
  BY DEF ReadAnswers, WriteBulk, WriteEvent
<1>2. TypeOK'
  <2>1. strays' \subseteq {"bulk", "event", "read", "close"}
    BY DEF IInv, TypeOK, ReadAnswers, WriteBulk, WriteEvent, Reach
  <2>2. retry' \in 0 .. MaxRetry
    BY TransportAssumption DEF IInv, TypeOK, ReadAnswers, WriteBulk, WriteEvent
  <2>3. writer' \in {"none", "start", "loop", "write", "done"}
    BY DEF IInv, TypeOK, ReadAnswers, WriteBulk, WriteEvent
  <2>4. /\ main' \in {"start", "opening", "running", "joining", "closing", "end"}
        /\ reader' \in {"none", "read", "deinit", "init", "reopened", "done"}
        /\ routine' \in {"idle", "close", "reset", "init", "open", "cleanup"}
    BY <1>1 DEF IInv, TypeOK
  <2> QED
    BY <1>1, <2>1, <2>2, <2>3, <2>4, Zenon DEF IInv, TypeOK
<1>3. Roles' /\ ClosedAround' /\ Tracked' /\ Progress' /\ Current' /\ Alone'
  BY <1>1 DEF IInv, Roles, ClosedAround, AllGone, Gone, Tracked, Progress, File,
              Current, EndpointsCurrent, Alone
<1>4. NoStale'
  <2>1. OwnUnlessFailed'
    <3>1. CASE ReadAnswers
      <4>1. routine = "idle"
        BY <3>1 DEF IInv, Roles, TypeOK, ReadAnswers
      <4>2. ~ioFailed => File(ep["out"]) \in {"out", "none"}
        BY <4>1, EpFacts, FdFacts DEF IInv, NoStale, File
      <4>3. "read" \in strays' /\ ~ioFailed => "read" \in strays
        BY <3>1, <4>2 DEF ReadAnswers, Reach, Own
      <4>4. "close" \in strays' => "close" \in strays
        BY <3>1 DEF ReadAnswers, Reach
      <4> QED
        BY <1>1, <4>3, <4>4 DEF IInv, NoStale, OwnUnlessFailed
    <3>2. CASE WriteBulk \/ WriteEvent
      BY <1>1, <3>2
      DEF IInv, NoStale, OwnUnlessFailed, WriteBulk, WriteEvent, Reach
    <3> QED
      BY <3>1, <3>2
  <2> QED
    BY <1>1, <2>1 DEF IInv, NoStale, File
<1> QED
  BY <1>2, <1>3, <1>4 DEF IInv

-----------------------------------------------------------------------------
(* Calls of the routines, and the cancellation of one.                     *)

LEMMA CallInitKeeps ==
  ASSUME IInv, OpenDevice \/ Reopen
  PROVE  IInv'
<1>1. /\ routine = "idle" /\ routine' = "init" /\ k' = 1
      /\ UNCHANGED <<fdt, ep, result, intact, ioFailed, strays, shared>>
      /\ UNCHANGED <<retry, writer, polled>>
      /\ \/ main = "start" /\ main' = "opening" /\ reader' = reader
         \/ reader = "deinit" /\ reader' = "init" /\ main' = main
  BY DEF OpenDevice, Reopen, CallInit
<1>2. AllGone /\ AllGone'
  BY <1>1, EpFacts DEF IInv, ClosedAround, AllGone, Gone
<1>3. ~intact
  BY <1>2, EpFacts DEF IInv, Current, EndpointsCurrent, AllGone, Gone, File
<1>4. TypeOK'
  <2>1. /\ main' \in {"start", "opening", "running", "joining", "closing", "end"}
        /\ reader' \in {"none", "read", "deinit", "init", "reopened", "done"}
        /\ routine' \in {"idle", "close", "reset", "init", "open", "cleanup"}
        /\ k' \in 1 .. 3
    BY <1>1 DEF IInv, TypeOK
  <2> QED
    BY <1>1, <2>1, Zenon DEF IInv, TypeOK
<1>5. Roles' /\ ClosedAround' /\ Progress'
  BY <1>1, <1>2 DEF IInv, Roles, ClosedAround, Progress
<1>6. Tracked' /\ Current' /\ NoStale' /\ Alone'
  BY <1>1, <1>3
  DEF IInv, Tracked, Current, EndpointsCurrent, NoStale, OwnUnlessFailed, Alone, File
<1> QED
  BY <1>4, <1>5, <1>6 DEF IInv

LEMMA CallDeinitKeeps ==
  ASSUME IInv, CloseDevice \/ ReadEio
  PROVE  IInv'
<1>1. /\ routine = "idle" /\ routine' = "close" /\ k' = 1 /\ intact' = FALSE
      /\ UNCHANGED <<fdt, ep, result, ioFailed, strays, shared>>
      /\ UNCHANGED <<writer, polled>>
      /\ \/ reader = "done" /\ main' = "closing" /\ reader' = reader
         \/ reader \in {"read", "reopened"} /\ reader' = "deinit" /\ main' = main
  BY DEF CloseDevice, ReadEio, CallDeinit
<1>2. TypeOK'
  <2>1. retry' \in 0 .. MaxRetry
    BY TransportAssumption DEF IInv, TypeOK, CloseDevice, ReadEio
  <2>2. /\ main' \in {"start", "opening", "running", "joining", "closing", "end"}
        /\ reader' \in {"none", "read", "deinit", "init", "reopened", "done"}
        /\ routine' \in {"idle", "close", "reset", "init", "open", "cleanup"}
        /\ k' \in 1 .. 3
    BY <1>1 DEF IInv, TypeOK
  <2> QED
    BY <1>1, <2>1, <2>2, Zenon DEF IInv, TypeOK
<1>3. Roles' /\ ClosedAround'
  BY <1>1 DEF IInv, Roles, ClosedAround
<1>4. Progress'
  BY <1>1 DEF Progress
<1>5. Tracked' /\ Current' /\ NoStale' /\ Alone'
  BY <1>1
  DEF IInv, Tracked, Current, EndpointsCurrent, NoStale, OwnUnlessFailed, Alone, File
<1> QED
  BY <1>2, <1>3, <1>4, <1>5 DEF IInv

LEMMA CancelKeeps ==
  ASSUME IInv, ReaderCancelled
  PROVE  IInv'
<1>1. /\ main = "joining" /\ reader' = "done" /\ routine' = "idle" /\ k' = 1
      /\ UNCHANGED <<fdt, ep, result, intact, ioFailed, strays, shared, main, retry,
                     writer, polled>>
  BY DEF ReaderCancelled
<1>2. routine # "reset"
  BY DEF ReaderCancelled, IInv, Roles
<1>3. TypeOK'
  <2>1. /\ reader' \in {"none", "read", "deinit", "init", "reopened", "done"}
        /\ routine' \in {"idle", "close", "reset", "init", "open", "cleanup"}
        /\ k' \in 1 .. 3
    BY <1>1
  <2> QED
    BY <1>1, <2>1, Zenon DEF IInv, TypeOK
<1>4. Roles' /\ ClosedAround' /\ Progress'
  BY <1>1 DEF IInv, Roles, ClosedAround, Progress
<1>5. Tracked' /\ Current' /\ NoStale' /\ Alone'
  BY <1>1, <1>2
  DEF IInv, Tracked, Current, EndpointsCurrent, NoStale, OwnUnlessFailed, Alone, File
<1> QED
  BY <1>3, <1>4, <1>5 DEF IInv

-----------------------------------------------------------------------------
(* Steps of the routines that close.                                       *)

\* What a close leaves: nothing behind the descriptor, the rest as it was.
LEMMA CloseFacts ==
  ASSUME TypeOK, NEW f, CloseFd(f)
  PROVE  /\ fdt' \in [FD -> EpName \cup {"other", "none"}]
         /\ \A g \in FD : fdt'[g] = IF g = f THEN "none" ELSE fdt[g]
         /\ strays' \subseteq {"bulk", "event", "read", "close"}
         /\ "read" \in strays' => "read" \in strays
         /\ File(f) \in EpName \cup {"none"} => strays' = strays
<1>1. CASE f \in FD
  BY <1>1 DEF TypeOK, CloseFd, Reach, Own
<1>2. CASE f \notin FD
  BY <1>2 DEF TypeOK, CloseFd, Reach, Own
<1> QED
  BY <1>1, <1>2

\* What is gone stays gone when something is closed, and the other parts of the
\* invariant survive too.
LEMMA ClosingKeeps ==
  ASSUME IInv, NEW f, CloseFd(f), UNCHANGED <<ep, ioFailed, shared, polled>>
  PROVE  /\ \A e \in EpName : Gone(e) => Gone(e)'
         /\ AllGone => AllGone'
         /\ Tracked' /\ Alone'
         /\ \A e \in EpName : f = ep[e] => Gone(e)'
<1>1. \A g \in FD : fdt'[g] = IF g = f THEN "none" ELSE fdt[g]
  BY CloseFacts DEF IInv
<1>2. \A e \in EpName : Gone(e) => Gone(e)'
  BY <1>1, EpIndex DEF Gone
<1>3. Tracked' /\ Alone'
  BY <1>1, EpIndex DEF IInv, Tracked, Alone
<1>4. ASSUME NEW e \in EpName, f = ep[e] PROVE Gone(e)'
  BY <1>1, <1>4, EpIndex DEF IInv, Tracked, Gone
<1> QED
  BY <1>2, <1>3, <1>4 DEF AllGone

LEMMA DeinitCloseKeeps ==
  ASSUME IInv, DeinitClose, UNCHANGED threadVars
  PROVE  IInv'
<1> DEFINE f == ep[Ep[k]]
<1>1. /\ routine = "close" /\ routine' = "reset"
      /\ UNCHANGED <<ep, k, result, intact, ioFailed, shared>>
      /\ UNCHANGED <<main, reader, retry, writer, polled>>
      /\ k \in 1 .. 3 /\ f \in FD \cup {-1}
      /\ IF f >= 0 THEN CloseFd(f) ELSE UNCHANGED <<fdt, strays>>
  BY EpIndex DEF DeinitClose, threadVars, IInv, TypeOK
<1>2. ~intact
  BY <1>1 DEF IInv, Current
<1>3. /\ fdt' \in [FD -> EpName \cup {"other", "none"}]
      /\ strays' \subseteq {"bulk", "event", "read", "close"}
      /\ "read" \in strays' => "read" \in strays
      /\ \A g \in FD : fdt'[g] = IF g = f THEN "none" ELSE fdt[g]
      /\ File(f) \in EpName \cup {"none"} => strays' = strays
  <2>1. CASE f >= 0
    BY <1>1, <2>1, CloseFacts DEF IInv
  <2>2. CASE ~(f >= 0)
    <3>1. fdt' = fdt /\ strays' = strays /\ \A g \in FD : g # f
      <4> HIDE DEF f
      <4>1. f \notin FD /\ fdt' = fdt /\ strays' = strays
        BY <1>1, <2>2, FdFacts
      <4> QED
        BY <4>1
    <3>2. /\ fdt \in [FD -> EpName \cup {"other", "none"}]
          /\ strays \subseteq {"bulk", "event", "read", "close"}
      BY DEF IInv, TypeOK
    <3> QED
      BY <3>1, <3>2, Zenon
  <2> QED
    BY <2>1, <2>2
<1>4. /\ \A e \in EpName : Gone(e) => Gone(e)'
      /\ Tracked' /\ Alone' /\ Gone(Ep[k])'
  <2>1. CASE f >= 0
    BY <1>1, <2>1, ClosingKeeps, EpIndex
  <2>2. CASE ~(f >= 0)
    <3>1. f = -1 /\ fdt' = fdt
      <4> HIDE DEF f
      <4> QED
        BY <1>1, <2>2, FdFacts
    <3>2. Gone(Ep[k])
      <4>1. \A g \in FD : fdt[g] \in EpName => ep[fdt[g]] = g
        BY DEF IInv, Tracked
      <4>2. Ep[k] \in EpName /\ ep[Ep[k]] \notin FD
        BY <1>1, <3>1, FdFacts, EpIndex
      <4> QED
        BY <4>1, <4>2 DEF Gone
    <3> QED
      BY <1>1, <3>1, <3>2 DEF IInv, Tracked, Alone, Gone
  <2> QED
    BY <2>1, <2>2
<1>5. TypeOK'
  <2>1. routine' \in {"idle", "close", "reset", "init", "open", "cleanup"} /\ k' \in 1 .. 3
    BY <1>1
  <2>2. TypeOK
    BY DEF IInv
  <2>3. ep' \in [EpName -> FD \cup {-1}] /\ result' \in BOOLEAN
    <3>1. ep \in [EpName -> FD \cup {-1}] /\ result \in BOOLEAN
      BY <2>2, Zenon DEF TypeOK
    <3>2. ep' = ep /\ result' = result
      BY <1>1
    <3> QED
      BY <3>1, <3>2, Zenon
  <2>4. UNCHANGED <<intact, ioFailed, shared, main, reader, retry, writer, polled>>
    BY <1>1
  <2> QED
    BY <1>3, <2>1, <2>2, <2>3, <2>4, RoutineTypes, Zenon
<1>6. Roles' /\ ClosedAround' /\ Current'
  BY <1>1, <1>2 DEF IInv, Roles, ClosedAround, Current, EndpointsCurrent
<1>7. Progress'
  BY <1>1, <1>4, EpIndex DEF IInv, Progress
<1>8. NoStale'
  <2>1. ~ioFailed => File(f) \in EpName \cup {"none"}
    BY <1>1, EpIndex, FdFacts DEF IInv, NoStale, File
  <2>2. OwnUnlessFailed'
    BY <1>1, <1>3, <2>1 DEF IInv, NoStale, OwnUnlessFailed
  <2>3. ASSUME ~ioFailed, NEW i \in 1 .. 3
        PROVE  ep[Ep[i]] = -1 \/ File(ep[Ep[i]])' = Ep[i] \/ i = k
    <3>1. CASE i # k /\ ep[Ep[i]] # -1
      <4>1. File(ep[Ep[i]]) = Ep[i] /\ (f = -1 \/ File(f) = Ep[k]) /\ Ep[i] # Ep[k]
        BY <1>1, <2>3, <3>1, EpIndex DEF IInv, NoStale
      <4>2. ep[Ep[i]] \in FD /\ ep[Ep[i]] # f
        BY <3>1, <4>1, EpIndex DEF File
      <4> QED
        BY <1>1, <1>3, <4>1, <4>2 DEF File
    <3> QED
      BY <3>1
  <2> QED
    BY <1>1, <2>2, <2>3 DEF NoStale
<1> QED
  BY <1>4, <1>5, <1>6, <1>7, <1>8 DEF IInv

LEMMA DeinitResetKeeps ==
  ASSUME IInv, DeinitReset, UNCHANGED threadVars
  PROVE  IInv'
<1>1. /\ routine = "reset" /\ k \in 1 .. 3 /\ k' \in 1 .. 3
      /\ \/ routine' = "close" /\ k' = k + 1
         \/ routine' = "idle" /\ k = 3
      /\ UNCHANGED <<fdt, result, intact, ioFailed, strays, shared>>
      /\ UNCHANGED <<main, reader, retry, writer, polled>>
  BY DEF DeinitReset, threadVars, IInv, TypeOK
<1>2. /\ ep' \in [EpName -> FD \cup {-1}]
      /\ \A e \in EpName : ep'[e] = IF e = Ep[k] THEN -1 ELSE ep[e]
  BY EpIndex DEF DeinitReset, IInv, TypeOK
<1>3. \A i \in 1 .. 3 : i <= k => Gone(Ep[i]) /\ Gone(Ep[i])'
  BY <1>1 DEF IInv, Progress, Gone
<1>4. ~intact
  BY <1>1 DEF IInv, Current
<1>5. TypeOK'
  <2>1. routine' \in {"idle", "close", "reset", "init", "open", "cleanup"} /\ k' \in 1 .. 3
    BY <1>1
  <2>2. TypeOK
    BY DEF IInv
  <2>3. /\ fdt' \in [FD -> EpName \cup {"other", "none"}] /\ result' \in BOOLEAN
        /\ strays' \subseteq {"bulk", "event", "read", "close"}
    <3>1. /\ fdt \in [FD -> EpName \cup {"other", "none"}] /\ result \in BOOLEAN
          /\ strays \subseteq {"bulk", "event", "read", "close"}
      BY <2>2, Zenon DEF TypeOK
    <3>2. fdt' = fdt /\ result' = result /\ strays' = strays
      BY <1>1
    <3> QED
      BY <3>1, <3>2, Zenon
  <2>4. UNCHANGED <<intact, ioFailed, shared, main, reader, retry, writer, polled>>
    BY <1>1
  <2> QED
    BY <1>2, <2>1, <2>2, <2>3, <2>4, RoutineTypes, Zenon
<1>6. routine' = "idle" => AllGone'
  BY <1>1, <1>3, EpIndex DEF AllGone
<1>7. Roles' /\ ClosedAround' /\ Current'
  BY <1>1, <1>4, <1>6 DEF IInv, Roles, ClosedAround, Current, EndpointsCurrent
<1>8. Progress'
  BY <1>1, <1>3 DEF Progress
<1>9. Tracked'
  <2>1. Gone(Ep[k])
    BY <1>1, <1>3
  <2> QED
    BY <1>1, <1>2, <2>1 DEF IInv, Tracked, Gone
<1>10. NoStale'
  BY <1>1, <1>2, EpIndex DEF IInv, NoStale, OwnUnlessFailed, File
<1>11. Alone'
  BY <1>1, <1>2, EpFacts DEF IInv, Alone
<1> QED
  BY <1>5, <1>7, <1>8, <1>9, <1>10, <1>11 DEF IInv

LEMMA CleanupCloseKeeps ==
  ASSUME IInv, CleanupClose, UNCHANGED threadVars
  PROVE  IInv'
<1> DEFINE f == ep[Ep[k]]
<1>1. /\ routine = "cleanup" /\ k \in 1 .. 3 /\ k' \in 1 .. 3 /\ CloseFd(f)
      /\ \/ routine' = "cleanup" /\ k' = k - 1 /\ result' = result
         \/ routine' = "idle" /\ k = 1 /\ result' = FALSE
      /\ UNCHANGED <<ep, intact, ioFailed, shared>>
      /\ UNCHANGED <<main, reader, retry, writer, polled>>
  BY DEF CleanupClose, Return, threadVars, IInv, TypeOK
<1>2. ~intact /\ ioFailed
  BY <1>1 DEF IInv, Current, NoStale
<1>3. /\ fdt' \in [FD -> EpName \cup {"other", "none"}]
      /\ strays' \subseteq {"bulk", "event", "read", "close"}
  BY <1>1, CloseFacts DEF IInv
<1>4. /\ \A e \in EpName : Gone(e) => Gone(e)'
      /\ Tracked' /\ Alone'
      /\ \A i \in 1 .. 3 : i = k => Gone(Ep[i])'
  <2>1. \A i \in 1 .. 3 : Ep[i] \in EpName /\ (i = k => f = ep[Ep[i]])
    BY EpIndex
  <2>2. CloseFd(f) /\ UNCHANGED <<ep, ioFailed, shared, polled>>
    BY <1>1
  <2> HIDE DEF f
  <2> QED
    BY <2>1, <2>2, ClosingKeeps
<1>5. ASSUME NEW i \in 1 .. 3, i >= k
      PROVE  Gone(Ep[i])'
  <2>1. CASE i = k
    BY <1>4, <2>1
  <2>2. CASE i # k
    <3>1. i > k
      BY <1>1, <1>5, <2>2
    <3>2. Gone(Ep[i]) /\ Ep[i] \in EpName
      BY <1>1, <3>1, EpIndex DEF IInv, Progress
    <3> QED
      BY <1>4, <3>2
  <2> QED
    BY <2>1, <2>2
<1>6. TypeOK'
  <2>1. /\ routine' \in {"idle", "close", "reset", "init", "open", "cleanup"}
        /\ result' \in BOOLEAN
    BY <1>1, Zenon DEF IInv, TypeOK
  <2>2. TypeOK
    BY DEF IInv
  <2>3. ep' \in [EpName -> FD \cup {-1}]
    <3>1. ep \in [EpName -> FD \cup {-1}]
      BY <2>2, Zenon DEF TypeOK
    <3>2. ep' = ep
      BY <1>1
    <3> QED
      BY <3>1, <3>2, Zenon
  <2>4. k' \in 1 .. 3 /\ UNCHANGED <<intact, ioFailed, shared, main, reader, retry, writer, polled>>
    BY <1>1
  <2> QED
    BY <1>3, <2>1, <2>2, <2>3, <2>4, RoutineTypes, Zenon
<1>7. routine' = "idle" => AllGone'
  BY <1>1, <1>5, EpIndex DEF AllGone
<1>8. Roles' /\ ClosedAround' /\ Current' /\ NoStale'
  BY <1>1, <1>2, <1>7
  DEF IInv, Roles, ClosedAround, Current, EndpointsCurrent, NoStale, OwnUnlessFailed
<1>9. Progress'
  BY <1>1, <1>5 DEF Progress
<1> QED
  BY <1>4, <1>6, <1>8, <1>9 DEF IInv

-----------------------------------------------------------------------------
(* Steps of the routines that open.                                        *)

\* Who waits for an init has nothing else under way.
LEMMA Initiator ==
  ASSUME IInv, routine \in {"init", "open", "cleanup"}
  PROVE  main \notin {"start", "end", "closing"} /\ reader # "deinit"
BY DEF IInv, Roles

LEMMA InitBeginsKeeps ==
  ASSUME IInv, AlreadyOpen \/ NotOpen, UNCHANGED threadVars
  PROVE  IInv'
<1>1. /\ routine = "init" /\ k = 1 /\ k' = 1 /\ AllGone
      /\ \/ routine' = "idle" /\ result' = TRUE
         \/ routine' = "open" /\ result' = result
      /\ UNCHANGED <<fdt, ep, intact, ioFailed, strays, shared>>
      /\ UNCHANGED <<main, reader, retry, writer, polled>>
  BY DEF AlreadyOpen, NotOpen, Return, threadVars, IInv, Progress
<1>2. ~intact
  BY <1>1 DEF IInv, Current
<1>3. TypeOK'
  <2>1. /\ routine' \in {"idle", "close", "reset", "init", "open", "cleanup"}
        /\ k' \in 1 .. 3
    BY <1>1
  <2>2. result' \in BOOLEAN
    BY <1>1, Zenon DEF IInv, TypeOK
  <2>3. TypeOK
    BY DEF IInv
  <2>4. /\ fdt' \in [FD -> EpName \cup {"other", "none"}]
        /\ ep' \in [EpName -> FD \cup {-1}]
        /\ strays' \subseteq {"bulk", "event", "read", "close"}
    <3>1. /\ fdt \in [FD -> EpName \cup {"other", "none"}]
          /\ ep \in [EpName -> FD \cup {-1}]
          /\ strays \subseteq {"bulk", "event", "read", "close"}
      BY <2>3, Zenon DEF TypeOK
    <3>2. fdt' = fdt /\ ep' = ep /\ strays' = strays
      BY <1>1
    <3> QED
      BY <3>1, <3>2, Zenon
  <2>5. UNCHANGED <<intact, ioFailed, shared, main, reader, retry, writer, polled>>
    BY <1>1
  <2> QED
    BY <2>1, <2>2, <2>3, <2>4, <2>5, RoutineTypes, Zenon
<1>4. Roles' /\ ClosedAround' /\ Current'
  BY <1>1, <1>2, Initiator DEF IInv, Roles, ClosedAround, Current, EndpointsCurrent
<1>5. Progress'
  BY <1>1, EpIndex DEF Progress, AllGone, Gone
<1>6. Tracked' /\ NoStale' /\ Alone'
  BY <1>1 DEF IInv, Tracked, NoStale, OwnUnlessFailed, Alone, File
<1> QED
  BY <1>3, <1>4, <1>5, <1>6 DEF IInv

LEMMA OpenFailsKeeps ==
  ASSUME IInv, OpenFails, UNCHANGED threadVars
  PROVE  IInv'
<1>1. /\ routine = "open" /\ k \in 1 .. 3 /\ k' \in 1 .. 3 /\ ioFailed' = TRUE
      /\ \/ routine' = "cleanup" /\ k' = k - 1 /\ result' = result
         \/ routine' = "idle" /\ k = 1 /\ result' = FALSE
      /\ UNCHANGED <<fdt, intact, strays, shared>>
      /\ UNCHANGED <<main, reader, retry, writer, polled>>
  BY DEF OpenFails, Return, threadVars, IInv, TypeOK
<1>2. /\ ep' \in [EpName -> FD \cup {-1}]
      /\ \A e \in EpName : ep'[e] = IF e = Ep[k] THEN -1 ELSE ep[e]
  BY EpIndex DEF OpenFails, IInv, TypeOK
<1>3. \A i \in 1 .. 3 : i >= k => Gone(Ep[i]) /\ Gone(Ep[i])'
  BY <1>1 DEF IInv, Progress, Gone
<1>4. ~intact
  BY <1>1 DEF IInv, Current
<1>5. TypeOK'
  <2>1. routine' \in {"idle", "close", "reset", "init", "open", "cleanup"}
    BY <1>1
  <2>2. result' \in BOOLEAN /\ ioFailed' \in BOOLEAN
    BY <1>1, Zenon DEF IInv, TypeOK
  <2> QED
    BY <1>1, <1>2, <2>1, <2>2, Zenon DEF IInv, TypeOK
<1>6. routine' = "idle" => AllGone'
  BY <1>1, <1>3, EpIndex DEF AllGone
<1>7. Roles' /\ ClosedAround' /\ Current' /\ NoStale'
  BY <1>1, <1>4, <1>6
  DEF IInv, Roles, ClosedAround, Current, EndpointsCurrent, NoStale, OwnUnlessFailed
<1>8. Progress'
  BY <1>1, <1>3 DEF Progress
<1>9. Tracked'
  <2>1. Gone(Ep[k])
    BY <1>1, <1>3
  <2> QED
    BY <1>1, <1>2, <2>1 DEF IInv, Tracked, Gone
<1>10. Alone'
  BY <1>1, <1>2, EpFacts DEF IInv, Alone
<1> QED
  BY <1>5, <1>7, <1>8, <1>9, <1>10 DEF IInv

LEMMA OpenKeeps ==
  ASSUME IInv, Open, UNCHANGED threadVars
  PROVE  IInv'
<1> DEFINE m == Min(Free)
<1>1. /\ routine = "open" /\ k \in 1 .. 3 /\ k' \in 1 .. 3 /\ Free # {}
      /\ \/ routine' = "open" /\ k' = k + 1 /\ UNCHANGED <<result, intact>>
         \/ routine' = "idle" /\ k = 3 /\ result' = TRUE /\ intact' = TRUE
      /\ UNCHANGED <<ioFailed, strays, shared>>
      /\ UNCHANGED <<main, reader, retry, writer, polled>>
      /\ ep' = [ep EXCEPT ![Ep[k]] = m] /\ fdt' = [fdt EXCEPT ![m] = Ep[k]]
  BY DEF Open, Return, threadVars, IInv, TypeOK
<1>2. m \in FD /\ fdt[m] = "none" /\ \A f \in Free : m <= f
  BY <1>1, MinFacts DEF Free
<1> HIDE DEF m
<1>3. /\ ep' \in [EpName -> FD \cup {-1}]
      /\ fdt' \in [FD -> EpName \cup {"other", "none"}]
      /\ \A e \in EpName : ep'[e] = IF e = Ep[k] THEN m ELSE ep[e]
      /\ \A f \in FD : fdt'[f] = IF f = m THEN Ep[k] ELSE fdt[f]
  BY <1>1, <1>2, EpIndex DEF IInv, TypeOK
<1>4. \A i \in 1 .. 3 : IF i < k THEN File(ep[Ep[i]]) = Ep[i] ELSE Gone(Ep[i])
  BY <1>1 DEF IInv, Progress
<1>5. ASSUME NEW i \in 1 .. 3, File(ep[Ep[i]]) = Ep[i], i # k
      PROVE  File(ep[Ep[i]])' = Ep[i]
  <2>1. ep[Ep[i]] \in FD /\ ep[Ep[i]] # m /\ Ep[i] # Ep[k] /\ Ep[i] \in EpName
    BY <1>1, <1>2, <1>5, EpIndex DEF File
  <2> QED
    BY <1>3, <1>5, <2>1 DEF File
<1>6. \A i \in 1 .. 3 : i = k => File(ep[Ep[i]])' = Ep[i]
  BY <1>2, <1>3, EpIndex DEF File
<1>7. ASSUME NEW i \in 1 .. 3, i > k
      PROVE  Gone(Ep[i])'
  <2>1. Gone(Ep[i]) /\ Ep[i] # Ep[k]
    BY <1>1, <1>4, <1>7, EpIndex
  <2> QED
    BY <1>3, <2>1 DEF Gone
<1>8. \A i \in 1 .. 3 : IF i < k + 1 THEN File(ep[Ep[i]])' = Ep[i] ELSE Gone(Ep[i])'
  <2> SUFFICES ASSUME NEW i \in 1 .. 3
               PROVE  IF i < k + 1 THEN File(ep[Ep[i]])' = Ep[i] ELSE Gone(Ep[i])'
    OBVIOUS
  <2>1. CASE i < k
    <3>1. i # k /\ i < k + 1 /\ File(ep[Ep[i]]) = Ep[i]
      BY <1>1, <1>4, <2>1
    <3> QED
      BY <1>5, <3>1
  <2>2. CASE i = k
    BY <1>1, <1>6, <2>2
  <2>3. CASE i > k
    BY <1>1, <1>7, <2>3
  <2> QED
    BY <1>1, <2>1, <2>2, <2>3
<1>9. TypeOK'
  <2>1. routine' \in {"idle", "close", "reset", "init", "open", "cleanup"}
    BY <1>1
  <2>2. result' \in BOOLEAN /\ intact' \in BOOLEAN
    BY <1>1, Zenon DEF IInv, TypeOK
  <2> QED
    BY <1>1, <1>3, <2>1, <2>2, Zenon DEF IInv, TypeOK
<1>10. Roles' /\ ClosedAround'
  BY <1>1, Initiator DEF IInv, Roles, ClosedAround
<1>11. Progress'
  BY <1>1, <1>8 DEF Progress
<1>12. Tracked'
  <2>1. \A f \in FD : fdt[f] # Ep[k]
    BY <1>1, <1>4 DEF Gone
  <2> QED
    BY <1>1, <1>3, <2>1 DEF IInv, Tracked
<1>13. Current'
  <2>1. ~intact
    BY <1>1 DEF IInv, Current
  <2>2. routine' = "idle" => \A e \in EpName : File(ep[e])' = e
    BY <1>1, <1>8, EpIndex
  <2> QED
    BY <1>1, <2>1, <2>2 DEF Current, EndpointsCurrent
<1>14. NoStale'
  BY <1>1, <1>3, <1>5, <1>6, EpIndex DEF IInv, NoStale, OwnUnlessFailed
<1>15. Alone'
  <2> SUFFICES ASSUME ~shared PROVE Alone'
    BY <1>1 DEF Alone
  <2>1. \A f \in FD : fdt'[f] # "other"
    BY <1>1, <1>3, EpIndex DEF IInv, Alone
  <2>2. k = 1 => m = FirstFd
    <3> SUFFICES ASSUME k = 1 PROVE m = FirstFd
      OBVIOUS
    <3>1. AllGone
      BY <1>4, EpIndex DEF AllGone
    <3>2. FirstFd \in Free
      BY <3>1, FdFacts DEF IInv, TypeOK, Alone, AllGone, Gone, Free
    <3> QED
      BY <1>2, <3>2, FdFacts
  <2>3. Ep[k] = "in" => k = 1
    BY <1>1, EpFacts
  <2> QED
    BY <1>1, <1>3, <2>1, <2>2, <2>3, EpFacts DEF IInv, Alone
<1> QED
  BY <1>9, <1>10, <1>11, <1>12, <1>13, <1>14, <1>15 DEF IInv

-----------------------------------------------------------------------------
(* Other tasks open and close files of their own.                          *)

LEMMA OthersKeep ==
  ASSUME IInv, Others
  PROVE  IInv'
<1>1. UNCHANGED <<ep, routine, k, result, intact, ioFailed, strays, main, reader,
                  retry, writer, polled>>
  BY DEF Others, OtherOpen, OtherClose, threadVars
<1>2. PICK h \in FD :
        \/ fdt[h] = "none" /\ shared' = TRUE /\ fdt' = [fdt EXCEPT ![h] = "other"]
        \/ fdt[h] = "other" /\ shared' = shared /\ fdt' = [fdt EXCEPT ![h] = "none"]
  <2>1. CASE OtherOpen
    <3>1. Free # {} /\ fdt' = [fdt EXCEPT ![Min(Free)] = "other"] /\ shared' = TRUE
      BY <2>1 DEF OtherOpen
    <3>2. Min(Free) \in FD /\ fdt[Min(Free)] = "none"
      BY <3>1, MinFacts DEF Free
    <3> QED
      BY <3>1, <3>2, Zenon
  <2>2. CASE OtherClose
    BY <2>2, Zenon DEF OtherClose
  <2> QED
    BY <2>1, <2>2 DEF Others
<1>3. /\ fdt' \in [FD -> EpName \cup {"other", "none"}]
      /\ \A f \in FD : f # h => fdt'[f] = fdt[f]
      /\ fdt[h] \notin EpName /\ fdt'[h] \notin EpName
      /\ shared' \in BOOLEAN /\ (~shared' => ~shared /\ fdt'[h] = "none")
  <2>1. shared' \in BOOLEAN
    BY <1>2, Zenon DEF IInv, TypeOK
  <2> QED
    BY <1>2, <2>1, EpIndex DEF IInv, TypeOK
<1>4. \A e \in EpName : /\ Gone(e) => Gone(e)'
                        /\ File(ep[e]) = e => File(ep[e])' = e
  BY <1>1, <1>3 DEF Gone, File
<1>5. TypeOK'
  <2>1. fdt' \in [FD -> EpName \cup {"other", "none"}] /\ shared' \in BOOLEAN
    BY <1>3, Zenon
  <2>2. /\ main' \in {"start", "opening", "running", "joining", "closing", "end"}
        /\ reader' \in {"none", "read", "deinit", "init", "reopened", "done"}
    BY <1>1 DEF IInv, TypeOK
  <2>3. /\ routine' \in {"idle", "close", "reset", "init", "open", "cleanup"}
        /\ writer' \in {"none", "start", "loop", "write", "done"}
    BY <1>1 DEF IInv, TypeOK
  <2> QED
    BY <1>1, <2>1, <2>2, <2>3, Zenon DEF IInv, TypeOK
<1>6. Roles' /\ ClosedAround' /\ Current'
  BY <1>1, <1>4 DEF IInv, Roles, ClosedAround, AllGone, Current, EndpointsCurrent
<1>7. Progress' /\ NoStale'
  BY <1>1, <1>4, EpIndex DEF IInv, Progress, AllGone, NoStale, OwnUnlessFailed
<1>8. Tracked' /\ Alone'
  BY <1>1, <1>3, EpIndex DEF IInv, Tracked, Alone
<1> QED
  BY <1>5, <1>6, <1>7, <1>8 DEF IInv

-----------------------------------------------------------------------------
LEMMA Invariant == Spec => []IInv
<1>1. IInv /\ [Next]_vars => IInv'
  <2> SUFFICES ASSUME IInv, [Next]_vars PROVE IInv'
    OBVIOUS
  <2>1. CASE \/ StartThreads \/ OpenDeviceFailed \/ CancelThreads \/ Finish
             \/ ReadEnds \/ Reopened \/ ReadAnyway
             \/ WriterStart \/ Poll \/ WriterCancelled \/ UNCHANGED vars
    <3>1. UNCHANGED epVars
      BY <2>1 DEF StartThreads, OpenDeviceFailed, CancelThreads, Finish, ReadEnds,
                  Reopened, ReadAnyway, WriterStart, Poll, WriterCancelled, vars
    <3> QED
      BY <2>1, <3>1, SilentKeeps
  <2>2. CASE EndpointRoutine
    BY <2>2, DeinitCloseKeeps, DeinitResetKeeps, CleanupCloseKeeps, InitBeginsKeeps,
       OpenKeeps, OpenFailsKeeps DEF EndpointRoutine, EpStep
  <2> QED
    BY <2>1, <2>2, IoKeeps, CallInitKeeps, CallDeinitKeeps, CancelKeeps, OthersKeep
    DEF Next
<1> QED
  BY <1>1, Initially, PTL DEF Spec

\* Every variable has its type.
THEOREM TypeCorrect == Spec => []TypeOK
BY Invariant, PTL DEF IInv

\* After a complete __io_init each variable holds the descriptor of its
\* endpoint until a deinit begins, through failures, recoveries and
\* cancellations, whatever other tasks open and close.
THEOREM EndpointsStayCurrent == Spec => []EndpointsCurrent
BY Invariant, PTL DEF IInv, Current

\* The driver leaves no endpoint open when the responder is done with it.
THEOREM NothingLeftOpen == Spec => []EndClosed
<1>1. IInv => EndClosed
  BY DEF IInv, TypeOK, Roles, ClosedAround, AllGone, Gone, EndClosed
<1> QED
  BY <1>1, Invariant, PTL

\* Until an __io_init fails the driver reads and closes only its own files.
THEOREM OwnFilesOnly == Spec => []OwnUnlessFailed
BY Invariant, PTL DEF IInv, NoStale

\* Where no one else opens files the writer polls the file it writes to.
THEOREM WriterPollsItsFile == Spec => []PollsWhatItWrites
<1>1. IInv => PollsWhatItWrites
  <2> SUFFICES ASSUME IInv, ~shared, intact PROVE polled \in {-1, ep["in"]}
    BY DEF PollsWhatItWrites
  <2>1. File(ep["in"]) = "in"
    BY EpFacts DEF IInv, Current, EndpointsCurrent
  <2>2. ep["in"] # -1
    BY <2>1, FdFacts DEF File
  <2> QED
    BY <2>2 DEF IInv, Alone
<1> QED
  BY <1>1, Invariant, PTL
=============================================================================
