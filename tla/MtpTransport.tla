---------------------------- MODULE MtpTransport ----------------------------
(***************************************************************************)
(* The MTP USB transport at the level of file descriptors: the responder   *)
(* opens the device, starts the reader and the writer thread, cancels and  *)
(* joins them and closes the device; the reader closes and reopens the     *)
(* device after an EIO while the writer goes on polling the descriptor it  *)
(* read when it started and writing to the one it reads each time.         *)
(*                                                                         *)
(* What the threads do with packets is the subject of MtpWriter and        *)
(* MtpReader; here a thread is the calls it makes on descriptors.          *)
(***************************************************************************)
EXTENDS MtpEndpoints

CONSTANTS
  MaxRetry    \* MTP_USB_ERROR_MAX_RETRY

ASSUME TransportAssumption == MaxRetry \in Nat

VARIABLES
  main,       \* where the responder is
  reader,     \* where the reader thread is
  retry,      \* its local retry
  writer,     \* where the writer thread is
  polled      \* its local fds[0].fd

threadVars == <<main, reader, retry, writer, polled>>
vars == <<epVars, threadVars>>

Init ==
  /\ EpInit
  /\ main = "start"
  /\ reader = "none"
  /\ retry = 0
  /\ writer = "none"
  /\ polled = -1

-----------------------------------------------------------------------------
(* The responder (outside this repository).                                *)

OpenDevice ==
  /\ main = "start"
  /\ CallInit
  /\ main' = "opening"
  /\ UNCHANGED <<reader, retry, writer, polled>>

StartThreads ==
  /\ main = "opening"
  /\ routine = "idle"
  /\ result
  /\ main' = "running"
  /\ reader' = "read"
  /\ writer' = "start"
  /\ UNCHANGED <<epVars, retry, polled>>

\* The responder gives up or calls init again.
OpenDeviceFailed ==
  /\ main = "opening"
  /\ routine = "idle"
  /\ ~result
  /\ main' \in {"start", "end"}
  /\ UNCHANGED <<epVars, reader, retry, writer, polled>>

CancelThreads ==
  /\ main = "running"
  /\ main' = "joining"
  /\ UNCHANGED <<epVars, reader, retry, writer, polled>>

CloseDevice ==
  /\ main = "joining"
  /\ reader = "done"
  /\ writer = "done"
  /\ CallDeinit
  /\ main' = "closing"
  /\ UNCHANGED <<reader, retry, writer, polled>>

Finish ==
  /\ main = "closing"
  /\ routine = "idle"
  /\ main' = "end"
  /\ UNCHANGED <<epVars, reader, retry, writer, polled>>

-----------------------------------------------------------------------------
(* The reader thread.                                                      *)

\* read() answers from whatever g_usb_ep_out refers to.
ReadAnswers ==
  /\ reader = "read"
  /\ File(ep["out"]) # "none"
  /\ Reach("read", ep["out"])
  /\ retry' = 0
  /\ UNCHANGED <<fdt, ep, routine, k, result, intact, ioFailed, shared, main,
                 reader, writer, polled>>

\* An error that ends the thread, the only one on a closed descriptor.
ReadEnds ==
  /\ reader \in {"read", "reopened"}
  /\ reader' = "done"
  /\ UNCHANGED <<epVars, main, retry, writer, polled>>

\* EIO, from read() or left behind by a failed open(): close the device.
ReadEio ==
  /\ \/ reader = "read" /\ File(ep["out"]) # "none"
     \/ reader = "reopened" /\ ~result
  /\ retry < MaxRetry
  /\ retry' = retry + 1
  /\ CallDeinit
  /\ reader' = "deinit"
  /\ UNCHANGED <<main, writer, polled>>

Reopen ==
  /\ reader = "deinit"
  /\ routine = "idle"
  /\ CallInit
  /\ reader' = "init"
  /\ UNCHANGED <<main, retry, writer, polled>>

Reopened ==
  /\ reader = "init"
  /\ routine = "idle"
  /\ reader' = IF result THEN "read" ELSE "reopened"
  /\ UNCHANGED <<epVars, main, retry, writer, polled>>

\* The errno a failed open() left behind is one the handler skips.
ReadAnyway ==
  /\ reader = "reopened"
  /\ retry < MaxRetry
  /\ retry' = retry + 1
  /\ reader' = "read"
  /\ UNCHANGED <<epVars, main, writer, polled>>

\* Cancelled in read(), or entering a system call of the routine in progress
\* (not between a close() that returned and the assignment after it).
ReaderCancelled ==
  /\ main = "joining"
  /\ \/ reader = "read"
     \/ reader \in {"deinit", "init"} /\ routine \in {"close", "open", "cleanup"}
  /\ reader' = "done"
  /\ routine' = "idle"
  /\ k' = 1
  /\ UNCHANGED <<fdt, ep, result, intact, ioFailed, strays, shared, main,
                 retry, writer, polled>>

-----------------------------------------------------------------------------
(* The writer thread.                                                      *)

WriterStart ==
  /\ writer = "start"
  /\ polled' = ep["in"]
  /\ writer' = "loop"
  /\ UNCHANGED <<epVars, main, reader, retry>>

\* poll() reports POLLOUT for the file behind the descriptor read at the start.
Poll ==
  /\ writer = "loop"
  /\ File(polled) # "none"
  /\ writer' = "write"
  /\ UNCHANGED <<epVars, main, reader, retry, polled>>

\* write() to g_usb_ep_in as it is now, after poll() or for a zero-length packet.
WriteBulk ==
  /\ writer \in {"loop", "write"}
  /\ Reach("bulk", ep["in"])
  /\ writer' = IF writer = "loop" /\ File(ep["in"]) = "none" THEN "done" ELSE "loop"
  /\ UNCHANGED <<fdt, ep, routine, k, result, intact, ioFailed, shared, main,
                 reader, retry, polled>>

WriteEvent ==
  /\ writer = "loop"
  /\ Reach("event", ep["status"])
  /\ writer' = IF File(ep["status"]) = "none" THEN "done" ELSE "loop"
  /\ UNCHANGED <<fdt, ep, routine, k, result, intact, ioFailed, shared, main,
                 reader, retry, polled>>

WriterCancelled ==
  /\ main = "joining"
  /\ writer \in {"start", "loop", "write"}
  /\ writer' = "done"
  /\ UNCHANGED <<epVars, main, reader, retry, polled>>

-----------------------------------------------------------------------------
EndpointRoutine == EpStep /\ UNCHANGED threadVars
Others == (OtherOpen \/ OtherClose) /\ UNCHANGED threadVars

Next ==
  \/ OpenDevice \/ StartThreads \/ OpenDeviceFailed \/ CancelThreads
  \/ CloseDevice \/ Finish
  \/ ReadAnswers \/ ReadEnds \/ ReadEio \/ Reopen \/ Reopened \/ ReadAnyway
  \/ ReaderCancelled
  \/ WriterStart \/ Poll \/ WriteBulk \/ WriteEvent \/ WriterCancelled
  \/ EndpointRoutine \/ Others

Spec == Init /\ [][Next]_vars

-----------------------------------------------------------------------------
(* Properties                                                              *)

\* Every variable has its type.
TypeOK ==
  /\ fdt \in [FD -> EpName \cup {"other", "none"}]
  /\ ep \in [EpName -> FD \cup {-1}]
  /\ routine \in {"idle", "close", "reset", "init", "open", "cleanup"}
  /\ k \in 1 .. 3
  /\ result \in BOOLEAN /\ intact \in BOOLEAN /\ ioFailed \in BOOLEAN
  /\ shared \in BOOLEAN
  /\ strays \subseteq {"bulk", "event", "read", "close"}
  /\ main \in {"start", "opening", "running", "joining", "closing", "end"}
  /\ reader \in {"none", "read", "deinit", "init", "reopened", "done"}
  /\ retry \in 0 .. MaxRetry
  /\ writer \in {"none", "start", "loop", "write", "done"}
  /\ polled \in FD \cup {-1}

\* After a complete __io_init, and until a deinit begins, each variable holds
\* the descriptor of its endpoint, whatever failed, was recovered, cancelled
\* or opened by others before.
EndpointsCurrent == intact => \A e \in EpName : File(ep[e]) = e

\* The driver leaves no endpoint open: after the responder's deinit, or when
\* it gives up, no descriptor refers to one.
EndClosed == main = "end" => \A f \in FD : fdt[f] \notin EpName

\* As long as no __io_init has failed, the reader and the routines only read
\* and close the driver's own files, whoever else opens and closes files.
OwnUnlessFailed ==
  ~ioFailed => strays \cap {"close", "read"} = {}

\* If no one else has opened a file, the descriptor the writer polls is the one
\* it writes to, through every recovery, unless the thread started in the
\* middle of a recovery and found no descriptor at all.
PollsWhatItWrites ==
  ~shared /\ writer \in {"loop", "write"} /\ intact => polled \in {-1, ep["in"]}

\* When init finds the device "Already open", it is open.
AlreadyOpenIsOpen ==
  routine = "init" /\ ep["in"] > 0 => \A e \in EpName : File(ep[e]) = e
=============================================================================
