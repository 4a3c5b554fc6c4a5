----------------------------- MODULE MtpReader -----------------------------
(***************************************************************************)
(* The USB reader thread of the MTP responder with its error recovery and  *)
(* its receive queue (mtp-responder/mtp_usb_driver_nuttx.c,                *)
(* ffs_transport_thread_usb_read, __handle_usb_read_err and                *)
(* __clean_up_msg_queue), and the responder that takes packets off the     *)
(* queue and cancels the thread.                                           *)
(*                                                                         *)
(* The n-th transfer that delivers data is packet n.  Each round of the    *)
(* loop allocates one buffer, named after the packet it is meant for.      *)
(***************************************************************************)
EXTENDS Integers, Sequences, SequencesExt

CONSTANTS
  MaxPkts,    \* bound: transfers with data the host sends
  MaxRetry,   \* MTP_USB_ERROR_MAX_RETRY
  QueueCap    \* packets the receive message queue holds (rx_mq_sz)

ASSUME ReaderAssumption ==
  /\ MaxPkts \in Nat
  /\ MaxRetry \in Nat
  /\ QueueCap \in Nat \ {0}

Errno == {"EINTR", "EIO", "ESHUTDOWN", "other"}

VARIABLES
  rxq,        \* the receive message queue
  nread,      \* transfers with data read so far
  heap,       \* buffers allocated and not yet freed
  hand,       \* the buffer the thread is filling or sending, 0 if none
  ctrl,       \* the control event PTP_EVENTCODE_CANCELTRANSACTION is set
  cancelReq,  \* pthread_cancel() was called for the thread
  devOpen,    \* g_usb_ep_out is an open endpoint
  pc,         \* where the thread is
  status,     \* result of the latest read(): -1, 0, or 1 for a positive count
  errno,      \* the thread's errno
  retry,      \* local retry of __handle_usb_read_err
  attempts,   \* history: read() calls for the buffer in hand
  taken,      \* history: packets the responder has received, in order
  dropped     \* history: packets freed before the responder received them

readVars == <<status, errno, retry, attempts>>
histVars == <<taken, dropped>>
vars == <<rxq, nread, heap, hand, ctrl, cancelReq, devOpen, pc, status, errno,
          retry, attempts, taken, dropped>>

Init ==
  /\ rxq = <<>>
  /\ nread = 0
  /\ heap = {}
  /\ hand = 0
  /\ ctrl = FALSE
  /\ cancelReq = FALSE
  /\ devOpen = TRUE
  /\ pc = "top"
  /\ status = 0
  /\ errno = "other"
  /\ retry = 0
  /\ attempts = 0
  /\ taken = <<>>
  /\ dropped = {}

-----------------------------------------------------------------------------
(* The responder (outside this repository).                                *)

TakePacket ==
  /\ rxq # <<>>
  /\ rxq' = Tail(rxq)
  /\ taken' = Append(taken, Head(rxq))
  /\ heap' = heap \ {Head(rxq)}
  /\ UNCHANGED <<nread, hand, ctrl, cancelReq, devOpen, pc, readVars, dropped>>

TakeControlEvent ==
  /\ ctrl
  /\ ctrl' = FALSE
  /\ UNCHANGED <<rxq, nread, heap, hand, cancelReq, devOpen, pc, readVars,
                 histVars>>

CancelThread ==
  /\ ~cancelReq
  /\ cancelReq' = TRUE
  /\ UNCHANGED <<rxq, nread, heap, hand, ctrl, devOpen, pc, readVars, histVars>>

-----------------------------------------------------------------------------
(* Leaving: __clean_up_msg_queue drains the queue, as the cleanup handler   *)
(* of a cancelled thread (pc = "handler") or called by pthread_cleanup_pop, *)
(* which has taken the handler off before (pc = "drain").                   *)

OnlyTestCancel == pc = "top" \* fault: blocking calls are no cancellation points

\* close() and open(), called by the recovery, are cancellation points too.
AtCancellationPoint ==
  pc \in {"top", "read", "reread", "deinit", "init", "send"}

\* The handler frees what is queued; the buffer in hand is not its business.
Cancelled ==
  /\ cancelReq
  /\ AtCancellationPoint
  /\ pc' = "handler"
  /\ ctrl' = TRUE
  /\ UNCHANGED <<rxq, nread, heap, hand, cancelReq, devOpen, readVars, histVars>>

\* pthread_cleanup_pop(1) after the loop.
Leave ==
  /\ pc = "leave"
  /\ pc' = "drain"
  /\ ctrl' = TRUE
  /\ UNCHANGED <<rxq, nread, heap, hand, cancelReq, devOpen, readVars, histVars>>

\* Cancelled in that drain, whose receive is a cancellation point, the thread
\* ends at once, whatever is left in the queue.
LeaveCancelled ==
  /\ cancelReq
  /\ pc = "drain"
  /\ pc' = "done"
  /\ UNCHANGED <<rxq, nread, heap, hand, ctrl, cancelReq, devOpen, readVars,
                 histVars>>

\* In the handler cancellation no longer has an effect.
DrainGoesOn == pc = "handler" \/ (pc = "drain" /\ ~cancelReq)

DrainOne ==
  /\ DrainGoesOn
  /\ rxq # <<>>
  /\ rxq' = Tail(rxq)
  /\ heap' = heap \ {Head(rxq)}
  /\ dropped' = dropped \cup {Head(rxq)}
  /\ UNCHANGED <<nread, hand, ctrl, cancelReq, devOpen, pc, readVars, taken>>

DrainEnd ==
  /\ DrainGoesOn
  /\ rxq = <<>>
  /\ pc' = "done"
  /\ UNCHANGED <<rxq, nread, heap, hand, ctrl, cancelReq, devOpen, readVars,
                 histVars>>

-----------------------------------------------------------------------------
(* ffs_transport_thread_usb_read                                           *)

\* g_malloc gives a buffer...
Allocate ==
  /\ pc = "top"
  /\ ~cancelReq
  /\ hand' = nread + 1
  /\ heap' = heap \cup {nread + 1}
  /\ attempts' = 0
  /\ pc' = "read"
  /\ UNCHANGED <<rxq, nread, ctrl, cancelReq, devOpen, status, errno, retry,
                 histVars>>

\* ...or none, which ends the loop.
AllocateFails ==
  /\ pc = "top"
  /\ ~cancelReq
  /\ pc' = "leave"
  /\ UNCHANGED <<rxq, nread, heap, hand, ctrl, cancelReq, devOpen, readVars,
                 histVars>>

\* What one read(g_usb_ep_out) may answer: data, nothing, or an error.
CountAttempt == attempts' = IF attempts <= MaxRetry THEN attempts + 1 ELSE attempts

ReadData ==
  /\ devOpen
  /\ nread < MaxPkts
  /\ nread' = nread + 1
  /\ status' = 1
  /\ UNCHANGED errno

ReadNothing ==
  /\ devOpen
  /\ status' = 0
  /\ UNCHANGED <<nread, errno>>

ReadFails ==
  /\ status' = -1
  /\ errno' \in IF devOpen THEN Errno ELSE {"other"}
  /\ UNCHANGED nread

Read ==
  /\ pc = "read"
  /\ ~cancelReq
  /\ CountAttempt
  /\ \/ ReadData /\ pc' = "send" /\ UNCHANGED retry
     \/ (ReadNothing \/ ReadFails) /\ pc' = "handle" /\ retry' = 0
  /\ UNCHANGED <<rxq, heap, hand, ctrl, cancelReq, devOpen, histVars>>

\* _util_msgq_send waits for room in the queue...
SendPacket ==
  /\ pc = "send"
  /\ ~cancelReq
  /\ Len(rxq) < QueueCap
  /\ rxq' = Append(rxq, nread)
  /\ hand' = 0
  /\ pc' = "top"
  /\ UNCHANGED <<nread, heap, ctrl, cancelReq, devOpen, readVars, histVars>>

SendFailsKeeps ==            \* fault: the packet that was not sent is not freed
  /\ pc = "send"
  /\ ~cancelReq
  /\ hand' = 0
  /\ dropped' = dropped \cup {nread}
  /\ pc' = "top"
  /\ UNCHANGED <<rxq, nread, heap, ctrl, cancelReq, devOpen, readVars, taken>>

\* ...or fails: the packet is freed and the loop goes on with the next one.
SendFails ==
  /\ pc = "send"
  /\ ~cancelReq
  /\ heap' = heap \ {hand}
  /\ hand' = 0
  /\ dropped' = dropped \cup {nread}
  /\ pc' = "top"
  /\ UNCHANGED <<rxq, nread, ctrl, cancelReq, devOpen, readVars, taken>>

-----------------------------------------------------------------------------
(* __handle_usb_read_err                                                   *)

\* while (retry++ < MTP_USB_ERROR_MAX_RETRY)
MayRetry == pc = "handle" /\ retry < MaxRetry

SkipUncounted ==             \* fault: the retry is not counted
  /\ MayRetry
  /\ status = 0 \/ errno \in {"EINTR", "ESHUTDOWN"}
  /\ pc' = "reread"
  /\ UNCHANGED <<rxq, nread, heap, hand, ctrl, cancelReq, devOpen, readVars,
                 histVars>>

\* A zero-length packet, an interrupted read and a shut-down endpoint are
\* skipped: read again.
Skip ==
  /\ MayRetry
  /\ status = 0 \/ errno \in {"EINTR", "ESHUTDOWN"}
  /\ retry' = retry + 1
  /\ pc' = "reread"
  /\ UNCHANGED <<rxq, nread, heap, hand, ctrl, cancelReq, devOpen, status,
                 errno, attempts, histVars>>

RecoverUncounted ==          \* fault: the retry is not counted
  /\ MayRetry
  /\ status < 0
  /\ errno = "EIO"
  /\ pc' = "deinit"
  /\ UNCHANGED <<rxq, nread, heap, hand, ctrl, cancelReq, devOpen, readVars,
                 histVars>>

\* EIO while the cable is connected: close and reopen the device.
Recover ==
  /\ MayRetry
  /\ status < 0
  /\ errno = "EIO"
  /\ retry' = retry + 1
  /\ pc' = "deinit"
  /\ UNCHANGED <<rxq, nread, heap, hand, ctrl, cancelReq, devOpen, status,
                 errno, attempts, histVars>>

Deinit ==
  /\ pc = "deinit"
  /\ ~cancelReq
  /\ devOpen' = FALSE
  /\ pc' = "init"
  /\ UNCHANGED <<rxq, nread, heap, hand, ctrl, cancelReq, readVars, histVars>>

Reinit ==
  /\ pc = "init"
  /\ ~cancelReq
  /\ devOpen' = TRUE
  /\ pc' = "reread"
  /\ UNCHANGED <<rxq, nread, heap, hand, ctrl, cancelReq, readVars, histVars>>

\* The device does not open: the next turn looks at the errno open() left,
\* and at the result of the read before.
ReinitFails ==
  /\ pc = "init"
  /\ ~cancelReq
  /\ errno' \in Errno
  /\ pc' = "handle"
  /\ UNCHANGED <<rxq, nread, heap, hand, ctrl, cancelReq, devOpen, status,
                 retry, attempts, histVars>>

RereadDataLost ==            \* fault: data read by a retry is taken for a failure
  /\ pc = "reread"
  /\ ~cancelReq
  /\ CountAttempt
  /\ \/ ReadData /\ heap' = heap \ {hand} /\ hand' = 0 /\ pc' = "leave"
     \/ (ReadNothing \/ ReadFails) /\ pc' = "handle" /\ UNCHANGED <<heap, hand>>
  /\ UNCHANGED <<rxq, ctrl, cancelReq, devOpen, retry, histVars>>

Reread ==
  /\ pc = "reread"
  /\ ~cancelReq
  /\ CountAttempt
  /\ \/ ReadData /\ pc' = "send"
     \/ (ReadNothing \/ ReadFails) /\ pc' = "handle"
  /\ UNCHANGED <<rxq, heap, hand, ctrl, cancelReq, devOpen, retry, histVars>>

\* The retries are used up, the cable is not connected or the error is of
\* another kind: free the buffer and end the loop.
GiveUp ==
  /\ pc = "handle"
  /\ \/ retry >= MaxRetry
     \/ status < 0 /\ errno \in {"EIO", "other"}
  /\ heap' = heap \ {hand}
  /\ hand' = 0
  /\ pc' = "leave"
  /\ UNCHANGED <<rxq, nread, ctrl, cancelReq, devOpen, readVars, histVars>>

-----------------------------------------------------------------------------
ReaderStep ==
  \/ Cancelled \/ Leave \/ LeaveCancelled \/ DrainOne \/ DrainEnd \/ Allocate
  \/ AllocateFails \/ Read \/ SendPacket \/ SendFails \/ Skip \/ Recover
  \/ Deinit \/ Reinit \/ ReinitFails \/ Reread \/ GiveUp

Next == TakePacket \/ TakeControlEvent \/ CancelThread \/ ReaderStep

Spec == Init /\ [][Next]_vars

\* The reader is scheduled; nothing is assumed of host or responder.
FairSpec == Spec /\ WF_vars(ReaderStep)

-----------------------------------------------------------------------------
(* Properties                                                              *)

\* Every variable has its type and the queue never exceeds its size.
TypeOK ==
  /\ rxq \in Seq(1 .. MaxPkts) /\ Len(rxq) <= QueueCap
  /\ nread \in 0 .. MaxPkts
  /\ heap \subseteq 1 .. (MaxPkts + 1)
  /\ hand \in 0 .. (MaxPkts + 1)
  /\ ctrl \in BOOLEAN /\ cancelReq \in BOOLEAN /\ devOpen \in BOOLEAN
  /\ pc \in {"top", "read", "send", "handle", "deinit", "init", "reread",
             "leave", "drain", "handler", "done"}
  /\ status \in -1 .. 1
  /\ errno \in Errno
  /\ retry \in 0 .. MaxRetry
  /\ attempts \in 0 .. (MaxRetry + 1)
  /\ taken \in Seq(1 .. MaxPkts)
  /\ dropped \subseteq 1 .. MaxPkts

Queued == ToSet(rxq)
InHand == {hand} \ {0}

\* Every queued buffer and the one in hand are allocated, none is both, none
\* is forgotten; a thread that has ended holds one, or leaves one queued, only
\* if it was cancelled.
BuffersOwned ==
  /\ Queued \cap InHand = {}
  /\ heap = Queued \cup InHand
  /\ pc = "done" /\ Queued \cup InHand # {} => cancelReq

\* Every packet read from the host is in one place: received by the responder,
\* queued, in the thread's hand, or dropped; the responder receives packets in
\* the order they were read, before those still queued.
Accounted ==
  /\ 1 .. nread = ToSet(taken) \cup Queued \cup dropped
                    \cup (IF hand = nread THEN InHand ELSE {})
  /\ \A i, j \in 1 .. Len(taken \o rxq) :
       i < j => (taken \o rxq)[i] < (taken \o rxq)[j]
  /\ dropped \cap (ToSet(taken) \cup Queued \cup InHand) = {}

\* One buffer costs at most one read and MaxRetry more.
RetryBounded == pc = "reread" => attempts <= MaxRetry

\* A cancelled thread ends, wherever it waits.
CancelStops == cancelReq ~> pc = "done"

\* A thread whose device could not be reopened does not go on for ever.
ClosedEnds == ~devOpen ~> (devOpen \/ pc = "done")
=============================================================================
