----------------------------- MODULE MtpWriter -----------------------------
(***************************************************************************)
(* The USB writer thread of the MTP responder, its transmit queue and the  *)
(* two things the responder does to it: it queues packets and it cancels   *)
(* the thread (mtp-responder/mtp_usb_driver_nuttx.c,                       *)
(* ffs_transport_thread_usb_write and __clean_up_msg_queue).               *)
(*                                                                         *)
(* A packet is a number: the n-th packet the responder queues.  Its buffer *)
(* is allocated by the responder and carries the same number.  Data is     *)
(* counted in chunks; what is written is recorded as extents, one for each *)
(* write() that moved data.                                                *)
(*                                                                         *)
(* The descriptors the thread uses are the subject of MtpTransport; here a *)
(* poll() or a write() is the set of its outcomes.                         *)
(***************************************************************************)
EXTENDS Integers, Sequences

CONSTANTS
  MaxPkts,    \* bound: packets the responder queues in one behaviour
  MaxLen,     \* bound: chunks of data in one packet
  QueueCap    \* packets the transmit message queue holds (tx_mq_sz)

ASSUME WriterAssumption ==
  /\ MaxPkts \in Nat
  /\ MaxLen \in Nat
  /\ QueueCap \in Nat \ {0}

Bulk == "MTP_BULK_PACKET"         \* MTP_DATA_PACKET takes the same branch
Event == "MTP_EVENT_PACKET"
Zlp == "MTP_ZLP_PACKET"
Undefined == "MTP_UNDEFINED_PACKET"
MsgType == {Bulk, Event, Zlp, Undefined}

PktId == 1 .. MaxPkts
Len0 == 0 .. MaxLen
NULL == 0                         \* no buffer

Packet == [id : PktId, mtype : MsgType, len : Len0, buf : PktId \cup {NULL}]
Extent == [id : PktId, from : Len0, n : Len0, len : Len0]

VARIABLES
  txq,        \* the transmit message queue
  nsent,      \* number of packets queued so far
  heap,       \* packets whose buffer is allocated and not yet freed
  ctrl,       \* the control event PTP_EVENTCODE_CANCELTRANSACTION is set
  cancelReq,  \* pthread_cancel() was called for the thread
  pc,         \* where the thread is
  ret,        \* where __clean_up_msg_queue returns to
  mtype,      \* local mtype
  buf,        \* local mtp_buf
  len,        \* local len
  written,    \* local written
  status,     \* local status
  cur,        \* history: the packet last received, 0 before the first
  mark,       \* history: nsent when the latest complete drain began
  drainFrom,  \* history: nsent when the drain in progress began
  wire        \* history: the extents written to the bulk-in endpoint

queueVars == <<txq, nsent>>
localVars == <<mtype, buf, len, written, status, cur>>
histVars == <<mark, drainFrom>>
vars == <<txq, nsent, heap, ctrl, cancelReq, pc, ret, mtype, buf, len,
          written, status, cur, mark, drainFrom, wire>>

Init ==
  /\ txq = <<>>
  /\ nsent = 0
  /\ heap = {}
  /\ ctrl = FALSE
  /\ cancelReq = FALSE
  /\ pc = "top"
  /\ ret = "none"
  /\ mtype = Undefined
  /\ buf = NULL
  /\ len = 0
  /\ written = 0
  /\ status = 0
  /\ cur = 0
  /\ mark = 0
  /\ drainFrom = 0
  /\ wire = <<>>

-----------------------------------------------------------------------------
(* The responder (outside this repository).                                *)

\* It allocates a buffer and queues a packet, waiting while the queue is
\* full.  A zero-length packet carries no buffer.
Send ==
  /\ nsent < MaxPkts
  /\ Len(txq) < QueueCap
  /\ \E t \in MsgType, l \in Len0 :
       /\ t = Zlp => l = 0
       /\ txq' = Append(txq, [id |-> nsent + 1, mtype |-> t, len |-> l,
                              buf |-> IF t = Zlp THEN NULL ELSE nsent + 1])
       /\ heap' = IF t = Zlp THEN heap ELSE heap \cup {nsent + 1}
  /\ nsent' = nsent + 1
  /\ UNCHANGED <<ctrl, cancelReq, pc, ret, localVars, histVars, wire>>

\* It reads and resets the control event.
TakeControlEvent ==
  /\ ctrl
  /\ ctrl' = FALSE
  /\ UNCHANGED <<queueVars, heap, cancelReq, pc, ret, localVars, histVars,
                 wire>>

\* It cancels the thread, which stops at its next cancellation point.
CancelThread ==
  /\ ~cancelReq
  /\ cancelReq' = TRUE
  /\ UNCHANGED <<queueVars, heap, ctrl, pc, ret, localVars, histVars, wire>>

-----------------------------------------------------------------------------
(* __clean_up_msg_queue                                                    *)

\* Entered from r: it sets the control event before it looks at the queue.
EnterDrain(r) ==
  /\ pc' = "drain"
  /\ ret' = r
  /\ ctrl' = TRUE
  /\ drainFrom' = nsent

\* Its _util_msgq_receive is a cancellation point, but not in the handler of a
\* cancelled thread, which cancellation no longer reaches.
DrainGoesOn == pc = "drain" /\ (cancelReq => ret = "done")

\* One _util_msgq_receive without waiting that finds a packet, and its g_free.
DrainOne ==
  /\ DrainGoesOn
  /\ txq # <<>>
  /\ txq' = Tail(txq)
  /\ heap' = heap \ {Head(txq).buf}
  /\ UNCHANGED <<nsent, ctrl, cancelReq, pc, ret, localVars, histVars, wire>>

DrainEndEarly ==             \* fault: returns before the queue is empty
  /\ DrainGoesOn
  /\ pc' = ret
  /\ mark' = drainFrom
  /\ UNCHANGED <<queueVars, heap, ctrl, cancelReq, ret, localVars, drainFrom,
                 wire>>

\* The queue is empty: return.
DrainEnd ==
  /\ DrainGoesOn
  /\ txq = <<>>
  /\ pc' = ret
  /\ mark' = drainFrom
  /\ UNCHANGED <<queueVars, heap, ctrl, cancelReq, ret, localVars, drainFrom,
                 wire>>

-----------------------------------------------------------------------------
(* ffs_transport_thread_usb_write                                          *)

OnlyTestCancel == pc = "top" \* fault: blocking calls are no cancellation points

\* pthread_testcancel() and the calls that may block are cancellation points;
\* the thread then runs its cleanup handler and ends without the code after it.
AtCancellationPoint ==
  \/ pc \in {"top", "rcv", "bulk", "write", "event", "zlp"}
  \/ pc = "drain" /\ ret = "bulk"

Cancelled ==
  /\ cancelReq
  /\ AtCancellationPoint
  /\ pc = "bulk" => written # len      \* poll() is the cancellation point
  /\ EnterDrain("done")
  /\ UNCHANGED <<queueVars, heap, cancelReq, localVars, mark, wire>>

\* pthread_cleanup_pop(1) takes the handler off before it calls it: cancelled
\* in that drain, the thread ends at once, whatever is left in the queue, and
\* the g_free(mtp_buf) after it is skipped.
LeaveCancelled ==
  /\ cancelReq
  /\ pc = "drain"
  /\ ret = "exit"
  /\ pc' = "done"
  /\ UNCHANGED <<queueVars, heap, ctrl, cancelReq, ret, localVars, histVars,
                 wire>>

TestCancel ==
  /\ pc = "top"
  /\ ~cancelReq
  /\ pc' = "rcv"
  /\ UNCHANGED <<queueVars, heap, ctrl, cancelReq, ret, localVars, histVars,
                 wire>>

\* The branch taken on the type received.
Branch(t) == CASE t = Bulk -> "bulk"
               [] t = Event -> "event"
               [] t = Zlp -> "zlp"
               [] t = Undefined -> "invalid"

\* _util_rcv_msg_from_mq waits for a packet...
Receive ==
  /\ pc = "rcv"
  /\ ~cancelReq
  /\ txq # <<>>
  /\ LET p == Head(txq) IN
       /\ mtype' = p.mtype
       /\ buf' = p.buf
       /\ len' = p.len
       /\ cur' = p.id
       /\ pc' = Branch(p.mtype)
  /\ txq' = Tail(txq)
  /\ UNCHANGED <<nsent, heap, ctrl, cancelReq, ret, written, status, histVars,
                 wire>>

\* ...or fails; its result is ignored and the type is left undefined.
ReceiveFails ==
  /\ pc = "rcv"
  /\ ~cancelReq
  /\ mtype' = Undefined
  /\ len' = 0
  /\ pc' = Branch(Undefined)
  /\ UNCHANGED <<queueVars, heap, ctrl, cancelReq, ret, buf, written, status,
                 cur, histVars, wire>>

\* poll() fails, or returns without POLLOUT: poll again.
PollAgain ==
  /\ pc = "bulk"
  /\ written # len
  /\ ~cancelReq
  /\ status' \in {-1, 1}
  /\ UNCHANGED <<queueVars, heap, ctrl, cancelReq, pc, ret, mtype, buf, len,
                 written, cur, histVars, wire>>

PollReady ==
  /\ pc = "bulk"
  /\ written # len
  /\ ~cancelReq
  /\ status' = 1
  /\ pc' = "write"
  /\ UNCHANGED <<queueVars, heap, ctrl, cancelReq, ret, mtype, buf, len,
                 written, cur, histVars, wire>>

\* write() takes n of the remaining chunks.
BulkWrite(n) ==
  /\ pc = "write"
  /\ ~cancelReq
  /\ status' = n
  /\ written' = written + n
  /\ wire' = IF n = 0 THEN wire
             ELSE Append(wire, [id |-> cur, from |-> written, n |-> n,
                                len |-> len])
  /\ pc' = "bulk"
  /\ UNCHANGED <<queueVars, heap, ctrl, cancelReq, ret, mtype, buf, len, cur,
                 histVars>>

\* write() fails with ENOMEM or ECANCELED: the queue is drained and the same
\* packet is tried again.
BulkWriteCancelled ==
  /\ pc = "write"
  /\ ~cancelReq
  /\ status' = 0
  /\ EnterDrain("bulk")
  /\ UNCHANGED <<queueVars, heap, cancelReq, mtype, buf, len, written, cur,
                 mark, wire>>

BulkWriteLeaves ==           \* fault: any failure leaves the inner loop
  /\ pc = "write"
  /\ ~cancelReq
  /\ status' = -1
  /\ pc' = "check"
  /\ UNCHANGED <<queueVars, heap, ctrl, cancelReq, ret, mtype, buf, len,
                 written, cur, histVars, wire>>

\* write() fails otherwise: the same packet is tried again.
BulkWriteFails ==
  /\ pc = "write"
  /\ ~cancelReq
  /\ status' = -1
  /\ pc' = "bulk"
  /\ UNCHANGED <<queueVars, heap, ctrl, cancelReq, ret, mtype, buf, len,
                 written, cur, histVars, wire>>

BulkEndKeepsCount ==         \* fault: written is not reset
  /\ pc = "bulk"
  /\ written = len
  /\ heap' = heap \ {buf}
  /\ buf' = NULL
  /\ pc' = "check"
  /\ UNCHANGED <<queueVars, ctrl, cancelReq, ret, mtype, len, written, status,
                 cur, histVars, wire>>

BulkEndKeepsPointer ==       \* fault: mtp_buf still points to the freed buffer
  /\ pc = "bulk"
  /\ written = len
  /\ written' = 0
  /\ heap' = heap \ {buf}
  /\ pc' = "check"
  /\ UNCHANGED <<queueVars, ctrl, cancelReq, ret, mtype, buf, len, status, cur,
                 histVars, wire>>

\* The whole packet is written: reset the count and free the buffer.
BulkEnd ==
  /\ pc = "bulk"
  /\ written = len
  /\ written' = 0
  /\ heap' = heap \ {buf}
  /\ buf' = NULL
  /\ pc' = "check"
  /\ UNCHANGED <<queueVars, ctrl, cancelReq, ret, mtype, len, status, cur,
                 histVars, wire>>

\* One write() to the status endpoint, whatever it takes of the packet.
WriteEvent ==
  /\ pc = "event"
  /\ ~cancelReq
  /\ status' \in -1 .. len
  /\ heap' = heap \ {buf}
  /\ buf' = NULL
  /\ pc' = "check"
  /\ UNCHANGED <<queueVars, ctrl, cancelReq, ret, mtype, len, written, cur,
                 histVars, wire>>

\* One write() of no data to the bulk-in endpoint.
WriteZlp ==
  /\ pc = "zlp"
  /\ ~cancelReq
  /\ status' \in {-1, 0}
  /\ pc' = "check"
  /\ UNCHANGED <<queueVars, heap, ctrl, cancelReq, ret, mtype, buf, len,
                 written, cur, histVars, wire>>

InvalidType ==
  /\ pc = "invalid"
  /\ status' = -1
  /\ pc' = "check"
  /\ UNCHANGED <<queueVars, heap, ctrl, cancelReq, ret, mtype, buf, len,
                 written, cur, histVars, wire>>

\* The test at the end of the loop; on failure pthread_cleanup_pop(1) drains.
NextPacket ==
  /\ pc = "check"
  /\ status >= 0
  /\ pc' = "top"
  /\ UNCHANGED <<queueVars, heap, ctrl, cancelReq, ret, localVars, histVars,
                 wire>>

LeaveLoop ==
  /\ pc = "check"
  /\ status < 0
  /\ EnterDrain("exit")
  /\ UNCHANGED <<queueVars, heap, cancelReq, localVars, mark, wire>>

\* g_free(mtp_buf) after the loop.
Exit ==
  /\ pc = "exit"
  /\ heap' = heap \ {buf}
  /\ buf' = NULL
  /\ pc' = "done"
  /\ UNCHANGED <<queueVars, ctrl, cancelReq, ret, mtype, len, written, status,
                 cur, histVars, wire>>

-----------------------------------------------------------------------------
WriteSome == \E n \in 0 .. (len - written) : BulkWrite(n)

\* The steps that do not depend on the other end of the cable.
WriterStep ==
  \/ DrainOne \/ DrainEnd \/ Cancelled \/ LeaveCancelled \/ TestCancel \/ Receive
  \/ ReceiveFails
  \/ PollAgain \/ PollReady \/ WriteSome \/ BulkWriteCancelled
  \/ BulkWriteFails \/ BulkEnd \/ WriteEvent \/ WriteZlp \/ InvalidType
  \/ NextPacket \/ LeaveLoop \/ Exit

Next == Send \/ TakeControlEvent \/ CancelThread \/ WriterStep

Spec == Init /\ [][Next]_vars

\* The thread is scheduled, whatever the host does.
FairSpec == Spec /\ WF_vars(WriterStep)

\* A host that keeps reading lets poll() report POLLOUT and write() move data
\* again and again.
Progress == \E n \in 1 .. (len - written) : BulkWrite(n)
HostReads == SF_vars(PollReady) /\ SF_vars(Progress)

-----------------------------------------------------------------------------
(* Properties                                                              *)

PC == {"top", "rcv", "bulk", "write", "event", "zlp", "invalid", "check",
       "drain", "exit", "done"}

\* Every variable has its type and the queue never exceeds its size.
TypeOK ==
  /\ txq \in Seq(Packet)
  /\ Len(txq) <= QueueCap
  /\ nsent \in 0 .. MaxPkts
  /\ heap \subseteq PktId
  /\ ctrl \in BOOLEAN
  /\ cancelReq \in BOOLEAN
  /\ pc \in PC
  /\ ret \in {"none", "bulk", "exit", "done"}
  /\ mtype \in MsgType
  /\ buf \in PktId \cup {NULL}
  /\ len \in Len0
  /\ written \in Len0
  /\ status \in -1 .. (MaxLen + 1)
  /\ cur \in 0 .. MaxPkts
  /\ mark \in 0 .. MaxPkts
  /\ drainFrom \in 0 .. MaxPkts
  /\ wire \in Seq(Extent)

QueuedBufs == {txq[i].buf : i \in 1 .. Len(txq)} \ {NULL}
InHand == {buf} \ {NULL}

\* Every buffer the thread or the queue refers to is allocated (so none is
\* used or freed after a g_free), by one of them only, and no allocated
\* buffer is forgotten; when the thread has ended it still holds a buffer
\* only if it was cancelled: in its loop, or while it was leaving it because of
\* a packet of no known type.
BuffersOwned ==
  /\ \A i, j \in 1 .. Len(txq) :
       txq[i].buf = txq[j].buf /\ txq[i].buf # NULL => i = j
  /\ QueuedBufs \cap InHand = {}
  /\ heap = QueuedBufs \cup InHand
  /\ pc = "done" /\ InHand # {} =>
       cancelReq /\ (ret = "done" \/ (ret = "exit" /\ mtype = Undefined))

\* What the host reads from the bulk-in endpoint: packets in the order they
\* were queued, the chunks of each in order, without a gap or a repetition,
\* each packet complete before the next begins, whatever failed, was retried
\* or was drained in between.
WireOrder ==
  /\ Len(wire) > 0 => wire[1].from = 0
  /\ \A i \in 1 .. Len(wire) : wire[i].from + wire[i].n <= wire[i].len
  /\ \A i \in 1 .. Len(wire) - 1 :
       \/ /\ wire[i + 1].id = wire[i].id
          /\ wire[i + 1].from = wire[i].from + wire[i].n
       \/ /\ wire[i + 1].id > wire[i].id
          /\ wire[i + 1].from = 0
          /\ wire[i].from + wire[i].n = wire[i].len

\* A failing bulk write never ends the thread: only an event, a zero-length
\* packet or a packet of no known type brings it to the failing test at the
\* end of the loop.
BulkErrorsStay == pc = "check" /\ mtype = Bulk => status >= 0

\* Once a drain is complete, no packet queued before it began is taken from
\* the queue again (the packet in hand is not concerned: it is retried).
StaleNotTaken == [][cur' # cur => cur' > mark]_vars

\* pthread_cancel() ends the thread, wherever it is and whatever the host
\* does: every wait is a cancellation point and the cleanup handler ends.
CancelStops == cancelReq ~> pc = "done"

\* A packet a live thread has before it: queued, or taken and not dealt with.
Unfinished(k) ==
  /\ pc # "done"
  /\ \/ \E i \in 1 .. Len(txq) : txq[i].id = k
     \/ /\ cur = k
        /\ \/ pc \in {"bulk", "write", "event", "zlp", "invalid"}
           \/ pc = "drain" /\ ret = "bulk"

\* With a host that reads, a live thread deals with every packet, whatever
\* fails and is retried on the way.
QueueDrains == HostReads => \A k \in PktId : Unfinished(k) ~> ~Unfinished(k)
-----------------------------------------------------------------------------
(* The writer implements the abstract transmit path.                       *)

AbsPacket(p) == [id |-> p.id, size |-> IF p.mtype = Bulk THEN p.len ELSE 0]
AbsExtent(w) == [id |-> w.id, n |-> w.n]

AbsPending == [i \in 1 .. Len(txq) |-> AbsPacket(txq[i])]
AbsOut == [i \in 1 .. Len(wire) |-> AbsExtent(wire[i])]
AbsLeft == IF pc \in {"bulk", "write"} \/ (pc = "drain" /\ ret = "bulk")
           THEN len - written ELSE 0
AbsFlushing == pc = "drain"
AbsOpen == ~(\/ pc \in {"exit", "done"}
             \/ pc = "drain" /\ ret \in {"exit", "done"})

Pipe == INSTANCE MtpPipe WITH
  pending <- AbsPending, accepted <- nsent, current <- cur, left <- AbsLeft,
  out <- AbsOut, flushing <- AbsFlushing, told <- ctrl, open <- AbsOpen,
  stopped <- cancelReq

\* Packets are taken in order and completely, one is given up only by a drain,
\* which has set CANCELTRANSACTION for the responder before, and a drain leaves
\* no packet in the queue but when the thread is cancelled on its way out.
ImplementsPipe == Pipe!Spec
=============================================================================
