-------------------------- MODULE MtpWriterProofs --------------------------
(***************************************************************************)
(* Proofs about MtpWriter for every number of packets, packet length and   *)
(* queue size.  The inductive invariant is IInv; each of its parts is      *)
(* shown to be preserved by a lemma of its own.                            *)
(***************************************************************************)
EXTENDS MtpWriter, SequenceTheorems, TLAPS

\* The thread is working on a bulk packet.
InBulk == pc \in {"bulk", "write"} \/ (pc = "drain" /\ ret = "bulk")

\* The thread runs its cleanup handler after a cancellation, or has run it.
InHandler == pc \in {"drain", "done"} /\ ret = "done"

\* The queue holds the last packets sent, none of which was taken, and all of
\* which were sent after the latest complete drain began.
QueueInv ==
  /\ Len(txq) <= nsent
  /\ \A i \in 1 .. Len(txq) :
       /\ txq[i].id = nsent - Len(txq) + i
       /\ txq[i].buf = IF txq[i].mtype = Zlp THEN NULL ELSE txq[i].id
  /\ cur <= nsent - Len(txq)
  /\ mark <= nsent - Len(txq)
  /\ drainFrom <= nsent

\* The thread's locals at each point of its loop.
LocalInv ==
  /\ pc = "drain" => ret \in {"bulk", "exit", "done"}
  /\ pc = "exit" => ret = "exit"
  /\ InHandler => cancelReq
  /\ pc = "done" => ret \in {"exit", "done"}
  /\ pc = "done" /\ ret = "exit" /\ buf # NULL => cancelReq
  /\ pc = "check" \/ (pc \in {"drain", "done"} /\ ret = "exit") =>
       buf = NULL \/ mtype = Undefined
  /\ pc \in {"top", "rcv"} => status >= 0 /\ buf = NULL
  /\ pc = "check" => buf = NULL \/ status < 0
  /\ pc \in {"zlp"} => buf = NULL
  /\ buf # NULL => buf = cur
  /\ InBulk => mtype = Bulk /\ written <= len /\ cur # 0
  /\ pc = "bulk" /\ written = len => status >= 0
  /\ pc = "write" \/ (pc = "drain" /\ ret = "bulk") => written # len
  /\ ~InBulk /\ ~InHandler => written = 0
  /\ pc = "check" /\ mtype = Bulk => status >= 0
  /\ pc = "event" => mtype = Event
  /\ pc = "zlp" => mtype = Zlp
  /\ pc = "invalid" => mtype = Undefined

\* Allocated buffers are those queued and the one in hand.
HeapInv == heap = QueuedBufs \cup InHand

\* The last extent on the wire against the packet in hand.
WireInv ==
  /\ InBulk /\ Len(wire) = 0 => written = 0
  /\ Len(wire) > 0 =>
       LET w == wire[Len(wire)] IN
         /\ w.id <= cur
         /\ InBulk /\ w.id = cur => w.from + w.n = written /\ w.len = len
         /\ InBulk /\ w.id < cur => written = 0
         /\ (InBulk /\ w.id < cur) \/ (~InBulk /\ ~InHandler)
              => w.from + w.n = w.len

IInv == TypeOK /\ QueueInv /\ LocalInv /\ HeapInv /\ WireInv /\ WireOrder

USE DEF Bulk, Event, Zlp, Undefined, NULL

-----------------------------------------------------------------------------
(* Sequences: taking the first element and appending one.                  *)

LEMMA TailFacts ==
  ASSUME NEW S, NEW q \in Seq(S), q # <<>>
  PROVE  /\ Len(q) \in Nat /\ Len(q) > 0
         /\ Head(q) = q[1] /\ q[1] \in S
         /\ Tail(q) \in Seq(S)
         /\ Len(Tail(q)) = Len(q) - 1
         /\ \A i \in 1 .. Len(q) - 1 : Tail(q)[i] = q[i + 1]
OBVIOUS

LEMMA AppendFacts ==
  ASSUME NEW S, NEW q \in Seq(S), NEW e \in S
  PROVE  /\ Len(q) \in Nat
         /\ Append(q, e) \in Seq(S)
         /\ Len(Append(q, e)) = Len(q) + 1
         /\ \A i \in 1 .. Len(q) : Append(q, e)[i] = q[i]
         /\ Append(q, e)[Len(q) + 1] = e
OBVIOUS

-----------------------------------------------------------------------------
LEMMA InitIInv == Init => IInv
<1> SUFFICES ASSUME Init PROVE IInv
  OBVIOUS
<1> USE WriterAssumption DEF Init
<1>1. TypeOK
  <2>1. txq \in Seq(Packet) /\ wire \in Seq(Extent) /\ Len(txq) = 0
    OBVIOUS
  <2>2. /\ nsent \in 0 .. MaxPkts /\ cur \in 0 .. MaxPkts /\ mark \in 0 .. MaxPkts
        /\ drainFrom \in 0 .. MaxPkts /\ Len(txq) <= QueueCap
        /\ len \in Len0 /\ written \in Len0 /\ status \in -1 .. (MaxLen + 1)
    BY <2>1 DEF Len0
  <2> QED
    BY <2>1, <2>2 DEF TypeOK, PktId, MsgType, PC
<1>2. QueueInv /\ WireInv /\ WireOrder
  BY DEF QueueInv, WireInv, WireOrder
<1>3. LocalInv
  BY DEF LocalInv, InBulk, InHandler
<1>4. HeapInv
  BY DEF HeapInv, QueuedBufs, InHand
<1> QED
  BY <1>1, <1>2, <1>3, <1>4 DEF IInv

LEMMA TypeStep == ASSUME IInv, Next PROVE TypeOK'
<1> USE WriterAssumption DEF IInv, TypeOK, LocalInv, PktId, Len0, MsgType, PC,
        queueVars, localVars, histVars, EnterDrain, InBulk
<1>1. CASE Send
  <2> PICK t \in MsgType, l \in Len0 :
        /\ t = Zlp => l = 0
        /\ txq' = Append(txq, [id |-> nsent + 1, mtype |-> t, len |-> l,
                               buf |-> IF t = Zlp THEN NULL ELSE nsent + 1])
        /\ heap' = IF t = Zlp THEN heap ELSE heap \cup {nsent + 1}
    BY <1>1 DEF Send
  <2> DEFINE p == [id |-> nsent + 1, mtype |-> t, len |-> l,
                   buf |-> IF t = Zlp THEN NULL ELSE nsent + 1]
  <2>1. p \in Packet /\ nsent < MaxPkts /\ Len(txq) < QueueCap
    BY <1>1 DEF Send, Packet
  <2>2. txq' \in Seq(Packet) /\ Len(txq') <= QueueCap
    <3> HIDE DEF p
    <3> QED BY <2>1, AppendFacts DEF p
  <2> QED BY <1>1, <2>1, <2>2 DEF Send
<1>2. CASE TakeControlEvent BY <1>2 DEF TakeControlEvent
<1>3. CASE CancelThread BY <1>3 DEF CancelThread
<1>4. CASE DrainOne
  <2>1. txq' \in Seq(Packet) /\ Len(txq') <= QueueCap
    BY <1>4, TailFacts DEF DrainOne
  <2> QED BY <1>4, <2>1 DEF DrainOne
<1>5. CASE DrainEnd BY <1>5 DEF DrainEnd, DrainGoesOn
<1>6. CASE Cancelled BY <1>6 DEF Cancelled
<1>7. CASE TestCancel BY <1>7 DEF TestCancel
<1>8. CASE Receive
  <2>1. txq' \in Seq(Packet) /\ Len(txq') <= QueueCap /\ Head(txq) \in Packet
    BY <1>8, TailFacts DEF Receive
  <2>2. /\ Head(txq).id \in PktId /\ Head(txq).mtype \in MsgType
        /\ Head(txq).len \in Len0 /\ Head(txq).buf \in PktId \cup {NULL}
    BY <2>1 DEF Packet
  <2>3. Branch(Head(txq).mtype) \in PC
    BY <2>2 DEF Branch
  <2> QED BY <1>8, <2>1, <2>2, <2>3 DEF Receive
<1>9. CASE ReceiveFails BY <1>9 DEF ReceiveFails, Branch
<1>10. CASE PollAgain BY <1>10 DEF PollAgain
<1>11. CASE PollReady BY <1>11 DEF PollReady
<1>12. CASE WriteSome
  <2> PICK n \in 0 .. (len - written) : BulkWrite(n)
    BY <1>12 DEF WriteSome
  <2> DEFINE e == [id |-> cur, from |-> written, n |-> n, len |-> len]
  <2>1. pc = "write" /\ written + n <= len /\ n \in Len0
    BY DEF BulkWrite
  <2>2. cur # 0 => e \in Extent
    BY <2>1 DEF Extent
  <2>3. cur # 0
    BY <2>1 DEF WireInv
  <2>4. wire' \in Seq(Extent)
    <3> HIDE DEF e
    <3> QED BY <2>2, <2>3, AppendFacts DEF BulkWrite, e
  <2> QED BY <2>1, <2>4 DEF BulkWrite
<1>13. CASE BulkWriteCancelled BY <1>13 DEF BulkWriteCancelled
<1>14. CASE BulkWriteFails BY <1>14 DEF BulkWriteFails
<1>15. CASE BulkEnd BY <1>15 DEF BulkEnd
<1>16. CASE WriteEvent BY <1>16 DEF WriteEvent
<1>17. CASE WriteZlp BY <1>17 DEF WriteZlp
<1>18. CASE InvalidType BY <1>18 DEF InvalidType
<1>19. CASE NextPacket BY <1>19 DEF NextPacket
<1>20. CASE LeaveLoop BY <1>20 DEF LeaveLoop
<1>21. CASE Exit BY <1>21 DEF Exit
<1>22. CASE LeaveCancelled BY <1>22 DEF LeaveCancelled
<1> QED BY <1>1, <1>2, <1>3, <1>4, <1>5, <1>6, <1>7, <1>8, <1>9, <1>10, <1>11,
           <1>12, <1>13, <1>14, <1>15, <1>16, <1>17, <1>18, <1>19, <1>20, <1>21,
           <1>22
        DEF Next, WriterStep

-----------------------------------------------------------------------------
\* Only Send, Receive and a drain touch the queue or its history variables.
LEMMA QueueStep == ASSUME IInv, Next PROVE QueueInv'
<1> USE WriterAssumption DEF IInv, QueueInv, queueVars, localVars, histVars,
        EnterDrain
<1>0. /\ nsent \in Nat /\ cur \in Nat /\ mark \in Nat /\ drainFrom \in Nat
      /\ txq \in Seq(Packet) /\ Len(txq) \in Nat
  BY DEF TypeOK
<1>1. CASE Send
  <2> PICK t \in MsgType, l \in Len0 :
        txq' = Append(txq, [id |-> nsent + 1, mtype |-> t, len |-> l,
                            buf |-> IF t = Zlp THEN NULL ELSE nsent + 1])
    BY <1>1 DEF Send
  <2> DEFINE p == [id |-> nsent + 1, mtype |-> t, len |-> l,
                   buf |-> IF t = Zlp THEN NULL ELSE nsent + 1]
  <2>1. /\ p \in Packet /\ p.id = nsent + 1
        /\ p.buf = IF p.mtype = Zlp THEN NULL ELSE p.id
    BY <1>1 DEF Send, Packet, TypeOK, PktId
  <2>2. /\ Len(txq') = Len(txq) + 1
        /\ \A i \in 1 .. Len(txq) : txq'[i] = txq[i]
        /\ txq'[Len(txq) + 1] = p
    <3> HIDE DEF p
    <3> QED BY <1>0, <2>1, AppendFacts DEF p
  <2>3. /\ nsent' = nsent + 1
        /\ UNCHANGED <<cur, mark, drainFrom>>
    BY <1>1 DEF Send
  <2>4. ASSUME NEW i \in 1 .. Len(txq')
        PROVE  /\ txq'[i].id = nsent' - Len(txq') + i
               /\ txq'[i].buf = IF txq'[i].mtype = Zlp THEN NULL ELSE txq'[i].id
    <3> HIDE DEF p
    <3>1. CASE i \in 1 .. Len(txq) BY <1>0, <2>2, <2>3, <3>1
    <3>2. CASE i = Len(txq) + 1 BY <1>0, <2>1, <2>2, <2>3, <3>2
    <3> QED BY <1>0, <2>2, <3>1, <3>2
  <2> QED BY <1>0, <2>2, <2>3, <2>4
<1>2. CASE DrainOne \/ Receive
  <2>1. /\ Len(txq) > 0
        /\ Len(txq') = Len(txq) - 1
        /\ \A i \in 1 .. Len(txq) - 1 : txq'[i] = txq[i + 1]
        /\ Head(txq) = txq[1]
    <3>1. txq # <<>> /\ txq' = Tail(txq)
      BY <1>2 DEF DrainOne, Receive
    <3> QED BY <1>0, <3>1, TailFacts
  <2>2. UNCHANGED <<nsent, mark, drainFrom>> /\ cur' \in {cur, Head(txq).id}
    BY <1>2 DEF DrainOne, Receive
  <2>3. txq[1].id = nsent - Len(txq) + 1
    <3>1. 1 \in 1 .. Len(txq)
      BY <1>0, <2>1
    <3> QED BY <1>0, <3>1
  <2>4. cur' <= nsent - Len(txq')
    BY <1>0, <2>1, <2>2, <2>3
  <2>5. ASSUME NEW i \in 1 .. Len(txq')
        PROVE  /\ txq'[i].id = nsent' - Len(txq') + i
               /\ txq'[i].buf = IF txq'[i].mtype = Zlp THEN NULL ELSE txq'[i].id
    <3>1. i \in 1 .. Len(txq) - 1 /\ i + 1 \in 1 .. Len(txq)
      BY <1>0, <2>1
    <3>2. txq'[i] = txq[i + 1] /\ nsent' = nsent
      BY <2>1, <2>2, <3>1
    <3>3. /\ txq[i + 1].id = nsent - Len(txq) + (i + 1)
          /\ txq[i + 1].buf = IF txq[i + 1].mtype = Zlp THEN NULL
                             ELSE txq[i + 1].id
      BY <3>1
    <3>4. nsent - Len(txq) + (i + 1) = nsent' - Len(txq') + i
      BY <1>0, <2>1, <3>2
    <3> QED BY <3>2, <3>3, <3>4
  <2> QED BY <1>0, <2>1, <2>2, <2>4, <2>5
<1>3. CASE DrainEnd
  BY <1>0, <1>3 DEF DrainEnd, DrainGoesOn
<1>4. CASE UNCHANGED <<txq, nsent, cur, mark>> /\ drainFrom' \in {drainFrom, nsent}
  BY <1>0, <1>4
<1> QED
  BY <1>1, <1>2, <1>3, <1>4
  DEF Next, WriterStep, TakeControlEvent, CancelThread, Cancelled, TestCancel,
      ReceiveFails, PollAgain, PollReady, WriteSome, BulkWrite,
      BulkWriteCancelled, BulkWriteFails, BulkEnd, WriteEvent, WriteZlp,
      InvalidType, NextPacket, LeaveLoop, LeaveCancelled, Exit

LEMMA LocalStep == ASSUME IInv, Next PROVE LocalInv'
<1> USE WriterAssumption DEF IInv, LocalInv, InBulk, InHandler, queueVars,
        localVars, histVars, EnterDrain
<1>0. /\ status \in Int /\ len \in Nat /\ written \in Nat /\ cur \in Nat
      /\ mtype \in MsgType
  BY DEF TypeOK, Len0
<1>1. CASE Send BY <1>1 DEF Send
<1>2. CASE TakeControlEvent BY <1>2 DEF TakeControlEvent
<1>3. CASE CancelThread BY <1>3 DEF CancelThread
<1>4. CASE DrainOne BY <1>4 DEF DrainOne, DrainGoesOn
<1>5. CASE DrainEnd BY <1>0, <1>5 DEF DrainEnd, DrainGoesOn
<1>6. CASE Cancelled BY <1>0, <1>6 DEF Cancelled, AtCancellationPoint
<1>7. CASE TestCancel BY <1>7 DEF TestCancel
<1>8. CASE Receive
  <2> DEFINE p == Head(txq)
  <2>1. p = txq[1] /\ p \in Packet /\ Len(txq) > 0
    BY <1>8, TailFacts DEF Receive, TypeOK
  <2>2. /\ p.id \in PktId /\ p.mtype \in MsgType /\ p.len \in Len0
        /\ p.buf = IF p.mtype = Zlp THEN NULL ELSE p.id
    <3>1. /\ p.id \in PktId /\ p.mtype \in MsgType /\ p.len \in Len0
      BY <2>1 DEF Packet
    <3>2. 1 \in 1 .. Len(txq)
      BY <2>1, TailFacts DEF TypeOK
    <3> QED BY <2>1, <3>1, <3>2 DEF QueueInv
  <2>3. p.id > 0 /\ p.len >= 0 /\ p.len \in Int
    BY <2>2 DEF PktId, Len0
  <2> HIDE DEF p
  <2>4. /\ mtype' = p.mtype /\ buf' = p.buf /\ len' = p.len /\ cur' = p.id
        /\ pc' = Branch(p.mtype) /\ status >= 0 /\ written = 0
        /\ UNCHANGED <<ret, status, written, cancelReq>>
    BY <1>8 DEF Receive, p
  <2>5. /\ p.mtype = Bulk => pc' = "bulk"
        /\ p.mtype = Event => pc' = "event"
        /\ p.mtype = Zlp => pc' = "zlp"
        /\ p.mtype = Undefined => pc' = "invalid"
    BY <2>4 DEF Branch
  <2> QED BY <1>0, <2>2, <2>3, <2>4, <2>5 DEF MsgType
<1>9. CASE ReceiveFails BY <1>9 DEF ReceiveFails, Branch
<1>10. CASE PollAgain BY <1>0, <1>10 DEF PollAgain
<1>11. CASE PollReady BY <1>0, <1>11 DEF PollReady
<1>12. CASE WriteSome BY <1>0, <1>12 DEF WriteSome, BulkWrite
<1>13. CASE BulkWriteCancelled BY <1>0, <1>13 DEF BulkWriteCancelled
<1>14. CASE BulkWriteFails BY <1>0, <1>14 DEF BulkWriteFails
<1>15. CASE BulkEnd BY <1>0, <1>15 DEF BulkEnd
<1>16. CASE WriteEvent BY <1>0, <1>16 DEF WriteEvent
<1>17. CASE WriteZlp BY <1>0, <1>17 DEF WriteZlp
<1>18. CASE InvalidType BY <1>0, <1>18 DEF InvalidType
<1>19. CASE NextPacket BY <1>0, <1>19 DEF NextPacket
<1>20. CASE LeaveLoop BY <1>0, <1>20 DEF LeaveLoop
<1>21. CASE Exit BY <1>0, <1>21 DEF Exit
<1>22. CASE LeaveCancelled BY <1>0, <1>22 DEF LeaveCancelled
<1> QED BY <1>1, <1>2, <1>3, <1>4, <1>5, <1>6, <1>7, <1>8, <1>9, <1>10, <1>11,
           <1>12, <1>13, <1>14, <1>15, <1>16, <1>17, <1>18, <1>19, <1>20, <1>21,
           <1>22
        DEF Next, WriterStep

-----------------------------------------------------------------------------
\* Taking the head of the queue takes its buffer, and no other, out of the
\* queued ones; the thread does not hold that buffer.
LEMMA HeadBuffer ==
  ASSUME IInv, txq # <<>>, txq' = Tail(txq)
  PROVE  /\ QueuedBufs' = QueuedBufs \ {Head(txq).buf}
         /\ Head(txq).buf \in QueuedBufs \cup {NULL}
         /\ Head(txq).buf \notin InHand
         /\ NULL \notin QueuedBufs
<1> DEFINE n == Len(txq)
<1>1. /\ n \in Nat /\ n > 0 /\ Head(txq) = txq[1] /\ Len(txq') = n - 1
      /\ \A i \in 1 .. n - 1 : txq'[i] = txq[i + 1]
  BY TailFacts DEF IInv, TypeOK
<1>2. /\ \A i \in 1 .. n : txq[i].id = nsent - n + i
      /\ \A i \in 1 .. n : txq[i].buf = IF txq[i].mtype = Zlp THEN NULL
                                                         ELSE txq[i].id
      /\ cur <= nsent - n /\ nsent \in Nat /\ cur \in Nat /\ n <= nsent
  BY DEF IInv, QueueInv, TypeOK
<1>3. buf # NULL => buf = cur
  BY DEF IInv, LocalInv
<1> HIDE DEF n
<1>4. \A i \in 1 .. n : txq[i].buf = NULL \/ txq[i].buf = nsent - n + i
  BY <1>2
<1>5. QueuedBufs = {txq[i].buf : i \in 1 .. n} \ {NULL}
  BY DEF QueuedBufs, n
<1>6. QueuedBufs' = {txq[i + 1].buf : i \in 1 .. n - 1} \ {NULL}
  <2>1. QueuedBufs' = {txq'[i].buf : i \in 1 .. n - 1} \ {NULL}
    BY <1>1 DEF QueuedBufs
  <2>2. \A i \in 1 .. n - 1 : txq'[i].buf = txq[i + 1].buf
    BY <1>1
  <2> QED BY <2>1, <2>2
<1>7. txq[1].buf = NULL \/ txq[1].buf = nsent - n + 1
  BY <1>1, <1>4
<1>8. txq[1].buf \notin InHand
  BY <1>1, <1>2, <1>3, <1>7 DEF InHand
<1>9. \A b : b \in QueuedBufs' <=> b \in QueuedBufs /\ b # txq[1].buf
  <2>1. ASSUME NEW b, b \in QueuedBufs'
        PROVE  b \in QueuedBufs /\ b # txq[1].buf
    <3>1. PICK i \in 1 .. n - 1 : b = txq[i + 1].buf
      BY <2>1, <1>6
    <3>2. i + 1 \in 1 .. n /\ b # NULL
      BY <1>1, <2>1, <1>6
    <3>3. b = nsent - n + (i + 1)
      BY <1>4, <3>1, <3>2
    <3>4. b \in QueuedBufs
      BY <1>5, <3>1, <3>2
    <3>5. nsent - n + (i + 1) # nsent - n + 1
      BY <1>1, <1>2
    <3> QED BY <1>7, <3>2, <3>3, <3>4, <3>5
  <2>2. ASSUME NEW b, b \in QueuedBufs, b # txq[1].buf
        PROVE  b \in QueuedBufs'
    <3>1. PICK j \in 1 .. n : b = txq[j].buf /\ b # NULL
      BY <2>2, <1>5
    <3>2. j # 1 /\ j - 1 \in 1 .. n - 1 /\ (j - 1) + 1 = j
      BY <1>1, <2>2, <3>1
    <3>3. b = txq[(j - 1) + 1].buf
      BY <3>1, <3>2
    <3> QED BY <1>6, <3>1, <3>2, <3>3
  <2> QED BY <2>1, <2>2
<1>10. txq[1].buf \in QueuedBufs \cup {NULL}
  <2>1. 1 \in 1 .. n
    BY <1>1
  <2> QED BY <1>5, <2>1
<1>11. QueuedBufs' = QueuedBufs \ {txq[1].buf}
  BY <1>9
<1> QED BY <1>1, <1>5, <1>8, <1>10, <1>11

\* The buffer in hand, if any, is not queued.
LEMMA HandNotQueued == ASSUME IInv PROVE buf \notin QueuedBufs
<1> SUFFICES ASSUME buf \in QueuedBufs PROVE FALSE
  OBVIOUS
<1>1. PICK i \in 1 .. Len(txq) : buf = txq[i].buf /\ buf # NULL
  BY DEF QueuedBufs
<1>2. buf = cur /\ cur <= nsent - Len(txq)
  BY <1>1 DEF IInv, LocalInv, QueueInv
<1>3. buf = nsent - Len(txq) + i
  BY <1>1 DEF IInv, QueueInv
<1> QED BY <1>2, <1>3, TailFacts DEF IInv, TypeOK

LEMMA HeapStep == ASSUME IInv, Next PROVE HeapInv'
<1>0. heap = QueuedBufs \cup InHand
  BY DEF IInv, HeapInv
<1>1. CASE Send
  <2> PICK t \in MsgType, l \in Len0 :
        /\ txq' = Append(txq, [id |-> nsent + 1, mtype |-> t, len |-> l,
                               buf |-> IF t = Zlp THEN NULL ELSE nsent + 1])
        /\ heap' = IF t = Zlp THEN heap ELSE heap \cup {nsent + 1}
    BY <1>1 DEF Send
  <2> DEFINE p == [id |-> nsent + 1, mtype |-> t, len |-> l,
                   buf |-> IF t = Zlp THEN NULL ELSE nsent + 1]
             n == Len(txq)
  <2>1. p \in Packet /\ txq \in Seq(Packet) /\ txq' = Append(txq, p)
    BY <1>1, WriterAssumption DEF Send, Packet, IInv, TypeOK, PktId
  <2>2. p.buf = IF t = Zlp THEN NULL ELSE nsent + 1
    OBVIOUS
  <2> HIDE DEF p
  <2>3. /\ n \in Nat /\ Len(txq') = n + 1 /\ txq'[n + 1] = p
        /\ \A i \in 1 .. n : txq'[i] = txq[i]
    BY <2>1, AppendFacts
  <2> HIDE DEF n
  <2>4. QueuedBufs = {txq[i].buf : i \in 1 .. n} \ {NULL}
    BY DEF QueuedBufs, n
  <2>5. QueuedBufs' = {txq'[i].buf : i \in 1 .. n + 1} \ {NULL}
    BY <2>3 DEF QueuedBufs
  <2>6. QueuedBufs' = (QueuedBufs \cup {p.buf}) \ {NULL}
    <3>1. \A i \in 1 .. n + 1 : i \in 1 .. n \/ i = n + 1
      BY <2>3
    <3>2. \A i \in 1 .. n : i \in 1 .. n + 1 /\ n + 1 \in 1 .. n + 1
      BY <2>3
    <3>3. n + 1 \in 1 .. n + 1
      BY <2>3
    <3> QED BY <2>3, <2>4, <2>5, <3>1, <3>2, <3>3
  <2>7. UNCHANGED buf /\ NULL \notin QueuedBufs /\ nsent + 1 # NULL
    BY <1>1, <2>4 DEF Send, localVars, IInv, TypeOK
  <2> QED BY <1>0, <2>2, <2>6, <2>7 DEF HeapInv, InHand
<1>2. CASE DrainOne
  <2>1. /\ txq # <<>> /\ txq' = Tail(txq) /\ heap' = heap \ {Head(txq).buf}
        /\ buf' = buf
    BY <1>2 DEF DrainOne, localVars
  <2> QED BY <1>0, <2>1, HeadBuffer DEF HeapInv, InHand
<1>3. CASE Receive
  <2>1. /\ txq # <<>> /\ txq' = Tail(txq) /\ heap' = heap
        /\ buf' = Head(txq).buf /\ pc = "rcv"
    BY <1>3 DEF Receive
  <2>2. buf = NULL
    BY <2>1 DEF IInv, LocalInv
  <2> QED BY <1>0, <2>1, <2>2, HeadBuffer DEF HeapInv, InHand
<1>4. CASE heap' = heap \ {buf} /\ buf' = NULL /\ UNCHANGED txq
  BY <1>0, <1>4, HandNotQueued DEF HeapInv, InHand, QueuedBufs
<1>5. CASE UNCHANGED <<txq, heap, buf>>
  BY <1>0, <1>5 DEF HeapInv, InHand, QueuedBufs
<1> QED
  BY <1>1, <1>2, <1>3, <1>4, <1>5
  DEF Next, WriterStep, TakeControlEvent, CancelThread, DrainEnd, Cancelled,
      TestCancel, ReceiveFails, PollAgain, PollReady, WriteSome, BulkWrite,
      BulkWriteCancelled, BulkWriteFails, BulkEnd, WriteEvent, WriteZlp,
      InvalidType, NextPacket, LeaveLoop, LeaveCancelled, Exit, queueVars, localVars

-----------------------------------------------------------------------------
LEMMA HeadNew ==
  ASSUME IInv, Len(txq) > 0
  PROVE  txq[1].id = nsent - Len(txq) + 1 /\ txq[1].id > cur /\ txq[1].id > mark
<1>1. /\ Len(txq) \in Nat /\ nsent \in Int /\ cur \in Int /\ mark \in Int
      /\ 1 \in 1 .. Len(txq)
  BY TailFacts DEF IInv, TypeOK
<1>2. txq[1].id = nsent - Len(txq) + 1
  BY <1>1 DEF IInv, QueueInv
<1>3. cur <= nsent - Len(txq) /\ mark <= nsent - Len(txq)
  BY DEF IInv, QueueInv
<1> QED BY <1>1, <1>2, <1>3

LEMMA LastExtent ==
  ASSUME IInv, Len(wire) > 0
  PROVE  /\ wire[Len(wire)].id \in Nat \ {0} /\ wire[Len(wire)].from \in Nat
         /\ wire[Len(wire)].n \in Nat /\ wire[Len(wire)].len \in Nat
<1>1. wire \in Seq(Extent) /\ Len(wire) \in 1 .. Len(wire)
  BY DEF IInv, TypeOK
<1>2. wire[Len(wire)] \in Extent
  BY <1>1
<1> QED BY <1>2 DEF Extent, PktId, Len0

LEMMA WireStep == ASSUME IInv, Next PROVE WireInv' /\ WireOrder'
<1>0. /\ wire \in Seq(Extent) /\ Len(wire) \in Nat /\ cur \in Nat
      /\ len \in Nat /\ written \in Nat /\ nsent \in Nat
  BY DEF IInv, TypeOK, Len0
<1>1. CASE Receive
  <2>1. /\ Head(txq) = txq[1] /\ txq \in Seq(Packet) /\ Len(txq) \in Nat
        /\ 1 \in 1 .. Len(txq)
    BY <1>1, TailFacts DEF Receive, IInv, TypeOK
  <2>2. cur < txq[1].id
    BY <2>1, HeadNew
  <2>3. /\ cur' = txq[1].id /\ pc = "rcv" /\ wire' = wire /\ written' = written
        /\ pc' = Branch(Head(txq).mtype) /\ ret' = ret
    BY <1>1, <2>1 DEF Receive
  <2>4. written = 0
    BY <2>3 DEF IInv, LocalInv, InBulk, InHandler
  <2>5. cur' \in Int
    <3>1. txq[1] \in Packet
      BY <2>1
    <3> QED BY <2>3, <3>1 DEF Packet, PktId
  <2>6. Len(wire) > 0 => wire[Len(wire)].id \in Int
    BY LastExtent
  <2>7. WireInv'
    <3>1. Len(wire) > 0 => /\ wire[Len(wire)].id < cur'
                           /\ wire[Len(wire)].from + wire[Len(wire)].n
                                = wire[Len(wire)].len
      BY <1>0, <2>2, <2>3, <2>6, <2>5 DEF IInv, WireInv, InBulk, InHandler
    <3> QED BY <2>3, <2>4, <2>6, <2>5, <3>1 DEF WireInv
  <2> QED BY <2>3, <2>7 DEF IInv, WireOrder
<1>2. CASE WriteSome
  <2> PICK n \in 0 .. (len - written) : BulkWrite(n)
    BY <1>2 DEF WriteSome
  <2> DEFINE e == [id |-> cur, from |-> written, n |-> n, len |-> len]
             k == Len(wire)
  <2>0. /\ pc = "write" /\ pc' = "bulk" /\ written' = written + n
        /\ UNCHANGED <<cur, len, ret>> /\ n \in Nat /\ written + n <= len
        /\ wire' = IF n = 0 THEN wire ELSE Append(wire, e)
    BY <1>0 DEF BulkWrite
  <2>1. CASE n = 0
    BY <1>0, <2>0, <2>1 DEF IInv, WireInv, WireOrder, InBulk, InHandler
  <2>2. CASE n # 0
    <3>1. e \in Extent
      <4>1. cur \in PktId
        BY <2>0 DEF IInv, LocalInv, InBulk, TypeOK, PktId
      <4>2. written \in Len0 /\ n \in Len0 /\ len \in Len0
        BY <1>0, <2>0, WriterAssumption DEF IInv, TypeOK, Len0
      <4> QED BY <4>1, <4>2 DEF Extent
    <3>2. e.id = cur /\ e.from = written /\ e.n = n /\ e.len = len
      OBVIOUS
    <3> HIDE DEF e
    <3>3. /\ Len(wire') = k + 1 /\ wire'[k + 1] = e
          /\ \A i \in 1 .. k : wire'[i] = wire[i]
      BY <1>0, <2>0, <2>2, <3>1, AppendFacts
    <3>4. k = 0 => written = 0
      BY <2>0 DEF IInv, WireInv, InBulk
    <3>5. k > 0 =>
            \/ wire[k].id = cur /\ written = wire[k].from + wire[k].n
            \/ /\ cur > wire[k].id /\ written = 0
               /\ wire[k].from + wire[k].n = wire[k].len
      <4>1. k > 0 => wire[k].id \in Int
        BY LastExtent
      <4> QED BY <1>0, <2>0, <4>1 DEF IInv, WireInv, InBulk
    <3> HIDE DEF k
    <3>6. k \in Nat
      BY <1>0 DEF k
    <3>7. WireInv'
      BY <1>0, <2>0, <3>2, <3>3, <3>6 DEF WireInv, InBulk, InHandler
    <3>8. Len(wire') > 0 => wire'[1].from = 0
      <4>1. CASE k = 0 BY <3>2, <3>3, <3>4, <4>1
      <4>2. CASE k > 0
        <5>1. 1 \in 1 .. k
          BY <3>6, <4>2
        <5> QED BY <3>3, <4>2, <5>1 DEF IInv, WireOrder, k
      <4> QED BY <3>6, <4>1, <4>2
    <3>9. ASSUME NEW i \in 1 .. Len(wire')
          PROVE  wire'[i].from + wire'[i].n <= wire'[i].len
      <4>1. CASE i \in 1 .. k BY <3>3, <4>1 DEF IInv, WireOrder, k
      <4>2. CASE i = k + 1 BY <2>0, <3>2, <3>3, <4>2
      <4> QED BY <3>3, <3>6, <4>1, <4>2
    <3>10. ASSUME NEW i \in 1 .. Len(wire') - 1
           PROVE  \/ /\ wire'[i + 1].id = wire'[i].id
                     /\ wire'[i + 1].from = wire'[i].from + wire'[i].n
                  \/ /\ wire'[i + 1].id > wire'[i].id
                     /\ wire'[i + 1].from = 0
                     /\ wire'[i].from + wire'[i].n = wire'[i].len
      <4>1. CASE i \in 1 .. k - 1
        <5>1. i \in 1 .. k /\ i + 1 \in 1 .. k
          BY <3>6, <4>1
        <5> QED BY <3>3, <4>1, <5>1 DEF IInv, WireOrder, k
      <4>2. CASE i = k /\ k > 0
        <5>1. i \in 1 .. k
          BY <3>6, <4>2
        <5> QED BY <3>2, <3>3, <3>5, <4>2, <5>1
      <4> QED BY <3>3, <3>6, <4>1, <4>2
    <3> QED BY <3>7, <3>8, <3>9, <3>10 DEF WireOrder
  <2> QED BY <2>1, <2>2
<1>3. CASE BulkEnd
  <2>1. /\ InBulk /\ ~InBulk' /\ ~InHandler' /\ written = len
        /\ UNCHANGED <<wire, cur, len>>
    BY <1>3 DEF BulkEnd, InBulk, InHandler
  <2>2. Len(wire) > 0 => /\ wire[Len(wire)].id <= cur
                         /\ wire[Len(wire)].from + wire[Len(wire)].n
                              = wire[Len(wire)].len
    BY <1>0, <2>1, LastExtent DEF IInv, WireInv
  <2> QED BY <1>0, <2>1, <2>2 DEF IInv, WireInv, WireOrder
<1>4. CASE Cancelled
  BY <1>0, <1>4 DEF Cancelled, EnterDrain, localVars, IInv, WireInv, WireOrder,
     InBulk, InHandler
<1>5. CASE /\ UNCHANGED <<wire, cur, len, written>>
           /\ InBulk' <=> InBulk
           /\ InHandler' <=> InHandler
  BY <1>0, <1>5 DEF IInv, WireInv, WireOrder
<1>6. \/ Send \/ TakeControlEvent \/ CancelThread \/ DrainOne \/ DrainEnd
      \/ TestCancel \/ PollAgain \/ PollReady \/ BulkWriteCancelled
      \/ BulkWriteFails \/ WriteEvent \/ WriteZlp \/ InvalidType
      \/ NextPacket \/ LeaveLoop \/ LeaveCancelled \/ Exit
      => /\ UNCHANGED <<wire, cur, len, written>>
         /\ InBulk' <=> InBulk
         /\ InHandler' <=> InHandler
  BY DEF Send, TakeControlEvent, CancelThread, DrainOne, DrainEnd, DrainGoesOn,
     TestCancel, PollAgain, PollReady, BulkWriteCancelled, BulkWriteFails, WriteEvent,
     WriteZlp, InvalidType, NextPacket, LeaveLoop, LeaveCancelled, Exit,
     EnterDrain, queueVars, localVars, histVars, InBulk, InHandler, IInv, LocalInv
<1>7. CASE ReceiveFails
  BY <1>0, <1>7 DEF ReceiveFails, Branch, IInv, WireInv, WireOrder, InBulk,
     InHandler
<1> QED BY <1>1, <1>2, <1>3, <1>4, <1>5, <1>6, <1>7 DEF Next, WriterStep

-----------------------------------------------------------------------------
LEMMA IInvStep == IInv /\ [Next]_vars => IInv'
<1>1. ASSUME IInv, Next PROVE IInv'
  BY <1>1, TypeStep, QueueStep, LocalStep, HeapStep, WireStep DEF IInv
<1>2. ASSUME IInv, UNCHANGED vars PROVE IInv'
  BY <1>2 DEF vars, IInv, TypeOK, QueueInv, LocalInv, HeapInv, WireInv,
     WireOrder, InBulk, InHandler, InHand, QueuedBufs
<1> QED BY <1>1, <1>2

LEMMA Inductive == Spec => []IInv
BY InitIInv, IInvStep, PTL DEF Spec

\* Every variable keeps its type and the queue its bound.
THEOREM TypeCorrect == Spec => []TypeOK
<1>1. IInv => TypeOK
  BY DEF IInv
<1> QED BY <1>1, Inductive, PTL

\* The host reads packets in order, gapless and one after the other.
THEOREM WireOrdered == Spec => []WireOrder
<1>1. IInv => WireOrder
  BY DEF IInv
<1> QED BY <1>1, Inductive, PTL

\* A failing bulk write never brings the thread to the end of its loop.
THEOREM BulkErrorsContained == Spec => []BulkErrorsStay
<1>1. IInv => BulkErrorsStay
  BY DEF IInv, LocalInv, BulkErrorsStay
<1> QED BY <1>1, Inductive, PTL

\* No buffer is freed twice, used after it was freed, shared or forgotten.
THEOREM BuffersAreOwned == Spec => []BuffersOwned
<1>1. ASSUME IInv PROVE BuffersOwned
  <2>1. ASSUME NEW i \in 1 .. Len(txq), NEW j \in 1 .. Len(txq),
               txq[i].buf = txq[j].buf, txq[i].buf # NULL
        PROVE  i = j
    <3>1. txq[i].buf = nsent - Len(txq) + i /\ txq[j].buf = nsent - Len(txq) + j
      <4>1. \A k \in 1 .. Len(txq) :
              txq[k].buf # NULL => txq[k].buf = nsent - Len(txq) + k
        BY <1>1 DEF IInv, QueueInv
      <4> QED BY <2>1, <4>1
    <3>2. nsent \in Int /\ Len(txq) \in Nat
      BY <1>1 DEF IInv, TypeOK
    <3>3. nsent - Len(txq) + i = nsent - Len(txq) + j
      BY <2>1, <3>1
    <3>4. i \in Int /\ j \in Int
      BY <3>2
    <3> QED BY <3>2, <3>3, <3>4
  <2>2. QueuedBufs \cap InHand = {}
    BY <1>1, HandNotQueued DEF InHand
  <2>3. pc = "done" /\ InHand # {} =>
          cancelReq /\ (ret = "done" \/ (ret = "exit" /\ mtype = Undefined))
    BY <1>1 DEF IInv, LocalInv, InHand, InHandler
  <2> QED BY <1>1, <2>1, <2>2, <2>3 DEF BuffersOwned, IInv, HeapInv
<1> QED BY <1>1, Inductive, PTL

\* After a complete drain no packet queued before it is received.
THEOREM StaleNeverTaken == Spec => StaleNotTaken
<1>1. ASSUME IInv, [Next]_vars PROVE cur' # cur => cur' > mark
  <2>1. CASE Receive
    <3>1. /\ Head(txq) = txq[1] /\ txq \in Seq(Packet) /\ Len(txq) \in Nat
          /\ 1 \in 1 .. Len(txq)
      BY <1>1, <2>1, TailFacts DEF Receive, IInv, TypeOK
    <3>2. txq[1].id > mark /\ mark' = mark
      BY <1>1, <2>1, <3>1, HeadNew DEF Receive, histVars
    <3> QED BY <2>1, <3>1, <3>2 DEF Receive
  <2>2. CASE UNCHANGED cur
    BY <2>2
  <2> QED
    BY <1>1, <2>1, <2>2
    DEF Next, WriterStep, vars, Send, TakeControlEvent, CancelThread, DrainOne,
        DrainEnd, Cancelled, TestCancel, ReceiveFails, PollAgain, PollReady,
        WriteSome, BulkWrite, BulkWriteCancelled, BulkWriteFails, BulkEnd,
        WriteEvent, WriteZlp, InvalidType, NextPacket, LeaveLoop, LeaveCancelled, Exit,
        localVars
<1> QED BY <1>1, Inductive, PTL DEF Spec, StaleNotTaken

-----------------------------------------------------------------------------
(* The writer implements MtpPipe.                                          *)

\* A sequence mapped element by element, and what taking its first element
\* and appending one become.
PendingOf(q) == [i \in 1 .. Len(q) |-> AbsPacket(q[i])]
OutOf(w) == [i \in 1 .. Len(w) |-> AbsExtent(w[i])]

LEMMA PendingSeq ==
  ASSUME NEW q \in Seq(Packet)
  PROVE  /\ PendingOf(q) \in Seq({AbsPacket(p) : p \in Packet})
         /\ Len(PendingOf(q)) = Len(q)
         /\ \A i \in 1 .. Len(q) : PendingOf(q)[i] = AbsPacket(q[i])
<1>1. PendingOf(q) \in [1 .. Len(q) -> {AbsPacket(p) : p \in Packet}]
  BY DEF PendingOf
<1>2. Len(q) \in Nat
  OBVIOUS
<1> QED BY <1>1, <1>2 DEF PendingOf

LEMMA OutSeq ==
  ASSUME NEW w \in Seq(Extent)
  PROVE  /\ OutOf(w) \in Seq({AbsExtent(e) : e \in Extent})
         /\ Len(OutOf(w)) = Len(w)
         /\ \A i \in 1 .. Len(w) : OutOf(w)[i] = AbsExtent(w[i])
<1>1. OutOf(w) \in [1 .. Len(w) -> {AbsExtent(e) : e \in Extent}]
  BY DEF OutOf
<1>2. Len(w) \in Nat
  OBVIOUS
<1> QED BY <1>1, <1>2 DEF OutOf

LEMMA PendingTail ==
  ASSUME NEW q \in Seq(Packet), q # <<>>
  PROVE  /\ PendingOf(q) # <<>>
         /\ Head(PendingOf(q)) = AbsPacket(q[1])
         /\ PendingOf(Tail(q)) = Tail(PendingOf(q))
<1> DEFINE T == {AbsPacket(p) : p \in Packet}
           a == PendingOf(q)
           b == PendingOf(Tail(q))
<1>1. /\ Len(q) \in Nat /\ Len(q) > 0 /\ Len(Tail(q)) = Len(q) - 1
      /\ Tail(q) \in Seq(Packet)
      /\ \A i \in 1 .. Len(q) - 1 : Tail(q)[i] = q[i + 1]
  BY TailFacts
<1>2. /\ a \in Seq(T) /\ Len(a) = Len(q)
      /\ \A i \in 1 .. Len(q) : a[i] = AbsPacket(q[i])
  BY PendingSeq
<1>3. /\ b \in Seq(T) /\ Len(b) = Len(q) - 1
      /\ \A i \in 1 .. Len(q) - 1 : b[i] = AbsPacket(Tail(q)[i])
  BY <1>1, PendingSeq
<1> HIDE DEF a, b, T
<1>4. a # <<>>
  BY <1>1, <1>2
<1>5. /\ Head(a) = a[1] /\ Tail(a) \in Seq(T) /\ Len(Tail(a)) = Len(a) - 1
      /\ \A i \in 1 .. Len(a) - 1 : Tail(a)[i] = a[i + 1]
  BY <1>2, <1>4, TailFacts
<1>6. ASSUME NEW i \in 1 .. Len(b) PROVE b[i] = Tail(a)[i]
  <2>1. i \in 1 .. Len(q) - 1 /\ i + 1 \in 1 .. Len(q)
    BY <1>1, <1>3
  <2> QED BY <1>1, <1>2, <1>3, <1>5, <2>1
<1>7. b = Tail(a)
  BY <1>2, <1>3, <1>5, <1>6, SeqEqual
<1>8. a[1] = AbsPacket(q[1])
  BY <1>1, <1>2
<1> QED BY <1>4, <1>5, <1>7, <1>8 DEF a, b

LEMMA PendingAppend ==
  ASSUME NEW q \in Seq(Packet), NEW p \in Packet
  PROVE  PendingOf(Append(q, p)) = Append(PendingOf(q), AbsPacket(p))
<1> DEFINE T == {AbsPacket(r) : r \in Packet}
           a == PendingOf(q)
           b == PendingOf(Append(q, p))
           c == Append(a, AbsPacket(p))
<1>1. /\ Append(q, p) \in Seq(Packet) /\ Len(Append(q, p)) = Len(q) + 1
      /\ Len(q) \in Nat /\ Append(q, p)[Len(q) + 1] = p
      /\ \A i \in 1 .. Len(q) : Append(q, p)[i] = q[i]
  BY AppendFacts
<1>2. /\ a \in Seq(T) /\ Len(a) = Len(q)
      /\ \A i \in 1 .. Len(q) : a[i] = AbsPacket(q[i])
  BY PendingSeq
<1>3. /\ b \in Seq(T) /\ Len(b) = Len(q) + 1
      /\ \A i \in 1 .. Len(q) + 1 : b[i] = AbsPacket(Append(q, p)[i])
  BY <1>1, PendingSeq
<1>4. AbsPacket(p) \in T
  OBVIOUS
<1> HIDE DEF a, b, T
<1>5. /\ c \in Seq(T) /\ Len(c) = Len(q) + 1 /\ c[Len(q) + 1] = AbsPacket(p)
      /\ \A i \in 1 .. Len(q) : c[i] = a[i]
  BY <1>2, <1>4, AppendFacts
<1>6. ASSUME NEW i \in 1 .. Len(b) PROVE b[i] = c[i]
  <2>1. i \in 1 .. Len(q) \/ i = Len(q) + 1
    BY <1>1, <1>3
  <2> QED BY <1>1, <1>2, <1>3, <1>5, <2>1
<1>7. b = c
  <2> HIDE DEF c
  <2> QED BY <1>3, <1>5, <1>6, SeqEqual
<1> QED BY <1>7 DEF a, b

LEMMA OutAppend ==
  ASSUME NEW w \in Seq(Extent), NEW e \in Extent
  PROVE  OutOf(Append(w, e)) = Append(OutOf(w), AbsExtent(e))
<1> DEFINE T == {AbsExtent(r) : r \in Extent}
           a == OutOf(w)
           b == OutOf(Append(w, e))
           c == Append(a, AbsExtent(e))
<1>1. /\ Append(w, e) \in Seq(Extent) /\ Len(Append(w, e)) = Len(w) + 1
      /\ Len(w) \in Nat /\ Append(w, e)[Len(w) + 1] = e
      /\ \A i \in 1 .. Len(w) : Append(w, e)[i] = w[i]
  BY AppendFacts
<1>2. /\ a \in Seq(T) /\ Len(a) = Len(w)
      /\ \A i \in 1 .. Len(w) : a[i] = AbsExtent(w[i])
  BY OutSeq
<1>3. /\ b \in Seq(T) /\ Len(b) = Len(w) + 1
      /\ \A i \in 1 .. Len(w) + 1 : b[i] = AbsExtent(Append(w, e)[i])
  BY <1>1, OutSeq
<1>4. AbsExtent(e) \in T
  OBVIOUS
<1> HIDE DEF a, b, T
<1>5. /\ c \in Seq(T) /\ Len(c) = Len(w) + 1 /\ c[Len(w) + 1] = AbsExtent(e)
      /\ \A i \in 1 .. Len(w) : c[i] = a[i]
  BY <1>2, <1>4, AppendFacts
<1>6. ASSUME NEW i \in 1 .. Len(b) PROVE b[i] = c[i]
  <2>1. i \in 1 .. Len(w) \/ i = Len(w) + 1
    BY <1>1, <1>3
  <2> QED BY <1>1, <1>2, <1>3, <1>5, <2>1
<1>7. b = c
  <2> HIDE DEF c
  <2> QED BY <1>3, <1>5, <1>6, SeqEqual
<1> QED BY <1>7 DEF a, b

\* The queue and the wire, seen through the mapping, after one step.
LEMMA AbsSend ==
  ASSUME IInv, Send
  PROVE  \E k \in 0 .. MaxLen :
           AbsPending' = Append(AbsPending, [id |-> nsent + 1, size |-> k])
<1> PICK t \in MsgType, l \in Len0 :
      txq' = Append(txq, [id |-> nsent + 1, mtype |-> t, len |-> l,
                          buf |-> IF t = Zlp THEN NULL ELSE nsent + 1])
  BY DEF Send
<1> DEFINE p == [id |-> nsent + 1, mtype |-> t, len |-> l,
                 buf |-> IF t = Zlp THEN NULL ELSE nsent + 1]
           k == IF t = Bulk THEN l ELSE 0
<1>1. p \in Packet /\ txq \in Seq(Packet) /\ txq' = Append(txq, p)
  BY WriterAssumption DEF Send, Packet, IInv, TypeOK, PktId
<1>2. AbsPacket(p) = [id |-> nsent + 1, size |-> k]
  BY DEF AbsPacket
<1>3. k \in 0 .. MaxLen
  BY WriterAssumption DEF Len0
<1> HIDE DEF p, k
<1>4. PendingOf(txq') = Append(PendingOf(txq), AbsPacket(p))
  BY <1>1, PendingAppend
<1>5. AbsPending = PendingOf(txq) /\ AbsPending' = PendingOf(txq')
  BY DEF AbsPending, PendingOf
<1> QED BY <1>2, <1>3, <1>4, <1>5

LEMMA AbsTail ==
  ASSUME IInv, txq # <<>>, txq' = Tail(txq)
  PROVE  /\ AbsPending # <<>> /\ AbsPending' = Tail(AbsPending)
         /\ Head(AbsPending) = AbsPacket(Head(txq))
<1>1. txq \in Seq(Packet) /\ Head(txq) = txq[1]
  BY TailFacts DEF IInv, TypeOK
<1>2. AbsPending = PendingOf(txq) /\ AbsPending' = PendingOf(Tail(txq))
  BY DEF AbsPending, PendingOf
<1> QED BY <1>1, <1>2, PendingTail

LEMMA RefineStep == ASSUME IInv, Next PROVE [Pipe!Next]_(Pipe!vars)
<1> USE DEF Pipe!Next, AbsFlushing, AbsOpen, queueVars, localVars, histVars,
        EnterDrain
<1>0. /\ len \in Nat /\ written \in Nat /\ MaxPkts \in Nat
      /\ wire \in Seq(Extent) /\ cur \in Nat
  BY WriterAssumption DEF IInv, TypeOK, Len0
<1>1. CASE Send
  <2>1. PICK k \in 0 .. MaxLen :
          AbsPending' = Append(AbsPending, [id |-> nsent + 1, size |-> k])
    BY <1>1, AbsSend
  <2>2. /\ nsent < MaxPkts /\ nsent' = nsent + 1
        /\ UNCHANGED <<cur, AbsLeft, AbsOut, AbsFlushing, ctrl, AbsOpen, cancelReq>>
    BY <1>1 DEF Send, AbsLeft, AbsOut
  <2> QED BY <2>1, <2>2 DEF Pipe!Accept
<1>2. CASE TakeControlEvent
  BY <1>2 DEF TakeControlEvent, AbsLeft, AbsOut, AbsPending, Pipe!Hear
<1>3. CASE DrainOne
  <2>1. AbsPending # <<>> /\ AbsPending' = Tail(AbsPending)
    BY <1>3, AbsTail DEF DrainOne
  <2> QED BY <1>3, <2>1 DEF DrainOne, DrainGoesOn, AbsLeft, AbsOut, Pipe!Discard
<1>4. CASE DrainEnd
  <2>1. AbsPending = <<>> /\ AbsPending' = AbsPending
    BY <1>4 DEF DrainEnd, AbsPending
  <2>2. ret \in {"bulk", "exit", "done"} /\ ret' = ret /\ pc' = ret /\ pc = "drain"
    BY <1>4 DEF DrainEnd, DrainGoesOn, IInv, LocalInv
  <2> QED BY <1>4, <2>1, <2>2 DEF DrainEnd, AbsLeft, AbsOut, Pipe!Flushed
<1>5. CASE Cancelled
  BY <1>5 DEF Cancelled, AtCancellationPoint, AbsLeft, AbsOut, AbsPending,
     Pipe!Close
<1>6. CASE LeaveLoop
  BY <1>6 DEF LeaveLoop, AbsLeft, AbsOut, AbsPending, Pipe!Close
<1>7. CASE BulkWriteCancelled
  BY <1>7 DEF BulkWriteCancelled, AbsLeft, AbsOut, AbsPending, Pipe!Flush
<1>8. CASE Receive
  <2> DEFINE p == Head(txq)
  <2>1. /\ txq # <<>> /\ AbsPending # <<>> /\ AbsPending' = Tail(AbsPending)
        /\ Head(AbsPending) = AbsPacket(p)
    BY <1>8, AbsTail DEF Receive
  <2>2. p.mtype \in MsgType /\ p.len \in Nat
    <3>1. p \in Packet
      BY <2>1, TailFacts DEF IInv, TypeOK
    <3> QED BY <3>1 DEF Packet, Len0
  <2>3. Head(AbsPending).id = p.id
        /\ Head(AbsPending).size = IF p.mtype = Bulk THEN p.len ELSE 0
    BY <2>1 DEF AbsPacket
  <2> HIDE DEF p
  <2>4. /\ pc = "rcv" /\ pc' = Branch(p.mtype) /\ cur' = p.id /\ len' = p.len
        /\ UNCHANGED <<nsent, ctrl, cancelReq, written, wire>>
    BY <1>8 DEF Receive, p
  <2>5. written = 0
    BY <2>4 DEF IInv, LocalInv, InBulk, InHandler
  <2>6. AbsLeft = 0 /\ AbsLeft' = Head(AbsPending).size /\ AbsOpen /\ AbsOpen'
        /\ ~AbsFlushing /\ ~AbsFlushing'
    BY <2>2, <2>3, <2>4, <2>5 DEF AbsLeft, Branch, MsgType
  <2>7. AbsOut' = AbsOut
    BY <2>4 DEF AbsOut
  <2> QED BY <2>1, <2>3, <2>4, <2>6, <2>7 DEF Pipe!Take
<1>9. CASE WriteSome
  <2> PICK n \in 0 .. (len - written) : BulkWrite(n)
    BY <1>9 DEF WriteSome
  <2> DEFINE e == [id |-> cur, from |-> written, n |-> n, len |-> len]
  <2>1. /\ pc = "write" /\ pc' = "bulk" /\ written' = written + n
        /\ UNCHANGED <<cur, len, ret, nsent, ctrl, cancelReq, AbsPending>>
        /\ n \in Nat
        /\ wire' = IF n = 0 THEN wire ELSE Append(wire, e)
    BY <1>0 DEF BulkWrite, AbsPending
  <2>2. AbsLeft = len - written /\ AbsLeft' = AbsLeft - n
    BY <1>0, <2>1 DEF AbsLeft
  <2>3. CASE n = 0
    BY <1>0, <2>1, <2>2, <2>3 DEF Pipe!vars, AbsOut
  <2>4. CASE n # 0
    <3>1. e \in Extent
      <4>1. cur \in PktId
        BY <2>1 DEF IInv, LocalInv, InBulk, TypeOK, PktId
      <4>2. written \in Len0 /\ n \in Len0 /\ len \in Len0
        BY <1>0, <2>1, WriterAssumption DEF IInv, TypeOK, Len0
      <4> QED BY <4>1, <4>2 DEF Extent
    <3>2. AbsExtent(e) = [id |-> cur, n |-> n]
      BY DEF AbsExtent
    <3> HIDE DEF e
    <3>3. OutOf(wire') = Append(OutOf(wire), AbsExtent(e))
      BY <1>0, <2>1, <2>4, <3>1, OutAppend
    <3>4. AbsOut' = Append(AbsOut, [id |-> cur, n |-> n])
      BY <3>2, <3>3 DEF AbsOut, OutOf
    <3>5. n \in 1 .. AbsLeft
      BY <1>0, <2>1, <2>2, <2>4
    <3> QED BY <2>1, <2>2, <3>4, <3>5 DEF Pipe!Move
  <2> QED BY <2>3, <2>4
<1>10. CASE BulkEnd
  BY <1>0, <1>10 DEF BulkEnd, AbsLeft, AbsOut, AbsPending, Pipe!vars
<1>11. CASE ReceiveFails
  BY <1>11 DEF ReceiveFails, Branch, AbsLeft, AbsOut, AbsPending, Pipe!vars
<1>12. \/ TestCancel \/ PollAgain \/ PollReady \/ BulkWriteFails
       \/ WriteEvent \/ WriteZlp \/ InvalidType \/ NextPacket \/ Exit
       => UNCHANGED Pipe!vars
  BY DEF TestCancel, PollAgain, PollReady, BulkWriteFails,
     WriteEvent, WriteZlp, InvalidType, NextPacket, Exit, AbsLeft, AbsOut,
     AbsPending, Pipe!vars
<1>13. CASE CancelThread
  BY <1>13 DEF CancelThread, AbsLeft, AbsOut, AbsPending, Pipe!Stop
<1>14. CASE LeaveCancelled
  BY <1>14 DEF LeaveCancelled, AbsLeft, AbsOut, AbsPending, Pipe!Abandon
<1> QED
  BY <1>1, <1>2, <1>3, <1>4, <1>5, <1>6, <1>7, <1>8, <1>9, <1>10, <1>11, <1>12,
     <1>13, <1>14
  DEF Next, WriterStep

\* The writer thread implements the abstract transmit path.
THEOREM Implementation == Spec => ImplementsPipe
<1>1. Init => Pipe!Init
  BY DEF Init, Pipe!Init, AbsPending, AbsOut, AbsLeft, AbsFlushing, AbsOpen
<1>2. IInv /\ [Next]_vars => [Pipe!Next]_(Pipe!vars)
  <2>1. CASE Next
    BY <2>1, RefineStep
  <2>2. CASE UNCHANGED vars
    BY <2>2 DEF vars, Pipe!vars, AbsPending, AbsOut, AbsLeft, AbsFlushing, AbsOpen
  <2> QED BY <2>1, <2>2
<1> QED BY <1>1, <1>2, Inductive, PTL DEF Spec, Pipe!Spec, ImplementsPipe

-----------------------------------------------------------------------------
(* The ends of the thread and of its packets.  What CancelStops and        *)
(* QueueDrains say under fairness rests on variants: numbers that run      *)
(* down with the steps of the thread and that nobody else drives up.       *)

\* The steps of a cancelled thread on its own way: at most two to the next
\* cancellation point, then the cleanup handler; at the end of the loop, the
\* cancellation of the drain or the g_free after it.
CancelWeight(p, r, full) ==
  CASE p = "done" -> 0
    [] p = "exit" \/ (p = "drain" /\ r \in {"exit", "done"}) -> 1
    [] p = "check" -> 3
    [] p = "invalid" \/ (p = "bulk" /\ full) -> 4
    [] OTHER -> 2

StepsOnceCancelled == Len(txq) + CancelWeight(pc, ret, written = len)

\* The guards of the steps of a cancelled thread.
CanEnd ==
  \/ AtCancellationPoint /\ (pc = "bulk" => written # len)
  \/ DrainGoesOn
  \/ pc = "drain" /\ ret = "exit"
  \/ pc = "bulk" /\ written = len
  \/ pc \in {"invalid", "check", "exit"}

\* A cancelled thread has a step to take until it has ended, and no more than
\* four besides one for each packet queued.
CancelBounded ==
  cancelReq /\ pc # "done" => CanEnd /\ StepsOnceCancelled \in 1 .. QueueCap + 4

\* Cancelling is final: from then on each step of the thread is one fewer
\* before its end, and a packet the responder queues meanwhile adds one.
CancelRunsDown ==
  [][cancelReq => /\ cancelReq'
                  /\ StepsOnceCancelled' <= StepsOnceCancelled + (nsent' - nsent)
                  /\ WriterStep => StepsOnceCancelled' < StepsOnceCancelled]_vars

\* How many packets will be taken from the queue until packet k is, 0 when it
\* is in the hand of the thread.
Ahead(k) == IF cur = k THEN 0 ELSE k + Len(txq) - nsent

\* How far the thread is from the next time it looks at the queue, or from its
\* end: in a bulk packet, by the chunks that are left.
StageAt(p, r, s, left) ==
  CASE p = "exit" \/ (p = "drain" /\ r # "bulk") -> 0
    [] p = "check" -> IF s < 0 THEN 1 ELSE 5
    [] p = "invalid" -> 2
    [] p = "rcv" -> 3
    [] p = "top" -> 4
    [] p \in {"event", "zlp"} -> 6
    [] OTHER -> 6 + left

Stage == StageAt(pc, ret, status, len - written)

\* A step with which the thread does something for the packets before it: any
\* but a poll, a write that moves nothing and the drain after a failed one.
Advances == WriterStep /\ (~InBulk \/ Progress \/ BulkEnd \/ Cancelled)

\* No packet is overtaken and no work on the one before it is undone: until
\* packet k is dealt with, the packets ahead of it, and the stage of the one in
\* hand, only go down, and they do with each step that advances.
WorkRunsDown ==
  [][\A k \in PktId : Unfinished(k) /\ Unfinished(k)' =>
       /\ Ahead(k) \in 0 .. QueueCap /\ Ahead(k)' <= Ahead(k)
       /\ Ahead(k)' = Ahead(k) =>
            Stage' <= Stage /\ (Advances => Stage' < Stage)]_vars

LEMMA CancelWeights ==
  /\ \A r, f : CancelWeight("done", r, f) = 0
  /\ \A r, f : CancelWeight("exit", r, f) = 1 /\ CancelWeight("check", r, f) = 3
               /\ CancelWeight("invalid", r, f) = 4 /\ CancelWeight("top", r, f) = 2
               /\ CancelWeight("rcv", r, f) = 2 /\ CancelWeight("write", r, f) = 2
               /\ CancelWeight("event", r, f) = 2 /\ CancelWeight("zlp", r, f) = 2
  /\ \A f : CancelWeight("drain", "done", f) = 1 /\ CancelWeight("drain", "exit", f) = 1
            /\ CancelWeight("drain", "bulk", f) = 2
  /\ \A r, f : CancelWeight("bulk", r, f) = IF f THEN 4 ELSE 2
BY DEF CancelWeight

LEMMA CancelWeightRange ==
  ASSUME NEW p, NEW r, NEW f \in BOOLEAN
  PROVE  /\ CancelWeight(p, r, f) \in 0 .. 4
         /\ p # "done" => CancelWeight(p, r, f) \in 1 .. 4
BY DEF CancelWeight

\* What the invariant says about the queue and the points of the loop.
LEMMA WriterCounts ==
  ASSUME IInv
  PROVE  /\ Len(txq) \in Nat /\ nsent \in Nat /\ cur \in Nat /\ QueueCap \in Nat
         /\ Len(txq) <= QueueCap /\ Len(txq) <= nsent /\ cur <= nsent - Len(txq)
         /\ txq # <<>> => Len(Tail(txq)) = Len(txq) - 1 /\ Len(txq) > 0
         /\ pc \in PC /\ status \in Int /\ len \in Int /\ written \in Int
         /\ pc = "drain" => ret \in {"bulk", "exit", "done"}
         /\ InBulk => len - written \in Nat
<1>1. TypeOK /\ QueueInv /\ LocalInv
  BY DEF IInv
<1>2. txq # <<>> => Len(Tail(txq)) = Len(txq) - 1 /\ Len(txq) > 0
  BY <1>1, TailFacts DEF TypeOK
<1>3. InBulk => len - written \in Nat
  BY <1>1, WriterAssumption DEF TypeOK, LocalInv, Len0
<1> QED
  BY <1>1, <1>2, <1>3, WriterAssumption DEF TypeOK, QueueInv, LocalInv, Len0

\* Wherever a cancelled thread is, it can go on, and four steps and one for each
\* packet in the queue are the most it has before it.
THEOREM CancelIsBounded == Spec => []CancelBounded
<1>1. ASSUME IInv
      PROVE  CancelBounded
  <2>1. cancelReq /\ pc # "done" => CanEnd
    BY <1>1, WriterCounts DEF CanEnd, AtCancellationPoint, DrainGoesOn, PC
  <2>2. pc # "done" => CancelWeight(pc, ret, written = len) \in 1 .. 4
    <3> DEFINE f == written = len
    <3>1. f \in BOOLEAN
      OBVIOUS
    <3> HIDE DEF f
    <3>2. pc # "done" => CancelWeight(pc, ret, f) \in 1 .. 4
      BY <3>1, CancelWeightRange
    <3> QED
      BY <3>2 DEF f
  <2> QED
    BY <1>1, <2>1, <2>2, WriterCounts DEF CancelBounded, StepsOnceCancelled
<1> QED
  BY <1>1, Inductive, PTL

\* Each step of a cancelled thread brings it nearer to its end; a packet queued
\* meanwhile costs it one step more.
THEOREM CancelledRunsDown == Spec => CancelRunsDown
<1> DEFINE n == Len(txq)
           f == written = len
           w == CancelWeight(pc, ret, f)
<1>1. ASSUME IInv, [Next]_vars, cancelReq
      PROVE  /\ cancelReq'
             /\ StepsOnceCancelled' <= StepsOnceCancelled + (nsent' - nsent)
             /\ WriterStep => StepsOnceCancelled' < StepsOnceCancelled
  <2>1. n \in Nat /\ nsent \in Nat /\ w \in 0 .. 4
        /\ (txq # <<>> => Len(Tail(txq)) = n - 1)
    <3>1. f \in BOOLEAN /\ f' \in BOOLEAN
      OBVIOUS
    <3> HIDE DEF f
    <3> QED
      BY <1>1, <3>1, WriterCounts, CancelWeightRange
  <2>2. StepsOnceCancelled = n + w /\ StepsOnceCancelled' = n' + w'
    BY DEF StepsOnceCancelled
  <2>3. CASE WriterStep
    <3>1. n' + w' \in Int /\ n' + w' < n + w /\ nsent' = nsent /\ cancelReq'
      <4>1. CASE Cancelled
        <5>1. n' = n /\ nsent' = nsent /\ cancelReq' /\ pc' = "drain" /\ ret' = "done"
              /\ pc \in {"top", "rcv", "bulk", "write", "event", "zlp", "drain"}
              /\ (pc = "drain" => ret = "bulk") /\ (pc = "bulk" => ~f)
          BY <1>1, <4>1 DEF Cancelled, AtCancellationPoint, EnterDrain, queueVars
        <5>2. w = 2 /\ w' = 1
          <6> HIDE DEF f
          <6> QED
            BY <5>1, CancelWeights
        <5> QED
          BY <2>1, <5>1, <5>2
      <4>2. CASE DrainOne
        <5>1. w' = w /\ n' = n - 1 /\ nsent' = nsent /\ cancelReq'
          BY <1>1, <2>1, <4>2 DEF DrainOne, DrainGoesOn, localVars
        <5> QED
          BY <2>1, <5>1
      <4>3. CASE DrainEnd
        <5>1. n' = n /\ nsent' = nsent /\ cancelReq' /\ pc = "drain" /\ ret = "done"
              /\ pc' = ret /\ ret' = ret
          BY <1>1, <4>3, WriterCounts DEF DrainEnd, DrainGoesOn, queueVars
        <5>2. w' = w - 1
          <6> HIDE DEF f
          <6> QED
            BY <5>1, CancelWeights
        <5> QED
          BY <2>1, <5>1, <5>2
      <4>4. CASE BulkEnd \/ InvalidType
        <5>1. n' = n /\ nsent' = nsent /\ cancelReq' /\ pc' = "check"
              /\ (pc = "invalid" \/ (pc = "bulk" /\ f))
          BY <1>1, <4>4 DEF BulkEnd, InvalidType, queueVars
        <5>2. w = 4 /\ w' = 3
          <6> HIDE DEF f
          <6> QED
            BY <5>1, CancelWeights
        <5> QED
          BY <2>1, <5>1, <5>2
      <4>5. CASE NextPacket \/ LeaveLoop
        <5>1. n' = n /\ nsent' = nsent /\ cancelReq' /\ pc = "check"
              /\ (pc' = "top" \/ (pc' = "drain" /\ ret' = "exit"))
          BY <1>1, <4>5 DEF NextPacket, LeaveLoop, EnterDrain, queueVars
        <5>2. w = 3 /\ w' \in {1, 2}
          <6> HIDE DEF f
          <6> QED
            BY <5>1, CancelWeights
        <5> QED
          BY <2>1, <5>1, <5>2
      <4>6. CASE Exit
        <5>1. n' = n /\ nsent' = nsent /\ cancelReq' /\ pc = "exit" /\ pc' = "done"
          BY <1>1, <4>6 DEF Exit, queueVars
        <5>2. w = 1 /\ w' = 0
          <6> HIDE DEF f
          <6> QED
            BY <5>1, CancelWeights
        <5> QED
          BY <2>1, <5>1, <5>2
      <4>8. CASE LeaveCancelled
        <5>1. n' = n /\ nsent' = nsent /\ cancelReq' /\ pc = "drain" /\ ret = "exit"
              /\ pc' = "done"
          BY <1>1, <4>8 DEF LeaveCancelled, queueVars
        <5>2. w = 1 /\ w' = 0
          <6> HIDE DEF f
          <6> QED
            BY <5>1, CancelWeights
        <5> QED
          BY <2>1, <5>1, <5>2
      <4>7. ~(\/ TestCancel \/ Receive \/ ReceiveFails \/ PollAgain \/ PollReady
              \/ WriteSome \/ BulkWriteCancelled \/ BulkWriteFails \/ WriteEvent
              \/ WriteZlp)
        BY <1>1 DEF TestCancel, Receive, ReceiveFails, PollAgain, PollReady, WriteSome,
           BulkWrite, BulkWriteCancelled, BulkWriteFails, WriteEvent, WriteZlp
      <4> HIDE DEF n, w, f
      <4> QED
        BY <2>3, <4>1, <4>2, <4>3, <4>4, <4>5, <4>6, <4>7, <4>8 DEF WriterStep
    <3> HIDE DEF n, w, f
    <3> QED
      BY <2>1, <2>2, <3>1
  <2>4. CASE Send /\ ~WriterStep
    <3>1. w' = w /\ nsent' = nsent + 1 /\ cancelReq'
      BY <1>1, <2>4 DEF Send, localVars
    <3>2. n' = n + 1
      <4>1. PICK e : txq' = Append(txq, e)
        BY <2>4 DEF Send
      <4>2. txq \in Seq(Packet)
        BY <1>1 DEF IInv, TypeOK
      <4>3. Len(Append(txq, e)) = Len(txq) + 1
        BY <4>2
      <4> QED
        BY <4>1, <4>3
    <3> HIDE DEF n, w, f
    <3> QED
      BY <2>1, <2>2, <2>4, <3>1, <3>2
  <2>5. CASE ~WriterStep /\ (TakeControlEvent \/ CancelThread \/ UNCHANGED vars)
    <3>1. w' = w /\ n' = n /\ nsent' = nsent /\ cancelReq'
      BY <1>1, <2>5 DEF TakeControlEvent, CancelThread, vars, queueVars, localVars
    <3> HIDE DEF n, w, f
    <3> QED
      BY <2>1, <2>2, <2>5, <3>1
  <2> QED
    BY <1>1, <2>3, <2>4, <2>5 DEF Next
<1>2. IInv /\ [Next]_vars
        => [cancelReq => /\ cancelReq'
                         /\ StepsOnceCancelled' <= StepsOnceCancelled + (nsent' - nsent)
                         /\ WriterStep => StepsOnceCancelled' < StepsOnceCancelled]_vars
  BY <1>1
<1> QED
  BY <1>2, Inductive, PTL DEF Spec, CancelRunsDown

LEMMA StageValues ==
  ASSUME NEW r, NEW st \in Int, NEW left
  PROVE  /\ StageAt("exit", r, st, left) = 0
         /\ r # "bulk" => StageAt("drain", r, st, left) = 0
         /\ st < 0 => StageAt("check", r, st, left) = 1
         /\ st >= 0 => StageAt("check", r, st, left) = 5
         /\ StageAt("invalid", r, st, left) = 2
         /\ StageAt("rcv", r, st, left) = 3
         /\ StageAt("top", r, st, left) = 4
         /\ StageAt("event", r, st, left) = 6 /\ StageAt("zlp", r, st, left) = 6
         /\ StageAt("bulk", r, st, left) = 6 + left
         /\ StageAt("write", r, st, left) = 6 + left
         /\ StageAt("drain", "bulk", st, left) = 6 + left
BY DEF StageAt

LEMMA StageRange ==
  ASSUME NEW p, NEW r, NEW st \in Int, NEW left \in Int
  PROVE  StageAt(p, r, st, left) \in Int
BY DEF StageAt

\* The packets before a live thread: those queued have the last numbers given,
\* the one in hand an earlier one.
InQueue(k) == nsent - Len(txq) < k /\ k <= nsent
InTheHand(k) ==
  /\ cur = k
  /\ pc \in {"bulk", "write", "event", "zlp", "invalid"} \/ (pc = "drain" /\ ret = "bulk")

Waiting == \A k \in PktId : Unfinished(k) => pc # "done" /\ (InQueue(k) \/ InTheHand(k))

LEMMA WaitingHolds == IInv => Waiting
<1> SUFFICES ASSUME IInv, NEW k \in PktId, Unfinished(k)
             PROVE  InQueue(k) \/ InTheHand(k)
  BY DEF Waiting, Unfinished
<1>1. CASE \E i \in 1 .. Len(txq) : txq[i].id = k
  <2>1. PICK i \in 1 .. Len(txq) : txq[i].id = k
    BY <1>1
  <2>2. k = nsent - Len(txq) + i
    BY <2>1 DEF IInv, QueueInv
  <2> QED
    BY <2>1, <2>2, WriterCounts DEF InQueue
<1>2. CASE ~\E i \in 1 .. Len(txq) : txq[i].id = k
  BY <1>2 DEF Unfinished, InTheHand
<1> QED
  BY <1>1, <1>2

\* The steps of the loop that take nothing from the queue: while a packet is
\* unfinished each of them advances the stage.
LEMMA LoopAdvances ==
  ASSUME IInv, IInv', Waiting, Waiting', NEW k \in PktId, Unfinished(k), Unfinished(k)',
         \/ Cancelled \/ TestCancel \/ ReceiveFails \/ BulkEnd \/ WriteEvent \/ WriteZlp
         \/ InvalidType \/ NextPacket \/ LeaveLoop \/ LeaveCancelled \/ Exit \/ Progress
         \/ DrainEnd /\ ~InBulk
  PROVE  Ahead(k)' = Ahead(k) /\ Stage' < Stage
<1> DEFINE left == len - written
           s == StageAt(pc, ret, status, left)
<1>1. /\ status \in Int /\ status' \in Int
      /\ InBulk => left \in Nat
      /\ pc # "done" /\ pc' # "done"
  BY WriterCounts, WriterAssumption DEF IInv, TypeOK, Waiting
<1>2. Stage = s /\ Stage' = s'
  BY DEF Stage
<1>3. ASSUME UNCHANGED <<txq, nsent, cur>>
      PROVE  Ahead(k)' = Ahead(k)
  BY <1>3 DEF Ahead
<1>4. CASE Cancelled
  <2>1. /\ UNCHANGED <<txq, nsent, cur>> /\ pc' = "drain" /\ ret' = "done"
        /\ pc \in {"top", "rcv", "bulk", "write", "event", "zlp", "drain"}
        /\ (pc = "drain" => ret = "bulk")
        /\ (pc \in {"bulk", "write", "drain"} => left \in Nat)
    BY <1>1, <1>4 DEF Cancelled, AtCancellationPoint, EnterDrain, queueVars, localVars, InBulk
  <2>2. s' = 0 /\ s \in Nat /\ s > 0
    <3> HIDE DEF left
    <3> QED
      BY <1>1, <2>1, StageValues
  <2> QED
    BY <1>2, <1>3, <2>1, <2>2
<1>5. CASE DrainEnd /\ ~InBulk
  <2>1. txq = <<>> /\ pc = "drain" /\ ret # "bulk"
    BY <1>5 DEF DrainEnd, DrainGoesOn, InBulk
  <2>2. ~InQueue(k) /\ ~InTheHand(k)
    BY <2>1, WriterCounts DEF InQueue, InTheHand, PktId
  <2> QED
    BY <2>2 DEF Waiting
<1>6. CASE TestCancel \/ ReceiveFails \/ InvalidType
  <2>1. /\ UNCHANGED <<txq, nsent, cur>>
        /\ \/ pc = "top" /\ pc' = "rcv"
           \/ pc = "rcv" /\ pc' = "invalid"
           \/ pc = "invalid" /\ pc' = "check" /\ status' < 0
    BY <1>6 DEF TestCancel, ReceiveFails, InvalidType, Branch, queueVars, localVars
  <2>2. s' = s - 1 /\ s \in Nat
    <3> HIDE DEF left
    <3> QED
      BY <1>1, <2>1, StageValues
  <2> QED
    BY <1>2, <1>3, <2>1, <2>2
<1>7. CASE WriteEvent \/ WriteZlp
  <2>1. /\ UNCHANGED <<txq, nsent, cur>> /\ pc \in {"event", "zlp"} /\ pc' = "check"
    BY <1>7 DEF WriteEvent, WriteZlp, queueVars
  <2>2. s = 6 /\ s' \in {1, 5}
    <3> HIDE DEF left
    <3> QED
      BY <1>1, <2>1, StageValues
  <2> QED
    BY <1>2, <1>3, <2>1, <2>2
<1>8. CASE NextPacket \/ LeaveLoop
  <2>1. /\ UNCHANGED <<txq, nsent, cur>> /\ pc = "check"
        /\ \/ status >= 0 /\ pc' = "top"
           \/ status < 0 /\ pc' = "drain" /\ ret' = "exit"
    BY <1>8 DEF NextPacket, LeaveLoop, EnterDrain, queueVars, localVars
  <2>2. s' = s - 1 /\ s \in Nat
    <3> HIDE DEF left
    <3> QED
      BY <1>1, <2>1, StageValues
  <2> QED
    BY <1>2, <1>3, <2>1, <2>2
<1>9. CASE BulkEnd
  <2>1. /\ UNCHANGED <<txq, nsent, cur, status>> /\ pc = "bulk" /\ pc' = "check" /\ left \in Nat
        /\ status >= 0
    BY <1>1, <1>9 DEF BulkEnd, queueVars, InBulk, IInv, LocalInv
  <2>2. s = 6 + left /\ s' = 5
    <3> HIDE DEF left
    <3> QED
      BY <1>1, <2>1, StageValues
  <2> QED
    BY <1>2, <1>3, <2>1, <2>2
<1>10. CASE Progress
  <2>1. PICK m \in 1 .. (len - written) : BulkWrite(m)
    BY <1>10 DEF Progress
  <2>2. /\ UNCHANGED <<txq, nsent, cur>> /\ pc = "write" /\ pc' = "bulk" /\ left \in Nat
        /\ len' = len /\ written' = written + m /\ len \in Int /\ written \in Int
    BY <1>1, <2>1, WriterCounts DEF BulkWrite, queueVars, InBulk
  <2>3. left' = left - m /\ m \in Nat /\ m > 0
    BY <2>1, <2>2
  <2>4. s = 6 + left /\ s' = 6 + left'
    <3> HIDE DEF left
    <3> QED
      BY <1>1, <2>2, StageValues
  <2> QED
    <3> HIDE DEF left, s
    <3> QED
      BY <1>2, <1>3, <2>2, <2>3, <2>4
<1>11. ~Exit /\ ~LeaveCancelled
  BY <1>1 DEF Exit, LeaveCancelled
<1> HIDE DEF left, s
<1> QED
  BY <1>4, <1>5, <1>6, <1>7, <1>8, <1>9, <1>10, <1>11

\* A step that takes a packet from the queue brings every packet behind it
\* nearer; one in hand waits until the drain after a failed write is over.
LEMMA TakingAdvances ==
  ASSUME IInv, IInv', Waiting, NEW k \in PktId, Unfinished(k), DrainOne \/ Receive
  PROVE  \/ Ahead(k)' < Ahead(k)
         \/ InBulk /\ DrainOne /\ Ahead(k)' = Ahead(k) /\ Stage' = Stage
<1>1. /\ Len(txq) \in Nat /\ nsent \in Nat /\ cur <= nsent - Len(txq) /\ cur \in Nat
      /\ txq # <<>> /\ Len(txq') = Len(txq) - 1 /\ Len(txq) > 0 /\ nsent' = nsent /\ k \in Int
  <2>1. txq' = Tail(txq) /\ txq # <<>> /\ nsent' = nsent
    BY DEF DrainOne, Receive
  <2> QED
    BY <2>1, WriterCounts DEF PktId
<1>2. CASE Receive
  <2>1. pc = "rcv" /\ cur' = Head(txq).id
    BY <1>2 DEF Receive
  <2>2. InQueue(k)
    BY <2>1 DEF Waiting, InTheHand
  <2>3. cur # k
    BY <1>1, <2>2 DEF InQueue
  <2> QED
    BY <1>1, <2>2, <2>3 DEF Ahead, InQueue
<1>3. CASE DrainOne
  <2>1. pc = "drain" /\ UNCHANGED <<cur, pc, ret, status, len, written>>
    BY <1>3 DEF DrainOne, DrainGoesOn, localVars
  <2>2. CASE InQueue(k)
    <3>1. cur # k
      BY <1>1, <2>2 DEF InQueue
    <3> QED
      BY <1>1, <2>1, <2>2, <3>1 DEF Ahead, InQueue
  <2>3. CASE InTheHand(k)
    BY <1>3, <2>1, <2>3 DEF InTheHand, InBulk, Ahead, Stage
  <2> QED
    BY <2>2, <2>3 DEF Waiting
<1> QED
  BY <1>2, <1>3

\* The steps in the middle of a bulk packet, and those of the responder.
LEMMA OthersHold ==
  ASSUME IInv, IInv', Waiting, NEW k \in PktId, Unfinished(k),
         \/ Send \/ TakeControlEvent \/ CancelThread \/ UNCHANGED vars
         \/ PollAgain \/ PollReady \/ WriteSome \/ BulkWriteCancelled \/ BulkWriteFails
         \/ DrainEnd /\ InBulk
  PROVE  Ahead(k)' = Ahead(k) /\ Stage' <= Stage /\ Stage \in Int
<1> DEFINE left == len - written
           s == StageAt(pc, ret, status, left)
<1>1. /\ status \in Int /\ status' \in Int /\ len \in Int /\ written \in Int
      /\ InBulk => left \in Nat
      /\ pc # "done" /\ pc \in PC /\ (pc = "drain" => ret \in {"bulk", "exit", "done"})
  BY WriterCounts, WriterAssumption DEF IInv, TypeOK, Waiting
<1>2. Stage = s /\ Stage' = s'
  BY DEF Stage
<1>3. s \in Int
  <2>1. pc \in {"bulk", "write"} \/ (pc = "drain" /\ ret = "bulk") => left \in Nat
    BY <1>1 DEF InBulk
  <2> HIDE DEF left
  <2> QED
    BY <1>1, <2>1, StageValues DEF PC
<1>4. ASSUME UNCHANGED <<txq, nsent, cur>>
      PROVE  Ahead(k)' = Ahead(k)
  BY <1>4 DEF Ahead
<1>5. CASE Send
  <2>1. nsent' = nsent + 1 /\ UNCHANGED <<cur, pc, ret, status, len, written>>
    BY <1>5 DEF Send, localVars
  <2>2. Len(txq') = Len(txq) + 1
    <3>1. PICK e : txq' = Append(txq, e)
      BY <1>5 DEF Send
    <3>2. txq \in Seq(Packet)
      BY DEF IInv, TypeOK
    <3>3. Len(Append(txq, e)) = Len(txq) + 1
      BY <3>2
    <3> QED
      BY <3>1, <3>3
  <2>3. Ahead(k)' = Ahead(k)
    BY <2>1, <2>2, WriterCounts DEF Ahead, PktId
  <2>4. s' = s
    BY <2>1
  <2> HIDE DEF s
  <2> QED
    BY <1>2, <1>3, <2>3, <2>4
<1>6. CASE TakeControlEvent \/ CancelThread \/ UNCHANGED vars
  <2>1. UNCHANGED <<txq, nsent, cur, pc, ret, status, len, written>>
    BY <1>6 DEF TakeControlEvent, CancelThread, vars, queueVars, localVars
  <2>2. s' = s
    BY <2>1
  <2> HIDE DEF s
  <2> QED
    BY <1>2, <1>3, <1>4, <2>1, <2>2
<1>7. CASE PollAgain \/ PollReady \/ BulkWriteCancelled \/ BulkWriteFails \/ (DrainEnd /\ InBulk)
  <2>1. /\ UNCHANGED <<txq, nsent, cur, len, written>>
        /\ pc \in {"bulk", "write"} \/ (pc = "drain" /\ ret = "bulk")
        /\ pc' \in {"bulk", "write"} \/ (pc' = "drain" /\ ret' = "bulk")
    BY <1>7 DEF PollAgain, PollReady, BulkWriteCancelled, BulkWriteFails, DrainEnd, DrainGoesOn,
       InBulk, EnterDrain, queueVars, localVars
  <2>2. left' = left
    BY <2>1
  <2>3. s = 6 + left /\ s' = 6 + left
    <3> HIDE DEF left
    <3> QED
      BY <1>1, <2>1, <2>2, StageValues
  <2> HIDE DEF s
  <2> QED
    BY <1>2, <1>3, <1>4, <2>1, <2>3
<1>8. CASE WriteSome
  <2>1. PICK m \in 0 .. (len - written) : BulkWrite(m)
    BY <1>8 DEF WriteSome
  <2>2. /\ UNCHANGED <<txq, nsent, cur>> /\ pc = "write" /\ pc' = "bulk" /\ left \in Nat
        /\ len' = len /\ written' = written + m
    BY <1>1, <2>1 DEF BulkWrite, queueVars, InBulk
  <2>3. left' = left - m /\ m \in Nat
    BY <1>1, <2>1, <2>2
  <2>4. s = 6 + left /\ s' = 6 + left'
    <3> HIDE DEF left
    <3> QED
      BY <1>1, <2>2, StageValues
  <2> HIDE DEF left, s
  <2> QED
    BY <1>2, <1>4, <2>2, <2>3, <2>4
<1> HIDE DEF left, s
<1> QED
  BY <1>5, <1>6, <1>7, <1>8

\* Whatever fails and is retried, no packet is overtaken, no work is undone and
\* every step but a poll, a write that moves nothing and a drain in between is
\* progress: what QueueDrains needs of the host is progress in bulk packets.
THEOREM WorkIsRunDown == Spec => WorkRunsDown
<1> DEFINE Runs(k) ==
             /\ Ahead(k) \in 0 .. QueueCap /\ Ahead(k)' <= Ahead(k)
             /\ Ahead(k)' = Ahead(k) => Stage' <= Stage /\ (Advances => Stage' < Stage)
<1>1. ASSUME IInv, IInv', Waiting, Waiting', [Next]_vars,
             NEW k \in PktId, Unfinished(k), Unfinished(k)'
      PROVE  Runs(k)
  <2>1. Ahead(k) \in 0 .. QueueCap
    BY <1>1, WriterCounts DEF Waiting, InQueue, InTheHand, Ahead, PktId
  <2>2. ASSUME Advances
        PROVE  Ahead(k)' < Ahead(k) \/ (Ahead(k)' = Ahead(k) /\ Stage' < Stage)
    <3>1. CASE Progress \/ BulkEnd \/ Cancelled
      BY <1>1, <3>1, LoopAdvances
    <3>2. CASE ~InBulk /\ (DrainOne \/ Receive)
      BY <1>1, <3>2, TakingAdvances
    <3>3. CASE ~InBulk /\ ~(Progress \/ BulkEnd \/ Cancelled \/ DrainOne \/ Receive)
      <4>1. ~(PollAgain \/ PollReady \/ WriteSome \/ BulkWriteCancelled \/ BulkWriteFails)
        BY <3>3 DEF PollAgain, PollReady, WriteSome, BulkWrite, BulkWriteCancelled,
           BulkWriteFails, InBulk
      <4> QED
        BY <1>1, <2>2, <3>3, <4>1, LoopAdvances DEF Advances, WriterStep
    <3> QED
      BY <2>2, <3>1, <3>2, <3>3 DEF Advances
  <2>3. \/ Ahead(k)' < Ahead(k)
        \/ Ahead(k)' = Ahead(k) /\ (Stage' < Stage \/ Stage' = Stage \/ Stage' <= Stage)
    <3>1. CASE DrainOne \/ Receive
      BY <1>1, <3>1, TakingAdvances
    <3>2. CASE \/ Send \/ TakeControlEvent \/ CancelThread \/ UNCHANGED vars
               \/ PollAgain \/ PollReady \/ WriteSome \/ BulkWriteCancelled \/ BulkWriteFails
               \/ DrainEnd /\ InBulk
      BY <1>1, <3>2, OthersHold
    <3>3. CASE \/ Cancelled \/ TestCancel \/ ReceiveFails \/ BulkEnd \/ WriteEvent \/ WriteZlp
               \/ InvalidType \/ NextPacket \/ LeaveLoop \/ LeaveCancelled \/ Exit
               \/ DrainEnd /\ ~InBulk
      BY <1>1, <3>3, LoopAdvances
    <3> QED
      BY <1>1, <3>1, <3>2, <3>3 DEF Next, WriterStep
  <2>4. Ahead(k) \in Int /\ Ahead(k)' \in Int /\ Stage \in Int /\ Stage' \in Int
    <3>1. Ahead(k) \in Int /\ Ahead(k)' \in Int
      BY <1>1, WriterCounts, WriterAssumption DEF Ahead, IInv, TypeOK, PktId
    <3>2. Stage \in Int /\ Stage' \in Int
      <4>1. /\ status \in Int /\ len - written \in Int
            /\ status' \in Int /\ len' - written' \in Int
        BY <1>1, WriterAssumption DEF IInv, TypeOK, Len0
      <4> QED
        BY <4>1, StageRange DEF Stage
    <3> QED
      BY <3>1, <3>2
  <2> QED
    BY <2>1, <2>2, <2>3, <2>4
<1>2. IInv /\ IInv' /\ Waiting /\ Waiting' /\ [Next]_vars
        => [\A k \in PktId : Unfinished(k) /\ Unfinished(k)' => Runs(k)]_vars
  BY <1>1
<1> QED
  BY <1>2, Inductive, WaitingHolds, PTL DEF Spec, WorkRunsDown

=============================================================================
