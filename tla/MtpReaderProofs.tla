-------------------------- MODULE MtpReaderProofs --------------------------
(***************************************************************************)
(* Proofs about MtpReader for every number of transfers and retries and    *)
(* every queue size: buffers are owned, packets are accounted for, the     *)
(* reads that one buffer costs are bounded.                                *)
(***************************************************************************)
EXTENDS MtpReader, TLAPS

Increasing(q) == \A i, j \in 1 .. Len(q) : i < j => q[i] < q[j]

\* Packets are received and queued in the order they were read.
Order ==
  /\ Increasing(taken) /\ Increasing(rxq)
  /\ \A x \in ToSet(taken), y \in Queued : x < y

\* The buffer in hand at each point of the loop: it is meant for the next
\* packet until read() has filled it.  A thread that ended by itself has
\* emptied the queue.
HandInv ==
  /\ hand \in {0, nread, nread + 1}
  /\ pc \in {"read", "reread", "handle", "deinit", "init"} => hand = nread + 1
  /\ pc = "send" => hand = nread /\ nread > 0
  /\ pc \in {"top", "leave"} => hand = 0
  /\ pc \in {"drain", "handler", "done"} /\ hand # 0 => cancelReq
  /\ pc = "done" /\ rxq # <<>> => cancelReq

\* Where buffers and packets are.
Places ==
  /\ heap = Queued \cup InHand
  /\ 1 .. nread = ToSet(taken) \cup Queued \cup dropped
                    \cup (IF hand = nread THEN InHand ELSE {})
  /\ InHand \cap (Queued \cup ToSet(taken) \cup dropped) = {}
  /\ dropped \cap (Queued \cup ToSet(taken)) = {}

\* Every read but the first was counted as a retry.
Attempts ==
  /\ pc = "read" => attempts = 0
  /\ pc = "handle" => attempts <= retry + 1
  /\ pc \in {"deinit", "init", "reread"} => attempts <= retry

IInv == TypeOK /\ Order /\ HandInv /\ Places /\ Attempts

-----------------------------------------------------------------------------
(* Increasing sequences.                                                   *)

LEMMA ToSetFacts ==
  ASSUME NEW S, NEW q \in Seq(S)
  PROVE  ToSet(q) = {q[i] : i \in 1 .. Len(q)}
<1>1. DOMAIN q = 1 .. Len(q)
  OBVIOUS
<1> QED
  BY <1>1, Zenon DEF ToSet

LEMMA EmptyFacts == ToSet(<<>>) = {}
<1>1. <<>> \in Seq({}) /\ Len(<<>>) = 0
  OBVIOUS
<1>2. ToSet(<<>>) = {<<>>[i] : i \in 1 .. Len(<<>>)}
  BY <1>1, ToSetFacts, Zenon
<1>3. 1 .. Len(<<>>) = {}
  BY <1>1
<1> QED
  BY <1>2, <1>3, Zenon

LEMMA TailFacts ==
  ASSUME NEW S, S \subseteq Int, NEW q \in Seq(S), q # <<>>, Increasing(q)
  PROVE  /\ Tail(q) \in Seq(S) /\ Len(Tail(q)) = Len(q) - 1
         /\ Head(q) \in ToSet(q) /\ Head(q) \in S
         /\ Increasing(Tail(q))
         /\ ToSet(Tail(q)) = ToSet(q) \ {Head(q)}
         /\ \A x \in ToSet(Tail(q)) : Head(q) < x
<1>1. /\ Len(q) \in Nat /\ Len(q) > 0 /\ Head(q) = q[1]
      /\ Tail(q) \in Seq(S) /\ Len(Tail(q)) = Len(q) - 1
      /\ \A i \in 1 .. Len(q) - 1 : Tail(q)[i] = q[i + 1]
      /\ \A i \in 1 .. Len(q) : q[i] \in S
  OBVIOUS
<1>2. /\ ToSet(q) = {q[i] : i \in 1 .. Len(q)}
      /\ ToSet(Tail(q)) = {Tail(q)[i] : i \in 1 .. Len(q) - 1}
  <2>1. ToSet(Tail(q)) = {Tail(q)[i] : i \in 1 .. Len(Tail(q))}
    BY <1>1, ToSetFacts
  <2> QED
    BY <1>1, <2>1, ToSetFacts
<1>3. ASSUME NEW i \in 1 .. Len(q) - 1, NEW j \in 0 .. i - 1
      PROVE  q[j + 1] < q[i + 1]
  <2>1. i + 1 \in 1 .. Len(q) /\ j + 1 \in 1 .. Len(q) /\ j + 1 < i + 1
    BY <1>1
  <2> QED
    BY <2>1 DEF Increasing
<1>4. ASSUME NEW x \in ToSet(Tail(q))
      PROVE  Head(q) < x /\ x \in ToSet(q)
  <2>1. PICK i \in 1 .. Len(q) - 1 : x = q[i + 1]
    BY <1>1, <1>2
  <2>2. 0 \in 0 .. i - 1 /\ i + 1 \in 1 .. Len(q)
    BY <1>1
  <2>3. q[0 + 1] < q[i + 1]
    BY <1>3, <2>2
  <2> QED
    BY <1>1, <1>2, <2>1, <2>2, <2>3
<1>5. ASSUME NEW x \in ToSet(q), x # Head(q)
      PROVE  x \in ToSet(Tail(q))
  <2>1. PICK i \in 1 .. Len(q) : x = q[i]
    BY <1>2
  <2>2. i - 1 \in 1 .. Len(q) - 1 /\ Tail(q)[i - 1] = q[i]
    BY <1>1, <1>5, <2>1
  <2> QED
    BY <1>2, <2>1, <2>2
<1>6. Head(q) \in ToSet(q) /\ Head(q) \in S
  BY <1>1, <1>2
<1>7. ASSUME NEW i \in 1 .. Len(Tail(q)), NEW j \in 1 .. Len(Tail(q)), j < i
      PROVE  Tail(q)[j] < Tail(q)[i]
  <2>1. i \in 1 .. Len(q) - 1 /\ j \in 0 .. i - 1 /\ j \in 1 .. Len(q) - 1
    BY <1>1, <1>7
  <2> QED
    BY <1>1, <1>3, <2>1
<1>8. Head(q) \notin ToSet(Tail(q))
  <2>1. Head(q) \in Int
    BY <1>6
  <2>2. ~(Head(q) < Head(q))
    BY <2>1
  <2> QED
    BY <1>4, <2>2, Zenon
<1> QED
  BY <1>1, <1>4, <1>5, <1>6, <1>7, <1>8 DEF Increasing

\* e comes after everything in q.
Below(q, e) == \A x \in ToSet(q) : x < e

\* r holds what q holds, and e.
Extends(r, q, e) == ToSet(r) = ToSet(q) \cup {e}

LEMMA AppendFacts ==
  ASSUME NEW S, S \subseteq Int, NEW q \in Seq(S), NEW e \in S, Increasing(q),
         Below(q, e)
  PROVE  /\ Append(q, e) \in Seq(S) /\ Len(Append(q, e)) = Len(q) + 1
         /\ Increasing(Append(q, e))
         /\ Extends(Append(q, e), q, e)
<1>1. /\ Len(q) \in Nat /\ Append(q, e) \in Seq(S)
      /\ Len(Append(q, e)) = Len(q) + 1
      /\ \A i \in 1 .. Len(q) : Append(q, e)[i] = q[i] /\ q[i] \in S
      /\ Append(q, e)[Len(q) + 1] = e
  OBVIOUS
<1>2. /\ ToSet(q) = {q[i] : i \in 1 .. Len(q)}
      /\ ToSet(Append(q, e)) = {Append(q, e)[i] : i \in 1 .. Len(q) + 1}
  <2>1. ToSet(Append(q, e)) = {Append(q, e)[i] : i \in 1 .. Len(Append(q, e))}
    BY <1>1, ToSetFacts
  <2> QED
    BY <1>1, <2>1, ToSetFacts
<1>3. \A i \in 1 .. Len(q) + 1 : i \in 1 .. Len(q) \/ i = Len(q) + 1
  BY <1>1
<1>4. Extends(Append(q, e), q, e)
  BY <1>1, <1>2, <1>3 DEF Extends
<1>5. \A i \in 1 .. Len(q) : q[i] < e
  BY <1>2 DEF Below
<1>6. Increasing(Append(q, e))
  BY <1>1, <1>3, <1>5 DEF Increasing
<1> QED
  BY <1>1, <1>4, <1>6

-----------------------------------------------------------------------------
LEMMA Initially == Init => IInv
<1> SUFFICES ASSUME Init PROVE IInv
  OBVIOUS
<1> USE ReaderAssumption DEF Init
<1>1. rxq \in Seq(1 .. MaxPkts) /\ taken \in Seq(1 .. MaxPkts) /\ Len(rxq) = 0
      /\ Len(taken) = 0
  OBVIOUS
<1>2. Queued = {} /\ ToSet(taken) = {} /\ InHand = {}
  BY EmptyFacts DEF Queued, InHand
<1>3. TypeOK
  <2>1. ctrl \in BOOLEAN /\ cancelReq \in BOOLEAN /\ devOpen \in BOOLEAN
    BY Zenon
  <2>2. heap \subseteq 1 .. (MaxPkts + 1) /\ dropped \subseteq 1 .. MaxPkts
    OBVIOUS
  <2>3. nread \in 0 .. MaxPkts /\ hand \in 0 .. (MaxPkts + 1) /\ retry \in 0 .. MaxRetry
        /\ attempts \in 0 .. (MaxRetry + 1) /\ Len(rxq) <= QueueCap /\ status \in -1 .. 1
    BY <1>1
  <2> QED
    BY <1>1, <2>1, <2>2, <2>3 DEF TypeOK, Errno
<1>4. Order
  BY <1>1, <1>2 DEF Order, Increasing
<1>5. HandInv /\ Attempts
  BY DEF HandInv, Attempts
<1>6. Places
  BY <1>2 DEF Places
<1> QED
  BY <1>3, <1>4, <1>5, <1>6 DEF IInv

\* What the invariant says about numbers and sets, without the sequences.
LEMMA Basics ==
  ASSUME IInv
  PROVE  /\ rxq \in Seq(1 .. MaxPkts) /\ taken \in Seq(1 .. MaxPkts)
         /\ 1 .. MaxPkts \subseteq Int
         /\ nread \in Nat /\ nread <= MaxPkts /\ hand \in Nat
         /\ retry \in Nat /\ attempts \in Nat /\ retry <= MaxRetry
         /\ Queued \subseteq 1 .. nread /\ ToSet(taken) \subseteq 1 .. nread
         /\ dropped \subseteq 1 .. nread
<1>1. nread \in Nat /\ nread <= MaxPkts
  BY ReaderAssumption DEF IInv, TypeOK
<1>2. Queued \subseteq 1 .. nread /\ ToSet(taken) \subseteq 1 .. nread
      /\ dropped \subseteq 1 .. nread
  BY DEF IInv, Places
<1> QED
  BY <1>1, <1>2, ReaderAssumption DEF IInv, TypeOK

-----------------------------------------------------------------------------
(* Steps that move no packet and no buffer.                                *)

Quiet ==
  /\ UNCHANGED <<rxq, nread, heap, hand, taken, dropped>>

LEMMA QuietKeeps ==
  ASSUME IInv, Quiet
  PROVE  Order' /\ Places'
BY DEF Quiet, IInv, Order, Increasing, Places, Queued, InHand

LEMMA QuietSteps ==
  ASSUME IInv,
         \/ TakeControlEvent \/ CancelThread \/ Cancelled \/ Leave
         \/ LeaveCancelled \/ DrainEnd
         \/ AllocateFails \/ Skip \/ Recover \/ Deinit \/ Reinit \/ ReinitFails
  PROVE  IInv'
<1> USE ReaderAssumption
    DEF TypeOK, HandInv, Attempts, Errno, readVars, histVars, MayRetry,
        AtCancellationPoint, DrainGoesOn
<1>1. TypeOK /\ HandInv /\ Attempts
  BY DEF IInv
<1>2. retry \in Nat /\ attempts \in Nat
  BY Basics
<1>3. Quiet
  BY DEF Quiet, TakeControlEvent, CancelThread, Cancelled, Leave, LeaveCancelled,
         DrainEnd, AllocateFails, Skip, Recover, Deinit, Reinit, ReinitFails
<1>4. TypeOK' /\ HandInv' /\ Attempts'
  <2>1. CASE TakeControlEvent
    <3>1. UNCHANGED <<rxq, nread, heap, hand, cancelReq, devOpen, pc, readVars, histVars>>
      BY <2>1 DEF TakeControlEvent
    <3>2. ctrl' \in BOOLEAN
      <4>1. ctrl' = FALSE
        BY <2>1 DEF TakeControlEvent
      <4> QED
        BY <4>1, Zenon
    <3>3. TypeOK'
      BY <1>1, <3>1, <3>2
    <3>4. HandInv' /\ Attempts'
      BY <1>1, <3>1
    <3> QED
      BY <3>3, <3>4
  <2>2. CASE CancelThread
    BY <1>1, <2>2 DEF CancelThread
  <2>3. CASE Cancelled
    BY <1>1, <2>3 DEF Cancelled
  <2>4. CASE Leave
    BY <1>1, <2>4 DEF Leave
  <2>5. CASE DrainEnd
    BY <1>1, <2>5 DEF DrainEnd
  <2>6. CASE AllocateFails
    BY <1>1, <2>6 DEF AllocateFails
  <2>7. CASE Skip
    BY <1>1, <1>2, <2>7 DEF Skip
  <2>8. CASE Recover
    BY <1>1, <1>2, <2>8 DEF Recover
  <2>9. CASE Deinit
    BY <1>1, <2>9 DEF Deinit
  <2>10. CASE Reinit
    BY <1>1, <2>10 DEF Reinit
  <2>11. CASE ReinitFails
    BY <1>1, <1>2, <2>11 DEF ReinitFails
  <2>12. CASE LeaveCancelled
    BY <1>1, <2>12 DEF LeaveCancelled
  <2> QED
    BY <2>1, <2>2, <2>3, <2>4, <2>5, <2>6, <2>7, <2>8, <2>9, <2>10, <2>11, <2>12
<1> QED
  BY <1>3, <1>4, QuietKeeps DEF IInv

-----------------------------------------------------------------------------
(* Steps on the buffer in hand.                                            *)

LEMMA AllocateKeeps ==
  ASSUME IInv, Allocate
  PROVE  IInv'
<1> USE DEF Allocate
<1>1. hand = 0 /\ InHand = {} /\ InHand' = {nread + 1} /\ Queued' = Queued
      /\ ToSet(taken)' = ToSet(taken)
  BY Basics DEF IInv, HandInv, InHand, Queued, histVars
<1>2. TypeOK'
  BY Basics, ReaderAssumption DEF IInv, TypeOK, histVars
<1>3. Order'
  BY DEF IInv, Order, Increasing, Queued, histVars
<1>4. HandInv' /\ Attempts'
  BY Basics DEF IInv, HandInv, Attempts
<1>5. Places'
  BY <1>1, Basics DEF IInv, Places, histVars
<1> QED
  BY <1>2, <1>3, <1>4, <1>5 DEF IInv

\* read() with data, at its first call or as a retry.
LEMMA DataKeeps ==
  ASSUME IInv, pc \in {"read", "reread"}, ReadData, CountAttempt, pc' = "send",
         UNCHANGED <<rxq, heap, hand, ctrl, cancelReq, devOpen, histVars, retry>>
  PROVE  IInv'
<1> USE DEF ReadData
<1>1. hand = nread + 1 /\ InHand = {nread + 1} /\ InHand' = {nread + 1}
      /\ Queued' = Queued /\ ToSet(taken)' = ToSet(taken)
  BY Basics DEF IInv, HandInv, InHand, Queued, histVars
<1>2. TypeOK'
  BY Basics, ReaderAssumption DEF IInv, TypeOK, histVars, CountAttempt
<1>3. Order'
  BY DEF IInv, Order, Increasing, Queued, histVars
<1>4. HandInv' /\ Attempts'
  BY <1>1, Basics DEF HandInv, Attempts
<1>5. 1 .. nread' = 1 .. nread \cup {nread + 1} /\ hand' = nread' /\ hand # nread
  BY <1>1, Basics
<1>6. Places'
  BY <1>1, <1>5, Basics DEF IInv, Places, histVars
<1> QED
  BY <1>2, <1>3, <1>4, <1>6 DEF IInv

\* read() without data.
LEMMA NoDataKeeps ==
  ASSUME IInv, pc \in {"read", "reread"}, ReadNothing \/ ReadFails, CountAttempt,
         pc' = "handle", retry' = IF pc = "read" THEN 0 ELSE retry,
         UNCHANGED <<rxq, heap, hand, ctrl, cancelReq, devOpen, histVars>>
  PROVE  IInv'
<1> USE DEF ReadNothing, ReadFails
<1>1. Quiet
  BY DEF Quiet, histVars
<1>2. errno' \in Errno
  BY DEF IInv, TypeOK, Errno
<1>3. TypeOK'
  BY <1>2, Basics, ReaderAssumption DEF IInv, TypeOK, histVars, CountAttempt
<1>4. HandInv'
  BY DEF IInv, HandInv
<1>5. Attempts'
  BY Basics, ReaderAssumption DEF IInv, Attempts, CountAttempt
<1> QED
  BY <1>1, <1>3, <1>4, <1>5, QuietKeeps DEF IInv

LEMMA ReadKeeps ==
  ASSUME IInv, Read \/ Reread
  PROVE  IInv'
<1>1. /\ pc \in {"read", "reread"} /\ CountAttempt
      /\ UNCHANGED <<rxq, heap, hand, ctrl, cancelReq, devOpen, histVars>>
      /\ \/ ReadData /\ pc' = "send" /\ retry' = retry
         \/ /\ ReadNothing \/ ReadFails
            /\ pc' = "handle" /\ retry' = IF pc = "read" THEN 0 ELSE retry
  BY DEF Read, Reread
<1>2. CASE ReadData /\ pc' = "send" /\ retry' = retry
  BY <1>1, <1>2, DataKeeps
<1>3. CASE /\ ReadNothing \/ ReadFails
           /\ pc' = "handle" /\ retry' = IF pc = "read" THEN 0 ELSE retry
  BY <1>1, <1>3, NoDataKeeps
<1> QED
  BY <1>1, <1>2, <1>3

\* _util_msgq_send puts the packet behind all others.
LEMMA SendKeeps ==
  ASSUME IInv, SendPacket
  PROVE  IInv'
<1> USE DEF SendPacket
<1>1. hand = nread /\ nread > 0 /\ InHand = {nread} /\ InHand' = {}
      /\ nread \in 1 .. MaxPkts /\ hand' # nread' /\ nread' = nread
  BY Basics DEF IInv, HandInv, InHand
<1>2. \A x \in Queued \cup ToSet(taken) : x < nread
  BY <1>1, Basics DEF IInv, Places
<1>3. /\ rxq' \in Seq(1 .. MaxPkts) /\ Len(rxq') = Len(rxq) + 1
      /\ Increasing(rxq)' /\ Queued' = Queued \cup {nread}
  <2>1. rxq' = Append(rxq, nread) /\ Increasing(rxq) /\ rxq \in Seq(1 .. MaxPkts)
        /\ \A x \in ToSet(rxq) : x < nread
    BY <1>2, Basics DEF IInv, Order, Queued
  <2>2. /\ Append(rxq, nread) \in Seq(1 .. MaxPkts)
        /\ Len(Append(rxq, nread)) = Len(rxq) + 1
        /\ Increasing(Append(rxq, nread))
        /\ Extends(Append(rxq, nread), rxq, nread)
    <3> HIDE DEF SendPacket
    <3>1. 1 .. MaxPkts \subseteq Int /\ nread \in 1 .. MaxPkts
      BY <1>1, Basics
    <3>2. Below(rxq, nread)
      BY <2>1 DEF Below
    <3> QED
      BY <2>1, <3>1, <3>2, AppendFacts, Zenon
  <2> QED
    BY <2>1, <2>2 DEF Queued, Increasing, Extends
<1>4. taken' = taken /\ dropped' = dropped /\ heap' = heap
  BY DEF histVars
<1>5. TypeOK'
  BY <1>3, Basics, ReaderAssumption DEF IInv, TypeOK, histVars, readVars
<1>6. Order'
  BY <1>2, <1>3, <1>4 DEF IInv, Order, Increasing
<1>7. HandInv' /\ Attempts'
  BY DEF HandInv, Attempts
<1>8. Places'
  BY <1>1, <1>3, <1>4, Basics DEF IInv, Places
<1> QED
  BY <1>5, <1>6, <1>7, <1>8 DEF IInv

\* The buffer in hand is freed: with its packet, or before it had one.
LEMMA FreeKeeps ==
  ASSUME IInv, SendFails \/ GiveUp
  PROVE  IInv'
<1>1. /\ heap' = heap \ {hand} /\ hand' = 0 /\ InHand' = {} /\ hand # 0
      /\ InHand = {hand} /\ UNCHANGED <<rxq, nread, taken>>
      /\ dropped' = IF hand = nread THEN dropped \cup {nread} ELSE dropped
      /\ hand \in {nread, nread + 1}
  <2>1. CASE SendFails
    BY <2>1, Basics DEF IInv, HandInv, SendFails, InHand
  <2>2. CASE GiveUp
    <3>1. /\ heap' = heap \ {hand} /\ hand' = 0 /\ pc = "handle"
          /\ UNCHANGED <<rxq, nread, taken>> /\ dropped' = dropped
      BY <2>2 DEF GiveUp, histVars
    <3>2. hand = nread + 1 /\ nread \in Nat
      BY <3>1, Basics DEF IInv, HandInv
    <3> QED
      BY <3>1, <3>2 DEF InHand
  <2> QED
    BY <2>1, <2>2
<1>2. TypeOK'
  <2>1. heap' \subseteq 1 .. (MaxPkts + 1) /\ dropped' \subseteq 1 .. MaxPkts
    <3>1. hand = nread => nread \in 1 .. MaxPkts
      BY <1>1, Basics
    <3>2. heap \subseteq 1 .. (MaxPkts + 1) /\ dropped \subseteq 1 .. MaxPkts
      BY DEF IInv, TypeOK
    <3> QED
      BY <1>1, <3>1, <3>2, Zenon
  <2>2. /\ UNCHANGED <<ctrl, cancelReq, devOpen, status, errno, retry, attempts>>
        /\ pc' \in {"top", "leave"}
    BY DEF SendFails, GiveUp, readVars
  <2> QED
    BY <1>1, <2>1, <2>2, ReaderAssumption DEF IInv, TypeOK
<1>3. Order' /\ Queued' = Queued /\ ToSet(taken)' = ToSet(taken)
  BY <1>1 DEF IInv, Order, Increasing, Queued
<1>4. HandInv' /\ Attempts'
  BY <1>1 DEF HandInv, Attempts, SendFails, GiveUp
<1>5. Places'
  <2>1. hand' # nread' \/ InHand' = {}
    BY <1>1
  <2>2. /\ heap' = Queued' \cup InHand'
        /\ InHand' \cap (Queued' \cup ToSet(taken)' \cup dropped') = {}
    BY <1>1, <1>3 DEF IInv, Places
  <2> DEFINE known == ToSet(taken) \cup Queued
  <2>5. /\ known \cap dropped = {} /\ {hand} \cap (known \cup dropped) = {}
        /\ 1 .. nread = known \cup dropped \cup (IF hand = nread THEN {hand} ELSE {})
        /\ ToSet(taken)' \cup Queued' = known
        /\ dropped' = IF hand = nread THEN dropped \cup {hand} ELSE dropped
    BY <1>1, <1>3 DEF IInv, Places
  <2> HIDE DEF known
  <2>6. dropped' \cap known = {} /\ 1 .. nread = known \cup dropped'
    <3>1. CASE hand = nread
      BY <2>5, <3>1
    <3>2. CASE hand # nread
      BY <2>5, <3>2
    <3> QED
      BY <3>1, <3>2
  <2>3. dropped' \cap (Queued' \cup ToSet(taken)') = {}
    BY <2>5, <2>6, Zenon
  <2>4. 1 .. nread = ToSet(taken)' \cup Queued' \cup dropped'
    BY <2>5, <2>6, Zenon
  <2> QED
    BY <1>1, <2>1, <2>2, <2>3, <2>4 DEF Places
<1> QED
  BY <1>2, <1>3, <1>4, <1>5 DEF IInv

-----------------------------------------------------------------------------
(* Steps that take the first packet of the queue.                          *)

LEMMA TakeKeeps ==
  ASSUME IInv, TakePacket \/ DrainOne
  PROVE  IInv'
<1> DEFINE p == Head(rxq)
<1>1. rxq # <<>> /\ rxq' = Tail(rxq) /\ heap' = heap \ {p}
      /\ UNCHANGED <<nread, hand, ctrl, cancelReq, devOpen, pc, readVars>>
  BY DEF TakePacket, DrainOne
<1>2. /\ rxq' \in Seq(1 .. MaxPkts) /\ Len(rxq') = Len(rxq) - 1
      /\ p \in Queued /\ p \in 1 .. MaxPkts
      /\ Increasing(rxq)' /\ Queued' = Queued \ {p}
      /\ \A x \in Queued' : p < x
  BY <1>1, Basics, TailFacts DEF IInv, Order, Queued
<1>3. InHand' = InHand
  BY <1>1 DEF InHand
<1> HIDE DEF p
<1>4. CASE TakePacket
  <2>1. taken' = Append(taken, p) /\ dropped' = dropped
    BY <1>4 DEF TakePacket, p
  <2>2. \A x \in ToSet(taken) : x < p
    BY <1>2 DEF IInv, Order
  <2>3. /\ taken' \in Seq(1 .. MaxPkts) /\ Increasing(taken)'
        /\ ToSet(taken)' = ToSet(taken) \cup {p}
    <3>1. /\ Append(taken, p) \in Seq(1 .. MaxPkts) /\ Increasing(Append(taken, p))
          /\ Extends(Append(taken, p), taken, p)
      <4>1. /\ 1 .. MaxPkts \subseteq Int /\ p \in 1 .. MaxPkts
            /\ taken \in Seq(1 .. MaxPkts) /\ Increasing(taken)
        BY <1>2, Basics DEF IInv, Order
      <4>2. Below(taken, p)
        BY <2>2 DEF Below
      <4> QED
        BY <4>1, <4>2, AppendFacts, Zenon
    <3> QED
      BY <2>1, <3>1 DEF Increasing, Extends
  <2>4. TypeOK'
    BY <1>1, <1>2, <2>1, <2>3, Basics, ReaderAssumption DEF IInv, TypeOK, readVars
  <2>5. Order'
    BY <1>2, <2>3 DEF IInv, Order
  <2>6. HandInv' /\ Attempts'
    BY <1>1 DEF IInv, HandInv, Attempts, readVars
  <2>7. Places'
    BY <1>1, <1>2, <1>3, <2>1, <2>3 DEF IInv, Places
  <2> QED
    BY <2>4, <2>5, <2>6, <2>7 DEF IInv
<1>5. CASE DrainOne
  <2>1. taken' = taken /\ dropped' = dropped \cup {p}
    BY <1>5 DEF DrainOne, p
  <2>2. p \notin ToSet(taken)
    BY <1>2, Basics DEF IInv, Order
  <2>3. TypeOK'
    BY <1>1, <1>2, <2>1, Basics, ReaderAssumption DEF IInv, TypeOK, readVars
  <2>4. Order'
    BY <1>2, <2>1 DEF IInv, Order, Increasing
  <2>5. HandInv' /\ Attempts'
    BY <1>1 DEF IInv, HandInv, Attempts, readVars
  <2>6. Places'
    BY <1>1, <1>2, <1>3, <2>1, <2>2 DEF IInv, Places
  <2> QED
    BY <2>3, <2>4, <2>5, <2>6 DEF IInv
<1> QED
  BY <1>4, <1>5

-----------------------------------------------------------------------------
LEMMA Invariant == Spec => []IInv
<1>1. IInv /\ [Next]_vars => IInv'
  <2>1. CASE UNCHANGED vars
    BY <2>1, QuietKeeps
    DEF vars, readVars, histVars, Quiet, IInv, TypeOK, HandInv, Attempts
  <2> QED
    BY <2>1, QuietSteps, AllocateKeeps, ReadKeeps, SendKeeps, FreeKeeps, TakeKeeps
    DEF Next, ReaderStep
<1> QED
  BY <1>1, Initially, PTL DEF Spec

\* Every variable has its type and the receive queue never exceeds its size.
THEOREM TypeCorrect == Spec => []TypeOK
BY Invariant, PTL DEF IInv

\* No packet buffer is freed twice, used after being freed, shared or lost,
\* except the one in the hand of a cancelled thread; a thread that ended by
\* itself leaves none.
THEOREM BuffersAreOwned == Spec => []BuffersOwned
<1>1. IInv => BuffersOwned
  <2> SUFFICES ASSUME IInv PROVE BuffersOwned
    OBVIOUS
  <2>1. pc = "done" /\ Queued \cup InHand # {} => cancelReq
    BY EmptyFacts DEF IInv, HandInv, InHand, Queued
  <2> QED
    BY <2>1 DEF IInv, Places, InHand, BuffersOwned
<1> QED
  BY <1>1, Invariant, PTL

\* Every packet read is received, queued, in hand or dropped, and packets are
\* received in the order they were read.
THEOREM PacketsAccounted == Spec => []Accounted
<1>1. IInv => Accounted
  <2> SUFFICES ASSUME IInv PROVE Accounted
    OBVIOUS
  <2> DEFINE s == taken \o rxq
  <2>1. /\ Len(taken) \in Nat /\ Len(rxq) \in Nat
        /\ Len(s) = Len(taken) + Len(rxq)
        /\ \A i \in 1 .. Len(taken) : s[i] = taken[i]
        /\ \A i \in 1 .. Len(rxq) : s[Len(taken) + i] = rxq[i]
    BY Basics
  <2>2. /\ ToSet(taken) = {taken[i] : i \in 1 .. Len(taken)}
        /\ Queued = {rxq[i] : i \in 1 .. Len(rxq)}
    BY Basics, ToSetFacts DEF Queued
  <2>3. Order
    BY DEF IInv
  <2> HIDE DEF s
  <2>4. ASSUME NEW i \in 1 .. Len(s), NEW j \in 1 .. Len(s), i < j
        PROVE  s[i] < s[j]
    <3>1. CASE j \in 1 .. Len(taken)
      BY <2>1, <2>3, <2>4, <3>1 DEF Order, Increasing
    <3>2. CASE i \notin 1 .. Len(taken)
      <4>1. i - Len(taken) \in 1 .. Len(rxq) /\ j - Len(taken) \in 1 .. Len(rxq)
        BY <2>1, <2>4, <3>2
      <4>2. Len(taken) + (i - Len(taken)) = i /\ Len(taken) + (j - Len(taken)) = j
        BY <2>1
      <4>3. s[i] = rxq[i - Len(taken)] /\ s[j] = rxq[j - Len(taken)]
        BY <2>1, <4>1, <4>2
      <4> QED
        BY <2>1, <2>3, <2>4, <4>1, <4>3 DEF Order, Increasing
    <3>3. CASE i \in 1 .. Len(taken) /\ j \notin 1 .. Len(taken)
      <4>1. j - Len(taken) \in 1 .. Len(rxq)
        BY <2>1, <3>3
      <4>2. s[i] = taken[i] /\ s[j] = rxq[j - Len(taken)]
        BY <2>1, <3>3, <4>1
      <4> QED
        BY <2>2, <2>3, <3>3, <4>1, <4>2 DEF Order
    <3> QED
      BY <3>1, <3>2, <3>3
  <2>5. dropped \cap (ToSet(taken) \cup Queued \cup InHand) = {}
    BY DEF IInv, Places
  <2>6. 1 .. nread = ToSet(taken) \cup Queued \cup dropped
                       \cup (IF hand = nread THEN InHand ELSE {})
    BY DEF IInv, Places
  <2> QED
    BY <2>4, <2>5, <2>6 DEF Accounted, s
<1> QED
  BY <1>1, Invariant, PTL

\* One buffer never costs more than one read and MaxRetry retries.
THEOREM RetriesBounded == Spec => []RetryBounded
<1>1. IInv => RetryBounded
  <2> SUFFICES ASSUME IInv PROVE RetryBounded
    OBVIOUS
  <2> QED
    BY Basics, ReaderAssumption DEF IInv, Attempts, RetryBounded
<1> QED
  BY <1>1, Invariant, PTL

-----------------------------------------------------------------------------
(* The ends of the thread.  What CancelStops and ClosedEnds say under      *)
(* fairness rests on two facts that need none: where the thread is asked   *)
(* to end it is never without a step to take, and each step it takes       *)
(* leaves fewer before it, whatever the responder does in between.         *)

\* The result the error handling looks at is that of a failed read, and a
\* closed device is seen only by the recovery and by the way out.
Answered ==
  /\ pc = "handle" => status <= 0
  /\ pc \in {"deinit", "init"} \/ (pc = "handle" /\ ~devOpen) => status = -1
  /\ ~devOpen => pc \in {"handle", "deinit", "init", "reread", "leave", "drain",
                     "handler", "done"}

\* The guards of the steps of a cancelled thread, and of one whose device is
\* closed; the drain goes on or, on the way out, is cancelled.
CanEnd ==
  \/ cancelReq /\ AtCancellationPoint
  \/ ~cancelReq /\ pc \in {"reread", "deinit", "init"}
  \/ MayRetry /\ (status = 0 \/ errno \in {"EINTR", "ESHUTDOWN"})
  \/ pc = "handle" /\ (retry >= MaxRetry \/ (status < 0 /\ errno \in {"EIO", "other"}))
  \/ pc \in {"leave", "drain", "handler"}

\* The steps a cancelled thread has before it: one for each packet queued, and
\* at most three to reach the cleanup handler, or the drain on the way out, and
\* leave it.
CancelWeight(p) ==
  CASE p = "done" -> 0 [] p \in {"drain", "handler"} -> 1 [] p = "handle" -> 3
    [] OTHER -> 2

StepsOnceCancelled == Len(rxq) + CancelWeight(pc)

\* The most steps a thread takes before its device is open again or it has
\* ended: every turn of the recovery costs it one retry.
ClosedWeight(p, left) ==
  CASE p = "done" -> 0 [] p \in {"drain", "handler"} -> 1 [] p = "leave" -> 2
    [] p = "handle" -> 3 + 3 * left
    [] p \in {"init", "reread"} -> 4 + 3 * left
    [] OTHER -> 5 + 3 * left

StepsOnceClosed == Len(rxq) + ClosedWeight(pc, MaxRetry - retry)

\* A thread that was cancelled, and one whose device is closed, has a step to
\* take until it has ended, and no more than a bounded number of them.
EndsInBounds ==
  /\ cancelReq /\ pc # "done" => CanEnd /\ StepsOnceCancelled \in 1 .. QueueCap + 3
  /\ ~devOpen /\ pc # "done" => CanEnd /\ StepsOnceClosed \in 1 .. QueueCap + 3 * MaxRetry + 5

\* Cancelling is final: from then on each step of the thread is one fewer before
\* its end, and no step of the responder adds one.
CancelRunsDown ==
  [][cancelReq => /\ cancelReq'
                  /\ StepsOnceCancelled' <= StepsOnceCancelled
                  /\ ReaderStep => StepsOnceCancelled' < StepsOnceCancelled]_vars

\* As long as the device stays closed, each step of the thread is one fewer.
ClosedRunsDown ==
  [][~devOpen /\ ~devOpen' => /\ StepsOnceClosed' <= StepsOnceClosed
                              /\ ReaderStep => StepsOnceClosed' < StepsOnceClosed]_vars

LEMMA AnsweredInvariant == Spec => []Answered
<1> USE ReaderAssumption DEF Answered
<1>1. Init => Answered
  BY DEF Init
<1>2. IInv /\ Answered /\ [Next]_vars => Answered'
  <2> SUFFICES ASSUME IInv, Answered, [Next]_vars PROVE Answered'
    OBVIOUS
  <2>1. CASE Read \/ Reread
    BY <2>1 DEF Read, Reread, ReadData, ReadNothing, ReadFails
  <2>2. CASE Skip \/ Recover
    BY <2>2 DEF IInv, TypeOK, Skip, Recover, MayRetry
  <2>3. CASE Deinit \/ Reinit \/ ReinitFails
    BY <2>3 DEF Deinit, Reinit, ReinitFails, readVars
  <2>4. CASE Cancelled \/ Leave \/ LeaveCancelled \/ DrainOne \/ DrainEnd \/ GiveUp
    BY <2>4 DEF Cancelled, Leave, LeaveCancelled, DrainOne, DrainEnd, DrainGoesOn,
       GiveUp, readVars
  <2>5. CASE Allocate \/ AllocateFails \/ SendPacket \/ SendFails
    BY <2>5 DEF Allocate, AllocateFails, SendPacket, SendFails, readVars
  <2>6. CASE TakePacket \/ TakeControlEvent \/ CancelThread \/ UNCHANGED vars
    BY <2>6 DEF TakePacket, TakeControlEvent, CancelThread, vars, readVars
  <2> QED
    BY <2>1, <2>2, <2>3, <2>4, <2>5, <2>6 DEF Next, ReaderStep
<1> QED
  BY <1>1, <1>2, Invariant, PTL DEF Spec

LEMMA CancelWeights ==
  /\ CancelWeight("done") = 0 /\ CancelWeight("drain") = 1 /\ CancelWeight("handle") = 3
  /\ CancelWeight("handler") = 1 /\ CancelWeight("leave") = 2
  /\ \A p : p \notin {"done", "drain", "handler", "handle"} => CancelWeight(p) = 2
BY DEF CancelWeight

LEMMA ClosedWeights ==
  ASSUME NEW left \in Nat
  PROVE  /\ ClosedWeight("done", left) = 0 /\ ClosedWeight("drain", left) = 1
         /\ ClosedWeight("handler", left) = 1 /\ ClosedWeight("leave", left) = 2
         /\ ClosedWeight("handle", left) = 3 + 3 * left
         /\ ClosedWeight("init", left) = 4 + 3 * left
         /\ ClosedWeight("reread", left) = 4 + 3 * left
         /\ ClosedWeight("deinit", left) = 5 + 3 * left
         /\ \A p : ClosedWeight(p, left) \in 0 .. 5 + 3 * left
         /\ \A p : p # "done" => ClosedWeight(p, left) \in 1 .. 5 + 3 * left
BY DEF ClosedWeight

LEMMA ReaderCounts ==
  ASSUME IInv
  PROVE  /\ Len(rxq) \in Nat /\ Len(rxq) <= QueueCap /\ QueueCap \in Nat
         /\ rxq # <<>> => Len(Tail(rxq)) = Len(rxq) - 1
         /\ retry \in 0 .. MaxRetry /\ MaxRetry \in Nat /\ MaxRetry - retry \in 0 .. MaxRetry
         /\ pc \in {"top", "read", "send", "handle", "deinit", "init", "reread",
                    "leave", "drain", "handler", "done"}
BY ReaderAssumption DEF IInv, TypeOK

\* A thread that was cancelled, or whose device is closed, is never stuck
\* before its end, and the steps before it are bounded by the size of the queue
\* and a constant, to which a closed device adds three for each retry.
THEOREM ReaderEndsInBounds == Spec => []EndsInBounds
<1>1. ASSUME IInv, Answered
      PROVE  EndsInBounds
  <2>1. status \in -1 .. 1 /\ errno \in Errno
    BY <1>1 DEF IInv, TypeOK
  <2>2. pc = "handle" => CanEnd
    BY <1>1, <2>1, ReaderCounts DEF Answered, CanEnd, MayRetry, Errno
  <2>3. cancelReq /\ pc # "done" => CanEnd
    BY <1>1, <2>2, ReaderCounts DEF CanEnd, AtCancellationPoint
  <2>4. ~devOpen /\ pc # "done" => CanEnd
    BY <1>1, <2>2, <2>3 DEF Answered, CanEnd
  <2>5. pc # "done" => StepsOnceCancelled \in 1 .. QueueCap + 3
    <3>1. pc # "done" => CancelWeight(pc) \in 1 .. 3
      BY <1>1, CancelWeights, ReaderCounts
    <3> QED
      BY <1>1, <3>1, ReaderCounts DEF StepsOnceCancelled
  <2>6. ~devOpen /\ pc # "done" => StepsOnceClosed \in 1 .. QueueCap + 3 * MaxRetry + 5
    <3> DEFINE left == MaxRetry - retry
    <3>1. left \in Nat /\ left <= MaxRetry /\ MaxRetry \in Nat
      BY <1>1, ReaderCounts
    <3>2. ~devOpen /\ pc # "done" => ClosedWeight(pc, left) \in 1 .. 5 + 3 * left
      <4> HIDE DEF left
      <4> QED
        BY <3>1, ClosedWeights
    <3> HIDE DEF left
    <3>3. StepsOnceClosed = Len(rxq) + ClosedWeight(pc, left)
      BY DEF StepsOnceClosed, left
    <3> QED
      BY <1>1, <3>1, <3>2, <3>3, ReaderCounts
  <2> QED
    BY <2>3, <2>4, <2>5, <2>6 DEF EndsInBounds
<1> QED
  BY <1>1, Invariant, AnsweredInvariant, PTL

\* Once the thread is cancelled it stays cancelled, each of its steps brings
\* its end nearer, and nothing the responder does puts it off.
THEOREM CancelledRunsDown == Spec => CancelRunsDown
<1>1. ASSUME IInv, [Next]_vars, cancelReq
      PROVE  /\ cancelReq'
             /\ StepsOnceCancelled' <= StepsOnceCancelled
             /\ ReaderStep => StepsOnceCancelled' < StepsOnceCancelled
  <2> DEFINE n == Len(rxq)
             w == CancelWeight(pc)
  <2>1. n \in Nat /\ w \in 0 .. 3 /\ (rxq # <<>> => Len(Tail(rxq)) = n - 1)
    BY <1>1, ReaderCounts, CancelWeights
  <2>2. CASE ReaderStep
    <3>1. CASE Cancelled
      <4>1. w = 2 /\ w' = 1 /\ n' = n /\ cancelReq'
        BY <1>1, <3>1, CancelWeights DEF Cancelled, AtCancellationPoint
      <4> QED
        BY <2>1, <4>1 DEF StepsOnceCancelled
    <3>2. CASE DrainOne
      <4>1. w' = w /\ n' = n - 1 /\ cancelReq'
        BY <1>1, <2>1, <3>2 DEF DrainOne, DrainGoesOn
      <4> QED
        BY <2>1, <4>1 DEF StepsOnceCancelled
    <3>3. CASE Leave \/ LeaveCancelled \/ DrainEnd
      <4>1. /\ n' = n /\ cancelReq'
            /\ \/ pc = "leave" /\ pc' = "drain"
               \/ pc \in {"drain", "handler"} /\ pc' = "done"
        BY <1>1, <3>3 DEF Leave, LeaveCancelled, DrainEnd, DrainGoesOn
      <4>2. w' = w - 1
        BY <4>1, CancelWeights
      <4> QED
        BY <2>1, <4>1, <4>2 DEF StepsOnceCancelled
    <3>4. CASE Skip \/ Recover \/ GiveUp
      <4>1. w = 3 /\ w' = 2 /\ n' = n /\ cancelReq'
        BY <1>1, <3>4, CancelWeights DEF Skip, Recover, GiveUp, MayRetry
      <4> QED
        BY <2>1, <4>1 DEF StepsOnceCancelled
    <3>5. ~(\/ Allocate \/ AllocateFails \/ Read \/ SendPacket \/ SendFails \/ Deinit
            \/ Reinit \/ ReinitFails \/ Reread)
      BY <1>1 DEF Allocate, AllocateFails, Read, SendPacket, SendFails, Deinit, Reinit,
             ReinitFails, Reread
    <3> QED
      BY <2>2, <3>1, <3>2, <3>3, <3>4, <3>5 DEF ReaderStep
  <2>3. CASE TakePacket
    <3>1. w' = w /\ n' = n - 1 /\ cancelReq'
      BY <1>1, <2>1, <2>3 DEF TakePacket
    <3> QED
      BY <2>1, <3>1 DEF StepsOnceCancelled
  <2>4. CASE ~ReaderStep /\ (TakeControlEvent \/ CancelThread \/ UNCHANGED vars)
    <3>1. w' = w /\ n' = n /\ cancelReq'
      BY <1>1, <2>4 DEF TakeControlEvent, CancelThread, vars
    <3> QED
      BY <2>1, <2>4, <3>1 DEF StepsOnceCancelled
  <2> QED
    BY <1>1, <2>2, <2>3, <2>4 DEF Next
<1>2. IInv /\ [Next]_vars
        => [cancelReq => /\ cancelReq'
                         /\ StepsOnceCancelled' <= StepsOnceCancelled
                         /\ ReaderStep => StepsOnceCancelled' < StepsOnceCancelled]_vars
  BY <1>1
<1> QED
  BY <1>2, Invariant, PTL DEF Spec, CancelRunsDown

\* While the device is closed each step of the thread costs it a part of its
\* retries or brings it nearer to its end.
THEOREM ClosedIsRunDown == Spec => ClosedRunsDown
<1>1. ASSUME IInv, Answered, [Next]_vars, ~devOpen, ~devOpen'
      PROVE  /\ StepsOnceClosed' <= StepsOnceClosed
             /\ ReaderStep => StepsOnceClosed' < StepsOnceClosed
  <2> DEFINE n == Len(rxq)
             r == MaxRetry - retry
             w == ClosedWeight(pc, MaxRetry - retry)
             same == retry' = retry
  <2>1. n \in Nat /\ r \in Nat /\ w \in 0 .. 5 + 3 * r
        /\ (rxq # <<>> => Len(Tail(rxq)) = n - 1)
    <3>1. n \in Nat /\ MaxRetry - retry \in Nat
          /\ (rxq # <<>> => Len(Tail(rxq)) = n - 1)
      BY <1>1, ReaderCounts
    <3>2. w \in 0 .. 5 + 3 * r
      <4> HIDE DEF r
      <4>1. r \in Nat /\ w = ClosedWeight(pc, r)
        BY <3>1 DEF r
      <4> HIDE DEF w
      <4> QED
        BY <4>1, ClosedWeights
    <3> QED
      BY <3>1, <3>2
  <2>2. StepsOnceClosed = n + w /\ StepsOnceClosed' = n' + w'
    BY DEF StepsOnceClosed
  <2>3. /\ pc \in {"drain", "handler"} => w = 1
        /\ pc = "leave" => w = 2
        /\ pc = "handle" => w = 3 + 3 * r
        /\ pc \in {"init", "reread"} => w = 4 + 3 * r
        /\ pc = "deinit" => w = 5 + 3 * r
        /\ pc \in {"handle", "init", "reread", "deinit", "leave"} => w >= 2
    <3>1. w = ClosedWeight(pc, r) /\ r \in Nat
      BY <2>1
    <3> HIDE DEF r, w
    <3>2. /\ pc = "drain" => w = 1
          /\ pc = "handler" => w = 1
          /\ pc = "leave" => w = 2
          /\ pc = "handle" => w = 3 + 3 * r
          /\ pc = "init" => w = 4 + 3 * r
          /\ pc = "reread" => w = 4 + 3 * r
          /\ pc = "deinit" => w = 5 + 3 * r
      BY <3>1, ClosedWeights
    <3> QED
      BY <3>1, <3>2
  <2>4. ASSUME retry' = retry
        PROVE  /\ w' = ClosedWeight(pc', r)
               /\ pc' = "done" => w' = 0
               /\ pc' \in {"drain", "handler"} => w' = 1
               /\ pc' = "leave" => w' = 2
               /\ pc' = "handle" => w' = 3 + 3 * r
               /\ pc' = "init" => w' = 4 + 3 * r
    <3>1. w' = ClosedWeight(pc', r)
      BY <2>4
    <3> QED
      BY <2>1, <3>1, ClosedWeights
  <2>5. CASE ReaderStep
    <3>1. CASE Leave \/ LeaveCancelled \/ DrainEnd
      <4>1. w' = w - 1 /\ n' = n
        BY <2>3, <2>4, <3>1 DEF Leave, LeaveCancelled, DrainEnd, DrainGoesOn, readVars
      <4> QED
        BY <2>1, <2>2, <4>1
    <3>2. CASE DrainOne
      <4>1. w' = w /\ n' = n - 1
        BY <1>1, <2>1, <3>2 DEF DrainOne, DrainGoesOn, readVars
      <4> QED
        BY <2>1, <2>2, <4>1
    <3>3. CASE Cancelled \/ GiveUp
      <4>1. w' < w /\ n' = n /\ w' \in Nat
        BY <1>1, <2>1, <2>3, <2>4, <3>3
           DEF Cancelled, AtCancellationPoint, GiveUp, readVars, Answered
      <4> QED
        BY <2>1, <2>2, <4>1
    <3>4. CASE Skip \/ Recover
      <4>1. pc = "handle" /\ retry' = retry + 1 /\ pc' \in {"reread", "deinit"} /\ n' = n
            /\ retry < MaxRetry
        BY <3>4 DEF Skip, Recover, MayRetry
      <4>2. r' = r - 1 /\ r - 1 \in Nat
        BY <1>1, <2>1, <4>1, ReaderCounts
      <4>3. w' < w /\ w' \in Nat
        <5>1. w = 3 + 3 * r
          BY <2>1, <4>1, ClosedWeights
        <5>2. w' = ClosedWeight(pc', r - 1)
          BY <4>2
        <5>3. w' \in {4 + 3 * (r - 1), 5 + 3 * (r - 1)}
          <6> HIDE DEF r
          <6> QED
            BY <4>1, <4>2, <5>2, ClosedWeights
        <5> QED
          BY <2>1, <5>1, <5>3
      <4> QED
        BY <2>1, <2>2, <4>1, <4>3
    <3>5. CASE Deinit \/ ReinitFails
      <4>1. w' = w - 1 /\ n' = n
        BY <2>1, <2>3, <2>4, <3>5 DEF Deinit, ReinitFails, readVars
      <4> QED
        BY <2>1, <2>2, <4>1
    <3>6. CASE Reread
      <4>1. w' = w - 1 /\ n' = n
        BY <1>1, <2>1, <2>3, <2>4, <3>6 DEF Reread, ReadData, ReadNothing, ReadFails
      <4> QED
        BY <2>1, <2>2, <4>1
    <3>7. ~(Allocate \/ AllocateFails \/ Read \/ SendPacket \/ SendFails \/ Reinit)
      BY <1>1 DEF Answered, Allocate, AllocateFails, Read, SendPacket, SendFails, Reinit
    <3> HIDE DEF n, r, w
    <3> QED
      BY <2>5, <3>1, <3>2, <3>3, <3>4, <3>5, <3>6, <3>7 DEF ReaderStep
  <2>6. CASE TakePacket
    <3>1. w' = w /\ n' = n - 1
      BY <1>1, <2>1, <2>6 DEF TakePacket, readVars
    <3> QED
      BY <2>1, <2>2, <3>1, <2>5
  <2>7. CASE TakeControlEvent \/ CancelThread \/ UNCHANGED vars
    <3>1. w' = w /\ n' = n
      BY <1>1, <2>7 DEF TakeControlEvent, CancelThread, vars, readVars
    <3> QED
      BY <2>1, <2>2, <3>1, <2>5
  <2> QED
    BY <1>1, <2>5, <2>6, <2>7 DEF Next
<1>2. IInv /\ Answered /\ [Next]_vars
        => [~devOpen /\ ~devOpen' => /\ StepsOnceClosed' <= StepsOnceClosed
                                     /\ ReaderStep => StepsOnceClosed' < StepsOnceClosed]_vars
  BY <1>1
<1> QED
  BY <1>2, Invariant, AnsweredInvariant, PTL DEF Spec, ClosedRunsDown
=============================================================================
