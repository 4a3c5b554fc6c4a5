----------------------------- MODULE PartsProofs -----------------------------
(***************************************************************************)
(* The parts that share no state, for every value of their constants: the  *)
(* two devices and the locks of the EtherCAT layer, the message queues and *)
(* the settings of the MTP responder, the subtraction of times, the camera *)
(* demo, the option parser and the integer overflow macros.                *)
(***************************************************************************)
EXTENDS EcCdev, MtpMq, EcLocks, Timespec, LibcameraDemo, Argp, VConf, IntProps,
        FiniteSetTheorems, SequenceTheorems, WellFoundedInduction, NaturalsInduction, TLAPS

-----------------------------------------------------------------------------
(* The character device: the reservation of the master follows one open    *)
(* file; and the network device, which is open or not.                     *)

Requested(f) == f \in Opened /\ ctx[priv[f]].requested

\* No two files share a context, and files are opened only while the device is
\* registered.
Contexts ==
  /\ \A f, g \in Opened : priv[f] = priv[g] => f = g
  /\ registered => master
  /\ ~master /\ ~orphaned => Opened = {}

\* The reservation and the files that requested it.
Holder ==
  master /\ ~orphaned =>
    /\ reserved <=> \E f \in File : Requested(f)
    /\ \A f, g \in File : Requested(f) /\ Requested(g) => f = g

\* The socket at each point of ether_device_open.
Sockets ==
  /\ at \in {"index", "flags", "broadcast", "bind", "open"} =>
       sock = opens /\ sock \in live
  /\ at = "socket" => opens > 0 /\ opens \notin live
  /\ at = "open" => link = 1 /\ (sock \in attached <=> bindRet # EPERM)
  /\ at \in {"closed", "socket", "open"} => live = succeeded
  /\ at \in {"index", "flags", "broadcast", "bind"} =>
       opens \notin succeeded \cup attached /\ live = succeeded \cup {opens}

\* The network device does not touch the files, nor they the device, so each has
\* an invariant of its own.
FilesTyped ==
  /\ registered \in BOOLEAN /\ master \in BOOLEAN /\ reserved \in BOOLEAN
  /\ priv \in [File -> Block \cup {Null}]
  /\ ctx \in [Block -> [writable : BOOLEAN, requested : BOOLEAN]]
  /\ used = {priv[f] : f \in Opened}
  /\ orphaned \in BOOLEAN

EtherTyped ==
  /\ at \in {"closed", "socket", "index", "flags", "broadcast", "bind", "open"}
  /\ sock \in 0 .. opens /\ opens \in 0 .. MaxOpen
  /\ live \subseteq 1 .. opens
  /\ ifr \subseteq {"broadcast"} /\ flags \subseteq {"broadcast"}
  /\ opened \in {0, Error} /\ link \in {0, 1}
  /\ attached \subseteq live /\ bindRet \in {0, EPERM, Error}
  /\ succeeded \subseteq 1 .. opens

Files == FilesTyped /\ Contexts /\ Holder
Ether == EtherTyped /\ Sockets

CdIInv == Files /\ Ether

-----------------------------------------------------------------------------
LEMMA CdInitially == Init => CdIInv
<1> SUFFICES ASSUME Init PROVE CdIInv
  OBVIOUS
<1> USE CdevAssumption, EtherAssumption DEF Init, EtherInit
<1>1. Opened = {}
  BY DEF Opened
<1>2. FilesTyped
  <2>1. ctx \in [Block -> [writable : BOOLEAN, requested : BOOLEAN]]
    BY Zenon
  <2>2. registered \in BOOLEAN /\ master \in BOOLEAN /\ reserved \in BOOLEAN
        /\ orphaned \in BOOLEAN
    BY Zenon
  <2>3. priv \in [File -> Block \cup {Null}] /\ used = {priv[f] : f \in Opened}
    BY <1>1
  <2> QED
    BY <2>1, <2>2, <2>3 DEF FilesTyped
<1>5. EtherTyped
  BY DEF EtherTyped
<1>3. Contexts /\ Sockets
  BY <1>1 DEF Contexts, Sockets
<1>4. Holder
  BY DEF Holder
<1> QED
  BY <1>2, <1>3, <1>4, <1>5 DEF CdIInv, Files, Ether

LEMMA FilesFrame == ASSUME Files, UNCHANGED cdevVars PROVE Files'
BY DEF cdevVars, Files, FilesTyped, Contexts, Holder, Requested, Opened

LEMMA EtherFrame == ASSUME Ether, UNCHANGED etherVars PROVE Ether'
BY DEF etherVars, bindVars, Ether, EtherTyped, Sockets

-----------------------------------------------------------------------------
(* The network device.                                                     *)

LEMMA CallOpenKeeps == ASSUME Ether, CallOpen PROVE Ether'
BY EtherAssumption DEF CallOpen, bindVars, Ether, EtherTyped, Sockets

LEMMA DeviceKeeps == ASSUME Ether, OpenStep \/ Stop PROVE Ether'
<1> USE EtherAssumption DEF Ether, EtherTyped, Sockets, Error, EPERM, bindVars
<1>1. CASE Socket
  BY <1>1 DEF Socket
<1>2. CASE SocketFails
  BY <1>2 DEF SocketFails
<1>3. CASE GetIndex
  BY <1>3 DEF GetIndex
<1>4. CASE GetFlags
  BY <1>4 DEF GetFlags
<1>5. CASE GetFlagsAgain
  BY <1>5 DEF GetFlagsAgain
<1>6. CASE Bind
  <2>1. PICK r \in {0, EPERM, Error} : BindFails(r) \/ BindGoesOn(r)
    BY <1>6 DEF Bind
  <2>2. CASE BindFails(r)
    BY <2>1, <2>2 DEF BindFails
  <2>3. CASE BindGoesOn(r)
    BY <2>1, <2>3 DEF BindGoesOn
  <2> QED
    BY <2>1, <2>2, <2>3
<1>7. CASE Stop
  BY <1>7 DEF Stop
<1> QED
  BY <1>1, <1>2, <1>3, <1>4, <1>5, <1>6, <1>7 DEF OpenStep

-----------------------------------------------------------------------------
(* The files.                                                              *)

LEMMA InitClearKeeps ==
  ASSUME Files, CdevInit \/ CdevClear
  PROVE  Files'
<1> USE DEF Files, FilesTyped
<1>1. Opened' = Opened /\ (\A f \in File : Requested(f)' <=> Requested(f))
  BY DEF CdevInit, CdevClear, Opened, Requested
<1>2. CASE CdevInit
  <2>1. Contexts'
    BY <1>1, <1>2 DEF CdevInit, Contexts
  <2>2. Holder'
    BY <1>1, <1>2 DEF CdevInit, Contexts, Holder, Requested
  <2> QED
    BY <1>1, <1>2, <2>1, <2>2 DEF CdevInit
<1>3. CASE CdevClear
  <2>1. orphaned' = (orphaned \/ Opened # {}) /\ ~master' /\ ~registered'
        /\ registered' \in BOOLEAN /\ master' \in BOOLEAN
        /\ UNCHANGED <<reserved, priv, used, ctx>>
    BY <1>3 DEF CdevClear
  <2>2. orphaned' \in BOOLEAN /\ (Opened # {} => orphaned')
    BY <2>1, Zenon
  <2>3. FilesTyped'
    BY <1>1, <2>1, <2>2
  <2>4. Contexts' /\ Holder'
    BY <1>1, <2>1, <2>2 DEF Contexts, Holder
  <2> QED
    BY <2>3, <2>4
<1> QED
  BY <1>2, <1>3

LEMMA OpenKeeps ==
  ASSUME Files, NEW f \in File, Open(f)
  PROVE  Files'
<1> USE CdevAssumption DEF Files, FilesTyped
<1>1. PICK b \in Block \ used, w \in BOOLEAN :
        /\ used' = used \cup {b}
        /\ ctx' = [ctx EXCEPT ![b] = [writable |-> w, requested |-> FALSE]]
        /\ priv' = [priv EXCEPT ![f] = b]
  BY DEF Open
<1>2. /\ registered /\ priv[f] = Null
      /\ UNCHANGED <<registered, master, reserved, orphaned>>
  BY DEF Open
<1>3. Opened' = Opened \cup {f} /\ f \notin Opened
  BY <1>1, <1>2 DEF Opened
<1>4. \A g \in Opened : priv'[g] = priv[g] /\ priv[g] # b /\ priv[g] \in Block
  BY <1>1, <1>3 DEF Opened
<1>5. \A g \in File : Requested(g)' <=> Requested(g)
  BY <1>1, <1>3, <1>4 DEF Requested
<1>6. FilesTyped'
  <2>1. used' = {priv'[g] : g \in Opened'}
    BY <1>1, <1>3, <1>4
  <2> QED
    BY <1>1, <1>2, <2>1
<1>7. Contexts'
  BY <1>1, <1>2, <1>3, <1>4 DEF Contexts
<1>8. Holder'
  BY <1>2, <1>5 DEF Holder
<1> QED
  BY <1>6, <1>7, <1>8

LEMMA IoctlKeeps ==
  ASSUME Files, NEW f \in File, Ioctl(f)
  PROVE  Files'
<1> USE CdevAssumption DEF Files, FilesTyped
<1>1. /\ f \in Opened /\ priv[f] \in Block /\ master /\ ~reserved /\ reserved'
      /\ ctx' = [ctx EXCEPT ![priv[f]].requested = TRUE]
      /\ UNCHANGED <<registered, master, priv, used, orphaned>>
  BY DEF Ioctl, Opened
<1>2. Opened' = Opened
  BY <1>1 DEF Opened
<1>3. \A g \in File : Requested(g)' <=> (g = f \/ Requested(g))
  BY <1>1, <1>2 DEF Requested, Contexts, Opened
<1>4. FilesTyped' /\ Contexts'
  <2>1. [ctx[priv[f]] EXCEPT !.requested = TRUE]
           \in [writable : BOOLEAN, requested : BOOLEAN]
    BY <1>1, Zenon
  <2>2. ctx' \in [Block -> [writable : BOOLEAN, requested : BOOLEAN]]
    BY <1>1, <2>1, Zenon
  <2> QED
    BY <1>1, <1>2, <2>2 DEF Contexts
<1>5. Holder'
  BY <1>1, <1>3 DEF Holder
<1> QED
  BY <1>4, <1>5

LEMMA CloseKeeps ==
  ASSUME Files, NEW f \in File, Close(f)
  PROVE  Files'
<1> USE CdevAssumption DEF Files, FilesTyped
<1>1. /\ f \in Opened
      /\ reserved' = (reserved /\ ~ctx[priv[f]].requested)
      /\ used' = used \ {priv[f]}
      /\ priv' = [priv EXCEPT ![f] = Null]
      /\ UNCHANGED <<registered, master, ctx, orphaned>>
  BY DEF Close, Opened
<1>2. Opened' = Opened \ {f} /\ \A g \in Opened' : priv'[g] = priv[g]
  BY <1>1 DEF Opened
<1>3. \A g \in File : Requested(g)' <=> (g # f /\ Requested(g))
  BY <1>1, <1>2 DEF Requested
<1>4. FilesTyped'
  <2>1. used' = {priv'[g] : g \in Opened'}
    BY <1>1, <1>2 DEF Contexts
  <2>2. reserved' \in BOOLEAN
    BY <1>1
  <2> QED
    BY <1>1, <2>1, <2>2
<1>5. Contexts'
  BY <1>1, <1>2 DEF Contexts
<1>6. Holder'
  <2>1. ctx[priv[f]].requested <=> Requested(f)
    BY <1>1 DEF Requested
  <2> QED
    BY <1>1, <1>3, <2>1 DEF Holder
<1> QED
  BY <1>4, <1>5, <1>6

-----------------------------------------------------------------------------
LEMMA CdStepKeeps ==
  ASSUME CdIInv, [Next]_vars
  PROVE  CdIInv'
<1>1. Files /\ Ether
  BY DEF CdIInv
<1>2. CASE CdevInit
  BY <1>1, <1>2, InitClearKeeps, CallOpenKeeps DEF CdIInv, CdevInit
<1>3. CASE CdevClear
  BY <1>1, <1>3, InitClearKeeps, EtherFrame DEF CdIInv, CdevClear
<1>4. CASE Reopen
  BY <1>1, <1>4, FilesFrame, CallOpenKeeps DEF CdIInv, Reopen
<1>5. CASE Device
  BY <1>1, <1>5, FilesFrame, DeviceKeeps DEF CdIInv, Device
<1>6. ASSUME NEW f \in File, Open(f) \/ Ioctl(f) \/ Close(f)
      PROVE  CdIInv'
  <2>1. UNCHANGED etherVars
    BY <1>6 DEF Open, Ioctl, Close
  <2> QED
    BY <1>1, <1>6, <2>1, OpenKeeps, IoctlKeeps, CloseKeeps, EtherFrame DEF CdIInv
<1>7. CASE UNCHANGED vars
  BY <1>1, <1>7, FilesFrame, EtherFrame DEF CdIInv, vars
<1> QED
  BY <1>2, <1>3, <1>4, <1>5, <1>6, <1>7 DEF Next

LEMMA CdInvariant == Spec => []CdIInv
BY CdInitially, CdStepKeeps, PTL DEF Spec

\* Every context in use belongs to one open file, and the socket is one made by
\* an open so far.
THEOREM CdTypeCorrect == Spec => []TypeOK
<1>1. CdIInv => TypeOK
  BY DEF CdIInv, Files, Ether, FilesTyped, EtherTyped, TypeOK
<1> QED
  BY <1>1, CdInvariant, PTL

LEMMA HolderCounts == CdIInv => OneHolder
<1> SUFFICES ASSUME CdIInv, master, ~orphaned
             PROVE  Cardinality({f \in Opened : ctx[priv[f]].requested})
                      = IF reserved THEN 1 ELSE 0
  BY DEF OneHolder
<1> DEFINE R == {f \in Opened : ctx[priv[f]].requested}
<1>1. \A f \in File : f \in R <=> Requested(f)
  BY DEF Requested
<1>2. R \subseteq File
  BY DEF Opened
<1>3. CASE reserved
  <2>1. PICK f \in File : Requested(f)
    BY <1>3 DEF CdIInv, Files, Holder
  <2>2. R = {f}
    BY <1>1, <1>2, <2>1 DEF CdIInv, Files, Holder
  <2> QED
    BY <1>3, <2>2, FS_Singleton
<1>4. CASE ~reserved
  <2>1. R = {}
    BY <1>1, <1>2, <1>4 DEF CdIInv, Files, Holder
  <2> QED
    BY <1>4, <2>1, FS_EmptySet
<1> QED
  BY <1>3, <1>4

\* Unless the device is cleared under open files, exactly one open file holds
\* the reservation while there is one, whatever files were opened and closed
\* and whatever memory their contexts share with earlier ones.
THEOREM OneHolderOnly == Spec => []OneHolder
BY CdInvariant, HolderCounts, PTL

\* An open network device has the socket of its latest open, bound unless
\* psock_bind failed with -EPERM, and a link; the sockets that exist are those of
\* the opens that succeeded, so a failed one leaves none and a stop leaves one.
THEOREM AllOrNothing == Spec => []OpenAllOrNothing
<1>1. CdIInv => OpenAllOrNothing
  BY DEF CdIInv, Ether, Sockets, OpenAllOrNothing
<1> QED
  BY <1>1, CdInvariant, PTL

-----------------------------------------------------------------------------
(* The message queues, where destroying an existing queue does not fail.   *)

NoId == {0, -1}

\* Where the responder holds no queue, and where both.
HoldsNone == mine = {} /\ rx \in NoId /\ tx \in NoId
HoldsBoth == rx \in MsgqId /\ tx \in MsgqId /\ rx # tx /\ mine = {rx, tx}
HoldsTx == rx \in NoId /\ tx \in MsgqId /\ mine = {tx}

\* What each place of the routines owns: an identifier is in a variable
\* exactly as long as its queue exists, so no old one is ever destroyed.
Holds ==
  /\ mqAt \in {"closed", "init_failed", "init_rx"} => HoldsNone
  /\ mqAt = "init_tx" => rx \in MsgqId /\ tx \in NoId /\ mine = {rx}
  /\ mqAt = "open" => HoldsBoth
  /\ mqAt = "deinit_rx" => HoldsBoth \/ HoldsNone
  /\ mqAt = "deinit_tx" => HoldsTx \/ HoldsNone

MqIInv == MqTypeOK /\ Holds /\ ~mqStolen

\* The type of the queues' state holds and is preserved, failures included
\* (ffs_transport_mq_init, ffs_transport_mq_deinit).
LEMMA MqTypeStep ==
  ASSUME MqTypeOK, [MqNext]_mqVars
  PROVE  MqTypeOK'
<1> USE MqAssumption DEF MqTypeOK
<1>1. CASE CallInit
  BY <1>1 DEF CallInit
<1>2. CASE InitRx
  BY <1>2 DEF InitRx, FreeId
<1>3. CASE InitRxFails
  BY <1>3 DEF InitRxFails
<1>4. CASE InitTx
  BY <1>4 DEF InitTx, FreeId
<1>5. CASE InitTxFails
  BY <1>5 DEF InitTxFails
<1>6. CASE CallDeinit
  BY <1>6 DEF CallDeinit
<1>7. CASE DeinitRx
  BY <1>7 DEF DeinitRx, Destroyed, NotDestroyed
<1>8. CASE DeinitTx
  BY <1>8 DEF DeinitTx, Destroyed, NotDestroyed
<1>9. CASE OtherCreates
  BY <1>9 DEF OtherCreates, FreeId
<1>10. CASE OtherDestroys
  BY <1>10 DEF OtherDestroys
<1>11. CASE UNCHANGED mqVars
  BY <1>11 DEF mqVars
<1> QED
  BY <1>1, <1>2, <1>3, <1>4, <1>5, <1>6, <1>7, <1>8, <1>9, <1>10, <1>11 DEF MqNext

LEMMA MqHoldsStep ==
  ASSUME ~DeinitFails, MqIInv, [MqNext]_mqVars
  PROVE  Holds' /\ ~mqStolen'
<1> USE MqAssumption DEF MqIInv, MqTypeOK, Holds, HoldsNone, HoldsBoth, HoldsTx, NoId
<1>1. CASE CallInit
  BY <1>1 DEF CallInit
<1>2. CASE InitRx
  BY <1>2 DEF InitRx, FreeId
<1>3. CASE InitRxFails
  BY <1>3 DEF InitRxFails
<1>4. CASE InitTx
  BY <1>4 DEF InitTx, FreeId
<1>5. CASE InitTxFails
  BY <1>5 DEF InitTxFails
<1>6. CASE CallDeinit
  BY <1>6 DEF CallDeinit
<1>7. CASE DeinitRx
  <2>1. CASE HoldsBoth
    BY <1>7, <2>1 DEF DeinitRx, Destroyed, NotDestroyed
  <2>2. CASE HoldsNone
    BY <1>7, <2>2 DEF DeinitRx, Destroyed, NotDestroyed
  <2> QED
    BY <1>7, <2>1, <2>2 DEF DeinitRx
<1>8. CASE DeinitTx
  <2>1. CASE HoldsTx
    BY <1>8, <2>1 DEF DeinitTx, Destroyed, NotDestroyed
  <2>2. CASE HoldsNone
    BY <1>8, <2>2 DEF DeinitTx, Destroyed, NotDestroyed
  <2> QED
    BY <1>8, <2>1, <2>2 DEF DeinitTx
<1>9. CASE OtherCreates
  BY <1>9 DEF OtherCreates, FreeId
<1>10. CASE OtherDestroys
  BY <1>10 DEF OtherDestroys
<1>11. CASE UNCHANGED mqVars
  BY <1>11 DEF mqVars
<1> QED
  BY <1>1, <1>2, <1>3, <1>4, <1>5, <1>6, <1>7, <1>8, <1>9, <1>10, <1>11 DEF MqNext

\* Whatever fails except the destruction of an existing queue, and whatever
\* other programs do, no queue of the responder is left over and none of
\* another program is destroyed.
THEOREM QueuesStayOwned == ~DeinitFails => (MqSpec => []QueuesOwned)
<1> SUFFICES ASSUME ~DeinitFails PROVE MqSpec => []QueuesOwned
  OBVIOUS
<1>1. MqInit => MqIInv
  BY DEF MqInit, MqIInv, MqTypeOK, Holds, HoldsNone, NoId
<1>2. MqIInv /\ [MqNext]_mqVars => MqIInv'
  BY MqTypeStep, MqHoldsStep DEF MqIInv
<1>3. MqIInv => QueuesOwned
  BY MqAssumption DEF MqIInv, Holds, HoldsNone, HoldsBoth, QueuesOwned
<1> QED
  BY <1>1, <1>2, <1>3, PTL DEF MqSpec

-----------------------------------------------------------------------------
(* The locks.                                                              *)

\* The unit, the tasks inside and the signals that let one in add up.
LkCounted ==
  lkCount + Cardinality(Inside) = 1 + (IF lkKind = "down" THEN lkSignals ELSE 0)

LkIInv == LkTypeOK /\ LkCounted

LEMMA InsideFinite == IsFiniteSet(Inside) /\ Cardinality(Inside) \in Nat
<1>1. Inside \subseteq Task
  BY DEF Inside
<1>2. IsFiniteSet(Inside)
  BY <1>1, FS_Subset, LocksAssumption
<1> QED
  BY <1>2, FS_CardinalityType

\* A task enters, leaves or does neither.
LEMMA Enters ==
  ASSUME LkTypeOK, NEW t \in Task, lkAt[t] # "in", Move(t, "in")
  PROVE  Cardinality(Inside)' = Cardinality(Inside) + 1
<1>1. Inside' = Inside \cup {t}
  BY DEF Inside, Move, LkTypeOK
<1>2. t \notin Inside
  BY DEF Inside
<1> QED
  BY <1>1, <1>2, InsideFinite, FS_AddElement

LEMMA Leaves ==
  ASSUME LkTypeOK, NEW t \in Task, lkAt[t] = "in", Move(t, "out")
  PROVE  Cardinality(Inside)' = Cardinality(Inside) - 1
<1>1. Inside' = Inside \ {t}
  BY DEF Inside, Move, LkTypeOK
<1>2. t \in Inside
  BY DEF Inside
<1> QED
  BY <1>1, <1>2, InsideFinite, FS_RemoveElement

LEMMA Stays ==
  ASSUME LkTypeOK, NEW t \in Task, lkAt[t] # "in", NEW place, place # "in",
         Move(t, place)
  PROVE  Cardinality(Inside)' = Cardinality(Inside)
<1>1. Inside' = Inside
  BY DEF Inside, Move, LkTypeOK
<1> QED
  BY <1>1

LEMMA LkTypeStep ==
  ASSUME LkTypeOK, [LkNext]_lkVars
  PROVE  LkTypeOK'
<1> USE LocksAssumption DEF LkTypeOK, Move
<1>1. ASSUME NEW t \in Task, LkCall(t) PROVE LkTypeOK'
  BY <1>1 DEF LkCall
<1>2. ASSUME NEW t \in Task, LkTake(t) PROVE LkTypeOK'
  BY <1>2 DEF LkTake
<1>3. ASSUME NEW t \in Task, LkSignal(t) PROVE LkTypeOK'
  BY <1>3 DEF LkSignal, Kinds
<1>4. ASSUME NEW t \in Task, LkLeave(t) PROVE LkTypeOK'
  BY <1>4 DEF LkLeave
<1>5. CASE UNCHANGED lkVars
  BY <1>5 DEF lkVars
<1> QED
  BY <1>1, <1>2, <1>3, <1>4, <1>5 DEF LkNext

LEMMA LkCountedStep ==
  ASSUME LkIInv, [LkNext]_lkVars
  PROVE  LkCounted'
<1> USE DEF LkIInv
<1> DEFINE n == Cardinality(Inside)
<1>0. n \in Nat /\ lkCount \in Nat /\ lkSignals \in Nat /\ LkTypeOK
  BY InsideFinite, LocksAssumption DEF LkTypeOK
<1>1. ASSUME NEW t \in Task, LkCall(t) PROVE LkCounted'
  <2>1. n' = n
    BY <1>1, <1>0, Stays DEF LkCall
  <2> HIDE DEF n
  <2> QED
    BY <1>1, <2>1 DEF LkCall, LkCounted, n
<1>2. ASSUME NEW t \in Task, LkTake(t) PROVE LkCounted'
  <2>1. n' = n + 1
    BY <1>2, <1>0, Enters DEF LkTake
  <2> QED
    BY <1>2, <1>0, <2>1 DEF LkTake, LkCounted
<1>3. ASSUME NEW t \in Task, LkSignal(t) PROVE LkCounted'
  <2>1. CASE lkKind = "down"
    <3>1. Move(t, "in")
      BY <1>3, <2>1 DEF LkSignal
    <3>2. n' = n + 1
      BY <1>3, <1>0, <3>1, Enters DEF LkSignal
    <3> QED
      BY <1>3, <1>0, <2>1, <3>2 DEF LkSignal, LkCounted
  <2>2. CASE lkKind # "down"
    <3>1. n' = n
      <4>1. CASE Move(t, "failed")
        BY <1>3, <1>0, <4>1, Stays DEF LkSignal
      <4>2. CASE UNCHANGED lkAt
        BY <4>2 DEF Inside
      <4> QED
        BY <1>3, <2>2, <4>1, <4>2 DEF LkSignal
    <3> QED
      BY <1>3, <1>0, <2>2, <3>1 DEF LkSignal, LkCounted
  <2> QED
    BY <2>1, <2>2
<1>4. ASSUME NEW t \in Task, LkLeave(t) PROVE LkCounted'
  <2>1. n' = n - 1
    BY <1>4, <1>0, Leaves DEF LkLeave
  <2> QED
    BY <1>4, <1>0, <2>1 DEF LkLeave, LkCounted
<1>5. CASE UNCHANGED lkVars
  BY <1>5 DEF lkVars, LkCounted, Inside
<1> QED
  BY <1>1, <1>2, <1>3, <1>4, <1>5 DEF LkNext

\* For any number of tasks and signals: at most one task is in a section
\* guarded by down_interruptible() or an rt_mutex, and at most one more for
\* every signal in a section guarded by down() (semaphore.h, rtmutex.h).
THEOREM InsideStaysBounded == LkSpec => []InsideBounded
<1>1. LkInit => LkIInv
  <2> SUFFICES ASSUME LkInit PROVE LkIInv
    OBVIOUS
  <2>1. LkTypeOK
    BY LocksAssumption DEF LkInit, LkTypeOK
  <2>2. Inside = {}
    BY DEF LkInit, Inside
  <2> QED
    BY <2>1, <2>2, FS_EmptySet DEF LkInit, LkIInv, LkCounted
<1>2. LkIInv /\ [LkNext]_lkVars => LkIInv'
  BY LkTypeStep, LkCountedStep DEF LkIInv
<1>3. LkIInv => InsideBounded
  BY InsideFinite, LocksAssumption DEF LkIInv, LkTypeOK, LkCounted, InsideBounded
<1> QED
  BY <1>1, <1>2, <1>3, PTL DEF LkSpec

-----------------------------------------------------------------------------
(* The subtraction of times.                                               *)

\* timespec_sub is the saturating difference, for every range of time_t,
\* signed or not, and every number of nanoseconds in a second.
LEMMA SubIsDifference ==
  ASSUME NEW signed \in BOOLEAN, NEW a \in timespec(signed), NEW b \in timespec(signed)
  PROVE  timespec_sub(signed, a, b) = Difference(signed, a, b)
<1> USE TimespecAssumption DEF timespec, time_t, TYPE_MINIMUM, WRAPV, Low, High
<1>1. CASE a.nsec >= b.nsec
  BY <1>1 DEF timespec_sub, Difference, Subtract
<1>2. CASE a.nsec < b.nsec /\ ~WRAPV(signed, b.sec + 1)
  BY <1>2 DEF timespec_sub, Difference, Subtract
<1>3. CASE a.nsec < b.nsec /\ WRAPV(signed, b.sec + 1)
  <2>1. b.sec = TimeMax
    BY <1>3
  <2> QED
    BY <1>3, <2>1 DEF timespec_sub, Difference, Subtract
<1> QED
  BY <1>1, <1>2, <1>3

\* Every call of timespec_sub returns the difference or the nearest time to it.
THEOREM SubStaysExact == TsSpec => []SubSaturates
<1> DEFINE TsIInv == tsSigned \in BOOLEAN /\ SubSaturates
<1>1. TsInit => TsIInv
  BY TimespecAssumption DEF TsInit, SubSaturates, Difference, TYPE_MINIMUM
<1>2. TsIInv /\ [TsCall]_tsVars => TsIInv'
  BY SubIsDifference DEF TsCall, tsVars, SubSaturates
<1> QED
  BY <1>1, <1>2, PTL DEF TsSpec

-----------------------------------------------------------------------------
(* The camera demo.                                                        *)

\* The camera may have requests only between the first one queued and the
\* return of camera->stop(), and the requests are destroyed on a return only.
CmIInv ==
  /\ cmFlight \in [Request -> {"out", "queued", "success", "bad", "cancelled"}]
  /\ cmMain \notin {"queue", "wait", "stop", "queue failed"} => InFlight = {}
  /\ cmFreed => cmMain \in {"failed", "queue failed", "ended"}

\* What main() does before it queues the first request.
LEMMA CmOrder ==
  ASSUME NEW i \in 1..(Len(SetUp) - 1)
  PROVE  SetUp[i] \in {"start manager", "get", "acquire", "streams", "generate", "configure",
                       "allocate", "create requests", "start"}
<1>1. Len(SetUp) = 10
  BY DEF SetUp
<1>2. i \in Int /\ 1 <= i /\ i <= 9
  BY <1>1
<1>3. i = 1 \/ i = 2 \/ i = 3 \/ i = 4 \/ i = 5 \/ i = 6 \/ i = 7 \/ i = 8 \/ i = 9
  BY <1>2
<1>4. /\ SetUp[1] = "start manager" /\ SetUp[2] = "get" /\ SetUp[3] = "acquire"
      /\ SetUp[4] = "streams" /\ SetUp[5] = "generate" /\ SetUp[6] = "configure"
      /\ SetUp[7] = "allocate" /\ SetUp[8] = "create requests" /\ SetUp[9] = "start"
  BY DEF SetUp
<1>5. QED
  BY <1>3, <1>4

\* Every step of main() and of the camera's thread keeps this.
LEMMA CmStep ==
  ASSUME CmIInv, [CmNext]_cmVars
  PROVE  CmIInv'
<1> USE DEF CmIInv, InFlight
<1>1. CASE CmSetUp
  <2>1. PICK i \in 1..(Len(SetUp) - 1) :
          /\ cmMain = SetUp[i]
          /\ (cmMain' = SetUp[i + 1] /\ UNCHANGED cmFreed) \/ Returns("failed")
    BY <1>1 DEF CmSetUp
  <2>2. cmMain \in {"start manager", "get", "acquire", "streams", "generate", "configure",
                    "allocate", "create requests", "start"}
    BY <2>1, CmOrder
  <2>3. ~cmFreed /\ InFlight = {}
    BY <2>2
  <2>4. cmFreed' => cmMain' = "failed"
    BY <2>1, <2>3 DEF Returns
  <2>5. cmFlight' = cmFlight
    BY <1>1 DEF CmSetUp
  <2>6. QED
    BY <2>3, <2>4, <2>5
<1>2. CASE CmQueue
  <2>1. ASSUME NEW r \in Request, cmFlight' = [cmFlight EXCEPT ![r] = "queued"],
               UNCHANGED <<cmMain, cmFreed>>
        PROVE  CmIInv'
    BY <1>2, <2>1 DEF CmQueue
  <2>2. CASE Returns("queue failed") /\ UNCHANGED cmFlight
    BY <2>2 DEF Returns
  <2>3. CASE cmMain' = "wait" /\ UNCHANGED <<cmFlight, cmFreed>>
    BY <1>2, <2>3 DEF CmQueue
  <2>4. QED
    BY <1>2, <2>1, <2>2, <2>3 DEF CmQueue
<1>3. CASE CmWait
  BY <1>3 DEF CmWait
<1>4. CASE CmStopped
  BY <1>4 DEF CmStopped
<1>5. CASE CmEnd
  BY <1>5 DEF CmEnd, Returns
<1>6. ASSUME NEW r \in Request, bufferComplete(r) PROVE CmIInv'
  BY <1>6 DEF bufferComplete
<1>7. ASSUME NEW r \in Request, requestComplete(r) PROVE CmIInv'
  BY <1>7 DEF requestComplete
<1>8. CASE UNCHANGED cmVars
  BY <1>8 DEF cmVars
<1>9. QED
  BY <1>1, <1>2, <1>3, <1>4, <1>5, <1>6, <1>7, <1>8 DEF CmNext

\* For any number of requests and frames: after main() has returned, but for the
\* one return that leaves the camera running, no request comes back
\* (libcamera/main.cpp, main and requestComplete).
THEOREM CameraReturnsFirst == CmSpec => []NothingFreedInFlight
<1>1. CmInit => CmIInv
  BY DEF CmInit, CmIInv, InFlight, SetUp
<1>2. CmIInv /\ [CmNext]_cmVars => CmIInv'
  BY CmStep
<1>3. CmIInv => NothingFreedInFlight
  BY DEF CmIInv, NothingFreedInFlight
<1>4. QED
  BY <1>1, <1>2, <1>3, PTL DEF CmSpec

\* What the camera's thread still owes for the requests it has: to give each back,
\* to complete the buffer of those it has not cancelled, and to queue again those
\* whose buffer is complete.
Flight == {"out", "queued", "success", "bad", "cancelled"}
RequestsIn(flight, state) == {r \in Request : flight[r] \in state}
Owed(flight) ==
  Cardinality(RequestsIn(flight, Flight \ {"out"}))
    + Cardinality(RequestsIn(flight, {"queued", "success", "bad"}))
    + Cardinality(RequestsIn(flight, {"success", "bad"}))

\* What one request adds to that.
Share(state) ==
  IF state = "out" THEN 0
  ELSE IF state = "cancelled" THEN 1
  ELSE IF state = "queued" THEN 2 ELSE 3

\* The steps the camera's thread has left before the last frame main() waits
\* for, or before camera->stop() returns.
CameraSteps == 2 * (Frames - cmFrames) + 2 * (BadFrames - cmBad) + Owed(cmFlight)

\* The requests the camera has are the ones main() has queued and the camera has
\* not lost.
CmAccount ==
  /\ cmFlight \in [Request -> Flight]
  /\ cmLost \subseteq cmGiven /\ cmGiven \subseteq Request
  /\ \A r \in Request : r \in InFlight <=> r \in cmGiven \ cmLost
  /\ cmMain \in {"wait", "stop", "release", "ended"} => cmGiven = Request
  /\ cmFrames \in 0..Frames /\ cmBad \in 0..BadFrames

\* main() waits for ever only when the camera has lost every request, and at
\* most so many steps of the camera's thread stand between it and the frames.
WaitIsBounded ==
  /\ cmMain = "wait" => cmFrames = Frames \/ InFlight # {} \/ cmLost = Request
  /\ CameraSteps \in 0..(2 * Frames + 2 * BadFrames + 3 * Cardinality(Request))

\* While frames are missing or main() is in camera->stop(), every step of the
\* camera's thread leaves it fewer, and no step of main() that queues no request
\* changes their number.
CameraRunsDown ==
  [][/\ \A r \in Request :
          (cmFrames < Frames \/ cmMain = "stop") /\ (bufferComplete(r) \/ requestComplete(r))
            => CameraSteps' < CameraSteps
     /\ CmSetUp \/ CmWait \/ CmStopped \/ CmEnd => CameraSteps' = CameraSteps]_cmVars

\* One when a state is among some states.
One(s, state) == IF s \in state THEN 1 ELSE 0

\* What is owed, when one request changes its state.
LEMMA OwedStep ==
  ASSUME NEW flight \in [Request -> Flight], NEW r \in Request, NEW s \in Flight
  PROVE  /\ Owed(flight) \in 0..(3 * Cardinality(Request))
         /\ Owed([flight EXCEPT ![r] = s]) = Owed(flight) - Share(flight[r]) + Share(s)
<1> DEFINE held == Flight \ {"out"}
           due == {"queued", "success", "bad"}
           good == {"success", "bad"}
           after == [flight EXCEPT ![r] = s]
           n(f, state) == Cardinality(RequestsIn(f, state))
<1>0. ASSUME NEW state
      PROVE  /\ n(flight, state) \in 0..Cardinality(Request)
             /\ n(after, state) = n(flight, state) - One(flight[r], state) + One(s, state)
  <2> DEFINE then == RequestsIn(flight, state)
             now == RequestsIn(after, state)
             rest == then \ {r}
  <2>1. IsFiniteSet(then) /\ Cardinality(then) \in 0..Cardinality(Request)
    <3>1. then \in SUBSET Request /\ IsFiniteSet(Request)
      BY CameraAssumption DEF RequestsIn
    <3>2. IsFiniteSet(then) /\ Cardinality(then) <= Cardinality(Request)
      BY <3>1, FS_Subset
    <3>3. QED
      BY <3>1, <3>2, FS_CardinalityType
  <2>2. (r \in then <=> flight[r] \in state) /\ (r \in now <=> s \in state)
    BY DEF RequestsIn, after
  <2>3. now = IF s \in state THEN rest \cup {r} ELSE rest
    BY DEF RequestsIn, after
  <2>4. IsFiniteSet(rest)
        /\ Cardinality(rest) = IF r \in then THEN Cardinality(then) - 1 ELSE Cardinality(then)
    BY <2>1, FS_RemoveElement
  <2>5. Cardinality(rest \cup {r}) = Cardinality(rest) + 1
    <3>1. r \notin rest
      OBVIOUS
    <3>2. QED
      BY <2>4, <3>1, FS_AddElement
  <2>6. Cardinality(then) \in Nat /\ Cardinality(rest) \in Nat
    BY <2>1, <2>4, FS_CardinalityType
  <2> HIDE DEF then, now, rest
  <2>7. Cardinality(now) = Cardinality(then) - One(flight[r], state) + One(s, state)
    BY <2>2, <2>3, <2>4, <2>5, <2>6 DEF One
  <2>8. QED
    BY <2>1, <2>7 DEF then, now
<1> HIDE DEF held, due, good, after, n
<1>1. n(flight, held) \in 0..Cardinality(Request)
      /\ n(after, held) = n(flight, held) - One(flight[r], held) + One(s, held)
  BY <1>0
<1>2. n(flight, due) \in 0..Cardinality(Request)
      /\ n(after, due) = n(flight, due) - One(flight[r], due) + One(s, due)
  BY <1>0
<1>3. n(flight, good) \in 0..Cardinality(Request)
      /\ n(after, good) = n(flight, good) - One(flight[r], good) + One(s, good)
  BY <1>0
<1>4. /\ Owed(flight) = n(flight, held) + n(flight, due) + n(flight, good)
      /\ Owed(after) = n(after, held) + n(after, due) + n(after, good)
  BY DEF Owed, held, due, good, n
<1>5. flight[r] \in Flight
  OBVIOUS
<1>6. Cardinality(Request) \in Nat
  BY CameraAssumption, FS_CardinalityType
<1>7. Owed(flight) \in 0..(3 * Cardinality(Request))
  BY <1>1, <1>2, <1>3, <1>4, <1>6
<1>8. Owed(after) = Owed(flight) - Share(flight[r]) + Share(s)
  BY <1>1, <1>2, <1>3, <1>4, <1>5, <1>6 DEF One, Share, Flight, held, due, good
<1>9. QED
  BY <1>7, <1>8 DEF after

\* bufferComplete counts the frame and changes one request.
LEMMA BufferCompleteStep ==
  ASSUME CmAccount, NEW r \in Request, bufferComplete(r)
  PROVE  CmAccount' /\ (cmFrames < Frames \/ cmMain = "stop" => CameraSteps' < CameraSteps)
<1>1. PICK s \in {"success", "bad", "cancelled"} :
        /\ cmFlight' = [cmFlight EXCEPT ![r] = s]
        /\ cmMain = "stop" => s = "cancelled"
        /\ s = "bad" => cmBad < BadFrames
        /\ cmBad' = cmBad + (IF s = "bad" THEN 1 ELSE 0)
        /\ cmFrames' = cmFrames + (IF s = "success" /\ cmFrames < Frames THEN 1 ELSE 0)
  BY DEF bufferComplete
<1>2. cmFlight \in [Request -> Flight] /\ s \in Flight /\ cmFlight[r] = "queued"
  BY DEF CmAccount, bufferComplete, Flight
<1>3. /\ Owed(cmFlight') = Owed(cmFlight) - Share("queued") + Share(s)
      /\ Owed(cmFlight) \in 0..(3 * Cardinality(Request))
  BY <1>1, <1>2, OwedStep
<1>4. /\ cmFrames \in Nat /\ cmBad \in Nat /\ Frames \in Nat /\ BadFrames \in Nat
      /\ cmFrames <= Frames /\ cmBad <= BadFrames /\ Cardinality(Request) \in Nat
  BY CameraAssumption, FS_CardinalityType DEF CmAccount
<1>5. cmFrames' \in 0..Frames /\ cmBad' \in 0..BadFrames
  BY <1>1, <1>4
<1>6. UNCHANGED <<cmMain, cmGiven, cmLost>>
  BY DEF bufferComplete
<1>7. cmFlight' \in [Request -> Flight] /\ InFlight' = InFlight
  BY <1>1, <1>2 DEF InFlight
<1>8. CmAccount'
  BY <1>5, <1>6, <1>7 DEF CmAccount
<1>9. ASSUME cmFrames < Frames \/ cmMain = "stop" PROVE CameraSteps' < CameraSteps
  <2>1. Owed(cmFlight) \in Int
    BY <1>3, <1>4
  <2>2. CASE s = "success"
    <3>1. cmFrames' = cmFrames + 1 /\ cmBad' = cmBad
      BY <1>1, <1>4, <1>9, <2>2
    <3>2. Owed(cmFlight') = Owed(cmFlight) + 1
      BY <1>3, <2>1, <2>2 DEF Share
    <3>3. QED
      BY <1>4, <2>1, <3>1, <3>2 DEF CameraSteps
  <2>3. CASE s = "bad"
    <3>1. cmFrames' = cmFrames /\ cmBad' = cmBad + 1
      BY <1>1, <1>4, <2>3
    <3>2. Owed(cmFlight') = Owed(cmFlight) + 1
      BY <1>3, <2>1, <2>3 DEF Share
    <3>3. QED
      BY <1>4, <2>1, <3>1, <3>2 DEF CameraSteps
  <2>4. CASE s = "cancelled"
    <3>1. cmFrames' = cmFrames /\ cmBad' = cmBad
      BY <1>1, <1>4, <2>4
    <3>2. Owed(cmFlight') = Owed(cmFlight) - 1
      BY <1>3, <2>1, <2>4 DEF Share
    <3>3. QED
      BY <1>4, <2>1, <3>1, <3>2 DEF CameraSteps
  <2>5. QED
    BY <2>2, <2>3, <2>4
<1>10. QED
  BY <1>8, <1>9

\* requestComplete queues one request again, or loses it.
LEMMA RequestCompleteStep ==
  ASSUME CmAccount, NEW r \in Request, requestComplete(r)
  PROVE  CmAccount' /\ CameraSteps' < CameraSteps
<1>1. /\ cmFlight[r] \in {"success", "bad", "cancelled"} /\ cmFlight \in [Request -> Flight]
      /\ UNCHANGED <<cmMain, cmGiven, cmFrames, cmBad>>
  BY DEF CmAccount, requestComplete, Flight
<1>2. /\ cmFrames \in Int /\ cmBad \in Int /\ Frames \in Int /\ BadFrames \in Int
      /\ Cardinality(Request) \in Nat
  BY CameraAssumption, FS_CardinalityType DEF CmAccount
<1>3. r \in cmGiven
  BY <1>1 DEF CmAccount, InFlight
<1>4. CASE /\ cmFlight[r] # "cancelled"
           /\ cmFlight' = [cmFlight EXCEPT ![r] = "queued"]
           /\ UNCHANGED cmLost
  <2>1. "queued" \in Flight
    BY DEF Flight
  <2>2. /\ Owed(cmFlight') = Owed(cmFlight) - Share(cmFlight[r]) + Share("queued")
        /\ Owed(cmFlight) \in 0..(3 * Cardinality(Request))
    BY <1>1, <1>4, <2>1, OwedStep
  <2>3. Owed(cmFlight') < Owed(cmFlight) /\ Owed(cmFlight) \in Int /\ Owed(cmFlight') \in Int
    BY <1>1, <1>2, <1>4, <2>2 DEF Share
  <2>4. CameraSteps' < CameraSteps
    BY <1>1, <1>2, <2>3 DEF CameraSteps
  <2>5. cmFlight' \in [Request -> Flight] /\ InFlight' = InFlight
    BY <1>1, <1>4, <2>1 DEF InFlight
  <2>6. QED
    BY <1>1, <1>4, <2>4, <2>5 DEF CmAccount
<1>5. CASE /\ cmFlight' = [cmFlight EXCEPT ![r] = "out"]
           /\ cmLost' = cmLost \cup {r}
  <2>1. "out" \in Flight
    BY DEF Flight
  <2>2. /\ Owed(cmFlight') = Owed(cmFlight) - Share(cmFlight[r]) + Share("out")
        /\ Owed(cmFlight) \in 0..(3 * Cardinality(Request))
    BY <1>1, <1>5, <2>1, OwedStep
  <2>3. Owed(cmFlight') < Owed(cmFlight) /\ Owed(cmFlight) \in Int /\ Owed(cmFlight') \in Int
    BY <1>1, <1>2, <2>2 DEF Share
  <2>4. CameraSteps' < CameraSteps
    BY <1>1, <1>2, <2>3 DEF CameraSteps
  <2>5. cmFlight' \in [Request -> Flight] /\ InFlight' = InFlight \ {r}
    BY <1>1, <1>5, <2>1 DEF InFlight
  <2>6. QED
    BY <1>1, <1>3, <1>5, <2>4, <2>5 DEF CmAccount
<1>6. QED
  BY <1>4, <1>5 DEF requestComplete

\* The steps of main() keep the account, and only a request that is queued adds to
\* what the camera owes.
LEMMA MainStep ==
  ASSUME CmAccount, CmSetUp \/ CmQueue \/ CmWait \/ CmStopped \/ CmEnd \/ UNCHANGED cmVars
  PROVE  CmAccount' /\ (CmQueue \/ CameraSteps' = CameraSteps)
<1>1. UNCHANGED <<cmFrames, cmBad, cmLost>>
  BY DEF CmSetUp, CmQueue, CmWait, CmStopped, CmEnd, cmVars
<1>2. CmQueue \/ CameraSteps' = CameraSteps
  BY <1>1 DEF CmSetUp, CmWait, CmStopped, CmEnd, cmVars, CameraSteps
<1>3. CASE CmSetUp
  <2>1. PICK i \in 1..(Len(SetUp) - 1) :
          /\ cmMain = SetUp[i]
          /\ (cmMain' = SetUp[i + 1] /\ UNCHANGED cmFreed) \/ Returns("failed")
    BY <1>3 DEF CmSetUp
  <2>2. SetUp[i + 1] \notin {"wait", "stop", "release", "ended"}
    <3>1. i \in 1..9
      BY DEF SetUp
    <3>2. i + 1 = 10 \/ i + 1 \in 1..(Len(SetUp) - 1)
      BY <3>1 DEF SetUp
    <3>3. SetUp[10] = "queue"
      BY DEF SetUp
    <3>4. QED
      BY <3>2, <3>3, CmOrder
  <2>3. cmMain' \notin {"wait", "stop", "release", "ended"}
    BY <2>1, <2>2 DEF Returns
  <2>4. QED
    BY <1>1, <1>2, <1>3, <2>3 DEF CmAccount, CmSetUp, InFlight
<1>4. CASE CmQueue
  <2>1. ASSUME NEW r \in Request \ cmGiven, cmGiven' = cmGiven \cup {r},
               cmFlight' = [cmFlight EXCEPT ![r] = "queued"], UNCHANGED cmMain
        PROVE  CmAccount'
    <3>1. cmFlight' \in [Request -> Flight] /\ InFlight' = InFlight \cup {r}
      BY <2>1 DEF CmAccount, Flight, InFlight
    <3>2. r \notin cmLost
      BY <2>1 DEF CmAccount
    <3>3. cmMain = "queue"
      BY <1>4 DEF CmQueue
    <3>4. QED
      BY <1>1, <2>1, <3>1, <3>2, <3>3 DEF CmAccount
  <2>2. ASSUME Returns("queue failed"), UNCHANGED <<cmFlight, cmGiven>> PROVE CmAccount'
    <3>1. cmMain' \notin {"wait", "stop", "release", "ended"}
      BY <2>2 DEF Returns
    <3>2. InFlight' = InFlight /\ UNCHANGED <<cmFlight, cmGiven>>
      BY <2>2 DEF InFlight
    <3>3. QED
      BY <1>1, <3>1, <3>2 DEF CmAccount
  <2>3. ASSUME cmGiven = Request, UNCHANGED <<cmFlight, cmGiven>> PROVE CmAccount'
    <3>1. InFlight' = InFlight
      BY <2>3 DEF InFlight
    <3>2. QED
      BY <1>1, <2>3, <3>1 DEF CmAccount
  <2>4. QED
    BY <1>2, <1>4, <2>1, <2>2, <2>3 DEF CmQueue
<1>5. CASE CmWait \/ CmStopped \/ CmEnd
  BY <1>1, <1>2, <1>5 DEF CmAccount, CmWait, CmStopped, CmEnd, Returns, InFlight
<1>6. CASE UNCHANGED cmVars
  BY <1>2, <1>6 DEF CmAccount, cmVars, InFlight
<1>7. QED
  BY <1>3, <1>4, <1>5, <1>6

LEMMA CmAccountHolds == CmSpec => []CmAccount
<1>1. CmInit => CmAccount
  <2> SUFFICES ASSUME CmInit PROVE CmAccount
    OBVIOUS
  <2>1. cmMain \notin {"wait", "stop", "release", "ended"}
    <3>1. cmMain = SetUp[1] /\ 1 \in 1..(Len(SetUp) - 1)
      <4>1. cmMain = SetUp[1]
        BY DEF CmInit
      <4>2. Len(SetUp) = 10
        BY DEF SetUp
      <4>3. QED
        BY <4>1, <4>2
    <3>2. QED
      BY <3>1, CmOrder
  <2>2. /\ cmFlight \in [Request -> Flight] /\ InFlight = {} /\ cmGiven = {} /\ cmLost = {}
        /\ cmFrames = 0 /\ cmBad = 0
    BY DEF CmInit, InFlight, Flight
  <2>3. QED
    BY <2>1, <2>2, CameraAssumption DEF CmAccount
<1>2. CmAccount /\ [CmNext]_cmVars => CmAccount'
  BY BufferCompleteStep, RequestCompleteStep, MainStep DEF CmNext
<1>3. QED
  BY <1>1, <1>2, PTL DEF CmSpec

\* For any number of requests and frames: main() is left waiting for ever only by
\* a camera that has lost every request, since requests that are not lost are with
\* the camera, and what the camera owes is bounded
\* (libcamera/main.cpp, main, bufferComplete and requestComplete).
THEOREM CameraWaitIsBounded == CmSpec => []WaitIsBounded
<1>1. CmAccount => WaitIsBounded
  <2> SUFFICES ASSUME CmAccount PROVE WaitIsBounded
    OBVIOUS
  <2>1. cmMain = "wait" => cmFrames = Frames \/ InFlight # {} \/ cmLost = Request
    BY DEF CmAccount
  <2>2. Owed(cmFlight) \in 0..(3 * Cardinality(Request))
    <3>1. CASE Request = {}
      <4>1. RequestsIn(cmFlight, Flight \ {"out"}) = {}
            /\ RequestsIn(cmFlight, {"queued", "success", "bad"}) = {}
            /\ RequestsIn(cmFlight, {"success", "bad"}) = {}
        BY <3>1 DEF RequestsIn
      <4>2. QED
        <5>1. Cardinality({}) = 0
          BY FS_EmptySet
        <5>2. Owed(cmFlight) = 0 /\ Cardinality(Request) = 0
          BY <3>1, <4>1, <5>1 DEF Owed
        <5>3. QED
          BY <5>2
    <3>2. CASE Request # {}
      <4>1. PICK r \in Request : TRUE
        BY <3>2
      <4>2. "out" \in Flight /\ cmFlight \in [Request -> Flight]
        BY DEF Flight, CmAccount
      <4>3. QED
        BY <4>1, <4>2, OwedStep
    <3>3. QED
      BY <3>1, <3>2
  <2>3. Frames - cmFrames \in 0..Frames /\ BadFrames - cmBad \in 0..BadFrames
    BY CameraAssumption DEF CmAccount
  <2>4. CameraSteps \in 0..(2 * Frames + 2 * BadFrames + 3 * Cardinality(Request))
    <3>1. Cardinality(Request) \in Nat /\ Frames \in Nat /\ BadFrames \in Nat
      BY CameraAssumption, FS_CardinalityType
    <3>2. CameraSteps = 2 * (Frames - cmFrames) + 2 * (BadFrames - cmBad) + Owed(cmFlight)
      BY DEF CameraSteps
    <3> DEFINE n == Cardinality(Request)
               f == Frames - cmFrames
               g == BadFrames - cmBad
               o == Owed(cmFlight)
    <3>3. n \in Nat /\ f \in 0..Frames /\ g \in 0..BadFrames /\ o \in 0..(3 * n)
      BY <2>2, <2>3, <3>1
    <3>4. CameraSteps = 2 * f + 2 * g + o
      BY <3>2
    <3> HIDE DEF n, f, g, o
    <3>5. CameraSteps \in 0..(2 * Frames + 2 * BadFrames + 3 * n)
      BY <3>1, <3>3, <3>4
    <3>6. QED
      BY <3>5 DEF n
  <2>5. QED
    BY <2>1, <2>4 DEF WaitIsBounded
<1>2. QED
  BY <1>1, CmAccountHolds, PTL

\* For any number of requests and frames: with bad and cancelled frames among
\* them, the camera's thread can take only so many steps before the wait is over,
\* and before camera->stop() returns, because no step gives it more to do
\* (libcamera/main.cpp, bufferComplete and requestComplete).
THEOREM CameraWaitRunsDown == CmSpec => CameraRunsDown
<1>1. CmAccount /\ [CmNext]_cmVars =>
        [/\ \A r \in Request :
              (cmFrames < Frames \/ cmMain = "stop") /\ (bufferComplete(r) \/ requestComplete(r))
                => CameraSteps' < CameraSteps
         /\ CmSetUp \/ CmWait \/ CmStopped \/ CmEnd => CameraSteps' = CameraSteps]_cmVars
  <2>1. ASSUME CmAccount, CmSetUp \/ CmWait \/ CmStopped \/ CmEnd
        PROVE  CameraSteps' = CameraSteps
    <3>1. ~CmQueue
      <4>1. CmSetUp => cmMain # "queue"
        <5>1. \A i \in 1..(Len(SetUp) - 1) : SetUp[i] # "queue"
          BY CmOrder
        <5>2. QED
          BY <5>1 DEF CmSetUp
      <4>2. CmWait \/ CmStopped \/ CmEnd => cmMain # "queue"
        BY DEF CmWait, CmStopped, CmEnd
      <4>3. QED
        BY <2>1, <4>1, <4>2 DEF CmQueue
    <3>2. QED
      BY <2>1, <3>1, MainStep
  <2>2. QED
    BY <2>1, BufferCompleteStep, RequestCompleteStep
<1>2. QED
  BY <1>1, CmAccountHolds, PTL DEF CmSpec, CameraRunsDown

-----------------------------------------------------------------------------
(* The option parser.                                                      *)

\* The word after call i of the parser.
After(calls, i) == calls[i].word + (IF calls[i].taken THEN 2 ELSE 1)

InOrder(argv, calls, i) ==
  /\ calls[i].word = IF i = 1 THEN 2 ELSE After(calls, i - 1)
  /\ calls[i].taken => calls[i].value = <<argv[calls[i].word + 1]>>
  /\ calls[i].value = <<>> => ~Option[calls[i].opt].arg /\ calls[i].word = Len(argv)

AgIInv ==
  /\ Len(agArgv) \in Nat
  /\ agNext \in Nat
  /\ \E S : agCalls \in Seq(S)
  /\ \A i \in 1..Len(agCalls) : InOrder(agArgv, agCalls, i)
  /\ agAt \in {"parsing", "done"} =>
       agNext = (IF Len(agCalls) = 0 THEN 2 ELSE After(agCalls, Len(agCalls)))

\* What appending a call leaves of the calls before, whatever a call is.
LEMMA Appended ==
  ASSUME NEW S, NEW s \in Seq(S), NEW c
  PROVE  /\ Append(s, c) \in Seq(S \cup {c})
         /\ Len(s) \in Nat /\ Len(Append(s, c)) = Len(s) + 1
         /\ \A i \in 1..Len(s) : Append(s, c)[i] = s[i]
         /\ Append(s, c)[Len(s) + 1] = c
<1>1. s \in Seq(S \cup {c})
  BY SeqMonotonic
<1>2. QED
  BY <1>1

\* A value that was taken is the next word, and none is there at the end only.
LEMMA CallStep ==
  ASSUME AgIInv, agAt = "parsing", NEW matching, NEW help, NEW value, NEW taken \in BOOLEAN,
         taken => value = <<agArgv[agNext + 1]>>,
         value = <<>> => agNext = Len(agArgv),
         Call(matching, help, value, taken)
  PROVE  AgIInv'
<1> DEFINE m == CHOOSE i \in matching : \A j \in matching : i <= j
           c == [opt |-> m, value |-> value, word |-> agNext, taken |-> taken]
<1>1. agArgv' = agArgv /\ agNext' = agNext + (IF taken THEN 2 ELSE 1)
  BY DEF Call
<1>2. Len(agArgv') \in Nat /\ agNext' \in Nat
  BY <1>1 DEF AgIInv
<1>3. CASE agCalls' = agCalls /\ agAt' \in {"help", "failure"}
  BY <1>1, <1>2, <1>3 DEF AgIInv, InOrder
<1>4. CASE agCalls' = Append(agCalls, c) /\ agAt' = agAt /\ ~(Option[m].arg /\ value = <<>>)
  <2> DEFINE n == Len(agCalls)
  <2>1. PICK S : agCalls \in Seq(S)
    BY DEF AgIInv
  <2>2. /\ agCalls' \in Seq(S \cup {c})
        /\ n \in Nat /\ Len(agCalls') = n + 1
        /\ \A i \in 1..n : agCalls'[i] = agCalls[i]
        /\ agCalls'[n + 1] = c
    BY <1>4, <2>1, Appended
  <2>3. \A i \in 1..n : After(agCalls', i) = After(agCalls, i)
    BY <2>2 DEF After
  <2>4. agNext = (IF n = 0 THEN 2 ELSE After(agCalls, n))
    BY DEF AgIInv
  <2>5. ASSUME NEW i \in 1..n PROVE InOrder(agArgv', agCalls', i)
    <3>1. InOrder(agArgv, agCalls, i)
      BY DEF AgIInv
    <3>2. i # 1 => i - 1 \in 1..n
      BY <2>2
    <3>3. QED
      BY <1>1, <2>2, <2>3, <3>1, <3>2 DEF InOrder
  <2>6. InOrder(agArgv', agCalls', n + 1)
    <3>1. agCalls'[n + 1].word = IF n + 1 = 1 THEN 2 ELSE After(agCalls', n + 1 - 1)
      BY <2>2, <2>3, <2>4
    <3>2. QED
      BY <1>1, <1>4, <2>2, <3>1 DEF InOrder
  <2>7. After(agCalls', n + 1) = agNext'
    BY <1>1, <2>2 DEF After
  <2>8. \A i \in 1..(n + 1) : InOrder(agArgv', agCalls', i)
    BY <2>2, <2>5, <2>6
  <2>9. QED
    BY <1>2, <2>2, <2>7, <2>8 DEF AgIInv
<1>5. QED
  BY <1>3, <1>4 DEF Call

\* A word that asks for an option, long or short, keeps the order.
LEMMA AgStep ==
  ASSUME AgIInv, [AgNext]_agVars
  PROVE  AgIInv'
<1>1. ASSUME agAt = "parsing", IsOption PROVE NextWord = <<>> => agNext = Len(agArgv)
  BY <1>1 DEF AgIInv, IsOption, NextWord, More
<1>2. More \in BOOLEAN /\ (More => NextWord = <<agArgv[agNext + 1]>>)
  BY DEF More, NextWord
<1>3. \A x : <<x>> # <<>>
  OBVIOUS
<1>4. CASE Parse /\ parse_long_option
  BY <1>1, <1>2, <1>3, <1>4, CallStep DEF Parse, parse_long_option
<1>5. CASE Parse /\ parse_short_option
  BY <1>1, <1>2, <1>3, <1>5, CallStep DEF Parse, parse_short_option
<1>6. CASE ParseEnds \/ UNCHANGED agVars
  <2>1. agArgv' = agArgv /\ agNext' = agNext /\ agCalls' = agCalls
    BY <1>6 DEF ParseEnds, agVars
  <2>2. agAt' \in {"parsing", "done"} => agAt \in {"parsing", "done"}
    BY <1>6 DEF ParseEnds, agVars
  <2>3. QED
    BY <2>1, <2>2 DEF AgIInv, InOrder
<1>7. QED
  BY <1>4, <1>5, <1>6 DEF AgNext, Parse

\* For every table of options and every command line: each word passed over is
\* the word of one call or the value of the call before
\* (open1722/argp.c, parse_long_option and parse_short_option).
THEOREM WordsStayAccounted == AgSpec => []WordsAccounted
<1>1. AgInit => AgIInv
  <2>1. <<>> \in Seq({}) /\ Len(<<>>) = 0
    BY EmptySeq
  <2>2. QED
    BY <2>1, ArgpAssumption DEF AgInit, AgIInv
<1>2. AgIInv /\ [AgNext]_agVars => AgIInv'
  BY AgStep
<1>3. AgIInv => WordsAccounted
  BY DEF AgIInv, WordsAccounted, InOrder, After
<1>4. QED
  BY <1>1, <1>2, <1>3, PTL DEF AgSpec

-----------------------------------------------------------------------------
(* The settings.                                                           *)

\* An array of n characters is a sequence of length n.
LEMMA ArrayIsSeq ==
  ASSUME NEW S, NEW n \in Nat, NEW a \in [1..n -> S]
  PROVE  a \in Seq(S) /\ Len(a) = n
  OBVIOUS

\* What stands where in the concatenation of two strings.
LEMMA Joined ==
  ASSUME NEW S, NEW s \in Seq(S), NEW t \in Seq(S)
  PROVE  /\ s \o t \in Seq(S) /\ Len(s) \in Nat /\ Len(t) \in Nat
         /\ Len(s \o t) = Len(s) + Len(t) /\ DOMAIN (s \o t) = 1..(Len(s) + Len(t))
         /\ \A i \in 1..Len(s) : (s \o t)[i] = s[i]
         /\ \A i \in 1..Len(t) : (s \o t)[Len(s) + i] = t[i]
<1>1. Len(s) \in Nat /\ Len(t) \in Nat
  OBVIOUS
<1>2. s \o t \in Seq(S) /\ Len(s \o t) = Len(s) + Len(t)
  BY ConcatProperties
<1>3. \A i \in 1 .. Len(s) + Len(t) : (s \o t)[i] = IF i <= Len(s) THEN s[i] ELSE t[i - Len(s)]
  BY ConcatProperties
<1>4. \A i \in 1..Len(s) : (s \o t)[i] = s[i]
  BY <1>1, <1>3
<1>5. ASSUME NEW i \in 1..Len(t) PROVE (s \o t)[Len(s) + i] = t[i]
  <2>1. Len(s) + i \in 1..(Len(s) + Len(t)) /\ ~(Len(s) + i <= Len(s)) /\ Len(s) + i - Len(s) = i
    BY <1>1
  <2>2. QED
    BY <1>3, <2>1
<1>6. QED
  BY <1>1, <1>2, <1>4, <1>5

\* A string with its NUL.
LEMMA EndAdded ==
  ASSUME NEW S, NEW s \in Seq(S), NEW a \in S, NEW n, n = Len(s)
  PROVE  /\ s \o <<a>> \in Seq(S) /\ Len(s \o <<a>>) = n + 1
         /\ \A i \in 1..n : (s \o <<a>>)[i] = s[i]
         /\ (s \o <<a>>)[n + 1] = a
<1>1. <<a>> \in Seq(S) /\ Len(<<a>>) = 1 /\ <<a>>[1] = a
  OBVIOUS
<1>2. QED
  BY <1>1, Joined

\* A string in memory, with what stands behind it.
LEMMA Terminated ==
  ASSUME NEW S, NEW s \in Seq(S), NEW a \in S, NEW rest \in Seq(S)
  PROVE  /\ s \o <<a>> \o rest \in Seq(S)
         /\ Len(s \o <<a>> \o rest) = Len(s) + 1 + Len(rest)
         /\ \A i \in 1..Len(s) : (s \o <<a>> \o rest)[i] = s[i]
         /\ (s \o <<a>> \o rest)[Len(s) + 1] = a
<1> DEFINE t == s \o <<a>>
<1>0. Len(s) \in Nat /\ Len(rest) \in Nat
  OBVIOUS
<1>1. /\ t \in Seq(S) /\ Len(t) = Len(s) + 1
      /\ \A i \in 1..Len(s) : t[i] = s[i]
      /\ t[Len(s) + 1] = a
  BY EndAdded
<1> HIDE DEF t
<1>2. /\ t \o rest \in Seq(S) /\ Len(t \o rest) = Len(t) + Len(rest)
      /\ \A i \in 1..Len(t) : (t \o rest)[i] = t[i]
  BY <1>1, Joined
<1>3. \A i \in 1..Len(s) : (t \o rest)[i] = s[i]
  BY <1>0, <1>1, <1>2
<1>4. (t \o rest)[Len(s) + 1] = a
  BY <1>0, <1>1, <1>2
<1>5. QED
  BY <1>1, <1>2, <1>3, <1>4 DEF t

\* The string that a memory holds ends before its first NUL.
LEMMA FirstEnd ==
  ASSUME NEW n \in Nat, NEW mem, DOMAIN mem \subseteq Int, n + 1 \in DOMAIN mem, mem[n + 1] = NUL,
         \A j \in DOMAIN mem : mem[j] = NUL => n + 1 <= j
  PROVE  CString(mem) = SubSeq(mem, 1, n)
<1> DEFINE ends == {i \in DOMAIN mem : mem[i] = NUL}
           end == IF ends = {} THEN Len(mem) + 1
                  ELSE CHOOSE i \in ends : \A j \in ends : i <= j
<1>1. ends # {}
  OBVIOUS
<1>2. n + 1 \in ends /\ (\A j \in ends : n + 1 <= j)
  OBVIOUS
<1>3. \A k \in ends : (\A j \in ends : k <= j) => k = n + 1
  OBVIOUS
<1> HIDE DEF ends
<1>4. end = n + 1
  BY <1>1, <1>2, <1>3
<1>5. end - 1 = n
  BY <1>4
<1>6. CString(mem) = SubSeq(mem, 1, end - 1)
  BY DEF CString, ends
<1>7. QED
  BY <1>5, <1>6

\* What vconf_set_str stores of s, with what stands in memory behind it.
CutOff(s, left) == SubSeq(s \o <<NUL>> \o left, 1, PointerSize)

\* A string shorter than a pointer is stored with its NUL, and is what is read,
\* whatever the memory behind the buffer holds.
LEMMA ShortStringKept ==
  ASSUME NEW s \in Strings, NEW left \in Unwritten(PointerSize), NEW l \in Unwritten(1),
         Len(s) < PointerSize
  PROVE  CString(CutOff(s, left) \o l) = s
<1> DEFINE S == Char \cup {NUL, Junk}
           n == Len(s)
           whole == s \o <<NUL>> \o left
           cut == SubSeq(whole, 1, PointerSize)
           mem == cut \o l
<1>1. s \in Seq(Char) /\ s \in Seq(S) /\ n \in Nat
  <2>1. PICK k \in 0..MaxString : s \in [1..k -> Char]
    BY DEF Strings
  <2>2. s \in Seq(Char)
    BY <2>1, VConfAssumption
  <2>3. QED
    BY <2>2, SeqMonotonic
<1>2. left \in Seq(S) /\ Len(left) = PointerSize
  BY VConfAssumption, ArrayIsSeq, left \in [1..PointerSize -> S] DEF Unwritten
<1>3. l \in Seq(S) /\ Len(l) = 1
  BY 1 \in Nat, ArrayIsSeq, l \in [1..1 -> S] DEF Unwritten
<1>4. NUL \in S
  OBVIOUS
<1> HIDE DEF S
<1>5. /\ whole \in Seq(S) /\ Len(whole) = n + 1 + Len(left)
      /\ \A i \in 1..n : whole[i] = s[i]
      /\ whole[n + 1] = NUL
  <2>1. s \in Seq(S) /\ left \in Seq(S) /\ NUL \in S
    BY <1>1, <1>2, <1>4
  <2> QED
    BY <2>1, Terminated
<1> HIDE DEF whole
<1>6. \A i \in 1..PointerSize : whole[i] \in S
  BY <1>1, <1>2, <1>5, ElementOfSeq, VConfAssumption
<1>7. /\ cut \in Seq(S) /\ Len(cut) = PointerSize
      /\ \A i \in 1..PointerSize : cut[i] = whole[i]
  BY <1>6, SubSeqProperties, VConfAssumption
<1> HIDE DEF cut
<1>8. /\ DOMAIN mem = 1..(Len(cut) + Len(l))
      /\ \A i \in 1..Len(cut) : mem[i] = cut[i]
  <2>1. cut \in Seq(S) /\ l \in Seq(S)
    BY <1>3, <1>7
  <2>2. QED
    BY <2>1, Joined
<1> HIDE DEF mem
<1>9. /\ n + 1 \in 1..PointerSize
      /\ \A i \in 1..n : i \in 1..PointerSize
  BY <1>1, VConfAssumption
<1>10. mem[n + 1] = NUL /\ \A i \in 1..n : mem[i] = s[i] /\ s[i] \in Char
  BY <1>1, <1>5, <1>7, <1>8, <1>9, ElementOfSeq
<1>11. /\ DOMAIN mem \subseteq Int /\ n + 1 \in DOMAIN mem
       /\ \A j \in DOMAIN mem : mem[j] = NUL => n + 1 <= j
  <2>1. DOMAIN mem = 1..(PointerSize + 1)
    BY <1>3, <1>7, <1>8
  <2>2. QED
    BY <1>1, <1>9, <1>10, <2>1, VConfAssumption
<1>12. CString(mem) = SubSeq(mem, 1, n)
  BY <1>1, <1>10, <1>11, FirstEnd
<1>13. /\ SubSeq(mem, 1, n) \in Seq(Char) /\ Len(SubSeq(mem, 1, n)) = n
       /\ \A i \in 1..n : SubSeq(mem, 1, n)[i] = s[i]
  BY <1>1, <1>10, SubSeqProperties
<1>14. SubSeq(mem, 1, n) = s
  BY <1>1, <1>13, SeqEqual
<1>15. mem = CutOff(s, left) \o l
  BY DEF mem, cut, whole, CutOff
<1>16. QED
  BY <1>12, <1>14, <1>15

\* What the service holds for a key that was asked to hold something.
Holding(asked, stored) ==
  \/ asked[1] = "int" /\ stored[1] = "int" /\ stored[2] = asked[2]
  \/ /\ asked[1] = "str" /\ stored[1] = "str"
     /\ \E s \in Strings, left \in Unwritten(PointerSize) :
          asked[2] = s /\ stored[2] = CutOff(s, left)

VcIInv ==
  /\ DOMAIN vcStore = Key /\ DOMAIN vcAsked = Key
  /\ \A k \in Key : vcAsked[k] # <<>> => vcStore[k] # <<>> /\ Holding(vcAsked[k], vcStore[k])
  /\ ReadsWhatWasSet

\* Each of the four functions, for each key.
LEMMA VcStep ==
  ASSUME VcIInv, [VcNext]_vcVars
  PROVE  VcIInv'
<1>1. ASSUME NEW k \in Key, NEW asked, NEW stored, Holding(asked, stored), stored # <<>>,
             NEW name \in {"set_int", "set_str"}, vcResult'.call = name,
             vcStore' = [vcStore EXCEPT ![k] = stored],
             vcAsked' = [vcAsked EXCEPT ![k] = asked]
      PROVE  VcIInv'
  <2>1. \A j \in Key : vcAsked'[j] # <<>> => vcStore'[j] # <<>> /\ Holding(vcAsked'[j], vcStore'[j])
    <3> HIDE DEF Holding
    <3>1. QED
      BY <1>1 DEF VcIInv
  <2>2. QED
    BY <1>1, <2>1 DEF VcIInv, ReadsWhatWasSet
<1>2. ASSUME vcStore' = vcStore, vcAsked' = vcAsked, ReadsWhatWasSet'
      PROVE  VcIInv'
  BY <1>2 DEF VcIInv
<1>3. ASSUME NEW k \in Key, vconf_get_int(k) PROVE VcIInv'
  <2>1. PICK v \in (IF k \in IntFixed THEN {IntAnswer(k)} ELSE AsInt(vcStore[k])) :
          /\ vcResult'.call = "get_int" /\ vcResult'.key = k /\ vcResult'.val = <<v>>
          /\ vcResult'.ret = (IF v = IntMax THEN -1 ELSE 0)
    BY <1>3 DEF vconf_get_int
  <2>2. vcStore' = vcStore /\ vcAsked' = vcAsked
    BY <1>3 DEF vconf_get_int
  <2>3. ASSUME k \notin IntFixed, vcAsked[k] # <<>>, vcAsked[k][1] = "int"
        PROVE  v = vcAsked[k][2]
    <3>1. vcStore[k] # <<>> /\ vcStore[k][1] = "int" /\ vcStore[k][2] = vcAsked[k][2]
      BY <2>3 DEF VcIInv, Holding
    <3>2. QED
      BY <2>1, <2>3, <3>1 DEF AsInt
  <2>4. (vcResult'.ret = -1) = (v = IntMax)
    BY <2>1
  <2>5. k \in IntFixed => v = IntAnswer(k)
    BY <2>1
  <2>6. ReadsWhatWasSet'
    <3> HIDE DEF IntAnswer, IntFixed
    <3>1. QED
      BY <2>1, <2>2, <2>3, <2>4, <2>5 DEF ReadsWhatWasSet
  <2>7. QED
    BY <1>2, <2>2, <2>6
<1>4. ASSUME NEW k \in Key, vconf_get_str(k) PROVE VcIInv'
  <2>1. PICK l \in Unwritten(1), bytes \in AsBytes(vcStore[k]) :
          vcResult'.val = CString(IF k \in StrFixed THEN StrAnswer(k) ELSE bytes \o l)
    BY <1>4 DEF vconf_get_str
  <2>2. vcResult'.call = "get_str" /\ vcResult'.key = k /\ vcStore' = vcStore /\ vcAsked' = vcAsked
    BY <1>4 DEF vconf_get_str
  <2>3. ASSUME k \notin StrFixed, vcAsked[k] # <<>>, vcAsked[k][1] = "str",
               Len(vcAsked[k][2]) < PointerSize
        PROVE  vcResult'.val = vcAsked[k][2]
    <3>1. vcStore[k] # <<>> /\ Holding(vcAsked[k], vcStore[k])
      BY <2>3 DEF VcIInv
    <3>2. vcStore[k][1] = "str"
      BY <2>3, <3>1 DEF Holding
    <3>3. PICK s \in Strings, left \in Unwritten(PointerSize) :
            vcAsked[k][2] = s /\ vcStore[k][2] = CutOff(s, left)
      BY <2>3, <3>1 DEF Holding
    <3>4. bytes = CutOff(s, left)
      BY <2>1, <3>1, <3>2, <3>3 DEF AsBytes
    <3>5. vcResult'.val = CString(CutOff(s, left) \o l)
      BY <2>1, <2>3, <3>4
    <3>6. QED
      BY <2>3, <3>3, <3>5, ShortStringKept
  <2>4. k \in StrFixed => vcResult'.val = CString(StrAnswer(k))
    BY <2>1
  <2>5. ReadsWhatWasSet'
    BY <2>2, <2>3, <2>4 DEF ReadsWhatWasSet
  <2>6. QED
    BY <1>2, <2>2, <2>5
<1>5. ASSUME NEW k \in Key, NEW v \in Ints, vconf_set_int(k, v) PROVE VcIInv'
  <2>1. Holding(<<"int", v>>, <<"int", v>>) /\ <<"int", v>> # <<>>
    BY DEF Holding
  <2>2. vcResult'.call = "set_int"
    BY <1>5 DEF vconf_set_int
  <2>3. ReadsWhatWasSet'
    BY <2>2 DEF ReadsWhatWasSet
  <2>4. QED
    BY <1>1, <1>2, <1>5, <2>1, <2>2, <2>3 DEF vconf_set_int
<1>6. ASSUME NEW k \in Key, NEW s \in Strings, vconf_set_str(k, s) PROVE VcIInv'
  <2>1. PICK left \in Unwritten(PointerSize) : Stored(k, s, CutOff(s, left))
    BY <1>6 DEF vconf_set_str, CutOff
  <2>2. Holding(<<"str", s>>, <<"str", CutOff(s, left)>>) /\ <<"str", CutOff(s, left)>> # <<>>
    BY DEF Holding
  <2>3. vcResult'.call = "set_str"
    BY <2>1 DEF Stored
  <2>4. ReadsWhatWasSet'
    BY <2>3 DEF ReadsWhatWasSet
  <2>5. QED
    BY <1>1, <1>2, <2>1, <2>2, <2>3, <2>4 DEF Stored
<1>7. CASE UNCHANGED vcVars
  <2>1. ReadsWhatWasSet'
    BY <1>7 DEF VcIInv, ReadsWhatWasSet, vcVars
  <2>2. QED
    BY <1>2, <1>7, <2>1 DEF vcVars
<1>8. QED
  BY <1>3, <1>4, <1>5, <1>6, <1>7 DEF VcNext

\* For any keys, integers and strings, whichever type a key is set to, and every
\* size of a pointer: what was set last is what the getter of its type reads, but
\* for INT32_MAX, for strings that do not fit a pointer, and for the five keys the
\* getters answer themselves, which read the same whatever was set
\* (mtp-responder/mtp_port.c, all four functions).
THEOREM SettingsStay == VcSpec => []ReadsWhatWasSet
<1>1. VcInit => VcIInv
  BY DEF VcInit, VcIInv, NoCall, ReadsWhatWasSet
<1>2. VcIInv /\ [VcNext]_vcVars => VcIInv'
  BY VcStep
<1>3. VcIInv => ReadsWhatWasSet
  BY DEF VcIInv
<1>4. QED
  BY <1>1, <1>2, <1>3, PTL DEF VcSpec

-----------------------------------------------------------------------------
(* The integer overflow macros.  A C expression has a type whatever its     *)
(* operands are, so the lemmas follow the types: the common type of two     *)
(* operands (Setting), the bounds the macros compute for it, then each      *)
(* macro, first for a signed and then for an unsigned common type.          *)

\* A set of numbers that is not empty has a least one.
LEMMA IpLeast ==
  ASSUME NEW S \in SUBSET Nat, S # {}
  PROVE  \E n \in S : \A m \in S : n <= m
<1> DEFINE R == {ss \in Nat \X Nat : ss[1] < ss[2]}
<1>1. IsWellFoundedOn(R, Nat)
  BY NatLessThanWellFounded DEF OpToRel
<1>2. \A n, m \in Nat : ~(<<m, n>> \in R) => n <= m
  OBVIOUS
<1> HIDE DEF R
<1>3. \E n \in S : \A m \in S : ~(<<m, n>> \in R)
  BY <1>1, WFMin
<1> QED
  BY <1>2, <1>3

\* Powers of two are positive and grow.
LEMMA PowersPositive == \A n \in 0..LongBits : 2 ^ n \in Nat \ {0}
<1> DEFINE Bad == {n \in 0..LongBits : 2 ^ n \notin Nat \ {0}}
<1>1. SUFFICES ASSUME Bad # {} PROVE FALSE
  OBVIOUS
<1>2. PICK n \in Bad : \A m \in Bad : n <= m
  <2>1. Bad \in SUBSET Nat
    BY WidthAssumption
  <2> HIDE DEF Bad
  <2> QED
    BY <1>1, <2>1, IpLeast
<1>3. n \in 1..LongBits /\ 2 ^ n = 2 * 2 ^ (n - 1)
  <2>1. n \in 0..LongBits /\ 2 ^ n \notin Nat \ {0}
    BY <1>2
  <2>2. n # 0
    <3>1. n = 0 => 2 ^ n = 1
      BY PowerAssumption, Zenon
    <3>2. 1 \in Nat \ {0}
      OBVIOUS
    <3> QED
      BY <2>1, <3>1, <3>2, Zenon
  <2>3. n \in 1..LongBits
    BY <2>1, <2>2, WidthAssumption
  <2> QED
    BY <2>3, PowerAssumption
<1>4. n - 1 \in 0..LongBits /\ n - 1 \notin Bad
  BY <1>2, <1>3, WidthAssumption
<1> QED
  BY <1>2, <1>3, <1>4, WidthAssumption

\* A greater power of two is no less.
LEMMA PowersGrow ==
  \A n \in 0..LongBits : \A m \in 0..LongBits : m <= n => 2 ^ m <= 2 ^ n
<1> SUFFICES ASSUME NEW m \in 0..LongBits
             PROVE  \A n \in 0..LongBits : m <= n => 2 ^ m <= 2 ^ n
  OBVIOUS
<1> DEFINE Bad == {n \in 0..LongBits : m <= n /\ ~(2 ^ m <= 2 ^ n)}
<1>1. SUFFICES ASSUME Bad # {} PROVE FALSE
  OBVIOUS
<1>2. PICK n \in Bad : \A k \in Bad : n <= k
  <2>1. Bad \in SUBSET Nat
    BY WidthAssumption
  <2> HIDE DEF Bad
  <2> QED
    BY <1>1, <2>1, IpLeast
<1>3. /\ n \in 1..LongBits /\ m <= n - 1 /\ 2 ^ n = 2 * 2 ^ (n - 1)
  BY <1>2, PowerAssumption, WidthAssumption, PowersPositive
<1>4. n - 1 \in 0..LongBits /\ n - 1 \notin Bad
  BY <1>2, <1>3, WidthAssumption
<1>5. 2 ^ m \in Nat /\ 2 ^ n \in Nat /\ 2 ^ (n - 1) \in Nat
  BY <1>3, <1>4, PowersPositive
<1> QED
  BY <1>2, <1>3, <1>4, <1>5, WidthAssumption

-----------------------------------------------------------------------------
\* What the proofs need to know of a type: its bounds are those of a number of
\* bits, in two's complement.
TypeFacts(t) ==
  /\ t.bits \in Nat /\ t.signed \in BOOLEAN /\ t.rank \in Nat
  /\ t.size \in Nat /\ t.min \in Int /\ t.max \in Nat
  /\ t.size = t.max - t.min + 1
  /\ t.signed => t.min = -t.max - 1
  /\ ~t.signed => t.min = 0 /\ t.max > 0

\* The fields of each type.
LEMMA ArithmeticTypes ==
  ASSUME NEW b \in {ShortBits, IntBits, LongBits}, NEW s \in BOOLEAN
  PROVE  /\ TypeFacts(Type(b, s))
         /\ Type(b, s).bits = b /\ Type(b, s).signed = s
         /\ Type(b, s).size = 2 ^ b
         /\ Type(b, s).rank = IF s THEN 2 * b ELSE 2 * b + 1
         /\ s => Type(b, s).min = -(2 ^ (b - 1)) /\ Type(b, s).max = 2 ^ (b - 1) - 1
         /\ ~s => Type(b, s).min = 0 /\ Type(b, s).max = 2 ^ b - 1
<1>1. /\ Type(b, s) = [bits |-> b, signed |-> s, size |-> 2 ^ b,
                       rank |-> IF s THEN 2 * b ELSE 2 * b + 1,
                       min |-> IF s THEN -(2 ^ (b - 1)) ELSE 0,
                       max |-> IF s THEN 2 ^ (b - 1) - 1 ELSE 2 ^ b - 1]
  BY DEF Type, CType
<1>2. /\ b \in Nat /\ b > 0 /\ b \in 1..LongBits /\ b - 1 \in 0..LongBits /\ b \in 0..LongBits
  BY WidthAssumption
<1>3. 2 ^ b = 2 * 2 ^ (b - 1) /\ 2 ^ b \in Nat \ {0} /\ 2 ^ (b - 1) \in Nat \ {0}
  BY <1>2, PowersPositive, PowerAssumption
<1> QED
  BY <1>1, <1>2, <1>3 DEF TypeFacts

\* The types operands have: a short one is promoted.
Wide == {t \in Arithmetic : t.bits >= IntBits}

\* A type no narrower than int is its own promoted type.
LEMMA WideTypes ==
  /\ int \in Wide /\ int.max >= 1 /\ int.signed /\ int.bits = IntBits
  /\ \A t \in Wide : /\ TypeFacts(t) /\ Promoted(t) = t
                     /\ t.bits \in {IntBits, LongBits} /\ t = Type(t.bits, t.signed)
<1>1. /\ TypeFacts(int) /\ int.bits = IntBits /\ int.signed /\ int \in Wide
      /\ int.max = 2 ^ (IntBits - 1) - 1
  <2>1. IntBits \in {ShortBits, IntBits, LongBits} /\ TRUE \in BOOLEAN
    OBVIOUS
  <2>2. /\ TypeFacts(int) /\ int.bits = IntBits /\ int.signed = TRUE
        /\ int.max = 2 ^ (IntBits - 1) - 1
    BY <2>1, ArithmeticTypes DEF int
  <2>3. int \in Arithmetic
    <3>1. \E b \in {ShortBits, IntBits, LongBits}, s \in BOOLEAN : int = Type(b, s)
      BY <2>1 DEF int
    <3> QED
      BY <3>1 DEF Arithmetic
  <2> QED
    BY <2>2, <2>3, WidthAssumption DEF Wide
<1>2. int.max >= 1
  <2>1. /\ IntBits - 1 \in 1..LongBits /\ IntBits - 2 \in 0..LongBits
        /\ IntBits - 2 = (IntBits - 1) - 1
    BY WidthAssumption
  <2>2. 2 ^ (IntBits - 1) = 2 * 2 ^ (IntBits - 2) /\ 2 ^ (IntBits - 2) \in Nat \ {0}
    BY <2>1, PowerAssumption, PowersPositive
  <2> QED
    BY <1>1, <2>2
<1>3. ASSUME NEW t \in Wide
      PROVE  /\ TypeFacts(t) /\ Promoted(t) = t
             /\ t.bits \in {IntBits, LongBits} /\ t = Type(t.bits, t.signed)
  <2>1. PICK b \in {ShortBits, IntBits, LongBits}, s \in BOOLEAN : t = Type(b, s)
    BY DEF Wide, Arithmetic
  <2>2. t.bits = b /\ t.signed = s /\ TypeFacts(t)
    BY <2>1, ArithmeticTypes
  <2> QED
    BY <2>1, <2>2, WidthAssumption DEF Wide, Promoted
<1> QED
  BY <1>1, <1>2, <1>3

\* A value of type s converted to c is itself, or, below zero and unsigned, more
\* by the size of c; in half the range at the most.
Carries(c, s) ==
  /\ s.max <= c.max
  /\ c.signed => c.min <= s.min
  /\ ~c.signed => -c.size <= 2 * s.min

\* The common type of two types is one of them, and holds the values of both as
\* far as an unsigned type can.
LEMMA CommonTypes ==
  ASSUME NEW s \in Wide, NEW u \in Wide
  PROVE  /\ Common(s, u) \in Wide /\ Common(s, u) \in {s, u}
         /\ Common(s, u) = Common(u, s)
         /\ Carries(Common(s, u), s) /\ Carries(Common(s, u), u)
<1>1. /\ TypeFacts(s) /\ TypeFacts(u) /\ s.bits \in {IntBits, LongBits}
      /\ u.bits \in {IntBits, LongBits}
      /\ s = Type(s.bits, s.signed) /\ u = Type(u.bits, u.signed)
      /\ Promoted(s) = s /\ Promoted(u) = u
  BY WideTypes
<1>2. s.signed \in BOOLEAN /\ u.signed \in BOOLEAN
  BY <1>1 DEF TypeFacts
<1> DEFINE i == 2 ^ (IntBits - 1)
           l == 2 ^ (LongBits - 1)
<1>3. /\ i \in Nat \ {0} /\ l \in Nat \ {0}
      /\ 2 ^ IntBits = 2 * i /\ 2 ^ LongBits = 2 * l /\ 2 * i <= l
  <2>1. /\ IntBits - 1 \in 0..LongBits /\ LongBits - 1 \in 0..LongBits
        /\ IntBits \in 0..LongBits /\ IntBits \in 1..LongBits /\ LongBits \in 1..LongBits
        /\ IntBits <= LongBits - 1
    BY WidthAssumption
  <2> QED
    BY <2>1, PowerAssumption, PowersPositive, PowersGrow
<1> HIDE DEF i, l
<1>4. ASSUME NEW t \in {s, u}
      PROVE  /\ t.size = 2 ^ t.bits
             /\ t.rank = IF t.signed THEN 2 * t.bits ELSE 2 * t.bits + 1
             /\ t.signed => t.min = -(2 ^ (t.bits - 1)) /\ t.max = 2 ^ (t.bits - 1) - 1
             /\ ~t.signed => t.min = 0 /\ t.max = 2 ^ t.bits - 1
  BY <1>1, <1>2, ArithmeticTypes
<1>5. ASSUME NEW t \in {s, u}
      PROVE  \/ /\ t.bits = IntBits /\ t.size = 2 * i
                /\ t.signed => t.rank = 2 * IntBits /\ t.min = -i /\ t.max = i - 1
                /\ ~t.signed => t.rank = 2 * IntBits + 1 /\ t.min = 0 /\ t.max = 2 * i - 1
             \/ /\ t.bits = LongBits /\ t.size = 2 * l
                /\ t.signed => t.rank = 2 * LongBits /\ t.min = -l /\ t.max = l - 1
                /\ ~t.signed => t.rank = 2 * LongBits + 1 /\ t.min = 0 /\ t.max = 2 * l - 1
  BY <1>1, <1>3, <1>4 DEF i, l
<1>6. Common(s, u) = IF s.rank < u.rank THEN u ELSE s
  BY <1>1 DEF Common
<1>7. Common(u, s) = IF u.rank < s.rank THEN s ELSE u
  BY <1>1 DEF Common
<1>8. s.rank = u.rank => s = u
  <2>1. s.rank = u.rank => s.bits = u.bits /\ s.signed = u.signed
    BY <1>2, <1>5, WidthAssumption
  <2> QED
    BY <1>1, <2>1
<1>9. s.rank \in Nat /\ u.rank \in Nat
  BY <1>1 DEF TypeFacts
<1>10. CASE s.rank < u.rank
  <2>1. Carries(u, s) /\ Carries(u, u)
    BY <1>2, <1>3, <1>5, <1>10, WidthAssumption DEF Carries
  <2> QED
    BY <1>6, <1>7, <1>9, <1>10, <2>1
<1>11. CASE ~(s.rank < u.rank)
  <2>1. Carries(s, s) /\ Carries(s, u)
    BY <1>2, <1>3, <1>5, <1>11, WidthAssumption DEF Carries
  <2> QED
    BY <1>6, <1>7, <1>8, <1>9, <1>11, <2>1
<1> QED
  BY <1>10, <1>11

\* int is below every other of these types.
LEMMA CommonWithInt ==
  ASSUME NEW t \in Wide
  PROVE  Common(int, t) = t /\ Common(t, int) = t
<1>1. /\ Promoted(t) = t /\ t.bits \in {IntBits, LongBits} /\ t = Type(t.bits, t.signed)
      /\ t.signed \in BOOLEAN /\ Promoted(int) = int /\ int = Type(IntBits, TRUE)
  BY WideTypes DEF TypeFacts, int
<1>2. /\ int.rank = 2 * IntBits
      /\ t.rank = (IF t.signed THEN 2 * t.bits ELSE 2 * t.bits + 1)
  <2>1. IntBits \in {ShortBits, IntBits, LongBits} /\ t.bits \in {ShortBits, IntBits, LongBits}
    BY <1>1
  <2>2. Type(IntBits, TRUE).rank = 2 * IntBits
    BY <2>1, ArithmeticTypes
  <2>3. Type(t.bits, t.signed).rank = IF t.signed THEN 2 * t.bits ELSE 2 * t.bits + 1
    BY <1>1, <2>1, ArithmeticTypes
  <2> QED
    BY <1>1, <2>2, <2>3
<1>3. CASE t.bits = IntBits /\ t.signed = TRUE
  <2>1. t = int
    BY <1>1, <1>3
  <2> QED
    BY <1>1, <2>1 DEF Common
<1>4. CASE ~(t.bits = IntBits /\ t.signed = TRUE)
  <2>1. IntBits \in Nat /\ LongBits \in Nat /\ IntBits < LongBits
    BY WidthAssumption
  <2>2. t.bits \in {IntBits, LongBits} /\ t.signed \in BOOLEAN
    BY <1>1
  <2>3. t.rank \in Int /\ int.rank \in Int /\ int.rank < t.rank
    <3>1. CASE t.signed
      <4>1. t.bits = LongBits /\ t.rank = 2 * t.bits
        BY <1>2, <1>4, <2>2, <3>1
      <4> QED
        BY <1>2, <2>1, <4>1
    <3>2. CASE ~t.signed
      <4>1. t.rank = 2 * t.bits + 1
        BY <1>2, <2>2, <3>2
      <4> QED
        BY <1>2, <2>1, <2>2, <4>1
    <3> QED
      BY <3>1, <3>2
  <2>4. int.rank < t.rank /\ ~(t.rank < int.rank)
    BY <2>3
  <2> QED
    BY <1>1, <2>4 DEF Common
<1> QED
  BY <1>3, <1>4

-----------------------------------------------------------------------------
(* Conversion.                                                             *)

\* The remainder of a number that is less than one divisor away from its range.
LEMMA Remainders ==
  ASSUME NEW k \in Int, NEW s \in Nat \ {0}
  PROVE  /\ k % s \in 0..(s - 1)
         /\ 0 <= k /\ k < s => k % s = k
         /\ -s <= k /\ k < 0 => k % s = k + s
         /\ s <= k /\ k < s + s => k % s = k - s
<1>1. k % s \in 0..(s - 1)
  OBVIOUS
<1>2. 0 <= k /\ k < s => k % s = k
  OBVIOUS
<1>3. -s <= k /\ k < 0 => k % s = k + s
  OBVIOUS
<1>4. s <= k /\ k < s + s => k % s = k - s
  OBVIOUS
<1> QED
  BY <1>1, <1>2, <1>3, <1>4

\* The value a type has for a number: itself, or once around.
LEMMA Wraps ==
  ASSUME NEW t, TypeFacts(t), NEW n \in Int
  PROVE  /\ Wrap(t, n) \in Int /\ Fits(t, Wrap(t, n))
         /\ Fits(t, n) => Wrap(t, n) = n
         /\ t.min - t.size <= n /\ n < t.min => Wrap(t, n) = n + t.size
         /\ t.max < n /\ n <= t.max + t.size => Wrap(t, n) = n - t.size
<1>1. /\ t.size \in Nat \ {0} /\ t.min \in Int /\ t.max \in Int
      /\ t.size = t.max - t.min + 1 /\ n - t.min \in Int
  BY DEF TypeFacts
<1> DEFINE r == (n - t.min) % t.size
<1>2. /\ r \in 0..(t.size - 1)
      /\ 0 <= n - t.min /\ n - t.min < t.size => r = n - t.min
      /\ -t.size <= n - t.min /\ n - t.min < 0 => r = n - t.min + t.size
      /\ t.size <= n - t.min /\ n - t.min < t.size + t.size => r = n - t.min - t.size
  BY <1>1, Remainders
<1>3. Wrap(t, n) = r + t.min
  BY DEF Wrap
<1> HIDE DEF r
<1> QED
  BY <1>1, <1>2, <1>3 DEF Fits

-----------------------------------------------------------------------------
(* Expressions whose operands are defined.                                 *)

\* A defined value, and what a calculation and a comparison of such give.
Num(t, n) == Value(t, n, TRUE)
Calc(t, n) == Arith(t, n, TRUE)
Yes == Num(int, 1)
No == Num(int, 0)

\* Every type holds 1.
LEMMA WideMax == \A t \in Wide : t.max >= 1
<1> SUFFICES ASSUME NEW t \in Wide PROVE t.max >= 1
  OBVIOUS
<1>1. int \in Wide /\ int.max >= 1 /\ TypeFacts(t) /\ TypeFacts(int)
  BY WideTypes
<1>2. Carries(t, int)
  BY <1>1, CommonTypes, CommonWithInt
<1> QED
  BY <1>1, <1>2 DEF Carries, TypeFacts

\* 0 and 1 are values of every type, -1 of every signed one.
LEMMA SmallFit ==
  ASSUME NEW t \in Wide
  PROVE  /\ Fits(t, 0) /\ Fits(t, 1) /\ Wrap(t, 0) = 0 /\ Wrap(t, 1) = 1
         /\ t.signed => Fits(t, -1)
<1>1. TypeFacts(t) /\ t.max >= 1
  BY WideTypes, WideMax
<1>2. Fits(t, 0) /\ Fits(t, 1) /\ (t.signed => Fits(t, -1))
  BY <1>1 DEF TypeFacts, Fits
<1> QED
  BY <1>1, <1>2, Wraps

\* A calculation without overflow has the value it should.
LEMMA CalcIs ==
  ASSUME NEW t \in Wide, NEW n \in Int, t.signed => Fits(t, n)
  PROVE  /\ Calc(t, n) = Num(t, Wrap(t, n))
         /\ Fits(t, n) => Calc(t, n) = Num(t, n)
<1>1. TypeFacts(t)
  BY WideTypes
<1>2. Fits(t, n) => Wrap(t, n) = n
  BY <1>1, Wraps
<1> QED
  BY <1>2 DEF Arith, Calc, Value, Num

\* What the operators of C do with two numbers.
LEMMA Binary ==
  ASSUME NEW s \in Wide, NEW u \in Wide, NEW n \in Int, NEW m \in Int
  PROVE  LET x == Num(s, n)
             y == Num(u, m)
             w == Common(s, u)
         IN  /\ Add(x, y) = Calc(w, Wrap(w, n) + Wrap(w, m))
             /\ Sub(x, y) = Calc(w, Wrap(w, n) - Wrap(w, m))
             /\ Mul(x, y) = Calc(w, Wrap(w, n) * Wrap(w, m))
             /\ Wrap(w, n) < Wrap(w, m) => Less(x, y) = Yes
             /\ ~(Wrap(w, n) < Wrap(w, m)) => Less(x, y) = No
             /\ Wrap(w, n) = Wrap(w, m) => Equal(x, y) = Yes
             /\ Wrap(w, n) # Wrap(w, m) => Equal(x, y) = No
<1> DEFINE x == Num(s, n)
           y == Num(u, m)
<1>1. x.t = s /\ x.v = n /\ x.ok = TRUE /\ y.t = u /\ y.v = m /\ y.ok = TRUE
  BY DEF Value, Num
<1>2. (x.ok /\ y.ok) = TRUE
  BY <1>1
<1> HIDE DEF x, y
<1>3. /\ Add(x, y) = Calc(Common(s, u), Wrap(Common(s, u), n) + Wrap(Common(s, u), m))
      /\ Sub(x, y) = Calc(Common(s, u), Wrap(Common(s, u), n) - Wrap(Common(s, u), m))
      /\ Mul(x, y) = Calc(Common(s, u), Wrap(Common(s, u), n) * Wrap(Common(s, u), m))
  BY <1>1, <1>2 DEF Add, Sub, Mul, AddAs, SubAs, MulAs, Calc
<1>4. /\ Wrap(Common(s, u), n) < Wrap(Common(s, u), m) => Less(x, y) = Yes
      /\ ~(Wrap(Common(s, u), n) < Wrap(Common(s, u), m)) => Less(x, y) = No
  BY <1>1, <1>2 DEF Less, LessAs, Truth, Value, Num, Yes, No
<1>5. /\ Wrap(Common(s, u), n) = Wrap(Common(s, u), m) => Equal(x, y) = Yes
      /\ Wrap(Common(s, u), n) # Wrap(Common(s, u), m) => Equal(x, y) = No
  BY <1>1, <1>2 DEF Equal, EqualAs, Truth, Value, Num, Yes, No
<1> QED
  BY <1>3, <1>4, <1>5 DEF x, y

\* What an expression's type is, whatever its operands.
TypeOf(x) == x.t

\* A sum, difference or product has the common type,
LEMMA ArithTypes ==
  ASSUME NEW x, NEW y
  PROVE  /\ TypeOf(Add(x, y)) = Common(TypeOf(x), TypeOf(y))
         /\ TypeOf(Sub(x, y)) = Common(TypeOf(x), TypeOf(y))
         /\ TypeOf(Mul(x, y)) = Common(TypeOf(x), TypeOf(y))
  BY DEF Add, Sub, Mul, AddAs, SubAs, MulAs, Arith, Calc, Value, Num, TypeOf

\* a condition is an int,
LEMMA ConditionTypes ==
  ASSUME NEW x, NEW y
  PROVE  /\ TypeOf(Less(x, y)) = int /\ TypeOf(AtMost(x, y)) = int
         /\ TypeOf(Equal(x, y)) = int /\ TypeOf(Not(x)) = int
         /\ TypeOf(And(x, y)) = int /\ TypeOf(Or(x, y)) = int
<1>1. TypeOf(Less(x, y)) = int /\ TypeOf(Equal(x, y)) = int
  BY DEF Less, Equal, LessAs, EqualAs, Truth, Value, Num, TypeOf
<1>2. TypeOf(AtMost(x, y)) = int /\ TypeOf(Not(x)) = int
  BY DEF AtMost, Not, Truth, Value, Num, TypeOf
<1>3. TypeOf(And(x, y)) = int /\ TypeOf(Or(x, y)) = int
  BY DEF And, Or, Truth, Value, Num, TypeOf
<1> QED
  BY <1>1, <1>2, <1>3

\* and a choice has the common type of both branches, whichever is taken.
LEMMA IfTypes ==
  ASSUME NEW x, NEW y, NEW c
  PROVE  TypeOf(If(c, x, y)) = Common(TypeOf(x), TypeOf(y))
<1> DEFINE t == Common(x.t, y.t)
<1>1. If(c, x, y) \in {Chosen(t, c, x), Chosen(t, c, y)}
  BY DEF If
<1>2. \A r : TypeOf(Chosen(t, c, r)) = t
  BY DEF Chosen, Value, TypeOf
<1>3. TypeOf(If(c, x, y)) = t
  BY <1>1, <1>2
<1> QED
  BY <1>3 DEF TypeOf

\* The type of a number is the one it is given.
LEMMA ValueTypes ==
  /\ \A t, n : TypeOf(Num(t, n)) = t
  /\ TypeOf(Yes) = int /\ TypeOf(No) = int
  BY DEF Value, Num, TypeOf, Yes, No

\* A choice evaluates the branch the condition selects.
LEMMA IfYes ==
  ASSUME NEW s, NEW n, NEW y
  PROVE  If(Yes, Num(s, n), y)
           = Num(Common(s, TypeOf(y)), Wrap(Common(s, TypeOf(y)), n))
<1> DEFINE x == Num(s, n)
<1>1. Yes.v = 1 /\ Yes.ok = TRUE /\ x.v = n /\ x.ok = TRUE /\ x.t = s
  BY DEF Yes, Value, Num
<1> HIDE DEF x
<1>2. ~Zero(Yes) /\ (x.ok /\ Yes.ok) = TRUE
  BY <1>1 DEF Zero
<1>3. If(Yes, x, y) = Chosen(Common(x.t, y.t), Yes, x)
  BY <1>2 DEF If
<1>4. \A t : Chosen(t, Yes, x) = Num(t, Wrap(t, n))
  BY <1>1, <1>2, Zenon DEF Chosen, Num
<1>5. If(Yes, x, y) = Num(Common(s, y.t), Wrap(Common(s, y.t), n))
  BY <1>1, <1>3, <1>4
<1> QED
  BY <1>5 DEF x, TypeOf

\* The same, if the condition is false.
LEMMA IfNo ==
  ASSUME NEW x, NEW u, NEW m
  PROVE  If(No, x, Num(u, m))
           = Num(Common(TypeOf(x), u), Wrap(Common(TypeOf(x), u), m))
<1> DEFINE y == Num(u, m)
<1>1. No.v = 0 /\ No.ok = TRUE /\ y.v = m /\ y.ok = TRUE /\ y.t = u
  BY DEF No, Value, Num
<1> HIDE DEF y
<1>2. Zero(No) /\ (y.ok /\ No.ok) = TRUE
  BY <1>1 DEF Zero
<1>3. If(No, x, y) = Chosen(Common(x.t, y.t), No, y)
  BY <1>2 DEF If
<1>4. \A t : Chosen(t, No, y) = Num(t, Wrap(t, m))
  BY <1>1, <1>2, Zenon DEF Chosen, Num
<1>5. If(No, x, y) = Num(Common(x.t, u), Wrap(Common(x.t, u), m))
  BY <1>1, <1>3, <1>4
<1> QED
  BY <1>5 DEF y, TypeOf

\* The constants 1 and 0 are the values of a condition.
LEMMA Literals ==
  /\ Yes = Num(int, 1) /\ No = Num(int, 0)
  /\ Lit(1) = Yes /\ Lit(0) = No
  BY DEF Lit, Yes, No, Num

\* A choice between conditions.
LEMMA Choice ==
  ASSUME NEW x, TypeOf(x) = int
  PROVE  /\ If(Yes, Yes, x) = Yes /\ If(Yes, No, x) = No
         /\ If(No, x, Yes) = Yes /\ If(No, x, No) = No
<1>1. Common(int, int) = int /\ Wrap(int, 0) = 0 /\ Wrap(int, 1) = 1
  BY WideTypes, CommonWithInt, SmallFit
<1>2. If(Yes, Yes, x) = Yes /\ If(Yes, No, x) = No
  BY <1>1, IfYes, Literals
<1>3. If(No, x, Yes) = Yes /\ If(No, x, No) = No
  BY <1>1, IfNo, Literals
<1> QED
  BY <1>2, <1>3

\* The condition chosen is the value of the choice.
LEMMA Choose ==
  ASSUME NEW v \in {Yes, No}, NEW x, TypeOf(x) = int
  PROVE  If(Yes, v, x) = v /\ If(No, x, v) = v
  BY Choice

\* A choice between two ints is an int.
LEMMA ChoiceTypes ==
  ASSUME NEW x, NEW y, NEW c, TypeOf(x) = int, TypeOf(y) = int
  PROVE  TypeOf(If(c, x, y)) = int
<1>1. Common(int, int) = int
  BY WideTypes, CommonWithInt
<1> QED
  BY <1>1, IfTypes

\* 0 - x in the type of x.
LEMMA Negated ==
  ASSUME NEW s \in Wide, NEW n \in Int
  PROVE  Neg(Num(s, n)) = Calc(s, 0 - Wrap(s, n))
<1> DEFINE x == Num(s, n)
<1>1. Promoted(s) = s /\ Wrap(s, 0) = 0
  BY WideTypes, SmallFit
<1>2. /\ x.t = s /\ x.v = n /\ x.ok = TRUE
      /\ Lit(0).v = 0 /\ Lit(0).ok = TRUE
  BY DEF Value, Num, Lit
<1> HIDE DEF x
<1>3. (Lit(0).ok /\ x.ok) = TRUE
  BY <1>2
<1>4. Neg(x) = Calc(s, 0 - Wrap(s, n))
  BY <1>1, <1>2, <1>3 DEF Neg, SubAs, Calc
<1> QED
  BY <1>4 DEF x

\* The negation of a condition.
LEMMA Inverted == Not(Yes) = No /\ Not(No) = Yes
  BY DEF Not, Yes, No, Zero, Truth, Value, Num

\* A value of type s is below zero exactly if it is less than the constant 0.
LEMMA BelowZero ==
  ASSUME NEW s \in Wide, NEW n \in Int, Fits(s, n)
  PROVE  /\ n < 0 => Less(Num(s, n), Lit(0)) = Yes
         /\ ~(n < 0) => Less(Num(s, n), Lit(0)) = No
         /\ 0 < n => Less(Lit(0), Num(s, n)) = Yes
         /\ ~(0 < n) => Less(Lit(0), Num(s, n)) = No
<1>1. int \in Wide /\ Common(s, int) = s /\ Common(int, s) = s
  BY WideTypes, CommonWithInt
<1>2. Wrap(s, n) = n /\ Wrap(s, 0) = 0
  BY WideTypes, Wraps, SmallFit
<1>3. Lit(0) = Num(int, 0)
  BY DEF Lit, Num
<1>4. /\ n < 0 => Less(Num(s, n), Num(int, 0)) = Yes
      /\ ~(n < 0) => Less(Num(s, n), Num(int, 0)) = No
  BY <1>1, <1>2, Binary
<1>5. /\ 0 < n => Less(Num(int, 0), Num(s, n)) = Yes
      /\ ~(0 < n) => Less(Num(int, 0), Num(s, n)) = No
  BY <1>1, <1>2, Binary
<1> QED
  BY <1>3, <1>4, <1>5

-----------------------------------------------------------------------------
(* The bounds of a type, as the macros compute them.                       *)

\* 1 ? 0 : e is a zero of the type of e.
LEMMA ZeroOf ==
  ASSUME NEW e, TypeOf(e) \in Wide
  PROVE  If(Lit(1), Lit(0), e) = Num(TypeOf(e), 0)
<1>1. Common(int, TypeOf(e)) = TypeOf(e) /\ Wrap(TypeOf(e), 0) = 0
  BY CommonWithInt, SmallFit
<1>2. If(Yes, Num(int, 0), e) = Num(Common(int, TypeOf(e)), Wrap(Common(int, TypeOf(e)), 0))
  BY IfYes
<1> QED
  BY <1>1, <1>2, Literals

\* 0 or 1 converted to the type of an expression, and -1.
LEMMA Converted ==
  ASSUME NEW e, TypeOf(e) \in Wide
  PROVE  /\ _GL_INT_CONVERT(e, Lit(0)) = Num(TypeOf(e), 0)
         /\ _GL_INT_CONVERT(e, Lit(1)) = Num(TypeOf(e), 1)
         /\ TypeOf(e).signed => _GL_INT_NEGATE_CONVERT(e, Lit(1)) = Num(TypeOf(e), -1)
         /\ ~TypeOf(e).signed =>
              _GL_INT_NEGATE_CONVERT(e, Lit(1)) = Num(TypeOf(e), TypeOf(e).max)
<1> DEFINE t == TypeOf(e)
<1> HIDE DEF t
<1>1. /\ t \in Wide /\ int \in Wide /\ Common(t, int) = t
      /\ Wrap(t, 0) = 0 /\ Wrap(t, 1) = 1 /\ Fits(t, 0) /\ Fits(t, 1)
      /\ t.signed => Fits(t, -1)
  BY WideTypes, CommonWithInt, SmallFit DEF t
<1>2. /\ Lit(0) = Num(int, 0) /\ Lit(1) = Num(int, 1)
      /\ If(Lit(1), Lit(0), e) = Num(t, 0)
  BY Literals, ZeroOf DEF t
<1>3. /\ Add(Num(t, 0), Num(int, 0)) = Calc(t, 0 + 0)
      /\ Add(Num(t, 0), Num(int, 1)) = Calc(t, 0 + 1)
      /\ Sub(Num(t, 0), Num(int, 1)) = Calc(t, 0 - 1)
  BY <1>1, Binary
<1>4. Calc(t, 0) = Num(t, 0) /\ Calc(t, 1) = Num(t, 1)
  BY <1>1, CalcIs
<1>5. t.signed => Calc(t, -1) = Num(t, -1)
  BY <1>1, CalcIs
<1>6. ~t.signed => Calc(t, -1) = Num(t, t.max)
  <2>1. TypeFacts(t)
    BY <1>1, WideTypes
  <2>2. ~t.signed => Calc(t, -1) = Num(t, Wrap(t, -1))
    BY <1>1, CalcIs
  <2>3. t.min - t.size <= -1 /\ -1 < t.min => Wrap(t, -1) = -1 + t.size
    BY <2>1, Wraps
  <2>4. ~t.signed => t.min - t.size <= -1 /\ -1 < t.min /\ -1 + t.size = t.max
    BY <2>1 DEF TypeFacts
  <2> QED
    BY <2>2, <2>3, <2>4
<1>7. /\ _GL_INT_CONVERT(e, Lit(0)) = Calc(t, 0)
      /\ _GL_INT_CONVERT(e, Lit(1)) = Calc(t, 1)
      /\ _GL_INT_NEGATE_CONVERT(e, Lit(1)) = Calc(t, -1)
  BY <1>2, <1>3 DEF _GL_INT_CONVERT, _GL_INT_NEGATE_CONVERT
<1> QED
  BY <1>4, <1>5, <1>6, <1>7 DEF t

\* Whether the type of an expression is signed, as the macro finds out.
LEMMA ExprSigned ==
  ASSUME NEW e, TypeOf(e) \in Wide
  PROVE  /\ TypeOf(e).signed => EXPR_SIGNED(e) = Yes
         /\ ~TypeOf(e).signed => EXPR_SIGNED(e) = No
<1> DEFINE t == TypeOf(e)
<1> HIDE DEF t
<1>1. /\ t \in Wide /\ TypeFacts(t) /\ t.max >= 1 /\ Fits(t, t.max)
      /\ t.signed => Fits(t, -1)
  <2>1. t \in Wide /\ TypeFacts(t) /\ t.max >= 1 /\ (t.signed => Fits(t, -1))
    BY WideTypes, WideMax, SmallFit DEF t
  <2>2. Fits(t, t.max)
    BY <2>1 DEF TypeFacts, Fits
  <2> QED
    BY <2>1, <2>2
<1>2. t.signed => Less(Num(t, -1), Lit(0)) = Yes
  BY <1>1, BelowZero
<1>3. ~t.signed => Less(Num(t, t.max), Lit(0)) = No
  <2>1. t.max \in Int /\ ~(t.max < 0)
    BY <1>1 DEF TypeFacts
  <2> QED
    BY <1>1, <2>1, BelowZero
<1>4. /\ t.signed => _GL_INT_NEGATE_CONVERT(e, Lit(1)) = Num(t, -1)
      /\ ~t.signed => _GL_INT_NEGATE_CONVERT(e, Lit(1)) = Num(t, t.max)
  BY Converted DEF t
<1> QED
  BY <1>2, <1>3, <1>4 DEF EXPR_SIGNED, t

\* The greatest value of a signed type, computed without overflow.
LEMMA SignedMaximum ==
  ASSUME NEW e, TypeOf(e) \in Wide
  PROVE  /\ TypeOf(_GL_SIGNED_INT_MAXIMUM(e)) = TypeOf(e)
         /\ TypeOf(e).signed =>
              _GL_SIGNED_INT_MAXIMUM(e) = Num(TypeOf(e), TypeOf(e).max)
<1> DEFINE t == TypeOf(e)
           p == 2 ^ (t.bits - 2)
           shifted == Shl(_GL_INT_CONVERT(e, Lit(1)), Promoted(e.t).bits - 2)
<1>1. /\ t \in Wide /\ int \in Wide /\ Common(t, int) = t /\ TypeFacts(t) /\ Promoted(t) = t
      /\ t.bits \in {IntBits, LongBits} /\ t = Type(t.bits, t.signed)
  BY WideTypes, CommonWithInt
<1>2. shifted = Calc(t, p)
  <2>1. /\ _GL_INT_CONVERT(e, Lit(1)).t = t /\ _GL_INT_CONVERT(e, Lit(1)).v = 1
        /\ _GL_INT_CONVERT(e, Lit(1)).ok = TRUE
    BY Converted DEF Num, Value
  <2>2. e.t = t
    BY DEF TypeOf
  <2>3. p \in Int
    <3>1. t.bits - 2 \in 0..LongBits
      BY <1>1, WidthAssumption
    <3> QED
      BY <3>1, PowersPositive
  <2>4. 1 * 2 ^ (t.bits - 2) = p
    BY <2>3
  <2> QED
    BY <1>1, <2>1, <2>2, <2>4 DEF Shl, Calc
<1>3. _GL_SIGNED_INT_MAXIMUM(e) = Add(Mul(Sub(shifted, Lit(1)), Lit(2)), Lit(1))
  BY DEF _GL_SIGNED_INT_MAXIMUM
<1> HIDE DEF shifted
<1>4. TypeOf(_GL_SIGNED_INT_MAXIMUM(e)) = t
  <2>1. TypeOf(shifted) = t /\ TypeOf(Lit(1)) = int /\ TypeOf(Lit(2)) = int
    BY <1>2 DEF TypeOf, Calc, Arith, Value, Lit
  <2> HIDE DEF t
  <2> QED
    BY <1>1, <1>3, <2>1, ArithTypes
<1>5. ASSUME t.signed
      PROVE  _GL_SIGNED_INT_MAXIMUM(e) = Num(t, t.max)
  <2>1. p \in Nat /\ p >= 2 /\ t.max = 2 * p - 1
    <3>1. t.bits \in {ShortBits, IntBits, LongBits} /\ t.signed \in BOOLEAN
      BY <1>1 DEF TypeFacts
    <3>2. Type(t.bits, TRUE).max = 2 ^ (t.bits - 1) - 1
      BY <3>1, ArithmeticTypes
    <3>3. t.max = 2 ^ (t.bits - 1) - 1
      BY <1>1, <1>5, <3>1, <3>2
    <3>4. /\ t.bits - 3 \in 0..LongBits /\ t.bits - 2 \in 1..LongBits
          /\ t.bits - 1 \in 1..LongBits
          /\ t.bits - 2 - 1 = t.bits - 3 /\ t.bits - 1 - 1 = t.bits - 2
      BY <1>1, WidthAssumption
    <3>5. 2 ^ (t.bits - 1) = 2 * p /\ p = 2 * 2 ^ (t.bits - 3)
      BY <3>4, PowerAssumption
    <3>6. 2 ^ (t.bits - 3) \in Nat \ {0}
      BY <3>4, PowersPositive
    <3> DEFINE q == 2 ^ (t.bits - 3)
               m == 2 ^ (t.bits - 1)
    <3>7. m = 2 * p /\ p = 2 * q /\ q \in Nat \ {0} /\ t.max = m - 1
      BY <3>3, <3>5, <3>6
    <3> HIDE DEF p, t, q, m
    <3> QED
      BY <3>7
  <2> HIDE DEF p, t
  <2>2. /\ Fits(t, p) /\ Fits(t, p - 1) /\ Fits(t, 2 * p - 2) /\ Fits(t, 2 * p - 1)
        /\ Fits(t, 1) /\ Fits(t, 2)
    BY <1>1, <2>1, <1>5 DEF TypeFacts, Fits
  <2>3. /\ Wrap(t, p) = p /\ Wrap(t, p - 1) = p - 1 /\ Wrap(t, 2 * p - 2) = 2 * p - 2
        /\ Wrap(t, 1) = 1 /\ Wrap(t, 2) = 2
    BY <1>1, <2>1, <2>2, Wraps
  <2>4. shifted = Num(t, p)
    BY <1>1, <1>2, <2>1, <2>2, CalcIs
  <2>5. Lit(1) = Num(int, 1) /\ Lit(2) = Num(int, 2)
    BY DEF Lit, Num
  <2>6. Sub(Num(t, p), Num(int, 1)) = Calc(t, p - 1)
    BY <1>1, <2>1, <2>3, Binary
  <2>7. Calc(t, p - 1) = Num(t, p - 1)
    BY <1>1, <2>1, <2>2, CalcIs
  <2>8. Mul(Num(t, p - 1), Num(int, 2)) = Calc(t, (p - 1) * 2)
    BY <1>1, <2>1, <2>3, Binary
  <2>9. Calc(t, (p - 1) * 2) = Num(t, 2 * p - 2)
    <3>1. (p - 1) * 2 = 2 * p - 2 /\ 2 * p - 2 \in Int
      BY <2>1
    <3> QED
      BY <1>1, <2>2, <3>1, CalcIs
  <2>10. Add(Num(t, 2 * p - 2), Num(int, 1)) = Calc(t, 2 * p - 2 + 1)
    BY <1>1, <2>1, <2>3, Binary
  <2>11. Calc(t, 2 * p - 2 + 1) = Num(t, t.max)
    <3>1. 2 * p - 2 + 1 = t.max /\ t.max \in Int /\ Fits(t, t.max)
      BY <2>1, <2>2
    <3> QED
      BY <1>1, <3>1, CalcIs
  <2> QED
    BY <1>3, <2>4, <2>5, <2>6, <2>7, <2>8, <2>9, <2>10, <2>11
<1>6. _GL_SIGNED_INT_MAXIMUM(e) = Num(t, t.max) \/ ~t.signed
  BY <1>5
<1> QED
  BY <1>4, <1>6

\* The least value of the type of an expression, as the macro computes it.
LEMMA Minimum ==
  ASSUME NEW e, TypeOf(e) \in Wide
  PROVE  _GL_INT_MINIMUM(e) = Num(TypeOf(e), TypeOf(e).min)
<1> DEFINE t == TypeOf(e)
           least == Complement(_GL_SIGNED_INT_MAXIMUM(e))
<1> HIDE DEF t
<1>1. /\ t \in Wide /\ int \in Wide /\ Common(t, int) = t /\ Common(t, t) = t
      /\ TypeFacts(t) /\ Promoted(t) = t
  <2>1. t \in Wide
    BY DEF t
  <2>2. Common(t, t) \in {t, t}
    BY <2>1, CommonTypes
  <2> QED
    BY <2>1, <2>2, WideTypes, CommonWithInt
<1>2. TypeOf(_GL_SIGNED_INT_MAXIMUM(e)) = t
  BY SignedMaximum DEF t
<1>3. TypeOf(least) = t
  <2>1. TypeOf(Neg(_GL_SIGNED_INT_MAXIMUM(e))) = t
    BY <1>1, <1>2 DEF Neg, SubAs, Arith, Value, TypeOf
  <2>2. TypeOf(Lit(1)) = int
    BY DEF Lit, Value, TypeOf
  <2> QED
    BY <1>1, <2>1, <2>2, ArithTypes DEF Complement
<1>4. _GL_INT_MINIMUM(e) = If(EXPR_SIGNED(e), least, Num(t, 0))
  BY Converted DEF _GL_INT_MINIMUM, t
<1>5. TypeOf(Num(t, 0)) = t
  BY ValueTypes
<1>6. CASE t.signed
  <2>1. least = Num(t, t.min)
    <3>1. Fits(t, t.max) /\ Fits(t, -t.max) /\ Fits(t, t.min) /\ t.min = -t.max - 1
      BY <1>1, <1>6 DEF TypeFacts, Fits
    <3>2. t.max \in Int /\ t.min \in Int
      BY <1>1 DEF TypeFacts
    <3>3. Wrap(t, t.max) = t.max /\ Wrap(t, -t.max) = -t.max /\ Wrap(t, 1) = 1
      BY <1>1, <3>1, <3>2, Wraps, SmallFit
    <3>4. _GL_SIGNED_INT_MAXIMUM(e) = Num(t, t.max)
      BY <1>6, SignedMaximum DEF t
    <3>5. Neg(Num(t, t.max)) = Calc(t, -t.max)
      <4>1. 0 - t.max = -t.max
        BY <3>2
      <4>2. Neg(Num(t, t.max)) = Calc(t, 0 - Wrap(t, t.max))
        BY <1>1, <3>2, Negated
      <4> QED
        BY <3>3, <4>1, <4>2
    <3>6. Calc(t, -t.max) = Num(t, -t.max)
      BY <1>1, <3>1, <3>2, CalcIs
    <3>7. Sub(Num(t, -t.max), Num(int, 1)) = Calc(t, -t.max - 1)
      BY <1>1, <3>2, <3>3, Binary
    <3>8. Calc(t, t.min) = Num(t, t.min)
      BY <1>1, <3>1, <3>2, CalcIs
    <3>9. Lit(1) = Num(int, 1)
      BY Literals
    <3> QED
      BY <3>1, <3>4, <3>5, <3>6, <3>7, <3>8, <3>9 DEF Complement
  <2>2. EXPR_SIGNED(e) = Yes
    BY <1>6, ExprSigned DEF t
  <2>3. t.min \in Int /\ Fits(t, t.min)
    BY <1>1 DEF TypeFacts, Fits
  <2>4. Wrap(t, t.min) = t.min
    BY <1>1, <2>3, Wraps
  <2>5. If(Yes, Num(t, t.min), Num(t, 0)) = Num(t, t.min)
    BY <1>1, <1>5, <2>4, IfYes
  <2> QED
    BY <1>4, <2>1, <2>2, <2>5 DEF t
<1>7. CASE ~t.signed
  <2>1. EXPR_SIGNED(e) = No
    BY <1>7, ExprSigned DEF t
  <2>2. Wrap(t, 0) = 0 /\ t.min = 0
    BY <1>1, <1>7, SmallFit DEF TypeFacts
  <2>3. If(No, least, Num(t, 0)) = Num(t, 0)
    <3> HIDE DEF least
    <3> QED
      BY <1>1, <1>3, <2>2, IfNo
  <2> QED
    BY <1>4, <2>1, <2>2, <2>3 DEF t
<1> QED
  BY <1>6, <1>7

\* The greatest value of the type of an expression, as the macro computes it.
LEMMA Maximum ==
  ASSUME NEW e, TypeOf(e) \in Wide
  PROVE  _GL_INT_MAXIMUM(e) = Num(TypeOf(e), TypeOf(e).max)
<1> DEFINE t == TypeOf(e)
           most == _GL_SIGNED_INT_MAXIMUM(e)
           other == _GL_INT_NEGATE_CONVERT(e, Lit(1))
<1> HIDE DEF t
<1>1. /\ t \in Wide /\ Common(t, t) = t /\ TypeFacts(t)
  <2>1. t \in Wide
    BY DEF t
  <2>2. Common(t, t) \in {t, t}
    BY <2>1, CommonTypes
  <2> QED
    BY <2>1, <2>2, WideTypes
<1>2. /\ TypeOf(most) = t
      /\ t.signed => most = Num(t, t.max) /\ other = Num(t, -1)
      /\ ~t.signed => other = Num(t, t.max)
  BY SignedMaximum, Converted DEF t
<1>3. TypeOf(other) = t
  BY <1>1, <1>2, ValueTypes
<1>4. t.max \in Int /\ Fits(t, t.max)
  BY <1>1 DEF TypeFacts, Fits
<1>5. Wrap(t, t.max) = t.max
  BY <1>1, <1>4, Wraps
<1>6. _GL_INT_MAXIMUM(e) = If(EXPR_SIGNED(e), most, other)
  BY DEF _GL_INT_MAXIMUM
<1> HIDE DEF most, other
<1>7. CASE t.signed
  <2>1. EXPR_SIGNED(e) = Yes
    BY <1>7, ExprSigned DEF t
  <2>2. If(Yes, Num(t, t.max), other) = Num(t, t.max)
    BY <1>1, <1>3, <1>5, IfYes
  <2> QED
    BY <1>2, <1>6, <1>7, <2>1, <2>2 DEF t
<1>8. CASE ~t.signed
  <2>1. EXPR_SIGNED(e) = No
    BY <1>8, ExprSigned DEF t
  <2>2. If(No, most, Num(t, t.max)) = Num(t, t.max)
    BY <1>1, <1>2, <1>5, IfNo
  <2> QED
    BY <1>2, <1>6, <1>8, <2>1, <2>2 DEF t
<1> QED
  BY <1>7, <1>8

-----------------------------------------------------------------------------
(* Two operands and their common type.                                     *)

\* The value of an operand of type s and what it is in the type c.
Converts(c, s, n) ==
  /\ Common(c, s) = c /\ Common(s, c) = c
  /\ Wrap(c, n) \in Int /\ Fits(c, Wrap(c, n)) /\ n <= c.max
  /\ c.signed => c.min <= n /\ Wrap(c, n) = n
  /\ ~c.signed => /\ n >= 0 => Wrap(c, n) = n
                  /\ n < 0 => Wrap(c, n) = n + c.size
                  /\ -c.size <= 2 * n

\* A value of a type that the common type carries, converted to it.
LEMMA Converting ==
  ASSUME NEW s \in Wide, NEW c \in Wide, NEW n \in Int, Fits(s, n), Carries(c, s),
         Common(c, s) = c, Common(s, c) = c
  PROVE  Converts(c, s, n)
<1>1. TypeFacts(s) /\ TypeFacts(c)
  BY WideTypes
<1>2. n <= c.max /\ (c.signed => c.min <= n) /\ (~c.signed => -c.size <= 2 * n)
  BY <1>1 DEF Carries, TypeFacts, Fits
<1>3. /\ Wrap(c, n) \in Int /\ Fits(c, Wrap(c, n))
      /\ Fits(c, n) => Wrap(c, n) = n
      /\ c.min - c.size <= n /\ n < c.min => Wrap(c, n) = n + c.size
  BY <1>1, Wraps
<1>4. c.signed \/ n >= 0 => Fits(c, n)
  BY <1>1, <1>2 DEF TypeFacts, Fits
<1>5. ~c.signed /\ n < 0 => c.min - c.size <= n /\ n < c.min
  BY <1>1, <1>2 DEF TypeFacts
<1>6. c.signed \in BOOLEAN
  BY <1>1 DEF TypeFacts
<1> QED
  BY <1>2, <1>3, <1>4, <1>5, <1>6 DEF Converts

\* An operand: a value of a type the macros are used with.
Operand(s, n) == s \in Wide /\ n \in Int /\ Fits(s, n)

\* Two operands in their common type.
LEMMA CommonOperands ==
  ASSUME NEW s, NEW u, NEW n, NEW m, Operand(s, n), Operand(u, m), NEW c, c = Common(s, u)
  PROVE  /\ c \in Wide /\ TypeFacts(c) /\ c.max >= 1
         /\ Common(u, s) = c /\ Common(c, c) = c
         /\ Converts(c, s, n) /\ Converts(c, u, m)
         /\ c.signed \/ n >= 0 \/ m >= 0
<1>1. s \in Wide /\ n \in Int /\ Fits(s, n) /\ u \in Wide /\ m \in Int /\ Fits(u, m)
  BY DEF Operand
<1>2. /\ c \in Wide /\ c \in {s, u} /\ Common(u, s) = c /\ Carries(c, s) /\ Carries(c, u)
  BY <1>1, CommonTypes
<1>3. TypeFacts(c) /\ c.max >= 1
  BY <1>2, WideTypes, WideMax
<1>4. \A t \in Wide : Common(t, t) = t
  BY CommonTypes
<1>5. Common(c, s) = c /\ Common(s, c) = c /\ Common(c, u) = c /\ Common(u, c) = c
  <2>1. CASE c = s
    BY <1>1, <1>2, <1>4, <2>1
  <2>2. CASE c = u
    BY <1>1, <1>2, <1>4, <2>2
  <2> QED
    BY <1>2, <2>1, <2>2
<1>6. Converts(c, s, n) /\ Converts(c, u, m)
  BY <1>1, <1>2, <1>5, Converting
<1>7. c.signed \/ n >= 0 \/ m >= 0
  BY <1>1, <1>2, <1>3 DEF TypeFacts, Fits
<1> QED
  BY <1>2, <1>3, <1>4, <1>6, <1>7

\* The bounds the macros compute are those of the common type.
LEMMA CommonBounds ==
  ASSUME NEW s \in Wide, NEW u \in Wide, NEW n, NEW m, NEW e,
         e = _GL_INT_CONVERT(Num(s, n), Num(u, m))
  PROVE  /\ _GL_INT_MINIMUM(e) = Num(Common(s, u), Common(s, u).min)
         /\ _GL_INT_MAXIMUM(e) = Num(Common(s, u), Common(s, u).max)
<1>1. TypeOf(Num(s, n)) = s /\ TypeOf(Num(u, m)) = u /\ TypeOf(Num(s, 0)) = s
  BY ValueTypes
<1>2. e = Add(Num(s, 0), Num(u, m))
  BY <1>1, ZeroOf DEF _GL_INT_CONVERT
<1>3. TypeOf(e) = Common(s, u) /\ Common(s, u) \in Wide
  BY <1>1, <1>2, ArithTypes, CommonTypes
<1> QED
  BY <1>3, Minimum, Maximum

\* A comparison of two values of a common type.
LEMMA Compare ==
  ASSUME NEW s \in Wide, NEW u \in Wide, NEW n \in Int, NEW m \in Int,
         NEW k \in Int, NEW l \in Int, NEW c, c = Common(s, u), Wrap(c, n) = k, Wrap(c, m) = l
  PROVE  /\ k < l => Less(Num(s, n), Num(u, m)) = Yes
         /\ ~(k < l) => Less(Num(s, n), Num(u, m)) = No
         /\ k < l => AtMost(Num(u, m), Num(s, n)) = No
         /\ ~(k < l) => AtMost(Num(u, m), Num(s, n)) = Yes
<1>1. /\ k < l => Less(Num(s, n), Num(u, m)) = Yes
      /\ ~(k < l) => Less(Num(s, n), Num(u, m)) = No
  BY Binary
<1> QED
  BY <1>1, Inverted DEF AtMost

\* A sum and a difference of two values in a common type.
LEMMA Calculate ==
  ASSUME NEW s \in Wide, NEW u \in Wide, NEW n \in Int, NEW m \in Int,
         NEW k \in Int, NEW l \in Int, NEW c \in Wide, c = Common(s, u),
         Wrap(c, n) = k, Wrap(c, m) = l
  PROVE  /\ Fits(c, k + l) => Add(Num(s, n), Num(u, m)) = Num(c, k + l)
         /\ Fits(c, k - l) => Sub(Num(s, n), Num(u, m)) = Num(c, k - l)
         /\ ~c.signed => /\ Add(Num(s, n), Num(u, m)) = Num(c, Wrap(c, k + l))
                         /\ Sub(Num(s, n), Num(u, m)) = Num(c, Wrap(c, k - l))
<1>1. /\ Add(Num(s, n), Num(u, m)) = Calc(c, k + l)
      /\ Sub(Num(s, n), Num(u, m)) = Calc(c, k - l)
  BY Binary
<1>2. k + l \in Int /\ k - l \in Int
  OBVIOUS
<1>3. /\ Fits(c, k + l) => Calc(c, k + l) = Num(c, k + l)
      /\ Fits(c, k - l) => Calc(c, k - l) = Num(c, k - l)
  BY <1>2, CalcIs
<1>4. ~c.signed => /\ Calc(c, k + l) = Num(c, Wrap(c, k + l))
                   /\ Calc(c, k - l) = Num(c, Wrap(c, k - l))
  BY <1>2, CalcIs
<1> QED
  BY <1>1, <1>3, <1>4

\* Where both values are values of the common type already.
LEMMA Within ==
  ASSUME NEW s \in Wide, NEW u \in Wide, NEW n \in Int, NEW m \in Int,
         Wrap(Common(s, u), n) = n, Wrap(Common(s, u), m) = m
  PROVE  LET x == Num(s, n)
             y == Num(u, m)
             c == Common(s, u)
         IN  /\ Fits(c, n + m) => Add(x, y) = Num(c, n + m)
             /\ Fits(c, n - m) => Sub(x, y) = Num(c, n - m)
             /\ n < m => Less(x, y) = Yes /\ AtMost(y, x) = No
             /\ ~(n < m) => Less(x, y) = No /\ AtMost(y, x) = Yes
<1>1. Common(s, u) \in Wide
  BY CommonTypes
<1>2. /\ Fits(Common(s, u), n + m) => Add(Num(s, n), Num(u, m)) = Num(Common(s, u), n + m)
      /\ Fits(Common(s, u), n - m) => Sub(Num(s, n), Num(u, m)) = Num(Common(s, u), n - m)
  <2>1. /\ Add(Num(s, n), Num(u, m)) = Calc(Common(s, u), n + m)
        /\ Sub(Num(s, n), Num(u, m)) = Calc(Common(s, u), n - m)
    BY Binary
  <2>2. n + m \in Int /\ n - m \in Int
    OBVIOUS
  <2> QED
    BY <1>1, <2>1, <2>2, CalcIs
<1>3. /\ n < m => Less(Num(s, n), Num(u, m)) = Yes /\ AtMost(Num(u, m), Num(s, n)) = No
      /\ ~(n < m) => Less(Num(s, n), Num(u, m)) = No /\ AtMost(Num(u, m), Num(s, n)) = Yes
  BY Compare
<1> QED
  BY <1>2, <1>3

-----------------------------------------------------------------------------
(* The macros.                                                             *)

\* What is used of two operands: n of type s and m of type u, which are A and B
\* in their common type c, that goes from lo to hi.
Setting(s, u, n, m, c, lo, hi, A, B) ==
  /\ s \in Wide /\ u \in Wide /\ c \in Wide /\ n \in Int /\ m \in Int
  /\ Fits(s, n) /\ Fits(u, m)
  /\ Common(s, u) = c /\ Common(u, s) = c /\ Common(c, s) = c /\ Common(s, c) = c
  /\ Common(c, u) = c /\ Common(u, c) = c /\ Common(c, c) = c
  /\ lo \in Int /\ hi \in Int /\ A \in Int /\ B \in Int
  /\ Wrap(c, n) = A /\ lo <= A /\ A <= hi /\ n <= hi
  /\ Wrap(c, m) = B /\ lo <= B /\ B <= hi /\ m <= hi
  /\ hi >= 1
  /\ c.signed => lo = -hi - 1 /\ A = n /\ B = m
  /\ ~c.signed => /\ lo = 0 /\ (n >= 0 \/ m >= 0)
                  /\ n >= 0 => A = n
                  /\ n < 0 => A = n + hi + 1 /\ -(hi + 1) <= 2 * n
                  /\ m >= 0 => B = m
                  /\ m < 0 => B = m + hi + 1 /\ -(hi + 1) <= 2 * m
  /\ \A v \in Int :
       /\ Fits(c, v) <=> lo <= v /\ v <= hi
       /\ Wrap(c, v) \in Int /\ lo <= Wrap(c, v) /\ Wrap(c, v) <= hi
       /\ lo <= v /\ v <= hi => Wrap(c, v) = v
       /\ lo - (hi - lo + 1) <= v /\ v < lo => Wrap(c, v) = v + (hi - lo + 1)
       /\ hi < v /\ v <= hi + (hi - lo + 1) => Wrap(c, v) = v - (hi - lo + 1)

\* A type holds the numbers between its bounds, and wraps the others once around.
LEMMA Ranges ==
  ASSUME NEW c \in Wide, NEW lo, NEW hi, lo = c.min, hi = c.max, NEW v \in Int
  PROVE  /\ Fits(c, v) <=> lo <= v /\ v <= hi
         /\ Wrap(c, v) \in Int /\ lo <= Wrap(c, v) /\ Wrap(c, v) <= hi
         /\ lo <= v /\ v <= hi => Wrap(c, v) = v
         /\ lo - (hi - lo + 1) <= v /\ v < lo => Wrap(c, v) = v + (hi - lo + 1)
         /\ hi < v /\ v <= hi + (hi - lo + 1) => Wrap(c, v) = v - (hi - lo + 1)
<1>1. TypeFacts(c)
  BY WideTypes
<1>2. lo \in Int /\ hi \in Int /\ c.size = hi - lo + 1
  BY <1>1 DEF TypeFacts
<1>3. \A x : Fits(c, x) <=> lo <= x /\ x <= hi
  BY DEF Fits
<1>4. /\ Wrap(c, v) \in Int /\ Fits(c, Wrap(c, v))
      /\ Fits(c, v) => Wrap(c, v) = v
      /\ c.min - c.size <= v /\ v < c.min => Wrap(c, v) = v + c.size
      /\ c.max < v /\ v <= c.max + c.size => Wrap(c, v) = v - c.size
  BY <1>1, Wraps
<1> QED
  BY <1>2, <1>3, <1>4

\* Any two operands make a setting.
LEMMA SettingOf ==
  ASSUME NEW s, NEW u, NEW n, NEW m, Operand(s, n), Operand(u, m)
  PROVE  Setting(s, u, n, m, Common(s, u), Common(s, u).min, Common(s, u).max,
                 Wrap(Common(s, u), n), Wrap(Common(s, u), m))
<1> DEFINE c == Common(s, u)
           lo == c.min
           hi == c.max
           A == Wrap(c, n)
           B == Wrap(c, m)
<1>1. s \in Wide /\ n \in Int /\ Fits(s, n) /\ u \in Wide /\ m \in Int /\ Fits(u, m)
  BY DEF Operand
<1>2. /\ c \in Wide /\ TypeFacts(c) /\ c.max >= 1 /\ Common(u, s) = c /\ Common(c, c) = c
      /\ Converts(c, s, n) /\ Converts(c, u, m)
      /\ c.signed \/ n >= 0 \/ m >= 0
  BY CommonOperands
<1> HIDE DEF c
<1>3. lo \in Int /\ hi \in Int /\ hi >= 1 /\ c.size = hi - lo + 1
  BY <1>2 DEF TypeFacts
<1>4. /\ c.signed => lo = -hi - 1
      /\ ~c.signed => lo = 0
  BY <1>2 DEF TypeFacts
<1>5. \A v : Fits(c, v) <=> lo <= v /\ v <= hi
  BY DEF Fits
<1>6. /\ A \in Int /\ lo <= A /\ A <= hi /\ n <= hi
      /\ B \in Int /\ lo <= B /\ B <= hi /\ m <= hi
      /\ Common(c, s) = c /\ Common(s, c) = c /\ Common(c, u) = c /\ Common(u, c) = c
      /\ c.signed => A = n /\ B = m
  BY <1>2, <1>5 DEF Converts
<1>7. ~c.signed => /\ n >= 0 => A = n
                   /\ n < 0 => A = n + c.size /\ -c.size <= 2 * n
                   /\ m >= 0 => B = m
                   /\ m < 0 => B = m + c.size /\ -c.size <= 2 * m
  BY <1>2 DEF Converts
<1>8. ~c.signed => /\ n >= 0 => A = n
                   /\ n < 0 => A = n + hi + 1 /\ -(hi + 1) <= 2 * n
                   /\ m >= 0 => B = m
                   /\ m < 0 => B = m + hi + 1 /\ -(hi + 1) <= 2 * m
  <2> HIDE DEF A, B, lo, hi
  <2>1. ~c.signed => c.size = hi + 1
    BY <1>3, <1>4
  <2> QED
    BY <1>1, <1>3, <1>7, <2>1
<1>9. \A v \in Int :
        /\ Fits(c, v) <=> lo <= v /\ v <= hi
        /\ Wrap(c, v) \in Int /\ lo <= Wrap(c, v) /\ Wrap(c, v) <= hi
        /\ lo <= v /\ v <= hi => Wrap(c, v) = v
        /\ lo - (hi - lo + 1) <= v /\ v < lo => Wrap(c, v) = v + (hi - lo + 1)
        /\ hi < v /\ v <= hi + (hi - lo + 1) => Wrap(c, v) = v - (hi - lo + 1)
  BY <1>2, Ranges
<1>10. Common(s, u) = c
  BY DEF c
<1> HIDE DEF lo, hi, A, B
<1>11. Wrap(c, n) = A /\ Wrap(c, m) = B
  BY DEF A, B
<1>12. Setting(s, u, n, m, c, lo, hi, A, B)
  BY <1>1, <1>2, <1>3, <1>4, <1>6, <1>8, <1>9, <1>10, <1>11 DEF Setting
<1> QED
  BY <1>12 DEF c, lo, hi, A, B

\* What a macro says of an expression whose exact value is v: that it does not
\* fit the type, and the value of the expression if it does.
Exactly(res, t, v) ==
  /\ Fits(t, v) => res.over = No /\ res.r = Num(t, v)
  /\ ~Fits(t, v) => res.over = Yes

\* The macros' tests for the sign of the common type and of both operands.
LEMMA SignTests ==
  ASSUME NEW s, NEW u, NEW n, NEW m, NEW c, NEW lo, NEW hi, NEW A, NEW B,
         Setting(s, u, n, m, c, lo, hi, A, B)
  PROVE  /\ c.signed => Less(Num(c, lo), Lit(0)) = Yes
         /\ ~c.signed => Less(Num(c, lo), Lit(0)) = No
         /\ n < 0 => Less(Num(s, n), Lit(0)) = Yes
         /\ ~(n < 0) => Less(Num(s, n), Lit(0)) = No
         /\ m < 0 => Less(Num(u, m), Lit(0)) = Yes
         /\ ~(m < 0) => Less(Num(u, m), Lit(0)) = No
<1>1. /\ s \in Wide /\ u \in Wide /\ c \in Wide /\ n \in Int /\ m \in Int /\ lo \in Int
      /\ Fits(s, n) /\ Fits(u, m)
  BY DEF Setting
<1>2. Fits(c, lo) /\ (c.signed => lo < 0) /\ (~c.signed => ~(lo < 0))
  BY DEF Setting
<1> QED
  BY <1>1, <1>2, BelowZero

\* The sum in the range of a signed type.
LEMMA AddRange ==
  ASSUME NEW s, NEW u, NEW n, NEW m, NEW c, NEW lo, NEW hi, NEW A, NEW B,
         Setting(s, u, n, m, c, lo, hi, A, B), c.signed
  PROVE  LET over == INT_ADD_RANGE_OVERFLOW(Num(s, n), Num(u, m), Num(c, lo), Num(c, hi))
         IN  (Fits(c, n + m) => over = No) /\ (~Fits(c, n + m) => over = Yes)
<1> DEFINE a == Num(s, n)
           b == Num(u, m)
           low == Less(a, Sub(Num(c, lo), b))
           high == Less(Sub(Num(c, hi), b), a)
           over == INT_ADD_RANGE_OVERFLOW(a, b, Num(c, lo), Num(c, hi))
<1>1. over = If(Less(b, Lit(0)), low, high)
  BY DEF INT_ADD_RANGE_OVERFLOW
<1>2. TypeOf(low) = int /\ TypeOf(high) = int
  BY ConditionTypes
<1>3. /\ s \in Wide /\ u \in Wide /\ c \in Wide /\ n \in Int /\ m \in Int
      /\ lo \in Int /\ hi \in Int /\ Common(c, u) = c /\ Common(s, c) = c /\ Common(c, s) = c
  BY DEF Setting
<1>4. /\ lo = -hi - 1 /\ Wrap(c, n) = n /\ Wrap(c, m) = m /\ hi >= 1
      /\ lo <= n /\ n <= hi /\ lo <= m /\ m <= hi
  BY DEF Setting
<1>5. \A v \in Int : /\ Fits(c, v) <=> lo <= v /\ v <= hi
                     /\ lo <= v /\ v <= hi => Wrap(c, v) = v
  BY DEF Setting
<1>6. Wrap(c, lo) = lo /\ Wrap(c, hi) = hi /\ Wrap(c, n) = n /\ Wrap(c, m) = m
  BY <1>3, <1>4, <1>5
<1> HIDE DEF over
<1>7. CASE m < 0
  <2>1. lo - m \in Int /\ Fits(c, lo - m) /\ Wrap(c, lo - m) = lo - m
    BY <1>3, <1>4, <1>5, <1>7
  <2>2. Sub(Num(c, lo), b) = Num(c, lo - m)
    BY <1>3, <1>6, <2>1, Within
  <2>3. /\ n < lo - m => low = Yes
        /\ ~(n < lo - m) => low = No
    BY <1>3, <1>6, <2>1, <2>2, Within
  <2>4. Less(b, Lit(0)) = Yes
    BY <1>7, SignTests
  <2>5. over = low
    BY <1>1, <1>2, <2>3, <2>4, Choose
  <2>6. Fits(c, n + m) <=> ~(n < lo - m)
    BY <1>3, <1>4, <1>5, <1>7
  <2> QED
    BY <2>3, <2>5, <2>6 DEF over
<1>8. CASE ~(m < 0)
  <2>1. hi - m \in Int /\ Fits(c, hi - m) /\ Wrap(c, hi - m) = hi - m
    BY <1>3, <1>4, <1>5, <1>8
  <2>2. Sub(Num(c, hi), b) = Num(c, hi - m)
    BY <1>3, <1>6, <2>1, Within
  <2>3. /\ hi - m < n => high = Yes
        /\ ~(hi - m < n) => high = No
    BY <1>3, <1>6, <2>1, <2>2, Within
  <2>4. Less(b, Lit(0)) = No
    BY <1>8, SignTests
  <2>5. over = high
    BY <1>1, <1>2, <2>3, <2>4, Choose
  <2>6. Fits(c, n + m) <=> ~(hi - m < n)
    BY <1>3, <1>4, <1>5, <1>8
  <2> QED
    BY <2>3, <2>5, <2>6 DEF over
<1> QED
  BY <1>7, <1>8

\* What a calculation in the common type gives: the value if it fits, and
\* otherwise, in an unsigned type, one size less or more.
LEMMA CalculateIn ==
  ASSUME NEW s, NEW u, NEW n, NEW m, NEW c, NEW lo, NEW hi, NEW A, NEW B,
         Setting(s, u, n, m, c, lo, hi, A, B)
  PROVE  /\ c.signed /\ Fits(c, n + m) => Add(Num(s, n), Num(u, m)) = Num(c, n + m)
         /\ c.signed /\ Fits(c, n - m) => Sub(Num(s, n), Num(u, m)) = Num(c, n - m)
         /\ ~c.signed =>
              /\ Add(Num(s, n), Num(u, m)) =
                   Num(c, IF A + B <= hi THEN A + B ELSE A + B - (hi + 1))
              /\ Sub(Num(s, n), Num(u, m)) =
                   Num(c, IF 0 <= A - B THEN A - B ELSE A - B + (hi + 1))
<1>1. /\ s \in Wide /\ u \in Wide /\ c \in Wide /\ n \in Int /\ m \in Int
      /\ lo \in Int /\ hi \in Int /\ Common(s, u) = c
      /\ A \in Int /\ B \in Int /\ Wrap(c, n) = A /\ Wrap(c, m) = B
  BY DEF Setting
<1>2. ASSUME c.signed
      PROVE  /\ Fits(c, n + m) => Add(Num(s, n), Num(u, m)) = Num(c, n + m)
             /\ Fits(c, n - m) => Sub(Num(s, n), Num(u, m)) = Num(c, n - m)
  <2>1. Wrap(c, n) = n /\ Wrap(c, m) = m
    BY <1>2 DEF Setting
  <2> QED
    BY <1>1, <2>1, Calculate
<1>3. ASSUME ~c.signed
      PROVE  /\ Wrap(c, A + B) = (IF A + B <= hi THEN A + B ELSE A + B - (hi + 1))
             /\ Wrap(c, A - B) = (IF 0 <= A - B THEN A - B ELSE A - B + (hi + 1))
             /\ Add(Num(s, n), Num(u, m)) = Num(c, Wrap(c, A + B))
             /\ Sub(Num(s, n), Num(u, m)) = Num(c, Wrap(c, A - B))
  <2>1. lo = 0 /\ 0 <= A /\ A <= hi /\ 0 <= B /\ B <= hi
    BY <1>3 DEF Setting
  <2>2. \A v \in Int : /\ lo <= v /\ v <= hi => Wrap(c, v) = v
                       /\ lo - (hi - lo + 1) <= v /\ v < lo => Wrap(c, v) = v + (hi - lo + 1)
                       /\ hi < v /\ v <= hi + (hi - lo + 1) => Wrap(c, v) = v - (hi - lo + 1)
    BY DEF Setting
  <2>3. Wrap(c, A + B) = (IF A + B <= hi THEN A + B ELSE A + B - (hi + 1))
    BY <1>1, <2>1, <2>2
  <2>4. Wrap(c, A - B) = (IF 0 <= A - B THEN A - B ELSE A - B + (hi + 1))
    BY <1>1, <2>1, <2>2
  <2>5. /\ Add(Num(s, n), Num(u, m)) = Num(c, Wrap(c, A + B))
        /\ Sub(Num(s, n), Num(u, m)) = Num(c, Wrap(c, A - B))
    BY <1>1, <1>3, Calculate
  <2> QED
    BY <2>3, <2>4, <2>5
<1> QED
  BY <1>2, <1>3

\* The sum in an unsigned type: it overflows exactly if the low-order bits are
\* less than an operand that is not negative, and none of it if one is negative.
LEMMA AddWrapped ==
  ASSUME NEW s, NEW u, NEW n, NEW m, NEW c, NEW lo, NEW hi, NEW A, NEW B,
         Setting(s, u, n, m, c, lo, hi, A, B), ~c.signed
  PROVE  LET a == Num(s, n)
             b == Num(u, m)
             over == If(Less(a, Lit(0)), AtMost(b, Add(a, b)),
                        If(Less(b, Lit(0)), AtMost(a, Add(a, b)), Less(Add(a, b), b)))
         IN  /\ Fits(c, n + m) => over = No /\ Add(a, b) = Num(c, n + m)
             /\ ~Fits(c, n + m) => over = Yes
<1> DEFINE a == Num(s, n)
           b == Num(u, m)
           W == IF A + B <= hi THEN A + B ELSE A + B - (hi + 1)
           rest == If(Less(b, Lit(0)), AtMost(a, Add(a, b)), Less(Add(a, b), b))
           over == If(Less(a, Lit(0)), AtMost(b, Add(a, b)), rest)
<1>1. /\ s \in Wide /\ u \in Wide /\ c \in Wide /\ n \in Int /\ m \in Int
      /\ hi \in Int /\ A \in Int /\ B \in Int
      /\ Common(c, u) = c /\ Common(u, c) = c /\ Common(s, c) = c /\ Common(c, s) = c
      /\ Wrap(c, n) = A /\ Wrap(c, m) = B
  BY DEF Setting
<1>2. /\ 0 <= A /\ A <= hi /\ n <= hi /\ 0 <= B /\ B <= hi /\ m <= hi
      /\ n >= 0 \/ m >= 0
      /\ n >= 0 => A = n
      /\ n < 0 => A = n + hi + 1 /\ -(hi + 1) <= 2 * n
      /\ m >= 0 => B = m
      /\ m < 0 => B = m + hi + 1 /\ -(hi + 1) <= 2 * m
  BY DEF Setting
<1>3. W \in Int /\ 0 <= W /\ W <= hi
  BY <1>1, <1>2
<1>4. \A v \in Int : /\ Fits(c, v) <=> 0 <= v /\ v <= hi
                     /\ 0 <= v /\ v <= hi => Wrap(c, v) = v
  BY DEF Setting
<1>5. Add(a, b) = Num(c, W)
  BY CalculateIn
<1>6. Fits(c, n + m) <=> 0 <= n + m /\ n + m <= hi
  BY <1>1, <1>4
<1> HIDE DEF W
<1>7. Wrap(c, W) = W
  BY <1>3, <1>4
<1>8. /\ W < A => AtMost(a, Num(c, W)) = No
      /\ ~(W < A) => AtMost(a, Num(c, W)) = Yes
      /\ W < B => AtMost(b, Num(c, W)) = No /\ Less(Num(c, W), b) = Yes
      /\ ~(W < B) => AtMost(b, Num(c, W)) = Yes /\ Less(Num(c, W), b) = No
  BY <1>1, <1>3, <1>7, Compare
<1>9. TypeOf(rest) = int /\ TypeOf(AtMost(b, Add(a, b))) = int
  <2>1. TypeOf(AtMost(a, Add(a, b))) = int /\ TypeOf(Less(Add(a, b), b)) = int
    BY ConditionTypes
  <2> QED
    BY <2>1, ChoiceTypes, ConditionTypes
<1>10. /\ n < 0 => Less(a, Lit(0)) = Yes
       /\ ~(n < 0) => Less(a, Lit(0)) = No
       /\ m < 0 => Less(b, Lit(0)) = Yes
       /\ ~(m < 0) => Less(b, Lit(0)) = No
  BY SignTests
<1>11. CASE n < 0
  <2>1. over = AtMost(b, Num(c, W))
    <3> HIDE DEF rest
    <3> QED
      BY <1>5, <1>8, <1>9, <1>10, <1>11, Choose
  <2>2. W < B <=> 0 <= n + m /\ n + m <= hi
    BY <1>1, <1>2, <1>3, <1>11 DEF W
  <2>3. W < B => W = n + m
    BY <1>1, <1>2, <1>3, <1>11 DEF W
  <2> QED
    BY <1>5, <1>6, <1>8, <2>1, <2>2, <2>3
<1>12. CASE ~(n < 0) /\ m < 0
  <2>1. rest = AtMost(a, Num(c, W))
    <3>1. TypeOf(Less(Add(a, b), b)) = int
      BY ConditionTypes
    <3> QED
      BY <1>5, <1>8, <1>10, <1>12, <3>1, Choose
  <2>2. over = rest
    <3>1. rest \in {Yes, No}
      BY <1>8, <2>1
    <3> HIDE DEF rest
    <3> QED
      BY <1>9, <1>10, <1>12, <3>1, Choose
  <2>3. W < A <=> 0 <= n + m /\ n + m <= hi
    BY <1>1, <1>2, <1>3, <1>12 DEF W
  <2>4. W < A => W = n + m
    BY <1>1, <1>2, <1>3, <1>12 DEF W
  <2> QED
    BY <1>5, <1>6, <1>8, <2>1, <2>2, <2>3, <2>4
<1>13. CASE ~(n < 0) /\ ~(m < 0)
  <2>1. rest = Less(Num(c, W), b)
    <3>1. TypeOf(AtMost(a, Add(a, b))) = int
      BY ConditionTypes
    <3> QED
      BY <1>5, <1>8, <1>10, <1>13, <3>1, Choose
  <2>2. over = rest
    <3>1. rest \in {Yes, No}
      BY <1>8, <2>1
    <3> HIDE DEF rest
    <3> QED
      BY <1>9, <1>10, <1>13, <3>1, Choose
  <2>3. ~(W < B) <=> 0 <= n + m /\ n + m <= hi
    BY <1>1, <1>2, <1>3, <1>13 DEF W
  <2>4. ~(W < B) => W = n + m
    BY <1>1, <1>2, <1>3, <1>13 DEF W
  <2> QED
    BY <1>5, <1>6, <1>8, <2>1, <2>2, <2>3, <2>4
<1> QED
  BY <1>11, <1>12, <1>13

Bounded(c, lo, hi) == lo = c.min /\ hi = c.max

\* The bounds INT_<op>_OVERFLOW gives to the macros of one kind of type.
LEMMA BoundsGiven ==
  ASSUME NEW s, NEW u, NEW n, NEW m, NEW c, NEW lo, NEW hi, NEW A, NEW B,
         Setting(s, u, n, m, c, lo, hi, A, B), Bounded(c, lo, hi)
  PROVE  LET a == Num(s, n)
             b == Num(u, m)
         IN  /\ _GL_BINARY_OP_OVERFLOW(a, b, "+") = _GL_ADD_OVERFLOW(a, b, Num(c, lo), Num(c, hi))
             /\ _GL_BINARY_OP_OVERFLOW(a, b, "-") =
                  _GL_SUBTRACT_OVERFLOW(a, b, Num(c, lo), Num(c, hi))
             /\ _GL_BINARY_OP_OVERFLOW(a, b, "*") =
                  _GL_MULTIPLY_OVERFLOW(a, b, Num(c, lo), Num(c, hi))
             /\ _GL_BINARY_OP_OVERFLOW(a, b, "/") =
                  _GL_DIVIDE_OVERFLOW(a, b, Num(c, lo), Num(c, hi))
             /\ _GL_BINARY_OP_OVERFLOW(a, b, "%") =
                  _GL_REMAINDER_OVERFLOW(a, b, Num(c, lo), Num(c, hi))
<1> DEFINE a == Num(s, n)
           b == Num(u, m)
           e == _GL_INT_CONVERT(a, b)
<1>1. _GL_INT_MINIMUM(e) = Num(c, lo) /\ _GL_INT_MAXIMUM(e) = Num(c, hi)
  <2>1. s \in Wide /\ u \in Wide /\ Common(s, u) = c
    BY DEF Setting
  <2> QED
    BY <2>1, CommonBounds DEF Bounded
<1>2. _GL_BINARY_OP_OVERFLOW(a, b, "+") = _GL_ADD_OVERFLOW(a, b, Num(c, lo), Num(c, hi))
  BY <1>1 DEF _GL_BINARY_OP_OVERFLOW
<1>3. _GL_BINARY_OP_OVERFLOW(a, b, "-") = _GL_SUBTRACT_OVERFLOW(a, b, Num(c, lo), Num(c, hi))
  BY <1>1 DEF _GL_BINARY_OP_OVERFLOW
<1>4. _GL_BINARY_OP_OVERFLOW(a, b, "*") = _GL_MULTIPLY_OVERFLOW(a, b, Num(c, lo), Num(c, hi))
  BY <1>1 DEF _GL_BINARY_OP_OVERFLOW
<1>5. _GL_BINARY_OP_OVERFLOW(a, b, "/") = _GL_DIVIDE_OVERFLOW(a, b, Num(c, lo), Num(c, hi))
  BY <1>1 DEF _GL_BINARY_OP_OVERFLOW
<1>6. _GL_BINARY_OP_OVERFLOW(a, b, "%") = _GL_REMAINDER_OVERFLOW(a, b, Num(c, lo), Num(c, hi))
  BY <1>1 DEF _GL_BINARY_OP_OVERFLOW
<1> QED
  BY <1>2, <1>3, <1>4, <1>5, <1>6

\* INT_ADD_OVERFLOW is exact.
LEMMA AddOverflow ==
  ASSUME NEW s, NEW u, NEW n, NEW m, Operand(s, n), Operand(u, m)
  PROVE  Exactly(INT_ADD_OVERFLOW(Num(s, n), Num(u, m)), Common(s, u), n + m)
<1> DEFINE a == Num(s, n)
           b == Num(u, m)
           c == Common(s, u)
           lo == c.min
           hi == c.max
           A == Wrap(c, n)
           B == Wrap(c, m)
           signedOver == INT_ADD_RANGE_OVERFLOW(a, b, Num(c, lo), Num(c, hi))
           unsignedOver == If(Less(a, Lit(0)), AtMost(b, Add(a, b)),
                              If(Less(b, Lit(0)), AtMost(a, Add(a, b)), Less(Add(a, b), b)))
           res == INT_ADD_OVERFLOW(a, b)
<1>1. Setting(s, u, n, m, c, lo, hi, A, B) /\ Bounded(c, lo, hi)
  BY SettingOf DEF Bounded
<1> HIDE DEF c, lo, hi, A, B
<1>2. res.over = If(Less(Num(c, lo), Lit(0)), signedOver, unsignedOver) /\ res.r = Add(a, b)
  <2>1. _GL_BINARY_OP_OVERFLOW(a, b, "+") = _GL_ADD_OVERFLOW(a, b, Num(c, lo), Num(c, hi))
    BY <1>1, BoundsGiven
  <2>2. res.over = _GL_BINARY_OP_OVERFLOW(a, b, "+") /\ res.r = Add(a, b)
    BY DEF INT_ADD_OVERFLOW
  <2>3. _GL_ADD_OVERFLOW(a, b, Num(c, lo), Num(c, hi))
          = If(Less(Num(c, lo), Lit(0)), signedOver, unsignedOver)
    BY DEF _GL_ADD_OVERFLOW
  <2> QED
    BY <2>1, <2>2, <2>3
<1>3. TypeOf(signedOver) = int /\ TypeOf(unsignedOver) = int
  BY ConditionTypes, ChoiceTypes DEF INT_ADD_RANGE_OVERFLOW
<1>4. CASE c.signed
  <2>1. /\ Fits(c, n + m) => signedOver = No
        /\ ~Fits(c, n + m) => signedOver = Yes
    BY <1>1, <1>4, AddRange
  <2>2. Less(Num(c, lo), Lit(0)) = Yes
    BY <1>1, <1>4, SignTests
  <2>3. Fits(c, n + m) => Add(a, b) = Num(c, n + m)
    BY <1>1, <1>4, CalculateIn
  <2> HIDE DEF signedOver, unsignedOver
  <2>4. res.over = signedOver
    BY <1>2, <1>3, <2>1, <2>2, Choose
  <2> QED
    BY <1>2, <2>1, <2>3, <2>4 DEF Exactly, c
<1>5. CASE ~c.signed
  <2>1. /\ Fits(c, n + m) => unsignedOver = No /\ Add(a, b) = Num(c, n + m)
        /\ ~Fits(c, n + m) => unsignedOver = Yes
    BY <1>1, <1>5, AddWrapped
  <2>2. Less(Num(c, lo), Lit(0)) = No
    BY <1>1, <1>5, SignTests
  <2> HIDE DEF signedOver, unsignedOver
  <2>4. res.over = unsignedOver
    BY <1>2, <1>3, <2>1, <2>2, Choose
  <2> QED
    BY <1>2, <2>1, <2>4 DEF Exactly, c
<1> QED
  BY <1>4, <1>5

\* The difference in the range of a signed type.
LEMMA SubtractRange ==
  ASSUME NEW s, NEW u, NEW n, NEW m, NEW c, NEW lo, NEW hi, NEW A, NEW B,
         Setting(s, u, n, m, c, lo, hi, A, B), c.signed
  PROVE  LET over == INT_SUBTRACT_RANGE_OVERFLOW(Num(s, n), Num(u, m), Num(c, lo), Num(c, hi))
         IN  (Fits(c, n - m) => over = No) /\ (~Fits(c, n - m) => over = Yes)
<1> DEFINE a == Num(s, n)
           b == Num(u, m)
           high == Less(Add(Num(c, hi), b), a)
           low == Less(a, Add(Num(c, lo), b))
           over == INT_SUBTRACT_RANGE_OVERFLOW(a, b, Num(c, lo), Num(c, hi))
<1>1. over = If(Less(b, Lit(0)), high, low)
  BY DEF INT_SUBTRACT_RANGE_OVERFLOW
<1>2. TypeOf(low) = int /\ TypeOf(high) = int
  BY ConditionTypes
<1>3. /\ s \in Wide /\ u \in Wide /\ c \in Wide /\ n \in Int /\ m \in Int
      /\ lo \in Int /\ hi \in Int /\ Common(c, u) = c /\ Common(s, c) = c /\ Common(c, s) = c
  BY DEF Setting
<1>4. /\ lo = -hi - 1 /\ Wrap(c, n) = n /\ Wrap(c, m) = m /\ hi >= 1
      /\ lo <= n /\ n <= hi /\ lo <= m /\ m <= hi
  BY DEF Setting
<1>5. \A v \in Int : /\ Fits(c, v) <=> lo <= v /\ v <= hi
                     /\ lo <= v /\ v <= hi => Wrap(c, v) = v
  BY DEF Setting
<1>6. Wrap(c, lo) = lo /\ Wrap(c, hi) = hi /\ Wrap(c, n) = n /\ Wrap(c, m) = m
  BY <1>3, <1>4, <1>5
<1> HIDE DEF over
<1>7. CASE m < 0
  <2>1. hi + m \in Int /\ Fits(c, hi + m) /\ Wrap(c, hi + m) = hi + m
    BY <1>3, <1>4, <1>5, <1>7
  <2>2. Add(Num(c, hi), b) = Num(c, hi + m)
    BY <1>3, <1>6, <2>1, Within
  <2>3. /\ hi + m < n => high = Yes
        /\ ~(hi + m < n) => high = No
    BY <1>3, <1>6, <2>1, <2>2, Within
  <2>4. Less(b, Lit(0)) = Yes
    BY <1>7, SignTests
  <2>5. over = high
    BY <1>1, <1>2, <2>3, <2>4, Choose
  <2>6. Fits(c, n - m) <=> ~(hi + m < n)
    BY <1>3, <1>4, <1>5, <1>7
  <2> QED
    BY <2>3, <2>5, <2>6 DEF over
<1>8. CASE ~(m < 0)
  <2>1. lo + m \in Int /\ Fits(c, lo + m) /\ Wrap(c, lo + m) = lo + m
    BY <1>3, <1>4, <1>5, <1>8
  <2>2. Add(Num(c, lo), b) = Num(c, lo + m)
    BY <1>3, <1>6, <2>1, Within
  <2>3. /\ n < lo + m => low = Yes
        /\ ~(n < lo + m) => low = No
    BY <1>3, <1>6, <2>1, <2>2, Within
  <2>4. Less(b, Lit(0)) = No
    BY <1>8, SignTests
  <2>5. over = low
    BY <1>1, <1>2, <2>3, <2>4, Choose
  <2>6. Fits(c, n - m) <=> ~(n < lo + m)
    BY <1>3, <1>4, <1>5, <1>8
  <2> QED
    BY <2>3, <2>5, <2>6 DEF over
<1> QED
  BY <1>7, <1>8

\* The difference in an unsigned type.
LEMMA SubtractWrapped ==
  ASSUME NEW s, NEW u, NEW n, NEW m, NEW c, NEW lo, NEW hi, NEW A, NEW B,
         Setting(s, u, n, m, c, lo, hi, A, B), ~c.signed
  PROVE  LET a == Num(s, n)
             b == Num(u, m)
             over == If(Less(a, Lit(0)), Lit(1),
                        If(Less(b, Lit(0)), AtMost(Sub(a, b), a), Less(a, b)))
         IN  /\ Fits(c, n - m) => over = No /\ Sub(a, b) = Num(c, n - m)
             /\ ~Fits(c, n - m) => over = Yes
<1> DEFINE a == Num(s, n)
           b == Num(u, m)
           W == IF 0 <= A - B THEN A - B ELSE A - B + (hi + 1)
           rest == If(Less(b, Lit(0)), AtMost(Sub(a, b), a), Less(a, b))
           over == If(Less(a, Lit(0)), Lit(1), rest)
<1>1. /\ s \in Wide /\ u \in Wide /\ c \in Wide /\ n \in Int /\ m \in Int
      /\ hi \in Int /\ A \in Int /\ B \in Int /\ Common(s, u) = c
      /\ Common(c, u) = c /\ Common(u, c) = c /\ Common(s, c) = c /\ Common(c, s) = c
      /\ Wrap(c, n) = A /\ Wrap(c, m) = B
  BY DEF Setting
<1>2. /\ 0 <= A /\ A <= hi /\ n <= hi /\ 0 <= B /\ B <= hi /\ m <= hi
      /\ n >= 0 \/ m >= 0
      /\ n >= 0 => A = n
      /\ n < 0 => A = n + hi + 1 /\ -(hi + 1) <= 2 * n
      /\ m >= 0 => B = m
      /\ m < 0 => B = m + hi + 1 /\ -(hi + 1) <= 2 * m
  BY DEF Setting
<1>3. W \in Int /\ 0 <= W /\ W <= hi
  BY <1>1, <1>2
<1>4. \A v \in Int : /\ Fits(c, v) <=> 0 <= v /\ v <= hi
                     /\ 0 <= v /\ v <= hi => Wrap(c, v) = v
  BY DEF Setting
<1>5. Sub(a, b) = Num(c, W)
  BY CalculateIn
<1>6. Fits(c, n - m) <=> 0 <= n - m /\ n - m <= hi
  BY <1>1, <1>4
<1> HIDE DEF W
<1>7. Wrap(c, W) = W
  BY <1>3, <1>4
<1>8. /\ A < W => AtMost(Num(c, W), a) = No
      /\ ~(A < W) => AtMost(Num(c, W), a) = Yes
  BY <1>1, <1>3, <1>7, Compare
<1>9. /\ A < B => Less(a, b) = Yes
      /\ ~(A < B) => Less(a, b) = No
  BY <1>1, Compare
<1>10. TypeOf(AtMost(Sub(a, b), a)) = int /\ TypeOf(Less(a, b)) = int
  BY ConditionTypes
<1>11. TypeOf(rest) = int /\ TypeOf(Lit(1)) = int /\ Lit(1) = Yes
  BY <1>10, ChoiceTypes, Literals, ValueTypes
<1>12. /\ n < 0 => Less(a, Lit(0)) = Yes
       /\ ~(n < 0) => Less(a, Lit(0)) = No
       /\ m < 0 => Less(b, Lit(0)) = Yes
       /\ ~(m < 0) => Less(b, Lit(0)) = No
  BY SignTests
<1>13. CASE n < 0
  <2>1. over = Yes
    <3> HIDE DEF rest
    <3> QED
      BY <1>11, <1>12, <1>13, Choose
  <2>2. ~Fits(c, n - m)
    BY <1>1, <1>2, <1>6, <1>13
  <2> QED
    BY <2>1, <2>2
<1>14. CASE ~(n < 0) /\ m < 0
  <2>1. rest = AtMost(Num(c, W), a)
    BY <1>5, <1>8, <1>10, <1>12, <1>14, Choose
  <2>2. over = rest
    <3>1. rest \in {Yes, No}
      BY <1>8, <2>1
    <3> HIDE DEF rest
    <3> QED
      BY <1>11, <1>12, <1>14, <3>1, Choose
  <2>3. A < W <=> 0 <= n - m /\ n - m <= hi
    BY <1>1, <1>2, <1>3, <1>14 DEF W
  <2>4. A < W => W = n - m
    BY <1>1, <1>2, <1>3, <1>14 DEF W
  <2> QED
    BY <1>5, <1>6, <1>8, <2>1, <2>2, <2>3, <2>4
<1>15. CASE ~(n < 0) /\ ~(m < 0)
  <2>1. rest = Less(a, b)
    BY <1>5, <1>9, <1>10, <1>12, <1>15, Choose
  <2>2. over = rest
    <3>1. rest \in {Yes, No}
      BY <1>9, <2>1
    <3> HIDE DEF rest
    <3> QED
      BY <1>11, <1>12, <1>15, <3>1, Choose
  <2>3. ~(A < B) <=> 0 <= n - m /\ n - m <= hi
    BY <1>1, <1>2, <1>15
  <2>4. ~(A < B) => W = n - m
    BY <1>1, <1>2, <1>15 DEF W
  <2> QED
    BY <1>5, <1>6, <1>9, <2>1, <2>2, <2>3, <2>4
<1> QED
  BY <1>13, <1>14, <1>15

\* INT_SUBTRACT_OVERFLOW is exact.
LEMMA SubtractOverflow ==
  ASSUME NEW s, NEW u, NEW n, NEW m, Operand(s, n), Operand(u, m)
  PROVE  Exactly(INT_SUBTRACT_OVERFLOW(Num(s, n), Num(u, m)), Common(s, u), n - m)
<1> DEFINE a == Num(s, n)
           b == Num(u, m)
           c == Common(s, u)
           lo == c.min
           hi == c.max
           A == Wrap(c, n)
           B == Wrap(c, m)
           signedOver == INT_SUBTRACT_RANGE_OVERFLOW(a, b, Num(c, lo), Num(c, hi))
           unsignedOver == If(Less(a, Lit(0)), Lit(1),
                              If(Less(b, Lit(0)), AtMost(Sub(a, b), a), Less(a, b)))
           res == INT_SUBTRACT_OVERFLOW(a, b)
<1>1. Setting(s, u, n, m, c, lo, hi, A, B) /\ Bounded(c, lo, hi)
  BY SettingOf DEF Bounded
<1> HIDE DEF c, lo, hi, A, B
<1>2. res.over = If(Less(Num(c, lo), Lit(0)), signedOver, unsignedOver) /\ res.r = Sub(a, b)
  <2>1. _GL_BINARY_OP_OVERFLOW(a, b, "-") = _GL_SUBTRACT_OVERFLOW(a, b, Num(c, lo), Num(c, hi))
    BY <1>1, BoundsGiven
  <2>2. res.over = _GL_BINARY_OP_OVERFLOW(a, b, "-") /\ res.r = Sub(a, b)
    BY DEF INT_SUBTRACT_OVERFLOW
  <2>3. _GL_SUBTRACT_OVERFLOW(a, b, Num(c, lo), Num(c, hi))
          = If(Less(Num(c, lo), Lit(0)), signedOver, unsignedOver)
    BY DEF _GL_SUBTRACT_OVERFLOW
  <2> QED
    BY <2>1, <2>2, <2>3
<1>3. TypeOf(signedOver) = int /\ TypeOf(unsignedOver) = int
  <2>1. TypeOf(Lit(1)) = int
    BY Literals, ValueTypes
  <2> QED
    BY <2>1, ConditionTypes, ChoiceTypes DEF INT_SUBTRACT_RANGE_OVERFLOW
<1>4. CASE c.signed
  <2>1. /\ Fits(c, n - m) => signedOver = No
        /\ ~Fits(c, n - m) => signedOver = Yes
    BY <1>1, <1>4, SubtractRange
  <2>2. Less(Num(c, lo), Lit(0)) = Yes
    BY <1>1, <1>4, SignTests
  <2>3. Fits(c, n - m) => Sub(a, b) = Num(c, n - m)
    BY <1>1, <1>4, CalculateIn
  <2> HIDE DEF signedOver, unsignedOver
  <2>4. res.over = signedOver
    BY <1>2, <1>3, <2>1, <2>2, Choose
  <2> QED
    BY <1>2, <2>1, <2>3, <2>4 DEF Exactly, c
<1>5. CASE ~c.signed
  <2>1. /\ Fits(c, n - m) => unsignedOver = No /\ Sub(a, b) = Num(c, n - m)
        /\ ~Fits(c, n - m) => unsignedOver = Yes
    BY <1>1, <1>5, SubtractWrapped
  <2>2. Less(Num(c, lo), Lit(0)) = No
    BY <1>1, <1>5, SignTests
  <2> HIDE DEF signedOver, unsignedOver
  <2>4. res.over = unsignedOver
    BY <1>2, <1>3, <2>1, <2>2, Choose
  <2> QED
    BY <1>2, <2>1, <2>4 DEF Exactly, c
<1> QED
  BY <1>4, <1>5

\* The negation of an operand is calculated in its own type.
LEMMA NegateOverflow ==
  ASSUME NEW s, NEW n, Operand(s, n)
  PROVE  /\ Fits(s, -n) => INT_NEGATE_OVERFLOW(Num(s, n)) = No /\ Neg(Num(s, n)) = Num(s, -n)
         /\ ~Fits(s, -n) => INT_NEGATE_OVERFLOW(Num(s, n)) = Yes
<1> DEFINE a == Num(s, n)
           lo == s.min
           hi == s.max
           signedOver == Less(a, Neg(Num(s, hi)))
           unsignedOver == Less(Lit(0), a)
<1>1. s \in Wide /\ n \in Int /\ Fits(s, n) /\ TypeFacts(s) /\ Common(s, s) = s
  BY WideTypes, CommonTypes DEF Operand
<1>2. INT_NEGATE_OVERFLOW(a) = If(Less(Num(s, lo), Lit(0)), signedOver, unsignedOver)
  <2>1. TypeOf(a) = s
    BY ValueTypes
  <2>2. _GL_INT_MINIMUM(a) = Num(s, lo) /\ _GL_INT_MAXIMUM(a) = Num(s, hi)
    BY <1>1, <2>1, Minimum, Maximum
  <2> HIDE DEF a
  <2> QED
    BY <2>2 DEF INT_NEGATE_OVERFLOW, INT_NEGATE_RANGE_OVERFLOW
<1>3. /\ lo \in Int /\ hi \in Int /\ lo <= 0 /\ hi >= 0 /\ lo <= n /\ n <= hi
      /\ s.signed => lo = -hi - 1
      /\ ~s.signed => lo = 0
      /\ \A v : Fits(s, v) <=> lo <= v /\ v <= hi
  BY <1>1 DEF TypeFacts, Fits
<1> HIDE DEF lo, hi
<1>4. \A v \in Int : lo <= v /\ v <= hi => Fits(s, v) /\ Wrap(s, v) = v
  BY <1>1, <1>3, Wraps
<1>5. Wrap(s, n) = n /\ Fits(s, lo) /\ Wrap(s, hi) = hi /\ Wrap(s, 0) = 0
  BY <1>1, <1>3, <1>4
<1>6. Neg(a) = Calc(s, 0 - n) /\ Neg(Num(s, hi)) = Calc(s, 0 - hi)
  BY <1>1, <1>3, <1>5, Negated
<1>7. TypeOf(signedOver) = int /\ TypeOf(unsignedOver) = int
  BY ConditionTypes
<1>8. 0 - n = -n /\ 0 - hi = -hi /\ -n \in Int /\ -hi \in Int
  BY <1>1, <1>3
<1>9. Fits(s, -n) => Neg(a) = Num(s, -n)
  BY <1>1, <1>6, <1>8, CalcIs
<1>10. CASE s.signed
  <2>1. Fits(s, -hi) /\ Wrap(s, -hi) = -hi
    BY <1>3, <1>4, <1>8, <1>10
  <2>2. Neg(Num(s, hi)) = Num(s, -hi)
    BY <1>1, <1>6, <1>8, <2>1, CalcIs
  <2>3. /\ n < -hi => signedOver = Yes
        /\ ~(n < -hi) => signedOver = No
    BY <1>1, <1>5, <1>8, <2>1, <2>2, Within
  <2>4. Less(Num(s, lo), Lit(0)) = Yes
    <3>1. lo < 0
      BY <1>3, <1>10
    <3> QED
      BY <1>1, <1>3, <1>5, <3>1, BelowZero
  <2>5. INT_NEGATE_OVERFLOW(a) = signedOver
    <3>1. signedOver \in {Yes, No}
      BY <2>3
    <3> HIDE DEF signedOver, unsignedOver
    <3> QED
      BY <1>2, <1>7, <2>4, <3>1, Choose
  <2>6. Fits(s, -n) <=> ~(n < -hi)
    BY <1>1, <1>3, <1>8, <1>10
  <2> QED
    BY <1>9, <2>3, <2>5, <2>6
<1>11. CASE ~s.signed
  <2>1. /\ 0 < n => unsignedOver = Yes
        /\ ~(0 < n) => unsignedOver = No
    BY <1>1, BelowZero
  <2>2. Less(Num(s, lo), Lit(0)) = No
    <3>1. ~(lo < 0)
      BY <1>3, <1>11
    <3> QED
      BY <1>1, <1>3, <1>5, <3>1, BelowZero
  <2>3. INT_NEGATE_OVERFLOW(a) = unsignedOver
    <3>1. unsignedOver \in {Yes, No}
      BY <2>1
    <3> HIDE DEF signedOver, unsignedOver
    <3> QED
      BY <1>2, <1>7, <2>2, <3>1, Choose
  <2>4. Fits(s, -n) <=> ~(0 < n)
    BY <1>1, <1>3, <1>8, <1>11
  <2> QED
    BY <1>9, <2>1, <2>3, <2>4
<1> QED
  BY <1>10, <1>11

-----------------------------------------------------------------------------
(* Products and quotients.                                                 *)

\* A product grows with its factor.
LEMMA ProductsGrow ==
  ASSUME NEW p \in Nat, NEW q \in Int, NEW r \in Int
  PROVE  q <= r => q * p <= r * p
  OBVIOUS

\* What the whole part of a quotient bounds.
LEMMA WholePart ==
  ASSUME NEW k \in Nat, NEW p \in Nat \ {0}
  PROVE  /\ k \div p \in Nat /\ k \div p <= k
         /\ (k \div p) * p <= k /\ k < ((k \div p) + 1) * p
         /\ p >= 2 => 2 * (k \div p) <= k
         /\ k < p => k \div p = 0
         /\ p <= k => k \div p >= 1
         /\ p = 1 => k \div p = k
<1> DEFINE d == k \div p
<1>1. d \in Int /\ k = d * p + (k % p) /\ (k % p) \in 0..(p - 1)
  OBVIOUS
<1> HIDE DEF d
<1>2. d * p <= k /\ k < d * p + p
  BY <1>1
<1>3. (d + 1) * p = d * p + p
  BY <1>1
<1>4. d >= 0
  <2>1. d < 0 => (d + 1) * p <= 0
    BY <1>1, ProductsGrow
  <2> QED
    BY <1>1, <1>2, <1>3, <2>1
<1>5. p >= 2 => d * 2 <= d * p
  BY <1>1, <1>4
<1>6. d * 1 <= d * p
  BY <1>1, <1>4
<1>7. d >= 1 => 1 * p <= d * p
  BY <1>1, ProductsGrow
<1>8. d <= 0 => d = 0
  BY <1>1, <1>4
<1>9. d * 0 = 0 /\ 0 * p = 0
  BY <1>1
<1>10. k < p => d = 0
  BY <1>1, <1>2, <1>4, <1>7
<1>11. p <= k => d >= 1
  BY <1>1, <1>2, <1>4, <1>8, <1>9
<1>12. p = 1 => d = k
  BY <1>1, <1>2
<1> QED
  BY <1>1, <1>2, <1>3, <1>4, <1>5, <1>6, <1>10, <1>11, <1>12 DEF d

\* Which multiples of p a number reaches.
LEMMA WholeBound ==
  ASSUME NEW k \in Nat, NEW p \in Nat \ {0}, NEW q \in Int
  PROVE  q * p <= k <=> q <= k \div p
<1> DEFINE d == k \div p
<1>1. d \in Int /\ d * p <= k /\ k < (d + 1) * p
  BY WholePart
<1> HIDE DEF d
<1>2. q <= d => q * p <= d * p
  BY <1>1, ProductsGrow
<1>3. d + 1 <= q => (d + 1) * p <= q * p
  BY <1>1, ProductsGrow
<1>4. q <= d \/ d + 1 <= q
  BY <1>1
<1>5. q * p \in Int /\ d * p \in Int /\ (d + 1) * p \in Int
  BY <1>1
<1> QED
  BY <1>1, <1>2, <1>3, <1>4, <1>5 DEF d

\* C truncates a quotient: it is the whole part of that of the sizes.
LEMMA Truncates ==
  ASSUME NEW n \in Int, NEW m \in Int
  PROVE  /\ n >= 0 /\ m > 0 => Quotient(n, m) = n \div m
         /\ n < 0 /\ m > 0 => Quotient(n, m) = -((-n) \div m)
         /\ n >= 0 /\ m < 0 => Quotient(n, m) = -(n \div (-m))
         /\ n < 0 /\ m < 0 => Quotient(n, m) = (-n) \div (-m)
<1>1. CASE n >= 0 /\ m > 0
  <2>1. ~(n < 0) /\ ~(m < 0)
    BY <1>1
  <2> QED
    BY <1>1, <2>1 DEF Quotient
<1>2. CASE n < 0 /\ m > 0
  <2>1. n < 0 /\ ~(m < 0) /\ ~(n >= 0)
    BY <1>2
  <2> QED
    BY <1>2, <2>1 DEF Quotient
<1>3. CASE n >= 0 /\ m < 0
  <2>1. ~(n < 0) /\ m < 0 /\ ~(m > 0)
    BY <1>3
  <2> QED
    BY <1>3, <2>1 DEF Quotient
<1>4. CASE n < 0 /\ m < 0
  <2>1. n < 0 /\ m < 0 /\ ~(n >= 0) /\ ~(m > 0)
    BY <1>4
  <2> QED
    BY <1>4, <2>1 DEF Quotient
<1>5. CASE m = 0
  BY <1>5
<1> QED
  BY <1>1, <1>2, <1>3, <1>4, <1>5

\* A quotient's sign and size.
LEMMA QuotientBounds ==
  ASSUME NEW n \in Int, NEW m \in Int, m # 0
  PROVE  /\ Quotient(n, m) \in Int
         /\ n >= 0 => Quotient(n, m) <= n /\ -n <= Quotient(n, m)
         /\ n <= 0 => Quotient(n, m) <= -n /\ n <= Quotient(n, m)
         /\ n >= 0 /\ m > 0 => 0 <= Quotient(n, m)
         /\ n < 0 /\ m > 0 => Quotient(n, m) <= 0
         /\ n < 0 /\ m # -1 => 2 * Quotient(n, m) <= -n
<1>1. CASE n >= 0 /\ m > 0
  <2> DEFINE d == n \div m
  <2>1. d \in Nat /\ d <= n
    BY <1>1, WholePart
  <2>2. Quotient(n, m) = d
    BY <1>1, Truncates
  <2> HIDE DEF d
  <2> QED
    BY <1>1, <2>1, <2>2
<1>2. CASE n < 0 /\ m > 0
  <2> DEFINE d == (-n) \div m
  <2>1. d \in Nat /\ d <= -n
    <3>1. -n \in Nat /\ m \in Nat \ {0}
      BY <1>2
    <3> QED
      BY <3>1, WholePart
  <2>2. Quotient(n, m) = -d
    BY <1>2, Truncates
  <2> HIDE DEF d
  <2> QED
    BY <1>2, <2>1, <2>2
<1>3. CASE n >= 0 /\ m < 0
  <2> DEFINE d == n \div (-m)
  <2>1. d \in Nat /\ d <= n
    <3>1. n \in Nat /\ -m \in Nat \ {0}
      BY <1>3
    <3> QED
      BY <3>1, WholePart
  <2>2. Quotient(n, m) = -d
    BY <1>3, Truncates
  <2> HIDE DEF d
  <2> QED
    BY <1>3, <2>1, <2>2
<1>4. CASE n < 0 /\ m < 0
  <2> DEFINE d == (-n) \div (-m)
  <2>1. d \in Nat /\ d <= -n /\ (m # -1 => 2 * d <= -n)
    <3>1. -n \in Nat /\ -m \in Nat \ {0} /\ (m # -1 => -m >= 2)
      BY <1>4
    <3> QED
      BY <3>1, WholePart
  <2>2. Quotient(n, m) = d
    BY <1>4, Truncates
  <2> HIDE DEF d
  <2> QED
    BY <1>4, <2>1, <2>2
<1> QED
  BY <1>1, <1>2, <1>3, <1>4

\* Division in the common type.
LEMMA Divides ==
  ASSUME NEW s \in Wide, NEW u \in Wide, NEW n \in Int, NEW m \in Int,
         Wrap(Common(s, u), m) # 0
  PROVE  Div(Num(s, n), Num(u, m))
           = Calc(Common(s, u), Quotient(Wrap(Common(s, u), n), Wrap(Common(s, u), m)))
<1> DEFINE x == Num(s, n)
           y == Num(u, m)
           c == Common(s, u)
<1>1. x.t = s /\ x.v = n /\ x.ok = TRUE /\ y.t = u /\ y.v = m /\ y.ok = TRUE
  BY DEF Num, Value
<1>2. (x.ok /\ y.ok) = TRUE
  BY <1>1
<1> HIDE DEF x, y
<1>3. Div(x, y) = Calc(c, Quotient(Wrap(c, n), Wrap(c, m)))
  BY <1>1, <1>2 DEF Div, DivAs, Calc
<1> QED
  BY <1>3 DEF x, y

\* A quotient that fits the common type.
LEMMA DividesWithin ==
  ASSUME NEW s \in Wide, NEW u \in Wide, NEW n \in Int, NEW m \in Int,
         Wrap(Common(s, u), n) = n, Wrap(Common(s, u), m) = m, m # 0,
         Fits(Common(s, u), Quotient(n, m))
  PROVE  Div(Num(s, n), Num(u, m)) = Num(Common(s, u), Quotient(n, m))
<1>1. Common(s, u) \in Wide
  BY CommonTypes
<1>2. Quotient(n, m) \in Int
  BY QuotientBounds
<1>3. Div(Num(s, n), Num(u, m)) = Calc(Common(s, u), Quotient(n, m))
  BY Divides
<1> QED
  BY <1>1, <1>2, <1>3, CalcIs

\* A comparison with a constant.
LEMMA EqualTo ==
  ASSUME NEW s \in Wide, NEW n \in Int, Fits(s, n), NEW k \in Int, Fits(s, k)
  PROVE  /\ n = k => Equal(Num(s, n), Lit(k)) = Yes
         /\ n # k => Equal(Num(s, n), Lit(k)) = No
<1>1. int \in Wide /\ Common(s, int) = s /\ TypeFacts(s)
  BY WideTypes, CommonWithInt
<1>2. Wrap(s, n) = n /\ Wrap(s, k) = k
  BY <1>1, Wraps
<1>3. Lit(k) = Num(int, k)
  BY DEF Lit, Num
<1>4. /\ n = k => Equal(Num(s, n), Num(int, k)) = Yes
      /\ n # k => Equal(Num(s, n), Num(int, k)) = No
  BY <1>1, <1>2, Binary
<1> QED
  BY <1>3, <1>4

\* && and || of conditions; the second operand need not have a value.
LEMMA Connectives ==
  ASSUME NEW x
  PROVE  /\ And(No, x) = No /\ And(Yes, Yes) = Yes /\ And(Yes, No) = No
         /\ Or(Yes, x) = Yes /\ Or(No, Yes) = Yes /\ Or(No, No) = No
<1>1. Yes.v = 1 /\ Yes.ok = TRUE /\ No.v = 0 /\ No.ok = TRUE
  BY DEF Yes, No, Num, Value
<1>2. Zero(No) /\ ~Zero(Yes)
  BY <1>1 DEF Zero
<1>3. /\ Truth(TRUE, TRUE) = Yes /\ Truth(FALSE, TRUE) = No
  BY DEF Truth, Yes, No, Num
<1>4. And(No, x) = Truth(FALSE, TRUE)
  BY <1>1, <1>2 DEF And, Truth
<1>5. And(Yes, Yes) = Truth(TRUE, TRUE) /\ And(Yes, No) = Truth(FALSE, TRUE)
  BY <1>1, <1>2 DEF And, Truth
<1>6. Or(Yes, x) = Truth(TRUE, TRUE)
  BY <1>1, <1>2 DEF Or, Truth
<1>7. Or(No, Yes) = Truth(TRUE, TRUE) /\ Or(No, No) = Truth(FALSE, TRUE)
  BY <1>1, <1>2 DEF Or, Truth
<1> QED
  BY <1>3, <1>4, <1>5, <1>6, <1>7 DEF Truth

\* The product in the range of the common type, whatever its kind, unless the
\* operands of an unsigned one have opposite signs.
LEMMA MultiplyRange ==
  ASSUME NEW s, NEW u, NEW n, NEW m, NEW c, NEW lo, NEW hi, NEW A, NEW B,
         Setting(s, u, n, m, c, lo, hi, A, B),
         c.signed \/ (~(n < 0 /\ 0 < m) /\ ~(m < 0 /\ 0 < n))
  PROVE  LET over == INT_MULTIPLY_RANGE_OVERFLOW(Num(s, n), Num(u, m), Num(c, lo), Num(c, hi))
         IN  (Fits(c, n * m) => over = No) /\ (~Fits(c, n * m) => over = Yes)
<1> DEFINE a == Num(s, n)
           b == Num(u, m)
           X1 == Less(a, Div(Num(c, hi), b))
           X2i == Less(Div(Num(c, lo), b), a)
           X2 == If(Equal(b, Lit(-1)), Lit(0), X2i)
           X == If(Less(a, Lit(0)), X1, X2)
           Y1 == Less(a, Div(Num(c, lo), b))
           Y2 == Less(Div(Num(c, hi), b), a)
           Y3 == If(Less(a, Lit(0)), Y1, Y2)
           Y == If(Equal(b, Lit(0)), Lit(0), Y3)
           over == INT_MULTIPLY_RANGE_OVERFLOW(a, b, Num(c, lo), Num(c, hi))
<1>1. over = If(Less(b, Lit(0)), X, Y)
  BY DEF INT_MULTIPLY_RANGE_OVERFLOW
<1>2. /\ TypeOf(X1) = int /\ TypeOf(X2i) = int /\ TypeOf(Y1) = int /\ TypeOf(Y2) = int
      /\ TypeOf(Lit(0)) = int /\ Lit(0) = No
  BY ConditionTypes, Literals, ValueTypes
<1>3. TypeOf(X2) = int /\ TypeOf(Y3) = int
  BY <1>2, ChoiceTypes
<1>4. TypeOf(X) = int /\ TypeOf(Y) = int
  BY <1>2, <1>3, ChoiceTypes
<1>5. /\ s \in Wide /\ u \in Wide /\ c \in Wide /\ n \in Int /\ m \in Int
      /\ Fits(u, m) /\ lo \in Int /\ hi \in Int
      /\ Common(c, u) = c /\ Common(s, c) = c /\ Common(c, s) = c
  BY DEF Setting
<1>6. \A v \in Int : /\ Fits(c, v) <=> lo <= v /\ v <= hi
                     /\ lo <= v /\ v <= hi => Wrap(c, v) = v
  BY DEF Setting
<1>7. /\ hi >= 1 /\ n <= hi /\ m <= hi
      /\ c.signed => lo = -hi - 1 /\ lo <= n /\ lo <= m
      /\ ~c.signed => lo = 0
  BY DEF Setting
<1>8. /\ n < 0 => Less(a, Lit(0)) = Yes
      /\ ~(n < 0) => Less(a, Lit(0)) = No
      /\ m < 0 => Less(b, Lit(0)) = Yes
      /\ ~(m < 0) => Less(b, Lit(0)) = No
  BY SignTests
<1>9. /\ m = 0 => Equal(b, Lit(0)) = Yes
      /\ m # 0 => Equal(b, Lit(0)) = No
      /\ m < 0 /\ m = -1 => Equal(b, Lit(-1)) = Yes
      /\ m < 0 /\ m # -1 => Equal(b, Lit(-1)) = No
  <2>1. Fits(u, 0) /\ (m < 0 => Fits(u, -1))
    <3>1. TypeFacts(u)
      BY <1>5, WideTypes
    <3>2. m < 0 => u.signed
      BY <1>5, <3>1 DEF TypeFacts, Fits
    <3> QED
      BY <1>5, <3>2, SmallFit
  <2> QED
    BY <1>5, <2>1, EqualTo
<1>10. Wrap(c, lo) = lo /\ Wrap(c, hi) = hi /\ (c.signed => Wrap(c, n) = n /\ Wrap(c, m) = m)
  BY <1>5, <1>6, <1>7
<1> HIDE DEF over
<1>11. ASSUME m < 0
       PROVE  /\ X1 \in {Yes, No} /\ n < 0 => over = X1
              /\ X2 \in {Yes, No} /\ ~(n < 0) => over = X2
  <2> HIDE DEF X1, X2, Y
  <2>1. /\ X1 \in {Yes, No} /\ n < 0 => X = X1
        /\ X2 \in {Yes, No} /\ ~(n < 0) => X = X2
    BY <1>2, <1>3, <1>8, Choose
  <2>2. X \in {Yes, No} => over = X
    <3> HIDE DEF X
    <3> QED
      BY <1>1, <1>4, <1>8, <1>11, Choose
  <2> QED
    BY <2>1, <2>2
<1>12. ASSUME 0 < m
       PROVE  /\ Y1 \in {Yes, No} /\ n < 0 => over = Y1
              /\ Y2 \in {Yes, No} /\ ~(n < 0) => over = Y2
  <2> HIDE DEF Y1, Y2, X
  <2>1. /\ Y1 \in {Yes, No} /\ n < 0 => Y3 = Y1
        /\ Y2 \in {Yes, No} /\ ~(n < 0) => Y3 = Y2
    BY <1>2, <1>8, Choose
  <2>2. ~(m < 0) /\ m # 0
    BY <1>5, <1>12
  <2>3. Y3 \in {Yes, No} => Y = Y3
    <3> HIDE DEF Y3
    <3> QED
      BY <1>2, <1>9, <2>2, Choose
  <2>4. Y \in {Yes, No} => over = Y
    <3> HIDE DEF Y
    <3> QED
      BY <1>1, <1>4, <1>8, <2>2, Choose
  <2> QED
    BY <2>1, <2>3, <2>4
<1>13. CASE m < 0 /\ n < 0
  <2> DEFINE q == Quotient(hi, m)
  <2>1. c.signed
    BY <1>13 DEF Setting
  <2>2. q = -(hi \div (-m)) /\ -m \in Nat \ {0} /\ hi \in Nat /\ m # 0
    BY <1>5, <1>7, <1>13, Truncates
  <2>3. q \in Int /\ q <= hi /\ -hi <= q
    BY <1>5, <1>7, <2>2, QuotientBounds
  <2>4. (-n) * (-m) <= hi <=> (-n) <= hi \div (-m)
    <3>1. -n \in Int
      BY <1>5
    <3> QED
      BY <2>2, <3>1, WholeBound
  <2>5. Fits(c, n * m) <=> ~(n < q)
    <3>1. (-n) * (-m) = n * m /\ n * m \in Int /\ n * m >= 0
      BY <1>5, <1>13
    <3>2. hi \div (-m) \in Int
      BY <2>2
    <3> DEFINE d == hi \div (-m)
               w == n * m
    <3>3. q = -d /\ d \in Int /\ w \in Int /\ w >= 0 /\ (w <= hi <=> -n <= d)
      BY <2>2, <2>4, <3>1, <3>2
    <3> HIDE DEF d, q
    <3>4. ~(n < q) <=> -n <= d
      BY <1>5, <3>3
    <3>5. Fits(c, w) <=> w <= hi
      <4> HIDE DEF w
      <4> QED
        BY <1>5, <1>6, <1>7, <3>3
    <3> QED
      BY <3>3, <3>4, <3>5
  <2> HIDE DEF q
  <2>6. Fits(c, q) /\ Wrap(c, q) = q
    BY <1>5, <1>6, <1>7, <2>1, <2>3
  <2>7. Div(Num(c, hi), b) = Num(c, q)
    BY <1>5, <1>10, <2>1, <2>2, <2>6, DividesWithin DEF q
  <2>8. /\ n < q => X1 = Yes
        /\ ~(n < q) => X1 = No
    BY <1>5, <1>10, <2>1, <2>3, <2>6, <2>7, Within
  <2>9. over = X1
    BY <1>11, <1>13, <2>8
  <2> QED
    BY <2>5, <2>8, <2>9 DEF over
<1>14. CASE m = -1 /\ ~(n < 0)
  <2>1. X2 = No
    BY <1>2, <1>9, <1>14, Choose
  <2>2. over = No
    BY <1>11, <1>14, <2>1
  <2>3. Fits(c, n * m)
    <3>1. n * m = -n /\ -n \in Int
      BY <1>5, <1>14
    <3>2. c.signed \/ n = 0
      BY <1>5, <1>14
    <3>3. lo <= -n /\ -n <= hi
      BY <1>5, <1>7, <1>14, <3>2
    <3> QED
      BY <1>6, <3>1, <3>3
  <2> QED
    BY <2>2, <2>3 DEF over
<1>15. CASE m < 0 /\ m # -1 /\ ~(n < 0) /\ c.signed
  <2> DEFINE q == Quotient(lo, m)
  <2>1. lo = -hi - 1 /\ -lo = hi + 1 /\ lo < 0
    BY <1>5, <1>7, <1>15
  <2>2. q = (-lo) \div (-m) /\ -m \in Nat \ {0} /\ -lo \in Nat /\ m # 0
    BY <1>5, <1>7, <1>15, <2>1, Truncates
  <2>3. q \in Int /\ 2 * q <= -lo /\ lo <= q
    BY <1>5, <1>7, <1>15, <2>1, <2>2, QuotientBounds
  <2>4. n * (-m) <= -lo <=> n <= (-lo) \div (-m)
    BY <1>5, <2>2, WholeBound
  <2>5. Fits(c, n * m) <=> ~(q < n)
    <3>1. n * (-m) = -(n * m) /\ n * m \in Int /\ n * m <= 0
      BY <1>5, <1>15
    <3> DEFINE w == n * m
    <3>2. w \in Int /\ w <= 0 /\ (-w <= -lo <=> n <= q)
      BY <2>2, <2>4, <3>1
    <3> HIDE DEF q, w
    <3>3. ~(q < n) <=> n <= q
      BY <1>5, <2>3
    <3>4. Fits(c, w) <=> -w <= -lo
      BY <1>5, <1>6, <1>7, <3>2
    <3> QED
      BY <3>2, <3>3, <3>4 DEF w
  <2> HIDE DEF q
  <2>6. Fits(c, q) /\ Wrap(c, q) = q
    BY <1>5, <1>6, <1>7, <2>1, <2>3
  <2>7. Div(Num(c, lo), b) = Num(c, q)
    BY <1>5, <1>10, <1>15, <2>2, <2>6, DividesWithin DEF q
  <2>8. /\ q < n => X2i = Yes
        /\ ~(q < n) => X2i = No
    BY <1>5, <1>10, <1>15, <2>3, <2>6, <2>7, Within
  <2>9. X2 = X2i
    <3> HIDE DEF X2i
    <3> QED
      BY <1>2, <1>9, <1>15, <2>8, Choose
  <2>10. over = X2
    BY <1>11, <1>15, <2>8, <2>9
  <2> QED
    BY <2>5, <2>8, <2>9, <2>10 DEF over
<1>16. CASE m < 0 /\ m # -1 /\ ~(n < 0) /\ ~c.signed
  <2>1. n = 0 /\ lo = 0
    BY <1>5, <1>7, <1>16
  <2>2. /\ Wrap(c, m) = B /\ B \in Int /\ B > 0 /\ Wrap(c, 0) = 0 /\ Fits(c, 0)
    <3>1. /\ Wrap(c, m) = B /\ B \in Int
          /\ B = m + hi + 1 /\ -(hi + 1) <= 2 * m
      BY <1>16 DEF Setting
    <3>2. Wrap(c, 0) = 0 /\ Fits(c, 0)
      BY <1>6, <1>7, <2>1
    <3> QED
      BY <1>5, <1>7, <3>1, <3>2
  <2>3. Quotient(0, B) = 0
    BY <2>2, QuotientBounds
  <2>4. Div(Num(c, 0), b) = Num(c, 0)
    <3>1. Div(Num(c, 0), b) = Calc(c, Quotient(Wrap(c, 0), Wrap(c, m)))
      BY <1>5, <2>2, Divides
    <3> QED
      BY <1>5, <2>2, <2>3, <3>1, CalcIs
  <2>5. X2i = No
    BY <1>5, <2>1, <2>2, <2>4, Within
  <2>6. X2 = No
    <3> HIDE DEF X2i
    <3> QED
      BY <1>2, <1>9, <1>16, <2>5, Choose
  <2>7. over = No
    BY <1>11, <1>16, <2>6
  <2>8. n * m = 0
    BY <1>5, <2>1
  <2> QED
    BY <2>2, <2>7, <2>8 DEF over
<1>17. CASE m = 0
  <2>1. Y = No
    <3> HIDE DEF Y3
    <3> QED
      BY <1>2, <1>3, <1>9, <1>17, Choose
  <2>2. over = No
    <3> HIDE DEF X, Y
    <3> QED
      BY <1>1, <1>4, <1>8, <1>17, <2>1, Choose
  <2>3. n * m = 0 /\ Fits(c, 0)
    BY <1>5, <1>6, <1>7, <1>17
  <2> QED
    BY <2>2, <2>3 DEF over
<1>18. CASE 0 < m /\ n < 0
  <2> DEFINE q == Quotient(lo, m)
  <2>1. c.signed /\ lo = -hi - 1 /\ -lo = hi + 1 /\ lo < 0
    BY <1>5, <1>7, <1>18
  <2>2. q = -((-lo) \div m) /\ m \in Nat \ {0} /\ -lo \in Nat /\ m # 0
    BY <1>5, <1>7, <1>18, <2>1, Truncates
  <2>3. q \in Int /\ q <= 0 /\ lo <= q
    BY <1>5, <1>7, <1>18, <2>1, <2>2, QuotientBounds
  <2>4. (-n) * m <= -lo <=> -n <= (-lo) \div m
    <3>1. -n \in Int
      BY <1>5
    <3> QED
      BY <2>2, <3>1, WholeBound
  <2>5. Fits(c, n * m) <=> ~(n < q)
    <3>1. (-n) * m = -(n * m) /\ n * m \in Int /\ n * m <= 0
      BY <1>5, <1>18
    <3>2. (-lo) \div m \in Int
      BY <2>2
    <3> DEFINE w == n * m
               d == (-lo) \div m
    <3>3. w \in Int /\ w <= 0 /\ (-w <= -lo <=> -n <= d) /\ q = -d /\ d \in Int
      BY <2>2, <2>4, <3>1, <3>2
    <3> HIDE DEF q, w, d
    <3>4. ~(n < q) <=> -n <= d
      BY <1>5, <3>3
    <3>5. Fits(c, w) <=> -w <= -lo
      BY <1>5, <1>6, <1>7, <3>3
    <3> QED
      BY <3>3, <3>4, <3>5 DEF w
  <2> HIDE DEF q
  <2>6. Fits(c, q) /\ Wrap(c, q) = q
    BY <1>5, <1>6, <1>7, <2>1, <2>3
  <2>7. Div(Num(c, lo), b) = Num(c, q)
    BY <1>5, <1>10, <2>1, <2>2, <2>6, DividesWithin DEF q
  <2>8. /\ n < q => Y1 = Yes
        /\ ~(n < q) => Y1 = No
    BY <1>5, <1>10, <2>1, <2>3, <2>6, <2>7, Within
  <2>9. over = Y1
    BY <1>12, <1>18, <2>8
  <2> QED
    BY <2>5, <2>8, <2>9 DEF over
<1>19. CASE 0 < m /\ ~(n < 0)
  <2> DEFINE q == Quotient(hi, m)
  <2>1. q = hi \div m /\ m \in Nat \ {0} /\ hi \in Nat /\ m # 0
    BY <1>5, <1>7, <1>19, Truncates
  <2>2. q \in Int /\ q <= hi /\ 0 <= q
    <3>1. hi >= 0 /\ m > 0 /\ m # 0
      BY <1>5, <1>7, <1>19
    <3> QED
      BY <1>5, <3>1, QuotientBounds
  <2>3. n * m <= hi <=> n <= hi \div m
    BY <1>5, <2>1, WholeBound
  <2>4. Fits(c, n * m) <=> ~(q < n)
    <3>1. n * m \in Int /\ n * m >= 0
      BY <1>5, <1>19
    <3> DEFINE w == n * m
    <3>2. w \in Int /\ w >= 0 /\ (w <= hi <=> n <= q)
      BY <2>1, <2>3, <3>1
    <3> HIDE DEF q, w
    <3>3. ~(q < n) <=> n <= q
      BY <1>5, <2>2
    <3>4. Fits(c, w) <=> w <= hi
      BY <1>5, <1>6, <1>7, <3>2
    <3> QED
      BY <3>2, <3>3, <3>4 DEF w
  <2> HIDE DEF q
  <2>5. Fits(c, q) /\ Wrap(c, q) = q /\ Wrap(c, n) = n /\ Wrap(c, m) = m
    BY <1>5, <1>6, <1>7, <1>19, <2>2
  <2>6. Div(Num(c, hi), b) = Num(c, q)
    BY <1>5, <1>10, <2>1, <2>5, DividesWithin DEF q
  <2>7. /\ q < n => Y2 = Yes
        /\ ~(q < n) => Y2 = No
    BY <1>5, <2>2, <2>5, <2>6, Within
  <2>8. over = Y2
    BY <1>12, <1>19, <2>7
  <2> QED
    BY <2>4, <2>7, <2>8 DEF over
<1> QED
  BY <1>5, <1>13, <1>14, <1>15, <1>16, <1>17, <1>18, <1>19 DEF over

\* INT_MULTIPLY_OVERFLOW is exact.
LEMMA MultiplyOverflow ==
  ASSUME NEW s, NEW u, NEW n, NEW m, Operand(s, n), Operand(u, m)
  PROVE  Exactly(INT_MULTIPLY_OVERFLOW(Num(s, n), Num(u, m)), Common(s, u), n * m)
<1> DEFINE a == Num(s, n)
           b == Num(u, m)
           c == Common(s, u)
           lo == c.min
           hi == c.max
           A == Wrap(c, n)
           B == Wrap(c, m)
           first == And(Less(a, Lit(0)), Less(Lit(0), b))
           second == And(Less(b, Lit(0)), Less(Lit(0), a))
           opposite == And(Equal(Num(c, lo), Lit(0)), Or(first, second))
           ranged == INT_MULTIPLY_RANGE_OVERFLOW(a, b, Num(c, lo), Num(c, hi))
           res == INT_MULTIPLY_OVERFLOW(a, b)
<1>1. Setting(s, u, n, m, c, lo, hi, A, B) /\ Bounded(c, lo, hi)
  BY SettingOf DEF Bounded
<1> HIDE DEF c, lo, hi, A, B
<1>2. /\ s \in Wide /\ u \in Wide /\ c \in Wide /\ n \in Int /\ m \in Int
      /\ Fits(s, n) /\ Fits(u, m) /\ lo \in Int /\ hi \in Int /\ Common(s, u) = c
      /\ A \in Int /\ B \in Int /\ Wrap(c, n) = A /\ Wrap(c, m) = B
      /\ n * m \in Int
  BY <1>1 DEF Setting
<1>3. \A v \in Int : Fits(c, v) <=> lo <= v /\ v <= hi
  BY <1>1 DEF Setting
<1>4. /\ n <= hi /\ m <= hi
      /\ c.signed => lo = -hi - 1 /\ A = n /\ B = m /\ lo <= n /\ lo <= m
      /\ ~c.signed => /\ lo = 0 /\ (n >= 0 \/ m >= 0)
                      /\ n >= 0 => A = n
                      /\ m >= 0 => B = m
      /\ hi >= 1
  BY <1>1 DEF Setting
<1>5. res.over = Or(opposite, ranged) /\ res.r = Mul(a, b)
  <2>1. _GL_BINARY_OP_OVERFLOW(a, b, "*") = _GL_MULTIPLY_OVERFLOW(a, b, Num(c, lo), Num(c, hi))
    BY <1>1, BoundsGiven
  <2>2. res.over = _GL_BINARY_OP_OVERFLOW(a, b, "*") /\ res.r = Mul(a, b)
    BY DEF INT_MULTIPLY_OVERFLOW
  <2>3. _GL_MULTIPLY_OVERFLOW(a, b, Num(c, lo), Num(c, hi)) = Or(opposite, ranged)
    BY DEF _GL_MULTIPLY_OVERFLOW
  <2> QED
    BY <2>1, <2>2, <2>3
<1>6. Mul(a, b) = Calc(c, A * B)
  BY <1>2, Binary
<1>7. Fits(c, n * m) => Mul(a, b) = Num(c, n * m)
  <2>1. Fits(c, n * m) => A * B = n * m
    <3>1. CASE c.signed \/ (n >= 0 /\ m >= 0)
      BY <1>4, <3>1
    <3>2. CASE ~c.signed /\ n < 0 /\ m >= 0
      <4>1. m > 0 => n * m < 0
        BY <1>2, <3>2
      <4>2. Fits(c, n * m) => n * m >= 0
        BY <1>2, <1>3, <1>4, <3>2
      <4>3. Fits(c, n * m) => m = 0
        BY <1>2, <3>2, <4>1, <4>2
      <4>4. n * 0 = 0 /\ A * 0 = 0
        BY <1>2
      <4>5. B = m
        BY <1>4, <3>2
      <4> QED
        BY <4>3, <4>4, <4>5
    <3>3. CASE ~c.signed /\ m < 0 /\ n >= 0
      <4>1. n > 0 => n * m < 0
        BY <1>2, <3>3
      <4>2. Fits(c, n * m) => n * m >= 0
        BY <1>2, <1>3, <1>4, <3>3
      <4>3. Fits(c, n * m) => n = 0
        BY <1>2, <3>3, <4>1, <4>2
      <4>4. 0 * m = 0 /\ 0 * B = 0
        BY <1>2
      <4>5. A = n
        BY <1>4, <3>3
      <4> QED
        BY <4>3, <4>4, <4>5
    <3> QED
      BY <1>2, <1>4, <3>1, <3>2, <3>3
  <2> QED
    BY <1>2, <1>6, <2>1, CalcIs
<1>8. /\ lo = 0 => Equal(Num(c, lo), Lit(0)) = Yes
      /\ lo # 0 => Equal(Num(c, lo), Lit(0)) = No
  <2>1. Fits(c, lo) /\ Fits(c, 0)
    BY <1>2, <1>3, <1>4, SmallFit
  <2> QED
    BY <1>2, <2>1, EqualTo
<1>9. /\ n < 0 => Less(a, Lit(0)) = Yes
      /\ ~(n < 0) => Less(a, Lit(0)) = No
      /\ 0 < n => Less(Lit(0), a) = Yes
      /\ ~(0 < n) => Less(Lit(0), a) = No
      /\ m < 0 => Less(b, Lit(0)) = Yes
      /\ ~(m < 0) => Less(b, Lit(0)) = No
      /\ 0 < m => Less(Lit(0), b) = Yes
      /\ ~(0 < m) => Less(Lit(0), b) = No
  BY <1>2, BelowZero
<1>10. /\ n < 0 /\ 0 < m => first = Yes
       /\ ~(n < 0 /\ 0 < m) => first = No
       /\ m < 0 /\ 0 < n => second = Yes
       /\ ~(m < 0 /\ 0 < n) => second = No
  BY <1>9, Connectives
<1> HIDE DEF first, second
<1>11. /\ (n < 0 /\ 0 < m) \/ (m < 0 /\ 0 < n) => Or(first, second) = Yes
       /\ ~((n < 0 /\ 0 < m) \/ (m < 0 /\ 0 < n)) => Or(first, second) = No
  BY <1>10, Connectives
<1>12. CASE ~c.signed /\ ((n < 0 /\ 0 < m) \/ (m < 0 /\ 0 < n))
  <2>1. opposite = Yes
    BY <1>4, <1>8, <1>11, <1>12, Connectives
  <2>2. res.over = Yes
    BY <1>5, <2>1, Connectives
  <2>3. ~Fits(c, n * m)
    <3>1. n * m < 0
      BY <1>2, <1>12
    <3> QED
      BY <1>2, <1>3, <1>4, <1>12, <3>1
  <2> QED
    BY <2>2, <2>3 DEF Exactly, c
<1>13. CASE c.signed \/ (~(n < 0 /\ 0 < m) /\ ~(m < 0 /\ 0 < n))
  <2>1. /\ Fits(c, n * m) => ranged = No
        /\ ~Fits(c, n * m) => ranged = Yes
    BY <1>1, <1>13, MultiplyRange
  <2>2. opposite = No
    <3>1. CASE c.signed
      <4>1. lo # 0
        BY <1>2, <1>4, <3>1
      <4> QED
        BY <1>8, <4>1, Connectives
    <3>2. CASE ~c.signed
      <4>1. Or(first, second) = No
        BY <1>11, <1>13, <3>2
      <4>2. Equal(Num(c, lo), Lit(0)) = Yes
        BY <1>4, <1>8, <3>2
      <4> QED
        BY <4>1, <4>2, Connectives
    <3> QED
      BY <3>1, <3>2
  <2>3. res.over = Or(No, ranged)
    BY <1>5, <2>2
  <2> HIDE DEF ranged, opposite
  <2>4. /\ Fits(c, n * m) => res.over = No
        /\ ~Fits(c, n * m) => res.over = Yes
    BY <2>1, <2>3, Connectives
  <2> QED
    BY <1>5, <1>7, <2>4 DEF Exactly, c
<1> QED
  BY <1>12, <1>13

-----------------------------------------------------------------------------
(* Quotients.                                                              *)

\* What the macro says of a quotient: the mathematical one, which is the value
\* of the expression if the operands keep theirs in the common type.
LEMMA MinByMinusOneIs ==
  ASSUME NEW s, NEW u, NEW n, NEW m, NEW c, NEW lo, NEW hi, NEW A, NEW B,
         Setting(s, u, n, m, c, lo, hi, A, B), c.signed, m # 0
  PROVE  /\ n = lo /\ m = -1 =>
              MinByMinusOne(Num(s, n), Num(u, m), Num(c, lo), Num(c, hi)) = Yes
         /\ ~(n = lo /\ m = -1) =>
              MinByMinusOne(Num(s, n), Num(u, m), Num(c, lo), Num(c, hi)) = No
         /\ Fits(c, Quotient(n, m)) <=> ~(n = lo /\ m = -1)
<1> DEFINE a == Num(s, n)
           b == Num(u, m)
           minus == _GL_INT_NEGATE_CONVERT(Num(c, lo), Lit(1))
<1>1. /\ s \in Wide /\ u \in Wide /\ c \in Wide /\ n \in Int /\ m \in Int
      /\ lo \in Int /\ hi \in Int
      /\ Common(u, c) = c /\ Common(s, c) = c
  BY DEF Setting
<1>2. \A v \in Int : /\ Fits(c, v) <=> lo <= v /\ v <= hi
                     /\ lo <= v /\ v <= hi => Wrap(c, v) = v
  BY DEF Setting
<1>3. /\ hi >= 1 /\ n <= hi /\ m <= hi /\ lo = -hi - 1 /\ lo <= n /\ lo <= m
  BY DEF Setting
<1>4. /\ Wrap(c, hi) = hi /\ Wrap(c, n) = n /\ Wrap(c, m) = m /\ Wrap(c, -1) = -1
      /\ Fits(c, -hi) /\ Wrap(c, -hi) = -hi /\ -hi \in Int
  BY <1>1, <1>2, <1>3
<1>5. minus = Num(c, -1)
  <2>1. TypeOf(Num(c, lo)) = c
    BY ValueTypes
  <2> QED
    BY <1>1, <2>1, Converted
<1>6. /\ m = -1 => Equal(b, Num(c, -1)) = Yes
      /\ m # -1 => Equal(b, Num(c, -1)) = No
  BY <1>1, <1>4, Binary
<1>7. Neg(Num(c, hi)) = Num(c, -hi)
  <2>1. Neg(Num(c, hi)) = Calc(c, 0 - hi) /\ 0 - hi = -hi
    BY <1>1, <1>4, Negated
  <2> QED
    BY <1>1, <1>4, <2>1, CalcIs
<1>8. /\ n < -hi => Less(a, Num(c, -hi)) = Yes
      /\ ~(n < -hi) => Less(a, Num(c, -hi)) = No
  BY <1>1, <1>4, Within
<1>9. n < -hi <=> n = lo
  BY <1>1, <1>3
<1>10. MinByMinusOne(a, b, Num(c, lo), Num(c, hi)) = And(Equal(b, Num(c, -1)), Less(a, Num(c, -hi)))
  BY <1>5, <1>7 DEF MinByMinusOne
<1>11. /\ n = lo /\ m = -1 => MinByMinusOne(a, b, Num(c, lo), Num(c, hi)) = Yes
       /\ ~(n = lo /\ m = -1) => MinByMinusOne(a, b, Num(c, lo), Num(c, hi)) = No
  BY <1>6, <1>8, <1>9, <1>10, Connectives
<1>12. Fits(c, Quotient(n, m)) <=> ~(n = lo /\ m = -1)
  <2> DEFINE q == Quotient(n, m)
  <2>1. /\ q \in Int
        /\ n >= 0 => q <= n /\ -n <= q
        /\ n <= 0 => q <= -n /\ n <= q
        /\ n < 0 /\ m # -1 => 2 * q <= -n
    BY <1>1, QuotientBounds
  <2>2. n < 0 /\ m = -1 => q = -n
    <3>1. n < 0 /\ m = -1 => q = (-n) \div 1
      BY <1>1, Truncates
    <3>2. (-n) \div 1 = -n
      BY <1>1
    <3> QED
      BY <3>1, <3>2
  <2> HIDE DEF q
  <2>3. Fits(c, q) <=> lo <= q /\ q <= hi
    BY <1>2, <2>1
  <2>4. CASE n < 0
    BY <1>1, <1>3, <2>1, <2>2, <2>3, <2>4 DEF q
  <2>5. CASE ~(n < 0)
    BY <1>1, <1>3, <2>1, <2>3, <2>5 DEF q
  <2> QED
    BY <2>4, <2>5
<1> QED
  BY <1>11, <1>12

\* The bound of a setting is that of the common type.
LEMMA SettingMax ==
  ASSUME NEW s, NEW u, NEW n, NEW m, NEW c, NEW lo, NEW hi, NEW A, NEW B,
         Setting(s, u, n, m, c, lo, hi, A, B)
  PROVE  hi = c.max
<1>1. c \in Wide /\ hi \in Int /\ lo \in Int /\ lo <= hi
  BY DEF Setting
<1>2. TypeFacts(c)
  BY <1>1, WideTypes
<1>3. c.max \in Int /\ c.min \in Int /\ c.min <= c.max
  BY <1>2 DEF TypeFacts
<1>4. \A v \in Int : Fits(c, v) <=> lo <= v /\ v <= hi
  BY DEF Setting
<1> DEFINE top == c.max
<1>5. \A v : Fits(c, v) <=> c.min <= v /\ v <= top
  BY DEF Fits
<1>6. Fits(c, top) /\ (Fits(c, hi) => hi <= top)
  BY <1>3, <1>5
<1> HIDE DEF top
<1>7. Fits(c, hi) /\ (Fits(c, top) => top <= hi)
  BY <1>1, <1>3, <1>4 DEF top
<1>8. hi = top
  BY <1>1, <1>3, <1>6, <1>7 DEF top
<1> QED
  BY <1>8 DEF top

\* The unsigned value below another: that of 0 is the greatest.
LEMMA Predecessor ==
  ASSUME NEW c \in Wide, ~c.signed, NEW W \in Int, 0 <= W, W <= c.max,
         NEW V, V = IF W >= 1 THEN W - 1 ELSE c.max
  PROVE  Sub(Num(c, W), Lit(1)) = Num(c, V)
<1>1. c.max \in Nat /\ c.min = 0 /\ c.size = c.max + 1 /\ TypeFacts(c)
  BY WideTypes DEF TypeFacts
<1> DEFINE hi == c.max
<1>2. \A v \in Int : Fits(c, v) <=> 0 <= v /\ v <= hi
  BY <1>1 DEF Fits
<1>3. \A v \in Int : /\ 0 <= v /\ v <= hi => Wrap(c, v) = v
                     /\ 0 - (hi + 1) <= v /\ v < 0 => Wrap(c, v) = v + (hi + 1)
  BY <1>1, Wraps DEF Fits
<1> HIDE DEF hi
<1>4. hi \in Int
  BY <1>1 DEF hi
<1>5. Wrap(c, W) = W /\ Wrap(c, 1) = 1
  BY <1>3, SmallFit DEF hi
<1>6. Sub(Num(c, W), Num(int, 1)) = Calc(c, W - 1)
  <2>1. int \in Wide /\ Common(c, int) = c
    BY WideTypes, CommonWithInt
  <2> QED
    BY <1>5, <2>1, Binary
<1>7. Wrap(c, W - 1) = V
  <2>1. CASE W >= 1
    <3>1. W - 1 \in Int /\ 0 <= W - 1 /\ W - 1 <= hi /\ V = W - 1
      BY <1>4, <2>1 DEF hi
    <3> QED
      BY <1>3, <3>1
  <2>2. CASE W = 0
    <3>1. W - 1 = -1 /\ -1 \in Int /\ 0 - (hi + 1) <= -1 /\ -1 < 0 /\ V = hi
      BY <1>1, <1>4, <2>2 DEF hi
    <3> QED
      BY <1>3, <1>4, <3>1
  <2> QED
    BY <2>1, <2>2
<1>8. Calc(c, W - 1) = Num(c, V)
  BY <1>7, CalcIs
<1> QED
  BY <1>6, <1>8, Literals

\* The quotient in an unsigned type: what the macro finds from the wrapped sums.
LEMMA DivideWrapped ==
  ASSUME NEW s, NEW u, NEW n, NEW m, NEW c, NEW lo, NEW hi, NEW A, NEW B,
         Setting(s, u, n, m, c, lo, hi, A, B), ~c.signed, m # 0
  PROVE  LET a == Num(s, n)
             b == Num(u, m)
             over == If(Less(a, Lit(0)), AtMost(b, Sub(Add(a, b), Lit(1))),
                        And(Less(b, Lit(0)), AtMost(Add(a, b), a)))
         IN  /\ Fits(c, Quotient(n, m)) => over = No
             /\ ~Fits(c, Quotient(n, m)) => over = Yes
<1> DEFINE a == Num(s, n)
           b == Num(u, m)
           q == Quotient(n, m)
           W == IF A + B <= hi THEN A + B ELSE A + B - (hi + 1)
           V == IF W >= 1 THEN W - 1 ELSE hi
           left == AtMost(b, Sub(Add(a, b), Lit(1)))
           right == And(Less(b, Lit(0)), AtMost(Add(a, b), a))
           over == If(Less(a, Lit(0)), left, right)
<1>1. /\ s \in Wide /\ u \in Wide /\ c \in Wide /\ n \in Int /\ m \in Int
      /\ hi \in Int /\ A \in Int /\ B \in Int /\ int \in Wide /\ Common(c, int) = c
      /\ Common(c, u) = c /\ Common(u, c) = c /\ Common(s, c) = c /\ Common(c, s) = c
      /\ Wrap(c, n) = A /\ Wrap(c, m) = B
  BY WideTypes, CommonWithInt DEF Setting
<1>2. /\ 0 <= A /\ A <= hi /\ n <= hi /\ 0 <= B /\ B <= hi /\ m <= hi /\ hi >= 1
      /\ n >= 0 \/ m >= 0
      /\ n >= 0 => A = n
      /\ n < 0 => A = n + hi + 1 /\ -(hi + 1) <= 2 * n
      /\ m >= 0 => B = m
      /\ m < 0 => B = m + hi + 1 /\ -(hi + 1) <= 2 * m
  BY DEF Setting
<1>3. \A v \in Int : /\ Fits(c, v) <=> 0 <= v /\ v <= hi
                     /\ 0 <= v /\ v <= hi => Wrap(c, v) = v
                     /\ 0 - (hi - 0 + 1) <= v /\ v < 0 => Wrap(c, v) = v + (hi - 0 + 1)
  BY DEF Setting
<1>4. /\ q \in Int
      /\ n >= 0 => q <= n /\ -n <= q
      /\ n >= 0 /\ m > 0 => 0 <= q
      /\ n < 0 /\ m > 0 => q <= 0
  BY <1>1, QuotientBounds
<1>5. Fits(c, q) <=> 0 <= q /\ q <= hi
  BY <1>3, <1>4
<1>6. Add(a, b) = Num(c, W)
  BY CalculateIn
<1>7. W \in Int /\ 0 <= W /\ W <= hi
  BY <1>1, <1>2
<1> HIDE DEF W
<1>8. V \in Int /\ 0 <= V /\ V <= hi
  BY <1>1, <1>2, <1>7
<1>9. Sub(Num(c, W), Lit(1)) = Num(c, V)
  <2>1. hi = c.max
    BY SettingMax
  <2> QED
    BY <1>1, <1>7, <2>1, Predecessor
<1> HIDE DEF V, q
<1>10. Wrap(c, W) = W /\ Wrap(c, V) = V
  BY <1>3, <1>7, <1>8
<1>11. /\ V < B => AtMost(b, Num(c, V)) = No
       /\ ~(V < B) => AtMost(b, Num(c, V)) = Yes
       /\ A < W => AtMost(Num(c, W), a) = No
       /\ ~(A < W) => AtMost(Num(c, W), a) = Yes
  <2>1. /\ V < B => AtMost(b, Num(c, V)) = No
        /\ ~(V < B) => AtMost(b, Num(c, V)) = Yes
    BY <1>1, <1>8, <1>10, Compare
  <2>2. /\ A < W => AtMost(Num(c, W), a) = No
        /\ ~(A < W) => AtMost(Num(c, W), a) = Yes
    BY <1>1, <1>7, <1>10, Compare
  <2> QED
    BY <2>1, <2>2
<1>12. /\ n < 0 => Less(a, Lit(0)) = Yes
       /\ ~(n < 0) => Less(a, Lit(0)) = No
       /\ m < 0 => Less(b, Lit(0)) = Yes
       /\ ~(m < 0) => Less(b, Lit(0)) = No
  BY SignTests
<1>13. TypeOf(left) = int /\ TypeOf(right) = int
  BY ConditionTypes
<1>14. left = AtMost(b, Num(c, V)) /\ right = And(Less(b, Lit(0)), AtMost(Num(c, W), a))
  BY <1>6, <1>9
<1> HIDE DEF left, right
<1>15. CASE n < 0
  <2>1. over = left
    BY <1>11, <1>12, <1>13, <1>14, <1>15, Choose
  <2>2. m > 0 /\ -n \in Nat /\ m \in Nat \ {0}
    BY <1>1, <1>2, <1>15
  <2>3. q = -((-n) \div m)
    BY <1>1, <1>15, <2>2, Truncates DEF q
  <2>4. (-n) \div m \in Nat /\ (-n < m => (-n) \div m = 0) /\ (m <= -n => (-n) \div m >= 1)
    BY <2>2, WholePart
  <2>5. 0 <= q /\ q <= hi <=> -n < m
    <3> DEFINE d == (-n) \div m
    <3>1. d \in Nat /\ (-n < m => d = 0) /\ (m <= -n => d >= 1) /\ q = -d
      BY <2>3, <2>4
    <3> HIDE DEF d
    <3> QED
      BY <1>1, <1>2, <3>1
  <2>6. V < B <=> -n < m
    BY <1>1, <1>2, <1>7, <1>15, <2>2 DEF V, W
  <2> QED
    BY <1>5, <1>11, <1>14, <2>1, <2>5, <2>6 DEF q, left, right
<1>16. CASE ~(n < 0) /\ m < 0
  <2>1. right = AtMost(Num(c, W), a)
    BY <1>11, <1>12, <1>14, <1>16, Connectives
  <2>2. over = right
    BY <1>11, <1>12, <1>13, <1>16, <2>1, Choose
  <2>3. -m > 0 /\ n \in Nat /\ -m \in Nat \ {0} /\ n >= 0
    BY <1>1, <1>2, <1>16
  <2>4. q = -(n \div (-m))
    BY <1>1, <1>16, <2>3, Truncates DEF q
  <2>5. n \div (-m) \in Nat /\ (n < -m => n \div (-m) = 0) /\ (-m <= n => n \div (-m) >= 1)
    BY <2>3, WholePart
  <2>6. 0 <= q /\ q <= hi <=> n < -m
    <3> DEFINE d == n \div (-m)
    <3>1. d \in Nat /\ (n < -m => d = 0) /\ (-m <= n => d >= 1) /\ q = -d
      BY <2>4, <2>5
    <3> HIDE DEF d
    <3> QED
      BY <1>1, <1>2, <3>1
  <2>7. A < W <=> n < -m
    BY <1>1, <1>2, <1>7, <1>16, <2>3 DEF W
  <2> QED
    BY <1>5, <1>11, <2>1, <2>2, <2>6, <2>7 DEF q, left, right
<1>17. CASE ~(n < 0) /\ ~(m < 0)
  <2>1. right = No
    BY <1>12, <1>14, <1>17, Connectives
  <2>2. over = No
    BY <1>12, <1>13, <1>17, <2>1, Choose
  <2>3. Fits(c, q)
    BY <1>1, <1>2, <1>4, <1>5, <1>17
  <2> QED
    BY <2>2, <2>3 DEF q, left, right
<1> QED
  BY <1>15, <1>16, <1>17

\* What the macro says of a quotient: whether the mathematical one fits the
\* type, and its value if both operands keep theirs.
Divided(res, t, n, m) ==
  /\ Fits(t, Quotient(n, m)) => res.over = No
  /\ ~Fits(t, Quotient(n, m)) => res.over = Yes
  /\ Fits(t, Quotient(n, m)) /\ Fits(t, n) /\ Fits(t, m) => res.r = Num(t, Quotient(n, m))

\* What INT_DIVIDE_OVERFLOW evaluates.
LEMMA DivideOverflowIs ==
  ASSUME NEW s, NEW u, NEW n, NEW m, Operand(s, n), Operand(u, m)
  PROVE  LET a == Num(s, n)
             b == Num(u, m)
             c == Common(s, u)
             res == INT_DIVIDE_OVERFLOW(a, b)
         IN  /\ res.over = If(Less(Num(c, c.min), Lit(0)),
                              MinByMinusOne(a, b, Num(c, c.min), Num(c, c.max)),
                              If(Less(a, Lit(0)), AtMost(b, Sub(Add(a, b), Lit(1))),
                                 And(Less(b, Lit(0)), AtMost(Add(a, b), a))))
             /\ res.r = Div(a, b)
<1> DEFINE a == Num(s, n)
           b == Num(u, m)
           c == Common(s, u)
           lo == c.min
           hi == c.max
           A == Wrap(c, n)
           B == Wrap(c, m)
<1>1. Setting(s, u, n, m, c, lo, hi, A, B) /\ Bounded(c, lo, hi)
  BY SettingOf DEF Bounded
<1> HIDE DEF c, lo, hi, A, B
<1>2. _GL_BINARY_OP_OVERFLOW(a, b, "/") = _GL_DIVIDE_OVERFLOW(a, b, Num(c, lo), Num(c, hi))
  BY <1>1, BoundsGiven
<1>3. /\ INT_DIVIDE_OVERFLOW(a, b).over = _GL_BINARY_OP_OVERFLOW(a, b, "/")
      /\ INT_DIVIDE_OVERFLOW(a, b).r = Div(a, b)
  BY DEF INT_DIVIDE_OVERFLOW
<1>4. _GL_DIVIDE_OVERFLOW(a, b, Num(c, lo), Num(c, hi))
        = If(Less(Num(c, lo), Lit(0)),
             MinByMinusOne(a, b, Num(c, lo), Num(c, hi)),
             If(Less(a, Lit(0)), AtMost(b, Sub(Add(a, b), Lit(1))),
                And(Less(b, Lit(0)), AtMost(Add(a, b), a))))
  BY DEF _GL_DIVIDE_OVERFLOW
<1> QED
  BY <1>2, <1>3, <1>4 DEF c, lo, hi

\* INT_DIVIDE_OVERFLOW says whether the mathematical quotient fits.
LEMMA DivideOverflow ==
  ASSUME NEW s, NEW u, NEW n, NEW m, Operand(s, n), Operand(u, m), m # 0
  PROVE  Divided(INT_DIVIDE_OVERFLOW(Num(s, n), Num(u, m)), Common(s, u), n, m)
<1> DEFINE a == Num(s, n)
           b == Num(u, m)
           c == Common(s, u)
           lo == c.min
           hi == c.max
           A == Wrap(c, n)
           B == Wrap(c, m)
           signedOver == MinByMinusOne(a, b, Num(c, lo), Num(c, hi))
           unsignedOver == If(Less(a, Lit(0)), AtMost(b, Sub(Add(a, b), Lit(1))),
                              And(Less(b, Lit(0)), AtMost(Add(a, b), a)))
           res == INT_DIVIDE_OVERFLOW(a, b)
<1>1. Setting(s, u, n, m, c, lo, hi, A, B) /\ Bounded(c, lo, hi)
  BY SettingOf DEF Bounded
<1> HIDE DEF c, lo, hi, A, B
<1>2. res.over = If(Less(Num(c, lo), Lit(0)), signedOver, unsignedOver) /\ res.r = Div(a, b)
  BY DivideOverflowIs DEF c, lo, hi
<1>3. TypeOf(signedOver) = int /\ TypeOf(unsignedOver) = int
  BY ConditionTypes, ChoiceTypes DEF MinByMinusOne
<1>4. ASSUME Fits(c, Quotient(n, m)), Fits(c, n), Fits(c, m)
      PROVE  res.r = Num(c, Quotient(n, m))
  <2>1. s \in Wide /\ u \in Wide /\ c \in Wide /\ n \in Int /\ m \in Int
    BY <1>1 DEF Setting
  <2>2. Wrap(c, n) = n /\ Wrap(c, m) = m
    BY <1>4, <2>1, WideTypes, Wraps
  <2>3. Div(a, b) = Num(c, Quotient(n, m))
    BY <1>1, <1>4, <2>1, <2>2, DividesWithin DEF c
  <2> QED
    BY <1>2, <2>3
<1>5. CASE c.signed
  <2>1. /\ Fits(c, Quotient(n, m)) => signedOver = No
        /\ ~Fits(c, Quotient(n, m)) => signedOver = Yes
    BY <1>1, <1>5, MinByMinusOneIs
  <2>2. Less(Num(c, lo), Lit(0)) = Yes
    BY <1>1, <1>5, SignTests
  <2> HIDE DEF signedOver, unsignedOver
  <2>3. res.over = signedOver
    BY <1>2, <1>3, <2>1, <2>2, Choose
  <2> QED
    BY <1>4, <2>1, <2>3 DEF Divided, c
<1>6. CASE ~c.signed
  <2>1. /\ Fits(c, Quotient(n, m)) => unsignedOver = No
        /\ ~Fits(c, Quotient(n, m)) => unsignedOver = Yes
    BY <1>1, <1>6, DivideWrapped
  <2>2. Less(Num(c, lo), Lit(0)) = No
    BY <1>1, <1>6, SignTests
  <2> HIDE DEF signedOver, unsignedOver
  <2>3. res.over = unsignedOver
    BY <1>2, <1>3, <2>1, <2>2, Choose
  <2> QED
    BY <1>4, <2>1, <2>3 DEF Divided, c
<1> QED
  BY <1>5, <1>6

-----------------------------------------------------------------------------
(* The left shift.                                                         *)

\* A power of two divides the greater ones.
LEMMA PowersDivide ==
  ASSUME NEW k \in 0..LongBits
  PROVE  \A n \in k..LongBits : \E q \in Nat : 2 ^ n = q * 2 ^ k
<1> DEFINE P == 2 ^ k
           Bad == {n \in k..LongBits : ~\E q \in Nat : 2 ^ n = q * P}
<1>1. SUFFICES ASSUME Bad # {} PROVE FALSE
  OBVIOUS
<1>2. P \in Nat \ {0}
  BY PowersPositive
<1>3. PICK n \in Bad : \A j \in Bad : n <= j
  <2>1. Bad \in SUBSET Nat
    BY WidthAssumption
  <2> HIDE DEF Bad
  <2> QED
    BY <1>1, <2>1, IpLeast
<1>4. n \in k..LongBits /\ ~\E q \in Nat : 2 ^ n = q * P
  BY <1>3
<1>5. n # k
  <2>1. SUFFICES ASSUME n = k PROVE FALSE
    OBVIOUS
  <2>2. 2 ^ n = P
    BY <2>1
  <2> HIDE DEF P
  <2>3. 2 ^ n = 1 * P
    BY <1>2, <2>2
  <2> QED
    BY <1>4, <2>3
<1>6. n \in 1..LongBits /\ n - 1 \in k..LongBits /\ n - 1 \notin Bad
  BY <1>3, <1>4, <1>5, WidthAssumption
<1>7. PICK q \in Nat : 2 ^ (n - 1) = q * P
  BY <1>6
<1>8. 2 ^ n = 2 * 2 ^ (n - 1)
  BY <1>6, PowerAssumption
<1> HIDE DEF P, Bad
<1>9. 2 ^ n = (2 * q) * P
  <2>1. 2 * (q * P) = (2 * q) * P
    BY <1>2
  <2> QED
    BY <1>7, <1>8, <2>1
<1>10. 2 * q \in Nat
  OBVIOUS
<1> QED
  BY <1>4, <1>9, <1>10

\* What the whole part of a number that p divides bounds, a negative one too.
LEMMA EvenBound ==
  ASSUME NEW j \in Int, NEW p \in Nat \ {0}, NEW q \in Int
  PROVE  /\ (j * p) \div p = j
         /\ j * p <= q * p <=> j <= q
<1>1. q <= j => q * p <= j * p
  BY ProductsGrow
<1>2. j <= q => j * p <= q * p
  BY ProductsGrow
<1>3. q + 1 <= j => (q + 1) * p <= j * p
  BY ProductsGrow
<1>4. (q + 1) * p = q * p + p /\ q * p \in Int /\ j * p \in Int
  OBVIOUS
<1>5. j * p <= q * p <=> j <= q
  BY <1>2, <1>3, <1>4
<1>6. (j * p) \div p = j
  <2> DEFINE d == (j * p) \div p
             r == (j * p) % p
  <2>1. d \in Int /\ j * p = d * p + r /\ r \in 0..(p - 1)
    BY <1>4
  <2> HIDE DEF d, r
  <2>2. d + 1 <= j => (d + 1) * p <= j * p
    BY <2>1, ProductsGrow
  <2>3. j + 1 <= d => (j + 1) * p <= d * p
    BY <2>1, ProductsGrow
  <2>4. (d + 1) * p = d * p + p /\ (j + 1) * p = j * p + p /\ d * p \in Int
    BY <2>1
  <2>5. d = j
    BY <1>4, <2>1, <2>2, <2>3, <2>4
  <2> QED
    BY <2>5 DEF d
<1> QED
  BY <1>5, <1>6

\* What a shift is.
LEMMA Shifts ==
  ASSUME NEW s \in Wide, NEW n, NEW k
  PROVE  /\ Shl(Num(s, n), k) = Calc(s, n * 2 ^ k)
         /\ Shr(Num(s, n), k) = Num(s, n \div 2 ^ k)
<1> DEFINE x == Num(s, n)
<1>1. x.t = s /\ x.v = n /\ x.ok = TRUE /\ Promoted(s) = s
  BY WideTypes DEF Num, Value
<1> HIDE DEF x
<1>2. Shl(x, k) = Calc(s, n * 2 ^ k)
  BY <1>1 DEF Shl, Calc
<1>3. Shr(x, k) = Num(s, n \div 2 ^ k)
  BY <1>1 DEF Shr, Num
<1> QED
  BY <1>2, <1>3 DEF x

\* Which numbers times a power of two fit a type.
LEMMA ShiftFits ==
  ASSUME NEW s \in Wide, NEW n \in Int, NEW k \in 0..(s.bits - 1), NEW P, P = 2 ^ k
  PROVE  /\ P \in Nat \ {0}
         /\ s.max \div P \in Nat /\ Fits(s, s.max \div P)
         /\ s.min \div P \in Int /\ Fits(s, s.min \div P)
         /\ n >= 0 => (Fits(s, n * P) <=> n <= s.max \div P)
         /\ n < 0 => (Fits(s, n * P) <=> s.min \div P <= n)
<1> DEFINE lo == s.min
           hi == s.max
<1>1. TypeFacts(s) /\ s.bits \in {IntBits, LongBits} /\ s = Type(s.bits, s.signed)
  BY WideTypes
<1>2. k \in 0..LongBits /\ s.bits - 1 \in k..LongBits
  BY <1>1, WidthAssumption
<1>3. P \in Nat \ {0}
  BY <1>2, PowersPositive
<1>4. PICK q \in Nat : lo = (-q) * P
  <2>1. CASE s.signed
    <3>1. PICK q \in Nat : 2 ^ (s.bits - 1) = q * 2 ^ k
      BY <1>2, PowersDivide
    <3>2. lo = -(2 ^ (s.bits - 1))
      BY <1>1, <2>1, ArithmeticTypes
    <3>3. lo = -(q * P)
      BY <3>1, <3>2
    <3>4. -(q * P) = (-q) * P
      BY <1>3
    <3> QED
      BY <3>3, <3>4
  <2>2. CASE ~s.signed
    <3>1. lo = 0
      BY <1>1, <2>2 DEF TypeFacts
    <3>2. 0 = (-0) * P
      BY <1>3
    <3> QED
      BY <3>1, <3>2
  <2> QED
    BY <2>1, <2>2
<1>5. lo \in Int /\ hi \in Nat /\ \A v : Fits(s, v) <=> lo <= v /\ v <= hi
  BY <1>1 DEF TypeFacts, Fits
<1> HIDE DEF lo, hi
<1>6. hi \div P \in Nat /\ hi \div P <= hi
  BY <1>3, <1>5, WholePart
<1>7. /\ -q \in Int /\ lo \div P = -q
      /\ lo <= n * P <=> -q <= n
  BY <1>3, <1>4, EvenBound
<1>8. lo <= 0 /\ lo <= -q
  <2>1. q * 1 <= q * P
    BY <1>3
  <2>2. (-q) * P = -(q * P) /\ q * P \in Nat
    BY <1>3
  <2> QED
    BY <1>4, <2>1, <2>2
<1>9. n * P <= hi <=> n <= hi \div P
  BY <1>3, <1>5, WholeBound
<1>10. n * P \in Int /\ (n >= 0 => n * P >= 0) /\ (n < 0 => n * P <= 0)
  <2>1. 0 * P = 0 /\ n * P \in Int
    BY <1>3
  <2>2. 0 <= n => 0 * P <= n * P
    BY <1>3, ProductsGrow
  <2>3. n <= 0 => n * P <= 0 * P
    BY <1>3, ProductsGrow
  <2> QED
    BY <2>1, <2>2, <2>3
<1>11. n >= 0 => (Fits(s, n * P) <=> n <= hi \div P)
  BY <1>5, <1>8, <1>9, <1>10
<1>12. n < 0 => (Fits(s, n * P) <=> lo \div P <= n)
  BY <1>5, <1>7, <1>10
<1>13. Fits(s, hi \div P) /\ Fits(s, lo \div P)
  BY <1>5, <1>6, <1>7, <1>8
<1> QED
  BY <1>3, <1>6, <1>7, <1>11, <1>12, <1>13 DEF lo, hi

\* A left shift by less than the width is calculated in the operand's own type.
LEMMA LeftShiftOverflow ==
  ASSUME NEW s, NEW u, NEW n, NEW k, Operand(s, n), k \in 0..(s.bits - 1)
  PROVE  Exactly(INT_LEFT_SHIFT_OVERFLOW(Num(s, n), Num(u, k)), s, n * 2 ^ k)
<1> DEFINE a == Num(s, n)
           b == Num(u, k)
           P == 2 ^ k
           low == s.min \div P
           high == s.max \div P
           res == INT_LEFT_SHIFT_OVERFLOW(a, b)
<1>1. s \in Wide /\ n \in Int /\ Fits(s, n) /\ TypeFacts(s) /\ Common(s, s) = s
  BY WideTypes, CommonTypes DEF Operand
<1>2. /\ P \in Nat \ {0}
      /\ high \in Nat /\ Fits(s, high)
      /\ low \in Int /\ Fits(s, low)
      /\ n >= 0 => (Fits(s, n * P) <=> n <= high)
      /\ n < 0 => (Fits(s, n * P) <=> low <= n)
  BY <1>1, ShiftFits
<1>3. /\ res.over = If(Less(a, Lit(0)), Less(a, Num(s, low)), Less(Num(s, high), a))
      /\ res.r = Calc(s, n * P)
  <2>1. TypeOf(a) = s /\ b.v = k
    BY ValueTypes DEF Num, Value
  <2>2. _GL_INT_MINIMUM(a) = Num(s, s.min) /\ _GL_INT_MAXIMUM(a) = Num(s, s.max)
    BY <1>1, <2>1, Minimum, Maximum
  <2>3. /\ Shr(Num(s, s.min), k) = Num(s, low) /\ Shr(Num(s, s.max), k) = Num(s, high)
        /\ Shl(a, k) = Calc(s, n * P)
    BY <1>1, Shifts
  <2> HIDE DEF a, b, P, low, high
  <2>4. /\ res.over = INT_LEFT_SHIFT_RANGE_OVERFLOW(a, k, Num(s, s.min), Num(s, s.max))
        /\ res.r = Shl(a, k)
    BY <2>1, <2>2 DEF INT_LEFT_SHIFT_OVERFLOW
  <2> QED
    BY <2>3, <2>4 DEF INT_LEFT_SHIFT_RANGE_OVERFLOW
<1> HIDE DEF P, low, high
<1>4. n * P \in Int
  BY <1>1, <1>2
<1>5. Fits(s, n * P) => res.r = Num(s, n * P)
  <2>1. ASSUME Fits(s, n * P) PROVE Calc(s, n * P) = Num(s, n * P)
    BY <1>1, <1>4, <2>1, CalcIs
  <2> QED
    BY <1>3, <2>1
<1>6. Wrap(s, n) = n /\ Wrap(s, low) = low /\ Wrap(s, high) = high
  BY <1>1, <1>2, Wraps
<1>7. /\ n < low => Less(a, Num(s, low)) = Yes
      /\ ~(n < low) => Less(a, Num(s, low)) = No
  BY <1>1, <1>2, <1>6, Within
<1>8. /\ high < n => Less(Num(s, high), a) = Yes
      /\ ~(high < n) => Less(Num(s, high), a) = No
  BY <1>1, <1>2, <1>6, Within
<1>9. TypeOf(Less(a, Num(s, low))) = int /\ TypeOf(Less(Num(s, high), a)) = int
  BY ConditionTypes
<1> DEFINE below == Less(a, Num(s, low))
           above == Less(Num(s, high), a)
<1>10. CASE n < 0
  <2>1. Less(a, Lit(0)) = Yes
    BY <1>1, <1>10, BelowZero
  <2>2. below \in {Yes, No} /\ TypeOf(above) = int
    BY <1>7, <1>9
  <2>3. res.over = If(Yes, below, above)
    BY <1>3, <2>1
  <2> HIDE DEF below, above
  <2>4. res.over = below
    BY <2>2, <2>3, Choose
  <2>5. Fits(s, n * P) <=> ~(n < low)
    BY <1>1, <1>2, <1>10
  <2> QED
    BY <1>5, <1>7, <2>4, <2>5 DEF Exactly, below, P
<1>11. CASE ~(n < 0)
  <2>1. Less(a, Lit(0)) = No
    BY <1>1, <1>11, BelowZero
  <2>2. above \in {Yes, No} /\ TypeOf(below) = int
    BY <1>8, <1>9
  <2>3. res.over = If(No, below, above)
    BY <1>3, <2>1
  <2> HIDE DEF below, above
  <2>4. res.over = above
    BY <2>2, <2>3, Choose
  <2>5. Fits(s, n * P) <=> ~(high < n)
    BY <1>1, <1>2, <1>11
  <2> QED
    BY <1>5, <1>8, <2>4, <2>5 DEF Exactly, above, P
<1> QED
  BY <1>10, <1>11

-----------------------------------------------------------------------------
(* The remainder.                                                          *)

\* A remainder has the sign of the dividend and is no larger.
LEMMA RemainderBounds ==
  ASSUME NEW n \in Int, NEW m \in Int, m # 0, NEW p, p = Quotient(n, m) * m
  PROVE  /\ p \in Int /\ n - m * Quotient(n, m) = n - p
         /\ n >= 0 => 0 <= p /\ p <= n
         /\ n < 0 => n <= p /\ p <= 0
<1>1. Quotient(n, m) \in Int
  BY QuotientBounds
<1>2. p \in Int /\ n - m * Quotient(n, m) = n - p
  <2> DEFINE q == Quotient(n, m)
  <2>1. q \in Int /\ p = q * m
    BY <1>1
  <2> HIDE DEF q
  <2>2. p \in Int /\ n - m * q = n - p
    BY <2>1
  <2> QED
    BY <2>2 DEF q
<1>3. \E k, r, d \in Nat : /\ d # 0 /\ r = (k \div d) * d /\ r <= k
                           /\ n >= 0 => k = n /\ p = r
                           /\ n < 0 => k = -n /\ p = -r
  <2>1. ASSUME NEW k \in Nat, NEW d \in Nat \ {0}
        PROVE  (k \div d) * d \in Nat /\ (k \div d) * d <= k
    <3> DEFINE h == k \div d
    <3>1. h \in Nat /\ h * d <= k
      BY WholePart
    <3> HIDE DEF h
    <3>2. h * d \in Nat
      BY <3>1
    <3> QED
      BY <3>1, <3>2 DEF h
  <2>2. CASE n >= 0 /\ m > 0
    <3>1. n \in Nat /\ m \in Nat \ {0} /\ ~(n < 0)
      BY <2>2
    <3>2. p = (n \div m) * m
      BY <2>2, Truncates
    <3> QED
      BY <2>1, <3>1, <3>2
  <2>3. CASE n < 0 /\ m > 0
    <3>1. -n \in Nat /\ m \in Nat \ {0} /\ ~(n >= 0)
      BY <2>3
    <3>2. p = (-((-n) \div m)) * m
      BY <2>3, Truncates
    <3> DEFINE h == (-n) \div m
    <3>3. h \in Int
      BY <3>1
    <3>4. p = -(h * m)
      <4> HIDE DEF h
      <4>1. (-h) * m = -(h * m)
        BY <3>3
      <4> QED
        BY <3>2, <4>1 DEF h
    <3> QED
      BY <2>1, <3>1, <3>4
  <2>4. CASE n >= 0 /\ m < 0
    <3>1. n \in Nat /\ -m \in Nat \ {0} /\ ~(n < 0)
      BY <2>4
    <3>2. p = (-(n \div (-m))) * m
      BY <2>4, Truncates
    <3> DEFINE h == n \div (-m)
    <3>3. h \in Int
      BY <3>1
    <3>4. p = h * (-m)
      <4> HIDE DEF h
      <4>1. (-h) * m = h * (-m)
        BY <3>3
      <4> QED
        BY <3>2, <4>1 DEF h
    <3> QED
      BY <2>1, <3>1, <3>4
  <2>5. CASE n < 0 /\ m < 0
    <3>1. -n \in Nat /\ -m \in Nat \ {0} /\ ~(n >= 0)
      BY <2>5
    <3>2. p = ((-n) \div (-m)) * m
      BY <2>5, Truncates
    <3> DEFINE h == (-n) \div (-m)
    <3>3. h \in Int
      BY <3>1
    <3>4. p = -(h * (-m))
      <4> HIDE DEF h
      <4>1. h * m = -(h * (-m))
        BY <3>3
      <4> QED
        BY <3>2, <4>1 DEF h
    <3> QED
      BY <2>1, <3>1, <3>4
  <2> QED
    BY <2>2, <2>3, <2>4, <2>5
<1> QED
  BY <1>2, <1>3

\* What a divisor leaves nothing of, a negative number too.
LEMMA NothingLeft ==
  ASSUME NEW n \in Int, NEW m \in Nat \ {0}, NEW j \in Int, n = j * m, n < 0
  PROVE  n - m * Quotient(n, m) = 0
<1>1. -n = (-j) * m /\ -j \in Int
  OBVIOUS
<1>2. (-n) \div m = -j
  BY <1>1, EvenBound
<1>3. Quotient(n, m) = -(-j)
  BY <1>2, Truncates
<1>4. -(-j) = j /\ m * j = n
  OBVIOUS
<1> QED
  BY <1>3, <1>4

\* The types of a quotient and a remainder.
LEMMA RemTypes ==
  ASSUME NEW x, NEW y
  PROVE  /\ TypeOf(Div(x, y)) = Common(TypeOf(x), TypeOf(y))
         /\ TypeOf(Rem(x, y)) =
              Common(TypeOf(x), Common(Common(TypeOf(x), TypeOf(y)), TypeOf(y)))
<1>1. TypeOf(Div(x, y)) = Common(TypeOf(x), TypeOf(y))
  BY DEF Div, DivAs, Arith, Value, TypeOf
<1>2. TypeOf(Rem(x, y)) = Common(TypeOf(x), TypeOf(Mul(Div(x, y), y)))
  BY ArithTypes DEF Rem
<1>3. TypeOf(Mul(Div(x, y), y)) = Common(TypeOf(Div(x, y)), TypeOf(y))
  BY ArithTypes
<1> QED
  BY <1>1, <1>2, <1>3

\* The remainder of two values in their common type.
LEMMA Remains ==
  ASSUME NEW s \in Wide, NEW u \in Wide, NEW n \in Int, NEW m \in Int,
         NEW A \in Int, NEW B \in Int, NEW c \in Wide, c = Common(s, u),
         Common(c, u) = c, Common(s, c) = c, Wrap(c, n) = A, Wrap(c, m) = B,
         Fits(c, A), B # 0, Fits(c, Quotient(A, B))
  PROVE  Rem(Num(s, n), Num(u, m)) = Num(c, A - B * Quotient(A, B))
<1> DEFINE x == Num(s, n)
           y == Num(u, m)
           q == Quotient(A, B)
           p == q * B
<1>1. Div(x, y) = Num(c, q)
  <2>1. q \in Int
    BY QuotientBounds
  <2>2. Div(x, y) = Calc(c, q)
    BY Divides
  <2> QED
    BY <2>1, <2>2, CalcIs
<1>2. /\ q \in Int /\ p \in Int /\ A - B * q = A - p
      /\ A >= 0 => 0 <= p /\ p <= A
      /\ A < 0 => A <= p /\ p <= 0
  BY QuotientBounds, RemainderBounds
<1>3. TypeFacts(c) /\ c.min \in Int /\ c.max \in Nat /\ c.min <= 0
  BY WideTypes DEF TypeFacts
<1> DEFINE lo == c.min
           hi == c.max
<1>4. \A v : Fits(c, v) <=> lo <= v /\ v <= hi
  BY DEF Fits
<1>5. lo \in Int /\ hi \in Int /\ lo <= 0 /\ hi >= 0
  BY <1>3
<1> HIDE DEF x, y, q, p, lo, hi
<1>6. Fits(c, p) /\ Fits(c, A - p)
  <2>1. lo <= A /\ A <= hi
    BY <1>4
  <2> QED
    BY <1>2, <1>4, <1>5, <2>1
<1>7. Mul(Num(c, q), y) = Num(c, p)
  <2>1. Wrap(c, q) = q
    BY <1>2, <1>3, Wraps DEF q
  <2>2. Mul(Num(c, q), y) = Calc(c, q * B)
    BY <1>2, <2>1, Binary DEF y
  <2> QED
    BY <1>2, <1>6, <2>2, CalcIs DEF p
<1>8. Sub(x, Num(c, p)) = Num(c, A - p)
  <2>1. Wrap(c, p) = p
    BY <1>2, <1>3, <1>6, Wraps
  <2>2. Sub(x, Num(c, p)) = Calc(c, A - p)
    BY <1>2, <2>1, Binary DEF x
  <2>3. A - p \in Int
    BY <1>2
  <2> QED
    BY <1>6, <2>2, <2>3, CalcIs
<1>9. Rem(x, y) = Num(c, A - p)
  BY <1>1, <1>7, <1>8 DEF Rem
<1> QED
  BY <1>2, <1>9 DEF x, y, q

\* What is left of A when B is taken away as often as it can be.
Rest(A, B) == A - B * (A \div B)

\* In an unsigned type every quotient of one by another fits.
LEMMA RemainderIn ==
  ASSUME NEW s \in Wide, NEW u \in Wide, NEW n \in Int, NEW m \in Int, NEW c \in Wide,
         c = Common(s, u), ~c.signed, Common(c, u) = c, Common(s, c) = c, Wrap(c, m) # 0
  PROVE  LET r == Rest(Wrap(c, n), Wrap(c, m))
         IN  Rem(Num(s, n), Num(u, m)) = Num(c, r) /\ r \in Int /\ Fits(c, r)
<1> DEFINE A == Wrap(c, n)
           B == Wrap(c, m)
<1>1. A \in Int /\ B \in Int
  BY WideTypes, Wraps
<1>2. B # 0 /\ Wrap(c, n) = A /\ Wrap(c, m) = B
  OBVIOUS
<1> HIDE DEF A, B
<1>3. /\ c.max \in Nat /\ c.min = 0 /\ TypeFacts(c)
  BY WideTypes DEF TypeFacts
<1>4. \A v : Fits(c, v) <=> 0 <= v /\ v <= c.max
  BY <1>3 DEF Fits
<1>5. Fits(c, A) /\ Fits(c, B)
  BY <1>2, <1>3, Wraps
<1>6. A \in Nat /\ B \in Nat \ {0} /\ A >= 0 /\ B > 0 /\ A <= c.max
  BY <1>1, <1>2, <1>3, <1>4, <1>5
<1> DEFINE q == A \div B
<1>7. Quotient(A, B) = q
  BY <1>1, <1>6, Truncates
<1>8. q \in Nat /\ q <= A
  BY <1>6, WholePart
<1>9. Fits(c, q)
  <2> HIDE DEF q
  <2> QED
    BY <1>3, <1>4, <1>6, <1>8
<1> HIDE DEF q
<1>10. Rem(Num(s, n), Num(u, m)) = Num(c, A - B * q)
  BY <1>1, <1>2, <1>5, <1>7, <1>9, Remains
<1>11. q * B \in Int /\ 0 <= q * B /\ q * B <= A /\ A - B * q = A - q * B
  BY <1>1, <1>6, <1>7, RemainderBounds
<1>12. A - B * q \in Int /\ Fits(c, A - B * q)
  <2>1. 0 <= A - q * B /\ A - q * B <= c.max /\ A - q * B \in Int
    BY <1>3, <1>6, <1>11
  <2> QED
    BY <1>4, <1>11, <2>1
<1> QED
  BY <1>10, <1>12 DEF q, A, B, Rest

\* What a negative dividend leaves: the macro compares the remainders of two
\* unsigned values that differ by n + m.
LEMMA NegativeDividend ==
  ASSUME NEW s, NEW u, NEW n, NEW m, NEW c, NEW lo, NEW hi, NEW A, NEW B,
         Setting(s, u, n, m, c, lo, hi, A, B), ~c.signed, n < 0, m # 0
  PROVE  LET a == Num(s, n)
             b == Num(u, m)
             same == Equal(Rem(a, b), Rem(Add(Sub(Num(c, hi), b), Lit(1)), b))
         IN  /\ same \in {Yes, No}
             /\ same = Yes => n - m * Quotient(n, m) = 0
<1> DEFINE a == Num(s, n)
           b == Num(u, m)
           H == hi - m + 1
           other == Add(Sub(Num(c, hi), b), Lit(1))
           ra == Rest(A, m)
           rh == Rest(H, m)
<1>1. /\ s \in Wide /\ u \in Wide /\ c \in Wide /\ n \in Int /\ m \in Int
      /\ hi \in Int /\ A \in Int /\ B \in Int /\ Common(s, u) = c
      /\ Common(c, u) = c /\ Common(s, c) = c /\ Common(c, c) = c
      /\ Wrap(c, n) = A /\ Wrap(c, m) = B
  BY DEF Setting
<1>2. /\ A = n + hi + 1 /\ 0 <= A /\ A <= hi /\ m > 0 /\ m <= hi /\ B = m
  <2>1. n >= 0 \/ m >= 0
    BY DEF Setting
  <2>2. n < 0 => A = n + hi + 1
    BY DEF Setting
  <2>3. m >= 0 => B = m
    BY DEF Setting
  <2>4. 0 <= A /\ A <= hi /\ m <= hi
    BY DEF Setting
  <2> QED
    BY <1>1, <2>1, <2>2, <2>3, <2>4
<1>3. \A v \in Int : /\ Fits(c, v) <=> 0 <= v /\ v <= hi
                     /\ 0 <= v /\ v <= hi => Wrap(c, v) = v
  BY DEF Setting
<1>4. H \in Int /\ 0 <= H /\ H <= hi /\ hi - m \in Int /\ 0 <= hi - m /\ hi - m <= hi
  BY <1>1, <1>2
<1>5. other = Num(c, H)
  <2>1. Sub(Num(c, hi), b) = Num(c, hi - m)
    <3>1. Wrap(c, hi) = hi
      BY <1>1, <1>2, <1>3
    <3>2. Sub(Num(c, hi), b) = Calc(c, hi - m)
      BY <1>1, <1>2, <3>1, Binary
    <3>3. Fits(c, hi - m)
      BY <1>3, <1>4
    <3> QED
      BY <1>1, <1>4, <3>2, <3>3, CalcIs
  <2>2. Add(Num(c, hi - m), Num(int, 1)) = Num(c, H)
    <3>1. int \in Wide /\ Common(c, int) = c /\ Wrap(c, 1) = 1 /\ Wrap(c, hi - m) = hi - m
      BY <1>1, <1>3, <1>4, WideTypes, CommonWithInt, SmallFit
    <3>2. Add(Num(c, hi - m), Num(int, 1)) = Calc(c, hi - m + 1)
      BY <1>1, <1>4, <3>1, Binary
    <3>3. Fits(c, hi - m + 1) /\ hi - m + 1 \in Int
      BY <1>3, <1>4
    <3> QED
      BY <1>1, <3>2, <3>3, CalcIs
  <2> QED
    BY <2>1, <2>2, Literals
<1> HIDE DEF H
<1>6. Rem(a, b) = Num(c, ra) /\ ra \in Int /\ Fits(c, ra)
  <2>1. Wrap(c, m) = m /\ Wrap(c, m) # 0
    BY <1>1, <1>2
  <2> QED
    BY <1>1, <2>1, RemainderIn
<1>7. Rem(other, b) = Num(c, rh) /\ rh \in Int /\ Fits(c, rh)
  <2>1. Wrap(c, H) = H
    BY <1>3, <1>4
  <2>2. Rem(Num(c, H), b) = Num(c, rh) /\ rh \in Int /\ Fits(c, rh)
    <3>1. Wrap(c, m) = m /\ Wrap(c, m) # 0
      BY <1>1, <1>2
    <3> QED
      BY <1>1, <1>4, <2>1, <3>1, RemainderIn
  <2> QED
    BY <1>5, <2>2
<1>8. A \div m \in Int /\ H \div m \in Int
  BY <1>1, <1>2, <1>4
<1> DEFINE da == A \div m
           dh == H \div m
<1>9. ra = rh => n - m * Quotient(n, m) = 0
  <2>1. SUFFICES ASSUME ra = rh PROVE n - m * Quotient(n, m) = 0
    OBVIOUS
  <2>2. n = (da - dh - 1) * m
    <3>1. A - m * da = H - m * dh
      BY <2>1 DEF Rest
    <3> HIDE DEF da, dh
    <3>2. da \in Int /\ dh \in Int
      BY <1>8 DEF da, dh
    <3>3. (da - dh - 1) * m = m * da - m * dh - m
      BY <1>1, <3>2
    <3>4. m * da \in Int /\ m * dh \in Int
      BY <1>1, <3>2
    <3>5. A - H = n + m
      BY <1>1, <1>2 DEF H
    <3> QED
      BY <1>1, <1>4, <3>1, <3>3, <3>4, <3>5
  <2>3. da - dh - 1 \in Int /\ m \in Nat \ {0}
    BY <1>1, <1>2, <1>8
  <2> HIDE DEF da, dh
  <2> QED
    BY <1>1, <2>2, <2>3, NothingLeft
<1> HIDE DEF ra, rh
<1>10. /\ ra = rh => Equal(Num(c, ra), Num(c, rh)) = Yes
       /\ ra # rh => Equal(Num(c, ra), Num(c, rh)) = No
  <2>1. Wrap(c, ra) = ra /\ Wrap(c, rh) = rh
    BY <1>3, <1>6, <1>7
  <2> QED
    BY <1>1, <1>6, <1>7, <2>1, Binary
<1>11. Yes # No
  BY DEF Yes, No, Num, Value
<1> QED
  BY <1>6, <1>7, <1>9, <1>10, <1>11

\* A negative divisor of an unsigned dividend: the macro has a value.
LEMMA NegativeDivisor ==
  ASSUME NEW s, NEW u, NEW n, NEW m, Operand(s, n), Operand(u, m), ~Common(s, u).signed, m < 0
  PROVE  _GL_UNSIGNED_NEG_MULTIPLE(Num(s, n), Num(u, m), Num(Common(s, u), Common(s, u).max))
           \in {Yes, No}
<1> DEFINE a == Num(s, n)
           b == Num(u, m)
           c == Common(s, u)
           hi == c.max
           k == u.max
           half == Num(u, k)
           next == Add(_GL_INT_CONVERT(a, half), Lit(1))
           inner == If(Equal(half, Num(c, hi)), a, Rem(a, next))
           outer == If(Less(b, Neg(half)), inner, Rem(a, Neg(b)))
<1>1. s \in Wide /\ u \in Wide /\ n \in Int /\ m \in Int /\ Fits(s, n) /\ Fits(u, m)
  BY DEF Operand
<1>2. TypeFacts(u) /\ u.signed /\ k \in Nat /\ k >= 1 /\ Fits(u, k) /\ Fits(u, -k)
      /\ -k - 1 <= m /\ Common(u, u) = u /\ Promoted(u) = u
  <2>1. TypeFacts(u) /\ k >= 1 /\ Common(u, u) = u /\ Promoted(u) = u
    BY <1>1, WideTypes, WideMax, CommonTypes
  <2>2. u.signed
    BY <1>1, <2>1 DEF TypeFacts, Fits
  <2>3. k \in Nat /\ u.min = -k - 1
    BY <2>1, <2>2 DEF TypeFacts
  <2> QED
    BY <1>1, <2>1, <2>2, <2>3 DEF Fits
<1>3. Setting(s, u, n, m, c, c.min, hi, Wrap(c, n), Wrap(c, m))
  BY SettingOf
<1>4. Operand(u, k) /\ (-k <= m => Operand(u, -m))
  <2>1. -k <= m => -m \in Int /\ u.min <= -m /\ -m <= k
    BY <1>1, <1>2 DEF TypeFacts
  <2> QED
    BY <1>1, <1>2, <2>1 DEF Operand, Fits
<1>5. Setting(s, u, n, k, c, c.min, hi, Wrap(c, n), Wrap(c, k))
  BY <1>4, SettingOf
<1>6. -k <= m => Setting(s, u, n, -m, c, c.min, hi, Wrap(c, n), Wrap(c, -m))
  BY <1>4, SettingOf
<1> HIDE DEF c, hi, k
<1>7. /\ c \in Wide /\ ~c.signed /\ Common(c, c) = c /\ Common(s, u) = c /\ Common(c, u) = c
      /\ Common(s, c) = c /\ Common(c, s) = c /\ Common(u, c) = c /\ Common(c, int) = c
      /\ hi \in Int /\ c = Common(s, u)
  <2>1. /\ c \in Wide /\ Common(c, c) = c /\ Common(s, u) = c /\ Common(c, u) = c
        /\ Common(s, c) = c /\ Common(c, s) = c /\ Common(u, c) = c /\ hi \in Int
    BY <1>3 DEF Setting
  <2> QED
    BY <2>1, CommonWithInt DEF c
<1>8. Wrap(c, k) = k /\ k <= hi
  BY <1>2, <1>5, <1>7 DEF Setting
<1>9. \A v \in Int : /\ Fits(c, v) <=> 0 <= v /\ v <= hi
                     /\ 0 <= v /\ v <= hi => Wrap(c, v) = v
                     /\ Wrap(c, v) \in Int /\ Fits(c, Wrap(c, v))
  <2>1. \A v \in Int : /\ Fits(c, v) <=> c.min <= v /\ v <= hi
                       /\ c.min <= v /\ v <= hi => Wrap(c, v) = v
    BY <1>3 DEF Setting
  <2>2. c.min = 0
    BY <1>3, <1>7 DEF Setting
  <2>3. TypeFacts(c)
    BY <1>7, WideTypes
  <2> QED
    BY <2>1, <2>2, <2>3, Wraps
<1>10. TypeOf(a) = s /\ TypeOf(b) = u /\ TypeOf(half) = u
  BY ValueTypes
<1>11. Neg(half) = Num(u, -k)
  <2>1. Wrap(u, k) = k
    BY <1>2, Wraps
  <2>2. 0 - k = -k /\ -k \in Int /\ k \in Int
    BY <1>2
  <2> QED
    BY <1>1, <1>2, <2>1, <2>2, Negated, CalcIs
<1>12. /\ m < -k => Less(b, Neg(half)) = Yes
       /\ ~(m < -k) => Less(b, Neg(half)) = No
  <2>1. Wrap(u, m) = m /\ Wrap(u, -k) = -k /\ -k \in Int
    BY <1>1, <1>2, Wraps
  <2> QED
    BY <1>1, <1>2, <1>11, <2>1, Within
<1> HIDE DEF a, b, half
<1>13. TypeOf(next) = c
  <2>1. TypeOf(_GL_INT_CONVERT(a, half)) = Common(Common(int, s), u)
    <3>1. TypeOf(Lit(0)) = int
      BY Literals, ValueTypes
    <3> QED
      BY <1>10, <3>1, IfTypes, ArithTypes DEF _GL_INT_CONVERT
  <2>2. Common(int, s) = s
    BY <1>1, CommonWithInt
  <2>3. TypeOf(Lit(1)) = int
    BY Literals, ValueTypes
  <2> QED
    BY <1>7, <2>1, <2>2, <2>3, ArithTypes
<1>14. TypeOf(Rem(a, next)) = c /\ TypeOf(inner) = c
  <2>1. TypeOf(Rem(a, next)) = c
    BY <1>7, <1>10, <1>13, RemTypes
  <2> QED
    BY <1>7, <1>10, <2>1, IfTypes
<1>15. TypeOf(Rem(a, Neg(b))) = c
  <2>1. TypeOf(Neg(b)) = u
    <3>1. TypeOf(Neg(b)) = Promoted(TypeOf(b))
      BY DEF Neg, SubAs, Arith, Value, TypeOf
    <3> QED
      BY <1>2, <1>10, <3>1
  <2> QED
    BY <1>7, <1>10, <2>1, RemTypes
<1>16. m < -k => \E v \in Int : inner = Num(c, v)
  <2>1. /\ k = hi => Equal(half, Num(c, hi)) = Yes
        /\ k # hi => Equal(half, Num(c, hi)) = No
    <3>1. Wrap(c, hi) = hi /\ k \in Int
      BY <1>2, <1>7, <1>8, <1>9
    <3> QED
      BY <1>1, <1>7, <1>8, <3>1, Binary DEF half
  <2>2. CASE k = hi
    <3>1. inner = Num(c, Wrap(c, n))
      <4>1. If(Yes, a, Rem(a, next)) = Num(Common(s, c), Wrap(Common(s, c), n))
        BY <1>14, IfYes DEF a
      <4> QED
        BY <1>7, <2>1, <2>2, <4>1
    <3> QED
      BY <1>1, <1>9, <3>1
  <2>3. CASE k # hi
    <3>1. next = Num(c, k + 1)
      <4>1. _GL_INT_CONVERT(a, half) = Num(c, k)
        <5>1. If(Lit(1), Lit(0), a) = Num(s, 0)
          BY <1>1, <1>10, ZeroOf
        <5>2. Add(Num(s, 0), half) = Calc(c, 0 + k)
          <6>1. Wrap(c, 0) = 0 /\ k \in Int
            BY <1>2, <1>7, SmallFit
          <6> QED
            BY <1>1, <1>7, <1>8, <6>1, Binary DEF half
        <5>3. 0 + k = k /\ k \in Int /\ Fits(c, k)
          BY <1>2, <1>7, <1>8, <1>9
        <5> QED
          BY <1>7, <5>1, <5>2, <5>3, CalcIs DEF _GL_INT_CONVERT
      <4>2. Add(Num(c, k), Num(int, 1)) = Calc(c, k + 1)
        <5>1. int \in Wide /\ Wrap(c, 1) = 1 /\ k \in Int
          BY <1>2, <1>7, WideTypes, SmallFit
        <5> QED
          BY <1>7, <1>8, <5>1, Binary
      <4>3. k + 1 \in Int /\ Fits(c, k + 1)
        BY <1>2, <1>7, <1>8, <1>9, <2>3
      <4> QED
        BY <1>7, <4>1, <4>2, <4>3, CalcIs, Literals
    <3>2. k + 1 \in Int /\ k + 1 # 0 /\ Wrap(c, k + 1) = k + 1
      BY <1>2, <1>7, <1>8, <1>9, <2>3
    <3>3. PICK r \in Int : Rem(a, next) = Num(c, r)
      <4> DEFINE A == Wrap(c, n)
                 K == k + 1
      <4>1. A \in Int
        BY <1>1, <1>9
      <4> HIDE DEF A, K
      <4>2. K \in Int /\ K # 0 /\ Wrap(c, K) = K /\ Wrap(c, n) = A
        BY <3>2 DEF A, K
      <4>3. /\ Rem(Num(s, n), Num(c, K)) = Num(c, Rest(A, K))
            /\ Rest(A, K) \in Int
        BY <1>1, <1>7, <4>1, <4>2, RemainderIn
      <4> QED
        BY <3>1, <4>3 DEF a, K
    <3>4. inner = Num(c, Wrap(c, r))
      <4>1. If(No, a, Num(c, r)) = Num(Common(s, c), Wrap(Common(s, c), r))
        BY <1>10, IfNo
      <4> QED
        BY <1>7, <2>1, <2>3, <3>3, <4>1
    <3> QED
      BY <1>9, <3>4
  <2> QED
    BY <2>2, <2>3
<1>17. \E v \in Int : outer = Num(c, v) /\ Fits(c, v)
  <2>1. CASE m < -k
    <3>1. PICK v \in Int : inner = Num(c, v)
      BY <1>16, <2>1
    <3>2. If(Yes, Num(c, v), Rem(a, Neg(b))) = Num(Common(c, c), Wrap(Common(c, c), v))
      BY <1>15, IfYes
    <3>3. outer = Num(c, Wrap(c, v))
      <4> HIDE DEF inner
      <4> QED
        BY <1>7, <1>12, <2>1, <3>1, <3>2
    <3> QED
      BY <1>9, <3>3
  <2>2. CASE ~(m < -k)
    <3>1. -m \in Int /\ -m # 0 /\ -k <= m
      BY <1>1, <1>2, <2>2
    <3>2. Wrap(c, -m) = -m
      <4>1. -m >= 0
        BY <1>1
      <4>2. -m <= hi
        BY <1>6, <3>1 DEF Setting
      <4> QED
        BY <1>9, <3>1, <4>1, <4>2
    <3>3. Neg(b) = Num(u, -m)
      <4>1. Wrap(u, m) = m /\ 0 - m = -m /\ Fits(u, -m)
        BY <1>1, <1>2, <1>4, <3>1, Wraps DEF Operand
      <4> QED
        BY <1>1, <3>1, <4>1, Negated, CalcIs DEF b
    <3>4. PICK r \in Int : Rem(a, Neg(b)) = Num(c, r)
      <4> DEFINE A == Wrap(c, n)
                 M == -m
      <4>1. A \in Int
        BY <1>1, <1>9
      <4> HIDE DEF A, M
      <4>2. M \in Int /\ M # 0 /\ Wrap(c, M) = M /\ Wrap(c, n) = A
        BY <3>1, <3>2 DEF A, M
      <4>3. /\ Rem(Num(s, n), Num(u, M)) = Num(c, Rest(A, M))
            /\ Rest(A, M) \in Int
        BY <1>1, <1>7, <4>1, <4>2, RemainderIn
      <4> QED
        BY <3>3, <4>3 DEF a, M
    <3>5. If(No, inner, Num(c, r)) = Num(Common(c, c), Wrap(Common(c, c), r))
      BY <1>14, IfNo
    <3>6. outer = Num(c, Wrap(c, r))
      <4> HIDE DEF inner
      <4> QED
        BY <1>7, <1>12, <2>2, <3>4, <3>5
    <3> QED
      BY <1>9, <3>6
  <2> QED
    BY <2>1, <2>2
<1>18. Equal(outer, Lit(0)) \in {Yes, No}
  <2>1. PICK v \in Int : outer = Num(c, v) /\ Fits(c, v)
    BY <1>17
  <2>2. Fits(c, 0) /\ 0 \in Int
    BY <1>7, SmallFit
  <2>3. Equal(Num(c, v), Lit(0)) \in {Yes, No}
    BY <1>7, <2>1, <2>2, EqualTo
  <2> QED
    BY <2>1, <2>3
<1>19. _GL_SIGNED_INT_MAXIMUM(b) = half
  BY <1>1, <1>2, <1>10, SignedMaximum DEF half, k
<1> QED
  BY <1>18, <1>19 DEF _GL_UNSIGNED_NEG_MULTIPLE, a, b, c, hi

\* What the macro says of a remainder: without an overflow the mathematical one
\* fits the type, and is the value of the expression if both operands keep
\* theirs.
Remained(res, t, n, m) ==
  /\ res.over \in {Yes, No}
  /\ res.over = No => Fits(t, n - m * Quotient(n, m))
  /\ res.over = No /\ Fits(t, n) /\ Fits(t, m) => res.r = Num(t, n - m * Quotient(n, m))

\* What INT_REMAINDER_OVERFLOW evaluates.
LEMMA RemainderOverflowIs ==
  ASSUME NEW s, NEW u, NEW n, NEW m, Operand(s, n), Operand(u, m)
  PROVE  LET a == Num(s, n)
             b == Num(u, m)
             c == Common(s, u)
             max == Num(c, c.max)
             res == INT_REMAINDER_OVERFLOW(a, b)
         IN  /\ res.over = If(Less(Num(c, c.min), Lit(0)),
                              MinByMinusOne(a, b, Num(c, c.min), max),
                              If(Less(a, Lit(0)),
                                 Not(Equal(Rem(a, b), Rem(Add(Sub(max, b), Lit(1)), b))),
                                 And(Less(b, Lit(0)), Not(_GL_UNSIGNED_NEG_MULTIPLE(a, b, max)))))
             /\ res.r = Rem(a, b)
<1> DEFINE a == Num(s, n)
           b == Num(u, m)
           c == Common(s, u)
           lo == c.min
           hi == c.max
           max == Num(c, hi)
           A == Wrap(c, n)
           B == Wrap(c, m)
<1>1. Setting(s, u, n, m, c, lo, hi, A, B) /\ Bounded(c, lo, hi)
  BY SettingOf DEF Bounded
<1> HIDE DEF c, lo, hi, A, B
<1>2. _GL_BINARY_OP_OVERFLOW(a, b, "%") = _GL_REMAINDER_OVERFLOW(a, b, Num(c, lo), Num(c, hi))
  BY <1>1, BoundsGiven
<1>3. /\ INT_REMAINDER_OVERFLOW(a, b).over = _GL_BINARY_OP_OVERFLOW(a, b, "%")
      /\ INT_REMAINDER_OVERFLOW(a, b).r = Rem(a, b)
  BY DEF INT_REMAINDER_OVERFLOW
<1>4. _GL_REMAINDER_OVERFLOW(a, b, Num(c, lo), Num(c, hi))
        = If(Less(Num(c, lo), Lit(0)),
             MinByMinusOne(a, b, Num(c, lo), max),
             If(Less(a, Lit(0)),
                Not(Equal(Rem(a, b), Rem(Add(Sub(max, b), Lit(1)), b))),
                And(Less(b, Lit(0)), Not(_GL_UNSIGNED_NEG_MULTIPLE(a, b, max)))))
  BY DEF _GL_REMAINDER_OVERFLOW
<1> QED
  BY <1>2, <1>3, <1>4 DEF c, lo, hi

\* INT_REMAINDER_OVERFLOW reports no overflow only if the remainder fits.
LEMMA RemainderOverflow ==
  ASSUME NEW s, NEW u, NEW n, NEW m, Operand(s, n), Operand(u, m), m # 0
  PROVE  Remained(INT_REMAINDER_OVERFLOW(Num(s, n), Num(u, m)), Common(s, u), n, m)
<1> DEFINE a == Num(s, n)
           b == Num(u, m)
           c == Common(s, u)
           lo == c.min
           hi == c.max
           A == Wrap(c, n)
           B == Wrap(c, m)
           v == n - m * Quotient(n, m)
           same == Equal(Rem(a, b), Rem(Add(Sub(Num(c, hi), b), Lit(1)), b))
           multiple == _GL_UNSIGNED_NEG_MULTIPLE(a, b, Num(c, hi))
           signedOver == MinByMinusOne(a, b, Num(c, lo), Num(c, hi))
           negative == And(Less(b, Lit(0)), Not(multiple))
           unsignedOver == If(Less(a, Lit(0)), Not(same), negative)
           res == INT_REMAINDER_OVERFLOW(a, b)
<1>1. Setting(s, u, n, m, c, lo, hi, A, B)
  BY SettingOf
<1>2. res.over = If(Less(Num(c, lo), Lit(0)), signedOver, unsignedOver) /\ res.r = Rem(a, b)
  BY RemainderOverflowIs
<1>3. m < 0 /\ ~c.signed => multiple \in {Yes, No}
  BY NegativeDivisor
<1> HIDE DEF c, lo, hi, A, B
<1>4. /\ s \in Wide /\ u \in Wide /\ c \in Wide /\ n \in Int /\ m \in Int
      /\ lo \in Int /\ hi \in Int /\ n <= hi /\ hi >= 1 /\ c = Common(s, u)
      /\ Common(c, u) = c /\ Common(s, c) = c
  BY <1>1 DEF Setting, c
<1>5. /\ c.signed => lo = -hi - 1 /\ lo <= n
      /\ ~c.signed => lo = 0
  <2>1. c.signed => lo = -hi - 1 /\ A = n /\ lo <= A
    BY <1>1 DEF Setting
  <2> QED
    BY <1>1, <2>1 DEF Setting
<1>6. \A x \in Int : /\ Fits(c, x) <=> lo <= x /\ x <= hi
                     /\ Fits(c, x) => Wrap(c, x) = x
  BY <1>1 DEF Setting
<1>7. /\ v \in Int
      /\ n >= 0 => 0 <= v /\ v <= n
      /\ n < 0 => n <= v /\ v <= 0
  <2> DEFINE p == Quotient(n, m) * m
  <2>1. /\ p \in Int /\ v = n - p
        /\ n >= 0 => 0 <= p /\ p <= n
        /\ n < 0 => n <= p /\ p <= 0
    BY <1>4, RemainderBounds
  <2> HIDE DEF p, v
  <2> QED
    BY <1>4, <2>1
<1> HIDE DEF v
<1>8. c.signed \/ n >= 0 \/ v = 0 => Fits(c, v)
  BY <1>4, <1>5, <1>6, <1>7
<1>9. Fits(c, n) /\ Fits(c, m) /\ Fits(c, Quotient(n, m)) => res.r = Num(c, v)
  <2>1. SUFFICES ASSUME Fits(c, n), Fits(c, m), Fits(c, Quotient(n, m))
                 PROVE  res.r = Num(c, v)
    OBVIOUS
  <2>2. Wrap(c, n) = n /\ Wrap(c, m) = m
    BY <1>4, <1>6, <2>1
  <2>3. Rem(a, b) = Num(c, n - m * Quotient(n, m))
    BY <1>4, <2>1, <2>2, Remains
  <2> QED
    BY <1>2, <2>3 DEF v
<1>10. TypeOf(signedOver) = int /\ TypeOf(unsignedOver) = int
  BY ConditionTypes, ChoiceTypes DEF MinByMinusOne
<1>11. Yes # No
  BY DEF Yes, No, Num, Value
<1>12. CASE c.signed
  <2>1. /\ Fits(c, Quotient(n, m)) => signedOver = No
        /\ ~Fits(c, Quotient(n, m)) => signedOver = Yes
    BY <1>1, <1>12, MinByMinusOneIs
  <2>2. Less(Num(c, lo), Lit(0)) = Yes
    BY <1>1, <1>12, SignTests
  <2> HIDE DEF signedOver, unsignedOver
  <2>3. res.over = signedOver
    BY <1>2, <1>10, <2>1, <2>2, Choose
  <2>4. Fits(c, v)
    BY <1>8, <1>12
  <2> HIDE DEF res
  <2>5. Remained(res, c, n, m)
    BY <1>9, <1>11, <2>1, <2>3, <2>4 DEF Remained, v
  <2> QED
    BY <2>5 DEF c, res
<1>13. CASE ~c.signed
  <2>1. Less(Num(c, lo), Lit(0)) = No
    BY <1>1, <1>13, SignTests
  <2>2. /\ n < 0 => Less(a, Lit(0)) = Yes
        /\ ~(n < 0) => Less(a, Lit(0)) = No
        /\ m < 0 => Less(b, Lit(0)) = Yes
        /\ ~(m < 0) => Less(b, Lit(0)) = No
    BY <1>1, SignTests
  <2>3. TypeOf(Not(same)) = int /\ TypeOf(negative) = int
    BY ConditionTypes
  <2>4. CASE n < 0
    <3>1. same \in {Yes, No} /\ (same = Yes => v = 0)
      BY <1>1, <1>13, <2>4, NegativeDividend DEF v
    <3> HIDE DEF same, negative
    <3>2. Not(same) \in {Yes, No} /\ (Not(same) = No => v = 0)
      BY <1>11, <3>1, Inverted
    <3>3. unsignedOver = Not(same)
      BY <2>2, <2>3, <2>4, <3>2, Choose
    <3> HIDE DEF signedOver, unsignedOver
    <3>4. res.over = Not(same)
      BY <1>2, <1>10, <2>1, <3>2, <3>3, Choose
    <3>5. ~Fits(c, n)
      BY <1>4, <1>5, <1>6, <1>13, <2>4
    <3> HIDE DEF res
    <3>6. Remained(res, c, n, m)
      BY <1>8, <3>2, <3>4, <3>5 DEF Remained, v
    <3> QED
      BY <3>6 DEF c, res
  <2>5. CASE ~(n < 0)
    <3>1. Fits(c, v)
      BY <1>4, <1>8, <2>5
    <3>2. negative \in {Yes, No} /\ (~(m < 0) => negative = No)
      <4>1. CASE m < 0
        <5>1. Not(multiple) \in {Yes, No}
          BY <1>3, <1>13, <4>1, Inverted
        <5> HIDE DEF multiple
        <5> QED
          BY <2>2, <4>1, <5>1, Connectives
      <4>2. CASE ~(m < 0)
        BY <2>2, <4>2, Connectives
      <4> QED
        BY <4>1, <4>2
    <3> HIDE DEF same, negative
    <3>3. unsignedOver = negative
      BY <2>2, <2>3, <2>5, <3>2, Choose
    <3> HIDE DEF signedOver, unsignedOver
    <3>4. res.over = negative
      BY <1>2, <1>10, <2>1, <3>2, <3>3, Choose
    <3>5. Fits(c, m) => res.r = Num(c, v)
      <4>1. SUFFICES ASSUME Fits(c, m) PROVE res.r = Num(c, v)
        OBVIOUS
      <4>2. m > 0 /\ n >= 0 /\ Fits(c, n)
        BY <1>4, <1>5, <1>6, <1>13, <2>5, <4>1
      <4> DEFINE q == Quotient(n, m)
      <4>3. q \in Int /\ 0 <= q /\ q <= n
        BY <1>4, <4>2, QuotientBounds
      <4>4. Fits(c, q)
        <5> HIDE DEF q
        <5> QED
          BY <1>4, <1>5, <1>6, <1>13, <4>3
      <4> QED
        BY <1>9, <4>1, <4>2, <4>4
    <3> HIDE DEF res
    <3>6. Remained(res, c, n, m)
      BY <3>1, <3>2, <3>4, <3>5 DEF Remained, v
    <3> QED
      BY <3>6 DEF c, res
  <2> QED
    BY <2>4, <2>5
<1> QED
  BY <1>12, <1>13

-----------------------------------------------------------------------------
(* Every use of INT_<op>_OVERFLOW.                                         *)

OverflowMacros == {"+", "-", "*", "/", "%", "<<", "0 -"}

\* The values of a condition, and of a number.
LEMMA Answers ==
  /\ Yes.ok = TRUE /\ No.ok = TRUE /\ ~Zero(Yes) /\ Zero(No) /\ Yes # No
  /\ \A t, v : Num(t, v).v = v /\ Num(t, v).ok = TRUE /\ Num(t, v).t = t
  /\ OverflowMacros \cap DOMAIN WrapvOp = {}
<1>1. Yes.v = 1 /\ Yes.ok = TRUE /\ No.v = 0 /\ No.ok = TRUE
  BY DEF Yes, No, Num, Value
<1>2. \A t, v : Num(t, v).v = v /\ Num(t, v).ok = TRUE /\ Num(t, v).t = t
  BY DEF Num, Value
<1>3. OverflowMacros \cap DOMAIN WrapvOp = {}
  BY DEF OverflowMacros, WrapvOp
<1> QED
  BY <1>1, <1>2, <1>3 DEF Zero

\* What the lemmas say of a macro is what OverflowExact asks of it.
LEMMA ExactlyTruthful ==
  ASSUME NEW c, NEW v, NEW common, NEW res,
         c.macro \in OverflowMacros \ {"/", "%"}, Exactly(res, c.tr, v)
  PROVE  Truthful(c, v, common, res)
<1>1. c.macro \notin DOMAIN WrapvOp /\ c.macro \notin {"/", "%"}
  BY Answers
<1>2. CASE Fits(c.tr, v)
  <2>1. res.over = No /\ res.r = Num(c.tr, v)
    BY <1>2 DEF Exactly
  <2>2. res.over.ok /\ Zero(res.over) /\ res.r.ok /\ res.r.v = v
    BY <2>1, Answers
  <2> QED
    BY <1>1, <1>2, <2>2 DEF Truthful
<1>3. CASE ~Fits(c.tr, v)
  <2>1. res.over = Yes
    BY <1>3 DEF Exactly
  <2>2. res.over.ok /\ ~Zero(res.over)
    BY <2>1, Answers
  <2> QED
    BY <1>1, <1>3, <2>2 DEF Truthful
<1> QED
  BY <1>2, <1>3

\* The same of a quotient,
LEMMA DividedTruthful ==
  ASSUME NEW c, NEW common, NEW res, c.macro = "/", Divided(res, c.tr, c.a.v, c.b.v)
  PROVE  Truthful(c, Quotient(c.a.v, c.b.v), common, res)
<1> DEFINE v == Quotient(c.a.v, c.b.v)
<1>1. c.macro \notin DOMAIN WrapvOp
  BY Answers DEF OverflowMacros
<1>2. CASE Fits(c.tr, v)
  <2>1. res.over = No /\ (Fits(c.tr, c.a.v) /\ Fits(c.tr, c.b.v) => res.r = Num(c.tr, v))
    BY <1>2 DEF Divided
  <2> HIDE DEF v
  <2>2. res.over.ok /\ Zero(res.over)
    BY <2>1, Answers
  <2>3. Fits(c.tr, c.a.v) /\ Fits(c.tr, c.b.v) => res.r.ok /\ res.r.v = v
    BY <2>1, Answers
  <2>4. Truthful(c, v, common, res)
    BY <1>1, <1>2, <2>2, <2>3 DEF Truthful
  <2> QED
    BY <2>4 DEF v
<1>3. CASE ~Fits(c.tr, v)
  <2>1. res.over = Yes
    BY <1>3 DEF Divided
  <2> HIDE DEF v
  <2>2. res.over.ok /\ ~Zero(res.over)
    BY <2>1, Answers
  <2>3. Truthful(c, v, common, res)
    BY <1>1, <1>3, <2>2 DEF Truthful
  <2> QED
    BY <2>3 DEF v
<1> QED
  BY <1>2, <1>3

\* and of a remainder.
LEMMA RemainedTruthful ==
  ASSUME NEW c, NEW common, NEW res, c.macro = "%", Remained(res, c.tr, c.a.v, c.b.v)
  PROVE  Truthful(c, c.a.v - c.b.v * Quotient(c.a.v, c.b.v), common, res)
<1> DEFINE v == c.a.v - c.b.v * Quotient(c.a.v, c.b.v)
<1>1. c.macro \notin DOMAIN WrapvOp
  BY Answers DEF OverflowMacros
<1>2. /\ res.over \in {Yes, No}
      /\ res.over = No => Fits(c.tr, v)
      /\ res.over = No /\ Fits(c.tr, c.a.v) /\ Fits(c.tr, c.b.v) => res.r = Num(c.tr, v)
  BY DEF Remained
<1> HIDE DEF v
<1>3. res.over.ok /\ (Zero(res.over) => res.over = No)
  BY <1>2, Answers
<1>4. Zero(res.over) /\ Fits(c.tr, c.a.v) /\ Fits(c.tr, c.b.v) => res.r.ok /\ res.r.v = v
  BY <1>2, <1>3, Answers
<1>5. Truthful(c, v, common, res)
  BY <1>1, <1>2, <1>3, <1>4 DEF Truthful
<1> QED
  BY <1>5 DEF v

\* The operands of a use, and what UseOverflow asks of them.
IpCalls == [macro : {"none"} \cup DOMAIN WrapvOp \cup OverflowMacros, a : Operands, b : Operands,
            tr : Arithmetic, typeof : BOOLEAN]
IpInv ==
  /\ ipCall \in IpCalls
  /\ ipCall.macro \in {"/", "%"} => ~Zero(ipCall.b)
  /\ ipCall.macro = "<<" => ipCall.b.v \in 0..(Promoted(ipCall.a.t).bits - 1)
  /\ ipCall.macro \in OverflowMacros =>
       ipCall.tr = IF ipCall.macro \in {"<<", "0 -"} THEN Promoted(ipCall.a.t)
                   ELSE Common(ipCall.a.t, ipCall.b.t)

\* Every operand is a number of its type.
LEMMA OperandIs ==
  ASSUME NEW x \in Operands
  PROVE  x = Num(x.t, x.v) /\ Operand(x.t, x.v)
<1>1. PICK t \in Arithmetic : t.bits >= IntBits /\ x \in {Value(t, n, TRUE) : n \in t.min..t.max}
  BY DEF Operands
<1>2. t \in Wide
  BY <1>1 DEF Wide
<1>3. PICK n \in t.min..t.max : x = Num(t, n)
  BY <1>1 DEF Num
<1>4. x.t = t /\ x.v = n
  BY <1>3, Answers
<1>5. t.min \in Int /\ t.max \in Int
  BY <1>2, WideTypes DEF TypeFacts
<1>6. n \in Int /\ Fits(t, n)
  BY <1>5 DEF Fits
<1> QED
  BY <1>2, <1>3, <1>4, <1>6 DEF Operand

\* The second operand before a macro is used.
LEMMA LitIsOperand == Lit(0) \in Operands
<1>1. int \in Wide /\ int \in Arithmetic /\ int.bits >= IntBits /\ Fits(int, 0) /\ TypeFacts(int)
  BY WideTypes, SmallFit DEF Wide
<1>2. int.min \in Int /\ int.max \in Int
  BY <1>1 DEF TypeFacts
<1>3. 0 \in int.min..int.max
  BY <1>1, <1>2 DEF Fits
<1>4. Lit(0) \in {Value(int, n, TRUE) : n \in int.min..int.max}
  BY <1>3 DEF Lit
<1> QED
  BY <1>1, <1>4 DEF Operands

\* The operands of a use are operands from the start,
LEMMA IpInit0 == IpInit => IpInv
<1> SUFFICES ASSUME IpInit PROVE IpInv
  OBVIOUS
<1>1. PICK a \in Operands :
        ipCall = [macro |-> "none", a |-> a, b |-> Lit(0), tr |-> int, typeof |-> TRUE]
  BY DEF IpInit
<1>2. int \in Arithmetic
  BY WideTypes DEF Wide
<1>3. ipCall \in IpCalls
  BY <1>1, <1>2, LitIsOperand DEF IpCalls
<1> QED
  BY <1>1, <1>3 DEF IpInv, OverflowMacros

\* and stay so.
LEMMA IpStep == IpInv /\ [IpNext]_ipVars => IpInv'
<1> SUFFICES ASSUME IpInv, [IpNext]_ipVars PROVE IpInv'
  OBVIOUS
<1>1. ipCall \in IpCalls
  BY DEF IpInv
<1>2. ASSUME NEW b \in Operands, NEW macro \in DOMAIN WrapvOp, NEW tr \in Arithmetic,
             NEW typeof \in BOOLEAN, UseWrapv(macro, b, tr, typeof)
      PROVE  IpInv'
  <2>1. ipCall' \in IpCalls /\ ipCall'.macro = macro
    BY <1>1, <1>2 DEF UseWrapv, IpCalls
  <2>2. macro \notin OverflowMacros /\ macro \notin {"/", "%", "<<"}
    BY Answers DEF OverflowMacros
  <2> QED
    BY <2>1, <2>2 DEF IpInv
<1>3. ASSUME NEW b \in Operands, NEW macro \in OverflowMacros, UseOverflow(macro, b)
      PROVE  IpInv'
  <2> DEFINE tr == IF macro \in {"<<", "0 -"} THEN Promoted(ipCall.a.t)
                   ELSE Common(ipCall.a.t, b.t)
  <2>1. ipCall.a \in Operands
    BY <1>1 DEF IpCalls
  <2>2. tr \in Arithmetic
    <3>1. ipCall.a.t \in Wide /\ b.t \in Wide
      BY <2>1, OperandIs DEF Operand
    <3>2. Promoted(ipCall.a.t) \in Wide /\ Common(ipCall.a.t, b.t) \in Wide
      BY <3>1, WideTypes, CommonTypes
    <3> QED
      BY <3>2 DEF Wide
  <2> HIDE DEF tr
  <2>3. ipCall' = [ipCall EXCEPT !.macro = macro, !.b = b, !.typeof = TRUE, !.tr = tr]
    BY <1>3 DEF UseOverflow, tr
  <2>4. /\ ipCall' \in IpCalls /\ ipCall'.macro = macro /\ ipCall'.a = ipCall.a
        /\ ipCall'.b = b /\ ipCall'.tr = tr
    BY <1>1, <2>2, <2>3 DEF IpCalls
  <2>5. /\ macro \in {"/", "%"} => ~Zero(b)
        /\ macro = "<<" => b.v \in 0..(Promoted(ipCall.a.t).bits - 1)
    BY <1>3 DEF UseOverflow
  <2> QED
    BY <2>4, <2>5 DEF IpInv, tr
<1>4. CASE UNCHANGED ipVars
  BY <1>4 DEF ipVars, IpInv
<1>5. CASE IpNext
  BY <1>2, <1>3, <1>5 DEF IpNext, OverflowMacros
<1> QED
  BY <1>4, <1>5

\* One use of any of the macros INT_<op>_OVERFLOW tells the truth.
LEMMA UseTruthful ==
  ASSUME IpInv, ipCall.macro \in OverflowMacros
  PROVE  OverflowExact
<1> DEFINE x == ipCall.a
           y == ipCall.b
           s == x.t
           u == y.t
           n == x.v
           m == y.v
           res == Result(ipCall)
           v == Exact(ipCall.macro, n, m)
<1>1. x \in Operands /\ y \in Operands
  BY DEF IpInv, IpCalls
<1>2. x = Num(s, n) /\ Operand(s, n) /\ y = Num(u, m) /\ Operand(u, m)
  BY <1>1, OperandIs
<1>3. s \in Wide /\ Promoted(s) = s
  BY <1>2, WideTypes DEF Operand
<1>4. /\ ipCall.macro \in {"<<", "0 -"} => ipCall.tr = s
      /\ ipCall.macro \in {"+", "-", "*", "/", "%"} => ipCall.tr = Common(s, u)
      /\ ipCall.macro \in {"/", "%"} => m # 0
      /\ ipCall.macro = "<<" => m \in 0..(s.bits - 1)
  BY <1>3 DEF IpInv, OverflowMacros, Zero
<1> HIDE DEF x, y, s, u, n, m
<1>5. SUFFICES Truthful(ipCall, v, Common(s, u), res)
  BY DEF OverflowExact, x, y, s, u, n, m
<1>6. CASE ipCall.macro = "+"
  <2>1. res = INT_ADD_OVERFLOW(x, y) /\ v = n + m
    BY <1>6 DEF Result, Exact, WrapvOp, x, y
  <2>2. Exactly(res, ipCall.tr, v)
    BY <1>2, <1>4, <1>6, <2>1, AddOverflow
  <2> QED
    BY <1>6, <2>2, ExactlyTruthful DEF OverflowMacros
<1>7. CASE ipCall.macro = "-"
  <2>1. res = INT_SUBTRACT_OVERFLOW(x, y) /\ v = n - m
    BY <1>7 DEF Result, Exact, WrapvOp, x, y
  <2>2. Exactly(res, ipCall.tr, v)
    BY <1>2, <1>4, <1>7, <2>1, SubtractOverflow
  <2> QED
    BY <1>7, <2>2, ExactlyTruthful DEF OverflowMacros
<1>8. CASE ipCall.macro = "*"
  <2>1. res = INT_MULTIPLY_OVERFLOW(x, y) /\ v = n * m
    BY <1>8 DEF Result, Exact, WrapvOp, x, y
  <2>2. Exactly(res, ipCall.tr, v)
    BY <1>2, <1>4, <1>8, <2>1, MultiplyOverflow
  <2> QED
    BY <1>8, <2>2, ExactlyTruthful DEF OverflowMacros
<1>9. CASE ipCall.macro = "/"
  <2>1. res = INT_DIVIDE_OVERFLOW(x, y) /\ v = Quotient(n, m)
    BY <1>9 DEF Result, Exact, WrapvOp, x, y
  <2>2. Divided(res, ipCall.tr, n, m)
    BY <1>2, <1>4, <1>9, <2>1, DivideOverflow
  <2> QED
    BY <1>9, <2>1, <2>2, DividedTruthful DEF n, m, x, y
<1>10. CASE ipCall.macro = "%"
  <2>1. res = INT_REMAINDER_OVERFLOW(x, y) /\ v = n - m * Quotient(n, m)
    BY <1>10 DEF Result, Exact, WrapvOp, x, y
  <2>2. Remained(res, ipCall.tr, n, m)
    BY <1>2, <1>4, <1>10, <2>1, RemainderOverflow
  <2> QED
    BY <1>10, <2>1, <2>2, RemainedTruthful DEF n, m, x, y
<1>11. CASE ipCall.macro = "<<"
  <2>1. res = INT_LEFT_SHIFT_OVERFLOW(x, y) /\ v = n * 2 ^ m
    BY <1>11 DEF Result, Exact, WrapvOp, x, y
  <2>2. Exactly(res, ipCall.tr, v)
    BY <1>2, <1>4, <1>11, <2>1, LeftShiftOverflow
  <2> QED
    BY <1>11, <2>2, ExactlyTruthful DEF OverflowMacros
<1>12. CASE ipCall.macro = "0 -"
  <2>1. res = [over |-> INT_NEGATE_OVERFLOW(x), r |-> Neg(x)] /\ v = -n
    BY <1>12 DEF Result, Exact, WrapvOp, x, y
  <2>2. Exactly(res, ipCall.tr, v)
    <3>1. res.over = INT_NEGATE_OVERFLOW(x) /\ res.r = Neg(x)
      BY <2>1
    <3> HIDE DEF res, v
    <3>2. /\ Fits(s, -n) => INT_NEGATE_OVERFLOW(x) = No /\ Neg(x) = Num(s, -n)
          /\ ~Fits(s, -n) => INT_NEGATE_OVERFLOW(x) = Yes
      BY <1>2, NegateOverflow
    <3> QED
      BY <1>4, <1>12, <2>1, <3>1, <3>2 DEF Exactly
  <2> QED
    BY <1>12, <2>2, ExactlyTruthful DEF OverflowMacros
<1> QED
  BY <1>6, <1>7, <1>8, <1>9, <1>10, <1>11, <1>12 DEF OverflowMacros

-----------------------------------------------------------------------------
(* INT_<op>_WRAPV.  The bounds of the variable's type are constants of a    *)
(* third type beside the operands' two.                                     *)

\* lo of type q and hi of type p are the bounds of a type as the macros have them.
BoundsOf(q, p, lo, hi) ==
  /\ Operand(q, lo) /\ Operand(p, hi) /\ q.signed /\ hi >= 1
  /\ \/ lo = -hi - 1 /\ p.signed
     \/ lo = 0

\* What lies between two values of a type is a value of it.
LEMMA Between ==
  ASSUME NEW s, NEW k, NEW l, Operand(s, k), Operand(s, l), NEW j \in Int, k <= j, j <= l
  PROVE  Operand(s, j)
<1>1. s.min \in Int /\ s.max \in Int /\ k \in Int /\ l \in Int
  BY WideTypes DEF Operand, TypeFacts
<1> QED
  BY <1>1 DEF Operand, Fits

\* 0, and -1 if it is signed, are values of every operand's type.
LEMMA SmallOperands ==
  ASSUME NEW s \in Wide
  PROVE  /\ Operand(s, 0) /\ Operand(s, 1) /\ Operand(int, 0) /\ Operand(int, -1)
         /\ Operand(int, 1)
         /\ s.signed => Operand(s, -1)
<1>1. int \in Wide /\ int.signed
  BY WideTypes
<1> QED
  BY <1>1, SmallFit DEF Operand

\* The common type of two signed types is signed.
LEMMA SignedCommon ==
  ASSUME NEW s \in Wide, NEW u \in Wide, s.signed, u.signed
  PROVE  Common(s, u).signed
BY CommonTypes

\* Two operands that their common type holds as they are: it is signed, or
\* neither is negative.
LEMMA Plain ==
  ASSUME NEW s, NEW u, NEW n, NEW m, Operand(s, n), Operand(u, m), NEW c, c = Common(s, u),
         c.signed \/ (n >= 0 /\ m >= 0)
  PROVE  /\ c \in Wide /\ Operand(c, n) /\ Operand(c, m)
         /\ n < m => Less(Num(s, n), Num(u, m)) = Yes /\ AtMost(Num(u, m), Num(s, n)) = No
         /\ ~(n < m) => Less(Num(s, n), Num(u, m)) = No /\ AtMost(Num(u, m), Num(s, n)) = Yes
         /\ Fits(c, n + m) => Add(Num(s, n), Num(u, m)) = Num(c, n + m)
         /\ Fits(c, n - m) => Sub(Num(s, n), Num(u, m)) = Num(c, n - m)
<1>1. /\ c \in Wide /\ TypeFacts(c) /\ Converts(c, s, n) /\ Converts(c, u, m)
  BY CommonOperands
<1>2. s \in Wide /\ u \in Wide /\ n \in Int /\ m \in Int
  BY DEF Operand
<1>3. Wrap(c, n) = n /\ Wrap(c, m) = m /\ Fits(c, n) /\ Fits(c, m)
  BY <1>1, <1>2 DEF Converts, TypeFacts
<1>4. /\ n < m => Less(Num(s, n), Num(u, m)) = Yes /\ AtMost(Num(u, m), Num(s, n)) = No
      /\ ~(n < m) => Less(Num(s, n), Num(u, m)) = No /\ AtMost(Num(u, m), Num(s, n)) = Yes
      /\ Fits(c, n + m) => Add(Num(s, n), Num(u, m)) = Num(c, n + m)
      /\ Fits(c, n - m) => Sub(Num(s, n), Num(u, m)) = Num(c, n - m)
  BY <1>2, <1>3, Within
<1> QED
  BY <1>1, <1>2, <1>3, <1>4 DEF Operand

\* A sum of operands of opposite sign, and a difference of two of one sign.
LEMMA PlainSum ==
  ASSUME NEW s, NEW u, NEW n, NEW m, Operand(s, n), Operand(u, m), NEW c, c = Common(s, u),
         c.signed
  PROVE  /\ (n >= 0 /\ m <= 0) \/ (n <= 0 /\ m >= 0) =>
              Operand(c, n + m) /\ Add(Num(s, n), Num(u, m)) = Num(c, n + m)
         /\ (n >= 0 /\ m >= 0) \/ (n < 0 /\ m < 0) =>
              Operand(c, n - m) /\ Sub(Num(s, n), Num(u, m)) = Num(c, n - m)
<1>1. /\ c \in Wide /\ Operand(c, n) /\ Operand(c, m)
      /\ Fits(c, n + m) => Add(Num(s, n), Num(u, m)) = Num(c, n + m)
      /\ Fits(c, n - m) => Sub(Num(s, n), Num(u, m)) = Num(c, n - m)
  <2>1. c.signed \/ (n >= 0 /\ m >= 0)
    OBVIOUS
  <2> QED
    BY <2>1, Plain
<1>2. n \in Int /\ m \in Int
  BY DEF Operand
<1>3. TypeFacts(c)
  BY <1>1, WideTypes
<1>4. c.min \in Int /\ c.max \in Int /\ c.min = -c.max - 1
      /\ c.min <= n /\ n <= c.max /\ c.min <= m /\ m <= c.max
  BY <1>1, <1>2, <1>3 DEF Operand, TypeFacts, Fits
<1>5. (n >= 0 /\ m <= 0) \/ (n <= 0 /\ m >= 0) => Operand(c, n + m)
  BY <1>1, <1>2, <1>4 DEF Operand, Fits
<1>6. (n >= 0 /\ m >= 0) \/ (n < 0 /\ m < 0) => Operand(c, n - m)
  BY <1>1, <1>2, <1>4 DEF Operand, Fits
<1> QED
  BY <1>1, <1>5, <1>6 DEF Operand

\* A difference of two operands that are not negative, if it is not either.
LEMMA PlainDifference ==
  ASSUME NEW s, NEW u, NEW n, NEW m, Operand(s, n), Operand(u, m), NEW c, c = Common(s, u),
         0 <= m, m <= n
  PROVE  Operand(c, n - m) /\ Sub(Num(s, n), Num(u, m)) = Num(c, n - m)
<1>1. n \in Int /\ m \in Int /\ n >= 0
  BY DEF Operand
<1>2. /\ c \in Wide /\ Operand(c, n) /\ Operand(c, m)
      /\ Fits(c, n - m) => Sub(Num(s, n), Num(u, m)) = Num(c, n - m)
  BY <1>1, Plain
<1>3. Operand(c, 0)
  BY <1>2, SmallOperands
<1>4. Operand(c, n - m)
  BY <1>1, <1>2, <1>3, Between
<1> QED
  BY <1>2, <1>4 DEF Operand

\* The macros' test for the sign of a type that two expressions have together.
LEMMA ConvertSigned ==
  ASSUME NEW s \in Wide, NEW u \in Wide, NEW n, NEW m, NEW e,
         e = _GL_INT_CONVERT(Num(s, n), Num(u, m))
  PROVE  /\ Common(s, u).signed => EXPR_SIGNED(e) = Yes
         /\ ~Common(s, u).signed => EXPR_SIGNED(e) = No
<1>1. TypeOf(Num(s, n)) = s /\ TypeOf(Num(u, m)) = u /\ TypeOf(Num(s, 0)) = s
  BY ValueTypes
<1>2. e = Add(Num(s, 0), Num(u, m))
  BY <1>1, ZeroOf DEF _GL_INT_CONVERT
<1>3. TypeOf(e) = Common(s, u) /\ Common(s, u) \in Wide
  BY <1>1, <1>2, ArithTypes, CommonTypes
<1> QED
  BY <1>3, ExprSigned

\* A bound as a condition: it is not 0 in a signed type.
LEMMA BoundCondition ==
  ASSUME NEW q, NEW lo, NEW x, NEW y
  PROVE  /\ lo # 0 => If(Num(q, lo), x, y) = If(Yes, x, y)
         /\ lo = 0 => If(Num(q, lo), x, y) = If(No, x, y)
         /\ lo # 0 => Not(Num(q, lo)) = No
         /\ lo = 0 => Not(Num(q, lo)) = Yes
<1>1. Yes.ok = TRUE /\ No.ok = TRUE /\ ~Zero(Yes) /\ Zero(No)
  BY Answers
<1>2. Num(q, lo).ok = TRUE /\ (Zero(Num(q, lo)) <=> lo = 0)
  BY Answers DEF Zero
<1> DEFINE t == Num(q, lo)
<1>3. t.ok = TRUE /\ (Zero(t) <=> lo = 0)
  BY <1>2
<1> HIDE DEF t
<1>4. \A z : Chosen(Common(x.t, y.t), t, z) = Chosen(Common(x.t, y.t), Yes, z)
             /\ Chosen(Common(x.t, y.t), t, z) = Chosen(Common(x.t, y.t), No, z)
  BY <1>1, <1>3 DEF Chosen
<1>5. /\ lo # 0 => If(t, x, y) = If(Yes, x, y)
      /\ lo = 0 => If(t, x, y) = If(No, x, y)
  BY <1>1, <1>3, <1>4 DEF If
<1>6. /\ lo # 0 => Not(t) = Truth(FALSE, TRUE)
      /\ lo = 0 => Not(t) = Truth(TRUE, TRUE)
  BY <1>3 DEF Not, Truth
<1>7. Truth(TRUE, TRUE) = Yes /\ Truth(FALSE, TRUE) = No
  BY DEF Truth, Yes, No, Num
<1> QED
  BY <1>5, <1>6, <1>7 DEF t

\* Only a signed type has a negative value.
LEMMA NegativeSigned ==
  ASSUME NEW s, NEW n, Operand(s, n), n < 0
  PROVE  s.signed
<1>1. TypeFacts(s) /\ Fits(s, n) /\ n \in Int
  BY WideTypes DEF Operand
<1> QED
  BY <1>1 DEF TypeFacts, Fits

\* If one of two operands is negative and their common type is unsigned, the
\* other is not.
LEMMA OneNegative ==
  ASSUME NEW s, NEW u, NEW n, NEW m, Operand(s, n), Operand(u, m), u.signed
  PROVE  /\ s.signed => Common(s, u).signed /\ Common(u, s).signed
         /\ ~Common(s, u).signed => n >= 0
         /\ ~Common(u, s).signed => n >= 0
<1>1. s \in Wide /\ u \in Wide /\ n \in Int
  BY DEF Operand
<1>2. s.signed => Common(s, u).signed /\ Common(u, s).signed
  BY <1>1, SignedCommon
<1>3. ~s.signed => n >= 0
  BY <1>1, NegativeSigned
<1> QED
  BY <1>2, <1>3

-----------------------------------------------------------------------------
(* INT_ADD_WRAPV.                                                          *)

\* A sum of operands of opposite sign: unless it is negative and their common
\* type is unsigned, it is what it should be.
LEMMA AddOpposite ==
  ASSUME NEW s, NEW u, NEW n, NEW m, Operand(s, n), Operand(u, m), NEW c, c = Common(s, u),
         \/ n >= 0 /\ m < 0
         \/ n < 0 /\ m >= 0
  PROVE  \E k \in Int : /\ Operand(c, k) /\ Add(Num(s, n), Num(u, m)) = Num(c, k)
                        /\ c.signed \/ n + m >= 0 => k = n + m
<1>1. n \in Int /\ m \in Int /\ n + m \in Int
  BY DEF Operand
<1>2. CASE c.signed
  <2>1. (n >= 0 /\ m <= 0) \/ (n <= 0 /\ m >= 0)
    BY <1>1
  <2>2. Operand(c, n + m) /\ Add(Num(s, n), Num(u, m)) = Num(c, n + m)
    BY <1>2, <2>1, PlainSum
  <2> QED
    BY <1>1, <2>2
<1>3. CASE ~c.signed
  <2> DEFINE hi == c.max
             A == Wrap(c, n)
             B == Wrap(c, m)
             k == IF A + B <= hi THEN A + B ELSE A + B - (hi + 1)
  <2>1. Setting(s, u, n, m, c, c.min, hi, A, B)
    BY SettingOf
  <2> HIDE DEF hi, A, B
  <2>2. /\ A \in Int /\ B \in Int /\ hi \in Int /\ 0 <= A /\ A <= hi /\ 0 <= B /\ B <= hi
        /\ c.min = 0 /\ c \in Wide
        /\ n >= 0 => A = n
        /\ n < 0 => A = n + hi + 1
        /\ m >= 0 => B = m
        /\ m < 0 => B = m + hi + 1
    BY <1>3, <2>1 DEF Setting
  <2>3. Add(Num(s, n), Num(u, m)) = Num(c, k)
    BY <1>3, <2>1, CalculateIn
  <2>4. k \in Int /\ 0 <= k /\ k <= hi /\ (n + m >= 0 => k = n + m)
    BY <1>1, <2>2
  <2> HIDE DEF k
  <2>5. Operand(c, k)
    BY <2>2, <2>4 DEF Operand, Fits, hi
  <2> QED
    BY <1>3, <2>3, <2>4, <2>5
<1> QED
  BY <1>2, <1>3

\* The test of such a sum against the upper bound, where it is no less than the
\* lower one.
LEMMA TooHigh ==
  ASSUME NEW s, NEW u, NEW n, NEW m, Operand(s, n), Operand(u, m),
         NEW q, NEW p, NEW lo, NEW hi, BoundsOf(q, p, lo, hi), lo <= n + m,
         \/ n >= 0 /\ m < 0
         \/ n < 0 /\ m >= 0
  PROVE  LET over == Less(Num(p, hi), Add(Num(s, n), Num(u, m)))
         IN  /\ over \in {Yes, No}
             /\ Common(s, u).signed \/ n + m >= 0 =>
                  /\ hi < n + m => over = Yes
                  /\ ~(hi < n + m) => over = No
<1> DEFINE c == Common(s, u)
           d == Common(p, c)
<1>1. PICK k \in Int : /\ Operand(c, k) /\ Add(Num(s, n), Num(u, m)) = Num(c, k)
                       /\ c.signed \/ n + m >= 0 => k = n + m
  BY AddOpposite
<1> HIDE DEF c
<1>2. Operand(p, hi) /\ hi >= 1 /\ hi \in Int /\ n \in Int /\ m \in Int /\ lo \in Int
  BY DEF BoundsOf, Operand
<1>3. d.signed \/ (hi >= 0 /\ k >= 0)
  <2>1. CASE k >= 0
    BY <1>2, <2>1
  <2>2. CASE k < 0
    <3>1. c.signed /\ k = n + m
      BY <1>1, <2>2, NegativeSigned
    <3>2. p.signed
      BY <1>2, <2>2, <3>1 DEF BoundsOf
    <3> QED
      BY <1>1, <1>2, <3>1, <3>2, SignedCommon DEF Operand
  <2> QED
    BY <1>1, <2>1, <2>2
<1>4. /\ hi < k => Less(Num(p, hi), Num(c, k)) = Yes
      /\ ~(hi < k) => Less(Num(p, hi), Num(c, k)) = No
  BY <1>1, <1>2, <1>3, Plain
<1> QED
  BY <1>1, <1>4 DEF c

\* The test against the lower bound, where y is negative.
TooLowOf(x, y, tmin) ==
  If(tmin, And(Or(EXPR_SIGNED(_GL_INT_CONVERT(x, Sub(tmin, y))), Less(y, tmin)),
               Less(x, Sub(tmin, y))),
     AtMost(x, Sub(Lit(-1), y)))

\* The test for a sum below the minimum, an operand being negative.
LEMMA TooLow ==
  ASSUME NEW s, NEW u, NEW n, NEW m, Operand(s, n), Operand(u, m), m < 0,
         NEW q, NEW p, NEW lo, NEW hi, BoundsOf(q, p, lo, hi)
  PROVE  /\ n + m < lo => TooLowOf(Num(s, n), Num(u, m), Num(q, lo)) = Yes
         /\ ~(n + m < lo) => TooLowOf(Num(s, n), Num(u, m), Num(q, lo)) = No
<1> DEFINE x == Num(s, n)
           y == Num(u, m)
           tmin == Num(q, lo)
           below == And(Or(EXPR_SIGNED(_GL_INT_CONVERT(x, Sub(tmin, y))), Less(y, tmin)),
                        Less(x, Sub(tmin, y)))
           negative == AtMost(x, Sub(Lit(-1), y))
<1>1. /\ n \in Int /\ m \in Int /\ lo \in Int /\ hi \in Int /\ hi >= 1
      /\ Operand(q, lo) /\ q.signed /\ q \in Wide /\ u \in Wide /\ s \in Wide
      /\ lo = 0 \/ lo = -hi - 1
  BY DEF BoundsOf, Operand
<1>2. u.signed
  BY NegativeSigned
<1>3. TypeOf(below) = int /\ TypeOf(negative) = int
  BY ConditionTypes
<1>4. TooLowOf(x, y, tmin) = If(tmin, below, negative)
  BY DEF TooLowOf
<1>5. CASE lo = 0
  <2> DEFINE d == Common(int, u)
  <2>1. int \in Wide /\ int.signed /\ Operand(int, -1)
    BY SmallOperands, WideTypes
  <2>2. d.signed /\ d \in Wide
    BY <1>1, <1>2, <2>1, SignedCommon, CommonTypes
  <2>3. Operand(d, -1 - m) /\ Sub(Num(int, -1), y) = Num(d, -1 - m)
    BY <2>1, <2>2, PlainSum
  <2> HIDE DEF d
  <2>4. Lit(-1) = Num(int, -1)
    BY DEF Lit, Num
  <2>5. Common(d, s).signed \/ (-1 - m >= 0 /\ n >= 0)
    BY <1>1, <2>2, <2>3, OneNegative
  <2>6. /\ -1 - m < n => AtMost(x, Num(d, -1 - m)) = No
        /\ ~(-1 - m < n) => AtMost(x, Num(d, -1 - m)) = Yes
    BY <2>3, <2>5, Plain
  <2>7. /\ n + m < 0 => negative = Yes
        /\ ~(n + m < 0) => negative = No
    BY <1>1, <2>3, <2>4, <2>6
  <2>8. negative \in {Yes, No}
    BY <2>7
  <2> HIDE DEF negative, below, x, y, tmin
  <2>9. If(tmin, below, negative) = negative
    BY <1>3, <1>5, <2>8, BoundCondition, Choose DEF tmin
  <2> QED
    BY <1>4, <1>5, <2>7, <2>9 DEF x, y, tmin
<1>6. CASE lo = -hi - 1
  <2> DEFINE d == Common(q, u)
             e == Common(s, d)
  <2>1. d.signed /\ d \in Wide /\ lo < 0
    BY <1>1, <1>2, <1>6, SignedCommon, CommonTypes
  <2>2. Operand(d, lo - m) /\ Sub(tmin, y) = Num(d, lo - m)
    BY <1>1, <2>1, PlainSum
  <2> HIDE DEF d
  <2>3. /\ e.signed => EXPR_SIGNED(_GL_INT_CONVERT(x, Sub(tmin, y))) = Yes
        /\ ~e.signed => EXPR_SIGNED(_GL_INT_CONVERT(x, Sub(tmin, y))) = No
    BY <1>1, <2>1, <2>2, ConvertSigned
  <2>4. /\ m < lo => Less(y, tmin) = Yes
        /\ ~(m < lo) => Less(y, tmin) = No
    <3>1. Common(u, q).signed
      BY <1>1, <1>2, SignedCommon
    <3> QED
      BY <1>1, <3>1, Plain
  <2>5. e.signed \/ (n >= 0 /\ lo - m >= 0) =>
          /\ n < lo - m => Less(x, Sub(tmin, y)) = Yes
          /\ ~(n < lo - m) => Less(x, Sub(tmin, y)) = No
    BY <2>2, Plain
  <2>6. ~e.signed => n >= 0
    BY <2>1, <2>2, OneNegative
  <2> HIDE DEF e, x, y, tmin
  <2>7. /\ n + m < lo => below = Yes
        /\ ~(n + m < lo) => below = No
    <3>1. CASE e.signed
      <4>1. Or(EXPR_SIGNED(_GL_INT_CONVERT(x, Sub(tmin, y))), Less(y, tmin)) = Yes
        BY <2>3, <3>1, Connectives
      <4> QED
        BY <1>1, <2>5, <3>1, <4>1, Connectives
    <3>2. CASE ~e.signed /\ m < lo
      <4>1. Or(EXPR_SIGNED(_GL_INT_CONVERT(x, Sub(tmin, y))), Less(y, tmin)) = Yes
        BY <2>3, <2>4, <3>2, Connectives
      <4> QED
        BY <1>1, <2>5, <2>6, <3>2, <4>1, Connectives
    <3>3. CASE ~e.signed /\ ~(m < lo)
      <4>1. Or(EXPR_SIGNED(_GL_INT_CONVERT(x, Sub(tmin, y))), Less(y, tmin)) = No
        BY <2>3, <2>4, <3>3, Connectives
      <4> QED
        BY <1>1, <2>6, <3>3, <4>1, Connectives
    <3> QED
      BY <3>1, <3>2, <3>3
  <2>8. below \in {Yes, No}
    BY <2>7
  <2> HIDE DEF negative, below
  <2>9. If(tmin, below, negative) = below
    BY <1>3, <2>1, <2>8, BoundCondition, Choose DEF tmin
  <2> QED
    BY <1>4, <2>7, <2>9 DEF x, y, tmin
<1> QED
  BY <1>1, <1>5, <1>6

\* What a negative value is at least, if the common type is unsigned.
LEMMA FarNegative ==
  ASSUME NEW s, NEW u, NEW n, NEW m, Operand(s, n), Operand(u, m), NEW c, c = Common(s, u),
         ~c.signed
  PROVE  /\ c.max \in Nat
         /\ n < 0 => -(c.max + 1) <= 2 * n
         /\ m < 0 => -(c.max + 1) <= 2 * m
<1>1. TypeFacts(c) /\ Converts(c, s, n) /\ Converts(c, u, m)
  BY CommonOperands
<1>2. n \in Int /\ m \in Int
  BY DEF Operand
<1> QED
  BY <1>1, <1>2 DEF TypeFacts, Converts

\* What a test for a sum says: nothing wrong if it is yes, and no more than it
\* should unless the operands' unsigned type is larger than the variable's.
Reports(over, c, lo, hi, v) ==
  /\ over \in {Yes, No}
  /\ over = No => lo <= v /\ v <= hi
  /\ lo <= v /\ v <= hi /\ (c.signed \/ lo = 0 \/ c.max <= 2 * hi + 1) => over = No

\* The test against the upper bound, of a sum with a negative operand and another
\* that is above that bound or in a signed type.
LEMMA HighReports ==
  ASSUME NEW s, NEW u, NEW n, NEW m, Operand(s, n), Operand(u, m), NEW c, c = Common(s, u),
         NEW q, NEW p, NEW lo, NEW hi, BoundsOf(q, p, lo, hi), lo <= n + m,
         \/ n >= 0 /\ m < 0 /\ (c.signed \/ hi < n)
         \/ n < 0 /\ m >= 0 /\ (c.signed \/ hi < m)
  PROVE  Reports(Less(Num(p, hi), Add(Num(s, n), Num(u, m))), c, lo, hi, n + m)
<1> DEFINE over == Less(Num(p, hi), Add(Num(s, n), Num(u, m)))
<1>1. /\ n \in Int /\ m \in Int /\ lo \in Int /\ hi \in Int /\ hi >= 1
      /\ lo = 0 \/ lo = -hi - 1
  BY DEF BoundsOf, Operand
<1>2. /\ over \in {Yes, No}
      /\ c.signed \/ n + m >= 0 =>
           /\ hi < n + m => over = Yes
           /\ ~(hi < n + m) => over = No
  BY TooHigh
<1>3. Yes # No
  BY Answers
<1> HIDE DEF over
<1>4. CASE c.signed \/ n + m >= 0
  <2>1. Reports(over, c, lo, hi, n + m)
    BY <1>1, <1>2, <1>3, <1>4 DEF Reports
  <2> QED
    BY <2>1 DEF over
<1>5. CASE ~c.signed /\ n + m < 0
  <2>1. c.max \in Nat /\ (n < 0 => -(c.max + 1) <= 2 * n) /\ (m < 0 => -(c.max + 1) <= 2 * m)
    BY <1>5, FarNegative
  <2>2. lo # 0
    BY <1>1, <1>5
  <2>3. ~(c.max <= 2 * hi + 1)
    <3>1. CASE n >= 0 /\ m < 0 /\ hi < n
      BY <1>1, <1>5, <2>1, <3>1
    <3>2. CASE n < 0 /\ m >= 0 /\ hi < m
      BY <1>1, <1>5, <2>1, <3>2
    <3> QED
      BY <1>5, <3>1, <3>2
  <2>4. n + m <= hi
    BY <1>1, <1>5
  <2>5. Reports(over, c, lo, hi, n + m)
    BY <1>2, <1>5, <2>2, <2>3, <2>4 DEF Reports
  <2> QED
    BY <2>5 DEF over
<1> QED
  BY <1>1, <1>4, <1>5

\* The test of INT_ADD_WRAPV.
LEMMA AddReports ==
  ASSUME NEW s, NEW u, NEW n, NEW m, Operand(s, n), Operand(u, m), NEW c, c = Common(s, u),
         NEW q, NEW p, NEW lo, NEW hi, BoundsOf(q, p, lo, hi)
  PROVE  Reports(_GL_INT_ADD_RANGE_OVERFLOW(Num(s, n), Num(u, m), Num(q, lo), Num(p, hi)),
                 c, lo, hi, n + m)
<1> DEFINE a == Num(s, n)
           b == Num(u, m)
           tmin == Num(q, lo)
           tmax == Num(p, hi)
           high == Less(tmax, Add(a, b))
           aboveA == If(EXPR_SIGNED(a), AtMost(Lit(0), a), Less(tmax, a))
           aboveB == Or(EXPR_SIGNED(_GL_INT_CONVERT(a, b)), Less(tmax, b))
           minusB == Or(TooLowOf(a, b, tmin), And(aboveA, high))
           minusA == Or(TooLowOf(b, a, tmin), And(aboveB, high))
           plus == Or(Less(tmax, b), Less(Sub(tmax, b), a))
           over == _GL_INT_ADD_RANGE_OVERFLOW(a, b, tmin, tmax)
<1>1. over = If(Less(b, Lit(0)), minusB, If(Less(a, Lit(0)), minusA, plus))
  BY DEF _GL_INT_ADD_RANGE_OVERFLOW, TooLowOf
<1>2. TypeOf(minusB) = int /\ TypeOf(minusA) = int /\ TypeOf(plus) = int
      /\ TypeOf(If(Less(a, Lit(0)), minusA, plus)) = int
  BY ConditionTypes, ChoiceTypes
<1>3. /\ n \in Int /\ m \in Int /\ lo \in Int /\ hi \in Int /\ hi >= 1
      /\ s \in Wide /\ u \in Wide /\ Fits(s, n) /\ Fits(u, m) /\ Operand(p, hi)
      /\ lo = 0 \/ lo = -hi - 1
  BY DEF BoundsOf, Operand
<1>4. /\ n < 0 => Less(a, Lit(0)) = Yes
      /\ ~(n < 0) => Less(a, Lit(0)) = No
      /\ m < 0 => Less(b, Lit(0)) = Yes
      /\ ~(m < 0) => Less(b, Lit(0)) = No
  BY <1>3, BelowZero
<1>5. /\ \A v \in {Yes, No} : \A x : TypeOf(x) = int => If(Yes, v, x) = v /\ If(No, x, v) = v
      /\ \A x : And(No, x) = No /\ Or(Yes, x) = Yes
      /\ \A v \in {Yes, No} : And(Yes, v) = v /\ Or(No, v) = v
      /\ Yes # No
  BY Choose, Connectives, Answers
<1>6. /\ hi >= 0 /\ n >= 0 /\ hi < n => Less(tmax, a) = Yes
      /\ hi >= 0 /\ n >= 0 /\ ~(hi < n) => Less(tmax, a) = No
      /\ hi >= 0 /\ m >= 0 /\ hi < m => Less(tmax, b) = Yes
      /\ hi >= 0 /\ m >= 0 /\ ~(hi < m) => Less(tmax, b) = No
  BY <1>3, Plain
<1>7. CASE m < 0
  <2> DEFINE low == TooLowOf(a, b, tmin)
  <2>1. /\ n + m < lo => low = Yes
        /\ ~(n + m < lo) => low = No
    BY <1>7, TooLow
  <2>2. minusB \in {Yes, No} => over = minusB
    <3> HIDE DEF minusB, minusA, plus, a, b, over
    <3> QED
      BY <1>1, <1>2, <1>4, <1>5, <1>7
  <2>3. CASE n + m < lo
    <3>1. minusB = Yes
      BY <1>5, <2>1, <2>3
    <3> HIDE DEF minusB, over
    <3> QED
      BY <1>3, <1>5, <2>2, <2>3, <3>1 DEF Reports, over
  <2>4. CASE lo <= n + m /\ n < 0
    <3>1. s.signed /\ TypeOf(a) = s
      BY <2>4, NegativeSigned, ValueTypes
    <3>2. EXPR_SIGNED(a) = Yes /\ AtMost(Lit(0), a) = No /\ TypeOf(Less(tmax, a)) = int
      BY <1>3, <1>4, <2>4, <3>1, ExprSigned, Inverted, ConditionTypes DEF AtMost
    <3>3. minusB = No
      <4> HIDE DEF a, b, tmin, tmax, high, low
      <4>1. aboveA = No
        BY <1>5, <3>2
      <4> QED
        BY <1>3, <1>5, <2>1, <2>4, <4>1 DEF low
    <3> HIDE DEF minusB, over
    <3> QED
      BY <1>3, <1>5, <1>7, <2>2, <2>4, <3>3 DEF Reports, over
  <2>5. CASE lo <= n + m /\ n >= 0 /\ ~s.signed /\ ~(hi < n)
    <3>1. EXPR_SIGNED(a) = No /\ TypeOf(AtMost(Lit(0), a)) = int
      BY <1>3, <2>5, ValueTypes, ExprSigned, ConditionTypes
    <3>2. Less(tmax, a) = No
      BY <1>3, <1>6, <2>5
    <3>3. minusB = No
      <4> HIDE DEF a, b, tmin, tmax, high, low
      <4>1. aboveA = No
        BY <1>5, <3>1, <3>2
      <4> QED
        BY <1>3, <1>5, <2>1, <2>5, <4>1 DEF low
    <3> HIDE DEF minusB, over
    <3> QED
      BY <1>3, <1>5, <1>7, <2>2, <2>5, <3>3 DEF Reports, over
  <2>6. CASE lo <= n + m /\ n >= 0 /\ (s.signed \/ hi < n)
    <3>1. aboveA = Yes
      <4>1. CASE s.signed
        <5>1. EXPR_SIGNED(a) = Yes /\ AtMost(Lit(0), a) = Yes /\ TypeOf(Less(tmax, a)) = int
          BY <1>3, <1>4, <2>6, <4>1, ValueTypes, ExprSigned, Inverted, ConditionTypes
             DEF AtMost
        <5> QED
          BY <1>5, <5>1
      <4>2. CASE ~s.signed
        <5>1. EXPR_SIGNED(a) = No /\ TypeOf(AtMost(Lit(0), a)) = int
          BY <1>3, <4>2, ValueTypes, ExprSigned, ConditionTypes
        <5>2. Less(tmax, a) = Yes
          BY <1>3, <1>6, <2>6, <4>2
        <5> QED
          BY <1>5, <5>1, <5>2
      <4> QED
        BY <4>1, <4>2
    <3>2. c.signed \/ hi < n
      <4>1. u.signed
        BY <1>7, NegativeSigned
      <4> QED
        BY <1>3, <2>6, <4>1, SignedCommon
    <3>3. Reports(high, c, lo, hi, n + m)
      BY <1>3, <1>7, <2>6, <3>2, HighReports
    <3>4. minusB = high
      <4>1. high \in {Yes, No} /\ low = No
        BY <1>3, <2>1, <2>6, <3>3 DEF Reports
      <4> HIDE DEF a, b, tmin, tmax, high, low, aboveA
      <4> QED
        BY <1>5, <3>1, <4>1 DEF low
    <3>5. high \in {Yes, No}
      BY <3>3 DEF Reports
    <3> HIDE DEF minusB, over, high
    <3> QED
      BY <2>2, <3>3, <3>4, <3>5 DEF over
  <2>7. n + m \in Int
    BY <1>3
  <2> HIDE DEF over, minusB
  <2> QED
    BY <1>3, <2>3, <2>4, <2>5, <2>6, <2>7 DEF over
<1>8. CASE m >= 0 /\ n < 0
  <2> DEFINE low == TooLowOf(b, a, tmin)
  <2>1. /\ n + m < lo => low = Yes
        /\ ~(n + m < lo) => low = No
    <3>1. m + n = n + m
      BY <1>3
    <3> QED
      BY <1>8, <3>1, TooLow
  <2>2. minusA \in {Yes, No} => over = minusA
    <3> HIDE DEF minusB, minusA, plus, a, b, over
    <3>1. minusA \in {Yes, No} => If(Less(a, Lit(0)), minusA, plus) = minusA
      BY <1>2, <1>4, <1>5, <1>8
    <3>2. Less(b, Lit(0)) = No
      BY <1>3, <1>4, <1>8
    <3> QED
      BY <1>1, <1>2, <1>5, <3>1, <3>2
  <2>3. /\ c.signed => EXPR_SIGNED(_GL_INT_CONVERT(a, b)) = Yes
        /\ ~c.signed => EXPR_SIGNED(_GL_INT_CONVERT(a, b)) = No
    BY <1>3, ConvertSigned
  <2>4. CASE n + m < lo
    <3>1. minusA = Yes
      BY <1>5, <2>1, <2>4
    <3> HIDE DEF minusA, over
    <3> QED
      BY <1>3, <1>5, <2>2, <2>4, <3>1 DEF Reports, over
  <2>5. CASE lo <= n + m /\ ~c.signed /\ ~(hi < m)
    <3>1. minusA = No
      <4>1. Less(tmax, b) = No
        BY <1>3, <1>6, <1>8, <2>5
      <4> HIDE DEF a, b, tmin, tmax, high, low
      <4>2. aboveB = No
        BY <1>5, <2>3, <2>5, <4>1
      <4> QED
        BY <1>3, <1>5, <2>1, <2>5, <4>2 DEF low
    <3> HIDE DEF minusA, over
    <3> QED
      BY <1>3, <1>5, <1>8, <2>2, <2>5, <3>1 DEF Reports, over
  <2>6. CASE lo <= n + m /\ (c.signed \/ hi < m)
    <3>1. Reports(high, c, lo, hi, n + m)
      BY <1>8, <2>6, HighReports
    <3>2. minusA = high
      <4>1. high \in {Yes, No} /\ low = No
        BY <1>3, <2>1, <2>6, <3>1 DEF Reports
      <4>2. ~c.signed => Less(tmax, b) = Yes
        BY <1>3, <1>6, <1>8, <2>6
      <4> HIDE DEF a, b, tmin, tmax, high, low
      <4>3. aboveB = Yes
        BY <1>5, <2>3, <4>2
      <4> QED
        BY <1>5, <4>1, <4>3 DEF low
    <3>3. high \in {Yes, No}
      BY <3>1 DEF Reports
    <3> HIDE DEF minusA, over, high
    <3> QED
      BY <2>2, <3>1, <3>2, <3>3 DEF over
  <2>7. n + m \in Int
    BY <1>3
  <2> HIDE DEF over, minusA
  <2> QED
    BY <1>3, <2>4, <2>5, <2>6, <2>7 DEF over
<1>9. CASE m >= 0 /\ n >= 0
  <2> DEFINE rest == Less(Sub(tmax, b), a)
  <2>1. plus \in {Yes, No} => over = plus
    <3> HIDE DEF minusB, minusA, plus, a, b, over
    <3>1. Less(a, Lit(0)) = No /\ Less(b, Lit(0)) = No
      BY <1>3, <1>4, <1>9
    <3>2. plus \in {Yes, No} => If(Less(a, Lit(0)), minusA, plus) = plus
      BY <1>2, <1>5, <3>1
    <3> QED
      BY <1>1, <1>2, <1>5, <3>1, <3>2
  <2>2. CASE hi < m
    <3>1. plus = Yes
      <4>1. Less(tmax, b) = Yes
        BY <1>3, <1>6, <1>9, <2>2
      <4> HIDE DEF a, b, tmax
      <4> QED
        BY <1>5, <4>1
    <3>2. ~(n + m <= hi)
      BY <1>3, <1>9, <2>2
    <3> HIDE DEF plus, over
    <3> QED
      BY <1>5, <2>1, <3>1, <3>2 DEF Reports, over
  <2>3. CASE ~(hi < m)
    <3> DEFINE d == Common(p, u)
    <3>1. Operand(d, hi - m) /\ Sub(tmax, b) = Num(d, hi - m)
      <4>1. 0 <= m /\ m <= hi /\ Operand(u, m) /\ Operand(p, hi)
        BY <1>3, <1>9, <2>3
      <4>2. d = Common(p, u)
        OBVIOUS
      <4> HIDE DEF d
      <4> QED
        BY <4>1, <4>2, PlainDifference
    <3>2. /\ hi - m < n => rest = Yes
          /\ ~(hi - m < n) => rest = No
      BY <1>3, <1>9, <2>3, <3>1, Plain
    <3>3. Less(tmax, b) = No
      BY <1>3, <1>6, <1>9, <2>3
    <3>4. /\ hi < n + m => plus = Yes
          /\ ~(hi < n + m) => plus = No
      <4> HIDE DEF a, b, tmax, rest
      <4> QED
        BY <1>3, <1>5, <3>2, <3>3 DEF rest
    <3> HIDE DEF plus, over
    <3> QED
      BY <1>3, <1>5, <1>9, <2>1, <3>4 DEF Reports, over
  <2> HIDE DEF over
  <2> QED
    BY <2>2, <2>3 DEF over
<1> HIDE DEF over
<1> QED
  BY <1>3, <1>7, <1>8, <1>9 DEF over

-----------------------------------------------------------------------------
(* INT_SUBTRACT_WRAPV.                                                     *)

\* What an exact test says.
Tells(over, lo, hi, v) ==
  /\ lo <= v /\ v <= hi => over = No
  /\ ~(lo <= v /\ v <= hi) => over = Yes

\* A difference of operands that are both negative, or of which neither is and
\* the second is no greater.
LEMMA DifferenceOf ==
  ASSUME NEW s, NEW u, NEW n, NEW m, Operand(s, n), Operand(u, m), NEW c, c = Common(s, u),
         (n < 0 /\ m < 0) \/ (0 <= m /\ m <= n)
  PROVE  Operand(c, n - m) /\ Sub(Num(s, n), Num(u, m)) = Num(c, n - m)
<1>1. n \in Int /\ m \in Int /\ s \in Wide /\ u \in Wide
  BY DEF Operand
<1>2. CASE n < 0 /\ m < 0
  <2>1. c.signed
    BY <1>1, <1>2, NegativeSigned, SignedCommon
  <2> QED
    BY <1>2, <2>1, PlainSum
<1>3. CASE 0 <= m /\ m <= n
  BY <1>3, PlainDifference
<1> QED
  BY <1>2, <1>3

\* The same operands have the same value.
LEMMA EqualConditions ==
  /\ Equal(Yes, Yes) = Yes /\ Equal(No, No) = Yes
  /\ Equal(Yes, No) = No /\ Equal(No, Yes) = No
<1>1. int \in Wide /\ Fits(int, 0) /\ Fits(int, 1)
  BY WideTypes, SmallFit
<1>2. /\ Equal(Num(int, 0), Lit(0)) = Yes /\ Equal(Num(int, 1), Lit(1)) = Yes
      /\ Equal(Num(int, 0), Lit(1)) = No /\ Equal(Num(int, 1), Lit(0)) = No
  BY <1>1, EqualTo
<1> QED
  BY <1>2, Literals

\* Values of conditions in expressions.
LEMMA Logic ==
  /\ \A v \in {Yes, No} : \A x : TypeOf(x) = int => If(Yes, v, x) = v /\ If(No, x, v) = v
  /\ \A x : And(No, x) = No /\ Or(Yes, x) = Yes
  /\ \A v \in {Yes, No} : And(Yes, v) = v /\ Or(No, v) = v
  /\ Not(Yes) = No /\ Not(No) = Yes
  /\ Yes # No
BY Choose, Connectives, Answers, Inverted

\* Operands of the same sign.
SubtractSame(a, b, tmin, tmax) ==
  If(Less(a, b),
     Or(Not(tmin), Less(Sub(Lit(-1), tmin), Sub(Sub(b, a), Lit(1)))),
     Less(tmax, Sub(a, b)))

\* A difference of two operands of one sign.
LEMMA SameSigns ==
  ASSUME NEW s, NEW u, NEW n, NEW m, Operand(s, n), Operand(u, m), n < 0 <=> m < 0,
         NEW q, NEW p, NEW lo, NEW hi, BoundsOf(q, p, lo, hi)
  PROVE  Tells(SubtractSame(Num(s, n), Num(u, m), Num(q, lo), Num(p, hi)), lo, hi, n - m)
<1> DEFINE a == Num(s, n)
           b == Num(u, m)
           tmin == Num(q, lo)
           tmax == Num(p, hi)
           low == Less(Sub(Lit(-1), tmin), Sub(Sub(b, a), Lit(1)))
           below == Or(Not(tmin), low)
           above == Less(tmax, Sub(a, b))
           over == SubtractSame(a, b, tmin, tmax)
           c == Common(s, u)
           d == Common(u, s)
<1>1. over = If(Less(a, b), below, above) /\ TypeOf(below) = int /\ TypeOf(above) = int
  BY ConditionTypes DEF SubtractSame
<1>2. /\ n \in Int /\ m \in Int /\ lo \in Int /\ hi \in Int /\ hi >= 1
      /\ s \in Wide /\ u \in Wide /\ q \in Wide /\ q.signed
      /\ Operand(p, hi) /\ Operand(q, lo)
      /\ lo = 0 \/ lo = -hi - 1
  BY DEF BoundsOf, Operand
<1>3. c.signed \/ (n >= 0 /\ m >= 0)
  BY <1>2, NegativeSigned, SignedCommon
<1>4. /\ n < m => Less(a, b) = Yes
      /\ ~(n < m) => Less(a, b) = No
  BY <1>3, Plain
<1>5. CASE ~(n < m)
  <2>1. Operand(c, n - m) /\ Sub(a, b) = Num(c, n - m)
    <3>1. (n < 0 /\ m < 0) \/ (0 <= m /\ m <= n)
      BY <1>2, <1>5
    <3>2. c = Common(s, u)
      OBVIOUS
    <3> HIDE DEF c
    <3> QED
      BY <3>1, <3>2, DifferenceOf
  <2>2. hi >= 0 /\ n - m >= 0
    BY <1>2, <1>5
  <2>3. /\ hi < n - m => above = Yes
        /\ ~(hi < n - m) => above = No
    <3> HIDE DEF c
    <3> QED
      BY <1>2, <2>1, <2>2, Plain
  <2> HIDE DEF above, below, a, b, over
  <2>4. over = above
    BY <1>1, <1>4, <1>5, <2>3, Logic
  <2>5. Tells(over, lo, hi, n - m)
    BY <1>2, <1>5, <2>2, <2>3, <2>4 DEF Tells
  <2> QED
    BY <2>5 DEF over, a, b
<1>6. CASE n < m /\ lo = 0
  <2>1. Not(tmin) = Yes
    BY <1>6, BoundCondition
  <2>2. below = Yes
    <3> HIDE DEF tmin, low
    <3> QED
      BY <2>1, Logic
  <2> HIDE DEF above, below, a, b, over
  <2>3. over = Yes
    BY <1>1, <1>4, <1>6, <2>2, Logic
  <2>4. Tells(over, lo, hi, n - m)
    BY <1>2, <1>6, <2>3 DEF Tells
  <2> QED
    BY <2>4 DEF over, a, b
<1>7. CASE n < m /\ lo = -hi - 1
  <2> DEFINE e == Common(int, q)
             f == Common(d, int)
  <2>1. Not(tmin) = No
    <3>1. lo # 0
      BY <1>2, <1>7
    <3> QED
      BY <3>1, BoundCondition
  <2>2. Operand(e, hi) /\ Sub(Lit(-1), tmin) = Num(e, hi)
    <3>1. Operand(int, -1) /\ Operand(q, lo) /\ lo < 0
      BY <1>2, <1>7, SmallOperands
    <3>2. Operand(e, -1 - lo) /\ Sub(Num(int, -1), tmin) = Num(e, -1 - lo)
      <4>1. e = Common(int, q) /\ -1 < 0
        OBVIOUS
      <4> HIDE DEF e
      <4> QED
        BY <3>1, <4>1, DifferenceOf
    <3>3. Lit(-1) = Num(int, -1) /\ -1 - lo = hi
      BY <1>2, <1>7 DEF Lit, Num
    <3> QED
      BY <3>2, <3>3
  <2>3. Operand(d, m - n) /\ Sub(b, a) = Num(d, m - n)
    <3>1. (m < 0 /\ n < 0) \/ (0 <= n /\ n <= m)
      BY <1>2, <1>7
    <3>2. d = Common(u, s)
      OBVIOUS
    <3> HIDE DEF d
    <3> QED
      BY <3>1, <3>2, DifferenceOf
  <2>4. Operand(f, m - n - 1) /\ Sub(Num(d, m - n), Lit(1)) = Num(f, m - n - 1)
    <3>1. 0 <= 1 /\ 1 <= m - n /\ Operand(int, 1) /\ Lit(1) = Num(int, 1)
      BY <1>2, <1>7, SmallOperands, Literals
    <3>2. f = Common(d, int)
      OBVIOUS
    <3> HIDE DEF f, d
    <3> QED
      BY <2>3, <3>1, <3>2, DifferenceOf
  <2>5. /\ hi < m - n - 1 => low = Yes
        /\ ~(hi < m - n - 1) => low = No
    <3>1. hi >= 0 /\ m - n - 1 >= 0
      BY <1>2, <1>7
    <3> HIDE DEF e, f, d
    <3>2. /\ hi < m - n - 1 => Less(Num(e, hi), Num(f, m - n - 1)) = Yes
          /\ ~(hi < m - n - 1) => Less(Num(e, hi), Num(f, m - n - 1)) = No
      BY <2>2, <2>4, <3>1, Plain
    <3> QED
      BY <2>2, <2>3, <2>4, <3>2
  <2>6. below = low /\ low \in {Yes, No}
    <3> HIDE DEF low, tmin
    <3> QED
      BY <2>1, <2>5, Logic
  <2> HIDE DEF above, below, low, a, b, over
  <2>7. over = low
    BY <1>1, <1>4, <1>7, <2>6, Logic
  <2>8. Tells(over, lo, hi, n - m)
    BY <1>2, <1>7, <2>5, <2>7 DEF Tells
  <2> QED
    BY <2>8 DEF over, a, b
<1> QED
  BY <1>2, <1>5, <1>6, <1>7

\* A negative operand less one that is not.
SubtractBelow(a, b, tmin) ==
  Or(And(Not(EXPR_SIGNED(_GL_INT_CONVERT(Sub(a, tmin), b))), Less(Sub(a, tmin), Lit(0))),
     Less(Sub(a, tmin), b))

\* A difference of a negative and a nonnegative operand.
LEMMA BelowMinimum ==
  ASSUME NEW s, NEW u, NEW n, NEW m, Operand(s, n), Operand(u, m), n < 0, m >= 0,
         NEW q, NEW p, NEW lo, NEW hi, BoundsOf(q, p, lo, hi)
  PROVE  Tells(SubtractBelow(Num(s, n), Num(u, m), Num(q, lo)), lo, hi, n - m)
<1> DEFINE a == Num(s, n)
           b == Num(u, m)
           tmin == Num(q, lo)
           d == Common(s, q)
           e == Common(d, u)
           convert == EXPR_SIGNED(_GL_INT_CONVERT(Sub(a, tmin), b))
           negative == Less(Sub(a, tmin), Lit(0))
           below == Less(Sub(a, tmin), b)
           over == SubtractBelow(a, b, tmin)
<1>1. over = Or(And(Not(convert), negative), below)
  BY DEF SubtractBelow
<1>2. /\ n \in Int /\ m \in Int /\ lo \in Int /\ hi \in Int /\ hi >= 1
      /\ s \in Wide /\ u \in Wide /\ q \in Wide /\ q.signed
      /\ Operand(q, lo)
      /\ lo = 0 \/ lo = -hi - 1
  BY DEF BoundsOf, Operand
<1>3. s.signed
  BY NegativeSigned
<1>4. d.signed
  BY <1>2, <1>3, SignedCommon
<1>5. Operand(d, n - lo) /\ Sub(a, tmin) = Num(d, n - lo)
  <2>1. d = Common(s, q)
    OBVIOUS
  <2> HIDE DEF d
  <2>2. CASE lo < 0
    BY <1>2, <2>1, <2>2, DifferenceOf
  <2>3. CASE lo = 0
    <3>1. /\ Operand(d, n) /\ n - lo = n
          /\ Fits(d, n - lo) => Sub(a, tmin) = Num(d, n - lo)
      BY <1>2, <1>4, <2>1, <2>3, Plain
    <3> QED
      BY <3>1 DEF Operand
  <2> QED
    BY <1>2, <2>2, <2>3
<1> HIDE DEF d
<1>6. d \in Wide /\ n - lo \in Int /\ Fits(d, n - lo)
  BY <1>5 DEF Operand
<1>7. /\ e.signed => convert = Yes
      /\ ~e.signed => convert = No
  BY <1>2, <1>5, <1>6, ConvertSigned
<1>8. /\ n - lo < 0 => negative = Yes
      /\ ~(n - lo < 0) => negative = No
  BY <1>5, <1>6, BelowZero
<1>9. e.signed \/ (n - lo >= 0 /\ m >= 0) =>
        /\ n - lo < m => below = Yes
        /\ ~(n - lo < m) => below = No
  BY <1>5, Plain
<1> HIDE DEF e, convert, negative, below, a, b, tmin, over
<1>10. /\ n - lo < m => over = Yes
       /\ ~(n - lo < m) => over = No
  <2>1. CASE e.signed
    <3>1. below \in {Yes, No} /\ And(Not(convert), negative) = No
      BY <1>7, <1>9, <2>1, Logic
    <3> QED
      BY <1>1, <1>9, <2>1, <3>1, Logic
  <2>2. CASE ~e.signed /\ n - lo < 0
    <3>1. And(Not(convert), negative) = Yes
      BY <1>7, <1>8, <2>2, Logic
    <3>2. n - lo < m
      BY <1>2, <2>2
    <3> QED
      BY <1>1, <3>1, <3>2, Logic
  <2>3. CASE ~e.signed /\ n - lo >= 0
    <3>1. And(Not(convert), negative) = No
      BY <1>2, <1>7, <1>8, <2>3, Logic
    <3>2. below \in {Yes, No}
      BY <1>9, <2>3
    <3> QED
      BY <1>1, <1>9, <2>3, <3>1, <3>2, Logic
  <2> QED
    BY <1>6, <2>1, <2>2, <2>3
<1>11. Tells(over, lo, hi, n - m)
  BY <1>2, <1>10 DEF Tells
<1> QED
  BY <1>11 DEF over, a, b, tmin

\* An operand that is not negative less one that is.
SubtractAbove(a, b, tmax) ==
  Or(And(Not(And(EXPR_SIGNED(_GL_INT_CONVERT(tmax, b)),
                 EXPR_SIGNED(_GL_INT_CONVERT(Add(tmax, b), a)))),
         AtMost(tmax, Sub(Lit(-1), b))),
     Less(Add(tmax, b), a))

\* A difference of a nonnegative and a negative operand.
LEMMA AboveMaximum ==
  ASSUME NEW s, NEW u, NEW n, NEW m, Operand(s, n), Operand(u, m), n >= 0, m < 0,
         NEW q, NEW p, NEW lo, NEW hi, BoundsOf(q, p, lo, hi)
  PROVE  Tells(SubtractAbove(Num(s, n), Num(u, m), Num(p, hi)), lo, hi, n - m)
<1> DEFINE a == Num(s, n)
           b == Num(u, m)
           tmax == Num(p, hi)
           d == Common(p, u)
           e == Common(d, s)
           f == Common(int, u)
           convert == And(EXPR_SIGNED(_GL_INT_CONVERT(tmax, b)),
                          EXPR_SIGNED(_GL_INT_CONVERT(Add(tmax, b), a)))
           negative == AtMost(tmax, Sub(Lit(-1), b))
           above == Less(Add(tmax, b), a)
           over == SubtractAbove(a, b, tmax)
<1>1. over = Or(And(Not(convert), negative), above)
  BY DEF SubtractAbove
<1>2. /\ n \in Int /\ m \in Int /\ lo \in Int /\ hi \in Int /\ hi >= 1
      /\ s \in Wide /\ u \in Wide /\ p \in Wide
      /\ Operand(p, hi)
      /\ lo = 0 \/ lo = -hi - 1
  BY DEF BoundsOf, Operand
<1>3. PICK k \in Int : /\ Operand(d, k) /\ Add(tmax, b) = Num(d, k)
                       /\ d.signed \/ hi + m >= 0 => k = hi + m
  <2>1. hi >= 0 /\ m < 0 /\ d = Common(p, u)
    BY <1>2
  <2> HIDE DEF d
  <2> QED
    BY <1>2, <2>1, AddOpposite
<1>4. /\ d.signed => EXPR_SIGNED(_GL_INT_CONVERT(tmax, b)) = Yes
      /\ ~d.signed => EXPR_SIGNED(_GL_INT_CONVERT(tmax, b)) = No
  BY <1>2, ConvertSigned
<1> HIDE DEF d
<1>5. d \in Wide /\ Fits(d, k)
  BY <1>3 DEF Operand
<1>6. /\ e.signed => EXPR_SIGNED(_GL_INT_CONVERT(Add(tmax, b), a)) = Yes
      /\ ~e.signed => EXPR_SIGNED(_GL_INT_CONVERT(Add(tmax, b), a)) = No
  BY <1>2, <1>3, <1>5, ConvertSigned
<1>7. /\ d.signed /\ e.signed => convert = Yes
      /\ ~(d.signed /\ e.signed) => convert = No
  BY <1>4, <1>6, Logic
<1>8. /\ hi + m < 0 => negative = Yes
      /\ ~(hi + m < 0) => negative = No
  <2>1. u.signed /\ int.signed /\ int \in Wide /\ Operand(int, -1) /\ Lit(-1) = Num(int, -1)
    BY <1>2, NegativeSigned, WideTypes, SmallOperands DEF Lit, Num
  <2>2. Operand(f, -1 - m) /\ Sub(Lit(-1), b) = Num(f, -1 - m)
    <3>1. f = Common(int, u) /\ -1 < 0
      OBVIOUS
    <3> HIDE DEF f
    <3> QED
      BY <2>1, <3>1, DifferenceOf
  <2>3. -1 - m >= 0 /\ hi >= 0
    BY <1>2
  <2> HIDE DEF f
  <2>4. /\ -1 - m < hi => negative = No
        /\ ~(-1 - m < hi) => negative = Yes
    BY <1>2, <2>2, <2>3, Plain
  <2> QED
    BY <1>2, <2>4
<1>9. e.signed \/ (k >= 0 /\ n >= 0) =>
        /\ k < n => above = Yes
        /\ ~(k < n) => above = No
  BY <1>3, Plain
<1> HIDE DEF e, convert, negative, above, a, b, tmax, over
<1>10. /\ hi + m < n => over = Yes
       /\ ~(hi + m < n) => over = No
  <2>1. CASE d.signed /\ e.signed
    <3>1. above \in {Yes, No} /\ And(Not(convert), negative) = No /\ k = hi + m
      BY <1>3, <1>7, <1>9, <2>1, Logic
    <3> QED
      BY <1>1, <1>9, <2>1, <3>1, Logic
  <2>2. CASE ~(d.signed /\ e.signed) /\ hi + m < 0
    <3>1. And(Not(convert), negative) = Yes
      BY <1>7, <1>8, <2>2, Logic
    <3>2. hi + m < n
      BY <1>2, <2>2
    <3> QED
      BY <1>1, <3>1, <3>2, Logic
  <2>3. CASE ~(d.signed /\ e.signed) /\ hi + m >= 0
    <3>1. And(Not(convert), negative) = No
      BY <1>2, <1>7, <1>8, <2>3, Logic
    <3>2. above \in {Yes, No} /\ k = hi + m
      BY <1>3, <1>9, <2>3
    <3> QED
      BY <1>1, <1>9, <2>3, <3>1, <3>2, Logic
  <2> QED
    BY <1>2, <2>1, <2>2, <2>3
<1>11. Tells(over, lo, hi, n - m)
  BY <1>2, <1>10 DEF Tells
<1> QED
  BY <1>11 DEF over, a, b, tmax

\* The test of INT_SUBTRACT_WRAPV is exact.
LEMMA SubtractTells ==
  ASSUME NEW s, NEW u, NEW n, NEW m, Operand(s, n), Operand(u, m),
         NEW q, NEW p, NEW lo, NEW hi, BoundsOf(q, p, lo, hi)
  PROVE  Tells(_GL_INT_SUBTRACT_RANGE_OVERFLOW(Num(s, n), Num(u, m), Num(q, lo), Num(p, hi)),
               lo, hi, n - m)
<1> DEFINE a == Num(s, n)
           b == Num(u, m)
           same == SubtractSame(a, b, Num(q, lo), Num(p, hi))
           below == SubtractBelow(a, b, Num(q, lo))
           above == SubtractAbove(a, b, Num(p, hi))
           over == _GL_INT_SUBTRACT_RANGE_OVERFLOW(a, b, Num(q, lo), Num(p, hi))
<1>1. over = If(Equal(Less(a, Lit(0)), Less(b, Lit(0))), same,
                If(Less(a, Lit(0)), below, above))
  BY DEF _GL_INT_SUBTRACT_RANGE_OVERFLOW, SubtractSame, SubtractBelow, SubtractAbove
<1>2. TypeOf(same) = int /\ TypeOf(below) = int /\ TypeOf(above) = int
      /\ TypeOf(If(Less(a, Lit(0)), below, above)) = int
  BY ConditionTypes, ChoiceTypes DEF SubtractSame, SubtractBelow, SubtractAbove
<1>3. n \in Int /\ m \in Int /\ s \in Wide /\ u \in Wide /\ Fits(s, n) /\ Fits(u, m)
  BY DEF Operand
<1>4. /\ n < 0 => Less(a, Lit(0)) = Yes
      /\ ~(n < 0) => Less(a, Lit(0)) = No
      /\ m < 0 => Less(b, Lit(0)) = Yes
      /\ ~(m < 0) => Less(b, Lit(0)) = No
  BY <1>3, BelowZero
<1>5. CASE n < 0 <=> m < 0
  <2>1. Tells(same, lo, hi, n - m)
    BY <1>5, SameSigns
  <2> HIDE DEF a, b, same, below, above, over
  <2>2. same \in {Yes, No}
    BY <2>1 DEF Tells
  <2>3. Equal(Less(a, Lit(0)), Less(b, Lit(0))) = Yes
    BY <1>4, <1>5, EqualConditions
  <2>4. over = same
    BY <1>1, <1>2, <2>2, <2>3, Logic
  <2> QED
    BY <2>1, <2>4 DEF over, a, b
<1>6. CASE n < 0 /\ m >= 0
  <2>1. Tells(below, lo, hi, n - m)
    BY <1>6, BelowMinimum
  <2> HIDE DEF a, b, same, below, above, over
  <2>2. below \in {Yes, No}
    BY <2>1 DEF Tells
  <2>3. Less(a, Lit(0)) = Yes /\ Less(b, Lit(0)) = No
    BY <1>3, <1>4, <1>6
  <2>4. If(Less(a, Lit(0)), below, above) = below
    BY <1>2, <2>2, <2>3, Logic
  <2>5. over = below
    BY <1>1, <1>2, <2>2, <2>3, <2>4, Logic, EqualConditions
  <2> QED
    BY <2>1, <2>5 DEF over, a, b
<1>7. CASE n >= 0 /\ m < 0
  <2>1. Tells(above, lo, hi, n - m)
    BY <1>7, AboveMaximum
  <2> HIDE DEF a, b, same, below, above, over
  <2>2. above \in {Yes, No}
    BY <2>1 DEF Tells
  <2>3. Less(a, Lit(0)) = No /\ Less(b, Lit(0)) = Yes
    BY <1>3, <1>4, <1>7
  <2>4. If(Less(a, Lit(0)), below, above) = above
    BY <1>2, <2>2, <2>3, Logic
  <2>5. over = above
    BY <1>1, <1>2, <2>2, <2>3, <2>4, Logic, EqualConditions
  <2> QED
    BY <2>1, <2>5 DEF over, a, b
<1> QED
  BY <1>3, <1>5, <1>6, <1>7

-----------------------------------------------------------------------------
(* INT_MULTIPLY_WRAPV.                                                     *)

\* A quotient that is defined: the common type holds both operands, and it is not
\* that of the minimum by -1.
LEMMA QuotientOf ==
  ASSUME NEW s, NEW u, NEW n, NEW m, Operand(s, n), Operand(u, m), NEW c, c = Common(s, u),
         m # 0, c.signed \/ (n >= 0 /\ m > 0), m # -1 \/ Fits(c, -n)
  PROVE  Operand(c, Quotient(n, m)) /\ Div(Num(s, n), Num(u, m)) = Num(c, Quotient(n, m))
<1> DEFINE v == Quotient(n, m)
<1>1. n \in Int /\ m \in Int /\ s \in Wide /\ u \in Wide
  BY DEF Operand
<1>2. c \in Wide /\ Operand(c, n) /\ Operand(c, m)
  BY <1>1, Plain
<1>3. TypeFacts(c) /\ c.max >= 1 /\ c.min \in Int /\ c.max \in Int
  BY <1>2, WideTypes, WideMax DEF TypeFacts
<1>4. /\ v \in Int
      /\ n >= 0 => v <= n /\ -n <= v
      /\ n <= 0 => v <= -n /\ n <= v
      /\ n >= 0 /\ m > 0 => 0 <= v
      /\ n < 0 /\ m # -1 => 2 * v <= -n
  BY <1>1, QuotientBounds
<1> HIDE DEF v
<1>5. c.min <= n /\ n <= c.max /\ (c.signed => c.min = -c.max - 1) /\ (~c.signed => c.min = 0)
  BY <1>2, <1>3 DEF Operand, Fits, TypeFacts
<1>6. c.min <= v /\ v <= c.max
  <2>1. CASE n >= 0 /\ c.signed
    BY <1>1, <1>3, <1>4, <1>5, <2>1
  <2>2. CASE n >= 0 /\ ~c.signed
    BY <1>1, <1>3, <1>4, <1>5, <2>2
  <2>3. CASE n < 0 /\ m # -1
    <3>1. c.signed
      BY <1>1, <2>3
    <3> QED
      BY <1>1, <1>3, <1>4, <1>5, <2>3, <3>1
  <2>4. CASE n < 0 /\ m = -1
    <3>1. -n <= c.max
      BY <2>4 DEF Fits
    <3> QED
      BY <1>1, <1>3, <1>4, <1>5, <2>4, <3>1
  <2> QED
    BY <1>1, <2>1, <2>2, <2>3, <2>4
<1>7. Fits(c, v)
  BY <1>6 DEF Fits
<1>8. Wrap(c, n) = n /\ Wrap(c, m) = m
  BY <1>2, <1>3, Wraps DEF Operand
<1>9. Div(Num(s, n), Num(u, m)) = Num(c, v)
  BY <1>1, <1>7, <1>8, DividesWithin DEF v
<1> QED
  BY <1>2, <1>4, <1>7, <1>9 DEF Operand, v

\* Products and quotients that are compared instead of them.
LEMMA NegativeProduct ==
  ASSUME NEW n \in Int, NEW m \in Int, NEW hi \in Int, 0 <= hi, n < 0, m < 0
  PROVE  /\ 0 <= n * m
         /\ Quotient(hi, m) \in Int /\ hi \div (-m) \in Nat /\ hi \div (-m) <= hi
         /\ hi < n * m <=> n < Quotient(hi, m)
         /\ hi < n * m <=> ~(-1 - n < hi \div (-m))
<1> DEFINE d == hi \div (-m)
           k == n * m
<1>1. hi \in Nat /\ -m \in Nat \ {0} /\ -n \in Int /\ -n >= 0
  OBVIOUS
<1>2. (-n) * (-m) = k /\ k \in Int
  OBVIOUS
<1>3. d \in Nat /\ d <= hi /\ ((-n) * (-m) <= hi <=> -n <= d)
  BY <1>1, WholePart, WholeBound
<1>4. Quotient(hi, m) = -d
  BY <1>1, Truncates
<1>5. 0 <= k
  <2>1. 0 * (-m) <= (-n) * (-m)
    BY <1>1, ProductsGrow
  <2>2. 0 * (-m) = 0
    BY <1>1
  <2> HIDE DEF k
  <2> QED
    BY <1>2, <2>1, <2>2
<1> HIDE DEF d, k
<1>6. hi < k <=> ~(-n <= d)
  BY <1>2, <1>3
<1> QED
  BY <1>3, <1>4, <1>5, <1>6 DEF d, k

\* A product of operands of different signs, against the quotient of the minimum.
LEMMA MixedProduct ==
  ASSUME NEW n \in Int, NEW m \in Int, NEW lo \in Int, lo <= 0, n >= 0, m < 0
  PROVE  /\ n * m <= 0
         /\ Quotient(lo, m) \in Int /\ Quotient(lo, m) >= 0
         /\ n * m < lo <=> Quotient(lo, m) < n
<1> DEFINE d == (-lo) \div (-m)
           k == n * m
<1>1. -lo \in Nat /\ -m \in Nat \ {0}
  OBVIOUS
<1>2. n * (-m) = -k /\ k \in Int
  OBVIOUS
<1>3. d \in Nat /\ (n * (-m) <= -lo <=> n <= d)
  BY <1>1, WholePart, WholeBound
<1>4. Quotient(lo, m) = d
  <2>1. CASE lo < 0
    BY <2>1, Truncates
  <2>2. CASE lo = 0
    <3> DEFINE v == Quotient(lo, m)
    <3>1. v \in Int /\ v <= lo /\ -lo <= v
      BY <2>2, QuotientBounds
    <3>2. -lo < -m
      BY <2>2
    <3>3. d = 0
      BY <1>1, <3>2, WholePart
    <3> HIDE DEF v, d
    <3>4. v = 0
      BY <2>2, <3>1
    <3> QED
      BY <3>3, <3>4 DEF v
  <2> QED
    BY <2>1, <2>2
<1>5. 0 <= -k
  <2>1. 0 * (-m) <= n * (-m)
    BY <1>1, ProductsGrow
  <2>2. 0 * (-m) = 0
    BY <1>1
  <2> HIDE DEF k
  <2> QED
    BY <1>2, <2>1, <2>2
<1> HIDE DEF d, k
<1>6. k < lo <=> ~(n <= d)
  BY <1>2, <1>3
<1> QED
  BY <1>2, <1>3, <1>4, <1>5, <1>6 DEF k

\* A product of two positive operands, against the quotient of the maximum.
LEMMA PositiveProduct ==
  ASSUME NEW n \in Int, NEW m \in Int, NEW hi \in Int, 0 <= hi, n >= 0, m > 0
  PROVE  /\ 0 <= n * m
         /\ Quotient(hi, m) \in Int /\ Quotient(hi, m) >= 0
         /\ hi < n * m <=> Quotient(hi, m) < n
<1> DEFINE d == hi \div m
           k == n * m
<1>1. hi \in Nat /\ m \in Nat \ {0}
  OBVIOUS
<1>2. d \in Nat /\ (k <= hi <=> n <= d) /\ k \in Int
  BY <1>1, WholePart, WholeBound
<1>3. Quotient(hi, m) = d
  BY <1>1, Truncates
<1>4. 0 <= k
  <2>1. 0 * m <= n * m
    BY <1>1, ProductsGrow
  <2>2. 0 * m = 0
    BY <1>1
  <2> QED
    BY <2>1, <2>2
<1> HIDE DEF d, k
<1> QED
  BY <1>2, <1>3, <1>4 DEF k


\* The bound that a product of two negative operands is tested against, where the
\* type it is divided in is unsigned.
LargestFactor(b, tmax) ==
  If(INT_NEGATE_OVERFLOW(b), Shr(_GL_INT_CONVERT(b, tmax), Promoted(b.t).bits - 1),
     Div(tmax, Neg(b)))

\* _GL_INT_CONVERT(e, v) of two values that the common type holds as they are.
LEMMA ConvertPlain ==
  ASSUME NEW s, NEW u, NEW n, NEW m, Operand(s, n), Operand(u, m), NEW c, c = Common(s, u),
         c.signed \/ m >= 0
  PROVE  Operand(c, m) /\ _GL_INT_CONVERT(Num(s, n), Num(u, m)) = Num(c, m)
<1>1. s \in Wide /\ u \in Wide /\ m \in Int /\ TypeOf(Num(s, n)) = s /\ Operand(s, 0)
  BY ValueTypes, SmallOperands DEF Operand
<1>2. _GL_INT_CONVERT(Num(s, n), Num(u, m)) = Add(Num(s, 0), Num(u, m))
  BY <1>1, ZeroOf DEF _GL_INT_CONVERT
<1>3. c.signed \/ (0 >= 0 /\ m >= 0)
  OBVIOUS
<1>4. Operand(c, m) /\ (Fits(c, 0 + m) => Add(Num(s, 0), Num(u, m)) = Num(c, 0 + m))
  BY <1>1, <1>3, Plain
<1>5. 0 + m = m
  BY <1>1
<1> QED
  BY <1>2, <1>4, <1>5 DEF Operand

\* -e has the promoted type of e.
LEMMA NegTypes ==
  ASSUME NEW x
  PROVE  TypeOf(Neg(x)) = Promoted(TypeOf(x))
BY DEF Neg, SubAs, Arith, Value, TypeOf

\* A negative value whose negation is not of its type is the least one.
LEMMA LeastOf ==
  ASSUME NEW u, NEW m, Operand(u, m), m < 0, ~Fits(u, -m)
  PROVE  /\ Promoted(Num(u, m).t).bits = u.bits
         /\ -m = 2 ^ (u.bits - 1)
<1>1. /\ u \in Wide /\ TypeFacts(u) /\ Promoted(u) = u /\ m \in Int
      /\ u.bits \in {ShortBits, IntBits, LongBits} /\ u = Type(u.bits, u.signed)
      /\ u.min <= m /\ m <= u.max
  BY WideTypes DEF Operand, Fits
<1>2. u.signed = TRUE
  BY <1>1, NegativeSigned DEF TypeFacts
<1>3. u.min = -(2 ^ (u.bits - 1)) /\ u.max = 2 ^ (u.bits - 1) - 1
  <2>1. u.bits \in {ShortBits, IntBits, LongBits} /\ TRUE \in BOOLEAN
    BY <1>1
  <2>2. u = Type(u.bits, TRUE)
    BY <1>1, <1>2
  <2> QED
    BY <2>1, <2>2, ArithmeticTypes
<1>4. u.min \in Int /\ u.max \in Int /\ u.min = -u.max - 1
  BY <1>1, <1>2 DEF TypeFacts
<1>5. ~(u.min <= -m /\ -m <= u.max)
  BY DEF Fits
<1>6. m = u.min
  BY <1>1, <1>4, <1>5
<1>7. 2 ^ (u.bits - 1) \in Nat
  <2>1. u.bits - 1 \in 0..LongBits
    BY <1>1, WidthAssumption
  <2> QED
    BY <2>1, PowersPositive
<1>8. -m = 2 ^ (u.bits - 1)
  BY <1>1, <1>3, <1>6, <1>7
<1>9. Num(u, m).t = u
  BY Answers
<1> QED
  BY <1>1, <1>8, <1>9

\* What that bound is: the quotient, a shift where -b is not a value of its type.
LEMMA LargestFactorIs ==
  ASSUME NEW u, NEW m, NEW p, NEW hi, Operand(u, m), Operand(p, hi), m < 0, hi >= 0,
         ~Common(p, u).signed, NEW h, h = hi \div (-m)
  PROVE  Operand(p, h) /\ LargestFactor(Num(u, m), Num(p, hi)) = Num(p, h)
<1> DEFINE b == Num(u, m)
           tmax == Num(p, hi)
           k == Promoted(b.t).bits - 1
           shifted == Shr(_GL_INT_CONVERT(b, tmax), k)
           divided == Div(tmax, Neg(b))
<1>1. LargestFactor(b, tmax) = If(INT_NEGATE_OVERFLOW(b), shifted, divided)
  BY DEF LargestFactor
<1>2. /\ u \in Wide /\ p \in Wide /\ m \in Int /\ hi \in Int /\ Promoted(u) = u
      /\ u.signed
  BY NegativeSigned, WideTypes DEF Operand
<1>3. Common(p, u) = p /\ Common(u, p) = p /\ Common(p, p) = p /\ ~p.signed
  BY <1>2, CommonTypes
<1>4. h \in Nat /\ h <= hi
  BY <1>2, WholePart
<1>5. Operand(p, h)
  <2>1. Operand(p, 0) /\ h \in Int /\ 0 <= h
    BY <1>2, <1>4, SmallOperands
  <2> QED
    BY <1>4, <2>1, Between
<1>6. Wrap(p, h) = h
  BY <1>5, WideTypes, Wraps DEF Operand
<1>7. shifted = Num(p, hi \div 2 ^ k)
  <2>1. _GL_INT_CONVERT(b, tmax) = tmax
    BY <1>3, ConvertPlain
  <2> QED
    BY <1>2, <2>1, Shifts
<1>8. TypeOf(divided) = p
  <2>1. TypeOf(Neg(b)) = u /\ TypeOf(tmax) = p
    BY <1>2, NegTypes, ValueTypes
  <2> QED
    BY <1>3, <2>1, RemTypes
<1>9. TypeOf(shifted) = p
  BY <1>7, ValueTypes
<1>10. CASE Fits(u, -m)
  <2>1. INT_NEGATE_OVERFLOW(b) = No /\ Neg(b) = Num(u, -m)
    BY <1>10, NegateOverflow
  <2>2. Operand(u, -m) /\ -m > 0 /\ -m # 0 /\ -m # -1
    BY <1>2, <1>10 DEF Operand
  <2>3. Div(tmax, Num(u, -m)) = Num(p, Quotient(hi, -m))
    BY <1>3, <2>2, QuotientOf
  <2>4. Quotient(hi, -m) = h
    BY <1>2, <2>2, Truncates
  <2>5. divided = Num(p, h)
    BY <2>1, <2>3, <2>4
  <2> HIDE DEF shifted, divided, b, tmax
  <2>6. If(No, shifted, divided) = Num(p, h)
    BY <1>3, <1>6, <1>9, <2>5, IfNo
  <2> QED
    BY <1>1, <1>5, <2>1, <2>6 DEF b, tmax
<1>11. CASE ~Fits(u, -m)
  <2>1. INT_NEGATE_OVERFLOW(b) = Yes
    BY <1>11, NegateOverflow
  <2>2. -m = 2 ^ k
    BY <1>11, LeastOf
  <2>3. shifted = Num(p, h)
    BY <1>7, <2>2
  <2> HIDE DEF shifted, divided, b, tmax, k
  <2>4. If(Yes, shifted, divided) = Num(p, h)
    BY <1>3, <1>6, <1>8, <2>3, IfYes
  <2> QED
    BY <1>1, <1>5, <2>1, <2>4 DEF b, tmax
<1> QED
  BY <1>10, <1>11

\* A product of two negative operands.
MultiplyNegative(a, b, tmax) ==
  If(EXPR_SIGNED(_GL_INT_CONVERT(tmax, b)), Less(a, Div(tmax, b)),
     AtMost(LargestFactor(b, tmax), Sub(Lit(-1), a)))

\* So the test of a product of two negative operands is exact.
LEMMA BothNegative ==
  ASSUME NEW s, NEW u, NEW n, NEW m, Operand(s, n), Operand(u, m), n < 0, m < 0,
         NEW q, NEW p, NEW lo, NEW hi, BoundsOf(q, p, lo, hi)
  PROVE  Tells(MultiplyNegative(Num(s, n), Num(u, m), Num(p, hi)), lo, hi, n * m)
<1> DEFINE a == Num(s, n)
           b == Num(u, m)
           tmax == Num(p, hi)
           d == Common(p, u)
           v == Quotient(hi, m)
           h == hi \div (-m)
           k == n * m
           quotient == Less(a, Div(tmax, b))
           factor == AtMost(LargestFactor(b, tmax), Sub(Lit(-1), a))
           over == MultiplyNegative(a, b, tmax)
<1>1. over = If(EXPR_SIGNED(_GL_INT_CONVERT(tmax, b)), quotient, factor)
  BY DEF MultiplyNegative
<1>2. /\ n \in Int /\ m \in Int /\ lo \in Int /\ hi \in Int /\ hi >= 1 /\ lo <= 0 /\ hi >= 0
      /\ s \in Wide /\ u \in Wide /\ p \in Wide
      /\ Operand(p, hi)
  BY DEF BoundsOf, Operand
<1>3. s.signed /\ u.signed
  BY NegativeSigned
<1>4. /\ k \in Int /\ 0 <= k /\ v \in Int
      /\ hi < k <=> n < v
      /\ hi < k <=> ~(-1 - n < h)
      /\ h \in Int /\ h >= 0
  <2>1. 0 <= hi /\ k \in Int
    BY <1>2
  <2>2. /\ 0 <= k /\ v \in Int /\ h \in Nat
        /\ hi < k <=> n < v
        /\ hi < k <=> ~(-1 - n < h)
    <3>1. v \in Int
      BY <1>2, QuotientBounds
    <3> QED
      BY <1>2, <2>1, <3>1, NegativeProduct
  <2> HIDE DEF k, v, h
  <2> QED
    BY <2>1, <2>2
<1>5. TypeOf(quotient) = int /\ TypeOf(factor) = int
  BY ConditionTypes
<1> HIDE DEF k, v, h
<1>6. /\ d.signed => EXPR_SIGNED(_GL_INT_CONVERT(tmax, b)) = Yes
      /\ ~d.signed => EXPR_SIGNED(_GL_INT_CONVERT(tmax, b)) = No
  BY <1>2, ConvertSigned
<1>7. d.signed =>
        /\ n < v => quotient = Yes
        /\ ~(n < v) => quotient = No
  <2>1. SUFFICES ASSUME d.signed
                 PROVE  /\ n < v => quotient = Yes
                        /\ ~(n < v) => quotient = No
    OBVIOUS
  <2>2. d = Common(p, u)
    OBVIOUS
  <2> HIDE DEF d
  <2>3. d \in Wide /\ Operand(d, hi)
    BY <1>2, <2>1, <2>2, Plain
  <2>4. Fits(d, -hi)
    BY <1>2, <2>1, <2>3, WideTypes DEF Operand, Fits, TypeFacts
  <2>5. Operand(d, v) /\ Div(tmax, b) = Num(d, v)
    BY <1>2, <2>1, <2>2, <2>4, QuotientOf DEF v
  <2>6. Common(s, d).signed
    BY <1>2, <1>3, <2>1, <2>3, SignedCommon
  <2>7. /\ n < v => Less(a, Num(d, v)) = Yes
        /\ ~(n < v) => Less(a, Num(d, v)) = No
    BY <2>5, <2>6, Plain
  <2> QED
    BY <2>5, <2>7
<1>8. ~d.signed =>
        /\ -1 - n < h => factor = No
        /\ ~(-1 - n < h) => factor = Yes
  <2>1. SUFFICES ASSUME ~d.signed
                 PROVE  /\ -1 - n < h => factor = No
                        /\ ~(-1 - n < h) => factor = Yes
    OBVIOUS
  <2>2. Operand(p, h) /\ LargestFactor(b, tmax) = Num(p, h)
    <3>1. h = hi \div (-m)
      BY DEF h
    <3> QED
      BY <1>2, <2>1, <3>1, LargestFactorIs
  <2> DEFINE f == Common(int, s)
  <2>3. int \in Wide /\ Operand(int, -1) /\ Lit(-1) = Num(int, -1)
    BY <1>2, WideTypes, SmallOperands DEF Lit, Num
  <2>4. Operand(f, -1 - n) /\ Sub(Lit(-1), a) = Num(f, -1 - n)
    <3>1. f = Common(int, s) /\ -1 < 0
      OBVIOUS
    <3> HIDE DEF f
    <3> QED
      BY <2>3, <3>1, DifferenceOf
  <2>5. -1 - n >= 0 /\ h >= 0
    BY <1>2, <1>4
  <2> HIDE DEF f
  <2>6. /\ -1 - n < h => AtMost(Num(p, h), Num(f, -1 - n)) = No
        /\ ~(-1 - n < h) => AtMost(Num(p, h), Num(f, -1 - n)) = Yes
    BY <2>2, <2>4, <2>5, Plain
  <2> QED
    BY <2>2, <2>4, <2>6
<1> HIDE DEF a, b, tmax, d, quotient, factor, over
<1>9. /\ hi < k => over = Yes
      /\ ~(hi < k) => over = No
  <2>1. CASE d.signed
    <3>1. quotient \in {Yes, No} /\ EXPR_SIGNED(_GL_INT_CONVERT(tmax, b)) = Yes
      BY <1>6, <1>7, <2>1
    <3>2. over = quotient
      BY <1>1, <1>5, <3>1, Logic
    <3> QED
      BY <1>4, <1>7, <2>1, <3>2
  <2>2. CASE ~d.signed
    <3>1. factor \in {Yes, No} /\ EXPR_SIGNED(_GL_INT_CONVERT(tmax, b)) = No
      BY <1>6, <1>8, <2>2
    <3>2. over = factor
      BY <1>1, <1>5, <3>1, Logic
    <3> QED
      BY <1>4, <1>8, <2>2, <3>2
  <2> QED
    BY <2>1, <2>2
<1>10. Tells(over, lo, hi, k)
  BY <1>2, <1>4, <1>9 DEF Tells
<1> QED
  BY <1>10 DEF over, a, b, tmax, k

\* That an unsigned value is past the minimum's opposite.
PastMinOf(x, tmin) == Less(Sub(Lit(-1), tmin), Sub(x, Lit(1)))

\* Subtracting 1 from a number that is not the least of its type.
LEMMA OneLess ==
  ASSUME NEW s, NEW n, Operand(s, n), n >= 1, NEW q, NEW lo, Operand(q, lo), lo < 0,
         NEW f, f = Common(int, q), NEW g, g = Common(s, int)
  PROVE  /\ Operand(f, -1 - lo) /\ Sub(Lit(-1), Num(q, lo)) = Num(f, -1 - lo)
         /\ Operand(g, n - 1) /\ Sub(Num(s, n), Lit(1)) = Num(g, n - 1)
<1> DEFINE i == 1
           j == -1
<1>1. /\ n \in Int /\ lo \in Int /\ s \in Wide /\ q \in Wide
      /\ Operand(int, j) /\ Operand(int, i)
  BY SmallOperands DEF Operand
<1>2. Lit(j) = Num(int, j) /\ Lit(i) = Num(int, i)
  BY DEF Lit, Num
<1>3. j < 0 /\ 0 <= i /\ i <= n /\ i \in Int /\ j \in Int
  BY <1>1
<1> HIDE DEF i, j
<1>4. Operand(f, j - lo) /\ Sub(Num(int, j), Num(q, lo)) = Num(f, j - lo)
  BY <1>1, <1>3, DifferenceOf
<1>5. Operand(g, n - i) /\ Sub(Num(s, n), Num(int, i)) = Num(g, n - i)
  BY <1>1, <1>3, DifferenceOf
<1> QED
  BY <1>2, <1>4, <1>5 DEF i, j

\* The test of the product by -1 that is made without a negation.
LEMMA PastMinIs ==
  ASSUME NEW s, NEW n, Operand(s, n), n >= 1, NEW q, NEW lo, Operand(q, lo), lo < 0
  PROVE  /\ -lo < n => PastMinOf(Num(s, n), Num(q, lo)) = Yes
         /\ ~(-lo < n) => PastMinOf(Num(s, n), Num(q, lo)) = No
<1> DEFINE f == Common(int, q)
           g == Common(s, int)
<1>1. n \in Int /\ lo \in Int
  BY DEF Operand
<1>2. Operand(f, -1 - lo) /\ Sub(Lit(-1), Num(q, lo)) = Num(f, -1 - lo)
  BY OneLess
<1>3. Operand(g, n - 1) /\ Sub(Num(s, n), Lit(1)) = Num(g, n - 1)
  BY OneLess
<1> HIDE DEF f, g
<1>4. -1 - lo >= 0 /\ n - 1 >= 0
  BY <1>1
<1>5. /\ -1 - lo < n - 1 => Less(Num(f, -1 - lo), Num(g, n - 1)) = Yes
      /\ ~(-1 - lo < n - 1) => Less(Num(f, -1 - lo), Num(g, n - 1)) = No
  BY <1>2, <1>3, <1>4, Plain
<1>6. -1 - lo < n - 1 <=> -lo < n
  BY <1>1
<1> QED
  BY <1>2, <1>3, <1>5, <1>6 DEF PastMinOf

\* A product of an operand that is not negative and one that is.
MultiplyMixed(x, y, tmin, past) ==
  If(And(INT_NEGATE_OVERFLOW(_GL_INT_CONVERT(y, tmin)), Equal(y, Lit(-1))),
     If(EXPR_SIGNED(x), Less(Lit(0), Add(x, tmin)), past),
     Less(Div(tmin, y), x))

\* What stands for x > -tmin in a type that is unsigned.
Passes(past, lo, n) ==
  /\ TypeOf(past) = int
  /\ lo < 0 => /\ -lo < n => past = Yes
               /\ ~(-lo < n) => past = No

\* A product of a nonnegative and a negative operand, the test for -1 included.
LEMMA OneBelow ==
  ASSUME NEW s, NEW u, NEW n, NEW m, Operand(s, n), Operand(u, m), n >= 0, m < 0,
         NEW q, NEW p, NEW lo, NEW hi, BoundsOf(q, p, lo, hi), NEW past, Passes(past, lo, n)
  PROVE  Tells(MultiplyMixed(Num(s, n), Num(u, m), Num(q, lo), past), lo, hi, n * m)
<1> DEFINE x == Num(s, n)
           y == Num(u, m)
           tmin == Num(q, lo)
           f == Common(q, u)
           g == Common(s, q)
           v == Quotient(lo, m)
           k == n * m
           minus == And(INT_NEGATE_OVERFLOW(_GL_INT_CONVERT(y, tmin)), Equal(y, Lit(-1)))
           sum == Less(Lit(0), Add(x, tmin))
           opposite == If(EXPR_SIGNED(x), sum, past)
           quotient == Less(Div(tmin, y), x)
           over == MultiplyMixed(x, y, tmin, past)
<1>1. over = If(minus, opposite, quotient)
  BY DEF MultiplyMixed
<1>2. /\ n \in Int /\ m \in Int /\ lo \in Int /\ hi \in Int /\ hi >= 1 /\ lo <= 0
      /\ s \in Wide /\ u \in Wide /\ q \in Wide /\ q.signed
      /\ Operand(q, lo)
  BY DEF BoundsOf, Operand
<1>3. u.signed
  BY NegativeSigned
<1>4. /\ k \in Int /\ k <= 0 /\ v \in Int /\ v >= 0
      /\ k < lo <=> v < n
  <2>1. k <= 0 /\ v \in Int /\ v >= 0 /\ (k < lo <=> v < n)
    BY <1>2, MixedProduct
  <2>2. k \in Int
    BY <1>2
  <2> QED
    BY <2>1, <2>2
<1>5. TypeOf(sum) = int /\ TypeOf(quotient) = int /\ TypeOf(opposite) = int
  BY ConditionTypes, ChoiceTypes DEF Passes
<1>6. m = -1 => k = -n
  BY <1>2
<1> HIDE DEF k
<1>7. f.signed /\ f \in Wide /\ f = Common(q, u) /\ f = Common(u, q)
  BY <1>2, <1>3, SignedCommon, CommonTypes
<1>8. /\ ~Fits(f, -lo) /\ m = -1 => minus = Yes /\ lo < 0
      /\ Fits(f, -lo) \/ m # -1 => minus = No
  <2> HIDE DEF f
  <2>1. Operand(f, lo) /\ _GL_INT_CONVERT(y, tmin) = Num(f, lo)
    BY <1>2, <1>7, ConvertPlain
  <2>2. /\ Fits(f, -lo) => INT_NEGATE_OVERFLOW(Num(f, lo)) = No
        /\ ~Fits(f, -lo) => INT_NEGATE_OVERFLOW(Num(f, lo)) = Yes
    BY <2>1, NegateOverflow
  <2>3. /\ m = -1 => Equal(y, Lit(-1)) = Yes
        /\ m # -1 => Equal(y, Lit(-1)) = No
    <3>1. Operand(u, -1) /\ -1 \in Int
      BY <1>2, <1>3, SmallOperands
    <3>2. Fits(u, m) /\ Fits(u, -1)
      BY <3>1 DEF Operand
    <3> QED
      BY <1>2, <3>1, <3>2, EqualTo
  <2>4. ~Fits(f, -lo) => lo # 0
    <3>1. Fits(f, 0)
      BY <1>7, SmallFit
    <3>2. 0 <= lo => -lo = 0
      BY <1>2
    <3>3. lo = 0 => 0 <= lo
      OBVIOUS
    <3> QED
      BY <3>1, <3>2, <3>3
  <2> HIDE DEF y, tmin
  <2>5. /\ ~Fits(f, -lo) /\ m = -1 => minus = Yes
        /\ Fits(f, -lo) \/ m # -1 => minus = No
    BY <2>1, <2>2, <2>3, Logic
  <2> HIDE DEF minus
  <2> QED
    BY <1>2, <2>4, <2>5
<1>9. lo < 0 => /\ -lo < n => opposite = Yes
                /\ ~(-lo < n) => opposite = No
  <2>1. TypeOf(x) \in Wide /\ TypeOf(x) = s
    BY <1>2, ValueTypes
  <2>2. CASE s.signed
    <3>1. g.signed /\ g = Common(s, q) /\ ((n >= 0 /\ lo <= 0) \/ (n <= 0 /\ lo >= 0))
      BY <1>2, <2>2, SignedCommon
    <3> HIDE DEF g
    <3>2. Operand(g, n + lo) /\ Add(Num(s, n), Num(q, lo)) = Num(g, n + lo)
      BY <1>2, <3>1, PlainSum
    <3>3. Add(x, tmin) = Num(g, n + lo)
      BY <3>2
    <3>4. /\ 0 < n + lo => Less(Lit(0), Num(g, n + lo)) = Yes
          /\ ~(0 < n + lo) => Less(Lit(0), Num(g, n + lo)) = No
      BY <3>2, BelowZero DEF Operand
    <3>5. EXPR_SIGNED(x) = Yes
      BY <2>1, <2>2, ExprSigned
    <3> HIDE DEF x, tmin
    <3>6. /\ -lo < n => sum = Yes
          /\ ~(-lo < n) => sum = No
      BY <1>2, <3>4, <3>3
    <3> HIDE DEF sum
    <3>7. opposite = sum
      BY <3>5, <3>6, Logic DEF Passes
    <3> QED
      BY <3>6, <3>7
  <2>3. CASE ~s.signed
    <3>1. EXPR_SIGNED(x) = No
      BY <2>1, <2>3, ExprSigned
    <3> HIDE DEF x, sum
    <3>2. lo < 0 => opposite = past
      BY <1>5, <3>1, Logic DEF Passes
    <3> QED
      BY <3>2 DEF Passes
  <2> QED
    BY <2>2, <2>3
<1>10. Fits(f, -lo) \/ m # -1 =>
         /\ v < n => quotient = Yes
         /\ ~(v < n) => quotient = No
  <2>1. SUFFICES ASSUME Fits(f, -lo) \/ m # -1
                 PROVE  /\ v < n => quotient = Yes
                        /\ ~(v < n) => quotient = No
    OBVIOUS
  <2> HIDE DEF f
  <2>2. m # 0 /\ (m # -1 \/ Fits(f, -lo)) /\ (f.signed \/ (lo >= 0 /\ m > 0))
    BY <1>2, <1>7, <2>1
  <2>3. Operand(f, v) /\ Div(tmin, y) = Num(f, v)
    <3>1. Operand(f, Quotient(lo, m)) /\ Div(Num(q, lo), Num(u, m)) = Num(f, Quotient(lo, m))
      <4>1. Operand(q, lo) /\ f = Common(q, u) /\ m # 0 /\ f.signed
        BY <1>2, <1>7, <2>2
      <4>2. CASE Fits(f, -lo)
        BY <4>1, <4>2, QuotientOf
      <4>3. CASE m # -1
        BY <4>1, <4>3, QuotientOf
      <4> QED
        BY <2>2, <4>2, <4>3
    <3> QED
      BY <3>1 DEF v
  <2> HIDE DEF v
  <2>4. /\ v < n => Less(Num(f, v), x) = Yes
        /\ ~(v < n) => Less(Num(f, v), x) = No
    BY <1>4, <2>3, Plain
  <2> QED
    BY <2>3, <2>4
<1> HIDE DEF x, y, tmin, f, g, v, minus, sum, opposite, quotient, over
<1>11. /\ k < lo => over = Yes
       /\ ~(k < lo) => over = No
  <2>1. CASE ~Fits(f, -lo) /\ m = -1
    <3>1. minus = Yes /\ lo < 0 /\ opposite \in {Yes, No}
      BY <1>8, <1>9, <2>1
    <3>2. over = opposite
      BY <1>1, <1>5, <3>1, Logic
    <3>3. k < lo <=> -lo < n
      BY <1>2, <1>6, <2>1
    <3> QED
      BY <1>9, <3>1, <3>2, <3>3
  <2>2. CASE Fits(f, -lo) \/ m # -1
    <3>1. minus = No /\ quotient \in {Yes, No}
      BY <1>8, <1>10, <2>2
    <3>2. over = quotient
      BY <1>1, <1>5, <3>1, Logic
    <3> QED
      BY <1>4, <1>10, <2>2, <3>2
  <2> QED
    BY <2>1, <2>2
<1>12. Tells(over, lo, hi, k)
  BY <1>2, <1>4, <1>11 DEF Tells
<1> QED
  BY <1>12 DEF over, x, y, tmin, k

\* A product of an operand that is not negative and one that is positive.
LEMMA BothPositive ==
  ASSUME NEW s, NEW u, NEW n, NEW m, Operand(s, n), Operand(u, m), n >= 0, m > 0,
         NEW q, NEW p, NEW lo, NEW hi, BoundsOf(q, p, lo, hi)
  PROVE  Tells(Less(Div(Num(p, hi), Num(u, m)), Num(s, n)), lo, hi, n * m)
<1> DEFINE d == Common(p, u)
           v == Quotient(hi, m)
           k == n * m
           over == Less(Div(Num(p, hi), Num(u, m)), Num(s, n))
<1>1. /\ n \in Int /\ m \in Int /\ lo \in Int /\ hi \in Int /\ hi >= 0 /\ lo <= 0
      /\ Operand(p, hi) /\ d = Common(p, u)
  BY DEF BoundsOf, Operand
<1> HIDE DEF d
<1>2. k \in Int /\ 0 <= k /\ v \in Int /\ v >= 0 /\ (hi < k <=> v < n)
  <2>1. 0 <= hi
    BY <1>1
  <2>2. k \in Int
    BY <1>1
  <2> QED
    BY <1>1, <2>1, <2>2, PositiveProduct
<1> HIDE DEF k
<1>3. Operand(d, v) /\ Div(Num(p, hi), Num(u, m)) = Num(d, v)
  <2>1. m # 0 /\ m # -1
    BY <1>1
  <2>2. Operand(d, Quotient(hi, m)) /\ Div(Num(p, hi), Num(u, m)) = Num(d, Quotient(hi, m))
    BY <1>1, <2>1, QuotientOf
  <2> QED
    BY <2>2 DEF v
<1> HIDE DEF v
<1>4. /\ v < n => Less(Num(d, v), Num(s, n)) = Yes
      /\ ~(v < n) => Less(Num(d, v), Num(s, n)) = No
  BY <1>2, <1>3, Plain
<1>5. /\ hi < k => over = Yes
      /\ ~(hi < k) => over = No
  BY <1>2, <1>3, <1>4
<1> HIDE DEF over
<1>6. Tells(over, lo, hi, k)
  BY <1>1, <1>2, <1>5 DEF Tells
<1> QED
  BY <1>6 DEF over, k

\* The test of INT_MULTIPLY_WRAPV is exact.
LEMMA MultiplyTells ==
  ASSUME NEW s, NEW u, NEW n, NEW m, Operand(s, n), Operand(u, m),
         NEW q, NEW p, NEW lo, NEW hi, BoundsOf(q, p, lo, hi)
  PROVE  Tells(_GL_INT_MULTIPLY_RANGE_OVERFLOW(Num(s, n), Num(u, m), Num(q, lo), Num(p, hi)),
               lo, hi, n * m)
<1> DEFINE a == Num(s, n)
           b == Num(u, m)
           tmin == Num(q, lo)
           tmax == Num(p, hi)
           k == n * m
           pastA == And(Less(Lit(0), a), PastMinOf(a, tmin))
           pastB == PastMinOf(b, tmin)
           both == MultiplyNegative(a, b, tmax)
           belowB == MultiplyMixed(a, b, tmin, pastA)
           belowA == MultiplyMixed(b, a, tmin, pastB)
           above == Less(Div(tmax, b), a)
           negative == If(Less(a, Lit(0)), both, belowB)
           positive == If(Less(a, Lit(0)), belowA, above)
           over == _GL_INT_MULTIPLY_RANGE_OVERFLOW(a, b, tmin, tmax)
<1>1. over = If(Less(b, Lit(0)), negative, If(Equal(b, Lit(0)), Lit(0), positive))
  BY DEF _GL_INT_MULTIPLY_RANGE_OVERFLOW, MultiplyNegative, MultiplyMixed, PastMinOf,
         LargestFactor
<1>2. /\ TypeOf(both) = int /\ TypeOf(belowB) = int /\ TypeOf(belowA) = int
      /\ TypeOf(above) = int /\ TypeOf(Lit(0)) = int
  <2>1. \A x, y, z : TypeOf(x) = int /\ TypeOf(y) = int => TypeOf(If(z, x, y)) = int
    BY ChoiceTypes
  <2>2. TypeOf(pastA) = int /\ TypeOf(pastB) = int /\ TypeOf(above) = int
    BY ConditionTypes DEF PastMinOf
  <2>3. TypeOf(both) = int
    BY <2>1, ConditionTypes DEF MultiplyNegative
  <2>4. TypeOf(belowB) = int
    BY <2>1, <2>2, ConditionTypes DEF MultiplyMixed
  <2>5. TypeOf(belowA) = int
    BY <2>1, <2>2, ConditionTypes DEF MultiplyMixed
  <2>6. TypeOf(Lit(0)) = int
    BY Literals, ValueTypes
  <2> QED
    BY <2>2, <2>3, <2>4, <2>5, <2>6
<1>3. TypeOf(negative) = int /\ TypeOf(positive) = int
      /\ TypeOf(If(Equal(b, Lit(0)), Lit(0), positive)) = int
  BY <1>2, ChoiceTypes
<1>4. /\ n \in Int /\ m \in Int /\ s \in Wide /\ u \in Wide /\ Fits(s, n) /\ Fits(u, m)
      /\ Operand(q, lo) /\ lo \in Int /\ hi \in Int /\ lo <= 0 /\ hi >= 1
  BY DEF Operand, BoundsOf
<1>5. /\ n < 0 => Less(a, Lit(0)) = Yes
      /\ ~(n < 0) => Less(a, Lit(0)) = No
      /\ m < 0 => Less(b, Lit(0)) = Yes
      /\ ~(m < 0) => Less(b, Lit(0)) = No
      /\ 0 < n => Less(Lit(0), a) = Yes
      /\ ~(0 < n) => Less(Lit(0), a) = No
  BY <1>4, BelowZero
<1>6. /\ m = 0 => Equal(b, Lit(0)) = Yes
      /\ m # 0 => Equal(b, Lit(0)) = No
  <2>1. 0 \in Int /\ Fits(u, 0)
    BY <1>4, SmallFit
  <2> QED
    BY <1>4, <2>1, EqualTo
<1>7. n * m = m * n
  BY <1>4
<1>8. n < 0 /\ m < 0 => Tells(both, lo, hi, k)
  BY BothNegative
<1>9. n >= 0 /\ m < 0 => Tells(belowB, lo, hi, k)
  <2>1. SUFFICES ASSUME n >= 0, m < 0 PROVE Tells(belowB, lo, hi, k)
    OBVIOUS
  <2>2. Passes(pastA, lo, n)
    <3>1. TypeOf(pastA) = int
      BY ConditionTypes
    <3>2. CASE n >= 1
      <4>1. lo < 0 => /\ -lo < n => PastMinOf(a, tmin) = Yes
                      /\ ~(-lo < n) => PastMinOf(a, tmin) = No
        BY <1>4, <3>2, PastMinIs
      <4>2. Less(Lit(0), a) = Yes
        BY <1>4, <1>5, <3>2
      <4> HIDE DEF a, tmin
      <4>3. lo < 0 => /\ -lo < n => pastA = Yes
                      /\ ~(-lo < n) => pastA = No
        BY <4>1, <4>2, Logic
      <4> QED
        BY <3>1, <4>3 DEF Passes
    <3>3. CASE n = 0
      <4>1. Less(Lit(0), a) = No
        BY <1>4, <1>5, <3>3
      <4>2. pastA = No
        BY <4>1, Logic
      <4>3. lo < 0 => ~(-lo < n)
        BY <1>4, <3>3
      <4> HIDE DEF pastA
      <4> QED
        BY <3>1, <4>2, <4>3 DEF Passes
    <3> QED
      BY <1>4, <2>1, <3>2, <3>3
  <2> HIDE DEF pastA
  <2> QED
    BY <2>1, <2>2, OneBelow
<1>10. n < 0 /\ m > 0 => Tells(belowA, lo, hi, k)
  <2>1. SUFFICES ASSUME n < 0, m > 0 PROVE Tells(belowA, lo, hi, k)
    OBVIOUS
  <2>2. Passes(pastB, lo, m)
    <3>1. TypeOf(pastB) = int
      BY ConditionTypes DEF PastMinOf
    <3>2. m >= 1
      BY <1>4, <2>1
    <3>3. lo < 0 => /\ -lo < m => pastB = Yes
                    /\ ~(-lo < m) => pastB = No
      BY <1>4, <3>2, PastMinIs
    <3> HIDE DEF pastB
    <3> QED
      BY <3>1, <3>3 DEF Passes
  <2>3. m >= 0
    BY <1>4, <2>1
  <2> HIDE DEF pastB, k
  <2>4. Tells(belowA, lo, hi, m * n)
    BY <2>1, <2>2, <2>3, OneBelow
  <2> QED
    BY <1>7, <2>4 DEF k
<1>11. n >= 0 /\ m > 0 => Tells(above, lo, hi, k)
  BY BothPositive
<1>12. m = 0 => Tells(No, lo, hi, k)
  <2>1. SUFFICES ASSUME m = 0 PROVE Tells(No, lo, hi, k)
    OBVIOUS
  <2>2. k = 0
    BY <1>4, <2>1
  <2> HIDE DEF k
  <2> QED
    BY <1>4, <2>2 DEF Tells
<1>13. \A x : Tells(x, lo, hi, k) => x \in {Yes, No}
  BY DEF Tells
<1>14. Lit(0) = No
  BY Literals
<1> HIDE DEF a, b, tmin, tmax, k, pastA, pastB, both, belowB, belowA, above
<1>15. CASE n < 0 /\ m < 0
  <2>1. negative = both
    BY <1>2, <1>5, <1>8, <1>13, <1>15, Logic
  <2> HIDE DEF negative, positive, over
  <2>2. over = both
    BY <1>1, <1>3, <1>5, <1>8, <1>13, <1>15, <2>1, Logic
  <2> QED
    BY <1>8, <1>15, <2>2 DEF over, a, b, tmin, tmax, k
<1>16. CASE n >= 0 /\ m < 0
  <2>1. ~(n < 0)
    BY <1>4, <1>16
  <2>2. negative = belowB
    BY <1>2, <1>5, <1>9, <1>13, <1>16, <2>1, Logic
  <2> HIDE DEF negative, positive, over
  <2>3. over = belowB
    BY <1>1, <1>3, <1>5, <1>9, <1>13, <1>16, <2>2, Logic
  <2> QED
    BY <1>9, <1>16, <2>3 DEF over, a, b, tmin, tmax, k
<1>17. CASE m = 0
  <2>1. ~(m < 0)
    BY <1>17
  <2> HIDE DEF negative, over
  <2>2. If(Equal(b, Lit(0)), Lit(0), positive) = No
    BY <1>3, <1>6, <1>14, <1>17, Logic
  <2> HIDE DEF positive
  <2>3. over = No
    BY <1>1, <1>3, <1>5, <2>1, <2>2, Logic
  <2> QED
    BY <1>12, <1>17, <2>3 DEF over, a, b, tmin, tmax, k
<1>18. CASE n < 0 /\ m > 0
  <2>1. ~(m < 0) /\ m # 0
    BY <1>4, <1>18
  <2>2. positive = belowA
    BY <1>2, <1>5, <1>10, <1>13, <1>18, Logic
  <2> HIDE DEF negative, positive, over
  <2>3. If(Equal(b, Lit(0)), Lit(0), positive) = belowA
    BY <1>2, <1>6, <1>10, <1>13, <1>18, <2>1, <2>2, Logic
  <2>4. over = belowA
    BY <1>1, <1>3, <1>5, <1>10, <1>13, <1>18, <2>1, <2>3, Logic
  <2> QED
    BY <1>10, <1>18, <2>4 DEF over, a, b, tmin, tmax, k
<1>19. CASE n >= 0 /\ m > 0
  <2>1. ~(m < 0) /\ m # 0 /\ ~(n < 0)
    BY <1>4, <1>19
  <2>2. positive = above
    BY <1>2, <1>5, <1>11, <1>13, <1>19, <2>1, Logic
  <2> HIDE DEF negative, positive, over
  <2>3. If(Equal(b, Lit(0)), Lit(0), positive) = above
    BY <1>2, <1>6, <1>11, <1>13, <1>19, <2>1, <2>2, Logic
  <2>4. over = above
    BY <1>1, <1>3, <1>5, <1>11, <1>13, <1>19, <2>1, <2>3, Logic
  <2> QED
    BY <1>11, <1>19, <2>4 DEF over, a, b, tmin, tmax, k
<1> QED
  BY <1>4, <1>15, <1>16, <1>17, <1>18, <1>19

-----------------------------------------------------------------------------
(* The low-order bits that INT_<op>_WRAPV stores.                          *)

Congruent(s, x, y) == \E k \in Int : x = y + k * s

\* Remainders add, subtract and multiply,
LEMMA CongruentSums ==
  ASSUME NEW s \in Nat, NEW x \in Int, NEW y \in Int, NEW z \in Int, NEW w \in Int,
         Congruent(s, x, y), Congruent(s, z, w)
  PROVE  /\ Congruent(s, x + z, y + w)
         /\ Congruent(s, x - z, y - w)
         /\ Congruent(s, x * z, y * w)
<1>1. PICK k \in Int : x = y + k * s
  BY DEF Congruent
<1>2. PICK l \in Int : z = w + l * s
  BY DEF Congruent
<1>3. Congruent(s, x + z, y + w)
  <2>1. k + l \in Int /\ (k + l) * s = k * s + l * s
    OBVIOUS
  <2>2. x + z = (y + w) + (k + l) * s
    BY <1>1, <1>2, <2>1
  <2> QED
    BY <2>1, <2>2 DEF Congruent
<1>4. Congruent(s, x - z, y - w)
  <2>1. k - l \in Int /\ (k - l) * s = k * s - l * s
    OBVIOUS
  <2>2. x - z = (y - w) + (k - l) * s
    BY <1>1, <1>2, <2>1
  <2> QED
    BY <2>1, <2>2 DEF Congruent
<1>5. Congruent(s, x * z, y * w)
  <2> DEFINE j == k * z + y * l
  <2>1. j \in Int
    OBVIOUS
  <2>2. x * z = y * z + (k * s) * z
    BY <1>1
  <2>3. y * z = y * w + y * (l * s)
    BY <1>2
  <2>4. j * s = (k * s) * z + y * (l * s)
    OBVIOUS
  <2>5. /\ x * z \in Int /\ y * z \in Int /\ y * w \in Int /\ j * s \in Int
        /\ (k * s) * z \in Int /\ y * (l * s) \in Int
    OBVIOUS
  <2>6. x * z = y * w + j * s
    BY <2>2, <2>3, <2>4, <2>5
  <2> HIDE DEF j
  <2> QED
    BY <2>1, <2>6 DEF Congruent
<1> QED
  BY <1>3, <1>4, <1>5

\* are symmetric and transitive, and are those of every divisor of the modulus.
LEMMA CongruentChain ==
  ASSUME NEW s \in Nat, NEW x \in Int, NEW y \in Int, NEW z \in Int, Congruent(s, x, y)
  PROVE  /\ Congruent(s, y, x)
         /\ Congruent(s, y, z) => Congruent(s, x, z)
         /\ \A d, r \in Nat : s = d * r => Congruent(r, x, y)
<1>1. PICK k \in Int : x = y + k * s
  BY DEF Congruent
<1>2. Congruent(s, y, x)
  <2>1. -k \in Int /\ (-k) * s = -(k * s) /\ k * s \in Int
    OBVIOUS
  <2>2. y = x + (-k) * s
    BY <1>1, <2>1
  <2> QED
    BY <2>1, <2>2 DEF Congruent
<1>3. ASSUME Congruent(s, y, z) PROVE Congruent(s, x, z)
  <2>1. PICK l \in Int : y = z + l * s
    BY <1>3 DEF Congruent
  <2>2. k + l \in Int /\ (k + l) * s = k * s + l * s
    OBVIOUS
  <2>3. x = z + (k + l) * s
    BY <1>1, <2>1, <2>2
  <2> QED
    BY <2>2, <2>3 DEF Congruent
<1>4. ASSUME NEW d \in Nat, NEW r \in Nat, s = d * r PROVE Congruent(r, x, y)
  <2>1. k * d \in Int /\ k * s = (k * d) * r
    BY <1>4
  <2>2. x = y + (k * d) * r
    BY <1>1, <2>1
  <2> QED
    BY <2>1, <2>2 DEF Congruent
<1> QED
  BY <1>2, <1>3, <1>4

\* Wrap keeps a number's remainder and is determined by it.
LEMMA WrapCongruent ==
  ASSUME NEW t, TypeFacts(t), NEW n \in Int
  PROVE  Congruent(t.size, Wrap(t, n), n) /\ Congruent(t.size, n, Wrap(t, n))
<1> DEFINE x == n - t.min
           d == x \div t.size
           r == x % t.size
<1>1. t.size \in Nat \ {0} /\ t.min \in Int /\ x \in Int
  BY DEF TypeFacts
<1>2. d \in Int /\ r \in Int /\ x = d * t.size + r /\ d * t.size \in Int
  <2> DEFINE s == t.size
  <2>1. s \in Nat \ {0}
    BY <1>1
  <2> HIDE DEF s, x
  <2>2. /\ x \div s \in Int /\ x = (x \div s) * s + (x % s) /\ (x % s) \in 0..(s - 1)
        /\ (x \div s) * s \in Int
    BY <1>1, <2>1
  <2> QED
    BY <2>2 DEF s
<1>3. Wrap(t, n) = r + t.min
  BY DEF Wrap
<1> HIDE DEF d, r
<1>4. n = Wrap(t, n) + d * t.size
  <2> DEFINE p == d * t.size
  <2>1. p \in Int /\ n - t.min = p + r /\ r \in Int
    BY <1>2
  <2> HIDE DEF p
  <2>2. n = Wrap(t, n) + p
    BY <1>1, <1>3, <2>1
  <2> QED
    BY <2>2 DEF p
<1>5. Wrap(t, n) \in Int
  BY <1>1, <1>2, <1>3
<1>6. Congruent(t.size, n, Wrap(t, n))
  BY <1>2, <1>4 DEF Congruent
<1> QED
  BY <1>1, <1>5, <1>6, CongruentChain

\* A multiple of a size is at least the size, or at most minus it,
LEMMA MultiplesGrow ==
  ASSUME NEW s \in Nat, NEW k \in Int
  PROVE  k * s \in Int /\ (k >= 1 => s <= k * s) /\ (k + 1 <= 0 => k * s + s <= 0)
<1>1. k * s \in Int /\ 1 * s = s /\ (k + 1) * s = k * s + s /\ 0 * s = 0
  OBVIOUS
<1>2. k >= 1 => 1 * s <= k * s
  BY ProductsGrow
<1>3. k + 1 <= 0 => (k + 1) * s <= 0 * s
  BY ProductsGrow
<1> QED
  BY <1>1, <1>2, <1>3

\* so that a multiple between the two is zero.
LEMMA SmallMultiple ==
  ASSUME NEW s \in Nat \ {0}, NEW k \in Int, -s < k * s, k * s < s
  PROVE  k = 0
<1> DEFINE p == k * s
<1>1. p \in Int /\ (k >= 1 => s <= p) /\ (k + 1 <= 0 => p + s <= 0) /\ -s < p /\ p < s
  BY MultiplesGrow
<1> HIDE DEF p
<1> QED
  BY <1>1

\* A type wraps two numbers of one remainder to the same value.
LEMMA WrapSame ==
  ASSUME NEW t, TypeFacts(t), NEW x \in Int, NEW y \in Int, Congruent(t.size, x, y)
  PROVE  Wrap(t, x) = Wrap(t, y)
<1> DEFINE v == Wrap(t, x)
           w == Wrap(t, y)
<1>1. v \in Int /\ w \in Int /\ Fits(t, v) /\ Fits(t, w)
  BY Wraps
<1>2. t.size \in Nat \ {0} /\ t.min \in Int /\ t.max \in Int /\ t.size = t.max - t.min + 1
  BY DEF TypeFacts
<1>3. Congruent(t.size, v, x) /\ Congruent(t.size, y, w)
  BY WrapCongruent
<1> HIDE DEF v, w
<1>4. Congruent(t.size, v, w)
  BY <1>1, <1>2, <1>3, CongruentChain
<1>5. PICK k \in Int : v = w + k * t.size
  BY <1>4 DEF Congruent
<1>6. k * t.size \in Int
  BY <1>2
<1>7. -t.size < k * t.size /\ k * t.size < t.size
  BY <1>1, <1>2, <1>5, <1>6 DEF Fits
<1>8. k = 0
  BY <1>2, <1>7, SmallMultiple
<1>9. k * t.size = 0
  BY <1>2, <1>8
<1>10. v = w
  BY <1>1, <1>5, <1>9
<1> QED
  BY <1>10 DEF v, w

\* The unsigned type that the calculation is made in.
LEMMA UnsignedOf ==
  ASSUME NEW b \in {ShortBits, IntBits, LongBits}, NEW s \in BOOLEAN
  PROVE  LET t == Type(b, s)
             ut == Unsigned(t)
         IN  /\ ut \in Wide /\ ~ut.signed /\ TypeFacts(ut) /\ Common(ut, ut) = ut
             /\ TypeFacts(t) /\ t.size = 2 ^ b
             /\ \E d \in Nat : ut.size = d * t.size
<1> DEFINE t == Type(b, s)
           w == IF b < IntBits THEN IntBits ELSE b
           ut == Type(w, FALSE)
<1>1. /\ TypeFacts(t) /\ t.bits = b /\ t.size = 2 ^ b
  BY ArithmeticTypes
<1>2. int.bits = IntBits
  BY WideTypes
<1>3. Unsigned(t) = ut
  BY <1>1, <1>2 DEF Unsigned, Promoted
<1>4. /\ w \in {IntBits, LongBits} /\ b \in Nat /\ b <= w /\ w <= LongBits
      /\ IntBits <= w
  BY WidthAssumption
<1> HIDE DEF w
<1>5. TypeFacts(ut) /\ ut.bits = w /\ ut.signed = FALSE /\ ut.size = 2 ^ w
  <2>1. w \in {ShortBits, IntBits, LongBits} /\ FALSE \in BOOLEAN
    BY <1>4
  <2> QED
    BY <2>1, ArithmeticTypes
<1>6. ut \in Wide
  <2>1. ut \in Arithmetic
    <3>1. w \in {ShortBits, IntBits, LongBits} /\ FALSE \in BOOLEAN
      BY <1>4
    <3>2. \E c \in {ShortBits, IntBits, LongBits}, r \in BOOLEAN : ut = Type(c, r)
      BY <3>1
    <3> HIDE DEF ut
    <3> QED
      BY <3>2 DEF Arithmetic
  <2> QED
    BY <1>4, <1>5, <2>1 DEF Wide
<1>7. Common(ut, ut) = ut
  BY <1>6, CommonTypes
<1>8. \E d \in Nat : 2 ^ w = d * 2 ^ b
  <2>1. b \in Int /\ w \in Int /\ LongBits \in Int
    BY <1>4, WidthAssumption
  <2>2. b \in 0..LongBits /\ w \in b..LongBits
    BY <1>4, <2>1
  <2> QED
    BY <2>2, PowersDivide
<1> HIDE DEF t, ut
<1>9. \E d \in Nat : ut.size = d * t.size
  BY <1>1, <1>5, <1>8
<1> QED
  BY <1>1, <1>3, <1>5, <1>6, <1>7, <1>9 DEF t

\* The value that a WRAPV macro is for.
Intended(op, n, m) ==
  CASE op = "+" -> n + m [] op = "-" -> n - m [] op = "*" -> n * m

\* The calculation in the unsigned type gives the low-order bits of the result.
LEMMA LowOrderBits ==
  ASSUME NEW t \in Arithmetic, NEW s, NEW u, NEW n, NEW m, Operand(s, n), Operand(u, m),
         NEW op \in {"+", "-", "*"}, NEW v, v = Intended(op, n, m)
  PROVE  /\ v \in Int
         /\ _GL_INT_OP_WRAPV_VIA_UNSIGNED(Num(s, n), Num(u, m), op, Unsigned(t), t)
              = Num(t, Wrap(t, v))
<1> DEFINE ut == Unsigned(t)
           A == Wrap(ut, n)
           B == Wrap(ut, m)
           x == Num(ut, A)
           y == Num(ut, B)
           e == Intended(op, A, B)
<1>0. n \in Int /\ m \in Int
  BY DEF Operand
<1>1. /\ ut \in Wide /\ ~ut.signed /\ TypeFacts(ut) /\ Common(ut, ut) = ut
      /\ TypeFacts(t)
      /\ \E d \in Nat : ut.size = d * t.size
  <2>1. PICK b \in {ShortBits, IntBits, LongBits}, g \in BOOLEAN : t = Type(b, g)
    BY DEF Arithmetic
  <2> QED
    BY <2>1, UnsignedOf
<1>2. /\ Cast(ut, Num(s, n)) = x /\ Cast(ut, Num(u, m)) = y
  BY Answers DEF Cast, Num
<1>3. _GL_INT_OP_WRAPV_VIA_UNSIGNED(Num(s, n), Num(u, m), op, ut, t) = Cast(t, Apply(op, x, y))
  BY <1>2 DEF _GL_INT_OP_WRAPV_VIA_UNSIGNED
<1> HIDE DEF ut
<1>4. /\ A \in Int /\ B \in Int /\ Wrap(ut, A) = A /\ Wrap(ut, B) = B
      /\ Congruent(ut.size, A, n) /\ Congruent(ut.size, B, m)
  <2>1. /\ A \in Int /\ B \in Int /\ Fits(ut, A) /\ Fits(ut, B)
        /\ Congruent(ut.size, A, n) /\ Congruent(ut.size, B, m)
    BY <1>0, <1>1, Wraps, WrapCongruent
  <2> HIDE DEF A, B
  <2> QED
    BY <1>1, <2>1, Wraps
<1> HIDE DEF A, B
<1>5. /\ A + B \in Int /\ A - B \in Int /\ A * B \in Int
      /\ n + m \in Int /\ n - m \in Int /\ n * m \in Int
      /\ ut.size \in Nat
  BY <1>0, <1>1, <1>4 DEF TypeFacts
<1>6. /\ Congruent(ut.size, A + B, n + m)
      /\ Congruent(ut.size, A - B, n - m)
      /\ Congruent(ut.size, A * B, n * m)
  BY <1>0, <1>4, <1>5, CongruentSums
<1>7. e \in Int /\ v \in Int /\ Congruent(ut.size, e, v)
  BY <1>5, <1>6 DEF Intended
<1>8. Apply(op, x, y) = Calc(ut, e)
  <2>1. /\ Add(x, y) = Calc(ut, A + B)
        /\ Sub(x, y) = Calc(ut, A - B)
        /\ Mul(x, y) = Calc(ut, A * B)
    BY <1>1, <1>4, Binary
  <2> QED
    BY <2>1 DEF Apply, Intended
<1> HIDE DEF e
<1>9. Calc(ut, e) = Num(ut, Wrap(ut, e))
  BY <1>1, <1>7, CalcIs
<1>10. Wrap(t, Wrap(ut, e)) = Wrap(t, v)
  <2>1. Wrap(ut, e) \in Int /\ Congruent(ut.size, Wrap(ut, e), e)
    BY <1>1, <1>7, Wraps, WrapCongruent
  <2>2. Congruent(ut.size, Wrap(ut, e), v)
    BY <1>5, <1>7, <2>1, CongruentChain
  <2>3. t.size \in Nat
    BY <1>1 DEF TypeFacts
  <2>4. Congruent(t.size, Wrap(ut, e), v)
    BY <1>1, <1>5, <1>7, <2>1, <2>2, <2>3, CongruentChain
  <2> QED
    BY <1>1, <1>7, <2>1, <2>4, WrapSame
<1>11. Cast(t, Num(ut, Wrap(ut, e))) = Num(t, Wrap(t, Wrap(ut, e)))
  BY Answers DEF Cast, Num
<1> QED
  BY <1>3, <1>7, <1>8, <1>9, <1>10, <1>11 DEF ut

-----------------------------------------------------------------------------
(* The variable that a WRAPV macro stores to.                              *)

\* What the widths of the types say of their bounds.
LEMMA Widths ==
  ASSUME NEW b \in {ShortBits, IntBits, LongBits}, NEW g \in BOOLEAN, NEW t, t = Type(b, g)
  PROVE  /\ t.bits = b /\ t.signed = g /\ TypeFacts(t) /\ t.max >= 1
         /\ b >= IntBits => t \in Wide /\ Promoted(t) = t
         /\ ~(b >= IntBits) => Promoted(t) = int /\ t.rank < int.rank
                               /\ int.min <= t.min /\ t.max <= int.max
<1>1. /\ t.bits = b /\ t.signed = g /\ TypeFacts(t) /\ t.size = 2 ^ b
      /\ t.rank = (IF g THEN 2 * b ELSE 2 * b + 1)
      /\ g => t.min = -(2 ^ (b - 1)) /\ t.max = 2 ^ (b - 1) - 1
      /\ ~g => t.min = 0 /\ t.max = 2 ^ b - 1
  BY ArithmeticTypes
<1>2. /\ int.bits = IntBits /\ int.rank = 2 * IntBits
      /\ int.min = -(2 ^ (IntBits - 1)) /\ int.max = 2 ^ (IntBits - 1) - 1
  <2>1. IntBits \in {ShortBits, IntBits, LongBits} /\ TRUE \in BOOLEAN
    OBVIOUS
  <2> QED
    BY <2>1, ArithmeticTypes DEF int
<1>3. /\ b \in Nat /\ IntBits \in Nat /\ 1 < b
      /\ b \in 1..LongBits /\ b - 1 \in 1..LongBits /\ b - 2 \in 0..LongBits
      /\ IntBits - 1 \in 0..LongBits /\ (b - 1) - 1 = b - 2
      /\ ~(b >= IntBits) => b <= IntBits - 1
  BY WidthAssumption
<1> DEFINE P == 2 ^ b
           H == 2 ^ (b - 1)
           I == 2 ^ (IntBits - 1)
<1>4. P = 2 * H /\ H \in Nat /\ H >= 2 /\ I \in Nat
  <2>1. P = 2 * H /\ 2 ^ (b - 1) = 2 * 2 ^ ((b - 1) - 1)
    BY <1>3, PowerAssumption
  <2>2. 2 ^ (b - 2) \in Nat \ {0} /\ H \in Nat \ {0} /\ I \in Nat \ {0}
    BY <1>3, PowersPositive
  <2>3. H = 2 * 2 ^ (b - 2)
    BY <1>3, <2>1
  <2> QED
    BY <2>1, <2>2, <2>3
<1>5. ~(b >= IntBits) => P <= I
  <2>1. b \in 0..LongBits
    BY <1>3
  <2> QED
    BY <1>3, <2>1, PowersGrow
<1>6. /\ g => t.min = -H /\ t.max = H - 1
      /\ ~g => t.min = 0 /\ t.max = P - 1
      /\ int.min = -I /\ int.max = I - 1
  BY <1>1, <1>2
<1> HIDE DEF P, H, I
<1>7. t.max >= 1
  BY <1>4, <1>6
<1>8. b >= IntBits => t \in Wide /\ Promoted(t) = t
  <2>1. t \in Arithmetic
    BY DEF Arithmetic
  <2>2. b >= IntBits => t \in Wide
    BY <1>1, <2>1 DEF Wide
  <2> QED
    BY <2>2, WideTypes
<1>9. ASSUME ~(b >= IntBits)
      PROVE  Promoted(t) = int /\ t.rank < int.rank /\ int.min <= t.min /\ t.max <= int.max
  <2>1. Promoted(t) = int
    BY <1>1, <1>3, <1>9 DEF Promoted
  <2>2. t.rank < int.rank
    BY <1>1, <1>2, <1>3, <1>9
  <2>3. int.min <= t.min /\ t.max <= int.max
    BY <1>4, <1>5, <1>6, <1>9
  <2> QED
    BY <2>1, <2>2, <2>3
<1> QED
  BY <1>1, <1>7, <1>8, <1>9

\* The bounds of a variable's type as the macros' constants.
LEMMA VariableBounds ==
  ASSUME NEW b \in {ShortBits, IntBits, LongBits}, NEW g \in BOOLEAN, NEW t, t = Type(b, g)
  PROVE  \E q, p : /\ Bound(t) = [min |-> Num(q, t.min), max |-> Num(p, t.max)]
                   /\ BoundsOf(q, p, t.min, t.max)
<1> DEFINE p == Promoted(t)
           q == IF g THEN p ELSE int
<1>1. /\ t.bits = b /\ t.signed = g /\ TypeFacts(t) /\ t.max >= 1
      /\ b >= IntBits => t \in Wide /\ p = t
      /\ ~(b >= IntBits) => p = int /\ int.min <= t.min /\ t.max <= int.max
  BY Widths
<1>2. /\ t.min \in Int /\ t.max \in Int /\ t.max \in Nat /\ t.min <= 0
      /\ g => t.min = -t.max - 1
      /\ ~g => t.min = 0
  BY <1>1 DEF TypeFacts
<1>3. /\ int \in Wide /\ int.signed /\ TypeFacts(int) /\ Operand(int, 0)
  BY WideTypes, SmallOperands
<1>4. int.min \in Int /\ int.max \in Int
  BY <1>3 DEF TypeFacts
<1>5. Lit(0) = Num(int, 0)
  BY DEF Lit, Num
<1>6. Bound(t) = [min |-> Num(q, t.min), max |-> Num(p, t.max)]
  BY <1>1, <1>2, <1>5 DEF Bound, Constant, Num
<1> HIDE DEF p
<1>7. Operand(p, t.min) /\ Operand(p, t.max)
  <2>1. CASE b >= IntBits
    BY <1>1, <1>2, <2>1 DEF Operand, Fits
  <2>2. CASE ~(b >= IntBits)
    BY <1>1, <1>2, <1>3, <1>4, <2>2 DEF Operand, Fits
  <2> QED
    BY <2>1, <2>2
<1>8. p.signed \/ ~g
  BY <1>1, <1>3
<1>9. BoundsOf(q, p, t.min, t.max)
  <2>1. CASE g
    BY <1>1, <1>2, <1>7, <1>8, <2>1 DEF BoundsOf
  <2>2. CASE ~g
    BY <1>1, <1>2, <1>3, <1>7, <2>2 DEF BoundsOf
  <2> QED
    BY <2>1, <2>2
<1> QED
  BY <1>6, <1>9

\* Whether the test is exact: the operands' common type is signed or no wider
\* than the variable.
LEMMA WideEnough ==
  ASSUME NEW b \in {ShortBits, IntBits, LongBits}, NEW g \in BOOLEAN, NEW t, t = Type(b, g),
         NEW c \in Wide, c.signed \/ b >= c.bits
  PROVE  c.signed \/ t.min = 0 \/ c.max <= 2 * t.max + 1
<1>1. SUFFICES ASSUME ~c.signed, g PROVE c.max <= 2 * t.max + 1
  BY ArithmeticTypes
<1> DEFINE P == 2 ^ b
           C == 2 ^ c.bits
<1>2. c.bits \in {ShortBits, IntBits, LongBits} /\ c = Type(c.bits, FALSE)
  BY <1>1, WideTypes DEF TypeFacts
<1>3. c.max = C - 1
  BY <1>2, ArithmeticTypes
<1>4. t.max = 2 ^ (b - 1) - 1
  BY <1>1, ArithmeticTypes
<1>5. /\ b \in 1..LongBits /\ b - 1 \in 0..LongBits /\ b \in 0..LongBits
      /\ c.bits \in 0..LongBits /\ c.bits <= b
  BY <1>1, <1>2, WidthAssumption
<1>6. P = 2 * 2 ^ (b - 1) /\ 2 ^ (b - 1) \in Nat /\ C <= P /\ C \in Nat
  BY <1>5, PowerAssumption, PowersPositive, PowersGrow
<1> HIDE DEF C, P
<1> QED
  BY <1>3, <1>4, <1>6

-----------------------------------------------------------------------------
(* What INT_<op>_WRAPV says.                                               *)

\* Nothing wrong if it is no overflow, and no more than it should where exact.
Told(over, t, v, exact) ==
  /\ over \in {Yes, No}
  /\ over = No => Fits(t, v)
  /\ exact /\ Fits(t, v) => over = No

\* The report of each macro, for a variable of any type.
LEMMA OverflowTold ==
  ASSUME NEW s, NEW u, NEW n, NEW m, Operand(s, n), Operand(u, m), NEW c, c = Common(s, u),
         NEW b \in {ShortBits, IntBits, LongBits}, NEW g \in BOOLEAN, NEW t, t = Type(b, g),
         NEW op \in {"+", "-", "*"}, NEW exact \in BOOLEAN, exact => c.signed \/ b >= c.bits \/ ~g
  PROVE  Told(overflow(op, Num(s, n), Num(u, m), Bound(t)), t, Intended(op, n, m), exact)
<1> DEFINE v == Intended(op, n, m)
           x == Num(s, n)
           y == Num(u, m)
           over == overflow(op, x, y, Bound(t))
<1>1. PICK q, p : /\ Bound(t) = [min |-> Num(q, t.min), max |-> Num(p, t.max)]
                  /\ BoundsOf(q, p, t.min, t.max)
  BY VariableBounds
<1>2. Bound(t).min = Num(q, t.min) /\ Bound(t).max = Num(p, t.max)
  BY <1>1
<1>3. c \in Wide
  BY CommonTypes DEF Operand
<1>4. Reports(over, c, t.min, t.max, v)
  <2>1. CASE op = "+"
    <3>1. over = _GL_INT_ADD_RANGE_OVERFLOW(x, y, Num(q, t.min), Num(p, t.max)) /\ v = n + m
      BY <1>2, <2>1 DEF overflow, Intended
    <3>2. Reports(_GL_INT_ADD_RANGE_OVERFLOW(x, y, Num(q, t.min), Num(p, t.max)),
                  c, t.min, t.max, n + m)
      BY <1>1, AddReports
    <3> QED
      BY <3>1, <3>2
  <2>2. ASSUME NEW w, v = w, Tells(over, t.min, t.max, w)
        PROVE  Reports(over, c, t.min, t.max, v)
    <3> HIDE DEF over, v
    <3> QED
      BY <2>2, Logic DEF Reports, Tells
  <2>3. CASE op = "-"
    <3>1. over = _GL_INT_SUBTRACT_RANGE_OVERFLOW(x, y, Num(q, t.min), Num(p, t.max)) /\ v = n - m
      BY <1>2, <2>3 DEF overflow, Intended
    <3>2. Tells(_GL_INT_SUBTRACT_RANGE_OVERFLOW(x, y, Num(q, t.min), Num(p, t.max)),
                t.min, t.max, n - m)
      BY <1>1, SubtractTells
    <3> QED
      BY <2>2, <3>1, <3>2
  <2>4. CASE op = "*"
    <3>1. over = _GL_INT_MULTIPLY_RANGE_OVERFLOW(x, y, Num(q, t.min), Num(p, t.max)) /\ v = n * m
      BY <1>2, <2>4 DEF overflow, Intended
    <3>2. Tells(_GL_INT_MULTIPLY_RANGE_OVERFLOW(x, y, Num(q, t.min), Num(p, t.max)),
                t.min, t.max, n * m)
      BY <1>1, MultiplyTells
    <3> QED
      BY <2>2, <3>1, <3>2
  <2> QED
    BY <2>1, <2>3, <2>4
<1>5. ~g => t.min = 0
  BY ArithmeticTypes
<1> HIDE DEF over, v
<1>6. exact => c.signed \/ t.min = 0 \/ c.max <= 2 * t.max + 1
  <2>1. c.signed \/ b >= c.bits => c.signed \/ t.min = 0 \/ c.max <= 2 * t.max + 1
    BY <1>3, WideEnough
  <2> QED
    BY <1>5, <2>1
<1>7. Told(over, t, v, exact)
  BY <1>4, <1>6 DEF Told, Reports, Fits
<1> QED
  BY <1>7 DEF over, v

\* The sign of a short variable, which is promoted to be compared.
LEMMA ShortSign ==
  ASSUME NEW b \in {ShortBits, IntBits, LongBits}, ~(b >= IntBits), NEW g \in BOOLEAN,
         NEW t, t = Type(b, g), NEW w \in Int, Fits(t, w)
  PROVE  /\ w < 0 => Less(Num(t, w), Lit(0)) = Yes /\ AtMost(Lit(0), Num(t, w)) = No
         /\ ~(w < 0) => Less(Num(t, w), Lit(0)) = No /\ AtMost(Lit(0), Num(t, w)) = Yes
<1> DEFINE r == Num(t, w)
<1>1. /\ TypeFacts(t) /\ t.rank < int.rank /\ int.min <= t.min /\ t.max <= int.max
  BY Widths
<1>2. int \in Wide /\ TypeFacts(int) /\ Promoted(int) = int /\ Wrap(int, 0) = 0
  BY WideTypes, SmallFit
<1>3. Fits(int, w)
  BY <1>1, <1>2 DEF Fits, TypeFacts
<1>4. Wrap(int, w) = w
  BY <1>2, <1>3, Wraps
<1>5. Common(t, int) = int
  BY <1>1, <1>2 DEF Common
<1>6. r.t = t /\ r.v = w /\ r.ok = TRUE /\ Lit(0).t = int /\ Lit(0).v = 0 /\ Lit(0).ok = TRUE
  BY DEF Num, Value, Lit
<1> HIDE DEF r
<1>7. (r.ok /\ Lit(0).ok) = TRUE
  BY <1>6
<1>8. /\ w < 0 => Less(r, Lit(0)) = Yes
      /\ ~(w < 0) => Less(r, Lit(0)) = No
  BY <1>2, <1>4, <1>5, <1>6, <1>7 DEF Less, LessAs, Truth, Value, Num, Yes, No
<1>9. /\ w < 0 => AtMost(Lit(0), r) = No
      /\ ~(w < 0) => AtMost(Lit(0), r) = Yes
  BY <1>8, Inverted DEF AtMost
<1> QED
  BY <1>8, <1>9 DEF r

\* Whether a short variable is too small, if it is not known to be signed: both
\* tests, and the sign of what was stored if only one of the two is positive.
EitherWay(signed, unsigned, r) ==
  If(signed, If(unsigned, Lit(1), Less(r, Lit(0))), If(unsigned, AtMost(Lit(0), r), Lit(0)))

\* The sign decides between the two tests as the variable's type would have.
LEMMA EitherTold ==
  ASSUME NEW b \in {ShortBits, IntBits, LongBits}, ~(b >= IntBits), NEW g \in BOOLEAN,
         NEW t, t = Type(b, g), NEW v \in Int, NEW exact \in BOOLEAN,
         NEW signed, Told(signed, Type(b, TRUE), v, exact),
         NEW unsigned, Told(unsigned, Type(b, FALSE), v, TRUE)
  PROVE  Told(EitherWay(signed, unsigned, Num(t, Wrap(t, v))), t, v, exact)
<1> DEFINE H == 2 ^ (b - 1)
           w == Wrap(t, v)
           r == Num(t, w)
           below == Less(r, Lit(0))
           above == AtMost(Lit(0), r)
           yes == If(unsigned, Lit(1), below)
           no == If(unsigned, above, Lit(0))
           over == EitherWay(signed, unsigned, r)
<1>1. over = If(signed, yes, no)
  BY DEF EitherWay
<1>2. /\ TypeFacts(t) /\ t.size = 2 ^ b
      /\ g => t.min = -H /\ t.max = H - 1
      /\ ~g => t.min = 0 /\ t.max = 2 ^ b - 1
      /\ Type(b, TRUE).min = -H /\ Type(b, TRUE).max = H - 1
      /\ Type(b, FALSE).min = 0 /\ Type(b, FALSE).max = 2 ^ b - 1
  BY ArithmeticTypes
<1>3. 2 ^ b = 2 * H /\ H \in Nat \ {0}
  <2>1. b \in 1..LongBits /\ b - 1 \in 0..LongBits
    BY WidthAssumption
  <2> QED
    BY <2>1, PowerAssumption, PowersPositive
<1>4. /\ w \in Int /\ Fits(t, w)
      /\ Fits(t, v) => w = v
      /\ t.min - t.size <= v /\ v < t.min => w = v + t.size
      /\ t.max < v /\ v <= t.max + t.size => w = v - t.size
  BY <1>2, Wraps
<1> HIDE DEF w
<1>5. /\ w < 0 => below = Yes /\ above = No
      /\ ~(w < 0) => below = No /\ above = Yes
  BY <1>4, ShortSign
<1> HIDE DEF H
<1>6. /\ signed \in {Yes, No} /\ unsigned \in {Yes, No}
      /\ signed = No => -H <= v /\ v <= H - 1
      /\ exact /\ -H <= v /\ v <= H - 1 => signed = No
      /\ unsigned = No <=> 0 <= v /\ v <= 2 * H - 1
  BY <1>2, <1>3 DEF Told, Fits
<1>7. /\ g => (Fits(t, v) <=> -H <= v /\ v <= H - 1)
      /\ ~g => (Fits(t, v) <=> 0 <= v /\ v <= 2 * H - 1)
  BY <1>2, <1>3 DEF Fits
<1>8. /\ g => t.min = -H /\ t.max = H - 1
      /\ ~g => t.min = 0 /\ t.max = 2 * H - 1
      /\ t.size = 2 * H
  BY <1>2, <1>3
<1>9. Yes # No /\ Lit(1) = Yes /\ Lit(0) = No
  BY Answers, Literals
<1>10. TypeOf(below) = int /\ TypeOf(above) = int /\ TypeOf(Lit(1)) = int /\ TypeOf(Lit(0)) = int
  BY ConditionTypes, Literals, ValueTypes
<1>11. TypeOf(yes) = int /\ TypeOf(no) = int
  BY <1>10, ChoiceTypes
<1>12. below \in {Yes, No} /\ above \in {Yes, No}
  BY <1>5
<1> HIDE DEF r, below, above
<1>13. /\ signed = Yes /\ unsigned = Yes => over = Yes
       /\ signed = Yes /\ unsigned = No => over = below
       /\ signed = No /\ unsigned = Yes => over = above
       /\ signed = No /\ unsigned = No => over = No
  <2>1. /\ unsigned = Yes => yes = Yes /\ no = above
        /\ unsigned = No => yes = below /\ no = No
    BY <1>9, <1>10, <1>12, Logic
  <2> HIDE DEF yes, no, over
  <2>2. /\ signed = Yes /\ yes \in {Yes, No} => over = yes
        /\ signed = No /\ no \in {Yes, No} => over = no
    BY <1>1, <1>11, Logic
  <2> QED
    BY <1>12, <2>1, <2>2
<1> HIDE DEF over, yes, no
<1>14. CASE signed = Yes /\ unsigned = Yes
  <2>1. over = Yes /\ ~(exact /\ Fits(t, v))
    BY <1>6, <1>7, <1>9, <1>13, <1>14
  <2>2. Told(over, t, v, exact)
    BY <1>9, <2>1 DEF Told
  <2> QED
    BY <2>2 DEF over, r, w
<1>15. CASE signed = No /\ unsigned = No
  <2>1. over = No /\ Fits(t, v)
    BY <1>3, <1>6, <1>7, <1>9, <1>13, <1>15
  <2>2. Told(over, t, v, exact)
    BY <1>9, <2>1 DEF Told
  <2> QED
    BY <2>2 DEF over, r, w
<1>16. CASE signed = Yes /\ unsigned = No
  <2>1. over = below /\ 0 <= v /\ v <= 2 * H - 1
    BY <1>6, <1>13, <1>16
  <2>2. w < 0 <=> ~Fits(t, v)
    <3>1. CASE ~g
      BY <1>4, <1>7, <2>1, <3>1
    <3>2. CASE g
      <4>1. Fits(t, v) <=> -H <= v /\ v <= H - 1
        BY <1>7, <3>2
      <4>2. t.min = -H /\ t.max = H - 1 /\ t.size = 2 * H
        BY <1>8, <3>2
      <4>3. H \in Nat /\ H > 0 /\ -H <= v
        BY <1>3, <2>1
      <4>4. CASE v <= H - 1
        BY <1>4, <2>1, <4>1, <4>3, <4>4
      <4>5. CASE ~(v <= H - 1)
        <5>1. t.max < v /\ v <= t.max + t.size
          BY <2>1, <4>2, <4>3, <4>5
        <5>2. w = v - 2 * H
          BY <1>4, <4>2, <5>1
        <5> QED
          BY <2>1, <4>1, <4>3, <4>5, <5>2
      <4> QED
        BY <4>4, <4>5
    <3> QED
      BY <3>1, <3>2
  <2>3. Told(over, t, v, exact)
    BY <1>5, <1>9, <2>1, <2>2 DEF Told
  <2> QED
    BY <2>3 DEF over, r, w
<1>17. CASE signed = No /\ unsigned = Yes
  <2>1. over = above /\ -H <= v /\ v < 0
    BY <1>3, <1>6, <1>9, <1>13, <1>17
  <2>2. w < 0 <=> Fits(t, v)
    <3>1. CASE ~g
      BY <1>3, <1>4, <1>7, <1>8, <2>1, <3>1
    <3>2. CASE g
      <4>1. Fits(t, v) <=> -H <= v /\ v <= H - 1
        BY <1>7, <3>2
      <4>2. H \in Nat
        BY <1>3
      <4>3. v <= H - 1
        BY <2>1, <4>2
      <4> QED
        BY <1>4, <2>1, <4>1, <4>3
    <3> QED
      BY <3>1, <3>2
  <2>3. Told(over, t, v, exact)
    BY <1>5, <1>9, <2>1, <2>2 DEF Told
  <2> QED
    BY <2>3 DEF over, r, w
<1> QED
  BY <1>6, <1>14, <1>15, <1>16, <1>17

\* What INT_<op>_WRAPV gives: its report and the low-order bits.
WrapvIs(res, t, v, exact) ==
  Told(res.over, t, v, exact) /\ res.r = Num(t, Wrap(t, v))

\* A variable whose type is known, or which is not short.
LEMMA CalcStored ==
  ASSUME NEW s, NEW u, NEW n, NEW m, Operand(s, n), Operand(u, m), NEW c, c = Common(s, u),
         NEW b \in {ShortBits, IntBits, LongBits}, NEW g \in BOOLEAN, NEW t, t = Type(b, g),
         NEW op \in {"+", "-", "*"}, NEW exact \in BOOLEAN, exact => c.signed \/ b >= c.bits
  PROVE  WrapvIs(_GL_INT_OP_CALC(Num(s, n), Num(u, m), t, op), t, Intended(op, n, m), exact)
<1> DEFINE res == _GL_INT_OP_CALC(Num(s, n), Num(u, m), t, op)
           v == Intended(op, n, m)
<1>1. /\ res.over = overflow(op, Num(s, n), Num(u, m), Bound(t))
      /\ res.r = _GL_INT_OP_WRAPV_VIA_UNSIGNED(Num(s, n), Num(u, m), op, Unsigned(t), t)
  BY DEF _GL_INT_OP_CALC
<1>2. Told(overflow(op, Num(s, n), Num(u, m), Bound(t)), t, Intended(op, n, m), exact)
  BY OverflowTold
<1>3. n \in Int /\ m \in Int
  BY DEF Operand
<1>4. _GL_INT_OP_WRAPV_VIA_UNSIGNED(Num(s, n), Num(u, m), op, Unsigned(t), t)
        = Num(t, Wrap(t, v))
  <2>1. v = Intended(op, n, m)
    OBVIOUS
  <2> HIDE DEF v
  <2>2. t \in Arithmetic
    BY DEF Arithmetic
  <2> QED
    BY <1>3, <2>1, <2>2, LowOrderBits
<1> QED
  BY <1>1, <1>2, <1>4 DEF WrapvIs

\* A short variable of a type that is not known.
LEMMA SmallishStored ==
  ASSUME NEW s, NEW u, NEW n, NEW m, Operand(s, n), Operand(u, m), NEW c, c = Common(s, u),
         NEW b \in {ShortBits, IntBits, LongBits}, ~(b >= IntBits), NEW g \in BOOLEAN,
         NEW t, t = Type(b, g), NEW op \in {"+", "-", "*"},
         NEW exact \in BOOLEAN, exact => c.signed \/ b >= c.bits
  PROVE  WrapvIs(_GL_INT_OP_WRAPV_SMALLISH(Num(s, n), Num(u, m), t, op), t, Intended(op, n, m),
                exact)
<1> DEFINE x == Num(s, n)
           y == Num(u, m)
           v == Intended(op, n, m)
           st == Type(b, TRUE)
           ut == Type(b, FALSE)
           signed == overflow(op, x, y, Bound(st))
           unsigned == overflow(op, x, y, Bound(ut))
           r == Cast(t, _GL_INT_OP_WRAPV_VIA_UNSIGNED(x, y, op, Unsigned(t), st))
           res == _GL_INT_OP_WRAPV_SMALLISH(x, y, t, op)
<1>1. /\ t.bits = b /\ TypeFacts(t) /\ TypeFacts(st) /\ t.size = 2 ^ b /\ st.size = 2 ^ b
      /\ Promoted(t) = int /\ Promoted(st) = int
  <2> DEFINE h == TRUE
  <2>1. h \in BOOLEAN /\ st = Type(b, h)
    OBVIOUS
  <2> HIDE DEF h, st
  <2>2. /\ t.bits = b /\ TypeFacts(t) /\ Promoted(t) = int
        /\ TypeFacts(st) /\ Promoted(st) = int
    BY <2>1, Widths
  <2>3. t.size = 2 ^ b /\ st.size = 2 ^ b
    BY <2>1, ArithmeticTypes
  <2> QED
    BY <2>2, <2>3
<1>2. res.r = r /\ res.over = EitherWay(signed, unsigned, r)
  <2> DEFINE over == [sign \in BOOLEAN |-> overflow(op, x, y, Bound(Type(t.bits, sign)))]
  <2>1. over[TRUE] = signed /\ over[FALSE] = unsigned
    BY <1>1
  <2> HIDE DEF over, signed, unsigned, r
  <2>2. res = [r |-> r, over |-> If(over[TRUE], If(over[FALSE], Lit(1), Less(r, Lit(0))),
                                    If(over[FALSE], AtMost(Lit(0), r), Lit(0)))]
    BY <1>1 DEF _GL_INT_OP_WRAPV_SMALLISH, over, r
  <2> HIDE DEF res
  <2> QED
    BY <2>1, <2>2 DEF EitherWay
<1>3. n \in Int /\ m \in Int
  BY DEF Operand
<1>4. v \in Int /\ _GL_INT_OP_WRAPV_VIA_UNSIGNED(x, y, op, Unsigned(st), st) = Num(st, Wrap(st, v))
  <2>1. v = Intended(op, n, m)
    OBVIOUS
  <2>2. \E d \in {ShortBits, IntBits, LongBits}, h \in BOOLEAN : st = Type(d, h)
    OBVIOUS
  <2> HIDE DEF st, v
  <2>3. v \in Int
    BY <1>3, <2>1 DEF Intended
  <2>4. _GL_INT_OP_WRAPV_VIA_UNSIGNED(Num(s, n), Num(u, m), op, Unsigned(st), st)
          = Num(st, Wrap(st, v))
    <3>1. st \in Arithmetic
      BY <2>2 DEF Arithmetic
    <3> QED
      BY <2>1, <3>1, LowOrderBits
  <2> QED
    BY <2>3, <2>4
<1>5. Unsigned(t) = Unsigned(st)
  BY <1>1 DEF Unsigned
<1>6. /\ Told(signed, st, v, exact)
      /\ Told(unsigned, ut, v, TRUE)
  <2>1. Told(signed, st, v, exact)
    <3> DEFINE h == TRUE
    <3>1. h \in BOOLEAN
      OBVIOUS
    <3> HIDE DEF h
    <3>2. Told(overflow(op, x, y, Bound(Type(b, h))), Type(b, h), v, exact)
      BY <3>1, OverflowTold
    <3> QED
      BY <3>2 DEF h
  <2>2. Told(unsigned, ut, v, TRUE)
    <3> DEFINE f == FALSE
               e == TRUE
    <3>1. e \in BOOLEAN /\ f \in BOOLEAN /\ ~f
      OBVIOUS
    <3> HIDE DEF f, e
    <3>2. Told(overflow(op, x, y, Bound(Type(b, f))), Type(b, f), v, e)
      BY <3>1, OverflowTold
    <3> QED
      BY <3>2 DEF f, e
  <2> QED
    BY <2>1, <2>2
<1> HIDE DEF v, st, signed, unsigned, res
<1>8. r = Num(t, Wrap(t, v))
  <2>1. r = Num(t, Wrap(t, Wrap(st, v)))
    <3>1. r = Cast(t, Num(st, Wrap(st, v)))
      BY <1>4, <1>5 DEF r
    <3>2. \A w : Cast(t, Num(st, w)) = Num(t, Wrap(t, w))
      BY Answers DEF Cast, Num
    <3> HIDE DEF r
    <3> QED
      BY <3>1, <3>2
  <2>2. Wrap(st, v) \in Int /\ Congruent(t.size, Wrap(st, v), v)
    BY <1>1, <1>4, Wraps, WrapCongruent
  <2>3. Wrap(t, Wrap(st, v)) = Wrap(t, v)
    BY <1>1, <1>4, <2>2, WrapSame
  <2> QED
    BY <2>1, <2>3
<1> HIDE DEF r
<1>9. Told(EitherWay(signed, unsigned, Num(t, Wrap(t, v))), t, v, exact)
  BY <1>4, <1>6, EitherTold DEF st, ut
<1>10. WrapvIs(res, t, v, exact)
  BY <1>2, <1>8, <1>9 DEF WrapvIs
<1> QED
  BY <1>10 DEF res, x, y, v

\* Which is what OverflowExact asks of it.
LEMMA StoredTruthful ==
  ASSUME NEW c, NEW v \in Int, NEW common, NEW res, c.macro \in DOMAIN WrapvOp,
         TypeFacts(c.tr), NEW exact \in BOOLEAN,
         common.signed \/ c.tr.bits >= common.bits => exact, WrapvIs(res, c.tr, v, exact)
  PROVE  Truthful(c, v, common, res)
<1>1. c.macro \notin {"/", "%"} /\ c.macro # "%"
  BY Answers DEF OverflowMacros
<1>2. /\ res.over \in {Yes, No} /\ (res.over = No => Fits(c.tr, v))
      /\ (common.signed \/ c.tr.bits >= common.bits) /\ Fits(c.tr, v) => res.over = No
      /\ res.r = Num(c.tr, Wrap(c.tr, v))
  BY DEF WrapvIs, Told
<1>3. res.over.ok /\ (Zero(res.over) <=> res.over = No)
  BY <1>2, Answers
<1>4. Fits(c.tr, v) => Wrap(c.tr, v) = v
  BY Wraps
<1>5. res.r.ok /\ res.r.v = Wrap(c.tr, v) /\ res.r = Value(c.tr, Wrap(c.tr, v), TRUE)
  <2> DEFINE w == Wrap(c.tr, v)
  <2>1. res.r = Num(c.tr, w)
    BY <1>2
  <2> HIDE DEF w
  <2>2. res.r.ok = TRUE /\ res.r.v = w
    BY <2>1, Answers
  <2>3. res.r = Value(c.tr, w, TRUE)
    BY <2>1 DEF Num
  <2> QED
    BY <2>2, <2>3 DEF w
<1> QED
  BY <1>1, <1>2, <1>3, <1>4, <1>5 DEF Truthful

\* One use of any of the macros INT_<op>_WRAPV tells the truth.
LEMMA WrapvTruthful ==
  ASSUME IpInv, ipCall.macro \in DOMAIN WrapvOp
  PROVE  OverflowExact
<1> DEFINE x == ipCall.a
           y == ipCall.b
           s == x.t
           u == y.t
           n == x.v
           m == y.v
           c == Common(s, u)
           t == ipCall.tr
           op == WrapvOp[ipCall.macro]
           v == Intended(op, n, m)
           res == Result(ipCall)
<1>1. x \in Operands /\ y \in Operands /\ t \in Arithmetic
  BY DEF IpInv, IpCalls
<1>2. x = Num(s, n) /\ Operand(s, n) /\ y = Num(u, m) /\ Operand(u, m)
  BY <1>1, OperandIs
<1>3. op \in {"+", "-", "*"}
  BY DEF WrapvOp
<1>4. v = Exact(ipCall.macro, n, m)
  <2>1. ipCall.macro \in {"ADD_WRAPV", "SUBTRACT_WRAPV", "MULTIPLY_WRAPV"}
    BY DEF WrapvOp
  <2>2. CASE ipCall.macro = "ADD_WRAPV"
    BY <2>2 DEF WrapvOp, Intended, Exact
  <2>3. CASE ipCall.macro = "SUBTRACT_WRAPV"
    BY <2>3 DEF WrapvOp, Intended, Exact
  <2>4. CASE ipCall.macro = "MULTIPLY_WRAPV"
    BY <2>4 DEF WrapvOp, Intended, Exact
  <2> QED
    BY <2>1, <2>2, <2>3, <2>4
<1>5. res = _GL_INT_OP_WRAPV(x, y, t, ipCall.typeof, op)
  <2>1. ipCall.macro \notin {"+", "-", "*", "/", "%", "<<", "0 -"}
    BY Answers DEF OverflowMacros
  <2> QED
    BY <2>1 DEF Result
<1>6. PICK b \in {ShortBits, IntBits, LongBits}, g \in BOOLEAN : t = Type(b, g)
  BY <1>1 DEF Arithmetic
<1>7. t.bits = b /\ TypeFacts(t)
  BY <1>6, ArithmeticTypes
<1> HIDE DEF x, y, s, u, n, m, c, t, op
<1>8. v \in Int
  BY <1>2, <1>3 DEF Operand, Intended
<1> DEFINE exact == IF c.signed \/ b >= c.bits THEN TRUE ELSE FALSE
<1>9. exact \in BOOLEAN /\ (exact <=> c.signed \/ b >= c.bits)
  OBVIOUS
<1> HIDE DEF exact
<1>10. WrapvIs(res, t, v, exact)
  <2>1. CASE t.bits < IntBits /\ ~ipCall.typeof
    <3>1. res = _GL_INT_OP_WRAPV_SMALLISH(x, y, t, op)
      BY <1>5, <2>1 DEF _GL_INT_OP_WRAPV
    <3>2. ~(b >= IntBits)
      BY <1>7, <2>1, WidthAssumption
    <3> QED
      BY <1>2, <1>3, <1>6, <1>9, <3>1, <3>2, SmallishStored DEF c
  <2>2. CASE ~(t.bits < IntBits /\ ~ipCall.typeof)
    <3>1. res = _GL_INT_OP_CALC(x, y, t, op)
      BY <1>5, <2>2 DEF _GL_INT_OP_WRAPV
    <3> QED
      BY <1>2, <1>3, <1>6, <1>9, <3>1, CalcStored DEF c
  <2> QED
    BY <2>1, <2>2
<1> HIDE DEF v, res
<1>11. Truthful(ipCall, v, c, res)
  BY <1>7, <1>8, <1>9, <1>10, StoredTruthful DEF t
<1> QED
  BY <1>4, <1>11 DEF OverflowExact, x, y, s, u, n, m, c, res

\* OverflowExact: no macro relies on undefined behaviour, INT_<op>_OVERFLOW says
\* whether the value of the expression is the mathematical one, and INT_<op>_WRAPV
\* stores the low-order bits and says whether they are the value; for operands
\* and variables of any types of any widths.
THEOREM OverflowIsExact == IpSpec => []OverflowExact
<1>1. IpInv => OverflowExact
  <2>1. SUFFICES ASSUME IpInv PROVE OverflowExact
    OBVIOUS
  <2>2. ipCall.macro \in {"none"} \cup DOMAIN WrapvOp \cup OverflowMacros
    <3>1. ipCall \in IpCalls
      BY <2>1 DEF IpInv
    <3> QED
      BY <3>1 DEF IpCalls
  <2>3. ipCall.macro = "none" => OverflowExact
    BY DEF OverflowExact
  <2> QED
    BY <2>1, <2>2, <2>3, UseTruthful, WrapvTruthful
<1> QED
  BY <1>1, IpInit0, IpStep, PTL DEF IpSpec

=============================================================================
