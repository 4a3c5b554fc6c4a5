------------------------------- MODULE MtpMq -------------------------------
(***************************************************************************)
(* Creating and destroying the two message queues of the MTP responder     *)
(* (mtp-responder/mtp_usb_driver_nuttx.c, ffs_transport_mq_init and        *)
(* ffs_transport_mq_deinit), with the identifiers they leave in the        *)
(* responder's variables, in a system where others have queues as well.    *)
(***************************************************************************)
EXTENDS Integers

CONSTANTS
  MsgqId,       \* bound: the identifiers the system hands out
  DeinitFails   \* destroying an existing queue may fail

ASSUME MqAssumption == MsgqId \subseteq Nat \ {0} /\ DeinitFails \in BOOLEAN

VARIABLES
  mine,      \* existing queues created by mq_init
  others,    \* existing queues of other programs
  rx, tx,    \* *rx_mqid and *tx_mqid: an identifier, 0 or -1
  mqAt,      \* the routine in progress and where it is
  mqRes,     \* its local res, and what the latest one returned
  mqStolen   \* history: a queue of another program was destroyed

mqVars == <<mine, others, rx, tx, mqAt, mqRes, mqStolen>>

MqInit ==
  /\ mine = {}
  /\ others = {}
  /\ rx = 0
  /\ tx = 0
  /\ mqAt = "closed"
  /\ mqRes = TRUE
  /\ mqStolen = FALSE

FreeId == MsgqId \ (mine \cup others)

-----------------------------------------------------------------------------
(* ffs_transport_mq_init                                                   *)

CallInit ==
  /\ mqAt \in {"closed", "init_failed"}
  /\ mqAt' = "init_rx"
  /\ UNCHANGED <<mine, others, rx, tx, mqRes, mqStolen>>

InitRx ==
  /\ mqAt = "init_rx"
  /\ \E i \in FreeId : rx' = i /\ mine' = mine \cup {i}
  /\ mqAt' = "init_tx"
  /\ UNCHANGED <<others, tx, mqRes, mqStolen>>

\* A failing _util_msgq_init leaves the variable alone or sets it to -1.
InitRxFails ==
  /\ mqAt = "init_rx"
  /\ rx' \in {rx, -1}
  /\ mqRes' = FALSE
  /\ mqAt' = "init_failed"
  /\ UNCHANGED <<mine, others, tx, mqStolen>>

InitTx ==
  /\ mqAt = "init_tx"
  /\ \E i \in FreeId : tx' = i /\ mine' = mine \cup {i}
  /\ mqRes' = TRUE
  /\ mqAt' = "open"
  /\ UNCHANGED <<others, rx, mqStolen>>

InitTxKeepsRx ==             \* fault: the receive queue is not destroyed
  /\ mqAt = "init_tx"
  /\ tx' \in {tx, -1}
  /\ rx' = -1
  /\ mqRes' = FALSE
  /\ mqAt' = "init_failed"
  /\ UNCHANGED <<mine, others, mqStolen>>

\* The receive queue is destroyed again, which may fail unnoticed.
InitTxFails ==
  /\ mqAt = "init_tx"
  /\ tx' \in {tx, -1}
  /\ mine' \in {mine \ {rx}} \cup (IF DeinitFails THEN {mine} ELSE {})
  /\ rx' = -1
  /\ mqRes' = FALSE
  /\ mqAt' = "init_failed"
  /\ UNCHANGED <<others, mqStolen>>

-----------------------------------------------------------------------------
(* ffs_transport_mq_deinit, called with the queues open or after a failed    *)
(* init.                                                                   *)

CallDeinit ==
  /\ mqAt \in {"open", "init_failed"}
  /\ mqAt' = "deinit_rx"
  /\ mqRes' = TRUE
  /\ UNCHANGED <<mine, others, rx, tx, mqStolen>>

\* _util_msgq_deinit(id) succeeds...
Destroyed(id) ==
  /\ id \in mine \cup others
  /\ mine' = mine \ {id}
  /\ others' = others \ {id}
  /\ mqStolen' = (mqStolen \/ id \in others)

\* ...or fails, always so when there is no such queue.
NotDestroyed(id) ==
  /\ id \notin mine \cup others \/ DeinitFails
  /\ UNCHANGED <<mine, others, mqStolen>>

DeinitRxKeepsId ==           \* fault: the identifier is not reset
  /\ mqAt = "deinit_rx"
  /\ \/ rx = 0 /\ UNCHANGED <<mine, others, mqRes, mqStolen>>
     \/ rx # 0 /\ Destroyed(rx) /\ mqRes' = TRUE
     \/ rx # 0 /\ NotDestroyed(rx) /\ mqRes' = FALSE
  /\ mqAt' = "deinit_tx"
  /\ UNCHANGED <<rx, tx>>

DeinitRx ==
  /\ mqAt = "deinit_rx"
  /\ \/ rx = 0 /\ UNCHANGED <<mine, others, rx, mqRes, mqStolen>>
     \/ rx # 0 /\ Destroyed(rx) /\ rx' = 0 /\ mqRes' = TRUE
     \/ rx # 0 /\ NotDestroyed(rx) /\ mqRes' = FALSE /\ UNCHANGED rx
  /\ mqAt' = "deinit_tx"
  /\ UNCHANGED tx

\* mqRes is overwritten by the result for the transmit queue.
DeinitTx ==
  /\ mqAt = "deinit_tx"
  /\ \/ tx = 0 /\ UNCHANGED <<mine, others, tx, mqRes, mqStolen>>
     \/ tx # 0 /\ Destroyed(tx) /\ tx' = 0 /\ mqRes' = TRUE
     \/ tx # 0 /\ NotDestroyed(tx) /\ mqRes' = FALSE /\ UNCHANGED tx
  /\ mqAt' = "closed"
  /\ UNCHANGED rx

-----------------------------------------------------------------------------
(* Other programs create and destroy queues.                               *)

OtherCreates ==
  /\ \E i \in FreeId : others' = others \cup {i}
  /\ UNCHANGED <<mine, rx, tx, mqAt, mqRes, mqStolen>>

OtherDestroys ==
  /\ \E i \in others : others' = others \ {i}
  /\ UNCHANGED <<mine, rx, tx, mqAt, mqRes, mqStolen>>

MqNext ==
  \/ CallInit \/ InitRx \/ InitRxFails \/ InitTx \/ InitTxFails
  \/ CallDeinit \/ DeinitRx \/ DeinitTx
  \/ OtherCreates \/ OtherDestroys

MqSpec == MqInit /\ [][MqNext]_mqVars

-----------------------------------------------------------------------------
(* Properties                                                              *)

\* Every variable has its type.
MqTypeOK ==
  /\ mine \subseteq MsgqId /\ others \subseteq MsgqId /\ mine \cap others = {}
  /\ rx \in MsgqId \cup {0, -1} /\ tx \in MsgqId \cup {0, -1}
  /\ mqAt \in {"closed", "init_rx", "init_tx", "open", "init_failed",
             "deinit_rx", "deinit_tx"}
  /\ mqRes \in BOOLEAN /\ mqStolen \in BOOLEAN

\* If destroying an existing queue does not fail, no queue is left over: none
\* after a deinit or a failed init, both when open, where the variables name
\* them.  No queue of another program is destroyed, though identifiers are
\* used again and an old one may be passed to _util_msgq_deinit.
QueuesOwned ==
  /\ mqAt \in {"closed", "init_failed", "init_rx"} => mine = {}
  /\ mqAt = "open" => rx # tx /\ mine = {rx, tx}
  /\ ~mqStolen
=============================================================================
