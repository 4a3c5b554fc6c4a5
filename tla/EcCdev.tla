------------------------------- MODULE EcCdev -------------------------------
(***************************************************************************)
(* The character device /dev/EtherCAT (ethercat/nuttx/ec_cdev.c): open     *)
(* files with a private context each, the reservation of the master that   *)
(* an ioctl (external) takes for a file, and registering and removing the  *)
(* device.  Registering it goes on to open the network device, one socket  *)
(* call at a time, while programs may already use the character device;    *)
(* files outlive the device's name, and closing one later still reaches    *)
(* the master through its context.                                         *)
(***************************************************************************)
EXTENDS EcEtherDevice, FiniteSets

CONSTANTS
  File,         \* open file descriptions of the system
  Block,        \* memory blocks for ec_cdev_priv_t
  Null

ASSUME CdevAssumption == Null \notin Block

VARIABLES
  registered,   \* /dev/EtherCAT exists
  master,       \* the master exists
  reserved,     \* it is reserved by ecrt_request_master
  priv,         \* filep->f_priv of each file, Null when it is not open
  used,         \* allocated blocks
  ctx,          \* the context in each block: writable and requested
  orphaned      \* history: the device was cleared while files were open

cdevVars == <<registered, master, reserved, priv, used, ctx, orphaned>>
vars == <<cdevVars, etherVars>>

Init ==
  /\ EtherInit
  /\ registered = FALSE
  /\ master = FALSE
  /\ reserved = FALSE
  /\ priv = [f \in File |-> Null]
  /\ used = {}
  /\ ctx = [b \in Block |-> [writable |-> FALSE, requested |-> FALSE]]
  /\ orphaned = FALSE

Opened == {f \in File : priv[f] # Null}

-----------------------------------------------------------------------------
\* ec_cdev_init: registers the driver, which may fail, and whether it did or
\* not calls ether_device_init, which opens the network device.
CdevInit ==
  /\ ~master
  /\ CallOpen
  /\ master' = TRUE
  /\ registered' \in BOOLEAN
  /\ reserved' = FALSE
  /\ UNCHANGED <<priv, used, ctx, orphaned>>

\* ec_cdev_clear, after which the caller frees the master.
CdevClear ==
  /\ master
  /\ at \in {"closed", "open"}
  /\ orphaned' = (orphaned \/ Opened # {})
  /\ master' = FALSE
  /\ registered' = FALSE
  /\ UNCHANGED <<reserved, priv, used, ctx, etherVars>>

\* The master opens and stops the network device once more.
Reopen ==
  /\ master
  /\ CallOpen
  /\ UNCHANGED cdevVars

Device == (OpenStep \/ Stop) /\ UNCHANGED cdevVars

OpenDirty(f) ==              \* fault: kmm_malloc for kmm_zalloc
  /\ registered
  /\ priv[f] = Null
  /\ \E b \in Block \ used, w \in BOOLEAN :
       /\ used' = used \cup {b}
       /\ ctx' = [ctx EXCEPT ![b].writable = w]
       /\ priv' = [priv EXCEPT ![f] = b]
  /\ UNCHANGED <<registered, master, reserved, orphaned, etherVars>>

\* ec_cdev_open.  When kmm_zalloc fails nothing changes.
Open(f) ==
  /\ registered
  /\ priv[f] = Null
  /\ \E b \in Block \ used, w \in BOOLEAN :
       /\ used' = used \cup {b}
       /\ ctx' = [ctx EXCEPT ![b] = [writable |-> w, requested |-> FALSE]]
       /\ priv' = [priv EXCEPT ![f] = b]
  /\ UNCHANGED <<registered, master, reserved, orphaned, etherVars>>

\* ec_cdev_ioctl: ec_ioctl reserves the master for a writable file.
Ioctl(f) ==
  /\ priv[f] # Null
  /\ master
  /\ ctx[priv[f]].writable /\ ~reserved
  /\ reserved' = TRUE
  /\ ctx' = [ctx EXCEPT ![priv[f]].requested = TRUE]
  /\ UNCHANGED <<registered, master, priv, used, orphaned, etherVars>>

\* ec_cdev_close.  (Through a freed master the release means nothing.)
Close(f) ==
  /\ priv[f] # Null
  /\ reserved' = (reserved /\ ~ctx[priv[f]].requested)
  /\ used' = used \ {priv[f]}
  /\ priv' = [priv EXCEPT ![f] = Null]
  /\ UNCHANGED <<registered, master, ctx, orphaned, etherVars>>

Next ==
  \/ CdevInit \/ CdevClear \/ Reopen \/ Device
  \/ \E f \in File : Open(f) \/ Ioctl(f) \/ Close(f)

Spec == Init /\ [][Next]_vars

-----------------------------------------------------------------------------
(* Properties                                                              *)

\* Every variable has its type, and every block in use is the context of one
\* open file.
TypeOK ==
  /\ registered \in BOOLEAN /\ master \in BOOLEAN /\ reserved \in BOOLEAN
  /\ priv \in [File -> Block \cup {Null}]
  /\ ctx \in [Block -> [writable : BOOLEAN, requested : BOOLEAN]]
  /\ used = {priv[f] : f \in Opened}
  /\ orphaned \in BOOLEAN
  /\ at \in {"closed", "socket", "index", "flags", "broadcast", "bind", "open"}
  /\ sock \in 0 .. opens /\ opens \in 0 .. MaxOpen
  /\ live \subseteq 1 .. opens
  /\ ifr \subseteq {"broadcast"} /\ flags \subseteq {"broadcast"}
  /\ opened \in {0, Error} /\ link \in {0, 1}
  /\ attached \subseteq live /\ bindRet \in {0, EPERM, Error}
  /\ succeeded \subseteq 1 .. opens

\* Unless the device was cleared under open files, the master is reserved
\* exactly when one open file has requested it, so closing that file, by
\* whatever program and in whatever order, releases it and closing any other
\* does not.
OneHolder ==
  master /\ ~orphaned =>
    Cardinality({f \in Opened : ctx[priv[f]].requested}) = IF reserved THEN 1 ELSE 0

\* However often the device was opened and stopped before, and whichever call
\* fails: an open device has the socket of its latest open, which is bound
\* unless psock_bind failed with -EPERM, the one failure the open takes for
\* success, and the master knows of the link.  An open that fails leaves no
\* socket behind; one that succeeds leaves one that no stop closes.
OpenAllOrNothing ==
  /\ at = "open" =>
       /\ sock = opens /\ sock \in live /\ link = 1
       /\ sock \in attached <=> bindRet # EPERM
  /\ at \in {"closed", "open"} => live = succeeded

\* ether_device_open sets the broadcast flag of the interface.
BroadcastSet == at = "open" => "broadcast" \in flags
=============================================================================
