--------------------------- MODULE EcEtherDevice ---------------------------
(***************************************************************************)
(* The network device of the EtherCAT master (ethercat/nuttx/ethercat.c):  *)
(* ether_device_open, which makes a raw socket on the interface, one       *)
(* socket call at a time, and ether_device_stop.  Every call may fail;     *)
(* which results the code looks at is part of the model.  What             *)
(* start_xmit and poll move through the socket changes no state here.      *)
(***************************************************************************)
EXTENDS Integers

CONSTANT
  MaxOpen       \* bound: how often the device is opened

ASSUME EtherAssumption == MaxOpen \in Nat

VARIABLES
  at,           \* where ether_device_open is
  sock,         \* g_ether_device.dev.sock: 0, or the socket made by that open
  live,         \* sockets created and not closed
  opens,        \* calls of ether_device_open so far
  ifr,          \* the flags in the local ifr
  flags,        \* the flags of the interface
  opened,       \* what the latest open returned, 0 or a negated errno
  link,         \* the link state told to the master
  attached,     \* sockets bound to the interface
  bindRet,      \* what the latest psock_bind returned, 0 before the first
  succeeded     \* history: opens that returned 0

bindVars == <<attached, bindRet, succeeded>>
etherVars == <<at, sock, live, opens, ifr, flags, opened, link, bindVars>>

EPERM == -1                  \* psock_bind's -EPERM
Error == -2                  \* any other negated errno

EtherInit ==
  /\ at = "closed"
  /\ sock = 0
  /\ live = {}
  /\ opens = 0
  /\ ifr = {}
  /\ flags = {}
  /\ opened = 0
  /\ link = 0
  /\ attached = {}
  /\ bindRet = 0
  /\ succeeded = {}

-----------------------------------------------------------------------------
(* ether_device_open                                                       *)

CallOpen ==
  /\ at \in {"closed", "open"}
  /\ opens < MaxOpen
  /\ opens' = opens + 1
  /\ at' = "socket"
  /\ UNCHANGED <<sock, live, ifr, flags, opened, link, bindVars>>

Socket ==
  /\ at = "socket"
  /\ sock' = opens
  /\ live' = live \cup {opens}
  /\ at' = "index"
  /\ UNCHANGED <<opens, ifr, flags, opened, link, bindVars>>

SocketFails ==
  /\ at = "socket"
  /\ opened' = Error
  /\ at' = "closed"
  /\ UNCHANGED <<sock, live, opens, ifr, flags, link, bindVars>>

\* psock_ioctl(SIOCGIFINDEX), its result unchecked; ifr.ifr_flags = 0
GetIndex ==
  /\ at = "index"
  /\ ifr' = {}
  /\ at' = "flags"
  /\ UNCHANGED <<sock, live, opens, flags, opened, link, bindVars>>

\* psock_ioctl(SIOCGIFFLAGS), which may fail
GetFlags ==
  /\ at = "flags"
  /\ ifr' \in {ifr, flags}
  /\ at' = "broadcast"
  /\ UNCHANGED <<sock, live, opens, flags, opened, link, bindVars>>

\* ifr.ifr_flags |= IFF_BROADCAST, and SIOCGIFFLAGS again
GetFlagsAgain ==
  /\ at = "broadcast"
  /\ ifr' \in {ifr \cup {"broadcast"}, flags}
  /\ at' = "bind"
  /\ UNCHANGED <<sock, live, opens, flags, opened, link, bindVars>>

BindFailsLeaks(r) ==         \* fault: the socket is not closed
  /\ at = "bind"
  /\ r < -1
  /\ opened' = r
  /\ bindRet' = r
  /\ at' = "closed"
  /\ UNCHANGED <<sock, live, opens, ifr, flags, link, attached, succeeded>>

\* psock_bind failed and the code noticed
BindFails(r) ==
  /\ at = "bind"
  /\ r < -1
  /\ live' = live \ {sock}
  /\ opened' = r
  /\ bindRet' = r
  /\ at' = "closed"
  /\ UNCHANGED <<sock, opens, ifr, flags, link, attached, succeeded>>

\* psock_bind succeeded, or it failed with -EPERM, which is -1: the test is
\* ret < -1, so the open reports success on a socket that is not bound.
BindGoesOn(r) ==
  /\ at = "bind"
  /\ r >= -1
  /\ attached' = IF r = 0 THEN attached \cup {sock} ELSE attached
  /\ bindRet' = r
  /\ succeeded' = succeeded \cup {opens}
  /\ link' = 1
  /\ opened' = 0
  /\ at' = "open"
  /\ UNCHANGED <<sock, live, opens, ifr, flags>>

Bind == \E r \in {0, EPERM, Error} : BindFails(r) \/ BindGoesOn(r)

-----------------------------------------------------------------------------
\* ether_device_stop: return 0.  The socket is not closed.
Stop ==
  /\ at = "open"
  /\ at' = "closed"
  /\ UNCHANGED <<sock, live, opens, ifr, flags, opened, link, bindVars>>

OpenStep == Socket \/ SocketFails \/ GetIndex \/ GetFlags \/ GetFlagsAgain \/ Bind
=============================================================================
