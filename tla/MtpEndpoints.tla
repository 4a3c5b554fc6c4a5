---------------------------- MODULE MtpEndpoints ----------------------------
(***************************************************************************)
(* The three endpoint descriptors of the MTP USB driver and the routines   *)
(* that open and close them (mtp-responder/mtp_usb_driver_nuttx.c,         *)
(* __io_init, ffs_transport_init_usb_device and                            *)
(* ffs_transport_deinit_usb_device), one system call or assignment at a    *)
(* time, in the descriptor table of a task group in which others open and  *)
(* close files too.  sd_listen_fds() is 0 here (mtp_port.c), so the        *)
(* socket-activated branch of __io_init is never taken.                    *)
(*                                                                         *)
(* At most one thread runs these routines at a time: MtpTransport says     *)
(* which.                                                                  *)
(***************************************************************************)
EXTENDS Integers, FiniteSetsExt

CONSTANTS
  FirstFd,    \* the lowest descriptor the task group has free
  MaxOther    \* bound: files others hold open at a time

ASSUME EndpointsAssumption == FirstFd \in Nat /\ MaxOther \in Nat

FD == FirstFd .. (FirstFd + 3 + MaxOther)   \* one more than can be open at a time
Ep == <<"in", "out", "status">>            \* in the order of the code
EpName == {Ep[i] : i \in 1 .. 3}

VARIABLES
  fdt,        \* what each descriptor refers to: an endpoint, "other", "none"
  ep,         \* g_usb_ep_in, g_usb_ep_out, g_usb_ep_status
  routine,    \* the routine in progress
  k,          \* and the endpoint it is at
  result,     \* what the latest init returned
  intact,     \* history: a complete __io_init, and no deinit since
  ioFailed,   \* history: some __io_init failed
  strays,     \* history: the calls that reached a file not meant for them
  shared      \* history: another task has opened a file

epVars == <<fdt, ep, routine, k, result, intact, ioFailed, strays, shared>>

EpInit ==
  /\ fdt = [f \in FD |-> "none"]
  /\ ep = [e \in EpName |-> -1]
  /\ routine = "idle"
  /\ k = 1
  /\ result = FALSE
  /\ intact = FALSE
  /\ ioFailed = FALSE
  /\ strays = {}
  /\ shared = FALSE

\* The file a descriptor refers to.
File(f) == IF f \in FD THEN fdt[f] ELSE "none"

\* The files a call is meant for.
Own(op) == CASE op = "bulk" -> {"in"}
             [] op = "event" -> {"status"}
             [] op = "read" -> {"out"}
             [] op = "close" -> EpName

\* A call op on descriptor f reaches the file behind it, or fails with EBADF.
Reach(op, f) ==
  strays' = IF File(f) \in Own(op) \cup {"none"} THEN strays
            ELSE strays \cup {op}

CloseFd(f) ==
  /\ fdt' = IF f \in FD THEN [fdt EXCEPT ![f] = "none"] ELSE fdt
  /\ Reach("close", f)

Free == {f \in FD : fdt[f] = "none"}

Return(r) ==
  /\ routine' = "idle"
  /\ result' = r
  /\ k' = 1

-----------------------------------------------------------------------------
(* ffs_transport_deinit_usb_device                                         *)

DeinitSkipsFirst ==          \* fault: bulk-in is not closed
  /\ routine = "idle"
  /\ routine' = "close"
  /\ k' = 2
  /\ intact' = FALSE
  /\ ep' = [ep EXCEPT !["in"] = -1]
  /\ UNCHANGED <<fdt, result, ioFailed, strays, shared>>

CallDeinit ==
  /\ routine = "idle"
  /\ routine' = "close"
  /\ k' = 1
  /\ intact' = FALSE
  /\ UNCHANGED <<fdt, ep, result, ioFailed, strays, shared>>

DeinitClose ==
  /\ routine = "close"
  /\ IF ep[Ep[k]] >= 0 THEN CloseFd(ep[Ep[k]]) ELSE UNCHANGED <<fdt, strays>>
  /\ routine' = "reset"
  /\ UNCHANGED <<ep, k, result, intact, ioFailed, shared>>

DeinitKeepsNumber ==         \* fault: the variable is not reset
  /\ routine = "reset"
  /\ \/ k < 3 /\ k' = k + 1 /\ routine' = "close"
     \/ k = 3 /\ k' = 1 /\ routine' = "idle"
  /\ UNCHANGED <<fdt, ep, result, intact, ioFailed, strays, shared>>

DeinitReset ==
  /\ routine = "reset"
  /\ ep' = [ep EXCEPT ![Ep[k]] = -1]
  /\ \/ k < 3 /\ k' = k + 1 /\ routine' = "close"
     \/ k = 3 /\ k' = 1 /\ routine' = "idle"
  /\ UNCHANGED <<fdt, result, intact, ioFailed, strays, shared>>

-----------------------------------------------------------------------------
(* ffs_transport_init_usb_device and __io_init                             *)

CallInit ==
  /\ routine = "idle"
  /\ routine' = "init"
  /\ k' = 1
  /\ UNCHANGED <<fdt, ep, result, intact, ioFailed, strays, shared>>

\* "Device Already open"
AlreadyOpen ==
  /\ routine = "init"
  /\ ep["in"] > 0
  /\ Return(TRUE)
  /\ UNCHANGED <<fdt, ep, intact, ioFailed, strays, shared>>

NotOpen ==
  /\ routine = "init"
  /\ ep["in"] <= 0
  /\ routine' = "open"
  /\ UNCHANGED <<fdt, ep, k, result, intact, ioFailed, strays, shared>>

\* open() returns the lowest free descriptor.
Open ==
  /\ routine = "open"
  /\ Free # {}
  /\ ep' = [ep EXCEPT ![Ep[k]] = Min(Free)]
  /\ fdt' = [fdt EXCEPT ![Min(Free)] = Ep[k]]
  /\ \/ k < 3 /\ k' = k + 1 /\ UNCHANGED <<routine, result, intact>>
     \/ k = 3 /\ Return(TRUE) /\ intact' = TRUE
  /\ UNCHANGED <<ioFailed, strays, shared>>

OpenFailsReturns ==          \* fault: what was opened is not closed, and TRUE
  /\ routine = "open"
  /\ ep' = [ep EXCEPT ![Ep[k]] = -1]
  /\ Return(TRUE)
  /\ intact' = TRUE
  /\ UNCHANGED <<fdt, ioFailed, strays, shared>>

\* open() fails: close what was opened before, in reverse.
OpenFails ==
  /\ routine = "open"
  /\ ep' = [ep EXCEPT ![Ep[k]] = -1]
  /\ \/ k = 1 /\ Return(FALSE)
     \/ k > 1 /\ k' = k - 1 /\ routine' = "cleanup" /\ UNCHANGED result
  /\ ioFailed' = TRUE
  /\ UNCHANGED <<fdt, intact, strays, shared>>

\* The variables keep the numbers of the descriptors closed here.
CleanupClose ==
  /\ routine = "cleanup"
  /\ CloseFd(ep[Ep[k]])
  /\ \/ k = 1 /\ Return(FALSE)
     \/ k > 1 /\ k' = k - 1 /\ UNCHANGED <<routine, result>>
  /\ UNCHANGED <<ep, intact, ioFailed, shared>>

EpStep ==
  \/ DeinitClose \/ DeinitReset \/ AlreadyOpen \/ NotOpen \/ Open \/ OpenFails
  \/ CleanupClose

-----------------------------------------------------------------------------
(* Other tasks of the group open and close files of their own.             *)

OtherOpen ==
  /\ Free # {}
  /\ Quantify(FD, LAMBDA f : fdt[f] = "other") < MaxOther
  /\ fdt' = [fdt EXCEPT ![Min(Free)] = "other"]
  /\ shared' = TRUE
  /\ UNCHANGED <<ep, routine, k, result, intact, ioFailed, strays>>

OtherClose ==
  /\ \E f \in FD : fdt[f] = "other" /\ fdt' = [fdt EXCEPT ![f] = "none"]
  /\ UNCHANGED <<ep, routine, k, result, intact, ioFailed, strays, shared>>
=============================================================================
