------------------------------ MODULE MtpPipe ------------------------------
(***************************************************************************)
(* What the transmit path promises the responder: packets are taken in the *)
(* order they were queued, the data of a taken packet goes out completely  *)
(* before the next packet is taken, a packet is given up only while the    *)
(* path is flushing, which the responder has been told of, and a flush is  *)
(* complete unless the path was closed and is stopped while it flushes.    *)
(***************************************************************************)
EXTENDS Integers, Sequences

CONSTANTS MaxPkts, MaxLen

Item == [id : 1 .. MaxPkts, size : 0 .. MaxLen]

VARIABLES
  pending,    \* packets queued and not taken
  accepted,   \* number of packets queued so far
  current,    \* the packet last taken, 0 before the first
  left,       \* what is still to go out of it
  out,        \* everything that went out
  flushing,   \* packets are being given up
  told,       \* the responder has a cancellation to look at
  open,       \* the path still takes packets
  stopped     \* the responder has asked the path to stop

vars == <<pending, accepted, current, left, out, flushing, told, open,
          stopped>>

Init ==
  /\ pending = <<>>
  /\ accepted = 0
  /\ current = 0
  /\ left = 0
  /\ out = <<>>
  /\ flushing = FALSE
  /\ told = FALSE
  /\ open = TRUE
  /\ stopped = FALSE

Accept ==
  /\ accepted < MaxPkts
  /\ accepted' = accepted + 1
  /\ \E s \in 0 .. MaxLen :
       pending' = Append(pending, [id |-> accepted + 1, size |-> s])
  /\ UNCHANGED <<current, left, out, flushing, told, open, stopped>>

Take ==
  /\ open
  /\ ~flushing
  /\ left = 0
  /\ pending # <<>>
  /\ current' = Head(pending).id
  /\ left' = Head(pending).size
  /\ pending' = Tail(pending)
  /\ UNCHANGED <<accepted, out, flushing, told, open, stopped>>

Move ==
  /\ open
  /\ ~flushing
  /\ \E n \in 1 .. left :
       /\ left' = left - n
       /\ out' = Append(out, [id |-> current, n |-> n])
  /\ UNCHANGED <<pending, accepted, current, flushing, told, open, stopped>>

Flush ==
  /\ open
  /\ flushing' = TRUE
  /\ told' = TRUE
  /\ UNCHANGED <<pending, accepted, current, left, out, open, stopped>>

\* The path closes for good; what is left of the current packet is abandoned.
Close ==
  /\ open
  /\ open' = FALSE
  /\ left' = 0
  /\ flushing' = TRUE
  /\ told' = TRUE
  /\ UNCHANGED <<pending, accepted, current, out, stopped>>

Discard ==
  /\ flushing
  /\ pending # <<>>
  /\ pending' = Tail(pending)
  /\ UNCHANGED <<accepted, current, left, out, flushing, told, open, stopped>>

Flushed ==
  /\ flushing
  /\ pending = <<>>
  /\ flushing' = FALSE
  /\ UNCHANGED <<pending, accepted, current, left, out, told, open, stopped>>

\* Closed and stopped, the path may give up a flush with packets pending.
Abandon ==
  /\ flushing
  /\ ~open
  /\ stopped
  /\ flushing' = FALSE
  /\ UNCHANGED <<pending, accepted, current, left, out, told, open, stopped>>

Hear ==
  /\ told
  /\ told' = FALSE
  /\ UNCHANGED <<pending, accepted, current, left, out, flushing, open, stopped>>

Stop ==
  /\ ~stopped
  /\ stopped' = TRUE
  /\ UNCHANGED <<pending, accepted, current, left, out, flushing, told, open>>

Next ==
  \/ Accept \/ Take \/ Move \/ Flush \/ Close \/ Discard \/ Flushed \/ Abandon
  \/ Hear \/ Stop

Spec == Init /\ [][Next]_vars
=============================================================================
