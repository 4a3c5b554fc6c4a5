------------------------------ MODULE Timespec ------------------------------
(***************************************************************************)
(* timespec_sub of the benchmark tests (benchtests/port/support/           *)
(* timespec.c): the difference of two times, at the ends of the range of   *)
(* time_t too.  INT_ADD_WRAPV and INT_SUBTRACT_WRAPV are the overflow      *)
(* builtins of GCC, or the macros of module IntProps.                      *)
(***************************************************************************)
EXTENDS Integers

CONSTANTS
  TimeMax,        \* bound: TYPE_MAXIMUM(time_t)
  TIMESPEC_HZ     \* bound: nanoseconds in a second

ASSUME TimespecAssumption == TimeMax \in Nat \ {0} /\ TIMESPEC_HZ \in Nat \ {0}

VARIABLES
  tsSigned,       \* TYPE_SIGNED(time_t)
  tsA, tsB, tsR   \* the latest call: its arguments and its result
tsVars == <<tsSigned, tsA, tsB, tsR>>

TYPE_MINIMUM(signed) == IF signed THEN -TimeMax - 1 ELSE 0
time_t(signed) == TYPE_MINIMUM(signed)..TimeMax
timespec(signed) == [sec : time_t(signed), nsec : 0..(TIMESPEC_HZ - 1)]

TsInit ==
  /\ tsSigned \in BOOLEAN
  /\ tsA = [sec |-> 0, nsec |-> 0]
  /\ tsB = tsA
  /\ tsR = tsA

-----------------------------------------------------------------------------
WRAPV(signed, n) == n \notin time_t(signed)     \* what the macros return

Low(signed) == [sec |-> TYPE_MINIMUM(signed), nsec |-> 0]
High == [sec |-> TimeMax, nsec |-> TIMESPEC_HZ - 1]

\* if (INT_SUBTRACT_WRAPV(rs, bs, &rs)) ...
Subtract(signed, rs, bs, rns) ==
  IF ~WRAPV(signed, rs - bs) THEN [sec |-> rs - bs, nsec |-> rns]
  ELSE IF 0 < bs THEN Low(signed) ELSE High

fault_timespec_sub(signed, a, b) ==      \* fault: the borrow always goes to rs
  IF a.nsec >= b.nsec THEN Subtract(signed, a.sec, b.sec, a.nsec - b.nsec)
  ELSE LET rns == a.nsec - b.nsec + TIMESPEC_HZ
           less == IF a.sec = TYPE_MINIMUM(signed) THEN TimeMax ELSE a.sec - 1
       IN  IF ~WRAPV(signed, b.sec + 1) THEN Subtract(signed, a.sec, b.sec + 1, rns)
           ELSE Subtract(signed, less, b.sec, rns)

\* A borrowed second is added to B or, when that overflows, taken from A.
timespec_sub(signed, a, b) ==
  IF a.nsec >= b.nsec THEN Subtract(signed, a.sec, b.sec, a.nsec - b.nsec)
  ELSE LET rns == a.nsec - b.nsec + TIMESPEC_HZ
       IN  IF ~WRAPV(signed, b.sec + 1) THEN Subtract(signed, a.sec, b.sec + 1, rns)
           ELSE IF (IF signed THEN -1 ELSE 0) < a.sec
                THEN Subtract(signed, a.sec - 1, b.sec, rns)
           ELSE Low(signed)

TsCall ==
  /\ \E a, b \in timespec(tsSigned) :
       tsA' = a /\ tsB' = b /\ tsR' = timespec_sub(tsSigned, a, b)
  /\ UNCHANGED tsSigned

TsSpec == TsInit /\ [][TsCall]_tsVars

-----------------------------------------------------------------------------
\* The difference of A and B, with the nanoseconds within a second, when it is
\* a time; otherwise the time nearest to it.
Difference(signed, a, b) ==
  LET borrow == a.nsec < b.nsec
      sec == a.sec - b.sec - (IF borrow THEN 1 ELSE 0)
      nsec == a.nsec - b.nsec + (IF borrow THEN TIMESPEC_HZ ELSE 0)
  IN  IF sec < TYPE_MINIMUM(signed) THEN Low(signed)
      ELSE IF sec > TimeMax THEN High
      ELSE [sec |-> sec, nsec |-> nsec]

\* timespec_sub is the difference of its arguments and saturates, never wraps,
\* for signed and unsigned times.
SubSaturates == tsR = Difference(tsSigned, tsA, tsB)
=============================================================================
