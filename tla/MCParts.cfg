CONSTANTS
  \* EcCdev
  File = {f1, f2, f3}
  Block = {b1, b2, b3}
  Null = Null
  MaxOpen = 2
  \* EcLocks
  Task = {t1, t2, t3}
  Signals = 3
  \* MtpMq
  MsgqId = {1, 2, 3, 4}
  DeinitFails = FALSE
  \* VConf
  Key = {"usb_status", "sync_partner"}
  Ints = {0, 1, 7}
  IntMax = 7
  Char = {"a", "b"}
  MaxString = 3
  PointerSize = 2
  \* IntProps
  ShortBits = 2
  IntBits = 3
  LongBits = 4
  \* Timespec
  TimeMax = 3
  TIMESPEC_HZ = 3
  \* Argp
  Option <- MCOption
  Argv <- MCArgv
  \* LibcameraDemo
  Request = {q1, q2}
  Frames = 3
  BadFrames = 2
SPECIFICATION PartsSpec
INVARIANTS
  OneHolder OpenAllOrNothing InsideBounded QueuesOwned ReadsWhatWasSet
  OverflowExact SubSaturates WordsAccounted NothingFreedInFlight
PROPERTY WaitEnds
CHECK_DEADLOCK FALSE
