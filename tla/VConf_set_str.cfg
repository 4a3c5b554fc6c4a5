\* vconf_set_str stores sizeof(pointer) bytes of the string.
SPECIFICATION VcSpec
CONSTANTS
  Key = {"str"}
  Ints = {}
  IntMax = 7
  Char = {"a", "b"}
  MaxString = 3
  PointerSize = 2
INVARIANT StringKept
CHECK_DEADLOCK FALSE
