SPECIFICATION Spec
CONSTANTS
  Channels <- FirstUse
  Messages <- MCMessages
  MaxThreads = 2
  \* The functions of the types.
  HashOf <- Fingerprint
  ZeroHash <- NoHash
  Encode <- encode
  EncodeFails <- NoRoom
  EncodedSize <- encoded_size
  Decode <- decode
  CleanupBlocks <- cleanup_fields
  CloneBlocks <- clone_blocks
INVARIANT WholeMessageHanded
CHECK_DEADLOCK FALSE
