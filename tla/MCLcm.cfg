SPECIFICATION Spec
CONSTANTS
  Channels <- MCChannels
  Messages <- MCMessages
  MaxThreads = 3
  \* The functions of the types.
  HashOf <- Fingerprint
  ZeroHash <- NoHash
  Encode <- encode
  EncodeFails <- NoRoom
  EncodedSize <- encoded_size
  Decode <- decode
  CleanupBlocks <- cleanup_fields
  CloneBlocks <- clone_blocks
INVARIANTS HandedOver CodecAgrees RefusalExplained HeapBalanced
CHECK_DEADLOCK FALSE
