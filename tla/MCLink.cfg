SPECIFICATION Spec
CONSTANTS
  Radix = 4
  Unknown = Unknown
  Operations <- MCOperations
  Arguments <- MCArguments
  SMALL_STREAM = 9
  KOHERON_READ_STR_LEN = 23
  WEBSOCK_READ_STR_LEN = 76
  WEBSOCK_SEND_BUF_LEN = 28
  HttpLength = 3
  MaxCalls = 2
INVARIANTS TypeOK ExecutedAsCalled RepliesInOrder SessionEndsForAReason
PROPERTY CallIsAnswered
