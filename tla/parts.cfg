SPECIFICATION PartsSpec
CONSTANTS
  k1 = k1
  k2 = k2
  k3 = k3
  v1 = v1
  v2 = v2
  NotFound = NotFound
  Keys <- MCKeys
  Values <- MCValues
  Hash <- MCHash
  DICT_HT_INITIAL_SIZE = 2
  SdsByte = {0, 1, 2}
  Text <- MCText
  Lower <- MCLower
  SDS_MAX_PREALLOC = 2
  MaxLen = 3
  Ends <- MCEnds
  Letter = {1, 2}
  StringLength = 7
  Character <- MCCharacter
  Lines <- MCLines
  Arguments <- MCArguments
  LLONG_MAX = 127
  SDS_LLSTR_SIZE = 5
  Format <- MCFormat
  Datum <- MCDatum
  MaxArgs = 2
  Faults = TRUE
  Byte <- MCByte
  Number <- MCNumber
  Message <- AllMessages
  Depth = 3
  Discard = 3
  MaxSent = 2
  MayFail = TRUE
INVARIANTS StackAsserted SeesEachOnce BufferRight ConversionsRight FormatRight
PROPERTIES ImplementsStream EventuallyDelivered ImplementsMap ImplementsByteString
CHECK_DEADLOCK FALSE
