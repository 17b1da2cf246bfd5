SPECIFICATION RSpec
CONSTANTS
    Payloads <- MCPayloads
    Channels = {0, 7}
    MaxFragmentSize = 40
    MinHdrSize = 6
    TempBuffSize = 4
    CounterLimit = 3
    AddrSize = 2
    Calls <- MCCalls
    Names <- MCNames
    InnerArgs <- MCInnerArgs
    MaxCalls = 2
INVARIANTS
    BigCallKept
CHECK_DEADLOCK FALSE
