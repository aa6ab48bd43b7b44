SPECIFICATION RpcSpec
CONSTANTS
    a = a  d = d  chA = chA  chG = chG
    NoCall = NoCall
    Receiver = Receiver
    Calls = {a, d}
    SyncCalls = {a}
    Chans = {chA, chG}
    ChanOf <- MCChanOf
    Cap <- MCCap
    Unencodable = {}
    Misfit = {}
    MaxUnread = 9
    MaxSeq = 2
    HandleTimeouts = {FALSE}
    Unknown = {d}
    BadArgs = {a, d}
    BadReply = {}
    CodecType = "json"
CHECK_DEADLOCK FALSE
INVARIANTS SuccessMeansExecuted
PROPERTIES ClientSpec ServerSpec Promise
