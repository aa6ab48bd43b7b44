SPECIFICATION OncePeerSpec
CONSTANTS
    a = a  d = d  e = e  chA = chA  chG = chG
    NoCall = NoCall
    Receiver = Receiver
    Calls = {a, d, e}
    SyncCalls = {a}
    Chans = {chA, chG}
    ChanOf <- ThreeChanOf
    Cap <- ThreeCap
    Unencodable = {}
    Misfit = {}
    MaxUnread = 1
    MaxSeq = 3
    CodecType = "gob"
CHECK_DEADLOCK FALSE
INVARIANTS TypeOK DoneOnce ReplyMatches NoOrphan DoneWaitsForReader
PROPERTIES CompletedIsFinal NoRequestAfterShutdown
