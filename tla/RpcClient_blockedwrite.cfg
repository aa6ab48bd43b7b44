SPECIFICATION BlockedWriteSpec
CONSTANTS
    a = a  d = d  e = e  chA = chA  chG = chG
    NoCall = NoCall
    Receiver = Receiver
    Calls = {a, d}
    SyncCalls = {a}
    Chans = {chA, chG}
    ChanOf <- TwoChanOf
    Cap <- TwoCap
    Unencodable = {}
    Misfit = {}
    MaxUnread = 1
    MaxSeq = 2
    CodecType = "gob"
CHECK_DEADLOCK FALSE
PROPERTIES ContextHonoured
