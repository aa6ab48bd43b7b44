SPECIFICATION Spec
CONSTANTS
    a = a  b = b
    NoCall = NoCall
    Calls = {a}
    HandleTimeouts = {FALSE}
    Unknown = {}
    BadArgs = {a}
    BadReply = {}
    MaxSeq = 1
    CodecType = "json"
CHECK_DEADLOCK FALSE
INVARIANTS ArgumentsDelivered
