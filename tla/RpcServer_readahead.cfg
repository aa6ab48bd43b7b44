SPECIFICATION MethodsReturnSpec
CONSTANTS
    a = a  b = b
    NoCall = NoCall
    Calls = {a}
    HandleTimeouts = {FALSE}
    Unknown = {}
    BadArgs = {}
    BadReply = {}
    MaxSeq = 1
    CodecType = "json"
CHECK_DEADLOCK FALSE
PROPERTIES RequestIsAnswered
