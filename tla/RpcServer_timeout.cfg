SPECIFICATION FairSpec
CONSTANTS
    a = a  b = b
    NoCall = NoCall
    Calls = {a, b}
    HandleTimeouts = {TRUE, FALSE}
    Unknown = {b}
    BadArgs = {}
    BadReply = {b}
    MaxSeq = 2
    CodecType = "json"
CHECK_DEADLOCK FALSE
INVARIANTS TypeOK AnsweredOnce NoWriteAfterClose WritesExclusive ReplyMeansExecuted
PROPERTIES ReadIsAnswered CutIsClosed
