------------------------------ MODULE RpcConn ------------------------------
(***************************************************************************)
(* One geerpc connection: the two codecs (codec/gob.go, codec/json.go) over *)
(* the byte stream between a client and a server, and what a Write, a       *)
(* ReadHeader, a ReadBody and a Close on either codec do to it.             *)
(*                                                                          *)
(* A frame stands for a header and its body.  Its field call names the call *)
(* whose data the frame carries, which the code never sees: it is what lets *)
(* properties ask whether a reply reached the right caller.  Frames of one  *)
(* direction are a set: neither side looks at their order.                  *)
(***************************************************************************)
EXTENDS Integers

CONSTANTS Calls,     \* the calls the users of this client make
          NoCall,    \* a nil *Call
          MaxSeq,    \* bound: the sequence numbers the client may assign
          CodecType  \* "gob" or "json"

ASSUME ConnAssumption ==
    /\ NoCall \notin Calls
    /\ MaxSeq \in Nat \ {0}
    /\ CodecType \in {"gob", "json"}

VARIABLES ends,   \* is the client's, the server's end of the connection open
          wire,   \* wire[e]: the frames end e wrote and its peer has not read
          broken  \* broken[e]: the bufio.Writer of end e holds an error

connVars == <<ends, wire, broken>>

Client == "client"
Server == "server"
End == {Client, Server}
Peer(e) == IF e = Client THEN Server ELSE Client

Frame == [seq: 0..MaxSeq, call: Calls \cup {NoCall}, error: BOOLEAN, body: BOOLEAN]

ConnTypeOK ==
    /\ ends \in [End -> {"open", "closed"}]
    /\ wire \in [End -> SUBSET Frame]
    /\ broken \in [End -> BOOLEAN]

ConnInit ==
    /\ ends = [e \in End |-> "open"]
    /\ wire = [e \in End |-> {}]
    /\ broken = [e \in End |-> FALSE]

Cut == \E e \in End : ends[e] = "closed"

-----------------------------------------------------------------------------
(* Codec.Write encodes header and body into a bufio.Writer and flushes it.  *)

\* Both encode and the flush reaches the connection.
WriteFrame(e, f) ==
    /\ ends[e] = "open" /\ ~broken[e]
    /\ wire' = [wire EXCEPT ![e] = @ \cup {f}]
    /\ UNCHANGED <<ends, broken>>

\* Both encode, the flush fails, and Write drops its error and returns nil.
WriteLost(e) ==
    /\ Cut /\ ~broken[e]
    /\ broken' = [broken EXCEPT ![e] = TRUE]
    /\ UNCHANGED <<ends, wire>>

\* An encoder fails, on a value it cannot encode or on the connection: the
\* header may already be in the buffer, which is flushed before the Close.
WriteFails(e, f, encodable) ==
    /\ ~encodable \/ broken[e] \/ Cut
    /\ ends' = [ends EXCEPT ![e] = "closed"]
    /\ \/ /\ ~encodable /\ ends[e] = "open" /\ ~broken[e]
          /\ wire' = [wire EXCEPT ![e] = @ \cup {[f EXCEPT !.body = FALSE]}]
       \/ UNCHANGED wire
    /\ UNCHANGED broken

CloseEnd(e) ==
    /\ ends' = [ends EXCEPT ![e] = "closed"]
    /\ UNCHANGED <<wire, broken>>

ReadFrame(e, f) ==
    /\ ends[e] = "open"
    /\ f \in wire[Peer(e)]
    /\ wire' = [wire EXCEPT ![Peer(e)] = @ \ {f}]
    /\ UNCHANGED <<ends, broken>>

\* ReadHeader's error: a closed connection, which may also cut frames off.
ReadFails == Cut

\* Whether ReadBody may succeed, may fail, on the body of frame f.  Decoding
\* into nil consumes the body, and is an error for encoding/json only.
BodyCanDecode(f) == f.body
BodyCanFail(f) == ~f.body \/ Cut
DiscardCanDecode(f) == f.body /\ CodecType = "gob"
DiscardCanFail(f) == BodyCanFail(f) \/ CodecType = "json"
=============================================================================
