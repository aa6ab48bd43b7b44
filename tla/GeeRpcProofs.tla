---------------------------- MODULE GeeRpcProofs ----------------------------
(***************************************************************************)
(* Proofs about GeeRpc, for any calls and channels and either codec: the    *)
(* composition of a client and a server gives each of them the peer that    *)
(* its own specification assumes, so that what is proved of each in         *)
(* RpcClientProofs and RpcServerProofs holds of the two together; success   *)
(* means that the method ran; and the whole keeps the promise of RpcPromise. *)
(***************************************************************************)
EXTENDS GeeRpc, RpcClientProofs

SP == INSTANCE RpcServerProofs WITH sent <- Written

(* Requests are numbered in the order of their Write: the calls that tried it *)
(* have the numbers below seq, but for the one that is about to.             *)
NumberInv ==
    /\ IsFiniteSet(Written)
    /\ Cardinality(Written) = IF \E c \in Calls : pc[c] = "write" THEN seq - 2 ELSE seq - 1
    /\ \A c \in Calls : pc[c] = "write" => callSeq[c] = seq - 1

(* The server's copies of a request's header bear the number of its call.    *)
LinkInv ==
    /\ \A c \in Calls : handler[c] # "none" => request[c].seq = callSeq[c]
    /\ current.call \in Calls => current.seq = callSeq[current.call]
    /\ current.call = NoCall => current = S!NoRequest
    /\ loop \in {"refuse", "write"} /\ current.call = NoCall => CodecType = "json"

(* A reply is on the wire once, of a call that was answered; and a reply that *)
(* the client read or decoded without an error, of a method that ran.        *)
Answered(c) == executed[c] = 1 /\ answers[c] = 1
ReplyInv ==
    /\ \A f \in wire[Server] : IF f.call = NoCall THEN f = StrayReply ELSE answers[f.call] = 1
    /\ \A f, g \in wire[Server] : f.call = g.call => f = g
    /\ rHead.call \in Calls /\ ~rHead.error => Answered(rHead.call)
    /\ \A c \in Calls : callReply[c] = c => Answered(c)

RpcInv == ClientInv /\ QueueInv /\ SP!ServerInv /\ NumberInv /\ LinkInv /\ ReplyInv

-----------------------------------------------------------------------------
(* The server by its two names: RpcServer, and RpcServer as RpcServerProofs   *)
(* sees it.                                                                 *)

\* The two instances of the connection are the client's connection.
LEMMA SameConn ==
    /\ S!Client = Client /\ S!Server = Server /\ S!End = End /\ S!Frame = Frame
    /\ SP!Client = Client /\ SP!Server = Server /\ SP!End = End /\ SP!Frame = Frame
    /\ S!connVars = connVars /\ SP!connVars = connVars
    /\ S!serverVars = serverVars /\ SP!serverVars = serverVars
    /\ SP!NoRequest = S!NoRequest /\ SP!ConnTypeOK = ConnTypeOK
  BY DEF S!Client, S!Server, S!End, S!Frame, SP!Client, SP!Server, SP!End, SP!Frame,
         Client, Server, End, Frame, S!connVars, SP!connVars, connVars, S!serverVars,
         SP!serverVars, serverVars, SP!NoRequest, S!NoRequest, SP!ConnTypeOK, ConnTypeOK

\* And they count alike.
LEMMA SameCardinality ==
    ASSUME NEW X
    PROVE  S!Cardinality(X) = Cardinality(X) /\ SP!Cardinality(X) = Cardinality(X)
  BY DEF S!Cardinality, SP!Cardinality, Cardinality

\* They start in the same states.
LEMMA SameInit == RpcInit => SP!Init /\ S!Init
  <1>1. ASSUME RpcInit PROVE Written = {}
    BY <1>1 DEF RpcInit, ClientInit, Written
  <1>2. RpcInit => S!Init
    BY <1>1, SameConn DEF RpcInit, S!Init, S!ConnInit, ConnInit
  <1>3. S!Init => SP!Init
    BY SameConn DEF S!Init, SP!Init, S!ConnInit, SP!ConnInit, S!ServerInit, SP!ServerInit,
                    S!Free, SP!Free
  <1>4. QED BY <1>2, <1>3

\* They take the same steps.
LEMMA SameLoopStep == S!LoopStep => SP!LoopStep
  BY DEF S!LoopStep, SP!LoopStep, S!ReadOption, SP!ReadOption, S!OptionFails,
         SP!OptionFails, S!ReadRequest, SP!ReadRequest, S!ReadUnknown, SP!ReadUnknown,
         S!ReadBodyAsHeader, SP!ReadBodyAsHeader, S!ReadEnds, SP!ReadEnds, S!Finish,
         SP!Finish, S!RefuseLock, SP!RefuseLock, S!RefuseWrite, SP!RefuseWrite,
         S!connVars, SP!connVars, S!Client, SP!Client, S!Server, SP!Server, S!ReadFails,
         SP!ReadFails, S!Cut, SP!Cut, S!End, SP!End, S!ReadFrame, SP!ReadFrame, S!Peer,
         SP!Peer, S!BodyCanDecode, SP!BodyCanDecode, S!BodyCanFail, SP!BodyCanFail,
         S!NoRequest, SP!NoRequest, S!HandlersDone, SP!HandlersDone, S!CloseEnd,
         SP!CloseEnd, S!Lock, SP!Lock, S!Unlock, SP!Unlock, S!Loop, SP!Loop, S!Free,
         SP!Free, S!WriteResponse, SP!WriteResponse, S!WriteFrame, SP!WriteFrame,
         S!WriteLost, SP!WriteLost, S!WriteFails, SP!WriteFails, S!Refusal, SP!Refusal,
         S!Response, SP!Response

LEMMA SamePairStep ==
    ASSUME NEW c \in Calls
    PROVE  (S!HandlerStep(c) => SP!HandlerStep(c)) /\ (S!Execute(c) => SP!Execute(c))
  BY DEF S!HandlerStep, SP!HandlerStep, S!Execute, SP!Execute, S!Called, SP!Called,
         S!TimedOut, SP!TimedOut, S!TimeoutLock, SP!TimeoutLock, S!TimeoutWrite,
         SP!TimeoutWrite, S!ReplyLock, SP!ReplyLock, S!ReplyWrite, SP!ReplyWrite, S!Sent,
         SP!Sent, S!GoHandler, SP!GoHandler, S!GoWorker, SP!GoWorker, S!SetError,
         SP!SetError, S!connVars, SP!connVars, S!Lock, SP!Lock, S!Unlock, SP!Unlock,
         S!Handler, SP!Handler, S!Worker, SP!Worker, S!Free, SP!Free, S!WriteResponse,
         SP!WriteResponse, S!WriteFrame, SP!WriteFrame, S!WriteLost, SP!WriteLost,
         S!WriteFails, SP!WriteFails, S!Response, SP!Response, S!Server, SP!Server,
         S!Cut, SP!Cut, S!End, SP!End, S!Client, SP!Client

LEMMA SameClientStep == S!ClientStep => SP!ClientStep
  <1> USE DEF S!WriteFrame, SP!WriteFrame, S!WriteLost, SP!WriteLost, S!WriteFails,
              SP!WriteFails, S!ReadFrame, SP!ReadFrame, S!CloseEnd, SP!CloseEnd, S!Peer,
              SP!Peer, S!Server, SP!Server, S!Client, SP!Client, S!End, SP!End, S!Cut,
              SP!Cut, S!serverVars, SP!serverVars
  <1>1. ASSUME NEW c \in Calls, S!ClientWrites(c) PROVE SP!ClientWrites(c)
    <2> DEFINE f == S!Request(c, Cardinality(Written) + 1)
    <2>1. f = SP!Request(c, Cardinality(Written) + 1)
      BY DEF S!Request, SP!Request
    <2>2. /\ c \notin Written /\ Written' = Written \cup {c} /\ Cardinality(Written) < MaxSeq
          /\ UNCHANGED S!serverVars
          /\ S!WriteFrame(S!Client, f) \/ S!WriteLost(S!Client) \/ S!WriteFails(S!Client, f, FALSE)
      BY <1>1, SameCardinality DEF S!ClientWrites
    <2> HIDE DEF f
    <2>3. SP!WriteFrame(SP!Client, f) \/ SP!WriteLost(SP!Client) \/ SP!WriteFails(SP!Client, f, FALSE)
      BY <2>2
    <2>4. QED BY <2>1, <2>2, <2>3, SameCardinality DEF SP!ClientWrites
  <1>2. \A f : S!ClientReads(f) => SP!ClientReads(f)
    BY DEF S!ClientReads, SP!ClientReads
  <1>3. S!ClientCloses => SP!ClientCloses
    BY DEF S!ClientCloses, SP!ClientCloses
  <1>4. QED BY <1>1, <1>2, <1>3 DEF S!ClientStep, SP!ClientStep

\* What the server's proofs say of its steps holds here.
LEMMA ServerKeeps ==
    /\ RpcInit => SP!ServerInv
    /\ SP!ServerInv /\ [S!Next]_(S!vars) => SP!ServerInv'
  <1>1. RpcInit => SP!ServerInv
    BY SameInit, SP!ServerInitInv, RpcAssumption, ConnAssumption
  <1>2. [S!Next]_(S!vars) => [SP!Next]_(SP!vars)
    <2>1. S!Next => SP!Next
      BY SameLoopStep, SamePairStep, SameClientStep
      DEF S!Next, SP!Next, S!ServerStep, SP!ServerStep
    <2>2. S!vars = SP!vars /\ S!vars' = SP!vars'
      BY DEF S!vars, SP!vars, S!connVars, SP!connVars, S!serverVars, SP!serverVars
    <2>3. QED BY <2>1, <2>2
  <1>3. QED
    BY <1>1, <1>2, SP!ServerStepInv, RpcAssumption, ConnAssumption

\* What the server's invariant says, in the words of the composition.
LEMMA ServerFacts ==
    ASSUME SP!ServerInv
    PROVE  /\ request \in [Calls -> Frame] /\ current \in Frame
           /\ executed \in [Calls -> Nat] /\ answers \in [Calls -> Nat]
           /\ DOMAIN handler = Calls /\ DOMAIN worker = Calls
           /\ \A f \in wire[Client] : f.call \in Written
           /\ current.call \in Calls => current.call \in Written /\ answers[current.call] = 0
           /\ loop \notin {"refuse", "write"} => current = S!NoRequest
           /\ \A c \in Calls :
                 /\ c \notin Written => handler[c] = "none"
                 /\ handler[c] # "none" => request[c].call = c
                 /\ worker[c] # "none" => handler[c] # "none"
                 /\ handler[c] = "write" \/ worker[c] = "write" => answers[c] = 0
                 /\ executed[c] \in {0, 1}
                 /\ worker[c] = "call" => executed[c] = 0
           /\ \A f \in wire[Server] : f.call # NoCall /\ ~f.error => executed[f.call] = 1
  <1>1. /\ request \in [Calls -> Frame] /\ current \in Frame
        /\ executed \in [Calls -> Nat] /\ answers \in [Calls -> Nat]
        /\ DOMAIN handler = Calls /\ DOMAIN worker = Calls
    BY SameConn DEF SP!ServerInv, SP!TypeOK, SP!ServerTypeOK
  <1>2. /\ \A f \in wire[Client] : f.call \in Written
        /\ \A c \in Calls : c \notin Written => handler[c] = "none"
    BY SameConn DEF SP!ServerInv, SP!StreamInv, SP!Fresh
  <1>3. /\ current.call \in Calls => current.call \in Written /\ answers[current.call] = 0
        /\ loop \notin {"refuse", "write"} => current = S!NoRequest
    BY SameConn DEF SP!ServerInv, SP!RefusalInv, SP!Fresh
  <1>4. ASSUME NEW c \in Calls
        PROVE  /\ handler[c] # "none" => request[c].call = c
               /\ worker[c] # "none" => handler[c] # "none"
               /\ handler[c] = "write" \/ worker[c] = "write" => answers[c] = 0
               /\ executed[c] \in {0, 1}
               /\ worker[c] = "call" => executed[c] = 0
    BY DEF SP!ServerInv, SP!PairInv, SP!Untaken, SP!Waits, SP!GivenUp, SP!Replies,
           SP!Replied, SP!Over
  <1>5. \A f \in wire[Server] : f.call # NoCall /\ ~f.error => executed[f.call] = 1
    BY SameConn DEF SP!ServerInv, SP!ReplyMeansExecuted
  <1>6. QED BY <1>1, <1>2, <1>3, <1>4, <1>5

\* And what the client's says.
LEMMA ClientFacts ==
    ASSUME ClientInv
    PROVE  /\ wire \in [End -> SUBSET Frame] /\ Client \in End /\ Server \in End
           /\ Client # Server
           /\ seq \in 1..MaxSeq + 1 /\ callSeq \in [Calls -> 0..MaxSeq]
           /\ DOMAIN pc = Calls /\ rHead \in Frame /\ rCall \in Calls \cup {NoCall}
           /\ callReply \in [Calls -> Calls \cup {NoCall}] /\ NoCall \notin Calls
           /\ MaxSeq \in Nat
           /\ \A c \in Calls : pc[c] \in {"register", "write"} => sending = c
           /\ \A c \in Calls : pc[c] \in NotSent => callSeq[c] = 0
           /\ \A c \in Calls : pc[c] = "write" => callSeq[c] # 0
           /\ \A f \in wire[Client] : f.call \in Calls => callSeq[f.call] = f.seq
  BY ConnAssumption
  DEF ClientInv, OwnershipInv, TypeOK, ConnTypeOK, ClientTypeOK, SendingInv, SeqInv,
      FrameInv, Attributed, End, Client, Server

-----------------------------------------------------------------------------
(* The client, seen from the server.                                        *)

\* A call gets its number before its Write, and counts as written from then on.
LEMMA NumberStep ==
    ASSUME ClientInv, NumberInv, ClientStep
    PROVE  /\ NumberInv'
           /\ \A c \in Calls : WriteRequest(c) \/ WriteRequestFails(c) =>
                 /\ c \notin Written /\ Written' = Written \cup {c}
                 /\ Cardinality(Written) < MaxSeq
                 /\ callSeq[c] = Cardinality(Written) + 1
           /\ (\A c \in Calls : ~(WriteRequest(c) \/ WriteRequestFails(c))) => Written' = Written
  <1> USE ClientFacts
  <1>1. ASSUME NEW c \in Calls, RegisterCall(c)
        PROVE  NumberInv' /\ Written' = Written
    <2>1. /\ pc[c] = "register" /\ callSeq[c] = 0
          /\ \A d \in Calls : pc[d] # "write"
          /\ \A d \in Calls : pc'[d] = IF d = c THEN "write" ELSE pc[d]
          /\ \A d \in Calls : callSeq'[d] = IF d = c THEN seq ELSE callSeq[d]
          /\ seq' = seq + 1
      <3>1. pc[c] = "register" /\ callSeq[c] = 0
        BY <1>1 DEF RegisterCall, Goto, NotSent
      <3>2. \A d \in Calls : pc[d] # "write"
        BY <3>1
      <3>3. /\ pc' = [pc EXCEPT ![c] = "write"] /\ callSeq' = [callSeq EXCEPT ![c] = seq]
            /\ seq' = seq + 1
        BY <1>1 DEF RegisterCall, Goto, NextSeq
      <3>4. QED BY <3>1, <3>2, <3>3
    <2>2. Written' = Written
      BY <2>1 DEF Written
    <2>3. Cardinality(Written) = seq - 1 /\ seq - 1 = seq' - 2
      BY <2>1 DEF NumberInv
    <2>4. QED BY <2>1, <2>2, <2>3 DEF NumberInv
  <1>2. ASSUME NEW c \in Calls, WriteRequest(c) \/ WriteRequestFails(c)
        PROVE  /\ NumberInv'
               /\ c \notin Written /\ Written' = Written \cup {c}
               /\ Cardinality(Written) < MaxSeq
               /\ callSeq[c] = Cardinality(Written) + 1
    <2>1. /\ pc[c] = "write" /\ callSeq[c] # 0 /\ callSeq[c] = seq - 1
          /\ \A d \in Calls : pc[d] = "write" => d = c
          /\ \A d \in Calls : pc'[d] # "write" /\ (d # c => pc'[d] = pc[d])
          /\ UNCHANGED <<callSeq, seq>>
      BY <1>2 DEF WriteRequest, WriteRequestFails, Goto, NumberInv
    <2>2. c \notin Written /\ Written' = Written \cup {c}
      BY <2>1 DEF Written
    <2>3. Cardinality(Written) = seq - 2 /\ IsFiniteSet(Written)
      BY <2>1 DEF NumberInv
    <2>4. IsFiniteSet(Written') /\ Cardinality(Written') = seq - 1
      BY <2>2, <2>3, FS_AddElement
    <2>5. QED BY <2>1, <2>2, <2>3, <2>4 DEF NumberInv
  <1>3. ASSUME UNCHANGED <<callSeq, seq>>,
               \A d \in Calls : pc'[d] = "write" <=> pc[d] = "write"
        PROVE  NumberInv' /\ Written' = Written
    <2>1. Written' = Written
      BY <1>3 DEF Written
    <2>2. QED BY <1>3, <2>1 DEF NumberInv
  <1>4. CASE \E c \in Calls : RegisterCall(c)
    BY <1>1, <1>2, <1>4
  <1>5. CASE \E c \in Calls : WriteRequest(c) \/ WriteRequestFails(c)
    BY <1>2, <1>5
  <1>6. CASE ~\E c \in Calls : RegisterCall(c) \/ WriteRequest(c) \/ WriteRequestFails(c)
    <2>1. UNCHANGED <<callSeq, seq>> /\ \A d \in Calls : pc'[d] = "write" <=> pc[d] = "write"
      BY <1>6
      DEF ClientStep, CallerStep, ReceiverStep, Goto, Issue, LockSending, RegisterRefused,
          Unregister, FailCall, ContextDone, RemoveCancelled, ExpireContext, Consume, Close,
          ReadHeader, ReadHeaderFails, RemoveReplied, DropReply, ReceiveError,
          ReceiveReply, ReceiverDone, TerminateCalls, TerminateNext, TerminateEnd, userVars
    <2>2. QED BY <1>3, <1>6, <2>1
  <1>7. QED BY <1>4, <1>5, <1>6

\* Every step of the client is one that the server's specification allows.
LEMMA ClientIsServersClient ==
    ASSUME ClientInv, NumberInv, ClientStep, UNCHANGED serverVars
    PROVE  [S!Next]_(S!vars)
  <1> USE SameConn
  <1>1. ASSUME NEW c \in Calls, WriteRequest(c) \/ WriteRequestFails(c)
        PROVE  S!ClientWrites(c)
    <2>1. /\ c \notin Written /\ Written' = Written \cup {c}
          /\ Cardinality(Written) < MaxSeq /\ callSeq[c] = Cardinality(Written) + 1
      BY <1>1, NumberStep
    <2> DEFINE f == RequestFrame(c)
    <2>2. f = S!Request(c, Cardinality(Written) + 1)
      BY <2>1 DEF RequestFrame, S!Request
    <2>3. \/ WriteFrame(Client, f) \/ WriteLost(Client)
          \/ \E x \in BOOLEAN : WriteFails(Client, f, x)
      BY <1>1 DEF WriteRequest, WriteRequestFails
    <2> HIDE DEF f
    <2>4. \/ S!WriteFrame(S!Client, f) \/ S!WriteLost(S!Client)
          \/ S!WriteFails(S!Client, f, FALSE)
      <3>1. WriteFrame(Client, f) => S!WriteFrame(S!Client, f)
        BY DEF WriteFrame, S!WriteFrame
      <3>2. WriteLost(Client) => S!WriteLost(S!Client)
        BY DEF WriteLost, S!WriteLost, Cut, S!Cut
      <3>3. ASSUME NEW x \in BOOLEAN, WriteFails(Client, f, x)
            PROVE  S!WriteFails(S!Client, f, FALSE)
        BY <3>3 DEF WriteFails, S!WriteFails
      <3>4. QED BY <2>3, <3>1, <3>2, <3>3
    <2>5. QED BY <2>1, <2>2, <2>4, SameCardinality DEF S!ClientWrites, S!serverVars, serverVars
  <1>2. ASSUME NEW f \in wire[Server], ReadHeader(f)
        PROVE  S!ClientReads(f)
    <2>1. Written' = Written
      BY <1>2 DEF ReadHeader, userVars, Written
    <2>2. S!ReadFrame(S!Client, f)
      BY <1>2 DEF ReadHeader, ReadFrame, S!ReadFrame, Peer, S!Peer
    <2>3. QED BY <2>1, <2>2 DEF S!ClientReads, S!serverVars, serverVars
  <1>3. ASSUME Close PROVE S!ClientCloses
    <2>1. Written' = Written
      BY <1>3 DEF Close, userVars, Written
    <2>2. S!CloseEnd(S!Client)
      BY <1>3 DEF Close, CloseEnd, S!CloseEnd
    <2>3. QED BY <2>1, <2>2 DEF S!ClientCloses, S!serverVars, serverVars
  <1>4. CASE /\ \A c \in Calls : ~(WriteRequest(c) \/ WriteRequestFails(c))
             /\ UNCHANGED connVars
    <2>1. Written' = Written
      BY <1>4, NumberStep
    <2>2. QED
      BY <1>4, <2>1 DEF S!vars, S!connVars, connVars, S!serverVars, serverVars
  <1>5. \/ \E c \in Calls : WriteRequest(c) \/ WriteRequestFails(c)
        \/ \E f \in wire[Server] : ReadHeader(f)
        \/ Close
        \/ /\ \A c \in Calls : ~(WriteRequest(c) \/ WriteRequestFails(c))
           /\ UNCHANGED connVars
    BY DEF ClientStep, CallerStep, ReceiverStep, Issue, LockSending, RegisterCall,
           RegisterRefused, Unregister, FailCall, ContextDone, RemoveCancelled,
           ExpireContext, Consume, ReadHeaderFails, RemoveReplied, DropReply, ReceiveError,
           ReceiveReply, ReceiverDone, TerminateCalls, TerminateNext, TerminateEnd
  <1>6. QED BY <1>1, <1>2, <1>3, <1>4, <1>5 DEF S!Next, S!ClientStep

-----------------------------------------------------------------------------
(* The server, seen from the client.                                        *)

\* The wire never holds more replies than the peer of RpcClient may leave there.
LEMMA Room4Reply ==
    ASSUME ClientInv, ReplyInv
    PROVE  RoomOnWire
  <1> DEFINE W == wire[Server]
             K == Calls \cup {NoCall}
             callOf == [f \in W |-> f.call]
  <1>1. W \in SUBSET Frame /\ \A f, g \in W : f.call = g.call => f = g
    BY ClientFacts DEF ReplyInv
  <1>2. IsFiniteSet(K) /\ Cardinality(K) = Cardinality(Calls) + 1
    BY FS_AddElement, ConnAssumption, RpcAssumption
  <1> HIDE DEF W
  <1>3. callOf \in [W -> K]
    BY <1>1 DEF Frame
  <1>4. callOf \in Injection(W, K)
    BY <1>1, <1>3 DEF Injection, IsInjective
  <1> HIDE DEF K, callOf
  <1>5. IsFiniteSet(W) /\ Cardinality(W) <= Cardinality(K)
    BY <1>2, <1>4, FS_Injection
  <1>6. Cardinality(W) \in Nat /\ Cardinality(Calls) \in Nat
    BY <1>5, FS_CardinalityType, RpcAssumption
  <1>7. Cardinality(W) < MaxUnread
    BY <1>2, <1>5, <1>6, RpcAssumption, ClientAssumption
  <1>8. QED BY <1>7 DEF W, RoomOnWire

\* An answer to a numbered call, and to a body that was read as a header, is one
\* that the peer of RpcClient may send, whatever becomes of its Write.
LEMMA AnswerIsPeers ==
    ASSUME ClientInv, ReplyInv, UNCHANGED clientVars, NEW w, NEW f \in Frame, f.body,
           NEW encodable \in BOOLEAN, S!WriteResponse(w, f, encodable),
           \/ f.call \in Calls /\ callSeq[f.call] # 0 /\ f.seq = callSeq[f.call]
           \/ f = StrayReply /\ CodecType = "json" /\ encodable
    PROVE  PeerStep
  <1> USE SameConn
  <1>1. WriteFrame(Server, f) \/ WriteLost(Server) \/ WriteFails(Server, f, encodable)
    <2>1. S!WriteFrame(S!Server, f) => WriteFrame(Server, f)
      BY DEF WriteFrame, S!WriteFrame
    <2>2. S!WriteLost(S!Server) => WriteLost(Server)
      BY DEF WriteLost, S!WriteLost, Cut, S!Cut
    <2>3. S!WriteFails(S!Server, f, encodable) => WriteFails(Server, f, encodable)
      BY DEF WriteFails, S!WriteFails, Cut, S!Cut
    <2>4. QED BY <2>1, <2>2, <2>3 DEF S!WriteResponse
  <1>2. CASE WriteLost(Server)
    BY <1>2 DEF PeerStep, PeerLoses
  <1>3. CASE f = StrayReply /\ CodecType = "json" /\ encodable
    <2>1. CASE WriteFrame(Server, f)
      BY <1>3, <2>1, Room4Reply DEF PeerStep, PeerStray
    <2>2. CASE WriteFails(Server, f, encodable)
      BY <1>3, <2>2 DEF PeerStep, PeerClose, CloseEnd, WriteFails
    <2>3. QED BY <1>1, <1>2, <2>1, <2>2
  <1>4. CASE f.call \in Calls /\ callSeq[f.call] # 0 /\ f.seq = callSeq[f.call]
    <2>1. f.error \in BOOLEAN /\ f = Reply(f.call, f.error)
      BY <1>4 DEF Frame, Reply
    <2>2. WriteFails(Server, f, encodable) => WriteFails(Server, f, FALSE)
      BY DEF WriteFails
    <2> DEFINE c == f.call
               e == f.error
    <2> HIDE DEF c, e
    <2>3. c \in Calls /\ e \in BOOLEAN /\ f = Reply(c, e) /\ callSeq[c] # 0
      BY <1>4, <2>1 DEF c, e
    <2>4. WriteLost(Server) \/ PeerReply(c, e)
      BY <1>1, <2>2, <2>3, Room4Reply DEF PeerReply
    <2>5. QED BY <1>2, <2>3, <2>4 DEF PeerStep
  <1>5. QED BY <1>3, <1>4

\* What the loop and a pair of goroutines answer bears the number of the call.
LEMMA AnswerFrames ==
    ASSUME RpcInv
    PROVE  /\ loop = "write" => LET f == S!Refusal(current) IN
              /\ f \in Frame /\ f.body /\ f.error /\ f.call = current.call
              /\ \/ f.call \in Calls /\ callSeq[f.call] # 0 /\ f.seq = callSeq[f.call]
                 \/ f.call = NoCall /\ f = StrayReply /\ CodecType = "json"
           /\ \A c \in Calls : handler[c] # "none" => LET f == S!Response(request[c]) IN
              /\ f \in Frame /\ f.body /\ f.error = request[c].error /\ f.call = c
              /\ callSeq[f.call] # 0 /\ f.seq = callSeq[f.call]
  <1> USE DEF RpcInv
  <1>1. ASSUME loop = "write"
        PROVE  LET f == S!Refusal(current) IN
               /\ f \in Frame /\ f.body /\ f.error /\ f.call = current.call
               /\ \/ f.call \in Calls /\ callSeq[f.call] # 0 /\ f.seq = callSeq[f.call]
                  \/ f.call = NoCall /\ f = StrayReply /\ CodecType = "json"
    <2> DEFINE f == S!Refusal(current)
    <2>1. current \in Frame
      BY ServerFacts
    <2>2. /\ f \in Frame /\ f.body /\ f.error /\ f.call = current.call /\ f.seq = current.seq
          /\ f.call \in Calls \cup {NoCall}
      BY <2>1 DEF S!Refusal, S!Response, Frame
    <2>3. CASE current.call \in Calls
      <3>1. callSeq[current.call] # 0 /\ current.seq = callSeq[current.call]
        BY <2>3, ServerFacts DEF Written, LinkInv
      <3>2. QED BY <2>2, <2>3, <3>1
    <2>4. CASE current.call = NoCall
      <3>1. current = S!NoRequest /\ CodecType = "json"
        BY <1>1, <2>4 DEF LinkInv
      <3>2. f = StrayReply
        <4>1. f.seq = 0 /\ f.call = NoCall
          BY <2>2, <3>1 DEF S!NoRequest
        <4> HIDE DEF f
        <4>2. QED BY <2>2, <4>1 DEF Frame, StrayReply
      <3>3. QED BY <2>2, <2>4, <3>1, <3>2
    <2>5. QED BY <2>2, <2>3, <2>4
  <1>2. ASSUME NEW c \in Calls, handler[c] # "none"
        PROVE  LET f == S!Response(request[c]) IN
               /\ f \in Frame /\ f.body /\ f.error = request[c].error /\ f.call = c
               /\ callSeq[f.call] # 0 /\ f.seq = callSeq[f.call]
    <2>1. /\ request[c] \in Frame /\ request[c].call = c /\ c \in Written
          /\ request[c].seq = callSeq[c]
      BY <1>2, ServerFacts DEF LinkInv
    <2>2. QED BY <2>1 DEF S!Response, Frame, Written
  <1>3. QED BY <1>1, <1>2

\* Every step of the server is one of the peer that the client's specification
\* allows.
LEMMA ServerIsPeer ==
    ASSUME RpcInv, S!ServerStep, UNCHANGED clientVars
    PROVE  [Next]_vars
  <1> USE SameConn DEF RpcInv
  <1>1. ASSUME NEW lost \in SUBSET wire[Client], S!ReadOption(lost)
        PROVE  PeerReads(lost)
    BY <1>1 DEF S!ReadOption, PeerReads
  <1>2. ASSUME NEW f \in wire[Client], S!ReadFrame(S!Server, f)
        PROVE  PeerReads({f})
    BY <1>2, ClientFacts DEF S!ReadFrame, S!Peer, PeerReads
  <1>3. ASSUME S!Finish PROVE PeerClose
    BY <1>3 DEF S!Finish, S!CloseEnd, PeerClose, CloseEnd
  <1>4. ASSUME S!RefuseWrite PROVE PeerStep
    <2> DEFINE f == S!Refusal(current)
    <2>1. S!WriteResponse(S!Loop, f, TRUE) /\ loop = "write"
      BY <1>4 DEF S!RefuseWrite
    <2>2. /\ f \in Frame /\ f.body
          /\ \/ f.call \in Calls /\ callSeq[f.call] # 0 /\ f.seq = callSeq[f.call]
             \/ f.call = NoCall /\ f = StrayReply /\ CodecType = "json"
      BY <2>1, AnswerFrames
    <2> HIDE DEF f
    <2>3. QED BY <2>1, <2>2, AnswerIsPeers
  <1>5. ASSUME NEW c \in Calls, S!TimeoutWrite(c) \/ S!ReplyWrite(c)
        PROVE  PeerStep
    <2> DEFINE f == S!Response(request[c])
    <2>1. /\ handler[c] # "none"
          /\ \E w, e : e \in BOOLEAN /\ S!WriteResponse(w, f, e)
      <3>1. CASE S!TimeoutWrite(c)
        BY <3>1 DEF S!TimeoutWrite, S!GoHandler
      <3>2. CASE S!ReplyWrite(c)
        <4>1. worker[c] # "none" /\ S!WriteResponse(S!Worker(c), f, request[c].error \/ c \notin BadReply)
          BY <3>2 DEF S!ReplyWrite, S!GoWorker
        <4>2. (request[c].error \/ c \notin BadReply) \in BOOLEAN
          OBVIOUS
        <4>3. QED BY <4>1, <4>2, ServerFacts
      <3>3. QED BY <1>5, <3>1, <3>2
    <2>2. /\ f \in Frame /\ f.body
          /\ f.call \in Calls /\ callSeq[f.call] # 0 /\ f.seq = callSeq[f.call]
      BY <2>1, AnswerFrames
    <2> HIDE DEF f
    <2>3. QED BY <2>1, <2>2, AnswerIsPeers
  <1>6. CASE UNCHANGED connVars
    BY <1>6 DEF vars, connVars
  <1>7. \/ \E lost \in SUBSET wire[Client] : S!ReadOption(lost)
        \/ \E f \in wire[Client] : S!ReadFrame(S!Server, f)
        \/ S!Finish \/ S!RefuseWrite
        \/ \E c \in Calls : S!TimeoutWrite(c) \/ S!ReplyWrite(c)
        \/ UNCHANGED connVars
    <2>1. ASSUME S!OptionFails \/ S!ReadBodyAsHeader \/ S!ReadEnds \/ S!RefuseLock
          PROVE  UNCHANGED connVars
      BY <2>1 DEF S!OptionFails, S!ReadBodyAsHeader, S!ReadEnds, S!RefuseLock, connVars,
                  S!connVars
    <2>2. ASSUME NEW c \in Calls,
                 \/ S!Execute(c) \/ S!TimedOut(c) \/ S!TimeoutLock(c) \/ S!ReplyLock(c)
                 \/ S!Sent(c) \/ \E error \in BOOLEAN : S!Called(c, error)
          PROVE  UNCHANGED connVars
      BY <2>2 DEF S!Execute, S!Called, S!TimedOut, S!TimeoutLock, S!ReplyLock, S!Sent,
                  connVars, S!connVars
    <2>3. ASSUME NEW f \in wire[Client], S!ReadRequest(f) \/ S!ReadUnknown(f)
          PROVE  S!ReadFrame(S!Server, f)
      BY <2>3 DEF S!ReadRequest, S!ReadUnknown
    <2>4. CASE S!LoopStep
      BY <2>4, <2>1, <2>3 DEF S!LoopStep
    <2>5. CASE \E c \in Calls : S!HandlerStep(c) \/ S!Execute(c)
      BY <2>5, <2>2 DEF S!HandlerStep
    <2>6. QED BY <2>4, <2>5 DEF S!ServerStep
  <1>8. QED BY <1>1, <1>2, <1>3, <1>4, <1>5, <1>6, <1>7, ClientFacts DEF Next, PeerStep

-----------------------------------------------------------------------------
(* The links between the two.                                               *)

\* A client step gives a number to a call that the server has not seen.
LEMMA ClientLinks ==
    ASSUME RpcInv, ClientStep, UNCHANGED serverVars
    PROVE  LinkInv'
  <1> USE ServerFacts, ClientFacts DEF RpcInv
  <1>1. UNCHANGED <<loop, current, handler, request>>
    BY DEF serverVars
  <1>2. ASSUME NEW c \in Calls, RegisterCall(c) PROVE LinkInv'
    <2>1. callSeq[c] = 0 /\ callSeq' = [callSeq EXCEPT ![c] = seq]
      BY <1>2 DEF RegisterCall, Goto, NotSent
    <2>2. c \notin Written
      BY <2>1 DEF Written
    <2>3. handler[c] = "none" /\ current.call # c
      BY <2>2
    <2>4. \A d \in Calls : d # c => callSeq'[d] = callSeq[d]
      BY <2>1
    <2>5. QED BY <1>1, <2>3, <2>4 DEF LinkInv
  <1>3. CASE UNCHANGED callSeq
    BY <1>1, <1>3 DEF LinkInv
  <1>4. (\E c \in Calls : RegisterCall(c)) \/ UNCHANGED callSeq
    BY DEF ClientStep, CallerStep, ReceiverStep, Issue, LockSending, RegisterRefused,
           WriteRequest, WriteRequestFails, Unregister, FailCall, ContextDone,
           RemoveCancelled, ExpireContext, Consume, Close, ReadHeader, ReadHeaderFails,
           RemoveReplied, DropReply, ReceiveError, ReceiveReply, ReceiverDone,
           TerminateCalls, TerminateNext, TerminateEnd, userVars
  <1>5. QED BY <1>2, <1>3, <1>4

\* The server copies headers, and writes into them nothing but errors.
LEMMA ServerLinks ==
    ASSUME RpcInv, S!ServerStep, UNCHANGED clientVars
    PROVE  LinkInv'
  <1> USE ServerFacts, ClientFacts DEF RpcInv
  <1>1. UNCHANGED callSeq
    BY DEF clientVars, userVars
  <1>2. ASSUME NEW f \in wire[Client], S!ReadRequest(f) PROVE LinkInv'
    <2>1. f.call \in Calls /\ f.seq = callSeq[f.call]
      BY DEF Written
    <2>2. QED BY <1>1, <1>2, <2>1 DEF S!ReadRequest, LinkInv
  <1>3. ASSUME NEW f \in wire[Client], S!ReadUnknown(f) PROVE LinkInv'
    <2>1. f.call \in Calls /\ f.seq = callSeq[f.call]
      BY DEF Written
    <2>2. QED BY <1>1, <1>3, <2>1 DEF S!ReadUnknown, LinkInv
  <1>4. ASSUME \/ \E lost \in SUBSET wire[Client] : S!ReadOption(lost)
               \/ S!OptionFails \/ S!ReadBodyAsHeader \/ S!ReadEnds \/ S!RefuseLock
               \/ S!RefuseWrite \/ S!Finish
        PROVE  LinkInv'
    <2>1. UNCHANGED <<handler, request>>
      BY <1>4 DEF S!ReadOption, S!OptionFails, S!ReadBodyAsHeader, S!ReadEnds, S!RefuseLock,
                  S!RefuseWrite, S!Finish
    <2>2. \/ UNCHANGED current /\ (loop' \notin {"refuse", "write"} \/ loop = "refuse")
          \/ current' = S!NoRequest /\ (loop' = "read" \/ CodecType = "json")
      BY <1>4 DEF S!ReadOption, S!OptionFails, S!ReadBodyAsHeader, S!ReadEnds, S!RefuseLock,
                  S!RefuseWrite, S!Finish
    <2>3. S!NoRequest.call = NoCall
      BY DEF S!NoRequest
    <2>4. QED BY <1>1, <2>1, <2>2, <2>3 DEF LinkInv
  <1>5. ASSUME NEW c \in Calls, S!HandlerStep(c) \/ S!Execute(c) PROVE LinkInv'
    <2>1. UNCHANGED <<loop, current>>
      BY <1>5 DEF S!HandlerStep, S!Execute, S!Called, S!TimedOut, S!TimeoutLock,
                  S!TimeoutWrite, S!ReplyLock, S!ReplyWrite, S!Sent
    <2>2. request' = request \/ \E error \in BOOLEAN : request' = [request EXCEPT ![c].error = error]
      BY <1>5 DEF S!HandlerStep, S!Execute, S!Called, S!TimedOut, S!TimeoutLock, S!SetError,
                  S!TimeoutWrite, S!ReplyLock, S!ReplyWrite, S!Sent
    <2>3. \A d \in Calls : request'[d].seq = request[d].seq
      BY <2>2 DEF Frame
    <2>4. handler' = handler \/ (handler[c] # "none" /\ \A d \in Calls : d # c => handler'[d] = handler[d])
      BY <1>5 DEF S!HandlerStep, S!Execute, S!Called, S!TimedOut, S!TimeoutLock,
                  S!TimeoutWrite, S!ReplyLock, S!ReplyWrite, S!Sent, S!GoHandler
    <2>5. QED BY <1>1, <2>1, <2>3, <2>4 DEF LinkInv
  <1>6. CASE S!LoopStep
    <2>1. CASE \E f \in wire[Client] : S!ReadRequest(f) \/ S!ReadUnknown(f)
      BY <2>1, <1>2, <1>3
    <2>2. CASE \/ \E lost \in SUBSET wire[Client] : S!ReadOption(lost)
               \/ S!OptionFails \/ S!ReadBodyAsHeader \/ S!ReadEnds \/ S!RefuseLock
               \/ S!RefuseWrite \/ S!Finish
      <3> HIDE ServerFacts, ClientFacts DEF RpcInv
      <3>1. QED BY <2>2, <1>4
    <2>3. QED
      <3> HIDE ServerFacts, ClientFacts DEF RpcInv
      <3>1. QED BY <1>6, <2>1, <2>2, SameConn DEF S!LoopStep
  <1>7. CASE \E c \in Calls : S!HandlerStep(c) \/ S!Execute(c)
    BY <1>7, <1>5
  <1>8. QED BY <1>6, <1>7 DEF S!ServerStep

\* What the client reads is one of the replies, and what it decodes is what it read.
LEMMA ClientReplies ==
    ASSUME RpcInv, ClientStep, UNCHANGED serverVars
    PROVE  ReplyInv'
  <1> USE ServerFacts, ClientFacts DEF RpcInv
  <1>1. UNCHANGED <<executed, answers>>
    BY DEF serverVars
  <1>2. wire'[Server] \subseteq wire[Server]
    <2>1. ASSUME NEW c \in Calls, WriteRequest(c) \/ WriteRequestFails(c)
          PROVE  wire'[Server] = wire[Server]
      BY <2>1 DEF WriteRequest, WriteRequestFails, WriteFrame, WriteLost, WriteFails
    <2>2. ASSUME NEW f, ReadHeader(f) PROVE wire'[Server] \subseteq wire[Server]
      BY <2>2 DEF ReadHeader, ReadFrame, Peer
    <2>3. Close => UNCHANGED wire
      BY DEF Close, CloseEnd
    <2>4. QED
      BY <2>1, <2>2, <2>3
      DEF ClientStep, CallerStep, ReceiverStep, Issue, LockSending, RegisterCall,
          RegisterRefused, Unregister, FailCall, ContextDone, RemoveCancelled, ExpireContext,
          Consume, ReadHeaderFails, RemoveReplied, DropReply, ReceiveError, ReceiveReply,
          ReceiverDone, TerminateCalls, TerminateNext, TerminateEnd, connVars
  <1>3. /\ rHead' = rHead \/ rHead' = NoFrame \/ rHead' \in wire[Server]
        /\ \/ UNCHANGED callReply
           \/ rCall \in Calls /\ ~rHead.error /\ callReply' = [callReply EXCEPT ![rCall] = rHead.call]
    <2>1. ASSUME ReceiverStep
          PROVE  /\ rHead' = rHead \/ rHead' = NoFrame \/ rHead' \in wire[Server]
                 /\ \/ UNCHANGED callReply
                    \/ /\ rCall \in Calls /\ ~rHead.error
                       /\ callReply' = [callReply EXCEPT ![rCall] = rHead.call]
      BY <2>1 DEF ReceiverStep, ReadHeader, ReadHeaderFails, RemoveReplied, DropReply,
                  ReceiveError, ReceiveReply, ReceiverDone, TerminateCalls, TerminateNext,
                  TerminateEnd
    <2>2. ASSUME ~ReceiverStep PROVE UNCHANGED <<rHead, callReply>>
      BY <2>2 DEF ClientStep, CallerStep, Issue, LockSending, RegisterCall, RegisterRefused,
                  WriteRequest, WriteRequestFails, Unregister, FailCall, ContextDone,
                  RemoveCancelled, ExpireContext, Consume, Close, receiverVars
    <2>3. QED BY <2>1, <2>2
  <1>4. rHead'.call \in Calls /\ ~rHead'.error => Answered(rHead'.call)
    BY <1>3 DEF ReplyInv, NoFrame, Answered
  <1>5. \A c \in Calls : callReply'[c] = c => Answered(c)
    BY <1>3 DEF ReplyInv
  <1>6. QED BY <1>1, <1>2, <1>4, <1>5 DEF ReplyInv, Answered

\* A response goes on the wire once, at the only answer to its call.
LEMMA AnswerReplies ==
    ASSUME RpcInv, UNCHANGED <<rHead, callReply, executed>>, NEW w, NEW f \in Frame,
           NEW encodable \in BOOLEAN, S!WriteResponse(w, f, encodable),
           \/ f.call \in Calls /\ answers[f.call] = 0
           \/ f.call = NoCall /\ f = StrayReply /\ encodable
    PROVE  ReplyInv'
  <1> USE ServerFacts, ClientFacts, SameConn DEF RpcInv
  <1>1. \E g : /\ g.call = f.call /\ (encodable => g = f)
               /\ wire'[Server] \subseteq wire[Server] \cup {g}
    <2>1. CASE S!WriteFrame(S!Server, f)
      BY <2>1 DEF S!WriteFrame
    <2>2. CASE S!WriteLost(S!Server)
      BY <2>2 DEF S!WriteLost
    <2>3. CASE S!WriteFails(S!Server, f, encodable)
      <3> DEFINE cut == [f EXCEPT !.body = FALSE]
      <3>1. cut.call = f.call
        BY DEF Frame
      <3>2. wire' = wire \/ (~encodable /\ wire' = [wire EXCEPT ![Server] = @ \cup {cut}])
        BY <2>3 DEF S!WriteFails
      <3> HIDE DEF cut
      <3>3. CASE wire' = wire
        BY <3>3
      <3>4. CASE ~encodable /\ wire' = [wire EXCEPT ![Server] = @ \cup {cut}]
        BY <3>1, <3>4
      <3>5. QED BY <3>2, <3>3, <3>4
    <2>4. QED BY <2>1, <2>2, <2>3 DEF S!WriteResponse
  <1>2. PICK g : /\ g.call = f.call /\ (encodable => g = f)
                 /\ wire'[Server] \subseteq wire[Server] \cup {g}
    BY <1>1
  <1>3. answers' = IF f.call = NoCall THEN answers ELSE [answers EXCEPT ![f.call] = @ + 1]
    BY DEF S!WriteResponse
  <1>4. \A c \in Calls : answers[c] = 1 => answers'[c] = 1
    BY <1>3
  <1>5. \A c \in Calls : Answered(c) => Answered(c)'
    BY <1>4 DEF Answered
  <1>6. /\ rHead'.call \in Calls /\ ~rHead'.error => Answered(rHead.call)'
        /\ \A c \in Calls : callReply'[c] = c => Answered(c)'
    BY <1>5 DEF ReplyInv
  <1>7. CASE f.call \in Calls /\ answers[f.call] = 0
    <2>1. answers'[f.call] = 1 /\ f.call # NoCall
      BY <1>3, <1>7
    <2>2. \A h \in wire[Server] : h.call # f.call /\ h.call \in Calls \cup {NoCall}
      BY <1>7, <2>1 DEF ReplyInv, Frame
    <2>3. QED BY <1>2, <1>4, <1>6, <2>1, <2>2 DEF ReplyInv, Answered
  <1>8. CASE f.call = NoCall /\ f = StrayReply /\ encodable
    <2>1. \A h \in wire'[Server] : h \in wire[Server] \/ h = StrayReply
      BY <1>2, <1>8
    <2>2. answers' = answers
      BY <1>3, <1>8
    <2>3. \A h \in wire[Server] : h.call = NoCall => h = StrayReply
      BY DEF ReplyInv
    <2>4. QED BY <1>6, <1>8, <2>1, <2>2, <2>3 DEF ReplyInv, Answered
  <1>9. QED BY <1>7, <1>8

\* The server's steps keep what was answered.
LEMMA ServerReplies ==
    ASSUME RpcInv, S!ServerStep, UNCHANGED clientVars
    PROVE  ReplyInv'
  <1> USE ServerFacts, ClientFacts, SameConn DEF RpcInv
  <1>1. UNCHANGED <<rHead, callReply>>
    BY DEF clientVars, receiverVars
  <1>2. CASE UNCHANGED <<executed, answers>> /\ wire'[Server] = wire[Server]
    BY <1>1, <1>2 DEF ReplyInv, Answered
  <1>3. ASSUME NEW c \in Calls, S!Execute(c) PROVE ReplyInv'
    <2>1. /\ executed[c] = 0 /\ executed' = [executed EXCEPT ![c] = @ + 1]
          /\ UNCHANGED <<answers, wire>>
      BY <1>3 DEF S!Execute, S!GoWorker, S!connVars
    <2>2. \A d \in Calls : executed[d] = 1 => executed'[d] = 1
      BY <2>1
    <2>3. QED BY <1>1, <2>1, <2>2 DEF ReplyInv, Answered
  <1>4. ASSUME S!RefuseWrite PROVE ReplyInv'
    <2> DEFINE f == S!Refusal(current)
    <2>1. S!WriteResponse(S!Loop, f, TRUE) /\ loop = "write" /\ UNCHANGED executed
      BY <1>4 DEF S!RefuseWrite
    <2>2. /\ f \in Frame
          /\ \/ f.call \in Calls /\ answers[f.call] = 0
             \/ f.call = NoCall /\ f = StrayReply
      BY <2>1, AnswerFrames
    <2> HIDE DEF f
    <2>3. QED BY <1>1, <2>1, <2>2, AnswerReplies
  <1>5. ASSUME NEW c \in Calls, S!TimeoutWrite(c) \/ S!ReplyWrite(c)
        PROVE  ReplyInv'
    <2> DEFINE f == S!Response(request[c])
    <2>1. /\ handler[c] # "none" /\ answers[c] = 0 /\ UNCHANGED executed
          /\ \E w, e : e \in BOOLEAN /\ S!WriteResponse(w, f, e)
      <3>1. CASE S!TimeoutWrite(c)
        BY <3>1 DEF S!TimeoutWrite, S!GoHandler
      <3>2. CASE S!ReplyWrite(c)
        <4>1. /\ worker[c] = "write" /\ UNCHANGED executed
              /\ S!WriteResponse(S!Worker(c), f, request[c].error \/ c \notin BadReply)
          BY <3>2 DEF S!ReplyWrite, S!GoWorker
        <4>2. (request[c].error \/ c \notin BadReply) \in BOOLEAN
          OBVIOUS
        <4>3. QED BY <4>1, <4>2
      <3>3. QED BY <1>5, <3>1, <3>2
    <2>2. f \in Frame /\ f.call = c
      BY <2>1, AnswerFrames
    <2> HIDE DEF f
    <2>3. QED BY <1>1, <2>1, <2>2, AnswerReplies
  <1>6. \/ UNCHANGED <<executed, answers>> /\ wire'[Server] = wire[Server]
        \/ S!RefuseWrite
        \/ \E c \in Calls : S!Execute(c) \/ S!TimeoutWrite(c) \/ S!ReplyWrite(c)
    <2>1. ASSUME \/ S!OptionFails \/ S!ReadBodyAsHeader \/ S!ReadEnds \/ S!RefuseLock \/ S!Finish
          PROVE  UNCHANGED <<executed, answers, wire>>
      BY <2>1 DEF S!OptionFails, S!ReadBodyAsHeader, S!ReadEnds, S!RefuseLock, S!Finish,
                  S!CloseEnd, S!connVars
    <2>2. ASSUME NEW c \in Calls,
                 \/ S!TimedOut(c) \/ S!TimeoutLock(c) \/ S!ReplyLock(c)
                 \/ S!Sent(c) \/ \E error \in BOOLEAN : S!Called(c, error)
          PROVE  UNCHANGED <<executed, answers, wire>>
      BY <2>2 DEF S!Called, S!TimedOut, S!TimeoutLock, S!ReplyLock, S!Sent, S!connVars
    <2>3. ASSUME NEW f \in wire[Client], S!ReadRequest(f) \/ S!ReadUnknown(f)
          PROVE  UNCHANGED <<executed, answers>> /\ wire'[Server] = wire[Server]
      BY <2>3 DEF S!ReadRequest, S!ReadUnknown, S!ReadFrame, S!Peer
    <2>4. ASSUME NEW lost \in SUBSET wire[Client], S!ReadOption(lost)
          PROVE  UNCHANGED <<executed, answers>> /\ wire'[Server] = wire[Server]
      BY <2>4 DEF S!ReadOption
    <2>5. CASE S!LoopStep
      BY <2>5, <2>1, <2>3, <2>4 DEF S!LoopStep
    <2>6. CASE \E c \in Calls : S!HandlerStep(c) \/ S!Execute(c)
      BY <2>6, <2>2 DEF S!HandlerStep
    <2>7. QED BY <2>5, <2>6 DEF S!ServerStep
  <1>7. QED BY <1>2, <1>3, <1>4, <1>5, <1>6

-----------------------------------------------------------------------------
(* The invariant of the two together.                                       *)

LEMMA RpcInitInv == RpcInit => RpcInv
  <1> SUFFICES ASSUME RpcInit PROVE RpcInv
    OBVIOUS
  <1> USE DEF RpcInit, ConnInit, ClientInit
  <1>1. ClientInv
    BY ClientInvInit DEF Init
  <1>2. QueueInv
    BY DEF QueueInv, InChannelInv, OnceInv, ToldInv
  <1>3. Written = {}
    BY DEF Written
  <1>4. NumberInv
    BY <1>3, FS_EmptySet DEF NumberInv
  <1>5. LinkInv
    BY ConnAssumption DEF S!ServerInit, LinkInv, S!NoRequest, ConnAssumption
  <1>6. ReplyInv
    BY ConnAssumption, ClientFacts, <1>1 DEF ReplyInv, NoFrame, ConnAssumption
  <1>7. QED BY <1>1, <1>2, <1>4, <1>5, <1>6, ServerKeeps DEF RpcInv

\* Each side's steps are the steps that the other side's specification allows.
LEMMA RpcSides ==
    ASSUME RpcInv, [RpcNext]_rpcVars
    PROVE  [Next]_vars /\ [S!Next]_(S!vars)
  <1> USE DEF RpcInv
  <1>1. CASE UNCHANGED serverVars /\ ClientStep
    <2>1. [S!Next]_(S!vars)
      BY <1>1, ClientIsServersClient
    <2>2. QED BY <1>1, <2>1 DEF Next
  <1>2. CASE UNCHANGED clientVars /\ S!ServerStep
    BY <1>2, ServerIsPeer DEF S!Next
  <1>3. CASE UNCHANGED rpcVars
    <2>1. UNCHANGED vars /\ UNCHANGED serverVars
      BY <1>3 DEF rpcVars
    <2>2. Written' = Written /\ UNCHANGED connVars
      BY <2>1 DEF Written, vars, clientVars, userVars
    <2>3. QED BY <2>1, <2>2, SameConn DEF S!vars, serverVars, S!serverVars, connVars, S!connVars
  <1>4. QED BY <1>1, <1>2, <1>3 DEF RpcNext

LEMMA RpcStepInv == RpcInv /\ [RpcNext]_rpcVars => RpcInv'
  <1> SUFFICES ASSUME RpcInv, [RpcNext]_rpcVars PROVE RpcInv'
    OBVIOUS
  <1>1. ClientInv' /\ QueueInv' /\ SP!ServerInv'
    BY RpcSides, OwnershipStep, FrameStep, OutcomeStep, QueueStep, ServerKeeps
    DEF RpcInv, ClientInv
  <1>2. NumberInv' /\ LinkInv' /\ ReplyInv'
    <2>1. CASE UNCHANGED serverVars /\ ClientStep
      BY <2>1, NumberStep, ClientLinks, ClientReplies DEF RpcInv
    <2>2. CASE UNCHANGED clientVars /\ S!ServerStep
      <3>1. NumberInv'
        BY <2>2 DEF RpcInv, NumberInv, Written, clientVars, userVars
      <3>2. QED BY <2>2, <3>1, ServerLinks, ServerReplies
    <2>3. CASE UNCHANGED rpcVars
      BY <2>3 DEF RpcInv, NumberInv, Written, LinkInv, ReplyInv, Answered, S!NoRequest,
                  rpcVars, vars, clientVars, userVars, receiverVars, serverVars, connVars
    <2>4. QED BY <2>1, <2>2, <2>3 DEF RpcNext
  <1>3. QED BY <1>1, <1>2 DEF RpcInv

\* client.go and server.go on one connection: the client's invariants and the
\* server's, and what relates the two: who numbers a request, whose number a
\* header bears, and which answers are on the wire.
THEOREM RpcInvariant == RpcSpec => []RpcInv
  <1>1. QED BY RpcInitInv, RpcStepInv, PTL DEF RpcSpec

\* server.go never does to a client what the peer of RpcClient does not do: all
\* that is proved of a client, for any peer, holds with this server.
THEOREM RpcImplementsClient == RpcSpec => ClientSpec
  <1>1. RpcInit => Init
    BY DEF RpcInit, Init
  <1>2. QED BY <1>1, RpcSides, RpcInvariant, PTL DEF RpcSpec, ClientSpec, Spec

\* client.go never does to a server what the client of RpcServer does not do:
\* it writes each call once, and numbers the requests in the order of its writes.
THEOREM RpcImplementsServer == RpcSpec => ServerSpec
  <1>1. RpcInit => S!Init
    BY SameInit
  <1>2. QED BY <1>1, RpcSides, RpcInvariant, PTL DEF RpcSpec, ServerSpec, S!Spec

\* client.go:149, server.go:210: a user who is told of no error holds the answer
\* of a method that ran once and was answered once.
THEOREM RpcSuccessMeansExecuted == RpcSpec => []SuccessMeansExecuted
  <1>1. RpcInv => SuccessMeansExecuted
    BY DEF RpcInv, ClientInv, OutcomeInv, ReplyInv, Answered, SuccessMeansExecuted
  <1>2. QED BY <1>1, RpcInvariant, PTL

-----------------------------------------------------------------------------
(* The promise.                                                             *)

Told == [c \in Calls |-> Outcome(c)]

\* What an outcome says of a call.
LEMMA OutcomeFacts ==
    ASSUME ClientInv, QueueInv, NEW c \in Calls
    PROVE  /\ Told[c] = Outcome(c) /\ got[c] \in Errors \cup {"none", "context"}
           /\ pc[c] = "idle" => Outcome(c) = "idle"
           /\ pc[c] # "idle" /\ got[c] = "none" => Outcome(c) = "waiting"
           /\ pc[c] # "idle" => Outcome(c) # "idle"
  <1>1. got[c] \in Errors \cup {"none", "context"}
    BY DEF ClientInv, OwnershipInv, TypeOK, ClientTypeOK
  <1>2. pc[c] = "idle" => got[c] = "none"
    BY DEF ClientInv, OwnershipInv, SeqInv, NotSent, QueueInv, ToldInv
  <1>3. QED BY <1>1, <1>2 DEF Told, Outcome

\* A step that tells no user anything and issues no call leaves the outcomes.
LEMMA ToldNothing ==
    ASSUME UNCHANGED got, \A c \in Calls : pc'[c] = "idle" <=> pc[c] = "idle"
    PROVE  Told' = Told
  BY DEF Told, Outcome

\* A step that tells one user, or issues one call.
LEMMA ToldOne ==
    ASSUME NEW c \in Calls, DOMAIN pc = Calls, DOMAIN got = Calls,
           \A d \in Calls : d # c => got'[d] = got[d] /\ pc'[d] = pc[d]
    PROVE  Told' = [Told EXCEPT ![c] = Outcome(c)']
  BY DEF Told, Outcome

\* A client's step is one of the promise's, or shows nothing.
LEMMA ClientPromises ==
    ASSUME RpcInv, RpcInv', ClientStep, UNCHANGED serverVars
    PROVE  [P!Next]_<<Told, executed>>
  <1> USE DEF RpcInv
  <1>1. /\ DOMAIN pc = Calls /\ DOMAIN got = Calls /\ UNCHANGED executed
        /\ callError \in [Calls -> Errors]
    BY DEF ClientInv, OwnershipInv, TypeOK, ClientTypeOK, serverVars
  <1>2. ASSUME NEW c \in Calls, Issue(c) PROVE P!Issue(c)
    <2>1. pc[c] = "idle" /\ pc' = [pc EXCEPT ![c] = "lock"] /\ UNCHANGED got
      BY <1>2 DEF Issue, Goto
    <2>2. Told[c] = "idle" /\ got[c] = "none"
      BY <2>1, OutcomeFacts
      DEF ClientInv, OwnershipInv, SeqInv, NotSent, QueueInv, ToldInv
    <2>3. Outcome(c)' = "waiting"
      BY <1>1, <2>1, <2>2 DEF Outcome
    <2>4. Told' = [Told EXCEPT ![c] = "waiting"]
      BY <1>1, <2>1, <2>3, ToldOne
    <2>5. QED BY <1>1, <2>2, <2>4 DEF P!Issue, Told
  <1>3. ASSUME NEW ch \in Chans, Consume(ch)
        PROVE  \E c \in Calls : P!Succeed(c) \/ P!Fail(c)
    <2>1. PICK c \in Calls : c = Head(chan[ch])
      BY <1>3, ConsumeQueues
    <2>2. /\ got[c] = "none" /\ pc[c] # "idle" /\ got' = [got EXCEPT ![c] = callError[c]]
          /\ pc' = IF c \in SyncCalls THEN [pc EXCEPT ![c] = "returned"] ELSE pc
      BY <1>3, <2>1, ConsumeQueues DEF Consume
    <2>3. Told[c] = "waiting"
      BY <2>2, OutcomeFacts
    <2>4. Told' = [Told EXCEPT ![c] = Outcome(c)']
      BY <1>1, <2>2, ToldOne
    <2>5. CASE callError[c] = "nil"
      <3>1. got'[c] = "nil" /\ Outcome(c)' = "success"
        BY <1>1, <2>2, <2>5 DEF Outcome
      <3>2. callReply'[c] = c
        BY <3>1 DEF ClientInv, OutcomeInv
      <3>3. executed'[c] = 1
        BY <3>2 DEF ReplyInv, Answered
      <3>4. QED BY <1>1, <2>2, <2>3, <2>4, <3>1, <3>3 DEF P!Succeed, Told
    <2>6. CASE callError[c] # "nil"
      <3>1. got'[c] \notin {"nil", "none"} /\ Outcome(c)' = "error"
        BY <1>1, <2>2, <2>6 DEF Outcome, Errors
      <3>2. QED BY <1>1, <2>2, <2>3, <2>4, <3>1 DEF P!Fail, Told
    <2>7. QED BY <2>5, <2>6
  <1>4. ASSUME NEW c \in Calls, RemoveCancelled(c) PROVE P!Fail(c)
    <2>1. /\ pc[c] = "cancel" /\ pc' = [pc EXCEPT ![c] = "returned"]
          /\ got' = [got EXCEPT ![c] = "context"]
      BY <1>4 DEF RemoveCancelled, Goto
    <2>2. got[c] = "none"
      BY <2>1 DEF QueueInv, ToldInv
    <2>3. Told[c] = "waiting"
      BY <2>1, <2>2, OutcomeFacts
    <2>4. Outcome(c)' = "error"
      BY <1>1, <2>1 DEF Outcome
    <2>5. Told' = [Told EXCEPT ![c] = "error"]
      BY <1>1, <2>1, <2>4, ToldOne
    <2>6. QED BY <1>1, <2>3, <2>5 DEF P!Fail, Told
  <1>5. ASSUME NEW c \in Calls, CallerStep(c), ~RemoveCancelled(c)
        PROVE  UNCHANGED got /\ \A d \in Calls : pc'[d] = "idle" <=> pc[d] = "idle"
    BY <1>1, <1>5
    DEF CallerStep, LockSending, RegisterCall, RegisterRefused, WriteRequest,
        WriteRequestFails, Unregister, FailCall, ContextDone, Goto
  <1>6. ASSUME (\E c \in Calls : ExpireContext(c)) \/ ReceiverStep \/ Close
        PROVE  UNCHANGED <<pc, got>>
    BY <1>6
    DEF ExpireContext, Close, ReceiverStep, ReadHeader, ReadHeaderFails, RemoveReplied,
        DropReply, ReceiveError, ReceiveReply, ReceiverDone, TerminateCalls, TerminateNext,
        TerminateEnd, userVars
  <1>7. CASE UNCHANGED got /\ \A d \in Calls : pc'[d] = "idle" <=> pc[d] = "idle"
    BY <1>1, <1>7, ToldNothing
  <1>8. QED BY <1>2, <1>3, <1>4, <1>5, <1>6, <1>7 DEF ClientStep, CallerStep, P!Next

\* A server's step runs a method that a user waits for or has given up, once,
\* or shows nothing.
LEMMA ServerPromises ==
    ASSUME RpcInv, S!ServerStep, UNCHANGED clientVars
    PROVE  [P!Next]_<<Told, executed>>
  <1> USE DEF RpcInv
  <1>1. Told' = Told
    BY ToldNothing DEF clientVars, userVars
  <1>2. ASSUME NEW c \in Calls, S!Execute(c) PROVE P!Run(c)
    <2>1. /\ executed[c] = 0 /\ handler[c] # "none" /\ c \in Written
          /\ executed' = [executed EXCEPT ![c] = @ + 1]
      BY <1>2, ServerFacts DEF S!Execute, S!GoWorker
    <2>2. Told[c] # "idle"
      BY <2>1, OutcomeFacts, ClientFacts DEF Written, NotSent
    <2>3. executed' = [executed EXCEPT ![c] = 1]
      BY <2>1, ServerFacts
    <2>4. QED BY <1>1, <2>1, <2>2, <2>3 DEF P!Run, Told
  <1>3. ASSUME S!LoopStep \/ \E c \in Calls : S!HandlerStep(c)
        PROVE  UNCHANGED executed
    BY <1>3
    DEF S!LoopStep, S!HandlerStep, S!ReadOption, S!OptionFails, S!ReadRequest, S!ReadUnknown,
        S!ReadBodyAsHeader, S!ReadEnds, S!RefuseLock, S!RefuseWrite, S!Finish, S!Called,
        S!TimedOut, S!TimeoutLock, S!TimeoutWrite, S!ReplyLock, S!ReplyWrite, S!Sent
  <1>4. QED BY <1>1, <1>2, <1>3 DEF S!ServerStep, P!Next

\* client.go, server.go: a call ends once, with success or an error; its method
\* runs at most once, only after the call was issued; and success is told only
\* after the run, whatever is lost, late, cancelled or timed out.
THEOREM RpcKeepsPromise == RpcSpec => Promise
  <1>1. RpcInit => Told = [c \in Calls |-> "idle"] /\ executed = [c \in Calls |-> 0]
    BY DEF RpcInit, ClientInit, S!ServerInit, Told, Outcome
  <1>2. RpcInv /\ RpcInv' /\ [RpcNext]_rpcVars => [P!Next]_<<Told, executed>>
    <2>1. CASE UNCHANGED rpcVars
      BY <2>1, ToldNothing DEF rpcVars, vars, clientVars, userVars, serverVars
    <2>2. QED BY <2>1, ClientPromises, ServerPromises DEF RpcNext
  <1>3. RpcSpec => (RpcInit /\ [][RpcNext]_rpcVars)
    BY DEF RpcSpec
  <1>4. (Told = [c \in Calls |-> "idle"] /\ executed = [c \in Calls |-> 0]) /\ [][P!Next]_<<Told, executed>>
        => Promise
    BY DEF Promise, P!Spec, P!Init, Told
  <1>5. QED BY <1>1, <1>2, <1>3, <1>4, RpcInvariant, PTL
=============================================================================
