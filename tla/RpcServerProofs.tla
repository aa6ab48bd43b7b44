-------------------------- MODULE RpcServerProofs --------------------------
(***************************************************************************)
(* Proofs about RpcServer, for any calls, either codec and any client that  *)
(* numbers its requests: a request is answered once, by the handler or by   *)
(* the worker, responses are written one at a time and never after the      *)
(* codec is closed, and success is answered only after the method ran.      *)
(***************************************************************************)
EXTENDS RpcServer, TLAPS, FiniteSetTheorems

(* A request that the loop has not taken yet is in the stream once, and      *)
(* nothing has been done for it.                                             *)
Fresh(c) ==
    /\ handler[c] = "none" /\ worker[c] = "none"
    /\ executed[c] = 0 /\ answers[c] = 0

StreamInv ==
    /\ IsFiniteSet(sent) /\ Cardinality(sent) <= MaxSeq
    /\ \A c \in Calls : c \notin sent => Fresh(c)
    /\ \A f \in wire[Client] : f.call \in sent /\ Fresh(f.call)
    /\ \A f, g \in wire[Client] : f.call = g.call => f = g

(* The same of the request that the loop refuses, until it is answered.      *)
RefusalInv ==
    /\ loop \notin {"refuse", "write"} => current = NoRequest
    /\ current.call \in Calls =>
          /\ current.call \in sent /\ Fresh(current.call)
          /\ \A f \in wire[Client] : f.call # current.call

(* Where the two goroutines of a request can be at the same time, and whether *)
(* it has been answered: the worker gets past called only with a handler that *)
(* waits for it, and the handler answers only if it gave up before.           *)
Waits(c) == handler[c] = "select" /\ worker[c] \in {"call", "called"} /\ answers[c] = 0
GivenUp(c) ==
    /\ handler[c] \in {"timeout", "write"} /\ worker[c] \in {"call", "called"}
    /\ answers[c] = 0 /\ request[c].error
Replies(c) == handler[c] = "called" /\ worker[c] \in {"reply", "write"} /\ answers[c] = 0
Replied(c) == handler[c] = "called" /\ worker[c] = "sent" /\ answers[c] = 1
Over(c) == handler[c] = "ended" /\ worker[c] \in {"call", "called", "ended"} /\ answers[c] = 1
Untaken(c) ==
    /\ handler[c] = "none" /\ worker[c] = "none" /\ answers[c] \in {0, 1}

PairInv ==
    \A c \in Calls :
        /\ Untaken(c) \/ Waits(c) \/ GivenUp(c) \/ Replies(c) \/ Replied(c) \/ Over(c)
        /\ executed[c] = IF worker[c] \in {"none", "call"} THEN 0 ELSE 1
        /\ handler[c] # "none" => request[c].call = c
        /\ loop = "closed" => handler[c] \in {"none", "ended"}

(* The mutex sending is held by whoever is in Codec.Write.                   *)
LockInv ==
    /\ lock = Loop <=> loop = "write"
    /\ \A c \in Calls : /\ lock = Handler(c) <=> handler[c] = "write"
                        /\ lock = Worker(c) <=> worker[c] = "write"

ServerInv ==
    TypeOK /\ StreamInv /\ RefusalInv /\ PairInv /\ LockInv /\ ReplyMeansExecuted

-----------------------------------------------------------------------------
\* The goroutines that write are told apart.
LEMMA Holders ==
    /\ Loop \in Holder /\ Free \in Holder /\ Loop # Free
    /\ \A c \in Calls : /\ Handler(c) \in Holder /\ Worker(c) \in Holder
                        /\ Handler(c) \notin {Free, Loop} /\ Worker(c) \notin {Free, Loop}
    /\ \A c, d \in Calls : /\ Handler(c) # Worker(d)
                           /\ Handler(c) = Handler(d) => c = d
                           /\ Worker(c) = Worker(d) => c = d
  BY DEF Holder, Loop, Free, Handler, Worker

\* What the model calls a header with nothing in it is a frame of no call.
LEMMA EmptyFrame == NoRequest \in Frame /\ NoRequest.call = NoCall /\ NoCall \notin Calls
  BY ConnAssumption DEF NoRequest, Frame

\* sendResponse releases the mutex, leaves the requests in the stream alone, and
\* adds at most one frame, for the call and with the error of the response.
LEMMA Responds ==
    ASSUME ConnTypeOK, NEW w, NEW f \in Frame, NEW encodable \in BOOLEAN,
           WriteResponse(w, f, encodable)
    PROVE  /\ ConnTypeOK' /\ lock = w /\ lock' = Free
           /\ wire'[Client] = wire[Client]
           /\ \A g \in wire'[Server] : \/ g \in wire[Server]
                                       \/ g.call = f.call /\ g.error = f.error
           /\ answers' = IF f.call = NoCall THEN answers
                         ELSE [answers EXCEPT ![f.call] = @ + 1]
  <1> USE DEF ConnTypeOK, Frame, End, Client, Server
  <1>1. lock = w /\ lock' = Free
    BY DEF WriteResponse, Unlock
  <1>2. CASE WriteFrame(Server, f)
    BY <1>1, <1>2 DEF WriteResponse, WriteFrame
  <1>3. CASE WriteLost(Server)
    BY <1>1, <1>3 DEF WriteResponse, WriteLost
  <1>4. CASE WriteFails(Server, f, encodable)
    <2> DEFINE cut == [f EXCEPT !.body = FALSE]
    <2>1. cut \in Frame /\ cut.call = f.call /\ cut.error = f.error
      OBVIOUS
    <2>2. /\ wire' = wire \/ wire' = [wire EXCEPT ![Server] = @ \cup {cut}]
          /\ ends' = [ends EXCEPT ![Server] = "closed"] /\ UNCHANGED broken
      BY <1>4 DEF WriteFails
    <2> HIDE DEF cut
    <2>3. ConnTypeOK'
      BY <2>1, <2>2
    <2>4. /\ wire'[Client] = wire[Client]
          /\ \A g \in wire'[Server] : g \in wire[Server] \/ g = cut
      BY <2>2
    <2>5. QED BY <1>1, <2>1, <2>3, <2>4 DEF WriteResponse
  <1>5. QED BY <1>2, <1>3, <1>4 DEF WriteResponse

\* The server starts in the invariant.
LEMMA ServerInitInv == Init => ServerInv
  <1> SUFFICES ASSUME Init PROVE ServerInv
    OBVIOUS
  <1> USE ConnAssumption, EmptyFrame DEF Init, ConnInit, ServerInit
  <1>1. TypeOK
    BY Holders DEF TypeOK, ConnTypeOK, ServerTypeOK
  <1>2. StreamInv
    BY FS_EmptySet DEF StreamInv, Fresh, Client, End
  <1>3. RefusalInv
    BY DEF RefusalInv
  <1>4. PairInv
    BY DEF PairInv, Untaken
  <1>5. LockInv
    BY Holders DEF LockInv
  <1>6. ReplyMeansExecuted
    BY DEF ReplyMeansExecuted, Server, End
  <1>7. QED BY <1>1, <1>2, <1>3, <1>4, <1>5, <1>6 DEF ServerInv

-----------------------------------------------------------------------------
(* ServerConn and the loop.                                                 *)

\* The Option's decoder takes frames away; the requests it drops stay fresh.
LEMMA ReadOptionInv ==
    ASSUME ServerInv, NEW lost \in SUBSET wire[Client], ReadOption(lost)
    PROVE  ServerInv'
  <1> USE DEF ReadOption
  <1>1. TypeOK'
    BY ServerAssumption DEF ServerInv, TypeOK, ConnTypeOK, ServerTypeOK, End, Client
  <1>2. wire'[Client] = wire[Client] \ lost /\ wire'[Server] = wire[Server]
    BY DEF ServerInv, TypeOK, ConnTypeOK, End, Client, Server
  <1>3. StreamInv' /\ RefusalInv' /\ ReplyMeansExecuted'
    BY <1>2 DEF ServerInv, StreamInv, RefusalInv, ReplyMeansExecuted, Fresh
  <1>4. PairInv' /\ LockInv'
    BY DEF ServerInv, PairInv, LockInv, Untaken, Waits, GivenUp, Replies, Replied, Over
  <1>5. QED BY <1>1, <1>3, <1>4 DEF ServerInv

\* A request that has a handler is no longer in the stream, and has one pair.
LEMMA ReadRequestInv ==
    ASSUME ServerInv, NEW f \in wire[Client], ReadRequest(f)
    PROVE  ServerInv'
  <1> USE DEF ReadRequest
  <1>1. f \in Frame /\ f.call \in sent /\ f.call \in Calls /\ Fresh(f.call)
    BY DEF ServerInv, TypeOK, ConnTypeOK, ServerTypeOK, StreamInv, End, Client
  <1>2. wire'[Client] = wire[Client] \ {f} /\ wire'[Server] = wire[Server]
    BY DEF ServerInv, TypeOK, ConnTypeOK, ReadFrame, End, Client, Server, Peer
  <1>3. TypeOK'
    BY <1>1 DEF ServerInv, TypeOK, ConnTypeOK, ServerTypeOK, ReadFrame, End, Client,
                Server, Peer
  <1>4. StreamInv'
    BY <1>1, <1>2 DEF ServerInv, TypeOK, ServerTypeOK, StreamInv, Fresh
  <1>5. RefusalInv'
    BY <1>1, <1>2, EmptyFrame DEF ServerInv, TypeOK, ServerTypeOK, RefusalInv, Fresh
  <1>6. PairInv'
    BY <1>1 DEF ServerInv, TypeOK, ServerTypeOK, PairInv, Untaken, Waits, GivenUp,
                Replies, Replied, Over, Fresh
  <1>7. LockInv'
    BY <1>1 DEF ServerInv, TypeOK, ServerTypeOK, LockInv, Fresh
  <1>8. ReplyMeansExecuted'
    BY <1>2 DEF ServerInv, ReplyMeansExecuted
  <1>9. QED BY <1>3, <1>4, <1>5, <1>6, <1>7, <1>8 DEF ServerInv

\* A request that is refused is out of the stream and still fresh.
LEMMA ReadUnknownInv ==
    ASSUME ServerInv, NEW f \in wire[Client], ReadUnknown(f)
    PROVE  ServerInv'
  <1> USE DEF ReadUnknown
  <1>1. f \in Frame /\ f.call \in sent /\ f.call \in Calls /\ Fresh(f.call)
    BY DEF ServerInv, TypeOK, ConnTypeOK, ServerTypeOK, StreamInv, End, Client
  <1>2. wire'[Client] = wire[Client] \ {f} /\ wire'[Server] = wire[Server]
    BY DEF ServerInv, TypeOK, ConnTypeOK, ReadFrame, End, Client, Server, Peer
  <1>3. TypeOK'
    BY <1>1 DEF ServerInv, TypeOK, ConnTypeOK, ServerTypeOK, ReadFrame, End, Client,
                Server, Peer
  <1>4. StreamInv' /\ RefusalInv'
    BY <1>1, <1>2 DEF ServerInv, StreamInv, RefusalInv, Fresh
  <1>5. PairInv' /\ LockInv'
    BY DEF ServerInv, PairInv, LockInv, Untaken, Waits, GivenUp, Replies, Replied, Over
  <1>6. ReplyMeansExecuted'
    BY <1>2 DEF ServerInv, ReplyMeansExecuted
  <1>7. QED BY <1>3, <1>4, <1>5, <1>6 DEF ServerInv

\* The answer to a refused request is an error, and its only answer.
LEMMA RefuseWriteInv == ServerInv /\ RefuseWrite => ServerInv'
  <1> SUFFICES ASSUME ServerInv, RefuseWrite PROVE ServerInv'
    OBVIOUS
  <1> USE DEF RefuseWrite
  <1>1. /\ Refusal(current) \in Frame /\ Refusal(current).error
        /\ Refusal(current).call = current.call
        /\ current.call \in Calls \cup {NoCall}
    BY DEF ServerInv, TypeOK, ServerTypeOK, Refusal, Response, Frame
  <1>2. /\ ConnTypeOK' /\ lock = Loop /\ lock' = Free
        /\ wire'[Client] = wire[Client]
        /\ \A g \in wire'[Server] : g \in wire[Server] \/ g.error
        /\ answers' = IF current.call = NoCall THEN answers
                      ELSE [answers EXCEPT ![current.call] = @ + 1]
    BY <1>1, Responds DEF ServerInv, TypeOK
  <1>3. TypeOK'
    BY <1>1, <1>2, Holders, EmptyFrame DEF ServerInv, TypeOK, ServerTypeOK
  <1>4. StreamInv' /\ RefusalInv'
    BY <1>1, <1>2, EmptyFrame
    DEF ServerInv, TypeOK, ServerTypeOK, StreamInv, RefusalInv, Fresh
  <1>5. PairInv'
    BY <1>1, <1>2, EmptyFrame
    DEF ServerInv, TypeOK, ServerTypeOK, RefusalInv, PairInv, Untaken, Waits, GivenUp,
        Replies, Replied, Over, Fresh
  <1>6. LockInv'
    BY <1>2, Holders DEF ServerInv, LockInv
  <1>7. ReplyMeansExecuted'
    BY <1>2 DEF ServerInv, ReplyMeansExecuted
  <1>8. QED BY <1>3, <1>4, <1>5, <1>6, <1>7 DEF ServerInv

\* The other steps of the loop change little but its place.
LEMMA LoopMovesInv ==
    ASSUME ServerInv,
           OptionFails \/ ReadBodyAsHeader \/ ReadEnds \/ RefuseLock \/ Finish
    PROVE  ServerInv'
  <1>1. TypeOK'
    BY Holders, EmptyFrame
    DEF ServerInv, TypeOK, ConnTypeOK, ServerTypeOK, connVars, OptionFails,
        ReadBodyAsHeader, ReadEnds, RefuseLock, Finish, CloseEnd, Lock, End
  <1>2. UNCHANGED <<wire, handler, worker, request, executed, answers, sent>>
    BY DEF connVars, OptionFails, ReadBodyAsHeader, ReadEnds, RefuseLock, Finish, CloseEnd
  <1>3. StreamInv' /\ ReplyMeansExecuted'
    BY <1>2 DEF ServerInv, StreamInv, ReplyMeansExecuted, Fresh
  <1>4. RefusalInv'
    BY <1>2, EmptyFrame
    DEF ServerInv, RefusalInv, Fresh, OptionFails, ReadBodyAsHeader, ReadEnds, RefuseLock,
        Finish
  <1>5. PairInv'
    BY <1>2 DEF ServerInv, PairInv, Untaken, Waits, GivenUp, Replies, Replied, Over,
        OptionFails, ReadBodyAsHeader, ReadEnds, RefuseLock, Finish, HandlersDone
  <1>6. LockInv'
    BY <1>2, Holders DEF ServerInv, LockInv, OptionFails, ReadBodyAsHeader, ReadEnds,
        RefuseLock, Finish, Lock
  <1>7. QED BY <1>1, <1>3, <1>4, <1>5, <1>6 DEF ServerInv

-----------------------------------------------------------------------------
(* The handler and the worker of a request.                                 *)

\* Neither goroutine exists before the loop has taken the request.
LEMMA Taken ==
    ASSUME ServerInv, NEW c \in Calls, handler[c] # "none"
    PROVE  /\ ~Fresh(c) /\ c \in sent /\ current.call # c /\ request[c].call = c
           /\ \A f \in wire[Client] : f.call # c
  BY DEF ServerInv, StreamInv, RefusalInv, PairInv, Fresh

\* The steps that write nothing: the method runs, the two goroutines meet or
\* the handler gives up, they wait for the mutex, and they end.
LEMMA PairMovesInv ==
    ASSUME ServerInv, NEW c \in Calls,
           \/ Execute(c) \/ TimedOut(c) \/ TimeoutLock(c) \/ ReplyLock(c) \/ Sent(c)
           \/ \E error \in BOOLEAN : Called(c, error)
    PROVE  ServerInv'
  <1> USE DEF Execute, Called, TimedOut, TimeoutLock, ReplyLock, Sent, SetError,
              GoHandler, GoWorker, Lock
  <1>1. UNCHANGED <<connVars, loop, timed, ahead, current, args, answers, sent>>
    OBVIOUS
  <1>2. handler[c] # "none"
    BY DEF ServerInv, PairInv, Untaken, Waits, GivenUp, Replies, Replied, Over
  <1>3. TypeOK'
    <2>1. ConnTypeOK'
      BY <1>1 DEF ServerInv, TypeOK, ConnTypeOK, connVars
    <2>2. request' \in [Calls -> Frame]
      <3>1. \/ request' = request
            \/ \E error \in BOOLEAN : request' = [request EXCEPT ![c].error = error]
        OBVIOUS
      <3>2. request \in [Calls -> Frame]
        BY DEF ServerInv, TypeOK, ServerTypeOK
      <3>3. \A error \in BOOLEAN : [request[c] EXCEPT !.error = error] \in Frame
        BY <3>2 DEF Frame
      <3>4. QED BY <3>1, <3>2, <3>3
    <2>3. QED
      BY <1>1, <2>1, <2>2, Holders DEF ServerInv, TypeOK, ServerTypeOK
  <1>4. StreamInv' /\ RefusalInv'
    <2>1. ASSUME NEW d \in Calls, d # c
          PROVE  /\ handler'[d] = handler[d] /\ worker'[d] = worker[d]
                 /\ executed'[d] = executed[d] /\ answers'[d] = answers[d]
      BY <1>1, <2>1 DEF ServerInv, TypeOK, ServerTypeOK
    <2>2. \A d \in Calls : d # c /\ Fresh(d) =>
             /\ handler'[d] = "none" /\ worker'[d] = "none"
             /\ executed'[d] = 0 /\ answers'[d] = 0
      BY <2>1 DEF Fresh
    <2>3. /\ c \in sent /\ current.call # c
          /\ \A f \in wire[Client] : f.call # c
      BY <1>2, Taken
    <2>4. wire'[Client] = wire[Client] /\ current' = current /\ sent' = sent /\ loop' = loop
          /\ sent \subseteq Calls
      BY <1>1 DEF ServerInv, TypeOK, ServerTypeOK, connVars
    <2>5. StreamInv'
      <3>1. \A d \in Calls : d \notin sent => Fresh(d) /\ d # c
        BY <2>3 DEF ServerInv, StreamInv
      <3>2. \A f \in wire[Client] : f.call \in sent /\ f.call \in Calls /\ Fresh(f.call) /\ f.call # c
        BY <2>3, <2>4 DEF ServerInv, StreamInv
      <3>3. QED BY <3>1, <3>2, <2>2, <2>4 DEF ServerInv, StreamInv, Fresh
    <2>6. RefusalInv'
      BY <2>2, <2>3, <2>4 DEF ServerInv, RefusalInv, Fresh
    <2>7. QED BY <2>5, <2>6
  <1>5. PairInv'
    <2>1. ASSUME NEW d \in Calls, d # c
          PROVE  /\ handler'[d] = handler[d] /\ worker'[d] = worker[d]
                 /\ executed'[d] = executed[d] /\ request'[d] = request[d]
      BY <2>1 DEF ServerInv, TypeOK, ServerTypeOK
    <2>2. /\ Untaken(c)' \/ Waits(c)' \/ GivenUp(c)' \/ Replies(c)' \/ Replied(c)' \/ Over(c)'
          /\ executed'[c] = IF worker'[c] \in {"none", "call"} THEN 0 ELSE 1
          /\ request'[c].call = c
          /\ loop = "closed" => handler'[c] = "ended"
      <3> USE <1>1, <1>2 DEF ServerInv, TypeOK, ServerTypeOK, PairInv, Untaken, Waits,
                             GivenUp, Replies, Replied, Over
      <3>1. CASE Execute(c)
        BY <3>1
      <3>2. CASE \E error \in BOOLEAN : Called(c, error)
        BY <3>2 DEF Frame
      <3>3. CASE TimedOut(c)
        BY <3>3 DEF Frame
      <3>4. CASE TimeoutLock(c) \/ ReplyLock(c)
        BY <3>4
      <3>5. CASE Sent(c)
        BY <3>5
      <3>6. QED BY <3>1, <3>2, <3>3, <3>4, <3>5
    <2>3. QED
      BY <1>1, <2>1, <2>2
      DEF ServerInv, PairInv, Untaken, Waits, GivenUp, Replies, Replied, Over
  <1>6. LockInv'
    BY <1>1, Holders DEF ServerInv, TypeOK, ServerTypeOK, LockInv
  <1>7. ReplyMeansExecuted'
    BY <1>1 DEF ServerInv, TypeOK, ConnTypeOK, ServerTypeOK, PairInv, ReplyMeansExecuted,
                connVars, End, Server, Frame
  <1>8. QED BY <1>3, <1>4, <1>5, <1>6, <1>7 DEF ServerInv

\* The steps that answer: the handler that gave up, with an error, and the
\* worker whose handler waits for it, after the method.
LEMMA PairWritesInv ==
    ASSUME ServerInv, NEW c \in Calls, TimeoutWrite(c) \/ ReplyWrite(c)
    PROVE  ServerInv'
  <1> USE DEF TimeoutWrite, ReplyWrite, GoHandler, GoWorker
  <1>1. UNCHANGED <<loop, timed, ahead, current, request, args, executed, sent>>
    OBVIOUS
  <1>2. /\ handler[c] # "none" /\ answers[c] = 0
        /\ request[c].error \/ executed[c] = 1
        /\ loop # "closed"
    BY DEF ServerInv, PairInv, Untaken, Waits, GivenUp, Replies, Replied, Over
  <1>3. /\ request[c] \in Frame /\ request[c].call = c
        /\ Response(request[c]) \in Frame
        /\ Response(request[c]).call = c /\ Response(request[c]).error = request[c].error
        /\ (request[c].error \/ c \notin BadReply) \in BOOLEAN
    <2>1. request[c] \in Frame /\ request[c].call = c
      BY <1>2, Taken DEF ServerInv, TypeOK, ServerTypeOK
    <2>2. QED BY <2>1 DEF Response, Frame
  <1>4. /\ ConnTypeOK' /\ lock' = Free
        /\ lock = IF TimeoutWrite(c) THEN Handler(c) ELSE Worker(c)
        /\ wire'[Client] = wire[Client]
        /\ \A g \in wire'[Server] : \/ g \in wire[Server]
                                    \/ g.call = c /\ g.error = request[c].error
        /\ answers' = [answers EXCEPT ![c] = @ + 1]
    <2>1. CASE TimeoutWrite(c)
      BY <1>3, <2>1, Responds, EmptyFrame DEF ServerInv, TypeOK
    <2>2. CASE ReplyWrite(c) /\ ~TimeoutWrite(c)
      BY <1>3, <2>2, Responds, EmptyFrame DEF ServerInv, TypeOK
    <2>3. QED BY <2>1, <2>2
  <1>5. TypeOK'
    <2>1. CASE TimeoutWrite(c)
      BY <1>1, <1>4, <2>1, Holders DEF ServerInv, TypeOK, ServerTypeOK
    <2>2. CASE ReplyWrite(c)
      BY <1>1, <1>4, <2>2, Holders DEF ServerInv, TypeOK, ServerTypeOK
    <2>3. QED BY <2>1, <2>2
  <1>6. StreamInv' /\ RefusalInv'
    <2>1. ASSUME NEW d \in Calls, d # c
          PROVE  /\ handler'[d] = handler[d] /\ worker'[d] = worker[d]
                 /\ executed'[d] = executed[d] /\ answers'[d] = answers[d]
      BY <1>1, <1>4, <2>1 DEF ServerInv, TypeOK, ServerTypeOK
    <2>2. \A d \in Calls : d # c /\ Fresh(d) =>
             /\ handler'[d] = "none" /\ worker'[d] = "none"
             /\ executed'[d] = 0 /\ answers'[d] = 0
      BY <2>1 DEF Fresh
    <2>3. /\ c \in sent /\ current.call # c
          /\ \A f \in wire[Client] : f.call # c
      BY <1>2, Taken
    <2>4. wire'[Client] = wire[Client] /\ current' = current /\ sent' = sent /\ loop' = loop
          /\ sent \subseteq Calls
      BY <1>1, <1>4 DEF ServerInv, TypeOK, ServerTypeOK, connVars
    <2>5. StreamInv'
      <3>1. \A d \in Calls : d \notin sent => Fresh(d) /\ d # c
        BY <2>3 DEF ServerInv, StreamInv
      <3>2. \A f \in wire[Client] : f.call \in sent /\ f.call \in Calls /\ Fresh(f.call) /\ f.call # c
        BY <2>3, <2>4 DEF ServerInv, StreamInv
      <3>3. QED BY <3>1, <3>2, <2>2, <2>4 DEF ServerInv, StreamInv, Fresh
    <2>6. RefusalInv'
      BY <2>2, <2>3, <2>4 DEF ServerInv, RefusalInv, Fresh
    <2>7. QED BY <2>5, <2>6
  <1>7. PairInv'
    <2>1. ASSUME NEW d \in Calls, d # c
          PROVE  /\ handler'[d] = handler[d] /\ worker'[d] = worker[d]
                 /\ answers'[d] = answers[d]
      BY <1>4, <2>1 DEF ServerInv, TypeOK, ServerTypeOK
    <2>2. /\ Replied(c)' \/ Over(c)'
          /\ executed'[c] = IF worker'[c] \in {"none", "call"} THEN 0 ELSE 1
      <3> USE <1>1, <1>4 DEF ServerInv, TypeOK, ServerTypeOK, PairInv, Untaken, Waits,
                             GivenUp, Replies, Replied, Over
      <3>1. CASE TimeoutWrite(c)
        BY <3>1
      <3>2. CASE ReplyWrite(c)
        BY <3>2
      <3>3. QED BY <3>1, <3>2
    <2>3. QED
      BY <1>1, <1>2, <1>3, <2>1, <2>2
      DEF ServerInv, PairInv, Untaken, Waits, GivenUp, Replies, Replied, Over
  <1>8. LockInv'
    <2>1. CASE TimeoutWrite(c)
      BY <1>1, <1>4, <2>1, Holders DEF ServerInv, TypeOK, ServerTypeOK, LockInv
    <2>2. CASE ReplyWrite(c)
      BY <1>1, <1>4, <2>2, Holders DEF ServerInv, TypeOK, ServerTypeOK, LockInv
    <2>3. QED BY <2>1, <2>2
  <1>9. ReplyMeansExecuted'
    BY <1>1, <1>2, <1>4 DEF ServerInv, ReplyMeansExecuted
  <1>10. QED BY <1>5, <1>6, <1>7, <1>8, <1>9 DEF ServerInv

-----------------------------------------------------------------------------
(* The client.                                                              *)

\* A request enters the stream once, whole or cut off, before anything was done
\* for its call.
LEMMA ClientWritesInv ==
    ASSUME ServerInv, NEW c \in Calls, ClientWrites(c)
    PROVE  ServerInv'
  <1> DEFINE f == Request(c, Cardinality(sent) + 1)
             cut == [f EXCEPT !.body = FALSE]
  <1>1. /\ c \notin sent /\ sent' = sent \cup {c} /\ UNCHANGED serverVars
        /\ IsFiniteSet(sent) /\ Cardinality(sent) < MaxSeq
    BY DEF ClientWrites, ServerInv, StreamInv
  <1>2. /\ f \in Frame /\ f.call = c
        /\ cut \in Frame /\ cut.call = c
    <2>1. Cardinality(sent) + 1 \in 0..MaxSeq
      BY <1>1, FS_CardinalityType, ConnAssumption
    <2>2. QED BY <2>1 DEF Request, Frame
  <1>3. /\ ConnTypeOK' /\ wire'[Server] = wire[Server]
        /\ \/ wire'[Client] = wire[Client]
           \/ wire'[Client] = wire[Client] \cup {f}
           \/ wire'[Client] = wire[Client] \cup {cut}
    <2>1. WriteFrame(Client, f) \/ WriteLost(Client) \/ WriteFails(Client, f, FALSE)
      BY DEF ClientWrites
    <2>2. /\ \/ wire' = wire
             \/ wire' = [wire EXCEPT ![Client] = @ \cup {f}]
             \/ wire' = [wire EXCEPT ![Client] = @ \cup {cut}]
          /\ ends' = ends \/ ends' = [ends EXCEPT ![Client] = "closed"]
          /\ broken' = broken \/ broken' = [broken EXCEPT ![Client] = TRUE]
      BY <2>1 DEF WriteFrame, WriteLost, WriteFails
    <2> HIDE DEF f, cut
    <2>3. wire' \in [End -> SUBSET Frame] /\ wire'[Server] = wire[Server]
      BY <1>2, <2>2 DEF ServerInv, TypeOK, ConnTypeOK, End, Client, Server
    <2>4. ends' \in [End -> {"open", "closed"}] /\ broken' \in [End -> BOOLEAN]
      BY <2>2 DEF ServerInv, TypeOK, ConnTypeOK, End
    <2>5. QED
      BY <2>2, <2>3, <2>4 DEF ServerInv, TypeOK, ConnTypeOK, End, Client
  <1> HIDE DEF f, cut
  <1>4. Cardinality(sent') <= MaxSeq /\ IsFiniteSet(sent')
    <2>1. /\ IsFiniteSet(sent \cup {c})
          /\ Cardinality(sent \cup {c}) = Cardinality(sent) + 1
      BY <1>1, FS_AddElement
    <2>2. Cardinality(sent) \in Nat
      BY <1>1, FS_CardinalityType
    <2>3. QED BY <1>1, <2>1, <2>2, ConnAssumption
  <1>5. Fresh(c) /\ \A g \in wire[Client] : g.call # c
    BY <1>1 DEF ServerInv, StreamInv
  <1>6. TypeOK'
    BY <1>1, <1>3 DEF ServerInv, TypeOK, ServerTypeOK, serverVars
  <1>7. StreamInv'
    <2>1. \A g \in wire'[Client] :
             g \in wire[Client] \/ (g.call = c /\ wire'[Client] = wire[Client] \cup {g})
      BY <1>2, <1>3
    <2>2. \A g, h \in wire'[Client] : g.call = h.call => g = h
      BY <1>5, <2>1 DEF ServerInv, StreamInv
    <2>3. QED
      BY <1>1, <1>4, <1>5, <2>1, <2>2 DEF ServerInv, StreamInv, Fresh, serverVars
  <1>8. RefusalInv'
    BY <1>1, <1>2, <1>3 DEF ServerInv, RefusalInv, Fresh, serverVars
  <1>9. PairInv' /\ LockInv' /\ ReplyMeansExecuted'
    BY <1>1, <1>3
    DEF ServerInv, PairInv, LockInv, ReplyMeansExecuted, Untaken, Waits, GivenUp, Replies,
        Replied, Over, serverVars
  <1>10. QED BY <1>6, <1>7, <1>8, <1>9 DEF ServerInv

\* What the client reads leaves the stream; it may close its end at any time.
LEMMA ClientMovesInv ==
    ASSUME ServerInv, ClientCloses \/ \E f \in wire[Server] : ClientReads(f)
    PROVE  ServerInv'
  <1>1. UNCHANGED <<serverVars, sent>>
    BY DEF ClientCloses, ClientReads
  <1>2. ConnTypeOK' /\ wire'[Client] = wire[Client] /\ wire'[Server] \subseteq wire[Server]
    <2>1. CASE ClientCloses
      BY <2>1 DEF ServerInv, TypeOK, ConnTypeOK, End, Client, Server, ClientCloses, CloseEnd
    <2>2. CASE \E f \in wire[Server] : ClientReads(f)
      BY <2>2 DEF ServerInv, TypeOK, ConnTypeOK, End, Client, Server, ClientReads,
                  ReadFrame, Peer
    <2>3. QED BY <2>1, <2>2
  <1>3. TypeOK'
    BY <1>1, <1>2 DEF ServerInv, TypeOK, ServerTypeOK, serverVars
  <1>4. StreamInv' /\ RefusalInv' /\ ReplyMeansExecuted'
    BY <1>1, <1>2
    DEF ServerInv, StreamInv, RefusalInv, ReplyMeansExecuted, Fresh, serverVars
  <1>5. PairInv' /\ LockInv'
    BY <1>1
    DEF ServerInv, PairInv, LockInv, Untaken, Waits, GivenUp, Replies, Replied, Over,
        serverVars
  <1>6. QED BY <1>3, <1>4, <1>5 DEF ServerInv

\* A step that changes nothing the server sees.
LEMMA ServerStutterInv == ServerInv /\ UNCHANGED vars => ServerInv'
  BY DEF vars, connVars, serverVars, ServerInv, TypeOK, ConnTypeOK, ServerTypeOK,
         StreamInv, RefusalInv, PairInv, LockInv, ReplyMeansExecuted, Fresh, Untaken,
         Waits, GivenUp, Replies, Replied, Over

\* Every step of the server, and of its client, keeps the invariant.
LEMMA ServerStepInv == ServerInv /\ [Next]_vars => ServerInv'
  <1> SUFFICES ASSUME ServerInv, [Next]_vars PROVE ServerInv'
    OBVIOUS
  <1>1. CASE LoopStep
    BY <1>1, ReadOptionInv, ReadRequestInv, ReadUnknownInv, RefuseWriteInv, LoopMovesInv
    DEF LoopStep
  <1>2. ASSUME NEW c \in Calls, HandlerStep(c) \/ Execute(c)
        PROVE  ServerInv'
    BY <1>2, PairMovesInv, PairWritesInv DEF HandlerStep
  <1>3. CASE ClientStep
    BY <1>3, ClientWritesInv, ClientMovesInv DEF ClientStep
  <1>4. CASE UNCHANGED vars
    BY <1>4, ServerStutterInv
  <1>5. QED BY <1>1, <1>2, <1>3, <1>4 DEF Next, ServerStep

\* A request is in the stream, refused or served by its two goroutines, never
\* two of these, and the places of the goroutines say how often it was answered.
THEOREM ServerInvariant == Spec => []ServerInv
  BY ServerInitInv, ServerStepInv, PTL DEF Spec

-----------------------------------------------------------------------------
\* Every variable of the server keeps its type.
THEOREM ServerTypeCorrect == Spec => []TypeOK
  <1>1. ServerInv => TypeOK
    BY DEF ServerInv
  <1>2. QED BY <1>1, ServerInvariant, PTL

\* A request is answered at most once: the handler that times out and the
\* worker that finishes late never both call sendResponse.
THEOREM ServerAnsweredOnce == Spec => []AnsweredOnce
  <1>1. ASSUME ServerInv PROVE AnsweredOnce
    <2> SUFFICES ASSUME NEW c \in Calls PROVE answers[c] <= 1
      BY DEF AnsweredOnce
    <2>1. answers[c] \in {0, 1}
      BY <1>1 DEF ServerInv, PairInv, Untaken, Waits, GivenUp, Replies, Replied, Over
    <2>2. QED BY <2>1
  <1>2. QED BY <1>1, ServerInvariant, PTL

\* When ServerCodec has closed the codec, no goroutine of any request is in
\* sendResponse or on its way there.
THEOREM ServerNoWriteAfterClose == Spec => []NoWriteAfterClose
  <1>1. ServerInv => NoWriteAfterClose
    BY DEF ServerInv, PairInv, NoWriteAfterClose, Untaken, Waits, GivenUp, Replies,
           Replied, Over
  <1>2. QED BY <1>1, ServerInvariant, PTL

\* Of the loop, the handlers and the workers, at most one is in Codec.Write.
THEOREM ServerWritesExclusive == Spec => []WritesExclusive
  <1>1. ASSUME ServerInv PROVE WritesExclusive
    <2>1. \A w \in Writing : w = lock
      BY <1>1 DEF ServerInv, LockInv, Writing
    <2>2. QED BY <2>1 DEF WritesExclusive
  <1>2. QED BY <1>1, ServerInvariant, PTL

\* A response without an error is for a request whose method ran, once.
THEOREM ServerReplyMeansExecuted == Spec => []ReplyMeansExecuted
  <1>1. ServerInv => ReplyMeansExecuted
    BY DEF ServerInv
  <1>2. QED BY <1>1, ServerInvariant, PTL
=============================================================================
