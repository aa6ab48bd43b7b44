----------------------------- MODULE RpcServer -----------------------------
(***************************************************************************)
(* The server's side of one connection, 7-day-golang/service/server.go:     *)
(* ServerConn reads the Option, the loop of ServerCodec reads requests, and *)
(* each request gets a goroutine that waits (handleRequest, the handler)    *)
(* and one that runs the method and replies (the worker), which meet on the *)
(* unbuffered channels called and sent.                                     *)
(*                                                                          *)
(* A request is known by the call it was sent for: a client sends each call *)
(* at most once.  The WaitGroup is the set of handlers that have not ended. *)
(***************************************************************************)
EXTENDS RpcConn, FiniteSets

CONSTANTS HandleTimeouts, \* whether Option.HandleTimeout is set, in the Options sent
          Unknown,        \* calls to a service that may not be registered yet
          BadArgs,        \* calls whose body does not decode into the argument
          BadReply        \* calls whose reply value cannot be encoded

ASSUME ServerAssumption ==
    /\ HandleTimeouts \subseteq BOOLEAN /\ HandleTimeouts # {}
    /\ Unknown \subseteq Calls /\ BadArgs \subseteq Calls /\ BadReply \subseteq Calls

VARIABLES loop,      \* where ServerConn and ServerCodec are
          timed,     \* Option.HandleTimeout is not zero; FALSE before it is read
          ahead,     \* what the decoder meets next: a header, a body that was
                     \* not read, or the rest of a frame that was cut
          current,   \* the request the loop refuses
          handler,   \* where handleRequest of a call's request is
          worker,    \* where its inner goroutine is
          request,   \* the header of the request, shared by the two
          args,      \* what the method got: "none", "sent" or "zero"
          lock,      \* the holder of the mutex sending
          executed,  \* how often the method of the call ran (history)
          answers,   \* how many responses to the call were written (history)
          sent       \* the calls whose request the client has written

serverVars == <<loop, timed, ahead, current, handler, worker, request, args, lock,
                executed, answers>>
vars == <<connVars, serverVars, sent>>

RequestOffByOne(c, s) ==  \* faulty, for mutation
    [seq |-> s + 1, call |-> c, error |-> FALSE, body |-> TRUE]
Request(c, s) == [seq |-> s, call |-> c, error |-> FALSE, body |-> TRUE]
NoRequest == [seq |-> 0, call |-> NoCall, error |-> FALSE, body |-> FALSE]

\* The goroutines that write responses.
Loop == <<"loop", NoCall>>
Handler(c) == <<"handler", c>>
Worker(c) == <<"worker", c>>
Free == <<"free", NoCall>>
Holder == {Free, Loop} \cup {Handler(c) : c \in Calls} \cup {Worker(c) : c \in Calls}

ServerTypeOK ==
    /\ loop \in {"option", "read", "refuse", "write", "drain", "closed", "abandoned"}
    /\ timed \in BOOLEAN /\ ahead \in {"header", "body", "fragment"}
    /\ current \in Frame
    /\ handler \in [Calls -> {"none", "select", "called", "timeout", "write", "ended"}]
    /\ worker \in [Calls -> {"none", "call", "called", "reply", "write", "sent", "ended"}]
    /\ request \in [Calls -> Frame]
    /\ args \in [Calls -> {"none", "sent", "zero"}]
    /\ lock \in Holder
    /\ executed \in [Calls -> Nat] /\ answers \in [Calls -> Nat]
    /\ sent \subseteq Calls

TypeOK == ConnTypeOK /\ ServerTypeOK

ServerInit ==
    /\ loop = "option" /\ timed = FALSE /\ ahead = "header" /\ current = NoRequest
    /\ handler = [c \in Calls |-> "none"]
    /\ worker = [c \in Calls |-> "none"]
    /\ request = [c \in Calls |-> NoRequest]
    /\ args = [c \in Calls |-> "none"]
    /\ lock = Free
    /\ executed = [c \in Calls |-> 0] /\ answers = [c \in Calls |-> 0]

-----------------------------------------------------------------------------
(* ServerConn and the loop of ServerCodec.                                  *)

\* json.NewDecoder(conn) reads ahead of the Option: the requests that were in
\* its buffer are gone with it, the last of them perhaps in part.
ReadOption(lost) ==
    /\ loop = "option" /\ loop' = "read"
    /\ ends[Server] = "open"
    /\ timed' \in HandleTimeouts
    /\ wire' = [wire EXCEPT ![Client] = @ \ lost]
    /\ ahead' \in IF lost = {} THEN {"header"} ELSE {"header", "body", "fragment"}
    /\ UNCHANGED <<ends, broken, current, handler, worker, request, args, lock,
                   executed, answers, sent>>

\* The connection is cut, or what comes is no Option, not of geerpc (its
\* MagicNumber) or of a codec that is not known: ServerConn returns without
\* closing the connection, open as it may be.
OptionFails ==
    /\ loop = "option" /\ loop' = "abandoned"
    /\ UNCHANGED <<connVars, timed, ahead, current, handler, worker, request, args, lock,
                   executed, answers, sent>>

\* readRequest when findService succeeds.  A ReadBody error is only logged.
\* Over gob it always fails: the client encodes Args as an interface value,
\* which does not decode into the argument's own type.
ReadRequest(f) ==
    /\ loop = "read" /\ ahead = "header"
    /\ ReadFrame(Server, f)
    /\ request' = [request EXCEPT ![f.call] = f]
    /\ \/ /\ BodyCanDecode(f) /\ CodecType = "json" /\ f.call \notin BadArgs
          /\ args' = [args EXCEPT ![f.call] = "sent"]
       \/ /\ BodyCanFail(f) \/ CodecType = "gob" \/ f.call \in BadArgs
          /\ args' = [args EXCEPT ![f.call] = "zero"]
    /\ handler' = [handler EXCEPT ![f.call] = "select"]
    /\ worker' = [worker EXCEPT ![f.call] = "call"]
    /\ UNCHANGED <<loop, timed, ahead, current, lock, executed, answers, sent>>

\* readRequest when findService fails: the body stays in the stream.
ReadUnknown(f) ==
    /\ loop = "read" /\ ahead = "header"
    /\ ReadFrame(Server, f)
    /\ f.call \in Unknown
    /\ current' = f
    /\ ahead' = IF f.body THEN "body" ELSE "header"
    /\ loop' = "refuse"
    /\ UNCHANGED <<timed, handler, worker, request, args, lock, executed, answers, sent>>

\* The body that was left is a JSON object: it decodes into an empty Header,
\* with sequence number 0 and no method.
ReadBodyAsHeader ==
    /\ loop = "read" /\ ahead = "body" /\ ahead' = "header"
    /\ CodecType = "json"
    /\ current' = NoRequest
    /\ loop' = "refuse"
    /\ UNCHANGED <<connVars, timed, handler, worker, request, args, lock, executed,
                   answers, sent>>

ReadEnds ==
    /\ loop = "read" /\ loop' = "drain"
    /\ ReadFails \/ ahead # "header"
    /\ UNCHANGED <<connVars, timed, ahead, current, handler, worker, request, args, lock,
                   executed, answers, sent>>

\* wg.Wait(); faulty, for mutation: no Wait, or a WaitGroup of the workers.
NoWait == TRUE
WorkersDone == \A c \in Calls : worker[c] \in {"none", "ended"}
HandlersDone == \A c \in Calls : handler[c] \in {"none", "ended"}

Finish ==
    /\ loop = "drain" /\ loop' = "closed"
    /\ HandlersDone
    /\ CloseEnd(Server)
    /\ UNCHANGED <<timed, ahead, current, handler, worker, request, args, lock, executed,
                   answers, sent>>

-----------------------------------------------------------------------------
(* sendResponse, called by the loop, by a handler or by a worker.           *)

\* The header of the request goes back with the response, with the error set
\* when the loop refuses it.  Faulty, for mutation: without its number; without
\* the error; a mutex that is not taken, or not released.
ResponseUnnumbered(f) == [f EXCEPT !.body = TRUE, !.seq = 0]
Response(f) == [f EXCEPT !.body = TRUE]
RefusalUnset(f) == Response(f)
Refusal(f) == [Response(f) EXCEPT !.error = TRUE]

LockUnasked(w) == lock' = w
Lock(w) == lock = Free /\ lock' = w
KeepLocked(w) == lock = w /\ UNCHANGED lock
Unlock(w) == lock = w /\ lock' = Free

WriteResponse(w, f, encodable) ==
    /\ Unlock(w)
    /\ \/ encodable /\ (WriteFrame(Server, f) \/ WriteLost(Server))
       \/ WriteFails(Server, f, encodable)
    /\ answers' = IF f.call = NoCall THEN answers ELSE [answers EXCEPT ![f.call] = @ + 1]

RefuseLock ==
    /\ loop = "refuse" /\ loop' = "write"
    /\ Lock(Loop)
    /\ UNCHANGED <<connVars, timed, ahead, current, handler, worker, request, args,
                   executed, answers, sent>>

RefuseWrite ==
    /\ loop = "write" /\ loop' = "read"
    /\ WriteResponse(Loop, Refusal(current), TRUE)
    /\ current' = NoRequest
    /\ UNCHANGED <<timed, ahead, handler, worker, request, args, executed, sent>>

-----------------------------------------------------------------------------
(* handleRequest and its inner goroutine, for the request of call c.        *)

GoHandler(c, from, to) == handler[c] = from /\ handler' = [handler EXCEPT ![c] = to]
GoWorker(c, from, to) == worker[c] = from /\ worker' = [worker EXCEPT ![c] = to]

\* req.h.Error is written; faulty, for mutation: it is not.
KeepHeader(c, error) == UNCHANGED request
SetError(c, error) == request' = [request EXCEPT ![c].error = error]

Execute(c) ==
    /\ GoWorker(c, "call", "called")
    /\ executed' = [executed EXCEPT ![c] = @ + 1]
    /\ UNCHANGED <<connVars, loop, timed, ahead, current, handler, request, args, lock,
                   answers, sent>>

\* Faulty, for mutation: the channel called has a buffer.
CalledBuffered(c, error) ==
    /\ handler[c] # "called"
    /\ GoWorker(c, "called", "reply")
    /\ SetError(c, error)
    /\ UNCHANGED <<connVars, loop, timed, ahead, current, handler, args, lock, executed,
                   answers, sent>>

\* called <- struct{}{} meets <-called: both goroutines must be there.  Only
\* then does the error that the method returned go into the shared header.
Called(c, error) ==
    /\ GoHandler(c, "select", "called")
    /\ GoWorker(c, "called", "reply")
    /\ SetError(c, error)
    /\ UNCHANGED <<connVars, loop, timed, ahead, current, args, lock, executed, answers, sent>>

\* time.After fires first, or is chosen by select when both are ready.
TimedOut(c) ==
    /\ timed
    /\ GoHandler(c, "select", "timeout")
    /\ SetError(c, TRUE)
    /\ UNCHANGED <<connVars, loop, timed, ahead, current, worker, args, lock, executed,
                   answers, sent>>

TimeoutLock(c) ==
    /\ GoHandler(c, "timeout", "write")
    /\ Lock(Handler(c))
    /\ UNCHANGED <<connVars, loop, timed, ahead, current, worker, request, args, executed,
                   answers, sent>>

TimeoutWrite(c) ==
    /\ GoHandler(c, "write", "ended")
    /\ WriteResponse(Handler(c), Response(request[c]), TRUE)
    /\ UNCHANGED <<loop, timed, ahead, current, worker, request, args, executed, sent>>

ReplyLock(c) ==
    /\ GoWorker(c, "reply", "write")
    /\ Lock(Worker(c))
    /\ UNCHANGED <<connVars, loop, timed, ahead, current, handler, request, args,
                   executed, answers, sent>>

ReplyWrite(c) ==
    /\ GoWorker(c, "write", "sent")
    /\ WriteResponse(Worker(c), Response(request[c]), request[c].error \/ c \notin BadReply)
    /\ UNCHANGED <<loop, timed, ahead, current, handler, request, args, executed, sent>>

\* sent <- struct{}{} meets <-sent.
Sent(c) ==
    /\ GoHandler(c, "called", "ended")
    /\ GoWorker(c, "sent", "ended")
    /\ UNCHANGED <<connVars, loop, timed, ahead, current, request, args, lock, executed,
                   answers, sent>>

-----------------------------------------------------------------------------
LoopStep ==
    \/ \E lost \in SUBSET wire[Client] : ReadOption(lost)
    \/ \E f \in wire[Client] : ReadRequest(f) \/ ReadUnknown(f)
    \/ OptionFails \/ ReadBodyAsHeader \/ ReadEnds \/ RefuseLock \/ RefuseWrite \/ Finish

HandlerStep(c) ==
    \/ \E error \in BOOLEAN : Called(c, error)
    \/ TimedOut(c) \/ TimeoutLock(c) \/ TimeoutWrite(c)
    \/ ReplyLock(c) \/ ReplyWrite(c) \/ Sent(c)

ServerStep ==
    \/ LoopStep
    \/ \E c \in Calls : HandlerStep(c) \/ Execute(c)

(* The client, as far as a server can tell: it numbers its requests in the  *)
(* order it writes them, reads responses, and may close at any time.        *)
ClientWrites(c) ==
    /\ c \notin sent /\ sent' = sent \cup {c} /\ Cardinality(sent) < MaxSeq
    /\ LET f == Request(c, Cardinality(sent) + 1) IN
       WriteFrame(Client, f) \/ WriteLost(Client) \/ WriteFails(Client, f, FALSE)
    /\ UNCHANGED serverVars

ClientReads(f) == ReadFrame(Client, f) /\ UNCHANGED <<serverVars, sent>>
ClientCloses == CloseEnd(Client) /\ UNCHANGED <<serverVars, sent>>

ClientStep ==
    \/ \E c \in Calls : ClientWrites(c)
    \/ \E f \in wire[Server] : ClientReads(f)
    \/ ClientCloses

Init == ConnInit /\ ServerInit /\ sent = {}
Next == ServerStep \/ ClientStep
Spec == Init /\ [][Next]_vars

(* The scheduler runs every goroutine that can run, the mutex wakes its     *)
(* waiters in the end, time.After fires, and the client reads, so that a    *)
(* Write returns.  Whether a method ever returns is up to the service.      *)
ServerFairness ==
    /\ WF_vars(LoopStep) /\ SF_vars(RefuseLock)
    /\ \A c \in Calls :
          /\ WF_vars(HandlerStep(c))
          /\ SF_vars(TimeoutLock(c)) /\ SF_vars(ReplyLock(c))
FairSpec == Spec /\ ServerFairness
MethodsReturnSpec == FairSpec /\ \A c \in Calls : WF_vars(Execute(c))

-----------------------------------------------------------------------------
(* Properties.                                                              *)

\* A request is answered at most once: the handler that times out and the
\* worker that finishes late never both call sendResponse (Day4.md:134).
AnsweredOnce == \A c \in Calls : answers[c] <= 1

\* The codec is closed after the last response: a worker that outlives a
\* timed-out handler never reaches sendResponse (server.go:127, 142-143).
NoWriteAfterClose ==
    loop = "closed" => \A c \in Calls : /\ handler[c] \in {"none", "ended"}
                                       /\ worker[c] \notin {"reply", "write", "sent"}

\* At most one goroutine is in Codec.Write: frames are never interleaved.
Writing == {w \in Holder : \/ w = Loop /\ loop = "write"
                           \/ \E c \in Calls : \/ w = Handler(c) /\ handler[c] = "write"
                                               \/ w = Worker(c) /\ worker[c] = "write"}
WritesExclusive == \A w1, w2 \in Writing : w1 = w2

\* A response without an error means that the method ran, once.
ReplyMeansExecuted ==
    \A f \in wire[Server] : f.call # NoCall /\ ~f.error => executed[f.call] = 1

\* The method runs on the arguments that were sent (Day3.md:135).
ArgumentsDelivered == \A c \in Calls : executed[c] > 0 => args[c] = "sent"

\* Without a HandleTimeout the handler of c waits for the method.
Unreturned(c) == ~timed /\ handler[c] = "select" /\ worker[c] = "call"

\* A request that the loop handed to a handler is answered, within HandleTimeout
\* if its method does not return; only without one is it not, for as long as the
\* method does not return (server.go:189-217).
ReadIsAnswered ==
    \A c \in Calls : handler[c] = "select" ~> (answers[c] = 1 \/ []Unreturned(c))

\* When the connection is cut, ServerCodec waits for its handlers and closes its
\* end (server.go:141-143).  It never does if ServerConn failed to read the Option,
\* or, with an Option like DefaultOption that sets no HandleTimeout, if a method
\* never returns.
CutIsClosed ==
    Cut ~> (loop \in {"closed", "abandoned"} \/ [](\E c \in Calls : Unreturned(c)))

\* The server reads, handles and answers every request that reached it on an
\* open connection (server.go:86) with a valid Option.
RequestIsAnswered ==
    \A c \in Calls : c \in sent ~> (answers[c] = 1 \/ Cut \/ loop = "abandoned")
=============================================================================
