----------------------------- MODULE RpcClient -----------------------------
(***************************************************************************)
(* The RPC client of 7-day-golang/client/client.go: any number of           *)
(* goroutines that send calls over one connection (Go, Call), and the       *)
(* receive goroutine that completes them.                                   *)
(*                                                                          *)
(* The mutex sending is a variable.  The mutex mu is held across a blocking *)
(* operation in one place only, terminateCalls; every other section under   *)
(* it is one atomic action guarded by MuFree.                               *)
(***************************************************************************)
EXTENDS RpcConn, Sequences, FiniteSets

CONSTANTS SyncCalls,    \* the calls made with Call, the others use Go
          Unencodable,  \* calls whose Args the codec cannot encode
          Misfit,       \* calls whose Reply cannot hold the server's answer
          Chans,        \* the Done channels
          ChanOf,       \* ChanOf[c]: the Done channel of call c
          Cap,          \* Cap[ch]: its capacity, which Go only wants not to be 0
          Receiver,     \* the receive goroutine as a holder of sending
          MaxUnread     \* bound: the replies on their way to the client

ASSUME ClientAssumption ==
    /\ SyncCalls \subseteq Calls
    /\ ChanOf \in [Calls -> Chans]
    /\ \A c \in SyncCalls, d \in Calls : ChanOf[d] = ChanOf[c] => d = c
    /\ Cap \in [Chans -> Nat \ {0}]
    /\ Receiver \notin Calls \cup {NoCall}
    /\ MaxUnread \in Nat

VARIABLES seq,        \* the next sequence number
          pending,    \* the map pending: NoCall where the map has no entry
          sending,    \* who holds the mutex sending, NoCall if nobody
          closed,     \* the user has called Close
          shutdown,   \* terminateCalls has started
          pc,         \* where the goroutine that issued the call is
          callSeq,    \* Call.Seq
          callError,  \* Call.Error: "nil", or where the error comes from
          callReply,  \* the call whose answer was decoded into Call.Reply
          expired,    \* the calls whose context is done
          chan,       \* the Done channels
          dones,      \* how often done() completed for the call (history)
          got,        \* what the user was told: "none", "nil" or an error
          rpc,        \* where the receive goroutine is
          rHead,      \* the frame it is reading
          rCall,      \* the call it has in hand
          rNext,      \* where it continues after done()
          left        \* the pending entries terminateCalls has yet to visit

userVars == <<pc, callSeq, expired, got>>
receiverVars == <<rpc, rHead, rCall, rNext, left>>
clientVars == <<seq, pending, sending, closed, shutdown, callError, callReply,
                chan, dones, userVars, receiverVars>>

Errors == {"nil", "shutdown", "write", "server", "body", "terminated"}
NoFrame == [seq |-> 0, call |-> NoCall, error |-> FALSE, body |-> FALSE]

ClientTypeOK ==
    /\ seq \in 1..MaxSeq + 1
    /\ pending \in [0..MaxSeq -> Calls \cup {NoCall}]
    /\ sending \in Calls \cup {NoCall, Receiver}
    /\ closed \in BOOLEAN /\ shutdown \in BOOLEAN
    /\ pc \in [Calls -> {"idle", "lock", "register", "write", "unregister",
                         "fail", "wait", "cancel", "returned"}]
    /\ callSeq \in [Calls -> 0..MaxSeq]
    /\ callError \in [Calls -> Errors]
    /\ callReply \in [Calls -> Calls \cup {NoCall}]
    /\ expired \subseteq SyncCalls
    /\ chan \in [Chans -> Seq(Calls)]
    /\ dones \in [Calls -> Nat]
    /\ got \in [Calls -> Errors \cup {"none", "context"}]
    /\ rpc \in {"header", "remove", "body", "done", "lock", "terminate", "ended"}
    /\ rHead \in Frame
    /\ rCall \in Calls \cup {NoCall}
    /\ rNext \in {"header", "lock", "terminate"}
    /\ left \subseteq 0..MaxSeq

ClientInit ==
    /\ seq = 1
    /\ pending = [s \in 0..MaxSeq |-> NoCall]
    /\ sending = NoCall
    /\ closed = FALSE /\ shutdown = FALSE
    /\ pc = [c \in Calls |-> "idle"]
    /\ callSeq = [c \in Calls |-> 0]
    /\ callError = [c \in Calls |-> "nil"]
    /\ callReply = [c \in Calls |-> NoCall]
    /\ expired = {}
    /\ chan = [ch \in Chans |-> <<>>]
    /\ dones = [c \in Calls |-> 0]
    /\ got = [c \in Calls |-> "none"]
    /\ rpc = "header" /\ rHead = NoFrame /\ rCall = NoCall /\ rNext = "header"
    /\ left = {}

\* terminateCalls holds mu while it walks the map and blocks in done().
MuFree == rpc # "terminate" /\ ~(rpc = "done" /\ rNext = "terminate")

\* Call.done(): the channel send blocks until there is room.
Room(c) == Len(chan[ChanOf[c]]) < Cap[ChanOf[c]]
Done(c) ==
    /\ Room(c)
    /\ chan' = [chan EXCEPT ![ChanOf[c]] = Append(@, c)]
    /\ dones' = [dones EXCEPT ![c] = @ + 1]

\* removeCall and the numbering of registerCall, with faulty variants for
\* mutation: without the delete, and with the number repeated or skipped.
Kept(s) == pending
Removed(s) == [pending EXCEPT ![s] = NoCall]
SameSeq == seq
SkippedSeq == seq + 2
NextSeq == seq + 1

-----------------------------------------------------------------------------
(* The goroutine that issues call c: Go, send, registerCall, Call.          *)

Goto(c, from, to) == pc[c] = from /\ pc' = [pc EXCEPT ![c] = to]

Issue(c) ==
    /\ Goto(c, "idle", "lock")
    /\ UNCHANGED <<connVars, seq, pending, sending, closed, shutdown, callError,
                   callReply, chan, dones, callSeq, expired, got, receiverVars>>

LockSending(c) ==
    /\ Goto(c, "lock", "register")
    /\ sending = NoCall /\ sending' = c
    /\ UNCHANGED <<connVars, seq, pending, closed, shutdown, callError, callReply,
                   chan, dones, callSeq, expired, got, receiverVars>>

RegisterCall(c) ==
    /\ MuFree
    /\ ~(shutdown \/ closed)
    /\ seq <= MaxSeq
    /\ Goto(c, "register", "write")
    /\ callSeq' = [callSeq EXCEPT ![c] = seq]
    /\ pending' = [pending EXCEPT ![seq] = c]
    /\ seq' = NextSeq
    /\ UNCHANGED <<connVars, sending, closed, shutdown, callError, callReply,
                   chan, dones, expired, got, receiverVars>>

RegisterRefused(c) ==
    /\ MuFree
    /\ shutdown \/ closed
    /\ Goto(c, "register", "fail")
    /\ callError' = [callError EXCEPT ![c] = "shutdown"]
    /\ UNCHANGED <<connVars, seq, pending, sending, closed, shutdown, callReply,
                   chan, dones, callSeq, expired, got, receiverVars>>

RequestFrame(c) == [seq |-> callSeq[c], call |-> c, error |-> FALSE, body |-> TRUE]

\* Write returns nil, whether or not the request left; send unlocks sending.
WriteRequest(c) ==
    /\ Goto(c, "write", "wait")
    /\ c \notin Unencodable
    /\ WriteFrame(Client, RequestFrame(c)) \/ WriteLost(Client)
    /\ sending' = NoCall
    /\ UNCHANGED <<seq, pending, closed, shutdown, callError, callReply, chan,
                   dones, callSeq, expired, got, receiverVars>>

WriteRequestFails(c) ==
    /\ Goto(c, "write", "unregister")
    /\ WriteFails(Client, RequestFrame(c), c \notin Unencodable)
    /\ UNCHANGED <<seq, pending, sending, closed, shutdown, callError, callReply,
                   chan, dones, callSeq, expired, got, receiverVars>>

\* send after a failed Write: the receiver may have taken the call meanwhile.
Unregister(c) ==
    /\ MuFree
    /\ pc[c] = "unregister"
    /\ pending' = Removed(callSeq[c])
    /\ IF pending[callSeq[c]] = NoCall
       THEN /\ Goto(c, "unregister", "wait")
            /\ sending' = NoCall
            /\ UNCHANGED callError
       ELSE /\ Goto(c, "unregister", "fail")
            /\ callError' = [callError EXCEPT ![pending[callSeq[c]]] = "write"]
            /\ UNCHANGED sending
    /\ UNCHANGED <<connVars, seq, closed, shutdown, callReply, chan, dones,
                   callSeq, expired, got, receiverVars>>

\* done() at the two places in send; the deferred Unlock follows.
FailCall(c) ==
    /\ Goto(c, "fail", "wait")
    /\ Done(c)
    /\ sending' = NoCall
    /\ UNCHANGED <<connVars, seq, pending, closed, shutdown, callError, callReply,
                   callSeq, expired, got, receiverVars>>

\* A user takes the head of a Done channel: Call's select for the calls of
\* SyncCalls, whose channel is their own, the reader of the channel for Go.
Consume(ch) ==
    /\ chan[ch] # <<>>
    /\ LET c == Head(chan[ch]) IN
       /\ c \in SyncCalls => pc[c] = "wait"
       /\ got' = [got EXCEPT ![c] = callError[c]]
       /\ pc' = IF c \in SyncCalls THEN [pc EXCEPT ![c] = "returned"] ELSE pc
    /\ chan' = [chan EXCEPT ![ch] = Tail(@)]
    /\ UNCHANGED <<connVars, seq, pending, sending, closed, shutdown, callError,
                   callReply, dones, callSeq, expired, receiverVars>>

ExpireContext(c) ==
    /\ c \in SyncCalls \ expired
    /\ pc[c] # "returned"
    /\ expired' = expired \cup {c}
    /\ UNCHANGED <<connVars, seq, pending, sending, closed, shutdown, callError,
                   callReply, chan, dones, pc, callSeq, got, receiverVars>>

\* Call's select takes ctx.Done(): both branches may be ready.
ContextDone(c) ==
    /\ c \in expired
    /\ Goto(c, "wait", "cancel")
    /\ UNCHANGED <<connVars, seq, pending, sending, closed, shutdown, callError,
                   callReply, chan, dones, callSeq, expired, got, receiverVars>>

RemoveCancelled(c) ==
    /\ MuFree
    /\ Goto(c, "cancel", "returned")
    /\ pending' = Removed(callSeq[c])
    /\ got' = [got EXCEPT ![c] = "context"]
    /\ UNCHANGED <<connVars, seq, sending, closed, shutdown, callError, callReply,
                   chan, dones, callSeq, expired, receiverVars>>

Close ==
    /\ MuFree
    /\ ~closed
    /\ closed' = TRUE
    /\ CloseEnd(Client)
    /\ UNCHANGED <<seq, pending, sending, shutdown, callError, callReply, chan,
                   dones, userVars, receiverVars>>

-----------------------------------------------------------------------------
(* The receive goroutine.                                                   *)

ReadHeader(f) ==
    /\ rpc = "header"
    /\ ReadFrame(Client, f)
    /\ rHead' = f
    /\ rpc' = "remove"
    /\ UNCHANGED <<seq, pending, sending, closed, shutdown, callError, callReply,
                   chan, dones, userVars, rCall, rNext, left>>

ReadHeaderFails ==
    /\ rpc = "header"
    /\ ReadFails
    /\ rpc' = "lock"
    /\ UNCHANGED <<connVars, seq, pending, sending, closed, shutdown, callError,
                   callReply, chan, dones, userVars, rHead, rCall, rNext, left>>

RemoveReplied ==
    /\ rpc = "remove"
    /\ rCall' = pending[rHead.seq]
    /\ pending' = Removed(rHead.seq)
    /\ rpc' = "body"
    /\ UNCHANGED <<connVars, seq, sending, closed, shutdown, callError, callReply,
                   chan, dones, userVars, rHead, rNext, left>>

\* case call == nil: the call was cancelled or its Write failed.
DropReply ==
    /\ rpc = "body"
    /\ rCall = NoCall
    /\ \/ DiscardCanDecode(rHead) /\ rpc' = "header"
       \/ DiscardCanFail(rHead) /\ rpc' = "lock"
    /\ rHead' = NoFrame
    /\ UNCHANGED <<connVars, seq, pending, sending, closed, shutdown, callError,
                   callReply, chan, dones, userVars, rCall, rNext, left>>

\* case h.Error != "".
ReceiveError ==
    /\ rpc = "body"
    /\ rCall # NoCall /\ rHead.error
    /\ callError' = [callError EXCEPT ![rCall] = "server"]
    /\ \/ DiscardCanDecode(rHead) /\ rNext' = "header"
       \/ DiscardCanFail(rHead) /\ rNext' = "lock"
    /\ rpc' = "done"
    /\ rHead' = NoFrame
    /\ UNCHANGED <<connVars, seq, pending, sending, closed, shutdown, callReply,
                   chan, dones, userVars, rCall, left>>

\* default: the body goes into call.Reply.
ReceiveReply ==
    /\ rpc = "body"
    /\ rCall # NoCall /\ ~rHead.error
    /\ \/ /\ BodyCanDecode(rHead) /\ rCall \notin Misfit
          /\ callReply' = [callReply EXCEPT ![rCall] = rHead.call]
          /\ rNext' = "header"
          /\ UNCHANGED callError
       \/ /\ BodyCanFail(rHead) \/ rCall \in Misfit
          /\ callError' = [callError EXCEPT ![rCall] = "body"]
          /\ rNext' = "lock"
          /\ UNCHANGED callReply
    /\ rpc' = "done"
    /\ rHead' = NoFrame
    /\ UNCHANGED <<connVars, seq, pending, sending, closed, shutdown, chan, dones,
                   userVars, rCall, left>>

ReceiverDone ==
    /\ rpc = "done"
    /\ Done(rCall)
    /\ rpc' = rNext /\ rNext' = "header"
    /\ rCall' = NoCall
    /\ UNCHANGED <<connVars, seq, pending, sending, closed, shutdown, callError,
                   callReply, userVars, rHead, left>>

\* Faulty, for mutation: terminateCalls does not take sending.
TerminateCallsUnlocked ==
    /\ rpc = "lock" /\ rpc' = "terminate"
    /\ shutdown' = TRUE
    /\ left' = {s \in 0..MaxSeq : pending[s] # NoCall}
    /\ UNCHANGED <<connVars, seq, pending, sending, closed, callError, callReply, chan,
                   dones, userVars, rHead, rCall, rNext>>

\* terminateCalls takes sending, then mu, which no other goroutine can hold
\* for long, and sets shutdown.
TerminateCalls ==
    /\ rpc = "lock"
    /\ sending = NoCall /\ sending' = Receiver
    /\ shutdown' = TRUE
    /\ left' = {s \in 0..MaxSeq : pending[s] # NoCall}
    /\ rpc' = "terminate"
    /\ UNCHANGED <<connVars, seq, pending, closed, callError, callReply, chan,
                   dones, userVars, rHead, rCall, rNext>>

\* The range loop visits the map in any order.
TerminateNext(s) ==
    /\ rpc = "terminate"
    /\ s \in left /\ left' = left \ {s}
    /\ rCall' = pending[s]
    /\ callError' = [callError EXCEPT ![pending[s]] = "terminated"]
    /\ rpc' = "done" /\ rNext' = "terminate"
    /\ UNCHANGED <<connVars, seq, pending, sending, closed, shutdown, callReply,
                   chan, dones, userVars, rHead>>

\* Faulty, for mutation: sending stays locked.
TerminateEndLocked ==
    /\ rpc = "terminate" /\ rpc' = "ended"
    /\ left = {}
    /\ UNCHANGED <<connVars, seq, pending, sending, closed, shutdown, callError,
                   callReply, chan, dones, userVars, rHead, rCall, rNext, left>>

TerminateEnd ==
    /\ rpc = "terminate"
    /\ left = {}
    /\ sending' = NoCall
    /\ rpc' = "ended"
    /\ UNCHANGED <<connVars, seq, pending, closed, shutdown, callError, callReply,
                   chan, dones, userVars, rHead, rCall, rNext, left>>

-----------------------------------------------------------------------------
CallerStep(c) ==
    \/ LockSending(c) \/ RegisterCall(c) \/ RegisterRefused(c)
    \/ WriteRequest(c) \/ WriteRequestFails(c) \/ Unregister(c) \/ FailCall(c)
    \/ ContextDone(c) \/ RemoveCancelled(c)

ReceiverStep ==
    \/ \E f \in wire[Server] : ReadHeader(f)
    \/ ReadHeaderFails \/ RemoveReplied \/ DropReply \/ ReceiveError \/ ReceiveReply
    \/ ReceiverDone \/ TerminateCalls \/ TerminateEnd
    \/ \E s \in left : TerminateNext(s)

ClientStep ==
    \/ \E c \in Calls : Issue(c) \/ CallerStep(c) \/ ExpireContext(c)
    \/ \E ch \in Chans : Consume(ch)
    \/ ReceiverStep
    \/ Close

(* The peer, as far as a client can tell: it reads requests, it answers any *)
(* call that has a sequence number, in any order, any number of times, over *)
(* JSON it may send an answer to number 0 (ServerCodec does, for a body it  *)
(* did not skip), its writes may fail, and it may close at any time.        *)
Reply(c, error) == [seq |-> callSeq[c], call |-> c, error |-> error, body |-> TRUE]
StrayReply == [seq |-> 0, call |-> NoCall, error |-> TRUE, body |-> TRUE]

RoomOnWire == Cardinality(wire[Server]) < MaxUnread

\* The peer takes requests off the wire: one to serve it, any number at once
\* when its Option decoder reads ahead (service/server.go:107).
PeerReads(frames) ==
    /\ ends[Server] = "open"
    /\ wire' = [wire EXCEPT ![Client] = @ \ frames]
    /\ UNCHANGED <<ends, broken, clientVars>>

PeerReply(c, error) ==
    /\ callSeq[c] # 0
    /\ RoomOnWire
    /\ WriteFrame(Server, Reply(c, error)) \/ WriteFails(Server, Reply(c, error), FALSE)
    /\ UNCHANGED clientVars

PeerStray ==
    /\ CodecType = "json"
    /\ RoomOnWire
    /\ WriteFrame(Server, StrayReply)
    /\ UNCHANGED clientVars

PeerLoses == WriteLost(Server) /\ UNCHANGED clientVars

PeerClose == CloseEnd(Server) /\ UNCHANGED clientVars

PeerStep ==
    \/ \E frames \in SUBSET wire[Client] : PeerReads(frames)
    \/ \E c \in Calls, error \in BOOLEAN : PeerReply(c, error)
    \/ PeerStray \/ PeerLoses \/ PeerClose

(* A smaller peer, for larger instances: it answers each request at most    *)
(* once, as it reads it.                                                    *)
PeerAnswer(f, error) ==
    /\ ends[Server] = "open"
    /\ \/ /\ wire' = [wire EXCEPT ![Client] = @ \ {f}, ![Server] = @ \cup {[f EXCEPT !.error = error]}]
          /\ UNCHANGED ends
       \/ /\ wire' = [wire EXCEPT ![Client] = @ \ {f}, ![Server] = @ \cup {[f EXCEPT !.body = FALSE]}]
          /\ ends' = [ends EXCEPT ![Server] = "closed"]
    /\ UNCHANGED <<broken, clientVars>>

OncePeerStep ==
    \/ \E f \in wire[Client], error \in BOOLEAN : PeerAnswer(f, error)
    \/ PeerStray \/ PeerClose

vars == <<connVars, clientVars>>

Init == ConnInit /\ ClientInit
Next == ClientStep \/ PeerStep
Spec == Init /\ [][Next]_vars
OncePeerSpec == Init /\ [][ClientStep \/ OncePeerStep]_vars

(* The scheduler runs every goroutine that can run, sync.Mutex wakes its    *)
(* waiters in the end (starvation mode), and the users read their Done      *)
(* channels.  A Write to an open connection completes only if the peer      *)
(* keeps reading it.                                                        *)
CallerFairness ==
    \A c \in Calls :
        /\ SF_vars(LockSending(c))
        /\ WF_vars(RegisterCall(c) \/ RegisterRefused(c))
        /\ WF_vars(Unregister(c))
        /\ WF_vars(FailCall(c))
        /\ WF_vars(ContextDone(c))
        /\ WF_vars(RemoveCancelled(c))
Write(c) == WriteRequest(c) \/ WriteRequestFails(c)
CutWriteFairness == \A c \in Calls : WF_vars(Cut /\ Write(c))
WriteFairness == \A c \in Calls : WF_vars(Write(c))
ReceiverFairness == WF_vars(ReceiverStep)
ReaderFairness == \A ch \in Chans : WF_vars(Consume(ch))

BlockedWriteSpec ==
    OncePeerSpec /\ CallerFairness /\ CutWriteFairness /\ ReceiverFairness /\ ReaderFairness
FairSpec == BlockedWriteSpec /\ WriteFairness

-----------------------------------------------------------------------------
(* Properties.                                                              *)

TypeOK == ConnTypeOK /\ ClientTypeOK

\* A call is completed at most once: its goroutine, the receiver and
\* terminateCalls never both send it on its Done channel.
DoneOnce == \A c \in Calls : dones[c] <= 1

\* A call's Reply is only ever filled from the answer to that call, and a user
\* is told "no error" only when it was: replies may come in any order, late,
\* or after the call they answer was cancelled.
ReplyMatches ==
    \A c \in Calls : /\ callReply[c] \in {NoCall, c}
                     /\ got[c] = "nil" => callReply[c] = c

\* A call whose issuer waits is never lost: until it is completed it is in the
\* map or in the receiver's hands, and the receiver does not end before.
NoOrphan ==
    \A c \in Calls :
        pc[c] = "wait" /\ dones[c] = 0 =>
            /\ rpc # "ended"
            /\ pending[callSeq[c]] = c \/ rCall = c

\* Go takes a channel of any capacity but 0, so done() blocks on a full one, and
\* with it the receive loop, or terminateCalls under both mutexes.  It only ever
\* waits for a user of Go to read calls that are completed, each once, and not
\* read yet: never for a Call, whose own channel is empty until it is done.
DoneWaitsForReader ==
    \A c \in Calls :
        (pc[c] = "fail" \/ (rpc = "done" /\ rCall = c)) /\ ~Room(c) =>
            /\ c \notin SyncCalls
            /\ \A i \in 1..Len(chan[ChanOf[c]]) :
                  LET unread == chan[ChanOf[c]][i]
                  IN  unread # c /\ dones[unread] = 1 /\ got[unread] = "none"

\* Once a call is completed its Error and Reply never change: the user reads
\* them without a lock.
CompletedIsFinal ==
    [][\A c \in Calls : dones[c] > 0 =>
          callError'[c] = callError[c] /\ callReply'[c] = callReply[c]]_vars

\* After terminateCalls has set shutdown no request is written.
NoRequestAfterShutdown == [][shutdown => wire'[Client] \subseteq wire[Client]]_vars

\* The reply of a call that is no longer pending, and the error reply of one
\* that is, are read whole from an open connection: they end that call at most,
\* and the receive loop goes on for the others (Day2.md:121-122).
DiscardKeepsReceiving ==
    [][rpc = "body" /\ (rCall = NoCall \/ rHead.error) /\ rHead.call # NoCall
            /\ rHead.body /\ ~Cut
        => rpc' # "lock" /\ rNext' # "lock"]_vars

\* A call that was issued is completed once its answer has been written or the
\* connection is closed at either end.
AnsweredCompletes ==
    \A c \in Calls :
        pc[c] # "idle" /\ (Cut \/ \E f \in wire[Server] : f.call = c) ~> got[c] # "none"

\* Call returns after its context is done (Day4.md:97).
ContextHonoured == \A c \in SyncCalls : c \in expired /\ pc[c] # "idle" ~> pc[c] = "returned"
-----------------------------------------------------------------------------
(* The inductive invariant behind DoneOnce and NoOrphan: who owns a call.   *)

Terminating == rpc = "terminate" \/ (rpc = "done" /\ rNext = "terminate")
NotSent == {"idle", "lock", "register"}

\* sending is held by the goroutine in send's critical section, or by the
\* receiver in terminateCalls.
SendingInv ==
    /\ \A c \in Calls : sending = c <=> pc[c] \in {"register", "write", "unregister", "fail"}
    /\ sending = Receiver <=> Terminating

\* Sequence numbers are never reused and the map agrees with Call.Seq.
SeqInv ==
    /\ pending[0] = NoCall
    /\ \A c \in Calls : callSeq[c] < seq
    /\ \A c, d \in Calls : callSeq[c] = callSeq[d] /\ callSeq[c] # 0 => c = d
    /\ \A s \in 0..MaxSeq : pending[s] # NoCall => callSeq[pending[s]] = s
    /\ \A c \in Calls : pc[c] \in NotSent => callSeq[c] = 0 /\ dones[c] = 0 /\ rCall # c
    /\ \A c \in Calls : pc[c] \in {"write", "unregister"} => callSeq[c] # 0

\* Whoever will call done() for c is the only one, and has not done so.
OwnerInv ==
    /\ \A c \in Calls : dones[c] <= 1
    /\ \A c \in Calls : pc[c] = "fail" =>
          dones[c] = 0 /\ rCall # c /\ \A s \in 0..MaxSeq : pending[s] # c
    /\ rCall # NoCall => dones[rCall] = 0
    /\ rCall # NoCall /\ ~shutdown => \A s \in 0..MaxSeq : pending[s] # rCall
    /\ \A s \in 0..MaxSeq : pending[s] # NoCall /\ (~shutdown \/ s \in left) =>
          dones[pending[s]] = 0 /\ rCall # pending[s]

\* What the receive goroutine holds at each of its places.
ReceiverInv ==
    /\ rpc = "done" => rCall # NoCall
    /\ rpc \notin {"body", "done"} => rCall = NoCall
    /\ rNext = "terminate" => rpc = "done"
    /\ shutdown <=> Terminating \/ rpc = "ended"
    /\ \A s \in left : Terminating /\ pending[s] # NoCall
    /\ shutdown => \A c \in Calls : pc[c] \notin {"write", "unregister"}

\* An open call is registered or in hand; what terminateCalls passed is done.
LocatedInv ==
    /\ \A c \in Calls : pc[c] \in {"write", "unregister", "wait"} /\ dones[c] = 0 =>
          pending[callSeq[c]] = c \/ rCall = c
    /\ shutdown => \A s \in 0..MaxSeq : pending[s] # NoCall /\ s \notin left =>
          dones[pending[s]] > 0 \/ rCall = pending[s]

OwnershipInv == TypeOK /\ SendingInv /\ SeqInv /\ OwnerInv /\ ReceiverInv /\ LocatedInv

(* And behind ReplyMatches: where an answer belongs.                        *)

\* A frame bears the sequence number of the call whose data it carries.
Attributed(f) == IF f.call = NoCall THEN f.seq = 0 ELSE f.seq # 0 /\ callSeq[f.call] = f.seq
FrameInv ==
    /\ \A end \in End : \A f \in wire[end] : Attributed(f)
    /\ Attributed(rHead)
    /\ rpc = "body" /\ rCall # NoCall => rHead.seq # 0 /\ callSeq[rCall] = rHead.seq

\* A call that is completed without an error holds its own answer.
Completed(c) == dones[c] > 0 \/ (rpc = "done" /\ rCall = c)
OutcomeInv ==
    /\ \A c \in Calls : /\ callReply[c] \in {NoCall, c}
                        /\ Completed(c) /\ callError[c] = "nil" => callReply[c] = c
                        /\ pc[c] = "fail" => callError[c] # "nil"
                        /\ got[c] = "nil" => dones[c] > 0 /\ callReply[c] = c
    /\ \A ch \in Chans : \A i \in 1..Len(chan[ch]) : dones[chan[ch][i]] > 0

ClientInv == OwnershipInv /\ FrameInv /\ OutcomeInv
=============================================================================
