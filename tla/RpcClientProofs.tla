-------------------------- MODULE RpcClientProofs --------------------------
(* Theorems about RpcClient, for every set of calls and channels.           *)
EXTENDS RpcClient, TLAPS, SequenceTheorems, FiniteSetTheorems

USE DEF Removed, NextSeq

-----------------------------------------------------------------------------
(* Frames and the connection.                                               *)

\* The frames that the client, the server and the peer build are frames.
LEMMA FrameTypes ==
    /\ NoFrame \in Frame /\ StrayReply \in Frame
    /\ \A f \in Frame : /\ f.seq \in 0..MaxSeq /\ f.call \in Calls \cup {NoCall}
                        /\ f.error \in BOOLEAN /\ f.body \in BOOLEAN
                        /\ [f EXCEPT !.body = FALSE] \in Frame
    /\ \A c \in Calls : callSeq[c] \in 0..MaxSeq =>
          /\ RequestFrame(c) \in Frame
          /\ \A error \in BOOLEAN : Reply(c, error) \in Frame
<1>1. NoFrame \in Frame /\ StrayReply \in Frame
  BY ConnAssumption DEF ConnAssumption, Frame, NoFrame, StrayReply
<1>2. ASSUME NEW c \in Calls, callSeq[c] \in 0..MaxSeq PROVE RequestFrame(c) \in Frame
  BY <1>2 DEF Frame, RequestFrame
<1>3. ASSUME NEW c \in Calls, callSeq[c] \in 0..MaxSeq, NEW error \in BOOLEAN
      PROVE  Reply(c, error) \in Frame
  BY <1>3 DEF Frame, Reply
<1>4. ASSUME NEW f \in Frame
      PROVE  /\ f.seq \in 0..MaxSeq /\ f.call \in Calls \cup {NoCall}
             /\ f.error \in BOOLEAN /\ f.body \in BOOLEAN
  BY DEF Frame
<1>5. ASSUME NEW f \in Frame PROVE [f EXCEPT !.body = FALSE] \in Frame
  BY DEF Frame
<1> QED
  BY <1>1, <1>2, <1>3, <1>4, <1>5

\* What the codec operations do to the connection keeps its type.
LEMMA ConnTypes ==
    ASSUME ConnTypeOK, NEW e \in End, NEW f \in Frame, NEW x
    PROVE  /\ UNCHANGED connVars => ConnTypeOK'
           /\ WriteFrame(e, f) => ConnTypeOK'
           /\ WriteLost(e) => ConnTypeOK'
           /\ WriteFails(e, f, x) => ConnTypeOK'
           /\ CloseEnd(e) => ConnTypeOK'
           /\ ReadFrame(e, f) => ConnTypeOK'
<1>1. Peer(e) \in End /\ [f EXCEPT !.body = FALSE] \in Frame
  BY FrameTypes DEF Peer, End
<1> USE <1>1 DEF ConnTypeOK
<1>2. UNCHANGED connVars => ConnTypeOK'
  BY DEF connVars
<1>3. WriteFrame(e, f) => ConnTypeOK'
  BY DEF WriteFrame
<1>4. WriteLost(e) => ConnTypeOK'
  BY DEF WriteLost
<1>5. ASSUME WriteFails(e, f, x) PROVE ConnTypeOK'
  <2>1. ends' \in [End -> {"open", "closed"}] /\ broken' \in [End -> BOOLEAN]
    BY <1>5 DEF WriteFails
  <2>2. wire' \in [End -> SUBSET Frame]
    BY <1>5 DEF WriteFails
  <2> QED
    BY <2>1, <2>2
<1>6. CloseEnd(e) => ConnTypeOK'
  BY DEF CloseEnd
<1>7. ReadFrame(e, f) => ConnTypeOK'
  BY DEF ReadFrame
<1> QED
  BY <1>2, <1>3, <1>4, <1>5, <1>6, <1>7

-----------------------------------------------------------------------------
(* Type correctness.                                                        *)

\* The initial state is of the type.
LEMMA TypeInit == Init => TypeOK
<1> SUFFICES ASSUME Init PROVE ConnTypeOK /\ ClientTypeOK
  BY DEF TypeOK
<1>1. ConnTypeOK
  <2>1. ends \in [End -> {"open", "closed"}] /\ broken \in [End -> BOOLEAN]
    BY DEF Init, ConnInit
  <2>2. wire \in [End -> SUBSET Frame]
    BY DEF Init, ConnInit
  <2> QED
    BY <2>1, <2>2 DEF ConnTypeOK
<1>2. ClientTypeOK
  <2>1. MaxSeq \in Nat \ {0} /\ NoFrame \in Frame
    BY ConnAssumption, FrameTypes DEF ConnAssumption
  <2>2. chan \in [Chans -> Seq(Calls)]
    BY DEF Init, ClientInit
  <2>3. /\ callSeq \in [Calls -> 0..MaxSeq] /\ callError \in [Calls -> Errors]
        /\ got \in [Calls -> Errors \cup {"none", "context"}] /\ dones \in [Calls -> Nat]
    BY <2>1 DEF Init, ClientInit, Errors
  <2> QED
    BY <2>1, <2>2, <2>3 DEF Init, ClientInit, ClientTypeOK
<1> QED
  BY <1>1, <1>2

\* done() appends to the call's channel.
LEMMA DoneTypes ==
    ASSUME ClientTypeOK, NEW c \in Calls, Done(c)
    PROVE  chan' \in [Chans -> Seq(Calls)] /\ dones' \in [Calls -> Nat]
<1>1. ChanOf[c] \in Chans
  BY ClientAssumption DEF ClientAssumption
<1>2. Append(chan[ChanOf[c]], c) \in Seq(Calls)
  BY <1>1, AppendProperties DEF ClientTypeOK
<1> QED
  BY <1>1, <1>2 DEF Done, ClientTypeOK

\* Every step of the client or of its peer keeps the types.
LEMMA TypeStep == TypeOK /\ (rpc = "done" => rCall # NoCall) /\ [Next]_vars => TypeOK'
<1> SUFFICES ASSUME ConnTypeOK, ClientTypeOK, rpc = "done" => rCall # NoCall, [Next]_vars
             PROVE ConnTypeOK' /\ ClientTypeOK'
  BY DEF TypeOK
<1>a. Client \in End /\ Server \in End /\ NoFrame \in Frame
  BY FrameTypes DEF End
<1>d. UNCHANGED clientVars => ClientTypeOK'
  BY DEF ClientTypeOK, clientVars, userVars, receiverVars
<1>1. ASSUME NEW c \in Calls, Issue(c) PROVE ConnTypeOK' /\ ClientTypeOK'
  <2>2. ConnTypeOK'
    BY <1>1, <1>a, ConnTypes DEF Issue, connVars
  <2>3. ClientTypeOK'
    BY <1>1 DEF Issue, Goto, ClientTypeOK, userVars, receiverVars, Errors
  <2> QED
    BY <2>2, <2>3
<1>2. ASSUME NEW c \in Calls, LockSending(c) PROVE ConnTypeOK' /\ ClientTypeOK'
  <2>2. ConnTypeOK'
    BY <1>2, <1>a, ConnTypes DEF LockSending, connVars
  <2>3. ClientTypeOK'
    BY <1>2 DEF LockSending, Goto, ClientTypeOK, userVars, receiverVars, Errors
  <2> QED
    BY <2>2, <2>3
<1>3. ASSUME NEW c \in Calls, RegisterCall(c) PROVE ConnTypeOK' /\ ClientTypeOK'
  <2>2. ConnTypeOK'
    BY <1>3, <1>a, ConnTypes DEF RegisterCall, connVars
  <2>3. ClientTypeOK'
    BY <1>3, ConnAssumption DEF RegisterCall, Goto, ConnAssumption, ClientTypeOK, userVars, receiverVars, Errors
  <2> QED
    BY <2>2, <2>3
<1>4. ASSUME NEW c \in Calls, RegisterRefused(c) PROVE ConnTypeOK' /\ ClientTypeOK'
  <2>2. ConnTypeOK'
    BY <1>4, <1>a, ConnTypes DEF RegisterRefused, connVars
  <2>3. ClientTypeOK'
    BY <1>4 DEF RegisterRefused, Goto, ClientTypeOK, userVars, receiverVars, Errors
  <2> QED
    BY <2>2, <2>3
<1>5. ASSUME NEW c \in Calls, WriteRequest(c) PROVE ConnTypeOK' /\ ClientTypeOK'
  <2>1. RequestFrame(c) \in Frame
    BY FrameTypes DEF ClientTypeOK
  <2>2. ConnTypeOK'
    BY <1>5, <1>a, <2>1, ConnTypes DEF WriteRequest
  <2>3. ClientTypeOK'
    BY <1>5 DEF WriteRequest, Goto, ClientTypeOK, userVars, receiverVars, Errors
  <2> QED
    BY <2>2, <2>3
<1>6. ASSUME NEW c \in Calls, WriteRequestFails(c) PROVE ConnTypeOK' /\ ClientTypeOK'
  <2>1. RequestFrame(c) \in Frame
    BY FrameTypes DEF ClientTypeOK
  <2>2. ConnTypeOK'
    BY <1>6, <1>a, <2>1, ConnTypes DEF WriteRequestFails
  <2>3. ClientTypeOK'
    BY <1>6 DEF WriteRequestFails, Goto, ClientTypeOK, userVars, receiverVars, Errors
  <2> QED
    BY <2>2, <2>3
<1>7. ASSUME NEW c \in Calls, Unregister(c) PROVE ConnTypeOK' /\ ClientTypeOK'
  <2>2. ConnTypeOK'
    BY <1>7, <1>a, ConnTypes DEF Unregister, connVars
  <2>3. ClientTypeOK'
    BY <1>7 DEF Unregister, Goto, ClientTypeOK, userVars, receiverVars, Errors
  <2> QED
    BY <2>2, <2>3
<1>8. ASSUME NEW c \in Calls, FailCall(c) PROVE ConnTypeOK' /\ ClientTypeOK'
  <2>2. ConnTypeOK'
    BY <1>8, <1>a, ConnTypes DEF FailCall, connVars
  <2>1. c \in Calls /\ Done(c)
    BY <1>8 DEF FailCall, ClientTypeOK
  <2>4. chan' \in [Chans -> Seq(Calls)] /\ dones' \in [Calls -> Nat]
    BY <2>1, DoneTypes
  <2>3. ClientTypeOK'
    BY <1>8, <2>4 DEF FailCall, Goto, ClientTypeOK, userVars, receiverVars, Errors
  <2> QED
    BY <2>2, <2>3
<1>9. ASSUME NEW c \in Calls, ContextDone(c) PROVE ConnTypeOK' /\ ClientTypeOK'
  <2>2. ConnTypeOK'
    BY <1>9, <1>a, ConnTypes DEF ContextDone, connVars
  <2>3. ClientTypeOK'
    BY <1>9 DEF ContextDone, Goto, ClientTypeOK, userVars, receiverVars, Errors
  <2> QED
    BY <2>2, <2>3
<1>10. ASSUME NEW c \in Calls, RemoveCancelled(c) PROVE ConnTypeOK' /\ ClientTypeOK'
  <2>2. ConnTypeOK'
    BY <1>10, <1>a, ConnTypes DEF RemoveCancelled, connVars
  <2>3. ClientTypeOK'
    BY <1>10 DEF RemoveCancelled, Goto, ClientTypeOK, userVars, receiverVars, Errors
  <2> QED
    BY <2>2, <2>3
<1>11. ASSUME NEW c \in Calls, ExpireContext(c) PROVE ConnTypeOK' /\ ClientTypeOK'
  <2>2. ConnTypeOK'
    BY <1>11, <1>a, ConnTypes DEF ExpireContext, connVars
  <2>3. ClientTypeOK'
    BY <1>11 DEF ExpireContext, ClientTypeOK, userVars, receiverVars, Errors
  <2> QED
    BY <2>2, <2>3
<1>12. ASSUME NEW ch \in Chans, Consume(ch) PROVE ConnTypeOK' /\ ClientTypeOK'
  <2>2. ConnTypeOK'
    BY <1>12, <1>a, ConnTypes DEF Consume, connVars
  <2>1. chan[ch] \in Seq(Calls) /\ chan[ch] # <<>>
    BY <1>12 DEF Consume, ClientTypeOK
  <2>4. Head(chan[ch]) \in Calls /\ Tail(chan[ch]) \in Seq(Calls)
    BY <2>1, HeadTailProperties
  <2>3. ClientTypeOK'
    BY <1>12, <2>4 DEF Consume, ClientTypeOK, userVars, receiverVars, Errors
  <2> QED
    BY <2>2, <2>3
<1>13. ASSUME NEW f \in wire[Server], ReadHeader(f) PROVE ConnTypeOK' /\ ClientTypeOK'
  <2>1. f \in Frame
    BY <1>a DEF ConnTypeOK
  <2>2. ConnTypeOK'
    BY <1>13, <1>a, <2>1, ConnTypes DEF ReadHeader
  <2>3. ClientTypeOK'
    BY <1>13, <2>1 DEF ReadHeader, ClientTypeOK, userVars, receiverVars, Errors
  <2> QED
    BY <2>2, <2>3
<1>14. ASSUME NEW s \in left, TerminateNext(s) PROVE ConnTypeOK' /\ ClientTypeOK'
  <2>2. ConnTypeOK'
    BY <1>14, <1>a, ConnTypes DEF TerminateNext, connVars
  <2>3. ClientTypeOK'
    BY <1>14 DEF TerminateNext, ClientTypeOK, userVars, receiverVars, Errors
  <2> QED
    BY <2>2, <2>3
<1>15. ASSUME Close PROVE ConnTypeOK' /\ ClientTypeOK'
  <2>2. ConnTypeOK'
    BY <1>15, <1>a, ConnTypes DEF Close
  <2>3. ClientTypeOK'
    BY <1>15 DEF Close, ClientTypeOK, userVars, receiverVars, Errors
  <2> QED
    BY <2>2, <2>3
<1>16. ASSUME ReadHeaderFails PROVE ConnTypeOK' /\ ClientTypeOK'
  <2>2. ConnTypeOK'
    BY <1>16, <1>a, ConnTypes DEF ReadHeaderFails, connVars
  <2>3. ClientTypeOK'
    BY <1>16 DEF ReadHeaderFails, ClientTypeOK, userVars, receiverVars, Errors
  <2> QED
    BY <2>2, <2>3
<1>17. ASSUME RemoveReplied PROVE ConnTypeOK' /\ ClientTypeOK'
  <2>2. ConnTypeOK'
    BY <1>17, <1>a, ConnTypes DEF RemoveReplied, connVars
  <2>3. ClientTypeOK'
    BY <1>17, FrameTypes DEF RemoveReplied, ClientTypeOK, userVars, receiverVars, Errors
  <2> QED
    BY <2>2, <2>3
<1>18. ASSUME DropReply PROVE ConnTypeOK' /\ ClientTypeOK'
  <2>2. ConnTypeOK'
    BY <1>18, <1>a, ConnTypes DEF DropReply, connVars
  <2>3. ClientTypeOK'
    BY <1>18, <1>a DEF DropReply, ClientTypeOK, userVars, receiverVars, Errors
  <2> QED
    BY <2>2, <2>3
<1>19. ASSUME ReceiveError PROVE ConnTypeOK' /\ ClientTypeOK'
  <2>2. ConnTypeOK'
    BY <1>19, <1>a, ConnTypes DEF ReceiveError, connVars
  <2>3. ClientTypeOK'
    BY <1>19, <1>a DEF ReceiveError, ClientTypeOK, userVars, receiverVars, Errors
  <2> QED
    BY <2>2, <2>3
<1>20. ASSUME ReceiveReply PROVE ConnTypeOK' /\ ClientTypeOK'
  <2>2. ConnTypeOK'
    BY <1>20, <1>a, ConnTypes DEF ReceiveReply, connVars
  <2>3. ClientTypeOK'
    BY <1>20, <1>a, FrameTypes DEF ReceiveReply, ClientTypeOK, userVars, receiverVars, Errors
  <2> QED
    BY <2>2, <2>3
<1>21. ASSUME ReceiverDone PROVE ConnTypeOK' /\ ClientTypeOK'
  <2>2. ConnTypeOK'
    BY <1>21, <1>a, ConnTypes DEF ReceiverDone, connVars
  <2>1. rCall \in Calls /\ Done(rCall)
    BY <1>21 DEF ReceiverDone, ClientTypeOK
  <2>4. chan' \in [Chans -> Seq(Calls)] /\ dones' \in [Calls -> Nat]
    BY <2>1, DoneTypes
  <2>3. ClientTypeOK'
    BY <1>21, <2>4 DEF ReceiverDone, ClientTypeOK, userVars, receiverVars, Errors
  <2> QED
    BY <2>2, <2>3
<1>22. ASSUME TerminateCalls PROVE ConnTypeOK' /\ ClientTypeOK'
  <2>2. ConnTypeOK'
    BY <1>22, <1>a, ConnTypes DEF TerminateCalls, connVars
  <2>3. ClientTypeOK'
    BY <1>22 DEF TerminateCalls, ClientTypeOK, userVars, receiverVars, Errors
  <2> QED
    BY <2>2, <2>3
<1>23. ASSUME TerminateEnd PROVE ConnTypeOK' /\ ClientTypeOK'
  <2>2. ConnTypeOK'
    BY <1>23, <1>a, ConnTypes DEF TerminateEnd, connVars
  <2>3. ClientTypeOK'
    BY <1>23 DEF TerminateEnd, ClientTypeOK, userVars, receiverVars, Errors
  <2> QED
    BY <2>2, <2>3
<1>24. ASSUME NEW frames \in SUBSET wire[Client], PeerReads(frames)
       PROVE  ConnTypeOK' /\ ClientTypeOK'
  <2>2. ConnTypeOK'
    BY <1>24, <1>a DEF PeerReads, ConnTypeOK, End, Client, Server
  <2> QED
    BY <1>24, <2>2, <1>d DEF PeerReads
<1>25. ASSUME NEW c \in Calls, NEW error \in BOOLEAN, PeerReply(c, error)
       PROVE  ConnTypeOK' /\ ClientTypeOK'
  <2>1. Reply(c, error) \in Frame
    BY FrameTypes DEF ClientTypeOK
  <2>2. ConnTypeOK'
    BY <1>25, <1>a, <2>1, ConnTypes DEF PeerReply
  <2> QED
    BY <1>25, <2>2, <1>d DEF PeerReply
<1>26. ASSUME PeerStray PROVE ConnTypeOK' /\ ClientTypeOK'
  <2>1. StrayReply \in Frame
    BY FrameTypes
  <2>2. ConnTypeOK'
    BY <1>26, <1>a, <2>1, ConnTypes DEF PeerStray
  <2> QED
    BY <1>26, <2>2, <1>d DEF PeerStray
<1>27. ASSUME PeerLoses \/ PeerClose PROVE ConnTypeOK' /\ ClientTypeOK'
  <2>1. ConnTypeOK'
    BY <1>27, <1>a, ConnTypes DEF PeerLoses, PeerClose
  <2> QED
    BY <1>27, <2>1, <1>d DEF PeerLoses, PeerClose
<1>28. CASE UNCHANGED vars
  BY <1>28, ConnTypes, <1>a DEF vars, connVars, clientVars, userVars, receiverVars, ClientTypeOK
<1> QED
  BY <1>1, <1>2, <1>3, <1>4, <1>5, <1>6, <1>7, <1>8, <1>9, <1>10, <1>11, <1>12, <1>13, <1>14, <1>15, <1>16, <1>17, <1>18, <1>19, <1>20, <1>21, <1>22, <1>23, <1>24, <1>25, <1>26, <1>27, <1>28
     DEF Next, ClientStep, CallerStep, ReceiverStep, PeerStep
-----------------------------------------------------------------------------
(* Every call has one owner.                                                *)

ownerVars == <<seq, pending, sending, shutdown, pc, callSeq, dones, rpc, rCall, rNext, left>>

\* Nobody owns a call at the start.
LEMMA OwnershipInit == Init => OwnershipInv
<1> SUFFICES ASSUME Init PROVE OwnershipInv
  OBVIOUS
<1>1. TypeOK
  BY TypeInit
<1> QED
  BY <1>1, ConnAssumption, ClientAssumption
     DEF ConnAssumption, ClientAssumption, Init, ClientInit, OwnershipInv, SendingInv, SeqInv,
         OwnerInv, ReceiverInv, LocatedInv, Terminating, NotSent

\* Every step of the client or of its peer keeps the ownership of calls.
LEMMA OwnershipStep == OwnershipInv /\ [Next]_vars => OwnershipInv'
<1> SUFFICES ASSUME OwnershipInv, [Next]_vars PROVE OwnershipInv'
  OBVIOUS
<1>a. TypeOK'
  BY TypeStep DEF OwnershipInv, ReceiverInv
<1>b. /\ seq \in Nat /\ seq > 0
      /\ pending \in [0..MaxSeq -> Calls \cup {NoCall}]
      /\ DOMAIN pc = Calls
      /\ callSeq \in [Calls -> 0..MaxSeq]
      /\ dones \in [Calls -> Nat]
      /\ rCall \in Calls \cup {NoCall}
      /\ left \subseteq 0..MaxSeq
      /\ NoCall \notin Calls /\ Receiver \notin Calls /\ Receiver # NoCall
      /\ MaxSeq \in Nat
      /\ SendingInv /\ SeqInv /\ OwnerInv /\ ReceiverInv /\ LocatedInv
  BY ConnAssumption, ClientAssumption
     DEF OwnershipInv, TypeOK, ClientTypeOK, ConnAssumption, ClientAssumption
<1>c. ASSUME SendingInv', SeqInv', OwnerInv', ReceiverInv', LocatedInv' PROVE OwnershipInv'
  BY <1>a, <1>c DEF OwnershipInv
<1> USE <1>b DEF Terminating, NotSent
<1>1. ASSUME NEW c \in Calls, Issue(c) PROVE OwnershipInv'
  <2>1. SendingInv'
    BY <1>1 DEF Issue, Goto, receiverVars, SendingInv
  <2>2. SeqInv'
    BY <1>1 DEF Issue, Goto, receiverVars, SeqInv
  <2>3. OwnerInv'
    BY <1>1 DEF Issue, Goto, receiverVars, OwnerInv
  <2>4. ReceiverInv'
    BY <1>1 DEF Issue, Goto, receiverVars, ReceiverInv
  <2>5. LocatedInv'
    BY <1>1 DEF Issue, Goto, receiverVars, LocatedInv
  <2> QED
    BY <1>c, <2>1, <2>2, <2>3, <2>4, <2>5
<1>2. ASSUME NEW c \in Calls, LockSending(c) PROVE OwnershipInv'
  <2>1. SendingInv'
    BY <1>2 DEF LockSending, Goto, receiverVars, SendingInv
  <2>2. SeqInv'
    BY <1>2 DEF LockSending, Goto, receiverVars, SeqInv
  <2>3. OwnerInv'
    BY <1>2 DEF LockSending, Goto, receiverVars, OwnerInv
  <2>4. ReceiverInv'
    BY <1>2 DEF LockSending, Goto, receiverVars, ReceiverInv
  <2>5. LocatedInv'
    BY <1>2 DEF LockSending, Goto, receiverVars, LocatedInv
  <2> QED
    BY <1>c, <2>1, <2>2, <2>3, <2>4, <2>5
<1>3. ASSUME NEW c \in Calls, RegisterCall(c) PROVE OwnershipInv'
  <2>1. SendingInv'
    BY <1>3 DEF RegisterCall, Goto, receiverVars, SendingInv
  <2>2. SeqInv'
    BY <1>3 DEF RegisterCall, Goto, receiverVars, SeqInv
  <2>3. OwnerInv'
    BY <1>3 DEF RegisterCall, Goto, receiverVars, SeqInv, OwnerInv
  <2>4. ReceiverInv'
    BY <1>3 DEF RegisterCall, Goto, receiverVars, ReceiverInv
  <2>5. LocatedInv'
    BY <1>3 DEF RegisterCall, Goto, receiverVars, SeqInv, LocatedInv
  <2> QED
    BY <1>c, <2>1, <2>2, <2>3, <2>4, <2>5
<1>4. ASSUME NEW c \in Calls, RegisterRefused(c) PROVE OwnershipInv'
  <2>1. SendingInv'
    BY <1>4 DEF RegisterRefused, Goto, receiverVars, SendingInv
  <2>2. SeqInv'
    BY <1>4 DEF RegisterRefused, Goto, receiverVars, SeqInv
  <2>3. OwnerInv'
    BY <1>4 DEF RegisterRefused, Goto, receiverVars, SeqInv, OwnerInv
  <2>4. ReceiverInv'
    BY <1>4 DEF RegisterRefused, Goto, receiverVars, ReceiverInv
  <2>5. LocatedInv'
    BY <1>4 DEF RegisterRefused, Goto, receiverVars, LocatedInv
  <2> QED
    BY <1>c, <2>1, <2>2, <2>3, <2>4, <2>5
<1>5. ASSUME NEW c \in Calls, WriteRequest(c) PROVE OwnershipInv'
  <2>1. SendingInv'
    BY <1>5 DEF WriteRequest, Goto, receiverVars, SendingInv
  <2>2. SeqInv'
    BY <1>5 DEF WriteRequest, Goto, receiverVars, SeqInv
  <2>3. OwnerInv'
    BY <1>5 DEF WriteRequest, Goto, receiverVars, OwnerInv
  <2>4. ReceiverInv'
    BY <1>5 DEF WriteRequest, Goto, receiverVars, ReceiverInv
  <2>5. LocatedInv'
    BY <1>5 DEF WriteRequest, Goto, receiverVars, LocatedInv
  <2> QED
    BY <1>c, <2>1, <2>2, <2>3, <2>4, <2>5
<1>6. ASSUME NEW c \in Calls, WriteRequestFails(c) PROVE OwnershipInv'
  <2>1. SendingInv'
    BY <1>6 DEF WriteRequestFails, Goto, receiverVars, SendingInv
  <2>2. SeqInv'
    BY <1>6 DEF WriteRequestFails, Goto, receiverVars, SeqInv
  <2>3. OwnerInv'
    BY <1>6 DEF WriteRequestFails, Goto, receiverVars, OwnerInv
  <2>4. ReceiverInv'
    BY <1>6 DEF WriteRequestFails, Goto, receiverVars, ReceiverInv
  <2>5. LocatedInv'
    BY <1>6 DEF WriteRequestFails, Goto, receiverVars, LocatedInv
  <2> QED
    BY <1>c, <2>1, <2>2, <2>3, <2>4, <2>5
<1>7. ASSUME NEW c \in Calls, Unregister(c) PROVE OwnershipInv'
  <2>1. SendingInv'
    BY <1>7 DEF Unregister, Goto, receiverVars, SendingInv
  <2>2. SeqInv'
    BY <1>7 DEF Unregister, Goto, receiverVars, SeqInv
  <2>3. OwnerInv'
    <3>1. callSeq[c] \in 0..MaxSeq /\ callSeq[c] # 0 /\ ~shutdown
      BY <1>7 DEF Unregister, SeqInv, ReceiverInv, TypeOK, ClientTypeOK
    <3>2. /\ pending' = [pending EXCEPT ![callSeq[c]] = NoCall]
          /\ UNCHANGED <<dones, rCall, shutdown, left>>
      BY <1>7 DEF Unregister, receiverVars
    <3>6. \A d \in Calls : pc'[d] = "fail" => pc[d] = "fail" \/ (d = c /\ pending[callSeq[c]] # NoCall)
      <4>1. CASE pending[callSeq[c]] = NoCall
        BY <1>7, <4>1 DEF Unregister, Goto
      <4>2. CASE pending[callSeq[c]] # NoCall
        BY <1>7, <4>2 DEF Unregister, Goto
      <4> QED
        BY <4>1, <4>2
    <3>3. \A s \in 0..MaxSeq : pending'[s] # NoCall => pending'[s] = pending[s] /\ s # callSeq[c]
      BY <3>1, <3>2
    <3>4. pending[callSeq[c]] # NoCall => pending[callSeq[c]] = c
      BY <3>1 DEF SeqInv
    <3>5. \A s \in 0..MaxSeq : pending'[s] # c
      BY <3>3 DEF SeqInv
    <3> QED
      BY <3>1, <3>2, <3>3, <3>4, <3>5, <3>6 DEF OwnerInv
  <2>4. ReceiverInv'
    BY <1>7 DEF Unregister, Goto, receiverVars, ReceiverInv
  <2>5. LocatedInv'
    BY <1>7 DEF Unregister, Goto, receiverVars, SeqInv, LocatedInv
  <2> QED
    BY <1>c, <2>1, <2>2, <2>3, <2>4, <2>5
<1>8. ASSUME NEW c \in Calls, FailCall(c) PROVE OwnershipInv'
  <2>1. SendingInv'
    BY <1>8 DEF FailCall, Goto, Done, receiverVars, SendingInv
  <2>2. SeqInv'
    BY <1>8 DEF FailCall, Goto, Done, receiverVars, SeqInv
  <2>3. OwnerInv'
    BY <1>8 DEF FailCall, Goto, Done, receiverVars, OwnerInv
  <2>4. ReceiverInv'
    BY <1>8 DEF FailCall, Goto, Done, receiverVars, ReceiverInv
  <2>5. LocatedInv'
    BY <1>8 DEF FailCall, Goto, Done, receiverVars, LocatedInv
  <2> QED
    BY <1>c, <2>1, <2>2, <2>3, <2>4, <2>5
<1>9. ASSUME NEW c \in Calls, ContextDone(c) PROVE OwnershipInv'
  <2>1. SendingInv'
    BY <1>9 DEF ContextDone, Goto, receiverVars, SendingInv
  <2>2. SeqInv'
    BY <1>9 DEF ContextDone, Goto, receiverVars, SeqInv
  <2>3. OwnerInv'
    BY <1>9 DEF ContextDone, Goto, receiverVars, OwnerInv
  <2>4. ReceiverInv'
    BY <1>9 DEF ContextDone, Goto, receiverVars, ReceiverInv
  <2>5. LocatedInv'
    BY <1>9 DEF ContextDone, Goto, receiverVars, LocatedInv
  <2> QED
    BY <1>c, <2>1, <2>2, <2>3, <2>4, <2>5
<1>10. ASSUME NEW c \in Calls, RemoveCancelled(c) PROVE OwnershipInv'
  <2>1. SendingInv'
    BY <1>10 DEF RemoveCancelled, Goto, receiverVars, SendingInv
  <2>2. SeqInv'
    BY <1>10 DEF RemoveCancelled, Goto, receiverVars, SeqInv
  <2>3. OwnerInv'
    BY <1>10 DEF RemoveCancelled, Goto, receiverVars, OwnerInv
  <2>4. ReceiverInv'
    BY <1>10 DEF RemoveCancelled, MuFree, Goto, receiverVars, ReceiverInv
  <2>5. LocatedInv'
    BY <1>10 DEF RemoveCancelled, Goto, receiverVars, SeqInv, LocatedInv
  <2> QED
    BY <1>c, <2>1, <2>2, <2>3, <2>4, <2>5
<1>11. ASSUME NEW c \in Calls, ExpireContext(c) PROVE UNCHANGED ownerVars
  BY <1>11 DEF ExpireContext, ownerVars, clientVars, userVars, receiverVars
<1>12. ASSUME NEW ch \in Chans, Consume(ch) PROVE OwnershipInv'
  <2>1. SendingInv'
    BY <1>12 DEF Consume, receiverVars, SendingInv
  <2>2. SeqInv'
    BY <1>12 DEF Consume, receiverVars, SeqInv
  <2>3. OwnerInv'
    BY <1>12 DEF Consume, receiverVars, OwnerInv
  <2>4. ReceiverInv'
    BY <1>12 DEF Consume, receiverVars, ReceiverInv
  <2>5. LocatedInv'
    BY <1>12 DEF Consume, receiverVars, LocatedInv
  <2> QED
    BY <1>c, <2>1, <2>2, <2>3, <2>4, <2>5
<1>13. ASSUME NEW f \in wire[Server], ReadHeader(f) PROVE OwnershipInv'
  <2>1. SendingInv'
    BY <1>13 DEF ReadHeader, userVars, SendingInv
  <2>2. SeqInv'
    BY <1>13 DEF ReadHeader, userVars, SeqInv
  <2>3. OwnerInv'
    BY <1>13 DEF ReadHeader, userVars, OwnerInv
  <2>4. ReceiverInv'
    BY <1>13 DEF ReadHeader, userVars, ReceiverInv
  <2>5. LocatedInv'
    BY <1>13 DEF ReadHeader, userVars, LocatedInv
  <2> QED
    BY <1>c, <2>1, <2>2, <2>3, <2>4, <2>5
<1>14. ASSUME NEW s \in left, TerminateNext(s) PROVE OwnershipInv'
  <2> s \in 0..MaxSeq
    OBVIOUS
  <2>1. SendingInv'
    BY <1>14 DEF TerminateNext, userVars, SendingInv
  <2>2. SeqInv'
    BY <1>14 DEF TerminateNext, userVars, SeqInv
  <2>3. OwnerInv'
    BY <1>14 DEF TerminateNext, userVars, SeqInv, OwnerInv, ReceiverInv
  <2>4. ReceiverInv'
    BY <1>14 DEF TerminateNext, userVars, ReceiverInv
  <2>5. LocatedInv'
    BY <1>14 DEF TerminateNext, userVars, ReceiverInv, LocatedInv
  <2> QED
    BY <1>c, <2>1, <2>2, <2>3, <2>4, <2>5
<1>15. ASSUME Close PROVE UNCHANGED ownerVars
  BY <1>15 DEF Close, ownerVars, clientVars, userVars, receiverVars
<1>16. ASSUME ReadHeaderFails PROVE OwnershipInv'
  <2>1. SendingInv'
    BY <1>16 DEF ReadHeaderFails, userVars, SendingInv
  <2>2. SeqInv'
    BY <1>16 DEF ReadHeaderFails, userVars, SeqInv
  <2>3. OwnerInv'
    BY <1>16 DEF ReadHeaderFails, userVars, OwnerInv
  <2>4. ReceiverInv'
    BY <1>16 DEF ReadHeaderFails, userVars, ReceiverInv
  <2>5. LocatedInv'
    BY <1>16 DEF ReadHeaderFails, userVars, LocatedInv
  <2> QED
    BY <1>c, <2>1, <2>2, <2>3, <2>4, <2>5
<1>17. ASSUME RemoveReplied PROVE OwnershipInv'
  <2>6. rHead.seq \in 0..MaxSeq
    BY FrameTypes DEF OwnershipInv, TypeOK, ClientTypeOK
  <2>1. SendingInv'
    BY <1>17 DEF RemoveReplied, userVars, SendingInv
  <2>2. SeqInv'
    BY <1>17, <2>6 DEF RemoveReplied, userVars, SeqInv
  <2>3. OwnerInv'
    BY <1>17, <2>6 DEF RemoveReplied, userVars, SeqInv, OwnerInv, ReceiverInv
  <2>4. ReceiverInv'
    BY <1>17 DEF RemoveReplied, userVars, ReceiverInv
  <2>5. LocatedInv'
    BY <1>17 DEF RemoveReplied, userVars, ReceiverInv, LocatedInv
  <2> QED
    BY <1>c, <2>1, <2>2, <2>3, <2>4, <2>5
<1>18. ASSUME DropReply PROVE OwnershipInv'
  <2>1. SendingInv'
    BY <1>18 DEF DropReply, userVars, SendingInv
  <2>2. SeqInv'
    BY <1>18 DEF DropReply, userVars, SeqInv
  <2>3. OwnerInv'
    BY <1>18 DEF DropReply, userVars, OwnerInv
  <2>4. ReceiverInv'
    BY <1>18 DEF DropReply, userVars, ReceiverInv
  <2>5. LocatedInv'
    BY <1>18 DEF DropReply, userVars, LocatedInv
  <2> QED
    BY <1>c, <2>1, <2>2, <2>3, <2>4, <2>5
<1>19. ASSUME ReceiveError PROVE OwnershipInv'
  <2>1. SendingInv'
    BY <1>19 DEF ReceiveError, userVars, SendingInv
  <2>2. SeqInv'
    BY <1>19 DEF ReceiveError, userVars, SeqInv
  <2>3. OwnerInv'
    BY <1>19 DEF ReceiveError, userVars, OwnerInv
  <2>4. ReceiverInv'
    BY <1>19 DEF ReceiveError, userVars, ReceiverInv
  <2>5. LocatedInv'
    BY <1>19 DEF ReceiveError, userVars, LocatedInv
  <2> QED
    BY <1>c, <2>1, <2>2, <2>3, <2>4, <2>5
<1>20. ASSUME ReceiveReply PROVE OwnershipInv'
  <2>1. SendingInv'
    BY <1>20 DEF ReceiveReply, userVars, SendingInv
  <2>2. SeqInv'
    BY <1>20 DEF ReceiveReply, userVars, SeqInv
  <2>3. OwnerInv'
    BY <1>20 DEF ReceiveReply, userVars, OwnerInv
  <2>4. ReceiverInv'
    BY <1>20 DEF ReceiveReply, userVars, ReceiverInv
  <2>5. LocatedInv'
    BY <1>20 DEF ReceiveReply, userVars, LocatedInv
  <2> QED
    BY <1>c, <2>1, <2>2, <2>3, <2>4, <2>5
<1>21. ASSUME ReceiverDone PROVE OwnershipInv'
  <2>1. SendingInv'
    BY <1>21 DEF ReceiverDone, Done, userVars, SendingInv
  <2>2. SeqInv'
    BY <1>21 DEF ReceiverDone, Done, userVars, SeqInv
  <2>3. OwnerInv'
    BY <1>21 DEF ReceiverDone, Done, userVars, OwnerInv
  <2>6. rNext \in {"header", "lock", "terminate"}
    BY DEF OwnershipInv, TypeOK, ClientTypeOK
  <2>4. ReceiverInv'
    BY <1>21, <2>6 DEF ReceiverDone, Done, userVars, ReceiverInv
  <2>5. LocatedInv'
    BY <1>21 DEF ReceiverDone, Done, userVars, SendingInv, LocatedInv
  <2> QED
    BY <1>c, <2>1, <2>2, <2>3, <2>4, <2>5
<1>22. ASSUME TerminateCalls PROVE OwnershipInv'
  <2>1. SendingInv'
    BY <1>22 DEF TerminateCalls, userVars, SendingInv
  <2>2. SeqInv'
    BY <1>22 DEF TerminateCalls, userVars, SeqInv
  <2>3. OwnerInv'
    BY <1>22 DEF TerminateCalls, userVars, OwnerInv, ReceiverInv
  <2>4. ReceiverInv'
    BY <1>22 DEF TerminateCalls, userVars, SendingInv, ReceiverInv
  <2>5. LocatedInv'
    BY <1>22 DEF TerminateCalls, userVars, LocatedInv
  <2> QED
    BY <1>c, <2>1, <2>2, <2>3, <2>4, <2>5
<1>23. ASSUME TerminateEnd PROVE OwnershipInv'
  <2>1. SendingInv'
    BY <1>23 DEF TerminateEnd, userVars, SendingInv
  <2>2. SeqInv'
    BY <1>23 DEF TerminateEnd, userVars, SeqInv
  <2>3. OwnerInv'
    BY <1>23 DEF TerminateEnd, userVars, OwnerInv
  <2>4. ReceiverInv'
    BY <1>23 DEF TerminateEnd, userVars, ReceiverInv
  <2>5. LocatedInv'
    BY <1>23 DEF TerminateEnd, userVars, LocatedInv
  <2> QED
    BY <1>c, <2>1, <2>2, <2>3, <2>4, <2>5
<1>24. ASSUME PeerStep PROVE UNCHANGED ownerVars
  BY <1>24 DEF PeerStep, PeerReads, PeerReply, PeerStray, PeerLoses, PeerClose, ownerVars,
               clientVars, userVars, receiverVars
<1>25. ASSUME UNCHANGED vars PROVE UNCHANGED ownerVars
  BY <1>25 DEF vars, ownerVars, clientVars, userVars, receiverVars
<1>26. ASSUME UNCHANGED ownerVars PROVE OwnershipInv'
  <2>1. SendingInv'
    BY <1>26 DEF ownerVars, SendingInv
  <2>2. SeqInv'
    BY <1>26 DEF ownerVars, SeqInv
  <2>3. OwnerInv'
    BY <1>26 DEF ownerVars, OwnerInv
  <2>4. ReceiverInv'
    BY <1>26 DEF ownerVars, ReceiverInv
  <2>5. LocatedInv'
    BY <1>26 DEF ownerVars, LocatedInv
  <2> QED
    BY <1>c, <2>1, <2>2, <2>3, <2>4, <2>5
<1> QED
  BY <1>1, <1>2, <1>3, <1>4, <1>5, <1>6, <1>7, <1>8, <1>9, <1>10, <1>11, <1>12, <1>13, <1>14, <1>15, <1>16, <1>17, <1>18, <1>19, <1>20, <1>21, <1>22, <1>23, <1>24, <1>25, <1>26
     DEF Next, ClientStep, CallerStep, ReceiverStep

-----------------------------------------------------------------------------
(* What follows from the ownership of calls.                                *)

\* client.go: every open call has one owner: the goroutine that sends it, the
\* map pending, or the receive goroutine.
THEOREM OwnershipInvariant == Spec => []OwnershipInv
<1>1. Init => OwnershipInv
  BY OwnershipInit
<1>2. OwnershipInv /\ [Next]_vars => OwnershipInv'
  BY OwnershipStep
<1> QED
  BY <1>1, <1>2, PTL DEF Spec

\* The variables of the client and the connection keep their types.
THEOREM ClientTypeCorrect == Spec => []TypeOK
<1>1. OwnershipInv => TypeOK
  BY DEF OwnershipInv
<1> QED
  BY <1>1, OwnershipInvariant, PTL

\* client.go: no Done channel ever receives the same call twice, whoever wins
\* between the sender, the receive goroutine, a cancellation and terminateCalls.
THEOREM ClientDoneOnce == Spec => []DoneOnce
<1>1. OwnershipInv => DoneOnce
  BY DEF OwnershipInv, OwnerInv, DoneOnce
<1> QED
  BY <1>1, OwnershipInvariant, PTL

\* client.go: a goroutine that waits on an uncompleted call is still known to
\* the receive goroutine, which has not ended.
THEOREM ClientNoOrphan == Spec => []NoOrphan
<1>1. ASSUME OwnershipInv PROVE NoOrphan
  <2> SUFFICES ASSUME NEW c \in Calls, pc[c] = "wait", dones[c] = 0
               PROVE  rpc # "ended" /\ (pending[callSeq[c]] = c \/ rCall = c)
    BY DEF NoOrphan
  <2>1. /\ callSeq[c] \in 0..MaxSeq /\ NoCall \notin Calls
        /\ \A s \in left : Terminating
        /\ rpc = "ended" => shutdown /\ rCall = NoCall /\ ~Terminating
    BY <1>1, ConnAssumption
       DEF OwnershipInv, TypeOK, ClientTypeOK, ConnAssumption, ReceiverInv, Terminating
  <2>2. pending[callSeq[c]] = c \/ rCall = c
    BY <1>1 DEF OwnershipInv, LocatedInv
  <2>3. ASSUME rpc = "ended" PROVE FALSE
    <3>1. pending[callSeq[c]] = c /\ callSeq[c] \notin left
      BY <2>1, <2>2, <2>3
    <3>2. dones[c] > 0
      BY <1>1, <2>1, <2>3, <3>1 DEF OwnershipInv, LocatedInv
    <3> QED
      BY <3>2
  <2> QED
    BY <2>2, <2>3
<1> QED
  BY <1>1, OwnershipInvariant, PTL

\* client.go: nobody writes Error or Reply of a call after its done().
THEOREM ClientCompletedIsFinal == Spec => CompletedIsFinal
<1>1. ASSUME OwnershipInv, [Next]_vars, NEW c \in Calls, dones[c] > 0
      PROVE  callError'[c] = callError[c] /\ callReply'[c] = callReply[c]
  <2> USE <1>1
  <2>1. /\ pc[c] \notin NotSent /\ pc[c] # "fail" /\ rCall # c
        /\ \A s \in 0..MaxSeq : pending[s] = c => shutdown /\ s \notin left
        /\ callError \in [Calls -> Errors] /\ callReply \in [Calls -> Calls \cup {NoCall}]
        /\ callSeq \in [Calls -> 0..MaxSeq] /\ left \subseteq 0..MaxSeq
    BY ConnAssumption DEF OwnershipInv, TypeOK, ClientTypeOK, SeqInv, OwnerInv, ConnAssumption
  <2>2. ASSUME NEW d \in Calls, RegisterRefused(d)
        PROVE  callError'[c] = callError[c] /\ callReply'[c] = callReply[c]
    BY <2>1, <2>2 DEF RegisterRefused, Goto, NotSent
  <2>3. ASSUME NEW d \in Calls, Unregister(d)
        PROVE  callError'[c] = callError[c] /\ callReply'[c] = callReply[c]
    <3>1. ~shutdown
      BY <2>3 DEF OwnershipInv, ReceiverInv, Unregister
    <3> QED
      BY <2>1, <2>3, <3>1 DEF Unregister
  <2>4. ASSUME ReceiveError \/ ReceiveReply
        PROVE  callError'[c] = callError[c] /\ callReply'[c] = callReply[c]
    BY <2>1, <2>4 DEF ReceiveError, ReceiveReply
  <2>5. ASSUME NEW s \in left, TerminateNext(s)
        PROVE  callError'[c] = callError[c] /\ callReply'[c] = callReply[c]
    BY <2>1, <2>5 DEF TerminateNext
  <2>6. CASE UNCHANGED <<callError, callReply>>
    BY <2>6
  <2> QED
    BY <2>2, <2>3, <2>4, <2>5, <2>6
       DEF Next, ClientStep, CallerStep, ReceiverStep, PeerStep, Issue, LockSending,
           RegisterCall, WriteRequest, WriteRequestFails, FailCall, ContextDone,
           RemoveCancelled, ExpireContext, Consume, Close, ReadHeader, ReadHeaderFails,
           RemoveReplied, DropReply, ReceiverDone, TerminateCalls, TerminateEnd, PeerReads,
           PeerReply, PeerStray, PeerLoses, PeerClose, vars, clientVars
<1>2. OwnershipInv /\ [Next]_vars =>
        [\A c \in Calls : dones[c] > 0 =>
            callError'[c] = callError[c] /\ callReply'[c] = callReply[c]]_vars
  BY <1>1
<1> QED
  BY <1>2, OwnershipInvariant, PTL DEF Spec, CompletedIsFinal

\* client.go: terminateCalls takes the mutex sending before it sets shutdown,
\* so that no request is written afterwards.
THEOREM ClientNoRequestAfterShutdown == Spec => NoRequestAfterShutdown
<1>1. ASSUME OwnershipInv, [Next]_vars, shutdown PROVE wire'[Client] \subseteq wire[Client]
  <2> USE <1>1
  <2>0. wire \in [End -> SUBSET Frame] /\ Client \in End /\ Server \in End /\ Client # Server
    BY DEF OwnershipInv, TypeOK, ConnTypeOK, End, Client, Server
  <2>1. ASSUME NEW c \in Calls, WriteRequest(c) \/ WriteRequestFails(c)
        PROVE  FALSE
    BY <2>1 DEF OwnershipInv, ReceiverInv, WriteRequest, WriteRequestFails, Goto
  <2>2. ASSUME NEW f, ReadHeader(f) PROVE wire'[Client] \subseteq wire[Client]
    BY <2>0, <2>2 DEF ReadHeader, ReadFrame, Peer
  <2>5. ASSUME NEW frames, PeerReads(frames) PROVE wire'[Client] \subseteq wire[Client]
    BY <2>0, <2>5 DEF PeerReads
  <2>3. ASSUME NEW f, NEW x, WriteFrame(Server, f) \/ WriteFails(Server, f, x)
        PROVE  wire'[Client] \subseteq wire[Client]
    BY <2>0, <2>3 DEF WriteFrame, WriteFails
  <2>4. CASE UNCHANGED wire
    BY <2>4
  <2> QED
    BY <2>1, <2>2, <2>3, <2>4, <2>5
       DEF Next, ClientStep, CallerStep, ReceiverStep, PeerStep, Issue, LockSending,
           RegisterCall, RegisterRefused, Unregister, FailCall, ContextDone,
           RemoveCancelled, ExpireContext, Consume, Close, ReadHeaderFails, RemoveReplied,
           DropReply, ReceiveError, ReceiveReply, ReceiverDone, TerminateCalls,
           TerminateNext, TerminateEnd, PeerReply, PeerStray, PeerLoses, PeerClose,
           CloseEnd, WriteLost, vars, connVars
<1>2. OwnershipInv /\ [Next]_vars => [shutdown => wire'[Client] \subseteq wire[Client]]_vars
  BY <1>1
<1> QED
  BY <1>2, OwnershipInvariant, PTL DEF Spec, NoRequestAfterShutdown

-----------------------------------------------------------------------------
(* Replies reach the calls they answer.                                     *)

\* No frame has been sent and no call completed at the start.
LEMMA ClientInvInit == Init => ClientInv
<1> SUFFICES ASSUME Init PROVE ClientInv
  OBVIOUS
<1>1. OwnershipInv
  BY OwnershipInit
<1>2. FrameInv
  BY ConnAssumption DEF Init, ConnInit, ClientInit, FrameInv, Attributed, NoFrame, ConnAssumption
<1>3. OutcomeInv
  BY DEF Init, ClientInit, OutcomeInv, Completed
<1> QED
  BY <1>1, <1>2, <1>3 DEF ClientInv

\* A Write adds the frame it was given, whole or without its body, or nothing.
LEMMA WriteAdds ==
    ASSUME wire \in [End -> SUBSET Frame], NEW e \in End, NEW g,
           \/ WriteFrame(e, g)
           \/ UNCHANGED wire
           \/ wire' = [wire EXCEPT ![e] = @ \cup {[g EXCEPT !.body = FALSE]}]
    PROVE  \A end \in End : \A f \in wire'[end] :
              f \in wire[end] \/ f = g \/ f = [g EXCEPT !.body = FALSE]
<1>1. CASE WriteFrame(e, g)
  BY <1>1 DEF WriteFrame
<1>2. CASE UNCHANGED wire
  BY <1>2
<1>3. CASE wire' = [wire EXCEPT ![e] = @ \cup {[g EXCEPT !.body = FALSE]}]
  <2> DEFINE h == [g EXCEPT !.body = FALSE]
  <2>1. wire' = [wire EXCEPT ![e] = @ \cup {h}]
    BY <1>3
  <2> HIDE DEF h
  <2>2. \A end \in End : \A f \in wire'[end] : f \in wire[end] \/ f = h
    BY <2>1
  <2> QED
    BY <2>2 DEF h
<1> QED
  BY <1>1, <1>2, <1>3

\* Every step of the client or of its peer keeps the frames attributed.
LEMMA FrameStep == ClientInv /\ [Next]_vars => FrameInv'
<1> SUFFICES ASSUME ClientInv, [Next]_vars PROVE FrameInv'
  OBVIOUS
<1>a. /\ wire \in [End -> SUBSET Frame] /\ callSeq \in [Calls -> 0..MaxSeq]
      /\ rHead \in Frame /\ rCall \in Calls \cup {NoCall} /\ seq \in Nat /\ seq > 0
      /\ pending \in [0..MaxSeq -> Calls \cup {NoCall}] /\ MaxSeq \in Nat
      /\ DOMAIN pc = Calls
      /\ NoCall \notin Calls /\ FrameInv /\ SeqInv /\ ReceiverInv
      /\ Client \in End /\ Server \in End
  BY ConnAssumption
     DEF ClientInv, OwnershipInv, TypeOK, ConnTypeOK, ClientTypeOK, ConnAssumption, End
<1>b. \A f \in Frame : f.seq \in 0..MaxSeq /\ f.call \in Calls \cup {NoCall}
  BY FrameTypes
<1> USE <1>a
<1>1. ASSUME UNCHANGED <<wire, callSeq, rHead>>, rpc' = "body" => rpc = "body" /\ rCall' = rCall PROVE FrameInv'
  BY <1>1 DEF FrameInv, Attributed
<1>2. ASSUME NEW c \in Calls, RegisterCall(c) PROVE FrameInv'
  <2>1. callSeq[c] = 0 /\ \A d \in Calls \ {c} : callSeq'[d] = callSeq[d]
    BY <1>2 DEF RegisterCall, Goto, SeqInv, NotSent
  <2>2. \A f : f.call \in Calls \cup {NoCall} /\ Attributed(f) => Attributed(f)'
    BY <2>1 DEF Attributed
  <2>3. rCall # c
    BY <1>2 DEF RegisterCall, Goto, SeqInv, NotSent
  <2> QED
    BY <1>2, <1>b, <2>1, <2>2, <2>3 DEF FrameInv, RegisterCall, connVars, receiverVars
<1>3. ASSUME NEW c \in Calls, WriteRequest(c) \/ WriteRequestFails(c) PROVE FrameInv'
  <2>1. /\ Attributed(RequestFrame(c))
        /\ Attributed([RequestFrame(c) EXCEPT !.body = FALSE])
    BY <1>3 DEF WriteRequest, WriteRequestFails, Goto, SeqInv, Attributed, RequestFrame
  <2>2. UNCHANGED <<callSeq, rHead, rCall>> /\ rpc' = rpc
    BY <1>3 DEF WriteRequest, WriteRequestFails, receiverVars
  <2>3. \A f : Attributed(f) => Attributed(f)'
    BY <2>2 DEF Attributed
  <2>4. \A end \in End : \A f \in wire'[end] : Attributed(f)
    <3>1. \/ WriteFrame(Client, RequestFrame(c))
          \/ UNCHANGED wire
          \/ wire' = [wire EXCEPT ![Client] = @ \cup {[RequestFrame(c) EXCEPT !.body = FALSE]}]
      BY <1>3 DEF WriteRequest, WriteRequestFails, WriteFails, WriteLost
    <3>2. \A end \in End : \A f \in wire'[end] :
             f \in wire[end] \/ f = RequestFrame(c) \/ f = [RequestFrame(c) EXCEPT !.body = FALSE]
      BY <3>1, WriteAdds
    <3> QED
      BY <3>2, <2>1 DEF FrameInv
  <2> QED
    BY <2>2, <2>3, <2>4 DEF FrameInv
<1>4. ASSUME NEW f \in wire[Server], ReadHeader(f) PROVE FrameInv'
  <2>1. Attributed(f)
    BY DEF FrameInv
  <2> QED
    BY <1>4, <2>1 DEF FrameInv, ReadHeader, ReadFrame, Attributed, userVars
<1>5. ASSUME RemoveReplied PROVE FrameInv'
  <2>1. rCall' = pending[rHead.seq] /\ rHead.seq \in 0..MaxSeq
    BY <1>5, <1>b DEF RemoveReplied
  <2> QED
    BY <1>5, <2>1 DEF FrameInv, RemoveReplied, Attributed, SeqInv, userVars, connVars
<1>6. ASSUME DropReply \/ ReceiveError \/ ReceiveReply PROVE FrameInv'
  BY <1>6 DEF FrameInv, DropReply, ReceiveError, ReceiveReply, Attributed, NoFrame, userVars, connVars
<1>7. ASSUME ReceiverDone \/ TerminateCalls PROVE FrameInv'
  <2>1. rNext # "body"
    BY DEF ClientInv, OwnershipInv, TypeOK, ClientTypeOK
  <2> QED
    BY <1>7, <2>1 DEF FrameInv, ReceiverDone, TerminateCalls, Attributed, userVars, connVars
<1>8. ASSUME NEW frames \in SUBSET wire[Client], PeerReads(frames) PROVE FrameInv'
  BY <1>8 DEF FrameInv, PeerReads, Attributed, clientVars, userVars, receiverVars
<1>9. ASSUME NEW c \in Calls, NEW error \in BOOLEAN, PeerReply(c, error) PROVE FrameInv'
  <2>1. /\ Attributed(Reply(c, error))
        /\ Attributed([Reply(c, error) EXCEPT !.body = FALSE])
    BY <1>9 DEF PeerReply, Attributed, Reply
  <2>2. UNCHANGED <<callSeq, rHead, rpc, rCall>>
    BY <1>9 DEF PeerReply, clientVars, userVars, receiverVars
  <2>3. \A f : Attributed(f) => Attributed(f)'
    BY <2>2 DEF Attributed
  <2>4. \A end \in End : \A f \in wire'[end] : Attributed(f)
    <3>1. \/ WriteFrame(Server, Reply(c, error))
          \/ UNCHANGED wire
          \/ wire' = [wire EXCEPT ![Server] = @ \cup {[Reply(c, error) EXCEPT !.body = FALSE]}]
      BY <1>9 DEF PeerReply, WriteFails
    <3>2. \A end \in End : \A f \in wire'[end] :
             f \in wire[end] \/ f = Reply(c, error) \/ f = [Reply(c, error) EXCEPT !.body = FALSE]
      BY <3>1, WriteAdds
    <3> QED
      BY <3>2, <2>1 DEF FrameInv
  <2> QED
    BY <2>2, <2>3, <2>4 DEF FrameInv
<1>10. ASSUME PeerStray PROVE FrameInv'
  <2>1. Attributed(StrayReply)
    BY DEF Attributed, StrayReply
  <2> QED
    BY <1>10, <2>1 DEF FrameInv, PeerStray, WriteFrame, Attributed, clientVars, userVars, receiverVars
<1> QED
  BY <1>1, <1>2, <1>3, <1>4, <1>5, <1>6, <1>7, <1>8, <1>9, <1>10
     DEF Next, ClientStep, CallerStep, ReceiverStep, PeerStep, Issue, LockSending, RegisterRefused,
         Unregister, FailCall, ContextDone, RemoveCancelled, ExpireContext, Consume, Close, CloseEnd,
         ReadHeaderFails, TerminateNext, TerminateEnd, PeerLoses, WriteLost, PeerClose,
         vars, connVars, clientVars, userVars, receiverVars

\* Every step of the client or of its peer keeps what completed calls hold.
LEMMA OutcomeStep == ClientInv /\ [Next]_vars => OutcomeInv'
<1> SUFFICES ASSUME ClientInv, [Next]_vars PROVE OutcomeInv'
  OBVIOUS
<1>a. /\ callSeq \in [Calls -> 0..MaxSeq] /\ rCall \in Calls \cup {NoCall}
      /\ callError \in [Calls -> Errors] /\ callReply \in [Calls -> Calls \cup {NoCall}]
      /\ dones \in [Calls -> Nat] /\ chan \in [Chans -> Seq(Calls)]
      /\ DOMAIN pc = Calls /\ DOMAIN got = Calls
      /\ pending \in [0..MaxSeq -> Calls \cup {NoCall}] /\ left \subseteq 0..MaxSeq
      /\ rNext # "done" /\ rHead \in Frame /\ NoCall \notin Calls
      /\ FrameInv /\ OutcomeInv /\ SeqInv /\ OwnerInv /\ ReceiverInv
  BY ConnAssumption
     DEF ClientInv, OwnershipInv, TypeOK, ClientTypeOK, ConnAssumption
<1> USE <1>a
<1> DEFINE Held(c) == /\ callReply[c] \in {NoCall, c}
                      /\ Completed(c) /\ callError[c] = "nil" => callReply[c] = c
                      /\ pc[c] = "fail" => callError[c] # "nil"
                      /\ got[c] = "nil" => dones[c] > 0 /\ callReply[c] = c
           Queued == \A ch \in Chans : \A i \in 1..Len(chan[ch]) : dones[chan[ch][i]] > 0
<1>b. \A c \in Calls : Held(c)
  BY DEF OutcomeInv
<1>c. Queued
  BY DEF OutcomeInv
<1>1. ASSUME UNCHANGED <<callError, callReply, dones, chan, got>>,
             \A c \in Calls : pc'[c] = "fail" => pc[c] = "fail",
             rpc' = "done" => rpc = "done" /\ rCall' = rCall
      PROVE  OutcomeInv'
  BY <1>1 DEF OutcomeInv, Completed
<1>2. ASSUME NEW c \in Calls, RegisterRefused(c) PROVE OutcomeInv'
  <2>1. ~Completed(c) /\ got[c] # "nil"
    BY <1>2, <1>b DEF RegisterRefused, Goto, SeqInv, NotSent, Completed
  <2> QED
    BY <1>2, <2>1 DEF RegisterRefused, Goto, OutcomeInv, Completed, receiverVars
<1>3. ASSUME NEW c \in Calls, Unregister(c) PROVE OutcomeInv'
  <2>1. pending[callSeq[c]] = NoCall \/ pending[callSeq[c]] = c
    BY DEF SeqInv
  <2> QED
    BY <1>3, <2>1 DEF Unregister, Goto, OutcomeInv, Completed, receiverVars
<1>4. ASSUME NEW c \in Calls, Done(c), callError[c] = "nil" => callReply[c] = c,
             UNCHANGED <<callError, callReply, got>>,
             \A d \in Calls : pc'[d] = "fail" => pc[d] = "fail",
             rpc' = "done" => rpc = "done" /\ rCall' = rCall
      PROVE  OutcomeInv'
  <2>1. ChanOf[c] \in Chans
    BY ClientAssumption DEF ClientAssumption
  <2>2. \A d \in Calls : Held(d)'
    BY <1>4 DEF Done, OutcomeInv, Completed
  <2>3. \A d \in Calls : dones[d] > 0 => dones'[d] > 0
    BY <1>4 DEF Done
  <2>4. dones'[c] > 0
    BY <1>4 DEF Done
  <2>5. ASSUME NEW ch \in Chans, NEW i \in 1..Len(chan'[ch]) PROVE dones'[chan'[ch][i]] > 0
    <3>1. CASE ch # ChanOf[c]
      <4>1. chan'[ch] = chan[ch] /\ chan[ch][i] \in Calls
        BY <1>4, <2>1, <3>1 DEF Done
      <4>2. i \in 1..Len(chan[ch])
        BY <4>1
      <4> QED
        BY <1>c, <2>3, <4>1, <4>2
    <3>2. CASE ch = ChanOf[c]
      <4> DEFINE q == chan[ch]
      <4>1. q \in Seq(Calls) /\ chan'[ch] = Append(q, c)
        BY <1>4, <2>1, <3>2 DEF Done
      <4>2. /\ Len(chan'[ch]) = Len(q) + 1 /\ Len(q) \in Nat
            /\ \A j \in 1..Len(q) : chan'[ch][j] = q[j] /\ q[j] \in Calls
            /\ chan'[ch][Len(q) + 1] = c
        BY <4>1, AppendProperties
      <4>3. CASE i = Len(q) + 1
        BY <2>4, <4>2, <4>3
      <4>4. CASE i \in 1..Len(q)
        <5>1. dones[q[i]] > 0
          BY <1>c, <4>4
        <5> QED
          BY <2>3, <4>2, <4>4, <5>1
      <4> QED
        BY <4>2, <4>3, <4>4, <2>5
    <3> QED
      BY <3>1, <3>2
  <2> QED
    BY <2>2, <2>5 DEF OutcomeInv
<1>5. ASSUME NEW c \in Calls, FailCall(c) PROVE OutcomeInv'
  BY <1>4, <1>5, <1>b DEF FailCall, Goto, receiverVars
<1>6. ASSUME ReceiverDone PROVE OutcomeInv'
  <2>1. rCall \in Calls /\ (callError[rCall] = "nil" => callReply[rCall] = rCall)
    BY <1>6, <1>b DEF ReceiverDone, ReceiverInv, Completed
  <2> QED
    BY <1>4, <1>6, <2>1 DEF ReceiverDone, userVars
<1>7. ASSUME NEW ch \in Chans, Consume(ch) PROVE OutcomeInv'
  <2> DEFINE c == Head(chan[ch])
  <2>1. chan[ch] \in Seq(Calls) /\ chan[ch] # <<>>
    BY <1>7 DEF Consume
  <2>2. /\ c = chan[ch][1] /\ c \in Calls /\ 1 \in 1..Len(chan[ch])
        /\ Len(Tail(chan[ch])) = Len(chan[ch]) - 1 /\ Len(chan[ch]) \in Nat
        /\ \A i \in 1..Len(Tail(chan[ch])) : Tail(chan[ch])[i] = chan[ch][i + 1]
    BY <2>1, HeadTailProperties
  <2>3. dones[c] > 0
    BY <1>c, <2>2
  <2> HIDE DEF c
  <2>4. \A d \in Calls : Held(d)'
    BY <1>7, <1>b, <2>2, <2>3 DEF Consume, Completed, receiverVars, c
  <2>5. Queued'
    <3>1. ASSUME NEW x \in Chans, NEW i \in 1..Len(chan'[x]) PROVE dones[chan'[x][i]] > 0
      <4>1. CASE x = ch
        <5>1. i + 1 \in 1..Len(chan[ch]) /\ chan'[x][i] = chan[ch][i + 1]
          BY <1>7, <2>2, <4>1 DEF Consume
        <5> QED
          BY <1>c, <5>1
      <4>2. CASE x # ch
        BY <1>7, <1>c, <4>2 DEF Consume
      <4> QED
        BY <4>1, <4>2
    <3> QED
      BY <1>7, <3>1 DEF Consume
  <2> QED
    BY <2>4, <2>5 DEF OutcomeInv
<1>8. ASSUME NEW c \in Calls, RemoveCancelled(c) PROVE OutcomeInv'
  BY <1>8 DEF RemoveCancelled, Goto, OutcomeInv, Completed, receiverVars
<1>9. ASSUME ReceiveError \/ ReceiveReply PROVE OutcomeInv'
  <2>1. rCall \in Calls /\ dones[rCall] = 0 /\ pc[rCall] # "fail"
    BY <1>9 DEF ReceiveError, ReceiveReply, OwnerInv
  <2>2. ASSUME ReceiveReply PROVE rHead.call = rCall
    <3>1. rHead.seq # 0 /\ callSeq[rCall] = rHead.seq
      BY <2>1, <2>2 DEF ReceiveReply, FrameInv
    <3>2. rHead.call \in Calls /\ callSeq[rHead.call] = rHead.seq
      BY <3>1, FrameTypes DEF FrameInv, Attributed
    <3> QED
      BY <2>1, <3>1, <3>2 DEF SeqInv
  <2> QED
    BY <1>9, <2>1, <2>2 DEF ReceiveError, ReceiveReply, OutcomeInv, Completed, userVars
<1>10. ASSUME NEW s \in left, TerminateNext(s) PROVE OutcomeInv'
  <2>1. pending[s] \in Calls /\ dones[pending[s]] = 0 /\ pc[pending[s]] # "fail"
    BY <1>10 DEF ReceiverInv, OwnerInv
  <2> QED
    BY <1>10, <2>1 DEF TerminateNext, OutcomeInv, Completed, userVars
<1> QED
  BY <1>1, <1>2, <1>3, <1>5, <1>6, <1>7, <1>8, <1>9, <1>10
     DEF Next, ClientStep, CallerStep, ReceiverStep, PeerStep, Goto, Issue, LockSending,
         RegisterCall, WriteRequest, WriteRequestFails, ContextDone, ExpireContext, Close,
         ReadHeader, ReadHeaderFails, RemoveReplied, DropReply, TerminateCalls, TerminateEnd,
         PeerReads, PeerReply, PeerStray, PeerLoses, PeerClose, vars, clientVars, userVars,
         receiverVars

\* client.go: ownership of calls, attribution of frames and outcomes together.
THEOREM ClientInvariant == Spec => []ClientInv
<1>1. ClientInv /\ [Next]_vars => ClientInv'
  BY OwnershipStep, FrameStep, OutcomeStep DEF ClientInv
<1> QED
  BY <1>1, ClientInvInit, PTL DEF Spec

\* client.go: whatever the order, the number and the lateness of replies, a
\* Reply is filled from the answer to its own call only, and a user who is
\* told of no error holds that answer.
THEOREM ClientReplyMatches == Spec => []ReplyMatches
<1>1. ClientInv => ReplyMatches
  BY DEF ClientInv, OutcomeInv, ReplyMatches
<1> QED
  BY <1>1, ClientInvariant, PTL

-----------------------------------------------------------------------------
(* The Done channels hold each completed call once, until its user reads it. *)

\* A queued call is in its own channel, and its user does not know yet, unless
\* Call has returned on ctx.Done(); each call is queued once; the user of Call
\* knows when it has returned, the user of Go only after done().
InChannelInv ==
    \A ch \in Chans : \A i \in 1..Len(chan[ch]) :
        /\ ChanOf[chan[ch][i]] = ch
        /\ got[chan[ch][i]] # "none" => pc[chan[ch][i]] = "returned"
OnceInv ==
    \A ch \in Chans : \A i, j \in 1..Len(chan[ch]) : chan[ch][i] = chan[ch][j] => i = j
ToldInv ==
    \A c \in Calls :
        /\ pc[c] \in {"cancel", "returned"} => c \in SyncCalls
        /\ c \in SyncCalls => (got[c] # "none" <=> pc[c] = "returned")
        /\ got[c] # "none" /\ c \notin SyncCalls => dones[c] > 0
QueueInv == InChannelInv /\ OnceInv /\ ToldInv

\* done() queues a call that is in no channel.
LEMMA DoneQueues ==
    ASSUME ClientInv, QueueInv, NEW c \in Calls, Done(c), dones[c] = 0, UNCHANGED got,
           \A d \in Calls : pc'[d] = pc[d] \/ (d = c /\ pc[c] = "fail" /\ pc'[c] = "wait")
    PROVE  QueueInv'
<1> DEFINE ch == ChanOf[c]
           q == chan[ch]
<1>1. /\ ch \in Chans /\ q \in Seq(Calls) /\ Len(q) \in Nat
      /\ chan' = [chan EXCEPT ![ch] = Append(q, c)]
      /\ dones' = [dones EXCEPT ![c] = @ + 1]
      /\ chan \in [Chans -> Seq(Calls)] /\ dones \in [Calls -> Nat]
      /\ \A x \in Chans : \A i \in 1..Len(chan[x]) : dones[chan[x][i]] > 0 /\ chan[x][i] \in Calls
  <2>1. /\ chan \in [Chans -> Seq(Calls)] /\ dones \in [Calls -> Nat]
        /\ \A x \in Chans : \A i \in 1..Len(chan[x]) : dones[chan[x][i]] > 0
    BY DEF ClientInv, OwnershipInv, TypeOK, ClientTypeOK, OutcomeInv
  <2>2. ch \in Chans
    BY ClientAssumption DEF ClientAssumption
  <2>3. \A x \in Chans : \A i \in 1..Len(chan[x]) : chan[x][i] \in Calls
    BY <2>1
  <2> QED
    BY <2>1, <2>2, <2>3 DEF Done
<1> HIDE DEF ch
<1>2. got[c] # "none" => pc[c] = "returned" /\ pc'[c] = "returned"
  <2>1. ~(dones[c] > 0)
    BY <1>1
  <2> QED
    BY <2>1 DEF QueueInv, ToldInv
<1>3. /\ Len(chan'[ch]) = Len(q) + 1
      /\ \A j \in 1..Len(q) : chan'[ch][j] = q[j]
      /\ chan'[ch][Len(q) + 1] = c
      /\ \A x \in Chans : x # ch => chan'[x] = chan[x]
  BY <1>1, AppendProperties
<1>4. ASSUME NEW x \in Chans, NEW i \in 1..Len(chan'[x])
      PROVE  \/ i \in 1..Len(chan[x]) /\ chan'[x][i] = chan[x][i]
             \/ x = ch /\ i = Len(q) + 1 /\ chan'[x][i] = c
  <2>1. CASE x # ch
    BY <1>3, <2>1
  <2>2. CASE x = ch
    <3>1. i \in 1..Len(q) \/ i = Len(q) + 1
      BY <1>1, <1>3, <1>4, <2>2
    <3> QED
      BY <1>3, <2>2, <3>1
  <2> QED
    BY <2>1, <2>2
<1>5. InChannelInv'
  <2> SUFFICES ASSUME NEW x \in Chans, NEW i \in 1..Len(chan'[x])
               PROVE  /\ ChanOf[chan'[x][i]] = x
                      /\ got[chan'[x][i]] # "none" => pc'[chan'[x][i]] = "returned"
    BY DEF InChannelInv
  <2>1. CASE i \in 1..Len(chan[x]) /\ chan'[x][i] = chan[x][i]
    <3>1. chan[x][i] \in Calls /\ chan[x][i] # c
      BY <1>1, <2>1
    <3> QED
      BY <2>1, <3>1 DEF QueueInv, InChannelInv
  <2>2. CASE x = ch /\ chan'[x][i] = c
    BY <1>2, <2>2 DEF ch
  <2> QED
    BY <1>4, <2>1, <2>2
<1>6. OnceInv'
  <2> SUFFICES ASSUME NEW x \in Chans, NEW i \in 1..Len(chan'[x]), NEW j \in 1..Len(chan'[x]),
                      chan'[x][i] = chan'[x][j]
               PROVE  i = j
    BY DEF OnceInv
  <2>1. \A k \in 1..Len(chan[x]) : chan[x][k] # c
    BY <1>1
  <2> QED
    BY <1>4, <2>1 DEF QueueInv, OnceInv
<1>7. ToldInv'
  BY <1>1, <1>2 DEF QueueInv, ToldInv
<1> QED
  BY <1>5, <1>6, <1>7 DEF QueueInv

\* A user takes the first call of a channel, and is told once.
LEMMA ConsumeQueues ==
    ASSUME ClientInv, QueueInv, NEW ch \in Chans, Consume(ch)
    PROVE  /\ QueueInv'
           /\ LET c == Head(chan[ch]) IN
              /\ c \in Calls /\ got[c] = "none" /\ pc[c] # "idle" /\ dones[c] > 0
              /\ got' = [got EXCEPT ![c] = callError[c]]
<1> DEFINE c == Head(chan[ch])
<1>1. /\ chan[ch] \in Seq(Calls) /\ chan[ch] # <<>> /\ chan \in [Chans -> Seq(Calls)]
      /\ DOMAIN pc = Calls /\ DOMAIN got = Calls
      /\ callError[c] # "none" \/ c \notin Calls
      /\ dones \in [Calls -> Nat]
  BY DEF Consume, ClientInv, OwnershipInv, TypeOK, ClientTypeOK, Errors
<1>2. /\ c = chan[ch][1] /\ c \in Calls /\ 1 \in 1..Len(chan[ch])
      /\ Len(Tail(chan[ch])) = Len(chan[ch]) - 1 /\ Len(chan[ch]) \in Nat
      /\ \A i \in 1..Len(Tail(chan[ch])) : Tail(chan[ch])[i] = chan[ch][i + 1]
  BY <1>1, HeadTailProperties
<1>3. dones[c] > 0 /\ ChanOf[c] = ch
  BY <1>2 DEF ClientInv, OutcomeInv, QueueInv, InChannelInv
<1>4. /\ chan' = [chan EXCEPT ![ch] = Tail(chan[ch])]
      /\ got' = [got EXCEPT ![c] = callError[c]]
      /\ pc' = IF c \in SyncCalls THEN [pc EXCEPT ![c] = "returned"] ELSE pc
      /\ c \in SyncCalls => pc[c] = "wait"
      /\ UNCHANGED dones
  BY DEF Consume
<1>5. got[c] = "none" /\ pc[c] # "idle"
  <2>1. pc[c] # "idle"
    BY <1>2, <1>3 DEF ClientInv, OwnershipInv, SeqInv, NotSent
  <2>2. got[c] # "none" => pc[c] = "returned"
    BY <1>2 DEF QueueInv, InChannelInv
  <2>3. pc[c] = "returned" => c \in SyncCalls
    BY <1>2 DEF QueueInv, ToldInv
  <2> QED
    BY <1>4, <2>1, <2>2, <2>3
<1> HIDE DEF c
<1>6. ASSUME NEW x \in Chans, NEW i \in 1..Len(chan'[x])
      PROVE  \/ x = ch /\ i + 1 \in 1..Len(chan[ch]) /\ chan'[x][i] = chan[ch][i + 1]
             \/ x # ch /\ chan'[x] = chan[x] /\ i \in 1..Len(chan[x])
  BY <1>1, <1>2, <1>4
<1>7. ASSUME NEW x \in Chans, NEW i \in 1..Len(chan'[x])
      PROVE  chan'[x][i] # c /\ \E k \in 1..Len(chan[x]) : chan[x][k] = chan'[x][i]
  <2>1. CASE x = ch /\ i + 1 \in 1..Len(chan[ch]) /\ chan'[x][i] = chan[ch][i + 1]
    <3>1. i + 1 # 1
      BY <2>1, <1>7
    <3> QED
      BY <1>2, <2>1, <3>1 DEF QueueInv, OnceInv
  <2>2. CASE x # ch /\ chan'[x] = chan[x] /\ i \in 1..Len(chan[x])
    BY <1>3, <2>2 DEF QueueInv, InChannelInv
  <2> QED
    BY <1>6, <2>1, <2>2
<1>8. InChannelInv'
  <2> SUFFICES ASSUME NEW x \in Chans, NEW i \in 1..Len(chan'[x])
               PROVE  /\ ChanOf[chan'[x][i]] = x
                      /\ got'[chan'[x][i]] # "none" => pc'[chan'[x][i]] = "returned"
    BY DEF InChannelInv
  <2>1. PICK k \in 1..Len(chan[x]) : chan[x][k] = chan'[x][i] /\ chan[x][k] # c
    BY <1>7
  <2>2. chan[x][k] \in Calls
    BY <1>1
  <2>3. got'[chan[x][k]] = got[chan[x][k]] /\ pc'[chan[x][k]] = pc[chan[x][k]]
    BY <1>1, <1>4, <2>1, <2>2
  <2> QED
    BY <2>1, <2>3 DEF QueueInv, InChannelInv
<1>9. OnceInv'
  <2> SUFFICES ASSUME NEW x \in Chans, NEW i \in 1..Len(chan'[x]), NEW j \in 1..Len(chan'[x]),
                      chan'[x][i] = chan'[x][j]
               PROVE  i = j
    BY DEF OnceInv
  <2>1. CASE x = ch
    <3>1. i + 1 = j + 1
      BY <1>6, <2>1 DEF QueueInv, OnceInv
    <3> QED
      BY <3>1
  <2>2. CASE x # ch
    BY <1>6, <2>2 DEF QueueInv, OnceInv
  <2> QED
    BY <2>1, <2>2
<1>10. ToldInv'
  BY <1>1, <1>2, <1>3, <1>4 DEF QueueInv, ToldInv
<1> QED
  BY <1>2, <1>3, <1>4, <1>5, <1>8, <1>9, <1>10 DEF QueueInv, c

\* Every step of the client or of its peer keeps the channels in order.
LEMMA QueueStep == ClientInv /\ QueueInv /\ [Next]_vars => QueueInv'
<1> SUFFICES ASSUME ClientInv, QueueInv, [Next]_vars PROVE QueueInv'
  OBVIOUS
<1>a. DOMAIN pc = Calls /\ DOMAIN got = Calls /\ expired \subseteq SyncCalls
      /\ rCall \in Calls \cup {NoCall}
  BY DEF ClientInv, OwnershipInv, TypeOK, ClientTypeOK
<1>1. ASSUME UNCHANGED <<chan, dones, got, pc>> PROVE QueueInv'
  BY <1>1 DEF QueueInv, InChannelInv, OnceInv, ToldInv
<1>2. ASSUME NEW c \in Calls, NEW from, NEW to, Goto(c, from, to), UNCHANGED <<chan, dones, got>>,
             from # "returned" /\ to # "returned", to = "cancel" => c \in SyncCalls
      PROVE  QueueInv'
  <2>1. \A d \in Calls : pc'[d] = IF d = c THEN to ELSE pc[d]
    BY <1>2, <1>a DEF Goto
  <2>2. pc[c] = from
    BY <1>2 DEF Goto
  <2>3. \A x \in Chans : \A i \in 1..Len(chan[x]) : chan[x][i] \in Calls
    BY DEF ClientInv, OwnershipInv, TypeOK, ClientTypeOK
  <2>4. InChannelInv'
    BY <1>2, <2>1, <2>2, <2>3 DEF QueueInv, InChannelInv
  <2>5. OnceInv' /\ ToldInv'
    BY <1>2, <2>1, <2>2 DEF QueueInv, OnceInv, ToldInv
  <2> QED
    BY <2>4, <2>5 DEF QueueInv
<1>3. ASSUME NEW c \in Calls, FailCall(c) PROVE QueueInv'
  <2>1. dones[c] = 0 /\ pc[c] = "fail" /\ \A d \in Calls : pc'[d] = pc[d] \/ (d = c /\ pc'[c] = "wait")
    BY <1>3, <1>a DEF FailCall, Goto, ClientInv, OwnershipInv, OwnerInv
  <2> QED
    BY <1>3, <2>1, DoneQueues DEF FailCall
<1>4. ASSUME ReceiverDone PROVE QueueInv'
  <2>1. rCall \in Calls /\ dones[rCall] = 0
    BY <1>4, <1>a DEF ReceiverDone, ClientInv, OwnershipInv, OwnerInv, ReceiverInv
  <2>2. UNCHANGED <<pc, got>> /\ Done(rCall)
    BY <1>4 DEF ReceiverDone, userVars
  <2> QED
    BY <2>1, <2>2, DoneQueues
<1>5. ASSUME NEW ch \in Chans, Consume(ch) PROVE QueueInv'
  BY <1>5, ConsumeQueues
<1>6. ASSUME NEW c \in Calls, RemoveCancelled(c) PROVE QueueInv'
  BY <1>6, <1>a DEF RemoveCancelled, Goto, QueueInv, InChannelInv, OnceInv, ToldInv
<1>7. ASSUME NEW c \in Calls, ContextDone(c) PROVE QueueInv'
  BY <1>7, <1>a, <1>2 DEF ContextDone
<1>8. ASSUME NEW c \in Calls, Issue(c) \/ LockSending(c) \/ RegisterCall(c) \/ RegisterRefused(c)
             \/ WriteRequest(c) \/ WriteRequestFails(c) \/ Unregister(c)
      PROVE  QueueInv'
  BY <1>8, <1>2 DEF Issue, LockSending, RegisterCall, RegisterRefused, WriteRequest,
                    WriteRequestFails, Unregister
<1> QED
  BY <1>1, <1>3, <1>4, <1>5, <1>6, <1>7, <1>8
     DEF Next, ClientStep, CallerStep, ReceiverStep, PeerStep, ExpireContext, Close,
         ReadHeader, ReadHeaderFails, RemoveReplied, DropReply, ReceiveError, ReceiveReply,
         TerminateCalls, TerminateNext, TerminateEnd, PeerReads, PeerReply, PeerStray,
         PeerLoses, PeerClose, vars, clientVars, userVars

\* client.go: every completed call is in its Done channel once or was read, and
\* a user is told of a call once.
THEOREM ClientQueueInvariant == Spec => []QueueInv
<1>1. Init => QueueInv
  BY DEF Init, ClientInit, QueueInv, InChannelInv, OnceInv, ToldInv
<1> QED
  BY <1>1, QueueStep, ClientInvariant, PTL DEF Spec

\* client.go: done() waits for a channel only while its users have yet to read
\* calls completed before, and never for the channel of a Call.
THEOREM ClientDoneWaitsForReader == Spec => []DoneWaitsForReader
<1>1. ASSUME ClientInv, QueueInv,
             NEW c \in Calls, pc[c] = "fail" \/ (rpc = "done" /\ rCall = c), ~Room(c)
      PROVE  /\ c \notin SyncCalls
             /\ \A i \in 1..Len(chan[ChanOf[c]]) :
                   LET unread == chan[ChanOf[c]][i]
                   IN  unread # c /\ dones[unread] = 1 /\ got[unread] = "none"
  <2> DEFINE ch == ChanOf[c]
  <2>1. ch \in Chans /\ Cap[ch] \in Nat \ {0}
    BY ClientAssumption DEF ClientAssumption
  <2>2. dones[c] = 0
    BY <1>1 DEF ClientInv, OwnershipInv, OwnerInv, ReceiverInv
  <2>3. chan[ch] \in Seq(Calls) /\ Len(chan[ch]) \in Nat /\ Len(chan[ch]) > 0
    <3>1. chan[ch] \in Seq(Calls)
      BY <1>1, <2>1 DEF ClientInv, OwnershipInv, TypeOK, ClientTypeOK
    <3> QED
      BY <1>1, <2>1, <3>1, LenProperties DEF Room
  <2>4. ASSUME NEW i \in 1..Len(chan[ch])
        PROVE  /\ chan[ch][i] \in Calls /\ ChanOf[chan[ch][i]] = ch
               /\ chan[ch][i] # c /\ dones[chan[ch][i]] = 1
    <3>1. chan[ch][i] \in Calls
      BY <2>3
    <3>2. dones[chan[ch][i]] \in Nat /\ dones[chan[ch][i]] > 0 /\ dones[chan[ch][i]] <= 1
      BY <1>1, <2>1, <3>1
         DEF ClientInv, OutcomeInv, OwnershipInv, OwnerInv, TypeOK, ClientTypeOK
    <3>3. ChanOf[chan[ch][i]] = ch
      BY <1>1, <2>1 DEF QueueInv, InChannelInv
    <3> QED
      BY <2>2, <3>1, <3>2, <3>3
  <2>5. c \notin SyncCalls
    <3>1. 1 \in 1..Len(chan[ch])
      BY <2>3
    <3> QED
      BY <2>4, <3>1, ClientAssumption DEF ClientAssumption
  <2>6. ASSUME NEW i \in 1..Len(chan[ch]) PROVE got[chan[ch][i]] = "none"
    <3>1. chan[ch][i] \notin SyncCalls
      BY <2>4, <2>6, ClientAssumption DEF ClientAssumption
    <3>2. pc[chan[ch][i]] # "returned"
      BY <1>1, <2>4, <2>6, <3>1 DEF QueueInv, ToldInv
    <3> QED
      BY <1>1, <2>1, <3>2 DEF QueueInv, InChannelInv
  <2> QED
    BY <2>4, <2>5, <2>6
<1>2. ClientInv /\ QueueInv => DoneWaitsForReader
  BY <1>1 DEF DoneWaitsForReader
<1> QED
  BY <1>2, ClientInvariant, ClientQueueInvariant, PTL
=============================================================================
