-------------------------- MODULE Dispatcher_proofs --------------------------
(***************************************************************************)
(* Proofs about the dispatcher for every set of dispatches and any number  *)
(* of connections: its types, its registry, what a clean exit and a failed *)
(* Dispatch leave behind, and that it implements ReplyStream.              *)
(***************************************************************************)
EXTENDS Dispatcher, TLAPS

Live == {"receiving"} \cup Replies

(* The drain and its caller's channel exist once Dispatch has returned.    *)
DrainFollowsCall ==
  \A r \in Reqs : call[r] = "returned" <=> drain[r] # "off"

(* The channel is closed by the first of the drain's deferred calls, and   *)
(* until then a terminal reply is on it only if the drain is past it.      *)
ChannelFollowsDrain ==
  \A r \in Reqs :
    /\ drain[r] \in Live \cup {"off", "closing"} => ~closed[r]
    /\ drain[r] \in Live \cup {"off"} =>
         \A i \in DOMAIN stream[r] : stream[r][i] \notin Terminal

(* The socket is closed by the second, and by nothing after it reopened.   *)
SocketFollowsDrain ==
  \A r \in Reqs : drain[r] \in {"deregistering", "counting", "done"} => sock[r] = "gone"

(* The WaitGroup counts the drains there are.                              *)
WaitGroupExact ==
  /\ \A r \in Reqs : r \in wg <=> drain[r] \notin {"off", "done"}
  /\ proc = "quit" => wg = {}

IInv ==
  /\ TypeOK
  /\ DrainFollowsCall
  /\ ChannelFollowsDrain
  /\ SocketFollowsDrain
  /\ WaitGroupExact
  /\ OutstandingExact
  /\ FailureLeavesNothing

-----------------------------------------------------------------------------
LEMMA InitIInv == Init => IInv
  BY MaxConnsAssumption
  DEF Init, IInv, TypeOK, DrainFollowsCall, ChannelFollowsDrain, SocketFollowsDrain,
      WaitGroupExact, OutstandingExact, FailureLeavesNothing, Live, Replies

(* The types are preserved by every step.                                  *)
LEMMA NextTypeOK == ASSUME TypeOK, [Next]_vars PROVE TypeOK'
  <1> USE MaxConnsAssumption DEF TypeOK, channel, registry, fate, stopped
  <1>1. ASSUME NEW r \in Reqs, StartListener(r) PROVE TypeOK'
    BY <1>1 DEF StartListener
  <1>2. ASSUME NEW r \in Reqs, AtomicWriteFile(r) PROVE TypeOK'
    BY <1>2 DEF AtomicWriteFile
  <1>3. ASSUME NEW r \in Reqs, WriteOSC(r) PROVE TypeOK'
    BY <1>3 DEF WriteOSC
  <1>4. ASSUME NEW r \in Reqs, ErrorReturn(r) PROVE TypeOK'
    BY <1>4 DEF ErrorReturn
  <1>5. ASSUME NEW r \in Reqs, SpawnDrain(r) PROVE TypeOK'
    BY <1>5 DEF SpawnDrain
  <1>6. ASSUME NEW r \in Reqs, Accept(r) PROVE TypeOK'
    BY <1>6 DEF Accept
  <1>7. ASSUME NEW r \in Reqs, SendRaw(r) PROVE TypeOK'
    <2>1. acceptor[r] \in Conns \ {"empty"}
      BY <1>7 DEF SendRaw, Conns, Replies
    <2>2. Append(raw[r], acceptor[r]) \in Seq(Conns \ {"empty"})
      BY <2>1
    <2> QED
      BY <1>7, <2>2 DEF SendRaw
  <1>8. ASSUME NEW r \in Reqs, AcceptClosed(r) PROVE TypeOK'
    BY <1>8 DEF AcceptClosed
  <1>9. ASSUME NEW r \in Reqs, DrainReceive(r) PROVE TypeOK'
    <2>1. Head(raw[r]) \in Conns \ {"empty"} /\ Tail(raw[r]) \in Seq(Conns \ {"empty"})
      BY <1>9 DEF DrainReceive
    <2>2. Parsed(Head(raw[r])) \in {"receiving"} \cup Replies
      BY <2>1 DEF Parsed, Conns
    <2> QED
      BY <1>9, <2>1, <2>2 DEF DrainReceive
  <1>10. ASSUME NEW r \in Reqs, DrainForward(r) PROVE TypeOK'
    <2>1. /\ Append(out[r], drain[r]) \in Seq(Replies)
          /\ Append(stream[r], drain[r]) \in Seq(Replies)
          /\ AfterForward(drain[r]) \in {"closing", "receiving"}
      BY <1>10 DEF DrainForward, AfterForward
    <2> QED
      BY <1>10, <2>1 DEF DrainForward
  <1>11. ASSUME NEW r \in Reqs, DrainCancelled(r) PROVE TypeOK'
    BY <1>11 DEF DrainCancelled
  <1>12. ASSUME NEW r \in Reqs, CloseOut(r) PROVE TypeOK'
    BY <1>12 DEF CloseOut
  <1>13. ASSUME NEW r \in Reqs, ListenerCleanup(r) PROVE TypeOK'
    BY <1>13 DEF ListenerCleanup
  <1>14. ASSUME NEW r \in Reqs, DeregisterOutstanding(r) PROVE TypeOK'
    BY <1>14 DEF DeregisterOutstanding
  <1>15. ASSUME NEW r \in Reqs, WgDone(r) PROVE TypeOK'
    BY <1>15 DEF WgDone
  <1>16. ASSUME NEW r \in Reqs, ReadReply(r) PROVE TypeOK'
    <2>1. Tail(out[r]) \in Seq(Replies) /\ cancelled' \subseteq Reqs
      BY <1>16 DEF ReadReply
    <2>2. caller' = caller \/ caller' = [caller EXCEPT ![r] = "answered"]
      BY <1>16 DEF ReadReply
    <2> QED
      BY <1>16, <2>1, <2>2 DEF ReadReply
  <1>17. ASSUME NEW r \in Reqs, ReadClosed(r) PROVE TypeOK'
    BY <1>17 DEF ReadClosed
  <1>18. ASSUME NEW r \in Reqs, GiveUp(r) PROVE TypeOK'
    BY <1>18 DEF GiveUp
  <1>19. ASSUME NEW r \in Reqs, Supersede(r) PROVE TypeOK'
    BY <1>19 DEF Supersede
  <1>20. ASSUME NEW r \in Reqs, DialReply(r) PROVE TypeOK'
    <2>1. Append(backlog[r], "terminal") \in Seq(Conns)
      BY DEF Conns, Replies
    <2> QED
      BY <1>20, <2>1 DEF DialReply
  <1>21. ASSUME NEW r \in Reqs, PluginReads(r) PROVE TypeOK'
    BY <1>21 DEF PluginReads
  <1>22. ASSUME NEW r \in Reqs, NEW k \in Conns, PluginReplies(r, k) PROVE TypeOK'
    BY <1>22 DEF PluginReplies
  <1>23. CASE Quit
    BY <1>23 DEF Quit
  <1>24. CASE SignalQuit
    BY <1>24 DEF SignalQuit, NobodyReads
  <1>25. CASE WaitReturns
    BY <1>25 DEF WaitReturns
  <1>26. CASE EmergencyReply
    BY <1>26 DEF EmergencyReply, Updating
  <1>27. CASE ExitAfterPanic
    BY <1>27 DEF ExitAfterPanic
  <1>28. CASE Die
    BY <1>28 DEF Die
  <1>29. CASE ProgramEnds
    BY <1>29 DEF ProgramEnds, NobodyReads
  <1>30. CASE UNCHANGED vars
    BY <1>30 DEF vars
  <1> QED
    BY <1>1, <1>2, <1>3, <1>4, <1>5, <1>6, <1>7, <1>8, <1>9, <1>10, <1>11,
       <1>12, <1>13, <1>14, <1>15, <1>16, <1>17, <1>18, <1>19, <1>20, <1>21,
       <1>22, <1>23, <1>24, <1>25, <1>26, <1>27, <1>28, <1>29, <1>30
    DEF Next, Calling, Accepting, Draining, Reading, Process

(* So is the rest of the invariant.                                        *)
LEMMA NextIInv == ASSUME IInv, [Next]_vars PROVE IInv'
  <1>0. TypeOK /\ TypeOK'
    BY NextTypeOK DEF IInv
  <1> USE <1>0 DEF IInv, DrainFollowsCall, ChannelFollowsDrain, SocketFollowsDrain,
      WaitGroupExact, OutstandingExact, FailureLeavesNothing, TypeOK, Live,
      channel, registry, fate, stopped
  <1>1. ASSUME NEW r \in Reqs, StartListener(r) PROVE IInv'
    <2>0. drain[r] = "off" /\ call'[r] = "listening"
      BY <1>1 DEF StartListener
    <2>1. DrainFollowsCall' /\ WaitGroupExact'
      BY <1>1, <2>0 DEF StartListener
    <2>2. ChannelFollowsDrain'
      BY <1>1 DEF StartListener
    <2>3. SocketFollowsDrain'
      BY <1>1, <2>0 DEF StartListener
    <2>4. FailureLeavesNothing'
      BY <1>1, <2>0 DEF StartListener
    <2>5. OutstandingExact'
      BY <1>1 DEF StartListener
    <2> QED
      BY <1>0, <2>1, <2>2, <2>3, <2>4, <2>5
  <1>2. ASSUME NEW r \in Reqs, AtomicWriteFile(r) PROVE IInv'
    BY <1>2 DEF AtomicWriteFile
  <1>3. ASSUME NEW r \in Reqs, WriteOSC(r) PROVE IInv'
    BY <1>3 DEF WriteOSC
  <1>4. ASSUME NEW r \in Reqs, ErrorReturn(r) PROVE IInv'
    <2>1. DrainFollowsCall' /\ WaitGroupExact'
      BY <1>4 DEF ErrorReturn
    <2>2. ChannelFollowsDrain'
      BY <1>4 DEF ErrorReturn, Replies
    <2>3. SocketFollowsDrain' /\ FailureLeavesNothing'
      BY <1>4 DEF ErrorReturn, Replies
    <2>4. OutstandingExact'
      BY <1>4 DEF ErrorReturn, Replies
    <2> QED
      BY <1>0, <2>1, <2>2, <2>3, <2>4
  <1>5. ASSUME NEW r \in Reqs, SpawnDrain(r) PROVE IInv'
    <2>1. DrainFollowsCall' /\ WaitGroupExact'
      BY SMTT(30), <1>5 DEF SpawnDrain
    <2>2. ChannelFollowsDrain'
      BY SMTT(30), <1>5 DEF SpawnDrain
    <2>3. SocketFollowsDrain' /\ FailureLeavesNothing'
      BY SMTT(30), <1>5 DEF SpawnDrain
    <2>4. OutstandingExact'
      BY SMTT(30), <1>5 DEF SpawnDrain
    <2> QED
      BY <1>0, <2>1, <2>2, <2>3, <2>4
  <1>6. ASSUME NEW r \in Reqs, Accept(r) PROVE IInv'
    BY SMTT(30), <1>6 DEF Accept
  <1>7. ASSUME NEW r \in Reqs, SendRaw(r) PROVE IInv'
    BY <1>7 DEF SendRaw
  <1>8. ASSUME NEW r \in Reqs, AcceptClosed(r) PROVE IInv'
    BY <1>8 DEF AcceptClosed
  <1>9. ASSUME NEW r \in Reqs, DrainReceive(r) PROVE IInv'
    <2>1. drain'[r] \in Live
      <3>1. Head(raw[r]) \in Conns \ {"empty"}
        BY <1>9 DEF DrainReceive
      <3> QED
        BY <1>9, <3>1 DEF DrainReceive, Parsed, Conns
    <2>2. DrainFollowsCall' /\ WaitGroupExact' /\ SocketFollowsDrain' /\ FailureLeavesNothing'
      BY <1>9, <2>1 DEF DrainReceive, Replies
    <2>3. ChannelFollowsDrain'
      BY <1>9, <2>1 DEF DrainReceive, Replies
    <2>4. OutstandingExact'
      BY SMTT(30), <1>9, <2>1 DEF DrainReceive, Replies
    <2> QED
      BY <1>0, <2>2, <2>3, <2>4
  <1>10. ASSUME NEW r \in Reqs, DrainForward(r) PROVE IInv'
    <2>1. drain[r] \in Replies /\ drain'[r] = AfterForward(drain[r])
      BY <1>10 DEF DrainForward
    <2>2. \/ drain'[r] = "closing"
          \/ drain'[r] = "receiving" /\ drain[r] \notin Terminal
      BY <2>1 DEF AfterForward
    <2>3. ASSUME drain'[r] = "receiving", NEW i \in DOMAIN stream'[r]
          PROVE  stream'[r][i] \notin Terminal
      <3>1. stream'[r] = Append(stream[r], drain[r]) /\ stream[r] \in Seq(Replies)
        BY <1>10 DEF DrainForward
      <3>2. \A j \in DOMAIN stream[r] : stream[r][j] \notin Terminal
        BY <2>1
      <3>3. drain[r] \notin Terminal
        BY <2>2, <2>3
      <3> QED
        BY <2>3, <3>1, <3>2, <3>3
    <2>4. ChannelFollowsDrain'
      BY <1>10, <2>1, <2>2, <2>3 DEF DrainForward, Replies
    <2>5. DrainFollowsCall' /\ WaitGroupExact' /\ SocketFollowsDrain' /\ FailureLeavesNothing'
      BY <1>10, <2>1, <2>2 DEF DrainForward, Replies
    <2>6. OutstandingExact'
      BY <1>10, <2>1, <2>2 DEF DrainForward, Replies
    <2> QED
      BY <1>0, <2>4, <2>5, <2>6
  <1>11. ASSUME NEW r \in Reqs, DrainCancelled(r) PROVE IInv'
    BY <1>11 DEF DrainCancelled, Replies
  <1>12. ASSUME NEW r \in Reqs, CloseOut(r) PROVE IInv'
    <2>1. DrainFollowsCall' /\ WaitGroupExact'
      BY <1>12 DEF CloseOut
    <2>2. ChannelFollowsDrain'
      BY <1>12 DEF CloseOut, Replies
    <2>3. SocketFollowsDrain' /\ FailureLeavesNothing'
      BY <1>12 DEF CloseOut, Replies
    <2>4. OutstandingExact'
      BY <1>12 DEF CloseOut, Replies
    <2> QED
      BY <1>0, <2>1, <2>2, <2>3, <2>4
  <1>13. ASSUME NEW r \in Reqs, ListenerCleanup(r) PROVE IInv'
    <2>1. DrainFollowsCall' /\ WaitGroupExact'
      BY <1>13 DEF ListenerCleanup
    <2>2. ChannelFollowsDrain'
      BY <1>13 DEF ListenerCleanup, Replies
    <2>3. SocketFollowsDrain' /\ FailureLeavesNothing'
      BY <1>13 DEF ListenerCleanup, Replies
    <2>4. OutstandingExact'
      BY <1>13 DEF ListenerCleanup, Replies
    <2> QED
      BY <1>0, <2>1, <2>2, <2>3, <2>4
  <1>14. ASSUME NEW r \in Reqs, DeregisterOutstanding(r) PROVE IInv'
    <2>1. DrainFollowsCall' /\ WaitGroupExact'
      BY SMTT(30), <1>14 DEF DeregisterOutstanding, Replies
    <2>2. ChannelFollowsDrain'
      BY SMTT(30), <1>14 DEF DeregisterOutstanding, Replies
    <2>3. SocketFollowsDrain' /\ FailureLeavesNothing'
      BY SMTT(30), <1>14 DEF DeregisterOutstanding, Replies
    <2>4. OutstandingExact'
      BY SMTT(30), <1>14 DEF DeregisterOutstanding, Replies
    <2> QED
      BY <1>0, <2>1, <2>2, <2>3, <2>4
  <1>15. ASSUME NEW r \in Reqs, WgDone(r) PROVE IInv'
    <2>1. DrainFollowsCall' /\ WaitGroupExact'
      BY SMTT(30), <1>15 DEF WgDone, Replies
    <2>2. ChannelFollowsDrain'
      BY SMTT(30), <1>15 DEF WgDone, Replies
    <2>3. SocketFollowsDrain' /\ FailureLeavesNothing'
      BY SMTT(30), <1>15 DEF WgDone, Replies
    <2>4. OutstandingExact'
      BY SMTT(30), <1>15 DEF WgDone, Replies
    <2> QED
      BY <1>0, <2>1, <2>2, <2>3, <2>4
  <1>16. ASSUME NEW r \in Reqs, ReadReply(r) PROVE IInv'
    BY <1>16 DEF ReadReply
  <1>17. ASSUME NEW r \in Reqs, ReadClosed(r) PROVE IInv'
    BY <1>17 DEF ReadClosed
  <1>18. ASSUME NEW r \in Reqs, GiveUp(r) PROVE IInv'
    BY <1>18 DEF GiveUp
  <1>19. ASSUME NEW r \in Reqs, Supersede(r) PROVE IInv'
    BY <1>19 DEF Supersede
  <1>20. ASSUME NEW r \in Reqs, DialReply(r) PROVE IInv'
    BY <1>20 DEF DialReply
  <1>21. ASSUME NEW r \in Reqs, PluginReads(r) PROVE IInv'
    BY <1>21 DEF PluginReads
  <1>22. ASSUME NEW r \in Reqs, NEW k \in Conns, PluginReplies(r, k) PROVE IInv'
    BY <1>22 DEF PluginReplies
  <1>23. CASE Quit
    BY <1>23 DEF Quit
  <1>24. CASE SignalQuit
    BY <1>24 DEF SignalQuit, NobodyReads
  <1>25. CASE WaitReturns
    BY <1>25 DEF WaitReturns
  <1>26. CASE EmergencyReply
    BY <1>26 DEF EmergencyReply, Updating
  <1>27. CASE ExitAfterPanic
    BY <1>27 DEF ExitAfterPanic
  <1>28. CASE Die
    BY <1>28 DEF Die
  <1>29. CASE ProgramEnds
    BY <1>29 DEF ProgramEnds, NobodyReads
  <1>30. CASE UNCHANGED vars
    BY <1>30 DEF vars
  <1> QED
    BY <1>1, <1>2, <1>3, <1>4, <1>5, <1>6, <1>7, <1>8, <1>9, <1>10, <1>11,
       <1>12, <1>13, <1>14, <1>15, <1>16, <1>17, <1>18, <1>19, <1>20, <1>21,
       <1>22, <1>23, <1>24, <1>25, <1>26, <1>27, <1>28, <1>29, <1>30
    DEF Next, Calling, Accepting, Draining, Reading, Process

THEOREM Invariance == Spec => []IInv
  BY InitIInv, NextIInv, PTL DEF Spec

-----------------------------------------------------------------------------
(* The dispatcher's variables keep their types.                            *)
THEOREM TypeCorrect == Spec => []TypeOK
  BY Invariance, PTL DEF IInv

(* EmergencyReply's map holds the dispatches it must answer and no others. *)
THEOREM RegistryExact == Spec => []OutstandingExact
  BY Invariance, PTL DEF IInv

(* A Dispatch that fails leaves nothing behind.                            *)
THEOREM FailureIsClean == Spec => []FailureLeavesNothing
  BY Invariance, PTL DEF IInv

(* A clean exit comes after the last drain, and its socket is unlinked.    *)
THEOREM CleanExit == Spec => []WaitCoversDrains
  <1>1. ASSUME IInv PROVE WaitCoversDrains
    <2>1. ASSUME proc = "quit", NEW r \in Reqs, call[r] = "returned"
          PROVE  drain[r] = "done" /\ sock[r] = "gone"
      BY <1>1, <2>1 DEF IInv, DrainFollowsCall, WaitGroupExact, SocketFollowsDrain
    <2> QED
      BY <2>1 DEF WaitCoversDrains
  <1> QED
    BY <1>1, Invariance, PTL

-----------------------------------------------------------------------------
LEMMA InitRefines == Init => Stream!Init
  BY DEF Init, Stream!Init

(* Only two of the drain's steps touch the caller's channel: one puts a    *)
(* reply on it, the other closes it.                                       *)
LEMMA NextRefines ==
  ASSUME IInv, [Next]_vars PROVE [Stream!Next]_(Stream!vars)
  <1>1. ASSUME NEW r \in Reqs, DrainForward(r) PROVE Stream!Next
    <2>1. ~closed[r] /\ drain[r] \in Replies
      BY <1>1 DEF DrainForward, IInv, ChannelFollowsDrain, Live
    <2>2. ~Stream!Ended(r)
      BY <1>1 DEF DrainForward, IInv, ChannelFollowsDrain, Live, Stream!Ended
    <2>3. stream' = [stream EXCEPT ![r] = Append(@, drain[r])] /\ closed' = closed
      BY <1>1 DEF DrainForward
    <2>4. Stream!Put(r, drain[r])
      BY <2>1, <2>2, <2>3 DEF Stream!Put
    <2> QED
      BY <2>1, <2>4 DEF Stream!Next
  <1>2. ASSUME NEW r \in Reqs, CloseOut(r) PROVE Stream!Next
    <2>1. ~closed[r] /\ closed' = [closed EXCEPT ![r] = TRUE] /\ stream' = stream
      BY <1>2 DEF CloseOut, IInv, ChannelFollowsDrain, Live
    <2> QED
      BY <2>1 DEF Stream!Next, Stream!Close
  <1>3. CASE UNCHANGED <<stream, closed>>
    BY <1>3 DEF Stream!vars
  <1>4. \/ \E r \in Reqs : DrainForward(r) \/ CloseOut(r)
        \/ UNCHANGED <<stream, closed>>
    <2>1. ASSUME NEW r \in Reqs, Calling(r) PROVE UNCHANGED <<stream, closed>>
      BY <2>1 DEF Calling, StartListener, AtomicWriteFile, WriteOSC, ErrorReturn,
          SpawnDrain, channel
    <2>2. ASSUME NEW r \in Reqs, Accepting(r) PROVE UNCHANGED <<stream, closed>>
      BY <2>2 DEF Accepting, Accept, SendRaw, AcceptClosed, channel
    <2>3. ASSUME NEW r \in Reqs, Draining(r), ~DrainForward(r), ~CloseOut(r)
          PROVE  UNCHANGED <<stream, closed>>
      BY <2>3 DEF Draining, DrainReceive, DrainCancelled, ListenerCleanup,
          DeregisterOutstanding, WgDone, channel
    <2>4. ASSUME NEW r \in Reqs, Reading(r) \/ GiveUp(r) \/ Supersede(r)
          PROVE  UNCHANGED <<stream, closed>>
      BY <2>4 DEF Reading, ReadReply, ReadClosed, GiveUp, Supersede, channel
    <2>5. ASSUME NEW r \in Reqs, NEW k \in Conns,
                 DialReply(r) \/ PluginReads(r) \/ PluginReplies(r, k)
          PROVE  UNCHANGED <<stream, closed>>
      BY <2>5 DEF DialReply, PluginReads, PluginReplies, channel
    <2>6. ASSUME Process PROVE UNCHANGED <<stream, closed>>
      BY <2>6 DEF Process, Quit, ProgramEnds, SignalQuit, WaitReturns, EmergencyReply,
          ExitAfterPanic, Die, channel
    <2>7. ASSUME UNCHANGED vars PROVE UNCHANGED <<stream, closed>>
      BY <2>7 DEF vars, channel
    <2>8. Conns # {}
      BY DEF Conns
    <2> QED
      BY <2>1, <2>2, <2>3, <2>4, <2>5, <2>6, <2>7, <2>8 DEF Next
  <1> QED
    BY <1>1, <1>2, <1>3, <1>4

(* Every caller's channel is a ReplyStream: one terminal reply at most,    *)
(* nothing after it, and nothing after the close.                          *)
THEOREM StreamRefinement == Spec => ImplementsReplyStream
  BY InitRefines, NextRefines, Invariance, PTL
  DEF Spec, ImplementsReplyStream, Stream!Spec
=============================================================================
