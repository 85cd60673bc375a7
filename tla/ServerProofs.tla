----------------------------- MODULE ServerProofs -----------------------------
(***************************************************************************)
(* Proofs about Server for any finite set of workers, any connections and  *)
(* addresses, any cap and any number of signals and panics.                *)
(*                                                                         *)
(* The argument has two halves.  Every step of the server uses the limiter *)
(* through its operations (LimiterStep), so what LimiterProofs shows of    *)
(* the limiter holds here.  PermitFollowsStream then ties each live permit *)
(* to the thread and the stream it belongs to, and the statements about    *)
(* connections follow from the statements about permits.  The last part    *)
(* shows that the server implements Service.                               *)
(***************************************************************************)
EXTENDS Server, FiniteSetTheorems, SequenceTheorems, TLAPS

LP == INSTANCE LimiterProofs WITH Slots <- Threads

LEMMA ThreadsFinite == IsFiniteSet(Threads)
BY WorkersAssumption, FS_AddElement DEF Threads

LEMMA LimiterAssumptions ==
    LP!SlotsAssumption /\ LP!NoIpAssumption /\ LP!CapAssumption
BY ThreadsFinite, IpsAssumption, LimitsAssumption
   DEF LP!SlotsAssumption, LP!NoIpAssumption, LP!CapAssumption,
       LP!IsFiniteSet, IsFiniteSet

\* The limiter of Server and the one of LimiterProofs are the same formulas.
LEMMA SameLimiter ==
    /\ Lim!Init => LP!Init
    /\ [Lim!Next]_limVars => [LP!Next]_(LP!vars)
    /\ Lim!Inv <=> LP!Inv
    /\ Lim!Inv' <=> LP!Inv'
<1>1. Lim!Init => LP!Init
  BY DEF Lim!Init, LP!Init
<1>2. [Lim!Next]_limVars => [LP!Next]_(LP!vars)
  BY DEF Lim!Next, LP!Next, LP!vars, limVars,
         Lim!Acquire, LP!Acquire, Lim!Refuse, LP!Refuse, Lim!Move, LP!Move,
         Lim!Drop, LP!Drop, Lim!Count, LP!Count, Lim!With, LP!With,
         Lim!Without, LP!Without
<1>3. Lim!Inv <=> LP!Inv
  BY DEF Lim!Inv, LP!Inv, Lim!TypeOK, LP!TypeOK, Lim!NoStaleEntry, LP!NoStaleEntry,
         Lim!CountsMatchPermits, LP!CountsMatchPermits, Lim!InUse, LP!InUse,
         Lim!Count, LP!Count, Lim!Cardinality, LP!Cardinality
<1>4. Lim!Inv' <=> LP!Inv'
  BY DEF Lim!Inv, LP!Inv, Lim!TypeOK, LP!TypeOK, Lim!NoStaleEntry, LP!NoStaleEntry,
         Lim!CountsMatchPermits, LP!CountsMatchPermits, Lim!InUse, LP!InUse,
         Lim!Count, LP!Count, Lim!Cardinality, LP!Cardinality
<1> QED BY <1>1, <1>2, <1>3, <1>4
-------------------------------------------------------------------------------
\* A queue that loses its i-th element is still a queue.
LEMMA AbortType ==
    ASSUME NEW S, NEW q \in Seq(S), NEW i \in 1 .. Len(q)
    PROVE  SubSeq(q, 1, i - 1) \o SubSeq(q, i + 1, Len(q)) \in Seq(S)
<1>1. Len(q) \in Nat /\ \A j \in 1 .. Len(q) : q[j] \in S
  BY LenProperties
<1>2. SubSeq(q, 1, i - 1) \in Seq(S)
  BY <1>1, SubSeqProperties
<1>3. SubSeq(q, i + 1, Len(q)) \in Seq(S)
  BY <1>1, SubSeqProperties
<1> QED BY <1>2, <1>3, ConcatProperties

LEMMA InitTypeOK == Init => LocalTypeOK
<1>1. <<>> \in Seq(Conns)
  BY EmptySeq
<1>2. 0 \in 0 .. MaxSignals
  BY LimitsAssumption
<1> QED BY <1>1, <1>2 DEF Init, LocalTypeOK

LEMMA TypeOKStep ==
    ASSUME LocalTypeOK, [Next]_vars
    PROVE  LocalTypeOK'
<1> USE DEF LocalTypeOK, mainVars, workerVars, limVars, sigVars
<1>1. ASSUME CheckFlag PROVE LocalTypeOK'
  BY <1>1 DEF CheckFlag, At
<1>2. ASSUME EnterPoll PROVE LocalTypeOK'
  BY <1>2 DEF EnterPoll, At
<1>3. ASSUME PollReturns PROVE LocalTypeOK'
  BY <1>3 DEF PollReturns, At, Ready
<1>4. ASSUME StrayInterrupt PROVE LocalTypeOK'
  BY <1>4 DEF StrayInterrupt, At
<1>5. ASSUME DrainPipe PROVE LocalTypeOK'
  BY <1>5 DEF DrainPipe, At
<1>6. ASSUME Accept PROVE LocalTypeOK'
  BY <1>6, HeadTailProperties DEF Accept
<1>7. ASSUME AcceptWouldBlock PROVE LocalTypeOK'
  BY <1>7 DEF AcceptWouldBlock, At
<1>8. ASSUME Fail PROVE LocalTypeOK'
  BY <1>8, EmptySeq DEF Fail, Leave, At
<1>9. ASSUME Refuse PROVE LocalTypeOK'
  BY <1>9 DEF Refuse, At
<1>10. ASSUME Grant PROVE LocalTypeOK'
  BY <1>10 DEF Grant, At
<1>11. ASSUME SetBlocking PROVE LocalTypeOK'
  BY <1>11 DEF SetBlocking, At
<1>12. ASSUME SetBlockingFails PROVE LocalTypeOK'
  BY <1>12, EmptySeq DEF SetBlockingFails, At
<1>13. ASSUME NEW w \in Workers, Handoff(w) PROVE LocalTypeOK'
  BY <1>13 DEF Handoff
<1>14. ASSUME Join PROVE LocalTypeOK'
  BY <1>14, EmptySeq DEF Join, At
<1>15. ASSUME Exit PROVE LocalTypeOK'
  BY <1>15 DEF Exit, At
<1>16. ASSUME NEW w \in Workers, BlockSignals(w) PROVE LocalTypeOK'
  BY <1>16 DEF BlockSignals, WorkerAt
<1>17. ASSUME NEW w \in Workers, TakeLock(w) PROVE LocalTypeOK'
  BY <1>17 DEF TakeLock, WorkerAt
<1>18. ASSUME NEW w \in Workers, RecvClosed(w) PROVE LocalTypeOK'
  BY <1>18 DEF RecvClosed, WorkerAt
<1>19. ASSUME NEW w \in Workers, Finish(w) PROVE LocalTypeOK'
  BY <1>19 DEF Finish, WorkerAt
<1>20. ASSUME NEW w \in Workers, Unwind(w) PROVE LocalTypeOK'
  BY <1>20 DEF Unwind, WorkerAt
<1>21. ASSUME NEW w \in Workers, DropPermit(w) PROVE LocalTypeOK'
  BY <1>21 DEF DropPermit, WorkerAt
<1>22. ASSUME NEW c \in Conns, Connect(c) PROVE LocalTypeOK'
  BY <1>22, AppendProperties DEF Connect
<1>23. ASSUME NEW i \in 1 .. Backlog, Abort(i) PROVE LocalTypeOK'
  BY <1>23, AbortType DEF Abort
<1>24. ASSUME SendSignal PROVE LocalTypeOK'
  BY <1>24, LimitsAssumption DEF SendSignal
<1>25. ASSUME NEW t \in Threads, Deliver(t) PROVE LocalTypeOK'
  BY <1>25 DEF Deliver
<1>26. ASSUME NEW t \in Threads, StoreFlag(t) PROVE LocalTypeOK'
  BY <1>26 DEF StoreFlag
<1>27. ASSUME NEW t \in Threads, WriteByte(t) PROVE LocalTypeOK'
  BY <1>27 DEF WriteByte
<1>28. CASE UNCHANGED vars
  BY <1>28 DEF vars
<1>29. ASSUME NEW w \in Workers, SpawnWorker(w) PROVE LocalTypeOK'
  BY <1>29 DEF SpawnWorker, At
<1>30. ASSUME SetNonblocking PROVE LocalTypeOK'
  BY <1>30 DEF SetNonblocking, At
<1>31. ASSUME AcceptFails PROVE LocalTypeOK'
  BY <1>31, EmptySeq DEF AcceptFails, Leave, At
<1> QED
  BY <1>1, <1>2, <1>3, <1>4, <1>5, <1>6, <1>7, <1>8, <1>9, <1>10, <1>11,
     <1>12, <1>13, <1>14, <1>15, <1>16, <1>17, <1>18, <1>19, <1>20,
     <1>21, <1>22, <1>23, <1>24, <1>25, <1>26, <1>27, <1>28, <1>29, <1>30, <1>31
  DEF Next, MainProgress, MainFault, WorkerProgress, Handler, Environment, Terminated
-------------------------------------------------------------------------------
LEMMA InitPermitFollowsStream == Init => PermitFollowsStream
BY ConnsAssumption DEF Init, PermitFollowsStream, Lim!Init, Threads

LEMMA PermitFollowsStreamStep ==
    ASSUME LocalTypeOK, PermitFollowsStream, permit \in [Threads -> Ips \cup {NoIp}],
           [Next]_vars
    PROVE  PermitFollowsStream'
<1> USE WorkersAssumption, ConnsAssumption, IpsAssumption
    DEF LocalTypeOK, PermitFollowsStream, Threads, mainVars, workerVars, limVars, sigVars
<1>1. ASSUME CheckFlag PROVE PermitFollowsStream'
  BY <1>1 DEF CheckFlag, At
<1>2. ASSUME EnterPoll PROVE PermitFollowsStream'
  BY <1>2 DEF EnterPoll, At
<1>3. ASSUME PollReturns PROVE PermitFollowsStream'
  BY <1>3 DEF PollReturns, At
<1>4. ASSUME StrayInterrupt PROVE PermitFollowsStream'
  BY <1>4 DEF StrayInterrupt, At
<1>5. ASSUME DrainPipe PROVE PermitFollowsStream'
  BY <1>5 DEF DrainPipe, At
<1>6. ASSUME Accept PROVE PermitFollowsStream'
  BY <1>6, HeadTailProperties DEF Accept, At
<1>7. ASSUME AcceptWouldBlock PROVE PermitFollowsStream'
  BY <1>7 DEF AcceptWouldBlock, At
<1>8. ASSUME Fail PROVE PermitFollowsStream'
  BY <1>8 DEF Fail, Leave, At
<1>9. ASSUME Refuse PROVE PermitFollowsStream'
  BY <1>9 DEF Refuse, At, Lim!Refuse
<1>10. ASSUME Grant PROVE PermitFollowsStream'
  BY <1>10 DEF Grant, At, Lim!Acquire
<1>11. ASSUME SetBlocking PROVE PermitFollowsStream'
  BY <1>11 DEF SetBlocking, At
<1>12. ASSUME SetBlockingFails PROVE PermitFollowsStream'
  BY <1>12 DEF SetBlockingFails, At, Lim!Drop
<1>13. ASSUME NEW w \in Workers, Handoff(w) PROVE PermitFollowsStream'
  BY <1>13 DEF Handoff, Lim!Move
<1>14. ASSUME Join PROVE PermitFollowsStream'
  BY <1>14 DEF Join, At
<1>15. ASSUME Exit PROVE PermitFollowsStream'
  BY <1>15 DEF Exit, At
<1>16. ASSUME NEW w \in Workers, BlockSignals(w) PROVE PermitFollowsStream'
  BY <1>16 DEF BlockSignals, WorkerAt
<1>17. ASSUME NEW w \in Workers, TakeLock(w) PROVE PermitFollowsStream'
  BY <1>17 DEF TakeLock, WorkerAt
<1>18. ASSUME NEW w \in Workers, RecvClosed(w) PROVE PermitFollowsStream'
  BY <1>18 DEF RecvClosed, WorkerAt
<1>19. ASSUME NEW w \in Workers, Finish(w) PROVE PermitFollowsStream'
  BY <1>19 DEF Finish, WorkerAt
<1>20. ASSUME NEW w \in Workers, Unwind(w) PROVE PermitFollowsStream'
  BY <1>20 DEF Unwind, WorkerAt
<1>21. ASSUME NEW w \in Workers, DropPermit(w) PROVE PermitFollowsStream'
  BY <1>21 DEF DropPermit, WorkerAt, Lim!Drop
<1>22. ASSUME NEW c \in Conns, Connect(c) PROVE PermitFollowsStream'
  BY <1>22 DEF Connect
<1>23. ASSUME NEW i \in 1 .. Backlog, Abort(i) PROVE PermitFollowsStream'
  BY <1>23 DEF Abort
<1>24. ASSUME SendSignal PROVE PermitFollowsStream'
  BY <1>24 DEF SendSignal
<1>25. ASSUME NEW t \in Threads, Deliver(t) PROVE PermitFollowsStream'
  BY <1>25 DEF Deliver
<1>26. ASSUME NEW t \in Threads, StoreFlag(t) PROVE PermitFollowsStream'
  BY <1>26 DEF StoreFlag
<1>27. ASSUME NEW t \in Threads, WriteByte(t) PROVE PermitFollowsStream'
  BY <1>27 DEF WriteByte
<1>28. CASE UNCHANGED vars
  BY <1>28 DEF vars
<1>29. ASSUME NEW w \in Workers, SpawnWorker(w) PROVE PermitFollowsStream'
  BY <1>29 DEF SpawnWorker, At
<1>30. ASSUME SetNonblocking PROVE PermitFollowsStream'
  BY <1>30 DEF SetNonblocking, At
<1>31. ASSUME AcceptFails PROVE PermitFollowsStream'
  BY <1>31 DEF AcceptFails, Leave, At
<1> QED
  BY <1>1, <1>2, <1>3, <1>4, <1>5, <1>6, <1>7, <1>8, <1>9, <1>10, <1>11,
     <1>12, <1>13, <1>14, <1>15, <1>16, <1>17, <1>18, <1>19, <1>20,
     <1>21, <1>22, <1>23, <1>24, <1>25, <1>26, <1>27, <1>28, <1>29, <1>30, <1>31
  DEF Next, MainProgress, MainFault, WorkerProgress, Handler, Environment, Terminated

-------------------------------------------------------------------------------
LEMMA InitChannelOutlivesLoop == Init => ChannelOutlivesLoop
BY DEF Init, ChannelOutlivesLoop

LEMMA ChannelOutlivesLoopStep ==
    ASSUME LocalTypeOK, ChannelOutlivesLoop, [Next]_vars
    PROVE  ChannelOutlivesLoop'
<1> USE DEF LocalTypeOK, ChannelOutlivesLoop, Ended, mainVars, workerVars, limVars, sigVars
<1>1. ASSUME CheckFlag PROVE ChannelOutlivesLoop'
  BY <1>1 DEF CheckFlag, At
<1>2. ASSUME EnterPoll PROVE ChannelOutlivesLoop'
  BY <1>2 DEF EnterPoll, At
<1>3. ASSUME PollReturns PROVE ChannelOutlivesLoop'
  BY <1>3 DEF PollReturns, At
<1>4. ASSUME StrayInterrupt PROVE ChannelOutlivesLoop'
  BY <1>4 DEF StrayInterrupt, At
<1>5. ASSUME DrainPipe PROVE ChannelOutlivesLoop'
  BY <1>5 DEF DrainPipe, At
<1>6. ASSUME Accept PROVE ChannelOutlivesLoop'
  BY <1>6 DEF Accept, At
<1>7. ASSUME AcceptWouldBlock PROVE ChannelOutlivesLoop'
  BY <1>7 DEF AcceptWouldBlock, At
<1>8. ASSUME Fail PROVE ChannelOutlivesLoop'
  BY <1>8 DEF Fail, Leave, At
<1>9. ASSUME Refuse PROVE ChannelOutlivesLoop'
  BY <1>9 DEF Refuse, At
<1>10. ASSUME Grant PROVE ChannelOutlivesLoop'
  BY <1>10 DEF Grant, At
<1>11. ASSUME SetBlocking PROVE ChannelOutlivesLoop'
  BY <1>11 DEF SetBlocking, At
<1>12. ASSUME SetBlockingFails PROVE ChannelOutlivesLoop'
  BY <1>12 DEF SetBlockingFails, At
<1>13. ASSUME NEW w \in Workers, Handoff(w) PROVE ChannelOutlivesLoop'
  BY <1>13 DEF Handoff
<1>14. ASSUME Join PROVE ChannelOutlivesLoop'
  BY <1>14 DEF Join, At
<1>15. ASSUME Exit PROVE ChannelOutlivesLoop'
  BY <1>15 DEF Exit, At
<1>16. ASSUME NEW w \in Workers, BlockSignals(w) PROVE ChannelOutlivesLoop'
  BY <1>16 DEF BlockSignals, WorkerAt
<1>17. ASSUME NEW w \in Workers, TakeLock(w) PROVE ChannelOutlivesLoop'
  BY <1>17 DEF TakeLock, WorkerAt
<1>18. ASSUME NEW w \in Workers, RecvClosed(w) PROVE ChannelOutlivesLoop'
  BY <1>18 DEF RecvClosed, WorkerAt
<1>19. ASSUME NEW w \in Workers, Finish(w) PROVE ChannelOutlivesLoop'
  BY <1>19 DEF Finish, WorkerAt
<1>20. ASSUME NEW w \in Workers, Unwind(w) PROVE ChannelOutlivesLoop'
  BY <1>20 DEF Unwind, WorkerAt
<1>21. ASSUME NEW w \in Workers, DropPermit(w) PROVE ChannelOutlivesLoop'
  BY <1>21 DEF DropPermit, WorkerAt
<1>22. ASSUME NEW c \in Conns, Connect(c) PROVE ChannelOutlivesLoop'
  BY <1>22 DEF Connect
<1>23. ASSUME NEW i \in 1 .. Backlog, Abort(i) PROVE ChannelOutlivesLoop'
  BY <1>23 DEF Abort
<1>24. ASSUME SendSignal PROVE ChannelOutlivesLoop'
  BY <1>24 DEF SendSignal
<1>25. ASSUME NEW t \in Threads, Deliver(t) PROVE ChannelOutlivesLoop'
  BY <1>25 DEF Deliver
<1>26. ASSUME NEW t \in Threads, StoreFlag(t) PROVE ChannelOutlivesLoop'
  BY <1>26 DEF StoreFlag
<1>27. ASSUME NEW t \in Threads, WriteByte(t) PROVE ChannelOutlivesLoop'
  BY <1>27 DEF WriteByte
<1>28. CASE UNCHANGED vars
  BY <1>28 DEF vars
<1>29. ASSUME NEW w \in Workers, SpawnWorker(w) PROVE ChannelOutlivesLoop'
  BY <1>29 DEF SpawnWorker, At
<1>30. ASSUME SetNonblocking PROVE ChannelOutlivesLoop'
  BY <1>30 DEF SetNonblocking, At
<1>31. ASSUME AcceptFails PROVE ChannelOutlivesLoop'
  BY <1>31 DEF AcceptFails, Leave, At
<1> QED
  BY <1>1, <1>2, <1>3, <1>4, <1>5, <1>6, <1>7, <1>8, <1>9, <1>10, <1>11,
     <1>12, <1>13, <1>14, <1>15, <1>16, <1>17, <1>18, <1>19, <1>20,
     <1>21, <1>22, <1>23, <1>24, <1>25, <1>26, <1>27, <1>28, <1>29, <1>30, <1>31
  DEF Next, MainProgress, MainFault, WorkerProgress, Handler, Environment, Terminated

-------------------------------------------------------------------------------
LEMMA InitLockedByReceiver == Init => LockedByReceiver
BY DEF Init, LockedByReceiver

LEMMA LockedByReceiverStep ==
    ASSUME LocalTypeOK, LockedByReceiver, [Next]_vars
    PROVE  LockedByReceiver'
<1> USE DEF LocalTypeOK, LockedByReceiver, mainVars, workerVars, limVars, sigVars
<1>1. ASSUME CheckFlag PROVE LockedByReceiver'
  BY <1>1 DEF CheckFlag, At
<1>2. ASSUME EnterPoll PROVE LockedByReceiver'
  BY <1>2 DEF EnterPoll, At
<1>3. ASSUME PollReturns PROVE LockedByReceiver'
  BY <1>3 DEF PollReturns, At
<1>4. ASSUME StrayInterrupt PROVE LockedByReceiver'
  BY <1>4 DEF StrayInterrupt, At
<1>5. ASSUME DrainPipe PROVE LockedByReceiver'
  BY <1>5 DEF DrainPipe, At
<1>6. ASSUME Accept PROVE LockedByReceiver'
  BY <1>6 DEF Accept, At
<1>7. ASSUME AcceptWouldBlock PROVE LockedByReceiver'
  BY <1>7 DEF AcceptWouldBlock, At
<1>8. ASSUME Fail PROVE LockedByReceiver'
  BY <1>8 DEF Fail, Leave, At
<1>9. ASSUME Refuse PROVE LockedByReceiver'
  BY <1>9 DEF Refuse, At
<1>10. ASSUME Grant PROVE LockedByReceiver'
  BY <1>10 DEF Grant, At
<1>11. ASSUME SetBlocking PROVE LockedByReceiver'
  BY <1>11 DEF SetBlocking, At
<1>12. ASSUME SetBlockingFails PROVE LockedByReceiver'
  BY <1>12 DEF SetBlockingFails, At
<1>13. ASSUME NEW w \in Workers, Handoff(w) PROVE LockedByReceiver'
  BY <1>13 DEF Handoff
<1>14. ASSUME Join PROVE LockedByReceiver'
  BY <1>14 DEF Join, At
<1>15. ASSUME Exit PROVE LockedByReceiver'
  BY <1>15 DEF Exit, At
<1>16. ASSUME NEW w \in Workers, BlockSignals(w) PROVE LockedByReceiver'
  BY <1>16 DEF BlockSignals, WorkerAt
<1>17. ASSUME NEW w \in Workers, TakeLock(w) PROVE LockedByReceiver'
  BY <1>17 DEF TakeLock, WorkerAt
<1>18. ASSUME NEW w \in Workers, RecvClosed(w) PROVE LockedByReceiver'
  BY <1>18 DEF RecvClosed, WorkerAt
<1>19. ASSUME NEW w \in Workers, Finish(w) PROVE LockedByReceiver'
  BY <1>19 DEF Finish, WorkerAt
<1>20. ASSUME NEW w \in Workers, Unwind(w) PROVE LockedByReceiver'
  BY <1>20 DEF Unwind, WorkerAt
<1>21. ASSUME NEW w \in Workers, DropPermit(w) PROVE LockedByReceiver'
  BY <1>21 DEF DropPermit, WorkerAt
<1>22. ASSUME NEW c \in Conns, Connect(c) PROVE LockedByReceiver'
  BY <1>22 DEF Connect
<1>23. ASSUME NEW i \in 1 .. Backlog, Abort(i) PROVE LockedByReceiver'
  BY <1>23 DEF Abort
<1>24. ASSUME SendSignal PROVE LockedByReceiver'
  BY <1>24 DEF SendSignal
<1>25. ASSUME NEW t \in Threads, Deliver(t) PROVE LockedByReceiver'
  BY <1>25 DEF Deliver
<1>26. ASSUME NEW t \in Threads, StoreFlag(t) PROVE LockedByReceiver'
  BY <1>26 DEF StoreFlag
<1>27. ASSUME NEW t \in Threads, WriteByte(t) PROVE LockedByReceiver'
  BY <1>27 DEF WriteByte
<1>28. CASE UNCHANGED vars
  BY <1>28 DEF vars
<1>29. ASSUME NEW w \in Workers, SpawnWorker(w) PROVE LockedByReceiver'
  BY <1>29 DEF SpawnWorker, At
<1>30. ASSUME SetNonblocking PROVE LockedByReceiver'
  BY <1>30 DEF SetNonblocking, At
<1>31. ASSUME AcceptFails PROVE LockedByReceiver'
  BY <1>31 DEF AcceptFails, Leave, At
<1> QED
  BY <1>1, <1>2, <1>3, <1>4, <1>5, <1>6, <1>7, <1>8, <1>9, <1>10, <1>11,
     <1>12, <1>13, <1>14, <1>15, <1>16, <1>17, <1>18, <1>19, <1>20,
     <1>21, <1>22, <1>23, <1>24, <1>25, <1>26, <1>27, <1>28, <1>29, <1>30, <1>31
  DEF Next, MainProgress, MainFault, WorkerProgress, Handler, Environment, Terminated

-------------------------------------------------------------------------------
LEMMA InitNoLostWakeup == Init => NoLostWakeup
BY DEF Init, NoLostWakeup

LEMMA NoLostWakeupStep ==
    ASSUME LocalTypeOK, NoLostWakeup, [Next]_vars
    PROVE  NoLostWakeup'
<1> USE DEF LocalTypeOK, NoLostWakeup, mainVars, workerVars, limVars, sigVars
<1>1. ASSUME CheckFlag PROVE NoLostWakeup'
  BY <1>1 DEF CheckFlag, At
<1>2. ASSUME EnterPoll PROVE NoLostWakeup'
  BY <1>2 DEF EnterPoll, At
<1>3. ASSUME PollReturns PROVE NoLostWakeup'
  BY <1>3 DEF PollReturns, At
<1>4. ASSUME StrayInterrupt PROVE NoLostWakeup'
  BY <1>4 DEF StrayInterrupt, At
<1>5. ASSUME DrainPipe PROVE NoLostWakeup'
  BY <1>5 DEF DrainPipe, At
<1>6. ASSUME Accept PROVE NoLostWakeup'
  BY <1>6 DEF Accept, At
<1>7. ASSUME AcceptWouldBlock PROVE NoLostWakeup'
  BY <1>7 DEF AcceptWouldBlock, At
<1>8. ASSUME Fail PROVE NoLostWakeup'
  BY <1>8 DEF Fail, Leave, At
<1>9. ASSUME Refuse PROVE NoLostWakeup'
  BY <1>9 DEF Refuse, At
<1>10. ASSUME Grant PROVE NoLostWakeup'
  BY <1>10 DEF Grant, At
<1>11. ASSUME SetBlocking PROVE NoLostWakeup'
  BY <1>11 DEF SetBlocking, At
<1>12. ASSUME SetBlockingFails PROVE NoLostWakeup'
  BY <1>12 DEF SetBlockingFails, At
<1>13. ASSUME NEW w \in Workers, Handoff(w) PROVE NoLostWakeup'
  BY <1>13 DEF Handoff
<1>14. ASSUME Join PROVE NoLostWakeup'
  BY <1>14 DEF Join, At
<1>15. ASSUME Exit PROVE NoLostWakeup'
  BY <1>15 DEF Exit, At
<1>16. ASSUME NEW w \in Workers, BlockSignals(w) PROVE NoLostWakeup'
  BY <1>16 DEF BlockSignals, WorkerAt
<1>17. ASSUME NEW w \in Workers, TakeLock(w) PROVE NoLostWakeup'
  BY <1>17 DEF TakeLock, WorkerAt
<1>18. ASSUME NEW w \in Workers, RecvClosed(w) PROVE NoLostWakeup'
  BY <1>18 DEF RecvClosed, WorkerAt
<1>19. ASSUME NEW w \in Workers, Finish(w) PROVE NoLostWakeup'
  BY <1>19 DEF Finish, WorkerAt
<1>20. ASSUME NEW w \in Workers, Unwind(w) PROVE NoLostWakeup'
  BY <1>20 DEF Unwind, WorkerAt
<1>21. ASSUME NEW w \in Workers, DropPermit(w) PROVE NoLostWakeup'
  BY <1>21 DEF DropPermit, WorkerAt
<1>22. ASSUME NEW c \in Conns, Connect(c) PROVE NoLostWakeup'
  BY <1>22 DEF Connect
<1>23. ASSUME NEW i \in 1 .. Backlog, Abort(i) PROVE NoLostWakeup'
  BY <1>23 DEF Abort
<1>24. ASSUME SendSignal PROVE NoLostWakeup'
  BY <1>24 DEF SendSignal
<1>25. ASSUME NEW t \in Threads, Deliver(t) PROVE NoLostWakeup'
  BY <1>25 DEF Deliver
<1>26. ASSUME NEW t \in Threads, StoreFlag(t) PROVE NoLostWakeup'
  BY <1>26 DEF StoreFlag
<1>27. ASSUME NEW t \in Threads, WriteByte(t) PROVE NoLostWakeup'
  BY <1>27 DEF WriteByte
<1>28. CASE UNCHANGED vars
  BY <1>28 DEF vars
<1>29. ASSUME NEW w \in Workers, SpawnWorker(w) PROVE NoLostWakeup'
  BY <1>29 DEF SpawnWorker, At
<1>30. ASSUME SetNonblocking PROVE NoLostWakeup'
  BY <1>30 DEF SetNonblocking, At
<1>31. ASSUME AcceptFails PROVE NoLostWakeup'
  BY <1>31 DEF AcceptFails, Leave, At
<1> QED
  BY <1>1, <1>2, <1>3, <1>4, <1>5, <1>6, <1>7, <1>8, <1>9, <1>10, <1>11,
     <1>12, <1>13, <1>14, <1>15, <1>16, <1>17, <1>18, <1>19, <1>20,
     <1>21, <1>22, <1>23, <1>24, <1>25, <1>26, <1>27, <1>28, <1>29, <1>30, <1>31
  DEF Next, MainProgress, MainFault, WorkerProgress, Handler, Environment, Terminated

-------------------------------------------------------------------------------
\* While the main thread asks for a permit it asks for a known address.
LEMMA HeldPeer ==
    ASSUME PermitFollowsStream, mpc = "acquire"
    PROVE  held \in Conns /\ Peer[held] \in Ips
BY ConnsAssumption DEF PermitFollowsStream

\* Every step of the server is a step of its limiter, or none.
LEMMA LimiterStep ==
    ASSUME LocalTypeOK, PermitFollowsStream, [Next]_vars
    PROVE  [Lim!Next]_limVars
<1> USE DEF mainVars, workerVars, limVars, sigVars
<1>1. ASSUME CheckFlag PROVE [Lim!Next]_limVars
  BY <1>1 DEF CheckFlag
<1>2. ASSUME EnterPoll PROVE [Lim!Next]_limVars
  BY <1>2 DEF EnterPoll
<1>3. ASSUME PollReturns PROVE [Lim!Next]_limVars
  BY <1>3 DEF PollReturns
<1>4. ASSUME StrayInterrupt PROVE [Lim!Next]_limVars
  BY <1>4 DEF StrayInterrupt
<1>5. ASSUME DrainPipe PROVE [Lim!Next]_limVars
  BY <1>5 DEF DrainPipe
<1>6. ASSUME Accept PROVE [Lim!Next]_limVars
  BY <1>6 DEF Accept
<1>7. ASSUME AcceptWouldBlock PROVE [Lim!Next]_limVars
  BY <1>7 DEF AcceptWouldBlock
<1>8. ASSUME Fail PROVE [Lim!Next]_limVars
  BY <1>8 DEF Fail, Leave
<1>9. ASSUME Refuse PROVE [Lim!Next]_limVars
  BY <1>9, HeldPeer DEF Refuse, At, Lim!Next
<1>10. ASSUME Grant PROVE [Lim!Next]_limVars
  BY <1>10, HeldPeer DEF Grant, At, Lim!Next, Threads
<1>11. ASSUME SetBlocking PROVE [Lim!Next]_limVars
  BY <1>11 DEF SetBlocking
<1>12. ASSUME SetBlockingFails PROVE [Lim!Next]_limVars
  BY <1>12 DEF SetBlockingFails, At, Lim!Next, Threads
<1>13. ASSUME NEW w \in Workers, Handoff(w) PROVE [Lim!Next]_limVars
  BY <1>13 DEF Handoff, Lim!Next, Threads
<1>14. ASSUME Join PROVE [Lim!Next]_limVars
  BY <1>14 DEF Join
<1>15. ASSUME Exit PROVE [Lim!Next]_limVars
  BY <1>15 DEF Exit
<1>16. ASSUME NEW w \in Workers, BlockSignals(w) PROVE [Lim!Next]_limVars
  BY <1>16 DEF BlockSignals
<1>17. ASSUME NEW w \in Workers, TakeLock(w) PROVE [Lim!Next]_limVars
  BY <1>17 DEF TakeLock
<1>18. ASSUME NEW w \in Workers, RecvClosed(w) PROVE [Lim!Next]_limVars
  BY <1>18 DEF RecvClosed
<1>19. ASSUME NEW w \in Workers, Finish(w) PROVE [Lim!Next]_limVars
  BY <1>19 DEF Finish
<1>20. ASSUME NEW w \in Workers, Unwind(w) PROVE [Lim!Next]_limVars
  BY <1>20 DEF Unwind
<1>21. ASSUME NEW w \in Workers, DropPermit(w) PROVE [Lim!Next]_limVars
  BY <1>21 DEF DropPermit, WorkerAt, Lim!Next, Threads
<1>22. ASSUME NEW c \in Conns, Connect(c) PROVE [Lim!Next]_limVars
  BY <1>22 DEF Connect
<1>23. ASSUME NEW i \in 1 .. Backlog, Abort(i) PROVE [Lim!Next]_limVars
  BY <1>23 DEF Abort
<1>24. ASSUME SendSignal PROVE [Lim!Next]_limVars
  BY <1>24 DEF SendSignal
<1>25. ASSUME NEW t \in Threads, Deliver(t) PROVE [Lim!Next]_limVars
  BY <1>25 DEF Deliver
<1>26. ASSUME NEW t \in Threads, StoreFlag(t) PROVE [Lim!Next]_limVars
  BY <1>26 DEF StoreFlag
<1>27. ASSUME NEW t \in Threads, WriteByte(t) PROVE [Lim!Next]_limVars
  BY <1>27 DEF WriteByte
<1>28. CASE UNCHANGED vars
  BY <1>28 DEF vars
<1>29. ASSUME NEW w \in Workers, SpawnWorker(w) PROVE [Lim!Next]_limVars
  BY <1>29 DEF SpawnWorker, At
<1>30. ASSUME SetNonblocking PROVE [Lim!Next]_limVars
  BY <1>30 DEF SetNonblocking, At
<1>31. ASSUME AcceptFails PROVE [Lim!Next]_limVars
  BY <1>31 DEF AcceptFails, Leave, At
<1> QED
  BY <1>1, <1>2, <1>3, <1>4, <1>5, <1>6, <1>7, <1>8, <1>9, <1>10, <1>11,
     <1>12, <1>13, <1>14, <1>15, <1>16, <1>17, <1>18, <1>19, <1>20,
     <1>21, <1>22, <1>23, <1>24, <1>25, <1>26, <1>27, <1>28, <1>29, <1>30, <1>31
  DEF Next, MainProgress, MainFault, WorkerProgress, Handler, Environment, Terminated
-------------------------------------------------------------------------------
\* The inductive invariant of the server.
IInv == /\ LocalTypeOK /\ PermitFollowsStream /\ Lim!Inv
        /\ ChannelOutlivesLoop /\ LockedByReceiver /\ NoLostWakeup

LEMMA InitIInv == Init => IInv
<1> SUFFICES ASSUME Init PROVE IInv
  OBVIOUS
<1>1. Lim!Inv
  BY LimiterAssumptions, LP!InitInv, SameLimiter DEF Init
<1> QED BY <1>1, InitTypeOK, InitPermitFollowsStream, InitChannelOutlivesLoop,
           InitLockedByReceiver, InitNoLostWakeup DEF IInv

LEMMA NextIInv == IInv /\ [Next]_vars => IInv'
<1> SUFFICES ASSUME IInv, [Next]_vars PROVE IInv'
  OBVIOUS
<1> USE DEF IInv
<1>1. permit \in [Threads -> Ips \cup {NoIp}]
  BY DEF Lim!Inv, Lim!TypeOK
<1>2. [Lim!Next]_limVars
  BY LimiterStep
<1>3. Lim!Inv'
  BY <1>2, LimiterAssumptions, LP!NextInv, SameLimiter
<1> QED BY <1>1, <1>3, TypeOKStep, PermitFollowsStreamStep, ChannelOutlivesLoopStep,
           LockedByReceiverStep, NoLostWakeupStep

(* The inductive invariant holds: the types, who owns which permit, the     *)
(* limiter's own invariant, the channel, the receiver's lock and the byte.  *)
THEOREM ServerIInv == Spec => []IInv
BY InitIInv, NextIInv, PTL DEF Spec
-------------------------------------------------------------------------------
(* Every variable of the server keeps its type, for any number of threads,  *)
(* connections, signals and panics.                                         *)
THEOREM ServerTypeOK == Spec => []TypeOK
<1>1. IInv => TypeOK
  BY DEF IInv, TypeOK, Lim!Inv
<1> QED BY ServerIInv, <1>1, PTL

(* A signal whose handler has run is never missed by a main thread on its   *)
(* way into poll or asleep in it: the byte waits in the pipe.               *)
THEOREM ServerNoLostWakeup == Spec => []NoLostWakeup
<1>1. IInv => NoLostWakeup
  BY DEF IInv
<1> QED BY ServerIInv, <1>1, PTL

(* The receiver's mutex is held exactly by the one worker inside recv, so   *)
(* no handled connection and no dead worker keeps the others from it.       *)
THEOREM ServerLockedByReceiver == Spec => []LockedByReceiver
<1>1. IInv => LockedByReceiver
  BY DEF IInv
<1> QED BY ServerIInv, <1>1, PTL

(* Permits live as long as the streams they were granted for, and until the *)
(* worker that owned the stream drops them.                                 *)
THEOREM ServerPermitFollowsStream == Spec => []PermitFollowsStream
<1>1. IInv => PermitFollowsStream
  BY DEF IInv
<1> QED BY ServerIInv, <1>1, PTL

\* The permits of an IP are finitely many and no more than the cap.
LEMMA InUseWithinCap ==
    ASSUME IInv, NEW ip \in Ips
    PROVE  /\ IsFiniteSet(Lim!InUse(ip))
           /\ Cardinality(Lim!InUse(ip)) = Lim!Count(ip)
           /\ Cardinality(Lim!InUse(ip)) <= Cap
<1>1. IsFiniteSet(Lim!InUse(ip))
  BY ThreadsFinite, FS_Subset DEF Lim!InUse
<1>2. Cardinality(Lim!InUse(ip)) = Lim!Count(ip)
  BY DEF IInv, Lim!Inv, Lim!CountsMatchPermits, Lim!Cardinality, Cardinality
<1>3. Lim!Count(ip) <= Cap
  BY LimitsAssumption DEF IInv, Lim!Inv, Lim!TypeOK, Lim!Count
<1> QED BY <1>1, <1>2, <1>3

(* No IP ever has more than Cap connections granted and not yet closed.     *)
THEOREM ServerInFlightWithinCap == Spec => []InFlightWithinCap
<1>1. ASSUME IInv, NEW ip \in Ips PROVE Cardinality(InFlight(ip)) <= Cap
  <2>1. InFlight(ip) \subseteq Lim!InUse(ip)
    BY <1>1, ConnsAssumption
       DEF IInv, LocalTypeOK, PermitFollowsStream, InFlight, Lim!InUse, Threads
  <2>2. /\ IsFiniteSet(Lim!InUse(ip))
        /\ Cardinality(Lim!InUse(ip)) <= Cap
    BY <1>1, InUseWithinCap
  <2>3. Cardinality(InFlight(ip)) <= Cardinality(Lim!InUse(ip))
    BY <2>1, <2>2, FS_Subset
  <2>4. /\ Cardinality(InFlight(ip)) \in Nat
        /\ Cardinality(Lim!InUse(ip)) \in Nat
    BY <2>1, <2>2, FS_Subset, FS_CardinalityType
  <2> QED BY <2>2, <2>3, <2>4, LimitsAssumption
<1>2. IInv => InFlightWithinCap
  BY <1>1 DEF InFlightWithinCap
<1> QED BY ServerIInv, <1>2, PTL

(* When serve returns Ok nothing it accepted is left: no worker runs, no    *)
(* stream is open, and the limiter's map is empty again.                    *)
THEOREM ServerDrainedOnReturn == Spec => []DrainedOnReturn
<1>1. ASSUME IInv, mpc = "returned" PROVE DrainedOnReturn
  <2>1. \A w \in Workers : Ended(w)
    BY <1>1 DEF IInv, ChannelOutlivesLoop
  <2>2. /\ held = NoConn
        /\ \A w \in Workers : serving[w] = NoConn
    BY <1>1, <2>1 DEF IInv, LocalTypeOK, PermitFollowsStream, Ended
  <2>3. \A t \in Threads : permit[t] = NoIp
    BY <1>1, <2>1 DEF IInv, PermitFollowsStream, Ended, Threads
  <2>4. DOMAIN counts = {}
    BY <1>1, <2>3, IpsAssumption
       DEF IInv, Lim!Inv, Lim!TypeOK, Lim!NoStaleEntry, Lim!InUse
  <2> QED BY <2>1, <2>2, <2>4 DEF DrainedOnReturn
<1>2. IInv => DrainedOnReturn
  BY <1>1 DEF DrainedOnReturn
<1> QED BY ServerIInv, <1>2, PTL

(* A connection is refused only while Cap workers are busy with its IP.     *)
THEOREM ServerRefusedOnlyAtCap == Spec => RefusedOnlyAtCap
<1>1. ASSUME IInv, [Next]_vars, mpc = "acquire", mpc' = "check"
      PROVE  Cardinality({w \in Workers : permit[w] = Peer[held]}) >= Cap
  <2>1. Refuse
    BY <1>1 DEF Next, MainProgress, MainFault, WorkerProgress, Handler, Environment,
       Terminated, vars, mainVars, At, WorkerAt, SpawnWorker, SetNonblocking, CheckFlag,
       EnterPoll, PollReturns, StrayInterrupt, DrainPipe, Accept, AcceptWouldBlock, Fail,
       AcceptFails, Leave, Grant, SetBlocking, SetBlockingFails, Handoff, Join, Exit,
       BlockSignals, TakeLock, RecvClosed, Finish, Unwind, DropPermit, Connect, Abort,
       SendSignal, Deliver, StoreFlag, WriteByte
  <2>2. Peer[held] \in Ips
    BY <1>1, HeldPeer DEF IInv
  <2>3. Lim!Count(Peer[held]) >= Cap
    BY <2>1 DEF Refuse, Lim!Refuse
  <2>4. Lim!InUse(Peer[held]) = {w \in Workers : permit[w] = Peer[held]}
    BY <1>1, <2>2, IpsAssumption DEF IInv, PermitFollowsStream, Lim!InUse, Threads
  <2> QED BY <1>1, <2>2, <2>3, <2>4, InUseWithinCap
<1>2. IInv /\ [Next]_vars =>
        [mpc = "acquire" /\ mpc' = "check"
           => Cardinality({w \in Workers : permit[w] = Peer[held]}) >= Cap]_vars
  BY <1>1
<1> QED BY ServerIInv, <1>2, PTL DEF Spec, RefusedOnlyAtCap

(* A cap of workers + 1 never refuses a connection, whatever the workers,   *)
(* so the top of the option's range switches the limiter off.               *)
THEOREM ServerNeverRefused == Spec => []NeverRefused
<1>1. ASSUME IInv, Cap > Cardinality(Workers), mpc = "acquire"
      PROVE  Lim!Count(Peer[held]) < Cap
  <2> DEFINE ip == Peer[held]
  <2>1. ip \in Ips
    BY <1>1, HeldPeer DEF IInv
  <2>2. Lim!InUse(ip) \subseteq Workers
    BY <1>1, <2>1, IpsAssumption DEF IInv, PermitFollowsStream, Lim!InUse, Threads
  <2>3. /\ Cardinality(Lim!InUse(ip)) <= Cardinality(Workers)
        /\ Cardinality(Lim!InUse(ip)) \in Nat
        /\ Cardinality(Workers) \in Nat
    BY <2>2, WorkersAssumption, FS_Subset, FS_CardinalityType
  <2>4. Lim!Count(ip) = Cardinality(Lim!InUse(ip))
    BY <1>1, <2>1, InUseWithinCap
  <2> QED BY <1>1, <2>3, <2>4, LimitsAssumption
<1>2. IInv => NeverRefused
  BY <1>1 DEF NeverRefused
<1> QED BY ServerIInv, <1>2, PTL

(* The server drives its limiter as a pool that hands out a permit of an IP *)
(* only while fewer than Cap are alive.                                     *)
THEOREM ServerPermitsPooled == Spec => PermitsPooled
<1>1. Init => Lim!Init
  BY DEF Init
<1>2. IInv /\ [Next]_vars => [Lim!Next]_limVars
  BY LimiterStep DEF IInv
<1>3. LP!Spec => LP!PoolSpec
  BY LimiterAssumptions, LP!LimiterImplementsPool
<1>4. LP!Pool!Init => Lim!Pool!Init
  BY DEF LP!Pool!Init, Lim!Pool!Init
<1>5. [LP!Pool!Next]_permit => [Lim!Pool!Next]_permit
  BY DEF LP!Pool!Next, Lim!Pool!Next, LP!Pool!Acquire, Lim!Pool!Acquire,
         LP!Pool!Move, Lim!Pool!Move, LP!Pool!Drop, Lim!Pool!Drop,
         LP!Pool!InUse, Lim!Pool!InUse, LP!Pool!Cardinality, Lim!Pool!Cardinality
<1> QED
  BY ServerIInv, SameLimiter, <1>1, <1>2, <1>3, <1>4, <1>5, PTL
  DEF Spec, PermitsPooled, LP!Spec, LP!PoolSpec, LP!Pool!Spec,
      Lim!PoolSpec, Lim!Pool!Spec
-------------------------------------------------------------------------------
(* For the service a step is quiet if no connection, no request to stop and *)
(* no phase of the loop is concerned.                                       *)
Looping == {"spawn", "check", "enter", "polling", "woken"}
Quiet ==
    /\ UNCHANGED <<backlog, held, serving, flag>>
    /\ \/ mpc' = mpc
       \/ mpc \in Looping /\ mpc' \in Looping
       \/ mpc = "granted" /\ mpc' = "send"

\* What concerns it.
Notable ==
    \/ Accept \/ Refuse \/ Grant \/ SetBlockingFails \/ Fail \/ AcceptFails
    \/ Join \/ Exit
    \/ CheckFlag /\ flag
    \/ \E w \in Workers : Handoff(w) \/ Finish(w) \/ Unwind(w)
    \/ \E c \in Conns : Connect(c)
    \/ \E i \in 1 .. Backlog : Abort(i)
    \/ \E t \in Threads : StoreFlag(t)

LEMMA QuietOrNotable ==
    ASSUME [Next]_vars
    PROVE  Quiet \/ Notable
<1> USE DEF Looping, At, mainVars, workerVars, limVars, sigVars
<1>1. ASSUME NEW w \in Workers, SpawnWorker(w) PROVE Quiet
  BY <1>1 DEF SpawnWorker, Quiet
<1>2. ASSUME SetNonblocking PROVE Quiet
  BY <1>2 DEF SetNonblocking, Quiet
<1>3. ASSUME CheckFlag, ~flag PROVE Quiet
  BY <1>3 DEF CheckFlag, Quiet
<1>4. ASSUME EnterPoll PROVE Quiet
  BY <1>4 DEF EnterPoll, Quiet
<1>5. ASSUME PollReturns \/ StrayInterrupt PROVE Quiet
  BY <1>5 DEF PollReturns, StrayInterrupt, Quiet
<1>6. ASSUME DrainPipe \/ AcceptWouldBlock PROVE Quiet
  BY <1>6 DEF DrainPipe, AcceptWouldBlock, Quiet
<1>7. ASSUME SetBlocking PROVE Quiet
  BY <1>7 DEF SetBlocking, Quiet
<1>8. ASSUME NEW w \in Workers, WorkerProgress(w) PROVE Quiet
  BY <1>8 DEF WorkerProgress, BlockSignals, TakeLock, RecvClosed, DropPermit, Quiet
<1>9. ASSUME SendSignal PROVE Quiet
  BY <1>9 DEF SendSignal, Quiet
<1>10. ASSUME NEW t \in Threads, Deliver(t) PROVE Quiet
  BY <1>10 DEF Deliver, Quiet
<1>11. ASSUME NEW t \in Threads, WriteByte(t) PROVE Quiet
  BY <1>11 DEF WriteByte, Quiet
<1>12. CASE UNCHANGED vars
  BY <1>12 DEF vars, Quiet
<1> QED
  BY <1>1, <1>2, <1>3, <1>4, <1>5, <1>6, <1>7, <1>8, <1>9, <1>10, <1>11, <1>12
  DEF Next, MainProgress, MainFault, Handler, Environment, Terminated, Notable
-------------------------------------------------------------------------------
(* A connection is in one place: once in the queue, or with one thread.     *)
OneOwner ==
    /\ \A i, j \in 1 .. Len(backlog) : backlog[i] = backlog[j] => i = j
    /\ held \in Conns => ~InBacklog(held) /\ \A w \in Workers : serving[w] # held
    /\ \A w \in Workers : serving[w] \in Conns => ~InBacklog(serving[w])
    /\ \A v, w \in Workers : serving[v] \in Conns /\ serving[v] = serving[w] => v = w

\* The i-th element of a queue leaves, and the others keep their order.
LEMMA WithoutIth ==
    ASSUME NEW S, NEW q \in Seq(S), NEW i \in 1 .. Len(q)
    PROVE  LET r == SubSeq(q, 1, i - 1) \o SubSeq(q, i + 1, Len(q))
           IN  /\ Len(r) = Len(q) - 1
               /\ \A k \in 1 .. Len(r) : r[k] = IF k < i THEN q[k] ELSE q[k + 1]
<1> DEFINE front == SubSeq(q, 1, i - 1)
           back  == SubSeq(q, i + 1, Len(q))
<1>0. Len(q) \in Nat /\ \A j \in 1 .. Len(q) : q[j] \in S
  BY LenProperties
<1>1. /\ front \in Seq(S) /\ Len(front) = i - 1
      /\ \A k \in 1 .. i - 1 : front[k] = q[k]
  BY <1>0, SubSeqProperties
<1>2. /\ back \in Seq(S) /\ Len(back) = Len(q) - i
      /\ \A k \in 1 .. Len(q) - i : back[k] = q[i + k]
  BY <1>0, SubSeqProperties
<1> HIDE DEF front, back
<1>3. /\ Len(front \o back) = Len(front) + Len(back)
      /\ \A k \in 1 .. Len(front) + Len(back) :
            (front \o back)[k] = IF k <= Len(front) THEN front[k] ELSE back[k - Len(front)]
  BY <1>1, <1>2, ConcatProperties
<1>4. Len(front \o back) = Len(q) - 1
  BY <1>0, <1>1, <1>2, <1>3
<1>5. ASSUME NEW k \in 1 .. Len(q) - 1
      PROVE  (front \o back)[k] = IF k < i THEN q[k] ELSE q[k + 1]
  <2>0. k \in 1 .. Len(front) + Len(back) /\ Len(front) = i - 1 /\ Len(back) = Len(q) - i
        /\ i \in 1 .. Len(q) /\ Len(q) \in Nat /\ k \in 1 .. Len(q) - 1
    BY <1>0, <1>1, <1>2, <1>5
  <2>1. CASE k < i
    <3>1. k <= Len(front) /\ k \in 1 .. i - 1
      BY <2>0, <2>1
    <3> QED
      BY <1>1, <1>3, <2>0, <2>1, <3>1
  <2>2. CASE ~(k < i)
    <3>1. ~(k <= Len(front)) /\ k - Len(front) \in 1 .. Len(q) - i
          /\ i + (k - Len(front)) = k + 1
      BY <2>0, <2>2
    <3>2. (front \o back)[k] = back[k - Len(front)]
      BY <1>3, <2>0, <3>1
    <3> QED
      BY <1>2, <2>2, <3>1, <3>2
  <2> QED
    BY <2>1, <2>2
<1> QED
  BY <1>4, <1>5 DEF front, back

LEMMA InitOneOwner == Init => OneOwner
BY ConnsAssumption, EmptySeq DEF Init, OneOwner

LEMMA OneOwnerStep ==
    ASSUME LocalTypeOK, OneOwner, [Next]_vars
    PROVE  OneOwner'
<1> USE ConnsAssumption DEF mainVars, workerVars, limVars, sigVars
<1>0. /\ backlog \in Seq(Conns) /\ Len(backlog) \in Nat
      /\ \A j \in 1 .. Len(backlog) : backlog[j] \in Conns
      /\ serving \in [Workers -> Conns \cup {NoConn}]
  BY LenProperties DEF LocalTypeOK
<1>1. ASSUME UNCHANGED <<backlog, held, serving>> PROVE OneOwner'
  BY <1>1 DEF OneOwner, InBacklog
<1>2. CASE Accept
  <2>1. /\ backlog # <<>> /\ held' = Head(backlog) /\ backlog' = Tail(backlog)
        /\ UNCHANGED serving
    BY <1>2 DEF Accept
  <2>2. /\ Len(backlog) > 0 /\ held' = backlog[1] /\ Len(backlog') = Len(backlog) - 1
        /\ \A k \in 1 .. Len(backlog') : backlog'[k] = backlog[k + 1]
    BY <1>0, <2>1, HeadTailProperties
  <2> QED
    BY <1>0, <2>1, <2>2 DEF OneOwner, InBacklog
<1>3. ASSUME held' \in {held, NoConn}, backlog' \in {backlog, <<>>},
             \A w \in Workers : serving'[w] \in {serving[w], NoConn}
      PROVE  OneOwner'
  BY <1>0, <1>3, EmptySeq DEF OneOwner, InBacklog
<1>4. CASE Refuse \/ Grant \/ SetBlockingFails \/ Fail \/ AcceptFails \/ CheckFlag \/ Join \/ Exit
  BY <1>3, <1>4 DEF Refuse, Grant, SetBlockingFails, Fail, AcceptFails, Leave, CheckFlag, Join, Exit
<1>5. ASSUME NEW w \in Workers, Finish(w) \/ Unwind(w) PROVE OneOwner'
  BY <1>0, <1>3, <1>5 DEF Finish, Unwind
<1>6. ASSUME NEW w \in Workers, Handoff(w) PROVE OneOwner'
  <2>1. /\ serving' = [serving EXCEPT ![w] = held] /\ held' = NoConn
        /\ UNCHANGED backlog
    BY <1>6 DEF Handoff
  <2> QED
    BY <1>0, <2>1 DEF OneOwner, InBacklog
<1>7. ASSUME NEW c \in Conns, Connect(c) PROVE OneOwner'
  <2>1. /\ ~InBacklog(c) /\ held # c /\ \A w \in Workers : serving[w] # c
        /\ backlog' = Append(backlog, c)
        /\ UNCHANGED <<held, serving>>
    BY <1>7 DEF Connect
  <2>2. /\ Len(backlog') = Len(backlog) + 1 /\ backlog'[Len(backlog) + 1] = c
        /\ \A k \in 1 .. Len(backlog) : backlog'[k] = backlog[k]
    BY <1>0, <2>1, AppendProperties
  <2> QED
    BY <1>0, <2>1, <2>2 DEF OneOwner, InBacklog
<1>8. ASSUME NEW i \in 1 .. Backlog, Abort(i) PROVE OneOwner'
  <2>1. /\ i \in 1 .. Len(backlog)
        /\ backlog' = SubSeq(backlog, 1, i - 1) \o SubSeq(backlog, i + 1, Len(backlog))
        /\ UNCHANGED <<held, serving>>
    BY <1>8 DEF Abort
  <2>2. /\ Len(backlog') = Len(backlog) - 1
        /\ \A k \in 1 .. Len(backlog') : backlog'[k] = IF k < i THEN backlog[k] ELSE backlog[k + 1]
    BY <1>0, <2>1, WithoutIth
  <2> DEFINE before(k) == IF k < i THEN k ELSE k + 1
  <2>3. \A k \in 1 .. Len(backlog') : /\ before(k) \in 1 .. Len(backlog)
                                      /\ backlog'[k] = backlog[before(k)]
    <3> TAKE k \in 1 .. Len(backlog')
    <3>1. k \in 1 .. Len(backlog) - 1 /\ i \in 1 .. Len(backlog)
      BY <2>1, <2>2
    <3>2. before(k) \in 1 .. Len(backlog)
      BY <1>0, <3>1
    <3>3. backlog'[k] = backlog[before(k)]
      BY <2>2
    <3> QED
      BY <3>2, <3>3
  <2>4. \A k, l \in 1 .. Len(backlog') : before(k) = before(l) => k = l
    BY <1>0, <2>1, <2>2
  <2> HIDE DEF before
  <2>5. \A k, l \in 1 .. Len(backlog') : backlog'[k] = backlog'[l] => k = l
    BY <2>3, <2>4 DEF OneOwner
  <2>6. \A c : InBacklog(c)' => InBacklog(c)
    BY <2>3 DEF InBacklog
  <2> QED
    BY <2>1, <2>5, <2>6 DEF OneOwner
<1>9. ASSUME NEW t \in Threads, StoreFlag(t) PROVE OneOwner'
  BY <1>1, <1>9 DEF StoreFlag
<1> QED
  BY <1>1, <1>2, <1>4, <1>5, <1>6, <1>7, <1>8, <1>9, QuietOrNotable DEF Quiet, Notable
-------------------------------------------------------------------------------
LEMMA SameCardinality == \A S : Svc!Cardinality(S) = Cardinality(S)
BY DEF Svc!Cardinality, Cardinality

\* What is left alone of the service by a step that leaves it alone.
LEMMA QuietService ==
    ASSUME LocalTypeOK, Quiet
    PROVE  UNCHANGED <<backlog, Taken, Open, Phase, flag>>
<1>1. Taken' = Taken
  BY DEF Quiet, Looping, Taken
<1>2. Open' = Open
  BY DEF Quiet, Looping, Open
<1>3. Phase' = Phase
  BY DEF Quiet, Looping, Phase
<1> QED
  BY <1>1, <1>2, <1>3 DEF Quiet

\* When a permit is asked for, the open connections are with workers.
LEMMA AdmissionGuard ==
    ASSUME IInv, mpc = "acquire", Lim!Count(Peer[held]) < Cap
    PROVE  /\ Cardinality({d \in Open : Peer[d] = Peer[held]}) < Cap
           /\ Cardinality(Open) <= Cardinality(Workers)
<1> DEFINE ip    == Peer[held]
           Busy  == {w \in Workers : serving[w] \in Conns}
           BusyFor == {w \in Busy : Peer[serving[w]] = ip}
           Of(W) == {serving[w] : w \in W}
<1>0. ip \in Ips /\ held \in Conns
  BY HeldPeer DEF IInv
<1>1. Open = Of(Busy) /\ {d \in Open : Peer[d] = ip} = Of(BusyFor)
  BY DEF Open
<1>2. IsFiniteSet(Workers) /\ Busy \subseteq Workers /\ BusyFor \subseteq Workers
  BY WorkersAssumption
<1>3. ASSUME NEW W \in SUBSET Workers
      PROVE  /\ IsFiniteSet(W) /\ Cardinality(W) \in Nat
             /\ Cardinality(Of(W)) \in Nat /\ Cardinality(Of(W)) <= Cardinality(W)
  <2>1. IsFiniteSet(W) /\ Cardinality(W) \in Nat
    BY <1>2, FS_Subset, FS_CardinalityType
  <2>2. /\ IsFiniteSet(Of(W)) /\ Cardinality(Of(W)) <= Cardinality(W)
    <3> DEFINE f == [w \in W |-> serving[w]]
    <3>1. f \in Surjection(W, Of(W))
      BY DEF Surjection
    <3> HIDE DEF f
    <3> QED
      BY <2>1, <3>1, FS_Surjection
  <2> QED
    BY <2>1, <2>2, FS_CardinalityType
<1>4. Cardinality(Busy) <= Cardinality(Workers) /\ Cardinality(Workers) \in Nat
  BY <1>2, FS_Subset, FS_CardinalityType
<1>5. Cardinality(BusyFor) <= Lim!Count(ip) /\ Lim!Count(ip) \in Nat
  <2>1. BusyFor \subseteq Lim!InUse(ip)
    BY DEF IInv, PermitFollowsStream, Lim!InUse, Threads
  <2> QED
    BY <1>0, <2>1, InUseWithinCap, FS_Subset, FS_CardinalityType
<1> HIDE DEF Busy, BusyFor, Of
<1> QED
  BY <1>0, <1>1, <1>2, <1>3, <1>4, <1>5, LimitsAssumption

\* Every step of the server is a step of the service, or none.
LEMMA ServiceStep ==
    ASSUME IInv, OneOwner, [Next]_vars
    PROVE  [Svc!Next]_<<backlog, Taken, Open, Phase, flag>>
<1> USE ConnsAssumption DEF IInv, LocalTypeOK, mainVars, workerVars, limVars, sigVars, At
<1>1. CASE Quiet
  BY <1>1, QuietService
<1>2. CASE Accept
  <2>1. Taken = {} /\ Taken' = {Head(backlog)} /\ Phase = "up" /\ Phase' = "up"
    BY <1>2 DEF Accept, Taken, Phase
  <2>2. Open' = Open
    BY <1>2 DEF Accept, Open
  <2> QED
    BY <1>2, <2>1, <2>2 DEF Accept, Svc!Take, Svc!Next
<1>3. CASE Refuse
  <2>1. held \in Conns /\ Taken = {held} /\ Taken' = {} /\ Phase' = Phase
    BY <1>3, HeldPeer DEF Refuse, Taken, Phase
  <2>2. Open' = Open
    BY <1>3 DEF Refuse, Open
  <2> QED
    BY <1>3, <2>1, <2>2 DEF Refuse, Svc!Refuse, Svc!Next
<1>4. CASE Grant
  <2>1. held \in Conns /\ Taken = {held} /\ Taken' = {} /\ Phase' = Phase
    BY <1>4, HeldPeer DEF Grant, Taken, Phase
  <2>2. Open' = Open \cup {held}
    BY <1>4, <2>1 DEF Grant, Open
  <2>3. /\ Cardinality({d \in Open : Peer[d] = Peer[held]}) < Cap
        /\ Cardinality(Open) <= Cardinality(Workers)
    BY <1>4, AdmissionGuard DEF Grant, Lim!Acquire
  <2>4. UNCHANGED <<backlog, flag>>
    BY <1>4 DEF Grant
  <2> QED
    BY <2>1, <2>2, <2>3, <2>4, SameCardinality DEF Svc!Admit, Svc!Next
<1>5. CASE SetBlockingFails
  <2>1. /\ held \in Conns /\ Taken = {} /\ Taken' = {}
        /\ Phase = "up" /\ Phase' = "failed"
    BY <1>5 DEF SetBlockingFails, PermitFollowsStream, Taken, Phase
  <2>2. held \in Open /\ Open' = Open \ {held}
    BY <1>5, <2>1 DEF SetBlockingFails, Open, OneOwner
  <2> QED
    BY <1>5, <2>1, <2>2 DEF SetBlockingFails, Svc!Fail, Svc!Next
<1>6. CASE Fail \/ AcceptFails
  <2>1. mpc \in Looping /\ mpc' = "failed" /\ backlog' = <<>> /\ UNCHANGED <<held, serving, flag>>
    BY <1>6 DEF Fail, AcceptFails, Leave, Looping
  <2>2. Taken = {} /\ Taken' = {} /\ Phase = "up" /\ Phase' = "failed"
    BY <2>1 DEF Looping, Taken, Phase
  <2>3. Open' = Open
    BY <2>1 DEF Looping, Open
  <2> QED
    BY <2>1, <2>2, <2>3 DEF Svc!Fail, Svc!Next
<1>7. CASE CheckFlag /\ flag
  <2>1. Taken = {} /\ Taken' = {} /\ Phase = "up" /\ Phase' = "stopping"
    BY <1>7 DEF CheckFlag, Taken, Phase
  <2>2. Open' = Open
    BY <1>7 DEF CheckFlag, Open
  <2> QED
    BY <1>7, <2>1, <2>2 DEF CheckFlag, Svc!Stop, Svc!Next
<1>8. CASE Join
  <2>1. Taken' = Taken /\ Phase = "stopping" /\ Phase' = "down"
    BY <1>8 DEF Join, Taken, Phase
  <2>2. Open = {} /\ Open' = {}
    BY <1>8 DEF Join, Open, PermitFollowsStream, Ended
  <2> QED
    BY <1>8, <2>1, <2>2 DEF Join, Svc!ComeDown, Svc!Next
<1>9. CASE Exit
  <2>1. Taken' = Taken /\ Phase \in {"down", "failed"} /\ Phase' = "ended" /\ Open' = {}
    BY <1>9 DEF Exit, Taken, Phase, Open
  <2> QED
    BY <1>9, <2>1 DEF Exit, Svc!End, Svc!Next
<1>10. ASSUME NEW w \in Workers, Handoff(w)
       PROVE  UNCHANGED <<backlog, Taken, Open, Phase, flag>>
  <2>1. /\ held \in Conns /\ serving[w] \notin Conns
        /\ mpc = "send" /\ mpc' = "check" /\ held' = NoConn
        /\ serving' = [serving EXCEPT ![w] = held]
        /\ UNCHANGED <<backlog, flag>>
    BY <1>10 DEF Handoff, PermitFollowsStream
  <2>2. Taken' = Taken /\ Phase' = Phase
    BY <2>1 DEF Taken, Phase
  <2>3. Open' = Open
    BY <2>1 DEF Open
  <2> QED
    BY <2>1, <2>2, <2>3
<1>11. ASSUME NEW w \in Workers, Finish(w) \/ Unwind(w) PROVE Svc!Next
  <2>1. /\ mpc # "exited" /\ serving[w] \in Conns
        /\ serving' = [serving EXCEPT ![w] = NoConn]
        /\ UNCHANGED <<mpc, held, backlog, flag>>
    BY <1>11 DEF Finish, Unwind, WorkerAt, PermitFollowsStream
  <2>2. Taken' = Taken /\ Phase' = Phase
    BY <2>1 DEF Taken, Phase
  <2>3. serving[w] \in Open /\ Open' = Open \ {serving[w]}
    BY <2>1 DEF Open, OneOwner
  <2> QED
    BY <2>1, <2>2, <2>3 DEF Svc!Close, Svc!Next
<1>12. ASSUME NEW c \in Conns, Connect(c) PROVE Svc!Next
  <2>1. /\ Listening /\ Len(backlog) < Backlog
        /\ ~InBacklog(c) /\ held # c /\ \A w \in Workers : serving[w] # c
        /\ backlog' = Append(backlog, c)
        /\ UNCHANGED <<mpc, held, serving, flag>>
    BY <1>12 DEF Connect
  <2>2. UNCHANGED <<Taken, Open, Phase>>
    BY <2>1 DEF Taken, Open, Phase
  <2>3. c \notin Taken \cup Open /\ Phase \in {"up", "stopping"}
    BY <2>1 DEF Taken, Open, Phase, Listening
  <2>4. \A i \in DOMAIN backlog : backlog[i] # c
    BY <2>1, LenProperties DEF InBacklog
  <2> QED
    BY <2>1, <2>2, <2>3, <2>4 DEF Svc!Arrive, Svc!Next
<1>13. ASSUME NEW i \in 1 .. Backlog, Abort(i) PROVE Svc!Next
  <2>1. UNCHANGED <<Taken, Open, Phase>>
    BY <1>13 DEF Abort, Taken, Open, Phase
  <2>2. i \in DOMAIN backlog
    BY <1>13, LenProperties DEF Abort
  <2> QED
    BY <1>13, <2>1, <2>2 DEF Abort, Svc!Vanish, Svc!Next
<1>14. ASSUME NEW t \in Threads, StoreFlag(t) PROVE Svc!Next
  <2>1. UNCHANGED <<Taken, Open, Phase>>
    BY <1>14 DEF StoreFlag, Taken, Open, Phase
  <2> QED
    BY <1>14, <2>1 DEF StoreFlag, Svc!Ask, Svc!Next
<1> QED
  BY <1>1, <1>2, <1>3, <1>4, <1>5, <1>6, <1>7, <1>8, <1>9, <1>10, <1>11, <1>12, <1>13, <1>14,
     QuietOrNotable DEF Notable

\* The server starts as the service does.
LEMMA ServiceStarts == Init => Svc!Init
<1> SUFFICES ASSUME Init PROVE Svc!Init
  OBVIOUS
<1>1. Taken = {} /\ Phase = "up"
  BY DEF Init, Taken, Phase
<1>2. Open = {}
  BY ConnsAssumption DEF Init, Open
<1> QED
  BY <1>1, <1>2 DEF Init, Svc!Init

(* The server, with all its threads, implements the service.                *)
THEOREM ServerKeepsService == Spec => ServiceKept
<1>1. Init => OneOwner /\ Svc!Init
  BY InitOneOwner, ServiceStarts
<1>2. IInv /\ OneOwner /\ [Next]_vars => OneOwner'
  BY OneOwnerStep DEF IInv
<1>3. IInv /\ OneOwner /\ [Next]_vars => [Svc!Next]_<<backlog, Taken, Open, Phase, flag>>
  BY ServiceStep
<1> QED
  BY ServerIInv, <1>1, <1>2, <1>3, PTL DEF Spec, ServiceKept, Svc!Spec, Svc!vars
===============================================================================
