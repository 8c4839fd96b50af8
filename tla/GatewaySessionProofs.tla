------------------------ MODULE GatewaySessionProofs ------------------------
(***************************************************************************)
(* Theorems about GatewaySession, for every set of sockets and of callers  *)
(* of send().  The safety invariants are proved from one inductive         *)
(* invariant, IInv; the action properties follow from IInv step by step.   *)
(***************************************************************************)
EXTENDS GatewaySession, TLAPS

\* A socket somebody waits for is past its handler's first step.  This is
\* what keeps a socket that is being closed from becoming the writer again.
AwaitedStarted ==
    \A p \in Procs : awaits[p] # NoConn => pc[awaits[p]] \in {"reading", "leaving", "done"}

\* A handler in its finally clause waits for its own socket.
LeaverAwaitsItself == \A c \in Conns : pc[c] = "leaving" => awaits[c] = c

IInv ==
    /\ TypeOK
    /\ WriterServed
    /\ AnnouncementOwned
    /\ WaitsEnd
    /\ AwaitedStarted
    /\ LeaverAwaitsItself

\* What start() leaves satisfies the inductive invariant.
LEMMA InitIInv == Init => IInv
  BY ForeignAssumption, NamesAssumption, ZenonT(40)
     DEF Init, IInv, TypeOK, WriterServed, AnnouncementOwned, WaitsEnd, AwaitedStarted,
         LeaverAwaitsItself, TeardownPending, Closers, Procs

\* Each action preserves it.
LEMMA NextIInv == IInv /\ [Next]_vars => IInv'
<1> SUFFICES ASSUME IInv, [Next]_vars PROVE IInv'
  OBVIOUS
<1> USE NamesAssumption
    DEF IInv, TypeOK, WriterServed, AnnouncementOwned, WaitsEnd, AwaitedStarted,
        LeaverAwaitsItself, TeardownPending, Closers, Procs
<1>1. CASE UNCHANGED vars
  BY <1>1 DEF vars
<1>2. ASSUME NEW c \in Conns, GatewayConnects(c) PROVE IInv'
  BY <1>2 DEF GatewayConnects, Unreferenced, Listening
<1>3. ASSUME NEW c \in Conns, PeerAborts(c) PROVE IInv'
  BY <1>3 DEF PeerAborts
<1>4. ASSUME NEW c \in Conns, ConnectionLost(c) PROVE IInv'
  BY <1>4 DEF ConnectionLost
<1>5. CASE Silence
  BY <1>5 DEF Silence
<1>6. CASE InviteFades
  BY <1>6 DEF InviteFades
<1>7. ASSUME NEW c \in Conns, Reject(c) PROVE IInv'
  BY <1>7 DEF Reject
<1>8. ASSUME NEW c \in Conns, Evict(c) PROVE IInv'
  BY <1>8 DEF Evict, HasLiveWriter, CloseAndAwait
<1>9. ASSUME NEW c \in Conns, Install(c) PROVE IInv'
  BY <1>9 DEF Install, BecomeSession
<1>10. ASSUME NEW c \in Conns, InstallAfterEviction(c) PROVE IInv'
  BY <1>10 DEF InstallAfterEviction, BecomeSession, StopsWaiting
<1>11. ASSUME NEW c \in Conns, Receive(c) PROVE IInv'
  BY <1>11 DEF Receive
<1>12. ASSUME NEW c \in Conns, ReadEof(c) PROVE IInv'
  BY <1>12 DEF ReadEof, CloseAndAwait
<1>13. ASSUME NEW c \in Conns, ReadEnds(c) PROVE IInv'
  <2>1. TypeOK'
    BY <1>13 DEF ReadEnds, LeaveSession, ForgetSession
  <2>2. WriterServed'
    BY <1>13 DEF ReadEnds, LeaveSession, ForgetSession
  <2>3. AnnouncementOwned'
    BY <1>13 DEF ReadEnds, LeaveSession, ForgetSession
  <2>4. WaitsEnd'
    BY <1>13 DEF ReadEnds, LeaveSession, ForgetSession
  <2>5. AwaitedStarted'
    BY <1>13 DEF ReadEnds, LeaveSession, ForgetSession
  <2>6. LeaverAwaitsItself'
    BY <1>13 DEF ReadEnds, LeaveSession, ForgetSession
  <2> QED
    BY <2>1, <2>2, <2>3, <2>4, <2>5, <2>6 DEF IInv
<1>14. ASSUME NEW c \in Conns, Leave(c) PROVE IInv'
  <2>1. /\ pc[c] = "leaving" /\ awaits[c] # NoConn
        /\ awaits' = [awaits EXCEPT ![c] = NoConn]
        /\ pc' = [pc EXCEPT ![c] = "done"]
        /\ UNCHANGED <<sock, session, sender, target, stop, invited>>
    BY <1>14 DEF Leave, LeaveSession, Arrived, StopsWaiting
  <2>2. \/ session = c /\ writer' = NoConn /\ connected' = FALSE /\ lastSeen' = "none"
        \/ session # c /\ UNCHANGED <<writer, connected, lastSeen>>
    BY <1>14 DEF Leave, LeaveSession, ForgetSession
  <2>3. \A t \in Closers : awaits'[t] = awaits[t]
    BY <2>1
  <2>4. TypeOK'
    BY <2>1, <2>2
  <2>5. WriterServed'
    BY <2>1, <2>2
  <2>6. AnnouncementOwned'
    <3>1. CASE session = c
      BY <2>2, <3>1
    <3>2. CASE session # c
      <4>1. connected' = connected /\ writer' = writer /\ stop' = stop
        BY <2>1, <2>2, <3>2
      <4>2. TeardownPending => TeardownPending'
        BY <2>1, <2>3
      <4> QED
        BY <4>1, <4>2
    <3> QED
      BY <3>1, <3>2
  <2>7. WaitsEnd'
    BY <2>1, <2>2, <2>3
  <2>8. AwaitedStarted'
    BY <2>1
  <2>9. LeaverAwaitsItself'
    BY <2>1
  <2> QED
    BY <2>4, <2>5, <2>6, <2>7, <2>8, <2>9 DEF IInv
<1>15. ASSUME NEW s \in Senders, Send(s) PROVE IInv'
  BY <1>15 DEF Send, HasLiveWriter
<1>16. ASSUME NEW s \in Senders, AcquireLock(s) PROVE IInv'
  BY <1>16 DEF AcquireLock
<1>17. ASSUME NEW s \in Senders, Drained(s) PROVE IInv'
  BY <1>17 DEF Drained, SendReturns
<1>18. ASSUME NEW s \in Senders, DrainFails(s) PROVE IInv'
  <2>1. CASE CloseSessionAwaiting(s)
    <3>1. TypeOK'
      <4>1. awaits' \in [Procs -> Conns \cup {NoConn}]
        BY <2>1 DEF CloseSessionAwaiting, HasLiveWriter, CloseAndAwait
      <4>2. sender' \in [Senders -> {"idle", "queued", "draining", "closing"}]
            /\ UNCHANGED <<target, pc, session, stop, invited>>
        BY <1>18, <2>1 DEF DrainFails, CloseSessionAwaiting, CloseSessionAtOnce
      <4> QED
        BY <2>1, <4>1, <4>2 DEF CloseSessionAwaiting, HasLiveWriter, CloseAndAwait
    <3>2. WriterServed'
      BY <1>18, <2>1 DEF DrainFails, CloseSessionAwaiting, HasLiveWriter, CloseAndAwait
    <3>3. AnnouncementOwned'
      BY <1>18, <2>1 DEF DrainFails, CloseSessionAwaiting, HasLiveWriter, CloseAndAwait
    <3>4. WaitsEnd'
      BY <1>18, <2>1 DEF DrainFails, CloseSessionAwaiting, HasLiveWriter, CloseAndAwait
    <3>5. AwaitedStarted'
      BY <1>18, <2>1 DEF DrainFails, CloseSessionAwaiting, HasLiveWriter, CloseAndAwait
    <3>6. LeaverAwaitsItself'
      BY <1>18, <2>1 DEF DrainFails, CloseSessionAwaiting, HasLiveWriter, CloseAndAwait
    <3> QED
      BY <3>1, <3>2, <3>3, <3>4, <3>5, <3>6 DEF IInv
  <2>2. CASE CloseSessionAtOnce /\ SendReturns(s)
    BY <1>18, <2>2 DEF DrainFails, SendReturns, CloseSessionAtOnce, ForgetSession
  <2> QED
    BY <1>18, <2>1, <2>2 DEF DrainFails
<1>19. ASSUME NEW s \in Senders, SendFailed(s) PROVE IInv'
  BY <1>19 DEF SendFailed, ForgetAfterClose, StopsWaiting, ForgetSession, SendReturns
<1>20. CASE Search
  BY <1>20 DEF Search
<1>21. CASE WatchdogDrops
  <2>1. CASE CloseSessionAwaiting(Watchdog)
    <3>1. TypeOK'
      BY <1>21, <2>1 DEF WatchdogDrops, CloseSessionAwaiting, HasLiveWriter, CloseAndAwait
    <3>2. WriterServed'
      BY <1>21, <2>1 DEF WatchdogDrops, CloseSessionAwaiting, HasLiveWriter, CloseAndAwait
    <3>3. AnnouncementOwned'
      BY <1>21, <2>1 DEF WatchdogDrops, CloseSessionAwaiting, HasLiveWriter, CloseAndAwait
    <3>4. WaitsEnd'
      BY <1>21, <2>1 DEF WatchdogDrops, CloseSessionAwaiting, HasLiveWriter, CloseAndAwait
    <3>5. AwaitedStarted'
      BY <1>21, <2>1 DEF WatchdogDrops, CloseSessionAwaiting, HasLiveWriter, CloseAndAwait
    <3>6. LeaverAwaitsItself'
      BY <1>21, <2>1 DEF WatchdogDrops, CloseSessionAwaiting, HasLiveWriter, CloseAndAwait
    <3> QED
      BY <3>1, <3>2, <3>3, <3>4, <3>5, <3>6 DEF IInv
  <2>2. CASE CloseSessionAtOnce
    BY <1>21, <2>2 DEF WatchdogDrops, CloseSessionAtOnce, ForgetSession
  <2> QED
    BY <1>21, <2>1, <2>2 DEF WatchdogDrops
<1>22. CASE WatchdogForgets
  BY <1>22 DEF WatchdogForgets, ForgetAfterClose, StopsWaiting, ForgetSession
<1>23. CASE BeginStop
  BY <1>23 DEF BeginStop, StopsWaiting
<1>24. CASE StopClosesSession
  <2>1. CASE CloseSessionAwaiting(Stopper)
    <3>1. TypeOK'
      BY <1>24, <2>1 DEF StopClosesSession, CloseSessionAwaiting, HasLiveWriter, CloseAndAwait
    <3>2. WriterServed'
      BY <1>24, <2>1 DEF StopClosesSession, CloseSessionAwaiting, HasLiveWriter, CloseAndAwait
    <3>3. AnnouncementOwned'
      BY <1>24, <2>1 DEF StopClosesSession, CloseSessionAwaiting, HasLiveWriter, CloseAndAwait
    <3>4. WaitsEnd'
      BY <1>24, <2>1 DEF StopClosesSession, CloseSessionAwaiting, HasLiveWriter, CloseAndAwait
    <3>5. AwaitedStarted'
      BY <1>24, <2>1 DEF StopClosesSession, CloseSessionAwaiting, HasLiveWriter, CloseAndAwait
    <3>6. LeaverAwaitsItself'
      BY <1>24, <2>1 DEF StopClosesSession, CloseSessionAwaiting, HasLiveWriter, CloseAndAwait
    <3> QED
      BY <3>1, <3>2, <3>3, <3>4, <3>5, <3>6 DEF IInv
  <2>2. CASE CloseSessionAtOnce
    BY <1>24, <2>2 DEF StopClosesSession, CloseSessionAtOnce, ForgetSession
  <2> QED
    BY <1>24, <2>1, <2>2 DEF StopClosesSession
<1>25. CASE StopClosesServer
  BY <1>25 DEF StopClosesServer, ForgetAfterClose, StopsWaiting, ForgetSession
<1>26. CASE StopReturns
  BY <1>26 DEF StopReturns
<1> QED
  BY <1>1, <1>2, <1>3, <1>4, <1>5, <1>6, <1>7, <1>8, <1>9, <1>10, <1>11, <1>12, <1>13,
     <1>14, <1>15, <1>16, <1>17, <1>18, <1>19, <1>20, <1>21, <1>22, <1>23, <1>24, <1>25,
     <1>26
     DEF Next, Environment, HandlerStep, SenderStep, StopStep

\* The inductive invariant holds in every reachable state.
THEOREM Inductive == Spec => []IInv
<1>1. Init => IInv
  BY InitIInv
<1>2. IInv /\ [Next]_vars => IInv'
  BY NextIInv
<1> QED
  BY <1>1, <1>2, PTL DEF Spec

\* The invariants the runs check, for every instance.

\* Every variable keeps its type.
THEOREM TypeCorrect == Spec => []TypeOK
  BY Inductive, PTL DEF IInv

\* The writer send() uses always belongs to the latest session, and its
\* handler is still there to notice its end.
THEOREM WriterIsServed == Spec => []WriterServed
  BY Inductive, PTL DEF IInv

\* "Connected" without a writer never lasts: a teardown is under way.
THEOREM AnnouncementIsOwned == Spec => []AnnouncementOwned
  BY Inductive, PTL DEF IInv

\* Nobody waits in _close_writer for a socket that was not closed.
THEOREM WaitsAreForClosedSockets == Spec => []WaitsEnd
  BY Inductive, PTL DEF IInv

-----------------------------------------------------------------------------
(* The two ways a session goes wrong are the only ones.                    *)

\* A session is announced as disconnected only by a teardown that began
\* before it; in particular a replaced handler's exit does not do it.
THEOREM LateTeardownAlone == Spec => UnannouncedOnlyByLateTeardown
<1> DEFINE A == Unannounced' /\ ~Unannounced =>
                  /\ writer' = writer /\ session' = session
                  /\ \E t \in Closers : awaits[t] # NoConn /\ awaits'[t] = NoConn
<1>1. IInv /\ [Next]_vars => [A]_vars
  <2> SUFFICES ASSUME IInv, Next, Unannounced', ~Unannounced
               PROVE  /\ writer' = writer /\ session' = session
                      /\ \E t \in Closers : awaits[t] # NoConn /\ awaits'[t] = NoConn
    OBVIOUS
  <2> USE NamesAssumption DEF IInv, TypeOK, Unannounced, Closers, Procs
  <2>1. ASSUME NEW c \in Conns,
               GatewayConnects(c) \/ PeerAborts(c) \/ ConnectionLost(c)
        PROVE FALSE
    BY <2>1 DEF GatewayConnects, PeerAborts, ConnectionLost
  <2>2. ~(Silence \/ InviteFades \/ Search \/ BeginStop \/ StopReturns)
    BY DEF Silence, InviteFades, Search, BeginStop, StopReturns
  <2>3. ASSUME NEW c \in Conns, HandlerStep(c) PROVE FALSE
    BY <2>3 DEF HandlerStep, Reject, Evict, Install, InstallAfterEviction, BecomeSession,
                Receive, ReadEof, ReadEnds, Leave, LeaveSession, WriterServed
  <2>4. ASSUME NEW s \in Senders, Send(s) \/ AcquireLock(s) \/ Drained(s) \/ DrainFails(s)
        PROVE FALSE
    BY <2>4 DEF Send, AcquireLock, Drained, DrainFails, CloseSessionAwaiting, CloseSessionAtOnce
  <2>5. ~(WatchdogDrops \/ StopClosesSession)
    BY DEF WatchdogDrops, StopClosesSession, CloseSessionAwaiting, CloseSessionAtOnce
  <2>6. ASSUME NEW s \in Senders, SendFailed(s)
        PROVE  /\ writer' = writer /\ session' = session
               /\ awaits[s] # NoConn /\ awaits'[s] = NoConn
    BY <2>6 DEF SendFailed, ForgetAfterClose, Arrived, StopsWaiting
  <2>7. ASSUME WatchdogForgets
        PROVE  /\ writer' = writer /\ session' = session
               /\ awaits[Watchdog] # NoConn /\ awaits'[Watchdog] = NoConn
    BY <2>7 DEF WatchdogForgets, ForgetAfterClose, Arrived, StopsWaiting
  <2>8. ASSUME StopClosesServer
        PROVE  /\ writer' = writer /\ session' = session
               /\ awaits[Stopper] # NoConn /\ awaits'[Stopper] = NoConn
    BY <2>8 DEF StopClosesServer, ForgetAfterClose, Arrived, StopsWaiting
  <2> QED
    BY <2>1, <2>2, <2>3, <2>4, <2>5, <2>6, <2>7, <2>8
       DEF Next, Environment, SenderStep, StopStep
<1> QED
  BY <1>1, Inductive, PTL DEF Spec, UnannouncedOnlyByLateTeardown

\* A second socket is read only after a handler that waited for an eviction
\* installed itself over a socket that came in meanwhile.
THEOREM LateEvictionAlone == Spec => OrphanOnlyByLateEviction
<1> DEFINE A == \A c \in Conns : Orphan(c)' /\ ~Orphan(c) =>
                  \E n \in Conns \ {c} :
                     pc[n] = "evicting" /\ pc'[n] = "reading" /\ awaits[n] # writer
<1>1. IInv /\ [Next]_vars => [A]_vars
  <2> SUFFICES ASSUME IInv, Next, NEW o \in Conns, Orphan(o)', ~Orphan(o)
               PROVE \E n \in Conns \ {o} :
                       pc[n] = "evicting" /\ pc'[n] = "reading" /\ awaits[n] # writer
    OBVIOUS
  <2> USE NamesAssumption DEF IInv, TypeOK, Orphan, Closers, Procs
  <2>1. ASSUME NEW c \in Conns,
               GatewayConnects(c) \/ PeerAborts(c) \/ ConnectionLost(c)
        PROVE FALSE
    BY <2>1 DEF GatewayConnects, PeerAborts, ConnectionLost
  <2>2. ~(Silence \/ InviteFades \/ Search \/ BeginStop \/ StopReturns)
    BY DEF Silence, InviteFades, Search, BeginStop, StopReturns
  <2>3. ASSUME NEW c \in Conns, Reject(c) \/ Receive(c) \/ ReadEof(c) PROVE FALSE
    BY <2>3 DEF Reject, Receive, ReadEof, CloseAndAwait
  <2>4. ASSUME NEW c \in Conns, Evict(c) \/ Install(c) PROVE FALSE
    BY <2>4 DEF Evict, Install, BecomeSession, CloseAndAwait, HasLiveWriter
  <2>5. ASSUME NEW c \in Conns, ReadEnds(c) \/ Leave(c) PROVE FALSE
    BY <2>5 DEF ReadEnds, Leave, LeaveSession, WriterServed, Arrived, StopsWaiting
  <2>6. ASSUME NEW n \in Conns, InstallAfterEviction(n)
        PROVE n # o /\ pc[n] = "evicting" /\ pc'[n] = "reading" /\ awaits[n] # writer
    BY <2>6 DEF InstallAfterEviction, BecomeSession, Arrived, StopsWaiting
  <2>7. ASSUME NEW s \in Senders, SenderStep(s) PROVE FALSE
    BY <2>7 DEF SenderStep, Send, AcquireLock, Drained, DrainFails, SendFailed,
                CloseSessionAwaiting, CloseSessionAtOnce, ForgetAfterClose,
                HasLiveWriter, CloseAndAwait
  <2>8. ~(WatchdogDrops \/ WatchdogForgets \/ StopClosesSession \/ StopClosesServer)
    BY DEF WatchdogDrops, WatchdogForgets, StopClosesSession, StopClosesServer,
           CloseSessionAwaiting, CloseSessionAtOnce, ForgetAfterClose,
           HasLiveWriter, CloseAndAwait
  <2> QED
    BY <2>1, <2>2, <2>3, <2>4, <2>5, <2>6, <2>7, <2>8
       DEF Next, Environment, HandlerStep, StopStep
<1> QED
  BY <1>1, Inductive, PTL DEF Spec, OrphanOnlyByLateEviction

\* A session that is open and was heard from recently is given up only by a
\* send that failed or by stop(): not by the watchdog, not by a handler.
THEOREM FreshSessionIsKept == Spec => FreshSessionKept
<1> DEFINE A == HasLiveWriter /\ lastSeen = "fresh" /\ writer' = NoConn =>
                  \/ \E s \in Senders : sender[s] = "draining" /\ sender'[s] = "closing"
                  \/ stop = "cancelling"
<1>1. IInv /\ [Next]_vars => [A]_vars
  <2> SUFFICES ASSUME IInv, Next, HasLiveWriter, lastSeen = "fresh", writer' = NoConn
               PROVE  \/ \E s \in Senders : sender[s] = "draining" /\ sender'[s] = "closing"
                      \/ stop = "cancelling"
    OBVIOUS
  <2> USE NamesAssumption DEF IInv, TypeOK, HasLiveWriter, Closers, Procs
  <2>1. ASSUME NEW c \in Conns,
               GatewayConnects(c) \/ PeerAborts(c) \/ ConnectionLost(c)
        PROVE FALSE
    BY <2>1 DEF GatewayConnects, PeerAborts, ConnectionLost
  <2>2. ~(Silence \/ InviteFades \/ Search \/ BeginStop \/ StopReturns)
    BY DEF Silence, InviteFades, Search, BeginStop, StopReturns
  <2>3. ASSUME NEW c \in Conns, HandlerStep(c) PROVE FALSE
    <3>1. ~(Reject(c) \/ Evict(c) \/ Receive(c) \/ ReadEof(c))
      BY DEF Reject, Evict, Receive, ReadEof
    <3>2. ~(Install(c) \/ InstallAfterEviction(c))
      BY DEF Install, InstallAfterEviction, BecomeSession
    <3>3. ~(ReadEnds(c) \/ Leave(c))
      BY DEF ReadEnds, Leave, LeaveSession, WriterServed, LeaverAwaitsItself, Arrived
    <3> QED
      BY <2>3, <3>1, <3>2, <3>3 DEF HandlerStep
  <2>4. ASSUME NEW s \in Senders, Send(s) \/ AcquireLock(s) \/ Drained(s) \/ SendFailed(s)
        PROVE FALSE
    BY <2>4 DEF Send, AcquireLock, Drained, SendFailed, ForgetAfterClose
  <2>5. ASSUME NEW s \in Senders, DrainFails(s)
        PROVE sender[s] = "draining" /\ sender'[s] = "closing"
    BY <2>5 DEF DrainFails, CloseSessionAwaiting, CloseSessionAtOnce
  <2>6. ~(WatchdogDrops \/ WatchdogForgets \/ StopClosesServer)
    BY DEF WatchdogDrops, WatchdogForgets, StopClosesServer, ForgetAfterClose
  <2>7. ASSUME StopClosesSession PROVE stop = "cancelling"
    BY <2>7 DEF StopClosesSession
  <2> QED
    BY <2>1, <2>2, <2>3, <2>4, <2>5, <2>6, <2>7
       DEF Next, Environment, SenderStep, StopStep
<1> QED
  BY <1>1, Inductive, PTL DEF Spec, FreshSessionKept

-----------------------------------------------------------------------------
(* GatewaySession implements Session.                                      *)

\* A caller of send() or stop() waits for a transport only in the branch
\* that closes: whoever gives a session up is not waiting already.
WaitingIsClosing ==
    /\ \A s \in Senders : awaits[s] # NoConn => sender[s] = "closing"
    /\ awaits[Stopper] # NoConn => stop = "closing"

LEMMA WaitingInductive == TypeOK /\ WaitingIsClosing /\ [Next]_vars => WaitingIsClosing'
<1> SUFFICES ASSUME TypeOK, WaitingIsClosing, [Next]_vars PROVE WaitingIsClosing'
  OBVIOUS
<1> USE NamesAssumption DEF TypeOK, WaitingIsClosing, Closers, Procs
<1>1. CASE UNCHANGED vars
  BY <1>1 DEF vars
<1>2. CASE Environment \/ Search
  BY <1>2 DEF Environment, Search, GatewayConnects, PeerAborts, ConnectionLost, Silence, InviteFades
<1>3. ASSUME NEW c \in Conns, HandlerStep(c) PROVE WaitingIsClosing'
  <2>1. /\ \A t \in Closers : awaits'[t] = awaits[t]
        /\ UNCHANGED <<sender, stop>>
    BY <1>3 DEF HandlerStep, Reject, Evict, CloseAndAwait, Install, InstallAfterEviction,
                BecomeSession, Receive, ReadEof, ReadEnds, Leave, StopsWaiting
  <2> QED
    BY <2>1
<1>4. ASSUME NEW s \in Senders, Send(s) \/ AcquireLock(s) \/ Drained(s)
      PROVE WaitingIsClosing'
  BY <1>4 DEF Send, AcquireLock, Drained, SendReturns
<1>5. ASSUME NEW s \in Senders, DrainFails(s) PROVE WaitingIsClosing'
  <2>1. CASE CloseSessionAwaiting(s) /\ sender' = [sender EXCEPT ![s] = "closing"]
    BY <1>5, <2>1 DEF DrainFails, CloseSessionAwaiting, CloseAndAwait
  <2>2. CASE CloseSessionAtOnce /\ SendReturns(s)
    BY <1>5, <2>2 DEF DrainFails, CloseSessionAtOnce, SendReturns
  <2> QED
    BY <1>5, <2>1, <2>2 DEF DrainFails
<1>6. ASSUME NEW s \in Senders, SendFailed(s) PROVE WaitingIsClosing'
  BY <1>6 DEF SendFailed, ForgetAfterClose, StopsWaiting, SendReturns
<1>7. CASE WatchdogDrops
  BY <1>7 DEF WatchdogDrops, CloseSessionAwaiting, CloseAndAwait, CloseSessionAtOnce
<1>8. CASE WatchdogForgets
  BY <1>8 DEF WatchdogForgets, ForgetAfterClose, StopsWaiting
<1>9. CASE BeginStop \/ StopReturns
  BY <1>9 DEF BeginStop, StopReturns, StopsWaiting, Running
<1>10. CASE StopClosesSession
  BY <1>10 DEF StopClosesSession, CloseSessionAwaiting, CloseAndAwait, CloseSessionAtOnce
<1>11. CASE StopClosesServer
  BY <1>11 DEF StopClosesServer, ForgetAfterClose, StopsWaiting
<1> QED
  BY <1>1, <1>2, <1>3, <1>4, <1>5, <1>6, <1>7, <1>8, <1>9, <1>10, <1>11
     DEF Next, SenderStep, StopStep

\* Every step of the sockets, handlers and callers is a step of Session or
\* leaves the session alone.
LEMMA StepImplements ==
    TypeOK /\ WaitingIsClosing /\ [Next]_vars => [S!SessionNext]_(S!sessionVars)
<1> SUFFICES ASSUME TypeOK, WaitingIsClosing, [Next]_vars
             PROVE  S!SessionNext \/ UNCHANGED S!sessionVars
  OBVIOUS
<1> USE NamesAssumption DEF TypeOK, WaitingIsClosing, Closers, Procs
<1>s. ASSUME writer' = writer, connected' = connected, \A t \in Closers : awaits'[t] = awaits[t]
      PROVE  UNCHANGED S!sessionVars
  BY <1>s DEF S!sessionVars
<1>g. ASSUME NEW t \in Closers, awaits[t] = NoConn, CloseSessionAwaiting(t)
      PROVE  S!GiveUp(t)
  <2>1. writer \in Conns /\ writer # NoConn /\ writer' = NoConn /\ connected' = connected
    BY <1>g DEF CloseSessionAwaiting, HasLiveWriter
  <2>2. awaits' = [awaits EXCEPT ![t] = writer]
    BY <1>g DEF CloseSessionAwaiting, CloseAndAwait
  <2>3. {u \in Closers : awaits'[u] # NoConn} = {u \in Closers : awaits[u] # NoConn} \cup {t}
    BY <2>1, <2>2
  <2> QED
    BY <1>g, <2>1, <2>3 DEF S!GiveUp
<1>f. ASSUME NEW t \in Closers, ForgetAfterClose(t) PROVE S!Forget(t)
  <2>1. awaits[t] # NoConn /\ awaits' = [awaits EXCEPT ![t] = NoConn]
    BY <1>f DEF ForgetAfterClose, Arrived, StopsWaiting
  <2>2. {u \in Closers : awaits'[u] # NoConn} = {u \in Closers : awaits[u] # NoConn} \ {t}
    BY <2>1
  <2> QED
    BY <1>f, <2>1, <2>2 DEF S!Forget, ForgetAfterClose, ForgetSession
<1>e. ASSUME CloseSessionAtOnce PROVE S!End
  BY <1>e DEF CloseSessionAtOnce, ForgetSession, S!End
<1>1. CASE UNCHANGED vars
  BY <1>1, <1>s DEF vars
<1>2. CASE Environment \/ Search \/ StopReturns
  BY <1>2, <1>s DEF Environment, Search, GatewayConnects, PeerAborts, ConnectionLost, Silence,
                    InviteFades, StopReturns
<1>3. ASSUME NEW c \in Conns, HandlerStep(c)
      PROVE  S!SessionNext \/ UNCHANGED S!sessionVars
  <2>1. \A t \in Closers : awaits'[t] = awaits[t]
    BY <1>3 DEF HandlerStep, Reject, Evict, CloseAndAwait, Install, InstallAfterEviction,
                BecomeSession, Receive, ReadEof, ReadEnds, Leave, StopsWaiting
  <2>2. CASE BecomeSession(c)
    <3>1. writer' # NoConn /\ connected' = TRUE
      BY <2>2 DEF BecomeSession
    <3>2. S!Install
      BY <2>1, <3>1 DEF S!Install
    <3> QED
      BY <3>2 DEF S!SessionNext
  <2>3. CASE LeaveSession(c)
    <3>1. CASE session = c
      <4>1. S!End
        BY <2>1, <2>3, <3>1 DEF LeaveSession, ForgetSession, S!End
      <4> QED
        BY <4>1 DEF S!SessionNext
    <3>2. CASE session # c
      BY <2>1, <2>3, <3>2, <1>s DEF LeaveSession
    <3> QED
      BY <3>1, <3>2
  <2>4. CASE UNCHANGED <<writer, connected>>
    BY <2>1, <2>4, <1>s
  <2> QED
    BY <1>3, <2>2, <2>3, <2>4
       DEF HandlerStep, Reject, Evict, Install, InstallAfterEviction, Receive, ReadEof,
           ReadEnds, Leave
<1>4. ASSUME NEW s \in Senders, Send(s) \/ AcquireLock(s) \/ Drained(s)
      PROVE  S!SessionNext \/ UNCHANGED S!sessionVars
  BY <1>4, <1>s DEF Send, AcquireLock, Drained
<1>5. ASSUME NEW s \in Senders, DrainFails(s) PROVE S!SessionNext
  <2>1. CASE CloseSessionAwaiting(s)
    <3>1. awaits[s] = NoConn
      BY <1>5 DEF DrainFails
    <3> QED
      BY <2>1, <3>1, <1>g DEF S!SessionNext
  <2> QED
    BY <1>5, <2>1, <1>e DEF DrainFails, S!SessionNext
<1>6. ASSUME NEW s \in Senders, SendFailed(s) PROVE S!SessionNext
  BY <1>6, <1>f DEF SendFailed, S!SessionNext
<1>7. CASE WatchdogDrops
  BY <1>7, <1>g, <1>e DEF WatchdogDrops, S!SessionNext
<1>8. CASE WatchdogForgets
  BY <1>8, <1>f DEF WatchdogForgets, S!SessionNext
<1>9. CASE BeginStop
  <2>1. awaits' = [awaits EXCEPT ![Watchdog] = NoConn] /\ UNCHANGED <<writer, connected>>
    BY <1>9 DEF BeginStop, StopsWaiting
  <2>2. CASE awaits[Watchdog] = NoConn
    BY <2>1, <2>2, <1>s
  <2>3. CASE awaits[Watchdog] # NoConn
    <3>1. {u \in Closers : awaits'[u] # NoConn}
            = {u \in Closers : awaits[u] # NoConn} \ {Watchdog}
      BY <2>1
    <3>2. S!Cancel
      BY <2>1, <2>3, <3>1 DEF S!Cancel
    <3> QED
      BY <3>2 DEF S!SessionNext
  <2> QED
    BY <2>2, <2>3
<1>10. CASE StopClosesSession
  <2>1. awaits[Stopper] = NoConn
    BY <1>10 DEF StopClosesSession
  <2> QED
    BY <1>10, <2>1, <1>g, <1>e DEF StopClosesSession, S!SessionNext
<1>11. CASE StopClosesServer
  BY <1>11, <1>f DEF StopClosesServer, S!SessionNext
<1> QED
  BY <1>1, <1>2, <1>3, <1>4, <1>5, <1>6, <1>7, <1>8, <1>9, <1>10, <1>11
     DEF Next, SenderStep, StopStep

\* What BE3Gateway does to its writer and its announcement, over every
\* interleaving of its tasks, is what module Session allows.
THEOREM SessionImplemented == Spec => ImplementsSession
<1>1. Init => S!SessionInit /\ WaitingIsClosing
  BY NamesAssumption DEF Init, S!SessionInit, WaitingIsClosing, Closers, Procs
<1>2. Spec => [](TypeOK /\ WaitingIsClosing)
  BY <1>1, TypeCorrect, WaitingInductive, PTL DEF Spec
<1> QED
  BY <1>1, <1>2, StepImplements, PTL DEF Spec, ImplementsSession, S!SessionSpec
=============================================================================
