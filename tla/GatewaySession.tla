--------------------------- MODULE GatewaySession ---------------------------
(***************************************************************************)
(* BE3Gateway (gateway.py): the TCP server the BE3 adaptor connects back   *)
(* to, and the session it keeps.  Everything runs on one asyncio loop, so  *)
(* a step is the code between two awaits; the processes are                *)
(*   - one _handle_connection task per accepted socket,                    *)
(*   - the idle watchdog, the discovery loop,                              *)
(*   - callers of send(), serialised by _send_lock,                        *)
(*   - stop(), called when the config entry is unloaded.                   *)
(* They share _writer, _session, _last_seen and _state.connected, and      *)
(* every one of them may be suspended in _close_writer(), waiting for the  *)
(* transport of a socket it closed to report connection_lost.              *)
(*                                                                         *)
(* The session counter is represented by the connection that last          *)
(* installed itself: a handler's "session == self._session" holds exactly  *)
(* when nobody installed after it.  A socket identity is used again once   *)
(* its handler has returned and nobody refers to it.  Payloads, heartbeat  *)
(* counters and button tracking are left to other modules.                 *)
(***************************************************************************)
EXTENDS Naturals, FiniteSets

CONSTANTS
    Conns,    \* socket identities
    Foreign,  \* the sockets that come from a host other than expected_host
    Senders,  \* callers of send()
    Watchdog, Stopper,  \* the idle watchdog task and the caller of stop()
    NoConn    \* None

Closers == Senders \cup {Watchdog, Stopper}  \* who may run _close_session with an await
Procs == Conns \cup Closers

ASSUME ForeignAssumption == Foreign \subseteq Conns
ASSUME NamesAssumption ==
    /\ NoConn \notin Conns \cup Senders
    /\ Conns \cap Closers = {}
    /\ Watchdog # Stopper
    /\ {Watchdog, Stopper} \cap Senders = {}

VARIABLES
    sock,       \* our transport of each socket: open, closing (is_closing()) or lost
    pc,         \* where each socket's _handle_connection task is
    awaits,     \* the socket whose connection_lost a process is waiting for
    writer,     \* self._writer
    session,    \* the connection that made self._session what it is
    connected,  \* self._state.connected
    lastSeen,   \* self._last_seen: None, recent, or older than idle_timeout
    sender,     \* where each caller of send() is
    target,     \* the writer each caller of send() captured
    stop,       \* how far stop() is
    invited     \* a search datagram the gateway may still answer

vars == <<sock, pc, awaits, writer, session, connected, lastSeen,
          sender, target, stop, invited>>
-----------------------------------------------------------------------------
TypeOK ==
    /\ sock \in [Conns -> {"open", "closing", "lost"}]
    /\ pc \in [Conns -> {"done", "new", "evicting", "reading", "leaving"}]
    /\ awaits \in [Procs -> Conns \cup {NoConn}]
    /\ writer \in Conns \cup {NoConn}
    /\ session \in Conns \cup {NoConn}
    /\ connected \in BOOLEAN
    /\ lastSeen \in {"none", "fresh", "stale"}
    /\ sender \in [Senders -> {"idle", "queued", "draining", "closing"}]
    /\ target \in [Senders -> Conns \cup {NoConn}]
    /\ stop \in {"running", "cancelling", "closing", "draining", "stopped"}
    /\ invited \in BOOLEAN

\* The state start() leaves: bound, listening, the background tasks spawned.
Init ==
    /\ sock = [c \in Conns |-> "lost"]
    /\ pc = [c \in Conns |-> "done"]
    /\ awaits = [p \in Procs |-> NoConn]
    /\ writer = NoConn
    /\ session = NoConn
    /\ connected = FALSE
    /\ lastSeen = "none"
    /\ sender = [s \in Senders |-> "idle"]
    /\ target = [s \in Senders |-> NoConn]
    /\ stop = "running"
    /\ invited = FALSE

Running == stop = "running"
Listening == stop \in {"running", "cancelling", "closing"}  \* until server.close()
LockHeld == \E s \in Senders : sender[s] \in {"draining", "closing"}

\* A live _writer: neither None nor is_closing().
HasLiveWriter == writer # NoConn /\ sock[writer] = "open"

-----------------------------------------------------------------------------
(* _close_writer: nothing on a transport that is closing already;          *)
(* otherwise close it and wait, as process p, for its connection_lost.     *)

CloseAndAwait(p, c) ==
    /\ sock' = [sock EXCEPT ![c] = "closing"]
    /\ awaits' = [awaits EXCEPT ![p] = c]

Arrived(p) == awaits[p] # NoConn /\ sock[awaits[p]] = "lost"
StopsWaiting(p) == awaits' = [awaits EXCEPT ![p] = NoConn]

(* _close_session: take the writer, close it, and only then forget the     *)
(* session: the second half runs after the await when there is one.        *)

ForgetSession ==
    /\ lastSeen' = "none"
    /\ connected' = FALSE

CloseSessionAwaiting(p) ==
    /\ HasLiveWriter
    /\ writer' = NoConn
    /\ CloseAndAwait(p, writer)
    /\ UNCHANGED <<lastSeen, connected>>

CloseSessionAtOnce ==
    /\ ~HasLiveWriter
    /\ writer' = NoConn
    /\ ForgetSession
    /\ UNCHANGED <<sock, awaits>>

ForgetAfterClose(p) ==
    /\ Arrived(p)
    /\ StopsWaiting(p)
    /\ ForgetSession
    /\ UNCHANGED <<sock, writer>>

-----------------------------------------------------------------------------
(* The network and the gateway at the other end.                           *)

Unreferenced(c) ==
    /\ writer # c
    /\ \A p \in Procs : awaits[p] # c
    /\ \A s \in Senders : target[s] # c

\* The gateway answers a search by connecting, twice as a rule; a foreign
\* host needs no invitation.
GatewayConnects(c) ==
    /\ invited \/ c \in Foreign
    /\ Listening
    /\ pc[c] = "done" /\ sock[c] = "lost" /\ Unreferenced(c)
    /\ sock' = [sock EXCEPT ![c] = "open"]
    /\ pc' = [pc EXCEPT ![c] = "new"]
    /\ UNCHANGED <<awaits, writer, session, connected, lastSeen, sender, target, stop, invited>>

\* A reset or a transmission timeout: asyncio forces the transport closed.
PeerAborts(c) ==
    /\ sock[c] = "open"
    /\ sock' = [sock EXCEPT ![c] = "closing"]
    /\ UNCHANGED <<pc, awaits, writer, session, connected, lastSeen, sender, target, stop, invited>>

\* connection_lost(): the buffer was flushed, or TCP gave up on flushing it.
ConnectionLost(c) ==
    /\ sock[c] = "closing"
    /\ sock' = [sock EXCEPT ![c] = "lost"]
    /\ UNCHANGED <<pc, awaits, writer, session, connected, lastSeen, sender, target, stop, invited>>

\* idle_timeout goes by without a byte.
Silence ==
    /\ lastSeen = "fresh"
    /\ lastSeen' = "stale"
    /\ UNCHANGED <<sock, pc, awaits, writer, session, connected, sender, target, stop, invited>>

\* The gateway did not hear the datagram, or its answer is over.
InviteFades ==
    /\ invited
    /\ invited' = FALSE
    /\ UNCHANGED <<sock, pc, awaits, writer, session, connected, lastSeen, sender, target, stop>>

-----------------------------------------------------------------------------
(* _handle_connection.                                                     *)

\* An unexpected host is closed and never becomes the session; nothing
\* follows the wait for its connection_lost.
Reject(c) ==
    /\ pc[c] = "new" /\ c \in Foreign
    /\ sock' = [sock EXCEPT ![c] = IF sock[c] = "open" THEN "closing" ELSE sock[c]]
    /\ pc' = [pc EXCEPT ![c] = "done"]
    /\ UNCHANGED <<awaits, writer, session, connected, lastSeen, sender, target, stop, invited>>

\* There is a live writer: retire it, and wait for its connection_lost.
Evict(c) ==
    /\ pc[c] = "new" /\ c \notin Foreign
    /\ HasLiveWriter
    /\ CloseAndAwait(c, writer)
    /\ pc' = [pc EXCEPT ![c] = "evicting"]
    /\ UNCHANGED <<writer, session, connected, lastSeen, sender, target, stop, invited>>

\* Mutant: the new session is not announced.
BecomeSession_Silent(c) ==
    /\ session' = c
    /\ writer' = c
    /\ lastSeen' = "fresh"
    /\ pc' = [pc EXCEPT ![c] = "reading"]
    /\ UNCHANGED <<sock, connected, sender, target, stop, invited>>

\* From "self._session += 1" to the first read: no await in between.
BecomeSession(c) ==
    /\ session' = c
    /\ writer' = c
    /\ lastSeen' = "fresh"
    /\ connected' = TRUE
    /\ pc' = [pc EXCEPT ![c] = "reading"]
    /\ UNCHANGED <<sock, sender, target, stop, invited>>

\* Mutant: the test for an existing writer is missing.
Install_NoTest(c) ==
    /\ pc[c] = "new" /\ c \notin Foreign
    /\ BecomeSession(c)
    /\ UNCHANGED awaits

Install(c) ==
    /\ pc[c] = "new" /\ c \notin Foreign
    /\ ~HasLiveWriter
    /\ BecomeSession(c)
    /\ UNCHANGED awaits

\* The wait is over; whoever became the writer meanwhile is not looked at.
InstallAfterEviction(c) ==
    /\ pc[c] = "evicting" /\ Arrived(c)
    /\ BecomeSession(c)
    /\ StopsWaiting(c)

\* read() returns bytes; they may have been buffered before a close.
Receive(c) ==
    /\ pc[c] = "reading" /\ sock[c] \in {"open", "closing"}
    /\ lastSeen' = "fresh"
    /\ UNCHANGED <<sock, pc, awaits, writer, session, connected, sender, target, stop, invited>>

\* End of file on an open transport: close it and wait.
ReadEof(c) ==
    /\ pc[c] = "reading" /\ sock[c] = "open"
    /\ CloseAndAwait(c, c)
    /\ pc' = [pc EXCEPT ![c] = "leaving"]
    /\ UNCHANGED <<writer, session, connected, lastSeen, sender, target, stop, invited>>

\* Mutant: the writer is not dropped with its session.
LeaveSession_KeepsWriter(c) ==
    /\ pc' = [pc EXCEPT ![c] = "done"]
    /\ UNCHANGED writer
    /\ IF session = c THEN ForgetSession ELSE UNCHANGED <<lastSeen, connected>>

\* Mutant: the session's end is not announced.
LeaveSession_KeepsState(c) ==
    /\ pc' = [pc EXCEPT ![c] = "done"]
    /\ writer' = IF session = c THEN NoConn ELSE writer
    /\ UNCHANGED <<lastSeen, connected>>

\* The finally clause's last test: only the latest session is cleared, and
\* its writer, being this one or None, is never waited for.
LeaveSession(c) ==
    /\ pc' = [pc EXCEPT ![c] = "done"]
    /\ IF session = c
       THEN writer' = NoConn /\ ForgetSession
       ELSE UNCHANGED <<writer, lastSeen, connected>>

\* End of file or an error on a transport that is closing already.
ReadEnds(c) ==
    /\ pc[c] = "reading" /\ sock[c] # "open"
    /\ LeaveSession(c)
    /\ UNCHANGED <<sock, awaits, session, sender, target, stop, invited>>

Leave(c) ==
    /\ pc[c] = "leaving" /\ Arrived(c)
    /\ StopsWaiting(c)
    /\ LeaveSession(c)
    /\ UNCHANGED <<sock, session, sender, target, stop, invited>>

-----------------------------------------------------------------------------
(* send().                                                                 *)

\* The writer is captured before the lock; a free lock with no queue is
\* taken without yielding, and the bytes are written at once.
Send(s) ==
    /\ sender[s] = "idle"
    /\ HasLiveWriter
    /\ target' = [target EXCEPT ![s] = writer]
    /\ sender' = [sender EXCEPT ![s] =
          IF LockHeld \/ \E q \in Senders : sender[q] = "queued" THEN "queued" ELSE "draining"]
    /\ UNCHANGED <<sock, pc, awaits, writer, session, connected, lastSeen, stop, invited>>

AcquireLock(s) ==
    /\ sender[s] = "queued" /\ ~LockHeld
    /\ sender' = [sender EXCEPT ![s] = "draining"]
    /\ UNCHANGED <<sock, pc, awaits, writer, session, connected, lastSeen, target, stop, invited>>

SendReturns(s) ==
    /\ sender' = [sender EXCEPT ![s] = "idle"]
    /\ target' = [target EXCEPT ![s] = NoConn]

\* drain() returns: the buffer has room, or our own close woke it.
Drained(s) ==
    /\ sender[s] = "draining"
    /\ SendReturns(s)
    /\ UNCHANGED <<sock, pc, awaits, writer, session, connected, lastSeen, stop, invited>>

\* drain() raises: the captured transport is gone.  The session closed is
\* the current one, whichever that is, and the lock is kept meanwhile.
DrainFails(s) ==
    /\ sender[s] = "draining" /\ sock[target[s]] = "lost"
    /\ \/ /\ CloseSessionAwaiting(s)
          /\ sender' = [sender EXCEPT ![s] = "closing"]
          /\ UNCHANGED target
       \/ CloseSessionAtOnce /\ SendReturns(s)
    /\ UNCHANGED <<pc, session, stop, invited>>

\* Mutant: the lock is not released after a failed send.
SendFailed_KeepsLock(s) ==
    /\ sender[s] = "closing"
    /\ ForgetAfterClose(s)
    /\ UNCHANGED <<pc, session, sender, target, stop, invited>>

SendFailed(s) ==
    /\ sender[s] = "closing"
    /\ ForgetAfterClose(s)
    /\ SendReturns(s)
    /\ UNCHANGED <<pc, session, stop, invited>>

-----------------------------------------------------------------------------
(* The background loops.                                                   *)

\* Mutant: looks at the writer instead of the announcement.
Search_ByWriter ==
    /\ Running /\ writer = NoConn /\ ~invited
    /\ invited' = TRUE
    /\ UNCHANGED <<sock, pc, awaits, writer, session, connected, lastSeen, sender, target, stop>>

\* A search datagram while no session is announced.
Search ==
    /\ Running /\ ~connected /\ ~invited
    /\ invited' = TRUE
    /\ UNCHANGED <<sock, pc, awaits, writer, session, connected, lastSeen, sender, target, stop>>

\* Mutant: the idle test is missing.
WatchdogDrops_Always ==
    /\ Running /\ awaits[Watchdog] = NoConn
    /\ connected
    /\ CloseSessionAwaiting(Watchdog) \/ CloseSessionAtOnce
    /\ UNCHANGED <<pc, session, sender, target, stop, invited>>

\* Mutant: the test for connected is inverted.
WatchdogDrops_Inverted ==
    /\ Running /\ awaits[Watchdog] = NoConn
    /\ ~connected /\ lastSeen = "stale"
    /\ CloseSessionAwaiting(Watchdog) \/ CloseSessionAtOnce
    /\ UNCHANGED <<pc, session, sender, target, stop, invited>>

\* The idle watchdog drops a connected session that has gone quiet.
WatchdogDrops ==
    /\ Running /\ awaits[Watchdog] = NoConn
    /\ connected /\ lastSeen = "stale"
    /\ CloseSessionAwaiting(Watchdog) \/ CloseSessionAtOnce
    /\ UNCHANGED <<pc, session, sender, target, stop, invited>>

WatchdogForgets ==
    /\ ForgetAfterClose(Watchdog)
    /\ UNCHANGED <<pc, session, sender, target, stop, invited>>

-----------------------------------------------------------------------------
(* stop().                                                                 *)

\* The tasks are cancelled: a watchdog waiting inside _close_session never
\* runs the rest of it.
BeginStop ==
    /\ Running
    /\ stop' = "cancelling"
    /\ StopsWaiting(Watchdog)
    /\ UNCHANGED <<sock, pc, writer, session, connected, lastSeen, sender, target, invited>>

\* _close_session(notify=False); the server still accepts while it waits.
StopClosesSession ==
    /\ stop = "cancelling"
    /\ \/ CloseSessionAwaiting(Stopper) /\ stop' = "closing"
       \/ CloseSessionAtOnce /\ stop' = "draining"
    /\ UNCHANGED <<pc, session, sender, target, invited>>

StopClosesServer ==
    /\ stop = "closing"
    /\ ForgetAfterClose(Stopper)
    /\ stop' = "draining"
    /\ UNCHANGED <<pc, session, sender, target, invited>>

\* Server.wait_closed() returns once every accepted transport is gone.
StopReturns ==
    /\ stop = "draining"
    /\ \A c \in Conns : sock[c] = "lost"
    /\ stop' = "stopped"
    /\ UNCHANGED <<sock, pc, awaits, writer, session, connected, lastSeen, sender, target, invited>>

-----------------------------------------------------------------------------
Environment ==
    \/ \E c \in Conns : GatewayConnects(c) \/ PeerAborts(c) \/ ConnectionLost(c)
    \/ Silence
    \/ InviteFades

HandlerStep(c) ==
    \/ Reject(c) \/ Evict(c) \/ Install(c) \/ InstallAfterEviction(c)
    \/ Receive(c) \/ ReadEof(c) \/ ReadEnds(c) \/ Leave(c)

SenderStep(s) ==
    Send(s) \/ AcquireLock(s) \/ Drained(s) \/ DrainFails(s) \/ SendFailed(s)

StopStep == BeginStop \/ StopClosesSession \/ StopClosesServer \/ StopReturns

Next ==
    \/ Environment
    \/ \E c \in Conns : HandlerStep(c)
    \/ \E s \in Senders : SenderStep(s)
    \/ Search \/ WatchdogDrops \/ WatchdogForgets
    \/ StopStep

Spec == Init /\ [][Next]_vars

\* What the event loop schedules by itself: a started handler, a resumed
\* await, a woken lock waiter, the loops' next tick.  Bytes, ends of file,
\* aborts and calls to send() and stop() are owed by nobody.  A transport
\* that is closing is lost in the end: flushed, or given up by TCP.
HandlerRuns(c) ==
    \/ Reject(c) \/ Evict(c) \/ Install(c) \/ InstallAfterEviction(c)
    \/ (sock[c] = "lost" /\ ReadEnds(c)) \/ Leave(c)

SenderRuns(s) ==
    \/ AcquireLock(s) \/ DrainFails(s) \/ SendFailed(s)
    \/ (target[s] # NoConn /\ sock[target[s]] # "open" /\ Drained(s))

Fairness ==
    /\ \A c \in Conns :
          /\ WF_vars(ConnectionLost(c))
          /\ WF_vars(HandlerRuns(c))
    /\ \A s \in Senders : WF_vars(SenderRuns(s))
    /\ WF_vars(Search)
    /\ WF_vars(WatchdogDrops \/ WatchdogForgets)
    /\ WF_vars(StopClosesSession \/ StopClosesServer \/ StopReturns)

FairSpec == Spec /\ Fairness
-----------------------------------------------------------------------------
(* Safety.                                                                 *)

Orphan(c) == pc[c] = "reading" /\ sock[c] = "open" /\ writer # c
Unannounced == writer # NoConn /\ ~connected
TeardownPending == stop = "cancelling" \/ \E t \in Closers : awaits[t] # NoConn

\* The socket send() writes to belongs to the latest session and still has
\* a handler running, so its end will be noticed and the writer dropped.
WriterServed ==
    writer # NoConn => session = writer /\ pc[writer] \in {"reading", "leaving"}

\* "Connected" without a writer is a passing state: some _close_session is
\* waiting for its socket and will take the announcement back.
AnnouncementOwned == connected => writer # NoConn \/ TeardownPending

\* Every socket a process waits for in _close_writer is on its way out, and
\* is not the writer of a closer that gave it up: no wait is for a live one.
WaitsEnd ==
    /\ \A p \in Procs : awaits[p] # NoConn => sock[awaits[p]] # "open"
    /\ \A t \in Closers : awaits[t] # NoConn => awaits[t] # writer

\* An installed session goes unannounced (writer set, connected False) in
\* one way only: a _close_session of an earlier socket finishes after the
\* new one was installed.  No handler's exit does that.
UnannouncedOnlyByLateTeardown ==
    [][ Unannounced' /\ ~Unannounced =>
          /\ writer' = writer /\ session' = session
          /\ \E t \in Closers : awaits[t] # NoConn /\ awaits'[t] = NoConn ]_vars

\* A socket that is read without being the writer appears in one way only:
\* a handler that waited for an eviction installs over someone who came in
\* meanwhile.
OrphanOnlyByLateEviction ==
    [][ \A c \in Conns : Orphan(c)' /\ ~Orphan(c) =>
          \E n \in Conns \ {c} :
             pc[n] = "evicting" /\ pc'[n] = "reading" /\ awaits[n] # writer ]_vars

\* A session whose socket is open and heard from recently loses its place
\* only to a send that failed or to stop(): never to the idle watchdog, and
\* never to the late teardown of an older socket.
FreshSessionKept ==
    [][ HasLiveWriter /\ lastSeen = "fresh" /\ writer' = NoConn =>
          \/ \E s \in Senders : sender[s] = "draining" /\ sender'[s] = "closing"
          \/ stop = "cancelling" ]_vars

-----------------------------------------------------------------------------
(* What the rest of the integration may rely on: module Session.           *)

S == INSTANCE Session WITH
        current <- writer # NoConn,
        announced <- connected,
        tearing <- {t \in Closers : awaits[t] # NoConn}

\* Sockets, handlers, the send lock and stop() together do no more to the
\* session than Session allows: a writer comes announced, and only a closer
\* that waited takes an announcement back while there is one.
ImplementsSession == S!SessionSpec

-----------------------------------------------------------------------------
(* Liveness, under FairSpec.                                               *)

\* A session that is no use is given up: one that stays quiet, by the idle
\* watchdog, and one whose transport is gone, by whoever notices.
DeadSessionDropped ==
    /\ (Running /\ connected /\ lastSeen = "stale")
           ~> (~Running \/ ~connected \/ lastSeen # "stale")
    /\ \A c \in Conns : (writer = c /\ sock[c] = "lost") ~> (writer # c)

\* The announcement of a session that was given up is taken back.
AnnouncementSettles == (connected /\ writer = NoConn) ~> (~connected \/ writer # NoConn)

\* Whoever waits for a transport goes on when it ends: an eviction becomes
\* the session, a send that fails gives the lock back, and stop() returns once
\* the server is closed and no socket is open.
EveryWaitEnds ==
    /\ \A c \in Conns : (pc[c] = "evicting") ~> (pc[c] = "reading")
    /\ \A s \in Senders :
          (sender[s] # "queued" /\ target[s] # NoConn /\ sock[target[s]] = "lost") ~> (sender[s] = "idle")
    /\ (stop = "draining" /\ \A c \in Conns : sock[c] # "open") ~> (stop = "stopped")

\* While nobody calls stop() and the gateway answers the searches, there is an
\* announced session with a writer again and again: evictions, late reads,
\* failed sends and teardowns never leave, for good, an announcement without a
\* session, which stops the search, or a session without an announcement,
\* which no search replaces.  (Bound: unless every socket the model has stays
\* taken, say by a sender that waits for the lock with the writer it captured.)
GatewayAnswers == \A c \in Conns \ Foreign : SF_vars(GatewayConnects(c))
Attached == connected /\ writer # NoConn
OutOfSockets == \A c \in Conns \ Foreign : pc[c] # "done" \/ sock[c] # "lost" \/ ~Unreferenced(c)
SessionComesBack == (<>[]Running /\ GatewayAnswers) => ([]<>Attached \/ <>[]OutOfSockets)

\* Once stop() is called it returns, and the sockets, the handlers, the senders
\* and the session come to rest for good, a socket that was accepted before
\* the server closed and became the session afterwards included; unless some
\* socket is read for ever because its peer never ends it.
AtRest ==
    /\ writer = NoConn /\ ~connected
    /\ \A p \in Procs : awaits[p] = NoConn
    /\ \A c \in Conns : pc[c] = "done" /\ sock[c] = "lost"
    /\ \A s \in Senders : sender[s] = "idle"
StopSettles ==
    <>(~Running) =>
        \/ <>[](stop = "stopped" /\ AtRest)
        \/ \E c \in Conns : <>[](pc[c] = "reading" /\ sock[c] = "open")
=============================================================================
