------------------------------- MODULE Session -------------------------------
(***************************************************************************)
(* What BE3Gateway promises the rest of the integration about its session, *)
(* without sockets, handlers or locks: is there a writer, is a session     *)
(* announced (GatewayState.connected), and who has given a session up and  *)
(* not yet announced its end.  GatewaySession implements it; Traffic is    *)
(* built on it.                                                            *)
(***************************************************************************)
CONSTANTS
    Closers,   \* who may run _close_session and wait inside it
    Watchdog   \* the one of them that stop() cancels

VARIABLES
    current,    \* there is a writer
    announced,  \* the state listeners were told "connected"
    tearing     \* the closers that gave up a session and still wait

sessionVars == <<current, announced, tearing>>

SessionTypeOK ==
    /\ current \in BOOLEAN
    /\ announced \in BOOLEAN
    /\ tearing \subseteq Closers

SessionInit ==
    /\ current = FALSE
    /\ announced = FALSE
    /\ tearing = {}
-----------------------------------------------------------------------------
\* A handler installs its socket: announced in the same step.
Install ==
    /\ current' = TRUE
    /\ announced' = TRUE
    /\ UNCHANGED tearing

\* The latest session's handler leaves, or a closer finds no live writer:
\* the writer and the announcement go together.
End ==
    /\ current' = FALSE
    /\ announced' = FALSE
    /\ UNCHANGED tearing

\* A closer takes a live writer away and waits for its transport.
GiveUp(t) ==
    /\ current /\ t \notin tearing
    /\ current' = FALSE
    /\ tearing' = tearing \cup {t}
    /\ UNCHANGED announced

\* ... and announces the end when the transport is gone, whoever was
\* installed meanwhile.
Forget(t) ==
    /\ t \in tearing
    /\ tearing' = tearing \ {t}
    /\ announced' = FALSE
    /\ UNCHANGED current

\* The watchdog is cancelled while it waits.
Cancel ==
    /\ Watchdog \in tearing
    /\ tearing' = tearing \ {Watchdog}
    /\ UNCHANGED <<current, announced>>

SessionNext ==
    \/ Install \/ End \/ Cancel
    \/ \E t \in Closers : GiveUp(t) \/ Forget(t)

SessionSpec == SessionInit /\ [][SessionNext]_sessionVars
=============================================================================
