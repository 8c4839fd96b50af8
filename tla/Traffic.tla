------------------------------- MODULE Traffic -------------------------------
(***************************************************************************)
(* What BE3Gateway makes of the bytes of its sessions (gateway.py,         *)
(* protocol.py): gestures, out of button reports, and two warnings about   *)
(* the gateway's bus loop, out of the heartbeats it sends or does not.     *)
(* Built on Session, of which every step here is a step.                   *)
(*                                                                         *)
(* The gateway sends on its newest socket.  What was on its way on the     *)
(* socket before may still be read, in its own order: one older socket is  *)
(* kept.  Of a button report the type and the value are kept, of a         *)
(* heartbeat only that it came.                                            *)
(***************************************************************************)
EXTENDS Session, Naturals, Sequences

CONSTANTS
    Button,      \* keys of the tracker: an address and a button number
    Counts,      \* the tap counts panels report under TY_PRESS
    WedgeDrops,  \* WEDGE_DROPS
    MaxWire      \* bound: messages on their way on one socket

ASSUME TrafficAssumption ==
    /\ Counts \subseteq 1 .. 254
    /\ WedgeDrops \in Nat \ {0}
    /\ MaxWire \in Nat
    /\ Watchdog \in Closers

Down == 0      \* VAL_DOWN
HoldMark == 255  \* VAL_HOLD
Reports == [kind : {"press"}, button : Button, value : {Down, HoldMark} \cup Counts]
             \cup [kind : {"release"}, button : Button, value : {0}]
Heartbeat == [kind |-> "heartbeat"]
Messages == Reports \cup {Heartbeat}

VARIABLES
    loop,       \* the gateway's bus loop: running, or stopped for good
    link,       \* the gateway's end: no socket, a new one, or one it sent a heartbeat on
    finger,     \* each button: up, down, or down past the hold threshold
    cur, old,   \* messages on the newest socket, and on the one before it
    holding,    \* self._buttons._holding
    heard,      \* what the listeners know of each button: idle, pressed, holding
    cut,        \* buttons of whose present gesture something was lost on the way
    beats,      \* self._heartbeats_this_session is not 0
    lastBeat,   \* self._last_heartbeat: never, recent, BUS_SILENCE_TIMEOUT old
    lastSeen,   \* self._last_seen: None, recent, older than idle_timeout
    drops,      \* self._idle_drops, which counts no further than WEDGE_DROPS here
    wedgeWarned, busWarned

gestureVars == <<finger, holding, heard, cut>>
healthVars == <<beats, lastBeat, drops, wedgeWarned, busWarned>>
vars == <<sessionVars, loop, link, cur, old, lastSeen, gestureVars, healthVars>>
-----------------------------------------------------------------------------
TypeOK ==
    /\ SessionTypeOK
    /\ loop \in {"running", "wedged"}
    /\ link \in {"none", "new", "greeted"}
    /\ finger \in [Button -> {"up", "down", "held"}]
    /\ cur \in Seq(Messages) /\ old \in Seq(Messages)
    /\ holding \subseteq Button
    /\ heard \in [Button -> {"idle", "pressed", "holding"}]
    /\ cut \subseteq Button
    /\ beats \in BOOLEAN
    /\ lastBeat \in {"never", "recent", "silent"}
    /\ lastSeen \in {"none", "fresh", "stale"}
    /\ drops \in 0 .. WedgeDrops
    /\ wedgeWarned \in BOOLEAN /\ busWarned \in BOOLEAN

Init ==
    /\ SessionInit
    /\ loop = "running" /\ link = "none"
    /\ finger = [b \in Button |-> "up"]
    /\ cur = <<>> /\ old = <<>>
    /\ holding = {}
    /\ heard = [b \in Button |-> "idle"]
    /\ cut = {}
    /\ beats = FALSE
    /\ lastBeat = "never" /\ lastSeen = "none"
    /\ drops = 0
    /\ wedgeWarned = FALSE /\ busWarned = FALSE

OnTheirWay == {cur[i] : i \in DOMAIN cur} \cup {old[i] : i \in DOMAIN old}
Awaited == {b \in Button : \E m \in OnTheirWay : m.kind # "heartbeat" /\ m.button = b}
-----------------------------------------------------------------------------
(* ButtonTracker.                                                          *)

\* Mutant: the tap counts come before the hold mark, which is one of them.
Gesture_CountFirst(r) ==
    CASE r.kind = "release" /\ r.button \in holding -> "hold_release"
      [] r.kind = "release" /\ r.button \notin holding -> "click"
      [] r.kind = "press" /\ r.value = Down -> "press"
      [] r.kind = "press" /\ r.value = 1 -> "click"
      [] r.kind = "press" /\ r.value = 2 -> "double_tap"
      [] r.kind = "press" /\ r.value >= 3 -> "triple_tap"

\* The action a report is published as.
Gesture(r) ==
    CASE r.kind = "release" /\ r.button \in holding -> "hold_release"
      [] r.kind = "release" /\ r.button \notin holding -> "click"
      [] r.kind = "press" /\ r.value = Down -> "press"
      [] r.kind = "press" /\ r.value = 1 -> "click"
      [] r.kind = "press" /\ r.value = HoldMark -> "hold"
      [] r.kind = "press" /\ r.value = 2 -> "double_tap"
      [] r.kind = "press" /\ r.value \in 3 .. 254 -> "triple_tap"

HoldingAfter(r) ==
    IF r.kind = "press" /\ r.value = HoldMark THEN holding \cup {r.button}
    ELSE holding \ {r.button}

\* What a listener that follows one button makes of an action.
Phase(action) ==
    CASE action = "press" -> "pressed"
      [] action = "hold" -> "holding"
      [] OTHER -> "idle"

Feed(r) ==
    /\ holding' = HoldingAfter(r)
    /\ heard' = [heard EXCEPT ![r.button] = Phase(Gesture(r))]
    /\ UNCHANGED <<finger, cut, healthVars>>

\* ButtonTracker.reset(): the holds that were open end unseen.
ResetButtons ==
    /\ holding' = {}
    /\ UNCHANGED <<finger, heard>>

-----------------------------------------------------------------------------
(* _dispatch.                                                              *)

\* Mutant: the drops are forgotten, the warning about them is not.
Beat_KeepsWarning ==
    /\ lastBeat' = "recent"
    /\ busWarned' = FALSE
    /\ drops' = IF beats THEN 0 ELSE drops
    /\ beats' = TRUE
    /\ UNCHANGED <<gestureVars, wedgeWarned>>

\* The second heartbeat of a session proves that the bus loop runs.
Beat ==
    /\ lastBeat' = "recent"
    /\ busWarned' = FALSE
    /\ IF beats THEN drops' = 0 /\ wedgeWarned' = FALSE
                ELSE UNCHANGED <<drops, wedgeWarned>>
    /\ beats' = TRUE
    /\ UNCHANGED gestureVars

Dispatch(m) == IF m.kind = "heartbeat" THEN Beat ELSE Feed(m)

Read ==
    /\ cur # <<>>
    /\ Dispatch(Head(cur))
    /\ cur' = Tail(cur)
    /\ lastSeen' = "fresh"
    /\ UNCHANGED <<sessionVars, loop, link, old>>

\* A handler whose socket was replaced or given up reads what it still has,
\* through the same tracker and into the same counters.
ReadOld ==
    /\ old # <<>>
    /\ Dispatch(Head(old))
    /\ old' = Tail(old)
    /\ lastSeen' = "fresh"
    /\ UNCHANGED <<sessionVars, loop, link, cur>>

-----------------------------------------------------------------------------
(* Sessions.                                                               *)

\* The newest socket is left: what was on its way may still be read.
Retire == old' \in {old, cur, <<>>} /\ cur' = <<>>

\* _close_session's second half.
ForgetSession ==
    /\ lastSeen' = "none"
    /\ beats' = FALSE
    /\ ResetButtons

\* Mutant: a reconnection clears what was counted against the gateway.
Connect_Clears ==
    /\ Install
    /\ Retire
    /\ link' = "new"
    /\ lastSeen' = "fresh"
    /\ ResetButtons
    /\ cut' = cut \cup holding \cup Awaited
    /\ drops' = 0
    /\ UNCHANGED <<loop, beats, lastBeat, wedgeWarned, busWarned>>

\* A socket becomes the session.  The tracker is reset; the heartbeat
\* counter is not, though the session may replace one.
Connect ==
    /\ Install
    /\ Retire
    /\ link' = "new"
    /\ lastSeen' = "fresh"
    /\ ResetButtons
    /\ cut' = cut \cup holding \cup Awaited
    /\ UNCHANGED <<loop, healthVars>>

Replace == current /\ Connect

\* The session closes at once, or with its handler.
Ends ==
    /\ End
    /\ Retire
    /\ link' = "none"
    /\ ForgetSession
    /\ cut' = cut \cup holding \cup Awaited

\* The session is given up, and its end waits for its transport.
GivenUp(t) ==
    /\ GiveUp(t)
    /\ Retire
    /\ link' = "none"
    /\ cut' = cut \cup Awaited
    /\ UNCHANGED <<lastSeen, beats, finger, holding, heard>>

\* A teardown that waited ends.
Forgets(t) ==
    /\ Forget(t)
    /\ ForgetSession
    /\ cut' = cut \cup holding
    /\ UNCHANGED <<loop, link, cur, old, lastBeat, drops, wedgeWarned, busWarned>>

\* End of file, an error, or a send that failed.
SessionLost ==
    /\ current \/ announced
    /\ Ends \/ \E t \in Closers \ {Watchdog} : GivenUp(t)
    /\ UNCHANGED <<loop, lastBeat, drops, wedgeWarned, busWarned>>

\* Mutant: the drop is not counted.
IdleDrop_Uncounted ==
    /\ announced /\ lastSeen = "stale" /\ Watchdog \notin tearing
    /\ UNCHANGED <<drops, wedgeWarned>>
    /\ GivenUp(Watchdog) \/ Ends
    /\ UNCHANGED <<loop, lastBeat, busWarned>>

\* The idle watchdog: count, warn, and only then close.
IdleDrop ==
    /\ announced /\ lastSeen = "stale" /\ Watchdog \notin tearing
    /\ drops' = IF drops = WedgeDrops THEN drops ELSE drops + 1
    /\ wedgeWarned' = (wedgeWarned \/ drops + 1 >= WedgeDrops)
    /\ GivenUp(Watchdog) \/ Ends
    /\ UNCHANGED <<loop, lastBeat, busWarned>>

\* The bus watchdog warns once about a silence.
BusWatchdog ==
    /\ announced /\ lastBeat = "silent" /\ ~busWarned
    /\ busWarned' = TRUE
    /\ UNCHANGED <<sessionVars, loop, link, cur, old, lastSeen, gestureVars,
                   beats, lastBeat, drops, wedgeWarned>>

-----------------------------------------------------------------------------
(* Time, the gateway and the panels.                                       *)

\* idle_timeout passes without a byte.
Silence ==
    /\ lastSeen = "fresh" /\ cur = <<>> /\ old = <<>>
    /\ lastSeen' = "stale"
    /\ UNCHANGED <<sessionVars, loop, link, cur, old, gestureVars, healthVars>>

\* BUS_SILENCE_TIMEOUT passes without a heartbeat.
NoBeats ==
    /\ lastBeat = "recent" /\ Heartbeat \notin OnTheirWay
    /\ lastBeat' = "silent"
    /\ UNCHANGED <<sessionVars, loop, link, cur, old, lastSeen, gestureVars,
                   beats, drops, wedgeWarned, busWarned>>

\* The gateway sends a heartbeat: one on connecting whatever its state, and
\* more only while its bus loop runs.  (Bound: the one before was read.)
SendBeat ==
    /\ link = "new" \/ (link = "greeted" /\ loop = "running")
    /\ Heartbeat \notin {cur[i] : i \in DOMAIN cur}
    /\ cur' = Append(cur, Heartbeat)
    /\ link' = "greeted"
    /\ UNCHANGED <<sessionVars, loop, old, lastSeen, gestureVars, healthVars>>

\* The bus loop stops.  What it sent before has been read.
Wedge ==
    /\ loop = "running" /\ OnTheirWay = {}
    /\ loop' = "wedged"
    /\ UNCHANGED <<sessionVars, link, cur, old, lastSeen, gestureVars, healthVars>>

\* Only power brings it back, and its socket goes with it.
PowerCycle ==
    /\ loop = "wedged"
    /\ loop' = "running" /\ link' = "none"
    /\ UNCHANGED <<sessionVars, cur, old, lastSeen, gestureVars, healthVars>>

\* A button moves and its panel reports it: on the newest socket, if there
\* is one and the bus loop runs.  A press starts afresh, unless something
\* about the button is still on its way on an older socket.
Moves(b, to, r) ==
    /\ finger' = [finger EXCEPT ![b] = to]
    /\ IF link # "none" /\ loop = "running"
       THEN /\ Len(cur) < MaxWire
            /\ cur' = Append(cur, r)
            /\ cut' = IF r.value = Down /\ r.kind = "press"
                         /\ \A i \in DOMAIN old : old[i].kind = "heartbeat" \/ old[i].button # b
                      THEN cut \ {b} ELSE cut
       ELSE cut' = cut \cup {b} /\ UNCHANGED cur
    /\ UNCHANGED <<sessionVars, loop, link, old, lastSeen, holding, heard, healthVars>>

Report(kind, b, v) == [kind |-> kind, button |-> b, value |-> v]

\* What the findings document shows of panels: a tap is counted, a hold is
\* marked when it is long enough, and its release has a type of its own.
PanelReports(b) ==
    \/ finger[b] = "up" /\ Moves(b, "down", Report("press", b, Down))
    \/ finger[b] = "down" /\ \E n \in Counts : Moves(b, "up", Report("press", b, n))
    \/ finger[b] = "down" /\ Moves(b, "held", Report("press", b, HoldMark))
    \/ finger[b] # "up" /\ Moves(b, "up", Report("release", b, 0))

-----------------------------------------------------------------------------
Next ==
    \/ Read \/ ReadOld
    \/ Connect \/ SessionLost \/ IdleDrop \/ (\E t \in Closers : Forgets(t))
    \/ BusWatchdog \/ Silence \/ NoBeats
    \/ SendBeat \/ Wedge \/ PowerCycle
    \/ \E b \in Button : PanelReports(b)

Spec == Init /\ [][Next]_vars

\* The loops and the readers run; time passes; a transport that was closed
\* is lost in the end; a gateway that is connected sends its heartbeats.
Fairness ==
    /\ WF_vars(Read) /\ WF_vars(ReadOld)
    /\ WF_vars(IdleDrop) /\ WF_vars(BusWatchdog)
    /\ \A t \in Closers : WF_vars(Forgets(t))
    /\ WF_vars(Silence) /\ WF_vars(NoBeats)
    /\ WF_vars(SendBeat)

FairSpec == Spec /\ Fairness
-----------------------------------------------------------------------------
(* Gestures.                                                               *)

\* The reports of a button on their way on the newest socket.
Own(b) == {i \in DOMAIN cur : cur[i].kind # "heartbeat" /\ cur[i].button = b}

\* What a listener holds a button for that a report was the last of.
Told(r) ==
    CASE r.kind = "press" /\ r.value = Down -> "pressed"
      [] r.kind = "press" /\ r.value = HoldMark -> "holding"
      [] OTHER -> "idle"

\* ... and one that saw the finger.
Seen(b) ==
    CASE finger[b] = "up" -> "idle"
      [] finger[b] = "down" -> "pressed"
      [] finger[b] = "held" -> "holding"

\* A gesture of which nothing was lost is heard as it was made: once its
\* reports are read the listeners hold the button for what it is, and a hold
\* they heard of will be followed by its release.  And whatever was lost, a
\* hold the tracker has open is one its listeners heard of and heard no end
\* of: hold_release is published as the end of a hold and of nothing else,
\* over resets, losses and two sockets read in any order.
GestureHeard ==
    /\ \A b \in Button \ cut :
        /\ Own(b) = {} => heard[b] = Seen(b)
        /\ \A i \in Own(b) : (\A j \in Own(b) : j <= i) => Told(cur[i]) = Seen(b)
        /\ heard[b] = "holding" => b \in holding \/ Report("press", b, Down) \in OnTheirWay
    /\ \A b \in holding : heard[b] = "holding"

-----------------------------------------------------------------------------
(* Bus health.                                                             *)

\* What is held against a gateway has its grounds, and its silence is timed:
\* the wedge warning stands as long as enough drops are counted and no longer,
\* a silence warning only while no heartbeat has come since; and a session
\* that is announced is on the watchdog's clock, whichever sockets, teardowns
\* and late reads came before.
VerdictsHaveGrounds ==
    /\ wedgeWarned <=> drops = WedgeDrops
    /\ busWarned => lastBeat = "silent"
    /\ announced => lastSeen # "none"

(* ... under FairSpec.                                                     *)

\* A gateway whose bus loop has stopped, and which goes on taking sessions
\* and falling silent in them, is named, if its sockets come one at a time
\* and are announced.
WedgeNamed ==
    (/\ <>[](loop = "wedged")
     /\ []<>(current /\ announced)
     /\ <>[][~Replace /\ ~SessionLost]_vars)
        => []<>wedgeWarned

\* A bus loop that is silent in an announced session is reported; and a
\* gateway that was power-cycled, and keeps a session, is not accused for
\* good: both warnings are taken back.
WarningsFollowTheBus ==
    /\ (announced /\ lastBeat = "silent") ~> (busWarned \/ ~announced \/ lastBeat # "silent")
    /\ (/\ <>[](loop = "running" /\ current /\ link # "none")
        /\ <>[][~Replace]_vars)
           => []<>(~wedgeWarned /\ ~busWarned)
=============================================================================
