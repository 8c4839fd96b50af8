---------------------------- MODULE TrafficProofs ----------------------------
(***************************************************************************)
(* What becomes of the messages of a session (Traffic), and, in the second *)
(* half, how they are found in the bytes that come (Wire), for any values  *)
(* of the constants that the assumptions of the two allow.                 *)
(*                                                                         *)
(* Types and GestureHeard of Traffic: what the last report on its way will *)
(* make of a button is what the finger does, and reading an earlier one,   *)
(* or one of another button, does not change which is the last.  A button  *)
(* whose gesture is whole has no report on an older socket.                *)
(***************************************************************************)
EXTENDS Traffic, Wire, FiniteSetTheorems, SequenceTheorems, WellFoundedInduction, TLAPS

Mine(m, b) == m.kind # "heartbeat" /\ m.button = b

\* What is left on an older socket is of gestures that were cut.
OldIsCut == \A b \in Button \ cut : \A i \in DOMAIN old : ~Mine(old[i], b)

IInv == TypeOK /\ OldIsCut /\ GestureHeard
-----------------------------------------------------------------------------
(* Data.                                                                   *)

LEMMA ReportTypes ==
    ASSUME NEW m \in Messages
    PROVE  \/ m = Heartbeat /\ m.kind = "heartbeat"
           \/ /\ m \in Reports /\ m.button \in Button
              /\ \/ m.kind = "press" /\ m.value \in {Down, HoldMark} \cup 1 .. 254
                 \/ m.kind = "release" /\ m.value = 0
  <1>1. CASE m = Heartbeat
    BY <1>1 DEF Heartbeat
  <1>2. CASE m \in [kind : {"press"}, button : Button, value : {Down, HoldMark} \cup Counts]
    <2>1. m.kind = "press" /\ m.button \in Button /\ m.value \in {Down, HoldMark} \cup Counts
      BY <1>2
    <2>. QED BY <1>2, <2>1, TrafficAssumption DEF Reports
  <1>3. CASE m \in [kind : {"release"}, button : Button, value : {0}]
    BY <1>3 DEF Reports
  <1>. QED BY <1>1, <1>2, <1>3 DEF Messages, Reports

\* What a report makes of the tracker and of its listeners.
LEMMA ReportIsTold ==
    ASSUME NEW r \in Reports
    PROVE  /\ Phase(Gesture(r)) = Told(r)
           /\ Told(r) \in {"idle", "pressed", "holding"}
           /\ Told(r) = "holding" <=> r.kind = "press" /\ r.value = HoldMark
  <1>1. \/ r.kind = "press" /\ r.value \in {Down, HoldMark} \cup 1 .. 254
        \/ r.kind = "release" /\ r.value = 0
    BY TrafficAssumption DEF Reports
  <1>2. CASE r.kind = "release"
    BY <1>1, <1>2 DEF Phase, Gesture, Told
  <1>3. CASE r.kind = "press" /\ r.value = Down
    BY <1>3 DEF Phase, Gesture, Told, Down, HoldMark
  <1>4. CASE r.kind = "press" /\ r.value = HoldMark
    BY <1>4 DEF Phase, Gesture, Told, Down, HoldMark
  <1>5. CASE r.kind = "press" /\ r.value \in 1 .. 254
    <2>1. Gesture(r) \in {"click", "double_tap", "triple_tap"}
      BY <1>5 DEF Gesture, Down, HoldMark
    <2>2. Phase(Gesture(r)) = "idle"
      BY <2>1 DEF Phase
    <2>. QED BY <1>5, <2>2 DEF Told, Down, HoldMark
  <1>. QED BY <1>1, <1>2, <1>3, <1>4, <1>5

LEMMA QueueAppend ==
    ASSUME NEW s \in Seq(Messages), NEW m \in Messages
    PROVE  /\ Append(s, m) \in Seq(Messages)
           /\ Len(s) \in Nat
           /\ DOMAIN s = 1 .. Len(s) /\ DOMAIN Append(s, m) = 1 .. Len(s) + 1
           /\ \A i \in 1 .. Len(s) : Append(s, m)[i] = s[i]
           /\ Append(s, m)[Len(s) + 1] = m
  OBVIOUS

LEMMA QueueTail ==
    ASSUME NEW s \in Seq(Messages), s # <<>>
    PROVE  /\ Tail(s) \in Seq(Messages)
           /\ Len(s) \in Nat \ {0}
           /\ DOMAIN s = 1 .. Len(s) /\ DOMAIN Tail(s) = 1 .. Len(s) - 1
           /\ \A i \in 1 .. Len(s) - 1 : Tail(s)[i] = s[i + 1]
           /\ Head(s) = s[1] /\ s[1] \in Messages
  OBVIOUS

LEMMA QueueEmpty == <<>> \in Seq(Messages) /\ DOMAIN <<>> = {}
  OBVIOUS

\* Who waits for a report.
LEMMA AwaitedReports ==
    ASSUME NEW b \in Button
    PROVE  b \in Awaited <=> \/ \E i \in DOMAIN cur : Mine(cur[i], b)
                             \/ \E i \in DOMAIN old : Mine(old[i], b)
  BY DEF Awaited, OnTheirWay, Mine

LEMMA AwaitedButtons ==
    ASSUME TypeOK PROVE Awaited \subseteq Button
  BY DEF Awaited
-----------------------------------------------------------------------------
(* Types.                                                                  *)

LEMMA InitHolds == Init => IInv
  <1>. SUFFICES ASSUME Init PROVE IInv
    OBVIOUS
  <1>1. TypeOK
    <2>1. SessionTypeOK
      BY DEF Init, SessionInit, SessionTypeOK
    <2>2. drops \in 0 .. WedgeDrops /\ cur \in Seq(Messages) /\ old \in Seq(Messages)
      BY QueueEmpty, TrafficAssumption DEF Init
    <2>. QED BY <2>1, <2>2 DEF Init, TypeOK
  <1>2. OldIsCut
    BY QueueEmpty DEF Init, OldIsCut
  <1>3. GestureHeard
    BY QueueEmpty DEF Init, GestureHeard, Own, Seen
  <1>. QED BY <1>1, <1>2, <1>3 DEF IInv

SessionSteps ==
    \/ Install \/ End \/ UNCHANGED sessionVars
    \/ \E t \in Closers : GiveUp(t) \/ Forget(t)

LEMMA SessionTypes == SessionTypeOK /\ SessionSteps => SessionTypeOK'
  BY DEF SessionTypeOK, SessionSteps, Install, End, GiveUp, Forget, sessionVars

GestureTypes ==
    /\ finger \in [Button -> {"up", "down", "held"}]
    /\ holding \subseteq Button
    /\ heard \in [Button -> {"idle", "pressed", "holding"}]
    /\ cut \subseteq Button

HealthTypes ==
    /\ beats \in BOOLEAN
    /\ lastBeat \in {"never", "recent", "silent"}
    /\ drops \in 0 .. WedgeDrops
    /\ wedgeWarned \in BOOLEAN /\ busWarned \in BOOLEAN

LEMMA DispatchTypes ==
    ASSUME TypeOK, NEW m \in Messages, Dispatch(m)
    PROVE  GestureTypes' /\ HealthTypes'
  <1>. USE TrafficAssumption DEF TypeOK, GestureTypes, HealthTypes
  <1>1. CASE m.kind = "heartbeat"
    <2>1. drops' = 0 \/ drops' = drops
      BY <1>1 DEF Dispatch, Beat
    <2>2. drops' \in 0 .. WedgeDrops
      BY <2>1
    <2>3. wedgeWarned' = FALSE \/ wedgeWarned' = wedgeWarned
      BY <1>1 DEF Dispatch, Beat
    <2>. QED BY <1>1, <2>2, <2>3 DEF Dispatch, Beat, gestureVars
  <1>2. CASE m.kind # "heartbeat"
    <2>1. m \in Reports /\ m.button \in Button /\ Feed(m)
      BY <1>2, ReportTypes DEF Dispatch
    <2>2. Phase(Gesture(m)) \in {"idle", "pressed", "holding"}
      BY <2>1, ReportIsTold
    <2>3. heard' \in [Button -> {"idle", "pressed", "holding"}]
      BY <2>1, <2>2 DEF Feed
    <2>. QED BY <2>1, <2>3 DEF Feed, HoldingAfter, healthVars
  <1>. QED BY <1>1, <1>2

LEMMA TypeStep == TypeOK /\ [Next]_vars => TypeOK'
  <1>. SUFFICES ASSUME TypeOK, [Next]_vars PROVE TypeOK'
    OBVIOUS
  <1>. DEFINE LinkTypes == /\ loop \in {"running", "wedged"}
                           /\ link \in {"none", "new", "greeted"}
                           /\ cur \in Seq(Messages) /\ old \in Seq(Messages)
                           /\ lastSeen \in {"none", "fresh", "stale"}
  <1>0. SessionTypeOK /\ LinkTypes /\ GestureTypes /\ HealthTypes
    BY DEF TypeOK, GestureTypes, HealthTypes
  <1>1. SessionSteps /\ LinkTypes' /\ GestureTypes' /\ HealthTypes' => TypeOK'
    BY <1>0, SessionTypes DEF TypeOK, GestureTypes, HealthTypes
  <1>2. CASE UNCHANGED vars
    BY <1>0, <1>1, <1>2
       DEF vars, gestureVars, healthVars, SessionSteps, GestureTypes, HealthTypes
  <1>3. CASE Read \/ ReadOld
    <2>1. CASE Read
      BY <1>0, <1>1, <2>1, QueueTail, DispatchTypes DEF Read, SessionSteps
    <2>2. CASE ReadOld
      BY <1>0, <1>1, <2>2, QueueTail, DispatchTypes DEF ReadOld, SessionSteps
    <2>. QED BY <1>3, <2>1, <2>2
  <1>4. Retire => cur' \in Seq(Messages) /\ old' \in Seq(Messages)
    BY <1>0, QueueEmpty DEF Retire
  <1>5. Awaited \subseteq Button
    BY AwaitedButtons
  <1>6. CASE Connect
    <2>1. LinkTypes' /\ SessionSteps
      BY <1>0, <1>4, <1>6 DEF Connect, SessionSteps
    <2>2. GestureTypes'
      BY <1>0, <1>5, <1>6 DEF Connect, ResetButtons, GestureTypes
    <2>3. HealthTypes'
      BY <1>0, <1>6 DEF Connect, healthVars, HealthTypes
    <2>. QED BY <1>1, <2>1, <2>2, <2>3
  <1>7. ASSUME Ends, loop' = loop
        PROVE  LinkTypes' /\ SessionSteps /\ GestureTypes' /\ beats' \in BOOLEAN
    <2>1. LinkTypes' /\ SessionSteps
      BY <1>0, <1>4, <1>7 DEF Ends, ForgetSession, SessionSteps
    <2>2. GestureTypes' /\ beats' \in BOOLEAN
      BY <1>0, <1>5, <1>7 DEF Ends, ForgetSession, ResetButtons, GestureTypes
    <2>. QED BY <2>1, <2>2
  <1>8. ASSUME NEW t \in Closers, GivenUp(t), loop' = loop
        PROVE  LinkTypes' /\ SessionSteps /\ GestureTypes' /\ beats' \in BOOLEAN
    <2>1. LinkTypes' /\ SessionSteps
      BY <1>0, <1>4, <1>8 DEF GivenUp, SessionSteps
    <2>2. GestureTypes' /\ beats' \in BOOLEAN
      BY <1>0, <1>5, <1>8 DEF GivenUp, GestureTypes, HealthTypes
    <2>. QED BY <2>1, <2>2
  <1>9. CASE SessionLost
    <2>1. loop' = loop /\ (Ends \/ \E t \in Closers : GivenUp(t))
      BY <1>9 DEF SessionLost
    <2>2. LinkTypes' /\ SessionSteps /\ GestureTypes' /\ beats' \in BOOLEAN
      BY <1>7, <1>8, <2>1
    <2>3. HealthTypes'
      BY <1>0, <1>9, <2>2 DEF SessionLost, HealthTypes
    <2>. QED BY <1>1, <2>2, <2>3
  <1>10. CASE IdleDrop
    <2>1. loop' = loop /\ (Ends \/ \E t \in Closers : GivenUp(t))
      BY <1>10, TrafficAssumption DEF IdleDrop
    <2>2. LinkTypes' /\ SessionSteps /\ GestureTypes' /\ beats' \in BOOLEAN
      BY <1>7, <1>8, <2>1
    <2>3. drops' \in 0 .. WedgeDrops
      <3>1. drops' = IF drops = WedgeDrops THEN drops ELSE drops + 1
        BY <1>10 DEF IdleDrop
      <3>. QED BY <1>0, <3>1, TrafficAssumption DEF HealthTypes
    <2>4. wedgeWarned' \in BOOLEAN /\ lastBeat' = lastBeat /\ busWarned' = busWarned
      BY <1>10 DEF IdleDrop
    <2>5. HealthTypes'
      BY <1>0, <2>2, <2>3, <2>4 DEF HealthTypes
    <2>. QED BY <1>1, <2>2, <2>5
  <1>11. ASSUME NEW t \in Closers, Forgets(t) PROVE TypeOK'
    <2>1. LinkTypes' /\ SessionSteps
      BY <1>0, <1>11 DEF Forgets, ForgetSession, SessionSteps
    <2>2. GestureTypes'
      BY <1>0, <1>11 DEF Forgets, ForgetSession, ResetButtons, GestureTypes
    <2>3. HealthTypes'
      BY <1>0, <1>11 DEF Forgets, ForgetSession, HealthTypes
    <2>. QED BY <1>1, <2>1, <2>2, <2>3
  <1>12. CASE BusWatchdog \/ Silence \/ NoBeats \/ Wedge \/ PowerCycle
    <2>1. LinkTypes' /\ SessionSteps
      BY <1>0, <1>12 DEF BusWatchdog, Silence, NoBeats, Wedge, PowerCycle, SessionSteps
    <2>2. GestureTypes'
      BY <1>0, <1>12 DEF BusWatchdog, Silence, NoBeats, Wedge, PowerCycle, GestureTypes, gestureVars
    <2>3. HealthTypes'
      BY <1>0, <1>12 DEF BusWatchdog, Silence, NoBeats, Wedge, PowerCycle, HealthTypes, healthVars
    <2>. QED BY <1>1, <2>1, <2>2, <2>3
  <1>13. CASE SendBeat
    <2>1. cur' \in Seq(Messages)
      BY <1>0, <1>13, QueueAppend DEF SendBeat, Messages
    <2>2. LinkTypes' /\ SessionSteps
      BY <1>0, <1>13, <2>1 DEF SendBeat, SessionSteps
    <2>3. GestureTypes' /\ HealthTypes'
      BY <1>0, <1>13 DEF SendBeat, gestureVars, healthVars, GestureTypes, HealthTypes
    <2>. QED BY <1>1, <2>2, <2>3
  <1>14. ASSUME NEW b \in Button, PanelReports(b) PROVE TypeOK'
    <2>1. PICK to \in {"up", "down", "held"}, r \in Reports : Moves(b, to, r)
      BY <1>14 DEF PanelReports, Report, Reports
    <2>2. cur' = cur \/ cur' = Append(cur, r)
      BY <2>1 DEF Moves
    <2>3. cur' \in Seq(Messages)
      BY <1>0, <2>2, QueueAppend DEF Messages
    <2>4. LinkTypes' /\ SessionSteps
      BY <1>0, <2>1, <2>3 DEF Moves, SessionSteps
    <2>5. GestureTypes' /\ HealthTypes'
      BY <1>0, <2>1 DEF Moves, healthVars, GestureTypes, HealthTypes
    <2>. QED BY <1>1, <2>4, <2>5
  <1>. QED
    BY <1>2, <1>3, <1>6, <1>9, <1>10, <1>11, <1>12, <1>13, <1>14 DEF Next
-----------------------------------------------------------------------------
(* Gestures.                                                               *)

\* A button of which nothing was cut: what its listeners will be told is what
\* the finger does, and an open hold has its release to come.
Heard(b) ==
    /\ \A i \in DOMAIN old : ~Mine(old[i], b)
    /\ Own(b) = {} => heard[b] = Seen(b)
    /\ \A i \in Own(b) : (\A j \in Own(b) : j <= i) => Told(cur[i]) = Seen(b)
    /\ heard[b] = "holding" => \/ b \in holding
                               \/ \E i \in DOMAIN cur : cur[i] = Report("press", b, Down)

LEMMA HeardIsInvariant ==
    OldIsCut /\ GestureHeard <=>
        /\ \A b \in Button \ cut : Heard(b)
        /\ \A b \in holding : heard[b] = "holding"
  <1>1. ASSUME NEW b, \A i \in DOMAIN old : ~Mine(old[i], b)
        PROVE  Report("press", b, Down) \in OnTheirWay
                 <=> \E i \in DOMAIN cur : cur[i] = Report("press", b, Down)
    <2>1. Mine(Report("press", b, Down), b)
      BY DEF Mine, Report
    <2>. QED BY <1>1, <2>1 DEF OnTheirWay
  <1>. QED BY <1>1 DEF OldIsCut, GestureHeard, Heard

\* The report at the head of the newest socket is read.
LEMMA ReadStep ==
    ASSUME TypeOK, Read, NEW b \in Button, Heard(b)
    PROVE  Heard(b)'
  <1>. DEFINE m == cur[1]
  <1>0. heard \in [Button -> {"idle", "pressed", "holding"}]
    BY DEF TypeOK
  <1>1. /\ Len(cur) \in Nat \ {0} /\ m \in Messages
        /\ DOMAIN cur = 1 .. Len(cur) /\ DOMAIN cur' = 1 .. Len(cur) - 1
        /\ \A i \in 1 .. Len(cur) - 1 : cur'[i] = cur[i + 1]
        /\ Head(cur) = m
    BY QueueTail DEF TypeOK, Read
  <1>2. Dispatch(m) /\ old' = old /\ finger' = finger
    BY <1>1 DEF Read, Dispatch, Beat, Feed, gestureVars
  <1>. HIDE DEF m
  <1>3. \A i \in Own(b)' : i + 1 \in Own(b)
    BY <1>1 DEF Own
  <1>4. \A j \in Own(b) : j # 1 => j - 1 \in Own(b)'
    <2>. SUFFICES ASSUME NEW j \in Own(b), j # 1 PROVE j - 1 \in Own(b)'
      OBVIOUS
    <2>1. j - 1 \in 1 .. Len(cur) - 1 /\ (j - 1) + 1 = j
      BY <1>1 DEF Own
    <2>. QED BY <1>1, <2>1 DEF Own
  <1>5. Seen(b)' = Seen(b)
    BY <1>2 DEF Seen
  <1>6. ASSUME NEW i \in Own(b)', \A j \in Own(b)' : j <= i
        PROVE  Told(cur'[i]) = Seen(b)
    <2>1. i + 1 \in Own(b) /\ i \in 1 .. Len(cur) - 1 /\ cur'[i] = cur[i + 1]
      BY <1>1, <1>3 DEF Own
    <2>2. ASSUME NEW j \in Own(b) PROVE j <= i + 1
      <3>1. j \in 1 .. Len(cur)
        BY <1>1 DEF Own
      <3>2. CASE j # 1
        BY <1>4, <1>6, <2>1, <3>1, <3>2
      <3>. QED BY <2>1, <3>1, <3>2
    <2>. QED BY <2>1, <2>2 DEF Heard
  <1>8. \A i \in Own(b)' : (\A j \in Own(b)' : j <= i) => Told(cur[i])' = Seen(b)'
    BY <1>5, <1>6 DEF Told
  <1>9. CASE ~Mine(m, b)
    <2>1. heard'[b] = heard[b] /\ (b \in holding => b \in holding')
      BY <1>0, <1>1, <1>2, <1>9, ReportTypes
         DEF Dispatch, Beat, Feed, HoldingAfter, gestureVars, Mine
    <2>2. 1 \notin Own(b)
      BY <1>9 DEF Own, Mine, m
    <2>3. Own(b)' = {} => heard'[b] = Seen(b)'
      BY <1>4, <1>5, <2>1, <2>2 DEF Heard
    <2>4. (\E i \in DOMAIN cur : cur[i] = Report("press", b, Down))
            => \E i \in DOMAIN cur' : cur'[i] = Report("press", b, Down)
      <3>. SUFFICES ASSUME NEW i \in DOMAIN cur, cur[i] = Report("press", b, Down)
                    PROVE  \E k \in DOMAIN cur' : cur'[k] = Report("press", b, Down)
        OBVIOUS
      <3>1. i # 1
        BY <1>9 DEF Mine, Report, m
      <3>2. i - 1 \in 1 .. Len(cur) - 1 /\ (i - 1) + 1 = i
        BY <1>1, <3>1
      <3>. QED BY <1>1, <3>2
    <2>. QED BY <1>2, <1>8, <2>1, <2>3, <2>4 DEF Heard
  <1>10. CASE Mine(m, b)
    <2>1. m \in Reports /\ m.button = b /\ Feed(m)
      BY <1>1, <1>2, <1>10, ReportTypes DEF Dispatch, Mine
    <2>2. heard'[b] = Told(m)
      BY <1>0, <2>1, ReportIsTold DEF Feed
    <2>3. Own(b)' = {} => heard'[b] = Seen(b)'
      <3>. SUFFICES ASSUME Own(b)' = {} PROVE Told(m) = Seen(b)
        BY <1>5, <2>2
      <3>1. 1 \in Own(b)
        BY <1>1, <1>10 DEF Own, Mine, m
      <3>2. \A j \in Own(b) : j <= 1
        BY <1>4
      <3>. QED BY <3>1, <3>2 DEF Heard, m
    <2>4. heard'[b] = "holding" => b \in holding'
      BY <2>1, <2>2, ReportIsTold DEF Feed, HoldingAfter
    <2>. QED BY <1>2, <1>8, <2>3, <2>4 DEF Heard
  <1>. QED BY <1>9, <1>10

\* ... and of an older one: it is of a button that was cut.
LEMMA ReadOldStep ==
    ASSUME TypeOK, ReadOld, NEW b \in Button, Heard(b)
    PROVE  Heard(b)'
  <1>. DEFINE m == old[1]
  <1>0. heard \in [Button -> {"idle", "pressed", "holding"}]
    BY DEF TypeOK
  <1>1. /\ m \in Messages /\ Head(old) = m /\ ~Mine(m, b)
        /\ \A i \in DOMAIN old' : ~Mine(old'[i], b)
    <2>1. /\ Len(old) \in Nat \ {0} /\ m \in Messages
          /\ DOMAIN old = 1 .. Len(old) /\ DOMAIN old' = 1 .. Len(old) - 1
          /\ \A i \in 1 .. Len(old) - 1 : old'[i] = old[i + 1]
          /\ Head(old) = m
      BY QueueTail DEF TypeOK, ReadOld
    <2>2. 1 \in DOMAIN old /\ \A i \in DOMAIN old' : i + 1 \in DOMAIN old
      BY <2>1
    <2>. QED BY <2>1, <2>2 DEF Heard
  <1>2. Dispatch(m) /\ cur' = cur /\ finger' = finger
    BY <1>1 DEF ReadOld, Dispatch, Beat, Feed, gestureVars
  <1>. HIDE DEF m
  <1>3. heard'[b] = heard[b] /\ (b \in holding => b \in holding')
    BY <1>0, <1>1, <1>2, ReportTypes
       DEF Dispatch, Beat, Feed, HoldingAfter, gestureVars, Mine
  <1>4. cur' = cur /\ Own(b)' = Own(b) /\ Seen(b)' = Seen(b)
    BY <1>2 DEF Own, Seen
  <1>. QED BY <1>1, <1>3, <1>4 DEF Heard, Told

\* Whatever is read, an open hold is one the listeners heard of.
LEMMA HoldsStep ==
    ASSUME TypeOK, \A b \in holding : heard[b] = "holding", NEW m \in Messages, Dispatch(m)
    PROVE  \A b \in holding' : heard'[b] = "holding"
  <1>1. CASE m.kind = "heartbeat"
    BY <1>1 DEF Dispatch, Beat, gestureVars
  <1>2. CASE m.kind # "heartbeat"
    <2>1. m \in Reports /\ m.button \in Button /\ Feed(m)
      BY <1>2, ReportTypes DEF Dispatch
    <2>2. /\ heard' = [heard EXCEPT ![m.button] = Told(m)]
          /\ Told(m) = "holding" <=> m.kind = "press" /\ m.value = HoldMark
      BY <2>1, ReportIsTold DEF Feed
    <2>. QED BY <2>1, <2>2 DEF TypeOK, Feed, HoldingAfter
  <1>. QED BY <1>1, <1>2

\* Sockets come and go: a button that is spared has nothing on its way.
LEMMA RetireStep ==
    ASSUME Retire, NEW b \in Button, Heard(b), b \notin Awaited,
           UNCHANGED <<finger, heard>>, b \in holding => b \in holding'
    PROVE  Heard(b)'
  <1>1. /\ \A i \in DOMAIN cur : ~Mine(cur[i], b)
        /\ \A i \in DOMAIN old : ~Mine(old[i], b)
    BY AwaitedReports
  <1>2. \A i \in DOMAIN old' : ~Mine(old'[i], b)
    BY <1>1, QueueEmpty DEF Retire
  <1>3. Own(b) = {} /\ Own(b)' = {}
    BY <1>1, QueueEmpty DEF Own, Mine, Retire
  <1>4. ~\E i \in DOMAIN cur : cur[i] = Report("press", b, Down)
    BY <1>1 DEF Mine, Report
  <1>. QED BY <1>2, <1>3, <1>4 DEF Heard, Seen

\* A hold that is open is not spared when the tracker is reset.
LEMMA ResetHeard ==
    ASSUME NEW b, Heard(b), b \notin Awaited, b \notin holding, b \in Button
    PROVE  heard[b] # "holding"
  <1>1. \A i \in DOMAIN cur : ~Mine(cur[i], b)
    BY AwaitedReports
  <1>. QED BY <1>1 DEF Heard, Mine, Report

\* A finger moves, and its report is appended or lost.
LEMMA MovesStep ==
    ASSUME TypeOK, NEW a \in Button, NEW to, NEW r \in Reports, Moves(a, to, r),
           r.button = a,
           Told(r) = CASE to = "up" -> "idle" [] to = "down" -> "pressed"
                       [] to = "held" -> "holding",
           NEW b \in Button, b \notin cut', b \notin cut => Heard(b)
    PROVE  Heard(b)'
  <1>0. finger \in [Button -> {"up", "down", "held"}] /\ cur \in Seq(Messages)
    BY DEF TypeOK
  <1>1. /\ finger' = [finger EXCEPT ![a] = to]
        /\ UNCHANGED <<old, holding, heard>>
    BY DEF Moves
  <1>2. CASE ~(link # "none" /\ loop = "running")
    <2>1. cut' = cut \cup {a} /\ cur' = cur
      BY <1>2 DEF Moves
    <2>2. finger'[b] = finger[b] /\ Heard(b)
      BY <1>0, <1>1, <2>1
    <2>3. Own(b)' = Own(b) /\ Seen(b)' = Seen(b)
      BY <2>1, <2>2 DEF Own, Seen
    <2>4. \A i \in Own(b) : Told(cur[i])' = Told(cur[i])
      BY <2>1 DEF Told
    <2>. QED BY <1>1, <2>1, <2>2, <2>3, <2>4 DEF Heard
  <1>3. CASE link # "none" /\ loop = "running"
    <2>1. cur' = Append(cur, r)
      BY <1>3 DEF Moves
    <2>2. PICK n \in Nat \ {0} :
             /\ DOMAIN cur = 1 .. n - 1 /\ DOMAIN cur' = 1 .. n
             /\ \A i \in 1 .. n - 1 : cur'[i] = cur[i]
             /\ cur'[n] = r
      <3>1. Len(cur) + 1 \in Nat \ {0} /\ (Len(cur) + 1) - 1 = Len(cur)
        BY <1>0
      <3>. QED BY <1>0, <2>1, <3>1, QueueAppend DEF Messages
    <2>3. r.kind # "heartbeat"
      BY ReportTypes DEF Messages, Reports
    <2>4. CASE b = a
      <3>1. \A i \in DOMAIN old : ~Mine(old[i], b)
        BY <1>3, <2>4 DEF Moves, Heard, Mine
      <3>2. n \in Own(b)' /\ \A j \in Own(b)' : j <= n
        BY <2>2, <2>3, <2>4 DEF Own
      <3>3. Told(r) = Seen(b)'
        BY <1>0, <1>1, <2>4 DEF Seen
      <3>4. ASSUME NEW i \in Own(b)', \A j \in Own(b)' : j <= i
            PROVE  Told(cur[i])' = Seen(b)'
        <4>1. i = n
          BY <2>2, <3>2, <3>4 DEF Own
        <4>. QED BY <2>2, <3>3, <4>1 DEF Told
      <3>5. heard[b] = "holding" => \/ b \in holding
                                   \/ \E i \in DOMAIN cur' : cur'[i] = Report("press", b, Down)
        <4>1. CASE b \notin cut
          BY <2>2, <4>1 DEF Heard
        <4>2. CASE b \in cut
          <5>1. r.kind = "press" /\ r.value = Down
            BY <1>3, <4>2 DEF Moves
          <5>2. r = Report("press", b, Down)
            BY <2>4, <5>1 DEF Reports, Report
          <5>. QED BY <2>2, <5>2
        <4>. QED BY <4>1, <4>2
      <3>. QED BY <1>1, <3>1, <3>2, <3>4, <3>5 DEF Heard
    <2>5. CASE b # a
      <3>1. Heard(b) /\ finger'[b] = finger[b]
        BY <1>0, <1>1, <1>3, <2>5 DEF Moves
      <3>2. Own(b)' = Own(b) /\ \A i \in Own(b) : cur'[i] = cur[i]
        BY <2>2, <2>5 DEF Own
      <3>3. \A i \in DOMAIN cur : i \in DOMAIN cur' /\ cur'[i] = cur[i]
        BY <2>2
      <3>4. Seen(b)' = Seen(b)
        BY <3>1 DEF Seen
      <3>5. \A i \in Own(b) : Told(cur[i])' = Told(cur[i])
        BY <3>2 DEF Told
      <3>. QED BY <1>1, <3>1, <3>2, <3>3, <3>4, <3>5 DEF Heard
    <2>. QED BY <2>4, <2>5
  <1>. QED BY <1>2, <1>3

\* The same for every button: what a step has to keep.
Follows == /\ \A b \in Button \ cut : Heard(b)
           /\ \A b \in holding : heard[b] = "holding"

\* The two ways a session's end or replacement treats the tracker.
LEMMA ResetStep ==
    ASSUME TypeOK, Follows, Retire, ResetButtons, cut' = cut \cup holding \cup Awaited
    PROVE  Follows'
  <1>1. ASSUME NEW b \in Button, b \notin cut' PROVE Heard(b)'
    BY <1>1, RetireStep DEF Follows, ResetButtons
  <1>. QED BY <1>1 DEF Follows, ResetButtons

LEMMA FollowsStep == TypeOK /\ Follows /\ [Next]_vars => Follows'
  <1>. SUFFICES ASSUME TypeOK, Follows, [Next]_vars PROVE Follows'
    OBVIOUS
  <1>0. holding \subseteq Button /\ cur \in Seq(Messages)
    BY DEF TypeOK
  <1>1. ASSUME UNCHANGED <<cur, old, finger, holding, heard, cut>> PROVE Follows'
    <2>1. ASSUME NEW b \in Button, Heard(b) PROVE Heard(b)'
      <3>1. Own(b)' = Own(b) /\ Seen(b)' = Seen(b) /\ \A i : Told(cur[i])' = Told(cur[i])
        BY <1>1 DEF Own, Seen, Told
      <3>. QED BY <1>1, <2>1, <3>1 DEF Heard
    <2>. QED BY <1>1, <2>1 DEF Follows
  <1>2. CASE Read
    <2>1. Head(cur) \in Messages /\ Dispatch(Head(cur)) /\ cut' = cut
      BY <1>0, <1>2, QueueTail DEF Read, Dispatch, Beat, Feed, gestureVars
    <2>. QED BY <1>2, <2>1, ReadStep, HoldsStep DEF Follows
  <1>3. CASE ReadOld
    <2>1. Head(old) \in Messages /\ Dispatch(Head(old)) /\ cut' = cut
      BY <1>3, QueueTail DEF TypeOK, ReadOld, Dispatch, Beat, Feed, gestureVars
    <2>. QED BY <1>3, <2>1, ReadOldStep, HoldsStep DEF Follows
  <1>4. CASE Connect
    BY <1>4, ResetStep DEF Connect
  <1>5. ASSUME Ends PROVE Follows'
    BY <1>5, ResetStep DEF Ends, ForgetSession
  <1>6. ASSUME NEW t \in Closers, GivenUp(t) PROVE Follows'
    <2>1. ASSUME NEW b \in Button, b \notin cut' PROVE Heard(b)'
      BY <1>6, <2>1, RetireStep DEF Follows, GivenUp
    <2>. QED BY <1>6, <2>1 DEF Follows, GivenUp
  <1>7. CASE SessionLost \/ IdleDrop
    BY <1>5, <1>6, <1>7, TrafficAssumption DEF SessionLost, IdleDrop
  <1>8. ASSUME NEW t \in Closers, Forgets(t) PROVE Follows'
    <2>1. /\ cut' = cut \cup holding /\ holding' = {}
          /\ UNCHANGED <<cur, old, finger, heard>>
      BY <1>8 DEF Forgets, ForgetSession, ResetButtons
    <2>2. ASSUME NEW b \in Button, b \notin cut' PROVE Heard(b)'
      <3>1. Heard(b) /\ b \notin holding
        BY <2>1, <2>2 DEF Follows
      <3>2. Own(b)' = Own(b) /\ Seen(b)' = Seen(b) /\ \A i : Told(cur[i])' = Told(cur[i])
        BY <2>1 DEF Own, Seen, Told
      <3>. QED BY <2>1, <3>1, <3>2 DEF Heard
    <2>. QED BY <2>1, <2>2 DEF Follows
  <1>9. CASE BusWatchdog \/ Silence \/ NoBeats \/ Wedge \/ PowerCycle \/ UNCHANGED vars
    BY <1>1, <1>9 DEF BusWatchdog, Silence, NoBeats, Wedge, PowerCycle, gestureVars, vars
  <1>10. CASE SendBeat
    <2>1. cur' = Append(cur, Heartbeat) /\ UNCHANGED <<old, finger, holding, heard, cut>>
      BY <1>10 DEF SendBeat, gestureVars
    <2>2. /\ DOMAIN cur = 1 .. Len(cur) /\ DOMAIN cur' = 1 .. Len(cur) + 1
          /\ Len(cur) \in Nat
          /\ \A i \in 1 .. Len(cur) : cur'[i] = cur[i]
          /\ cur'[Len(cur) + 1] = Heartbeat
      BY <1>0, <2>1, QueueAppend DEF Messages
    <2>3. Heartbeat.kind = "heartbeat"
      BY DEF Heartbeat
    <2>4. ASSUME NEW b \in Button, Heard(b) PROVE Heard(b)'
      <3>1. /\ Own(b)' = Own(b)
            /\ \A i \in DOMAIN cur : i \in DOMAIN cur' /\ cur'[i] = cur[i]
        BY <2>2, <2>3 DEF Own
      <3>2. Seen(b)' = Seen(b) /\ \A i \in Own(b) : Told(cur[i])' = Told(cur[i])
        BY <2>1, <3>1 DEF Seen, Told, Own
      <3>. QED BY <2>1, <2>4, <3>1, <3>2 DEF Heard
    <2>. QED BY <2>1, <2>4 DEF Follows
  <1>11. ASSUME NEW a \in Button, PanelReports(a) PROVE Follows'
    <2>. DEFINE Phases(to) == CASE to = "up" -> "idle" [] to = "down" -> "pressed"
                                [] to = "held" -> "holding"
    <2>1. \E to, r : /\ r \in Reports /\ r.button = a /\ Moves(a, to, r)
                     /\ Told(r) = Phases(to)
      <3>1. Report("press", a, Down) \in Reports /\ Told(Report("press", a, Down)) = "pressed"
        BY DEF Report, Reports, Told, Down, HoldMark
      <3>2. ASSUME NEW n \in Counts
            PROVE  Report("press", a, n) \in Reports /\ Told(Report("press", a, n)) = "idle"
        BY TrafficAssumption DEF Report, Reports, Told, Down, HoldMark
      <3>3. Report("press", a, HoldMark) \in Reports
            /\ Told(Report("press", a, HoldMark)) = "holding"
        BY DEF Report, Reports, Told, Down, HoldMark
      <3>4. Report("release", a, 0) \in Reports /\ Told(Report("release", a, 0)) = "idle"
        BY DEF Report, Reports, Told
      <3>5. \A k, v : Report(k, a, v).button = a
        BY DEF Report
      <3>6. Phases("up") = "idle" /\ Phases("down") = "pressed" /\ Phases("held") = "holding"
        OBVIOUS
      <3>. HIDE DEF Phases
      <3>7. CASE finger[a] = "up" /\ Moves(a, "down", Report("press", a, Down))
        BY <3>1, <3>5, <3>6, <3>7
      <3>8. ASSUME NEW n \in Counts, Moves(a, "up", Report("press", a, n))
            PROVE \E to, r : /\ r \in Reports /\ r.button = a /\ Moves(a, to, r)
                             /\ Told(r) = Phases(to)
        BY <3>2, <3>5, <3>6, <3>8
      <3>9. CASE Moves(a, "held", Report("press", a, HoldMark))
        BY <3>3, <3>5, <3>6, <3>9
      <3>10. CASE Moves(a, "up", Report("release", a, 0))
        BY <3>4, <3>5, <3>6, <3>10
      <3>. QED BY <1>11, <3>7, <3>8, <3>9, <3>10 DEF PanelReports
    <2>2. PICK to, r : /\ r \in Reports /\ r.button = a /\ Moves(a, to, r)
                       /\ Told(r) = Phases(to)
      BY <2>1
    <2>3. ASSUME NEW b \in Button, b \notin cut' PROVE Heard(b)'
      BY <2>2, <2>3, MovesStep DEF Follows
    <2>4. UNCHANGED <<holding, heard>>
      BY <2>2 DEF Moves
    <2>. QED BY <2>3, <2>4 DEF Follows
  <1>. QED
    BY <1>2, <1>3, <1>4, <1>7, <1>8, <1>9, <1>10, <1>11 DEF Next
-----------------------------------------------------------------------------
\* The types, and what every button's listeners know, are an inductive
\* invariant.
THEOREM Inductive == Spec => []IInv
  <1>1. IInv /\ [Next]_vars => IInv'
    <2>1. IInv <=> TypeOK /\ Follows
      BY HeardIsInvariant DEF IInv, Follows
    <2>2. TypeOK /\ Follows /\ [Next]_vars => (TypeOK /\ Follows)'
      BY TypeStep, FollowsStep
    <2>3. (TypeOK /\ Follows)' => IInv'
      <3>1. TypeOK /\ Follows => IInv
        BY <2>1
      <3>. QED BY <3>1, HeardIsInvariant, PTL
    <2>. QED BY <2>1, <2>2, <2>3
  <1>. QED BY <1>1, InitHolds, PTL DEF Spec

\* Every variable keeps its type; the count of drops goes no further than it
\* has to.
THEOREM TypeCorrect == Spec => []TypeOK
  BY Inductive, PTL DEF IInv

\* A gesture of which nothing was lost is heard as it was made, over
\* reconnections, replaced sockets and reports read late.
THEOREM GestureIsHeard == Spec => []GestureHeard
  BY Inductive, PTL DEF IInv

\* No verdict on the gateway outlives its grounds, and no announced session
\* escapes the watchdog's clock (_dispatch, _idle_watchdog, _close_session).
THEOREM NoVerdictWithoutGrounds == Spec => []VerdictsHaveGrounds
  <1>. USE TrafficAssumption DEF VerdictsHaveGrounds
  <1>1. Init => VerdictsHaveGrounds
    BY DEF Init, SessionInit
  <1>2. ASSUME TypeOK, VerdictsHaveGrounds, [Next]_vars PROVE VerdictsHaveGrounds'
    <2>1. ASSUME NEW m, Dispatch(m), lastSeen' = "fresh", UNCHANGED sessionVars
          PROVE  VerdictsHaveGrounds'
      <3>1. CASE Beat
        BY <1>2, <2>1, <3>1 DEF Beat
      <3>2. CASE Feed(m)
        BY <1>2, <2>1, <3>2 DEF Feed, healthVars
      <3>. QED BY <2>1, <3>1, <3>2 DEF Dispatch
    <2>2. CASE Read \/ ReadOld
      BY <2>1, <2>2 DEF Read, ReadOld
    <2>3. CASE Connect
      BY <1>2, <2>3 DEF Connect, Install, healthVars
    <2>4. ASSUME Ends \/ \E t \in Closers : GivenUp(t)
          PROVE  announced' => lastSeen' # "none"
      BY <1>2, <2>4 DEF Ends, GivenUp, End, GiveUp
    <2>5. CASE SessionLost
      BY <1>2, <2>4, <2>5 DEF SessionLost
    <2>6. CASE IdleDrop
      <3>1. announced' => lastSeen' # "none"
        BY <2>4, <2>6 DEF IdleDrop
      <3>2. wedgeWarned' <=> drops' = WedgeDrops
        <4>1. /\ drops + 1 >= WedgeDrops <=> drops' = WedgeDrops
              /\ drops = WedgeDrops => drops' = WedgeDrops
          BY <1>2, <2>6 DEF IdleDrop, TypeOK
        <4>2. wedgeWarned' = (wedgeWarned \/ drops + 1 >= WedgeDrops)
          BY <2>6 DEF IdleDrop
        <4>3. wedgeWarned <=> drops = WedgeDrops
          BY <1>2
        <4>. QED BY <4>1, <4>2, <4>3, Zenon
      <3>. QED BY <1>2, <2>6, <3>1, <3>2 DEF IdleDrop
    <2>7. ASSUME NEW t \in Closers, Forgets(t) PROVE VerdictsHaveGrounds'
      BY <1>2, <2>7 DEF Forgets, Forget
    <2>8. CASE BusWatchdog \/ Silence \/ NoBeats
      BY <1>2, <2>8 DEF BusWatchdog, Silence, NoBeats, healthVars, sessionVars
    <2>9. CASE SendBeat \/ Wedge \/ PowerCycle \/ UNCHANGED vars
      BY <1>2, <2>9 DEF SendBeat, Wedge, PowerCycle, vars, healthVars, sessionVars
    <2>10. ASSUME NEW b \in Button, PanelReports(b) PROVE VerdictsHaveGrounds'
      BY <1>2, <2>10 DEF PanelReports, Moves, healthVars, sessionVars
    <2>. QED BY <1>2, <2>2, <2>3, <2>5, <2>6, <2>7, <2>8, <2>9, <2>10 DEF Next
  <1>. QED BY <1>1, <1>2, TypeCorrect, PTL DEF Spec

\* Every step of the traffic is one the session allows, or none of its: what
\* is shown of the session by its own implementation is not undone here.
THEOREM SessionImplemented == Spec => SessionSpec
  <1>1. Init => SessionInit
    BY DEF Init
  <1>2. [Next]_vars => [SessionNext]_sessionVars
    <2>. SUFFICES ASSUME [Next]_vars PROVE SessionNext \/ UNCHANGED sessionVars
      OBVIOUS
    <2>1. CASE Read \/ ReadOld \/ BusWatchdog \/ Silence \/ NoBeats \/ SendBeat \/ Wedge
               \/ PowerCycle \/ UNCHANGED vars
      BY <2>1 DEF Read, ReadOld, BusWatchdog, Silence, NoBeats, SendBeat, Wedge, PowerCycle, vars
    <2>2. ASSUME NEW b \in Button, PanelReports(b) PROVE UNCHANGED sessionVars
      BY <2>2 DEF PanelReports, Moves
    <2>3. CASE Connect
      BY <2>3 DEF Connect, SessionNext
    <2>4. ASSUME Ends \/ \E t \in Closers : GivenUp(t) PROVE SessionNext
      BY <2>4 DEF Ends, GivenUp, SessionNext
    <2>5. CASE SessionLost \/ IdleDrop
      BY <2>4, <2>5, TrafficAssumption DEF SessionLost, IdleDrop
    <2>6. ASSUME NEW t \in Closers, Forgets(t) PROVE SessionNext
      BY <2>6 DEF Forgets, SessionNext
    <2>. QED BY <2>1, <2>2, <2>3, <2>5, <2>6 DEF Next
  <1>. QED BY <1>1, <1>2, PTL DEF Spec, SessionSpec
-----------------------------------------------------------------------------
(* How the messages of a session get here (Wire).  The bytes that wait in  *)
(* the buffer and those not read yet are a piece of the stream of frames   *)
(* with nothing left out, Stream: a cut drops bytes at its beginning, a    *)
(* read moves the place between the two.  In such a piece, the object a    *)
(* line holds is the one its own separator ends, and an object that is     *)
(* whole in the buffer is found; all that is left to say is what has been  *)
(* read of a frame that is not too long is not cut (Held).                 *)
-----------------------------------------------------------------------------
(* The frames of a stream: finite sets of numbers, and their order.        *)

LEMMA LeastNumber ==
    ASSUME NEW S \in SUBSET Nat, S # {}
    PROVE  \E x \in S : \A y \in S : x <= y
  <1>. DEFINE R == OpToRel(<, Nat)
  <1>1. IsWellFoundedOn(R, Nat)
    BY NatLessThanWellFounded
  <1>. HIDE DEF R
  <1>2. PICK x \in S : \A y \in S : ~(<<y, x>> \in R)
    BY <1>1, WFMin
  <1>3. \A y \in S : <<y, x>> \in R <=> y < x
    BY DEF R, OpToRel
  <1>4. ASSUME NEW y \in S PROVE x <= y
    <2>1. ~(y < x) /\ x \in Nat /\ y \in Nat
      BY <1>2, <1>3
    <2>. QED BY <2>1
  <1>. QED BY <1>4

\* A set of positions that is not empty has a last one.
LEMMA LastPosition ==
    ASSUME NEW n \in Nat, NEW S \in SUBSET (1 .. n), S # {}
    PROVE  Max(S) \in S /\ \A x \in S : x <= Max(S)
  <1>. DEFINE B == {b \in Nat : \A x \in S : x <= b}
  <1>1. B \in SUBSET Nat /\ n \in B
    OBVIOUS
  <1>2. PICK m \in B : \A b \in B : m <= b
    BY <1>1, LeastNumber
  <1>3. m \in S
    <2>1. SUFFICES ASSUME m \notin S PROVE FALSE
      OBVIOUS
    <2>2. m # 0
      <3>1. PICK x \in S : x \in 1 .. n
        OBVIOUS
      <3>2. x <= m
        BY <3>1
      <3>. QED BY <3>1, <3>2
    <2>3. m - 1 \in Nat /\ \A x \in S : x <= m - 1
      BY <2>1, <2>2
    <2>4. m - 1 \in B
      BY <2>3
    <2>. QED BY <1>2, <2>4
  <1>4. \E m1 \in S : \A x \in S : m1 >= x
    BY <1>3
  <1>5. Max(S) \in S /\ \A x \in S : Max(S) >= x
    <2>. HIDE DEF B
    <2>. QED BY <1>4, Zenon DEF Max
  <1>. QED BY <1>5

\* q lists S in ascending order.
Ascends(q, S) ==
    /\ q \in [1 .. Cardinality(S) -> S]
    /\ \A m, n \in DOMAIN q : m < n => q[m] < q[n]
    /\ \A x \in S : \E n \in DOMAIN q : q[n] = x

LEMMA PositionsFinite ==
    ASSUME NEW n \in Nat, NEW S \in SUBSET (1 .. n)
    PROVE  IsFiniteSet(S) /\ Cardinality(S) \in Nat
  <1>1. IsFiniteSet(1 .. n)
    BY FS_Interval
  <1>2. IsFiniteSet(S)
    BY <1>1, FS_Subset
  <1>. QED BY <1>2, FS_CardinalityType

\* Adding a number beyond the others adds it to the end of their list.
LEMMA AscendsOneMore ==
    ASSUME NEW n \in Nat, NEW S \in SUBSET (1 .. n), NEW q, Ascends(q, S)
    PROVE  \E r : Ascends(r, S \cup {n + 1})
  <1>. DEFINE c == Cardinality(S)
              T == S \cup {n + 1}
              r == [m \in 1 .. c + 1 |-> IF m = c + 1 THEN n + 1 ELSE q[m]]
  <1>1. IsFiniteSet(S) /\ c \in Nat
    BY PositionsFinite
  <1>2. n + 1 \notin S
    OBVIOUS
  <1>3. Cardinality(T) = c + 1
    <2>. HIDE DEF T
    <2>. QED BY <1>1, <1>2, FS_AddElement DEF T
  <1>. HIDE DEF c
  <1>4. q \in [1 .. c -> S]
    BY DEF Ascends, c
  <1>5. r \in [1 .. Cardinality(T) -> T]
    <2>1. \A m \in 1 .. c + 1 : r[m] \in T
      <3>. TAKE m \in 1 .. c + 1
      <3>1. CASE m = c + 1
        BY <3>1
      <3>2. CASE m # c + 1
        BY <1>1, <1>4, <3>2
      <3>. QED BY <3>1, <3>2
    <2>. HIDE DEF T
    <2>. QED BY <1>3, <2>1
  <1>6. \A m, k \in DOMAIN r : m < k => r[m] < r[k]
    <2>. TAKE m, k \in DOMAIN r
    <2>1. CASE k = c + 1 /\ m < k
      <3>1. m \in 1 .. c /\ m # c + 1 /\ k \in 1 .. c + 1
        BY <1>1, <2>1
      <3>2. r[k] = n + 1 /\ r[m] = q[m]
        BY <2>1, <3>1
      <3>3. q[m] \in 1 .. n
        BY <1>4, <3>1
      <3>. QED BY <3>2, <3>3
    <2>2. CASE k # c + 1
      BY <1>1, <1>4, <2>2 DEF Ascends, c
    <2>. QED BY <1>1, <2>1, <2>2
  <1>7. \A x \in T : \E m \in DOMAIN r : r[m] = x
    <2>. TAKE x \in T
    <2>1. CASE x \in S
      <3>1. PICK m \in DOMAIN q : q[m] = x
        BY <2>1 DEF Ascends
      <3>2. m \in DOMAIN r /\ r[m] = x
        BY <1>1, <1>4, <3>1
      <3>. QED BY <3>2
    <2>2. CASE x = n + 1
      <3>1. c + 1 \in DOMAIN r /\ r[c + 1] = x
        BY <1>1, <2>2
      <3>. QED BY <3>1
    <2>. QED BY <2>1, <2>2
  <1>8. Ascends(r, T)
    <2>. HIDE DEF r, T
    <2>. QED BY <1>5, <1>6, <1>7 DEF Ascends
  <1>. QED BY <1>8

\* Every set of positions has such a list: of those that had none, one has
\* the least bound.
LEMMA AscendingExists ==
    ASSUME NEW n \in Nat, NEW S \in SUBSET (1 .. n)
    PROVE  \E q : Ascends(q, S)
  <1>. DEFINE Listed(k) == \A T \in SUBSET (1 .. k) : \E q : Ascends(q, T)
              Bad == {k \in Nat : ~Listed(k)}
  <1>. SUFFICES ASSUME Bad # {} PROVE FALSE
    OBVIOUS
  <1>1. PICK k \in Bad : \A j \in Bad : k <= j
    BY LeastNumber
  <1>2. PICK T \in SUBSET (1 .. k) : \A q : ~Ascends(q, T)
    BY <1>1
  <1>3. T # {}
    <2>. SUFFICES ASSUME T = {} PROVE FALSE
      OBVIOUS
    <2>1. Ascends(<<>>, {})
      BY FS_EmptySet DEF Ascends
    <2>. QED BY <1>2, <2>1
  <1>4. k # 0
    <2>1. PICK x \in T : x \in 1 .. k
      BY <1>3
    <2>. QED BY <2>1
  <1>5. k - 1 \in Nat /\ k - 1 \notin Bad
    BY <1>1, <1>4
  <1>6. Listed(k - 1)
    BY <1>5
  <1>. DEFINE U == T \ {k}
  <1>7. U \in SUBSET (1 .. k - 1)
    BY <1>5
  <1>8. PICK q : Ascends(q, U)
    BY <1>6, <1>7
  <1>9. CASE k \in T
    <2>1. T = U \cup {(k - 1) + 1}
      BY <1>5, <1>9
    <2>2. \E r : Ascends(r, U \cup {(k - 1) + 1})
      <3>. HIDE DEF U, Bad, Listed
      <3>. QED BY <1>5, <1>7, <1>8, AscendsOneMore
    <2>. HIDE DEF U
    <2>. QED BY <1>2, <2>1, <2>2
  <1>10. CASE k \notin T
    <2>1. T = U
      BY <1>10
    <2>. QED BY <1>2, <1>8, <2>1
  <1>. QED BY <1>9, <1>10

LEMMA SameCount == \A S : C!Cardinality(S) = Cardinality(S)
  BY DEF C!Cardinality, Cardinality

LEMMA InOrderAscends ==
    ASSUME NEW n \in Nat, NEW S \in SUBSET (1 .. n)
    PROVE  Ascends(C!InOrder(S), S)
  <1>1. PICK q : Ascends(q, S)
    BY AscendingExists
  <1>. DEFINE c == Cardinality(S)
              Good(f) == /\ \A m, k \in DOMAIN f : m < k => f[m] < f[k]
                         /\ \A x \in S : \E m \in DOMAIN f : f[m] = x
  <1>2. \A f : Ascends(f, S) <=> f \in [1 .. c -> S] /\ Good(f)
    BY DEF Ascends
  <1>3. C!InOrder(S) = CHOOSE f \in [1 .. c -> S] : Good(f)
    BY SameCount, Zenon DEF C!InOrder
  <1>. HIDE DEF Good, c
  <1>4. \E f \in [1 .. c -> S] : Good(f)
    BY <1>1, <1>2
  <1>5. C!InOrder(S) \in [1 .. c -> S] /\ Good(C!InOrder(S))
    BY <1>3, <1>4, Zenon
  <1>. QED BY <1>2, <1>5

\* ... and only one.
LEMMA AscendingUnique ==
    ASSUME NEW n \in Nat, NEW S \in SUBSET (1 .. n), NEW q, NEW r, Ascends(q, S), Ascends(r, S)
    PROVE  q = r
  <1>. DEFINE c == Cardinality(S)
              Differs == {m \in 1 .. c : q[m] # r[m]}
  <1>1. c \in Nat
    BY PositionsFinite
  <1>. HIDE DEF c
  <1>2. q \in [1 .. c -> S] /\ r \in [1 .. c -> S]
    BY DEF Ascends, c
  <1>. SUFFICES ASSUME q # r PROVE FALSE
    OBVIOUS
  <1>. Differs # {}
    <2>1. PICK m \in 1 .. c : q[m] # r[m]
      <3>. HIDE DEF Differs
      <3>. DEFINE D == 1 .. c
      <3>1. q \in [D -> S] /\ r \in [D -> S]
        BY <1>2
      <3>. SUFFICES ASSUME \A m \in D : q[m] = r[m] PROVE FALSE
        OBVIOUS
      <3>. HIDE DEF D
      <3>2. q = r
        BY <3>1
      <3>. QED BY <3>2
    <2>. QED BY <2>1
  <1>. S \subseteq Nat
    OBVIOUS
  <1>. Differs \in SUBSET Nat
    BY <1>1
  <1>3. PICK m \in Differs : \A k \in Differs : m <= k
    <2>. HIDE DEF Differs
    <2>. QED BY LeastNumber
  <1>4. \A k \in 1 .. c : k < m => q[k] = r[k]
    BY <1>1, <1>3
  <1>5. ASSUME NEW f, NEW g, Ascends(f, S), Ascends(g, S), f[m] < g[m],
               \A k \in 1 .. c : k < m => f[k] = g[k]
        PROVE  FALSE
    <2>1. f \in [1 .. c -> S] /\ g \in [1 .. c -> S] /\ m \in 1 .. c
      BY <1>3, <1>5 DEF Ascends, c
    <2>a. f[m] \in Nat /\ g[m] \in Nat
      <3>1. f[m] \in S /\ g[m] \in S
        BY <2>1
      <3>. HIDE DEF Differs
      <3>. QED BY <3>1
    <2>2. PICK k \in DOMAIN g : g[k] = f[m]
      BY <1>5, <2>1 DEF Ascends
    <2>3. CASE k < m
      <3>1. f[k] = f[m] /\ f[k] < f[m]
        BY <1>5, <2>1, <2>2, <2>3 DEF Ascends
      <3>. QED BY <2>a, <3>1
    <2>4. CASE k = m
      BY <1>5, <2>2, <2>4, <2>a
    <2>5. CASE k > m
      <3>1. g[m] < g[k]
        BY <1>5, <2>1, <2>5, <2>2 DEF Ascends
      <3>. QED BY <1>5, <2>2, <2>a, <3>1
    <2>. QED BY <1>1, <2>1, <2>2, <2>3, <2>4, <2>5
  <1>6. q[m] \in Nat /\ r[m] \in Nat /\ q[m] # r[m]
    <2>1. m \in 1 .. c /\ q[m] # r[m]
      BY <1>3
    <2>2. q[m] \in S /\ r[m] \in S
      BY <1>2, <2>1
    <2>. HIDE DEF Differs
    <2>. QED BY <2>1, <2>2
  <1>7. CASE q[m] < r[m]
    BY <1>4, <1>5, <1>7
  <1>8. CASE r[m] < q[m]
    BY <1>4, <1>5, <1>8
  <1>. QED BY <1>6, <1>7, <1>8

-----------------------------------------------------------------------------
(* Bytes on their way.                                                     *)

Pair == Nat \X Nat

IsByte(b, fs) == b \in Pair /\ b[1] \in DOMAIN fs /\ b[2] \in 1 .. fs[b[1]].length + 2
IsEnd(b, fs) == b[2] = fs[b[1]].length + 2

\* s is a piece of the stream of the frames fs, with nothing left out.
Ordered(s) ==
    \A p, q \in DOMAIN s : p < q =>
        \/ s[p][1] < s[q][1]
        \/ s[p][1] = s[q][1] /\ s[q][2] - s[p][2] = q - p

Runs(s) ==
    \A p \in DOMAIN s, d \in Nat :
        d < s[p][2] /\ d < p => s[p - d] = <<s[p][1], s[p][2] - d>>

Begins(s, fs) == \A p \in DOMAIN s : p > 1 /\ s[p][2] = 1 => IsEnd(s[p - 1], fs)

Gapless(s, fs) ==
    \A p, q \in DOMAIN s, x \in DOMAIN fs :
        p < q /\ s[p][1] <= x /\ x < s[q][1] =>
            \E r \in p .. q - 1 : s[r][1] = x /\ IsEnd(s[r], fs)

Contiguous(s, fs) ==
    /\ \A p \in DOMAIN s : IsByte(s[p], fs)
    /\ Ordered(s) /\ Runs(s) /\ Begins(s, fs) /\ Gapless(s, fs)

\* t is what is left of s without its first m bytes and some of its last.
Piece(t, s, m) ==
    /\ m \in Nat
    /\ s \in Seq(Pair) /\ t \in Seq(Pair)
    /\ m + Len(t) <= Len(s)
    /\ \A p \in DOMAIN t : t[p] = s[p + m]

LEMMA SeqTypes ==
    ASSUME NEW T, NEW s \in Seq(T)
    PROVE  /\ Len(s) \in Nat /\ DOMAIN s = 1 .. Len(s)
           /\ \A p \in DOMAIN s : p \in Nat \ {0} /\ p <= Len(s) /\ s[p] \in T
  OBVIOUS

LEMMA PieceTypes ==
    ASSUME NEW s, NEW t, NEW m, Piece(t, s, m)
    PROVE  /\ m \in Nat /\ Len(s) \in Nat /\ Len(t) \in Nat /\ m + Len(t) <= Len(s)
           /\ DOMAIN t = 1 .. Len(t) /\ DOMAIN s = 1 .. Len(s)
           /\ \A p \in DOMAIN t : p \in Nat \ {0} /\ p + m \in DOMAIN s /\ t[p] = s[p + m]
  <1>1. m \in Nat /\ s \in Seq(Pair) /\ t \in Seq(Pair) /\ m + Len(t) <= Len(s)
    BY DEF Piece
  <1>2. /\ Len(s) \in Nat /\ DOMAIN s = 1 .. Len(s)
        /\ Len(t) \in Nat /\ DOMAIN t = 1 .. Len(t)
    BY <1>1, SeqTypes
  <1>3. ASSUME NEW p \in DOMAIN t
        PROVE  p \in Nat \ {0} /\ p + m \in DOMAIN s /\ t[p] = s[p + m]
    <2>1. p \in Nat \ {0} /\ p + m \in 1 .. Len(s)
      BY <1>1, <1>2
    <2>. QED BY <1>2, <2>1 DEF Piece
  <1>. QED BY <1>1, <1>2, <1>3

LEMMA PieceIsContiguous ==
    ASSUME NEW fs, NEW s, NEW t, NEW m, Contiguous(s, fs), Piece(t, s, m)
    PROVE  Contiguous(t, fs)
  <1>1. /\ m \in Nat /\ Len(s) \in Nat /\ Len(t) \in Nat /\ m + Len(t) <= Len(s)
        /\ DOMAIN t = 1 .. Len(t) /\ DOMAIN s = 1 .. Len(s)
        /\ \A p \in DOMAIN t : p \in Nat \ {0} /\ p + m \in DOMAIN s /\ t[p] = s[p + m]
    BY PieceTypes
  <1>2. \A p \in DOMAIN t : IsByte(t[p], fs)
    BY <1>1 DEF Contiguous
  <1>3. Ordered(t)
    <2>1. ASSUME NEW p \in DOMAIN t, NEW q \in DOMAIN t, p < q
          PROVE  \/ t[p][1] < t[q][1]
                 \/ t[p][1] = t[q][1] /\ t[q][2] - t[p][2] = q - p
      <3>1. p + m \in DOMAIN s /\ q + m \in DOMAIN s /\ t[p] = s[p + m] /\ t[q] = s[q + m]
        BY <1>1
      <3>2. p + m < q + m /\ (q + m) - (p + m) = q - p
        BY <1>1, <2>1
      <3>3. \/ s[p + m][1] < s[q + m][1]
            \/ s[p + m][1] = s[q + m][1] /\ s[q + m][2] - s[p + m][2] = (q + m) - (p + m)
        BY <3>1, <3>2 DEF Contiguous, Ordered
      <3>. QED BY <3>1, <3>2, <3>3
    <2>. QED BY <2>1 DEF Ordered
  <1>4. Runs(t)
    <2>1. ASSUME NEW p \in DOMAIN t, NEW d \in Nat, d < t[p][2], d < p
          PROVE  t[p - d] = <<t[p][1], t[p][2] - d>>
      <3>1. p \in Nat \ {0} /\ p <= Len(t)
        BY <1>1
      <3>2. p - d \in 1 .. Len(t) /\ (p - d) + m = (p + m) - d /\ d < p + m
        BY <1>1, <2>1, <3>1
      <3>3. s[(p + m) - d] = <<s[p + m][1], s[p + m][2] - d>>
        BY <1>1, <2>1, <3>2 DEF Contiguous, Runs
      <3>4. t[p - d] = s[(p - d) + m] /\ t[p] = s[p + m]
        BY <1>1, <3>2
      <3>. QED BY <3>2, <3>3, <3>4
    <2>. QED BY <2>1 DEF Runs
  <1>5. Begins(t, fs)
    <2>1. ASSUME NEW p \in DOMAIN t, p > 1, t[p][2] = 1
          PROVE  IsEnd(t[p - 1], fs)
      <3>1. p \in Nat \ {0} /\ p <= Len(t)
        BY <1>1
      <3>a. p > 1 /\ Len(t) \in Nat /\ m \in Nat
        BY <1>1, <2>1
      <3>2. p - 1 \in 1 .. Len(t) /\ (p - 1) + m = (p + m) - 1 /\ p + m > 1
        BY <3>1, <3>a
      <3>3. IsEnd(s[(p + m) - 1], fs)
        BY <1>1, <2>1, <3>2 DEF Contiguous, Begins
      <3>4. t[p - 1] = s[(p - 1) + m]
        BY <1>1, <3>2
      <3>. QED BY <3>2, <3>3, <3>4
    <2>. QED BY <2>1 DEF Begins
  <1>6. Gapless(t, fs)
    <2>1. ASSUME NEW p \in DOMAIN t, NEW q \in DOMAIN t, NEW x \in DOMAIN fs,
                 p < q, t[p][1] <= x, x < t[q][1]
          PROVE  \E r \in p .. q - 1 : t[r][1] = x /\ IsEnd(t[r], fs)
      <3>1. p + m < q + m /\ p \in Nat \ {0} /\ q \in Nat /\ q <= Len(t)
        BY <1>1, <2>1
      <3>2. PICK r \in p + m .. (q + m) - 1 : s[r][1] = x /\ IsEnd(s[r], fs)
        BY <1>1, <2>1, <3>1 DEF Contiguous, Gapless
      <3>3. r - m \in p .. q - 1 /\ r - m \in 1 .. Len(t) /\ (r - m) + m = r
        BY <1>1, <3>1, <3>2
      <3>4. t[r - m] = s[r]
        BY <1>1, <3>3
      <3>. QED BY <3>2, <3>3, <3>4
    <2>. QED BY <2>1 DEF Gapless
  <1>. QED BY <1>2, <1>3, <1>4, <1>5, <1>6 DEF Contiguous

LEMMA SubSeqIsPiece ==
    ASSUME NEW s \in Seq(Pair), NEW a \in Nat, NEW b \in Nat, a <= b, b <= Len(s)
    PROVE  Piece(SubSeq(s, a + 1, b), s, a) /\ Len(SubSeq(s, a + 1, b)) = b - a
  BY DEF Piece

LEMMA PieceOfPiece ==
    ASSUME NEW s, NEW t, NEW u, NEW m, NEW k, Piece(t, s, m), Piece(u, t, k)
    PROVE  Piece(u, s, m + k)
  <1>1. /\ m \in Nat /\ k \in Nat /\ Len(s) \in Nat /\ Len(t) \in Nat /\ Len(u) \in Nat
        /\ m + Len(t) <= Len(s) /\ k + Len(u) <= Len(t)
        /\ s \in Seq(Pair) /\ u \in Seq(Pair)
    BY DEF Piece
  <1>2. \A p \in DOMAIN u : u[p] = s[p + (m + k)]
    <2>. TAKE p \in DOMAIN u
    <2>1. p \in Nat /\ p + k \in DOMAIN t /\ u[p] = t[p + k]
      BY PieceTypes
    <2>2. t[p + k] = s[(p + k) + m]
      BY <2>1, PieceTypes
    <2>3. (p + k) + m = p + (m + k)
      BY <1>1, <2>1
    <2>. QED BY <2>1, <2>2, <2>3
  <1>. QED BY <1>1, <1>2 DEF Piece
-----------------------------------------------------------------------------
(* What LineReader finds in a piece of the stream.                         *)

Frame == [length : Lengths, object : BOOLEAN]
Frames == frames \in Seq(Frame)

LEMMA FrameTypes ==
    ASSUME Frames, NEW i \in DOMAIN frames
    PROVE  /\ i \in Nat \ {0} /\ i <= Len(frames) /\ Len(frames) \in Nat
           /\ frames[i].length \in Nat /\ frames[i].object \in BOOLEAN
  <1>1. frames[i] \in Frame /\ i \in Nat \ {0} /\ i <= Len(frames) /\ Len(frames) \in Nat
    BY SeqTypes DEF Frames
  <1>2. frames[i].length \in Lengths /\ frames[i].object \in BOOLEAN
    BY <1>1 DEF Frame
  <1>. QED BY <1>1, <1>2, WireAssumption

LEMMA ByteTypes ==
    ASSUME Frames, NEW s \in Seq(Pair), Contiguous(s, frames), NEW p \in DOMAIN s
    PROVE  /\ p \in Nat \ {0} /\ p <= Len(s)
           /\ s[p] = <<s[p][1], s[p][2]>> /\ s[p][1] \in DOMAIN frames /\ s[p][1] \in Nat
           /\ s[p][2] \in Nat \ {0} /\ s[p][2] <= frames[s[p][1]].length + 2
           /\ frames[s[p][1]].length \in Nat
  <1>1. IsByte(s[p], frames)
    BY DEF Contiguous
  <1>2. s[p][1] \in DOMAIN frames /\ frames[s[p][1]].length \in Nat
    BY <1>1, FrameTypes DEF IsByte
  <1>3. s[p] \in Nat \X Nat /\ s[p][2] \in 1 .. frames[s[p][1]].length + 2
    BY <1>1 DEF IsByte, Pair
  <1>4. p \in Nat \ {0} /\ p <= Len(s)
    BY SeqTypes
  <1>. QED BY <1>2, <1>3, <1>4

LEMMA SeparatorTypes ==
    ASSUME NEW s \in Seq(Pair)
    PROVE  Separators(s) \in SUBSET (1 .. Len(s)) /\ Len(s) \in Nat
  BY DEF Separators

\* A separator is where a frame's line feed is, with its return before it.
LEMMA EndIsSeparator ==
    ASSUME Frames, NEW s \in Seq(Pair), Contiguous(s, frames),
           NEW p \in DOMAIN s, p > 1, IsLF(s[p])
    PROVE  p - 1 \in Separators(s)
  <1>1. s[p][2] = frames[s[p][1]].length + 2 /\ frames[s[p][1]].length \in Nat /\ p \in Nat
    BY ByteTypes DEF IsLF
  <1>2. 1 < s[p][2]
    BY <1>1
  <1>3. s[p - 1] = <<s[p][1], s[p][2] - 1>>
    BY <1>1, <1>2 DEF Contiguous, Runs
  <1>4. IsCR(s[p - 1])
    BY <1>1, <1>3 DEF IsCR
  <1>. QED BY <1>1, <1>4 DEF Separators

\* The rest of a buffer begins behind its last separator.
LEMMA RestIsPiece ==
    ASSUME NEW s \in Seq(Pair)
    PROVE  \E m \in Nat :
              /\ Piece(Rest(s), s, m) /\ m + Len(Rest(s)) = Len(s)
              /\ m = 0 \/ m - 1 \in Separators(s)
              /\ \A j \in Separators(s) : j + 1 <= m
  <1>1. Len(s) \in Nat /\ \A j \in Separators(s) : j \in Nat /\ j + 1 <= Len(s)
    BY DEF Separators
  <1>2. CASE Separators(s) = {}
    <2>1. Rest(s) = s /\ Piece(s, s, 0)
      BY <1>2 DEF Rest, Piece
    <2>. QED BY <1>1, <1>2, <2>1
  <1>3. CASE Separators(s) # {}
    <2>. DEFINE m == Max(Separators(s)) + 1
    <2>1. m - 1 \in Separators(s) /\ \A j \in Separators(s) : j + 1 <= m
      <3>1. Max(Separators(s)) \in Separators(s) /\ \A j \in Separators(s) : j <= Max(Separators(s))
        BY <1>3, SeparatorTypes, LastPosition
      <3>. QED BY <1>1, <3>1
    <2>2. m \in Nat /\ m <= Len(s) /\ Max(Separators(s)) + 2 = m + 1
      <3>. DEFINE j == m - 1
      <3>1. j \in Separators(s) /\ Max(Separators(s)) \in Nat
        BY <1>1, <2>1, SeparatorTypes, LastPosition, <1>3
      <3>2. j = Max(Separators(s)) /\ j \in Nat /\ j + 1 <= Len(s)
        BY <1>1, <3>1
      <3>. QED BY <1>1, <3>2
    <2>3. Rest(s) = SubSeq(s, m + 1, Len(s))
      BY <1>3, <2>2 DEF Rest
    <2>. HIDE DEF m
    <2>4. Piece(Rest(s), s, m) /\ m + Len(Rest(s)) = Len(s)
      BY <1>1, <2>2, <2>3, SubSeqIsPiece
    <2>. QED BY <2>1, <2>2, <2>4
  <1>. QED BY <1>2, <1>3

LEMMA LineStartTypes ==
    ASSUME NEW s \in Seq(Pair), NEW j \in Separators(s)
    PROVE  LineStart(s, j) \in Nat \ {0} /\ LineStart(s, j) <= j + 1
  <1>. DEFINE before == {k \in Separators(s) : k < j}
  <1>1. Len(s) \in Nat /\ j \in Nat \ {0} /\ before \in SUBSET (1 .. Len(s))
    BY DEF Separators
  <1>2. CASE before = {}
    BY <1>1, <1>2 DEF LineStart
  <1>3. CASE before # {}
    <2>. HIDE DEF before
    <2>1. Max(before) \in before
      BY <1>1, <1>3, LastPosition
    <2>2. Max(before) \in Nat /\ Max(before) < j
      BY <1>1, <2>1 DEF before
    <2>3. LineStart(s, j) = Max(before) + 2
      BY <1>3 DEF LineStart, before
    <2>. QED BY <1>1, <2>2, <2>3
  <1>. QED BY <1>2, <1>3

\* A line is what lies between its first byte and the separator behind it.
LEMMA LineIsSubSeq ==
    ASSUME NEW s \in Seq(Pair), NEW j \in Separators(s), Text(Line(s, j)) # <<>>
    PROVE  \E f \in Nat \ {0} :
              /\ f <= j - 1 /\ j - 1 <= Len(s)
              /\ Text(Line(s, j)) = SubSeq(s, f, j - 1)
  <1>. DEFINE a == LineStart(s, j)
  <1>1. a \in Nat \ {0} /\ a <= j + 1
    BY LineStartTypes
  <1>2. j \in Nat \ {0} /\ j <= Len(s) - 1 /\ Len(s) \in Nat
    BY DEF Separators
  <1>3. Line(s, j) = SubSeq(s, a, j - 1)
    BY DEF Line
  <1>. HIDE DEF a
  <1>4. Line(s, j) # <<>>
    BY DEF Text
  <1>5. a <= j - 1
    <2>. SUFFICES ASSUME ~(a <= j - 1) PROVE FALSE
      OBVIOUS
    <2>1. a \in Int /\ j - 1 \in Int /\ j - 1 < a
      BY <1>1, <1>2
    <2>2. SubSeq(s, a, j - 1) = <<>>
      BY <2>1, SubSeqEmpty
    <2>. QED BY <1>3, <1>4, <2>2
  <1>6. CASE Text(Line(s, j)) = Line(s, j)
    <2>1. a \in Nat \ {0} /\ j - 1 <= Len(s)
      BY <1>1, <1>2
    <2>. QED BY <1>3, <1>5, <1>6, <2>1, Zenon
  <1>7. CASE Text(Line(s, j)) = Tail(Line(s, j))
    <2>1. a \in 1 .. Len(s) /\ j - 1 \in a .. Len(s)
      BY <1>1, <1>2, <1>5
    <2>2. Tail(SubSeq(s, a, j - 1)) = SubSeq(s, a + 1, j - 1)
      BY <2>1, HeadTailOfSubSeq
    <2>3. a + 1 <= j - 1
      <3>. SUFFICES ASSUME ~(a + 1 <= j - 1) PROVE FALSE
        OBVIOUS
      <3>1. a + 1 \in Int /\ j - 1 \in Int /\ j - 1 < a + 1
        BY <1>1, <1>2
      <3>2. SubSeq(s, a + 1, j - 1) = <<>>
        BY <3>1, SubSeqEmpty
      <3>. QED BY <1>3, <1>7, <2>2, <3>2
    <2>4. Text(Line(s, j)) = SubSeq(s, a + 1, j - 1)
      BY <1>3, <1>7, <2>2, Zenon
    <2>5. a + 1 \in Nat \ {0} /\ j - 1 <= Len(s)
      BY <1>1, <1>2
    <2>. QED BY <2>3, <2>4, <2>5, Zenon
  <1>. QED BY <1>6, <1>7 DEF Text

LEMMA BytesOf ==
    ASSUME Frames, NEW i \in DOMAIN frames
    PROVE  /\ Bytes(i) \in Seq(Pair)
           /\ Len(Bytes(i)) = frames[i].length + 2
           /\ \A k \in 1 .. frames[i].length + 2 : Bytes(i)[k] = <<i, k>>
  <1>. DEFINE n == frames[i].length + 2
              E(k) == <<i, k>>
  <1>1. i \in Nat /\ n \in Nat
    BY FrameTypes
  <1>2. Bytes(i) = [k \in 1 .. n |-> E(k)]
    BY DEF Bytes
  <1>. HIDE DEF n
  <1>3. \A k \in 1 .. n : E(k) \in Pair
    BY <1>1 DEF Pair
  <1>4. [k \in 1 .. n |-> E(k)] \in Seq(Pair)
    <2>. HIDE DEF E
    <2>. QED BY <1>1, <1>3, IsASeq
  <1>. QED BY <1>1, <1>2, <1>4 DEF n

\* An object is taken from the line its own separator ends.
LEMMA MessageOfItsEnd ==
    ASSUME Frames, NEW s \in Seq(Pair), Contiguous(s, frames),
           NEW j \in Separators(s), IsMessage(Line(s, j))
    PROVE  /\ j \in DOMAIN s /\ s[j][1] \in DOMAIN frames
           /\ Head(Text(Line(s, j)))[1] = s[j][1]
           /\ frames[s[j][1]].object
  <1>. DEFINE t == Text(Line(s, j))
              i == Head(t)[1]
  <1>1. t # <<>> /\ frames[i].object /\ t = SubSeq(Bytes(i), 1, frames[i].length)
    BY DEF IsMessage
  <1>2. PICK f \in Nat \ {0} : f <= j - 1 /\ j - 1 <= Len(s) /\ t = SubSeq(s, f, j - 1)
    BY <1>1, LineIsSubSeq
  <1>3. j \in Nat \ {0} /\ j <= Len(s) - 1 /\ Len(s) \in Nat /\ IsCR(s[j])
    BY DEF Separators
  <1>. HIDE DEF t
  <1>4. DOMAIN s = 1 .. Len(s)
    BY SeqTypes
  <1>5. j \in DOMAIN s /\ j - 1 \in DOMAIN s /\ f \in DOMAIN s /\ j - 1 \in Nat
    BY <1>2, <1>3, <1>4
  <1>6. Head(t) = s[f]
    <2>1. f \in 1 .. Len(s) /\ j - 1 \in f .. Len(s)
      BY <1>2, <1>3
    <2>. QED BY <1>2, <2>1, HeadTailOfSubSeq
  <1>7. i \in DOMAIN frames /\ i \in Nat /\ frames[i].length \in Nat
    BY <1>5, <1>6, ByteTypes
  <1>. HIDE DEF i
  <1>8. Len(t) = j - f /\ \A k \in 1 .. j - f : t[k] = s[f + k - 1]
    <2>1. \A x \in f .. j - 1 : s[x] \in Pair
      BY <1>2, <1>3, <1>4, SeqTypes
    <2>2. /\ Len(t) = IF f <= j - 1 THEN (j - 1) - f + 1 ELSE 0
          /\ \A k \in 1 .. (j - 1) - f + 1 : t[k] = s[f + k - 1]
      BY <1>2, <1>5, <2>1, SubSeqProperties
    <2>3. f <= j - 1 /\ (j - 1) - f + 1 = j - f
      BY <1>2, <1>3
    <2>. QED BY <2>2, <2>3
  <1>9. Len(t) = frames[i].length /\ \A k \in 1 .. frames[i].length : t[k] = <<i, k>>
    <2>1. \A x \in 1 .. frames[i].length : Bytes(i)[x] \in Pair
      BY <1>7, BytesOf, SeqTypes
    <2>2. /\ Len(t) = IF 1 <= frames[i].length THEN frames[i].length - 1 + 1 ELSE 0
          /\ \A k \in 1 .. frames[i].length - 1 + 1 : t[k] = Bytes(i)[1 + k - 1]
      BY <1>1, <1>7, <2>1, SubSeqProperties
    <2>3. ASSUME NEW k \in 1 .. frames[i].length PROVE t[k] = <<i, k>>
      <3>1. t[k] = Bytes(i)[k]
        BY <1>7, <2>2
      <3>2. k \in 1 .. frames[i].length + 2
        BY <1>7
      <3>. QED BY <1>7, <3>1, <3>2, BytesOf
    <2>. QED BY <1>7, <2>2, <2>3
  <1>10. s[j - 1] = <<i, frames[i].length>> /\ frames[i].length \in 1 .. j - f
    <2>1. frames[i].length = j - f /\ j - f \in 1 .. j - f
      BY <1>2, <1>3, <1>8, <1>9
    <2>2. t[j - f] = s[f + (j - f) - 1] /\ t[j - f] = <<i, j - f>>
      BY <1>8, <1>9, <2>1
    <2>3. f + (j - f) - 1 = j - 1
      BY <1>2, <1>3
    <2>. QED BY <2>1, <2>2, <2>3
  <1>11. s[j][2] \in Nat \ {0} /\ s[j][1] \in DOMAIN frames
    BY <1>5, ByteTypes
  <1>12. s[j][1] = i
    <2>1. CASE s[j][2] = 1
      <3>1. j > 1
        BY <1>2, <1>3
      <3>2. IsEnd(s[j - 1], frames)
        BY <1>5, <2>1, <3>1 DEF Contiguous, Begins
      <3>3. s[j - 1][1] = i /\ s[j - 1][2] = frames[i].length
        BY <1>10
      <3>4. frames[i].length = frames[i].length + 2
        BY <3>2, <3>3 DEF IsEnd
      <3>. QED BY <1>7, <3>4
    <2>2. CASE s[j][2] # 1
      <3>1. 1 < s[j][2] /\ 1 < j
        BY <1>2, <1>3, <1>11, <2>2
      <3>2. s[j - 1] = <<s[j][1], s[j][2] - 1>>
        BY <1>5, <3>1 DEF Contiguous, Runs
      <3>. QED BY <1>10, <3>2
    <2>. QED BY <2>1, <2>2
  <1>. QED BY <1>1, <1>5, <1>11, <1>12 DEF i, t

\* An object that is whole in the buffer is taken, at its own separator.
LEMMA WholeIsMessage ==
    ASSUME Frames, NEW s \in Seq(Pair), Contiguous(s, frames),
           NEW p \in DOMAIN s, IsLF(s[p]),
           frames[s[p][1]].object, frames[s[p][1]].length > 0,
           s[p][2] <= p
    PROVE  p - 1 \in Separators(s) /\ s[p - 1][1] = s[p][1] /\ IsMessage(Line(s, p - 1))
  <1>. DEFINE i == s[p][1]
              n == frames[i].length
              j == p - 1
              f == p - n - 1
              before == {k \in Separators(s) : k < j}
  <1>1. /\ p \in Nat /\ p <= Len(s) /\ Len(s) \in Nat /\ DOMAIN s = 1 .. Len(s)
        /\ i \in DOMAIN frames /\ i \in Nat /\ n \in Nat \ {0} /\ s[p][2] = n + 2
    <2>1. Len(s) \in Nat /\ DOMAIN s = 1 .. Len(s)
      BY SeqTypes
    <2>. QED BY <2>1, ByteTypes DEF IsLF
  <1>. HIDE DEF n, i
  <1>a. n + 2 <= p
    BY <1>1, Zenon
  <1>2. f \in Nat \ {0} /\ j = f + n /\ p = f + n + 1 /\ j \in Nat /\ j < Len(s)
    <2>1. p \in Nat /\ n \in Nat \ {0} /\ Len(s) \in Nat /\ p <= Len(s)
      BY <1>1
    <2>2. f \in Nat \ {0}
      BY <2>1, <1>a
    <2>3. j \in Nat /\ j < Len(s)
      BY <2>1, <1>a
    <2>4. j = f + n
      BY <2>1
    <2>5. p = f + n + 1
      BY <2>1
    <2>. QED BY <2>2, <2>3, <2>4, <2>5
  <1>. HIDE DEF f, j
  <1>3. ASSUME NEW k \in 1 .. n + 2
        PROVE  f + k - 1 \in DOMAIN s /\ s[f + k - 1] = <<i, k>>
    <2>. DEFINE d == n + 2 - k
    <2>1. d \in Nat /\ d < n + 2 /\ d < p /\ p - d = f + k - 1 /\ n + 2 - d = k
          /\ f + k - 1 \in 1 .. Len(s)
      BY <1>1, <1>2
    <2>. HIDE DEF d
    <2>2. s[p - d] = <<i, n + 2 - d>>
      BY <1>1, <2>1 DEF Contiguous, Runs, i
    <2>. QED BY <1>1, <2>1, <2>2
  <1>4. j \in Separators(s) /\ s[j] = <<i, n + 1>> /\ s[f] = <<i, 1>> /\ f \in DOMAIN s
    <2>1. p > 1
      BY <1>1, <1>2
    <2>2. j \in Separators(s)
      BY <2>1, EndIsSeparator DEF j
    <2>3. f + (n + 1) - 1 = j /\ n + 1 \in 1 .. n + 2 /\ f + 1 - 1 = f /\ 1 \in 1 .. n + 2
      BY <1>1, <1>2
    <2>4. s[f + (n + 1) - 1] = <<i, n + 1>>
      BY <1>3, <2>3
    <2>5. s[f + 1 - 1] = <<i, 1>> /\ f + 1 - 1 \in DOMAIN s
      BY <1>3, <2>3
    <2>. QED BY <2>2, <2>3, <2>4, <2>5
  \* no separator is in the object or ends with its first byte
  <1>5. ASSUME NEW k \in before PROVE k \in Nat \ {0} /\ k + 1 <= f - 1
    <2>1. k \in Nat \ {0} /\ k < j /\ k <= Len(s) - 1 /\ IsCR(s[k]) /\ IsLF(s[k + 1])
      BY <1>1 DEF Separators
    <2>2. CASE f <= k
      <3>. DEFINE x == k - f + 1
      <3>1. x \in 1 .. n + 2 /\ f + x - 1 = k /\ x < n + 1
        BY <1>1, <1>2, <2>1, <2>2
      <3>. HIDE DEF x
      <3>2. s[k] = <<i, x>>
        BY <1>3, <3>1
      <3>3. x = n + 1
        BY <2>1, <3>2 DEF IsCR, n
      <3>. QED BY <3>1, <3>3, <1>1
    <2>3. CASE k + 1 = f
      <3>1. 1 = n + 2
        BY <1>4, <2>1, <2>3 DEF IsLF, n
      <3>. QED BY <3>1, <1>1
    <2>. QED BY <1>2, <2>1, <2>2, <2>3
  <1>6. before \in SUBSET (1 .. Len(s))
    BY SeparatorTypes
  \* its line begins with it, or with the half of a separator before it
  <1>7. Text(Line(s, j)) = SubSeq(s, f, j - 1)
    <2>0. f \in 1 .. Len(s) /\ j - 1 \in f .. Len(s) /\ j - 1 \in Nat
      BY <1>1, <1>2
    <2>1. CASE LineStart(s, j) = f
      <3>1. Line(s, j) = SubSeq(s, f, j - 1)
        BY <2>1 DEF Line
      <3>2. Head(Line(s, j)) = s[f]
        BY <2>0, <3>1, HeadTailOfSubSeq
      <3>3. ~IsLF(s[f])
        <4>. SUFFICES ASSUME IsLF(s[f]) PROVE FALSE
          OBVIOUS
        <4>1. 1 = n + 2
          BY <1>4 DEF IsLF, n
        <4>. QED BY <1>1, <4>1
      <3>. QED BY <3>1, <3>2, <3>3 DEF Text
    <2>2. CASE f = 1
      <3>1. before = {}
        <4>. SUFFICES ASSUME NEW k \in before PROVE FALSE
          OBVIOUS
        <4>. HIDE DEF before
        <4>. QED BY <1>5, <2>2
      <3>2. LineStart(s, j) = f
        BY <2>2, <3>1 DEF LineStart
      <3>. QED BY <2>1, <3>2
    <2>3. CASE f > 1
      <3>1. f - 1 \in DOMAIN s /\ IsEnd(s[f - 1], frames)
        <4>1. f - 1 \in 1 .. Len(s) /\ s[f][2] = 1
          BY <1>1, <1>2, <1>4, <2>3
        <4>. QED BY <1>1, <1>4, <2>3, <4>1 DEF Contiguous, Begins
      <3>2. IsLF(s[f - 1])
        BY <3>1 DEF IsLF, IsEnd
      <3>3. CASE f = 2
        <4>1. before = {}
          <5>. SUFFICES ASSUME NEW k \in before PROVE FALSE
            OBVIOUS
          <5>. HIDE DEF before
          <5>1. k \in Nat \ {0} /\ k + 1 <= 1
            BY <1>5, <3>3
          <5>. QED BY <5>1
        <4>2. LineStart(s, j) = 1
          BY <4>1 DEF LineStart
        <4>3. Line(s, j) = SubSeq(s, 1, j - 1)
          BY <4>2 DEF Line
        <4>4. 1 \in 1 .. Len(s) /\ j - 1 \in 1 .. Len(s) /\ f - 1 = 1 /\ 1 + 1 = f
          BY <1>1, <1>2, <3>3
        <4>5. Head(SubSeq(s, 1, j - 1)) = s[1] /\ Tail(SubSeq(s, 1, j - 1)) = SubSeq(s, 1 + 1, j - 1)
          BY <4>4, HeadTailOfSubSeq
        <4>6. Line(s, j) # <<>>
          <5>1. \A x \in 1 .. j - 1 : s[x] \in Pair
            BY <1>1, <1>2, SeqTypes
          <5>2. Len(SubSeq(s, 1, j - 1)) = IF 1 <= j - 1 THEN j - 1 - 1 + 1 ELSE 0
            BY <2>0, <5>1, SubSeqProperties
          <5>3. Len(SubSeq(s, 1, j - 1)) # 0
            BY <4>4, <5>2, <2>0
          <5>4. Len(<<>>) = 0
            OBVIOUS
          <5>. QED BY <4>3, <5>3, <5>4, Zenon
        <4>. QED BY <3>2, <4>3, <4>4, <4>5, <4>6 DEF Text
      <3>4. CASE f > 2
        <4>1. f - 1 > 1 /\ (f - 1) - 1 = f - 2 /\ f - 2 \in Nat /\ (f - 2) + 2 = f
          BY <1>2, <3>4
        <4>2. f - 2 \in Separators(s)
          BY <3>1, <3>2, <4>1, EndIsSeparator
        <4>3. f - 2 \in before
          BY <1>1, <1>2, <4>1, <4>2
        <4>. HIDE DEF before
        <4>4. Max(before) \in before /\ \A k \in before : k <= Max(before)
          BY <1>1, <1>6, <4>3, LastPosition
        <4>5. Max(before) \in Nat /\ Max(before) + 1 <= f - 1 /\ f - 2 <= Max(before)
          BY <1>5, <4>3, <4>4
        <4>6. Max(before) + 2 = f
          BY <1>2, <4>5
        <4>7. LineStart(s, j) = f
          BY <4>3, <4>6 DEF LineStart, before
        <4>. QED BY <2>1, <4>7
      <3>. QED BY <1>2, <2>3, <3>3, <3>4
    <2>. QED BY <1>2, <2>2, <2>3
  <1>8. SubSeq(s, f, j - 1) = SubSeq(Bytes(i), 1, n) /\ SubSeq(s, f, j - 1) # <<>>
        /\ Head(SubSeq(s, f, j - 1)) = s[f]
    <2>0. f \in 1 .. Len(s) /\ j - 1 \in f .. Len(s) /\ j - 1 \in Nat /\ (j - 1) - f + 1 = n
      BY <1>1, <1>2
    <2>1. \A x \in f .. j - 1 : s[x] \in Pair
      BY <1>1, <1>2, SeqTypes
    <2>2. /\ SubSeq(s, f, j - 1) \in Seq(Pair)
          /\ Len(SubSeq(s, f, j - 1)) = IF f <= j - 1 THEN (j - 1) - f + 1 ELSE 0
          /\ \A k \in 1 .. (j - 1) - f + 1 : SubSeq(s, f, j - 1)[k] = s[f + k - 1]
      <3>1. f \in Int /\ j - 1 \in Int
        BY <1>2, <2>0
      <3>. QED BY <2>1, <3>1, SubSeqProperties
    <2>3. /\ Bytes(i) \in Seq(Pair) /\ Len(Bytes(i)) = n + 2
          /\ \A k \in 1 .. n + 2 : Bytes(i)[k] = <<i, k>>
      BY <1>1, BytesOf DEF n
    <2>4. \A x \in 1 .. n : Bytes(i)[x] \in Pair
      BY <1>1, <2>3, SeqTypes
    <2>5. /\ SubSeq(Bytes(i), 1, n) \in Seq(Pair)
          /\ Len(SubSeq(Bytes(i), 1, n)) = IF 1 <= n THEN n - 1 + 1 ELSE 0
          /\ \A k \in 1 .. n - 1 + 1 : SubSeq(Bytes(i), 1, n)[k] = Bytes(i)[1 + k - 1]
      BY <1>1, <2>4, SubSeqProperties
    <2>6. Len(SubSeq(s, f, j - 1)) = n /\ Len(SubSeq(Bytes(i), 1, n)) = n
      BY <1>1, <2>0, <2>2, <2>5
    <2>7. ASSUME NEW k \in 1 .. n PROVE SubSeq(s, f, j - 1)[k] = SubSeq(Bytes(i), 1, n)[k]
      <3>1. k \in 1 .. n + 2 /\ k \in 1 .. n - 1 + 1 /\ 1 + k - 1 = k /\ k \in 1 .. (j - 1) - f + 1
        BY <1>1, <2>0
      <3>2. SubSeq(s, f, j - 1)[k] = <<i, k>>
        BY <1>3, <2>2, <3>1
      <3>3. SubSeq(Bytes(i), 1, n)[k] = <<i, k>>
        BY <2>3, <2>5, <3>1
      <3>. QED BY <3>2, <3>3
    <2>8. SubSeq(s, f, j - 1) = SubSeq(Bytes(i), 1, n)
      BY <2>2, <2>5, <2>6, <2>7, SeqEqual
    <2>9. SubSeq(s, f, j - 1) # <<>>
      BY <1>1, <2>6
    <2>10. Head(SubSeq(s, f, j - 1)) = s[f]
      BY <2>0, HeadTailOfSubSeq
    <2>. QED BY <2>8, <2>9, <2>10
  <1>9. Head(Text(Line(s, j)))[1] = i
    <2>1. Head(Text(Line(s, j))) = <<i, 1>>
      BY <1>4, <1>7, <1>8, Zenon
    <2>. QED BY <2>1
  <1>10. frames[i].object
    BY DEF i
  <1>11. IsMessage(Line(s, j))
    BY <1>7, <1>8, <1>9, <1>10 DEF IsMessage, n
  <1>. QED BY <1>4, <1>11 DEF j, i

\* The line feed of a separator is of the frame its return is of.
LEMMA SeparatorIsEnd ==
    ASSUME Frames, NEW s \in Seq(Pair), Contiguous(s, frames), NEW j \in Separators(s)
    PROVE  /\ j \in DOMAIN s /\ j + 1 \in DOMAIN s /\ j \in Nat \ {0}
           /\ s[j + 1][1] = s[j][1] /\ IsLF(s[j + 1])
           /\ s[j][2] = frames[s[j][1]].length + 1
  <1>1. j \in 1 .. Len(s) - 1 /\ IsCR(s[j]) /\ IsLF(s[j + 1])
    BY DEF Separators
  <1>2. Len(s) \in Nat /\ DOMAIN s = 1 .. Len(s)
    BY SeqTypes
  <1>3. j \in DOMAIN s /\ j + 1 \in DOMAIN s /\ j \in Nat \ {0} /\ 1 < j + 1 /\ (j + 1) - 1 = j
    BY <1>1, <1>2
  <1>4. s[j + 1][2] = frames[s[j + 1][1]].length + 2 /\ frames[s[j + 1][1]].length \in Nat
    BY <1>1, <1>3, ByteTypes DEF IsLF
  <1>5. 1 < s[j + 1][2]
    BY <1>4
  <1>6. s[(j + 1) - 1] = <<s[j + 1][1], s[j + 1][2] - 1>>
    BY <1>3, <1>5 DEF Contiguous, Runs
  <1>. QED BY <1>1, <1>3, <1>6 DEF IsCR

\* No separator is left behind the last one.
LEMMA RestHasNone ==
    ASSUME NEW s \in Seq(Pair)
    PROVE  Separators(Rest(s)) = {}
  <1>1. PICK m \in Nat : /\ Piece(Rest(s), s, m)
                         /\ \A j \in Separators(s) : j + 1 <= m
    BY RestIsPiece
  <1>. DEFINE r == Rest(s)
  <1>. HIDE DEF r
  <1>. SUFFICES ASSUME NEW j \in Separators(r) PROVE FALSE
    BY DEF r
  <1>2. j \in 1 .. Len(r) - 1 /\ IsCR(r[j]) /\ IsLF(r[j + 1])
    BY DEF Separators
  <1>3. /\ Len(s) \in Nat /\ Len(r) \in Nat /\ m + Len(r) <= Len(s)
        /\ DOMAIN r = 1 .. Len(r)
        /\ \A p \in DOMAIN r : r[p] = s[p + m]
    BY <1>1, PieceTypes DEF r
  <1>4. j \in DOMAIN r /\ j + 1 \in DOMAIN r /\ (j + 1) + m = (j + m) + 1 /\ j + m \in 1 .. Len(s) - 1
        /\ ~((j + m) + 1 <= m)
    BY <1>2, <1>3
  <1>5. IsCR(s[j + m]) /\ IsLF(s[(j + m) + 1])
    <2>1. r[j] = s[j + m] /\ r[j + 1] = s[(j + 1) + m]
      BY <1>3, <1>4
    <2>. QED BY <1>2, <1>4, <2>1
  <1>6. j + m \in Separators(s)
    BY <1>4, <1>5 DEF Separators
  <1>. QED BY <1>1, <1>4, <1>6

\* The separators of the lines that are objects, and these objects.
ObjectEnds(s) == {j \in Separators(s) : IsMessage(Line(s, j))}
Found(s) == {s[j][1] : j \in ObjectEnds(s)}

LEMMA FoundTypes ==
    ASSUME Frames, NEW s \in Seq(Pair), Contiguous(s, frames)
    PROVE  /\ Found(s) \in SUBSET (1 .. Len(frames)) /\ Len(frames) \in Nat
           /\ \A i \in Found(s) : i \in DOMAIN frames /\ frames[i].object
  <1>1. Len(frames) \in Nat /\ DOMAIN frames = 1 .. Len(frames)
    BY SeqTypes DEF Frames
  <1>2. ASSUME NEW i \in Found(s) PROVE i \in DOMAIN frames /\ frames[i].object
    <2>1. PICK j \in ObjectEnds(s) : i = s[j][1]
      BY DEF Found
    <2>. QED BY <2>1, MessageOfItsEnd DEF ObjectEnds
  <1>. QED BY <1>1, <1>2

\* Two objects do not have the same end, and the later end is of the later one.
LEMMA EndsAscend ==
    ASSUME Frames, NEW s \in Seq(Pair), Contiguous(s, frames),
           NEW j \in Separators(s), NEW k \in Separators(s), j < k
    PROVE  s[j][1] < s[k][1]
  <1>1. /\ j \in DOMAIN s /\ k \in DOMAIN s /\ j \in Nat /\ k \in Nat
        /\ s[j][2] = frames[s[j][1]].length + 1
        /\ s[k][2] = frames[s[k][1]].length + 1
    BY SeparatorIsEnd
  <1>2. \/ s[j][1] < s[k][1]
        \/ s[j][1] = s[k][1] /\ s[k][2] - s[j][2] = k - j
    BY <1>1 DEF Contiguous, Ordered
  <1>3. CASE s[j][1] = s[k][1] /\ s[k][2] - s[j][2] = k - j
    <2>1. frames[s[j][1]].length \in Nat
      BY <1>1, ByteTypes
    <2>2. s[k][2] = s[j][2] /\ s[j][2] \in Nat
      BY <1>1, <1>3, <2>1
    <2>. QED BY <1>1, <1>3, <2>2
  <1>. QED BY <1>2, <1>3

\* What is handed on from a buffer are the objects found there, in order.
LEMMA ParsedIsFound ==
    ASSUME Frames, NEW s \in Seq(Pair), Contiguous(s, frames)
    PROVE  Ascends(Parsed(s), Found(s)) /\ Parsed(s) = C!InOrder(Found(s))
  <1>. DEFINE E == ObjectEnds(s)
              q == C!InOrder(E)
              c == Cardinality(E)
              First(j) == Head(Text(Line(s, j)))[1]
              F == Found(s)
  <1>1. E \in SUBSET (1 .. Len(s)) /\ Len(s) \in Nat
    BY SeparatorTypes DEF ObjectEnds
  <1>2. Ascends(q, E)
    BY <1>1, InOrderAscends
  <1>3. IsFiniteSet(E) /\ c \in Nat
    BY <1>1, PositionsFinite
  <1>4. Parsed(s) = [m \in DOMAIN q |-> First(q[m])]
    BY DEF Parsed, ObjectEnds
  <1>5. \A j \in E : First(j) = s[j][1] /\ j \in Separators(s)
    BY MessageOfItsEnd DEF ObjectEnds
  <1>. HIDE DEF First, E, q, c
  <1>6. q \in [1 .. c -> E] /\ DOMAIN q = 1 .. c
    BY <1>2 DEF Ascends, c
  <1>7. Parsed(s) = [m \in 1 .. c |-> s[q[m]][1]]
    BY <1>4, <1>5, <1>6
  <1>8. F = {s[j][1] : j \in E}
    BY DEF Found, E
  <1>. HIDE DEF F
  <1>9. Cardinality(F) = c
    <2>. DEFINE f == [j \in E |-> s[j][1]]
    <2>1. f \in Surjection(E, F)
      BY <1>8 DEF Surjection
    <2>2. ASSUME NEW j \in E, NEW k \in E, f[j] = f[k] PROVE j = k
      <3>1. j \in Nat /\ k \in Nat /\ s[j][1] = s[k][1] /\ s[j][1] \in Nat
        <4>1. s[j][1] \in 1 .. Len(frames)
          BY <1>5, FoundTypes, <1>8 DEF F
        <4>. QED BY <1>1, <2>2, <4>1
      <3>2. ~(j < k)
        BY <1>5, <3>1, EndsAscend
      <3>3. ~(k < j)
        BY <1>5, <3>1, EndsAscend
      <3>. QED BY <3>1, <3>2, <3>3
    <2>3. f \in Injection(E, F)
      <3>1. f \in [E -> F]
        BY <1>8
      <3>. HIDE DEF f
      <3>. QED BY <2>2, <3>1 DEF Injection, IsInjective
    <2>4. f \in Bijection(E, F)
      BY <2>1, <2>3 DEF Bijection
    <2>. HIDE DEF f
    <2>5. Cardinality(E) = Cardinality(F)
      BY <1>3, <2>4, FS_Bijection DEF ExistsBijection
    <2>. QED BY <2>5 DEF c
  <1>10. Ascends(Parsed(s), F)
    <2>1. Parsed(s) \in [1 .. Cardinality(F) -> F]
      <3>1. \A m \in 1 .. c : s[q[m]][1] \in F
        BY <1>6, <1>8
      <3>. QED BY <1>7, <1>9, <3>1
    <2>2. ASSUME NEW m \in 1 .. c, NEW n \in 1 .. c, m < n
          PROVE  Parsed(s)[m] < Parsed(s)[n]
      <3>1. q[m] < q[n] /\ q[m] \in E /\ q[n] \in E
        BY <1>2, <1>6, <2>2 DEF Ascends
      <3>2. s[q[m]][1] < s[q[n]][1]
        BY <1>5, <3>1, EndsAscend
      <3>. QED BY <1>7, <3>2
    <2>3. ASSUME NEW i \in F PROVE \E n \in 1 .. c : Parsed(s)[n] = i
      <3>1. PICK j \in E : i = s[j][1]
        BY <1>8
      <3>2. PICK n \in DOMAIN q : q[n] = j
        BY <1>2 DEF Ascends
      <3>. QED BY <1>6, <1>7, <3>1, <3>2
    <2>4. DOMAIN Parsed(s) = 1 .. c
      BY <1>7
    <2>. QED BY <2>1, <2>2, <2>3, <2>4 DEF Ascends
  <1>11. Parsed(s) = C!InOrder(F)
    <2>1. F \in SUBSET (1 .. Len(frames)) /\ Len(frames) \in Nat
      BY FoundTypes DEF F
    <2>2. Ascends(C!InOrder(F), F)
      BY <2>1, InOrderAscends
    <2>. QED BY <1>10, <2>1, <2>2, AscendingUnique
  <1>. QED BY <1>10, <1>11 DEF F

-----------------------------------------------------------------------------
(* The stream: what waits in the buffer and what has not been read.        *)

Stream == buffer \o unread

\* Two pieces that meet are one.
LEMMA Joined ==
    ASSUME NEW s, NEW t, NEW u, NEW k, NEW m, Piece(t, s, k), Piece(u, s, m), k + Len(t) = m
    PROVE  Piece(t \o u, s, k) /\ Len(t \o u) = Len(t) + Len(u)
  <1>1. /\ k \in Nat /\ m \in Nat /\ Len(s) \in Nat /\ Len(t) \in Nat /\ Len(u) \in Nat
        /\ m + Len(u) <= Len(s)
        /\ \A p \in 1 .. Len(t) : t[p] = s[p + k]
        /\ \A p \in 1 .. Len(u) : u[p] = s[p + m]
    BY PieceTypes
  <1>2. s \in Seq(Pair) /\ t \in Seq(Pair) /\ u \in Seq(Pair)
    BY DEF Piece
  <1>3. /\ t \o u \in Seq(Pair) /\ Len(t \o u) = Len(t) + Len(u)
        /\ \A p \in 1 .. Len(t) + Len(u) :
              (t \o u)[p] = IF p <= Len(t) THEN t[p] ELSE u[p - Len(t)]
    BY <1>2, ConcatProperties
  <1>4. ASSUME NEW p \in 1 .. Len(t) + Len(u) PROVE (t \o u)[p] = s[p + k]
    <2>1. CASE p <= Len(t)
      <3>1. p \in 1 .. Len(t) /\ (t \o u)[p] = t[p]
        BY <1>1, <1>3, <2>1
      <3>. QED BY <1>1, <3>1
    <2>2. CASE ~(p <= Len(t))
      <3>1. p - Len(t) \in 1 .. Len(u) /\ (p - Len(t)) + m = p + k
        <4>1. /\ p \in Nat /\ Len(t) \in Nat /\ Len(u) \in Nat /\ k \in Nat /\ m = k + Len(t)
              /\ p > Len(t) /\ p <= Len(t) + Len(u)
          BY <1>1, <2>2
        <4>2. p - Len(t) \in 1 .. Len(u)
          BY <4>1
        <4>3. (p - Len(t)) + m = p + k
          BY <4>1
        <4>. QED BY <4>2, <4>3
      <3>2. (t \o u)[p] = u[p - Len(t)]
        BY <1>3, <2>2
      <3>3. u[p - Len(t)] = s[(p - Len(t)) + m]
        BY <1>1, <3>1
      <3>. QED BY <3>1, <3>2, <3>3
    <2>. QED BY <2>1, <2>2
  <1>5. DOMAIN (t \o u) = 1 .. Len(t) + Len(u)
    BY <1>3, SeqTypes
  <1>6. k + Len(t \o u) <= Len(s)
    BY <1>1, <1>3
  <1>. QED BY <1>1, <1>2, <1>3, <1>4, <1>5, <1>6 DEF Piece

LEMMA Parts ==
    ASSUME NEW t \in Seq(Pair), NEW u \in Seq(Pair)
    PROVE  /\ t \o u \in Seq(Pair) /\ Len(t \o u) = Len(t) + Len(u)
           /\ Piece(t, t \o u, 0) /\ Piece(u, t \o u, Len(t))
  <1>1. /\ t \o u \in Seq(Pair) /\ Len(t \o u) = Len(t) + Len(u)
        /\ \A p \in 1 .. Len(t) + Len(u) :
              (t \o u)[p] = IF p <= Len(t) THEN t[p] ELSE u[p - Len(t)]
    BY ConcatProperties
  <1>2. Len(t) \in Nat /\ Len(u) \in Nat /\ DOMAIN t = 1 .. Len(t) /\ DOMAIN u = 1 .. Len(u)
    BY SeqTypes
  <1>3. ASSUME NEW p \in DOMAIN t PROVE t[p] = (t \o u)[p + 0]
    <2>1. p \in 1 .. Len(t) + Len(u) /\ p <= Len(t) /\ p + 0 = p
      BY <1>2
    <2>. QED BY <1>1, <2>1
  <1>4. ASSUME NEW p \in DOMAIN u PROVE u[p] = (t \o u)[p + Len(t)]
    <2>1. p + Len(t) \in 1 .. Len(t) + Len(u) /\ ~(p + Len(t) <= Len(t)) /\ (p + Len(t)) - Len(t) = p
      BY <1>2
    <2>. QED BY <1>1, <2>1
  <1>. QED BY <1>1, <1>2, <1>3, <1>4 DEF Piece

\* A full buffer loses its beginning.
LEMMA KeptIsPiece ==
    ASSUME NEW s \in Seq(Pair)
    PROVE  \E a \in Nat :
              /\ Piece(Kept(s), s, a) /\ a + Len(Kept(s)) = Len(s)
              /\ a = 0 \/ Len(Kept(s)) = MaxBuffer
              /\ Len(Kept(s)) <= MaxBuffer
  <1>1. Len(s) \in Nat /\ MaxBuffer \in Nat
    BY WireAssumption, SeqTypes
  <1>2. CASE Len(s) > MaxBuffer
    <2>. DEFINE a == Len(s) - MaxBuffer
    <2>1. a \in Nat /\ a <= Len(s) /\ a # 0 /\ Len(s) - a = MaxBuffer /\ a + MaxBuffer = Len(s)
          /\ MaxBuffer <= MaxBuffer
      BY <1>1, <1>2
    <2>2. Kept(s) = SubSeq(s, a + 1, Len(s))
      BY <1>2 DEF Kept
    <2>. HIDE DEF a
    <2>3. Piece(Kept(s), s, a) /\ Len(Kept(s)) = Len(s) - a
      BY <1>1, <2>1, <2>2, SubSeqIsPiece
    <2>. QED BY <2>1, <2>3
  <1>3. CASE ~(Len(s) > MaxBuffer)
    <2>1. Kept(s) = s
      BY <1>3 DEF Kept
    <2>2. Piece(s, s, 0) /\ 0 + Len(s) = Len(s) /\ 0 \in Nat /\ Len(s) <= MaxBuffer
      BY <1>1, <1>3 DEF Piece
    <2>. QED BY <2>1, <2>2
  <1>. QED BY <1>2, <1>3

\* The buffer a read of n bytes looks for frames in.
Filled(n) == Kept(buffer \o SubSeq(unread, 1, n))

\* Where in the stream a read leaves what is looked at, kept and unread.
Placed(n, a, m) ==
    /\ Piece(Filled(n), Stream, a) /\ a + Len(Filled(n)) = Len(buffer) + n
    /\ a = 0 \/ Len(Filled(n)) = MaxBuffer
    /\ m = 0 \/ m - 1 \in Separators(Filled(n))
    /\ \A j \in Separators(Filled(n)) : j + 1 <= m
    /\ Piece(buffer', Stream, a + m) /\ (a + m) + Len(buffer') = Len(buffer) + n
    /\ Len(buffer') <= MaxBuffer
    /\ Piece(unread', Stream, Len(buffer) + n) /\ Len(unread') = Len(unread) - n
    /\ Piece(Stream', Stream, a + m) /\ (a + m) + Len(Stream') = Len(Stream)

\* What is looked at, kept and left are pieces of one stream.
LEMMA ReadPlaces ==
    ASSUME buffer \in Seq(Pair), unread \in Seq(Pair), NEW n \in Nat \ {0}, Receive(n)
    PROVE  \E a, m \in Nat : Placed(n, a, m)
  <1>. DEFINE B == Len(buffer)
              U == Len(unread)
              data == SubSeq(unread, 1, n)
              all == buffer \o data
  <1>1. B \in Nat /\ U \in Nat /\ n <= U
    BY SeqTypes DEF Receive
  <1>2. /\ Stream \in Seq(Pair) /\ Len(Stream) = B + U
        /\ Piece(buffer, Stream, 0) /\ Piece(unread, Stream, B)
    BY Parts DEF Stream
  <1>3. Piece(data, unread, 0) /\ Len(data) = n
    <2>1. Piece(SubSeq(unread, 0 + 1, n), unread, 0) /\ Len(SubSeq(unread, 0 + 1, n)) = n - 0
      BY <1>1, SubSeqIsPiece
    <2>. QED BY <2>1
  <1>4. Piece(data, Stream, B)
    <2>1. Piece(data, Stream, B + 0)
      BY <1>2, <1>3, PieceOfPiece
    <2>. QED BY <1>1, <2>1
  <1>5. Piece(all, Stream, 0) /\ Len(all) = B + n
    <2>1. 0 + Len(buffer) = B
      BY <1>1
    <2>. HIDE DEF B, data
    <2>2. Piece(all, Stream, 0) /\ Len(all) = Len(buffer) + Len(data)
      BY <1>2, <1>4, <2>1, Joined
    <2>. QED BY <1>3, <2>2 DEF B
  <1>6. all \in Seq(Pair)
    BY <1>5 DEF Piece
  <1>7. PICK a \in Nat : /\ Piece(Filled(n), all, a) /\ a + Len(Filled(n)) = B + n
                         /\ a = 0 \/ Len(Filled(n)) = MaxBuffer
                         /\ Len(Filled(n)) <= MaxBuffer
    <2>. HIDE DEF B
    <2>1. Kept(all) = Filled(n)
      BY DEF Filled
    <2>. HIDE DEF all
    <2>. QED BY <1>5, <1>6, <2>1, KeptIsPiece
  <1>8. Piece(Filled(n), Stream, a)
    <2>. HIDE DEF all, B
    <2>1. Piece(Filled(n), Stream, 0 + a)
      BY <1>5, <1>7, PieceOfPiece
    <2>. QED BY <1>7, <2>1
  <1>9. buffer' = Rest(Filled(n)) /\ unread' = SubSeq(unread, n + 1, U)
    BY DEF Receive, Filled
  <1>. HIDE DEF all, data
  <1>10. Filled(n) \in Seq(Pair) /\ Len(Filled(n)) \in Nat
    BY <1>8, SeqTypes DEF Piece
  <1>11. PICK m \in Nat : /\ Piece(buffer', Filled(n), m) /\ m + Len(buffer') = Len(Filled(n))
                          /\ m = 0 \/ m - 1 \in Separators(Filled(n))
                          /\ \A j \in Separators(Filled(n)) : j + 1 <= m
    BY <1>9, <1>10, RestIsPiece
  <1>. HIDE DEF B, U
  <1>12. Piece(buffer', Stream, a + m)
    BY <1>8, <1>11, PieceOfPiece
  <1>13. Len(buffer') \in Nat /\ (a + m) + Len(buffer') = B + n /\ Len(buffer') <= MaxBuffer
    <2>1. Len(buffer') \in Nat /\ Len(Filled(n)) \in Nat
      BY <1>11, PieceTypes
    <2>2. MaxBuffer \in Nat
      BY WireAssumption
    <2>3. (a + m) + Len(buffer') = B + n
      BY <1>1, <1>7, <1>11, <2>1
    <2>4. Len(buffer') <= Len(Filled(n)) /\ Len(Filled(n)) <= MaxBuffer
      BY <1>7, <1>11, <2>1
    <2>. QED BY <2>1, <2>2, <2>3, <2>4
  <1>14. Piece(unread', Stream, B + n) /\ Len(unread') = U - n
    <2>1. Piece(unread', unread, n) /\ Len(unread') = U - n
      BY <1>1, <1>9, SubSeqIsPiece DEF U
    <2>. QED BY <1>2, <2>1, PieceOfPiece
  <1>15. Piece(Stream', Stream, a + m) /\ (a + m) + Len(Stream') = Len(Stream)
    <2>1. Piece(buffer' \o unread', Stream, a + m) /\ Len(buffer' \o unread') = Len(buffer') + Len(unread')
      BY <1>12, <1>13, <1>14, Joined
    <2>2. Stream' = buffer' \o unread'
      BY DEF Stream
    <2>. HIDE DEF Stream
    <2>3. Len(Stream') = Len(buffer') + (U - n)
      BY <1>14, <2>1, <2>2
    <2>4. (a + m) + (Len(buffer') + (U - n)) = B + U
      BY <1>1, <1>13
    <2>. QED BY <1>2, <2>1, <2>2, <2>3, <2>4
  <1>16. Placed(n, a, m)
    BY <1>7, <1>8, <1>11, <1>12, <1>13, <1>14, <1>15 DEF Placed, B, U
  <1>. QED BY <1>16

-----------------------------------------------------------------------------
(* The inductive invariant.                                                *)

\* The stream ends with the end of the last frame sent.
Complete ==
    Len(Stream) > 0 =>
        Stream[Len(Stream)][1] = Len(frames) /\ IsLF(Stream[Len(Stream)])

\* No separator waits in the buffer.
Drained == Separators(buffer) = {}

\* What has been read of the frame that is being read is in the buffer, if the
\* frame is not too long.
Held ==
    Len(unread) > 0 /\ frames[unread[1][1]].length + 1 + ReadSize <= MaxBuffer =>
        unread[1][2] <= Len(buffer) + 1

\* A blank line is no object.
NotEmpty == \A i \in DOMAIN frames : frames[i].object => frames[i].length > 0

\* What has been handed on is older than what waits, and what has arrived
\* than what has not been read.
Ahead == \A n \in DOMAIN got, p \in DOMAIN Stream : got[n] < Stream[p][1]
Unfinished == \A i \in arrived, p \in DOMAIN unread : i < unread[p][1]

StreamOK ==
    /\ Frames /\ buffer \in Seq(Pair) /\ unread \in Seq(Pair)
    /\ Contiguous(Stream, frames) /\ Complete /\ Drained /\ Held /\ NotEmpty

LEMMA Places ==
    ASSUME StreamOK
    PROVE  /\ Stream \in Seq(Pair) /\ Len(Stream) = Len(buffer) + Len(unread)
           /\ Len(buffer) \in Nat /\ Len(unread) \in Nat
           /\ DOMAIN buffer = 1 .. Len(buffer) /\ DOMAIN unread = 1 .. Len(unread)
           /\ DOMAIN Stream = 1 .. Len(Stream)
           /\ Piece(buffer, Stream, 0) /\ Piece(unread, Stream, Len(buffer))
           /\ \A p \in 1 .. Len(buffer) : buffer[p] = Stream[p]
           /\ \A p \in 1 .. Len(unread) : unread[p] = Stream[p + Len(buffer)]
           /\ Contiguous(buffer, frames) /\ Contiguous(unread, frames)
  <1>1. buffer \in Seq(Pair) /\ unread \in Seq(Pair) /\ Contiguous(Stream, frames)
    BY DEF StreamOK
  <1>2. /\ Len(buffer) \in Nat /\ Len(unread) \in Nat
        /\ DOMAIN buffer = 1 .. Len(buffer) /\ DOMAIN unread = 1 .. Len(unread)
    BY <1>1, SeqTypes
  <1>3. /\ Stream \in Seq(Pair) /\ Len(Stream) = Len(buffer) + Len(unread)
        /\ Piece(buffer, Stream, 0) /\ Piece(unread, Stream, Len(buffer))
    BY <1>1, Parts DEF Stream
  <1>4. DOMAIN Stream = 1 .. Len(Stream)
    BY <1>3, SeqTypes
  <1>5. Contiguous(buffer, frames) /\ Contiguous(unread, frames)
    BY <1>1, <1>3, PieceIsContiguous
  <1>6. ASSUME NEW p \in 1 .. Len(buffer) PROVE buffer[p] = Stream[p]
    <2>1. buffer[p] = Stream[p + 0] /\ p + 0 = p
      BY <1>2, <1>3 DEF Piece
    <2>. QED BY <2>1
  <1>7. \A p \in 1 .. Len(unread) : unread[p] = Stream[p + Len(buffer)]
    BY <1>2, <1>3 DEF Piece
  <1>. QED BY <1>1, <1>2, <1>3, <1>4, <1>5, <1>6, <1>7

\* Of a frame that is not too long, everything before a byte that is being read
\* is in the buffer or read with it.
LEMMA HeldBytes ==
    ASSUME StreamOK, NEW k \in 1 .. Len(unread),
           frames[unread[k][1]].length + 1 + ReadSize <= MaxBuffer
    PROVE  unread[k][2] <= Len(buffer) + k
  <1>1. /\ unread \in Seq(Pair) /\ Contiguous(unread, frames) /\ Frames
        /\ Len(buffer) \in Nat /\ Len(unread) \in Nat /\ DOMAIN unread = 1 .. Len(unread)
    BY Places DEF StreamOK
  <1>2. 1 \in DOMAIN unread /\ k \in DOMAIN unread /\ k \in Nat \ {0} /\ Len(unread) > 0
    BY <1>1
  <1>3. /\ unread[1][1] \in Nat /\ unread[1][2] \in Nat
        /\ unread[k][1] \in Nat /\ unread[k][2] \in Nat
    BY <1>1, <1>2, ByteTypes
  <1>4. CASE unread[k][1] = unread[1][1]
    <2>1. unread[1][2] <= Len(buffer) + 1
      BY <1>2, <1>4 DEF StreamOK, Held
    <2>2. unread[k][2] - unread[1][2] = k - 1
      <3>1. CASE k = 1
        BY <1>3, <3>1
      <3>2. CASE 1 < k
        <4>1. \/ unread[1][1] < unread[k][1]
              \/ unread[1][1] = unread[k][1] /\ unread[k][2] - unread[1][2] = k - 1
          BY <1>1, <1>2, <3>2 DEF Contiguous, Ordered
        <4>. QED BY <1>3, <1>4, <4>1
      <3>. QED BY <1>2, <3>1, <3>2
    <2>. QED BY <1>1, <1>2, <1>3, <2>1, <2>2
  <1>5. CASE unread[k][1] # unread[1][1]
    <2>. SUFFICES ASSUME ~(unread[k][2] <= Len(buffer) + k) PROVE FALSE
      OBVIOUS
    <2>. DEFINE d == k - 1
    <2>1. d \in Nat /\ d < unread[k][2] /\ d < k /\ k - d = 1
      BY <1>1, <1>2, <1>3
    <2>. HIDE DEF d
    <2>2. unread[k - d] = <<unread[k][1], unread[k][2] - d>>
      BY <1>1, <1>2, <2>1 DEF Contiguous, Runs
    <2>. QED BY <1>5, <2>1, <2>2
  <1>. QED BY <1>4, <1>5

LEMMA FilledPlaced ==
    ASSUME NEW n \in Nat, NEW a \in Nat, NEW m \in Nat, Placed(n, a, m)
    PROVE  /\ Piece(Filled(n), Stream, a) /\ Filled(n) \in Seq(Pair)
           /\ Len(Filled(n)) \in Nat /\ a + Len(Filled(n)) = Len(buffer) + n
           /\ a = 0 \/ Len(Filled(n)) = MaxBuffer
           /\ DOMAIN Filled(n) = 1 .. Len(Filled(n))
           /\ \A x \in 1 .. Len(Filled(n)) : Filled(n)[x] = Stream[x + a]
  <1>1. /\ Piece(Filled(n), Stream, a)
        /\ a + Len(Filled(n)) = Len(buffer) + n
        /\ a = 0 \/ Len(Filled(n)) = MaxBuffer
    BY DEF Placed
  <1>2. Filled(n) \in Seq(Pair)
    BY <1>1 DEF Piece
  <1>3. /\ Len(Filled(n)) \in Nat
        /\ DOMAIN Filled(n) = 1 .. Len(Filled(n))
        /\ \A x \in DOMAIN Filled(n) : Filled(n)[x] = Stream[x + a]
    BY <1>1, PieceTypes
  <1>. QED BY <1>1, <1>2, <1>3

\* The end of such a frame, when it is read, and the frame with it are in the
\* buffer after the cut.
LEMMA WholeWhenFilled ==
    ASSUME StreamOK, NEW n \in 1 .. ReadSize, n <= Len(unread),
           NEW a \in Nat, NEW m \in Nat, Placed(n, a, m),
           NEW k \in 1 .. n, IsLF(unread[k]),
           frames[unread[k][1]].length + 1 + ReadSize <= MaxBuffer
    PROVE  \E p \in DOMAIN Filled(n) : Filled(n)[p] = unread[k] /\ unread[k][2] <= p
  <1>. DEFINE B == Len(buffer)
              K == Len(Filled(n))
              p == B + k - a
              l == frames[unread[k][1]].length
  <1>1. /\ B \in Nat /\ Len(unread) \in Nat /\ n \in Nat /\ k \in Nat \ {0} /\ k <= n
        /\ ReadSize \in Nat /\ MaxBuffer \in Nat /\ n <= ReadSize
    BY Places, WireAssumption
  <1>2. /\ Piece(Filled(n), Stream, a) /\ a + K = B + n /\ K \in Nat
        /\ a = 0 \/ K = MaxBuffer
        /\ DOMAIN Filled(n) = 1 .. K
        /\ \A x \in 1 .. K : Filled(n)[x] = Stream[x + a]
    BY <1>1, FilledPlaced
  <1>3. k \in 1 .. Len(unread)
    BY <1>1
  <1>4. /\ unread[k] = Stream[k + B]
        /\ l \in Nat /\ unread[k][2] = l + 2 /\ l + 1 + ReadSize <= MaxBuffer
    <2>1. /\ Frames /\ unread \in Seq(Pair) /\ Contiguous(unread, frames) /\ k \in DOMAIN unread
          /\ unread[k] = Stream[k + B]
      BY <1>3, Places DEF StreamOK
    <2>. QED BY <2>1, ByteTypes DEF IsLF
  <1>5. unread[k][2] <= B + k
    BY <1>3, HeldBytes
  <1>. HIDE DEF B, K, l
  <1>6. l + 2 <= p /\ p \in Nat
    <2>1. CASE a = 0
      BY <1>1, <1>4, <1>5, <2>1
    <2>2. CASE K = MaxBuffer
      <3>1. p = (MaxBuffer + k) - n
        <4>1. a + MaxBuffer = B + n
          BY <1>2, <2>2
        <4>. QED BY <1>1, <4>1
      <3>. QED BY <1>1, <1>4, <3>1
    <2>. QED BY <1>2, <2>1, <2>2
  <1>7. p \in 1 .. K /\ p + a = k + B
    BY <1>1, <1>2, <1>4, <1>6
  <1>8. Filled(n)[p] = unread[k]
    BY <1>2, <1>4, <1>7
  <1>. HIDE DEF p
  <1>. QED BY <1>2, <1>4, <1>6, <1>7, <1>8

\* Which objects a read finds: only what ends in it, and all of that is not
\* too long.
LEMMA FoundInRead ==
    ASSUME StreamOK, NEW n \in 1 .. ReadSize, n <= Len(unread),
           NEW a \in Nat, NEW m \in Nat, Placed(n, a, m)
    PROVE  /\ Filled(n) \in Seq(Pair) /\ Contiguous(Filled(n), frames)
           /\ \A i \in Found(Filled(n)) :
                 \E k \in 1 .. n : unread[k][1] = i /\ IsLF(unread[k])
           /\ \A k \in 1 .. n :
                 IsLF(unread[k]) /\ frames[unread[k][1]].object
                    /\ frames[unread[k][1]].length + 1 + ReadSize <= MaxBuffer
                 => unread[k][1] \in Found(Filled(n))
  <1>. DEFINE B == Len(buffer)
              s == Filled(n)
              K == Len(s)
  <1>1. /\ B \in Nat /\ Len(unread) \in Nat /\ n \in Nat \ {0} /\ ReadSize \in Nat
        /\ Frames /\ Contiguous(Stream, frames)
        /\ DOMAIN buffer = 1 .. B
        /\ \A x \in 1 .. B : buffer[x] = Stream[x]
        /\ \A x \in 1 .. Len(unread) : unread[x] = Stream[x + B]
    BY Places, WireAssumption DEF StreamOK
  <1>2. /\ Piece(s, Stream, a) /\ a + K = B + n /\ K \in Nat /\ s \in Seq(Pair)
        /\ DOMAIN s = 1 .. K
        /\ \A x \in 1 .. K : s[x] = Stream[x + a]
    BY <1>1, FilledPlaced
  <1>3. Contiguous(s, frames)
    BY <1>1, <1>2, PieceIsContiguous
  <1>. HIDE DEF B, s, K
  <1>4. ASSUME NEW i \in Found(s)
        PROVE  \E k \in 1 .. n : unread[k][1] = i /\ IsLF(unread[k])
    <2>1. PICK j \in ObjectEnds(s) : i = s[j][1]
      BY DEF Found
    <2>a. j \in Separators(s)
      BY <2>1 DEF ObjectEnds
    <2>b. /\ j \in DOMAIN s /\ j + 1 \in DOMAIN s /\ j \in Nat \ {0}
          /\ s[j + 1][1] = i /\ IsLF(s[j + 1])
      <3>1. Frames /\ s \in Seq(Pair)
        BY <1>1, <1>2
      <3>2. /\ j \in DOMAIN s /\ j + 1 \in DOMAIN s /\ j \in Nat \ {0}
            /\ s[j + 1][1] = s[j][1] /\ IsLF(s[j + 1])
        BY <1>3, <2>a, <3>1, SeparatorIsEnd
      <3>. QED BY <2>1, <3>2
    <2>2. /\ j \in Separators(s) /\ j \in DOMAIN s /\ j + 1 \in DOMAIN s /\ j \in Nat \ {0}
          /\ s[j + 1][1] = i /\ IsLF(s[j + 1]) /\ IsCR(s[j])
      BY <2>a, <2>b DEF Separators
    <2>. DEFINE P == j + 1 + a
    <2>3. P \in Nat /\ P <= B + n /\ P > 1 /\ P - 1 = j + a /\ (P - 1) + 1 = (j + 1) + a
      <3>1. j \in Nat /\ j > 0 /\ j + 1 <= K
        BY <1>2, <2>b
      <3>2. B \in Nat /\ K \in Nat /\ n \in Nat /\ a \in Nat /\ a + K = B + n
        BY <1>1, <1>2
      <3>3. P \in Nat /\ P > 1 /\ P - 1 = j + a /\ (P - 1) + 1 = (j + 1) + a
        BY <3>1, <3>2
      <3>4. P <= a + K
        BY <3>1, <3>2
      <3>. QED BY <3>2, <3>3, <3>4
    <2>4. s[j] = Stream[P - 1] /\ s[j + 1] = Stream[(P - 1) + 1]
      <3>1. s[j] = Stream[j + a] /\ s[j + 1] = Stream[(j + 1) + a]
        BY <1>2, <2>2
      <3>. HIDE DEF P
      <3>. QED BY <2>3, <3>1
    <2>. HIDE DEF P
    <2>5. CASE P <= B
      <3>. DEFINE e == P - 1
      <3>1. e \in 1 .. B - 1 /\ e \in 1 .. B /\ e + 1 \in 1 .. B
        BY <1>1, <2>3, <2>5
      <3>. HIDE DEF e
      <3>2. buffer[e] = s[j] /\ buffer[e + 1] = s[j + 1]
        BY <1>1, <2>4, <3>1 DEF e
      <3>3. IsCR(buffer[e]) /\ IsLF(buffer[e + 1])
        BY <2>2, <3>2
      <3>4. e \in Separators(buffer)
        BY <3>1, <3>3 DEF Separators, B
      <3>. QED BY <3>4 DEF StreamOK, Drained
    <2>6. CASE ~(P <= B)
      <3>. DEFINE k == P - B
      <3>1. k \in 1 .. n /\ k \in 1 .. Len(unread) /\ k + B = P /\ (P - 1) + 1 = P
        BY <1>1, <2>3, <2>6
      <3>. HIDE DEF k
      <3>2. unread[k] = s[j + 1]
        BY <1>1, <2>4, <3>1
      <3>. QED BY <2>2, <3>1, <3>2
    <2>. QED BY <2>5, <2>6
  <1>5. ASSUME NEW k \in 1 .. n, IsLF(unread[k]), frames[unread[k][1]].object,
               frames[unread[k][1]].length + 1 + ReadSize <= MaxBuffer
        PROVE  unread[k][1] \in Found(s)
    <2>1. PICK p \in DOMAIN s : s[p] = unread[k] /\ unread[k][2] <= p
      BY <1>5, WholeWhenFilled DEF s
    <2>2. s[p][1] \in DOMAIN frames
      BY <1>1, <1>2, <1>3, ByteTypes
    <2>3. frames[s[p][1]].object /\ frames[s[p][1]].length > 0 /\ IsLF(s[p]) /\ s[p][2] <= p
      BY <1>5, <2>1, <2>2 DEF StreamOK, NotEmpty
    <2>4. p - 1 \in Separators(s) /\ s[p - 1][1] = s[p][1] /\ IsMessage(Line(s, p - 1))
      BY <1>1, <1>2, <1>3, <2>3, WholeIsMessage
    <2>5. p - 1 \in ObjectEnds(s)
      BY <2>4 DEF ObjectEnds
    <2>. QED BY <2>1, <2>4, <2>5 DEF Found
  <1>. QED BY <1>2, <1>3, <1>4, <1>5 DEF s

\* The frames a read of n bytes reads to their last byte.
Ended(n) == {unread[k][1] : k \in {j \in 1 .. n : IsLF(unread[j])}}

LEMMA AfterRead ==
    ASSUME unread \in Seq(Pair), NEW n \in Nat \ {0}, Receive(n)
    PROVE  /\ n <= Len(unread) /\ Len(unread) \in Nat /\ frames' = frames
           /\ unread' \in Seq(Pair) /\ Len(unread') = Len(unread) - n
           /\ DOMAIN unread' = 1 .. Len(unread')
           /\ \A p \in 1 .. Len(unread') : unread'[p] = unread[p + n]
           /\ arrived' = arrived \cup Ended(n)
           /\ buffer' = Rest(Filled(n)) /\ got' = got \o Parsed(Filled(n))
  <1>. DEFINE data == SubSeq(unread, 1, n)
  <1>1. n <= Len(unread) /\ Len(unread) \in Nat /\ frames' = frames
    BY SeqTypes DEF Receive
  <1>2. unread' = SubSeq(unread, n + 1, Len(unread))
    BY DEF Receive
  <1>3. Piece(unread', unread, n) /\ Len(unread') = Len(unread) - n
    BY <1>1, <1>2, SubSeqIsPiece
  <1>4. unread' \in Seq(Pair) /\ DOMAIN unread' = 1 .. Len(unread')
    BY <1>3, SeqTypes DEF Piece
  <1>5. \A p \in 1 .. Len(unread') : unread'[p] = unread[p + n]
    BY <1>3, <1>4 DEF Piece
  <1>6. Piece(data, unread, 0) /\ Len(data) = n
    <2>1. Piece(SubSeq(unread, 0 + 1, n), unread, 0) /\ Len(SubSeq(unread, 0 + 1, n)) = n - 0
      BY <1>1, SubSeqIsPiece
    <2>. QED BY <2>1
  <1>7. arrived' = arrived \cup {data[k][1] : k \in {j \in DOMAIN data : IsLF(data[j])}}
    BY DEF Receive
  <1>8. buffer' = Rest(Filled(n)) /\ got' = got \o Parsed(Filled(n))
    BY DEF Receive, Filled
  <1>. HIDE DEF data
  <1>9. DOMAIN data = 1 .. n /\ \A k \in 1 .. n : data[k] = unread[k]
    <2>1. DOMAIN data = 1 .. n /\ \A k \in DOMAIN data : data[k] = unread[k + 0]
      BY <1>6, PieceTypes
    <2>2. \A k \in 1 .. n : k + 0 = k
      OBVIOUS
    <2>. QED BY <2>1, <2>2
  <1>10. {data[k][1] : k \in {j \in DOMAIN data : IsLF(data[j])}} = Ended(n)
    BY <1>9 DEF Ended
  <1>. QED BY <1>1, <1>3, <1>4, <1>5, <1>7, <1>8, <1>10

LEMMA PassedIs ==
    ASSUME StreamOK
    PROVE  /\ Len(frames) \in Nat /\ DOMAIN frames = 1 .. Len(frames)
           /\ Len(unread) = 0 => Passed = Len(frames)
           /\ Len(unread) > 0 => /\ Passed = unread[1][1] - 1
                                 /\ unread[1][1] \in 1 .. Len(frames)
           /\ Passed \in 0 .. Len(frames)
  <1>1. /\ unread \in Seq(Pair) /\ Contiguous(unread, frames) /\ Frames
        /\ Len(unread) \in Nat /\ DOMAIN unread = 1 .. Len(unread)
    BY Places DEF StreamOK
  <1>2. Len(frames) \in Nat /\ DOMAIN frames = 1 .. Len(frames)
    BY <1>1, SeqTypes DEF Frames
  <1>3. CASE Len(unread) = 0
    <2>1. unread = <<>>
      BY <1>1, <1>3, EmptySeq
    <2>2. Passed = Len(frames)
      BY <2>1 DEF Passed
    <2>. QED BY <1>2, <1>3, <2>2
  <1>4. CASE Len(unread) > 0
    <2>1. unread # <<>>
      BY <1>1, <1>4
    <2>2. Head(unread) = unread[1]
      BY <1>1, <2>1
    <2>3. Passed = unread[1][1] - 1
      BY <2>1, <2>2, Zenon DEF Passed
    <2>4. unread[1][1] \in 1 .. Len(frames)
      BY <1>1, <1>2, <1>4, ByteTypes
    <2>5. unread[1][1] - 1 \in 0 .. Len(frames)
      BY <1>2, <2>4
    <2>. QED BY <1>2, <1>4, <2>3, <2>4, <2>5
  <1>. QED BY <1>1, <1>3, <1>4

\* A line feed is older than every byte behind it.
LEMMA EndIsOlder ==
    ASSUME Frames, NEW s \in Seq(Pair), Contiguous(s, frames),
           NEW p \in DOMAIN s, NEW q \in DOMAIN s, p < q, IsLF(s[p])
    PROVE  s[p][1] < s[q][1]
  <1>1. \/ s[p][1] < s[q][1]
        \/ s[p][1] = s[q][1] /\ s[q][2] - s[p][2] = q - p
    BY DEF Contiguous, Ordered
  <1>2. CASE s[p][1] = s[q][1] /\ s[q][2] - s[p][2] = q - p
    <2>. DEFINE l == frames[s[p][1]].length
    <2>1. s[p][2] = l + 2 /\ s[q][2] \in Nat /\ s[q][2] <= l + 2 /\ l \in Nat /\ p \in Nat /\ q \in Nat
      BY <1>2, ByteTypes DEF IsLF
    <2>. HIDE DEF l
    <2>. QED BY <1>2, <2>1
  <1>. QED BY <1>1, <1>2

\* Bytes later in the stream are of the same frame or of a later one.
LEMMA NotYounger ==
    ASSUME Frames, NEW s \in Seq(Pair), Contiguous(s, frames),
           NEW p \in DOMAIN s, NEW q \in DOMAIN s, p <= q
    PROVE  s[p][1] <= s[q][1] /\ s[p][1] \in Nat /\ s[q][1] \in Nat
  <1>1. s[p][1] \in Nat /\ s[q][1] \in Nat /\ p \in Nat /\ q \in Nat
    BY ByteTypes
  <1>2. CASE p = q
    BY <1>1, <1>2
  <1>3. CASE p < q
    <2>1. \/ s[p][1] < s[q][1]
          \/ s[p][1] = s[q][1] /\ s[q][2] - s[p][2] = q - p
      BY <1>3 DEF Contiguous, Ordered
    <2>. QED BY <1>1, <2>1
  <1>. QED BY <1>1, <1>2, <1>3

\* A read takes the frames that follow those that have arrived, without a gap.
LEMMA ReadArrives ==
    ASSUME StreamOK, NEW n \in Nat \ {0}, Receive(n)
    PROVE  /\ Ended(n) = (Passed + 1) .. Passed'
           /\ Passed \in Nat /\ Passed' \in Nat
           /\ Passed <= Passed' /\ Passed' <= Len(frames)
  <1>. DEFINE U == Len(unread)
  <1>1. /\ unread \in Seq(Pair) /\ Contiguous(unread, frames) /\ Frames
        /\ U \in Nat /\ DOMAIN unread = 1 .. U
    BY Places DEF StreamOK
  <1>2. /\ n <= U /\ frames' = frames /\ unread' \in Seq(Pair) /\ Len(unread') = U - n
        /\ \A p \in 1 .. Len(unread') : unread'[p] = unread[p + n]
    BY <1>1, AfterRead
  <1>3. /\ U > 0 /\ 1 \in DOMAIN unread /\ n \in DOMAIN unread
        /\ Passed = unread[1][1] - 1 /\ unread[1][1] \in 1 .. Len(frames) /\ Len(frames) \in Nat
        /\ DOMAIN frames = 1 .. Len(frames)
    BY <1>1, <1>2, PassedIs
  <1>. HIDE DEF U
  <1>a. Passed + 1 = unread[1][1] /\ Passed \in Nat /\ unread[1][1] \in Nat
    BY <1>3
  <1>b. Gapless(unread, frames)
    BY <1>1 DEF Contiguous
  <1>4. CASE n < U
    <2>1. n + 1 \in DOMAIN unread /\ 1 \in 1 .. Len(unread') /\ 1 + n = n + 1 /\ Len(unread') > 0
      BY <1>1, <1>2, <1>4
    <2>2. unread'[1] = unread[n + 1]
      BY <1>2, <2>1
    <2>3. Passed' = unread[n + 1][1] - 1
      <3>1. unread' # <<>>
        BY <1>2, <2>1
      <3>2. Head(unread') = unread'[1]
        BY <1>2, <3>1
      <3>. QED BY <2>2, <3>1, <3>2, Zenon DEF Passed
    <2>4. unread[n + 1][1] \in 1 .. Len(frames)
      BY <1>1, <1>3, <2>1, ByteTypes
    <2>5. ASSUME NEW k \in 1 .. n, IsLF(unread[k])
          PROVE  unread[k][1] \in (Passed + 1) .. Passed'
      <3>1. k \in DOMAIN unread /\ k < n + 1 /\ 1 <= k
        BY <1>1, <1>2
      <3>2. unread[k][1] < unread[n + 1][1]
        BY <1>1, <2>1, <2>5, <3>1, EndIsOlder
      <3>3. unread[1][1] <= unread[k][1] /\ unread[k][1] \in Nat
        BY <1>1, <1>3, <3>1, NotYounger
      <3>4. unread[n + 1][1] \in Nat
        BY <2>4
      <3>. QED BY <1>a, <2>3, <3>2, <3>3, <3>4
    <2>6. ASSUME NEW x \in (Passed + 1) .. Passed'
          PROVE  x \in Ended(n)
      <3>0. x \in Nat /\ unread[1][1] <= x /\ x < unread[n + 1][1]
        BY <1>a, <2>3, <2>4
      <3>1. x \in Nat /\ unread[1][1] <= x /\ x < unread[n + 1][1] /\ x \in DOMAIN frames
        BY <1>3, <2>4, <3>0
      <3>. DEFINE q == n + 1
      <3>2. 1 < q /\ q - 1 = n /\ q \in DOMAIN unread /\ x < unread[q][1]
        BY <2>1, <3>1
      <3>. HIDE DEF q
      <3>a. 1 \in DOMAIN unread
        BY <1>3
      <3>3. PICK r \in 1 .. q - 1 : unread[r][1] = x /\ IsEnd(unread[r], frames)
        BY <1>b, <3>1, <3>2, <3>a DEF Gapless
      <3>4. r \in 1 .. n /\ IsLF(unread[r])
        BY <3>2, <3>3 DEF IsEnd, IsLF
      <3>. QED BY <3>3, <3>4, Zenon DEF Ended
    <2>7. unread[1][1] <= unread[n + 1][1]
      BY <1>1, <1>3, <2>1, NotYounger
    <2>8. Ended(n) = (Passed + 1) .. Passed'
      BY <2>5, <2>6 DEF Ended
    <2>9. /\ Passed \in Nat /\ Passed' \in Nat
          /\ Passed <= Passed' /\ Passed' <= Len(frames)
      <3>1. unread[n + 1][1] \in Nat /\ unread[n + 1][1] <= Len(frames) /\ 1 <= unread[n + 1][1]
        BY <1>3, <2>4
      <3>2. Passed' \in Nat /\ Passed' <= Len(frames)
        <4>1. Len(frames) \in Nat
          BY <1>3
        <4>. QED BY <2>3, <3>1, <4>1
      <3>3. Passed <= Passed'
        <4>. HIDE DEF Passed
        <4>1. Passed = unread[1][1] - 1
          BY <1>3
        <4>2. unread[1][1] - 1 <= unread[n + 1][1] - 1
          BY <1>a, <2>7, <3>1
        <4>. QED BY <2>3, <4>1, <4>2
      <3>. QED BY <1>a, <3>2, <3>3
    <2>. QED BY <2>8, <2>9
  <1>5. CASE n = U
    <2>1. Passed' = Len(frames)
      <3>1. Len(unread') = 0
        BY <1>1, <1>2, <1>5
      <3>2. unread' = <<>>
        BY <1>2, <3>1, EmptySeq
      <3>. QED BY <1>2, <3>2 DEF Passed
    <2>2. unread[U][1] = Len(frames) /\ IsLF(unread[U])
      <3>1. /\ Len(Stream) > 0 /\ Len(Stream) = U + Len(buffer)
            /\ unread[U] = Stream[U + Len(buffer)]
        <4>1. /\ Len(Stream) = Len(buffer) + U /\ Len(buffer) \in Nat
              /\ \A p \in 1 .. U : unread[p] = Stream[p + Len(buffer)]
          BY Places DEF U
        <4>2. U \in 1 .. U
          BY <1>1, <1>3
        <4>. QED BY <1>1, <1>3, <4>1, <4>2
      <3>. QED BY <3>1 DEF StreamOK, Complete
    <2>3. ASSUME NEW k \in 1 .. n, IsLF(unread[k])
          PROVE  unread[k][1] \in (Passed + 1) .. Passed'
      <3>1. k \in DOMAIN unread /\ 1 <= k
        BY <1>1, <1>2
      <3>2. unread[k][1] \in 1 .. Len(frames)
        BY <1>1, <1>3, <3>1, ByteTypes
      <3>3. unread[1][1] <= unread[k][1] /\ unread[k][1] \in Nat
        BY <1>1, <1>3, <3>1, NotYounger
      <3>. QED BY <1>3, <2>1, <3>2, <3>3
    <2>4. ASSUME NEW x \in (Passed + 1) .. Passed'
          PROVE  x \in Ended(n)
      <3>1. x \in Nat /\ unread[1][1] <= x /\ x <= Len(frames) /\ x \in DOMAIN frames
        BY <1>3, <2>1
      <3>2. CASE x = Len(frames)
        <4>1. n \in 1 .. n /\ unread[n][1] = x /\ IsLF(unread[n])
          BY <1>5, <2>2, <3>2
        <4>. QED BY <4>1, Zenon DEF Ended
      <3>3. CASE x < Len(frames)
        <4>1. unread[1][1] # unread[n][1] /\ x < unread[n][1]
          BY <1>3, <1>5, <2>2, <3>1, <3>3
        <4>2. 1 < n
          BY <4>1
        <4>3. PICK r \in 1 .. n - 1 : unread[r][1] = x /\ IsEnd(unread[r], frames)
          <5>1. 1 \in DOMAIN unread /\ n \in DOMAIN unread
            BY <1>3
          <5>. QED BY <1>b, <3>1, <4>1, <4>2, <5>1 DEF Gapless
        <4>4. r \in 1 .. n /\ IsLF(unread[r])
          BY <4>3 DEF IsEnd, IsLF
        <4>. QED BY <4>3, <4>4, Zenon DEF Ended
      <3>a. \A y \in Nat : x <= y => x = y \/ x < y
        BY <3>1
      <3>4. x = Len(frames) \/ x < Len(frames)
        BY <1>3, <3>1, <3>a, Zenon
      <3>. QED BY <3>2, <3>3, <3>4
    <2>5. Ended(n) = (Passed + 1) .. Passed'
      BY <2>3, <2>4 DEF Ended
    <2>. QED BY <1>3, <2>1, <2>5
  <1>. QED BY <1>1, <1>2, <1>4, <1>5

WireIInv ==
    /\ WireTypeOK /\ StreamOK
    /\ Ahead /\ Unfinished
    /\ OnlyWhatWasSent /\ OnlyLongFramesLost
-----------------------------------------------------------------------------
(* A read.                                                                 *)

\* What is kept holds what has been read of the frame that is being read: the
\* last separator is before it, and a cut leaves room for it.
LEMMA ReadHolds ==
    ASSUME StreamOK, NEW n \in 1 .. ReadSize, Receive(n),
           NEW a \in Nat, NEW m \in Nat, Placed(n, a, m)
    PROVE  Held'
  <1>. DEFINE B == Len(buffer)
              H == Len(buffer')
              i == unread[n + 1][1]
              q == unread[n + 1][2]
              l == frames[i].length
              P == n + 1
  <1>1. /\ Frames /\ Contiguous(Stream, frames) /\ unread \in Seq(Pair) /\ Contiguous(unread, frames)
        /\ Stream \in Seq(Pair) /\ DOMAIN Stream = 1 .. Len(Stream) /\ Len(Stream) = B + Len(unread)
        /\ B \in Nat /\ Len(unread) \in Nat /\ DOMAIN unread = 1 .. Len(unread)
        /\ \A p \in 1 .. Len(unread) : unread[p] = Stream[p + B]
    BY Places DEF StreamOK
  <1>2. /\ n \in Nat \ {0} /\ ReadSize \in Nat /\ MaxBuffer \in Nat
    BY WireAssumption
  <1>3. /\ frames' = frames /\ Len(unread') = Len(unread) - n
        /\ \A p \in 1 .. Len(unread') : unread'[p] = unread[p + n]
    BY <1>1, <1>2, AfterRead
  <1>4. /\ (a + m) + H = B + n /\ H \in Nat
        /\ m = 0 \/ m - 1 \in Separators(Filled(n))
    <2>1. Piece(buffer', Stream, a + m)
      BY DEF Placed
    <2>2. H \in Nat
      BY <2>1, PieceTypes
    <2>. QED BY <2>2 DEF Placed
  <1>5. /\ Filled(n) \in Seq(Pair) /\ Len(Filled(n)) \in Nat /\ a + Len(Filled(n)) = B + n
        /\ a = 0 \/ Len(Filled(n)) = MaxBuffer
        /\ DOMAIN Filled(n) = 1 .. Len(Filled(n))
        /\ \A x \in 1 .. Len(Filled(n)) : Filled(n)[x] = Stream[x + a]
        /\ Piece(Filled(n), Stream, a)
    BY <1>2, FilledPlaced
  <1>6. Contiguous(Filled(n), frames)
    BY <1>1, <1>5, PieceIsContiguous
  <1>. SUFFICES ASSUME Len(unread') > 0, l + 1 + ReadSize <= MaxBuffer, ~(q <= H + 1)
                PROVE  FALSE
    <2>1. Len(unread') > 0 => unread'[1] = unread[n + 1]
      <3>1. Len(unread') > 0 => 1 \in 1 .. Len(unread') /\ 1 + n = n + 1
        BY <1>1, <1>2, <1>3
      <3>. QED BY <1>3, <3>1
    <2>. QED BY <1>3, <2>1, Zenon DEF Held
  <1>. HIDE DEF B, H
  <1>7. P \in DOMAIN unread /\ P \in 1 .. Len(unread) /\ P \in Nat \ {0}
    BY <1>1, <1>2, <1>3
  <1>. HIDE DEF P
  <1>8. q \in Nat \ {0} /\ l \in Nat /\ q <= l + 2 /\ q = unread[P][2] /\ i = unread[P][1]
    BY <1>1, <1>7, ByteTypes DEF P
  <1>9. q <= B + P
    BY <1>7, <1>8, HeldBytes DEF B
  <1>. HIDE DEF l, q, i
  <1>10. CASE m = 0
    <2>1. CASE a = 0
      BY <1>1, <1>2, <1>4, <1>8, <1>9, <1>10, <2>1 DEF P
    <2>2. CASE Len(Filled(n)) = MaxBuffer
      <3>1. H = MaxBuffer
        BY <1>1, <1>2, <1>4, <1>5, <1>10, <2>2
      <3>. QED BY <1>2, <1>8, <3>1
    <2>. QED BY <1>5, <2>1, <2>2
  <1>11. CASE m # 0
    <2>. DEFINE d == H + 1
                x == P + B
    <2>1. /\ m \in DOMAIN Filled(n) /\ IsLF(Filled(n)[m]) /\ m \in 1 .. Len(Filled(n))
      <3>. DEFINE j == m - 1
      <3>1. j \in Separators(Filled(n)) /\ j + 1 = m
        BY <1>4, <1>11
      <3>. HIDE DEF j
      <3>. QED BY <1>1, <1>5, <1>6, <3>1, SeparatorIsEnd
    <2>2. Filled(n)[m] = Stream[m + a]
      BY <1>5, <2>1
    <2>3. d \in Nat /\ d < q
      BY <1>4, <1>8
    <2>4. x \in Nat /\ d < x /\ x - d = m + a
      <3>1. x = n + 1 + B /\ B + n = a + m + H /\ H \in Nat /\ B \in Nat /\ n \in Nat /\ m > 0
        BY <1>1, <1>2, <1>4, <1>11 DEF P
      <3>. QED BY <3>1
    <2>5. x \in DOMAIN Stream
      BY <1>1, <1>7
    <2>6. unread[P] = Stream[x]
      BY <1>1, <1>7
    <2>. HIDE DEF d, x
    <2>7. Stream[x][1] = i /\ Stream[x][2] = q
      BY <1>8, <2>6
    <2>8. Stream[x - d] = <<Stream[x][1], Stream[x][2] - d>>
      BY <1>1, <2>3, <2>4, <2>5, <2>7 DEF Contiguous, Runs
    <2>9. Filled(n)[m] = <<i, q - d>>
      BY <2>2, <2>4, <2>7, <2>8
    <2>10. q - d = l + 2
      BY <2>1, <2>9 DEF IsLF, l
    <2>11. d > 0
      BY <1>4 DEF d
    <2>. QED BY <1>8, <2>3, <2>10, <2>11
  <1>. QED BY <1>10, <1>11

\* A read leaves a piece of the stream, up to its end.
LEMMA ReadStream ==
    ASSUME StreamOK, NEW n \in 1 .. ReadSize, Receive(n),
           NEW a \in Nat, NEW m \in Nat, Placed(n, a, m)
    PROVE  StreamOK'
  <1>1. n \in Nat \ {0}
    BY WireAssumption
  <1>2. /\ Frames /\ unread \in Seq(Pair) /\ Contiguous(Stream, frames)
        /\ Stream \in Seq(Pair) /\ Len(Stream) \in Nat
        /\ Complete /\ NotEmpty
    BY Places, SeqTypes DEF StreamOK
  <1>3. frames' = frames /\ unread' \in Seq(Pair) /\ buffer' = Rest(Filled(n))
    BY <1>1, <1>2, AfterRead
  <1>4. Frames' /\ NotEmpty'
    BY <1>2, <1>3 DEF Frames, NotEmpty
  <1>5. Piece(buffer', Stream, a + m) /\ Piece(Stream', Stream, a + m)
        /\ (a + m) + Len(Stream') = Len(Stream)
    BY DEF Placed
  <1>6. buffer' \in Seq(Pair)
    BY <1>5 DEF Piece
  <1>7. Contiguous(Stream', frames')
    BY <1>2, <1>3, <1>5, PieceIsContiguous
  <1>8. Complete'
    <2>. SUFFICES ASSUME Len(Stream') > 0
                  PROVE  /\ Stream'[Len(Stream')][1] = Len(frames')
                         /\ IsLF(Stream[Len(Stream)])'
      BY DEF Complete
    <2>1. Len(Stream') \in Nat /\ DOMAIN Stream' = 1 .. Len(Stream')
          /\ \A p \in DOMAIN Stream' : Stream'[p] = Stream[p + (a + m)]
      <3>1. Piece(Stream', Stream, a + m)
        BY <1>5
      <3>2. /\ Len(Stream') \in Nat /\ DOMAIN Stream' = 1 .. Len(Stream')
            /\ \A p \in DOMAIN Stream' :
                  p \in Nat \ {0} /\ p + (a + m) \in DOMAIN Stream /\ Stream'[p] = Stream[p + (a + m)]
        BY <3>1, PieceTypes
      <3>. QED BY <3>2
    <2>2. Len(Stream') \in DOMAIN Stream' /\ Len(Stream') + (a + m) = Len(Stream) /\ Len(Stream) > 0
      BY <1>2, <1>5, <2>1
    <2>3. Stream'[Len(Stream')] = Stream[Len(Stream)]
      BY <2>1, <2>2
    <2>. QED BY <1>2, <1>3, <2>2, <2>3 DEF Complete, IsLF
  <1>9. Drained'
    <2>1. Filled(n) \in Seq(Pair)
      BY <1>1, FilledPlaced
    <2>2. Separators(buffer') = {}
      BY <1>3, <2>1, RestHasNone
    <2>. QED BY <1>3, <2>2 DEF Drained, Separators, IsCR, IsLF
  <1>10. Held'
    BY ReadHolds
  <1>. QED BY <1>3, <1>4, <1>6, <1>7, <1>8, <1>9, <1>10 DEF StreamOK

\* What a read finds is in the stream, and older than what it leaves there.
LEMMA FoundPlace ==
    ASSUME StreamOK, NEW n \in 1 .. ReadSize, Receive(n),
           NEW a \in Nat, NEW m \in Nat, Placed(n, a, m), NEW i \in Found(Filled(n))
    PROVE  /\ \E p \in DOMAIN Stream : Stream[p][1] = i
           /\ \A p \in DOMAIN Stream' : i < Stream'[p][1]
  <1>1. /\ Frames /\ Contiguous(Stream, frames) /\ Stream \in Seq(Pair)
        /\ DOMAIN Stream = 1 .. Len(Stream) /\ Len(Stream) \in Nat
    BY Places, SeqTypes DEF StreamOK
  <1>2. n \in Nat
    OBVIOUS
  <1>3. /\ Filled(n) \in Seq(Pair) /\ Len(Filled(n)) \in Nat
        /\ DOMAIN Filled(n) = 1 .. Len(Filled(n))
        /\ \A x \in 1 .. Len(Filled(n)) : Filled(n)[x] = Stream[x + a]
        /\ Piece(Filled(n), Stream, a)
    BY <1>2, FilledPlaced
  <1>4. Contiguous(Filled(n), frames)
    BY <1>1, <1>3, PieceIsContiguous
  <1>5. PICK j \in Separators(Filled(n)) : i = Filled(n)[j][1]
    BY DEF Found, ObjectEnds
  <1>6. /\ j + 1 \in DOMAIN Filled(n) /\ j \in Nat
        /\ Filled(n)[j + 1][1] = i /\ IsLF(Filled(n)[j + 1])
    BY <1>1, <1>3, <1>4, <1>5, SeparatorIsEnd
  <1>7. j + 1 <= m
    BY DEF Placed
  <1>. DEFINE e == (j + 1) + a
  <1>8. e \in DOMAIN Stream /\ e <= a + m /\ e \in Nat
    <2>1. e \in DOMAIN Stream
      BY <1>3, <1>6, PieceTypes
    <2>. QED BY <1>6, <1>7, <2>1
  <1>9. Stream[e][1] = i /\ IsLF(Stream[e])
    BY <1>3, <1>6
  <1>. HIDE DEF e
  <1>10. ASSUME NEW p \in DOMAIN Stream' PROVE i < Stream'[p][1]
    <2>1. Piece(Stream', Stream, a + m)
      BY DEF Placed
    <2>. DEFINE x == p + (a + m)
    <2>2. p \in Nat \ {0} /\ x \in DOMAIN Stream /\ Stream'[p] = Stream[x]
      BY <2>1, PieceTypes
    <2>3. e < x
      BY <1>8, <2>2
    <2>. HIDE DEF x
    <2>4. Stream[e][1] < Stream[x][1]
      BY <1>1, <1>8, <1>9, <2>2, <2>3, EndIsOlder
    <2>. QED BY <1>9, <2>2, <2>4
  <1>. QED BY <1>8, <1>9, <1>10

\* What is handed on after a read: what was, then what the read has found.
LEMMA GotAfter ==
    ASSUME StreamOK, got \in Seq(DOMAIN frames), NEW n \in 1 .. ReadSize, Receive(n),
           NEW a \in Nat, NEW m \in Nat, Placed(n, a, m)
    PROVE  LET s == Filled(n)
               found == Parsed(s)
           IN  /\ Found(s) \in SUBSET DOMAIN frames
               /\ Ascends(found, Found(s)) /\ found = C!InOrder(Found(s))
               /\ got' = got \o found /\ got' \in Seq(DOMAIN frames)
               /\ Len(got) \in Nat /\ DOMAIN got = 1 .. Len(got)
               /\ \A x \in DOMAIN got : x \in DOMAIN got' /\ got'[x] = got[x]
               /\ \A y \in DOMAIN found : Len(got) + y \in DOMAIN got' /\ got'[Len(got) + y] = found[y]
               /\ \A x \in DOMAIN got' :
                     \/ x \in DOMAIN got
                     \/ x > Len(got) /\ x - Len(got) \in DOMAIN found
  <1>. DEFINE s == Filled(n)
              found == Parsed(s)
              D == DOMAIN frames
              F == Found(s)
  <1>1. n <= Len(unread) /\ got' = got \o found /\ unread \in Seq(Pair) /\ n \in Nat \ {0}
    BY AfterRead DEF StreamOK
  <1>2. s \in Seq(Pair) /\ Contiguous(s, frames) /\ Frames
    BY <1>1, FoundInRead DEF StreamOK
  <1>3. F \in SUBSET (1 .. Len(frames)) /\ Len(frames) \in Nat /\ F \in SUBSET D
    BY <1>2, FoundTypes
  <1>4. Ascends(found, F) /\ found = C!InOrder(F)
    BY <1>2, ParsedIsFound
  <1>. HIDE DEF F, s, found
  <1>5. found \in [1 .. Cardinality(F) -> F] /\ Cardinality(F) \in Nat
    BY <1>3, <1>4, PositionsFinite DEF Ascends
  <1>. DEFINE c == Cardinality(F)
  <1>. HIDE DEF c
  <1>6. found \in Seq(D) /\ Len(found) = c /\ DOMAIN found = 1 .. c /\ c \in Nat
    <2>. HIDE DEF D
    <2>1. found \in [1 .. c -> D]
      BY <1>3, <1>5 DEF c
    <2>. QED BY <1>5, <2>1 DEF c
  <1>. HIDE DEF D
  <1>7. got \in Seq(D)
    BY DEF D
  <1>8. Len(got) \in Nat /\ DOMAIN got = 1 .. Len(got)
    BY <1>7, SeqTypes
  <1>9. /\ got \o found \in Seq(D) /\ Len(got \o found) = Len(got) + c
        /\ \A x \in 1 .. Len(got) + c :
              (got \o found)[x] = IF x <= Len(got) THEN got[x] ELSE found[x - Len(got)]
    BY <1>6, <1>7, ConcatProperties
  <1>10. DOMAIN got' = 1 .. Len(got) + c /\ got' \in Seq(D)
    BY <1>1, <1>9, SeqTypes
  <1>11. \A x \in DOMAIN got : x \in DOMAIN got' /\ got'[x] = got[x]
    BY <1>1, <1>6, <1>8, <1>9, <1>10
  <1>12. ASSUME NEW y \in DOMAIN found
         PROVE  Len(got) + y \in DOMAIN got' /\ got'[Len(got) + y] = found[y]
    <2>1. /\ y \in 1 .. c /\ Len(got) + y \in 1 .. Len(got) + c
          /\ ~(Len(got) + y <= Len(got)) /\ (Len(got) + y) - Len(got) = y
      BY <1>6, <1>8
    <2>. QED BY <1>1, <1>9, <1>10, <2>1
  <1>13. ASSUME NEW x \in DOMAIN got'
         PROVE  \/ x \in DOMAIN got
                \/ x > Len(got) /\ x - Len(got) \in DOMAIN found
    BY <1>6, <1>8, <1>10
  <1>. QED BY <1>1, <1>3, <1>4, <1>8, <1>10, <1>11, <1>12, <1>13 DEF s, found, D, F

\* A read keeps the invariant.
LEMMA BytesReadStep ==
    ASSUME WireIInv, NEW n \in 1 .. ReadSize, Receive(n)
    PROVE  WireIInv'
  <1>1. /\ StreamOK /\ Frames /\ unread \in Seq(Pair) /\ buffer \in Seq(Pair)
        /\ Ahead /\ Unfinished /\ OnlyWhatWasSent /\ OnlyLongFramesLost
        /\ got \in Seq(DOMAIN frames) /\ arrived \subseteq DOMAIN frames
    BY DEF WireIInv, StreamOK, WireTypeOK
  <1>2. n \in Nat \ {0} /\ ReadSize \in Nat
    BY WireAssumption
  <1>3. PICK a \in Nat, m \in Nat : Placed(n, a, m)
    BY <1>1, <1>2, ReadPlaces
  <1>. DEFINE s == Filled(n)
              F == Found(s)
              found == Parsed(s)
  <1>4. /\ n <= Len(unread) /\ Len(unread) \in Nat /\ frames' = frames
        /\ unread' \in Seq(Pair) /\ Len(unread') = Len(unread) - n
        /\ DOMAIN unread' = 1 .. Len(unread')
        /\ \A p \in 1 .. Len(unread') : unread'[p] = unread[p + n]
        /\ arrived' = arrived \cup Ended(n)
    BY <1>1, <1>2, AfterRead
  <1>5. /\ F \in SUBSET DOMAIN frames /\ Ascends(found, F)
        /\ got' \in Seq(DOMAIN frames) /\ Len(got) \in Nat /\ DOMAIN got = 1 .. Len(got)
        /\ \A x \in DOMAIN got : x \in DOMAIN got' /\ got'[x] = got[x]
        /\ \A y \in DOMAIN found : Len(got) + y \in DOMAIN got' /\ got'[Len(got) + y] = found[y]
        /\ \A x \in DOMAIN got' :
              \/ x \in DOMAIN got
              \/ x > Len(got) /\ x - Len(got) \in DOMAIN found
    BY <1>1, <1>3, GotAfter
  <1>6. \A i \in F : /\ frames[i].object
                     /\ \E p \in DOMAIN Stream : Stream[p][1] = i
                     /\ \A p \in DOMAIN Stream' : i < Stream'[p][1]
    <2>1. s \in Seq(Pair) /\ Contiguous(s, frames)
      BY <1>1, <1>3, <1>4, FoundInRead
    <2>. QED BY <1>1, <1>3, <2>1, FoundTypes, FoundPlace
  <1>7. /\ Piece(Stream', Stream, a + m) /\ Piece(buffer', Stream, a + m)
        /\ Len(buffer') <= MaxBuffer
    BY <1>3 DEF Placed
  <1>. HIDE DEF s, F, found
  <1>8. \A y \in DOMAIN found : found[y] \in F /\ found[y] \in Nat
    <2>1. DOMAIN frames \subseteq Nat
      BY <1>1, FrameTypes
    <2>. QED BY <1>5, <2>1 DEF Ascends
  <1>9. StreamOK'
    BY <1>1, <1>3, ReadStream
  <1>10. Ahead'
    <2>. SUFFICES ASSUME NEW x \in DOMAIN got', NEW p \in DOMAIN Stream'
                  PROVE  got'[x] < Stream'[p][1]
      BY DEF Ahead
    <2>1. CASE x \in DOMAIN got
      <3>1. p + (a + m) \in DOMAIN Stream /\ Stream'[p] = Stream[p + (a + m)]
        BY <1>7, PieceTypes
      <3>2. got[x] < Stream[p + (a + m)][1]
        BY <1>1, <2>1, <3>1 DEF Ahead
      <3>. QED BY <1>5, <2>1, <3>1, <3>2
    <2>2. CASE x > Len(got) /\ x - Len(got) \in DOMAIN found
      <3>. DEFINE y == x - Len(got)
      <3>1. y \in DOMAIN found /\ Len(got) + y = x
        <4>1. DOMAIN got' = 1 .. Len(got') /\ Len(got') \in Nat
          BY <1>5, SeqTypes
        <4>. QED BY <1>5, <2>2, <4>1
      <3>. HIDE DEF y
      <3>2. got'[x] \in F
        BY <1>5, <1>8, <3>1
      <3>. QED BY <1>6, <3>2
    <2>. QED BY <1>5, <2>1, <2>2
  <1>11. Unfinished'
    <2>. SUFFICES ASSUME NEW i \in arrived', NEW p \in DOMAIN unread'
                  PROVE  i < unread'[p][1]
      BY DEF Unfinished
    <2>1. /\ DOMAIN unread = 1 .. Len(unread) /\ Contiguous(unread, frames)
      BY <1>1, Places
    <2>2. p + n \in DOMAIN unread /\ unread'[p] = unread[p + n] /\ p \in Nat \ {0}
      BY <1>2, <1>4, <2>1
    <2>3. CASE i \in arrived
      BY <1>1, <2>2, <2>3 DEF Unfinished
    <2>4. CASE i \in Ended(n)
      <3>1. PICK k \in 1 .. n : IsLF(unread[k]) /\ unread[k][1] = i
        BY <2>4 DEF Ended
      <3>2. k \in DOMAIN unread /\ k < p + n
        BY <1>2, <1>4, <2>1, <2>2
      <3>3. unread[k][1] < unread[p + n][1]
        BY <1>1, <2>1, <2>2, <3>1, <3>2, EndIsOlder
      <3>. QED BY <2>2, <3>1, <3>3
    <2>. QED BY <1>4, <2>3, <2>4
  <1>12. OnlyWhatWasSent'
    <2>1. ASSUME NEW x \in DOMAIN got' PROVE frames[got'[x]].object
      <3>1. CASE x \in DOMAIN got
        BY <1>1, <1>5, <3>1 DEF OnlyWhatWasSent
      <3>2. CASE x > Len(got) /\ x - Len(got) \in DOMAIN found
        <4>. DEFINE y == x - Len(got)
        <4>1. y \in DOMAIN found /\ Len(got) + y = x
          <5>1. DOMAIN got' = 1 .. Len(got') /\ Len(got') \in Nat
            BY <1>5, SeqTypes
          <5>. QED BY <1>5, <3>2, <5>1
        <4>. HIDE DEF y
        <4>. QED BY <1>5, <1>6, <1>8, <4>1
      <3>. QED BY <1>5, <3>1, <3>2
    <2>2. ASSUME NEW x \in DOMAIN got', NEW z \in DOMAIN got', x < z PROVE got'[x] < got'[z]
      <3>0. DOMAIN got' = 1 .. Len(got') /\ Len(got') \in Nat
        BY <1>5, SeqTypes
      <3>1. CASE z \in DOMAIN got
        <4>1. x \in DOMAIN got
          BY <1>5, <2>2, <3>0, <3>1
        <4>. QED BY <1>1, <1>5, <2>2, <3>1, <4>1 DEF OnlyWhatWasSent
      <3>2. CASE x \in DOMAIN got /\ z > Len(got) /\ z - Len(got) \in DOMAIN found
        <4>. DEFINE y == z - Len(got)
        <4>1. y \in DOMAIN found /\ Len(got) + y = z
          BY <1>5, <3>0, <3>2
        <4>. HIDE DEF y
        <4>2. got'[z] \in F
          BY <1>5, <1>8, <4>1
        <4>3. PICK p \in DOMAIN Stream : Stream[p][1] = got'[z]
          BY <1>6, <4>2
        <4>. QED BY <1>1, <1>5, <3>2, <4>3 DEF Ahead
      <3>3. CASE ~(x \in DOMAIN got) /\ ~(z \in DOMAIN got)
        <4>. DEFINE y == x - Len(got)
                    w == z - Len(got)
        <4>1. /\ y \in DOMAIN found /\ Len(got) + y = x
              /\ w \in DOMAIN found /\ Len(got) + w = z
          BY <1>5, <3>0, <3>3
        <4>2. y < w
          BY <1>5, <2>2, <3>0
        <4>. HIDE DEF y, w
        <4>3. found[y] < found[w]
          BY <1>5, <4>1, <4>2 DEF Ascends
        <4>. QED BY <1>5, <4>1, <4>3
      <3>. QED BY <1>5, <3>1, <3>2, <3>3
    <2>. QED BY <1>4, <2>1, <2>2 DEF OnlyWhatWasSent
  <1>13. OnlyLongFramesLost'
    <2>. SUFFICES ASSUME NEW i \in arrived', frames[i].object,
                         frames[i].length + 1 + ReadSize <= MaxBuffer
                  PROVE  \E x \in DOMAIN got' : got'[x] = i
      BY <1>4 DEF OnlyLongFramesLost
    <2>1. CASE i \in arrived
      <3>1. PICK x \in DOMAIN got : got[x] = i
        BY <1>1, <2>1 DEF OnlyLongFramesLost
      <3>. QED BY <1>5, <3>1
    <2>2. CASE i \in Ended(n)
      <3>1. PICK k \in 1 .. n : IsLF(unread[k]) /\ unread[k][1] = i
        BY <2>2 DEF Ended
      <3>2. i \in F
        BY <1>1, <1>3, <1>4, <3>1, FoundInRead DEF F, s
      <3>3. PICK y \in DOMAIN found : found[y] = i
        BY <1>5, <3>2 DEF Ascends
      <3>. QED BY <1>5, <3>3
    <2>. QED BY <1>4, <2>1, <2>2
  <1>14. WireTypeOK'
    <2>1. Frames' /\ unread' \in Seq(Pair) /\ buffer' \in Seq(Pair)
      BY <1>9 DEF StreamOK
    <2>2. Ended(n) \subseteq DOMAIN frames
      <3>1. ASSUME NEW k \in 1 .. n PROVE unread[k][1] \in DOMAIN frames
        <4>1. Contiguous(unread, frames) /\ k \in DOMAIN unread
          BY <1>1, <1>4, Places
        <4>. QED BY <1>1, <4>1, ByteTypes
      <3>. QED BY <3>1 DEF Ended
    <2>. QED BY <1>1, <1>4, <1>5, <1>7, <2>1, <2>2 DEF WireTypeOK, Frames, Frame, Pair
  <1>. QED BY <1>9, <1>10, <1>11, <1>12, <1>13, <1>14 DEF WireIInv

-----------------------------------------------------------------------------
(* The other steps.                                                        *)

\* Frames whose lengths are known keep their bytes when another is sent.
LEMMA FrameSent ==
    ASSUME Frames, NEW n \in Lengths, NEW object \in BOOLEAN,
           frames' = Append(frames, [length |-> n, object |-> object])
    PROVE  /\ Frames' /\ Len(frames) \in Nat /\ n \in Nat
           /\ Len(frames') = Len(frames) + 1 /\ DOMAIN frames' = 1 .. Len(frames) + 1
           /\ DOMAIN frames = 1 .. Len(frames)
           /\ \A i \in DOMAIN frames : i \in DOMAIN frames' /\ frames'[i] = frames[i]
           /\ frames'[Len(frames) + 1].length = n
           /\ frames'[Len(frames) + 1].object = object
  <1>. DEFINE f == [length |-> n, object |-> object]
  <1>1. f \in Frame /\ f.length = n /\ f.object = object
    BY DEF Frame
  <1>2. frames \in Seq(Frame) /\ n \in Nat
    BY WireAssumption DEF Frames
  <1>3. Len(frames) \in Nat /\ DOMAIN frames = 1 .. Len(frames)
    BY <1>2, SeqTypes
  <1>. HIDE DEF f
  <1>4. /\ Append(frames, f) \in Seq(Frame) /\ Len(Append(frames, f)) = Len(frames) + 1
        /\ \A i \in 1 .. Len(frames) : Append(frames, f)[i] = frames[i]
        /\ Append(frames, f)[Len(frames) + 1] = f
    BY <1>1, <1>2, AppendProperties
  <1>5. frames' = Append(frames, f)
    BY DEF f
  <1>6. DOMAIN frames' = 1 .. Len(frames) + 1
    BY <1>4, <1>5, SeqTypes
  <1>. QED BY <1>1, <1>2, <1>3, <1>4, <1>5, <1>6 DEF Frames

\* A frame continues the stream where it ended.
LEMMA SentStream ==
    ASSUME StreamOK, NEW n \in Lengths, NEW object \in BOOLEAN, PeerSends(n, object)
    PROVE  /\ StreamOK'
           /\ \A p \in DOMAIN Stream' :
                 \/ p \in DOMAIN Stream /\ Stream'[p] = Stream[p]
                 \/ Stream'[p][1] = Len(frames) + 1
           /\ \A p \in DOMAIN unread' :
                 \/ p \in DOMAIN unread /\ unread'[p] = unread[p]
                 \/ unread'[p][1] = Len(frames) + 1
  <1>. DEFINE N == Len(frames) + 1
              E(k) == <<N, k>>
              new == [k \in 1 .. n + 2 |-> E(k)]
              L == Len(Stream)
              fs == frames'
              T == Stream'
  <1>1. /\ Frames /\ buffer \in Seq(Pair) /\ unread \in Seq(Pair) /\ Contiguous(Stream, frames)
        /\ Stream \in Seq(Pair) /\ L \in Nat /\ DOMAIN Stream = 1 .. L
        /\ L = Len(buffer) + Len(unread) /\ Len(unread) \in Nat /\ Len(buffer) \in Nat
        /\ DOMAIN unread = 1 .. Len(unread) /\ DOMAIN buffer = 1 .. Len(buffer)
        /\ Contiguous(buffer, frames) /\ Contiguous(unread, frames)
    BY Places, SeqTypes DEF StreamOK
  <1>2. frames' = Append(frames, [length |-> n, object |-> object]) /\ buffer' = buffer
        /\ unread' = unread \o new /\ (object => n > 0)
    BY DEF PeerSends
  <1>3. /\ Frames' /\ Len(frames) \in Nat /\ n \in Nat
        /\ Len(fs) = N /\ DOMAIN fs = 1 .. N /\ DOMAIN frames = 1 .. Len(frames)
        /\ \A i \in DOMAIN frames : i \in DOMAIN fs /\ fs[i] = frames[i]
        /\ fs[N].length = n /\ fs[N].object = object
    BY <1>1, <1>2, FrameSent
  <1>4. new \in Seq(Pair) /\ Len(new) = n + 2 /\ \A k \in 1 .. n + 2 : new[k] = E(k)
    <2>1. n + 2 \in Nat /\ \A k \in 1 .. n + 2 : E(k) \in Pair
      BY <1>3 DEF Pair
    <2>2. new \in Seq(Pair)
      <3>. HIDE DEF E, N
      <3>. QED BY <2>1, IsASeq
    <2>. QED BY <2>1, <2>2
  <1>. HIDE DEF new, E
  <1>5. /\ unread \o new \in Seq(Pair) /\ Len(unread \o new) = Len(unread) + (n + 2)
        /\ \A p \in 1 .. Len(unread) + (n + 2) :
              (unread \o new)[p] = IF p <= Len(unread) THEN unread[p] ELSE new[p - Len(unread)]
    <2>1. unread \in Seq(Pair) /\ new \in Seq(Pair)
      BY <1>1, <1>4
    <2>2. /\ unread \o new \in Seq(Pair) /\ Len(unread \o new) = Len(unread) + Len(new)
          /\ \A p \in 1 .. Len(unread) + Len(new) :
                (unread \o new)[p] = IF p <= Len(unread) THEN unread[p] ELSE new[p - Len(unread)]
      BY <2>1, ConcatProperties
    <2>. QED BY <1>4, <2>2
  <1>6. T = Stream \o new
    <2>1. (buffer \o unread) \o new = buffer \o (unread \o new)
      <3>1. buffer \in Seq(Pair) /\ unread \in Seq(Pair) /\ new \in Seq(Pair)
        BY <1>1, <1>4
      <3>. QED BY <3>1, ConcatAssociative
    <2>. QED BY <1>2, <2>1 DEF Stream
  <1>. HIDE DEF T, fs, L, N
  <1>7. /\ T \in Seq(Pair) /\ Len(T) = L + (n + 2)
        /\ \A p \in 1 .. L + (n + 2) :
              T[p] = IF p <= L THEN Stream[p] ELSE new[p - L]
    <2>1. Stream \in Seq(Pair) /\ new \in Seq(Pair)
      BY <1>1, <1>4
    <2>2. /\ Stream \o new \in Seq(Pair) /\ Len(Stream \o new) = L + Len(new)
          /\ \A p \in 1 .. L + Len(new) :
                (Stream \o new)[p] = IF p <= L THEN Stream[p] ELSE new[p - L]
      BY <2>1, ConcatProperties DEF L
    <2>. QED BY <1>4, <1>6, <2>2
  <1>8. DOMAIN T = 1 .. L + (n + 2)
    BY <1>7, SeqTypes
  <1>9. ASSUME NEW p \in 1 .. L PROVE p \in DOMAIN T /\ T[p] = Stream[p]
    <2>1. p <= L /\ p \in 1 .. L + (n + 2)
      BY <1>1, <1>3
    <2>. QED BY <1>7, <1>8, <2>1
  <1>10. ASSUME NEW p \in DOMAIN T, p \notin 1 .. L
         PROVE  p \in Nat /\ p > L /\ p - L \in 1 .. n + 2 /\ T[p] = <<N, p - L>>
    <2>1. p \in Nat /\ ~(p <= L) /\ p > L /\ p - L \in 1 .. n + 2 /\ p \in 1 .. L + (n + 2)
      BY <1>1, <1>3, <1>8, <1>10
    <2>2. T[p] = new[p - L]
      BY <1>7, <2>1
    <2>. QED BY <1>4, <2>1, <2>2 DEF E
  <1>11. N \in Nat /\ N = Len(frames) + 1 /\ N \in DOMAIN fs
    BY <1>3 DEF N
  <1>12. \A p \in 1 .. L :
            /\ p \in DOMAIN Stream /\ IsByte(Stream[p], frames) /\ Stream[p][1] \in DOMAIN frames
            /\ Stream[p][1] < N /\ Stream[p][1] \in Nat
    BY <1>1, <1>3, <1>11 DEF Contiguous, IsByte
  <1>13. \A b : b[1] \in DOMAIN frames => (IsEnd(b, frames) <=> IsEnd(b, fs))
    BY <1>3 DEF IsEnd
  <1>14. \A p \in DOMAIN T : IsByte(T[p], fs)
    <2>. TAKE p \in DOMAIN T
    <2>1. CASE p \in 1 .. L
      BY <1>3, <1>9, <1>12, <2>1 DEF IsByte
    <2>2. CASE p \notin 1 .. L
      <3>1. p - L \in 1 .. n + 2 /\ p - L \in Nat /\ T[p] = <<N, p - L>>
        BY <1>10, <2>2
      <3>2. T[p] \in Pair
        BY <1>11, <3>1 DEF Pair
      <3>3. T[p][1] = N /\ T[p][2] = p - L
        BY <3>1
      <3>. QED BY <1>3, <1>11, <3>1, <3>2, <3>3 DEF IsByte
    <2>. QED BY <2>1, <2>2
  <1>15. Ordered(T)
    <2>. SUFFICES ASSUME NEW p \in DOMAIN T, NEW q \in DOMAIN T, p < q
                  PROVE  \/ T[p][1] < T[q][1]
                         \/ T[p][1] = T[q][1] /\ T[q][2] - T[p][2] = q - p
      BY DEF Ordered
    <2>1. CASE q \in 1 .. L
      <3>1. p \in 1 .. L
        BY <1>1, <1>3, <1>8, <2>1
      <3>. QED BY <1>1, <1>9, <1>12, <2>1, <3>1 DEF Contiguous, Ordered
    <2>2. CASE p \in 1 .. L /\ q \notin 1 .. L
      <3>1. T[q][1] = N /\ T[p][1] < N
        BY <1>9, <1>10, <1>12, <2>2
      <3>. QED BY <3>1
    <2>3. CASE p \notin 1 .. L /\ q \notin 1 .. L
      <3>1. /\ T[p] = <<N, p - L>> /\ T[q] = <<N, q - L>> /\ p \in Nat /\ q \in Nat
        BY <1>10, <2>3
      <3>2. (q - L) - (p - L) = q - p
        BY <1>1, <3>1
      <3>. QED BY <3>1, <3>2
    <2>. QED BY <2>1, <2>2, <2>3
  <1>16. Runs(T)
    <2>. SUFFICES ASSUME NEW p \in DOMAIN T, NEW d \in Nat, d < T[p][2], d < p
                  PROVE  T[p - d] = <<T[p][1], T[p][2] - d>>
      BY DEF Runs
    <2>1. CASE p \in 1 .. L
      <3>1. p - d \in 1 .. L
        BY <1>1, <2>1
      <3>2. Stream[p - d] = <<Stream[p][1], Stream[p][2] - d>>
        BY <1>1, <1>9, <2>1 DEF Contiguous, Runs
      <3>. QED BY <1>9, <2>1, <3>1, <3>2
    <2>2. CASE p \notin 1 .. L
      <3>1. p \in Nat /\ p > L /\ p - L \in 1 .. n + 2 /\ T[p][1] = N /\ T[p][2] = p - L
        BY <1>10, <2>2
      <3>a. d < p - L /\ p <= L + (n + 2) /\ p > L /\ p \in Nat /\ L \in Nat /\ n \in Nat
        BY <1>1, <1>3, <1>8, <3>1
      <3>2. p - d \notin 1 .. L /\ p - d \in 1 .. L + (n + 2) /\ (p - d) - L = (p - L) - d
        BY <3>a
      <3>3. T[p - d] = <<N, (p - d) - L>>
        BY <1>8, <1>10, <3>2
      <3>. QED BY <3>1, <3>2, <3>3
    <2>. QED BY <2>1, <2>2
  <1>17. L > 0 => Stream[L][1] = Len(frames) /\ IsEnd(Stream[L], fs)
    <2>. SUFFICES ASSUME L > 0 PROVE Stream[L][1] = Len(frames) /\ IsEnd(Stream[L], fs)
      OBVIOUS
    <2>1. Stream[L][1] = Len(frames) /\ IsLF(Stream[L])
      BY DEF StreamOK, Complete, L
    <2>2. IsEnd(Stream[L], frames)
      BY <2>1 DEF IsLF, IsEnd
    <2>3. Stream[L][1] \in DOMAIN frames
      BY <1>1, <1>12
    <2>. QED BY <1>13, <2>1, <2>2, <2>3
  <1>18. Begins(T, fs)
    <2>. SUFFICES ASSUME NEW p \in DOMAIN T, p > 1, T[p][2] = 1
                  PROVE  IsEnd(T[p - 1], fs)
      BY DEF Begins
    <2>1. CASE p \in 1 .. L
      <3>1. p - 1 \in 1 .. L
        BY <1>1, <2>1
      <3>2. IsEnd(Stream[p - 1], frames)
        BY <1>1, <1>9, <2>1 DEF Contiguous, Begins
      <3>. QED BY <1>9, <1>12, <1>13, <3>1, <3>2
    <2>2. CASE p \notin 1 .. L
      <3>1. p \in Nat /\ p > L /\ T[p][2] = p - L
        BY <1>10, <2>2
      <3>2. p - 1 = L /\ L > 0 /\ L \in 1 .. L
        BY <1>1, <3>1
      <3>. QED BY <1>9, <1>17, <3>2
    <2>. QED BY <2>1, <2>2
  <1>19. Gapless(T, fs)
    <2>. SUFFICES ASSUME NEW p \in DOMAIN T, NEW q \in DOMAIN T, NEW x \in DOMAIN fs,
                         p < q, T[p][1] <= x, x < T[q][1]
                  PROVE  \E r \in p .. q - 1 : T[r][1] = x /\ IsEnd(T[r], fs)
      BY DEF Gapless
    <2>0. p \in Nat \ {0} /\ q \in Nat /\ x \in Nat \ {0} /\ x <= N
      BY <1>1, <1>3, <1>8, <1>11
    <2>1. x \in DOMAIN frames
      <3>1. T[q][1] <= N
        BY <1>9, <1>10, <1>11, <1>12
      <3>2. T[q][1] \in Nat
        BY <1>14 DEF IsByte, Pair
      <3>. QED BY <1>3, <1>11, <2>0, <3>1, <3>2
    <2>2. p \in 1 .. L
      <3>. SUFFICES ASSUME p \notin 1 .. L PROVE FALSE
        OBVIOUS
      <3>1. T[p][1] = N
        BY <1>10
      <3>. QED BY <1>3, <1>11, <2>0, <2>1, <3>1
    <2>3. CASE q \in 1 .. L
      <3>1. PICK r \in p .. q - 1 : Stream[r][1] = x /\ IsEnd(Stream[r], frames)
        BY <1>1, <1>9, <2>1, <2>2, <2>3 DEF Contiguous, Gapless
      <3>2. r \in 1 .. L
        BY <1>1, <2>0, <2>3
      <3>. QED BY <1>9, <1>12, <1>13, <3>1, <3>2
    <2>4. CASE q \notin 1 .. L
      <3>1. q > L /\ L > 0 /\ L \in 1 .. L /\ L \in p .. q - 1
        BY <1>1, <1>10, <2>0, <2>2, <2>4
      <3>2. CASE x = Len(frames)
        BY <1>9, <1>17, <3>1, <3>2
      <3>3. CASE x # Len(frames)
        <4>1. x < Stream[L][1] /\ Stream[p][1] <= x
          BY <1>3, <1>9, <1>17, <2>0, <2>1, <2>2, <3>1, <3>3
        <4>2. p # L
          BY <1>12, <2>0, <3>1, <4>1
        <4>3. p < L
          BY <1>1, <2>0, <2>2, <4>2
        <4>4. PICK r \in p .. L - 1 : Stream[r][1] = x /\ IsEnd(Stream[r], frames)
          BY <1>1, <2>1, <2>2, <3>1, <4>1, <4>3 DEF Contiguous, Gapless
        <4>5. r \in 1 .. L /\ r \in p .. q - 1
          BY <1>1, <2>0, <3>1
        <4>. QED BY <1>9, <1>12, <1>13, <4>4, <4>5
      <3>. QED BY <3>2, <3>3
    <2>. QED BY <2>3, <2>4
  <1>20. Contiguous(T, fs)
    BY <1>14, <1>15, <1>16, <1>18, <1>19 DEF Contiguous
  <1>21. Complete'
    <2>. DEFINE q == L + (n + 2)
    <2>1. q \in DOMAIN T /\ q \notin 1 .. L /\ q - L = n + 2 /\ Len(T) = q
      BY <1>1, <1>3, <1>7, <1>8
    <2>. HIDE DEF q
    <2>2. T[Len(T)] = <<N, n + 2>>
      BY <1>10, <2>1
    <2>3. Stream'[Len(Stream')] = <<N, n + 2>> /\ Len(frames') = N /\ frames'[N].length = n
      BY <1>3, <2>2 DEF T, fs
    <2>. QED BY <2>3 DEF Complete, IsLF
  <1>22. Drained'
    <2>. SUFFICES ASSUME NEW j \in 1 .. Len(buffer) - 1, IsCR(buffer[j])', IsLF(buffer[j + 1])'
                  PROVE  FALSE
      BY <1>2 DEF Drained, Separators
    <2>1. j \in DOMAIN buffer /\ j + 1 \in DOMAIN buffer
      BY <1>1
    <2>2. buffer[j][1] \in DOMAIN frames /\ buffer[j + 1][1] \in DOMAIN frames
      BY <1>1, <2>1, ByteTypes
    <2>3. fs[buffer[j][1]] = frames[buffer[j][1]] /\ fs[buffer[j + 1][1]] = frames[buffer[j + 1][1]]
      BY <1>3, <2>2
    <2>4. IsCR(buffer[j]) /\ IsLF(buffer[j + 1])
      BY <1>2, <2>3 DEF IsCR, IsLF, fs
    <2>5. j \in Separators(buffer)
      BY <2>4 DEF Separators
    <2>. QED BY <2>5 DEF StreamOK, Drained
  <1>23. \A p \in DOMAIN unread' :
            \/ p \in DOMAIN unread /\ unread'[p] = unread[p]
            \/ unread'[p][1] = N /\ unread'[p][2] = p - Len(unread)
    <2>1. DOMAIN unread' = 1 .. Len(unread) + (n + 2)
      BY <1>2, <1>5, SeqTypes
    <2>. TAKE p \in DOMAIN unread'
    <2>2. CASE p <= Len(unread)
      BY <1>1, <1>2, <1>5, <2>1, <2>2
    <2>3. CASE ~(p <= Len(unread))
      <3>1. p - Len(unread) \in 1 .. n + 2
        BY <1>1, <1>3, <2>1, <2>3
      <3>a. unread'[p] = new[p - Len(unread)]
        BY <1>2, <1>5, <2>1, <2>3
      <3>2. new[p - Len(unread)] = <<N, p - Len(unread)>>
        BY <1>4, <3>1 DEF E
      <3>. QED BY <3>2, <3>a
    <2>. QED BY <2>2, <2>3
  <1>24. Held'
    <2>. SUFFICES ASSUME frames'[unread'[1][1]].length + 1 + ReadSize <= MaxBuffer
                  PROVE  unread'[1][2] <= Len(buffer) + 1
      BY <1>2 DEF Held
    <2>1. 1 \in DOMAIN unread'
      <3>1. DOMAIN unread' = 1 .. Len(unread) + (n + 2)
        BY <1>2, <1>5, SeqTypes
      <3>. QED BY <1>1, <1>3, <3>1
    <2>2. CASE 1 \in DOMAIN unread /\ unread'[1] = unread[1]
      <3>1. unread[1][1] \in DOMAIN frames /\ Len(unread) > 0
        BY <1>1, <2>2, ByteTypes
      <3>2. fs[unread[1][1]] = frames[unread[1][1]]
        BY <1>3, <3>1
      <3>3. frames[unread[1][1]].length + 1 + ReadSize <= MaxBuffer
        BY <2>2, <3>2 DEF fs
      <3>. QED BY <2>2, <3>1, <3>3 DEF StreamOK, Held
    <2>3. CASE unread'[1][2] = 1 - Len(unread)
      BY <1>1, <2>3
    <2>. QED BY <1>23, <2>1, <2>2, <2>3
  <1>25. NotEmpty'
    <2>. SUFFICES ASSUME NEW i \in DOMAIN fs, fs[i].object PROVE fs[i].length > 0
      BY DEF NotEmpty, fs
    <2>1. CASE i \in DOMAIN frames
      BY <1>3, <2>1 DEF StreamOK, NotEmpty
    <2>2. CASE i = N
      BY <1>2, <1>3, <2>2
    <2>. QED BY <1>3, <1>11, <2>1, <2>2
  <1>26. StreamOK'
    <2>1. buffer' \in Seq(Pair) /\ unread' \in Seq(Pair) /\ Frames'
      BY <1>1, <1>2, <1>3, <1>5
    <2>. QED BY <1>20, <1>21, <1>22, <1>24, <1>25, <2>1 DEF StreamOK, T, fs
  <1>27. \A p \in DOMAIN T :
            \/ p \in DOMAIN Stream /\ T[p] = Stream[p]
            \/ T[p][1] = N
    BY <1>1, <1>9, <1>10
  <1>. QED BY <1>23, <1>26, <1>27 DEF T, N

\* A frame that is sent changes nothing of those before it.
LEMMA SendsStep ==
    ASSUME WireIInv, NEW n \in Lengths, NEW object \in BOOLEAN, PeerSends(n, object)
    PROVE  WireIInv'
  <1>. DEFINE N == Len(frames) + 1
  <1>1. /\ StreamOK /\ Frames /\ Ahead /\ Unfinished /\ OnlyWhatWasSent /\ OnlyLongFramesLost
        /\ got \in Seq(DOMAIN frames) /\ arrived \subseteq DOMAIN frames /\ Len(buffer) <= MaxBuffer
    BY DEF WireIInv, StreamOK, WireTypeOK
  <1>2. /\ frames' = Append(frames, [length |-> n, object |-> object])
        /\ buffer' = buffer /\ got' = got /\ arrived' = arrived
    BY DEF PeerSends
  <1>3. /\ Frames' /\ Len(frames) \in Nat
        /\ DOMAIN frames = 1 .. Len(frames)
        /\ \A i \in DOMAIN frames : i \in DOMAIN frames' /\ frames'[i] = frames[i]
    BY <1>1, <1>2, FrameSent
  <1>4. /\ StreamOK'
        /\ \A p \in DOMAIN Stream' :
              \/ p \in DOMAIN Stream /\ Stream'[p] = Stream[p]
              \/ Stream'[p][1] = N
        /\ \A p \in DOMAIN unread' :
              \/ p \in DOMAIN unread /\ unread'[p] = unread[p]
              \/ unread'[p][1] = N
    BY <1>1, SentStream
  <1>5. N \in Nat /\ \A i \in DOMAIN frames : i < N
    BY <1>3
  <1>. HIDE DEF N
  <1>6. \A x \in DOMAIN got : got[x] \in DOMAIN frames
    BY <1>1, SeqTypes
  <1>7. Ahead'
    <2>. SUFFICES ASSUME NEW x \in DOMAIN got, NEW p \in DOMAIN Stream'
                  PROVE  got[x] < Stream'[p][1]
      BY <1>2 DEF Ahead
    <2>. QED BY <1>1, <1>4, <1>5, <1>6 DEF Ahead
  <1>8. Unfinished'
    <2>. SUFFICES ASSUME NEW i \in arrived, NEW p \in DOMAIN unread'
                  PROVE  i < unread'[p][1]
      BY <1>2 DEF Unfinished
    <2>. QED BY <1>1, <1>4, <1>5 DEF Unfinished
  <1>9. OnlyWhatWasSent'
    BY <1>1, <1>2, <1>3, <1>6 DEF OnlyWhatWasSent
  <1>10. OnlyLongFramesLost'
    <2>. SUFFICES ASSUME NEW i \in arrived, frames'[i].object,
                         frames'[i].length + 1 + ReadSize <= MaxBuffer
                  PROVE  \E x \in DOMAIN got : got[x] = i
      BY <1>2 DEF OnlyLongFramesLost
    <2>1. frames'[i] = frames[i]
      BY <1>1, <1>3
    <2>. QED BY <1>1, <2>1 DEF OnlyLongFramesLost
  <1>11. WireTypeOK'
    <2>1. got \in Seq(DOMAIN frames') /\ arrived \subseteq DOMAIN frames'
      <3>1. DOMAIN frames \subseteq DOMAIN frames'
        BY <1>3
      <3>. QED BY <1>1, <3>1, SeqMonotonic
    <2>2. buffer' \in Seq(Pair) /\ unread' \in Seq(Pair)
      BY <1>4 DEF StreamOK
    <2>. QED BY <1>1, <1>2, <1>3, <2>1, <2>2 DEF WireTypeOK, Frames, Frame, Pair
  <1>. QED BY <1>4, <1>7, <1>8, <1>9, <1>10, <1>11 DEF WireIInv

\* Where nothing is on its way.
LEMMA NothingWaits ==
    /\ <<>> \in Seq(Pair) /\ DOMAIN <<>> = {} /\ Len(<<>>) = 0 /\ <<>> \o <<>> = <<>>
    /\ \A fs : Contiguous(<<>>, fs)
    /\ MaxBuffer \in Nat
  <1>1. <<>> \in Seq(Pair) /\ DOMAIN <<>> = {} /\ Len(<<>>) = 0
    OBVIOUS
  <1>2. <<>> \o <<>> = <<>>
    BY <1>1, ConcatEmptySeq
  <1>3. ASSUME NEW fs PROVE Contiguous(<<>>, fs)
    BY <1>1 DEF Contiguous, Ordered, Runs, Begins, Gapless
  <1>. QED BY <1>1, <1>2, <1>3, WireAssumption

\* A reader begins with nothing.
LEMMA StreamBegins ==
    ASSUME WireInit
    PROVE  WireIInv
  <1>1. /\ frames = <<>> /\ unread = <<>> /\ buffer = <<>> /\ got = <<>> /\ arrived = {}
        /\ Stream = <<>>
    BY NothingWaits DEF WireInit, Stream
  <1>2. Frames /\ WireTypeOK
    <2>1. <<>> \in Seq(Frame) /\ <<>> \in Seq(DOMAIN frames)
      OBVIOUS
    <2>. QED BY <1>1, <2>1, NothingWaits DEF Frames, Frame, WireTypeOK, Pair
  <1>3. Drained
    BY <1>1 DEF Drained, Separators
  <1>4. StreamOK
    BY <1>1, <1>2, <1>3, NothingWaits DEF StreamOK, Complete, Held, NotEmpty
  <1>. QED BY <1>1, <1>2, <1>4, NothingWaits
           DEF WireIInv, Ahead, Unfinished, OnlyWhatWasSent, OnlyLongFramesLost

\* The end of a connection leaves nothing on its way.
LEMMA HangupStep ==
    ASSUME WireIInv, Hangup
    PROVE  WireIInv'
  <1>1. /\ StreamOK /\ Frames /\ WireTypeOK /\ NotEmpty /\ OnlyWhatWasSent /\ OnlyLongFramesLost
    BY DEF WireIInv, StreamOK
  <1>2. /\ unread' = <<>> /\ buffer' = <<>> /\ frames' = frames /\ got' = got /\ arrived' = arrived
        /\ Stream' = <<>>
    BY NothingWaits DEF Hangup, Stream
  <1>3. WireTypeOK' /\ Frames'
    BY <1>1, <1>2, NothingWaits DEF Frames, WireTypeOK, Pair
  <1>4. Drained'
    BY <1>2 DEF Drained, Separators
  <1>5. StreamOK'
    <2>1. Contiguous(Stream', frames')
      BY <1>2, NothingWaits
    <2>2. Complete' /\ Held' /\ NotEmpty'
      BY <1>1, <1>2, NothingWaits DEF Complete, Held, NotEmpty
    <2>. QED BY <1>2, <1>3, <1>4, <2>1, <2>2, NothingWaits DEF StreamOK
  <1>6. Ahead' /\ Unfinished'
    BY <1>2, NothingWaits DEF Ahead, Unfinished
  <1>7. OnlyWhatWasSent' /\ OnlyLongFramesLost'
    BY <1>1, <1>2 DEF OnlyWhatWasSent, OnlyLongFramesLost
  <1>. QED BY <1>3, <1>5, <1>6, <1>7 DEF WireIInv

LEMMA WireStuttering ==
    ASSUME WireIInv, UNCHANGED wireVars
    PROVE  WireIInv'
  BY DEF WireIInv, wireVars, WireTypeOK, StreamOK, Frames, Stream, Complete, Drained, Held, NotEmpty,
         Separators, IsCR, IsLF, Ahead, Unfinished, OnlyWhatWasSent, OnlyLongFramesLost

\* LineReader: what the peer sends, a read of any size and the end of a
\* connection keep the invariant.
THEOREM WireInductive == WireSpec => []WireIInv
  <1>1. WireInit => WireIInv
    BY StreamBegins
  <1>2. WireIInv /\ [WireNext]_wireVars => WireIInv'
    <2>. SUFFICES ASSUME WireIInv, [WireNext]_wireVars PROVE WireIInv'
      OBVIOUS
    <2>1. ASSUME NEW n \in Lengths, NEW object \in BOOLEAN, PeerSends(n, object) PROVE WireIInv'
      BY <2>1, SendsStep
    <2>2. ASSUME NEW n \in 1 .. ReadSize, Receive(n) PROVE WireIInv'
      BY <2>2, BytesReadStep
    <2>3. CASE Hangup
      BY <2>3, HangupStep
    <2>4. CASE UNCHANGED wireVars
      BY <2>4, WireStuttering
    <2>. QED BY <2>1, <2>2, <2>3, <2>4 DEF WireNext
  <1>. QED BY <1>1, <1>2, PTL DEF WireSpec

\* What the reader holds is bytes of frames that were sent, and never more of
\* them than MAX_BUFFER.
THEOREM WireTypeCorrect == WireSpec => []WireTypeOK
  <1>1. WireIInv => WireTypeOK
    BY DEF WireIInv
  <1>. QED BY <1>1, WireInductive, PTL

\* What is dispatched are objects the peer sent, whole, once and in order, for
\* any frames, any cut of them into reads and any buffer.
THEOREM WholeAndInOrder == WireSpec => []OnlyWhatWasSent
  <1>1. WireIInv => OnlyWhatWasSent
    BY DEF WireIInv
  <1>. QED BY <1>1, WireInductive, PTL

\* An object that has been read to its end is dispatched, unless it is longer
\* than a full buffer leaves room for beside one read.
THEOREM ShortFramesArrive == WireSpec => []OnlyLongFramesLost
  <1>1. WireIInv => OnlyLongFramesLost
    BY DEF WireIInv
  <1>. QED BY <1>1, WireInductive, PTL
-----------------------------------------------------------------------------
(* Wire implements Channel.                                                *)

\* A read lets frames arrive, or is no step of the channel.
LEMMA ReadIsArrival ==
    ASSUME WireIInv, NEW n \in 1 .. ReadSize, Receive(n)
    PROVE  [C!ChannelNext]_C!channelVars
  <1>1. /\ StreamOK /\ unread \in Seq(Pair) /\ buffer \in Seq(Pair) /\ got \in Seq(DOMAIN frames)
    BY DEF WireIInv, StreamOK, WireTypeOK
  <1>2. n \in Nat \ {0} /\ ReadSize \in Nat /\ MaxBuffer \in Nat /\ ReadSize < MaxBuffer
    BY WireAssumption
  <1>3. PICK a \in Nat, m \in Nat : Placed(n, a, m)
    BY <1>1, <1>2, ReadPlaces
  <1>. DEFINE F == Found(Filled(n))
              A == (Passed + 1) .. Passed'
  <1>4. n <= Len(unread) /\ frames' = frames /\ arrived' = arrived \cup Ended(n)
    BY <1>1, <1>2, AfterRead
  <1>5. /\ Ended(n) = A /\ Passed \in Nat /\ Passed' \in Nat
        /\ Passed <= Passed' /\ Passed' <= Len(frames)
    BY <1>1, <1>2, ReadArrives
  <1>6. Ascends(Parsed(Filled(n)), F) /\ got' = got \o C!InOrder(F) /\ got' = got \o Parsed(Filled(n))
    BY <1>1, <1>3, GotAfter
  <1>7. /\ \A i \in F : \E k \in 1 .. n : unread[k][1] = i /\ IsLF(unread[k])
        /\ \A k \in 1 .. n :
              IsLF(unread[k]) /\ frames[unread[k][1]].object
                 /\ frames[unread[k][1]].length + 1 + ReadSize <= MaxBuffer
              => unread[k][1] \in F
        /\ \A i \in F : frames[i].object
    <2>1. /\ Filled(n) \in Seq(Pair) /\ Contiguous(Filled(n), frames) /\ Frames
      BY <1>1, <1>3, <1>4, FoundInRead DEF StreamOK
    <2>. QED BY <1>1, <1>3, <1>4, <2>1, FoundInRead, FoundTypes
  <1>. HIDE DEF F, A
  <1>8. F \subseteq A
    BY <1>5, <1>7 DEF Ended
  <1>9. CASE Passed < Passed'
    <2>1. F \in SUBSET C!Objects(A)
      BY <1>7, <1>8 DEF C!Objects
    <2>2. {i \in C!Objects(A) : frames[i].length <= MaxBuffer - ReadSize - 1} \subseteq F
      <3>. SUFFICES ASSUME NEW i \in A, frames[i].object, frames[i].length <= MaxBuffer - ReadSize - 1
                    PROVE  i \in F
        BY DEF C!Objects
      <3>1. PICK k \in 1 .. n : IsLF(unread[k]) /\ unread[k][1] = i
        BY <1>5 DEF Ended
      <3>2. frames[i].length \in Nat
        <4>1. unread[k][1] \in DOMAIN frames
          <5>1. Contiguous(unread, frames) /\ k \in DOMAIN unread /\ Frames
            BY <1>1, <1>4, Places DEF StreamOK
          <5>. QED BY <1>1, <5>1, ByteTypes
        <4>. QED BY <1>1, <3>1, <4>1, FrameTypes DEF StreamOK
      <3>3. frames[i].length + 1 + ReadSize <= MaxBuffer
        BY <1>2, <3>2
      <3>. QED BY <1>7, <3>1, <3>3
    <2>3. C!Arrive(Passed')
      BY <1>4, <1>5, <1>6, <1>9, <2>1, <2>2 DEF C!Arrive, A
    <2>4. Passed' \in 1 .. Len(frames)
      BY <1>1, <1>5, <1>9, PassedIs
    <2>. QED BY <2>3, <2>4 DEF C!ChannelNext
  <1>10. CASE Passed = Passed'
    <2>1. A = {} /\ F = {}
      <3>1. (Passed + 1) .. Passed = {}
        BY <1>5
      <3>2. A = {}
        BY <1>10, <3>1 DEF A
      <3>. QED BY <1>8, <3>2
    <2>2. Parsed(Filled(n)) = <<>>
      <3>1. Cardinality(F) = 0
        BY <2>1, FS_EmptySet
      <3>. QED BY <1>6, <2>1, <3>1 DEF Ascends
    <2>3. got' = got
      BY <1>1, <1>6, <2>2, ConcatEmptySeq
    <2>. QED BY <1>4, <1>5, <1>10, <2>1, <2>3 DEF C!channelVars
  <1>. QED BY <1>5, <1>9, <1>10

\* Sending does not change what has passed.
LEMMA SendingIsSending ==
    ASSUME WireIInv, NEW n \in Lengths, NEW object \in BOOLEAN, PeerSends(n, object)
    PROVE  C!ChannelNext
  <1>1. StreamOK /\ Frames /\ unread \in Seq(Pair)
    BY DEF WireIInv, StreamOK
  <1>2. /\ frames' = Append(frames, [length |-> n, object |-> object])
        /\ got' = got /\ arrived' = arrived
    BY DEF PeerSends
  <1>3. /\ Len(frames) \in Nat /\ n \in Nat
        /\ Len(unread) \in Nat /\ DOMAIN unread = 1 .. Len(unread)
    BY <1>1, <1>2, FrameSent, SeqTypes
  <1>4. Passed' = Passed
    <2>. DEFINE E(k) == <<Len(frames) + 1, k>>
                more == [k \in 1 .. n + 2 |-> E(k)]
    <2>1. unread' = unread \o more
      BY DEF PeerSends
    <2>2. more \in Seq(Pair) /\ Len(more) = n + 2 /\ more[1] = <<Len(frames) + 1, 1>>
      <3>1. n + 2 \in Nat /\ 1 \in 1 .. n + 2 /\ \A k \in 1 .. n + 2 : E(k) \in Pair
        BY <1>3 DEF Pair
      <3>2. more \in Seq(Pair)
        <4>. HIDE DEF E
        <4>. QED BY <3>1, IsASeq
      <3>. QED BY <3>1, <3>2
    <2>. HIDE DEF more
    <2>3. /\ unread \o more \in Seq(Pair) /\ Len(unread \o more) = Len(unread) + Len(more)
          /\ \A p \in 1 .. Len(unread) + Len(more) :
                (unread \o more)[p] = IF p <= Len(unread) THEN unread[p] ELSE more[p - Len(unread)]
      BY <1>1, <2>2, ConcatProperties
    <2>4. unread' \in Seq(Pair) /\ unread' # <<>> /\ 1 \in 1 .. Len(unread) + Len(more)
      BY <1>3, <2>1, <2>2, <2>3
    <2>5. Head(unread') = unread'[1]
      BY <2>4
    <2>6. Passed' = unread'[1][1] - 1
      BY <2>4, <2>5, Zenon DEF Passed
    <2>7. CASE Len(unread) = 0
      <3>1. unread'[1] = more[1]
        <4>1. ~(1 <= Len(unread)) /\ 1 - Len(unread) = 1
          BY <2>7
        <4>. QED BY <2>1, <2>3, <2>4, <4>1
      <3>2. Passed' = Len(frames)
        BY <1>3, <2>2, <2>6, <3>1
      <3>. QED BY <1>1, <2>7, <3>2, PassedIs
    <2>8. CASE Len(unread) > 0
      <3>1. unread'[1] = unread[1]
        <4>1. 1 <= Len(unread)
          BY <1>3, <2>8
        <4>. QED BY <2>1, <2>3, <2>4, <4>1
      <3>. QED BY <1>1, <2>6, <2>8, <3>1, PassedIs
    <2>. QED BY <1>3, <2>7, <2>8
  <1>5. C!Sends(n, object)
    BY <1>2, <1>4 DEF C!Sends
  <1>. QED BY <1>5 DEF C!ChannelNext

\* Reads, buffer and cuts implement a channel that hands on objects in order in
\* the step in which they end, and loses long ones only.
THEOREM ChannelImplemented == WireSpec => ImplementsChannel
  <1>1. WireInit => C!ChannelInit
    BY NothingWaits DEF WireInit, C!ChannelInit, Passed
  <1>2. WireIInv /\ [WireNext]_wireVars => [C!ChannelNext]_C!channelVars
    <2>. SUFFICES ASSUME WireIInv, [WireNext]_wireVars PROVE [C!ChannelNext]_C!channelVars
      OBVIOUS
    <2>1. ASSUME NEW n \in Lengths, NEW object \in BOOLEAN, PeerSends(n, object)
          PROVE  C!ChannelNext
      BY <2>1, SendingIsSending
    <2>2. ASSUME NEW n \in 1 .. ReadSize, Receive(n)
          PROVE  [C!ChannelNext]_C!channelVars
      BY <2>2, ReadIsArrival
    <2>3. CASE Hangup
      <3>1. C!Break
        BY <2>3 DEF Hangup, C!Break, Passed
      <3>. QED BY <3>1 DEF C!ChannelNext
    <2>4. CASE UNCHANGED wireVars
      BY <2>4 DEF wireVars, C!channelVars, Passed
    <2>. QED BY <2>1, <2>2, <2>3, <2>4 DEF WireNext
  <1>. QED BY <1>1, <1>2, WireInductive, PTL DEF WireSpec, ImplementsChannel, C!ChannelSpec
=============================================================================
