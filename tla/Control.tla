------------------------------- MODULE Control -------------------------------
(***************************************************************************)
(* A panel's pages and what they control (control.py, links.py): touches   *)
(* become service calls, polls become answers, under settings that an      *)
(* installer changes and links that a panel never gives up.                *)
(*                                                                         *)
(* One panel.  async_handle() runs up to its send or its call as soon as   *)
(* the message is dispatched, and neither waits for a result: one action.  *)
(* What a panel's links were written by another controller for, and the    *)
(* warnings, which change nothing else, are left out.                      *)
(***************************************************************************)
EXTENDS Values, Sequences, FiniteSets

CONSTANTS
    Page,                  \* slots of the panel
    Light, Switch, Cover,  \* entities
    None,
    Offered,               \* settings the installer chooses among
    Touched,               \* percentages a finger sets
    Elsewhere,             \* what entities are set to by others: [Entity -> SUBSET Int]
    Low, High,             \* the lights' range in kelvin
    MaxEvents              \* bound: touches, changes by others, losses, saved forms

Entity == Light \cup Switch \cup Cover
Unavailable == -1
\* Of a light its brightness, 0 when it is off; of a switch 0 or 255; of a
\* cover its position.
Reading(e) ==
    IF e \in Cover THEN Percent
    ELSE IF e \in Switch THEN {0, MaxBrightness} ELSE 0 .. MaxBrightness

\* The entities each form's selectors offer (config_flow.py).
Lamp == Light \cup Switch
Settings ==
    [kind : {"dimmer"}, target : Lamp \cup {None}, leftover : Cover \cup {None}, colour : BOOLEAN]
      \cup
    [kind : {"shade"}, target : Cover \cup {None}, leftover : Lamp \cup {None}, colour : {FALSE}]

ASSUME ControlAssumption ==
    /\ Light \cap Switch = {} /\ Light \cap Cover = {} /\ Switch \cap Cover = {}
    /\ None \notin Entity
    /\ Offered \subseteq Settings
    /\ Touched \subseteq Percent
    /\ \A e \in Entity : Elsewhere[e] \subseteq Reading(e) \cup {Unavailable}
    /\ Low \in Nat /\ High \in Nat /\ High - Low > 100
    /\ MaxEvents \in Nat

Role == {"brightness", "colour_temperature", "level"}

\* What a panel can say about each of its links.
Reads == [page : Page, role : Role, ask : {"get"}]
Writes ==
    [page : Page, role : {"brightness"}, ask : {"on", "off"}]
      \cup [page : Page, role : {"brightness", "colour_temperature", "level"}, ask : {"set"}, value : Touched]
      \cup [page : Page, role : {"level"}, ask : {"stop"}]
Answers == [page : Page, role : Role, value : Percent]
Services == {"turn_on", "turn_off", "open_cover", "close_cover", "stop_cover"}
Calls ==
    [service : Services]
      \cup [service : {"turn_on"}, brightness : 0 .. MaxBrightness]
      \cup [service : {"turn_on"}, kelvin : Low .. High]

VARIABLES
    component,  \* the settings of each page's controller
    linked,     \* roles whose links the panel was ever given, for each page
    screen,     \* what each page shows of each role
    state,      \* each entity's reading, or Unavailable
    warmth,     \* each light's colour temperature while it is on
    up, down,   \* requests and answers on their way, in order
    calls,      \* service calls each entity has yet to carry out, in order
    events      \* touches, changes by others, losses and saved forms so far

wire == <<up, down>>
vars == <<component, linked, screen, state, warmth, wire, calls, events>>
-----------------------------------------------------------------------------
(* links.py and _target_for.                                               *)

RoleMatches(s, r) ==
    r \in IF s.kind = "dimmer" THEN {"brightness", "colour_temperature"} ELSE {"level"}

LeftoverRole(s) == IF s.kind = "dimmer" THEN "level" ELSE "brightness"

\* Mutant: a leftover link drives what the page controls now.
TargetFor_Obeyed(s, r) ==
    IF RoleMatches(s, r) \/ r = LeftoverRole(s) THEN s.target ELSE None

\* A page without a target has no controller (set_components).
TargetFor(s, r) ==
    IF s.target # None /\ RoleMatches(s, r) THEN s.target
    ELSE IF s.target # None /\ r = LeftoverRole(s) THEN s.leftover
    ELSE None

\* The links a page's payload writes (payload_for).
LinksOf(s) ==
    IF s.target = None THEN {}
    ELSE IF s.kind = "shade" THEN {"level"}
    ELSE {"brightness"} \cup (IF s.colour THEN {"colour_temperature"} ELSE {})

\* interpret() and _async_act: the call a panel's write becomes.
CallFor(q, e) ==
    CASE q.ask = "on" -> [service |-> IF e \in Cover THEN "open_cover" ELSE "turn_on"]
      [] q.ask = "off" -> [service |-> IF e \in Cover THEN "close_cover" ELSE "turn_off"]
      [] q.ask = "stop" -> [service |-> "stop_cover"]
      [] q.ask = "set" /\ q.role = "level" ->
            [service |-> IF q.value = 0 THEN "close_cover" ELSE "open_cover"]
      [] q.ask = "set" /\ q.role = "brightness" /\ q.value = 0 -> [service |-> "turn_off"]
      [] q.ask = "set" /\ q.role = "brightness" /\ q.value > 0 ->
            [service |-> "turn_on", brightness |-> PercentToBrightness(q.value)]
      [] q.ask = "set" /\ q.role = "colour_temperature" ->
            [service |-> "turn_on", kelvin |-> PercentToKelvin(q.value, Low, High)]

\* Mutant: a light that is off is asked for the temperature it had.
CurrentValue_WhenOff(r, e) ==
    CASE r = "level" -> state[e]
      [] r = "colour_temperature" ->
            IF e \in Light THEN KelvinToPercent(warmth[e], Low, High) ELSE 0
      [] r = "brightness" ->
            IF state[e] = 0 THEN 0 ELSE IF e \in Switch THEN 100 ELSE BrightnessToPercent(state[e])

\* _current_value, of an entity that is available.  An entity that is off,
\* or that is no light, has no colour temperature.
CurrentValue(r, e) ==
    CASE r = "level" -> state[e]
      [] r = "colour_temperature" ->
            IF e \in Light /\ state[e] > 0 THEN KelvinToPercent(warmth[e], Low, High) ELSE 0
      [] r = "brightness" ->
            IF state[e] = 0 THEN 0 ELSE IF e \in Switch THEN 100 ELSE BrightnessToPercent(state[e])
-----------------------------------------------------------------------------
TypeOK ==
    /\ component \in [Page -> Settings]
    /\ linked \in [Page -> SUBSET Role]
    /\ screen \in [Page -> [Role -> Percent]]
    /\ \A e \in Entity : state[e] \in Reading(e) \cup {Unavailable}
    /\ state \in [Entity -> Int]
    /\ warmth \in [Light -> Low .. High]
    /\ up \in Seq(Reads \cup Writes)
    /\ down \in Seq(Answers)
    /\ calls \in [Entity -> Seq(Calls)]
    /\ events \in 0 .. MaxEvents

\* Pages as they were last written; the panel's own guess is zero.
Init ==
    /\ component \in [Page -> {s \in Offered : s.target # None}]
    /\ linked = [p \in Page |-> LinksOf(component[p])]
    /\ screen = [p \in Page |-> [r \in Role |-> 0]]
    /\ state = [e \in Entity |-> 0]
    /\ warmth = [e \in Light |-> Low]
    /\ up = <<>> /\ down = <<>>
    /\ calls = [e \in Entity |-> <<>>]
    /\ events = 0

\* One more of the steps nobody has to take.
Happens == events < MaxEvents /\ events' = events + 1
-----------------------------------------------------------------------------
(* The panel.                                                              *)

\* A finger: the screen shows what it set, the controller has yet to hear.
Touch(q) ==
    /\ Happens
    /\ q.role \in linked[q.page]
    /\ up' = Append(up, q)
    /\ screen' = IF q.ask = "set" THEN [screen EXCEPT ![q.page][q.role] = q.value] ELSE screen
    /\ UNCHANGED <<component, linked, state, warmth, down, calls>>

\* Bound: of each link one poll is on its way.
Poll(p, r) ==
    /\ r \in linked[p]
    /\ \A i \in DOMAIN up : ~(up[i].page = p /\ up[i].role = r /\ up[i].ask = "get")
    /\ \A i \in DOMAIN down : ~(down[i].page = p /\ down[i].role = r)
    /\ up' = Append(up, [page |-> p, role |-> r, ask |-> "get"])
    /\ UNCHANGED <<component, linked, screen, state, warmth, down, calls, events>>

\* An answer reaches the panel.
Show ==
    /\ down # <<>>
    /\ LET a == Head(down) IN screen' = [screen EXCEPT ![a.page][a.role] = a.value]
    /\ down' = Tail(down)
    /\ UNCHANGED <<component, linked, state, warmth, up, calls, events>>
-----------------------------------------------------------------------------
(* handle_message and async_handle.                                        *)

\* Nothing is told: the link drives nothing, or what it drives is not there.
Silent(q, e) ==
    /\ e # None => q.ask = "get" /\ state[e] = Unavailable
    /\ UNCHANGED <<down, calls>>

\* Mutant: what is nothing is taken for no value.
Report_Truthy(q, e) ==
    /\ e # None /\ q.ask = "get" /\ state[e] # Unavailable
    /\ LET v == CurrentValue(q.role, e)
       IN  down' = IF v = 0 THEN down
                   ELSE Append(down, [page |-> q.page, role |-> q.role, value |-> v])
    /\ UNCHANGED calls

Report(q, e) ==
    /\ e # None /\ q.ask = "get" /\ state[e] # Unavailable
    /\ down' = Append(down, [page |-> q.page, role |-> q.role, value |-> CurrentValue(q.role, e)])
    /\ UNCHANGED calls

\* The call is made without waiting for it (blocking=False).
Act(q, e) ==
    /\ e # None /\ q.ask # "get"
    /\ calls' = [calls EXCEPT ![e] = Append(@, CallFor(q, e))]
    /\ UNCHANGED down

Handle ==
    /\ up # <<>>
    /\ LET q == Head(up)
           e == TargetFor(component[q.page], q.role)
       IN  Silent(q, e) \/ Report(q, e) \/ Act(q, e)
    /\ up' = Tail(up)
    /\ UNCHANGED <<component, linked, screen, state, warmth, events>>
-----------------------------------------------------------------------------
(* Home Assistant, the installer, and what goes wrong.                     *)

\* What a call makes of an entity.  A switch refuses a call with a value.
After(c, e) ==
    CASE state[e] = Unavailable -> Unavailable
      [] OTHER ->
         CASE c.service = "open_cover" -> 100
           [] c.service \in {"close_cover", "turn_off"} -> 0
           [] c.service = "stop_cover" -> state[e]
           [] c.service = "turn_on" ->
              IF e \in Switch /\ DOMAIN c # {"service"} THEN state[e]
              ELSE IF "brightness" \in DOMAIN c THEN c.brightness
              ELSE IF state[e] = 0 THEN MaxBrightness ELSE state[e]

Execute(e) ==
    /\ calls[e] # <<>>
    /\ LET c == Head(calls[e])
       IN  /\ state' = [state EXCEPT ![e] = After(c, e)]
           /\ warmth' = IF e \in Light /\ "kelvin" \in DOMAIN c /\ state[e] # Unavailable
                        THEN [warmth EXCEPT ![e] = c.kelvin] ELSE warmth
    /\ calls' = [calls EXCEPT ![e] = Tail(@)]
    /\ UNCHANGED <<component, linked, screen, wire, events>>

\* Somebody else changes an entity, or it stops answering.
Change(e) ==
    /\ Happens
    /\ \E x \in Elsewhere[e] \ {state[e]} : state' = [state EXCEPT ![e] = x]
    /\ UNCHANGED <<component, linked, screen, warmth, wire, calls>>

\* The session ends, and what was on its way with it.
Lose ==
    /\ Happens
    /\ wire # <<<<>>, <<>>>>
    /\ up' = <<>> /\ down' = <<>>
    /\ UNCHANGED <<component, linked, screen, state, warmth, calls>>

\* A page's form is saved, and written to the panel or not; the entry
\* reloads, and a panel that was written to restarts.
Save(p, s, written) ==
    /\ Happens
    /\ written => s.target # None
    /\ component' = [component EXCEPT ![p] = s]
    /\ linked' = IF written THEN [linked EXCEPT ![p] = @ \cup LinksOf(s)] ELSE linked
    /\ screen' = IF written THEN [o \in Page |-> [r \in Role |-> 0]] ELSE screen
    /\ up' = <<>> /\ down' = <<>>
    /\ UNCHANGED <<state, warmth, calls>>

Next ==
    \/ \E q \in Writes : Touch(q)
    \/ \E p \in Page, r \in Role : Poll(p, r)
    \/ Show \/ Handle \/ Lose
    \/ \E e \in Entity : Execute(e) \/ Change(e)
    \/ \E p \in Page, s \in Offered, written \in BOOLEAN : Save(p, s, written)

Spec == Init /\ [][Next]_vars

\* Messages are carried and handled, calls are carried out, and the panel
\* polls each of its links every few seconds.
FairSpec ==
    /\ Spec
    /\ WF_vars(Show) /\ WF_vars(Handle)
    /\ \A e \in Entity : WF_vars(Execute(e))
    /\ \A p \in Page, r \in Role : WF_vars(Poll(p, r))
-----------------------------------------------------------------------------
(* Properties.                                                             *)

\* An entity is only given services of its own domain: a cover is never
\* driven with a light's commands, whatever a panel's old pages ask and
\* whatever became of the page since they were written.
CallsSuitTargets ==
    \A e \in Entity : \A i \in DOMAIN calls[e] :
        (e \in Cover) <=> (calls[e][i].service \in {"open_cover", "close_cover", "stop_cover"})

\* What a light is set to is what it would be set to by the percentage it
\* is polled as: showing a value and setting it again never makes it drift.
SetIsTold ==
    \A e \in Light : \A i \in DOMAIN calls[e] :
        LET c == calls[e][i]
        IN  /\ "brightness" \in DOMAIN c =>
                  c.brightness = PercentToBrightness(BrightnessToPercent(c.brightness))
            /\ "kelvin" \in DOMAIN c =>
                  c.kelvin = PercentToKelvin(KelvinToPercent(c.kelvin, Low, High), Low, High)

\* s is a percentage nearest to n out of d.
Nearest(s, n, d) == 2 * (s * d - n * 100) <= d /\ 2 * (n * 100 - s * d) <= d

\* A value tells what the entity holds, as near as whole percentages do.
Tells(s, r, e) ==
    CASE r = "level" -> s = state[e]
      [] r = "brightness" -> Nearest(s, state[e], MaxBrightness)
      [] r = "colour_temperature" ->
            IF e \in Light /\ state[e] > 0 THEN Nearest(s, warmth[e] - Low, High - Low) ELSE s = 0

\* A control that drives something shows the truth, or is told nothing else.
Driven(p, r) ==
    LET e == TargetFor(component[p], r) IN e # None /\ state[e] # Unavailable
Shows(p, r) == Driven(p, r) => Tells(screen[p][r], r, TargetFor(component[p], r))
ToldTruly(p, r) ==
    Driven(p, r) =>
        \A i \in DOMAIN down : down[i].page = p /\ down[i].role = r =>
            Tells(down[i].value, r, TargetFor(component[p], r))

\* Nothing is on its way but polls and their answers.
Quiet ==
    /\ \A i \in DOMAIN up : up[i].ask = "get"
    /\ \A e \in Entity : calls[e] = <<>>

\* Once things are quiet, polling alone only ever puts screens right: it
\* keeps things quiet, its answers tell what each entity holds, now and left
\* over, and the first that comes behind the stale ones settles its control.
PollingSettles ==
    [][ Quiet /\ events' = events =>
          /\ Quiet'
          /\ \A p \in Page, r \in Role : ToldTruly(p, r) =>
                /\ ToldTruly(p, r)'
                /\ (Shows(p, r) \/ (Show /\ Head(down).page = p /\ Head(down).role = r))
                      => Shows(p, r)' ]_vars

\* Once nobody touches anything any more, every control a panel shows comes
\* to show, and goes on showing, what the entity it drives holds: also the
\* leftover ones, and whatever was lost or crossed on the way.
ScreensEndTrue ==
    <>[](\A p \in Page : \A r \in linked[p] : Shows(p, r))
=============================================================================
