------------------------------ MODULE Presence ------------------------------
(***************************************************************************)
(* What is made of panels that leave the bus and come back: the assumed    *)
(* state of backlights (switch.py) and the grouping of the components of   *)
(* one panel (async_watch_restart_grouping, group_from_restart).           *)
(*                                                                         *)
(* A panel restarts when a configuration is written to it: all of its      *)
(* addresses leave and return together, with their backlights off.  The    *)
(* gateway tells it by the list of its next heartbeat, if the panel is     *)
(* still away then.  A reload of the entry makes new entities, forgets the *)
(* list and cancels the entry's watchers; a save that changes the stored   *)
(* settings reloads the entry right after it has started one.              *)
(*                                                                         *)
(* Bounds: one call to a backlight, one save and one watcher at a time.    *)
(***************************************************************************)
EXTENDS Naturals, Sequences, FiniteSets

CONSTANTS
    Panel,
    Address,       \* numbers, as labels name the lowest of a group
    PanelOf(_),    \* the panel an address is on
    Keypad,        \* addresses with a backlight
    NoLabel,
    MaxWire,       \* bound: commands on their way
    MaxEvents      \* bound: calls, saves, lost sessions, reloads and panels that leave unasked

ASSUME PresenceAssumption ==
    /\ Address \subseteq Nat /\ IsFiniteSet(Address)
    /\ \A a \in Address : PanelOf(a) \in Panel
    /\ Keypad \subseteq Address
    /\ NoLabel \notin Address
    /\ MaxWire \in Nat /\ MaxEvents \in Nat

Led == [to : Keypad, on : BOOLEAN]
Write == [write : Address]
NoSave == [step |-> "none"]
NoWatch == [stage |-> "none"]

VARIABLES
    up,          \* panels that run
    lit,         \* backlights that are on
    wire,        \* commands on their way to the panels, in order
    connected,   \* the gateway's session
    known,       \* state.device_addresses
    shown,       \* backlights whose switch is on
    wasPresent,  \* switches whose panel was on the list when they last looked
    setting,     \* what each switch is being set to
    save,        \* the flow's write to a panel
    watch,       \* the grouping watcher
    label,       \* the lowest address of the group each address is in
    drifted,     \* history: backlights of which something went unnoticed
    gone,        \* history: addresses off the bus at some time of the watch
    events

ledVars == <<lit, shown, wasPresent, setting, drifted>>
groupVars == <<save, watch, label, gone>>
vars == <<up, wire, connected, known, ledVars, groupVars, events>>

On(S) == {a \in Address : PanelOf(a) \in S}
Down == Address \ On(up)

Watching == [stage : {"leaving", "left", "returning", "back"}, at : Address,
             before : SUBSET Address, missing : SUBSET Address]

TypeOK ==
    /\ up \subseteq Panel
    /\ lit \subseteq Keypad
    /\ wire \in Seq(Led \cup Write)
    /\ connected \in BOOLEAN
    /\ known \subseteq Address
    /\ shown \subseteq Keypad
    /\ wasPresent \subseteq Keypad
    /\ setting \in [Keypad -> {"idle", "on", "off"}]
    /\ save \in [step : {"sent"}, at : Address, changed : BOOLEAN] \cup {NoSave}
    /\ watch \in Watching \cup {NoWatch}
    /\ label \in [Address -> Address \cup {NoLabel}]
    /\ drifted \subseteq Keypad
    /\ gone \subseteq Address
    /\ events \in 0 .. MaxEvents

\* The entry was just set up, the backlights are off.
Init ==
    /\ up = Panel
    /\ lit = {}
    /\ wire = <<>>
    /\ connected = FALSE
    /\ known = {}
    /\ shown = {}
    /\ wasPresent = Keypad
    /\ setting = [a \in Keypad |-> "idle"]
    /\ save = NoSave
    /\ watch = NoWatch
    /\ label = [a \in Address |-> NoLabel]
    /\ drifted = {}
    /\ gone = {}
    /\ events = 0

Happens == events < MaxEvents /\ events' = events + 1
-----------------------------------------------------------------------------
(* History.                                                                *)

OnWire(a) == \E i \in DOMAIN wire : wire[i] \in Led /\ wire[i].to = a
Busy(a) == setting[a] # "idle" \/ OnWire(a)
Agrees(a) == a \in lit <=> a \in shown

\* More backlights have drifted; those at rest and shown as they are have not.
Drifts(S) == drifted' = {a \in drifted \cup S : ~(~Busy(a) /\ Agrees(a))'}

Away(S) == gone' = IF watch = NoWatch THEN gone ELSE gone \cup S
-----------------------------------------------------------------------------
(* The list and who listens to it.                                         *)

\* Mutant: a switch remembers a panel as present for good.
HandleState_Sticky(list) ==
    /\ shown' = shown \ (Keypad \ (wasPresent \cup list))
    /\ wasPresent' = wasPresent \cup (list \cap Keypad)

\* BE3LedSwitch._handle_state
HandleState(list) ==
    /\ shown' = shown \ (wasPresent \ list)
    /\ wasPresent' = list \cap Keypad

\* The watcher's _watch, and the waits of wait_for_restart: an event that is
\* set stays set.
Watched(list) ==
    watch' =
      IF watch = NoWatch THEN watch
      ELSE [watch EXCEPT !.missing = @ \cup (watch.before \ list),
                         !.stage = IF @ = "leaving" /\ watch.at \notin list THEN "left"
                                   ELSE IF @ = "returning" /\ watch.at \in list THEN "back"
                                   ELSE @]

\* _update_state with a heartbeat's list: listeners hear of a change only.
Heartbeat ==
    /\ connected
    /\ LET list == On(up)
       IN  \/ list = known /\ UNCHANGED vars
           \/ /\ list # known
              /\ known' = list
              /\ HandleState(list)
              /\ Watched(list)
              /\ UNCHANGED <<up, wire, connected, lit, setting, save, label, gone, events>>
              /\ Drifts({a \in Keypad \cap known : a \notin list /\ Busy(a)})

\* A socket is accepted: the list is still the last one.
Connect ==
    /\ ~connected
    /\ connected' = TRUE
    /\ HandleState(known)
    /\ Watched(known)
    /\ UNCHANGED <<up, wire, known, lit, setting, save, label, gone, events>>
    /\ Drifts({})

\* The session ends, and with it what was on its way.
Disconnect ==
    /\ Happens /\ connected
    /\ connected' = FALSE
    /\ wire' = <<>>
    /\ HandleState(known)
    /\ Watched(known)
    /\ UNCHANGED <<up, known, lit, setting, save, label, gone>>
    /\ Drifts({a \in Keypad : OnWire(a)})
-----------------------------------------------------------------------------
(* The panels.                                                             *)

\* Nobody will notice that these have left.
Unlisted(p) == (On({p}) \cap Keypad) \ known

\* A command arrives.  Of a panel that is away nothing arrives; a
\* configuration restarts the panel.
Deliver ==
    /\ wire # <<>>
    /\ wire' = Tail(wire)
    /\ LET c == Head(wire)
       IN  \/ /\ c \in Led /\ PanelOf(c.to) \in up
              /\ lit' = IF c.on THEN lit \cup {c.to} ELSE lit \ {c.to}
              /\ UNCHANGED <<up, gone, shown, setting>>
              /\ Drifts({})
           \/ /\ c \in Led /\ PanelOf(c.to) \notin up
              /\ UNCHANGED <<up, gone, lit, shown, setting>>
              /\ Drifts({c.to})
           \/ /\ c \in Write
              /\ up' = up \ {PanelOf(c.write)}
              /\ lit' = lit \ On({PanelOf(c.write)})
              /\ Away(On({PanelOf(c.write)}))
              /\ UNCHANGED <<shown, setting>>
              /\ Drifts(Unlisted(PanelOf(c.write)))
    /\ UNCHANGED <<connected, known, wasPresent, save, watch, label, events>>

\* A panel is unplugged, or restarts for somebody else.
PanelLeaves(p) ==
    /\ Happens /\ p \in up
    /\ up' = up \ {p}
    /\ lit' = lit \ On({p})
    /\ Away(On({p}))
    /\ UNCHANGED <<wire, connected, known, shown, wasPresent, setting, save, watch, label>>
    /\ Drifts(Unlisted(p))

\* It is back; if it is still on the list, nobody noticed.
PanelReturns(p) ==
    /\ p \in Panel \ up
    /\ up' = up \cup {p}
    /\ UNCHANGED <<wire, connected, known, lit, shown, wasPresent, setting, groupVars, events>>
    /\ Drifts(On({p}) \cap Keypad \cap known)
-----------------------------------------------------------------------------
(* The backlight's switch: _set.                                           *)

Wanted(on) == IF on THEN "on" ELSE "off"

\* The command is written; a panel that is not on the list is not asked for.
SetLed(a, on) ==
    /\ Happens
    /\ connected /\ setting[a] = "idle" /\ Len(wire) < MaxWire
    /\ wire' = Append(wire, [to |-> a, on |-> on])
    /\ setting' = [setting EXCEPT ![a] = Wanted(on)]
    /\ UNCHANGED <<up, connected, known, lit, shown, wasPresent, groupVars>>
    /\ Drifts({a} \ known)

\* The send is done, and the switch is what it was set to.
LedSent(a) ==
    /\ setting[a] # "idle"
    /\ shown' = IF setting[a] = "on" THEN shown \cup {a} ELSE shown \ {a}
    /\ setting' = [setting EXCEPT ![a] = "idle"]
    /\ UNCHANGED <<up, wire, connected, known, lit, wasPresent, groupVars, events>>
    /\ Drifts({})

\* It failed, and the switch is left alone.
LedFailed(a) ==
    /\ setting[a] # "idle"
    /\ setting' = [setting EXCEPT ![a] = "idle"]
    /\ UNCHANGED <<up, wire, connected, known, lit, shown, wasPresent, groupVars, events>>
    /\ Drifts({a})
-----------------------------------------------------------------------------
(* Saves, reloads and the watcher.                                         *)

\* Everything the loaded entry held is new: the gateway and its list, the
\* switches, and no watcher.
Reloads ==
    /\ connected' = FALSE
    /\ wire' = <<>>
    /\ known' = {}
    /\ shown' = {}
    /\ wasPresent' = Keypad
    /\ setting' = [a \in Keypad |-> "idle"]
    /\ watch' = NoWatch
    /\ gone' = {}
    /\ UNCHANGED <<up, lit>>
    /\ Drifts(Keypad)

Reload ==
    /\ Happens
    /\ Reloads
    /\ UNCHANGED <<save, label>>

\* _async_write_to_panel: the page is sent.
SaveBegins(a, changed) ==
    /\ Happens
    /\ connected /\ save = NoSave /\ watch = NoWatch /\ Len(wire) < MaxWire
    /\ wire' = Append(wire, [write |-> a])
    /\ save' = [step |-> "sent", at |-> a, changed |-> changed]
    /\ UNCHANGED <<up, connected, known, ledVars, watch, label, gone>>

\* The save changes nothing that is stored: only now does the watcher live
\* (async_watch_restart_grouping up to its first wait).
SaveUnchanged ==
    /\ save # NoSave /\ ~save.changed
    /\ watch' = [stage |-> IF save.at \in known THEN "leaving" ELSE "returning", at |-> save.at,
                 before |-> known, missing |-> {}]
    /\ gone' = Down
    /\ save' = NoSave
    /\ UNCHANGED <<up, wire, connected, known, ledVars, label, events>>

\* The watcher is started, and cancelled by the reload of the same save.
SaveChanged ==
    /\ save # NoSave /\ save.changed
    /\ Reloads
    /\ save' = NoSave
    /\ UNCHANGED <<label, events>>

SaveFails ==
    /\ save # NoSave
    /\ save' = NoSave
    /\ UNCHANGED <<up, wire, connected, known, ledVars, watch, label, gone, events>>

\* The address has left; wait_for_address does not find it on the list.
Resume ==
    /\ watch # NoWatch /\ watch.stage = "left" /\ watch.at \notin known
    /\ watch' = [watch EXCEPT !.stage = "returning"]
    /\ UNCHANGED <<up, wire, connected, known, ledVars, save, label, gone, events>>

\* Either wait times out.
WatchEnds ==
    /\ watch # NoWatch /\ watch.stage \in {"leaving", "returning"}
    /\ watch' = NoWatch
    /\ gone' = {}
    /\ UNCHANGED <<up, wire, connected, known, ledVars, save, label, events>>

Lowest(S) == CHOOSE a \in S : \A b \in S : a <= b

\* Mutant: whoever is there before and after was away.
Grouped_Present(w, list) == IF w.at \in w.before \cap list THEN w.before \cap list ELSE {}

\* group_from_restart: present before, away during, present after, the
\* written address among them.
Grouped(w, list) ==
    LET during == w.before \ w.missing
        both == (w.before \ during) \cap list
    IN  IF w.at \in both THEN both ELSE {}

\* _panel_label
PanelLabel(S) ==
    LET labelled == {a \in S : label[a] # NoLabel}
    IN  IF labelled = {} THEN Lowest(S) ELSE label[Lowest(labelled)]

\* Both waits are over: the group is labelled, and the labels reload the entry.
Group ==
    /\ watch # NoWatch
    /\ \/ watch.stage = "back"
       \/ watch.stage = "left" /\ watch.at \in known
    /\ LET group == Grouped(watch, known)
           bare == {a \in group : label[a] = NoLabel}
       IN  IF Cardinality(group) < 2 \/ bare = {}
           THEN /\ watch' = NoWatch
                /\ gone' = {}
                /\ UNCHANGED <<up, wire, connected, known, ledVars, label>>
           ELSE /\ label' = [a \in Address |-> IF a \in bare THEN PanelLabel(group) ELSE label[a]]
                /\ Reloads
    /\ UNCHANGED <<save, events>>
-----------------------------------------------------------------------------
Next ==
    \/ Heartbeat \/ Connect \/ Disconnect \/ Deliver \/ Reload
    \/ \E p \in Panel : PanelLeaves(p) \/ PanelReturns(p)
    \/ \E a \in Keypad : \/ \E on \in BOOLEAN : SetLed(a, on)
                         \/ LedSent(a) \/ LedFailed(a)
    \/ \E a \in Address, changed \in BOOLEAN : SaveBegins(a, changed)
    \/ SaveUnchanged \/ SaveChanged \/ SaveFails
    \/ Resume \/ WatchEnds \/ Group

Spec == Init /\ [][Next]_vars
-----------------------------------------------------------------------------
(* Properties.                                                             *)

\* A backlight at rest, on a panel that runs, is shown as it is unless the
\* switch could not know better: it was made anew, its command was lost or
\* failed, its panel left and came back without its name leaving the list,
\* or left the list while a call was under way, or it was set while not on
\* the list.  The last two are not the protocol's: switch.py:129 sets its
\* state after the await, and nothing asks whether the panel is there.
BacklightWrongOnlyUnnoticed ==
    \A a \in Keypad \ drifted : PanelOf(a) \in up /\ ~Busy(a) => Agrees(a)

\* What is labelled was off the bus at some time of the watch, as a panel
\* that restarts is; and it is the written panel that is labelled, with every
\* address of it that was on the list when the watch began.
GroupedWereGone ==
    [][label' # label =>
          /\ \A a \in Address : label'[a] # label[a] => a \in gone
          /\ \A a \in On({PanelOf(watch.at)}) \cap watch.before : label'[a] # NoLabel]_vars
=============================================================================
