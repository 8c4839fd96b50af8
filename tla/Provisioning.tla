---------------------------- MODULE Provisioning ----------------------------
(***************************************************************************)
(* Operations that change panels: moving a component to another address,   *)
(* and writing pages, which restarts the panel (provisioning.py, and the   *)
(* callers of it in __init__.py and config_flow.py).                       *)
(*                                                                         *)
(* The gateway confirms nothing.  All a Provisioner knows is the address   *)
(* list of the last heartbeat, which it checks before it sends and watches *)
(* afterwards, each wait with a timeout of its own.  A task is one call:   *)
(* it runs from one await to the next, and everything else happens while   *)
(* it waits.                                                               *)
(*                                                                         *)
(* The bus is the environment: a command reaches the components that are   *)
(* up and have its address; a write restarts their panels, with whatever   *)
(* else is on them; a panel that is down is missing from the heartbeats.   *)
(***************************************************************************)
EXTENDS Naturals, FiniteSets, Sequences

CONSTANTS
    Unit,            \* the components on the bus
    Panel,           \* the panels they are part of
    PanelOf(_),      \* the panel of a component
    FirstAddress(_), \* where a component is at first
    Address,         \* bus addresses
    GatewayAddress,  \* the gateway's own
    Task,            \* concurrent calls
    MaxMore,         \* bound: pages of one call after its first
    MaxWire          \* bound: commands on their way to the bus

ASSUME UnitAssumption == \A u \in Unit : PanelOf(u) \in Panel /\ FirstAddress(u) \in Address
ASSUME DistinctAssumption ==
    /\ \A u, v \in Unit : FirstAddress(u) = FirstAddress(v) => u = v
    /\ \A u \in Unit : FirstAddress(u) # GatewayAddress
ASSUME BoundsAssumption == MaxMore \in Nat /\ MaxWire \in Nat \ {0}

VARIABLES
    addr,       \* the address of each component
    up,         \* the panels that are running
    wire,       \* commands sent and not yet on the bus
    connected,  \* GatewayState.connected
    known,      \* GatewayState.device_addresses
    heard,      \* GatewayState.gateway_address is known
    pc,         \* what each task waits for
    cmd,        \* the command it is about
    woken       \* tasks whose event is set and that have not run since

vars == <<addr, up, wire, connected, known, heard, pc, cmd, woken>>

busVars == <<addr, up>>
stateVars == <<connected, known, heard>>

\* A move goes from at to to; a page write has more pages to follow; a save
\* is a page written by the flow, whose grouping waits for the restart; quiet
\* commands (identify, a backlight, clearing a page) restart nothing.
\* complete: checked against a list with every component on it, and no
\* component has moved since.  landed: a page that reached a component.
Command == [op : {"move", "page", "save", "quiet"}, at : Address, to : Address,
            more : 0..MaxMore, complete : BOOLEAN, landed : BOOLEAN]
NoCommand == [op |-> "none"]

Move(old, new) == [op |-> "move", at |-> old, to |-> new, more |-> 0,
                   complete |-> \A u \in Unit : addr[u] \in known, landed |-> FALSE]
Page(op, a, more) == [op |-> op, at |-> a, to |-> a, more |-> more,
                      complete |-> FALSE, landed |-> FALSE]

Waiting == {"knowing", "verifying", "dropping", "returning"}

TypeOK ==
    /\ addr \in [Unit -> Address]
    /\ up \subseteq Panel
    /\ wire \in Seq([by : Task, cmd : Command]) /\ Len(wire) <= MaxWire
    /\ connected \in BOOLEAN
    /\ known \subseteq Address
    /\ heard \in BOOLEAN
    /\ pc \in [Task -> Waiting \cup {"idle"}]
    /\ cmd \in [Task -> Command \cup {NoCommand}]
    /\ woken \subseteq Task

\* The gateway has just connected and sent nothing yet.
Init ==
    /\ addr = [u \in Unit |-> FirstAddress(u)]
    /\ up = Panel
    /\ wire = <<>>
    /\ connected = TRUE
    /\ known = {}
    /\ heard = FALSE
    /\ pc = [t \in Task |-> "idle"]
    /\ cmd = [t \in Task |-> NoCommand]
    /\ woken = {}

-----------------------------------------------------------------------------
(* Waiting on the gateway's state.                                         *)

\* What a waiting task waits for, in a state with the list K.
Satisfied(t, K) ==
    CASE pc[t] = "dropping" -> cmd[t].at \notin K
      [] pc[t] = "verifying" -> cmd[t].to \in K
      [] pc[t] \in {"knowing", "returning"} -> cmd[t].at \in K
      [] OTHER -> FALSE

\* The state changed: every listener sees the new one.
Notify(K) == woken' = woken \cup {t \in Task : Satisfied(t, K)}

\* Task t ends its call.
Ends(t) ==
    /\ pc' = [pc EXCEPT ![t] = "idle"]
    /\ cmd' = [cmd EXCEPT ![t] = NoCommand]
    /\ woken' = woken \ {t}

\* Task t waits, for command c.
Waits(t, c, for) ==
    /\ pc' = [pc EXCEPT ![t] = for]
    /\ cmd' = [cmd EXCEPT ![t] = c]
    /\ woken' = woken \ {t}

-----------------------------------------------------------------------------
(* The operations, from one wait to the next.                              *)

\* After its command is sent: a move is verified, unless the new address is
\* already on the list; a page with more to follow, or a save, waits for the
\* panel to leave the list and return.
AfterSend(t, c) ==
    IF c.op = "move"
    THEN IF c.to \in known THEN Ends(t) ELSE Waits(t, c, "verifying")
    ELSE IF c.op = "save" \/ c.more > 0
         THEN Waits(t, c, IF c.at \in known THEN "dropping" ELSE "returning")
         ELSE Ends(t)

\* _send: NotConnected ends the call.
Send(t, c) ==
    IF connected
    THEN /\ Len(wire) < MaxWire
         /\ wire' = Append(wire, [by |-> t, cmd |-> c])
         /\ AfterSend(t, c)
    ELSE Ends(t) /\ UNCHANGED wire

\* _await_known: an empty list is no reason to refuse.
AwaitKnown(t, c) ==
    IF known = {} \/ c.at \in known
    THEN Send(t, c)
    ELSE Waits(t, c, "knowing") /\ UNCHANGED wire

\* Mutant: the target address is not looked up.
SetAddress_Unchecked(t, old, new) ==
    /\ pc[t] = "idle"
    /\ old # new
    /\ AwaitKnown(t, Move(old, new))
    /\ UNCHANGED <<busVars, stateVars>>

\* set_address; taken addresses are refused.
SetAddress(t, old, new) ==
    /\ pc[t] = "idle"
    /\ old # new
    /\ new \notin known
    /\ ~(heard /\ new = GatewayAddress)
    /\ AwaitKnown(t, Move(old, new))
    /\ UNCHANGED <<busVars, stateVars>>

\* A service or the flow writes pages of one address.
Write(t, a, op, more) ==
    /\ pc[t] = "idle"
    /\ AwaitKnown(t, Page(op, a, more))
    /\ UNCHANGED <<busVars, stateVars>>

\* blank_configuration is sent without asking whether anyone is there.
Blank(t, a) ==
    /\ pc[t] = "idle"
    /\ Send(t, Page("page", a, 0))
    /\ UNCHANGED <<busVars, stateVars>>

\* identify, set_led, clear_configuration and start_update ask nobody and
\* wait for nothing; a panel is cleared by one such call after the other.
Quiet(t, a) ==
    /\ pc[t] = "idle"
    /\ Send(t, Page("quiet", a, 0))
    /\ UNCHANGED <<busVars, stateVars>>

\* Mutant: the page that was written is not counted.
NextPage_Again(t) ==
    IF cmd[t].more > 0
    THEN AwaitKnown(t, [cmd[t] EXCEPT !.landed = FALSE])
    ELSE Ends(t) /\ UNCHANGED wire

\* The wait for a restart is over: on to the next page, if there is one.
NextPage(t) ==
    IF cmd[t].more > 0
    THEN AwaitKnown(t, [cmd[t] EXCEPT !.more = @ - 1, !.landed = FALSE])
    ELSE Ends(t) /\ UNCHANGED wire

\* A task whose event is set runs on.
Resume(t) ==
    /\ t \in woken
    /\ \/ pc[t] = "knowing" /\ Send(t, cmd[t])
       \/ pc[t] = "verifying" /\ Ends(t) /\ UNCHANGED wire
       \/ /\ pc[t] = "dropping" /\ cmd[t].at \notin known
          /\ Waits(t, cmd[t], "returning")
          /\ UNCHANGED wire
       \/ pc[t] = "dropping" /\ cmd[t].at \in known /\ NextPage(t)
       \/ pc[t] = "returning" /\ NextPage(t)
    /\ UNCHANGED <<busVars, stateVars>>

\* Mutant: only the wait for the panel to leave the list has a timeout.
TimesOut_DropOnly(t) ==
    /\ pc[t] = "dropping"
    /\ NextPage(t)
    /\ UNCHANGED <<busVars, stateVars>>

\* A wait runs out.  A restart nobody saw is no failure; all else is.
TimesOut(t) ==
    /\ pc[t] \in Waiting
    /\ IF pc[t] = "dropping" THEN NextPage(t) ELSE Ends(t) /\ UNCHANGED wire
    /\ UNCHANGED <<busVars, stateVars>>

-----------------------------------------------------------------------------
(* The gateway's session and the bus.                                      *)

OnTheBus == {addr[u] : u \in {v \in Unit : PanelOf(v) \in up}}

\* Mutant: a heartbeat wakes nobody.
Heartbeat_Silent ==
    /\ connected
    /\ known' = OnTheBus
    /\ heard' = TRUE
    /\ UNCHANGED <<busVars, wire, connected, pc, cmd, woken>>

\* A heartbeat; listeners hear of it only when it changes something.
Heartbeat ==
    /\ connected
    /\ known' = OnTheBus
    /\ heard' = TRUE
    /\ IF known' = known /\ heard THEN UNCHANGED woken ELSE Notify(known')
    /\ UNCHANGED <<busVars, wire, connected, pc, cmd>>

\* The session ends, with what it had not relayed; the list is kept.
Disconnect ==
    /\ connected
    /\ connected' = FALSE
    /\ wire' = <<>>
    /\ Notify(known)
    /\ UNCHANGED <<busVars, known, heard, pc, cmd>>

Connect ==
    /\ ~connected
    /\ connected' = TRUE
    /\ Notify(known)
    /\ UNCHANGED <<busVars, wire, known, heard, pc, cmd>>

\* No outstanding move was checked against where the components are now.
Outdated(c) == IF c = NoCommand THEN c ELSE [c EXCEPT !.complete = FALSE]

Reached(c) == {u \in Unit : addr[u] = c.at /\ PanelOf(u) \in up}

\* The gateway puts a move on the bus.
DeliverMove ==
    /\ wire # <<>> /\ Head(wire).cmd.op = "move"
    /\ LET c == Head(wire).cmd
           rest == Tail(wire)
           reached == Reached(c)
       IN IF reached = {} THEN wire' = rest /\ UNCHANGED <<addr, cmd>>
          ELSE /\ addr' = [u \in Unit |-> IF u \in reached THEN c.to ELSE addr[u]]
               /\ wire' = [i \in 1..Len(rest) |-> [rest[i] EXCEPT !.cmd = Outdated(@)]]
               /\ cmd' = [t \in Task |-> Outdated(cmd[t])]
    /\ UNCHANGED <<up, stateVars, pc, woken>>

\* The gateway puts a page on the bus: the panels it reaches restart.
DeliverPage ==
    /\ wire # <<>> /\ Head(wire).cmd.op \in {"page", "save"}
    /\ LET m == Head(wire)
           reached == Reached(m.cmd)
           awaited == /\ reached # {} /\ pc[m.by] \in {"dropping", "returning"}
                      /\ \A i \in 2..Len(wire) : wire[i].by # m.by
       IN /\ up' = up \ {PanelOf(u) : u \in reached}
          /\ cmd' = IF awaited THEN [cmd EXCEPT ![m.by].landed = TRUE] ELSE cmd
    /\ wire' = Tail(wire)
    /\ UNCHANGED <<addr, stateVars, pc, woken>>

\* A command that changes neither addresses nor who is there: clearing a page
\* does not restart its panel (provisioning.py:279).
DeliverQuiet ==
    /\ wire # <<>> /\ Head(wire).cmd.op = "quiet"
    /\ wire' = Tail(wire)
    /\ UNCHANGED <<busVars, stateVars, pc, cmd, woken>>

\* A panel has restarted.
PanelReturns(p) ==
    /\ p \in Panel \ up
    /\ up' = up \cup {p}
    /\ UNCHANGED <<addr, wire, stateVars, pc, cmd, woken>>

-----------------------------------------------------------------------------
Calls(t) ==
    \/ \E old, new \in Address : SetAddress(t, old, new)
    \/ \E a \in Address, more \in 0..MaxMore : Write(t, a, "page", more)
    \/ \E a \in Address : Write(t, a, "save", 0)
    \/ \E a \in Address : Blank(t, a) \/ Quiet(t, a)

Next ==
    \/ \E t \in Task : Calls(t) \/ Resume(t) \/ TimesOut(t)
    \/ Heartbeat \/ Disconnect \/ Connect \/ DeliverMove \/ DeliverPage \/ DeliverQuiet
    \/ \E p \in Panel : PanelReturns(p)

Spec == Init /\ [][Next]_vars

\* A timeout fires, a woken task runs, and the gateway takes what it is sent.
\* Nothing is assumed of the panels, the heartbeats or the session.
FairSpec ==
    /\ Spec
    /\ WF_vars(DeliverMove \/ DeliverPage \/ DeliverQuiet)
    /\ \A t \in Task : WF_vars(Resume(t) \/ TimesOut(t))

-----------------------------------------------------------------------------
(* Safety.                                                                 *)

\* No wake-up is lost: a task that waits and was not woken waits for
\* something the current list does not show.
WaiterIsNotDone ==
    \A t \in Task \ woken : ~Satisfied(t, known)

\* Components in each other's way, or in the gateway's.
Clash ==
    {p \in Unit \X Unit : p[1] # p[2] /\ addr[p[1]] = addr[p[2]]}
        \cup {p \in Unit \X Unit : p[1] = p[2] /\ addr[p[1]] = GatewayAddress}

\* A move checked against a list with every component on it, none of which
\* has moved since, puts nobody in another's way.
CompleteCheckIsSafe ==
    [][ ~(Clash' \subseteq Clash) => ~Head(wire).cmd.complete ]_vars

\* The waits a call may still have before it, of three kinds for each page.
Left(t) ==
    CASE pc[t] = "idle" -> 0
      [] pc[t] = "knowing" -> 3 * cmd[t].more + 3
      [] pc[t] = "dropping" -> 3 * cmd[t].more + 2
      [] pc[t] \in {"verifying", "returning"} -> 3 * cmd[t].more + 1

\* No call goes round in circles: whatever the others do and the gateway
\* says, nothing adds to the waits a call has left, and whenever it runs on
\* from one, woken or timed out, it has fewer.
CallsGetOn ==
    [][ \A t \in Task :
          /\ pc[t] # "idle" => Left(t)' <= Left(t)
          /\ Resume(t) \/ TimesOut(t) => Left(t)' < Left(t) ]_vars

-----------------------------------------------------------------------------
(* Liveness, under FairSpec.                                               *)

\* Every call ends, whatever the panels and the gateway do.
CallEnds == \A t \in Task : pc[t] # "idle" ~> pc[t] = "idle"

-----------------------------------------------------------------------------
(* What the code says of itself and does not keep; see the findings.       *)

\* A wait for a restart is over with the panel seen to leave and return.
Confirmed(t) ==
    /\ Resume(t)
    /\ pc[t] = "returning" \/ (pc[t] = "dropping" /\ cmd[t].at \in known)

\* provisioning.py:380: "That restart is the only evidence the write was
\* accepted [...] so watching the address disappear and return confirms it."
RestartConfirmsWrite == [][ \A t \in Task : Confirmed(t) => cmd[t].landed ]_vars
=============================================================================
