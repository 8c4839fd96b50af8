-------------------------- MODULE ProvisioningProofs --------------------------
(***************************************************************************)
(* Proofs about Provisioning, for any components, panels, addresses and    *)
(* calls, and any bounds.                                                  *)
(*                                                                         *)
(* What the inductive invariant adds to the types: a call waits about a    *)
(* command, and only a waiting call is woken; a list that is not empty     *)
(* came with the gateway's own address; and the target of a move that was  *)
(* checked against a complete list, none of whose components has moved     *)
(* since, is nobody's address for as long as the move is outstanding.      *)
(***************************************************************************)
EXTENDS Provisioning, TLAPS

\* A call that waits has a command, and only such a call is woken.
CallsWait ==
    \A t \in Task : IF pc[t] = "idle" THEN cmd[t] = NoCommand /\ t \notin woken
                                      ELSE cmd[t] \in Command

\* The list and the gateway's address come with the same heartbeat.
HeardWithList == known # {} => heard

\* No component is where the command would put one, nor is the gateway.
Clear(c) == c.complete => \A u \in Unit : addr[u] # c.to /\ c.to # GatewayAddress

\* What holds of the calls, and of the commands on their way.
CallsOK ==
    /\ pc \in [Task -> Waiting \cup {"idle"}]
    /\ cmd \in [Task -> Command \cup {NoCommand}]
    /\ woken \subseteq Task
    /\ CallsWait
    /\ WaiterIsNotDone
    /\ \A t \in Task : pc[t] # "idle" => Clear(cmd[t])

WireOK ==
    /\ wire \in Seq([by : Task, cmd : Command]) /\ Len(wire) <= MaxWire
    /\ \A i \in 1..Len(wire) : Clear(wire[i].cmd)

BusOK ==
    /\ addr \in [Unit -> Address]
    /\ up \subseteq Panel
    /\ connected \in BOOLEAN
    /\ known \subseteq Address
    /\ heard \in BOOLEAN
    /\ HeardWithList

IInv == BusOK /\ WireOK /\ CallsOK

\* What a wait is for is not on the list yet.
NotYet(c, for) ==
    CASE for = "dropping" -> c.at \in known
      [] for = "verifying" -> c.to \notin known
      [] for \in {"knowing", "returning"} -> c.at \notin known

-----------------------------------------------------------------------------
(* A call's step, from its last word to its first.                         *)

LEMMA EndsKeeps ==
    ASSUME CallsOK, NEW t \in Task, Ends(t), UNCHANGED <<addr, known>>
    PROVE  CallsOK'
<1> USE DEF CallsOK
<1>1. pc' = [pc EXCEPT ![t] = "idle"] /\ cmd' = [cmd EXCEPT ![t] = NoCommand] /\ woken' = woken \ {t}
  BY DEF Ends
<1>2. pc' \in [Task -> Waiting \cup {"idle"}] /\ cmd' \in [Task -> Command \cup {NoCommand}]
  BY <1>1
<1>3. pc'[t] = "idle" /\ cmd'[t] = NoCommand
  BY <1>1
<1>4. \A s \in Task \ {t} : pc'[s] = pc[s] /\ cmd'[s] = cmd[s] /\ (s \in woken' <=> s \in woken)
  BY <1>1
<1>5. CallsWait'
  BY <1>1, <1>3, <1>4 DEF CallsWait
<1>6. WaiterIsNotDone'
  BY <1>1, <1>3, <1>4 DEF WaiterIsNotDone, Satisfied
<1>7. \A s \in Task : pc'[s] # "idle" => Clear(cmd[s])'
  BY <1>3, <1>4 DEF Clear
<1> QED
  BY <1>1, <1>2, <1>5, <1>6, <1>7

LEMMA WaitsKeeps ==
    ASSUME CallsOK, NEW t \in Task, NEW c \in Command, Clear(c), NEW for \in Waiting,
           NotYet(c, for), Waits(t, c, for), UNCHANGED <<addr, known>>
    PROVE  CallsOK'
<1> USE DEF CallsOK
<1>1. pc' = [pc EXCEPT ![t] = for] /\ cmd' = [cmd EXCEPT ![t] = c] /\ woken' = woken \ {t}
  BY DEF Waits
<1>2. pc' \in [Task -> Waiting \cup {"idle"}] /\ cmd' \in [Task -> Command \cup {NoCommand}]
  BY <1>1
<1>3. pc'[t] = for /\ cmd'[t] = c /\ for # "idle"
  BY <1>1 DEF Waiting
<1>4. \A s \in Task \ {t} : pc'[s] = pc[s] /\ cmd'[s] = cmd[s] /\ (s \in woken' <=> s \in woken)
  BY <1>1
<1>5. CallsWait'
  BY <1>1, <1>3, <1>4 DEF CallsWait
<1>6. WaiterIsNotDone'
  <2>1. ~Satisfied(t, known)'
    BY <1>3 DEF Satisfied, NotYet, Waiting
  <2> QED BY <1>1, <1>4, <2>1 DEF WaiterIsNotDone, Satisfied
<1>7. \A s \in Task : pc'[s] # "idle" => Clear(cmd[s])'
  BY <1>3, <1>4 DEF Clear
<1> QED
  BY <1>1, <1>2, <1>5, <1>6, <1>7

LEMMA AfterSendKeeps ==
    ASSUME CallsOK, NEW t \in Task, NEW c \in Command, Clear(c), AfterSend(t, c),
           UNCHANGED <<addr, known>>
    PROVE  CallsOK'
<1>1. CASE Ends(t)
  BY <1>1, EndsKeeps
<1>2. ASSUME NEW for \in Waiting, NotYet(c, for), Waits(t, c, for) PROVE CallsOK'
  BY <1>2, WaitsKeeps
<1>3. Ends(t) \/ \E for \in Waiting : NotYet(c, for) /\ Waits(t, c, for)
  <2>1. CASE c.op = "move" /\ c.to \notin known
    <3>1. Waits(t, c, "verifying") /\ NotYet(c, "verifying")
      BY <2>1 DEF AfterSend, NotYet
    <3> QED BY <3>1 DEF Waiting
  <2>2. CASE c.op # "move" /\ (c.op = "save" \/ c.more > 0) /\ c.at \in known
    <3>1. Waits(t, c, "dropping") /\ NotYet(c, "dropping")
      BY <2>2 DEF AfterSend, NotYet
    <3> QED BY <3>1 DEF Waiting
  <2>3. CASE c.op # "move" /\ (c.op = "save" \/ c.more > 0) /\ c.at \notin known
    <3>1. Waits(t, c, "returning") /\ NotYet(c, "returning")
      BY <2>3 DEF AfterSend, NotYet
    <3> QED BY <3>1 DEF Waiting
  <2>4. CASE \/ c.op = "move" /\ c.to \in known
             \/ c.op # "move" /\ ~(c.op = "save" \/ c.more > 0)
    BY <2>4 DEF AfterSend
  <2> QED BY <2>1, <2>2, <2>3, <2>4
<1> QED
  BY <1>1, <1>2, <1>3

\* Sending keeps what is known of the calls and of the wire.
LEMMA SendKeeps ==
    ASSUME CallsOK, WireOK, NEW t \in Task, NEW c \in Command, Clear(c), Send(t, c),
           UNCHANGED <<addr, known>>
    PROVE  CallsOK' /\ WireOK'
<1>1. CASE connected
  <2>1. /\ Len(wire) < MaxWire /\ AfterSend(t, c)
        /\ wire' = Append(wire, [by |-> t, cmd |-> c])
    BY <1>1 DEF Send
  <2>2. CallsOK'
    BY <2>1, AfterSendKeeps
  <2>3. wire \in Seq([by : Task, cmd : Command]) /\ [by |-> t, cmd |-> c] \in [by : Task, cmd : Command]
    BY DEF WireOK
  <2>4. /\ wire' \in Seq([by : Task, cmd : Command])
        /\ Len(wire') = Len(wire) + 1
        /\ \A i \in 1..Len(wire) : wire'[i] = wire[i]
        /\ wire'[Len(wire) + 1] = [by |-> t, cmd |-> c]
    BY <2>1, <2>3
  <2>5. Len(wire') <= MaxWire
    BY <2>1, <2>3, <2>4, BoundsAssumption
  <2>6. ASSUME NEW i \in 1..Len(wire') PROVE Clear(wire[i].cmd)'
    <3>1. CASE i = Len(wire) + 1
      <4>1. wire'[i].cmd = c
        BY <2>4, <3>1
      <4> QED BY <4>1 DEF Clear
    <3>2. CASE i # Len(wire) + 1
      <4>1. i \in 1..Len(wire) /\ wire'[i] = wire[i]
        BY <2>3, <2>4, <3>2
      <4> QED BY <4>1 DEF WireOK, Clear
    <3> QED BY <3>1, <3>2
  <2> QED BY <2>2, <2>4, <2>5, <2>6 DEF WireOK
<1>2. CASE ~connected
  <2>1. Ends(t) /\ UNCHANGED wire
    BY <1>2 DEF Send
  <2> QED BY <2>1, EndsKeeps DEF WireOK, Clear
<1> QED
  BY <1>1, <1>2

LEMMA AwaitKnownKeeps ==
    ASSUME CallsOK, WireOK, NEW t \in Task, NEW c \in Command, Clear(c), AwaitKnown(t, c),
           UNCHANGED <<addr, known>>
    PROVE  CallsOK' /\ WireOK'
<1>1. CASE Send(t, c)
  BY <1>1, SendKeeps
<1>2. CASE ~(known = {} \/ c.at \in known)
  <2>1. Waits(t, c, "knowing") /\ UNCHANGED wire /\ NotYet(c, "knowing")
    BY <1>2 DEF AwaitKnown, NotYet
  <2>2. CallsOK'
    BY <2>1, WaitsKeeps DEF Waiting
  <2> QED BY <2>1, <2>2 DEF WireOK, Clear
<1> QED
  BY <1>1, <1>2 DEF AwaitKnown

LEMMA NextPageKeeps ==
    ASSUME CallsOK, WireOK, NEW t \in Task, pc[t] # "idle", NextPage(t), UNCHANGED <<addr, known>>
    PROVE  CallsOK' /\ WireOK'
<1>1. CASE cmd[t].more > 0
  <2> DEFINE c == [cmd[t] EXCEPT !.more = @ - 1, !.landed = FALSE]
  <2>1. cmd[t] \in Command /\ Clear(cmd[t])
    BY DEF CallsOK, CallsWait
  <2>2. cmd[t].more - 1 \in 0..MaxMore
    BY <1>1, <2>1, BoundsAssumption DEF Command
  <2>3. c \in Command /\ c.to = cmd[t].to /\ c.complete = cmd[t].complete
    BY <2>1, <2>2 DEF Command
  <2>4. Clear(c)
    BY <2>1, <2>3 DEF Clear
  <2>5. AwaitKnown(t, c)
    BY <1>1 DEF NextPage
  <2> QED BY <2>3, <2>4, <2>5, AwaitKnownKeeps
<1>2. CASE ~(cmd[t].more > 0)
  <2>1. Ends(t) /\ UNCHANGED wire
    BY <1>2 DEF NextPage
  <2> QED BY <2>1, EndsKeeps DEF WireOK, Clear
<1> QED
  BY <1>1, <1>2

-----------------------------------------------------------------------------
(* What happens around the calls.                                          *)

\* The listeners of a new list wake whoever it satisfies.
LEMMA NotifyKeeps ==
    ASSUME CallsOK, Notify(known'), UNCHANGED <<addr, pc, cmd>>
    PROVE  CallsOK'
<1>1. woken' = woken \cup {t \in Task : Satisfied(t, known')}
  BY DEF Notify
<1>2. \A t \in Task : pc[t] = "idle" => ~Satisfied(t, known')
  BY DEF Satisfied
<1>3. CallsWait'
  BY <1>1, <1>2 DEF CallsOK, CallsWait
<1>4. WaiterIsNotDone'
  BY <1>1 DEF CallsOK, WaiterIsNotDone, Satisfied
<1> QED
  BY <1>1, <1>3, <1>4 DEF CallsOK, Clear

\* A task that nothing happens to is as it was, on the same list and bus.
LEMMA SameCalls ==
    ASSUME CallsOK, UNCHANGED <<addr, known, pc, cmd, woken>>
    PROVE  CallsOK'
BY DEF CallsOK, CallsWait, WaiterIsNotDone, Satisfied, Clear

\* So are the commands on their way.
LEMMA SameWire == ASSUME WireOK, UNCHANGED <<addr, wire>> PROVE WireOK'
BY DEF WireOK, Clear

\* The wire without its first command, on the same bus.
LEMMA TailKeeps ==
    ASSUME WireOK, wire # <<>>, wire' = Tail(wire), UNCHANGED addr
    PROVE  WireOK'
<1>1. wire \in Seq([by : Task, cmd : Command])
  BY DEF WireOK
<1>2. /\ wire' \in Seq([by : Task, cmd : Command])
      /\ Len(wire') = Len(wire) - 1
      /\ \A i \in 1..Len(wire') : wire'[i] = wire[i + 1] /\ i + 1 \in 1..Len(wire)
  BY <1>1
<1>3. Len(wire') <= MaxWire
  BY <1>1, <1>2, BoundsAssumption DEF WireOK
<1>4. \A i \in 1..Len(wire') : Clear(wire[i].cmd)'
  BY <1>2 DEF WireOK, Clear
<1> QED
  BY <1>2, <1>3, <1>4 DEF WireOK

\* A new move is complete only if its target is nobody's address.
LEMMA MoveIsClear ==
    ASSUME BusOK, NEW old \in Address, NEW new \in Address,
           new \notin known, ~(heard /\ new = GatewayAddress)
    PROVE  Move(old, new) \in Command /\ Clear(Move(old, new))
<1>1. Move(old, new) \in Command
  BY BoundsAssumption DEF Move, Command
<1>2. ASSUME \A u \in Unit : addr[u] \in known, NEW u \in Unit
      PROVE  addr[u] # new /\ new # GatewayAddress
  BY <1>2 DEF BusOK, HeardWithList
<1>3. Clear(Move(old, new))
  BY <1>2 DEF Clear, Move
<1> QED
  BY <1>1, <1>3

\* A page is never complete.
LEMMA PageIsClear ==
    ASSUME NEW op \in {"page", "save", "quiet"}, NEW a \in Address, NEW more \in 0..MaxMore
    PROVE  Page(op, a, more) \in Command /\ Clear(Page(op, a, more))
BY DEF Page, Command, Clear

\* A call is made.
LEMMA CallsKeep ==
    ASSUME IInv, NEW t \in Task, Calls(t)
    PROVE  IInv'
<1> USE DEF IInv
<1>1. CASE \E old, new \in Address : SetAddress(t, old, new)
  <2>1. PICK old \in Address, new \in Address : SetAddress(t, old, new)
    BY <1>1
  <2>2. Move(old, new) \in Command /\ Clear(Move(old, new))
    BY <2>1, MoveIsClear DEF SetAddress
  <2>3. CallsOK' /\ WireOK'
    BY <2>1, <2>2, AwaitKnownKeeps DEF SetAddress, busVars, stateVars
  <2> QED BY <2>1, <2>3 DEF SetAddress, busVars, stateVars, BusOK, HeardWithList
<1>2. ASSUME NEW a \in Address, NEW more \in 0..MaxMore, NEW op \in {"page", "save"},
             Write(t, a, op, more)
      PROVE  IInv'
  <2>1. CallsOK' /\ WireOK'
    BY <1>2, PageIsClear, AwaitKnownKeeps DEF Write, busVars, stateVars
  <2> QED BY <1>2, <2>1 DEF Write, busVars, stateVars, BusOK, HeardWithList
<1>3. ASSUME NEW a \in Address, Blank(t, a) \/ Quiet(t, a) PROVE IInv'
  <2>1. 0 \in 0..MaxMore
    BY BoundsAssumption
  <2>2. CallsOK' /\ WireOK'
    BY <1>3, <2>1, PageIsClear, SendKeeps DEF Blank, Quiet, busVars, stateVars
  <2> QED BY <1>3, <2>2 DEF Blank, Quiet, busVars, stateVars, BusOK, HeardWithList
<1>4. 0 \in 0..MaxMore
  BY BoundsAssumption
<1> QED
  BY <1>1, <1>2, <1>3, <1>4 DEF Calls

\* A call goes on, or gives up a wait.
LEMMA CallsGoOn ==
    ASSUME IInv, NEW t \in Task, Resume(t) \/ TimesOut(t)
    PROVE  IInv'
<1> USE DEF IInv
<1>0. UNCHANGED <<addr, known>> /\ BusOK'
  BY DEF Resume, TimesOut, busVars, stateVars, BusOK, HeardWithList
<1>1. pc[t] # "idle"
  BY DEF Resume, TimesOut, Waiting
<1>2. cmd[t] \in Command /\ Clear(cmd[t])
  BY <1>1 DEF CallsOK, CallsWait
<1>3. CASE Send(t, cmd[t])
  BY <1>0, <1>2, <1>3, SendKeeps
<1>4. CASE Ends(t) /\ UNCHANGED wire
  BY <1>0, <1>4, EndsKeeps, SameWire
<1>5. CASE NextPage(t)
  BY <1>0, <1>1, <1>5, NextPageKeeps
<1>6. CASE cmd[t].at \notin known /\ Waits(t, cmd[t], "returning") /\ UNCHANGED wire
  <2>1. NotYet(cmd[t], "returning")
    BY <1>6 DEF NotYet
  <2>2. CallsOK'
    BY <1>0, <1>2, <1>6, <2>1, WaitsKeeps DEF Waiting
  <2> QED BY <1>0, <1>6, <2>2, SameWire
<1> QED
  BY <1>3, <1>4, <1>5, <1>6 DEF Resume, TimesOut

\* What the list says, and whether there is a session, changes.
LEMMA StateKeeps ==
    ASSUME IInv, Heartbeat \/ Disconnect \/ Connect
    PROVE  IInv'
<1> USE DEF IInv
<1>1. CASE Heartbeat
  <2>1. /\ known' = OnTheBus /\ heard' = TRUE
        /\ UNCHANGED <<addr, up, wire, connected, pc, cmd>>
    BY <1>1 DEF Heartbeat, busVars
  <2>2. OnTheBus \subseteq Address
    BY DEF OnTheBus, BusOK
  <2>3. CallsOK'
    <3>1. CASE known' = known /\ heard
      <4>1. UNCHANGED woken
        BY <1>1, <3>1 DEF Heartbeat
      <4> QED BY <2>1, <3>1, <4>1, SameCalls
    <3>2. CASE ~(known' = known /\ heard)
      <4>1. Notify(known')
        BY <1>1, <3>2 DEF Heartbeat
      <4> QED BY <2>1, <4>1, NotifyKeeps
    <3> QED BY <3>1, <3>2
  <2> QED BY <2>1, <2>2, <2>3, SameWire DEF BusOK, HeardWithList
<1>2. CASE Disconnect
  <2>1. /\ Notify(known') /\ wire' = <<>> /\ connected' = FALSE
        /\ UNCHANGED <<addr, up, known, heard, pc, cmd>>
    BY <1>2 DEF Disconnect, busVars
  <2>2. WireOK'
    BY <2>1, BoundsAssumption DEF WireOK
  <2> QED BY <2>1, <2>2, NotifyKeeps DEF BusOK, HeardWithList
<1>3. CASE Connect
  <2>1. /\ Notify(known') /\ connected' = TRUE
        /\ UNCHANGED <<addr, up, wire, known, heard, pc, cmd>>
    BY <1>3 DEF Connect, busVars
  <2> QED BY <2>1, NotifyKeeps, SameWire DEF BusOK, HeardWithList
<1> QED
  BY <1>1, <1>2, <1>3

\* A command that lost its completeness is still one, about the same.
LEMMA OutdatedFacts ==
    ASSUME NEW c \in Command
    PROVE  /\ Outdated(c) \in Command /\ ~Outdated(c).complete
           /\ Outdated(c).at = c.at /\ Outdated(c).to = c.to
<1>1. c.op # NoCommand.op
  BY DEF Command, NoCommand
<1>2. Outdated(c) = [c EXCEPT !.complete = FALSE]
  BY <1>1 DEF Outdated
<1> QED
  BY <1>2 DEF Command

\* What a call is about may change, if it stays a command about the same.
LEMMA SameWaits ==
    ASSUME CallsOK, UNCHANGED <<known, pc, woken>>,
           cmd' \in [Task -> Command \cup {NoCommand}],
           \A t \in Task : IF pc[t] = "idle" THEN cmd'[t] = cmd[t]
                           ELSE /\ cmd'[t] \in Command /\ Clear(cmd[t])'
                                /\ cmd'[t].at = cmd[t].at /\ cmd'[t].to = cmd[t].to
    PROVE  CallsOK'
<1>1. CallsWait'
  BY DEF CallsOK, CallsWait
<1>2. WaiterIsNotDone'
  BY DEF CallsOK, WaiterIsNotDone, Satisfied
<1> QED
  BY <1>1, <1>2 DEF CallsOK

\* The bus takes a command.
LEMMA DeliverKeeps ==
    ASSUME IInv, DeliverMove \/ DeliverPage \/ DeliverQuiet
    PROVE  IInv'
<1> USE DEF IInv
<1>0. wire # <<>> /\ wire \in Seq([by : Task, cmd : Command]) /\ Head(wire) \in [by : Task, cmd : Command]
  <2>1. wire # <<>>
    BY DEF DeliverMove, DeliverPage, DeliverQuiet
  <2>2. wire \in Seq([by : Task, cmd : Command])
    BY DEF WireOK
  <2>3. Head(wire) = wire[1] /\ 1 \in 1..Len(wire)
    BY <2>1, <2>2
  <2> DEFINE M == [by : Task, cmd : Command]
  <2>4. \A i \in 1..Len(wire) : wire[i] \in M
    <3> HIDE DEF M
    <3>1. wire \in Seq(M)
      BY <2>2 DEF M
    <3> QED BY <3>1
  <2> QED BY <2>1, <2>2, <2>3, <2>4
<1>1. CASE DeliverMove /\ Reached(Head(wire).cmd) = {}
  <2>1. wire' = Tail(wire) /\ UNCHANGED <<addr, up, connected, known, heard, pc, cmd, woken>>
    BY <1>1 DEF DeliverMove, stateVars
  <2>2. WireOK' /\ CallsOK'
    BY <1>0, <2>1, TailKeeps, SameCalls
  <2> QED BY <2>1, <2>2 DEF BusOK, HeardWithList
<1>2. CASE DeliverMove /\ Reached(Head(wire).cmd) # {}
  <2> DEFINE c == Head(wire).cmd
             rest == Tail(wire)
  <2>1. /\ addr' = [u \in Unit |-> IF u \in Reached(c) THEN c.to ELSE addr[u]]
        /\ wire' = [i \in 1..Len(rest) |-> [rest[i] EXCEPT !.cmd = Outdated(@)]]
        /\ cmd' = [t \in Task |-> Outdated(cmd[t])]
        /\ UNCHANGED <<up, connected, known, heard, pc, woken>>
    BY <1>2 DEF DeliverMove, stateVars
  <2>2. c.to \in Address
    BY <1>0 DEF Command
  <2>3. BusOK'
    BY <2>1, <2>2 DEF BusOK, HeardWithList
  <2>4. rest \in Seq([by : Task, cmd : Command]) /\ Len(rest) \in Nat /\ Len(rest) = Len(wire) - 1
    BY <1>0
  <2>5. ASSUME NEW i \in 1..Len(rest)
        PROVE  /\ wire'[i] = [rest[i] EXCEPT !.cmd = Outdated(@)]
               /\ wire'[i] \in [by : Task, cmd : Command] /\ ~wire'[i].cmd.complete
    <3> DEFINE M == [by : Task, cmd : Command]
    <3>1. rest[i] \in M
      <4>1. rest \in Seq(M)
        BY <2>4
      <4> HIDE DEF rest, M
      <4> QED BY <4>1
    <3>2. Outdated(rest[i].cmd) \in Command /\ ~Outdated(rest[i].cmd).complete
      BY <3>1, OutdatedFacts
    <3>3. wire'[i] = [rest[i] EXCEPT !.cmd = Outdated(@)]
      <4> HIDE DEF rest, c
      <4> QED BY <2>1
    <3>4. wire'[i].cmd = Outdated(rest[i].cmd) /\ wire'[i] \in [by : Task, cmd : Command]
      <4> HIDE DEF rest, c
      <4> QED BY <3>1, <3>2, <3>3
    <3> QED BY <3>2, <3>3, <3>4
  <2>6. wire' \in Seq([by : Task, cmd : Command]) /\ Len(wire') = Len(rest)
    <3>1. wire' = [i \in 1..Len(rest) |-> wire'[i]]
      BY <2>1, <2>5
    <3> HIDE DEF rest
    <3> QED BY <2>4, <2>5, <3>1
  <2>7. Len(wire') <= MaxWire
    BY <1>0, <2>4, <2>6, BoundsAssumption DEF WireOK
  <2>8. WireOK'
    BY <2>5, <2>6, <2>7 DEF WireOK, Clear
  <2>9. CallsOK'
    <3>1. ASSUME NEW t \in Task
          PROVE  /\ cmd'[t] \in Command \cup {NoCommand}
                 /\ IF pc[t] = "idle" THEN cmd'[t] = cmd[t]
                    ELSE /\ cmd'[t] \in Command /\ Clear(cmd[t])'
                         /\ cmd'[t].at = cmd[t].at /\ cmd'[t].to = cmd[t].to
      <4>1. CASE pc[t] = "idle"
        <5>1. cmd[t] = NoCommand
          BY <4>1 DEF CallsOK, CallsWait
        <5> QED BY <2>1, <4>1, <5>1 DEF Outdated
      <4>2. CASE pc[t] # "idle"
        <5>1. cmd[t] \in Command
          BY <4>2 DEF CallsOK, CallsWait
        <5> QED BY <2>1, <4>2, <5>1, OutdatedFacts DEF Clear
      <4> QED BY <4>1, <4>2
    <3>2. cmd' \in [Task -> Command \cup {NoCommand}]
      BY <2>1, <3>1
    <3> QED BY <2>1, <3>1, <3>2, SameWaits
  <2> QED BY <2>3, <2>8, <2>9
<1>3. CASE DeliverPage
  <2>1. /\ wire' = Tail(wire) /\ up' \subseteq up
        /\ UNCHANGED <<addr, connected, known, heard, pc, woken>>
    BY <1>3 DEF DeliverPage, stateVars
  <2>2. CASE UNCHANGED cmd
    BY <1>0, <2>1, <2>2, TailKeeps, SameCalls DEF BusOK, HeardWithList
  <2>3. ASSUME NEW s \in Task, pc[s] \in {"dropping", "returning"},
               cmd' = [cmd EXCEPT ![s].landed = TRUE]
        PROVE  CallsOK'
    <3>1. cmd[s] \in Command /\ Clear(cmd[s])
      BY <2>3 DEF CallsOK, CallsWait
    <3>2. cmd'[s] = [cmd[s] EXCEPT !.landed = TRUE] /\ \A t \in Task \ {s} : cmd'[t] = cmd[t]
      BY <2>3 DEF CallsOK
    <3>3. cmd'[s] \in Command /\ cmd'[s].at = cmd[s].at /\ cmd'[s].to = cmd[s].to
                              /\ cmd'[s].complete = cmd[s].complete
      BY <3>1, <3>2 DEF Command
    <3>4. cmd' \in [Task -> Command \cup {NoCommand}]
      BY <2>3, <3>2, <3>3 DEF CallsOK
    <3>5. \A t \in Task : pc[t] # "idle" => cmd[t] \in Command /\ Clear(cmd[t])
      BY DEF CallsOK, CallsWait
    <3>6. \A t \in Task : IF pc[t] = "idle" THEN cmd'[t] = cmd[t]
                          ELSE /\ cmd'[t] \in Command /\ Clear(cmd[t])'
                               /\ cmd'[t].at = cmd[t].at /\ cmd'[t].to = cmd[t].to
      BY <2>1, <2>3, <3>2, <3>3, <3>5 DEF Clear
    <3> QED BY <2>1, <3>4, <3>6, SameWaits
  <2>4. UNCHANGED cmd \/ \E s \in Task : /\ pc[s] \in {"dropping", "returning"}
                                         /\ cmd' = [cmd EXCEPT ![s].landed = TRUE]
    BY <1>0, <1>3 DEF DeliverPage
  <2>5. CallsOK'
    BY <2>1, <2>2, <2>3, <2>4
  <2> QED BY <1>0, <2>1, <2>5, TailKeeps DEF BusOK, HeardWithList
<1>4. CASE DeliverQuiet
  BY <1>0, <1>4, TailKeeps, SameCalls DEF DeliverQuiet, busVars, stateVars, BusOK, HeardWithList
<1> QED
  BY <1>1, <1>2, <1>3, <1>4

LEMMA InitIInv == Init => IInv
<1> SUFFICES ASSUME Init PROVE IInv
  OBVIOUS
<1>1. BusOK
  BY UnitAssumption DEF Init, BusOK, HeardWithList
<1>2. WireOK
  BY BoundsAssumption DEF Init, WireOK
<1>3. CallsOK
  BY DEF Init, CallsOK, CallsWait, WaiterIsNotDone, Satisfied
<1> QED
  BY <1>1, <1>2, <1>3 DEF IInv

LEMMA NextKeeps == IInv /\ [Next]_vars => IInv'
<1> SUFFICES ASSUME IInv, [Next]_vars PROVE IInv'
  OBVIOUS
<1>1. CASE \E p \in Panel : PanelReturns(p)
  BY <1>1, SameCalls, SameWire DEF PanelReturns, stateVars, IInv, BusOK, HeardWithList
<1>2. CASE UNCHANGED vars
  BY <1>2, SameCalls, SameWire DEF vars, IInv, BusOK, HeardWithList
<1> QED
  BY <1>1, <1>2, CallsKeep, CallsGoOn, StateKeeps, DeliverKeeps DEF Next

-----------------------------------------------------------------------------
\* The invariant holds in every reachable state, for any components, panels,
\* addresses and calls.
THEOREM Inductive == Spec => []IInv
BY InitIInv, NextKeeps, PTL DEF Spec

\* Every variable keeps its type.
THEOREM TypeCorrect == Spec => []TypeOK
<1>1. IInv => TypeOK
  BY DEF IInv, BusOK, WireOK, CallsOK, TypeOK
<1> QED
  BY Inductive, <1>1, PTL

\* No wake-up is lost: whoever waits and was not woken waits for something
\* the current list does not show.
THEOREM NoWakeUpIsLost == Spec => []WaiterIsNotDone
<1>1. IInv => WaiterIsNotDone
  BY DEF IInv, CallsOK
<1> QED
  BY Inductive, <1>1, PTL

\* A move that puts a component in another's way, or in the gateway's, was
\* checked against a list that missed somebody, or somebody has moved since.
THEOREM CompleteCheckIsEnough == Spec => CompleteCheckIsSafe
<1>1. ASSUME IInv, [Next]_vars, ~(Clash' \subseteq Clash)
      PROVE  ~Head(wire).cmd.complete
  <2>1. CASE UNCHANGED addr
    BY <1>1, <2>1 DEF Clash
  <2>2. CASE DeliverMove /\ Head(wire).cmd.complete
    <3> DEFINE c == Head(wire).cmd
    <3>1. wire # <<>> /\ wire \in Seq([by : Task, cmd : Command]) /\ Head(wire) = wire[1] /\ 1 \in 1..Len(wire)
      BY <1>1, <2>2 DEF IInv, WireOK, DeliverMove
    <3>2. \A u \in Unit : addr[u] # c.to /\ c.to # GatewayAddress
      BY <1>1, <2>2, <3>1 DEF IInv, WireOK, Clear
    <3>3. \/ addr' = addr
          \/ addr' = [u \in Unit |-> IF u \in Reached(c) THEN c.to ELSE addr[u]]
      BY <2>2 DEF DeliverMove
    <3>4. ASSUME NEW u \in Unit, NEW v \in Unit, addr'[u] = addr'[v] PROVE addr[u] = addr[v]
      BY <3>2, <3>3, <3>4 DEF Reached
    <3>5. ASSUME NEW u \in Unit, addr'[u] = GatewayAddress PROVE addr[u] = GatewayAddress
      BY <3>2, <3>3, <3>5
    <3>6. Clash' \subseteq Clash
      BY <3>4, <3>5 DEF Clash
    <3> QED BY <1>1, <3>6
  <2>3. UNCHANGED addr \/ DeliverMove
    BY <1>1 DEF Next, Calls, SetAddress, Write, Blank, Quiet, Resume, TimesOut, Heartbeat,
                Disconnect, Connect, DeliverPage, DeliverQuiet, PanelReturns, busVars, vars
  <2> QED BY <2>1, <2>2, <2>3
<1>2. IInv /\ [Next]_vars => (~(Clash' \subseteq Clash) => ~Head(wire).cmd.complete)
  BY <1>1
<1> QED
  BY Inductive, <1>2, PTL DEF Spec, CompleteCheckIsSafe

-----------------------------------------------------------------------------
(* How many waits a call has left.                                         *)

\* Those of a call that waits as w, about c.
LeftOf(w, c) ==
    CASE w = "idle" -> 0
      [] w = "knowing" -> 3 * c.more + 3
      [] w = "dropping" -> 3 * c.more + 2
      [] w \in {"verifying", "returning"} -> 3 * c.more + 1

LEMMA WaitsLeave ==
    ASSUME CallsOK, NEW t \in Task, NEW c \in Command, NEW for \in Waiting, Waits(t, c, for)
    PROVE  Left(t)' = LeftOf(for, c)
<1>1. pc'[t] = for /\ cmd'[t] = c
  BY DEF Waits, CallsOK
<1> QED
  BY <1>1 DEF Left, LeftOf

LEMMA EndsLeave ==
    ASSUME CallsOK, NEW t \in Task, Ends(t)
    PROVE  Left(t)' = 0
<1>1. pc'[t] = "idle"
  BY DEF Ends, CallsOK
<1> QED
  BY <1>1 DEF Left

\* What is sent is waited for once, and then for the panel to return.
LEMMA SendLeaves ==
    ASSUME CallsOK, NEW t \in Task, NEW c \in Command, Send(t, c)
    PROVE  Left(t)' \in 0 .. 3 * c.more + 2
<1>1. c.more \in Nat
  BY BoundsAssumption DEF Command
<1>2. CASE Ends(t)
  BY <1>1, <1>2, EndsLeave
<1>3. CASE \E w \in {"verifying", "dropping", "returning"} : Waits(t, c, w)
  <2>1. PICK w \in {"verifying", "dropping", "returning"} : Waits(t, c, w)
    BY <1>3
  <2>2. Left(t)' = LeftOf(w, c)
    BY <2>1, WaitsLeave DEF Waiting
  <2> QED BY <1>1, <2>2 DEF LeftOf
<1> QED
  BY <1>2, <1>3 DEF Send, AfterSend

LEMMA AwaitKnownLeaves ==
    ASSUME CallsOK, NEW t \in Task, NEW c \in Command, AwaitKnown(t, c)
    PROVE  Left(t)' \in 0 .. 3 * c.more + 3
<1>1. c.more \in Nat
  BY BoundsAssumption DEF Command
<1>2. CASE Send(t, c)
  BY <1>1, <1>2, SendLeaves
<1>3. CASE Waits(t, c, "knowing")
  <2>1. Left(t)' = 3 * c.more + 3
    BY <1>3, WaitsLeave DEF Waiting, LeftOf
  <2> QED BY <1>1, <2>1
<1> QED
  BY <1>2, <1>3 DEF AwaitKnown

\* The next page is one less.
LEMMA NextPageLeaves ==
    ASSUME CallsOK, NEW t \in Task, pc[t] # "idle", NextPage(t)
    PROVE  Left(t)' \in 0 .. 3 * cmd[t].more
<1>1. cmd[t] \in Command /\ cmd[t].more \in 0..MaxMore
  BY DEF CallsOK, CallsWait, Command
<1>2. CASE cmd[t].more > 0
  <2> DEFINE c == [cmd[t] EXCEPT !.more = @ - 1, !.landed = FALSE]
  <2>1. cmd[t].more - 1 \in 0..MaxMore
    BY <1>1, <1>2, BoundsAssumption
  <2>2. c \in Command /\ c.more = cmd[t].more - 1
    BY <1>1, <2>1 DEF Command
  <2>3. AwaitKnown(t, c)
    BY <1>2 DEF NextPage
  <2>4. Left(t)' \in 0 .. 3 * c.more + 3
    BY <2>2, <2>3, AwaitKnownLeaves
  <2> HIDE DEF c
  <2>5. cmd[t].more \in Nat
    BY <1>1, BoundsAssumption
  <2> QED BY <2>2, <2>4, <2>5
<1>3. CASE ~(cmd[t].more > 0)
  BY <1>1, <1>3, BoundsAssumption, EndsLeave DEF NextPage
<1> QED
  BY <1>2, <1>3

\* A call that runs on has fewer.
LEMMA RunningShortens ==
    ASSUME CallsOK, NEW t \in Task, Resume(t) \/ TimesOut(t)
    PROVE  Left(t)' \in Nat /\ Left(t) \in Nat /\ Left(t)' < Left(t)
<1>1. pc[t] \in Waiting
  BY DEF Resume, TimesOut, Waiting
<1>2. cmd[t] \in Command /\ cmd[t].more \in Nat
  BY <1>1, BoundsAssumption DEF CallsOK, CallsWait, Command, Waiting
<1>3. CASE pc[t] = "knowing" /\ Send(t, cmd[t])
  <2>1. Left(t) = 3 * cmd[t].more + 3 /\ Left(t)' \in 0 .. 3 * cmd[t].more + 2
    BY <1>2, <1>3, SendLeaves DEF Left
  <2> QED BY <1>2, <2>1
<1>4. CASE Ends(t)
  <2>1. Left(t) \in {3 * cmd[t].more + 1, 3 * cmd[t].more + 2, 3 * cmd[t].more + 3}
    BY <1>1 DEF Left, Waiting
  <2>2. Left(t)' = 0
    BY <1>4, EndsLeave
  <2> QED BY <1>2, <2>1, <2>2
<1>5. CASE pc[t] \in {"dropping", "returning"} /\ NextPage(t)
  <2>1. Left(t) \in {3 * cmd[t].more + 1, 3 * cmd[t].more + 2}
    BY <1>5 DEF Left
  <2>2. Left(t)' \in 0 .. 3 * cmd[t].more
    BY <1>5, NextPageLeaves
  <2> QED BY <1>2, <2>1, <2>2
<1>6. CASE pc[t] = "dropping" /\ Waits(t, cmd[t], "returning")
  <2>1. Left(t) = 3 * cmd[t].more + 2
    BY <1>6 DEF Left
  <2>2. Left(t)' = 3 * cmd[t].more + 1
    BY <1>2, <1>6, WaitsLeave DEF Waiting, LeftOf
  <2> QED BY <1>2, <2>1, <2>2
<1> QED
  BY <1>3, <1>4, <1>5, <1>6 DEF Resume, TimesOut

\* A call's step is its own.
Steps(t) == \E c, w : pc' = [pc EXCEPT ![t] = w] /\ cmd' = [cmd EXCEPT ![t] = c]

LEMMA StepsAreOwn ==
    ASSUME NEW t \in Task, Calls(t) \/ Resume(t) \/ TimesOut(t)
    PROVE  Steps(t)
<1>1. Ends(t) => Steps(t)
  BY DEF Ends, Steps
<1>2. \A c, w : Waits(t, c, w) => Steps(t)
  BY DEF Waits, Steps
<1>3. \A c : Send(t, c) => Steps(t)
  BY <1>1, <1>2 DEF Send, AfterSend
<1>4. \A c : AwaitKnown(t, c) => Steps(t)
  BY <1>2, <1>3 DEF AwaitKnown
<1>5. NextPage(t) => Steps(t)
  BY <1>1, <1>4 DEF NextPage
<1>6. CASE Calls(t)
  BY <1>3, <1>4, <1>6 DEF Calls, SetAddress, Write, Blank, Quiet
<1>7. CASE Resume(t) \/ TimesOut(t)
  BY <1>1, <1>2, <1>3, <1>5, <1>7 DEF Resume, TimesOut
<1> QED
  BY <1>6, <1>7

\* Whatever else happens, a call waits for what it waited for, and has as
\* many pages to go.
LEMMA OthersLeave ==
    ASSUME IInv, [Next]_vars, NEW t \in Task, pc[t] # "idle", ~(Resume(t) \/ TimesOut(t))
    PROVE  Left(t)' = Left(t)
<1>1. cmd[t] \in Command
  BY DEF IInv, CallsOK, CallsWait
<1>2. pc'[t] = pc[t] /\ cmd'[t].more = cmd[t].more
  <2> USE DEF IInv, CallsOK
  <2>1. CASE \E s \in Task : Calls(s) \/ Resume(s) \/ TimesOut(s)
    <3>1. PICK s \in Task : Calls(s) \/ Resume(s) \/ TimesOut(s)
      BY <2>1
    <3>2. s # t
      BY <3>1 DEF Calls, SetAddress, Write, Blank, Quiet
    <3> QED BY <3>1, <3>2, StepsAreOwn DEF Steps
  <2>2. CASE DeliverMove
    <3>1. UNCHANGED pc /\ (UNCHANGED cmd \/ cmd'[t] = Outdated(cmd[t]))
      BY <2>2 DEF DeliverMove
    <3>2. Outdated(cmd[t]).more = cmd[t].more
      BY <1>1 DEF Outdated, Command
    <3> QED BY <3>1, <3>2
  <2>3. CASE DeliverPage
    BY <1>1, <2>3 DEF DeliverPage, Command
  <2>4. CASE UNCHANGED <<pc, cmd>>
    BY <2>4
  <2> QED
    BY <2>1, <2>2, <2>3, <2>4
    DEF Next, Heartbeat, Disconnect, Connect, DeliverQuiet, PanelReturns, vars
<1> QED
  BY <1>2 DEF Left

\* No call goes round in circles, however many there are and whatever happens
\* between its steps: the part of CallEnds that is not about fairness.
THEOREM CallsShorten == Spec => CallsGetOn
<1>1. ASSUME IInv, [Next]_vars, NEW t \in Task
      PROVE  /\ pc[t] # "idle" => Left(t)' <= Left(t)
             /\ Resume(t) \/ TimesOut(t) => Left(t)' < Left(t)
  <2>1. Resume(t) \/ TimesOut(t) =>
            Left(t)' \in Nat /\ Left(t) \in Nat /\ Left(t)' < Left(t)
    BY <1>1, RunningShortens DEF IInv
  <2>2. pc[t] # "idle" => Left(t) \in Nat
    BY <1>1, BoundsAssumption DEF IInv, CallsOK, CallsWait, Command, Waiting, Left
  <2>3. CASE Resume(t) \/ TimesOut(t)
    BY <2>1, <2>3
  <2>4. CASE ~(Resume(t) \/ TimesOut(t))
    BY <1>1, <2>2, <2>4, OthersLeave
  <2> QED BY <2>1, <2>3, <2>4
<1>2. IInv /\ [Next]_vars =>
        \A t \in Task : /\ pc[t] # "idle" => Left(t)' <= Left(t)
                        /\ Resume(t) \/ TimesOut(t) => Left(t)' < Left(t)
  BY <1>1
<1> QED
  BY Inductive, <1>2, PTL DEF Spec, CallsGetOn
=============================================================================
