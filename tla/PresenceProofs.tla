--------------------------- MODULE PresenceProofs ---------------------------
(***************************************************************************)
(* Proofs about Presence, for any panels, addresses and bounds.            *)
(*                                                                         *)
(* Whether a backlight that nothing happened to unnoticed is shown as it   *)
(* is depends on what is still on its way to it: the last command sent     *)
(* says what the switch shows, or is about to show (OnCourse).             *)
(* A panel leaves and returns as a whole, and so do its addresses on every *)
(* list (PanelsTogether): that is what makes a group of several addresses  *)
(* of one panel whole.                                                     *)
(***************************************************************************)
EXTENDS Presence, WellFoundedInduction, TLAPS

\* The addresses of a panel are all in S, or none is.
Whole(S) == \A a, b \in Address : PanelOf(a) = PanelOf(b) => (a \in S <=> b \in S)

PanelsTogether ==
    /\ Whole(known)
    /\ watch # NoWatch => Whole(watch.before) /\ Whole(watch.missing)

\* Whatever the watcher counts as missing has been off the bus.
MissingWereGone ==
    watch # NoWatch => Down \cup watch.missing \cup (watch.before \ known) \subseteq gone

DownIsDark == lit \cap Down = {}

\* The switches of a session that has not begun.
Fresh == ~connected /\ shown = {} /\ \A a \in Keypad : setting[a] = "idle"

Remembered ==
    /\ ~connected => wire = <<>>
    /\ known \cap Keypad \subseteq wasPresent
    /\ wasPresent = known \cap Keypad \/ Fresh

\* What the switch shows, or is about to show.
Aim(a) == setting[a] = "on" \/ (setting[a] = "idle" /\ a \in shown)

To(i, a) == wire[i] \in Led /\ wire[i].to = a

\* The last command on its way to a backlight, or the backlight if there is
\* none, is what the switch aims at.
OnCourse(a) ==
    /\ \A i \in DOMAIN wire :
          To(i, a) /\ (\A j \in DOMAIN wire : To(j, a) => j <= i) => (wire[i].on <=> Aim(a))
    /\ ~OnWire(a) => (a \in lit <=> Aim(a))

Noticed(a) ==
    /\ a \notin known => ~Busy(a) /\ Agrees(a)
    /\ a \in known /\ a \notin Down => OnCourse(a)

NoticedInTime == \A a \in Keypad \ drifted : Noticed(a)

IInv ==
    /\ TypeOK
    /\ PanelsTogether
    /\ MissingWereGone
    /\ DownIsDark
    /\ Remembered
    /\ NoticedInTime
-----------------------------------------------------------------------------
(* Data.                                                                   *)

\* Lowest returns the least of a set of addresses.
LEMMA LowestIsMember ==
  ASSUME NEW S \in SUBSET Address, S # {}
  PROVE  Lowest(S) \in S /\ \A b \in S : Lowest(S) <= b
<1> DEFINE R == OpToRel(<, Nat)
<1>1. S \subseteq Nat
  BY PresenceAssumption
<1>2. IsWellFoundedOn(R, Nat)
  BY NatLessThanWellFounded
<1> HIDE DEF R
<1>3. PICK x \in S : \A y \in S : ~(<<y, x>> \in R)
  BY <1>1, <1>2, WFMin
<1>4. \A y \in S : <<y, x>> \in R <=> y < x
  BY <1>1 DEF R, OpToRel
<1>5. ASSUME NEW y \in S PROVE x <= y
  <2>1. ~(y < x)
    BY <1>3, <1>4
  <2>2. x \in Nat /\ y \in Nat
    BY <1>1
  <2>3. QED
    BY <2>1, <2>2
<1>6. QED
  BY <1>5 DEF Lowest

\* A group is given the label of one of its addresses, or an address of it.
LEMMA PanelLabelIsAddress ==
  ASSUME label \in [Address -> Address \cup {NoLabel}],
         NEW S \in SUBSET Address, S # {}
  PROVE  PanelLabel(S) \in Address
<1> DEFINE labelled == {a \in S : label[a] # NoLabel}
<1>1. CASE labelled = {}
  BY <1>1, LowestIsMember DEF PanelLabel
<1>2. CASE labelled # {}
  <2>1. Lowest(labelled) \in labelled
    BY <1>2, LowestIsMember
  <2>2. QED
    BY <1>2, <2>1 DEF PanelLabel
<1>3. QED
  BY <1>1, <1>2

\* A group has been listed, missing, and listed again.
LEMMA GroupedHere ==
  ASSUME NEW w, NEW list
  PROVE  /\ Grouped(w, list) \subseteq w.before \cap w.missing \cap list
         /\ Grouped(w, list) # {} =>
               /\ Grouped(w, list) = w.before \cap w.missing \cap list
               /\ w.at \in Grouped(w, list)
BY DEF Grouped

LEMMA WireAppend ==
  ASSUME wire \in Seq(Led \cup Write), NEW c \in Led \cup Write,
         wire' = Append(wire, c)
  PROVE  /\ wire' \in Seq(Led \cup Write)
         /\ Len(wire) \in Nat
         /\ DOMAIN wire = 1 .. Len(wire) /\ DOMAIN wire' = 1 .. Len(wire) + 1
         /\ \A i \in 1 .. Len(wire) : wire'[i] = wire[i]
         /\ wire'[Len(wire) + 1] = c
OBVIOUS

LEMMA WireTail ==
  ASSUME wire \in Seq(Led \cup Write), wire # <<>>, wire' = Tail(wire)
  PROVE  /\ wire' \in Seq(Led \cup Write)
         /\ Len(wire) \in Nat \ {0}
         /\ DOMAIN wire = 1 .. Len(wire) /\ DOMAIN wire' = 1 .. Len(wire) - 1
         /\ \A i \in 1 .. Len(wire) - 1 : wire'[i] = wire[i + 1]
         /\ Head(wire) = wire[1] /\ wire[1] \in Led \cup Write
OBVIOUS

LEMMA WireEmpty ==
  <<>> \in Seq(Led \cup Write) /\ DOMAIN <<>> = {}
OBVIOUS

LEMMA WriteIsNotLed ==
  \A c : ~(c \in Write /\ c \in Led)
BY DEF Write, Led
-----------------------------------------------------------------------------
(* Types.                                                                  *)

LEMMA InitHolds == Init => IInv
<1> SUFFICES ASSUME Init PROVE IInv
  OBVIOUS
<1> USE PresenceAssumption DEF Init
<1>1. TypeOK
  <2>1. wire \in Seq(Led \cup Write) /\ events \in 0 .. MaxEvents
    BY WireEmpty
  <2>2. /\ setting \in [Keypad -> {"idle", "on", "off"}]
        /\ label \in [Address -> Address \cup {NoLabel}]
    OBVIOUS
  <2>3. QED
    BY <2>1, <2>2 DEF TypeOK
<1>2. PanelsTogether /\ MissingWereGone /\ DownIsDark
  BY DEF PanelsTogether, Whole, MissingWereGone, DownIsDark
<1>3. Remembered
  BY DEF Remembered, Fresh
<1>4. NoticedInTime
  BY WireEmpty DEF NoticedInTime, Noticed, Busy, OnWire, Agrees, OnCourse, Aim
<1>5. QED
  BY <1>1, <1>2, <1>3, <1>4 DEF IInv

LEMMA HappensType ==
  ASSUME events \in 0 .. MaxEvents, Happens
  PROVE  events' \in 0 .. MaxEvents
BY PresenceAssumption DEF Happens

LEMMA DriftsType ==
  ASSUME drifted \subseteq Keypad, NEW S \in SUBSET Keypad, Drifts(S)
  PROVE  drifted' \subseteq Keypad
BY DEF Drifts

\* What a list does to the watcher.
LEMMA WatchedType ==
  ASSUME watch \in Watching \cup {NoWatch}, NEW list, Watched(list)
  PROVE  /\ watch' \in Watching \cup {NoWatch}
         /\ watch = NoWatch => watch' = NoWatch
         /\ watch # NoWatch => /\ watch'.before = watch.before
                              /\ watch'.missing = watch.missing \cup (watch.before \ list)
                              /\ watch'.at = watch.at
                              /\ watch'.stage \in {"leaving", "left", "returning", "back"}
<1>1. CASE watch = NoWatch
  BY <1>1 DEF Watched
<1>2. CASE watch # NoWatch
  <2> DEFINE stage == IF watch.stage = "leaving" /\ watch.at \notin list THEN "left"
                      ELSE IF watch.stage = "returning" /\ watch.at \in list THEN "back"
                      ELSE watch.stage
             missing == watch.missing \cup (watch.before \ list)
  <2>1. watch \in Watching
    BY <1>2
  <2>2. stage \in {"leaving", "left", "returning", "back"} /\ missing \in SUBSET Address
    BY <2>1 DEF Watching
  <2>3. watch' = [watch EXCEPT !.missing = missing, !.stage = stage]
    BY <1>2, <2>1 DEF Watched, Watching
  <2> HIDE DEF stage, missing
  <2>4. QED
    BY <1>2, <2>1, <2>2, <2>3 DEF Watching, missing
<1>3. QED
  BY <1>1, <1>2

LEMMA ReloadsType ==
  ASSUME TypeOK, Reloads
  PROVE  /\ up' \subseteq Panel /\ lit' \subseteq Keypad
         /\ wire' \in Seq(Led \cup Write)
         /\ connected' \in BOOLEAN /\ known' \subseteq Address
         /\ shown' \subseteq Keypad /\ wasPresent' \subseteq Keypad
         /\ setting' \in [Keypad -> {"idle", "on", "off"}]
         /\ watch' = NoWatch /\ drifted' \subseteq Keypad /\ gone' = {}
BY DriftsType, WireEmpty, PresenceAssumption DEF TypeOK, Reloads

LEMMA TypeStep == TypeOK /\ [Next]_vars => TypeOK'
<1> SUFFICES ASSUME TypeOK, [Next]_vars PROVE TypeOK'
  OBVIOUS
<1> USE PresenceAssumption DEF TypeOK
<1>1. CASE UNCHANGED vars
  BY <1>1 DEF vars, ledVars, groupVars
<1>2. CASE Heartbeat
  <2>1. CASE UNCHANGED vars
    BY <2>1 DEF vars, ledVars, groupVars
  <2>2. CASE ~UNCHANGED vars
    <3>1. drifted' \subseteq Keypad
      BY <1>2, <2>2, DriftsType DEF Heartbeat
    <3>2. watch' \in Watching \cup {NoWatch}
      BY <1>2, <2>2, WatchedType DEF Heartbeat, Watching
    <3>3. QED
      BY <1>2, <2>2, <3>1, <3>2 DEF Heartbeat, HandleState, On, Watching
  <2>3. QED
    BY <2>1, <2>2
<1>3. CASE Connect \/ Disconnect
  <2>1. drifted' \subseteq Keypad
    BY <1>3, DriftsType DEF Connect, Disconnect
  <2>2. watch' \in Watching \cup {NoWatch}
    BY <1>3, WatchedType DEF Connect, Disconnect, Watching
  <2>3. CASE Connect
    BY <2>1, <2>2, <2>3 DEF Connect, HandleState, Watching
  <2>4. CASE Disconnect
    <3>1. events' \in 0 .. MaxEvents
      BY <2>4, HappensType DEF Disconnect
    <3>2. wire' \in Seq(Led \cup Write)
      BY <2>4, WireEmpty DEF Disconnect
    <3>3. QED
      BY <2>1, <2>2, <2>4, <3>1, <3>2 DEF Disconnect, HandleState, Watching
  <2>5. QED
    BY <1>3, <2>3, <2>4
<1>4. CASE Deliver
  <2>1. wire' \in Seq(Led \cup Write) /\ Head(wire) \in Led \cup Write
    BY <1>4, WireTail DEF Deliver
  <2>2. drifted' \subseteq Keypad
    BY <1>4, DriftsType DEF Deliver, Unlisted, Led
  <2>3. QED
    BY <1>4, <2>1, <2>2 DEF Deliver, Away, On, Led
<1>5. CASE Reload
  BY <1>5, ReloadsType DEF Reload, Happens
<1>6. ASSUME NEW p \in Panel, PanelLeaves(p) \/ PanelReturns(p) PROVE TypeOK'
  <2>1. drifted' \subseteq Keypad
    BY <1>6, DriftsType DEF PanelLeaves, PanelReturns, Unlisted
  <2>2. CASE PanelLeaves(p)
    <3>1. events' \in 0 .. MaxEvents
      BY <2>2, HappensType DEF PanelLeaves
    <3>2. gone' \subseteq Address
      BY <2>2 DEF PanelLeaves, Away, On
    <3>3. QED
      BY <2>1, <2>2, <3>1, <3>2 DEF PanelLeaves
  <2>3. CASE PanelReturns(p)
    BY <2>1, <2>3 DEF PanelReturns, groupVars
  <2>4. QED
    BY <1>6, <2>2, <2>3
<1>7. ASSUME NEW a \in Keypad, NEW on \in BOOLEAN, SetLed(a, on) PROVE TypeOK'
  <2>1. drifted' \subseteq Keypad
    BY <1>7, DriftsType DEF SetLed
  <2>2. [to |-> a, on |-> on] \in Led
    BY DEF Led
  <2>3. wire' \in Seq(Led \cup Write)
    BY <1>7, <2>2, WireAppend DEF SetLed
  <2>4. setting' \in [Keypad -> {"idle", "on", "off"}]
    BY <1>7 DEF SetLed, Wanted
  <2>5. QED
    BY <1>7, <2>1, <2>3, <2>4 DEF SetLed, groupVars, Happens
<1>8. ASSUME NEW a \in Keypad, LedSent(a) \/ LedFailed(a) PROVE TypeOK'
  <2>1. drifted' \subseteq Keypad
    BY <1>8, DriftsType DEF LedSent, LedFailed
  <2>2. setting' \in [Keypad -> {"idle", "on", "off"}]
    BY <1>8 DEF LedSent, LedFailed
  <2>3. QED
    BY <1>8, <2>1, <2>2 DEF LedSent, LedFailed, groupVars
<1>9. ASSUME NEW a \in Address, NEW changed \in BOOLEAN, SaveBegins(a, changed) PROVE TypeOK'
  <2>1. [write |-> a] \in Write
    BY DEF Write
  <2>2. wire' \in Seq(Led \cup Write)
    BY <1>9, <2>1, WireAppend DEF SaveBegins
  <2>3. QED
    BY <1>9, <2>2 DEF SaveBegins, ledVars, Happens
<1>10. CASE SaveUnchanged
  <2>1. watch' \in Watching
    BY <1>10 DEF SaveUnchanged, NoSave, Watching
  <2>2. QED
    BY <1>10, <2>1 DEF SaveUnchanged, NoSave, ledVars, Down
<1>11. CASE SaveChanged
  BY <1>11, ReloadsType DEF SaveChanged, NoSave
<1>12. CASE SaveFails
  BY <1>12 DEF SaveFails, ledVars
<1>13. CASE Resume
  <2>1. watch' \in Watching
    BY <1>13 DEF Resume, Watching
  <2>2. QED
    BY <1>13, <2>1 DEF Resume, ledVars
<1>14. CASE WatchEnds
  BY <1>14 DEF WatchEnds, ledVars
<1>15. CASE Group
  <2> DEFINE group == Grouped(watch, known)
             bare == {a \in group : label[a] = NoLabel}
  <2>1. CASE Cardinality(group) < 2 \/ bare = {}
    BY <1>15, <2>1 DEF Group, ledVars
  <2>2. CASE ~(Cardinality(group) < 2 \/ bare = {})
    <3>1. label' = [a \in Address |-> IF a \in bare THEN PanelLabel(group) ELSE label[a]]
      BY <1>15, <2>2 DEF Group
    <3>2. group \in SUBSET Address /\ group # {}
      BY <2>2, GroupedHere
    <3>3. label' \in [Address -> Address \cup {NoLabel}]
      BY <3>1, <3>2, PanelLabelIsAddress
    <3>4. Reloads /\ UNCHANGED <<save, events>>
      BY <1>15, <2>2 DEF Group
    <3>5. QED
      BY <3>3, <3>4, ReloadsType
  <2>3. QED
    BY <2>1, <2>2
<1>16. QED
  BY <1>1, <1>2, <1>3, <1>4, <1>5, <1>6, <1>7, <1>8, <1>9, <1>10, <1>11, <1>12, <1>13,
     <1>14, <1>15 DEF Next
-----------------------------------------------------------------------------
(* Panels, and what the watcher has seen of them.                          *)

\* The steps that touch neither the list, nor the watcher, nor the panels.
Aside ==
    \/ \E a \in Keypad : \/ \E on \in BOOLEAN : SetLed(a, on)
                         \/ LedSent(a) \/ LedFailed(a)
    \/ \E a \in Address, changed \in BOOLEAN : SaveBegins(a, changed)
    \/ SaveFails
    \/ UNCHANGED vars

\* Everything else, for the proofs that need no more than this of those.
LEMMA StepCases ==
  [Next]_vars => \/ Aside
                 \/ Heartbeat /\ ~UNCHANGED vars
                 \/ Connect \/ Disconnect \/ Deliver
                 \/ \E p \in Panel : PanelLeaves(p) \/ PanelReturns(p)
                 \/ Reloads /\ UNCHANGED <<up, lit>>
                 \/ SaveUnchanged \/ Resume
                 \/ /\ watch' = NoWatch /\ gone' = {}
                    /\ UNCHANGED <<up, wire, connected, known, ledVars>>
<1> SUFFICES ASSUME [Next]_vars, ~Aside, ~(Heartbeat /\ ~UNCHANGED vars),
                    ~(Connect \/ Disconnect \/ Deliver \/ SaveUnchanged \/ Resume),
                    ~\E p \in Panel : PanelLeaves(p) \/ PanelReturns(p)
             PROVE  \/ Reloads /\ UNCHANGED <<up, lit>>
                    \/ /\ watch' = NoWatch /\ gone' = {}
                       /\ UNCHANGED <<up, wire, connected, known, ledVars>>
  OBVIOUS
<1>1. Reload \/ SaveChanged \/ WatchEnds \/ Group
  BY DEF Next, Aside
<1>2. CASE Reload \/ SaveChanged
  BY <1>2 DEF Reload, SaveChanged, Reloads
<1>3. CASE WatchEnds
  BY <1>3 DEF WatchEnds
<1>4. CASE Group
  BY <1>4 DEF Group, Reloads
<1>5. QED
  BY <1>1, <1>2, <1>3, <1>4

LEMMA AsideLeavesAlone ==
  Aside => UNCHANGED <<up, connected, known, lit, wasPresent, watch, gone>>
BY DEF Aside, SetLed, LedSent, LedFailed, SaveBegins, SaveFails, groupVars, ledVars, vars

LEMMA PanelsStep == TypeOK /\ PanelsTogether /\ [Next]_vars => PanelsTogether'
<1> SUFFICES ASSUME TypeOK, PanelsTogether, [Next]_vars PROVE PanelsTogether'
  OBVIOUS
<1> USE DEF PanelsTogether, Whole
<1>0. watch \in Watching \cup {NoWatch}
  BY DEF TypeOK, Watching
<1>1. CASE Aside
  BY <1>1, AsideLeavesAlone
<1>2. CASE Heartbeat /\ ~UNCHANGED vars
  <2>1. known' = On(up) /\ Watched(known')
    BY <1>2 DEF Heartbeat
  <2>2. Whole(known')
    BY <2>1 DEF On
  <2>3. QED
    BY <1>0, <2>1, <2>2, WatchedType
<1>3. CASE Connect \/ Disconnect
  BY <1>0, <1>3, WatchedType DEF Connect, Disconnect
<1>4. CASE Deliver
  BY <1>4 DEF Deliver
<1>5. ASSUME NEW p \in Panel, PanelLeaves(p) \/ PanelReturns(p) PROVE PanelsTogether'
  BY <1>5 DEF PanelLeaves, PanelReturns, groupVars
<1>6. CASE Reloads
  BY <1>6 DEF Reloads
<1>7. CASE SaveUnchanged
  <2>1. watch'.before = known /\ watch'.missing = {} /\ known' = known
    BY <1>7 DEF SaveUnchanged
  <2>2. QED
    BY <2>1
<1>8. CASE Resume
  <2>1. watch'.before = watch.before /\ watch'.missing = watch.missing /\ known' = known
    BY <1>0, <1>8 DEF Resume, Watching
  <2>2. QED
    BY <1>8, <2>1 DEF Resume
<1>9. CASE watch' = NoWatch /\ known' = known
  BY <1>9
<1>10. QED
  BY <1>1, <1>2, <1>3, <1>4, <1>5, <1>6, <1>7, <1>8, <1>9, StepCases

LEMMA GoneStep == TypeOK /\ MissingWereGone /\ [Next]_vars => MissingWereGone'
<1> SUFFICES ASSUME TypeOK, MissingWereGone, [Next]_vars, watch' # NoWatch
             PROVE  Down' \cup watch'.missing \cup (watch'.before \ known') \subseteq gone'
  BY DEF MissingWereGone
<1>0. watch \in Watching \cup {NoWatch}
  BY DEF TypeOK, Watching
<1>1. CASE Aside
  BY <1>1, AsideLeavesAlone DEF MissingWereGone, Down, On
<1>2. CASE Heartbeat /\ ~UNCHANGED vars
  <2>1. /\ known' = On(up) /\ Watched(known')
        /\ up' = up /\ gone' = gone
    BY <1>2 DEF Heartbeat
  <2>2. /\ watch # NoWatch /\ watch'.before = watch.before
        /\ watch'.missing = watch.missing \cup (watch.before \ known')
    BY <1>0, <2>1, WatchedType
  <2>3. watch.before \subseteq Address
    BY <1>0, <2>2 DEF Watching
  <2>4. QED
    BY <2>1, <2>2, <2>3 DEF MissingWereGone, Down, On
<1>3. CASE Connect \/ Disconnect
  <2>1. /\ known' = known /\ Watched(known)
        /\ up' = up /\ gone' = gone
    BY <1>3 DEF Connect, Disconnect
  <2>2. /\ watch # NoWatch /\ watch'.before = watch.before
        /\ watch'.missing = watch.missing \cup (watch.before \ known)
    BY <1>0, <2>1, WatchedType
  <2>3. QED
    BY <2>1, <2>2 DEF MissingWereGone, Down, On
<1>4. CASE Deliver
  <2>1. watch' = watch /\ known' = known
    BY <1>4 DEF Deliver
  <2>2. CASE up' = up /\ gone' = gone
    BY <2>1, <2>2 DEF MissingWereGone, Down, On
  <2>3. CASE \E p : up' = up \ {p} /\ Away(On({p}))
    BY <2>1, <2>3 DEF MissingWereGone, Down, On, Away
  <2>4. QED
    BY <1>4, <2>2, <2>3 DEF Deliver
<1>5. ASSUME NEW p \in Panel, PanelLeaves(p)
      PROVE Down' \cup watch'.missing \cup (watch'.before \ known') \subseteq gone'
  BY <1>5 DEF PanelLeaves, MissingWereGone, Down, On, Away
<1>6. ASSUME NEW p \in Panel, PanelReturns(p)
      PROVE Down' \cup watch'.missing \cup (watch'.before \ known') \subseteq gone'
  BY <1>6 DEF PanelReturns, groupVars, MissingWereGone, Down, On
<1>7. CASE Reloads
  BY <1>7 DEF Reloads
<1>8. CASE SaveUnchanged
  <2>1. /\ watch'.before = known /\ watch'.missing = {} /\ known' = known
        /\ gone' = Down /\ up' = up
    BY <1>8 DEF SaveUnchanged
  <2>2. QED
    BY <2>1 DEF Down, On
<1>9. CASE Resume
  <2>1. watch'.before = watch.before /\ watch'.missing = watch.missing
    BY <1>0, <1>9 DEF Resume, Watching
  <2>2. QED
    BY <1>9, <2>1 DEF Resume, MissingWereGone, Down, On
<1>10. QED
  BY <1>1, <1>2, <1>3, <1>4, <1>5, <1>6, <1>7, <1>8, <1>9, StepCases

LEMMA DarkStep == TypeOK /\ DownIsDark /\ [Next]_vars => DownIsDark'
<1> SUFFICES ASSUME TypeOK, DownIsDark, [Next]_vars PROVE DownIsDark'
  OBVIOUS
<1> USE PresenceAssumption DEF DownIsDark, Down, On
<1>1. CASE Aside
  BY <1>1, AsideLeavesAlone
<1>2. CASE Deliver
  BY <1>2 DEF Deliver
<1>3. ASSUME NEW p \in Panel, PanelLeaves(p) \/ PanelReturns(p) PROVE DownIsDark'
  BY <1>3 DEF PanelLeaves, PanelReturns
<1>4. CASE UNCHANGED <<up, lit>>
  BY <1>4
<1>5. QED
  BY <1>1, <1>2, <1>3, <1>4, StepCases
     DEF Heartbeat, Connect, Disconnect, SaveUnchanged, Resume, ledVars

LEMMA RememberedStep == TypeOK /\ Remembered /\ [Next]_vars => Remembered'
<1> SUFFICES ASSUME TypeOK, Remembered, [Next]_vars PROVE Remembered'
  OBVIOUS
<1> USE DEF Remembered, Fresh
<1>1. ASSUME NEW a \in Keypad, NEW on \in BOOLEAN, SetLed(a, on) PROVE Remembered'
  BY <1>1 DEF SetLed
<1>2. ASSUME NEW a \in Keypad, LedSent(a) \/ LedFailed(a) PROVE Remembered'
  <2>1. ~Fresh
    BY <1>2 DEF LedSent, LedFailed
  <2>2. UNCHANGED <<wire, connected, known, wasPresent>>
    BY <1>2 DEF LedSent, LedFailed
  <2>3. QED
    BY <2>1, <2>2
<1>3. ASSUME NEW a \in Address, NEW changed \in BOOLEAN, SaveBegins(a, changed)
      PROVE  Remembered'
  BY <1>3 DEF SaveBegins, ledVars
<1>4. CASE UNCHANGED <<wire, connected, known, shown, setting, wasPresent>>
  BY <1>4
<1>5. CASE SaveFails \/ UNCHANGED vars \/ SaveUnchanged \/ Resume
  BY <1>4, <1>5 DEF SaveFails, SaveUnchanged, Resume, ledVars, vars
<1>6. CASE Aside
  BY <1>1, <1>2, <1>3, <1>5, <1>6 DEF Aside
<1>7. CASE Heartbeat /\ ~UNCHANGED vars
  BY <1>7 DEF Heartbeat, HandleState
<1>8. CASE Connect \/ Disconnect
  BY <1>8 DEF Connect, Disconnect, HandleState
<1>9. CASE Deliver
  <2>1. connected /\ UNCHANGED <<connected, known, shown, setting, wasPresent>>
    BY <1>9 DEF Deliver
  <2>2. QED
    BY <2>1
<1>10. ASSUME NEW p \in Panel, PanelLeaves(p) \/ PanelReturns(p) PROVE Remembered'
  BY <1>4, <1>10 DEF PanelLeaves, PanelReturns
<1>11. CASE Reloads
  BY <1>11 DEF Reloads
<1>12. CASE UNCHANGED <<up, wire, connected, known, ledVars>>
  BY <1>4, <1>12 DEF ledVars
<1>13. QED
  BY <1>5, <1>6, <1>7, <1>8, <1>9, <1>10, <1>11, <1>12, StepCases
-----------------------------------------------------------------------------
(* Backlights.                                                             *)

\* At rest and shown as it is, a backlight is on course.
LEMMA RestIsNoticed ==
  ASSUME NEW a \in Keypad, ~Busy(a), Agrees(a)
  PROVE  Noticed(a)
BY DEF Noticed, OnCourse, Busy, OnWire, Agrees, Aim, To

\* What drifted and no longer does is at rest and shown as it is.
LEMMA DriftEnds ==
  ASSUME NEW S, Drifts(S), NEW a \in Keypad, a \in drifted \cup S, a \notin drifted'
  PROVE  Noticed(a)'
<1>1. (~Busy(a) /\ Agrees(a))'
  BY DEF Drifts
<1>2. (~Busy(a) /\ Agrees(a) => Noticed(a))'
  BY DEF Noticed, OnCourse, Busy, OnWire, Agrees, Aim, To
<1>3. QED
  BY <1>1, <1>2

LEMMA NoticedStep == IInv /\ [Next]_vars => NoticedInTime'
<1> SUFFICES ASSUME IInv, [Next]_vars, NEW a \in Keypad, a \notin drifted'
             PROVE  Noticed(a)'
  BY DEF NoticedInTime
<1> DEFINE Same == /\ UNCHANGED <<wire, known, lit, shown, setting>>
                   /\ Down \subseteq Down'
<1>0. /\ wire \in Seq(Led \cup Write) /\ setting \in [Keypad -> {"idle", "on", "off"}]
      /\ known \subseteq Address /\ shown \subseteq Keypad /\ a \in Address
  BY PresenceAssumption DEF IInv, TypeOK
<1>1. a \notin drifted => Noticed(a)
  BY DEF IInv, NoticedInTime
<1>2. ASSUME Same, a \notin drifted PROVE Noticed(a)'
  BY <1>1, <1>2 DEF Noticed, OnCourse, Busy, OnWire, Agrees, Aim, To
<1>3. ASSUME Same, drifted' = drifted PROVE Noticed(a)'
  BY <1>2, <1>3
<1>4. CASE SaveFails \/ UNCHANGED vars \/ SaveUnchanged \/ Resume
  BY <1>3, <1>4 DEF SaveFails, SaveUnchanged, Resume, ledVars, groupVars, vars, Down, On
<1>5. CASE UNCHANGED <<up, wire, connected, known, ledVars>>
  BY <1>3, <1>5 DEF ledVars, Down, On
<1>6. CASE Heartbeat /\ ~UNCHANGED vars
  <2> DEFINE S == {x \in Keypad \cap known : x \notin known' /\ Busy(x)}
  <2>1. /\ known' = On(up) /\ HandleState(known') /\ Drifts(S)
        /\ UNCHANGED <<up, wire, lit, setting>>
    BY <1>6 DEF Heartbeat
  <2>2. CASE a \in drifted \cup S
    BY <2>1, <2>2, DriftEnds
  <2>3. CASE a \notin drifted \cup S /\ a \in On(up)
    <3>1. a \in known' /\ a \notin Down
      BY <2>1, <2>3 DEF Down
    <3>2. a \in shown' <=> a \in shown
      BY <2>1, <3>1 DEF HandleState
    <3>3. CASE a \in known
      BY <1>0, <1>1, <2>1, <2>3, <3>1, <3>2, <3>3
         DEF Noticed, OnCourse, OnWire, Aim, To
    <3>4. CASE a \notin known
      <4>1. ~Busy(a) /\ Agrees(a)
        BY <1>1, <2>3, <3>4 DEF Noticed
      <4>2. (~Busy(a) /\ Agrees(a))'
        BY <2>1, <3>2, <4>1 DEF Busy, OnWire, Agrees
      <4>3. QED
        BY <4>2 DEF Noticed, OnCourse, Busy, OnWire, Agrees, Aim, To
    <3>5. QED
      BY <3>3, <3>4
  <2>4. CASE a \notin drifted \cup S /\ a \notin On(up)
    <3>1. a \notin known' /\ a \notin lit
      BY <1>0, <2>1, <2>4 DEF IInv, DownIsDark, Down
    <3>2. ~Busy(a)
      BY <1>1, <2>4, <3>1 DEF Noticed
    <3>3. a \notin shown'
      <4>1. CASE a \in known
        BY <2>1, <3>1, <4>1 DEF HandleState, IInv, Remembered
      <4>2. CASE a \notin known
        BY <1>1, <2>1, <2>4, <3>1, <4>2 DEF HandleState, Noticed, Agrees
      <4>3. QED
        BY <4>1, <4>2
    <3>4. QED
      BY <2>1, <3>1, <3>2, <3>3 DEF Noticed, Busy, OnWire, Agrees
  <2>5. QED
    BY <2>2, <2>3, <2>4
<1>7. CASE Connect \/ Disconnect
  <2>1. HandleState(known) /\ known' = known /\ UNCHANGED <<up, lit, setting>>
    BY <1>7 DEF Connect, Disconnect
  <2>2. shown' = shown
    BY <1>0, <2>1 DEF HandleState, IInv, Remembered, Fresh
  <2>3. CASE Connect
    <3>1. Drifts({}) /\ wire' = wire
      BY <2>3 DEF Connect
    <3>2. CASE a \in drifted
      BY <3>1, <3>2, DriftEnds
    <3>3. CASE a \notin drifted
      BY <1>2, <2>1, <2>2, <3>1, <3>3 DEF Down, On
    <3>4. QED
      BY <3>2, <3>3
  <2>4. CASE Disconnect
    <3> DEFINE S == {x \in Keypad : OnWire(x)}
    <3>1. Drifts(S) /\ wire' = <<>>
      BY <2>4 DEF Disconnect
    <3>2. CASE a \in drifted \cup S
      BY <3>1, <3>2, DriftEnds
    <3>3. CASE a \notin drifted \cup S
      <4>1. ~OnWire(a) /\ ~OnWire(a)'
        BY <3>1, <3>3, WireEmpty DEF OnWire
      <4>2. DOMAIN wire' = {} /\ Down' = Down
        BY <2>1, <3>1, WireEmpty DEF Down, On
      <4>3. QED
        BY <1>1, <2>1, <2>2, <3>3, <4>1, <4>2 DEF Noticed, OnCourse, Busy, Agrees, Aim
    <3>4. QED
      BY <3>2, <3>3
  <2>5. QED
    BY <1>7, <2>3, <2>4
<1>8. CASE Deliver
  <2> DEFINE c == wire[1]
  <2>1. /\ wire' \in Seq(Led \cup Write) /\ Len(wire) \in Nat \ {0}
        /\ DOMAIN wire = 1 .. Len(wire) /\ DOMAIN wire' = 1 .. Len(wire) - 1
        /\ \A i \in 1 .. Len(wire) - 1 : wire'[i] = wire[i + 1]
        /\ Head(wire) = c /\ c \in Led \cup Write
    BY <1>0, <1>8, WireTail DEF Deliver
  <2>2. UNCHANGED <<known, shown, setting>>
    BY <1>8 DEF Deliver
  <2> HIDE DEF c
  <2>3. \A i \in DOMAIN wire' : i + 1 \in DOMAIN wire /\ (To(i, a)' <=> To(i + 1, a))
    BY <2>1 DEF To
  <2>4. \A j \in DOMAIN wire : j # 1 => j - 1 \in DOMAIN wire' /\ (To(j - 1, a)' <=> To(j, a))
    <3> SUFFICES ASSUME NEW j \in DOMAIN wire, j # 1
                 PROVE  j - 1 \in DOMAIN wire' /\ (To(j - 1, a)' <=> To(j, a))
      OBVIOUS
    <3>1. j - 1 \in DOMAIN wire' /\ (j - 1) + 1 = j
      BY <2>1
    <3>2. QED
      BY <2>3, <3>1
  <2>5. To(1, a) <=> c \in Led /\ c.to = a
    BY DEF To, c
  <2>6. OnWire(a)' => OnWire(a)
    BY <2>3 DEF OnWire, To
  <2>7. ~To(1, a) => (OnWire(a)' <=> OnWire(a))
    BY <2>4, <2>6 DEF OnWire, To
  <2>8. ASSUME OnCourse(a)
        PROVE  \A i \in DOMAIN wire' :
                  To(i, a)' /\ (\A j \in DOMAIN wire' : To(j, a)' => j <= i)
                     => (wire'[i].on <=> Aim(a))
    <3> SUFFICES ASSUME NEW i \in DOMAIN wire', To(i, a)',
                        \A j \in DOMAIN wire' : To(j, a)' => j <= i
                 PROVE  wire'[i].on <=> Aim(a)
      OBVIOUS
    <3>1. i \in 1 .. Len(wire) - 1 /\ wire'[i] = wire[i + 1]
      BY <2>1
    <3>2. i + 1 \in DOMAIN wire /\ To(i + 1, a)
      BY <2>3
    <3>3. ASSUME NEW j \in DOMAIN wire, To(j, a) PROVE j <= i + 1
      <4>1. j \in 1 .. Len(wire)
        BY <2>1
      <4>2. CASE j = 1
        BY <2>1, <3>1, <4>2
      <4>3. CASE j # 1
        <5>1. j - 1 <= i
          BY <2>4, <3>3, <4>3
        <5>2. QED
          BY <2>1, <3>1, <4>1, <5>1
      <4>4. QED
        BY <4>2, <4>3
    <3>4. QED
      BY <2>8, <3>1, <3>2, <3>3 DEF OnCourse
  <2>9. Aim(a)' <=> Aim(a)
    BY <2>2 DEF Aim
  <2>10. CASE c \in Led /\ PanelOf(c.to) \in up /\ c.to = a
    <3>1. /\ lit' = IF c.on THEN lit \cup {a} ELSE lit \ {a}
          /\ up' = up /\ Drifts({})
      BY <1>8, <2>1, <2>10, WriteIsNotLed DEF Deliver
    <3>2. CASE a \in drifted
      BY <3>1, <3>2, DriftEnds
    <3>3. CASE a \notin drifted
      <4>1. OnWire(a) /\ 1 \in DOMAIN wire
        BY <2>1, <2>5, <2>10 DEF OnWire, To
      <4>2. a \in known /\ a \notin Down /\ OnCourse(a)
        BY <1>0, <1>1, <2>10, <3>3, <4>1 DEF Noticed, Busy, Down, On
      <4>3. ASSUME ~OnWire(a)' PROVE a \in lit' <=> Aim(a)
        <5>1. \A j \in DOMAIN wire : To(j, a) => j <= 1
          BY <2>1, <2>4, <4>3 DEF OnWire, To
        <5>2. c.on <=> Aim(a)
          BY <2>5, <2>10, <4>1, <4>2, <5>1 DEF OnCourse, c
        <5>3. QED
          BY <3>1, <5>2
      <4>4. OnCourse(a)'
        BY <2>8, <2>9, <4>2, <4>3 DEF OnCourse
      <4>5. QED
        BY <2>2, <4>2, <4>4 DEF Noticed
    <3>4. QED
      BY <3>2, <3>3
  <2>11. CASE c \in Led /\ PanelOf(c.to) \in up /\ c.to # a
    <3>1. (a \in lit' <=> a \in lit) /\ up' = up /\ Drifts({})
      BY <1>8, <2>1, <2>11, WriteIsNotLed DEF Deliver
    <3>2. CASE a \in drifted
      BY <3>1, <3>2, DriftEnds
    <3>3. CASE a \notin drifted
      <4>1. OnWire(a)' <=> OnWire(a)
        BY <2>5, <2>7, <2>11
      <4>2. OnCourse(a) => OnCourse(a)'
        BY <2>8, <2>9, <3>1, <4>1 DEF OnCourse
      <4>3. QED
        BY <1>1, <2>2, <3>1, <3>3, <4>1, <4>2 DEF Noticed, Busy, Agrees, Down, On
    <3>4. QED
      BY <3>2, <3>3
  <2>12. CASE c \in Led /\ PanelOf(c.to) \notin up
    <3>1. lit' = lit /\ up' = up /\ Drifts({c.to})
      BY <1>8, <2>1, <2>12, WriteIsNotLed DEF Deliver
    <3>2. CASE a \in drifted \cup {c.to}
      BY <3>1, <3>2, DriftEnds
    <3>3. CASE a \notin drifted \cup {c.to}
      <4>1. OnWire(a)' <=> OnWire(a)
        BY <2>5, <2>7, <3>3
      <4>2. OnCourse(a) => OnCourse(a)'
        BY <2>8, <2>9, <3>1, <4>1 DEF OnCourse
      <4>3. QED
        BY <1>1, <2>2, <3>1, <3>3, <4>1, <4>2 DEF Noticed, Busy, Agrees, Down, On
    <3>4. QED
      BY <3>2, <3>3
  <2>13. CASE c \in Write
    <3> DEFINE p == PanelOf(c.write)
    <3>1. c \notin Led
      BY <2>13, WriteIsNotLed
    <3>2. /\ up' = up \ {p} /\ lit' = lit \ On({p})
          /\ Drifts(Unlisted(p))
      BY <1>8, <2>1, <2>13, <3>1 DEF Deliver
    <3>3. OnWire(a)' <=> OnWire(a)
      BY <2>5, <2>7, <3>1
    <3>4. CASE a \in drifted \cup Unlisted(p)
      BY <3>2, <3>4, DriftEnds
    <3>5. CASE a \notin drifted /\ PanelOf(a) = p /\ a \in known
      <4>1. a \in Down' /\ a \in known'
        BY <1>0, <2>2, <3>2, <3>5 DEF Down, On
      <4>2. QED
        BY <4>1 DEF Noticed
    <3>6. CASE a \notin drifted /\ PanelOf(a) # p
      <4>1. (a \in lit' <=> a \in lit) /\ (a \in Down' <=> a \in Down)
        BY <1>0, <3>2, <3>6 DEF Down, On
      <4>2. OnCourse(a) => OnCourse(a)'
        BY <2>8, <2>9, <3>3, <4>1 DEF OnCourse
      <4>3. QED
        BY <1>1, <2>2, <3>3, <3>6, <4>1, <4>2 DEF Noticed, Busy, Agrees
    <3>7. QED
      BY <1>0, <3>4, <3>5, <3>6 DEF Unlisted, On
  <2>14. QED
    BY <2>1, <2>10, <2>11, <2>12, <2>13
<1>9. ASSUME NEW p \in Panel, PanelLeaves(p) PROVE Noticed(a)'
  <2>1. /\ up' = up \ {p} /\ lit' = lit \ On({p}) /\ Drifts(Unlisted(p))
        /\ UNCHANGED <<wire, known, shown, setting>>
    BY <1>9 DEF PanelLeaves
  <2>2. CASE a \in drifted \cup Unlisted(p)
    BY <2>1, <2>2, DriftEnds
  <2>3. CASE a \notin drifted /\ PanelOf(a) = p /\ a \in known
    BY <1>0, <2>1, <2>3 DEF Noticed, Down, On
  <2>4. CASE a \notin drifted /\ PanelOf(a) # p
    <3>1. (a \in lit' <=> a \in lit) /\ (a \in Down' <=> a \in Down)
      BY <1>0, <2>1, <2>4 DEF Down, On
    <3>2. QED
      BY <1>1, <2>1, <2>4, <3>1 DEF Noticed, OnCourse, Busy, OnWire, Agrees, Aim, To
  <2>5. QED
    BY <1>0, <2>2, <2>3, <2>4 DEF Unlisted, On
<1>10. ASSUME NEW p \in Panel, PanelReturns(p) PROVE Noticed(a)'
  <2> DEFINE S == On({p}) \cap Keypad \cap known
  <2>1. /\ up' = up \cup {p} /\ Drifts(S)
        /\ UNCHANGED <<wire, known, lit, shown, setting>>
    BY <1>10 DEF PanelReturns
  <2>2. CASE a \in drifted \cup S
    BY <2>1, <2>2, DriftEnds
  <2>3. CASE a \notin drifted /\ a \notin known
    BY <1>1, <2>1, <2>3 DEF Noticed, Busy, OnWire, Agrees
  <2>4. CASE a \notin drifted /\ PanelOf(a) # p
    <3>1. a \in Down' <=> a \in Down
      BY <1>0, <2>1, <2>4 DEF Down, On
    <3>2. QED
      BY <1>1, <2>1, <2>4, <3>1 DEF Noticed, OnCourse, Busy, OnWire, Agrees, Aim, To
  <2>5. QED
    BY <1>0, <2>2, <2>3, <2>4 DEF On
<1>11. ASSUME NEW b \in Keypad, NEW on \in BOOLEAN, SetLed(b, on) PROVE Noticed(a)'
  <2> DEFINE c == [to |-> b, on |-> on]
  <2>1. c \in Led /\ c.to = b /\ c.on = on
    BY DEF Led
  <2>2. /\ wire' = Append(wire, c) /\ Drifts({b} \ known)
        /\ setting[b] = "idle" /\ setting' = [setting EXCEPT ![b] = Wanted(on)]
        /\ UNCHANGED <<up, known, lit, shown>>
    BY <1>11 DEF SetLed
  <2>3. PICK n \in Nat \ {0} :
           /\ DOMAIN wire = 1 .. n - 1 /\ DOMAIN wire' = 1 .. n
           /\ \A i \in 1 .. n - 1 : wire'[i] = wire[i]
           /\ wire'[n] = c
    <3>1. Len(wire) + 1 \in Nat \ {0} /\ (Len(wire) + 1) - 1 = Len(wire)
      BY <1>0
    <3>2. QED
      BY <1>0, <2>1, <2>2, <3>1, WireAppend
  <2> HIDE DEF c
  <2>4. CASE a \in drifted \cup ({b} \ known)
    BY <2>2, <2>4, DriftEnds
  <2>5. CASE a \notin drifted /\ a = b /\ a \in known
    <3>1. To(n, a)' /\ n \in DOMAIN wire' /\ \A j \in DOMAIN wire' : j <= n
      BY <2>1, <2>3, <2>5 DEF To
    <3>2. OnWire(a)'
      BY <3>1 DEF OnWire, To
    <3>3. Aim(a)' <=> on
      BY <1>0, <2>2, <2>5 DEF Aim, Wanted
    <3>4. ASSUME NEW i \in DOMAIN wire', \A j \in DOMAIN wire' : To(j, a)' => j <= i
          PROVE  wire'[i].on <=> Aim(a)'
      <4>1. i = n
        BY <2>3, <3>1, <3>4
      <4>2. QED
        BY <2>1, <2>3, <3>3, <4>1
    <3>5. OnCourse(a)'
      BY <3>2, <3>4 DEF OnCourse
    <3>6. QED
      BY <2>2, <2>5, <3>5 DEF Noticed
  <2>6. CASE a \notin drifted /\ a # b
    <3>1. /\ \A i \in DOMAIN wire : i \in DOMAIN wire' /\ wire'[i] = wire[i]
          /\ \A i \in DOMAIN wire' : To(i, a)' => i \in DOMAIN wire
      BY <2>1, <2>3, <2>6 DEF To
    <3>2. setting'[a] = setting[a] /\ (Aim(a)' <=> Aim(a)) /\ Down' = Down
      BY <1>0, <2>2, <2>6 DEF Aim, Down, On
    <3>3. /\ OnWire(a)' <=> OnWire(a)
          /\ \A i \in DOMAIN wire : To(i, a)' <=> To(i, a)
      BY <3>1 DEF OnWire, To
    <3>4. OnCourse(a) => OnCourse(a)'
      BY <2>2, <3>1, <3>2, <3>3 DEF OnCourse
    <3>5. QED
      BY <1>1, <2>2, <2>6, <3>2, <3>3, <3>4 DEF Noticed, Busy, Agrees
  <2>7. QED
    BY <2>4, <2>5, <2>6
<1>12. ASSUME NEW b \in Keypad, LedSent(b) PROVE Noticed(a)'
  <2>1. /\ Drifts({}) /\ setting[b] # "idle"
        /\ shown' = IF setting[b] = "on" THEN shown \cup {b} ELSE shown \ {b}
        /\ setting' = [setting EXCEPT ![b] = "idle"]
        /\ UNCHANGED <<up, wire, known, lit>>
    BY <1>12 DEF LedSent
  <2>2. CASE a \in drifted
    BY <2>1, <2>2, DriftEnds
  <2>3. CASE a \notin drifted
    <3>1. (Aim(a)' <=> Aim(a)) /\ Down' = Down
      BY <1>0, <2>1 DEF Aim, Down, On
    <3>2. (OnCourse(a) => OnCourse(a)') /\ (OnWire(a)' <=> OnWire(a))
      BY <2>1, <3>1 DEF OnCourse, OnWire, To
    <3>3. CASE a \notin known
      <4>1. a # b /\ ~Busy(a) /\ Agrees(a)
        BY <1>1, <2>1, <2>3, <3>3 DEF Noticed, Busy
      <4>2. QED
        BY <1>0, <2>1, <3>2, <3>3, <4>1 DEF Noticed, Busy, Agrees
    <3>4. CASE a \in known
      BY <1>1, <2>1, <2>3, <3>1, <3>2, <3>4 DEF Noticed
    <3>5. QED
      BY <3>3, <3>4
  <2>4. QED
    BY <2>2, <2>3
<1>13. ASSUME NEW b \in Keypad, LedFailed(b) PROVE Noticed(a)'
  <2>1. /\ Drifts({b}) /\ setting' = [setting EXCEPT ![b] = "idle"]
        /\ UNCHANGED <<up, wire, known, lit, shown>>
    BY <1>13 DEF LedFailed
  <2>2. CASE a \in drifted \cup {b}
    BY <2>1, <2>2, DriftEnds
  <2>3. CASE a \notin drifted /\ a # b
    <3>1. setting'[a] = setting[a] /\ Down' = Down
      BY <1>0, <2>1, <2>3 DEF Down, On
    <3>2. QED
      BY <1>1, <2>1, <2>3, <3>1 DEF Noticed, OnCourse, Busy, OnWire, Agrees, Aim, To
  <2>4. QED
    BY <2>2, <2>3
<1>14. ASSUME NEW b \in Address, NEW changed \in BOOLEAN, SaveBegins(b, changed)
       PROVE  Noticed(a)'
  <2> DEFINE c == [write |-> b]
  <2>1. c \in Write /\ c \notin Led
    BY WriteIsNotLed DEF Write
  <2>2. wire' = Append(wire, c) /\ UNCHANGED <<up, known, ledVars>>
    BY <1>14 DEF SaveBegins
  <2>3. /\ Len(wire) \in Nat
        /\ DOMAIN wire = 1 .. Len(wire) /\ DOMAIN wire' = 1 .. Len(wire) + 1
        /\ \A i \in 1 .. Len(wire) : wire'[i] = wire[i]
        /\ wire'[Len(wire) + 1] = c
    BY <1>0, <2>1, <2>2, WireAppend
  <2> HIDE DEF c
  <2>4. /\ \A i \in DOMAIN wire : i \in DOMAIN wire' /\ wire'[i] = wire[i]
        /\ \A i \in DOMAIN wire' : To(i, a)' => i \in DOMAIN wire
    BY <2>1, <2>3 DEF To
  <2>5. /\ OnWire(a)' <=> OnWire(a)
        /\ \A i \in DOMAIN wire : To(i, a)' <=> To(i, a)
    BY <2>4 DEF OnWire, To
  <2>6. UNCHANGED <<known, drifted, lit, shown, setting>> /\ Down' = Down
    BY <2>2 DEF ledVars, Down, On
  <2>7. OnCourse(a) => OnCourse(a)'
    BY <2>4, <2>5, <2>6 DEF OnCourse, Aim
  <2>8. QED
    BY <1>1, <2>5, <2>6, <2>7 DEF Noticed, Busy, Agrees
<1>15. CASE Reloads
  BY <1>15, DriftEnds DEF Reloads
<1>16. CASE Aside
  BY <1>4, <1>11, <1>12, <1>13, <1>14, <1>16 DEF Aside
<1>17. QED
  BY <1>4, <1>5, <1>6, <1>7, <1>8, <1>9, <1>10, <1>15, <1>16, StepCases
-----------------------------------------------------------------------------
\* The conjunction IInv is inductive.
THEOREM Inductive == Spec => []IInv
<1>1. IInv /\ [Next]_vars => IInv'
  BY TypeStep, PanelsStep, GoneStep, DarkStep, RememberedStep, NoticedStep DEF IInv
<1>2. QED
  BY <1>1, InitHolds, PTL DEF Spec

\* The panels, the list, the switches and the watcher keep their types: in
\* particular a panel's label is the number of an address.
THEOREM TypeCorrect == Spec => []TypeOK
  BY Inductive, PTL DEF IInv

\* A switch shows its backlight wrong only if something went unnoticed: a
\* panel that was back before its name left the list, a command that was lost
\* or failed, a call that was under way when the panel left.
THEOREM WrongOnlyUnnoticed == Spec => []BacklightWrongOnlyUnnoticed
<1>1. IInv => BacklightWrongOnlyUnnoticed
  BY PresenceAssumption
     DEF IInv, NoticedInTime, Noticed, BacklightWrongOnlyUnnoticed, Busy, OnCourse, OnWire,
         Agrees, Aim, Down, On
<1>2. QED
  BY <1>1, Inductive, PTL

\* Only addresses that left the bus are grouped, and with them every address
\* of the panel that was written to.
THEOREM GroupsArePanels == Spec => GroupedWereGone
<1> DEFINE A == label' # label =>
                  /\ \A a \in Address : label'[a] # label[a] => a \in gone
                  /\ \A a \in On({PanelOf(watch.at)}) \cap watch.before : label'[a] # NoLabel
<1>1. IInv /\ [Next]_vars => [A]_vars
  <2> SUFFICES ASSUME IInv, [Next]_vars, label' # label
               PROVE  /\ \A a \in Address : label'[a] # label[a] => a \in gone
                      /\ \A a \in On({PanelOf(watch.at)}) \cap watch.before : label'[a] # NoLabel
    OBVIOUS
  <2> DEFINE group == Grouped(watch, known)
             bare == {a \in group : label[a] = NoLabel}
  <2>1. Group
    BY DEF Next, Heartbeat, Connect, Disconnect, Deliver, Reload, PanelLeaves, PanelReturns,
           SetLed, LedSent, LedFailed, SaveBegins, SaveUnchanged, SaveChanged, SaveFails,
           Resume, WatchEnds, groupVars, vars
  <2>2. /\ watch # NoWatch /\ bare # {}
        /\ label' = [a \in Address |-> IF a \in bare THEN PanelLabel(group) ELSE label[a]]
    BY <2>1 DEF Group
  <2>3. group = watch.before \cap watch.missing \cap known /\ watch.at \in group
    BY <2>2, GroupedHere
  <2>4. /\ label \in [Address -> Address \cup {NoLabel}] /\ known \subseteq Address
    BY DEF IInv, TypeOK
  <2>5. PanelLabel(group) \in Address
    BY <2>2, <2>3, <2>4, PanelLabelIsAddress
  <2>6. ASSUME NEW a \in Address, label'[a] # label[a] PROVE a \in gone
    <3>1. a \in group
      BY <2>2, <2>6
    <3>2. QED
      BY <2>2, <2>3, <3>1 DEF IInv, MissingWereGone
  <2>7. ASSUME NEW a \in On({PanelOf(watch.at)}) \cap watch.before PROVE label'[a] # NoLabel
    <3>1. a \in Address /\ PanelOf(a) = PanelOf(watch.at) /\ watch.at \in Address
      BY <2>3, <2>4 DEF On
    <3>2. a \in group
      BY <2>2, <2>3, <2>7, <3>1 DEF IInv, PanelsTogether, Whole
    <3>3. QED
      BY <2>2, <2>5, <3>1, <3>2, PresenceAssumption
  <2>8. QED
    BY <2>6, <2>7
<1>2. QED
  BY <1>1, Inductive, PTL DEF Spec, GroupedWereGone
=============================================================================
