--------------------------- MODULE PageWritesProofs ---------------------------
(***************************************************************************)
(* BelievedIsHeld of PageWrites, for any pages, flows, services and        *)
(* faults.  The argument: a record is right about a page, or the page is   *)
(* excused, for whichever record will be read next; the send lock lets one *)
(* write at a time be on its way, and what has arrived stays until its     *)
(* send returns.                                                           *)
(***************************************************************************)
EXTENDS PageWrites, TLAPS

\* What these records say of a page its panel holds, or the page is excused.
Right(records) ==
    \A p \in Page :
        records[p].signature \notin {NoConfig, panel[p]} => p \in doubt \cup raced \cup Landed

RecordTypes ==
    /\ loaded \in BOOLEAN
    /\ panel \in [Page -> Maybe]
    /\ written \in [Page -> Written]
    /\ replaced \in [Page -> Written]
    /\ file \in [Page -> Written]

FlowTypes ==
    flow \in [Flow -> {Idle} \cup
                [at : {"writing", "sent"}, page : Page, config : Config,
                 new : BOOLEAN, into : {"loaded", "replaced"}, arrived : BOOLEAN]]

\* Which record a flow holds, and that one write at a time is on its way.
FlowsOrdered ==
    /\ \A f \in Flow : flow[f] # Idle /\ flow[f].into = "loaded" => loaded
    /\ \A f, g \in Sending : f = g
    /\ loaded => HoldsReplaced \cap Sending = {}
    /\ \A f \in Sending : flow[f].arrived => panel[flow[f].page] = flow[f].config

\* The record that is read next is right: the loaded one's own, or what a
\* setup will read, for which the replaced one answers.
NextRight ==
    /\ loaded => Right(written)
    /\ ~loaded => written = Nothing /\ Right(replaced)

IInv == RecordTypes /\ FlowTypes /\ FlowsOrdered /\ NextRight
-----------------------------------------------------------------------------
\* Only a flow that is sending has at = "sent".
LEMMA SendingFlows ==
    ASSUME FlowTypes, NEW f \in Sending
    PROVE  /\ f \in Flow /\ flow[f] # Idle /\ flow[f].at = "sent"
           /\ flow[f].page \in Page /\ flow[f].config \in Config
           /\ flow[f].into \in {"loaded", "replaced"} /\ flow[f].arrived \in BOOLEAN
  BY DEF FlowTypes, Sending, Idle

\* A page is excused as landed exactly for the one send that reached it.
LEMMA LandedBySend ==
    ASSUME FlowTypes, FlowsOrdered, NEW f \in Sending
    PROVE  Landed = IF flow[f].arrived THEN {flow[f].page} ELSE {}
  BY SendingFlows DEF FlowsOrdered, Landed

LEMMA LandedBySome ==
    ASSUME Sending = {} PROVE Landed = {}
  BY DEF Landed

LEMMA NothingIsTyped == Nothing \in [Page -> Written]
  BY WritesAssumption DEF Nothing, NoRecord, Written, Maybe

\* Time changes no signature.
LEMMA OlderSignatures ==
    ASSUME NEW records \in [Page -> Written]
    PROVE  /\ AllOlder(records) \in [Page -> Written]
           /\ \A p \in Page : AllOlder(records)[p].signature = records[p].signature
  <1>1. ASSUME NEW p \in Page
        PROVE  AllOlder(records)[p] \in Written
               /\ AllOlder(records)[p].signature = records[p].signature
    BY WritesAssumption DEF AllOlder, Older, Written, NoRecord, Maybe
  <1>. QED BY <1>1 DEF AllOlder
-----------------------------------------------------------------------------
LEMMA InitInvariant == Init => IInv
  BY WritesAssumption DEF Init, IInv, RecordTypes, FlowTypes, FlowsOrdered, NextRight, Right, Sending,
         HoldsReplaced, Idle, Nothing, NoRecord, Written, Maybe

\* A step of a flow that is not sending: nothing is on its way or lands.
LEMMA NobodyElse ==
    ASSUME IInv, NEW f \in Flow, flow[f].at # "sent" \/ flow[f] = Idle,
           NEW s, s \in {Idle} \cup
                [at : {"writing"}, page : Page, config : Config, new : BOOLEAN,
                 into : {"loaded", "replaced"}, arrived : BOOLEAN],
           s # Idle => loaded /\ s.into = "loaded",
           flow' = [flow EXCEPT ![f] = s],
           UNCHANGED <<panel, storeVars, doubt>>
    PROVE  IInv'
  <1>1. FlowTypes' /\ RecordTypes'
    BY DEF IInv, FlowTypes, RecordTypes, storeVars, Idle
  <1>2. Sending' = Sending /\ \A g \in Sending : flow'[g] = flow[g]
    BY DEF IInv, FlowTypes, Sending, Idle
  <1>3. Landed' = Landed
    BY <1>2 DEF Landed
  <1>4. FlowsOrdered'
    BY <1>1, <1>2 DEF IInv, FlowsOrdered, FlowTypes, HoldsReplaced, storeVars, Idle
  <1>5. NextRight'
    BY <1>3 DEF IInv, NextRight, Right, storeVars, Nothing
  <1>. QED BY <1>1, <1>4, <1>5 DEF IInv

\* Steps that change neither the records, the flows nor the panel's pages.
LEMMA RecordsAlone ==
    ASSUME IInv, UNCHANGED <<panel, loaded, written, replaced, flow, doubt, raced>>,
           file' \in [Page -> Written]
    PROVE  IInv'
  BY DEF IInv, RecordTypes, FlowTypes, FlowsOrdered, NextRight, Right, Sending,
         HoldsReplaced, Landed, Nothing

LEMMA StepInvariant == IInv /\ [Next]_vars => IInv'
  <1>. SUFFICES ASSUME IInv, [Next]_vars PROVE IInv'
    OBVIOUS
  <1>0. RecordTypes /\ FlowTypes /\ FlowsOrdered /\ NextRight
    BY DEF IInv
  <1>1. CASE Flush
    <2>1. file' \in [Page -> Written]
      BY <1>0, <1>1 DEF Flush, RecordTypes
    <2>. QED BY <1>1, <2>1, RecordsAlone DEF Flush
  <1>2. CASE Tick
    <2>1. RecordTypes'
      BY <1>0, <1>2, OlderSignatures DEF Tick, RecordTypes
    <2>2. FlowTypes' /\ FlowsOrdered' /\ Landed' = Landed
      BY <1>0, <1>2 DEF Tick, FlowTypes, FlowsOrdered, Sending, HoldsReplaced, Landed
    <2>3. ASSUME NEW records \in {written, replaced}, Right(records)
          PROVE  \A p \in Page : AllOlder(records)[p].signature \notin {NoConfig, panel[p]}
                                   => p \in doubt \cup raced \cup Landed
      BY <2>3, <1>0, OlderSignatures DEF RecordTypes, Right
    <2>4. ~loaded => AllOlder(written) = Nothing
      BY <1>0 DEF NextRight, AllOlder, Nothing, NoRecord
    <2>5. NextRight'
      BY <1>0, <1>2, <2>2, <2>3, <2>4 DEF Tick, NextRight, Right, Nothing
    <2>. QED BY <2>1, <2>2, <2>5 DEF IInv
  <1>3. CASE Unload
    <2>1. RecordTypes'
      BY <1>0, <1>3, NothingIsTyped DEF Unload, RecordTypes
    <2>2. FlowTypes'
      BY <1>0, <1>3 DEF Unload, FlowTypes, Idle
    <2>3. Sending' = Sending /\ \A f \in Sending : flow'[f].page = flow[f].page
              /\ flow'[f].config = flow[f].config /\ flow'[f].arrived = flow[f].arrived
      BY <1>0, <1>3 DEF Unload, FlowTypes, Sending, Idle
    <2>4. Landed' = Landed
      BY <2>3 DEF Landed
    <2>5. FlowsOrdered'
      BY <1>0, <1>3, <2>3 DEF Unload, FlowsOrdered, FlowTypes, Idle
    <2>6. NextRight'
      BY <1>0, <1>3, <2>4 DEF Unload, NextRight, Right, Nothing
    <2>. QED BY <2>1, <2>2, <2>5, <2>6 DEF IInv
  <1>4. CASE Load
    <2>1. RecordTypes' /\ FlowTypes'
      BY <1>0, <1>4 DEF Load, RecordTypes, FlowTypes
    <2>2. FlowsOrdered' /\ Landed' = Landed
      BY <1>0, <1>4 DEF Load, FlowsOrdered, Sending, HoldsReplaced, Landed
    <2>3. NextRight'
      BY <1>0, <1>4, <2>2 DEF Load, NextRight, Right, Unsaved, RecordTypes
    <2>. QED BY <2>1, <2>2, <2>3 DEF IInv
  <1>5. CASE Crash
    <2>1. RecordTypes' /\ FlowTypes'
      BY <1>0, <1>5, NothingIsTyped DEF Crash, RecordTypes, FlowTypes
    <2>2. Sending' = {} /\ HoldsReplaced' = {}
      BY <1>0, <1>5 DEF Crash, Sending, HoldsReplaced, Idle
    <2>3. FlowsOrdered'
      BY <1>5, <2>2 DEF Crash, FlowsOrdered, Idle
    <2>4. NextRight'
      <3>. DEFINE last == IF loaded THEN written ELSE replaced
      <3>1. Right(last)
        BY <1>0 DEF NextRight
      <3>2. \A p \in Page : file[p].signature # last[p].signature => p \in raced'
        BY <1>5 DEF Crash, Unsaved
      <3>. QED BY <1>5, <3>1, <3>2 DEF Crash, NextRight, Right, Nothing
    <2>. QED BY <2>1, <2>3, <2>4 DEF IInv
  <1>6. CASE PanelReturns
    BY <1>0, <1>6, RecordsAlone DEF PanelReturns, storeVars, RecordTypes
  <1>7. ASSUME NEW f \in Flow, NEW p \in Page, NEW c \in Config,
               SaveOnly(f, p, c) \/ SaveSkipped(f, p, c)
        PROVE  IInv'
    BY <1>0, <1>7, RecordsAlone DEF SaveOnly, SaveSkipped, storeVars, RecordTypes
  <1>8. ASSUME NEW f \in Flow, NEW p \in Page, NEW c \in Config, SaveStarts(f, p, c)
        PROVE  IInv'
    <2>. DEFINE s == [at |-> "writing", page |-> p, config |-> c,
                      new |-> settings[p] = NoConfig, into |-> "loaded", arrived |-> FALSE]
    <2>1. s \in [at : {"writing"}, page : Page, config : Config, new : BOOLEAN,
                 into : {"loaded", "replaced"}, arrived : BOOLEAN] /\ s.into = "loaded"
      OBVIOUS
    <2>2. flow' = [flow EXCEPT ![f] = s] /\ loaded /\ flow[f] = Idle
          /\ UNCHANGED <<panel, storeVars, doubt>>
      BY <1>8 DEF SaveStarts
    <2>. HIDE DEF s
    <2>. QED BY <2>1, <2>2, NobodyElse
  <1>9. ASSUME NEW f \in Flow, SaveFails(f)
        PROVE  IInv'
    <2>1. flow' = [flow EXCEPT ![f] = Idle] /\ flow[f].at # "sent"
          /\ UNCHANGED <<panel, storeVars, doubt>>
      BY <1>9 DEF SaveFails
    <2>. QED BY <2>1, NobodyElse
  <1>10. ASSUME NEW f \in Flow, WriteGoesOut(f)
         PROVE  IInv'
    <2>1. PICK arrived \in BOOLEAN :
             /\ Arrives(flow[f].page, flow[f].config, arrived)
             /\ flow' = [flow EXCEPT ![f].at = "sent", ![f].arrived = arrived]
      BY <1>10 DEF WriteGoesOut
    <2>2. flow[f] # Idle /\ flow[f].page \in Page /\ flow[f].config \in Config
          /\ flow[f].into = "loaded" /\ loaded /\ Sending = {}
      BY <1>0, <1>10 DEF WriteGoesOut, FlowTypes, FlowsOrdered, Idle
    <2>3. RecordTypes'
      BY <1>0, <1>10, <2>1, <2>2 DEF WriteGoesOut, Arrives, RecordTypes, storeVars, Maybe
    <2>4. FlowTypes'
      BY <1>0, <2>1, <2>2, ZenonT(40) DEF FlowTypes, Idle
    <2>5. Sending' = {f} /\ flow'[f].arrived = arrived /\ flow'[f].page = flow[f].page
          /\ flow'[f].config = flow[f].config /\ flow'[f].into = "loaded"
      BY <1>0, <2>1, <2>2 DEF FlowTypes, Sending, Idle
    <2>6. Landed' = IF arrived THEN {flow[f].page} ELSE {}
      BY <2>5 DEF Landed
    <2>7. panel' = IF arrived THEN [panel EXCEPT ![flow[f].page] = flow[f].config] ELSE panel
      BY <2>1 DEF Arrives
    <2>8. FlowsOrdered'
      <3>1. \A g \in Flow : flow'[g] # Idle /\ flow'[g].into = "loaded" => loaded'
        BY <1>10, <2>2 DEF WriteGoesOut, storeVars
      <3>2. HoldsReplaced' \cap Sending' = {}
        BY <2>5 DEF HoldsReplaced
      <3>3. arrived => panel'[flow'[f].page] = flow'[f].config
        BY <1>0, <2>2, <2>5, <2>7 DEF RecordTypes
      <3>. QED BY <2>5, <3>1, <3>2, <3>3 DEF FlowsOrdered
    <2>9. NextRight'
      BY <1>0, <1>10, <2>2, <2>6, <2>7, LandedBySome
         DEF WriteGoesOut, NextRight, Right, RecordTypes, storeVars
    <2>. QED BY <2>3, <2>4, <2>8, <2>9 DEF IInv
  <1>11. ASSUME NEW f \in Flow, WriteReturns(f) \/ WriteFailed(f)
         PROVE  IInv'
    <2>. DEFINE p == flow[f].page
                c == flow[f].config
    <2>1. f \in Sending
      BY <1>11 DEF WriteReturns, WriteFailed, Sending
    <2>2. p \in Page /\ c \in Config /\ flow[f].into \in {"loaded", "replaced"}
          /\ flow[f].arrived \in BOOLEAN /\ flow[f] # Idle
      BY <1>0, <2>1, SendingFlows
    <2>3. flow' = [flow EXCEPT ![f] = Idle] /\ UNCHANGED <<panel, loaded, file>>
      BY <1>11 DEF WriteReturns, WriteFailed, storeVars
    <2>4. FlowTypes' /\ Sending' = {}
      BY <1>0, <2>1, <2>3 DEF FlowTypes, FlowsOrdered, Sending, Idle
    <2>5. FlowsOrdered'
      BY <1>0, <2>3, <2>4 DEF FlowsOrdered, FlowTypes, Idle
    <2>6. Landed' = {} /\ Landed = IF flow[f].arrived THEN {p} ELSE {}
      BY <1>0, <2>1, <2>4, LandedBySend DEF Landed
    <2>7. flow[f].arrived => panel[p] = c
      BY <1>0, <2>1 DEF FlowsOrdered
    <2>8. flow[f].into = "loaded" <=> loaded
      BY <1>0, <2>1, <2>2 DEF FlowsOrdered, HoldsReplaced
    <2>9. CASE WriteReturns(f)
      <3>1. /\ doubt' = IF flow[f].arrived THEN doubt \ {p} ELSE doubt \cup {p}
            /\ raced' = raced \ {p}
        BY <2>9 DEF WriteReturns, Record
      <3>2. IF loaded
            THEN written' = [written EXCEPT ![p] = Recorded(c)] /\ replaced' = replaced
            ELSE replaced' = [replaced EXCEPT ![p] = Recorded(c)] /\ written' = written
        BY <2>8, <2>9 DEF WriteReturns, Record
      <3>3. Recorded(c) \in Written /\ Recorded(c).signature = c
        BY <2>2, WritesAssumption DEF Recorded, Written, Maybe
      <3>4. RecordTypes'
        BY <1>0, <2>3, <3>2, <3>3 DEF RecordTypes
      <3>5. NextRight'
        <4>. HIDE DEF p, c
        <4>1. ASSUME loaded PROVE Right(written)'
          <5>. SUFFICES ASSUME NEW q \in Page, written'[q].signature \notin {NoConfig, panel[q]}
                        PROVE  q \in doubt' \cup raced' \cup Landed'
            BY <2>3 DEF Right
          <5>1. CASE q = p
            BY <1>0, <2>2, <2>7, <3>1, <3>2, <3>3, <4>1, <5>1 DEF RecordTypes
          <5>2. CASE q # p
            BY <1>0, <2>2, <2>6, <3>1, <3>2, <4>1, <5>2 DEF NextRight, Right, RecordTypes
          <5>. QED BY <5>1, <5>2
        <4>2. ASSUME ~loaded PROVE Right(replaced)' /\ written' = Nothing
          <5>. SUFFICES ASSUME NEW q \in Page, replaced'[q].signature \notin {NoConfig, panel[q]}
                        PROVE  q \in doubt' \cup raced' \cup Landed'
            BY <1>0, <2>3, <3>2, <4>2 DEF Right, NextRight
          <5>1. CASE q = p
            BY <1>0, <2>2, <2>7, <3>1, <3>2, <3>3, <4>2, <5>1 DEF RecordTypes
          <5>2. CASE q # p
            BY <1>0, <2>2, <2>6, <3>1, <3>2, <4>2, <5>2 DEF NextRight, Right, RecordTypes
          <5>. QED BY <5>1, <5>2
        <4>. QED BY <2>3, <4>1, <4>2 DEF NextRight, Nothing
      <3>. QED BY <2>4, <2>5, <3>4, <3>5 DEF IInv
    <2>10. CASE WriteFailed(f)
      <3>1. RecordTypes'
        BY <1>0, <2>10 DEF WriteFailed, RecordTypes, storeVars
      <3>2. doubt' \cup raced' \cup Landed' = doubt \cup raced \cup Landed
        BY <2>6, <2>10 DEF WriteFailed, storeVars
      <3>3. NextRight'
        BY <1>0, <2>10, <3>2 DEF WriteFailed, NextRight, Right, storeVars, Nothing
      <3>. QED BY <2>4, <2>5, <3>1, <3>3 DEF IInv
    <2>. QED BY <1>11, <2>9, <2>10
  <1>12. ASSUME NEW p \in Page, Delete(p)
         PROVE  IInv'
    <2>1. RecordTypes'
      BY <1>0, <1>12, WritesAssumption
         DEF Delete, RecordTypes, NoRecord, Written, Maybe
    <2>2. FlowTypes' /\ FlowsOrdered' /\ Landed' = Landed
      BY <1>0, <1>12 DEF Delete, FlowTypes, FlowsOrdered, Sending, HoldsReplaced, Landed
    <2>3. NextRight'
      BY <1>0, <1>12, <2>2 DEF Delete, NextRight, Right, RecordTypes, NoRecord, Nothing
    <2>. QED BY <2>1, <2>2, <2>3 DEF IInv
  <1>13. ASSUME NEW p \in Page, NEW c \in Services, ServiceWrites(p, c)
         PROVE  IInv'
    <2>1. PICK arrived \in BOOLEAN :
             Arrives(p, c, arrived) /\ doubt' = IF arrived THEN doubt \cup {p} ELSE doubt
      BY <1>13 DEF ServiceWrites
    <2>2. panel' = IF arrived THEN [panel EXCEPT ![p] = c] ELSE panel
      BY <2>1 DEF Arrives
    <2>3. RecordTypes' /\ FlowTypes'
      BY <1>0, <1>13, <2>2, WritesAssumption
         DEF ServiceWrites, RecordTypes, FlowTypes, storeVars, Maybe
    <2>4. Sending = {} /\ Sending' = {} /\ Landed' = Landed
      BY <1>13 DEF ServiceWrites, Sending, Landed
    <2>5. FlowsOrdered'
      BY <1>0, <1>13, <2>4 DEF ServiceWrites, FlowsOrdered, storeVars
    <2>6. NextRight'
      BY <1>0, <1>13, <2>1, <2>2, <2>4
         DEF ServiceWrites, NextRight, Right, RecordTypes, storeVars, Nothing
    <2>. QED BY <2>3, <2>5, <2>6 DEF IInv
  <1>14. CASE Swap
    <2>1. panel' \in [Page -> Maybe]
          /\ \A p \in Page : panel'[p] # panel[p] => p \in doubt'
      BY <1>14 DEF Swap
    <2>2. doubt \cup Landed \subseteq doubt' /\ UNCHANGED storeVars
      BY <1>14 DEF Swap
    <2>3. flow' = [f \in Flow |-> IF f \in Sending THEN [flow[f] EXCEPT !.arrived = FALSE]
                                  ELSE flow[f]]
      BY <1>14 DEF Swap
    <2>4. RecordTypes'
      BY <1>0, <2>1, <2>2 DEF RecordTypes, storeVars
    <2>5. FlowTypes'
      BY <1>0, <2>3, ZenonT(40) DEF FlowTypes, Sending, Idle
    <2>6. Sending' = Sending /\ \A f \in Sending : ~flow'[f].arrived
      BY <1>0, <2>3, SendingFlows DEF FlowTypes, Sending, Idle
    <2>7. \A f \in Flow : /\ flow'[f] # Idle <=> flow[f] # Idle
                          /\ flow[f] # Idle => flow'[f].into = flow[f].into
      BY <1>0, <2>3 DEF FlowTypes, Sending, Idle
    <2>8. FlowsOrdered'
      BY <1>0, <2>2, <2>6, <2>7 DEF FlowsOrdered, HoldsReplaced, storeVars
    <2>9. NextRight'
      BY <1>0, <2>1, <2>2 DEF NextRight, Right, storeVars, Nothing
    <2>. QED BY <2>4, <2>5, <2>8, <2>9 DEF IInv
  <1>15. CASE UNCHANGED vars
    BY <1>0, <1>15, RecordsAlone DEF vars, RecordTypes
  <1>. QED
    BY <1>1, <1>2, <1>3, <1>4, <1>5, <1>6, <1>7, <1>8, <1>9, <1>10, <1>11, <1>12, <1>13,
       <1>14, <1>15 DEF Next
-----------------------------------------------------------------------------
(* Types of what the invariant does not need.                              *)

OtherTypes ==
    /\ settings \in [Page -> Maybe] /\ away \in BOOLEAN
    /\ pending \in {<<>>, <<"loaded">>, <<"replaced">>,
                    <<"loaded", "replaced">>, <<"replaced", "loaded">>}
    /\ doubt \subseteq Page /\ raced \subseteq Page

LEMMA SaveLaterTypes ==
    ASSUME NEW record \in {"loaded", "replaced"}, SaveLater(record)
    PROVE  pending' \in {<<>>, <<"loaded">>, <<"replaced">>,
                         <<"loaded", "replaced">>, <<"replaced", "loaded">>}
  BY DEF SaveLater

LEMMA LandedOnPages ==
    ASSUME FlowTypes PROVE Landed \subseteq Page
  BY SendingFlows DEF Landed

LEMMA OtherTypesStep == IInv /\ OtherTypes /\ [Next]_vars => OtherTypes'
  <1>. SUFFICES ASSUME IInv, OtherTypes, [Next]_vars PROVE OtherTypes'
    OBVIOUS
  <1>. USE DEF OtherTypes
  <1>0. RecordTypes /\ FlowTypes
    BY DEF IInv
  <1>1. CASE Flush
    <2>1. pending' \in {<<>>, <<"loaded">>, <<"replaced">>}
      <3>1. pending' = Tail(pending) /\ pending # <<>>
        BY <1>1 DEF Flush
      <3>2. Tail(<<"loaded">>) = <<>> /\ Tail(<<"replaced">>) = <<>>
        OBVIOUS
      <3>3. Tail(<<"loaded", "replaced">>) = <<"replaced">>
        OBVIOUS
      <3>4. Tail(<<"replaced", "loaded">>) = <<"loaded">>
        OBVIOUS
      <3>. QED BY <3>1, <3>2, <3>3, <3>4, Zenon
    <2>. QED BY <1>1, <2>1 DEF Flush
  <1>2. CASE Tick \/ PanelReturns \/ UNCHANGED vars
    BY <1>2 DEF Tick, PanelReturns, storeVars, vars
  <1>3. CASE Unload \/ Load
    BY <1>3 DEF Unload, Load, Unsaved
  <1>4. CASE Crash
    BY <1>0, <1>4, LandedOnPages DEF Crash, Unsaved
  <1>5. ASSUME NEW f \in Flow, NEW p \in Page, NEW c \in Config,
               SaveOnly(f, p, c) \/ SaveSkipped(f, p, c) \/ SaveStarts(f, p, c)
        PROVE  OtherTypes'
    BY <1>5 DEF SaveOnly, SaveSkipped, SaveStarts, storeVars, Maybe
  <1>6. ASSUME NEW f \in Flow, SaveFails(f) \/ WriteGoesOut(f) PROVE OtherTypes'
    BY <1>6 DEF SaveFails, WriteGoesOut, Arrives, storeVars
  <1>7. ASSUME NEW f \in Flow, WriteReturns(f) PROVE OtherTypes'
    <2>1. f \in Sending
      BY <1>7 DEF WriteReturns, Sending
    <2>2. flow[f].page \in Page /\ flow[f].config \in Config
            /\ flow[f].into \in {"loaded", "replaced"}
      BY <1>0, <2>1, SendingFlows
    <2>3. SaveLater(flow[f].into) /\ raced' = raced \ {flow[f].page}
      BY <1>7 DEF WriteReturns, Record
    <2>4. settings' \in [Page -> Maybe]
      BY <1>7, <2>2 DEF WriteReturns, Stored, Maybe
    <2>. QED BY <1>7, <2>2, <2>3, <2>4, SaveLaterTypes DEF WriteReturns
  <1>8. ASSUME NEW f \in Flow, WriteFailed(f) PROVE OtherTypes'
    <2>1. f \in Sending
      BY <1>8 DEF WriteFailed, Sending
    <2>. QED BY <1>0, <1>8, <2>1, SendingFlows DEF WriteFailed, storeVars
  <1>9. ASSUME NEW p \in Page, Delete(p) PROVE OtherTypes'
    <2>1. pending' = pending \/ SaveLater("loaded")
      BY <1>9 DEF Delete
    <2>. QED BY <1>9, <2>1, SaveLaterTypes DEF Delete, Maybe
  <1>10. ASSUME NEW p \in Page, NEW c \in Services, ServiceWrites(p, c) PROVE OtherTypes'
    BY <1>10 DEF ServiceWrites, Arrives, storeVars
  <1>11. CASE Swap
    BY <1>0, <1>11, LandedOnPages DEF Swap, storeVars
  <1>. QED
    BY <1>1, <1>2, <1>3, <1>4, <1>5, <1>6, <1>7, <1>8, <1>9, <1>10, <1>11 DEF Next
-----------------------------------------------------------------------------
\* The inductive invariant holds in every reachable state.
THEOREM Inductive == Spec => []IInv
  <1>1. Init => IInv
    BY InitInvariant
  <1>2. IInv /\ [Next]_vars => IInv'
    BY StepInvariant
  <1>. QED BY <1>1, <1>2, PTL DEF Spec

\* The panel, the entry and the records keep their types: in particular no
\* save is pending twice, whatever is reloaded while flows are open.
THEOREM TypeCorrect == Spec => []TypeOK
  <1>1. Init => OtherTypes
    BY DEF Init, OtherTypes, Maybe
  <1>2. IInv /\ OtherTypes => TypeOK
    BY DEF IInv, RecordTypes, FlowTypes, OtherTypes, TypeOK
  <1>. QED BY <1>1, <1>2, OtherTypesStep, Inductive, PTL DEF Spec

\* A record that is believed is right, but for the exceptions that
\* BelievedIsHeld names (records.py last_written,
\* config_flow.py _async_write_to_panel).
THEOREM BelievedIsRight == Spec => []BelievedIsHeld
  <1>1. IInv => BelievedIsHeld
    BY DEF IInv, NextRight, Right, BelievedIsHeld, LastWritten, Nothing, NoRecord
  <1>. QED BY <1>1, Inductive, PTL
=============================================================================
