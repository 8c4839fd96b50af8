------------------------------ MODULE PageWrites ------------------------------
(***************************************************************************)
(* Saving a page's settings to its panel (config_flow.py), and the         *)
(* WriteRecord that spares the panel a write it has already been sent      *)
(* (records.py, payloads.py).                                              *)
(*                                                                         *)
(* A panel acknowledges nothing, and restarts on every write: what reaches *)
(* it meanwhile is lost.  A record is believed for TRUSTED_FOR.  It is     *)
(* saved SAVE_DELAY after its last change; a reload of the entry makes a   *)
(* new record from the file while the replaced one may still have a save   *)
(* pending, or a flow that will record into it.                            *)
(*                                                                         *)
(* The pages are those of one address, and a record is kept by address:    *)
(* nothing forgets it when the panel that answers there is moved away or   *)
(* exchanged.  A configuration stands for the signature of the payload it  *)
(* makes.  A clear does nothing on a panel (docs/BE3-protocol-findings.md),*)
(* so of the clear before a write only its failure is kept.                *)
(***************************************************************************)
EXTENDS Naturals, Sequences

CONSTANTS
    Page, Config,
    NoConfig,  \* no configuration: not listed, not recorded, another controller's
    Flow,      \* subentry flows that may be open at once
    Services,  \* configurations the services write
    Faults,    \* what may go wrong: a write "lost", a send "failed", a "crash",
               \* a "reload" while a flow is open, a "swap" of the panel
    Trust      \* TRUSTED_FOR, in steps of the clock

ASSUME WritesAssumption ==
    /\ NoConfig \notin Config
    /\ Services \subseteq Config
    /\ Trust \in Nat

VARIABLES
    panel,     \* the configuration each page of the panel holds
    away,      \* the panel is restarting
    settings,  \* the entry's own settings of each page
    loaded,    \* there is a runtime, and with it a record
    written,   \* WriteRecord._written of the loaded record
    replaced,  \* ... and of the one before it
    pending,   \* which of the two have a save pending, in the order it is due
    file,      \* what the store's file holds
    flow,      \* each flow: idle, or the save it is in
    doubt,     \* history: pages whose panel took, or lost, a write unrecorded,
               \* or is not the one that was written to
    raced      \* history: pages whose record the loaded one may have missed

vars == <<panel, away, settings, loaded, written, replaced, pending, file,
          flow, doubt, raced>>
storeVars == <<loaded, written, replaced, pending, file, raced>>

Maybe == Config \cup {NoConfig}
Written == [signature : Maybe, age : 0 .. Trust + 1]
NoRecord == [signature |-> NoConfig, age |-> 0]
Nothing == [p \in Page |-> NoRecord]
Idle == [at |-> "idle"]

TypeOK ==
    /\ panel \in [Page -> Maybe] /\ settings \in [Page -> Maybe]
    /\ away \in BOOLEAN /\ loaded \in BOOLEAN
    /\ written \in [Page -> Written]
    /\ replaced \in [Page -> Written]
    /\ file \in [Page -> Written]
    /\ pending \in {<<>>, <<"loaded">>, <<"replaced">>,
                    <<"loaded", "replaced">>, <<"replaced", "loaded">>}
    /\ flow \in [Flow -> {Idle} \cup
                    [at : {"writing", "sent"}, page : Page, config : Config,
                     new : BOOLEAN, into : {"loaded", "replaced"}, arrived : BOOLEAN]]
    /\ doubt \subseteq Page /\ raced \subseteq Page

Init ==
    /\ panel = [p \in Page |-> NoConfig]
    /\ settings = [p \in Page |-> NoConfig]
    /\ away = FALSE /\ loaded = TRUE
    /\ written = Nothing /\ replaced = Nothing /\ file = Nothing
    /\ pending = <<>>
    /\ flow = [f \in Flow |-> Idle]
    /\ doubt = {} /\ raced = {}

Sending == {f \in Flow : flow[f].at = "sent"}
Landed == {flow[f].page : f \in {g \in Sending : flow[g].arrived}}
Due == {pending[i] : i \in DOMAIN pending}
HoldsReplaced == {f \in Flow : flow[f] # Idle /\ flow[f].into = "replaced"}

-----------------------------------------------------------------------------
(* WriteRecord.                                                            *)

\* Mutant: a record is believed for ever.
LastWritten_Forever(p) == written[p].signature

\* What was written to this page recently enough to still believe.
LastWritten(p) == IF written[p].age > Trust THEN NoConfig ELSE written[p].signature

Recorded(c) == [signature |-> c, age |-> 0]

\* _save(): due SAVE_DELAY from now, after whatever was due before.
SaveLater(record) ==
    LET other == IF record = "loaded" THEN "replaced" ELSE "loaded"
    IN  pending' = IF other \in Due THEN <<other, record>> ELSE <<record>>

\* A delayed save fires.
Flush ==
    /\ pending # <<>>
    /\ pending' = Tail(pending)
    /\ file' = IF Head(pending) = "loaded" THEN written ELSE replaced
    /\ UNCHANGED <<panel, away, settings, loaded, written, replaced, flow, doubt, raced>>

\* Time passes.
Older(r) == IF r.age > Trust THEN r ELSE [r EXCEPT !.age = @ + 1]
AllOlder(records) ==
    [p \in Page |-> IF records[p].signature = NoConfig THEN NoRecord ELSE Older(records[p])]
Tick ==
    /\ written' = AllOlder(written)
    /\ replaced' = AllOlder(replaced)
    /\ file' = AllOlder(file)
    /\ UNCHANGED <<panel, away, settings, loaded, pending, flow, doubt, raced>>

\* The entry is unloaded: by the reload a save caused, or any other.  The
\* record goes out of use with its save, and the flows that hold it.  (Bound:
\* one replaced record that can still be saved.)
Unload ==
    /\ loaded
    /\ "replaced" \notin Due /\ HoldsReplaced = {}
    /\ "reload" \in Faults \/ \A f \in Flow : flow[f] = Idle
    /\ loaded' = FALSE
    /\ written' = Nothing
    /\ replaced' = written
    /\ pending' = IF pending = <<>> THEN <<>> ELSE <<"replaced">>
    /\ flow' = [f \in Flow |-> IF flow[f] = Idle THEN Idle
                               ELSE [flow[f] EXCEPT !.into = "replaced"]]
    /\ UNCHANGED <<panel, away, settings, file, doubt, raced>>

Unsaved(records) == {p \in Page : file[p].signature # records[p].signature}

\* The entry is set up again: async_load reads the file.  The sends of the
\* gateway that was stopped have returned.
Load ==
    /\ ~loaded /\ HoldsReplaced \cap Sending = {}
    /\ loaded' = TRUE
    /\ written' = file
    /\ raced' = raced \cup Unsaved(replaced)
    /\ UNCHANGED <<panel, away, settings, replaced, pending, file, flow, doubt>>

\* Home Assistant dies: what was not saved is lost, and the flows are.  (The
\* replaced record is the file's until the next one.)
Crash ==
    /\ "crash" \in Faults
    /\ loaded' = FALSE
    /\ raced' = raced \cup Unsaved(IF loaded THEN written ELSE replaced)
    /\ written' = Nothing /\ replaced' = file
    /\ pending' = <<>>
    /\ flow' = [f \in Flow |-> Idle]
    /\ doubt' = doubt \cup Landed
    /\ UNCHANGED <<panel, away, settings, file>>

-----------------------------------------------------------------------------
(* The subentry flow.                                                      *)

\* The entry takes the page's settings.  A page that was deleted, or listed,
\* while its flow was open ends the flow in an error.
Stored(p, c, new) ==
    IF new = (settings[p] = NoConfig)
    THEN settings' = [settings EXCEPT ![p] = c]
    ELSE UNCHANGED settings

\* "Write this to the panel" is not ticked, or there is nothing to write.
SaveOnly(f, p, c) ==
    /\ flow[f] = Idle
    /\ settings' = [settings EXCEPT ![p] = c]
    /\ UNCHANGED <<panel, away, storeVars, flow, doubt>>

\* The panel was sent just this before.
SaveSkipped(f, p, c) ==
    /\ loaded /\ flow[f] = Idle
    /\ LastWritten(p) = c
    /\ settings' = [settings EXCEPT ![p] = c]
    /\ UNCHANGED <<panel, away, storeVars, flow, doubt>>

\* The write begins: a clear of what the page was, a wait for its panel to be
\* known.  It holds the record it began with.
SaveStarts(f, p, c) ==
    /\ loaded /\ flow[f] = Idle
    /\ LastWritten(p) # c
    /\ flow' = [flow EXCEPT ![f] = [at |-> "writing", page |-> p, config |-> c,
                    new |-> settings[p] = NoConfig, into |-> "loaded", arrived |-> FALSE]]
    /\ UNCHANGED <<panel, away, settings, storeVars, doubt>>

\* Not connected, not known, or abandoned: the form is shown again.
SaveFails(f) ==
    /\ flow[f].at = "writing"
    /\ flow' = [flow EXCEPT ![f] = Idle]
    /\ UNCHANGED <<panel, away, settings, storeVars, doubt>>

\* A write that reaches the panel restarts it; one that comes while it
\* restarts is lost.
Arrives(p, c, arrived) ==
    /\ IF arrived THEN ~away ELSE "lost" \in Faults
    /\ IF arrived THEN panel' = [panel EXCEPT ![p] = c] /\ away' = TRUE
                  ELSE UNCHANGED <<panel, away>>

\* The message goes out under the send lock, unless the gateway was stopped.
WriteGoesOut(f) ==
    /\ flow[f].at = "writing" /\ flow[f].into = "loaded"
    /\ Sending = {}
    /\ \E arrived \in BOOLEAN :
         /\ Arrives(flow[f].page, flow[f].config, arrived)
         /\ flow' = [flow EXCEPT ![f].at = "sent", ![f].arrived = arrived]
    /\ UNCHANGED <<settings, storeVars, doubt>>

\* record(), in the record the flow began with.
Record(into, p, c) ==
    /\ IF into = "loaded" THEN written' = [written EXCEPT ![p] = Recorded(c)] /\ UNCHANGED replaced
       ELSE replaced' = [replaced EXCEPT ![p] = Recorded(c)] /\ UNCHANGED written
    /\ raced' = raced \ {p}
    /\ SaveLater(into)

\* Mutant: what could not be sent is recorded, too.
WriteFailed_Recorded(f) ==
    /\ flow[f].at = "sent" /\ "failed" \in Faults
    /\ Record(flow[f].into, flow[f].page, flow[f].config)
    /\ flow' = [flow EXCEPT ![f] = Idle]
    /\ UNCHANGED <<panel, away, settings, loaded, file, doubt>>

\* The send did not fail: recorded, and the settings are stored.
WriteReturns(f) ==
    /\ flow[f].at = "sent"
    /\ LET p == flow[f].page  c == flow[f].config
       IN /\ Record(flow[f].into, p, c)
          /\ Stored(p, c, flow[f].new)
          /\ doubt' = IF flow[f].arrived THEN doubt \ {p} ELSE doubt \cup {p}
    /\ flow' = [flow EXCEPT ![f] = Idle]
    /\ UNCHANGED <<panel, away, loaded, file>>

\* The send failed, though the panel may have what was sent.
WriteFailed(f) ==
    /\ flow[f].at = "sent" /\ "failed" \in Faults
    /\ doubt' = IF flow[f].arrived THEN doubt \cup {flow[f].page} ELSE doubt
    /\ flow' = [flow EXCEPT ![f] = Idle]
    /\ UNCHANGED <<panel, away, settings, storeVars>>

\* The page is deleted here: forget() and dismiss(), if there is a runtime.
Delete(p) ==
    /\ settings[p] # NoConfig
    /\ settings' = [settings EXCEPT ![p] = NoConfig]
    /\ IF loaded
       THEN /\ written' = [written EXCEPT ![p] = NoRecord]
            /\ SaveLater("loaded")
       ELSE UNCHANGED <<written, pending>>
    /\ UNCHANGED <<panel, away, loaded, replaced, file, flow, doubt, raced>>

\* configure_page, configure_keypad and blank_page write and record nothing.
ServiceWrites(p, c) ==
    /\ loaded /\ Sending = {}
    /\ \E arrived \in BOOLEAN :
         /\ Arrives(p, c, arrived)
         /\ doubt' = IF arrived THEN doubt \cup {p} ELSE doubt
    /\ UNCHANGED <<settings, storeVars, flow>>

PanelReturns ==
    /\ away
    /\ away' = FALSE
    /\ UNCHANGED <<panel, settings, storeVars, flow, doubt>>

\* set_address moves the panel to another address, or one to this address, or
\* an installer exchanges it: what the pages of the address hold is whatever
\* that panel holds, the record is kept, and what just arrived went elsewhere.
Swap ==
    /\ "swap" \in Faults
    /\ \E held \in [Page -> Maybe] :
         /\ panel' = held
         /\ doubt' = doubt \cup Landed \cup {p \in Page : held[p] # panel[p]}
    /\ flow' = [f \in Flow |-> IF f \in Sending THEN [flow[f] EXCEPT !.arrived = FALSE]
                               ELSE flow[f]]
    /\ UNCHANGED <<away, settings, storeVars>>

-----------------------------------------------------------------------------
Next ==
    \/ Swap
    \/ Flush \/ Tick \/ Unload \/ Load \/ Crash \/ PanelReturns
    \/ \E f \in Flow, p \in Page, c \in Config :
         SaveOnly(f, p, c) \/ SaveSkipped(f, p, c) \/ SaveStarts(f, p, c)
    \/ \E f \in Flow :
         SaveFails(f) \/ WriteGoesOut(f) \/ WriteReturns(f) \/ WriteFailed(f)
    \/ \E p \in Page : Delete(p)
    \/ \E p \in Page, c \in Services : ServiceWrites(p, c)

Spec == Init /\ [][Next]_vars

\* A panel returns, time passes, a send comes to an end: on a stopped gateway
\* it fails.
Fairness ==
    /\ WF_vars(PanelReturns) /\ WF_vars(Tick) /\ WF_vars(Load)
    /\ \A f \in Flow : WF_vars(WriteGoesOut(f)) /\ WF_vars(WriteReturns(f))
                       /\ WF_vars(f \in HoldsReplaced /\ SaveFails(f))

FairSpec == Spec /\ Fairness
-----------------------------------------------------------------------------
\* What a record is believed to say the panel holds, with four exceptions:
\* the panel took a write that was not recorded (a service's, or one whose
\* send failed), the write was lost on its way, another panel answers at the
\* address since, or the record was read from a file that missed a save which
\* was still to come.
BelievedIsHeld ==
    \A p \in Page :
        LastWritten(p) \notin {NoConfig, panel[p]} => p \in doubt \cup raced \cup Landed

\* A step in which the panel takes nothing but c on p, no save is given up or
\* overtaken by a reload before its write, and no write is lost but to the
\* panel's own restart.
Undisturbed(p, c) ==
    /\ panel' # panel \/ (away' /\ ~away) => panel'[p] = c
    /\ \A f \in Flow : flow'[f] # flow[f] =>
         /\ flow'[f] = Idle => flow[f].at = "sent" \/ flow[f].into = "replaced"
         /\ flow'[f] # Idle => flow'[f].config = c /\ flow'[f].into = "loaded"
         /\ flow'[f].at = "sent" => flow'[f].arrived \/ away

\* An unconfirmed write is repeated: an installer who keeps saving a page gets
\* its configuration to the panel, whatever was believed of it.
SavesReachThePanel ==
    \A p \in Page, c \in Config :
        (/\ <>[][Undisturbed(p, c)]_vars
         /\ SF_vars(\E f \in Flow : SaveStarts(f, p, c)))
            => <>[](panel[p] = c)
=============================================================================
