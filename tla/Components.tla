----------------------------- MODULE Components -----------------------------
(***************************************************************************)
(* What a component is, and who says so (learning.py, __init__.py,         *)
(* config_flow.py, devices.py, keypads.py, event.py, switch.py).           *)
(*                                                                         *)
(* The gateway names addresses and nothing more.  A component is listed    *)
(* unknown, and becomes a keypad, a dimmer or a shade by what it sends, or *)
(* because an installer says so in a form that knows what the address has  *)
(* sent.  What a loaded entry learns is stored without a reload, so the    *)
(* keypad registry and the event and backlight entities have to be brought *)
(* up to date where a reload would have built them anew.                   *)
(*                                                                         *)
(* A reload is one step here: Pages has what falls into one, and which     *)
(* pages were dismissed (here any unlisted page may be adopted).  One form *)
(* is open at a time; the deletion is another form's.  What a form writes  *)
(* to the panel is in PageWrites.                                          *)
(***************************************************************************)
EXTENDS Naturals, FiniteSets

CONSTANTS
    Address,     \* bus addresses
    Page,        \* their pages, <<address, slot>>; slot 1 is a discovered address's
    MaxButtons,  \* MAX_BUTTONS
    MaxEvents    \* bound: forms opened, panels swapped, unloads and restarts

ASSUME ComponentsAssumption ==
    /\ IsFiniteSet(Address)
    /\ Page \subseteq Address \X Nat /\ \A a \in Address : <<a, 1>> \in Page
    /\ MaxButtons \in Nat \ {0}
    /\ MaxEvents \in Nat

PagesOf(a) == {p \in Page : p[1] = a}
Kinds == {"unknown", "button", "dimmer", "shade"}
Screen == {"dimmer", "shade"}
Roles == {"brightness", "colour_temperature", "level", "foreign"}

\* Only keypads have buttons, and every keypad has some (__post_init__).
Valid(c) == (c.kind = "button") <=> (c.buttons > 0)
Component ==
    {c \in [kind : Kinds, buttons : 0 .. MaxButtons, manual : BOOLEAN, ignored : BOOLEAN] : Valid(c)}
Unlisted == [kind |-> "none", buttons |-> 0, manual |-> FALSE, ignored |-> FALSE]
Discovered(k) == [kind |-> k, buttons |-> 0, manual |-> FALSE, ignored |-> FALSE]

Observation == [kind : Kinds, buttons : 0 .. MaxButtons]
Nothing == [kind |-> "unknown", buttons |-> 0]

Forms ==
    [step : {"kind", "confirm", "settings"}, page : Page, new : BOOLEAN, offered : SUBSET Kinds,
     kind : Kinds, warned : BOOLEAN, heard : BOOLEAN]
Closed == [step |-> "closed"]

VARIABLES
    component,  \* the entry's components, and the loaded copy of them
    older,      \* the pages of its address that were listed before a page
    loaded,     \* the entry is set up
    seen,       \* BusObserver._seen
    published,  \* how many buttons the keypad registry offers of each page
    made,       \* the entities of each page: event.py's and switch.py's added
    form,       \* the form that is open
    hardware,   \* what each address really is
    said,       \* history: what each address has said
    events

vars == <<component, older, loaded, seen, published, made, form, hardware, said, events>>

Listed == {p \in Page : component[p] # Unlisted}

\* What was said at an address, ever and since the entry was loaded, and
\* whether the panel that is there now has said what it is since then.
Said == [kinds : SUBSET Kinds, most : 0 .. MaxButtons, lately : 0 .. MaxButtons, heard : BOOLEAN]
Made == [buttons : 0 .. MaxButtons, value : Screen \cup {"none"}]
NoEntities == [buttons |-> 0, value |-> "none"]

TypeOK ==
    /\ component \in [Page -> Component \cup {Unlisted}]
    /\ older \in [Page -> SUBSET Page]
    /\ loaded \in BOOLEAN
    /\ seen \in [Address -> Observation]
    /\ published \in [Page -> 0 .. MaxButtons]
    /\ made \in [Page -> Made]
    /\ form \in Forms \cup {Closed}
    /\ hardware \in [Address -> {"keys", "screen"}]
    /\ said \in [Address -> Said]
    /\ events \in 0 .. MaxEvents

\* A new entry, not set up yet.
Init ==
    /\ component = [p \in Page |-> Unlisted]
    /\ older = [p \in Page |-> {}]
    /\ loaded = FALSE
    /\ seen = [a \in Address |-> Nothing]
    /\ published = [p \in Page |-> 0]
    /\ made = [p \in Page |-> NoEntities]
    /\ form = Closed
    /\ hardware \in [Address -> {"keys", "screen"}]
    /\ said = [a \in Address |-> [kinds |-> {}, most |-> 0, lately |-> 0, heard |-> FALSE]]
    /\ events = 0

Happens == events < MaxEvents /\ events' = events + 1
-----------------------------------------------------------------------------
(* learning.py.                                                            *)

Larger(m, n) == IF m < n THEN n ELSE m

\* observe_button's range.
IsEvidence(b) == b \in 1 .. MaxButtons

\* BusObserver._update: the newest evidence wins and drops an old count.
Observe(o, k, b) ==
    LET kept == IF o.kind = k THEN o.buttons ELSE 0
    IN  [kind |-> k, buttons |-> IF k = "button" THEN Larger(kept, b) ELSE 0]

\* Mutant: traffic overrules an installer.
Informed_Always(c, o) ==
    IF c.kind = "unknown" \/ o.kind # c.kind THEN [c EXCEPT !.kind = o.kind, !.buttons = o.buttons]
    ELSE IF o.buttons > c.buttons THEN [c EXCEPT !.buttons = o.buttons]
    ELSE c

\* Mutant: a keypad keeps the count it was identified with.
Informed_Once(c, o) ==
    IF c.kind = "unknown" THEN [c EXCEPT !.kind = o.kind, !.buttons = o.buttons] ELSE c

\* apply_observation, of something identified.
Informed(c, o) ==
    CASE c.manual -> c
      [] ~c.manual /\ c.kind = "unknown" -> [c EXCEPT !.kind = o.kind, !.buttons = o.buttons]
      [] ~c.manual /\ c.kind = "button" -> [c EXCEPT !.buttons = Larger(@, o.buttons)]
      [] ~c.manual /\ c.kind \notin {"unknown", "button"} -> c

\* contradicts
Contradicts(o, k) ==
    /\ o.kind # "unknown" /\ k # "unknown" /\ o.kind # k
    /\ ~({o.kind, k} \subseteq Screen)

\* possible_kinds
PossibleKinds(o) ==
    CASE o.kind = "button" -> {"unknown", "button"}
      [] o.kind \in Screen -> {"unknown"} \cup Screen
      [] o.kind = "unknown" -> Kinds
-----------------------------------------------------------------------------
(* What is made of the components.                                         *)

\* keypad_catalogue
Catalogue(cs) ==
    [p \in Page |-> IF cs[p].kind = "button" /\ ~cs[p].ignored THEN cs[p].buttons ELSE 0]

\* _async_add_missing, of event.py and of switch.py.
AddMissing(have, cs) ==
    [p \in Page |->
        [buttons |-> IF cs[p].kind = "button" /\ ~cs[p].ignored
                     THEN Larger(have[p].buttons, cs[p].buttons) ELSE have[p].buttons,
         value |-> IF cs[p].kind \in Screen /\ ~cs[p].ignored /\ have[p].value = "none"
                   THEN cs[p].kind ELSE have[p].value]]

\* Mutant: only the entities are brought up to date.
Apply_Unpublished(cs) ==
    /\ component' = cs
    /\ made' = IF cs = component THEN made ELSE AddMissing(made, cs)
    /\ UNCHANGED <<older, published>>

\* _async_apply_learned: what a reload would have rebuilt.
Apply(cs) ==
    /\ component' = cs
    /\ published' = IF cs = component THEN published ELSE Catalogue(cs)
    /\ made' = IF cs = component THEN made ELSE AddMissing(made, cs)
    /\ UNCHANGED older

\* async_setup_entry, of an entry with these components.
SetsUp(cs) ==
    /\ component' = cs
    /\ loaded' = TRUE
    /\ seen' = [a \in Address |-> Nothing]
    /\ published' = Catalogue(cs)
    /\ made' = AddMissing([p \in Page |-> NoEntities], cs)

Unheard(saids) == [a \in Address |-> [saids[a] EXCEPT !.lately = 0, !.heard = FALSE]]

\* An update of the entry: a loaded one is reloaded.
Updates(cs) ==
    IF loaded
    THEN SetsUp(cs) /\ said' = Unheard(said)
    ELSE component' = cs /\ UNCHANGED <<loaded, seen, published, made, said>>

\* async_add_subentry: the last of its address.
Lists(ps) ==
    older' = [p \in Page |-> IF p \in ps THEN Listed \cap PagesOf(p[1]) ELSE older[p]]
-----------------------------------------------------------------------------
(* Messages: the learning listener, then the adopting one.                 *)

\* The loaded page of an address that _apply looks at.
First(a) == {p \in Listed \cap PagesOf(a) : older[p] = {}}

\* _apply, when something new was learned.
AfterLearning(a, o) ==
    [p \in Page |-> IF o # seen[a] /\ p \in First(a) THEN Informed(component[p], o) ELSE component[p]]

SaidAlso(a, k, b) ==
    [said EXCEPT ![a] = [kinds |-> @.kinds \cup {k}, most |-> Larger(@.most, b),
                         lately |-> Larger(@.lately, b), heard |-> TRUE]]

\* A button report; one out of range is not evidence.
Press(a, b) ==
    /\ loaded /\ hardware[a] = "keys"
    /\ IF IsEvidence(b)
       THEN LET o == Observe(seen[a], "button", b)
            IN  /\ seen' = [seen EXCEPT ![a] = o]
                /\ Apply(AfterLearning(a, o))
                /\ said' = SaidAlso(a, "button", b)
       ELSE UNCHANGED <<component, older, seen, published, made, said>>
    /\ UNCHANGED <<loaded, form, hardware, events>>

\* _async_adopt_pages: nobody lists the page, and the address is not ignored.
Adoptable(p) == p \notin Listed /\ \A q \in Listed \cap PagesOf(p[1]) : ~component[q].ignored

\* The links a page of a kind asks about; any page may have another
\* controller's.
RolesOf(k) ==
    CASE k = "dimmer" -> {"brightness", "colour_temperature"}
      [] k = "shade" -> {"level"}
      [] k = "unknown" -> {"foreign"}

\* Mutant: whatever is not a shade's link is a dimmer's.
KindOf_Guessed(r) == IF r = "level" THEN "shade" ELSE "dimmer"

\* What a page is adopted as, by the link of the message that named it.
KindOf(r) ==
    CASE r \in {"brightness", "colour_temperature"} -> "dimmer"
      [] r = "level" -> "shade"
      [] r = "foreign" -> "unknown"

\* A value write: its type says what the address is, whatever its link (a
\* colour has the type of a brightness); and if its page is not listed it is
\* adopted.
Touch(p, k, r) ==
    LET a == p[1]
        o == Observe(seen[a], k, 0)
        cs == AfterLearning(a, o)
    IN  /\ loaded /\ hardware[a] = "screen"
        /\ k \in Screen /\ r \in RolesOf(k) \cup {"foreign"}
        /\ IF Adoptable(p)
           THEN /\ SetsUp([cs EXCEPT ![p] = Discovered(KindOf(r))])
                /\ Lists({p})
                /\ said' = Unheard(SaidAlso(a, k, 0))
           ELSE /\ seen' = [seen EXCEPT ![a] = o]
                /\ Apply(cs)
                /\ said' = SaidAlso(a, k, 0)
                /\ UNCHANGED loaded
        /\ UNCHANGED <<form, hardware, events>>

\* A poll teaches nothing, but its page is adopted.
Poll(p, k, r) ==
    /\ loaded /\ hardware[p[1]] = "screen"
    /\ k \in Screen \cup {"unknown"} /\ r \in RolesOf(k)
    /\ Adoptable(p)
    /\ SetsUp([component EXCEPT ![p] = Discovered(KindOf(r))])
    /\ Lists({p})
    /\ said' = Unheard([said EXCEPT ![p[1]].kinds = @ \cup {k}])
    /\ UNCHANGED <<form, hardware, events>>

\* _async_record_discoveries: a heartbeat with these addresses.
Heartbeat(S) ==
    LET new == {<<a, 1>> : a \in {b \in S : Listed \cap PagesOf(b) = {}}}
    IN  /\ loaded /\ new # {}
        /\ SetsUp([p \in Page |-> IF p \in new THEN Discovered("unknown") ELSE component[p]])
        /\ Lists(new)
        /\ said' = Unheard(said)
        /\ UNCHANGED <<form, hardware, events>>
-----------------------------------------------------------------------------
(* The forms (config_flow.py).                                             *)

\* _observed
Observed(a) == IF loaded THEN seen[a] ELSE Nothing

\* The first step of adding a page: everything is offered.
OpenNew(p) ==
    /\ Happens /\ form = Closed
    /\ form' = [step |-> "kind", page |-> p, new |-> TRUE, offered |-> Kinds,
                kind |-> "unknown", warned |-> FALSE, heard |-> FALSE]
    /\ UNCHANGED <<component, older, loaded, seen, published, made, hardware, said>>

\* The menu's edit: what the hardware can be, and what is stored.
OpenEdit(p) ==
    /\ Happens /\ form = Closed /\ p \in Listed
    /\ form' = [step |-> "kind", page |-> p, new |-> FALSE,
                offered |-> PossibleKinds(Observed(p[1])) \cup {component[p].kind},
                kind |-> "unknown", warned |-> FALSE, heard |-> FALSE]
    /\ UNCHANGED <<component, older, loaded, seen, published, made, hardware, said>>

\* Mutant: what was offered is taken for possible.
Choose_Trusting(k) ==
    /\ form.step = "kind" /\ k \in form.offered
    /\ form' = [form EXCEPT !.kind = k, !.heard = said[form.page[1]].heard, !.step = "settings"]
    /\ UNCHANGED <<component, older, loaded, seen, published, made, hardware, said, events>>

\* _async_choose_kind, submitted.
Choose(k) ==
    /\ form.step = "kind" /\ k \in form.offered
    /\ form' = [form EXCEPT !.kind = k, !.heard = said[form.page[1]].heard,
                    !.step = IF Contradicts(Observed(form.page[1]), k) THEN "confirm" ELSE "settings"]
    /\ UNCHANGED <<component, older, loaded, seen, published, made, hardware, said, events>>

\* async_step_confirm_type, submitted.
Confirm ==
    /\ form.step = "confirm"
    /\ form' = [form EXCEPT !.step = "settings", !.warned = TRUE]
    /\ UNCHANGED <<component, older, loaded, seen, published, made, hardware, said, events>>

\* _component_data: a chosen type is a decision, no type is none.
Decided(k, b, ign) ==
    [kind |-> k, buttons |-> IF k = "button" THEN b ELSE 0, manual |-> k # "unknown", ignored |-> ign]

\* _async_save of a new page.  One that is listed by now shows the form again.
SaveNew(b, ign) ==
    /\ form.step = "settings" /\ form.new /\ form.page \notin Listed
    /\ Updates([component EXCEPT ![form.page] = Decided(form.kind, b, ign)])
    /\ Lists({form.page})
    /\ form' = Closed
    /\ UNCHANGED <<hardware, events>>

\* _async_save of an edited page.  Settings that are not modelled may change
\* too; a save that changes nothing updates nothing.
SaveEdit(b, ign) ==
    LET c == Decided(form.kind, b, ign)
    IN  /\ form.step = "settings" /\ ~form.new /\ form.page \in Listed
        /\ \/ Updates([component EXCEPT ![form.page] = c])
           \/ c = component[form.page] /\ UNCHANGED <<component, loaded, seen, published, made, said>>
        /\ form' = Closed
        /\ UNCHANGED <<older, hardware, events>>

\* The form is closed, or its page is gone when it is submitted.
Abandon ==
    /\ form # Closed
    /\ form' = Closed
    /\ UNCHANGED <<component, older, loaded, seen, published, made, hardware, said, events>>

\* async_step_delete.
Delete(p) ==
    /\ p \in Listed
    /\ Updates([component EXCEPT ![p] = Unlisted])
    /\ older' = [q \in Page |-> IF q = p THEN {} ELSE older[q] \ {p}]
    /\ UNCHANGED <<form, hardware, events>>
-----------------------------------------------------------------------------
(* The entry and the hardware.                                             *)

Setup ==
    /\ ~loaded
    /\ SetsUp(component)
    /\ said' = Unheard(said)
    /\ UNCHANGED <<older, form, hardware, events>>

\* async_unload_entry: the entities go; nothing takes the keypads out of the
\* registry (forget has no caller).
Unload ==
    /\ Happens /\ loaded
    /\ loaded' = FALSE
    /\ seen' = [a \in Address |-> Nothing]
    /\ made' = [p \in Page |-> NoEntities]
    /\ said' = Unheard(said)
    /\ UNCHANGED <<component, older, published, form, hardware>>

\* Home Assistant restarts; the entry's subentries are on disk.
Restart ==
    /\ Happens
    /\ loaded' = FALSE
    /\ seen' = [a \in Address |-> Nothing]
    /\ made' = [p \in Page |-> NoEntities]
    /\ published' = [p \in Page |-> 0]
    /\ form' = Closed
    /\ said' = Unheard(said)
    /\ UNCHANGED <<component, older, hardware>>

\* Another panel takes the address.
Swap(a) ==
    /\ Happens
    /\ hardware' = [hardware EXCEPT ![a] = IF @ = "keys" THEN "screen" ELSE "keys"]
    /\ said' = [said EXCEPT ![a].heard = FALSE]
    /\ form' = IF form # Closed /\ form.page[1] = a THEN [form EXCEPT !.heard = FALSE] ELSE form
    /\ UNCHANGED <<component, older, loaded, seen, published, made>>
-----------------------------------------------------------------------------
Next ==
    \/ \E a \in Address, b \in 0 .. MaxButtons + 1 : Press(a, b)
    \/ \E p \in Page, k \in Kinds, r \in Roles : Touch(p, k, r) \/ Poll(p, k, r)
    \/ \E S \in SUBSET Address : Heartbeat(S)
    \/ \E p \in Page : OpenNew(p) \/ OpenEdit(p) \/ Delete(p)
    \/ \E k \in Kinds : Choose(k)
    \/ \E b \in 1 .. MaxButtons, ign \in BOOLEAN : SaveNew(b, ign) \/ SaveEdit(b, ign)
    \/ Confirm \/ Abandon \/ Setup \/ Unload \/ Restart
    \/ \E a \in Address : Swap(a)

Spec == Init /\ [][Next]_vars
-----------------------------------------------------------------------------
(* Properties.                                                             *)

\* Nothing is guessed (learning.py:15): a component nobody decided is what
\* its address has said at some time, with no more buttons than were pressed.
NothingBeyondEvidence ==
    \A p \in Listed :
        ~component[p].manual /\ component[p].kind # "unknown" =>
            /\ component[p].kind \in said[p[1]].kinds
            /\ component[p].buttons <= said[p[1]].most

\* Nothing that was heard is left out: since the entry was loaded, the first
\* page of an address is unknown only while the address has said nothing, and
\* a keypad nobody decided has every button that was pressed.
NothingHeardIsMissed ==
    loaded => \A a \in Address : \A p \in First(a) :
        /\ component[p].kind = "unknown" => ~said[a].heard
        /\ component[p].kind = "button" /\ ~component[p].manual =>
               component[p].buttons >= said[a].lately

\* While the entry is loaded, the registry and the entities are those of its
\* components, learned ones included; so what is offered of a page that is
\* gone is offered only while the entry is not loaded.
OfferedAsLoaded ==
    loaded =>
        /\ published = Catalogue(component)
        /\ made = AddMissing([p \in Page |-> NoEntities], component)

\* Traffic decides once and only adds: whatever it was told about a page
\* that has a type, it leaves the type, the decision and the page, and takes
\* no button away.  Only a form does more.
TrafficOnlyAdds ==
    [][\A p \in Listed :
          LET c == component[p]
              d == component'[p]
          IN  \/ form # Closed /\ form' = Closed /\ form.page = p
              \/ d = Unlisted
              \/ c.manual /\ d = c
              \/ /\ d.manual = c.manual /\ d.ignored = c.ignored
                 /\ c.kind # "unknown" => d.kind = c.kind /\ d.buttons >= c.buttons]_vars

\* A type the hardware contradicts is saved without a warning only if the
\* panel had not said what it is, since the load, when the type was chosen.
WrongTypeWarned ==
    [][\A p \in Page :
          /\ form # Closed /\ form' = Closed /\ form.page = p
          /\ component'[p] # component[p] /\ component'[p].kind # "unknown"
          /\ (component'[p].kind = "button") # (hardware[p[1]] = "keys")
          => form.warned \/ ~form.heard]_vars
=============================================================================
