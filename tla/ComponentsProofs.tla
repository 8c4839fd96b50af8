--------------------------- MODULE ComponentsProofs ---------------------------
(***************************************************************************)
(* Proofs about Components, for any addresses and pages, any MAX_BUTTONS   *)
(* and any number of events.                                               *)
(*                                                                         *)
(* The inductive invariant adds to the types and to the properties what    *)
(* the observer has: it has seen nothing that was not said; the page it    *)
(* would tell has been told; and it knows a panel that has spoken since    *)
(* the load for what it is, which is what a form's warning rests on.       *)
(***************************************************************************)
EXTENDS Components, TLAPS

\* What a message teaches: a kind, with buttons if it is a keypad's.
Evidence == {o \in Observation : o.kind # "unknown" /\ Valid(o)}

\* A component that traffic made of another: it adds, and decides what was
\* not decided.
Grown(c, d) ==
    /\ d.manual = c.manual /\ d.ignored = c.ignored
    /\ c.kind # "unknown" => d.kind = c.kind /\ d.buttons >= c.buttons
    /\ c.manual => d = c

-----------------------------------------------------------------------------
(* The operators.                                                          *)

LEMMA PageAddress == ASSUME NEW p \in Page PROVE p[1] \in Address
BY ComponentsAssumption

LEMMA LargerFacts ==
    ASSUME NEW m \in 0 .. MaxButtons, NEW n \in 0 .. MaxButtons
    PROVE  /\ Larger(m, n) \in 0 .. MaxButtons
           /\ Larger(m, n) >= m /\ Larger(m, n) >= n
           /\ Larger(m, n) = m \/ Larger(m, n) = n
BY ComponentsAssumption DEF Larger

\* The newest evidence wins, and is not more than was seen and heard.
LEMMA ObserveFacts ==
    ASSUME NEW o \in Observation, NEW k \in Kinds \ {"unknown"}, NEW b \in 0 .. MaxButtons,
           (k = "button") <=> (b > 0)
    PROVE  /\ Observe(o, k, b) \in Evidence
           /\ Observe(o, k, b).kind = k
           /\ Observe(o, k, b).buttons >= b
           /\ Observe(o, k, b).buttons <= Larger(o.buttons, b)
<1> DEFINE kept == IF o.kind = k THEN o.buttons ELSE 0
<1>1. o.buttons \in 0 .. MaxButtons /\ kept \in 0 .. MaxButtons /\ kept <= o.buttons
  BY ComponentsAssumption DEF Observation
<1>2. Observe(o, k, b) = [kind |-> k, buttons |-> IF k = "button" THEN Larger(kept, b) ELSE 0]
  BY DEF Observe
<1>3. /\ Larger(kept, b) \in 0 .. MaxButtons /\ Larger(kept, b) >= b
      /\ Larger(kept, b) <= Larger(o.buttons, b)
  <2> HIDE DEF kept
  <2>1. /\ Larger(kept, b) \in 0 .. MaxButtons /\ Larger(kept, b) >= b
        /\ Larger(kept, b) = kept \/ Larger(kept, b) = b
    BY <1>1, LargerFacts
  <2>2. /\ Larger(o.buttons, b) \in 0 .. MaxButtons
        /\ Larger(o.buttons, b) >= o.buttons /\ Larger(o.buttons, b) >= b
    BY <1>1, LargerFacts
  <2> QED BY <1>1, <2>1, <2>2, ComponentsAssumption
<1>4. Larger(o.buttons, b) >= 0 /\ 0 \in 0 .. MaxButtons
  <2>1. Larger(o.buttons, b) \in 0 .. MaxButtons
    BY <1>1, LargerFacts
  <2> QED BY <2>1, ComponentsAssumption
<1> HIDE DEF kept
<1>5. CASE k = "button"
  <2>1. Observe(o, k, b) = [kind |-> k, buttons |-> Larger(kept, b)]
    BY <1>2, <1>5
  <2> QED BY <1>3, <1>5, <2>1, ComponentsAssumption DEF Evidence, Observation, Valid
<1>6. CASE k # "button"
  <2>1. Observe(o, k, b) = [kind |-> k, buttons |-> 0] /\ b = 0
    BY <1>2, <1>6
  <2> QED BY <1>4, <1>6, <2>1 DEF Evidence, Observation, Valid
<1> QED
  BY <1>5, <1>6

\* What an observation makes of a component.
LEMMA InformedFacts ==
    ASSUME NEW c \in Component, NEW o \in Evidence
    PROVE  /\ Informed(c, o) \in Component
           /\ Grown(c, Informed(c, o))
           /\ ~c.manual => /\ Informed(c, o).kind # "unknown"
                           /\ Informed(c, o).kind \in {c.kind, o.kind}
                           /\ Informed(c, o).buttons \in {c.buttons, o.buttons}
                           /\ Informed(c, o).kind = "button" /\ o.kind = "button" =>
                                  Informed(c, o).buttons >= o.buttons
<1>1. /\ c.kind \in Kinds /\ c.buttons \in 0 .. MaxButtons /\ Valid(c)
      /\ c.manual \in BOOLEAN /\ c.ignored \in BOOLEAN
  BY DEF Component
<1>2. o.kind \in Kinds \ {"unknown"} /\ o.buttons \in 0 .. MaxButtons /\ Valid(o)
  BY DEF Evidence, Observation
<1>3. CASE c.manual
  <2>1. Informed(c, o) = c
    BY <1>3 DEF Informed
  <2>2. c.buttons >= c.buttons
    BY <1>1, ComponentsAssumption
  <2> QED BY <1>1, <1>3, <2>1, <2>2 DEF Grown
<1>4. CASE ~c.manual /\ c.kind = "unknown"
  <2>1. Informed(c, o) = [c EXCEPT !.kind = o.kind, !.buttons = o.buttons]
    BY <1>4 DEF Informed
  <2>2. Informed(c, o) = [kind |-> o.kind, buttons |-> o.buttons, manual |-> c.manual, ignored |-> c.ignored]
    BY <2>1 DEF Component
  <2> HIDE DEF Informed
  <2>3. Informed(c, o) \in Component
    BY <1>1, <1>2, <2>2 DEF Component, Valid
  <2> QED BY <1>1, <1>2, <1>4, <2>2, <2>3 DEF Grown
<1>5. CASE ~c.manual /\ c.kind = "button"
  <2>1. Informed(c, o) = [c EXCEPT !.buttons = Larger(@, o.buttons)]
    BY <1>5 DEF Informed
  <2>2. Informed(c, o) = [kind |-> c.kind, buttons |-> Larger(c.buttons, o.buttons),
                          manual |-> c.manual, ignored |-> c.ignored]
    BY <2>1 DEF Component
  <2>3. /\ Larger(c.buttons, o.buttons) \in {c.buttons, o.buttons}
        /\ Larger(c.buttons, o.buttons) \in 0 .. MaxButtons
        /\ Larger(c.buttons, o.buttons) >= c.buttons /\ Larger(c.buttons, o.buttons) >= o.buttons
    BY <1>1, <1>2, LargerFacts
  <2>4. Informed(c, o) \in Component
    BY <1>1, <1>5, <2>2, <2>3, ComponentsAssumption DEF Component, Valid
  <2> QED BY <1>1, <1>5, <2>2, <2>3, <2>4 DEF Grown
<1>6. CASE ~c.manual /\ c.kind \notin {"unknown", "button"}
  <2>1. Informed(c, o) = c
    BY <1>6 DEF Informed
  <2> QED BY <1>1, <1>6, <2>1 DEF Grown
<1> QED
  BY <1>3, <1>4, <1>5, <1>6

\* A loaded entry's components, listed or not.
ComponentMap == [Page -> Component \cup {Unlisted}]
None == [p \in Page |-> NoEntities]

\* Adding what is missing for components that only grew makes what a reload
\* would have made.
LEMMA AddMissingTwice ==
    ASSUME NEW cs \in ComponentMap, NEW ds \in ComponentMap, \A p \in Page : Grown(cs[p], ds[p])
    PROVE  AddMissing(AddMissing(None, cs), ds) = AddMissing(None, ds)
<1> DEFINE once == AddMissing(None, cs)
           twice == AddMissing(once, ds)
           anew == AddMissing(None, ds)
<1>1. ASSUME NEW p \in Page PROVE twice[p] = anew[p]
  <2>1. /\ cs[p].buttons \in 0 .. MaxButtons /\ ds[p].buttons \in 0 .. MaxButtons
        /\ cs[p] \in Component \cup {Unlisted} /\ ds[p] \in Component \cup {Unlisted}
    BY ComponentsAssumption DEF ComponentMap, Component, Unlisted
  <2>2. /\ None[p].buttons = 0 /\ None[p].value = "none"
    BY DEF None, NoEntities
  <2>3. /\ once[p].buttons = IF cs[p].kind = "button" /\ ~cs[p].ignored THEN Larger(0, cs[p].buttons) ELSE 0
        /\ once[p].value = IF cs[p].kind \in Screen /\ ~cs[p].ignored THEN cs[p].kind ELSE "none"
    BY <2>2 DEF AddMissing
  <2>4. /\ twice[p] = [buttons |-> twice[p].buttons, value |-> twice[p].value]
        /\ anew[p] = [buttons |-> anew[p].buttons, value |-> anew[p].value]
    BY DEF AddMissing
  <2>5. twice[p].buttons = anew[p].buttons
    <3>1. twice[p].buttons = IF ds[p].kind = "button" /\ ~ds[p].ignored
                             THEN Larger(once[p].buttons, ds[p].buttons) ELSE once[p].buttons
      BY DEF AddMissing
    <3>2. anew[p].buttons = IF ds[p].kind = "button" /\ ~ds[p].ignored
                            THEN Larger(0, ds[p].buttons) ELSE 0
      BY <2>2 DEF AddMissing
    <3> HIDE DEF once, twice, anew
    <3>3. CASE cs[p].kind = "button" /\ ~cs[p].ignored
      <4>1. ds[p].kind = "button" /\ ~ds[p].ignored /\ ds[p].buttons >= cs[p].buttons
        BY <3>3 DEF Grown
      <4> QED BY <2>1, <2>3, <3>1, <3>2, <3>3, <4>1, ComponentsAssumption DEF Larger
    <3>4. CASE ~(cs[p].kind = "button" /\ ~cs[p].ignored)
      BY <2>3, <3>1, <3>2, <3>4
    <3> QED BY <3>3, <3>4
  <2>6. twice[p].value = anew[p].value
    <3>1. twice[p].value = IF ds[p].kind \in Screen /\ ~ds[p].ignored /\ once[p].value = "none"
                           THEN ds[p].kind ELSE once[p].value
      BY DEF AddMissing
    <3>2. anew[p].value = IF ds[p].kind \in Screen /\ ~ds[p].ignored THEN ds[p].kind ELSE "none"
      BY <2>2 DEF AddMissing
    <3> HIDE DEF once, twice, anew
    <3> QED BY <2>3, <3>1, <3>2 DEF Grown, Screen
  <2> QED BY <2>4, <2>5, <2>6
<1>2. twice = [p \in Page |-> twice[p]] /\ anew = [p \in Page |-> anew[p]]
  BY DEF AddMissing
<1> QED
  BY <1>1, <1>2

-----------------------------------------------------------------------------
(* Types, and what is offered.                                             *)

\* What is made of components has its type.
LEMMA MadeTypes ==
    ASSUME NEW cs \in ComponentMap, NEW have \in [Page -> Made]
    PROVE  /\ Catalogue(cs) \in [Page -> 0 .. MaxButtons]
           /\ AddMissing(have, cs) \in [Page -> Made]
<1>0. 0 \in 0 .. MaxButtons
  BY ComponentsAssumption
<1>1. ASSUME NEW p \in Page
      PROVE  /\ cs[p].buttons \in 0 .. MaxButtons
             /\ have[p].buttons \in 0 .. MaxButtons /\ have[p].value \in Screen \cup {"none"}
  BY <1>0 DEF ComponentMap, Component, Unlisted, Made
<1>2. ASSUME NEW p \in Page PROVE Larger(have[p].buttons, cs[p].buttons) \in 0 .. MaxButtons
  BY <1>1, LargerFacts
<1>3. Catalogue(cs) \in [Page -> 0 .. MaxButtons]
  BY <1>0, <1>1 DEF Catalogue
<1>4. AddMissing(have, cs) \in [Page -> Made]
  BY <1>1, <1>2 DEF AddMissing, Made
<1> QED
  BY <1>3, <1>4

LEMMA NoneMade == None \in [Page -> Made]
<1>1. 0 \in 0 .. MaxButtons
  BY ComponentsAssumption
<1> QED
  BY <1>1 DEF None, NoEntities, Made

LEMMA NothingSeen == [a \in Address |-> Nothing] \in [Address -> Observation]
<1>1. 0 \in 0 .. MaxButtons
  BY ComponentsAssumption
<1> QED
  BY <1>1 DEF Nothing, Observation, Kinds

LEMMA UnheardType == ASSUME NEW s \in [Address -> Said] PROVE Unheard(s) \in [Address -> Said]
<1>1. 0 \in 0 .. MaxButtons
  BY ComponentsAssumption
<1> QED
  BY <1>1 DEF Unheard, Said

\* Components that a message taught something are components, grown.
LEMMA LearnedFacts ==
    ASSUME TypeOK, NEW a \in Address, NEW o \in Evidence
    PROVE  /\ AfterLearning(a, o) \in ComponentMap
           /\ \A p \in Page : Grown(component[p], AfterLearning(a, o)[p])
<1> DEFINE cs == AfterLearning(a, o)
<1>1. ASSUME NEW p \in Page
      PROVE  cs[p] \in Component \cup {Unlisted} /\ Grown(component[p], cs[p])
  <2>1. component[p] \in Component \cup {Unlisted}
    BY DEF TypeOK
  <2>2. CASE o # seen[a] /\ p \in First(a)
    <3>1. component[p] \in Component /\ cs[p] = Informed(component[p], o)
      BY <2>1, <2>2 DEF First, Listed, AfterLearning
    <3> QED BY <3>1, InformedFacts
  <2>3. CASE ~(o # seen[a] /\ p \in First(a))
    <3>1. cs[p] = component[p]
      BY <2>3 DEF AfterLearning
    <3>2. component[p].buttons >= component[p].buttons
      BY <2>1, ComponentsAssumption DEF Component, Unlisted
    <3> QED BY <2>1, <3>1, <3>2 DEF Grown
  <2> QED BY <2>2, <2>3
<1>2. cs = [p \in Page |-> cs[p]]
  BY DEF AfterLearning
<1> QED
  BY <1>1, <1>2 DEF ComponentMap

\* Types of what a load makes, which is all it offers.
LEMMA SetsUpFacts ==
    ASSUME NEW cs \in ComponentMap, SetsUp(cs)
    PROVE  /\ component' \in ComponentMap
           /\ loaded' = TRUE
           /\ seen' \in [Address -> Observation]
           /\ published' \in [Page -> 0 .. MaxButtons]
           /\ made' \in [Page -> Made]
           /\ OfferedAsLoaded'
<1>1. OfferedAsLoaded'
  BY DEF OfferedAsLoaded, SetsUp
<1>2. made' = AddMissing(None, cs)
  BY DEF SetsUp, None
<1> QED
  BY <1>1, <1>2, MadeTypes, NoneMade, NothingSeen DEF SetsUp

\* Bringing it up to date in place makes what a reload would have made.
LEMMA ApplyFacts ==
    ASSUME TypeOK, OfferedAsLoaded, loaded, NEW a \in Address, NEW o \in Evidence,
           Apply(AfterLearning(a, o)), UNCHANGED loaded
    PROVE  /\ component' = AfterLearning(a, o) /\ component' \in ComponentMap
           /\ published' \in [Page -> 0 .. MaxButtons]
           /\ made' \in [Page -> Made]
           /\ OfferedAsLoaded'
<1> DEFINE cs == AfterLearning(a, o)
<1>1. cs \in ComponentMap /\ component \in ComponentMap /\ \A p \in Page : Grown(component[p], cs[p])
  BY LearnedFacts DEF TypeOK, ComponentMap
<1>2. published = Catalogue(component) /\ made = AddMissing(None, component)
  BY DEF OfferedAsLoaded, None
<1>3. component' = cs
  BY DEF Apply
<1>4. published' = Catalogue(cs) /\ made' = AddMissing(None, cs)
  <2>1. CASE cs = component
    BY <1>2, <2>1 DEF Apply
  <2>2. CASE cs # component
    <3>1. published' = Catalogue(cs) /\ made' = AddMissing(made, cs)
      BY <2>2 DEF Apply
    <3>2. AddMissing(AddMissing(None, component), cs) = AddMissing(None, cs)
      BY <1>1, AddMissingTwice
    <3> QED BY <1>2, <3>1, <3>2
  <2> QED BY <2>1, <2>2
<1>5. OfferedAsLoaded'
  BY <1>3, <1>4 DEF OfferedAsLoaded, None
<1> QED
  BY <1>1, <1>3, <1>4, <1>5, MadeTypes, NoneMade

\* An update of the entry, loaded or not.
LEMMA UpdatesFacts ==
    ASSUME TypeOK, NEW cs \in ComponentMap, Updates(cs)
    PROVE  /\ component' = cs /\ UNCHANGED loaded
           /\ seen' \in [Address -> Observation]
           /\ published' \in [Page -> 0 .. MaxButtons]
           /\ made' \in [Page -> Made]
           /\ said' \in [Address -> Said]
           /\ OfferedAsLoaded'
<1>1. CASE loaded
  <2>1. SetsUp(cs) /\ said' = Unheard(said)
    BY <1>1 DEF Updates
  <2>2. component' = cs /\ UNCHANGED loaded
    BY <1>1, <2>1 DEF SetsUp
  <2>3. said' \in [Address -> Said]
    BY <2>1, UnheardType DEF TypeOK
  <2> QED BY <2>1, <2>2, <2>3, SetsUpFacts
<1>2. CASE ~loaded
  BY <1>2 DEF Updates, TypeOK, OfferedAsLoaded
<1> QED
  BY <1>1, <1>2
LEMMA ListsType ==
    ASSUME TypeOK, NEW ps \in SUBSET Page, Lists(ps)
    PROVE  older' \in [Page -> SUBSET Page]
BY DEF TypeOK, Lists, Listed

LEMMA SaidAlsoType ==
    ASSUME TypeOK, NEW a \in Address, NEW k \in Kinds, NEW b \in 0 .. MaxButtons
    PROVE  SaidAlso(a, k, b) \in [Address -> Said]
<1>1. said[a].most \in 0 .. MaxButtons /\ said[a].lately \in 0 .. MaxButtons
  BY DEF TypeOK, Said
<1>2. Larger(said[a].most, b) \in 0 .. MaxButtons /\ Larger(said[a].lately, b) \in 0 .. MaxButtons
  BY <1>1, LargerFacts
<1>3. said[a].kinds \cup {k} \in SUBSET Kinds
  BY DEF TypeOK, Said
<1>4. [kinds |-> said[a].kinds \cup {k}, most |-> Larger(said[a].most, b),
       lately |-> Larger(said[a].lately, b), heard |-> TRUE] \in Said
  BY <1>2, <1>3 DEF Said
<1> QED
  BY <1>4 DEF SaidAlso, TypeOK

\* A message teaches what it says.
LEMMA Taught ==
    ASSUME TypeOK, NEW a \in Address, NEW k \in Kinds \ {"unknown"}, NEW b \in 0 .. MaxButtons,
           (k = "button") <=> (b > 0)
    PROVE  Observe(seen[a], k, b) \in Evidence /\ Observe(seen[a], k, b) \in Observation
BY ObserveFacts DEF TypeOK, Evidence

LEMMA DiscoveredType == \A k \in Kinds \ {"button"} : Discovered(k) \in Component
<1>1. 0 \in 0 .. MaxButtons /\ ~(0 > 0)
  BY ComponentsAssumption
<1> QED
  BY <1>1 DEF Discovered, Component, Valid

LEMMA DecidedType ==
    ASSUME NEW k \in Kinds, NEW b \in 1 .. MaxButtons, NEW ign \in BOOLEAN
    PROVE  Decided(k, b, ign) \in Component
<1>1. 0 \in 0 .. MaxButtons /\ ~(0 > 0) /\ b \in 0 .. MaxButtons /\ b > 0
  BY ComponentsAssumption
<1> QED
  BY <1>1 DEF Decided, Component, Valid

LEMMA LinkKinds == \A r \in Roles : KindOf(r) \in Kinds \ {"button"}
BY DEF Roles, KindOf, Kinds

\* A form that is not closed is one.
LEMMA OpenForm == ASSUME TypeOK, form # Closed PROVE form \in Forms /\ form.page \in Page /\ form.kind \in Kinds
BY DEF TypeOK, Forms

\* Types and what is offered, of every step.
LEMMA TypesStep ==
    ASSUME TypeOK, OfferedAsLoaded, Next
    PROVE  TypeOK' /\ OfferedAsLoaded'
<1>0. component \in ComponentMap
  BY DEF TypeOK, ComponentMap
<1>1. ASSUME NEW a \in Address, NEW b \in 0 .. MaxButtons + 1, Press(a, b)
      PROVE  TypeOK' /\ OfferedAsLoaded'
  <2>1. CASE IsEvidence(b)
    <3> DEFINE o == Observe(seen[a], "button", b)
    <3>1. b \in 0 .. MaxButtons /\ b > 0 /\ "button" \in Kinds \ {"unknown"}
      BY <2>1, ComponentsAssumption DEF IsEvidence, Kinds
    <3>2. o \in Evidence /\ o \in Observation
      BY <3>1, Taught
    <3>3. /\ seen' = [seen EXCEPT ![a] = o] /\ Apply(AfterLearning(a, o))
          /\ said' = SaidAlso(a, "button", b)
          /\ loaded /\ UNCHANGED <<loaded, form, hardware, events>> /\ UNCHANGED older
      BY <1>1, <2>1 DEF Press, Apply
    <3> HIDE DEF o
    <3>4. said' \in [Address -> Said]
      BY <3>1, <3>3, SaidAlsoType DEF Kinds
    <3>5. seen' \in [Address -> Observation]
      BY <3>2, <3>3 DEF TypeOK
    <3>6. /\ component' \in ComponentMap /\ published' \in [Page -> 0 .. MaxButtons]
          /\ made' \in [Page -> Made] /\ OfferedAsLoaded'
      BY <3>2, <3>3, ApplyFacts
    <3> QED BY <3>3, <3>4, <3>5, <3>6 DEF TypeOK, ComponentMap
  <2>2. CASE ~IsEvidence(b)
    BY <1>1, <2>2 DEF Press, TypeOK, OfferedAsLoaded
  <2> QED BY <2>1, <2>2
<1>2. ASSUME NEW p \in Page, NEW k \in Kinds, NEW r \in Roles, Touch(p, k, r)
      PROVE  TypeOK' /\ OfferedAsLoaded'
  <2> DEFINE o == Observe(seen[p[1]], k, 0)
             cs == AfterLearning(p[1], o)
  <2>0. p[1] \in Address
    BY PageAddress
  <2>1. /\ loaded /\ k \in Screen /\ UNCHANGED <<form, hardware, events>>
        /\ IF Adoptable(p)
           THEN /\ SetsUp([cs EXCEPT ![p] = Discovered(KindOf(r))])
                /\ Lists({p})
                /\ said' = Unheard(SaidAlso(p[1], k, 0))
           ELSE /\ seen' = [seen EXCEPT ![p[1]] = o]
                /\ Apply(cs)
                /\ said' = SaidAlso(p[1], k, 0)
                /\ UNCHANGED loaded
    BY <1>2 DEF Touch
  <2>2. k \in Kinds \ {"unknown"} /\ k # "button" /\ 0 \in 0 .. MaxButtons /\ ~(0 > 0)
    BY <2>1, ComponentsAssumption DEF Screen
  <2>3. o \in Evidence /\ o \in Observation
    BY <2>0, <2>2, Taught
  <2>4. SaidAlso(p[1], k, 0) \in [Address -> Said]
    BY <2>0, <2>2, SaidAlsoType
  <2> HIDE DEF o
  <2>5. cs \in ComponentMap
    BY <2>0, <2>3, LearnedFacts
  <2>6. CASE Adoptable(p)
    <3> DEFINE ds == [cs EXCEPT ![p] = Discovered(KindOf(r))]
    <3>1. SetsUp(ds) /\ Lists({p}) /\ said' = Unheard(SaidAlso(p[1], k, 0))
      BY <2>1, <2>6
    <3>2. ds \in ComponentMap
      BY <2>5, LinkKinds, DiscoveredType DEF ComponentMap
    <3>3. said' \in [Address -> Said]
      BY <2>4, <3>1, UnheardType
    <3>4. older' \in [Page -> SUBSET Page]
      BY <3>1, ListsType
    <3> HIDE DEF ds, cs
    <3> QED BY <2>1, <3>1, <3>2, <3>3, <3>4, SetsUpFacts DEF TypeOK, ComponentMap
  <2>7. CASE ~Adoptable(p)
    <3>1. /\ seen' = [seen EXCEPT ![p[1]] = o] /\ Apply(cs) /\ said' = SaidAlso(p[1], k, 0)
          /\ UNCHANGED loaded /\ UNCHANGED older
      BY <2>1, <2>7 DEF Apply
    <3>2. seen' \in [Address -> Observation]
      BY <2>3, <3>1 DEF TypeOK
    <3>3. /\ component' \in ComponentMap /\ published' \in [Page -> 0 .. MaxButtons]
          /\ made' \in [Page -> Made] /\ OfferedAsLoaded'
      BY <2>0, <2>1, <2>3, <3>1, ApplyFacts
    <3> QED BY <2>1, <2>4, <3>1, <3>2, <3>3 DEF TypeOK, ComponentMap
  <2> QED BY <2>6, <2>7
<1>3. ASSUME NEW p \in Page, NEW k \in Kinds, NEW r \in Roles, Poll(p, k, r)
      PROVE  TypeOK' /\ OfferedAsLoaded'
  <2> DEFINE ds == [component EXCEPT ![p] = Discovered(KindOf(r))]
             ss == [said EXCEPT ![p[1]].kinds = @ \cup {k}]
  <2>1. SetsUp(ds) /\ Lists({p}) /\ said' = Unheard(ss) /\ UNCHANGED <<form, hardware, events>>
    BY <1>3 DEF Poll
  <2>2. ds \in ComponentMap
    BY <1>0, LinkKinds, DiscoveredType DEF ComponentMap
  <2>3. ss \in [Address -> Said]
    BY DEF TypeOK, Said
  <2>4. said' \in [Address -> Said]
    BY <2>1, <2>3, UnheardType
  <2>5. older' \in [Page -> SUBSET Page]
    BY <2>1, ListsType
  <2> HIDE DEF ds
  <2> QED BY <2>1, <2>2, <2>4, <2>5, SetsUpFacts DEF TypeOK, ComponentMap
<1>4. ASSUME NEW S \in SUBSET Address, Heartbeat(S) PROVE TypeOK' /\ OfferedAsLoaded'
  <2> DEFINE new == {<<a, 1>> : a \in {b \in S : Listed \cap PagesOf(b) = {}}}
             ds == [p \in Page |-> IF p \in new THEN Discovered("unknown") ELSE component[p]]
  <2>1. SetsUp(ds) /\ Lists(new) /\ said' = Unheard(said) /\ UNCHANGED <<form, hardware, events>>
    BY <1>4 DEF Heartbeat
  <2>2. new \in SUBSET Page
    BY ComponentsAssumption
  <2> HIDE DEF new
  <2>3. Discovered("unknown") \in Component
    BY DiscoveredType DEF Kinds
  <2>4. ds \in ComponentMap
    BY <1>0, <2>3 DEF ComponentMap
  <2>5. said' \in [Address -> Said]
    BY <2>1, UnheardType DEF TypeOK
  <2>6. older' \in [Page -> SUBSET Page]
    BY <2>1, <2>2, ListsType
  <2> HIDE DEF ds
  <2> QED BY <2>1, <2>4, <2>5, <2>6, SetsUpFacts DEF TypeOK, ComponentMap
<1>5. ASSUME NEW p \in Page, OpenNew(p) PROVE TypeOK' /\ OfferedAsLoaded'
  <2>1. form' \in Forms
    BY <1>5 DEF OpenNew, Forms, Kinds
  <2>2. events' \in 0 .. MaxEvents
    BY <1>5, ComponentsAssumption DEF OpenNew, Happens, TypeOK
  <2> QED BY <1>5, <2>1, <2>2 DEF OpenNew, TypeOK, OfferedAsLoaded
<1>6. ASSUME NEW p \in Page, OpenEdit(p) PROVE TypeOK' /\ OfferedAsLoaded'
  <2>1. component[p].kind \in Kinds
    BY <1>6 DEF OpenEdit, TypeOK, Listed, Component
  <2>2. PossibleKinds(Observed(p[1])) \in SUBSET Kinds
    <3>1. Observed(p[1]).kind \in Kinds
      BY PageAddress DEF Observed, Nothing, TypeOK, Observation, Kinds
    <3> QED BY <3>1 DEF PossibleKinds, Kinds, Screen
  <2>3. form' \in Forms
    BY <1>6, <2>1, <2>2 DEF OpenEdit, Forms, Kinds
  <2>4. events' \in 0 .. MaxEvents
    BY <1>6, ComponentsAssumption DEF OpenEdit, Happens, TypeOK
  <2> QED BY <1>6, <2>3, <2>4 DEF OpenEdit, TypeOK, OfferedAsLoaded
<1>7. ASSUME NEW k \in Kinds, Choose(k) PROVE TypeOK' /\ OfferedAsLoaded'
  <2>1. form \in Forms /\ form.page[1] \in Address
    BY <1>7, OpenForm, PageAddress DEF Choose, Closed
  <2>2. said[form.page[1]].heard \in BOOLEAN
    BY <2>1 DEF TypeOK, Said
  <2>3. form' \in Forms
    BY <1>7, <2>1, <2>2 DEF Choose, Forms
  <2> QED BY <1>7, <2>3 DEF Choose, TypeOK, OfferedAsLoaded
<1>8. ASSUME Confirm PROVE TypeOK' /\ OfferedAsLoaded'
  <2>1. form \in Forms
    BY <1>8, OpenForm DEF Confirm, Closed
  <2>2. form' \in Forms
    BY <1>8, <2>1 DEF Confirm, Forms
  <2> QED BY <1>8, <2>2 DEF Confirm, TypeOK, OfferedAsLoaded
<1>9. ASSUME NEW b \in 1 .. MaxButtons, NEW ign \in BOOLEAN, SaveNew(b, ign)
      PROVE  TypeOK' /\ OfferedAsLoaded'
  <2>1. form \in Forms /\ form.page \in Page /\ form.kind \in Kinds
    BY <1>9, OpenForm DEF SaveNew, Closed
  <2> DEFINE ds == [component EXCEPT ![form.page] = Decided(form.kind, b, ign)]
  <2>2. ds \in ComponentMap
    BY <1>0, <2>1, DecidedType DEF ComponentMap
  <2>3. Updates(ds) /\ Lists({form.page}) /\ form' = Closed /\ UNCHANGED <<hardware, events>>
    BY <1>9 DEF SaveNew
  <2>4. older' \in [Page -> SUBSET Page]
    BY <2>1, <2>3, ListsType
  <2> HIDE DEF ds
  <2> QED BY <2>2, <2>3, <2>4, UpdatesFacts DEF TypeOK, ComponentMap
<1>10. ASSUME NEW b \in 1 .. MaxButtons, NEW ign \in BOOLEAN, SaveEdit(b, ign)
       PROVE  TypeOK' /\ OfferedAsLoaded'
  <2>1. form \in Forms /\ form.page \in Page /\ form.kind \in Kinds
    BY <1>10, OpenForm DEF SaveEdit, Closed
  <2> DEFINE ds == [component EXCEPT ![form.page] = Decided(form.kind, b, ign)]
  <2>2. ds \in ComponentMap
    BY <1>0, <2>1, DecidedType DEF ComponentMap
  <2>3. /\ Updates(ds) \/ UNCHANGED <<component, loaded, seen, published, made, said>>
        /\ form' = Closed /\ UNCHANGED <<older, hardware, events>>
    BY <1>10 DEF SaveEdit
  <2> HIDE DEF ds
  <2>4. CASE Updates(ds)
    BY <2>2, <2>3, <2>4, UpdatesFacts DEF TypeOK, ComponentMap
  <2>5. CASE UNCHANGED <<component, loaded, seen, published, made, said>>
    BY <2>3, <2>5 DEF TypeOK, OfferedAsLoaded
  <2> QED BY <2>3, <2>4, <2>5
<1>11. ASSUME Abandon PROVE TypeOK' /\ OfferedAsLoaded'
  BY <1>11 DEF Abandon, TypeOK, OfferedAsLoaded
<1>12. ASSUME NEW p \in Page, Delete(p) PROVE TypeOK' /\ OfferedAsLoaded'
  <2> DEFINE ds == [component EXCEPT ![p] = Unlisted]
  <2>1. ds \in ComponentMap
    BY <1>0 DEF ComponentMap
  <2>2. /\ Updates(ds) /\ UNCHANGED <<form, hardware, events>>
        /\ older' = [q \in Page |-> IF q = p THEN {} ELSE older[q] \ {p}]
    BY <1>12 DEF Delete
  <2> HIDE DEF ds
  <2> QED BY <2>1, <2>2, UpdatesFacts DEF TypeOK, ComponentMap
<1>13. ASSUME Setup PROVE TypeOK' /\ OfferedAsLoaded'
  <2>1. /\ SetsUp(component) /\ said' = Unheard(said)
        /\ UNCHANGED <<older, form, hardware, events>>
    BY <1>13 DEF Setup
  <2>2. said' \in [Address -> Said]
    BY <2>1, UnheardType DEF TypeOK
  <2> QED BY <1>0, <2>1, <2>2, SetsUpFacts DEF TypeOK, ComponentMap
<1>14. CASE Unload \/ Restart
  <2>1. /\ loaded' = FALSE /\ said' = Unheard(said)
        /\ seen' = [a \in Address |-> Nothing]
        /\ made' = None
        /\ published' \in [Page -> 0 .. MaxButtons]
        /\ form' \in {form, Closed}
        /\ UNCHANGED <<component, older, hardware>> /\ Happens
    BY <1>14, ComponentsAssumption DEF Unload, Restart, None, TypeOK
  <2>2. said' \in [Address -> Said]
    BY <2>1, UnheardType DEF TypeOK
  <2>3. events' \in 0 .. MaxEvents
    BY <2>1, ComponentsAssumption DEF Happens, TypeOK
  <2> QED BY <2>1, <2>2, <2>3, NoneMade, NothingSeen DEF TypeOK, OfferedAsLoaded
<1>15. ASSUME NEW a \in Address, Swap(a) PROVE TypeOK' /\ OfferedAsLoaded'
  <2>1. /\ hardware' = [hardware EXCEPT ![a] = IF @ = "keys" THEN "screen" ELSE "keys"]
        /\ said' = [said EXCEPT ![a].heard = FALSE]
        /\ form' = IF form # Closed /\ form.page[1] = a THEN [form EXCEPT !.heard = FALSE] ELSE form
        /\ UNCHANGED <<component, older, loaded, seen, published, made>> /\ Happens
    BY <1>15 DEF Swap
  <2>2. hardware' \in [Address -> {"keys", "screen"}] /\ said' \in [Address -> Said]
    BY <2>1 DEF TypeOK, Said
  <2>3. form' \in Forms \cup {Closed}
    BY <2>1, OpenForm DEF Forms, TypeOK
  <2>4. events' \in 0 .. MaxEvents
    BY <2>1, ComponentsAssumption DEF Happens, TypeOK
  <2> QED BY <2>1, <2>2, <2>3, <2>4 DEF TypeOK, OfferedAsLoaded
<1> QED
  BY <1>1, <1>2, <1>3, <1>4, <1>5, <1>6, <1>7, <1>8, <1>9, <1>10, <1>11, <1>12, <1>13, <1>14, <1>15
  DEF Next

-----------------------------------------------------------------------------
(* The inductive invariant.                                                *)

\* A decision has a type.
DecisionsTyped == \A p \in Page : component[p].manual => component[p].kind # "unknown"

\* The observer has seen nothing that was not said.
SeenIsSaid ==
    \A a \in Address :
        /\ seen[a].kind # "unknown" => seen[a].kind \in said[a].kinds
        /\ seen[a].buttons <= said[a].most

\* A panel that said what it is since the load was seen for what it is.
HeardIsSeen ==
    \A a \in Address :
        /\ said[a].heard => loaded /\ seen[a].kind # "unknown"
                                   /\ ((seen[a].kind = "button") <=> (hardware[a] = "keys"))
        /\ seen[a].kind = "unknown" => said[a].lately = 0

\* The first page of an address was told what was seen.
FirstKnows ==
    loaded => \A a \in Address : \A p \in First(a) :
        /\ seen[a].kind # "unknown" => component[p].kind # "unknown"
        /\ component[p].kind = "button" /\ ~component[p].manual /\ seen[a].kind = "button" =>
               component[p].buttons >= seen[a].buttons

\* A form whose panel had been heard when the type was chosen asks for
\* settings only of a type the panel can be, or after a warning.
FormHonest ==
    form # Closed /\ form.step = "settings" /\ form.heard =>
        \/ form.warned \/ form.kind = "unknown"
        \/ (form.kind = "button") <=> (hardware[form.page[1]] = "keys")

\* What was learned of the traffic.
Learned == SeenIsSaid /\ HeardIsSeen /\ FirstKnows /\ NothingHeardIsMissed

IInv ==
    /\ TypeOK /\ OfferedAsLoaded
    /\ NothingBeyondEvidence /\ DecisionsTyped
    /\ Learned /\ FormHonest

\* What a load makes has learned nothing yet.
LEMMA FreshLearned ==
    ASSUME TypeOK', NEW s \in [Address -> Said], said' = Unheard(s),
           seen' = [a \in Address |-> Nothing]
    PROVE  Learned'
<1>1. ASSUME NEW a \in Address
      PROVE  /\ seen'[a].kind = "unknown" /\ seen'[a].buttons = 0
             /\ said'[a].heard = FALSE /\ said'[a].lately = 0
             /\ said'[a].most \in 0 .. MaxButtons /\ 0 <= said'[a].most
  <2>1. said'[a] = [s[a] EXCEPT !.lately = 0, !.heard = FALSE] /\ seen'[a] = Nothing
    BY DEF Unheard
  <2> QED BY <2>1, ComponentsAssumption DEF Nothing, Said
<1>2. SeenIsSaid' /\ HeardIsSeen'
  BY <1>1 DEF SeenIsSaid, HeardIsSeen
<1>3. FirstKnows'
  BY <1>1 DEF FirstKnows
<1>4. NothingHeardIsMissed'
  <2>1. ASSUME NEW p \in Page, component'[p].kind = "button" PROVE component'[p].buttons >= 0
    BY <2>1, ComponentsAssumption DEF TypeOK, Component, Unlisted
  <2> QED BY <1>1, <2>1 DEF NothingHeardIsMissed, First, Listed
<1> QED
  BY <1>2, <1>3, <1>4 DEF Learned

\* What components nobody decided have, was said.
Supported(cs, s) ==
    \A p \in Page :
        cs[p] # Unlisted /\ ~cs[p].manual /\ cs[p].kind # "unknown" =>
            cs[p].kind \in s[p[1]].kinds /\ cs[p].buttons <= s[p[1]].most

TypedDecisions(cs) == \A p \in Page : cs[p].manual => cs[p].kind # "unknown"

LEMMA SupportedMeans ==
    /\ NothingBeyondEvidence <=> Supported(component, said)
    /\ DecisionsTyped <=> TypedDecisions(component)
BY DEF NothingBeyondEvidence, Supported, DecisionsTyped, TypedDecisions, Listed

\* A load forgets what was heard, and not that it was said.
LEMMA SupportedUnheard ==
    ASSUME NEW cs, NEW s \in [Address -> Said], Supported(cs, s)
    PROVE  Supported(cs, Unheard(s))
<1>1. ASSUME NEW a \in Address PROVE Unheard(s)[a].kinds = s[a].kinds /\ Unheard(s)[a].most = s[a].most
  BY DEF Unheard, Said
<1> QED
  BY <1>1, PageAddress DEF Supported

\* A message adds to what was said.
LEMMA SaidHere ==
    ASSUME TypeOK, NEW a \in Address, NEW k \in Kinds, NEW b \in 0 .. MaxButtons
    PROVE  /\ SaidAlso(a, k, b)[a].kinds = said[a].kinds \cup {k}
           /\ SaidAlso(a, k, b)[a].most = Larger(said[a].most, b)
           /\ SaidAlso(a, k, b)[a].lately = Larger(said[a].lately, b)
           /\ SaidAlso(a, k, b)[a].heard = TRUE
<1>1. SaidAlso(a, k, b)[a] = [kinds |-> said[a].kinds \cup {k}, most |-> Larger(said[a].most, b),
                              lately |-> Larger(said[a].lately, b), heard |-> TRUE]
  BY DEF SaidAlso, TypeOK
<1> QED
  BY <1>1

LEMMA SaidElsewhere ==
    ASSUME TypeOK, NEW a \in Address, NEW k, NEW b, NEW c \in Address, c # a
    PROVE  SaidAlso(a, k, b)[c] = said[c]
BY DEF SaidAlso, TypeOK

LEMMA SaidGrows ==
    ASSUME TypeOK, NEW a \in Address, NEW k \in Kinds, NEW b \in 0 .. MaxButtons, NEW c \in Address
    PROVE  said[c].kinds \subseteq SaidAlso(a, k, b)[c].kinds /\ said[c].most <= SaidAlso(a, k, b)[c].most
<1>1. said[c].most \in 0 .. MaxButtons
  BY DEF TypeOK, Said
<1>2. CASE c = a
  <2>1. said[c].most <= Larger(said[c].most, b)
    BY <1>1, LargerFacts, ComponentsAssumption
  <2>2. /\ SaidAlso(a, k, b)[a].kinds = said[a].kinds \cup {k}
        /\ SaidAlso(a, k, b)[a].most = Larger(said[a].most, b)
    BY SaidHere, ZenonT(40)
  <2> QED BY <1>2, <2>1, <2>2
<1>3. CASE c # a
  BY <1>1, <1>3, SaidElsewhere, ComponentsAssumption
<1> QED
  BY <1>2, <1>3

\* What a message makes of the components is what was said.
LEMMA MessageSupported ==
    ASSUME TypeOK, NothingBeyondEvidence, DecisionsTyped, SeenIsSaid,
           NEW a \in Address, NEW k \in Kinds, k # "unknown", NEW b \in 0 .. MaxButtons,
           (k = "button") <=> (b > 0)
    PROVE  /\ Supported(AfterLearning(a, Observe(seen[a], k, b)), SaidAlso(a, k, b))
           /\ TypedDecisions(AfterLearning(a, Observe(seen[a], k, b)))
           /\ Observe(seen[a], k, b).buttons <= SaidAlso(a, k, b)[a].most
<1> DEFINE o == Observe(seen[a], k, b)
           cs == AfterLearning(a, o)
           s == SaidAlso(a, k, b)
<1>0. k \in Kinds \ {"unknown"}
  OBVIOUS
<1>1. /\ \A c \in Address : said[c].kinds \subseteq s[c].kinds /\ said[c].most <= s[c].most
      /\ k \in s[a].kinds /\ s[a].most = Larger(said[a].most, b)
      /\ s \in [Address -> Said]
  <2>1. k \in s[a].kinds /\ s[a].most = Larger(said[a].most, b)
    <3>1. s[a].kinds = said[a].kinds \cup {k} /\ s[a].most = Larger(said[a].most, b)
      BY SaidHere, ZenonT(40)
    <3> QED BY <3>1
  <2>2. s \in [Address -> Said]
    BY SaidAlsoType
  <2>3. \A c \in Address : said[c].kinds \subseteq s[c].kinds /\ said[c].most <= s[c].most
    BY SaidGrows
  <2> QED BY <2>1, <2>2, <2>3
<1>2. seen[a] \in Observation /\ seen[a].buttons \in 0 .. MaxButtons /\ seen[a].buttons <= said[a].most
  BY DEF TypeOK, Observation, SeenIsSaid
<1>3. o \in Evidence /\ o.kind = k /\ o.buttons <= Larger(seen[a].buttons, b)
  BY <1>0, <1>2, ObserveFacts
<1>4. o.buttons <= s[a].most
  <2>1. said[a].most \in 0 .. MaxButtons /\ o.buttons \in 0 .. MaxButtons
    BY <1>3 DEF TypeOK, Said, Evidence, Observation
  <2> HIDE DEF o, s
  <2> QED BY <1>1, <1>2, <1>3, <2>1, ComponentsAssumption DEF Larger
<1> HIDE DEF o, s
<1>5. ASSUME NEW p \in Page
      PROVE  /\ cs[p] # Unlisted /\ ~cs[p].manual /\ cs[p].kind # "unknown" =>
                    cs[p].kind \in s[p[1]].kinds /\ cs[p].buttons <= s[p[1]].most
             /\ cs[p].manual => cs[p].kind # "unknown"
  <2>1. component[p] \in Component \cup {Unlisted} /\ p[1] \in Address
    BY PageAddress DEF TypeOK
  <2>2. /\ said[p[1]].most \in 0 .. MaxButtons /\ s[p[1]].most \in 0 .. MaxButtons
        /\ said[p[1]].most <= s[p[1]].most /\ said[p[1]].kinds \subseteq s[p[1]].kinds
    BY <1>1, <2>1 DEF TypeOK, Said
  <2>3. component[p] # Unlisted /\ ~component[p].manual /\ component[p].kind # "unknown" =>
            component[p].kind \in s[p[1]].kinds /\ component[p].buttons <= s[p[1]].most
    <3>1. component[p].buttons \in 0 .. MaxButtons
      BY <2>1, ComponentsAssumption DEF Component, Unlisted
    <3>2. component[p] # Unlisted /\ ~component[p].manual /\ component[p].kind # "unknown" =>
              component[p].kind \in said[p[1]].kinds /\ component[p].buttons <= said[p[1]].most
      BY DEF NothingBeyondEvidence, Listed
    <3> QED BY <2>2, <3>1, <3>2, ComponentsAssumption
  <2>4. CASE o # seen[a] /\ p \in First(a)
    <3>1. component[p] \in Component /\ p[1] = a /\ cs[p] = Informed(component[p], o)
      BY <2>1, <2>4 DEF First, Listed, PagesOf, AfterLearning
    <3>2. CASE component[p].manual
      <4>1. cs[p] = component[p]
        BY <3>1, <3>2 DEF Informed
      <4> QED BY <3>2, <4>1 DEF DecisionsTyped
    <3>3. CASE ~component[p].manual
      <4>1. /\ cs[p].kind \in {component[p].kind, o.kind} /\ cs[p].manual = component[p].manual
            /\ cs[p].buttons \in {component[p].buttons, o.buttons}
        BY <1>3, <3>1, <3>3, InformedFacts DEF Grown
      <4>2. CASE component[p].kind = "unknown"
        <5>1. component[p].buttons = 0
          BY <3>1, <4>2, ComponentsAssumption DEF Component, Valid
        <5>2. 0 <= s[p[1]].most
          BY <2>2, ComponentsAssumption
        <5> QED BY <1>1, <1>3, <1>4, <3>1, <3>3, <4>1, <4>2, <5>1, <5>2
      <4>3. CASE component[p].kind # "unknown"
        <5>1. component[p] # Unlisted
          BY <3>1 DEF Component, Unlisted, Kinds
        <5> QED BY <1>1, <1>3, <1>4, <2>3, <3>1, <3>3, <4>1, <4>3, <5>1
      <4> QED BY <4>2, <4>3
    <3> QED BY <3>2, <3>3
  <2>5. CASE ~(o # seen[a] /\ p \in First(a))
    <3>1. cs[p] = component[p]
      BY <2>5 DEF AfterLearning
    <3> QED BY <2>3, <3>1 DEF DecisionsTyped
  <2> QED BY <2>4, <2>5
<1>6. Supported(cs, s) /\ TypedDecisions(cs)
  <2> HIDE DEF cs
  <2> QED BY <1>5 DEF Supported, TypedDecisions
<1> QED
  BY <1>4, <1>6 DEF o, s

\* A message in place: what it says is seen, and told to the first page.
LEMMA MessageLearned ==
    ASSUME TypeOK, DecisionsTyped, Learned, TypeOK',
           NEW a \in Address, NEW k \in Kinds, k # "unknown", NEW b \in 0 .. MaxButtons,
           (k = "button") <=> (b > 0), (k = "button") <=> (hardware[a] = "keys"),
           loaded, seen' = [seen EXCEPT ![a] = Observe(seen[a], k, b)],
           component' = AfterLearning(a, Observe(seen[a], k, b)),
           said' = SaidAlso(a, k, b), UNCHANGED <<older, loaded, hardware>>,
           Observe(seen[a], k, b).buttons <= SaidAlso(a, k, b)[a].most
    PROVE  Learned'
<1> DEFINE o == Observe(seen[a], k, b)
<1>1. /\ \A c \in Address : c # a => said'[c] = said[c]
      /\ k \in said'[a].kinds /\ said'[a].heard
      /\ said'[a].lately = Larger(said[a].lately, b)
      /\ o.buttons <= said'[a].most
  <2>2. \A c \in Address : c # a => said'[c] = said[c]
    BY SaidElsewhere
  <2>3. k \in said'[a].kinds /\ said'[a].heard /\ said'[a].lately = Larger(said[a].lately, b)
    <3>1. /\ said'[a].kinds = said[a].kinds \cup {k} /\ said'[a].heard = TRUE
          /\ said'[a].lately = Larger(said[a].lately, b)
      BY SaidHere
    <3> QED BY <3>1
  <2> QED BY <2>2, <2>3
<1>2. o \in Evidence /\ o.kind = k /\ o.buttons >= b /\ o.buttons \in 0 .. MaxButtons
  <2>1. k \in Kinds \ {"unknown"} /\ seen[a] \in Observation
    BY DEF TypeOK
  <2> QED BY <2>1, ObserveFacts DEF Evidence, Observation
<1>3. seen'[a] = o /\ \A c \in Address \ {a} : seen'[c] = seen[c]
  BY DEF TypeOK
<1>4. component' = AfterLearning(a, o) /\ k # "unknown"
  OBVIOUS
<1> HIDE DEF o
<1>5. SeenIsSaid'
  <2>1. ASSUME NEW c \in Address
        PROVE  /\ seen'[c].kind # "unknown" => seen'[c].kind \in said'[c].kinds
               /\ seen'[c].buttons <= said'[c].most
    <3>1. CASE c = a
      BY <1>1, <1>2, <1>3, <3>1
    <3>2. CASE c # a
      <4>1. seen'[c] = seen[c] /\ said'[c] = said[c]
        BY <1>1, <1>3, <3>2
      <4> QED BY <4>1 DEF Learned, SeenIsSaid
    <3> QED BY <3>1, <3>2
  <2> QED BY <2>1 DEF SeenIsSaid
<1>6. HeardIsSeen'
  <2>1. ASSUME NEW c \in Address
        PROVE  /\ said'[c].heard => /\ loaded' /\ seen'[c].kind # "unknown"
                                    /\ ((seen'[c].kind = "button") <=> (hardware'[c] = "keys"))
               /\ seen'[c].kind = "unknown" => said'[c].lately = 0
    <3>1. CASE c = a
      BY <1>2, <1>3, <1>4, <3>1
    <3>2. CASE c # a
      <4>1. seen'[c] = seen[c] /\ said'[c] = said[c] /\ hardware'[c] = hardware[c] /\ loaded'
        BY <1>1, <1>3, <3>2
      <4> QED BY <4>1 DEF Learned, HeardIsSeen
    <3> QED BY <3>1, <3>2
  <2> QED BY <2>1 DEF HeardIsSeen
<1>7. ASSUME NEW c \in Address, NEW p \in First(c)' 
      PROVE  p \in First(c) /\ p \in Page /\ component[p] \in Component /\ p[1] = c
  <2>1. p \in Page /\ p[1] = c /\ component'[p] # Unlisted /\ older[p] = {}
    BY DEF First, Listed, PagesOf
  <2>2. component[p] # Unlisted
    BY <1>4, <2>1 DEF AfterLearning, First, Listed
  <2> QED BY <2>1, <2>2 DEF First, Listed, PagesOf, TypeOK
<1>8. ASSUME NEW c \in Address, NEW p \in First(c)', c # a
      PROVE  component'[p] = component[p]
  BY <1>4, <1>7, <1>8 DEF AfterLearning, First, PagesOf
<1>9. ASSUME NEW p \in First(a)'
      PROVE  /\ component'[p].kind # "unknown"
             /\ component'[p].kind = "button" /\ ~component'[p].manual =>
                    /\ component'[p].buttons >= said'[a].lately
                    /\ o.kind = "button" => component'[p].buttons >= o.buttons
  <2>1. p \in First(a) /\ p \in Page /\ component[p] \in Component
    BY <1>7
  <2>2. /\ seen[a].kind # "unknown" => component[p].kind # "unknown"
        /\ component[p].kind = "button" /\ ~component[p].manual /\ seen[a].kind = "button" =>
               component[p].buttons >= seen[a].buttons
        /\ component[p].kind = "button" /\ ~component[p].manual => component[p].buttons >= said[a].lately
    BY <2>1 DEF Learned, FirstKnows, NothingHeardIsMissed
  <2>3. component[p].buttons \in 0 .. MaxButtons /\ said[a].lately \in 0 .. MaxButtons
    BY <2>1 DEF Component, TypeOK, Said
  <2>4. CASE o = seen[a]
    <3>1. component'[p] = component[p]
      BY <1>4, <2>1, <2>4 DEF AfterLearning
    <3>2. CASE b = 0
      <4>1. said'[a].lately = said[a].lately
        BY <1>1, <2>3, <3>2, ComponentsAssumption DEF Larger
      <4> QED BY <1>2, <2>2, <2>4, <3>1, <4>1
    <3>3. CASE b # 0
      <4>1. k = "button"
        BY <3>3, ComponentsAssumption
      <4>2. component[p].kind = "button" /\ ~component[p].manual => component[p].buttons >= b
        BY <1>2, <2>2, <2>3, <2>4, <4>1, ComponentsAssumption
      <4> QED BY <1>1, <1>2, <2>2, <2>3, <2>4, <3>1, <4>1, <4>2, ComponentsAssumption DEF Larger
    <3> QED BY <3>2, <3>3
  <2>5. CASE o # seen[a]
    <3>1. component'[p] = Informed(component[p], o)
      BY <1>4, <2>1, <2>5 DEF AfterLearning
    <3>2. CASE component[p].manual
      <4>1. component'[p] = component[p]
        BY <2>1, <3>1, <3>2 DEF Informed
      <4>2. component[p].kind # "unknown"
        BY <2>1, <3>2 DEF DecisionsTyped
      <4> QED BY <3>2, <4>1, <4>2
    <3>3. CASE ~component[p].manual /\ component[p].kind = "unknown"
      <4>1. seen[a].kind = "unknown" /\ said[a].lately = 0
        BY <2>2, <3>3 DEF Learned, HeardIsSeen
      <4>2. component'[p].kind = o.kind /\ component'[p].buttons = o.buttons
        BY <2>1, <3>1, <3>3 DEF Informed, Component
      <4>3. said'[a].lately = b
        BY <1>1, <4>1, ComponentsAssumption DEF Larger
      <4>4. o.buttons >= o.buttons
        BY <1>2, ComponentsAssumption
      <4> QED BY <1>2, <1>4, <4>2, <4>3, <4>4
    <3>4. CASE ~component[p].manual /\ component[p].kind = "button"
      <4>1. /\ component'[p].kind = "button" /\ component'[p].buttons = Larger(component[p].buttons, o.buttons)
        BY <2>1, <3>1, <3>4 DEF Informed, Component
      <4>2. component[p].buttons >= said[a].lately
        BY <2>2, <3>4
      <4> QED BY <1>1, <1>2, <2>3, <4>1, <4>2, ComponentsAssumption DEF Larger
    <3>5. CASE ~component[p].manual /\ component[p].kind \notin {"unknown", "button"}
      BY <2>1, <3>1, <3>5 DEF Informed
    <3> QED BY <3>2, <3>3, <3>4, <3>5
  <2> QED BY <2>4, <2>5
<1>10. FirstKnows'
  BY <1>3, <1>7, <1>8, <1>9 DEF FirstKnows, Learned
<1>11. NothingHeardIsMissed'
  <2>1. ASSUME NEW c \in Address, NEW p \in First(c)'
        PROVE  /\ component'[p].kind = "unknown" => ~said'[c].heard
               /\ component'[p].kind = "button" /\ ~component'[p].manual =>
                      component'[p].buttons >= said'[c].lately
    <3>1. CASE c = a
      BY <1>9, <3>1
    <3>2. CASE c # a
      <4>1. component'[p] = component[p] /\ said'[c] = said[c] /\ p \in First(c)
        BY <1>1, <1>7, <1>8, <3>2
      <4> QED BY <4>1 DEF NothingHeardIsMissed, Learned
    <3> QED BY <3>1, <3>2
  <2> QED BY <2>1 DEF NothingHeardIsMissed
<1> QED
  BY <1>5, <1>6, <1>10, <1>11 DEF Learned

\* An update leaves nothing that was learned, or is of an entry that is not
\* loaded and learns nothing.
LEMMA UpdatesLearned ==
    ASSUME TypeOK, Learned, TypeOK', NEW cs, Updates(cs), UNCHANGED hardware
    PROVE  Learned'
<1>1. CASE loaded
  <2>1. seen' = [a \in Address |-> Nothing] /\ said' = Unheard(said) /\ said \in [Address -> Said]
    BY <1>1 DEF Updates, SetsUp, TypeOK
  <2> QED BY <2>1, FreshLearned
<1>2. CASE ~loaded
  <2>1. UNCHANGED <<loaded, seen, said>>
    BY <1>2 DEF Updates
  <2>2. SeenIsSaid' /\ HeardIsSeen'
    BY <2>1 DEF Learned, SeenIsSaid, HeardIsSeen
  <2>3. FirstKnows' /\ NothingHeardIsMissed'
    BY <1>2, <2>1 DEF FirstKnows, NothingHeardIsMissed
  <2> QED BY <2>2, <2>3 DEF Learned
<1> QED
  BY <1>1, <1>2

LEMMA UpdatesSupported ==
    ASSUME TypeOK, NEW cs, Updates(cs), Supported(cs, said), TypedDecisions(cs)
    PROVE  NothingBeyondEvidence' /\ DecisionsTyped'
<1>1. component' = cs /\ (said' = said \/ said' = Unheard(said)) /\ said \in [Address -> Said]
  BY DEF Updates, SetsUp, TypeOK
<1>2. Supported(cs, Unheard(said))
  BY <1>1, SupportedUnheard
<1>3. Supported(component', said') /\ TypedDecisions(component')
  BY <1>1, <1>2
<1> QED
  BY <1>3 DEF NothingBeyondEvidence, Supported, DecisionsTyped, TypedDecisions, Listed

\* A page more of these components, decided or of a type that was said.
LEMMA OneMore ==
    ASSUME NEW cs \in ComponentMap, NEW s, NEW p \in Page, NEW c,
           Supported(cs, s), TypedDecisions(cs),
           c.manual => c.kind # "unknown",
           c # Unlisted /\ ~c.manual /\ c.kind # "unknown" =>
               c.kind \in s[p[1]].kinds /\ c.buttons <= s[p[1]].most
    PROVE  Supported([cs EXCEPT ![p] = c], s) /\ TypedDecisions([cs EXCEPT ![p] = c])
BY DEF Supported, TypedDecisions, ComponentMap

\* A discovered page of a type its address has named.
LEMMA DiscoveredSupported ==
    ASSUME NEW s \in [Address -> Said], NEW p \in Page, NEW k,
           k # "unknown" => k \in s[p[1]].kinds
    PROVE  LET c == Discovered(k)
           IN  /\ c.manual => c.kind # "unknown"
               /\ c # Unlisted /\ ~c.manual /\ c.kind # "unknown" =>
                      c.kind \in s[p[1]].kinds /\ c.buttons <= s[p[1]].most
<1>1. s[p[1]].most \in 0 .. MaxButtons
  BY PageAddress DEF Said
<1>2. 0 <= s[p[1]].most
  BY <1>1, ComponentsAssumption
<1> QED
  BY <1>2 DEF Discovered

LEMMA DecidedSupported ==
    ASSUME NEW s, NEW p, NEW k \in Kinds, NEW b, NEW ign
    PROVE  LET c == Decided(k, b, ign)
           IN  /\ c.manual => c.kind # "unknown"
               /\ c # Unlisted /\ ~c.manual /\ c.kind # "unknown" =>
                      c.kind \in s[p[1]].kinds /\ c.buttons <= s[p[1]].most
BY DEF Decided

\* What was said and seen, of every step.
LEMMA EvidenceStep ==
    ASSUME IInv, TypeOK', Next
    PROVE  NothingBeyondEvidence' /\ DecisionsTyped' /\ Learned'
<1> DEFINE Goal == NothingBeyondEvidence' /\ DecisionsTyped' /\ Learned'
<1>a. /\ TypeOK /\ NothingBeyondEvidence /\ DecisionsTyped /\ Learned /\ SeenIsSaid
      /\ component \in ComponentMap /\ said \in [Address -> Said]
      /\ Supported(component, said) /\ TypedDecisions(component)
  BY SupportedMeans DEF IInv, TypeOK, ComponentMap, Learned
<1>b. ASSUME Supported(component', said'), TypedDecisions(component')
      PROVE  NothingBeyondEvidence' /\ DecisionsTyped'
  BY <1>b DEF NothingBeyondEvidence, Supported, DecisionsTyped, TypedDecisions, Listed
<1>c. ASSUME UNCHANGED <<component, older, loaded, seen, hardware, said>> PROVE Goal
  BY <1>a, <1>c DEF NothingBeyondEvidence, DecisionsTyped, Listed, Learned, SeenIsSaid, HeardIsSeen,
                    FirstKnows, NothingHeardIsMissed, First
<1>d. ASSUME NEW cs, NEW s \in [Address -> Said], component' = cs, said' = Unheard(s),
             seen' = [a \in Address |-> Nothing], Supported(cs, s), TypedDecisions(cs)
      PROVE  Goal
  <2>1. Learned'
    BY <1>d, FreshLearned
  <2>2. Supported(component', said') /\ TypedDecisions(component')
    BY <1>d, SupportedUnheard
  <2> QED BY <1>b, <2>1, <2>2
<1>1. ASSUME NEW a \in Address, NEW b \in 0 .. MaxButtons + 1, Press(a, b) PROVE Goal
  <2>1. CASE IsEvidence(b)
    <3>1. /\ b \in 0 .. MaxButtons /\ b > 0 /\ "button" \in Kinds /\ "button" # "unknown"
          /\ hardware[a] = "keys" /\ loaded
      BY <1>1, <2>1, ComponentsAssumption DEF IsEvidence, Kinds, Press
    <3>2. /\ seen' = [seen EXCEPT ![a] = Observe(seen[a], "button", b)]
          /\ component' = AfterLearning(a, Observe(seen[a], "button", b))
          /\ said' = SaidAlso(a, "button", b) /\ UNCHANGED <<older, loaded, hardware>>
      BY <1>1, <2>1 DEF Press, Apply
    <3>3. /\ Supported(component', said') /\ TypedDecisions(component')
          /\ Observe(seen[a], "button", b).buttons <= SaidAlso(a, "button", b)[a].most
      BY <1>a, <3>1, <3>2, MessageSupported
    <3>4. Learned'
      BY <1>a, <3>1, <3>2, <3>3, MessageLearned
    <3> QED BY <1>b, <3>3, <3>4
  <2>2. CASE ~IsEvidence(b)
    BY <1>1, <1>c, <2>2 DEF Press
  <2> QED BY <2>1, <2>2
<1>2. ASSUME NEW p \in Page, NEW k \in Kinds, NEW r \in Roles, Touch(p, k, r) PROVE Goal
  <2> DEFINE cs == AfterLearning(p[1], Observe(seen[p[1]], k, 0))
             s == SaidAlso(p[1], k, 0)
  <2>0. /\ p[1] \in Address /\ k # "unknown" /\ k # "button" /\ 0 \in 0 .. MaxButtons /\ ~(0 > 0)
        /\ loaded /\ hardware[p[1]] # "keys"
    BY <1>2, PageAddress, ComponentsAssumption DEF Touch, Screen
  <2>1. /\ Supported(cs, s) /\ TypedDecisions(cs)
        /\ Observe(seen[p[1]], k, 0).buttons <= s[p[1]].most
    BY <1>a, <2>0, MessageSupported
  <2>2. cs \in ComponentMap
    <3>1. Observe(seen[p[1]], k, 0) \in Evidence
      BY <1>a, <2>0, Taught
    <3> QED BY <1>a, <2>0, <3>1, LearnedFacts
  <2>3. s \in [Address -> Said] /\ k \in s[p[1]].kinds
    <3>1. ASSUME NEW a \in Address PROVE SaidAlso(a, k, 0)[a].kinds = said[a].kinds \cup {k}
      <4>1. TypeOK /\ k \in Kinds /\ 0 \in 0 .. MaxButtons
        BY <1>a, <2>0
      <4> QED BY <4>1, SaidHere
    <3>2. s[p[1]].kinds = said[p[1]].kinds \cup {k}
      BY <2>0, <3>1, ZenonT(40)
    <3> QED BY <1>a, <2>0, <3>2, SaidAlsoType
  <2>4. CASE Adoptable(p)
    <3>1. /\ component' = [cs EXCEPT ![p] = Discovered(KindOf(r))]
          /\ seen' = [a \in Address |-> Nothing] /\ said' = Unheard(s)
      BY <1>2, <2>4 DEF Touch, SetsUp
    <3>2. KindOf(r) # "unknown" => KindOf(r) \in s[p[1]].kinds
      <4>1. KindOf(r) \in {k, "unknown"}
        BY <1>2 DEF Touch, RolesOf, KindOf, Screen, Roles
      <4> QED BY <2>3, <4>1
    <3> HIDE DEF cs, s
    <3>3. Supported(component', s) /\ TypedDecisions(component')
      <4> DEFINE c == Discovered(KindOf(r))
      <4>1. /\ c.manual => c.kind # "unknown"
            /\ c # Unlisted /\ ~c.manual /\ c.kind # "unknown" =>
                   c.kind \in s[p[1]].kinds /\ c.buttons <= s[p[1]].most
        BY <2>3, <3>2, DiscoveredSupported
      <4> HIDE DEF c
      <4>2. Supported([cs EXCEPT ![p] = c], s) /\ TypedDecisions([cs EXCEPT ![p] = c])
        BY <2>1, <2>2, <4>1, OneMore
      <4> QED BY <3>1, <4>2 DEF c
    <3> QED BY <1>d, <2>3, <3>1, <3>3
  <2>5. CASE ~Adoptable(p)
    <3>1. /\ seen' = [seen EXCEPT ![p[1]] = Observe(seen[p[1]], k, 0)]
          /\ component' = cs /\ said' = s /\ UNCHANGED <<older, loaded, hardware>>
      BY <1>2, <2>5 DEF Touch, Apply
    <3>2. Learned'
      BY <1>a, <2>0, <2>1, <3>1, MessageLearned
    <3> QED BY <1>b, <2>1, <3>1, <3>2
  <2> QED BY <2>4, <2>5
<1>3. ASSUME NEW p \in Page, NEW k \in Kinds, NEW r \in Roles, Poll(p, k, r) PROVE Goal
  <2> DEFINE s == [said EXCEPT ![p[1]].kinds = @ \cup {k}]
             c == Discovered(KindOf(r))
  <2>1. /\ component' = [component EXCEPT ![p] = c]
        /\ seen' = [a \in Address |-> Nothing] /\ said' = Unheard(s)
    BY <1>3 DEF Poll, SetsUp
  <2>2. KindOf(r) = k
    BY <1>3 DEF Poll, RolesOf, KindOf, Screen, Roles
  <2>3. /\ s \in [Address -> Said] /\ k \in s[p[1]].kinds
        /\ \A a \in Address : said[a].kinds \subseteq s[a].kinds /\ said[a].most = s[a].most
    BY <1>a, PageAddress DEF Said
  <2> HIDE DEF s
  <2>4. Supported(component, s)
    BY <1>a, <2>3, PageAddress DEF Supported
  <2>5. /\ c.manual => c.kind # "unknown"
        /\ c # Unlisted /\ ~c.manual /\ c.kind # "unknown" =>
               c.kind \in s[p[1]].kinds /\ c.buttons <= s[p[1]].most
    BY <2>2, <2>3, DiscoveredSupported
  <2> HIDE DEF c
  <2>6. Supported(component', s) /\ TypedDecisions(component')
    BY <1>a, <2>1, <2>4, <2>5, OneMore
  <2> QED BY <1>d, <2>1, <2>3, <2>6
<1>4. ASSUME NEW S \in SUBSET Address, Heartbeat(S) PROVE Goal
  <2> DEFINE new == {<<a, 1>> : a \in {b \in S : Listed \cap PagesOf(b) = {}}}
  <2>1. /\ component' = [p \in Page |-> IF p \in new THEN Discovered("unknown") ELSE component[p]]
        /\ seen' = [a \in Address |-> Nothing] /\ said' = Unheard(said)
    BY <1>4 DEF Heartbeat, SetsUp
  <2> HIDE DEF new
  <2>2. \A p \in Page : component'[p] = component[p] \/ component'[p] = Discovered("unknown")
    BY <2>1
  <2>3. Discovered("unknown").kind = "unknown" /\ Discovered("unknown").manual = FALSE
    BY DEF Discovered
  <2>4. Supported(component', said) /\ TypedDecisions(component')
    BY <1>a, <2>2, <2>3 DEF Supported, TypedDecisions
  <2> QED BY <1>a, <1>d, <2>1, <2>4
<1>5. ASSUME NEW p \in Page, OpenNew(p) \/ OpenEdit(p) PROVE Goal
  BY <1>5, <1>c DEF OpenNew, OpenEdit
<1>6. ASSUME NEW k \in Kinds, Choose(k) PROVE Goal
  BY <1>6, <1>c DEF Choose
<1>7. CASE Confirm \/ Abandon
  BY <1>7, <1>c DEF Confirm, Abandon
<1>8. ASSUME NEW b \in 1 .. MaxButtons, NEW ign \in BOOLEAN, SaveNew(b, ign) \/ SaveEdit(b, ign)
      PROVE  Goal
  <2> DEFINE c == Decided(form.kind, b, ign)
             cs == [component EXCEPT ![form.page] = c]
  <2>1. form.page \in Page /\ form.kind \in Kinds
    BY <1>8, <1>a, OpenForm DEF SaveNew, SaveEdit, Closed
  <2>2. /\ Updates(cs) \/ UNCHANGED <<component, older, loaded, seen, hardware, said>>
        /\ UNCHANGED hardware
    BY <1>8 DEF SaveNew, SaveEdit
  <2>3. Supported(cs, said) /\ TypedDecisions(cs)
    <3>1. /\ c.manual => c.kind # "unknown"
          /\ c # Unlisted /\ ~c.manual /\ c.kind # "unknown" =>
                 c.kind \in said[form.page[1]].kinds /\ c.buttons <= said[form.page[1]].most
      BY <2>1, DecidedSupported
    <3> HIDE DEF c
    <3> QED BY <1>a, <2>1, <3>1, OneMore
  <2> HIDE DEF cs
  <2>4. CASE Updates(cs)
    BY <1>a, <2>2, <2>3, <2>4, UpdatesLearned, UpdatesSupported
  <2>5. CASE UNCHANGED <<component, older, loaded, seen, hardware, said>>
    BY <1>c, <2>5
  <2> QED BY <2>2, <2>4, <2>5
<1>9. ASSUME NEW p \in Page, Delete(p) PROVE Goal
  <2> DEFINE cs == [component EXCEPT ![p] = Unlisted]
  <2>1. Updates(cs) /\ UNCHANGED hardware
    BY <1>9 DEF Delete
  <2>2. Unlisted.manual = FALSE
    BY DEF Unlisted
  <2>3. Supported(cs, said) /\ TypedDecisions(cs)
    BY <1>a, <2>2, OneMore
  <2> HIDE DEF cs
  <2> QED BY <1>a, <2>1, <2>3, UpdatesLearned, UpdatesSupported
<1>10. CASE Setup \/ Unload \/ Restart
  <2>1. /\ component' = component /\ said' = Unheard(said)
        /\ seen' = [a \in Address |-> Nothing]
    BY <1>10 DEF Setup, Unload, Restart, SetsUp
  <2> QED BY <1>a, <1>d, <2>1
<1>11. ASSUME NEW a \in Address, Swap(a) PROVE Goal
  <2>1. /\ hardware' = [hardware EXCEPT ![a] = IF @ = "keys" THEN "screen" ELSE "keys"]
        /\ said' = [said EXCEPT ![a].heard = FALSE]
        /\ UNCHANGED <<component, older, loaded, seen>>
    BY <1>11 DEF Swap
  <2>2. ASSUME NEW c \in Address
        PROVE  /\ said'[c].kinds = said[c].kinds /\ said'[c].most = said[c].most
               /\ said'[c].lately = said[c].lately
               /\ said'[c].heard => said[c].heard /\ hardware'[c] = hardware[c]
    BY <1>a, <2>1 DEF Said, TypeOK
  <2>3. Supported(component', said') /\ TypedDecisions(component')
    BY <1>a, <2>1, <2>2, PageAddress DEF Supported
  <2>4. SeenIsSaid' /\ HeardIsSeen'
    BY <1>a, <2>1, <2>2 DEF Learned, SeenIsSaid, HeardIsSeen
  <2>5. \A c \in Address : First(c)' = First(c)
    BY <2>1 DEF First, Listed
  <2>6. FirstKnows' /\ NothingHeardIsMissed'
    BY <1>a, <2>1, <2>2, <2>5 DEF Learned, FirstKnows, NothingHeardIsMissed
  <2> QED BY <1>b, <2>3, <2>4, <2>6 DEF Learned
<1> QED
  BY <1>1, <1>2, <1>3, <1>4, <1>5, <1>6, <1>7, <1>8, <1>9, <1>10, <1>11 DEF Next

\* A type that what was seen does not contradict is one the panel can be.
LEMMA NotContradicted ==
    ASSUME NEW o \in Observation, o.kind # "unknown", NEW k \in Kinds, ~Contradicts(o, k)
    PROVE  k = "unknown" \/ ((k = "button") <=> (o.kind = "button"))
BY DEF Contradicts, Screen, Observation

\* The form, of every step.
LEMMA FormStep == ASSUME IInv, Next PROVE FormHonest'
<1>a. TypeOK /\ HeardIsSeen /\ FormHonest
  BY DEF IInv, Learned
<1>b. ASSUME form' = form \/ form' = Closed, UNCHANGED hardware PROVE FormHonest'
  BY <1>a, <1>b DEF FormHonest
<1>1. ASSUME NEW p \in Page, OpenNew(p) \/ OpenEdit(p) PROVE FormHonest'
  <2>1. form'.step = "kind"
    BY <1>1 DEF OpenNew, OpenEdit
  <2> QED BY <2>1 DEF FormHonest
<1>2. ASSUME NEW k \in Kinds, Choose(k) PROVE FormHonest'
  <2> DEFINE a == form.page[1]
             step == IF Contradicts(Observed(a), k) THEN "confirm" ELSE "settings"
  <2>1. form \in Forms /\ a \in Address
    BY <1>2, <1>a, OpenForm, PageAddress DEF Choose, Closed
  <2>2. /\ form' = [form EXCEPT !.kind = k, !.heard = said[a].heard, !.step = step]
        /\ UNCHANGED hardware
    BY <1>2 DEF Choose
  <2> HIDE DEF step
  <2>3. form'.kind = k /\ form'.heard = said[a].heard /\ form'.step = step /\ form'.page = form.page
    BY <2>1, <2>2 DEF Forms
  <2>4. ASSUME step = "settings", said[a].heard
        PROVE  k = "unknown" \/ ((k = "button") <=> (hardware[a] = "keys"))
    <3>1. /\ loaded /\ seen[a].kind # "unknown" /\ seen[a] \in Observation
          /\ (seen[a].kind = "button") <=> (hardware[a] = "keys")
      BY <1>a, <2>1, <2>4 DEF HeardIsSeen, TypeOK
    <3>2. ~Contradicts(seen[a], k)
      BY <2>4, <3>1 DEF step, Observed
    <3> HIDE DEF a
    <3> QED BY <3>1, <3>2, NotContradicted
  <2> QED BY <2>2, <2>3, <2>4 DEF FormHonest
<1>3. CASE Confirm
  <2>1. form \in Forms
    BY <1>3, <1>a, OpenForm DEF Confirm, Closed
  <2>2. form'.warned = TRUE
    BY <1>3, <2>1 DEF Confirm, Forms
  <2> QED BY <2>2 DEF FormHonest
<1>4. ASSUME NEW a \in Address, Swap(a) PROVE FormHonest'
  <2>1. /\ hardware' = [hardware EXCEPT ![a] = IF @ = "keys" THEN "screen" ELSE "keys"]
        /\ form' = IF form # Closed /\ form.page[1] = a THEN [form EXCEPT !.heard = FALSE] ELSE form
    BY <1>4 DEF Swap
  <2>2. CASE form # Closed /\ form.page[1] = a
    <3>1. form \in Forms /\ form' = [form EXCEPT !.heard = FALSE]
      BY <1>a, <2>1, <2>2, OpenForm
    <3>2. form'.heard = FALSE
      BY <3>1 DEF Forms
    <3> QED BY <3>2 DEF FormHonest
  <2>3. CASE ~(form # Closed /\ form.page[1] = a)
    <3>1. form' = form /\ (form # Closed => hardware'[form.page[1]] = hardware[form.page[1]])
      <4>1. form # Closed => form.page[1] \in Address
        BY <1>a, OpenForm, PageAddress
      <4> QED BY <1>a, <2>1, <2>3, <4>1 DEF TypeOK
    <3> QED BY <1>a, <3>1 DEF FormHonest
  <2> QED BY <2>2, <2>3
<1>5. ASSUME NEW a \in Address, NEW b \in 0 .. MaxButtons + 1, Press(a, b) PROVE FormHonest'
  BY <1>5, <1>b DEF Press
<1>6. ASSUME NEW p \in Page, NEW k \in Kinds, NEW r \in Roles, Touch(p, k, r) \/ Poll(p, k, r)
      PROVE  FormHonest'
  BY <1>6, <1>b DEF Touch, Poll
<1>7. ASSUME NEW S \in SUBSET Address, Heartbeat(S) PROVE FormHonest'
  BY <1>7, <1>b DEF Heartbeat
<1>8. ASSUME NEW b \in 1 .. MaxButtons, NEW ign \in BOOLEAN, SaveNew(b, ign) \/ SaveEdit(b, ign)
      PROVE  FormHonest'
  BY <1>8, <1>b DEF SaveNew, SaveEdit
<1>9. ASSUME NEW p \in Page, Delete(p) PROVE FormHonest'
  BY <1>9, <1>b DEF Delete
<1>10. CASE Abandon \/ Setup \/ Unload \/ Restart
  BY <1>10, <1>b DEF Abandon, Setup, Unload, Restart
<1> QED
  BY <1>1, <1>2, <1>3, <1>4, <1>5, <1>6, <1>7, <1>8, <1>9, <1>10 DEF Next

-----------------------------------------------------------------------------
(* Actions.                                                                *)

\* The page a step does not touch, or that traffic only adds to.
LEMMA AddsStep == ASSUME TypeOK, [Next]_vars PROVE
    \A p \in Listed :
        LET c == component[p]
            d == component'[p]
        IN  \/ form # Closed /\ form' = Closed /\ form.page = p
            \/ d = Unlisted
            \/ c.manual /\ d = c
            \/ /\ d.manual = c.manual /\ d.ignored = c.ignored
               /\ c.kind # "unknown" => d.kind = c.kind /\ d.buttons >= c.buttons
<1> SUFFICES ASSUME NEW p \in Listed
             PROVE  \/ form # Closed /\ form' = Closed /\ form.page = p
                    \/ component'[p] = Unlisted
                    \/ Grown(component[p], component'[p])
  <2>1. ASSUME NEW p \in Listed, Grown(component[p], component'[p])
        PROVE  /\ component'[p].manual = component[p].manual
               /\ component'[p].ignored = component[p].ignored
               /\ component[p].kind # "unknown" =>
                      component'[p].kind = component[p].kind /\ component'[p].buttons >= component[p].buttons
    BY <2>1 DEF Grown
  <2> QED BY <2>1
<1>0. p \in Page /\ component[p] \in Component /\ component \in ComponentMap
  BY DEF Listed, TypeOK, ComponentMap
<1>a. ASSUME component'[p] = component[p] PROVE Grown(component[p], component'[p])
  <2>1. component[p].buttons >= component[p].buttons
    BY <1>0, ComponentsAssumption DEF Component
  <2> QED BY <1>a, <2>1 DEF Grown
<1>1. ASSUME NEW a \in Address, NEW b \in 0 .. MaxButtons + 1, Press(a, b)
      PROVE  Grown(component[p], component'[p])
  <2>1. CASE IsEvidence(b)
    <3>1. b \in 0 .. MaxButtons /\ b > 0 /\ "button" \in Kinds \ {"unknown"}
      BY <2>1, ComponentsAssumption DEF IsEvidence, Kinds
    <3>2. Observe(seen[a], "button", b) \in Evidence
      BY <3>1, Taught
    <3>3. component' = AfterLearning(a, Observe(seen[a], "button", b))
      BY <1>1, <2>1 DEF Press, Apply
    <3> QED BY <1>0, <3>2, <3>3, LearnedFacts
  <2>2. CASE ~IsEvidence(b)
    BY <1>1, <1>a, <2>2 DEF Press
  <2> QED BY <2>1, <2>2
<1>2. ASSUME NEW q \in Page, NEW k \in Kinds, NEW r \in Roles, Touch(q, k, r)
      PROVE  Grown(component[p], component'[p])
  <2> DEFINE cs == AfterLearning(q[1], Observe(seen[q[1]], k, 0))
  <2>1. q[1] \in Address /\ k \in Kinds \ {"unknown"} /\ k # "button" /\ 0 \in 0 .. MaxButtons /\ ~(0 > 0)
    BY <1>2, PageAddress, ComponentsAssumption DEF Touch, Screen
  <2>2. Observe(seen[q[1]], k, 0) \in Evidence
    BY <2>1, Taught
  <2>3. Grown(component[p], cs[p]) /\ cs \in ComponentMap
    BY <1>0, <2>1, <2>2, LearnedFacts
  <2>4. component' = cs \/ (q # p /\ component' = [cs EXCEPT ![q] = Discovered(KindOf(r))])
    BY <1>2 DEF Touch, SetsUp, Apply, Adoptable
  <2> HIDE DEF cs
  <2>5. component'[p] = cs[p]
    BY <1>0, <2>3, <2>4 DEF ComponentMap
  <2> QED BY <2>3, <2>5
<1>3. ASSUME NEW q \in Page, NEW k \in Kinds, NEW r \in Roles, Poll(q, k, r)
      PROVE  Grown(component[p], component'[p])
  <2>1. q # p /\ component' = [component EXCEPT ![q] = Discovered(KindOf(r))]
    BY <1>3 DEF Poll, SetsUp, Adoptable
  <2> QED BY <1>0, <1>a, <2>1 DEF ComponentMap
<1>4. ASSUME NEW S \in SUBSET Address, Heartbeat(S) PROVE Grown(component[p], component'[p])
  <2> DEFINE new == {<<a, 1>> : a \in {b \in S : Listed \cap PagesOf(b) = {}}}
  <2>1. component' = [q \in Page |-> IF q \in new THEN Discovered("unknown") ELSE component[q]]
    BY <1>4 DEF Heartbeat, SetsUp
  <2>2. p \notin new
    BY <1>0 DEF PagesOf
  <2> HIDE DEF new
  <2> QED BY <1>0, <1>a, <2>1, <2>2
<1>5. ASSUME NEW q \in Page, OpenNew(q) \/ OpenEdit(q) PROVE Grown(component[p], component'[p])
  BY <1>5, <1>a DEF OpenNew, OpenEdit
<1>6. ASSUME NEW k \in Kinds, Choose(k) PROVE Grown(component[p], component'[p])
  BY <1>6, <1>a DEF Choose
<1>7. ASSUME NEW b \in 1 .. MaxButtons, NEW ign \in BOOLEAN, SaveNew(b, ign) \/ SaveEdit(b, ign)
      PROVE  \/ form # Closed /\ form' = Closed /\ form.page = p
             \/ Grown(component[p], component'[p])
  <2>1. form # Closed /\ form' = Closed
    BY <1>7 DEF SaveNew, SaveEdit, Closed
  <2>2. \/ component' = [component EXCEPT ![form.page] = Decided(form.kind, b, ign)]
        \/ component' = component
    BY <1>7 DEF SaveNew, SaveEdit, Updates, SetsUp
  <2>3. form.page = p \/ component'[p] = component[p]
    BY <1>0, <2>2 DEF ComponentMap
  <2> QED BY <1>a, <2>1, <2>3
<1>8. ASSUME NEW q \in Page, Delete(q)
      PROVE  component'[p] = Unlisted \/ Grown(component[p], component'[p])
  <2>1. component' = [component EXCEPT ![q] = Unlisted]
    BY <1>8 DEF Delete, Updates, SetsUp
  <2> QED BY <1>0, <1>a, <2>1 DEF ComponentMap
<1>9. CASE Confirm \/ Abandon \/ Setup \/ Unload \/ Restart \/ UNCHANGED vars
  BY <1>9, <1>a DEF Confirm, Abandon, Setup, Unload, Restart, SetsUp, vars
<1>10. ASSUME NEW a \in Address, Swap(a) PROVE Grown(component[p], component'[p])
  BY <1>10, <1>a DEF Swap
<1> QED
  BY <1>1, <1>2, <1>3, <1>4, <1>5, <1>6, <1>7, <1>8, <1>9, <1>10 DEF Next

-----------------------------------------------------------------------------
(* Theorems.                                                               *)

LEMMA InitIInv == Init => IInv
<1> SUFFICES ASSUME Init PROVE IInv
  OBVIOUS
<1>0. 0 \in 0 .. MaxButtons /\ 0 \in 0 .. MaxEvents /\ 0 <= 0
  BY ComponentsAssumption
<1>1. TypeOK
  <2>1. /\ component \in [Page -> Component \cup {Unlisted}] /\ older \in [Page -> SUBSET Page]
        /\ loaded \in BOOLEAN /\ seen \in [Address -> Observation]
        /\ published \in [Page -> 0 .. MaxButtons]
    BY <1>0, NothingSeen DEF Init
  <2>2. made \in [Page -> Made]
    BY NoneMade DEF Init, None
  <2>3. said \in [Address -> Said]
    BY <1>0 DEF Init, Said
  <2> QED BY <1>0, <2>1, <2>2, <2>3 DEF Init, TypeOK
<1>2. OfferedAsLoaded
  BY DEF Init, OfferedAsLoaded
<1>3. \A p \in Page : component[p] = Unlisted
  BY DEF Init
<1>4. NothingBeyondEvidence /\ DecisionsTyped
  BY <1>3 DEF NothingBeyondEvidence, DecisionsTyped, Listed, Unlisted
<1>5. SeenIsSaid /\ HeardIsSeen
  BY <1>0 DEF Init, SeenIsSaid, HeardIsSeen, Nothing
<1>6. FirstKnows /\ NothingHeardIsMissed /\ FormHonest
  BY DEF Init, FirstKnows, NothingHeardIsMissed, FormHonest
<1> QED
  BY <1>1, <1>2, <1>4, <1>5, <1>6 DEF IInv, Learned

LEMMA NextIInv == IInv /\ [Next]_vars => IInv'
<1> SUFFICES ASSUME IInv, [Next]_vars PROVE IInv'
  OBVIOUS
<1>1. CASE Next
  <2>1. TypeOK' /\ OfferedAsLoaded'
    BY <1>1, TypesStep DEF IInv
  <2>2. NothingBeyondEvidence' /\ DecisionsTyped' /\ Learned'
    BY <1>1, <2>1, EvidenceStep
  <2>3. FormHonest'
    BY <1>1, FormStep
  <2> QED BY <2>1, <2>2, <2>3 DEF IInv
<1>2. CASE UNCHANGED vars
  BY <1>2 DEF vars, IInv, TypeOK, OfferedAsLoaded, NothingBeyondEvidence, DecisionsTyped, Learned,
              SeenIsSaid, HeardIsSeen, FirstKnows, NothingHeardIsMissed, FormHonest, First, Listed
<1> QED
  BY <1>1, <1>2

\* The inductive invariant.
THEOREM Inductive == Spec => []IInv
<1>1. QED
  BY InitIInv, NextIInv, PTL DEF Spec

\* Every variable keeps its type: only keypads have buttons, and no more than
\* there are numbers, whoever says what a component is.
THEOREM TypeCorrect == Spec => []TypeOK
<1>1. IInv => TypeOK
  BY DEF IInv
<1> QED
  BY <1>1, Inductive, PTL

\* What was learned without a reload is offered as a reload would offer it
\* (__init__.py:227).
THEOREM LearnedIsOffered == Spec => []OfferedAsLoaded
<1>1. IInv => OfferedAsLoaded
  BY DEF IInv
<1> QED
  BY <1>1, Inductive, PTL

\* Nothing is guessed (learning.py:15): an undecided type was named at its
\* address.
THEOREM NothingGuessed == Spec => []NothingBeyondEvidence
<1>1. IInv => NothingBeyondEvidence
  BY DEF IInv
<1> QED
  BY <1>1, Inductive, PTL

\* What was heard since the load is in the first page of its address.
THEOREM NothingMissed == Spec => []NothingHeardIsMissed
<1>1. IInv => NothingHeardIsMissed
  BY DEF IInv, Learned
<1> QED
  BY <1>1, Inductive, PTL

\* Traffic decides once and only adds (learning.py's apply_observation);
\* only the page's own form does more.
THEOREM TrafficAdds == Spec => TrafficOnlyAdds
<1>1. TypeOK /\ [Next]_vars =>
          [\A p \in Listed :
              LET c == component[p]
                  d == component'[p]
              IN  \/ form # Closed /\ form' = Closed /\ form.page = p
                  \/ d = Unlisted
                  \/ c.manual /\ d = c
                  \/ /\ d.manual = c.manual /\ d.ignored = c.ignored
                     /\ c.kind # "unknown" => d.kind = c.kind /\ d.buttons >= c.buttons]_vars
  BY AddsStep
<1> QED
  BY <1>1, TypeCorrect, PTL DEF TrafficOnlyAdds, Spec

\* A type is saved against what its panel said only after a warning
\* (config_flow.py's async_step_confirm_type).
THEOREM WrongTypesAreWarned == Spec => WrongTypeWarned
<1>1. IInv /\ [Next]_vars =>
          [\A p \in Page :
              /\ form # Closed /\ form' = Closed /\ form.page = p
              /\ component'[p] # component[p] /\ component'[p].kind # "unknown"
              /\ (component'[p].kind = "button") # (hardware[p[1]] = "keys")
              => form.warned \/ ~form.heard]_vars
  <2> SUFFICES ASSUME IInv, [Next]_vars, NEW p \in Page,
                      form # Closed, form' = Closed, form.page = p,
                      component'[p] # component[p], component'[p].kind # "unknown",
                      (component'[p].kind = "button") # (hardware[p[1]] = "keys")
               PROVE  form.warned \/ ~form.heard
    OBVIOUS
  <2>0. component \in ComponentMap /\ FormHonest
    BY DEF IInv, TypeOK, ComponentMap
  <2>1. ASSUME NEW b \in 1 .. MaxButtons, NEW ign \in BOOLEAN, SaveNew(b, ign) \/ SaveEdit(b, ign)
        PROVE  form.warned \/ ~form.heard
    <3>1. form.step = "settings" /\ component' = [component EXCEPT ![p] = Decided(form.kind, b, ign)]
      BY <2>1 DEF SaveNew, SaveEdit, Updates, SetsUp
    <3>2. component'[p].kind = form.kind
      BY <2>0, <3>1 DEF ComponentMap, Decided
    <3> QED BY <2>0, <3>1, <3>2 DEF FormHonest
  <2>2. CASE \E b \in 1 .. MaxButtons, ign \in BOOLEAN : SaveNew(b, ign) \/ SaveEdit(b, ign)
    BY <2>1, <2>2
  <2>3. CASE Abandon \/ Restart
    BY <2>3 DEF Abandon, Restart
  <2>4. ASSUME form' = form PROVE FALSE
    BY <2>4
  <2>5. CASE \E a \in Address, b \in 0 .. MaxButtons + 1 : Press(a, b)
    BY <2>4, <2>5 DEF Press
  <2>6. CASE \E q \in Page, k \in Kinds, r \in Roles : Touch(q, k, r) \/ Poll(q, k, r)
    BY <2>4, <2>6 DEF Touch, Poll
  <2>7. CASE \E S \in SUBSET Address : Heartbeat(S)
    BY <2>4, <2>7 DEF Heartbeat
  <2>8. CASE \E q \in Page : OpenNew(q) \/ OpenEdit(q) \/ Delete(q)
    BY <2>4, <2>8 DEF OpenNew, OpenEdit, Delete, Closed
  <2>9. CASE Confirm \/ (\E k \in Kinds : Choose(k)) \/ \E a \in Address : Swap(a)
    BY <2>9 DEF Confirm, Choose, Swap
  <2>10. CASE Setup \/ Unload \/ UNCHANGED vars
    BY <2>4, <2>10 DEF Setup, Unload, vars
  <2> QED BY <2>2, <2>3, <2>5, <2>6, <2>7, <2>8, <2>9, <2>10 DEF Next
<1> QED
  BY <1>1, Inductive, PTL DEF WrongTypeWarned, Spec
=============================================================================
