----------------------------- MODULE PagesProofs -----------------------------
(***************************************************************************)
(* Proofs about Pages, for any set of pages and any bounds.                *)
(*                                                                         *)
(* The inductive invariant adds two facts to the type: a loaded page whose *)
(* subentry is still the entry's is listed, so that nothing which looks    *)
(* the subentry up revives a page; and a save is pending for the loaded    *)
(* record only while there is a runtime to hold it, so the record that     *)
(* StoreLoaded fills never overrides a save already asked for.             *)
(***************************************************************************)
EXTENDS Pages, FiniteSetTheorems, TLAPS

\* A loaded page whose subentry is still the entry's is listed and loaded.
AttachedIsListed == attached \subseteq Listed \cap Loaded

\* A record with a pending save belongs to a runtime.
DirtyIsLoaded == dirty => HasRuntime

\* Together, inductive.
IInv == TypeOK /\ AttachedIsListed /\ DirtyIsLoaded

-----------------------------------------------------------------------------
\* The pages of a step are finitely many, and some when there is one.
LEMMA PageCount ==
    ASSUME NEW S \in SUBSET Page
    PROVE  /\ Cardinality(S) \in Nat
           /\ S # {} => Cardinality(S) > 0
<1>1. IsFiniteSet(S)
  BY PageAssumption, FS_Subset
<1>2. Cardinality(S) \in Nat /\ (Cardinality(S) = 0 <=> S = {})
  BY <1>1, FS_CardinalityType, FS_EmptySet
<1> QED
  BY <1>2

\* What the update listener does, keeps the types, and asks for a reload
\* unless a learning flag was up or no listener registered.
LEMMA UpdateFacts ==
    ASSUME TypeOK, NEW n \in Nat, n > 0, RoomFor(n), EntryUpdated(n)
    PROVE  /\ queued' \in 0..MaxQueued
           /\ learning' \in BOOLEAN
           /\ phase = "loaded" /\ ~learning => queued' > 0
<1>1. queued \in Nat /\ MaxQueued \in Nat /\ queued + n <= MaxQueued
  BY BoundsAssumption DEF TypeOK, RoomFor
<1>2. CASE ListenerOn /\ learning
  <2>1. learning' = FALSE /\ queued' = queued + n - 1
    BY <1>2 DEF EntryUpdated
  <2>2. queued' \in 0..MaxQueued
    <3>1. queued' = queued + n - 1
      BY <2>1
    <3> QED BY <1>1, <3>1
  <2> QED BY <1>2, <2>1, <2>2
<1>3. CASE ListenerOn /\ ~learning
  <2>1. learning' = FALSE /\ queued' = queued + n
    BY <1>3 DEF EntryUpdated
  <2>2. queued' \in 0..MaxQueued /\ queued' > 0
    <3>1. queued' = queued + n
      BY <2>1
    <3> QED BY <1>1, <3>1
  <2> QED BY <2>1, <2>2
<1>4. CASE ~ListenerOn
  <2>1. learning' = learning /\ queued' = queued /\ phase # "loaded"
    BY <1>4 DEF EntryUpdated, ListenerOn
  <2> QED BY <2>1 DEF TypeOK
<1> QED
  BY <1>2, <1>3, <1>4

LEMMA InitIInv == Init => IInv
<1> SUFFICES ASSUME Init PROVE IInv
  OBVIOUS
<1>1. subentries \in [Page -> Data] /\ runtime \in [Page -> Data]
  BY DEF Init, Data
<1>2. leftovers \in Seq(SUBSET Page)
  BY DEF Init
<1>3. queued \in 0..MaxQueued
  BY BoundsAssumption DEF Init
<1>4. TypeOK
  BY <1>1, <1>2, <1>3 DEF Init, TypeOK
<1> QED
  BY <1>4 DEF Init, IInv, AttachedIsListed, DirtyIsLoaded

\* The types survive every step.
LEMMA NextType == TypeOK /\ [Next]_vars => TypeOK'
<1> SUFFICES ASSUME TypeOK, [Next]_vars PROVE TypeOK'
  OBVIOUS
<1>1. CASE Lifecycle
  <2>1. CASE BeginReload
    BY <2>1, BoundsAssumption DEF BeginReload, TypeOK, recordVars
  <2>2. CASE Unloaded
    <3>1. runtime' \in [Page -> Data]
      BY <2>2 DEF Unloaded, NoRuntime, Data
    <3>2. leftovers' \in Seq(SUBSET Page)
      BY <2>2 DEF Unloaded, TypeOK
    <3> QED BY <2>2, <3>1, <3>2 DEF Unloaded, NoRuntime, TypeOK
  <2>3. CASE SetupReads
    BY <2>3 DEF SetupReads, TypeOK, Listed, Data, entryVars, recordVars
  <2>4. CASE StoreLoaded
    BY <2>4 DEF StoreLoaded, TypeOK, entryVars
  <2>5. CASE SetupDone
    BY <2>5 DEF SetupDone, TypeOK, entryVars, recordVars
  <2> QED BY <1>1, <2>1, <2>2, <2>3, <2>4, <2>5 DEF Lifecycle
<1>2. CASE Flush
  BY <1>2 DEF Flush, TypeOK, entryVars
<1>3. CASE FlushLeftover
  BY <1>3 DEF FlushLeftover, TypeOK, entryVars
<1>4. CASE Restart
  <2>1. runtime' \in [Page -> Data]
    BY <1>4 DEF Restart, NoRuntime, Data
  <2>2. leftovers' \in Seq(SUBSET Page) /\ queued' \in 0..MaxQueued
    BY <1>4, BoundsAssumption DEF Restart
  <2> QED BY <1>4, <2>1, <2>2 DEF Restart, NoRuntime, TypeOK
<1>5. ASSUME NEW A \in SUBSET Addresses(Page), Report(A) PROVE TypeOK'
  <2>1. PICK added \in SUBSET Page :
           /\ added # {} /\ RoomFor(Cardinality(added))
           /\ subentries' = [p \in Page |-> IF p \in added THEN "bare" ELSE subentries[p]]
           /\ EntryUpdated(Cardinality(added))
    BY <1>5, FirstAssumption DEF Report
  <2>2. queued' \in 0..MaxQueued /\ learning' \in BOOLEAN
    BY <2>1, PageCount, UpdateFacts
  <2>3. UNCHANGED <<runtime, attached, phase, seen, recordVars, adding>>
    BY <1>5 DEF Report
  <2> QED BY <2>1, <2>2, <2>3 DEF TypeOK, Data, recordVars
<1>6. ASSUME NEW p \in Page, NEW kind \in {"bare", "learned"}, Poll(p, kind) PROVE TypeOK'
  <2>1. CASE p \in dismissed
    BY <1>6, <2>1 DEF Poll, TypeOK, entryVars, recordVars
  <2>2. CASE p \notin dismissed
    BY <1>6, <2>2, UpdateFacts DEF Poll, TypeOK, Data, recordVars
  <2> QED BY <2>1, <2>2
<1>7. ASSUME NEW S \in SUBSET Page, Group(S) PROVE TypeOK'
  <2>1. queued' \in 0..MaxQueued /\ learning' \in BOOLEAN
    BY <1>7, PageCount, UpdateFacts DEF Group
  <2> QED BY <1>7, <2>1 DEF Group, TypeOK, Data, recordVars
<1>8. ASSUME NEW p \in Page, Learn(p) PROVE TypeOK'
  BY <1>8 DEF Learn, TypeOK, Data, ListenerOn, recordVars
<1>9. ASSUME NEW p \in Page, AddBegins(p) \/ AddRefused(p) \/ Add(p) \/ AddGivenUp(p)
      PROVE  TypeOK'
  <2>1. CASE Add(p)
    <3>1. queued' \in 0..MaxQueued /\ learning' \in BOOLEAN
      BY <2>1, UpdateFacts DEF Add
    <3> QED BY <2>1, <3>1 DEF Add, Restores, TypeOK, Data
  <2>2. CASE AddRefused(p)
    BY <2>2 DEF AddRefused, Restores, TypeOK, entryVars
  <2>3. CASE AddBegins(p) \/ AddGivenUp(p)
    BY <2>3 DEF AddBegins, AddGivenUp, TypeOK, entryVars, recordVars
  <2> QED BY <1>9, <2>1, <2>2, <2>3
<1>10. ASSUME NEW p \in Page, Edit(p) PROVE TypeOK'
  <2>1. queued' \in 0..MaxQueued /\ learning' \in BOOLEAN
    BY <1>10, UpdateFacts DEF Edit
  <2> QED BY <1>10, <2>1 DEF Edit, TypeOK, Data, recordVars
<1>11. ASSUME NEW p \in Page, Delete(p) PROVE TypeOK'
  <2>1. queued' \in 0..MaxQueued /\ learning' \in BOOLEAN
    BY <1>11, UpdateFacts DEF Delete
  <2> QED BY <1>11, <2>1 DEF Delete, TypeOK, Data
<1>12. CASE UNCHANGED vars
  BY <1>12 DEF vars, TypeOK
<1> QED
  BY <1>1, <1>2, <1>3, <1>4, <1>5, <1>6, <1>7, <1>8, <1>9, <1>10, <1>11, <1>12 DEF Next

\* What can be written back stays listed.
LEMMA NextAttached == IInv /\ [Next]_vars => AttachedIsListed'
<1> SUFFICES ASSUME IInv, [Next]_vars PROVE AttachedIsListed'
  OBVIOUS
<1> USE DEF AttachedIsListed, Listed, Loaded
<1>1. CASE Lifecycle
  BY <1>1 DEF Lifecycle, BeginReload, Unloaded, NoRuntime, SetupReads, StoreLoaded,
              SetupDone, IInv, entryVars, recordVars
<1>2. CASE Flush \/ FlushLeftover
  BY <1>2 DEF Flush, FlushLeftover, IInv, entryVars
<1>3. CASE Restart
  BY <1>3 DEF Restart, NoRuntime
<1>4. ASSUME NEW A \in SUBSET Addresses(Page), Report(A) PROVE AttachedIsListed'
  <2>1. PICK added \in SUBSET Page :
           subentries' = [p \in Page |-> IF p \in added THEN "bare" ELSE subentries[p]]
    BY <1>4, FirstAssumption DEF Report
  <2> QED BY <1>4, <2>1 DEF Report, IInv
<1>5. ASSUME NEW p \in Page, NEW kind \in {"bare", "learned"}, Poll(p, kind)
      PROVE  AttachedIsListed'
  BY <1>5 DEF Poll, IInv, TypeOK, entryVars
<1>6. ASSUME NEW S \in SUBSET Page, Group(S) PROVE AttachedIsListed'
  BY <1>6 DEF Group, IInv
<1>7. ASSUME NEW p \in Page, Learn(p) PROVE AttachedIsListed'
  BY <1>7 DEF Learn, IInv, TypeOK
<1>8. ASSUME NEW p \in Page,
             AddBegins(p) \/ AddRefused(p) \/ Add(p) \/ AddGivenUp(p) \/ Edit(p)
      PROVE  AttachedIsListed'
  BY <1>8 DEF AddBegins, AddRefused, Add, AddGivenUp, Edit, IInv, TypeOK, entryVars
<1>9. ASSUME NEW p \in Page, Delete(p) PROVE AttachedIsListed'
  BY <1>9 DEF Delete, IInv, TypeOK
<1>10. CASE UNCHANGED vars
  BY <1>10 DEF vars, IInv
<1> QED
  BY <1>1, <1>2, <1>3, <1>4, <1>5, <1>6, <1>7, <1>8, <1>9, <1>10 DEF Next

\* A pending save of the loaded record never outlives its runtime.
LEMMA NextDirty == IInv /\ [Next]_vars => DirtyIsLoaded'
<1> SUFFICES ASSUME IInv, [Next]_vars PROVE DirtyIsLoaded'
  OBVIOUS
<1> USE DEF IInv, DirtyIsLoaded, HasRuntime
<1>1. CASE Lifecycle
  BY <1>1 DEF Lifecycle, BeginReload, Unloaded, NoRuntime, SetupReads, StoreLoaded,
              SetupDone, recordVars
<1>2. CASE Flush \/ FlushLeftover \/ Restart
  BY <1>2 DEF Flush, FlushLeftover, Restart, NoRuntime
<1>3. CASE \E A \in SUBSET Addresses(Page) : Report(A)
  BY <1>3 DEF Report, recordVars
<1>4. CASE \E p \in Page, kind \in {"bare", "learned"} : Poll(p, kind)
  BY <1>4 DEF Poll, recordVars
<1>5. CASE \E S \in SUBSET Page : Group(S)
  BY <1>5 DEF Group, recordVars
<1>6. CASE \E p \in Page :
             \/ Learn(p) \/ Edit(p) \/ Delete(p)
             \/ AddBegins(p) \/ AddRefused(p) \/ Add(p) \/ AddGivenUp(p)
  BY <1>6 DEF Learn, Edit, Delete, AddBegins, AddRefused, Add, AddGivenUp, Restores, recordVars
<1>7. CASE UNCHANGED vars
  BY <1>7 DEF vars
<1> QED
  BY <1>1, <1>2, <1>3, <1>4, <1>5, <1>6, <1>7 DEF Next

\* The invariant holds in every reachable state, for any set of pages.
THEOREM Inductive == Spec => []IInv
<1>1. IInv /\ [Next]_vars => IInv'
  BY NextType, NextAttached, NextDirty DEF IInv
<1> QED
  BY InitIInv, <1>1, PTL DEF Spec

\* Every variable keeps its type.
THEOREM TypeCorrect == Spec => []TypeOK
<1>1. IInv => TypeOK
  BY DEF IInv
<1> QED
  BY Inductive, <1>1, PTL

-----------------------------------------------------------------------------
\* A step that leaves the loaded entry behind falls into the setup's gap or
\* on a flag that gap left up.
LEMMA StepBehind ==
    ASSUME TypeOK, [Next]_vars, Behind', ~Behind, phase # "starting", ~learning
    PROVE  FALSE
<1>0. phase' = "loaded" /\ queued' = 0 /\ runtime' # subentries'
  BY DEF Behind
<1>1. CASE Lifecycle
  BY <1>0, <1>1 DEF Lifecycle, BeginReload, Unloaded, SetupReads, StoreLoaded, SetupDone
<1>2. CASE Flush \/ FlushLeftover
  BY <1>0, <1>2 DEF Flush, FlushLeftover, Behind, entryVars
<1>3. CASE Restart
  BY <1>0, <1>3 DEF Restart
<1>4. ASSUME NEW A \in SUBSET Addresses(Page), Report(A) PROVE FALSE
  <2>1. PICK added \in SUBSET Page :
           added # {} /\ RoomFor(Cardinality(added)) /\ EntryUpdated(Cardinality(added))
    BY <1>4, FirstAssumption DEF Report
  <2>2. phase = "loaded"
    BY <1>0, <1>4 DEF Report
  <2>3. queued' > 0
    BY <2>1, <2>2, PageCount, UpdateFacts
  <2> QED BY <1>0, <2>3
<1>5. ASSUME NEW p \in Page, NEW kind \in {"bare", "learned"}, Poll(p, kind) PROVE FALSE
  <2>1. CASE p \in dismissed
    BY <1>0, <1>5, <2>1 DEF Poll, Behind, entryVars
  <2>2. CASE p \notin dismissed
    BY <1>0, <1>5, <2>2, UpdateFacts DEF Poll
  <2> QED BY <2>1, <2>2
<1>6. ASSUME NEW S \in SUBSET Page, Group(S) PROVE FALSE
  <2>1. queued' > 0
    BY <1>0, <1>6, PageCount, UpdateFacts DEF Group
  <2> QED BY <1>0, <2>1
<1>7. ASSUME NEW p \in Page, Learn(p) PROVE FALSE
  BY <1>0, <1>7 DEF Learn, Behind, TypeOK
<1>8. ASSUME NEW p \in Page, Add(p) \/ Edit(p) \/ Delete(p) PROVE FALSE
  <2>1. phase = "loaded" /\ RoomFor(1) /\ EntryUpdated(1)
    BY <1>0, <1>8 DEF Add, Edit, Delete
  <2>2. queued' > 0
    BY <2>1, UpdateFacts
  <2> QED BY <1>0, <2>2
<1>9. ASSUME NEW p \in Page, AddBegins(p) \/ AddRefused(p) \/ AddGivenUp(p) PROVE FALSE
  BY <1>0, <1>9 DEF AddBegins, AddRefused, AddGivenUp, Behind, entryVars
<1>10. CASE UNCHANGED vars
  BY <1>0, <1>10 DEF vars, Behind
<1> QED
  BY <1>1, <1>2, <1>3, <1>4, <1>5, <1>6, <1>7, <1>8, <1>9, <1>10 DEF Next

\* The loaded entry falls behind the configured one only through an update
\* during setup, or the learning flag such a moment left up.
THEOREM BehindIsFromSetup == Spec => BehindOnlyFromSetup
<1>1. TypeOK /\ [Next]_vars => (Behind' /\ ~Behind => phase = "starting" \/ learning)
  BY StepBehind
<1> QED
  BY TypeCorrect, <1>1, PTL DEF Spec, BehindOnlyFromSetup

-----------------------------------------------------------------------------
\* With the loaded copy and the entry the same, no step of the bus changes
\* what an installer chose.
THEOREM SettledChoiceIsKept == Spec => SettledChoiceKept
<1>1. ASSUME TypeOK, [Next]_vars, Settled, NEW q \in Page, subentries[q] = "manual"
      PROVE  subentries'[q] # "learned"
  <2>1. CASE Lifecycle
    BY <1>1, <2>1 DEF Lifecycle, BeginReload, Unloaded, SetupReads, StoreLoaded, SetupDone, entryVars
  <2>2. CASE Flush \/ FlushLeftover \/ Restart
    BY <1>1, <2>2 DEF Flush, FlushLeftover, Restart, entryVars
  <2>3. ASSUME NEW A \in SUBSET Addresses(Page), Report(A) PROVE subentries'[q] # "learned"
    BY <1>1, <2>3 DEF Report
  <2>4. ASSUME NEW p \in Page, NEW kind \in {"bare", "learned"}, Poll(p, kind)
        PROVE  subentries'[q] # "learned"
    BY <1>1, <2>4 DEF Poll, Listed, TypeOK, entryVars
  <2>5. ASSUME NEW S \in SUBSET Page, Group(S) PROVE subentries'[q] # "learned"
    BY <1>1, <2>5 DEF Group, Settled
  <2>6. ASSUME NEW p \in Page, Learn(p) PROVE subentries'[q] # "learned"
    BY <1>1, <2>6 DEF Learn, Settled, TypeOK
  <2>7. ASSUME NEW p \in Page, Add(p) \/ Edit(p) \/ Delete(p) PROVE subentries'[q] # "learned"
    BY <1>1, <2>7 DEF Add, Edit, Delete, TypeOK
  <2>8. ASSUME NEW p \in Page, AddBegins(p) \/ AddRefused(p) \/ AddGivenUp(p)
        PROVE  subentries'[q] # "learned"
    BY <1>1, <2>8 DEF AddBegins, AddRefused, AddGivenUp, entryVars
  <2>9. CASE UNCHANGED vars
    BY <1>1, <2>9 DEF vars
  <2> QED
    BY <1>1, <2>1, <2>2, <2>3, <2>4, <2>5, <2>6, <2>7, <2>8, <2>9 DEF Next
<1>2. TypeOK /\ [Next]_vars
        => (Settled => \A p \in Page : subentries[p] = "manual" => subentries'[p] # "learned")
  BY <1>1
<1> QED
  BY TypeCorrect, <1>2, PTL DEF Spec, SettledChoiceKept

-----------------------------------------------------------------------------
\* A page is listed by a form, by a poll that nobody dismissed or by a
\* heartbeat of an address that is not loaded: no late write of the loaded
\* copy brings a deleted page back.
THEOREM ListedIsFound == Spec => ListedByFindingOnly
<1> DEFINE Found(p) == \/ p \in adding \ adding'
                       \/ p \in seen' \ seen /\ p \notin dismissed
                       \/ p \in First /\ AddressOf(p) \notin Addresses(Loaded)
<1>1. ASSUME IInv, [Next]_vars, NEW q \in Page, q \notin Listed, q \in Listed'
      PROVE  Found(q)
  <2>0. /\ q \notin attached
        /\ subentries[q] = "none" /\ subentries'[q] # "none"
    BY <1>1 DEF IInv, AttachedIsListed, Listed
  <2>1. CASE Lifecycle
    BY <2>0, <2>1 DEF Lifecycle, BeginReload, Unloaded, SetupReads, StoreLoaded, SetupDone, entryVars
  <2>2. CASE Flush \/ FlushLeftover \/ Restart
    BY <2>0, <2>2 DEF Flush, FlushLeftover, Restart, entryVars
  <2>3. ASSUME NEW A \in SUBSET Addresses(Page), Report(A) PROVE Found(q)
    <3>1. q \in First /\ AddressOf(q) \in A \ Addresses(Loaded)
      BY <1>1, <2>0, <2>3 DEF Report
    <3> QED BY <3>1
  <2>4. ASSUME NEW p \in Page, NEW kind \in {"bare", "learned"}, Poll(p, kind)
        PROVE  Found(q)
    <3>1. q = p /\ p \notin dismissed
      BY <1>1, <2>0, <2>4 DEF Poll, IInv, TypeOK, entryVars
    <3> QED BY <2>4, <3>1 DEF Poll
  <2>5. ASSUME NEW S \in SUBSET Page, Group(S) PROVE FALSE
    BY <1>1, <2>0, <2>5 DEF Group
  <2>6. ASSUME NEW p \in Page, Learn(p) PROVE FALSE
    BY <1>1, <2>0, <2>6 DEF Learn, IInv, TypeOK
  <2>7. ASSUME NEW p \in Page, Add(p) PROVE Found(q)
    <3>1. q = p
      BY <1>1, <2>0, <2>7 DEF Add, IInv, TypeOK
    <3> QED BY <2>7, <3>1 DEF Add
  <2>8. ASSUME NEW p \in Page, Edit(p) \/ Delete(p) PROVE FALSE
    BY <1>1, <2>0, <2>8 DEF Edit, Delete, Listed, IInv, TypeOK
  <2>9. ASSUME NEW p \in Page, AddBegins(p) \/ AddRefused(p) \/ AddGivenUp(p) PROVE FALSE
    BY <2>0, <2>9 DEF AddBegins, AddRefused, AddGivenUp, entryVars
  <2>10. CASE UNCHANGED vars
    BY <2>0, <2>10 DEF vars
  <2> QED
    BY <1>1, <2>1, <2>2, <2>3, <2>4, <2>5, <2>6, <2>7, <2>8, <2>9, <2>10 DEF Next
<1>2. IInv /\ [Next]_vars => \A p \in Page \ Listed : p \in Listed' => Found(p)
  BY <1>1
<1> QED
  BY Inductive, <1>2, PTL DEF Spec, ListedByFindingOnly

-----------------------------------------------------------------------------
\* Of the traffic, only a heartbeat lists a page the loaded record holds
\* dismissed: neither a poll nor learning nor grouping does.
THEOREM DismissedIsNotAdopted == Spec => DismissedNotAdopted
<1>1. ASSUME IInv, [Next]_vars, NEW q \in dismissed, ListedByTraffic(q)
      PROVE  q \in First /\ seen' = seen
  <2>0. /\ q \in Page /\ q \notin Listed /\ q \notin attached
        /\ subentries[q] = "none" /\ subentries'[q] \in {"bare", "learned"}
    BY <1>1 DEF IInv, TypeOK, AttachedIsListed, ListedByTraffic, Listed
  <2>1. CASE Lifecycle
    BY <2>0, <2>1 DEF Lifecycle, BeginReload, Unloaded, SetupReads, StoreLoaded, SetupDone, entryVars
  <2>2. CASE Flush \/ FlushLeftover \/ Restart
    BY <2>0, <2>2 DEF Flush, FlushLeftover, Restart, entryVars
  <2>3. ASSUME NEW A \in SUBSET Addresses(Page), Report(A) PROVE q \in First /\ seen' = seen
    BY <2>0, <2>3 DEF Report
  <2>4. ASSUME NEW p \in Page, NEW kind \in {"bare", "learned"}, Poll(p, kind) PROVE FALSE
    BY <1>1, <2>0, <2>4 DEF Poll, IInv, TypeOK, entryVars
  <2>5. ASSUME NEW S \in SUBSET Page, Group(S) PROVE FALSE
    BY <2>0, <2>5 DEF Group
  <2>6. ASSUME NEW p \in Page, Learn(p) PROVE FALSE
    BY <1>1, <2>0, <2>6 DEF Learn, IInv, TypeOK
  <2>7. ASSUME NEW p \in Page, Add(p) \/ Edit(p) \/ Delete(p) PROVE FALSE
    BY <1>1, <2>0, <2>7 DEF Add, Edit, Delete, IInv, TypeOK
  <2>8. ASSUME NEW p \in Page, AddBegins(p) \/ AddRefused(p) \/ AddGivenUp(p) PROVE FALSE
    BY <2>0, <2>8 DEF AddBegins, AddRefused, AddGivenUp, entryVars
  <2>9. CASE UNCHANGED vars
    BY <2>0, <2>9 DEF vars
  <2> QED
    BY <1>1, <2>1, <2>2, <2>3, <2>4, <2>5, <2>6, <2>7, <2>8, <2>9 DEF Next
<1>2. IInv /\ [Next]_vars => \A p \in dismissed : ListedByTraffic(p) => p \in First /\ seen' = seen
  BY <1>1
<1> QED
  BY Inductive, <1>2, PTL DEF Spec, DismissedNotAdopted

-----------------------------------------------------------------------------
\* Which dismissals a step may lose; DismissalLostOnlyToOlderRecord's body.
Excused(p) ==
    \/ Restart
    \/ p \in adding \ adding'
    \/ ~dirty /\ dirty' /\ p \notin dismissed

\* A step that leaves the record, the pending saves and the file alone leaves
\* what the file will say alone.
LEMMA SameRecord == ASSUME UNCHANGED recordVars PROVE LastWord' = LastWord
BY DEF LastWord, recordVars

\* Saving a replaced record leaves the last word where it was.
LEMMA FlushLeftoverKeeps == ASSUME TypeOK, FlushLeftover PROVE LastWord' = LastWord
<1>1. CASE dirty
  BY <1>1 DEF FlushLeftover, LastWord
<1>2. CASE ~dirty
  <2>1. /\ leftovers \in Seq(SUBSET Page) /\ leftovers # <<>>
        /\ leftovers' = Tail(leftovers) /\ disk' = Head(leftovers) /\ ~dirty'
    BY <1>2 DEF FlushLeftover, TypeOK
  <2>2. CASE Tail(leftovers) = <<>>
    <3>1. Len(Tail(leftovers)) = Len(leftovers) - 1
      BY <2>1
    <3>2. Len(Tail(leftovers)) = 0
      <4>1. Len(<< >>) = 0
        OBVIOUS
      <4> QED BY <2>2, <4>1, Zenon
    <3>3. Len(leftovers) = 1 /\ leftovers[1] = Head(leftovers)
      BY <2>1, <3>1, <3>2
    <3> QED BY <1>2, <2>1, <2>2, <3>3 DEF LastWord
  <2>3. CASE Tail(leftovers) # <<>>
    <3>1. Tail(leftovers)[Len(Tail(leftovers))] = leftovers[Len(leftovers)]
      BY <2>1, <2>3
    <3> QED BY <1>2, <2>1, <2>3, <3>1 DEF LastWord
  <2> QED BY <2>2, <2>3
<1> QED
  BY <1>1, <1>2

\* An unload hands the pending save on: the last word stays.
LEMMA UnloadedKeeps == ASSUME TypeOK, Unloaded PROVE LastWord' = LastWord
<1>1. ~dirty' /\ disk' = disk
  BY DEF Unloaded, NoRuntime
<1>2. CASE dirty
  <2>1. /\ leftovers \in Seq(SUBSET Page) /\ dismissed \in SUBSET Page
        /\ leftovers' = Append(leftovers, dismissed)
    BY <1>2 DEF Unloaded, TypeOK
  <2>2. leftovers' # <<>> /\ leftovers'[Len(leftovers')] = dismissed
    BY <2>1
  <2> QED BY <1>1, <1>2, <2>2 DEF LastWord
<1>3. CASE ~dirty
  BY <1>1, <1>3 DEF Unloaded, LastWord
<1> QED
  BY <1>2, <1>3

\* A dismissal that is on its way to the file, or in it, is lost only to a
\* crash, to adding the page back, or to a save by a record read before it.
THEOREM DismissalIsLostOnlyToOlderRecord == Spec => DismissalLostOnlyToOlderRecord
<1>1. ASSUME IInv, [Next]_vars, NEW q \in LastWord, q \notin LastWord'
      PROVE  Excused(q)
  <2>1. CASE Lifecycle
    <3>1. CASE BeginReload \/ SetupReads \/ SetupDone
      BY <1>1, <3>1, SameRecord DEF BeginReload, SetupReads, SetupDone
    <3>2. CASE Unloaded
      BY <1>1, <3>2, UnloadedKeeps DEF IInv
    <3>3. CASE StoreLoaded
      BY <1>1, <3>3 DEF StoreLoaded, IInv, DirtyIsLoaded, HasRuntime, LastWord
    <3> QED BY <2>1, <3>1, <3>2, <3>3 DEF Lifecycle
  <2>2. CASE Flush
    BY <1>1, <2>2 DEF Flush, LastWord
  <2>3. CASE FlushLeftover
    BY <1>1, <2>3, FlushLeftoverKeeps DEF IInv
  <2>4. CASE Restart
    BY <2>4 DEF Excused
  <2>5. ASSUME NEW A \in SUBSET Addresses(Page), Report(A) PROVE FALSE
    BY <1>1, <2>5, SameRecord DEF Report
  <2>6. ASSUME NEW p \in Page, NEW kind \in {"bare", "learned"}, Poll(p, kind) PROVE FALSE
    BY <1>1, <2>6, SameRecord DEF Poll
  <2>7. ASSUME NEW S \in SUBSET Page, Group(S) PROVE FALSE
    BY <1>1, <2>7, SameRecord DEF Group
  <2>8. ASSUME NEW p \in Page, Learn(p) \/ Edit(p) PROVE FALSE
    BY <1>1, <2>8, SameRecord DEF Learn, Edit
  <2>9. ASSUME NEW p \in Page, Add(p) \/ AddRefused(p) PROVE Excused(q)
    <3>1. /\ p \in adding \ adding' /\ Restores(p)
          /\ UNCHANGED <<leftovers, disk>>
      BY <2>9 DEF Add, AddRefused
    <3>2. CASE HasRuntime /\ p \in dismissed
      <4>1. dismissed' = dismissed \ {p} /\ dirty' = TRUE
        BY <3>1, <3>2 DEF Restores
      <4>2. LastWord' = dismissed \ {p}
        BY <4>1 DEF LastWord
      <4>3. CASE dirty
        <5>1. LastWord = dismissed
          BY <4>3 DEF LastWord
        <5> QED BY <1>1, <3>1, <4>2, <5>1 DEF Excused
      <4>4. CASE ~dirty
        BY <1>1, <3>1, <4>1, <4>2, <4>4 DEF Excused
      <4> QED BY <4>3, <4>4
    <3>3. CASE ~(HasRuntime /\ p \in dismissed)
      <4>1. UNCHANGED <<dismissed, dirty>>
        BY <3>1, <3>3 DEF Restores
      <4> QED BY <1>1, <3>1, <4>1, SameRecord DEF recordVars
    <3> QED BY <3>2, <3>3
  <2>10. ASSUME NEW p \in Page, Delete(p) PROVE Excused(q)
    <3>1. CASE HasRuntime
      <4>1. dismissed' = dismissed \cup {p} /\ dirty' = TRUE
        BY <2>10, <3>1 DEF Delete
      <4>2. LastWord' = dismissed \cup {p}
        BY <4>1 DEF LastWord
      <4>3. ~dirty
        BY <1>1, <4>2 DEF LastWord
      <4> QED BY <1>1, <4>1, <4>2, <4>3 DEF Excused
    <3>2. CASE ~HasRuntime
      BY <1>1, <2>10, <3>2, SameRecord DEF Delete, recordVars
    <3> QED BY <3>1, <3>2
  <2>11. ASSUME NEW p \in Page, AddBegins(p) \/ AddGivenUp(p) PROVE FALSE
    BY <1>1, <2>11, SameRecord DEF AddBegins, AddGivenUp
  <2>12. CASE UNCHANGED vars
    BY <1>1, <2>12, SameRecord DEF vars, recordVars
  <2> QED
    BY <1>1, <2>1, <2>2, <2>3, <2>4, <2>5, <2>6, <2>7, <2>8, <2>9, <2>10, <2>11, <2>12 DEF Next
<1>2. IInv /\ [Next]_vars => \A p \in LastWord : p \notin LastWord' => Excused(p)
  BY <1>1
<1> QED
  BY Inductive, <1>2, PTL DEF Spec, DismissalLostOnlyToOlderRecord, Excused
=============================================================================
