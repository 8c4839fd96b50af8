------------------------------- MODULE Pages -------------------------------
(***************************************************************************)
(* The pages (components) of one config entry: who lists them, who deletes *)
(* them, and how the loaded entry keeps up (__init__.py, config_flow.py,   *)
(* records.py, learning.py).                                               *)
(*                                                                         *)
(* The entry's subentries are the truth; the loaded runtime works on the   *)
(* copy async_setup_entry read.  An update of the entry runs its update    *)
(* listener, which reloads the entry.  A reload unloads (gateway and       *)
(* update listeners go), reads the subentries, loads the write record's    *)
(* store, starts the gateway and sets the platforms up, and only then      *)
(* registers the update listener again: an update that falls between the   *)
(* reading and the registration is seen by nobody.                         *)
(*                                                                         *)
(* WriteRecord keeps which pages were dismissed.  Its store saves five     *)
(* seconds after a change; a reload makes a new record that reads the file *)
(* while the old one's save is still pending.                              *)
(*                                                                         *)
(* A page's data is abstracted to who decided it: nobody (bare), traffic   *)
(* (learned) or an installer (manual).                                     *)
(***************************************************************************)
EXTENDS Naturals, FiniteSets, Sequences

CONSTANTS
    Page,          \* (address, slot) pairs
    First,         \* those with slot 1
    AddressOf(_),  \* the bus address of a page
    MaxQueued,     \* bound: reloads waiting for the entry's setup lock
    MaxLeftovers   \* bound: replaced records whose save is still pending

ASSUME PageAssumption == IsFiniteSet(Page)
ASSUME FirstAssumption ==
    /\ First \subseteq Page
    /\ \A p, q \in First : AddressOf(p) = AddressOf(q) => p = q
ASSUME BoundsAssumption == MaxQueued \in Nat \ {0} /\ MaxLeftovers \in Nat \ {0}

VARIABLES
    subentries,  \* the entry's own record of each page
    runtime,     \* runtime_data.components, read at setup
    attached,    \* loaded pages whose subentry is still the entry's
    phase,       \* how far the entry's setup or unload is
    queued,      \* reload tasks waiting
    learning,    \* runtime_data.learning_update
    seen,        \* the pages _async_adopt_pages has done with
    dismissed,   \* WriteRecord._dismissed of the loaded runtime
    dirty,       \* its save is pending
    leftovers,   \* pending saves of records a reload replaced, oldest first
    disk,        \* the dismissed pages in the store's file
    adding       \* pages an installer is adding, past the check of their slot

vars == <<subentries, runtime, attached, phase, queued, learning, seen,
          dismissed, dirty, leftovers, disk, adding>>

entryVars == <<subentries, queued, learning>>
recordVars == <<dismissed, dirty, leftovers, disk>>

Data == {"none", "bare", "learned", "manual"}
Listed == {p \in Page : subentries[p] # "none"}
Loaded == {p \in Page : runtime[p] # "none"}
Addresses(S) == {AddressOf(p) : p \in S}

TypeOK ==
    /\ subentries \in [Page -> Data]
    /\ runtime \in [Page -> Data]
    /\ attached \subseteq Page
    /\ phase \in {"down", "loading", "starting", "loaded", "unloading"}
    /\ queued \in 0..MaxQueued
    /\ learning \in BOOLEAN
    /\ seen \subseteq Page
    /\ dismissed \subseteq Page
    /\ dirty \in BOOLEAN
    /\ leftovers \in Seq(SUBSET Page)
    /\ disk \subseteq Page
    /\ adding \subseteq Page

\* A new entry: nothing listed, nothing on disk, not set up yet.
Init ==
    /\ subentries = [p \in Page |-> "none"]
    /\ runtime = [p \in Page |-> "none"]
    /\ attached = {}
    /\ phase = "down"
    /\ queued = 0
    /\ learning = FALSE
    /\ seen = {}
    /\ dismissed = {}
    /\ dirty = FALSE
    /\ leftovers = <<>>
    /\ disk = {}
    /\ adding = {}

\* runtime_data exists and the gateway's listeners are subscribed.
HasRuntime == phase \in {"starting", "loaded", "unloading"}
\* _async_reload_entry is among the entry's update listeners.
ListenerOn == phase \in {"loaded", "unloading"}

-----------------------------------------------------------------------------
(* _async_reload_entry after n updates of the entry: the first of them is  *)
(* taken for a learning update when the flag is up.                        *)

EntryUpdated(n) ==
    IF ListenerOn /\ n > 0
    THEN /\ learning' = FALSE
         /\ queued' = IF learning THEN queued + n - 1 ELSE queued + n
    ELSE UNCHANGED <<learning, queued>>

RoomFor(n) == queued + n <= MaxQueued

\* Everything runtime_data and the listeners' closures held is gone.
NoRuntime ==
    /\ runtime' = [p \in Page |-> "none"]
    /\ attached' = {}
    /\ learning' = FALSE
    /\ seen' = {}
    /\ dismissed' = {}
    /\ dirty' = FALSE

-----------------------------------------------------------------------------
(* Setup, unload and the store.                                            *)

\* A waiting reload gets the setup lock and begins to unload.
BeginReload ==
    /\ phase = "loaded" /\ queued > 0
    /\ phase' = "unloading"
    /\ queued' = queued - 1
    /\ UNCHANGED <<subentries, runtime, attached, learning, seen, recordVars, adding>>

\* Mutant: the unload takes the record's pending save with it.
Unloaded_DropsSave ==
    /\ phase = "unloading"
    /\ phase' = "down"
    /\ NoRuntime
    /\ UNCHANGED <<subentries, queued, leftovers, disk, adding>>

\* The platforms are unloaded, the gateway stopped, the listeners and
\* runtime_data gone; a pending save of the record goes on pending.
Unloaded ==
    /\ phase = "unloading"
    /\ dirty => Len(leftovers) < MaxLeftovers
    /\ phase' = "down"
    /\ leftovers' = IF dirty THEN Append(leftovers, dismissed) ELSE leftovers
    /\ NoRuntime
    /\ UNCHANGED <<subentries, queued, disk, adding>>

\* async_setup_entry reads the subentries, then waits for the store.
SetupReads ==
    /\ phase = "down"
    /\ phase' = "loading"
    /\ runtime' = subentries
    /\ attached' = Listed
    /\ UNCHANGED <<entryVars, seen, recordVars, adding>>

\* The store is read from its file; runtime_data and the gateway's
\* listeners are set, and the gateway is being started.
StoreLoaded ==
    /\ phase = "loading"
    /\ phase' = "starting"
    /\ dismissed' = disk
    /\ UNCHANGED <<entryVars, runtime, attached, seen, dirty, leftovers, disk, adding>>

\* The platforms are set up and the update listener is registered.
SetupDone ==
    /\ phase = "starting"
    /\ phase' = "loaded"
    /\ UNCHANGED <<entryVars, runtime, attached, seen, recordVars, adding>>

\* A delayed save fires.  Every save waits SAVE_DELAY after the change it
\* was asked for, so those of replaced records fire first.
Flush ==
    /\ dirty /\ leftovers = <<>>
    /\ disk' = dismissed
    /\ dirty' = FALSE
    /\ UNCHANGED <<entryVars, runtime, attached, phase, seen, dismissed, leftovers, adding>>

FlushLeftover ==
    /\ leftovers # <<>>
    /\ disk' = Head(leftovers)
    /\ leftovers' = Tail(leftovers)
    /\ UNCHANGED <<entryVars, runtime, attached, phase, seen, dismissed, dirty, adding>>

\* Home Assistant dies and starts again: pending saves and forms are lost.
Restart ==
    /\ phase' = "down"
    /\ queued' = 0
    /\ NoRuntime
    /\ leftovers' = <<>>
    /\ adding' = {}
    /\ UNCHANGED <<subentries, disk>>

-----------------------------------------------------------------------------
(* What the bus makes of the entry.                                        *)

\* _async_record_discoveries: the first page of every address reported and
\* not loaded is added.  A page that is listed already raises AbortFlow,
\* which drops the addresses after it.
Report(A) ==
    LET new == {p \in First : AddressOf(p) \in A \ Addresses(Loaded)}
        refused == new \cap Listed
    IN /\ HasRuntime
       /\ \E added \in SUBSET (new \ refused) :
             /\ added # {}
             /\ refused = {} => added = new
             /\ RoomFor(Cardinality(added))
             /\ subentries' = [p \in Page |-> IF p \in added THEN "bare" ELSE subentries[p]]
             /\ EntryUpdated(Cardinality(added))
       /\ UNCHANGED <<runtime, attached, phase, seen, recordVars, adding>>

\* Mutant: the dismissed pages are not looked at.
Poll_Undismissed(p, kind) ==
    /\ HasRuntime /\ p \notin seen
    /\ p \notin Listed
    /\ RoomFor(1)
    /\ seen' = seen \cup {p}
    /\ subentries' = [subentries EXCEPT ![p] = kind]
    /\ EntryUpdated(1)
    /\ UNCHANGED <<runtime, attached, phase, recordVars, adding>>

\* _async_adopt_pages: a page the panel polls and nothing here lists is
\* adopted, as what its link says it is; a dismissed one is left alone.
Poll(p, kind) ==
    /\ HasRuntime /\ p \notin seen
    /\ RoomFor(1)
    /\ \/ /\ p \in dismissed
          /\ seen' = seen \cup {p}
          /\ UNCHANGED entryVars
       \/ /\ p \notin dismissed /\ p \notin Listed
          /\ seen' = seen \cup {p}
          /\ subentries' = [subentries EXCEPT ![p] = kind]
          /\ EntryUpdated(1)
    /\ UNCHANGED <<runtime, attached, phase, recordVars, adding>>

\* Mutant: the rebuild after learning is left to the reload.
Learn_NoRebuild(p) ==
    /\ HasRuntime
    /\ runtime[p] \in {"bare", "learned"} /\ p \in attached
    /\ subentries' = [subentries EXCEPT ![p] = "learned"]
    /\ learning' = ~ListenerOn
    /\ UNCHANGED <<runtime, attached, queued, phase, seen, recordVars, adding>>

\* Mutant: an observation is applied to a configured page, too.
Learn_Any(p) ==
    /\ HasRuntime
    /\ p \in attached
    /\ subentries' = [subentries EXCEPT ![p] = "learned"]
    /\ runtime' = [runtime EXCEPT ![p] = "learned"]
    /\ learning' = ~ListenerOn
    /\ UNCHANGED <<attached, queued, phase, seen, recordVars, adding>>

\* _async_learn_from_traffic: traffic identifies a loaded page that nobody
\* has decided about, or widens a keypad it has; the entry is updated without
\* a reload and the runtime rebuilt in place.  The flag waits for a listener
\* that may not be there.  Which page of an address is its first is left open.
Learn(p) ==
    /\ HasRuntime
    /\ runtime[p] \in {"bare", "learned"} /\ p \in attached
    /\ subentries' = [subentries EXCEPT ![p] = "learned"]
    /\ runtime' = [runtime EXCEPT ![p] = "learned"]
    /\ learning' = ~ListenerOn
    /\ UNCHANGED <<attached, queued, phase, seen, recordVars, adding>>

\* Mutant: a page is written back whether the entry has its subentry or not.
Group_Deleted(S) ==
    /\ HasRuntime
    /\ S # {} /\ S \subseteq Loaded
    /\ RoomFor(Cardinality(S))
    /\ subentries' = [p \in Page |-> IF p \in S THEN runtime[p] ELSE subentries[p]]
    /\ EntryUpdated(Cardinality(S))
    /\ UNCHANGED <<runtime, attached, phase, seen, recordVars, adding>>

\* async_watch_restart_grouping, started by an earlier save, labels the loaded
\* pages that restarted together: each is written back as the runtime has it.
Group(S) ==
    /\ HasRuntime
    /\ S # {} /\ S \subseteq attached
    /\ RoomFor(Cardinality(S))
    /\ subentries' = [p \in Page |-> IF p \in S THEN runtime[p] ELSE subentries[p]]
    /\ EntryUpdated(Cardinality(S))
    /\ UNCHANGED <<runtime, attached, phase, seen, recordVars, adding>>

-----------------------------------------------------------------------------
(* What an installer does: the component subentry flow.                    *)

\* A page is to be added by hand: nobody has its slot, and it is written to
\* the panel.  (Bound: one such form at a time.)
AddBegins(p) ==
    /\ adding = {} /\ p \notin Listed
    /\ adding' = {p}
    /\ UNCHANGED <<entryVars, runtime, attached, phase, seen, recordVars>>

\* restore, of the runtime there is now: adding a page back undoes its
\* dismissal.
Restores(p) ==
    IF HasRuntime /\ p \in dismissed
    THEN dismissed' = dismissed \ {p} /\ dirty' = TRUE
    ELSE UNCHANGED <<dismissed, dirty>>

\* It was written, and somebody listed it meanwhile: it is not stored, and
\* its dismissal is undone all the same.
AddRefused(p) ==
    /\ p \in adding /\ p \in Listed
    /\ adding' = adding \ {p}
    /\ Restores(p)
    /\ UNCHANGED <<entryVars, runtime, attached, phase, seen, leftovers, disk>>

\* It was written, and is stored.
Add(p) ==
    /\ p \in adding /\ p \notin Listed
    /\ RoomFor(1)
    /\ adding' = adding \ {p}
    /\ Restores(p)
    /\ subentries' = [subentries EXCEPT ![p] = "manual"]
    /\ EntryUpdated(1)
    /\ UNCHANGED <<runtime, attached, phase, seen, leftovers, disk>>

\* The write failed, and the form is closed.
AddGivenUp(p) ==
    /\ p \in adding
    /\ adding' = adding \ {p}
    /\ UNCHANGED <<entryVars, runtime, attached, phase, seen, recordVars>>

\* A page's settings are saved.
Edit(p) ==
    /\ p \in Listed
    /\ RoomFor(1)
    /\ subentries' = [subentries EXCEPT ![p] = "manual"]
    /\ EntryUpdated(1)
    /\ UNCHANGED <<runtime, attached, phase, seen, recordVars, adding>>

\* A page is deleted: dismissed, if there is a runtime to tell.
Delete(p) ==
    /\ p \in Listed
    /\ RoomFor(1)
    /\ subentries' = [subentries EXCEPT ![p] = "none"]
    /\ attached' = attached \ {p}
    /\ EntryUpdated(1)
    /\ IF HasRuntime
       THEN dismissed' = dismissed \cup {p} /\ dirty' = TRUE
       ELSE UNCHANGED <<dismissed, dirty>>
    /\ UNCHANGED <<runtime, phase, seen, leftovers, disk, adding>>

-----------------------------------------------------------------------------
Lifecycle == BeginReload \/ Unloaded \/ SetupReads \/ StoreLoaded \/ SetupDone

Next ==
    \/ Lifecycle
    \/ Flush \/ FlushLeftover \/ Restart
    \/ \E A \in SUBSET Addresses(Page) : Report(A)
    \/ \E p \in Page, kind \in {"bare", "learned"} : Poll(p, kind)
    \/ \E S \in SUBSET Page : Group(S)
    \/ \E p \in Page :
          \/ Learn(p) \/ Edit(p) \/ Delete(p)
          \/ AddBegins(p) \/ AddRefused(p) \/ Add(p) \/ AddGivenUp(p)

Spec == Init /\ [][Next]_vars
-----------------------------------------------------------------------------
(* Safety.                                                                 *)

\* Nothing is going on, and yet the runtime works on other pages than the
\* entry lists.
Behind == phase = "loaded" /\ queued = 0 /\ runtime # subentries

Settled == phase = "loaded" /\ queued = 0 /\ runtime = subentries

\* What traffic may add to the entry: a page nobody listed.
ListedByTraffic(p) == subentries[p] = "none" /\ subentries'[p] \in {"bare", "learned"}

\* A page the entry does not list is listed by a form that adds it, by a poll
\* of it that nobody dismissed, or by the heartbeat of an address of which no
\* page is loaded.  What works on the loaded copy, learning and the grouping
\* that may end a minute and a half after it began, revives no page that was
\* deleted meanwhile.
ListedByFindingOnly ==
    [][ \A p \in Page \ Listed : p \in Listed' =>
          \/ p \in adding \ adding'
          \/ p \in seen' \ seen /\ p \notin dismissed
          \/ p \in First /\ AddressOf(p) \notin Addresses(Loaded) ]_vars

\* The runtime falls behind the entry for good in two ways only: an update
\* while the setup had read the entry and not yet registered its listener,
\* or a learning flag such a moment left up, which the next update takes.
BehindOnlyFromSetup == [][ Behind' /\ ~Behind => phase = "starting" \/ learning ]_vars

\* Once settled, traffic does not touch what an installer chose.
SettledChoiceKept ==
    [][ Settled => \A p \in Page : subentries[p] = "manual" => subentries'[p] # "learned" ]_vars

\* A page the loaded record holds dismissed is listed again only by the
\* heartbeat, which asks nobody.
DismissedNotAdopted ==
    [][ \A p \in dismissed : ListedByTraffic(p) => p \in First /\ seen' = seen ]_vars

\* What the file will say once every pending save has fired.
LastWord ==
    IF dirty THEN dismissed
    ELSE IF leftovers # <<>> THEN leftovers[Len(leftovers)] ELSE disk

\* A dismissal on its way to the file is lost only to a restart, to adding
\* the page back (which may then be refused, because someone listed the page
\* since its slot was checked), or to a save by a record that was read before
\* it arrived.
DismissalLostOnlyToOlderRecord ==
    [][ \A p \in LastWord : p \notin LastWord' =>
          \/ Restart
          \/ p \in adding \ adding'
          \/ ~dirty /\ dirty' /\ p \notin dismissed ]_vars
=============================================================================
