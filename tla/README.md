# ctrlable-be3: specification, model checking and proofs

TLA+ modules for the Home Assistant integration in `src/custom_components/ctrlable_be3`: a custom
component that accepts the TCP session of a BE3 bus gateway, turns what panels send into entities
and events, and writes configurations ("pages") to the panels. Paths below are relative to that
directory.

Everything runs on one asyncio event loop. There are no threads to interleave; what interleaves is
tasks at their `await`s, callbacks of transports and timers, messages of the gateway, steps of Home
Assistant's config entry lifecycle, and an installer's flows and service calls. The models take one
step per stretch of code between two awaits.

## Inventory

| Component | State | Operations | Interacts with |
|---|---|---|---|
| Gateway session (`gateway.py`) | `_writer`, `_session`, `_state`, `_last_seen`, `_send_lock`, `_tasks`, `_server` | `start`, `stop`, `send`, `_handle_connection`, `_close_session`, `_idle_watchdog`, `_discovery_loop` | calls state, message and button listeners; used by the provisioner, the controllers and the entities |
| Bus health (`gateway.py`) | `_heartbeats_this_session`, `_idle_drops`, `_last_heartbeat`, `_wedge_warned`, `_bus_warned` | `_dispatch`, `_bus_watchdog`, `_warn_wedged` | the session; logs only |
| Entry and pages (`__init__.py`) | subentries, `runtime_data` (components, `learning_update`), update listener | setup, unload, reload, `_async_record_discoveries`, `_async_adopt_pages`, `_async_learn_from_traffic`, `async_watch_restart_grouping` | gateway listeners, the flow, the write record, the dispatcher, the keypad registry |
| Component flow (`config_flow.py`) | `_existing`, `_kind`, `_address` | add, edit, delete, write to the panel | subentries, provisioner, write record |
| Write record (`records.py`) | `_written`, `_dismissed`, the store's delayed save | `record`, `last_written`, `dismiss`, `restore`, `forget`, load | file on disk, the flow, adoption |
| Provisioner (`provisioning.py`) | none of its own: reads `GatewayState` | `set_address`, `configure_*`, `blank_configuration`, `clear_configuration`, `identify`, `set_led`, `start_update`, `wait_for_restart`, `wait_for_address` | `gateway.send`, state listeners |
| Learning (`learning.py`) | `BusObserver._seen` | `observe_button`, `observe_value`, `apply_observation`, `group_from_restart` | entry and pages |
| Gestures (`protocol.py`) | `ButtonTracker._holding` | `feed`, `reset` | the session resets it; button listeners |
| Framing (`protocol.py`) | `LineReader._buffer` | `feed` | one per socket |
| Links and control (`links.py`, `control.py`, `values.py`) | controllers by (address, slot) | `interpret`, `async_handle`, `_async_report` | Home Assistant services, `gateway.send` |
| Keypad registry (`keypads.py`) | keypads by gateway | `refresh`, `forget` | setup and learning |
| Slots (`devices.py`) | none | `next_free_slot`, `assign_slots` | the flow |
| Entities (`entity.py`, `event.py`, `switch.py`, `button.py`, `binary_sensor.py`) | last shown state | subscribe, show | gateway listeners |
| Discovery of gateways (`discovery.py`) | none | broadcast, collect answers | the config flow |

What is hard, and what makes each part correct:

- *Session.* Every teardown and eviction awaits a transport's end, and everything else may run during
  that wait: another socket arrives, a send fails, the watchdog fires, `stop()` runs. Correct means:
  the announced state is the session's; the newest socket is the session and the only one read; no
  late teardown hits a successor; every wait ends; a dead session is noticed and a gateway that answers
  is attached again; after `stop()` everything comes to rest.
- *Entry and pages.* The entry is the truth, the runtime a copy that a reload replaces; six different
  parties change the entry. Correct means: the copy catches up, what a person chose is not
  overwritten by traffic, a deletion is not undone, a dismissal survives.
- *Provisioner.* Nothing is acknowledged; the last heartbeat's address list is all there is, and it
  is stale exactly when panels restart, which is what writing makes them do. Correct means: no two
  components end up on one address, a confirmation confirms, no wake-up is lost, every call ends.
- *Write record.* A skipped write must be one the panel really holds; saves are late.
- *Bus health.* Counts that belong to a session must not outlive it.
- *Links and control.* A panel keeps every link it was ever given, and its screen believes the last
  answer it got. Correct means: no entity is driven through a link of another kind, what is set is
  what is told, and a screen does not stay wrong.
- *Learning.* The gateway names addresses and nothing more; what is there is learned from traffic or
  decided by a person. Correct means: nothing is guessed, nothing that was heard is missed, a decision
  stands, and what is stored without a reload is offered as a reload would offer it.
- *Presence.* Whether a panel restarted is told by one list per heartbeat. Correct means: a backlight is
  not shown on when its panel came back dark, and only what really was away is grouped.
- *Gestures, framing.* Small sequential algorithms fed by a stream that may be cut, lost or mixed: every
  press gives the right gesture, every frame of ordinary length is recovered, and nothing else is.

`PROJECT.json` lists the hazards of this code line by line, with the properties that cover them.

## Modules

| Module | Models |
|---|---|
| `Session` | what the session promises the rest of the integration: a writer, an announcement, teardowns that wait |
| `GatewaySession` | the session of `gateway.py`: sockets, handlers, locks; it implements `Session` |
| `MCGatewaySession` | its TLC instance |
| `GatewaySessionProofs` | theorems about it, and that it implements `Session` |
| `Traffic` | what is made of the bytes of a session, built on `Session`: gestures, heartbeats, the two warnings |
| `TrafficProofs` | theorems about it, and that it implements `Session`; theorems about `Wire`, and that it implements `Channel` |
| `Pages` | subentries, runtime, reloads, learning, adoption, dismissals |
| `MCPages` | its TLC instance |
| `PagesProofs` | theorems about it |
| `Provisioning` | calls that change panels, and the bus under them |
| `MCProvisioning` | its TLC instance |
| `ProvisioningProofs` | theorems about it |
| `PageWrites` | the write record, the saves it skips, and the panel it speaks of |
| `PageWritesProofs` | theorems about it |
| `Values` | the conversions of `values.py` |
| `Control` | what pages control: touches, polls, answers, service calls; built on `Values` |
| `MCControl` | its TLC instance |
| `ControlProofs` | theorems about it, and that the conversions round-trip |
| `Components` | what a component is and who says so: traffic, forms; and what is offered of it |
| `MCComponents` | its TLC instance |
| `ComponentsProofs` | theorems about it |
| `Presence` | panels that leave and return: backlights and the grouping of a panel's components |
| `MCPresence` | its TLC instance |
| `PresenceProofs` | theorems about it |
| `Channel` | what the framing promises of a peer's frames: whole, once, in order, in the step that reads their end |
| `Wire` | `LineReader`: frames out of a stream; it implements `Channel` |

An operator named `X_Something` and commented "Mutant" is a deliberately broken variant of `X`; it is
in no specification and shows that the property it is for can fail.

### GatewaySession

| Variable | Code |
|---|---|
| `sock` | the asyncio transport of each accepted connection: open, closing (`close()` called), lost |
| `pc` | where each `_handle_connection` is: evicting, reading, leaving, ... |
| `awaits` | the writer whose `wait_closed()` a handler, a failed send, the watchdog or `stop()` is awaiting (`gateway.py:477-478`) |
| `writer`, `session`, `connected`, `lastSeen` | `_writer`, the socket whose number is `_session`, `_state.connected`, `_last_seen` (fresh or older than `idle_timeout`) |
| `sender`, `target` | each caller of `send()`, and the writer it captured at `gateway.py:204` |
| `stop` | how far `stop()` is |
| `invited` | a search datagram is out and the gateway is about to connect |

`_session` is a counter in the code and only compared with itself; the model keeps the socket it was
given to, which is what the comparison at `gateway.py:275` decides. A teardown is two steps, before
and after its await (`CloseSessionAwaiting`, `ForgetAfterClose`), and one when there was no writer
(`CloseSessionAtOnce`). The second step carries on with what the code carries on with: nothing, since
`_close_session` does not look at `_writer` again. Actions of the environment are a connection, an
abort by the peer, the loss of a closed transport, silence, and a fading invitation. Not modelled:
the bytes of a message (any traffic is `Receive`), the flow control of a peer that does not read
except as a `drain()` that may take forever, an executor that delays the search, and the failure to
bind the port.

`Session` keeps three variables: is there a writer, is a session announced, and who has taken a
writer away and not yet announced its end. It is deliberately as weak as the code: `Forget` announces
the end of whatever session there is. `S == INSTANCE Session` in `GatewaySession` maps the writer to
`writer # NoConn`, the announcement to `connected`, and a waiting closer to a sender, the watchdog or
`stop()` that awaits a transport after giving up the session.

### Traffic

| Variable | Code |
|---|---|
| `current`, `announced`, `tearing` | those of `Session` |
| `holding` | `ButtonTracker._holding` |
| `beats` | whether `_heartbeats_this_session` is not 0: nothing asks for more |
| `lastBeat`, `lastSeen` | `_last_heartbeat` and `_last_seen`, each as never, recent, or older than its timeout |
| `drops`, `wedgeWarned`, `busWarned` | `_idle_drops` (up to `WEDGE_DROPS`), `_wedge_warned`, `_bus_warned` |
| `cur`, `old` | the environment: what is on its way on the newest socket, and on the one before it |
| `loop`, `link` | the gateway: is its bus loop running, and has it greeted on its socket |
| `finger` | each button |
| `heard`, `cut` | what the listeners made of each button, and the buttons of whose gesture something was lost |

Every step that touches the session is a step of `Session`, so that the module inherits each of its
interleavings without its sockets. A handler whose socket was replaced or given up goes on reading
what it has (`ReadOld`), into the same tracker and counters. Two keys of the tracker do not touch each
other's state, so the instance has one. Reports come as docs/BE3-protocol-findings.md shows them: a
press, then a tap count, a hold mark, or a release. The codes of another firmware are left out.
`SendBeat` gives a stopped gateway one heartbeat per socket, as the code's comments say of it.

### Pages

| Variable | Code |
|---|---|
| `subentries`, `runtime` | the entry's subentries and `runtime_data.components`, each page abstracted to nothing, *bare* (discovered), *learned* or *manual* |
| `attached` | the loaded pages whose `subentry_id` the entry still has (`__init__.py:372`, `630`) |
| `phase`, `queued` | the config entry's setup lock: down, loading, starting, loaded, unloading; reloads waiting for it |
| `learning` | `runtime_data.learning_update` |
| `seen` | the set in `_async_adopt_pages` |
| `dismissed`, `dirty`, `leftovers`, `disk` | `_dismissed` of the loaded `WriteRecord`; its delayed save; delayed saves of records that reloads replaced; the file |
| `adding` | the page a flow is adding, between the check of its slot (`config_flow.py:697`) and its store: the panel is being written |

The update listener is called by Home Assistant synchronously with the update: `EntryUpdated` is part
of every action that changes the entry. The setup's awaits divide it in `SetupReads`, `StoreLoaded`
and `SetupDone`; listeners of the gateway are live from the second on, the update listener only from
the third (`__init__.py:172`). `_async_reconcile_pages` changes the entry's options before the update
listener exists and so has no effect here. Home Assistant's behaviour (the setup lock, delayed saves,
`AbortFlow` for a duplicate, the end of `runtime_data` with an unload) is modelled from how this code
uses it. `Restart` is a crash: an orderly stop of Home Assistant writes pending saves. Which page of
an address `_apply` finds first is left open, and so is which save started a grouping task. Adding a
page is several steps: `AddBegins` passes the check, then the page may be stored (`Add`), refused
because somebody listed it during the write (`AddRefused`: the panel is written and the dismissal undone
all the same), or given up. Not modelled: a setup that fails. `Components` has what `Pages` leaves out
of a page, its settings.

### Provisioning

| Variable | Code |
|---|---|
| `known`, `heard`, `connected` | `GatewayState.device_addresses`, whether `gateway_address` is known, `connected` |
| `pc`, `cmd` | which wait each call is in (`_await_known`, `wait_for_address` after a move, the two halves of `wait_for_restart`), and what it is about |
| `woken` | calls whose `asyncio.Event` is set and that have not run yet |
| `wire`, `addr`, `up` | the environment: commands the gateway has not relayed, where each component answers, which panels are running |

A call runs from one wait to the next in one step. A timeout is a step of its own that is possible
whenever a wait is on: the model does not count seconds, so it also covers a panel slower than
`RESTART_TIMEOUT`. Listeners are called only when a heartbeat changes the state
(`gateway.py:444`), and the lists are compared as sets. `page` commands stand for the services, which
wait only between pages (`__init__.py:817`); `save` for the flow, whose grouping task waits after its
one page; `Blank` for `blank_configuration`, which asks nobody. Two fields of a command are history
only: `complete` and `landed`. Panels leave the bus only to restart after a page; a session takes
what it has not relayed with it. `Quiet` is the commands that send one message and wait for nothing
(`identify`, `set_led`, `clear_configuration`, `start_update`): they take their turn on the wire and
change nobody's address. The validators are left out.

### PageWrites

| Variable | Code |
|---|---|
| `settings` | the configuration the entry's subentry of each page holds, as the signature it makes |
| `loaded`, `written` | there is a runtime; its record's `_written`, with ages in steps of `TRUSTED_FOR` |
| `replaced` | `_written` of the record a reload replaced, which a flow or a pending save may still use |
| `pending`, `file` | the delayed saves, in the order they are due; the store's file |
| `flow` | each open flow: idle, before its message, or waiting for `drain()` |
| `panel`, `away` | the environment: what each page of the panel at the address holds, and whether it is restarting |
| `doubt`, `raced` | history: pages written, or lost, without a record, or of another panel since; pages whose loaded record was read from a file that missed a save |

A save that stores settings causes the reload in Home Assistant's own time, so `Unload` is possible
whenever no flow would be cut, and at any time if `"reload"` is among the faults. A flow keeps the
record it began with, as the code's local does. The read of the file is one step. The pages are those
of one address: pages of different addresses share nothing but the store, which is written whole. `Swap`
puts another panel at the address: one moved by `set_address`, whose service touches no record
(`__init__.py:716`; only deleting a page forgets one, `config_flow.py:268`), or one an installer exchanged.

### Control

| Variable | Code |
|---|---|
| `component` | the settings behind each page's `ComponentController`; one without a target has no controller (`control.py:282`) |
| `calls` | services called with `blocking=False` that an entity has yet to carry out |
| `down` | answers handed to `gateway.send` |
| `linked`, `screen`, `up` | the panel: roles whose links it was ever given, what it shows of each, its requests on their way |
| `state`, `warmth` | Home Assistant: a light's brightness, a switch, a cover's position, or unavailable; colour temperatures |
| `events` | the bound: touches, changes by others, losses and saved forms so far |

`Handle` is `handle_message` and the task it starts, which runs up to its send or its call before
anything else does. `Save` is a form that is saved, with or without the write to the panel; it reloads
the entry, which takes the session and what was on its way, and a write restarts the panel. How a
write can fail, or be skipped, is `PageWrites`. The settings are those the two forms let an installer
choose: lights and switches for a dimmer and what is left over of one, covers for a shade and what is
left over of it. Home Assistant's services act at once on what is available; a switch refuses a call
with a value. A shade level between 0 and 100 opens the cover all the way, as `_async_act` does.
Not modelled: links of another controller and the warnings about them, covers that report no position,
lights without brightness or colour, `describe` and the value events.

`Values` is a translation of `values.py` on exact quotients; of these integers none is near enough to
a half for the floats of the code to round it otherwise.

### Components

| Variable | Code |
|---|---|
| `component`, `older` | the subentries and the loaded copy of them, and the order they were listed in, which decides the page `_apply` looks at (`__init__.py:357`) |
| `loaded` | the entry has a `runtime_data` |
| `seen` | `BusObserver._seen` |
| `published` | the keypad registry's buttons of each page |
| `made` | the entities `event.py` and `switch.py` added for each page |
| `form` | the open subentry flow: its step, `_kind`, the types it offered, and whether it warned |
| `hardware`, `said` | the environment: what each address is, and as history what it has said, ever and since the load |

`Press`, `Touch` and `Poll` are one message each, through both listeners in their order: learning first,
then adopting, which reloads. `Apply` is `_async_apply_learned`, which stores without a reload and
refreshes the registry and the entities; `SetsUp` is what a reload builds. A reload is one step: what
falls into one is in `Pages`, where the entry and the loaded copy differ. Panels may be swapped for
others at any time, which the observer survives by letting the newest evidence win.

### Presence

| Variable | Code |
|---|---|
| `known`, `connected` | `GatewayState.device_addresses`, `connected` |
| `shown`, `wasPresent` | `_attr_is_on` and `_was_present` of each backlight switch |
| `setting` | what `_set` is awaiting for each switch |
| `save`, `watch`, `label` | the flow's write to a panel; the grouping watcher: its wait, `before` and `missing`; each component's panel label, by its lowest address |
| `up`, `lit`, `wire` | the environment: panels that run, backlights that are on, commands on their way |
| `drifted`, `gone` | history: backlights of which something went unnoticed; addresses that were off the bus during the watch |

The watcher is born when the flow's write returns, and its snapshot is taken then; a save that changed
what is stored reloads the entry right after, which cancels it, so that only an unchanged save ever
groups. A switch hears the list when it changes and when a session begins or ends.

### Wire

`frames`, `unread` and `arrived` are the peer's, `buffer` is `LineReader._buffer`, `got` the frames
handed on. A byte is a frame's number and a place in it; whether what is left of a frame is an object is
decided by whether it is whole, because the gateway's objects are flat. `Receive` is one `feed` with any
number of bytes up to `_READ_SIZE`; `Hangup` ends the connection, and the next has a reader of its own.

`Channel` knows no bytes, reads or buffer: frames that are sent, how many have arrived or ended with
their connection, and what is handed on. Of the frames that arrive in a step every object up to `Limit`
is handed on in that step, and of the longer ones any. `C == INSTANCE Channel` in `Wire` maps the count
to `Passed`, which is the frame before the one the next unread byte belongs to, and the limit to
`MaxBuffer - ReadSize - 1`.

## Runs

| Run | Instance | Shows |
|---|---|---|
| `session` | three gateway sockets and one of a foreign host, one sender, symmetry | who owns the session under every interleaving, the only ways in which it goes wrong, and that it implements `Session` |
| `session_live` | two sockets, two senders | a dead session is dropped, an announcement settles, every wait ends; a session comes back while the gateway answers; `stop()` brings everything to rest |
| `pages` | the first pages of two addresses, two reloads waiting, one replaced record, symmetry | what lists a page; when the copy falls behind, a choice is overwritten, a dismissal is lost or ignored |
| `provisioning` | two components on two panels, three addresses (one the gateway's), two calls, symmetry | no lost wake-up; addresses are doubled only by a move checked against an incomplete list |
| `provisioning_live` | one call of two pages | every call ends, and none goes round in circles: whoever runs on from a wait has fewer left |
| `provisioning_restart` | two calls | *violation*: a restart is confirmed for a write that has not arrived |
| `traffic` | one button, a tap count, two drops to a warning, the watchdog and a sender as closers | gestures are heard as made; the warnings and the timer match what they count; a stopped bus loop is named, a recovered one cleared, its silence reported |
| `writes` | one page, two configurations, one flow, services, every fault, panels exchanged | what the record says and when it may be wrong; saving again reaches the panel |
| `control` | one page with three settings, a light, a switch and a cover, three events | calls suit what they drive, values survive polling, polling alone only puts screens right, and every driven control of a screen comes to show the truth |
| `components` | one address with two pages, three buttons, two events | nothing is guessed or missed, what is learned is offered, traffic only adds, a wrong type is warned of |
| `presence` | a panel with a keypad and a screen, a second panel, six events | the only ways a backlight is shown wrong; who is grouped |
| `wire` | four frames of five lengths, a buffer of 7 and reads of 3 | only whole objects are dispatched, once and in order; only long frames are lost; it implements `Channel` |

The violation is a disagreement between the code and what its comment says of it; it is quoted under
"findings" in `PROJECT.json`. The passing properties name further ways in which the code falls short of
its comments, each as the exception the property allows:

- `UnannouncedOnlyByLateTeardown`: a teardown clears the writer before it awaits the old transport and
  announces the end after; a session installed in between is announced as disconnected while its socket
  is live (`gateway.py:293`; "Whether the gateway currently has a session with us", `binary_sensor.py:34`).
- `DismissalLostOnlyToOlderRecord`: the reload that a deletion causes reads the record before the
  dismissal is saved, and the panel's next poll lists the page again (`__init__.py:133`; "It will not be
  listed again until it is added back", `config_flow.py:258`).
- `WedgeNamed`: a socket that replaces a live session inherits its count of heartbeats, so the one
  greeting of a stopped gateway passes for the second heartbeat of a running one; the property asks that
  sockets come one at a time (`gateway.py:407`; "Two heartbeats in one session is a bus loop that is
  running").
- `OrphanOnlyByLateEviction`: two sockets that arrive during one eviction, and the older installs over
  the newer, which stays open and read (`gateway.py:251`; "The newest one is the live one", line 249).
- `FreshSessionKept`: a send that fails on a socket replaced meanwhile closes its successor
  (`gateway.py:220`; "A replaced connection must not clear the session that replaced it", line 274).
- `StopSettles`: a socket that is accepted while `stop()` waits for the last session's transport, or that
  waits for its own eviction, becomes the session after `_close_session` has returned: it is read, and
  `stop()` waits, until its peer ends it (`gateway.py:192`; "Close the session and stop all background
  work", line 185).
- `BehindOnlyFromSetup`: a page added while the entry is set up is not loaded (`__init__.py:172`).
- `BelievedIsHeld`: a save is skipped though the panel holds another configuration. With nothing lost
  and no service called, saving one configuration and then another within five seconds is enough: the
  reload of a save reads the record of the save before it (`config_flow.py:543`; "the panel already
  holds exactly this configuration", line 536). And a panel that was moved or exchanged is taken for the
  one before it until the trust ends (`__init__.py:719`).
- `ScreensEndTrue`: it speaks of links that drive something. A page that was a dimmer with a colour
  link and is now a shade has two leftover links, and only the brightness link can be given a target
  (`links.py:164`; "There is exactly one such role per type", line 169).
- `SettledChoiceKept`: between an installer's save and its reload, learning writes the loaded copy
  over what was saved (`__init__.py:362`; "An installer's explicit choice is never overwritten by
  traffic", line 339).
- `NothingBeyondEvidence` speaks of addresses: an untouched first page takes the type of what another
  page of its address was touched for, since an observation is applied to the address's first page
  (`__init__.py:357`; "A component nobody has touched yet stays unknown", `learning.py:15`).
- `NothingHeardIsMissed` speaks of undecided keypads: the form stores the number of buttons it was
  opened with as a decision, and buttons pressed later are never added (`config_flow.py:784`).
- `WrongTypeWarned`: what a panel said before the last reload is forgotten, so a type against it is not
  warned of until the panel speaks again (`config_flow.py:386`).
- `OfferedAsLoaded`: nothing takes an entry's keypads out of the registry when it is unloaded
  (`keypads.py:76`, which nothing calls).
- `BacklightWrongOnlyUnnoticed`: a panel that leaves while a call to its backlight is under way, or
  that is set while it is not on the list, is shown on when it comes back dark (`switch.py:129`;
  "Continuing to show them as on would be a confident lie", line 109).
- `OnlyLongFramesLost`: the buffer is cut before the frames in it are taken out, so a legal frame that
  leaves less room than one read is lost though it arrived complete (`protocol.py:366`; "keep only the
  tail so a later valid frame can still be recovered").

Bounds. *Session:* the late teardown and the late eviction need an old socket, a new one, and one
that comes in between, hence three; the foreign socket is there for the rejection. Liveness is checked
on two sockets and two senders, the second of which queues for the lock. A sender that waits for the
lock holds on to the socket it captured, and two sockets may then be all taken: `OutOfSockets` excuses
`SessionComesBack` where the model, unlike the host, has no further socket to accept. *Pages:* `MaxQueued` bounds
the reloads waiting, and must allow one to wait while another runs; `MaxLeftovers` one save of a
replaced record, since a second reload finds either that save done or its own record clean or dirty.
Two pages of different addresses let one heartbeat add both; nothing in the module tells them apart, so
they may be permuted. A second page of an address differs in that only a poll can list it, which
either may be; the proofs cover any pages. *Provisioning:* `MaxWire` one command not yet
relayed, `MaxMore` pages after a call's first. Two calls are enough for one to restart a panel the
other asks about, and for two moves to aim at one address.

*Traffic:* `MaxWire` bounds the button reports on one socket (a heartbeat more may join them); the
older socket keeps what it had, so that reports of two sockets do mix. One closer that stands for all
senders is enough beside the watchdog: a second waits and forgets like the first. `Counts` holds a
count that a mutant could confuse with the hold mark; `WedgeDrops` is 2 instead of 3, so that a count
can be short of it. *PageWrites:* two configurations, since a third is as different from both as they
are from each other; one flow, one replaced record. `BelievedIsHeld` is proved for any number of
flows, pages and faults. `Trust` is one step of the clock: believed, and no longer believed.

*Control:* `MaxEvents` is 3: a form that makes a link a leftover, a touch of it, and a change or a loss
that crosses the touch. After the last of them the panel only polls, which is when `ScreensEndTrue`
must come true; before it, each step may cross any other. One poll of a link is on its way at a time:
of two the second answer is the one that stays. A second page with the same target would see no more
than a change by others, which the one page has.

*Components:* one address, as addresses meet only in a heartbeat's list, and two pages, as the first of
an address is treated as no other is; three buttons, so that a count can grow twice; `MaxEvents` counts
forms, swaps, unloads and restarts, while messages, saves and deletions are unbounded. *Presence:* six
events, so that a save, a call to a backlight, a panel that leaves and a lost session can meet in one
watch; one keypad is enough, as switches do not meet. *Wire:* a frame of 3 bytes is the longest
that is promised to arrive (3 + 1 + 3 is the buffer), 4 the shortest that is not, 9 is longer than the
buffer, and 0 is a blank line; four frames let a cut take the whole of one and part of the next.

What a type invariant says is proved of every module with variables of its own, and is therefore a
property of no run. Deadlock is checked in every run but those of the session, which stops for good with
`stop()`, and of the wire, whose peer stops after `MaxFrames`.

## Fairness

`GatewaySession!FairSpec`: weak fairness of each task that the event loop has made ready (a read that
has data or an end, a write that failed, a wait whose transport is lost), of a closed transport
losing its connection, of the watchdog's and the search's periodic tasks, and of `stop()` once begun.
That is the event loop's own promise, plus `asyncio`'s that a transport that was told to close calls
`connection_lost`. Nothing is assumed of the gateway, of the network, or of a `drain()` on an open
socket. `SessionComesBack` has its conditions inside: nobody calls `stop()`, and the gateway, invited
again and again, connects in the end.

`Provisioning!FairSpec`: weak fairness of a call that waits (its event is set, or its
`asyncio.timeout` fires), and of the relay of a command, which only keeps the bound `MaxWire` from
blocking a call forever (a session that drops empties the wire as well). Panels, heartbeats and the session promise nothing.

`Traffic!FairSpec`: weak fairness of the readers, of the two watchdogs, of a teardown whose transport
ends, of the passing of time, and of the heartbeats of a gateway that is connected and whose loop
runs. `WedgeNamed` further assumes that the gateway goes on taking sessions one at a time, and
`WarningsFollowTheBus` that a session stays: each is a condition inside the property, not a fairness of
the code.

`PageWrites!FairSpec`: weak fairness of a panel's return, of time, of a reload's second half, and of a
send that has begun. `SavesReachThePanel` has its conditions inside: from some point on nothing else
writes to the panel, and the installer saves again and again.

`Control!FairSpec`: weak fairness of the carrying and handling of messages, of service calls, and of a
panel's polls of each of its links: "The panel polls every few seconds" (`control.py:9`). A colour link
is polled only while it is on the screen (docs/BE3-protocol-findings.md:330), and a page only once it
has been shown: the property says so much of them.

`Pages`, `Components`, `Presence` and `Wire` have safety properties only: what they do is done in the
step that hears of it, and whether one hears is up to the panels.

## Proofs

`GatewaySessionProofs` proves for any finite or infinite set of sockets and any senders, from the
assumptions on the constants alone, that the conjunction

    IInv == TypeOK, WriterServed, AnnouncementOwned, WaitsEnd,
            AwaitedStarted, LeaverAwaitsItself

is inductive. `WaitsEnd` (theorem `WaitsAreForClosedSockets`) is the proved half of the liveness
property `EveryWaitEnds`: whoever waits, waits for a transport that was told to close. `WriterServed`
(the writer's handler is still reading, so its end will be noticed) is not inductive alone: a handler
that leaves clears the writer only if it is still the session, so what is needed is which socket a
leaving handler awaits (`LeaverAwaitsItself`), and that a socket somebody awaits is one that was
accepted (`AwaitedStarted`). From it follow the invariants of the run and
three action properties: the two ways a session goes wrong are the only ones, and a fresh session is
given up only to a failed send or to `stop()`.

`PagesProofs` proves for any finite set of pages and any bounds that `TypeOK`, `AttachedIsListed` (a
loaded page whose subentry is still the entry's is listed) and `DirtyIsLoaded` (a pending save of the
loaded record has a runtime) are inductive. The first makes looking a page up by its subentry enough
for `ListedByFindingOnly`: what writes the loaded copy back revives no deleted page. The last is what
makes loading a record harmless: `StoreLoaded` overwrites `dismissed`, and would replace the last word
on its way to the file if a save could be pending then. Finiteness is needed to count the pages a
heartbeat adds. The five action properties of the run `pages` are the theorems; the one about
dismissals rests on three lemmas on the sequence of pending saves.

`SessionImplemented` proves the refinement: every step of `GatewaySession` is a step or a stutter of
`Session` under the mapping above. Most actions leave the three abstract variables alone; what needs
the invariant is a handler that leaves (`LeaverAwaitsItself` tells whether it ends the session) and a
closer that finds its own transport ended.

`PageWritesProofs` proves `BelievedIsHeld` for any pages, configurations, flows, faults and trust.
The inductive invariant is `RecordTypes`, `FlowTypes`, `FlowsOrdered` and `NextRight`. `NextRight` says
of the record that will be read next (the loaded one, or between an unload and a setup the replaced
one) that it is right about a page or the page is excused. `FlowsOrdered` is what the send lock and a
stopped gateway give: one write is on its way at a time, what arrived stays until its send returns,
and no send into a replaced record is left when the next one is loaded. The age of a record plays no
part: a record is right, or excused, whether it is still trusted or not.

`ControlProofs` first proves that a percentage set as a brightness, or as a colour temperature on a range of
more than a hundred kelvin, is polled as the same percentage. Rounding finds an integer whose double
distance is at most the divisor (`RoundIsNear`), and the only one that is strictly nearer than that
(`RoundFinds`); setting loses at most half a unit, and a unit is less than a percent of the range.

It then proves, for any pages, entities, settings and number of events, that the types and
`CallsSuit` are inductive: every call that waits for an entity is of its domain and sets a value that
polling and setting again would not change. They need each other: that a position stays within 0..100
rests on no cover being given a light's call. `TargetSuits` has the reason: a level link drives a cover
and every other link a lamp, now and left over, because the forms offer nothing else.

`ProvisioningProofs` proves for any components, panels, addresses and calls that `BusOK`, `WireOK` and
`CallsOK` (the types, and that a waiter that was not woken waits for something the list does not show)
are inductive with what `CompleteCheckIsSafe` needs: a command on the wire that is marked complete was
checked against a list that had every component, so its new address is nobody's unless somebody has
moved since.

`ComponentsProofs` proves all five properties of the run `components` for any addresses and pages, any
number of buttons and of events. Four strengthenings are needed: the observer has seen nothing that was
not said (`SeenIsSaid`); a panel that has spoken since the load was seen for what it is (`HeardIsSeen`);
the first page of an address was told what was seen (`FirstKnows`), which is why an observation that
changes nothing may be ignored; and a form past its warning is honest (`FormHonest`). `OfferedAsLoaded`
rests on a lemma about `_async_add_missing`: for components that only grew, adding what is missing to
what was made before gives what would be made anew (`AddMissingTwice`), so a learned update may skip the
reload.

`TrafficProofs` proves `GestureHeard` for any buttons, tap counts and lengths of the queues. Of a button
of which nothing was cut, the last report on its way on the newest socket says what the finger does, or
its listeners know already if there is none; reading an earlier report, or another button's, does not
change which is the last. That needs `OldIsCut`: what is left on an older socket is of buttons that were
cut, so that a late read there is never of a gesture that counts as whole. A hold that is open is lost
with the tracker's reset, and its button is cut then. `SessionImplemented` proves that a step of the
traffic is a step of `Session` or none of its.

`PresenceProofs` proves both properties of the run `presence` for any panels, addresses, keypads and
bounds. For the backlights the strengthening is `NoticedInTime`: a backlight that has not drifted is on
course while its panel is up and listed (the last command on its way to it, or the backlight itself if
there is none, is what the switch shows or is about to show), and at rest and shown as it is while its
panel is not listed. `Remembered` (what a switch last saw is the list, or it has seen no list yet) is
why a panel that leaves the list takes its switch with it. For the groups, `MissingWereGone` says that
whatever the watcher missed, or will miss when the list comes, has been off the bus; `PanelsTogether`
that panels leave and return as a whole on every list, which makes the group whole. A group's label is
the number of an address because a set of addresses has a least member (`LowestIsMember`).

`PageWritesProofs` also proves the types, among them that no save of a record is pending twice.

The second half of `TrafficProofs` is about `Wire`, for any buffer, any read size below it, any lengths
and any number of frames. The strengthening is about *the stream*: the bytes in the buffer followed by
those that have not been read. It is contiguous (`Contiguous`): frames follow each other without a gap,
though the first may have lost its head to a cut, and it ends with the end of the last frame
(`Complete`). There is no separator in the buffer (`Drained`); what was dispatched or has arrived is
older than everything in the stream or unread (`Ahead`, `Unfinished`); and a frame that is within the
limit and not yet read to its end is in the buffer from its first byte (`Held`). The cut, the split at
separators and the rest that stays are each a piece of a contiguous stream and hence contiguous
(`PieceIsContiguous`), in which a separator is the end of a frame (`SeparatorIsEnd`), a line that is a
message is the whole of the frame it ends (`MessageOfItsEnd`), and a frame that is there from its first
byte is such a line (`WholeIsMessage`). What a read dispatches therefore ascends, and has every object
within the limit whose end it took in. For the refinement the two ways to put this in order must agree,
positions in a buffer and numbers of frames: a finite set of numbers can be put in ascending order
(`AscendingExists`) in one way only (`AscendingUnique`). Both are inductions, done as a least
counterexample, since a set of numbers that is not empty has a least member.

Some theorems are the safe half of a liveness property that stays with TLC:

- `WaitsAreForClosedSockets` (of `EveryWaitEnds`): whoever waits, waits for a transport that was told to
  close.
- `CallsShorten` (of `CallEnds`): whatever the others do and the gateway says, nothing adds to the waits
  a call has left, and running on from one leaves fewer; so only a wait that never ends could keep a call
  from ending.
- `PollingIsTrue` (of `ScreensEndTrue`): once nothing but polls is under way, it stays so; and a
  control of which all answers on their way are true keeps to true ones, and shows the truth as soon as
  it is given one of them, for good.
- `NoVerdictWithoutGrounds` (of `WedgeNamed` and `WarningsFollowTheBus`): the wedge warning stands exactly
  as long as enough drops are counted, the silence warning only while the bus is silent, and an announced
  session is on the watchdog's clock.

Every invariant and action property of a passing run, and every refinement, is a theorem. Only
model-checked are the liveness properties, since fairness and ENABLED are outside what the proof system
handles: `DeadSessionDropped`, `AnnouncementSettles`, `EveryWaitEnds`, `SessionComesBack`, `StopSettles`,
`CallEnds`,
`WedgeNamed`, `WarningsFollowTheBus`, `SavesReachThePanel`, `ScreensEndTrue`.

## Not modelled

The broadcast of `discovery.py`, which keeps no state and has nothing beside it. Constants, texts,
translations, schemas, defaults and selectors of the forms, and the gateway's own form. The message
builders, and `parse_message`'s and `parse_addresses`' tolerance of missing and malformed fields: an
address list that cannot be parsed reads as an empty one, which to the models is one more heartbeat that
lists nobody. `next_free_slot` and `assign_slots`, which are arithmetic on short lists. The identify
button and the pending-update sensor. `describe` and the value events, which are published by address
alone and name a page by a map taken at setup (`__init__.py:510`). `PROJECT.json` gives a reason for each
component.

## Plan

Done: every module above with its run; the proofs of every invariant and action property of a passing
run, and of the refinements of `Session` (by the sockets and by the traffic) and of `Channel`.

1. `Pages` and `Components` composed, so that what falls into a reload meets a page's settings: a
   learned update that writes a stale copy over a form's decision.
2. `Control` extended: covers without a position, which are told as closed; links of another
   controller; the value events.
3. A setup that fails because the port is taken, and the gateway's own form, which changes the port.

`provisioning_live` is a run of its own because two calls share the bound `MaxWire`, which would then
keep one of them waiting.
