# Verification of the Dreame A2 mower integration

This directory holds TLA+ models of the Home Assistant integration in
`custom_components/dreame_a2_mower`, the TLC configurations that check them on
small instances, and proofs that TLAPS checks for every value of the constants.
Paths below are relative to `custom_components/dreame_a2_mower/` unless they
start with `src/` or name a document of the repository.

## 1. The system

The mower speaks MIoT over MQTT: it pushes properties `(siid, piid)`, events,
and answers routed actions. The vendor's cloud answers HTTP RPCs and keeps a
JSON summary of a finished mow in object storage. Home Assistant runs one
asyncio loop; paho-mqtt runs a network thread of its own; blocking file and
HTTP work runs in the executor's threads.

| Component | State | Operations | Hard part |
|---|---|---|---|
| Behavioural state machine, `mower/state_machine.py` | one immutable `StateSnapshot`, a dirty flag, the store on disk | `handle_mqtt_property`, `handle_position`, `handle_heartbeat`, `handle_cloud_poll`, `end_session`, `seed_in_session`, `tick`, `reconcile_from_telemetry`, `save_persisted`, `load_persisted` | six handlers write session, activity and location from independent signals in any order; a reconciler infers the same fields; the cloud's answer is minutes old |
| Session lifecycle, `coordinator/_mqtt_handlers.py`, `_session.py`, `_lidar_oss.py`, `live_map/` | `MowerState`, the live map, the finalize gate, a latch, the finalize coroutines | apply a push; open, track and close a session; decide each 60 s; wait for the dock; fetch; archive; restore | several finalizers of one session overlap; state is computed on one thread and applied on another; a restart falls anywhere |
| Session archive, `archive/session.py` | the index in memory, `index.json`, session files, `in_progress.json` | `archive`, `set_retention`, `load_index`, in-progress read, write, delete | several effects on the disk make one operation; errors are logged and passed over |
| Session records and card, `live_map/`, `_recorder_merge.py`, `session_card.py` | points and samples of the live session, their file | add, retag, persist, merge with the recorder, smooth, derive legs, distances and times | restarts leave gaps that must not become strokes; sums that must agree |
| Notifications, `coordinator/_notifications.py` | the ids seen, a baseline flag | baseline, resolve with retries | baseline after a restart, overlap of two resolvers, the cap |
| Writes and refresh, `coordinator/_writes.py`, `_refreshers.py`, `_cloud_state.py` | schedules with a version, optimistic fields, the cloud state | write a setting, a schedule, an action; poll | read-modify-write over an await, revert of a failed write, a poll that replaces what was just set |
| Schedules, `protocol/schedule_*.py`, `batch_grouper.py`, `services.py`, the schedule card | the slots and version as last read, the plan that is edited | read, edit one plan, replace a slot | every slot is decoded and written anew; the text may shrink; the card edits by index |
| Controls, `switch_global.py`, `select_global.py`, `number.py`, `time.py`, `coordinator/_property_apply.py` | the fields of `MowerState` for the CFG keys | fetch, s2.51 push, write of one position of a list | the whole list is rebuilt for one position; short lists; a push does not say which key it is |
| Map settings, `select_map_settings.py` and siblings | the SETTINGS blob of each map, the mirror of the active one | per-map numbers, switches, selects, AI bits | two fields make one option; the mirror belongs to another map after a switch |
| Cloud client, `cloud_client/` | key, refresh token, expiry, failure count | login, RPC with retries, fetches, `routed_action` | a key that expires between check and use; a command whose answer is lost |
| MQTT link, `mqtt_client.py`, set-up and unload of `coordinator/_core.py` | connection, subscription list, credentials | connect, subscribe, disconnect, callbacks, reconnect | callbacks on paho's thread race the set-up; stale credentials |
| Active map and pickers, `_writes.py`, `_cloud_state.py`, `select_*` | what is believed of the active map, an optimistic target, one zone selection | switch, start, fetch MAPL, pick | the mower, the app and two coroutines move the active map; pickers answer an update inside the update |
| Commands and services, `mower/actions.py`, `services.py`, `lawn_mower.py`, `button.py` | the selections | turn an action into one request or none | selections of targets the map no longer has |
| Binary pushes, `protocol/telemetry.py`, `heartbeat.py`, `wheel_bind.py` | what the wheel-bind detector keeps of the last frame | decode position, areas, flags, task stage | signed 20-bit numbers that share a byte; a widths mix-up; the emergency stop over a reload |
| Lidar archive, `archive/lidar.py`, `_lidar_oss.py` | an index and files per map | push, backfill, move, caps | jobs on one archive interleave without a lock |
| Wifi heatmaps, `wifi_archive_store.py`, `_wifi_archive.py`, `wifi_match.py` | an index and bodies | refresh, match a lawn, tag | overlapping refreshes; a crash between body and index |
| Maps, `map_decoder.py`; pictures, `coordinator/_rendering.py`; work log, `coordinator/_session.py` | decoded maps, static pictures, main view and base, replay picture, caches keyed by md5 | decode, draw, replay | two drawings overlap and the older may finish last; a cache of obstacles that no one clears |
| Entities that only show, entry set-up, observability, inventory, painting, tools | caches | display and forms | no protocol of their own |

How they interact. A push is decoded on paho's thread into a whole new
`MowerState`, and handed with `call_soon_threadsafe` to `_apply` on the loop,
which opens and closes sessions and publishes the state. The same message is
given to the state machine directly. A 10 s timer ticks and reconciles the state
machine from what the session code knows (is a live map active, has it mowed,
where is the mower), a 60 s timer asks `finalize.decide`, a 30 s timer writes
`in_progress.json`. A finalize coroutine ends by calling back into the state
machine (`_fire_mowing_ended` calls `end_session`); a restore calls
`seed_in_session`.

Controls, buttons and services call the coordinator on the loop; it writes through
the cloud client in executor threads, and a refresh each 2 minutes brings back what
the cloud has: CFG, SETTINGS, schedules, MAPL and the maps, from which the pictures are
drawn. What a command does is seen only by its pushes.

What makes the components correct, and is stated below:

- state machine: session and activity agree whatever the order of the inputs; the
  reconciler comes to rest; a lagging cloud does not dock a mower that is out; silence
  is noticed;
- lifecycle: one finalizer of a run without summary at a time; nothing that
  reached the disk is lost; a session is ended only when its run is over, and in
  the end always;
- records: the legs, distances and times of a session add up over restarts;
- archives: a row and a file go only for a replacement or by the cap; one row per
  session; no row without its file;
- notifications: an alert is shown once, and one after the baseline is shown;
- writes and controls: a write of one field does not undo another's; a failed write
  leaves what others wrote; what is shown is in the end what the cloud holds;
- cloud client: a command runs only on request and is reported accepted only if it
  ran; a refused key is renewed;
- MQTT link: no subscription is lost to a race; sessions are restored before pushes;
- commands: the mower mows on the map, and only at targets, it was asked for;
- maps and pictures: a map is decoded to what was drawn; undisturbed, every picture
  is in the end that of the present.

## 2. The modules

| Module | Models | Lines it follows |
|---|---|---|
| `SnapshotHandlers` | every handler of the state machine as a function from a snapshot to the next | `mower/state_machine.py`, `mower/state_snapshot.py` |
| `MowerStateMachine` | the machine: inputs, hooks, tick, save, restart; its properties | the same, `coordinator/_core.py:697` |
| `MowerStateMachine_proofs` | theorems about `MowerStateMachine` | |
| `SessionLifecycle` | pushes, live map, gate, finalize coroutines, in-progress file, restart | `coordinator/_mqtt_handlers.py`, `_session.py`, `_lidar_oss.py`, `live_map/` |
| `SessionLifecycle_proofs` | theorems about `SessionLifecycle` | |
| `SessionArchive` | the index, the files and retention, effect by effect | `archive/session.py` |
| `Notifications` | the cloud's message store, the baseline and the resolvers | `coordinator/_notifications.py`, `_mqtt_handlers.py:615` |
| `Writes` | settings, CFG and schedule writes, the lock, the refresh and the mirror | `coordinator/_writes.py`, `_settings_writes.py`, `_cloud_state.py`, `services.py:200`, `number.py:276` |
| `Writes_proofs` | theorems about `Writes` | |
| `RoutedAction` | what a command promises: the abstract specification of `CloudClient` | `cloud_client/_rpc.py` |
| `CloudClient` | requests of several threads: login, expiry, 401, retries, the log of a command | `cloud_client/_auth.py`, `_rpc.py` |
| `MqttLink` | connection, subscription and callbacks over set-ups, drops and rotations of the key | `mqtt_client.py`, `__init__.py`, `coordinator/_core.py` |
| `ActiveMap` | the active map and what is believed of it: switches, starts, fetches of MAPL | `coordinator/_writes.py`, `_mqtt_handlers.py:116`, `_refreshers.py` |
| `Mower_proofs` | theorems about `MqttLink`, `ActiveMap`, `MapCommands`, `Controls`, `MapSettings`, `Frames` and `CloudMaps` | |
| `MapCommands` | `ActiveMap` and the pickers of several maps | `coordinator/_writes.py`, `_refreshers.py`, `_select_base.py`, `select_global.py` |
| `PythonValues` | None, `x or default`, a filtered list: what several modules share | |
| `Controls` | the CFG keys, their fields, and the entities that write them | `coordinator/_property_apply.py`, `protocol/config_s2p51.py`, `switch_global.py`, `number.py`, `select_global.py`, `time.py` |
| `MapSettings` | the settings each map has of its own | `select_map_settings.py`, `_switch_base.py`, `number.py` |
| `Commands` | selections, and the request of every action, button and service | `mower/actions.py`, `services.py`, `button.py`, `select_global.py` |
| `Frames` | the binary pushes, the wheel-bind detector, the emergency stop | `protocol/telemetry.py`, `heartbeat.py`, `wheel_bind.py` |
| `Tracks` | points and samples of a session, the file, the merge, the card | `live_map/state.py`, `coordinator/_recorder_merge.py`, `session_card.py` |
| `Scans` | the lidar archives | `archive/lidar.py`, `coordinator/_lidar_oss.py` |
| `Heatmaps` | the wifi archive and the matching of a heatmap with a lawn | `wifi_archive_store.py`, `coordinator/_wifi_archive.py`, `wifi_match.py` |
| `CloudMaps` | the decoding of maps and their sub-devices | `map_decoder.py`, `protocol/cloud_map_geom.py`, `coordinator/_device_sync.py` |
| `Schedules` | records, chunks, the service, the card that edits a plan | `protocol/schedule_decode.py`, `schedule_encode.py`, `batch_grouper.py`, `services.py:200`, `www/dreame-a2-schedule-card.js` |
| `Pictures` | who draws which picture when and from what | `coordinator/_rendering.py`, `_cloud_state.py` |
| `WorkLog` | the replay of an archived session | `coordinator/_session.py`, `select_global.py`, `number.py` |
| `Data_proofs` | lemmas about numbers, finite sets, sums and lists | |
| `Records_proofs` | theorems about `Notifications` and `Tracks` | |
| `Archives_proofs` | theorems about `SessionArchive`, `Scans` and `Heatmaps` | |
| `Requests_proofs` | theorems about `Schedules`, `Commands`, `Pictures`, `WorkLog` and `CloudClient` | |
| `MCMachine`, `MCSession`, `MCArchive`, `MCNotifications`, `MCWrites`, `MCCloudClient`, `MCMqttLink`, `MCMapCommands`, `MCValues`, `MCMidnight` | model values for TLC, and the composition of components that share a run | |

Components that interact in nothing, or only through values of `MowerState`, are checked in one state
space, where a variable `part` says which of them a behaviour is about and the others
rest (`MCValues`, `MCMapCommands`, `MCArchive`, `MCNotifications`): one run instead of many, with no product
of independent states.

A definition named *Faulty* in its comment is a plausible bug of the code: it is
used nowhere in the specification, and put in place of the definition it
follows it must break the property `PROJECT.json` names.

### State machine

Each handler of the code collects updates in a dict and ends in one call of
`_replace`; here it is a function with one `EXCEPT`, and an action of
`MowerStateMachine` applies it and sets the dirty flag. `Tick` is the body of the
10 s timer: staleness, `reconcile_from_telemetry`, then the debounced save, which
awaits the store and therefore ends in an action of its own, `SaveDone`. A restart
may find the store before or after a save in flight. What the session code tells
the reconciler (live map active, mow evidence, position) is any combination: the
coordinator's coroutines change it between any two ticks.

Of `field_freshness` only the location's stamp is read by the code, and only it
is kept. The two coordinates of a position are one distance from the dock:
handlers compare distances only. `handle_position` of the code runs on paho's
thread; here every handler is one step, so two threads between the read and the
replace of a snapshot are outside the model (a hazard with its line in
`PROJECT.json`).

### Session lifecycle

A push is `Receive`d (paho's thread computes the new state from the data of that
moment) and `ApplyPush`ed or `ApplyNewCommand`ed (`_apply` on the loop). A finalize
coroutine occupies a slot of `Tasks`, and its `pc` names the await it is in: the
wait for the dock, the fetch, the read of `in_progress.json`, the archive, the
delete; `Finish` is the code after the last await. `hass.async_create_task` starts
a coroutine at once up to its first await, so guards and latch are part of the
action that creates it. The payload a finalizer archives is captured where the
code captures it. `PeriodicRetry` is the 60 s timer with `Decide`
(`live_map/finalize.py`), whose ages are the facts `aged` and `recent`.

What a session holds is abstracted to the set of runs of the device it followed
(this tells apart a merged, split or lost session), `start_ts` to a count.
A patrol behaves as a mow, a cruise or a manual drive as a run: the code asks one
question of the kind, whether the cloud writes a summary. Left out: rendering,
entity events, telemetry streams other than the start codes of a mow, the merge
with the recorder on restore, the age limit of `in_progress.json`, and a retained
push that arrives before the restore.

### Session archive

`archive()` and `set_retention()` are calls in progress, one per member of `Jobs`,
and their actions are the single effects on the disk: the session file, each
unlink, `index.json`. A file or the index is written to a temporary name and
renamed, which is atomic. Any write and unlink may fail with an `OSError`, handled
where the code handles it (logged, returned from, or propagated), and a restart
may fall between any two. A row is the fields that identify and order it.

### Notifications

A baseline or a resolver is a job: it starts, its request reads the cloud's store
(`Answer`), and it resumes on the loop with that page (`FinishBaseline`,
`FinishResolve`), or its fetch fails (`FetchFails`). Between the last two other jobs
run and up to `MaxLag` records are posted, so a job may resume with an old page. A
record is its position in the store, and its source is an `s2p2` code; the wait of
10 s before the fetch is the step between the start and `Answer`. The seen ids are
an `OrderedDict` whose first entries leave at the cap; here each id maps to the
set of ids marked after it, and it leaves when that set reaches the cap. This
says the same with sets only, and is what the proof counts.

### Writes and the refresh

There are three ways to write, and they differ in where the rest of the blob comes
from and in what holds the lock. A field of SETTINGS is shown, waits for
`_chunked_write_lock`, fetches the blob under it (`FetchFresh`), and sends the blob with
its field replaced (`PutSettings`, `Put`). A slot of the schedule is put among the
slots of `cloud_state` before the lock is taken (`BeginSchedule`). A part of a CFG key,
as `BAT` has six, is put among the parts `MowerState` shows, with a default for those
never read, and sent without the lock (`BeginCfg`). A failed SETTINGS write reverts
its field after the refresh that follows it (`End`), a failed CFG write puts the
whole `MowerState` back (`Resume`).

A coroutine is a slot of `Jobs`; `pc` names its await. A request is one step in the cloud
(`FetchFresh`, `Put`, `FetchState`), and the resumption on the loop another. `Put` has
the outcomes a client sees: accepted, refused, or no answer, in which case the blob has
arrived, never does, or is in `late` and arrives later (`ArriveLate`). The lock is the
queue of those that wait, its holder first: `asyncio.Lock` is fair. The app writes at any
time (`AppEdits`), and the mower pushes a CFG key as it has it (`Push`). `raced` is the
one history variable: it says that the app or a late request has written SETTINGS since
the fetch, which no lock of the integration can prevent.

One active map is modelled, and one CFG key. AI_HUMAN (a value of its own under the same
lock), the AI bits and `dispatch_action` are left out; the codec of the schedule is in `Schedules`. That the
cloud serves an old CFG for some minutes after a write, as `protocol/settings.py` has it,
is contradicted by `docs/research/wire-captures/cfg-write-regression-2026-05-09.md:70`
and is not modelled: a fetch reads what the cloud holds.

### Cloud client and the promise of a command

`call[t]` is the request a thread of the executor is in, `client` what all threads
share: the key, the refresh token, the expiry, the count of failures and
`_last_send_error_code`. A request is posted (`PostFetch`, `PostCommand`), and lost, refused or
answered; `OnLost`, `OnRefused` and `OnAnswer` are the code up to the next wait of the
thread, `AfterLogin` what follows a login. A command ends in an entry of `endpoint_log`
(`Report`). `RoutedAction` says what that entry promises: the mower has run the
command at most `MaxTries` times, each time for a request of this command, and
*accepted* means it has run; the refinement `Promise` maps the threads' program
counters to the phase of each command, and `KeepsPromise` is `Promise!Spec`. What is not
promised is part of the abstract specification too: a command that failed may have run,
and a lost request may arrive after the report or after a later command.

The cloud keeps the other sessions of an account on a login. Seen while modelling: the
log line "5 consecutive HTTP failures" (`_rpc.py:335`) is written at the sixth; as
`_last_send_error_code` is shared, a command may be logged as rejected for the answer
another thread got; a key withdrawn together with its refresh token, whose password
login is lost, is renewed only when the expiry passes, which is why `KeyIsRenewed` needs
time to pass. The queue of `send_async` is called by nobody.

### MQTT link

Each set-up makes a coordinator with a client of its own, and a failed set-up drops the
coordinator but not the client. `conn[c]` is where paho's thread is; `SetupStep` is the
set-up on the loop and the executor, up to `subscribe()`. `accepted`, `resubscribing`
and `up` split `_on_connect` where it reads what `subscribe()` writes, as the hazard is
the order of these four accesses. The broker accepts the account's key of now; a rotation
changes it and the client keeps what it was given.

Seen while modelling: `_connected` is not reset when a connection drops; when the first
`connect()` raises, `_client` stays None and nothing retries until a reload; a set-up
that fails after `_init_mqtt` leaks its paho client; the credentials are never updated,
so that a refused password (rc = 5) is refused for ever, although the module says that
the coordinator repairs it (`mqtt_client.py:317` against `:27` and `:118`). `Listens` is
therefore claimed while the password counts, and `UnloadedIsOff` excepts failed set-ups.

### Active map and pickers

The mower's map, the belief of the coordinator (`_active_map_id`, what the last MAPL
answer said) and the optimistic target of the select are three variables. A call is a
coroutine that believes, switches when the belief differs, and starts; a fetch reads the
mower and resumes later. `updates` is the stack of the updates that are under way inside
each other, each with the listeners that it has yet to call: `Refresh` is a picker's answer
when it is called (`TellListener`), `Select` the update that it may begin in turn, and
`EndUpdate` the return to the picker that began one. Nothing else runs meanwhile, as none
of this awaits. Listeners are called, and pickers added, in any order.
`SelectionSettles` says that the stack ends.

`ShownIsMown` and `SelectionSettles` hold for maps whose zones have the same numbers.
The pickers share one selection: with unequal numbers the picker of one map shows a zone
that the next start does not mow, and with disjoint ones two pickers answer each other
without end; so do two edge pickers. `MowsOnGivenMap` is claimed for a map known at the
time, a switch that arrived and nobody else switching: a start on a map believed active
and left in the app mows the other one. Also seen: `dispatch_action` swallows every
failure, so the `except` branches of `_ensure_active_map` and of the select are dead; the
10 s timer of an earlier selection clears a later target; an edge mow takes the contours
of a stale `_active_map_id` (`coordinator/_writes.py:519`).

### Controls and map settings

A CFG key is a list; a control stands for one position and writes the whole list, the
other positions from `MowerState`, with a default when never read. `Fetch` is
`cfg_to_state_updates`, with short and garbled lists, and a push (`Receive`) has to be
recognised by its shape. The abstraction is one key at a time. `OtherPartsKept` claims the
other positions whenever Home Assistant shows the key as the mower has it; its run leaves
out minute 0, and `MCMidnight` shows why. Also seen: a short list of s6.2 sets the other
fields to None; a malformed key is partly applied although the docstring says omitted; a
push of LOW with all elements at most 1 is taken for ATA; a control used before the
first fetch sends defaults.

In `MapSettings` a write replaces a field in a fresh blob and refreshes; a toggle of
the AI bits computes the number from the last refresh when it is pressed (`toggle.old`),
so that two toggles before a refresh lose the first, and `ChosenIsShown` claims one whose
number was still true. The optimistic value of another map's setting goes to the mirror
of the active one until the refresh.

### Commands

`Dispatch` turns an action, with the selections of that moment, into a request, or none;
buttons, the lawn_mower entity, the mode select and the services are its callers. `table`
is the map's zones, spots, contours and points, and a refresh may replace it. What becomes
of the request is `RoutedAction` and `MapCommands`. Seen: an edge selection is lost by a
restart although a comment (`select_map_settings.py`) says the refresh resolves it; the
service text "Empty list edges every contour" (`services.py:66`) differs from the code,
which takes the outer perimeters; the button for a point stays available for one the map
no longer has; `mow_zone` with an empty list changes the mode and sends nothing.

### Frames

Frames are sequences of bytes, written here as the mower does (`Full`, `Short`,
`Heartbeat`) and read as the code does, so that `ReadingsAreMowers` compares two independent definitions over
values at the borders of their bits. The wheel-bind detector is a function of the frame
and of what it kept of the last one. The banner of the emergency stop is followed over
reloads: a PIN entered during a reload leaves it up, as unknown to False does not dismiss
it, so the property says that it is up whenever the flag is, not the converse.
`area_mowed_m2` is read with 16 of 24 bits and wraps at 655.36 m2, which the property
states as it is.

### Records of a session and the card

A step of time is the half minute after which the pen is up. `Points` adds points with
their role by the area that has grown, `Samples` the codes; `Session` saves, goes down,
comes back with file and recorder, ends, and hands the raw record to the card. `LegsAddUp`
compares the two algorithms of the card that sum the same way differently, and
`TimesAreTold` the minutes with what was told, not with what was recorded.

The recorder merge is modelled for the error codes only. `_recorder_merge.py` reads
`sensor.dreame_a2_mower_task_state_code` for the states, whose sensor holds the stage of
s2.56 and not the status of s2.1 that `state_samples` keeps
(`coordinator/_mqtt_handlers.py:768`), and whose entity id, by its name, is probably
`..._task_state_raw`; so the merge gets nothing, and would get other codes if it matched.

### Lidar archive

A job is a push, a backfill, a move or a change of options, awaiting a download or running
in the executor; the steps between are what other jobs interleave with. `RowsHaveFiles`
is claimed when no job runs. Seen while modelling: the name of a push is latched before
its download, so a failed one is not retried; a moved scan is fetched again into the
active map by the next backfill; a push and a backfill may list one content twice
(`ScanOnce`, "Idempotent by md5", is stated in the module and not claimed); a prune beside
an append drops the new row and orphans its file; a backfilled scan is stamped now, so
that a pruned one returns as the newest; a move does not enforce the caps of its target.
A crash between an unlink and the save of the index is not modelled.

### Schedules

The mower's schedule is a text of slots, each with a blob of binary records, cut into chunks.
`PlansOf` groups the records of a slot to plans, `BlobOf` makes records of plans again, and
`SetSchedulePlans` sends every slot anew when one is edited: the service, `write_schedule`
and the refresh in one step (their interleavings are in `Writes`). A byte is a number, a mask
of weekdays a set of days, a name a sequence of characters. `SavePlan` and `DeletePlan` are
the buttons of the card, which holds the index of the plan it edits while the cloud state
changes below it. `PlanEditsLand` compares the records before and after, as the mower reads
them, not the plans. It speaks of zones below 256; an entry without a mode would get mode 0.

It is claimed of a cloud state that is current and can be read. Seen while modelling: a slot
with a record the decoder does not know, and an entry whose id is no number, are emptied or
dropped when another slot is edited (`services.py:201`: "leave other slots untouched"); a
text that takes fewer chunks than the last leaves the old ones, which `join_family_chunks`
appends (no `.info` is read), so the schedule reads as empty from then on, and the next write
has lost the other slots; the card replaces whatever plan stands at the index it opened
(line 288 of the card), also when the plans changed since; the sensor does not tell the card
the extra byte of an edge plan (`sensor_device.py:900`), so the card, which "supports add /
edit / delete", cannot save any change of a slot with an edge plan, as
`encode_schedule_blob` raises; a zone above 255 is cut to its lower byte.

### Heatmaps

A refresh lists objects, downloads those the store has not, matches each with a lawn by
the samples of sessions, and archives it; `Match` is the score of `wifi_match.py` over
one dimension. The store's operations hold its lock, but its writes are not renamed into
place, so a crash leaves a body without its row, and the object is skipped for ever after.
Seen: an unreadable index reads as empty and the next `archive()` overwrites it;
overlapping refreshes may give a heatmap to another map than the last; two entries with
one label are one option of the select; a body that could not be loaded is cached as
None.

### Maps and pictures

`CloudMaps` decodes the sections of a map, with every form an entry may have, and the
malformed ones; `MapIsTrue` relates what is decoded to what was drawn. The md5 is made
from the ids and first vertices of the zones, the first points of the exclusions, the size
and the dock: other changes leave the static picture as it was, and the property claims
only that its coordinates fit, and not of a lawn without extent, which has no dock to place
it: its picture stays wherever the app moves it. An exclusion without a readable corner raises and loses the
whole refresh, although the docstring of `parse_cloud_maps` says partial results beat
that. `DevicesLast` is claimed for answers that are whole or empty: a list torn in one
segment removes the other map's sub-device (torn answers are not in the run).

`Pictures` has a task for each drawing, from what it read at its start to what it stores
at its end. Two older drawings may overtake newer ones, so `PicturesCatchUp` is claimed
when a refresh has run alone to its end (`calm`). The cache of obstacles is keyed by the
md5 and cleared in one place (`_lidar_oss.py:646`), not "whenever a new session is
archived" (`coordinator/_core.py:247`), a load that began earlier may fill it again, and a
failed load caches that there are none. Phases stand for session and activity together,
the throttle is a choice, a refresh reads maps and MAPL at one moment.

### Work log

A replay awaits the executor five times: index, body, map, picture, base. `trust` is a
history variable that says whether the last request ran alone to its end, and
`ReplayIsOfPick` claims only those: overlapping ones mix the picture, base, card and
option of two sessions, a change of the width during a pick draws the former session
again, and a pick that ends after the placeholder was chosen brings its picture back. A
replay that ends early still sets the option. The live fetch as the last resort never
gives a map: `fetch_map` answers a dict by map id, in which `parse_cloud_map` finds no
boundary. A session without zones of its own is drawn on today's although the comment
says "shows what was actually in place during the mow".

## 3. The runs

| Run | Question | Bounds | Result |
|---|---|---|---|
| `MCMachineSafety` | Do session and activity agree under every order of inputs, and on what does the reconciler settle? | the codes that reach each branch of each handler, two battery levels, three positions, two points in time 60 s apart (both sides of the 30 s and 60 s windows) | holds, 203 thousand states |
| `MCMachinePersist` | Is silence noticed after a restart from any snapshot? | one save, one restart, a mower that falls silent | holds, 54 thousand states |
| `MCSessionCrash` | Latch, nothing lost, and edges that mean an end, with lost pushes, failing fetches and a restart at any moment | one run of either kind, two overlapping finalizers, one push in flight, one restart | holds, 2.2 million states |
| `MCSessionRuns` | Is each session finalized in the end, with disk errors, the button and a second run that may merge? | two runs without summary, one press | holds, 326 thousand states |
| `MCArchive` | When may a row, a file or a heatmap go, and are pictures true after a refresh? | five rows of three sessions, caps none and two, any failing write, one restart; three objects, two refreshes, three visits of crashes and ends; two drawings, one archived session, two events | holds, 3.2 million states |
| `MCNotifications` | Is a record fired once, is an old one never fired, is one on the page passed over? Is a replay of one session? | two jobs, two codes, a page of two, a cap of three, no lag, five records, one restart; two replays of three logs, two options, two widths, three requests | holds, 979 thousand states |
| `MCWrites` | Can two writers of SETTINGS undo each other, can the lock be lost, does the view converge? | two coroutines, two edits in Home Assistant or the app, two fields, one part, one slot, two values; a refresh misses every family or none | holds, 566 thousand states |
| `MCCloudClient` | Does a command keep its promise and end, is a refused key renewed? | two threads, one command of three tries, two faults, a failure limit of two | holds, 166 thousand states |
| `MCMqttLink` | Is a subscription lost, does a push come before the restore, does a loaded coordinator listen? | three set-ups, two drops, one rotation | holds, 284 thousand states |
| `MCMapCommands` | Does a mow run on the map it was asked for, does the select converge? Do the pickers agree, and settle? | two maps, two calls, two fetches, one switch in the app, two starts, one fault; pickers of two maps with the same zone numbers in different orders and of one without zones, one fetch, one switch in the app, one restart, two picks, nesting of four | holds, 207 thousand states |
| `MCValues` | What the entities show and write, and what the mower and the cloud tell, each component in a part of its own | three edits, two reads, two changes of a map's setting, four commands, four frames, five half minutes, three pushes and two jobs of scans, four versions of a map, three writes of schedules | holds, 771 thousand states |
| `MCMidnight` | Does a switch keep a period that begins at midnight? | minutes 0, 480 and 1200, two edits, one read | violated |

Why the bounds are enough. The interesting cases need two of something: two
finalizers of one session, two runs of which the second overtakes the end of the
first, two rows competing for a cap. A third adds no branch: a finalizer reads the
shared state only, and the latch knows taken and free. The codes given to the state
machine are one per branch of its handlers. `MaxInFlight = 1` is a real limit
of what is shown: with two pushes in flight the second is computed from data that
the first has not reached (`coordinator/_mqtt_handlers.py:783`) and undoes it,
and nothing in the code prevents this; no property is claimed for that case.
Likewise `NothingOnDiskIsLost` is claimed for one run and a disk that works:
with a second run a late finalizer deletes the next session's `in_progress.json`
(`coordinator/_session.py:811`), and a failed archive write is followed by the delete
all the same. `MCArchive` has one call of the session archive at a time, as two calls in two
threads race (`archive/session.py:509`); `OneRowUnlessAtOnce` has any number, and says that
`OneRowPerSession` needs no more than that no two of them archive the same session at once.

The page of 10 and the cap of 100 of `coordinator/_notifications.py` become 2 and 3: the
ids outgrow the cap, and 3 is the least cap for which the claim holds with no lag,
`2 * (Page + MaxLag) - 1`. The theorems cover the real values, for any lag up to
40 records. A page may still be old in the run: `MaxLag = 0` forbids a post
between `Answer` and the resumption, not the steps of the other job.

In `MCCloudClient` two threads are enough to change every shared field between two steps of
another, and three tries are the code's own number; two faults allow a refused key and a
lost login, the least that leaves the refresh token dropped. The three set-ups of
`MCMqttLink` allow one that fails after the connection was made, its retry, and a reload;
`Mower_proofs` has any number. In `MCValues` the values stand at borders: the poses at
the ends of 20 bits and on both sides of the dock, areas on both sides of 16 bits, minutes
of which one is the default; five half minutes hold a gap, a restart in it and a flip of
the role at its end. The schedules hold two zones at one time on different days, an edge plan,
two chunks, a time below 256 and the last minute of the day. `Scans` was also checked with three jobs (2.4 million states), and
`Heatmaps` with four visits (1.1 million), apart from the other components.

In `MCWrites` two coroutines are enough to overlap a write with a write, with a
refresh or with the revert of another; a third would only wait in the queue, and
`FreshWrites` is proved for any number. One edit changes a value from `v1` to `v2` and a
second may be of the same field, of another or in the app: nothing in the code counts
edits.

Deadlock is checked in `MCWrites` and `MCCloudClient`, where a timer goes on for ever. In
the other runs restarts, presses, edits and the clock are bounded, so every model comes to
an end where the real system goes on.

Fairness. `MowerStateMachine` assumes it of `Tick` (a timer that keeps firing) and
`SaveDone` (a write that returns). `SessionLifecycle` assumes it of the callbacks the
loop runs (`ApplyPush`, `ApplyNewCommand`), of the timer and of time passing
(`PeriodicRetry`, `RetryDue`, `PendingAges`), and of each coroutine being resumed, as
each of its awaits has a time out. `Writes` assumes it of the requests, which have a
time out of 15 s (`Requests`), of their resumption on the loop (`Loop`) and of the 2 min
timer (`StartPoll`); that answers are complete is not assumed but is the hypothesis of
`ViewConverges`: if from some time on they are, then the view converges. `CloudClient` assumes that
requests time out or are answered (`Proceed`), that timers keep fetching (`Fetch`) and
that time passes (`Expire`). `MqttLink` assumes it of the executor and of paho's thread
(`SetupStep`, `PahoStep`, which reconnects with a delay) and of the retry that Home
Assistant makes of an entry that is not ready (`SetupEntry` on retry); drops, reloads and
rotations are unfair. `ActiveMap` assumes it of the 2 min timer and its answers
(`FetchStep`), of coroutines (`CallStep`) and of the 10 s timer (`ClearOptimistic`). Nothing
is assumed of the mower, the user or the network, and of the cloud no more than that it
answers or is given up.

### What the violated run shows

**A switch moves a period that begins or ends at midnight** (`MCMidnight`). The list that
DND or the slow night is written with is built with `int(start or default)`
(`switch_global.py:67`). Minute 0, which `time.py` lets the user set and the mower reports,
is false in Python, so switching DND on or off writes 20:00 or 8:00 in its place.
`switch_global.py:350`: "All 3 fields stored in MowerState (dnd_enabled, dnd_start_min,
dnd_end_min). Safe to reconstruct."

### Disagreements the models contain

The properties above are stated so that they hold of the code as it is; these are the
places where a comment, a document or a test says more than the code does, and the
behaviours that the statements therefore leave out.

- *A restart can end a run that goes on.* The restore sets `_prev_task_state = 0`, and
  every push that is not `s2p56` carries the default `task_state_code` None; the edge 0 to
  None finalizes a session without cloud summary (`coordinator/_mqtt_handlers.py:555`). The
  gate of the periodic retry exists because a restart "would falsely fire
  FINALIZE_INCOMPLETE on a still-active session" (`coordinator/_core.py:108`); this edge
  does not ask it. `EdgeMeansEnded` excludes the time before the first task state.
- *After a split nothing re-begins.* The split returns before `_on_state_update`, and the
  task state of that push is dropped (`coordinator/_mqtt_handlers.py:1010`); the comment at
  `:990` expects "the next s1p4/s2p56 push re-begins cleanly".
- *A pending name can stay for ever.* Without a live session and a file
  `_run_finalize_incomplete` returns early and keeps the pending fields
  (`coordinator/_session.py:723`); `README.md:97` of the repository promises "no more
  sessions stuck "fetching summary" forever".
- *A failed CFG write takes back what others changed*: `write_setting` puts the whole
  `MowerState` of before its await back (`coordinator/_writes.py:317`);
  `tests/integration/test_coordinator.py:518` says that field_updates are reverted.
- *A schedule write replaces the other slots* with those of `cloud_state`, read before the
  lock (`services.py:231`); `services.py:201`: "leave other slots untouched".

The subsections of part 2 name those of the other components.

Smaller ones, in the models too:
`connect_status = 0` while charging takes the location off the dock although the
comment at `mower/state_machine.py:884` says charging implies the dock; the dirty flags
of `save_persisted` and `_persist_in_progress` are cleared although the state changed
during the await (`mower/state_machine.py:859`, `coordinator/_session.py:1004`); task codes 4,
13 and 16 do not end REPOSITIONING (`mower/state_machine.py:174`); overlapping
dispatches make more than `MAX_ATTEMPTS` fetches (`live_map/finalize.py:123`,
`README.md:97`); a leftover area makes a cruise a mow that waits for a summary
(`live_map/classify.py:59`); a run started before its predecessor is ended joins it
(`coordinator/_mqtt_handlers.py:988`); a record that reaches the store after its resolver
has fetched is fired by the next transition to the same code, however much later
(`coordinator/_notifications.py:40` accepts that it is missed); a transition before the
baseline is answered by a baseline, which marks the new record seen with the old
ones.

### Hazards that no property covers

At these lines something can go wrong of which nothing is claimed, because the code makes
no promise there or breaks it; unless said otherwise the models contain it.

| Line | What can go wrong |
|---|---|
| `mower/state_machine.py:859` | the snapshot changes while the store is awaited, the dirty flag is cleared all the same |
| `mower/state_machine.py:31` | two threads between the read and the replace of a snapshot (outside the model: a handler is one step) |
| `coordinator/_mqtt_handlers.py:783` | a push is computed from data that earlier pushes have not reached, and undoes them |
| `coordinator/_mqtt_handlers.py:492` | a leftover area makes a cruise a mow that waits for a summary |
| `live_map/finalize.py:123` | overlapping dispatches make more than `MAX_ATTEMPTS` fetches |
| `coordinator/_session.py:998`, `:811` | `in_progress.json` is written while it is deleted, or deleted after the next session wrote it |
| `coordinator/_session.py:327` | overlapping replays mix two sessions |
| `archive/session.py:520` | a failed write is answered like a duplicate, and the file is deleted |
| `archive/session.py:610` | a placeholder archived after its session stays |
| `archive/session.py:509` | two calls in two threads work on one list |
| `archive/session.py:252` | an unreadable index is taken for an empty one |
| `coordinator/_notifications.py:130` | a record later than the wait is fired by the next transition to its code |
| `coordinator/_writes.py:100`, `cloud_client/_fetchers.py:447` | a schedule is built on old slots, or on none |
| `number.py:91` | a part that was never read is sent as its default |
| `protocol/batch_grouper.py:40` | a schedule that became shorter is joined with its old last chunk |
| `www/dreame-a2-schedule-card.js:288` | the card edits the plan at an index, of a list that was replaced since |
| `cloud_client/_rpc.py:374` | the error code in the log is another thread's |
| `mqtt_client.py:317` | a password that was replaced is tried for ever |
| `coordinator/_core.py:423` | a set-up that fails leaves its client running beside the next one's |

## 4. The proofs

`MowerStateMachine_proofs` shows, for every set of codes, levels and positions and
every bound that satisfies `MachineAssumption` (the constants are sets of naturals or
integers) and `NoneAssumption` (None is no integer):

- `TypeCorrect`: `Spec => []TypeOK`;
- `Coherent`: `Spec => []SessionActivityCoherent`;
- `OnlyChargingDocks`: `Spec => OnlyChargingDocksASession`.

The inductive invariant is `IInv == TypeOK /\ SessionActivityCoherent`. Coherence
speaks of three snapshots, the current, the stored and the one being written, and
is not inductive of the current alone: a restart resumes one of the other two.
Type correctness is needed because the handlers branch on fields. For each handler
a lemma says that it returns a snapshot, and one that it keeps coherence;
`ReplaceKeeps` lifts both to actions, and `Inductive` has one step per action.
`OnlyChargingDocks` follows from `IInv` by one lemma per handler on the location it
returns. All of it is by cases over finite enumerations and record updates.

`Records_proofs` shows of `Notifications`, for every page size, lag, cap and number of jobs that
satisfy `NotificationsAssumption`:

- `FiredOnce`: `Spec => []NothingShownTwice`;
- `OldQuiet`: `Spec => OldStaysQuiet`;
- `NoneSwallowedEver`: `Spec => NoneSwallowed`.

The inductive invariant says that the seen dict is in order (what was
marked after an id is another id, and not much older), that a page in flight
is recent, that a resolver runs only after a baseline, and that an id that was
fired or is older than the last start is seen as long as any page can still hold
it. The last is the heart of it: an id leaves at the cap only after `SeenCap`
others were marked after it, all of them from pages at most `Page + MaxLag` from
the end of the store; `CapSuffices` counts that there are not so many within
reach of a page that still holds the id. The assumption on the cap is what the
count needs; with a smaller cap TLC fires a record that was seen.
`NoneSwallowed` needs no count: what is seen was marked by a baseline or was fired
(`SeenForAReason`).

`Writes_proofs` shows, for any sets of fields, parts, slots, values and coroutines that
satisfy `WritesAssumption` and `NoneIsNoState` (None is no value and no cloud state):

- `TypeCorrect`: `Spec => []TypeOK`;
- `FreshWrites`: `Spec => []SettingsWriteIsFresh`.

Freshness is not inductive: that the blob of a writer is what the cloud holds must
survive the steps of all the others. The invariant adds that whoever is between its
fetch and the release of the lock is the head of the queue (`LockHeld`), so of all
coroutines only one can write SETTINGS; that what was fetched and not raced is the
cloud's (`BasesFresh`); and what each coroutine holds at each of its awaits (`JobsOK`).
`StepKeeps` lifts what is shown of the one coroutine that moves to all of them, `LocalStep`
is its case for the steps that touch neither cloud nor lock, and `OutsideKeeps` covers the
steps of nobody's coroutine; then there is one lemma per action. It is the lock that the
proof needs: with `FetchUnlocked` TLC violates the property.

`SessionLifecycle_proofs` shows, for any number of runs, finalize coroutines, restarts and
presses that satisfies `SessionAssumption`, whatever is lost and whatever fails:

- `TypeCorrect`: `Spec => []TypeOK`;
- `LatchExcludes`: `Spec => []LatchIsHeld`;
- `EdgeEndsWhatIsOver`: if `MaxInFlight = 1`, `Spec => EdgeMeansEnded`;
- `OneRunIsKept`: if `MaxRuns = 1` and `~DiskFails`, `Spec => NothingOnDiskIsLost`.

The latch is proved with `LatchedLate`: only a coroutine that archives, deletes or finishes
has taken it, so none that gives up does so with the latch held, which would keep it for
ever. `TaskMoves` lifts what is shown of the coroutine that moves to all of them.
Types need that a mower that never made a run has nothing to say (`NothingBefore`),
as a session and a summary name the run of the device. The edge needs what was in flight:
`EInv` adds that what the gate observed is what `MowerState` holds, that the live map, the
file and its payload record runs of the past only, and that a push that is going to end
the session finds its run over (`EdgeInFlight`). That no second push is in flight is what
the proof rests on, and the code does not grant it: with a longer inbox a push is computed
from data that the first has not reached, and the next run may have begun and have joined
the live map before the end of the last is applied.

What is on the disk stays because of what a finalizer has in hand at each of its awaits
(`Carries`): the name of a summary or some run until it archives, and an entry of the
archive when it deletes the file. For any number of runs the same proof shows that
something stays (`RecordStep`); with one run that is all there was. The two hypotheses are
where the code's promise ends: with a second run the file that a late finalizer deletes may
be the next session's, and a failed archive write is followed by the delete all the same.

`Requests_proofs` shows of `CloudClient`, for any threads, commands, tries and faults that satisfy
`CloudClientAssumption`:

- `TypeCorrect`: `Spec => []TypeOK`;
- `PromiseIsKept`: `Spec => KeepsPromise`, the refinement of `RoutedAction`.

The inductive invariant says what a thread knows at each of its waits (`CallsOK`: the
attempts it counted are the requests it sent, and after an answer of the mower the command
has run), that two threads never have one command (`OneThreadEach`), and that the runs of a
command and its requests in flight are no more than were sent, and some once it was
accepted (`CommandsOK`). The refinement mapping takes the phase of a command from the thread
that has it (`Phase`). Each step of `CloudClient` is then a step of `RoutedAction` or none:
`Open`, `Send`, `Arrive` and `Report` each have a lemma, and the steps of login, expiry and
fetches leave the promise alone. With `NoResponseIsAccepted` TLC finds a command
reported that never ran.

`Mower_proofs` shows of `MqttLink`, for any number of set-ups, drops and rotations:

- `LinkTypeCorrect`: `Spec => []TypeOK`;
- `SubscriptionIsKept`: `Spec => []NoSubscriptionLost`;
- `RestoreComesFirst`: `Spec => []RestoredBeforePushes`;
- `UnloadDisconnects`: `Spec => []UnloadedIsOff`.

The inductive invariant `LinkInv` joins these and adds what the two threads know of each
other: paho's thread has set the flag before it looks for topics (`resubscribing` and `up`
imply `connected`), and only a restored coordinator has its callback set. There is one
lemma for the steps of the config entry, one for those of the client on the executor, one
for paho's thread. With `SubscribeLooksFirst`, which looks at the flag before it
leaves the topic, TLC loses the subscription.

Of `ActiveMap` it shows, for any maps, kinds of mow, coroutines and fetches:

- `ActiveMapTyped`: `ActiveMapSpec => []ActiveMapTypeOK`;
- `GivenMapIsMown`: `ActiveMapSpec => []MowsOnGivenMap`.

The invariant adds `CleanCalls`: a command that nothing has disturbed has its map active on
the mower from the moment it has switched. `DisturbedCalls` is why it survives the switch of
another: all but that one are no longer clean.

Of `MapCommands` it shows, for any maps, zones, picks and orders of listeners:

- `PickersAreTyped`: `PickersSpec => []PickersTypeOK`;
- `PickersShowWhatIsMown`: `SameNumbers => (PickersSpec => []ShownIsMown)`;
- `SelectionsSettle`: `SameNumbers => (PickersSpec => []SelectionSettles)`;
- `PickersRunActiveMap`: `PickersSpec => ActiveMapSpec`, which brings `GivenMapIsMown` along.

`SameNumbers` says that all maps that have zones have the same numbers, which a mower with
one map has; without it the claims are false (section 2). The invariant says of the stack
that it holds at most one update while nothing is selected and two once something is, that
a picker about to show a zone shows the selected one, and that every picker with zones
shows the selection or is still to be told (`Awaits`): `SelectionIsFound` is why no picker
then begins another update. `PickersAssumption` gives Python's stack room for two.

Of `Controls` it shows, for any minutes of the day, edits and reads that satisfy
`ControlsAssumption`, if no time is midnight or the minute after it (`MidnightApart`):

- `SafeToReconstruct`: `ControlsSpec => OtherPartsKept`;
- `ReadsAreOfMower`: `ControlsSpec => ReadsAreTrue`.

`ControlsInv` says what the mower's lists may hold and that MowerState has nothing but what
such a list held. The first theorem is then that no default takes the place of a value that
was read (`WrittenKeeps`): an `or` does so for a zero, so where the mower may have a zero the
default has to be zero. The second is that shape, length and values of a push tell its key or
that it is ambiguous (`SettingIsKey`), and that of a list that was cut or garbled no position
is taken that is not right (`TakenIsRight`). The hypothesis is where the code's promise ends:
`MCMidnight` breaks the first property without it, and a slow night that begins and ends
within these two minutes is pushed as a list that reads as three flags. It stays a hypothesis of the theorems, and is none of
the module, as that run has such times.

Of `MapSettings` it shows `ChosenReturns`: `MapSettingsSpec => ChosenIsShown`, for any maps
and any number of toggles under way. What is sent for an option is shown as that option
(`OptionsReturn`), and what a toggle writes differs from what it read in its own bit
(`OneBitChanges`); `BitsInv` adds that what it read were three bits of a map that is.

Of `Frames` it shows `ReadingsAreTold`: `FramesSpec => ReadingsAreMowers`, for every pose of
two signed numbers of 20 bits, every area and total of 24 bits, and any number of frames
(`FramesAssumption`). The first lemmas say that each packed number comes back (`PoseBack`,
`BytesOf`, `MaskedBits`, `SignalBack`) and where it is in the frame (`FullAt`, `ShortAt`,
`HeartbeatAt`); `FramesInv` ties the counter of the wheel-bind detector to the frames it
counted: one for the last, two for the last two, each of which found the mower held.

Of `CloudMaps` it shows, for any maps that satisfy `CloudMapsAssumption` (the sections are
lists, the corners whole millimetres, the box of the app is in order), any answers and any
number of changes:

- `DevicesStay`: `CloudMapsSpec => DevicesLast`;
- `MapsStayTrue`: `CloudMapsSpec => []MapIsTrue`.

An area that is turned keeps corners (`TurnedPath`), which are finitely many, so the box has
ends and holds them (`BoxHolds`), and their mirror images as well (`MirroredCorners`). Left
out entries shift places, not keys, as key and outline of a row come from one entry
(`ContoursAre`, `ZonesAre`). For the pictures `CloudMapsInv` says that each decoded map has
a picture with its md5; the size fixes the extent to a cell and the dock the sum of the ends,
so the ends differ by less than a cell (`SamePicture`).

`MowerStateMachine_proofs` also shows `InferencesSettle`:
`Spec => []SettledAgreesWithTelemetry`. `IInv` says that the snapshot is one, and the rest is
about the seven rules: the first tick settles session and location, which no later rule
moves while the telemetry stays (`RulesOneToFive`, `RulesOneToSix`); the second the activity
these two allow (`RulesInSession`); and where `Settled` holds a tick changes nothing
(`SettledStays`), so that three ticks are enough from every snapshot, not only from those the
run reaches.

`Data_proofs` has what takes the place of induction over data, which is out of the prover's
reach (section 4, end). Every set of numbers has a least one, and with it every subset of a
finite set has a number that tells how many of its elements come first (`LeastNumber`,
`EveryNumber`, `EverySubset`): from these two follow that a list has an n-th kept element
(`NthIsThere`), that a fold that adds up a function over a set exists and does not depend on
the order (`TotalsExist`, `TotalsAgree`, `SumWithout`), that it adds up over a partition
(`SumOfParts`, `SizeOfParts`), and that finite sets of numbers have a greatest and a least
element. So sums over the sets of a model can be reasoned about for any input.

`Records_proofs` shows of `Tracks`, for any positions, and any number of points, samples,
saves and restarts that satisfies `TracksAssumption`:

- `CardTimesAreTold`: `TracksSpec => []TimesAreTold`;
- `CardLegsAddUp`: `TracksSpec => []LegsAddUp`.

The times rest on three things. The intervals of rain and of the states are tiles, without
gap or overlap, of the moments at which the stream has that value (`RainIsCovered`,
`StatesCover`), so what a state keeps outside the rain is a number of moments
(`SecondsAreSize`), and the four of the card are disjoint (`MinutesAreTrue`). What is archived
has the value of what was told at every moment (`SameValues`), although a restart lost
samples. And that is the invariant (`TracksInv`): what was told and is not in the file is in
the recorder, but for samples that repeat the last value, which change nothing (`Recorded`,
`Hist`); the file and the memory have only what was told (`Keeps`). Until the merge is in order
by time, nothing says so: `ByTimeSorts` shows that it has both lists' samples in order. For the
legs, each point that ends a stroke is of one leg, the leg of its role (`LegsMeasureUp`): so
the legs of a role are a partition of its way, whatever the track.

`Archives_proofs` shows of the session archive, for any sessions, caps, failing writes and
restarts that satisfy `ArchiveAssumption`:

- `OneRowUnlessAtOnce`: `Spec /\ []CallsApart => [](OneRowPerSession /\ NoDoubles(index))`, for
  any number of calls at once, where `CallsApart` says that no two of them archive one session;
- `OneRow`: `Spec => []OneRowPerSession` for one call at a time, as in the run;
- `SessionsAreKept`: `Spec => SessionsLeaveForAReason` for one call at a time.

The property is of `index.json`; the invariant needs it of the index in memory as well, which
is saved, and that a call which has passed the check holds a row that is not in the index.
That is what another call may break, and `CallsApart` forbids no more than that. That a
filtered list keeps its order and has no doubles is `FilteredNoDoubles`; `Filtered` picks the
places of the kept rows in turn (`NthOf`), and the first lemmas show that there is an n-th
place for each n: finite sets and a least number, as recursion (`SelectSeq`) is out of reach.

`SessionsAreKept` needs to know why a call removes what it removes: while it prunes, the row
and the file of its session are there (`Prunes`), and while it drops the oldest, the rows it
keeps are as many as the cap and none is older (`Trims`). That there are as many rows as
places is where one row per session comes in (`KeptAreKeep`). The property says why a row
leaves the index in memory, and that `index.json` loses none that the index has. It may be
behind the index by several failed saves, and then a row that left for the cap is saved as
gone when the rows it left for are themselves superseded: two placeholders push a session
out under a cap of two, a session replaces both, and one row is listed. So no reason need be
left when `index.json` follows, and none is claimed of that step.

Of the lidar archives it shows `ListedScansAreStored`: `ScansSpec => []RowsHaveFiles`, for any
maps, scans, caps, and jobs that overlap in any way. A row without its file is one some
job is about to remove (`Accounted`), and the hard part is that nothing lists it again: a row
that is not listed yet belongs to one job (`OneBearer`, `NotListedYet`), whose file is where
the row will be (`FileIsHeld`), no row is in two maps (`InOnePlace`), and what the backfill
still has to do collides with none of them (`PlannedAreNew`). It rests on the clock giving
each job a time of its own, as the model has it: files are named by second and md5, so a push
and a backfill of one object within one second would share a file, which the model leaves
out. `ScansAssumption` says that the cloud lists an object once.

Of the heatmaps it shows `HeatmapsAreKept`: `HeatmapsSpec => HeatmapsKept`, for any
refreshes, objects, sessions with samples (`HeatmapsAssumption`) and crashes. What is shown
may be behind the disk, but then some refresh will load the index (`WillLoad`) or one broke
off. That a lawn is given only where its samples support it is the arithmetic of the scores:
samples that lie more inside and agree as well, or agree better and lie as much inside, have
the higher score (`BetterScoresMore`), whatever they are, as long as each lawn has some.

`Requests_proofs` shows of `Schedules` `RecordsAreRead`: for every day and every plan the
encoder does not refuse, at every minute of the day, the record is bytes, is accepted by the
decoder, and says the same. It is arithmetic on halves of bytes (`TimeIsSplit`, `DayIsSplit`)
and the places of joined sequences (`Joined`).

On it rests `CardEditsLand`: `SchedulesSpec => PlanEditsLand`, for any number of slots, plans,
records, chunks and writes. Grouping records to plans loses and adds none (`PlansRecords`: the
records of the plans' days are those of the blob, and no two plans agree in all but their
days), nor does sorting the days of plans to records (`BlobRecords`: in a strict order of
finitely many things each has a place of its own and none is empty, `PlacesAreTaken`). So a
slot that is not edited gets the records it had (`BlobRewritten`). In the edited one no two
plans have a mow in common (`PlansApart`), so that what goes is that plan's alone; this needs
that the other plans are no edge plans, which holds as the encoder would have refused. The
invariant, `SchedulesInv`, says that every text in the cloud can be written again (`GoodTexts`)
and that no two slots of the view have one id, by which the service finds them. Assumed of
the app (`Lawful`): it numbers its slots, escapes the "&" of their names, and sets no bit of a
record that the decoder skips. The plans of a call or of the card are what the service's
schema lets through, and the property is about zones that a byte holds.

Of `Commands` it shows `TargetsAreRight`: `CommandsSpec => []TargetsAreOnMap`, for any maps the
mower may have (`CommandsAssumption`: ids are integers), commands and restarts. What is sent is
what is selected, so the invariant is about the selection: once the pickers have settled it
begins with a target of the map (`OnTable`), and no contour of a seam is ever in it (`IsData`).

Of `Pictures` it shows `PicturesAreRight`: `PicturesSpec => []PicturesCatchUp`, for any number
of maps, drawings, sessions and events. The invariant `Calm` says of each drawing under way
what it carries since the refresh that runs alone began (`Carries`, by the await it is
in): a picture of the present, or of something that a later step of the same refresh draws
again; `Refreshed` is what is left at its end, kept by the drawings that still run.

Of `WorkLog` it shows `ReplayIsPicked`: `WorkLogSpec => []ReplayIsOfPick`, for any number of
replays, sessions, maps and widths. A replay that runs alone has in its hands, at each
await, what it will show (`OnItsWay`), and one that does not takes the trust away; what is
shown agrees with the select and the width as long as none has begun to draw (`Agree`).

Out of the prover's reach, and left to TLC: the liveness properties (`SilenceIsNoticed`,
`SessionIsFinalized`, `LockIsFreed`, `ViewConverges`, `KeyIsRenewed`, `CommandsEnd`, `Listens`,
`SelectConverges`), as they rest on fairness and ENABLED. What would need induction over data
is stated with sets: lists by the places of their elements, sums by the subsets of what is added.

## 5. What is not modelled, and the plan

`PROJECT.json` lists each part with its reason. Not modelled are painting (pixels and
floating-point geometry, with caches of images only), the entities that show one field,
the registration with Home Assistant and its forms, observability and inventory (counters
and tables nobody's behaviour depends on), the offline tools, and the slots of a push that
are copied as they are. Of the coordinator's set-up only what retries and callbacks see is
in `MqttLink`.

What would add most next:

1. An abstract session (none, running, ended, archived) that `SessionLifecycle`
   implements, and the composition with `SnapshotHandlers` through the hooks
   `end_session` and `seed_in_session`.
2. Torn files: bodies and indexes of heatmaps, and the checksum of `in_progress.json`.
3. Schedules that are read while they are written, piece by piece: `Schedules` has a write in one
   step, and `Writes` has its steps without the text.
