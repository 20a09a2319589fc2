# TLA+ models of afficho-client

afficho-client is the program on a digital-signage player: it keeps content,
playlists and schedules in SQLite, serves a display page to a browser on the
same machine, lets people edit the library over HTTP, and takes manifests and
commands from a cloud service. This directory holds TLA+ modules that model the
parts of it where goroutines, timers and messages meet, the TLC configurations
that check them, and TLAPS proofs about them.

Source paths below are relative to the repository (`internal/...`), which
`PROJECT.json` calls `src/internal/...`.

## Running

    tlc -workers 4 -config MCScheduler_safety.cfg MCScheduler.tla
    tlapm SchedulerProofs.tla

`PROJECT.json` lists every run, what it must find, the faulty variants each
property is tested against, the source lines behind every definition, the
hazards the properties are for, and the theorems.

## Inventory

| Component | State | Operations | Interacts with | Hard behaviour | What makes it correct |
|---|---|---|---|---|---|
| Playback scheduler `scheduler/scheduler.go` | queue, position, active playlist id, advance timer, one-slot reload channel | Run loop, Advance, TriggerReload, reloadQueue, resetTimer, OnChange | reads the tables; called by HTTP goroutines and syncs; calls the hub and the play log back | timer pointer shared without the lock; read-then-store reload; dropped signals; `select` | position in range; no committed change lost; every change announced; playback never stops |
| Schedule windows `scheduler/schedule.go` | none | ParseTimeWindow, IsActive | evaluated at each reload | midnight and weekday boundaries | agrees with a reference definition |
| Tables `db/*.go` | content_items, playlists, playlist_items, schedules, device_meta, proof_of_play, schema_version | migrations; one connection | everybody | cascades that depend on the driver; default seeded once | references hold; one default |
| HTTP edit handlers `api/handlers.go`, `api/admin.go` | locals of a request | create, update, delete, activate, set items | tables, media store, scheduler, hub | check-then-act over several statements | change is signalled; default stays |
| Cloud syncs `cloud/content.go`, `playlist.go`, `schedule.go` | manifest, stale list | upsert, deleteStale, acknowledge | tables, media store, scheduler, connector | partial failure, crash, races with handlers | cloud rows follow the manifest; local rows stay |
| Display page `api/display.html` | two layers, socket, retry counter, timers | render, swap, clear, reconnect, poll | hub, display endpoints | load events and timers out of order | shows the item rendered last; always has a feed |
| Hub and display endpoints `api/hub.go`, `websocket.go`, `display.go` | registered clients, a queue of 16 each | register, broadcast, stream, current, advance | scheduler, page, alerts, commands | read then broadcast; full queue | the page catches up |
| Connector `cloud/connector.go`, `heartbeat.go` | connection, handlers, backoff | connect, read loop, send, heartbeat | syncs, play log, commands | reconnect and backoff | one connection, bounded retry |
| Play log `cloud/playlog.go` | current item and start time; unsynced rows | RecordTransition, Flush, mark | OnChange, connector, tables | concurrent flushes, crash before marking | every play reported |
| Commands and alerts `cloud/command.go`, `alert.go` | none | reload, update, reboot, alert | hub, updater | order of acknowledgement and effect | each command acted on once |
| Updater `updater/*.go`, `deploy/afficho.service` | status; staged binary and marker on disk | check, stage, restart, install | command handler, systemd | crash between files, concurrent checks | never installs half a binary |
| Media store `content/manager.go` | files | download, upload, delete | handlers, content sync | rows and files change separately | no row without its file |
| Screen power `display/screen.go` | screen off or on | evaluate every minute | configuration | off period across midnight | off exactly in the period |
| Browser, authentication, configuration, status, templates, installer | - | - | - | mostly I/O and formatting | - |

## Modules

| Module | Models | Extends or instantiates |
|---|---|---|
| `FreshCopy` | what the player promises of everything it keeps a copy of (abstract) | - |
| `Scheduler` | the Run loop, HTTP goroutines in Advance and TriggerReload, the timers | `FreshCopy` |
| `SchedulerProofs` | theorems about it | `Scheduler`, `TLAPS` |
| `Tables` | the tables, the statements run on them, what the scheduler's queries return | - |
| `Library` | handlers, admin pages and cloud syncs editing tables and media files at once | `Tables`, `FreshCopy` |
| `LibraryProofs` | theorems about it | `Library`, `TLAPS` |
| `TimeWindow` | IsActive, and a reference definition of it | - |
| `Clock` | what is done by the clock: the choice of a schedule, the power of the screen | `TimeWindow` |
| `ClockProofs` | theorems about it | `Clock`, `TLAPS` |
| `DisplayPage` | the display page's layers and its feed | - |
| `DisplayPageProofs` | theorems about it | `DisplayPage`, `TLAPS` |
| `DisplayFeed` | hub, clients, broadcasters, settings, the page's use of the messages | - |
| `DisplayFeedProofs` | theorems about it | `DisplayFeed`, `TLAPS` |
| `Connector` | the connection to the cloud | - |
| `PlayLog` | proof of play, recorded and flushed over that connection | `Connector` |
| `PlayLogProofs` | theorems about it | `PlayLog`, `TLAPS` |
| `Updater` | check, staging, restart, and the service unit's installation | - |
| `UpdaterProofs` | theorems about it | `Updater`, `TLAPS` |

`MCScheduler`, `MCLibrary`, `MCClock`, `MCDisplayPage`, `MCDisplayFeed`,
`MCPlayLog` and `MCUpdater` each extend one of these and give TLC small sets;
their configurations are named after them.

Each module with actions has a section "Faults": variants of its operations
with a plausible slip, which stand for nothing in the code. A property is kept
only if some fault breaks it.

### Scheduler

One variable per field of `Scheduler` and per local of `reloadQueue` that
outlives a step, and `pc` for the goroutines. `s.mu` makes a critical section
one step. `s.advanceTimer` is *not* protected by `s.mu`, so `resetTimer` is
three steps: `StopTimer` (the first read of the pointer), `ReadDuration` (under
RLock) and `SetTimer` (the write after RUnlock). A check for nil and the use
right after it are one step, as if the pointer were loaded once, so a nil
pointer met between the two is not represented. The callback is two steps, as
`BroadcastCurrent` and the function `main` puts before it are: `NotifyChange`
reads the current item and `Tell` tells the listeners what was read, without a
lock over both. `reloadQueue` is `EvaluateSchedules`, `LoadItems`, `StoreQueue`,
then timer and callback; each query may fail. `Run` is `LoopTop`, which captures
the channel once, and one action per case of the `select`. Durations are left
out: a running timer may expire at any moment. `time.NewTimer` objects are
identities reused once nobody refers to them. In the Go version of `go.mod` a
stopped timer delivers nothing afterwards, so stopping makes it dead.

The database is the environment. `Commit` is any handler or sync that will
signal, `TriggerReload` its signal; `SilentChange` is every change nobody
signals: a schedule's window opens or closes, a content sync rewrites rows, a
handler returns early.

History variables: `loadedFrom` and `source` (which playlist the items really
came from, which the code does not keep for the default playlist), `unsignalled`
(the rows moved, or a query failed, and only the ticker will notice), `newest`
and `overtaken` (which callback has read last; one that read before it has told
after it) and `disarmed` (the last timer stored is a nil, stored when the queue
had items). The last two name the only exceptions of `ChangeIsAnnounced` and
`TimerLostOnlyToNil`; that they happen is shown by `MCScheduler_overtaken` and
`scheduler_nil_timer`. `unsignalled` is part of `NoLostReload`: between such a
change and the next reload the queue may be old, which is why `Converges` is
stated as well.

`Contract` instantiates `FreshCopy` with what the rows select for the truth, the
queue for the copy, and `ReloadOwed` or a reload under way for the obligation.

The comment on `needsReset` claims the timer is started when the queue gets its
first items; the run `scheduler_nil_timer` shows how it is not. See *Further
configurations* for three more.

### Tables and Library

A table is a function from ids to rows, and the items of a playlist one from
positions to content. `db.Open` allows one connection, so a
statement outside a transaction, and a whole transaction, is one step.
`foreignKeys` is chosen in the initial state, because whether REFERENCES and ON
DELETE CASCADE are enforced depends on the driver's reading of the connection
string. `Shown` is what the scheduler's queries return; every window is taken
to be open, since windows opening are silent changes in `Scheduler`.

A handler is a sequence of stages (`createSchedule == <<"target", "write",
"readBack", "signal">>`), named after the Go function; each stage is an action
(`CheckTarget`, `Write`, `ReadBack`, `Signal`) with the handler's early return
as its other disjunct. Validation that looks at nothing but the request is left
out: `Requests` are the valid ones. Statements fail only when REFERENCES
refuses them; a failing disk is not modelled. Names and durations of a content
row are one value, its `version`. Of its `source` the model keeps `file`: after
which content its last part is named, or `Elsewhere`, since `deleteContent` and
`adminContentDelete` remove whatever file of the media directory has that name.
`checksum` is a field of its own, which only a sync writes.

A sync is `SyncReceive`, one `SyncApply` per manifest row, `SyncCollect`, one
`SyncDelete` per stale id and `SyncEnd`, in the connector's sequential read
loop. The download inside `SyncItem` takes time, and truncates the file of the
row before it has a byte of the new one, so it is several steps; a content item
whose download fails is skipped and the others go on.

`media` is the directory of `content.Manager`: for each id no file, a partial
one, or the whole file of a version. `DownloadMedia` and `SaveUpload` write a
new file before the row is inserted and remove it when they fail; `Delete`
removes, after the row is gone, the file its source names, its own or not:
`taken` is the history of files that went with the row of other content, which
`LocalMediaPresent` excepts and `MCLibrary_shared_file` shows. A request that
replaces the URL of a content row leaves the old file, and `deleteStale` leaves
the files of cloud rows (`IsLocalMedia` compares with `/media/`): both only
waste space.

The scheduler is one action, `LoopReloads`. It takes the token, or its ticker
fires, and reads everything committed; `SchedulerProofs!ReloadNeverLost` is the
justification: as long as the token was sent after the commit, the loop's copy
becomes the committed one or another reload is owed.

`Restart` kills every goroutine at any point. Tables and files survive; the
scheduler starts with a reload.

The constants are what the program may be given: requests that validation lets
pass (`RequestAssumption`), manifests of rows of their kind
(`ManifestAssumption`), initial databases with a default, as the migrations
leave it (`TablesAssumption`). `IdAssumption` says that what this player creates
and what the cloud names never have an id in common. The code does not check
that; it relies on `uuid.New`, and on nobody else using the fixed id of the
seeded default playlist, as do the `ON CONFLICT(id)` clauses of the syncs.

### TimeWindow and Clock

An instant is a minute of the week. `IsActive` is the function's two branches
and `matchesDay`; `Covers` is the reference it is checked against: some day the
window is for, it opened then, and it has not closed since. The two agree except
for windows that wrap past midnight and are for some days only
(`WrapsIntoOtherDays`): those are active on the days of the *instant*, so
`weekdays 22:00-06:00` is active on Monday at 03:00 and not on Saturday at
03:00. No comment or test says which is meant, so it is no finding;
`CoversToday` says what they do, and `WindowsAreRight` holds every window to it.

`Clock` has one variable for each result that outlives a minute: the playlist
`evaluateSchedules` returned, `sc.screenOff`, and beside it what the panel really
is. A row may be `Unparsable` and is skipped; the query may fail, or the rows may
break off, which is taken for no schedule being active and recorded in `unread`.
 The reload ticker and the screen ticker each fire at least once a minute
and in any order (`Tick` waits for both). The command that switches the panel
may fail, and the code then leaves `screenOff` as it was set: `failed` and
`lost` remember when the panel may differ from what was asked for.

### DisplayFeed

`hub.mu` makes `Register`, `Unregister` and `Broadcast` a step each. Reading the
current item is a step of its own, before the broadcast, and so is saving the
setting: two goroutines may broadcast in the other order. A client's channel
holds `QueueCap` messages and `Broadcast` drops the newest when it is full. The
handler of a connection registers, builds its greeting, writes it and then
serves the channel. The page acts on `current`, `reload`, `alert` and
`settings`; when it boots it fetches the settings, and the answer may come after
a broadcast that is newer. What an invariant calls the last word on its way is
the message with the last index among those of its type (`IsLast`). `misled` and
`missed` are histories that name the exceptions of the two invariants (a
broadcast overtaken by an older one, a full channel); `CatchesUp` then says that
the ticker repairs what they except.

### Connector and PlayLog

`Connector` is the goroutine of `Run` (`Dial`, `SendRegistration`, callbacks,
read loop, `CloseConn`, `DelayOver`), the network (`Break`, `Arrive`) and
`Write`, which any goroutine does with the connection it once took from `c.conn`.
A message is its type and the records in its payload. One that has been written
arrives in order or is lost when the connection breaks, without the writer
hearing of it.

`PlayLog` runs two `Flush`es over it, from the ticker and from `OnConnect`, one
step per statement: load, take the connection, write, and one `UPDATE` per
record. `RecordTransition` is one step (`pl.mu`), but the item is read before
(`ReadCurrent`), so that callbacks overtake each other. Time has a finer grain
than the seconds of the rows, and is one clock that never goes back: in the code
`started_at` is the wall clock and the duration a difference of the monotonic
one, so that a wall clock that is set back makes spans overlap after all. A
record may be sent twice: two flushes load the same batch, and a crash before
marking sends it again. Nothing in the repository promises exactly once, and
nothing acknowledges a record, so no property forbids duplicates and
`MarkedWereSent` stops at the network.

### Updater

`check` runs in the periodic loop and in a caller of `CheckNow` (an HTTP request
or a cloud command) without a lock, and every file it writes is created empty
and filled in a later step. The archive's path contains the release, so that
two checks of one release share it; `afficho.new` and `pending` are shared by
all. A check that copies from a damaged archive may still end with a binary,
because extraction stops at the end of the tar entry and never comes to the
checksum of the gzip stream. The service stops at `RestartService` or at a
`Crash`; then `BeginMove`, `EndMove`, `RemovePending` and `ExecStart` are
`ExecStartPre`'s `mv` and `rm` and the start. `mv` is not taken to be atomic,
since the data directory and `/usr/local/bin` may be on different file systems,
and may break off (`MoveFails`); the unit then starts over.

What the unit lets its user do is chosen in the initial state: `mayMove`,
whether `ExecStartPre` may write to `/usr/local/bin`, and `mayRestart`, whether
`systemctl restart` is granted to the program (`RestartRefused` if not, which is
only logged). The unit as shipped grants neither: it runs `ExecStartPre` as
`User=afficho` under `ProtectSystem=strict`, although its comment says root. The
properties of `updater` hold of all four kinds, and `MCUpdater_unit` takes the
shipped one. `Core` is the semantic version without its suffix, which
is how the code compares a release candidate with its release; builds without a
version and tags that are no semantic version, which it compares as strings, are
left out. That a check removes the archive another one shares is covered by
`Fails`.

### DisplayPage

JavaScript runs one event at a time: each event is a step. Layers hold
elements (an identity and its item), the splash, or nothing. `loading` is the
set of elements whose load event may still come; an image taken off its layer
goes on loading, an iframe does not, and a broken one simply never fires.
`clearing` is the queue of 600 ms timers, `swapTimeout` the five second
fallback. `SwapFallback` requires `clearing` to be empty: a swap after the
fallback was set clears the fallback, so every pending fade is older than it
and 600 ms are over first. The feed is the socket, the reconnect timer, the
poll timer and the pending fetch.

`NeverStale` holds (nothing but the last item, the splash or an empty layer is
on the screen at rest); that the last item *is* on the screen does not
(`page_blank`).

## Runs, bounds and what they show

| Run | Result | Instance |
|---|---|---|
| `scheduler_safety` | passes, 2,603,413 states up to symmetry | one editor, two viewers; a default playlist of two items or none, a scheduled one that is cut short; queries may fail |
| `scheduler_rotation` | passes, 217,792 states | one editor, one viewer, playlists of one, two and three items; queries may fail |
| `scheduler_nil_timer` | `TimerArmed` fails | one editor, one viewer, a playlist emptied and refilled |
| `library_calm` | passes, 964,444 states up to symmetry | two HTTP goroutines, three requests or manifests, two initial databases with their files, foreign keys on and off |
| `clock` | passes, 181,448 states | a week of days of six minutes, every window, four timetables, every pair of screen times, one or both configured |
| `screen_night` | `OffAtNight` fails | off in the evening, on in the morning |
| `page_feed` | passes, 545,663 states | two images, an iframe, a video, an unknown type; two retries, four elements, two swaps within a fade |
| `page_blank` | `ShowsCurrentItem` fails | the same with ten retries |
| `display_feed` | passes, 396,642 states | a page, the loop, a viewer, two administrators, a channel of two, three changes, saves, calls or lost connections |
| `playlog` | passes, 501,455 states | two callbacks, two flushes, batches of one, two connections, four ticks of half a second, one crash |
| `updater` | passes, 587,415 states | two checks; a release, a candidate and two more releases of which two are published; three faults; every kind of unit |
| `updater_restage` | `StagedIsWhole` fails | the same |

What each shows. *scheduler_safety*: the position stays in the queue, no commit
is lost whatever tokens are dropped, the scheduler implements `FreshCopy`, a
listener is left on an old item only by a callback that overtook another, and a
queue with items loses its timer only to a nil stored too late.
*scheduler_rotation*: with playlists that never empty the timer is always armed,
the queue becomes what the rows select and goes round. *library_calm*: edits are
signalled, a default playlist stays, cloud rows follow the manifest, syncs leave
local rows alone, content of local origin that names its own file has it whole
unless other content took it, and rows and scheduler's copy implement
`FreshCopy`. *clock*: windows are right in every minute, those that wrap into
days not their own on the days of the instant; the schedule of the highest
priority is chosen right after midnight, after restarts and beside rows that do
not parse, and none only if none is open or the rows could not be read; the
panel follows what `evaluate` wants. *page_feed*: one feed at a time, nothing
stale at rest. *display_feed*: the last word on its way to a page is the current
item, its setting the stored one, and it catches up. *playlog*: no record is
marked unsent, no second is claimed twice, and everything is sent in the end.
*updater*: a whole binary is always left, the program never goes back, and it
comes up to date, or is stuck for one of the reasons `UpToDate` names.

The runs that end in a violation each quote a comment that the code does not
keep; `PROJECT.json` ("findings") has the quotations.

Why the bounds are enough. *Scheduler*: every race is between the loop and an
Advance, or between the loop and a commit; two viewers add races between two
Advances, which are interchangeable (no property names one, so symmetry is
sound; runs with liveness use none). Only the pointer and the captured channel
refer to timers, and storing a new one frees the pointer's, so of two identities
one is always left. Playlists of different lengths, none at all and an
overlapping item exercise every part of `needsReset`. *Library*: three arrivals
are one more than the two goroutines, so that a request or a manifest also meets
what two others left, in every interleaving with restarts. They start from two
databases, `FewRows` and `MoreRows`; in the second a playlist and a schedule
already exist, so that no arrival is spent on creating what it edits. The two
goroutines are interchangeable, and no property names one, so symmetry is sound.
Three images, one of the cloud, suffice for one to take another's file while a
third is downloaded. *DisplayPage*: `ElementIds` and `MaxSwaps` only bound how
many elements and fades are alive at once; the counterexample and every race
between two loads need two of each. `MaxRetries` is two, against ten in the
code; the counter is only compared with it. *Clock*: the code compares minutes
of the day only with each other and with midnight, so a day of six minutes has
every order of two ends and an instant, equal ones included, with a minute to
spare on each side. *DisplayFeed*: a channel of two (16 in the code) is full
after two messages, so that three events overflow it, with one page, because
pages do not interact but through the hub; two administrators and two announcers
are what an overtaking takes. *PlayLog*: a batch of one with up to two unsynced
records leaves a record behind the batch; two ticks a second tell a stay of less
than a second from one of more, and start and duration are cut to seconds each
at a different place; two connections are a broken one and its successor, which
`SendMessage` may confuse; one restart may fall at any step. *Updater*: two
publications let a check work on an old release while another works on a new one
or on the same, a withdrawn release brings an older one back, and three faults
are a damaged download, a crash and one more.

Preconditions. In `library_calm`, `HasDefault` is checked with requests of which
none deletes a playlist that a request activates: `p` may be activated, `d` and
`c` deleted (`MCLibrary_no_default` and `MCLibrary_default_dropped` show why).
`EditsAreSignalled` excepts what a content sync changed (`silent`;
`MCLibrary_silent_content` shows why). In `updater`, `WholeBinaryLeft` excepts
checks that wrote over one another or over an update that was pending;
`UpToDate` has the premises that the program may restart itself and that callers
of `CheckNow` come to an end, and its other outcome is a unit that is `Stuck`
because its user may not replace the binary, because checks overlapped, or
because power was lost between `mv` and `rm`.

`CHECK_DEADLOCK FALSE`: in the scheduler's runs `SelectDone` ends the loop when
the program is told to stop; in `playlog` a behaviour ends when the clock, the
connections and the restarts of its bounds are used up; in `updater` a device
that is `Stuck` really stops, which is what `StartsAgain` and `UpToDate` are
about.

### Further configurations

These are kept beside the runs. Each shows in a few seconds that a property one
may expect does not hold, and why the runs above have the preconditions they
have:

| Configuration | What fails | Why |
|---|---|---|
| `MCScheduler_stale_timer` | `WaitsOnAdvanceTimer` | the loop captures the timer's channel once per turn; an Advance meanwhile replaces the timer |
| `MCScheduler_default_moves` | `PlaylistChangeResets` | another default playlist has the same empty id, so the position stays |
| `MCScheduler_overtaken` | `ListenersAreCurrent` | a callback that read the item before an Advance tells its listeners after the callback of that Advance; `server.go:93` promises "the current item", and the ticker's reload repairs it |
| `MCLibrary_no_default` | `DefaultNotDeleted` | a playlist is activated between `deletePlaylist`'s question and its DELETE, which is to answer "cannot delete the default playlist" |
| `MCLibrary_default_dropped` | `HasDefault` | a manifest drops a playlist of the cloud that was activated, and `deleteStale` does not ask for `is_default` |
| `MCLibrary_orphans` | `NoOrphans` | with foreign keys off a deleted playlist leaves its items and schedules |
| `MCLibrary_silent_content` | `NeverWaitsForTicker` | a content sync does not call TriggerReload |
| `MCLibrary_cached` | `CachedIsStored` | a download that fails leaves the row with the old checksum and no file, which a later manifest with that checksum takes for cached |
| `MCLibrary_shared_file` | `OthersKeepFiles` | an image whose source ends in the name of another one's file takes that file with it when it is deleted |
| `MCUpdater_unit` | `StartsAgain` | the unit as shipped: its user may not write to `/usr/local/bin`, so that after an update was staged `mv` fails at every start, and the service never runs again |

### Fairness

`Scheduler`: `FairSpec` assumes that a goroutine with something to do runs (weak
fairness), that a running timer that somebody holds runs out, and that each case
of the `select` that is ready again and again is taken (strong fairness): Go
chooses among ready cases at random, and the ticker fires for ever. Nothing is
assumed of viewers, editors or the clock. `Converges` and `Rotates` have the
premise `Stable`: from some point on the rows stay and queries succeed. `Rotates`
is checked with playlists that are never empty, for which `TimerArmed` holds;
with a refilled playlist the timer may be lost (`scheduler_nil_timer`), and the
queue stays on its item.

`DisplayFeed`: the loop's ticker fires for ever, a goroutine that has begun a
broadcast makes it, and a connection's handler goes on. `CatchesUp` rests on the
ticker, whose reload announces the item even when nothing has changed; connections
come and go as they like, and its premise is one that lasts.

`PlayLog`: each `Flush` that has begun goes on and is called again (the ticker),
and the connector's goroutine goes on. The network owes nothing; the premise of
`Drains` is that a connection stays up.

`Updater`: the periodic check is made again and again and systemd goes on
(`Restart=on-failure`; how often it tries is not limited in the model). A
caller of `CheckNow` need never call and is not assumed to finish, except in the
premise of `UpToDate`. Downloads fail as long as `MaxFaults` allows.

## Proofs

TLC checks the properties on the instances above; TLAPS proves the safety
properties that the passing runs check, but for `TimerArmed` and `HasDefault`,
which hold only of the inputs of their runs, and the two refinements of
`FreshCopy`, for all values of the constants: any number of goroutines, pages,
playlists, rows, releases and messages. The assumptions are the named `ASSUME`s
of the modules, which say that ids and markers are distinct and that inputs are
well formed, and the hypothesis below. TLC evaluates the `ASSUME`s in every run;
the hypothesis holds of the constants of `library_calm`.

Each proof has the same shape: an invariant `I` with `Init => I` and
`I /\ [Next]_vars => I'`, the second with one case per action, and a last step
of temporal logic. `TypeCorrect` (`Spec => []TypeOK`) comes first in every
module. What the others had to be strengthened with:

| Theorem | Property | Inductive with the types and |
|---|---|---|
| `SchedulerProofs!PositionInRange` | `CurrentInRange` | nothing: only `Advance` and `StoreQueue` write queue or position; the modulo bounds one, `needsReset` the other |
| `SchedulerProofs!ReloadNeverLost` | `NoLostReload` | nothing: it is stated over what the loop has read *so far*. A commit makes a reload owed, and a step that takes the token has read nothing yet |
| `SchedulerProofs!QueueStaysFresh` | `KeepsQueueFresh` | `NoLostReload`: a step that ends with nothing owed ends with the queue the rows select |
| `SchedulerProofs!EveryChangeAnnounced` | `ChangeIsAnnounced` | `NewestIsCurrent`: who changes the item is on the way to a callback that reads `Current`, and of the callbacks that have read, the newest has read the current item |
| `SchedulerProofs!QueueHasTimer` | `TimerLostOnlyToNil` | `ArmedOrOwed`: who stopped a timer or filled the queue comes to start one, and the loop that took an expiry has Advance to call |
| `LibraryProofs!SyncsKeepLocalRows` | `LocalRowsPreserved` | `OriginsOK`: a row's id is of the player's or of the cloud's according to its origin, and so are the ids a sync has still to apply or delete |
| `LibraryProofs!CloudRowsAreManifests` | `CloudRowsFollowManifest` | `SyncIsComplete`: in the deleting phase the cloud's rows are in the manifest or still to be deleted |
| `LibraryProofs!EveryEditIsSignalled` | `EditsAreSignalled` | `SomebodyIsFirm`: not only is a handler past its write, it also cannot return early, because the row it reads back is there; and `DefaultsInv`: what is about to be activated is there |
| `LibraryProofs!LibraryKeepsShownFresh` | `KeepsShownFresh` | the theorem before |
| `LibraryProofs!LocalFilesArePresent` | `LocalMediaPresent` | `MediaInv`: ids are created once, the file of a row about to be written is whole or taken, and who removes a file without taking it removes that of a row that is gone for good |
| `ClockProofs!WindowsOpenAndClose` | `WindowsAreRight` | lemmas on `IsActive`, `Covers` and `CoversToday` for a day of any length |
| `ClockProofs!PlaylistFollowsTimetable` | `FollowsTimetable` | nothing |
| `ClockProofs!PanelStaysOff`, `PanelIsAsWanted` | `OffIsKept`, `PanelFollowsEvaluate` | `BeliefIsRight`: how `screenOff`, the panel and the histories of failures and restarts agree |
| `DisplayPageProofs!PageKeepsOneFeed` | `OneFeed` | nothing |
| `DisplayPageProofs!PageIsNeverStale` | `NeverStale` | `StaleIsPassing`: a layer that shows an old item is to be cleared by a timer that runs, or to be swapped away by one |
| `DisplayFeedProofs!LastWordReachesPages` | `LastWordIsCurrent` | `QueuesOK`: a page that is away has nothing under way, and of the messages of a type one is the last |
| `DisplayFeedProofs!SettingReachesPages` | `SettingIsStored` | `SettingsOK`: a page that has missed nothing has the setting, or is answered with it, or has it as the last word under way |
| `PlayLogProofs!MarkedRecordsWereSent` | `MarkedWereSent` | `OneConnection` (the writer's connection is the network's) and `BatchesWereSent` (who marks has written its batch) |
| `PlayLogProofs!RecordsDoNotOverlap` | `SpansDisjoint` | `RecordsAreOver`: a record ends, in whole seconds, before the item that runs began |
| `UpdaterProofs!NeverGoesBack` | `OnlyForward` | `NothingOlder`: what is installed, staged or being checked is never older than what runs |
| `UpdaterProofs!ABinaryIsLeft`, `StuckForAReason`, `StagedUnlessOverlapped` | `WholeBinaryLeft`; why a unit is `Stuck`; `StagedIsWhole` unless overlapped or cut | `Orderly`: without an overlap no two checks hold one archive or binary, what was verified stays so, and a marker means a whole binary |

`EveryEditIsSignalled` and `LibraryKeepsShownFresh` have a hypothesis on the
constants, `DefaultsStay`: no playlist that is activated by a request is deleted
by another, and neither those nor the first defaults are the cloud's. Nothing in
the code enforces it. An activation of a playlist that was deleted a moment
before clears all defaults and then fails to read its row back, so that nobody
signals, and the two properties need the hypothesis for that reason. The
requests of `library_calm` satisfy it. The other theorems have none.

The inductive invariants with new parts were checked by TLC on the runs'
instances before they were proved.

Only model-checked: `TimerArmed`, which needs playlists that never empty, and
`HasDefault`, which needs requests that stay clear of one another; the liveness
properties `Converges`, `Rotates`, `CatchesUp`, `Drains` and `UpToDate`
(liveness under fairness is outside what the provers do), and, being false, the
properties of the runs and configurations that end in a violation.

## Plan

Done: every module above, and the theorems about the safety properties of the
runs.

To be proved next: what `LoopReloads` of `Library` takes from `Scheduler` as a
theorem of a composition (below); the steps of the liveness arguments that are
safety: that what each fair action is enabled by stays true until it is taken.

To be modelled: a composition of `Library` with `Scheduler` in which
`LoopReloads` is the loop's own steps; until then both implement `FreshCopy`,
which is the interface between them.

## Not modelled

- The browser launcher, the `reboot` and `screenshot` commands, the heartbeat
  with its system information: they start or read the operating system.
- The lengths of delays (reconnects, restarts of the browser, polling): every
  timer may expire at any moment. The backoff of the connector, which is never
  reset after a connection that lasted, is therefore not seen.
- Authentication, CORS and the routes: filters without state.
- Configuration: parsing, and the reload on SIGHUP, which ends in TriggerReload.
- Field validation, and which magic bytes make an image: requests are the valid
  ones.
- Templates, styles, the status pages, logging: formatting.
- On the page, the timers of the alert overlay and the animation of the
  progress bar.
- The migrations: they run once, before any goroutine starts.
- The installer, Dockerfile and Makefile; the service unit is in `Updater`.
- Failing disks: SQLite statements fail only when REFERENCES refuses them,
  except for the scheduler's queries, which may always fail. Media files fail to
  download, and the process may die while it writes them.
