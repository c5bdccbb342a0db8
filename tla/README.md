# Verification of the streaming engine

TLA+ models, TLC runs and TLAPS proofs about the torrent streaming server in
`src/`: a Rust program that plays files out of torrents while they download.
The models follow the code in `src/`; line references below are to it.

## 1. The system

```
 player --HTTP--> server routes --> BackendEngineFS (lib.rs) --> backend handle
                    |   |                 engines, leases            |
      archives, nzb |   | updater --> helper         playback coordinator (playback.rs)
      local add-on  |   | cache cleaner               |   state / operation mutex, worker
      tools         |   | settings, trackers          v
                    readers (disk_stream.rs) <--> alert hub (alerts.rs) <--> libtorrent
                    readers (stream.rs) <--> piece cache <--> memory_storage.cpp
                              ^------- waker registry (piece_waiter.rs) <---- alert pump
```

| Component | State | Operations | Hard because |
|---|---|---|---|
| Playback coordinator (`enginefs/src/backend/libtorrent/playback.rs`) | per torrent: `TorrentPlaybackState` (generation, selected file and priority, permits, HLS activity, idle deadline, phase, acknowledged priorities), an operation mutex, a layout cell; a command channel; `seeding_enabled` | `start_playback`, `refresh_hls`, `end_hls`, dropped permits, metadata loading, `set_seeding_enabled`, piece verification, the one-second idle tick | many requests, one worker and the native session interleave across awaits; every request may fail or be dropped anywhere; pauses wait for the swarm |
| Piece windows (same file) | `ActivePriorityWindows`: the requests of each reader and the merged assignment per piece | `replace`, `release`, `clear_tracking`, `mark_piece_verified` | incremental merge; commands of superseded readers; native calls happen apart from the tracking |
| Pause confirmation (same file) | `PauseSilenceTracker` | `observe`, the polling wait | sees the torrent only at its polls |
| Priority policy (`backend/priorities.rs`) | none | windows and deadlines from intent, position, swarm and caches | boundaries, casts |
| Piece delivery (`alerts.rs`, `disk_stream.rs`, `piece_waiter.rs`, the pump of `mod.rs`) | one broadcast sender per requested piece, each reader's task, back-off and timer, wakers, its window | `read_piece`, `poll_read`, `dispatch`, `register`, `notify_piece_finished`, `prioritize_from` | coalesced calls with timeouts; a wake-up that comes between check and registration; windows believed to be in force |
| Memory mode (`stream.rs`, `piece_cache.rs`, `memory_storage.cpp`) | storages with labels, cached pieces, their files, the reader's guards | poll, lookup, direct read, eviction, removal of a torrent | three copies of a piece that come and go independently |
| Engine registry and shared lifecycle (`enginefs/src/lib.rs`) | engines, stream counters, leases, multi-file selections, active file | add, get and remove of engines, `on_stream_start/end`, HLS leases, delayed cleanup, sweeper | decisions from maps locked one after the other; counters without a guard |
| Engine (`engine.rs`) | caches, single-flight cells | probing, hashing | a cell's entry is removed by whoever learns of the result |
| Routes (`server/src/routes`) | none but a free-space figure | HEAD and GET with ranges, HLS playlists and segments | a player's resumptions; ffmpeg processes |
| Updater and helper (`server/src/updater`, `updater-helper`) | operation state, candidate, staged files; files being replaced | check, download, install, cancel; apply, roll back | crashes between file operations, partial failure, two processes |
| Archives (`server/src/archives`) | a growing file with a watch channel and `Notify` | extract, poll, seek, finish | wake-ups, five kinds of writers |
| Usenet (`archives/nzb`) | a bounded connection pool | fetch a segment | pool that only shrinks; fetches that outlive their stream |
| Cache cleaner (`server/src/cache_cleaner.rs`) | debounce timer | scan, delete | deletes from a stale list of protected paths |
| Settings and trackers (`state.rs`, `system.rs`, `trackers.rs`) | settings, their file, a tracker list | update, save, load | several writers of one file |
| Tools (`ytdlp.rs`) | a managed executable | resolve, download, refresh | crashes, staleness |
| Local add-on (`local_addon`) | index | scan; catalogue, meta, stream | identifiers that depend on a service |
| Other routes, user interfaces, bindings | little | request handling, formatting | mostly I/O |

What makes them correct:

* coordinator: a reader keeps the file it selected until a newer request takes
  it over; permits balance; a pause never silences a reader and always comes
  when nobody is left; every request is answered or fails;
* windows: the native assignments are the merge of the current readers'
  requests, but for changes that are underway and two losses that the runs
  account for (section 3), and a reader that waits has asked for what it waits
  for;
* delivery: every reader waiting for a piece that was verified gets its bytes;
* registry: no engine is removed under a stream, each counter counts the
  requests that took it and did not give it back (a request dropped between the
  count and its guard, stream.rs:741-762, never does), an engine that nothing
  holds leaves;
* routes: what a player assembles from its requests is the file;
* updater: after any crash every program file is somewhere complete, and a
  rollback that comes to its end restores what a first run replaced (there is
  none before that run has written its plan, main.rs:106, and after a second run
  it restores what the first one installed);
* the rest: who waits is answered, what is shared has one owner, what was saved
  or installed is whole.

`PROJECT.json` lists every component with its status, and under `hazards` each
of these difficulties at the line where it bites.

## 2. Modules

| Module | Models | Notes |
|---|---|---|
| `PlaybackState` | the methods of `TorrentPlaybackState` | pure transitions of one record, each run under the state mutex |
| `PlaybackCoordinator` | `LibtorrentPlaybackCoordinator` for one torrent | composes the record with callers, worker, channel, operation mutex and handle |
| `PlaybackLease` | what the coordinator promises its clients | abstract; the coordinator implements it |
| `PriorityWindows` | `ActivePriorityWindows` and the steps around it | own state; selections reduced to what the windows see of them |
| `PauseConfirmation` | `PauseSilenceTracker`, `wait_for_pause_confirmation` | the coordinator takes both of its outcomes |
| `PriorityPolicy` | `priorities.rs` | operators only |
| `DiskWindow`, `MemoryWindow` | what the two kinds of reader ask for | extend `PriorityPolicy` |
| `PieceDelivery` | delivery of one piece to disk-backed readers | several readers of it |
| `MemoryTorrents` | storages, caches and readers of the memory mode | one piece per torrent |
| `EngineLifecycle` | the registry and the shared lifecycle | one torrent, both kinds of handle |
| `StreamRequests` | HEAD and GET of a file | extends `PriorityPolicy` |
| `HlsSession` | playlists, segments and their encoders | |
| `SingleFlight` | `get_probe_result`, `get_opensub_hash` | |
| `UpdateHelper`, `Updates` | the helper process; the server's side, which extends it | composed: staging directory, installed files, up to three helpers |
| `ArchiveStream` | sessions, extraction, the reader of the growing file | all six kinds of session |
| `ConnectionPool`, `UsenetSession` | what a pool promises; the session that implements it | refinement |
| `CacheCleaner`, `SettingsStore`, `YtDlp`, `LocalAddon` | the services of these names | |
| `MCServices`, `MCRequests` | modules that share no state, side by side | one run explores each of them in turn; they extend `UsenetSession` and `PauseConfirmation` and instantiate the others |
| other `MC*` | definitions the configurations need | symmetry sets, state constraints |
| `*Proofs` | theorems | section 5 |

### PlaybackCoordinator

`st` is the state record, `lock` the holder of the operation mutex, `queue` the
command channel, `native` the libtorrent handle (paused, file priorities,
metadata known, complete files), `layout` the layout cell, `seeding` the flag.
Each caller and the worker has a program counter `pc[t]` that says at which
await it stands and a record `job[t]` with what it read before. A step ends
where the code awaits something that another task can change; code between two
such awaits under the state mutex is one step.

* `Begin`, `LoadLayout`, `AcquireMetadata`, `SubmitIdlePriorities`,
  `MetadataLoaded`, `CheckComplete`, `SelectForReader`, `SelectForHls`,
  `Activate`, `ActivationAcknowledged`, `ActivationResumes` are the path of a
  request through `start_playback` or `refresh_hls`; `ActivationStale`,
  `JoinWithoutActivation` and `BackgroundRejected` its early returns.
* `EndHls` and `EndHlsPauses` are `end_hls`; the `Pause...` actions are
  `perform_pause`, run by a caller (`end_hls`, an activation that finds its file
  complete) or by the worker.
* `HandleRelease` ... `HandleVerified` serve the channel, `TickExpiresHls` and
  `TickPauses` are `pause_due_torrents`.
* `MetadataFails`, `ActivationFails`, `PauseFails` take the timeouts and file
  errors; `Abandon` drops a request's future at any await, which drops its
  permit and so queues the release.

Instants are abstracted to what is asked of them: an HLS activity is fresh or
stale, a deadline ahead or behind. Cancellation tokens need no state: the token
of a generation is cancelled exactly when a newer generation exists. An
acknowledgement is a state of the native handle (its priorities equal the
vector that was asked for), because the code polls for exactly that.

### PlaybackLease

The coordinator without generations, counters, mutexes, commands and priorities.
A client that asks for a file still being downloaded gets a lease; all leases
are on one `file`; an answered client is `served`, and the torrent does not
disconnect while anybody is. Only a request takes leases away (`Take`, `Visit`,
`Displace`), a client its own (`Leave`), and completion turns a served client
back to one that merely reads; there is no action for time, for somebody else's
failure or for the worker. The instance `Lease` in `PlaybackCoordinator` maps
`client` to `Place` (a permit of the current generation with a priority other
than 0 is a lease), `file` to the selected file while one is downloaded, `done`
to the complete files and `connected` to a handle that is not paused.

### PriorityWindows

A stream holds a window: a set of pieces with a priority and a deadline, under
a generation. `Reconcile` recomputes the assignments of the affected pieces
only; `Merged` is what `effective_for` computes for one piece. Tracking changes
under the state mutex (`windows`, `effective`); libtorrent (`native`) is told in
a later step, and `pending` holds the changes in between. `Select`, `Activate`,
`Acknowledged`, `HotWindow` and `ApplyHotWindow` are the parts of an activation
that touch windows or native piece state; `MoveWindow` and `Close` queue
commands that `HandleReplace` and `HandleRelease` serve later, and
`WorkerApplies` tells libtorrent of them. `untold` remembers the pieces of which
libtorrent was not told since the selection changed, or no longer: those of a
new selection until its activation, those whose change was dropped with its
future, and those whose deadlines an overtaken activation cleared.

### PieceDelivery

For each reader: `reader` (in a poll or not), `call` (its spawned `read_piece`
task and the sender it listens to), `backoff`, `timer`, `woken`; shared: the
hub's registered sender `broker`, what was sent on each sender, the wakers and
libtorrent's alerts. A sender has a number, as the code's broadcast channels
have an identity although the map has one key. Libtorrent is external: a piece
finishes, a requested read posts bytes or an error, another deadline replaces
the one with the alert flag, a verified piece reaches its file some time later.

### EngineLifecycle

A request (`Actors`) walks through `FindEngine`, `Handle` (each step of the
handler between two awaits), `OpenReader`, `StreamEnds` and the spawned
`StreamEndTask`; `RequestDropped` leaves it where it stands, as axum drops a
handler's future when its client goes. `engines` keeps every engine created, for
a request may hold one the registry forgot; `session` says which addition of
the torrent libtorrent has. `CleanupTask`, `Sweep` and `LeaseExpires` are the
background tasks. `native` is what `manages_playback_lifecycle` answers.

### Updates and UpdateHelper

The content of a file is the version it belongs to, `Torn` if a copy was
interrupted. `UpdateHelper` takes one write per step, the rollback plan and the
start of the MSI among them, and may stop after any of them; `Updates` adds the
server's operations under their mutex and the directory both processes use.
`install_update` starts the helper in one step (`HelperSpawned`) and takes the
status in the next (`InstallAnswered`), and its request may be dropped in
between; `cancel_update` removes the staged files (`CancelRemoves`, or in part
`CancelFails`) before it takes the status back (`CancelForgets`). A removal that
goes on when its request is dropped counts as done, and after one that failed a
prefix of the files is left. `overlap` and `disturbed` remember that two helpers
ran at once or a staging directory was emptied under its helper: nothing in the
code prevents either, and the file properties are about the other behaviours.
`halfCancelled` remembers a cancellation that removed files and never took the
status back.

### The services

* `ArchiveStream`: `OpenEntry` makes the cache and its task, the task's steps
  are those of its kind (`AsyncWrite` through a tokio file, whose writes land
  later and may be lost, `SyncWrite` through a std file), `Poll` is
  `ProgressiveReader::poll_read`.
* `UsenetSession`: a `fetch` outlives its `stream`; the instance `Pool` maps
  connections in the channel to `idle`, a fetch's connection to `lent`, those
  never returned to `lost`.
* `SingleFlight`: a cell is named after the caller that inserted it.
* `CacheCleaner`: `Walk` and `Evict` take one file each, so that files appear,
  and torrents come and go, between them.
* `MemoryTorrents`: a verified piece is in its storage, perhaps in the cache,
  perhaps in a file; a lookup asks the cache (`LookupMemory`) and then the disk
  (`LookupDisk`), where it may meet a file that is being written; `PollStorage`
  is the direct read of a poll.
* `HlsSession`: the player of each track follows its playlist; `encode` is the
  request for a segment with the number of ffmpeg processes it holds.
* `StreamRequests`: a body gives one unit at a time and may be cut; `held` is
  what the player has assembled.
* `SettingsStore`: `WriteOpens` empties the file, `WriteEnds` fills it, whether
  or not somebody still waits for them.
* `PauseConfirmation`: time in ticks; anything may happen between two polls.
* `YtDlp`: the managed copy and the staging file survive a `Crash`.
* `LocalAddon`: `Walk` and `Index` are the scan; `Catalog`, `Meta` and `Stream`
  the player's way to an answer.

## 3. Runs

| Run | Module | Checks | Result |
|---|---|---|---|
| `Readers` | MCPlaybackCoordinator | `TypeOK`, `SinglePriorityWriter`, `PermitsAccounted`, `DownloadOwnsSelection`, `BackgroundNeverCancels` | holds |
| `Hls` | MCPlaybackCoordinator | `PlayingIsConnected`, `IdlePauseIsUnheld`, `IsPlaybackLease` | holds |
| `Resolve` | MCPlaybackCoordinator | `SelectionResolves`, `PermitsDrain`, `IdlePauseConfirmed` | holds |
| `Windows` | MCPriorityWindows | `LibtorrentFollows`, `NoOrphanWindow` | holds |
| `Pieces` | MCPieceDelivery | `AnswersAreHeard`, `ReaderServed` | holds |
| `Lifecycle` | MCEngineLifecycle | `CountsBalance`, `ReadersBalance`, `SweepSparesPlayback` | holds |
| `Updates` | MCUpdates | `ProgramRecoverable`, `RollbackRestores`, `InstalledIsWhole`, `StatusTells`, `NoDowngrade` | holds |
| `Services` | MCServices | `ExtractionSettles`, `IsConnectionPool`, `StreamsSettle`, `OneProbeAtATime`, `CallersAnswered`, `PassFitsLimit`, `ChangesCleaned`, `MemoryReaderServed`, `EndedMeansPlayed`, `EncoderIsOwned` | holds |
| `Requests` | MCRequests | `DeliveredAsAsked`, `BlockedPieceIsWanted`, `ConfirmedIsSilent`, `InstalledToolIsWhole`, `EpisodePlays`, `RestartKeepsSettings`, `InactiveEngineLeaves` | holds |
| `StalePriorities` | MCPlaybackCoordinator | `PlayingIsPrioritised` | violated |
| `EmptyBody` | ArchiveStream | `EndedStreamIsWhole` | violated |
| `StaleTool` | YtDlp | `StaleIsRefreshed` | violated |

The violated properties state what a comment or document of the code says; each
has an entry under `findings` with the quotation and what happens instead:

* `StalePriorities`: an activation superseded while its priorities are being
  acknowledged has changed libtorrent's vector but not `acknowledged_priorities`.
  The next activation of the earlier file believes its vector is in force.
* `EmptyBody`: the readers of an archive entry read through a `ReadBuf` of their
  own and never advance the caller's, so a body ends empty.
* `StaleTool`: the cached path of yt-dlp is never looked at again, so a copy
  that goes stale under a running server is not refreshed.

### Interleavings that break no promise a run states

Met while modelling; they are behaviours of the models above, but no property
speaks against them:

* `acquire_metadata` (playback.rs:664) starts no generation, so an idle pause
  that began before it silences the magnet being loaded.
* `perform_pause` (playback.rs:1722) reads `seeding_enabled` before its waits.
* The tick retries a pause (playback.rs:1675) under a generation that a reader
  of a completed file may have joined, and clears that reader's selection. This
  is why the safety properties about readers speak of files that are still
  being downloaded.
* Nothing retries the pause of a dropped or failed `end_hls` (playback.rs:863).
* An activation clears the native deadlines of a reader that joined its
  generation and applied its window first (playback.rs:955).
* Libtorrent is told of a changed merge after two awaits (playback.rs:1324,
  1339), and a request's future dropped there leaves the tracking believing in
  assignments that were never made. The same holds after the deadlines that the
  item above clears. Both repair themselves only when the assignment of a piece
  changes again. `LibtorrentFollows` leaves out the pieces they concern (`untold`).
* `cancel_update` removes the staged files (updater/mod.rs:202) before it waits
  for the lock of the status (mod.rs:206). If its request is dropped there, or if
  the removal fails halfway, the status still says `Staged`, or `Installing`,
  although files are gone; an installation then fails at its checks.
  `StatusTells` excepts these cancellations (`halfCancelled`).
* A timed-out `read_piece` removes whatever sender is registered, possibly that
  of another reader's new call (alerts.rs:153); `ReaderServed` shows that the
  reader recovers.
* A version's backups are saved over by a second installation of it
  (updater-helper/src/main.rs:260). If the same version is rolled back as well,
  files can be lost: a rollback that stops in a copy leaves a torn file, which
  the next installation saves over the good backup; or that installation stops
  in a backup, and a rollback copies the torn backup over the good file. The
  proof of `ProgramRecoverable` met this and TLC confirms it with three helpers;
  `BackupsReused` names it, and the property is about the other behaviours.
* `active_file` (lib.rs:381) keeps the engine of the file played last, until a
  file of another torrent is played: the premise of `InactiveEngineLeaves`.
  `/remove` (routes/engine.rs:69) forgets the engine but leaves the torrent.
* A sibling's counters are dropped by `activate_multifile_file` (lib.rs:855);
  `CountsBalance` says "never more" where the handle does not manage its own
  lifecycle.
* In memory mode storages are labelled by order (memory_storage.cpp:97), and
  `remove_torrent` releases the session before it clears the caches (mod.rs:741):
  with two torrents at once, or one added again meanwhile, a reader may be given
  another torrent's storage or lose its own. `MemoryReaderServed` is checked for
  one torrent.
* The fallback for a full disk announces a "memory-only mode" (stream.rs:616)
  but takes `state.engine`, which lib.rs:456 made a clone of the disk engine.
* A request dropped between `on_stream_start` and the guard that undoes it
  (stream.rs:741-762) stays counted for ever, so that its engine never leaves.
  `CountsBalance` counts it like one that streams.
* A 7z extraction that fails before its writer is cloned only logs: its readers
  wait for ever, and `ExtractionSettles` leaves it out. A reader of any format
  gives up its registration with each poll that finds nothing (cache.rs:284), so
  that nobody wakes it when data comes or the extraction ends; only another poll
  of hyper does. `ExtractionSettles` is about the task and the cache.
* A Usenet connection whose fetch failed is never replaced; when none is left
  the streams wait for ever, which `StreamsSettle` names.
* `resolver.rs:13-17` requires fields `_l` and `_q` that IMDb's answers do not
  have, so that in practice every item is filed under its path; a movie's video
  is listed as `id:1:1`, and `handle_stream` finds none without a season.

### Bounds

* Two callers and, in `Readers`, two files: every conflict in this code is
  between two requests, or between one request and the worker, which is always
  there. `Resolve` and `StalePriorities` make three requests, so that a caller
  comes back to a torrent that others changed.
* `MaxRequests` and `MaxToggles` bound the environment. `MaxGen` exceeds the
  generations these can start (two per request, one per toggle, one per file
  that completes), so its guards (`g \in Gens`) never cut a behaviour.
* `Kinds` chooses the request types of a run; together `Readers`, `Hls` and
  `Resolve` take all of them. `Finishable` limits which files complete.
* `Windows`: two streams, two files that share a boundary piece, two pieces, one
  window move per stream. A merge conflict needs two windows and one piece; the
  second piece is what an incremental reconcile may forget.
* `Pieces`: two readers of one piece, of which `MayClose` names the one that may
  leave, and `MaxCalls = 2` senders: a sender and its successor. When they are
  used up a call stays unsubscribed, which `ReaderServed` has to survive.
* `Lifecycle`: two requests of any of the five kinds on two files, two engines;
  `Reduced` keeps the second engine to native handles without another torrent,
  and the generations of a multi-file selection to three. `Requests` takes the
  same module with one file and one engine for the liveness of its removal.
* `Updates`: releases 2 and 3 after the installed 1, four operations, three
  helpers one after the other, plans of two files (the program and the runtime):
  an installation, the same one again and a rollback. Two helpers were too few,
  see `BackupsReused` above. `OneAtATime` stops where two helpers ran at once.
* `Services` and `Requests`: a behaviour follows one service, and the variables
  of the others keep one initial value, so that the states add up instead of
  multiplying. In them: two connections, two streams and two segments; three
  callers of a probe (one that runs, one that waits, one that is late); two
  files to clean and a limit of one unit; two losses in memory mode; durations
  up to five units with segments of two, so that the last segment is short, full
  or alone; files of up to three units; a cast of 2^9 values for i32, above
  every window a policy decides; three pieces for the disk reader, two of 128 MB
  for the memory reader; a quiet interval of two ticks and a timeout of four;
  two requests and three calls of yt-dlp; four entries to index, of which two
  hold the same episode; an archive entry of two chunks. The library (`Library`)
  and the bounds of the cleaner (`CacheFiles`, `MaxFileSize`, `MaxCacheSize`,
  `MaxEvents`) are constants, so that the theorems are about any of them.
* Symmetry is used for interchangeable callers, streams or files, in runs without
  liveness properties only. Helpers are interchangeable, too, and start in the
  order of their numbers (`OneAtATime`).
* `CHECK_DEADLOCK FALSE`: with the bounded environment spent, an idle system
  has nothing left to do.

### Fairness

`PlaybackCoordinator`: tokio's mutexes, cells and channels are FIFO, so a task
whose step is enabled again and again takes it: strong fairness per caller, for
the command loop and for the worker's pauses. Deadlines pass (weak fairness).
Requests, drops, failures, metadata, completion and the user have none. A
timeout is a step of its task, so that every wait ends. `PausingSpec` adds that
the swarm falls silent at last when pauses are tried again and again, and that
libtorrent then takes the zero priorities; only `IdlePauseConfirmed` needs it.

`PieceDelivery`: woken tasks are polled, timers fire, calls end within two
seconds, the pump ticks every 5 ms, libtorrent reads and stores what it
verified: weak fairness each. A reader that closes and a piece that finishes
owe nothing.

Elsewhere: weak fairness for the steps of tasks that can run, timers, writes
and answers of a service. Strong fairness only for a caller of `SingleFlight`
that waits for its cell, because the semaphore of a `OnceCell` is FIFO. No
client has to make, finish or drop a request. A Usenet fetch that waits for the
pool is served while the pool is not empty (weak fairness: a connection stays
there until somebody takes it).

## 4. What the runs show

In the coordinator, safety rests on one idea: a generation, re-checked under
the operation mutex before anything native is done, and permits whose release
travels through the channel. `PermitsAccounted` shows the counting is exact at
every moment; `DownloadOwnsSelection` and `PlayingIsConnected` that the
re-check is enough for a reader of a file that is still downloading;
`IdlePauseIsUnheld` and `BackgroundNeverCancels` are about single decisions
that must not be taken on outdated counts; `IsPlaybackLease` that all of this
together is the simple thing its clients rely on; `SinglePriorityWriter` about the one
writer of priorities that does not hold the mutex. `Resolve` shows that waits
end. `Windows` shows that what libtorrent was told is the merge of what the streams
ask for: recomputing only affected pieces, under one mutex, and telling
libtorrent of the differences, under another, leaves no assignment behind,
whatever pieces are verified and files selected in between; and that no
cancelled reader steers the download (`NoOrphanWindow`). `Pieces` shows that the 50 ms timer makes up for the missed
notification; without it (the mutant `SleepUntimed`) a reader sleeps for ever.
`AnswersAreHeard` is the safety behind it: a call joins only a sender that can
still answer, a call that ended woke its reader, and a reader between two polls
was woken or has its timer armed.

`Lifecycle` shows that each counter is the number of requests that took it and
did not give it back, wherever they were dropped (a request dropped before its
guard exists never gives it back, and stays in the number), and that the sweeper
does not rely on the counters alone. `Updates` shows
which crashes the helper survives: at every instant each file is installed or in
a backup, and what is started afterwards is whole; and that the status tells the
truth about a candidate, about the staged files and about a helper that was
started on them, except after a cancellation that stopped halfway.
`Services` and `Requests`
show for each service the one promise its users rely on: for Usenet, probes and
memory mode that nobody waits for ever (for Usenet as long as servers answer and
the pool is not empty); for the archives that an extraction ends by saying so,
unless it is a 7z's; for the cleaner,
settings, tools and add-on that what is stored survives what may come between;
for HLS and the routes that a player ends up with the file. The refinement
`IsConnectionPool` shows that a fetch that outlives its stream neither loses nor
doubles a connection.

Each property of a passing run has a mutant in `PROJECT.json`: an operator
marked `Fault` in the modules that changes one definition as a plausible
mistake would, and that the run then refutes.

## 5. Proofs

Every invariant and every safety property of steps that a passing run checks is
proved, both refinements among them, for any number of callers, readers,
streams, files, versions, segments and so on. The modules'
assumptions are the types of the bounds, that marker values are not real ones,
and finite sets over which something is counted: `StateAssumption`,
`CoordinatorAssumption` (finitely many callers), `WindowsAssumption`,
`DeliveryAssumption`, `LifecycleAssumption` (finitely many requests),
`HelperAssumption`, `ServicesAssumption`, `CleanerAssumption` (finitely many
files), `RequestsAssumption`, `LibraryAssumption` (what `parse_filename` makes of
a name: at most one season, and numbers), and for the policy `MBAssumption` and
`I32Assumption`. TLC evaluates all of them. Three
theorems state hypotheses of their own: those about Usenet `Segments \in Nat`
and a marker `NoClient` that is not a client, `ConfirmedPauseIsSilent` the types
of its intervals, and `BlockedReadersAreServed` the one that is more than a
type, explained below.

Few of the invariants are inductive. What each needs besides itself is the
argument for it:

**The coordinator.**

* `TypeCorrect` (`PlaybackCoordinatorProofs`): `Spec => []TypeOK`, which is
  inductive; one lemma per group of actions. `Gens` is bounded by the guards
  that bound the counter.
* `PrioritiesHaveOneWriter`: `Spec => []SinglePriorityWriter`. The loader of the
  layout writes priorities without the operation mutex. `Writers` says what
  excludes it: a task loads only while the layout is being loaded, one at a time;
  every other writer holds the mutex and came past a ready layout.
* `BackgroundJoins`: `Spec => BackgroundNeverCancels`, a property of steps that
  needs the types only, for check and selection are one step.
* `PermitsAreAccounted`: `Spec => []PermitsAccounted`: the counters equal the
  permits held plus the releases in the channel, as cardinalities. `Accounts`
  adds that the channel holds no release but the ones really sent (any other
  would be served and counted down) and that a destroyed HLS session holds no
  permit while it pauses. A step moves the permits of one task and one end of the
  channel, which `Balanced` states as differences; from it `BalanceKept` sums up.
  The saturating subtraction never bites: it would have to release a permit that
  nobody holds.
* `IdlePausesAreUnheld`: `Spec => IdlePauseIsUnheld`: the tick finds the counters
  at zero, so by the accounts there is no permit.
* `OwnershipHolds`, `DownloadsKeepSelection`, `PlayersStayConnected`
  (`PlaybackOwnershipProofs`): `Ownership`, `DownloadOwnsSelection` and
  `PlayingIsConnected`. Whether a pause may clear a selection depends on the
  generation it runs under and on how that generation came about. `Ownership`
  says, per task: a pause that would clear the selection runs under a generation
  in which nothing is selected for download (`ClearsNothing`); a request keeps
  file and priority of its generation, and asked for priority 0 exactly if it
  found the file complete (`SelectionKept`); and a torrent in `PausePending` with
  a download selected is the worker's own doing, after the file completed
  (`PendingIsWorkers`), so that the tick has no old pause to retry under it.
* `ReadersHaveLeases` (same module): `Spec => IsPlaybackLease`, the step
  simulation of `PlaybackLease`; one lemma per group of actions. A `SelectFor...`
  maps to `Take`, `Join`, `Visit` or `Displace`, whichever generation and
  priority it leaves; an activation to `Connect` and `Answer`; a pause that is
  carried out to `Disconnect` or, if it clears the selection, to `Rest`. Two of
  these need the invariants: a pause may disconnect because by `Ownership` and
  the accounts nobody is served, and the tick may take the selection away because
  by `TickFindsNoPermit` there is nobody left to have a lease on it. All else
  (mutex, channel, acknowledgements, timeouts) stutters.

**Windows and delivery.**

* `TrackingIsExact` (`PriorityWindowsProofs`): `Spec => []EffectiveIsMerge`,
  which is about the tracking alone, with the types of windows and readers as
  strengthening. The lemma about `Reconcile` is the heart: outside the affected
  pieces the windows did not change, so neither did the merge.
* `NoReaderLeavesItsWindow` (same module): `Spec => []NoOrphanWindow`. The
  channel decides it, so the strengthening (`StewardInv`) speaks of positions in
  it: a stream's commands carry its reader's generation (a release that is
  refused as stale has no window to take away), and behind every moved window of
  a closed reader comes its release (a window that comes back does not stay).
* `LibtorrentIsTold` (same module): `Spec => []LibtorrentFollows`, from
  `FollowInv`: the two invariants above and `ToldInv`. That one says of each
  piece that is in no change underway and not in `untold` that libtorrent has
  what is tracked for it (`Following`); of a change underway, that it holds what
  is tracked now if it was computed under the present generation, and is in
  `untold` otherwise (`InFlight`); that only the holder of the mutex has such a
  change (`Serialised`); and that who has a window, or will have one, has the
  priority vector of its file behind it (`Acknowledgement`), for a vector that is
  submitted again would overwrite the windows' priorities.
* `JoinedSendersAreOpen` (`PieceDeliveryProofs`): `Spec => []TypeOK` of
  `PieceDelivery`, which is inductive. Beyond the types it says that the sender
  registered for the piece is unanswered, so that no call joins one whose answer
  has gone.
* `NoReaderIsForgotten`: `Spec => []AnswersAreHeard`, whatever alerts are lost,
  late or answered somebody else. `Wakeful` says it of wake-ups and timers;
  `CallWakes` and `PollWakes` are the two sides, a call that must wake its reader
  in the step in which it ends, and a poll that arms the timer in the step in
  which it finds nothing.

**The registry** (`EngineLifecycleProofs`).

* `LifecycleInvariant`: `Spec => []LInv`, from which `LifecycleTypeCorrect`,
  `CountersBalance` and `ReaderCountsBalance` follow. `Sound` says of each
  request that its place tells in how many counters it is (in one between the
  two steps that count it, in both while its body is open, in one again while it
  ends), and that the engine which answered it exists; `Balance` states the three counters as the cardinality of
  the requests that are counted in them. Their bounds (no counter below zero or
  above the number of requests) are no part of the induction: they follow from
  the balance, because a set of requests has such a cardinality.
* `SweeperSparesPlayback`: `Spec => SweepSparesPlayback`: the sweeper reads
  `active_streams`, and by the balance an open body is counted in it.

**The updater** (`UpdatesProofs`). One invariant, `IInv`, proved once for the
server's operations and once for the steps of a helper:

* `Shape`: types, and where a helper and an operation can be (`HelperPlaces`,
  `OpPlaces`); that without an overlap one helper works;
* `Upwards`: no version is installed, saved or on its way that is newer than
  what is to come, which gives `UpdatesGoUpwards` (`NoDowngrade`);
* `Progress`: what a helper at entry `n` has replaced, what it keeps for the
  rollback and what a rollback has restored; it gives `InstallationsAreWhole`
  (`InstalledIsWhole`) and `RollbacksRestore` (`RollbackRestores`);
* `Fresh`: a version that was never started has no backups, and what a helper is
  about to copy stays staged unless somebody disturbed the directory;
* `Recoverable`: each file that was ever there is complete, installed or saved.
  A helper between two writes needs more (`SafeFor`): while a file is saved it
  is complete itself or in an older backup, and once it was removed its backup
  is complete. It gives `ProgramStaysRecoverable` (`ProgramRecoverable`). That
  property was first stated without `BackupsReused`; the attempt to prove it
  showed the two behaviours described in section 3;
* `StatusKnown`: what the status says (`StatusTells`) and what it is going to
  say. While files are staged the status is `Downloading`, so that the emptied
  directory belies nothing; and a request that waits to set `Installing` has its
  files staged and its helper started. It gives `StatusIsTrue`.

**The services** (`ServicesProofs`), as theorems of the composition
`ServicesSpec`, whose runs check them: one service moves, the others stutter.

* `SessionIsConnectionPool`, `ServicesKeepThePool`: `IsConnectionPool`, the step
  simulation of `ConnectionPool`, for the session by itself and in the
  composition. `Holding` is what it needs of a state: a fetch has a connection
  exactly while it asks on it, the connection is then marked as held, and nobody
  else has it; without the last a connection given back could still be lent.
  Connecting maps to `Join` or `Refuse`, taking to `Lend`, a body (even a cut
  one) to `GiveBack`, an error to `Lose`; all that a stream does is a stutter.
  `SessionTypeCorrect` adds `Progress`: a fetch runs only for a segment that
  exists, and a buffered segment is not yet sent.
* `ProbesAreSingle`: `OneProbeAtATime`. A removed entry could let a second cell
  run; `CellState` says that a cell without a value is the one in the map as long
  as somebody has it, so all who probe share it, and `FreshCell` that a name in
  use is not inserted again.
* `PlaylistsReachTheEnd`: `EndedMeansPlayed`, for any duration and length of
  segments. The arithmetic is the lemma `SegmentsCover` (the segments of the list
  cover the file, none of them is empty); `PlayedTo` says that a player has
  reached the start of the segment it asks for next, whichever of full, short or
  only segment the last one is.
* `EncodersAreOwned`: `EncoderIsOwned`, by `Encoding`: a track has one encoder
  while its body is started, replaced or sent, and none otherwise.
* `PassesFitTheLimit`: `PassFitsLimit`, for any files, sizes and limits.
  `PassCounts` says of a pass during which nothing was written that its total is
  the bytes of what it has seen, and that each of these files is still listed or
  has a reason to stay (`Explained`). The bytes of a set are a fold over it: that
  this is a sum (`BytesIsSum`, `SumsExist`, `SumsAgree`, `BytesAdd`) is shown from
  the fold's definition by least counterexamples, since no induction theorem of
  the library can be used.
* `ExtractionsAreHonest`, the safety behind `ExtractionSettles`: a task that
  ended leaves its cache complete (unless it is a 7z's), a zip entry that is
  complete without an error lies on the disk as a whole, and a poll reads nothing
  that is not there. `WritesCounted` follows the one chunk that a tokio file may
  still have in flight or have lost. For RAR the theorem promises less than for
  zip, because its writer is not flushed: its last chunk may be missing in a
  cache that is complete without an error.

**The requests** (`RequestsProofs`), likewise of `RequestsSpec`.

* `DeliveriesAreAsAsked`: `DeliveredAsAsked`, for any sizes and cuts.
  `RouteInv` follows a request: a range is asked from the end of what the player
  holds, the interval answered starts there and ends within the file, and the
  body is where its headers and what was sent of it say.
* `BlockedReadersAreServed`: `BlockedPieceIsWanted`, for any pieces, lengths,
  rates and numbers of peers: the windows of the policy are never empty, and the
  piece that a reader takes for prioritized is in its window until it is
  verified. Its hypothesis `CacheIsCounted` says that the number of pieces that
  fit in the cache is a positive i32, which is what priorities.rs:266 casts it
  to. For a larger cache the cast wraps to a negative number or to zero and
  nothing is promised: this is the hazard noted at that line, and the theorem
  says that it is the only one of its kind there.
* `MemoryWindowsArePlanned`, without that hypothesis: whatever the cast gives,
  the window of a memory-backed reader stays within the file, spans no more bytes
  than the cache (or one piece) holds, so that no reader asks for pieces that
  would evict each other before they are read, and deadlines and priorities
  follow the order of playing. A cast of a natural number is never more than the
  number (`CacheHoldsThem`), hot and warm pieces share one budget
  (`WindowsAreBounded`), and the deadlines of the hot ones cannot reach those of
  the warm (`FurtherIsLater`).
* `StoreInvariant`, `RestartsKeepSettings`: `RestartKeepsSettings`. The
  write that a request waits for was handed the settings in force (`Handed`);
  until a write that nobody waits for meets another one, all writes under way
  have the same content (`Agreeing`); and unless one is owed to a dropped
  request, that content, or else the file's, is what is in force (`Latest`).
* `InstalledCopyIsWhole`: `InstalledToolIsWhole`. `OwnDownload` says that only
  the holder of the lock writes the staging file, so that what it renames is what
  it wrote.
* `ConfirmedPauseIsSilent`: `ConfirmedIsSilent`. The tracker sees totals only at
  its polls; `Watched` says why that is enough: totals never go back, so equal
  totals mean that nothing moved since they were noted.
* `ListedEpisodesPlay`: `EpisodePlays`, for any library, any answers of IMDb and
  any torrents. `ItemsFiled` says that an item is filed under its own identifier
  and is one that the walk may find; `OpenedIsFiled` that the video a player has
  open of a local series was listed from such an item, which is still there,
  because the index only grows. Then the search of `handle_stream` finds an item
  (`EpisodeIsFound`), and what it finds first has the episode asked for, because
  the identifier can be taken apart again (`Quad`).

**Model-checked only.** Liveness, which rests on `ENABLED`: `SelectionResolves`,
`PermitsDrain`, `IdlePauseConfirmed`, `ReaderServed`, `InactiveEngineLeaves`,
`ExtractionSettles`, `StreamsSettle`, `CallersAnswered`, `ChangesCleaned`,
`MemoryReaderServed`. The theorems prove the safety part of some of them
(`NoReaderIsForgotten`, `ExtractionsAreHonest`): that the step which would have
to be lost is not. `MemoryTorrents` has no theorem: with one torrent nothing in
it can be confused, with two the code confuses it (section 3).

## 6. Not modelled

* In the coordinator: `remove_torrent` (drops an entry with its generation
  counter), diagnostics, the emergency reannounce; there is one torrent, since
  entries share nothing but the worker.
* In the windows: the extra stream of `HLS_PRIORITY_STREAM_ID`, hash failures.
* In the delivery: byte ranges within a piece, the general alert broadcast.
* In HLS: whether ffmpeg reads the stream's URL or, once the file is complete
  (for librqbit: at 99 %), the file itself (hls.rs:484-503).
* In the settings: the repair of an empty cache root and of a legacy connection
  limit in a file that is loaded (state.rs:139-152).
* In the cleaner: a watcher that cannot be created. The task then ends, and the
  hourly pass with it (cache_cleaner.rs:41-44).
* In the routes: a resumed request whose file the fallback engine resolves anew
  (stream.rs:655-711).
* In memory mode: the prefetch of the pieces ahead and two sessions at once
  (`memory_disk_io` has one global pointer, which a second session overwrites).
* In the lifecycle: the delayed idle pause, a no-op for one kind of handle and
  the coordinator's own for the other.
* In the updater: progress events, changelogs and the syntax of versions.
* `ffmpeg_setup.rs`, a sequential installation; `bencode`, NZB and name parsing;
  formats, playlists and protocols; casting, subtitles, proxy and ftp routes;
  user interfaces; the librqbit adapter, an alternative build.
* Code that nothing calls: `CachedStream`, `DiskCacheManager`,
  `metadata_cache.rs`, `MetadataInspector`, `wait_for_piece_ready`.
* libtorrent itself, ffmpeg, the file system and the network appear as external
  actions.

## 7. Plan

1. `remove_torrent` in `PlaybackCoordinator`: two entries of one torrent, whose
   generations start over while permits of the first are still in the channel;
   `PlaybackLease` then needs an action that ends all leases.
2. `MemoryTorrents` with two torrents, once the labelling of storages is keyed,
   and its safety as a theorem: a reader is served its own torrent's bytes.
3. The same window theorem for the disk-backed reader as `MemoryWindowsArePlanned`
   is for the memory-backed one; its pins make it larger than its plan.
