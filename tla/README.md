# Verification of ebook-generator

ebook-generator turns plain-text novels into epub, mobi and azw3 books. It is a
command line, a library, an MCP server and, mostly, a web server with a set of
services around it. This directory holds TLA+ models of the web server's core and
of the services it creates, the TLC configurations that check them on small
instances, and TLAPS proofs of the statements that matter most. The source is
`../src`; paths below are relative to it.

    tlc -workers 2 -config TaskService_tasks.cfg MCTaskService.tla   # one run
    tlapm TaskServiceProofs.tla                                      # one proof module

`PROJECT.json` lists the runs with the module of each, and for every definition the
lines of the code it stands for.

## 1. The system

### 1.1 Components

| Component | State | Operations | Meets | What is hard |
|---|---|---|---|---|
| TaskService and handlers (`internal/web/services/task_service.go`, `internal/web/handlers/handlers.go`) | task map, event-channel map, one RWMutex, a goroutine per conversion, SSE streams | upload, convert, status, events, cleanup, CancelTask | storage, parser, converters, clients | check and creation are apart; a channel is used after it was looked up; panics, `os.Exit`; cleanup under a conversion |
| StorageService, ConverterService, converters (`internal/storage`, `internal/web/services/converter_service.go`, `internal/converter`) | files in `web/uploads` and `web/outputs` | build a format, copy, send, remove | TaskService | names shared by tasks, errors dropped or turned into panics, formats of which one fails |
| Parser (`internal/core/parser.go`) | none | `Parse` | TaskService, command line | first and last section, empty titles, volumes |
| Download manager (`internal/download`) | task map, buffered queue, worker pool, statistics, one context per transfer | add, pause, resume, cancel, retry timer, cleanup, Stop | HTTP servers, disk | status written by caller and worker; full queue; resumed transfers |
| Chunked upload (`internal/upload`) | sessions, each with a mutex and a temporary file | initiate, chunk, resume, cancel, expiry, Stop | clients, disk | two locks, torn writes, removal under a write |
| Load balancer (`internal/loadbalancer`) | backend list, hash ring, a breaker per backend, counters | add, remove, route, health check | backend servers | three locks; requests in flight on a backend that goes; breaker order |
| Result cache (`internal/cache`) | entries, LRU list, size, files, index on disk | Put, Get, Delete, Clear, expiry, Start, Stop | disk | copy, evict and index are separate steps; restart from an old index |
| Accounts and presets (`auth_service.go`, `history_service.go` and their handlers) | tables of users and presets, tokens | register, login, profile, password, presets | database | read and write are separate statements, no transaction |
| Conversion history, statistics (`history_service.go`) | a table nothing writes | list, statistics, delete | database, the clock | dates that do not exist; the clock moves between two reads |
| ServiceManager (`internal/services`, `cmd/web/main.go`) | the services, `started`, the database | construct, Start, Stop, Restart, configuration hook | every service, ConfigManager, signals | several callers; order of stops; restart of stopped services; ends of the process that pass Stop by |
| ConfigManager (`internal/config`) | configuration in memory and on disk, hooks, watchers, validators | Load, Set, SetConfig, Import, Reload, file watcher | ServiceManager, editors of the file | callbacks under a lock, rollback, torn saves, file against memory |
| Rate limiters, middleware (`internal/web/middleware`) | a bucket per client | Allow, cleanup | HTTP handlers | refill arithmetic, removal of a bucket in use, a lock that a panic leaves held |
| Cleanup service (`internal/cleanup`) | the schedule, its stop channel | Start, Stop, ForceCleanup, CleanupByPattern | the files of the other services | cleanups beside each other and beside the owners of the files; a failed removal ends a walk |
| Logger (`internal/logging`) | a buffer, a log file, its backups | Log, flush, rotate, Close | every service | two flushers; rotation in the middle of a batch; backups renamed and removed by goroutines nobody waits for |
| Health, metrics, validator (`internal/health`, `monitoring`, `validation`) | result map, counters | check, count | none acts on them | little |
| Command line, library, MCP server, dispatcher, utilities | none | one conversion | parser, converters | little |

### 1.2 How they interact

A client uploads a text and gets a task ID; `/convert` creates a TaskInfo and a
buffered channel and starts a goroutine, which runs through the stages start,
validate, parse, build and save. After each it writes the status under the mutex,
looks the channel up under the mutex and sends an event after releasing it. An SSE
handler receives from the channel; `/status` reads the map; `/cleanup` deletes the
files and both map entries, and closes the channel. The conversion calls the parser,
which may end the process, and the converters, which write files named after the
*book* into a directory that all tasks share; the storage service copies them under
names that start with the task ID.

The ServiceManager constructs the other services, starts the metrics service and, on
Stop, closes channels and contexts of uploads, downloads and load balancer and the
database, one after the other under its own mutex. Only the database and the
history service are handed to the web handlers; upload service, download manager,
load balancer and cache live in the process with their background goroutines and
offer the API that the models take as their environment. The ConfigManager calls
hooks and watchers while it holds its lock, and shares its file with whoever edits
it. The cleanup service shares directories, and no lock, with the owners of the
files. Every service logs; the logger shares nothing else with them.

### 1.3 What makes each correct

- Pipeline: no channel is closed twice or left behind; one outcome per task, which
  is final and is the last event; every stream ends; a panic in a conversion does not
  end the server.
- Conversion: no line of the text is lost or goes under another title; a completed
  task has every format it asked for, and its own book.
- Downloads: one worker per task; nothing is lost between queue and workers; a bound
  on retries; completed files are the source; statistics add up; Stop ends.
- Uploads: each chunk counts once; what completes is what was sent; what the client
  was told stays true; no file stays behind; every call returns.
- Load balancer: counters are the requests in flight; the ring has no dangling
  point; a recovered backend is used again.
- Cache: the size is that of the entries; limits; a hit returns what was put; no
  file without an entry.
- Accounts: an update that was answered OK holds; one default preset per user.
- History: the months of the statistics are the last twelve, each once.
- ServiceManager: whoever stops the services, every loop and worker of them ends; a
  shutdown goes through Stop.
- ConfigManager: what a call has confirmed is the value in memory and in the file,
  also after a call that was refused; an edit of the file arrives in memory.
- Rate limiter: a bound on what is granted in any interval of time.
- Cleanup: a file that is old enough goes.
- Logger: every entry is in the files once and in order, or is lost for a reason.

## 2. Modules

| Module | Models | Checked by | Proved in |
|---|---|---|---|
| `TaskLifecycle` | what GET `/status` promises about one task ID (abstract) | refined by `TaskService` | `TaskStreamProofs` |
| `TaskService` | task and channel maps, mutex, handlers, conversion goroutines, SSE streams, signals, restart | `MCTaskService` | `TaskServiceProofs`, `TaskStreamProofs` |
| `Parser` | `core.Parse` as functions on lines | through `Conversion` | |
| `Conversion` | the files of conversions that run side by side | `MCWeb` | `WebProofs` |
| `Accounts` | users and presets as interleaved SQL statements | `MCWeb` | `WebProofs` |
| `HistoryService` | the months of the statistics | `MCWeb` | `WebProofs` |
| `DownloadManager` | tasks, queue, workers, retries, control calls, Stop | `MCDownloadManager` | `DownloadManagerProofs` |
| `DownloadTransfer` | what the attempts of one task write into its file | itself, `MCInfrastructure` | `InfrastructureProofs` |
| `StreamUpload` | sessions, chunk requests, verification, expiry | `MCStreamUpload` | `StreamUploadProofs` |
| `LoadBalancer` | backends, ring, breakers, requests, health checks | `MCUpkeep` | `LoadBalancerProofs` |
| `CacheService` | entries, files, index, restarts | `MCInfrastructure` | `InfrastructureProofs` |
| `LoggerService` | buffer, flushers, log file, rotation, backups | `MCInfrastructure` | `InfrastructureProofs` |
| `RateLimiter` | the token bucket of a client and its cleanup | `MCInfrastructure` | `InfrastructureProofs` |
| `ConfigManager` | configuration in memory and file, calls under the lock, file watcher | `MCServices` | `ConfigManagerProofs` |
| `ServiceManager` | start, stop and restart of the services, ends of the process, around a `DownloadManager` | `MCServices` | |
| `CleanupService` | walks and emergency removals beside the owners of files | `MCUpkeep` | |

`Web` and `Infrastructure` put components that share no state side by side, as
instances with constants and variables of their own. An `MC` module gives constants
their values and says whose steps a behaviour takes.
`Conversion` extends `Parser` and takes over where `TaskService` abstracts: there a
build is one call that succeeds, fails or panics, here it is the files it writes.
`DownloadTransfer` does the same for the transfer of `DownloadManager`.
`ServiceManager` instantiates `DownloadManager`: its steps go on while the process
runs, and its Stop is one step of the manager's.

`MCWeb`, `MCInfrastructure`, `MCServices` and `MCUpkeep` check several components that
share no state, `MCTaskService` and `MCDownloadManager` two instances of one component
with different bounds. There a variable `focus` names the one a behaviour looks at: its
steps are those of its own specification, and the others stay in their initial states.
The behaviours of such a module are therefore those of its components, one at a time,
and a property of one component says the same there as it would alone. The properties
of a second instance have a name of their own: `SharedChannelHasProducer` and
`SharedTaskSettles` are `MappedChannelHasProducer` and `TaskSettles` of two requests
with one task ID, `ResumedDownloadEnds` is `DownloadEnds` of one task that is resumed.

### 2.1 TaskService

`tasks` and `eventChannels` map a task ID to the *request* that made its TaskInfo and
channel, because a second `/convert` with the same ID replaces both while the first
goroutine still uses the old ones; `status`, `progress`, `buf` and `closed` belong to
the request. Each critical section is one action. The mutex appears as `cleaning` and
`cancelling` where it is held over several steps: CleanupTask removes files and then
map entries; CancelTask calls sendEvent with the lock held, which never returns, so
`cancelling` stays set. A goroutine is a pair: `stage` (which part of
processConversion) and `step` (update the status, look the channel up, send, act).
`LookupChannel` and `SendEvent` are two actions, which is where a send on a closed
channel comes from; the panic is recovered once (`Panic`) and ends the process the
second time (`PanicInRecover`). `Signal` is the signal handler's `os.Exit(0)`,
`ExitInParse` the `os.Exit(1)` of `readBuffer`, which any error of opening or reading
the upload brings about, whether the file is there or not, `Restart` a new process,
which finds the files and forgets the maps.

### 2.2 Parser and Conversion

A line is one of a few kinds (volume, chapter, extra, excluded, too long, the
unknown-title word, text, blank): what the regular expressions and the length limit
tell apart. `Cut` is the loop over the lines, `Group` the pass that puts chapters
into volumes, `AddSection` one section of it; both are recursive functions. The reference definitions
(`KeepsLines`, `TextIsUnderItsTitle`, `ChaptersAreInTheirVolume`) are stated over
line numbers and do not use the parser's state. `Conversion` runs two tasks over one
output directory: an output file is opened, closed or fails, is collected by name and
copied; what a file holds is the task that wrote it, `partial`, or `mixed` when two
wrote at a time. A copy is one step.

### 2.3 DownloadManager and DownloadTransfer

`pc[w]` is the place of a worker in `processTask`, with one action for each critical
section: claim, count, transfer, failure or success, rename, give up, leave.
`caller[t]` is where AddDownload or CancelDownload is for a task between two of its
sections; `timers[t]` counts the retry timers outstanding. `TryEnqueue` is the send that
falls through when the queue is full: `turnedAway` holds the tasks that met a full queue,
as new ones, resumed ones or by their retry timer.

`DownloadTransfer` follows one task's bytes: `file[i] = i` where the source's byte is in
its place, `0` for a hole. The server may or may not offer ranges and may or may not
honour them. `Cancel` is CancelDownload beside a transfer: it stops the attempt and
removes the temporary file (`linked`), while the writers that have it open go on writing
to what no name leads to. The worker overwrites `cancelled` as any other failure and tries
again; a single stream then seeks to what it has counted in a new file, and a transfer
whose writes were all done completes without a file to rename.

### 2.4 StreamUpload, LoadBalancer, CacheService

`StreamUpload` gives every chunk request a `pc` under the session's mutex (`holder`)
and lets CancelUpload, expiry and Stop, which take only the service's mutex,
interleave with it. `LoadBalancer` splits AddBackend (list, then ring), a request
(arrive, select, answer) and a health check (start, answer, record). `CacheService`
has one action per public call, which holds the mutex throughout, plus the end of the
process at any time, a copy that breaks off, and a new process that loads the index.

### 2.5 Accounts and HistoryService

A request is at one of its SQL statements (`req[r].at`) and carries what it has read.
`owed`, `tidy` and `chosen` are history: what the last update that was answered OK
promised. ChangePassword has a handler and a route in the API tests, and none in
`cmd/web/main.go`; it is modelled because it shares the row with the others.

`HistoryService` counts months as numbers. `AddDate` is what Go's does with a day
that the month in question does not have: it counts on into the next one. `today` may
move to the next day between two months of the list, since the code asks the clock
for each.

### 2.6 ServiceManager

`at[c]` is where a caller is in Start, Stop or Restart; `Locked` is the mutex, which
Stop holds from its first service to the database. `loops` are the services whose
background loop runs, `closed` those whose channel or context has been closed, which
nothing reopens: a Restart starts the collectors of the metrics service again
(`collectors`) and nothing else, and the next Stop panics on a closed channel
(`CloseTwice`). `Signal` is `os.Exit` in the signal handler, `ListenFails` the
`log.Fatal` of the listener: both pass the deferred Stop by.

### 2.7 ConfigManager

`call` is the call that holds the lock, with the paths it sets and whether it is in
the callbacks, about to truncate the file, or about to write it. Callbacks return,
fail or call Get, which waits for the lock of its own caller (`stuck`). A refused Set puts
the old value back (`Refuses`); a refused SetConfig puts the map in the struct's place that
cloneConfig has decoded from JSON (`BecomesMap`): `kind` tells the two apart, the map has
the values under the tags' names, where no path finds them, and a later save writes it.
Load and the watcher's first Stat are two steps (`NewConfigManager`, `startFileWatcher`):
an edit between them counts as one already seen (`missed`). `newer` compares the file's
time with the one the watcher has noted, `watcher` is where the watcher's loop is. `told`
is history: what was last confirmed.

### 2.8 CleanupService, LoggerService, RateLimiter

`CleanupService` has a cleaner for each goroutine that may be in a cleanup, its
directory and what its walk still has to look at: a directory is listed when the walk
enters it, and a file's stat and its removal are two later steps. A file that is gone
by then or cannot be removed ends the walk. Owners write and remove files at any time.

`LoggerService` numbers entries. `batch[f]` is what a flusher has taken from the
buffer and not yet written; each line may find the file full and rotate it, or fail.
The name of a backup is the second of its rotation, so that two of a second collide.
`lost` collects the entries that a failed write, an overwritten backup or a removed
one has cost, and nothing else may.

`RateLimiter` has one client, since clients share only the lock. A request of a new
client and one of a known client are the two branches of Allow; `SetHeaders` is the
second lookup in the middleware, which panics when the client was forgotten in
between and leaves a read lock behind (`readers`). `window` watches an interval that
may begin at any time.

## 3. Runs

| Run | Asks | Shows |
|---|---|---|
| `TaskService_tasks` | one task, one subscriber, cleanup, CancelTask, signal, restart; two `/convert` with one ID that both pass the existence check | events arrive in order and end with the outcome; six slots of the channel suffice; the outcome is final; no panic ends the server unless a task is cleaned up under its goroutine; streams end; `/status` implements `TaskLifecycle`; with one ID twice, no channel is closed twice or left in the map and the task settles |
| `Download_pool` | two tasks, two workers, a queue of one, pause, cancel, Stop; one task that is also resumed | one worker per task; a pending task is on its way to a worker unless it met a full queue; retries are bounded; statistics balance; Stop ends the workers; what got into the queue ends |
| `Transfer_resume` | a chunked download broken off and resumed | **violated**: the file has holes (section 7) |
| `Upload_chunks` | two requests on one session, good, corrupt and short data | counted once, intact, told the truth, no file left, calls return |
| `Server_upkeep` | two backends, a request, a health check; three cleaners beside the owners of the files | counters balance, ring complete, a recovered backend returns; old files go |
| `Web_data` | texts of up to two lines and six longer ones, one or all formats, a full disk; two requests on accounts or presets, any statement failing; every day of two years | the book is the text, with its titles and volumes; completed tasks are complete and own their books; updates and defaults hold; the months of the statistics in the first 28 days of a month |
| `Conversion_names` | two books of one name | **violated**: a task completes with the other's book (section 7) |
| `Services_data` | a cache in a calm and a rough process; one stream or up to four chunks and three attempts; rotations beside two flushers; two requests at a token bucket | size and limits, right hits, no orphan files; what completes uncancelled is the source; every log entry once and in order; the bound on grants |
| `History_months` | every day of two years | **violated**: on the last days of a month the list has one month twice and another not at all (section 7) |
| `Services_process` | Stop and Restart by two callers, signals; calls, refused ones too, and edits of a configuration | loops and workers end; what was confirmed holds; an edit arrives |
| `Config_rollback` | the same configuration | **violated**: after a refused SetConfig Get finds no confirmed setting (section 7) |
| `Services_shutdown` | a signal | **violated**: the process ends with its services running (section 7) |

### 3.1 Bounds, and why they are enough

- One task and request in the first half of `TaskService_tasks`: tasks share nothing but
  the mutex and the process, and the theorems cover any number of them.
  `Cap = 6` replaces the 100 of the code: it is the largest number of events a
  conversion sends before its outcome, and `NothingDropped` is what says so. One
  restart suffices because a new process keeps nothing of an older one.
- In its second half a channel of one slot makes full channels common. There is no
  subscriber because the first half has one; two goroutines on one task are the point.
- Two workers and two tasks are the least at which a task can be in the queue, in a
  timer and at a worker at a time. `QueueCap = 1` is overrun by the second task, as a new
  one and by a retry, and `MaxRetries = 2` has a retry and a last failure. The theorems
  are for any of these. The one resumed task has a worker less to meet itself at.
- Chunks have two units, so files of 2, 6 and 7 are one stream, even and uneven chunks.
- One session with two chunks and two requests: sessions share only the limit on
  open uploads, and two requests suffice to meet in every section.
- Four points on the ring, interleaved, so that each backend precedes the other. Breaker
  thresholds of 2, 1 and 1: counters are capped where they stop being compared.
- `MaxEntries = 2`, `MaxSize = 3`, sizes 1 and 2, three keys: each limit is hit alone
  and together. Keys are symmetric.
- Texts of up to two lines have every pair of five kinds; the six longer ones have
  volumes with and without chapters, extras inside and outside, blank, excluded and
  overlong titles.
- Two users, two rows of each name and address; registrations, profile and password
  updates in one scenario, registration and presets in the other: the two touch
  different tables. 2024 and 2025 are a leap year and a common one, and the list goes
  back across the turn of a year.
- A file of one line, one backup and four entries: two rotations, the second of which
  finds the backup of the first, in the same second (`MaxClock = 1`) or in the next.
- 90 requests a minute with a clock of two ticks a second are a rate that is no whole
  number of tokens a second and times that are no whole seconds. A burst of 2 is used
  up and refilled, and the nine ticks are long enough for the client to be forgotten
  (`Expiry = 5`) and to come back.
- Two settings and three values, one of them refused; two calls and two edits are the
  least for an edit between two calls and a call between two edits, each with any
  callback.
- Two directories, one with a file that cannot be removed, which ends every walk there, the
  other with two files: the owner, or another cleanup, removes the first between its stat
  and its removal and so hides the second from a walk. Owners do two things, enough to
  break off two walks or to write a file again. A fifth of the limit of 3 is one file. The
  initial, the scheduled and one forced cleanup can be in one directory at a time.
- Two callers and two stops around one worker: Stop under Stop, and Stop after Restart.

No run checks deadlock, since each instance comes to its end: all requests are done,
bounded calls are used up, the workers are gone, or the process has ended. Waiting
for good is the subject of the liveness properties instead.

### 3.2 Fairness, and why the code justifies it

- Go's scheduler runs every goroutine that can run, so the steps of a handler, a
  conversion goroutine, a worker, a timer function are weakly fair. `sync.RWMutex`
  blocks new readers when a writer waits, so an unlocked mutex is taken in the end.
- `StreamUpload` asks for strong fairness of a chunk request, because others take and
  release its mutex again and again; the runtime's starvation mode gives exactly that.
- A transfer ends: the HTTP client of the download manager has a timeout. A health
  check ends for the same reason. `LoadBalancer` asks that a check of each backend be
  started again and again (the ticker), strongly because the one check of the
  instance may be busy, and that an open breaker's timeout passes.
- The request for a cover has *no* timeout (`internal/utils/cover.go:59`). `TaskSettles`
  and `StreamEnds` assume that it answers or fails; a service that does neither keeps
  the task in "processing" for good.
- A caller of the ServiceManager that is in Stop or Restart goes on, and loops look at
  their channels: they are goroutines that can run. A call that holds the lock of the
  ConfigManager goes on, unless a callback waits for that lock itself. Reload is
  strongly fair, because calls take and release its lock again and again and a
  waiting writer is served. The cleanup's ticker ticks while its schedule runs.
- Clients, signals, crashes, editors of files and administrators owe nothing. A server
  that a health check asks may go up and down at will.

## 4. What is left out of the modelled parts

- In `StreamUpload` a status write is atomic, though two locks guard it and a reader
  under one of them races with a writer under the other.
- CancelDownload, pause and resume are called with IDs AddDownload has returned.
- `DownloadManager` has no bytes and no files: what CancelDownload's removal of the
  temporary file does to a transfer is `Cancel` of `DownloadTransfer`. That an attempt
  follows a cancel at all, because the worker overwrites the status, is in both.
- Data: a chunk is one of good, corrupt, short; a cached file is its version and size;
  a book is the task that wrote it. Speeds, percentages, names, logs and times are out.
- The selection algorithms other than consistent hashing are one choice among usable
  backends.
- `Accounts` has no roles, no expiry of tokens, and no `IsActive`, which nothing sets
  to false. Reads are single statements and change nothing.
- `TaskService` treats an upload that fails as none: its client never learns the ID.
- `ServiceManager`: what loadConfig reads is always the defaults (section 7). A service
  that cannot be constructed ends the program. Uploads and load balancer have only
  their loops here; their own modules have the rest.
- `ConfigManager`: settings have one level, and the map of a rollback has every value of
  the struct, under names that no path matches. An edit, like a save, is a truncation and a
  write. Environment variables match no path.
- `CleanupService`: a file has a name, a size and its place in the order of ages.
  Expired tasks are a function without a body, statistics are dropped.
- `LoggerService`: levels, formats and the analyzer, which returns empty results.
- `RateLimiter`: the rate limiters by IP, user and path are this one under another key.

## 5. Proofs

Proved for every set of tasks, requests, subscribers, workers, sessions, chunks,
backends, settings, users, cache keys and values, and for every capacity, threshold,
rate, size and clock, from the named ASSUMEs of the modules (`Nil` is none of the
elements, capacities and limits are positive, `TaskOf` maps requests to task IDs, sets
that are counted are finite) and from the conditions in the last column:

| Theorem | Says | If |
|---|---|---|
| `TaskServiceProofs!TypeCorrect` | `[]TypeOK` | |
| `TaskServiceProofs!ChannelsHaveProducers` | `[]MappedChannelHasProducer` | |
| `TaskServiceProofs!OutcomeIsFinal` | `SettledIsFinal` | one request per task ID |
| `TaskStreamProofs!NoPanicEndsServer` | `[]PanicsAreContained` | one request per task ID |
| `TaskStreamProofs!EventsArriveInOrder` | `EventsInOrder` | one request per task ID |
| `TaskStreamProofs!SixEventsSuffice` | `[]NothingDropped` | one request per task ID, `Cap >= 6` |
| `TaskStreamProofs!StreamsCarryTheOutcome` | `[]StreamEndsWithOutcome` | the same, and one subscriber |
| `TaskStreamProofs!StatusImplementsLifecycle` | `ImplementsLifecycle`: the refinement | one request per task ID |
| `DownloadManagerProofs!TypeCorrect` | `[]TypeOK` | |
| `DownloadManagerProofs!WorkersAreExclusive` | `[]OneWorkerPerTask` | nobody resumes |
| `DownloadManagerProofs!RetriesAreBounded` | `[]RetriesBounded` | nobody resumes |
| `DownloadManagerProofs!PendingTasksAreQueued` | `[]PendingIsQueued` | |
| `DownloadManagerProofs!StatisticsAddUp` | `[]StatisticsBalance` | nobody resumes, finitely many tasks |
| `StreamUploadProofs!ChunksAreCountedOnce` | `[]CountedOnce` | |
| `StreamUploadProofs!CompletedUploadIsIntact` | `[]CompletedIsIntact` | |
| `StreamUploadProofs!RepliesAreTrue` | `[]ToldIsTrue` | |
| `StreamUploadProofs!FilesGoWithSessions` | `[]NoFileLeft` | |
| `LoadBalancerProofs!CountersBalance` | `[]ConnectionsBalance` | |
| `LoadBalancerProofs!RingLeadsToBackends` | `[]RingIsComplete` | no two virtual nodes have one hash |
| `ConfigManagerProofs!ConfirmedSettingsHold` | `[]ToldHolds` | |
| `WebProofs!CompletedTasksAreComplete` | `[]CompletedIsComplete` | |
| `WebProofs!SavedBooksAreOwn` | `[]SavedIsOwnBook` | |
| `WebProofs!BooksAreTheTexts` | `[]BookIsTheText` | |
| `WebProofs!UpdatesHold` | `[]UpdateHolds` | |
| `WebProofs!DefaultsAreUnique` | `[]DefaultsHold` | |
| `WebProofs!StatisticsListTheMonths` | `[]MonthsHold` | |
| `InfrastructureProofs!CompletedTransfersAreIntact` | `[]CompletedIsIntact` of `DownloadTransfer` | |
| `InfrastructureProofs!CountedBytesAreWritten` | `[]CountedIsWritten` | |
| `InfrastructureProofs!HitsAreRight` | `[]HitIsRight` | |
| `InfrastructureProofs!FilesHaveEntries` | `[]NoOrphanFile` | |
| `InfrastructureProofs!SizesAreCounted` | `[]SizeHolds` | |
| `InfrastructureProofs!LogsAreComplete` | `[]LogIsComplete` | |
| `InfrastructureProofs!RateIsBounded` | `[]RateBound` | |

The theorems about an instance in `Web` or `Infrastructure` are about the specification
of that component, as `Accounts!Spec => []UpdateHolds`. An instance takes no ASSUME with
it, so they name theirs as hypotheses; `MCWeb` and `MCInfrastructure` assume the same of
the values the runs give.

What a property excepts is part of its statement: a full queue in `PendingIsQueued` and
`StatisticsBalance`, a cancel in `CompletedIsIntact` and `CountedIsWritten`, a login in
flight in `UpdateHolds`, the map of a refused SetConfig in the first half of `ToldHolds`.
Section 7 has the executions behind these, and behind the conditions on requests and
resumes; hashes that collide would replace each other's point on the ring.

*Types.* `TypeOK` is not inductive alone: a goroutine that sends needs a channel to
send to, a subscriber on a stream a channel to receive from, a busy worker a task.
`TypeInv` adds those references.

*Channels.* `MappedChannelHasProducer` says that a channel in the map is open, that it
belongs to the TaskInfo in the map and that its own handler or goroutine is still
under way. For CreateTask to keep it, the new request's channel must not have been
closed before, hence the second part of `ChannelInv`: a request that has not reached
CreateTask has an open channel and no goroutine. For CleanupTask to keep it, the
TaskInfo must be filed under its own ID, the first part. Then closing happens
only on a mapped channel, which the invariant says is open.

*Outcomes.* A settled status could be overwritten by an update of a later stage, by
the recovery from a send on a closed channel, or by CancelTask. `OutcomeInv` excludes
the first two by the position of the goroutine: a status is settled only when its
goroutine has written its last one, and the send of the outcome comes before the
channel is closed. `OutcomeStep` then goes through the three actions that write one.

*Panics.* A process ends by a panic in the recovery, by the parser's exit or by a signal;
only the first is excluded. `SurvivalInv` ties it to a cleanup: a task's channel is in
the map, open, until the upload has been removed.

*Events.* `QueueInv` says that a channel holds events in the order of the stages, that
all of them come before the one its goroutine is about to send, and no more than
the stages so far send, which is six at most and never before a stage has begun
(`StatementInv`). `ReaderInv` says that what a subscriber last received comes before
all of it. `EndInv` adds that a conversion that is over without a cleanup has sent its
outcome; a stream that ends has emptied the channel, so its one subscriber got it.

*Refinement.* The status and the progress of the TaskInfo in the map are the abstract
state. A step maps to a step of `TaskLifecycle` or to a stutter because of
`ProgressInv`: the TaskInfo in the map has the status and the progress of the stage
its goroutine is in, as long as CancelTask does not hold the mutex, which it keeps for
good. `OutcomeInv` is what keeps settled states settled.

*Workers.* `PoolInv`: a task at a worker is neither new nor pending, so the check in
Claim keeps a second worker away. Only Resume makes a task pending while a worker
still has it, and it is excluded. A task that used up its retries is neither pending
nor at a worker, so that nobody can fail it again.

*Queue.* `PendingIsQueued` asks that each step which takes a pending task from one place
puts it in another: a send that finds room does so, one that falls through marks the task
as turned away, which is remembered for good. `PlaceInv`, for the statistics: a task is in
one place at a time, about to be queued, in the queue once, in one timer, or at one
worker.

*Statistics.* `ActiveInv` says that the counter is the number of workers between its
increment and its decrement, which `AddOne`, `RemoveOne` and `Recount` turn into facts
on cardinalities. `BalanceInv` then accounts for every task ever added: it is open,
counted as completed, or counted as failed.

*Uploads.* `CallType`, `Exclusive` and `Knows` say what a request holds at each of its
sections: one at most has a session's mutex, and what it has read under it is still so.
`Booked` is about a session's chunks (the size counts them, each has been written),
`Filed` about its file (there while the session is, gone once nobody is to remove it),
`Settled` about its end: a whole upload is completed or about to be verified.

*Load balancer.* `LoadInv` is the property with its types: every way out of a request
takes back what it added, also after its backend has gone. `RingInv` adds that a
point is on the ring once, and not before the second half of its backend's addition.

*Configuration.* `IInv` adds to `ToldHolds` the types and that a process which has ended
holds no lock. A refused Set is rolled back before anybody is told of it; a reload finds
the confirmed value in every file that is not torn. `MapKeepsTold` is what a refused
SetConfig needs: the map that takes the struct's place still has every confirmed value, so
a save of it writes the same file.

*Rate limiter.* The bound alone is not inductive: what may still be granted depends on
the tokens in hand and on the last refill. `OldEntry` (last refilled before the
interval), `NewEntry` (refilled within it) and `NoEntry` (forgotten) are the three
accounts; the fraction of a token that a refill drops only helps.

*Conversions.* `CompleteInv` says that the formats in the result and those still to be
built are together what was requested until the task is over, so a task that completes
has them all; a converter or a disk that fails leaves the loop. `OwnInv` follows the file of one format
under a name that no other task uses: it is absent, whole, or partial while its task
writes it, and only a whole one is copied to the task. To both of them what the parser makes of a
text is a value; `BookInv` says that the value of a task that has been parsed is the
`Parse` of its own request, and the rest is about `Parse`.

*Parser.* Both passes are recursive functions over positions, and each has a loop
invariant. `CutOK` is that of the lines: the sections so far hold every line before the
last title that is neither blank nor lost, the open one every such line since, in order
and each under the last title before it, and a lost title has no section. `CutStartOK` starts
it, and `BlankComes`, `TextComes` and `TitleComes` are its steps; `CutIsFlat` is what it
says at the end. `GroupOK` and `Placed` are those of the sections: the volumes closed and
the open one hold the sections so far once and in order, and an open volume is the last
end of a volume so far. `GroupStep` goes through the four ways AddSection places a section.
`LinesAreKept`, `TextIsUnder` and `ChaptersAreIn` then turn the two into the three
reference definitions. Neither pass needs an induction theorem: `Reaches` proves that a
set of numbers which holds 0 and the successor of each member below n holds n, from
`Least`, the least number that would be missing.

*Accounts.* `RequestsOK` says what a request has read and still holds at each of its
statements. `HeldOK` adds to `UpdateHolds` that no login which is about to save a row
holds another value of the column than the one that is owed: a save writes all columns
back. An update while a login of the user is in flight owes nothing, since that login may
undo it. `PresetsOK` says of a user whose requests came one at a time that no request of his
is between its two statements unless it is the only one, and which presets are defaults
then and after it.

*Months.* `HistoryInv` numbers the months: the k-th month listed is the one that belongs
there or the next, and the former when neither day was past the 28th.

*Transfers.* `StreamInv` ties the three counts of a single stream together: on a server
that answers Range requests the place that is read from is the place that is written to,
and all before it is in the file, as long as no cancel has removed it. `ChunksInv` says the same of every chunk of a first
attempt; that chunks of a completed transfer leave no gap is `ChunksCover`, from the way
`createChunks` divides. Neither holds for later attempts of chunks, see section 7.

*Cache.* `FilesAreEntries`: while copies do not break off and the process goes on, every
file in the directory is the content its key's entry was made for. Eviction and
replacement remove by key what they also take out of the map. `SizeInv` says that the
reported size is the sum of the sizes of the entries, and that the order lists each key
that has an entry once, in the cache and in the index, so that an eviction of all of
`order` leaves nothing; `EvictedLeavesRoom` then says what one of a part of it leaves.
The sum and the removal from a list are recursive functions, and what they compute is
proved like the parser's loops: `Least` gives the least number for which a claim would
fail, and the claim for its predecessor refutes it (`SumIs`, `SumRemove`, `WithoutIs`).

*Logger.* The log is a sequence of places: the backups by name, the file, the two
batches, the buffer. `Whole` says that the places hold every entry that is not lost
once, `Ordered` that they hold it in order. Each action moves one entry (`EntryComes`,
`HeadMoves`, `HeadDrops`) or the contents of a whole place (`PlaceMoves`, `PlaceDrops`),
and the lemmas state what that does to any function of places. `FlushInv` says why the
place moved over is free: no backup is named after a second still to come, and while
flushes do not overlap one of the batches is empty.

What stays with TLC: every liveness property, `WorkersStop`, `TaskSettles` and the others
of section 3.2, and the five disagreements of the violated runs. They rest on fairness, hence on ENABLED, which the provers do not handle.

## 6. Not modelled

Listed in `PROJECT.json`, each with its reason.

- Health service and metrics service: periodic checks and counters that overwrite a map
  under one mutex. Nothing in the process acts on what they hold. That the collectors
  of the metrics service never end is in `ServiceManager`.
- File validator: a pure predicate on one file.
- Command line, library, dispatcher: sequential front ends of the parser and the
  converters. The dispatcher builds the formats one after the other, drops the errors
  of the builds and always returns nil; nothing outlives the call.
- MCP server: one tool call for each message, the same conversion, no state between.
- Utilities: pure helpers, and the cover request, which `TaskService` has as a call
  that succeeds, fails or panics.
- The rest of the conversion history: its table has no writer, since CreateHistory,
  CompleteHistory, UpdateHistoryStatus and RecordDownload have no caller. The reads are
  single queries and DeleteHistory is a single statement.
- Generated API documentation, database set-up, routes, SDKs and tests.

## 7. What the code does not keep

Statements one would like to make, and the execution that breaks each. Five are runs that
TLC finds violated; the conditions in the properties exclude the others.

Pipeline
- Two tasks whose books have one name build one file (`converter_service.go:40`): run
  `Conversion_names`.
- Two `/convert` with one ID: the second replaces TaskInfo and channel of the first,
  and both goroutines then report to the second; its outcome may change again.
- A subscriber that checked a task before a cleanup may open its stream after it.
  Two subscribers of one task share its channel: each sees a part of the events.
- A cleanup during a conversion leaves the files the conversion saves later, makes
  its next send fail, and can end the whole server (`parser.go:24`).
- Any error of opening or reading an upload, too many open files or a failing disk as well
  as a cleanup, ends the whole server by `os.Exit` inside the parser (`parser.go:21-34`)
  and with it every other task. No property says otherwise: `PanicsAreContained` is
  about panics only.
- CancelTask, which no handler calls, waits for its own lock (`task_service.go:336`).
- Outputs of books with a given name are never cleaned up: they do not start with the
  task ID.
- A title equal to the unknown-title word without text is dropped, and a last line
  without a newline is never a title.

Downloads
- A chunked download that is broken off and tried again truncates its file and skips
  the chunks it had (`download_manager.go:630`): run `Transfer_resume`.
- A pause or cancel is overwritten by the worker whose transfer it stopped: the task
  goes back to pending and is retried. A resumed task may be at two workers.
- A cancel removes the temporary file of a transfer that is still running
  (`download_manager.go:376`). The worker overwrites the status and tries again: a single
  stream goes on at `task.Downloaded` in a new file and completes with a hole at its
  beginning, and a transfer that was through completes without a file.
- A server that ignores Range sends the whole file, which is appended to the part.
- A new or resumed task for which the queue is full stays pending without anybody to take
  it (`download_manager.go:270`, `350`); one that is to be queued again by its timer fails,
  and no statistic counts it. `DownloadEnds` is about tasks that got into the queue.

Uploads
- The limit on open uploads counts only sessions that already have a chunk.
- A cancelled session is uploading again when a chunk that was under way is marked.
- A completed upload whose content fails the verification can be resumed, but its
  chunks count as uploaded, so it can only complete by repeating the verification.

Load balancer
- A breaker never closes: open breakers let requests through after the timeout and
  stay open, and nothing sets half open. Failed requests are recorded as successes.
- Consistent hashing ignores health and breaker. A backend removed between the two
  halves of its addition stays on the ring.

Cache
- Replacing an entry deletes the file that was just written (`cache_service.go:184`), since
  the old entry has the same path. The
  number of entries exceeds its limit by one. A file larger than the limit is stored
  all the same. A copy that breaks off leaves a torn file under the old entry's name.
- The index is written on Stop only. Start after Stop has a closed channel.

Accounts
- Login saves the whole row it has read: a profile or password update between the
  read and the save is undone.
- Two overlapping requests can leave two default presets; an update of a preset that
  is not there unsets the default and is answered OK.

History
- On the last days of a month a month that has no such day is left out of the
  statistics and the next one is listed twice (`history_service.go:235`), though they are
  those of the last 12 months (`:211`): run `History_months`. The clock is read again for
  each month. `MonthsHold` says when the list is right.
- BatchConvert (`history_handlers.go:487`) answers with task IDs that no task has.

Services
- A signal ends the process by `os.Exit`: the deferred Stop never runs and uploads,
  transfers and buffered log entries are cut off: run `Services_shutdown`.
- Restart leaves every channel closed, the loops ended and the database closed, and
  starts only the metrics collectors, in addition to those that run: they never stop,
  though a comment (`service_manager.go:547`) says they do. The next Stop panics.
- Cache and cleanup are constructed and never started, so that neither expires anything.
- loadConfig never finds its settings: Get("services") always fails
  (`service_manager.go:153`), and every service has the defaults.

Configuration
- A hook that ConfigManager.Set runs calls Get, which waits for the lock Set holds: Set
  never returns and no reload gets the lock.
- A refused SetConfig puts a map in the struct's place (`config_manager.go:255`): Get finds
  no setting by its path any more, and no reload can fill it: run `Config_rollback`.
- An edit between the first Load (`config_manager.go:128`) and the watcher's first Stat
  (`:545`) has the time the watcher begins with and is never loaded. `HotReload` excepts
  it.
- A save truncates the file first: a reload or a start in between finds half a file.
- An edit is lost to a Set that saves before the watcher has loaded it.

Rate limiter
- The time of a client's entry is set once and never renewed, so cleanup forgets busy
  clients, who then have a new burst (`RateBound` counts those).
- A client that is forgotten between Allow and the second lookup is a nil pointer; the
  panic leaves the read lock held and the next request waits for good.

Cleanup
- A file that cannot be removed, or that vanishes between its stat and its removal, ends
  the walk: what comes after it in the directory stays until a later walk. `OldFilesGo`
  excludes what comes after a file that can never be removed, and owners who go on
  removing files in front for good.
- The emergency cleanup frees a fifth of the limit and stops, however far above the
  limit the directories are; the comment (`cleanup_service.go:299`) says it goes on
  until they are below.

Logger
- Old backups are removed from the end of a list in the order of their names, so that
  the newest go first. Two rotations of one second overwrite a backup.
- After a rotation that could not open a new file every later line is lost.

## 8. Plan

Done: all components of section 2 modelled and checked, and every invariant and step
property that the runs check proved. Left, in this order:

1. Two upload sessions at the limit of open uploads, which the code checks in one
   critical section and fills in another.
2. `CleanupService` as an actor in `Conversion` and `StreamUpload`, should the code start
   it: until then no behaviour of the program has the two together.
