# falprs: verification project

falprs is one C++ service (userver framework) with two systems in it: **LPRS**
recognises license plates, **FRS** recognises faces, both in single frames that
the service fetches from cameras.  A backend registers video streams over HTTP,
switches the processing of each stream on and off, and receives callbacks.
Neural networks run in external Triton servers, data lives in PostgreSQL and in
files.

This directory holds TLA+ models of the service, TLC configurations that check
them on small instances, and TLAPS proofs.  Line numbers refer to the source
tree of the repository.  `PROJECT.json` lists every definition with the lines it
models, every run, every hazard with the properties that cover it, and every
theorem.

Contents: [inventory](#1-inventory) · [modules](#2-the-modules) ·
[runs](#3-the-runs) · [disagreements](#4-where-code-and-documents-disagree) ·
[proofs](#5-what-is-proved) · [limits](#6-what-is-not-modelled) ·
[plan](#7-plan)

## 1 Inventory

| Component | State | Operations | Interacts with |
|---|---|---|---|
| LPRS workflow control (`lprs_workflow.cpp` 187-360, 402-419, 873-911) | `being_processed_vstreams` (absent / true / false per stream), `vstream_timeouts` | `startWorkflow`, `stopWorkflow`, `processPipeline` (a task per frame), `nextPipeline` | API calls and tasks share both maps, each under a lock of its own; reads the stream cache |
| LPRS plate ban (lines 491-499, 552-666, 801-809, 821-831) | `ban_data`, `ban_special_data` | two-stage ban in `processPipeline`, `doBanMaintenance` | tasks of all streams and the maintenance task share the map |
| LPRS events (lines 643-800, 833-871, 1940-1956; `lprs_api.cpp` 225-295) | table `events_log`, screenshot files | `addEventLog`, callback, `doEventsLogMaintenance`, `getEventData` | database, file system, backend |
| LPRS inference (lines 33-141, 1015-1938) | none | `doInference*Net`, nms, `removeDuplicatePlates`, plate assembly, `isValidPlateNumber` | Triton servers |
| LPRS API, caches (`lprs_api.cpp`, `lprs_caches.hpp`) | tables `vstream_groups`, `vstreams`; full-reload caches | `addStream`, `removeStream`, `listStreams`, `startWorkflow`, `stopWorkflow`, `getEventData` | everything above |
| FRS workflow control (`frs_workflow.cpp` 377-551, 1490-1528) | the same two maps | the same, and tasks that process one image for a request | as in LPRS |
| FRS face pipeline (lines 552-1281) | none of its own | choice of the best face, recognition against the descriptors, registration, events, callbacks | caches, database, files, Triton |
| FRS descriptors (`frs_api.cpp` 535-870, `frs_workflow.cpp` 1372-1391, 2076-2150) | tables `face_descriptors`, `link_descriptor_vstream`, with `flag_deleted` and `last_updated` | `registerFace`, `addFaces`, `removeFaces`, `deleteFaces`, `removeVStream`, `doFlagDeletedMaintenance` | incremental caches |
| FRS unknown and spawned descriptors (lines 213-219, 837-929) | `unknown_descriptors` with expiry, descriptors with a parent | `bestQuality` bookkeeping, spawning | descriptors |
| FRS caches (`frs_caches.hpp`) | stream configurations (full reload), descriptors, links and special groups (incremental, by `last_updated`) | `Update` | database; every task reads snapshots |
| FRS special groups (`frs_api.cpp` 872-1395) | tables `special_groups`, `link_descriptor_sgroup`; tokens | add, update, delete group; register, list, delete, search faces | caches |
| FRS log (lines 1341-1370, 1393-1488, 2053-2074; `frs_api.cpp` 535-600) | table `log_faces` with `copy_data`, descriptor and JSON files of each event, copied JSON files, one events file per day | `addLogFace`, `bestQuality`, `doCopyEventsMaintenance`, `doOldLogMaintenance`, `doOldEventsMaintenance`, `searchFaces` | recognition writes, `bestQuality` schedules, periodic tasks copy and remove |
| Example backends (`examples/lprs/lprs_backend.js`, `examples/frs/frs_backend.js`) | a Node.js process, local variables of each handler, saved `.jpg` and `.txt` files | the callback; `getEventData` or `bestQuality`; `loadImage` and what is drawn and saved | answer callbacks, query the API, fetch screenshots |
| Statistics, conversions, tools | counters; none | save and load; pure functions; scripts | |

**What is hard here.** API calls, pipeline tasks and maintenance tasks run
concurrently, and `nextPipeline` and `stopWorkflow` take two locks one after the
other.  Caches lag behind the database.  Soft deletion has three stages (flag,
cache, row).  Rows and files are written one after the other and either may
fail.  Timeouts race requests.  A restart loses whatever was only in memory.

**What makes the components correct.** Workflow control: a stream has at most
one chain of tasks; an entry means that a chain exists; a stop, a timeout and
the removal of a stream take effect; what is on keeps processing.  Ban: a
number is not let through again too early, a parked car is reported once, and
a ban ends.  Plates: of what the networks found, suppression
and the removal of duplicates lose nothing but duplicates, and all readings of
a plate are considered.  Events: a backend
that was told of an event finds its screenshot as long as the event has its
row; old files disappear whether or not they ever had a row; what a backend
saves under an event's name is of that event.  Descriptors: a deleted face is not
recognised once caches have caught up, and the caches converge to the database.
Special groups: a face stays in
its group, a revoked token dies, and recognition knows the members of a group
and nobody else once caches have caught up.  Copied events: what `copy_data` calls done is in the events file once, with its
JSON; an event keeps its files as long as its row; copying hides nothing from a
search.

## 2 The modules

| Module | What it is |
|---|---|
| `StreamSession` | abstract: what starting and stopping a stream promises the backend |
| `LprsWorkflow` | the workflow of LPRS, one action per critical section; implements `StreamSession` |
| `FrsWorkflow` | the workflow of FRS: extends `LprsWorkflow` by requests for one image and undecodable urls |
| `LprsBan` | the ban of one stream's plates, from recognition to the report |
| `FrsFaces` | face descriptors and their links: transactions, soft deletion, incremental caches, recognition and registration |
| `FrsSpecialGroups` | special groups: tokens, faces, soft deletion, the caches between them |
| `FrsCopyEvents` | the log of face events: rows, files, scheduling, copying and retention |
| `EventReports` | the events of both services: row, screenshot, callback, retention, and what a request by event id may read |
| `ExampleBackends` | the two example backends; extends `EventReports` to the composition of service and backend |
| `Detections` | boxes, their overlap, non-maximum suppression |
| `PlateAlgorithms` | from the detections of a frame to the numbers of a plate |
| `MCLprsWorkflow`, `MCFrsWorkflow`, `MCLprsBan`, `MCPlateAlgorithms`, `MCExampleBackends` | constant values for TLC |
| `LprsWorkflowProofs`, `FrsWorkflowProofs`, `LprsBanProofs`, `FrsFacesProofs`, `FrsSpecialGroupsProofs`, `FrsCopyEventsProofs`, `ExampleBackendsProofs`, `PlateAlgorithmsProofs` | theorems |

### LprsWorkflow

`being` and `timeouts` are the two maps; `cache` is the content of the stream
cache; `task[t]` and `call[c]` say where a pipeline task or an API request is.
A request first reads the configuration (`StartCall`), then takes the lock of
`being_processed_vstreams` (`StartMark`), then that of `vstream_timeouts`
(`StartDeadline`), then detaches a task (`StartSpawn`); the stop takes its two
locks in `StopCall` and `StopDeadline`, or in `TaskStop` and `TaskStopDeadline`
when the pipeline itself calls it.  `nextPipeline` is `CheckDeadline`, then
`GoOn` or `EndChain`.

A frame is one step with two outcomes, `FrameDone` and `FrameFailed`, because
nothing between capture and callback touches the two maps.  `FrameFailed` may
happen for any frame.  The task that `nextPipeline` detaches does nothing its
predecessor still has to do, so predecessor and successor share a slot of
`Tasks`.  A deadline is kept as the number of ticks until it, which makes the
state space finite without a bound on the clock.

`RefreshCache` replaces the cache by anything: `addStream`, `removeStream` and
changes of the default configuration only act on the database, and a reload may
come at any time after any number of them.

Definitions whose names end in `Faulty` are variants of the definition that
follows, with a plausible bug in it.  No action uses them; they serve to show
that a property is able to fail.

### StreamSession

Per stream: `idle`, `active`, `last` (stopped, one frame may still begin),
`draining` (stopped, no frame may begin).  `LprsWorkflow!session` is the
refinement mapping: an entry `false` is `last` as long as a task, or a request
about to detach one, has not begun its frame.  The refinement says that frames
of a stream never overlap, that at most one frame begins after a stop, and that
a start is honoured in every state.

### FrsWorkflow

`frs_workflow.cpp` repeats the workflow functions of LPRS with the same
critical sections, so the module reuses those actions and adds what
`processPipeline` does differently.  `registerFace`, `testImage` and
`processFrame` run the same function for one image (`OneShot...`); when they
find the stream missing from the cache they call the internal `stopWorkflow` as
a chain's task would (`OneShotStop`).  A `data:` url that cannot be decoded
returns without `nextPipeline` and without a stop (`Undecodable`).  The history
variables `orphaned` and `aborted` record these two events; no guard reads them.

### LprsBan

One stream, since `LprsWorkflow` shows that its frames come one at a time and
`ban_data` is keyed by stream.  `Capture` looks at `ban_special_data`,
`Recognise` ends inference with any set of numbers and places, `CheckNumber` is
one iteration of the loop under the lock of `ban_data`, `Report` is the event,
its screenshot and the callback, `Fail` is an exception, `Mark` renews the
special ban.  `BanMaintenance` may run between any two of them.  A position in
the frame is an element of `Places`; `Near` holds for two places whose iou
exceeds `ban-iou-threshold`.  A frame takes its time (`frame.at`) once and uses
it for all its numbers; `MaxLag` bounds how long the loop may last.
`passed`, `trail`, `seen` and `special_seen` are history variables; no
guard reads them.  Row, screenshot and callback are taken apart
in `EventReports`.

### FrsFaces

`face`, `vstream` and `link` are the tables `face_descriptors`, `video_streams`
and `link_descriptor_vstream` (`"flagged"` is `flag_deleted`); `face_age` and
`link_age` are the time since `last_updated`, `marked_age` the time since a stream was
marked, `parent` is `id_parent`; `fd_cache`
and `vd_cache` are the two caches a frame is compared with, `fd_since` and
`vd_since` the time since their last updates began.  Times are relative, so no
clock has to be bounded; ages beyond `Oldest` are not told apart.

A request looks up its stream (`AddFace`, `RemoveFace`, `RemoveVStream`; not
`AddStream`, which looks at marked streams as well), or a recognition finds its
result (`Recognise`); later it begins a transaction (`Begin`), and later still it commits
(`Commit...`) or fails (`Rollback`).  Between look-up and transaction the stream may
be removed: a link then comes to a marked stream and goes with it.  Rows get
the time of the *beginning* (`now()` of the database), and nobody sees them
before the commit: this is why incremental updates read a little further back
(`update-correction`).  A statement of a transaction takes effect at its commit;
what other transactions do in between comes first, as under row locks.

`Maintenance` is `doFlagDeletedMaintenance` with what the foreign keys delete
along: descriptors spawned from a deleted one, and the links of descriptors and
streams.  These may be unmarked, since a recognition that had its result before
`deleteFaces` may commit a spawned descriptor after it, and a stream may get a link
after it was marked.  `lost_faces` and `lost_links` record
them; no guard reads these two.

`Recognise` takes any candidate, since which one is nearest is arithmetic.
Candidates need not be linked directly: the query of the link cache adds the
descriptors spawned from a linked one, and a hit on those is reported as their
parent (`Reported`).

A request names one face at most.  Special groups have a module of their own.

### FrsSpecialGroups

`group`, `face` and `link` are where a row of `special_groups`,
`face_descriptors` and `link_descriptor_sgroup` is in its life: not there yet,
live, marked, gone.  `token` is `sg_api_token`; a renewed token is the next
number, since a generated one never returns.  `sgc`, `sgd` and `fd` are
`sg_config_cache_`, `sg_descriptors_cache_` and `face_descriptor_cache_`.

The host's methods are `AddGroup`, `DeleteGroup`, `DeleteFace`.  A holder of a
token calls `SgDeleteFace`, `RenewToken`, and `sgRegisterFace`, which is two
steps: `BeginRegister` accepts the token; then the image is fetched and looked
at, which may take seconds, and `Register` looks the group up again and inserts
descriptor and link.  A registration of a face that is known already
inserts nothing and is a `RegisterFails`.  `Maintenance` may take any marked
rows that the incremental caches have read as marked: that is what
`flag-deleted-ttl`, longer than the time between two updates, gives.  Timing
against transactions is the subject of `FrsFaces`.

`late`, `lost_sgc` and `lost_fd` are history variables; no guard reads them.
`sgUpdateGroup` cannot succeed (see section 4) and `updateSpecialGroup` changes
a name and a number that nothing looks at; both are left out.

### FrsCopyEvents

`row`, `uuid` and `born` are columns of `log_faces` (`copy_data`,
`ext_event_uuid`, `log_date`); `dat` and `json` are the data files of an event,
`dat_time` and `json_time` when they were last written; `day_file` counts how
often an event was appended to the events file of the day, `copied` is its
copied JSON file.  `writer`, `request`, `copier` and `cleaner` say where the
recognition of an event, a call of `bestQuality` and the two periodic tasks
are.

- The recognition: `LogFace` or `LogSpecialFace` commits the row
  (`addLogFace`), `WriteData` writes the descriptors and opens the JSON file,
  `CloseJson` writes it.  Events of special groups are `disabled` and have no
  data files.
- `bestQuality`: `ReadRow` finds the row and its `copy_data`, `ScheduleRow` is
  the unconditional second `UPDATE`.  A call without a uuid, or for a group
  without `flag-copy-event-data`, changes nothing and is left out.
- `doCopyEventsMaintenance`: `StartRound` selects, then for each row `SkipRow`,
  `DirectoryFails`, `AbortRound` or `CopyJson`, then `NoData`, `BeginFails` or
  `AppendData`, `Commit` or `Rollback`, and `CloseCopy`.  The rows of a selection are taken in any order.
- `doOldLogMaintenance`: `CleanRows`, then `CleanData` and `CleanJson` for one
  file each, in any order.  `EndCleaning` may come before all are gone, since
  the removal of a file may fail.  A round that finds nothing old leaves
  everything as it is and is left out.

A step is a transaction or what one operation makes visible of a file.  A file
stream keeps short JSON data in its buffer until it is closed; descriptors are
2 KB each and go past the buffer at once.  That is how the C++ library behaves,
not what the code states, and it is why an empty JSON file can be seen by a
round that comes too early, and why a restart can leave one for good.

`faults` counts failed transactions, failed writes and restarts.  `stale`,
`missed`, `cut` and `fresh` are history variables; no guard reads them.
`doOldEventsMaintenance`, which removes the copied files, and the search for
data under the path of earlier versions are left out.

### EventReports, ExampleBackends

`EventReports` has what `processPipeline` of either service does with an event
it has found: `Log` commits the row (or `LogRefused`, `CommitFails`,
`LogThrows`), `WriteScreenshot` writes the file, `Callback` posts to the
backend.  `service` says which of the two runs; it never changes.  They differ
in `Reports` (LPRS calls the backend whatever became of the row, FRS only
with an id and a registered face), in `Readable` (LPRS looks for the group of
the stream in a cache, FRS in the database), and in `CleanFileFails`.

Frames of one stream are serial, which `LprsWorkflow` shows and which holds in
FRS except for what `frs_two_chains` shows; frames of different streams and all
other actions interleave.  `CleanRows` and `CleanFile` are
`doEventsLogMaintenance` and `doOldLogMaintenance`: rows by `log_date`, then the
files on a list by the time of their last write.  `id` is what `addEventLog` or
`addLogFace` returns: it is assigned before the commit, so that a commit that
fails leaves an id without a row (`CommitFails`).

`ExampleBackends` extends it by the backends.  One action is what runs between
two turns of the event loop of Node.js.  `stage` says what the handler of a callback
awaits: the answer of `getEventData` or `bestQuality` (`asking`), or the
image (`loading`).  The promise of `loadImage` is neither awaited nor returned,
so what fails in it ends the process, with every other callback in progress
(`Rejected`; `ExitOnRejection` is FALSE for a Node.js before version 15, which only
warns).  The geometry of what is drawn is data; a picture is the
event it is named after and the subjects written on it.  All handlers run in one
process, in turns.  `heard` is `all_plates` or `txt`, declared with `var` in the
function that handles a callback, so each handler has its own (`Scope`);
`buffer` is declared nowhere, so all have one, which does no harm because it is
written and read within one turn.  A new process remembers nothing (`Forget`).

### Detections, PlateAlgorithms

`Suppress` is the double loop that `nms_vehicles`, `nms_plates` and `nms_chars`
share; which detection erases which is its parameter, a set of pairs.  Boxes have
integer coordinates.  Confidence is the place in a sequence.

`PlateAlgorithms` follows a frame: `DetectVehicles`, `DetectPlates` for each
vehicle, then `removeDuplicatePlates` with one step for each turn of its loops,
then one of the plates that are left (`PickPlate`, `ReadPlate`).  `at` holds the
loop variables; `m` and `n` are iterators into vectors from which the loop
erases.  After `m = erase(m); --m` for a first plate, `m` is before the
beginning, here 0, and the inner loop goes on with the next `n`.  What it then
reads is whatever is in memory: `Stray` takes it for a duplicate or not, and
once such a "plate" is to be erased the process is `broken`.  `strayed` is a
history variable.

A sort whose comparison has ties may order them in any way; the inputs are all
sequences a sort can return, except for characters: `InPosition` keeps ties in
their order, which `std::ranges::sort` need not do and no property depends on.
The comparison of characters on two lines is an order only if the characters
of a line reach over each other's middles.  `Legible` says what a plate must be
like: the comparison agrees with the order in which people read, and of two
characters either both are at the same place or all at one place are read before
all at the other.  `AllReadings` is about legible plates; that all inputs of the
run are (`AllLegible`), TLC evaluates.  The order of the numbers by score is left
out, since all of them are processed.

`Keep` is `std::erase_if`, the other way round.  Sequences that loops build up are
recursive functions of the number of rounds, so that they can be proved about.

## 3 The runs

| Run | Checks | Instance | States |
|---|---|---|---|
| `lprs_workflow` | `OneChainBehindEntry` (that is `OneChainPerStream` and `EntryMeansChain`), `ImplementsSession`; liveness: `StopTakesEffect`, `KeepsProcessing`, `DeadlineTakesEffect`, `RemovedStreamEnds` | 1 stream, 2 task slots, 2 requests, 3 configurations | 32 000 |
| `lprs_lost_deadline` | violation of `RunningHasDeadline` | same, every stream with a timeout | |
| `frs_workflow` | `ChainsExplained` (`EntryHasChain` and `SecondChainNeedsOneShot`); liveness: `MotionStopTakesEffect`, `RemovedStreamChainsEnd` | 1 stream, 2 task slots, 1 motion request, 1 request for an image | 94 000 |
| `frs_two_chains` | violation of `OneChainPerVideoStream` | same | |
| `lprs_ban` | `FirstStageHolds`, `ParkedCarReportedOnce`, `SpecialSpacedOut`, `IgnoredWithReason` | 1 number, 3 places, stages of 2 and 3 ticks, 7 ticks | 1.0 million |
| `frs_faces` | types and foreign keys (`TypeOK`), `ReportedIsLinked`, `CachesCatchUp` (`FdCatchesUp` and `VdCatchesUp`), `CachesFirst`; liveness: `CachesConverge`, `MarkedDisappears` | 1 stream, 2 descriptors, 1 request, 1 recognition, 3 API calls | 168 000 |
| `frs_groups` | `StaysSpecial`, `RecognisedIsMember`; liveness: `RevokedTokenDies`, `MemberIsRecognised` | 1 group, 2 registrations, 2 tokens | 9 200 |
| `frs_leaked_face` | violation of `DeletedGroupLeavesNothing` | same | |
| `frs_copy_events` | `AppendedOnce`, `FilesOutliveRow`, `DoneMeansCopied`, `SearchFinds`, `LostWasLate`; liveness: `ScheduledIsCopied` | 2 events, 2 calls of `bestQuality`, 1 failure or restart, 1 tick | 557 000 |
| `frs_wrong_uuid` | violation of `DoneIsCopied` | same, without failures | |
| `event_reports` | `SavedIsOwn`, `ToldHasPicture`, `DownNeedsCause`; liveness: `EventIsSaved`, `GateOpens`, `OldFilesGo` | both services, 1 stream, 2 events of the owner, a visitor or nobody known, 1 failure or restart, 1 tick | 259 000 |
| `lprs_plates` | `SuppressionIsGreedy`, `OnlyDuplicatesGo` (`NoDuplicates` and `NothingLost`), `StrayNeedsTwoPlates`, `AllReadings`; liveness: `PairsEnd` | up to 3 vehicles, up to 3 plates on each and 5 in all, 888 plates of 7 to 10 characters | 412 000 |

The type invariants of the modules whose runs do not list them are theorems
(section 5); each can be added to the
`INVARIANTS` of its `.cfg`.

**Bounds.** One stream is enough: every map is keyed by stream and no action
relates two streams (the proofs cover any number).  Two task slots let a second
chain appear next to the first; where the model has only one chain, the second
slot stays free, so no spawn is ever delayed.  Two requests are needed for a
start and a stop to overlap; a third one would wait for the same locks.
Configurations vary in the three things control flow depends on: url, pause
after an error, timeout.  A timeout of two ticks lets a deadline be renewed
while half over.  In `LprsBan`, three places allow a drift from near to near
that ends far away; seven ticks hold a first stage, a second stage and one more
first stage.  In `FrsFaces` the second descriptor may be
spawned from the first or be registered on its own; three calls are enough to
register, delete and link again while a recognition spawns, or to register, remove
the stream and add it again.  All settings are one
tick except `flag-deleted-ttl`, which is two, the least that `LateCleanUp`
allows.  The clock of `LprsBan` stops at `MaxTime`, which is why that
run does not check for deadlock.  In `FrsCopyEvents` the second event lets one
that is copied meet one that is torn or not yet written; a second call of
`bestQuality` is what it takes to schedule an event twice.  The time to live is
zero and the clock makes one tick, so whatever tick 0 has written may expire
while tick 1 still writes: only the order of writing and of expiry matters.
With one failure the effects of each kind are seen by themselves.  Events,
calls, ticks and failures all come to an end, so its runs do not check for
deadlock either.

In `FrsSpecialGroups` every action concerns one group and the faces registered
in it, so one group is enough; with two faces a registration can be overtaken by
the deletion of the group while another face is a member, and a second token is what a renewal
takes.  There is no bound but the constants: rows live once.  In
`ExampleBackends` two events let one callback be at work while the other's fails,
and let the second frame begin after the first has expired; both
services are initial states of the same run.  A time to live of zero and one tick
again give the order of writing and expiry, and a failure may hit any step.
A reload of a cache or a round of maintenance that finds nothing is always
possible in these two, so their deadlock checks say little.

In `PlateAlgorithms`, three plates in a row are the least for which being the same
is not transitive; three plates on one vehicle and two on another are the least
for which a stray iterator erases; characters found twice at two places are the
least that can be combined wrongly.

**Fairness.** Weak fairness of every request and every task, because the
coroutine scheduler runs whatever is ready and a frame takes a bounded time:
capture, inference and callback have timeouts.  Weak fairness of the clock.  None
for the backend, which need not call anything, nor for the reload of the cache
in the workflow modules.  `FrsFaces` has weak fairness of maintenance and of the
full updates of both caches, which are periodic tasks of the framework.
`FrsCopyEvents` has it of a recognition that has begun and of copying, the
beginning of a round and each of its steps; not of retention, nor of anything
that fails.  `FrsSpecialGroups` has it of maintenance, of the reload of the groups and of the
incremental updates.  `ExampleBackends` has it of the steps of a frame that has
begun, of the backend's event loop, of the beginning of maintenance and of
the removal of each file on its list; not of new frames, of the removal of streams,
of the start of a backend that is down, nor of anything that fails.
`PlateAlgorithms` has it of the loops of `removeDuplicatePlates`,
which nothing interrupts.

`DeadlineTakesEffect` makes an exception for requests under way and for the
second half of an internal stop, because both may erase or renew the deadline
that has just passed.

## 4 Where code and documents disagree

With a run that shows it:

1. `stopWorkflow` clears the mark and the deadline in two critical sections
   (`lprs_workflow.cpp` 304-313 and 315-321).  A `startWorkflow` between the two
   keeps its mark and loses its deadline: the workflow has no timeout, against
   `docs/openapi.yaml:2290`.  Run `lprs_lost_deadline`.  The same holds for FRS:
   its `stopWorkflow` is the same action.
2. A request for one image that finds its stream missing from the cache erases
   the mark of a chain that is still running; the next start makes a second
   chain, and both go on, against `README.md:110`.  Run `frs_two_chains`.
3. `bestQuality` decides on the `copy_data` its first statement has read and
   schedules with a second one that looks at nothing.  A second call may thus
   replace the uuid of an event while it is being copied under the first; the
   commit then marks it "2 - done copy" (`sql/frs/06_log_faces.sql:39`) and it is
   never copied under the uuid its row has.  Run `frs_wrong_uuid`.
4. `sgRegisterFace` inserts a live descriptor and link into a group that has been
   marked in the meantime.  Nobody marks them; with the group's row the link
   goes, and the descriptor stays as an ordinary face, against
   `docs/openapi.yaml:926`.  Run `frs_leaked_face`.

Seen while modelling, without a run of their own:

5. `nextPipeline` finds the deadline passed under one lock (880-890) and removes
   the mark under another (892-902).  A `startWorkflow` in between is answered,
   sets a new deadline, and is stopped at once.  `DeadlineTakesEffect` and
   `StreamSession` allow this.
6. A number enters the ban (`lprs_workflow.cpp` 606) before its event is stored
   and its callback made (653-702).  When the transaction of the event cannot
   begin or the screenshot cannot be written, the number is silenced and nobody is
   told, against `README.md:63` and the comment at `lprs_workflow.cpp:560`, which
   puts the ban after the processing (`CheckNumber`, then `Fail` instead of
   `Report`).  `IgnoredWithReason` bounds the silence: `ban-duration` from the last
   sighting, and then as long as the number is seen near a place where it was
   seen since it passed.
7. `registerFace` answers with a cached descriptor without looking whether it
   has been deleted, and then neither creates nor binds one, against
   `docs/openapi.yaml:336` and `:394`: the answer may name a row that is about to
   be deleted.  It changes nothing, so `FrsFaces` has no action for it; the
   answer is `Reported` of a member of `Candidates`.
8. The statement of `sgUpdateGroup` says "set" twice (`frs_api.hpp:468-475`), so
   the method always fails.  `max_descriptor_count` is stored and returned, but
   `sgRegisterFace` does not look at it.
9. `removeDuplicatePlates` compares with memory before the first plate when the
   first plate of the outer loop's vehicle is erased and the inner loop has plates
   left.  `StrayNeedsTwoPlates` shows that it takes two overlapping vehicles with
   at least two plates each.
10. `addStream` finds the row of a marked stream and then updates it.  When
   maintenance deletes the row in between, the update changes nothing and the
   request is answered with success, without a stream (`CommitAddStream` of
   `FrsFaces`).
11. An example backend that cannot load a screenshot ends, because nothing
   catches the rejection; all callbacks it had accepted are lost.
   `DownNeedsCause` shows that without a failure this takes an event that expires
   while it is worked on.

## 5 What is proved

Proofs hold for all values of the constants that satisfy the `ASSUME`s of the
modules, so for any number of streams, tasks, requests, numbers and places.

**LprsWorkflowProofs.**  `EntryMeansChain` is not inductive: a step can only be
judged when one knows who is responsible for an entry.  The inductive
invariant `IInv` adds that responsibility is unique and that a request which is
going to detach a task has found no entry (`SpawnsWithReason`).
From it follow `TypeCorrect`, `OneChain`, `EntryChain`, both in one as
`OneChain_BehindEntry`, and `Refinement`: each
action is shown to be a step of `StreamSession` or a stutter under the mapping.

**FrsWorkflowProofs.**  Neither direction of `EntryMeansChain` survives in FRS.
`FrsIInv` says instead: an entry has a holder or its stream is `orphaned`; a
stream that is not `aborted` has at most one holder, and a holder implies an
entry.  It gives `FrsTypeCorrect`, `FrsEntryHasChain`,
`FrsSecondChainNeedsOneShot` and, of the last two, `FrsChains_Explained`.

**LprsBanProofs.**  The inductive invariant relates the ban entry to the
history: the entry stems from the last sighting, its first stage does not end
before `ban-duration` has passed since the number was let through, it remembers
the place of a car that has not moved, and it is missing only when the second
stage after the last sighting is over.  `FirstStage_Holds` assumes `SpacedOut`: `ban-duration-area`
leaves room for `ban-duration` and the lag of a frame.  The code does not
enforce this relation between two independent settings.  With a shorter
`ban-duration-area`, maintenance erases an entry whose first stage is still
running and the number is let through again.  `ParkedCar_ReportedOnce` assumes
that a plate is near itself, that is a threshold below 1.
`Special_SpacedOut` and `Ignored_WithReason` need neither.  For the latter the
invariant says, from the other side, that the first stage ends at most
`ban-duration` after the last sighting, and that the entry's place is on the
`trail` of the number.

**FrsFacesProofs.**  None of the properties of the caches is inductive.  The
invariant says what a disagreement between cache and table must look like: a
descriptor that is marked and still cached, or unmarked and not yet cached, has
a stamp at most `fd_since + MaxTrx` old (`FdInv`; `VdInv` for links), which is
where the next incremental update still looks (`PromptCommits`), and which is
too young for maintenance (`LateCleanUp`).  Since pairs of spawned descriptors
are cached on account of the parent's link, `Genealogy` is needed too: a spawned
descriptor is marked with its parent and never vanishes before it, so the
update that erases the parent's pair still joins the spawned one.  A link that a
cascade took unmarked never returns, because its descriptor or its stream does
not.  The theorems
`TypeCorrect`, `Reported_IsLinked`, `Fd_CatchesUp`, `Vd_CatchesUp`,
`Caches_CatchUp` and `Caches_First` hold under the two assumptions on settings.  With the settings of
`config.yaml.example` (`update-correction` 1 s, updates every 10 s,
`flag-deleted-ttl` 5 min) `LateCleanUp` holds with room to spare;
`PromptCommits` asks that no transaction takes more than a second, which
nothing in the code enforces.

**FrsCopyEventsProofs.**  The inductive invariant adds four parts to the types
and to `DoneMeansCopied`.  `Rounds`: where a round is determines which event it
has in hand and that this event has its JSON.  `Times`: files are never older
than their row, so a row still there at a deletion of files is younger than all
they may take.  `Copies`: an event is in the day's file only if it is being
copied, a restart cut that off, or its copied JSON is closed; and a
scheduled event is not in it yet unless a round failed on it or it was
scheduled twice.  `Taken`: an event that is ready when a round begins stays in
the hands of that round until it is done.  It gives `TypeCorrect`,
`Appended_Once`, `Files_OutliveRow`, `Done_MeansCopied`, `Search_Finds` and
`Lost_WasLate`, for any number of events, calls and failures.

**FrsSpecialGroupsProofs.**  `StaysSpecial` is not inductive, because a link may
go in two ways: marked and expired, together with its descriptor, or by the key
to a group that is removed.  `RowOK` says what ties a descriptor to its link and to
its group: a link keeps its group in the table, and a live descriptor loses its
link only with the group.  `CachedOK` says that a cached descriptor is in
the table, and if it is marked that the cache has not been updated since;
`GroupOK` says the same of tokens.  They give `TypeCorrect`, `Stays_Special` and
`Recognised_IsMember` for any number of groups, faces and tokens.

**ExampleBackendsProofs.**  `EventOK` follows an event through its frame: no row
before `Log`, no file before `WriteScreenshot`, the file never older than the
row's date.  Its heart is that once the backend is told, the file is there and not
on the list of the maintenance task, or the event has expired *and its row is
gone*: maintenance deletes the rows before it makes the list, and every file on
the list is younger than its row.  `ToldHasPicture` follows, and
`DownNeedsCause`: a handler at the image holds the id of an event that was told.
`HeardInv` says that a handler at work still remembers what it was told of its own
event, which holds because `Scope` gives each its own memory and because a
process that ends takes all handlers with it before a new one forgets.
`SavedInv` adds that what is saved is of a frame that is over, so that its
subjects no longer change.  They give `TypeCorrect`, `Told_HasPicture`,
`Saved_IsOwn` and `Down_NeedsCause` for any number of events, streams and
failures, any times to live, and both versions of Node.js.

**PlateAlgorithmsProofs.**  `OnlyDuplicatesGo` and `StrayNeedsTwoPlates` are about
the end of two loops inside two others, all of which erase from what they run over.
`ComparedDiffer` is the invariant of the loops: of two plates that the loop
variables have passed and that are still there, none duplicates the other.  It
survives an erasure at `m` with `m` stepping back: the plates that move up take
places that have not been passed, and the one before them has been compared with
all plates of the second vehicle.  `NothingLost` holds because whoever erases a plate keeps one it
duplicates (`LinkedStays`).  `BeforeFirst` says how the iterator can have come
before the first plate: a plate was erased from the vehicle that has at least as
many as the other, and if there still is something to compare with, it had two.
From the same invariant, `RemovalLeavesLess`: vehicles, vehicles to compare with, plates
of the first and plates of the second that are left decrease lexicographically.

What loops over sequences compute is proved by induction all the same: lemma
`Recursion` gives the function of rounds, lemma `Induction` goes from one round
to the next.  Both speak of sets and functions and rest on the well-foundedness of
the natural numbers, where the induction theorems of the library take an
operator, which the provers cannot find.  `SuppressElements` follows the
rounds of suppression: after round m no detection up to m erases one that is left,
and what is gone was erased by one that stays; so `SuppressIsGreedy`, for any
detections and any relation of erasing.  `NumbersFromAllReadings` needs what each part
of the assembly returns: `InPositionElements` (a comparison that is an order up to
ties puts each character at a place of its own), `GroupsElements` (if being at the
same place is an equivalence, groups are its classes, by their first characters),
`ExtendElements` with `PairNumbers` (the division and the remainder in the loop go
through all pairs of a reading and a character), and `AllChoices`.
`Legible` gives the order and the equivalence.  The constants are assumed to be of
their types (`OutputsAssumption`), no more.

**Only model-checked:** liveness, which depends on fairness and is out of the
prover's reach.

## 6 What is not modelled

- Shutdown (`OnAllComponentsAreStopping`) cancels tasks and awaits them.
- A restart loses running workflows, bans and deadlines.  Nothing
  restores them; the backend has to start its streams again.
- `tp2`, the end of the second stage, is looked at by `doBanMaintenance` alone.
  A parked car stays banned until maintenance runs, and for ever when its
  interval is 0.
- `unknown_descriptors` and their expiry, which decide when a descriptor is
  spawned: `FrsFaces` lets a recognition spawn at any time.
- Requests of FRS with several faces: the transaction makes the same changes for
  each.  `EventReports` removes a stream in one step.
- `doOldEventsMaintenance`, which removes the copied files of `FrsCopyEvents`;
  `getEventData` by time and the test methods, which only read.
- `updateSpecialGroup`, `sgListFaces`, `sgSearchFaces`: a name and a limit that
  nothing looks at; queries.
- Image processing and tensor arithmetic of the neural networks; the geometry
  that the example backends draw.
- Parsing and authorization of requests other than tokens of special groups,
  logging, statistics, command-line tools, the Swagger pages under `docs/`, which
  are third-party code.

## 7 Plan

Done, in this order: `StreamSession` and `LprsWorkflow`, because every frame of
either system depends on them; `LprsBan`; `FrsWorkflow`; `FrsFaces`;
`FrsCopyEvents`; `PlateAlgorithms`; `EventReports` with `ExampleBackends`, which
continue `LprsBan!Report` to the row, the file, the callback and its receiver;
`FrsSpecialGroups`.

| Next | Models | Composes | Wanted |
|---|---|---|---|
| `FrsSpawned` | unknown and spawned descriptors | `FrsFaces` | run: expiry, no spawn from a deleted parent |

Proofs planned next: the safety invariants of `FrsSpawned`, and for the other
liveness properties, as for `PairsEnd`, the part that is not about fairness.
Modules with proofs declare no RECURSIVE operator.
