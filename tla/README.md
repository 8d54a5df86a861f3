# A TLA+ verification of payload

payload turns table sources (CSV, raw and other text files) into binary images: a *reader*
parses the source into an intermediate representation, *writers* emit files from it and
*exec* stages pass files through external commands. Around that core are a build cache, a
content-addressed history of each table with restore and golden references, a batch build,
a watch mode, a project configuration (`table-tool.toml`) that the tools themselves edit, a
command line and a web interface.

This directory holds TLA+ models of the parts that decide something, TLC instances that
check them, and TLAPS proofs of what can be proved for every value of the constants. All
paths below are relative to `src/payload/` of the repository.

- [1. Inventory](#1-inventory)
- [2. Modules](#2-modules)
- [3. Runs, bounds and fairness](#3-runs-bounds-and-fairness)
- [4. Proofs](#4-proofs)
- [5. Disagreements the runs show](#5-disagreements-the-runs-show)
- [6. Known departures without a run](#6-known-departures-without-a-run)
- [7. What is not modelled](#7-what-is-not-modelled)
- [8. Plan](#8-plan)

## 1. Inventory

| Component | Code | State | Operations | What makes it correct |
|---|---|---|---|---|
| History store | `core/history.py`, `web/routes/history.py` | a manifest of snapshots per table, blobs named by their SHA-256, `head.json`, `golden.json` | commit, restore, status, diff, rename, golden set/clear | a recorded version is never lost or changed and can always be restored; ids are unique; "unchanged" means what it says; pointers name existing snapshots |
| Golden references | `core/golden.py` | `golden.json` | set, clear, check | a golden names a snapshot of its own table; "match" means what it says |
| Pipeline validation | `core/pipeline_spec.py` | none (a loop) | `validate_alternation`, signatures, terminal group | accepts exactly the pipelines that obey the rules |
| Build engine | `core/pipeline.py` | output files, intermediates in `tmp/`, stage checkpoints | `build`, `_execute_stages` | outputs are those of the current source, settings and stages, wherever the build resumed |
| Build cache | `core/cache.py` | entries: key, output paths | `is_fresh`, `update`, `save`, `forget_table` | a hit means that the outputs on disk are the ones a build would make |
| Batch build | `core/batch.py` | a thread pool, one shared cache, a summary | `run_batch_build` | every table attempted and reported once, as if built alone; the cache says what is true |
| Event stream | `web/routes/build.py` | a queue between a worker thread and a response | `build_all_stream` | the stream ends, with a verdict that agrees with what it told |
| Watch | `watch.py`, `cli.py` | a timer per file, an in-memory cache | events, debounce, build | every save is built; once all is quiet the outputs are current |
| Configuration edits | `core/config.py`, `web/routes/{clusters,batch}.py` | `table-tool.toml`: `[[batch_table]]`, `[[cluster]]`, `[[table_meta]]` | 13 kinds of read-modify-write edit, and the edits of the settings of a tier | references resolve; an edit touches its own table only; of each setting the nearest tier wins |
| Table administration | `core/table_admin.py`, `web/routes/table_admin.py` | files, configuration, history | import, rename, clone, delete, of tables and members | no file is replaced or left listed but missing; settings and history follow a name |
| Discovery, batch tables | `core/discovery.py`, `core/batch_tables.py` | none | which files are tables, name checks | what the guards of the commands rely on |
| Clusters, table metadata | `core/clusters.py`, `core/table_meta.py` | none | resolution of references | one dangling name makes every table fail |
| Command line | `cli.py` | none | the commands | saves the cache or not, in the right cases |
| File browser | `web/routes/fs.py` | files of the project root | create, write, upload, rename, copy, delete, and views | no two tables get one name |
| Settings, sidecar, pipeline and plugin editors | `web/routes/{config,source_editor,local_plugin_editor}.py`, `core/file_ops.py` | files | checked, then written as a whole | what was accepted stays in force |
| Plugin registry, local plugins | `core/{registry,local_plugins,plugin_install}.py` | a registry per command, `plugins/*.py` | load (strict or lenient), install, choice of reader and writer, check of a pipeline | a build and a listing agree on what is there; a broken plugin stops a build and no listing |
| Doctor, report, export, activity log, IR, web shell, frontend, init, UI, examples | the rest | - | - | see [section 7](#7-what-is-not-modelled) |

How they interact. The command line and the web handlers call the same functions. `build`
reads the configuration and the source, asks the cache, runs the stages and updates the
cache object it was given; *its caller* saves that object: `pld build` after a success,
`run_batch_build` once after all tables, the watch after every build. `pld commit` reads the
sources and the output directory (not the cache) and writes blobs, the manifest and the head.
Restore writes sources and outputs back. Rename, clone and delete change files, history and
configuration one after the other. The web server runs every handler in a worker thread of
one process, and a `pld` command is another process: nothing is locked, every shared file is
read as a whole and written as a whole.

The hard behaviours, with the lines where they bite, are listed under `hazards` in
`PROJECT.json`: the read-modify-writes of `table-tool.toml`, the multi-step deletions and
renames, the checkpoint that is written long before its key is saved, threads of a pool that
share `tmp/` and the cache, timers that are cancelled too late, head and golden after
restores and renames, failures in the middle of a fan-out, pointer files and blobs that are read half
written, a configuration file that is valid when it is empty, four tiers of settings merged in two places, and a
response thread that waits on a queue only the worker fills.

## 2. Modules

| Module | Models | Extends |
|---|---|---|
| `Maps` | partial functions (JSON objects, dictionaries, directories) | - |
| `History` | the store, the working tree it snapshots, and the commands over both | `Maps` |
| `HistoryLog` | the abstract specification: an append-only log with two marks per table | `Maps` |
| `HistoryClients` | the same commands as sequences of file accesses, between clients that may die | `Maps` |
| `Stages` | stages, the terminal group, prefixes, the alternation rules | - |
| `PipelineSpec` | `validate_alternation`, one iteration a step | `Stages` |
| `Pipeline` | the build of one table over cache, checkpoints and output files, under three kinds of command, with faults, edits, `pld clean` and another process beside it | `Stages`, `Maps` |
| `BatchBuild` | the thread pool over several tables | `Maps` |
| `BuildStream` | the web's build-all: `BatchBuild` composed with a worker, a queue and a browser | `BatchBuild` |
| `Watch` | events, timers, concurrent builds | `Maps` |
| `Project` | files, configuration and the requests of several clients | - |
| `FileBrowser` | the web's file browser: requests on single files among those of `Project` | `Project` |
| `Plugins` | loading of plugins and choice of a pipeline among them; no state | `Stages`, `Maps` |
| `Preparation` | what a build is made ready from: the tiers of the settings and the plugin files, under clients that edit them | `Plugins` |
| `*Proofs` | theorems about the module of that name; `ProjectProofs` has those about `FileBrowser` too, `BuildStreamProofs` those about `BatchBuild`, `PipelineProofs` those about `PipelineSpec` | the module, `TLAPS` |
| `MC*` | constants, pipelines, starting projects and symmetry for TLC | the module |

Each module's operators named "(mutant: ...)" are plausible bugs of the definition below them;
nothing refers to them. They show that each property can fail: substituted for that
definition, TLC finds the property violated.

**History.** `files`, `batches`, `byteOrder`, `orders`, `writers` and `outs` are the working tree;
`manifest`, `head`, `golden` and `blobs` the files under `.payload_history/`. A hash is the
content it is the hash of, so "blob names are unique per content" is taken from SHA-256.
One action per command: `Commit` is the commit command down to `HistoryStore.commit` with its two
refusals (nothing dirty; no outputs though the pipeline expects some), `Restore` is
`restore_snapshot` with its cleanup of outputs and the re-creation of a batch entry, *without* the byte order that
the entry had (`cli.py:837`), `Rename`
includes `HistoryStore.rename_table` with its asymmetry (the manifest moves only to a free
name, the pointers always). A dirty check compares with the *head* if it resolves, else with
the tip, and matches a single source by value whatever its name (`LegacyCompatible`).
`GoldenStatus` is the comparison that `pld golden check`, `pld build --check-golden` and the web show;
it compares sources first, outputs only when the sources match, and no byte order.
The byte order that a commit records and a dirty check compares is the table's (`TableByteOrder`): its own, from the
`[[batch_table]]` entry or the sidecar, else the cluster's of its `[[table_meta]]` entry, else the project's. `orders` has the
first two, `Setting` says which of them there are. A rename takes them along; a deletion drops the entries (`ForgetEntries`) and leaves the sidecar.
Outputs are a set of files per table, so that outputs of a writer that is no longer configured
can stay behind, as they do on disk.

**HistoryLog** says what a user may rely on without ids, pointer files or blobs. `History`
refines it under the mapping *current = the snapshot the head resolves to*, *golden = the
snapshot the pointer names* (`ImplementsLog`).

**HistoryClients.** The state is the disk: manifests, the two pointer files, blobs and working files. A request is the
list of file accesses it still has to do (`todo`): a commit decides what is dirty for all its tables, then loads, stores
blobs (each under its hash, unless a file of that name exists) and saves manifest, head and golden of each; a restore
fetches blobs and writes the files, removes outputs and sets the head; golden commands edit one pointer. A write is two
accesses, *truncate* and *fill*, with everybody else in between: a truncated pointer file reads as no pointers, a
truncated manifest raises, a truncated blob is just another content. `Die` ends a client anywhere. Each request tells at
its end what it has done (`told`); the properties hold the disk to that, and `loose` and `disturbed` name the files of which
nothing can be held because requests that set *the same thing* overlapped, or one of them died while writing it. Here a table
keeps its name and nobody edits a file but through a restore; `History` has the rest.

**PipelineSpec** keeps the loop's variables (`i`, `runStart`) and compares its verdict with
the rules stated over the whole pipeline in `Stages`.

**Pipeline.** Contents are provenance: the source and settings a file came from and the
stages it went through, so "current" is an equality. `Begin` is `build` up to its first stage
(resolution, cleanup of stale outputs, key, freshness, checkpoint to resume from); then one
action per stage and outcome; `Finish` records the entry, `Close` is what the command does
after `build` returned or raised - the three kinds of command differ in exactly this. An exec ends in one of four ways: `RunExec` writes
its output, `ExecWarns` copies the input on, `ExecFails` raises, and `ExecSilent` exits with 0 and writes nothing, which counts as a success if a file is at `output_path`
already (`core/pipeline.py:338`): the output of an earlier build, or what `tmp` has kept of a killed build or of `--keep-intermediate` (`AtOutputPath`, `LeavesTmp`). The two errors
that ignore `on_error` may come to any exec. A terminal stage that fails may leave a torn output (`MayTear`). `world` says, once and for all of a
behaviour, which configurations there are and what may go wrong: stages that fail, outputs that are torn, execs that write nothing, a `tmp` that stays, commands that are killed, a source that
is edited during a build, `pld clean`, and another process that loads the cache and later saves its copy. `upset` is a
history variable: the files written, or taken for written, since the saved cache last accounted for them; `Clear` is said of a build that works on what its own stages have
made of the source it hashed: its checkpoint was sound (`sound`), its source stayed the same (`same`), and its execs wrote (`wrote`).

**BatchBuild.** `Take` is a pool thread up to its stages, `Emit`, `Persist` and `LastStage` are
file operations in `tmp/`, in the checkpoints and in the output directory, `Leave` is the
`finally` that removes `tmp/` with the cache update after it; `Gather` and `Return` are the calling
thread. `unsaved` is a history variable: the tables that ran stages in a command that raised
and so ended without saving the cache.

**BuildStream** conjoins each step of the pool and the calling thread with what it puts on the
queue; `Deliver` is the generator's `q.get` loop. A browser that disconnects stops the generator
only, never the worker.

**Watch.** A timer is a record that goes armed - due - hashing - parsing - emitting -
recording - over; `cancel` works on an armed timer only, `Fire` pops whatever timer is
registered (as `_timers.pop(path)` does). Files are read twice, once to hash and once to parse.
`unseen`, `overlapped`, `reverted` and `failed` are history variables.

**Project.** A request passes its checks in one step and becomes a *job*, the list of the
calls that remain: file operations, one step each, and edits of `table-tool.toml`, a step to
read the file and a step to write it whole. Jobs of different clients interleave between any two steps and
a client may die at any of them. This follows the code: every check of a handler
(`discover_for_history`, name checks) is made once at its start, and `_read_full_config` /
`_write_full_config` bracket each edit.

**FileBrowser.** The requests of the file browser are jobs of one file operation among the jobs of `Project`, so they
interleave with renames, deletions and imports. `NameFree` is `_stem_collision` with its lenient table context: the
owner of a name is a file first, a batch table's first source otherwise, and no name has an owner when discovery raises.
`EditContent` (PUT) and `DeleteFile` check no name, as in the code. `pld batch --add` (`EditMembers`) takes any path, while the web's
`_clean_sources` (`EditBatch`) asks for files that are there. `absent` is a history variable: the files that the browser took away, which a batch table may still list, and those that
`--add` was given when they were missing.

**Plugins** and **Preparation.** A plugin is what its class says of itself: kind, name, whether it can be made, whether it reads and
recognises the sources, which writer it suggests and which readers it accepts. `LoadInstalled` and `LoadFile` build a registry
in the order of loading, `ResolvePipeline` is `resolve_pipeline_spec` with the sniffing of the reader and the check of the
result against the registry. `Preparation` has the files these come from: the tiers of `table-tool.toml`, the sidecars and the
plugin files. A request is a list of accesses as in `Project`, but a write is a truncation and a fill, and the file in between is
*valid and empty*: no settings, no plugins. The two merges of the code, `SharedSettings` with `WithSidecar` (`core/config.py`)
and `EffectiveConfig` (`core/batch_tables.py`), are translated separately; the reference they are held to is `Nearest`, which
takes of every setting the nearest tier that has it, and `PlansFor`, the set of pipelines that meet those settings with the
plugins there are. `alone` marks requests beside which nobody changed a file, `disturbed` overlapping edits of one file.

## 3. Runs, bounds and fairness

| Run | Question | Instance |
|---|---|---|
| `history` | do ids, blobs, head, status, golden check, commit and restore stay consistent through any sequence of commands? do history and pointers follow a name through renames, batch membership, deletion and restore? does a deletion lose nothing but what the property names? does the store refine the log? | one table with a writer, two contents and up to three snapshots (`OneTable`); two files and one batch name with one snapshot per name and at most one golden and one head (`ShortHistories`); the same with one snapshot, one content, two byte orders and at most two settings that give a table one (`FewSettings`); the constraint is `LongOrWide`, their union |
| `history_reused_name` | violation: a rename onto a name with a history | two files, one snapshot |
| `history_clients` | whatever overlaps and dies: can what is recorded be read back, and does what was reported hold? | two clients, two tables (one with an output), two contents, two requests, one death; a store with and without earlier snapshots |
| `pipeline_rules` | is the verdict the conjunction of the rules? does the loop end? | every sequence of at most 5 of 5 stages |
| `pipeline` | is whatever a build, a resumed build or a cache hit leaves behind current? does a forced build put everything right? what has a failed fan-out done? | six configurations: default, other setting, fan-out, checkpoint before an exec, an exec that may warn, a re-read; two sources, all commands, `--to`, `--force`, `--dry-run`; nine worlds, each with the faults and configurations that meet |
| `pipeline_checkpoint_torn` | violation: a checkpoint of another source | two configurations that share a prefix, failing execs |
| `batch_build` | is each table attempted, reported once, built as if alone; does the stream end and tell the truth? | a signed table and a batch table of one folder, pools of one and two threads, two contents, failing stages, full disks, a browser that leaves |
| `batch_build_shared_tmp` | violation: two threads share `tmp/` | two signed tables of one folder |
| `watch` | is every save built? is a quiet project current? | a batch table of two files, three changes, failing stages |
| `project` | do references and listed files survive any interleaving, any order, any crash, with the file browser at work too? does an operation on a file ever give two tables one name? | three names, one extension, two clients, three requests, two of them overlapping or around a crash |
| `project_import` | violation: an import replaces a file | one request |
| `preparation` | does a build run the pipeline that the files say? does what was accepted stay in force? do settings follow a rename or a clone? | a file, a batch table and a free name, one cluster, two plugin files, three requests of two clients, the first two of which may overlap |

Why the bounds are enough. *History*: three snapshots are what it takes for a head that is neither first nor
tip, a commit on top of it, and a restore of each; two contents give equal and different
neighbours; the second instance gives names instead of depth (two files are enough for a
file that leaves a batch and becomes a table, for a rename, and for a batch of one). The third has one content: the properties relate one table's settings
to its current snapshot, for which two settings (the table's own and its cluster's) over the project's are enough. The constraint of the run stops at the states
that are in no instance, after checking them. *Clients*: every property is about two requests (one that reports, one that might
undo it), and one death is enough to leave each file torn; earlier snapshots and pointers are in the initial states instead of in
further requests.
*Validation*: five stages hold two groups of writers around a reader or an exec; the
proof removes the bound. *Pipeline*: every property compares the present build with one
earlier entry or checkpoint, so two sources and pairs of configurations that
differ in one respect reach it; the worlds leave out combinations of configurations with faults that they do not meet: an exec that writes nothing
takes one file that was there, so that two builds over one terminal exec, and one killed or kept `tmp` under an inner one, meet every case. *Batch*: races are between two threads; that a pool can be
smaller than the batch is covered by the pool of one. *Watch*: three changes are a save during a build, one that
cancels a timer and one that comes too late. *Project*: every property relates two requests, and the third
sets the stage (a cluster or a batch to be deleted by one client while the other assigns). A path that `--add` is given may be missing. With one extension, names clash between
a file and a batch table only; a larger instance with two extensions and two requests (58,000 states), in which two files can clash as well,
passes too.
*Preparation*: one request is the build or the listing, or what was accepted, one is the edit that might undo it, and the third sets the
stage or overlaps; two plugin files and the package are the smallest order of loading in which a name is overwritten and something comes after.
`MaxSnapshots`, `MaxStages`, `MaxChanges`, `MaxRequests`, `MaxRacing` and `Budget` are the only bounds in the
modules; each is a guard and is named in its module.

Deadlock is checked except where the system really stops: the validation loop has a verdict, `Watch` has been
interrupted, `Project`, `HistoryClients` and `Preparation` have made all their requests.

Fairness. `PipelineSpec`: weak fairness of the loop, which is sequential code. `BatchBuild` and
`BuildStream`: weak fairness of each pool thread's build, of taking a table from the pool's
queue, of the calling (worker) thread and of the response's loop: threads that are never blocked by each other
except through the queues modelled. `Watch`: weak fairness of the observer's dispatch and of
each timer thread. Nobody has to edit, save, request, interrupt or listen: no liveness property depends on
what a user does, and a browser may leave at any time. Nothing else has fairness, in particular no recovery after a
crash.

## 4. Proofs

Checked by TLAPS 1.4.5 with Z3, Zenon and LS4, for every value of the constants under the named assumptions of
the modules, all of which the runs evaluate too. The assumptions say of what sort a constant is (`DisjointNames`, `SettingKinds`, `MaxSnapshotsIsNat`,
`InnerIsNat`, `BoundIsNat`, `StageShape`, `PluginShape`, `ProjectAssumption`, `PreparationAssumption`, ...), that marks are not contents (`GoneIsNoContent`, `MarksAreNoContent`,
`DirsAreNoPositions`), that discovery lists a table once (`OrderIsDistinct`) and the plugin folder a file once (`PluginFilesAreDistinct`), that a configuration in use has passed the validation
(`PipelinesAreValid`, whose conclusion `VerdictIsCorrect` proves of the validation loop), and that the initial states are those a command may
have left (`StartsAssumption`, `StartsAreProjects`, `PastIsRecorded`, and `PastMarksResolve`: a pointer that an earlier session left is to a snapshot that is there). Where a theorem needs more, the hypothesis is in its statement; a run shows each of
the first two to be necessary:

| Hypothesis | Of | Without it |
|---|---|---|
| `ReuseNames = FALSE` | `PointersAlwaysResolve`, `StoreImplementsLog` | run `history_reused_name` |
| `OwnTmpDirs` | `ReportedTablesAreCurrent`, `SavedEntriesAreTrue`, `NoTableFailsAnother` | run `batch_build_shared_tmp` |
| `BatchesAreDirect` | `NoTableFailsAnother` | a batch table with an intermediate stage raises (`core/pipeline.py:276`), through no fault of a stage |
| `OneDir` | `CacheServesCurrent`, `NoStaleOutput` | a hit in a second `--out` directory writes nothing there (`core/pipeline.py:575`) |

- **`HistoryProofs`.** `Inv` = types, ids are positions, blobs are closed under reference, and
  `OneSourcePerFileTable`. The last is needed for typing: a restore matches one recorded
  file with one current file by value (`LegacyCompatible`), which is a well-typed map only if a
  snapshot filed under a single-file name has one source; and a snapshot gets there by commit, or by a
  rename, which keeps kinds (`SameKind`). Ids are typed only because they are positions (the next
  id is the tip's plus one). From `Inv`: `TypeCorrect`, `IdsAreContiguous`, `VersionsStayRestorable`; from
  `Inv` and a case analysis of the steps, the action property `HistoryOnlyGrows`; and with
  `ReuseNames = FALSE`, by a further invariant over pairs of name and pointer, `PointersAlwaysResolve`.
  `CleanIsRestored` says that the dirty check and the restore agree: both go by value where the name of a single source changed, and the outputs that a restore
  would remove are those that make a table dirty. `CommitEndsClean`, `RestoreEndsClean`, `RestoreEndsInTable`, `DeleteIsUndone` and `DeletedIsRecreatable` are
  action properties; each computes the command's new working tree and compares it with the snapshot the head then resolves to. The last two go together: what a deletion leaves
  is what a restore needs (`Recreatable`), unless the table's own settings or its shape stand against it (`NothingElseToLose`), as the byte order of a batch table does. `StoreImplementsLog` is
  the refinement of `HistoryLog`: a commit is `Record`, a restore `CheckOut`, a rename a `Transfer` of log and marks together - which
  needs that pointers resolve before and after, hence the hypothesis.
- **`HistoryClientsProofs`.** Clients whose single file accesses interleave and that die anywhere. The invariant `DiskIs /\ RequestsAre` says what a
  request in progress may look like: each call may come only after certain others (`Follows`: read the log, store the source, store the output, record;
  the writing of a blob only between its store and what follows), and what a client remembers in the middle of a commit (`MemIs`) are contents whose blob is there
  or is the very next thing it opens. So a manifest names only blobs that are there, and a blob that is cut is being written or was
  left by a death: `RecordedReadBack`. A third part, `LogsAre`, is about each manifest that no overlap or death has disturbed: one client at most has read it to write it
  back, what that client has in memory is what the file says, and all that was reported, or will be, is in the file or in what is being
  written into it: `ReportedStay`. The requests of a commit of several tables are put together by a fold, so their shape is proved by induction over its length
  (`FlattenIs`).
  Of the working files, `WorksAre` says of each restore in progress that a file is what the snapshot says, or the call that makes it so is still to come, and
  `LinkedAre` that the calls of a request stay in the order that its report speaks of: `RestoreBringsBack`. What is said of the pointers needs three more parts.
  `MentionsAre`: the ids of a manifest count its snapshots, and every snapshot that a call or an earlier report mentions is in it, so that an id is not given twice.
  `MarksHold`: unless two requests that set one pointer overlap, one client at most is to set it; while it has still to do so nothing is claimed, and from then on the entry in the file - or
  in the edit that some client, perhaps for another table, has read and not yet written back - is what the client is going to report, and after that what it told. A commit
  whose head is cleared stands for the last snapshot of the log, which is why `LogIs` is needed here too:
  `CurrentIsAsReported` and `GoldenIsAsReported`.
- **`PipelineProofs`, the validation.** `LoopChecked` says what the loop has established of the stages before its
  position: which rules hold *up to* `i` while it scans, and up to the start of the group while it is in
  one. The delicate part is `GroupStartsAt`: no group of writers is cut at the position, without which a duplicate or a
  fan-out in the middle could straddle it. `VerdictIsCorrect` follows for pipelines of any length over any stages.
- **`PipelineProofs`, the build.** Any stages, pipelines, configurations, sources, faults and other processes. `Inv` says that the entries of the cache in memory
  *and* of the saved one are true of the files that `upset` does not name (`Tells`: the outputs of entry 0 come from the source and settings of its key by the stages of its pipeline,
  a checkpoint by a prefix of them), that what the next stage works on has been through the stages before it (`Flows`), and that the outputs
  written or reported so far are those of the terminal stages passed (`Done`). The copy that another process has loaded is only typed: when it saves it, the files in which the two caches differ are in `upset`, and where they agree the saved one is true.
  The delicate parts are a resumed build, whose start is a checkpoint's file with the stages of its prefix made, an exec that may fail with a warning (`Skippable`), and a reader in the middle,
  after which the stages see the new representation and not the file. From `Inv`: `BuildsAreCurrent`, `ForceRepairs`, `FanOutsComplete`, `CacheServesCurrent`, `NoStaleOutput`. The execs of a build may write nothing anywhere: the theorems on builds and forced
  builds speak of those whose execs wrote (`task.wrote`), that on the cache of every hit on files that no such exec left (`upset`), and `Inv` shows that a file taken for written spoils no other.
- **`BuildStreamProofs`.** Any tables, stages and pool. A build that goes on has its directory and the input of its next stage, made of its own
  source (`HasItsFiles`); only the sharing of a directory could break this, which `OwnTmpDirs` excludes. The caches, in memory and saved, are
  true of outputs and checkpoints but for the tables that are just built, and untouched for tables that ran no stage, so that a command that
  raises and does not save leaves the saved one true. From that `ReportedTablesAreCurrent`, `SavedEntriesAreTrue`, and with a second
  invariant on where failures come from, `NoTableFailsAnother`. `StreamRunsBatchBuilds` carries all of it over to the event stream, and
  `StreamIsComplete` relates what was told, what is on the queue and the summary.
- **`WatchProofs`.** `AllCovered`: of each table without overlapping builds, an event or a timer that has not hashed yet is on its way, or the build that runs has hashed what is there now, or the last build has made the outputs of it.
  A hit must not break this, so entries are ordered in time: an entry is never newer than the outputs beside it, nor a build's key older than the last entry (`Was`, `Older`). A timer that pops its
  successor, or fires after it was cancelled, only adds builds. `QuietTablesAreCurrent` follows, with the exceptions of the property.
- **`ProjectProofs`.** `CopiesAreSound`: not only the file but every *copy* a client holds in the middle of an edit is
  well formed and declares the clusters its entries name. That is why interleaving cannot
  break `ClusterRefsExist`: a write replaces the whole file by a sound copy with one edit made to
  it, and each edit checks against that copy, never against the file. (Its mutant checks the copy and edits
  the file, and fails.) `ClustersStayDefined`, and `ClustersStayDefinedInBrowser` with the file browser's requests among them. What happens while requests run one at a time is a
  second invariant, `Alone /\ Sourced`: the one client at work edits the file as it is, its jobs have one of a few shapes, and for each source of a batch table that
  is missing, the job has still to do what takes it off the list, or brings it, or it is one that two batch tables have listed or that is in `absent`. Nothing is assumed of the path that `pld batch --add` is given. From it `NoRenameReplaces`, `BatchSourcesExist` and `EditsKeepOtherMeta`.
  For the clash of names a third, `NamesFree`, says that the name that a request has found free is still free when the file is made; that a file of such a name adds no clash
  (`FreeNameIsNoClash`) then holds also in a project where other names clash already: `GuardsAddNoClash`.
- **`PreparationProofs`.** Any plugins, tiers, tables and clients. `Typed`: the files stay projects (a tier that is written is one that a request brought or one that was read), and every job
  is made of known calls. `NamesFollow` gives the phases of a rename and of a clone, and says of each what the new name's own tier and cluster are already, and what the calls
  that are still to come will make of them; the source, the sidecar, the entry and the cluster arrive one by one, and only at the end do the settings agree: `NamesKeepSettings`.
  `PlansFollow` does the same for a build or a listing. While it loads, `LoadedUpTo`: the registry has, of each name, the last sound plugin among the packages and the files loaded so far, which
  is proved of `Register` and carried through a file by induction over its plugins (`RegisterAll` is a recursive function); when no file is left, the registry is `Available`
  (`HasAll`). Both merges are `Nearest` of the tiers, `ReaderFound` is the choice of a reader, and a pipeline fits the registry exactly if it is `Buildable`: `PlansAreReference`.
  The third follows *several* clients at once. `PipelinesKept`: while `disturbed` is false, the requests in progress are about disjoint sets of files (`Apart`); an accepted pipeline is in force
  where nobody is at work on the file it is in (`Untouched`); and each client at work is in a phase (`Works`) that says what is true of the pipelines in *its* files now: they are in force
  (`Settled`), or the content that is about to be written into the truncated file has them (`Pending`), or, in the middle of a rename or a clone, the pipeline of the old name is already
  in the sidecar or the entry of the new one. A step of one client then leaves the phases of the others alone (`FrameWorks`, the proof's frame rule), and keeps or ends its own, one lemma for each kind of
  request. `PipelinesBuildable` adds that a pipeline that was checked against plugin files still fits those: `AcceptedStaysInForce`. The proof corrected the model: `pld batch --stage` edits table-tool.toml
  also where a source of the same name hides the entry, and its request has to name that file.
- **`MapsProofs`** has the lemmas on partial functions that these rest on.

Induction: the library's theorems take an operator as a parameter, which the provers cannot instantiate. Where a proof needs induction (the
fold of a request's calls, the plugins of a file, the largest index of a set), it is made of the well-foundedness of a relation, as `SetInduction` does, for a property given as a *set*.

Only model-checked: the liveness properties (`GivesVerdict`, `EveryTableReported`, `EverySaveIsSeen`, `StreamEnds`), which are out of the prover's reach.
The violations of section 5 are runs by nature.

## 5. Disagreements the runs show

Each is the counterexample of one run whose property states what the repository says;
`PROJECT.json` quotes the lines. Each was reproduced by calling the functions of `core/` (not the commands around them), and so were the exec that writes nothing and the restored batch table of section 6.

1. *A rename onto a name with a history* (`core/history.py:127`). After `pld rm B`, renaming `A` to `B` leaves
   A's snapshots behind, shows B's, and moves A's pointers onto them; "the history is migrated, not lost".
2. *Torn checkpoint* (`core/pipeline.py:274`). The checkpoint file is overwritten at once, its key saved only if the command
   succeeds: after a failed build of an edited source, a build of the original resumes from the edited
   one's data and reports success (`CheckpointsFollowSource`).
3. *Shared intermediates* (`core/pipeline.py:584`). With `--jobs 2`, two multi-stage tables of one folder write the same `tmp/stage<i>.bin`:
   one is reported as built and holds the other's data.
4. *Import over a batch member* (`core/table_admin.py:210`, `324`). An import without overwrite checks table names only; files of batch tables, or a table's file
   when a member is imported, are replaced silently.

## 6. Known departures without a run

Behaviour met while modelling that differs from what a doc, a docstring or a user would expect. The models keep it; the
properties exclude it where they must, by a condition that is named there.

*Build and cache*
- Rule 4 of `docs/PIPELINE.md` ("after an exec, you can put: a reader, another exec, or nothing") is enforced nowhere; `Stages!Enforced` leaves it out.
- A fan-out that fails halfway and a source that is then put back: the old entry is fresh and its paths exist, so the mixed outputs are served (`core/cache.py:106`). `CachedIsCurrent` excuses the files in `upset`, and only those.
- An exec that writes nothing (`core/pipeline.py:338`). The source is edited and the last stage, an exec, exits with 0 without writing: the output of the previous build is
  still there, so the build reports success, records the old file under the new key and serves it from then on; `--force` does not help. `docs/PIPELINE.md:216` promises that "if the command returns 0
  but didn't produce the expected file, that's a clear error". The same happens in the middle of a pipeline when `tmp/` was left by a killed build or `--keep-intermediate`:
  the old file becomes a checkpoint under the new key. `task.wrote` and `upset` excuse these builds and files, and only those. The model has the leftovers of this table only: those of another table of the folder, whose stages write
  the same names, would be taken as well.
- `missing_outputs` (`core/pipeline.py:226`) looks for names, so earlier outputs hide a failed writer.
- A checkpoint is keyed by the signature of its prefix *and the whole configuration*: an edit of a later stage discards it, contrary to `docs/PIPELINE.md` on prefixes (`core/pipeline.py:294`).
- A batch table with an intermediate stage raises `TypeError` at its first checkpoint (`core/pipeline.py:276`), and build-all ends without saving the cache. Modelled (`Batch` in `Pipeline` and `BatchBuild`), not instantiated.
- Any command that raises in a pool thread what is not a `PayloadError` loses the entries of all tables while their outputs and checkpoints stay: `unsaved` in `BatchBuild`. A source put back to its earlier content is then served stale outputs.
- A build to a second `--out` directory is a cache hit and writes nothing there (`core/pipeline.py:575`).
- A source edited between hashing and parsing records new outputs under the old key (`core/pipeline.py:567`); `task.same` excuses it.
- Another process that saves the copy of the cache it loaded forgets what was recorded since, and brings back what `pld clean` removed (`core/cache.py:78`).
- `pld clean` of the outputs only leaves the entries: they are not fresh because their paths are gone, until a restore writes files of those names.

*History*
- A restore of a snapshot made before a rename writes outputs under the old names (`core/history.py:420`).
- The recorded outputs of a golden keep the names they were committed under, so after a rename `golden check` says "mismatch" until a new golden is set (`core/golden.py:57`).
- Restored outputs and a changed configuration: the next build may be a cache hit on them.
- The docs disagree on the restore of a deleted batch table (`cli.py:837`): `delete_table` says that restore from history "is NOT supported for batch tables" (`core/table_admin.py:344`), `rm` limits
  it to "a single-file table" (`cli.py:878`), `docs/USAGE.md:444` says that deleted batch tables "aren't restorable this way"; the docstring of `restore` says that the `[[batch_table]]`
  entry "is re-added" (`cli.py:793`), and so does `docs/BATCH.md:220`. The code does the last, and `RestoreUndoesDelete` says so of batch tables too.
- That entry is made anew with sources, reader and writer only (`cli.py:837`). A batch table with a `byte_order` of its own has the project's
  after a restore, and the status view shows it as changed, right after "restores both the source AND the generated output to the state of a previous snapshot" (`cli.py:788`). In the same way any table
  loses its cluster with the cluster's byte order, since `pld rm` drops the `[[table_meta]]` entry and a restore makes none.
  `Recreatable` in `RestoreUndoesDelete` names the byte orders that remain; `DeleteLosesNothing` says when there was nothing to lose. An explicit pipeline of a batch table is not made again either (the command says so).
- A blob that a crash cut short is never rewritten, since a file of its name exists, and `read_blob` does not compare it with its hash: every later snapshot of that content restores the cut one (`core/history.py:173`).
- Two overlapping commits of one table lose a snapshot or give one id to two versions (`core/history.py:280`); overlapping edits of a pointer file lose pointers of other tables, and a read of the truncated file is taken for a corrupted one and loses all (`core/history.py:306`). Both report success.
- A commit of several tables is not atomic: a crash leaves the first ones committed. A manifest torn by a crash makes every later command on the table fail.

*Watch*
- Overlapping builds of a table may end out of order (`watch.py:75`): the older outputs win. `overlapped` excuses it.
- A timer that fires late pops its successor (`watch.py:73`), which then cannot be cancelled: two builds instead of one.
- No handler for moved events (`watch.py:84`): an editor that saves by renaming is not seen. Intermediates `tmp/stage<i>` pass the filter (`watch.py:57`). Edits of the configuration are not watched.
- `{stem}.*` also matches outputs of a table named `stem.x` (`core/pipeline.py:168`).

*Project*
- A leftover `[[table_meta]]` entry of the new name makes a rename leave two of that name, and every command fail (`core/table_admin.py:94`, `130`).
- A clone of a batch table shares its files: deleting one blocks the project (`core/table_admin.py:150`). `shared` excuses it.
- A crash inside a deletion leaves a batch entry whose files are gone; discovery then raises for the whole project (`core/table_admin.py:352`). `disturbed` excuses it.
- Lost updates between two edits (`core/config.py:537`); the losing edit reports success.
- `delete_cluster(force)` drops entries with notes but no tags (`core/config.py:781`), though its docstring keeps what is not empty; modelled as it is.
- Names with another extension as a batch member's stem pass the checks and make discovery raise from then on (`core/table_admin.py:115`, `121`, `243`).
- The guards of the file browser "still prevent adding MORE conflicts" (`web/routes/fs.py:72-74`), but not all of them: they vanish while discovery raises (`fs.py:82`; `BatchesResolve` in
  `FilesAddNoClash`); the names of batch members are not in the context, so a file `m.y` next to a member `m.x` passes and strict discovery raises; a first source renamed to its batch table's own
  name passes as its owner (`fs.py:103`; `TakesItsBatchName`); PUT checks no name and a copied folder is not looked into. Renaming or deleting a batch member leaves its entry dangling (`absent` excuses it).
- `table-tool.toml` is read as an empty, valid configuration while it is being written: a build then uses the defaults, and an edit writes back a file without anything else (`core/config.py:543`). The same holds of sidecars and plugin files. `alone` and `disturbed` excuse it.
- The web's PUT of a pipeline of a batch table writes back the sources it had read before the check, and makes an entry anew that was deleted meanwhile (`web/routes/config.py:260`); unlike a build it does not check that the reader can read several files. `pld batch --stage` checks nothing.
- `delete_table` leaves the sidecar; a later table of that name, imported or renamed without a sidecar of its own, picks it up (`core/table_admin.py:124`). `Leftover` in `SettingsFollow` excuses it.
- `clone_table` reads the metadata after it has copied the files (`core/table_admin.py:169`): in a project where two `[[table_meta]]` entries have one name it raises, and leaves a clone without cluster or tags. `SettingsFollow` excuses it, and no plan resolves in such a project.
- A clone of a batch table does not get its cluster. `pld config set` of the global section writes out all the defaults.
- `_rewrite_table_name_in_config` edits the text of `[[...]]` blocks: entries written inline are not reached, and a stage in such a block, or any other key that ends in `name`, is changed as well when it has the old name. `RewriteTableName` in
  `Project` takes the substitution for the renaming of the entries that have the name, which it is when nothing else in those blocks has it.
- The check of a source against "the reader that would REALLY be chosen" ignores explicit stages. A plugin of a package that a local file of the same name replaces still counts as installed.
- The cache key has the names of the plugins, not what is in their files: after an edit of a plugin a build is a cache hit. And a plugin file that is saved again with the same size within a second may be run from its stale `__pycache__` (`core/local_plugins.py:173`).
- `pld config show` leaves out the cluster's tier for a batch table (`cli.py:1166`), and `stages = []` in a `[[batch_table]]` is ignored while in a sidecar it overrides (`core/batch_tables.py:105`).
- A web batch table may be created with the name of a table (`web/routes/batch.py:102`).
- `pld batch NAME --add PATH` takes any path (`cli.py:1914`, `core/config.py:585`): with one that is not there, discovery raises for the whole project from then on. The web refuses it (`web/routes/batch.py:30`). `absent` in `SourcesExist` excuses
  exactly the files named in this way.
- A clone copies tags and cluster, not notes (`core/table_admin.py:168`).

## 7. What is not modelled

`PROJECT.json` has every component with its status. In short: *presentation* (report, doctor, export, diff formatting, frontend, UI) reads state and
decides nothing; what *plugins* do is Python, and appears as stages that may fail; *IR and byte
order* are data, abstracted to provenance; `compare_files` and the folders of the *file browser* are left out;
the *activity log* is append-only text nobody reads back. External: the file-event source and its queue (watchdog), the thread pool, TOML and JSON
parsing, SHA-256. Within the modelled components, settings that are empty strings (taken for no setting, although they hide one of a farther tier: `core/pipeline.py:69`), globs as batch sources, subfolders and the order
of members are left out, and so are the checks of single settings (choices, types, intervals), doctor checks as plugins, `PAYLOAD_PLUGIN_PATH` and the
requirements that a plugin file declares. A file write is atomic except in `HistoryClients` and `Preparation`; `History` has one command a step, and no rename that makes two `[[table_meta]]` entries of one name (that is in `Project`).
`HistoryClients` has no renames, `Preparation` no deletions of tables, no deaths, and no two renames or clones at once (those are in `Project`); it takes
`exists()` and the move or removal of a sidecar as one access, and the answer that PUT of a pipeline gives after the write is left out.

## 8. Plan

Done, in order of importance: `History` with `HistoryLog` and its proofs; `PipelineSpec` with its proofs; `Pipeline`; `BatchBuild`; `Watch`; `Project` with its first
theorems; `BuildStream`; `FileBrowser`; `HistoryClients`; faults and other processes in `Pipeline`; `Plugins` and `Preparation`.

Proved: all the invariants and action properties of `History`, `HistoryClients`, `PipelineSpec`, `Pipeline`, `BatchBuild`, `BuildStream`, `Watch`, `Project`, `FileBrowser`
and `Preparation`, and the refinement of `HistoryLog`.

Next, models: renames in `HistoryClients`, and `History` as what it implements for one client that does not die; two builds of one table in `Pipeline`;
`compare_files` with a small read cap as a pure module.

Next, theorems: those about the next models; every invariant and action property that a run checks has one, but for the violations of section 5.
