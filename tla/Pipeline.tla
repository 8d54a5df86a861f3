------------------------------ MODULE Pipeline ------------------------------
(***************************************************************************)
(* The build of one table (src/payload/core/pipeline.py) over the build    *)
(* cache and its stage checkpoints (src/payload/core/cache.py), stage by   *)
(* stage, with the commands that run it: a single build, build-all and the *)
(* builds of a watch session, which differ in when the cache is saved.     *)
(*                                                                         *)
(* A content is its provenance: the source and the settings it was made    *)
(* from and the stages it went through.  A hash is what is hashed.         *)
(***************************************************************************)
EXTENDS Stages, FiniteSets, Maps

CONSTANTS
    Content,    \* contents of the source
    World,      \* [configs: sets of [setting, stages (<<>>: none declared),
                \*  reader, writer], faults: what may go wrong ("reader",
                \*  "writer", "exec", "tear", "silent", "keep", "kill",
                \*  "edit", "clean", "other")]
    Alternative,\* writers that --to may name
    Dir,        \* output directories
    Batch       \* is the table a batch table?

ASSUME BatchIsBool == Batch \in BOOLEAN

\* A checkpoint is never taken for an output: they are in different directories.
ASSUME DirsAreNoPositions == \A d \in Dir : d \notin Nat

VARIABLES
    world,      \* which of World this is
    source,     \* content of the source file(s)
    config,     \* the configuration on disk
    outs,       \* output files of the table: <<directory, extension>> -> content
    artifacts,  \* stage_artifacts: <<stage, extension>> -> content
    tmp,        \* tmp: <<stage, extension>> -> content
    saved,      \* the cache file
    entries,    \* the cache of the running command
    command,    \* "none", "build", "build-all" or "watch"
    task,       \* the build in progress
    other,      \* what another process has loaded of the cache
    upset       \* files that the saved cache does not account for

vars == <<world, source, config, outs, artifacts, tmp, saved, entries, command, task,
          other, upset>>
disk == <<outs, artifacts, tmp, saved>>
aside == <<world, other>>

Config == UNION {w.configs : w \in World}

\* A declared pipeline has passed validate_alternation; a reader and a writer are plugins.
ASSUME PipelinesAreValid ==
    /\ \A cfg \in Config :
          /\ cfg.stages \in Seq(Stage) /\ (cfg.stages # <<>> => Enforced(cfg.stages))
          /\ cfg.reader \in Stage /\ IsReader(cfg.reader)
          /\ cfg.writer \in Stage /\ IsWriter(cfg.writer)
    /\ \A to \in Alternative : to \in Stage /\ IsWriter(to)

\* An absent IR or file, and what a stage that failed has left of its output.
Nothing == [src |-> "none"]
Torn == [src |-> "torn"]

Raw(c, cfg) == [src |-> c, setting |-> cfg.setting, by |-> <<>>]
Apply(stage, v) == [v EXCEPT !.by = Append(@, stage)]

-----------------------------------------------------------------------------
(* Resolution, cache keys and freshness.                                   *)

\* The pipeline declared in the configuration, else a reader and a writer.
Resolve(cfg, to) ==
    IF cfg.stages # <<>> THEN cfg.stages
    ELSE <<cfg.reader, IF to = NoExt THEN cfg.writer ELSE to>>

FinalOutputs(spec, dir) ==
    IF IsWriter(spec[Len(spec)])
    THEN {<<dir, spec[k].ext>> : k \in TerminalWriterStart(spec)..Len(spec)}
    ELSE {<<dir, spec[Len(spec)].ext>>}

\* (mutant: the configuration is not part of the key)
KeyWithoutConfig(src, spec, k, cfg) == <<src, SignaturePrefix(spec, k)>>

Key(src, spec, k, cfg) == <<src, SignaturePrefix(spec, k), cfg>>

\* The whole table is entry 0, the checkpoint of stage k entry k.
Fresh(k, key, files) ==
    k \in DOMAIN entries /\ entries[k].key = key /\ entries[k].paths \subseteq DOMAIN files

\* (mutant: the checkpoint is taken whatever its key)
ResumableAnyKey(src, spec, cfg) ==
    {k \in 1..Len(spec) : ~IsReader(spec[k]) /\ k \in DOMAIN entries
                          /\ entries[k].paths \subseteq DOMAIN artifacts}

Resumable(src, spec, cfg) ==
    {k \in 1..Len(spec) : ~IsReader(spec[k]) /\ Fresh(k, Key(src, spec, k, cfg), artifacts)}

Furthest(S) == CHOOSE k \in S : \A l \in S : l <= k

\* (mutant: --force ignores the table's entry but not the checkpoints)
ForceSkipsTableOnly(force) == ~Batch

ResumeAllowed(force) == ~force /\ ~Batch

-----------------------------------------------------------------------------
Idle == [phase |-> "idle"]

Init ==
    /\ world \in World
    /\ source \in Content
    /\ config \in world.configs
    /\ outs = EmptyMap
    /\ artifacts = EmptyMap
    /\ tmp = EmptyMap
    /\ saved = EmptyMap
    /\ entries = EmptyMap
    /\ command = "none"
    /\ task = Idle
    /\ other = {}
    /\ upset = {}

(* The user, between commands or while one runs.                           *)

EditSource(c) ==
    /\ task = Idle \/ "edit" \in world.faults
    /\ c # source
    /\ source' = c
    /\ UNCHANGED <<config, disk, entries, command, task, aside, upset>>

EditConfig(cfg) ==
    /\ task = Idle
    /\ cfg # config /\ cfg \in world.configs
    /\ config' = cfg
    /\ UNCHANGED <<source, disk, entries, command, task, aside, upset>>

\* "pld clean": the cache directory, output directories, or both are removed.
Clean(cache, dirs) ==
    /\ task = Idle /\ "clean" \in world.faults
    /\ saved' = IF cache THEN EmptyMap ELSE saved
    /\ artifacts' = IF cache THEN EmptyMap ELSE artifacts
    /\ outs' = Drop(outs, {f \in DOMAIN outs : f[1] \in dirs})
    /\ upset' = upset \cap (DOMAIN outs' \cup DOMAIN artifacts')
    /\ UNCHANGED <<source, config, tmp, entries, command, task, aside>>

\* A process that builds other tables loads the cache and later saves its copy
\* with their entries: what was recorded of this table in between is lost, and
\* what was cleaned comes back.
OtherLoads ==
    /\ other = {} /\ "other" \in world.faults
    /\ other' = {saved}
    /\ UNCHANGED <<world, source, config, disk, entries, command, task, upset>>

\* Files that have an entry in one cache that the other does not have.
PathsOfDifference(a, b) ==
    LET only(x, y) == {k \in DOMAIN x : k \notin DOMAIN y \/ x[k] # y[k]}
    IN UNION ({a[k].paths : k \in only(a, b)} \cup {b[k].paths : k \in only(b, a)})

OtherSaves ==
    \E copy \in other :
        /\ saved' = copy
        /\ other' = {}
        /\ upset' = upset \cup (PathsOfDifference(saved, copy) \cap DOMAIN Override(outs, artifacts))
        /\ UNCHANGED <<world, source, config, outs, artifacts, tmp, entries, command, task>>

OpenCommand(kind) ==
    /\ command = "none"
    /\ command' = kind
    /\ entries' = saved
    /\ UNCHANGED <<source, config, disk, task, aside, upset>>

\* tmp outlives a build that is killed outright or run with --keep-intermediate.
LeavesTmp == tmp' = tmp /\ "keep" \in world.faults
RemovesTmp == tmp' = EmptyMap

\* Ctrl-C ends a watch between two builds, and with "kill" any command anywhere.
Interrupt ==
    /\ command # "none"
    /\ (command = "watch" /\ task = Idle) \/ "kill" \in world.faults
    /\ command' = "none"
    /\ entries' = EmptyMap
    /\ task' = Idle
    /\ IF task = Idle THEN UNCHANGED tmp ELSE LeavesTmp \/ RemovesTmp
    /\ UNCHANGED <<source, config, outs, artifacts, saved, aside, upset>>

-----------------------------------------------------------------------------
(* The build.                                                              *)

\* (mutant: nothing is cleaned)
KeepStale(dir, keep) == outs

\* _clean_stale_outputs: the table's files in dir that the pipeline does not
\* write.
CleanStale(dir, keep) == Drop(outs, {f \in DOMAIN outs : f[1] = dir /\ f \notin keep})

Begin(dir, to, force, dry) ==
    /\ task = Idle /\ command # "none"
    /\ command = "watch" => to = NoExt /\ ~force /\ ~dry
    /\ LET spec  == Resolve(config, to)
           kept  == IF dry THEN outs ELSE CleanStale(dir, FinalOutputs(spec, dir))
           hit   == ~force /\ Fresh(0, Key(source, spec, Len(spec), config), kept)
           res   == IF ResumeAllowed(force) THEN Resumable(source, spec, config) ELSE {}
           from  == IF res = {} THEN 0 ELSE Furthest(res)
           start == IF from = 0 THEN Raw(source, config)
                    ELSE artifacts[CHOOSE f \in entries[from].paths : TRUE]
       IN /\ outs' = kept
          /\ task' = [phase |-> IF hit THEN "cached" ELSE IF dry THEN "dry" ELSE "running",
                      spec |-> spec, src |-> source, cfg |-> config, dir |-> dir,
                      force |-> force, dry |-> dry, at |-> from + 1,
                      cur |-> start, ir |-> Nothing, done |-> {}, failed |-> {},
                      sound |-> from = 0 \/ entries[from].paths \cap upset = {},
                      same |-> TRUE, wrote |-> TRUE, stored |-> {}]
    /\ UNCHANGED <<source, config, artifacts, tmp, saved, entries, command, aside, upset>>

Running(kind) ==
    task.phase = "running" /\ task.at <= Len(task.spec) /\ task.spec[task.at].kind = kind

Current == task.spec[task.at]

\* The build works on what its own stages have made of the source it hashed: its
\* checkpoint was sound, its reader found the source the same, its execs wrote.
Clear == task.sound /\ task.same /\ task.wrote

\* f has been written: unless it is as it was, the saved cache does not know.
Unaccounted(f, before, after, wrote) ==
    upset' = IF f \in DOMAIN before /\ before[f] = after[f] /\ Clear /\ wrote
             THEN upset ELSE upset \cup {f}

InTerminalGroup == task.at >= TerminalWriterStart(task.spec)
FanOut == Len(task.spec) - TerminalWriterStart(task.spec) + 1 > 1

Stop(how) == task' = [task EXCEPT !.phase = how]

\* A reader reads the file of the stage before, a batch reader the sources.
RunReader ==
    /\ Running("reader")
    /\ LET input == IF Batch \/ task.at = 1 THEN Raw(source, task.cfg) ELSE task.cur
       IN task' = [task EXCEPT !.at = @ + 1, !.ir = Apply(Current, input), !.cur = Nothing,
                               !.same = @ /\ (Batch \/ task.at = 1 => source = task.src)]
    /\ UNCHANGED <<source, config, disk, entries, command, aside, upset>>

ReaderFails ==
    /\ Running("reader") /\ "reader" \in world.faults
    /\ Stop("failed")
    /\ UNCHANGED <<source, config, disk, entries, command, aside, upset>>

FinalFile == <<task.dir, Current.ext>>

RunTerminalWriter ==
    /\ Running("writer") /\ InTerminalGroup /\ task.ir # Nothing
    /\ outs' = Put(outs, FinalFile, Apply(Current, task.ir))
    /\ Unaccounted(FinalFile, outs, outs', TRUE)
    /\ task' = [task EXCEPT !.at = @ + 1, !.done = @ \cup {FinalFile}]
    /\ UNCHANGED <<source, config, artifacts, tmp, saved, entries, command, aside>>

\* (mutant: the first failing writer of a fan-out ends the group)
FirstFailureEndsGroup ==
    task' = [task EXCEPT !.phase = "failed", !.failed = @ \cup {FinalFile}]

\* In a fan-out the other writers still run; one writer alone ends the build.
FailTerminalWriter ==
    IF FanOut
    THEN task' = [task EXCEPT !.at = @ + 1, !.failed = @ \cup {FinalFile}]
    ELSE Stop("failed")

\* A terminal stage that fails may have begun its output.
MayTear ==
    \/ UNCHANGED <<outs, upset>>
    \/ /\ "tear" \in world.faults
       /\ outs' = Put(outs, FinalFile, Torn)
       /\ upset' = upset \cup {FinalFile}

WriterFails ==
    /\ Running("writer") /\ ("writer" \in world.faults \/ task.ir = Nothing)
    /\ IF InTerminalGroup
       THEN FailTerminalWriter /\ MayTear
       ELSE Stop("failed") /\ UNCHANGED <<outs, upset>>
    /\ UNCHANGED <<source, config, artifacts, tmp, saved, entries, command, aside>>

\* The file in tmp is copied first; then the key of a batch table, whose
\* source_bytes is None, raises a TypeError.
PersistCheckpoint(value, ext, wrote) ==
    /\ tmp' = Put(tmp, <<task.at, ext>>, value)
    /\ artifacts' = Put(artifacts, <<task.at, ext>>, value)
    /\ Unaccounted(<<task.at, ext>>, artifacts, artifacts', wrote)
    /\ IF Batch
       THEN Stop("crashed") /\ UNCHANGED entries
       ELSE /\ entries' = Put(entries, task.at,
                    [key   |-> Key(task.src, task.spec, task.at, task.cfg),
                     paths |-> {<<task.at, ext>>}])
            /\ task' = [task EXCEPT !.at = @ + 1, !.cur = value, !.ir = Nothing,
                                    !.wrote = @ /\ wrote,
                                    !.stored = @ \cup {<<task.at, ext>>}]

RunInnerWriter ==
    /\ Running("writer") /\ ~InTerminalGroup /\ task.ir # Nothing
    /\ PersistCheckpoint(Apply(Current, task.ir), Current.ext, TRUE)
    /\ UNCHANGED <<source, config, outs, saved, command, aside>>

IsLast == task.at = Len(task.spec)

\* wrote: value is what the command has just written, not what was there before.
ExecTo(value, wrote) ==
    IF IsLast
    THEN /\ outs' = Put(outs, FinalFile, value)
         /\ Unaccounted(FinalFile, outs, outs', wrote)
         /\ task' = [task EXCEPT !.at = @ + 1, !.done = {FinalFile}, !.wrote = @ /\ wrote]
         /\ UNCHANGED <<artifacts, tmp, entries>>
    ELSE PersistCheckpoint(value, "bin", wrote) /\ UNCHANGED outs

RunExec ==
    /\ Running("exec")
    /\ ExecTo(Apply(Current, task.cur), TRUE)
    /\ UNCHANGED <<source, config, saved, command, aside>>

\* on_error = "warn": the input is copied on unchanged.
ExecWarns ==
    /\ Running("exec") /\ Current.warn
    /\ ExecTo(task.cur, TRUE)
    /\ UNCHANGED <<source, config, saved, command, aside>>

\* What is at output_path before the command runs: the output of an earlier build,
\* or a file that a killed build or --keep-intermediate left in tmp.
AtOutputPath ==
    LET files == IF IsLast THEN outs ELSE tmp
        f     == IF IsLast THEN FinalFile ELSE <<task.at, "bin">>
    IN IF f \in DOMAIN files THEN files[f] ELSE Nothing

\* The command exits with 0 and writes nothing: all that is tested is that
\* output_path exists.
ExecSilent ==
    /\ Running("exec") /\ "silent" \in world.faults /\ AtOutputPath # Nothing
    /\ ExecTo(AtOutputPath, FALSE)
    /\ UNCHANGED <<source, config, saved, command, aside>>

\* A placeholder that is unknown, or no file after an exit status of 0, ends the
\* build whatever on_error is; an exit status that is not 0 only without "warn".
ExecFails ==
    /\ Running("exec")
    /\ "exec" \in world.faults \/ ("silent" \in world.faults /\ AtOutputPath = Nothing)
    /\ Stop("failed")
    /\ IF IsLast /\ "exec" \in world.faults THEN MayTear ELSE UNCHANGED <<outs, upset>>
    /\ UNCHANGED <<source, config, artifacts, tmp, saved, entries, command, aside>>

\* FanOutWriteError if a writer of the group failed, else the table's entry.
Finish ==
    /\ task.phase = "running" /\ task.at > Len(task.spec)
    /\ IF task.failed # {}
       THEN Stop("failed") /\ UNCHANGED entries
       ELSE /\ Stop("built")
            /\ entries' = Put(entries, 0,
                   [key   |-> Key(task.src, task.spec, Len(task.spec), task.cfg),
                    paths |-> task.done])
    /\ UNCHANGED <<source, config, disk, command, aside, upset>>

\* The files of the entries that the build in progress has made.
Recorded == task.stored \cup (IF task.phase = "built" THEN task.done ELSE {})

\* The command saves the cache after a build that raised nothing, build-all
\* after any but a crash; only a watch goes on.  tmp is removed once the stages
\* have run, unless the user asked to keep it.
Close ==
    /\ task.phase \in {"built", "cached", "dry", "failed", "crashed"}
    /\ IF task.phase = "crashed" \/ (task.phase = "failed" /\ command # "build-all")
       THEN UNCHANGED <<saved, upset>>
       ELSE /\ saved' = entries
            /\ upset' = IF Clear THEN upset \ Recorded ELSE upset
    /\ IF task.phase \in {"cached", "dry"}
       THEN UNCHANGED tmp
       ELSE (command # "watch" /\ LeavesTmp) \/ RemovesTmp
    /\ task' = Idle
    /\ IF command = "watch"
       THEN UNCHANGED <<command, entries>>
       ELSE command' = "none" /\ entries' = EmptyMap
    /\ UNCHANGED <<source, config, outs, artifacts, aside>>

StageStep ==
    \/ RunReader \/ ReaderFails
    \/ RunTerminalWriter \/ RunInnerWriter \/ WriterFails
    \/ RunExec \/ ExecWarns \/ ExecSilent \/ ExecFails
    \/ Finish \/ Close

Next ==
    \/ \E c \in Content : EditSource(c)
    \/ \E cfg \in Config : EditConfig(cfg)
    \/ \E cache \in BOOLEAN, dirs \in SUBSET Dir : Clean(cache, dirs)
    \/ OtherLoads \/ OtherSaves
    \/ \E kind \in {"build", "build-all", "watch"} : OpenCommand(kind)
    \/ Interrupt
    \/ \E dir \in Dir, to \in Alternative \cup {NoExt}, force, dry \in BOOLEAN :
          Begin(dir, to, force, dry)
    \/ StageStep

Spec == Init /\ [][Next]_vars

-----------------------------------------------------------------------------
(* Properties.                                                             *)

Skippable(spec) == {k \in 1..Len(spec) : IsExec(spec[k]) /\ spec[k].warn}

\* by is the stages of spec at the positions in K, in their order.
Passes(by, spec, K) ==
    /\ Len(by) = Cardinality(K)
    /\ \A k \in K : by[Cardinality(K \cap (1..k))] = spec[k]

\* What a pipeline may make of a source: every output went through all stages
\* but the other terminal writers and the execs that are allowed to fail.
IsResult(ext, v, spec, src, cfg) ==
    LET t == TerminalWriterStart(spec)
    IN /\ v.src = src /\ v.setting = cfg.setting
       /\ \E k \in (t..Len(spec)) \cup {Len(spec)}, S \in SUBSET Skippable(spec) :
             ext = spec[k].ext /\ Passes(v.by, spec, ((1..(t - 1)) \cup {k}) \ S)

IsCurrent(f) ==
    f \in DOMAIN outs /\ IsResult(f[2], outs[f], task.spec, task.src, task.cfg)

OutputsAreCurrent == \A f \in FinalOutputs(task.spec, task.dir) : IsCurrent(f)

\* A build that ran leaves outputs made from the source it hashed, under its
\* settings and through all its stages, wherever it resumed: unless the source
\* was edited before it was parsed, the checkpoint had been overwritten by a
\* build that the saved cache does not know of, or an exec of this build exited
\* with 0 and left the file that was there.
BuiltIsCurrent == task.phase = "built" /\ Clear => OutputsAreCurrent

\* tests/test_pipeline_stage_cache.py: "the source changed: the checkpoint must
\* NOT be reused".
CheckpointsFollowSource == task.phase = "built" /\ task.same => OutputsAreCurrent

\* A build served from the cache serves the outputs of its source, settings and
\* stages, unless one of them was written since by a build that failed or was
\* killed, was found in place by a build whose exec wrote nothing and has not
\* been made since, or was forgotten when another process saved its copy of the
\* cache.
CachedIsCurrent ==
    task.phase = "cached" /\ FinalOutputs(task.spec, task.dir) \cap upset = {} =>
        OutputsAreCurrent

\* After a build the output directory holds the files of its pipeline and no
\* other of the table.
OnlyPipelineOutputs ==
    task.phase \in {"built", "cached"} =>
        (task.dry \/ {f \in DOMAIN outs : f[1] = task.dir} = FinalOutputs(task.spec, task.dir))

\* However earlier builds ended, whatever was cleaned, whatever they left in the
\* output directory, in stage_artifacts and in tmp and whatever copy of the cache
\* is there, a forced build whose execs write makes every output again from the
\* source it hashed.
ForceRecovers ==
    task.phase = "built" /\ task.force /\ task.same /\ task.wrote => OutputsAreCurrent

\* A fan-out that failed has written every output but those it reports.
FanOutCompletes ==
    task.phase = "failed" /\ task.failed # {} /\ Clear =>
        \A f \in FinalOutputs(task.spec, task.dir) \ task.failed : IsCurrent(f)
=============================================================================
