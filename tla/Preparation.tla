---------------------------- MODULE Preparation ----------------------------
(***************************************************************************)
(* What a build is made ready from: the plugin files of the project and    *)
(* the settings of a table, in four tiers (the defaults, the global        *)
(* section and the clusters of table-tool.toml, and a sidecar file or an   *)
(* inline section of a [[batch_table]] entry), while clients edit them     *)
(* (core/config.py, batch_tables.py, clusters.py, web/routes/config.py).   *)
(*                                                                         *)
(* A client is a worker thread of the web server or a CLI process.  It     *)
(* works through the file accesses of its request one at a time.  A file   *)
(* is written by truncating it and filling it, and an empty file is valid  *)
(* TOML, without settings, and valid Python, without plugins: whoever      *)
(* reads it in between goes on with that.                                  *)
(*                                                                         *)
(* A tier maps the settings "reader", "writer" and "stages" to values.     *)
(* Batch sources, tags and notes, the deletion of tables and of clusters,  *)
(* and the history of a renamed table are the subject of Project.          *)
(***************************************************************************)
EXTENDS Plugins, Naturals

CONSTANTS
    Names,        \* names a table may have
    Clusters,     \* the clusters of the project
    NoCluster,    \* a table outside every cluster
    PluginFiles,  \* the names of plugin files, in their order
    Contents,     \* what a plugin file may be saved as
    Defaults,     \* the [defaults] sections that clients save
    Pipelines,    \* the pipelines that clients save
    Clients,      \* the requests that may be in progress at once
    Starts,       \* the projects a behavior may start from
    MaxRequests,  \* bound: requests made in a behavior
    MaxRacing     \* bound: requests made by the time one overlaps another

\* A plugin file loads, with these plugins, or it does not: REQUIRES that are not
\* met, or an import that fails.
ASSUME PreparationAssumption ==
    /\ NoCluster \notin Clusters
    /\ {MaxRequests, MaxRacing} \subseteq Nat
    /\ \A k \in Contents : /\ DOMAIN k = {"loads", "plugins"}
                           /\ k.loads \in BOOLEAN /\ ArePlugins(k.plugins)
    /\ \A d \in Defaults : DOMAIN d \subseteq {"reader", "writer"} /\ NoName \notin ValuesOf(d)
    /\ Pipelines \subseteq Seq(Stage)

\* A plugin file is listed once, under its name.
ASSUME PluginFilesAreDistinct ==
    /\ PluginFiles \in Seq({PluginFiles[i] : i \in DOMAIN PluginFiles})
    /\ \A i, j \in DOMAIN PluginFiles : PluginFiles[i] = PluginFiles[j] => i = j

VARIABLES
    sources,    \* the single-file tables: the names of the source files
    toml,       \* table-tool.toml: its tiers, and the clusters each name is given
    sidecar,    \* sidecar[t]: the tier of the sidecar file of t
    plugins,    \* plugins[f]: the content of the plugin file f
    job,        \* job[c]: the file accesses client c still has to do
    hand,       \* hand[c]: what c holds in memory, or was told at the end
    ask,        \* ask[c]: the request of c
    alone,      \* alone[c]: nobody else has changed a file since c made its request
    disturbed,  \* two requests that change files have overlapped
    told,       \* told[t]: the pipeline that was accepted for t, and the plugins then
    requests    \* requests made so far

disk == <<sources, toml, sidecar, plugins>>
vars == <<sources, toml, sidecar, plugins, job, hand, ask, alone, disturbed, told, requests>>

Global == <<"global">>
ClusterSlot(k) == <<"cluster", k>>
BatchSlot(t) == <<"batch", t>>

\* The truncated file.  Every tier is empty, and only the global one is always there.
EmptyToml == [tiers |-> [s \in {Global} |-> EmptyMap], members |-> EmptyMap]
EmptyPlugins == [loads |-> TRUE, plugins |-> <<>>]
Unreadable == [loads |-> FALSE, plugins |-> <<>>]

\* A tier, and table-tool.toml, as the validation of the files lets them through: a pipeline
\* is one that was saved, and the clusters that are named are there.  A setting has a value:
\* the empty name, which the code takes for no setting although it hides one of a farther
\* tier, is left out.
IsTier(x) ==
    /\ DOMAIN x \subseteq {"reader", "writer", "stages"}
    /\ \A f \in DOMAIN x : IF f = "stages" THEN x[f] \in Pipelines ELSE x[f] # NoName

IsToml(k) ==
    /\ k = [tiers |-> k.tiers, members |-> k.members]
    /\ Global \in DOMAIN k.tiers
    /\ \A s \in DOMAIN k.tiers : IsTier(k.tiers[s])
    /\ \A t \in DOMAIN k.members :
          k.members[t] \in Seq({c \in Clusters : ClusterSlot(c) \in DOMAIN k.tiers}) \ {<<>>}

IsPluginFile(f, content) ==
    /\ f \in {PluginFiles[i] : i \in DOMAIN PluginFiles}
    /\ content \in Contents \cup {EmptyPlugins}

ASSUME StartsAreProjects ==
    \A p \in Starts :
        /\ IsToml(p.toml)
        /\ \A t \in DOMAIN p.sidecar : IsTier(p.sidecar[t])
        /\ \A f \in DOMAIN p.plugins : IsPluginFile(f, p.plugins[f])

IsBatch(k, t) == BatchSlot(t) \in DOMAIN k.tiers

\* discover_for_history raises nothing
Discoverable == \A t \in sources : ~IsBatch(toml, t)
TableNames == sources \cup {t \in Names : IsBatch(toml, t)}

\* resolve_table_meta raises nothing: one entry for a name
MetasResolve(k) == \A t \in DOMAIN k.members : Len(k.members[t]) = 1

-----------------------------------------------------------------------------
(* The merged settings                                                     *)

ClusterTier(k, t) ==
    IF t \in DOMAIN k.members THEN k.tiers[ClusterSlot(Head(k.members[t]))] ELSE EmptyMap

\* resolve_config_with_provenance, up to the sidecar
SharedSettings(k, t) == Override(k.tiers[Global], ClusterTier(k, t))

\* (mutant: the cluster over the inline overrides)
EffectiveClusterLast(k, t) ==
    Override(Override(k.tiers[Global], k.tiers[BatchSlot(t)]), ClusterTier(k, t))

\* effective_config
EffectiveConfig(k, t) == Override(SharedSettings(k, t), k.tiers[BatchSlot(t)])

\* resolve_config_with_provenance, the sidecar
WithSidecar(cfg, own) == Override(cfg, own)

-----------------------------------------------------------------------------
(* Reference: what the settings, the plugins and the pipeline of a table   *)
(* should be, from the files as they are.                                  *)

OwnTier(t) ==
    IF t \in sources THEN (IF t \in DOMAIN sidecar THEN sidecar[t] ELSE EmptyMap)
    ELSE toml.tiers[BatchSlot(t)]

\* The nearest tier that has a setting decides; nearest first.
Nearest(tiers) ==
    [f \in UNION {DOMAIN tiers[i] : i \in DOMAIN tiers} |->
        LET i == CHOOSE i \in DOMAIN tiers :
                     /\ f \in DOMAIN tiers[i]
                     /\ \A j \in 1..(i - 1) : f \notin DOMAIN tiers[j]
        IN tiers[i][f]]

SettingsOf(t) == Nearest(<<OwnTier(t), ClusterTier(toml, t), toml.tiers[Global]>>)

\* What the packages offer, and the i-th plugin file if it is there and loads.
Offering(files, i) ==
    IF i = 0 THEN Installed
    ELSE LET f == PluginFiles[i]
         IN IF f \in DOMAIN files /\ files[f].loads THEN files[f].plugins ELSE <<>>

\* The places where plugins are offered, in the order of loading.
Places(files) == UNION {{i} \X DOMAIN Offering(files, i) : i \in 0..Len(PluginFiles)}
After(x, y) == x[1] > y[1] \/ (x[1] = y[1] /\ x[2] > y[2])
Offered(files, x) == Offering(files, x[1])[x[2]]

\* Of the sound plugins in these places, x is the last one of its name.
IsLast(files, places, x) ==
    /\ x \in places /\ Offered(files, x).sound
    /\ \A y \in places : After(y, x) /\ Offered(files, y).sound
                             => KeyOf(Offered(files, y)) # KeyOf(Offered(files, x))

\* The last one of a name counts, of those that are sound.
Available(files) == {Offered(files, x) : x \in {x \in Places(files) : IsLast(files, Places(files), x)}}

Broken(files) ==
    {f \in DOMAIN files : ~files[f].loads}
    \cup {KeyOf(Offered(files, x)) : x \in {x \in Places(files) : ~Offered(files, x).sound}}

\* Of a set of plugins, the readers that may be meant when none is named.
Readers(avail) == {p \in avail : p.kind = "reader"}
Writers(avail) == {p \in avail : p.kind = "writer"}
Recognised(avail) ==
    LET able == {r \in Readers(avail) : r.reads}
    IN IF Cardinality(able) > 1 THEN {r \in able : r.sniffs} ELSE able

\* s is the pipeline that cfg asks for.
Meets(s, cfg, avail) ==
    IF "stages" \in DOMAIN cfg THEN s = cfg["stages"]
    ELSE \E r \in Readers(avail), w \in Writers(avail) :
           /\ s = <<StageOf("reader", r.name), StageOf("writer", w.name)>>
           /\ IF "reader" \in DOMAIN cfg THEN r.name = cfg["reader"] ELSE Recognised(avail) = {r}
           /\ w.name = IF "writer" \in DOMAIN cfg THEN cfg["writer"] ELSE r.suggests

\* The plugins of s are there, and every writer that is handed a table takes it.
Buildable(s, avail) ==
    /\ Enforced(s)
    /\ \A i \in DOMAIN s : IsExec(s[i]) \/ \E p \in avail : p.kind = s[i].kind /\ p.name = s[i].name
    /\ \A i \in DOMAIN s, w \in Writers(avail) :
           IsWriter(s[i]) /\ w.name = s[i].name =>
               \A j \in 1..(i - 1) : IsReader(s[j]) /\ AllWriters(s, j + 1, i)
                                         => s[j].name \in w.accepts

PlansFor(t) ==
    LET avail == Available(plugins) IN
    IF Broken(plugins) # {} \/ ~MetasResolve(toml) \/ t \notin TableNames THEN {}
    ELSE {s \in Pipelines \cup {<<StageOf("reader", r.name), StageOf("writer", w.name)>> :
                                  r \in Readers(avail), w \in Writers(avail)} :
             Meets(s, SettingsOf(t), avail) /\ Buildable(s, avail)}

-----------------------------------------------------------------------------
(* Requests                                                                *)

Idle(c) == job[c] = <<>>
Call(c) == Head(job[c])
IsAt(c, what) == ~Idle(c) /\ Call(c).do = what

InHand == [reg |-> EmptyRegistry, cfg |-> EmptyMap, batch |-> FALSE, plan |-> <<>>]
NoAsk == [what |-> "nothing"]

TomlFile == <<"toml">>
SidecarFile(t) == <<"sidecar", t>>
PluginFile(f) == <<"plugin", f>>

\* The request of c may still change the file.
Changes(c, file) == ~Idle(c) /\ file \in ask[c].on

\* A request a, to change the files in a.on, that is worked off by these calls.
Request(c, a, calls) ==
    /\ Idle(c)
    /\ requests < MaxRequests
    /\ (\E d \in Clients : ~Idle(d)) \/ disturbed => requests < MaxRacing
    /\ requests' = requests + 1
    /\ disturbed' = (disturbed \/ \E d \in Clients, f \in a.on : Changes(d, f))
    /\ job' = [job EXCEPT ![c] = calls]
    /\ ask' = [ask EXCEPT ![c] = a]
    /\ hand' = [hand EXCEPT ![c] = InHand]
    /\ alone' = [alone EXCEPT ![c] = TRUE]
    /\ UNCHANGED <<disk, told>>

EditOf(file) == [what |-> "edit", on |-> {file}]

\* Where the pipeline of t may be: in its sidecar, or in its entry.
PipelineFiles(t) == {SidecarFile(t)} \cup (IF t \in sources THEN {} ELSE {TomlFile})

\* A request that sets or removes the pipeline of t.
Piping(what, t, s, files) == [what |-> what, table |-> t, stages |-> s, on |-> files]

\* 'pld build' and POST /api/build, up to the pipeline they run.
AskPlan(c) ==
    \E t \in Names :
        Request(c, [what |-> "plan", table |-> t, on |-> {}],
                <<[do |-> "list", strict |-> TRUE],
                  [do |-> "configure", table |-> t]>>)

\* 'pld plugins list' and GET /api/plugins
AskPlugins(c) == Request(c, [what |-> "list", on |-> {}], <<[do |-> "list", strict |-> FALSE]>>)

DefaultFields == {"reader", "writer"}
NewTier(file, slot, fields, new) ==
    [do |-> "edit", file |-> file, how |-> "tier", slot |-> slot, fields |-> fields, new |-> new]

\* Settings that a client saves as a whole: PUT /api/config, PUT /api/cluster.
SaveDefaults(c) ==
    \E d \in Defaults, slot \in {Global} \cup {ClusterSlot(k) : k \in Clusters} :
        Request(c, EditOf(TomlFile), <<NewTier(TomlFile, slot, DefaultFields, d)>>)

\* PUT /api/sidecar
SaveSidecar(c) ==
    /\ Discoverable
    /\ \E t \in sources, d \in Defaults :
           Request(c, EditOf(SidecarFile(t)), <<NewTier(SidecarFile(t), Global, DefaultFields, d)>>)

\* DELETE /api/sidecar: the overrides of the table, its pipeline with them
DropSidecar(c) ==
    /\ Discoverable
    /\ \E t \in sources : Request(c, Piping("unpipe", t, <<>>, {SidecarFile(t)}),
                               <<[do |-> "unlink", file |-> SidecarFile(t)]>>)

\* 'pld config set', of a table or global: one setting, and the others as they are read first
ConfigSet(c) ==
    \E d \in Defaults, f \in DefaultFields :
        \E file \in {TomlFile} \cup {SidecarFile(t) : t \in sources} :
            /\ file # TomlFile => Discoverable
            /\ Request(c, EditOf(file),
                       <<[do |-> "config_set", file |-> file, field |-> f, new |-> Keep(d, {f})]>>)

\* 'pld batch --reader/--writer' and PUT /api/batch; 'pld batch --stage', which checks nothing.
SaveBatch(c) ==
    \E t \in {n \in Names : IsBatch(toml, n)} :
        \/ \E d \in Defaults, f \in DefaultFields :
               Request(c, EditOf(TomlFile), <<NewTier(TomlFile, BatchSlot(t), {f}, Keep(d, {f}))>>)
        \/ \E s \in Pipelines :
               Request(c, Piping("unpipe", t, <<>>, {SidecarFile(t), TomlFile}),
                       <<NewTier(TomlFile, BatchSlot(t), {"stages"}, Put(EmptyMap, "stages", s))>>)

\* PUT and DELETE /api/pipeline, up to the answer that shows the result.
SavePipeline(c) ==
    \E t \in Names :
        \/ \E s \in Pipelines :
               Request(c, Piping("pipe", t, s, PipelineFiles(t)),
                       <<[do |-> "discover", table |-> t], [do |-> "list", strict |-> TRUE],
                         [do |-> "check", stages |-> s],
                         [do |-> "put", table |-> t, new |-> Put(EmptyMap, "stages", s)]>>)
        \/ Request(c, Piping("unpipe", t, <<>>, PipelineFiles(t)),
                   <<[do |-> "discover", table |-> t],
                     [do |-> "put", table |-> t, new |-> EmptyMap]>>)

\* PUT .../cluster of a table that is there
AssignCluster(c) ==
    \E t \in TableNames, k \in Clusters \cup {NoCluster} :
        Request(c, EditOf(TomlFile),
                <<[do |-> "edit", file |-> TomlFile, how |-> "cluster", table |-> t, cluster |-> k]>>)

\* PUT and DELETE /api/local-plugins; the install and the scaffold of a plugin are the
\* same once they have found that the file is not there or may be overwritten.
SavePlugin(c) ==
    \E i \in DOMAIN PluginFiles :
        LET file == PluginFile(PluginFiles[i]) IN
        \/ \E k \in Contents : Request(c, EditOf(file), <<[do |-> "write", file |-> file, new |-> k]>>)
        \/ Request(c, EditOf(file), <<[do |-> "unlink", file |-> file]>>)

\* A sidecar that a deleted table of the new name has left, and that nothing replaces; a
\* [[table_meta]] entry of the new name.
Leftover(old, new) ==
    \/ new \in DOMAIN sidecar /\ old \in sources /\ old \notin DOMAIN sidecar
    \/ new \in DOMAIN toml.members

\* What the table new should have: a clone of a batch table is given no cluster.
Following(what, old) ==
    IF what = "clone" /\ IsBatch(toml, old) THEN Nearest(<<OwnTier(old), toml.tiers[Global]>>)
    ELSE SettingsOf(old)

RenameEdit(old, new) == [do |-> "edit", file |-> TomlFile, how |-> "rename", old |-> old, new |-> new]

\* (mutant: the sidecar is left where it was)
RenameWithoutSidecar(old, new) ==
    IF old \in sources THEN <<[do |-> "move", old |-> old, new |-> new], RenameEdit(old, new)>>
    ELSE <<RenameEdit(old, new)>>

\* rename_table
RenameCalls(old, new) ==
    IF old \in sources
    THEN <<[do |-> "move", old |-> old, new |-> new],
           [do |-> "move_sidecar", old |-> old, new |-> new], RenameEdit(old, new)>>
    ELSE <<RenameEdit(old, new)>>

\* clone_table; the metadata are those of the time of the request
CloneCalls(old, new) ==
    IF old \in sources
    THEN <<[do |-> "copy", old |-> old, new |-> new],
           [do |-> "copy_sidecar", old |-> old, new |-> new]>>
         \o (IF old \notin DOMAIN toml.members \/ ~MetasResolve(toml) THEN <<>>
             ELSE <<[do |-> "edit", file |-> TomlFile, how |-> "tags"],
                    [do |-> "edit", file |-> TomlFile, how |-> "cluster", table |-> new,
                     cluster |-> Head(toml.members[old])]>>)
    ELSE <<[do |-> "edit", file |-> TomlFile, how |-> "create", table |-> new,
            new |-> toml.tiers[BatchSlot(old)]]>>

\* Two of them at once, and the names they make clash, are left to Project.
NewName(c) ==
    /\ Discoverable
    /\ \A d \in Clients : ~Idle(d) => ask[d].what \notin {"rename", "clone"}
    /\ \E old \in TableNames, new \in Names \ TableNames, what \in {"rename", "clone"} :
           Request(c, [what |-> what, table |-> old, new |-> new,
                       on |-> {TomlFile, SidecarFile(old), SidecarFile(new)},
                       was |-> Following(what, old), left |-> Leftover(old, new)],
                   IF what = "rename" THEN RenameCalls(old, new) ELSE CloneCalls(old, new))

-----------------------------------------------------------------------------
(* The calls of a request                                                  *)

\* What the request of c, now answered, says of the pipelines that have been accepted.
\* What it was checked against is known if nobody else has changed a file.
ToldBy(c) ==
  LET r == ask[c] IN
    CASE r.what = "pipe"   -> Put(told, r.table, [stages |-> r.stages,
                                                  plugins |-> IF alone[c] THEN {plugins'} ELSE {}])
      [] r.what = "unpipe" -> Drop(told, {r.table})
      [] r.what = "rename" -> MoveKey(told, r.table, r.new)
      [] r.what = "clone"  -> IF r.table \in DOMAIN told THEN Put(told, r.new, told[r.table]) ELSE told
      [] OTHER             -> told

\* Client c goes on with these calls, or is done; what it does not tell is forgotten.
Go(c, calls) ==
    /\ job' = [job EXCEPT ![c] = calls]
    /\ told' = IF calls # <<>> THEN told ELSE IF disturbed THEN EmptyMap ELSE ToldBy(c)
    /\ ask' = IF calls = <<>> /\ ask[c].what \notin {"plan", "list", "rename", "clone"}
              THEN [ask EXCEPT ![c] = NoAsk] ELSE ask
    /\ UNCHANGED <<disturbed, requests>>

Return(c) == Go(c, Tail(job[c]))

\* The request fails.  A plan that failed is <<>>; another request is as if never made.
Raise(c) ==
    /\ job' = [job EXCEPT ![c] = <<>>]
    /\ ask' = IF ask[c].what = "plan" THEN ask ELSE [ask EXCEPT ![c] = NoAsk]
    /\ hand' = [hand EXCEPT ![c] = InHand]
    /\ UNCHANGED <<disk, alone, disturbed, told, requests>>

\* A step of c that changes no file, and leaves h in its hand.
Reads(c, h) == hand' = [hand EXCEPT ![c] = h] /\ UNCHANGED <<disk, alone>>

\* A step of c that changes a file.
Touches(c) == /\ alone' = [d \in Clients |-> d = c /\ alone[c]]
              /\ UNCHANGED hand

Loading(fs, strict) ==
    IF fs = {} THEN <<>> ELSE <<[do |-> "load", files |-> fs, strict |-> strict]>>

\* load_plugins: the packages, and the listing of plugins/.
ListPlugins(c) ==
    /\ IsAt(c, "list")
    /\ LET strict == Call(c).strict IN
       IF strict /\ LoadInstalled.failures # {} THEN Raise(c)
       ELSE /\ Reads(c, [hand[c] EXCEPT !.reg = LoadInstalled])
            /\ Go(c, Loading(DOMAIN plugins, strict) \o Tail(job[c]))

\* The files are loaded in their order.
First(fs) ==
    PluginFiles[CHOOSE i \in DOMAIN PluginFiles :
                    PluginFiles[i] \in fs /\ \A j \in 1..(i - 1) : PluginFiles[j] \notin fs]

\* load_local_plugins, one file: one that has gone since the listing does not load.
LoadPluginFile(c) ==
    /\ IsAt(c, "load")
    /\ LET strict == Call(c).strict
           f == First(Call(c).files)
           reg == LoadFile(hand[c].reg, f, IF f \in DOMAIN plugins THEN plugins[f] ELSE Unreadable)
       IN IF strict /\ reg.failures # {} THEN Raise(c)
          ELSE /\ Reads(c, [hand[c] EXCEPT !.reg = reg])
               /\ Go(c, Loading(Call(c).files \ {f}, strict) \o Tail(job[c]))

\* resolve_pipeline_spec and validate_pipeline_against_registry
Resolved(h, cfg) == [h EXCEPT !.cfg = EmptyMap, !.plan = ResolvePipeline(cfg, h.reg)]

\* load_config up to the sidecar of a single-file table; all of a batch table
Configure(c) ==
    /\ IsAt(c, "configure")
    /\ LET t == Call(c).table IN
       IF t \notin TableNames \/ ~MetasResolve(toml) THEN Raise(c)
       ELSE IF t \in sources
       THEN /\ Reads(c, [hand[c] EXCEPT !.cfg = SharedSettings(toml, t)])
            /\ Go(c, <<[do |-> "sidecar", table |-> t]>>)
       ELSE Reads(c, Resolved(hand[c], EffectiveConfig(toml, t))) /\ Return(c)

\* load_config, the sidecar
ReadSidecar(c) ==
    /\ IsAt(c, "sidecar")
    /\ LET t == Call(c).table
           own == IF t \in DOMAIN sidecar THEN sidecar[t] ELSE EmptyMap
       IN Reads(c, Resolved(hand[c], WithSidecar(hand[c].cfg, own)))
    /\ Return(c)

\* _find_ref
Discover(c) ==
    /\ IsAt(c, "discover")
    /\ IF Discoverable /\ Call(c).table \in TableNames
       THEN Reads(c, [hand[c] EXCEPT !.batch = IsBatch(toml, Call(c).table)]) /\ Return(c)
       ELSE Raise(c)

CheckPipeline(c) ==
    /\ IsAt(c, "check")
    /\ IF Checked(Call(c).stages, hand[c].reg) = <<>> THEN Raise(c)
       ELSE Reads(c, [hand[c] EXCEPT !.reg = EmptyRegistry]) /\ Return(c)

\* upsert_batch_table or write_sidecar_config, by what the table was when it was looked up
PutPipeline(c) ==
    /\ IsAt(c, "put")
    /\ LET t == Call(c).table
           edit(file, slot) == NewTier(file, slot, {"stages"}, Call(c).new)
       IN Go(c, <<IF hand[c].batch THEN edit(TomlFile, BatchSlot(t)) ELSE edit(SidecarFile(t), Global)>>)
    /\ Reads(c, InHand)

\* The tier of a sidecar that is not there is empty.
SidecarTier(t) == IF t \in DOMAIN sidecar THEN sidecar[t] ELSE EmptyMap

\* config_set: the other setting is taken from the file now; it is read again to be edited.
ReadDefaults(c) ==
    /\ IsAt(c, "config_set")
    /\ LET e == Call(c)
           now == IF e.file = TomlFile THEN toml.tiers[Global] ELSE SidecarTier(e.file[2])
           others == Keep(now, DefaultFields \ {e.field})
       IN Go(c, <<NewTier(e.file, Global, DefaultFields, Override(others, e.new))>>)
    /\ Reads(c, hand[c])

-----------------------------------------------------------------------------
(* Edits: the file is read, changed in memory, truncated and filled.       *)

\* (mutant: what is not given anew is dropped from the section)
EditedWhole(tier, fields, new) == new

\* The section with these fields replaced, and the others as they were.
Edited(tier, fields, new) == Override(Drop(tier, fields), new)

\* set_table_cluster, of the first entry of the name
WithCluster(members, t, k) ==
    LET now == IF t \in DOMAIN members THEN members[t] ELSE <<>>
        new == (IF k = NoCluster THEN <<>> ELSE <<k>>) \o (IF now = <<>> THEN <<>> ELSE Tail(now))
    IN IF new = <<>> THEN Drop(members, {t}) ELSE Put(members, t, new)

\* _rewrite_table_name_in_config
RenamedMembers(members, old, new) ==
    IF old \notin DOMAIN members THEN members
    ELSE Put(Drop(members, {old}), new,
             (IF new \in DOMAIN members THEN members[new] ELSE <<>>) \o members[old])

\* The edits of table-tool.toml that raise: an unknown cluster, a batch table that is there.
Refused(e) ==
    CASE e.how = "tier"    -> e.slot[1] = "cluster" /\ e.slot \notin DOMAIN toml.tiers
      [] e.how = "cluster" -> e.cluster # NoCluster /\ ClusterSlot(e.cluster) \notin DOMAIN toml.tiers
      [] e.how = "create"  -> IsBatch(toml, e.table)
      [] OTHER             -> FALSE

\* A batch table that has gone is made anew.
EditedToml(e) ==
    CASE e.how = "tier" ->
           LET now == IF e.slot \in DOMAIN toml.tiers THEN toml.tiers[e.slot] ELSE EmptyMap
           IN [toml EXCEPT !.tiers = Put(@, e.slot, Edited(now, e.fields, e.new))]
      [] e.how = "cluster" -> [toml EXCEPT !.members = WithCluster(@, e.table, e.cluster)]
      [] e.how = "tags" -> toml
      [] e.how = "create" -> [toml EXCEPT !.tiers = Put(@, BatchSlot(e.table), e.new)]
      [] e.how = "rename" -> [tiers |-> MoveKey(toml.tiers, BatchSlot(e.old), BatchSlot(e.new)),
                              members |-> RenamedMembers(toml.members, e.old, e.new)]

\* write_global_config, update_cluster, upsert_batch_table, set_table_cluster,
\* create_batch_table and _rewrite_table_name_in_config; write_sidecar_config, which
\* removes a sidecar that has become empty.
ReadToEdit(c) ==
    /\ IsAt(c, "edit")
    /\ LET e == Call(c)
           write(new) == <<[do |-> "write", file |-> e.file, new |-> new]>>
       IN IF e.file = TomlFile
          THEN IF Refused(e) THEN Raise(c)
               ELSE Reads(c, hand[c]) /\ Go(c, write(EditedToml(e)) \o Tail(job[c]))
          ELSE LET new == Edited(SidecarTier(e.file[2]), e.fields, e.new)
               IN /\ Reads(c, hand[c])
                  /\ Go(c, (IF new = EmptyMap THEN <<[do |-> "unlink", file |-> e.file]>>
                            ELSE write(new)) \o Tail(job[c]))

\* The file has this content now.
Becomes(file, content) ==
    /\ toml' = IF file = TomlFile THEN content ELSE toml
    /\ sidecar' = IF file[1] = "sidecar" THEN Put(sidecar, file[2], content) ELSE sidecar
    /\ plugins' = IF file[1] = "plugin" THEN Put(plugins, file[2], content) ELSE plugins

Truncate(c) ==
    /\ IsAt(c, "write")
    /\ LET file == Call(c).file IN
       Becomes(file, IF file = TomlFile THEN EmptyToml
                  ELSE IF file[1] = "sidecar" THEN EmptyMap ELSE EmptyPlugins)
    /\ Go(c, <<[Call(c) EXCEPT !.do = "fill"]>> \o Tail(job[c]))
    /\ Touches(c)
    /\ UNCHANGED sources

Fill(c) ==
    /\ IsAt(c, "fill")
    /\ Becomes(Call(c).file, Call(c).new)
    /\ Return(c)
    /\ Touches(c)
    /\ UNCHANGED sources

\* unlink, of a file that is there
Unlink(c) ==
    /\ IsAt(c, "unlink")
    /\ LET file == Call(c).file IN
       /\ sidecar' = IF file[1] = "sidecar" THEN Drop(sidecar, {file[2]}) ELSE sidecar
       /\ plugins' = IF file[1] = "plugin" THEN Drop(plugins, {file[2]}) ELSE plugins
    /\ Return(c)
    /\ Touches(c)
    /\ UNCHANGED <<sources, toml>>

\* rename() or copy2() of the source; it raises when the source has gone.
NameSource(c) ==
    /\ IsAt(c, "move") \/ IsAt(c, "copy")
    /\ LET e == Call(c) IN
       IF e.old \notin sources THEN Raise(c)
       ELSE /\ sources' = (sources \ (IF e.do = "move" THEN {e.old} ELSE {})) \cup {e.new}
            /\ Return(c)
            /\ Touches(c)
            /\ UNCHANGED <<toml, sidecar, plugins>>

MoveSidecar(c) ==
    /\ IsAt(c, "move_sidecar")
    /\ sidecar' = MoveKey(sidecar, Call(c).old, Call(c).new)
    /\ Return(c)
    /\ Touches(c)
    /\ UNCHANGED <<sources, toml, plugins>>

\* copy2() of the sidecar, if there is one
CopySidecar(c) ==
    /\ IsAt(c, "copy_sidecar")
    /\ LET e == Call(c) IN
       Go(c, (IF e.old \in DOMAIN sidecar
              THEN <<[do |-> "write", file |-> SidecarFile(e.new), new |-> sidecar[e.old]]>>
              ELSE <<>>) \o Tail(job[c]))
    /\ Reads(c, hand[c])

-----------------------------------------------------------------------------
Init ==
    /\ \E p \in Starts : /\ sources = p.sources
                         /\ toml = p.toml
                         /\ sidecar = p.sidecar
                         /\ plugins = p.plugins
    /\ job = [c \in Clients |-> <<>>]
    /\ hand = [c \in Clients |-> InHand]
    /\ ask = [c \in Clients |-> NoAsk]
    /\ alone = [c \in Clients |-> FALSE]
    /\ disturbed = FALSE
    /\ told = EmptyMap
    /\ requests = 0

Ask(c) ==
    \/ AskPlan(c) \/ AskPlugins(c) \/ SaveDefaults(c) \/ SaveSidecar(c) \/ DropSidecar(c)
    \/ ConfigSet(c) \/ SaveBatch(c) \/ SavePipeline(c) \/ AssignCluster(c) \/ SavePlugin(c)
    \/ NewName(c)

Step(c) ==
    \/ ListPlugins(c) \/ LoadPluginFile(c) \/ Configure(c) \/ ReadSidecar(c)
    \/ Discover(c) \/ CheckPipeline(c) \/ PutPipeline(c) \/ ReadDefaults(c)
    \/ ReadToEdit(c) \/ Truncate(c) \/ Fill(c) \/ Unlink(c)
    \/ NameSource(c) \/ MoveSidecar(c) \/ CopySidecar(c)

Next == \E c \in Clients : Ask(c) \/ Step(c)

Spec == Init /\ [][Next]_vars

-----------------------------------------------------------------------------
(* Properties                                                              *)

\* A build that nobody disturbs runs the pipeline that the files say: of every setting the
\* value of the nearest tier, by either of the two merges; of every plugin name the last
\* sound one; and none at all when a plugin does not load.  A listing shows exactly those
\* plugins, and names everything that did not load.
PlanIsReference ==
    \A c \in Clients : Idle(c) /\ alone[c] =>
        /\ ask[c].what = "plan" =>
               IF PlansFor(ask[c].table) = {} THEN hand[c].plan = <<>>
               ELSE PlansFor(ask[c].table) = {hand[c].plan}
        /\ ask[c].what = "list" => /\ ValuesOf(hand[c].reg.of) = Available(plugins)
                                   /\ hand[c].reg.failures = Broken(plugins)

\* A pipeline that was accepted for a table stays the pipeline of the table, whatever is
\* edited in other sections, files and tiers, meanwhile too, and through renames and
\* clones, and can be built as long as the plugins are the same.  Excepted are edits of the
\* same file that overlap.
AcceptedPipelineInForce ==
    ~disturbed => \A t \in DOMAIN told :
        (\A c \in Clients, f \in PipelineFiles(t) : ~Changes(c, f)) =>
            /\ t \in TableNames
            /\ "stages" \in DOMAIN SettingsOf(t) /\ SettingsOf(t)["stages"] = told[t].stages
            /\ plugins \in told[t].plugins => Buildable(told[t].stages, Available(plugins))

\* A table that was renamed or cloned, with no change by anybody else since, has the
\* settings of the original; excepted what a deleted table of that name has left behind,
\* and a clone in a project whose [[table_meta]] do not resolve: it is answered with an
\* error after the files have been copied, and gets no cluster.
SettingsFollow ==
    \A c \in Clients :
        Idle(c) /\ alone[c] /\ ask[c].what \in {"rename", "clone"} /\ ~ask[c].left =>
            /\ ask[c].new \in TableNames
            /\ (ask[c].what = "clone" => MetasResolve(toml)) => SettingsOf(ask[c].new) = ask[c].was
=============================================================================
