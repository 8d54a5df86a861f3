------------------------------ MODULE Plugins ------------------------------
(***************************************************************************)
(* The readers and writers of a project and the choice of a pipeline among *)
(* them: loading (src/payload/core/registry.py, local_plugins.py) and      *)
(* resolution (resolve_pipeline_spec and                                   *)
(* validate_pipeline_against_registry of core/pipeline.py).  No state.     *)
(*                                                                         *)
(* A plugin is what its class says of itself.  A registry is a map from    *)
(* kind and name to plugin, with the plugins and files that did not load.  *)
(***************************************************************************)
EXTENDS Stages, FiniteSets, Maps

CONSTANTS
    Installed,  \* the plugins of pip packages, in the order of their groups
    NoName      \* no reader or writer named; a reader that suggests no writer

\* sound: the class can be made and its API version is compatible; reads: its
\* extensions include that of the sources; sniffs: it recognises them; suggests:
\* the default_writer of a reader; accepts: the compatible_readers of a writer.
ArePlugins(ps) ==
    /\ ps \in Seq({ps[k] : k \in DOMAIN ps})
    /\ \A k \in DOMAIN ps :
          /\ DOMAIN ps[k] = {"kind", "name", "sound", "reads", "sniffs", "suggests", "accepts"}
          /\ ps[k].name # NoName
          /\ {ps[k].sound, ps[k].reads, ps[k].sniffs} \subseteq BOOLEAN

ASSUME PluginShape == ArePlugins(Installed)

KeyOf(p) == <<p.kind, p.name>>

EmptyRegistry == [of |-> EmptyMap, failures |-> {}]

\* (mutant: a plugin that is there already is kept)
RegisterFirst(reg, p) ==
    IF ~p.sound THEN [reg EXCEPT !.failures = @ \cup {KeyOf(p)}]
    ELSE [reg EXCEPT !.of = Override(Put(EmptyMap, KeyOf(p), p), @)]

\* A plugin of the same kind and name is overwritten.
Register(reg, p) ==
    IF ~p.sound THEN [reg EXCEPT !.failures = @ \cup {KeyOf(p)}]
    ELSE [reg EXCEPT !.of = Put(@, KeyOf(p), p)]

RegisterAll(reg, ps) ==
    LET upTo[n \in 0..Len(ps)] == IF n = 0 THEN reg ELSE Register(upTo[n - 1], ps[n])
    IN upTo[Len(ps)]

LoadInstalled == RegisterAll(EmptyRegistry, Installed)

\* One .py file: a REQUIRES that is not met or an import that fails costs all of
\* its plugins, a plugin that fails only itself.
LoadFile(reg, name, content) ==
    IF ~content.loads THEN [reg EXCEPT !.failures = @ \cup {name}]
    ELSE RegisterAll(reg, content.plugins)

Has(reg, kind, name) == <<kind, name>> \in DOMAIN reg.of

-----------------------------------------------------------------------------
(* find_reader, resolve_pipeline_spec.  <<>> stands for an error.          *)

Candidates(reg) == {p \in ValuesOf(reg.of) : p.kind = "reader" /\ p.reads}

\* (mutant: several candidates are not told apart by their content)
FindReaderByExtension(reg, explicit) ==
    IF explicit # NoName
    THEN {p \in ValuesOf(reg.of) : p.kind = "reader" /\ p.name = explicit}
    ELSE IF Cardinality(Candidates(reg)) = 1 THEN Candidates(reg) ELSE {}

\* The reader, as a set of one, or none: unknown, or ambiguous also by content.
FindReader(reg, explicit) ==
    IF explicit # NoName
    THEN {p \in ValuesOf(reg.of) : p.kind = "reader" /\ p.name = explicit}
    ELSE LET sniffed == {p \in Candidates(reg) : p.sniffs}
         IN IF Cardinality(Candidates(reg)) = 1 THEN Candidates(reg)
            ELSE IF Cardinality(sniffed) = 1 THEN sniffed ELSE {}

StageOf(kind, name) == [kind |-> kind, name |-> name, ext |-> NoExt, warn |-> FALSE]

\* PipelineSpec.implicit: the writer named, else the one the reader suggests.
Implicit(reg, reader, writer) ==
    LET wname == IF writer # NoName THEN writer ELSE reader.suggests
    IN IF wname # NoName /\ Has(reg, "writer", wname)
       THEN <<StageOf("reader", reader.name), StageOf("writer", wname)>>
       ELSE <<>>

\* (mutant: of a fan-out, the first writer only)
AdjacentPairs(spec) ==
    {x \in (DOMAIN spec) \X (DOMAIN spec) :
        x[2] = x[1] + 1 /\ IsReader(spec[x[1]]) /\ IsWriter(spec[x[2]])}

\* reader_writer_pairs: a reader with every writer of the group that follows it.
ReaderWriterPairs(spec) ==
    {x \in (DOMAIN spec) \X (DOMAIN spec) :
        x[1] < x[2] /\ IsReader(spec[x[1]]) /\ AllWriters(spec, x[1] + 1, x[2])}

\* validate_pipeline_against_registry
FitsRegistry(spec, reg) ==
    /\ \A k \in DOMAIN spec : ~IsExec(spec[k]) => Has(reg, spec[k].kind, spec[k].name)
    /\ \A x \in ReaderWriterPairs(spec) :
           spec[x[1]].name \in reg.of[<<"writer", spec[x[2]].name>>].accepts

\* PipelineSpec.from_raw_stages with validate_pipeline_against_registry.
Checked(spec, reg) == IF Enforced(spec) /\ FitsRegistry(spec, reg) THEN spec ELSE <<>>

\* The pipeline of a table whose configuration is cfg: stages declared for it,
\* else a reader and a writer.
ResolvePipeline(cfg, reg) ==
    IF "stages" \in DOMAIN cfg THEN Checked(cfg["stages"], reg)
    ELSE LET named(field) == IF field \in DOMAIN cfg THEN cfg[field] ELSE NoName
             found == FindReader(reg, named("reader"))
         IN IF found = {} THEN <<>>
            ELSE LET spec == Implicit(reg, CHOOSE p \in found : TRUE, named("writer"))
                 IN IF spec # <<>> /\ FitsRegistry(spec, reg) THEN spec ELSE <<>>
=============================================================================
