----------------------------- MODULE MCPipeline -----------------------------
EXTENDS Pipeline, TLC

Of(kind, name, ext, warn) == [kind |-> kind, name |-> name, ext |-> ext, warn |-> warn]

Read == Of("reader", "csv", NoExt, FALSE)
Bin == Of("writer", "bin", "bin", FALSE)
Hex == Of("writer", "hex", "hex", FALSE)
Sign == Of("exec", "sign", "sgn", FALSE)
Seal == Of("exec", "seal", "sgn", FALSE)
Notify == Of("exec", "notify", NoExt, TRUE)

MCStage == {Read, Bin, Hex, Sign, Seal, Notify}

Declared(setting, stages) ==
    [setting |-> setting, stages |-> stages, reader |-> Read, writer |-> Bin]

\* A reader and a writer chosen by --from and --to; a fan-out; a checkpoint
\* before an exec; two; a file read again.
Plain(setting) == Declared(setting, <<>>)
FanOutTo(setting) == Declared(setting, <<Read, Bin, Hex>>)
Signed(setting) == Declared(setting, <<Read, Bin, Sign>>)
Sealed(setting) == Declared(setting, <<Read, Bin, Seal>>)
Notified(setting) == Declared(setting, <<Read, Bin, Notify, Read, Hex>>)

MCAlternative == {Hex}
MCNoAlternative == {}

Quiet ==
    [configs |-> {Plain("s"), Plain("t"), FanOutTo("s"), Signed("s"), Signed("t"), Notified("s")},
     faults  |-> {}]
Failing(cfgs) ==
    [configs |-> cfgs,
     faults  |-> {"reader", "writer", "exec", "kill"}]
Tearing(cfgs) ==
    [configs |-> cfgs,
     faults  |-> {"writer", "exec", "tear", "silent"}]
Crowded(cfg) ==
    [configs |-> {cfg}, faults  |-> {"exec", "silent", "edit", "clean", "other"}]
Silent(cfgs) ==
    [configs |-> cfgs, faults |-> {"silent", "keep"}]
Killed(cfg) ==
    [configs |-> {cfg}, faults |-> {"silent", "keep", "kill"}]

MCWorld ==
    {Quiet, Failing({FanOutTo("s"), Signed("s")}), Failing({Signed("s"), Notified("s")}),
     Tearing({FanOutTo("s"), Signed("s")}),
     Silent({Signed("s"), Notified("s")}), Killed(Notified("s")),
     Crowded(Plain("s")), Crowded(FanOutTo("s")), Crowded(Signed("s"))}
MCSigned == {[configs |-> {Signed("s"), Sealed("s")}, faults |-> {"exec"}]}

Symmetry == Permutations(Content)
=============================================================================
