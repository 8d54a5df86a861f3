--------------------------- MODULE MCPipelineSpec ---------------------------
EXTENDS PipelineSpec

Of(kind, name, ext) == [kind |-> kind, name |-> name, ext |-> ext, warn |-> FALSE]

MCStage == {Of("reader", "r", NoExt), Of("writer", "w", "w"), Of("writer", "v", "v"),
            Of("exec", "sign", NoExt), Of("exec", "sign", "z")}
=============================================================================
