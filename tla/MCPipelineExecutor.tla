------------------------- MODULE MCPipelineExecutor -------------------------
(* Small instances of PipelineExecutor for TLC.                            *)
EXTENDS PipelineExecutor, TLC

CONSTANTS p, m, n, l1, l2

None == <<>>

\* m reads one tensor and may be replaced by a model that names its output otherwise;
\* n reads two.
OneEnsemble ==
    (m :> {[ins |-> <<"x">>, outs |-> <<"y">>], [ins |-> <<"x">>, outs |-> <<"z">>]})
    @@ (n :> {[ins |-> <<"x", "y">>, outs |-> <<"y">>]}) @@ (p :> {})

Step(kind, name, input_map, output_map) ==
    [kind |-> kind, model |-> name, input_map |-> input_map, output_map |-> output_map]

OutputMaps == {None, "y" :> "x"}
MSteps == {Step("model", m, i, o) : i \in {None, "x" :> "y"}, o \in OutputMaps}
          \cup {Step("model", m, "x" :> "IMAGE", None)}
NSteps == {Step("model", n, i, o) : i \in {None, "x" :> "y"}, o \in OutputMaps}
          \cup {Step("model", n, ("x" :> "y") @@ ("y" :> "x"), None)}
Ends == {Step(k, "none", None, None) : k \in {"preprocess", "postprocess"}}

\* Every graph of up to three of these steps.
AllGraphs == (p :> UNION {[1 .. k -> MSteps \cup NSteps \cup Ends] : k \in 1 .. 3})
             @@ (m :> {}) @@ (n :> {})

\* Two names, each a plain model or an ensemble over the other.
OneOutput == [ins |-> <<"x">>, outs |-> <<"x">>]
TwoPlain == (m :> {OneOutput}) @@ (n :> {OneOutput})
EachOther == (m :> {<<Step("model", n, None, None)>>}) @@ (n :> {<<Step("model", m, None, None)>>})
=============================================================================
