---------------------------- MODULE MCDataPlane ----------------------------
(* Three components that share no state, each with its small instance, in  *)
(* one run: a behaviour is one of PipelineExecutor, of InferencePath or of *)
(* ModelRepository.                                                        *)
EXTENDS MCPipelineExecutor, MCInferencePath, ModelRepository

VARIABLE part

dataVars == <<part, vars, pathVars, repositoryVars>>

\* Two directories for version 2, one for 10 and one that is no version; the
\* second file by name is the better one.
FewNames == {<<0, 2>>, <<2>>, <<1, 0>>, <<10>>}
FewFiles == <<"a.onnx", "b.plan">>
FewBackends == ("a.onnx" :> "onnx_runtime") @@ ("b.plan" :> "tensorrt")
TensorrtFirst == <<"tensorrt", "onnx_runtime">>

DataInit ==
    /\ part \in {"pipeline", "path", "repository"}
    /\ Init /\ PathInit /\ RepositoryInit
    /\ part # "repository" => tree = <<>>

DataNext ==
    \/ part = "pipeline" /\ Next /\ UNCHANGED <<part, pathVars, repositoryVars>>
    \/ part = "path" /\ PathNext /\ UNCHANGED <<part, vars, repositoryVars>>
    \/ part = "repository" /\ RepositoryNext /\ UNCHANGED <<part, vars, pathVars>>

DataSpec == DataInit /\ [][DataNext]_dataVars
============================================================================
