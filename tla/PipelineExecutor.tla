-------------------------- MODULE PipelineExecutor --------------------------
(***************************************************************************)
(* Ensembles: src/src/PipelineConfig.cpp, src/src/PipelineExecutor.cpp and *)
(* the steps of src/src/PipelineStepsTasks.cpp, over models that are       *)
(* loaded, replaced and unloaded meanwhile.                                *)
(*                                                                         *)
(* A graph is a sequence of steps, run one after the other on a map from   *)
(* tensor names to tensors.  A tensor is known by what computed it: the    *)
(* step, the output and the tensors it was computed from.  A loader checks *)
(* a graph against the models it finds, one lookup for each step, and      *)
(* publishes the ensemble later; a request looks the models up again.      *)
(***************************************************************************)
EXTENDS Naturals, Sequences, FiniteSets, Functions, FiniteSetsExt

CONSTANTS
    Names,      \* model names
    Loaders,    \* threads that load models
    Interfaces, \* the metadata a name may have as a plain model: sequences `ins` and `outs`
    Graphs,     \* the graphs a name may be loaded with as an ensemble
    MaxLoads    \* bound on the ensembles loaded in one behaviour

IsSequence(f) == f \in Seq(Range(f))

ASSUME PipelineAssumption ==
    /\ DOMAIN Interfaces = Names /\ DOMAIN Graphs = Names /\ MaxLoads \in Nat
    /\ \A n \in Names : \A i \in Interfaces[n] :
         IsSequence(i.ins) /\ IsSequence(i.outs) /\ i.ins # <<>> /\ i.outs # <<>>
    /\ \A n \in Names : \A g \in Graphs[n] :
         /\ IsSequence(g) /\ Len(g) > 0
         /\ \A i \in DOMAIN g : g[i].kind = "model" => g[i].model \in Names

VARIABLES
    model,    \* what the registry resolves a name to
    loader,   \* what a loader is doing
    request,  \* the request executed by the instance of an ensemble
    loads     \* ensembles loaded so far

vars == <<model, loader, request, loads>>

-----------------------------------------------------------------------------
(* Graphs.                                                                 *)

IMAGE == "IMAGE"
FRAME_SIZE == "FRAME_SIZE"
Envelope == <<"BOXES">>

Absent == [platform |-> "none"]
Plain(i) == [platform |-> "plain", ins |-> i.ins, outs |-> i.outs]
Ready(n) == model[n] # Absent

\* A missing entry of input_map or output_map means identity.
Mapped(map, name) == IF name \in DOMAIN map THEN map[name] ELSE name

\* The graph names a step reads, in the order of its inputs, and those it writes.
Reads(s) == [k \in DOMAIN s.ins |-> Mapped(s.input_map, s.ins[k])]
Writes(s, outs) == [k \in DOMAIN outs |-> Mapped(s.output_map, outs[k])]

MetadataInputs(steps) == Reads(steps[1])
MetadataOutputs(steps) == Writes(steps[Len(steps)], steps[Len(steps)].outs)
Ensemble(steps) == [platform |-> "ensemble", ins |-> MetadataInputs(steps),
                    outs |-> MetadataOutputs(steps), steps |-> steps]

\* parsePipelineConfig: names are checked as far as the graph alone tells them.
NamesKnowable(g, i) == \A j \in 1 .. i - 1 : DOMAIN g[j].output_map # {}
MappedEarlier(g, i) == {IMAGE} \cup UNION {Range(g[j].output_map) : j \in 1 .. i - 1}
ParsePipelineConfig(g) ==
    \A i \in DOMAIN g : NamesKnowable(g, i) => Range(g[i].input_map) \subseteq MappedEarlier(g, i)

\* Mutant of ConsumesProduced: only the first input of a step is looked at.
ConsumesProducedFirst(steps) ==
    \A i \in DOMAIN steps :
        Reads(steps[i])[1] \in Range(MetadataInputs(steps))
                               \cup UNION {Range(Writes(steps[j], steps[j].outs)) : j \in 1 .. i - 1}

\* The exact check, with the tensor names the models declare.
ConsumesProduced(steps) ==
    \A i \in DOMAIN steps :
        Range(Reads(steps[i])) \subseteq
            Range(MetadataInputs(steps))
              \cup UNION {Range(Writes(steps[j], steps[j].outs)) : j \in 1 .. i - 1}

-----------------------------------------------------------------------------
(* makePipelineExecutor, and the registry that publishes what it built.    *)

NoLoad == [pc |-> "idle"]

\* A plain model is loaded or replaced, or any model is unloaded.
LoadPlain(n) ==
    /\ \E i \in Interfaces[n] : model' = [model EXCEPT ![n] = Plain(i)]
    /\ UNCHANGED <<loader, request, loads>>
Unload(n) ==
    /\ Ready(n) /\ model' = [model EXCEPT ![n] = Absent]
    /\ UNCHANGED <<loader, request, loads>>

\* Refused at once: an ensemble that would batch, or a graph that does not parse.
BeginLoad(l, n, g) ==
    /\ loader[l].pc = "idle" /\ loads < MaxLoads
    /\ \E batching \in BOOLEAN :
         loader' = [loader EXCEPT ![l] =
             IF batching \/ ~ParsePipelineConfig(g) THEN NoLoad
             ELSE [pc |-> "resolve", name |-> n, graph |-> g, steps |-> <<>>]]
    /\ loads' = loads + 1
    /\ UNCHANGED <<model, request>>

\* neighbourModelMetadata: the nearest model step behind a preprocess step or in front
\* of a postprocess step, or 0.
Neighbour(g, i) ==
    LET models == {j \in DOMAIN g : g[j].kind = "model"
                                    /\ IF g[i].kind = "preprocess" THEN j > i ELSE j < i}
    IN IF models = {} THEN 0 ELSE IF g[i].kind = "preprocess" THEN Min(models) ELSE Max(models)

\* PreprocessStep and PostprocessStep: inputs and outputs follow the neighbour's.
Builtin(kind, neighbour) ==
    IF kind = "preprocess" THEN [ins |-> <<IMAGE>>, outs |-> Append(neighbour.ins, FRAME_SIZE)]
    ELSE [ins |-> Append(neighbour.outs, FRAME_SIZE), outs |-> Envelope]

Resolved(s, i) == [kind |-> s.kind, model |-> s.model, input_map |-> s.input_map,
                   output_map |-> s.output_map, ins |-> i.ins, outs |-> i.outs]

\* One model step: not the pipeline itself, ready, and not an ensemble.
ModelStepAllowed(n, m) == m # n /\ Ready(m) /\ model[m].platform # "ensemble"

\* The next step is resolved against the registry as it is now.
Resolve(l) ==
    LET b == loader[l]
        i == Len(b.steps) + 1
        s == b.graph[i]
        j == Neighbour(b.graph, i)
        proceed(interface) == [b EXCEPT !.steps = Append(@, Resolved(s, interface))]
    IN
    /\ b.pc = "resolve" /\ i <= Len(b.graph)
    /\ \/ /\ s.kind = "model"
          /\ loader' = [loader EXCEPT ![l] =
                 IF ModelStepAllowed(b.name, s.model) THEN proceed(model[s.model]) ELSE NoLoad]
       \/ /\ s.kind # "model"
          /\ loader' = [loader EXCEPT ![l] =
                 IF j # 0 /\ Ready(b.graph[j].model)
                 THEN proceed(Builtin(s.kind, model[b.graph[j].model])) ELSE NoLoad]
       \/ s.kind # "model" /\ loader' = [loader EXCEPT ![l] = NoLoad]  \* no such builtin
    /\ UNCHANGED <<model, request, loads>>

\* Every step is resolved and the names fit together: the registry swaps it in, with
\* no second look at the models.
Publish(l) ==
    LET b == loader[l]
    IN
    /\ b.pc = "resolve" /\ Len(b.steps) = Len(b.graph)
    /\ model' = IF ConsumesProduced(b.steps) THEN [model EXCEPT ![b.name] = Ensemble(b.steps)]
                ELSE model
    /\ loader' = [loader EXCEPT ![l] = NoLoad]
    /\ UNCHANGED <<request, loads>>

-----------------------------------------------------------------------------
(* PipelineExecutor::infer.                                                *)

\* A tensor that is no longer in the map.
Gone == [step |-> 0, name |-> "none", of |-> <<>>]
Tensor(i, name, of) == [step |-> i, name |-> name, of |-> of]

NoRequest == [pc |-> "idle"]

\* Mutant of Moves: a tensor this step reads once more is moved.
MovesTooEarly(steps, i, k) ==
    LET t == Reads(steps[i])[k]
    IN /\ t \notin Range(MetadataOutputs(steps))
       /\ \A j \in DOMAIN steps : t \in Range(Reads(steps[j])) => j <= i

\* The k-th input of step i is moved out of the map: no later step reads it
\* (last_use_), it is no output, and no later input of this step reads it.
Moves(steps, i, k) ==
    LET t == Reads(steps[i])[k]
    IN /\ t \notin Range(MetadataOutputs(steps))
       /\ \A j \in DOMAIN steps : t \in Range(Reads(steps[j])) => j <= i
       /\ \A h \in DOMAIN steps[i].ins : h > k => Reads(steps[i])[h] # t

\* The names a request can carry that matter to a graph: what a step reads or the
\* response collects.
GraphNames(steps) ==
    UNION {Range(Reads(steps[i])) : i \in DOMAIN steps} \cup Range(MetadataOutputs(steps))

\* Over HTTP a request carries the inputs of the metadata, over gRPC (GrpcServer.cpp:
\* 100-127) whatever the client names: nothing compares it with the metadata.  `short`
\* remembers that an input is not there.  The executor belongs to the snapshot the request
\* found, whatever happens to the name.
BeginInfer(n) ==
    /\ request.pc = "idle" /\ Ready(n) /\ model[n].platform = "ensemble"
    /\ \E names \in SUBSET GraphNames(model[n].steps) :
         LET inputs == [t \in names |-> Tensor(0, t, <<>>)]
         IN request' = [pc |-> "run", steps |-> model[n].steps, index |-> 1, drifted |-> FALSE,
                        short |-> ~(Range(model[n].ins) \subseteq names),
                        values |-> inputs, copies |-> inputs]
    /\ UNCHANGED <<model, loader, loads>>

Finish(outcome, outputs) ==
    request' = [pc |-> outcome, drifted |-> request.drifted, short |-> request.short,
                outputs |-> outputs, expected |-> Restrict(request.copies, DOMAIN outputs)]

\* Does the k-th lookup of the step find its tensor, after the moves before it?
Finds(r, k) ==
    LET t == Reads(r.steps[r.index])
    IN /\ t[k] \in DOMAIN r.values
       /\ \A j \in 1 .. k - 1 : Moves(r.steps, r.index, j) => t[j] # t[k]

\* The map after a step that produced `outs` from the tensors it was fed.
AfterStep(map, moved, s, i, outs, fed) ==
    LET kept == Restrict(map, DOMAIN map \ moved)
        new == Range(Writes(s, outs))
        last(t) == Max({k \in DOMAIN outs : Writes(s, outs)[k] = t})
    IN [t \in DOMAIN kept \cup new |-> IF t \in new THEN Tensor(i, outs[last(t)], fed) ELSE kept[t]]

\* One step.  A builtin fails or runs; a model is looked up again, may be gone, may fail
\* the request, and answers under the names it declares now.
RunStep ==
    LET r == request
        s == r.steps[r.index]
        reads == Reads(s)
        moved == {reads[k] : k \in {h \in DOMAIN reads : Moves(r.steps, r.index, h)}}
        fed == [k \in DOMAIN reads |-> r.values[reads[k]]]
        reference == [k \in DOMAIN reads |-> IF reads[k] \in DOMAIN r.copies
                                             THEN r.copies[reads[k]] ELSE Gone]
        proceed(outs) ==
            request' = [r EXCEPT !.index = @ + 1, !.drifted = @ \/ outs # s.outs,
                                 !.values = AfterStep(@, moved, s, r.index, outs, fed),
                                 !.copies = AfterStep(@, {}, s, r.index, outs, reference)]
    IN
    /\ r.pc = "run" /\ r.index <= Len(r.steps)
    /\ \/ (\E k \in DOMAIN reads : ~Finds(r, k)) /\ Finish("missing", <<>>)
       \/ /\ \A k \in DOMAIN reads : Finds(r, k)
          /\ \/ s.kind # "model" /\ (proceed(s.outs) \/ Finish("invalid", <<>>))
             \/ s.kind = "model" /\ ~Ready(s.model) /\ Finish("notReady", <<>>)
             \/ s.kind = "model" /\ Ready(s.model) /\ (proceed(model[s.model].outs) \/ Finish("failed", <<>>))
    /\ UNCHANGED <<model, loader, loads>>

\* The outputs of the metadata are collected.
Respond ==
    LET r == request
        outs == Range(MetadataOutputs(r.steps))
    IN
    /\ r.pc = "run" /\ r.index > Len(r.steps)
    /\ IF outs \subseteq DOMAIN r.values THEN Finish("response", Restrict(r.values, outs))
       ELSE Finish("noTensor", <<>>)
    /\ UNCHANGED <<model, loader, loads>>

-----------------------------------------------------------------------------
Init ==
    /\ model = [n \in Names |-> Absent]
    /\ loader = [l \in Loaders |-> NoLoad]
    /\ request = NoRequest
    /\ loads = 0

Next ==
    \/ \E n \in Names : LoadPlain(n) \/ Unload(n) \/ BeginInfer(n)
    \/ \E l \in Loaders : \/ \E n \in Names : \E g \in Graphs[n] : BeginLoad(l, n, g)
                          \/ Resolve(l) \/ Publish(l)
    \/ RunStep \/ Respond

Spec == Init /\ [][Next]_vars

-----------------------------------------------------------------------------
(* Properties.                                                             *)

\* An ensemble gives the tensors it would give if every step were fed copies: moving a
\* tensor out of the graph's map at its last use never takes it from a later reader, be
\* it a step, a second input of the same step, or the response, and never leaves an
\* older tensor of the name in place of a newer one.
MovesLikeCopies ==
    /\ request.pc = "response" => request.outputs = request.expected
    /\ request.pc = "run" /\ request.index <= Len(request.steps) =>
         LET reads == Reads(request.steps[request.index])
         IN \A k \in DOMAIN reads : reads[k] \in DOMAIN request.copies => Finds(request, k)

\* A graph that was accepted when the ensemble was loaded fails for a missing tensor
\* only if a model answered with other outputs than it had declared then, or if the
\* request came without an input the ensemble declares.  Nothing but the lookups of the
\* first step stands between such a request and the models, and it ends there: no
\* model is run, no builtin refuses it, and it gets no response, though it may bring
\* a tensor under the name of any later one.
AcceptedGraphRuns ==
    /\ request.pc \in {"missing", "noTensor"} => request.drifted \/ request.short
    /\ request.pc \notin {"idle", "missing"} /\ request.short => request.pc = "run" /\ request.index = 1

References(n) ==
    IF Ready(n) /\ model[n].platform = "ensemble"
    THEN {s.model : s \in {t \in Range(model[n].steps) : t.kind = "model"}} ELSE {}

\* src/src/PipelineExecutor.cpp:343 "A pipeline that references itself -- directly, or
\* by naming another ensemble -- would recurse into itself at request time": both are
\* "rejected here, before the step is ever scheduled", so no ensemble can come back to
\* itself through the models it names.
NoRequestLoop ==
    \A loop \in SUBSET Names : loop # {} => \E n \in loop : References(n) \cap loop = {}

=============================================================================
