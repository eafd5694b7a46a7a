----------------------- MODULE PipelineExecutorProofs -----------------------
(***************************************************************************)
(* Theorems about the ensembles of src/src/PipelineExecutor.cpp: for every *)
(* set of models, interfaces and graphs and any number of loaders, moving  *)
(* tensors out of the map of a request is as good as copying them, and an  *)
(* accepted graph runs unless a model has changed its outputs or the       *)
(* request came short of an input.                                         *)
(***************************************************************************)
EXTENDS PipelineExecutor, InductionLemmas

-----------------------------------------------------------------------------
(* The inductive invariant.                                                *)

\* What a model, or a step that was resolved, says of its tensors.
Interface(m) == IsSequence(m.ins) /\ IsSequence(m.outs)

Steps(steps) == IsSequence(steps) /\ \A i \in DOMAIN steps : Interface(steps[i])

\* A graph as the loader accepts it.
Accepted(steps) == Steps(steps) /\ Len(steps) > 0 /\ ConsumesProduced(steps)

\* What is published under a name as an ensemble was accepted.
ModelsInv ==
    /\ DOMAIN model = Names
    /\ \A n \in Names : Ready(n) =>
         /\ Interface(model[n])
         /\ model[n].platform = "ensemble" =>
              model[n].ins = MetadataInputs(model[n].steps) /\ Accepted(model[n].steps)

\* A loader has resolved the first steps of a graph.
LoadersInv ==
    /\ DOMAIN loader = Loaders
    /\ \A l \in Loaders : loader[l].pc = "resolve" =>
         /\ loader[l] = [pc |-> "resolve", name |-> loader[l].name,
                         graph |-> loader[l].graph, steps |-> loader[l].steps]
         /\ loader[l].name \in Names /\ loader[l].graph \in Graphs[loader[l].name]
         /\ Steps(loader[l].steps)

\* A request that runs is at a step of an accepted graph, or behind the last.
RunInv ==
    request.pc = "run" =>
        /\ request = [pc |-> "run", steps |-> request.steps, index |-> request.index,
                      drifted |-> request.drifted, short |-> request.short,
                      values |-> request.values, copies |-> request.copies]
        /\ Accepted(request.steps)
        /\ request.index \in 1 .. Len(request.steps) + 1
        /\ request.drifted \in BOOLEAN /\ request.short \in BOOLEAN

\* Somebody is still going to read t: a step from the i-th on, or the response.
Live(steps, i, t) ==
    \/ t \in Range(MetadataOutputs(steps))
    \/ \E j \in DOMAIN steps : j >= i /\ t \in Range(Reads(steps[j]))

\* What is still going to be read has not been moved out of the map.
ValuesInv ==
    request.pc = "run" =>
        /\ DOMAIN request.values \subseteq DOMAIN request.copies
        /\ \A t \in DOMAIN request.copies : Live(request.steps, request.index, t) =>
             t \in DOMAIN request.values /\ request.values[t] = request.copies[t]

\* The names that are there before the i-th step when the request brought its inputs and
\* every model answers as it declared.
Produced(steps, i) ==
    Range(MetadataInputs(steps)) \cup UNION {Range(Writes(steps[j], steps[j].outs)) : j \in 1 .. i - 1}

ProducedInv ==
    request.pc = "run" /\ ~request.drifted /\ ~request.short =>
        Produced(request.steps, request.index) \subseteq DOMAIN request.copies

\* A request that lacks an input is at the first step, which reads that input.
ShortInv ==
    request.pc = "run" /\ request.short =>
        /\ request.index = 1
        /\ ~(Range(Reads(request.steps[1])) \subseteq DOMAIN request.values)

\* What a request that has ended leaves.
EndedInv ==
    /\ request.pc = "response" => request.outputs = request.expected
    /\ AcceptedGraphRuns

RequestInv == RunInv /\ ValuesInv /\ ProducedInv /\ ShortInv /\ EndedInv

PipelineInv == ModelsInv /\ LoadersInv /\ RequestInv

-----------------------------------------------------------------------------
(* Sequences.                                                              *)

LEMMA SequenceDomain ==
    ASSUME NEW s, IsSequence(s)
    PROVE  Len(s) \in Nat /\ DOMAIN s = 1 .. Len(s)
  BY DEF IsSequence

LEMMA AppendIsSequence ==
    ASSUME NEW s, IsSequence(s), NEW e
    PROVE  /\ IsSequence(Append(s, e))
           /\ DOMAIN Append(s, e) = 1 .. Len(s) + 1 /\ Len(s) \in Nat
           /\ \A k \in DOMAIN Append(s, e) : Append(s, e)[k] = IF k <= Len(s) THEN s[k] ELSE e
  <1> DEFINE S == Range(s) \cup {e}
             a == Append(s, e)
  <1>1. s \in Seq(S) /\ e \in S
    BY DEF IsSequence
  <1>2. /\ a \in Seq(S)
        /\ DOMAIN a = 1 .. Len(s) + 1 /\ Len(s) \in Nat
        /\ \A k \in DOMAIN a : a[k] = IF k <= Len(s) THEN s[k] ELSE e
    <2> HIDE DEF S
    <2> QED
      BY <1>1
  <1>3. Len(a) \in Nat /\ DOMAIN a = 1 .. Len(a) /\ a = [k \in 1 .. Len(a) |-> a[k]]
    <2> HIDE DEF S, a
    <2> QED
      BY <1>2
  <1>4. \A k \in DOMAIN a : a[k] \in Range(a)
    BY DEF Range
  <1> HIDE DEF a
  <1>5. a \in Seq(Range(a))
    BY <1>3, <1>4
  <1> QED
    BY <1>2, <1>5 DEF a, IsSequence

LEMMA MapIsSequence ==
    ASSUME NEW s, IsSequence(s), NEW f, f = [k \in DOMAIN s |-> f[k]]
    PROVE  IsSequence(f)
  <1>1. DOMAIN s = 1 .. Len(s) /\ Len(s) \in Nat
    BY SequenceDomain
  <1>2. \A k \in DOMAIN s : f[k] \in Range(f)
    BY DEF Range
  <1>3. f \in Seq(Range(f))
    BY <1>1, <1>2
  <1> QED
    BY <1>3 DEF IsSequence

-----------------------------------------------------------------------------
(* The model's operators.                                                  *)

LEMMA ReadsIsSequence ==
    ASSUME NEW s, IsSequence(s.ins)
    PROVE  IsSequence(Reads(s)) /\ DOMAIN Reads(s) = DOMAIN s.ins
  <1> DEFINE f == Reads(s)
  <1>1. f = [k \in DOMAIN s.ins |-> f[k]] /\ DOMAIN f = DOMAIN s.ins
    BY DEF Reads
  <1> HIDE DEF f
  <1>2. IsSequence(f)
    BY <1>1, MapIsSequence
  <1> QED
    BY <1>1, <1>2 DEF f

LEMMA WritesIsSequence ==
    ASSUME NEW s, NEW outs, IsSequence(outs)
    PROVE  IsSequence(Writes(s, outs))
  <1> DEFINE f == Writes(s, outs)
  <1>1. f = [k \in DOMAIN outs |-> f[k]]
    BY DEF Writes
  <1> HIDE DEF f
  <1>2. IsSequence(f)
    BY <1>1, MapIsSequence
  <1> QED
    BY <1>2 DEF f

\* The neighbour of a builtin step is a model step of the graph.
LEMMA NeighbourIsModel ==
    ASSUME NEW g, IsSequence(g), NEW i, Neighbour(g, i) # 0
    PROVE  Neighbour(g, i) \in DOMAIN g /\ g[Neighbour(g, i)].kind = "model"
  <1> DEFINE models == {j \in DOMAIN g : g[j].kind = "model"
                                         /\ IF g[i].kind = "preprocess" THEN j > i ELSE j < i}
  <1>1. Len(g) \in Nat /\ DOMAIN g = 1 .. Len(g)
    BY SequenceDomain
  <1>2. models # {} /\ Neighbour(g, i) \in {Min(models), Max(models)}
    BY DEF Neighbour
  <1>3. models \subseteq 1 .. Len(g) /\ models \subseteq Nat
    BY <1>1
  <1>4. \A j \in models : j \in DOMAIN g /\ g[j].kind = "model"
    OBVIOUS
  <1> HIDE DEF models
  <1>5. Min(models) \in models /\ Max(models) \in models
    BY <1>1, <1>2, <1>3, MinIsMember, MaxIsMember
  <1> QED
    BY <1>2, <1>4, <1>5

\* What a step writes does not depend on the map it is written to.
LEMMA AfterStepNew ==
    ASSUME NEW map1, NEW map2, NEW moved1, NEW moved2, NEW s, NEW i, NEW outs, NEW fed,
           NEW t \in Range(Writes(s, outs))
    PROVE  AfterStep(map1, moved1, s, i, outs, fed)[t] = AfterStep(map2, moved2, s, i, outs, fed)[t]
  BY DEF AfterStep, Restrict

\* A step finds what it is going to read.
LEMMA LiveIsFound ==
    ASSUME RunInv, ValuesInv, request.pc = "run", request.index <= Len(request.steps),
           NEW k \in DOMAIN Reads(request.steps[request.index]),
           Reads(request.steps[request.index])[k] \in DOMAIN request.copies
    PROVE  Finds(request, k)
  <1> DEFINE i == request.index
             steps == request.steps
             reads == Reads(steps[i])
  <1>1. i \in DOMAIN steps /\ i \in Nat /\ IsSequence(steps[i].ins)
    BY SequenceDomain DEF RunInv, Accepted, Steps, Interface
  <1>2. IsSequence(reads) /\ DOMAIN reads = DOMAIN steps[i].ins
    BY <1>1, ReadsIsSequence
  <1>3. k \in Nat /\ \A j \in 1 .. k - 1 : j \in DOMAIN steps[i].ins /\ j \in Nat
    BY <1>2, SequenceDomain
  <1>4. reads[k] \in Range(reads)
    BY DEF Range
  <1>5. Live(steps, i, reads[k])
    <2> HIDE DEF reads
    <2> QED
      BY <1>1, <1>4 DEF Live, reads
  <1>6. reads[k] \in DOMAIN request.values
    BY <1>5 DEF ValuesInv
  <1>7. ASSUME NEW j \in 1 .. k - 1, Moves(steps, i, j)
        PROVE  reads[j] # reads[k]
    BY <1>2, <1>3, <1>7 DEF Moves
  <1> QED
    BY <1>6, <1>7 DEF Finds

-----------------------------------------------------------------------------
(* Models and loaders.                                                     *)

\* What a loader finds under a name it may use is an interface.
LEMMA ReadyIsInterface ==
    ASSUME ModelsInv, NEW n \in Names, Ready(n)
    PROVE  Interface(model[n])
  BY DEF ModelsInv

LEMMA BuiltinIsInterface ==
    ASSUME NEW kind, NEW m, Interface(m)
    PROVE  Interface(Builtin(kind, m))
  <1>1. IsSequence(<<IMAGE>>) /\ IsSequence(Envelope)
    <2>1. ASSUME NEW e PROVE IsSequence(<<e>>)
      <3>1. Range(<<e>>) = {e}
        BY DEF Range
      <3> QED
        BY <3>1 DEF IsSequence
    <2> QED
      BY <2>1 DEF Envelope
  <1>2. IsSequence(Append(m.ins, FRAME_SIZE)) /\ IsSequence(Append(m.outs, FRAME_SIZE))
    BY AppendIsSequence DEF Interface
  <1> QED
    BY <1>1, <1>2 DEF Builtin, Interface

\* One more step of a graph is resolved.
LEMMA StepsGrow ==
    ASSUME NEW steps, Steps(steps), NEW s, NEW m, Interface(m)
    PROVE  Steps(Append(steps, Resolved(s, m)))
  <1> DEFINE e == Resolved(s, m)
  <1>1. Interface(e)
    BY DEF Resolved, Interface
  <1> HIDE DEF e
  <1>2. ASSUME NEW k \in DOMAIN Append(steps, e)
        PROVE  Interface(Append(steps, e)[k])
    <2>1. /\ Append(steps, e)[k] = IF k <= Len(steps) THEN steps[k] ELSE e
          /\ k \in 1 .. Len(steps) + 1 /\ Len(steps) \in Nat /\ DOMAIN steps = 1 .. Len(steps)
      BY AppendIsSequence, SequenceDomain DEF Steps
    <2> QED
      BY <1>1, <2>1 DEF Steps
  <1> QED
    BY <1>2, AppendIsSequence DEF Steps, e

\* The metadata of an ensemble is an interface, too.
LEMMA EnsembleIsInterface ==
    ASSUME NEW steps, Steps(steps), Len(steps) > 0
    PROVE  Interface(Ensemble(steps))
  <1>1. 1 \in DOMAIN steps /\ Len(steps) \in DOMAIN steps
    BY SequenceDomain DEF Steps
  <1>2. IsSequence(MetadataInputs(steps))
    BY <1>1, ReadsIsSequence DEF MetadataInputs, Steps, Interface
  <1>3. IsSequence(MetadataOutputs(steps))
    BY <1>1, WritesIsSequence DEF MetadataOutputs, Steps, Interface
  <1> QED
    BY <1>2, <1>3 DEF Ensemble, Interface

LEMMA LoadPlainInv ==
    ASSUME ModelsInv, LoadersInv, NEW n \in Names, LoadPlain(n)
    PROVE  ModelsInv' /\ LoadersInv'
  <1>1. PICK i \in Interfaces[n] : model' = [model EXCEPT ![n] = Plain(i)]
    BY DEF LoadPlain
  <1>2. IsSequence(i.ins) /\ IsSequence(i.outs)
    BY PipelineAssumption
  <1>3. Interface(Plain(i)) /\ Plain(i).platform = "plain"
    BY <1>2 DEF Plain, Interface
  <1>4. DOMAIN model' = Names /\ model'[n] = Plain(i) /\ \A o \in Names \ {n} : model'[o] = model[o]
    BY <1>1 DEF ModelsInv
  <1>5. ModelsInv'
    BY <1>3, <1>4 DEF ModelsInv, Ready
  <1> QED
    BY <1>5 DEF LoadPlain, LoadersInv

LEMMA UnloadInv ==
    ASSUME ModelsInv, LoadersInv, NEW n \in Names, Unload(n)
    PROVE  ModelsInv' /\ LoadersInv'
  <1>1. DOMAIN model' = Names /\ model'[n] = Absent /\ \A o \in Names \ {n} : model'[o] = model[o]
    BY DEF ModelsInv, Unload
  <1>2. ModelsInv'
    BY <1>1 DEF ModelsInv, Ready
  <1> QED
    BY <1>2 DEF Unload, LoadersInv

LEMMA BeginLoadInv ==
    ASSUME ModelsInv, LoadersInv, NEW l \in Loaders, NEW n \in Names, NEW g \in Graphs[n],
           BeginLoad(l, n, g)
    PROVE  ModelsInv' /\ LoadersInv'
  <1>1. /\ DOMAIN loader' = Loaders
        /\ \A k \in Loaders \ {l} : loader'[k] = loader[k]
        /\ \/ loader'[l] = NoLoad
           \/ loader'[l] = [pc |-> "resolve", name |-> n, graph |-> g, steps |-> <<>>]
    BY DEF BeginLoad, LoadersInv
  <1>2. Steps(<<>>)
    BY DEF Steps, IsSequence, Range
  <1>3. LoadersInv'
    BY <1>1, <1>2 DEF LoadersInv, NoLoad
  <1> QED
    BY <1>3 DEF BeginLoad, ModelsInv, Ready

LEMMA ResolveInv ==
    ASSUME ModelsInv, LoadersInv, NEW l \in Loaders, Resolve(l)
    PROVE  ModelsInv' /\ LoadersInv'
  <1> DEFINE b == loader[l]
             i == Len(b.steps) + 1
             s == b.graph[i]
             j == Neighbour(b.graph, i)
  <1>1. /\ b = [pc |-> "resolve", name |-> b.name, graph |-> b.graph, steps |-> b.steps]
        /\ b.name \in Names /\ b.graph \in Graphs[b.name] /\ Steps(b.steps)
    BY DEF LoadersInv, Resolve
  <1>2. /\ IsSequence(b.graph) /\ i \in DOMAIN b.graph
        /\ \A k \in DOMAIN b.graph : b.graph[k].kind = "model" => b.graph[k].model \in Names
    <2>1. IsSequence(b.graph) /\ i <= Len(b.graph) /\ IsSequence(b.steps)
      BY <1>1, PipelineAssumption DEF Resolve, Steps
    <2> QED
      BY <1>1, <2>1, PipelineAssumption, SequenceDomain
  <1>3. \/ loader' = [loader EXCEPT ![l] = NoLoad]
        \/ \E m : Interface(m) /\ loader' = [loader EXCEPT ![l] =
                                    [b EXCEPT !.steps = Append(@, Resolved(s, m))]]
    <2>1. CASE s.kind = "model" /\ ModelStepAllowed(b.name, s.model)
      <3>1. Interface(model[s.model])
        BY <2>1, <1>2, ReadyIsInterface DEF ModelStepAllowed
      <3> QED
        BY <2>1, <3>1 DEF Resolve
    <2>2. CASE s.kind # "model" /\ j # 0 /\ Ready(b.graph[j].model)
      <3>1. Interface(Builtin(s.kind, model[b.graph[j].model]))
        <4>1. b.graph[j].model \in Names
          BY <2>2, <1>2, NeighbourIsModel
        <4> QED
          BY <2>2, <4>1, ReadyIsInterface, BuiltinIsInterface
      <3> QED
        BY <2>2, <3>1 DEF Resolve
    <2> QED
      BY <2>1, <2>2 DEF Resolve
  <1>4. /\ DOMAIN loader' = Loaders
        /\ \A k \in Loaders \ {l} : loader'[k] = loader[k]
        /\ \/ loader'[l] = NoLoad
           \/ \E m : Interface(m) /\ loader'[l] = [b EXCEPT !.steps = Append(@, Resolved(s, m))]
    BY <1>3 DEF LoadersInv
  <1>5. ASSUME NEW m, Interface(m), loader'[l] = [b EXCEPT !.steps = Append(@, Resolved(s, m))]
        PROVE  /\ loader'[l] = [pc |-> "resolve", name |-> b.name, graph |-> b.graph,
                                steps |-> Append(b.steps, Resolved(s, m))]
               /\ Steps(Append(b.steps, Resolved(s, m)))
    BY <1>1, <1>5, StepsGrow
  <1>6. \/ loader'[l] = NoLoad
        \/ \E steps : /\ loader'[l] = [pc |-> "resolve", name |-> b.name, graph |-> b.graph,
                                       steps |-> steps]
                      /\ Steps(steps)
    BY <1>4, <1>5
  <1>7. LoadersInv'
    <2>1. CASE loader'[l] = NoLoad
      BY <2>1, <1>4 DEF LoadersInv, NoLoad
    <2>2. ASSUME NEW steps, Steps(steps),
                 loader'[l] = [pc |-> "resolve", name |-> b.name, graph |-> b.graph, steps |-> steps]
          PROVE  LoadersInv'
      <3>1. /\ loader'[l].name = b.name /\ loader'[l].graph = b.graph /\ loader'[l].steps = steps
            /\ loader'[l] = [pc |-> "resolve", name |-> loader'[l].name,
                             graph |-> loader'[l].graph, steps |-> loader'[l].steps]
        BY <2>2
      <3> QED
        BY <3>1, <2>2, <1>1, <1>4 DEF LoadersInv
    <2> QED
      BY <2>1, <2>2, <1>6
  <1> QED
    BY <1>7 DEF Resolve, ModelsInv, Ready

LEMMA PublishInv ==
    ASSUME ModelsInv, LoadersInv, NEW l \in Loaders, Publish(l)
    PROVE  ModelsInv' /\ LoadersInv'
  <1> DEFINE b == loader[l]
  <1>1. b.name \in Names /\ b.graph \in Graphs[b.name] /\ Steps(b.steps)
    BY DEF LoadersInv, Publish
  <1>2. Len(b.steps) > 0
    BY <1>1, PipelineAssumption DEF Publish
  <1>3. ASSUME ConsumesProduced(b.steps) PROVE ModelsInv'
    <2>1. /\ DOMAIN model' = Names /\ model'[b.name] = Ensemble(b.steps)
          /\ \A n \in Names \ {b.name} : model'[n] = model[n]
      BY <1>1, <1>3 DEF Publish, ModelsInv
    <2>2. Interface(Ensemble(b.steps)) /\ Accepted(b.steps)
      BY <1>1, <1>2, <1>3, EnsembleIsInterface DEF Accepted
    <2>3. /\ Ensemble(b.steps).steps = b.steps
          /\ Ensemble(b.steps).ins = MetadataInputs(b.steps)
      BY DEF Ensemble
    <2>4. ASSUME NEW n \in Names, Ready(n)'
          PROVE  /\ Interface(model'[n])
                 /\ model'[n].platform = "ensemble" =>
                      model'[n].ins = MetadataInputs(model'[n].steps) /\ Accepted(model'[n].steps)
      <3>1. CASE n = b.name
        BY <3>1, <2>1, <2>2, <2>3
      <3>2. CASE n # b.name
        BY <3>2, <2>1, <2>4 DEF ModelsInv, Ready
      <3> QED
        BY <3>1, <3>2
    <2> QED
      BY <2>1, <2>4 DEF ModelsInv, Ready
  <1>4. ASSUME ~ConsumesProduced(b.steps) PROVE ModelsInv'
    <2>1. model' = model
      BY <1>4 DEF Publish
    <2> QED
      BY <2>1 DEF ModelsInv, Ready
  <1>5. /\ DOMAIN loader' = Loaders /\ loader'[l] = NoLoad
        /\ \A k \in Loaders \ {l} : loader'[k] = loader[k]
    BY DEF Publish, LoadersInv
  <1>6. LoadersInv'
    BY <1>5 DEF LoadersInv, NoLoad
  <1> QED
    BY <1>3, <1>4, <1>6

-----------------------------------------------------------------------------
(* Requests.                                                               *)

\* A step that leaves the request alone.
LEMMA RequestFrame ==
    ASSUME RequestInv, UNCHANGED request
    PROVE  RequestInv'
  BY DEF RequestInv, RunInv, ValuesInv, ProducedInv, ShortInv, EndedInv, AcceptedGraphRuns

\* A request has the inputs its graph begins with, or is short of one.
LEMMA BeginInferInv ==
    ASSUME ModelsInv, RequestInv, NEW n \in Names, BeginInfer(n)
    PROVE  RequestInv'
  <1> DEFINE steps == model[n].steps
  <1>1. PICK names \in SUBSET GraphNames(steps) :
          request' = [pc |-> "run", steps |-> steps, index |-> 1, drifted |-> FALSE,
                      short |-> ~(Range(model[n].ins) \subseteq names),
                      values |-> [t \in names |-> Tensor(0, t, <<>>)],
                      copies |-> [t \in names |-> Tensor(0, t, <<>>)]]
    BY DEF BeginInfer
  <1> DEFINE inputs == [t \in names |-> Tensor(0, t, <<>>)]
             short == ~(Range(model[n].ins) \subseteq names)
  <1>2. /\ model[n].ins = MetadataInputs(steps) /\ Accepted(steps)
        /\ DOMAIN inputs = names /\ short \in BOOLEAN
    BY DEF BeginInfer, ModelsInv
  <1>3. short <=> ~(Range(MetadataInputs(steps)) \subseteq DOMAIN inputs)
    BY <1>2
  <1> HIDE DEF steps, inputs, short
  <1>4. request' = [pc |-> "run", steps |-> steps, index |-> 1, drifted |-> FALSE,
                    short |-> short, values |-> inputs, copies |-> inputs]
    BY <1>1 DEF inputs, short
  <1>5. /\ request'.pc = "run" /\ request'.steps = steps /\ request'.index = 1
        /\ request'.drifted = FALSE /\ request'.short = short
        /\ request'.values = inputs /\ request'.copies = inputs
    BY <1>4
  <1>6. 1 \in 1 .. Len(steps) + 1
    BY <1>2, SequenceDomain DEF Accepted, Steps
  <1>7. RunInv'
    BY <1>2, <1>4, <1>5, <1>6 DEF RunInv
  <1>8. ValuesInv'
    BY <1>5 DEF ValuesInv
  <1>9. Produced(steps, 1) = Range(MetadataInputs(steps))
    BY DEF Produced
  <1>10. ProducedInv'
    BY <1>3, <1>5, <1>9 DEF ProducedInv
  <1>11. ShortInv'
    BY <1>3, <1>5 DEF ShortInv, MetadataInputs
  <1>12. EndedInv'
    BY <1>5 DEF EndedInv, AcceptedGraphRuns
  <1> QED
    BY <1>7, <1>8, <1>10, <1>11, <1>12 DEF RequestInv

\* A request ends without a response; a tensor was missing only if a model drifted or
\* the request came short of an input, and such a request ends nowhere else.
LEMMA FinishInv ==
    ASSUME RequestInv, NEW outcome \in {"missing", "invalid", "notReady", "failed", "noTensor"},
           Finish(outcome, <<>>),
           outcome \in {"missing", "noTensor"} => request.drifted \/ request.short,
           outcome # "missing" => ~request.short
    PROVE  RequestInv'
  <1>1. /\ request'.pc = outcome /\ request'.drifted = request.drifted
        /\ request'.short = request.short
    BY DEF Finish
  <1> QED
    BY <1>1 DEF RequestInv, RunInv, ValuesInv, ProducedInv, ShortInv, EndedInv, AcceptedGraphRuns

\* A short request does not get past the lookups of a step.
LEMMA ShortIsStopped ==
    ASSUME RequestInv, request.pc = "run", request.index <= Len(request.steps),
           \A k \in DOMAIN Reads(request.steps[request.index]) : Finds(request, k)
    PROVE  ~request.short
  <1> DEFINE reads == Reads(request.steps[request.index])
  <1>1. \A k \in DOMAIN reads : reads[k] \in DOMAIN request.values
    BY DEF Finds
  <1>2. \A t \in Range(reads) : t \in DOMAIN request.values
    <2> HIDE DEF reads
    <2> QED
      BY <1>1 DEF Range
  <1> QED
    BY <1>2 DEF RequestInv, ShortInv

\* If the request came whole and every model answered as it declared, a step finds its
\* inputs.
LEMMA UndriftedFinds ==
    ASSUME RequestInv, request.pc = "run", request.index <= Len(request.steps), ~request.drifted,
           ~request.short,
           NEW k \in DOMAIN Reads(request.steps[request.index])
    PROVE  Finds(request, k)
  <1> DEFINE i == request.index
             steps == request.steps
             reads == Reads(steps[i])
  <1>1. i \in DOMAIN steps
    BY SequenceDomain DEF RequestInv, RunInv, Accepted, Steps
  <1>2. Range(reads) \subseteq Produced(steps, i)
    BY <1>1 DEF RequestInv, RunInv, Accepted, ConsumesProduced, Produced
  <1>3. reads[k] \in Range(reads)
    BY DEF Range
  <1>4. reads[k] \in DOMAIN request.copies
    BY <1>2, <1>3 DEF RequestInv, ProducedInv
  <1> QED
    BY <1>4, LiveIsFound DEF RequestInv

\* What RunStep does when the step at the index runs and answers with outs.
Proceeds(outs, moved, fed, reference) ==
    LET r == request
        s == r.steps[r.index]
        reads == Reads(s)
    IN
    /\ r.pc = "run" /\ r.index <= Len(r.steps)
    /\ \A k \in DOMAIN reads : Finds(r, k)
    /\ moved = {reads[k] : k \in {h \in DOMAIN reads : Moves(r.steps, r.index, h)}}
    /\ fed = [k \in DOMAIN reads |-> r.values[reads[k]]]
    /\ reference = [k \in DOMAIN reads |-> IF reads[k] \in DOMAIN r.copies
                                           THEN r.copies[reads[k]] ELSE Gone]
    /\ request' = [r EXCEPT !.index = @ + 1, !.drifted = @ \/ outs # s.outs,
                            !.values = AfterStep(@, moved, s, r.index, outs, fed),
                            !.copies = AfterStep(@, {}, s, r.index, outs, reference)]

\* A step runs: the map with moves follows the one with copies.
LEMMA ProceedInv ==
    ASSUME RequestInv, NEW outs, NEW moved, NEW fed, NEW reference,
           Proceeds(outs, moved, fed, reference)
    PROVE  RequestInv'
  <1> DEFINE r == request
             i == request.index
             steps == request.steps
             s == steps[i]
             reads == Reads(s)
             new == Range(Writes(s, outs))
             values2 == AfterStep(r.values, moved, s, i, outs, fed)
             copies2 == AfterStep(r.copies, {}, s, i, outs, reference)
             drifted2 == r.drifted \/ outs # s.outs
  <1>0. ~r.short
    BY ShortIsStopped DEF Proceeds
  <1>1. /\ r = [pc |-> "run", steps |-> steps, index |-> i, drifted |-> r.drifted,
                short |-> r.short, values |-> r.values, copies |-> r.copies]
        /\ Accepted(steps) /\ i \in 1 .. Len(steps) /\ Len(steps) \in Nat
        /\ DOMAIN steps = 1 .. Len(steps)
    BY SequenceDomain DEF RequestInv, RunInv, Accepted, Steps, Proceeds
  <1>2. request' = [pc |-> "run", steps |-> steps, index |-> i + 1, drifted |-> drifted2,
                    short |-> r.short, values |-> values2, copies |-> copies2]
    BY <1>1 DEF Proceeds
  <1>3. /\ request'.pc = "run" /\ request'.steps = steps /\ request'.index = i + 1
        /\ request'.drifted = drifted2 /\ request'.short = r.short
        /\ request'.values = values2 /\ request'.copies = copies2
    BY <1>2
  <1>4. ASSUME NEW k \in DOMAIN reads
        PROVE  fed[k] = reference[k]
    <2>1. reads[k] \in DOMAIN r.values
      BY <1>4 DEF Finds, Proceeds
    <2>2. reads[k] \in Range(reads)
      BY DEF Range
    <2>3. Live(steps, i, reads[k])
      <3> HIDE DEF reads
      <3> QED
        BY <1>1, <2>2 DEF Live, reads
    <2>4. r.pc = "run" /\ fed[k] = r.values[reads[k]]
      BY DEF Proceeds
    <2>5. r.values[reads[k]] = r.copies[reads[k]] /\ reads[k] \in DOMAIN r.copies
      BY <2>1, <2>3, <2>4 DEF RequestInv, ValuesInv
    <2> QED
      BY <2>4, <2>5 DEF Proceeds
  <1>5. fed = reference
    BY <1>4 DEF Proceeds
  <1>6. /\ DOMAIN values2 = (DOMAIN r.values \ moved) \cup new
        /\ DOMAIN copies2 = DOMAIN r.copies \cup new
        /\ \A t \in DOMAIN values2 \ new : t \in DOMAIN r.values /\ values2[t] = r.values[t]
        /\ \A t \in DOMAIN copies2 \ new : t \in DOMAIN r.copies /\ copies2[t] = r.copies[t]
    <2>1. new = Range(Writes(s, outs)) /\ values2 = AfterStep(r.values, moved, s, i, outs, fed)
          /\ copies2 = AfterStep(r.copies, {}, s, i, outs, reference)
      OBVIOUS
    <2> HIDE DEF r, i, s, values2, copies2, new
    <2>2. /\ DOMAIN values2 = (DOMAIN r.values \ moved) \cup new
          /\ \A t \in DOMAIN values2 \ new :
               t \in DOMAIN r.values /\ t \notin moved /\ values2[t] = r.values[t]
      BY <2>1 DEF AfterStep, Restrict
    <2>3. /\ DOMAIN copies2 = (DOMAIN r.copies \ {}) \cup new
          /\ \A t \in DOMAIN copies2 \ new :
               t \in DOMAIN r.copies /\ t \notin {} /\ copies2[t] = r.copies[t]
      BY <2>1 DEF AfterStep, Restrict
    <2> QED
      BY <2>2, <2>3
  <1>7. \A t \in new : values2[t] = copies2[t]
    BY <1>5, AfterStepNew
  <1>8. ASSUME NEW t, Live(steps, i + 1, t)
        PROVE  Live(steps, i, t) /\ t \notin moved
    <2>1. Live(steps, i, t)
      BY <1>1, <1>8 DEF Live
    <2>2. ASSUME NEW k \in DOMAIN reads, Moves(steps, i, k) PROVE t # reads[k]
      <3>1. reads[k] \notin Range(MetadataOutputs(steps))
        BY <2>2 DEF Moves
      <3>2. \A j \in DOMAIN steps : reads[k] \in Range(Reads(steps[j])) => j <= i
        BY <2>2 DEF Moves
      <3> QED
        BY <1>1, <1>8, <3>1, <3>2 DEF Live
    <2> QED
      BY <2>1, <2>2 DEF Proceeds
  <1> HIDE DEF values2, copies2, new
  <1>9. RunInv'
    <2>1. drifted2 \in BOOLEAN /\ r.short \in BOOLEAN
      BY DEF RequestInv, RunInv, Proceeds
    <2> HIDE DEF drifted2
    <2> QED
      BY <1>1, <1>2, <1>3, <2>1 DEF RunInv
  <1>10. ValuesInv'
    <2>1. DOMAIN values2 \subseteq DOMAIN copies2
      BY <1>6 DEF RequestInv, ValuesInv, Proceeds
    <2>2. ASSUME NEW t \in DOMAIN copies2, Live(steps, i + 1, t)
          PROVE  t \in DOMAIN values2 /\ values2[t] = copies2[t]
      <3>1. CASE t \in new
        BY <3>1, <1>6, <1>7
      <3>2. CASE t \notin new
        <4>1. t \in DOMAIN r.copies /\ t \in DOMAIN r.values /\ r.values[t] = r.copies[t]
          BY <3>2, <1>6, <1>8, <2>2 DEF RequestInv, ValuesInv, Proceeds
        <4> QED
          BY <3>2, <4>1, <1>6, <1>8, <2>2
      <3> QED
        BY <3>1, <3>2
    <2> QED
      BY <2>1, <2>2, <1>3 DEF ValuesInv
  <1>11. ProducedInv'
    <2>1. ASSUME ~drifted2 PROVE Produced(steps, i + 1) \subseteq DOMAIN copies2
      <3>1. ~r.drifted /\ outs = s.outs
        BY <2>1
      <3>2. Produced(steps, i) \subseteq DOMAIN r.copies
        BY <3>1, <1>0 DEF RequestInv, ProducedInv, Proceeds
      <3>3. Produced(steps, i + 1) = Produced(steps, i) \cup new
        <4>1. 1 .. (i + 1) - 1 = (1 .. i - 1) \cup {i}
          BY <1>1
        <4> QED
          BY <4>1, <3>1 DEF Produced, new
      <3> QED
        BY <3>2, <3>3, <1>6
    <2> QED
      BY <2>1, <1>3 DEF ProducedInv
  <1>12. ShortInv'
    BY <1>0, <1>3 DEF ShortInv
  <1>13. EndedInv'
    BY <1>0, <1>3 DEF EndedInv, AcceptedGraphRuns
  <1> QED
    BY <1>9, <1>10, <1>11, <1>12, <1>13 DEF RequestInv

LEMMA RunStepInv ==
    ASSUME RequestInv, RunStep
    PROVE  RequestInv'
  <1> DEFINE r == request
             s == r.steps[r.index]
             reads == Reads(s)
             moved == {reads[k] : k \in {h \in DOMAIN reads : Moves(r.steps, r.index, h)}}
             fed == [k \in DOMAIN reads |-> r.values[reads[k]]]
             reference == [k \in DOMAIN reads |-> IF reads[k] \in DOMAIN r.copies
                                                  THEN r.copies[reads[k]] ELSE Gone]
  <1>1. r.pc = "run" /\ r.index <= Len(r.steps)
    BY DEF RunStep
  <1>2. CASE (\E k \in DOMAIN reads : ~Finds(r, k)) /\ Finish("missing", <<>>)
    <2>1. request.drifted \/ request.short
      BY <1>1, <1>2, UndriftedFinds
    <2> QED
      BY <1>2, <2>1, FinishInv
  <1>3. CASE /\ \A k \in DOMAIN reads : Finds(r, k)
             /\ Finish("invalid", <<>>) \/ Finish("notReady", <<>>) \/ Finish("failed", <<>>)
    <2>1. ~request.short
      BY <1>1, <1>3, ShortIsStopped
    <2> QED
      BY <1>3, <2>1, FinishInv
  <1>4. CASE \E outs : Proceeds(outs, moved, fed, reference)
    <2> HIDE DEF moved, fed, reference
    <2> QED
      BY <1>4, ProceedInv
  <1> QED
    BY <1>1, <1>2, <1>3, <1>4 DEF RunStep, Proceeds

LEMMA RespondInv ==
    ASSUME RequestInv, Respond
    PROVE  RequestInv'
  <1> DEFINE r == request
             steps == r.steps
             outs == Range(MetadataOutputs(steps))
  <1>1. /\ r.pc = "run" /\ r.index = Len(steps) + 1 /\ Len(steps) \in Nat /\ Len(steps) > 0
    BY SequenceDomain DEF Respond, RequestInv, RunInv, Accepted, Steps
  <1>2. \A t \in outs : Live(steps, r.index, t)
    BY DEF Live
  <1>0. ~r.short
    BY <1>1 DEF RequestInv, ShortInv
  <1>3. CASE outs \subseteq DOMAIN r.values
    <2>1. request' = [pc |-> "response", drifted |-> r.drifted, short |-> r.short,
                      outputs |-> Restrict(r.values, outs),
                      expected |-> Restrict(r.copies, DOMAIN Restrict(r.values, outs))]
      BY <1>3 DEF Respond, Finish
    <2>2. request'.pc = "response" /\ request'.short = r.short
      BY <2>1
    <2>3. DOMAIN Restrict(r.values, outs) = outs
      BY DEF Restrict
    <2>4. \A t \in outs : r.values[t] = r.copies[t]
      BY <1>1, <1>2, <1>3 DEF RequestInv, ValuesInv
    <2>5. Restrict(r.values, outs) = Restrict(r.copies, outs)
      BY <2>4 DEF Restrict
    <2>6. request'.outputs = request'.expected
      BY <2>1, <2>3, <2>5
    <2> QED
      BY <1>0, <2>2, <2>6 DEF RequestInv, RunInv, ValuesInv, ProducedInv, ShortInv, EndedInv,
                              AcceptedGraphRuns
  <1>4. CASE ~(outs \subseteq DOMAIN r.values)
    <2>1. Finish("noTensor", <<>>)
      BY <1>4 DEF Respond
    <2>2. ASSUME ~r.drifted PROVE FALSE
      <3>1. outs = Range(Writes(steps[Len(steps)], steps[Len(steps)].outs))
        BY DEF MetadataOutputs
      <3>2. Len(steps) \in 1 .. r.index - 1
        BY <1>1
      <3>3. outs \subseteq Produced(steps, r.index)
        BY <3>1, <3>2 DEF Produced
      <3>4. outs \subseteq DOMAIN r.copies
        BY <1>0, <1>1, <2>2, <3>3 DEF RequestInv, ProducedInv
      <3> QED
        BY <1>1, <1>2, <1>4, <3>4 DEF RequestInv, ValuesInv
    <2> QED
      BY <1>0, <2>1, <2>2, FinishInv
  <1> QED
    BY <1>3, <1>4

-----------------------------------------------------------------------------
(* The invariant holds, and what it is for.                                *)

LEMMA InitInv == Init => PipelineInv
  <1> SUFFICES ASSUME Init PROVE PipelineInv
    OBVIOUS
  <1>1. ModelsInv
    BY DEF Init, ModelsInv, Ready
  <1>2. LoadersInv
    BY DEF Init, LoadersInv, NoLoad
  <1>3. RequestInv
    BY DEF Init, NoRequest, RequestInv, RunInv, ValuesInv, ProducedInv, ShortInv, EndedInv,
       AcceptedGraphRuns
  <1> QED
    BY <1>1, <1>2, <1>3 DEF PipelineInv

LEMMA NextInv == PipelineInv /\ [Next]_vars => PipelineInv'
  <1> SUFFICES ASSUME PipelineInv, [Next]_vars PROVE PipelineInv'
    OBVIOUS
  <1> USE DEF PipelineInv
  <1>1. ASSUME NEW n \in Names, LoadPlain(n) PROVE PipelineInv'
    BY <1>1, LoadPlainInv, RequestFrame DEF LoadPlain
  <1>2. ASSUME NEW n \in Names, Unload(n) PROVE PipelineInv'
    BY <1>2, UnloadInv, RequestFrame DEF Unload
  <1>3. ASSUME NEW n \in Names, BeginInfer(n) PROVE PipelineInv'
    <2>1. ModelsInv' /\ LoadersInv'
      BY <1>3 DEF BeginInfer, ModelsInv, LoadersInv, Ready
    <2> QED
      BY <1>3, <2>1, BeginInferInv
  <1>4. ASSUME NEW l \in Loaders, NEW n \in Names, NEW g \in Graphs[n], BeginLoad(l, n, g)
        PROVE  PipelineInv'
    BY <1>4, BeginLoadInv, RequestFrame DEF BeginLoad
  <1>5. ASSUME NEW l \in Loaders, Resolve(l) PROVE PipelineInv'
    BY <1>5, ResolveInv, RequestFrame DEF Resolve
  <1>6. ASSUME NEW l \in Loaders, Publish(l) PROVE PipelineInv'
    BY <1>6, PublishInv, RequestFrame DEF Publish
  <1>7. ASSUME RunStep \/ Respond PROVE PipelineInv'
    <2>1. UNCHANGED <<model, loader>>
      BY <1>7 DEF RunStep, Respond
    <2>2. ModelsInv' /\ LoadersInv'
      BY <2>1 DEF ModelsInv, LoadersInv, Ready
    <2> QED
      BY <1>7, <2>2, RunStepInv, RespondInv
  <1>8. ASSUME UNCHANGED vars PROVE PipelineInv'
    <2>1. ModelsInv' /\ LoadersInv'
      BY <1>8 DEF ModelsInv, LoadersInv, Ready, vars
    <2> QED
      BY <1>8, <2>1, RequestFrame DEF vars
  <1> QED
    BY <1>1, <1>2, <1>3, <1>4, <1>5, <1>6, <1>7, <1>8 DEF Next

LEMMA InvariantHolds == Spec => []PipelineInv
  BY InitInv, NextInv, PTL DEF Spec

\* Whatever graph a model is served with and whatever is loaded, replaced and unloaded
\* meanwhile, PipelineExecutor::infer answers what it would answer if every step were
\* fed copies: no tensor is moved out of the map before its last reader has it.
THEOREM MovingIsCopying == Spec => []MovesLikeCopies
  <1>1. PipelineInv => MovesLikeCopies
    <2> SUFFICES ASSUME PipelineInv PROVE MovesLikeCopies
      OBVIOUS
    <2>1. request.pc = "response" => request.outputs = request.expected
      BY DEF PipelineInv, RequestInv, EndedInv
    <2>2. ASSUME request.pc = "run", request.index <= Len(request.steps),
                 NEW k \in DOMAIN Reads(request.steps[request.index]),
                 Reads(request.steps[request.index])[k] \in DOMAIN request.copies
          PROVE  Finds(request, k)
      BY <2>2, LiveIsFound DEF PipelineInv, RequestInv
    <2> QED
      BY <2>1, <2>2 DEF MovesLikeCopies
  <1> QED
    BY <1>1, InvariantHolds, PTL

\* PipelineExecutor::infer: a graph the loader accepted never fails for a missing tensor,
\* nor for a missing output, unless a model has been replaced by one with other outputs
\* since or the request came without an input of the metadata; and such a request, which
\* only gRPC lets in, ends at the first step, before anything is run for it, whatever
\* other tensors it brings.
THEOREM AcceptedGraphsRun == Spec => []AcceptedGraphRuns
  <1>1. PipelineInv => AcceptedGraphRuns
    BY DEF PipelineInv, RequestInv, EndedInv
  <1> QED
    BY <1>1, InvariantHolds, PTL
=============================================================================
