---------------------------- MODULE InferencePath ----------------------------
(***************************************************************************)
(* What becomes of the bytes of an inference request: decoded by           *)
(* src/src/KServeV2Codec.cpp (HTTP) or src/src/GrpcV2Codec.cpp (gRPC),     *)
(* merged with others by src/src/DynamicBatcher.cpp if they are compatible *)
(* (src/src/BatchCompatibility.cpp), executed, split again, encoded with   *)
(* the status of either transport and counted.                             *)
(*                                                                         *)
(* A byte is <<c, n, i>>, the i-th byte client c sent for input n, so that *)
(* an answer shows whose data it was computed from.  Which requests of the *)
(* queue a worker takes, and when, is the business of ModelScheduler.      *)
(***************************************************************************)
EXTENDS Integers, Sequences, SequencesExt, FiniteSets

CONSTANTS
    Clients,       \* the callers of infer() and ModelInfer()
    Bodies,        \* the requests they may send
    Inputs,        \* ModelMetadata::inputs, a sequence of [name, datatype, shape]
    Outputs,       \* the names of ModelMetadata::outputs
    ElementSize,   \* tensorElementSize of a datatype that is not BYTES
    MaxBatchSize,  \* DynamicBatchingConfig::max_batch_size
    SizeMax        \* the largest size_t

ASSUME PathAssumption ==
    /\ ElementSize \in Nat \ {0} /\ MaxBatchSize \in Nat \ {0} /\ SizeMax \in Nat \ {0}
    /\ Inputs \in Seq(ToSet(Inputs)) /\ \A metadata \in ToSet(Inputs) : metadata.shape \in Seq(Int)
    /\ \A b \in Bodies :
         /\ b.inputs \in Seq(ToSet(b.inputs)) /\ b.blob \in Nat
         /\ \A input \in ToSet(b.inputs) :
              input.shape \in Seq(Int) /\ input.size \in Nat /\ input.form \in {"data", "binary"}

VARIABLES
    place,      \* where the request of a client is
    body,       \* what the client sent
    execution,  \* the ExecutionRequest it was decoded to
    queue,      \* the requests a worker may take
    members,    \* active_batch
    response,   \* what the executor returned for it
    answer,     \* what the client was answered, and what the backend did
    counted     \* recordInferRequest: requests_total_, _success_ and _failure_

pathVars == <<place, body, execution, queue, members, response, answer, counted>>

-----------------------------------------------------------------------------
NoBody == [transport |-> "none", inputs |-> <<>>, outputs |-> <<>>, blob |-> 0]
NoExecution == [ok |-> FALSE, inputs |-> <<>>, outputs |-> <<>>]
NoResponse == [ok |-> FALSE, code |-> "", fault |-> FALSE, shape |-> <<>>, bytes |-> <<>>]
NoAnswer == [status |-> -1, bytes |-> <<>>, fault |-> FALSE]

-----------------------------------------------------------------------------
(* Tensors.                                                                *)

NamesOf(tensors) == {tensors[i].name : i \in DOMAIN tensors}
Find(tensors, n) == tensors[CHOOSE i \in DOMAIN tensors :
                              tensors[i].name = n /\ \A j \in 1 .. i - 1 : tensors[j].name # n]

\* The elements of a sequence that are in S, in their order.
Those(seq, S) == FoldLeft(LAMBDA kept, e : IF e \in S THEN Append(kept, e) ELSE kept, <<>>, seq)

IsBytes(tensor) == tensor.datatype = "BYTES"

\* The product of the dimensions, which the batcher does not check for overflow.
ShapeElementCount(shape) == FoldLeft(LAMBDA n, d : n * d, 1, shape) % (SizeMax + 1)
SliceElementCount(shape) == ShapeElementCount(Tail(shape))

Sum(sizes) == FoldLeft(LAMBDA n, d : n + d, 0, sizes)

\* Mutant of TensorElementCount: the product wraps around.
TensorElementCountWraps(shape) == [count |-> ShapeElementCount(shape), overflowed |-> FALSE]

\* tensorElementCount(shape, overflowed): a dimension that is not positive ends it.
Factor(acc, d) ==
    IF acc.count = 0 \/ d <= 0 THEN [acc EXCEPT !.count = 0]
    ELSE IF acc.count > SizeMax \div d THEN [count |-> 0, overflowed |-> TRUE]
    ELSE [acc EXCEPT !.count = @ * d]

TensorElementCount(shape) == FoldLeft(Factor, [count |-> 1, overflowed |-> FALSE], shape)

\* elementCount of NeuriploExecutor: a zero is a factor like any other, a negative
\* dimension is refused.
Dimension(acc, d) ==
    IF ~acc.ok \/ d < 0 \/ (d # 0 /\ acc.count > SizeMax \div d) THEN [ok |-> FALSE, count |-> 0]
    ELSE [ok |-> TRUE, count |-> acc.count * d]

ElementCount(shape) == FoldLeft(Dimension, [ok |-> TRUE, count |-> 1], shape)

-----------------------------------------------------------------------------
(* Bodies: a sequence of inputs, each with its data inline ("data", `size`  *)
(* elements) or behind the header ("binary", `size` bytes), and the length  *)
(* the part behind the header really has.                                   *)

Sent(c, input, n) == [i \in 1 .. n |-> <<c, input.name, i>>]

InlineBytes(c, input) ==
    Sent(c, input, IF IsBytes(input) THEN input.size ELSE input.size * ElementSize)

BinaryInputs(b) == Those(b.inputs, {input \in ToSet(b.inputs) : input.form = "binary"})

\* What an input has behind the header.
Behind(c, input) == Sent(c, input, IF input.form = "binary" THEN input.size ELSE 0)

\* The bytes behind the header; a client may send fewer than it declares, or more.
Blob(c, b) ==
    LET declared == FlattenSeq([k \in DOMAIN b.inputs |-> Behind(c, b.inputs[k])])
    IN [i \in 1 .. b.blob |-> IF i <= Len(declared) THEN declared[i] ELSE <<c, "stray", i>>]

ShapeMatches(shape, metadata) ==
    /\ Len(shape) = Len(metadata.shape)
    /\ \A i \in DOMAIN shape :
         shape[i] >= 0 /\ (metadata.shape[i] >= 0 => shape[i] = metadata.shape[i])

NewTensor(input, bytes) ==
    [name |-> input.name, datatype |-> input.datatype, shape |-> input.shape, bytes |-> bytes]

\* What the loop over the inputs refuses: `got` has the tensors and the bytes so far.
Refuses(got, c, b, input) ==
    LET known == input.name \in NamesOf(Inputs)
        metadata == Find(Inputs, input.name)
        expected == TensorElementCount(input.shape)
    IN
    \/ input.name \in NamesOf(got.inputs) \/ ~known
    \/ input.datatype # metadata.datatype
    \/ ~ShapeMatches(input.shape, metadata)
    \/ expected.overflowed
    \/ input.form = "binary" /\ (IsBytes(input) \/ got.offset + input.size > b.blob)
    \/ /\ expected.count # 0 /\ input.form = "binary"
       /\ input.size \div ElementSize # expected.count
    \/ expected.count # 0 /\ input.form = "data" /\ input.size \notin {0, expected.count}

\* Mutant of SliceBlob: every binary input starts where the header ends.
SliceBlobFront(blob, offset, size) == SubSeq(blob, 1, size)

\* sliceBlob, and binary_offset after it.
SliceBlob(blob, offset, size) == SubSeq(blob, offset + 1, offset + size)
AfterSlice(offset, input) == IF input.form = "binary" THEN offset + input.size ELSE offset

\* One turn of the loop of parseInferenceRequest.
ParseInput(got, c, b, input) ==
    IF ~got.ok \/ Refuses(got, c, b, input) THEN [got EXCEPT !.ok = FALSE]
    ELSE LET bytes == IF input.form = "data" THEN InlineBytes(c, input)
                      ELSE SliceBlob(Blob(c, b), got.offset, input.size)
         IN [ok |-> TRUE, offset |-> AfterSlice(got.offset, input),
             inputs |-> Append(got.inputs, NewTensor(input, bytes))]

\* All of the binary part was used, and no input of the model is missing.
Complete(got, b) ==
    /\ got.offset = b.blob
    /\ \A n \in NamesOf(Inputs) : n \in NamesOf(got.inputs)

\* parseInferenceRequest; a request that names no outputs asks for all of them.
ParseInferenceRequest(c, b) ==
    LET Turn(got, input) == ParseInput(got, c, b, input)
        got == FoldLeft(Turn, [ok |-> b.inputs # <<>>, offset |-> 0, inputs |-> <<>>], b.inputs)
    IN [ok |-> got.ok /\ Complete(got, b) /\ \A i \in DOMAIN b.outputs : b.outputs[i] \in ToSet(Outputs),
        inputs |-> got.inputs,
        outputs |-> IF b.outputs = <<>> THEN Outputs ELSE b.outputs]

\* grpc_v2::convertInferRequest: nothing is compared with the model, and
\* raw_input_contents is indexed by the position among all inputs.
ConvertInferRequest(c, b) ==
    LET raw == BinaryInputs(b)
        Bytes(i) == IF ~IsBytes(b.inputs[i]) /\ i <= Len(raw) THEN Sent(c, raw[i], raw[i].size)
                    ELSE IF b.inputs[i].form = "data" THEN InlineBytes(c, b.inputs[i]) ELSE <<>>
    IN [ok |-> TRUE, outputs |-> b.outputs,
        inputs |-> [i \in DOMAIN b.inputs |-> NewTensor(b.inputs[i], Bytes(i))]]

-----------------------------------------------------------------------------
PathInit ==
    /\ place = [c \in Clients |-> "idle"]
    /\ body = [c \in Clients |-> NoBody]
    /\ execution = [c \in Clients |-> NoExecution]
    /\ queue = <<>> /\ members = <<>>
    /\ response = NoResponse
    /\ answer = [c \in Clients |-> NoAnswer]
    /\ counted = [total |-> 0, success |-> 0, failure |-> 0]

GoTo(c, where) == place' = [place EXCEPT ![c] = where]

\* A client sends its request.
Receive(c) ==
    /\ place[c] = "idle"
    /\ \E b \in Bodies : body' = [body EXCEPT ![c] = b]
    /\ GoTo(c, "decode")
    /\ UNCHANGED <<execution, queue, members, response, answer, counted>>

\* decodeAndAdmit and ModelInfer: refused with 400, or on its way to submit().
Decode(c) ==
    LET decoded == IF body[c].transport = "http" THEN ParseInferenceRequest(c, body[c])
                   ELSE ConvertInferRequest(c, body[c])
    IN
    /\ place[c] = "decode"
    /\ \/ /\ ~decoded.ok
          /\ answer' = [answer EXCEPT ![c].status = 400]
          /\ GoTo(c, "answered") /\ UNCHANGED <<execution, queue>>
       \/ /\ decoded.ok
          /\ execution' = [execution EXCEPT ![c] = decoded]
          /\ queue' = Append(queue, c)
          /\ GoTo(c, "queued") /\ UNCHANGED answer
    /\ UNCHANGED <<body, members, response, counted>>

-----------------------------------------------------------------------------
(* Batches.                                                                *)

\* requestBatchSize: the first dimension of the first input.
RequestBatchSize(r) == IF r.inputs = <<>> \/ r.inputs[1].shape = <<>> THEN 1 ELSE r.inputs[1].shape[1]

\* batchCompatibilityError returns none.  The batch dimension of an input need not be
\* that of the first one.
AreBatchCompatible(l, r) ==
    /\ \A i \in DOMAIN l.inputs : ~IsBytes(l.inputs[i])
    /\ \A i \in DOMAIN r.inputs : ~IsBytes(r.inputs[i])
    /\ Len(l.inputs) = Len(r.inputs) /\ l.outputs = r.outputs
    /\ NamesOf(l.inputs) = NamesOf(r.inputs)
    /\ \A i \in DOMAIN l.inputs :
         LET left == l.inputs[i]
             right == Find(r.inputs, left.name)
         IN /\ left.datatype = right.datatype
            /\ left.shape # <<>> /\ Len(left.shape) = Len(right.shape)
            /\ Tail(left.shape) = Tail(right.shape)

BatchSizes(batch) == [i \in DOMAIN batch |-> RequestBatchSize(execution[batch[i]])]

\* formBatch: the front of the queue, alone or with others the scan came past.
FormBatch ==
    /\ queue # <<>> /\ members = <<>>
    /\ \E others \in SUBSET ToSet(Tail(queue)) :
         LET batch == Those(queue, others \cup {Head(queue)})
         IN
         /\ others # {} => Sum(BatchSizes(batch)) <= MaxBatchSize
         /\ \A c \in others : AreBatchCompatible(execution[Head(queue)], execution[c])
         /\ members' = batch
         /\ queue' = Those(queue, Clients \ ToSet(batch))
         /\ place' = [c \in Clients |-> IF c \in ToSet(batch) THEN "taken" ELSE place[c]]
    /\ UNCHANGED <<body, execution, response, answer, counted>>

\* mergeInputTensors: the bytes one after the other, the batch sizes added up.
MergeInputTensors(batch, reference) ==
    [reference EXCEPT
        !.shape = [@ EXCEPT ![1] = Sum(BatchSizes(batch))],
        !.bytes = FlattenSeq([i \in DOMAIN batch |->
                                Find(execution[batch[i]].inputs, reference.name).bytes])]

\* mergeExecutionRequests; a batch of one is executed as it is (processSingle).
Merged(batch) ==
    LET first == execution[batch[1]]
    IN IF Len(batch) = 1 THEN first
       ELSE [first EXCEPT !.inputs = [i \in DOMAIN first.inputs |->
                                        MergeInputTensors(batch, first.inputs[i])]]

\* orderedInputs of NeuriploExecutor: what it hands to the adapter, or a refusal.
Executable(r) ==
    /\ Len(r.inputs) = Cardinality(NamesOf(r.inputs))
    /\ NamesOf(r.inputs) = NamesOf(Inputs)
    /\ \A i \in DOMAIN r.inputs :
         LET tensor == r.inputs[i]
             metadata == Find(Inputs, tensor.name)
             expected == ElementCount(tensor.shape)
         IN /\ tensor.datatype = metadata.datatype /\ ~IsBytes(tensor)
            /\ ShapeMatches(tensor.shape, metadata)
            /\ expected.ok /\ Len(tensor.bytes) \div ElementSize = expected.count

\* The backend, which is given bytes: row i of its output is computed from row i of
\* every input.
Row(r, i) ==
    FlattenSeq([k \in DOMAIN Inputs |->
        LET tensor == Find(r.inputs, Inputs[k].name)
            slice == SliceElementCount(tensor.shape) * ElementSize
        IN SubSeq(tensor.bytes, (i - 1) * slice + 1, i * slice)])

Rows(r) == FlattenSeq([i \in 1 .. RequestBatchSize(r) |-> Row(r, i)])

Width(r) == Sum([k \in DOMAIN Inputs |-> SliceElementCount(Find(r.inputs, Inputs[k].name).shape)])

SameBatch(r) == \A i \in DOMAIN r.inputs : r.inputs[i].shape[1] = RequestBatchSize(r)

\* A healthy backend answers row by row, or refuses inputs of different length; one
\* that is not fails, or was built for a batch of one.
Backend(r) ==
    LET size == RequestBatchSize(r)
        works == [ok |-> TRUE, code |-> "", fault |-> FALSE, shape |-> <<size, Width(r)>>, bytes |-> Rows(r)]
        fails == [NoResponse EXCEPT !.code = "BACKEND_ERROR"]
        short == [ok |-> TRUE, code |-> "", fault |-> TRUE, shape |-> <<1, Width(r)>>, bytes |-> Row(r, 1)]
    IN {[fails EXCEPT !.fault = TRUE]}
       \cup (IF SameBatch(r) THEN {works} ELSE {fails})
       \cup (IF SameBatch(r) /\ size > 1 THEN {short} ELSE {})

\* runInference with NeuriploExecutor::infer.
Infer ==
    LET r == Merged(members)
    IN
    /\ members # <<>> /\ response = NoResponse
    /\ response' \in IF Executable(r) THEN Backend(r) ELSE {[NoResponse EXCEPT !.code = "INVALID_ARGUMENT"]}
    /\ UNCHANGED <<place, body, execution, queue, members, answer, counted>>

\* Mutant of BatchOffset: the member's own rows are counted in.
BatchOffsetOfNext(sizes, index) == Sum(SubSeq(sizes, 1, index))

\* batch_offset: the rows of the members in front.
BatchOffset(sizes, index) == Sum(SubSeq(sizes, 1, index - 1))

\* splitExecutionResponse for one member: its rows, or BACKEND_ERROR.
SplitResponse(out, sizes, index) ==
    LET slice == SliceElementCount(out.shape) * ElementSize
        start == BatchOffset(sizes, index) * slice
        end == start + sizes[index] * slice
        fits == /\ out.shape[1] = Sum(sizes)
                /\ ShapeElementCount(out.shape) * ElementSize = Len(out.bytes)
                /\ slice # 0 /\ end <= Len(out.bytes)
    IN CASE ~out.ok -> out
         [] out.ok /\ fits -> [out EXCEPT !.shape[1] = sizes[index], !.bytes = SubSeq(@, start + 1, end)]
         [] OTHER -> [NoResponse EXCEPT !.code = "BACKEND_ERROR", !.fault = out.fault]

ResponseFor(index) ==
    IF Len(members) = 1 THEN response ELSE SplitResponse(response, BatchSizes(members), index)

-----------------------------------------------------------------------------
(* Answers.                                                                *)

HttpStatusForCode(code) ==
    CASE code = "INVALID_ARGUMENT"  -> 400
      [] code \in {"MODEL_NOT_FOUND", "NOT_FOUND"} -> 404
      [] code = "MODEL_NOT_READY"   -> 409
      [] code = "QUEUE_FULL"        -> 429
      [] code = "DEADLINE_EXCEEDED" -> 504
      [] code = "UNAVAILABLE"       -> 503
      [] OTHER                      -> 500

GrpcStatusForCode(code) ==
    CASE code = "INVALID_ARGUMENT"  -> 3
      [] code \in {"MODEL_NOT_FOUND", "NOT_FOUND"} -> 5
      [] code = "QUEUE_FULL"        -> 8
      [] code = "DEADLINE_EXCEEDED" -> 4
      [] code \in {"UNAVAILABLE", "MODEL_NOT_READY"} -> 14
      [] OTHER                      -> 13

\* The status of a response of the executor; SchedulerResult::adopt hands on its code.
ResponseStatus(transport, r) ==
    IF transport = "http" THEN IF r.ok THEN 200 ELSE HttpStatusForCode(r.code)
    ELSE IF r.ok THEN 0 ELSE GrpcStatusForCode(r.code)

\* Mutant of RecordInferRequest: only what the executor was given is counted.
RecordExecuted(status) ==
    LET With(codes) == Cardinality({c \in DOMAIN status : status[c] \in codes})
    IN counted' = [total |-> counted.total + With({0, 200}),
                   success |-> counted.success + With(200 .. 299),
                   failure |-> counted.failure]

\* recordInferRequest for every client with a status; the codes of gRPC are compared
\* with those of HTTP.
RecordInferRequest(status) ==
    LET successes == Cardinality({c \in DOMAIN status : status[c] \in 200 .. 299})
        all == Cardinality(DOMAIN status)
    IN counted' = [total |-> counted.total + all,
                   success |-> counted.success + successes,
                   failure |-> counted.failure + all - successes]

\* A member that still waits is answered with its part of the response.
Deliver ==
    LET told == {c \in ToSet(members) : place[c] = "taken"}
        Reply(c) == ResponseFor(CHOOSE i \in DOMAIN members : members[i] = c)
        Status(c) == ResponseStatus(body[c].transport, Reply(c))
    IN
    /\ members # <<>> /\ response # NoResponse
    /\ answer' = [c \in Clients |->
                    IF c \in told
                    THEN [status |-> Status(c), bytes |-> Reply(c).bytes, fault |-> response.fault]
                    ELSE answer[c]]
    /\ RecordInferRequest([c \in told |-> Status(c)])
    /\ place' = [c \in Clients |-> IF c \in told THEN "answered" ELSE place[c]]
    /\ members' = <<>> /\ response' = NoResponse
    /\ UNCHANGED <<body, execution, queue>>

\* submit() returns without a response: the queue is full, the model drains or the
\* deadline passes, by which time a worker may have the request.
Refuse(c) ==
    \E code \in {"QUEUE_FULL", "UNAVAILABLE", "DEADLINE_EXCEEDED"} :
       LET status == IF body[c].transport = "http" THEN HttpStatusForCode(code) ELSE GrpcStatusForCode(code)
       IN
       /\ place[c] = "queued" \/ (place[c] = "taken" /\ code = "DEADLINE_EXCEEDED")
       /\ answer' = [answer EXCEPT ![c].status = status]
       /\ RecordInferRequest([d \in {c} |-> status])
       /\ queue' = Those(queue, Clients \ {c})
       /\ GoTo(c, "answered")
       /\ UNCHANGED <<body, execution, members, response>>

PathNext ==
    \/ \E c \in Clients : Receive(c) \/ Decode(c) \/ Refuse(c)
    \/ FormBatch \/ Infer \/ Deliver

PathSpec == PathInit /\ [][PathNext]_pathVars

-----------------------------------------------------------------------------
(* Properties.                                                             *)

Answered(c, statuses) == place[c] = "answered" /\ answer[c].status \in statuses

\* As many bytes as its shape has elements, and the batch size of the request.
Exact(r) ==
    \A i \in DOMAIN r.inputs : LET tensor == r.inputs[i] IN
        /\ ElementCount(tensor.shape).ok
        /\ Len(tensor.bytes) = ElementCount(tensor.shape).count * ElementSize
        /\ tensor.shape # <<>> /\ tensor.shape[1] = RequestBatchSize(r)

\* Every request that is answered with data is answered with what was computed from
\* its own bytes, whatever it was batched with, provided that all requests are exact.
OwnRows ==
    (\A c \in Clients : Exact(execution[c])) =>
        \A c \in Clients : Answered(c, {0, 200}) /\ ~answer[c].fault => answer[c].bytes = Rows(execution[c])

\* What the codec accepts over HTTP has every input of the model once, and each input
\* has the bytes the client sent for it, all of them and in order.
InputsAreTheirOwn ==
    \A c \in Clients : body[c].transport = "http" /\ execution[c].ok =>
        /\ NamesOf(execution[c].inputs) = NamesOf(Inputs)
        /\ Len(execution[c].inputs) = Cardinality(NamesOf(Inputs))
        /\ \A i \in DOMAIN execution[c].inputs :
             LET input == body[c].inputs[i]
             IN execution[c].inputs[i].bytes = IF input.form = "data" THEN InlineBytes(c, input)
                                             ELSE Sent(c, input, input.size)

\* A request over HTTP that says how many elements it has, and has them, is never
\* refused by the executor it was admitted for, unless it shares a batch.
AdmittedIsExecutable ==
    \A c \in Clients : body[c].transport = "http" /\ execution[c].ok =>
        \/ Executable(execution[c])
        \/ \E i \in DOMAIN body[c].inputs :
             LET input == body[c].inputs[i]
             IN input.datatype = "BYTES" \/ input.size = 0 \/ 0 \in ToSet(input.shape)

\* Every request that was admitted is counted once in the total, however it ends, and in
\* one of success and failure, and no request that failed is counted as a success.
AdmittedCounted ==
    LET admitted == {c \in Clients : place[c] = "answered" /\ execution[c].ok}
    IN /\ counted.total = Cardinality(admitted)
       /\ counted.success + counted.failure = counted.total
       /\ counted.success <= Cardinality({c \in admitted : answer[c].status \in {0, 200}})

\* docs/errors.md:237 "`neuriplo_http_infer_requests_failure_total{model, version}` --
\* total failed infer requests regardless of status code": the requests counted as
\* failures are those that were admitted and failed.
FailuresCounted ==
    counted.failure =
        Cardinality({c \in Clients : place[c] = "answered" /\ execution[c].ok
                                     /\ answer[c].status \notin {0, 200}})

\* specs/2026-05-30-dynamic-batching/requirements.md:34 "[R-1] Batched outputs are
\* shape/schema equivalent to single-request outputs": a request the executor serves
\* alone is served in a batch, too, by a backend that works, and with its own rows.
BatchLikeSingle ==
    \A c \in Clients : Executable(execution[c]) /\ SameBatch(execution[c]) /\ ~answer[c].fault =>
        /\ ~Answered(c, {400, 3})
        /\ Answered(c, {0, 200}) => answer[c].bytes = Rows(execution[c])

=============================================================================
