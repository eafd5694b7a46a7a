---------------------------- MODULE KServeRuntime ----------------------------
(***************************************************************************)
(* The request handlers of src/src/KServeRuntime.cpp over the registry of  *)
(* module ModelRegistry: what a client of the HTTP interface is answered   *)
(* when its request is spread over several looks at the registry.          *)
(*                                                                         *)
(* Threads serve the admin and repository routes; each of their registry   *)
(* calls is the call ModelRegistry models, begun by the handler and left   *)
(* when the handler reads what it returned.  Clients serve inference,      *)
(* OpenAI and readiness routes: they read snapshots and submit to the      *)
(* scheduler of one, whose answers module RequestService describes.        *)
(* Bodies are abstracted to the version they name, with the backend that   *)
(* goes with it; a body that does not parse is a choice of the             *)
(* environment.  "completions" stands for the three OpenAI routes,         *)
(* "stream" for the two of them with stream set.                           *)
(***************************************************************************)
EXTENDS ModelRegistry

CONSTANTS
    Clients,         \* threads serving data-plane routes
    Catalog,         \* catalog_: the version the repository offers for a name, or NoVersion
    Servable,        \* the versions resolveRepositoryModelVersion finds a model file for
    DefaultVersion,  \* RuntimeConfig::model_version of a config nobody filled in
    RepositoryMode,  \* repository_mode_
    ExplicitMode,    \* explicit_control_mode_
    MaxRequests      \* bound on the requests made in one behaviour

ASSUME RuntimeAssumption ==
    /\ Clients \cap Threads = {}
    /\ Catalog \in [Names -> Versions \cup {"none"}]
    /\ Servable \subseteq Versions /\ DefaultVersion \in Versions
    /\ RepositoryMode \in BOOLEAN /\ ExplicitMode \in BOOLEAN
    /\ MaxRequests \in Nat /\ MaxCalls >= 2 * MaxRequests

VARIABLES
    hpc,      \* where a handler is
    req,      \* the request it serves, or served last
    view,     \* what it has read from the registry
    status,   \* the status it answered
    loads,    \* recordModelLoadSuccess and recordModelLoadFailure
    taken     \* requests so far

handlerVars == <<hpc, req, view, status, loads, taken>>
runtimeVars == <<vars, handlerVars>>

-----------------------------------------------------------------------------
Handlers == Threads \cup Clients
NoRequest == [kind |-> "none", name |-> "none", version |-> NoVersion]

\* known: the name had a slot; config: its config; label: the version a client asked
\* for; snapshot: the InferSnapshot a handler holds on to.
NoView == [known |-> FALSE, config |-> NoVersion, label |-> NoVersion, snapshot |-> NoHandle]

LoadKinds == {"adminLoad", "repositoryLoad"}
AdminRequests ==
    [kind : LoadKinds, name : Names, version : Versions]
    \cup [kind : {"repositoryLoad"}, name : Names, version : {NoVersion}]
    \cup [kind : {"reload"}, name : Names, version : Versions \cup {NoVersion}]
    \cup [kind : {"unload"}, name : Names, version : {NoVersion}]
    \cup [kind : {"activate"}, name : Names, version : Versions]
ClientRequests ==
    [kind : {"infer", "modelReady"}, name : Names, version : Versions \cup {NoVersion}]
    \cup [kind : {"completions", "stream"}, name : Names, version : {NoVersion}]

To(h, place) == hpc' = [hpc EXCEPT ![h] = place]

\* The handler returns; what it held is released.
Answer(h, code) ==
    /\ To(h, "idle")
    /\ status' = [status EXCEPT ![h] = code]
    /\ view' = [view EXCEPT ![h] = NoView]

CountLoad(outcome) == loads' = [loads EXCEPT ![outcome] = @ + 1]

RuntimeInit ==
    /\ Init
    /\ hpc = [h \in Handlers |-> "idle"]
    /\ req = [h \in Handlers |-> NoRequest]
    /\ view = [h \in Handlers |-> NoView]
    /\ status = [h \in Handlers |-> "none"]
    /\ loads = [success |-> 0, failure |-> 0]
    /\ taken = 0

\* KServeRuntime::handle: the route of a request decides where its handler starts.
Route(r) ==
    CASE r.kind \in {"repositoryLoad", "reload", "activate"}      -> "config"
      [] r.kind \in {"adminLoad", "unload"}                       -> "parse"
      [] r.kind = "infer" /\ r.version = NoVersion                -> "default"
      [] OTHER                                                    -> "lookup"

HandleRequest(h) ==
    /\ hpc[h] = "idle" /\ taken < MaxRequests
    /\ \E r \in IF h \in Threads THEN AdminRequests ELSE ClientRequests :
         /\ req' = [req EXCEPT ![h] = r]
         /\ To(h, Route(r))
         /\ view' = [view EXCEPT ![h].label = r.version]
    /\ status' = [status EXCEPT ![h] = "none"]
    /\ taken' = taken + 1
    /\ UNCHANGED <<vars, loads>>

-----------------------------------------------------------------------------
(* handleAdmin and handleRepository.                                       *)

\* A call of the registry begins.
Issue(t, kind, version) ==
    /\ call' = [call EXCEPT ![t] = [kind |-> kind, name |-> req[t].name,
                                    version |-> version, id |-> calls + 1]]
    /\ Goto(t, kind)
    /\ calls' = calls + 1
    /\ UNCHANGED <<slotVars, threadVars>>

\* modelConfig, under models_mutex_; what it says may be outdated when it is used.
ModelConfig(t) ==
    LET n == req[t].name
    IN
    /\ hpc[t] = "config"
    /\ view' = [view EXCEPT ![t].known = Exists(n),
                            ![t].config = IF Exists(n) THEN slots[n].config ELSE NoVersion]
    /\ To(t, "parse")
    /\ UNCHANGED <<vars, req, status, loads, taken>>

\* The version of the config the body is completed with.
ConfigVersion(t) ==
    CASE req[t].version # NoVersion -> req[t].version
      [] req[t].version = NoVersion /\ view[t].known -> view[t].config
      [] OTHER -> IF req[t].kind = "repositoryLoad" /\ Catalog[req[t].name] # NoVersion
                  THEN Catalog[req[t].name] ELSE DefaultVersion

\* Nothing to load: not loaded, not in the catalog and no backend in the body.
NotInRepository(t) ==
    /\ req[t].kind = "repositoryLoad" /\ req[t].version = NoVersion
    /\ ~view[t].known /\ Catalog[req[t].name] = NoVersion

\* A version of a repository model without a model file.
NoModelFile(t) ==
    /\ req[t].kind = "activate"
    /\ Catalog[req[t].name] # NoVersion /\ req[t].version \notin Servable

RegistryCall(t) ==
    CASE req[t].kind = "adminLoad"      -> "load"
      [] req[t].kind = "repositoryLoad" -> IF view[t].known THEN "reload" ELSE "load"
      [] req[t].kind = "activate"       -> "switch"
      [] OTHER                          -> req[t].kind

Parse(t) ==
    LET refused == NotInRepository(t) \/ NoModelFile(t)
    IN
    /\ hpc[t] = "parse"
    /\ \/ req[t].kind # "unload" /\ Answer(t, "400") /\ UNCHANGED vars
       \/ refused /\ Answer(t, "404") /\ UNCHANGED vars
       \/ /\ ~refused
          /\ Issue(t, RegistryCall(t), IF req[t].kind = "unload" THEN NoVersion ELSE ConfigVersion(t))
          /\ To(t, "called") /\ UNCHANGED <<status, view>>
    /\ UNCHANGED <<req, loads, taken>>

\* The registry call is over.  An exception ends in HttpServer::handleClient.
Called(t) ==
    LET load == req[t].kind \in LoadKinds
    IN
    /\ hpc[t] = "called" /\ Leave(t)
    /\ \/ ret[t] = "exception" /\ Answer(t, "500") /\ UNCHANGED loads
       \/ ret[t] = "true" /\ ~load /\ Answer(t, "200") /\ UNCHANGED loads
       \/ ret[t] = "true" /\ load /\ To(t, "registered") /\ UNCHANGED <<status, view, loads>>
       \/ ret[t] = "false" /\ req[t].kind \in {"reload", "activate"}
          /\ Answer(t, "409") /\ UNCHANGED loads
       \/ ret[t] = "false" /\ req[t].kind = "adminLoad" /\ Answer(t, "409") /\ CountLoad("failure")
       \/ ret[t] = "false" /\ req[t].kind \in {"repositoryLoad", "unload"}
          /\ To(t, "refused") /\ UNCHANGED <<status, view, loads>>
    /\ UNCHANGED <<req, taken>>

\* registered: ready() says whether the build came up; otherwise "drop the dead slot".
Registered(t) ==
    /\ hpc[t] = "registered"
    /\ \/ /\ Serving(req[t].name)
          /\ Answer(t, "200") /\ CountLoad("success") /\ UNCHANGED vars
       \/ /\ ~Serving(req[t].name)
          /\ Issue(t, "unload", NoVersion)
          /\ To(t, "dropping") /\ UNCHANGED <<status, view, loads>>
    /\ UNCHANGED <<req, taken>>

\* Whatever unloadModel returned, or threw, the load failed.
Dropped(t) ==
    /\ hpc[t] = "dropping" /\ Leave(t)
    /\ Answer(t, "409") /\ CountLoad("failure")
    /\ UNCHANGED <<req, taken>>

\* A second look at the registry: was the name loaded by somebody else, is it being
\* loaded, or is it not there?
Refused(t) ==
    LET n == req[t].name
        raced == req[t].kind = "repositoryLoad" /\ ~view[t].known /\ Serving(n)
    IN
    /\ hpc[t] = "refused" /\ UNCHANGED vars
    /\ \/ raced /\ Answer(t, "200") /\ CountLoad("success")
       \/ req[t].kind = "repositoryLoad" /\ ~raced /\ Answer(t, "409") /\ CountLoad("failure")
       \/ /\ req[t].kind = "unload"
          /\ Answer(t, IF Loading(n) \/ Pending(n) THEN "409" ELSE "404")
          /\ UNCHANGED loads
    /\ UNCHANGED <<req, taken>>

-----------------------------------------------------------------------------
(* infer, completions, chatCompletions, embeddings and modelReady.         *)

\* defaultVersion: the version of the active snapshot, if it has one yet.
DefaultVersionOf(c) ==
    LET n == req[c].name
        found == Exists(n) /\ slots[n].active.version # NoVersion
    IN
    /\ hpc[c] = "default"
    /\ \/ ~found /\ Answer(c, "404")
       \/ /\ found
          /\ view' = [view EXCEPT ![c].label = slots[n].active.version]
          /\ To(c, "lookup") /\ UNCHANGED status
    /\ UNCHANGED <<vars, req, loads, taken>>

\* modelStateError behind the test for a draining scheduler.
NotReady(h) ==
    IF (h.sched # NoScheduler /\ sched[h.sched] # "accepting")
       \/ h.state \in {"Failed", "Unloaded", "Loading"} THEN "503" ELSE "409"

Found(c) ==
    IF ~Exists(req[c].name) THEN NoHandle
    ELSE IF view[c].label = NoVersion THEN slots[req[c].name].active
    ELSE FindHandleVersion(req[c].name, view[c].label)

OpenAiKinds == {"completions", "stream"}

\* The OpenAI handlers do not ask why.
NotServing(c, h) == IF req[c].kind \in OpenAiKinds THEN "503" ELSE NotReady(h)

AfterLookup(c) == IF req[c].kind = "stream" THEN "stream" ELSE "submit"

\* findHandle or findHandleVersion, and isReady of what it returns.  The OpenAI
\* handlers have parsed the body by then, infer has not.
Lookup(c) ==
    LET h == Found(c)
    IN
    /\ hpc[c] = "lookup"
    /\ \/ req[c].kind \in OpenAiKinds /\ Answer(c, "400")
       \/ h = NoHandle /\ Answer(c, "404")
       \/ h # NoHandle /\ ~IsReady(h) /\ Answer(c, NotServing(c, h))
       \/ h # NoHandle /\ IsReady(h) /\ req[c].kind = "modelReady" /\ Answer(c, "200")
       \/ /\ h # NoHandle /\ IsReady(h) /\ req[c].kind # "modelReady"
          /\ view' = [view EXCEPT ![c].snapshot = h]
          /\ To(c, AfterLookup(c)) /\ UNCHANGED status
    /\ UNCHANGED <<vars, req, loads, taken>>

\* completionsStreaming has returned a callback that refers to the snapshot, and the
\* shared pointer of completions() is gone: is there another one?
SnapshotHeld(n, h) ==
    Exists(n) /\ (slots[n].active = h \/ \E v \in Versions : slots[n].snaps[v] = h)

StreamCallback(c) ==
    /\ hpc[c] = "stream"
    /\ \/ SnapshotHeld(req[c].name, view[c].snapshot) /\ To(c, "submit")
       \/ ~SnapshotHeld(req[c].name, view[c].snapshot) /\ To(c, "undefined")
    /\ UNCHANGED <<vars, req, view, status, loads, taken>>

\* The body is decoded and submitted to the scheduler of the snapshot, which answers
\* ("200"), fails in a way of its own ("error") or is draining by now.  A stream has
\* sent its status line before it submits: its errors are events in the body.
Submit(c) ==
    LET accepting == sched[view[c].snapshot.sched] = "accepting"
        streams == req[c].kind = "stream"
    IN
    /\ hpc[c] = "submit"
    /\ \/ req[c].kind = "infer" /\ Answer(c, "400")
       \/ (accepting \/ streams) /\ Answer(c, "200")
       \/ accepting /\ ~streams /\ Answer(c, "error")
       \/ ~accepting /\ ~streams /\ Answer(c, "503")
    /\ UNCHANGED <<vars, req, loads, taken>>

-----------------------------------------------------------------------------
AdminStep(t) ==
    \/ ModelConfig(t) \/ Parse(t) \/ Called(t) \/ Registered(t) \/ Dropped(t) \/ Refused(t)

ClientStep(c) == DefaultVersionOf(c) \/ Lookup(c) \/ StreamCallback(c) \/ Submit(c)

\* A step of the registry on behalf of a handler, of which Call and Leave are part.
RegistryStep(t) == tpc[t] # "return" /\ ThreadStep(t) /\ UNCHANGED handlerVars

RetireStep(k) == (DrainBegins(k) \/ DrainEnds(k)) /\ UNCHANGED handlerVars

RuntimeNext ==
    \/ \E h \in Handlers : HandleRequest(h)
    \/ \E t \in Threads : AdminStep(t) \/ RegistryStep(t)
    \/ \E c \in Clients : ClientStep(c)
    \/ \E k \in Schedulers : RetireStep(k)

RuntimeSpec == RuntimeInit /\ [][RuntimeNext]_runtimeVars

\* Handlers run, builds end, and so do the drains of retire_queue_.
RuntimeFairness ==
    /\ \A t \in Threads : WF_runtimeVars(AdminStep(t) \/ RegistryStep(t))
    /\ \A c \in Clients : WF_runtimeVars(ClientStep(c))
    /\ \A k \in Schedulers : WF_runtimeVars(RetireStep(k))

FairRuntimeSpec == RuntimeSpec /\ RuntimeFairness

-----------------------------------------------------------------------------
(* Properties.                                                             *)

HandlerPlaces == {"idle", "config", "parse", "called", "registered", "dropping", "refused",
                  "default", "lookup", "stream", "submit", "undefined"}

\* Every variable has its type.
RuntimeTypeOK ==
    /\ TypeOK
    /\ hpc \in [Handlers -> HandlerPlaces]
    /\ req \in [Handlers -> AdminRequests \cup ClientRequests \cup {NoRequest}]
    /\ view \in [Handlers -> [known : BOOLEAN, config : Versions \cup {NoVersion},
                              label : Versions \cup {NoVersion}, snapshot : Handles]]
    /\ status \in [Handlers -> {"none", "200", "400", "404", "409", "500", "503", "error"}]
    /\ loads \in [{"success", "failure"} -> Nat]
    /\ taken \in 0 .. MaxRequests

\* Mutant of Counted: a load in progress counts.
CountedWhileLoading(n) == ~(RepositoryMode /\ slots[n].active.state = "Failed")

\* The slots allReady looks at.
Counted(n) ==
    /\ slots[n].active.state # "Loading"
    /\ ~(RepositoryMode /\ slots[n].active.state = "Failed")

\* allReady, which GET /v2/health/ready answers.
AllReady ==
    LET counted == {n \in Names : Exists(n) /\ Counted(n)}
    IN
    /\ \A n \in counted : IsReady(slots[n].active)
    /\ counted # {} \/ ExplicitMode

\* A server with a model repository that is ready stays ready through every load,
\* reload and version switch, whether it succeeds or fails; only beginDrain, which
\* takes a model out of service, can end readiness.
ReadinessHolds ==
    [][RepositoryMode /\ AllReady /\ ~AllReady'
       => \E t \in Threads : EndsService(t)]_runtimeVars

\* An answer carries the version of the scheduler that computed it: the snapshot a
\* request is submitted with is of the version the route named or the default was.
ServedVersion ==
    \A c \in Clients : hpc[c] = "submit" /\ view[c].label # NoVersion =>
        view[c].snapshot.version = view[c].label

\* Every request is answered: a handler waits for builds of others, never for ever.
RequestsAnswered ==
    \A h \in Handlers : hpc[h] # "idle" ~> (hpc[h] = "idle" \/ hpc[h] = "undefined")

=============================================================================
