-------------------------- MODULE OutputController --------------------------
(***************************************************************************)
(* The JinjaTemplate controller of internal/controller, from the spec of a *)
(* JinjaTemplate (CR) to its output object: one reconcile worker that       *)
(* reads CRs and outputs through informer caches which lag behind the API   *)
(* server, and writes with one API call per step.  Everything another       *)
(* client can do happens between two such calls.                            *)
(*                                                                         *)
(*   - api, objs        what the API server stores: CRs, output objects     *)
(*   - cache, ocache    what the operator's informers show of them          *)
(*   - queue            the keys waiting in the controller's workqueue       *)
(*   - pc, cur, jt ...  the worker inside Reconcile, one value of pc before  *)
(*                      each API call of jinjatemplate_controller.go and     *)
(*                      rawobject.go                                         *)
(*                                                                         *)
(* Resource versions are abstracted to one bit per copy: a copy is fresh    *)
(* while nobody wrote the object since the copy was taken, and an update    *)
(* sent with a copy that is not fresh is answered with a conflict.          *)
(***************************************************************************)
EXTENDS FiniteSets

CONSTANTS
  CRs,                \* the JinjaTemplates (a CR is never re-created)
  ConfigTargets,      \* outputs of kind ConfigMap and Secret
  NamespacedTargets,  \* RawObject outputs of a namespaced kind
  ClusterTargets,     \* RawObject outputs of a cluster-scoped kind
  Manifests,          \* the template of a RawObject output
  Data,               \* what the sources and templates of a CR hold
  Render,             \* Render[m][d]: the object manifest m renders to from d
  SAs,                \* ServiceAccounts of the namespace
  Specs,              \* the specs users give to CRs
  Failures,           \* what can keep a CR from rendering in a run
  Faults,             \* the disturbances of a run, a subset of FaultKinds
  None                \* no owner, no account, no target ...

RawTargets == NamespacedTargets \cup ClusterTargets
Targets    == ConfigTargets \cup RawTargets

(* Manifests that render to no usable object: see CheckManifest. *)
BadManifests == {"Unparsable", "UnknownKind", "BadNamespace"}

(* What keeps a CR from being rendered at all: see ResolveAndRender. *)
InputFailures == {"DNSLookupFailed", "SourceResolutionFailed",
                  "TemplateLoadFailed", "RenderFailed"}

Reasons == InputFailures \cup
  {"Unset", "InvalidSpec", "RawObjectInvalid", "ServiceAccountNotFound",
   "OutputFailed", "OutputForbidden", "RenderSuccess"}

Verbs == {"apply", "delete"}

(* race: CRs change while the operator works on them.  crash: the operator   *)
(* restarts.  error: an API call fails for a passing reason.  rbac: accounts *)
(* and their grants change.  data: sources and templates change.  tamper,    *)
(* tamperRaw: others write or delete ConfigMaps and Secrets, raw outputs.    *)
(* calm: all of this may come to an end.                                     *)
FaultKinds == {"race", "crash", "error", "rbac", "data", "tamper", "tamperRaw",
               "calm"}

ASSUME ConstantsAssumption ==
  /\ ConfigTargets \cap RawTargets = {}
  /\ NamespacedTargets \cap ClusterTargets = {}
  /\ Manifests \cap (ConfigTargets \cup {"InvalidSpec"}) = {}
  /\ "InvalidSpec" \notin ConfigTargets
  /\ Targets \cap BadManifests = {}
  /\ Data \cap InputFailures = {}
  /\ None \notin CRs \cup Targets \cup SAs \cup Data \cup BadManifests
  /\ Failures \subseteq InputFailures
  /\ Faults \subseteq FaultKinds

ASSUME RenderAssumption ==
  Render \in [Manifests -> [Data -> RawTargets \cup BadManifests]]

(* The CRD's validation rule: a ServiceAccount exactly for RawObject.        *)
ASSUME SpecsAssumption ==
  /\ Specs \subseteq [out : ConfigTargets \cup Manifests \cup {"InvalidSpec"},
                      own : BOOLEAN, sa : SAs \cup {None}]
  /\ \A s \in Specs : s.out \in Manifests <=> s.sa \in SAs

VARIABLES
  api,         \* CRs as the API server stores them
  objs,        \* output objects as the API server stores them
  cache,       \* the CR informer's copies
  cacheFresh,  \* is cache[c] the version the API server holds?
  ocache,      \* the ConfigMap and Secret informers' copies of the outputs
  ocacheFresh, \* is ocache[t] the version the API server holds?
  queue,       \* CRs waiting to be reconciled
  pc,          \* the next API call of the worker
  cur,         \* the CR being reconciled
  jt,          \* the worker's own copy of it, changed as Reconcile goes
  jtFresh,     \* does jt carry the API server's resource version?
  goal,        \* the target and content this reconcile rendered
  retry,       \* does reconcile() return an error?
  data,        \* what each CR's sources and templates currently give
  accounts,    \* the ServiceAccounts that exist
  grants,      \* what RBAC lets each ServiceAccount do to raw outputs
  calm         \* the environment has stopped disturbing

crVars     == <<api, cache, cacheFresh>>
objVars    == <<objs, ocache, ocacheFresh>>
workerVars == <<pc, cur, jt, jtFresh, goal, retry>>
envVars    == <<data, accounts, grants, calm>>
vars       == <<crVars, objVars, queue, workerVars, envVars>>

-----------------------------------------------------------------------------
(* Records *)

Refs    == [target : Targets \cup {None}, sa : SAs \cup {None}]
NoRef   == [target |-> None, sa |-> None]
Phases  == {"live", "deleting", "gone"}
NoSpec  == [out |-> "InvalidSpec", own |-> FALSE, sa |-> None]

CRRecords == [phase : Phases, spec : Specs \cup {NoSpec}, finalizer : BOOLEAN,
              last : Refs, ready : Reasons]

NewCR(s) == [phase |-> "live", spec |-> s, finalizer |-> FALSE,
             last |-> NoRef, ready |-> "Unset"]
NoCR     == [NewCR(NoSpec) EXCEPT !.phase = "gone"]

(* owner is the controller reference, label the jinja-template label; the    *)
(* content of an object no CR rendered is None.                              *)
Objects == [exists : BOOLEAN, owner : CRs \cup {None}, label : CRs \cup {None},
            data : Data \cup {None}]
NoObj   == [exists |-> FALSE, owner |-> None, label |-> None, data |-> None]
Foreign == [NoObj EXCEPT !.exists = TRUE]

Goals  == [target : Targets \cup BadManifests \cup {None}, data : Data \cup {None}]
NoGoal == [target |-> None, data |-> None]

IsRaw(spec) == spec.out \in Manifests

(* Mutant of NeedsFinalizer: the scope test inverted.                        *)
NeedsFinalizerNamespaced(spec, t) == IsRaw(spec) /\ spec.own /\ t \in NamespacedTargets

(* The operator deletes the output itself: RawObject of a cluster-scoped     *)
(* kind with owner-reference semantics.                                      *)
NeedsFinalizer(spec, t) == IsRaw(spec) /\ spec.own /\ t \in ClusterTargets

PCs == {"idle", "inputs", "account", "finalizer", "cleanup", "apply", "status",
        "finalAccount", "finalDelete", "finalRemove"}

Disturbed(kind) == ~calm /\ kind \in Faults

Quiet ==
  /\ pc = "idle" /\ queue = {}
  /\ \A c \in CRs : cacheFresh[c]
  /\ \A t \in ConfigTargets : ocacheFresh[t]

-----------------------------------------------------------------------------
(* Writes to the API server.  A write that changes nothing makes no new      *)
(* version, so every copy stays as fresh as it was.                          *)

StoreCR(c, r) ==
  /\ api' = [api EXCEPT ![c] = r]
  /\ cacheFresh' = [cacheFresh EXCEPT ![c] = @ /\ r = api[c]]
  /\ UNCHANGED cache

StoreObj(t, o) ==
  /\ objs' = [objs EXCEPT ![t] = o]
  /\ ocacheFresh' = [u \in ConfigTargets |->
                       ocacheFresh[u] /\ (u = t => o = objs[t])]
  /\ UNCHANGED ocache

(* Reconcile returns; err says whether it asks to be called again.           *)
Return(err) ==
  /\ pc' = "idle" /\ cur' = None /\ jt' = NoCR /\ jtFresh' = FALSE
  /\ goal' = NoGoal /\ retry' = FALSE
  /\ queue' = IF err THEN queue \cup {cur} ELSE queue

(* reconcile() sets the Ready condition and goes on to the status update.    *)
Finish(reason, err) ==
  /\ jt' = [jt EXCEPT !.ready = reason]
  /\ retry' = err
  /\ pc' = "status"
  /\ UNCHANGED <<cur, jtFresh>>

-----------------------------------------------------------------------------
(* Mutant of Take: finalizeRawOutput without its test of last.APIVersion.    *)
TakeAnyRecord(c) ==
  /\ pc = "idle" /\ c \in queue
  /\ queue' = queue \ {c}
  /\ LET r == cache[c] IN
     \/ /\ r.phase = "gone" \/ (r.phase = "deleting" /\ ~r.finalizer)
        /\ UNCHANGED workerVars
     \/ /\ r.phase = "live" \/ (r.phase = "deleting" /\ r.finalizer)
        /\ cur' = c /\ jt' = r /\ jtFresh' = cacheFresh[c]
        /\ pc' = IF r.phase = "live" THEN "inputs"
                 ELSE IF r.last # NoRef THEN "finalAccount"
                 ELSE "finalRemove"
        /\ UNCHANGED <<goal, retry>>
  /\ UNCHANGED <<crVars, objVars, envVars>>

(* Reconcile: the worker takes a key, reads the CR from the informer cache,  *)
(* and either finalizes a CR under deletion or reconciles a live one.        *)

Take(c) ==
  /\ pc = "idle" /\ c \in queue
  /\ queue' = queue \ {c}
  /\ LET r == cache[c] IN
     \/ /\ r.phase = "gone" \/ (r.phase = "deleting" /\ ~r.finalizer)
        /\ UNCHANGED workerVars
     \/ /\ r.phase = "live" \/ (r.phase = "deleting" /\ r.finalizer)
        /\ cur' = c /\ jt' = r /\ jtFresh' = cacheFresh[c]
        /\ pc' = IF r.phase = "live" THEN "inputs"
                 ELSE IF r.last.target \in RawTargets THEN "finalAccount"
                 ELSE "finalRemove"
        /\ UNCHANGED <<goal, retry>>
  /\ UNCHANGED <<crVars, objVars, envVars>>

(* validateSpec, the DNS and API sources, the templates, the rendering and   *)
(* parseRawObject: all of them only read.  Failures to read are retried, a   *)
(* spec, a template or a manifest that is wrong is not.                      *)
ResolveAndRender ==
  /\ pc = "inputs"
  /\ LET d == data[cur]
         valid == jt.spec.out # "InvalidSpec"
         rendered == valid /\ d \notin InputFailures
         t == IF IsRaw(jt.spec) THEN Render[jt.spec.out][d] ELSE jt.spec.out IN
     \/ /\ ~valid
        /\ Finish("InvalidSpec", FALSE)
        /\ UNCHANGED goal
     \/ /\ valid /\ ~rendered
        /\ Finish(d, d # "RenderFailed")
        /\ UNCHANGED goal
     \/ /\ rendered /\ t = "Unparsable"
        /\ Finish("RawObjectInvalid", FALSE)
        /\ UNCHANGED goal
     \/ /\ rendered /\ t # "Unparsable"
        /\ goal' = [target |-> t, data |-> d]
        /\ pc' = IF IsRaw(jt.spec) THEN "account" ELSE "finalizer"
        /\ UNCHANGED <<cur, jt, jtFresh, retry>>
  /\ UNCHANGED <<crVars, objVars, queue, envVars>>

(* Mutant of CheckManifest: a kind the API server does not know is final.    *)
CheckManifestOnce ==
  \/ goal.target = "UnknownKind" /\ Finish("OutputFailed", FALSE)
  \/ goal.target = "BadNamespace" /\ Finish("RawObjectInvalid", FALSE)
  \/ /\ goal.target \notin BadManifests
     /\ pc' = "finalizer"
     /\ UNCHANGED <<cur, jt, jtFresh, retry>>

(* isNamespacedKind and validateRawObjectNamespace, on the operator's side.  *)
CheckManifest ==
  \/ /\ goal.target = "UnknownKind"
     /\ Finish("OutputFailed", TRUE)
  \/ /\ goal.target = "BadNamespace"
     /\ Finish("RawObjectInvalid", FALSE)
  \/ /\ goal.target \notin BadManifests
     /\ pc' = "finalizer"
     /\ UNCHANGED <<cur, jt, jtFresh, retry>>

CheckServiceAccount ==
  /\ pc = "account"
  /\ \/ jt.spec.sa \in accounts /\ CheckManifest
     \/ jt.spec.sa \notin accounts /\ Finish("ServiceAccountNotFound", TRUE)
     \/ Disturbed("error") /\ Finish("OutputFailed", TRUE)
  /\ UNCHANGED <<crVars, objVars, queue, goal, envVars>>

-----------------------------------------------------------------------------
(* reconcileRawOutputFinalizer.  A failed update ends the reconcile with no   *)
(* condition set; the reply may be lost after the update was stored.         *)

WantsFinalizer == NeedsFinalizer(jt.spec, goal.target)

KeepFinalizer ==
  /\ pc = "finalizer" /\ jt.finalizer = WantsFinalizer
  /\ pc' = "cleanup"
  /\ UNCHANGED <<crVars, objVars, queue, cur, jt, jtFresh, goal, retry, envVars>>

StoreFinalizer == StoreCR(cur, [api[cur] EXCEPT !.finalizer = WantsFinalizer])

(* Mutant of UpdateFinalizer: the finalizer is patched in, whatever happened  *)
(* to the CR since it was read.                                              *)
PatchFinalizer ==
  /\ pc = "finalizer" /\ jt.finalizer # WantsFinalizer
  /\ IF api[cur].phase = "gone" THEN UNCHANGED crVars ELSE StoreFinalizer
  /\ jt' = [jt EXCEPT !.finalizer = WantsFinalizer]
  /\ pc' = "cleanup"
  /\ UNCHANGED <<objVars, queue, cur, jtFresh, goal, retry, envVars>>

(* Mutant of UpdateFinalizer: a failed update is logged and ignored.         *)
TryFinalizer ==
  /\ pc = "finalizer" /\ jt.finalizer # WantsFinalizer
  /\ \/ jtFresh /\ StoreFinalizer
     \/ (~jtFresh \/ Disturbed("error")) /\ UNCHANGED crVars
  /\ jt' = [jt EXCEPT !.finalizer = WantsFinalizer]
  /\ pc' = "cleanup"
  /\ UNCHANGED <<objVars, queue, cur, jtFresh, goal, retry, envVars>>

UpdateFinalizer ==
  /\ pc = "finalizer" /\ jt.finalizer # WantsFinalizer
  /\ \/ /\ jtFresh
        /\ StoreFinalizer
        /\ jt' = [jt EXCEPT !.finalizer = WantsFinalizer]
        /\ pc' = "cleanup"
        /\ UNCHANGED <<cur, jtFresh, retry>>
     \/ /\ ~jtFresh \/ Disturbed("error")
        /\ UNCHANGED crVars
        /\ Finish(jt.ready, TRUE)
     \/ /\ jtFresh /\ Disturbed("error")
        /\ StoreFinalizer
        /\ jtFresh' = FALSE /\ retry' = TRUE
        /\ pc' = "status"
        /\ UNCHANGED <<cur, jt>>
  /\ UNCHANGED <<objVars, queue, goal, envVars>>

-----------------------------------------------------------------------------
(* Deleting recorded outputs: ConfigMaps and Secrets as the operator, raw    *)
(* outputs as the ServiceAccount recorded with them.                         *)

DeleteIdentity == IF jt.last.sa # None THEN jt.last.sa ELSE jt.spec.sa

MayDelete ==
  \/ jt.last.target \in ConfigTargets
  \/ DeleteIdentity # None /\ "delete" \in grants[DeleteIdentity]

(* sameOutputRef: another ServiceAccount alone does not change the target.   *)
TargetChanged == jt.last.target \notin {None, goal.target}

(* Mutant of CleanupOldOutput: a raw output is forgotten after a switch.     *)
CleanupOldConfig ==
  /\ pc = "cleanup"
  /\ pc' = "apply"
  /\ IF TargetChanged /\ jt.last.target \in ConfigTargets
     THEN StoreObj(jt.last.target, NoObj) ELSE UNCHANGED objVars
  /\ UNCHANGED <<crVars, queue, cur, jt, jtFresh, goal, retry, envVars>>

(* cleanupOldOutput and cleanupOldRawOutput: errors are logged and ignored.  *)
CleanupOldOutput ==
  /\ pc = "cleanup"
  /\ pc' = "apply"
  /\ \/ TargetChanged /\ MayDelete /\ StoreObj(jt.last.target, NoObj)
     \/ TargetChanged /\ (~MayDelete \/ Disturbed("error")) /\ UNCHANGED objVars
     \/ ~TargetChanged /\ UNCHANGED objVars
  /\ UNCHANGED <<crVars, queue, cur, jt, jtFresh, goal, retry, envVars>>

-----------------------------------------------------------------------------
(* Writing the output *)

RecordOutput ==
  /\ jt' = [jt EXCEPT !.last = [target |-> goal.target, sa |-> jt.spec.sa],
                      !.ready = "RenderSuccess"]
  /\ retry' = FALSE
  /\ pc' = "status"
  /\ UNCHANGED <<cur, jtFresh>>

(* The mutate function of createOrUpdateConfigMap and createOrUpdateSecret:  *)
(* labels are merged and an owner is only ever added.                        *)
Mutate(o) == [exists |-> TRUE, owner |-> IF jt.spec.own THEN cur ELSE o.owner,
              label |-> cur, data |-> goal.data]

AlreadyOwned(o) == jt.spec.own /\ o.owner \notin {None, cur}

(* Mutant of CreateOrUpdateOutput: it writes without a resource version.     *)
WriteUnconditionally ==
  /\ pc = "apply" /\ ~IsRaw(jt.spec)
  /\ LET seen == ocache[goal.target] IN
     \/ /\ ~AlreadyOwned(seen)
        /\ StoreObj(goal.target, Mutate(seen)) /\ RecordOutput
     \/ /\ AlreadyOwned(seen)
        /\ UNCHANGED objVars /\ Finish("OutputFailed", TRUE)
  /\ UNCHANGED <<crVars, queue, goal, envVars>>

(* controllerutil.CreateOrUpdate reads the cached object and creates it,     *)
(* updates it with the cached resource version, or leaves it alone.          *)
CreateOrUpdateOutput ==
  /\ pc = "apply" /\ ~IsRaw(jt.spec)
  /\ LET t       == goal.target
         seen    == ocache[t]
         allowed == ~AlreadyOwned(seen)
         needed  == Mutate(seen) # seen
         current == IF seen.exists THEN ocacheFresh[t] ELSE ~objs[t].exists IN
     \/ /\ allowed /\ ~needed
        /\ UNCHANGED objVars
        /\ RecordOutput
     \/ /\ allowed /\ needed /\ current
        /\ StoreObj(t, Mutate(seen))
        /\ \/ RecordOutput
           \/ Disturbed("error") /\ Finish("OutputFailed", TRUE)
     \/ /\ ~allowed \/ (needed /\ (~current \/ Disturbed("error")))
        /\ UNCHANGED objVars
        /\ Finish("OutputFailed", TRUE)
  /\ UNCHANGED <<crVars, queue, goal, envVars>>

(* What is applied: a namespaced object gets an owner, and all CRs apply as   *)
(* the same field manager, so that the owner and the labels of an earlier     *)
(* apply by another CR are replaced.                                         *)
RenderedObject ==
  [exists |-> TRUE, label |-> cur, data |-> goal.data,
   owner |-> IF jt.spec.own /\ goal.target \in NamespacedTargets THEN cur ELSE None]

(* Mutant of ApplyRawObject: a denial is final.                              *)
ApplyRawObjectOnce ==
  /\ pc = "apply" /\ IsRaw(jt.spec)
  /\ IF "apply" \in grants[jt.spec.sa]
     THEN StoreObj(goal.target, RenderedObject) /\ RecordOutput
     ELSE UNCHANGED objVars /\ Finish("OutputForbidden", FALSE)
  /\ UNCHANGED <<crVars, queue, goal, envVars>>

(* applyRawObject: a forced server-side apply as the CR's ServiceAccount.    *)
ApplyRawObject ==
  /\ pc = "apply" /\ IsRaw(jt.spec)
  /\ LET granted == "apply" \in grants[jt.spec.sa] IN
     \/ /\ granted
        /\ StoreObj(goal.target, RenderedObject)
        /\ \/ RecordOutput
           \/ Disturbed("error") /\ Finish("OutputFailed", TRUE)
     \/ /\ ~granted
        /\ UNCHANGED objVars
        /\ Finish("OutputForbidden", TRUE)
     \/ /\ Disturbed("error")
        /\ UNCHANGED objVars
        /\ Finish("OutputFailed", TRUE)
  /\ UNCHANGED <<crVars, queue, goal, envVars>>

(* Mutant of UpdateStatus: errors of the update are swallowed.               *)
TryStatus ==
  /\ pc = "status"
  /\ \/ /\ jtFresh
        /\ StoreCR(cur, [api[cur] EXCEPT !.last = jt.last, !.ready = jt.ready])
     \/ (~jtFresh \/ Disturbed("error")) /\ UNCHANGED crVars
  /\ Return(retry)
  /\ UNCHANGED <<objVars, envVars>>

(* Status().Update at the end of every reconcile of a live CR.  A conflict   *)
(* requeues the CR, a CR that is gone or another error returns the error.    *)
UpdateStatus ==
  /\ pc = "status"
  /\ \/ /\ jtFresh
        /\ StoreCR(cur, [api[cur] EXCEPT !.last = jt.last, !.ready = jt.ready])
        /\ Return(retry) \/ (Disturbed("error") /\ Return(TRUE))
     \/ /\ ~jtFresh \/ Disturbed("error")
        /\ UNCHANGED crVars
        /\ Return(TRUE)
  /\ UNCHANGED <<objVars, envVars>>

-----------------------------------------------------------------------------
(* finalizeRawOutput and finalizeDeleteRawOutput: fail closed, so that every *)
(* error leaves the CR with its finalizer and asks for another reconcile.    *)

(* Mutant of CheckFinalAccount: a missing account ends the finalization.     *)
CheckFinalAccountOnce ==
  /\ pc = "finalAccount"
  /\ IF DeleteIdentity \in accounts \cup {None}
     THEN /\ pc' = "finalDelete"
          /\ UNCHANGED <<queue, cur, jt, jtFresh, goal, retry>>
     ELSE Return(FALSE)
  /\ UNCHANGED <<crVars, objVars, envVars>>

CheckFinalAccount ==
  /\ pc = "finalAccount"
  /\ LET found == DeleteIdentity \in accounts \cup {None} IN
     \/ /\ found
        /\ pc' = "finalDelete"
        /\ UNCHANGED <<queue, cur, jt, jtFresh, goal, retry>>
     \/ (~found \/ Disturbed("error")) /\ Return(TRUE)
  /\ UNCHANGED <<crVars, objVars, envVars>>

(* Mutant of DeleteRawOutput: a failed deletion does not keep the CR.        *)
TryDeleteRawOutput ==
  /\ pc = "finalDelete"
  /\ \/ MayDelete /\ StoreObj(jt.last.target, NoObj)
     \/ (~MayDelete \/ Disturbed("error")) /\ UNCHANGED objVars
  /\ pc' = "finalRemove"
  /\ UNCHANGED <<crVars, queue, cur, jt, jtFresh, goal, retry, envVars>>

DeleteRawOutput ==
  /\ pc = "finalDelete"
  /\ \/ /\ MayDelete
        /\ StoreObj(jt.last.target, NoObj)
        /\ \/ /\ pc' = "finalRemove"
              /\ UNCHANGED <<queue, cur, jt, jtFresh, goal, retry>>
           \/ Disturbed("error") /\ Return(TRUE)
     \/ /\ ~MayDelete \/ Disturbed("error")
        /\ UNCHANGED objVars
        /\ Return(TRUE)
  /\ UNCHANGED <<crVars, envVars>>

(* Without its last finalizer a CR under deletion disappears.                *)
RemoveFinalizer ==
  /\ pc = "finalRemove"
  /\ \/ /\ jtFresh
        /\ StoreCR(cur, [api[cur] EXCEPT !.finalizer = FALSE, !.phase = "gone"])
        /\ Return(FALSE) \/ (Disturbed("error") /\ Return(TRUE))
     \/ /\ ~jtFresh \/ Disturbed("error")
        /\ UNCHANGED crVars
        /\ Return(TRUE)
  /\ UNCHANGED <<objVars, envVars>>

Worker ==
  \/ \E c \in CRs : Take(c)
  \/ ResolveAndRender \/ CheckServiceAccount
  \/ KeepFinalizer \/ UpdateFinalizer \/ CleanupOldOutput
  \/ CreateOrUpdateOutput \/ ApplyRawObject \/ UpdateStatus
  \/ CheckFinalAccount \/ DeleteRawOutput \/ RemoveFinalizer

-----------------------------------------------------------------------------
(* Informers: the cache catches up with the API server and the change        *)
(* enqueues the CRs it is mapped to.                                         *)

SyncCR(c) ==
  /\ ~cacheFresh[c]
  /\ cache' = [cache EXCEPT ![c] = api[c]]
  /\ cacheFresh' = [cacheFresh EXCEPT ![c] = TRUE]
  /\ queue' = queue \cup {c}
  /\ UNCHANGED <<api, objVars, workerVars, envVars>>

(* objectIsOutputOfJinjaTemplate, over the CRs the cache lists.              *)
IsOutputOf(t, c) == cache[c].phase # "gone" /\ cache[c].spec.out = t

(* Mutant of SyncOutput: only events of sources and templates are mapped.     *)
SyncOutputUnmapped(t) ==
  /\ ~ocacheFresh[t]
  /\ ocache' = [ocache EXCEPT ![t] = objs[t]]
  /\ ocacheFresh' = [ocacheFresh EXCEPT ![t] = TRUE]
  /\ UNCHANGED <<queue, objs, crVars, workerVars, envVars>>

SyncOutput(t) ==
  /\ ~ocacheFresh[t]
  /\ ocache' = [ocache EXCEPT ![t] = objs[t]]
  /\ ocacheFresh' = [ocacheFresh EXCEPT ![t] = TRUE]
  /\ queue' = queue \cup {c \in CRs : IsOutputOf(t, c)}
  /\ UNCHANGED <<objs, crVars, workerVars, envVars>>

Informers == (\E c \in CRs : SyncCR(c)) \/ (\E t \in ConfigTargets : SyncOutput(t))

(* The cluster's garbage collector, for objects whose owner is gone.         *)
Collect(t) ==
  /\ \E c \in CRs : objs[t].owner = c /\ api[c].phase = "gone"
  /\ StoreObj(t, NoObj)
  /\ UNCHANGED <<crVars, queue, workerVars, envVars>>

-----------------------------------------------------------------------------
(* Users, other clients, and the operator's process *)

MayChange(c) ==
  /\ ~calm /\ api[c].phase = "live"
  /\ "race" \in Faults \/ Quiet

ChangeCR(c, r) ==
  /\ StoreCR(c, r)
  /\ jtFresh' = (jtFresh /\ c # cur)
  /\ UNCHANGED <<objVars, queue, pc, cur, jt, goal, retry, envVars>>

EditSpec(c, s) ==
  /\ MayChange(c) /\ s # api[c].spec
  /\ ChangeCR(c, [api[c] EXCEPT !.spec = s])

DeleteCR(c) ==
  /\ MayChange(c)
  /\ ChangeCR(c, [api[c] EXCEPT !.phase = IF api[c].finalizer THEN "deleting"
                                                              ELSE "gone"])

(* A source or template changes: the caches show it and the watches map the  *)
(* change to the CR.                                                         *)
ChangeData(c, d) ==
  /\ Disturbed("data") /\ d # data[c]
  /\ data' = [data EXCEPT ![c] = d]
  /\ queue' = IF cache[c].phase # "gone" THEN queue \cup {c} ELSE queue
  /\ UNCHANGED <<crVars, objVars, workerVars, accounts, grants, calm>>

ChangeAccounts(S) ==
  /\ Disturbed("rbac") /\ S # accounts
  /\ accounts' = S
  /\ UNCHANGED <<crVars, objVars, queue, workerVars, data, grants, calm>>

ChangeGrants(s, g) ==
  /\ Disturbed("rbac") /\ g # grants[s]
  /\ grants' = [grants EXCEPT ![s] = g]
  /\ UNCHANGED <<crVars, objVars, queue, workerVars, data, accounts, calm>>

Tamper(t) ==
  /\ Disturbed(IF t \in ConfigTargets THEN "tamper" ELSE "tamperRaw")
  /\ \/ objs[t].exists /\ StoreObj(t, NoObj)
     \/ ~objs[t].exists /\ StoreObj(t, Foreign)
     \/ objs[t].data # None /\ StoreObj(t, [objs[t] EXCEPT !.data = None])
  /\ UNCHANGED <<crVars, queue, workerVars, envVars>>

(* The operator stops anywhere and starts again: what it knew is lost, its   *)
(* caches are filled anew and every CR there is gets reconciled.             *)
Restart ==
  /\ Disturbed("crash")
  /\ cache' = api /\ cacheFresh' = [c \in CRs |-> TRUE]
  /\ ocache' = [t \in ConfigTargets |-> objs[t]]
  /\ ocacheFresh' = [t \in ConfigTargets |-> TRUE]
  /\ queue' = {c \in CRs : api[c].phase # "gone"}
  /\ pc' = "idle" /\ cur' = None /\ jt' = NoCR /\ jtFresh' = FALSE
  /\ goal' = NoGoal /\ retry' = FALSE
  /\ UNCHANGED <<api, objs, envVars>>

Calm ==
  /\ Disturbed("calm") /\ calm' = TRUE
  /\ UNCHANGED <<crVars, objVars, queue, workerVars, data, accounts, grants>>

Environment ==
  \/ \E c \in CRs : DeleteCR(c)
  \/ \E c \in CRs, s \in Specs : EditSpec(c, s)
  \/ \E c \in CRs, d \in Data \cup Failures : ChangeData(c, d)
  \/ \E S \in SUBSET SAs : ChangeAccounts(S)
  \/ \E s \in SAs, g \in SUBSET Verbs : ChangeGrants(s, g)
  \/ \E t \in Targets : Tamper(t)
  \/ Restart
  \/ Calm

-----------------------------------------------------------------------------
Init ==
  /\ api \in [CRs -> {NewCR(s) : s \in Specs}]
  /\ objs = [t \in Targets |-> NoObj]
  /\ cache = api /\ cacheFresh = [c \in CRs |-> TRUE]
  /\ ocache = [t \in ConfigTargets |-> NoObj]
  /\ ocacheFresh = [t \in ConfigTargets |-> TRUE]
  /\ queue = CRs
  /\ pc = "idle" /\ cur = None /\ jt = NoCR /\ jtFresh = FALSE
  /\ goal = NoGoal /\ retry = FALSE
  /\ data \in [CRs -> Data \cup Failures]
  /\ accounts = SAs
  /\ grants = [s \in SAs |-> Verbs]
  /\ calm = FALSE

Next == Worker \/ Informers \/ (\E t \in Targets : Collect(t)) \/ Environment

Spec == Init /\ [][Next]_vars

(* The worker goroutine, the watches and the garbage collector keep running, *)
(* and the workqueue is first in first out: no key waits in it for ever.     *)
Fairness ==
  /\ WF_vars(Worker)
  /\ \A c \in CRs : SF_vars(Take(c)) /\ WF_vars(SyncCR(c))
  /\ \A t \in ConfigTargets : WF_vars(SyncOutput(t))
  /\ \A t \in Targets : WF_vars(Collect(t))

FairSpec == Spec /\ Fairness

-----------------------------------------------------------------------------
(* Type correctness: the shape of the state, and which calls of the worker   *)
(* a ConfigMap, Secret or RawObject spec leads to.                           *)
TypeOK ==
  /\ api \in [CRs -> CRRecords] /\ cache \in [CRs -> CRRecords]
  /\ cacheFresh \in [CRs -> BOOLEAN]
  /\ objs \in [Targets -> Objects] /\ ocache \in [ConfigTargets -> Objects]
  /\ ocacheFresh \in [ConfigTargets -> BOOLEAN]
  /\ queue \subseteq CRs
  /\ pc \in PCs /\ cur \in CRs \cup {None} /\ (pc # "idle" => cur \in CRs)
  /\ jt \in CRRecords /\ jtFresh \in BOOLEAN
  /\ goal \in Goals /\ retry \in BOOLEAN
  /\ data \in [CRs -> Data \cup Failures]
  /\ accounts \subseteq SAs /\ grants \in [SAs -> SUBSET Verbs]
  /\ calm \in BOOLEAN
  /\ pc \in {"account", "finalizer", "cleanup", "apply"} => goal.data \in Data
  /\ pc = "account" =>
       IsRaw(jt.spec) /\ goal.target \in RawTargets \cup BadManifests
  /\ pc \in {"finalizer", "cleanup", "apply"} =>
       goal.target \in (IF IsRaw(jt.spec) THEN RawTargets ELSE ConfigTargets)
  /\ pc \in {"finalAccount", "finalDelete"} => jt.last.target \in RawTargets

(* "The finalizer must be in place before the object exists": when the apply *)
(* of a cluster-scoped output with owner semantics is sent, the stored CR    *)
(* has the finalizer, however stale the copy was the worker decided on.      *)
FinalizerBeforeApply ==
  pc = "apply" /\ NeedsFinalizer(jt.spec, goal.target) =>
    api[cur].finalizer /\ api[cur].phase # "gone"

(* What the data of a CR lets its template render to never changes between   *)
(* a namespaced and a cluster-scoped kind.                                   *)
ScopeStable ==
  \A m \in Manifests, d, e \in Data :
    ~(Render[m][d] \in ClusterTargets /\ Render[m][e] \in NamespacedTargets)

-----------------------------------------------------------------------------
(* Why FinalizerBeforeApply holds: an inductive strengthening of it.          *)

(* Some data makes the output of this spec a cluster-scoped object the        *)
(* operator has to delete itself.                                             *)
MayNeedFinalizer(spec) ==
  \E d \in Data : IsRaw(spec) /\ NeedsFinalizer(spec, Render[spec.out][d])

(* A copy of a live CR that shows the finalizer is right about it, as long as *)
(* the spec in that copy may need it: only a reconcile of a spec that does    *)
(* not need it, or of a CR under deletion, removes the finalizer.             *)
RightAboutFinalizer(r, c) ==
  r.phase = "live" /\ r.finalizer /\ MayNeedFinalizer(r.spec) => api[c].finalizer

ReconcilePCs == {"inputs", "account", "finalizer", "cleanup", "apply", "status"}
FinalizePCs  == {"finalAccount", "finalDelete", "finalRemove"}

(* A copy marked fresh shows what is stored, apart from the status fields the *)
(* worker is about to write.                                                  *)
FreshCRs ==
  /\ \A c \in CRs : cacheFresh[c] => cache[c] = api[c]
  /\ pc # "idle" /\ jtFresh =>
       /\ jt.phase = api[cur].phase
       /\ jt.spec = api[cur].spec
       /\ jt.finalizer = api[cur].finalizer

FinalizerInv ==
  /\ FreshCRs
  /\ \A c \in CRs : api[c].phase = "gone" => ~api[c].finalizer
  /\ \A c \in CRs : RightAboutFinalizer(cache[c], c)
  /\ pc \in ReconcilePCs => jt.phase = "live"
  /\ pc \in FinalizePCs => jt.phase = "deleting"
  /\ pc \in ReconcilePCs \ {"status"} => RightAboutFinalizer(jt, cur)
  /\ pc \in {"inputs", "account", "finalizer"} \cup FinalizePCs /\ jtFresh =>
       cacheFresh[cur]
  /\ pc \in {"account", "finalizer", "cleanup", "apply"} /\ IsRaw(jt.spec) =>
       goal.target = Render[jt.spec.out][goal.data]
  /\ pc \in {"cleanup", "apply"} => jt.finalizer = WantsFinalizer

-----------------------------------------------------------------------------
(* What the operator promises of the outputs.                                 *)

(* The target a spec has with the data d.                                    *)
TargetOf(spec, d) == IF IsRaw(spec) THEN Render[spec.out][d] ELSE spec.out

(* The condition a reconcile that needs no retry ends with.                  *)
Outcome(spec, d) ==
  CASE spec.out = "InvalidSpec"                      -> "InvalidSpec"
    [] spec.out # "InvalidSpec" /\ d = "RenderFailed" -> "RenderFailed"
    [] spec.out # "InvalidSpec" /\ d \in Data
       /\ TargetOf(spec, d) \in {"Unparsable", "BadNamespace"} -> "RawObjectInvalid"
    [] OTHER                                         -> "RenderSuccess"

(* Raw outputs are not watched: what became of one is known only if nobody    *)
(* else writes it.                                                           *)
RawOutputsAlone == "tamperRaw" \notin Faults /\ \A c, d \in CRs : c = d

IsWritten(c, spec, t) ==
  /\ objs[t].exists /\ objs[t].label = c /\ objs[t].data = data[c]
  /\ spec.own /\ t \notin ClusterTargets => objs[t].owner = c

Delivered(c, r, t) ==
  /\ r.last = [target |-> t, sa |-> r.spec.sa]
  /\ r.finalizer = NeedsFinalizer(r.spec, t)
  /\ t \in ConfigTargets \/ RawOutputsAlone => IsWritten(c, r.spec, t)

(* The CR record r tells the truth about the outputs of c.                   *)
IsTrue(c, r) ==
  LET outcome == Outcome(r.spec, data[c]) IN
  /\ r.ready = outcome
  /\ outcome = "RenderSuccess" =>
       data[c] \in Data /\ Delivered(c, r, TargetOf(r.spec, data[c]))

TellsTruth(c) == IsTrue(c, api[c])

(* No change is lost: when the operator has nothing left to do, every live   *)
(* CR tells the truth about its current spec and data, and a Ready one has   *)
(* its output, as rendered, with the owner and the finalizer that go with    *)
(* it, whatever others do to ConfigMaps and Secrets.                         *)
SettledTellsTruth ==
  Quiet => \A c \in CRs : api[c].phase = "live" => TellsTruth(c)

(* Every object the operator wrote for a live CR is the one recorded in its  *)
(* status when the operator has nothing left to do: only what is recorded is *)
(* ever cleaned up.                                                          *)
OutputsAreRecorded ==
  Quiet => \A t \in Targets, c \in CRs :
    objs[t].label = c /\ api[c].phase = "live" => api[c].last.target = t

(* Nothing the operator wrote for a CR with owner semantics outlives the CR, *)
(* but for objects the garbage collector is about to remove.                 *)
NothingOutlivesOwner ==
  Quiet => \A t \in Targets, c \in CRs :
    objs[t].label = c /\ api[c].phase = "gone" =>
      objs[t].owner = c \/ ~api[c].spec.own

(* "The finalizer is present exactly when the operator is responsible for      *)
(* deleting a cluster-scoped raw output": no such output that the status of a  *)
(* CR with owner semantics records is left when the CR is gone.               *)
RecordedGoesWithOwner ==
  Quiet => \A c \in CRs :
    /\ api[c].phase = "gone" /\ api[c].spec.own
    /\ api[c].last.target \in ClusterTargets
    => objs[api[c].last.target].label # c

(* A CR under deletion disappears only after the raw output recorded in its  *)
(* status is gone (finalizeRawOutput): what has that name then was created   *)
(* by others since.                                                          *)
FinalizedOutputIsGone ==
  [][\A c \in CRs :
       /\ api[c].phase = "deleting" /\ api'[c].phase = "gone"
       /\ api[c].last.target \in RawTargets
       => objs'[api[c].last.target].label = None]_vars

(* The controller of a ConfigMap or Secret never changes, though CRs without  *)
(* owner semantics may overwrite its content: CreateOrUpdate refuses an object *)
(* it sees to be owned to a CR with them, and an outdated view of the object  *)
(* makes its write fail.                                                     *)
ControllerNeverChanges ==
  [][\A t \in ConfigTargets :
       objs[t].owner # None /\ objs'[t].exists => objs'[t].owner = objs[t].owner]_vars

(* cleanupOldOutput "deletes the previously created output resource": what a *)
(* CR cleans up is not an object another CR created since and controls.      *)
CleansUpOwnOutput ==
  [][\A t \in Targets :
       pc = "cleanup" /\ pc' = "apply" /\ objs[t].exists /\ ~objs'[t].exists =>
         objs[t].owner \in {cur, None}]_vars

-----------------------------------------------------------------------------
(* Why the promises about outputs hold.                                       *)

(* Users give CRs their specs, and every copy has one of these.               *)
SpecsInv ==
  /\ \A c \in CRs : {api[c].spec, cache[c].spec} \subseteq Specs
  /\ pc # "idle" => jt.spec \in Specs

(* Copies marked fresh show what is stored; an object that is not there has   *)
(* nothing.                                                                  *)
CopiesInv ==
  /\ FreshCRs
  /\ pc \notin {"idle", "status"} /\ jtFresh => jt = api[cur]
  /\ \A t \in ConfigTargets : ocacheFresh[t] => ocache[t] = objs[t]
  /\ \A t \in Targets : objs[t].exists \/ objs[t] = NoObj
  /\ \A t \in ConfigTargets : ocache[t].exists \/ ocache[t] = NoObj

(* A CR never comes back: a copy under deletion, or of a CR that is gone, is   *)
(* never one of a live CR.                                                   *)
PhasesInv ==
  /\ \A c \in CRs : api[c].phase = "live" => cache[c].phase = "live"
  /\ pc \in ReconcilePCs => jt.phase = "live"
  /\ pc \in FinalizePCs => jt.phase = "deleting" /\ api[cur].phase # "live"

(* Once the worker has deleted a raw output of a CR under deletion, nothing   *)
(* the operator wrote is there.                                              *)
DeletionInv ==
  pc = "finalRemove" /\ jt.last.target \in RawTargets => objs[jt.last.target].label = None

(* Something will make the operator reconcile c again.                        *)
Woken(c) ==
  \/ c \in queue \/ ~cacheFresh[c]
  \/ \E t \in ConfigTargets : ~ocacheFresh[t] /\ IsOutputOf(t, c)

(* The goal of a reconcile is that of the current data, or the change of the  *)
(* data has enqueued the CR.                                                 *)
GoalInv ==
  /\ pc \in {"account", "finalizer", "cleanup", "apply"} =>
       /\ jt.spec.out # "InvalidSpec"
       /\ goal.target = TargetOf(jt.spec, goal.data)
       /\ jtFresh => goal.data = data[cur] \/ cur \in queue
  /\ pc \in {"cleanup", "apply"} => jt.finalizer = WantsFinalizer

(* What the worker is about to store is true, or it will look again.          *)
VerdictInv ==
  pc = "status" /\ jtFresh /\ ~retry => IsTrue(cur, jt) \/ Woken(cur)

(* Each live CR tells the truth, or the operator will look at it again.       *)
TruthInv ==
  \A c \in CRs : api[c].phase = "live" =>
    TellsTruth(c) \/ Woken(c) \/ (pc # "idle" /\ cur = c)

OutputInv == /\ SpecsInv /\ CopiesInv /\ PhasesInv /\ DeletionInv
             /\ GoalInv /\ VerdictInv /\ TruthInv

-----------------------------------------------------------------------------
(* Why cleanup is complete, if nothing stands in its way: users change CRs     *)
(* only while the operator rests, calls do not fail, rights stay, and the      *)
(* data of a CR, if they change, do not move its output.                       *)
Undisturbed ==
  /\ Faults \cap {"race", "error", "rbac"} = {}
  /\ "data" \in Faults =>
       /\ "RenderFailed" \notin Failures
       /\ \A m \in Manifests : \E t \in RawTargets \cup BadManifests :
            \A d \in Data : Render[m][d] \in {t, "UnknownKind"}

(* What the data of c can be.                                                *)
DataOf(c) == IF "data" \in Faults THEN Data ELSE Data \cap {data[c]}

(* The outputs a reconcile with the spec s can write.                         *)
OutputsOf(s, D) == {t \in Targets : s.out # "InvalidSpec" /\ \E d \in D : t = TargetOf(s, d)}

(* A copy that shows a spec, or a CR, that is no more is one of a CR at rest:  *)
(* its output is the one recorded.                                           *)
Outdated(c, r) == r.phase = "live" /\ (api[c].phase # "live" \/ r.spec # api[c].spec)

AtRest(c, r) ==
  /\ r.last.target = api[c].last.target /\ r.finalizer = api[c].finalizer
  /\ OutputsOf(r.spec, DataOf(c)) \subseteq {r.last.target}
  /\ api[c].phase # "live" => r.spec = api[c].spec

OutdatedInv ==
  /\ \A c \in CRs : Outdated(c, cache[c]) => AtRest(c, cache[c])
  /\ pc \in ReconcilePCs \ {"status"} /\ Outdated(cur, jt) => AtRest(cur, jt)
  /\ pc # "idle" /\ jtFresh => cache[cur].spec = api[cur].spec
  /\ pc \in FinalizePCs => cache[cur].phase # "live"
  /\ pc \in {"account", "finalizer", "cleanup", "apply"} => goal.data \in DataOf(cur)

(* A recorded raw output can be deleted.                                      *)
Deletable(ref) == ref.target \in RawTargets => ref.sa \in SAs

AccessInv ==
  /\ \A s \in SAs : "delete" \in grants[s]
  /\ \A c \in CRs : Deletable(api[c].last) /\ Deletable(cache[c].last)
  /\ Deletable(jt.last)

(* What a live CR has written is recorded, or its next reconcile writes and    *)
(* records it again.                                                         *)
RecordedInv ==
  /\ \A c \in CRs, t \in Targets : api[c].phase = "live" /\ objs[t].label = c =>
       t \in OutputsOf(api[c].spec, DataOf(c)) \cup {api[c].last.target}
  /\ pc = "apply" /\ jtFresh => \A t \in Targets :
       objs[t].label = cur => t \in OutputsOf(jt.spec, DataOf(cur))
  /\ pc = "status" /\ jtFresh => \A t \in Targets :
       objs[t].label = cur => t \in OutputsOf(jt.spec, DataOf(cur)) \cup {jt.last.target}

CleanupInv == AccessInv /\ OutdatedInv /\ RecordedInv

(* Either all specs have owner semantics, or those that do never fail without  *)
(* a retry.                                                                  *)
FailsForGood(s) ==
  \/ s.out = "InvalidSpec" \/ "RenderFailed" \in Failures
  \/ \E d \in Data : TargetOf(s, d) \in {"Unparsable", "BadNamespace"}
AllOwn     == \A s \in Specs : s.own
OwnSettles == AllOwn \/ \A s \in Specs : s.own => ~FailsForGood(s)

OwnsRaw(c) == \A t \in NamespacedTargets :
  objs[t].label = c /\ api[c].spec.own => objs[t].owner = c

(* A namespaced raw output of a CR with owner semantics has the CR as owner,   *)
(* or the operator will look at it again.                                     *)
OwnedInv ==
  /\ \A c \in CRs : api[c].phase = "live" =>
       OwnsRaw(c) \/ Woken(c) \/ (pc # "idle" /\ cur = c)
  /\ pc = "status" /\ jtFresh /\ ~retry => OwnsRaw(cur) \/ Woken(cur)
  /\ AllOwn => \A c \in CRs, t \in Targets \ ClusterTargets :
       objs[t].label = c => objs[t].owner = c
  /\ AllOwn => \A c \in CRs, t \in ClusterTargets :
       api[c].phase = "live" /\ objs[t].label = c =>
         api[c].finalizer \/ OutputsOf(api[c].spec, DataOf(c)) # {}

(* A CR that users deleted leaves what the garbage collector or the            *)
(* finalization will delete, and what the finalization is to delete is         *)
(* recorded.                                                                 *)
LeftInv ==
  /\ \A c \in CRs, t \in Targets : api[c].phase = "deleting" /\ objs[t].label = c =>
       t = api[c].last.target /\ (api[c].spec.own => objs[t].owner = c \/ t \in ClusterTargets)
  /\ \A c \in CRs, t \in Targets :
       api[c].phase = "gone" /\ objs[t].label = c /\ api[c].spec.own => objs[t].owner = c
  /\ \A c \in CRs : api[c].phase = "gone" => ~api[c].finalizer

-----------------------------------------------------------------------------
(* Nothing but the operator is missing any more: inputs can be read, the     *)
(* ServiceAccounts are there and have their grants.                          *)
Serviceable ==
  /\ calm
  /\ \A c \in CRs : data[c] \notin InputFailures \ {"RenderFailed"}
  /\ accounts = SAs
  /\ \A s \in SAs : grants[s] = Verbs

(* "Granting the permission turns the CR green on its own", though nothing   *)
(* wakes the operator up when it is granted; and then the operator rests: no *)
(* two of its writes keep waking each other up.                              *)
TurnsGreen ==
  Serviceable ~>
    [](Quiet /\ \A c \in CRs : api[c].phase = "live" => TellsTruth(c))

(* A CR stuck in Terminating for its ServiceAccount or its grants goes when  *)
(* they are back.                                                            *)
TerminatingEnds ==
  \A c \in CRs : Serviceable /\ api[c].phase = "deleting" ~> api[c].phase = "gone"

=============================================================================
