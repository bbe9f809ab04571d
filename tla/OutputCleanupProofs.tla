------------------------ MODULE OutputCleanupProofs -------------------------
(***************************************************************************)
(* That cleanup is complete if nothing stands in its way, for every set of   *)
(* CRs, targets, ServiceAccounts and specs: the theorems of OutputController *)
(* that rest on CleanupInv, OwnedInv and LeftInv.                            *)
(***************************************************************************)
EXTENDS OutputTruthProofs

-----------------------------------------------------------------------------
(* What is ruled out *)

LEMMA NothingFails ==
  ASSUME Undisturbed
  PROVE  ~Disturbed("race") /\ ~Disturbed("error") /\ ~Disturbed("rbac") /\ "race" \notin Faults
  BY DEF Undisturbed, Disturbed

(* The data of a CR stay among those considered.                              *)
LEMMA DataSteady ==
  ASSUME TypeOK, [Next]_vars, NEW c \in CRs
  PROVE  DataOf(c)' = DataOf(c)
<1>1. CASE data'[c] = data[c]
  BY <1>1 DEF DataOf
<1>2. ASSUME NEW d \in CRs, NEW x \in Data \cup Failures, ChangeData(d, x)
      PROVE  "data" \in Faults
  BY <1>2 DEF ChangeData, Disturbed
<1>3. \/ \E d \in CRs : Take(d)
      \/ ReconcileStep \/ UpdateStatus \/ FinalizeStep \/ OutsideStep \/ Restart
      => UNCHANGED data
  BY ReconcileSteps, FinalizeSteps, OutsideSteps DEF Take, UpdateStatus, Restart, envVars
<1> QED BY <1>1, <1>2, <1>3, Steps DEF DataOf

(* A spec has at most one output then.                                        *)
LEMMA OneOutput ==
  ASSUME Undisturbed, NEW c \in CRs, NEW s \in Specs,
         NEW t \in OutputsOf(s, DataOf(c)), NEW u \in OutputsOf(s, DataOf(c))
  PROVE  t = u
<1>1. t \in Targets /\ u \in Targets /\ s.out # "InvalidSpec"
  BY DEF OutputsOf
<1>2. PICK d \in DataOf(c) : t = TargetOf(s, d)
  BY DEF OutputsOf
<1>3. PICK e \in DataOf(c) : u = TargetOf(s, e)
  BY DEF OutputsOf
<1>4. d \in Data /\ e \in Data /\ ("data" \notin Faults => d = e)
  BY DEF DataOf
<1>5. CASE IsRaw(s) /\ "data" \in Faults
  <2>1. PICK w : \A x \in Data : Render[s.out][x] \in {w, "UnknownKind"}
    BY <1>5 DEF Undisturbed, IsRaw
  <2>2. "UnknownKind" \notin Targets
    BY ConstantsAssumption DEF BadManifests
  <2> QED BY <1>1, <1>2, <1>3, <1>4, <1>5, <2>1, <2>2 DEF TargetOf
<1> QED BY <1>2, <1>3, <1>4, <1>5 DEF TargetOf

-----------------------------------------------------------------------------
(* The operator at rest *)

(* A live CR that tells the truth has failed for good, or its output is the    *)
(* one recorded.                                                             *)
LEMMA Rest ==
  ASSUME TypeOK, SpecsInv, TruthInv, Undisturbed, Quiet, NEW c \in CRs, api[c].phase = "live"
  PROVE  \/ OutputsOf(api[c].spec, DataOf(c)) = {} /\ FailsForGood(api[c].spec)
         \/ /\ api[c].spec.out # "InvalidSpec" /\ data[c] \in Data
            /\ TargetOf(api[c].spec, data[c]) \in Targets
            /\ Delivered(c, api[c], TargetOf(api[c].spec, data[c]))
            /\ OutputsOf(api[c].spec, DataOf(c)) \subseteq {api[c].last.target}
<1> DEFINE s == api[c].spec
           d == data[c]
           T == TargetOf(s, d)
           O == OutputsOf(s, DataOf(c))
<1>1. s \in Specs /\ TellsTruth(c) /\ d \in Data \cup Failures /\ api[c] \in CRRecords
  BY DEF SpecsInv, TruthInv, Quiet, Woken, TypeOK
<1>2. CASE s.out = "InvalidSpec"
  BY <1>2 DEF OutputsOf, FailsForGood
<1>3. CASE s.out # "InvalidSpec" /\ d = "RenderFailed"
  <2>1. "RenderFailed" \in Failures /\ "RenderFailed" \notin Data
    BY <1>1, <1>3, ConstantsAssumption DEF InputFailures
  <2>2. "data" \notin Faults
    BY <2>1 DEF Undisturbed
  <2>3. DataOf(c) = {}
    BY <1>3, <2>1, <2>2 DEF DataOf
  <2> QED BY <2>1, <2>3 DEF OutputsOf, FailsForGood
<1>4. CASE s.out # "InvalidSpec" /\ d \in Data /\ T \in {"Unparsable", "BadNamespace"}
  <2>1. T \notin Targets /\ T # "UnknownKind" /\ "UnknownKind" \notin Targets
    BY <1>4, ConstantsAssumption DEF BadManifests
  <2>2. ASSUME NEW t \in O PROVE FALSE
    <3>1. PICK e \in DataOf(c) : t = TargetOf(s, e)
      BY <2>2 DEF OutputsOf
    <3>2. t \in Targets /\ e \in Data /\ ("data" \notin Faults => e = d)
      BY <2>2 DEF OutputsOf, DataOf
    <3>3. IsRaw(s)
      BY <1>1, <1>4, <2>1, TargetOfSpec DEF Targets
    <3>4. "data" \in Faults
      BY <2>1, <3>1, <3>2
    <3>5. PICK w : \A x \in Data : Render[s.out][x] \in {w, "UnknownKind"}
      BY <3>3, <3>4 DEF Undisturbed, IsRaw
    <3> QED BY <1>4, <2>1, <3>1, <3>2, <3>3, <3>5 DEF TargetOf
  <2> QED BY <1>4, <2>2 DEF FailsForGood
<1>5. CASE /\ s.out # "InvalidSpec" /\ d # "RenderFailed"
           /\ ~(d \in Data /\ T \in {"Unparsable", "BadNamespace"})
  <2>1. Outcome(s, d) = "RenderSuccess"
    BY <1>5 DEF Outcome
  <2>2. d \in Data /\ Delivered(c, api[c], T)
    BY <1>1, <2>1 DEF TellsTruth, IsTrue
  <2>3. api[c].last.target = T /\ T \in Targets \cup {None}
    BY <1>1, <2>2 DEF Delivered, CRRecords, Refs
  <2>4. T \in Targets
    BY <1>1, <1>5, <2>2, <2>3, TargetOfSpec, ConstantsAssumption DEF Targets
  <2>5. T \in O
    BY <1>5, <2>2, <2>4 DEF OutputsOf, DataOf
  <2>6. O \subseteq {T}
    BY <1>1, <2>5, OneOutput
  <2> QED BY <1>5, <2>2, <2>3, <2>4, <2>6
<1> QED BY <1>2, <1>3, <1>4, <1>5

-----------------------------------------------------------------------------
(* What the steps do to CRs *)

(* All but c are as they were, and in c the fields that are no status stay.   *)
Rewritten(c, phase, spec, finalizer, last) ==
  /\ \A d \in CRs : d # c => api'[d] = api[d]
  /\ api'[c].phase = phase /\ api'[c].spec = spec
  /\ api'[c].finalizer = finalizer /\ api'[c].last = last
  /\ UNCHANGED <<cache, objs, data>>

FinalizerStored ==
  /\ pc = "finalizer" /\ pc' = "cleanup" /\ cur \in CRs /\ cur' = cur /\ jtFresh
  /\ goal' = goal /\ jt'.last = jt.last /\ jt'.finalizer = WantsFinalizer
  /\ jt = api[cur] /\ api[cur].phase = "live"
  /\ Rewritten(cur, "live", api[cur].spec, WantsFinalizer, api[cur].last)

StatusStored ==
  /\ pc = "status" /\ pc' = "idle" /\ cur \in CRs /\ jtFresh
  /\ api[cur].phase = "live" /\ jt.spec = api[cur].spec
  /\ Rewritten(cur, "live", api[cur].spec, api[cur].finalizer, jt.last)

CRRemoved ==
  /\ pc = "finalRemove" /\ pc' = "idle" /\ cur \in CRs /\ jtFresh
  /\ api[cur].phase = "deleting" /\ jt = api[cur]
  /\ Rewritten(cur, "gone", api[cur].spec, FALSE, api[cur].last)

UserEdited(c) ==
  /\ Quiet /\ pc' = "idle" /\ api[c].phase = "live" /\ ~cacheFresh'[c]
  /\ \E s \in Specs : Rewritten(c, "live", s, api[c].finalizer, api[c].last)

UserDeleted(c) ==
  /\ Quiet /\ pc' = "idle" /\ api[c].phase = "live"
  /\ Rewritten(c, IF api[c].finalizer THEN "deleting" ELSE "gone",
               api[c].spec, api[c].finalizer, api[c].last)

LEMMA CRWrites ==
  ASSUME TypeOK, CopiesInv, PhasesInv, Undisturbed, [Next]_vars
  PROVE  \/ UNCHANGED api
         \/ FinalizerStored \/ StatusStored \/ CRRemoved
         \/ \E c \in CRs : UserEdited(c) \/ UserDeleted(c)
<1> DEFINE Goal == \/ UNCHANGED api
                   \/ FinalizerStored \/ StatusStored \/ CRRemoved
                   \/ \E c \in CRs : UserEdited(c) \/ UserDeleted(c)
<1>1. ASSUME NEW c \in CRs, NEW r, StoreCR(c, r)
      PROVE  /\ api'[c] = r /\ UNCHANGED cache
             /\ \A d \in CRs : d # c => api'[d] = api[d]
             /\ r # api[c] => ~cacheFresh'[c]
  BY <1>1, StoreCREffect
<1>2. pc # "idle" => cur \in CRs /\ api[cur] \in CRRecords /\ jt \in CRRecords
  BY DEF TypeOK
<1>3. ASSUME UpdateFinalizer, api' # api PROVE FinalizerStored
  <2>1. /\ pc = "finalizer" /\ jtFresh /\ StoreFinalizer /\ pc' = "cleanup"
        /\ jt' = [jt EXCEPT !.finalizer = WantsFinalizer]
        /\ UNCHANGED <<cur, goal, objs, data>>
    BY <1>3, NothingFails DEF UpdateFinalizer, crVars, objVars, envVars
  <2>2. jt = api[cur] /\ jt.phase = "live"
    BY <2>1 DEF CopiesInv, PhasesInv, ReconcilePCs
  <2>3. api'[cur] = [api[cur] EXCEPT !.finalizer = WantsFinalizer]
    BY <1>1, <1>2, <2>1 DEF StoreFinalizer
  <2>4. /\ api'[cur].phase = api[cur].phase /\ api'[cur].spec = api[cur].spec
        /\ api'[cur].finalizer = WantsFinalizer /\ api'[cur].last = api[cur].last
        /\ jt'.last = jt.last /\ jt'.finalizer = WantsFinalizer
    BY <1>2, <2>1, <2>3 DEF CRRecords
  <2> QED BY <1>1, <1>2, <2>1, <2>2, <2>4 DEF StoreFinalizer, FinalizerStored, Rewritten
<1>4. ASSUME UpdateStatus, api' # api PROVE StatusStored
  <2>1. /\ pc = "status" /\ pc' = "idle" /\ jtFresh /\ UNCHANGED <<objs, data>>
        /\ StoreCR(cur, [api[cur] EXCEPT !.last = jt.last, !.ready = jt.ready])
    BY <1>4 DEF UpdateStatus, Return, crVars, objVars, envVars
  <2>2. jt.phase = api[cur].phase /\ jt.spec = api[cur].spec /\ jt.phase = "live"
    BY <2>1 DEF CopiesInv, FreshCRs, PhasesInv, ReconcilePCs
  <2>3. api'[cur] = [api[cur] EXCEPT !.last = jt.last, !.ready = jt.ready]
    BY <1>1, <1>2, <2>1
  <2>4. /\ api'[cur].phase = api[cur].phase /\ api'[cur].spec = api[cur].spec
        /\ api'[cur].finalizer = api[cur].finalizer /\ api'[cur].last = jt.last
    BY <1>2, <2>1, <2>3 DEF CRRecords
  <2> QED BY <1>1, <1>2, <2>1, <2>2, <2>4 DEF StatusStored, Rewritten
<1>5. ASSUME RemoveFinalizer, api' # api PROVE CRRemoved
  <2>1. /\ pc = "finalRemove" /\ pc' = "idle" /\ jtFresh /\ UNCHANGED <<objs, data>>
        /\ StoreCR(cur, [api[cur] EXCEPT !.finalizer = FALSE, !.phase = "gone"])
    BY <1>5 DEF RemoveFinalizer, Return, crVars, objVars, envVars
  <2>2. jt = api[cur] /\ jt.phase = "deleting"
    BY <2>1 DEF CopiesInv, PhasesInv, FinalizePCs
  <2>3. api'[cur] = [api[cur] EXCEPT !.finalizer = FALSE, !.phase = "gone"]
    BY <1>1, <1>2, <2>1
  <2>4. /\ api'[cur].phase = "gone" /\ api'[cur].spec = api[cur].spec
        /\ api'[cur].finalizer = FALSE /\ api'[cur].last = api[cur].last
    BY <1>2, <2>1, <2>3 DEF CRRecords
  <2> QED BY <1>1, <1>2, <2>1, <2>2, <2>4 DEF CRRemoved, Rewritten
<1>6. ASSUME NEW c \in CRs, NEW r, ChangeCR(c, r), MayChange(c), r # api[c]
      PROVE  /\ Quiet /\ pc' = "idle" /\ api[c].phase = "live" /\ ~cacheFresh'[c]
             /\ api'[c] = r /\ \A d \in CRs : d # c => api'[d] = api[d]
             /\ UNCHANGED <<cache, objs, data>>
  BY <1>1, <1>6, NothingFails DEF ChangeCR, MayChange, Quiet, objVars, envVars
<1>7. ASSUME NEW c \in CRs, NEW s \in Specs, EditSpec(c, s) PROVE UserEdited(c)
  <2> DEFINE r == [api[c] EXCEPT !.spec = s]
  <2>1. api[c] \in CRRecords /\ s # api[c].spec
    BY <1>7 DEF TypeOK, EditSpec
  <2>2. /\ r.phase = api[c].phase /\ r.spec = s /\ r # api[c]
        /\ r.finalizer = api[c].finalizer /\ r.last = api[c].last
    BY <2>1 DEF CRRecords
  <2> QED BY <1>6, <1>7, <2>2 DEF EditSpec, UserEdited, Rewritten
<1>8. ASSUME NEW c \in CRs, DeleteCR(c) PROVE UserDeleted(c)
  <2> DEFINE p == IF api[c].finalizer THEN "deleting" ELSE "gone"
             r == [api[c] EXCEPT !.phase = p]
  <2>1. api[c] \in CRRecords /\ api[c].phase = "live"
    BY <1>8 DEF TypeOK, DeleteCR, MayChange
  <2>2. /\ r.phase = p /\ r.spec = api[c].spec /\ r # api[c]
        /\ r.finalizer = api[c].finalizer /\ r.last = api[c].last
    BY <2>1 DEF CRRecords
  <2> QED BY <1>6, <1>8, <2>2 DEF DeleteCR, UserDeleted, Rewritten
<1>9. \/ \E c \in CRs : Take(c) \/ SyncCR(c)
      \/ ReconcileStep /\ ~UpdateFinalizer
      \/ CheckFinalAccount \/ DeleteRawOutput
      \/ \E t \in ConfigTargets : SyncOutput(t)
      \/ \E t \in Targets : Collect(t) \/ Tamper(t)
      \/ \E c \in CRs, x \in Data \cup Failures : ChangeData(c, x)
      \/ Restart
      \/ UNCHANGED <<crVars, objVars, queue, workerVars, data>>
      => UNCHANGED api
  BY DEF Take, SyncCR, ReconcileStep, ResolveAndRender, CheckServiceAccount, KeepFinalizer,
         CleanupOldOutput, CreateOrUpdateOutput, ApplyRawObject, CheckFinalAccount,
         DeleteRawOutput, SyncOutput, Collect, Tamper, ChangeData, Restart, crVars
<1> QED BY <1>3, <1>4, <1>5, <1>7, <1>8, <1>9, Steps DEF ReconcileStep, FinalizeStep, OutsideStep

-----------------------------------------------------------------------------
(* ... to the copies of CRs,                                                 *)

LEMMA CacheWrites ==
  ASSUME TypeOK, [Next]_vars
  PROVE  \/ UNCHANGED cache
         \/ \E c \in CRs : /\ cache' = [cache EXCEPT ![c] = api[c]]
                           /\ UNCHANGED <<api, pc, cur, jt, jtFresh>>
         \/ cache' = api /\ UNCHANGED api /\ pc' = "idle" /\ jt' = NoCR
<1>1. \/ \E c \in CRs : Take(c)
      \/ ReconcileStep \/ UpdateStatus \/ FinalizeStep
      \/ \E c \in CRs, x \in Data \cup Failures : ChangeData(c, x)
      => UNCHANGED cache
  BY ReconcileSteps, FinalizeSteps DEF Take, UpdateStatus, StoreCR, ChangeData, crVars
<1>2. OutsideStep => \/ UNCHANGED cache
                     \/ \E c \in CRs : /\ cache' = [cache EXCEPT ![c] = api[c]]
                                       /\ UNCHANGED <<api, pc, cur, jt, jtFresh>>
  BY DEF OutsideStep, SyncCR, DeleteCR, EditSpec, ChangeCR, StoreCR, SyncOutput, Collect, Tamper,
         crVars, workerVars
<1> QED BY <1>1, <1>2, Steps DEF Restart

(* ... and to outputs: a label, and the owner with it, stays or goes, or it   *)
(* comes with the object the worker writes as its goal.                       *)
Written ==
  /\ pc = "apply" /\ pc' = "status" /\ goal.target \in Targets
  /\ \A t \in Targets : t # goal.target =>
       objs'[t].label = objs[t].label /\ objs'[t].owner = objs[t].owner
  /\ objs'[goal.target].label = cur
  /\ jt.spec.own /\ goal.target \notin ClusterTargets => objs'[goal.target].owner = cur

LabelsKept ==
  \A t \in Targets : \/ objs'[t].label = None
                     \/ objs'[t].label = objs[t].label /\ objs'[t].owner = objs[t].owner

LEMMA LabelWrites ==
  ASSUME TypeOK, [Next]_vars
  PROVE  LabelsKept \/ (Written /\ (CreateOrUpdateOutput \/ ApplyRawObject))
<1>1. UNCHANGED objs => LabelsKept
  BY DEF LabelsKept
<1>2. ASSUME NEW t \in Targets, NEW o, StoreObj(t, o),
             o.label = None \/ (o.label = objs[t].label /\ o.owner = objs[t].owner)
      PROVE  LabelsKept
  BY <1>2, StoreObjEffect DEF LabelsKept
<1>3. NoObj.label = None /\ Foreign.label = None
  BY DEF NoObj, Foreign
<1>4. ASSUME CreateOrUpdateOutput, objs' # objs PROVE Written
  <2>1. /\ pc = "apply" /\ pc' = "status" /\ goal.target \in ConfigTargets
        /\ StoreObj(goal.target, Mutate(ocache[goal.target]))
    BY <1>4 DEF CreateOrUpdateOutput, TypeOK, RecordOutput, Finish, objVars
  <2> QED BY <2>1, Atoms, StoreObjEffect DEF Written, Mutate
<1>5. ASSUME ApplyRawObject, objs' # objs PROVE Written
  <2>1. /\ pc = "apply" /\ pc' = "status" /\ goal.target \in RawTargets
        /\ StoreObj(goal.target, RenderedObject)
    BY <1>5 DEF ApplyRawObject, TypeOK, RecordOutput, Finish, objVars
  <2> QED BY <2>1, Atoms, StoreObjEffect DEF Written, RenderedObject, RawTargets
<1>6. CleanupOldOutput \/ DeleteRawOutput => LabelsKept
  <2>1. jt.last.target \in Targets \cup {None}
    BY DEF TypeOK, CRRecords, Refs
  <2> QED BY <1>1, <1>2, <1>3, <2>1, Atoms
          DEF CleanupOldOutput, TargetChanged, DeleteRawOutput, TypeOK, objVars
<1>7. ASSUME NEW t \in Targets, Collect(t) \/ Tamper(t) PROVE LabelsKept
  <2>1. objs[t] \in Objects
    BY DEF TypeOK
  <2>2. /\ [objs[t] EXCEPT !.data = None].label = objs[t].label
        /\ [objs[t] EXCEPT !.data = None].owner = objs[t].owner
    BY <2>1 DEF Objects
  <2> QED BY <1>2, <1>3, <1>7, <2>2 DEF Collect, Tamper
<1>8. \/ \E c \in CRs : Take(c)
      \/ ResolveAndRender \/ CheckServiceAccount \/ KeepFinalizer \/ UpdateFinalizer
      \/ UpdateStatus \/ CheckFinalAccount \/ RemoveFinalizer
      \/ \E c \in CRs : SyncCR(c) \/ DeleteCR(c) \/ \E s \in Specs : EditSpec(c, s)
      \/ \E t \in ConfigTargets : SyncOutput(t)
      \/ \E c \in CRs, x \in Data \cup Failures : ChangeData(c, x)
      \/ Restart
      \/ UNCHANGED <<crVars, objVars, queue, workerVars, data>>
      => UNCHANGED objs
  BY DEF Take, ResolveAndRender, CheckServiceAccount, KeepFinalizer, UpdateFinalizer,
         UpdateStatus, CheckFinalAccount, RemoveFinalizer, SyncCR, DeleteCR, EditSpec, ChangeCR,
         SyncOutput, ChangeData, Restart, objVars
<1> QED BY <1>1, <1>4, <1>5, <1>6, <1>7, <1>8, Steps DEF ReconcileStep, FinalizeStep, OutsideStep

-----------------------------------------------------------------------------
(* Recorded outputs can be deleted *)

(* What the worker's copy records is what it recorded, or the goal it wrote.   *)
LEMMA RecordKept ==
  ASSUME TypeOK, [Next]_vars
  PROVE  \/ pc' = "idle" /\ jt' = NoCR
         \/ pc = "idle" /\ \E c \in CRs : jt' = cache[c]
         \/ jt'.last = jt.last
         \/ /\ pc = "apply" /\ pc' = "status"
            /\ jt'.last = [target |-> goal.target, sa |-> jt.spec.sa]
<1> DEFINE Goal == \/ pc' = "idle" /\ jt' = NoCR
                   \/ pc = "idle" /\ \E c \in CRs : jt' = cache[c]
                   \/ jt'.last = jt.last
                   \/ /\ pc = "apply" /\ pc' = "status"
                      /\ jt'.last = [target |-> goal.target, sa |-> jt.spec.sa]
<1>1. jt \in CRRecords
  BY DEF TypeOK
<1>2. ASSUME NEW x \in Reasons, NEW e \in BOOLEAN, Finish(x, e) PROVE jt'.last = jt.last
  BY <1>1, <1>2 DEF Finish, CRRecords
<1>3. RecordOutput => pc' = "status" /\ jt'.last = [target |-> goal.target, sa |-> jt.spec.sa]
  BY <1>1 DEF RecordOutput, CRRecords
<1>4. ResolveAndRender \/ CheckServiceAccount => Goal
  BY <1>2, FinishReasons DEF ResolveAndRender, CheckServiceAccount
<1>5. CreateOrUpdateOutput \/ ApplyRawObject => Goal
  <2>1. CreateOrUpdateOutput \/ ApplyRawObject => pc = "apply"
    BY DEF CreateOrUpdateOutput, ApplyRawObject
  <2> QED BY <1>2, <1>3, <2>1, FinishReasons
<1>6. UpdateFinalizer => Goal
  BY <1>1 DEF UpdateFinalizer, Finish, CRRecords
<1>7. \/ \E c \in CRs : Take(c)
      \/ KeepFinalizer \/ CleanupOldOutput \/ UpdateStatus \/ FinalizeStep
      \/ \E c \in CRs, x \in Data \cup Failures : ChangeData(c, x)
      \/ Restart
      => Goal
  BY DEF Take, KeepFinalizer, CleanupOldOutput, UpdateStatus, FinalizeStep, CheckFinalAccount,
         DeleteRawOutput, RemoveFinalizer, ChangeData, Restart, Return, workerVars
<1>8. OutsideStep => Goal
  BY OutsideSteps
<1> QED BY <1>4, <1>5, <1>6, <1>7, <1>8, Steps DEF ReconcileStep

LEMMA AccessNext ==
  ASSUME TypeOK, SpecsInv, CopiesInv, PhasesInv, Undisturbed, AccessInv, [Next]_vars
  PROVE  AccessInv'
<1>1. \A s \in SAs : "delete" \in grants'[s]
  <2>1. ASSUME NEW s \in SAs, NEW g \in SUBSET Verbs, ChangeGrants(s, g) PROVE FALSE
    BY <2>1, NothingFails DEF ChangeGrants
  <2>2. UpdateFinalizer \/ UpdateStatus \/ RemoveFinalizer => UNCHANGED grants
    BY DEF UpdateFinalizer, UpdateStatus, RemoveFinalizer, envVars
  <2>3. Worker \/ Informers \/ (\E t \in Targets : Collect(t)) => UNCHANGED grants
    BY <2>2 DEF Worker, Take, ResolveAndRender, CheckServiceAccount, KeepFinalizer,
           CleanupOldOutput, CreateOrUpdateOutput, ApplyRawObject, CheckFinalAccount,
           DeleteRawOutput, Informers, SyncCR, SyncOutput, Collect, envVars
  <2>4. Environment => UNCHANGED grants
    BY <2>1 DEF Environment, DeleteCR, EditSpec, ChangeCR, ChangeData, ChangeAccounts, Tamper,
                Restart, Calm, envVars
  <2>5. UNCHANGED grants
    BY <2>3, <2>4 DEF Next, vars, envVars
  <2> QED BY <2>5 DEF AccessInv
<1>2. Deletable(jt.last)'
  <2>1. Deletable(NoCR.last)
    BY ConstantsAssumption, Atoms DEF Deletable, NoCR, NewCR, NoRef, Targets
  <2>2. pc = "apply" => Deletable([target |-> goal.target, sa |-> jt.spec.sa])
    BY SpecsAssumption, ConstantsAssumption DEF Deletable, TypeOK, SpecsInv, IsRaw
  <2> QED BY <2>1, <2>2, RecordKept DEF AccessInv, Deletable
<1>3. \A c \in CRs : Deletable(api[c].last)'
  <2>1. ASSUME NEW c \in CRs, NEW p, NEW s, NEW f, NEW l, Rewritten(c, p, s, f, l), Deletable(l)
        PROVE  \A d \in CRs : Deletable(api[d].last)'
    BY <2>1 DEF Rewritten, AccessInv, Deletable
  <2> QED BY <2>1, CRWrites
          DEF AccessInv, Deletable, FinalizerStored, StatusStored, CRRemoved, UserEdited, UserDeleted
<1>4. \A c \in CRs : Deletable(cache[c].last)'
  BY CacheWrites DEF AccessInv, Deletable, TypeOK
<1> QED BY <1>1, <1>2, <1>3, <1>4 DEF AccessInv

-----------------------------------------------------------------------------
(* Outdated copies are of CRs at rest *)

(* The moves of the worker that leave it busy.                                *)
Started ==
  /\ pc = "idle" /\ pc' \in {"inputs"} \cup FinalizePCs /\ cur' \in CRs
  /\ jt' = cache[cur'] /\ jtFresh' = cacheFresh[cur'] /\ UNCHANGED <<crVars, objs>>
  /\ pc' \in FinalizePCs => cache[cur'].phase = "deleting"

Stays == UNCHANGED <<pc, cur, jt, goal, retry>> /\ (jtFresh' => jtFresh)

LEMMA WorkerMoves ==
  ASSUME TypeOK, [Next]_vars, pc' # "idle"
  PROVE  \/ Stays \/ Started \/ ReconcileStep
         \/ pc \in FinalizePCs /\ pc' \in FinalizePCs /\ UNCHANGED <<crVars, cur, jt, jtFresh>>
<1>1. ASSUME NEW c \in CRs, Take(c) PROVE Stays \/ Started
  <2>1. CASE UNCHANGED workerVars
    BY <2>1 DEF Stays, workerVars
  <2>2. CASE /\ cache[c].phase = "live" \/ (cache[c].phase = "deleting" /\ cache[c].finalizer)
             /\ cur' = c /\ jt' = cache[c] /\ jtFresh' = cacheFresh[c]
             /\ pc' = IF cache[c].phase = "live" THEN "inputs"
                      ELSE IF cache[c].last.target \in RawTargets THEN "finalAccount"
                      ELSE "finalRemove"
    BY <1>1, <2>2 DEF Take, Started, FinalizePCs, objVars
  <2> QED BY <1>1, <2>1, <2>2 DEF Take
<1>2. OutsideStep => Stays
  BY OutsideSteps DEF Stays
<1>3. \A c \in CRs, x \in Data \cup Failures : ChangeData(c, x) => Stays
  BY DEF ChangeData, Stays, workerVars
<1>4. ~UpdateStatus /\ ~Restart
  BY DEF UpdateStatus, Restart, Return
<1> QED BY <1>1, <1>2, <1>3, <1>4, FinalizeSteps, Steps

(* A reconcile that goes on keeps its copy, but for the finalizer it stores.   *)
LEMMA GoesOn ==
  ASSUME TypeOK, CopiesInv, PhasesInv, Undisturbed, ReconcileStep, pc' # "status"
  PROVE  FinalizerStored \/ (jt' = jt /\ UNCHANGED api)
<1>1. CASE UpdateFinalizer
  <2>1. ~(UNCHANGED api) => FinalizerStored
    BY <1>1, CRWrites
    DEF Next, Worker, UpdateFinalizer, StatusStored, CRRemoved, UserEdited, UserDeleted, Quiet
  <2>2. ASSUME UNCHANGED api PROVE FALSE
    <3>1. /\ pc = "finalizer" /\ jtFresh /\ StoreFinalizer /\ jt.finalizer # WantsFinalizer
          /\ cur \in CRs /\ api[cur] \in CRRecords
      BY <1>1, NothingFails DEF UpdateFinalizer, Finish, TypeOK
    <3>2. api'[cur] = [api[cur] EXCEPT !.finalizer = WantsFinalizer] /\ jt = api[cur]
      BY <3>1, StoreCREffect DEF StoreFinalizer, CopiesInv
    <3>3. api'[cur].finalizer = WantsFinalizer
      BY <3>1, <3>2 DEF CRRecords
    <3> QED BY <2>2, <3>1, <3>2, <3>3
  <2> QED BY <2>1, <2>2
<1>2. CASE ResolveAndRender \/ CheckServiceAccount
  BY <1>2 DEF ResolveAndRender, CheckServiceAccount, CheckManifest, Finish, crVars
<1>3. CASE KeepFinalizer \/ CleanupOldOutput
  BY <1>3 DEF KeepFinalizer, CleanupOldOutput, crVars
<1>4. ~(CreateOrUpdateOutput \/ ApplyRawObject)
  BY DEF CreateOrUpdateOutput, ApplyRawObject, RecordOutput, Finish
<1> QED BY <1>1, <1>2, <1>3, <1>4 DEF ReconcileStep

(* A copy that was all right stays so until its CR is written.                *)
LEMMA CopyKept ==
  ASSUME TypeOK, [Next]_vars, NEW c \in CRs, NEW r, api'[c] = api[c],
         Outdated(c, r) => AtRest(c, r)
  PROVE  Outdated(c, r)' => AtRest(c, r)'
<1>1. DataOf(c)' = DataOf(c)
  BY DataSteady
<1> QED BY <1>1 DEF Outdated, AtRest

LEMMA CachedCopies ==
  ASSUME TypeOK, SpecsInv, CopiesInv, PhasesInv, TruthInv, Undisturbed, OutdatedInv,
         [Next]_vars, NEW c \in CRs
  PROVE  (Outdated(c, cache[c]) => AtRest(c, cache[c]))'
<1>1. PICK r : r = cache[c]
  OBVIOUS
<1>2. ASSUME UNCHANGED cache PROVE Outdated(c, r)' => AtRest(c, r)'
  <2>1. CASE api'[c] = api[c]
    BY <1>1, <2>1, CopyKept DEF OutdatedInv
  <2>2. CASE FinalizerStored \/ StatusStored
    <3>1. CASE c = cur
      BY <1>1, <2>2, <3>1 DEF FinalizerStored, StatusStored, Rewritten, OutdatedInv, Outdated
    <3>2. CASE c # cur
      BY <2>1, <2>2, <3>2 DEF FinalizerStored, StatusStored, Rewritten
    <3> QED BY <3>1, <3>2
  <2>3. CASE CRRemoved
    <3>1. CASE c = cur
      BY <1>1, <2>3, <3>1 DEF CRRemoved, FinalizePCs, OutdatedInv, Outdated
    <3>2. CASE c # cur
      BY <2>1, <2>3, <3>2 DEF CRRemoved, Rewritten
    <3> QED BY <3>1, <3>2
  <2>4. ASSUME NEW d \in CRs, UserEdited(d) \/ UserDeleted(d)
        PROVE  Outdated(c, r)' => AtRest(c, r)'
    <3>1. CASE c = d
      <4>1. Quiet /\ api[c].phase = "live" /\ r = api[c]
        BY <1>1, <2>4, <3>1 DEF UserEdited, UserDeleted, Quiet, CopiesInv, FreshCRs
      <4>2. OutputsOf(r.spec, DataOf(c)) \subseteq {r.last.target}
        BY <4>1, Rest
      <4>3. /\ api'[c].last = r.last /\ api'[c].finalizer = r.finalizer
            /\ api'[c].phase # "live" => api'[c].spec = r.spec
        BY <2>4, <3>1, <4>1 DEF UserEdited, UserDeleted, Rewritten
      <4>4. DataOf(c)' = DataOf(c)
        BY DataSteady
      <4> QED BY <4>2, <4>3, <4>4 DEF AtRest
    <3>2. CASE c # d
      BY <2>1, <2>4, <3>2 DEF UserEdited, UserDeleted, Rewritten
    <3> QED BY <3>1, <3>2
  <2> QED BY <2>1, <2>2, <2>3, <2>4, CRWrites
<1>3. ASSUME cache'[c] = api[c], UNCHANGED api
      PROVE  (Outdated(c, cache[c]) => AtRest(c, cache[c]))'
  BY <1>3 DEF Outdated
<1>4. ASSUME cache'[c] = cache[c], UNCHANGED api
      PROVE  (Outdated(c, cache[c]) => AtRest(c, cache[c]))'
  BY <1>1, <1>4, CopyKept DEF OutdatedInv, Outdated, AtRest
<1>5. ASSUME UNCHANGED cache PROVE (Outdated(c, cache[c]) => AtRest(c, cache[c]))'
  BY <1>1, <1>2, <1>5 DEF Outdated, AtRest
<1>6. ASSUME NEW d \in CRs, cache' = [cache EXCEPT ![d] = api[d]], UNCHANGED api
      PROVE  (Outdated(c, cache[c]) => AtRest(c, cache[c]))'
  <2>1. cache'[c] = IF c = d THEN api[c] ELSE cache[c]
    BY <1>6 DEF TypeOK
  <2> QED BY <1>3, <1>4, <1>6, <2>1
<1> QED BY <1>3, <1>5, <1>6, CacheWrites

LEMMA OutdatedNext ==
  ASSUME TypeOK, TypeOK', SpecsInv, CopiesInv, PhasesInv, TruthInv, Undisturbed, OutdatedInv,
         [Next]_vars
  PROVE  OutdatedInv'
<1> DEFINE Busy == {"account", "finalizer", "cleanup", "apply"}
<1>1. pc' # "idle" => ~StatusStored /\ ~CRRemoved
                      /\ \A c \in CRs : ~UserEdited(c) /\ ~UserDeleted(c)
  BY DEF StatusStored, CRRemoved, UserEdited, UserDeleted
<1>2. pc # "idle" => cur \in CRs
  BY DEF TypeOK
<1>3. ReconcileStep => pc \in ReconcilePCs \ {"status"} /\ pc' \in ReconcilePCs \ {"inputs"}
                       /\ cur' = cur /\ jt'.spec = jt.spec /\ (jtFresh' => jtFresh)
                       /\ UNCHANGED <<cache, data>>
  BY ReconcileSteps
<1>4. ASSUME pc' \in ReconcilePCs \ {"status"}
      PROVE  (Outdated(cur, jt) => AtRest(cur, jt))'
  <2>1. pc' # "idle" /\ pc' \notin FinalizePCs
    BY <1>4 DEF ReconcilePCs, FinalizePCs
  <2>2. CASE Started
    <3>1. PICK c \in CRs : c = cur'
      BY <2>2 DEF Started
    <3>2. PICK r : r = cache[c]
      OBVIOUS
    <3>3. UNCHANGED <<api, cache>> /\ jt' = r
      BY <2>2, <3>1, <3>2 DEF Started, crVars
    <3>4. (Outdated(c, cache[c]) => AtRest(c, cache[c]))'
      BY CachedCopies
    <3> QED BY <3>1, <3>2, <3>3, <3>4 DEF Outdated, AtRest, DataOf
  <2>3. CASE Stays \/ (ReconcileStep /\ ~FinalizerStored)
    <3>1. pc \in ReconcilePCs \ {"status"} /\ cur' = cur /\ jt' = jt /\ cur \in CRs
      BY <1>2, <1>3, <1>4, <2>3, GoesOn DEF Stays, ReconcilePCs
    <3>2. UNCHANGED api
      BY <1>1, <2>1, <2>3, <3>1, CRWrites, GoesOn DEF Stays, FinalizerStored
    <3>3. PICK c \in CRs : c = cur
      BY <3>1
    <3>4. PICK r : r = jt
      OBVIOUS
    <3>5. Outdated(c, r)' => AtRest(c, r)'
      BY <3>1, <3>2, <3>3, <3>4, CopyKept DEF OutdatedInv
    <3> QED BY <3>1, <3>3, <3>4, <3>5 DEF Outdated, AtRest, DataOf
  <2>4. CASE ReconcileStep /\ FinalizerStored
    BY <1>3, <2>4 DEF FinalizerStored, Rewritten, Outdated
  <2> QED BY <2>1, <2>2, <2>3, <2>4, WorkerMoves
<1>5. ASSUME pc' # "idle", jtFresh' PROVE cache'[cur'].spec = api'[cur'].spec
  <2>1. CASE Started
    BY <1>5, <2>1 DEF Started, CopiesInv, FreshCRs, crVars
  <2>2. CASE ~Started
    <3>1. /\ pc # "idle" /\ cur' = cur /\ jtFresh /\ cur \in CRs
          /\ cache[cur].spec = api[cur].spec
      BY <1>2, <1>3, <1>5, <2>2, WorkerMoves DEF Stays, ReconcilePCs, FinalizePCs, OutdatedInv
    <3>2. api'[cur].spec = api[cur].spec
      BY <1>1, <1>5, CRWrites DEF FinalizerStored, Rewritten
    <3>3. cache'[cur].spec \in {cache[cur].spec, api[cur].spec}
      BY <1>5, <3>1, CacheWrites DEF TypeOK
    <3> QED BY <3>1, <3>2, <3>3
  <2> QED BY <2>1, <2>2
<1>6. ASSUME pc' \in FinalizePCs PROVE cache'[cur'].phase # "live"
  <2>1. pc' # "idle" /\ pc' \notin ReconcilePCs
    BY <1>6 DEF FinalizePCs, ReconcilePCs
  <2>2. CASE Started
    BY <1>6, <2>2 DEF Started, crVars
  <2>3. CASE ~Started
    <3>1. pc \in FinalizePCs /\ cur' = cur /\ cur \in CRs
      BY <1>2, <1>3, <1>6, <2>1, <2>3, WorkerMoves DEF Stays, FinalizePCs
    <3>2. cache[cur].phase # "live" /\ api[cur].phase # "live"
      BY <3>1 DEF OutdatedInv, PhasesInv
    <3>3. cache'[cur].phase \in {cache[cur].phase, api[cur].phase}
      BY <2>1, <3>1, CacheWrites DEF TypeOK
    <3> QED BY <3>1, <3>2, <3>3
  <2> QED BY <2>2, <2>3
<1>7. ASSUME pc' \in Busy PROVE goal'.data \in DataOf(cur)'
  <2>1. pc' # "idle" /\ pc' \notin FinalizePCs /\ pc' # "inputs" /\ pc' # "status"
    BY <1>7 DEF FinalizePCs
  <2>2. CASE Stays
    <3>1. DataOf(cur)' = DataOf(cur)
      BY <1>2, <1>7, <2>2, DataSteady DEF Stays, DataOf
    <3> QED BY <1>7, <2>2, <3>1 DEF Stays, OutdatedInv
  <2>3. CASE ReconcileStep
    <3>1. DataOf(cur)' = DataOf(cur)
      BY <1>3, <2>3 DEF DataOf
    <3>2. CASE ResolveAndRender
      <4>1. goal'.data = data[cur] /\ goal'.data \in Data
        BY <1>7, <2>1, <3>2, GoalSet DEF TypeOK
      <4> QED BY <3>1, <4>1 DEF DataOf
    <3>3. CASE ~ResolveAndRender
      <4>1. pc \in Busy /\ goal' = goal
        BY <2>1, <2>3, <3>3, GoalKept
        DEF ReconcileStep, CreateOrUpdateOutput, ApplyRawObject, RecordOutput, Finish
      <4> QED BY <3>1, <4>1 DEF OutdatedInv
    <3> QED BY <3>2, <3>3
  <2> QED BY <2>1, <2>2, <2>3, WorkerMoves DEF Started
<1>8. \A c \in CRs : (Outdated(c, cache[c]) => AtRest(c, cache[c]))'
  BY CachedCopies
<1> QED BY <1>4, <1>5, <1>6, <1>7, <1>8 DEF OutdatedInv

-----------------------------------------------------------------------------
(* What a CR has written is recorded *)

(* The goal is one of the outputs of the worker's copy.                       *)
LEMMA GoalIsOutput ==
  ASSUME TypeOK, GoalInv, OutdatedInv, pc \in {"finalizer", "cleanup", "apply"}
  PROVE  goal.target \in OutputsOf(jt.spec, DataOf(cur))
<1>1. goal.target \in Targets
  BY Atoms DEF TypeOK
<1> QED BY <1>1 DEF GoalInv, OutdatedInv, OutputsOf

(* What it writes is an output of its CR, or the one recorded for it.         *)
LEMMA WrittenIsRecorded ==
  ASSUME TypeOK, PhasesInv, GoalInv, OutdatedInv, Written
  PROVE  /\ api[cur].phase = "live" =>
              goal.target \in OutputsOf(api[cur].spec, DataOf(cur)) \cup {api[cur].last.target}
         /\ Outdated(cur, jt) =>
              AtRest(cur, jt) /\ goal.target = jt.last.target /\ goal.target = api[cur].last.target
<1>1. pc = "apply" /\ pc \in ReconcilePCs \ {"status"} /\ jt.phase = "live"
  BY DEF Written, ReconcilePCs, PhasesInv
<1>2. goal.target \in OutputsOf(jt.spec, DataOf(cur))
  BY <1>1, GoalIsOutput
<1> QED BY <1>1, <1>2 DEF OutdatedInv, Outdated, AtRest

(* At rest each live CR has its outputs recorded.                             *)
LEMMA RestRecorded ==
  ASSUME TypeOK, SpecsInv, TruthInv, Undisturbed, RecordedInv, Quiet,
         NEW c \in CRs, NEW t \in Targets, api[c].phase = "live", objs[t].label = c
  PROVE  t = api[c].last.target
<1>1. t \in OutputsOf(api[c].spec, DataOf(c)) \cup {api[c].last.target}
  BY DEF RecordedInv
<1>2. OutputsOf(api[c].spec, DataOf(c)) \subseteq {api[c].last.target}
  BY Rest
<1> QED BY <1>1, <1>2

LEMMA StoredRecords ==
  ASSUME TypeOK, SpecsInv, CopiesInv, PhasesInv, TruthInv, GoalInv, Undisturbed, OutdatedInv,
         RecordedInv, [Next]_vars, NEW c \in CRs, NEW t \in Targets,
         api'[c].phase = "live", objs'[t].label = c
  PROVE  t \in OutputsOf(api'[c].spec, DataOf(c)) \cup {api'[c].last.target}
<1>1. c # None
  BY ConstantsAssumption
<1>2. ASSUME objs[t].label = c, api[c].phase = "live"
      PROVE  t \in OutputsOf(api[c].spec, DataOf(c)) \cup {api[c].last.target}
  BY <1>2 DEF RecordedInv
<1>3. CASE api'[c] = api[c]
  <2>1. CASE objs[t].label = c
    BY <1>2, <1>3, <2>1
  <2>2. CASE objs[t].label # c
    <3>1. Written /\ t = goal.target /\ c = cur
      BY <1>1, <2>2, LabelWrites DEF LabelsKept, Written
    <3> QED BY <1>3, <3>1, WrittenIsRecorded
  <2> QED BY <2>1, <2>2
<1>4. CASE UNCHANGED objs /\ \E d \in CRs : UserEdited(d) \/ UserDeleted(d)
  <2>1. PICK d \in CRs : UserEdited(d) \/ UserDeleted(d)
    BY <1>4
  <2>2. CASE c = d
    <3>1. api[c].phase = "live" /\ Quiet /\ api'[c].last = api[c].last
      BY <2>1, <2>2 DEF UserEdited, UserDeleted, Rewritten
    <3>2. t = api[c].last.target
      BY <1>4, <3>1, RestRecorded
    <3> QED BY <3>1, <3>2
  <2>3. CASE c # d
    BY <1>3, <2>1, <2>3 DEF UserEdited, UserDeleted, Rewritten
  <2> QED BY <2>2, <2>3
<1>5. CASE FinalizerStored \/ StatusStored
  <2>1. UNCHANGED objs /\ cur \in CRs /\ api[cur].phase = "live"
    BY <1>5 DEF FinalizerStored, StatusStored, Rewritten
  <2>2. CASE c # cur
    BY <1>3, <1>5, <2>2 DEF FinalizerStored, StatusStored, Rewritten
  <2>3. CASE c = cur /\ FinalizerStored
    BY <1>2, <2>1, <2>3 DEF FinalizerStored, Rewritten
  <2>4. CASE c = cur /\ StatusStored
    BY <2>1, <2>4 DEF StatusStored, Rewritten, RecordedInv
  <2> QED BY <1>5, <2>2, <2>3, <2>4
<1>6. CASE CRRemoved
  BY <1>3, <1>6 DEF CRRemoved, Rewritten
<1>7. (\E d \in CRs : UserEdited(d) \/ UserDeleted(d)) => UNCHANGED objs
  BY DEF UserEdited, UserDeleted, Rewritten
<1> QED BY <1>3, <1>4, <1>5, <1>6, <1>7, CRWrites

(* Before the apply all but the goal is gone, or among the CR's outputs.      *)
LEMMA CleanedUp ==
  ASSUME TypeOK, CopiesInv, PhasesInv, GoalInv, Undisturbed, AccessInv, OutdatedInv, RecordedInv,
         CleanupOldOutput, jtFresh, NEW t \in Targets, objs'[t].label = cur
  PROVE  t \in OutputsOf(jt.spec, DataOf(cur))
<1>1. /\ pc = "cleanup" /\ cur \in CRs /\ cur # None /\ jt = api[cur] /\ jt.phase = "live"
      /\ jt.last.target \in Targets \cup {None} /\ jt.last.sa \in SAs \cup {None}
  BY ConstantsAssumption DEF CleanupOldOutput, TypeOK, CopiesInv, PhasesInv, ReconcilePCs,
                             CRRecords, Refs
<1>2. goal.target \in OutputsOf(jt.spec, DataOf(cur))
  BY <1>1, GoalIsOutput
<1>3. objs'[t].label = objs[t].label \/ objs'[t].label = None
  <2>1. CASE UNCHANGED objVars
    BY <2>1 DEF objVars
  <2>2. CASE TargetChanged /\ StoreObj(jt.last.target, NoObj)
    BY <1>1, <2>2, StoreObjEffect DEF TargetChanged, NoObj
  <2> QED BY <2>1, <2>2 DEF CleanupOldOutput
<1>4. t \in OutputsOf(jt.spec, DataOf(cur)) \cup {jt.last.target}
  BY <1>1, <1>3 DEF RecordedInv
<1>5. CASE t = jt.last.target /\ TargetChanged
  <2>1. MayDelete
    <3>1. jt.last.target \in RawTargets => jt.last.sa \in SAs /\ jt.last.sa # None
      BY ConstantsAssumption DEF AccessInv, Deletable
    <3> QED BY <1>1, <1>5, <3>1 DEF MayDelete, DeleteIdentity, AccessInv, TargetChanged, Targets
  <2>2. StoreObj(jt.last.target, NoObj)
    BY <1>5, <2>1, NothingFails DEF CleanupOldOutput
  <2>3. objs'[t].label = None
    BY <1>5, <2>2, StoreObjEffect DEF NoObj
  <2> QED BY <1>1, <2>3
<1>6. CASE t = jt.last.target /\ ~TargetChanged
  <2>1. t = goal.target
    BY <1>6, ConstantsAssumption DEF TargetChanged
  <2> QED BY <1>2, <2>1
<1> QED BY <1>4, <1>5, <1>6

LEMMA RecordedNext ==
  ASSUME TypeOK, SpecsInv, CopiesInv, PhasesInv, TruthInv, GoalInv, Undisturbed, AccessInv,
         OutdatedInv, RecordedInv, [Next]_vars
  PROVE  RecordedInv'
<1>1. ASSUME NEW c \in CRs PROVE DataOf(c)' = DataOf(c)
  BY DataSteady
<1>2. ASSUME NEW c \in CRs, NEW t \in Targets, api'[c].phase = "live", objs'[t].label = c
      PROVE  t \in OutputsOf(api'[c].spec, DataOf(c)') \cup {api'[c].last.target}
  BY <1>1, <1>2, StoredRecords
<1>3. pc \notin {"idle"} => cur \in CRs /\ cur # None
  BY ConstantsAssumption DEF TypeOK
<1>4. ReconcileStep => /\ pc \in ReconcilePCs \ {"status"} /\ cur' = cur
                       /\ jt'.spec = jt.spec /\ (jtFresh' => jtFresh)
  BY ReconcileSteps
<1>5. ASSUME pc' = "apply", jtFresh', NEW t \in Targets, objs'[t].label = cur'
      PROVE  t \in OutputsOf(jt'.spec, DataOf(cur)')
  <2>1. LabelsKept
    BY <1>5, LabelWrites DEF Written
  <2>2. CASE Stays
    <3>1. /\ pc = "apply" /\ jtFresh /\ cur \in CRs /\ cur # None /\ cur' = cur
          /\ objs[t].label = cur /\ jt' = jt
      BY <1>3, <1>5, <2>1, <2>2 DEF Stays, LabelsKept
    <3>2. DataOf(cur)' = DataOf(cur)
      BY <1>1, <3>1 DEF DataOf
    <3> QED BY <3>1, <3>2 DEF RecordedInv
  <2>3. CASE ReconcileStep
    <3>1. CleanupOldOutput
      BY <1>5, <2>3 DEF ReconcileStep, ResolveAndRender, CheckServiceAccount, CheckManifest,
           KeepFinalizer, UpdateFinalizer, CreateOrUpdateOutput, ApplyRawObject, RecordOutput,
           Finish
    <3>2. jtFresh /\ cur' = cur /\ cur \in CRs /\ objs'[t].label = cur
      BY <1>3, <1>4, <1>5, <2>3 DEF ReconcilePCs
    <3>3. t \in OutputsOf(jt.spec, DataOf(cur))
      BY <3>1, <3>2, CleanedUp
    <3>4. DataOf(cur)' = DataOf(cur)
      BY <1>1, <3>2 DEF DataOf
    <3> QED BY <1>4, <2>3, <3>3, <3>4
  <2> QED BY <1>5, <2>2, <2>3, WorkerMoves DEF Started, FinalizePCs
<1>6. ASSUME pc' = "status", jtFresh', NEW t \in Targets, objs'[t].label = cur'
      PROVE  t \in OutputsOf(jt'.spec, DataOf(cur)') \cup {jt'.last.target}
  <2>1. CASE Stays
    <3>1. LabelsKept
      BY <1>6, <2>1, LabelWrites DEF Written, Stays
    <3>2. /\ pc = "status" /\ jtFresh /\ cur \in CRs /\ cur # None /\ cur' = cur
          /\ objs[t].label = cur /\ jt' = jt
      BY <1>3, <1>6, <2>1, <3>1 DEF Stays, LabelsKept
    <3>3. DataOf(cur)' = DataOf(cur)
      BY <1>1, <3>2 DEF DataOf
    <3> QED BY <3>2, <3>3 DEF RecordedInv
  <2>2. CASE ReconcileStep
    <3>1. /\ cur' = cur /\ jtFresh /\ cur \in CRs /\ cur # None /\ jt'.spec = jt.spec
          /\ pc \in ReconcilePCs \ {"status"} /\ pc # "cleanup"
      BY <1>3, <1>4, <1>6, <2>2 DEF ReconcilePCs, ReconcileStep, CleanupOldOutput,
           ResolveAndRender, CheckServiceAccount, KeepFinalizer, UpdateFinalizer,
           CreateOrUpdateOutput, ApplyRawObject
    <3>2. DataOf(cur)' = DataOf(cur)
      BY <1>1, <3>1 DEF DataOf
    <3>3. CASE pc = "apply"
      <4>1. CASE objs[t].label = cur
        BY <3>1, <3>2, <3>3, <4>1 DEF RecordedInv
      <4>2. CASE objs[t].label # cur
        <5>1. t = goal.target
          BY <1>6, <3>1, <4>2, LabelWrites DEF LabelsKept, Written
        <5> QED BY <3>1, <3>2, <3>3, <5>1, GoalIsOutput
      <4> QED BY <4>1, <4>2
    <3>4. CASE pc # "apply"
      <4>1. objs[t].label = cur
        BY <1>6, <3>1, <3>4, LabelWrites DEF LabelsKept, Written
      <4>2. jt = api[cur] /\ jt.phase = "live" /\ jt'.last = jt.last
        BY <1>6, <3>1, <3>4, RecordKept DEF CopiesInv, PhasesInv, ReconcilePCs
      <4> QED BY <3>1, <3>2, <4>1, <4>2 DEF RecordedInv
    <3> QED BY <3>3, <3>4
  <2> QED BY <1>6, <2>1, <2>2, WorkerMoves DEF Started, FinalizePCs
<1> QED BY <1>2, <1>5, <1>6 DEF RecordedInv

(* The invariant holds, so that everything is recorded at rest.               *)
LEMMA CleanupInvHolds ==
  ASSUME Undisturbed
  PROVE  Spec => [](TypeOK /\ OutputInv /\ CleanupInv)
<1>1. ASSUME Init PROVE CleanupInv
  <2>1. \A c \in CRs : api[c].last = NoRef /\ cache[c] = api[c] /\ api[c].phase = "live"
    BY <1>1 DEF Init, NewCR
  <2>2. AccessInv
    BY <1>1, <2>1, Atoms, ConstantsAssumption
    DEF Init, AccessInv, Deletable, NoRef, NoCR, NewCR, Verbs, Targets
  <2>3. OutdatedInv
    BY <1>1, <2>1 DEF Init, OutdatedInv, Outdated, ReconcilePCs, FinalizePCs
  <2>4. RecordedInv
    BY <1>1, ConstantsAssumption DEF Init, RecordedInv, NoObj
  <2> QED BY <2>2, <2>3, <2>4 DEF CleanupInv
<1>2. ASSUME TypeOK, TypeOK', OutputInv, CleanupInv, [Next]_vars PROVE CleanupInv'
  BY <1>2, AccessNext, OutdatedNext, RecordedNext DEF OutputInv, CleanupInv
<1> QED BY <1>1, <1>2, OutputInvHolds, PTL DEF Spec

(* If users change CRs only while the operator rests, calls do not fail,      *)
(* rights stay and the data do not move outputs, everything the operator      *)
(* wrote for a live CR is recorded whenever it rests, whoever else tampers    *)
(* with outputs and wherever the operator stops and starts again.             *)
THEOREM AllRecorded ==
  ASSUME Undisturbed
  PROVE  Spec => []OutputsAreRecorded
<1>1. TypeOK /\ OutputInv /\ CleanupInv => OutputsAreRecorded
  BY RestRecorded DEF OutputInv, CleanupInv, OutputsAreRecorded
<1> QED BY <1>1, CleanupInvHolds, PTL

-----------------------------------------------------------------------------
(* Who owns what a CR has written *)

(* What will wake the operator does so, or stays.                             *)
LEMMA WokenKept ==
  ASSUME TypeOK, CopiesInv, [Next]_vars, NEW c \in CRs, Woken(c), ~Take(c), api'[c].phase # "gone"
  PROVE  Woken(c)'
<1>1. CASE Restart
  <2>1. c \in queue'
    BY <1>1 DEF Restart
  <2> QED BY <2>1 DEF Woken
<1>2. ~Restart /\ c \in queue => c \in queue'
  <2>1. UpdateStatus \/ FinalizeStep => queue \subseteq queue'
    BY DEF UpdateStatus, FinalizeStep, CheckFinalAccount, DeleteRawOutput, RemoveFinalizer, Return
  <2>2. ASSUME NEW d \in CRs, Take(d) PROVE c \in queue => c \in queue'
    BY <2>2 DEF Take
  <2> QED BY <2>1, <2>2, Steps, ReconcileSteps, OutsideSteps DEF ChangeData
<1>3. ASSUME ~Restart PROVE cacheFresh'[c] => cacheFresh[c] \/ c \in queue'
  <2>1. ASSUME NEW d \in CRs, NEW r, StoreCR(d, r) PROVE cacheFresh'[c] => cacheFresh[c]
    BY <2>1, StoreCREffect
  <2>2. pc # "idle" => cur \in CRs
    BY DEF TypeOK
  <2>3. ReconcileStep \/ UpdateStatus \/ FinalizeStep =>
          UNCHANGED crVars \/ (cur \in CRs /\ \E r : StoreCR(cur, r))
    BY <2>2, ReconcileSteps, FinalizeSteps
    DEF UpdateStatus, StoreFinalizer, ReconcilePCs, FinalizePCs
  <2>4. OutsideStep => \/ UNCHANGED crVars \/ \E d \in CRs : \E r : StoreCR(d, r)
                       \/ \E d \in CRs : SyncCR(d)
    BY DEF OutsideStep, DeleteCR, EditSpec, ChangeCR, SyncOutput, Collect, Tamper
  <2>5. ASSUME NEW d \in CRs, SyncCR(d) PROVE cacheFresh'[c] => cacheFresh[c] \/ c \in queue'
    BY <2>5 DEF SyncCR, TypeOK
  <2> QED BY <1>3, <2>1, <2>3, <2>4, <2>5, Steps DEF Take, ChangeData, crVars
<1>4. ASSUME ~Restart, cache'[c] # cache[c] PROVE c \in queue'
  <2>1. \E d \in CRs : SyncCR(d)
    <3>1. OutsideStep => UNCHANGED cache \/ \E d \in CRs : SyncCR(d)
      BY DEF OutsideStep, DeleteCR, EditSpec, ChangeCR, StoreCR, SyncOutput, Collect, Tamper, crVars
    <3>2. \/ \E d \in CRs : Take(d)
          \/ ReconcileStep \/ UpdateStatus \/ FinalizeStep
          \/ \E d \in CRs, x \in Data \cup Failures : ChangeData(d, x)
          => UNCHANGED cache
      BY ReconcileSteps, FinalizeSteps DEF Take, UpdateStatus, StoreCR, ChangeData, crVars
    <3> QED BY <1>4, <3>1, <3>2, Steps
  <2> QED BY <1>4, <2>1 DEF SyncCR, TypeOK
<1>5. ASSUME ~Restart, NEW t \in ConfigTargets, ~ocacheFresh[t], ocacheFresh'[t], IsOutputOf(t, c)
      PROVE  c \in queue'
  <2>1. ObjCopies /\ t \in Targets
    BY Atoms DEF CopiesInv, ObjCopies
  <2>2. SyncOutput(t)
    <3>1. ASSUME NEW u \in Targets, NEW o, StoreObj(u, o) PROVE FALSE
      BY <1>5, <3>1, StoreObjEffect
    <3>2. ASSUME NEW u \in ConfigTargets, SyncOutput(u) PROVE u = t
      BY <1>5, <3>2 DEF SyncOutput, TypeOK
    <3>3. ~(UNCHANGED objVars) /\ ~(UNCHANGED vars)
      BY <1>5 DEF objVars, vars
    <3> QED BY <1>5, <2>1, <3>1, <3>2, <3>3, ObjectWrites
  <2> QED BY <1>5, <2>2 DEF SyncOutput
<1>6. CASE ~Restart /\ c \notin queue'
  <2>1. c \notin queue /\ cache'[c] = cache[c] /\ (cacheFresh'[c] => cacheFresh[c])
    BY <1>2, <1>3, <1>4, <1>6
  <2>2. \A t \in ConfigTargets : ~ocacheFresh[t] /\ IsOutputOf(t, c) => ~ocacheFresh'[t]
    BY <1>5, <1>6
  <2> QED BY <2>1, <2>2 DEF Woken, IsOutputOf
<1> QED BY <1>1, <1>6 DEF Woken

(* The writes of other CRs leave what a CR has written alone.                 *)
LEMMA OwnsRawKept ==
  ASSUME NEW c \in CRs, OwnsRaw(c), LabelsKept \/ (Written /\ c # cur),
         api'[c].spec = api[c].spec
  PROVE  OwnsRaw(c)'
<1>1. c # None /\ NamespacedTargets \subseteq Targets
  BY ConstantsAssumption DEF Targets, RawTargets
<1> QED BY <1>1 DEF OwnsRaw, LabelsKept, Written

(* A reconcile that ends without writing and without a retry fails for good.   *)
LEMMA FinalVerdict ==
  ASSUME TypeOK, SpecsInv, GoalInv, ResolveAndRender \/ CheckServiceAccount,
         pc' = "status", ~retry'
  PROVE  FailsForGood(jt.spec)
<1>1. CASE ResolveAndRender
  <2> DEFINE d == data[cur]
  <2>1. d \in Data \cup Failures /\ (d \in InputFailures => d \notin Data)
    BY <1>1, ConstantsAssumption DEF ResolveAndRender, TypeOK
  <2>2. \/ jt.spec.out = "InvalidSpec"
        \/ d \in InputFailures /\ retry' = (d # "RenderFailed")
        \/ d \notin InputFailures /\ TargetOf(jt.spec, d) = "Unparsable"
    BY <1>1 DEF ResolveAndRender, Finish, TargetOf
  <2>3. "RenderFailed" \in InputFailures
    BY DEF InputFailures
  <2> QED BY <2>1, <2>2, <2>3, ConstantsAssumption DEF FailsForGood
<1>2. CASE CheckServiceAccount
  <2>1. pc = "account" /\ goal.target = "BadNamespace"
    BY <1>2 DEF CheckServiceAccount, CheckManifest, Finish
  <2> QED BY <2>1 DEF GoalInv, TypeOK, FailsForGood
<1> QED BY <1>1, <1>2

(* With owner semantics everywhere, whatever is namespaced has its owner.      *)
LEMMA AllOwned ==
  ASSUME TypeOK, SpecsInv, OwnedInv, AllOwn, [Next]_vars,
         NEW c \in CRs, NEW t \in Targets \ ClusterTargets, objs'[t].label = c
  PROVE  objs'[t].owner = c
<1>1. c # None
  BY ConstantsAssumption
<1>2. objs[t].label = c => objs[t].owner = c
  BY DEF OwnedInv
<1>3. pc = "apply" => jt.spec.own
  BY DEF SpecsInv, AllOwn
<1> QED BY <1>1, <1>2, <1>3, LabelWrites DEF LabelsKept, Written

(* ... and whatever is not has a CR with the finalizer or about to get it.     *)
LEMMA AllFinalized ==
  ASSUME TypeOK, OutputInv, CleanupInv, Undisturbed, OwnedInv, AllOwn, [Next]_vars,
         NEW c \in CRs, NEW t \in ClusterTargets, api'[c].phase = "live", objs'[t].label = c
  PROVE  api'[c].finalizer \/ OutputsOf(api'[c].spec, DataOf(c)) # {}
<1>1. /\ c # None /\ t \in Targets /\ t \in RawTargets /\ t \notin ConfigTargets
  BY ConstantsAssumption DEF Targets, RawTargets
<1>2. ASSUME objs[t].label = c, api[c].phase = "live"
      PROVE  api[c].finalizer \/ OutputsOf(api[c].spec, DataOf(c)) # {}
  BY <1>2 DEF OwnedInv
<1>3. CASE api'[c] = api[c]
  <2>1. CASE objs[t].label = c
    BY <1>2, <1>3, <2>1
  <2>2. CASE objs[t].label # c
    <3>1. Written /\ t = goal.target /\ c = cur
      BY <1>1, <2>2, LabelWrites DEF LabelsKept, Written
    <3>2. /\ pc = "apply" /\ jt.spec \in Specs /\ jt.spec.own /\ IsRaw(jt.spec)
          /\ jt.phase = "live"
      BY <1>1, <3>1
      DEF Written, TypeOK, OutputInv, SpecsInv, AllOwn, PhasesInv, ReconcilePCs
    <3>3. jt.finalizer
      BY <3>1, <3>2 DEF OutputInv, GoalInv, WantsFinalizer, NeedsFinalizer
    <3>4. Outdated(cur, jt) => AtRest(cur, jt)
      BY <3>1, WrittenIsRecorded DEF OutputInv, CleanupInv
    <3>5. goal.target \in OutputsOf(jt.spec, DataOf(cur))
      BY <3>2, GoalIsOutput DEF OutputInv, CleanupInv
    <3> QED BY <1>3, <3>1, <3>2, <3>3, <3>4, <3>5 DEF Outdated, AtRest
  <2> QED BY <2>1, <2>2
<1>4. ASSUME NEW d \in CRs, UserEdited(d) \/ UserDeleted(d)
      PROVE  api'[c].finalizer \/ OutputsOf(api'[c].spec, DataOf(c)) # {}
  <2>1. CASE c # d
    BY <1>3, <1>4, <2>1 DEF UserEdited, UserDeleted, Rewritten
  <2>2. CASE c = d
    <3> DEFINE T == TargetOf(api[c].spec, data[c])
    <3>1. /\ Quiet /\ api[c].phase = "live" /\ api'[c].finalizer = api[c].finalizer
          /\ objs[t].label = c
      BY <1>4, <2>2 DEF UserEdited, UserDeleted, Rewritten
    <3>2. t = api[c].last.target
      BY <1>1, <3>1, RestRecorded DEF OutputInv, CleanupInv
    <3>3. CASE OutputsOf(api[c].spec, DataOf(c)) = {}
      BY <1>2, <3>1, <3>3
    <3>4. CASE /\ api[c].spec.out # "InvalidSpec" /\ data[c] \in Data /\ T \in Targets
               /\ Delivered(c, api[c], T)
      <4>1. T = t /\ api[c].finalizer = NeedsFinalizer(api[c].spec, T)
        BY <3>2, <3>4 DEF Delivered
      <4>2. api[c].spec \in Specs /\ api[c].spec.own
        BY DEF OutputInv, SpecsInv, AllOwn
      <4>3. IsRaw(api[c].spec)
        BY <1>1, <3>4, <4>1, <4>2, TargetOfSpec
      <4> QED BY <3>1, <4>1, <4>2, <4>3 DEF NeedsFinalizer
    <3> QED BY <3>1, <3>3, <3>4, Rest DEF OutputInv
  <2> QED BY <2>1, <2>2
<1>5. CASE FinalizerStored
  <2>1. CASE c # cur
    BY <1>3, <1>5, <2>1 DEF FinalizerStored, Rewritten
  <2>2. CASE c = cur
    BY <1>5, <2>2, GoalIsOutput DEF FinalizerStored, Rewritten, OutputInv, CleanupInv
  <2> QED BY <2>1, <2>2
<1>6. CASE StatusStored
  <2>1. CASE c # cur
    BY <1>3, <1>6, <2>1 DEF StatusStored, Rewritten
  <2>2. CASE c = cur
    BY <1>2, <1>6, <2>2 DEF StatusStored, Rewritten
  <2> QED BY <2>1, <2>2
<1>7. CASE CRRemoved
  BY <1>3, <1>7 DEF CRRemoved, Rewritten
<1> QED BY <1>3, <1>4, <1>5, <1>6, <1>7, CRWrites DEF OutputInv

(* What a reconcile is about to record with no retry has its owner, or the    *)
(* operator will look at it again.                                           *)
LEMMA OwnedVerdict ==
  ASSUME TypeOK, OutputInv, CleanupInv, Undisturbed, OwnSettles, OwnedInv, [Next]_vars,
         pc' = "status", jtFresh', ~retry'
  PROVE  OwnsRaw(cur)' \/ Woken(cur)'
<1>1. CASE Stays
  <2>1. pc = "status" /\ cur \in CRs /\ cur' = cur /\ (OwnsRaw(cur) \/ Woken(cur))
    BY <1>1 DEF Stays, OwnedInv, TypeOK
  <2>2. api[cur].phase = "live" /\ UNCHANGED api
    <3>1. jt.phase = "live" /\ jt.phase = api[cur].phase
      BY <1>1, <2>1 DEF Stays, OutputInv, CopiesInv, FreshCRs, PhasesInv, ReconcilePCs
    <3>2. ~FinalizerStored /\ ~StatusStored /\ ~CRRemoved
          /\ \A c \in CRs : ~UserEdited(c) /\ ~UserDeleted(c)
      BY <2>1 DEF FinalizerStored, StatusStored, CRRemoved, UserEdited, UserDeleted
    <3> QED BY <3>1, <3>2, CRWrites DEF OutputInv
  <2>3. PICK c \in CRs : c = cur
    BY <2>1
  <2>4. Woken(c) => Woken(c)'
    BY <2>1, <2>2, <2>3, WokenKept DEF OutputInv, Take
  <2>5. OwnsRaw(c) => OwnsRaw(c)'
    BY <2>1, <2>2, LabelWrites, OwnsRawKept DEF Written
  <2> QED BY <2>1, <2>3, <2>4, <2>5 DEF OwnsRaw, Woken, IsOutputOf
<1>2. CASE ReconcileStep
  <2>1. /\ cur' = cur /\ cur \in CRs /\ cur # None /\ jtFresh /\ jt \in CRRecords
        /\ pc \in ReconcilePCs \ {"status"}
    BY <1>2, ReconcileSteps, ConstantsAssumption DEF TypeOK, ReconcilePCs
  <2>2. jt = api[cur] /\ UNCHANGED api /\ jt.spec \in Specs
    <3>1. jt = api[cur] /\ jt.spec \in Specs
      BY <2>1 DEF OutputInv, CopiesInv, SpecsInv, ReconcilePCs
    <3>2. ~FinalizerStored /\ ~StatusStored /\ ~CRRemoved
          /\ \A c \in CRs : ~UserEdited(c) /\ ~UserDeleted(c)
      BY DEF FinalizerStored, StatusStored, CRRemoved, UserEdited, UserDeleted
    <3> QED BY <3>1, <3>2, CRWrites DEF OutputInv
  <2>3. NamespacedTargets \subseteq Targets \ ClusterTargets
        /\ NamespacedTargets \cap ConfigTargets = {}
    BY ConstantsAssumption DEF Targets, RawTargets
  <2>4. CASE AllOwn
    BY <2>1, <2>3, <2>4, AllOwned DEF OutputInv, OwnsRaw
  <2>5. CASE ~AllOwn /\ (ResolveAndRender \/ CheckServiceAccount)
    <3>1. ~jt.spec.own
      BY <2>2, <2>5, FinalVerdict DEF OwnSettles, OutputInv
    <3> QED BY <2>1, <2>2, <3>1 DEF OwnsRaw
  <2>6. CASE CreateOrUpdateOutput \/ ApplyRawObject
    <3>1. pc = "apply" /\ goal.target \in OutputsOf(jt.spec, DataOf(cur))
      BY <2>6, GoalIsOutput DEF CreateOrUpdateOutput, ApplyRawObject, OutputInv, CleanupInv
    <3>2. ASSUME NEW t \in NamespacedTargets, objs'[t].label = cur PROVE t = goal.target
      <4>1. CASE objs[t].label = cur
        <5>1. t \in OutputsOf(jt.spec, DataOf(cur))
          BY <2>1, <2>3, <3>1, <4>1 DEF CleanupInv, RecordedInv
        <5> QED BY <2>1, <2>2, <3>1, <5>1, OneOutput
      <4>2. CASE objs[t].label # cur
        BY <2>1, <2>3, <3>2, <4>2, LabelWrites DEF LabelsKept, Written
      <4> QED BY <4>1, <4>2
    <3>3. ASSUME goal.target \in NamespacedTargets, jt.spec.own
          PROVE  objs'[goal.target].owner = cur
      <4>1. ApplyRawObject /\ RecordOutput
        BY <2>3, <2>6, <3>1, <3>3
        DEF CreateOrUpdateOutput, ApplyRawObject, TypeOK, Finish
      <4>2. objs'[goal.target] = RenderedObject
        BY <2>3, <3>3, <4>1, StoreObjEffect DEF ApplyRawObject, Finish, RecordOutput
      <4> QED BY <3>3, <4>2 DEF RenderedObject
    <3> QED BY <2>1, <2>2, <3>2, <3>3 DEF OwnsRaw
  <2>7. ~(KeepFinalizer \/ UpdateFinalizer \/ CleanupOldOutput)
    BY DEF KeepFinalizer, UpdateFinalizer, CleanupOldOutput, Finish
  <2> QED BY <1>2, <2>4, <2>5, <2>6, <2>7 DEF ReconcileStep
<1> QED BY <1>1, <1>2, WorkerMoves DEF Started, FinalizePCs

LEMMA OwnedNext ==
  ASSUME TypeOK, OutputInv, CleanupInv, Undisturbed, OwnSettles, OwnedInv, [Next]_vars
  PROVE  OwnedInv'
<1>1. ASSUME NEW c \in CRs, api'[c].phase = "live"
      PROVE  OwnsRaw(c)' \/ Woken(c)' \/ (pc # "idle" /\ cur = c)'
  <2>1. CASE api'[c].spec # api[c].spec
    <3>1. \E d \in CRs : UserEdited(d) /\ c = d
      BY <2>1, CRWrites DEF OutputInv, FinalizerStored, StatusStored, CRRemoved, UserEdited,
                            UserDeleted, Rewritten
    <3> QED BY <3>1 DEF UserEdited, Woken
  <2>2. CASE api'[c].spec = api[c].spec /\ (pc = "idle" \/ cur # c)
    <3>1. api[c].phase = "live"
      BY <1>1, CRWrites DEF OutputInv, FinalizerStored, StatusStored, CRRemoved, UserEdited,
                            UserDeleted, Rewritten
    <3>2. OwnsRaw(c) \/ Woken(c)
      BY <2>2, <3>1 DEF OwnedInv
    <3>3. OwnsRaw(c) => OwnsRaw(c)'
      BY <2>2, LabelWrites, OwnsRawKept DEF Written
    <3>4. CASE Take(c)
      <4>1. cache[c].phase = "live"
        BY <3>1 DEF OutputInv, PhasesInv
      <4> QED BY <3>4, <4>1 DEF Take
    <3>5. CASE ~Take(c)
      BY <1>1, <3>2, <3>3, <3>5, WokenKept DEF OutputInv
    <3> QED BY <3>4, <3>5
  <2>3. CASE api'[c].spec = api[c].spec /\ pc # "idle" /\ cur = c /\ pc' = "idle"
    <3>1. ~Stays /\ ~ReconcileStep /\ \A d \in CRs : ~Take(d)
      BY <2>3, ReconcileSteps DEF Stays, Take, ReconcilePCs
    <3>2. ~OutsideStep /\ \A d \in CRs, x \in Data \cup Failures : ~ChangeData(d, x)
      BY <2>3, OutsideSteps DEF ChangeData, workerVars
    <3>3. CASE FinalizeStep
      <4>1. api[c].phase # "live"
        BY <2>3, <3>3, FinalizeSteps DEF OutputInv, PhasesInv
      <4> QED BY <1>1, <4>1, CRWrites DEF OutputInv, FinalizerStored, StatusStored, CRRemoved,
                   UserEdited, UserDeleted, Rewritten
    <3>4. CASE Restart
      BY <1>1, <3>4 DEF Restart, Woken
    <3>5. CASE UpdateStatus /\ c \notin queue'
      <4>1. pc = "status" /\ jtFresh /\ ~retry /\ UNCHANGED objs
        BY <2>3, <3>5 DEF UpdateStatus, Return, objVars
      <4>2. OwnsRaw(c) \/ Woken(c)
        BY <2>3, <4>1 DEF OwnedInv
      <4>3. OwnsRaw(c) => OwnsRaw(c)'
        BY <2>3, <4>1 DEF OwnsRaw
      <4> QED BY <1>1, <3>1, <4>2, <4>3, WokenKept DEF OutputInv
    <3> QED BY <3>1, <3>2, <3>3, <3>4, <3>5, Steps DEF Woken
  <2>4. CASE pc # "idle" /\ cur = c /\ pc' # "idle"
    <3>1. cur' = cur
      BY <2>4, WorkerMoves, ReconcileSteps DEF Stays, Started
    <3> QED BY <2>4, <3>1
  <2> QED BY <2>1, <2>2, <2>3, <2>4
<1>2. pc' = "status" /\ jtFresh' /\ ~retry' => OwnsRaw(cur)' \/ Woken(cur)'
  BY OwnedVerdict
<1>3. ASSUME AllOwn, NEW c \in CRs, NEW t \in Targets \ ClusterTargets, objs'[t].label = c
      PROVE  objs'[t].owner = c
  BY <1>3, AllOwned DEF OutputInv
<1>4. ASSUME AllOwn, NEW c \in CRs, NEW t \in ClusterTargets, api'[c].phase = "live",
             objs'[t].label = c
      PROVE  api'[c].finalizer \/ OutputsOf(api'[c].spec, DataOf(c)') # {}
  BY <1>4, AllFinalized, DataSteady
<1> QED BY <1>1, <1>2, <1>3, <1>4 DEF OwnedInv

-----------------------------------------------------------------------------
(* What a CR leaves *)

(* What a CR at rest with owner semantics has written would be collected, or   *)
(* finalized.                                                                *)
LEMMA RestOwned ==
  ASSUME TypeOK, SpecsInv, TruthInv, Undisturbed, OwnSettles, RecordedInv, OwnedInv, Quiet,
         NEW c \in CRs, NEW t \in Targets, api[c].phase = "live", objs[t].label = c,
         api[c].spec.own
  PROVE  objs[t].owner = c \/ (t \in ClusterTargets /\ api[c].finalizer)
<1> DEFINE s == api[c].spec
           T == TargetOf(s, data[c])
<1>1. s \in Specs /\ t = api[c].last.target
  BY RestRecorded DEF SpecsInv
<1>2. CASE t \in NamespacedTargets
  BY <1>2 DEF OwnedInv, OwnsRaw, Quiet, Woken
<1>3. CASE t \notin NamespacedTargets /\ OutputsOf(s, DataOf(c)) = {} /\ FailsForGood(s)
  <2>1. AllOwn
    BY <1>1, <1>3 DEF OwnSettles
  <2> QED BY <1>3, <2>1 DEF OwnedInv
<1>4. CASE /\ t \notin NamespacedTargets /\ s.out # "InvalidSpec" /\ data[c] \in Data
           /\ T \in Targets /\ Delivered(c, api[c], T)
  <2>1. T = t
    BY <1>1, <1>4 DEF Delivered
  <2>2. CASE t \in ConfigTargets
    <3>1. t \notin ClusterTargets
      BY <2>2, ConstantsAssumption DEF RawTargets
    <3> QED BY <1>4, <2>1, <2>2, <3>1 DEF Delivered, IsWritten
  <2>3. CASE t \in ClusterTargets
    <3>1. t \notin ConfigTargets
      BY <2>3, ConstantsAssumption DEF RawTargets
    <3>2. IsRaw(s)
      BY <1>1, <1>4, <2>1, <3>1, TargetOfSpec
    <3> QED BY <1>4, <2>1, <2>3, <3>2 DEF Delivered, NeedsFinalizer
  <2> QED BY <1>4, <2>2, <2>3 DEF Targets, RawTargets
<1> QED BY <1>2, <1>3, <1>4, Rest

LEMMA LeftNext ==
  ASSUME TypeOK, OutputInv, CleanupInv, Undisturbed, OwnSettles, OwnedInv, LeftInv, [Next]_vars
  PROVE  LeftInv'
<1> DEFINE Leaves(c, t) ==
             /\ api'[c].phase = "deleting" /\ objs'[t].label = c =>
                  /\ t = api'[c].last.target
                  /\ api'[c].spec.own => objs'[t].owner = c \/ t \in ClusterTargets
             /\ api'[c].phase = "gone" /\ objs'[t].label = c /\ api'[c].spec.own =>
                  objs'[t].owner = c
<1>0. CRs # {} => \A c \in CRs : c # None
  BY ConstantsAssumption
<1>1. ASSUME NEW c \in CRs, NEW t \in Targets, api'[c] = api[c] PROVE Leaves(c, t)
  <2>1. CASE api[c].phase = "live"
    BY <1>1, <2>1
  <2>2. CASE \/ objs'[t].label # c
             \/ objs'[t].label = objs[t].label /\ objs'[t].owner = objs[t].owner
    BY <1>1, <2>2 DEF LeftInv
  <2>3. CASE Written /\ t = goal.target /\ c = cur /\ api[c].phase # "live"
    <3>1. pc = "apply" /\ jt.phase = "live" /\ Outdated(cur, jt)
      BY <2>3 DEF Written, OutputInv, PhasesInv, ReconcilePCs, Outdated
    <3>2. AtRest(cur, jt) /\ t = api[c].last.target
      BY <2>3, <3>1, WrittenIsRecorded DEF OutputInv, CleanupInv
    <3>3. /\ jt.spec = api[c].spec /\ jt.finalizer = api[c].finalizer
          /\ jt.spec.own /\ t \notin ClusterTargets => objs'[t].owner = c
      BY <2>3, <3>2 DEF AtRest, Written
    <3>4. t \in ClusterTargets /\ jt.spec.own => api[c].finalizer
      <4>1. t \in ClusterTargets => IsRaw(jt.spec)
        BY <2>3, <3>1, ConstantsAssumption DEF TypeOK, RawTargets
      <4> QED BY <2>3, <3>1, <3>3, <4>1 DEF OutputInv, GoalInv, WantsFinalizer, NeedsFinalizer
    <3> QED BY <1>1, <3>2, <3>3, <3>4 DEF LeftInv
  <2> QED BY <1>0, <2>1, <2>2, <2>3, LabelWrites DEF LabelsKept, Written
<1>2. ASSUME NEW d \in CRs, UserDeleted(d), NEW t \in Targets PROVE Leaves(d, t)
  <2>1. /\ Quiet /\ api[d].phase = "live" /\ UNCHANGED objs
        /\ api'[d].phase = IF api[d].finalizer THEN "deleting" ELSE "gone"
        /\ api'[d].spec = api[d].spec /\ api'[d].last = api[d].last
        /\ api'[d].finalizer = api[d].finalizer
    BY <1>2 DEF UserDeleted, Rewritten
  <2>2. ASSUME objs[t].label = d
        PROVE  /\ t = api[d].last.target
               /\ api[d].spec.own => objs[t].owner = d \/ (t \in ClusterTargets /\ api[d].finalizer)
    BY <2>1, <2>2, RestRecorded, RestOwned DEF OutputInv, CleanupInv
  <2> QED BY <2>1, <2>2
<1>3. ASSUME CRRemoved, NEW t \in Targets PROVE Leaves(cur, t)
  <2>1. /\ pc = "finalRemove" /\ cur \in CRs /\ api[cur].phase = "deleting" /\ jt = api[cur]
        /\ api'[cur].phase = "gone" /\ api'[cur].spec = api[cur].spec
        /\ api'[cur].finalizer = FALSE /\ UNCHANGED objs
    BY <1>3 DEF CRRemoved, Rewritten
  <2>2. objs[t].label = cur => /\ t = api[cur].last.target
                               /\ api[cur].spec.own => objs[t].owner = cur \/ t \in ClusterTargets
    BY <2>1 DEF LeftInv
  <2>3. objs[t].label = cur => t \notin ClusterTargets
    BY <1>0, <2>1, <2>2 DEF OutputInv, DeletionInv, RawTargets
  <2> QED BY <2>1, <2>2, <2>3
<1>4. ASSUME NEW c \in CRs, NEW t \in Targets PROVE Leaves(c, t)
  <2>1. CASE FinalizerStored \/ StatusStored
    BY <1>1, <2>1 DEF FinalizerStored, StatusStored, Rewritten
  <2>2. CASE CRRemoved
    BY <1>1, <1>3, <2>2 DEF CRRemoved, Rewritten
  <2>3. CASE \E d \in CRs : UserEdited(d) \/ UserDeleted(d)
    BY <1>1, <1>2, <2>3 DEF UserEdited, UserDeleted, Rewritten
  <2> QED BY <1>1, <2>1, <2>2, <2>3, CRWrites DEF OutputInv
<1>5. \A c \in CRs : api'[c].phase = "gone" => ~api'[c].finalizer
  <2>1. ASSUME NEW c \in CRs, api'[c].phase = "gone" PROVE ~api'[c].finalizer
    BY <2>1, CRWrites DEF OutputInv, LeftInv, FinalizerStored, StatusStored, CRRemoved,
                          UserEdited, UserDeleted, Rewritten
  <2> QED BY <2>1
<1> QED BY <1>4, <1>5 DEF LeftInv

LEMMA LeftInvHolds ==
  ASSUME Undisturbed, OwnSettles
  PROVE  Spec => [](LeftInv /\ OwnedInv)
<1>1. ASSUME Init PROVE OwnedInv /\ LeftInv
  BY <1>1, ConstantsAssumption
  DEF Init, NewCR, OwnedInv, OwnsRaw, LeftInv, NoObj, Woken, Targets, RawTargets
<1>2. TypeOK /\ OutputInv /\ CleanupInv /\ (LeftInv /\ OwnedInv) /\ [Next]_vars
        => (LeftInv /\ OwnedInv)'
  BY OwnedNext, LeftNext
<1> QED BY <1>1, <1>2, CleanupInvHolds, PTL DEF Spec

(* ... and if CRs with owner semantics do not fail for good, or all CRs have   *)
(* owner semantics, then what the operator wrote for a CR with owner          *)
(* semantics is gone with the CR, or has the CR as its owner, so that the     *)
(* garbage collector takes it.                                               *)
THEOREM NothingLeft ==
  ASSUME Undisturbed, OwnSettles
  PROVE  Spec => []NothingOutlivesOwner
<1>1. LeftInv => NothingOutlivesOwner
  BY DEF LeftInv, NothingOutlivesOwner
<1> QED BY <1>1, LeftInvHolds, PTL

=============================================================================
