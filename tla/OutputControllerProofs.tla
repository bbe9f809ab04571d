----------------------- MODULE OutputControllerProofs -----------------------
(***************************************************************************)
(* Theorems about OutputController, for every set of CRs, targets,          *)
(* ServiceAccounts, specs and disturbances.                                 *)
(***************************************************************************)
EXTENDS OutputController, TLAPS

(* Storing a CR record keeps the CR variables in their types.                *)
LEMMA StoreCRType ==
  ASSUME TypeOK, NEW c \in CRs, NEW r \in CRRecords, StoreCR(c, r)
  PROVE  /\ api' \in [CRs -> CRRecords]
         /\ cache' \in [CRs -> CRRecords]
         /\ cacheFresh' \in [CRs -> BOOLEAN]
  BY DEF TypeOK, StoreCR

(* Storing an output object keeps the object variables in their types.       *)
LEMMA StoreObjType ==
  ASSUME TypeOK, NEW t \in Targets, NEW o \in Objects, StoreObj(t, o)
  PROVE  /\ objs' \in [Targets -> Objects]
         /\ ocache' \in [ConfigTargets -> Objects]
         /\ ocacheFresh' \in [ConfigTargets -> BOOLEAN]
  BY DEF TypeOK, StoreObj

(* The atoms the records are made of have the types the records name.        *)
LEMMA Atoms ==
  /\ NoObj \in Objects /\ Foreign \in Objects
  /\ NoCR \in CRRecords /\ NoGoal \in Goals
  /\ ConfigTargets \subseteq Targets /\ RawTargets \subseteq Targets
  BY DEF NoObj, Foreign, Objects, NoCR, NewCR, NoSpec, NoRef, Refs, Phases, Reasons,
         CRRecords, NoGoal, Goals, Targets

(* Reconcile returning leaves the worker's variables in their types.         *)
LEMMA ReturnType ==
  ASSUME TypeOK, pc # "idle", NEW err \in BOOLEAN, Return(err)
  PROVE  /\ queue' \subseteq CRs
         /\ pc' = "idle" /\ cur' \in CRs \cup {None}
         /\ jt' \in CRRecords /\ jtFresh' \in BOOLEAN
         /\ goal' \in Goals /\ retry' \in BOOLEAN
  BY Atoms DEF TypeOK, Return

(* The fields of a CR record may be replaced by values of their types.       *)
LEMMA CRFields ==
  ASSUME NEW r \in CRRecords
  PROVE  /\ r.spec \in Specs \cup {NoSpec} /\ r.last \in Refs
         /\ r.phase \in Phases /\ r.finalizer \in BOOLEAN /\ r.ready \in Reasons
         /\ \A f \in BOOLEAN : [r EXCEPT !.finalizer = f] \in CRRecords
         /\ \A p \in Phases : [r EXCEPT !.phase = p] \in CRRecords
         /\ \A s \in Specs : [r EXCEPT !.spec = s] \in CRRecords
         /\ \A x \in Reasons : [r EXCEPT !.ready = x] \in CRRecords
         /\ \A l \in Refs, x \in Reasons :
              [r EXCEPT !.last = l, !.ready = x] \in CRRecords
         /\ \A f \in BOOLEAN, p \in Phases :
              [r EXCEPT !.finalizer = f, !.phase = p] \in CRRecords
  BY DEF CRRecords

-----------------------------------------------------------------------------
(* Type correctness *)

(* The initial states have the types.                                        *)
LEMMA InitTypeOK == Init => TypeOK
<1> SUFFICES ASSUME Init PROVE TypeOK
    OBVIOUS
<1>1. \A s \in Specs : NewCR(s) \in CRRecords
  BY DEF NewCR, CRRecords, NoRef, Refs, Phases, Reasons
<1>2. api \in [CRs -> CRRecords] /\ cache \in [CRs -> CRRecords]
  BY <1>1 DEF Init
<1>3. pc = "idle" /\ pc \in PCs
  BY DEF Init, PCs
<1>4. cacheFresh \in [CRs -> BOOLEAN] /\ ocacheFresh \in [ConfigTargets -> BOOLEAN]
  BY DEF Init
<1>5. objs \in [Targets -> Objects] /\ ocache \in [ConfigTargets -> Objects]
  BY Atoms DEF Init
<1>6. /\ queue \subseteq CRs /\ cur \in CRs \cup {None}
      /\ jt \in CRRecords /\ jtFresh \in BOOLEAN /\ goal \in Goals /\ retry \in BOOLEAN
  BY Atoms DEF Init
<1>7. /\ data \in [CRs -> Data \cup Failures] /\ accounts \subseteq SAs
      /\ grants \in [SAs -> SUBSET Verbs] /\ calm \in BOOLEAN
  BY DEF Init
<1> QED
  BY <1>2, <1>3, <1>4, <1>5, <1>6, <1>7 DEF TypeOK

(* Taking a key from the queue.                                              *)
LEMMA TakeType ==
  ASSUME TypeOK, NEW c \in CRs, Take(c)
  PROVE  TypeOK'
<1>1. cache[c] \in CRRecords /\ cacheFresh[c] \in BOOLEAN
  BY DEF TypeOK
<1>2. CASE UNCHANGED workerVars
  BY <1>2 DEF TypeOK, Take, workerVars, crVars, objVars, envVars
<1>3. CASE ~UNCHANGED workerVars
  <2>1. /\ cur' = c /\ jt' = cache[c] /\ jtFresh' = cacheFresh[c]
        /\ pc' \in {"inputs", "finalAccount", "finalRemove"}
        /\ pc' = "finalAccount" => cache[c].last.target \in RawTargets
        /\ UNCHANGED <<goal, retry>>
    BY <1>3 DEF Take
  <2>2. UNCHANGED <<crVars, objVars, envVars>> /\ queue' \subseteq CRs
    BY DEF Take, TypeOK
  <2> QED
    BY <1>1, <2>1, <2>2 DEF TypeOK, PCs, crVars, objVars, envVars
<1> QED
  BY <1>2, <1>3

(* Reading the inputs and rendering.                                         *)
LEMMA ResolveAndRenderType ==
  ASSUME TypeOK, ResolveAndRender
  PROVE  TypeOK'
<1> DEFINE d == data[cur]
           t == IF IsRaw(jt.spec) THEN Render[jt.spec.out][d] ELSE jt.spec.out
<1>1. cur \in CRs /\ jt \in CRRecords /\ d \in Data \cup InputFailures
  BY ConstantsAssumption DEF TypeOK, ResolveAndRender
<1>2. UNCHANGED <<crVars, objVars, queue, envVars>>
  BY DEF ResolveAndRender
<1>3. CASE \E x \in Reasons, e \in BOOLEAN : Finish(x, e) /\ UNCHANGED goal
  <2>1. PICK x \in Reasons, e \in BOOLEAN : Finish(x, e) /\ UNCHANGED goal
    BY <1>3
  <2>2. jt' \in CRRecords /\ pc' = "status" /\ retry' \in BOOLEAN
        /\ UNCHANGED <<cur, jtFresh, goal>>
    BY <2>1, <1>1, CRFields DEF Finish
  <2> QED
    BY <1>1, <1>2, <2>2 DEF TypeOK, PCs, crVars, objVars, envVars
<1>4. CASE /\ jt.spec.out # "InvalidSpec" /\ d \notin InputFailures /\ t # "Unparsable"
           /\ goal' = [target |-> t, data |-> d]
           /\ pc' = IF IsRaw(jt.spec) THEN "account" ELSE "finalizer"
           /\ UNCHANGED <<cur, jt, jtFresh, retry>>
  <2>1. d \in Data
    BY <1>1, <1>4
  <2>2. jt.spec \in Specs
    <3>1. jt.spec \in Specs \cup {NoSpec}
      BY <1>1 DEF CRRecords
    <3>2. NoSpec.out = "InvalidSpec"
      BY DEF NoSpec
    <3> QED
      BY <1>4, <3>1, <3>2
  <2>3. t \in IF IsRaw(jt.spec) THEN RawTargets \cup BadManifests ELSE ConfigTargets
    BY <1>4, <2>1, <2>2, RenderAssumption, SpecsAssumption DEF IsRaw
  <2>4. goal' \in Goals /\ goal'.data \in Data /\ goal'.target = t
    BY <1>4, <2>1, <2>3 DEF Goals, Targets
  <2>5. pc' = "finalizer" => goal'.target \in ConfigTargets /\ ~IsRaw(jt.spec)
    BY <1>4, <2>3, <2>4
  <2>6. /\ pc' \in {"account", "finalizer"} /\ jt' = jt
        /\ pc' = "account" => IsRaw(jt.spec) /\ goal'.target \in RawTargets \cup BadManifests
    BY <1>4, <2>3, <2>4
  <2> QED
    BY <1>1, <1>2, <1>4, <2>4, <2>5, <2>6 DEF TypeOK, PCs, crVars, objVars, envVars, IsRaw
<1>5. {"InvalidSpec", "RawObjectInvalid"} \cup InputFailures \subseteq Reasons
  BY DEF Reasons
<1> QED
  BY <1>1, <1>3, <1>4, <1>5 DEF ResolveAndRender

(* A reconcile that has set its condition is on its way to the status update. *)
LEMMA FinishType ==
  ASSUME TypeOK, pc # "idle", NEW x \in Reasons, NEW e \in BOOLEAN, Finish(x, e)
  PROVE  /\ cur' \in CRs /\ jt' \in CRRecords /\ jtFresh' \in BOOLEAN
         /\ pc' = "status" /\ retry' \in BOOLEAN
  BY CRFields DEF TypeOK, Finish

(* Checking the ServiceAccount and the kind of the manifest.                 *)
LEMMA CheckServiceAccountType ==
  ASSUME TypeOK, CheckServiceAccount
  PROVE  TypeOK'
<1>1. UNCHANGED <<crVars, objVars, queue, goal, envVars>> /\ pc = "account"
  BY DEF CheckServiceAccount
<1>2. CASE \E x \in Reasons, e \in BOOLEAN : Finish(x, e)
  BY <1>1, <1>2, FinishType DEF TypeOK, PCs, crVars, objVars, envVars
<1>3. CASE /\ goal.target \notin BadManifests /\ pc' = "finalizer"
           /\ UNCHANGED <<cur, jt, jtFresh, retry>>
           /\ IsRaw(jt.spec) /\ goal.target \in RawTargets \cup BadManifests
  BY <1>1, <1>3 DEF TypeOK, PCs, crVars, objVars, envVars, IsRaw
<1>4. {"OutputFailed", "RawObjectInvalid", "ServiceAccountNotFound"} \subseteq Reasons
  BY DEF Reasons
<1> QED
  BY <1>1, <1>2, <1>3, <1>4 DEF CheckServiceAccount, CheckManifest, TypeOK

(* Leaving the finalizer as it is.                                           *)
LEMMA KeepFinalizerType ==
  ASSUME TypeOK, KeepFinalizer
  PROVE  TypeOK'
  BY DEF TypeOK, KeepFinalizer, PCs, crVars, objVars, envVars

(* Adding or removing the finalizer.                                         *)
LEMMA UpdateFinalizerType ==
  ASSUME TypeOK, UpdateFinalizer
  PROVE  TypeOK'
<1>1. /\ UNCHANGED <<objVars, queue, goal, envVars>> /\ pc = "finalizer"
      /\ cur \in CRs /\ jt \in CRRecords /\ api[cur] \in CRRecords
  BY DEF UpdateFinalizer, TypeOK
<1>2. WantsFinalizer \in BOOLEAN /\ jt.ready \in Reasons
  BY <1>1, CRFields DEF WantsFinalizer, NeedsFinalizer
<1>3. CASE UNCHANGED crVars /\ Finish(jt.ready, TRUE)
  BY <1>1, <1>2, <1>3, FinishType DEF TypeOK, PCs, crVars, objVars, envVars
<1>4. CASE /\ StoreFinalizer /\ UNCHANGED cur /\ jtFresh' \in BOOLEAN /\ retry' \in BOOLEAN
           /\ jt' \in {jt, [jt EXCEPT !.finalizer = WantsFinalizer]}
           /\ pc' = "cleanup" => jt'.spec = jt.spec
           /\ pc' \in {"cleanup", "status"}
  <2>1. [api[cur] EXCEPT !.finalizer = WantsFinalizer] \in CRRecords
        /\ jt' \in CRRecords
    BY <1>1, <1>2, <1>4, CRFields
  <2>2. /\ api' \in [CRs -> CRRecords] /\ cache' \in [CRs -> CRRecords]
        /\ cacheFresh' \in [CRs -> BOOLEAN]
    BY <1>1, <1>4, <2>1, StoreCRType DEF StoreFinalizer
  <2> QED
    BY <1>1, <1>4, <2>1, <2>2 DEF TypeOK, PCs, objVars, envVars, IsRaw
<1>5. [jt EXCEPT !.finalizer = WantsFinalizer].spec = jt.spec
  BY <1>1 DEF CRRecords
<1> QED
  BY <1>1, <1>3, <1>4, <1>5 DEF UpdateFinalizer, TypeOK

(* Cleaning up the output of an earlier spec.                                *)
LEMMA CleanupOldOutputType ==
  ASSUME TypeOK, CleanupOldOutput
  PROVE  TypeOK'
<1>1. /\ UNCHANGED <<crVars, queue, cur, jt, jtFresh, goal, retry, envVars>>
      /\ pc = "cleanup" /\ pc' = "apply" /\ jt \in CRRecords
  BY DEF CleanupOldOutput, TypeOK
<1>2. CASE UNCHANGED objVars
  BY <1>1, <1>2 DEF TypeOK, PCs, crVars, objVars, envVars
<1>3. CASE jt.last.target # None /\ StoreObj(jt.last.target, NoObj)
  <2>1. jt.last.target \in Targets
    BY <1>1, <1>3 DEF CRRecords, Refs
  <2>2. /\ objs' \in [Targets -> Objects] /\ ocache' \in [ConfigTargets -> Objects]
        /\ ocacheFresh' \in [ConfigTargets -> BOOLEAN]
    BY <1>3, <2>1, Atoms, StoreObjType
  <2> QED
    BY <1>1, <2>2 DEF TypeOK, PCs, crVars, envVars
<1> QED
  BY <1>2, <1>3 DEF CleanupOldOutput, TargetChanged

(* Recording the written output in the worker's copy of the CR.              *)
LEMMA RecordOutputType ==
  ASSUME TypeOK, pc = "apply", RecordOutput
  PROVE  /\ cur' \in CRs /\ jt' \in CRRecords /\ jtFresh' \in BOOLEAN
         /\ pc' = "status" /\ retry' \in BOOLEAN
<1>1. /\ jt \in CRRecords /\ cur \in CRs /\ goal.target \in Targets
  BY Atoms DEF TypeOK
<1>2. jt.spec.sa \in SAs \cup {None}
  BY <1>1, SpecsAssumption DEF CRRecords, NoSpec
<1>3. [target |-> goal.target, sa |-> jt.spec.sa] \in Refs
  BY <1>1, <1>2 DEF Refs
<1>4. "RenderSuccess" \in Reasons
  BY DEF Reasons
<1>5. jt' \in CRRecords
  BY <1>1, <1>3, <1>4, CRFields DEF RecordOutput
<1> QED
  BY <1>1, <1>5 DEF RecordOutput, TypeOK

(* Writing an output: the object has the type of an object, and the worker   *)
(* goes on to the status update.                                             *)
LEMMA WriteOutputType ==
  ASSUME TypeOK, pc = "apply", UNCHANGED <<crVars, queue, goal, envVars>>,
         \/ UNCHANGED objVars
         \/ \E o \in Objects : StoreObj(goal.target, o),
         \/ RecordOutput
         \/ \E x \in Reasons : Finish(x, TRUE)
  PROVE  TypeOK'
<1>1. /\ cur' \in CRs /\ jt' \in CRRecords /\ jtFresh' \in BOOLEAN
      /\ pc' = "status" /\ retry' \in BOOLEAN
  BY RecordOutputType, FinishType
<1>2. goal.target \in Targets
  BY Atoms DEF TypeOK
<1>3. /\ objs' \in [Targets -> Objects] /\ ocache' \in [ConfigTargets -> Objects]
      /\ ocacheFresh' \in [ConfigTargets -> BOOLEAN]
  <2>1. CASE UNCHANGED objVars
    BY <2>1 DEF TypeOK, objVars
  <2>2. CASE \E o \in Objects : StoreObj(goal.target, o)
    BY <2>2, <1>2, StoreObjType
  <2> QED
    BY <2>1, <2>2
<1> QED
  BY <1>1, <1>3 DEF TypeOK, PCs, crVars, envVars

(* Creating, updating or leaving alone a ConfigMap or Secret.                *)
LEMMA CreateOrUpdateOutputType ==
  ASSUME TypeOK, CreateOrUpdateOutput
  PROVE  TypeOK'
<1> DEFINE t == goal.target
<1>1. /\ pc = "apply" /\ UNCHANGED <<crVars, queue, goal, envVars>>
      /\ t \in ConfigTargets /\ cur \in CRs /\ goal.data \in Data
  BY DEF CreateOrUpdateOutput, TypeOK
<1>2. ocache[t] \in Objects
  BY <1>1 DEF TypeOK
<1>3. Mutate(ocache[t]) \in Objects
  BY <1>1, <1>2 DEF Mutate, Objects
<1>4. UNCHANGED objVars \/ StoreObj(t, Mutate(ocache[t]))
  BY DEF CreateOrUpdateOutput
<1>5. RecordOutput \/ Finish("OutputFailed", TRUE)
  BY DEF CreateOrUpdateOutput
<1>6. "OutputFailed" \in Reasons
  BY DEF Reasons
<1> QED
  BY <1>1, <1>3, <1>4, <1>5, <1>6, WriteOutputType

(* Applying a raw output.                                                    *)
LEMMA ApplyRawObjectType ==
  ASSUME TypeOK, ApplyRawObject
  PROVE  TypeOK'
<1>1. /\ pc = "apply" /\ UNCHANGED <<crVars, queue, goal, envVars>>
      /\ cur \in CRs /\ goal.data \in Data
  BY DEF ApplyRawObject, TypeOK
<1>2. RenderedObject \in Objects
  BY <1>1 DEF RenderedObject, Objects
<1>3. UNCHANGED objVars \/ StoreObj(goal.target, RenderedObject)
  BY DEF ApplyRawObject
<1>4. RecordOutput \/ Finish("OutputFailed", TRUE) \/ Finish("OutputForbidden", TRUE)
  BY DEF ApplyRawObject
<1>5. "OutputFailed" \in Reasons /\ "OutputForbidden" \in Reasons
  BY DEF Reasons
<1> QED
  BY <1>1, <1>2, <1>3, <1>4, <1>5, WriteOutputType

(* Writing the status.                                                       *)
LEMMA UpdateStatusType ==
  ASSUME TypeOK, UpdateStatus
  PROVE  TypeOK'
<1>1. /\ pc = "status" /\ UNCHANGED <<objVars, envVars>>
      /\ cur \in CRs /\ jt \in CRRecords /\ api[cur] \in CRRecords /\ retry \in BOOLEAN
  BY DEF UpdateStatus, TypeOK
<1>2. Return(retry) \/ Return(TRUE)
  BY DEF UpdateStatus
<1>3. /\ api' \in [CRs -> CRRecords] /\ cache' \in [CRs -> CRRecords]
      /\ cacheFresh' \in [CRs -> BOOLEAN]
  <2>1. [api[cur] EXCEPT !.last = jt.last, !.ready = jt.ready] \in CRRecords
    BY <1>1, CRFields
  <2>2. CASE UNCHANGED crVars
    BY <2>2 DEF TypeOK, crVars
  <2>3. CASE StoreCR(cur, [api[cur] EXCEPT !.last = jt.last, !.ready = jt.ready])
    BY <1>1, <2>1, <2>3, StoreCRType
  <2> QED
    BY <2>2, <2>3 DEF UpdateStatus
<1>4. /\ queue' \subseteq CRs /\ pc' = "idle" /\ cur' \in CRs \cup {None}
      /\ jt' \in CRRecords /\ jtFresh' \in BOOLEAN /\ goal' \in Goals /\ retry' \in BOOLEAN
  BY <1>1, <1>2, ReturnType
<1> QED
  BY <1>1, <1>3, <1>4 DEF TypeOK, PCs, objVars, envVars

(* Checking the ServiceAccount a recorded raw output is deleted as.          *)
LEMMA CheckFinalAccountType ==
  ASSUME TypeOK, CheckFinalAccount
  PROVE  TypeOK'
<1>1. pc = "finalAccount" /\ UNCHANGED <<crVars, objVars, envVars>>
  BY DEF CheckFinalAccount
<1>2. CASE Return(TRUE)
  BY <1>1, <1>2, ReturnType DEF TypeOK, PCs, crVars, objVars, envVars
<1>3. CASE pc' = "finalDelete" /\ UNCHANGED <<queue, cur, jt, jtFresh, goal, retry>>
  BY <1>1, <1>3 DEF TypeOK, PCs, crVars, objVars, envVars
<1> QED
  BY <1>2, <1>3 DEF CheckFinalAccount

(* Deleting the recorded raw output during finalization.                     *)
LEMMA DeleteRawOutputType ==
  ASSUME TypeOK, DeleteRawOutput
  PROVE  TypeOK'
<1>1. /\ pc = "finalDelete" /\ UNCHANGED <<crVars, envVars>>
      /\ jt.last.target \in Targets
  BY Atoms DEF DeleteRawOutput, TypeOK
<1>2. /\ objs' \in [Targets -> Objects] /\ ocache' \in [ConfigTargets -> Objects]
      /\ ocacheFresh' \in [ConfigTargets -> BOOLEAN]
  <2>1. CASE UNCHANGED objVars
    BY <2>1 DEF TypeOK, objVars
  <2>2. CASE StoreObj(jt.last.target, NoObj)
    BY <1>1, <2>2, Atoms, StoreObjType
  <2> QED
    BY <2>1, <2>2 DEF DeleteRawOutput
<1>3. CASE Return(TRUE)
  BY <1>1, <1>2, <1>3, ReturnType DEF TypeOK, PCs, crVars, envVars
<1>4. CASE pc' = "finalRemove" /\ UNCHANGED <<queue, cur, jt, jtFresh, goal, retry>>
  BY <1>1, <1>2, <1>4 DEF TypeOK, PCs, crVars, envVars
<1> QED
  BY <1>3, <1>4 DEF DeleteRawOutput

(* Removing the finalizer of a CR under deletion.                            *)
LEMMA RemoveFinalizerType ==
  ASSUME TypeOK, RemoveFinalizer
  PROVE  TypeOK'
<1>1. /\ pc = "finalRemove" /\ UNCHANGED <<objVars, envVars>>
      /\ cur \in CRs /\ api[cur] \in CRRecords
  BY DEF RemoveFinalizer, TypeOK
<1>2. Return(FALSE) \/ Return(TRUE)
  BY DEF RemoveFinalizer
<1>3. /\ api' \in [CRs -> CRRecords] /\ cache' \in [CRs -> CRRecords]
      /\ cacheFresh' \in [CRs -> BOOLEAN]
  <2>1. [api[cur] EXCEPT !.finalizer = FALSE, !.phase = "gone"] \in CRRecords
    BY <1>1, CRFields DEF Phases
  <2>2. CASE UNCHANGED crVars
    BY <2>2 DEF TypeOK, crVars
  <2>3. CASE StoreCR(cur, [api[cur] EXCEPT !.finalizer = FALSE, !.phase = "gone"])
    BY <1>1, <2>1, <2>3, StoreCRType
  <2> QED
    BY <2>2, <2>3 DEF RemoveFinalizer
<1>4. /\ queue' \subseteq CRs /\ pc' = "idle" /\ cur' \in CRs \cup {None}
      /\ jt' \in CRRecords /\ jtFresh' \in BOOLEAN /\ goal' \in Goals /\ retry' \in BOOLEAN
  BY <1>1, <1>2, ReturnType
<1> QED
  BY <1>1, <1>3, <1>4 DEF TypeOK, PCs, objVars, envVars

(* The informers catching up.                                                *)
LEMMA InformersType ==
  ASSUME TypeOK, Informers
  PROVE  TypeOK'
<1>1. ASSUME NEW c \in CRs, SyncCR(c) PROVE TypeOK'
  BY <1>1 DEF SyncCR, TypeOK, PCs, objVars, workerVars, envVars
<1>2. ASSUME NEW t \in ConfigTargets, SyncOutput(t) PROVE TypeOK'
  <2>1. objs[t] \in Objects
    BY Atoms DEF TypeOK
  <2> QED
    BY <1>2, <2>1 DEF SyncOutput, TypeOK, PCs, crVars, workerVars, envVars
<1> QED
  BY <1>1, <1>2 DEF Informers

(* The garbage collector.                                                    *)
LEMMA CollectType ==
  ASSUME TypeOK, NEW t \in Targets, Collect(t)
  PROVE  TypeOK'
  BY Atoms, StoreObjType DEF Collect, TypeOK, PCs, crVars, workerVars, envVars

(* A user storing another version of a CR.                                   *)
LEMMA ChangeCRType ==
  ASSUME TypeOK, NEW c \in CRs, NEW r \in CRRecords, ChangeCR(c, r)
  PROVE  TypeOK'
<1>1. /\ api' \in [CRs -> CRRecords] /\ cache' \in [CRs -> CRRecords]
      /\ cacheFresh' \in [CRs -> BOOLEAN]
  BY StoreCRType DEF ChangeCR
<1>2. jtFresh' \in BOOLEAN
  BY DEF ChangeCR, TypeOK
<1>3. UNCHANGED <<objVars, queue, pc, cur, jt, goal, retry, envVars>>
  BY DEF ChangeCR
<1> QED
  BY <1>1, <1>2, <1>3 DEF TypeOK, PCs, objVars, envVars

(* Users, other clients and the operator's process.                          *)
LEMMA EnvironmentType ==
  ASSUME TypeOK, Environment
  PROVE  TypeOK'
<1>1. ASSUME NEW c \in CRs, DeleteCR(c) PROVE TypeOK'
  <2> DEFINE r == [api[c] EXCEPT !.phase = IF api[c].finalizer THEN "deleting"
                                                               ELSE "gone"]
  <2>1. r \in CRRecords
    BY CRFields DEF TypeOK, Phases
  <2> QED
    BY <1>1, <2>1, ChangeCRType DEF DeleteCR
<1>2. ASSUME NEW c \in CRs, NEW s \in Specs, EditSpec(c, s) PROVE TypeOK'
  <2>1. [api[c] EXCEPT !.spec = s] \in CRRecords
    BY CRFields DEF TypeOK
  <2> QED
    BY <1>2, <2>1, ChangeCRType DEF EditSpec
<1>3. ASSUME NEW c \in CRs, NEW d \in Data \cup Failures, ChangeData(c, d) PROVE TypeOK'
  BY <1>3 DEF ChangeData, TypeOK, PCs, crVars, objVars, workerVars
<1>4. ASSUME NEW S \in SUBSET SAs, ChangeAccounts(S) PROVE TypeOK'
  BY <1>4 DEF ChangeAccounts, TypeOK, PCs, crVars, objVars, workerVars
<1>5. ASSUME NEW s \in SAs, NEW g \in SUBSET Verbs, ChangeGrants(s, g) PROVE TypeOK'
  BY <1>5 DEF ChangeGrants, TypeOK, PCs, crVars, objVars, workerVars
<1>6. ASSUME NEW t \in Targets, Tamper(t) PROVE TypeOK'
  <2>1. objs[t] \in Objects
    BY <1>6 DEF TypeOK
  <2>2. [objs[t] EXCEPT !.data = None] \in Objects
    BY <2>1 DEF Objects
  <2>3. \E o \in Objects : StoreObj(t, o)
    BY <1>6, <2>2, Atoms DEF Tamper
  <2>4. UNCHANGED <<crVars, queue, workerVars, envVars>>
    BY <1>6 DEF Tamper
  <2>5. /\ objs' \in [Targets -> Objects] /\ ocache' \in [ConfigTargets -> Objects]
        /\ ocacheFresh' \in [ConfigTargets -> BOOLEAN]
    BY <2>3, StoreObjType
  <2> QED
    BY <2>4, <2>5 DEF TypeOK, PCs, crVars, workerVars, envVars
<1>7. ASSUME Restart PROVE TypeOK'
  BY <1>7, Atoms DEF Restart, TypeOK, PCs, envVars
<1>8. ASSUME Calm PROVE TypeOK'
  BY <1>8 DEF Calm, TypeOK, PCs, crVars, objVars, workerVars
<1> QED
  BY <1>1, <1>2, <1>3, <1>4, <1>5, <1>6, <1>7, <1>8 DEF Environment

(* Every step of the worker, one lemma per call.                             *)
LEMMA WorkerType ==
  ASSUME TypeOK, Worker
  PROVE  TypeOK'
  BY TakeType, ResolveAndRenderType, CheckServiceAccountType, KeepFinalizerType,
     UpdateFinalizerType, CleanupOldOutputType, CreateOrUpdateOutputType,
     ApplyRawObjectType, UpdateStatusType, CheckFinalAccountType,
     DeleteRawOutputType, RemoveFinalizerType
  DEF Worker

(* Every step of the system, and stuttering, keeps the types.                *)
LEMMA NextTypeOK ==
  ASSUME TypeOK, [Next]_vars
  PROVE  TypeOK'
<1>1. CASE Next
  BY <1>1, WorkerType, InformersType, CollectType, EnvironmentType DEF Next
<1>2. CASE UNCHANGED vars
  BY <1>2 DEF TypeOK, PCs, vars, crVars, objVars, workerVars, envVars
<1> QED
  BY <1>1, <1>2

(* The state always has the shape TypeOK says: in particular the worker only *)
(* reaches the calls of the raw output path with a rendered object of one,   *)
(* and those of the ConfigMap and Secret path with one of theirs.            *)
THEOREM TypeCorrect == Spec => []TypeOK
<1>1. Init => TypeOK
  BY InitTypeOK
<1>2. TypeOK /\ [Next]_vars => TypeOK'
  BY NextTypeOK
<1> QED
  BY <1>1, <1>2, PTL DEF Spec

-----------------------------------------------------------------------------
(* The finalizer is in place before a cluster-scoped output is applied       *)

(* The initial states satisfy the invariant.                                 *)
LEMMA InitFinalizerInv == Init => FinalizerInv
  BY DEF Init, FinalizerInv, FreshCRs, RightAboutFinalizer, NewCR, ReconcilePCs,
         FinalizePCs

(* A step that leaves CRs, their copies and the worker alone keeps it.       *)
LEMMA FinalizerInvUnchanged ==
  ASSUME FinalizerInv, UNCHANGED <<crVars, pc, cur, jt, jtFresh, goal>>
  PROVE  FinalizerInv'
  BY DEF FinalizerInv, FreshCRs, RightAboutFinalizer, WantsFinalizer, crVars

(* Taking a CR: the worker's copy is right because the cached one is.        *)
LEMMA TakeFinalizerInv ==
  ASSUME TypeOK, FinalizerInv, NEW c \in CRs, Take(c)
  PROVE  FinalizerInv'
<1>1. UNCHANGED crVars
  BY DEF Take
<1>2. CASE UNCHANGED workerVars
  BY <1>1, <1>2, FinalizerInvUnchanged DEF workerVars
<1>3. CASE /\ cache[c].phase = "live" \/ (cache[c].phase = "deleting" /\ cache[c].finalizer)
           /\ cur' = c /\ jt' = cache[c] /\ jtFresh' = cacheFresh[c]
           /\ pc' = IF cache[c].phase = "live" THEN "inputs"
                    ELSE IF cache[c].last.target \in RawTargets THEN "finalAccount"
                    ELSE "finalRemove"
  <2>1. pc' \in {"inputs"} \cup FinalizePCs
    BY <1>3 DEF FinalizePCs
  <2>2. pc' \in ReconcilePCs => pc' = "inputs" /\ jt'.phase = "live"
    BY <1>3 DEF ReconcilePCs
  <2>3. pc' \in FinalizePCs => jt'.phase = "deleting"
    BY <1>3 DEF FinalizePCs
  <2>4. RightAboutFinalizer(cache[c], c)
    BY DEF FinalizerInv
  <2>5. jtFresh' => cacheFresh'[cur'] /\ cache[c] = api[c]
    BY <1>1, <1>3 DEF FinalizerInv, FreshCRs, crVars
  <2>6. pc' \notin {"account", "finalizer", "cleanup", "apply"}
    BY <1>3
  <2>7. FreshCRs'
    BY <1>1, <1>3, <2>5 DEF FinalizerInv, FreshCRs, crVars
  <2> QED
    BY <1>1, <1>3, <2>1, <2>2, <2>3, <2>4, <2>5, <2>6, <2>7
    DEF FinalizerInv, RightAboutFinalizer, crVars
<1> QED
  BY <1>2, <1>3 DEF Take

(* Going to the status update with conditions changed only.                  *)
LEMMA ToStatusFinalizerInv ==
  ASSUME FinalizerInv, pc \in ReconcilePCs, pc' = "status",
         UNCHANGED <<crVars, cur, jtFresh>>,
         jt'.phase = jt.phase, jt'.spec = jt.spec, jt'.finalizer = jt.finalizer
  PROVE  FinalizerInv'
  BY DEF FinalizerInv, FreshCRs, RightAboutFinalizer, crVars, ReconcilePCs, FinalizePCs

(* Finish and RecordOutput change nothing else.                              *)
LEMMA ConditionsOnly ==
  ASSUME TypeOK, (\E x \in Reasons, e \in BOOLEAN : Finish(x, e)) \/ RecordOutput
  PROVE  /\ jt'.phase = jt.phase /\ jt'.spec = jt.spec /\ jt'.finalizer = jt.finalizer
         /\ pc' = "status" /\ UNCHANGED <<cur, jtFresh>>
  BY DEF TypeOK, CRRecords, Finish, RecordOutput

(* The reasons reconcile() gives are reasons.                                *)
LEMMA ReasonsUsed ==
  InputFailures \cup {"InvalidSpec", "RawObjectInvalid", "ServiceAccountNotFound",
                      "OutputFailed", "OutputForbidden"} \subseteq Reasons
  BY DEF Reasons

(* Returning without having written a CR.                                    *)
LEMMA ReturnFinalizerInv ==
  ASSUME FinalizerInv, UNCHANGED crVars, NEW e \in BOOLEAN, Return(e)
  PROVE  FinalizerInv'
  BY DEF FinalizerInv, FreshCRs, RightAboutFinalizer, Return, crVars, ReconcilePCs,
         FinalizePCs

(* Reading the inputs: the goal is rendered from the spec in the copy.       *)
LEMMA ResolveAndRenderFinalizerInv ==
  ASSUME TypeOK, FinalizerInv, ResolveAndRender
  PROVE  FinalizerInv'
<1>1. UNCHANGED crVars /\ UNCHANGED <<cur, jtFresh>> /\ pc = "inputs"
  BY DEF ResolveAndRender, Finish
<1>2. CASE \E x \in Reasons, e \in BOOLEAN : Finish(x, e)
  BY <1>1, <1>2, ConditionsOnly, ToStatusFinalizerInv DEF ReconcilePCs
<1>3. CASE /\ pc' \in {"account", "finalizer"} /\ jt' = jt
           /\ IsRaw(jt.spec) => goal'.target = Render[jt.spec.out][goal'.data]
  BY <1>1, <1>3
  DEF FinalizerInv, FreshCRs, RightAboutFinalizer, crVars, ReconcilePCs, FinalizePCs
<1>4. ASSUME Finish(data[cur], data[cur] # "RenderFailed"), data[cur] \in InputFailures
      PROVE  \E x \in Reasons, e \in BOOLEAN : Finish(x, e)
  BY <1>4, ReasonsUsed
<1>5. ASSUME Finish("InvalidSpec", FALSE) \/ Finish("RawObjectInvalid", FALSE)
      PROVE  \E x \in Reasons, e \in BOOLEAN : Finish(x, e)
  BY <1>5, ReasonsUsed
<1>6. ASSUME data[cur] \notin InputFailures,
             goal' = [target |-> IF IsRaw(jt.spec) THEN Render[jt.spec.out][data[cur]]
                                                   ELSE jt.spec.out,
                      data |-> data[cur]]
      PROVE  IsRaw(jt.spec) => goal'.target = Render[jt.spec.out][goal'.data]
  BY <1>6
<1> QED
  BY <1>2, <1>3, <1>4, <1>5, <1>6 DEF ResolveAndRender

(* Checking the ServiceAccount and the manifest.                             *)
LEMMA CheckServiceAccountFinalizerInv ==
  ASSUME TypeOK, FinalizerInv, CheckServiceAccount
  PROVE  FinalizerInv'
<1>1. UNCHANGED <<crVars, goal>> /\ pc = "account"
  BY DEF CheckServiceAccount
<1>2. CASE \E x \in Reasons, e \in BOOLEAN : Finish(x, e)
  BY <1>1, <1>2, ConditionsOnly, ToStatusFinalizerInv DEF ReconcilePCs
<1>3. CASE pc' = "finalizer" /\ UNCHANGED <<cur, jt, jtFresh>>
  BY <1>1, <1>3
  DEF FinalizerInv, FreshCRs, RightAboutFinalizer, crVars, ReconcilePCs, FinalizePCs
<1> QED
  BY <1>2, <1>3, ReasonsUsed DEF CheckServiceAccount, CheckManifest

(* Keeping the finalizer.                                                    *)
LEMMA KeepFinalizerFinalizerInv ==
  ASSUME TypeOK, FinalizerInv, KeepFinalizer
  PROVE  FinalizerInv'
  BY DEF KeepFinalizer, FinalizerInv, FreshCRs, RightAboutFinalizer, WantsFinalizer,
         crVars, ReconcilePCs, FinalizePCs

(* With kinds that do not depend on the data, a spec that may need the       *)
(* finalizer needs it for whatever it rendered to.                           *)
LEMMA MayNeedMeansWants ==
  ASSUME ScopeStable, TypeOK, FinalizerInv, pc = "finalizer", MayNeedFinalizer(jt.spec)
  PROVE  WantsFinalizer
<1>1. PICK d \in Data : IsRaw(jt.spec) /\ NeedsFinalizer(jt.spec, Render[jt.spec.out][d])
  BY DEF MayNeedFinalizer
<1>2. /\ goal.data \in Data /\ goal.target \in RawTargets
      /\ goal.target = Render[jt.spec.out][goal.data]
  BY <1>1 DEF TypeOK, FinalizerInv
<1>3. jt.spec.out \in Manifests
  BY <1>1 DEF IsRaw
<1>4. goal.target \notin NamespacedTargets
  BY <1>1, <1>2, <1>3 DEF ScopeStable, NeedsFinalizer
<1> QED
  BY <1>1, <1>2, <1>4 DEF WantsFinalizer, NeedsFinalizer, RawTargets

(* Updating the finalizer: it is only removed while the cached copy is the   *)
(* stored version too, so that no copy of a CR that needs it still shows it. *)
LEMMA UpdateFinalizerFinalizerInv ==
  ASSUME ScopeStable, TypeOK, FinalizerInv, UpdateFinalizer
  PROVE  FinalizerInv'
<1>1. /\ pc = "finalizer" /\ UNCHANGED <<goal, cur>> /\ cur \in CRs
      /\ jt \in CRRecords /\ api[cur] \in CRRecords /\ jt.phase = "live"
      /\ jt.finalizer # WantsFinalizer
  BY DEF UpdateFinalizer, Finish, TypeOK, FinalizerInv, ReconcilePCs
<1>2. CASE UNCHANGED crVars /\ Finish(jt.ready, TRUE)
  <2>1. jt.ready \in Reasons
    BY <1>1, CRFields
  <2> QED
    BY <1>1, <1>2, <2>1, ConditionsOnly, ToStatusFinalizerInv DEF ReconcilePCs
<1>3. CASE /\ jtFresh /\ StoreFinalizer
           /\ \/ /\ jt' = [jt EXCEPT !.finalizer = WantsFinalizer]
                 /\ pc' = "cleanup" /\ UNCHANGED jtFresh
              \/ /\ jt' = jt /\ pc' = "status" /\ jtFresh' = FALSE
  <2> DEFINE r == [api[cur] EXCEPT !.finalizer = WantsFinalizer]
  <2>1. /\ r.phase = "live" /\ r.spec = jt.spec /\ r.finalizer = WantsFinalizer
        /\ cache[cur] = api[cur] /\ api[cur].spec = jt.spec
    BY <1>1, <1>3 DEF FinalizerInv, FreshCRs, CRRecords
  <2>2. /\ api' = [api EXCEPT ![cur] = r] /\ UNCHANGED cache
        /\ cacheFresh' = [cacheFresh EXCEPT ![cur] = @ /\ r = api[cur]]
    BY <1>3 DEF StoreFinalizer, StoreCR
  <2>3. \A c \in CRs : c # cur => api'[c] = api[c] /\ cacheFresh'[c] = cacheFresh[c]
    BY <1>1, <2>2 DEF TypeOK
  <2>4. api'[cur] = r /\ (cacheFresh'[cur] => r = api[cur])
    BY <1>1, <2>2 DEF TypeOK
  <2>5. /\ jt'.phase = "live" /\ jt'.spec = jt.spec
        /\ pc' = "cleanup" => jt'.finalizer = WantsFinalizer
    BY <1>1, <1>3 DEF CRRecords
  <2>6. WantsFinalizer' = WantsFinalizer
    BY <1>1, <2>5 DEF WantsFinalizer
  <2>7. FreshCRs'
    <3>1. \A c \in CRs : cacheFresh'[c] => cache'[c] = api'[c]
      BY <2>1, <2>2, <2>3, <2>4 DEF FinalizerInv, FreshCRs
    <3>2. jtFresh' => pc' = "cleanup"
      BY <1>3
    <3> QED
      BY <1>1, <2>1, <2>4, <2>5, <3>1, <3>2 DEF FreshCRs
  <2>8. \A c \in CRs : api'[c].phase = "gone" => ~api'[c].finalizer
    BY <2>1, <2>3, <2>4 DEF FinalizerInv
  <2>9. \A c \in CRs : RightAboutFinalizer(cache[c], c)'
    <3>1. MayNeedFinalizer(cache[cur].spec) => r.finalizer
      BY <1>1, <2>1, MayNeedMeansWants
    <3> QED
      BY <2>2, <2>3, <2>4, <3>1 DEF FinalizerInv, RightAboutFinalizer
  <2>10. pc' = "cleanup" => RightAboutFinalizer(jt, cur)'
    BY <1>1, <2>1, <2>4, <2>5 DEF RightAboutFinalizer
  <2> QED
    BY <1>1, <1>3, <2>5, <2>6, <2>7, <2>8, <2>9, <2>10
    DEF FinalizerInv, ReconcilePCs, FinalizePCs, IsRaw
<1> QED
  BY <1>2, <1>3 DEF UpdateFinalizer

(* Cleaning up leaves CRs and the worker's copy alone.                       *)
LEMMA CleanupOldOutputFinalizerInv ==
  ASSUME TypeOK, FinalizerInv, CleanupOldOutput
  PROVE  FinalizerInv'
  BY DEF CleanupOldOutput, FinalizerInv, FreshCRs, RightAboutFinalizer,
         WantsFinalizer, crVars, ReconcilePCs, FinalizePCs

(* So does writing the output, but for the status.                           *)
LEMMA WriteOutputFinalizerInv ==
  ASSUME TypeOK, FinalizerInv, CreateOrUpdateOutput \/ ApplyRawObject
  PROVE  FinalizerInv'
<1>1. pc = "apply" /\ UNCHANGED crVars
  BY DEF CreateOrUpdateOutput, ApplyRawObject
<1>2. (\E x \in Reasons, e \in BOOLEAN : Finish(x, e)) \/ RecordOutput
  BY ReasonsUsed DEF CreateOrUpdateOutput, ApplyRawObject
<1> QED
  BY <1>1, <1>2, ConditionsOnly, ToStatusFinalizerInv DEF ReconcilePCs

(* Storing a version of a CR with the same finalizer, while the worker either *)
(* rests or works on another CR or on a copy that is no longer fresh.         *)
LEMMA StoreSameFinalizer ==
  ASSUME TypeOK, FinalizerInv, NEW c \in CRs, NEW r \in CRRecords, StoreCR(c, r),
         r.finalizer = api[c].finalizer,
         r.phase = "gone" => ~r.finalizer
  PROVE  /\ \A d \in CRs : cacheFresh'[d] => cacheFresh[d] /\ cache'[d] = api'[d]
         /\ \A d \in CRs : d # c => api'[d] = api[d] /\ cacheFresh'[d] = cacheFresh[d]
         /\ \A d \in CRs : api'[d].phase = "gone" => ~api'[d].finalizer
         /\ \A d \in CRs : RightAboutFinalizer(cache[d], d)'
         /\ \A d \in CRs : api'[d].finalizer = api[d].finalizer
<1>1. /\ \A d \in CRs : api'[d] = IF d = c THEN r ELSE api[d]
      /\ \A d \in CRs : cacheFresh'[d] = IF d = c THEN cacheFresh[c] /\ r = api[c]
                                                  ELSE cacheFresh[d]
      /\ cache' = cache
  BY DEF StoreCR, TypeOK
<1>2. \A d \in CRs : api'[d].finalizer = api[d].finalizer
  BY <1>1
<1>3. \A d \in CRs : cacheFresh'[d] => cacheFresh[d] /\ cache'[d] = api'[d]
  BY <1>1 DEF FinalizerInv, FreshCRs, TypeOK
<1>4. \A d \in CRs : api'[d].phase = "gone" => ~api'[d].finalizer
  BY <1>1 DEF FinalizerInv
<1>5. \A d \in CRs : RightAboutFinalizer(cache[d], d)'
  BY <1>1, <1>2 DEF FinalizerInv, RightAboutFinalizer
<1> QED
  BY <1>1, <1>2, <1>3, <1>4, <1>5

(* Writing the status keeps the finalizer, the spec and the phase.           *)
LEMMA UpdateStatusFinalizerInv ==
  ASSUME TypeOK, FinalizerInv, UpdateStatus
  PROVE  FinalizerInv'
<1>1. /\ pc = "status" /\ cur \in CRs /\ retry \in BOOLEAN
      /\ api[cur] \in CRRecords /\ jt \in CRRecords
  BY DEF UpdateStatus, TypeOK
<1>2. \E e \in BOOLEAN : Return(e)
  BY <1>1 DEF UpdateStatus
<1>3. CASE UNCHANGED crVars
  BY <1>2, <1>3, ReturnFinalizerInv
<1>4. CASE StoreCR(cur, [api[cur] EXCEPT !.last = jt.last, !.ready = jt.ready])
  <2> DEFINE r == [api[cur] EXCEPT !.last = jt.last, !.ready = jt.ready]
  <2>1. /\ r \in CRRecords /\ r.finalizer = api[cur].finalizer
        /\ r.phase = api[cur].phase
    BY <1>1, CRFields DEF CRRecords
  <2>2. r.phase = "gone" => ~r.finalizer
    BY <1>1, <2>1 DEF FinalizerInv
  <2>3. pc' = "idle"
    BY <1>2 DEF Return
  <2>4. /\ \A d \in CRs : cacheFresh'[d] => cache'[d] = api'[d]
        /\ \A d \in CRs : api'[d].phase = "gone" => ~api'[d].finalizer
        /\ \A d \in CRs : RightAboutFinalizer(cache[d], d)'
    BY <1>1, <1>4, <2>1, <2>2, StoreSameFinalizer
  <2> QED
    BY <2>3, <2>4 DEF FinalizerInv, FreshCRs, ReconcilePCs, FinalizePCs
<1> QED
  BY <1>3, <1>4 DEF UpdateStatus

(* Finalizing up to the deletion of the output.                              *)
LEMMA FinalDeleteFinalizerInv ==
  ASSUME TypeOK, FinalizerInv, CheckFinalAccount \/ DeleteRawOutput
  PROVE  FinalizerInv'
<1>1. pc \in FinalizePCs /\ UNCHANGED crVars
  BY DEF CheckFinalAccount, DeleteRawOutput, FinalizePCs
<1>2. CASE Return(TRUE)
  BY <1>1, <1>2, ReturnFinalizerInv
<1>3. CASE pc' \in {"finalDelete", "finalRemove"} /\ UNCHANGED <<cur, jt, jtFresh, goal>>
  BY <1>1, <1>3
  DEF FinalizerInv, FreshCRs, crVars, RightAboutFinalizer, ReconcilePCs, FinalizePCs
<1> QED
  BY <1>2, <1>3 DEF CheckFinalAccount, DeleteRawOutput

(* Removing the finalizer of a CR under deletion: the cached copy is under   *)
(* deletion too, and no reconcile starts from it.                            *)
LEMMA RemoveFinalizerFinalizerInv ==
  ASSUME TypeOK, FinalizerInv, RemoveFinalizer
  PROVE  FinalizerInv'
<1>1. /\ pc = "finalRemove" /\ cur \in CRs /\ api[cur] \in CRRecords
      /\ jt.phase = "deleting"
  BY DEF RemoveFinalizer, TypeOK, FinalizerInv, FinalizePCs
<1>2. \E e \in BOOLEAN : Return(e)
  BY DEF RemoveFinalizer
<1>3. CASE UNCHANGED crVars
  BY <1>2, <1>3, ReturnFinalizerInv
<1>4. CASE jtFresh /\ StoreCR(cur, [api[cur] EXCEPT !.finalizer = FALSE, !.phase = "gone"])
  <2> DEFINE r == [api[cur] EXCEPT !.finalizer = FALSE, !.phase = "gone"]
  <2>1. r.phase = "gone" /\ r.finalizer = FALSE
    BY <1>1 DEF CRRecords
  <2>2. /\ \A d \in CRs : api'[d] = IF d = cur THEN r ELSE api[d]
        /\ \A d \in CRs : cacheFresh'[d] = IF d = cur THEN cacheFresh[cur] /\ r = api[cur]
                                                      ELSE cacheFresh[d]
        /\ cache' = cache
    BY <1>1, <1>4 DEF StoreCR, TypeOK
  <2>3. cache[cur].phase = "deleting"
    BY <1>1, <1>4 DEF FinalizerInv, FreshCRs, FinalizePCs
  <2>4. \A d \in CRs : RightAboutFinalizer(cache[d], d)'
    BY <2>2, <2>3 DEF FinalizerInv, RightAboutFinalizer
  <2>5. /\ \A d \in CRs : cacheFresh'[d] => cache'[d] = api'[d]
        /\ \A d \in CRs : api'[d].phase = "gone" => ~api'[d].finalizer
    BY <2>1, <2>2 DEF FinalizerInv, FreshCRs
  <2>6. pc' = "idle"
    BY <1>2 DEF Return
  <2> QED
    BY <2>4, <2>5, <2>6 DEF FinalizerInv, FreshCRs, ReconcilePCs, FinalizePCs
<1> QED
  BY <1>3, <1>4 DEF RemoveFinalizer

(* The informers show CRs as they are stored.                                *)
LEMMA InformersFinalizerInv ==
  ASSUME TypeOK, FinalizerInv, Informers
  PROVE  FinalizerInv'
<1>1. ASSUME NEW c \in CRs, SyncCR(c) PROVE FinalizerInv'
  <2>1. /\ \A d \in CRs : cache'[d] = IF d = c THEN api[c] ELSE cache[d]
        /\ \A d \in CRs : cacheFresh'[d] = (cacheFresh[d] \/ d = c)
        /\ UNCHANGED <<api, pc, cur, jt, jtFresh, goal>>
    BY <1>1 DEF SyncCR, TypeOK, workerVars
  <2>2. \A d \in CRs : RightAboutFinalizer(cache[d], d)'
    BY <2>1 DEF FinalizerInv, RightAboutFinalizer
  <2>3. FreshCRs'
    BY <2>1 DEF FinalizerInv, FreshCRs
  <2>4. pc # "idle" => cur \in CRs
    BY DEF TypeOK
  <2>5. pc \in {"inputs", "account", "finalizer"} \cup FinalizePCs => pc # "idle"
    BY DEF FinalizePCs
  <2> QED
    BY <2>1, <2>2, <2>3, <2>4, <2>5 DEF FinalizerInv, RightAboutFinalizer, WantsFinalizer
<1>2. ASSUME NEW t \in ConfigTargets, SyncOutput(t) PROVE FinalizerInv'
  BY <1>2, FinalizerInvUnchanged DEF SyncOutput, workerVars
<1> QED
  BY <1>1, <1>2 DEF Informers

(* A user's write never takes the finalizer away, and makes the worker's     *)
(* copy of that CR outdated.                                                 *)
LEMMA ChangeCRFinalizerInv ==
  ASSUME TypeOK, FinalizerInv, NEW c \in CRs, NEW r \in CRRecords, ChangeCR(c, r),
         r.finalizer = api[c].finalizer, r.phase = "gone" => ~r.finalizer
  PROVE  FinalizerInv'
<1>1. /\ StoreCR(c, r) /\ UNCHANGED <<pc, cur, jt, goal>>
      /\ jtFresh' = (jtFresh /\ c # cur)
  BY DEF ChangeCR
<1>2. /\ \A d \in CRs : cacheFresh'[d] => cacheFresh[d] /\ cache'[d] = api'[d]
      /\ \A d \in CRs : d # c => api'[d] = api[d] /\ cacheFresh'[d] = cacheFresh[d]
      /\ \A d \in CRs : api'[d].phase = "gone" => ~api'[d].finalizer
      /\ \A d \in CRs : RightAboutFinalizer(cache[d], d)'
      /\ \A d \in CRs : api'[d].finalizer = api[d].finalizer
  BY <1>1, StoreSameFinalizer
<1>3. pc # "idle" => cur \in CRs
  BY DEF TypeOK
<1>4. FreshCRs'
  BY <1>1, <1>2, <1>3 DEF FinalizerInv, FreshCRs
<1>5. pc \in ReconcilePCs \ {"status"} => RightAboutFinalizer(jt, cur)'
  BY <1>1, <1>2, <1>3 DEF FinalizerInv, RightAboutFinalizer, ReconcilePCs
<1>6. pc \in {"inputs", "account", "finalizer"} \cup FinalizePCs => pc # "idle"
  BY DEF FinalizePCs
<1>7. pc \in {"inputs", "account", "finalizer"} \cup FinalizePCs /\ jtFresh' => cacheFresh'[cur]
  BY <1>1, <1>2, <1>3, <1>6 DEF FinalizerInv
<1> QED
  BY <1>1, <1>2, <1>4, <1>5, <1>7 DEF FinalizerInv, WantsFinalizer

(* Users, other clients and the operator's process.                          *)
LEMMA EnvironmentFinalizerInv ==
  ASSUME TypeOK, FinalizerInv, Environment
  PROVE  FinalizerInv'
<1>1. ASSUME NEW c \in CRs, DeleteCR(c) PROVE FinalizerInv'
  <2> DEFINE r == [api[c] EXCEPT !.phase = IF api[c].finalizer THEN "deleting"
                                                               ELSE "gone"]
  <2>1. r \in CRRecords /\ r.finalizer = api[c].finalizer
        /\ (r.phase = "gone" => ~r.finalizer)
    BY DEF TypeOK, CRRecords, Phases
  <2> QED
    BY <1>1, <2>1, ChangeCRFinalizerInv DEF DeleteCR
<1>2. ASSUME NEW c \in CRs, NEW s \in Specs, EditSpec(c, s) PROVE FinalizerInv'
  <2>1. /\ [api[c] EXCEPT !.spec = s] \in CRRecords
        /\ [api[c] EXCEPT !.spec = s].finalizer = api[c].finalizer
        /\ [api[c] EXCEPT !.spec = s].phase = "live"
    BY <1>2 DEF TypeOK, CRRecords, EditSpec, MayChange
  <2> QED
    BY <1>2, <2>1, ChangeCRFinalizerInv DEF EditSpec
<1>3. ASSUME Restart PROVE FinalizerInv'
  BY <1>3 DEF Restart, FinalizerInv, FreshCRs, RightAboutFinalizer, ReconcilePCs,
              FinalizePCs
<1>4. ASSUME \/ \E c \in CRs, d \in Data \cup Failures : ChangeData(c, d)
             \/ \E S \in SUBSET SAs : ChangeAccounts(S)
             \/ \E s \in SAs, g \in SUBSET Verbs : ChangeGrants(s, g)
             \/ \E t \in Targets : Tamper(t)
             \/ Calm
      PROVE  FinalizerInv'
  <2>1. UNCHANGED <<crVars, workerVars>>
    BY <1>4 DEF ChangeData, ChangeAccounts, ChangeGrants, Tamper, Calm
  <2> QED
    BY <2>1, FinalizerInvUnchanged DEF workerVars
<1> QED
  BY <1>1, <1>2, <1>3, <1>4 DEF Environment

(* Every step keeps the invariant.                                           *)
LEMMA NextFinalizerInv ==
  ASSUME ScopeStable, TypeOK, FinalizerInv, [Next]_vars
  PROVE  FinalizerInv'
<1>1. CASE Worker
  BY <1>1, TakeFinalizerInv, ResolveAndRenderFinalizerInv,
     CheckServiceAccountFinalizerInv, KeepFinalizerFinalizerInv,
     UpdateFinalizerFinalizerInv, CleanupOldOutputFinalizerInv,
     WriteOutputFinalizerInv, UpdateStatusFinalizerInv, FinalDeleteFinalizerInv,
     RemoveFinalizerFinalizerInv
  DEF Worker
<1>2. CASE \E t \in Targets : Collect(t)
  BY <1>2, FinalizerInvUnchanged DEF Collect, workerVars
<1>3. CASE UNCHANGED vars
  BY <1>3, FinalizerInvUnchanged DEF vars, workerVars
<1> QED
  BY <1>1, <1>2, <1>3, InformersFinalizerInv, EnvironmentFinalizerInv DEF Next

(* The invariant is as strong as the property: the copy the worker acts on   *)
(* shows the finalizer, and is right about it.                               *)
LEMMA FinalizerInvImplies ==
  ASSUME TypeOK, FinalizerInv
  PROVE  FinalizerBeforeApply
<1> SUFFICES ASSUME pc = "apply", NeedsFinalizer(jt.spec, goal.target)
             PROVE  api[cur].finalizer /\ api[cur].phase # "gone"
    BY DEF FinalizerBeforeApply
<1>1. jt.finalizer /\ jt.phase = "live" /\ RightAboutFinalizer(jt, cur)
  BY DEF FinalizerInv, WantsFinalizer, ReconcilePCs
<1>2. MayNeedFinalizer(jt.spec)
  BY DEF FinalizerInv, TypeOK, MayNeedFinalizer, NeedsFinalizer
<1>3. api[cur].finalizer /\ cur \in CRs
  BY <1>1, <1>2 DEF RightAboutFinalizer, TypeOK
<1> QED
  BY <1>3 DEF FinalizerInv

(* Provided that the scope of what a manifest renders to does not depend on  *)
(* the data, no copy of a live CR shows a finalizer it needs and the stored  *)
(* CR does not have, whatever happens to the CR, the caches, the operator    *)
(* and the API calls.                                                        *)
THEOREM FinalizerKnown ==
  ASSUME ScopeStable
  PROVE  Spec => []FinalizerInv
<1>1. Init => TypeOK /\ FinalizerInv
  BY InitTypeOK, InitFinalizerInv
<1>2. TypeOK /\ FinalizerInv /\ [Next]_vars => (TypeOK /\ FinalizerInv)'
  BY NextTypeOK, NextFinalizerInv
<1> QED
  BY <1>1, <1>2, PTL DEF Spec

(* So the stored CR has the finalizer whenever the apply of a cluster-scoped *)
(* output with owner semantics is sent.                                      *)
THEOREM FinalizerFirst ==
  ASSUME ScopeStable
  PROVE  Spec => []FinalizerBeforeApply
<1>1. TypeOK /\ FinalizerInv => FinalizerBeforeApply
  BY FinalizerInvImplies
<1> QED
  BY <1>1, TypeCorrect, FinalizerKnown, PTL

=============================================================================
