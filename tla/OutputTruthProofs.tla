-------------------------- MODULE OutputTruthProofs --------------------------
(***************************************************************************)
(* What the operator promises of outputs, for every set of CRs, targets,    *)
(* ServiceAccounts, specs and disturbances: the theorems of OutputController *)
(* that rest on OutputInv.                                                  *)
(***************************************************************************)
EXTENDS OutputControllerProofs

-----------------------------------------------------------------------------
(* What the writes do *)

(* Storing a CR changes that CR, and outdates the cached copy if it differs.  *)
LEMMA StoreCREffect ==
  ASSUME TypeOK, NEW c \in CRs, NEW r, StoreCR(c, r)
  PROVE  /\ \A d \in CRs : api'[d] = IF d = c THEN r ELSE api[d]
         /\ \A d \in CRs : cacheFresh'[d] <=> (cacheFresh[d] /\ (d = c => r = api[c]))
         /\ cache' = cache
  BY DEF TypeOK, StoreCR

(* So does storing an output.                                                *)
LEMMA StoreObjEffect ==
  ASSUME TypeOK, NEW t \in Targets, NEW o, StoreObj(t, o)
  PROVE  /\ \A u \in Targets : objs'[u] = IF u = t THEN o ELSE objs[u]
         /\ \A u \in ConfigTargets :
              ocacheFresh'[u] <=> (ocacheFresh[u] /\ (u = t => o = objs[t]))
         /\ ocache' = ocache
  BY DEF TypeOK, StoreObj

(* Once the worker has decided on a reason it only sets the condition.        *)
LEMMA FinishReasons ==
  ASSUME TypeOK, pc # "idle"
  PROVE  /\ ResolveAndRender => \/ \E x \in Reasons, e \in BOOLEAN : Finish(x, e)
                                \/ UNCHANGED <<cur, jt, jtFresh, retry>>
         /\ CheckServiceAccount => \/ \E x \in Reasons, e \in BOOLEAN : Finish(x, e)
                                   \/ pc' = "finalizer" /\ UNCHANGED <<cur, jt, jtFresh, retry>>
         /\ CreateOrUpdateOutput \/ ApplyRawObject =>
              (\E x \in Reasons, e \in BOOLEAN : Finish(x, e)) \/ RecordOutput
<1>1. data[cur] \in InputFailures => data[cur] \in Reasons
  BY ReasonsUsed
<1>2. ResolveAndRender => \/ \E x \in Reasons, e \in BOOLEAN : Finish(x, e)
                          \/ UNCHANGED <<cur, jt, jtFresh, retry>>
  BY <1>1, ReasonsUsed DEF ResolveAndRender
<1>3. CheckServiceAccount => \/ \E x \in Reasons, e \in BOOLEAN : Finish(x, e)
                             \/ pc' = "finalizer" /\ UNCHANGED <<cur, jt, jtFresh, retry>>
  BY ReasonsUsed DEF CheckServiceAccount, CheckManifest
<1> QED BY <1>2, <1>3, ReasonsUsed DEF CreateOrUpdateOutput, ApplyRawObject

-----------------------------------------------------------------------------
(* The specs in use *)

LEMMA SpecsNext ==
  ASSUME TypeOK, SpecsInv, [Next]_vars
  PROVE  SpecsInv'
<1> DEFINE CopiesSame == UNCHANGED <<api, cache>>
<1>0. pc # "idle" => cur \in CRs /\ api[cur] \in CRRecords
  BY DEF TypeOK
<1>1. ASSUME NEW c \in CRs, Take(c) PROVE SpecsInv'
  BY <1>1 DEF Take, SpecsInv, crVars, workerVars
<1>2. ASSUME UNCHANGED <<api, cache>>, pc' = "idle" \/ (jt'.spec = jt.spec /\ pc # "idle")
      PROVE  SpecsInv'
  BY <1>2 DEF SpecsInv
<1>3. ResolveAndRender \/ CheckServiceAccount \/ CreateOrUpdateOutput \/ ApplyRawObject
        => SpecsInv'
  <2> SUFFICES ASSUME ResolveAndRender \/ CheckServiceAccount \/ CreateOrUpdateOutput
                        \/ ApplyRawObject
               PROVE  SpecsInv'
    OBVIOUS
  <2>1. pc # "idle" /\ UNCHANGED <<api, cache>>
    BY DEF ResolveAndRender, CheckServiceAccount, CreateOrUpdateOutput, ApplyRawObject, crVars
  <2>2. jt'.spec = jt.spec
    BY <2>1, FinishReasons, ConditionsOnly
  <2> QED BY <1>2, <2>1, <2>2
<1>4. KeepFinalizer \/ CleanupOldOutput => SpecsInv'
  BY <1>2 DEF KeepFinalizer, CleanupOldOutput, crVars
<1>5. ASSUME NEW r, pc # "idle", StoreCR(cur, r), r.spec = api[cur].spec,
             pc' = "idle" \/ jt'.spec = jt.spec
      PROVE  SpecsInv'
  BY <1>0, <1>5, StoreCREffect DEF SpecsInv
<1>6. UpdateFinalizer => SpecsInv'
  <2> SUFFICES ASSUME UpdateFinalizer PROVE SpecsInv'
    OBVIOUS
  <2>1. pc # "idle" /\ jt \in CRRecords
    BY DEF UpdateFinalizer, TypeOK
  <2>2. jt'.spec = jt.spec
    BY <2>1 DEF UpdateFinalizer, Finish, CRRecords
  <2>3. [api[cur] EXCEPT !.finalizer = WantsFinalizer].spec = api[cur].spec
    BY <1>0, <2>1 DEF CRRecords
  <2> QED BY <1>2, <1>5, <2>1, <2>2, <2>3 DEF UpdateFinalizer, StoreFinalizer, crVars
<1>7. UpdateStatus \/ RemoveFinalizer => SpecsInv'
  <2> SUFFICES ASSUME UpdateStatus \/ RemoveFinalizer PROVE SpecsInv'
    OBVIOUS
  <2>1. pc # "idle" /\ pc' = "idle"
    BY DEF UpdateStatus, RemoveFinalizer, Return
  <2>2. /\ [api[cur] EXCEPT !.last = jt.last, !.ready = jt.ready].spec = api[cur].spec
        /\ [api[cur] EXCEPT !.finalizer = FALSE, !.phase = "gone"].spec = api[cur].spec
    BY <1>0, <2>1 DEF CRRecords
  <2> QED BY <1>2, <1>5, <2>1, <2>2 DEF UpdateStatus, RemoveFinalizer, crVars
<1>8. CheckFinalAccount \/ DeleteRawOutput => SpecsInv'
  BY <1>2 DEF CheckFinalAccount, DeleteRawOutput, Return, crVars
<1>9. Informers \/ (\E t \in Targets : Collect(t)) => SpecsInv'
  BY DEF Informers, SyncCR, SyncOutput, Collect, SpecsInv, TypeOK, crVars, workerVars
<1>10. ASSUME NEW c \in CRs, NEW r, ChangeCR(c, r), r.spec \in Specs PROVE SpecsInv'
  BY <1>10, StoreCREffect DEF ChangeCR, SpecsInv
<1>11. ASSUME NEW c \in CRs, DeleteCR(c) \/ \E s \in Specs : EditSpec(c, s) PROVE SpecsInv'
  <2>1. api[c] \in CRRecords /\ api[c].spec \in Specs
    BY DEF TypeOK, SpecsInv
  <2> QED BY <1>10, <1>11, <2>1 DEF DeleteCR, EditSpec, CRRecords
<1>12. Environment => SpecsInv'
  BY <1>11 DEF Environment, ChangeData, ChangeAccounts, ChangeGrants, Tamper, Restart, Calm,
               SpecsInv, crVars, workerVars
<1>13. UNCHANGED vars => SpecsInv'
  BY DEF vars, crVars, workerVars, SpecsInv
<1> QED BY <1>1, <1>3, <1>4, <1>6, <1>7, <1>8, <1>9, <1>12, <1>13 DEF Next, Worker

-----------------------------------------------------------------------------
(* Copies that are marked fresh *)

(* The parts of CopiesInv about CRs and about outputs.                        *)
CRCopies ==
  FreshCRs /\ (pc \notin {"idle", "status"} /\ jtFresh => jt = api[cur])

ObjCopies ==
  /\ \A t \in ConfigTargets : ocacheFresh[t] => ocache[t] = objs[t]
  /\ \A t \in Targets : objs[t].exists \/ objs[t] = NoObj
  /\ \A t \in ConfigTargets : ocache[t].exists \/ ocache[t] = NoObj

(* Every write of an output leaves an object, or none.                        *)
LEMMA ObjectWrites ==
  ASSUME TypeOK, ObjCopies, Next
  PROVE  \/ UNCHANGED objVars
         \/ \E t \in Targets, o \in Objects : StoreObj(t, o) /\ (o.exists \/ o = NoObj)
         \/ \E t \in ConfigTargets : SyncOutput(t)
         \/ Restart
<1> DEFINE Goal == \/ UNCHANGED objVars
                   \/ \E t \in Targets, o \in Objects : StoreObj(t, o) /\ (o.exists \/ o = NoObj)
                   \/ \E t \in ConfigTargets : SyncOutput(t)
                   \/ Restart
<1>1. ASSUME NEW t \in Targets, StoreObj(t, NoObj) PROVE Goal
  BY <1>1, Atoms
<1>2. CleanupOldOutput => Goal
  BY <1>1 DEF CleanupOldOutput, TargetChanged, TypeOK, CRRecords, Refs
<1>3. CreateOrUpdateOutput => Goal
  <2> SUFFICES ASSUME CreateOrUpdateOutput PROVE Goal
    OBVIOUS
  <2>1. /\ goal.target \in ConfigTargets /\ goal.target \in Targets
        /\ ocache[goal.target] \in Objects /\ cur \in CRs /\ goal.data \in Data
    BY Atoms DEF CreateOrUpdateOutput, TypeOK
  <2>2. Mutate(ocache[goal.target]) \in Objects /\ Mutate(ocache[goal.target]).exists
    BY <2>1 DEF Mutate, Objects
  <2> QED BY <2>1, <2>2 DEF CreateOrUpdateOutput
<1>4. ApplyRawObject => Goal
  <2> SUFFICES ASSUME ApplyRawObject PROVE Goal
    OBVIOUS
  <2>1. goal.target \in Targets /\ cur \in CRs /\ goal.data \in Data
    BY Atoms DEF ApplyRawObject, TypeOK
  <2>2. RenderedObject \in Objects /\ RenderedObject.exists
    BY <2>1 DEF RenderedObject, Objects
  <2> QED BY <2>1, <2>2 DEF ApplyRawObject
<1>5. DeleteRawOutput => Goal
  BY <1>1, Atoms DEF DeleteRawOutput, TypeOK
<1>6. ASSUME NEW t \in Targets, Collect(t) \/ Tamper(t) PROVE Goal
  <2>1. objs[t] \in Objects /\ Foreign.exists
    BY DEF TypeOK, Foreign, NoObj
  <2>2. objs[t].exists => [objs[t] EXCEPT !.data = None] \in Objects
                            /\ [objs[t] EXCEPT !.data = None].exists
    BY <2>1 DEF Objects
  <2>3. objs[t].data # None => objs[t].exists
    BY DEF ObjCopies, NoObj
  <2> QED BY <1>1, <1>6, <2>1, <2>2, <2>3, Atoms DEF Collect, Tamper
<1>7. Informers => Goal
  BY DEF Informers, SyncCR
<1>8. \/ \E c \in CRs : Take(c)
      \/ ResolveAndRender \/ CheckServiceAccount \/ KeepFinalizer \/ UpdateFinalizer
      \/ UpdateStatus \/ CheckFinalAccount \/ RemoveFinalizer
      => Goal
  BY DEF Take, ResolveAndRender, CheckServiceAccount, KeepFinalizer, UpdateFinalizer,
         UpdateStatus, CheckFinalAccount, RemoveFinalizer
<1>9. Environment => Goal
  BY <1>6 DEF Environment, DeleteCR, EditSpec, ChangeCR, ChangeData, ChangeAccounts,
              ChangeGrants, Calm
<1> QED BY <1>2, <1>3, <1>4, <1>5, <1>6, <1>7, <1>8, <1>9 DEF Next, Worker

(* The output informers' copies stay what they are marked to be.              *)
LEMMA ObjCopiesNext ==
  ASSUME TypeOK, ObjCopies, [Next]_vars
  PROVE  ObjCopies'
<1>1. UNCHANGED objVars => ObjCopies'
  BY DEF ObjCopies, objVars
<1>2. ASSUME NEW t \in Targets, NEW o \in Objects, StoreObj(t, o), o.exists \/ o = NoObj
      PROVE  ObjCopies'
  BY <1>2, StoreObjEffect, Atoms DEF ObjCopies
<1>3. ASSUME NEW t \in ConfigTargets, SyncOutput(t) PROVE ObjCopies'
  BY <1>3, Atoms DEF SyncOutput, ObjCopies, TypeOK
<1>4. Restart => ObjCopies'
  BY Atoms DEF Restart, ObjCopies
<1>5. UNCHANGED vars => UNCHANGED objVars
  BY DEF vars
<1> QED BY <1>1, <1>2, <1>3, <1>4, <1>5, ObjectWrites

(* A reconcile that goes on with the CR it took.                              *)
LEMMA CRCopiesKept ==
  ASSUME CRCopies, UNCHANGED <<crVars, cur, jt, jtFresh>>, pc # "idle", pc # "status"
  PROVE  CRCopies'
  BY DEF CRCopies, FreshCRs, crVars

(* ... that sets its condition,                                              *)
LEMMA CRCopiesToStatus ==
  ASSUME CRCopies, UNCHANGED <<crVars, cur>>, pc # "idle", pc' = "status",
         jtFresh' => jtFresh,
         jt'.phase = jt.phase, jt'.spec = jt.spec, jt'.finalizer = jt.finalizer
  PROVE  CRCopies'
  BY DEF CRCopies, FreshCRs, crVars

(* ... or returns, having stored a version of the CR or not.                  *)
LEMMA CRCopiesReturn ==
  ASSUME TypeOK, CRCopies, pc # "idle", pc' = "idle",
         UNCHANGED crVars \/ \E r : StoreCR(cur, r)
  PROVE  CRCopies'
<1>1. cur \in CRs
  BY DEF TypeOK
<1>2. ASSUME NEW r, StoreCR(cur, r) PROVE CRCopies'
  BY <1>1, <1>2, StoreCREffect DEF CRCopies, FreshCRs
<1>3. UNCHANGED crVars => CRCopies'
  BY DEF CRCopies, FreshCRs, crVars
<1> QED BY <1>2, <1>3

(* The update of the finalizer stores what the worker has, and the finalizer. *)
LEMMA UpdateFinalizerCopies ==
  ASSUME TypeOK, CRCopies, UpdateFinalizer
  PROVE  CRCopies'
<1> DEFINE r == [api[cur] EXCEPT !.finalizer = WantsFinalizer]
<1>1. /\ pc = "finalizer" /\ cur \in CRs /\ jt \in CRRecords /\ api[cur] \in CRRecords
      /\ cur' = cur
  BY DEF UpdateFinalizer, TypeOK, Finish
<1>2. CASE UNCHANGED crVars /\ Finish(jt.ready, TRUE)
  <2>1. jt.ready \in Reasons
    BY <1>1, CRFields
  <2>2. /\ jt'.phase = jt.phase /\ jt'.spec = jt.spec /\ jt'.finalizer = jt.finalizer
        /\ pc' = "status" /\ jtFresh' = jtFresh
    BY <1>2, <2>1, ConditionsOnly
  <2> QED BY <1>1, <1>2, <2>2, CRCopiesToStatus
<1>3. CASE /\ jtFresh /\ StoreFinalizer
           /\ \/ jt' = [jt EXCEPT !.finalizer = WantsFinalizer] /\ pc' = "cleanup"
              \/ ~jtFresh' /\ pc' = "status"
  <2>1. /\ \A d \in CRs : api'[d] = IF d = cur THEN r ELSE api[d]
        /\ \A d \in CRs : cacheFresh'[d] <=> (cacheFresh[d] /\ (d = cur => r = api[cur]))
        /\ cache' = cache
    BY <1>1, <1>3, StoreCREffect DEF StoreFinalizer
  <2>2. jt = api[cur]
    BY <1>1, <1>3 DEF CRCopies
  <2>3. jtFresh' => jt' = api'[cur'] /\ pc' = "cleanup"
    BY <1>1, <1>3, <2>1, <2>2
  <2>4. pc' # "idle" /\ \A d \in CRs : cacheFresh'[d] => cache'[d] = api'[d]
    BY <1>3, <2>1 DEF CRCopies, FreshCRs
  <2> QED BY <1>1, <2>3, <2>4 DEF CRCopies, FreshCRs
<1> QED BY <1>2, <1>3 DEF UpdateFinalizer

(* A user's write outdates every copy of that CR.                             *)
LEMMA ChangeCRCopies ==
  ASSUME TypeOK, CRCopies, NEW c \in CRs, NEW r, ChangeCR(c, r)
  PROVE  CRCopies'
<1>1. /\ \A d \in CRs : api'[d] = IF d = c THEN r ELSE api[d]
      /\ \A d \in CRs : cacheFresh'[d] <=> (cacheFresh[d] /\ (d = c => r = api[c]))
      /\ cache' = cache
  BY StoreCREffect DEF ChangeCR
<1>2. UNCHANGED <<pc, cur, jt>> /\ (jtFresh' => jtFresh /\ c # cur)
  BY DEF ChangeCR
<1>3. pc # "idle" => cur \in CRs
  BY DEF TypeOK
<1> QED BY <1>1, <1>2, <1>3 DEF CRCopies, FreshCRs

(* The copies of CRs stay what they are marked to be.                         *)
LEMMA CRCopiesNext ==
  ASSUME TypeOK, CRCopies, [Next]_vars
  PROVE  CRCopies'
<1>1. ASSUME NEW c \in CRs, Take(c) PROVE CRCopies'
  BY <1>1 DEF Take, CRCopies, FreshCRs, crVars, workerVars
<1>2. ASSUME ResolveAndRender \/ CheckServiceAccount \/ CreateOrUpdateOutput \/ ApplyRawObject
      PROVE  CRCopies'
  <2>1. pc \notin {"idle", "status"} /\ UNCHANGED <<crVars, cur>>
    BY <1>2, ConditionsOnly, FinishReasons
    DEF ResolveAndRender, CheckServiceAccount, CreateOrUpdateOutput, ApplyRawObject
  <2>2. CASE (\E x \in Reasons, e \in BOOLEAN : Finish(x, e)) \/ RecordOutput
    BY <2>1, <2>2, ConditionsOnly, CRCopiesToStatus
  <2>3. CASE UNCHANGED <<cur, jt, jtFresh>>
    BY <2>1, <2>3, CRCopiesKept
  <2> QED BY <1>2, <2>1, <2>2, <2>3, FinishReasons
<1>3. ASSUME KeepFinalizer \/ CleanupOldOutput PROVE CRCopies'
  BY <1>3, CRCopiesKept DEF KeepFinalizer, CleanupOldOutput
<1>4. ASSUME UpdateStatus \/ RemoveFinalizer PROVE CRCopies'
  BY <1>4, CRCopiesReturn DEF UpdateStatus, RemoveFinalizer, Return
<1>5. ASSUME CheckFinalAccount \/ DeleteRawOutput PROVE CRCopies'
  BY <1>5, CRCopiesKept, CRCopiesReturn DEF CheckFinalAccount, DeleteRawOutput, Return
<1>6. ASSUME NEW c \in CRs, SyncCR(c) PROVE CRCopies'
  BY <1>6 DEF SyncCR, CRCopies, FreshCRs, TypeOK, workerVars
<1>7. ASSUME UNCHANGED <<crVars, workerVars>> PROVE CRCopies'
  BY <1>7 DEF CRCopies, FreshCRs, crVars, workerVars
<1>8. ASSUME NEW c \in CRs, DeleteCR(c) \/ \E s \in Specs : EditSpec(c, s) PROVE CRCopies'
  BY <1>8, ChangeCRCopies DEF DeleteCR, EditSpec
<1>9. Restart => CRCopies'
  BY DEF Restart, CRCopies, FreshCRs
<1>10. Environment => CRCopies'
  BY <1>7, <1>8, <1>9 DEF Environment, ChangeData, ChangeAccounts, ChangeGrants, Tamper, Calm
<1>11. Informers \/ (\E t \in Targets : Collect(t)) \/ UNCHANGED vars => CRCopies'
  BY <1>6, <1>7 DEF Informers, SyncOutput, Collect, vars
<1> QED BY <1>1, <1>2, <1>3, <1>4, <1>5, <1>10, <1>11, UpdateFinalizerCopies DEF Next, Worker

(* All copies.                                                               *)
LEMMA CopiesNext ==
  ASSUME TypeOK, CopiesInv, [Next]_vars
  PROVE  CopiesInv'
  BY CRCopiesNext, ObjCopiesNext DEF CopiesInv, CRCopies, ObjCopies

-----------------------------------------------------------------------------
(* What the worker does to CRs and to its own copy *)

(* On its way to the status update it keeps the CR it took, and stores no     *)
(* more than the finalizer.                                                  *)
ReconcileStep ==
  \/ ResolveAndRender \/ CheckServiceAccount \/ KeepFinalizer \/ UpdateFinalizer
  \/ CleanupOldOutput \/ CreateOrUpdateOutput \/ ApplyRawObject

LEMMA ReconcileSteps ==
  ASSUME TypeOK, ReconcileStep
  PROVE  /\ pc \in ReconcilePCs \ {"status"} /\ pc' \in ReconcilePCs \ {"inputs"}
         /\ jt'.phase = jt.phase /\ jt'.spec = jt.spec /\ (jtFresh' => jtFresh)
         /\ UNCHANGED <<cur, queue, data, cache>>
         /\ UNCHANGED crVars \/ StoreFinalizer
<1>1. ASSUME \/ \E x \in Reasons, e \in BOOLEAN : Finish(x, e)
             \/ RecordOutput
             \/ UNCHANGED <<cur, jt, jtFresh, retry>>
      PROVE  jt'.phase = jt.phase /\ jt'.spec = jt.spec /\ UNCHANGED <<cur, jtFresh>>
  BY <1>1, ConditionsOnly
<1>2. CASE ResolveAndRender
  <2>1. pc = "inputs" /\ UNCHANGED <<crVars, queue, envVars>>
        /\ pc' \in {"account", "finalizer", "status"}
    BY <1>2 DEF ResolveAndRender, Finish
  <2> QED BY <1>1, <1>2, <2>1, FinishReasons DEF ReconcilePCs, crVars, envVars
<1>3. CASE CheckServiceAccount
  <2>1. pc = "account" /\ UNCHANGED <<crVars, queue, envVars>> /\ pc' \in {"finalizer", "status"}
    BY <1>3 DEF CheckServiceAccount, CheckManifest, Finish
  <2> QED BY <1>1, <1>3, <2>1, FinishReasons DEF ReconcilePCs, crVars, envVars
<1>4. CASE KeepFinalizer
  BY <1>4 DEF KeepFinalizer, ReconcilePCs, crVars, envVars
<1>5. CASE UpdateFinalizer
  <2>1. jt \in CRRecords
    BY DEF TypeOK
  <2>2. /\ [jt EXCEPT !.finalizer = WantsFinalizer].phase = jt.phase
        /\ [jt EXCEPT !.finalizer = WantsFinalizer].spec = jt.spec
        /\ [jt EXCEPT !.ready = jt.ready].phase = jt.phase
        /\ [jt EXCEPT !.ready = jt.ready].spec = jt.spec
    BY <2>1 DEF CRRecords
  <2>3. UNCHANGED crVars => UNCHANGED cache
    BY DEF crVars
  <2>4. StoreFinalizer => UNCHANGED cache
    BY DEF StoreFinalizer, StoreCR
  <2>5. /\ pc = "finalizer" /\ pc' \in {"cleanup", "status"} /\ UNCHANGED <<cur, queue, data>>
        /\ UNCHANGED crVars \/ StoreFinalizer
    BY <1>5 DEF UpdateFinalizer, Finish, envVars
  <2>6. \/ jt' = [jt EXCEPT !.finalizer = WantsFinalizer]
        \/ jt' = [jt EXCEPT !.ready = jt.ready]
        \/ jt' = jt
    BY <1>5 DEF UpdateFinalizer, Finish
  <2>7. jtFresh' => jtFresh
    BY <1>5 DEF UpdateFinalizer, Finish
  <2> QED BY <2>2, <2>7, <2>3, <2>4, <2>5, <2>6 DEF ReconcilePCs
<1>6. CASE CleanupOldOutput
  BY <1>6 DEF CleanupOldOutput, ReconcilePCs, crVars, envVars
<1>7. CASE CreateOrUpdateOutput \/ ApplyRawObject
  <2>1. pc = "apply" /\ UNCHANGED <<crVars, queue, envVars>>
    BY <1>7 DEF CreateOrUpdateOutput, ApplyRawObject
  <2>2. (\E x \in Reasons, e \in BOOLEAN : Finish(x, e)) \/ RecordOutput
    BY <1>7, <2>1, FinishReasons
  <2> QED BY <1>1, <2>1, <2>2, ConditionsOnly DEF ReconcilePCs, crVars, envVars
<1> QED BY <1>2, <1>3, <1>4, <1>5, <1>6, <1>7 DEF ReconcileStep

(* Finalizing, it keeps its copy until it returns.                            *)
FinalizeStep == CheckFinalAccount \/ DeleteRawOutput \/ RemoveFinalizer

LEMMA FinalizeSteps ==
  ASSUME FinalizeStep
  PROVE  /\ pc \in FinalizePCs /\ UNCHANGED <<cache, data>>
         /\ pc' = "idle" \/ (pc' \in FinalizePCs /\ UNCHANGED <<crVars, cur, jt, jtFresh>>)
         /\ \/ UNCHANGED crVars
            \/ StoreCR(cur, [api[cur] EXCEPT !.finalizer = FALSE, !.phase = "gone"])
<1>1. CheckFinalAccount => /\ pc = "finalAccount" /\ UNCHANGED <<crVars, envVars>>
                           /\ \/ pc' = "idle"
                              \/ pc' = "finalDelete" /\ UNCHANGED <<cur, jt, jtFresh>>
  BY DEF CheckFinalAccount, Return
<1>2. DeleteRawOutput => /\ pc = "finalDelete" /\ UNCHANGED <<crVars, envVars>>
                         /\ \/ pc' = "idle"
                            \/ pc' = "finalRemove" /\ UNCHANGED <<cur, jt, jtFresh>>
  BY DEF DeleteRawOutput, Return
<1>3. RemoveFinalizer => pc = "finalRemove" /\ UNCHANGED envVars /\ pc' = "idle"
                         /\ UNCHANGED cache
  BY DEF RemoveFinalizer, Return, StoreCR, crVars
<1> QED BY <1>1, <1>2, <1>3 DEF FinalizeStep, FinalizePCs, RemoveFinalizer, crVars, envVars

(* What happens outside the worker leaves its variables alone, but for the    *)
(* version of its copy.                                                      *)
OutsideStep ==
  \/ \E c \in CRs : SyncCR(c) \/ DeleteCR(c) \/ \E s \in Specs : EditSpec(c, s)
  \/ \E t \in ConfigTargets : SyncOutput(t)
  \/ \E t \in Targets : Collect(t) \/ Tamper(t)
  \/ UNCHANGED <<crVars, objVars, queue, workerVars, data>>

LEMMA OutsideSteps ==
  ASSUME OutsideStep
  PROVE  /\ UNCHANGED <<pc, cur, jt, goal, retry, data>>
         /\ jtFresh' => jtFresh
         /\ queue \subseteq queue'
<1>1. ASSUME NEW c \in CRs, SyncCR(c)
      PROVE  UNCHANGED <<pc, cur, jt, jtFresh, goal, retry, data>> /\ queue \subseteq queue'
  BY <1>1 DEF SyncCR, workerVars, envVars
<1>2. ASSUME NEW c \in CRs, DeleteCR(c) \/ \E s \in Specs : EditSpec(c, s)
      PROVE  UNCHANGED <<pc, cur, jt, goal, retry, data, queue>> /\ (jtFresh' => jtFresh)
  BY <1>2 DEF DeleteCR, EditSpec, ChangeCR, envVars
<1>3. ASSUME NEW t \in ConfigTargets, SyncOutput(t)
      PROVE  UNCHANGED <<pc, cur, jt, jtFresh, goal, retry, data>> /\ queue \subseteq queue'
  BY <1>3 DEF SyncOutput, workerVars, envVars
<1>4. ASSUME NEW t \in Targets, Collect(t) \/ Tamper(t)
      PROVE  UNCHANGED <<pc, cur, jt, jtFresh, goal, retry, data, queue>>
  BY <1>4 DEF Collect, Tamper, workerVars, envVars
<1>5. UNCHANGED <<crVars, objVars, queue, workerVars, data>> =>
        UNCHANGED <<pc, cur, jt, jtFresh, goal, retry, data, queue>>
  BY DEF workerVars
<1> QED BY <1>1, <1>2, <1>3, <1>4, <1>5 DEF OutsideStep

(* The steps of the system, by who takes them.                               *)
LEMMA Steps ==
  ASSUME [Next]_vars
  PROVE  \/ \E c \in CRs : Take(c)
         \/ ReconcileStep \/ UpdateStatus \/ FinalizeStep
         \/ OutsideStep
         \/ \E c \in CRs, d \in Data \cup Failures : ChangeData(c, d)
         \/ Restart
<1>1. Worker => \/ \E c \in CRs : Take(c)
                \/ ReconcileStep \/ UpdateStatus \/ FinalizeStep
  BY DEF Worker, ReconcileStep, FinalizeStep
<1>2. \/ \E S \in SUBSET SAs : ChangeAccounts(S)
      \/ \E s \in SAs, g \in SUBSET Verbs : ChangeGrants(s, g)
      \/ Calm \/ UNCHANGED vars
      => UNCHANGED <<crVars, objVars, queue, workerVars, data>>
  BY DEF ChangeAccounts, ChangeGrants, Calm, vars, envVars
<1> QED BY <1>1, <1>2 DEF Next, Informers, Environment, OutsideStep

-----------------------------------------------------------------------------
(* A CR never comes back *)

LEMMA PhasesNext ==
  ASSUME TypeOK, CRCopies, PhasesInv, [Next]_vars
  PROVE  PhasesInv'
<1>1. ASSUME NEW c \in CRs, Take(c) PROVE PhasesInv'
  BY <1>1 DEF Take, PhasesInv, ReconcilePCs, FinalizePCs, crVars, workerVars
<1>2. ASSUME ReconcileStep PROVE PhasesInv'
  <2>1. /\ pc \in ReconcilePCs /\ pc' \in ReconcilePCs /\ pc' \notin FinalizePCs
        /\ jt'.phase = "live" /\ UNCHANGED cache
    BY <1>2, ReconcileSteps DEF PhasesInv, ReconcilePCs, FinalizePCs
  <2>2. \A c \in CRs : api'[c].phase = api[c].phase
    <3>1. cur \in CRs /\ api[cur] \in CRRecords
      BY <2>1 DEF TypeOK, ReconcilePCs
    <3>2. [api[cur] EXCEPT !.finalizer = WantsFinalizer].phase = api[cur].phase
      BY <3>1 DEF CRRecords
    <3>3. StoreFinalizer => \A c \in CRs : api'[c].phase = api[c].phase
      BY <3>1, <3>2, StoreCREffect DEF StoreFinalizer
    <3> QED BY <1>2, <3>3, ReconcileSteps DEF crVars
  <2> QED BY <2>1, <2>2 DEF PhasesInv
<1>3. ASSUME UpdateStatus PROVE PhasesInv'
  <2>1. /\ pc' = "idle" /\ cur \in CRs /\ api[cur] \in CRRecords
    BY <1>3 DEF UpdateStatus, Return, TypeOK
  <2>2. [api[cur] EXCEPT !.last = jt.last, !.ready = jt.ready].phase = api[cur].phase
    BY <2>1 DEF CRRecords
  <2>3. /\ UNCHANGED cache
        /\ \A c \in CRs : api'[c].phase = api[c].phase
    BY <1>3, <2>1, <2>2, StoreCREffect DEF UpdateStatus, crVars
  <2> QED BY <2>1, <2>3 DEF PhasesInv, ReconcilePCs, FinalizePCs
<1>4. ASSUME FinalizeStep PROVE PhasesInv'
  <2>1. cur \in CRs /\ api[cur] \in CRRecords /\ pc \in FinalizePCs
    BY <1>4, FinalizeSteps DEF TypeOK, FinalizePCs
  <2>2. [api[cur] EXCEPT !.finalizer = FALSE, !.phase = "gone"].phase = "gone"
    BY <2>1 DEF CRRecords
  <2>3. /\ UNCHANGED cache
        /\ \A c \in CRs : api'[c].phase = "live" => api[c].phase = "live"
    <3>1. CASE UNCHANGED crVars
      BY <3>1 DEF crVars
    <3>2. ASSUME NEW r, StoreCR(cur, r), r.phase = "gone"
          PROVE  /\ UNCHANGED cache
                 /\ \A c \in CRs : api'[c].phase = "live" => api[c].phase = "live"
      BY <2>1, <3>2, StoreCREffect
    <3> QED BY <1>4, <2>2, <3>1, <3>2, FinalizeSteps
  <2>4. CASE pc' = "idle"
    BY <2>3, <2>4 DEF PhasesInv, ReconcilePCs, FinalizePCs
  <2>5. CASE pc' \in FinalizePCs /\ UNCHANGED <<crVars, cur, jt>>
    BY <2>1, <2>3, <2>5 DEF PhasesInv, ReconcilePCs, FinalizePCs, crVars
  <2> QED BY <1>4, <2>4, <2>5, FinalizeSteps
<1>5. ASSUME NEW c \in CRs, SyncCR(c) PROVE PhasesInv'
  BY <1>5 DEF SyncCR, PhasesInv, TypeOK, workerVars
<1>6. ASSUME NEW c \in CRs, NEW r, ChangeCR(c, r), api[c].phase = "live" PROVE PhasesInv'
  <2>1. /\ \A d \in CRs : api'[d] = IF d = c THEN r ELSE api[d]
        /\ UNCHANGED <<cache, pc, cur, jt>>
    BY <1>6, StoreCREffect DEF ChangeCR
  <2>2. pc \in FinalizePCs => cur \in CRs /\ cur # c
    BY <1>6 DEF PhasesInv, TypeOK, FinalizePCs
  <2> QED BY <1>6, <2>1, <2>2 DEF PhasesInv
<1>7. ASSUME NEW c \in CRs, DeleteCR(c) \/ \E s \in Specs : EditSpec(c, s) PROVE PhasesInv'
  BY <1>6, <1>7 DEF DeleteCR, EditSpec, MayChange
<1>8. Restart => PhasesInv'
  BY DEF Restart, PhasesInv, ReconcilePCs, FinalizePCs
<1>9. UNCHANGED <<crVars, workerVars>> => PhasesInv'
  BY DEF PhasesInv, crVars, workerVars
<1>10. \/ \E t \in ConfigTargets : SyncOutput(t)
       \/ \E t \in Targets : Collect(t) \/ Tamper(t)
       \/ \E c \in CRs, d \in Data \cup Failures : ChangeData(c, d)
       => UNCHANGED <<crVars, workerVars>>
  BY DEF SyncOutput, Collect, Tamper, ChangeData
<1> QED BY <1>1, <1>2, <1>3, <1>4, <1>5, <1>7, <1>8, <1>9, <1>10, Steps DEF OutsideStep

(* What the finalizer deleted stays deleted, or others create it again.       *)
LEMMA DeletionNext ==
  ASSUME TypeOK, DeletionInv, [Next]_vars
  PROVE  DeletionInv'
<1>1. ASSUME NEW c \in CRs, Take(c) PROVE DeletionInv'
  BY <1>1 DEF Take, DeletionInv, objVars, workerVars
<1>2. ReconcileStep => DeletionInv'
  BY ReconcileSteps DEF DeletionInv, ReconcilePCs
<1>3. UpdateStatus \/ CheckFinalAccount \/ RemoveFinalizer \/ Restart => DeletionInv'
  BY DEF UpdateStatus, CheckFinalAccount, RemoveFinalizer, Restart, Return, DeletionInv
<1>4. DeleteRawOutput => DeletionInv'
  <2> SUFFICES ASSUME DeleteRawOutput, pc' = "finalRemove" PROVE DeletionInv'
    BY DEF DeletionInv
  <2>1. StoreObj(jt.last.target, NoObj) /\ UNCHANGED jt /\ jt.last.target \in Targets
    BY Atoms DEF DeleteRawOutput, Return, TypeOK
  <2>2. objs'[jt.last.target] = NoObj
    BY <2>1, StoreObjEffect
  <2> QED BY <2>1, <2>2 DEF DeletionInv, NoObj
<1>5. ASSUME NEW t \in Targets, Collect(t) \/ Tamper(t) PROVE DeletionInv'
  <2>1. UNCHANGED <<pc, jt>> /\ objs[t] \in Objects
    BY <1>5 DEF Collect, Tamper, workerVars, TypeOK
  <2>2. [objs[t] EXCEPT !.data = None].label = objs[t].label
    BY <2>1 DEF Objects
  <2>3. \A u \in Targets : objs[u].label = None => objs'[u].label = None
    <3>1. NoObj.label = None /\ Foreign.label = None
      BY DEF NoObj, Foreign
    <3>2. ASSUME NEW o, StoreObj(t, o), objs[t].label = None => o.label = None
          PROVE  \A u \in Targets : objs[u].label = None => objs'[u].label = None
      BY <3>2, StoreObjEffect
    <3> QED BY <1>5, <2>2, <3>1, <3>2 DEF Collect, Tamper
  <2>4. RawTargets \subseteq Targets
    BY DEF Targets
  <2> QED BY <2>1, <2>3, <2>4 DEF DeletionInv
<1>6. \/ \E c \in CRs : SyncCR(c) \/ DeleteCR(c) \/ \E s \in Specs : EditSpec(c, s)
      \/ \E t \in ConfigTargets : SyncOutput(t)
      \/ \E c \in CRs, d \in Data \cup Failures : ChangeData(c, d)
      \/ UNCHANGED <<crVars, objVars, queue, workerVars, data>>
      => UNCHANGED <<pc, jt, objs>>
  BY DEF SyncCR, DeleteCR, EditSpec, ChangeCR, SyncOutput, ChangeData, objVars, workerVars
<1>7. UNCHANGED <<pc, jt, objs>> => DeletionInv'
  BY DEF DeletionInv
<1> QED BY <1>1, <1>2, <1>3, <1>4, <1>5, <1>6, <1>7, Steps DEF FinalizeStep, OutsideStep

-----------------------------------------------------------------------------
(* The goal is rendered from the current data, or a change is in the queue    *)

(* Until the apply a reconcile keeps its goal, but for the finalizer.         *)
LEMMA GoalKept ==
  ASSUME TypeOK, CheckServiceAccount \/ KeepFinalizer \/ UpdateFinalizer \/ CleanupOldOutput
  PROVE  /\ pc \in {"account", "finalizer", "cleanup"} /\ goal' = goal
         /\ pc' \in {"cleanup", "apply"} =>
              \/ pc \in {"cleanup", "apply"} /\ jt' = jt
              \/ jt'.finalizer = WantsFinalizer
<1>1. CheckServiceAccount => /\ pc = "account" /\ goal' = goal
                             /\ pc' \in {"finalizer", "status"}
  BY DEF CheckServiceAccount, CheckManifest, Finish
<1>2. KeepFinalizer => /\ pc = "finalizer" /\ goal' = goal
                       /\ jt'.finalizer = WantsFinalizer
  BY DEF KeepFinalizer
<1>3. UpdateFinalizer => /\ pc = "finalizer" /\ goal' = goal
                         /\ pc' \in {"cleanup", "apply"} => jt'.finalizer = WantsFinalizer
  <2>1. jt \in CRRecords
    BY DEF TypeOK
  <2>2. [jt EXCEPT !.finalizer = WantsFinalizer].finalizer = WantsFinalizer
    BY <2>1 DEF CRRecords
  <2> QED BY <2>2 DEF UpdateFinalizer, Finish
<1>4. CleanupOldOutput => pc = "cleanup" /\ goal' = goal /\ jt' = jt
  BY DEF CleanupOldOutput
<1> QED BY <1>1, <1>2, <1>3, <1>4

(* ResolveAndRender either ends the reconcile or sets the goal.               *)
LEMMA GoalSet ==
  ASSUME ResolveAndRender
  PROVE  \/ pc' = "status"
         \/ /\ pc' \in {"account", "finalizer"} /\ jt' = jt
            /\ jt.spec.out # "InvalidSpec"
            /\ goal'.target = TargetOf(jt.spec, data[cur]) /\ goal'.data = data[cur]
  BY DEF ResolveAndRender, Finish, TargetOf

LEMMA GoalNext ==
  ASSUME TypeOK, CRCopies, PhasesInv, GoalInv, [Next]_vars
  PROVE  GoalInv'
<1> DEFINE Rendered == {"account", "finalizer", "cleanup", "apply"}
<1>1. pc' \notin Rendered => GoalInv'
  BY DEF GoalInv
<1>2. ASSUME NEW c \in CRs, Take(c) PROVE GoalInv'
  BY <1>2 DEF Take, GoalInv, workerVars
<1>3. ASSUME UpdateStatus \/ FinalizeStep \/ Restart PROVE GoalInv'
  BY <1>1, <1>3, FinalizeSteps DEF UpdateStatus, Return, Restart, FinalizePCs
<1>4. ASSUME ReconcileStep PROVE GoalInv'
  <2>1. /\ jt'.spec = jt.spec /\ (jtFresh' => jtFresh) /\ UNCHANGED <<cur, queue, data>>
    BY <1>4, ReconcileSteps
  <2>2. CASE ResolveAndRender
    BY <1>1, <2>1, <2>2, GoalSet DEF GoalInv
  <2>3. CASE CheckServiceAccount \/ KeepFinalizer \/ UpdateFinalizer \/ CleanupOldOutput
    <3>1. WantsFinalizer' = WantsFinalizer
      BY <2>1, <2>3, GoalKept DEF WantsFinalizer
    <3> QED BY <2>1, <2>3, <3>1, GoalKept DEF GoalInv
  <2>4. CASE CreateOrUpdateOutput \/ ApplyRawObject
    BY <1>1, <2>4 DEF CreateOrUpdateOutput, ApplyRawObject, RecordOutput, Finish
  <2> QED BY <1>4, <2>2, <2>3, <2>4 DEF ReconcileStep
<1>5. ASSUME UNCHANGED <<pc, cur, jt, goal>>, jtFresh' => jtFresh, queue \subseteq queue',
             pc \in Rendered /\ jtFresh => data'[cur] = data[cur] \/ cur \in queue'
      PROVE  GoalInv'
  BY <1>5 DEF GoalInv, WantsFinalizer
<1>6. ASSUME OutsideStep PROVE GoalInv'
  BY <1>5, <1>6, OutsideSteps
<1>7. ASSUME NEW c \in CRs, NEW d \in Data \cup Failures, ChangeData(c, d) PROVE GoalInv'
  <2>1. UNCHANGED <<pc, cur, jt, goal, jtFresh>> /\ queue \subseteq queue'
    BY <1>7 DEF ChangeData, workerVars
  <2>2. ASSUME pc \in Rendered, jtFresh PROVE data'[cur] = data[cur] \/ cur \in queue'
    <3>1. cur \in CRs /\ api[cur].phase = "live"
      BY <2>2 DEF TypeOK, CRCopies, FreshCRs, PhasesInv, ReconcilePCs
    <3>2. cache[cur].phase = "live"
      BY <3>1 DEF PhasesInv
    <3> QED BY <1>7, <3>1, <3>2 DEF ChangeData, TypeOK
  <2> QED BY <1>5, <2>1, <2>2
<1> QED BY <1>2, <1>3, <1>4, <1>6, <1>7, Steps DEF OutsideStep

-----------------------------------------------------------------------------
(* The truth about outputs *)

(* The cases of Outcome.                                                     *)
LEMMA Outcomes ==
  ASSUME NEW spec, NEW d
  PROVE  /\ spec.out = "InvalidSpec" => Outcome(spec, d) = "InvalidSpec"
         /\ spec.out # "InvalidSpec" /\ d = "RenderFailed" => Outcome(spec, d) = "RenderFailed"
         /\ spec.out # "InvalidSpec" /\ d \in Data
            /\ TargetOf(spec, d) \in {"Unparsable", "BadNamespace"} =>
              Outcome(spec, d) = "RawObjectInvalid"
         /\ spec.out # "InvalidSpec" /\ d \in Data
            /\ TargetOf(spec, d) \notin {"Unparsable", "BadNamespace"} =>
              Outcome(spec, d) = "RenderSuccess"
  BY ConstantsAssumption DEF Outcome, InputFailures

(* What a spec can have as its target.                                       *)
LEMMA TargetOfSpec ==
  ASSUME NEW spec \in Specs, NEW d \in Data, spec.out # "InvalidSpec"
  PROVE  /\ IsRaw(spec) => TargetOf(spec, d) \in RawTargets \cup BadManifests
         /\ ~IsRaw(spec) => TargetOf(spec, d) \in ConfigTargets /\ TargetOf(spec, d) = spec.out
  BY SpecsAssumption, RenderAssumption DEF TargetOf, IsRaw

(* Whatever leaves the outputs, the data and the copies of c alone keeps it.  *)
LEMMA TruthUntouched ==
  ASSUME NEW c \in CRs, NEW r, UNCHANGED <<objs, ocacheFresh>>,
         data'[c] = data[c], cache'[c] = cache[c], cacheFresh'[c] => cacheFresh[c],
         c \in queue => c \in queue', IsTrue(c, r) \/ Woken(c)
  PROVE  IsTrue(c, r)' \/ Woken(c)'
<1>1. IsTrue(c, r) => IsTrue(c, r)'
  BY DEF IsTrue, Delivered, IsWritten
<1>2. Woken(c) => Woken(c)'
  BY DEF Woken, IsOutputOf
<1> QED BY <1>1, <1>2

(* Writes of an output keep it or will be seen, but for raw outputs.          *)
LEMMA TruthWritten ==
  ASSUME TypeOK, NEW c \in CRs, NEW r \in CRRecords, NEW t \in Targets, NEW o, StoreObj(t, o),
         UNCHANGED <<data, cache, cacheFresh>>, queue \subseteq queue', r.spec \in Specs,
         cacheFresh[c] => cache[c].phase # "gone" /\ cache[c].spec = r.spec,
         t \in ConfigTargets \/ ~RawOutputsAlone, IsTrue(c, r) \/ Woken(c)
  PROVE  IsTrue(c, r)' \/ Woken(c)'
<1>1. /\ \A u \in Targets : objs'[u] = IF u = t THEN o ELSE objs[u]
      /\ \A u \in ConfigTargets : ocacheFresh'[u] <=> (ocacheFresh[u] /\ (u = t => o = objs[t]))
  BY StoreObjEffect
<1>2. Woken(c) => Woken(c)'
  BY <1>1 DEF Woken, IsOutputOf
<1>3. ASSUME IsTrue(c, r), ~Woken(c)' PROVE IsTrue(c, r)'
  <2> DEFINE T == TargetOf(r.spec, data[c])
  <2>1. CASE Outcome(r.spec, data[c]) # "RenderSuccess"
    BY <1>3, <2>1 DEF IsTrue
  <2>2. CASE Outcome(r.spec, data[c]) = "RenderSuccess"
    <3>1. /\ data[c] \in Data /\ r.spec.out # "InvalidSpec" /\ r.last.target = T
          /\ T \in ConfigTargets \/ RawOutputsAlone => IsWritten(c, r.spec, T)
      BY <1>3, <2>2, Outcomes DEF IsTrue, Delivered
    <3>2. T \in Targets
      <4>1. T \in Targets \cup {None}
        BY <3>1 DEF CRRecords, Refs
      <4>2. T \in Targets \cup BadManifests
        BY <3>1, TargetOfSpec DEF Targets
      <4> QED BY <4>1, <4>2, ConstantsAssumption
    <3>3. T \in ConfigTargets => r.spec.out = T
      BY <3>1, TargetOfSpec, ConstantsAssumption DEF Targets
    <3>4. T \in ConfigTargets \/ RawOutputsAlone => objs'[T] = objs[T]
      <4>1. CASE T # t
        BY <1>1, <3>2, <4>1
      <4>2. CASE T = t /\ T \in ConfigTargets
        <5>1. cacheFresh[c] /\ IsOutputOf(T, c)
          BY <1>3, <3>3, <4>2 DEF Woken, IsOutputOf
        <5>2. ocacheFresh'[T] /\ (IsOutputOf(T, c) <=> IsOutputOf(T, c)')
          BY <1>3, <4>2, <5>1 DEF Woken, IsOutputOf
        <5> QED BY <1>1, <3>2, <4>2, <5>2
      <4> QED BY <4>1, <4>2
    <3>5. T \in ConfigTargets \/ RawOutputsAlone => IsWritten(c, r.spec, T)'
      BY <3>1, <3>4 DEF IsWritten
    <3> QED BY <1>3, <2>2, <3>5 DEF IsTrue, Delivered
  <2> QED BY <2>1, <2>2
<1> QED BY <1>2, <1>3

(* So do events of outputs, which wake the CRs they are of.                   *)
LEMMA TruthSynced ==
  ASSUME TypeOK, NEW c \in CRs, NEW r, NEW t \in ConfigTargets, SyncOutput(t),
         IsTrue(c, r) \/ Woken(c)
  PROVE  IsTrue(c, r)' \/ Woken(c)'
<1>1. /\ UNCHANGED <<objs, data, cache, cacheFresh>> /\ queue \subseteq queue'
      /\ IsOutputOf(t, c) => c \in queue'
      /\ \A u \in ConfigTargets : u # t => ocacheFresh'[u] = ocacheFresh[u]
  BY DEF SyncOutput, crVars, envVars, TypeOK
<1>2. IsTrue(c, r) => IsTrue(c, r)'
  BY <1>1 DEF IsTrue, Delivered, IsWritten
<1>3. Woken(c) => Woken(c)'
  BY <1>1 DEF Woken, IsOutputOf
<1> QED BY <1>2, <1>3

(* Only the worker's own CR, and the CR of a user's write or of a change of   *)
(* its data, are judged anew: what a copy r of the stored record of c says of *)
(* the outputs stays true, or c is going to be looked at.                     *)
LEMMA TruthOfOthers ==
  ASSUME TypeOK, SpecsInv, CopiesInv, PhasesInv, NEW c \in CRs, NEW r \in CRRecords,
         api[c].phase = "live", r.spec = api[c].spec, IsTrue(c, r) \/ Woken(c),
         \/ (ReconcileStep \/ UpdateStatus \/ FinalizeStep) /\ c # cur
         \/ \E d \in CRs : Take(d) /\ c # d
         \/ OutsideStep
         \/ \E d \in CRs, x \in Data \cup Failures : ChangeData(d, x)
  PROVE  IsTrue(c, r)' \/ Woken(c)'
<1> DEFINE Kept == IsTrue(c, r)' \/ Woken(c)'
<1>1. /\ r.spec \in Specs
      /\ cacheFresh[c] => cache[c].phase # "gone" /\ cache[c].spec = r.spec
  BY DEF SpecsInv, CopiesInv, FreshCRs
<1>2. ASSUME NEW d \in CRs, d # c, UNCHANGED <<objs, ocacheFresh, data>>, queue \ {d} \subseteq queue',
             UNCHANGED crVars \/ \E s : StoreCR(d, s)
      PROVE  Kept
  <2>1. cache'[c] = cache[c] /\ (cacheFresh'[c] => cacheFresh[c])
    BY <1>2, StoreCREffect DEF crVars
  <2>2. c \in queue => c \in queue'
    BY <1>2
  <2> QED BY <1>2, <2>1, <2>2, TruthUntouched
<1>3. ASSUME NEW t \in Targets, NEW o, StoreObj(t, o), UNCHANGED <<data, cache, cacheFresh>>,
             queue \subseteq queue', t \in ConfigTargets \/ ~RawOutputsAlone
      PROVE  Kept
  BY <1>1, <1>3, TruthWritten
<1>4. c # cur => (cur \in CRs => ~RawOutputsAlone)
  BY DEF RawOutputsAlone
<1>5. ASSUME NEW d \in CRs, Take(d), c # d PROVE Kept
  <2>1. UNCHANGED <<objs, ocacheFresh, data>> /\ UNCHANGED crVars /\ queue' = queue \ {d}
    BY <1>5 DEF Take, objVars, envVars
  <2> QED BY <1>2, <1>5, <2>1
<1>6. ASSUME ReconcileStep, c # cur PROVE Kept
  <2>1. cur \in CRs /\ UNCHANGED <<queue, data, cache>> /\ (UNCHANGED crVars \/ StoreFinalizer)
    BY <1>6, ReconcileSteps DEF TypeOK, ReconcilePCs
  <2>2. CASE UNCHANGED objVars
    BY <1>2, <1>6, <2>1, <2>2 DEF objVars, StoreFinalizer
  <2>3. CASE CleanupOldOutput \/ CreateOrUpdateOutput \/ ApplyRawObject
    <3>1. UNCHANGED crVars /\ jt.last.target \in Targets \cup {None}
          /\ (pc = "apply" => goal.target \in Targets)
      BY <2>3, Atoms DEF CleanupOldOutput, CreateOrUpdateOutput, ApplyRawObject, TypeOK,
                         CRRecords, Refs
    <3>2. UNCHANGED objVars \/ \E t \in Targets : \E o : StoreObj(t, o)
      BY <2>3, <3>1 DEF CleanupOldOutput, TargetChanged, CreateOrUpdateOutput, ApplyRawObject
    <3> QED BY <1>3, <1>4, <1>6, <2>1, <2>2, <3>1, <3>2 DEF crVars
  <2>4. ResolveAndRender \/ CheckServiceAccount \/ KeepFinalizer \/ UpdateFinalizer
          => UNCHANGED objVars
    BY DEF ResolveAndRender, CheckServiceAccount, KeepFinalizer, UpdateFinalizer
  <2> QED BY <1>6, <2>2, <2>3, <2>4 DEF ReconcileStep
<1>7. ASSUME UpdateStatus \/ CheckFinalAccount \/ RemoveFinalizer, c # cur PROVE Kept
  <2>1. cur \in CRs /\ UNCHANGED <<objs, ocacheFresh, data>> /\ queue \subseteq queue'
    BY <1>7 DEF UpdateStatus, CheckFinalAccount, RemoveFinalizer, Return, TypeOK, objVars, envVars
  <2>2. UNCHANGED crVars \/ \E s : StoreCR(cur, s)
    BY <1>7 DEF UpdateStatus, CheckFinalAccount, RemoveFinalizer
  <2> QED BY <1>2, <1>7, <2>1, <2>2
<1>8. ASSUME DeleteRawOutput, c # cur PROVE Kept
  <2>1. cur \in CRs /\ UNCHANGED <<data, crVars>> /\ queue \subseteq queue'
        /\ jt.last.target \in Targets
    BY <1>8, Atoms DEF DeleteRawOutput, Return, TypeOK, envVars
  <2>2. CASE UNCHANGED objVars
    BY <1>2, <1>8, <2>1, <2>2 DEF objVars
  <2>3. CASE StoreObj(jt.last.target, NoObj)
    BY <1>3, <1>4, <1>8, <2>1, <2>3 DEF crVars
  <2> QED BY <1>8, <2>2, <2>3 DEF DeleteRawOutput
<1>9. ASSUME NEW d \in CRs, SyncCR(d) PROVE Kept
  <2>1. UNCHANGED <<objs, ocacheFresh, data>> /\ queue' = queue \cup {d}
        /\ \A e \in CRs : e # d => cache'[e] = cache[e] /\ cacheFresh'[e] = cacheFresh[e]
    BY <1>9 DEF SyncCR, TypeOK, objVars, envVars
  <2>2. CASE c = d
    BY <2>1, <2>2 DEF Woken
  <2>3. CASE c # d
    BY <2>1, <2>3, TruthUntouched
  <2> QED BY <2>2, <2>3
<1>10. ASSUME NEW d \in CRs, NEW s, ChangeCR(d, s) PROVE Kept
  <2>1. UNCHANGED <<objs, ocacheFresh, data, queue, cache>>
    BY <1>10 DEF ChangeCR, StoreCR, objVars, envVars
  <2>2. cacheFresh'[c] => cacheFresh[c]
    BY <1>10, StoreCREffect DEF ChangeCR
  <2> QED BY <2>1, <2>2, TruthUntouched
<1>11. ASSUME NEW t \in Targets, Collect(t) \/ Tamper(t) PROVE Kept
  <2>1. UNCHANGED <<data, cache, cacheFresh, queue>> /\ \E o : StoreObj(t, o)
    BY <1>11 DEF Collect, Tamper, crVars, envVars
  <2>2. t \in ConfigTargets \/ ~RawOutputsAlone
    BY <1>11 DEF Collect, Tamper, Disturbed, RawOutputsAlone
  <2> QED BY <1>3, <2>1, <2>2
<1>12. ASSUME UNCHANGED <<crVars, objVars, queue, workerVars, data>> PROVE Kept
  BY <1>12, TruthUntouched DEF crVars, objVars
<1>13. ASSUME OutsideStep PROVE Kept
  BY <1>9, <1>10, <1>11, <1>12, <1>13, TruthSynced DEF OutsideStep, DeleteCR, EditSpec
<1>14. ASSUME NEW d \in CRs, NEW x \in Data \cup Failures, ChangeData(d, x) PROVE Kept
  <2>1. UNCHANGED <<objs, ocacheFresh, cache, cacheFresh>> /\ queue \subseteq queue'
        /\ (c # d => data'[c] = data[c])
    BY <1>14 DEF ChangeData, TypeOK, crVars, objVars
  <2>2. CASE c = d
    <3>1. cache[c].phase # "gone"
      BY DEF PhasesInv
    <3> QED BY <1>14, <2>2, <3>1 DEF ChangeData, Woken
  <2>3. CASE c # d
    BY <2>1, <2>3, TruthUntouched
  <2> QED BY <2>2, <2>3
<1> QED BY <1>5, <1>6, <1>7, <1>8, <1>13, <1>14 DEF FinalizeStep

(* A verdict reached without an output is that of the goal.                   *)
LEMMA VerdictWithoutOutput ==
  ASSUME TypeOK, SpecsInv, GoalInv, ResolveAndRender \/ CheckServiceAccount,
         pc' = "status", jtFresh', ~retry'
  PROVE  jt'.ready # "RenderSuccess" /\ (jt'.ready = Outcome(jt'.spec, data[cur]) \/ cur \in queue)
<1>1. pc # "idle" /\ cur \in CRs /\ jt \in CRRecords /\ jt.spec \in Specs
  BY DEF ResolveAndRender, CheckServiceAccount, TypeOK, SpecsInv
<1>2. \A x \in Reasons : [jt EXCEPT !.ready = x].ready = x
                         /\ [jt EXCEPT !.ready = x].spec = jt.spec
  BY <1>1 DEF CRRecords
<1>3. ASSUME ResolveAndRender
      PROVE  jt'.ready # "RenderSuccess" /\ jt'.ready = Outcome(jt'.spec, data[cur])
  <2> DEFINE d == data[cur]
  <2>1. d \in Data \cup InputFailures
    BY <1>1, ConstantsAssumption DEF TypeOK
  <2>2. CASE jt.spec.out = "InvalidSpec" /\ Finish("InvalidSpec", FALSE)
    BY <1>2, <2>2, Outcomes, ReasonsUsed DEF Finish
  <2>3. CASE jt.spec.out # "InvalidSpec" /\ d \in InputFailures /\ Finish(d, d # "RenderFailed")
    <3>1. d = "RenderFailed" /\ d \in Reasons
      BY <2>3, ReasonsUsed DEF Finish
    <3> QED BY <1>2, <2>3, <3>1, Outcomes DEF Finish
  <2>4. CASE /\ jt.spec.out # "InvalidSpec" /\ d \notin InputFailures
             /\ TargetOf(jt.spec, d) = "Unparsable" /\ Finish("RawObjectInvalid", FALSE)
    BY <1>2, <2>1, <2>4, Outcomes, ReasonsUsed DEF Finish
  <2> QED BY <1>3, <2>2, <2>3, <2>4 DEF ResolveAndRender, TargetOf
<1>4. ASSUME CheckServiceAccount
      PROVE  jt'.ready # "RenderSuccess" /\ (jt'.ready = Outcome(jt'.spec, data[cur]) \/ cur \in queue)
  <2>1. /\ pc = "account" /\ goal.target = "BadNamespace" /\ Finish("RawObjectInvalid", FALSE)
    BY <1>4 DEF CheckServiceAccount, CheckManifest, Finish
  <2>2. jt'.ready = "RawObjectInvalid" /\ jt'.spec = jt.spec /\ jtFresh
    BY <1>2, <2>1, ReasonsUsed DEF Finish
  <2>3. /\ jt.spec.out # "InvalidSpec" /\ goal.target = TargetOf(jt.spec, goal.data)
        /\ goal.data = data[cur] \/ cur \in queue
        /\ goal.data \in Data
    BY <2>1, <2>2 DEF GoalInv, TypeOK
  <2> QED BY <2>1, <2>2, <2>3, Outcomes
<1> QED BY <1>3, <1>4

(* A recorded output is there, or an event of it is on its way.               *)
LEMMA VerdictOfOutput ==
  ASSUME TypeOK, SpecsInv, CopiesInv, PhasesInv, GoalInv,
         CreateOrUpdateOutput \/ ApplyRawObject, jtFresh', ~retry'
  PROVE  IsTrue(cur, jt)' \/ Woken(cur)'
<1> DEFINE t == goal.target
<1>1. /\ pc = "apply" /\ cur \in CRs /\ jt \in CRRecords /\ jt.spec \in Specs
      /\ goal.data \in Data /\ t \in Targets /\ UNCHANGED <<crVars, queue, goal, data>>
  BY Atoms DEF CreateOrUpdateOutput, ApplyRawObject, TypeOK, SpecsInv, envVars
<1>2. RecordOutput
  BY DEF CreateOrUpdateOutput, ApplyRawObject, Finish
<1>3. /\ jt'.last = [target |-> t, sa |-> jt.spec.sa] /\ jt'.ready = "RenderSuccess"
      /\ jt'.spec = jt.spec /\ jt'.finalizer = jt.finalizer
      /\ cur' = cur /\ jtFresh
  BY <1>1, <1>2 DEF RecordOutput, CRRecords
<1>4. /\ jt.spec.out # "InvalidSpec" /\ t = TargetOf(jt.spec, goal.data)
      /\ goal.data = data[cur] \/ cur \in queue
      /\ jt.finalizer = NeedsFinalizer(jt.spec, t)
  BY <1>1, <1>3 DEF GoalInv, WantsFinalizer
<1>5. ASSUME goal.data = data[cur], IsWritten(cur, jt.spec, t)' PROVE IsTrue(cur, jt)'
  <2>1. t \notin {"Unparsable", "BadNamespace"}
    BY <1>1, ConstantsAssumption DEF BadManifests
  <2>2. Outcome(jt.spec, data[cur]) = "RenderSuccess"
    BY <1>1, <1>4, <1>5, <2>1, Outcomes
  <2> QED BY <1>1, <1>3, <1>4, <1>5, <2>2 DEF IsTrue, Delivered, IsWritten
<1>6. CASE ApplyRawObject
  <2>1. StoreObj(t, RenderedObject) /\ IsRaw(jt.spec)
    BY <1>2, <1>6 DEF ApplyRawObject, Finish, RecordOutput
  <2>2. objs'[t] = RenderedObject /\ t \in RawTargets
    BY <1>1, <2>1, StoreObjEffect DEF TypeOK
  <2>3. goal.data = data[cur] => IsWritten(cur, jt.spec, t)'
    BY <1>1, <1>3, <2>2 DEF IsWritten, RenderedObject, RawTargets
  <2> QED BY <1>1, <1>3, <1>4, <1>5, <2>3 DEF Woken
<1>7. CASE CreateOrUpdateOutput
  <2> DEFINE seen == ocache[t]
  <2>1. /\ t \in ConfigTargets /\ ~IsRaw(jt.spec) /\ t = jt.spec.out
        /\ \/ UNCHANGED objVars /\ Mutate(seen) = seen
           \/ StoreObj(t, Mutate(seen))
    BY <1>1, <1>2, <1>4, <1>7 DEF CreateOrUpdateOutput, Finish, RecordOutput, TypeOK, TargetOf
  <2>2. objs'[t] = Mutate(seen) /\ goal.data = data[cur] => IsWritten(cur, jt.spec, t)'
    BY <1>1, <1>3 DEF IsWritten, Mutate
  <2>3. CASE StoreObj(t, Mutate(seen))
    BY <1>1, <1>3, <1>4, <1>5, <2>2, <2>3, StoreObjEffect DEF Woken
  <2>4. CASE UNCHANGED objVars /\ Mutate(seen) = seen
    <3>1. ocacheFresh[t] => objs'[t] = Mutate(seen)
      BY <2>1, <2>4 DEF CopiesInv, objVars
    <3>2. cacheFresh[cur] => IsOutputOf(t, cur)
      BY <1>1, <1>3, <2>1 DEF CopiesInv, FreshCRs, PhasesInv, ReconcilePCs, IsOutputOf
    <3>3. ~ocacheFresh[t] => Woken(cur)
      BY <2>1, <3>2 DEF Woken
    <3>4. Woken(cur) => Woken(cur)'
      BY <1>1, <1>3, <2>4 DEF Woken, IsOutputOf, crVars, objVars
    <3>5. cur \in queue => Woken(cur)
      BY DEF Woken
    <3> QED BY <1>4, <1>5, <2>2, <3>1, <3>3, <3>4, <3>5
  <2> QED BY <2>1, <2>3, <2>4
<1> QED BY <1>6, <1>7

(* What is about to be stored is true, or will be looked at.                  *)
LEMMA VerdictNext ==
  ASSUME TypeOK, SpecsInv, CopiesInv, PhasesInv, GoalInv, VerdictInv, [Next]_vars
  PROVE  VerdictInv'
<1> SUFFICES ASSUME pc' = "status", jtFresh', ~retry'
             PROVE  IsTrue(cur, jt)' \/ Woken(cur)'
  BY DEF VerdictInv
<1>1. ASSUME NEW c \in CRs, Take(c) PROVE IsTrue(cur, jt)' \/ Woken(cur)'
  <2>1. UNCHANGED <<workerVars, crVars, objVars, data>> /\ c \in queue /\ pc = "idle"
    BY <1>1 DEF Take, envVars
  <2> QED BY <2>1 DEF workerVars
<1>2. ASSUME ReconcileStep PROVE IsTrue(cur, jt)' \/ Woken(cur)'
  <2>1. UNCHANGED <<cur, queue, data>>
    BY <1>2, ReconcileSteps
  <2>2. CASE ResolveAndRender \/ CheckServiceAccount
    BY <2>1, <2>2, VerdictWithoutOutput DEF IsTrue, Woken
  <2>3. CASE CreateOrUpdateOutput \/ ApplyRawObject
    BY <2>3, VerdictOfOutput
  <2>4. ~(KeepFinalizer \/ UpdateFinalizer \/ CleanupOldOutput)
    BY DEF KeepFinalizer, UpdateFinalizer, CleanupOldOutput, Finish
  <2> QED BY <1>2, <2>2, <2>3, <2>4 DEF ReconcileStep
<1>3. ~(UpdateStatus \/ FinalizeStep \/ Restart)
  BY FinalizeSteps DEF UpdateStatus, Return, Restart, FinalizePCs
<1>4. ASSUME OutsideStep \/ \E d \in CRs, x \in Data \cup Failures : ChangeData(d, x)
      PROVE  IsTrue(cur, jt)' \/ Woken(cur)'
  <2>1. UNCHANGED <<pc, cur, jt, retry>> /\ (jtFresh' => jtFresh)
    BY <1>4, OutsideSteps DEF ChangeData, workerVars
  <2>2. /\ pc = "status" /\ jtFresh /\ cur \in CRs /\ jt \in CRRecords
        /\ api[cur].phase = "live" /\ jt.spec = api[cur].spec
        /\ IsTrue(cur, jt) \/ Woken(cur)
    BY <2>1 DEF VerdictInv, TypeOK, CopiesInv, FreshCRs, PhasesInv, ReconcilePCs
  <2>3. PICK c \in CRs, r \in CRRecords : c = cur /\ r = jt
    BY <2>2
  <2>4. IsTrue(c, r)' \/ Woken(c)'
    BY <1>4, <2>2, <2>3, TruthOfOthers
  <2> QED BY <2>1, <2>3, <2>4 DEF IsTrue, Delivered, IsWritten, Woken, IsOutputOf
<1> QED BY <1>1, <1>2, <1>3, <1>4, Steps

(* Storing the status makes the verdict that of the CR.                       *)
LEMMA TruthStored ==
  ASSUME TypeOK, CopiesInv, VerdictInv, UpdateStatus, NEW c \in CRs, c = cur
  PROVE  TellsTruth(c)' \/ Woken(c)'
<1>1. /\ pc = "status" /\ api[c] \in CRRecords /\ jt \in CRRecords
      /\ UNCHANGED <<objs, ocacheFresh, data>> /\ queue \subseteq queue'
  BY DEF UpdateStatus, Return, TypeOK, objVars, envVars
<1>2. PICK r : r = [api[c] EXCEPT !.last = jt.last, !.ready = jt.ready]
  OBVIOUS
<1>3. c \notin queue' => jtFresh /\ ~retry /\ StoreCR(c, r)
  BY <1>2 DEF UpdateStatus, Return
<1>4. ASSUME jtFresh, ~retry, StoreCR(c, r)
      PROVE  TellsTruth(c)' \/ Woken(c)'
  <2>1. api'[c] = r /\ cache' = cache /\ (cacheFresh'[c] => cacheFresh[c])
    BY <1>4, StoreCREffect
  <2>2. /\ r.spec = jt.spec /\ r.finalizer = jt.finalizer
        /\ r.last = jt.last /\ r.ready = jt.ready
    BY <1>1, <1>2, <1>4 DEF CopiesInv, FreshCRs, CRRecords
  <2>3. IsTrue(c, jt) \/ Woken(c)
    BY <1>1, <1>4 DEF VerdictInv
  <2>4. IsTrue(c, jt) => IsTrue(c, r)
    BY <2>2 DEF IsTrue, Delivered, IsWritten
  <2>5. IsTrue(c, r) => TellsTruth(c)'
    BY <1>1, <2>1 DEF TellsTruth, IsTrue, Delivered, IsWritten
  <2>6. Woken(c) => Woken(c)'
    BY <1>1, <2>1 DEF Woken, IsOutputOf
  <2> QED BY <2>3, <2>4, <2>5, <2>6
<1> QED BY <1>3, <1>4 DEF Woken

(* Each live CR tells the truth, or the operator will look at it again.       *)
LEMMA TruthNext ==
  ASSUME TypeOK, SpecsInv, CopiesInv, PhasesInv, VerdictInv, TruthInv, [Next]_vars
  PROVE  TruthInv'
<1> SUFFICES ASSUME NEW c \in CRs, api'[c].phase = "live"
             PROVE  TellsTruth(c)' \/ Woken(c)' \/ (pc # "idle" /\ cur = c)'
  BY DEF TruthInv
<1> DEFINE Kept == TellsTruth(c)' \/ Woken(c)' \/ (pc # "idle" /\ cur = c)'
<1>1. ASSUME api'[c] = api[c], TellsTruth(c) \/ Woken(c),
             \/ (ReconcileStep \/ UpdateStatus \/ FinalizeStep) /\ c # cur
             \/ \E d \in CRs : Take(d) /\ c # d
             \/ OutsideStep
             \/ \E d \in CRs, x \in Data \cup Failures : ChangeData(d, x)
      PROVE  Kept
  <2>1. PICK r \in CRRecords : r = api[c]
    BY DEF TypeOK
  <2>2. IsTrue(c, r) \/ Woken(c)
    BY <1>1, <2>1 DEF TellsTruth
  <2>3. IsTrue(c, r)' \/ Woken(c)'
    BY <1>1, <2>1, <2>2, TruthOfOthers
  <2>4. IsTrue(c, r)' => TellsTruth(c)'
    BY <1>1, <2>1 DEF TellsTruth, IsTrue, Delivered, IsWritten
  <2> QED BY <2>3, <2>4
<1>2. ASSUME NEW d \in CRs, Take(d) PROVE Kept
  <2>1. UNCHANGED api /\ pc = "idle"
    BY <1>2 DEF Take, crVars
  <2>2. CASE c = d
    <3>1. cache[c].phase = "live"
      BY <2>1 DEF PhasesInv
    <3> QED BY <1>2, <2>2, <3>1 DEF Take
  <2>3. CASE c # d
    BY <1>1, <1>2, <2>1, <2>3 DEF TruthInv
  <2> QED BY <2>2, <2>3
<1>3. ASSUME ReconcileStep PROVE Kept
  <2>1. cur' = cur /\ pc' # "idle" /\ cur \in CRs /\ (UNCHANGED crVars \/ StoreFinalizer)
    BY <1>3, ReconcileSteps DEF TypeOK, ReconcilePCs
  <2>2. c # cur => api'[c] = api[c]
    BY <2>1, StoreCREffect DEF StoreFinalizer, crVars
  <2> QED BY <1>1, <1>3, <2>1, <2>2 DEF TruthInv
<1>4. ASSUME UpdateStatus PROVE Kept
  <2>1. cur \in CRs /\ (UNCHANGED crVars \/ \E r : StoreCR(cur, r))
    BY <1>4 DEF UpdateStatus, TypeOK
  <2>2. c # cur => api'[c] = api[c]
    BY <2>1, StoreCREffect DEF crVars
  <2> QED BY <1>1, <1>4, <2>2, TruthStored DEF TruthInv
<1>5. ASSUME FinalizeStep PROVE Kept
  <2>1. cur \in CRs /\ pc \in FinalizePCs /\ api[cur] \in CRRecords
    BY <1>5, FinalizeSteps DEF TypeOK, FinalizePCs
  <2>2. /\ UNCHANGED crVars
           \/ StoreCR(cur, [api[cur] EXCEPT !.finalizer = FALSE, !.phase = "gone"])
        /\ [api[cur] EXCEPT !.finalizer = FALSE, !.phase = "gone"].phase = "gone"
    BY <1>5, <2>1, FinalizeSteps DEF CRRecords
  <2>3. ASSUME NEW r, StoreCR(cur, r), r.phase = "gone" PROVE c # cur /\ api'[c] = api[c]
    BY <2>1, <2>3, StoreCREffect
  <2>4. UNCHANGED crVars => c # cur /\ api'[c] = api[c]
    BY <2>1 DEF PhasesInv, crVars
  <2> QED BY <1>1, <1>5, <2>2, <2>3, <2>4 DEF TruthInv
<1>6. ASSUME OutsideStep PROVE Kept
  <2>1. ASSUME NEW d \in CRs, DeleteCR(d) \/ \E s \in Specs : EditSpec(d, s)
        PROVE  api[c].phase = "live" /\ (api'[c] = api[c] \/ ~cacheFresh'[c])
    <3>1. api[d].phase = "live" /\ \E r : StoreCR(d, r)
      BY <2>1 DEF DeleteCR, EditSpec, ChangeCR, MayChange
    <3> QED BY <3>1, StoreCREffect
  <2>2. \/ \E d \in CRs : DeleteCR(d) \/ \E s \in Specs : EditSpec(d, s)
        \/ UNCHANGED api
    BY <1>6 DEF OutsideStep, SyncCR, SyncOutput, Collect, Tamper, crVars
  <2>3. api[c].phase = "live" /\ (api'[c] = api[c] \/ ~cacheFresh'[c])
    BY <2>1, <2>2
  <2>4. UNCHANGED <<pc, cur>>
    BY <1>6, OutsideSteps
  <2> QED BY <1>1, <1>6, <2>3, <2>4 DEF TruthInv, Woken
<1>7. ASSUME NEW d \in CRs, NEW x \in Data \cup Failures, ChangeData(d, x) PROVE Kept
  <2>1. UNCHANGED <<api, pc, cur>>
    BY <1>7 DEF ChangeData, crVars, workerVars
  <2> QED BY <1>1, <1>7, <2>1 DEF TruthInv
<1>8. Restart => Kept
  BY DEF Restart, Woken
<1> QED BY <1>2, <1>3, <1>4, <1>5, <1>6, <1>7, <1>8, Steps

-----------------------------------------------------------------------------
(* The invariant *)

LEMMA InitOutputInv == Init => OutputInv
<1> SUFFICES ASSUME Init PROVE OutputInv
  OBVIOUS
<1>1. \A c \in CRs : api[c].spec \in Specs /\ cache[c].spec \in Specs /\ api[c].phase = "live"
  BY DEF Init, NewCR
<1>2. SpecsInv /\ CopiesInv /\ PhasesInv
  BY <1>1, Atoms
  DEF Init, SpecsInv, CopiesInv, FreshCRs, PhasesInv, ReconcilePCs, FinalizePCs
<1>3. DeletionInv /\ GoalInv /\ VerdictInv /\ TruthInv
  BY DEF Init, DeletionInv, GoalInv, VerdictInv, TruthInv, Woken
<1> QED BY <1>2, <1>3 DEF OutputInv

LEMMA OutputInvNext ==
  ASSUME TypeOK, OutputInv, [Next]_vars
  PROVE  OutputInv'
<1>1. CRCopies
  BY DEF OutputInv, CopiesInv, CRCopies
<1> QED BY <1>1, SpecsNext, CopiesNext, PhasesNext, DeletionNext, GoalNext, VerdictNext, TruthNext
        DEF OutputInv

LEMMA OutputInvHolds == Spec => [](TypeOK /\ OutputInv)
<1>1. Init => TypeOK /\ OutputInv
  BY InitTypeOK, InitOutputInv
<1>2. TypeOK /\ OutputInv /\ [Next]_vars => (TypeOK /\ OutputInv)'
  BY NextTypeOK, OutputInvNext
<1> QED BY <1>1, <1>2, PTL DEF Spec

(* No change is lost, whatever happens to the CRs, the outputs, the caches,   *)
(* the operator and its API calls: once the operator has nothing left to do,  *)
(* every live CR tells the truth about its current spec and data.            *)
THEOREM SettledRight == Spec => []SettledTellsTruth
<1>1. TypeOK /\ OutputInv => SettledTellsTruth
  BY DEF OutputInv, TruthInv, SettledTellsTruth, Quiet, Woken
<1> QED BY <1>1, OutputInvHolds, PTL

-----------------------------------------------------------------------------
(* Who controls an output *)

(* What the steps make of a ConfigMap or Secret: nothing, an object without   *)
(* controller where there was none, the same object without its content, or   *)
(* what CreateOrUpdate makes of the object it sees and may control.           *)
LEMMA ConfigWrites ==
  ASSUME TypeOK, ObjCopies, [Next]_vars, NEW t \in ConfigTargets
  PROVE  \/ objs'[t] = objs[t]
         \/ objs'[t] = NoObj
         \/ objs[t] = NoObj /\ objs'[t] = Foreign
         \/ objs'[t] = [objs[t] EXCEPT !.data = None]
         \/ /\ pc = "apply" /\ objs'[t] = Mutate(objs[t])
            /\ (jt.spec.own => objs[t].owner \in {None, cur})
<1> DEFINE Goal == \/ objs'[t] = objs[t]
                   \/ objs'[t] = NoObj
                   \/ objs[t] = NoObj /\ objs'[t] = Foreign
                   \/ objs'[t] = [objs[t] EXCEPT !.data = None]
                   \/ /\ pc = "apply" /\ objs'[t] = Mutate(objs[t])
                      /\ (jt.spec.own => objs[t].owner \in {None, cur})
<1>1. t \in Targets /\ (UNCHANGED objs => objs'[t] = objs[t])
  BY Atoms
<1>2. ASSUME NEW u \in Targets, StoreObj(u, NoObj) PROVE Goal
  BY <1>1, <1>2, StoreObjEffect
<1>3. ASSUME CreateOrUpdateOutput PROVE Goal
  <2> DEFINE g == goal.target
             seen == ocache[g]
  <2>1. /\ pc = "apply" /\ g \in ConfigTargets /\ g \in Targets
        /\ \/ UNCHANGED objs
           \/ /\ StoreObj(g, Mutate(seen)) /\ ~AlreadyOwned(seen)
              /\ IF seen.exists THEN ocacheFresh[g] ELSE ~objs[g].exists
    BY <1>3, Atoms DEF CreateOrUpdateOutput, TypeOK, objVars
  <2>2. CASE UNCHANGED objs
    BY <1>1, <2>2
  <2>3. CASE /\ StoreObj(g, Mutate(seen)) /\ ~AlreadyOwned(seen) /\ seen.exists /\ ocacheFresh[g]
    <3>1. seen = objs[g] /\ objs'[t] = IF t = g THEN Mutate(seen) ELSE objs[t]
      BY <1>1, <2>1, <2>3, StoreObjEffect DEF ObjCopies
    <3> QED BY <2>1, <2>3, <3>1 DEF AlreadyOwned
  <2>4. CASE /\ StoreObj(g, Mutate(seen)) /\ ~AlreadyOwned(seen) /\ ~seen.exists
             /\ ~objs[g].exists
    <3>1. objs[g] = NoObj /\ objs'[t] = IF t = g THEN Mutate(seen) ELSE objs[t]
      BY <1>1, <2>1, <2>4, StoreObjEffect DEF ObjCopies
    <3>2. seen = NoObj
      BY <2>1, <2>4 DEF ObjCopies
    <3> QED BY <2>1, <2>4, <3>1, <3>2 DEF NoObj
  <2> QED BY <2>1, <2>2, <2>3, <2>4
<1>4. ASSUME ReconcileStep, ~CreateOrUpdateOutput PROVE Goal
  <2>1. jt.last.target \in Targets \cup {None}
    BY DEF TypeOK, CRRecords, Refs
  <2>2. CleanupOldOutput => Goal
    BY <1>1, <1>2, <2>1 DEF CleanupOldOutput, TargetChanged, objVars
  <2>3. ApplyRawObject => Goal
    <3> SUFFICES ASSUME ApplyRawObject PROVE Goal
      OBVIOUS
    <3>1. goal.target \in RawTargets /\ goal.target # t
      BY ConstantsAssumption DEF ApplyRawObject, TypeOK
    <3>2. UNCHANGED objs \/ \E o : StoreObj(goal.target, o)
      BY DEF ApplyRawObject, objVars
    <3> QED BY <1>1, <3>1, <3>2, Atoms, StoreObjEffect
  <2> QED BY <1>1, <1>4, <2>2, <2>3
          DEF ReconcileStep, ResolveAndRender, CheckServiceAccount, KeepFinalizer,
              UpdateFinalizer, objVars
<1>5. ASSUME UpdateStatus \/ FinalizeStep PROVE Goal
  BY <1>1, <1>2, <1>5, Atoms
  DEF UpdateStatus, FinalizeStep, CheckFinalAccount, DeleteRawOutput, RemoveFinalizer,
      TypeOK, objVars
<1>6. ASSUME NEW u \in Targets, Collect(u) \/ Tamper(u) PROVE Goal
  <2>1. ASSUME ~objs[u].exists, StoreObj(u, Foreign) PROVE Goal
    BY <1>1, <2>1, StoreObjEffect DEF ObjCopies
  <2>2. ASSUME StoreObj(u, [objs[u] EXCEPT !.data = None]) PROVE Goal
    BY <1>1, <2>2, StoreObjEffect
  <2> QED BY <1>2, <1>6, <2>1, <2>2 DEF Collect, Tamper
<1>7. \/ \E c \in CRs : Take(c) \/ SyncCR(c) \/ DeleteCR(c) \/ \E s \in Specs : EditSpec(c, s)
      \/ \E u \in ConfigTargets : SyncOutput(u)
      \/ \E c \in CRs, d \in Data \cup Failures : ChangeData(c, d)
      \/ Restart
      \/ UNCHANGED <<crVars, objVars, queue, workerVars, data>>
      => UNCHANGED objs
  BY DEF Take, SyncCR, DeleteCR, EditSpec, ChangeCR, SyncOutput, ChangeData, Restart, objVars
<1> QED BY <1>1, <1>3, <1>4, <1>5, <1>6, <1>7, Steps DEF OutsideStep

(* The controller of a ConfigMap or Secret never changes, whichever CRs name  *)
(* it and however stale what the operator sees of it is.                      *)
THEOREM ControllerKept == Spec => ControllerNeverChanges
<1>1. ASSUME TypeOK, OutputInv, [Next]_vars, NEW t \in ConfigTargets,
             objs[t].owner # None, objs'[t].exists
      PROVE  objs'[t].owner = objs[t].owner
  <2>1. ObjCopies /\ objs[t] \in Objects
    BY <1>1, Atoms DEF OutputInv, CopiesInv, ObjCopies, TypeOK
  <2>2. [objs[t] EXCEPT !.data = None].owner = objs[t].owner
    BY <2>1 DEF Objects
  <2>3. NoObj.exists = FALSE /\ NoObj.owner = None
    BY DEF NoObj
  <2>4. Mutate(objs[t]).owner = IF jt.spec.own THEN cur ELSE objs[t].owner
    BY DEF Mutate
  <2> QED BY <1>1, <2>1, <2>2, <2>3, <2>4, ConfigWrites
<1>2. TypeOK /\ OutputInv /\ [Next]_vars =>
        [\A t \in ConfigTargets :
          objs[t].owner # None /\ objs'[t].exists => objs'[t].owner = objs[t].owner]_vars
  BY <1>1
<1> QED BY <1>2, OutputInvHolds, PTL DEF Spec, ControllerNeverChanges

-----------------------------------------------------------------------------
(* A CR under deletion disappears only after its recorded raw output is gone, *)
(* whatever happens to accounts, grants, API calls and the operator.          *)
THEOREM FinalizedGone == Spec => FinalizedOutputIsGone
<1>1. ASSUME TypeOK, OutputInv, [Next]_vars, NEW c \in CRs,
             api[c].phase = "deleting", api'[c].phase = "gone",
             api[c].last.target \in RawTargets
      PROVE  objs'[api[c].last.target].label = None
  <2>1. CASE RemoveFinalizer
    <3>1. /\ pc = "finalRemove" /\ UNCHANGED objs /\ cur \in CRs
          /\ UNCHANGED api \/ (jtFresh /\ \E r : StoreCR(cur, r))
      BY <1>1, <2>1 DEF RemoveFinalizer, objVars, crVars, TypeOK
    <3>2. c = cur /\ jtFresh
      BY <1>1, <3>1, StoreCREffect
    <3>3. jt = api[c]
      BY <1>1, <3>1, <3>2 DEF OutputInv, CopiesInv
    <3> QED BY <1>1, <3>1, <3>3 DEF OutputInv, DeletionInv
  <2>2. CASE ReconcileStep \/ UpdateStatus
    <3>1. cur \in CRs /\ api[cur] \in CRRecords
      BY <1>1, <2>2, ReconcileSteps DEF TypeOK, ReconcilePCs, UpdateStatus
    <3>2. /\ [api[cur] EXCEPT !.finalizer = WantsFinalizer].phase = api[cur].phase
          /\ [api[cur] EXCEPT !.last = jt.last, !.ready = jt.ready].phase = api[cur].phase
      BY <3>1 DEF CRRecords
    <3>3. UNCHANGED crVars \/ \E r : StoreCR(cur, r) /\ r.phase = api[cur].phase
      BY <1>1, <2>2, <3>2, ReconcileSteps DEF StoreFinalizer, UpdateStatus
    <3> QED BY <1>1, <3>1, <3>3, StoreCREffect DEF crVars
  <2>3. ASSUME NEW d \in CRs, DeleteCR(d) \/ \E s \in Specs : EditSpec(d, s) PROVE FALSE
    <3>1. api[d].phase = "live" /\ \E r : StoreCR(d, r)
      BY <2>3 DEF DeleteCR, EditSpec, ChangeCR, MayChange
    <3> QED BY <1>1, <3>1, StoreCREffect
  <2>4. \/ \E d \in CRs : Take(d) \/ SyncCR(d)
        \/ CheckFinalAccount \/ DeleteRawOutput
        \/ \E u \in ConfigTargets : SyncOutput(u)
        \/ \E u \in Targets : Collect(u) \/ Tamper(u)
        \/ \E d \in CRs, x \in Data \cup Failures : ChangeData(d, x)
        \/ Restart
        \/ UNCHANGED <<crVars, objVars, queue, workerVars, data>>
        => UNCHANGED api
    BY DEF Take, SyncCR, CheckFinalAccount, DeleteRawOutput, SyncOutput, Collect, Tamper,
           ChangeData, Restart, crVars
  <2> QED BY <1>1, <2>1, <2>2, <2>3, <2>4, Steps DEF OutsideStep, FinalizeStep
<1>2. TypeOK /\ OutputInv /\ [Next]_vars =>
        [\A c \in CRs :
           /\ api[c].phase = "deleting" /\ api'[c].phase = "gone"
           /\ api[c].last.target \in RawTargets
           => objs'[api[c].last.target].label = None]_vars
  BY <1>1
<1> QED BY <1>2, OutputInvHolds, PTL DEF Spec, FinalizedOutputIsGone

=============================================================================
