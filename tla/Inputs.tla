-------------------------------- MODULE Inputs --------------------------------
(***************************************************************************)
(* From the ConfigMaps and Secrets a JinjaTemplate (CR) reads to its output: *)
(* the watches and their mapping, validateSpec, the source resolver and the  *)
(* templates.  One CR; the worker reads each source and template on its own, *)
(* from an informer cache that may change between two reads.                *)
(*                                                                         *)
(*   - cr, obj       what the API server stores                             *)
(*   - ccr, cobj     the informers' copies                                   *)
(*   - crEvent, events   what the informers have yet to hand to the handlers *)
(*   - queued, retrying  the workqueue, and the keys it adds later           *)
(*   - pc, job ...   the worker inside Reconcile                             *)
(*                                                                         *)
(* OutputController models what becomes of the rendered data.               *)
(***************************************************************************)
EXTENDS Naturals, Sequences, FiniteSets

CONSTANTS
  Names,         \* names of ConfigMaps and Secrets, none of them the output's
  Output,        \* the name of the output
  Values,        \* what the key of an object can hold, and templates
  Unrenderable,  \* the values that fail as a template
  DNSValue,      \* what DNS answers
  Specs,         \* the specs users give to the CR
  Starts,        \* the objects there are when the operator starts
  FirstSpecs,    \* the specs it is created with
  Edited,        \* the objects they edit
  Contents,      \* the contents users give to objects
  MaxDisturbances, \* bound on edits, failing calls and restarts
  None           \* no name, no value ...

ObjectKinds == {"ConfigMap", "Secret"}
Objects     == ObjectKinds \X Names
Versions    == [exists : BOOLEAN, labelled : BOOLEAN, value : Values \cup {None}]
Absent      == [exists |-> FALSE, labelled |-> FALSE, value |-> None]

(* A template is inline, or the key of a ConfigMap.                          *)
Templates == [inline : Values \cup {None}, from : Names \cup {None}]

(* A reference of a source: by name and key, or by a label selector, which   *)
(* can be malformed; for DNS the name is the host.                           *)
Selectors == {"none", "labels", "malformed"}

(* The CRD's validation rule: serviceAccountName is given exactly for        *)
(* RawObject; it may be given as the empty string.                          *)
ASSUME InputsAssumption ==
  /\ Output \notin Names /\ None \notin Names \cup Values
  /\ Unrenderable \subseteq Values /\ Starts \subseteq [Objects -> Versions]
  /\ Contents \subseteq Versions /\ \A c \in Contents : ~c.exists => c = Absent
  /\ FirstSpecs \subseteq Specs /\ Edited \subseteq Objects /\ MaxDisturbances \in Nat
  /\ \A s \in Specs : (s.kind = "RawObject") <=> s.sa # None

(* Sources and keys are lists; a template and a reference name what can be.   *)
ASSUME SpecsAssumption ==
  /\ None \notin Specs
  /\ \A s \in Specs :
       /\ Len(s.sources) \in Nat /\ DOMAIN s.sources = 1 .. Len(s.sources)
       /\ Len(s.keys) \in Nat /\ DOMAIN s.keys = 1 .. Len(s.keys)
       /\ s.template \in Templates
       /\ \A i \in DOMAIN s.keys : s.keys[i].template \in Templates
       /\ \A i \in DOMAIN s.sources, kind \in ObjectKinds :
            kind \in DOMAIN s.sources[i].refs =>
              s.sources[i].refs[kind].name \in Names \cup {None}

VARIABLES
  cr,       \* the spec the API server stores
  obj,      \* the objects the API server stores
  told,     \* the reason of the stored Ready condition
  out,      \* the output as it was last written
  ccr,      \* the CR informer's copy of the spec
  behind,   \* is there a newer version of the CR than the informer's?
  cobj,     \* the object informers' copies
  lag,      \* the objects that have a newer version than the informer's
  crEvent,  \* an event of the CR is under way
  events,   \* events of objects under way
  queued,   \* the CR is in the workqueue
  retrying, \* it will be, after a backoff
  pc,       \* "idle", "dns", "inputs" or "status"
  job,      \* the spec being reconciled
  stale,    \* has the CR a newer version than job's?
  next,     \* the source to resolve next
  ctx,      \* the template context so far
  texts,    \* the templates loaded so far
  verdict,  \* the reason this reconcile found
  again,    \* does reconcile() return an error?
  disturbances \* edits, failing calls and restarts so far

apiVars   == <<cr, obj, told, out>>
cacheVars == <<ccr, behind, cobj, lag, crEvent, events>>
queueVars == <<queued, retrying>>
jobVars   == <<job, next, ctx, texts>>
doneVars  == <<verdict, again>>
vars      == <<apiVars, cacheVars, queueVars, pc, jobVars, stale, doneVars,
                 disturbances>>

-----------------------------------------------------------------------------
(* validateSpec *)

ValidTemplate(t) == (t.inline # None) # (t.from # None)

ValidKeys(keys) ==
  \A i \in DOMAIN keys :
    /\ keys[i].key # None
    /\ \A j \in 1 .. i - 1 : keys[j].key # keys[i].key
    /\ ValidTemplate(keys[i].template)

ValidSource(src) ==
  /\ src.name # None
  /\ Cardinality(DOMAIN src.refs) = 1
  /\ "DNS" \in DOMAIN src.refs => src.refs["DNS"].name # None

ValidOutput(s) ==
  \/ s.kind \in ObjectKinds /\ s.sa \in {None, ""}
  \/ s.kind = "RawObject" /\ ~s.named /\ s.keys = <<>> /\ s.sa # ""

Valid(s) ==
  /\ ValidOutput(s)
  /\ IF s.keys # <<>> THEN ValidKeys(s.keys) ELSE ValidTemplate(s.template)
  /\ \A i \in DOMAIN s.sources : ValidSource(s.sources[i])

-----------------------------------------------------------------------------
(* The resolver, on a view of the objects *)

RefKind(src) ==
  IF "ConfigMap" \in DOMAIN src.refs THEN "ConfigMap"
  ELSE IF "Secret" \in DOMAIN src.refs THEN "Secret" ELSE "DNS"

Orders(S) ==
  {l \in [1 .. Cardinality(S) -> S] : \A i, j \in DOMAIN l : l[i] = l[j] => i = j}

(* A cache lists objects in any order, and nothing sorts them.               *)
Listings(kind, view) ==
  Orders({<<n, view[<<kind, n>>].value>> :
            n \in {m \in Names : view[<<kind, m>>].exists /\ view[<<kind, m>>].labelled}})

HasKey(kind, name, view) ==
  name # None /\ view[<<kind, name>>].exists /\ view[<<kind, name>>].value # None

(* resolveSource: the values a source can resolve to, none if that fails.     *)
(* A selector goes before a name.                                            *)
SourceValues(src, view) ==
  LET kind == RefKind(src)
      ref  == src.refs[kind] IN
  IF kind = "DNS" THEN {DNSValue}
  ELSE IF ref.selector = "labels" THEN Listings(kind, view)
  ELSE IF ref.selector = "malformed" THEN {}
  ELSE {view[<<kind, n>>].value : n \in {m \in {ref.name} : ref.key /\ HasKey(kind, m, view)}}

(* loadTemplate, loadOutputKeyTemplate                                       *)
TemplateTexts(t, view) ==
  IF t.inline # None THEN {t.inline}
  ELSE {view[<<"ConfigMap", n>>].value : n \in {m \in {t.from} : HasKey("ConfigMap", m, view)}}

(* What loadTemplates loads: the templates of the keys, or the only one,     *)
(* under output.key or its default.                                          *)
Entries(s) ==
  IF s.keys # <<>> THEN s.keys
  ELSE <<[key |-> IF s.named THEN "key" ELSE "content", template |-> s.template]>>

EmptyContext == [n \in {} |-> None]

Bind(c, n, v) == [m \in DOMAIN c \cup {n} |-> IF m = n THEN v ELSE c[m]]

(* renderTemplates: what a template makes of the context is a value of its   *)
(* own for each template and context.                                        *)
Rendered(s, ts, c) ==
  [kind |-> s.kind,
   data |-> [k \in {Entries(s)[i].key : i \in DOMAIN ts} |->
               <<ts[CHOOSE i \in DOMAIN ts : Entries(s)[i].key = k], c>>]]

NoOutput == [kind |-> None, data |-> EmptyContext]

-----------------------------------------------------------------------------
(* The watch mapping: findJinjaTemplatesForObject, on the cached CR *)

TemplateFroms(s) == {s.template.from} \cup {s.keys[i].template.from : i \in DOMAIN s.keys}

IsSelected(ref, e) ==
  \/ ref.name # None /\ ref.name = e.name
  \/ ref.selector = "labels" /\ e.labelled

IsReferenced(s, e) ==
  \/ e.kind = "ConfigMap" /\ e.name \in TemplateFroms(s)
  \/ \E i \in DOMAIN s.sources :
       e.kind \in DOMAIN s.sources[i].refs /\ IsSelected(s.sources[i].refs[e.kind], e)

IsOutput(s, e) == e.kind = s.kind /\ e.name = Output

(* Mutant of Maps: the templates of output.keys are not looked at.           *)
MapsTopLevel(s, e) ==
  IsReferenced([s EXCEPT !.keys = <<>>], e) \/ IsOutput(s, e)

Maps(s, e) == IsReferenced(s, e) \/ IsOutput(s, e)

Disturb ==
  disturbances < MaxDisturbances /\ disturbances' = disturbances + 1

EventOf(o, c) == [kind |-> o[1], name |-> o[2], labelled |-> c.labelled]

-----------------------------------------------------------------------------
(* Users *)

EditObject(o) ==
  /\ Disturb
  /\ \E c \in Contents :
       /\ c # obj[o]
       /\ obj' = [obj EXCEPT ![o] = c]
  /\ lag' = lag \cup {o}
  /\ UNCHANGED <<cr, told, out, ccr, behind, cobj, crEvent, events, queueVars, pc, jobVars,
                 stale, doneVars>>

EditCR ==
  /\ Disturb
  /\ cr' \in Specs \ {cr}
  /\ behind' = TRUE /\ stale' = (pc # "idle")
  /\ UNCHANGED <<obj, told, out, ccr, cobj, lag, crEvent, events, queueVars, pc, jobVars,
                 doneVars>>

-----------------------------------------------------------------------------
(* The informers.  A cache changes first, its handlers hear of it later.      *)

(* Mutant of SyncObject: an update is mapped with the new labels only.        *)
SyncNewObject(o) ==
  /\ o \in lag
  /\ lag' = lag \ {o} /\ cobj' = [cobj EXCEPT ![o] = obj[o]]
  /\ events' = events \cup {EventOf(o, c) : c \in {d \in {obj[o]} : d.exists}}
  /\ UNCHANGED <<apiVars, ccr, behind, crEvent, queueVars, pc, jobVars, stale, doneVars,
                 disturbances>>

(* An update is handed on with the old object and the new one, a deletion     *)
(* with the last that was known.  Versions in between may be skipped.         *)
SyncObject(o) ==
  /\ o \in lag
  /\ lag' = lag \ {o} /\ cobj' = [cobj EXCEPT ![o] = obj[o]]
  /\ events' = events \cup {EventOf(o, c) : c \in {d \in {cobj[o], obj[o]} : d.exists}}
  /\ UNCHANGED <<apiVars, ccr, behind, crEvent, queueVars, pc, jobVars, stale, doneVars,
                 disturbances>>

SyncCR ==
  /\ behind
  /\ ccr' = cr /\ behind' = FALSE /\ crEvent' = TRUE
  /\ UNCHANGED <<apiVars, cobj, lag, events, queueVars, pc, jobVars, stale, doneVars,
                 disturbances>>

HandleObject ==
  /\ \E e \in events :
       /\ events' = events \ {e}
       /\ queued' = (queued \/ Maps(ccr, e))
  /\ UNCHANGED <<apiVars, ccr, behind, cobj, lag, crEvent, retrying, pc, jobVars, stale, doneVars,
                 disturbances>>

HandleCR ==
  /\ crEvent
  /\ crEvent' = FALSE /\ queued' = TRUE
  /\ UNCHANGED <<apiVars, ccr, behind, cobj, lag, events, retrying, pc, jobVars, stale, doneVars,
                 disturbances>>

-----------------------------------------------------------------------------
(* The worker *)

(* Retry: a backoff or a RequeueAfter is over.                               *)
Requeue ==
  /\ retrying
  /\ retrying' = FALSE /\ queued' = TRUE
  /\ UNCHANGED <<apiVars, cacheVars, pc, jobVars, stale, doneVars, disturbances>>

(* reconcile() ends with a condition; err says whether it returns an error.   *)
Finish(reason, err) ==
  /\ verdict' = reason /\ again' = err
  /\ pc' = "status"

HasDNS(s) == \E i \in DOMAIN s.sources : "DNS" \in DOMAIN s.sources[i].refs

(* Reconcile reads the CR from the cache and validates it.                   *)
Take ==
  /\ pc = "idle" /\ queued
  /\ queued' = FALSE
  /\ job' = ccr /\ stale' = behind
  /\ \/ /\ Valid(ccr) /\ UNCHANGED doneVars
        /\ pc' = IF HasDNS(ccr) THEN "dns" ELSE "inputs"
     \/ ~Valid(ccr) /\ Finish("InvalidSpec", FALSE)
  /\ UNCHANGED <<apiVars, cacheVars, retrying, next, ctx, texts, disturbances>>

(* resolveDNSSources: DNSSources has the details.                            *)
ResolveDNSSources ==
  /\ pc = "dns"
  /\ \/ pc' = "inputs" /\ UNCHANGED <<doneVars, disturbances>>
     \/ /\ Disturb
        /\ Finish("DNSLookupFailed", TRUE)
  /\ UNCHANGED <<apiVars, cacheVars, queueVars, jobVars, stale>>

(* Mutant of ResolveSource: a source that cannot be resolved is left out.     *)
ResolveIfPossible ==
  /\ pc = "inputs" /\ next <= Len(job.sources)
  /\ LET src == job.sources[next] IN
     \/ \E v \in SourceValues(src, cobj) : ctx' = Bind(ctx, src.name, v)
     \/ SourceValues(src, cobj) = {} /\ ctx' = ctx
  /\ next' = next + 1
  /\ UNCHANGED <<apiVars, cacheVars, queueVars, pc, job, texts, stale, doneVars, disturbances>>

(* Resolve: one source after the other; a later one replaces an earlier one   *)
(* of the same name.                                                         *)
ResolveSource ==
  /\ pc = "inputs" /\ next <= Len(job.sources)
  /\ LET src == job.sources[next] IN
     \/ \E v \in SourceValues(src, cobj) :
          /\ ctx' = Bind(ctx, src.name, v)
          /\ next' = next + 1
          /\ UNCHANGED <<pc, doneVars>>
     \/ /\ SourceValues(src, cobj) = {}
        /\ Finish("SourceResolutionFailed", TRUE)
        /\ UNCHANGED <<ctx, next>>
  /\ UNCHANGED <<apiVars, cacheVars, queueVars, job, texts, stale, disturbances>>

(* loadTemplates: one template after the other.                              *)
LoadTemplate ==
  /\ pc = "inputs" /\ next > Len(job.sources)
  /\ Len(texts) < Len(Entries(job))
  /\ LET t == Entries(job)[Len(texts) + 1].template IN
     \/ \E text \in TemplateTexts(t, cobj) :
          texts' = Append(texts, text) /\ UNCHANGED <<pc, doneVars>>
     \/ /\ TemplateTexts(t, cobj) = {}
        /\ Finish("TemplateLoadFailed", TRUE)
        /\ UNCHANGED texts
  /\ UNCHANGED <<apiVars, cacheVars, queueVars, job, next, ctx, stale, disturbances>>

(* A written output comes back as an event, if it is one that is watched; so  *)
(* does the deletion of an output of another kind.                           *)
WriteOutput(o) ==
  /\ out' = o
  /\ events' = events \cup
       {[kind |-> k, name |-> Output, labelled |-> FALSE] :
          k \in {l \in {out.kind, o.kind} : o # out /\ l \in ObjectKinds}}

(* renderTemplates and the output: a failing call may have written it.        *)
Render ==
  /\ pc = "inputs" /\ next > Len(job.sources)
  /\ Len(texts) = Len(Entries(job))
  /\ LET o == Rendered(job, texts, ctx)
         renders == \A i \in DOMAIN texts : texts[i] \notin Unrenderable IN
     \/ /\ ~renders
        /\ Finish("RenderFailed", FALSE)
        /\ UNCHANGED <<out, events, disturbances>>
     \/ /\ renders /\ WriteOutput(o)
        /\ Finish("RenderSuccess", FALSE)
        /\ UNCHANGED disturbances
     \/ /\ renders /\ Disturb
        /\ WriteOutput(o) \/ UNCHANGED <<out, events>>
        /\ Finish("OutputFailed", TRUE)
  /\ UNCHANGED <<cr, obj, told, ccr, behind, cobj, lag, crEvent, queueVars, jobVars, stale>>

(* Reconcile returns.                                                        *)
Return(err) ==
  /\ pc' = "idle" /\ retrying' = (retrying \/ err)
  /\ next' = 1 /\ ctx' = EmptyContext /\ texts' = <<>>
  /\ verdict' = "Unset" /\ again' = FALSE /\ stale' = FALSE /\ job' = None
  /\ UNCHANGED <<cr, obj, out, ccr, cobj, lag, crEvent, events, queued>>

StoreCondition ==
  /\ told' = verdict
  /\ behind' = (behind \/ verdict # told)

(* Mutants of UpdateStatus: the condition is stored whatever became of the CR, *)
(* and an update that was refused or failed is not tried again.              *)
PatchStatus ==
  /\ pc = "status"
  /\ StoreCondition /\ Return(again) /\ UNCHANGED disturbances

UpdateStatusOnce ==
  /\ pc = "status"
  /\ \/ ~stale /\ StoreCondition /\ Return(again) /\ UNCHANGED disturbances
     \/ stale /\ Return(FALSE) /\ UNCHANGED <<told, behind, disturbances>>
     \/ /\ Disturb
        /\ Return(FALSE) /\ UNCHANGED <<told, behind>>

(* Status().Update: stored, refused because the CR has a newer version, or    *)
(* failed, with or without being stored.                                     *)
UpdateStatus ==
  /\ pc = "status"
  /\ \/ ~stale /\ StoreCondition /\ Return(again) /\ UNCHANGED disturbances
     \/ stale /\ Return(TRUE) /\ UNCHANGED <<told, behind, disturbances>>
     \/ /\ Disturb
        /\ \/ UNCHANGED <<told, behind>>
           \/ ~stale /\ StoreCondition
        /\ Return(TRUE)

(* The operator restarts: the informers list everything, and every CR they    *)
(* list is enqueued.                                                         *)
Restart ==
  /\ Disturb
  /\ ccr' = cr /\ behind' = FALSE /\ cobj' = obj /\ lag' = {}
  /\ crEvent' = FALSE /\ events' = {}
  /\ queued' = TRUE /\ retrying' = FALSE
  /\ pc' = "idle" /\ next' = 1 /\ ctx' = EmptyContext /\ texts' = <<>>
  /\ verdict' = "Unset" /\ again' = FALSE /\ stale' = FALSE /\ job' = None
  /\ UNCHANGED apiVars

-----------------------------------------------------------------------------
(* The operator starts beside a new CR.                                      *)
Init ==
  /\ cr \in FirstSpecs /\ obj \in Starts
  /\ told = "Unset" /\ out = NoOutput
  /\ ccr = cr /\ behind = FALSE /\ cobj = obj /\ lag = {} /\ crEvent = FALSE /\ events = {}
  /\ queued = TRUE /\ retrying = FALSE
  /\ pc = "idle" /\ job = None /\ stale = FALSE
  /\ next = 1 /\ ctx = EmptyContext /\ texts = <<>>
  /\ verdict = "Unset" /\ again = FALSE
  /\ disturbances = 0

Informers == SyncCR \/ \E o \in Objects : SyncObject(o)
Handlers  == HandleCR \/ HandleObject
Worker    == Take \/ ResolveDNSSources \/ ResolveSource \/ LoadTemplate \/ Render
             \/ UpdateStatus
Users     == EditCR \/ \E o \in Edited : EditObject(o)

Next == Informers \/ Handlers \/ Requeue \/ Worker \/ Users \/ Restart

Spec == Init /\ [][Next]_vars

(* The worker, the informers, their handlers and the timers of the workqueue  *)
(* go on; users need not.                                                    *)
FairSpec ==
  /\ Spec
  /\ WF_vars(SyncCR) /\ \A o \in Objects : WF_vars(SyncObject(o))
  /\ WF_vars(HandleCR) /\ WF_vars(HandleObject) /\ WF_vars(Requeue) /\ WF_vars(Worker)

-----------------------------------------------------------------------------
Verdicts == {"Unset", "InvalidSpec", "DNSLookupFailed", "SourceResolutionFailed",
             "TemplateLoadFailed", "RenderFailed", "OutputFailed", "RenderSuccess"}

Flags == {behind, stale, crEvent, queued, retrying, again} \subseteq BOOLEAN

(* How far a reconcile has come with its spec.                                *)
Progress ==
  /\ pc = "idle" <=> job = None
  /\ pc # "idle" =>
       /\ next \in 1 .. Len(job.sources) + 1
       /\ Len(texts) <= Len(Entries(job))
       /\ DOMAIN ctx = {job.sources[i].name : i \in 1 .. next - 1}

TypeOK ==
  /\ cr \in Specs /\ ccr \in Specs /\ job \in Specs \cup {None}
  /\ obj \in [Objects -> Versions] /\ cobj \in [Objects -> Versions] /\ lag \subseteq Objects
  /\ told \in Verdicts /\ verdict \in Verdicts
  /\ Flags
  /\ events \subseteq [kind : ObjectKinds, name : Names \cup {Output}, labelled : BOOLEAN]
  /\ pc \in {"idle", "dns", "inputs", "status"} /\ texts \in Seq(Values) /\ Progress
  /\ disturbances \in 0 .. MaxDisturbances

-----------------------------------------------------------------------------
(* What a spec and the objects it reads call for, read in one go: the first   *)
(* thing that is wrong, or the data rendered from the current values.        *)

IsResolvable(s, view) ==
  \A i \in DOMAIN s.sources : SourceValues(s.sources[i], view) # {}

IsLoadable(s, view) ==
  \A i \in DOMAIN Entries(s) : TemplateTexts(Entries(s)[i].template, view) # {}

IsRenderable(s, view) ==
  \A i \in DOMAIN Entries(s) :
    TemplateTexts(Entries(s)[i].template, view) \cap Unrenderable = {}

RightVerdict(s, view) ==
  IF ~Valid(s) THEN "InvalidSpec"
  ELSE IF ~IsResolvable(s, view) THEN "SourceResolutionFailed"
  ELSE IF ~IsLoadable(s, view) THEN "TemplateLoadFailed"
  ELSE IF ~IsRenderable(s, view) THEN "RenderFailed"
  ELSE "RenderSuccess"

(* c holds what the first n sources resolve to, the last of each name.        *)
IsContext(c, s, n, view) ==
  /\ DOMAIN c = {s.sources[i].name : i \in 1 .. n}
  /\ \A i \in 1 .. n :
       (\A j \in i + 1 .. n : s.sources[j].name # s.sources[i].name) =>
         c[s.sources[i].name] \in SourceValues(s.sources[i], view)

IsRendering(o, s, view) ==
  /\ o.kind = s.kind
  /\ DOMAIN o.data = {Entries(s)[i].key : i \in DOMAIN Entries(s)}
  /\ \A i \in DOMAIN Entries(s) :
       LET d == o.data[Entries(s)[i].key] IN
       /\ d[1] \in TemplateTexts(Entries(s)[i].template, view)
       /\ IsContext(d[2], s, Len(s.sources), view)

(* w is a spec and the objects, t a Ready condition and an output.            *)
RightAnswer(w, t) ==
  /\ t[1] = RightVerdict(w[1], w[2])
  /\ t[1] = "RenderSuccess" => IsRendering(t[2], w[1], w[2])

AtRest ==
  /\ pc = "idle" /\ ~queued /\ ~retrying
  /\ ~behind /\ lag = {} /\ ~crEvent /\ events = {}

(* "The operator re-renders automatically whenever a source changes": an       *)
(* operator with nothing left to do has told the truth about the spec and     *)
(* the objects as they are now, however the watches, their handlers, the      *)
(* reads of a reconcile and the edits of users interleaved.                  *)
RestIsRight == AtRest => RightAnswer(<<cr, obj>>, <<told, out>>)

(* The same as a step-by-step promise: between two rests the operator may say  *)
(* anything, at rest it neither answers anything new nor overlooks a change.  *)
Promise == INSTANCE LevelTriggered
  WITH want <- <<cr, obj>>, told <- <<told, out>>, owed <- ~AtRest, Right <- RightAnswer

Contract == Promise!Spec

-----------------------------------------------------------------------------
(* Why the contract is kept: an inductive strengthening of RestIsRight.       *)

(* Something will make the operator reconcile the CR.                         *)
Woken ==
  queued \/ retrying \/ behind \/ crEvent \/ \E e \in events : Maps(cr, e)

(* What is not on its way to a copy is in it.                                 *)
Copies ==
  /\ \A o \in Objects \ lag : cobj[o] = obj[o]
  /\ ~behind => ccr = cr
  /\ pc # "idle" /\ ~stale => job = cr
  /\ pc = "idle" => next = 1 /\ ctx = EmptyContext /\ texts = <<>>

(* What a reconcile has read so far is what it would read again.             *)
ReadSoFar(s, view) ==
  /\ Valid(s)
  /\ \A i \in 1 .. next - 1 : SourceValues(s.sources[i], view) # {}
  /\ IsContext(ctx, s, next - 1, view)
  /\ \A i \in DOMAIN texts : texts[i] \in TemplateTexts(Entries(s)[i].template, view)

(* As long as nothing will wake the operator, what it has told, or is about    *)
(* to tell, is right by its caches.                                          *)
AnswerInv ==
  ~Woken =>
    /\ pc = "idle" => RightAnswer(<<cr, cobj>>, <<told, out>>)
    /\ pc \in {"dns", "inputs"} /\ ~stale => ReadSoFar(cr, cobj)
    /\ pc = "status" /\ ~stale /\ ~again => RightAnswer(<<cr, cobj>>, <<verdict, out>>)

(* Edits, failing calls and restarts are bounded, so in the end the answer is right,     *)
(* even where the operator goes on retrying what only users can repair.       *)
CatchesUp == <>[]RightAnswer(<<cr, obj>>, <<told, out>>)

(* "Conflict updating status, requeueing": a condition is a verdict on the     *)
(* spec that is stored when it is written, never on one replaced before.      *)
VerdictOnStoredSpec == [][told' # told => job = cr]_vars

(* objectIsOutputOfJinjaTemplate is there "to re-reconcile (and restore) the   *)
(* output when it is deleted or modified externally": an output that is right *)
(* is not replaced by another right one, which would wake the operator again. *)
RightOutputStays ==
  [][out' # out => ~(/\ IsRendering(out, cr, obj) /\ IsRendering(out', cr, obj)
                     /\ cr' = cr /\ obj' = obj)]_vars

=============================================================================
