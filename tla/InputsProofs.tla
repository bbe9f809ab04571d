----------------------------- MODULE InputsProofs -----------------------------
(***************************************************************************)
(* Inputs, for every value of its constants: an operator at rest has told    *)
(* the truth, as the contract of LevelTriggered promises, and conditions are *)
(* verdicts on the stored spec.                                              *)
(***************************************************************************)
EXTENDS Inputs, TLAPS

-----------------------------------------------------------------------------
(* Facts about the operators *)

(* Entries(s) is a list whose templates are templates.                       *)
LEMMA EntriesType ==
  ASSUME NEW s \in Specs
  PROVE  /\ Len(Entries(s)) \in Nat /\ DOMAIN Entries(s) = 1 .. Len(Entries(s))
         /\ \A i \in DOMAIN Entries(s) :
              /\ Entries(s)[i].template \in Templates
              /\ Entries(s)[i].template.from \in TemplateFroms(s)
<1>1. CASE s.keys # <<>>
  BY <1>1, SpecsAssumption DEF Entries, TemplateFroms
<1>2. CASE s.keys = <<>>
  <2> DEFINE e == [key |-> IF s.named THEN "key" ELSE "content", template |-> s.template]
  <2>1. Entries(s) = <<e>>
    BY <1>2 DEF Entries
  <2>2. Len(<<e>>) = 1 /\ DOMAIN <<e>> = 1 .. 1 /\ <<e>>[1] = e
    OBVIOUS
  <2>3. e.template = s.template
    OBVIOUS
  <2> QED
    BY <2>1, <2>2, <2>3, SpecsAssumption DEF TemplateFroms
<1> QED
  BY <1>1, <1>2

(* A template has one text at most, and it is a value.                        *)
LEMMA TextsType ==
  ASSUME NEW t \in Templates, NEW view \in [Objects -> Versions],
         NEW x \in TemplateTexts(t, view)
  PROVE  x \in Values /\ TemplateTexts(t, view) = {x}
<1>1. CASE t.inline # None
  BY <1>1 DEF TemplateTexts, Templates
<1>2. CASE t.inline = None
  <2>1. TemplateTexts(t, view)
          = {view[<<"ConfigMap", n>>].value : n \in {m \in {t.from} : HasKey("ConfigMap", m, view)}}
    BY <1>2 DEF TemplateTexts
  <2>2. PICK n \in {t.from} : HasKey("ConfigMap", n, view) /\ x = view[<<"ConfigMap", n>>].value
    BY <2>1
  <2>3. t.from \in Names
    BY <2>2 DEF HasKey, Templates
  <2>4. <<"ConfigMap", n>> \in Objects
    BY <2>2, <2>3 DEF Objects, ObjectKinds
  <2>5. view[<<"ConfigMap", n>>] \in Versions
    BY <2>4
  <2>6. x \in Values
    BY <2>2, <2>5 DEF Versions, HasKey
  <2> QED
    BY <2>1, <2>2, <2>6
<1> QED
  BY <1>1, <1>2

(* Two views of the objects that differ in o only, where o is not referenced  *)
(* as it was, nor as it is.                                                  *)
Unnoticed(s, o, old, new) ==
  /\ \A p \in Objects \ {o} : old[p] = new[p]
  /\ \A c \in {old[o], new[o]} : c.exists => ~IsReferenced(s, EventOf(o, c))

LEMMA SameSource ==
  ASSUME NEW s \in Specs, NEW i \in DOMAIN s.sources, NEW o \in Objects,
         NEW old \in [Objects -> Versions], NEW new \in [Objects -> Versions],
         Unnoticed(s, o, old, new)
  PROVE  SourceValues(s.sources[i], old) = SourceValues(s.sources[i], new)
<1> DEFINE src  == s.sources[i]
           kind == RefKind(src)
           ref  == src.refs[kind]
<1>1. CASE kind = "DNS"
  BY <1>1 DEF SourceValues
<1>2. CASE kind # "DNS"
  <2>1. kind \in ObjectKinds /\ kind \in DOMAIN src.refs
    BY <1>2 DEF RefKind, ObjectKinds
  <2>2. ref.name \in Names \cup {None}
    BY <2>1, SpecsAssumption
  <2>3. ASSUME kind = o[1], NEW c \in {old[o], new[o]}, c.exists
        PROVE  ~IsSelected(ref, EventOf(o, c))
    BY <2>1, <2>3 DEF Unnoticed, IsReferenced, EventOf
  <2>4. \A n \in Names : <<kind, n>> \in Objects
    BY <2>1 DEF Objects
  <2>5. o = <<o[1], o[2]>>
    BY DEF Objects
  <2>6. \A n \in Names : <<kind, n>> # o => old[<<kind, n>>] = new[<<kind, n>>]
    BY <2>4 DEF Unnoticed
  <2>7. CASE ref.selector = "labels"
    <3>1. \A n \in Names : /\ old[<<kind, n>>].exists /\ old[<<kind, n>>].labelled
                           => old[<<kind, n>>] = new[<<kind, n>>]
      <4> SUFFICES ASSUME NEW n \in Names, old[<<kind, n>>].exists, old[<<kind, n>>].labelled,
                          <<kind, n>> = o
                   PROVE  FALSE
        BY <2>6
      <4> QED
        BY <2>3, <2>5, <2>7 DEF IsSelected, EventOf
    <3>2. \A n \in Names : /\ new[<<kind, n>>].exists /\ new[<<kind, n>>].labelled
                           => old[<<kind, n>>] = new[<<kind, n>>]
      <4> SUFFICES ASSUME NEW n \in Names, new[<<kind, n>>].exists, new[<<kind, n>>].labelled,
                          <<kind, n>> = o
                   PROVE  FALSE
        BY <2>6
      <4> QED
        BY <2>3, <2>5, <2>7 DEF IsSelected, EventOf
    <3>3. {<<n, old[<<kind, n>>].value>> :
              n \in {m \in Names : old[<<kind, m>>].exists /\ old[<<kind, m>>].labelled}}
          = {<<n, new[<<kind, n>>].value>> :
              n \in {m \in Names : new[<<kind, m>>].exists /\ new[<<kind, m>>].labelled}}
      BY <3>1, <3>2
    <3>4. Listings(kind, old) = Listings(kind, new)
      BY <3>3 DEF Listings
    <3> QED
      BY <1>2, <2>7, <3>4 DEF SourceValues
  <2>8. CASE ref.selector # "labels"
    <3>1. HasKey(kind, ref.name, old) <=> HasKey(kind, ref.name, new)
      <4>1. CASE ref.name = None
        BY <4>1 DEF HasKey
      <4>2. CASE ref.name # None /\ <<kind, ref.name>> = o
        BY <2>3, <2>5, <4>2 DEF HasKey, IsSelected, EventOf
      <4>3. CASE ref.name # None /\ <<kind, ref.name>> # o
        BY <2>2, <2>6, <4>3 DEF HasKey
      <4> QED
        BY <4>1, <4>2, <4>3
    <3>2. HasKey(kind, ref.name, old) => old[<<kind, ref.name>>].value = new[<<kind, ref.name>>].value
      <4> SUFFICES ASSUME HasKey(kind, ref.name, old)
                   PROVE  old[<<kind, ref.name>>].value = new[<<kind, ref.name>>].value
        OBVIOUS
      <4>1. <<kind, ref.name>> # o
        BY <2>3, <2>5 DEF HasKey, IsSelected, EventOf
      <4> QED
        BY <2>2, <2>6, <4>1 DEF HasKey
    <3>3. {m \in {ref.name} : ref.key /\ HasKey(kind, m, old)}
          = {m \in {ref.name} : ref.key /\ HasKey(kind, m, new)}
      BY <3>1
    <3>4. {old[<<kind, n>>].value : n \in {m \in {ref.name} : ref.key /\ HasKey(kind, m, old)}}
          = {new[<<kind, n>>].value : n \in {m \in {ref.name} : ref.key /\ HasKey(kind, m, new)}}
      BY <3>1, <3>2
    <3> QED
      BY <1>2, <2>8, <3>4 DEF SourceValues
  <2> QED
    BY <2>7, <2>8
<1> QED
  BY <1>1, <1>2

LEMMA SameTexts ==
  ASSUME NEW s \in Specs, NEW i \in DOMAIN Entries(s), NEW o \in Objects,
         NEW old \in [Objects -> Versions], NEW new \in [Objects -> Versions],
         Unnoticed(s, o, old, new)
  PROVE  TemplateTexts(Entries(s)[i].template, old) = TemplateTexts(Entries(s)[i].template, new)
<1> DEFINE t == Entries(s)[i].template
<1>1. t \in Templates /\ t.from \in TemplateFroms(s)
  BY EntriesType
<1>2. CASE t.inline # None
  BY <1>2 DEF TemplateTexts
<1>3. CASE t.inline = None
  <2>1. t.from \in Names \cup {None}
    BY <1>1 DEF Templates
  <2>2. o = <<o[1], o[2]>>
    BY DEF Objects
  <2>3. ASSUME t.from # None, <<"ConfigMap", t.from>> # o
        PROVE  old[<<"ConfigMap", t.from>>] = new[<<"ConfigMap", t.from>>]
    BY <2>1, <2>3 DEF Unnoticed, Objects, ObjectKinds
  <2>4. ASSUME <<"ConfigMap", t.from>> = o
        PROVE  ~old[o].exists /\ ~new[o].exists
    BY <1>1, <2>2, <2>4 DEF Unnoticed, IsReferenced, EventOf
  <2>5. HasKey("ConfigMap", t.from, old) <=> HasKey("ConfigMap", t.from, new)
    BY <2>3, <2>4 DEF HasKey
  <2>6. HasKey("ConfigMap", t.from, old) =>
          old[<<"ConfigMap", t.from>>].value = new[<<"ConfigMap", t.from>>].value
    BY <2>3, <2>4 DEF HasKey
  <2>7. {old[<<"ConfigMap", n>>].value : n \in {m \in {t.from} : HasKey("ConfigMap", m, old)}}
        = {new[<<"ConfigMap", n>>].value : n \in {m \in {t.from} : HasKey("ConfigMap", m, new)}}
    BY <2>5, <2>6
  <2> QED
    BY <1>3, <2>7 DEF TemplateTexts
<1> QED
  BY <1>2, <1>3

(* What goes unnoticed does not change what is right.                         *)
LEMMA SameAnswer ==
  ASSUME NEW s \in Specs, NEW o \in Objects,
         NEW old \in [Objects -> Versions], NEW new \in [Objects -> Versions],
         Unnoticed(s, o, old, new)
  PROVE  /\ \A r : RightAnswer(<<s, old>>, r) => RightAnswer(<<s, new>>, r)
         /\ next \in 1 .. Len(s.sources) + 1 /\ DOMAIN texts \subseteq DOMAIN Entries(s) =>
              (ReadSoFar(s, old) => ReadSoFar(s, new))
<1>1. \A i \in DOMAIN s.sources :
        SourceValues(s.sources[i], old) = SourceValues(s.sources[i], new)
  BY SameSource
<1>2. \A i \in DOMAIN Entries(s) :
        TemplateTexts(Entries(s)[i].template, old) = TemplateTexts(Entries(s)[i].template, new)
  BY SameTexts
<1>3. IsResolvable(s, old) <=> IsResolvable(s, new)
  BY <1>1 DEF IsResolvable
<1>4. IsLoadable(s, old) <=> IsLoadable(s, new)
  BY <1>2 DEF IsLoadable
<1>5. IsRenderable(s, old) <=> IsRenderable(s, new)
  BY <1>2 DEF IsRenderable
<1>6. RightVerdict(s, old) = RightVerdict(s, new)
  BY <1>3, <1>4, <1>5 DEF RightVerdict
<1>7. Len(s.sources) \in Nat /\ DOMAIN s.sources = 1 .. Len(s.sources)
  BY SpecsAssumption
<1>8. ASSUME NEW c, NEW n \in 0 .. Len(s.sources), IsContext(c, s, n, old)
      PROVE  IsContext(c, s, n, new)
  <2>1. \A i \in 1 .. n : SourceValues(s.sources[i], old) = SourceValues(s.sources[i], new)
    BY <1>1, <1>7
  <2> QED
    BY <1>8, <2>1 DEF IsContext
<1>9. ASSUME NEW p, IsRendering(p, s, old)
      PROVE  IsRendering(p, s, new)
  <2>1. Len(s.sources) \in 0 .. Len(s.sources)
    BY <1>7
  <2> QED
    BY <1>2, <1>8, <1>9, <2>1 DEF IsRendering
<1>10. ASSUME NEW r, RightAnswer(<<s, old>>, r)
       PROVE  RightAnswer(<<s, new>>, r)
  BY <1>6, <1>9, <1>10 DEF RightAnswer
<1>11. ASSUME next \in 1 .. Len(s.sources) + 1, DOMAIN texts \subseteq DOMAIN Entries(s),
              ReadSoFar(s, old)
       PROVE  ReadSoFar(s, new)
  <2>1. next - 1 \in 0 .. Len(s.sources)
    BY <1>7, <1>11
  <2>2. \A i \in 1 .. next - 1 : i \in DOMAIN s.sources
    BY <1>7, <1>11
  <2>3. IsContext(ctx, s, next - 1, new)
    BY <1>8, <1>11, <2>1 DEF ReadSoFar
  <2>4. \A i \in 1 .. next - 1 : SourceValues(s.sources[i], new) # {}
    BY <1>1, <1>11, <2>2 DEF ReadSoFar
  <2>5. \A i \in DOMAIN texts : texts[i] \in TemplateTexts(Entries(s)[i].template, new)
    BY <1>2, <1>11 DEF ReadSoFar
  <2>6. Valid(s)
    BY <1>11 DEF ReadSoFar
  <2> QED
    BY <2>3, <2>4, <2>5, <2>6 DEF ReadSoFar
<1> QED
  BY <1>10, <1>11

(* The keys of a valid spec are different.                                   *)
LEMMA KeysDiffer ==
  ASSUME NEW s \in Specs, Valid(s),
         NEW i \in DOMAIN Entries(s), NEW j \in DOMAIN Entries(s),
         Entries(s)[i].key = Entries(s)[j].key
  PROVE  i = j
<1>1. CASE s.keys # <<>>
  <2>1. Entries(s) = s.keys /\ ValidKeys(s.keys)
    BY <1>1 DEF Entries, Valid
  <2>2. i \in Nat /\ j \in Nat /\ i >= 1 /\ j >= 1
    BY EntriesType
  <2>3. ~(j \in 1 .. i - 1) /\ ~(i \in 1 .. j - 1)
    BY <2>1 DEF ValidKeys
  <2> QED
    BY <2>2, <2>3
<1>2. CASE s.keys = <<>>
  <2>1. DOMAIN Entries(s) = {1}
    BY <1>2 DEF Entries
  <2> QED
    BY <2>1
<1> QED
  BY <1>1, <1>2

(* All read, and rendered, is right.                                         *)
LEMMA RenderedIsRight ==
  ASSUME NEW s \in Specs, NEW view, ReadSoFar(s, view),
         next = Len(s.sources) + 1, DOMAIN texts = DOMAIN Entries(s)
  PROVE  IsRendering(Rendered(s, texts, ctx), s, view)
<1> DEFINE o == Rendered(s, texts, ctx)
           keyOf(k) == CHOOSE i \in DOMAIN texts : Entries(s)[i].key = k
<1>1. next - 1 = Len(s.sources)
  BY SpecsAssumption
<1>2. o.kind = s.kind
  BY DEF Rendered
<1>3. DOMAIN o.data = {Entries(s)[i].key : i \in DOMAIN Entries(s)}
  BY DEF Rendered
<1>4. ASSUME NEW i \in DOMAIN Entries(s)
      PROVE  o.data[Entries(s)[i].key] = <<texts[i], ctx>>
  <2>1. keyOf(Entries(s)[i].key) = i
    <3>1. /\ keyOf(Entries(s)[i].key) \in DOMAIN Entries(s)
          /\ Entries(s)[keyOf(Entries(s)[i].key)].key = Entries(s)[i].key
      OBVIOUS
    <3> QED
      BY <3>1, KeysDiffer DEF ReadSoFar
  <2>2. o.data[Entries(s)[i].key] = <<texts[keyOf(Entries(s)[i].key)], ctx>>
    BY <1>3 DEF Rendered
  <2> QED
    BY <2>1, <2>2
<1>5. \A i \in DOMAIN Entries(s) : texts[i] \in TemplateTexts(Entries(s)[i].template, view)
  BY DEF ReadSoFar
<1>6. IsContext(ctx, s, Len(s.sources), view)
  BY <1>1 DEF ReadSoFar
<1> QED
  BY <1>2, <1>3, <1>4, <1>5, <1>6 DEF IsRendering

(* ... and so is what becomes of it.                                         *)
LEMMA VerdictIsRight ==
  ASSUME NEW s \in Specs, NEW view \in [Objects -> Versions], ReadSoFar(s, view),
         next = Len(s.sources) + 1, DOMAIN texts = DOMAIN Entries(s)
  PROVE  RightVerdict(s, view) = IF \A i \in DOMAIN texts : texts[i] \notin Unrenderable
                                 THEN "RenderSuccess" ELSE "RenderFailed"
<1>1. IsResolvable(s, view)
  BY SpecsAssumption DEF ReadSoFar, IsResolvable
<1>2. \A i \in DOMAIN texts : TemplateTexts(Entries(s)[i].template, view) = {texts[i]}
  BY EntriesType, TextsType DEF ReadSoFar
<1>3. IsLoadable(s, view)
  BY <1>2 DEF IsLoadable
<1>4. IsRenderable(s, view) <=> \A i \in DOMAIN texts : texts[i] \notin Unrenderable
  BY <1>2 DEF IsRenderable
<1> QED
  BY <1>1, <1>3, <1>4 DEF RightVerdict, ReadSoFar

-----------------------------------------------------------------------------
(* Types *)

LEMMA TypeInit == Init => TypeOK
<1> SUFFICES ASSUME Init
             PROVE  TypeOK
  OBVIOUS
<1>1. cr \in Specs /\ obj \in [Objects -> Versions]
  BY InputsAssumption DEF Init
<1>2. Flags /\ Progress
  BY DEF Init, Flags, Progress
<1>3. texts \in Seq(Values)
  BY DEF Init
<1>4. told \in Verdicts /\ verdict \in Verdicts
  BY DEF Init, Verdicts
<1>5. disturbances \in 0 .. MaxDisturbances
  BY InputsAssumption DEF Init
<1> QED
  BY <1>1, <1>2, <1>3, <1>4, <1>5, InputsAssumption DEF Init, TypeOK

LEMMA FlagsNext ==
  ASSUME TypeOK, [Next]_vars
  PROVE  Flags'
<1> USE DEF TypeOK, Flags
<1>1. CASE UNCHANGED vars
  BY <1>1 DEF vars, apiVars, cacheVars, queueVars, doneVars
<1>2. CASE SyncCR
  BY <1>2 DEF SyncCR, queueVars, doneVars
<1>3. CASE \E o \in Objects : SyncObject(o)
  BY <1>3 DEF SyncObject, queueVars, doneVars
<1>4. CASE HandleCR
  BY <1>4 DEF HandleCR, doneVars
<1>5. CASE HandleObject
  BY <1>5 DEF HandleObject, doneVars
<1>6. CASE Requeue
  BY <1>6 DEF Requeue, cacheVars, doneVars
<1>7. CASE Take
  BY <1>7 DEF Take, Finish, cacheVars, doneVars
<1>8. CASE ResolveDNSSources
  BY <1>8 DEF ResolveDNSSources, Finish, cacheVars, queueVars, doneVars
<1>9. CASE ResolveSource
  BY <1>9 DEF ResolveSource, Finish, cacheVars, queueVars, doneVars
<1>10. CASE LoadTemplate
  BY <1>10 DEF LoadTemplate, Finish, cacheVars, queueVars, doneVars
<1>11. CASE Render
  BY <1>11 DEF Render, Finish, queueVars
<1>12. CASE UpdateStatus
  BY <1>12 DEF UpdateStatus, StoreCondition, Return
<1>13. CASE EditCR
  BY <1>13 DEF EditCR, queueVars, doneVars
<1>14. CASE \E o \in Edited : EditObject(o)
  BY <1>14 DEF EditObject, queueVars, doneVars
<1>15. CASE Restart
  BY <1>15 DEF Restart
<1> QED
  BY <1>1, <1>2, <1>3, <1>4, <1>5, <1>6, <1>7, <1>8, <1>9, <1>10, <1>11, <1>12, <1>13, <1>14,
     <1>15 DEF Next, Informers, Handlers, Worker, Users

LEMMA TypeNext == TypeOK /\ Copies /\ [Next]_vars => TypeOK'
<1> SUFFICES ASSUME TypeOK, Copies, [Next]_vars
             PROVE  TypeOK'
  OBVIOUS
<1> USE DEF TypeOK, Verdicts
<1>a. MaxDisturbances \in Nat /\ Edited \subseteq Objects /\ Contents \subseteq Versions
  BY InputsAssumption
<1>b. None \notin Specs /\ \A s \in Specs : Len(s.sources) \in Nat
  BY SpecsAssumption
<1>c. Disturb => disturbances' \in 0 .. MaxDisturbances
  BY <1>a DEF Disturb
<1>d. UNCHANGED <<pc, jobVars>> => Progress'
  BY DEF Progress, jobVars
<1>e. Flags'
  BY FlagsNext
<1>f. <<>> \in Seq(Values)
  OBVIOUS
<1>1. CASE UNCHANGED vars
  BY <1>1, <1>d, <1>e DEF vars, apiVars, cacheVars, queueVars, jobVars, doneVars
<1>2. CASE SyncCR
  BY <1>2, <1>d, <1>e DEF SyncCR, apiVars, queueVars, jobVars, doneVars
<1>3. ASSUME NEW o \in Objects, SyncObject(o)
      PROVE  TypeOK'
  <2>1. cobj' \in [Objects -> Versions]
    BY <1>3 DEF SyncObject
  <2>2. \A c \in Versions :
          EventOf(o, c) \in [kind : ObjectKinds, name : Names \cup {Output}, labelled : BOOLEAN]
    BY DEF EventOf, Objects, Versions
  <2>3. events' \subseteq [kind : ObjectKinds, name : Names \cup {Output}, labelled : BOOLEAN]
    BY <1>3, <2>2 DEF SyncObject
  <2> QED
    BY <1>3, <1>d, <1>e, <2>1, <2>3 DEF SyncObject, apiVars, queueVars, jobVars, doneVars
<1>4. CASE HandleCR
  BY <1>4, <1>d, <1>e DEF HandleCR, apiVars, jobVars, doneVars
<1>5. CASE HandleObject
  <2>1. PICK e \in events : /\ events' = events \ {e}
                            /\ queued' = (queued \/ Maps(ccr, e))
    BY <1>5 DEF HandleObject
  <2> QED
    BY <1>5, <1>d, <1>e, <2>1 DEF HandleObject, apiVars, jobVars, doneVars
<1>6. CASE Requeue
  BY <1>6, <1>d, <1>e DEF Requeue, apiVars, cacheVars, jobVars, doneVars
<1>7. CASE Take
  <2>1. ccr # None /\ ccr \in Specs /\ job' = ccr /\ pc' # "idle"
    BY <1>7, <1>b DEF Take, Finish
  <2>2. next' = 1 /\ ctx' = EmptyContext /\ texts' = <<>>
    BY <1>7 DEF Take, Copies
  <2>3. Progress'
    <3>1. Len(<<>>) = 0 /\ Len(Entries(ccr)) \in Nat /\ Len(ccr.sources) \in Nat
      BY <2>1, <1>b, EntriesType
    <3>2. DOMAIN EmptyContext = {} /\ 1 .. 1 - 1 = {}
      BY DEF EmptyContext
    <3> QED
      BY <2>1, <2>2, <3>1, <3>2 DEF Progress
  <2> QED
    BY <1>7, <1>e, <2>1, <2>2, <2>3 DEF Take, Finish, apiVars, cacheVars, doneVars
<1>8. CASE ResolveDNSSources
  <2>1. Progress'
    BY <1>8 DEF ResolveDNSSources, Finish, Progress, jobVars
  <2> QED
    BY <1>8, <1>c, <1>e, <2>1 DEF ResolveDNSSources, Finish, apiVars, cacheVars, queueVars, jobVars,
       doneVars
<1>9. CASE ResolveSource
  <2>1. job \in Specs /\ Len(job.sources) \in Nat /\ next \in 1 .. Len(job.sources)
    BY <1>9, <1>b DEF ResolveSource, Progress
  <2>2. CASE /\ ctx' = ctx /\ next' = next
             /\ Finish("SourceResolutionFailed", TRUE)
    <3>1. Progress'
      BY <1>9, <2>2 DEF ResolveSource, Finish, Progress
    <3> QED
      BY <1>9, <1>e, <2>2, <3>1 DEF ResolveSource, Finish, apiVars, cacheVars, queueVars
  <2>3. ASSUME NEW v, ctx' = Bind(ctx, job.sources[next].name, v), next' = next + 1,
               UNCHANGED <<pc, doneVars>>
        PROVE  TypeOK'
    <3>1. DOMAIN ctx' = DOMAIN ctx \cup {job.sources[next].name}
      BY <2>3 DEF Bind
    <3>2. 1 .. next' - 1 = (1 .. next - 1) \cup {next}
      BY <2>1, <2>3
    <3>3. DOMAIN ctx = {job.sources[i].name : i \in 1 .. next - 1}
      BY <1>9 DEF ResolveSource, Progress
    <3>4. DOMAIN ctx' = {job.sources[i].name : i \in 1 .. next' - 1}
      BY <3>1, <3>2, <3>3
    <3>5. next' \in 1 .. Len(job.sources) + 1
      BY <2>1, <2>3
    <3>6. Progress'
      BY <1>9, <2>3, <3>4, <3>5 DEF ResolveSource, Progress
    <3> QED
      BY <1>9, <1>e, <2>3, <3>6 DEF ResolveSource, apiVars, cacheVars, queueVars, doneVars
  <2> QED
    BY <1>9, <2>2, <2>3 DEF ResolveSource
<1>10. CASE LoadTemplate
  <2>1. /\ job \in Specs /\ Len(texts) \in Nat /\ Len(Entries(job)) \in Nat
        /\ Len(texts) + 1 \in DOMAIN Entries(job) /\ Len(texts) < Len(Entries(job))
    <3>1. job \in Specs /\ Len(texts) < Len(Entries(job)) /\ Len(texts) \in Nat
      BY <1>10 DEF LoadTemplate, Progress
    <3> QED
      BY <3>1, EntriesType
  <2> DEFINE t == Entries(job)[Len(texts) + 1].template
  <2>2. CASE Finish("TemplateLoadFailed", TRUE) /\ UNCHANGED texts
    <3>1. Progress'
      BY <1>10, <2>2 DEF LoadTemplate, Finish, Progress
    <3> QED
      BY <1>10, <1>e, <2>2, <3>1 DEF LoadTemplate, Finish, apiVars, cacheVars, queueVars
  <2>3. ASSUME NEW text \in TemplateTexts(t, cobj), texts' = Append(texts, text),
               UNCHANGED <<pc, doneVars>>
        PROVE  TypeOK'
    <3>1. text \in Values
      BY <2>1, EntriesType, TextsType
    <3>2. texts' \in Seq(Values) /\ Len(texts') = Len(texts) + 1
      BY <2>3, <3>1
    <3>3. Len(texts') <= Len(Entries(job))
      BY <2>1, <3>2
    <3>4. Progress'
      BY <1>10, <2>3, <3>3 DEF LoadTemplate, Progress
    <3> QED
      BY <1>10, <1>e, <2>3, <3>2, <3>4 DEF LoadTemplate, apiVars, cacheVars, queueVars, doneVars
  <2> QED
    BY <1>10, <2>2, <2>3 DEF LoadTemplate
<1>11. CASE Render
  <2>1. events' \subseteq [kind : ObjectKinds, name : Names \cup {Output}, labelled : BOOLEAN]
    <3>1. \A p : WriteOutput(p) =>
            events' \subseteq
              [kind : ObjectKinds, name : Names \cup {Output}, labelled : BOOLEAN]
      <4> SUFFICES ASSUME NEW p, WriteOutput(p), NEW e \in events'
                   PROVE  e \in [kind : ObjectKinds, name : Names \cup {Output},
                                 labelled : BOOLEAN]
        OBVIOUS
      <4>1. CASE e \in events
        BY <4>1
      <4>2. CASE e \notin events
        <5>1. PICK k \in ObjectKinds : e = [kind |-> k, name |-> Output, labelled |-> FALSE]
          BY <4>2 DEF WriteOutput
        <5> QED
          BY <5>1
      <4> QED
        BY <4>1, <4>2
    <3> QED
      BY <1>11, <3>1 DEF Render
  <2>2. verdict' \in Verdicts /\ pc' = "status" /\ pc # "idle"
    BY <1>11 DEF Render, Finish
  <2>3. disturbances' \in 0 .. MaxDisturbances
    BY <1>11, <1>c DEF Render
  <2> QED
    <3>1. Progress'
      BY <1>11, <2>2 DEF Render, jobVars, Progress
    <3> QED
      BY <1>11, <1>e, <2>1, <2>2, <2>3, <3>1 DEF Render, queueVars, jobVars
<1>12. CASE UpdateStatus
  <2>1. told' \in Verdicts
    BY <1>12 DEF UpdateStatus, StoreCondition, Return
  <2>2. disturbances' \in 0 .. MaxDisturbances
    BY <1>12, <1>c DEF UpdateStatus
  <2>3. \E err : Return(err)
    BY <1>12 DEF UpdateStatus
  <2>4. Progress'
    BY <2>3 DEF Return, Progress
  <2> QED
    BY <1>e, <1>f, <2>1, <2>2, <2>3, <2>4 DEF Return
<1>13. CASE EditCR
  BY <1>13, <1>c, <1>d, <1>e DEF EditCR, queueVars, jobVars, doneVars
<1>14. ASSUME NEW o \in Edited, EditObject(o)
       PROVE  TypeOK'
  <2>1. obj' \in [Objects -> Versions] /\ lag' \subseteq Objects
    BY <1>14, <1>a DEF EditObject
  <2> QED
    BY <1>14, <1>c, <1>d, <1>e, <2>1 DEF EditObject, queueVars, jobVars, doneVars
<1>15. CASE Restart
  <2>1. Progress'
    BY <1>15 DEF Restart, Progress
  <2> QED
    BY <1>15, <1>c, <1>e, <1>f, <2>1 DEF Restart, apiVars
<1> QED
  BY <1>1, <1>2, <1>3, <1>4, <1>5, <1>6, <1>7, <1>8, <1>9, <1>10, <1>11, <1>12, <1>13, <1>14,
     <1>15 DEF Next, Informers, Handlers, Worker, Users

-----------------------------------------------------------------------------
(* The inductive invariant *)

LEMMA CopiesNext ==
  ASSUME TypeOK, Copies, [Next]_vars
  PROVE  Copies'
<1>a. obj \in [Objects -> Versions] /\ cobj \in [Objects -> Versions]
  BY DEF TypeOK
<1>1. CASE UNCHANGED vars
  BY <1>1 DEF Copies, vars, apiVars, cacheVars, jobVars
<1>2. CASE SyncCR
  BY <1>2 DEF Copies, SyncCR, apiVars, jobVars
<1>3. ASSUME NEW o \in Objects, SyncObject(o)
      PROVE  Copies'
  <2>1. \A p \in Objects \ lag' : cobj'[p] = obj'[p]
    BY <1>3, <1>a DEF Copies, SyncObject, apiVars
  <2> QED
    BY <1>3, <2>1 DEF Copies, SyncObject, apiVars, jobVars
<1>4. CASE HandleCR
  BY <1>4 DEF Copies, HandleCR, apiVars, jobVars
<1>5. CASE HandleObject
  BY <1>5 DEF Copies, HandleObject, apiVars, jobVars
<1>6. CASE Requeue
  BY <1>6 DEF Copies, Requeue, apiVars, cacheVars, jobVars
<1>7. CASE Take
  BY <1>7 DEF Copies, Take, Finish, apiVars, cacheVars
<1>8. CASE ResolveDNSSources
  BY <1>8 DEF Copies, ResolveDNSSources, Finish, apiVars, cacheVars, jobVars
<1>9. CASE ResolveSource
  BY <1>9 DEF Copies, ResolveSource, Finish, apiVars, cacheVars
<1>10. CASE LoadTemplate
  BY <1>10 DEF Copies, LoadTemplate, Finish, apiVars, cacheVars
<1>11. CASE Render
  BY <1>11 DEF Copies, Render, Finish, jobVars
<1>12. CASE UpdateStatus
  <2>1. \E err : Return(err)
    BY <1>12 DEF UpdateStatus
  <2>2. ~behind' => ~behind
    BY <1>12 DEF UpdateStatus, StoreCondition
  <2> QED
    BY <2>1, <2>2 DEF Copies, Return
<1>13. CASE EditCR
  BY <1>13 DEF Copies, EditCR, jobVars
<1>14. ASSUME NEW o \in Edited, EditObject(o)
       PROVE  Copies'
  <2>1. \A p \in Objects \ lag' : cobj'[p] = obj'[p]
    BY <1>14, <1>a DEF Copies, EditObject
  <2> QED
    BY <1>14, <2>1 DEF Copies, EditObject, jobVars
<1>15. CASE Restart
  BY <1>15 DEF Copies, Restart, apiVars
<1> QED
  BY <1>1, <1>2, <1>3, <1>4, <1>5, <1>6, <1>7, <1>8, <1>9, <1>10, <1>11, <1>12, <1>13, <1>14,
     <1>15 DEF Next, Informers, Handlers, Worker, Users

(* A step that disturbs nothing AnswerInv speaks of, nor wakes the operator.  *)
LEMMA AnswerStays ==
  ASSUME AnswerInv, ~Woken' => ~Woken,
         UNCHANGED <<cr, told, out, cobj, pc, next, ctx, texts, stale, verdict, again>>
  PROVE  AnswerInv'
<1> SUFFICES ASSUME ~Woken'
             PROVE  /\ pc = "idle" => RightAnswer(<<cr, cobj>>, <<told, out>>)'
                    /\ pc \in {"dns", "inputs"} /\ ~stale => ReadSoFar(cr, cobj)'
                    /\ pc = "status" /\ ~stale /\ ~again =>
                         RightAnswer(<<cr, cobj>>, <<verdict, out>>)'
  BY DEF AnswerInv
<1>1. ReadSoFar(cr, cobj)' <=> ReadSoFar(cr, cobj)
  BY DEF ReadSoFar
<1> QED
  BY <1>1 DEF AnswerInv

(* The cache takes in a change of an object.                                  *)
LEMMA AnswerSyncObject ==
  ASSUME TypeOK, Copies, AnswerInv, NEW o \in Objects, SyncObject(o)
  PROVE  AnswerInv'
<1> SUFFICES ASSUME ~Woken'
             PROVE  /\ pc = "idle" => RightAnswer(<<cr, cobj'>>, <<told, out>>)
                    /\ pc \in {"dns", "inputs"} /\ ~stale => ReadSoFar(cr, cobj')
                    /\ pc = "status" /\ ~stale /\ ~again =>
                         RightAnswer(<<cr, cobj'>>, <<verdict, out>>)
  <2>1. UNCHANGED <<cr, told, out, pc, next, ctx, texts, stale, verdict, again>>
    BY DEF SyncObject, apiVars, jobVars, doneVars
  <2>2. ReadSoFar(cr, cobj)' <=> ReadSoFar(cr, cobj')
    BY <2>1 DEF ReadSoFar
  <2> QED
    BY <2>1, <2>2 DEF AnswerInv
<1>1. /\ cr \in Specs /\ cr' = cr
      /\ obj \in [Objects -> Versions] /\ cobj \in [Objects -> Versions]
      /\ cobj' = [cobj EXCEPT ![o] = obj[o]] /\ cobj' \in [Objects -> Versions]
      /\ events' = events \cup {EventOf(o, c) : c \in {d \in {cobj[o], obj[o]} : d.exists}}
  BY DEF TypeOK, SyncObject, apiVars
<1>2. ~Woken
  BY DEF Woken, SyncObject, apiVars, queueVars
<1>3. Unnoticed(cr, o, cobj, cobj')
  <2>1. \A c \in {cobj[o], obj[o]} : c.exists => ~IsReferenced(cr, EventOf(o, c))
    BY <1>1 DEF Woken, Maps
  <2> QED
    BY <1>1, <2>1 DEF Unnoticed
<1>4. \A r : RightAnswer(<<cr, cobj>>, r) => RightAnswer(<<cr, cobj'>>, r)
  BY <1>1, <1>3, SameAnswer
<1>5. pc # "idle" /\ ~stale =>
        next \in 1 .. Len(cr.sources) + 1 /\ DOMAIN texts \subseteq DOMAIN Entries(cr)
  <2> SUFFICES ASSUME pc # "idle", ~stale
               PROVE  next \in 1 .. Len(cr.sources) + 1 /\ DOMAIN texts \subseteq DOMAIN Entries(cr)
    OBVIOUS
  <2>1. job = cr
    BY DEF Copies
  <2>2. texts \in Seq(Values) /\ Len(texts) <= Len(Entries(cr))
    BY <2>1 DEF TypeOK, Progress
  <2>3. Len(Entries(cr)) \in Nat /\ DOMAIN Entries(cr) = 1 .. Len(Entries(cr))
    BY <1>1, EntriesType
  <2>4. DOMAIN texts \subseteq DOMAIN Entries(cr)
    BY <2>2, <2>3
  <2> QED
    BY <2>1, <2>4 DEF TypeOK, Progress
<1>6. pc \in {"dns", "inputs"} /\ ~stale => ReadSoFar(cr, cobj')
  BY <1>1, <1>2, <1>3, <1>5, SameAnswer DEF AnswerInv
<1> QED
  BY <1>2, <1>4, <1>6 DEF AnswerInv

(* A reconcile takes the spec, and has read nothing yet.                      *)
LEMMA AnswerTake ==
  ASSUME TypeOK, Copies, AnswerInv, Take
  PROVE  AnswerInv'
<1> SUFFICES ASSUME ~Woken'
             PROVE  /\ pc' \in {"dns", "inputs"} => ReadSoFar(cr, cobj)'
                    /\ pc' = "status" => RightAnswer(<<cr, cobj>>, <<verdict, out>>)'
  BY DEF AnswerInv, Take, Finish
<1>1. ccr = cr /\ cr' = cr /\ cobj' = cobj /\ cr \in Specs
  BY DEF TypeOK, Copies, Woken, Take, apiVars, cacheVars
<1>2. CASE Valid(cr)
  <2>1. next' = 1 /\ ctx' = EmptyContext /\ texts' = <<>>
    BY DEF Take, Copies
  <2>2. 1 .. next' - 1 = {} /\ DOMAIN ctx' = {} /\ DOMAIN texts' = {}
    BY <2>1 DEF EmptyContext
  <2>3. IsContext(ctx, cr, next - 1, cobj)'
    BY <2>2 DEF IsContext
  <2>4. ReadSoFar(cr, cobj)'
    BY <1>1, <1>2, <2>2, <2>3 DEF ReadSoFar
  <2>5. pc' # "status"
    BY <1>1, <1>2 DEF Take
  <2> QED
    BY <2>4, <2>5
<1>3. CASE ~Valid(cr)
  <2>1. pc' = "status" /\ verdict' = "InvalidSpec"
    BY <1>1, <1>3 DEF Take, Finish
  <2>2. RightVerdict(cr', cobj') = "InvalidSpec"
    BY <1>1, <1>3 DEF RightVerdict
  <2> QED
    BY <2>1, <2>2 DEF RightAnswer
<1> QED
  BY <1>2, <1>3

(* A source more, that of an earlier one of the same name forgotten.          *)
LEMMA AnswerResolve ==
  ASSUME TypeOK, Copies, AnswerInv, ResolveSource
  PROVE  AnswerInv'
<1> SUFFICES ASSUME ~Woken', ~stale'
             PROVE  /\ pc' = "inputs" => ReadSoFar(cr, cobj)'
                    /\ pc' = "status" => again'
  BY DEF AnswerInv, ResolveSource, Finish
<1>1. UNCHANGED <<cr, cobj, texts, stale>> /\ pc = "inputs"
  BY DEF ResolveSource, apiVars, cacheVars
<1>2. ~Woken
  BY DEF Woken, ResolveSource, apiVars, cacheVars, queueVars
<1>3. job = cr /\ cr \in Specs /\ ReadSoFar(cr, cobj)
  BY <1>1, <1>2 DEF TypeOK, Copies, AnswerInv
<1>4. CASE Finish("SourceResolutionFailed", TRUE)
  BY <1>4 DEF Finish
<1>5. ASSUME NEW v \in SourceValues(cr.sources[next], cobj),
             ctx' = Bind(ctx, cr.sources[next].name, v), next' = next + 1, UNCHANGED <<pc, doneVars>>
      PROVE  ReadSoFar(cr, cobj)' /\ pc' # "status"
  <2>1. next \in 1 .. Len(cr.sources) /\ Len(cr.sources) \in Nat
    BY <1>1, <1>3, SpecsAssumption DEF ResolveSource, TypeOK, Progress
  <2>2. next' - 1 = next /\ 1 .. next = (1 .. next - 1) \cup {next}
    BY <1>5, <2>1
  <2>3. IsContext(ctx, cr, next - 1, cobj)
    BY <1>3 DEF ReadSoFar
  <2>4. IsContext(ctx', cr, next, cobj)
    <3>1. DOMAIN ctx' = {cr.sources[i].name : i \in 1 .. next}
      BY <1>5, <2>2, <2>3 DEF IsContext, Bind
    <3>2. ASSUME NEW i \in 1 .. next,
                 \A j \in i + 1 .. next : cr.sources[j].name # cr.sources[i].name
          PROVE  ctx'[cr.sources[i].name] \in SourceValues(cr.sources[i], cobj)
      <4>1. CASE i = next
        BY <1>5, <4>1 DEF Bind
      <4>2. CASE i # next
        <5>1. i \in 1 .. next - 1 /\ next \in i + 1 .. next
          BY <2>1, <4>2
        <5>2. \A j \in i + 1 .. next - 1 : cr.sources[j].name # cr.sources[i].name
          BY <2>1, <3>2
        <5>3. /\ ctx[cr.sources[i].name] \in SourceValues(cr.sources[i], cobj)
              /\ cr.sources[i].name \in DOMAIN ctx
          BY <2>3, <5>1, <5>2 DEF IsContext
        <5>4. cr.sources[i].name # cr.sources[next].name
          BY <3>2, <5>1
        <5> QED
          BY <1>5, <5>3, <5>4 DEF Bind
      <4> QED
        BY <4>1, <4>2
    <3> QED
      BY <3>1, <3>2 DEF IsContext
  <2>5. \A i \in 1 .. next : SourceValues(cr.sources[i], cobj) # {}
    BY <1>3, <1>5, <2>2 DEF ReadSoFar
  <2>6. /\ Valid(cr)
        /\ \A i \in DOMAIN texts : texts[i] \in TemplateTexts(Entries(cr)[i].template, cobj)
    BY <1>3 DEF ReadSoFar
  <2>7. ReadSoFar(cr, cobj)'
    BY <1>1, <2>2, <2>4, <2>5, <2>6 DEF ReadSoFar
  <2> QED
    BY <1>1, <1>5, <2>7
<1> QED
  BY <1>3, <1>4, <1>5 DEF ResolveSource

(* A template more.                                                          *)
LEMMA AnswerLoad ==
  ASSUME TypeOK, Copies, AnswerInv, LoadTemplate
  PROVE  AnswerInv'
<1> SUFFICES ASSUME ~Woken', ~stale'
             PROVE  /\ pc' = "inputs" => ReadSoFar(cr, cobj)'
                    /\ pc' = "status" => again'
  BY DEF AnswerInv, LoadTemplate, Finish
<1>1. UNCHANGED <<cr, cobj, next, ctx, stale>> /\ pc = "inputs"
  BY DEF LoadTemplate, apiVars, cacheVars
<1>2. ~Woken
  BY DEF Woken, LoadTemplate, apiVars, cacheVars, queueVars
<1>3. job = cr /\ cr \in Specs /\ ReadSoFar(cr, cobj)
  BY <1>1, <1>2 DEF TypeOK, Copies, AnswerInv
<1>4. CASE Finish("TemplateLoadFailed", TRUE)
  BY <1>4 DEF Finish
<1>5. ASSUME NEW text \in TemplateTexts(Entries(cr)[Len(texts) + 1].template, cobj),
             texts' = Append(texts, text), UNCHANGED <<pc, doneVars>>
      PROVE  ReadSoFar(cr, cobj)' /\ pc' # "status"
  <2>1. texts \in Seq(Values) /\ Len(texts) < Len(Entries(cr)) /\ Len(Entries(cr)) \in Nat
        /\ DOMAIN Entries(cr) = 1 .. Len(Entries(cr))
    BY <1>3, EntriesType DEF LoadTemplate, TypeOK
  <2>2. text \in Values
    <3>1. Entries(cr)[Len(texts) + 1].template \in Templates
      BY <1>3, <2>1, EntriesType
    <3> QED
      BY <1>5, <3>1, TextsType DEF TypeOK
  <2>3. /\ DOMAIN texts' = DOMAIN texts \cup {Len(texts) + 1}
        /\ \A i \in DOMAIN texts : texts'[i] = texts[i]
        /\ texts'[Len(texts) + 1] = text
    BY <1>5, <2>1, <2>2
  <2>4. \A i \in DOMAIN texts' : texts'[i] \in TemplateTexts(Entries(cr)[i].template, cobj)
    BY <1>3, <1>5, <2>3 DEF ReadSoFar
  <2>5. /\ Valid(cr) /\ IsContext(ctx, cr, next - 1, cobj)
        /\ \A i \in 1 .. next - 1 : SourceValues(cr.sources[i], cobj) # {}
    BY <1>3 DEF ReadSoFar
  <2>6. ReadSoFar(cr, cobj)'
    BY <1>1, <2>4, <2>5 DEF ReadSoFar
  <2> QED
    BY <1>1, <1>5, <2>6
<1> QED
  BY <1>3, <1>4, <1>5 DEF LoadTemplate

(* All was read: the verdict, and the output if there is one, are right.      *)
LEMMA AnswerRender ==
  ASSUME TypeOK, Copies, AnswerInv, Render
  PROVE  AnswerInv'
<1> SUFFICES ASSUME ~Woken', ~stale', ~again'
             PROVE  RightAnswer(<<cr, cobj>>, <<verdict', out'>>)
  BY DEF AnswerInv, Render, Finish
<1>1. UNCHANGED <<cr, cobj, stale>> /\ pc = "inputs"
  BY DEF Render
<1>2. ~Woken
  <2>1. events \subseteq events'
    BY DEF Render, WriteOutput
  <2> QED
    BY <2>1 DEF Woken, Render, queueVars
<1>3. job = cr /\ cr \in Specs /\ ReadSoFar(cr, cobj) /\ cobj \in [Objects -> Versions]
  BY <1>1, <1>2 DEF TypeOK, Copies, AnswerInv
<1>4. next = Len(cr.sources) + 1 /\ DOMAIN texts = DOMAIN Entries(cr)
  <2>1. next \in 1 .. Len(cr.sources) + 1 /\ next > Len(cr.sources) /\ Len(cr.sources) \in Nat
    BY <1>1, <1>3, SpecsAssumption DEF Render, TypeOK, Progress
  <2>2. texts \in Seq(Values) /\ Len(texts) = Len(Entries(cr))
    BY <1>3 DEF Render, TypeOK
  <2>3. DOMAIN texts = 1 .. Len(texts)
    BY <2>2
  <2>4. DOMAIN texts = DOMAIN Entries(cr)
    BY <1>3, <2>2, <2>3, EntriesType
  <2> QED
    BY <2>1, <2>4
<1>5. RightVerdict(cr, cobj) = IF \A i \in DOMAIN texts : texts[i] \notin Unrenderable
                               THEN "RenderSuccess" ELSE "RenderFailed"
  BY <1>3, <1>4, VerdictIsRight
<1>6. CASE \A i \in DOMAIN texts : texts[i] \notin Unrenderable
  <2>1. out' = Rendered(cr, texts, ctx) /\ verdict' = "RenderSuccess"
    BY <1>3, <1>6 DEF Render, WriteOutput, Finish
  <2>2. IsRendering(out', cr, cobj)
    BY <1>3, <1>4, <2>1, RenderedIsRight
  <2> QED
    BY <1>5, <1>6, <2>1, <2>2 DEF RightAnswer
<1>7. CASE ~\A i \in DOMAIN texts : texts[i] \notin Unrenderable
  <2>1. verdict' = "RenderFailed"
    BY <1>7 DEF Render, Finish
  <2> QED
    BY <1>5, <1>7, <2>1 DEF RightAnswer
<1> QED
  BY <1>6, <1>7

(* The answer is stored, unless something makes the operator go on.           *)
LEMMA AnswerStored ==
  ASSUME TypeOK, AnswerInv, UpdateStatus
  PROVE  AnswerInv'
<1> SUFFICES ASSUME ~Woken'
             PROVE  RightAnswer(<<cr, cobj>>, <<told', out>>)
  <2>1. \E err : Return(err)
    BY DEF UpdateStatus
  <2> QED
    BY <2>1 DEF AnswerInv, Return
<1>1. ~retrying'
  BY DEF Woken
<1>2. ~stale /\ ~again /\ told' = verdict /\ pc = "status" /\ (behind' <=> behind \/ verdict # told)
  BY <1>1 DEF UpdateStatus, Return, StoreCondition
<1>3. UNCHANGED <<cr, events, queued, crEvent>> /\ ~retrying
  BY <1>1 DEF UpdateStatus, Return
<1>4. ~Woken
  BY <1>2, <1>3 DEF Woken
<1> QED
  BY <1>2, <1>4 DEF AnswerInv

LEMMA AnswerNext ==
  ASSUME TypeOK, Copies, AnswerInv, [Next]_vars
  PROVE  AnswerInv'
<1>1. CASE UNCHANGED vars
  <2>1. ~Woken' => ~Woken
    BY <1>1 DEF Woken, vars, apiVars, cacheVars, queueVars
  <2> QED
    BY <1>1, <2>1, AnswerStays DEF vars, apiVars, cacheVars, jobVars, doneVars
<1>2. CASE SyncCR
  BY <1>2 DEF AnswerInv, Woken, SyncCR
<1>3. CASE \E o \in Objects : SyncObject(o)
  BY <1>3, AnswerSyncObject
<1>4. CASE HandleCR
  BY <1>4 DEF AnswerInv, Woken, HandleCR
<1>5. CASE HandleObject
  <2>1. ~Woken' => ~Woken
    BY <1>5 DEF Woken, Copies, HandleObject, apiVars
  <2> QED
    BY <1>5, <2>1, AnswerStays DEF HandleObject, apiVars, jobVars, doneVars
<1>6. CASE Requeue
  BY <1>6 DEF AnswerInv, Woken, Requeue
<1>7. CASE Take
  BY <1>7, AnswerTake
<1>8. CASE ResolveDNSSources
  <2>1. ~Woken' => ~Woken
    BY <1>8 DEF Woken, ResolveDNSSources, apiVars, cacheVars, queueVars
  <2>2. UNCHANGED <<cr, cobj, next, ctx, texts, stale>> /\ pc = "dns"
    BY <1>8 DEF ResolveDNSSources, apiVars, cacheVars, jobVars
  <2>3. pc' = "inputs" \/ (pc' = "status" /\ again' = TRUE)
    <3>1. Finish("DNSLookupFailed", TRUE) => pc' = "status" /\ again' = TRUE
      BY DEF Finish
    <3> QED
      BY <1>8, <3>1 DEF ResolveDNSSources
  <2>4. ReadSoFar(cr, cobj)' <=> ReadSoFar(cr, cobj)
    BY <2>2 DEF ReadSoFar
  <2> QED
    BY <2>1, <2>2, <2>3, <2>4 DEF AnswerInv
<1>9. CASE ResolveSource
  BY <1>9, AnswerResolve
<1>10. CASE LoadTemplate
  BY <1>10, AnswerLoad
<1>11. CASE Render
  BY <1>11, AnswerRender
<1>12. CASE UpdateStatus
  BY <1>12, AnswerStored
<1>13. CASE EditCR
  BY <1>13 DEF AnswerInv, Woken, EditCR
<1>14. CASE \E o \in Edited : EditObject(o)
  <2>1. ~Woken' => ~Woken
    BY <1>14 DEF Woken, EditObject, queueVars
  <2> QED
    BY <1>14, <2>1, AnswerStays DEF EditObject, jobVars, doneVars
<1>15. CASE Restart
  BY <1>15 DEF AnswerInv, Woken, Restart
<1> QED
  BY <1>1, <1>2, <1>3, <1>4, <1>5, <1>6, <1>7, <1>8, <1>9, <1>10, <1>11, <1>12, <1>13, <1>14,
     <1>15 DEF Next, Informers, Handlers, Worker, Users

-----------------------------------------------------------------------------
(* Theorems *)

Inv == TypeOK /\ Copies /\ AnswerInv

(* Every reachable state has the types of TypeOK, its caches differ from what *)
(* is stored only where a change is on its way, and what the operator has     *)
(* told is right by its caches unless something will wake it.                 *)
THEOREM Invariant == Spec => []Inv
<1>1. Init => Inv
  <2>1. Init => Copies
    BY DEF Init, Copies
  <2>2. Init => AnswerInv
    BY DEF Init, AnswerInv, Woken
  <2> QED
    BY <2>1, <2>2, TypeInit DEF Inv
<1>2. Inv /\ [Next]_vars => Inv'
  BY TypeNext, CopiesNext, AnswerNext DEF Inv
<1> QED
  BY <1>1, <1>2, PTL DEF Spec

THEOREM TypeCorrect == Spec => []TypeOK
<1>1. Inv => TypeOK
  BY DEF Inv
<1> QED
  BY <1>1, Invariant, PTL

LEMMA InvAtRest == Inv => RestIsRight
<1> SUFFICES ASSUME Inv, AtRest
             PROVE  RightAnswer(<<cr, obj>>, <<told, out>>)
  BY DEF RestIsRight
<1>1. ~Woken /\ pc = "idle" /\ lag = {}
  BY DEF AtRest, Woken
<1>2. cobj = obj
  BY <1>1 DEF Inv, TypeOK, Copies
<1> QED
  BY <1>1, <1>2 DEF Inv, AnswerInv

(* However edits, events, cache updates, reads, failures and restarts         *)
(* interleave: an operator with nothing left to do has told the truth about   *)
(* the spec and the objects as they are now.                                  *)
THEOREM RestRight == Spec => []RestIsRight
<1> QED
  BY InvAtRest, Invariant, PTL

(* A condition is only stored as a verdict on the spec that is stored then.   *)
THEOREM VerdictOnStored == Spec => VerdictOnStoredSpec
<1>1. Inv /\ [Next]_vars => [told' # told => job = cr]_vars
  <2> SUFFICES ASSUME Inv, Next, told' # told
               PROVE  job = cr
    OBVIOUS
  <2>1. UpdateStatus
    BY DEF Next, Informers, Handlers, Worker, Users, SyncCR, SyncObject, HandleCR, HandleObject,
           Requeue, Take, ResolveDNSSources, ResolveSource, LoadTemplate, Render, EditCR,
           EditObject, Restart, apiVars
  <2>2. pc = "status" /\ ~stale
    BY <2>1 DEF UpdateStatus, StoreCondition
  <2> QED
    BY <2>2 DEF Inv, Copies
<1> QED
  BY <1>1, Invariant, PTL DEF Spec, VerdictOnStoredSpec

(* The contract: the operator rests only with the right answer, and leaves it *)
(* alone until something changes.                                            *)
THEOREM ContractKept == Spec => Contract
<1>1. Init => Promise!Init
  BY DEF Init, Promise!Init, AtRest
<1>2. Inv /\ Inv' /\ [Next]_vars => [Promise!Next]_<<<<cr, obj>>, <<told, out>>, ~AtRest>>
  <2> SUFFICES ASSUME Inv, Inv', [Next]_vars
               PROVE  \/ Promise!Next
                      \/ UNCHANGED <<cr, obj, told, out>> /\ AtRest' = AtRest
    BY DEF Promise!Next
  <2>1. CASE UNCHANGED vars
    BY <2>1 DEF vars, apiVars, cacheVars, queueVars, AtRest
  <2>2. CASE EditCR \/ \E o \in Edited : EditObject(o)
    <3>1. behind' = TRUE \/ lag' # {}
      BY <2>2 DEF EditCR, EditObject
    <3>2. ~AtRest' /\ UNCHANGED <<told, out>>
      BY <2>2, <3>1 DEF EditCR, EditObject, AtRest
    <3> QED
      BY <3>2 DEF Promise!Next, Promise!Change
  <2>3. CASE UNCHANGED <<cr, obj>> /\ ~AtRest
    <3>1. CASE AtRest'
      <4>1. RightAnswer(<<cr, obj>>', <<told, out>>')
        <5>1. RestIsRight'
          BY InvAtRest, PTL
        <5> QED
          BY <3>1, <5>1 DEF RestIsRight
      <4> QED
        BY <2>3, <3>1, <4>1 DEF Promise!Next, Promise!Rest
    <3>2. CASE ~AtRest'
      BY <2>3, <3>2 DEF Promise!Next, Promise!Attempt
    <3> QED
      BY <3>1, <3>2
  <2>4. CASE Restart
    <3>1. ~AtRest' /\ UNCHANGED <<told, out>>
      BY <2>4 DEF Restart, AtRest, apiVars
    <3> QED
      BY <3>1 DEF Promise!Next, Promise!Change
  <2>5. Next => UNCHANGED <<cr, obj>> \/ EditCR \/ \E o \in Edited : EditObject(o)
    BY DEF Next, Informers, Handlers, Worker, Users, SyncCR, SyncObject, HandleCR, HandleObject,
           Requeue, Take, ResolveDNSSources, ResolveSource, LoadTemplate, Render, UpdateStatus,
           Return, Restart, apiVars
  <2>6. Next /\ AtRest => Restart \/ EditCR \/ \E o \in Edited : EditObject(o)
    BY DEF Next, Informers, Handlers, Worker, Users, SyncCR, SyncObject, HandleCR, HandleObject,
           Requeue, Take, ResolveDNSSources, ResolveSource, LoadTemplate, Render, UpdateStatus,
           AtRest
  <2> QED
    BY <2>1, <2>2, <2>3, <2>4, <2>5, <2>6
<1> QED
  BY <1>1, <1>2, Invariant, PTL DEF Spec, Contract, Promise!Spec, Promise!vars

=============================================================================
