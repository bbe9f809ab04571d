-------------------------- MODULE DNSSourcesProofs --------------------------
(***************************************************************************)
(* Theorems about DNSSources, for any number of sources and addresses, any   *)
(* intervals and grace periods, and however long the operator runs.          *)
(***************************************************************************)
EXTENDS DNSSources, WellFoundedInduction, TLAPS

-----------------------------------------------------------------------------
(* The pure parts *)

(* A set of numbers that is not empty has a least one.                       *)
LEMMA LeastNat ==
  ASSUME NEW T \in SUBSET Nat, T # {}
  PROVE  \E t \in T : \A u \in T : t <= u
<1>1. PICK t \in T : \A u \in T : ~(<<u, t>> \in OpToRel(<, Nat))
  BY NatLessThanWellFounded, WFMin, Zenon
<1>2. \A u \in T : ~(u < t)
  BY <1>1, Zenon DEF OpToRel
<1> QED BY <1>2

(* SourceFrom finds the first source from k on.                              *)
LEMMA SourceFromFirst ==
  ASSUME NEW cr, NEW k \in 1 .. N + 1
  PROVE  /\ SourceFrom(cr, k) \in k .. N + 1
         /\ SourceFrom(cr, k) \in cr.sources \/ SourceFrom(cr, k) = N + 1
         /\ \A j \in k .. SourceFrom(cr, k) - 1 : j \notin cr.sources
<1> DEFINE T == {i \in k .. N + 1 : i \in cr.sources \/ i = N + 1}
<1>1. N + 1 \in T /\ T \in SUBSET Nat
  BY DNSAssumption
<1>2. PICK i \in T : \A j \in T : i <= j
  BY <1>1, LeastNat
<1>3. \A j \in k .. i - 1 : j \notin cr.sources
  BY <1>1, <1>2, DNSAssumption
<1>4. \E j \in k .. N + 1 : /\ j \in cr.sources \/ j = N + 1
                            /\ \A l \in k .. j - 1 : l \notin cr.sources
  BY <1>2, <1>3
<1> QED BY <1>4 DEF SourceFrom

(* Merging keeps the records well-formed.                                    *)
LEMMA MergeType ==
  ASSUME now \in Times, NEW old \in [IPs -> Times \cup {None}], NEW ips \in SUBSET IPs, NEW g \in Nat
  PROVE  MergeDNSRecords(old, ips, g) \in [IPs -> Times \cup {None}]
  BY DEF MergeDNSRecords

(* The next expiry is a time to wait.                                        *)
LEMMA NextExpiryType ==
  ASSUME now \in Times, NEW old \in [IPs -> Times \cup {None}], NEW ips \in SUBSET IPs, NEW g \in Nat
  PROVE  NextExpiry(old, ips, g) \in Nat
<1> DEFINE left == {Expiry(old, v, g) - now : v \in Held(old, ips, g)}
<1>1. left \in SUBSET Nat
  BY DNSAssumption DEF Held, Expiry, Times
<1>2. left # {} => \E d \in left : \A e \in left : d <= e
  BY <1>1, LeastNat
<1> QED BY <1>1, <1>2 DEF NextExpiry

(* So are the intervals, which are never zero.                               *)
LEMMA Intervals ==
  ASSUME NEW i \in Sources, NEW ttl \in TTLs
  PROVE  RefreshInterval(i, ttl) \in Nat \ {0}
  BY DNSAssumption DEF RefreshInterval

LEMMA RetryIntervalType ==
  ASSUME NEW i \in Sources
  PROVE  DNSRetryInterval(i) \in Nat \ {0}
  BY DNSAssumption DEF DNSRetryInterval

LEMMA MinNonZeroType ==
  ASSUME NEW a \in Nat, NEW b \in Nat
  PROVE  /\ MinNonZero(a, b) \in Nat
         /\ a > 0 \/ b > 0 => MinNonZero(a, b) > 0
  BY DEF MinNonZero

LEMMA SoonestType ==
  ASSUME due \in Nat \cup {None}, NEW t \in Nat
  PROVE  Soonest(t) \in Nat /\ Soonest(t) # None
  BY DNSAssumption DEF Soonest

-----------------------------------------------------------------------------
(* Type correctness *)

LEMMA StatusTypes ==
  /\ NoStatus \in SourceStatuses /\ NoStatuses \in [Sources -> SourceStatuses]
  /\ \A x \in Reasons : Because(x) \in Conditions
  BY DEF NoStatus, NoStatuses, SourceStatuses, Because, Conditions

LEMMA InitTypeOK == Init => TypeOK
<1> SUFFICES ASSUME Init PROVE TypeOK
  OBVIOUS
<1>1. stored \in CRRecords /\ ready \in Conditions
  BY StatusTypes DEF Init, CRRecords, Reasons
<1>2. 0 \in Times /\ 1 \in 1 .. N + 1 /\ 0 \in 0 .. LoopLength /\ 0 \in Nat
  BY DNSAssumption DEF Times, LoopLength
<1>3. zone \in [Sources -> LookupResults \cup {Failure}]
  BY DEF Init, Answers
<1> QED BY <1>1, <1>2, <1>3, StatusTypes DEF Init, TypeOK

(* A source has been looked up.                                              *)
LEMMA LookedUpType ==
  ASSUME TypeOK, pc = "lookup", NEW s \in SourceStatuses, NEW d \in Nat, LookedUp(s, d)
  PROVE  /\ fresh' \in [Sources -> SourceStatuses] /\ requeue' \in Nat
         /\ next' \in 1 .. N + 1 /\ (pc' = "lookup" => next' \in Sources)
         /\ pc' \in {"lookup", "render"} /\ UNCHANGED <<retry, ready>>
<1>1. next + 1 \in 1 .. N + 1
  BY DNSAssumption DEF TypeOK, Sources
<1>2. next' \in next + 1 .. N + 1
  BY <1>1, SourceFromFirst DEF LookedUp
<1>3. pc' = "lookup" => next' # N + 1
  BY DEF LookedUp
<1>4. fresh' \in [Sources -> SourceStatuses]
  BY DEF LookedUp, TypeOK
<1>5. requeue' \in Nat
  BY MinNonZeroType DEF LookedUp, TypeOK
<1>6. pc' \in {"lookup", "render"} /\ UNCHANGED <<retry, ready>>
  BY DEF LookedUp
<1> QED BY <1>1, <1>2, <1>3, <1>4, <1>5, <1>6, DNSAssumption DEF Sources, TypeOK

LEMMA StartType ==
  ASSUME TypeOK, Start
  PROVE  TypeOK'
<1>1. next' \in 1 .. N + 1 /\ (cache.sources # {} => next' \in Sources)
  <2>1. 1 \in 1 .. N + 1
    BY DNSAssumption
  <2>2. /\ next' \in 1 .. N + 1
        /\ next' \in cache.sources \/ next' = N + 1
        /\ \A j \in 1 .. next' - 1 : j \notin cache.sources
    BY <2>1, SourceFromFirst DEF Start
  <2>3. cache.sources \subseteq Sources
    BY DEF TypeOK, CRRecords
  <2>4. next' = N + 1 => cache.sources = {}
    BY <2>2, <2>3, DNSAssumption DEF Sources
  <2> QED BY <2>2, <2>3, <2>4 DEF Sources
<1>2. burst' \in 0 .. LoopLength
  BY DEF Start, CountBurst, TypeOK, LoopLength
<1>3. cache.ready \in Conditions
  BY DEF TypeOK, CRRecords
<1> QED BY <1>1, <1>2, <1>3, StatusTypes DEF Start, TypeOK

(* What the worker has at hand when a lookup is answered.                     *)
LEMMA AnswerTypes ==
  ASSUME TypeOK, pc = "lookup"
  PROVE  LET old == base.dns[next].lastSeen
             ips == zone[next].ips IN
         /\ next \in Sources /\ now \in Times
         /\ old \in [IPs -> Times \cup {None}] /\ ips \in SUBSET IPs /\ Grace[next] \in Nat
         /\ \A ttl \in TTLs :
              MinNonZero(RefreshInterval(next, ttl), NextExpiry(old, ips, Grace[next]))
                \in Nat \ {0}
<1> DEFINE old == base.dns[next].lastSeen
           ips == zone[next].ips
           e   == NextExpiry(old, ips, Grace[next])
<1>1. next \in Sources /\ now \in Times /\ Grace[next] \in Nat
  BY DNSAssumption DEF TypeOK
<1>2. old \in [IPs -> Times \cup {None}]
  <2>1. base.dns[next] \in SourceStatuses
    BY <1>1 DEF TypeOK, CRRecords
  <2> QED BY <2>1 DEF SourceStatuses
<1>3. ips \in SUBSET IPs
  <2>1. zone[next] \in LookupResults \cup {Failure}
    BY <1>1 DEF TypeOK
  <2>2. CASE zone[next] \in LookupResults
    BY <2>2 DEF LookupResults
  <2>3. CASE zone[next] = Failure
    BY <2>3 DEF Failure
  <2> QED BY <2>1, <2>2, <2>3
<1>4. \A ttl \in TTLs : RefreshInterval(next, ttl) \in Nat \ {0}
  BY <1>1, Intervals
<1>5. e \in Nat
  BY <1>1, <1>2, <1>3, NextExpiryType
<1>6. ASSUME NEW ttl \in TTLs
      PROVE  MinNonZero(RefreshInterval(next, ttl), e) \in Nat \ {0}
  <2> DEFINE d == RefreshInterval(next, ttl)
  <2>1. d \in Nat /\ d > 0
    BY <1>4
  <2> HIDE DEF d, e
  <2>2. MinNonZero(d, e) \in Nat /\ MinNonZero(d, e) > 0
    BY <1>5, <2>1, MinNonZeroType
  <2> QED BY <2>2 DEF d
<1> QED BY <1>1, <1>2, <1>3, <1>6

LEMMA LookupAnsweredType ==
  ASSUME TypeOK, LookupAnswered
  PROVE  TypeOK'
<1> DEFINE old      == base.dns[next].lastSeen
           ips      == zone[next].ips
           lastSeen == MergeDNSRecords(old, ips, Grace[next])
           status   == [lastSeen |-> lastSeen, success |-> now, error |-> None]
           interval(ttl) == MinNonZero(RefreshInterval(next, ttl),
                                       NextExpiry(old, ips, Grace[next]))
<1>1. /\ pc = "lookup" /\ next \in Sources /\ now \in Times
      /\ old \in [IPs -> Times \cup {None}] /\ ips \in SUBSET IPs /\ Grace[next] \in Nat
      /\ \A ttl \in TTLs : interval(ttl) \in Nat
  BY AnswerTypes DEF LookupAnswered
<1>2. status \in SourceStatuses
  BY <1>1, MergeType DEF SourceStatuses
<1>4. PICK ttl \in TTLs : LookedUp(status, interval(ttl))
  BY DEF LookupAnswered
<1>5. seen' \in [Sources -> [IPs -> Times \cup {None}]]
  <2>1. [v \in IPs |-> IF v \in ips THEN now ELSE seen[next][v]] \in [IPs -> Times \cup {None}]
    BY <1>1 DEF TypeOK
  <2> QED BY <1>1, <2>1 DEF LookupAnswered, TypeOK
<1>6. known' \in [Sources -> SUBSET IPs]
  BY <1>1 DEF LookupAnswered, TypeOK, RecordValues
<1>7. UNCHANGED <<clock, zone, stored, cache, due, now, base, output, burst>>
  BY DEF LookupAnswered
<1>8. /\ fresh' \in [Sources -> SourceStatuses] /\ requeue' \in Nat
      /\ next' \in 1 .. N + 1 /\ (pc' = "lookup" => next' \in Sources)
      /\ pc' \in {"lookup", "render"} /\ UNCHANGED <<retry, ready>>
  BY <1>1, <1>2, <1>4, LookedUpType
<1> QED BY <1>5, <1>6, <1>7, <1>8 DEF TypeOK

LEMMA LookupFailedType ==
  ASSUME TypeOK, LookupFailed
  PROVE  TypeOK'
<1>1. /\ pc = "lookup" /\ next \in Sources /\ base.dns[next] \in SourceStatuses
      /\ UNCHANGED <<clock, zone, stored, cache, due, now, base, output, seen, known>>
      /\ burst' \in 0 .. LoopLength
  BY DEF LookupFailed, TypeOK, CRRecords, LoopLength
<1>2. ASSUME NEW e \in Texts, LookedUp([base.dns[next] EXCEPT !.error = e], DNSRetryInterval(next))
      PROVE  TypeOK'
  <2>1. [base.dns[next] EXCEPT !.error = e] \in SourceStatuses
    BY <1>1 DEF SourceStatuses
  <2>2. DNSRetryInterval(next) \in Nat
    BY <1>1, RetryIntervalType
  <2>3. /\ fresh' \in [Sources -> SourceStatuses] /\ requeue' \in Nat
        /\ next' \in 1 .. N + 1 /\ (pc' = "lookup" => next' \in Sources)
        /\ pc' \in {"lookup", "render"} /\ UNCHANGED <<retry, ready>>
    BY <1>1, <1>2, <2>1, <2>2, LookedUpType
  <2> QED BY <1>1, <2>3 DEF TypeOK
<1>3. ASSUME NEW e \in Texts, fresh' = base.dns, requeue' = 0, retry' = TRUE, pc' = "status",
             ready' = [reason |-> "DNSLookupFailed", message |-> e], UNCHANGED next
      PROVE  TypeOK'
  BY <1>1, <1>3 DEF TypeOK, CRRecords, Conditions, Reasons
<1> QED BY <1>2, <1>3 DEF LookupFailed

LEMMA DeliverType ==
  ASSUME TypeOK, Deliver
  PROVE  TypeOK'
<1>1. \A x \in {"RenderSuccess", "RenderFailed", "SourceResolutionFailed"} :
        Because(x) \in Conditions
  BY StatusTypes DEF Reasons
<1>2. [i \in Sources |-> RecordValues(fresh[i])] \in [Sources -> SUBSET IPs]
  BY DEF RecordValues
<1>3. StatusesInReply \in [Sources -> SourceStatuses]
  BY DEF StatusesInReply, TypeOK, CRRecords
<1>4. /\ ready' \in Conditions /\ requeue' \in Nat /\ retry' \in BOOLEAN
      /\ output' \in [Sources -> SUBSET IPs] /\ fresh' \in [Sources -> SourceStatuses]
      /\ burst' \in 0 .. LoopLength
  <2>1. ready' \in Conditions
    BY <1>1 DEF Deliver, TypeOK
  <2>5. retry' \in BOOLEAN
    BY Zenon DEF Deliver, TypeOK
  <2>6. burst' \in 0 .. LoopLength
    BY DEF Deliver, TypeOK, LoopLength
  <2>2. requeue' \in Nat
    BY DNSAssumption DEF Deliver, TypeOK
  <2>3. output' \in [Sources -> SUBSET IPs]
    BY <1>2 DEF Deliver, TypeOK
  <2>4. fresh' \in [Sources -> SourceStatuses]
    BY <1>3 DEF Deliver, TypeOK
  <2> QED BY <2>1, <2>2, <2>3, <2>4, <2>5, <2>6
<1>5. /\ UNCHANGED <<clock, zone, stored, cache, due, next, now, base, seen, known>>
      /\ pc' = "status"
  BY DEF Deliver
<1> QED BY <1>4, <1>5 DEF TypeOK

LEMMA UpdateStatusType ==
  ASSUME TypeOK, UpdateStatus
  PROVE  TypeOK'
<1>1. /\ clock + Backoff \in Nat /\ clock + requeue \in Nat /\ clock \in Nat
  BY DNSAssumption DEF TypeOK, Times
<1>2. due' \in Nat \cup {None}
  BY <1>1, SoonestType DEF UpdateStatus, TypeOK
<1>3. stored' \in CRRecords
  BY DEF UpdateStatus, TypeOK, CRRecords
<1>4. burst' \in 0 .. LoopLength
  BY DEF UpdateStatus, TypeOK, LoopLength
<1> QED BY <1>2, <1>3, <1>4 DEF UpdateStatus, TypeOK

(* The informer, the clock, the zones, users, and the operator's process.     *)
LEMMA OthersType ==
  ASSUME TypeOK,
         \/ SyncStatus \/ Tick \/ OutsideEvent \/ Restart
         \/ \E i \in Sources, a \in Answers : ChangeZone(i, a)
         \/ \E S \in SUBSET Sources : EditSources(S)
  PROVE  TypeOK'
<1>1. clock \in Nat /\ 0 \in Times /\ 0 \in 0 .. LoopLength /\ 1 \in 1 .. N + 1
  BY DNSAssumption DEF TypeOK, Times, LoopLength
<1>2. SyncStatus \/ OutsideEvent => TypeOK'
  BY <1>1, SoonestType DEF SyncStatus, OutsideEvent, TypeOK, workerVars, historyVars
<1>3. Tick => TypeOK'
  <2> SUFFICES ASSUME Tick PROVE TypeOK'
    OBVIOUS
  <2>1. clock' \in Times /\ burst' \in 0 .. LoopLength
    BY <1>1, DNSAssumption DEF Tick, TypeOK, Times
  <2> QED BY <2>1 DEF Tick, TypeOK, workerVars
<1>4. Restart => TypeOK'
  <2> SUFFICES ASSUME Restart PROVE TypeOK'
    OBVIOUS
  <2>1. /\ stored' \in CRRecords /\ cache' \in CRRecords /\ base' \in CRRecords
        /\ ready' \in Conditions
    BY DEF Restart, TypeOK, CRRecords
  <2>2. fresh' \in [Sources -> SourceStatuses]
    BY StatusTypes DEF Restart
  <2>3. /\ pc' = "idle" /\ next' = 1 /\ now' = 0 /\ requeue' = 0 /\ retry' = FALSE
        /\ burst' = 0 /\ due' = clock
        /\ UNCHANGED <<clock, zone, output, seen, known>>
    BY DEF Restart
  <2> QED BY <1>1, <2>1, <2>2, <2>3 DEF TypeOK
<1>5. ASSUME NEW i \in Sources, NEW a \in Answers, ChangeZone(i, a) PROVE TypeOK'
  <2>1. a \in LookupResults \cup {Failure}
    BY DEF Answers
  <2> QED BY <1>1, <1>5, <2>1 DEF ChangeZone, TypeOK, workerVars
<1>6. ASSUME NEW S \in SUBSET Sources, EditSources(S) PROVE TypeOK'
  <2>1. stored' \in CRRecords
    BY <1>6 DEF EditSources, TypeOK, CRRecords
  <2> QED BY <1>1, <1>6, <2>1 DEF EditSources, TypeOK, workerVars
<1> QED BY <1>2, <1>3, <1>4, <1>5, <1>6

LEMMA NextTypeOK ==
  ASSUME TypeOK, [Next]_vars
  PROVE  TypeOK'
<1>1. UNCHANGED vars => TypeOK'
  BY DEF vars, workerVars, historyVars, TypeOK
<1> QED BY <1>1, StartType, LookupAnsweredType, LookupFailedType, DeliverType, UpdateStatusType,
           OthersType DEF Next

(* The state always has the shape TypeOK says: in particular the worker never *)
(* looks up a source the CR cannot have.                                     *)
THEOREM TypeCorrect == Spec => []TypeOK
  BY InitTypeOK, NextTypeOK, PTL DEF Spec

-----------------------------------------------------------------------------
(* No lookup is forgotten *)

LEMMA InitSchedule == Init => ScheduleInv
  BY DNSAssumption DEF Init, ScheduleInv

(* The intervals are never zero, so a reconcile that has looked up a source   *)
(* has one.                                                                 *)
LEMMA LookupSchedule ==
  ASSUME TypeOK, ScheduleInv, LookupAnswered \/ LookupFailed
  PROVE  ScheduleInv'
<1>1. /\ pc = "lookup" /\ next \in Sources /\ requeue \in Nat
      /\ UNCHANGED <<stored, cache, due, base>>
  BY DEF LookupAnswered, LookupFailed, TypeOK
<1>2. ASSUME NEW s, NEW d \in Nat \ {0}, LookedUp(s, d)
      PROVE  ScheduleInv'
  <2>1. requeue' > 0 /\ pc' \in {"lookup", "render"}
    BY <1>1, <1>2, MinNonZeroType DEF LookedUp
  <2> QED BY <1>1, <2>1 DEF ScheduleInv
<1>3. CASE LookupAnswered
  <2> DEFINE old == base.dns[next].lastSeen
             ips == zone[next].ips
             d(ttl) == MinNonZero(RefreshInterval(next, ttl), NextExpiry(old, ips, Grace[next]))
  <2>2. \A ttl \in TTLs : d(ttl) \in Nat \ {0}
    BY <1>1, AnswerTypes
  <2>3. \E ttl \in TTLs : \E s : LookedUp(s, d(ttl))
    BY <1>3 DEF LookupAnswered
  <2> QED BY <1>2, <2>2, <2>3
<1>4. CASE LookupFailed
  <2>1. DNSRetryInterval(next) \in Nat \ {0}
    BY <1>1, RetryIntervalType
  <2>2. CASE \E s : LookedUp(s, DNSRetryInterval(next))
    BY <1>2, <2>1, <2>2
  <2>3. CASE retry' = TRUE /\ pc' = "status"
    BY <1>1, <2>3 DEF ScheduleInv
  <2> QED BY <1>4, <2>2, <2>3 DEF LookupFailed
<1> QED BY <1>3, <1>4

LEMMA NextSchedule ==
  ASSUME TypeOK, ScheduleInv, [Next]_vars
  PROVE  ScheduleInv'
<1>1. CASE Start
  BY <1>1 DEF Start, ScheduleInv
<1>2. CASE LookupAnswered \/ LookupFailed
  BY <1>2, LookupSchedule
<1>3. CASE Deliver
  <2>1. /\ pc = "render" /\ pc' = "status" /\ requeue \in Nat
        /\ UNCHANGED <<stored, cache, due, base>>
    BY <1>3 DEF Deliver, TypeOK
  <2>2. \/ requeue' = IF requeue \in 1 .. MinRequeue - 1 THEN MinRequeue ELSE requeue
        \/ retry' = TRUE
        \/ ready' = Because("RenderFailed")
    BY <1>3 DEF Deliver
  <2> QED BY <2>1, <2>2, DNSAssumption DEF ScheduleInv, Because
<1>4. CASE UpdateStatus
  <2>1. /\ clock + Backoff \in Nat /\ clock + requeue \in Nat /\ clock \in Nat
        /\ due \in Nat \cup {None} /\ requeue \in Nat
    BY DNSAssumption DEF TypeOK, Times
  <2>2. pc' = "idle" /\ pc = "status" /\ cache' = cache
    BY <1>4 DEF UpdateStatus
  <2>3. CASE due' # None
    BY <2>2, <2>3 DEF ScheduleInv
  <2>4. CASE due' = None
    <3>1. /\ base = stored /\ ~retry /\ requeue = 0 /\ due = None
          /\ stored' = [stored EXCEPT !.dns = fresh, !.ready = ready]
      BY <1>4, <2>1, <2>4, SoonestType DEF UpdateStatus
    <3>2. cache = base /\ (base.sources # {} => ready.reason = "RenderFailed")
      BY <2>2, <3>1 DEF ScheduleInv
    <3>3. stored'.ready = ready
      BY <3>1 DEF TypeOK, CRRecords
    <3> QED BY <2>2, <3>2, <3>3 DEF ScheduleInv
  <2> QED BY <2>3, <2>4
<1>5. CASE SyncStatus \/ OutsideEvent \/ Restart
  <2>1. due' # None
    BY <1>5, SoonestType, DNSAssumption DEF SyncStatus, OutsideEvent, Restart, TypeOK, Times
  <2>2. \/ pc' = "idle"
        \/ UNCHANGED <<pc, base, requeue, retry, ready>>
    BY <1>5 DEF SyncStatus, OutsideEvent, Restart, workerVars
  <2> QED BY <2>1, <2>2 DEF ScheduleInv
<1>6. CASE Tick \/ UNCHANGED vars \/ \E i \in Sources, a \in Answers : ChangeZone(i, a)
  <2>1. UNCHANGED <<stored, cache, due, pc, base, requeue, retry, ready>>
    BY <1>6 DEF Tick, ChangeZone, vars, workerVars
  <2> QED BY <2>1 DEF ScheduleInv
<1>7. ASSUME NEW S \in SUBSET Sources, EditSources(S)
      PROVE  ScheduleInv'
  <2>1. UNCHANGED <<cache, due, pc, base, requeue, retry, ready>>
    BY <1>7 DEF EditSources, workerVars
  <2>2. stored'.dns = stored.dns /\ stored'.ready = stored.ready
    BY <1>7 DEF EditSources, TypeOK, CRRecords
  <2> QED BY <2>1, <2>2 DEF ScheduleInv
<1> QED BY <1>1, <1>2, <1>3, <1>4, <1>5, <1>6, <1>7 DEF Next

(* No lookup is forgotten: whatever answers, conflicts, stale copies, crashes  *)
(* and edits there are, a CR at rest that has DNS sources and is not queued    *)
(* waits for the informer to show a change, or its template could not be       *)
(* rendered with the last answer.                                             *)
THEOREM NextLookupKept == Spec => []NextLookupScheduled
<1>1. Init => TypeOK /\ ScheduleInv
  BY InitTypeOK, InitSchedule
<1>2. TypeOK /\ ScheduleInv /\ [Next]_vars => (TypeOK /\ ScheduleInv)'
  BY NextTypeOK, NextSchedule
<1>3. ScheduleInv => NextLookupScheduled
  BY DEF ScheduleInv, NextLookupScheduled
<1> QED BY <1>1, <1>2, <1>3, PTL DEF Spec

-----------------------------------------------------------------------------
(* No address is held too long *)

LEMMA InitSeen == Init => SeenInv
<1> SUFFICES ASSUME Init PROVE SeenInv
  OBVIOUS
<1>1. \A i \in Sources, v \in IPs : seen[i][v] = None /\ NoStatuses[i].lastSeen[v] = None
  BY DEF Init, NoStatuses, NoStatus
<1>2. /\ stored.dns = NoStatuses /\ cache.dns = NoStatuses /\ base.dns = NoStatuses
      /\ fresh = NoStatuses /\ pc = "idle" /\ now = 0 /\ clock = 0
  BY DEF Init
<1> QED BY <1>1, <1>2 DEF SeenInv, NotAhead

(* An answer moves the time at which its addresses were seen to the present,  *)
(* and the status computed from it has nothing else than these and what the   *)
(* grace period covers.                                                      *)
LEMMA AnswerSeen ==
  ASSUME TypeOK, SeenInv, LookupAnswered
  PROVE  SeenInv'
<1> DEFINE old      == base.dns[next].lastSeen
           ips      == zone[next].ips
           lastSeen == MergeDNSRecords(old, ips, Grace[next])
           status   == [lastSeen |-> lastSeen, success |-> now, error |-> None]
<1>1. /\ pc = "lookup" /\ next \in Sources /\ now \in Times /\ now \in Nat
      /\ old \in [IPs -> Times \cup {None}] /\ ips \in SUBSET IPs /\ Grace[next] \in Nat
  BY AnswerTypes DEF LookupAnswered, Times
<1>2. /\ UNCHANGED <<clock, stored, cache, now, base>>
      /\ pc' \in {"lookup", "render"}
      /\ fresh' = [fresh EXCEPT ![next] = status]
  BY DEF LookupAnswered, LookedUp
<1>3. \A v \in IPs : seen'[next][v] = IF v \in ips THEN now ELSE seen[next][v]
  BY <1>1 DEF LookupAnswered, TypeOK
<1>4. \A i \in Sources \ {next} : seen'[i] = seen[i] /\ fresh'[i] = fresh[i]
  BY <1>1, <1>2 DEF LookupAnswered, TypeOK
<1>5. \A i \in Sources, v \in IPs : seen[i][v] \in Nat \cup {None} /\ seen'[i][v] \in Nat \cup {None}
  BY LookupAnsweredType DEF TypeOK, Times
<1>6. \A i \in Sources, v \in IPs : seen[i][v] # None => seen[i][v] <= now
  BY <1>1 DEF SeenInv
<1>7. /\ now' <= clock'
      /\ \A i \in Sources, v \in IPs : seen'[i][v] # None =>
           seen'[i][v] <= clock' /\ seen'[i][v] <= now'
  <2>1. now <= clock /\ clock \in Nat
    BY DEF SeenInv, TypeOK, Times
  <2>2. ASSUME NEW i \in Sources, NEW v \in IPs, seen'[i][v] # None
        PROVE  seen'[i][v] <= now
    BY <1>1, <1>3, <1>4, <1>6, <2>2
  <2> QED BY <1>1, <1>2, <1>5, <2>1, <2>2
<1>8. ASSUME NEW i \in Sources, NEW v \in IPs, NEW t \in Nat,
             seen[i][v] # None, t <= seen[i][v]
      PROVE  seen'[i][v] # None /\ t <= seen'[i][v]
  BY <1>1, <1>3, <1>4, <1>5, <1>6, <1>8, DNSAssumption
<1>9. ASSUME NEW dns \in [Sources -> SourceStatuses], NotAhead(dns),
             NEW i \in Sources, NEW v \in IPs, dns[i].lastSeen[v] # None
      PROVE  seen'[i][v] # None /\ dns[i].lastSeen[v] <= seen'[i][v]
  <2>1. dns[i].lastSeen[v] \in Nat
    BY <1>9 DEF SourceStatuses, Times
  <2> QED BY <1>8, <1>9, <2>1 DEF NotAhead
<1>10. /\ stored.dns \in [Sources -> SourceStatuses] /\ cache.dns \in [Sources -> SourceStatuses]
       /\ base.dns \in [Sources -> SourceStatuses] /\ fresh \in [Sources -> SourceStatuses]
       /\ NotAhead(stored.dns) /\ NotAhead(cache.dns) /\ NotAhead(base.dns) /\ NotAhead(fresh)
  BY DEF TypeOK, CRRecords, SeenInv
<1>11. NotAhead(stored.dns)' /\ NotAhead(cache.dns)' /\ NotAhead(base.dns)'
  BY <1>2, <1>9, <1>10 DEF NotAhead
<1>12. ASSUME NEW v \in IPs, lastSeen[v] # None
       PROVE  /\ seen'[next][v] # None /\ lastSeen[v] <= seen'[next][v]
              /\ seen'[next][v] = now \/ seen'[next][v] + Grace[next] > now
  <2>1. CASE v \in ips
    BY <1>1, <1>2, <1>3, <2>1, DNSAssumption DEF MergeDNSRecords
  <2>2. CASE v \notin ips
    <3>1. lastSeen[v] = old[v] /\ old[v] # None /\ old[v] + Grace[next] > now
      BY <1>12, <2>2 DEF MergeDNSRecords, Held, Expiry
    <3>2. seen'[next][v] # None /\ old[v] <= seen'[next][v]
      BY <1>1, <1>9, <1>10, <3>1
    <3>3. old[v] \in Nat /\ seen'[next][v] \in Nat
      BY <1>1, <1>5, <3>1, <3>2 DEF Times
    <3>4. seen'[next][v] + Grace[next] > now
      BY <1>1, <3>1, <3>2, <3>3
    <3> QED BY <3>1, <3>2, <3>4
  <2> QED BY <2>1, <2>2
<1>13. fresh'[next].lastSeen = lastSeen
  BY <1>1, <1>2 DEF TypeOK
<1>14. NotAhead(fresh)'
  <2>1. \A v \in IPs : fresh'[next].lastSeen[v] # None =>
          seen'[next][v] # None /\ fresh'[next].lastSeen[v] <= seen'[next][v]
    BY <1>12, <1>13
  <2>2. \A i \in Sources \ {next}, v \in IPs : fresh'[i].lastSeen[v] # None =>
          seen'[i][v] # None /\ fresh'[i].lastSeen[v] <= seen'[i][v]
    BY <1>4, <1>9, <1>10
  <2> QED BY <2>1, <2>2 DEF NotAhead
<1>15. ASSUME NEW i \in Sources, NEW v \in IPs, fresh'[i].error = None, fresh'[i].lastSeen[v] # None
       PROVE  seen'[i][v] = now' \/ InGrace(i, v, now)'
  <2>1. CASE i = next
    BY <1>2, <1>12, <1>13, <1>15, <2>1 DEF InGrace
  <2>2. CASE i # next
    <3>1. seen[i][v] = now \/ InGrace(i, v, now)
      BY <1>1, <1>4, <1>15, <2>2 DEF SeenInv
    <3> QED BY <1>2, <1>4, <2>2, <3>1 DEF InGrace
  <2> QED BY <2>1, <2>2
<1> QED BY <1>7, <1>11, <1>14, <1>15 DEF SeenInv

(* The statuses the other steps move around are ones there were before, or    *)
(* have nothing in them.                                                     *)
LEMMA OthersSeen ==
  ASSUME TypeOK, SeenInv, UNCHANGED seen, clock <= clock',
         \/ now' = now /\ (pc' # "idle" => pc # "idle")
         \/ now' = clock
         \/ now' = 0 /\ pc' = "idle",
         \A d \in {stored.dns', cache.dns', base.dns', fresh'} :
           d \in {stored.dns, cache.dns, base.dns, fresh, NoStatuses},
         pc' \in {"lookup", "render"} => \A i \in Sources :
           \/ fresh'[i].error # None
           \/ fresh'[i] = NoStatus
           \/ fresh'[i] = fresh[i] /\ now' = now /\ pc \in {"lookup", "render"},
         clock' \in Nat
  PROVE  SeenInv'
<1>1. /\ now \in Nat /\ clock \in Nat
      /\ \A i \in Sources, v \in IPs : seen[i][v] \in Nat \cup {None}
  BY DEF TypeOK, Times
<1>2. /\ now' <= clock'
      /\ \A i \in Sources, v \in IPs : seen'[i][v] # None =>
           seen'[i][v] <= clock' /\ (pc' # "idle" => seen'[i][v] <= now')
  BY <1>1, DNSAssumption DEF SeenInv
<1>3. NotAhead(NoStatuses)
  BY DEF NotAhead, NoStatuses, NoStatus
<1>4. \A d \in {stored.dns', cache.dns', base.dns', fresh'} : NotAhead(d)
  BY <1>3 DEF SeenInv
<1>5. NotAhead(stored.dns)' /\ NotAhead(cache.dns)' /\ NotAhead(base.dns)' /\ NotAhead(fresh)'
  BY <1>4 DEF NotAhead
<1>6. ASSUME pc' \in {"lookup", "render"}, NEW i \in Sources, NEW v \in IPs,
             fresh'[i].error = None, fresh'[i].lastSeen[v] # None
      PROVE  seen'[i][v] = now' \/ InGrace(i, v, now)'
  <2>1. fresh'[i] # NoStatus
    BY <1>6 DEF NoStatus
  <2>2. fresh'[i] = fresh[i] /\ now' = now /\ pc \in {"lookup", "render"}
    BY <1>6, <2>1
  <2> QED BY <1>6, <2>2 DEF SeenInv, InGrace
<1> QED BY <1>2, <1>5, <1>6 DEF SeenInv

LEMMA NextSeen ==
  ASSUME TypeOK, SeenInv, [Next]_vars
  PROVE  SeenInv'
<1>1. /\ clock \in Nat /\ clock' \in Nat /\ clock <= clock'
      /\ stored \in CRRecords /\ cache \in CRRecords /\ base \in CRRecords
      /\ fresh \in [Sources -> SourceStatuses]
  <2>1. clock \in Nat /\ clock' \in Nat
    BY NextTypeOK DEF TypeOK, Times
  <2>2. clock' = clock \/ clock' = clock + 1
    BY DEF Next, Start, LookupAnswered, LookupFailed, Deliver, UpdateStatus, SyncStatus, Tick,
           OutsideEvent, Restart, ChangeZone, EditSources, vars
  <2> QED BY <2>1, <2>2 DEF TypeOK
<1>2. CASE Start
  <2>1. /\ UNCHANGED <<seen, stored, cache>> /\ now' = clock /\ base' = cache
        /\ fresh' = NoStatuses
    BY <1>2 DEF Start
  <2> QED BY <1>1, <2>1, OthersSeen DEF NoStatuses
<1>3. CASE LookupAnswered
  BY <1>3, AnswerSeen
<1>4. CASE LookupFailed
  <2>1. /\ UNCHANGED <<seen, stored, cache, now, base>> /\ next \in Sources
        /\ pc = "lookup" /\ base.dns[next] \in SourceStatuses
    BY <1>4 DEF LookupFailed, TypeOK, CRRecords
  <2>2. ASSUME fresh' = base.dns, pc' = "status"
        PROVE  SeenInv'
    BY <1>1, <2>1, <2>2, OthersSeen
  <2>3. ASSUME NEW e \in Texts,
               fresh' = [fresh EXCEPT ![next] = [base.dns[next] EXCEPT !.error = e]]
        PROVE  SeenInv'
    <3>1. fresh'[next].error = e /\ e # None
      BY <1>1, <2>1, <2>3, DNSAssumption DEF SourceStatuses
    <3>2. fresh'[next].lastSeen = base.dns[next].lastSeen
      BY <1>1, <2>1, <2>3 DEF SourceStatuses
    <3>3. \A i \in Sources \ {next} : fresh'[i] = fresh[i]
      BY <1>1, <2>1, <2>3
    <3>4. NotAhead(fresh)'
      BY <2>1, <3>2, <3>3 DEF NotAhead, SeenInv
    <3>5. NotAhead(stored.dns)' /\ NotAhead(cache.dns)' /\ NotAhead(base.dns)'
      BY <2>1 DEF SeenInv, NotAhead
    <3>6. now' <= clock' /\ clock' = clock
      BY <1>4 DEF LookupFailed, SeenInv
    <3>7. \A i \in Sources, v \in IPs :
            fresh'[i].error = None /\ fresh'[i].lastSeen[v] # None =>
              seen'[i][v] = now' \/ InGrace(i, v, now)'
      BY <2>1, <3>1, <3>3 DEF SeenInv, InGrace
    <3> QED BY <2>1, <3>4, <3>5, <3>6, <3>7 DEF SeenInv
  <2>4. \/ fresh' = base.dns /\ pc' = "status"
        \/ \E e \in Texts :
             fresh' = [fresh EXCEPT ![next] = [base.dns[next] EXCEPT !.error = e]]
    BY <1>4 DEF LookupFailed, LookedUp
  <2> QED BY <2>2, <2>3, <2>4
<1>5. CASE Deliver
  <2>1. /\ UNCHANGED <<seen, stored, cache, now, base>> /\ pc = "render" /\ pc' = "status"
    BY <1>5 DEF Deliver
  <2>2. fresh' = fresh \/ fresh' = stored.dns
    BY <1>5 DEF Deliver, StatusesInReply
  <2> QED BY <1>1, <2>1, <2>2, OthersSeen
<1>6. CASE UpdateStatus
  <2>1. UNCHANGED <<seen, cache, now, base, fresh>> /\ pc' = "idle"
    BY <1>6 DEF UpdateStatus
  <2>2. stored'.dns = fresh \/ stored'.dns = stored.dns
    BY <1>1, <1>6 DEF UpdateStatus, CRRecords
  <2> QED BY <1>1, <2>1, <2>2, OthersSeen
<1>7. CASE SyncStatus
  <2>1. UNCHANGED <<seen, stored, now, base, fresh, pc>> /\ cache' = stored
    BY <1>7 DEF SyncStatus, workerVars, historyVars
  <2> QED BY <1>1, <2>1, OthersSeen
<1>8. CASE Restart
  <2>1. /\ UNCHANGED <<seen, stored>> /\ cache' = stored /\ base' = stored
        /\ fresh' = NoStatuses /\ pc' = "idle" /\ now' = 0
    BY <1>8 DEF Restart
  <2> QED BY <1>1, <2>1, OthersSeen
<1>9. CASE \/ Tick \/ OutsideEvent \/ UNCHANGED vars
           \/ \E i \in Sources, a \in Answers : ChangeZone(i, a)
  <2>1. UNCHANGED <<seen, stored, cache, base, fresh, pc, now>>
    BY <1>9 DEF Tick, OutsideEvent, ChangeZone, vars, workerVars, historyVars
  <2> QED BY <1>1, <2>1, OthersSeen
<1>10. ASSUME NEW S \in SUBSET Sources, EditSources(S)
       PROVE  SeenInv'
  <2>1. UNCHANGED <<seen, cache, base, fresh, pc, now>> /\ stored'.dns = stored.dns
    BY <1>1, <1>10 DEF EditSources, workerVars, CRRecords
  <2> QED BY <1>1, <2>1, OthersSeen
<1> QED BY <1>2, <1>3, <1>4, <1>5, <1>6, <1>7, <1>8, <1>9, <1>10 DEF Next

LEMMA SeenInvHolds == Spec => [](TypeOK /\ SeenInv)
<1>1. Init => TypeOK /\ SeenInv
  BY InitTypeOK, InitSeen
<1>2. TypeOK /\ SeenInv /\ [Next]_vars => (TypeOK /\ SeenInv)'
  BY NextTypeOK, NextSeen
<1> QED BY <1>1, <1>2, PTL DEF Spec

(* What a reconcile writes is what it has just computed.                      *)
LEMMA DeliveredValues ==
  ASSUME TypeOK, Next, Delivers
  PROVE  \A i \in Sources : output'[i] = RecordValues(fresh[i])
<1>1. CASE Deliver
  <2>1. ready' = Because("RenderSuccess") /\ ~retry'
    BY DEF Delivers
  <2>2. output' = [i \in Sources |-> RecordValues(fresh[i])]
    BY <1>1, <2>1 DEF Deliver, Because
  <2> QED BY <2>2
<1>2. CASE ~Deliver
  BY <1>2 DEF Delivers, Next, Start, LookupAnswered, LookupFailed, UpdateStatus, SyncStatus, Tick,
              OutsideEvent, Restart, ChangeZone, EditSources, workerVars
<1> QED BY <1>1, <1>2

(* A reconcile that looked a source up successfully writes no address of it    *)
(* that neither the answer has nor the grace period covers, whatever was lost  *)
(* before.                                                                   *)
THEOREM NotHeldTooLong == Spec => NothingHeldTooLong
<1> DEFINE A == Delivers => \A i \in base.sources : fresh[i].error = None =>
                  \A v \in output'[i] : seen[i][v] = now \/ InGrace(i, v, now)
<1>1. ASSUME TypeOK, SeenInv, Next, Delivers, NEW i \in base.sources, fresh[i].error = None,
             NEW v \in output'[i]
      PROVE  seen[i][v] = now \/ InGrace(i, v, now)
  <2>1. i \in Sources
    BY <1>1 DEF TypeOK, CRRecords
  <2>2. v \in IPs /\ fresh[i].lastSeen[v] # None
    BY <1>1, <2>1, DeliveredValues DEF RecordValues
  <2>3. pc \in {"lookup", "render"}
    BY <1>1 DEF Delivers
  <2> QED BY <1>1, <2>1, <2>2, <2>3 DEF SeenInv
<1>2. TypeOK /\ SeenInv /\ [Next]_vars => [A]_vars
  BY <1>1
<1>3. NothingHeldTooLong <=> [][A]_vars
  BY DEF NothingHeldTooLong
<1> HIDE DEF A
<1> QED BY <1>2, <1>3, SeenInvHolds, PTL DEF Spec

-----------------------------------------------------------------------------
(* What the promises of the documentation rest on, if nothing a reconcile     *)
(* computes is lost                                                          *)

(* Then the CR keeps all its sources, and is looked up source by source.      *)
LEMMA NextSource ==
  ASSUME NEW cr, cr.sources = Sources, NEW k \in 1 .. N + 1
  PROVE  SourceFrom(cr, k) = k
<1>1. /\ SourceFrom(cr, k) \in k .. N + 1
      /\ \A j \in k .. SourceFrom(cr, k) - 1 : j \notin Sources
  BY SourceFromFirst
<1>2. CASE SourceFrom(cr, k) # k
  <2>1. k \in k .. SourceFrom(cr, k) - 1 /\ k \in Sources
    BY <1>1, <1>2, DNSAssumption DEF Sources
  <2> QED BY <1>1, <2>1
<1> QED BY <1>2

(* Time only takes addresses out of the grace period.                         *)
LEMMA RemembersLater ==
  ASSUME TypeOK, NEW i \in Sources, NEW s, NEW t \in Nat, NEW u \in Nat, t <= u, Remembers(s, i, t)
  PROVE  Remembers(s, i, u)
<1>1. \A v \in IPs : InGrace(i, v, u) => InGrace(i, v, t)
  <2> SUFFICES ASSUME NEW v \in IPs, InGrace(i, v, u)
               PROVE  InGrace(i, v, t)
    OBVIOUS
  <2>1. seen[i][v] \in Nat /\ Grace[i] \in Nat
    BY DNSAssumption DEF TypeOK, InGrace, Times
  <2> QED BY <2>1 DEF InGrace
<1>2. output[i] \subseteq IPs
  BY DEF TypeOK
<1> QED BY <1>1, <1>2 DEF Remembers

LEMMA InitHistory == Init /\ NothingLost => HistoryInv
<1> SUFFICES ASSUME Init, NothingLost PROVE HistoryInv
  OBVIOUS
<1>1. stored.sources = Sources /\ stored.dns = NoStatuses /\ pc = "idle"
  BY DEF Init, NothingLost, Disturbed
<1>2. NothingYet
  BY <1>1 DEF Init, NothingYet
<1>3. \A i \in Sources : Remembers(stored.dns[i], i, clock)
  BY <1>1, <1>2 DEF NothingYet, NoStatuses, NoStatus, Remembers
<1> QED BY <1>1, <1>2, <1>3 DEF HistoryInv

(* One more source has been looked up, and its status holds all there is to   *)
(* know; the history of the others is untouched.                              *)
LEMMA LookedUpHistory ==
  ASSUME TypeOK, HistoryInv, pc = "lookup",
         NEW s, NEW d, LookedUp(s, d), s.success # None,
         UNCHANGED <<stored, now, base, output>>,
         \A i \in Sources \ {next} : seen'[i] = seen[i] /\ known'[i] = known[i],
         RecordValues(s) = known'[next],
         \A v \in IPs : s.lastSeen[v] # None => s.lastSeen[v] = seen'[next][v],
         \A v \in output[next] : seen'[next][v] # None /\ seen'[next][v] + Grace[next] > now =>
           s.lastSeen[v] # None
  PROVE  HistoryInv'
<1>1. next \in Sources /\ fresh \in [Sources -> SourceStatuses]
  BY DEF TypeOK
<1>2. fresh'[next] = s /\ \A i \in Sources \ {next} : fresh'[i] = fresh[i]
  BY <1>1 DEF LookedUp
<1>3. next' = next + 1 /\ pc' = IF next = N THEN "render" ELSE "lookup"
  <2>1. next + 1 \in 1 .. N + 1 /\ base.sources = Sources
    BY <1>1, DNSAssumption DEF HistoryInv, Sources
  <2>2. SourceFrom(base, next + 1) = next + 1
    BY <2>1, NextSource
  <2> QED BY <1>1, <2>2, DNSAssumption DEF LookedUp, Sources
<1>4. ASSUME NEW i \in Sources, i = next
      PROVE  Computed(i)'
  BY <1>2, <1>4 DEF Computed, Remembers, InGrace, RecordValues
<1>5. ASSUME NEW i \in Sources \ {next}, Computed(i)
      PROVE  Computed(i)'
  BY <1>2, <1>5 DEF Computed, Remembers, InGrace, RecordValues
<1>6. ASSUME NEW i \in Sources \ {next}, Remembers(stored.dns[i], i, now)
      PROVE  Remembers(stored.dns[i], i, now)'
  BY <1>6 DEF Remembers, InGrace, RecordValues
<1>7. \A i \in 1 .. next : Computed(i)'
  <2> SUFFICES ASSUME NEW i \in 1 .. next PROVE Computed(i)'
    OBVIOUS
  <2>1. i \in Sources /\ (i # next => i \in 1 .. next - 1)
    BY <1>1, DNSAssumption DEF Sources
  <2>2. CASE i = next
    BY <1>4, <2>1, <2>2
  <2>3. CASE i # next
    BY <1>5, <2>1, <2>3 DEF HistoryInv
  <2> QED BY <2>2, <2>3
<1>8. \A i \in next + 1 .. N : Remembers(stored.dns[i], i, now)'
  <2> SUFFICES ASSUME NEW i \in next + 1 .. N PROVE Remembers(stored.dns[i], i, now)'
    OBVIOUS
  <2>1. i \in Sources \ {next} /\ i \in next .. N
    BY <1>1, DNSAssumption DEF Sources
  <2> QED BY <1>6, <2>1 DEF HistoryInv
<1>9. next' - 1 = next /\ (next = N => 1 .. next = Sources)
  <2>1. next \in Nat /\ next' = next + 1
    BY <1>1, <1>3, DNSAssumption DEF Sources
  <2>2. next' - 1 = next
    BY <2>1
  <2> QED BY <2>2 DEF Sources
<1>10. /\ stored'.sources = Sources /\ base' = stored'
       /\ NothingYet' \/ \A i \in Sources : stored'.dns[i].success # None
  BY DEF HistoryInv, NothingYet
<1> QED BY <1>3, <1>7, <1>8, <1>9, <1>10 DEF HistoryInv

LEMMA AnsweredHistory ==
  ASSUME TypeOK, HistoryInv, LookupAnswered
  PROVE  HistoryInv'
<1> DEFINE old      == base.dns[next].lastSeen
           ips      == zone[next].ips
           lastSeen == MergeDNSRecords(old, ips, Grace[next])
           status   == [lastSeen |-> lastSeen, success |-> now, error |-> None]
<1>1. /\ pc = "lookup" /\ next \in Sources /\ now \in Nat
      /\ old \in [IPs -> Times \cup {None}] /\ ips \in SUBSET IPs /\ Grace[next] \in Nat
  BY AnswerTypes DEF LookupAnswered, Times
<1>2. Remembers(base.dns[next], next, now)
  <2>1. next \in next .. N /\ base = stored
    BY <1>1, DNSAssumption DEF HistoryInv, Sources
  <2> QED BY <1>1, <2>1 DEF HistoryInv
<1>3. \E d : LookedUp(status, d)
  BY DEF LookupAnswered
<1>4. UNCHANGED <<stored, now, base, output>>
  BY DEF LookupAnswered
<1>5. /\ \A v \in IPs : seen'[next][v] = IF v \in ips THEN now ELSE seen[next][v]
      /\ known'[next] = RecordValues(status)
      /\ \A i \in Sources \ {next} : seen'[i] = seen[i] /\ known'[i] = known[i]
  BY <1>1 DEF LookupAnswered, TypeOK
<1>6. now # None
  BY <1>1, DNSAssumption
<1>7. ASSUME NEW v \in IPs, lastSeen[v] # None
      PROVE  lastSeen[v] = seen'[next][v]
  <2>1. CASE v \in ips
    BY <1>5, <2>1 DEF MergeDNSRecords
  <2>2. CASE v \notin ips
    <3>1. lastSeen[v] = old[v] /\ old[v] # None
      BY <1>7, <2>2 DEF MergeDNSRecords
    <3> QED BY <1>2, <1>5, <2>2, <3>1 DEF Remembers
  <2> QED BY <2>1, <2>2
<1>8. ASSUME NEW v \in output[next], seen'[next][v] # None, seen'[next][v] + Grace[next] > now
      PROVE  lastSeen[v] # None
  <2>1. v \in IPs
    BY <1>1 DEF TypeOK
  <2>2. CASE v \in ips
    BY <1>6, <2>1, <2>2 DEF MergeDNSRecords
  <2>3. CASE v \notin ips
    <3>1. InGrace(next, v, now) /\ seen'[next][v] = seen[next][v]
      BY <1>5, <1>8, <2>1, <2>3 DEF InGrace
    <3>2. old[v] # None /\ old[v] = seen[next][v]
      BY <1>2, <2>1, <3>1 DEF Remembers
    <3>3. v \in Held(old, ips, Grace[next])
      BY <1>8, <2>1, <2>3, <3>1, <3>2 DEF Held, Expiry
    <3> QED BY <2>1, <2>3, <3>2, <3>3 DEF MergeDNSRecords
  <2> QED BY <2>2, <2>3
<1> HIDE DEF lastSeen
<1> QED BY <1>1, <1>3, <1>4, <1>5, <1>6, <1>7, <1>8, LookedUpHistory

LEMMA FailedHistory ==
  ASSUME TypeOK, HistoryInv, LookupFailed
  PROVE  HistoryInv'
<1> DEFINE prev == base.dns[next]
<1>1. /\ pc = "lookup" /\ next \in Sources /\ base = stored
      /\ UNCHANGED <<stored, now, base, output, seen, known>>
  BY DEF LookupFailed, TypeOK, HistoryInv
<1>2. prev \in SourceStatuses
  BY <1>1 DEF TypeOK, CRRecords
<1>3. ASSUME prev.success # None,
             NEW e \in Texts, LookedUp([prev EXCEPT !.error = e], DNSRetryInterval(next))
      PROVE  HistoryInv'
  <2> DEFINE s == [prev EXCEPT !.error = e]
  <2>1. s.success = prev.success /\ s.lastSeen = prev.lastSeen
    BY <1>2 DEF SourceStatuses
  <2>2. Remembers(prev, next, now)
    <3>1. next \in next .. N
      BY <1>1, DNSAssumption DEF Sources
    <3> QED BY <1>1, <3>1 DEF HistoryInv
  <2>3. /\ RecordValues(s) = known'[next]
        /\ \A v \in IPs : s.lastSeen[v] # None => s.lastSeen[v] = seen'[next][v]
        /\ \A v \in output[next] : seen'[next][v] # None /\ seen'[next][v] + Grace[next] > now =>
             s.lastSeen[v] # None
    BY <1>1, <1>3, <2>1, <2>2 DEF Remembers, InGrace, RecordValues
  <2>4. \E d : LookedUp(s, d)
    BY <1>3
  <2> HIDE DEF s
  <2> QED BY <1>1, <1>3, <2>1, <2>3, <2>4, LookedUpHistory
<1>4. ASSUME prev.success = None, fresh' = base.dns, pc' = "status"
      PROVE  HistoryInv'
  <2>1. NothingYet
    BY <1>1, <1>4 DEF HistoryInv
  <2> QED BY <1>1, <1>4, <2>1 DEF HistoryInv, NothingYet
<1> QED BY <1>3, <1>4 DEF LookupFailed

LEMMA NextHistory ==
  ASSUME NothingLost, TypeOK, SeenInv, HistoryInv, [Next]_vars
  PROVE  HistoryInv'
<1>1. \A k \in {"stale", "conflict", "crash", "edit", "finalizer"} : ~Disturbed(k)
  BY DEF NothingLost, Disturbed
<1>2. /\ clock \in Nat /\ now \in Nat /\ now <= clock /\ stored \in CRRecords
      /\ stored.sources = Sources
  BY DEF TypeOK, Times, SeenInv, HistoryInv
<1>3. CASE Start
  <2>1. /\ cache = stored /\ base' = stored /\ now' = clock /\ pc = "idle"
        /\ UNCHANGED <<stored, output, seen, known>>
    BY <1>1, <1>3 DEF Start
  <2>2. next' = 1 /\ pc' = "lookup"
    <3>0. 1 \in Sources /\ 1 \in 1 .. N + 1
      BY DNSAssumption DEF Sources
    <3>1. 1 \in 1 .. N + 1 /\ Sources # {}
      BY <3>0
    <3>2. SourceFrom(cache, 1) = 1
      BY <1>2, <2>1, <3>1, NextSource
    <3> QED BY <1>2, <1>3, <2>1, <3>1, <3>2 DEF Start
  <2>3. \A i \in Sources : Remembers(stored.dns[i], i, now)'
    BY <2>1 DEF HistoryInv, Remembers, InGrace, RecordValues
  <2>4. 1 .. next' - 1 = {} /\ next' .. N = Sources
    BY <2>2, DNSAssumption DEF Sources
  <2> QED BY <1>2, <2>1, <2>2, <2>3, <2>4 DEF HistoryInv, NothingYet
<1>4. CASE LookupAnswered
  BY <1>4, AnsweredHistory
<1>5. CASE LookupFailed
  BY <1>5, FailedHistory
<1>6. CASE Deliver
  <2>1. /\ pc = "render" /\ pc' = "status"
        /\ UNCHANGED <<stored, now, base, seen, known>> /\ fresh' = fresh
    BY <1>1, <1>6 DEF Deliver
  <2>2. output' = output \/ output' = [i \in Sources |-> RecordValues(fresh[i])]
    BY <1>6 DEF Deliver
  <2>3. ASSUME NEW i \in Sources
        PROVE  Computed(i)'
    <3>1. Computed(i)
      BY <2>1 DEF HistoryInv
    <3>2. output'[i] = output[i] \/ output'[i] = RecordValues(fresh[i])
      BY <2>2
    <3> QED BY <2>1, <3>1, <3>2 DEF Computed, Remembers, InGrace, RecordValues
  <2> QED BY <2>1, <2>3 DEF HistoryInv
<1>7. CASE UpdateStatus
  <2>1. /\ pc = "status" /\ pc' = "idle" /\ UNCHANGED <<clock, now, output, seen, known, fresh>>
        /\ base = stored /\ stored' = [stored EXCEPT !.dns = fresh, !.ready = ready]
    BY <1>1, <1>7 DEF UpdateStatus, HistoryInv
  <2>2. stored'.dns = fresh /\ stored'.sources = Sources
    BY <1>2, <2>1 DEF CRRecords
  <2>3. CASE fresh = stored.dns /\ NothingYet
    <3>1. fresh = NoStatuses /\ NothingYet'
      BY <2>1, <2>2, <2>3 DEF NothingYet
    <3>2. \A i \in Sources : Remembers(stored.dns[i], i, clock)'
      BY <2>1, <2>2, <3>1 DEF NothingYet, NoStatuses, NoStatus, Remembers
    <3> QED BY <2>1, <2>2, <3>1, <3>2 DEF HistoryInv
  <2>4. CASE \A i \in Sources : Computed(i)
    <3>1. \A i \in Sources : fresh[i].success # None /\ Remembers(fresh[i], i, clock)
      BY <1>2, <2>4, RemembersLater DEF Computed
    <3>2. \A i \in Sources : Remembers(stored.dns[i], i, clock)'
      BY <2>1, <2>2, <3>1 DEF Remembers, InGrace, RecordValues
    <3> QED BY <2>1, <2>2, <3>1, <3>2 DEF HistoryInv
  <2> QED BY <2>1, <2>3, <2>4 DEF HistoryInv
<1>8. CASE Tick
  <2>1. /\ UNCHANGED <<stored, pc, next, now, base, fresh, output, seen, known>>
        /\ clock' = clock + 1
    BY <1>8 DEF Tick, workerVars
  <2>2. pc = "idle" => \A i \in Sources : Remembers(stored.dns[i], i, clock + 1)
    BY <1>2, RemembersLater DEF HistoryInv
  <2>3. pc = "idle" => \A i \in Sources : Remembers(stored.dns[i], i, clock)'
    BY <2>1, <2>2 DEF Remembers, InGrace, RecordValues
  <2> QED BY <2>1, <2>3 DEF HistoryInv, NothingYet, Computed, Remembers, InGrace, RecordValues
<1>9. CASE \/ SyncStatus \/ OutsideEvent \/ UNCHANGED vars
           \/ \E i \in Sources, a \in Answers : ChangeZone(i, a)
  <2>1. UNCHANGED <<clock, stored, pc, next, now, base, fresh, output, seen, known>>
    BY <1>9 DEF SyncStatus, OutsideEvent, ChangeZone, vars, workerVars, historyVars
  <2> QED BY <2>1 DEF HistoryInv, NothingYet, Computed, Remembers, InGrace, RecordValues
<1>10. CASE Restart \/ \E S \in SUBSET Sources : EditSources(S)
  BY <1>1, <1>10 DEF Restart, EditSources
<1> QED BY <1>3, <1>4, <1>5, <1>6, <1>7, <1>8, <1>9, <1>10 DEF Next

LEMMA HistoryInvHolds ==
  ASSUME NothingLost
  PROVE  Spec => [](TypeOK /\ HistoryInv)
<1>1. Init => TypeOK /\ SeenInv /\ HistoryInv
  BY InitTypeOK, InitSeen, InitHistory
<1>2. TypeOK /\ SeenInv /\ HistoryInv /\ [Next]_vars => (TypeOK /\ SeenInv /\ HistoryInv)'
  BY NextTypeOK, NextSeen, NextHistory
<1> QED BY <1>1, <1>2, PTL DEF Spec

(* If nothing a reconcile computes is lost, a failed lookup leaves in the      *)
(* output what the last answered one left there, for any number of failures,   *)
(* and however long they take.                                               *)
THEOREM KnownStays ==
  ASSUME NothingLost
  PROVE  Spec => KnownRecordsStay
<1> DEFINE A == Delivers => \A i \in Sources :
                  fresh[i].error # None => output'[i] = known[i]
<1>1. ASSUME TypeOK, HistoryInv, Next, Delivers, NEW i \in Sources
      PROVE  output'[i] = known[i]
  <2>1. Computed(i)
    BY <1>1 DEF Delivers, HistoryInv
  <2> QED BY <1>1, <2>1, DeliveredValues DEF Computed, Remembers
<1>2. TypeOK /\ HistoryInv /\ [Next]_vars => [A]_vars
  BY <1>1
<1>3. KnownRecordsStay <=> [][A]_vars
  BY DEF KnownRecordsStay
<1> HIDE DEF A
<1> QED BY <1>2, <1>3, HistoryInvHolds, PTL DEF Spec

(* If nothing a reconcile computes is lost, none that looked a source up      *)
(* successfully takes out an address that was seen within the grace period.   *)
THEOREM GraceKept ==
  ASSUME NothingLost
  PROVE  Spec => GraceHonoured
<1> DEFINE A == Delivers => \A i \in Sources, v \in IPs :
                  /\ i \in base.sources /\ fresh[i].error = None
                  /\ v \in output[i] /\ InGrace(i, v, now)
                  => v \in output'[i]
<1>1. ASSUME TypeOK, HistoryInv, Next, Delivers, NEW i \in Sources, NEW v \in IPs,
             v \in output[i], InGrace(i, v, now)
      PROVE  v \in output'[i]
  <2>1. Computed(i)
    BY <1>1 DEF Delivers, HistoryInv
  <2> QED BY <1>1, <2>1, DeliveredValues DEF Computed, Remembers, RecordValues
<1>2. TypeOK /\ HistoryInv /\ [Next]_vars => [A]_vars
  BY <1>1
<1>3. GraceHonoured <=> [][A]_vars
  BY DEF GraceHonoured
<1> HIDE DEF A
<1> QED BY <1>2, <1>3, HistoryInvHolds, PTL DEF Spec

-----------------------------------------------------------------------------
(* A removed address leaves the output on time *)

LEMMA InitExpiry == Init => ExpiryInv
  BY DEF Init, ExpiryInv, Because

(* NextExpiry is not later than any expiry.                                   *)
LEMMA NextExpiryIsFirst ==
  ASSUME now \in Times, NEW old \in [IPs -> Times \cup {None}], NEW ips \in SUBSET IPs,
         NEW g \in Nat, NEW v \in Held(old, ips, g)
  PROVE  NextExpiry(old, ips, g) > 0 /\ now + NextExpiry(old, ips, g) <= old[v] + g
<1> DEFINE left == {Expiry(old, u, g) - now : u \in Held(old, ips, g)}
<1>1. /\ left \in SUBSET (Nat \ {0}) /\ left \in SUBSET Nat
      /\ Expiry(old, v, g) - now \in left /\ left # {}
  <2>1. left \in SUBSET (Nat \ {0})
    BY DNSAssumption DEF Held, Expiry, Times
  <2>2. Expiry(old, v, g) - now \in left
    OBVIOUS
  <2> QED BY <2>1, <2>2
<1>2. \E d \in left : \A e \in left : d <= e
  <2> HIDE DEF left
  <2> QED BY <1>1, LeastNat
<1>3. /\ NextExpiry(old, ips, g) \in left
      /\ \A e \in left : NextExpiry(old, ips, g) <= e
  BY <1>2 DEF NextExpiry
<1>4. v \in IPs /\ old[v] \in Nat /\ now \in Nat
  BY DNSAssumption DEF Held, Times
<1>5. NextExpiry(old, ips, g) <= Expiry(old, v, g) - now /\ NextExpiry(old, ips, g) \in Nat \ {0}
  <2> HIDE DEF left
  <2> QED BY <1>1, <1>3
<1> HIDE DEF left
<1> QED BY <1>4, <1>5 DEF Expiry

LEMMA MinNonZeroLeast ==
  ASSUME NEW a \in Nat, NEW b \in Nat
  PROVE  /\ a > 0 => MinNonZero(a, b) <= a
         /\ b > 0 => MinNonZero(a, b) <= b
  BY DEF MinNonZero

(* One more interval makes the next reconcile no later.                       *)
LEMMA LookedUpExpiry ==
  ASSUME TypeOK, ExpiryInv, pc = "lookup",
         NEW s, NEW d \in Nat, LookedUp(s, d),
         UNCHANGED <<clock, now, stored, due, output>>,
         \A i \in Sources \ {next} : seen'[i] = seen[i],
         TypeOK',
         s.error = None => \A v \in RecordValues(s) :
           \/ seen'[next][v] = s.success
           \/ seen'[next][v] # None /\ d > 0 /\ now + d <= seen'[next][v] + Grace[next]
  PROVE  ExpiryInv'
<1>1. /\ next \in Sources /\ fresh \in [Sources -> SourceStatuses] /\ now \in Nat
      /\ requeue \in Nat /\ requeue' \in Nat
      /\ \A i \in Sources : Grace[i] \in Nat
      /\ \A i \in Sources, v \in IPs : seen'[i][v] \in Nat \cup {None}
  BY DNSAssumption DEF TypeOK, Times
<1>2. /\ fresh'[next] = s /\ \A i \in Sources \ {next} : fresh'[i] = fresh[i]
      /\ pc' \in {"lookup", "render"} /\ UNCHANGED retry
  BY <1>1 DEF LookedUp
<1>3. /\ requeue > 0 => requeue' > 0 /\ requeue' <= requeue
      /\ d > 0 => requeue' > 0 /\ requeue' <= d
  <2>1. requeue' = MinNonZero(requeue, d)
    BY DEF LookedUp
  <2> QED BY <1>1, <2>1, MinNonZeroType, MinNonZeroLeast
<1>4. ASSUME NEW i \in Sources, fresh'[i].error = None, NEW v \in RecordValues(fresh'[i])
      PROVE  \/ seen'[i][v] = fresh'[i].success
             \/ seen'[i][v] # None /\ requeue' > 0 /\ now + requeue' <= seen'[i][v] + Grace[i]
  <2>1. v \in IPs
    BY <1>4 DEF RecordValues
  <2>2. CASE i = next
    <3>1. \/ seen'[next][v] = s.success
          \/ seen'[next][v] # None /\ d > 0 /\ now + d <= seen'[next][v] + Grace[next]
      BY <1>2, <1>4, <2>2
    <3> QED BY <1>1, <1>2, <1>3, <2>1, <2>2, <3>1
  <2>3. CASE i # next
    <3>1. /\ seen'[i] = seen[i] /\ fresh'[i] = fresh[i]
          /\ KeptUntil(fresh[i], i, v, Awaited)
      BY <1>2, <1>4, <2>3 DEF ExpiryInv
    <3>2. CASE seen[i][v] # fresh[i].success
      <4>1. /\ seen[i][v] # None /\ requeue > 0 /\ now + requeue <= seen[i][v] + Grace[i]
        BY <3>1, <3>2 DEF KeptUntil, Awaited
      <4> QED BY <1>1, <1>3, <2>1, <3>1, <4>1
    <3> QED BY <3>1, <3>2
  <2> QED BY <2>2, <2>3
<1>5. now' + requeue' # None
  BY <1>1, DNSAssumption DEF TypeOK
<1>6. \A i \in Sources : fresh'[i].error = None =>
        \A v \in RecordValues(fresh'[i]) : KeptUntil(fresh[i], i, v, Awaited)'
  BY <1>4, <1>5 DEF KeptUntil, Awaited
<1> QED BY <1>2, <1>6 DEF ExpiryInv, RecordValues

LEMMA LookupExpiry ==
  ASSUME TypeOK, SeenInv, ExpiryInv, LookupAnswered \/ LookupFailed
  PROVE  ExpiryInv'
<1>1. /\ pc = "lookup" /\ next \in Sources
      /\ UNCHANGED <<clock, now, stored, due, output>> /\ TypeOK'
  BY LookupAnsweredType, LookupFailedType DEF LookupAnswered, LookupFailed, TypeOK
<1>2. CASE LookupAnswered
  <2> DEFINE old      == base.dns[next].lastSeen
             ips      == zone[next].ips
             lastSeen == MergeDNSRecords(old, ips, Grace[next])
             status   == [lastSeen |-> lastSeen, success |-> now, error |-> None]
             e        == NextExpiry(old, ips, Grace[next])
  <2> PICK ttl \in TTLs : LookedUp(status, MinNonZero(RefreshInterval(next, ttl), e))
    BY <1>2 DEF LookupAnswered
  <2> DEFINE r == RefreshInterval(next, ttl)
             d == MinNonZero(r, e)
  <2>1. /\ now \in Times /\ old \in [IPs -> Times \cup {None}] /\ ips \in SUBSET IPs
        /\ Grace[next] \in Nat /\ d \in Nat \ {0}
    BY <1>1, AnswerTypes
  <2>2. LookedUp(status, d)
    OBVIOUS
  <2>3. /\ \A v \in IPs : seen'[next][v] = IF v \in ips THEN now ELSE seen[next][v]
        /\ \A i \in Sources \ {next} : seen'[i] = seen[i]
    BY <1>1, <1>2 DEF LookupAnswered, TypeOK
  <2>4. ASSUME NEW v \in RecordValues(status), v \notin ips
        PROVE  seen'[next][v] # None /\ now + d <= seen'[next][v] + Grace[next]
    <3>1. v \in Held(old, ips, Grace[next]) /\ v \in IPs /\ old[v] # None
      BY <2>4 DEF RecordValues, MergeDNSRecords, Held
    <3>2. e > 0 /\ now + e <= old[v] + Grace[next]
      BY <2>1, <3>1, NextExpiryIsFirst
    <3>3. e \in Nat /\ r \in Nat
      BY <1>1, <2>1, NextExpiryType, Intervals
    <3>4. d <= e
      <4> HIDE DEF e, r
      <4> QED BY <3>2, <3>3, MinNonZeroLeast
    <3>5. seen[next][v] # None /\ old[v] <= seen[next][v]
      BY <1>1, <3>1 DEF SeenInv, NotAhead
    <3>6. old[v] \in Nat /\ seen[next][v] \in Nat /\ now \in Nat
      BY <1>1, <2>1, <3>1, <3>5 DEF TypeOK, Times
    <3> HIDE DEF d, e
    <3> QED BY <2>1, <2>3, <2>4, <3>1, <3>2, <3>3, <3>4, <3>5, <3>6
  <2>5. \A v \in RecordValues(status) :
          \/ seen'[next][v] = status.success
          \/ seen'[next][v] # None /\ d > 0 /\ now + d <= seen'[next][v] + Grace[next]
    <3> SUFFICES ASSUME NEW v \in RecordValues(status), v \notin ips
                 PROVE  seen'[next][v] # None /\ d > 0 /\ now + d <= seen'[next][v] + Grace[next]
      BY <2>3 DEF RecordValues
    <3> HIDE DEF d, status
    <3> QED BY <2>1, <2>4
  <2> HIDE DEF d, status
  <2> QED BY <1>1, <2>1, <2>2, <2>3, <2>5, LookedUpExpiry
<1>3. CASE LookupFailed
  <2>1. base.dns[next] \in SourceStatuses /\ DNSRetryInterval(next) \in Nat /\ seen' = seen
    BY <1>1, <1>3, RetryIntervalType DEF TypeOK, CRRecords, LookupFailed
  <2>2. ASSUME NEW e \in Texts,
               LookedUp([base.dns[next] EXCEPT !.error = e], DNSRetryInterval(next))
        PROVE  ExpiryInv'
    <3> DEFINE s == [base.dns[next] EXCEPT !.error = e]
    <3>1. s.error # None
      BY <2>1, DNSAssumption DEF SourceStatuses
    <3> HIDE DEF s
    <3>2. LookedUp(s, DNSRetryInterval(next))
      BY <2>2 DEF s
    <3> QED BY <1>1, <2>1, <3>1, <3>2, LookedUpExpiry
  <2>3. ASSUME NEW e, ready' = [reason |-> "DNSLookupFailed", message |-> e], pc' = "status"
        PROVE  ExpiryInv'
    BY <1>1, <2>3 DEF ExpiryInv
  <2> QED BY <1>3, <2>2, <2>3 DEF LookupFailed
<1> QED BY <1>2, <1>3

LEMMA NextExpiryInv ==
  ASSUME Prompt, TypeOK, SeenInv, ExpiryInv, [Next]_vars
  PROVE  ExpiryInv'
<1>1. /\ \A k \in {"slow", "finalizer"} : ~Disturbed(k)
      /\ MinRequeue = 1
  BY DEF Prompt, Disturbed
<1>2. /\ clock \in Nat /\ now \in Nat /\ due \in Nat \cup {None} /\ requeue \in Nat
      /\ None \notin Nat
      /\ \A i \in Sources : Grace[i] \in Nat
      /\ \A i \in Sources, v \in IPs : seen[i][v] \in Nat \cup {None}
  BY DNSAssumption DEF TypeOK, Times
<1>3. CASE Start
  <2>1. /\ now' = clock /\ clock' = clock /\ retry' = FALSE /\ fresh' = NoStatuses
        /\ pc' \in {"lookup", "render"}
    BY <1>3 DEF Start
  <2>2. \A i \in Sources : RecordValues(fresh'[i]) = {}
    BY <2>1 DEF RecordValues, NoStatuses, NoStatus
  <2> QED BY <2>1, <2>2 DEF ExpiryInv, RecordValues
<1>4. CASE LookupAnswered \/ LookupFailed
  BY <1>4, LookupExpiry
<1>5. CASE Deliver
  <2>1. /\ pc = "render" /\ pc' = "status" /\ UNCHANGED <<clock, now, seen>>
    BY <1>5 DEF Deliver
  <2>2. ASSUME ready' = Because("RenderSuccess")
        PROVE  /\ output' = [i \in Sources |-> RecordValues(fresh[i])]
               /\ UNCHANGED <<fresh, retry>>
               /\ requeue' = IF requeue \in 1 .. MinRequeue - 1 THEN MinRequeue ELSE requeue
    BY <1>1, <1>5, <2>2 DEF Deliver, Because
  <2>3. ready'.reason = "RenderSuccess" => ready' = Because("RenderSuccess")
    BY <1>1, <1>5 DEF Deliver, Because
  <2>4. 1 .. MinRequeue - 1 = {}
    BY <1>1
  <2>5. ASSUME ready'.reason = "RenderSuccess"
        PROVE  /\ ~retry'
               /\ \A i \in Sources : fresh'[i].error = None =>
                    \A v \in output'[i] : KeptUntil(fresh[i], i, v, Awaited)'
    <3>1. /\ \A i \in Sources : output'[i] = RecordValues(fresh[i])
          /\ UNCHANGED <<fresh, retry, requeue>>
      BY <2>2, <2>3, <2>4, <2>5
    <3> QED BY <2>1, <3>1 DEF ExpiryInv, KeptUntil, Awaited
  <2> QED BY <2>1, <2>5 DEF ExpiryInv
<1>6. CASE UpdateStatus
  <2>1. /\ pc = "status" /\ pc' = "idle" /\ UNCHANGED <<clock, output, seen>>
    BY <1>6 DEF UpdateStatus
  <2>2. CASE due' = Soonest(clock)
    <3>1. due' # None /\ due' \in Nat /\ due' <= clock
      BY <1>2, <2>2 DEF Soonest
    <3> QED BY <1>2, <2>1, <3>1 DEF ExpiryInv
  <2>3. CASE /\ stored' = [stored EXCEPT !.dns = fresh, !.ready = ready]
             /\ due' = IF retry THEN Soonest(clock + Backoff)
                       ELSE IF requeue > 0 THEN Soonest(clock + requeue) ELSE due
    <3>1. stored'.dns = fresh /\ stored'.ready = ready
      BY <2>3 DEF TypeOK, CRRecords
    <3>2. ASSUME ready.reason = "RenderSuccess", NEW i \in Sources, fresh[i].error = None,
                 NEW v \in output[i]
          PROVE  KeptUntil(fresh[i], i, v, due)'
      <4>1. ~retry /\ KeptUntil(fresh[i], i, v, Awaited) /\ now = clock
        BY <2>1, <3>2 DEF ExpiryInv
      <4>2. v \in IPs /\ fresh' = fresh
        BY <1>6, <3>2 DEF TypeOK, UpdateStatus
      <4>3. CASE seen[i][v] = fresh[i].success
        BY <2>1, <4>2, <4>3 DEF KeptUntil
      <4>4. CASE seen[i][v] # fresh[i].success
        <5>1. seen[i][v] # None /\ requeue > 0 /\ clock + requeue <= seen[i][v] + Grace[i]
          BY <4>1, <4>4 DEF KeptUntil, Awaited
        <5>2. due' = Soonest(clock + requeue)
          BY <2>3, <4>1, <5>1
        <5>3. due' # None /\ due' \in Nat /\ due' <= clock + requeue
          BY <1>2, <5>2 DEF Soonest
        <5>4. due' <= seen[i][v] + Grace[i]
          BY <1>2, <4>2, <5>1, <5>3
        <5> QED BY <2>1, <5>1, <5>3, <5>4 DEF KeptUntil
      <4> QED BY <4>3, <4>4
    <3>3. ASSUME stored'.ready.reason = "RenderSuccess", NEW i \in Sources,
                 stored'.dns[i].error = None, NEW v \in output'[i]
          PROVE  KeptUntil(stored.dns[i], i, v, due)'
      <4>1. ready.reason = "RenderSuccess" /\ stored'.dns = fresh /\ output' = output
        BY <2>1, <3>1, <3>3
      <4>2. KeptUntil(fresh[i], i, v, due)'
        BY <3>2, <3>3, <4>1
      <4>3. fresh' = fresh
        BY <1>6 DEF UpdateStatus
      <4> QED BY <4>1, <4>2, <4>3 DEF KeptUntil
    <3> QED BY <2>1, <3>3 DEF ExpiryInv
  <2> QED BY <1>6, <2>2, <2>3 DEF UpdateStatus
<1>7. CASE SyncStatus \/ OutsideEvent \/ Restart
  <2>1. due' # None /\ due' <= clock
    BY <1>2, <1>7 DEF SyncStatus, OutsideEvent, Restart, Soonest
  <2>2. clock' = clock
    BY <1>7 DEF SyncStatus, OutsideEvent, Restart
  <2>3. due' \in Nat
    BY <1>2, <1>7 DEF SyncStatus, OutsideEvent, Restart, Soonest
  <2>4. pc' = "idle" \/ UNCHANGED <<workerVars, output, seen>>
    BY <1>7 DEF SyncStatus, OutsideEvent, Restart, historyVars
  <2> QED BY <1>2, <2>1, <2>2, <2>3, <2>4 DEF ExpiryInv, workerVars, KeptUntil, Awaited, RecordValues
<1>8. CASE Tick
  <2>1. pc = "idle" /\ clock' = clock + 1 /\ (due # None => due > clock)
        /\ UNCHANGED <<stored, due, workerVars, output, seen>>
    BY <1>1, <1>8 DEF Tick
  <2> QED BY <2>1 DEF ExpiryInv, workerVars, KeptUntil
<1>9. CASE UNCHANGED vars \/ \E i \in Sources, a \in Answers : ChangeZone(i, a)
  <2>1. UNCHANGED <<clock, stored, due, workerVars, output, seen>>
    BY <1>9 DEF ChangeZone, vars, workerVars, historyVars
  <2> QED BY <2>1 DEF ExpiryInv, workerVars, KeptUntil, Awaited, RecordValues
<1>10. ASSUME NEW S \in SUBSET Sources, EditSources(S)
       PROVE  ExpiryInv'
  <2>1. /\ UNCHANGED <<clock, due, workerVars, output, seen>>
        /\ stored'.dns = stored.dns /\ stored'.ready = stored.ready
    BY <1>10 DEF EditSources, TypeOK, CRRecords
  <2> QED BY <2>1 DEF ExpiryInv, workerVars, KeptUntil, Awaited, RecordValues
<1> QED BY <1>3, <1>4, <1>5, <1>6, <1>7, <1>8, <1>9, <1>10 DEF Next

(* If reconciles take no time and no update of the finalizer replaces what     *)
(* they computed, then no second passes at rest while the output has an        *)
(* address whose grace period is over, whatever failures, stale copies,        *)
(* conflicts, crashes and edits there are.                                    *)
THEOREM LeavesOnTime ==
  ASSUME Prompt
  PROVE  Spec => ExpiresOnTime
<1> DEFINE A == clock' # clock /\ pc = "idle" /\ stored.ready.reason = "RenderSuccess" =>
                  \A i \in Sources : stored.dns[i].error = None =>
                    \A v \in output[i] :
                      seen[i][v] = stored.dns[i].success \/ InGrace(i, v, clock)
<1>1. ASSUME TypeOK, ExpiryInv, Next, clock' # clock, pc = "idle",
             stored.ready.reason = "RenderSuccess",
             NEW i \in Sources, stored.dns[i].error = None, NEW v \in output[i],
             seen[i][v] # stored.dns[i].success
      PROVE  InGrace(i, v, clock)
  <2>1. Tick
    BY <1>1 DEF Next, Start, LookupAnswered, LookupFailed, Deliver, UpdateStatus, SyncStatus,
                OutsideEvent, Restart, ChangeZone, EditSources
  <2>2. due # None => due > clock
    BY <1>1, <2>1 DEF Tick
  <2>3. seen[i][v] # None /\ due # None /\ due <= seen[i][v] + Grace[i]
    BY <1>1, <2>2 DEF ExpiryInv, KeptUntil
  <2>4. v \in IPs /\ clock \in Nat /\ due \in Nat /\ Grace[i] \in Nat
    BY <1>1, <2>3, DNSAssumption DEF TypeOK, Times
  <2>5. seen[i][v] \in Nat
    BY <1>1, <2>3, <2>4 DEF TypeOK, Times
  <2> QED BY <2>2, <2>3, <2>4, <2>5 DEF InGrace
<1>2. TypeOK /\ ExpiryInv /\ [Next]_vars => [A]_vars
  BY <1>1
<1>3. ExpiresOnTime <=> [][A]_vars
  BY DEF ExpiresOnTime
<1>4. Init => TypeOK /\ SeenInv /\ ExpiryInv
  BY InitTypeOK, InitSeen, InitExpiry
<1>5. TypeOK /\ SeenInv /\ ExpiryInv /\ [Next]_vars => (TypeOK /\ SeenInv /\ ExpiryInv)'
  BY NextTypeOK, NextSeen, NextExpiryInv
<1> HIDE DEF A
<1> QED BY <1>2, <1>3, <1>4, <1>5, PTL DEF Spec

-----------------------------------------------------------------------------
(* Reconciles in a row *)

(* What a reconcile makes of a CR depends on the zones and the time.           *)
LEMMA LookupOfKept ==
  ASSUME UNCHANGED <<zone, now>>, NEW s, NEW i
  PROVE  LookupOf(s, i)' = LookupOf(s, i)
  BY DEF LookupOf, MergeDNSRecords, Held, Expiry

LEMMA LookupsKept ==
  ASSUME UNCHANGED <<zone, now>>, NEW cr
  PROVE  /\ LookupsOf(cr)' = LookupsOf(cr)
         /\ \A i : CanLookUp(cr, i)' <=> CanLookUp(cr, i)
<1>1. LookupsOf(cr)' = LookupsOf(cr)
  BY LookupOfKept DEF LookupsOf
<1>2. \A i : CanLookUp(cr, i)' <=> CanLookUp(cr, i)
  BY DEF CanLookUp
<1> QED BY <1>1, <1>2

LEMMA ReconciledKept ==
  ASSUME UNCHANGED <<zone, now>>, NEW cr
  PROVE  Reconciled(cr)' = Reconciled(cr)
<1>1. (\A i \in Sources : CanLookUp(cr, i))' <=> \A i \in Sources : CanLookUp(cr, i)
  BY LookupsKept
<1>2. LookupsOf(cr)' = LookupsOf(cr) /\ RenderingOf(LookupsOf(cr))' = RenderingOf(LookupsOf(cr))
  BY LookupsKept DEF RenderingOf
<1> QED BY <1>1, <1>2 DEF Reconciled

(* Looking the same thing up again in the same second changes nothing.        *)
LEMMA LookupTwice ==
  ASSUME TypeOK, NEW i \in Sources, NEW s \in SourceStatuses
  PROVE  /\ LookupOf(LookupOf(s, i), i) = LookupOf(s, i)
         /\ zone[i].ok \/ s.success # None => LookupOf(s, i).success # None
<1>1. now \in Nat /\ now # None /\ Grace[i] \in Nat
  BY DNSAssumption DEF TypeOK, Times
<1>2. CASE zone[i].ok
  <2> DEFINE L == MergeDNSRecords(s.lastSeen, zone[i].ips, Grace[i])
  <2>1. LookupOf(s, i) = [lastSeen |-> L, success |-> now, error |-> None]
    BY <1>2 DEF LookupOf
  <2>2. MergeDNSRecords(L, zone[i].ips, Grace[i]) = L
    BY <1>1 DEF MergeDNSRecords, Held, Expiry
  <2> QED BY <1>1, <1>2, <2>1, <2>2 DEF LookupOf
<1>3. CASE ~zone[i].ok
  BY <1>3 DEF LookupOf
<1> QED BY <1>2, <1>3

(* A source that could be looked up still can be, with the same result.        *)
LEMMA LookupsTwice ==
  ASSUME TypeOK, NEW cr \in CRRecords, NEW y,
         \A i \in Sources : CanLookUp(cr, i)
  PROVE  LET again == [cr EXCEPT !.dns = LookupsOf(cr), !.ready = y] IN
         /\ \A i \in Sources : CanLookUp(again, i)
         /\ LookupsOf(again) = LookupsOf(cr)
<1> DEFINE again == [cr EXCEPT !.dns = LookupsOf(cr), !.ready = y]
<1>1. again.sources = cr.sources /\ again.dns = LookupsOf(cr) /\ cr.dns \in [Sources -> SourceStatuses]
  BY DEF CRRecords
<1>2. \A i \in Sources : i \in cr.sources => again.dns[i] = LookupOf(cr.dns[i], i)
  BY <1>1 DEF LookupsOf
<1>3. \A i \in Sources : CanLookUp(again, i)
  BY <1>1, <1>2, LookupTwice DEF CanLookUp
<1>4. \A i \in Sources : i \in cr.sources => LookupOf(again.dns[i], i) = LookupOf(cr.dns[i], i)
  BY <1>1, <1>2, LookupTwice
<1>5. LookupsOf(again) = LookupsOf(cr)
  BY <1>1, <1>4 DEF LookupsOf
<1> QED BY <1>3, <1>5

(* A reconcile of the CR with its right condition comes to the same.          *)
LEMMA ConditionIgnored ==
  ASSUME NEW cr \in CRRecords
  PROVE  Reconciled([cr EXCEPT !.ready = Reconciled(cr).ready]) = Reconciled(cr)
<1> DEFINE other == [cr EXCEPT !.ready = Reconciled(cr).ready]
<1>1. CASE \A i \in Sources : CanLookUp(cr, i)
  <2>1. other.sources = cr.sources /\ other.dns = cr.dns
    BY DEF CRRecords
  <2>2. LookupsOf(other) = LookupsOf(cr) /\ \A i \in Sources : CanLookUp(other, i)
    BY <1>1, <2>1 DEF LookupsOf, CanLookUp
  <2> QED BY <1>1, <2>2 DEF Reconciled, CRRecords
<1>2. CASE ~\A i \in Sources : CanLookUp(cr, i)
  <2>1. Reconciled(cr) = cr
    BY <1>2 DEF Reconciled
  <2> QED BY <2>1 DEF CRRecords
<1> QED BY <1>1, <1>2

(* What a reconcile makes of statuses and condition.                          *)
LEMMA ReconciledParts ==
  ASSUME NEW cr \in CRRecords
  PROVE  /\ Reconciled(cr) = [cr EXCEPT !.dns = Reconciled(cr).dns, !.ready = Reconciled(cr).ready]
         /\ (\A i \in Sources : CanLookUp(cr, i)) =>
              /\ Reconciled(cr).dns = LookupsOf(cr)
              /\ Reconciled(cr).ready = RenderingOf(LookupsOf(cr))
         /\ ~(\A i \in Sources : CanLookUp(cr, i)) => Reconciled(cr) = cr
  BY DEF Reconciled, CRRecords

(* A second reconcile changes nothing.                                        *)
LEMMA ReconciledTwice ==
  ASSUME TypeOK, NEW cr \in CRRecords
  PROVE  Reconciled(Reconciled(cr)) = Reconciled(cr)
<1>1. CASE \A i \in Sources : CanLookUp(cr, i)
  <2> DEFINE again == [cr EXCEPT !.dns = LookupsOf(cr), !.ready = RenderingOf(LookupsOf(cr))]
  <2>1. Reconciled(cr) = again
    BY <1>1 DEF Reconciled
  <2>2. (\A i \in Sources : CanLookUp(again, i)) /\ LookupsOf(again) = LookupsOf(cr)
    BY <1>1, LookupsTwice
  <2>3. Reconciled(again) = [again EXCEPT !.dns = LookupsOf(cr), !.ready = RenderingOf(LookupsOf(cr))]
    BY <2>2 DEF Reconciled
  <2> QED BY <2>1, <2>3 DEF CRRecords
<1>2. CASE ~\A i \in Sources : CanLookUp(cr, i)
  <2>1. Reconciled(cr) = cr
    BY <1>2 DEF Reconciled
  <2> QED BY <2>1
<1> QED BY <1>1, <1>2

(* A disturbance ends the burst.                                             *)
LEMMA BurstOver ==
  ASSUME burst' = 0
  PROVE  BurstInv'
  BY DEF BurstInv

(* The key is taken: a burst goes on only if something has changed.            *)
LEMMA StartBurst ==
  ASSUME TypeOK, BurstInv, Start
  PROVE  BurstInv'
<1>1. /\ pc = "idle" /\ pc' \in {"lookup", "render"} /\ now' = clock /\ clock' = clock
      /\ base' = cache /\ fresh' = NoStatuses /\ ready' = cache.ready /\ due' = None
      /\ UNCHANGED <<zone, stored, cache>> /\ ~NotDue /\ burst \in 0 .. 3 /\ burst' = burst + 1
  BY DNSAssumption DEF Start, CountBurst, NotDue, TypeOK, Times, BurstInv, LoopLength
<1>2. burst > 0 => /\ cache = stored /\ UNCHANGED <<zone, now>>
                   /\ Reconciled(base)' = Reconciled(stored)
  BY <1>1, ReconciledKept DEF BurstInv
<1>3. burst' > 1 => (base = stored /\ Reconciled(base).ready = base.ready)'
  BY <1>1, <1>2 DEF BurstInv
<1>4. burst' > 2 => (Reconciled(base) = base)'
  <2>1. burst' > 2 => burst = 2 \/ burst = 3
    BY <1>1
  <2> QED BY <1>1, <1>2, <2>1 DEF BurstInv
<1>5. burst' <= 3
  BY <1>1 DEF BurstInv
<1>6. 1 \in 1 .. N + 1
  BY DNSAssumption
<1>7. \A i \in Sources : i \notin cache.sources =>
        CanLookUp(base, i)' /\ fresh'[i] = NoStatus /\ LookupsOf(base)'[i] = NoStatus
  BY <1>1 DEF CanLookUp, LookupsOf, NoStatuses
<1>8. CASE cache.sources = {}
  <2>1. pc' = "render"
    BY <1>8 DEF Start
  <2>2. fresh' = LookupsOf(base)'
    BY <1>1, <1>8 DEF LookupsOf, NoStatuses
  <2> QED BY <1>1, <1>3, <1>4, <1>5, <1>7, <1>8, <2>1, <2>2 DEF BurstInv
<1>9. CASE cache.sources # {}
  <2>1. pc' = "lookup" /\ next' = SourceFrom(cache, 1)
    BY <1>9 DEF Start
  <2>2. next' \in Sources
    BY <2>1, StartType DEF TypeOK
  <2>3. /\ next' \in cache.sources \/ next' = N + 1
        /\ \A j \in 1 .. next' - 1 : j \notin cache.sources
    BY <1>6, <2>1, SourceFromFirst
  <2>4. /\ next' \in cache.sources
        /\ \A i \in Sources : i < next' => i \notin cache.sources
    <3>1. next' # N + 1
      BY <2>2, DNSAssumption DEF Sources
    <3>2. next' \in Nat
      BY <2>2, DNSAssumption DEF Sources
    <3>3. \A i \in Sources : i \in Nat /\ 1 <= i
      BY DNSAssumption DEF Sources
    <3>4. \A i \in Sources : i < next' => i \in 1 .. next' - 1
      BY <3>2, <3>3
    <3> QED BY <2>3, <3>1, <3>4
  <2>5. \A i \in Sources : fresh'[i] = NoStatus
    BY <1>1 DEF NoStatuses
  <2> QED BY <1>1, <1>3, <1>4, <1>5, <1>7, <2>1, <2>2, <2>4, <2>5 DEF BurstInv
<1> QED BY <1>8, <1>9

(* The next source has been looked up, in a burst.                            *)
LEMMA LookedUpBurst ==
  ASSUME TypeOK, BurstInv, pc = "lookup", burst > 0, NEW s \in SourceStatuses, NEW d \in Nat,
         LookedUp(s, d), s = LookupOf(base.dns[next], next), CanLookUp(base, next),
         UNCHANGED <<clock, zone, stored, cache, due, now, base, burst>>
  PROVE  BurstInv'
<1>1. /\ pc' \in {"lookup", "render"} /\ next' = SourceFrom(base, next + 1)
      /\ fresh' = [fresh EXCEPT ![next] = s] /\ UNCHANGED ready
      /\ next \in Sources /\ next \in base.sources
      /\ pc' = "lookup" <=> next' # N + 1
  BY DEF LookedUp, TypeOK, BurstInv
<1>2. fresh \in [Sources -> SourceStatuses]
  BY DEF TypeOK
<1>3. /\ next + 1 \in 1 .. N + 1 /\ next \in Nat
  BY <1>1, DNSAssumption DEF Sources
<1>4. /\ next' \in next + 1 .. N + 1
      /\ next' \in base.sources \/ next' = N + 1
      /\ \A j \in next + 1 .. next' - 1 : j \notin base.sources
  BY <1>1, <1>3, SourceFromFirst
<1>5. ASSUME NEW i \in Sources
      PROVE  IF i < next' THEN CanLookUp(base, i) /\ fresh'[i] = LookupsOf(base)[i]
                          ELSE fresh'[i] = NoStatus
  <2>1. CASE i = next
    BY <1>1, <1>2, <1>4, <2>1, DNSAssumption DEF LookupsOf, Sources
  <2>2. CASE i < next
    <3>1. fresh'[i] = fresh[i] /\ i < next'
      BY <1>1, <1>2, <1>3, <1>4, <2>2, DNSAssumption DEF Sources
    <3> QED BY <2>2, <3>1 DEF BurstInv
  <2>3. CASE i > next
    <3>1. fresh'[i] = NoStatus
      <4>1. fresh'[i] = fresh[i]
        BY <1>1, <1>2, <1>3, <2>3, DNSAssumption DEF Sources
      <4>2. ~(i < next)
        BY <1>3, <2>3, DNSAssumption DEF Sources
      <4> QED BY <4>1, <4>2 DEF BurstInv
    <3>2. i < next' => i \notin base.sources
      <4>1. i \in Nat /\ next \in Nat /\ next' \in Nat
        BY <1>3, <1>4, DNSAssumption DEF Sources
      <4>2. i < next' => i \in next + 1 .. next' - 1
        BY <2>3, <4>1
      <4> QED BY <1>4, <4>2
    <3> QED BY <3>1, <3>2 DEF LookupsOf, CanLookUp
  <2> QED BY <1>3, <2>1, <2>2, <2>3, DNSAssumption DEF Sources
<1>6. /\ Reconciled(base)' = Reconciled(base) /\ LookupsOf(base)' = LookupsOf(base)
      /\ \A i : CanLookUp(base, i)' <=> CanLookUp(base, i)
  BY ReconciledKept, LookupsKept
<1>7. pc' = "render" => (\A i \in Sources : CanLookUp(base, i)) /\ fresh' = LookupsOf(base)
  <2>1. ASSUME pc' = "render" PROVE \A i \in Sources : i < next'
    BY <1>1, <2>1, DNSAssumption DEF Sources
  <2>2. fresh' \in [Sources -> SourceStatuses]
    BY <1>1, <1>2
  <2>3. ASSUME pc' = "render" PROVE fresh' = LookupsOf(base)
    BY <1>5, <2>1, <2>2, <2>3 DEF LookupsOf
  <2> QED BY <1>5, <2>1, <2>3
<1> QED BY <1>1, <1>4, <1>5, <1>6, <1>7 DEF BurstInv

LEMMA AnsweredBurst ==
  ASSUME TypeOK, BurstInv, LookupAnswered
  PROVE  BurstInv'
<1>1. /\ pc = "lookup" /\ zone[next].ok /\ next \in Sources
      /\ UNCHANGED <<clock, zone, stored, cache, due, now, base, burst>>
  BY DEF LookupAnswered, TypeOK
<1>2. CASE burst = 0
  BY <1>1, <1>2, BurstOver
<1>3. CASE burst > 0
  <2> DEFINE s == LookupOf(base.dns[next], next)
             d(ttl) == MinNonZero(RefreshInterval(next, ttl),
                             NextExpiry(base.dns[next].lastSeen, zone[next].ips, Grace[next]))
  <2>1. s = [lastSeen |-> MergeDNSRecords(base.dns[next].lastSeen, zone[next].ips, Grace[next]),
             success |-> now, error |-> None]
    BY <1>1 DEF LookupOf
  <2>2. PICK ttl \in TTLs : LookedUp(s, d(ttl))
    BY <2>1 DEF LookupAnswered
  <2>3. s \in SourceStatuses /\ d(ttl) \in Nat
    <3>1. MergeDNSRecords(base.dns[next].lastSeen, zone[next].ips, Grace[next])
            \in [IPs -> Times \cup {None}]
      BY <1>1, AnswerTypes, MergeType
    <3>2. s \in SourceStatuses
      BY <1>1, <2>1, <3>1, AnswerTypes DEF SourceStatuses
    <3>3. d(ttl) \in Nat
      BY <1>1, AnswerTypes
    <3> QED BY <3>2, <3>3
  <2>4. CanLookUp(base, next)
    BY <1>1 DEF CanLookUp
  <2> QED BY <1>1, <1>3, <2>2, <2>3, <2>4, LookedUpBurst
<1>4. burst = 0 \/ burst > 0
  BY DEF TypeOK, LoopLength
<1> QED BY <1>2, <1>3, <1>4

(* A lookup that fails as it did before leaves the CR as it is.               *)
LEMMA FailedBurst ==
  ASSUME TypeOK, BurstInv, LookupFailed
  PROVE  BurstInv'
<1>1. /\ pc = "lookup" /\ ~zone[next].ok /\ next \in Sources
      /\ UNCHANGED <<clock, zone, stored, cache, due, now, base>>
      /\ base \in CRRecords /\ base.dns[next] \in SourceStatuses
  BY DEF LookupFailed, TypeOK, CRRecords
<1>2. CASE burst' = 0
  BY <1>2, BurstOver
<1>3. CASE burst' # 0
  <2>1. PICK e \in Texts :
          \/ /\ base.dns[next].success # None
             /\ LookedUp([base.dns[next] EXCEPT !.error = e], DNSRetryInterval(next))
             /\ burst' = IF e = base.dns[next].error THEN burst ELSE 0
          \/ /\ base.dns[next].success = None
             /\ fresh' = base.dns /\ pc' = "status"
             /\ burst' = IF ready' = base.ready THEN burst ELSE 0
    BY DEF LookupFailed
  <2>2. burst' = burst /\ burst > 0
    BY <1>3, <2>1 DEF TypeOK, LoopLength
  <2>3. CASE /\ base.dns[next].success # None
             /\ LookedUp([base.dns[next] EXCEPT !.error = e], DNSRetryInterval(next))
             /\ e = base.dns[next].error
    <3>1. [base.dns[next] EXCEPT !.error = e] = base.dns[next]
      BY <1>1, <2>3 DEF SourceStatuses
    <3>2. base.dns[next] = LookupOf(base.dns[next], next)
      BY <1>1 DEF LookupOf
    <3>3. CanLookUp(base, next) /\ DNSRetryInterval(next) \in Nat
      BY <1>1, <2>3, RetryIntervalType DEF CanLookUp
    <3> QED BY <1>1, <2>2, <2>3, <3>1, <3>2, <3>3, LookedUpBurst
  <2>4. CASE /\ base.dns[next].success = None
             /\ fresh' = base.dns /\ pc' = "status"
             /\ ready' = base.ready
    <3>1. ~CanLookUp(base, next)
      BY <1>1, <2>2, <2>4 DEF CanLookUp, BurstInv
    <3>2. Reconciled(base) = base
      BY <1>1, <3>1, ReconciledParts
    <3>3. Reconciled(base)' = Reconciled(base)
      BY <1>1, ReconciledKept
    <3> QED BY <1>1, <2>2, <2>4, <3>2, <3>3 DEF BurstInv
  <2> QED BY <1>3, <2>1, <2>3, <2>4
<1> QED BY <1>2, <1>3

LEMMA DeliverBurst ==
  ASSUME TypeOK, BurstInv, Deliver
  PROVE  BurstInv'
<1>1. /\ pc = "render" /\ pc' = "status" /\ burst' \in {0, burst}
      /\ UNCHANGED <<clock, zone, stored, cache, due, now, base>>
  BY DEF Deliver
<1>2. CASE burst' = 0
  BY <1>1, <1>2, BurstOver
<1>3. CASE burst' = burst /\ burst > 0
  <2>1. /\ fresh = LookupsOf(base) /\ base \in CRRecords
        /\ fresh = Reconciled(base).dns /\ Reconciled(base).ready = RenderingOf(fresh)
    BY <1>1, <1>3, ReconciledParts DEF BurstInv, TypeOK
  <2>2. base = stored => ready' = RenderingOf(fresh) /\ fresh' \in {fresh, base.dns}
    <3> DEFINE values == [i \in Sources |-> RecordValues(fresh[i])]
    <3>1. base = stored => fresh' \in {fresh, base.dns}
      BY DEF Deliver, StatusesInReply
    <3>2. values \in Renderable /\ base = stored => ready' = Because("RenderSuccess")
      BY <1>3 DEF Deliver
    <3>3. values \notin Renderable => ready' = Because("RenderFailed")
      BY <1>3 DEF Deliver
    <3> QED BY <3>1, <3>2, <3>3 DEF RenderingOf
  <2>3. Reconciled(base)' = Reconciled(base)
    BY <1>1, ReconciledKept
  <2> QED BY <1>1, <1>3, <2>1, <2>2, <2>3 DEF BurstInv
<1>4. burst = 0 \/ burst > 0
  BY DEF TypeOK, LoopLength
<1> QED BY <1>1, <1>2, <1>3, <1>4

(* The update makes the condition right, and by the second time the statuses.  *)
LEMMA UpdateStatusBurst ==
  ASSUME TypeOK, BurstInv, UpdateStatus
  PROVE  BurstInv'
<1>1. pc = "status" /\ pc' = "idle" /\ UNCHANGED <<clock, zone, cache, now, base>>
  BY DEF UpdateStatus
<1>2. CASE burst' = 0
  BY <1>1, <1>2, BurstOver
<1>3. CASE burst' > 0
  <2>1. /\ base = stored /\ burst' = burst
        /\ stored' = [stored EXCEPT !.dns = fresh, !.ready = ready]
        /\ due' = IF retry THEN Soonest(clock + Backoff)
                  ELSE IF requeue > 0 THEN Soonest(clock + requeue) ELSE due
    BY <1>3 DEF UpdateStatus
  <2>2. /\ cache = stored /\ due = None /\ stored \in CRRecords /\ stored' \in CRRecords
        /\ ready = Reconciled(stored).ready
        /\ fresh \in {Reconciled(stored).dns, stored.dns}
    BY <1>1, <1>3, <2>1, UpdateStatusType DEF BurstInv, TypeOK
  <2>3. NotDue'
    BY <1>1, <2>1, <2>2, DNSAssumption DEF TypeOK, Times, Soonest, NotDue
  <2>4. stored' = Reconciled(stored) \/ stored' = [stored EXCEPT !.ready = ready]
    <3>1. CASE fresh = Reconciled(stored).dns
      BY <2>1, <2>2, <3>1, ReconciledParts
    <3>2. CASE fresh = stored.dns
      BY <2>1, <2>2, <3>2 DEF CRRecords
    <3> QED BY <2>2, <3>1, <3>2
  <2>5. Reconciled(stored') = Reconciled(stored)
    BY <2>2, <2>4, ReconciledTwice, ConditionIgnored
  <2>6. Reconciled(stored)' = Reconciled(stored)
    BY <1>1, <2>5, ReconciledKept
  <2>7. Reconciled(stored)'.ready = stored'.ready
    BY <2>1, <2>2, <2>6 DEF CRRecords
  <2>8. burst > 1 => stored' = stored \/ stored' = Reconciled(stored)'
    <3>1. burst > 1 => ready = stored.ready
      BY <1>1, <2>1, <2>2 DEF BurstInv
    <3>2. stored = [stored EXCEPT !.ready = stored.ready]
      BY <2>2 DEF CRRecords
    <3> QED BY <2>4, <2>6, <3>1, <3>2
  <2>9. burst > 2 => stored' = stored
    <3>1. burst > 2 => ready = stored.ready /\ fresh = stored.dns
      BY <1>1, <2>1, <2>2 DEF BurstInv
    <3>2. [stored EXCEPT !.dns = stored.dns, !.ready = stored.ready] = stored
      BY <2>2 DEF CRRecords
    <3> QED BY <2>1, <3>1, <3>2
  <2>10. burst \in 0 .. 3 /\ (now = clock)'
    BY <1>1, <1>3, <2>1 DEF BurstInv, TypeOK, LoopLength
  <2> QED BY <1>1, <1>3, <2>1, <2>2, <2>3, <2>6, <2>7, <2>8, <2>9, <2>10 DEF BurstInv
<1>4. burst' = 0 \/ burst' > 0
  BY UpdateStatusType DEF TypeOK, LoopLength
<1> QED BY <1>2, <1>3, <1>4

(* The status of the last reconcile wakes the operator up once more.           *)
LEMMA SyncStatusBurst ==
  ASSUME TypeOK, BurstInv, SyncStatus
  PROVE  BurstInv'
<1>1. /\ cache # stored /\ cache' = stored /\ due' = Soonest(clock)
      /\ UNCHANGED <<clock, zone, stored, pc, next, now, base, fresh, ready, burst>>
  BY DEF SyncStatus, workerVars, historyVars
<1>2. /\ Reconciled(stored)' = Reconciled(stored) /\ Reconciled(base)' = Reconciled(base)
      /\ LookupsOf(base)' = LookupsOf(base) /\ \A i : CanLookUp(base, i)' <=> CanLookUp(base, i)
  BY <1>1, ReconciledKept, LookupsKept
<1>3. burst > 0 /\ pc # "idle" => base # stored
  BY <1>1 DEF BurstInv
<1>4. ~(burst = 3 /\ pc = "idle")
  BY <1>1 DEF BurstInv
<1>5. burst = 2 /\ pc = "idle" => Reconciled(stored) = stored
  BY <1>1 DEF BurstInv
<1> QED BY <1>1, <1>2, <1>3, <1>4, <1>5 DEF BurstInv

LEMMA NextBurst ==
  ASSUME TypeOK, BurstInv, [Next]_vars
  PROVE  BurstInv'
<1>1. CASE Start
  BY <1>1, StartBurst
<1>2. CASE LookupAnswered
  BY <1>2, AnsweredBurst
<1>3. CASE LookupFailed
  BY <1>3, FailedBurst
<1>4. CASE Deliver
  BY <1>4, DeliverBurst
<1>5. CASE UpdateStatus
  BY <1>5, UpdateStatusBurst
<1>6. CASE SyncStatus
  BY <1>6, SyncStatusBurst
<1>7. CASE Tick
  BY <1>7, BurstOver DEF Tick
<1>8. CASE Restart
  BY <1>8, BurstOver DEF Restart
<1>9. CASE \/ OutsideEvent \/ \E S \in SUBSET Sources : EditSources(S)
           \/ \E i \in Sources, a \in Answers : ChangeZone(i, a)
  BY <1>9, BurstOver DEF OutsideEvent, EditSources, ChangeZone
<1>10. CASE UNCHANGED vars
  <2>1. UNCHANGED <<clock, zone, stored, cache, due, pc, next, now, base, fresh, ready, burst>>
    BY <1>10 DEF vars, workerVars, historyVars
  <2>2. /\ Reconciled(stored)' = Reconciled(stored) /\ Reconciled(base)' = Reconciled(base)
        /\ LookupsOf(base)' = LookupsOf(base) /\ \A i : CanLookUp(base, i)' <=> CanLookUp(base, i)
    BY <2>1, ReconciledKept, LookupsKept
  <2> QED BY <2>1, <2>2 DEF BurstInv, NotDue
<1> QED BY <1>1, <1>2, <1>3, <1>4, <1>5, <1>6, <1>7, <1>8, <1>9, <1>10 DEF Next

(* The operator's own status writes die down: within one second, and while     *)
(* the lookups that fail read as the status says already, at most three         *)
(* reconciles come of its own doing, whatever the answers are, however long a   *)
(* reconcile takes and whatever was lost or outdated before.  With a further    *)
(* second, or another text, they begin again: see MCHotLoop.                   *)
THEOREM RestsSoon == Spec => []RefreshRests
<1>1. Init => TypeOK /\ BurstInv
  BY InitTypeOK, BurstOver DEF Init, BurstInv
<1>2. TypeOK /\ BurstInv /\ [Next]_vars => (TypeOK /\ BurstInv)'
  BY NextTypeOK, NextBurst
<1>3. TypeOK /\ BurstInv => RefreshRests
  BY DEF TypeOK, BurstInv, RefreshRests, LoopLength
<1> QED BY <1>1, <1>2, <1>3, PTL DEF Spec

=============================================================================
