----------------------------- MODULE DNSSources -----------------------------
(***************************************************************************)
(* The DNS sources of one JinjaTemplate: resolveDNSSources of               *)
(* internal/controller/dns.go, MergeDNSRecords of internal/sources/dns.go,  *)
(* and the life of what they compute.  The records known of a source, with   *)
(* the time each was last seen, live in the CR's status.  A reconcile reads   *)
(* them from the informer's copy, looks every source up, renders the values  *)
(* and writes the new records back with the status update at its end.        *)
(*                                                                         *)
(* Time is counted in the unit of the status fields, which is the second.     *)
(* The queue holds the CR at most once, with the earliest time it was asked   *)
(* for.                                                                     *)
(***************************************************************************)
EXTENDS Naturals, FiniteSets

CONSTANTS
  N,             \* the DNS sources a CR can have are 1 .. N, in this order
  IPs,           \* addresses
  Grace,         \* removalGracePeriodSeconds of each source
  Refresh,       \* refreshIntervalSeconds of each source, 0 if unset
  TTLs,          \* what the TTL of an answer can be, 0 if none
  RetryInterval, \* defaultDNSRetryInterval
  RefreshFloor,  \* minDNSRefreshInterval
  MinRequeue,    \* minDNSRequeue
  Backoff,       \* of a reconcile that returned an error
  Texts,         \* what the error of a failed lookup can read
  Renderable,    \* the values the template can be rendered with
  MaxClock,      \* bound of the time
  Faults,        \* the disturbances of a run, a subset of FaultKinds
  None           \* no time, no error

Sources == 1 .. N
Times   == 0 .. MaxClock

(* So many reconciles in one second that nothing but the operator itself asked *)
(* for are a loop; burst counts up to it.                                    *)
LoopLength == 4

(* outside: something the CR depends on changes.  other: the reconcile fails  *)
(* for a reason that is not DNS.  slow: time passes during a reconcile.       *)
(* stale: the informer's copy of the CR lags behind.  conflict: the status    *)
(* update conflicts with another writer.  crash: the operator restarts.      *)
(* edit: users add and remove sources, while the operator rests unless there  *)
(* are conflicts.  finalizer: the output is a raw object that needs the       *)
(* finalizer now and does not at another time.                               *)
FaultKinds == {"fail", "outside", "other", "slow", "stale", "conflict", "crash",
               "edit", "finalizer"}

ASSUME DNSAssumption ==
  /\ N \in Nat /\ N > 0 /\ MaxClock \in Nat
  /\ Grace \in [Sources -> Nat] /\ Refresh \in [Sources -> Nat]
  /\ TTLs \subseteq Nat
  /\ {RetryInterval, RefreshFloor, MinRequeue, Backoff} \subseteq Nat \ {0}
  /\ Renderable \subseteq [Sources -> SUBSET IPs]
  /\ Faults \subseteq FaultKinds
  /\ None \notin Nat \cup Texts

VARIABLES
  clock,   \* the time
  zone,    \* what a lookup of each source is answered with
  stored,  \* the CR at the API server: its DNS sources and its status
  cache,   \* the informer's copy of it
  due,     \* when the CR is to be reconciled, None if it is not queued
  pc,      \* where the worker is
  next,    \* the source it looks up next
  now,     \* the time its reconcile started
  base,    \* the CR it read
  fresh,   \* the source statuses it computed
  requeue, \* the shortest interval it computed, 0 if none
  retry,   \* does its reconcile return an error?
  ready,   \* the Ready condition it set
  output,  \* the values in the output object
  seen,    \* history: when an address was last in an answer
  known,   \* history: the records the last answered lookup left
  burst    \* history: reconciles in this second, see CountBurst

workerVars  == <<pc, next, now, base, fresh, requeue, retry, ready>>
historyVars == <<seen, known, burst>>
vars == <<clock, zone, stored, cache, due, workerVars, output, historyVars>>

-----------------------------------------------------------------------------
(* DNSSourceStatus; a source without one has never been looked up.           *)
SourceStatuses == [lastSeen : [IPs -> Times \cup {None}],
                   success : Times \cup {None}, error : Texts \cup {None}]
NoStatus  == [lastSeen |-> [v \in IPs |-> None], success |-> None, error |-> None]
NoStatuses == [i \in Sources |-> NoStatus]

Reasons  == {"Unset", "DNSLookupFailed", "SourceResolutionFailed",
             "RenderFailed", "RenderSuccess"}

(* The Ready condition: its message is the error of a lookup or follows from   *)
(* the reason.                                                               *)
Conditions == [reason : Reasons, message : Texts \cup {None}]
Because(reason) == [reason |-> reason, message |-> None]

CRRecords == [sources : SUBSET Sources, dns : [Sources -> SourceStatuses],
              ready : Conditions]

(* NXDOMAIN and empty answers are successful lookups; timeouts and SERVFAIL   *)
(* are not.                                                                  *)
LookupResults == [ok : {TRUE}, ips : SUBSET IPs]
Failure       == [ok |-> FALSE, ips |-> {}]

RecordValues(s) == {v \in IPs : s.lastSeen[v] # None}

Disturbed(kind) == kind \in Faults

-----------------------------------------------------------------------------
(* Pure parts *)

Expiry(old, v, grace) == old[v] + grace

(* Mutant of Held: a record is dropped one second early.                     *)
HeldTooShort(old, ips, grace) ==
  {v \in IPs \ ips : old[v] # None /\ Expiry(old, v, grace) > now + 1}

(* Mutant of Held: a record is dropped one second late.                      *)
HeldTooLong(old, ips, grace) ==
  {v \in IPs \ ips : old[v] # None /\ Expiry(old, v, grace) >= now}

(* The records missing from the answer that are kept.                        *)
Held(old, ips, grace) ==
  {v \in IPs \ ips : old[v] # None /\ Expiry(old, v, grace) > now}

MergeDNSRecords(old, ips, grace) ==
  [v \in IPs |-> IF v \in ips THEN now
                 ELSE IF v \in Held(old, ips, grace) THEN old[v] ELSE None]

(* Mutant of NextExpiry: the end of a grace period is not waited for.         *)
NextExpiryUnknown(old, ips, grace) == 0

(* How long until the first held record expires, 0 if none is held.          *)
NextExpiry(old, ips, grace) ==
  LET left == {Expiry(old, v, grace) - now : v \in Held(old, ips, grace)} IN
  IF left = {} THEN 0 ELSE CHOOSE d \in left : \A e \in left : d <= e

MinNonZero(a, b) ==
  IF a = 0 THEN b ELSE IF b = 0 THEN a ELSE IF a < b THEN a ELSE b

(* Mutant of RefreshInterval: no fallback for an answer without a TTL.        *)
RefreshByTTL(i, ttl) ==
  IF Refresh[i] > 0 THEN Refresh[i]
  ELSE IF ttl = 0 THEN 0
  ELSE IF ttl < RefreshFloor THEN RefreshFloor ELSE ttl

RefreshInterval(i, ttl) ==
  IF Refresh[i] > 0 THEN Refresh[i]
  ELSE IF ttl = 0 THEN RetryInterval
  ELSE IF ttl < RefreshFloor THEN RefreshFloor ELSE ttl

DNSRetryInterval(i) == IF Refresh[i] > 0 THEN Refresh[i] ELSE RetryInterval

Soonest(t) == IF due # None /\ due < t THEN due ELSE t

-----------------------------------------------------------------------------
(* The worker *)

(* The first source of the CR from k on, N + 1 if there is none.             *)
SourceFrom(cr, k) ==
  CHOOSE i \in k .. N + 1 : /\ i \in cr.sources \/ i = N + 1
                            /\ \A j \in k .. i - 1 : j \notin cr.sources

(* burst counts the reconciles that follow one another within a second, while  *)
(* nothing but the operator's own writes calls for them: it is 0 again when a  *)
(* second passes, a lookup fails with a text the status does not have, or      *)
(* something else happens.                                                   *)
CountBurst == burst' = IF burst < LoopLength THEN burst + 1 ELSE burst

Start ==
  /\ pc = "idle" /\ due # None /\ due <= clock
  /\ cache = stored \/ Disturbed("stale")
  /\ due' = None
  /\ next' = SourceFrom(cache, 1) /\ now' = clock
  /\ pc' = IF cache.sources = {} THEN "render" ELSE "lookup"
  /\ base' = cache /\ ready' = cache.ready
  /\ fresh' = NoStatuses /\ requeue' = 0 /\ retry' = FALSE
  /\ CountBurst
  /\ UNCHANGED <<clock, zone, stored, cache, output, seen, known>>

(* Mutant of LookedUp: the last source is not recognised.                    *)
LookedUpOneMore(status, interval) ==
  /\ fresh' = [fresh EXCEPT ![next] = status]
  /\ requeue' = MinNonZero(requeue, interval)
  /\ next' = SourceFrom(base, next + 1)
  /\ pc' = IF next = N + 1 THEN "render" ELSE "lookup"
  /\ UNCHANGED <<retry, ready>>

(* The next source has been looked up.                                       *)
LookedUp(status, interval) ==
  /\ fresh' = [fresh EXCEPT ![next] = status]
  /\ requeue' = MinNonZero(requeue, interval)
  /\ next' = SourceFrom(base, next + 1)
  /\ pc' = IF next' = N + 1 THEN "render" ELSE "lookup"
  /\ UNCHANGED <<retry, ready>>

(* A successful lookup; an empty answer can have a TTL too, that of an alias. *)
LookupAnswered ==
  /\ pc = "lookup" /\ zone[next].ok
  /\ LET old      == base.dns[next].lastSeen
         ips      == zone[next].ips
         lastSeen == MergeDNSRecords(old, ips, Grace[next])
         status   == [lastSeen |-> lastSeen, success |-> now, error |-> None] IN
     /\ \E ttl \in TTLs :
          LookedUp(status, MinNonZero(RefreshInterval(next, ttl),
                                      NextExpiry(old, ips, Grace[next])))
     /\ seen' = [seen EXCEPT ![next] =
                   [v \in IPs |-> IF v \in ips THEN now ELSE @[v]]]
     /\ known' = [known EXCEPT ![next] = RecordValues(status)]
  /\ UNCHANGED <<clock, zone, stored, cache, due, now, base, output, burst>>

(* Mutant of LookupFailed: it counts as an empty answer.                     *)
LookupFailedAsEmpty ==
  /\ pc = "lookup" /\ ~zone[next].ok
  /\ \E e \in Texts :
       LookedUp([base.dns[next] EXCEPT !.error = e,
                   !.lastSeen = MergeDNSRecords(@, {}, Grace[next])],
                DNSRetryInterval(next))
  /\ burst' = 0
  /\ UNCHANGED <<clock, zone, stored, cache, due, now, base, output, seen, known>>

(* A failed one: what is known stays, and is not aged; without any known     *)
(* state the reconcile fails, and the status of every source stays as read.  *)
LookupFailed ==
  /\ pc = "lookup" /\ ~zone[next].ok
  /\ \E e \in Texts :
       LET prev == base.dns[next] IN
       \/ /\ prev.success # None
          /\ LookedUp([prev EXCEPT !.error = e], DNSRetryInterval(next))
          /\ burst' = IF e = prev.error THEN burst ELSE 0
       \/ /\ prev.success = None
          /\ fresh' = base.dns /\ requeue' = 0 /\ retry' = TRUE
          /\ ready' = [reason |-> "DNSLookupFailed", message |-> e]
          /\ burst' = IF ready' = base.ready THEN burst ELSE 0
          /\ pc' = "status"
          /\ UNCHANGED next
  /\ UNCHANGED <<clock, zone, stored, cache, due, now, base, output, seen, known>>

(* The update of the finalizer answers with the CR as it is stored: its       *)
(* statuses, if it has any, replace those this reconcile computed.           *)
StatusesInReply == IF stored.dns = NoStatuses THEN fresh ELSE stored.dns

(* The rest of the reconcile: the other sources, rendering, the finalizer,    *)
(* the output.                                                               *)
Deliver ==
  /\ pc = "render"
  /\ pc' = "status"
  /\ LET values == [i \in Sources |-> RecordValues(fresh[i])] IN
     \/ /\ values \in Renderable
        /\ output' = values
        /\ ready' = Because("RenderSuccess")
        /\ requeue' = IF requeue \in 1 .. MinRequeue - 1 THEN MinRequeue ELSE requeue
        /\ \/ UNCHANGED fresh
           \/ Disturbed("finalizer") /\ base = stored /\ fresh' = StatusesInReply
        /\ UNCHANGED <<retry, burst>>
     \/ /\ values \in Renderable
        /\ Disturbed("finalizer") /\ base # stored
        /\ requeue' = 0 /\ retry' = TRUE
        /\ UNCHANGED <<output, fresh, ready, burst>>
     \/ /\ values \notin Renderable
        /\ ready' = Because("RenderFailed") /\ requeue' = 0
        /\ UNCHANGED <<output, fresh, retry, burst>>
     \/ /\ Disturbed("other")
        /\ ready' = Because("SourceResolutionFailed") /\ requeue' = 0 /\ retry' = TRUE
        /\ burst' = 0
        /\ UNCHANGED <<output, fresh>>
  /\ UNCHANGED <<clock, zone, stored, cache, due, next, now, base, seen, known>>

(* Mutant of UpdateStatus: a conflict is not followed by another reconcile.   *)
UpdateStatusOnce ==
  /\ pc = "status"
  /\ pc' = "idle"
  /\ \/ /\ base = stored
        /\ stored' = [stored EXCEPT !.dns = fresh, !.ready = ready]
        /\ due' = Soonest(clock + (IF retry THEN Backoff ELSE requeue))
     \/ /\ base # stored \/ Disturbed("conflict")
        /\ UNCHANGED <<stored, due>>
  /\ UNCHANGED <<clock, zone, cache, next, now, base, fresh, requeue, retry, ready,
                 output, historyVars>>

(* Mutant of UpdateStatus: the reconcile asks to be called again at once.     *)
UpdateStatusAgain ==
  /\ pc = "status"
  /\ pc' = "idle" /\ due' = clock
  /\ stored' = IF base = stored THEN [stored EXCEPT !.dns = fresh, !.ready = ready] ELSE stored
  /\ UNCHANGED <<clock, zone, cache, next, now, base, fresh, requeue, retry, ready,
                 output, historyVars>>

(* The status update; then controller-runtime asks again after an error or    *)
(* the interval.  A conflict asks again at once.                             *)
UpdateStatus ==
  /\ pc = "status"
  /\ pc' = "idle"
  /\ \/ /\ base = stored
        /\ stored' = [stored EXCEPT !.dns = fresh, !.ready = ready]
        /\ due' = IF retry THEN Soonest(clock + Backoff)
                  ELSE IF requeue > 0 THEN Soonest(clock + requeue) ELSE due
        /\ UNCHANGED burst
     \/ /\ base # stored \/ Disturbed("conflict")
        /\ due' = Soonest(clock)
        /\ burst' = 0
        /\ UNCHANGED stored
  /\ UNCHANGED <<clock, zone, cache, next, now, base, fresh, requeue, retry, ready,
                 output, seen, known>>

(* The informer shows the new status: a change of the CR, like any other.     *)
SyncStatus ==
  /\ cache # stored
  /\ cache' = stored /\ due' = Soonest(clock)
  /\ UNCHANGED <<clock, zone, stored, workerVars, output, historyVars>>

-----------------------------------------------------------------------------
(* The rest of the world *)

(* Whatever can be done at once is done before time passes, unless slow.      *)
Tick ==
  /\ clock < MaxClock
  /\ clock' = clock + 1 /\ burst' = 0
  /\ \/ pc = "idle" /\ cache = stored /\ (due # None => due > clock)
     \/ pc # "idle" /\ Disturbed("slow")
  /\ UNCHANGED <<zone, stored, cache, due, workerVars, output, seen, known>>

Answers == LookupResults \cup (IF Disturbed("fail") THEN {Failure} ELSE {})

ChangeZone(i, a) ==
  /\ a # zone[i]
  /\ zone' = [zone EXCEPT ![i] = a]
  /\ burst' = 0
  /\ UNCHANGED <<clock, stored, cache, due, workerVars, output, seen, known>>

EditSources(S) ==
  /\ Disturbed("edit") /\ S # stored.sources
  /\ Disturbed("conflict") \/ (pc = "idle" /\ cache = stored)
  /\ stored' = [stored EXCEPT !.sources = S]
  /\ burst' = 0
  /\ UNCHANGED <<clock, zone, cache, due, workerVars, output, seen, known>>

OutsideEvent ==
  /\ Disturbed("outside")
  /\ due' = Soonest(clock) /\ burst' = 0
  /\ UNCHANGED <<clock, zone, stored, cache, workerVars, output, seen, known>>

Restart ==
  /\ Disturbed("crash")
  /\ cache' = stored /\ due' = clock
  /\ pc' = "idle" /\ next' = 1 /\ now' = 0
  /\ base' = stored /\ fresh' = NoStatuses /\ requeue' = 0 /\ retry' = FALSE
  /\ ready' = stored.ready
  /\ burst' = 0
  /\ UNCHANGED <<clock, zone, stored, output, seen, known>>

-----------------------------------------------------------------------------
Init ==
  /\ clock = 0
  /\ zone \in [Sources -> Answers]
  /\ stored \in [sources : IF Disturbed("edit") THEN SUBSET Sources ELSE {Sources},
                 dns : {NoStatuses}, ready : {Because("Unset")}]
  /\ cache = stored
  /\ due = 0
  /\ pc = "idle" /\ next = 1 /\ now = 0
  /\ base = stored /\ fresh = NoStatuses /\ requeue = 0 /\ retry = FALSE
  /\ ready = Because("Unset")
  /\ output = [i \in Sources |-> {}]
  /\ seen = [i \in Sources |-> [v \in IPs |-> None]]
  /\ known = [i \in Sources |-> {}]
  /\ burst = 0

Next ==
  \/ Start \/ LookupAnswered \/ LookupFailed \/ Deliver \/ UpdateStatus
  \/ SyncStatus
  \/ Tick \/ OutsideEvent \/ Restart
  \/ \E i \in Sources, a \in Answers : ChangeZone(i, a)
  \/ \E S \in SUBSET Sources : EditSources(S)

Spec == Init /\ [][Next]_vars

-----------------------------------------------------------------------------
TypeOK ==
  /\ clock \in Times /\ zone \in [Sources -> LookupResults \cup {Failure}]
  /\ stored \in CRRecords /\ cache \in CRRecords /\ base \in CRRecords
  /\ due \in Nat \cup {None}
  /\ pc \in {"idle", "lookup", "render", "status"}
  /\ next \in 1 .. N + 1 /\ (pc = "lookup" => next \in Sources)
  /\ now \in Times
  /\ fresh \in [Sources -> SourceStatuses]
  /\ requeue \in Nat /\ retry \in BOOLEAN /\ ready \in Conditions
  /\ output \in [Sources -> SUBSET IPs]
  /\ seen \in [Sources -> [IPs -> Times \cup {None}]]
  /\ known \in [Sources -> SUBSET IPs]
  /\ burst \in 0 .. LoopLength

(* A reconcile that writes the output; without the check of retry this would  *)
(* be one that stops at the finalizer's update, too, after an earlier success. *)
Delivers == pc = "render" /\ pc' = "status" /\ ready' = Because("RenderSuccess") /\ ~retry'

InGrace(i, v, t) == seen[i][v] # None /\ seen[i][v] + Grace[i] > t

(* "A value that disappears from responses stays in the list until lastSeen  *)
(* + grace has passed": a reconcile that looked a source up successfully      *)
(* takes no address out of the output that some answer showed within the     *)
(* grace period.                                                            *)
GraceHonoured ==
  [][Delivers => \A i \in Sources, v \in IPs :
       /\ i \in base.sources /\ fresh[i].error = None
       /\ v \in output[i] /\ InGrace(i, v, now)
       => v \in output'[i]]_vars

(* ... and not longer: such a reconcile writes only what the answer has or    *)
(* the grace period covers, whatever was lost before.                        *)
NothingHeldTooLong ==
  [][Delivers => \A i \in base.sources : fresh[i].error = None =>
       \A v \in output'[i] : seen[i][v] = now \/ InGrace(i, v, now)]_vars

(* "Lookup failure: the last known records stay in use": a reconcile whose    *)
(* lookup of a source failed writes what the last answered one left.          *)
KnownRecordsStay ==
  [][Delivers => \A i \in Sources :
       fresh[i].error # None => output'[i] = known[i]]_vars

(* A removed address leaves the output on time: no second passes at rest      *)
(* while the output has one whose grace period is over.                       *)
ExpiresOnTime ==
  [][clock' # clock /\ pc = "idle" /\ stored.ready.reason = "RenderSuccess" =>
       \A i \in Sources : stored.dns[i].error = None =>
         \A v \in output[i] :
           seen[i][v] = stored.dns[i].success \/ InGrace(i, v, clock)]_vars

(* No lookup is forgotten: a CR with DNS sources is always due for another   *)
(* one, whatever was lost, unless its template could not be rendered with    *)
(* the last answer.                                                          *)
NextLookupScheduled ==
  pc = "idle" /\ stored.sources # {} =>
    due # None \/ cache # stored \/ stored.ready.reason = "RenderFailed"

(* The operator's own status writes, each of which wakes it up again, die     *)
(* down: whatever was lost or outdated before, within one second and with     *)
(* error texts it has already stored, it reconciles three times at most.       *)
(* MCHotLoop has what happens in later seconds and with new texts.            *)
RefreshRests == burst < LoopLength

-----------------------------------------------------------------------------
(* Why the promises hold.                                                     *)

(* A reconcile of a CR with sources ends with an interval, an error or a      *)
(* template that could not be rendered; and what the informer is to show      *)
(* since it started is still to come, or has queued the CR.                   *)
ScheduleInv ==
  /\ pc # "idle" /\ due = None => cache = base
  /\ pc = "render" /\ base.sources # {} => requeue > 0
  /\ pc = "status" /\ base.sources # {} /\ ~retry /\ requeue = 0 =>
       ready.reason = "RenderFailed"
  /\ /\ pc = "idle" /\ due = None /\ cache.sources # {}
     /\ cache.dns = stored.dns /\ cache.ready = stored.ready
     => stored.ready.reason = "RenderFailed"

(* No record claims to have been seen later than it was.                      *)
NotAhead(dns) ==
  \A i \in Sources, v \in IPs : dns[i].lastSeen[v] # None =>
    seen[i][v] # None /\ dns[i].lastSeen[v] <= seen[i][v]

SeenInv ==
  /\ now <= clock
  /\ \A i \in Sources, v \in IPs : seen[i][v] # None =>
       seen[i][v] <= clock /\ (pc # "idle" => seen[i][v] <= now)
  /\ NotAhead(stored.dns) /\ NotAhead(cache.dns) /\ NotAhead(base.dns) /\ NotAhead(fresh)
  /\ pc \in {"lookup", "render"} => \A i \in Sources, v \in IPs :
       fresh[i].error = None /\ fresh[i].lastSeen[v] # None =>
         seen[i][v] = now \/ InGrace(i, v, now)

(* Nothing a reconcile computes is lost, and its sources stay the same.       *)
NothingLost == Faults \subseteq {"fail", "outside", "other", "slow"}

(* The status s holds all that is to be known of source i at time t.          *)
Remembers(s, i, t) ==
  /\ s.success # None => RecordValues(s) = known[i]
  /\ \A v \in IPs : s.lastSeen[v] # None => s.lastSeen[v] = seen[i][v]
  /\ \A v \in output[i] : InGrace(i, v, t) => s.lastSeen[v] # None

Computed(i) == fresh[i].success # None /\ Remembers(fresh[i], i, now)

(* Before all sources have been looked up once, nothing is known or written.  *)
NothingYet == stored.dns = NoStatuses /\ \A i \in Sources : output[i] = {}

(* What is known is in the stored status, or on its way there.                *)
HistoryInv ==
  /\ stored.sources = Sources
  /\ pc # "idle" => base = stored
  /\ pc # "status" => NothingYet \/ \A i \in Sources : stored.dns[i].success # None
  /\ pc = "idle" => \A i \in Sources : Remembers(stored.dns[i], i, clock)
  /\ pc = "lookup" => /\ \A i \in 1 .. next - 1 : Computed(i)
                      /\ \A i \in next .. N : Remembers(stored.dns[i], i, now)
  /\ pc = "render" => \A i \in Sources : Computed(i)
  /\ pc = "status" => \/ fresh = stored.dns /\ NothingYet
                      \/ \A i \in Sources : Computed(i)

(* Reconciles take no time worth counting, the unit of time is the shortest    *)
(* interval, and no update of the finalizer replaces the computed statuses.    *)
Prompt == MinRequeue = 1 /\ Faults \cap {"slow", "finalizer"} = {}

(* Is v in the answer that s came from, or will it be looked at by the time t, *)
(* when its grace period is not over?                                         *)
KeptUntil(s, i, v, t) ==
  \/ seen[i][v] = s.success
  \/ seen[i][v] # None /\ t # None /\ t <= seen[i][v] + Grace[i]

Awaited == IF requeue > 0 THEN now + requeue ELSE None

(* Every address that is kept for its grace period is waited for: first with   *)
(* the interval, then in the queue.                                           *)
ExpiryInv ==
  /\ pc # "idle" => now = clock
  /\ pc \in {"lookup", "render"} =>
       /\ ~retry
       /\ \A i \in Sources : fresh[i].error = None =>
            \A v \in RecordValues(fresh[i]) : KeptUntil(fresh[i], i, v, Awaited)
  /\ pc = "status" /\ ready.reason = "RenderSuccess" =>
       /\ ~retry
       /\ \A i \in Sources : fresh[i].error = None =>
            \A v \in output[i] : KeptUntil(fresh[i], i, v, Awaited)
  /\ pc = "idle" /\ stored.ready.reason = "RenderSuccess" /\ (due # None => due > clock) =>
       \A i \in Sources : stored.dns[i].error = None =>
         \A v \in output[i] : KeptUntil(stored.dns[i], i, v, due)

(* The status that a lookup of source i now makes of s.                       *)
LookupOf(s, i) ==
  IF zone[i].ok
  THEN [lastSeen |-> MergeDNSRecords(s.lastSeen, zone[i].ips, Grace[i]),
        success |-> now, error |-> None]
  ELSE s

(* What a reconcile now makes of the CR, if failed lookups read as they did.   *)
CanLookUp(cr, i) == i \in cr.sources => zone[i].ok \/ cr.dns[i].success # None
LookupsOf(cr) ==
  [i \in Sources |-> IF i \in cr.sources THEN LookupOf(cr.dns[i], i) ELSE NoStatus]
RenderingOf(dns) ==
  IF [i \in Sources |-> RecordValues(dns[i])] \in Renderable
  THEN Because("RenderSuccess") ELSE Because("RenderFailed")
Reconciled(cr) ==
  IF \A i \in Sources : CanLookUp(cr, i)
  THEN [cr EXCEPT !.dns = LookupsOf(cr), !.ready = RenderingOf(LookupsOf(cr))]
  ELSE cr

NotDue == due # None => due > clock

(* In a burst, the first reconcile gets the condition right, the second the    *)
(* statuses, if a reply to the finalizer's update has not brought older ones   *)
(* back; then there is nothing to change, and so nothing to wake up for.       *)
BurstInv ==
  /\ burst > 0 => now = clock
  /\ burst > 0 /\ pc = "idle" =>
       /\ cache = stored \/ NotDue
       /\ Reconciled(stored).ready = stored.ready
  /\ burst = 2 /\ pc = "idle" => Reconciled(stored) = stored \/ (cache = stored /\ NotDue)
  /\ burst = 3 /\ pc = "idle" => cache = stored /\ NotDue
  /\ burst > 0 /\ pc # "idle" /\ base = stored => cache = stored /\ due = None
  /\ burst > 1 /\ pc # "idle" => base = stored /\ Reconciled(base).ready = base.ready
  /\ burst > 2 /\ pc # "idle" => Reconciled(base) = base
  /\ burst > 0 /\ pc = "lookup" =>
       /\ next \in base.sources
       /\ ready = base.ready
       /\ \A i \in Sources : IF i < next
            THEN CanLookUp(base, i) /\ fresh[i] = LookupsOf(base)[i]
            ELSE fresh[i] = NoStatus
  /\ burst > 0 /\ pc = "render" =>
       (\A i \in Sources : CanLookUp(base, i)) /\ fresh = LookupsOf(base)
  /\ burst > 0 /\ pc = "status" /\ base = stored =>
       /\ ready = Reconciled(base).ready
       /\ fresh \in {Reconciled(base).dns, base.dns}
  /\ burst <= 3

=============================================================================
