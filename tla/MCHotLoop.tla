----------------------------- MODULE MCHotLoop ------------------------------
(* MCDNS with one more history variable: the reconciles in a row of a CR with  *)
(* known records that nothing but the operator itself has called for, however  *)
(* long they take, and whatever the errors of failed lookups read.  While a    *)
(* source has no record yet, failed lookups are retried by the backoff.       *)
EXTENDS MCDNS

VARIABLE inARow

AllKnown == \A i \in cache.sources : cache.dns[i].success # None

ByItself == \/ LookupAnswered \/ LookupFailed \/ Deliver \/ UpdateStatus \/ SyncStatus

(* The operator rests, or others do something.                               *)
Interrupted ==
  \/ pc = "idle" /\ Tick
  \/ OutsideEvent \/ Restart
  \/ \E i \in Sources, x \in Answers : ChangeZone(i, x)
  \/ \E S \in SUBSET Sources : EditSources(S)

LoopSpec ==
  /\ Init /\ inARow = 0
  /\ [][\/ Start /\ inARow' = IF AllKnown THEN inARow + 1 ELSE 0
        \/ (ByItself \/ (pc # "idle" /\ Tick)) /\ UNCHANGED inARow
        \/ Interrupted /\ inARow' = 0]_<<vars, inARow>>

(* "Floors TTL-driven refreshes to avoid hot-looping on records with very     *)
(* small TTLs" (minDNSRefreshInterval), and "the requeue interval after a     *)
(* failed lookup" (defaultDNSRetryInterval): the operator does not look        *)
(* addresses up again and again without resting in between.                   *)
NoHotLoop == inARow < LoopLength

=============================================================================
