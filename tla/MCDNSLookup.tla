----------------------------- MODULE MCDNSLookup -----------------------------
(* Zones in which a host has a chain of up to three aliases, that ends in a   *)
(* name with addresses of one or both families, without any, or that does not *)
(* exist, or that leads back to one of its names.                            *)
EXTENDS DNSLookup

CONSTANTS h, x, y, z, v4, v6

Chain == <<h, x, y, z>>

Unnamed == [alias |-> None, addrs |-> [f \in Families |-> {}], exists |-> FALSE, ttl |-> 0]
Alias(n, t) == [Unnamed EXCEPT !.alias = n, !.exists = TRUE, !.ttl = t]

EndNames == {Unnamed} \cup
  {[Unnamed EXCEPT !.addrs = a, !.exists = TRUE, !.ttl = t] :
     a \in {[A |-> {}, AAAA |-> {}], [A |-> {v4}, AAAA |-> {}], [A |-> {v4}, AAAA |-> {v6}]},
     t \in TTLs}

(* k aliases before the end; t[i] is the TTL of the i-th.                    *)
ZoneOf(k, t, end) ==
  [n \in Names |->
     LET i == CHOOSE j \in 1 .. 4 : Chain[j] = n IN
     IF i <= k THEN Alias(Chain[i + 1], t[i]) ELSE IF i = k + 1 THEN end ELSE Unnamed]

EndingChains == {ZoneOf(k, t, e) : k \in 0 .. 3, t \in [1 .. 3 -> TTLs], e \in EndNames}

(* The last alias is one of a name before it, or leads to nothing.            *)
Loops == {ZoneOf(k, t, Alias(n, 1)) : k \in 0 .. 3, t \in [1 .. 3 -> TTLs], n \in Names}

MCZones == EndingChains \cup Loops

=============================================================================
