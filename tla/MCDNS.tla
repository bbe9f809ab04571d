------------------------------- MODULE MCDNS -------------------------------
(* Instances with one and two DNS sources.                                   *)
EXTENDS DNSSources

(* The errors p1 and p2 name the local port of the query that failed.         *)
CONSTANTS a, b, servfail, p1, p2

(* A grace period longer than the refresh interval, which follows the TTL.    *)
MCGrace   == [i \in Sources |-> 3]
MCRefresh == [i \in Sources |-> 0]

(* A template that renders whatever the records are.                         *)
AnyValues == [Sources -> SUBSET IPs]

(* A template that needs an address of each source.                          *)
SomeAddress == [Sources -> SUBSET IPs \ {{}}]

=============================================================================
