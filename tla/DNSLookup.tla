------------------------------ MODULE DNSLookup ------------------------------
(***************************************************************************)
(* One call of MiekgLookuper.Lookup (internal/sources/dns.go): the addresses *)
(* of a host, one or both families, from a name server that may answer with   *)
(* a whole CNAME chain or with any part of it.                               *)
(*                                                                         *)
(*   - Lookup       the families one after the other (todo), and their union *)
(*   - queryChain   one family: current, hop, chainTTL                       *)
(*   - exchange     one query, over UDP and, if truncated, again over TCP    *)
(***************************************************************************)
EXTENDS Naturals, FiniteSets

CONSTANTS
  Names,    \* domain names
  Addrs,    \* addresses
  Zones,    \* what the DNS may hold during the lookup
  Hosts,    \* names that are looked up
  TTLs,     \* TTLs of records
  MaxHops,  \* maxCNAMEHops
  None      \* no alias

Families    == {"A", "AAAA"}
RecordTypes == {"A", "AAAA", "A+AAAA"}

(* The records of a name: an alias, or addresses, or none.                   *)
NameRecords == [alias : Names \cup {None}, addrs : [Families -> SUBSET Addrs],
                exists : BOOLEAN, ttl : TTLs]

ASSUME LookupAssumption ==
  /\ MaxHops \in Nat /\ TTLs \subseteq Nat /\ None \notin Names /\ IsFiniteSet(Names)
  /\ Hosts \subseteq Names
  /\ Zones \subseteq [Names -> NameRecords]

(* An alias has no other records, and only a name that exists has any.       *)
ASSUME ZonesAssumption ==
  \A z \in Zones, n \in Names :
    /\ z[n].alias # None => z[n].exists /\ \A f \in Families : z[n].addrs[f] = {}
    /\ \A f \in Families : z[n].addrs[f] # {} => z[n].exists

VARIABLES
  zone,       \* what the DNS holds
  host,       \* the name looked up
  recordType, \* the families wanted
  pc,         \* "start", "query" or "done"
  todo,       \* the families not looked up yet, the current one included
  current,    \* the name queried
  hop,        \* how many aliases led to it
  chainTTL,   \* least TTL of this family's answers, 0 if none
  transport,  \* of the query under way
  ips,        \* the addresses found
  ttl,        \* the TTL of the result
  ok,         \* did the lookup succeed?
  broken      \* history: a query failed, or no server was known

chainVars == <<current, hop, chainTTL, transport>>
input     == <<zone, host, recordType>>
vars      == <<input, pc, todo, chainVars, ips, ttl, ok, broken>>

-----------------------------------------------------------------------------
(* The DNS *)

IsAlias(n) == zone[n].alias # None

Closed(S) == \A m \in S : IsAlias(m) => zone[m].alias \in S

(* The names that following aliases from n leads to, n included.             *)
Reaches(n) == {m \in Names : \A S \in SUBSET Names : n \in S /\ Closed(S) => m \in S}

ChainOf(n) == {m \in Reaches(n) : IsAlias(m)}

(* A name server that knows only the beginning of the chain answers with the  *)
(* aliases before some name m, and at least with that of n.                  *)
Beginnings(n) == {{n} \cup (ChainOf(n) \ Reaches(m)) : m \in Reaches(n)}

-----------------------------------------------------------------------------
(* The lookup *)

FamilyOrder(S) == IF "A" \in S THEN "A" ELSE "AAAA"

qtype == FamilyOrder(todo)

Wanted(type) == CASE type = "A" -> {"A"} [] type = "AAAA" -> {"AAAA"}
                  [] type = "A+AAAA" -> Families

MinimumTTL(S) == IF S = {} THEN 0 ELSE CHOOSE t \in S : \A u \in S : t <= u

(* The least TTL that is not 0 of a set of them, 0 if there is none.         *)
LeastTTL(S) == MinimumTTL(S \ {0})

(* The TTL of the chain with the records of the names of one more answer     *)
(* (parseAnswers).                                                           *)
WithAnswer(names) == LeastTTL({chainTTL} \cup {zone[m].ttl : m \in names})

(* The next query starts with UDP.                                           *)
QueryNext(n, h, t) ==
  /\ current' = n /\ hop' = h /\ chainTTL' = t /\ transport' = "udp"

Fail ==
  /\ pc' = "done" /\ ok' = FALSE
  /\ UNCHANGED <<input, todo, chainVars, ips, ttl>>

(* serverAddr: the configured name server, or the first of resolv.conf.      *)
FindServer ==
  /\ pc = "start"
  /\ \/ /\ pc' = "query"
        /\ UNCHANGED <<input, todo, chainVars, ips, ttl, ok, broken>>
     \/ Fail /\ broken' = TRUE

(* A truncated answer is asked for again over TCP.                           *)
Truncated ==
  /\ pc = "query" /\ transport = "udp"
  /\ transport' = "tcp"
  /\ UNCHANGED <<input, pc, todo, current, hop, chainTTL, ips, ttl, ok, broken>>

(* No answer, or an answer that is neither NOERROR nor NXDOMAIN.             *)
QueryFails == pc = "query" /\ Fail /\ broken' = TRUE

(* Mutant of FamilyDone: the second family replaces the first one.           *)
LastFamilyOnly(found, t) ==
  /\ ips' = found /\ ttl' = LeastTTL({ttl, t})
  /\ todo' = todo \ {qtype}
  /\ \/ todo' # {} /\ QueryNext(host, 0, 0) /\ UNCHANGED <<pc, ok>>
     \/ todo' = {} /\ pc' = "done" /\ ok' = TRUE /\ UNCHANGED chainVars
  /\ UNCHANGED <<input, broken>>

(* queryChain returns: the addresses are added, and the next family starts    *)
(* at the host again.                                                        *)
FamilyDone(found, t) ==
  /\ ips' = ips \cup found /\ ttl' = LeastTTL({ttl, t})
  /\ todo' = todo \ {qtype}
  /\ \/ todo' # {} /\ QueryNext(host, 0, 0) /\ UNCHANGED <<pc, ok>>
     \/ todo' = {} /\ pc' = "done" /\ ok' = TRUE /\ UNCHANGED chainVars
  /\ UNCHANGED <<input, broken>>

(* Mutants of FollowAlias: one hop less, one hop more, hops that do not count, *)
(* and a TTL that is forgotten on the way.                                   *)
FollowOneLess(t) ==
  \/ /\ hop + 1 < MaxHops /\ QueryNext(zone[current].alias, hop + 1, t)
     /\ UNCHANGED <<input, pc, todo, ips, ttl, ok>>
  \/ hop + 1 >= MaxHops /\ Fail

FollowOneMore(t) ==
  \/ /\ hop <= MaxHops /\ QueryNext(zone[current].alias, hop + 1, t)
     /\ UNCHANGED <<input, pc, todo, ips, ttl, ok>>
  \/ hop > MaxHops /\ Fail

FollowUncounted(t) ==
  /\ QueryNext(zone[current].alias, hop, t)
  /\ UNCHANGED <<input, pc, todo, ips, ttl, ok>>

FollowForgetful(t) ==
  \/ /\ hop < MaxHops /\ QueryNext(zone[current].alias, hop + 1, 0)
     /\ UNCHANGED <<input, pc, todo, ips, ttl, ok>>
  \/ hop = MaxHops /\ Fail

(* An answer without addresses: the query goes on at the alias of the name,  *)
(* after at most MaxHops aliases.                                            *)
FollowAlias(t) ==
  \/ /\ hop < MaxHops /\ QueryNext(zone[current].alias, hop + 1, t)
     /\ UNCHANGED <<input, pc, todo, ips, ttl, ok>>
  \/ hop = MaxHops /\ Fail

(* An answer that begins the chain, without its end.                         *)
PartialAnswer ==
  /\ pc = "query" /\ IsAlias(current)
  /\ \E aliases \in Beginnings(current) :
       FollowAlias(WithAnswer(aliases))
  /\ UNCHANGED broken

(* An answer from a server that knows where the chain ends: NXDOMAIN, or the  *)
(* aliases and the addresses of the family.                                  *)
FullAnswer ==
  /\ pc = "query"
  /\ \E e \in {m \in Reaches(current) : ~IsAlias(m)} :
       LET found == zone[e].addrs[qtype]
           t     == WithAnswer(ChainOf(current) \cup (IF found = {} THEN {} ELSE {e})) IN
       \/ ~zone[e].exists /\ FamilyDone({}, chainTTL)
       \/ /\ zone[e].exists /\ (found # {} \/ ~IsAlias(current))
          /\ FamilyDone(found, t)
       \/ /\ zone[e].exists /\ found = {} /\ IsAlias(current)
          /\ FollowAlias(t) /\ UNCHANGED broken

-----------------------------------------------------------------------------
Init ==
  /\ zone \in Zones /\ host \in Hosts /\ recordType \in RecordTypes
  /\ pc = "start" /\ todo = Wanted(recordType)
  /\ current = host /\ hop = 0 /\ chainTTL = 0 /\ transport = "udp"
  /\ ips = {} /\ ttl = 0 /\ ok = FALSE /\ broken = FALSE

Next ==
  FindServer \/ Truncated \/ QueryFails \/ PartialAnswer \/ FullAnswer

Spec == Init /\ [][Next]_vars

(* Every exchange ends, if only by its timeout.                              *)
FairSpec == Spec /\ WF_vars(Next)

-----------------------------------------------------------------------------
TypeOK ==
  /\ zone \in Zones /\ host \in Hosts
  /\ recordType \in RecordTypes
  /\ pc \in {"start", "query", "done"}
  /\ todo \subseteq Wanted(recordType) /\ (pc # "done" => todo # {})
  /\ current \in Names /\ hop \in 0 .. MaxHops /\ chainTTL \in Nat
  /\ transport \in {"udp", "tcp"}
  /\ ips \subseteq Addrs /\ ttl \in Nat /\ ok \in BOOLEAN /\ broken \in BOOLEAN

(* Where the chain of the host ends, if it does.                             *)
Ends == {e \in Reaches(host) : ~IsAlias(e)}

(* "CNAME chains are followed transparently": whatever parts of the chain the *)
(* servers put into their answers, a lookup that succeeds returns the         *)
(* addresses, of all families wanted, of the name the chain ends at.          *)
ResultIsResolution ==
  pc = "done" /\ ok =>
    \E e \in Ends : ips = UNION {zone[e].addrs[f] : f \in Wanted(recordType)}

(* "... up to 10 hops": only a failed query or a chain with more aliases, or  *)
(* without an end, makes a lookup fail.  An empty answer does not.            *)
ChainLimit ==
  pc = "done" /\ ~ok /\ ~broken =>
    Ends = {} \/ Cardinality({n \in Reaches(host) : IsAlias(n)}) > MaxHops

(* The records a lookup of the host involves: the aliases of its chain and the *)
(* addresses wanted.                                                         *)
InvolvedTTLs ==
  {zone[n].ttl : n \in {m \in Reaches(host) :
     IsAlias(m) \/ \E f \in Wanted(recordType) : zone[m].addrs[f] # {}}}

(* "The minimum TTL over all records involved in the lookup (including        *)
(* intermediate CNAME hops).  Zero if no records were returned": for hosts    *)
(* that exist.                                                              *)
TTLIsMinimum ==
  pc = "done" /\ ok /\ (\A e \in Ends : zone[e].exists) => ttl = MinimumTTL(InvolvedTTLs)

(* What is left of it: however the answers are split, and whichever family has *)
(* which of the records, the TTL is the minimum, unless one of them is 0.      *)
TTLIsLeast == 0 \notin InvolvedTTLs => TTLIsMinimum

-----------------------------------------------------------------------------
(* Why these hold: an inductive strengthening of the three.                   *)

FamiliesDone == Wanted(recordType) \ todo

ResolutionInv ==
  /\ pc # "done" => current \in Reaches(host) /\ ~ok
  /\ pc = "done" /\ ok => todo = {}
  /\ FamiliesDone = {} => ips = {}
  /\ FamiliesDone # {} =>
       \E e \in Ends : ips = UNION {zone[e].addrs[f] : f \in FamiliesDone}

(* The hops count the aliases that are behind, each of them once.             *)
HopInv ==
  /\ pc # "done" /\ Ends # {} => Cardinality(ChainOf(host) \ ChainOf(current)) = hop
  /\ ChainLimit
  /\ pc # "done" => ~broken

(* What the families done have answered with.                                *)
Answering ==
  IF FamiliesDone = {} THEN {}
  ELSE ChainOf(host) \cup {e \in Ends : \E f \in FamiliesDone : zone[e].addrs[f] # {}}

(* The TTL of the family under way is that of all aliases that are behind,     *)
(* and of some that are ahead.                                               *)
TTLInv ==
  /\ pc # "done" =>
       \E W \in SUBSET ChainOf(host) :
         /\ ChainOf(host) \ ChainOf(current) \subseteq W
         /\ chainTTL = LeastTTL({zone[n].ttl : n \in W})
  /\ (\A e \in Ends : zone[e].exists) => ttl = LeastTTL({zone[n].ttl : n \in Answering})

(* CNAME loops do not keep a lookup going.                                   *)
Terminates == <>(pc = "done")

=============================================================================
