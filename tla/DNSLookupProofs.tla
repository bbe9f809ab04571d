-------------------------- MODULE DNSLookupProofs --------------------------
(***************************************************************************)
(* Theorems about DNSLookup, for all names, addresses, zones and chain      *)
(* limits: chains of any length, with and without an end.                   *)
(***************************************************************************)
EXTENDS DNSLookup, FiniteSetTheorems, WellFoundedInduction, TLAPS

-----------------------------------------------------------------------------
(* Chains of aliases *)

(* What a name holds.                                                        *)
LEMMA ZoneType ==
  ASSUME zone \in Zones, NEW n \in Names
  PROVE  /\ zone[n] \in NameRecords
         /\ IsAlias(n) => zone[n].alias \in Names
         /\ ~zone[n].exists => \A f \in Families : zone[n].addrs[f] = {}
  BY LookupAssumption, ZonesAssumption DEF NameRecords, IsAlias

(* A name reaches itself, and with an alias what that stands for.             *)
LEMMA ReachesClosed ==
  ASSUME zone \in Zones, NEW n \in Names
  PROVE  n \in Reaches(n) /\ Reaches(n) \subseteq Names /\ Closed(Reaches(n))
<1>1. n \in Reaches(n) /\ Reaches(n) \subseteq Names
  BY DEF Reaches
<1>2. ASSUME NEW m \in Reaches(n), IsAlias(m) PROVE zone[m].alias \in Reaches(n)
  <2>1. zone[m].alias \in Names
    BY <1>1, <1>2, ZoneType
  <2>2. ASSUME NEW S \in SUBSET Names, n \in S, Closed(S) PROVE zone[m].alias \in S
    BY <1>2, <2>2 DEF Reaches, Closed
  <2> QED BY <2>1, <2>2 DEF Reaches
<1> QED BY <1>1, <1>2 DEF Closed

(* ... and nothing else.                                                     *)
LEMMA ReachesLeast ==
  ASSUME NEW n \in Names, NEW S \in SUBSET Names, n \in S, Closed(S)
  PROVE  Reaches(n) \subseteq S
  BY DEF Reaches

LEMMA ReachesTransitive ==
  ASSUME zone \in Zones, NEW n \in Names, NEW m \in Reaches(n)
  PROVE  Reaches(m) \subseteq Reaches(n)
<1>1. m \in Names /\ Reaches(n) \in SUBSET Names /\ Closed(Reaches(n))
  BY ReachesClosed
<1> QED BY <1>1, ReachesLeast

(* One step along the chain.                                                 *)
LEMMA ReachesStep ==
  ASSUME zone \in Zones, NEW n \in Names
  PROVE  /\ ~IsAlias(n) => Reaches(n) = {n}
         /\ IsAlias(n) => Reaches(n) = {n} \cup Reaches(zone[n].alias)
<1>1. ASSUME ~IsAlias(n) PROVE Reaches(n) = {n}
  <2>1. Closed({n})
    BY <1>1 DEF Closed
  <2> QED BY <2>1, ReachesClosed, ReachesLeast
<1>2. ASSUME IsAlias(n) PROVE Reaches(n) = {n} \cup Reaches(zone[n].alias)
  <2> DEFINE a == zone[n].alias
  <2>1. a \in Names
    BY <1>2, ZoneType
  <2>2. a \in Reaches(a) /\ Reaches(a) \subseteq Names /\ Closed(Reaches(a))
    BY <2>1, ReachesClosed
  <2>3. Closed({n} \cup Reaches(a))
    BY <2>2 DEF Closed
  <2>4. Reaches(n) \subseteq {n} \cup Reaches(a)
    <3>1. {n} \cup Reaches(a) \in SUBSET Names
      BY <2>2
    <3> QED BY <2>3, <3>1, ReachesLeast
  <2>5. n \in Reaches(n) /\ a \in Reaches(n)
    BY <1>2, ReachesClosed DEF Closed
  <2>6. Reaches(a) \subseteq Reaches(n)
    BY <2>5, ReachesTransitive
  <2> QED BY <2>4, <2>5, <2>6
<1> QED BY <1>1, <1>2

(* An end of a chain is reached from everywhere on it,                       *)
LEMMA EndReached ==
  ASSUME zone \in Zones, NEW n \in Names, NEW e \in Reaches(n), ~IsAlias(e),
         NEW m \in Reaches(n)
  PROVE  e \in Reaches(m)
<1> DEFINE T == {k \in Reaches(n) : e \in Reaches(k)}
<1>1. Reaches(n) \subseteq Names /\ n \in Reaches(n) /\ Closed(Reaches(n))
  BY ReachesClosed
<1>2. ASSUME NEW k \in T, IsAlias(k) PROVE zone[k].alias \in T
  <2>1. zone[k].alias \in Reaches(n)
    BY <1>1, <1>2 DEF Closed
  <2>2. e \in Reaches(zone[k].alias)
    BY <1>1, <1>2, ReachesStep
  <2> QED BY <2>1, <2>2
<1>3. T \in SUBSET Names /\ n \in T /\ Closed(T)
  BY <1>1, <1>2 DEF Closed
<1>4. Reaches(n) \subseteq T
  <2> HIDE DEF T
  <2> QED BY <1>3, ReachesLeast
<1> QED BY <1>4

(* ... so that it is the only one,                                           *)
LEMMA OneEnd ==
  ASSUME zone \in Zones, NEW n \in Names, NEW d \in Reaches(n), ~IsAlias(d),
         NEW e \in Reaches(n), ~IsAlias(e)
  PROVE  d = e
<1>1. d \in Reaches(e) /\ e \in Names
  BY EndReached, ReachesClosed
<1> QED BY <1>1, ReachesStep

(* ... and no alias of a chain with an end leads back to itself.             *)
LEMMA NoWayBack ==
  ASSUME zone \in Zones, NEW n \in Names, IsAlias(n),
         NEW e \in Reaches(n), ~IsAlias(e)
  PROVE  n \notin Reaches(zone[n].alias)
<1> SUFFICES ASSUME n \in Reaches(zone[n].alias) PROVE FALSE
  OBVIOUS
<1> DEFINE T == {k \in Reaches(n) : n \in Reaches(k)}
<1>1. Reaches(n) \subseteq Names /\ n \in Reaches(n) /\ Closed(Reaches(n))
  BY ReachesClosed
<1>2. ASSUME NEW k \in T, IsAlias(k) PROVE zone[k].alias \in T
  <2>1. zone[k].alias \in Reaches(n)
    BY <1>1, <1>2 DEF Closed
  <2>2. n \in Reaches(zone[k].alias)
    BY <1>1, <1>2, ReachesStep
  <2> QED BY <2>1, <2>2
<1>3. T \in SUBSET Names /\ n \in T /\ Closed(T)
  BY <1>1, <1>2 DEF Closed
<1>4. Reaches(n) \subseteq T
  <2> HIDE DEF T
  <2> QED BY <1>3, ReachesLeast
<1>5. n \in Reaches(e) /\ e \in Names
  BY <1>1, <1>4
<1> QED BY <1>5, ReachesStep

-----------------------------------------------------------------------------
(* The least TTL *)

LEMMA Minimum ==
  ASSUME NEW T \in SUBSET Nat, T # {}
  PROVE  \E t \in T : \A u \in T : t <= u
<1>1. PICK t \in T : \A u \in T : ~(<<u, t>> \in OpToRel(<, Nat))
  BY NatLessThanWellFounded, WFMin, Zenon
<1>2. \A u \in T : ~(u < t)
  BY <1>1, Zenon DEF OpToRel
<1> QED BY <1>2

(* The least TTL of a set is what its name says,                              *)
LEMMA LeastTTLIsLeast ==
  ASSUME NEW S \in SUBSET Nat
  PROVE  /\ LeastTTL(S) \in Nat
         /\ S \ {0} = {} => LeastTTL(S) = 0
         /\ S \ {0} # {} => /\ LeastTTL(S) \in S \ {0}
                           /\ \A u \in S \ {0} : LeastTTL(S) <= u
<1> DEFINE positive == S \ {0}
<1>1. CASE positive = {}
  BY <1>1 DEF LeastTTL, MinimumTTL
<1>2. CASE positive # {}
  <2>1. \E t \in positive : \A u \in positive : t <= u
    BY <1>2, Minimum
  <2>2. LeastTTL(S) = CHOOSE t \in positive : \A u \in positive : t <= u
    BY <1>2 DEF LeastTTL, MinimumTTL
  <2>3. LeastTTL(S) \in positive /\ \A u \in positive : LeastTTL(S) <= u
    BY <2>1, <2>2
  <2> QED BY <1>2, <2>3
<1> QED BY <1>1, <1>2

(* ... and can be taken of part of a set first.                              *)
LEMMA LeastTTLOfUnion ==
  ASSUME NEW A \in SUBSET Nat, NEW B \in SUBSET Nat
  PROVE  LeastTTL({LeastTTL(A)} \cup B) = LeastTTL(A \cup B)
<1> DEFINE a == LeastTTL(A)
           C == {a} \cup B
           D == A \cup B
<1>1. /\ a \in Nat
      /\ A \ {0} = {} => a = 0
      /\ A \ {0} # {} => a \in A \ {0} /\ \A u \in A \ {0} : a <= u
  BY LeastTTLIsLeast
<1>2. /\ LeastTTL(C) \in Nat
      /\ C \ {0} = {} => LeastTTL(C) = 0
      /\ C \ {0} # {} => LeastTTL(C) \in C \ {0} /\ \A u \in C \ {0} : LeastTTL(C) <= u
  <2>1. C \in SUBSET Nat
    BY <1>1
  <2> QED BY <2>1, LeastTTLIsLeast
<1>3. /\ LeastTTL(D) \in Nat
      /\ D \ {0} = {} => LeastTTL(D) = 0
      /\ D \ {0} # {} => LeastTTL(D) \in D \ {0} /\ \A u \in D \ {0} : LeastTTL(D) <= u
  <2>1. D \in SUBSET Nat
    OBVIOUS
  <2> QED BY <2>1, LeastTTLIsLeast
<1>4. C \ {0} = {} <=> D \ {0} = {}
  BY <1>1
<1>5. CASE D \ {0} = {}
  BY <1>2, <1>3, <1>4, <1>5
<1>6. CASE D \ {0} # {}
  <2>1. LeastTTL(C) \in C \ {0} /\ \A u \in C \ {0} : LeastTTL(C) <= u
    BY <1>2, <1>4, <1>6
  <2>2. LeastTTL(D) \in D \ {0} /\ \A u \in D \ {0} : LeastTTL(D) <= u
    BY <1>3, <1>6
  <2>3. LeastTTL(C) \in D \ {0}
    BY <1>1, <2>1
  <2>4. LeastTTL(D) <= LeastTTL(C)
    BY <2>2, <2>3
  <2>5. LeastTTL(C) <= LeastTTL(D)
    <3>1. CASE LeastTTL(D) \in B
      BY <2>1, <2>2, <3>1
    <3>2. CASE LeastTTL(D) \in A
      <4>1. a \in C \ {0} /\ a <= LeastTTL(D)
        BY <1>1, <2>2, <3>2
      <4> QED BY <1>1, <1>2, <1>3, <2>1, <4>1
    <3> QED BY <2>2, <3>1, <3>2
  <2> QED BY <1>2, <1>3, <2>4, <2>5
<1> QED BY <1>5, <1>6

-----------------------------------------------------------------------------
(* Type correctness *)

(* The names of an answer add their TTLs to that of the chain.               *)
LEMMA WithAnswerType ==
  ASSUME TypeOK, NEW A \in SUBSET Names
  PROVE  WithAnswer(A) \in Nat
<1>1. \A m \in Names : zone[m].ttl \in Nat
  BY ZoneType, LookupAssumption DEF TypeOK, NameRecords
<1>2. {chainTTL} \cup {zone[m].ttl : m \in A} \in SUBSET Nat
  BY <1>1 DEF TypeOK
<1> QED BY <1>2, LeastTTLIsLeast DEF WithAnswer

(* The family under way is one of those to do.                               *)
LEMMA QTypeToDo ==
  ASSUME TypeOK, pc = "query"
  PROVE  qtype \in todo /\ todo \subseteq Families
  BY DEF TypeOK, qtype, FamilyOrder, Wanted, Families, RecordTypes

LEMMA FollowAliasType ==
  ASSUME TypeOK, pc = "query", IsAlias(current), NEW t \in Nat, FollowAlias(t),
         broken' = broken
  PROVE  TypeOK'
<1>1. zone[current].alias \in Names
  BY ZoneType DEF TypeOK
<1>2. CASE hop < MaxHops /\ QueryNext(zone[current].alias, hop + 1, t)
           /\ UNCHANGED <<input, pc, todo, ips, ttl, ok>>
  BY <1>1, <1>2, LookupAssumption DEF TypeOK, QueryNext, input
<1>3. CASE hop = MaxHops /\ Fail
  BY <1>3 DEF TypeOK, Fail, input, chainVars
<1> QED BY <1>2, <1>3 DEF FollowAlias

LEMMA FamilyDoneType ==
  ASSUME TypeOK, pc = "query", NEW found \in SUBSET Addrs, NEW t \in Nat,
         FamilyDone(found, t)
  PROVE  TypeOK'
<1>1. LeastTTL({ttl, t}) \in Nat
  BY LeastTTLIsLeast DEF TypeOK
<1>2. host \in Names
  BY LookupAssumption DEF TypeOK
<1>3. UNCHANGED <<input, broken>> /\ ips' \subseteq Addrs /\ ttl' \in Nat
      /\ todo' \subseteq Wanted(recordType)
  BY <1>1 DEF TypeOK, FamilyDone
<1>4. CASE todo' # {} /\ QueryNext(host, 0, 0) /\ UNCHANGED <<pc, ok>>
  BY <1>2, <1>3, <1>4, LookupAssumption DEF TypeOK, QueryNext, input
<1>5. CASE todo' = {} /\ pc' = "done" /\ ok' = TRUE /\ UNCHANGED chainVars
  BY <1>3, <1>5 DEF TypeOK, input, chainVars
<1> QED BY <1>4, <1>5 DEF FamilyDone

LEMMA ChainOfType ==
  ASSUME TypeOK, NEW n \in Names
  PROVE  ChainOf(n) \subseteq Reaches(n) /\ ChainOf(n) \in SUBSET Names
  BY ReachesClosed DEF TypeOK, ChainOf

(* An answer that begins the chain has the alias asked for.                   *)
LEMMA BeginningsOfChain ==
  ASSUME TypeOK, IsAlias(current), NEW aliases \in Beginnings(current)
  PROVE  current \in aliases /\ aliases \subseteq ChainOf(current)
  BY ReachesClosed DEF TypeOK, Beginnings, ChainOf

(* Every step keeps the types.                                               *)
LEMMA TypeStep ==
  ASSUME TypeOK, [Next]_vars
  PROVE  TypeOK'
<1>1. CASE FindServer
  BY <1>1 DEF FindServer, TypeOK, Fail, input, chainVars
<1>2. CASE Truncated
  BY <1>2 DEF Truncated, TypeOK, input
<1>3. CASE QueryFails
  BY <1>3 DEF QueryFails, TypeOK, Fail, input, chainVars
<1>4. CASE PartialAnswer
  <2>1. PICK aliases \in Beginnings(current) : FollowAlias(WithAnswer(aliases))
    BY <1>4 DEF PartialAnswer
  <2>2. pc = "query" /\ IsAlias(current) /\ broken' = broken
    BY <1>4 DEF PartialAnswer
  <2>3. aliases \in SUBSET Names
    BY <2>2, BeginningsOfChain, ChainOfType DEF TypeOK
  <2> QED BY <2>1, <2>2, <2>3, WithAnswerType, FollowAliasType
<1>5. CASE FullAnswer
  <2> DEFINE found(e) == zone[e].addrs[qtype]
             names(e) == ChainOf(current) \cup (IF found(e) = {} THEN {} ELSE {e})
  <2>1. PICK e \in {m \in Reaches(current) : ~IsAlias(m)} :
          \/ FamilyDone({}, chainTTL)
          \/ FamilyDone(found(e), WithAnswer(names(e)))
          \/ /\ IsAlias(current) /\ FollowAlias(WithAnswer(names(e)))
             /\ broken' = broken
    BY <1>5 DEF FullAnswer
  <2>2. pc = "query" /\ current \in Names /\ chainTTL \in Nat
    BY <1>5 DEF FullAnswer, TypeOK
  <2>3. e \in Names /\ names(e) \in SUBSET Names
    BY <2>2, ReachesClosed, ChainOfType DEF TypeOK
  <2>4. found(e) \in SUBSET Addrs
    BY <2>2, <2>3, ZoneType, QTypeToDo DEF TypeOK, NameRecords
  <2>5. WithAnswer(names(e)) \in Nat
    BY <2>3, WithAnswerType
  <2> HIDE DEF found, names
  <2> QED BY <2>1, <2>2, <2>4, <2>5, FamilyDoneType, FollowAliasType
<1>6. CASE UNCHANGED vars
  BY <1>6 DEF TypeOK, vars, input, chainVars
<1> QED BY <1>1, <1>2, <1>3, <1>4, <1>5, <1>6 DEF Next

-----------------------------------------------------------------------------
(* What a lookup returns *)

LookupInv == ResolutionInv /\ HopInv /\ TTLInv

(* The DNS does not change during a lookup.                                  *)
LEMMA SameChains ==
  ASSUME UNCHANGED input
  PROVE  /\ Ends' = Ends
         /\ Reaches(host)' = Reaches(host) /\ ChainOf(host)' = ChainOf(host)
         /\ Reaches(current)' = Reaches(current') /\ ChainOf(current)' = ChainOf(current')
         /\ (\A e \in Ends : zone[e].exists)' = (\A e \in Ends : zone[e].exists)
<1>1. /\ Reaches(host)' = Reaches(host)
      /\ Reaches(current)' = Reaches(current')
  BY DEF input, Reaches, Closed, IsAlias
<1>2. \A n : IsAlias(n)' = IsAlias(n)
  BY DEF input, IsAlias
<1>3. Ends' = Ends
  BY <1>1, <1>2 DEF Ends
<1> QED BY <1>1, <1>2, <1>3 DEF input, ChainOf

(* Where the lookup is, as far as the chain goes.                            *)
LEMMA Place ==
  ASSUME TypeOK, LookupInv, pc # "done"
  PROVE  /\ host \in Names /\ Reaches(host) \subseteq Names
         /\ current \in Names /\ current \in Reaches(host)
         /\ Reaches(current) \subseteq Reaches(host)
         /\ ChainOf(current) \subseteq ChainOf(host)
         /\ ChainOf(host) \in SUBSET Names
         /\ IsFiniteSet(ChainOf(host))
<1>1. host \in Names
  BY LookupAssumption DEF TypeOK
<1>2. current \in Reaches(host) /\ Reaches(host) \subseteq Names
  BY <1>1, ReachesClosed DEF TypeOK, LookupInv, ResolutionInv
<1>3. Reaches(current) \subseteq Reaches(host)
  BY <1>1, <1>2, ReachesTransitive DEF TypeOK
<1>4. ChainOf(host) \in SUBSET Names /\ ChainOf(current) \subseteq ChainOf(host)
  BY <1>2, <1>3 DEF ChainOf
<1>5. IsFiniteSet(ChainOf(host))
  BY <1>4, FS_Subset, LookupAssumption
<1> QED BY <1>1, <1>2, <1>3, <1>4, <1>5

(* The chain from an alias on: the alias, and the chain of what it stands for. *)
LEMMA ChainStep ==
  ASSUME TypeOK, LookupInv, pc = "query", IsAlias(current)
  PROVE  LET a == zone[current].alias IN
         /\ a \in Reaches(host)
         /\ ChainOf(current) = {current} \cup ChainOf(a)
         /\ Ends # {} => current \notin ChainOf(a)
<1> DEFINE a == zone[current].alias
<1>1. current \in Names /\ a \in Names /\ current \in Reaches(host)
  BY Place, ZoneType DEF TypeOK
<1>2. a \in Reaches(host)
  BY <1>1, Place, ReachesClosed DEF TypeOK, Closed
<1>3. ChainOf(current) = {current} \cup ChainOf(a)
  BY <1>1, ReachesStep DEF TypeOK, ChainOf
<1>4. ASSUME Ends # {} PROVE current \notin ChainOf(a)
  <2>1. PICK e \in Reaches(host) : ~IsAlias(e)
    BY <1>4 DEF Ends
  <2>2. e \in Reaches(current)
    BY <1>1, <2>1, Place, EndReached DEF TypeOK
  <2>3. current \notin Reaches(a)
    BY <1>1, <2>1, <2>2, NoWayBack DEF TypeOK
  <2> QED BY <2>3 DEF ChainOf
<1> QED BY <1>2, <1>3, <1>4

(* The aliases that are behind after one more hop.                           *)
LEMMA Behind ==
  ASSUME TypeOK, LookupInv, pc = "query", IsAlias(current)
  PROVE  LET a == zone[current].alias
             behind == ChainOf(host) \ ChainOf(current) IN
         /\ ChainOf(host) \ ChainOf(a) \subseteq behind \cup {current}
         /\ Ends # {} => /\ ChainOf(host) \ ChainOf(a) = behind \cup {current}
                         /\ Cardinality(behind \cup {current}) = hop + 1
<1> DEFINE a == zone[current].alias
           behind == ChainOf(host) \ ChainOf(current)
<1>1. ChainOf(current) = {current} \cup ChainOf(a)
  BY ChainStep
<1>2. current \in ChainOf(current) /\ ChainOf(current) \subseteq ChainOf(host)
  BY <1>1, Place
<1>3. ASSUME Ends # {} PROVE /\ ChainOf(host) \ ChainOf(a) = behind \cup {current}
                             /\ Cardinality(behind \cup {current}) = hop + 1
  <2>1. current \notin ChainOf(a)
    BY <1>3, ChainStep
  <2>2. Cardinality(behind) = hop
    BY <1>3 DEF LookupInv, HopInv
  <2>3. IsFiniteSet(behind) /\ current \notin behind
    BY <1>2, Place, FS_Difference
  <2>4. Cardinality(behind \cup {current}) = hop + 1
    BY <2>2, <2>3, FS_AddElement
  <2> QED BY <1>1, <1>2, <2>1, <2>4
<1> QED BY <1>1, <1>2, <1>3

(* A lookup that fails: because a query did, or at the limit.                 *)
LEMMA FailInv ==
  ASSUME TypeOK, LookupInv, pc # "done", Fail,
         \/ broken' = TRUE
         \/ broken' = broken /\ pc = "query" /\ hop = MaxHops /\ IsAlias(current)
  PROVE  LookupInv'
<1>1. /\ UNCHANGED <<input, todo, ips, ttl>> /\ pc' = "done" /\ ok' = FALSE
      /\ FamiliesDone' = FamiliesDone
  BY DEF Fail, FamiliesDone, Wanted, input
<1>2. ResolutionInv'
  BY <1>1, SameChains DEF LookupInv, ResolutionInv, input
<1>3. TTLInv'
  BY <1>1, SameChains DEF LookupInv, TTLInv, Answering, input
<1>4. HopInv'
  <2>1. ASSUME ~broken', Ends # {} PROVE Cardinality(ChainOf(host)) > MaxHops
    <3>1. pc = "query" /\ hop = MaxHops /\ IsAlias(current)
      BY <2>1
    <3> DEFINE behind == ChainOf(host) \ ChainOf(current)
    <3>2. Cardinality(behind \cup {current}) = MaxHops + 1
      BY <2>1, <3>1, Behind
    <3>3. behind \cup {current} \subseteq ChainOf(host) /\ IsFiniteSet(ChainOf(host))
      BY <3>1, ChainStep, Place
    <3>4. Cardinality(behind \cup {current}) <= Cardinality(ChainOf(host))
      BY <3>3, FS_Subset
    <3>5. Cardinality(ChainOf(host)) \in Nat
      BY <3>3, FS_CardinalityType
    <3> QED BY <3>2, <3>4, <3>5, LookupAssumption
  <2>2. Cardinality(ChainOf(host)') = Cardinality(ChainOf(host))
    BY <1>1, SameChains
  <2>3. ChainLimit'
    BY <1>1, <2>1, <2>2, SameChains DEF ChainLimit, ChainOf
  <2> QED BY <1>1, <2>3 DEF HopInv
<1> QED BY <1>2, <1>3, <1>4 DEF LookupInv

(* The TTL with one more answer is that of all names that answered.           *)
LEMMA WithAnswerOfUnion ==
  ASSUME TypeOK, NEW W \in SUBSET Names, chainTTL = LeastTTL({zone[n].ttl : n \in W}),
         NEW A \in SUBSET Names
  PROVE  WithAnswer(A) = LeastTTL({zone[n].ttl : n \in W \cup A})
<1>1. \A n \in Names : zone[n].ttl \in Nat
  BY ZoneType, LookupAssumption DEF TypeOK, NameRecords
<1> DEFINE w == {zone[n].ttl : n \in W}
           a == {zone[n].ttl : n \in A}
<1>2. w \in SUBSET Nat /\ a \in SUBSET Nat
  BY <1>1
<1>3. LeastTTL({LeastTTL(w)} \cup a) = LeastTTL(w \cup a)
  BY <1>2, LeastTTLOfUnion
<1>4. w \cup a = {zone[n].ttl : n \in W \cup A}
  OBVIOUS
<1> QED BY <1>3, <1>4 DEF WithAnswer

(* The query goes on at the alias, after an answer with it and perhaps more   *)
(* of the chain.                                                             *)
LEMMA FollowInv ==
  ASSUME TypeOK, LookupInv, pc = "query", IsAlias(current), broken' = broken,
         NEW A \in SUBSET ChainOf(current), current \in A, FollowAlias(WithAnswer(A))
  PROVE  LookupInv'
<1> DEFINE a == zone[current].alias
<1>1. CASE hop = MaxHops /\ Fail
  BY <1>1, FailInv
<1>2. CASE /\ hop < MaxHops /\ QueryNext(a, hop + 1, WithAnswer(A))
           /\ UNCHANGED <<input, pc, todo, ips, ttl, ok>>
  <2>1. /\ UNCHANGED <<input, pc, todo, ips, ttl, ok>> /\ current' = a /\ hop' = hop + 1
        /\ chainTTL' = WithAnswer(A) /\ FamiliesDone' = FamiliesDone
    BY <1>2 DEF QueryNext, FamiliesDone, Wanted, input
  <2>2. ResolutionInv'
    BY <2>1, SameChains, ChainStep DEF LookupInv, ResolutionInv, input
  <2>3. HopInv'
    <3>1. ChainLimit'
      BY <2>1 DEF ChainLimit
    <3>2. ASSUME Ends # {} PROVE Cardinality(ChainOf(host) \ ChainOf(a)) = hop + 1
      BY <3>2, Behind
    <3> QED BY <2>1, <3>1, <3>2, SameChains DEF LookupInv, HopInv
  <2>4. TTLInv'
    <3>1. PICK W \in SUBSET ChainOf(host) :
            /\ ChainOf(host) \ ChainOf(current) \subseteq W
            /\ chainTTL = LeastTTL({zone[n].ttl : n \in W})
      BY DEF LookupInv, TTLInv
    <3>2. W \cup A \in SUBSET ChainOf(host) /\ ChainOf(host) \in SUBSET Names
      BY Place
    <3>3. chainTTL' = LeastTTL({zone[n].ttl : n \in W \cup A})
      BY <2>1, <3>1, <3>2, WithAnswerOfUnion
    <3>4. ChainOf(host) \ ChainOf(a) \subseteq W \cup A
      BY <3>1, Behind
    <3>5. {zone[n].ttl : n \in W \cup A}' = {zone[n].ttl : n \in W \cup A}
      BY <2>1 DEF input
    <3>6. ttl' = ttl /\ Answering' = Answering /\ zone' = zone
      BY <2>1, SameChains DEF Answering, input
    <3> QED BY <2>1, <3>2, <3>3, <3>4, <3>5, <3>6, SameChains DEF LookupInv, TTLInv
  <2> QED BY <2>2, <2>3, <2>4 DEF LookupInv
<1> QED BY <1>1, <1>2 DEF FollowAlias

(* A family is done, at the name the chain ends at.                           *)
LEMMA DoneInv ==
  ASSUME TypeOK, LookupInv, pc = "query",
         NEW e \in Reaches(current), ~IsAlias(e), NEW t \in Nat,
         zone[e].exists =>
           t = WithAnswer(ChainOf(current) \cup
                          (IF zone[e].addrs[qtype] = {} THEN {} ELSE {e})),
         FamilyDone(zone[e].addrs[qtype], t)
  PROVE  LookupInv'
<1> DEFINE found == zone[e].addrs[qtype]
           F == FamiliesDone
           answers == ChainOf(current) \cup (IF found = {} THEN {} ELSE {e})
<1>1. /\ UNCHANGED <<input, broken>> /\ ips' = ips \cup found
      /\ ttl' = LeastTTL({ttl, t}) /\ todo' = todo \ {qtype}
  BY DEF FamilyDone
<1>2. qtype \in todo /\ todo \subseteq Wanted(recordType)
  BY QTypeToDo DEF TypeOK
<1>3. FamiliesDone' = F \cup {qtype}
  BY <1>1, <1>2 DEF FamiliesDone, Wanted, input
<1>4. e \in Ends /\ \A d \in Ends : d = e
  <2>1. e \in Ends /\ host \in Names
    BY Place DEF Ends
  <2> QED BY <2>1, OneEnd DEF TypeOK, Ends
<1>5. \/ /\ todo' # {} /\ pc' = pc /\ ok' = ok
         /\ current' = host /\ hop' = 0 /\ chainTTL' = 0
      \/ todo' = {} /\ pc' = "done" /\ ok' = TRUE
  BY DEF FamilyDone, QueryNext
<1>6. ResolutionInv'
  <2>1. ips = UNION {zone[e].addrs[f] : f \in F}
    BY <1>4 DEF LookupInv, ResolutionInv
  <2>2. ips' = UNION {zone[e].addrs[f] : f \in F \cup {qtype}}
    BY <1>1, <2>1
  <2>3. (UNION {zone[e].addrs[f] : f \in FamiliesDone})'
          = UNION {zone[e].addrs[f] : f \in F \cup {qtype}}
    BY <1>1, <1>3 DEF input
  <2>4. \E d \in Ends' : ips' = (UNION {zone[d].addrs[f] : f \in FamiliesDone})'
    BY <1>1, <1>4, <2>2, <2>3, SameChains
  <2>5. pc' # "done" => current' \in Reaches(host)' /\ ~ok'
    BY <1>1, <1>5, SameChains, Place, ReachesClosed
       DEF LookupInv, ResolutionInv, TypeOK
  <2> QED BY <1>3, <1>5, <2>4, <2>5 DEF ResolutionInv
<1>7. HopInv'
  <2>1. pc' # "done" => Cardinality(ChainOf(host)' \ ChainOf(current)') = 0
    <3>1. SUFFICES ASSUME pc' # "done"
                   PROVE  Cardinality(ChainOf(host)' \ ChainOf(current)') = 0
      OBVIOUS
    <3>2. ChainOf(current)' = ChainOf(host) /\ ChainOf(host)' = ChainOf(host)
      BY <1>1, <1>5, <3>1, SameChains
    <3> QED BY <3>2, FS_EmptySet
  <2>2. ChainLimit'
    BY <1>5 DEF ChainLimit, TypeOK
  <2> QED BY <1>1, <1>5, <2>1, <2>2 DEF LookupInv, HopInv
<1>8. TTLInv'
  <2>1. ASSUME pc' # "done"
        PROVE  (\E W \in SUBSET ChainOf(host) :
                  /\ ChainOf(host) \ ChainOf(current) \subseteq W
                  /\ chainTTL = LeastTTL({zone[n].ttl : n \in W}))'
    <3>1. ChainOf(current)' = ChainOf(host)' /\ chainTTL' = 0
      BY <1>1, <1>5, <2>1, SameChains
    <3>2. LeastTTL({zone[n].ttl : n \in {}}') = 0
      BY LeastTTLIsLeast
    <3> QED BY <3>1, <3>2
  <2>2. ASSUME zone[e].exists PROVE ttl' = LeastTTL({zone[n].ttl : n \in Answering}')
    <3>1. PICK W \in SUBSET ChainOf(host) :
            /\ ChainOf(host) \ ChainOf(current) \subseteq W
            /\ chainTTL = LeastTTL({zone[n].ttl : n \in W})
      BY DEF LookupInv, TTLInv
    <3>2. e \in Names /\ ChainOf(current) \subseteq ChainOf(host)
          /\ ChainOf(host) \in SUBSET Names
      BY Place
    <3>3. answers \in SUBSET Names /\ W \in SUBSET Names
          /\ W \cup answers = ChainOf(host) \cup (IF found = {} THEN {} ELSE {e})
      BY <3>1, <3>2
    <3> DEFINE all == W \cup answers
               old == {zone[n].ttl : n \in Answering}
               new == {zone[n].ttl : n \in all}
    <3>4. t = LeastTTL(new)
      <4> HIDE DEF answers
      <4> QED BY <2>2, <3>1, <3>3, WithAnswerOfUnion DEF answers
    <3>5. ttl = LeastTTL(old)
      BY <1>4, <2>2 DEF LookupInv, TTLInv
    <3>6. old \in SUBSET Nat /\ new \in SUBSET Nat
      <4>1. \A n \in Names : zone[n].ttl \in Nat
        BY ZoneType, LookupAssumption DEF TypeOK, NameRecords
      <4>2. Answering \subseteq Names
        BY <1>4, <3>2 DEF Answering
      <4> QED BY <3>3, <4>1, <4>2
    <3>7. LeastTTL({ttl, t}) = LeastTTL(old \cup new)
      <4> HIDE DEF old, new
      <4>1. LeastTTL({LeastTTL(old)} \cup {LeastTTL(new)}) = LeastTTL(old \cup {LeastTTL(new)})
        BY <3>6, LeastTTLIsLeast, LeastTTLOfUnion
      <4>2. LeastTTL({LeastTTL(new)} \cup old) = LeastTTL(new \cup old)
        BY <3>6, LeastTTLOfUnion
      <4>3. {ttl, t} = {LeastTTL(old)} \cup {LeastTTL(new)}
        BY <3>4, <3>5
      <4>4. old \cup {LeastTTL(new)} = {LeastTTL(new)} \cup old /\ new \cup old = old \cup new
        OBVIOUS
      <4> QED BY <4>1, <4>2, <4>3, <4>4
    <3>8. Answering' = Answering \cup all
      <4>1. Answering' = ChainOf(host) \cup
              {d \in Ends : \E f \in F \cup {qtype} : zone[d].addrs[f] # {}}
        BY <1>1, <1>3, SameChains DEF Answering, input
      <4>2. all = ChainOf(host) \cup {d \in Ends : zone[d].addrs[qtype] # {}}
        BY <1>4, <3>3
      <4> QED BY <4>1, <4>2 DEF Answering
    <3>9. {zone[n].ttl : n \in Answering}' = old \cup new
      <4>1. {zone[n].ttl : n \in Answering}' = {zone[n].ttl : n \in Answering'}
        BY <1>1 DEF input
      <4> QED BY <3>8, <4>1
    <3> HIDE DEF old, new
    <3> QED BY <1>1, <3>7, <3>9
  <2>3. (\A d \in Ends : zone[d].exists)' => zone[e].exists
    BY <1>1, <1>4, SameChains
  <2> QED BY <2>1, <2>2, <2>3 DEF TTLInv
<1> QED BY <1>6, <1>7, <1>8 DEF LookupInv

LEMMA LookupStep ==
  ASSUME TypeOK, LookupInv, [Next]_vars
  PROVE  LookupInv'
<1>1. CASE FindServer
  <2>1. CASE Fail /\ broken' = TRUE
    BY <1>1, <2>1, FailInv DEF FindServer
  <2>2. CASE /\ pc' = "query"
             /\ UNCHANGED <<input, todo, chainVars, ips, ttl, ok, broken>>
    <3>1. UNCHANGED <<input, FamiliesDone, current, hop, chainTTL>> /\ pc = "start"
      BY <1>1, <2>2 DEF FindServer, chainVars, FamiliesDone, Wanted, input
    <3>2. ResolutionInv'
      BY <2>2, <3>1, SameChains DEF LookupInv, ResolutionInv, input
    <3>3. HopInv'
      BY <2>2, <3>1, SameChains DEF LookupInv, HopInv, ChainLimit
    <3>4. TTLInv'
      <4>1. UNCHANGED <<zone, current, chainTTL, ttl, FamiliesDone>>
        BY <2>2, <3>1 DEF input
      <4>2. /\ Ends' = Ends /\ ChainOf(host)' = ChainOf(host)
            /\ ChainOf(current)' = ChainOf(current)
            /\ (\A e \in Ends : zone[e].exists)' = (\A e \in Ends : zone[e].exists)
        BY <3>1, <4>1, SameChains
      <4>3. Answering' = Answering
        BY <4>1, <4>2 DEF Answering
      <4> QED BY <2>2, <3>1, <4>1, <4>2, <4>3 DEF LookupInv, TTLInv
    <3> QED BY <3>2, <3>3, <3>4 DEF LookupInv
  <2> QED BY <1>1, <2>1, <2>2 DEF FindServer
<1>2. CASE Truncated \/ UNCHANGED vars
  <2>1. UNCHANGED <<input, FamiliesDone, pc, todo, current, hop, chainTTL, ips, ttl, ok, broken>>
    BY <1>2 DEF Truncated, vars, chainVars, FamiliesDone, Wanted, input
  <2>2. ResolutionInv'
    BY <2>1, SameChains DEF LookupInv, ResolutionInv, input
  <2>3. HopInv'
    BY <2>1, SameChains DEF LookupInv, HopInv, ChainLimit, ChainOf
  <2>4. TTLInv'
    <3>1. UNCHANGED <<zone, current, pc, chainTTL, ttl, FamiliesDone>>
      BY <2>1 DEF input
    <3>2. /\ Ends' = Ends /\ ChainOf(host)' = ChainOf(host)
          /\ ChainOf(current)' = ChainOf(current)
          /\ (\A e \in Ends : zone[e].exists)' = (\A e \in Ends : zone[e].exists)
      BY <2>1, <3>1, SameChains
    <3>3. Answering' = Answering
      BY <3>1, <3>2 DEF Answering
    <3> QED BY <3>1, <3>2, <3>3 DEF LookupInv, TTLInv
  <2> QED BY <2>2, <2>3, <2>4 DEF LookupInv
<1>3. CASE QueryFails
  BY <1>3, FailInv DEF QueryFails
<1>4. CASE PartialAnswer
  <2>1. PICK aliases \in Beginnings(current) : FollowAlias(WithAnswer(aliases))
    BY <1>4 DEF PartialAnswer
  <2>2. pc = "query" /\ IsAlias(current) /\ broken' = broken
    BY <1>4 DEF PartialAnswer
  <2> QED BY <2>1, <2>2, BeginningsOfChain, FollowInv
<1>5. CASE FullAnswer
  <2> DEFINE found(e) == zone[e].addrs[qtype]
             names(e) == ChainOf(current) \cup (IF found(e) = {} THEN {} ELSE {e})
  <2>1. pc = "query" /\ current \in Names /\ chainTTL \in Nat
    BY <1>5 DEF FullAnswer, TypeOK
  <2>2. PICK e \in {m \in Reaches(current) : ~IsAlias(m)} :
          \/ ~zone[e].exists /\ FamilyDone({}, chainTTL)
          \/ zone[e].exists /\ FamilyDone(found(e), WithAnswer(names(e)))
          \/ /\ zone[e].exists /\ found(e) = {} /\ IsAlias(current)
             /\ FollowAlias(WithAnswer(names(e))) /\ broken' = broken
    BY <1>5 DEF FullAnswer
  <2>3. e \in Names
    BY <2>1, ReachesClosed DEF TypeOK
  <2>4. CASE ~zone[e].exists /\ FamilyDone({}, chainTTL)
    <3>1. found(e) = {}
      BY <2>1, <2>3, <2>4, ZoneType, QTypeToDo DEF TypeOK
    <3> QED BY <2>1, <2>2, <2>4, <3>1, DoneInv
  <2>5. CASE zone[e].exists /\ FamilyDone(found(e), WithAnswer(names(e)))
    <3>1. WithAnswer(names(e)) \in Nat
      BY <2>1, <2>3, ChainOfType, WithAnswerType
    <3> QED BY <2>1, <2>2, <2>5, <3>1, DoneInv
  <2>6. CASE /\ zone[e].exists /\ found(e) = {} /\ IsAlias(current)
             /\ FollowAlias(WithAnswer(names(e))) /\ broken' = broken
    <3>1. names(e) = ChainOf(current)
      BY <2>6
    <3>2. current \in ChainOf(current)
      BY <2>1, <2>6, ReachesClosed DEF TypeOK, ChainOf
    <3> HIDE DEF names
    <3> QED BY <2>1, <2>6, <3>1, <3>2, FollowInv
  <2> QED BY <2>2, <2>4, <2>5, <2>6
<1> QED BY <1>1, <1>2, <1>3, <1>4, <1>5 DEF Next

LEMMA LookupStart ==
  ASSUME Init
  PROVE  TypeOK /\ LookupInv
<1>1. TypeOK
  <2>1. Wanted(recordType) # {}
    BY DEF Init, Wanted, RecordTypes, Families
  <2>2. current \in Names /\ hop \in 0 .. MaxHops /\ chainTTL \in Nat /\ ttl \in Nat
    BY LookupAssumption DEF Init
  <2> QED BY <2>1, <2>2 DEF Init, TypeOK
<1>2. host \in Names /\ current = host /\ FamiliesDone = {}
  BY LookupAssumption DEF Init, FamiliesDone
<1>3. ResolutionInv
  BY <1>1, <1>2, ReachesClosed DEF ResolutionInv, Init, TypeOK
<1>4. HopInv
  BY <1>2, FS_EmptySet DEF HopInv, ChainLimit, Init
<1>5. TTLInv
  <2>1. LeastTTL({zone[n].ttl : n \in {}}) = 0
    BY LeastTTLIsLeast
  <2> QED BY <1>2, <2>1 DEF TTLInv, Answering, Init
<1> QED BY <1>1, <1>3, <1>4, <1>5 DEF LookupInv

(* The state of a lookup keeps its shape, and no more aliases are followed     *)
(* than maxCNAMEHops, whatever the DNS holds.                                 *)
THEOREM TypeCorrect == Spec => []TypeOK
  BY LookupStart, TypeStep, PTL DEF Spec

(* The invariant behind the three theorems that follow.                      *)
THEOREM LookupInvariant == Spec => [](TypeOK /\ LookupInv)
<1>1. TypeOK /\ LookupInv /\ [Next]_vars => (TypeOK /\ LookupInv)'
  BY TypeStep, LookupStep
<1> QED BY <1>1, LookupStart, PTL DEF Spec

(* A successful lookup has resolved the host: it returns the addresses, of    *)
(* every family wanted, of the name where the chain of aliases ends, however  *)
(* the name servers split it over their answers.                             *)
THEOREM LookupResolves == Spec => []ResultIsResolution
<1>1. TypeOK /\ LookupInv => ResultIsResolution
  <2>1. TypeOK => Wanted(recordType) # {}
    BY DEF TypeOK, Wanted, RecordTypes, Families
  <2> QED BY <2>1 DEF LookupInv, ResolutionInv, ResultIsResolution, FamiliesDone
<1> QED BY <1>1, LookupInvariant, PTL

(* A lookup fails only for a query that failed, a chain of more than          *)
(* maxCNAMEHops aliases, or one without an end.                              *)
THEOREM LookupLimit == Spec => []ChainLimit
<1>1. LookupInv => ChainLimit
  BY DEF LookupInv, HopInv
<1> QED BY <1>1, LookupInvariant, PTL

(* The TTL of a result is the least of all records involved, as documented,     *)
(* if none of them is 0.                                                     *)
THEOREM LookupTTL == Spec => []TTLIsLeast
<1>1. ASSUME TypeOK, LookupInv, pc = "done", ok, \A e \in Ends : zone[e].exists,
             0 \notin InvolvedTTLs
      PROVE  ttl = MinimumTTL(InvolvedTTLs)
  <2>1. FamiliesDone = Wanted(recordType) /\ FamiliesDone # {}
    BY <1>1 DEF TypeOK, LookupInv, ResolutionInv, FamiliesDone, Wanted, RecordTypes,
       Families
  <2>2. Answering = {m \in Reaches(host) :
                       IsAlias(m) \/ \E f \in Wanted(recordType) : zone[m].addrs[f] # {}}
    BY <2>1 DEF Answering, ChainOf, Ends
  <2>3. ttl = LeastTTL(InvolvedTTLs)
    BY <1>1, <2>2 DEF LookupInv, TTLInv, InvolvedTTLs
  <2>4. InvolvedTTLs \ {0} = InvolvedTTLs
    BY <1>1
  <2> QED BY <2>3, <2>4 DEF LeastTTL
<1>2. TypeOK /\ LookupInv => TTLIsLeast
  BY <1>1 DEF TTLIsLeast, TTLIsMinimum
<1> QED BY <1>2, LookupInvariant, PTL

=============================================================================
