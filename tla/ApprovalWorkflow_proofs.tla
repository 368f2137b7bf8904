----------------------- MODULE ApprovalWorkflow_proofs -----------------------
(***************************************************************************)
(* Proofs about ApprovalWorkflow for every set of principals and roles,    *)
(* every quorum, every length of a chain and every choice of times.        *)
(***************************************************************************)
EXTENDS ApprovalWorkflow, FiniteSetTheorems, WellFoundedInduction, TLAPS

Records == [type: EventTypes, at: Times, actor: Principals, role: Roles \cup {None},
            source: Principals \cup {None}, to: Principals \cup {None},
            until: Times \cup {None}]

\* The positions of a chain that hold events of a type.
Of(chain, type) == {i \in DOMAIN chain : chain[i].type = type}

\* What every reachable chain is: it replays, its times are in order, and a
\* principal who holds an eligible role decided in his own name.
Typed(chain) ==
    /\ chain \in Seq(Records)
    /\ Len(chain) >= 1
    /\ chain[1] = Event("requested", 0, Requester, None)

Ordered(chain) == \A i, j \in DOMAIN chain : i <= j => chain[i].at <= chain[j].at

OwnDecisions(chain) ==
    \A i \in Of(chain, "approved") : Eligible(chain[i].actor) => chain[i].source = chain[i].actor

ChainOK == /\ Typed(events)
           /\ Ordered(events)
           /\ Verifies(events)
           /\ OwnDecisions(events)

-----------------------------------------------------------------------------
(***************************************************************************)
(* Sets of positions.                                                      *)
(***************************************************************************)
\* The newest position of a set of them.
LEMMA NewestExists ==
    ASSUME NEW n \in Nat, NEW S \in SUBSET (1 .. n), S # {}
    PROVE  \E i \in S : \A j \in S : j <= i
<1> DEFINE T == {n - j : j \in S}
<1>1. T \subseteq Nat /\ T # {}
  <2>1. \A j \in S : n - j \in Nat
    OBVIOUS
  <2> QED
    BY <2>1
<1>2. PICK x \in T : \A y \in T : ~(<<y, x>> \in OpToRel(<, Nat))
  BY <1>1, NatLessThanWellFounded, WFMin
<1>3. \A y \in T : ~(y < x)
  BY <1>1, <1>2 DEF OpToRel
<1>4. PICK i \in S : x = n - i
  OBVIOUS
<1>5. \A j \in S : ~(n - j < n - i)
  BY <1>3, <1>4
<1> QED
  BY <1>5

LEMMA NewestOf ==
    ASSUME NEW n \in Nat, NEW S \in SUBSET (1 .. n), S # {}
    PROVE  Newest(S) \in S /\ \A j \in S : j <= Newest(S)
BY NewestExists DEF Newest

\* The newest position stays the newest of a part of the set it belongs to.
LEMMA NewestOfPart ==
    ASSUME NEW n \in Nat, NEW S \in SUBSET (1 .. n), NEW T \in SUBSET S, Newest(S) \in T
    PROVE  Newest(T) = Newest(S)
<1>1. S # {} /\ T # {} /\ T \in SUBSET (1 .. n)
  OBVIOUS
<1>2. Newest(S) \in S /\ \A j \in S : j <= Newest(S)
  BY <1>1, NewestOf
<1>3. Newest(T) \in T /\ \A j \in T : j <= Newest(T)
  BY <1>1, NewestOf
<1>4. Newest(T) <= Newest(S) /\ Newest(S) <= Newest(T)
  BY <1>2, <1>3
<1>5. \A j \in 1 .. n : j \in Nat
  OBVIOUS
<1>6. Newest(T) \in 1 .. n /\ Newest(S) \in 1 .. n
  BY <1>1, <1>2, <1>3
<1> QED
  BY <1>4, <1>5, <1>6

-----------------------------------------------------------------------------
(***************************************************************************)
(* A prefix of a chain replays the same way.                               *)
(***************************************************************************)
Before(chain, i, type) == {j \in 1 .. (i - 1) : chain[j].type = type}
Sources(chain, S) == {chain[j].source : j \in S}
Actors(chain, S) == {chain[j].actor : j \in S}

LEMMA StateBeforeIs ==
    ASSUME NEW chain, NEW i
    PROVE  StateBefore(chain, i) =
             IF Before(chain, i, "revoked") # {} THEN "revoked"
             ELSE IF Before(chain, i, "rejected") # {} THEN "rejected"
             ELSE IF Cardinality(Sources(chain, Before(chain, i, "approved"))) >= Required
                  THEN "approved"
             ELSE "pending"
BY DEF StateBefore, Before, Sources

\* The delegations an event at position i may rest on.
Found(chain, i) ==
    {j \in Delegations(chain, chain[i].actor, chain[i].at) :
        j < i /\ chain[j].role = chain[i].role}

LEMMA ExpectedSourceIs ==
    ASSUME NEW chain, NEW i
    PROVE  ExpectedSource(chain, i) =
             IF DirectRole(chain[i]) THEN chain[i].actor
             ELSE DelegatedAuthority(chain, Found(chain, i)).source
BY DEF ExpectedSource, Found

LEMMA FoundIn ==
    ASSUME NEW chain \in Seq(Records), NEW i \in DOMAIN chain
    PROVE  /\ Found(chain, i) \in SUBSET (1 .. Len(chain))
           /\ \A j \in DOMAIN chain : j \in Found(chain, i) <=>
                /\ j < i
                /\ chain[j].type = "delegated" /\ chain[j].at <= chain[i].at
                /\ chain[j].to = chain[i].actor /\ chain[i].at < chain[j].until
                /\ chain[j].role = chain[i].role
BY DEF Found, Delegations, Upto

LEMMA DelegatedSource ==
    ASSUME NEW chain \in Seq(Records), NEW S \in SUBSET (1 .. Len(chain))
    PROVE  /\ S = {} => DelegatedAuthority(chain, S) = NoAuthority
           /\ S # {} => /\ Newest(S) \in S
                        /\ DelegatedAuthority(chain, S).source = chain[Newest(S)].actor
                        /\ DelegatedAuthority(chain, S).role = chain[Newest(S)].role
                        /\ DelegatedAuthority(chain, S).source \in Principals
                        /\ DelegatedAuthority(chain, S).role \in Roles \cup {None}
<1>1. Len(chain) \in Nat
  OBVIOUS
<1>2. CASE S # {}
  <2>1. Newest(S) \in S /\ Newest(S) \in 1 .. Len(chain)
    BY <1>1, <1>2, NewestOf
  <2>2. chain[Newest(S)] \in Records
    BY <2>1
  <2> QED
    BY <1>2, <2>1, <2>2 DEF DelegatedAuthority, Records
<1> QED
  BY <1>2 DEF DelegatedAuthority

LEMMA SamePrefix ==
    ASSUME NEW a \in Seq(Records), NEW b \in Seq(Records),
           NEW i \in DOMAIN a, i \in DOMAIN b, \A j \in 1 .. i : a[j] = b[j]
    PROVE  /\ StateBefore(a, i) = StateBefore(b, i)
           /\ EventVerifies(a, i) <=> EventVerifies(b, i)
<1>1. i \in Nat /\ i >= 1 /\ 1 .. i \subseteq DOMAIN a /\ 1 .. i \subseteq DOMAIN b
  OBVIOUS
<1>2. a[i] = b[i] /\ \A j \in 1 .. (i - 1) : a[j] = b[j]
  BY <1>1
<1>3. \A type : Before(a, i, type) = Before(b, i, type)
  BY <1>2 DEF Before
<1>4. Sources(a, Before(a, i, "approved")) = Sources(b, Before(b, i, "approved"))
  BY <1>2, <1>3 DEF Sources, Before
<1>5. StateBefore(a, i) = StateBefore(b, i)
  BY <1>3, <1>4, StateBeforeIs
<1>6. Found(a, i) = Found(b, i)
  <2>1. \A j \in Found(a, i) : j \in Found(b, i)
    BY <1>1, <1>2, FoundIn
  <2>2. \A j \in Found(b, i) : j \in Found(a, i)
    BY <1>1, <1>2, FoundIn
  <2> QED
    BY <2>1, <2>2
<1>7. DelegatedAuthority(a, Found(a, i)).source = DelegatedAuthority(b, Found(b, i)).source
  <2>1. CASE Found(a, i) = {}
    BY <1>6, <2>1, FoundIn, DelegatedSource
  <2>2. CASE Found(a, i) # {}
    <3>1. /\ Newest(Found(a, i)) \in Found(a, i)
          /\ DelegatedAuthority(a, Found(a, i)).source = a[Newest(Found(a, i))].actor
      BY <2>2, FoundIn, DelegatedSource
    <3>2. DelegatedAuthority(b, Found(b, i)).source = b[Newest(Found(b, i))].actor
      BY <1>6, <2>2, FoundIn, DelegatedSource
    <3>3. Newest(Found(a, i)) \in 1 .. (i - 1)
      BY <1>1, <3>1, FoundIn
    <3> QED
      BY <1>2, <1>6, <3>1, <3>2, <3>3
  <2> QED
    BY <2>1, <2>2
<1>8. ExpectedSource(a, i) = ExpectedSource(b, i)
  BY <1>2, <1>7, ExpectedSourceIs
<1>9. DecisionVerifies(a, i) <=> DecisionVerifies(b, i)
  BY <1>2, <1>8 DEF DecisionVerifies
<1>10. EscalationVerifies(a, i) <=> EscalationVerifies(b, i)
  BY <1>2 DEF EscalationVerifies
<1> QED
  BY <1>2, <1>5, <1>9, <1>10 DEF EventVerifies

LEMMA AppendVerifies ==
    ASSUME NEW chain, Typed(chain), NEW e \in Records
    PROVE  Verifies(Append(chain, e)) <=>
             /\ Verifies(chain)
             /\ chain[Len(chain)].at <= e.at
             /\ EventVerifies(Append(chain, e), Len(chain) + 1)
<1> DEFINE longer == Append(chain, e)
           n == Len(chain)
<1>1. /\ chain \in Seq(Records) /\ longer \in Seq(Records)
      /\ n \in Nat /\ n >= 1 /\ Len(longer) = n + 1
      /\ DOMAIN chain = 1 .. n /\ DOMAIN longer = 1 .. (n + 1)
      /\ longer[n + 1] = e /\ \A i \in 1 .. n : longer[i] = chain[i]
  BY DEF Typed
<1> HIDE DEF longer
<1>2. \A i \in 2 .. n : EventVerifies(longer, i) <=> EventVerifies(chain, i)
  <2> SUFFICES ASSUME NEW i \in 2 .. n
               PROVE  EventVerifies(longer, i) <=> EventVerifies(chain, i)
    OBVIOUS
  <2>1. i \in DOMAIN longer /\ i \in DOMAIN chain /\ \A j \in 1 .. i : longer[j] = chain[j]
    BY <1>1
  <2> QED
    BY <1>1, <2>1, SamePrefix
<1>3. \A i \in 2 .. n : longer[i - 1].at <= longer[i].at <=> chain[i - 1].at <= chain[i].at
  BY <1>1
<1>4. Verifies(longer) <=>
        /\ \A i \in 2 .. n : longer[i - 1].at <= longer[i].at /\ EventVerifies(longer, i)
        /\ longer[(n + 1) - 1].at <= longer[n + 1].at /\ EventVerifies(longer, n + 1)
  <2>1. 2 .. (n + 1) = (2 .. n) \cup {n + 1}
    BY <1>1
  <2> QED
    BY <1>1, <2>1 DEF Verifies
<1>5. longer[(n + 1) - 1] = chain[n]
  BY <1>1
<1>6. Verifies(chain) <=> \A i \in 2 .. n : chain[i - 1].at <= chain[i].at /\ EventVerifies(chain, i)
  BY DEF Verifies
<1> QED
  BY <1>1, <1>2, <1>3, <1>4, <1>5, <1>6 DEF longer

-----------------------------------------------------------------------------
(***************************************************************************)
(* The chain as it grows.                                                  *)
(***************************************************************************)
LEMMA EligibleRole ==
    ASSUME NEW p \in Principals, Eligible(p)
    PROVE  /\ DirectAuthority(p).role \in RolesOf[p] \cap EligibleRoles
           /\ DirectAuthority(p).role \in Roles
           /\ DirectAuthority(p).source = p
           /\ DirectAuthority(p) # NoAuthority
BY RequestAssumption DEF Eligible, DirectAuthority, NoAuthority

\* Where the authority of a principal comes from.
LEMMA AuthorityType ==
    ASSUME Typed(events), NEW p \in Principals, NEW at \in Times
    PROVE  /\ Delegations(events, p, at) \in SUBSET (1 .. Len(events))
           /\ Eligible(p) => EligibleAuthority(p, at) = DirectAuthority(p)
           /\ ~Eligible(p) => EligibleAuthority(p, at) =
                                 DelegatedAuthority(events, Delegations(events, p, at))
           /\ EligibleAuthority(p, at).role \in Roles \cup {None}
           /\ EligibleAuthority(p, at).source \in Principals \cup {None}
<1>1. events \in Seq(Records) /\ Delegations(events, p, at) \in SUBSET (1 .. Len(events))
  BY DEF Typed, Delegations, Upto
<1>2. NoAuthority.role = None /\ NoAuthority.source = None
  BY DEF NoAuthority
<1> QED
  BY <1>1, <1>2, EligibleRole, DelegatedSource DEF EligibleAuthority

LEMMA MadeEvents ==
    ASSUME Typed(events), NEW p \in Principals, NEW at \in Times
    PROVE  /\ \A type \in {"approved", "rejected"} :
                LET e == Decision(type, p, at) IN
                /\ e \in Records /\ e.type = type /\ e.at = at /\ e.actor = p
                /\ e.role = EligibleAuthority(p, at).role
                /\ e.source = EligibleAuthority(p, at).source
           /\ LET e == Event("escalated", at, p, None) IN
              e \in Records /\ e.type = "escalated" /\ e.at = at /\ e.actor = p
           /\ Eligible(p) =>
                LET e == Revocation(p, at) IN
                /\ e \in Records /\ e.type = "revoked" /\ e.at = at /\ e.actor = p
                /\ e.role = DirectAuthority(p).role
<1>1. \A type \in EventTypes, role \in Roles \cup {None} : Event(type, at, p, role) \in Records
  BY DEF Event, Records
<1> QED
  BY <1>1, AuthorityType, EligibleRole DEF Decision, Revocation, Event, Records, EventTypes

LEMMA MadeDelegation ==
    ASSUME NEW p \in Principals, NEW q \in Principals, NEW role \in Roles,
           NEW at \in Times, NEW until \in Times
    PROVE  LET e == Delegation(p, q, role, at, until) IN
           /\ e \in Records /\ e.type = "delegated" /\ e.at = at /\ e.actor = p
           /\ e.role = role /\ e.to = q /\ e.until = until
BY DEF Delegation, Event, Records, EventTypes

LEMMA TimesAreNumbers == Times \subseteq Nat /\ \A at \in Times : at <= ExpiresAt
BY RequestAssumption DEF Times

LEMMA GrowsOK ==
    ASSUME ChainOK, NEW e \in Records, AppendEvent(e),
           e.type = "approved" /\ Eligible(e.actor) => e.source = e.actor
    PROVE  ChainOK'
<1> DEFINE n == Len(events)
<1>1. /\ events \in Seq(Records) /\ events' \in Seq(Records)
      /\ n \in Nat /\ n >= 1 /\ Len(events') = n + 1
      /\ DOMAIN events = 1 .. n /\ DOMAIN events' = 1 .. (n + 1)
      /\ events'[n + 1] = e /\ \A i \in 1 .. n : events'[i] = events[i]
  BY DEF ChainOK, Typed, AppendEvent
<1>2. Verifies(events') /\ events[n].at <= e.at
  BY AppendVerifies DEF ChainOK, AppendEvent
<1>3. Typed(events')
  BY <1>1 DEF ChainOK, Typed
<1>4. Ordered(events')
  <2>1. \A i \in 1 .. (n + 1) : events'[i].at \in Nat
    <3> SUFFICES ASSUME NEW i \in 1 .. (n + 1) PROVE events'[i].at \in Nat
      OBVIOUS
    <3>1. events'[i] \in Records
      BY <1>1
    <3>2. events'[i].at \in Times
      BY <3>1 DEF Records
    <3> QED
      BY <3>2, TimesAreNumbers
  <2>2. \A i \in 1 .. n : events[i].at <= events[n].at
    BY <1>1 DEF ChainOK, Ordered
  <2>3. \A i \in 1 .. n : events'[i].at <= events'[n + 1].at
    BY <1>1, <1>2, <2>1, <2>2
  <2>4. \A i, j \in 1 .. n : i <= j => events'[i].at <= events'[j].at
    BY <1>1 DEF ChainOK, Ordered
  <2> SUFFICES ASSUME NEW i \in 1 .. (n + 1), NEW j \in 1 .. (n + 1), i <= j
               PROVE  events'[i].at <= events'[j].at
    BY <1>1 DEF Ordered
  <2>5. CASE j \in 1 .. n
    BY <1>1, <2>4, <2>5
  <2>6. CASE j = n + 1 /\ i \in 1 .. n
    BY <2>3, <2>6
  <2>7. CASE j = n + 1 /\ i = n + 1
    BY <2>1, <2>7
  <2> QED
    BY <1>1, <2>5, <2>6, <2>7
<1>5. OwnDecisions(events')
  BY <1>1 DEF ChainOK, OwnDecisions, Of
<1> QED
  BY <1>2, <1>3, <1>4, <1>5 DEF ChainOK

LEMMA ChainInit == Init => ChainOK
<1> SUFFICES ASSUME Init PROVE ChainOK
  OBVIOUS
<1> DEFINE first == Event("requested", 0, Requester, None)
<1>1. first \in Records /\ first.type = "requested" /\ first.at = 0 /\ 0 \in Times
  BY RequestAssumption DEF Event, Records, EventTypes, Times
<1>2. events = <<first>>
  BY DEF Init
<1> HIDE DEF first
<1>3. events \in Seq(Records) /\ Len(events) = 1 /\ events[1] = first /\ DOMAIN events = {1}
  BY <1>1, <1>2
<1>4. 2 .. Len(events) = {}
  BY <1>3
<1> QED
  BY <1>1, <1>3, <1>4 DEF ChainOK, Typed, Ordered, Verifies, OwnDecisions, Of, first

LEMMA ChainStep == ChainOK /\ [Next]_events => ChainOK'
<1> SUFFICES ASSUME ChainOK, [Next]_events PROVE ChainOK'
  OBVIOUS
<1>1. CASE UNCHANGED events
  BY <1>1 DEF ChainOK
<1>2. ASSUME NEW p \in Principals, NEW at \in Times,
             Approve(p, at) \/ Reject(p, at) \/ Escalate(p, at) \/ Revoke(p, at)
      PROVE  ChainOK'
  <2>1. CASE Approve(p, at)
    BY <2>1, MadeEvents, AuthorityType, EligibleRole, GrowsOK DEF Approve, ChainOK
  <2>2. CASE Reject(p, at)
    BY <2>2, MadeEvents, GrowsOK DEF Reject, ChainOK
  <2>3. CASE Escalate(p, at)
    BY <2>3, MadeEvents, GrowsOK DEF Escalate, ChainOK
  <2>4. CASE Revoke(p, at)
    BY <2>4, MadeEvents, GrowsOK DEF Revoke, MayRevoke, ChainOK
  <2> QED
    BY <1>2, <2>1, <2>2, <2>3, <2>4
<1>3. ASSUME NEW p \in Principals, NEW q \in Principals, NEW role \in Roles,
             NEW at \in Times, NEW until \in Times, Delegate(p, q, role, at, until)
      PROVE  ChainOK'
  BY <1>3, MadeDelegation, GrowsOK DEF Delegate
<1> QED
  BY <1>1, <1>2, <1>3 DEF Next

LEMMA ChainTypeOK == ChainOK => TypeOK
<1> SUFFICES ASSUME ChainOK PROVE TypeOK
  OBVIOUS
<1>1. events \in Seq(Records) /\ Len(events) >= 1 /\ events[1] = Event("requested", 0, Requester, None)
  BY DEF ChainOK, Typed
<1>2. ASSUME NEW i \in DOMAIN events, i > 1 PROVE events[i - 1].at <= events[i].at
  BY <1>1, <1>2 DEF ChainOK, Verifies
<1>3. Head(events) = Event("requested", 0, Requester, None)
  BY <1>1
<1>4. ASSUME NEW i \in DOMAIN events
      PROVE  /\ events[i].type \in EventTypes /\ events[i].at \in Times
             /\ events[i].actor \in Principals /\ events[i].role \in Roles \cup {None}
             /\ events[i].source \in Principals \cup {None}
  <2>1. events[i] \in Records
    BY <1>1
  <2> QED
    BY <2>1 DEF Records
<1> QED
  BY <1>2, <1>3, <1>4 DEF TypeOK

\* The chain is well formed and in the order of its times.
THEOREM ApprovalTypeCorrect == Spec => []TypeOK
BY ChainInit, ChainStep, ChainTypeOK, PTL DEF Spec

-----------------------------------------------------------------------------
(***************************************************************************)
(* What a chain that replays says.                                         *)
(***************************************************************************)
LEMMA Positions ==
    ASSUME NEW chain \in Seq(Records), NEW S \in SUBSET (1 .. Len(chain))
    PROVE  /\ IsFiniteSet(S) /\ Cardinality(S) \in Nat
           /\ IsFiniteSet(Sources(chain, S)) /\ Cardinality(Sources(chain, S)) \in Nat
           /\ Cardinality(Sources(chain, S)) <= Cardinality(S)
<1>1. IsFiniteSet(S) /\ Cardinality(S) \in Nat
  <2>1. 1 \in Int /\ Len(chain) \in Int
    OBVIOUS
  <2>2. IsFiniteSet(1 .. Len(chain))
    BY <2>1, FS_Interval
  <2> QED
    BY <2>2, FS_Subset, FS_CardinalityType
<1> DEFINE f == [j \in S |-> chain[j].source]
<1>2. f \in Surjection(S, Sources(chain, S))
  BY DEF Surjection, Sources
<1> HIDE DEF f
<1>3. /\ IsFiniteSet(Sources(chain, S))
      /\ Cardinality(Sources(chain, S)) <= Cardinality(S)
  BY <1>1, <1>2, FS_Surjection
<1> QED
  BY <1>1, <1>3, FS_CardinalityType

\* Every decision counts for one principal, and is made by another one each.
LEMMA OneEach ==
    ASSUME NEW chain, Typed(chain), Verifies(chain), NEW S \in SUBSET Of(chain, "approved")
    PROVE  /\ Cardinality(Sources(chain, S)) = Cardinality(S)
           /\ Cardinality(Actors(chain, S)) = Cardinality(S)
<1>1. chain \in Seq(Records) /\ S \subseteq 1 .. Len(chain)
  BY DEF Typed, Of
<1>2. IsFiniteSet(S)
  BY <1>1, Positions
<1>3. \A i \in S : i \in 2 .. Len(chain) /\ chain[i].type = "approved"
  BY <1>1 DEF Typed, Of, Event
<1>4. \A i \in S : \A j \in S : j < i =>
         chain[j].actor # chain[i].actor /\ chain[j].source # chain[i].source
  BY <1>1, <1>3, SMTT(30) DEF Verifies, EventVerifies, DecisionVerifies
<1>5. \A i, j \in S : i # j =>
         chain[j].actor # chain[i].actor /\ chain[j].source # chain[i].source
  <2> SUFFICES ASSUME NEW i \in S, NEW j \in S, i # j
               PROVE  chain[j].actor # chain[i].actor /\ chain[j].source # chain[i].source
    OBVIOUS
  <2>1. i \in Nat /\ j \in Nat
    BY <1>1
  <2>2. i < j \/ j < i
    BY <2>1
  <2> QED
    BY <1>4, <2>2
<1> DEFINE f == [j \in S |-> chain[j].source]
           g == [j \in S |-> chain[j].actor]
<1>6. f \in Bijection(S, Sources(chain, S)) /\ g \in Bijection(S, Actors(chain, S))
  <2>1. f \in Surjection(S, Sources(chain, S)) /\ g \in Surjection(S, Actors(chain, S))
    BY DEF Surjection, Sources, Actors
  <2>2. \A i, j \in S : f[i] = f[j] => i = j
    BY <1>5
  <2>3. \A i, j \in S : g[i] = g[j] => i = j
    BY <1>5
  <2>4. f \in [S -> Sources(chain, S)] /\ g \in [S -> Actors(chain, S)]
    BY DEF Sources, Actors
  <2> HIDE DEF f, g
  <2>5. f \in Injection(S, Sources(chain, S)) /\ g \in Injection(S, Actors(chain, S))
    BY <2>2, <2>3, <2>4 DEF Injection, IsInjective
  <2> QED
    BY <2>1, <2>5 DEF Bijection
<1> HIDE DEF f, g
<1>7. ExistsBijection(S, Sources(chain, S)) /\ ExistsBijection(S, Actors(chain, S))
  BY <1>6 DEF ExistsBijection
<1> QED
  BY <1>2, <1>7, FS_Bijection

\* Nothing follows a rejection or a revocation, and no decision follows a quorum.
LEMMA Follows ==
    ASSUME NEW chain, Typed(chain), Verifies(chain), NEW i \in DOMAIN chain, i > 1
    PROVE  /\ chain[i].type # "requested" /\ i \in 2 .. Len(chain)
           /\ \A j \in 1 .. (i - 1) : chain[j].type \notin {"rejected", "revoked"}
           /\ chain[i].type # "revoked" =>
                \A S \in SUBSET Before(chain, i, "approved") : Cardinality(S) < Required
           /\ chain[i].type = "revoked" =>
                Cardinality(Before(chain, i, "approved")) >= Required
<1> DEFINE made == Before(chain, i, "approved")
<1>1. /\ chain \in Seq(Records) /\ i \in 2 .. Len(chain) /\ EventVerifies(chain, i)
      /\ made \in SUBSET (1 .. Len(chain)) /\ made \in SUBSET Of(chain, "approved")
  BY DEF Typed, Verifies, Before, Of
<1>2. /\ StateBefore(chain, i) \in {"approved", "pending"}
      /\ chain[i].type = "revoked" <=> StateBefore(chain, i) = "approved"
      /\ chain[i].type # "requested"
  BY <1>1 DEF EventVerifies
<1>3. Before(chain, i, "revoked") = {} /\ Before(chain, i, "rejected") = {}
  BY <1>2, StateBeforeIs
<1>4. /\ Cardinality(Sources(chain, made)) = Cardinality(made)
      /\ Cardinality(made) \in Nat /\ IsFiniteSet(made)
  BY <1>1, OneEach, Positions
<1>5. chain[i].type = "revoked" <=> Cardinality(made) >= Required
  BY <1>2, <1>3, <1>4, StateBeforeIs
<1>6. \A S \in SUBSET made : Cardinality(S) \in Nat /\ Cardinality(S) <= Cardinality(made)
  BY <1>4, FS_Subset, FS_CardinalityType
<1> QED
  BY <1>1, <1>2, <1>3, <1>4, <1>5, <1>6, RequestAssumption, SMTT(30) DEF Before

-----------------------------------------------------------------------------
(***************************************************************************)
(* A question that is not about the past sees the whole chain, and so      *)
(* agrees with what the replay makes of it.                                *)
(***************************************************************************)
LEMMA SeesAll ==
    ASSUME ChainOK, NEW at \in Nat, LastAt <= at
    PROVE  \A type : Upto(events, type, at) = Of(events, type)
<1> DEFINE n == Len(events)
<1>1. events \in Seq(Records) /\ n \in Nat /\ n >= 1 /\ DOMAIN events = 1 .. n
  BY DEF ChainOK, Typed
<1>2. LastAt = events[n].at
  BY DEF LastAt, Last
<1>3. ASSUME NEW i \in 1 .. n PROVE events[i].at <= at
  <2>1. events[i] \in Records /\ events[n] \in Records
    BY <1>1
  <2>2. events[i].at \in Nat /\ events[n].at \in Nat
    BY <2>1, TimesAreNumbers DEF Records
  <2>3. events[i].at <= events[n].at
    BY <1>1 DEF ChainOK, Ordered
  <2> QED
    BY <1>2, <2>2, <2>3
<1> QED
  BY <1>1, <1>3 DEF Upto, Of

LEMMA LaterTimes ==
    ASSUME ChainOK
    PROVE  /\ \A at \in Later : at \in Times /\ at \in Nat /\ LastAt <= at /\ at <= ExpiresAt
           /\ LastAt \in Times /\ LastAt <= ExpiresAt /\ ExpiresAt \in Nat
           /\ events[Len(events)].at = LastAt
<1>1. events \in Seq(Records) /\ Len(events) \in DOMAIN events
  BY DEF ChainOK, Typed
<1>2. events[Len(events)] \in Records
  BY <1>1
<1>3. LastAt = events[Len(events)].at
  BY DEF LastAt, Last
<1>4. LastAt \in Times
  BY <1>2, <1>3 DEF Records
<1> QED
  BY <1>3, <1>4, TimesAreNumbers, RequestAssumption DEF Later

LEMMA ReplayAgrees ==
    ASSUME ChainOK, NEW at \in Later, NEW e \in Records,
           status(events, at) \in {"pending", "approved"}
    PROVE  /\ at < ExpiresAt
           /\ StateBefore(Append(events, e), Len(events) + 1) = status(events, at)
<1> DEFINE longer == Append(events, e)
           n == Len(events)
<1>1. /\ events \in Seq(Records) /\ n \in Nat /\ DOMAIN events = 1 .. n /\ (n + 1) - 1 = n
      /\ \A i \in 1 .. n : longer[i] = events[i]
  BY DEF ChainOK, Typed
<1> HIDE DEF longer
<1>2. \A type : Upto(events, type, at) = Of(events, type)
  BY LaterTimes, SeesAll
<1>3. \A type : Before(longer, n + 1, type) = Of(events, type)
  BY <1>1 DEF Before, Of
<1>4. Sources(longer, Of(events, "approved")) = Sources(events, Of(events, "approved"))
  BY <1>1 DEF Sources, Of
<1>5. Cardinality(Sources(events, Of(events, "approved"))) = Cardinality(Of(events, "approved"))
  BY OneEach DEF ChainOK
<1>6. at < ExpiresAt
  BY LaterTimes DEF status
<1>7. StateBefore(longer, n + 1) =
        IF Of(events, "revoked") # {} THEN "revoked"
        ELSE IF Of(events, "rejected") # {} THEN "rejected"
        ELSE IF Cardinality(Of(events, "approved")) >= Required THEN "approved"
        ELSE "pending"
  BY <1>3, <1>4, <1>5, StateBeforeIs
<1> QED
  BY <1>2, <1>6, <1>7, LaterTimes DEF status, longer

\* The authority an operation finds is the source the replay expects.
LEMMA SourceAgrees ==
    ASSUME ChainOK, NEW p \in Principals, NEW at \in Times, NEW type \in {"approved", "rejected"},
           EligibleAuthority(p, at) # NoAuthority
    PROVE  LET e == Decision(type, p, at) IN
           /\ e.source = ExpectedSource(Append(events, e), Len(events) + 1)
           /\ e.source # None
<1> DEFINE e == Decision(type, p, at)
           longer == Append(events, e)
           n == Len(events)
           D == Delegations(events, p, at)
<1>0. Typed(events)
  BY DEF ChainOK
<1>1. /\ e \in Records /\ e.type = type /\ e.at = at /\ e.actor = p
      /\ e.role = EligibleAuthority(p, at).role
      /\ e.source = EligibleAuthority(p, at).source
  BY <1>0, MadeEvents
<1> HIDE DEF e
<1>2. /\ events \in Seq(Records) /\ longer \in Seq(Records)
      /\ n \in Nat /\ Len(longer) = n + 1 /\ n + 1 \in DOMAIN longer
      /\ DOMAIN events = 1 .. n /\ DOMAIN longer = 1 .. (n + 1)
      /\ longer[n + 1] = e /\ \A i \in 1 .. n : longer[i] = events[i]
  BY <1>0, <1>1 DEF Typed
<1> HIDE DEF longer
<1>3. CASE Eligible(p)
  <2>1. /\ e.role \in RolesOf[p] \cap EligibleRoles /\ e.source = p
    BY <1>0, <1>1, <1>3, AuthorityType, EligibleRole
  <2>2. ExpectedSource(longer, n + 1) = p
    BY <1>1, <1>2, <2>1, ExpectedSourceIs DEF DirectRole
  <2> QED
    BY <2>1, <2>2, RequestAssumption DEF longer, e
<1>4. CASE ~Eligible(p)
  <2>1. ~DirectRole(longer[n + 1])
    BY <1>1, <1>2, <1>4 DEF Eligible, DirectRole
  <2>2. /\ D \in SUBSET (1 .. n)
        /\ EligibleAuthority(p, at) = DelegatedAuthority(events, D)
    BY <1>0, <1>4, AuthorityType
  <2>3. D # {}
    BY <2>2 DEF DelegatedAuthority
  <2>4. /\ Newest(D) \in D /\ e.source = events[Newest(D)].actor
        /\ e.role = events[Newest(D)].role /\ e.source \in Principals
    BY <1>1, <1>2, <2>2, <2>3, DelegatedSource
  <2>5. Found(longer, n + 1) = {j \in D : events[j].role = e.role}
    <3>1. \A j \in 1 .. n : j \in D <=>
             /\ events[j].type = "delegated" /\ events[j].at <= at
             /\ events[j].to = p /\ at < events[j].until
      BY <1>2 DEF Delegations, Upto
    <3>2. \A j \in 1 .. (n + 1) : j \in Found(longer, n + 1) <=>
             /\ j < n + 1
             /\ longer[j].type = "delegated" /\ longer[j].at <= at
             /\ longer[j].to = p /\ at < longer[j].until
             /\ longer[j].role = e.role
      BY <1>1, <1>2, FoundIn
    <3>3. Found(longer, n + 1) \subseteq 1 .. (n + 1)
      BY <1>2, FoundIn
    <3>4. \A j \in 1 .. (n + 1) : j < n + 1 <=> j \in 1 .. n
      BY <1>2
    <3>5. \A j \in 1 .. n : j \in 1 .. (n + 1)
      BY <1>2
    <3>6. ASSUME NEW j \in Found(longer, n + 1) PROVE j \in D /\ events[j].role = e.role
      <4>1. j \in 1 .. n
        BY <3>2, <3>3, <3>4
      <4> QED
        BY <1>2, <3>1, <3>2, <3>5, <4>1
    <3>7. ASSUME NEW j \in D, events[j].role = e.role PROVE j \in Found(longer, n + 1)
      <4>1. j \in 1 .. n
        BY <2>2
      <4> QED
        BY <1>2, <3>1, <3>2, <3>4, <3>5, <3>7, <4>1
    <3> QED
      BY <3>6, <3>7
  <2>6. Newest(Found(longer, n + 1)) = Newest(D)
    <3>1. Found(longer, n + 1) \in SUBSET D /\ Newest(D) \in Found(longer, n + 1)
      BY <2>4, <2>5
    <3> QED
      BY <1>2, <2>2, <3>1, NewestOfPart
  <2>7. DelegatedAuthority(longer, Found(longer, n + 1)).source = longer[Newest(D)].actor
    BY <1>2, <2>4, <2>5, <2>6, FoundIn, DelegatedSource
  <2>8. longer[Newest(D)].actor = e.source
    BY <1>2, <2>2, <2>4
  <2> QED
    BY <2>1, <2>4, <2>7, <2>8, ExpectedSourceIs, RequestAssumption DEF longer, e
<1> QED
  BY <1>3, <1>4

\* An event that replays at the end of the chain may be appended to it.
LEMMA MayAppend ==
    ASSUME ChainOK, NEW e \in Records, e.at \in Later,
           EventVerifies(Append(events, e), Len(events) + 1)
    PROVE  Verifies(Append(events, e))
BY LaterTimes, AppendVerifies DEF ChainOK

LEMMA LongerIs ==
    ASSUME ChainOK, NEW e \in Records
    PROVE  LET longer == Append(events, e)
               n == Len(events)
           IN  /\ n \in Nat /\ (n + 1) - 1 = n /\ DOMAIN events = 1 .. n
               /\ longer[n + 1] = e /\ \A i \in 1 .. n : longer[i] = events[i]
BY DEF ChainOK, Typed

\* approve and reject.
LEMMA DecisionsReplay ==
    ASSUME ChainOK, NEW p \in Principals, NEW at \in Later
    PROVE  /\ MayApprove(p, at) => Verifies(Append(events, Decision("approved", p, at)))
           /\ MayReject(p, at) => Verifies(Append(events, Decision("rejected", p, at)))
<1> SUFFICES ASSUME NEW type \in {"approved", "rejected"},
                    type = "approved" => MayApprove(p, at),
                    type = "rejected" => MayReject(p, at)
             PROVE  Verifies(Append(events, Decision(type, p, at)))
  OBVIOUS
<1> DEFINE e == Decision(type, p, at)
           longer == Append(events, e)
           n == Len(events)
<1>1. at \in Times /\ MayDecide(p) /\ status(events, at) = "pending"
      /\ EligibleAuthority(p, at) # NoAuthority
  BY LaterTimes DEF MayApprove, MayReject, StillPending
<1>2. /\ e \in Records /\ e.type = type /\ e.at = at /\ e.actor = p
      /\ e.source = EligibleAuthority(p, at).source
  BY <1>1, MadeEvents DEF ChainOK
<1>3. e.source = ExpectedSource(longer, n + 1) /\ e.source # None
  BY <1>1, SourceAgrees
<1> HIDE DEF e
<1>4. /\ n \in Nat /\ (n + 1) - 1 = n /\ DOMAIN events = 1 .. n
      /\ longer[n + 1] = e /\ \A i \in 1 .. n : longer[i] = events[i]
  BY <1>2, LongerIs
<1>5. at < ExpiresAt /\ StateBefore(longer, n + 1) = "pending"
  BY <1>1, <1>2, ReplayAgrees
<1>6. ASSUME type = "approved", NEW j \in 1 .. n, events[j].type = "approved"
      PROVE  events[j].actor # p /\ events[j].source # e.source
  <2>1. /\ j \in Upto(events, "approved", ExpiresAt) /\ j \in Upto(events, "approved", at)
    BY <1>4, <1>6, LaterTimes, SeesAll DEF Of
  <2> QED
    BY <1>2, <1>6, <2>1 DEF MayApprove
<1> HIDE DEF longer, n
<1>7. DecisionVerifies(longer, n + 1)
  BY <1>1, <1>2, <1>3, <1>4, <1>6 DEF DecisionVerifies
<1>8. EventVerifies(longer, n + 1)
  BY <1>2, <1>4, <1>5, <1>7 DEF EventVerifies
<1> QED
  BY <1>2, <1>8, MayAppend DEF e, longer, n

LEMMA DelegationsReplay ==
    ASSUME ChainOK, NEW p \in Principals, NEW q \in Principals, NEW role \in Roles,
           NEW at \in Later, NEW until \in Times, MayDelegate(p, q, role, at, until)
    PROVE  Verifies(Append(events, Delegation(p, q, role, at, until)))
<1> DEFINE e == Delegation(p, q, role, at, until)
           longer == Append(events, e)
           n == Len(events)
<1>1. at \in Times /\ status(events, at) = "pending"
  BY LaterTimes DEF MayDelegate, StillPending
<1>2. /\ e \in Records /\ e.type = "delegated" /\ e.at = at /\ e.actor = p
      /\ e.role = role /\ e.to = q /\ e.until = until
  BY <1>1, MadeDelegation
<1> HIDE DEF e
<1>3. longer[n + 1] = e
  BY <1>2, LongerIs
<1>4. at < ExpiresAt /\ StateBefore(longer, n + 1) = "pending"
  BY <1>1, <1>2, ReplayAgrees
<1> HIDE DEF longer, n
<1>5. DelegationVerifies(e)
  BY <1>2 DEF DelegationVerifies, MayDelegate, DirectRole
<1>6. EventVerifies(longer, n + 1)
  BY <1>2, <1>3, <1>4, <1>5 DEF EventVerifies
<1> QED
  BY <1>2, <1>6, MayAppend DEF e, longer, n

LEMMA OthersReplay ==
    ASSUME ChainOK, NEW p \in Principals, NEW at \in Later
    PROVE  /\ EscalationDue(at) => Verifies(Append(events, Event("escalated", at, p, None)))
           /\ MayRevoke(p, at) => Verifies(Append(events, Revocation(p, at)))
<1> DEFINE n == Len(events)
<1>0. at \in Times
  BY LaterTimes
<1>1. ASSUME EscalationDue(at)
      PROVE  Verifies(Append(events, Event("escalated", at, p, None)))
  <2> DEFINE e == Event("escalated", at, p, None)
             longer == Append(events, e)
  <2>1. e \in Records /\ e.type = "escalated" /\ e.at = at /\ e.actor = p
    BY <1>0, MadeEvents DEF ChainOK
  <2> HIDE DEF e
  <2>2. /\ n \in Nat /\ (n + 1) - 1 = n /\ DOMAIN events = 1 .. n
        /\ longer[n + 1] = e /\ \A i \in 1 .. n : longer[i] = events[i]
    BY <2>1, LongerIs
  <2>3. at < ExpiresAt /\ StateBefore(longer, n + 1) = "pending"
    BY <1>1, <2>1, ReplayAgrees DEF EscalationDue, StillPending
  <2>4. \A j \in 1 .. n : events[j].type # "escalated"
    BY <1>1, <2>2, LaterTimes, SeesAll DEF EscalationDue, Of
  <2> HIDE DEF longer, n
  <2>5. EscalationVerifies(longer, n + 1)
    BY <1>1, <2>1, <2>2, <2>4 DEF EscalationDue, EscalationVerifies
  <2>6. EventVerifies(longer, n + 1)
    BY <2>1, <2>2, <2>3, <2>5 DEF EventVerifies
  <2> QED
    BY <2>1, <2>6, MayAppend DEF e, longer, n
<1>2. ASSUME MayRevoke(p, at)
      PROVE  Verifies(Append(events, Revocation(p, at)))
  <2> DEFINE e == Revocation(p, at)
             longer == Append(events, e)
  <2>1. /\ Eligible(p) /\ status(events, at) = "approved"
        /\ e \in Records /\ e.type = "revoked" /\ e.at = at /\ e.actor = p
        /\ e.role = DirectAuthority(p).role
    BY <1>0, <1>2, MadeEvents DEF ChainOK, MayRevoke
  <2> HIDE DEF e
  <2>2. longer[n + 1] = e
    BY <2>1, LongerIs
  <2>3. at < ExpiresAt /\ StateBefore(longer, n + 1) = "approved"
    BY <2>1, ReplayAgrees
  <2> HIDE DEF longer, n
  <2>4. DirectRole(e)
    BY <2>1, EligibleRole DEF DirectRole
  <2>5. EventVerifies(longer, n + 1)
    BY <2>1, <2>2, <2>3, <2>4 DEF EventVerifies
  <2> QED
    BY <2>1, <2>5, MayAppend DEF e, longer, n
<1> QED
  BY <1>1, <1>2

LEMMA ChainReplays == ChainOK => OperationsAgreeWithReplay
<1> SUFFICES ASSUME ChainOK PROVE OperationsAgreeWithReplay
  OBVIOUS
<1> QED
  BY DecisionsReplay, DelegationsReplay, OthersReplay DEF OperationsAgreeWithReplay

\* approve, reject, delegate, escalate and revoke never pass their own checks for
\* an event, not before the last one, that the replay of the chain would refuse.
THEOREM OperationsReplay == Spec => []OperationsAgreeWithReplay
BY ChainInit, ChainStep, ChainReplays, PTL DEF Spec

-----------------------------------------------------------------------------
(***************************************************************************)
(* Who stands behind an approval, and what comes after it.                 *)
(***************************************************************************)
\* What a decision in a chain rests on.
LEMMA BehindADecision ==
    ASSUME ChainOK, NEW i \in Of(events, "approved")
    PROVE  /\ Eligible(events[i].source)
           /\ MayDecide(events[i].source) /\ MayDecide(events[i].actor)
           /\ events[i].source # events[i].actor =>
                 \E j \in 1 .. (i - 1) :
                     /\ events[j].type = "delegated"
                     /\ events[j].actor = events[i].source
                     /\ events[j].to = events[i].actor
                     /\ events[i].at < events[j].until
<1>1. /\ events \in Seq(Records) /\ i \in DOMAIN events /\ i \in 2 .. Len(events)
      /\ events[i].type = "approved"
  BY DEF ChainOK, Typed, Of, Event
<1>2. EventVerifies(events, i)
  BY <1>1 DEF ChainOK, Verifies
<1>3. /\ MayDecide(events[i].actor) /\ events[i].source = ExpectedSource(events, i)
      /\ events[i].source # None
  BY <1>1, <1>2 DEF EventVerifies, DecisionVerifies
<1>4. CASE DirectRole(events[i])
  BY <1>3, <1>4, ExpectedSourceIs DEF DirectRole, Eligible
<1>5. CASE ~DirectRole(events[i])
  <2> DEFINE j == Newest(Found(events, i))
  <2>1. events[i].source = DelegatedAuthority(events, Found(events, i)).source
    BY <1>3, <1>5, ExpectedSourceIs
  <2>2. Found(events, i) # {}
    BY <1>3, <2>1 DEF DelegatedAuthority, NoAuthority
  <2>3. j \in Found(events, i) /\ events[i].source = events[j].actor
    BY <1>1, <2>1, <2>2, FoundIn, DelegatedSource
  <2> HIDE DEF j
  <2>4. /\ j \in DOMAIN events /\ j < i /\ events[j].type = "delegated"
        /\ events[j].to = events[i].actor /\ events[i].at < events[j].until
    BY <1>1, <2>3, FoundIn
  <2>5. j \in 2 .. Len(events) /\ j \in 1 .. (i - 1)
    BY <1>1, <2>4 DEF ChainOK, Typed, Event
  <2>6. DelegationVerifies(events[j])
    BY <2>4, <2>5 DEF ChainOK, Verifies, EventVerifies
  <2>7. Eligible(events[j].actor) /\ MayDecide(events[j].actor)
    BY <2>6 DEF DelegationVerifies, DirectRole, Eligible
  <2> QED
    BY <1>3, <2>3, <2>4, <2>5, <2>7
<1> QED
  BY <1>4, <1>5

LEMMA UptoIn ==
    ASSUME ChainOK, NEW type, NEW at \in Times
    PROVE  /\ Upto(events, type, at) \in SUBSET Of(events, type)
           /\ Upto(events, type, at) \in SUBSET (1 .. Len(events))
           /\ IsFiniteSet(Upto(events, type, at)) /\ Cardinality(Upto(events, type, at)) \in Nat
<1>1. events \in Seq(Records) /\ Upto(events, type, at) \in SUBSET (1 .. Len(events))
  BY DEF ChainOK, Typed, Upto
<1> QED
  BY <1>1, Positions DEF Upto, Of

LEMMA ChainHasQuorum == ChainOK => ApprovedByAQuorum
<1> SUFFICES ASSUME ChainOK PROVE ApprovedByAQuorum
  OBVIOUS
<1>1. ASSUME NEW at \in Times, status(events, at) = "approved"
      PROVE  Cardinality(Upto(events, "approved", at)) >= Required
  BY <1>1 DEF status
<1>2. ASSUME NEW at \in Times
      PROVE  LET made == Upto(events, "approved", at) IN
             /\ Cardinality({events[i].source : i \in made}) = Cardinality(made)
             /\ Cardinality({events[i].actor : i \in made}) = Cardinality(made)
  BY UptoIn, OneEach DEF ChainOK, Sources, Actors
<1>3. \A at \in Times : \A i \in Upto(events, "approved", at) : i \in Of(events, "approved")
  BY UptoIn
<1> QED
  BY <1>1, <1>2, <1>3, BehindADecision, ChainTypeOK DEF ApprovedByAQuorum

LEMMA ChainReachesQuorum == ChainOK => QuorumStaysReachable
<1> SUFFICES ASSUME ChainOK, NEW at \in Later, StillPending(at)
             PROVE  \E p \in Principals :
                       MayApprove(p, at) /\ Verifies(Append(events, Decision("approved", p, at)))
  BY DEF QuorumStaysReachable
<1> DEFINE made == Of(events, "approved")
           able == {p \in Principals : Eligible(p) /\ MayDecide(p)}
<1>1. at \in Times /\ Upto(events, "approved", at) = made /\ Upto(events, "approved", ExpiresAt) = made
  BY LaterTimes, SeesAll
<1>2. made \in SUBSET (1 .. Len(events)) /\ events \in Seq(Records)
  BY DEF ChainOK, Typed, Of
<1>3. /\ Cardinality(made) \in Nat /\ Cardinality(made) < Required
      /\ IsFiniteSet(Sources(events, made))
      /\ Cardinality(Sources(events, made)) = Cardinality(made)
  <2>1. Cardinality(made) \in Nat /\ IsFiniteSet(Sources(events, made))
    BY <1>2, Positions
  <2>2. ~(Cardinality(made) >= Required)
    BY <1>1 DEF StillPending, status
  <2>3. Cardinality(Sources(events, made)) = Cardinality(made)
    BY OneEach DEF ChainOK
  <2> QED
    BY <2>1, <2>2, <2>3, RequestAssumption
<1>4. Cardinality(able) >= Required /\ Cardinality(able) \in Nat
  <2>1. IsFiniteSet(able)
    BY RequestAssumption, FS_Subset
  <2> QED
    BY <2>1, RequestAssumption, FS_CardinalityType
<1>5. ~(able \subseteq Sources(events, made))
  <2> SUFFICES ASSUME able \subseteq Sources(events, made) PROVE FALSE
    OBVIOUS
  <2>1. Cardinality(able) <= Cardinality(Sources(events, made))
    BY <1>3, FS_Subset
  <2> QED
    BY <1>3, <1>4, <2>1, RequestAssumption
<1>6. PICK p \in Principals : Eligible(p) /\ MayDecide(p) /\ p \notin Sources(events, made)
  BY <1>5
<1>7. \A i \in made : events[i].source # p /\ events[i].actor # p
  <2>1. \A i \in made : events[i].source # p
    BY <1>6 DEF Sources
  <2>2. \A i \in made : events[i].actor = p => events[i].source = p
    BY <1>6 DEF ChainOK, OwnDecisions
  <2> QED
    BY <2>1, <2>2
<1>8. EligibleAuthority(p, at) # NoAuthority /\ EligibleAuthority(p, at).source = p
  BY <1>1, <1>6, AuthorityType, EligibleRole DEF ChainOK
<1>9. MayApprove(p, at)
  BY <1>1, <1>6, <1>7, <1>8 DEF MayApprove
<1> QED
  BY <1>9, DecisionsReplay

LEMMA ChainDecides == ChainOK => DecisionsAreFinal
<1> SUFFICES ASSUME ChainOK, NEW early \in Times, NEW late \in Times, early <= late
             PROVE  \/ status(events, early) \in {"pending", status(events, late)}
                    \/ /\ status(events, early) = "approved"
                       /\ status(events, late) \in {"revoked", "expired"}
  BY DEF DecisionsAreFinal
<1>1. early \in Nat /\ late \in Nat /\ ExpiresAt \in Nat /\ late <= ExpiresAt /\ Required \in Nat
  BY TimesAreNumbers, RequestAssumption
<1>2. /\ events \in Seq(Records) /\ Typed(events) /\ Verifies(events)
      /\ \A i \in DOMAIN events : i \in Nat /\ events[i].at \in Nat
  <2>1. events \in Seq(Records) /\ Typed(events) /\ Verifies(events)
    BY DEF ChainOK, Typed
  <2>2. ASSUME NEW i \in DOMAIN events PROVE i \in Nat /\ events[i].at \in Nat
    <3>1. i \in Nat /\ events[i] \in Records
      BY <2>1
    <3> QED
      BY <3>1, TimesAreNumbers DEF Records
  <2> QED
    BY <2>1, <2>2
<1>3. \A type : Upto(events, type, early) \subseteq Upto(events, type, late)
  BY <1>1, <1>2 DEF Upto
<1>4. Cardinality(Upto(events, "approved", early)) <= Cardinality(Upto(events, "approved", late))
      /\ Cardinality(Upto(events, "approved", early)) \in Nat
      /\ Cardinality(Upto(events, "approved", late)) \in Nat
  BY <1>3, UptoIn, FS_Subset
<1>5. \A i, j \in DOMAIN events :
         events[i].type = "rejected" => events[j].type # "revoked"
  <2> SUFFICES ASSUME NEW i \in DOMAIN events, NEW j \in DOMAIN events,
                      events[i].type = "rejected", events[j].type = "revoked"
               PROVE  FALSE
    OBVIOUS
  <2>1. i \in Nat /\ j \in Nat /\ 1 <= i /\ 1 <= j /\ i # j
    BY <1>2
  <2>2. CASE i < j
    <3>1. i \in 1 .. (j - 1) /\ j > 1
      BY <2>1, <2>2
    <3> QED
      BY <1>2, <3>1, Follows
  <2>3. CASE j < i
    <3>1. j \in 1 .. (i - 1) /\ i > 1
      BY <2>1, <2>3
    <3> QED
      BY <1>2, <3>1, Follows
  <2> QED
    BY <2>1, <2>2, <2>3
<1>6. CASE status(events, early) = "revoked"
  BY <1>3, <1>6 DEF status
<1>7. CASE status(events, early) = "rejected"
  <2>1. Upto(events, "rejected", early) # {}
    BY <1>7 DEF status
  <2>2. Upto(events, "revoked", late) = {}
    BY <1>5, <2>1 DEF Upto
  <2> QED
    BY <1>3, <1>7, <2>1, <2>2 DEF status
<1>8. CASE status(events, early) = "expired"
  <2>1. early >= ExpiresAt
    BY <1>8 DEF status
  <2>2. early = late
    BY <1>1, <2>1
  <2> QED
    BY <2>2
<1>9. CASE status(events, early) = "approved"
  <2>1. Cardinality(Upto(events, "approved", early)) >= Required
    BY <1>9 DEF status
  <2>2. Upto(events, "rejected", early) = {}
    BY <1>9 DEF status
  <2>3. Upto(events, "rejected", late) = {}
    <3> SUFFICES ASSUME NEW i \in Upto(events, "rejected", late) PROVE FALSE
      OBVIOUS
    <3>1. i \in DOMAIN events /\ events[i].type = "rejected" /\ ~(events[i].at <= early)
      BY <2>2 DEF Upto
    <3>2. i \in Nat /\ i > 1
      BY <1>2, <3>1 DEF Typed, Event
    <3>3. Upto(events, "approved", early) \subseteq Before(events, i, "approved")
      <4> SUFFICES ASSUME NEW j \in Upto(events, "approved", early)
                   PROVE  j \in Before(events, i, "approved")
        OBVIOUS
      <4>1. j \in DOMAIN events /\ events[j].type = "approved" /\ events[j].at <= early
        BY DEF Upto
      <4>2. ~(i <= j)
        <5> SUFFICES ASSUME i <= j PROVE FALSE
          OBVIOUS
        <5>1. events[i].at <= events[j].at
          BY <3>1, <4>1 DEF ChainOK, Ordered
        <5> QED
          BY <1>1, <1>2, <3>1, <4>1, <5>1
      <4>3. j \in 1 .. (i - 1)
        BY <1>2, <3>2, <4>1, <4>2
      <4> QED
        BY <4>1, <4>3 DEF Before
    <3>4. Cardinality(Upto(events, "approved", early)) < Required
      BY <1>2, <3>1, <3>2, <3>3, Follows
    <3> QED
      BY <1>1, <1>4, <2>1, <3>4
  <2>4. Cardinality(Upto(events, "approved", late)) >= Required
    BY <1>1, <1>4, <2>1
  <2> QED
    BY <1>9, <2>3, <2>4 DEF status
<1> QED
  BY <1>6, <1>7, <1>8, <1>9 DEF status

\* An approval rests on as many principals as the policy requires; a pending
\* request can still be approved by somebody; once decided it stays decided.
THEOREM DecisionsSound == Spec => []DecisionsAreSound
<1>1. ChainOK => DecisionsAreSound
  BY ChainHasQuorum, ChainReachesQuorum, ChainDecides DEF DecisionsAreSound
<1> QED
  BY <1>1, ChainInit, ChainStep, PTL DEF Spec

-----------------------------------------------------------------------------
(***************************************************************************)
(* Grants.  Nothing but a revocation follows a quorum, and nothing follows *)
(* a revocation, so what a grant was made of does not change until then.   *)
(***************************************************************************)
LEMMA GrantOf ==
    ASSUME NEW chain, NEW early, NEW late,
           Upto(chain, "approved", early) = Upto(chain, "approved", late)
    PROVE  grant(chain, early) = grant(chain, late)
BY DEF grant

LEMMA GrantWorkflow ==
    ASSUME NEW chain, NEW at
    PROVE  grant(chain, at).workflow = chain
BY DEF grant

\* What a prefix of the chain says of the decisions up to a time.
LEMMA PrefixUpto ==
    ASSUME ChainOK, NEW n \in DOMAIN events, NEW at \in Times
    PROVE  LET issued == SubSeq(events, 1, n) IN
           /\ issued \in Seq(Records) /\ Len(issued) = n
           /\ \A i \in 1 .. n : issued[i] = events[i]
           /\ Last(issued) = events[n]
           /\ \A type : Upto(issued, type, at) = {i \in Upto(events, type, at) : i <= n}
<1> DEFINE issued == SubSeq(events, 1, n)
<1>1. events \in Seq(Records) /\ n \in Nat /\ n \in 1 .. Len(events)
  BY DEF ChainOK, Typed
<1>2. /\ issued \in Seq(Records) /\ Len(issued) = n /\ DOMAIN issued = 1 .. n
      /\ \A i \in 1 .. n : issued[i] = events[i]
  BY <1>1
<1> HIDE DEF issued
<1>3. Last(issued) = events[n]
  BY <1>1, <1>2 DEF Last
<1>4. DOMAIN events = 1 .. Len(events) /\ Len(events) \in Nat
  BY <1>1
<1>5. \A i : i \in 1 .. n <=> i \in DOMAIN events /\ i <= n
  BY <1>1, <1>4
<1>6. \A type : Upto(issued, type, at) = {i \in Upto(events, type, at) : i <= n}
  BY <1>2, <1>5 DEF Upto
<1> QED
  BY <1>2, <1>3, <1>6 DEF issued

\* Once a quorum has approved, the next event is a revocation and the last one.
LEMMA OnlyARevocationFollows ==
    ASSUME ChainOK, NEW S \in SUBSET Of(events, "approved"), Cardinality(S) >= Required,
           NEW n \in DOMAIN events, \A i \in S : i <= n,
           NEW i \in DOMAIN events, i > n
    PROVE  events[i].type = "revoked"
<1>1. Typed(events) /\ Verifies(events) /\ events \in Seq(Records) /\ n \in Nat /\ i \in Nat /\ n >= 1
  BY DEF ChainOK, Typed
<1>2. S \subseteq 1 .. Len(events)
  BY <1>1 DEF Of
<1>3. Cardinality(S) \in Nat
  BY <1>1, <1>2, Positions
<1>4. \A j \in S : j \in 1 .. (i - 1) /\ events[j].type = "approved"
  BY <1>1, <1>2 DEF Of
<1>5. S \in SUBSET Before(events, i, "approved")
  BY <1>4 DEF Before
<1>6. i > 1
  BY <1>1
<1>7. events[i].type # "revoked" => Cardinality(S) < Required
  BY <1>1, <1>5, <1>6, Follows
<1> QED
  BY <1>3, <1>7, RequestAssumption

LEMMA RevocationIsLast ==
    ASSUME ChainOK, NEW i \in DOMAIN events, events[i].type = "revoked"
    PROVE  i = Len(events) /\ Last(events).type = "revoked"
<1>1. Typed(events) /\ Verifies(events) /\ events \in Seq(Records) /\ i \in 1 .. Len(events)
      /\ Len(events) \in DOMAIN events /\ Len(events) \in Nat
  BY DEF ChainOK, Typed
<1>2. ASSUME i < Len(events) PROVE FALSE
  <2>1. i \in 1 .. (Len(events) - 1) /\ Len(events) > 1
    BY <1>1, <1>2
  <2> QED
    BY <1>1, <2>1, Follows
<1>3. i = Len(events)
  BY <1>1, <1>2
<1> QED
  BY <1>1, <1>3 DEF Last

LEMMA ChainGrants == ChainOK => GrantsLastUntilRevoked
<1> SUFFICES ASSUME ChainOK, NEW n \in DOMAIN events, NEW at \in Times,
                    status(SubSeq(events, 1, n), at) = "approved",
                    Last(SubSeq(events, 1, n)).type # "revoked",
                    NEW later \in at .. ExpiresAt
             PROVE  grant_matches(grant(SubSeq(events, 1, n), at), later)
                      <=> (Last(events).type # "revoked" /\ later < ExpiresAt)
  BY DEF GrantsLastUntilRevoked
<1> DEFINE issued == SubSeq(events, 1, n)
           made == Upto(issued, "approved", at)
<1>1. /\ events \in Seq(Records) /\ Len(events) \in Nat /\ n \in Nat /\ n \in 1 .. Len(events)
      /\ DOMAIN events = 1 .. Len(events) /\ Len(events) >= 1
  BY DEF ChainOK, Typed
<1>2. /\ at \in Nat /\ later \in Nat /\ ExpiresAt \in Nat /\ at <= later /\ later <= ExpiresAt
      /\ later \in Times
  BY TimesAreNumbers, RequestAssumption DEF Times
<1>3. /\ Last(issued) = events[n]
      /\ \A type : Upto(issued, type, at) = {i \in Upto(events, type, at) : i <= n}
  BY PrefixUpto
<1>4. Cardinality(made) >= Required /\ at < ExpiresAt
  BY <1>2 DEF status
<1>5. /\ made \in SUBSET Of(events, "approved") /\ \A i \in made : i <= n
      /\ made \subseteq Upto(events, "approved", at)
  BY <1>3, UptoIn
<1>6. \A i \in DOMAIN events : i > n => events[i].type = "revoked"
  BY <1>4, <1>5, OnlyARevocationFollows
<1>7. ASSUME grant_matches(grant(issued, at), later)
      PROVE  Last(events).type # "revoked" /\ later < ExpiresAt
  <2>1. status(events, later) = "approved" /\ grant(issued, at) = grant(events, later)
    BY <1>7 DEF grant_matches
  <2>2. grant(issued, at).workflow = issued /\ grant(events, later).workflow = events
    BY GrantWorkflow
  <2>3. issued = events
    BY <2>1, <2>2, Zenon
  <2>4. Last(events).type # "revoked"
    BY <2>3
  <2>5. ~(later >= ExpiresAt)
    BY <2>1 DEF status
  <2> QED
    BY <1>2, <2>4, <2>5
<1>8. ASSUME Last(events).type # "revoked", later < ExpiresAt
      PROVE  grant_matches(grant(issued, at), later)
  <2>1. \A i \in DOMAIN events : events[i].type # "revoked"
    BY <1>8, RevocationIsLast
  <2>2. n = Len(events)
    BY <1>1, <1>6, <2>1
  <2>3. issued = events
    BY <1>1, <2>2
  <2>4. status(events, at) = "approved"
    BY <2>3
  <2>5. status(events, later) \in {"approved", "revoked", "expired"}
    BY <1>2, <2>4, ChainDecides DEF DecisionsAreFinal
  <2>6. status(events, later) = "approved"
    <3>1. Upto(events, "revoked", later) = {}
      BY <2>1 DEF Upto
    <3>2. ~(later >= ExpiresAt)
      BY <1>2, <1>8
    <3> QED
      BY <2>5, <3>1, <3>2 DEF status
  <2>7. Upto(events, "approved", at) = Upto(events, "approved", later)
    <3>1. Upto(events, "approved", at) \subseteq Upto(events, "approved", later)
      <4>1. \A i \in DOMAIN events : events[i].at \in Nat
        <5> SUFFICES ASSUME NEW i \in DOMAIN events PROVE events[i].at \in Nat
          OBVIOUS
        <5>1. events[i] \in Records
          BY <1>1
        <5> QED
          BY <5>1, TimesAreNumbers DEF Records
      <4> QED
        BY <1>2, <4>1 DEF Upto
    <3>2. ASSUME NEW i \in Upto(events, "approved", later), i \notin Upto(events, "approved", at)
          PROVE  FALSE
      <4>1. i \in DOMAIN events /\ events[i].type = "approved" /\ ~(events[i].at <= at)
        BY <3>2 DEF Upto
      <4>2. Upto(events, "approved", at) \in SUBSET Of(events, "approved")
            /\ Cardinality(Upto(events, "approved", at)) >= Required
        BY <2>3, <1>4, UptoIn
      <4>3. i \in Nat /\ i > 1 /\ events[i].at \in Nat
        <5>1. events[i] \in Records /\ i \in Nat /\ i >= 1
          BY <1>1, <4>1
        <5>2. i # 1
          BY <4>1 DEF ChainOK, Typed, Event
        <5>3. events[i].at \in Times
          BY <5>1 DEF Records
        <5>4. events[i].at \in Nat
          BY <5>3, TimesAreNumbers
        <5>5. i > 1
          BY <5>1, <5>2
        <5> QED
          BY <5>1, <5>4, <5>5
      <4>4. \A j \in Upto(events, "approved", at) : j <= i - 1
        <5> SUFFICES ASSUME NEW j \in Upto(events, "approved", at), ~(j <= i - 1)
                     PROVE  FALSE
          OBVIOUS
        <5>1. j \in DOMAIN events /\ events[j].at <= at /\ j \in Nat
          BY <1>1 DEF Upto
        <5>2. i <= j
          BY <4>3, <5>1
        <5>3. events[i].at <= events[j].at
          BY <4>1, <5>1, <5>2 DEF ChainOK, Ordered
        <5>4. events[j] \in Records
          BY <1>1, <5>1
        <5>5. events[j].at \in Nat
          BY <5>4, TimesAreNumbers DEF Records
        <5> QED
          BY <1>2, <4>1, <4>3, <5>1, <5>3, <5>5
      <4>5. i - 1 \in DOMAIN events /\ i > i - 1
        BY <1>1, <4>1, <4>3
      <4>6. events[i].type = "revoked"
        BY <4>1, <4>2, <4>4, <4>5, OnlyARevocationFollows
      <4> QED
        BY <4>1, <4>6
    <3> QED
      BY <3>1, <3>2
  <2> QED
    BY <2>3, <2>6, <2>7, GrantOf DEF grant_matches
<1> QED
  BY <1>7, <1>8

\* A grant issued on an approval matches, seen from any later time, exactly until
\* the approval is revoked or the request expires.
THEOREM GrantsLast == Spec => []GrantsLastUntilRevoked
BY ChainInit, ChainStep, ChainGrants, PTL DEF Spec

=============================================================================
