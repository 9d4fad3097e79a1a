-------------------------- MODULE RouterBuildProofs --------------------------
(***************************************************************************)
(* What the build of a router leaves behind, for every set of texts, every *)
(* content of the files and every number of replacements: nothing open     *)
(* when it is refused (RefusedLeavesNothing), no transport shared by       *)
(* targets that differ (TransportIsOwn), delays and schedules that are     *)
(* what the options ask for (BackoffFollowsCap, ScheduleIsFair), and no    *)
(* refusal of what the decoder has let through (LoadedBuilds).             *)
(***************************************************************************)
EXTENDS Serving, TLAPS, WellFoundedInduction, FiniteSetTheorems

-----------------------------------------------------------------------------
(* Numbers, and what is folded over a set.                                 *)

\* A set of numbers that has a member has a least one.
LEMMA LeastMember ==
    ASSUME NEW T, T \subseteq Nat, T # {}
    PROVE  \E m \in T : \A j \in T : m <= j
<1>1. PICK m \in T : \A j \in T : ~ (<<j, m>> \in OpToRel(<, Nat))
  BY NatLessThanWellFounded, WFMin
<1>2. ASSUME NEW j \in T PROVE m <= j
  <2>1. j \in Nat /\ m \in Nat
    BY <1>1
  <2>2. j < m => <<j, m>> \in OpToRel(<, Nat)
    BY <2>1 DEF OpToRel
  <2>3. ~ (j < m)
    BY <1>1, <2>2, Zenon
  <2> QED
    BY <2>1, <2>3
<1> QED
  BY <1>1, <1>2

\* A bounded one has a greatest.
LEMMA MaxIsIn ==
    ASSUME NEW S, NEW n \in Nat, S \subseteq 0 .. n, S # {}
    PROVE  /\ Max(S) \in S
           /\ \A i \in S : Max(S) >= i
<1>1. PICK T : T = {n - i : i \in S}
  OBVIOUS
<1>2. T \subseteq Nat /\ T # {}
  <2>1. \A i \in S : i \in Int /\ n - i \in Nat
    OBVIOUS
  <2>2. \A j \in T : \E i \in S : j = n - i
    BY <1>1
  <2>3. \A i \in S : n - i \in T
    BY <1>1
  <2> QED
    BY <2>1, <2>2, <2>3
<1>3. PICK m \in T : \A j \in T : m <= j
  BY <1>2, LeastMember
<1>4. PICK i \in S : m = n - i
  BY <1>1, <1>3
<1>5. \A k \in S : i >= k
  BY <1>1, <1>3, <1>4
<1>6. \E k \in S : \A l \in S : k >= l
  BY <1>5
<1> QED
  BY <1>6 DEF Max

\* So a set that has 0, and with every number below n the next, has them all.
LEMMA UpTo ==
    ASSUME NEW n \in Nat, NEW T, 0 \in T, \A m \in 0 .. n - 1 : m \in T => m + 1 \in T
    PROVE  n \in T
<1>1. PICK U : U = {m \in 0 .. n : m \notin T}
  OBVIOUS
<1>2. SUFFICES ASSUME U # {} PROVE FALSE
  BY <1>1
<1>3. PICK m \in U : \A j \in U : m <= j
  BY <1>1, <1>2, LeastMember
<1>4. m \in 1 .. n /\ m - 1 \in 0 .. n - 1 /\ m \notin T
  BY <1>1, <1>3
<1>5. m - 1 \in T
  BY <1>1, <1>3, <1>4
<1> QED
  BY <1>4, <1>5

\* A set of numbers that has a member has a least one, and Min finds it.
LEMMA MinIsIn ==
    ASSUME NEW S, S \subseteq Nat, S # {}
    PROVE  Min(S) \in S /\ \A j \in S : Min(S) <= j
<1>1. \E m \in S : \A j \in S : m <= j
  BY LeastMember
<1> QED
  BY <1>1 DEF Min

\* Max finds what is known to be greatest.
LEMMA MaxIs ==
    ASSUME NEW S, S \subseteq Int, NEW m \in S, \A i \in S : m >= i
    PROVE  Max(S) = m
<1>1. Max(S) \in S /\ \A i \in S : Max(S) >= i
  BY DEF Max
<1>2. Max(S) \in Int /\ m \in Int /\ Max(S) >= m /\ m >= Max(S)
  BY <1>1
<1> QED
  BY <1>2

\* So does Min what is known to be least.
LEMMA MinIs ==
    ASSUME NEW S, S \subseteq Int, NEW m \in S, \A i \in S : m <= i
    PROVE  Min(S) = m
<1>1. Min(S) \in S /\ \A i \in S : Min(S) <= i
  BY DEF Min
<1>2. Min(S) \in Int /\ m \in Int /\ Min(S) <= m /\ m <= Min(S)
  BY <1>1
<1> QED
  BY <1>2

\* Function f makes of each subset of S what G makes of the member c picks from
\* it and of what f makes of the others.
FoldsBy(f, c, S, V, b, G) ==
    /\ f \in [SUBSET S -> V]
    /\ f[{}] = b
    /\ \A s \in SUBSET S : s # {} => f[s] = G[<<c[s], f[s \ {c[s]}]>>]

\* The same of the subsets with no more than m members.
FoldsUpTo(f, c, S, V, b, G, m) ==
    /\ \A s \in SUBSET S : Cardinality(s) <= m => f[s] \in V
    /\ f[{}] = b
    /\ \A s \in SUBSET S : s # {} /\ Cardinality(s) <= m => f[s] = G[<<c[s], f[s \ {c[s]}]>>]

\* A function on the subsets of a finite set may be defined by what it does with
\* one member of each.
LEMMA RecursionExists ==
    ASSUME NEW S, IsFiniteSet(S), NEW V, NEW b \in V, NEW G, \A i \in S : \A v \in V : G[<<i, v>>] \in V,
           NEW c, \A s \in SUBSET S : s # {} => c[s] \in s
    PROVE  \E f : FoldsBy(f, c, S, V, b, G)
<1>1. \A s \in SUBSET S : IsFiniteSet(s) /\ Cardinality(s) \in Nat /\ Cardinality(s) <= Cardinality(S)
  BY FS_Subset, FS_CardinalityType
<1>2. PICK T : T = {m \in Nat : \E f : FoldsUpTo(f, c, S, V, b, G, m)}
  OBVIOUS
<1>3. 0 \in T
  <2>1. PICK f : f = [s \in SUBSET S |-> b]
    OBVIOUS
  <2>2. ASSUME NEW s \in SUBSET S, Cardinality(s) <= 0 PROVE s = {}
    <3>1. Cardinality(s) = 0
      BY <1>1, <2>2
    <3> QED
      BY <1>1, <3>1, FS_EmptySet
  <2>3. FoldsUpTo(f, c, S, V, b, G, 0)
    BY <2>1, <2>2 DEF FoldsUpTo
  <2> QED
    BY <1>2, <2>3
<1>4. ASSUME NEW m \in Nat, m \in T
      PROVE  m + 1 \in T
  <2>1. PICK f : FoldsUpTo(f, c, S, V, b, G, m)
    BY <1>2, <1>4
  <2>2. PICK g : g = [s \in SUBSET S |-> IF s = {} THEN b ELSE G[<<c[s], f[s \ {c[s]}]>>]]
    OBVIOUS
  <2>3. ASSUME NEW s \in SUBSET S, Cardinality(s) <= m
        PROVE  g[s] = f[s]
    BY <2>1, <2>2, <2>3 DEF FoldsUpTo
  <2>4. ASSUME NEW s \in SUBSET S, s # {}, Cardinality(s) <= m + 1
        PROVE  /\ g[s] = G[<<c[s], g[s \ {c[s]}]>>]
               /\ g[s] \in V
    <3>1. c[s] \in s /\ c[s] \in S /\ s \ {c[s]} \in SUBSET S
      BY <2>4
    <3>2. Cardinality(s \ {c[s]}) <= m
      <4>1. Cardinality(s \ {c[s]}) = Cardinality(s) - 1
        BY <1>1, <3>1, FS_RemoveElement
      <4> QED
        BY <1>1, <2>4, <4>1
    <3>3. g[s \ {c[s]}] = f[s \ {c[s]}]
      BY <2>3, <3>1, <3>2
    <3>4. f[s \ {c[s]}] \in V
      BY <2>1, <3>1, <3>2 DEF FoldsUpTo
    <3>5. g[s] = G[<<c[s], f[s \ {c[s]}]>>]
      BY <2>2, <2>4
    <3> QED
      BY <3>1, <3>3, <3>4, <3>5
  <2>5. g[{}] = b
    BY <2>2
  <2>6. FoldsUpTo(g, c, S, V, b, G, m + 1)
    BY <2>4, <2>5 DEF FoldsUpTo
  <2> QED
    BY <1>2, <2>6
<1>5. Cardinality(S) \in T
  <2>1. Cardinality(S) \in Nat
    BY <1>1
  <2>2. \A m \in 0 .. Cardinality(S) - 1 : m \in Nat
    BY <2>1
  <2> QED
    BY <1>3, <1>4, <2>1, <2>2, UpTo
<1>6. PICK f : FoldsUpTo(f, c, S, V, b, G, Cardinality(S))
  BY <1>2, <1>5
<1>7. PICK h : h = [s \in SUBSET S |-> f[s]]
  OBVIOUS
<1>8. \A s \in SUBSET S : h[s] = f[s] /\ f[s] \in V
  BY <1>1, <1>6, <1>7 DEF FoldsUpTo
<1>9. h \in [SUBSET S -> V]
  BY <1>7, <1>8
<1>10. ASSUME NEW s \in SUBSET S, s # {}
       PROVE  h[s] = G[<<c[s], h[s \ {c[s]}]>>]
  <2>1. h[s \ {c[s]}] = f[s \ {c[s]}] /\ h[s] = f[s]
    BY <1>8
  <2>2. f[s] = G[<<c[s], f[s \ {c[s]}]>>]
    BY <1>1, <1>6, <1>10 DEF FoldsUpTo
  <2> QED
    BY <2>1, <2>2
<1>11. h[{}] = b
  BY <1>6, <1>8 DEF FoldsUpTo
<1>12. FoldsBy(h, c, S, V, b, G)
  BY <1>9, <1>10, <1>11 DEF FoldsBy
<1> QED
  BY <1>12

\* What holds of the base, and is kept from each set to the next, holds of all.
LEMMA RecursionStays ==
    ASSUME NEW S, IsFiniteSet(S), NEW V, NEW f, f[{}] \in V,
           NEW c, \A s \in SUBSET S : s # {} => c[s] \in s,
           \A s \in SUBSET S : s # {} /\ f[s \ {c[s]}] \in V => f[s] \in V
    PROVE  f[S] \in V
<1>1. \A s \in SUBSET S : IsFiniteSet(s) /\ Cardinality(s) \in Nat
  BY FS_Subset, FS_CardinalityType
<1>2. PICK T : T = {m \in Nat : \A s \in SUBSET S : Cardinality(s) <= m => f[s] \in V}
  OBVIOUS
<1>3. 0 \in T
  <2>1. ASSUME NEW s \in SUBSET S, Cardinality(s) <= 0 PROVE s = {}
    <3>1. Cardinality(s) = 0
      BY <1>1, <2>1
    <3> QED
      BY <1>1, <3>1, FS_EmptySet
  <2> QED
    BY <1>2, <2>1
<1>4. ASSUME NEW m \in Nat, m \in T
      PROVE  m + 1 \in T
  <2>1. ASSUME NEW s \in SUBSET S, Cardinality(s) <= m + 1, s # {}
        PROVE  f[s] \in V
    <3>1. c[s] \in s /\ s \ {c[s]} \in SUBSET S
      BY <2>1
    <3>2. Cardinality(s \ {c[s]}) = Cardinality(s) - 1
      BY <1>1, <3>1, FS_RemoveElement
    <3>3. Cardinality(s \ {c[s]}) <= m
      BY <1>1, <2>1, <3>2
    <3>4. f[s \ {c[s]}] \in V
      BY <1>2, <1>4, <3>1, <3>3
    <3> QED
      BY <2>1, <3>4
  <2>2. \A s \in SUBSET S : Cardinality(s) <= m + 1 => f[s] \in V
    <3> TAKE s \in SUBSET S
    <3>1. CASE s = {}
      BY <3>1
    <3>2. CASE s # {}
      BY <2>1, <3>2
    <3> QED
      BY <3>1, <3>2
  <2>3. m + 1 \in Nat
    OBVIOUS
  <2> QED
    BY <1>2, <2>2, <2>3
<1>5. Cardinality(S) \in T
  <2>1. Cardinality(S) \in Nat
    BY <1>1
  <2>2. \A m \in 0 .. Cardinality(S) - 1 : m \in Nat
    BY <2>1
  <2> QED
    BY <1>3, <1>4, <2>1, <2>2, UpTo
<1> QED
  BY <1>1, <1>2, <1>5

\* Function f makes of each subset of S what G makes of its greatest member and
\* of what f makes of the others.
FoldsWith(f, S, V, b, G) ==
    /\ f \in [SUBSET S -> V]
    /\ f[{}] = b
    /\ \A s \in SUBSET S : s # {} => f[s] = G[<<Max(s), f[s \ {Max(s)}]>>]

\* A function on sets of numbers may be defined by what it does with the
\* greatest of them.
LEMMA FoldExists ==
    ASSUME NEW n \in Nat, NEW V, NEW b \in V, NEW G, \A i \in 0 .. n : \A v \in V : G[<<i, v>>] \in V
    PROVE  \A S \in SUBSET (0 .. n) : \E f : FoldsWith(f, S, V, b, G)
<1> SUFFICES ASSUME NEW S \in SUBSET (0 .. n)
             PROVE  \E f : FoldsWith(f, S, V, b, G)
  OBVIOUS
<1>1. IsFiniteSet(S)
  <2>1. IsFiniteSet(0 .. n)
    BY FS_Interval
  <2> QED
    BY <2>1, FS_Subset
<1>2. PICK c : c = [s \in SUBSET S |-> Max(s)]
  OBVIOUS
<1>3. ASSUME NEW s \in SUBSET S, s # {}
      PROVE  c[s] \in s
  <2>1. s \subseteq 0 .. n
    OBVIOUS
  <2> QED
    BY <1>2, <1>3, <2>1, MaxIsIn
<1>4. PICK f : FoldsBy(f, c, S, V, b, G)
  <2>1. \A i \in S : \A v \in V : G[<<i, v>>] \in V
    OBVIOUS
  <2> QED
    BY <1>1, <1>3, <2>1, RecursionExists
<1>5. \A s \in SUBSET S : c[s] = Max(s)
  BY <1>2
<1>6. FoldsWith(f, S, V, b, G)
  BY <1>4, <1>5, Zenon DEF FoldsBy, FoldsWith
<1> QED
  BY <1>6

\* The same with the greatest member of a set of numbers.
LEMMA FoldStays ==
    ASSUME NEW n \in Nat, NEW S, S \subseteq 0 .. n, NEW V, NEW f, f[{}] \in V,
           \A s \in SUBSET S : s # {} /\ f[s \ {Max(s)}] \in V => f[s] \in V
    PROVE  f[S] \in V
<1>1. IsFiniteSet(S)
  <2>1. IsFiniteSet(0 .. n)
    BY FS_Interval
  <2> QED
    BY <2>1, FS_Subset
<1>2. PICK c : c = [s \in SUBSET S |-> Max(s)]
  OBVIOUS
<1>3. ASSUME NEW s \in SUBSET S, s # {}
      PROVE  c[s] \in s
  <2>1. s \subseteq 0 .. n
    OBVIOUS
  <2> QED
    BY <1>2, <1>3, <2>1, MaxIsIn
<1>4. \A s \in SUBSET S : c[s] = Max(s)
  BY <1>2
<1>5. \A s \in SUBSET S : s # {} /\ f[s \ {c[s]}] \in V => f[s] \in V
  BY <1>4
<1> QED
  BY <1>1, <1>3, <1>5, RecursionStays

-----------------------------------------------------------------------------
(* Serving.                                                                *)

\* Requests are served by a router that does not change.
LEMMA ServingKeepsRouter ==
    ASSUME Serve
    PROVE  UNCHANGED buildVars
BY DEF Serve, FailID, Enter, Reject, Respond, ServeGeneralOptions, ServeNotFound, Select, ServeGenerated,
       Proxy, Informational, RoundTripFails, ModifyResponse, ModifyFails, UpgradeFails, UpgradeMismatch,
       Upgrade, CopyResponse, BodyFails, CopyBody, CopyTrailers, Return

-----------------------------------------------------------------------------
(* What is open.                                                           *)

Sequence(s) == \E S : s \in Seq(S)

\* Whatever is open can be found again: in the map of backends, or in the
\* cache of the build, which is empty until the sites are built.
OpenIsKnown ==
    /\ Sequence(transports)
    /\ phase # "refused" => open \subseteq OfBackends(backends) \cup Direct(transports)
    /\ phase \in {"text", "backends"} => transports = <<>>
    /\ RefusedLeavesNothing

\* What is appended to a sequence is its last element, after the others.
LEMMA Appended ==
    ASSUME NEW s, NEW e, Sequence(s)
    PROVE  /\ Sequence(Append(s, e))
           /\ Len(Append(s, e)) = Len(s) + 1
           /\ DOMAIN s = 1 .. Len(s) /\ Len(s) \in Nat
           /\ DOMAIN Append(s, e) = 1 .. Len(s) + 1
           /\ \A i \in DOMAIN s : Append(s, e)[i] = s[i]
           /\ Append(s, e)[Len(s) + 1] = e
<1>1. PICK S : s \in Seq(S)
  BY DEF Sequence
<1>2. s \in Seq(S \cup {e}) /\ e \in S \cup {e}
  BY <1>1
<1>3. Append(s, e) \in Seq(S \cup {e})
  BY <1>2
<1> QED
  BY <1>2, <1>3 DEF Sequence

\* Every way to refuse a build, of backends or of sites, closes what is open.
LEMMA RefuseCloses ==
    ASSUME OpenIsKnown, Refuse, phase \in {"backends", "sites"}
    PROVE  OpenIsKnown'
<1>1. open' = {}
  <2>1. CASE phase = "backends"
    <3>1. Direct(transports) = {}
      BY <2>1 DEF OpenIsKnown, Direct
    <3> QED
      BY <2>1, <3>1 DEF OpenIsKnown, Refuse
  <2>2. CASE phase = "sites"
    BY <2>2 DEF OpenIsKnown, Refuse
  <2> QED
    BY <2>1, <2>2
<1>2. probing' = {}
  BY DEF OpenIsKnown, RefusedLeavesNothing, Refuse
<1> QED
  BY <1>1, <1>2 DEF OpenIsKnown, RefusedLeavesNothing, Refuse, Sequence

\* Every step of the build knows what it leaves open.
LEMMA BuildKeepsOpenKnown ==
    ASSUME OpenIsKnown, Build
    PROVE  OpenIsKnown'
<1>1. CASE LoadConfig
  BY <1>1 DEF LoadConfig, OpenIsKnown, RefusedLeavesNothing, OfBackends, Direct, Sequence
<1>2. CASE LoadFails
  BY <1>2 DEF LoadFails, OpenIsKnown, RefusedLeavesNothing, OfBackends, Direct, Sequence
<1>3. CASE ReplaceFile
  BY <1>3 DEF ReplaceFile, OpenIsKnown, RefusedLeavesNothing, OfBackends, Direct, Sequence
<1>4. CASE ProxiesRefused
  BY <1>4, RefuseCloses DEF ProxiesRefused
<1>5. ASSUME NEW name \in DOMAIN config.backends, BackendReads(name)
      PROVE  OpenIsKnown'
  BY <1>5 DEF BackendReads, ReadFile, OpenIsKnown, RefusedLeavesNothing, OfBackends, Direct, Sequence
<1>6. ASSUME NEW name \in DOMAIN config.backends, BackendBuilt(name)
      PROVE  OpenIsKnown'
  <2>1. PICK b : backends' = Put(backends, name, b)
    BY <1>6 DEF BackendBuilt
  <2>2. DOMAIN backends' = DOMAIN backends \cup {name}
    BY <2>1 DEF Put
  <2>3. OfBackends(backends)' = OfBackends(backends) \cup {<<"backend", name>>}
    BY <2>2 DEF OfBackends
  <2> QED
    BY <1>6, <2>3 DEF BackendBuilt, AtBackend, OpenIsKnown, RefusedLeavesNothing, Direct, Sequence
<1>7. ASSUME NEW name \in DOMAIN config.backends, BackendRefused(name)
      PROVE  OpenIsKnown'
  BY <1>7, RefuseCloses DEF BackendRefused, AtBackend
<1>8. CASE BackendsBuilt
  BY <1>8 DEF BackendsBuilt, OpenIsKnown, RefusedLeavesNothing, OfBackends, Direct, Sequence
<1>9. CASE StepReads
  BY <1>9 DEF StepReads, ReadFile, OpenIsKnown, RefusedLeavesNothing, OfBackends, Direct, Sequence
<1>10. CASE StepWithoutTransport
  BY <1>10 DEF StepWithoutTransport, OpenIsKnown, RefusedLeavesNothing, OfBackends, Direct, Sequence
<1>11. CASE StepWithTransport
  <2>1. PICK t : \/ transports' = Append(transports, t)
                 \/ transports' = transports /\ DOMAIN transports # {}
    BY <1>11 DEF StepWithTransport
  <2>2. Sequence(transports') /\ Direct(transports) \subseteq Direct(transports')
    <3>1. CASE transports' = Append(transports, t)
      BY <3>1, Appended DEF Direct, OpenIsKnown
    <3> QED
      BY <2>1, <3>1 DEF OpenIsKnown
  <2>3. <<"direct", Len(transports')>> \in Direct(transports')
    <3>1. CASE transports' = Append(transports, t)
      BY <3>1, Appended DEF Direct, OpenIsKnown
    <3>2. CASE transports' = transports /\ DOMAIN transports # {}
      BY <3>2 DEF Direct, OpenIsKnown, Sequence
    <3> QED
      BY <2>1, <3>1, <3>2
  <2> QED
    BY <1>11, <2>2, <2>3 DEF StepWithTransport, AtStep, OpenIsKnown, RefusedLeavesNothing, OfBackends
<1>12. CASE StepRefused
  BY <1>12, RefuseCloses DEF StepRefused, AtStep
<1>13. CASE SitesBuilt
  BY <1>13 DEF SitesBuilt, OpenIsKnown, RefusedLeavesNothing, OfBackends, Direct, Sequence
<1> QED
  BY <1>1, <1>2, <1>3, <1>4, <1>5, <1>6, <1>7, <1>8, <1>9, <1>10, <1>11, <1>12, <1>13 DEF Build

\* A refused build leaves no transport open and no probe running: newBackends
\* and newRouter close all they have opened on every way out.
THEOREM BuildLeavesNothing == Spec => []RefusedLeavesNothing
<1>1. Init => OpenIsKnown
  BY DEF Init, BuildInit, OpenIsKnown, RefusedLeavesNothing, Sequence
<1>2. OpenIsKnown /\ [Next]_vars => OpenIsKnown'
  <2>1. ASSUME OpenIsKnown, UNCHANGED buildVars
        PROVE  OpenIsKnown'
    BY <2>1 DEF buildVars, OpenIsKnown, RefusedLeavesNothing, OfBackends, Direct, Sequence
  <2> QED
    BY <2>1, BuildKeepsOpenKnown, ServingKeepsRouter DEF Next, vars
<1>3. OpenIsKnown => RefusedLeavesNothing
  BY DEF OpenIsKnown
<1> QED
  BY <1>1, <1>2, <1>3, PTL DEF Spec

-----------------------------------------------------------------------------
(* Whose transport it is.                                                  *)

At(k) == Steps(config.sites)[k]
SiteOf(k) == config.sites[At(k)[1]]
RouteOf(k) == SiteOf(k).routes[At(k)[2]]
UpstreamOf(k) == IF At(k)[2] = 0 THEN SiteOf(k) ELSE RouteUpstream(SiteOf(k), RouteOf(k))

\* The transport has what the selected upstream of step k is configured with.
OwnTransport(k) ==
    LET u == UpstreamOf(k)
        t == transports[proxies[k].transport]
    IN /\ IsSet(u.target) /\ ValidateDirectTimeout(u.timeout)
       /\ proxies[k].transport \in DOMAIN transports
       /\ t.key.dial = TransportKey(u, t.contents).dial
       /\ t.key.header = TransportKey(u, t.contents).header
       /\ IsSet(u.tls) => /\ u.tls.block \in DOMAIN loaded
                          /\ t.contents = loaded[u.tls.block] /\ t.name = u.tls.name
       /\ ~IsSet(u.tls) => t.contents = <<>> /\ t.name = Unset

\* Equal keys stand for equal files and names.
KeyTells(t) ==
    /\ t.key.tls = {} => t.contents = <<>> /\ t.name = Unset
    /\ \A id \in t.key.tls : t.contents = id.read /\ t.name = id.name

\* What has been read is of the backend or the step at hand.
ReadingIsAtHand ==
    /\ phase = "text" => reading = NotReading
    /\ phase = "backends" /\ reading # NotReading => BackendsLeft # {}
    /\ phase = "sites" /\ reading # NotReading => ~Generates /\ IsSet(Upstream.tls)

TransportsAreOwn ==
    /\ Sequence(transports) /\ Sequence(proxies)
    /\ phase \in {"text", "backends"} => proxies = <<>> /\ transports = <<>>
    /\ \A t \in DOMAIN transports : KeyTells(transports[t])
    /\ \A k \in DOMAIN proxies : proxies[k].transport # 0 => OwnTransport(k)

OwnInv == ReadingIsAtHand /\ TransportsAreOwn

\* The options of RouteUpstream are those the property names.
LEMMA OwnInvIsEnough ==
    ASSUME OwnInv
    PROVE  TransportIsOwn
<1> SUFFICES ASSUME NEW k \in DOMAIN proxies, proxies[k].transport # 0
             PROVE  LET r == RouteOf(k)
                        u == IF At(k)[2] = 0 \/ NoUpstream(r) THEN SiteOf(k) ELSE r
                        timeout == IF At(k)[2] # 0 /\ IsSet(r.timeout) THEN r.timeout ELSE u.timeout
                        tls == IF At(k)[2] # 0 /\ IsSet(r.tls) THEN r.tls ELSE u.tls
                        transport == transports[proxies[k].transport]
                    IN /\ transport.key.dial = IF IsSet(timeout) /\ timeout.dial > 0 THEN timeout.dial ELSE DefaultDial
                       /\ transport.key.header = IF IsSet(timeout) /\ timeout.header > 0 THEN timeout.header ELSE DefaultHeader
                       /\ transport.name = IF IsSet(tls) THEN tls.name ELSE Unset
                       /\ transport.contents = IF IsSet(tls) THEN loaded[tls.block] ELSE <<>>
  BY DEF TransportIsOwn, At, SiteOf, RouteOf
<1> DEFINE r == RouteOf(k)
           u == IF At(k)[2] = 0 \/ NoUpstream(r) THEN SiteOf(k) ELSE r
           timeout == IF At(k)[2] # 0 /\ IsSet(r.timeout) THEN r.timeout ELSE u.timeout
           tls == IF At(k)[2] # 0 /\ IsSet(r.tls) THEN r.tls ELSE u.tls
<1>1. OwnTransport(k)
  BY DEF OwnInv, TransportsAreOwn
<1>2. UpstreamOf(k).timeout = timeout /\ UpstreamOf(k).tls = tls
  BY <1>1 DEF OwnTransport, UpstreamOf, RouteUpstream, NoUpstream, IsSet
<1>3. IsSet(timeout) => timeout.dial \in 0 .. MaxDirectTimeout /\ timeout.header \in 0 .. MaxDirectTimeout
  BY <1>1, <1>2 DEF OwnTransport, ValidateDirectTimeout
<1>4. /\ TransportKey(UpstreamOf(k), transports[proxies[k].transport].contents).dial
             = IF IsSet(timeout) /\ timeout.dial > 0 THEN timeout.dial ELSE DefaultDial
      /\ TransportKey(UpstreamOf(k), transports[proxies[k].transport].contents).header
             = IF IsSet(timeout) /\ timeout.header > 0 THEN timeout.header ELSE DefaultHeader
  <2> HIDE DEF timeout
  <2> QED
    BY <1>2, <1>3, ConfigAssumption DEF TransportKey, EffectiveTimeout
<1>5. /\ transports[proxies[k].transport].name = IF IsSet(tls) THEN tls.name ELSE Unset
      /\ transports[proxies[k].transport].contents = IF IsSet(tls) THEN loaded[tls.block] ELSE <<>>
  <2> HIDE DEF tls
  <2> QED
    BY <1>1, <1>2 DEF OwnTransport
<1> QED
  BY <1>1, <1>4, <1>5 DEF OwnTransport

\* Steps that leave the configuration, the transports and the proxies alone.
LEMMA OwnUntouched ==
    ASSUME TransportsAreOwn, UNCHANGED <<config, loaded, transports, proxies>>,
           phase' \in {"text", "backends"} => phase \in {"text", "backends"}
    PROVE  TransportsAreOwn'
BY DEF TransportsAreOwn, KeyTells, OwnTransport, UpstreamOf, SiteOf, RouteOf, At, Sequence

\* A transport that is found by its key is as good as one made for the step,
\* and what was loaded for a block is loaded for good.
LEMMA StepWithTransportKeepsOwn ==
    ASSUME OwnInv, StepWithTransport
    PROVE  OwnInv'
<1> DEFINE u == Upstream
           key == TransportKey(u, Contents)
           same == {t \in DOMAIN transports : transports[t].key = key}
           fresh == [key |-> key, contents |-> Contents, name |-> IF IsSet(u.tls) THEN u.tls.name ELSE Unset]
           at == IF same = {} THEN Len(transports) + 1 ELSE CHOOSE t \in same : TRUE
<1>0. PICK n : n = Len(proxies) + 1
  OBVIOUS
<1>1. /\ phase = "sites" /\ phase' = "sites" /\ reading' = NotReading
      /\ UNCHANGED config
      /\ AcceptsStep /\ ~Generates /\ IsSet(u.target) /\ StepRead
      /\ transports' = (IF same = {} THEN Append(transports, fresh) ELSE transports)
      /\ proxies' = Append(proxies, [transport |-> at])
      /\ loaded' = (IF IsSet(u.tls) THEN Put(loaded, u.tls.block, Contents) ELSE loaded)
  BY DEF StepWithTransport, AtStep
<1>2. u = UpstreamOf(n) /\ ValidateDirectTimeout(u.timeout)
  BY <1>0, <1>1 DEF Upstream, UpstreamOf, Site, Route, Step, SiteOf, RouteOf, At, AcceptsStep, AcceptsUpstream
<1>3. ~IsSet(u.tls) => Contents = <<>>
  BY DEF OwnInv, ReadingIsAtHand, Contents, Known, NotReading, StepWithTransport, AtStep
<1>4. KeyTells(fresh)
  <2> HIDE DEF u
  <2>1. CASE IsSet(u.tls)
    <3>1. fresh.key.tls = {UpstreamTLSIdentity(u.tls, Contents)}
      BY <2>1 DEF TransportKey
    <3>2. fresh.contents = Contents /\ fresh.name = u.tls.name
      BY <2>1
    <3>3. /\ UpstreamTLSIdentity(u.tls, Contents).read = Contents
          /\ UpstreamTLSIdentity(u.tls, Contents).name = u.tls.name
      BY DEF UpstreamTLSIdentity
    <3> HIDE DEF fresh
    <3> QED
      BY <3>1, <3>2, <3>3 DEF KeyTells
  <2>2. CASE ~IsSet(u.tls)
    <3>1. fresh.key.tls = {}
      BY <2>2 DEF TransportKey
    <3> QED
      BY <1>3, <2>2, <3>1 DEF KeyTells
  <2> QED
    BY <2>1, <2>2
<1>5. \A b \in DOMAIN loaded : b \in DOMAIN loaded' /\ loaded'[b] = loaded[b]
  <2> HIDE DEF u
  <2>1. CASE IsSet(u.tls) /\ u.tls.block \in DOMAIN loaded
    <3>1. Contents = loaded[u.tls.block]
      BY <2>1 DEF Contents, Known, u
    <3> QED
      BY <1>1, <2>1, <3>1 DEF Put
  <2> QED
    BY <1>1, <2>1 DEF Put
<1>6. IsSet(u.tls) => u.tls.block \in DOMAIN loaded' /\ loaded'[u.tls.block] = Contents
  BY <1>1 DEF Put
<1>7. /\ Sequence(transports) /\ Sequence(transports')
      /\ \A t \in DOMAIN transports : t \in DOMAIN transports' /\ transports'[t] = transports[t]
      /\ \A t \in DOMAIN transports' : t \in DOMAIN transports \/ transports'[t] = fresh
  <2> HIDE DEF fresh, same
  <2>1. Sequence(transports)
    BY DEF OwnInv, TransportsAreOwn
  <2>2. CASE same = {}
    BY <1>1, <2>1, <2>2, Appended
  <2>3. CASE same # {}
    BY <1>1, <2>1, <2>3
  <2> QED
    BY <2>1, <2>2, <2>3
<1>8. /\ at \in DOMAIN transports' /\ transports'[at].key = key /\ KeyTells(transports'[at])
  <2>1. CASE same = {}
    <3> HIDE DEF same, key
    <3>1. transports' = Append(transports, fresh) /\ at = Len(transports) + 1
      BY <1>1, <2>1
    <3>2. at \in DOMAIN transports' /\ transports'[at] = fresh
      <4> HIDE DEF fresh
      <4> QED
        BY <1>7, <3>1, Appended
    <3> QED
      BY <1>4, <3>2
  <2>2. CASE same # {}
    <3>1. at \in same
      BY <2>2
    <3>2. at \in DOMAIN transports /\ transports[at].key = key
      <4> HIDE DEF at, key
      <4> QED
        BY <3>1
    <3> HIDE DEF at, key, same
    <3> QED
      BY <1>7, <3>2 DEF OwnInv, TransportsAreOwn
  <2> QED
    BY <2>1, <2>2
<1>9. /\ transports'[at].contents = Contents
      /\ transports'[at].name = IF IsSet(u.tls) THEN u.tls.name ELSE Unset
  <2> HIDE DEF at, u
  <2>1. CASE IsSet(u.tls)
    <3>1. UpstreamTLSIdentity(u.tls, Contents) \in transports'[at].key.tls
      BY <1>8, <2>1 DEF TransportKey
    <3> QED
      BY <1>8, <2>1, <3>1 DEF KeyTells, UpstreamTLSIdentity
  <2>2. CASE ~IsSet(u.tls)
    <3>1. transports'[at].key.tls = {}
      BY <1>8, <2>2 DEF TransportKey
    <3> QED
      BY <1>3, <1>8, <2>2, <3>1 DEF KeyTells
  <2> QED
    BY <2>1, <2>2
<1>10. /\ Sequence(proxies')
       /\ proxies'[n].transport = at
       /\ \A k \in DOMAIN proxies' : k = n \/ (k \in DOMAIN proxies /\ proxies'[k] = proxies[k])
  <2> HIDE DEF at
  <2>1. Sequence(proxies)
    BY DEF OwnInv, TransportsAreOwn
  <2> QED
    BY <1>0, <1>1, <2>1, Appended
<1>11. OwnTransport(n)'
  <2>1. UpstreamOf(n)' = u
    BY <1>1, <1>2 DEF UpstreamOf, SiteOf, RouteOf, At
  <2>2. /\ transports'[at].key.dial = TransportKey(u, Contents).dial
        /\ transports'[at].key.header = TransportKey(u, Contents).header
    BY <1>8
  <2> HIDE DEF u, at
  <2> QED
    BY <1>1, <1>2, <1>3, <1>6, <1>8, <1>9, <1>10, <2>1, <2>2 DEF OwnTransport, u
<1>12. ASSUME NEW k \in DOMAIN proxies, proxies'[k] = proxies[k], proxies[k].transport # 0
       PROVE  OwnTransport(k)'
  <2>1. UpstreamOf(k)' = UpstreamOf(k)
    BY <1>1 DEF UpstreamOf, SiteOf, RouteOf, At
  <2>2. OwnTransport(k)
    BY <1>12 DEF OwnInv, TransportsAreOwn
  <2>3. proxies[k].transport \in DOMAIN transports
    BY <2>2 DEF OwnTransport
  <2>4. transports'[proxies[k].transport] = transports[proxies[k].transport]
    BY <1>7, <2>3
  <2> QED
    BY <1>5, <1>7, <1>12, <2>1, <2>2, <2>3, <2>4 DEF OwnTransport
<1>13. TransportsAreOwn'
  <2> HIDE DEF u, at, fresh
  <2>1. \A t \in DOMAIN transports' : KeyTells(transports'[t])
    BY <1>4, <1>7 DEF OwnInv, TransportsAreOwn
  <2> QED
    BY <1>1, <1>7, <1>10, <1>11, <1>12, <2>1 DEF TransportsAreOwn, KeyTells
<1> QED
  BY <1>1, <1>13 DEF OwnInv, ReadingIsAtHand, NotReading

\* No other step of the build touches the transports or the proxies before it.
LEMMA BuildKeepsOwn ==
    ASSUME OwnInv, Build
    PROVE  OwnInv'
<1> USE DEF OwnInv, NotReading
<1>1. CASE LoadConfig
  BY <1>1 DEF LoadConfig, ReadingIsAtHand, TransportsAreOwn, Sequence
<1>2. CASE LoadFails
  BY <1>2, OwnUntouched DEF LoadFails, ReadingIsAtHand
<1>3. CASE ReplaceFile
  BY <1>3, OwnUntouched DEF ReplaceFile, ReadingIsAtHand, BackendsLeft, Generates, Upstream, Site, Route, Step
<1>4. ASSUME Refuse
      PROVE  OwnInv'
  BY <1>4, OwnUntouched DEF Refuse, ReadingIsAtHand
<1>5. ASSUME NEW name \in DOMAIN config.backends, BackendReads(name)
      PROVE  OwnInv'
  BY <1>5, OwnUntouched DEF BackendReads, AtBackend, ReadFile, ReadingIsAtHand, BackendsLeft
<1>6. ASSUME NEW name \in DOMAIN config.backends, BackendBuilt(name)
      PROVE  OwnInv'
  BY <1>6, OwnUntouched DEF BackendBuilt, AtBackend, ReadingIsAtHand
<1>7. CASE BackendsBuilt
  BY <1>7, OwnUntouched DEF BackendsBuilt, ReadingIsAtHand
<1>8. CASE StepReads
  <2>1. IsSet(Upstream.tls)
    <3>1. CASE reading = NotReading
      BY <1>8, <3>1 DEF StepReads, ReadFile, ReadAll, Paths
    <3>2. CASE reading # NotReading
      BY <1>8, <3>2 DEF StepReads, AtStep, ReadingIsAtHand
    <3> QED
      BY <3>1, <3>2
  <2>2. ReadingIsAtHand'
    BY <1>8, <2>1 DEF StepReads, AtStep, ReadFile, ReadingIsAtHand, Generates, Upstream, Site, Route, Step
  <2> QED
    BY <1>8, <2>2, OwnUntouched DEF StepReads, ReadFile
<1>9. CASE StepWithoutTransport
  <2>1. reading = NotReading
    BY <1>9 DEF StepWithoutTransport, AtStep, AcceptsStep, AcceptsUpstream, ReadingIsAtHand
  <2>2. /\ Sequence(proxies')
        /\ \A k \in DOMAIN proxies' :
               proxies'[k].transport = 0 \/ (k \in DOMAIN proxies /\ proxies'[k] = proxies[k])
    BY <1>9, Appended DEF StepWithoutTransport, TransportsAreOwn
  <2>3. ASSUME NEW k \in DOMAIN proxies, OwnTransport(k), proxies'[k] = proxies[k]
        PROVE  OwnTransport(k)'
    BY <1>9, <2>3 DEF StepWithoutTransport, OwnTransport, UpstreamOf, SiteOf, RouteOf, At
  <2>4. TransportsAreOwn'
    BY <1>9, <2>2, <2>3 DEF StepWithoutTransport, AtStep, TransportsAreOwn, KeyTells, Sequence
  <2> QED
    BY <1>9, <2>1, <2>4 DEF StepWithoutTransport, AtStep, ReadingIsAtHand
<1>10. CASE StepWithTransport
  BY <1>10, StepWithTransportKeepsOwn
<1>11. CASE SitesBuilt
  BY <1>11, OwnUntouched DEF SitesBuilt, ReadingIsAtHand
<1> QED
  BY <1>1, <1>2, <1>3, <1>4, <1>5, <1>6, <1>7, <1>8, <1>9, <1>10, <1>11
  DEF Build, ProxiesRefused, BackendRefused, StepRefused

\* Serving keeps it too.
LEMMA OwnInvariance == Spec => []OwnInv
<1>1. Init => OwnInv
  BY DEF Init, BuildInit, OwnInv, ReadingIsAtHand, TransportsAreOwn, NotReading, Sequence
<1>2. OwnInv /\ [Next]_vars => OwnInv'
  <2>1. ASSUME OwnInv, UNCHANGED buildVars
        PROVE  OwnInv'
    <3>1. TransportsAreOwn'
      BY <2>1, OwnUntouched DEF OwnInv, buildVars
    <3>2. ReadingIsAtHand'
      BY <2>1 DEF OwnInv, buildVars, ReadingIsAtHand, NotReading, BackendsLeft, Generates, Upstream, Site, Route, Step
    <3> QED
      BY <3>1, <3>2 DEF OwnInv
  <2> QED
    BY <2>1, BuildKeepsOwn, ServingKeepsRouter DEF Next, vars
<1> QED
  BY <1>1, <1>2, PTL DEF Spec

\* A proxy's transport has the timeouts and TLS settings its own site or route
\* is configured with, however many share it (directTransportCache.get).
THEOREM TransportsStayOwn == Spec => []TransportIsOwn
<1>1. OwnInv => TransportIsOwn
  BY OwnInvIsEnough
<1> QED
  BY <1>1, OwnInvariance, PTL

-----------------------------------------------------------------------------
(* The backends that are built.                                            *)

\* What is being built, or serves, is a configuration.
LoadedInv ==
    /\ phase = "text" => config \in Texts
    /\ phase \notin {"text", "unloaded"} => config \in Configs

\* Every backend that is built is one of the configuration, which newBackend
\* accepts, with what newBackend makes of it.
BuiltInv ==
    /\ phase \in {"text", "unloaded"} => backends = <<>>
    /\ \A name \in DOMAIN backends :
           /\ name \in DOMAIN config.backends /\ AcceptsBackend(config.backends[name])
           /\ \E read : backends[name] = NewBackend(config.backends[name], read)

\* Each step of the build keeps both, and so does serving.
LEMMA BuildKeepsBuilt ==
    ASSUME LoadedInv, BuiltInv, Build
    PROVE  LoadedInv' /\ BuiltInv'
<1>1. CASE LoadConfig
  BY <1>1 DEF LoadConfig, LoadedInv, BuiltInv, Configs
<1>2. CASE LoadFails
  BY <1>2 DEF LoadFails, LoadedInv, BuiltInv
<1>3. ASSUME UNCHANGED <<config, backends>>, phase \notin {"text", "unloaded"}, phase' \notin {"text", "unloaded"}
      PROVE  LoadedInv' /\ BuiltInv'
  BY <1>3 DEF LoadedInv, BuiltInv
<1>4. ASSUME NEW name \in DOMAIN config.backends, BackendBuilt(name)
      PROVE  LoadedInv' /\ BuiltInv'
  <2>1. PICK b : b = NewBackend(config.backends[name], reading)
    OBVIOUS
  <2>2. /\ AcceptsBackend(config.backends[name]) /\ backends' = Put(backends, name, b)
        /\ phase = "backends" /\ phase' = "backends" /\ config' = config
    BY <1>4, <2>1 DEF BackendBuilt, AtBackend
  <2>3. /\ DOMAIN backends' = DOMAIN backends \cup {name} /\ backends'[name] = b
        /\ \A other \in DOMAIN backends : other # name => backends'[other] = backends[other]
    BY <2>2 DEF Put
  <2>4. BuiltInv'
    BY <2>1, <2>2, <2>3 DEF BuiltInv
  <2> QED
    BY <2>2, <2>4 DEF LoadedInv
<1>5. LoadConfig \/ LoadFails \/ (\E name \in DOMAIN config.backends : BackendBuilt(name))
      \/ (UNCHANGED <<config, backends>> /\ phase \notin {"text", "unloaded"} /\ phase' \notin {"text", "unloaded"})
  BY DEF Build, ReplaceFile, ProxiesRefused, Refuse, BackendReads, BackendRefused, AtBackend, ReadFile, BackendsBuilt,
         StepReads, StepWithoutTransport, StepWithTransport, StepRefused, AtStep, SitesBuilt
<1> QED
  BY <1>1, <1>2, <1>3, <1>4, <1>5

\* So both hold of everything that is built.
LEMMA BuiltInvariance == Spec => [](LoadedInv /\ BuiltInv)
<1>1. Init => LoadedInv /\ BuiltInv
  BY DEF Init, BuildInit, LoadedInv, BuiltInv
<1>2. LoadedInv /\ BuiltInv /\ [Next]_vars => (LoadedInv /\ BuiltInv)'
  <2>1. ASSUME LoadedInv, BuiltInv, UNCHANGED buildVars
        PROVE  LoadedInv' /\ BuiltInv'
    BY <2>1 DEF buildVars, LoadedInv, BuiltInv
  <2> QED
    BY <2>1, BuildKeepsBuilt, ServingKeepsRouter DEF Next, vars
<1> QED
  BY <1>1, <1>2, PTL DEF Spec

-----------------------------------------------------------------------------
(* What is known of a backend when it is built.                            *)

\* What is known of a backend's weights, delays and attempts when it is built.
LEMMA BackendDecoded ==
    ASSUME NEW c \in Configs, NEW name \in DOMAIN c.backends, NEW b, b = c.backends[name], AcceptsBackend(b)
    PROVE  /\ IsSet(b.weights) => /\ b.weights \in Seq(Nat) /\ Len(b.weights) > 0
                                  /\ \A i \in DOMAIN b.weights : b.weights[i] \in 1 .. MaxTargetWeight
           /\ IsSet(b.retry) /\ IsSet(b.retry.backoff) =>
                  /\ {b.retry.backoff.base, b.retry.backoff.cap} \subseteq 1 .. MaxDuration
                  /\ b.retry.backoff.cap >= b.retry.backoff.base
           /\ EffectiveTries(b) \in Nat \ {0}
<1>1. PICK text \in Texts : LoadsConfig(text) /\ c = DecodeConfig(text)
  BY DEF Configs
<1>2. "backends" \in DOMAIN text /\ \A n \in DOMAIN text.backends : BackendShape(text.backends[n])
  BY <1>1, TextsAssumption
<1>3. c.backends = [n \in DOMAIN text.backends |-> DecodeBackend(text.backends[n])]
  BY <1>1, <1>2 DEF DecodeConfig
<1>4. PICK t : t = text.backends[name]
  OBVIOUS
<1>5. /\ name \in DOMAIN text.backends /\ b = DecodeBackend(t)
      /\ BackendShape(t) /\ LoadsBackend(t)
  BY <1>1, <1>2, <1>3, <1>4 DEF LoadsConfig
<1>6. b.targets = t.targets /\ b.weights = t.weights
  BY <1>5 DEF DecodeBackend
<1>7. ASSUME IsSet(b.weights)
      PROVE  /\ b.weights \in Seq(Nat) /\ Len(b.weights) > 0
             /\ \A i \in DOMAIN b.weights : b.weights[i] \in 1 .. MaxTargetWeight
  <2>1. b.weights \in Seq(Nat)
    BY <1>5, <1>6, <1>7 DEF BackendShape
  <2>2. ValidateTargetWeights(b.weights, Len(b.targets))
    BY <1>7 DEF AcceptsBackend
  <2>3. Len(b.weights) # 0
    BY <2>1, <2>2 DEF ValidateTargetWeights
  <2> QED
    BY <2>1, <2>2, <2>3 DEF ValidateTargetWeights
<1>8. ASSUME IsSet(b.retry), IsSet(b.retry.backoff)
      PROVE  /\ {b.retry.backoff.base, b.retry.backoff.cap} \subseteq 1 .. MaxDuration
             /\ b.retry.backoff.cap >= b.retry.backoff.base
  <2>1. IsSet(t.retry) /\ b.retry = [t.retry EXCEPT !.deadline = Value(@, 0), !.methods = Value(@, <<>>)]
    BY <1>5, <1>8 DEF DecodeBackend, IsSet
  <2>2. b.retry.backoff = t.retry.backoff
    BY <1>5, <2>1 DEF BackendShape
  <2>3. LoadsBackoff(t.retry.backoff)
    BY <1>5, <2>1 DEF LoadsBackend, LoadsRetry
  <2> QED
    BY <1>8, <2>2, <2>3 DEF LoadsBackoff
<1>9. EffectiveTries(b) \in Nat \ {0}
  <2>1. Len(b.targets) \in Nat
    BY <1>5, <1>6 DEF BackendShape, IsSequence
  <2> QED
    BY <2>1 DEF AcceptsBackend
<1> QED
  BY <1>7, <1>8, <1>9

\* Powers of two, by counting subsets.
LEMMA PowersOfTwo == 2^0 = 1 /\ \A k \in Nat : 2^k \in Nat \ {0} /\ 2^(k + 1) = 2 * 2^k
<1>1. 2^0 = 1
  BY SMT
<1> SUFFICES ASSUME NEW k \in Nat PROVE 2^k \in Nat \ {0} /\ 2^(k + 1) = 2 * 2^k
  BY <1>1
<1> DEFINE S == 1 .. k
           T == 1 .. k + 1
           A == SUBSET S
           B == {s \cup {k + 1} : s \in A}
<1>2. IsFiniteSet(S) /\ Cardinality(S) = k /\ IsFiniteSet(T) /\ Cardinality(T) = k + 1
  BY FS_Interval
<1>3. IsFiniteSet(A) /\ Cardinality(A) = 2^k /\ Cardinality(SUBSET T) = 2^(k + 1)
  <2> HIDE DEF S, T
  <2> QED
    BY <1>2, FS_SUBSET
<1>4. SUBSET T = A \cup B /\ A \cap B = {}
  <2>1. k + 1 \notin S /\ T = S \cup {k + 1}
    OBVIOUS
  <2>2. ASSUME NEW s \in SUBSET T PROVE s \in A \cup B
    <3>1. CASE k + 1 \in s
      <4>1. s \ {k + 1} \in A /\ s = (s \ {k + 1}) \cup {k + 1}
        BY <2>1, <3>1
      <4> QED
        BY <4>1
    <3>2. CASE k + 1 \notin s
      BY <2>1, <3>2
    <3> QED
      BY <3>1, <3>2
  <2>3. \A s \in B : s \in SUBSET T /\ k + 1 \in s
    BY <2>1
  <2>4. \A s \in A : s \in SUBSET T /\ k + 1 \notin s
    BY <2>1
  <2> HIDE DEF A, B, S, T
  <2> QED
    BY <2>2, <2>3, <2>4
<1>5. ExistsBijection(A, B)
  <2>1. PICK f : f = [s \in A |-> s \cup {k + 1}]
    OBVIOUS
  <2>2. k + 1 \notin S
    OBVIOUS
  <2>3. \A s \in A : s = f[s] \ {k + 1} /\ f[s] \in B
    BY <2>1, <2>2
  <2>4. f \in [A -> B] /\ \A t \in B : \E s \in A : f[s] = t
    BY <2>1
  <2>5. \A s, t \in A : f[s] = f[t] => s = t
    <3> HIDE DEF A, B
    <3> QED
      BY <2>3
  <2> HIDE DEF A, B
  <2>6. f \in Bijection(A, B)
    BY <2>4, <2>5 DEF Bijection, Injection, Surjection, IsInjective
  <2> QED
    BY <2>6 DEF ExistsBijection
<1>6. IsFiniteSet(B) /\ Cardinality(B) = Cardinality(A)
  <2> HIDE DEF A, B
  <2> QED
    BY <1>3, <1>5, FS_Bijection
<1>7. Cardinality(A \cup B) = Cardinality(A) + Cardinality(B)
  <2> HIDE DEF A, B
  <2>1. Cardinality(A \cap B) = 0
    BY <1>4, FS_EmptySet
  <2>2. Cardinality(A) \in Nat /\ Cardinality(B) \in Nat
    BY <1>3, <1>6, FS_CardinalityType
  <2>3. Cardinality(A \cup B) = Cardinality(A) + Cardinality(B) - Cardinality(A \cap B)
    BY <1>3, <1>6, FS_Union
  <2> QED
    BY <2>1, <2>2, <2>3
<1>8. Cardinality(A) \in Nat /\ Cardinality(A) # 0
  <2>1. A # {}
    OBVIOUS
  <2> HIDE DEF A
  <2> QED
    BY <1>3, <2>1, FS_CardinalityType, FS_EmptySet
<1>9. Cardinality(SUBSET T) = 2 * Cardinality(A)
  <2>1. Cardinality(SUBSET T) = Cardinality(A \cup B)
    <3> HIDE DEF A, B
    <3> QED
      BY <1>4, Zenon
  <2>2. Cardinality(A \cup B) = 2 * Cardinality(A)
    <3> HIDE DEF A, B
    <3> QED
      BY <1>6, <1>7, <1>8
  <2> QED
    BY <2>1, <2>2, Zenon
<1>10. PICK p, q : p = 2^k /\ q = 2^(k + 1)
  OBVIOUS
<1>11. p \in Nat \ {0} /\ q = 2 * p
  <2> HIDE DEF A, B, S, T
  <2> QED
    BY <1>3, <1>8, <1>9, <1>10
<1> QED
  BY <1>10, <1>11, Zenon

-----------------------------------------------------------------------------
(* Sums, delays and schedules, step by step.                               *)

\* The sets of the first numbers, each with its greatest.
LEMMA FirstNumbers ==
    ASSUME NEW n \in Nat
    PROVE  /\ 1 .. 0 = {}
           /\ \A k \in 1 .. n : /\ 1 .. k \in SUBSET (1 .. n) /\ 1 .. k # {}
                                /\ Max(1 .. k) = k /\ (1 .. k) \ {k} = 1 .. k - 1
<1>1. ASSUME NEW k \in 1 .. n
      PROVE  Max(1 .. k) = k
  <2>1. 1 .. k \subseteq Int /\ k \in 1 .. k /\ \A i \in 1 .. k : k >= i
    OBVIOUS
  <2> QED
    BY <2>1, MaxIs
<1> QED
  BY <1>1

\* A set of the first numbers that has a member has a greatest.
LEMMA MaxOfFirst ==
    ASSUME NEW n \in Nat, NEW s \in SUBSET (1 .. n), s # {}
    PROVE  Max(s) \in s /\ Max(s) \in 1 .. n /\ s \ {Max(s)} \in SUBSET (1 .. n)
<1>1. s \subseteq 0 .. n
  OBVIOUS
<1>2. Max(s) \in s
  BY <1>1, MaxIsIn
<1> QED
  BY <1>2

\* FoldExists for the numbers from 1.
LEMMA FoldFromOne ==
    ASSUME NEW n \in Nat, NEW V, NEW b \in V, NEW G, \A i \in 1 .. n : \A v \in V : G[<<i, v>>] \in V
    PROVE  \E f : FoldsWith(f, 1 .. n, V, b, G)
<1>1. PICK S : S = 1 .. n
  OBVIOUS
<1>2. IsFiniteSet(S)
  BY <1>1, FS_Interval
<1>3. PICK c : c = [s \in SUBSET S |-> Max(s)]
  OBVIOUS
<1>4. ASSUME NEW s \in SUBSET S, s # {}
      PROVE  c[s] \in s
  BY <1>1, <1>3, <1>4, MaxOfFirst
<1>5. \A i \in S : \A v \in V : G[<<i, v>>] \in V
  BY <1>1
<1>6. PICK f : FoldsBy(f, c, S, V, b, G)
  BY <1>2, <1>4, <1>5, RecursionExists
<1>7. \A s \in SUBSET S : c[s] = Max(s)
  BY <1>3
<1>8. FoldsWith(f, S, V, b, G)
  BY <1>6, <1>7, Zenon DEF FoldsBy, FoldsWith
<1> QED
  BY <1>1, <1>8

\* Function e begins with b and makes of each number, and of what it has come
\* to, what G makes of them.
StepsWith(e, n, V, b, G) ==
    /\ e \in [0 .. n -> V] /\ e[0] = b
    /\ \A k \in 1 .. n : e[k] = G[<<k, e[k - 1]>>]

\* Of what is in V, G makes something in V; from sets where it is in V,
\* function g does what G does with the greatest member.
FoldsIn(g, n, V, b, G) ==
    /\ b \in V /\ \A i \in 1 .. n : \A v \in V : G[<<i, v>>] \in V
    /\ g[{}] = b
    /\ \A s \in SUBSET (1 .. n) : s # {} /\ g[s \ {Max(s)}] \in V => g[s] = G[<<Max(s), g[s \ {Max(s)}]>>]

\* What is folded over the first numbers in their order comes about in steps.
LEMMA FoldInSteps ==
    ASSUME NEW n \in Nat, NEW V, NEW b, NEW G, NEW g, FoldsIn(g, n, V, b, G)
    PROVE  \E e : StepsWith(e, n, V, b, G) /\ g[1 .. n] = e[n]
<1>0. /\ b \in V /\ g[{}] = b
      /\ \A i \in 1 .. n : \A v \in V : G[<<i, v>>] \in V
      /\ \A s \in SUBSET (1 .. n) : s # {} /\ g[s \ {Max(s)}] \in V => g[s] = G[<<Max(s), g[s \ {Max(s)}]>>]
  BY DEF FoldsIn
<1>1. PICK e : e = [k \in 0 .. n |-> g[1 .. k]]
  OBVIOUS
<1>2. e[0] = b
  BY <1>0, <1>1, FirstNumbers
<1>3. ASSUME NEW k \in 1 .. n, e[k - 1] \in V
      PROVE  e[k] = G[<<k, e[k - 1]>>] /\ e[k] \in V
  <2>1. 1 .. k \in SUBSET (1 .. n) /\ 1 .. k # {} /\ Max(1 .. k) = k /\ (1 .. k) \ {k} = 1 .. k - 1
    BY FirstNumbers
  <2>2. e[k - 1] = g[1 .. k - 1] /\ e[k] = g[1 .. k]
    BY <1>1
  <2>3. g[1 .. k] = G[<<k, g[1 .. k - 1]>>]
    BY <1>0, <1>3, <2>1, <2>2, Zenon
  <2> QED
    BY <1>0, <1>3, <2>2, <2>3
<1>4. \A k \in 0 .. n : e[k] \in V
  <2> TAKE k \in 0 .. n
  <2>1. PICK T : T = {m \in 0 .. n : e[m] \in V}
    OBVIOUS
  <2>2. 0 \in T
    BY <1>0, <1>2, <2>1
  <2>3. ASSUME NEW m \in 0 .. k - 1, m \in T
        PROVE  m + 1 \in T
    <3>1. m + 1 \in 1 .. n /\ m + 1 \in 0 .. n /\ (m + 1) - 1 = m /\ e[m] \in V
      BY <2>1, <2>3
    <3>2. e[m + 1] \in V
      BY <1>3, <3>1
    <3> QED
      BY <2>1, <3>1, <3>2
  <2>4. k \in T
    BY <2>2, <2>3, UpTo
  <2> QED
    BY <2>1, <2>4
<1>5. e \in [0 .. n -> V]
  BY <1>1, <1>4
<1>6. \A k \in 1 .. n : e[k] = G[<<k, e[k - 1]>>]
  <2>1. \A k \in 1 .. n : k - 1 \in 0 .. n
    OBVIOUS
  <2> QED
    BY <1>3, <1>4, <2>1
<1>7. g[1 .. n] = e[n]
  <2>1. n \in 0 .. n
    OBVIOUS
  <2> QED
    BY <1>1, <2>1
<1> QED
  BY <1>2, <1>5, <1>6, <1>7 DEF StepsWith

\* Total adds one weight after the other.
Adds(g, x, n) ==
    /\ g[0] = 0
    /\ \A k \in 0 .. n : g[k] \in Int
    /\ \A k \in 1 .. n : g[k] = g[k - 1] + x[k]

LEMMA TotalAdds ==
    ASSUME NEW n \in Nat, NEW x \in [1 .. n -> Int]
    PROVE  \E g : Adds(g, x, n) /\ Total(x) = g[n]
<1> DEFINE Do(i, v) == v + x[i]
           IsFold(f) == f = [s \in SUBSET (1 .. n) |-> IF s = {} THEN 0 ELSE Do(Max(s), f[s \ {Max(s)}])]
<1>1. Total(x) = (CHOOSE f : IsFold(f))[1 .. n]
  <2>1. DOMAIN x = 1 .. n
    OBVIOUS
  <2> QED
    BY <2>1, Zenon DEF Total, FoldLeft, MapThenFoldSet
<1>2. PICK V : V = Int
  OBVIOUS
<1>3. PICK G : G = [y \in (1 .. n) \X V |-> Do(y[1], y[2])]
  OBVIOUS
<1>4. 0 \in V /\ \A i \in 1 .. n : \A v \in V : G[<<i, v>>] = Do(i, v) /\ G[<<i, v>>] \in V
  BY <1>2, <1>3
<1>5. \E f : IsFold(f)
  <2> HIDE DEF Do
  <2>1. PICK h : FoldsWith(h, 1 .. n, V, 0, G)
    <3>1. 0 \in V /\ \A i \in 1 .. n : \A v \in V : G[<<i, v>>] \in V
      BY <1>4
    <3> HIDE DEF IsFold
    <3> QED
      BY <3>1, FoldFromOne
  <2>2. ASSUME NEW s \in SUBSET (1 .. n), s # {}
        PROVE  h[s] = Do(Max(s), h[s \ {Max(s)}])
    <3>1. Max(s) \in 1 .. n /\ s \ {Max(s)} \in SUBSET (1 .. n)
      BY <2>2, MaxOfFirst
    <3>2. h[s \ {Max(s)}] \in V /\ h[s] = G[<<Max(s), h[s \ {Max(s)}]>>]
      BY <2>1, <2>2, <3>1, Zenon DEF FoldsWith
    <3> QED
      BY <1>4, <3>1, <3>2
  <2>3. h = [s \in SUBSET (1 .. n) |-> h[s]] /\ h[{}] = 0
    BY <2>1, Zenon DEF FoldsWith
  <2>4. IsFold(h)
    BY <2>2, <2>3
  <2> QED
    BY <2>4
<1>6. PICK g : IsFold(g) /\ Total(x) = g[1 .. n]
  <2> HIDE DEF IsFold
  <2> QED
    BY <1>1, <1>5
<1>7. PICK e : StepsWith(e, n, V, 0, G) /\ g[1 .. n] = e[n]
  <2> HIDE DEF Do
  <2>1. g[{}] = 0 /\ \A s \in SUBSET (1 .. n) : s # {} => g[s] = Do(Max(s), g[s \ {Max(s)}])
    BY <1>6
  <2> HIDE DEF IsFold
  <2>2. ASSUME NEW s \in SUBSET (1 .. n), s # {}, g[s \ {Max(s)}] \in V
        PROVE  g[s] = G[<<Max(s), g[s \ {Max(s)}]>>]
    <3>1. Max(s) \in 1 .. n
      BY <2>2, MaxOfFirst
    <3> QED
      BY <1>4, <2>1, <2>2, <3>1
  <2>3. FoldsIn(g, n, V, 0, G)
    BY <1>4, <2>1, <2>2 DEF FoldsIn
  <2> QED
    BY <2>3, FoldInSteps
<1>8. \A k \in 1 .. n : e[k] = Do(k, e[k - 1])
  <2>1. \A k \in 1 .. n : k - 1 \in 0 .. n
    OBVIOUS
  <2>2. /\ \A k \in 0 .. n : e[k] \in V
        /\ \A k \in 1 .. n : e[k] = G[<<k, e[k - 1]>>]
    BY <1>7 DEF StepsWith
  <2> HIDE DEF Do
  <2> QED
    BY <1>4, <2>1, <2>2
<1>9. /\ \A k \in 0 .. n : e[k] \in V
      /\ e[0] = 0 /\ Total(x) = e[n]
  BY <1>6, <1>7 DEF StepsWith
<1> QED
  BY <1>2, <1>8, <1>9 DEF Adds

\* One delay after the other is appended to those before it.
NextDelays(backoff, maxDuration, delays) ==
    Append(delays, IF delays = <<>> THEN backoff.base ELSE NextDelay(Last(delays), backoff.cap, maxDuration))

Delays(e, n, backoff, max) ==
    /\ e[0] = <<>> /\ \A k \in 0 .. n : e[k] \in Seq(Int)
    /\ \A k \in 1 .. n : e[k] = NextDelays(backoff, max, e[k - 1])

LEMMA DelaysGrow ==
    ASSUME NEW n \in Nat, NEW backoff, backoff.base \in Int, backoff.cap \in Int, NEW max \in Nat
    PROVE  \E e : Delays(e, n, backoff, max) /\ BuildBackoffDelays(backoff, n + 1, max) = e[n]
<1> DEFINE Do(i, v) == NextDelays(backoff, max, v)
           IsFold(f) == f = [s \in SUBSET (1 .. n) |-> IF s = {} THEN <<>> ELSE Do(Max(s), f[s \ {Max(s)}])]
<1>1. BuildBackoffDelays(backoff, n + 1, max) = (CHOOSE f : IsFold(f))[1 .. n]
  <2>1. BuildBackoffDelays(backoff, n + 1, max)
          = FoldLeft(LAMBDA delays, k : NextDelays(backoff, max, delays), <<>>, [k \in 1 .. n |-> k])
    <3>1. (n + 1) - 1 = n
      OBVIOUS
    <3>2. [k \in 1 .. (n + 1) - 1 |-> k] = [k \in 1 .. n |-> k]
      BY <3>1
    <3> QED
      BY <3>2, Zenon DEF BuildBackoffDelays, NextDelays
  <2>2. DOMAIN [k \in 1 .. n |-> k] = 1 .. n
    OBVIOUS
  <2> QED
    BY <2>1, <2>2, Zenon DEF FoldLeft, MapThenFoldSet
<1>2. PICK V : V = Seq(Int)
  OBVIOUS
<1>3. PICK G : G = [y \in (1 .. n) \X V |-> Do(y[1], y[2])]
  OBVIOUS
<1>4. <<>> \in V /\ \A i \in 1 .. n : \A v \in V : G[<<i, v>>] = Do(i, v) /\ G[<<i, v>>] \in V
  <2>1. <<>> \in V
    BY <1>2
  <2>2. ASSUME NEW v \in V
        PROVE  NextDelays(backoff, max, v) \in V
    <3>1. v \in Seq(Int)
      BY <1>2
    <3>2. v # <<>> => Last(v) \in Int
      BY <3>1 DEF Last
    <3>3. v # <<>> => NextDelay(Last(v), backoff.cap, max) \in Int
      BY <3>2 DEF NextDelay, Twice
    <3> QED
      BY <1>2, <3>1, <3>3 DEF NextDelays
  <2> QED
    BY <1>3, <2>1, <2>2
<1>5. \E f : IsFold(f)
  <2> HIDE DEF Do
  <2>1. PICK h : FoldsWith(h, 1 .. n, V, <<>>, G)
    <3>1. <<>> \in V /\ \A i \in 1 .. n : \A v \in V : G[<<i, v>>] \in V
      BY <1>4
    <3> HIDE DEF IsFold
    <3> QED
      BY <3>1, FoldFromOne
  <2>2. ASSUME NEW s \in SUBSET (1 .. n), s # {}
        PROVE  h[s] = Do(Max(s), h[s \ {Max(s)}])
    <3>1. Max(s) \in 1 .. n /\ s \ {Max(s)} \in SUBSET (1 .. n)
      BY <2>2, MaxOfFirst
    <3>2. h[s \ {Max(s)}] \in V /\ h[s] = G[<<Max(s), h[s \ {Max(s)}]>>]
      BY <2>1, <2>2, <3>1, Zenon DEF FoldsWith
    <3> QED
      BY <1>4, <3>1, <3>2
  <2>3. h = [s \in SUBSET (1 .. n) |-> h[s]] /\ h[{}] = <<>>
    BY <2>1, Zenon DEF FoldsWith
  <2>4. IsFold(h)
    BY <2>2, <2>3
  <2> QED
    BY <2>4
<1>6. PICK g : IsFold(g) /\ BuildBackoffDelays(backoff, n + 1, max) = g[1 .. n]
  <2> HIDE DEF IsFold
  <2> QED
    BY <1>1, <1>5
<1>7. PICK e : StepsWith(e, n, V, <<>>, G) /\ g[1 .. n] = e[n]
  <2> HIDE DEF Do
  <2>1. g[{}] = <<>> /\ \A s \in SUBSET (1 .. n) : s # {} => g[s] = Do(Max(s), g[s \ {Max(s)}])
    BY <1>6
  <2> HIDE DEF IsFold
  <2>2. ASSUME NEW s \in SUBSET (1 .. n), s # {}, g[s \ {Max(s)}] \in V
        PROVE  g[s] = G[<<Max(s), g[s \ {Max(s)}]>>]
    <3>1. Max(s) \in 1 .. n
      BY <2>2, MaxOfFirst
    <3> QED
      BY <1>4, <2>1, <2>2, <3>1
  <2>3. FoldsIn(g, n, V, <<>>, G)
    BY <1>4, <2>1, <2>2 DEF FoldsIn
  <2> QED
    BY <2>3, FoldInSteps
<1>8. \A k \in 1 .. n : e[k] = Do(k, e[k - 1])
  <2>1. \A k \in 1 .. n : k - 1 \in 0 .. n
    OBVIOUS
  <2>2. /\ \A k \in 0 .. n : e[k] \in V
        /\ \A k \in 1 .. n : e[k] = G[<<k, e[k - 1]>>]
    BY <1>7 DEF StepsWith
  <2> HIDE DEF Do
  <2> QED
    BY <1>4, <2>1, <2>2
<1>9. /\ \A k \in 0 .. n : e[k] \in V
      /\ e[0] = <<>> /\ BuildBackoffDelays(backoff, n + 1, max) = e[n]
  BY <1>6, <1>7 DEF StepsWith
<1> QED
  BY <1>2, <1>8, <1>9 DEF Delays

\* The target with the highest score is one of the targets.
LEMMA FirstHighestIs ==
    ASSUME NEW n \in Nat \ {0}, NEW x \in [1 .. n -> Int]
    PROVE  FirstHighest(x) \in 1 .. n /\ \A j \in 1 .. n : x[FirstHighest(x)] >= x[j]
<1> DEFINE Best(i, m) == i \in 1 .. m /\ \A j \in 1 .. m : x[i] > x[j] \/ (x[i] = x[j] /\ i <= j)
<1>1. PICK T : T = {m \in 0 .. n : m = 0 \/ \E i \in 1 .. m : Best(i, m)}
  OBVIOUS
<1>2. ASSUME NEW m \in 0 .. n - 1, m \in T
      PROVE  m + 1 \in T
  <2>1. m + 1 \in 0 .. n /\ m + 1 \in 1 .. n /\ \A j \in 1 .. m + 1 : j = m + 1 \/ j \in 1 .. m
    OBVIOUS
  <2>2. CASE m = 0
    <3>1. Best(1, 1)
      OBVIOUS
    <3> QED
      BY <1>1, <2>1, <2>2, <3>1
  <2>3. CASE m # 0
    <3>1. PICK i \in 1 .. m : Best(i, m)
      BY <1>1, <1>2, <2>3
    <3>2. \A j \in 1 .. m + 1 : x[j] \in Int
      BY <2>1
    <3>3. CASE x[m + 1] > x[i]
      <4>1. Best(m + 1, m + 1)
        BY <2>1, <3>1, <3>2, <3>3
      <4> QED
        BY <1>1, <2>1, <4>1
    <3>4. CASE ~ (x[m + 1] > x[i])
      <4>1. ASSUME NEW j \in 1 .. m + 1
            PROVE  x[i] > x[j] \/ (x[i] = x[j] /\ i <= j)
        <5>1. CASE j \in 1 .. m
          BY <3>1, <5>1
        <5>2. CASE j = m + 1
          <6>1. x[i] \in Int /\ x[j] \in Int /\ i \in Int /\ i <= j /\ ~ (x[j] > x[i])
            BY <3>1, <3>2, <3>4, <5>2
          <6> QED
            BY <6>1
        <5> QED
          BY <2>1, <5>1, <5>2
      <4>2. Best(i, m + 1)
        BY <3>1, <4>1
      <4> QED
        BY <1>1, <2>1, <3>1, <4>2
    <3> QED
      BY <3>3, <3>4
  <2> QED
    BY <2>2, <2>3
<1>3. n \in T
  <2>1. 0 \in T
    BY <1>1
  <2> QED
    BY <1>2, <2>1, UpTo
<1>4. PICK i \in 1 .. n : Best(i, n)
  BY <1>1, <1>3
<1>5. PICK b : b = FirstHighest(x)
  OBVIOUS
<1>6. b \in DOMAIN x /\ \A j \in DOMAIN x : x[b] > x[j] \/ (x[b] = x[j] /\ b <= j)
  <2>1. DOMAIN x = 1 .. n
    OBVIOUS
  <2>2. \E k \in DOMAIN x : \A j \in DOMAIN x : x[k] > x[j] \/ (x[k] = x[j] /\ k <= j)
    BY <1>4, <2>1
  <2> QED
    BY <1>5, <2>2, Zenon DEF FirstHighest
<1> QED
  BY <1>5, <1>6

\* The scores of m targets, and the slots that are taken.
States(m) == [score : [1 .. m -> Int], schedule : Seq(Int)]

Slots(e, n, w, m) ==
    /\ e[0] = [score |-> [i \in DOMAIN w |-> 0], schedule |-> <<>>]
    /\ \A k \in 0 .. n : e[k] \in States(m)
    /\ \A k \in 1 .. n : e[k] = TakeSlot(e[k - 1], w)

\* Slot after slot is taken, of as many as the weights sum up to.
LEMMA ScheduleGrows ==
    ASSUME NEW w, NEW m \in Nat \ {0}, w \in [1 .. m -> Int], NEW n \in Nat, Total(w) = n
    PROVE  \E e : Slots(e, n, w, m) /\ BuildTargetSchedule(w) = e[n].schedule
<1>0. PICK b : b = [score |-> [i \in DOMAIN w |-> 0], schedule |-> <<>>]
  OBVIOUS
<1> DEFINE built == FoldLeft(LAMBDA state, k : TakeSlot(state, w), b, [k \in 1 .. n |-> k])
<1> DEFINE Do(i, v) == TakeSlot(v, w)
           IsFold(f) == f = [s \in SUBSET (1 .. n) |-> IF s = {} THEN b ELSE Do(Max(s), f[s \ {Max(s)}])]
<1>1. built = (CHOOSE f : IsFold(f))[1 .. n]
  <2>1. DOMAIN [k \in 1 .. n |-> k] = 1 .. n
    OBVIOUS
  <2> QED
    BY <2>1, Zenon DEF FoldLeft, MapThenFoldSet
<1>2. PICK V : V = States(m)
  OBVIOUS
<1>3. PICK G : G = [y \in (1 .. n) \X V |-> Do(y[1], y[2])]
  OBVIOUS
<1>4. b \in V /\ \A i \in 1 .. n : \A v \in V : G[<<i, v>>] = Do(i, v) /\ G[<<i, v>>] \in V
  <2>1. b \in V
    BY <1>0, <1>2 DEF States
  <2>2. ASSUME NEW v \in V
        PROVE  TakeSlot(v, w) \in V
    <3>1. v.score \in [1 .. m -> Int] /\ v.schedule \in Seq(Int)
      BY <1>2 DEF States
    <3>2. PICK r : r = [i \in DOMAIN w |-> v.score[i] + w[i]]
      OBVIOUS
    <3>3. r \in [1 .. m -> Int]
      BY <3>1, <3>2
    <3>4. PICK s : s = FirstHighest(r)
      OBVIOUS
    <3>5. s \in 1 .. m
      BY <3>3, <3>4, FirstHighestIs
    <3>6. TakeSlot(v, w) = [score |-> [r EXCEPT ![s] = @ - n], schedule |-> Append(v.schedule, s - 1)]
      BY <3>2, <3>4 DEF TakeSlot
    <3> QED
      BY <1>2, <3>1, <3>3, <3>5, <3>6 DEF States
  <2> HIDE DEF built, IsFold
  <2> QED
    BY <1>3, <2>1, <2>2
<1>5. \E f : IsFold(f)
  <2> HIDE DEF Do
  <2>1. PICK h : FoldsWith(h, 1 .. n, V, b, G)
    <3>1. b \in V /\ \A i \in 1 .. n : \A v \in V : G[<<i, v>>] \in V
      BY <1>4
    <3> HIDE DEF IsFold
    <3> QED
      BY <3>1, FoldFromOne
  <2>2. ASSUME NEW s \in SUBSET (1 .. n), s # {}
        PROVE  h[s] = Do(Max(s), h[s \ {Max(s)}])
    <3>1. Max(s) \in 1 .. n /\ s \ {Max(s)} \in SUBSET (1 .. n)
      BY <2>2, MaxOfFirst
    <3>2. h[s \ {Max(s)}] \in V /\ h[s] = G[<<Max(s), h[s \ {Max(s)}]>>]
      BY <2>1, <2>2, <3>1, Zenon DEF FoldsWith
    <3> QED
      BY <1>4, <3>1, <3>2
  <2>3. h = [s \in SUBSET (1 .. n) |-> h[s]] /\ h[{}] = b
    BY <2>1, Zenon DEF FoldsWith
  <2>4. IsFold(h)
    BY <2>2, <2>3
  <2> QED
    BY <2>4
<1>6. PICK g : IsFold(g) /\ built = g[1 .. n]
  <2> HIDE DEF IsFold
  <2> QED
    BY <1>1, <1>5
<1>7. PICK e : StepsWith(e, n, V, b, G) /\ g[1 .. n] = e[n]
  <2> HIDE DEF Do
  <2>1. g[{}] = b /\ \A s \in SUBSET (1 .. n) : s # {} => g[s] = Do(Max(s), g[s \ {Max(s)}])
    BY <1>6
  <2> HIDE DEF IsFold
  <2>2. ASSUME NEW s \in SUBSET (1 .. n), s # {}, g[s \ {Max(s)}] \in V
        PROVE  g[s] = G[<<Max(s), g[s \ {Max(s)}]>>]
    <3>1. Max(s) \in 1 .. n
      BY <2>2, MaxOfFirst
    <3> QED
      BY <1>4, <2>1, <2>2, <3>1
  <2>3. FoldsIn(g, n, V, b, G)
    BY <1>4, <2>1, <2>2 DEF FoldsIn
  <2> QED
    BY <2>3, FoldInSteps
<1>8. \A k \in 1 .. n : e[k] = Do(k, e[k - 1])
  <2>1. \A k \in 1 .. n : k - 1 \in 0 .. n
    OBVIOUS
  <2>2. /\ \A k \in 0 .. n : e[k] \in V
        /\ \A k \in 1 .. n : e[k] = G[<<k, e[k - 1]>>]
    BY <1>7 DEF StepsWith
  <2> HIDE DEF Do
  <2> QED
    BY <1>4, <2>1, <2>2
<1>9. /\ \A k \in 0 .. n : e[k] \in V
      /\ e[0] = b /\ built = e[n]
  BY <1>6, <1>7 DEF StepsWith
<1>10. BuildTargetSchedule(w) = built.schedule
  BY <1>0, Zenon DEF BuildTargetSchedule
<1> HIDE DEF built
<1> QED
  BY <1>0, <1>2, <1>8, <1>9, <1>10 DEF Slots

-----------------------------------------------------------------------------
(* The delays between attempts.                                            *)

\* base doubled j - 1 times, but not beyond the cap.
Capped(backoff, j) ==
    IF backoff.base * 2^(j - 1) < backoff.cap THEN backoff.base * 2^(j - 1) ELSE backoff.cap

\* Neither is longer than the longest duration.
Fits(backoff, max) == {backoff.base, backoff.cap} \subseteq 1 .. max /\ backoff.cap >= backoff.base

\* NextDelay doubles without wrapping around.
LEMMA NextIsCapped ==
    ASSUME NEW max \in Nat, NEW backoff, Fits(backoff, max),
           NEW k \in Nat \ {0}
    PROVE  /\ Capped(backoff, 1) = backoff.base
           /\ NextDelay(Capped(backoff, k), backoff.cap, max) = Capped(backoff, k + 1)
<1>1. PICK base, cap : base = backoff.base /\ cap = backoff.cap
  OBVIOUS
<1>2. base \in 1 .. max /\ cap \in 1 .. max /\ cap >= base
  BY <1>1 DEF Fits
<1>3. Capped(backoff, 1) = base
  <2>1. 2^(1 - 1) = 1
    BY PowersOfTwo
  <2>2. base * 2^(1 - 1) = base
    BY <1>2, <2>1
  <2> QED
    BY <1>1, <1>2, <2>2 DEF Capped
<1>4. PICK p, q : p = 2^(k - 1) /\ q = 2^((k + 1) - 1)
  OBVIOUS
<1>5. p \in Nat \ {0} /\ q = 2 * p
  <2>1. k - 1 \in Nat /\ (k + 1) - 1 = (k - 1) + 1
    OBVIOUS
  <2> QED
    BY <1>4, <2>1, PowersOfTwo
<1>6. PICK x : x = base * p
  OBVIOUS
<1>7. x \in Nat /\ base * q = 2 * x
  BY <1>2, <1>5, <1>6
<1>8. /\ Capped(backoff, k) = IF x < cap THEN x ELSE cap
      /\ Capped(backoff, k + 1) = IF 2 * x < cap THEN 2 * x ELSE cap
  BY <1>1, <1>4, <1>6, <1>7 DEF Capped
<1>9. NextDelay(IF x < cap THEN x ELSE cap, cap, max) = IF 2 * x < cap THEN 2 * x ELSE cap
  <2>1. CASE x >= cap
    BY <1>2, <1>7, <2>1 DEF NextDelay
  <2>2. CASE x < cap /\ x > cap \div 2
    BY <1>2, <1>7, <2>2 DEF NextDelay
  <2>3. CASE x < cap /\ ~ (x > cap \div 2)
    <3>1. 2 * x <= cap
      BY <1>2, <1>7, <2>3
    <3> QED
      BY <1>2, <1>7, <2>3, <3>1 DEF NextDelay, Twice
  <2> QED
    BY <1>2, <1>7, <2>1, <2>2, <2>3
<1> QED
  BY <1>1, <1>3, <1>8, <1>9

\* So every delay of a table is the capped one.
LEMMA DelaysAreCapped ==
    ASSUME NEW max \in Nat, NEW backoff, Fits(backoff, max),
           NEW tries \in Nat \ {0}, NEW delays, delays = BuildBackoffDelays(backoff, tries, max)
    PROVE  Len(delays) = tries - 1 /\ DOMAIN delays = 1 .. tries - 1
           /\ \A k \in DOMAIN delays : delays[k] = Capped(backoff, k)
<1> DEFINE n == tries - 1
<1>1. n \in Nat /\ n + 1 = tries
  OBVIOUS
<1>2. PICK e : /\ e[0] = <<>> /\ \A k \in 0 .. n : e[k] \in Seq(Int)
               /\ \A k \in 1 .. n : e[k] = NextDelays(backoff, max, e[k - 1])
               /\ delays = e[n]
  <2>1. backoff.base \in Int /\ backoff.cap \in Int
    BY DEF Fits
  <2>2. delays = BuildBackoffDelays(backoff, n + 1, max)
    BY <1>1
  <2> HIDE DEF n
  <2>3. PICK e : Delays(e, n, backoff, max) /\ BuildBackoffDelays(backoff, n + 1, max) = e[n]
    BY <1>1, <2>1, DelaysGrow
  <2> QED
    BY <2>2, <2>3 DEF Delays
<1> DEFINE Good(k) == Len(e[k]) = k /\ \A j \in 1 .. k : e[k][j] = Capped(backoff, j)
<1>3. PICK T : T = {k \in 0 .. n : Good(k)}
  OBVIOUS
<1>4. 0 \in T
  BY <1>1, <1>2, <1>3
<1>5. ASSUME NEW k \in 0 .. n - 1, k \in T
      PROVE  k + 1 \in T
  <2>1. k + 1 \in 1 .. n /\ k \in 0 .. n /\ k + 1 \in 0 .. n /\ (k + 1) - 1 = k
    BY <1>1
  <2>2. Good(k)
    BY <1>3, <1>5
  <2>3. e[k + 1] = NextDelays(backoff, max, e[k]) /\ e[k] \in Seq(Int)
    BY <1>2, <2>1
  <2>4. PICK d : e[k + 1] = Append(e[k], d) /\ d = IF e[k] = <<>> THEN backoff.base ELSE NextDelay(Last(e[k]), backoff.cap, max)
    BY <2>3 DEF NextDelays
  <2>5. d = Capped(backoff, k + 1)
    <3>1. CASE k = 0
      <4>1. e[k] = <<>>
        BY <1>2, <3>1
      <4> QED
        BY <2>4, <3>1, <4>1, NextIsCapped
    <3>2. CASE k # 0
      <4>1. e[k] # <<>> /\ Last(e[k]) = Capped(backoff, k) /\ k \in Nat \ {0}
        BY <2>1, <2>2, <2>3, <3>2 DEF Last
      <4>2. d = NextDelay(Capped(backoff, k), backoff.cap, max)
        BY <2>4, <4>1
      <4> QED
        BY <4>1, <4>2, NextIsCapped
    <3> QED
      BY <3>1, <3>2
  <2>6. d \in Int
    <3>1. e[k + 1] \in Seq(Int) /\ Len(e[k + 1]) = k + 1 /\ e[k + 1][k + 1] = d
      <4>1. e[k + 1] \in Seq(Int)
        BY <1>2, <2>1
      <4> QED
        BY <2>2, <2>3, <2>4, <4>1, Appended DEF Sequence
    <3> QED
      BY <2>1, <3>1
  <2>7. Good(k + 1)
    <3>1. /\ Len(e[k + 1]) = k + 1 /\ e[k + 1][k + 1] = d
          /\ \A j \in 1 .. k : e[k + 1][j] = e[k][j]
      BY <2>2, <2>3, <2>4, <2>6
    <3>2. \A j \in 1 .. k + 1 : j \in 1 .. k \/ j = k + 1
      BY <2>1
    <3> QED
      BY <2>2, <2>5, <3>1, <3>2
  <2> QED
    BY <1>3, <2>1, <2>7
<1>6. n \in T
  BY <1>1, <1>4, <1>5, UpTo
<1>7. Good(n) /\ delays = e[n] /\ delays \in Seq(Int)
  BY <1>1, <1>2, <1>3, <1>6
<1> QED
  BY <1>1, <1>7

\* The k-th delay between attempts is base doubled k - 1 times, or the cap if
\* that is less, and doubling never wraps (buildBackoffDelays), however many
\* attempts there are and however close to the longest duration the cap is.
THEOREM BackoffsFollowCap == Spec => []BackoffFollowsCap
<1>1. LoadedInv /\ BuiltInv => BackoffFollowsCap
  <2> SUFFICES ASSUME LoadedInv, BuiltInv, NEW name \in DOMAIN backends,
                      IsSet(config.backends[name].retry), IsSet(config.backends[name].retry.backoff)
               PROVE  /\ Len(backends[name].backoff) = backends[name].tries - 1
                      /\ \A k \in DOMAIN backends[name].backoff :
                             backends[name].backoff[k] = Capped(config.backends[name].retry.backoff, k)
    BY DEF BackoffFollowsCap, Capped
  <2>1. PICK b, built, read : /\ b = config.backends[name] /\ built = backends[name]
                              /\ AcceptsBackend(b) /\ built = NewBackend(b, read)
    BY DEF BuiltInv
  <2>2. config \in Configs /\ name \in DOMAIN config.backends
    BY DEF LoadedInv, BuiltInv
  <2>3. PICK backoff : backoff = b.retry.backoff
    OBVIOUS
  <2>4. Fits(backoff, MaxDuration) /\ EffectiveTries(b) \in Nat \ {0}
    BY <2>1, <2>2, <2>3, BackendDecoded DEF Fits
  <2>5. built.tries = EffectiveTries(b) /\ built.backoff = BuildBackoffDelays(backoff, EffectiveTries(b), MaxDuration)
    BY <2>1, <2>3 DEF NewBackend
  <2>6. MaxDuration \in Nat
    BY ConfigAssumption
  <2>7. /\ Len(built.backoff) = built.tries - 1
        /\ \A k \in DOMAIN built.backoff : built.backoff[k] = Capped(backoff, k)
    <3>1. PICK tries \in Nat \ {0} : tries = EffectiveTries(b)
      BY <2>4
    <3>2. PICK delays : delays = BuildBackoffDelays(backoff, tries, MaxDuration)
      OBVIOUS
    <3>3. Len(delays) = tries - 1 /\ \A k \in DOMAIN delays : delays[k] = Capped(backoff, k)
      BY <2>4, <2>6, <3>2, DelaysAreCapped
    <3>4. built.backoff = delays /\ built.tries = tries
      BY <2>5, <3>1, <3>2
    <3> QED
      BY <3>3, <3>4
  <2> QED
    BY <2>1, <2>3, <2>7
<1> QED
  BY <1>1, BuiltInvariance, PTL

-----------------------------------------------------------------------------
(* The sum of weights.                                                     *)

\* Two sequences are added up by adding their numbers.
LEMMA TotalOfSum ==
    ASSUME NEW n \in Nat, NEW x \in [1 .. n -> Int], NEW y \in [1 .. n -> Int], NEW z \in [1 .. n -> Int],
           \A i \in 1 .. n : z[i] = x[i] + y[i]
    PROVE  Total(x) \in Int /\ Total(y) \in Int /\ Total(z) = Total(x) + Total(y)
<1>1. PICK f : Adds(f, x, n) /\ Total(x) = f[n]
  BY TotalAdds
<1>2. PICK g : Adds(g, y, n) /\ Total(y) = g[n]
  BY TotalAdds
<1>3. PICK h : Adds(h, z, n) /\ Total(z) = h[n]
  BY TotalAdds
<1>4. PICK T : T = {k \in 0 .. n : h[k] = f[k] + g[k]}
  OBVIOUS
<1>5. 0 \in T
  BY <1>1, <1>2, <1>3, <1>4 DEF Adds
<1>6. ASSUME NEW k \in 0 .. n - 1, k \in T
      PROVE  k + 1 \in T
  <2>1. k + 1 \in 1 .. n /\ k + 1 \in 0 .. n /\ (k + 1) - 1 = k /\ k \in 0 .. n
    OBVIOUS
  <2>2. f[k] \in Int /\ g[k] \in Int /\ x[k + 1] \in Int /\ y[k + 1] \in Int
    BY <1>1, <1>2, <2>1 DEF Adds
  <2>3. f[k + 1] = f[k] + x[k + 1] /\ g[k + 1] = g[k] + y[k + 1] /\ h[k + 1] = h[k] + z[k + 1]
    BY <1>1, <1>2, <1>3, <2>1 DEF Adds
  <2>4. h[k + 1] = f[k + 1] + g[k + 1]
    BY <1>4, <1>6, <2>1, <2>2, <2>3
  <2> QED
    BY <1>4, <2>1, <2>4
<1>7. n \in T
  BY <1>5, <1>6, UpTo
<1>8. n \in 0 .. n
  OBVIOUS
<1> QED
  BY <1>1, <1>2, <1>3, <1>4, <1>7, <1>8 DEF Adds

\* Of sequences no number of which is greater, the sum is not, and if it is the
\* same then all the numbers are.
LEMMA TotalOrdered ==
    ASSUME NEW n \in Nat, NEW x \in [1 .. n -> Int], NEW y \in [1 .. n -> Int], \A i \in 1 .. n : x[i] <= y[i]
    PROVE  /\ Total(x) <= Total(y)
           /\ Total(x) = Total(y) => \A i \in 1 .. n : x[i] = y[i]
<1>1. PICK f : Adds(f, x, n) /\ Total(x) = f[n]
  BY TotalAdds
<1>2. PICK g : Adds(g, y, n) /\ Total(y) = g[n]
  BY TotalAdds
<1>3. PICK T : T = {k \in 0 .. n : f[k] <= g[k] /\ \A i \in 1 .. k : x[i] < y[i] => f[k] < g[k]}
  OBVIOUS
<1>4. 0 \in T
  BY <1>1, <1>2, <1>3 DEF Adds
<1>5. ASSUME NEW k \in 0 .. n - 1, k \in T
      PROVE  k + 1 \in T
  <2>1. k + 1 \in 1 .. n /\ k + 1 \in 0 .. n /\ (k + 1) - 1 = k /\ k \in 0 .. n
    OBVIOUS
  <2>2. f[k] \in Int /\ g[k] \in Int /\ x[k + 1] \in Int /\ y[k + 1] \in Int /\ x[k + 1] <= y[k + 1]
    BY <1>1, <1>2, <2>1 DEF Adds
  <2>3. f[k + 1] = f[k] + x[k + 1] /\ g[k + 1] = g[k] + y[k + 1]
    BY <1>1, <1>2, <2>1 DEF Adds
  <2>4. f[k] <= g[k] /\ \A i \in 1 .. k : x[i] < y[i] => f[k] < g[k]
    BY <1>3, <1>5
  <2>5. f[k + 1] <= g[k + 1]
    BY <2>2, <2>3, <2>4
  <2>6. ASSUME NEW i \in 1 .. k + 1, x[i] < y[i]
        PROVE  f[k + 1] < g[k + 1]
    <3>1. CASE i = k + 1
      BY <2>2, <2>3, <2>4, <2>6, <3>1
    <3>2. CASE i # k + 1
      <4>1. i \in 1 .. k
        BY <2>1, <3>2
      <4>2. f[k] < g[k]
        BY <2>4, <2>6, <4>1
      <4> QED
        BY <2>2, <2>3, <4>2
    <3> QED
      BY <3>1, <3>2
  <2> QED
    BY <1>3, <2>1, <2>5, <2>6
<1>6. n \in T
  BY <1>4, <1>5, UpTo
<1>7. f[n] <= g[n] /\ \A i \in 1 .. n : x[i] < y[i] => f[n] < g[n]
  BY <1>3, <1>6
<1>8. f[n] \in Int /\ g[n] \in Int
  BY <1>1, <1>2 DEF Adds
<1>9. ASSUME Total(x) = Total(y), NEW i \in 1 .. n
      PROVE  x[i] = y[i]
  <2>1. ~ (f[n] < g[n])
    BY <1>1, <1>2, <1>8, <1>9
  <2>2. ~ (x[i] < y[i])
    BY <1>7, <2>1
  <2>3. x[i] \in Int /\ y[i] \in Int /\ x[i] <= y[i]
    OBVIOUS
  <2> QED
    BY <2>2, <2>3
<1> QED
  BY <1>1, <1>2, <1>7, <1>9

\* One number and nothing else.
Only(m, j, v) == [i \in 1 .. m |-> IF i = j THEN v ELSE 0]

LEMMA TotalOfOne ==
    ASSUME NEW n \in Nat, NEW j \in 1 .. n, NEW v \in Int
    PROVE  Only(n, j, v) \in [1 .. n -> Int] /\ Total(Only(n, j, v)) = v
<1>1. PICK x : x = Only(n, j, v)
  OBVIOUS
<1>2. x \in [1 .. n -> Int] /\ x[j] = v /\ \A i \in 1 .. n : i # j => x[i] = 0
  BY <1>1 DEF Only
<1>3. PICK f : Adds(f, x, n) /\ Total(x) = f[n]
  BY <1>2, TotalAdds
<1>4. PICK T : T = {k \in 0 .. n : f[k] = IF k < j THEN 0 ELSE v}
  OBVIOUS
<1>5. 0 \in T
  BY <1>3, <1>4 DEF Adds
<1>6. ASSUME NEW k \in 0 .. n - 1, k \in T
      PROVE  k + 1 \in T
  <2>1. k + 1 \in 1 .. n /\ k + 1 \in 0 .. n /\ (k + 1) - 1 = k /\ k \in 0 .. n
    OBVIOUS
  <2>2. f[k + 1] = f[k] + x[k + 1] /\ f[k] = IF k < j THEN 0 ELSE v
    BY <1>3, <1>4, <1>6, <2>1 DEF Adds
  <2>3. CASE k + 1 = j
    BY <1>2, <1>4, <2>1, <2>2, <2>3
  <2>4. CASE k + 1 # j
    <3>1. x[k + 1] = 0
      BY <1>2, <2>1, <2>4
    <3> QED
      BY <1>4, <2>1, <2>2, <2>4, <3>1
  <2> QED
    BY <2>3, <2>4
<1>7. n \in T
  BY <1>5, <1>6, UpTo
<1> QED
  BY <1>1, <1>2, <1>3, <1>4, <1>7

\* Nothing at all.
LEMMA TotalOfNone ==
    ASSUME NEW n \in Nat, NEW x \in [1 .. n -> Int], \A i \in 1 .. n : x[i] = 0
    PROVE  Total(x) = 0
<1>1. \A i \in 1 .. n : x[i] = x[i] + x[i]
  OBVIOUS
<1>2. Total(x) \in Int /\ Total(x) = Total(x) + Total(x)
  BY <1>1, TotalOfSum
<1> QED
  BY <1>2

-----------------------------------------------------------------------------
(* The schedule of first attempts.                                         *)

\* How many of the first k attempts of a schedule are given to target i.
Given(schedule, i, k) == Cardinality({j \in 1 .. k : schedule[j] = i - 1})

\* It is counted one attempt after the other.
LEMMA GivenCounts ==
    ASSUME NEW s, NEW i
    PROVE  /\ Given(s, i, 0) = 0
           /\ \A k \in Nat : /\ Given(s, i, k) \in Nat
                             /\ Given(s, i, k + 1) = Given(s, i, k) + (IF s[k + 1] = i - 1 THEN 1 ELSE 0)
<1>1. Given(s, i, 0) = 0
  <2>1. {j \in 1 .. 0 : s[j] = i - 1} = {}
    OBVIOUS
  <2> QED
    BY <2>1, FS_EmptySet DEF Given
<1>2. ASSUME NEW k \in Nat
      PROVE  /\ Given(s, i, k) \in Nat
             /\ Given(s, i, k + 1) = Given(s, i, k) + (IF s[k + 1] = i - 1 THEN 1 ELSE 0)
  <2>1. PICK S : S = {j \in 1 .. k : s[j] = i - 1}
    OBVIOUS
  <2>2. PICK R : R = {j \in 1 .. k + 1 : s[j] = i - 1}
    OBVIOUS
  <2>3. IsFiniteSet(S) /\ Cardinality(S) \in Nat
    <3>1. IsFiniteSet(1 .. k) /\ S \in SUBSET (1 .. k)
      BY <2>1, FS_Interval
    <3> QED
      BY <3>1, FS_Subset, FS_CardinalityType
  <2>4. k + 1 \notin S /\ \A j \in 1 .. k + 1 : j \in 1 .. k \/ j = k + 1
    BY <2>1
  <2>5. CASE s[k + 1] = i - 1
    <3>1. R = S \cup {k + 1}
      BY <2>1, <2>2, <2>4, <2>5
    <3>2. Cardinality(R) = Cardinality(S) + 1
      BY <2>3, <2>4, <3>1, FS_AddElement
    <3> QED
      BY <2>1, <2>2, <2>3, <2>5, <3>2 DEF Given
  <2>6. CASE s[k + 1] # i - 1
    <3>1. R = S
      BY <2>1, <2>2, <2>4, <2>6
    <3> QED
      BY <2>1, <2>2, <2>3, <2>6, <3>1 DEF Given
  <2> QED
    BY <2>5, <2>6
<1> QED
  BY <1>1, <1>2

\* Only what comes first is counted.
LEMMA GivenOfFirst ==
    ASSUME NEW s, NEW t, NEW k \in Nat, \A j \in 1 .. k : s[j] = t[j], NEW i
    PROVE  Given(s, i, k) = Given(t, i, k)
<1>1. {j \in 1 .. k : s[j] = i - 1} = {j \in 1 .. k : t[j] = i - 1}
  OBVIOUS
<1> QED
  BY <1>1 DEF Given

\* After k slots of rounds that pay n, every score is k times the weight less
\* what the target has paid; none is as low as -n, and together they are even.
Even(state, k, w, m, n) ==
    /\ state \in States(m) /\ Len(state.schedule) = k
    /\ \A i \in 1 .. m : state.score[i] > -n
    /\ \A i \in 1 .. m : state.score[i] = k * w[i] - n * Given(state.schedule, i, k)
    /\ Total(state.score) = 0
    /\ \E given \in [1 .. m -> Int] : /\ \A i \in 1 .. m : given[i] = Given(state.schedule, i, k)
                                      /\ Total(given) = k

\* The weights of m targets, which sum up to n.
AreWeights(w, m, n) ==
    /\ m \in Nat \ {0} /\ n \in Nat \ {0}
    /\ w \in [1 .. m -> Int] /\ \A i \in 1 .. m : w[i] > 0
    /\ Total(w) = n

\* Before the first slot all is even.
LEMMA FirstIsEven ==
    ASSUME NEW w, NEW m, NEW n, AreWeights(w, m, n),
           NEW state, state = [score |-> [i \in DOMAIN w |-> 0], schedule |-> <<>>]
    PROVE  Even(state, 0, w, m, n)
<1>1. m \in Nat /\ n \in Nat \ {0} /\ DOMAIN w = 1 .. m /\ \A i \in 1 .. m : w[i] \in Int
  BY DEF AreWeights
<1>2. state.score = [i \in 1 .. m |-> 0] /\ state.schedule = <<>>
  BY <1>1
<1>3. state.score \in [1 .. m -> Int] /\ \A i \in 1 .. m : state.score[i] = 0
  BY <1>2
<1>4. state \in States(m) /\ Len(state.schedule) = 0
  BY <1>2, <1>3 DEF States
<1>5. Total(state.score) = 0
  BY <1>1, <1>3, TotalOfNone
<1>6. \A i \in 1 .. m : Given(state.schedule, i, 0) = 0
  BY GivenCounts
<1>7. \A i \in 1 .. m : state.score[i] > -n /\ state.score[i] = 0 * w[i] - n * Given(state.schedule, i, 0)
  BY <1>1, <1>3, <1>6
<1>8. \E given \in [1 .. m -> Int] : /\ \A i \in 1 .. m : given[i] = Given(state.schedule, i, 0)
                                     /\ Total(given) = 0
  BY <1>3, <1>5, <1>6
<1> QED
  BY <1>4, <1>5, <1>7, <1>8 DEF Even

\* A slot keeps it so.
LEMMA SlotKeepsEven ==
    ASSUME NEW w, NEW m, NEW n, AreWeights(w, m, n), NEW k \in Nat,
           NEW state, Even(state, k, w, m, n), NEW next, next = TakeSlot(state, w), next \in States(m)
    PROVE  /\ Even(next, k + 1, w, m, n)
           /\ \A j \in 1 .. k : next.schedule[j] = state.schedule[j]
<1>1. /\ m \in Nat \ {0} /\ n \in Nat \ {0} /\ w \in [1 .. m -> Int] /\ DOMAIN w = 1 .. m
      /\ \A i \in 1 .. m : w[i] \in Int /\ w[i] > 0
      /\ Total(w) = n
  BY DEF AreWeights
<1>2. PICK x : x = state.score
  OBVIOUS
<1>3. PICK s : s = state.schedule
  OBVIOUS
<1>4. /\ x \in [1 .. m -> Int] /\ Total(x) = 0 /\ s \in Seq(Int) /\ Len(s) = k
      /\ \A i \in 1 .. m : x[i] > -n /\ x[i] = k * w[i] - n * Given(s, i, k)
  BY <1>2, <1>3 DEF Even, States
<1>5. PICK r : r = [i \in 1 .. m |-> x[i] + w[i]]
  OBVIOUS
<1>6. r \in [1 .. m -> Int] /\ \A i \in 1 .. m : r[i] = x[i] + w[i]
  BY <1>1, <1>4, <1>5
<1>7. Total(r) = n
  <2>1. Total(r) = Total(x) + Total(w)
    <3>1. m \in Nat /\ x \in [1 .. m -> Int] /\ w \in [1 .. m -> Int]
      BY <1>1, <1>4
    <3> QED
      BY <1>6, <3>1, TotalOfSum
  <2> QED
    BY <1>1, <1>4, <2>1
<1>8. PICK b : b = FirstHighest(r)
  OBVIOUS
<1>9. b \in 1 .. m /\ \A j \in 1 .. m : r[b] >= r[j]
  BY <1>1, <1>6, <1>8, FirstHighestIs
<1>10. r[b] > 0
  <2>1. SUFFICES ASSUME ~ (r[b] > 0) PROVE FALSE
    OBVIOUS
  <2>2. PICK z : z = [i \in 1 .. m |-> 0]
    OBVIOUS
  <2>3. z \in [1 .. m -> Int] /\ \A i \in 1 .. m : z[i] = 0
    BY <2>2
  <2>4. \A i \in 1 .. m : r[i] <= z[i]
    <3> TAKE i \in 1 .. m
    <3>1. r[i] \in Int /\ r[b] \in Int /\ r[b] >= r[i] /\ z[i] = 0
      BY <1>6, <1>9, <2>3
    <3> QED
      BY <2>1, <3>1
  <2>5. Total(z) = 0 /\ Total(r) <= Total(z)
    BY <1>1, <1>6, <2>3, <2>4, TotalOfNone, TotalOrdered
  <2> QED
    BY <1>1, <1>7, <2>5
<1>11. next = [score |-> [r EXCEPT ![b] = @ - n], schedule |-> Append(s, b - 1)]
  BY <1>1, <1>2, <1>3, <1>5, <1>8 DEF TakeSlot
<1>12. PICK y : y = next.score
  OBVIOUS
<1>13. y \in [1 .. m -> Int] /\ \A i \in 1 .. m : y[i] = IF i = b THEN r[i] - n ELSE r[i]
  <2>1. y = [r EXCEPT ![b] = r[b] - n]
    BY <1>11, <1>12
  <2>2. r[b] - n \in Int /\ DOMAIN r = 1 .. m /\ \A i \in 1 .. m : r[i] \in Int
    BY <1>1, <1>6, <1>9
  <2> QED
    BY <1>6, <1>9, <2>1, <2>2
<1>14. PICK t : t = next.schedule
  OBVIOUS
<1>15. t \in Seq(Int) /\ Len(t) = k + 1 /\ t[k + 1] = b - 1 /\ \A j \in 1 .. k : t[j] = s[j]
  <2>1. b - 1 \in Int /\ t = Append(s, b - 1)
    BY <1>9, <1>11, <1>14
  <2> QED
    BY <1>4, <2>1
<1>16. \A i \in 1 .. m : y[i] > -n
  <2> TAKE i \in 1 .. m
  <2>1. x[i] \in Int /\ w[i] \in Int /\ x[i] > -n /\ w[i] > 0 /\ r[i] = x[i] + w[i] /\ r[b] \in Int
    BY <1>1, <1>4, <1>6, <1>9
  <2>2. y[i] = IF i = b THEN r[i] - n ELSE r[i]
    BY <1>13
  <2>3. n \in Int
    BY <1>1
  <2> QED
    BY <1>10, <2>1, <2>2, <2>3
<1>17. Total(y) = 0
  <2>1. PICK o : o = Only(m, b, -n)
    OBVIOUS
  <2>2. o \in [1 .. m -> Int] /\ Total(o) = -n
    BY <1>1, <1>9, <2>1, TotalOfOne
  <2>3. \A i \in 1 .. m : y[i] = r[i] + o[i]
    <3> TAKE i \in 1 .. m
    <3>1. o[i] = IF i = b THEN -n ELSE 0
      BY <2>1 DEF Only
    <3>2. r[i] \in Int
      BY <1>6
    <3> QED
      BY <1>1, <1>13, <3>1, <3>2
  <2>4. Total(y) = Total(r) + Total(o)
    BY <1>1, <1>6, <1>13, <2>2, <2>3, TotalOfSum
  <2> QED
    BY <1>1, <1>7, <2>2, <2>4
<1>18. ASSUME NEW i \in 1 .. m
       PROVE  /\ Given(t, i, k + 1) = Given(s, i, k) + (IF i = b THEN 1 ELSE 0)
              /\ Given(s, i, k) \in Nat /\ Given(t, i, k + 1) \in Nat
  <2>1. Given(t, i, k + 1) = Given(t, i, k) + (IF t[k + 1] = i - 1 THEN 1 ELSE 0)
    BY GivenCounts
  <2>2. Given(t, i, k) = Given(s, i, k)
    BY <1>15, GivenOfFirst
  <2>3. t[k + 1] = i - 1 <=> i = b
    BY <1>9, <1>15
  <2>4. Given(s, i, k) \in Nat
    BY GivenCounts
  <2> QED
    BY <2>1, <2>2, <2>3, <2>4
<1>19. \A i \in 1 .. m : y[i] = (k + 1) * w[i] - n * Given(t, i, k + 1)
  <2> TAKE i \in 1 .. m
  <2>1. PICK g : g = Given(s, i, k)
    OBVIOUS
  <2>2. PICK v : v = w[i]
    OBVIOUS
  <2>3. g \in Nat /\ v \in Int /\ r[i] = (k * v - n * g) + v
    BY <1>1, <1>4, <1>6, <1>18, <2>1, <2>2
  <2>4. Given(t, i, k + 1) = g + (IF i = b THEN 1 ELSE 0)
    BY <1>18, <2>1
  <2>5. (k + 1) * v = k * v + v /\ n * (g + 1) = n * g + n
    BY <1>1, <2>3
  <2>6. k * v \in Int /\ n * g \in Int
    BY <1>1, <2>3
  <2>7. CASE i = b
    <3>1. y[i] = ((k * v - n * g) + v) - n /\ Given(t, i, k + 1) = g + 1
      BY <1>13, <2>3, <2>4, <2>7
    <3>2. y[i] = (k + 1) * v - n * (g + 1)
      BY <1>1, <2>3, <2>5, <2>6, <3>1
    <3> QED
      BY <2>2, <3>1, <3>2
  <2>8. CASE i # b
    <3>1. y[i] = (k * v - n * g) + v /\ Given(t, i, k + 1) = g
      BY <1>13, <2>3, <2>4, <2>8
    <3>2. y[i] = (k + 1) * v - n * g
      BY <1>1, <2>3, <2>5, <2>6, <3>1
    <3> QED
      BY <2>2, <3>1, <3>2
  <2> QED
    BY <2>7, <2>8
<1>20. \E given \in [1 .. m -> Int] : /\ \A i \in 1 .. m : given[i] = Given(t, i, k + 1)
                                      /\ Total(given) = k + 1
  <2>1. PICK old \in [1 .. m -> Int] : (\A i \in 1 .. m : old[i] = Given(s, i, k)) /\ Total(old) = k
    BY <1>3 DEF Even
  <2>2. PICK o : o = Only(m, b, 1)
    OBVIOUS
  <2>3. o \in [1 .. m -> Int] /\ Total(o) = 1
    BY <1>1, <1>9, <2>2, TotalOfOne
  <2>4. PICK given : given = [i \in 1 .. m |-> Given(t, i, k + 1)]
    OBVIOUS
  <2>5. given \in [1 .. m -> Int] /\ \A i \in 1 .. m : given[i] = Given(t, i, k + 1)
    BY <1>18, <2>4
  <2>6. \A i \in 1 .. m : given[i] = old[i] + o[i]
    BY <1>18, <2>1, <2>2, <2>5 DEF Only
  <2>7. Total(given) = Total(old) + Total(o)
    BY <1>1, <2>1, <2>3, <2>5, <2>6, TotalOfSum
  <2> QED
    BY <2>1, <2>3, <2>5, <2>7
<1>21. Even(next, k + 1, w, m, n)
  BY <1>12, <1>14, <1>15, <1>16, <1>17, <1>19, <1>20 DEF Even
<1> QED
  BY <1>3, <1>14, <1>15, <1>21

\* So it is after every slot, and no slot changes those before it.
LEMMA SlotsAreEven ==
    ASSUME NEW w, NEW m, NEW n, AreWeights(w, m, n), NEW e, Slots(e, n, w, m), NEW k \in 0 .. n
    PROVE  /\ Even(e[k], k, w, m, n)
           /\ \A l \in 0 .. k : \A j \in 1 .. l : e[k].schedule[j] = e[l].schedule[j]
<1>1. n \in Nat /\ m \in Nat
  BY DEF AreWeights
<1>2. PICK T : T = {h \in 0 .. n : /\ Even(e[h], h, w, m, n)
                                  /\ \A l \in 0 .. h : \A j \in 1 .. l : e[h].schedule[j] = e[l].schedule[j]}
  OBVIOUS
<1>3. 0 \in T
  <2>1. Even(e[0], 0, w, m, n)
    BY FirstIsEven DEF Slots
  <2>2. \A l \in 0 .. 0 : \A j \in 1 .. l : FALSE
    OBVIOUS
  <2> QED
    BY <1>1, <1>2, <2>1, <2>2
<1>4. ASSUME NEW h \in 0 .. n - 1, h \in T
      PROVE  h + 1 \in T
  <2>1. h \in Nat /\ h + 1 \in 1 .. n /\ h + 1 \in 0 .. n /\ (h + 1) - 1 = h
    BY <1>1
  <2>2. /\ Even(e[h], h, w, m, n)
        /\ \A l \in 0 .. h : \A j \in 1 .. l : e[h].schedule[j] = e[l].schedule[j]
    BY <1>2, <1>4
  <2>3. e[h + 1] = TakeSlot(e[h], w) /\ e[h + 1] \in States(m)
    BY <2>1 DEF Slots
  <2>4. /\ Even(e[h + 1], h + 1, w, m, n)
        /\ \A j \in 1 .. h : e[h + 1].schedule[j] = e[h].schedule[j]
    BY <2>1, <2>2, <2>3, SlotKeepsEven
  <2>5. ASSUME NEW l \in 0 .. h + 1, NEW j \in 1 .. l
        PROVE  e[h + 1].schedule[j] = e[l].schedule[j]
    <3>1. CASE l = h + 1
      BY <3>1
    <3>2. CASE l # h + 1
      <4>1. l \in 0 .. h /\ j \in 1 .. h
        BY <2>1, <3>2
      <4> QED
        BY <2>2, <2>4, <4>1
    <3> QED
      BY <3>1, <3>2
  <2> QED
    BY <1>2, <2>1, <2>4, <2>5
<1>5. k \in T
  <2>1. \A h \in 0 .. k - 1 : h \in 0 .. n - 1
    BY <1>1
  <2>2. k \in Nat
    BY <1>1
  <2> QED
    BY <1>3, <1>4, <2>1, <2>2, UpTo
<1> QED
  BY <1>2, <1>5

\* A complete cycle gives every target its weight, and no part of one much more.
LEMMA ScheduleOfWeights ==
    ASSUME NEW w, NEW m, NEW n, AreWeights(w, m, n), NEW s, s = BuildTargetSchedule(w)
    PROVE  /\ Len(s) = n /\ DOMAIN s = 1 .. n
           /\ \A i \in 1 .. m : /\ Given(s, i, n) = w[i]
                                /\ \A k \in 1 .. n : (Given(s, i, k) - 1) * n < k * w[i]
<1>1. m \in Nat \ {0} /\ n \in Nat \ {0} /\ w \in [1 .. m -> Int] /\ Total(w) = n
  BY DEF AreWeights
<1>2. PICK e : Slots(e, n, w, m) /\ s = e[n].schedule
  <2>1. n \in Nat
    BY <1>1
  <2> QED
    BY <1>1, <2>1, ScheduleGrows
<1>3. ASSUME NEW k \in 0 .. n
      PROVE  /\ e[k].score \in [1 .. m -> Int]
             /\ \A i \in 1 .. m : /\ e[k].score[i] > -n
                                  /\ e[k].score[i] = k * w[i] - n * Given(s, i, k)
                                  /\ Given(s, i, k) \in Nat
  <2>1. Even(e[k], k, w, m, n)
    BY <1>2, SlotsAreEven
  <2>2. \A j \in 1 .. k : s[j] = e[k].schedule[j]
    <3>1. n \in 0 .. n
      BY <1>1
    <3> QED
      BY <1>2, <3>1, SlotsAreEven
  <2>3. k \in Nat
    BY <1>1
  <2>4. \A i \in 1 .. m : Given(s, i, k) = Given(e[k].schedule, i, k) /\ Given(s, i, k) \in Nat
    BY <2>2, <2>3, GivenOfFirst, GivenCounts
  <2> QED
    BY <2>1, <2>4 DEF Even, States
<1>4. n \in 0 .. n /\ Even(e[n], n, w, m, n)
  BY <1>1, <1>2, SlotsAreEven
<1>5. Len(s) = n /\ DOMAIN s = 1 .. n
  BY <1>2, <1>4 DEF Even, States
<1>6. ASSUME NEW i \in 1 .. m, NEW k \in 1 .. n
      PROVE  (Given(s, i, k) - 1) * n < k * w[i]
  <2>1. PICK x, g, v : x = e[k].score[i] /\ g = Given(s, i, k) /\ v = w[i]
    OBVIOUS
  <2>2. k \in 0 .. n
    BY <1>1
  <2>3. x \in Int /\ x > -n /\ x = k * v - n * g /\ g \in Nat /\ v \in Int
    BY <1>1, <1>3, <2>1, <2>2
  <2>4. n \in Int /\ k \in Int
    BY <1>1
  <2>5. (g - 1) * n = n * g - n /\ n * g \in Int /\ k * v \in Int
    BY <2>3, <2>4
  <2>6. (g - 1) * n < k * v
    BY <2>3, <2>4, <2>5
  <2> QED
    BY <2>1, <2>6
<1>7. ASSUME NEW i \in 1 .. m
      PROVE  Given(s, i, n) <= w[i]
  <2>1. PICK x, g, v : x = e[n].score[i] /\ g = Given(s, i, n) /\ v = w[i]
    OBVIOUS
  <2>2. x \in Int /\ x > -n /\ x = n * v - n * g /\ g \in Nat /\ v \in Int
    BY <1>1, <1>3, <1>4, <2>1
  <2>3. n \in Int /\ n > 0
    BY <1>1
  <2>4. n * v - n * g = n * (v - g)
    BY <2>2, <2>3
  <2>5. ~ (v - g <= -1)
    <3>1. SUFFICES ASSUME v - g <= -1 PROVE FALSE
      OBVIOUS
    <3>2. n * (v - g) <= n * (-1)
      <4>1. PICK d : d = v - g
        OBVIOUS
      <4>2. d \in Int /\ d <= -1
        BY <2>2, <3>1, <4>1
      <4>3. n * d <= n * (-1)
        BY <2>3, <4>2
      <4> QED
        BY <4>1, <4>3
    <3> QED
      BY <2>2, <2>3, <2>4, <3>2
  <2>6. g <= v
    BY <2>2, <2>5
  <2> QED
    BY <2>1, <2>6
<1>8. \A i \in 1 .. m : Given(s, i, n) = w[i]
  <2>1. PICK given \in [1 .. m -> Int] : (\A i \in 1 .. m : given[i] = Given(s, i, n)) /\ Total(given) = n
    BY <1>2, <1>4 DEF Even
  <2>2. \A i \in 1 .. m : given[i] <= w[i]
    BY <1>7, <2>1
  <2>3. \A i \in 1 .. m : given[i] = w[i]
    <3>1. m \in Nat /\ Total(given) = Total(w)
      BY <1>1, <2>1
    <3> QED
      BY <1>1, <2>1, <2>2, <3>1, TotalOrdered
  <2> QED
    BY <2>1, <2>3
<1> QED
  BY <1>5, <1>6, <1>8

\* Positive numbers have a positive sum.
LEMMA WeightsSumUp ==
    ASSUME NEW m \in Nat \ {0}, NEW w \in [1 .. m -> Int], \A i \in 1 .. m : w[i] > 0
    PROVE  AreWeights(w, m, Total(w))
<1>1. PICK z : z = [i \in 1 .. m |-> 0]
  OBVIOUS
<1>2. z \in [1 .. m -> Int] /\ \A i \in 1 .. m : z[i] = 0
  BY <1>1
<1>3. Total(z) = 0
  BY <1>2, TotalOfNone
<1>4. Total(w) \in Int
  <2>1. \A i \in 1 .. m : w[i] = w[i] + z[i]
    BY <1>2
  <2> QED
    BY <1>2, <2>1, TotalOfSum
<1>5. Total(z) <= Total(w) /\ (Total(z) = Total(w) => \A i \in 1 .. m : z[i] = w[i])
  <2>1. \A i \in 1 .. m : z[i] <= w[i]
    BY <1>2
  <2> QED
    BY <1>2, <2>1, TotalOrdered
<1>6. Total(w) # 0
  <2>1. 1 \in 1 .. m /\ w[1] > 0 /\ w[1] \in Int /\ z[1] = 0
    BY <1>2
  <2> QED
    BY <1>3, <1>5, <2>1
<1>7. Total(w) \in Nat \ {0}
  BY <1>3, <1>4, <1>5, <1>6
<1> QED
  BY <1>7 DEF AreWeights

\* A cycle of a backend's schedule gives every target as many first attempts as
\* its weight, and no part of it one more than its share rounded up: what
\* buildTargetSchedule makes of any number of targets of any weights is smooth.
THEOREM SchedulesAreFair == Spec => []ScheduleIsFair
<1>1. LoadedInv /\ BuiltInv => ScheduleIsFair
  <2> SUFFICES ASSUME LoadedInv, BuiltInv, NEW name \in DOMAIN backends, IsSet(config.backends[name].weights)
               PROVE  /\ Len(backends[name].schedule) = Total(config.backends[name].weights)
                      /\ \A i \in DOMAIN config.backends[name].weights :
                            /\ Given(backends[name].schedule, i, Len(backends[name].schedule))
                                  = config.backends[name].weights[i]
                            /\ \A k \in DOMAIN backends[name].schedule :
                                  (Given(backends[name].schedule, i, k) - 1) * Len(backends[name].schedule)
                                     < k * config.backends[name].weights[i]
    BY DEF ScheduleIsFair, Given
  <2>1. PICK b, built, read : /\ b = config.backends[name] /\ built = backends[name]
                              /\ AcceptsBackend(b) /\ built = NewBackend(b, read)
    BY DEF BuiltInv
  <2>2. config \in Configs /\ name \in DOMAIN config.backends
    BY DEF LoadedInv, BuiltInv
  <2>3. PICK w, m, n, s : w = b.weights /\ m = Len(w) /\ n = Total(w) /\ s = BuildTargetSchedule(w)
    OBVIOUS
  <2>4. w \in Seq(Nat) /\ m \in Nat \ {0} /\ DOMAIN w = 1 .. m /\ \A i \in 1 .. m : w[i] \in 1 .. MaxTargetWeight
    BY <2>1, <2>2, <2>3, BackendDecoded
  <2>5. \A i \in 1 .. m : w[i] \in Int /\ w[i] > 0
    BY <2>4, ConfigAssumption
  <2>6. w \in [1 .. m -> Int]
    BY <2>3, <2>4
  <2>7. AreWeights(w, m, n)
    BY <2>3, <2>4, <2>5, <2>6, WeightsSumUp
  <2>8. /\ Len(s) = n /\ DOMAIN s = 1 .. n
        /\ \A i \in 1 .. m : /\ Given(s, i, n) = w[i]
                             /\ \A k \in 1 .. n : (Given(s, i, k) - 1) * n < k * w[i]
    BY <2>3, <2>7, ScheduleOfWeights
  <2>9. built.schedule = s
    BY <2>1, <2>3 DEF NewBackend
  <2> QED
    BY <2>1, <2>3, <2>4, <2>8, <2>9
<1> QED
  BY <1>1, BuiltInvariance, PTL

-----------------------------------------------------------------------------
(* What loads is accepted.                                                 *)

\* A backend of a text that loads is accepted, unless its targets are not.
LEMMA LoadedBackend ==
    ASSUME NEW b, LoadsBackend(b), BackendShape(b), Distinct(b.targets), "malformed" \notin ToSet(b.targets)
    PROVE  AcceptsBackend(DecodeBackend(b))
<1>1. PICK d : d = DecodeBackend(b)
  OBVIOUS
<1>2. /\ d.targets = b.targets /\ d.weights = b.weights /\ d.health = b.health
      /\ d.tries = Value(b.tries, 1)
      /\ d.dial = (IF IsSet(b.timeout) THEN Value(b.timeout["dial"], 0) ELSE 0)
      /\ d.header = (IF IsSet(b.timeout) THEN Value(b.timeout["header"], 0) ELSE 0)
      /\ d.retry = (IF IsSet(b.retry)
                    THEN [b.retry EXCEPT !.deadline = Value(@, 0), !.methods = Value(@, <<>>)] ELSE Unset)
  BY <1>1 DEF DecodeBackend
<1>3. /\ Len(b.targets) \in Nat /\ DOMAIN b.targets = 1 .. Len(b.targets) /\ b.targets # <<>>
      /\ IsSet(b.tries) => b.tries \in 1 .. Len(b.targets)
  BY DEF BackendShape, IsSequence, LoadsBackend
<1>4. Len(b.targets) > 0
  <2>1. CASE Len(b.targets) = 0
    <3>1. DOMAIN b.targets = {}
      BY <1>3, <2>1
    <3>2. b.targets = <<>>
      BY <1>3, <2>1, <3>1
    <3> QED
      BY <1>3, <3>2
  <2> QED
    BY <1>3, <2>1
<1>5. /\ EffectiveTries(d) \in 1 .. Len(b.targets)
      /\ IsSet(b.tries) => EffectiveTries(d) = b.tries
  BY <1>2, <1>3, <1>4 DEF EffectiveTries, Value
<1>6. d.dial >= 0 /\ d.header >= 0
  <2>1. IsSet(b.timeout) => LoadsDuration(b.timeout.dial) /\ LoadsDuration(b.timeout.header)
    BY DEF LoadsBackend, LoadsBackendTimeout
  <2> QED
    BY <1>2, <2>1, ConfigAssumption DEF LoadsDuration, Value
<1>7. \A i \in DOMAIN d.targets : ParseTarget(d.targets[i])
  BY <1>2 DEF ToSet, ParseTarget
<1>8. IsSet(d.weights) => ValidateTargetWeights(d.weights, Len(d.targets))
  BY <1>2 DEF LoadsBackend
<1>9. ValidateHealth(d.health)
  BY <1>2 DEF LoadsBackend, LoadsHealth, ValidateHealth
<1>10. ASSUME IsSet(d.retry)
       PROVE  ValidateRetry(d.retry, EffectiveTries(d))
  <2>1. IsSet(b.retry)
    BY <1>2, <1>10 DEF IsSet
  <2>2. /\ LoadsRetry(b.retry) /\ IsSet(b.tries) /\ b.tries > 1 /\ ValidateRetryStatuses(b.retry.status)
        /\ IsSet(b.retry.methods) => ValidateRetryMethods(b.retry.methods)
    BY <2>1 DEF LoadsBackend
  <2>3. /\ d.retry.deadline = Value(b.retry.deadline, 0) /\ d.retry.methods = Value(b.retry.methods, <<>>)
        /\ d.retry.status = b.retry.status /\ d.retry.backoff = b.retry.backoff
        /\ d.retry.body = b.retry.body /\ d.retry.budget = b.retry.budget
    BY <1>2, <2>1 DEF BackendShape
  <2>4. d.retry.deadline >= 0
    BY <2>1, <2>2, <2>3, ConfigAssumption DEF LoadsRetry, LoadsDuration, Value
  <2>5. ValidateBackoff(d.retry.backoff)
    BY <2>1, <2>2, <2>3, ConfigAssumption DEF LoadsRetry, LoadsBackoff, ValidateBackoff
  <2>6. d.retry.methods # <<>> => ValidateRetryMethods(d.retry.methods)
    BY <2>2, <2>3 DEF Value
  <2>7. /\ IsSet(d.retry.body) => d.retry.body \in 1 .. MaxRetryBodyBytes
        /\ IsSet(d.retry.budget) => d.retry.budget.max \in 1 .. MaxRetryBudget /\ d.retry.budget.window > 0
    BY <2>1, <2>2, <2>3, ConfigAssumption DEF LoadsRetry, LoadsBudget
  <2> QED
    BY <1>5, <2>2, <2>3, <2>4, <2>5, <2>6, <2>7 DEF ValidateRetry
<1>11. ValidateRetry(d.retry, EffectiveTries(d))
  BY <1>10 DEF ValidateRetry
<1>12. AcceptsBackend(d)
  BY <1>2, <1>3, <1>5, <1>6, <1>7, <1>8, <1>9, <1>11 DEF AcceptsBackend
<1> QED
  BY <1>1, <1>12

\* Timeouts that load are not too long for newRouter.
LEMMA LoadedTimeout ==
    ASSUME NEW timeout, LoadsDirectTimeout(timeout), TimeoutShape(timeout)
    PROVE  /\ ValidateDirectTimeout(DecodeDirectTimeout(timeout))
           /\ ~IsSet(timeout) => ~IsSet(DecodeDirectTimeout(timeout))
<1>1. PICK d : d = DecodeDirectTimeout(timeout)
  OBVIOUS
<1>2. CASE IsSet(timeout)
  <2>1. d = [f \in {"dial", "header", "body"} |-> Value(timeout[f], 0)]
    BY <1>1, <1>2 DEF DecodeDirectTimeout, TimeoutShape
  <2>2. \A f \in {"dial", "header", "body"} : IsSet(timeout[f]) => timeout[f] \in 1 .. MaxDirectTimeout
    BY <1>2 DEF LoadsDirectTimeout
  <2>3. \A f \in {"dial", "header", "body"} : d[f] \in 0 .. MaxDirectTimeout
    BY <2>1, <2>2, ConfigAssumption DEF Value
  <2> QED
    BY <1>1, <1>2, <2>3 DEF ValidateDirectTimeout
<1>3. CASE ~IsSet(timeout)
  BY <1>3 DEF DecodeDirectTimeout, ValidateDirectTimeout, IsSet
<1> QED
  BY <1>2, <1>3

\* What was read of files that are all alike, and good, makes a tls block usable.
LEMMA AlikeUsable ==
    ASSUME NEW tls, NEW contents, NEW S, S \in {{}, {1}, {2}}, contents \in Seq(S),
           IsSet(tls), Len(contents) = Len(Paths(tls))
    PROVE  Usable(tls, contents)
<1>1. Bad \notin ToSet(contents)
  BY BadAssumption DEF ToSet
<1>2. PICK client : client = IF IsSet(tls.ca) THEN Tail(contents) ELSE contents
  OBVIOUS
<1>3. IsSet(tls.ca) => Len(contents) > 0
  <2>1. PICK rest : Paths(tls) = (IF IsSet(tls.ca) THEN <<tls.ca>> ELSE <<>>) \o rest /\ \E T : rest \in Seq(T)
    <3>1. PICK rest : rest = IF ~IsSet(tls.cert) THEN <<>>
                             ELSE IF tls.cert = tls.key THEN <<tls.cert>> ELSE <<tls.cert, tls.key>>
      OBVIOUS
    <3>2. rest \in Seq({tls.cert, tls.key})
      <4>1. /\ <<>> \in Seq({tls.cert, tls.key}) /\ <<tls.cert>> \in Seq({tls.cert, tls.key})
            /\ <<tls.cert, tls.key>> \in Seq({tls.cert, tls.key})
        OBVIOUS
      <4> QED
        BY <3>1, <4>1
    <3>3. Paths(tls) = (IF IsSet(tls.ca) THEN <<tls.ca>> ELSE <<>>) \o rest
      BY <3>1, Zenon DEF Paths
    <3> QED
      BY <3>2, <3>3
  <2>2. PICK T : rest \in Seq(T)
    BY <2>1
  <2>3. PICK U : U = T \cup {tls.ca}
    OBVIOUS
  <2>4. IsSet(tls.ca) => Paths(tls) = <<tls.ca>> \o rest /\ <<tls.ca>> \in Seq(U) /\ rest \in Seq(U)
    BY <2>1, <2>2, <2>3
  <2>5. IsSet(tls.ca) => Len(Paths(tls)) = 1 + Len(rest) /\ Len(rest) \in Nat
    BY <2>4
  <2> QED
    BY <2>5
<1>4. client \in Seq(S)
  BY <1>2, <1>3
<1>5. client # <<>> => Head(client) = Last(client)
  <2>1. CASE client # <<>>
    <3>1. Len(client) \in Nat /\ Len(client) > 0
      BY <1>4, <2>1
    <3>2. client[1] \in S /\ client[Len(client)] \in S
      BY <1>4, <3>1
    <3>3. client[1] = client[Len(client)]
      BY <3>2
    <3>4. Head(client) = client[1]
      BY <1>4, <2>1
    <3> QED
      BY <3>3, <3>4 DEF Last
  <2> QED
    BY <2>1
<1> QED
  BY <1>1, <1>2, <1>5 DEF Usable

\* Why a site may be refused though its text loads: a site or a route that is
\* badly written, or names a backend that is none of names, or has a tls block
\* for a target without TLS.
BadlyNamed(u, names) == ~u.valid \/ u.target = "malformed" \/ (IsSet(u.backend) /\ u.backend \notin names)
BadTLS(s, r) ==
    IsSet(r.tls) /\ (IF NoUpstream(r) THEN s.target ELSE r.target) # "https"
BadSite(s, names) ==
    \/ BadlyNamed(s, names) \/ (IsSet(s.tls) /\ s.target # "https")
    \/ \E i \in DOMAIN s.routes : BadlyNamed(s.routes[i], names) \/ BadTLS(s, s.routes[i])

\* A site of a text that loads is accepted otherwise.
LEMMA LoadedSite ==
    ASSUME NEW text, LoadsSite(text), TimeoutShape(text.timeout),
           {"routes", "valid", "target", "backend", "timeout", "tls", "policy"} \subseteq DOMAIN text,
           NEW s, s = DecodeSite(text), NEW names
    PROVE  /\ s.target = text.target /\ s.backend = text.backend /\ s.tls = text.tls
           /\ s.timeout = DecodeDirectTimeout(text.timeout)
           /\ s.routes = [i \in DOMAIN text.routes |-> DecodeRoute(text.routes[i])]
           /\ ValidateDirectTimeout(s.timeout)
           /\ IsSet(s.target) # IsSet(s.backend)
           /\ IsSet(s.backend) => ~IsSet(s.timeout)
           /\ ~BadSite(s, names) => s.valid /\ AcceptsUpstream(s, names)
<1>1. /\ s.target = text.target /\ s.backend = text.backend /\ s.tls = text.tls
      /\ s.timeout = DecodeDirectTimeout(text.timeout)
      /\ s.routes = [i \in DOMAIN text.routes |-> DecodeRoute(text.routes[i])]
  BY DEF DecodeSite
<1>2. /\ ValidateDirectTimeout(s.timeout)
      /\ IsSet(s.target) # IsSet(s.backend)
      /\ IsSet(s.backend) => ~IsSet(s.timeout)
  BY <1>1, LoadedTimeout DEF LoadsSite
<1>3. ASSUME ~BadSite(s, names)
      PROVE  s.valid /\ AcceptsUpstream(s, names)
  <2>1. /\ s.valid /\ ParseTarget(s.target)
        /\ IsSet(s.backend) => s.backend \in names
        /\ IsSet(s.tls) => s.target = "https"
    BY <1>3 DEF BadSite, BadlyNamed, ParseTarget
  <2>2. IsSet(s.tls) => IsSet(s.target)
    BY <2>1, ConfigAssumption DEF IsSet
  <2> QED
    BY <1>2, <2>1, <2>2 DEF AcceptsUpstream
<1> QED
  BY <1>1, <1>2, <1>3

\* So is a route: what it generates, or the upstream that is its own or its site's.
LEMMA LoadedRoute ==
    ASSUME NEW above, NEW text, LoadsRoute(text, above), TimeoutShape(text.timeout),
           NEW r, r = DecodeRoute(text),
           NEW s, s.target = above.target, s.backend = above.backend,
           ValidateDirectTimeout(s.timeout), IsSet(s.target) # IsSet(s.backend),
           IsSet(s.backend) => ~IsSet(s.timeout),
           NEW names, ~BadlyNamed(s, names), IsSet(s.tls) => s.target = "https",
           ~BadlyNamed(r, names), ~BadTLS(s, r)
    PROVE  /\ r.valid
           /\ IF IsSet(r.respond) THEN AcceptsRespond(r) ELSE AcceptsUpstream(RouteUpstream(s, r), names)
<1>0. r.valid
  BY DEF BadlyNamed
<1>1. /\ r.target = text.target /\ r.backend = text.backend /\ r.tls = text.tls
      /\ r.timeout = DecodeDirectTimeout(text.timeout)
      /\ r.respond = DecodeRespond(text.respond) /\ r.policy = DecodePolicy(text.policy)
      /\ r.setsID = text.setsID /\ r.strip = text.strip /\ r.rewrite = text.rewrite
  BY DEF DecodeRoute
<1>2. /\ ValidateDirectTimeout(r.timeout)
      /\ ~IsSet(text.timeout) => ~IsSet(r.timeout)
  BY <1>1, LoadedTimeout DEF LoadsRoute
<1>3. CASE IsSet(r.respond)
  <2>1. /\ IsSet(text.respond)
        /\ r.respond.status = text.respond.status /\ r.respond.body = text.respond.body
    BY <1>1, <1>3 DEF DecodeRespond, IsSet
  <2>2. LoadsRespond(text.respond) /\ ~text.setsID /\ ~text.strip
        /\ \A f \in {"target", "backend", "timeout", "tls", "policy", "rewrite"} : ~IsSet(text[f])
    BY <2>1 DEF LoadsRoute, AnySet
  <2>3. /\ ~IsSet(text.target) /\ ~IsSet(text.backend) /\ ~IsSet(text.timeout) /\ ~IsSet(text.tls)
        /\ ~IsSet(text.policy) /\ ~IsSet(text.rewrite)
    BY <2>2
  <2>4. r.policy = EmptyPolicy
    BY <1>1, <2>3 DEF DecodePolicy
  <2>5. AcceptsRespond(r)
    BY <1>1, <1>2, <2>1, <2>2, <2>3, <2>4 DEF LoadsRespond, AcceptsRespond, NoUpstream
  <2> QED
    BY <1>0, <1>3, <2>5
<1>4. CASE ~IsSet(r.respond)
  <2>1. PICK u : u = RouteUpstream(s, r)
    OBVIOUS
  <2>2. ~(IsSet(r.target) /\ IsSet(r.backend))
    BY <1>1 DEF LoadsRoute
  <2>3. IsSet(r.timeout) => ~IsSet(r.backend) /\ (NoUpstream(r) => ~IsSet(s.backend))
    BY <1>1, <1>2 DEF LoadsRoute, UsesBackend, NoUpstream
  <2>4. IsSet(r.tls) => (IF NoUpstream(r) THEN s.target ELSE r.target) = "https"
    BY DEF BadTLS
  <2>5. CASE NoUpstream(r)
    <3>1. /\ u.target = s.target /\ u.backend = s.backend
          /\ u.timeout = r.timeout \/ (IsSet(s.target) /\ u.timeout = s.timeout)
          /\ u.tls = r.tls \/ u.tls = s.tls
      BY <2>1, <2>5 DEF RouteUpstream
    <3>2. IsSet(u.tls) => u.target = "https"
      BY <2>4, <2>5, <3>1
    <3>3. IsSet(u.backend) => ~IsSet(u.timeout)
      BY <2>3, <2>5, <3>1
    <3>4. ValidateDirectTimeout(u.timeout)
      BY <1>2, <3>1
    <3>5. ParseTarget(u.target) /\ (IsSet(u.backend) => u.backend \in names)
      BY <3>1 DEF BadlyNamed, ParseTarget
    <3>6. IsSet(u.tls) => IsSet(u.target)
      BY <3>2, ConfigAssumption DEF IsSet
    <3>7. AcceptsUpstream(u, names)
      BY <3>1, <3>2, <3>3, <3>4, <3>5, <3>6 DEF AcceptsUpstream, IsSet
    <3> QED
      BY <1>0, <1>4, <2>1, <3>7
  <2>6. CASE ~NoUpstream(r)
    <3>1. u.target = r.target /\ u.backend = r.backend /\ u.timeout = r.timeout /\ u.tls = r.tls
      BY <2>1, <2>6 DEF RouteUpstream
    <3>2. IsSet(u.target) # IsSet(u.backend)
      BY <2>2, <2>6, <3>1 DEF NoUpstream
    <3>3. IsSet(u.tls) => u.target = "https"
      BY <2>4, <2>6, <3>1
    <3>4. IsSet(u.tls) => IsSet(u.target)
      BY <3>3, ConfigAssumption DEF IsSet
    <3>5. ParseTarget(u.target) /\ (IsSet(u.backend) => u.backend \in names)
      BY <3>1 DEF BadlyNamed, ParseTarget
    <3>6. AcceptsUpstream(u, names)
      BY <1>2, <2>3, <3>1, <3>2, <3>3, <3>4, <3>5 DEF AcceptsUpstream, IsSet
    <3> QED
      BY <1>0, <1>4, <2>1, <3>6
  <2> QED
    BY <2>5, <2>6
<1> QED
  BY <1>3, <1>4

\* Function f puts the first sequences of seqs together, one after the other.
Flattens(f, seqs, n) ==
    f = [i \in 1 .. n |-> IF i = 1 THEN seqs[i] ELSE f[i - 1] \o seqs[i]]

\* FlattenSeq is what the last step of such a function comes to.
LEMMA FlattenInSteps ==
    ASSUME NEW n \in Nat, n > 0, NEW seqs, Len(seqs) = n
    PROVE  \E f : Flattens(f, seqs, n) /\ FlattenSeq(seqs) = f[n]
<1>1. PICK T : T = {m \in Nat : \E f : Flattens(f, seqs, m)}
  OBVIOUS
<1>2. 0 \in T
  <2>1. Flattens([i \in 1 .. 0 |-> i], seqs, 0)
    BY DEF Flattens
  <2> QED
    BY <1>1, <2>1
<1>3. ASSUME NEW m \in Nat, m \in T
      PROVE  m + 1 \in T
  <2>1. PICK f : Flattens(f, seqs, m)
    BY <1>1, <1>3
  <2>2. PICK g : g = [i \in 1 .. m + 1 |-> IF i = 1 THEN seqs[i] ELSE f[i - 1] \o seqs[i]]
    OBVIOUS
  <2>3. \A i \in 1 .. m : g[i] = f[i]
    <3>1. \A i \in 1 .. m : f[i] = IF i = 1 THEN seqs[i] ELSE f[i - 1] \o seqs[i]
      BY <2>1, Zenon DEF Flattens
    <3> QED
      BY <2>2, <3>1
  <2>4. \A i \in 1 .. m + 1 : i # 1 => i - 1 \in 1 .. m
    OBVIOUS
  <2>5. \A i \in 1 .. m + 1 : g[i] = IF i = 1 THEN seqs[i] ELSE g[i - 1] \o seqs[i]
    BY <2>2, <2>3, <2>4
  <2>6. Flattens(g, seqs, m + 1)
    BY <2>2, <2>5 DEF Flattens
  <2> QED
    BY <1>1, <2>6
<1>4. n \in T
  <2>1. \A m \in 0 .. n - 1 : m \in Nat
    OBVIOUS
  <2> QED
    BY <1>2, <1>3, <2>1, UpTo
<1>5. \E f : Flattens(f, seqs, n)
  BY <1>1, <1>4
<1>6. PICK g : g = CHOOSE f : Flattens(f, seqs, n)
  OBVIOUS
<1>7. Flattens(g, seqs, n)
  BY <1>5, <1>6
<1>8. FlattenSeq(seqs) = g[n]
  BY <1>6 DEF FlattenSeq, Flattens
<1> QED
  BY <1>7, <1>8

\* What the sequences hold is all that is in what they are put together to.
LEMMA FlattenHolds ==
    ASSUME NEW n \in Nat, n > 0, NEW seqs, Len(seqs) = n, NEW S, \A i \in 1 .. n : seqs[i] \in Seq(S)
    PROVE  FlattenSeq(seqs) \in Seq(S)
<1>1. PICK f : Flattens(f, seqs, n) /\ FlattenSeq(seqs) = f[n]
  BY FlattenInSteps
<1>2. PICK T : T = {m \in 0 .. n : m = 0 \/ f[m] \in Seq(S)}
  OBVIOUS
<1>3. ASSUME NEW m \in 0 .. n - 1, m \in T
      PROVE  m + 1 \in T
  <2>0. \A i \in 1 .. n : f[i] = IF i = 1 THEN seqs[i] ELSE f[i - 1] \o seqs[i]
    BY <1>1, Zenon DEF Flattens
  <2>1. m + 1 \in 1 .. n /\ f[m + 1] = IF m + 1 = 1 THEN seqs[m + 1] ELSE f[m + 1 - 1] \o seqs[m + 1]
    BY <2>0
  <2>2. seqs[m + 1] \in Seq(S)
    BY <2>1
  <2>3. m # 0 => f[m] \in Seq(S)
    BY <1>2, <1>3
  <2>4. m + 1 - 1 = m
    OBVIOUS
  <2>5. f[m + 1] \in Seq(S)
    BY <2>1, <2>2, <2>3, <2>4
  <2>6. m + 1 \in 0 .. n
    OBVIOUS
  <2> QED
    BY <1>2, <2>5, <2>6
<1>4. n \in T
  <2>1. 0 \in T /\ \A m \in 0 .. n - 1 : m \in T => m + 1 \in T
    BY <1>2, <1>3
  <2> QED
    BY <2>1, UpTo
<1> QED
  BY <1>1, <1>2, <1>4

\* A configuration is decoded part by part, and has the files and the tls blocks
\* of its text.
LEMMA PartsDecoded ==
    ASSUME NEW c \in Configs
    PROVE  /\ BlocksShape(c)
           /\ \E n \in Nat : n > 0 /\ DOMAIN c.sites = 1 .. n /\ Len(c.sites) = n
           /\ \A i \in DOMAIN c.sites : IsSequence(c.sites[i].routes)
           /\ \A name \in DOMAIN c.backends :
                  \E b : /\ c.backends[name] = DecodeBackend(b) /\ LoadsBackend(b) /\ BackendShape(b)
                         /\ b.targets = c.backends[name].targets
           /\ \A i \in DOMAIN c.sites :
                  \E s : /\ c.sites[i] = DecodeSite(s) /\ LoadsSite(s) /\ TimeoutShape(s.timeout)
                         /\ {"routes", "valid", "target", "backend", "timeout", "tls", "policy"} \subseteq DOMAIN s
                         /\ \A j \in DOMAIN s.routes : TimeoutShape(s.routes[j].timeout)
<1>1. PICK text \in Texts : LoadsConfig(text) /\ c = DecodeConfig(text)
  BY DEF Configs
<1>2. /\ {"sites", "log", "backends", "valid", "files"} \subseteq DOMAIN text
      /\ \A name \in DOMAIN text.backends : BackendShape(text.backends[name])
      /\ IsSequence(text.sites) /\ BlocksShape(text)
      /\ \A i \in DOMAIN text.sites :
            /\ {"routes", "hosts", "valid", "target", "backend", "timeout", "tls", "policy"} \subseteq DOMAIN text.sites[i]
            /\ TimeoutShape(text.sites[i].timeout) /\ IsSequence(text.sites[i].routes)
            /\ \A j \in DOMAIN text.sites[i].routes : RouteShape(text.sites[i].routes[j])
  BY <1>1, TextsAssumption
<1>3. /\ c.files = text.files
      /\ c.backends = [name \in DOMAIN text.backends |-> DecodeBackend(text.backends[name])]
      /\ c.sites = [i \in DOMAIN text.sites |-> DecodeSite(text.sites[i])]
  BY <1>1, <1>2 DEF DecodeConfig
<1>4. DOMAIN c.sites = DOMAIN text.sites /\ DOMAIN c.backends = DOMAIN text.backends
  BY <1>3
<1>5. \A i \in DOMAIN c.sites :
          /\ c.sites[i] = DecodeSite(text.sites[i]) /\ c.sites[i].tls = text.sites[i].tls
          /\ c.sites[i].routes = [j \in DOMAIN text.sites[i].routes |-> DecodeRoute(text.sites[i].routes[j])]
  BY <1>2, <1>3, <1>4 DEF DecodeSite
<1>6. \A name \in DOMAIN c.backends :
          /\ c.backends[name] = DecodeBackend(text.backends[name])
          /\ c.backends[name].tls = text.backends[name].tls
          /\ c.backends[name].targets = text.backends[name].targets
  <2>1. \A b : \A d : d = DecodeBackend(b) => d.tls = b.tls /\ d.targets = b.targets
    BY DEF DecodeBackend
  <2> QED
    BY <1>3, <1>4, <2>1
<1>7. \E n \in Nat : n > 0 /\ DOMAIN c.sites = 1 .. n /\ Len(c.sites) = n
  <2>1. PICK n \in Nat : DOMAIN text.sites = 1 .. n /\ Len(text.sites) = n
    BY <1>2 DEF IsSequence
  <2>2. c.sites = [i \in 1 .. n |-> DecodeSite(text.sites[i])]
    BY <1>3, <2>1
  <2>3. Len(c.sites) = n
    BY <2>2
  <2>4. n > 0
    <3>1. text.sites # <<>>
      BY <1>1 DEF LoadsConfig
    <3>2. CASE n = 0
      <4>1. DOMAIN text.sites = {}
        BY <2>1, <3>2
      <4> QED
        BY <2>1, <3>1, <3>2, <4>1
    <3> QED
      BY <2>1, <3>2
  <2> QED
    BY <1>4, <2>1, <2>3, <2>4
<1>8. \A i \in DOMAIN c.sites : IsSequence(c.sites[i].routes)
  <2> TAKE i \in DOMAIN c.sites
  <2>1. PICK n \in Nat : DOMAIN text.sites[i].routes = 1 .. n
    BY <1>2, <1>4 DEF IsSequence
  <2>2. PICK r : r = [j \in 1 .. n |-> DecodeRoute(text.sites[i].routes[j])] /\ c.sites[i].routes = r
    BY <1>5, <2>1
  <2> QED
    BY <2>2 DEF IsSequence
<1>9. TLSBlocks(c) \subseteq TLSBlocks(text)
  <2> SUFFICES ASSUME NEW tls \in TLSBlocks(c)
               PROVE  tls \in TLSBlocks(text)
    OBVIOUS
  <2>1. IsSet(tls)
    BY DEF TLSBlocks
  <2>2. CASE \E name \in DOMAIN c.backends : tls = c.backends[name].tls
    BY <1>4, <1>6, <2>1, <2>2 DEF TLSBlocks
  <2>3. CASE \E i \in DOMAIN c.sites : tls = c.sites[i].tls
    BY <1>4, <1>5, <2>1, <2>3 DEF TLSBlocks
  <2>4. CASE \E i \in DOMAIN c.sites : \E r \in ToSet(c.sites[i].routes) : tls = r.tls
    <3>1. PICK i \in DOMAIN c.sites : \E j \in DOMAIN c.sites[i].routes : tls = c.sites[i].routes[j].tls
      BY <2>4 DEF ToSet
    <3>2. PICK j \in DOMAIN text.sites[i].routes : tls = DecodeRoute(text.sites[i].routes[j]).tls
      <4>1. PICK routes : routes = text.sites[i].routes
        OBVIOUS
      <4>2. c.sites[i].routes = [j \in DOMAIN routes |-> DecodeRoute(routes[j])]
        BY <1>5, <4>1
      <4>3. \A j \in DOMAIN c.sites[i].routes : j \in DOMAIN routes /\ c.sites[i].routes[j] = DecodeRoute(routes[j])
        BY <4>2
      <4> QED
        BY <3>1, <4>1, <4>3
    <3>3. tls = text.sites[i].routes[j].tls
      BY <3>2 DEF DecodeRoute
    <3>4. text.sites[i].routes[j] \in ToSet(text.sites[i].routes)
      BY DEF ToSet
    <3> QED
      BY <1>4, <2>1, <3>3, <3>4 DEF TLSBlocks
  <2> QED
    BY <2>2, <2>3, <2>4 DEF TLSBlocks
<1>10. BlocksShape(c)
  BY <1>2, <1>3, <1>9 DEF BlocksShape
<1>11. \A name \in DOMAIN c.backends :
          \E b : /\ c.backends[name] = DecodeBackend(b) /\ LoadsBackend(b) /\ BackendShape(b)
                 /\ b.targets = c.backends[name].targets
  BY <1>1, <1>2, <1>4, <1>6 DEF LoadsConfig
<1>12. \A i \in DOMAIN c.sites :
          \E s : /\ c.sites[i] = DecodeSite(s) /\ LoadsSite(s) /\ TimeoutShape(s.timeout)
                 /\ {"routes", "valid", "target", "backend", "timeout", "tls", "policy"} \subseteq DOMAIN s
                 /\ \A j \in DOMAIN s.routes : TimeoutShape(s.routes[j].timeout)
  <2> TAKE i \in DOMAIN c.sites
  <2>1. LoadsSite(text.sites[i])
    BY <1>1, <1>4 DEF LoadsConfig
  <2>2. \A j \in DOMAIN text.sites[i].routes : TimeoutShape(text.sites[i].routes[j].timeout)
    BY <1>2, <1>4 DEF RouteShape
  <2>3. /\ {"routes", "valid", "target", "backend", "timeout", "tls", "policy"} \subseteq DOMAIN text.sites[i]
        /\ TimeoutShape(text.sites[i].timeout) /\ c.sites[i] = DecodeSite(text.sites[i])
    <3>1. i \in DOMAIN text.sites
      BY <1>4
    <3> QED
      BY <1>2, <1>5, <3>1
  <2>4. PICK s : s = text.sites[i]
    OBVIOUS
  <2> QED
    BY <2>1, <2>2, <2>3, <2>4
<1> QED
  BY <1>7, <1>8, <1>10, <1>11, <1>12

\* The steps of newSite are those of the sites and their routes.
LEMMA StepsAreOfSites ==
    ASSUME NEW c \in Configs
    PROVE  /\ IsSequence(Steps(c.sites))
           /\ \A k \in DOMAIN Steps(c.sites) :
                  LET step == Steps(c.sites)[k]
                  IN /\ step[1] \in DOMAIN c.sites
                     /\ step[2] = 0 \/ step[2] \in DOMAIN c.sites[step[1]].routes
<1>1. PICK n \in Nat : n > 0 /\ DOMAIN c.sites = 1 .. n
  BY PartsDecoded
<1>2. PICK S : S = UNION {{<<i, k>> : k \in {0} \cup DOMAIN c.sites[i].routes} : i \in 1 .. n}
  OBVIOUS
<1>3. PICK seqs : seqs = [s \in DOMAIN c.sites |-> [k \in 1 .. Len(c.sites[s].routes) + 1 |-> <<s, k - 1>>]]
  OBVIOUS
<1>4. Steps(c.sites) = FlattenSeq(seqs)
  BY <1>3 DEF Steps
<1>5. Len(seqs) = n
  <2>1. seqs = [s \in 1 .. n |-> [k \in 1 .. Len(c.sites[s].routes) + 1 |-> <<s, k - 1>>]]
    BY <1>1, <1>3
  <2> QED
    BY <2>1
<1>6. ASSUME NEW i \in 1 .. n
      PROVE  seqs[i] \in Seq(S)
  <2>1. PICK m \in Nat : Len(c.sites[i].routes) = m /\ DOMAIN c.sites[i].routes = 1 .. m
    BY <1>1, PartsDecoded DEF IsSequence
  <2>2. seqs[i] = [k \in 1 .. m + 1 |-> <<i, k - 1>>]
    BY <1>1, <1>3, <2>1
  <2>3. \A k \in 1 .. m + 1 : <<i, k - 1>> \in S
    <3> TAKE k \in 1 .. m + 1
    <3>1. k - 1 \in Nat /\ k - 1 \in {0} \cup DOMAIN c.sites[i].routes
      BY <2>1
    <3> QED
      BY <1>2, <3>1
  <2>4. m + 1 \in Nat
    OBVIOUS
  <2>5. \A j \in 1 .. m + 1 : seqs[i][j] \in S
    BY <2>2, <2>3
  <2> QED
    BY <2>2, <2>3, <2>4
<1>7. FlattenSeq(seqs) \in Seq(S)
  BY <1>1, <1>5, <1>6, FlattenHolds
<1>8. \A step \in S : /\ step[1] \in DOMAIN c.sites
                      /\ step[2] = 0 \/ step[2] \in DOMAIN c.sites[step[1]].routes
  BY <1>1, <1>2
<1> QED
  BY <1>4, <1>7, <1>8 DEF IsSequence

-----------------------------------------------------------------------------
(* Why a build is refused.                                                 *)

\* The contents the files begin with.
Stored == {config.files[path] : path \in DOMAIN config.files}

\* What LoadedBuilds allows as a reason to refuse.
Reason ==
    \/ ~config.valid \/ edits > 0 \/ Stored \notin {{}, {1}, {2}}
    \/ \E name \in DOMAIN config.backends :
           ~Distinct(config.backends[name].targets) \/ "malformed" \in ToSet(config.backends[name].targets)
    \/ \E s \in DOMAIN config.sites : BadSite(config.sites[s], DOMAIN config.backends)

LEMMA ReasonIsTheProperty == LoadedBuilds <=> (phase = "refused" => Reason)
BY DEF LoadedBuilds, Reason, Stored, BadSite, BadlyNamed, BadTLS

\* Until a file is replaced, what is read and loaded are contents the files
\* began with, and as many of them as the block at hand has paths.
FilesInv ==
    /\ edits \in Nat
    /\ phase = "text" => loaded = <<>>
    /\ phase = "sites" => DOMAIN config.backends \subseteq DOMAIN backends
    /\ phase = "sites" /\ reading # NotReading => reading.block = Upstream.tls.block
    /\ edits = 0 =>
        /\ files = config.files
        /\ reading.contents \in Seq(Stored)
        /\ reading # NotReading =>
               \A tls \in TLSBlocks(config) : tls.block = reading.block => Len(reading.contents) <= Len(Paths(tls))
        /\ \A block \in DOMAIN loaded :
               /\ loaded[block] \in Seq(Stored)
               /\ \A tls \in TLSBlocks(config) : tls.block = block => Len(loaded[block]) = Len(Paths(tls))

\* The step at hand is one of a site or a route.
LEMMA StepIsOfSite ==
    ASSUME config \in Configs, AtStep, Sequence(proxies)
    PROVE  /\ Step[1] \in DOMAIN config.sites
           /\ Step[2] = 0 \/ Step[2] \in DOMAIN Site.routes
<1>1. PICK m \in Nat : Len(Steps(config.sites)) = m /\ DOMAIN Steps(config.sites) = 1 .. m
  BY StepsAreOfSites DEF IsSequence
<1>2. Len(proxies) \in Nat /\ Len(proxies) < m
  BY <1>1 DEF AtStep, Sequence
<1>3. Len(proxies) + 1 \in DOMAIN Steps(config.sites)
  BY <1>1, <1>2
<1> QED
  BY <1>3, StepsAreOfSites DEF Step, Site

\* The tls block of a step is one of the configuration.
LEMMA StepBlock ==
    ASSUME config \in Configs, AtStep, Sequence(proxies), IsSet(Upstream.tls)
    PROVE  Upstream.tls \in TLSBlocks(config)
<1>1. Step[1] \in DOMAIN config.sites /\ (Step[2] = 0 \/ Step[2] \in DOMAIN Site.routes)
  BY StepIsOfSite
<1>2. Upstream.tls = Site.tls \/ (Step[2] # 0 /\ Upstream.tls = Route.tls)
  BY DEF Upstream, RouteUpstream
<1>3. CASE Upstream.tls = Site.tls
  BY <1>1, <1>3 DEF TLSBlocks, Site
<1>4. CASE Step[2] # 0 /\ Upstream.tls = Route.tls
  <2>1. Route \in ToSet(Site.routes)
    BY <1>1, <1>4 DEF ToSet, Route
  <2>2. Route.tls \in {r.tls : r \in ToSet(config.sites[Step[1]].routes)}
    BY <2>1 DEF Site
  <2> QED
    BY <1>1, <1>4, <2>2 DEF TLSBlocks
<1> QED
  BY <1>2, <1>3, <1>4

\* A step is accepted when there is nothing wrong with the sites.
LEMMA StepAccepted ==
    ASSUME config \in Configs, AtStep, Sequence(proxies),
           DOMAIN config.backends \subseteq DOMAIN backends,
           \A s \in DOMAIN config.sites : ~BadSite(config.sites[s], DOMAIN config.backends)
    PROVE  AcceptsStep
<1>1. Step[1] \in DOMAIN config.sites /\ (Step[2] = 0 \/ Step[2] \in DOMAIN Site.routes)
  BY StepIsOfSite
<1>2. Site = config.sites[Step[1]]
  BY DEF Site
<1>3. ~BadSite(Site, DOMAIN backends)
  <2>1. ~BadSite(Site, DOMAIN config.backends)
    BY <1>1, <1>2
  <2>2. \A u : ~BadlyNamed(u, DOMAIN config.backends) => ~BadlyNamed(u, DOMAIN backends)
    BY DEF BadlyNamed
  <2> QED
    BY <2>1, <2>2 DEF BadSite
<1>4. PICK text : /\ Site = DecodeSite(text) /\ LoadsSite(text) /\ TimeoutShape(text.timeout)
                  /\ {"routes", "valid", "target", "backend", "timeout", "tls", "policy"} \subseteq DOMAIN text
                  /\ \A j \in DOMAIN text.routes : TimeoutShape(text.routes[j].timeout)
  BY <1>1, <1>2, PartsDecoded
<1>5. PICK names : names = DOMAIN backends
  OBVIOUS
<1>6. /\ Site.target = text.target /\ Site.backend = text.backend
      /\ Site.routes = [i \in DOMAIN text.routes |-> DecodeRoute(text.routes[i])]
      /\ ValidateDirectTimeout(Site.timeout)
      /\ IsSet(Site.target) # IsSet(Site.backend)
      /\ IsSet(Site.backend) => ~IsSet(Site.timeout)
      /\ ~BadSite(Site, names) => Site.valid /\ AcceptsUpstream(Site, names)
  BY <1>4, LoadedSite
<1>7. CASE Step[2] = 0
  <2>1. ~Generates
    BY <1>7 DEF Generates
  <2> QED
    BY <1>3, <1>5, <1>6, <1>7, <2>1 DEF AcceptsStep, Upstream
<1>8. CASE Step[2] # 0
  <2>1. Step[2] \in DOMAIN text.routes /\ Route = DecodeRoute(text.routes[Step[2]])
    BY <1>1, <1>6, <1>8 DEF Route
  <2>2. LoadsRoute(text.routes[Step[2]], text) /\ TimeoutShape(text.routes[Step[2]].timeout)
    BY <1>4, <2>1 DEF LoadsSite
  <2>3. /\ ~BadlyNamed(Site, names) /\ (IsSet(Site.tls) => Site.target = "https")
        /\ ~BadlyNamed(Route, names) /\ ~BadTLS(Site, Route)
    BY <1>1, <1>3, <1>5, <1>8 DEF BadSite, Route
  <2>4. PICK r, s : r = Route /\ s = Site
    OBVIOUS
  <2>5. /\ r.valid
        /\ IF IsSet(r.respond) THEN AcceptsRespond(r) ELSE AcceptsUpstream(RouteUpstream(s, r), names)
    BY <1>6, <2>1, <2>2, <2>3, <2>4, LoadedRoute
  <2>6. Step[2] \in Nat /\ Step[2] > 0
    <3>1. IsSequence(Site.routes)
      BY <1>1, <1>2, PartsDecoded
    <3> QED
      BY <1>1, <1>8, <3>1 DEF IsSequence
  <2>7. Generates <=> IsSet(r.respond)
    BY <2>4, <2>6 DEF Generates
  <2> QED
    BY <1>5, <1>8, <2>4, <2>5, <2>7 DEF AcceptsStep, Upstream
<1> QED
  BY <1>7, <1>8

\* The paths of a block are those of files.
LEMMA PathsAreFiles ==
    ASSUME NEW c \in Configs, NEW tls \in TLSBlocks(c)
    PROVE  IsSet(tls) /\ Paths(tls) \in Seq(DOMAIN c.files)
<1>1. IsSet(tls)
  BY DEF TLSBlocks
<1>2. LoadsUpstreamTLS(tls)
  <2>1. CASE \E name \in DOMAIN c.backends : tls = c.backends[name].tls
    <3>1. PICK name \in DOMAIN c.backends : tls = c.backends[name].tls
      BY <2>1
    <3>2. PICK b : c.backends[name] = DecodeBackend(b) /\ LoadsBackend(b)
      BY PartsDecoded
    <3>3. DecodeBackend(b).tls = b.tls
      BY DEF DecodeBackend
    <3> QED
      BY <3>1, <3>2, <3>3 DEF LoadsBackend
  <2>2. ASSUME NEW i \in DOMAIN c.sites
        PROVE  \E s : /\ c.sites[i].tls = s.tls /\ c.sites[i].routes = [j \in DOMAIN s.routes |-> DecodeRoute(s.routes[j])]
                      /\ LoadsUpstreamTLS(s.tls)
                      /\ \A j \in DOMAIN s.routes : LoadsUpstreamTLS(s.routes[j].tls)
    <3>1. PICK s : /\ c.sites[i] = DecodeSite(s) /\ LoadsSite(s) /\ TimeoutShape(s.timeout)
                   /\ {"routes", "valid", "target", "backend", "timeout", "tls", "policy"} \subseteq DOMAIN s
      BY PartsDecoded
    <3>2. c.sites[i].tls = s.tls /\ c.sites[i].routes = [j \in DOMAIN s.routes |-> DecodeRoute(s.routes[j])]
      BY <3>1, LoadedSite
    <3>3. LoadsUpstreamTLS(s.tls) /\ \A j \in DOMAIN s.routes : LoadsUpstreamTLS(s.routes[j].tls)
      BY <3>1 DEF LoadsSite, LoadsRoute
    <3> QED
      BY <3>2, <3>3
  <2>3. CASE \E i \in DOMAIN c.sites : tls = c.sites[i].tls
    BY <2>2, <2>3
  <2>4. CASE \E i \in DOMAIN c.sites : \E r \in ToSet(c.sites[i].routes) : tls = r.tls
    <3>1. PICK i \in DOMAIN c.sites : \E j \in DOMAIN c.sites[i].routes : tls = c.sites[i].routes[j].tls
      BY <2>4 DEF ToSet
    <3>2. PICK routes : /\ c.sites[i].routes = [j \in DOMAIN routes |-> DecodeRoute(routes[j])]
                        /\ \A j \in DOMAIN routes : LoadsUpstreamTLS(routes[j].tls)
      BY <2>2
    <3>3. PICK j \in DOMAIN routes : tls = DecodeRoute(routes[j]).tls
      BY <3>1, <3>2
    <3>4. tls = routes[j].tls
      BY <3>3 DEF DecodeRoute
    <3> QED
      BY <3>2, <3>4
  <2> QED
    BY <2>1, <2>3, <2>4 DEF TLSBlocks
<1>3. PICK F : F = DOMAIN c.files
  OBVIOUS
<1>4. /\ IsSet(tls.ca) => tls.ca \in F
      /\ IsSet(tls.cert) => tls.cert \in F /\ tls.key \in F
  <2>1. {tls.ca, tls.cert, tls.key} \ {Unset} \subseteq F
    BY <1>3, PartsDecoded DEF BlocksShape
  <2>2. IsSet(tls.cert) = IsSet(tls.key)
    BY <1>1, <1>2 DEF LoadsUpstreamTLS
  <2> QED
    BY <2>1, <2>2 DEF IsSet
<1>5. PICK first : first = (IF IsSet(tls.ca) THEN <<tls.ca>> ELSE <<>>)
  OBVIOUS
<1>6. PICK rest : rest = (IF ~IsSet(tls.cert) THEN <<>>
                          ELSE IF tls.cert = tls.key THEN <<tls.cert>> ELSE <<tls.cert, tls.key>>)
  OBVIOUS
<1>7. first \in Seq(F)
  <2>1. <<>> \in Seq(F) /\ (tls.ca \in F => <<tls.ca>> \in Seq(F))
    OBVIOUS
  <2> QED
    BY <1>4, <1>5, <2>1
<1>8. rest \in Seq(F)
  <2>1. /\ <<>> \in Seq(F)
        /\ tls.cert \in F => <<tls.cert>> \in Seq(F)
        /\ tls.cert \in F /\ tls.key \in F => <<tls.cert, tls.key>> \in Seq(F)
    OBVIOUS
  <2> QED
    BY <1>4, <1>6, <2>1
<1>9. Paths(tls) = first \o rest
  BY <1>1, <1>5, <1>6, Zenon DEF Paths
<1> QED
  BY <1>1, <1>3, <1>7, <1>8, <1>9

\* Reading the next file of a block reads what was stored in it.
LEMMA ReadsStored ==
    ASSUME config \in Configs, FilesInv, edits = 0, NEW tls \in TLSBlocks(config),
           reading = NotReading \/ reading.block = tls.block, ReadFile(tls)
    PROVE  /\ reading'.contents \in Seq(Stored) /\ reading'.block = tls.block
           /\ \A other \in TLSBlocks(config) :
                  other.block = tls.block => Len(reading'.contents) <= Len(Paths(other))
<1>1. PICK contents : contents = reading.contents
  OBVIOUS
<1>2. PICK paths : paths = Paths(tls)
  OBVIOUS
<1>3. paths \in Seq(DOMAIN config.files) /\ contents \in Seq(Stored) /\ files = config.files
  BY <1>1, <1>2, PathsAreFiles DEF FilesInv
<1>4. Len(contents) # Len(paths)
  BY <1>1, <1>2 DEF ReadFile, ReadAll
<1>5. Len(contents) <= Len(paths)
  <2>1. CASE reading = NotReading
    <3>1. contents = <<>>
      BY <1>1, <2>1 DEF NotReading
    <3> QED
      BY <1>3, <3>1
  <2>2. CASE reading # NotReading
    BY <1>1, <1>2, <2>2 DEF FilesInv
  <2> QED
    BY <2>1, <2>2
<1>6. Len(contents) \in Nat /\ Len(contents) + 1 \in 1 .. Len(paths)
  BY <1>3, <1>4, <1>5
<1>7. PICK content : content = files[paths[Len(contents) + 1]]
  OBVIOUS
<1>8. content \in Stored
  <2>1. paths[Len(contents) + 1] \in DOMAIN config.files
    BY <1>3, <1>6
  <2> QED
    BY <1>3, <1>7, <2>1 DEF Stored
<1>9. reading' = [block |-> tls.block, contents |-> Append(contents, content)]
  BY <1>1, <1>2, <1>7 DEF ReadFile
<1>10. Append(contents, content) \in Seq(Stored) /\ Len(Append(contents, content)) = Len(contents) + 1
  BY <1>3, <1>8
<1>11. \A other \in TLSBlocks(config) : other.block = tls.block => Paths(other) = paths
  BY <1>2, PartsDecoded DEF BlocksShape
<1> QED
  BY <1>6, <1>9, <1>10, <1>11

\* What is known to be read of good files is usable.
LEMMA StoredUsable ==
    ASSUME NEW tls, IsSet(tls), FilesInv, edits = 0, Stored \in {{}, {1}, {2}}, ReadAll(tls)
    PROVE  /\ Len(reading.contents) = Len(Paths(tls)) /\ Usable(tls, reading.contents)
<1>1. reading.contents \in Seq(Stored)
  BY DEF FilesInv
<1>2. Bad \notin ToSet(reading.contents)
  BY <1>1, BadAssumption DEF ToSet
<1>3. Len(reading.contents) = Len(Paths(tls))
  BY <1>2 DEF ReadAll
<1> QED
  BY <1>1, <1>3, AlikeUsable

\* A backend is refused for a reason,
LEMMA BackendRefusedForReason ==
    ASSUME config \in Configs, FilesInv, NEW name \in DOMAIN config.backends, BackendRefused(name)
    PROVE  Reason
<1> SUFFICES ASSUME ~Reason
             PROVE  FALSE
  OBVIOUS
<1>1. PICK cfg : cfg = config.backends[name]
  OBVIOUS
<1>2. /\ edits = 0 /\ Stored \in {{}, {1}, {2}}
      /\ Distinct(cfg.targets) /\ "malformed" \notin ToSet(cfg.targets)
  BY <1>1 DEF Reason, FilesInv
<1>3. PICK b : cfg = DecodeBackend(b) /\ LoadsBackend(b) /\ BackendShape(b) /\ b.targets = cfg.targets
  BY <1>1, PartsDecoded
<1>4. AcceptsBackend(cfg)
  BY <1>2, <1>3, LoadedBackend
<1>5. IsSet(cfg.tls) /\ ReadAll(cfg.tls) /\ ~Usable(cfg.tls, reading.contents)
  BY <1>1, <1>4 DEF BackendRefused
<1> QED
  BY <1>2, <1>5, StoredUsable

\* and so is a site or a route.
LEMMA StepRefusedForReason ==
    ASSUME config \in Configs, FilesInv, Sequence(proxies), StepRefused
    PROVE  Reason
<1> SUFFICES ASSUME ~Reason
             PROVE  FALSE
  OBVIOUS
<1>1. /\ edits = 0 /\ Stored \in {{}, {1}, {2}}
      /\ \A s \in DOMAIN config.sites : ~BadSite(config.sites[s], DOMAIN config.backends)
  BY DEF Reason, FilesInv
<1>2. AtStep /\ DOMAIN config.backends \subseteq DOMAIN backends
  BY DEF StepRefused, AtStep, FilesInv
<1>3. AcceptsStep
  BY <1>1, <1>2, StepAccepted
<1>4. IsSet(Upstream.tls) /\ StepRead /\ ~Usable(Upstream.tls, Contents)
  BY <1>3 DEF StepRefused
<1>5. PICK tls : tls = Upstream.tls
  OBVIOUS
<1>6. tls \in TLSBlocks(config)
  BY <1>2, <1>4, <1>5, StepBlock
<1>7. CASE Known(Upstream.tls)
  <2>1. Contents = loaded[tls.block] /\ tls.block \in DOMAIN loaded
    BY <1>5, <1>7 DEF Contents, Known
  <2>2. loaded[tls.block] \in Seq(Stored) /\ Len(loaded[tls.block]) = Len(Paths(tls))
    BY <1>1, <1>6, <2>1 DEF FilesInv
  <2> QED
    BY <1>1, <1>4, <1>5, <2>1, <2>2, AlikeUsable
<1>8. CASE ~Known(Upstream.tls)
  <2>1. ReadAll(tls) /\ Contents = reading.contents
    BY <1>4, <1>5, <1>8 DEF StepRead, Contents
  <2> QED
    BY <1>1, <1>4, <1>5, <2>1, StoredUsable
<1> QED
  BY <1>7, <1>8

\* A transport is made of what was read of the files of the step's own block.
LEMMA StepWithTransportKeepsFiles ==
    ASSUME config \in Configs, OwnInv, FilesInv, StepWithTransport
    PROVE  FilesInv'
<1>1. PICK u : u = Upstream
  OBVIOUS
<1>2. PICK contents : contents = Contents
  OBVIOUS
<1>3. /\ AtStep /\ phase = "sites" /\ phase' = "sites" /\ reading' = NotReading
      /\ UNCHANGED <<config, files, edits, backends>>
      /\ Known(u.tls) \/ ReadAll(u.tls)
      /\ IsSet(u.tls) => Usable(u.tls, contents)
      /\ loaded' = IF IsSet(u.tls) THEN Put(loaded, u.tls.block, contents) ELSE loaded
  BY <1>1, <1>2, Zenon DEF StepWithTransport, AtStep, StepRead
<1>4. ASSUME edits = 0, IsSet(u.tls)
      PROVE  /\ contents \in Seq(Stored)
             /\ \A tls \in TLSBlocks(config) : tls.block = u.tls.block => Len(contents) = Len(Paths(tls))
  <2>1. u.tls \in TLSBlocks(config)
    BY <1>1, <1>3, <1>4, StepBlock DEF OwnInv, TransportsAreOwn
  <2>2. CASE Known(u.tls)
    <3>1. contents = loaded[u.tls.block] /\ u.tls.block \in DOMAIN loaded
      BY <1>1, <1>2, <2>2 DEF Contents, Known
    <3> QED
      BY <1>4, <3>1 DEF FilesInv
  <2>3. CASE ~Known(u.tls)
    <3>1. contents = reading.contents /\ ReadAll(u.tls)
      BY <1>1, <1>2, <1>3, <2>3 DEF Contents
    <3>2. Bad \notin ToSet(contents)
      BY <1>3, <1>4 DEF Usable
    <3>3. contents \in Seq(Stored) /\ Len(contents) = Len(Paths(u.tls))
      BY <1>4, <3>1, <3>2 DEF ReadAll, FilesInv
    <3>4. \A tls \in TLSBlocks(config) : tls.block = u.tls.block => tls = u.tls
      BY <2>1, PartsDecoded DEF BlocksShape
    <3> QED
      BY <3>3, <3>4
  <2> QED
    BY <2>2, <2>3
<1>5. \A block \in DOMAIN loaded' :
          \/ block \in DOMAIN loaded /\ loaded'[block] = loaded[block]
          \/ IsSet(u.tls) /\ block = u.tls.block /\ loaded'[block] = contents
  BY <1>3 DEF Put
<1>6. UNCHANGED <<Stored, TLSBlocks(config)>>
  BY <1>3 DEF Stored, TLSBlocks
<1>7. ASSUME edits = 0
      PROVE  \A block \in DOMAIN loaded' :
                 /\ loaded'[block] \in Seq(Stored)
                 /\ \A tls \in TLSBlocks(config) : tls.block = block => Len(loaded'[block]) = Len(Paths(tls))
  BY <1>4, <1>5, <1>7 DEF FilesInv
<1>8. reading'.contents = <<>>
  BY <1>3 DEF NotReading
<1> QED
  BY <1>3, <1>6, <1>7, <1>8 DEF FilesInv, NotReading, Paths

\* What leaves the files, what is read of them and what is loaded alone.
LEMMA FilesUntouched ==
    ASSUME FilesInv, UNCHANGED <<config, files, edits, reading, loaded>>,
           phase' = "text" => phase = "text",
           phase' = "sites" => /\ DOMAIN config.backends \subseteq DOMAIN backends'
                               /\ reading = NotReading \/ (phase = "sites" /\ UNCHANGED proxies)
    PROVE  FilesInv'
<1>1. UNCHANGED <<Stored, TLSBlocks(config), NotReading>>
  BY DEF Stored, TLSBlocks, NotReading
<1>2. UNCHANGED proxies => UNCHANGED Upstream
  BY DEF Upstream, Site, Route, Step
<1> QED
  BY <1>1, <1>2 DEF FilesInv, Paths

\* Every step of the build keeps what is known of the files.
LEMMA BuildKeepsFiles ==
    ASSUME OwnInv, LoadedInv, FilesInv, Build
    PROVE  FilesInv'
<1>1. CASE LoadConfig
  <2>1. config \in Texts /\ LoadsConfig(config) /\ config' = DecodeConfig(config)
    BY <1>1 DEF LoadConfig, LoadedInv
  <2>2. config'.files = config.files
    <3>1. {"sites", "backends", "files"} \subseteq DOMAIN config
      BY <2>1, TextsAssumption
    <3> QED
      BY <2>1, <3>1 DEF DecodeConfig
  <2>3. /\ reading = NotReading /\ loaded = <<>> /\ phase' = "backends"
        /\ UNCHANGED <<files, edits, reading, loaded>>
    BY <1>1 DEF LoadConfig, OwnInv, ReadingIsAtHand, FilesInv
  <2>4. reading'.contents = <<>> /\ reading' = NotReading' /\ DOMAIN loaded' = {}
    BY <2>3 DEF NotReading
  <2> QED
    BY <2>2, <2>3, <2>4 DEF FilesInv
<1>2. CASE LoadFails
  BY <1>2, FilesUntouched DEF LoadFails
<1>3. CASE ReplaceFile
  <2>1. /\ UNCHANGED <<config, phase, backends, reading, loaded, proxies>> /\ edits' = edits + 1
    BY <1>3 DEF ReplaceFile
  <2>2. UNCHANGED <<Upstream, NotReading>>
    BY <2>1 DEF Upstream, Site, Route, Step, NotReading
  <2>3. edits' \in Nat /\ edits' # 0
    BY <2>1 DEF FilesInv
  <2> QED
    BY <2>1, <2>2, <2>3 DEF FilesInv
<1>4. ASSUME Refuse
      PROVE  FilesInv'
  BY <1>4, FilesUntouched DEF Refuse
<1>5. ASSUME NEW name \in DOMAIN config.backends, BackendReads(name)
      PROVE  FilesInv'
  <2>1. PICK tls : tls = config.backends[name].tls
    OBVIOUS
  <2>2. /\ phase = "backends" /\ ReadFile(tls) /\ config \in Configs
        /\ reading = NotReading \/ (IsSet(tls) /\ tls.block = reading.block)
    BY <1>5, <2>1 DEF BackendReads, AtBackend, LoadedInv
  <2>3. IsSet(tls)
    BY <2>2 DEF ReadFile, ReadAll, Paths, NotReading
  <2>4. tls \in TLSBlocks(config)
    BY <2>1, <2>3 DEF TLSBlocks
  <2>5. UNCHANGED <<config, files, edits, phase, loaded>>
    BY <2>2 DEF ReadFile
  <2>6. UNCHANGED <<Stored, TLSBlocks(config)>>
    BY <2>5 DEF Stored, TLSBlocks
  <2>7. edits = 0 => /\ reading'.contents \in Seq(Stored) /\ reading'.block = tls.block
                     /\ \A other \in TLSBlocks(config) :
                            other.block = tls.block => Len(reading'.contents) <= Len(Paths(other))
    BY <2>2, <2>4, ReadsStored
  <2> QED
    BY <2>2, <2>5, <2>6, <2>7 DEF FilesInv, Paths
<1>6. ASSUME NEW name \in DOMAIN config.backends, BackendBuilt(name)
      PROVE  FilesInv'
  <2>1. /\ phase = "backends" /\ UNCHANGED <<config, files, edits, phase, loaded>> /\ reading' = NotReading
    BY <1>6 DEF BackendBuilt, AtBackend
  <2>2. UNCHANGED <<Stored, TLSBlocks(config)>> /\ reading'.contents = <<>> /\ reading' = NotReading'
    BY <2>1 DEF Stored, TLSBlocks, NotReading
  <2> QED
    BY <2>1, <2>2 DEF FilesInv, Paths
<1>7. CASE BackendsBuilt
  <2>1. /\ DOMAIN config.backends \subseteq DOMAIN backends /\ reading = NotReading
    BY <1>7 DEF BackendsBuilt, BackendsLeft, OwnInv, ReadingIsAtHand
  <2> QED
    BY <1>7, <2>1, FilesUntouched DEF BackendsBuilt
<1>8. CASE StepReads
  <2>1. PICK tls : tls = Upstream.tls
    OBVIOUS
  <2>2. /\ AtStep /\ phase = "sites" /\ ReadFile(tls) /\ config \in Configs
        /\ reading = NotReading \/ reading.block = tls.block
    BY <1>8, <2>1 DEF StepReads, AtStep, LoadedInv, FilesInv
  <2>3. IsSet(tls)
    <3>1. CASE reading = NotReading
      BY <2>2, <3>1 DEF ReadFile, ReadAll, Paths, NotReading
    <3>2. CASE reading # NotReading
      BY <2>1, <2>2, <3>2 DEF OwnInv, ReadingIsAtHand
    <3> QED
      BY <3>1, <3>2
  <2>4. tls \in TLSBlocks(config)
    BY <2>1, <2>2, <2>3, StepBlock DEF OwnInv, TransportsAreOwn
  <2>5. UNCHANGED <<config, files, edits, phase, backends, loaded, proxies>> /\ reading'.block = tls.block
    BY <2>2 DEF ReadFile
  <2>6. UNCHANGED <<Stored, TLSBlocks(config), Upstream>>
    BY <2>5 DEF Stored, TLSBlocks, Upstream, Site, Route, Step
  <2>7. edits = 0 => /\ reading'.contents \in Seq(Stored)
                     /\ \A other \in TLSBlocks(config) :
                            other.block = tls.block => Len(reading'.contents) <= Len(Paths(other))
    BY <2>2, <2>4, ReadsStored
  <2> QED
    BY <2>1, <2>2, <2>5, <2>6, <2>7 DEF FilesInv, Paths
<1>9. CASE StepWithoutTransport
  <2>1. reading = NotReading
    BY <1>9 DEF StepWithoutTransport, AtStep, AcceptsStep, AcceptsUpstream, OwnInv, ReadingIsAtHand
  <2> QED
    BY <1>9, <2>1, FilesUntouched DEF StepWithoutTransport, AtStep, FilesInv
<1>10. CASE StepWithTransport
  BY <1>10, StepWithTransportKeepsFiles DEF StepWithTransport, AtStep, LoadedInv
<1>11. CASE SitesBuilt
  BY <1>11, FilesUntouched DEF SitesBuilt
<1> QED
  BY <1>1, <1>2, <1>3, <1>4, <1>5, <1>6, <1>7, <1>8, <1>9, <1>10, <1>11
  DEF Build, ProxiesRefused, BackendRefused, StepRefused

\* Whichever step refuses, it has a reason.
LEMMA BuildRefusesForReason ==
    ASSUME OwnInv, LoadedInv, FilesInv, LoadedBuilds, Build
    PROVE  LoadedBuilds'
<1>1. ASSUME Refuse, Reason
      PROVE  LoadedBuilds'
  <2>1. UNCHANGED <<config, edits>>
    BY <1>1 DEF Refuse
  <2>2. UNCHANGED Stored
    BY <2>1 DEF Stored
  <2>3. Reason'
    BY <1>1, <2>1, <2>2 DEF Reason
  <2> QED
    BY <2>3, ReasonIsTheProperty, PTL
<1>2. CASE ProxiesRefused
  BY <1>1, <1>2 DEF ProxiesRefused, Reason
<1>3. ASSUME NEW name \in DOMAIN config.backends, BackendRefused(name)
      PROVE  LoadedBuilds'
  BY <1>1, <1>3, BackendRefusedForReason DEF BackendRefused, AtBackend, LoadedInv
<1>4. CASE StepRefused
  BY <1>1, <1>4, StepRefusedForReason DEF StepRefused, AtStep, LoadedInv, OwnInv, TransportsAreOwn
<1>5. ASSUME phase' # "refused"
      PROVE  LoadedBuilds'
  BY <1>5 DEF LoadedBuilds
<1>6. \/ phase' # "refused" \/ ProxiesRefused \/ StepRefused
      \/ \E name \in DOMAIN config.backends : BackendRefused(name)
  BY DEF Build, LoadConfig, LoadFails, ReplaceFile, BackendReads, BackendBuilt, AtBackend, ReadFile, BackendsBuilt,
         StepReads, StepWithoutTransport, StepWithTransport, AtStep, SitesBuilt
<1> QED
  BY <1>2, <1>3, <1>4, <1>5, <1>6

\* decodeConfig and newRouter, which judge the same options in two places, agree:
\* a text that loads is refused only for a name that is badly written or names
\* nothing, for tls towards a target without it, or for its files.
THEOREM RefusedForReason == Spec => []LoadedBuilds
<1>1. Init => FilesInv /\ LoadedBuilds
  <2>1. \A S : <<>> \in Seq(S)
    OBVIOUS
  <2> QED
    BY <2>1 DEF Init, BuildInit, FilesInv, NotReading, LoadedBuilds
<1>2. OwnInv /\ LoadedInv /\ FilesInv /\ LoadedBuilds /\ [Next]_vars => (FilesInv /\ LoadedBuilds)'
  <2>1. ASSUME FilesInv, LoadedBuilds, UNCHANGED buildVars
        PROVE  (FilesInv /\ LoadedBuilds)'
    <3>1. FilesInv'
      BY <2>1, FilesUntouched DEF buildVars, FilesInv
    <3>2. phase = "refused" => Reason
      BY <2>1, ReasonIsTheProperty
    <3>3. UNCHANGED Stored
      BY <2>1 DEF buildVars, Stored
    <3>4. (phase = "refused" => Reason)'
      BY <2>1, <3>2, <3>3 DEF buildVars, Reason
    <3>5. LoadedBuilds'
      BY <3>4, ReasonIsTheProperty, PTL
    <3> QED
      BY <3>1, <3>5
  <2> QED
    BY <2>1, BuildKeepsFiles, BuildRefusesForReason, ServingKeepsRouter DEF Next, vars
<1> QED
  BY <1>1, <1>2, OwnInvariance, BuiltInvariance, PTL DEF Spec
=============================================================================
