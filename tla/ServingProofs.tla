---------------------------- MODULE ServingProofs ----------------------------
(***************************************************************************)
(* What a request is served with, for every configuration, request and     *)
(* answer: the site that asks for its host most specifically               *)
(* (SiteIsMostSpecific), one best route whichever way it is looked up      *)
(* (SelectionAgrees), one ID in everything the client is sent (OneID), an  *)
(* access record that tells the response (RecordTellsTheResponse),         *)
(* forwarding headers the next hop reads as kubio does (NextHopAgrees),    *)
(* and a path of which stripping and rewriting change only the prefix      *)
(* (PathReachesUpstream).                                                  *)
(*                                                                         *)
(* ServingInv is the inductive invariant.  Of a lookup, which folds an     *)
(* operator over a set, the proofs know what the fold does with one member *)
(* and show the rest by the least number of members it might fail for.     *)
(***************************************************************************)
EXTENDS RouterBuildProofs

-----------------------------------------------------------------------------
(* The sites and routes of a configuration.                                *)

\* A configuration is what a text that loads is decoded to.
LEMMA ConfigDecoded ==
    ASSUME NEW c \in Configs
    PROVE  /\ c.log \in BOOLEAN
           /\ \E n \in Nat : n > 0 /\ DOMAIN c.sites = 1 .. n
           /\ \A i \in DOMAIN c.sites : \E n \in Nat : DOMAIN c.sites[i].routes = 1 .. n
           /\ \A i \in DOMAIN c.sites : \A j \in DOMAIN c.sites[i].routes :
                  IsSet(c.sites[i].routes[j].respond) => c.sites[i].routes[j].respond.status \in 200 .. 599
<1>1. PICK text \in Texts : LoadsConfig(text) /\ c = DecodeConfig(text)
  BY DEF Configs
<1>2. /\ {"sites", "log"} \subseteq DOMAIN text /\ text.log \in BOOLEAN
      /\ IsSequence(text.sites)
      /\ \A i \in DOMAIN text.sites :
            {"routes", "hosts"} \subseteq DOMAIN text.sites[i] /\ IsSequence(text.sites[i].routes)
  BY <1>1, TextsAssumption
<1>3. c.log = text.log /\ c.sites = [i \in DOMAIN text.sites |-> DecodeSite(text.sites[i])]
  BY <1>1, <1>2 DEF DecodeConfig
<1>4. DOMAIN c.sites = DOMAIN text.sites /\ DOMAIN text.sites # {}
  <2>1. text.sites # <<>>
    BY <1>1 DEF LoadsConfig
  <2>2. DOMAIN text.sites = 1 .. Len(text.sites) /\ Len(text.sites) \in Nat
    BY <1>2 DEF IsSequence
  <2> QED
    BY <1>3, <2>1, <2>2
<1>5. \E n \in Nat : n > 0 /\ DOMAIN c.sites = 1 .. n
  BY <1>2, <1>4 DEF IsSequence
<1>6. ASSUME NEW i \in DOMAIN c.sites
      PROVE  /\ DOMAIN c.sites[i].routes = DOMAIN text.sites[i].routes
             /\ \A j \in DOMAIN c.sites[i].routes :
                    c.sites[i].routes[j] = DecodeRoute(text.sites[i].routes[j])
  <2>1. i \in DOMAIN text.sites /\ "routes" \in DOMAIN text.sites[i] /\ c.sites[i] = DecodeSite(text.sites[i])
    BY <1>2, <1>3, <1>4
  <2>2. c.sites[i].routes = [j \in DOMAIN text.sites[i].routes |-> DecodeRoute(text.sites[i].routes[j])]
    BY <2>1 DEF DecodeSite
  <2> QED
    BY <2>2
<1>7. ASSUME NEW i \in DOMAIN c.sites, NEW j \in DOMAIN c.sites[i].routes, IsSet(c.sites[i].routes[j].respond)
      PROVE  c.sites[i].routes[j].respond.status \in 200 .. 599
  <2>1. PICK r : r = text.sites[i].routes[j] /\ c.sites[i].routes[j] = DecodeRoute(r)
    BY <1>6
  <2>2. LoadsRespond(r.respond)
    <3>1. LoadsSite(text.sites[i])
      BY <1>1, <1>4 DEF LoadsConfig
    <3>2. LoadsRoute(r, text.sites[i])
      BY <1>6, <2>1, <3>1 DEF LoadsSite
    <3> QED
      BY <3>2 DEF LoadsRoute
  <2>3. c.sites[i].routes[j].respond = DecodeRespond(r.respond)
    BY <2>1 DEF DecodeRoute
  <2> QED
    BY <1>7, <2>2, <2>3 DEF DecodeRespond, LoadsRespond, IsSet
<1>8. ASSUME NEW i \in DOMAIN c.sites PROVE \E n \in Nat : DOMAIN c.sites[i].routes = 1 .. n
  <2>1. IsSequence(text.sites[i].routes)
    BY <1>2, <1>4
  <2> QED
    BY <1>6, <2>1 DEF IsSequence
<1> QED
  BY <1>2, <1>3, <1>5, <1>7, <1>8

\* The site that is selected is one of the configuration's.
LEMMA SelectedSite ==
    ASSUME NEW sites, NEW n \in Nat, n > 0, DOMAIN sites = 1 .. n, NEW host
    PROVE  SelectSite(sites, host) \in {0} \cup DOMAIN sites
<1>1. ASSUME NEW pattern
      PROVE  Owner(sites, pattern) \in {0} \cup DOMAIN sites
  <2>1. PICK owners : owners = {i \in DOMAIN sites : pattern \in sites[i].hosts}
    OBVIOUS
  <2>2. owners # {} => Min(owners) \in owners
    BY <2>1, MinIsIn
  <2> QED
    BY <2>1, <2>2 DEF Owner
<1>2. 1 \in DOMAIN sites
  OBVIOUS
<1> QED
  BY <1>1, <1>2 DEF SelectSite

\* The hosts of a configuration's sites are patterns.
LEMMA HostsDecoded ==
    ASSUME NEW c \in Configs, NEW i \in DOMAIN c.sites
    PROVE  c.sites[i].hosts \subseteq HostPattern
<1>1. PICK text \in Texts : LoadsConfig(text) /\ c = DecodeConfig(text)
  BY DEF Configs
<1>2. /\ {"sites", "log"} \subseteq DOMAIN text
      /\ \A j \in DOMAIN text.sites :
            {"routes", "hosts"} \subseteq DOMAIN text.sites[j] /\ text.sites[j].hosts \subseteq HostPattern
  BY <1>1, TextsAssumption
<1>3. c.sites = [j \in DOMAIN text.sites |-> DecodeSite(text.sites[j])]
  BY <1>1, <1>2 DEF DecodeConfig
<1>4. i \in DOMAIN text.sites /\ c.sites[i] = DecodeSite(text.sites[i])
  BY <1>3
<1>5. c.sites[i].hosts = text.sites[i].hosts
  BY <1>2, <1>4 DEF DecodeSite
<1> QED
  BY <1>2, <1>4, <1>5

\* A host is below one label of a name.
IsBelow(host) == host # <<>> /\ Head(host) # "" /\ Len(host) >= 2

\* How specifically a site with these patterns asks for a host.
HowAsks(hosts, host) ==
    IF Exact(host) \in hosts THEN 2
    ELSE IF IsBelow(host) /\ Wildcard(Tail(host)) \in hosts THEN 1
    ELSE IF AnyHost \in hosts THEN 0 ELSE -1

\* A pattern that matches a host is one of three.
LEMMA PatternsOfHost ==
    ASSUME NEW host \in Seq(STRING), NEW p \in HostPattern
    PROVE  /\ HostMatches(p, host) <=>
                  (p = Exact(host) \/ p = AnyHost \/ (IsBelow(host) /\ p = Wildcard(Tail(host))))
           /\ Specificity(p) = IF p.kind = "exact" THEN 2 ELSE IF p.kind = "wildcard" THEN 1 ELSE 0
<1>1. Specificity(p) = IF p.kind = "exact" THEN 2 ELSE IF p.kind = "wildcard" THEN 1 ELSE 0
  BY DEF Specificity
<1>2. \/ p = AnyHost
      \/ p = Exact(p.labels) /\ p.labels \in Seq(STRING)
      \/ p = Wildcard(p.labels) /\ p.labels \in Seq(STRING) /\ p.labels # <<>>
  BY DEF HostPattern, AnyHost, Exact, Wildcard
<1>3. CASE p = AnyHost
  <2>1. HostMatches(p, host)
    BY <1>3 DEF AnyHost, HostMatches
  <2> QED
    BY <1>1, <1>3, <2>1
<1>4. CASE p = Exact(p.labels)
  <2>1. p.kind = "exact" /\ p # AnyHost /\ p # Wildcard(Tail(host))
    BY <1>4 DEF AnyHost, Exact, Wildcard
  <2>2. p = Exact(host) <=> p.labels = host
    BY <1>4 DEF Exact
  <2>3. HostMatches(p, host) <=> host = p.labels
    BY <2>1 DEF HostMatches
  <2> QED
    BY <1>1, <2>1, <2>2, <2>3
<1>5. CASE p = Wildcard(p.labels) /\ p.labels \in Seq(STRING) /\ p.labels # <<>>
  <2>1. p.kind = "wildcard" /\ p # AnyHost /\ p # Exact(host)
    BY <1>5 DEF AnyHost, Exact, Wildcard
  <2>2. p = Wildcard(Tail(host)) <=> p.labels = Tail(host)
    BY <1>5 DEF Wildcard
  <2>3. HostMatches(p, host) <=> host # <<>> /\ Head(host) # "" /\ Tail(host) = p.labels
    BY <2>1 DEF HostMatches
  <2>4. host # <<>> /\ Tail(host) = p.labels => Len(host) >= 2
    <3>1. host # <<>> => /\ Len(host) \in Nat
                         /\ Len(host) >= 1
                         /\ Tail(host) \in Seq(STRING)
                         /\ Len(Tail(host)) = Len(host) - 1
      OBVIOUS
    <3>2. Len(p.labels) # 0
      BY <1>5
    <3> QED
      BY <3>1, <3>2
  <2>5. IsBelow(host) <=> host # <<>> /\ Head(host) # "" /\ Len(host) >= 2
    BY DEF IsBelow
  <2> QED
    BY <1>1, <2>1, <2>2, <2>3, <2>4, <2>5
<1> QED
  BY <1>2, <1>3, <1>4, <1>5

\* What a site's patterns come to.
LEMMA AsksSo ==
    ASSUME NEW s, config.sites[s].hosts \subseteq HostPattern, NEW host \in Seq(STRING)
    PROVE  Asks(s, host) = HowAsks(config.sites[s].hosts, host)
<1>1. PICK hosts : hosts = config.sites[s].hosts
  OBVIOUS
<1>2. PICK S : S = {-1} \cup {Specificity(p) : p \in {q \in hosts : HostMatches(q, host)}}
  OBVIOUS
<1>3. Asks(s, host) = Max(S)
  BY <1>1, <1>2 DEF Asks
<1>4. PICK E : E = Exact(host)
  OBVIOUS
<1>5. PICK W : W = Wildcard(Tail(host))
  OBVIOUS
<1>6. PICK A : A = AnyHost
  OBVIOUS
<1>7. /\ E.kind = "exact" /\ W.kind = "wildcard" /\ A.kind = "any"
      /\ \A p \in hosts :
            /\ HostMatches(p, host) <=> (p = E \/ p = A \/ (IsBelow(host) /\ p = W))
            /\ Specificity(p) = IF p.kind = "exact" THEN 2 ELSE IF p.kind = "wildcard" THEN 1 ELSE 0
  <2>1. E.kind = "exact" /\ W.kind = "wildcard" /\ A.kind = "any"
    BY <1>4, <1>5, <1>6 DEF Exact, Wildcard, AnyHost
  <2>2. hosts \subseteq HostPattern
    BY <1>1
  <2> QED
    BY <1>4, <1>5, <1>6, <2>1, <2>2, PatternsOfHost
<1>8. \A v : v \in S <=> \/ v = -1
                         \/ v = 2 /\ E \in hosts
                         \/ v = 1 /\ IsBelow(host) /\ W \in hosts
                         \/ v = 0 /\ A \in hosts
  <2>1. ASSUME NEW v \in S PROVE \/ v = -1
                                 \/ v = 2 /\ E \in hosts
                                 \/ v = 1 /\ IsBelow(host) /\ W \in hosts
                                 \/ v = 0 /\ A \in hosts
    <3>1. CASE v = -1
      BY <3>1
    <3>2. ASSUME NEW p \in hosts, HostMatches(p, host), v = Specificity(p)
          PROVE  \/ v = 2 /\ E \in hosts
                 \/ v = 1 /\ IsBelow(host) /\ W \in hosts
                 \/ v = 0 /\ A \in hosts
      BY <1>7, <3>2
    <3> QED
      BY <1>2, <3>1, <3>2
  <2>2. E \in hosts => 2 \in S
    BY <1>2, <1>7
  <2>3. IsBelow(host) /\ W \in hosts => 1 \in S
    BY <1>2, <1>7
  <2>4. A \in hosts => 0 \in S
    BY <1>2, <1>7
  <2>5. -1 \in S
    BY <1>2
  <2> QED
    BY <2>1, <2>2, <2>3, <2>4, <2>5
<1>9. PICK m : m = HowAsks(hosts, host)
  OBVIOUS
<1>10. m = IF E \in hosts THEN 2 ELSE IF IsBelow(host) /\ W \in hosts THEN 1 ELSE IF A \in hosts THEN 0 ELSE -1
  BY <1>4, <1>5, <1>6, <1>9 DEF HowAsks
<1>11. m \in S /\ S \subseteq Int /\ \A i \in S : m >= i
  BY <1>8, <1>10
<1>12. Max(S) = m
  BY <1>11, MaxIs
<1> QED
  BY <1>1, <1>3, <1>9, <1>12

\* As many sites are served as the domain of their sequence has.
LEMMA LenOfSites ==
    ASSUME NEW c \in Configs, NEW n \in Nat, DOMAIN c.sites = 1 .. n
    PROVE  Len(c.sites) = n
<1>1. PICK f : f = c.sites
  OBVIOUS
<1>2. f = [i \in 1 .. n |-> f[i]]
  <2>1. PICK text \in Texts : LoadsConfig(text) /\ c = DecodeConfig(text)
    BY DEF Configs
  <2>2. {"sites", "log"} \subseteq DOMAIN text
    BY <2>1, TextsAssumption
  <2>3. f = [i \in DOMAIN text.sites |-> DecodeSite(text.sites[i])]
    BY <1>1, <2>1, <2>2 DEF DecodeConfig
  <2>4. DOMAIN text.sites = 1 .. n
    BY <1>1, <2>3
  <2> QED
    BY <2>3, <2>4
<1>3. \A i \in 1 .. n : f[i] \in {f[j] : j \in 1 .. n}
  OBVIOUS
<1>4. f \in Seq({f[j] : j \in 1 .. n})
  BY <1>2, <1>3
<1> QED
  BY <1>1, <1>4

\* The maps of newRouter give the first of the sites that ask most specifically.
LEMMA MostSpecificFound ==
    ASSUME config \in Configs, NEW host \in Seq(STRING), SelectSite(config.sites, host) # 0
    PROVE  SelectSite(config.sites, host) = MostSpecificSite(host)
<1>1. PICK n \in Nat : n > 0 /\ DOMAIN config.sites = 1 .. n
  BY ConfigDecoded
<1>2. PICK D : D = 1 .. n
  OBVIOUS
<1>3. D = DOMAIN config.sites /\ D # {} /\ D \subseteq Nat /\ 0 \notin D
  <2>1. D = DOMAIN config.sites
    BY <1>1, <1>2
  <2>2. 1 \in D /\ D \subseteq Nat /\ 0 \notin D
    BY <1>1, <1>2
  <2> QED
    BY <2>1, <2>2
<1>4. PICK how : how = [s \in D |-> HowAsks(config.sites[s].hosts, host)]
  OBVIOUS
<1>5. \A s \in D : Asks(s, host) = how[s] /\ how[s] \in {-1, 0, 1, 2}
  BY <1>2, <1>3, <1>4, HostsDecoded, AsksSo DEF HowAsks
<1>6. PICK all : all = {Asks(s, host) : s \in DOMAIN config.sites}
  OBVIOUS
<1>7. all = {how[s] : s \in D} /\ all \subseteq Int
  BY <1>2, <1>3, <1>5, <1>6
<1>8. PICK best : best = Max(all)
  OBVIOUS
<1>9. MostSpecificSite(host) = IF best = -1 THEN 0 ELSE Min({s \in D : how[s] = best})
  <2>1. {s \in DOMAIN config.sites : Asks(s, host) = best} = {s \in D : how[s] = best}
    BY <1>2, <1>3, <1>5
  <2> QED
    BY <1>6, <1>8, <2>1 DEF MostSpecificSite
<1>10. ASSUME NEW m \in {0, 1, 2}, NEW s \in D, how[s] = m, \A t \in D : m >= how[t]
      PROVE  MostSpecificSite(host) = Min({t \in D : how[t] = m})
  <2>1. m \in all /\ \A i \in all : m >= i
    BY <1>7, <1>10
  <2>2. best = m
    BY <1>7, <1>8, <2>1, MaxIs
  <2> QED
    BY <1>9, <2>2
<1>11. ASSUME NEW pattern
       PROVE  /\ Owner(config.sites, pattern) # 0 <=> \E s \in D : pattern \in config.sites[s].hosts
              /\ Owner(config.sites, pattern) # 0 =>
                     Owner(config.sites, pattern) = Min({s \in D : pattern \in config.sites[s].hosts})
  <2>1. PICK owners : owners = {i \in DOMAIN config.sites : pattern \in config.sites[i].hosts}
    OBVIOUS
  <2>2. owners \subseteq D
    BY <1>2, <1>3, <2>1
  <2>3. owners # {} => Min(owners) \in D
    BY <1>2, <1>3, <2>2, MinIsIn
  <2> QED
    BY <1>2, <1>3, <2>1, <2>3 DEF Owner
<1>12. CASE Len(config.sites) = 1
  <2>1. SelectSite(config.sites, host) = 1 /\ \E p \in config.sites[1].hosts : HostMatches(p, host)
    BY <1>12 DEF SelectSite
  <2>2. D = {1}
    <3>1. n = 1
      BY <1>1, <1>12, LenOfSites
    <3> QED
      BY <1>2, <1>3, <3>1
  <2>3. how[1] # -1
    <3>1. PICK p \in config.sites[1].hosts : HostMatches(p, host)
      BY <2>1
    <3>2. p \in HostPattern
      BY <1>2, <1>3, <2>2, <3>1, HostsDecoded
    <3>3. p = Exact(host) \/ p = AnyHost \/ (IsBelow(host) /\ p = Wildcard(Tail(host)))
      BY <3>1, <3>2, PatternsOfHost
    <3> QED
      BY <1>4, <2>2, <3>1, <3>3 DEF HowAsks
  <2>4. how[1] \in {0, 1, 2} /\ \A t \in D : how[1] >= how[t]
    BY <1>5, <2>2, <2>3
  <2>5. MostSpecificSite(host) = Min({t \in D : how[t] = how[1]})
    BY <1>10, <2>2, <2>4
  <2>6. {t \in D : how[t] = how[1]} = {1}
    BY <2>2
  <2>7. Min({1}) = 1
    <3>1. PICK S : S = {1}
      OBVIOUS
    <3>2. S \subseteq Int /\ 1 \in S /\ \A i \in S : 1 <= i
      BY <3>1
    <3>3. Min(S) = 1
      BY <3>2, MinIs
    <3> QED
      BY <3>1, <3>3
  <2> QED
    BY <2>1, <2>5, <2>6, <2>7
<1>13. CASE Len(config.sites) # 1
  <2>1. PICK exact : exact = Owner(config.sites, Exact(host))
    OBVIOUS
  <2>2. PICK below : below = IF Len(host) < 2 \/ Head(host) = "" THEN 0 ELSE Owner(config.sites, Wildcard(Tail(host)))
    OBVIOUS
  <2>3. PICK star : star = Owner(config.sites, AnyHost)
    OBVIOUS
  <2>4. SelectSite(config.sites, host) = IF exact # 0 THEN exact ELSE IF below # 0 THEN below ELSE star
    BY <1>13, <2>1, <2>2, <2>3 DEF SelectSite
  <2>5. \A s \in D : /\ how[s] = 2 <=> Exact(host) \in config.sites[s].hosts
                     /\ how[s] = 1 => IsBelow(host)
                     /\ IsBelow(host) /\ how[s] # 2 => (how[s] = 1 <=> Wildcard(Tail(host)) \in config.sites[s].hosts)
                     /\ how[s] \notin {1, 2} => (how[s] = 0 <=> AnyHost \in config.sites[s].hosts)
    BY <1>4 DEF HowAsks
  <2>6. below # 0 => IsBelow(host)
    <3>1. Len(host) \in Nat
      OBVIOUS
    <3>2. host = <<>> => Len(host) = 0
      OBVIOUS
    <3>3. below # 0 => ~(Len(host) < 2) /\ Head(host) # ""
      BY <2>2
    <3>4. ~(Len(host) < 2) => Len(host) >= 2 /\ Len(host) # 0
      BY <3>1
    <3> QED
      BY <3>2, <3>3, <3>4 DEF IsBelow
  <2>7. IsBelow(host) => below = Owner(config.sites, Wildcard(Tail(host)))
    <3>1. Len(host) \in Nat
      OBVIOUS
    <3>2. IsBelow(host) => Head(host) # "" /\ Len(host) >= 2
      BY DEF IsBelow
    <3>3. Len(host) >= 2 => ~(Len(host) < 2)
      BY <3>1
    <3> QED
      BY <2>2, <3>2, <3>3
  <2>8. CASE exact # 0
    <3>1. exact = Min({s \in D : Exact(host) \in config.sites[s].hosts})
          /\ \E s \in D : Exact(host) \in config.sites[s].hosts
      BY <1>11, <2>1, <2>8
    <3>2. {s \in D : Exact(host) \in config.sites[s].hosts} = {s \in D : how[s] = 2}
      BY <2>5
    <3>3. PICK s \in D : how[s] = 2
      BY <2>5, <3>1
    <3>4. \A t \in D : 2 >= how[t]
      BY <1>5
    <3> QED
      BY <1>10, <2>4, <2>8, <3>1, <3>2, <3>3, <3>4
  <2>9. CASE exact = 0 /\ below # 0
    <3>1. \A s \in D : how[s] # 2
      BY <1>11, <2>1, <2>5, <2>9
    <3>2. below = Min({s \in D : Wildcard(Tail(host)) \in config.sites[s].hosts})
          /\ \E s \in D : Wildcard(Tail(host)) \in config.sites[s].hosts
      BY <1>11, <2>6, <2>7, <2>9
    <3>3. {s \in D : Wildcard(Tail(host)) \in config.sites[s].hosts} = {s \in D : how[s] = 1}
      BY <2>5, <2>6, <2>9, <3>1
    <3>4. PICK s \in D : how[s] = 1
      BY <3>2, <3>3
    <3>5. \A t \in D : 1 >= how[t]
      BY <1>5, <3>1
    <3> QED
      BY <1>10, <2>4, <2>9, <3>2, <3>3, <3>4, <3>5
  <2>10. CASE exact = 0 /\ below = 0
    <3>1. \A s \in D : how[s] # 2
      BY <1>11, <2>1, <2>5, <2>10
    <3>2. \A s \in D : how[s] # 1
      BY <1>11, <2>5, <2>7, <2>10, <3>1
    <3>3. star # 0 /\ SelectSite(config.sites, host) = star
      BY <2>4, <2>10
    <3>4. star = Min({s \in D : AnyHost \in config.sites[s].hosts})
          /\ \E s \in D : AnyHost \in config.sites[s].hosts
      BY <1>11, <2>3, <3>3
    <3>5. {s \in D : AnyHost \in config.sites[s].hosts} = {s \in D : how[s] = 0}
      BY <2>5, <3>1, <3>2
    <3>6. PICK s \in D : how[s] = 0
      BY <3>4, <3>5
    <3>7. \A t \in D : 0 >= how[t]
      BY <1>5, <3>1, <3>2
    <3> QED
      BY <1>10, <3>3, <3>4, <3>5, <3>6, <3>7
  <2> QED
    BY <2>8, <2>9, <2>10
<1> QED
  BY <1>12, <1>13

-----------------------------------------------------------------------------
(* The order of a site's routes.                                           *)

\* The members of a finite set have a number for a sum, if each counts for one.
LEMMA SumIsNumber ==
    ASSUME NEW x, IsFiniteSet(DOMAIN x), \A n \in DOMAIN x : IsFiniteSet(x[n])
    PROVE  SumOver(x) \in Nat
<1>1. PICK S : S = DOMAIN x
  OBVIOUS
<1> DEFINE IsFold(f) == f = [s \in SUBSET S |-> IF s = {} THEN 0
                                                ELSE Cardinality(x[CHOOSE n \in s : TRUE]) + f[s \ {CHOOSE n \in s : TRUE}]]
<1>2. SumOver(x) = (CHOOSE f : IsFold(f))[S]
  BY <1>1, Zenon DEF SumOver, MapThenSumSet, MapThenFoldSet
<1>3. PICK c : c = [s \in SUBSET S |-> CHOOSE n \in s : TRUE]
  OBVIOUS
<1>4. \A s \in SUBSET S : c[s] = (CHOOSE n \in s : TRUE) /\ (s # {} => c[s] \in s)
  BY <1>3
<1>5. PICK G : G = [y \in S \X Nat |-> Cardinality(x[y[1]]) + y[2]]
  OBVIOUS
<1>6. \A n \in S : \A v \in Nat : G[<<n, v>>] = Cardinality(x[n]) + v /\ G[<<n, v>>] \in Nat
  <2>1. \A n \in S : Cardinality(x[n]) \in Nat
    BY <1>1, FS_CardinalityType
  <2> QED
    BY <1>5, <2>1
<1>7. PICK h : FoldsBy(h, c, S, Nat, 0, G)
  <2>1. IsFiniteSet(S) /\ 0 \in Nat
    BY <1>1
  <2> HIDE DEF IsFold
  <2> QED
    BY <1>4, <1>6, <2>1, RecursionExists
<1>8. ASSUME NEW s \in SUBSET S, s # {}
      PROVE  h[s] = Cardinality(x[CHOOSE n \in s : TRUE]) + h[s \ {CHOOSE n \in s : TRUE}]
  <2>1. c[s] \in S /\ s \ {c[s]} \in SUBSET S
    BY <1>4, <1>8
  <2>2. h[s \ {c[s]}] \in Nat /\ h[s] = G[<<c[s], h[s \ {c[s]}]>>]
    BY <1>7, <1>8, <2>1, Zenon DEF FoldsBy
  <2>3. h[s] = Cardinality(x[c[s]]) + h[s \ {c[s]}]
    BY <1>6, <2>1, <2>2
  <2> HIDE DEF IsFold
  <2> QED
    BY <1>4, <2>3
<1>9. h = [s \in SUBSET S |-> h[s]] /\ h[{}] = 0
  BY <1>7, Zenon DEF FoldsBy
<1>10. IsFold(h)
  BY <1>8, <1>9
<1>11. PICK g : g = CHOOSE f : IsFold(f)
  OBVIOUS
<1>12. IsFold(g)
  <2> HIDE DEF IsFold
  <2> QED
    BY <1>10, <1>11
<1>13. SumOver(x) = g[S]
  <2> HIDE DEF IsFold
  <2> QED
    BY <1>2, <1>11
<1>14. /\ g[{}] = 0
       /\ \A s \in SUBSET S : s # {} => g[s] = Cardinality(x[c[s]]) + g[s \ {c[s]}]
  BY <1>4, <1>12
<1>15. ASSUME NEW s \in SUBSET S, s # {}, g[s \ {c[s]}] \in Nat
       PROVE  g[s] \in Nat
  <2>1. Cardinality(x[c[s]]) \in Nat
    <3>1. c[s] \in S
      BY <1>4, <1>15
    <3> QED
      BY <1>1, <3>1, FS_CardinalityType
  <2>2. g[s] = Cardinality(x[c[s]]) + g[s \ {c[s]}]
    BY <1>14, <1>15
  <2> QED
    BY <1>15, <2>1, <2>2
<1>16. g[S] \in Nat
  <2>1. IsFiniteSet(S) /\ g[{}] \in Nat
    BY <1>1, <1>14
  <2>2. \A s \in SUBSET S : s # {} => c[s] \in s
    BY <1>4
  <2>3. \A s \in SUBSET S : s # {} /\ g[s \ {c[s]}] \in Nat => g[s] \in Nat
    BY <1>15
  <2> HIDE DEF IsFold
  <2> QED
    BY <2>1, <2>2, <2>3, RecursionStays
<1> QED
  BY <1>13, <1>16

\* Of any two routes one is better, and what is better than the better one is
\* better than both.
Ordered(routes) ==
    \A i, j, k \in DOMAIN routes :
        /\ i # j => BetterRoute(routes, i, j) \/ BetterRoute(routes, j, i)
        /\ ~(BetterRoute(routes, i, j) /\ BetterRoute(routes, j, i))
        /\ BetterRoute(routes, i, j) /\ BetterRoute(routes, j, k) => BetterRoute(routes, i, k)

\* What betterRoute compares of a r, the most important first.
Ranked(r, i, rank) ==
    rank = <<IF r.pattern.wildcard THEN 0 ELSE 1, PathDepth(r.pattern.path),
             ConditionCount(r), -AlternativeCount(r), i>>

\* Rank a comes before rank b.
Before(a, b) ==
    \/ a[1] > b[1]
    \/ a[1] = b[1] /\ a[2] > b[2]
    \/ a[1] = b[1] /\ a[2] = b[2] /\ a[3] > b[3]
    \/ a[1] = b[1] /\ a[2] = b[2] /\ a[3] = b[3] /\ a[4] > b[4]
    \/ a[1] = b[1] /\ a[2] = b[2] /\ a[3] = b[3] /\ a[4] = b[4] /\ a[5] > b[5]

\* A rank is five numbers.
IsRank(a) == a[1] \in Int /\ a[2] \in Int /\ a[3] \in Int /\ a[4] \in Int /\ a[5] \in Int

\* Ranks are ordered.
LEMMA RanksOrdered ==
    ASSUME NEW a, IsRank(a), NEW b, IsRank(b), NEW c, IsRank(c)
    PROVE  /\ a[5] # b[5] => Before(a, b) \/ Before(b, a)
           /\ ~(Before(a, b) /\ Before(b, a))
           /\ Before(a, b) /\ Before(b, c) => Before(a, c)
<1>1. /\ a[1] \in Int /\ a[2] \in Int /\ a[3] \in Int /\ a[4] \in Int /\ a[5] \in Int
      /\ b[1] \in Int /\ b[2] \in Int /\ b[3] \in Int /\ b[4] \in Int /\ b[5] \in Int
      /\ c[1] \in Int /\ c[2] \in Int /\ c[3] \in Int /\ c[4] \in Int /\ c[5] \in Int
  BY DEF IsRank
<1>2. a[5] # b[5] => Before(a, b) \/ Before(b, a)
  BY <1>1 DEF Before
<1>3. ~(Before(a, b) /\ Before(b, a))
  BY <1>1 DEF Before
<1>4. Before(a, b) /\ Before(b, c) => Before(a, c)
  BY <1>1 DEF Before
<1> QED
  BY <1>2, <1>3, <1>4

\* A r is better than another if its rank comes before that one's.
LEMMA BetterIsBefore ==
    ASSUME NEW routes, NEW i, NEW j, NEW a, Ranked(routes[i], i, a), NEW b, Ranked(routes[j], j, b)
    PROVE  BetterRoute(routes, i, j) <=> Before(a, b)
<1>1. BetterRoute(routes, i, j) <=> \E k \in DOMAIN a : a[k] > b[k] /\ \A l \in 1 .. (k - 1) : a[l] = b[l]
  BY Zenon DEF BetterRoute, Ranked
<1>2. DOMAIN a = 1 .. 5
  BY DEF Ranked
<1>3. \A l : /\ l \in 1 .. (1 - 1) <=> FALSE
             /\ l \in 1 .. (2 - 1) <=> l = 1
             /\ l \in 1 .. (3 - 1) <=> l \in {1, 2}
             /\ l \in 1 .. (4 - 1) <=> l \in {1, 2, 3}
             /\ l \in 1 .. (5 - 1) <=> l \in {1, 2, 3, 4}
             /\ l \in 1 .. 5 <=> l \in {1, 2, 3, 4, 5}
  OBVIOUS
<1>4. BetterRoute(routes, i, j) =>  Before(a, b)
  <2> SUFFICES ASSUME NEW k \in {1, 2, 3, 4, 5}, a[k] > b[k], \A l \in 1 .. (k - 1) : a[l] = b[l]
               PROVE  Before(a, b)
    BY <1>1, <1>2, <1>3
  <2>1. k = 1 \/ k = 2 \/ k = 3 \/ k = 4 \/ k = 5
    OBVIOUS
  <2> QED
    BY <1>3, <2>1 DEF Before
<1>5. Before(a, b) => BetterRoute(routes, i, j)
  <2>1. ASSUME NEW k \in {1, 2, 3, 4, 5}, a[k] > b[k], \A l \in 1 .. (k - 1) : a[l] = b[l]
        PROVE  BetterRoute(routes, i, j)
    BY <1>1, <1>2, <1>3, <2>1
  <2>2. a[1] > b[1] => BetterRoute(routes, i, j)
    BY <1>3, <2>1
  <2>3. a[1] = b[1] /\ a[2] > b[2] => BetterRoute(routes, i, j)
    BY <1>3, <2>1
  <2>4. a[1] = b[1] /\ a[2] = b[2] /\ a[3] > b[3] => BetterRoute(routes, i, j)
    BY <1>3, <2>1
  <2>5. a[1] = b[1] /\ a[2] = b[2] /\ a[3] = b[3] /\ a[4] > b[4] => BetterRoute(routes, i, j)
    BY <1>3, <2>1
  <2>6. a[1] = b[1] /\ a[2] = b[2] /\ a[3] = b[3] /\ a[4] = b[4] /\ a[5] > b[5] => BetterRoute(routes, i, j)
    BY <1>3, <2>1
  <2> QED
    BY <2>2, <2>3, <2>4, <2>5, <2>6 DEF Before
<1> QED
  BY <1>4, <1>5

\* As many slashes as a path has is a number.
LEMMA DepthIsNumber ==
    ASSUME NEW path \in Seq(STRING)
    PROVE  PathDepth(path) \in Int
<1>1. Len(path) \in Nat /\ DOMAIN path = 1 .. Len(path)
  OBVIOUS
<1> DEFINE Inner(i) == /\ \E j \in 1..(i - 1) : path[j] # "/"
                       /\ \E j \in (i + 1)..Len(path) : path[j] # "/"
<1>2. PICK S : S = {i \in DOMAIN path : path[i] = "/" /\ Inner(i)}
  OBVIOUS
<1>3. S \subseteq 1 .. Len(path)
  BY <1>1, <1>2
<1>4. Cardinality(S) \in Nat
  <2>1. IsFiniteSet(1 .. Len(path))
    BY <1>1, FS_Interval
  <2> QED
    BY <1>3, <2>1, FS_Subset, FS_CardinalityType
<1>5. PathDepth(path) = IF path = <<>> \/ path = <<"/">> THEN 0 ELSE Cardinality(S) + 1
  BY <1>2, Zenon DEF PathDepth
<1> QED
  BY <1>4, <1>5

\* What a sequence holds is finitely much.
LEMMA FewInSequence ==
    ASSUME NEW s, IsSequence(s)
    PROVE  IsFiniteSet(ToSet(s))
<1>1. PICK n \in Nat : DOMAIN s = 1 .. n
  BY DEF IsSequence
<1>2. PICK f : f = [i \in 1 .. n |-> s[i]]
  OBVIOUS
<1>3. ToSet(s) = {s[i] : i \in 1 .. n}
  BY <1>1 DEF ToSet
<1>4. f \in Surjection(1 .. n, ToSet(s))
  BY <1>2, <1>3 DEF Surjection
<1>5. IsFiniteSet(1 .. n)
  BY FS_Interval
<1> QED
  BY <1>4, <1>5, FS_Surjection

\* There are as few prefixes after they are brought to IPv4 as before.
LEMMA FewPrefixes ==
    ASSUME NEW prefixes, IsFiniteSet(prefixes)
    PROVE  IsFiniteSet(NormalizeIPPrefixes(prefixes))
<1>1. PICK f : f = [p \in prefixes |-> NormalizeIPPrefix(p)]
  OBVIOUS
<1>2. f \in Surjection(prefixes, NormalizeIPPrefixes(prefixes))
  BY <1>1 DEF Surjection, NormalizeIPPrefixes
<1> QED
  BY <1>2, FS_Surjection

\* Conditions that are few have few alternatives.
LEMMA FewAlternatives ==
    ASSUME NEW conditions, FewConditions(conditions)
    PROVE  /\ IsFiniteSet(DOMAIN Alternatives(conditions))
           /\ \A n \in DOMAIN Alternatives(conditions) : IsFiniteSet(Alternatives(conditions)[n])
<1>1. CASE IsSet(conditions)
  <2>1. Alternatives(conditions) = [n \in DOMAIN conditions |-> ToSet(conditions[n])]
    BY <1>1 DEF Alternatives
  <2>2. IsFiniteSet(DOMAIN conditions) /\ \A n \in DOMAIN conditions : IsFiniteSet(ToSet(conditions[n]))
    BY <1>1, FewInSequence DEF FewConditions
  <2> QED
    BY <2>1, <2>2
<1>2. CASE ~IsSet(conditions)
  <2>1. Alternatives(conditions) = <<>>
    BY <1>2 DEF Alternatives
  <2>2. DOMAIN Alternatives(conditions) = {}
    BY <2>1
  <2> QED
    BY <2>2, FS_EmptySet
<1> QED
  BY <1>1, <1>2

\* A r's conditions and alternatives can be counted.
RouteCounts(r) ==
    /\ r.pattern.path \in Seq(STRING) /\ r.pattern.wildcard \in BOOLEAN
    /\ ConditionCount(r) \in Int /\ AlternativeCount(r) \in Int

\* So can those of every r that is decoded.
LEMMA DecodedCounts ==
    ASSUME NEW text, RouteShape(text)
    PROVE  RouteCounts(DecodeRoute(text))
<1>1. PICK match : match = Value(text.match, [header |-> Unset, query |-> Unset, ip |-> Unset])
  OBVIOUS
<1>2. PICK r : r = DecodeRoute(text)
  OBVIOUS
<1>3. /\ r.pattern = text.pattern /\ r.methods = ToSet(Value(text.methods, <<>>))
      /\ r.header = Alternatives(match.header) /\ r.query = Alternatives(match.query)
      /\ r.ip = Value(match.ip, {})
  BY <1>1, <1>2 DEF DecodeRoute
<1>4. FewConditions(match.header) /\ FewConditions(match.query) /\ (IsSet(match.ip) => IsFiniteSet(match.ip))
  <2>1. CASE IsSet(text.match)
    BY <1>1, <2>1 DEF Value, RouteShape
  <2>2. CASE ~IsSet(text.match)
    <3>1. match.header = Unset /\ match.query = Unset /\ match.ip = Unset
      BY <1>1, <2>2 DEF Value
    <3>2. ~IsSet(Unset)
      BY DEF IsSet
    <3> QED
      BY <3>1, <3>2 DEF FewConditions
  <2> QED
    BY <2>1, <2>2
<1>5. IsFiniteSet(r.methods)
  <2>1. IsSequence(Value(text.methods, <<>>))
    <3>1. IsSequence(<<>>)
      BY DEF IsSequence
    <3> QED
      BY <3>1 DEF Value, RouteShape
  <2> QED
    BY <1>3, <2>1, FewInSequence
<1>6. IsFiniteSet(r.ip)
  BY <1>3, <1>4, FS_EmptySet DEF Value
<1>7. /\ IsFiniteSet(DOMAIN r.header) /\ IsFiniteSet(DOMAIN r.query)
      /\ SumOver(r.header) \in Nat /\ SumOver(r.query) \in Nat
  BY <1>3, <1>4, FewAlternatives, SumIsNumber
<1>8. /\ Cardinality(DOMAIN r.header) \in Nat /\ Cardinality(DOMAIN r.query) \in Nat
      /\ Cardinality(r.methods) \in Nat
      /\ Cardinality(NormalizeIPPrefixes(r.ip)) \in Nat
  BY <1>5, <1>6, <1>7, FewPrefixes, FS_CardinalityType
<1>9. ConditionCount(r) \in Int
  BY <1>8 DEF ConditionCount
<1>10. AlternativeCount(r) \in Int
  BY <1>7, <1>8 DEF AlternativeCount
<1> QED
  BY <1>2, <1>3, <1>9, <1>10 DEF RouteCounts, RouteShape, PatternShape

\* So the routes of a site are ordered.
LEMMA RoutesOrdered ==
    ASSUME NEW routes, NEW n \in Nat, DOMAIN routes = 1 .. n, \A i \in DOMAIN routes : RouteCounts(routes[i])
    PROVE  Ordered(routes)
<1> DEFINE Of(i) == <<IF routes[i].pattern.wildcard THEN 0 ELSE 1, PathDepth(routes[i].pattern.path),
                      ConditionCount(routes[i]), -AlternativeCount(routes[i]), i>>
<1>1. PICK rank : rank = [i \in DOMAIN routes |-> Of(i)]
  OBVIOUS
<1>2. ASSUME NEW i \in DOMAIN routes
      PROVE  Ranked(routes[i], i, rank[i]) /\ IsRank(rank[i]) /\ rank[i][5] = i
  <2>1. rank[i] = Of(i)
    BY <1>1
  <2>2. Ranked(routes[i], i, rank[i])
    BY <2>1 DEF Ranked
  <2>3. PathDepth(routes[i].pattern.path) \in Int /\ ConditionCount(routes[i]) \in Int
        /\ -AlternativeCount(routes[i]) \in Int /\ i \in Int
    BY DepthIsNumber DEF RouteCounts
  <2>4. IsRank(rank[i]) /\ rank[i][5] = i
    BY <2>1, <2>3 DEF IsRank
  <2> QED
    BY <2>2, <2>4
<1>3. \A i, j \in DOMAIN routes : BetterRoute(routes, i, j) <=> Before(rank[i], rank[j])
  <2> HIDE DEF Of
  <2> QED
    BY <1>2, BetterIsBefore
<1>4. ASSUME NEW i \in DOMAIN routes, NEW j \in DOMAIN routes, NEW k \in DOMAIN routes
      PROVE  /\ i # j => BetterRoute(routes, i, j) \/ BetterRoute(routes, j, i)
             /\ ~(BetterRoute(routes, i, j) /\ BetterRoute(routes, j, i))
             /\ BetterRoute(routes, i, j) /\ BetterRoute(routes, j, k) => BetterRoute(routes, i, k)
  <2>1. /\ rank[i][5] # rank[j][5] => Before(rank[i], rank[j]) \/ Before(rank[j], rank[i])
        /\ ~(Before(rank[i], rank[j]) /\ Before(rank[j], rank[i]))
        /\ Before(rank[i], rank[j]) /\ Before(rank[j], rank[k]) => Before(rank[i], rank[k])
    <3> HIDE DEF Of
    <3> QED
      BY <1>2, RanksOrdered
  <2> HIDE DEF Of
  <2> QED
    BY <1>2, <1>3, <2>1
<1> QED
  BY <1>4 DEF Ordered

\* The routes of a site that is served can be counted and have paths.
LEMMA RoutesDecoded ==
    ASSUME NEW c \in Configs, NEW i \in DOMAIN c.sites
    PROVE  \A j \in DOMAIN c.sites[i].routes : RouteCounts(c.sites[i].routes[j])
<1>1. PICK text \in Texts : LoadsConfig(text) /\ c = DecodeConfig(text)
  BY DEF Configs
<1>2. /\ {"sites", "log"} \subseteq DOMAIN text
      /\ \A k \in DOMAIN text.sites :
            /\ {"routes", "hosts"} \subseteq DOMAIN text.sites[k]
            /\ \A j \in DOMAIN text.sites[k].routes : RouteShape(text.sites[k].routes[j])
  BY <1>1, TextsAssumption
<1>3. c.sites = [k \in DOMAIN text.sites |-> DecodeSite(text.sites[k])]
  BY <1>1, <1>2 DEF DecodeConfig
<1>4. i \in DOMAIN text.sites /\ c.sites[i] = DecodeSite(text.sites[i])
  BY <1>3
<1>5. c.sites[i].routes = [j \in DOMAIN text.sites[i].routes |-> DecodeRoute(text.sites[i].routes[j])]
  BY <1>2, <1>4 DEF DecodeSite
<1>6. ASSUME NEW j \in DOMAIN c.sites[i].routes
      PROVE  RouteCounts(c.sites[i].routes[j])
  <2>1. j \in DOMAIN text.sites[i].routes /\ c.sites[i].routes[j] = DecodeRoute(text.sites[i].routes[j])
    BY <1>5
  <2> QED
    BY <1>2, <1>4, <2>1, DecodedCounts
<1> QED
  BY <1>6

-----------------------------------------------------------------------------
(* The lookup of a route.                                                  *)

\* A route that matches replaces what is selected if it is better.
Considered(routes, req, trusted, i, selected) ==
    IF Matches(req, routes[i], trusted) /\ (selected = 0 \/ BetterRoute(routes, i, selected)) THEN i ELSE selected

\* Function f makes of each subset of S what considering its members in their
\* order makes of `best`.
Considers(f, routes, S, req, trusted, best) ==
    /\ f[{}] = best
    /\ \A s \in SUBSET S : s # {} =>
           f[s] = Considered(routes, req, trusted, Max(s), f[s \ {Max(s)}])

\* BestOf considers the candidates one by one.
LEMMA BestOfFolds ==
    ASSUME NEW routes, NEW req, NEW trusted, NEW best, NEW n \in Nat, NEW S, S \subseteq 0 .. n
    PROVE  \E f : /\ BestOf(routes, S, req, trusted, best) = f[S]
                  /\ Considers(f, routes, S, req, trusted, best)
<1> DEFINE Do(i, v) == Considered(routes, req, trusted, i, v)
           V == {best} \cup Nat
           IsFold(f) == f = [s \in SUBSET S |-> IF s = {} THEN best ELSE Do(Max(s), f[s \ {Max(s)}])]
<1>1. BestOf(routes, S, req, trusted, best) = (CHOOSE f : IsFold(f))[S]
  BY Zenon DEF BestOf, FoldInOrder, MapThenFoldSet, Considered
<1>2. PICK G : G = [x \in Nat \X V |-> Do(x[1], x[2])]
  OBVIOUS
<1>3. \A i \in Nat : \A v \in V : G[<<i, v>>] = Do(i, v) /\ Do(i, v) \in V
  BY <1>2 DEF Considered
<1>4. PICK h : FoldsWith(h, S, V, best, G)
  <2>1. \A i \in 0 .. n : i \in Nat
    OBVIOUS
  <2>2. best \in V /\ S \in SUBSET (0 .. n)
    OBVIOUS
  <2> HIDE DEF Do, V
  <2>3. \A i \in 0 .. n : \A v \in V : G[<<i, v>>] \in V
    BY <1>3, <2>1
  <2> QED
    BY <2>2, <2>3, FoldExists
<1>5. ASSUME NEW s \in SUBSET S, s # {}
      PROVE  h[s] = Do(Max(s), h[s \ {Max(s)}])
  <2>1. s \subseteq 0 .. n /\ s \ {Max(s)} \in SUBSET S
    OBVIOUS
  <2>2. Max(s) \in Nat
    <3>1. Max(s) \in s
      BY <1>5, <2>1, MaxIsIn
    <3>2. Max(s) \in 0 .. n
      BY <2>1, <3>1
    <3> QED
      BY <3>2
  <2> HIDE DEF Do, V
  <2>3. /\ h \in [SUBSET S -> V] /\ h[{}] = best
        /\ \A t \in SUBSET S : t # {} => h[t] = G[<<Max(t), h[t \ {Max(t)}]>>]
    BY <1>4, Zenon DEF FoldsWith
  <2>4. h[s \ {Max(s)}] \in V
    BY <2>1, <2>3
  <2> QED
    BY <1>3, <1>5, <2>2, <2>4, <2>3
<1>6. IsFold(h)
  <2>1. h = [s \in SUBSET S |-> h[s]] /\ h[{}] = best
    <3> HIDE DEF V
    <3> QED
      BY <1>4, Zenon DEF FoldsWith
  <2> HIDE DEF Do
  <2> QED
    BY <1>5, <2>1
<1>7. PICK g : g = CHOOSE f0 : IsFold(f0)
  OBVIOUS
<1>8. IsFold(g)
  <2> HIDE DEF IsFold
  <2> QED
    BY <1>6, <1>7
<1>9. BestOf(routes, S, req, trusted, best) = g[S]
  <2> HIDE DEF IsFold
  <2> QED
    BY <1>1, <1>7
<1>10. g[{}] = best /\ \A s \in SUBSET S : s # {} => g[s] = Do(Max(s), g[s \ {Max(s)}])
  <2> HIDE DEF Do
  <2> QED
    BY <1>8
<1> QED
  BY <1>9, <1>10 DEF Considers

\* Set s is of the members of S up to m + 1, which is one.
IsFurther(s, S, m) ==
    s \in SUBSET S /\ s # {} /\ Max(s) = m + 1 /\ s \ {Max(s)} = {i \in S : i <= m}

\* The members of a set of numbers up to m, and one step further.
LEMMA OneFurther ==
    ASSUME NEW n \in Nat, NEW S, S \subseteq 0 .. n, NEW m \in Nat, m + 1 \in S,
           NEW s, s = {i \in S : i <= m + 1}
    PROVE  IsFurther(s, S, m)
<1>1. \A i \in S : i \in 0 .. n /\ i \in Int
  OBVIOUS
<1>2. \A i : i \in s <=> i \in S /\ i <= m + 1
  OBVIOUS
<1>3. s \subseteq 0 .. n /\ m + 1 \in s /\ s # {} /\ s \in SUBSET S
  <2>1. m + 1 \in s
    BY <1>1, <1>2
  <2> QED
    BY <1>1, <1>2, <2>1
<1>4. Max(s) \in s /\ \A i \in s : Max(s) >= i
  BY <1>3, MaxIsIn
<1>5. Max(s) = m + 1
  BY <1>1, <1>2, <1>3, <1>4
<1>6. \A i : i \in s \ {m + 1} <=> i \in S /\ i <= m
  <2>1. ASSUME NEW i \in S PROVE i <= m <=> (i <= m + 1 /\ i # m + 1)
    <3>1. i \in Int
      BY <1>1
    <3> QED
      BY <3>1
  <2> QED
    BY <1>2, <2>1
<1>7. s \ {m + 1} = {i \in S : i <= m}
  BY <1>6
<1> QED
  BY <1>3, <1>5, <1>7 DEF IsFurther

\* What BestOf returns is one of the candidates, or what it began with.
LEMMA BestOfMember ==
    ASSUME NEW routes, NEW req, NEW trusted, NEW best, NEW n \in Nat, NEW S, S \subseteq 0 .. n
    PROVE  BestOf(routes, S, req, trusted, best) \in {best} \cup S
<1>1. PICK f : /\ BestOf(routes, S, req, trusted, best) = f[S]
               /\ Considers(f, routes, S, req, trusted, best)
  BY BestOfFolds
<1>2. /\ f[{}] = best
      /\ \A s \in SUBSET S : s # {} =>
             f[s] = Considered(routes, req, trusted, Max(s), f[s \ {Max(s)}])
  BY <1>1 DEF Considers
<1>3. ASSUME NEW s \in SUBSET S, s # {}, f[s \ {Max(s)}] \in {best} \cup S
      PROVE  f[s] \in {best} \cup S
  <2>1. Max(s) \in S
    BY <1>3, MaxIsIn
  <2>2. f[s] = Considered(routes, req, trusted, Max(s), f[s \ {Max(s)}])
    BY <1>2, <1>3
  <2> QED
    BY <1>3, <2>1, <2>2 DEF Considered
<1>4. f[S] \in {best} \cup S
  BY <1>2, <1>3, FoldStays
<1> QED
  BY <1>1, <1>4

\* Route r is the best of some, 0 if there are none.
IsBest(routes, some, r) ==
    IF some = {} THEN r = 0 ELSE r \in some /\ \A j \in some \ {r} : BetterRoute(routes, r, j)

\* A route that is considered is selected if it is the best so far.
LEMMA ConsideredIsBest ==
    ASSUME NEW routes, NEW req, NEW trusted, NEW n \in Nat, DOMAIN routes = 1 .. n, Ordered(routes),
           NEW some, some \subseteq 1 .. n, NEW r, IsBest(routes, some, r), NEW i \in 1 .. n, i \notin some
    PROVE  IsBest(routes, some \cup {k \in {i} : Matches(req, routes[k], trusted)},
                  Considered(routes, req, trusted, i, r))
<1>1. CASE ~Matches(req, routes[i], trusted)
  <2>1. some \cup {k \in {i} : Matches(req, routes[k], trusted)} = some
    BY <1>1
  <2> QED
    BY <1>1, <2>1 DEF Considered
<1>2. CASE Matches(req, routes[i], trusted)
  <2>1. some \cup {k \in {i} : Matches(req, routes[k], trusted)} = some \cup {i}
    BY <1>2
  <2>2. CASE some = {}
    BY <1>2, <2>1, <2>2 DEF Considered, IsBest
  <2>3. CASE some # {}
    <3>1. r \in some /\ r # 0 /\ r \in DOMAIN routes /\ i \in DOMAIN routes /\ r # i
      <4>1. r \in some
        BY <2>3 DEF IsBest
      <4>2. r \in 1 .. n
        BY <4>1
      <4> QED
        BY <4>1, <4>2
    <3>2. CASE BetterRoute(routes, i, r)
      <4>1. Considered(routes, req, trusted, i, r) = i
        BY <1>2, <3>2 DEF Considered
      <4>2. \A j \in some : BetterRoute(routes, i, j)
        <5>1. ASSUME NEW j \in some, j # r
              PROVE  BetterRoute(routes, i, j)
          <6>1. BetterRoute(routes, r, j) /\ j \in DOMAIN routes
            BY <2>3, <5>1 DEF IsBest
          <6> QED
            BY <3>1, <3>2, <6>1, Zenon DEF Ordered
        <5> QED
          BY <3>2, <5>1
      <4> QED
        BY <2>1, <4>1, <4>2 DEF IsBest
    <3>3. CASE ~BetterRoute(routes, i, r)
      <4>1. Considered(routes, req, trusted, i, r) = r
        BY <3>1, <3>3 DEF Considered
      <4>2. BetterRoute(routes, r, i)
        BY <3>1, <3>3, Zenon DEF Ordered
      <4> QED
        BY <2>1, <2>3, <3>1, <4>1, <4>2 DEF IsBest
    <3> QED
      BY <3>2, <3>3
  <2> QED
    BY <2>2, <2>3
<1> QED
  BY <1>1, <1>2

\* BestOf returns the best of those of the candidates that match and of those
\* that what it began with is the best of.
LEMMA BestOfIsBest ==
    ASSUME NEW routes, NEW req, NEW trusted, NEW n \in Nat, DOMAIN routes = 1 .. n, Ordered(routes),
           NEW some, some \subseteq 1 .. n, NEW best, IsBest(routes, some, best),
           NEW S, S \subseteq 1 .. n, S \cap some = {}
    PROVE  IsBest(routes, some \cup {i \in S : Matches(req, routes[i], trusted)},
                  BestOf(routes, S, req, trusted, best))
<1> DEFINE Upto(m) == {i \in S : i <= m}
           Matching(m) == some \cup {i \in Upto(m) : Matches(req, routes[i], trusted)}
<1>1. PICK f : /\ BestOf(routes, S, req, trusted, best) = f[S]
               /\ Considers(f, routes, S, req, trusted, best)
  <2>1. S \subseteq 0 .. n
    OBVIOUS
  <2> QED
    BY <2>1, BestOfFolds
<1>2. /\ f[{}] = best
      /\ \A s \in SUBSET S : s # {} =>
             f[s] = Considered(routes, req, trusted, Max(s), f[s \ {Max(s)}])
  BY <1>1 DEF Considers
<1>3. \A i \in S : i \in 1 .. n /\ i \in Int /\ i <= n /\ ~(i <= 0)
  OBVIOUS
<1>4. \A i \in some : i \in 1 .. n /\ i \in Int
  OBVIOUS
<1>5. PICK T : T = {m \in Nat : IsBest(routes, Matching(m), f[Upto(m)])}
  OBVIOUS
<1>6. 0 \in T
  <2>1. Upto(0) = {}
    BY <1>3
  <2>2. Matching(0) = some
    BY <2>1
  <2> HIDE DEF Upto, Matching
  <2> QED
    BY <1>2, <1>5, <2>1, <2>2
<1>7. ASSUME NEW m \in 0 .. n - 1, m \in T
      PROVE  m + 1 \in T
  <2>1. IsBest(routes, Matching(m), f[Upto(m)]) /\ m \in Nat /\ m + 1 \in Nat /\ m + 1 \in 1 .. n
    BY <1>5, <1>7
  <2>2. CASE m + 1 \notin S
    <3>1. Upto(m + 1) = Upto(m)
      <4>1. \A i \in S : i <= m + 1 <=> i <= m
        BY <1>3, <2>1, <2>2
      <4> QED
        BY <4>1
    <3>2. Matching(m + 1) = Matching(m)
      BY <3>1
    <3> HIDE DEF Upto, Matching
    <3> QED
      BY <1>5, <2>1, <3>1, <3>2
  <2>3. CASE m + 1 \in S
    <3>1. /\ Upto(m + 1) \in SUBSET S /\ Upto(m + 1) # {} /\ Max(Upto(m + 1)) = m + 1
          /\ Upto(m + 1) \ {Max(Upto(m + 1))} = Upto(m)
      <4>1. S \subseteq 0 .. n
        BY <1>3
      <4>2. PICK s : s = Upto(m + 1)
        OBVIOUS
      <4>3. s = {i \in S : i <= m + 1}
        BY <4>2
      <4>4. IsFurther(s, S, m)
        <5> HIDE DEF Upto
        <5> QED
          BY <2>1, <2>3, <4>1, <4>3, OneFurther
      <4> QED
        BY <4>2, <4>4 DEF IsFurther
    <3>2. f[Upto(m + 1)] = Considered(routes, req, trusted, m + 1, f[Upto(m)])
      <4> HIDE DEF Upto
      <4> QED
        BY <1>2, <3>1
    <3>3. Matching(m) \subseteq 1 .. n /\ m + 1 \notin Matching(m)
      <4>1. \A i \in Upto(m) : i \in 1 .. n /\ i # m + 1
        BY <1>3, <2>1
      <4>2. m + 1 \notin some
        BY <2>3
      <4> HIDE DEF Upto
      <4> QED
        BY <1>4, <4>1, <4>2
    <3>4. Matching(m + 1) = Matching(m) \cup {k \in {m + 1} : Matches(req, routes[k], trusted)}
      <4>1. Upto(m + 1) = Upto(m) \cup {m + 1}
        BY <2>1, <2>3, <3>1
      <4> HIDE DEF Upto
      <4> QED
        BY <4>1
    <3>5. IsBest(routes, Matching(m) \cup {k \in {m + 1} : Matches(req, routes[k], trusted)},
                 Considered(routes, req, trusted, m + 1, f[Upto(m)]))
      <4> HIDE DEF Upto, Matching
      <4> QED
        BY <2>1, <3>3, ConsideredIsBest
    <3> HIDE DEF Upto, Matching
    <3> QED
      BY <1>5, <2>1, <3>2, <3>4, <3>5
  <2> QED
    BY <2>2, <2>3
<1>8. n \in T
  BY <1>6, <1>7, UpTo
<1>9. Upto(n) = S
  BY <1>3
<1> QED
  BY <1>1, <1>5, <1>8, <1>9

\* What looking one prefix after the other up does to what is selected.
LookedUp(routes, path, req, trusted, i, best) ==
    BestOf(routes, Bucket(routes, TRUE, SubSeq(path, 1, i)), req, trusted, best)

\* Function f makes of each subset of S what looking its members up in their
\* order makes of 0.
LooksUp(f, routes, path, S, req, trusted) ==
    /\ f[{}] = 0
    /\ \A s \in SUBSET S : s # {} =>
           f[s] = LookedUp(routes, path, req, trusted, Max(s), f[s \ {Max(s)}])

\* The wildcards of the index are looked up one prefix after the other.
LEMMA IndexFolds ==
    ASSUME NEW routes, NEW path, NEW req, NEW trusted, NEW n \in Nat, DOMAIN routes = 1 .. n,
           NEW m \in Nat, NEW S, S \subseteq 0 .. m
    PROVE  \E f : /\ FoldInOrder(LAMBDA i, best : BestOf(routes, Bucket(routes, TRUE, SubSeq(path, 1, i)), req, trusted, best), 0, S) = f[S]
                  /\ LooksUp(f, routes, path, S, req, trusted)
<1> DEFINE Op(i, v) == LookedUp(routes, path, req, trusted, i, v)
           V == 0 .. n
           IsFold(f) == f = [s \in SUBSET S |-> IF s = {} THEN 0 ELSE Op(Max(s), f[s \ {Max(s)}])]
<1>1. FoldInOrder(LAMBDA i, best : BestOf(routes, Bucket(routes, TRUE, SubSeq(path, 1, i)), req, trusted, best), 0, S)
          = (CHOOSE f : IsFold(f))[S]
  BY Zenon DEF FoldInOrder, MapThenFoldSet, LookedUp
<1>2. PICK G : G = [x \in Nat \X V |-> Op(x[1], x[2])]
  OBVIOUS
<1>3. ASSUME NEW i \in Nat, NEW v \in V
      PROVE  G[<<i, v>>] = Op(i, v) /\ Op(i, v) \in V
  <2>1. Bucket(routes, TRUE, SubSeq(path, 1, i)) \subseteq 0 .. n
    BY DEF Bucket
  <2>2. Op(i, v) \in {v} \cup Bucket(routes, TRUE, SubSeq(path, 1, i))
    BY <2>1, BestOfMember DEF LookedUp
  <2> HIDE DEF Op
  <2> QED
    BY <1>2, <2>1, <2>2
<1>4. PICK h : FoldsWith(h, S, V, 0, G)
  <2>1. \A i \in 0 .. m : i \in Nat
    OBVIOUS
  <2>2. 0 \in V /\ S \in SUBSET (0 .. m)
    OBVIOUS
  <2> HIDE DEF Op, V
  <2>3. \A i \in 0 .. m : \A v \in V : G[<<i, v>>] \in V
    BY <1>3, <2>1
  <2> QED
    BY <2>2, <2>3, FoldExists
<1>5. ASSUME NEW s \in SUBSET S, s # {}
      PROVE  h[s] = Op(Max(s), h[s \ {Max(s)}])
  <2>1. s \subseteq 0 .. m /\ s \ {Max(s)} \in SUBSET S
    OBVIOUS
  <2>2. Max(s) \in Nat
    <3>1. Max(s) \in s
      BY <1>5, <2>1, MaxIsIn
    <3>2. Max(s) \in 0 .. m
      BY <2>1, <3>1
    <3> QED
      BY <3>2
  <2> HIDE DEF Op, V
  <2>3. /\ h \in [SUBSET S -> V] /\ h[{}] = 0
        /\ \A t \in SUBSET S : t # {} => h[t] = G[<<Max(t), h[t \ {Max(t)}]>>]
    BY <1>4, Zenon DEF FoldsWith
  <2>4. h[s \ {Max(s)}] \in V
    BY <2>1, <2>3
  <2> QED
    BY <1>3, <1>5, <2>2, <2>4, <2>3
<1>6. IsFold(h)
  <2>1. h = [s \in SUBSET S |-> h[s]] /\ h[{}] = 0
    <3> HIDE DEF V
    <3> QED
      BY <1>4, Zenon DEF FoldsWith
  <2> HIDE DEF Op
  <2> QED
    BY <1>5, <2>1
<1>7. PICK g : g = CHOOSE f0 : IsFold(f0)
  OBVIOUS
<1>8. IsFold(g)
  <2> HIDE DEF IsFold
  <2> QED
    BY <1>6, <1>7
<1>9. FoldInOrder(LAMBDA i, best : BestOf(routes, Bucket(routes, TRUE, SubSeq(path, 1, i)), req, trusted, best), 0, S) = g[S]
  <2> HIDE DEF IsFold
  <2> QED
    BY <1>1, <1>7
<1>10. g[{}] = 0 /\ \A s \in SUBSET S : s # {} => g[s] = Op(Max(s), g[s \ {Max(s)}])
  <2> HIDE DEF Op
  <2> QED
    BY <1>8
<1> QED
  BY <1>9, <1>10 DEF LooksUp

\* The route that is selected is one of the site's.
LEMMA SelectedRoute ==
    ASSUME NEW routes, NEW req, NEW trusted, NEW n \in Nat, DOMAIN routes = 1 .. n, req.url.path \in Seq(STRING)
    PROVE  SelectRoute(routes, req, trusted) \in 0 .. n
<1>1. SelectByScan(routes, req, trusted) \in 0 .. n
  <2>1. PICK S : S = {i \in DOMAIN routes : PathMatches(routes[i].pattern, req.url.path)}
    OBVIOUS
  <2>2. S \subseteq 0 .. n
    BY <2>1
  <2>3. BestOf(routes, S, req, trusted, 0) \in {0} \cup S
    BY <2>2, BestOfMember
  <2> QED
    BY <2>1, <2>3, <2>2 DEF SelectByScan
<1>2. SelectByIndex(routes, req, trusted) \in 0 .. n
  <2> DEFINE path == req.url.path
             exact == BestOf(routes, Bucket(routes, FALSE, path), req, trusted, 0)
  <2>1. \A wildcard, prefix : Bucket(routes, wildcard, prefix) \subseteq 0 .. n
    BY DEF Bucket
  <2>2. exact \in 0 .. n
    <3>1. PICK B : B = Bucket(routes, FALSE, path)
      OBVIOUS
    <3>2. BestOf(routes, B, req, trusted, 0) \in {0} \cup B
      BY <2>1, <3>1, BestOfMember
    <3>3. exact = BestOf(routes, B, req, trusted, 0)
      BY <3>1
    <3>4. B \subseteq 0 .. n
      BY <2>1, <3>1
    <3> HIDE DEF exact
    <3>5. 0 \in 0 .. n
      OBVIOUS
    <3> QED
      BY <3>2, <3>3, <3>4, <3>5, Zenon
  <2>3. PICK m \in Nat : m = Len(path)
    OBVIOUS
  <2>4. IndexedPrefixes(path) \subseteq 0 .. m
    BY <2>3 DEF IndexedPrefixes, Slashes
  <2>5. PICK S : S = IndexedPrefixes(path)
    OBVIOUS
  <2>6. PICK f : /\ FoldInOrder(LAMBDA i, best : BestOf(routes, Bucket(routes, TRUE, SubSeq(path, 1, i)), req, trusted, best), 0, S) = f[S]
                 /\ LooksUp(f, routes, path, S, req, trusted)
    <3> HIDE DEF path
    <3> QED
      BY <2>3, <2>4, <2>5, IndexFolds
  <2>7. /\ f[{}] = 0
        /\ \A s \in SUBSET S : s # {} =>
               f[s] = LookedUp(routes, path, req, trusted, Max(s), f[s \ {Max(s)}])
    BY <2>6 DEF LooksUp
  <2>8. ASSUME NEW s \in SUBSET S, s # {}, f[s \ {Max(s)}] \in 0 .. n
         PROVE  f[s] \in 0 .. n
    <3>1. PICK B : B = Bucket(routes, TRUE, SubSeq(path, 1, Max(s)))
      OBVIOUS
    <3>2. PICK best \in 0 .. n : best = f[s \ {Max(s)}]
      BY <2>8
    <3>3. BestOf(routes, B, req, trusted, best) \in {best} \cup B
      BY <2>1, <3>1, BestOfMember
    <3>4. f[s] = BestOf(routes, B, req, trusted, best)
      BY <2>7, <2>8, <3>1, <3>2 DEF LookedUp
    <3> QED
      BY <2>1, <3>1, <3>3, <3>4
  <2>9. f[S] \in 0 .. n
    <3>1. f[{}] \in 0 .. n
      BY <2>7
    <3>2. S \subseteq 0 .. m
      BY <2>4, <2>5
    <3> QED
      BY <2>8, <3>1, <3>2, FoldStays
  <2>10. SelectByIndex(routes, req, trusted) = IF exact # 0 THEN exact ELSE f[S]
    BY <2>5, <2>6, Zenon DEF SelectByIndex
  <2> HIDE DEF exact, path
  <2> QED
    BY <2>2, <2>9, <2>10
<1> QED
  BY <1>1, <1>2 DEF SelectRoute

\* The routes that match a request.
Matching(routes, req, trusted) ==
    {i \in DOMAIN routes : PathMatches(routes[i].pattern, req.url.path) /\ Matches(req, routes[i], trusted)}

\* The best of some routes.
TheBest(routes, some) ==
    IF some = {} THEN 0 ELSE CHOOSE i \in some : \A j \in some \ {i} : BetterRoute(routes, i, j)

\* There is one.
LEMMA OneIsBest ==
    ASSUME NEW routes, Ordered(routes), NEW some, some \subseteq DOMAIN routes, NEW r, IsBest(routes, some, r)
    PROVE  r = TheBest(routes, some)
<1>1. CASE some = {}
  BY <1>1 DEF IsBest, TheBest
<1>2. CASE some # {}
  <2>1. r \in some /\ \A j \in some \ {r} : BetterRoute(routes, r, j)
    BY <1>2 DEF IsBest
  <2>2. PICK b : b = CHOOSE i \in some : \A j \in some \ {i} : BetterRoute(routes, i, j)
    OBVIOUS
  <2>3. b \in some /\ \A j \in some \ {b} : BetterRoute(routes, b, j)
    BY <2>1, <2>2
  <2>4. r # b => BetterRoute(routes, r, b) /\ BetterRoute(routes, b, r)
    BY <2>1, <2>3
  <2>5. r = b
    BY <2>1, <2>3, <2>4 DEF Ordered
  <2> QED
    BY <1>2, <2>2, <2>5 DEF TheBest
<1> QED
  BY <1>1, <1>2

\* The linear lookup finds the best of the routes that match.
LEMMA ScanIsBest ==
    ASSUME NEW routes, NEW req, NEW trusted, NEW n \in Nat, DOMAIN routes = 1 .. n, Ordered(routes)
    PROVE  IsBest(routes, Matching(routes, req, trusted), SelectByScan(routes, req, trusted))
<1>1. PICK S : S = {i \in DOMAIN routes : PathMatches(routes[i].pattern, req.url.path)}
  OBVIOUS
<1>2. PICK some : some = {}
  OBVIOUS
<1>3. IsBest(routes, some, 0) /\ some \subseteq 1 .. n /\ S \subseteq 1 .. n /\ S \cap some = {}
  BY <1>1, <1>2 DEF IsBest
<1>4. IsBest(routes, some \cup {i \in S : Matches(req, routes[i], trusted)}, BestOf(routes, S, req, trusted, 0))
  BY <1>3, BestOfIsBest
<1>5. some \cup {i \in S : Matches(req, routes[i], trusted)} = Matching(routes, req, trusted)
  BY <1>1, <1>2 DEF Matching
<1> QED
  BY <1>1, <1>4, <1>5 DEF SelectByScan

\* A wildcard matches a path if it names one of the prefixes that are looked up.
LEMMA PrefixesFound ==
    ASSUME NEW pattern, pattern.wildcard = TRUE, pattern.path \in Seq(STRING), NEW path \in Seq(STRING)
    PROVE  PathMatches(pattern, path) <=> \E m \in IndexedPrefixes(path) : pattern.path = SubSeq(path, 1, m)
<1>1. PICK p \in Seq(STRING) : p = pattern.path
  OBVIOUS
<1>2. PathMatches(pattern, path) <=> (path = p \/ p = <<>> \/ IsPrefix(p \o <<"/">>, path))
  BY <1>1 DEF PathMatches
<1>3. Len(path) \in Nat /\ Len(p) \in Nat
  OBVIOUS
<1>4. \A m : m \in IndexedPrefixes(path) <=> (m = 0 \/ m = Len(path) \/ m \in Slashes(path))
  BY DEF IndexedPrefixes
<1>5. SubSeq(path, 1, 0) = <<>> /\ SubSeq(path, 1, Len(path)) = path
  OBVIOUS
<1>6. ASSUME NEW m \in Slashes(path), p = SubSeq(path, 1, m)
      PROVE  IsPrefix(p \o <<"/">>, path)
  <2>1. m \in 1 .. Len(path) - 1 /\ path[m + 1] = "/"
    BY <1>6 DEF Slashes
  <2>2. Len(p) = m
    BY <1>3, <1>6, <2>1
  <2> QED
    BY <1>3, <1>6, <2>1, <2>2 DEF IsPrefix
<1>7. ASSUME IsPrefix(p \o <<"/">>, path), p # <<>>
      PROVE  Len(p) \in Slashes(path) /\ p = SubSeq(path, 1, Len(p))
  <2>1. Len(p) + 1 <= Len(path) /\ \A i \in 1 .. Len(p) + 1 : (p \o <<"/">>)[i] = path[i]
    BY <1>3, <1>7 DEF IsPrefix
  <2> QED
    BY <1>3, <1>7, <2>1 DEF Slashes
<1> QED
  BY <1>1, <1>2, <1>4, <1>5, <1>6, <1>7

\* The routes with a wildcard that some prefix of the path up to the m-th byte is named by.
Prefixed(routes, path, m) ==
    {i \in DOMAIN routes : \E k \in IndexedPrefixes(path) : k <= m /\ i \in Bucket(routes, TRUE, SubSeq(path, 1, k))}

\* Those of them that match.
PrefixedMatching(routes, req, trusted, m) ==
    {i \in Prefixed(routes, req.url.path, m) : Matches(req, routes[i], trusted)}

\* Looking the prefixes up one after the other finds the best of the wildcards that match.
LEMMA PrefixesAreBest ==
    ASSUME NEW routes, NEW req, NEW trusted, NEW n \in Nat, DOMAIN routes = 1 .. n, Ordered(routes),
           req.url.path \in Seq(STRING),
           NEW f, LooksUp(f, routes, req.url.path, IndexedPrefixes(req.url.path), req, trusted)
    PROVE  IsBest(routes, PrefixedMatching(routes, req, trusted, Len(req.url.path)), f[IndexedPrefixes(req.url.path)])
<1>1. PICK path \in Seq(STRING) : path = req.url.path
  OBVIOUS
<1>2. PICK S : S = IndexedPrefixes(path)
  OBVIOUS
<1>3. PICK l \in Nat : l = Len(path)
  OBVIOUS
<1>4. S \subseteq 0 .. l /\ 0 \in S
  BY <1>2, <1>3 DEF IndexedPrefixes, Slashes
<1>5. /\ f[{}] = 0
      /\ \A s \in SUBSET S : s # {} =>
             f[s] = LookedUp(routes, path, req, trusted, Max(s), f[s \ {Max(s)}])
  BY <1>1, <1>2 DEF LooksUp
<1> DEFINE Upto(m) == {k \in S : k <= m}
           Found(m) == PrefixedMatching(routes, req, trusted, m)
           Named(m) == Bucket(routes, TRUE, SubSeq(path, 1, m))
<1>6. ASSUME NEW m \in Int, NEW i
      PROVE  i \in Found(m) <=> /\ i \in 1 .. n /\ Matches(req, routes[i], trusted)
                                /\ \E k \in S : k <= m /\ i \in Named(k)
  BY <1>1, <1>2 DEF PrefixedMatching, Prefixed
<1>7. ASSUME NEW k \in 0 .. l, NEW m \in 0 .. l, NEW i, i \in Named(k), i \in Named(m)
      PROVE  k = m
  <2>1. SubSeq(path, 1, k) = SubSeq(path, 1, m)
    BY <1>7 DEF Bucket
  <2>2. Len(SubSeq(path, 1, k)) = k /\ Len(SubSeq(path, 1, m)) = m
    BY <1>3
  <2> QED
    BY <2>1, <2>2
<1>8. ASSUME NEW m \in S, NEW s, s \in SUBSET S, s # {}, Max(s) = m,
             NEW some, some \subseteq 1 .. n, IsBest(routes, some, f[s \ {Max(s)}]), Named(m) \cap some = {}
      PROVE  IsBest(routes, some \cup {i \in Named(m) : Matches(req, routes[i], trusted)}, f[s])
  <2>1. f[s] = BestOf(routes, Named(m), req, trusted, f[s \ {Max(s)}])
    BY <1>5, <1>8 DEF LookedUp
  <2>2. Named(m) \subseteq 1 .. n
    BY DEF Bucket
  <2> HIDE DEF Named
  <2> QED
    BY <1>8, <2>1, <2>2, BestOfIsBest
<1>9. PICK T : T = {m \in Nat : IsBest(routes, Found(m), f[Upto(m)])}
  OBVIOUS
<1>10. 0 \in T
  <2>1. PICK s : s = {0}
    OBVIOUS
  <2>2. Upto(0) = s
    <3>1. \A k \in S : k <= 0 <=> k = 0
      BY <1>4
    <3> QED
      BY <1>4, <2>1, <3>1
  <2>3. s \in SUBSET S /\ s # {} /\ Max(s) = 0 /\ s \ {Max(s)} = {}
    <3>1. s \subseteq Int /\ 0 \in s /\ \A i \in s : 0 >= i
      BY <2>1
    <3>2. Max(s) = 0
      BY <3>1, MaxIs
    <3> QED
      BY <1>4, <2>1, <3>2
  <2>4. PICK some : some = {}
    OBVIOUS
  <2>5. some \subseteq 1 .. n /\ IsBest(routes, some, f[s \ {Max(s)}]) /\ Named(0) \cap some = {}
    BY <1>5, <2>3, <2>4 DEF IsBest
  <2>6. IsBest(routes, some \cup {i \in Named(0) : Matches(req, routes[i], trusted)}, f[s])
    <3> HIDE DEF Named
    <3> QED
      BY <1>4, <1>8, <2>3, <2>5
  <2>7. Found(0) = some \cup {i \in Named(0) : Matches(req, routes[i], trusted)}
    <3>1. \A k \in S : k <= 0 <=> k = 0
      BY <1>4
    <3>2. Named(0) \subseteq 1 .. n
      BY DEF Bucket
    <3> HIDE DEF Named, Found
    <3> QED
      BY <1>4, <1>6, <2>4, <3>1, <3>2
  <2> HIDE DEF Named, Found, Upto
  <2> QED
    BY <1>9, <2>2, <2>6, <2>7
<1>11. ASSUME NEW m \in 0 .. l - 1, m \in T
       PROVE  m + 1 \in T
  <2>1. m \in Nat /\ m + 1 \in Nat /\ m + 1 \in 0 .. l /\ m \in 0 .. l /\ IsBest(routes, Found(m), f[Upto(m)])
    BY <1>9, <1>11
  <2>2. CASE m + 1 \notin S
    <3>1. \A k \in S : k <= m + 1 <=> k <= m
      BY <1>4, <2>1, <2>2
    <3>2. Upto(m + 1) = Upto(m)
      BY <3>1
    <3>3. Found(m + 1) = Found(m)
      <4> HIDE DEF Found, Named
      <4>1. \A i : i \in Found(m + 1) <=> i \in Found(m)
        BY <1>6, <2>1, <3>1
      <4>2. Found(m + 1) \subseteq Found(m) /\ Found(m) \subseteq Found(m + 1)
        BY <4>1
      <4> QED
        BY <4>2
    <3> HIDE DEF Found, Upto
    <3> QED
      BY <1>9, <2>1, <3>2, <3>3
  <2>3. CASE m + 1 \in S
    <3>1. PICK s : s = {k \in S : k <= m + 1}
      OBVIOUS
    <3>2. s \in SUBSET S /\ s # {} /\ Max(s) = m + 1 /\ s \ {Max(s)} = Upto(m)
      <4>1. IsFurther(s, S, m)
        <5> HIDE DEF Upto
        <5> QED
          BY <1>4, <2>1, <2>3, <3>1, OneFurther
      <4> QED
        BY <4>1 DEF IsFurther
    <3>3. Found(m) \subseteq 1 .. n /\ Named(m + 1) \cap Found(m) = {}
      <4>1. ASSUME NEW i \in Found(m), i \in Named(m + 1)
            PROVE  FALSE
        <5>1. PICK k \in S : k <= m /\ i \in Named(k)
          <6> HIDE DEF Named, Found
          <6> QED
            BY <1>6, <2>1, <4>1
        <5>2. k \in 0 .. l
          BY <1>4
        <5>3. k = m + 1
          <6> HIDE DEF Named, Found
          <6> QED
            BY <1>7, <2>1, <4>1, <5>1, <5>2
        <5> QED
          BY <2>1, <5>1, <5>2, <5>3
      <4>2. Found(m) \subseteq 1 .. n
        <5> HIDE DEF Named, Found
        <5> QED
          BY <1>6, <2>1
      <4> HIDE DEF Named, Found
      <4> QED
        BY <4>1, <4>2
    <3>4. IsBest(routes, Found(m), f[s \ {Max(s)}])
      <4> HIDE DEF Found, Upto
      <4> QED
        BY <2>1, <3>2
    <3>5. IsBest(routes, Found(m) \cup {i \in Named(m + 1) : Matches(req, routes[i], trusted)}, f[s])
      <4> HIDE DEF Found, Upto, Named
      <4> QED
        BY <1>8, <2>3, <3>2, <3>3, <3>4
    <3>6. Found(m + 1) = Found(m) \cup {i \in Named(m + 1) : Matches(req, routes[i], trusted)}
      <4>1. \A k \in S : k <= m + 1 <=> (k <= m \/ k = m + 1)
        BY <1>4, <2>1
      <4>2. Named(m + 1) \subseteq 1 .. n
        BY DEF Bucket
      <4>3. \A i : i \in Found(m + 1) <=> (i \in Found(m) \/ (i \in Named(m + 1) /\ Matches(req, routes[i], trusted)))
        <5> HIDE DEF Named, Found
        <5> QED
          BY <1>6, <2>1, <2>3, <4>1, <4>2
      <4> HIDE DEF Named, Found
      <4> QED
        BY <4>3
    <3>7. Upto(m + 1) = s
      BY <3>1
    <3> HIDE DEF Found, Upto, Named
    <3> QED
      BY <1>9, <2>1, <3>5, <3>6, <3>7
  <2> QED
    BY <2>2, <2>3
<1>12. l \in T
  BY <1>10, <1>11, UpTo
<1>13. Upto(l) = S
  <2>1. \A k \in S : k <= l
    BY <1>4
  <2> QED
    BY <2>1
<1> HIDE DEF Upto
<1> QED
  BY <1>1, <1>2, <1>3, <1>9, <1>12, <1>13

\* The indexed lookup finds the best of the routes that match.
LEMMA IndexIsBest ==
    ASSUME NEW routes, NEW req, NEW trusted, NEW n \in Nat, DOMAIN routes = 1 .. n, Ordered(routes),
           \A i \in DOMAIN routes : RouteCounts(routes[i]), req.url.path \in Seq(STRING)
    PROVE  IsBest(routes, Matching(routes, req, trusted), SelectByIndex(routes, req, trusted))
<1> DEFINE path == req.url.path
<1>1. path \in Seq(STRING)
  OBVIOUS
<1>2. PICK plain : plain = Bucket(routes, FALSE, path)
  OBVIOUS
<1>3. PICK exact : exact = BestOf(routes, plain, req, trusted, 0)
  OBVIOUS
<1>4. PICK S : S = IndexedPrefixes(path)
  OBVIOUS
<1>5. PICK f : /\ FoldInOrder(LAMBDA i, best : BestOf(routes, Bucket(routes, TRUE, SubSeq(path, 1, i)), req, trusted, best), 0, S) = f[S]
               /\ LooksUp(f, routes, path, S, req, trusted)
  <2>1. PICK m \in Nat : m = Len(path)
    OBVIOUS
  <2>2. S \subseteq 0 .. m
    BY <1>4, <2>1 DEF IndexedPrefixes, Slashes
  <2> HIDE DEF path
  <2> QED
    BY <2>1, <2>2, IndexFolds
<1>6. SelectByIndex(routes, req, trusted) = IF exact # 0 THEN exact ELSE f[S]
  <2>1. exact = BestOf(routes, Bucket(routes, FALSE, path), req, trusted, 0)
    BY <1>2, <1>3, Zenon
  <2> QED
    BY <1>4, <1>5, <2>1, Zenon DEF SelectByIndex
<1>7. PICK found : found = PrefixedMatching(routes, req, trusted, Len(path))
  OBVIOUS
<1>8. IsBest(routes, found, f[S])
  BY <1>1, <1>4, <1>5, <1>7, PrefixesAreBest
<1>9. PICK first : first = {i \in plain : Matches(req, routes[i], trusted)}
  OBVIOUS
<1>10. IsBest(routes, first, exact)
  <2>1. PICK some : some = {}
    OBVIOUS
  <2>2. IsBest(routes, some, 0) /\ some \subseteq 1 .. n /\ plain \subseteq 1 .. n /\ plain \cap some = {}
    BY <1>2, <2>1 DEF IsBest, Bucket
  <2>3. IsBest(routes, some \cup {i \in plain : Matches(req, routes[i], trusted)}, exact)
    BY <1>3, <2>2, BestOfIsBest
  <2>4. some \cup {i \in plain : Matches(req, routes[i], trusted)} = first
    BY <1>9, <2>1
  <2> QED
    BY <2>3, <2>4
<1>11. ASSUME NEW i \in DOMAIN routes
       PROVE  PathMatches(routes[i].pattern, path) <=> (i \in plain \/ i \in Prefixed(routes, path, Len(path)))
  <2>1. routes[i].pattern.path \in Seq(STRING) /\ routes[i].pattern.wildcard \in BOOLEAN
    BY DEF RouteCounts
  <2>2. CASE routes[i].pattern.wildcard = FALSE
    <3>1. PathMatches(routes[i].pattern, path) <=> path = routes[i].pattern.path
      BY <2>2 DEF PathMatches
    <3>2. i \in plain <=> path = routes[i].pattern.path
      BY <1>2, <2>2 DEF Bucket
    <3>3. i \notin Prefixed(routes, path, Len(path))
      BY <2>2 DEF Prefixed, Bucket
    <3> QED
      BY <3>1, <3>2, <3>3
  <2>3. CASE routes[i].pattern.wildcard = TRUE
    <3>1. PathMatches(routes[i].pattern, path) <=> \E m \in IndexedPrefixes(path) : routes[i].pattern.path = SubSeq(path, 1, m)
      BY <2>1, <2>3, PrefixesFound
    <3>2. \A m \in IndexedPrefixes(path) : m <= Len(path)
      BY DEF IndexedPrefixes, Slashes
    <3>3. i \notin plain
      BY <1>2, <2>3 DEF Bucket
    <3>4. \A m : i \in Bucket(routes, TRUE, SubSeq(path, 1, m)) <=> routes[i].pattern.path = SubSeq(path, 1, m)
      BY <2>3 DEF Bucket
    <3>5. i \in Prefixed(routes, path, Len(path)) <=>
              \E m \in IndexedPrefixes(path) : routes[i].pattern.path = SubSeq(path, 1, m)
      BY <3>2, <3>4 DEF Prefixed
    <3> QED
      BY <3>1, <3>3, <3>5
  <2> QED
    BY <2>1, <2>2, <2>3
<1>12. Matching(routes, req, trusted) = first \cup found
  <2>1. first \subseteq DOMAIN routes /\ found \subseteq DOMAIN routes
    BY <1>2, <1>7, <1>9 DEF Bucket, PrefixedMatching, Prefixed
  <2>2. \A i \in DOMAIN routes : /\ i \in first <=> i \in plain /\ Matches(req, routes[i], trusted)
                                 /\ i \in found <=> i \in Prefixed(routes, path, Len(path)) /\ Matches(req, routes[i], trusted)
    BY <1>1, <1>7, <1>9 DEF PrefixedMatching
  <2>3. \A i \in DOMAIN routes : i \in Matching(routes, req, trusted) <=> i \in first \cup found
    BY <1>1, <1>11, <2>2 DEF Matching
  <2>4. Matching(routes, req, trusted) \subseteq DOMAIN routes
    BY DEF Matching
  <2> QED
    BY <2>1, <2>3, <2>4
<1>13. CASE first = {}
  <2>1. exact = 0 /\ Matching(routes, req, trusted) = found
    BY <1>10, <1>12, <1>13 DEF IsBest
  <2> QED
    BY <1>6, <1>8, <2>1
<1>14. CASE first # {}
  <2>1. exact \in first /\ \A j \in first \ {exact} : BetterRoute(routes, exact, j)
    BY <1>10, <1>14 DEF IsBest
  <2>2. exact \in 1 .. n /\ exact # 0 /\ routes[exact].pattern.wildcard = FALSE
    <3>1. exact \in DOMAIN routes /\ routes[exact].pattern.wildcard = FALSE
      BY <1>2, <1>9, <2>1 DEF Bucket
    <3> QED
      BY <3>1
  <2>3. ASSUME NEW j \in found
        PROVE  BetterRoute(routes, exact, j)
    <3>1. j \in DOMAIN routes /\ routes[j].pattern.wildcard = TRUE
      BY <1>7 DEF PrefixedMatching, Prefixed, Bucket
    <3>2. PICK a : Ranked(routes[exact], exact, a)
      BY DEF Ranked
    <3>3. PICK b : Ranked(routes[j], j, b)
      BY DEF Ranked
    <3>4. a[1] = 1 /\ b[1] = 0
      BY <2>2, <3>1, <3>2, <3>3 DEF Ranked
    <3>5. Before(a, b)
      BY <3>4 DEF Before
    <3> QED
      BY <3>2, <3>3, <3>5, BetterIsBefore
  <2>4. IsBest(routes, first \cup found, exact)
    BY <2>1, <2>3 DEF IsBest
  <2> QED
    BY <1>6, <1>12, <2>2, <2>4
<1> QED
  BY <1>13, <1>14

-----------------------------------------------------------------------------
(* The writers.                                                            *)

Fields == {"header", "blocks", "final", "taken", "announced", "sent", "panicked", "id",
           "committed", "hijacked", "prepared", "logged", "status", "bytes"}

IsHeader(h) == h = [values |-> [n \in Names |-> h.values[n]], listed |-> h.listed, prefixed |-> h.prefixed]

IsWriter(w) ==
    /\ DOMAIN w = Fields /\ w = [f \in Fields |-> w[f]]
    /\ IsHeader(w.header)
    /\ Sequence(w.blocks)
    /\ w.final \in BOOLEAN /\ w.taken \in BOOLEAN /\ w.panicked \in BOOLEAN
    /\ w.committed \in BOOLEAN /\ w.hijacked \in BOOLEAN /\ w.prepared \in BOOLEAN
    /\ w.logged \in BOOLEAN

\* The last block that was sent is a final response, or that of an upgrade.
Ended(w) == Len(w.blocks) > 0 /\ Terminal(w.blocks[Len(w.blocks)].status)

\* Nothing is sent after a final block, and one has been sent exactly if the
\* server's writer says so; only a hijacked connection is written to besides.
BlocksInv(w) ==
    /\ \A i \in DOMAIN w.blocks : Terminal(w.blocks[i].status) => i = Len(w.blocks)
    /\ w.final => Ended(w)
    /\ Ended(w) => w.final \/ w.taken

\* Every block has the ID, and no trailer that was announced is called so.
IDsInv(w) ==
    HasID(w) => /\ "id" \notin w.announced
                /\ \A i \in DOMAIN w.blocks :
                       w.blocks[i].ids = <<w.id>> /\ "id" \notin w.blocks[i].listed

\* The header map as the ID's writer wants it to be sent.
Enforced(w) ==
    HasID(w) => /\ w.header.values["id"] = <<w.id>>
                /\ "id" \notin w.header.listed /\ "id" \notin w.header.prefixed

\* The access log's writer knows of the first final status, and of the body.
StatusInv(w) ==
    w.logged => /\ w.bytes = w.sent
                /\ w.status = IF Ended(w) THEN w.blocks[Len(w.blocks)].status
                              ELSE IF w.taken THEN 101 ELSE 0

CommitInv(w) == HasID(w) /\ w.committed => w.final \/ w.taken \/ w.panicked

\* While a handler fills the header map anything may stand in it (CoreInv); no
\* call leaves a trailer of the ID's name there (WriterInv).
CoreInv(w) == IsWriter(w) /\ BlocksInv(w) /\ IDsInv(w) /\ StatusInv(w) /\ CommitInv(w)
WriterInv(w) == CoreInv(w) /\ (HasID(w) => "id" \notin w.header.prefixed)

\* Nothing but informational responses has been sent.
Fresh(w) == ~w.final /\ ~w.taken /\ ~w.panicked /\ ~w.committed

Kept(v, w) == v.id = w.id /\ v.logged = w.logged

\* net/http's writer sends the block it is asked for, or nothing.
LEMMA ServerHeaderSends ==
    ASSUME NEW w, NEW s \in Nat, IsWriter(w), BlocksInv(w), IDsInv(w), Enforced(w)
    PROVE  LET v == ServerWriteHeader(w, s)
           IN  /\ IsWriter(v) /\ BlocksInv(v) /\ IDsInv(v) /\ Kept(v, w)
               /\ v.header = w.header /\ v.taken = w.taken /\ v.committed = w.committed
               /\ v.hijacked = w.hijacked /\ v.prepared = w.prepared
               /\ v.status = w.status /\ v.bytes = w.bytes /\ v.sent = w.sent
               /\ IF w.taken \/ w.final THEN v = w
                  ELSE IF s < 100 THEN v.blocks = w.blocks /\ ~v.final /\ v.panicked
                  ELSE /\ Len(v.blocks) = Len(w.blocks) + 1
                       /\ v.blocks[Len(v.blocks)].status = s
                       /\ v.final <=> Terminal(s)
                       /\ v.panicked = w.panicked
<1> DEFINE v == ServerWriteHeader(w, s)
           block == [status |-> s, ids |-> w.header.values["id"], listed |-> w.header.listed]
<1>1. CASE w.taken \/ w.final
  BY <1>1 DEF ServerWriteHeader, Kept
<1>2. CASE ~(w.taken \/ w.final) /\ s < 100
  <2>1. v = [w EXCEPT !.panicked = TRUE]
    BY <1>2 DEF ServerWriteHeader
  <2>2. IsWriter(v)
    BY <2>1 DEF IsWriter, Fields
  <2>3. /\ v.header = w.header /\ v.taken = w.taken /\ v.committed = w.committed
        /\ v.hijacked = w.hijacked /\ v.prepared = w.prepared /\ v.id = w.id
        /\ v.status = w.status /\ v.bytes = w.bytes /\ v.sent = w.sent /\ v.logged = w.logged
        /\ v.blocks = w.blocks /\ v.final = w.final /\ v.panicked /\ v.announced = w.announced
    BY <2>1 DEF IsWriter, Fields
  <2> QED
    BY <1>2, <2>2, <2>3 DEF Kept, BlocksInv, IDsInv, HasID, Ended
<1>3. CASE ~(w.taken \/ w.final) /\ ~(s < 100)
  <2>1. PICK u : u = [w EXCEPT !.blocks = Append(@, block)]
    OBVIOUS
  <2>2. v = [u EXCEPT !.final = Terminal(s), !.announced = IF Terminal(s) THEN w.header.listed ELSE @]
    BY <1>3, <2>1 DEF ServerWriteHeader, SendBlock
  <2>3. /\ DOMAIN u = Fields /\ u = [f \in Fields |-> u[f]]
        /\ u.blocks = Append(w.blocks, block)
        /\ \A f \in Fields \ {"blocks"} : u[f] = w[f]
    BY <2>1 DEF IsWriter, Fields
  <2>4. /\ DOMAIN v = Fields /\ v = [f \in Fields |-> v[f]]
        /\ \A f \in Fields \ {"final", "announced"} : v[f] = u[f]
        /\ v.final = Terminal(s)
        /\ v.announced = IF Terminal(s) THEN w.header.listed ELSE u.announced
    BY <2>2, <2>3 DEF Fields
  <2>5. Terminal(s) \in BOOLEAN
    BY DEF Terminal
  <2> HIDE DEF v, block
  <2>6. /\ v.header = w.header /\ v.taken = w.taken /\ v.committed = w.committed
        /\ v.hijacked = w.hijacked /\ v.prepared = w.prepared /\ v.id = w.id
        /\ v.status = w.status /\ v.bytes = w.bytes /\ v.sent = w.sent /\ v.logged = w.logged
        /\ v.blocks = Append(w.blocks, block) /\ (v.final <=> Terminal(s)) /\ v.panicked = w.panicked
        /\ v.final \in BOOLEAN
        /\ v.announced = IF Terminal(s) THEN w.header.listed ELSE w.announced
    BY <2>3, <2>4, <2>5 DEF Fields
  <2>7. /\ Sequence(v.blocks) /\ Len(v.blocks) = Len(w.blocks) + 1
        /\ DOMAIN w.blocks = 1 .. Len(w.blocks) /\ Len(w.blocks) \in Nat
        /\ DOMAIN v.blocks = 1 .. Len(w.blocks) + 1
        /\ \A i \in DOMAIN w.blocks : v.blocks[i] = w.blocks[i]
        /\ v.blocks[Len(w.blocks) + 1] = block
    BY <2>6, Appended DEF IsWriter
  <2>8. IsWriter(v)
    BY <2>6, <2>4, <2>7 DEF IsWriter
  <2>9. /\ block.status = s /\ block.ids = w.header.values["id"] /\ block.listed = w.header.listed
    BY DEF block
  <2>10. ~Ended(w)
    BY <1>3 DEF BlocksInv
  <2>11. \A i \in DOMAIN w.blocks : ~Terminal(w.blocks[i].status)
    BY <2>7, <2>10 DEF BlocksInv, Ended
  <2>12. BlocksInv(v)
    BY <2>6, <2>7, <2>9, <2>11 DEF BlocksInv, Ended
  <2>13. IDsInv(v)
    BY <2>6, <2>7, <2>9 DEF IDsInv, Enforced, HasID
  <2> QED
    BY <1>3, <2>6, <2>7, <2>8, <2>9, <2>12, <2>13 DEF Kept, v
<1> QED
  BY <1>1, <1>2, <1>3

\* A cleaned header has nothing of the ID's name.
LEMMA CleanedHeader ==
    ASSUME NEW h, IsHeader(h)
    PROVE  LET g == CleanRequestIDHeaders(h)
           IN  IsHeader(g) /\ g.values["id"] = <<>> /\ "id" \notin g.listed /\ "id" \notin g.prefixed
<1>1. PICK values : values = [h.values EXCEPT !["id"] = <<>>]
  OBVIOUS
<1>2. values = [n \in Names |-> values[n]] /\ values["id"] = <<>>
  <2>1. PICK hv : hv = h.values /\ hv = [n \in Names |-> hv[n]]
    BY DEF IsHeader
  <2> QED
    BY <1>1, <2>1 DEF Names
<1>3. PICK u : u = [h EXCEPT !.values = values]
  OBVIOUS
<1>4. u = [values |-> values, listed |-> h.listed, prefixed |-> h.prefixed]
  BY <1>3 DEF IsHeader
<1>5. PICK g : g = CleanRequestIDHeaders(h)
  OBVIOUS
<1>6. g = [[u EXCEPT !.prefixed = @ \ {"id"}] EXCEPT !.listed = @ \ {"id"}]
  BY <1>1, <1>3, <1>5 DEF CleanRequestIDHeaders, RemoveRequestIDTrailer, RemoveRequestID
<1>7. g = [values |-> values, listed |-> h.listed \ {"id"}, prefixed |-> h.prefixed \ {"id"}]
  BY <1>4, <1>6
<1>8. /\ g.values = values /\ g.listed = h.listed \ {"id"} /\ g.prefixed = h.prefixed \ {"id"}
      /\ IsHeader(g)
  BY <1>2, <1>7 DEF IsHeader
<1> QED
  BY <1>2, <1>5, <1>8

\* A value that is set is there, and nothing else is changed.
LEMMA HeaderSet ==
    ASSUME NEW h, IsHeader(h), NEW values
    PROVE  LET g == SetHeader(h, "id", values)
           IN  IsHeader(g) /\ g.values["id"] = values /\ g.listed = h.listed /\ g.prefixed = h.prefixed
BY DEF SetHeader, IsHeader, Names

\* A writer whose header map is changed is one whose other fields are as before.
LEMMA HeaderReplaced ==
    ASSUME NEW w, IsWriter(w), NEW h, IsHeader(h)
    PROVE  LET v == [w EXCEPT !.header = h]
           IN  /\ IsWriter(v) /\ v.header = h
               /\ \A f \in Fields \ {"header"} : v[f] = w[f]
BY DEF IsWriter, Fields

\* So is one whose flag of a commit is changed.
LEMMA CommitSet ==
    ASSUME NEW w, IsWriter(w), NEW c \in BOOLEAN
    PROVE  LET v == [w EXCEPT !.committed = c]
           IN  /\ IsWriter(v) /\ v.committed = c
               /\ \A f \in Fields \ {"committed"} : v[f] = w[f]
BY DEF IsWriter, Fields

\* The access log's writer takes a status down unless it has one.
LEMMA Observes ==
    ASSUME NEW w, IsWriter(w), NEW s
    PROVE  LET v == Observe(w, s)
           IN  /\ IsWriter(v)
               /\ v.status = IF w.logged /\ w.status = 0 THEN s ELSE w.status
               /\ \A f \in Fields \ {"status"} : v[f] = w[f]
BY DEF Observe, IsWriter, Fields

\* The ID's writer makes the header map ready for whatever is sent next, and
\* may take down that it is final.
Ready(w, c) == IF HasID(w) THEN [Enforce(w) EXCEPT !.committed = c] ELSE w

\* Then the map has the ID, once.
LEMMA ReadySets ==
    ASSUME NEW w, IsWriter(w), NEW c \in BOOLEAN
    PROVE  LET v == Ready(w, c)
           IN  /\ IsWriter(v) /\ Enforced(v)
               /\ v.committed = IF HasID(w) THEN c ELSE w.committed
               /\ \A f \in Fields \ {"header", "committed"} : v[f] = w[f]
<1>1. CASE ~HasID(w)
  BY <1>1 DEF Ready, Enforced
<1>2. CASE HasID(w)
  <2>1. PICK g : g = SetHeader(CleanRequestIDHeaders(w.header), "id", <<w.id>>)
    OBVIOUS
  <2>2. IsHeader(CleanRequestIDHeaders(w.header))
    BY CleanedHeader DEF IsWriter
  <2>3. IsHeader(g) /\ g.values["id"] = <<w.id>> /\ "id" \notin g.listed /\ "id" \notin g.prefixed
    <3>1. IsHeader(w.header)
      BY DEF IsWriter
    <3> QED
      BY <2>1, <2>2, <3>1, CleanedHeader, HeaderSet
  <2>4. PICK u : u = [w EXCEPT !.header = g]
    OBVIOUS
  <2>5. IsWriter(u) /\ u.header = g /\ \A f \in Fields \ {"header"} : u[f] = w[f]
    BY <2>3, <2>4, HeaderReplaced
  <2>6. PICK v : v = Ready(w, c)
    OBVIOUS
  <2>7. v = [u EXCEPT !.committed = c]
    BY <1>2, <2>1, <2>4, <2>6 DEF Ready, Enforce
  <2>8. IsWriter(v) /\ v.committed = c /\ \A f \in Fields \ {"committed"} : v[f] = u[f]
    BY <2>5, <2>7, CommitSet
  <2>9. /\ v.header = g /\ v.id = w.id /\ HasID(v)
        /\ \A f \in Fields \ {"header", "committed"} : v[f] = w[f]
    BY <1>2, <2>5, <2>8 DEF Fields, HasID
  <2>10. Enforced(v)
    BY <2>3, <2>9 DEF Enforced
  <2> QED
    BY <1>2, <2>6, <2>8, <2>9, <2>10
<1> QED
  BY <1>1, <1>2

\* What the access log's writer knows once it has been told of status s.
StatusKnown(w, s) == IF Terminal(s) /\ w.status = 0 THEN s ELSE w.status

\* Writer v is what w has become after it was asked to send status s, but for
\* what the access log's writer knows of it.
BlockSent(w, s, c, v) ==
    /\ IsWriter(v) /\ BlocksInv(v) /\ IDsInv(v) /\ CommitInv(v) /\ Kept(v, w)
    /\ HasID(v) => "id" \notin v.header.prefixed
    /\ v.taken = w.taken /\ v.bytes = w.bytes /\ v.sent = w.sent
    /\ v.committed = IF HasID(w) THEN c ELSE w.committed
    /\ w.logged => StatusKnown(w, s) = IF Ended(v) THEN v.blocks[Len(v.blocks)].status
                                        ELSE IF v.taken THEN 101 ELSE 0
    /\ Terminal(s) => v.final \/ v.taken
    /\ s >= 100 => v.panicked = w.panicked
    /\ Fresh(w) /\ s >= 100 /\ ~Terminal(s) => Fresh(v)

\* Sending a header block, whether the access log's writer hears of it before
\* or after: only a final status ends the response, and with the ID's writer
\* in between the block has the ID.
LEMMA Sends ==
    ASSUME NEW w, NEW s \in Nat, NEW c \in BOOLEAN, CoreInv(w), c => Terminal(s) \/ w.committed,
           NEW o, IsWriter(o), \A f \in Fields \ {"status"} : o[f] = w[f],
           NEW v, v = ServerWriteHeader(Ready(o, c), s)
    PROVE  BlockSent(w, s, c, v) /\ v.status = o.status
<1>1. PICK u : u = Ready(o, c)
  OBVIOUS
<1>2. /\ IsWriter(u) /\ Enforced(u)
      /\ u.committed = IF HasID(o) THEN c ELSE o.committed
      /\ \A f \in Fields \ {"header", "committed"} : u[f] = o[f]
  BY <1>1, ReadySets
<1>3. /\ u.blocks = w.blocks /\ u.final = w.final /\ u.taken = w.taken /\ u.announced = w.announced
      /\ u.sent = w.sent /\ u.bytes = w.bytes /\ u.panicked = w.panicked /\ u.id = w.id
      /\ u.logged = w.logged /\ u.status = o.status
      /\ u.committed = IF HasID(w) THEN c ELSE w.committed
  BY <1>2 DEF Fields, HasID
<1>4. BlocksInv(u) /\ IDsInv(u)
  BY <1>3 DEF CoreInv, BlocksInv, IDsInv, Ended, HasID
<1>5. v = ServerWriteHeader(u, s)
  BY <1>1
<1>6. /\ IsWriter(v) /\ BlocksInv(v) /\ IDsInv(v) /\ Kept(v, u)
      /\ v.header = u.header /\ v.taken = u.taken /\ v.committed = u.committed
      /\ v.status = u.status /\ v.bytes = u.bytes /\ v.sent = u.sent
      /\ IF u.taken \/ u.final THEN v = u
         ELSE IF s < 100 THEN v.blocks = u.blocks /\ ~v.final /\ v.panicked
         ELSE /\ Len(v.blocks) = Len(u.blocks) + 1
              /\ v.blocks[Len(v.blocks)].status = s
              /\ v.final <=> Terminal(s)
              /\ v.panicked = u.panicked
  BY <1>2, <1>4, <1>5, ServerHeaderSends
<1>7. Kept(v, w) /\ HasID(v) = HasID(w) /\ HasID(v) = HasID(u)
  BY <1>3, <1>6 DEF Kept, HasID
<1>8. HasID(v) => "id" \notin v.header.prefixed
  BY <1>2, <1>6, <1>7 DEF Enforced
<1>9. Terminal(s) => s >= 100
  BY DEF Terminal
<1>10. u.taken \in BOOLEAN /\ u.final \in BOOLEAN /\ v.final \in BOOLEAN
  BY <1>2, <1>6 DEF IsWriter
<1>11. Terminal(s) => v.final \/ v.taken
  BY <1>6, <1>9, <1>10
<1>12. s >= 100 => v.panicked = w.panicked
  BY <1>3, <1>6, <1>10
<1>13. CommitInv(v)
  <2>1. CASE u.taken \/ u.final
    BY <1>6, <2>1 DEF CommitInv
  <2>2. CASE ~(u.taken \/ u.final) /\ s < 100
    BY <1>6, <2>2 DEF CommitInv
  <2>3. CASE ~(u.taken \/ u.final) /\ ~(s < 100)
    BY <1>3, <1>6, <1>7, <1>11, <2>3 DEF CoreInv, CommitInv
  <2> QED
    BY <1>10, <2>1, <2>2, <2>3
<1>14. ASSUME w.logged
       PROVE  StatusKnown(w, s) = IF Ended(v) THEN v.blocks[Len(v.blocks)].status
                            ELSE IF v.taken THEN 101 ELSE 0
  <2>1. w.status = IF Ended(w) THEN w.blocks[Len(w.blocks)].status
                   ELSE IF w.taken THEN 101 ELSE 0
    BY <1>14 DEF CoreInv, StatusInv
  <2>2. Ended(w) => w.status # 0
    BY <2>1 DEF Ended, Terminal
  <2>3. CASE u.taken \/ u.final
    <3>1. v.blocks = w.blocks /\ v.taken = w.taken /\ (Ended(v) <=> Ended(w))
      BY <1>3, <1>6, <2>3 DEF Ended
    <3>2. Ended(w) \/ w.taken
      BY <1>3, <2>3 DEF CoreInv, BlocksInv
    <3>3. w.status # 0
      BY <2>1, <2>2, <3>2
    <3> QED
      BY <2>1, <3>1, <3>3 DEF StatusKnown
  <2>4. CASE ~(u.taken \/ u.final)
    <3>1. ~Ended(w) /\ w.status = 0 /\ ~v.taken
      BY <1>3, <1>6, <2>1, <2>4 DEF CoreInv, BlocksInv
    <3>2. CASE s < 100
      <4>1. ~Ended(v)
        BY <1>3, <1>6, <2>4, <3>1, <3>2 DEF Ended
      <4> QED
        BY <1>9, <3>1, <3>2, <4>1 DEF StatusKnown
    <3>3. CASE ~(s < 100)
      <4>1. Len(v.blocks) > 0 /\ v.blocks[Len(v.blocks)].status = s
        <5>1. Sequence(u.blocks)
          BY <1>2 DEF IsWriter
        <5>2. Len(u.blocks) \in Nat
          BY <5>1 DEF Sequence
        <5> QED
          BY <1>6, <2>4, <3>3, <5>2
      <4>2. Ended(v) <=> Terminal(s)
        BY <4>1 DEF Ended
      <4> QED
        BY <3>1, <4>1, <4>2 DEF StatusKnown
    <3> QED
      BY <3>2, <3>3
  <2> QED
    BY <2>3, <2>4
<1>15. Fresh(w) /\ s >= 100 /\ ~Terminal(s) => Fresh(v)
  BY <1>3, <1>6, <1>10 DEF Fresh
<1> QED
  BY <1>3, <1>6, <1>7, <1>8, <1>11, <1>12, <1>13, <1>14, <1>15 DEF BlockSent

\* WriteHeader, of whatever stands in the header map.
LEMMA WriteHeaderKeeps ==
    ASSUME NEW w, NEW s \in Nat, CoreInv(w)
    PROVE  LET v == WriteHeader(w, s)
           IN  /\ WriterInv(v) /\ Kept(v, w)
               /\ Terminal(s) => v.final \/ v.taken
               /\ s >= 100 => v.panicked = w.panicked
               /\ Fresh(w) /\ s >= 100 /\ ~Terminal(s) => Fresh(v)
<1>1. PICK o : o = IF Terminal(s) THEN Observe(w, s) ELSE w
  OBVIOUS
<1>2. /\ IsWriter(w) /\ w.committed \in BOOLEAN /\ w.logged \in BOOLEAN
      /\ Terminal(s) \in BOOLEAN
  BY DEF CoreInv, IsWriter, Terminal
<1>3. /\ IsWriter(o) /\ \A f \in Fields \ {"status"} : o[f] = w[f]
      /\ w.logged => o.status = StatusKnown(w, s)
  BY <1>1, <1>2, Observes DEF StatusKnown
<1>4. PICK c \in BOOLEAN : c = (w.committed \/ Terminal(s))
  BY <1>2
<1>5. c => Terminal(s) \/ w.committed
  BY <1>4
<1>6. PICK v : v = ServerWriteHeader(Ready(o, c), s)
  OBVIOUS
<1>7. BlockSent(w, s, c, v) /\ v.status = o.status
  BY <1>3, <1>5, <1>6, Sends
<1>8. StatusInv(v)
  BY <1>3, <1>7 DEF BlockSent, StatusInv, CoreInv, Kept
<1>9. WriterInv(v)
  BY <1>7, <1>8 DEF BlockSent, WriterInv, CoreInv
<1>10. v = WriteHeader(w, s)
  <2>1. WriteHeader(w, s) = IDWriteHeader(o, s)
    BY <1>1 DEF WriteHeader
  <2>2. CASE ~HasID(o)
    BY <1>6, <2>1, <2>2 DEF IDWriteHeader, Ready
  <2>3. CASE HasID(o)
    <3>1. PICK e : e = Enforce(o)
      OBVIOUS
    <3>2. o.committed = w.committed
      BY <1>3 DEF Fields
    <3>3. e.committed = o.committed /\ e = [f \in Fields |-> e[f]]
      BY <1>3, <3>1 DEF Enforce, IsWriter, Fields
    <3>4. [e EXCEPT !.committed = @ \/ Terminal(s)] = [e EXCEPT !.committed = c]
      BY <1>4, <3>2, <3>3
    <3> QED
      BY <1>6, <2>1, <2>3, <3>1, <3>4 DEF IDWriteHeader, Ready
  <2> QED
    BY <2>2, <2>3
<1> QED
  BY <1>7, <1>9, <1>10 DEF BlockSent

\* Such a writer is sound once the access log's writer knows of the block.
LEMMA SentIsSound ==
    ASSUME NEW w, NEW s, NEW c, NEW v, BlockSent(w, s, c, v), CoreInv(w),
           w.logged => v.status = StatusKnown(w, s)
    PROVE  WriterInv(v)
BY DEF BlockSent, WriterInv, CoreInv, StatusInv, Kept

\* A header map that is ready is one the ID has been enforced in.
LEMMA ReadyAsIs ==
    ASSUME NEW w, IsWriter(w)
    PROVE  Ready(w, w.committed) = IF HasID(w) THEN Enforce(w) ELSE w
<1>1. CASE ~HasID(w)
  BY <1>1 DEF Ready
<1>2. CASE HasID(w)
  <2>1. PICK e : e = Enforce(w)
    OBVIOUS
  <2>2. e.committed = w.committed /\ e = [f \in Fields |-> e[f]]
    BY <2>1 DEF Enforce, IsWriter, Fields
  <2>3. [e EXCEPT !.committed = w.committed] = e
    BY <2>2
  <2> QED
    BY <1>2, <2>1, <2>3 DEF Ready
<1> QED
  BY <1>1, <1>2

\* Write commits the header with a 200; both writers count the same bytes.
LEMMA WriteKeeps ==
    ASSUME NEW w, NEW bytes, CoreInv(w)
    PROVE  LET v == Write(w, bytes)
           IN  /\ WriterInv(v) /\ Kept(v, w)
               /\ v.final \/ v.taken
               /\ v.panicked = w.panicked
<1> DEFINE count == Written(w, bytes)
<1>1. PICK o : o = Observe(w, 200)
  OBVIOUS
<1>2. IsWriter(w) /\ w.logged \in BOOLEAN /\ Terminal(200)
  BY DEF CoreInv, IsWriter, Terminal
<1>3. /\ IsWriter(o) /\ \A f \in Fields \ {"status"} : o[f] = w[f]
      /\ w.logged => o.status = StatusKnown(w, 200)
  BY <1>1, <1>2, Observes DEF StatusKnown
<1>4. PICK c \in BOOLEAN : c = TRUE
  OBVIOUS
<1>5. PICK v : v = ServerWriteHeader(Ready(o, c), 200)
  OBVIOUS
<1>6. BlockSent(w, 200, c, v) /\ v.status = o.status
  <2>1. c => Terminal(200) \/ w.committed
    BY <1>2
  <2>2. 200 \in Nat
    OBVIOUS
  <2> QED
    BY <1>3, <1>5, <2>1, <2>2, Sends
<1>7. WriterInv(v) /\ Kept(v, w) /\ (v.final \/ v.taken) /\ v.panicked = w.panicked
      /\ v.bytes = w.bytes /\ v.sent = w.sent
  <2>1. Kept(v, w) /\ (v.final \/ v.taken) /\ v.panicked = w.panicked
        /\ v.bytes = w.bytes /\ v.sent = w.sent
    BY <1>2, <1>6 DEF BlockSent
  <2> QED
    BY <1>3, <1>6, <2>1, SentIsSound
<1>8. PICK x : x = Write(w, bytes)
  OBVIOUS
<1>9. x = [[v EXCEPT !.sent = v.sent + count]
             EXCEPT !.bytes = v.bytes + (IF w.logged THEN count ELSE 0)]
  <2>1. w.taken = Ready(o, c).taken /\ w.taken = o.taken
    <3>1. \A f \in Fields \ {"header", "committed"} : Ready(o, c)[f] = o[f]
      BY <1>3, ReadySets
    <3> QED
      BY <1>3, <3>1 DEF Fields
  <2>2. x = [IDWrite(o, bytes) EXCEPT !.bytes = @ + (IF w.logged THEN count ELSE 0)]
    BY <1>1, <1>8 DEF Write
  <2>3. IDWrite(o, bytes) = ServerWrite(Ready(o, c), bytes)
    BY <1>4 DEF IDWrite, Ready
  <2>4. ServerWrite(Ready(o, c), bytes) = [v EXCEPT !.sent = v.sent + count]
    BY <1>5, <2>1 DEF ServerWrite, Written
  <2>5. PICK y : y = [v EXCEPT !.sent = v.sent + count]
    OBVIOUS
  <2>6. y.bytes = v.bytes
    BY <1>7, <2>5 DEF WriterInv, CoreInv, IsWriter, Fields
  <2> QED
    BY <2>2, <2>3, <2>4, <2>5, <2>6
<1>10. IsWriter(v)
  BY <1>7 DEF WriterInv, CoreInv
<1> HIDE DEF count
<1>11. /\ IsWriter(x) /\ x.sent = v.sent + count
       /\ x.bytes = v.bytes + (IF w.logged THEN count ELSE 0)
       /\ \A f \in Fields \ {"sent", "bytes"} : x[f] = v[f]
  <2>1. PICK a, b : a = v.sent + count /\ b = v.bytes + (IF w.logged THEN count ELSE 0)
    OBVIOUS
  <2>2. x = [[v EXCEPT !.sent = a] EXCEPT !.bytes = b]
    BY <1>9, <2>1
  <2>3. /\ IsWriter(x) /\ x.sent = a /\ x.bytes = b
        /\ \A f \in Fields \ {"sent", "bytes"} : x[f] = v[f]
    BY <1>10, <2>2 DEF IsWriter, Fields
  <2> QED
    BY <2>1, <2>3
<1>12. /\ x.header = v.header /\ x.blocks = v.blocks /\ x.final = v.final /\ x.taken = v.taken
       /\ x.announced = v.announced /\ x.panicked = v.panicked /\ x.id = v.id
       /\ x.committed = v.committed /\ x.logged = v.logged /\ x.status = v.status
  BY <1>11 DEF Fields
<1>13. w.logged => x.bytes = x.sent
  <2>1. w.logged => w.bytes = w.sent
    BY DEF CoreInv, StatusInv
  <2> QED
    BY <1>7, <1>11, <2>1
<1>14. WriterInv(x)
  <2>1. BlocksInv(x) /\ IDsInv(x) /\ CommitInv(x) /\ (HasID(x) => "id" \notin x.header.prefixed)
    BY <1>7, <1>12 DEF WriterInv, CoreInv, BlocksInv, IDsInv, CommitInv, HasID, Ended
  <2>2. StatusInv(x)
    BY <1>7, <1>12, <1>13 DEF WriterInv, CoreInv, StatusInv, Kept, Ended
  <2> QED
    BY <1>11, <2>1, <2>2 DEF WriterInv, CoreInv
<1> QED
  BY <1>7, <1>8, <1>12, <1>14 DEF Kept

\* A flush that is supported commits the header with a 200; the access log's
\* writer hears of it afterwards.
LEMMA FlushKeeps ==
    ASSUME NEW w, NEW error, CoreInv(w)
    PROVE  LET v == Flush(w, error) IN WriterInv(v) /\ Kept(v, w)
<1>1. PICK x : x = Flush(w, error)
  OBVIOUS
<1>2. IsWriter(w) /\ w.committed \in BOOLEAN /\ w.logged \in BOOLEAN /\ Terminal(200)
  BY DEF CoreInv, IsWriter, Terminal
<1>3. PICK u : u = Ready(w, w.committed)
  OBVIOUS
<1>4. u = IF HasID(w) THEN Enforce(w) ELSE w
  BY <1>2, <1>3, ReadyAsIs
<1>5. /\ IsWriter(u) /\ Enforced(u)
      /\ u.committed = IF HasID(w) THEN w.committed ELSE w.committed
      /\ \A f \in Fields \ {"header", "committed"} : u[f] = w[f]
  BY <1>2, <1>3, ReadySets
<1>6. /\ u.blocks = w.blocks /\ u.final = w.final /\ u.taken = w.taken /\ u.announced = w.announced
      /\ u.sent = w.sent /\ u.bytes = w.bytes /\ u.panicked = w.panicked /\ u.id = w.id
      /\ u.logged = w.logged /\ u.status = w.status /\ u.committed = w.committed
      /\ HasID(u) = HasID(w)
  BY <1>5 DEF Fields, HasID
<1>7. CASE error = "unsupported"
  <2>1. PICK c \in BOOLEAN : c = (w.committed \/ (HasID(w) /\ error = "none"))
    BY <1>2
  <2>2. c = u.committed
    BY <1>2, <1>6, <1>7, <2>1
  <2>3. x = [u EXCEPT !.committed = c]
    <3>1. IDFlush(w, error) = [u EXCEPT !.committed = @ \/ (HasID(w) /\ error = "none")]
      BY <1>4, <1>7 DEF IDFlush
    <3>2. [u EXCEPT !.committed = @ \/ (HasID(w) /\ error = "none")] = [u EXCEPT !.committed = c]
      BY <1>6, <2>1
    <3> QED
      BY <1>1, <1>7, <3>1, <3>2 DEF Flush
  <2>4. x = u
    BY <1>5, <2>2, <2>3 DEF IsWriter
  <2>5. BlocksInv(u) /\ IDsInv(u) /\ StatusInv(u) /\ CommitInv(u)
    BY <1>6 DEF CoreInv, BlocksInv, IDsInv, StatusInv, CommitInv, Ended
  <2>6. HasID(u) => "id" \notin u.header.prefixed
    BY <1>5 DEF Enforced
  <2> QED
    BY <1>1, <1>5, <1>6, <2>4, <2>5, <2>6 DEF WriterInv, CoreInv, Kept
<1>8. CASE error # "unsupported"
  <2>1. PICK v : v = ServerWriteHeader(u, 200)
    OBVIOUS
  <2>2. BlockSent(w, 200, w.committed, v) /\ v.status = w.status
    <3>1. v = ServerWriteHeader(Ready(w, w.committed), 200) /\ 200 \in Nat
      BY <1>3, <2>1
    <3>2. w.committed => Terminal(200) \/ w.committed
      OBVIOUS
    <3>3. \A f \in Fields \ {"status"} : w[f] = w[f]
      OBVIOUS
    <3> QED
      BY <1>2, <3>1, <3>2, <3>3, Sends
  <2>3. /\ IsWriter(v) /\ v.committed \in BOOLEAN /\ Kept(v, w) /\ (v.final \/ v.taken)
        /\ v.logged = w.logged
    BY <1>2, <2>2 DEF BlockSent, IsWriter, Kept
  <2>4. PICK c \in BOOLEAN : c = (v.committed \/ (HasID(w) /\ error = "none"))
    BY <2>3
  <2>5. PICK g : g = [v EXCEPT !.committed = c]
    OBVIOUS
  <2>6. IsWriter(g) /\ g.committed = c /\ \A f \in Fields \ {"committed"} : g[f] = v[f]
    BY <2>3, <2>5, CommitSet
  <2>7. x = Observe(g, 200)
    <3>1. IDFlush(w, error) = [v EXCEPT !.committed = @ \/ (HasID(w) /\ error = "none")]
      BY <1>4, <1>8, <2>1 DEF IDFlush
    <3>2. [v EXCEPT !.committed = @ \/ (HasID(w) /\ error = "none")] = g
      BY <2>4, <2>5
    <3> QED
      BY <1>1, <1>8, <3>1, <3>2 DEF Flush
  <2>8. /\ IsWriter(x)
        /\ x.status = IF g.logged /\ g.status = 0 THEN 200 ELSE g.status
        /\ \A f \in Fields \ {"status"} : x[f] = g[f]
    BY <2>6, <2>7, Observes
  <2>9. /\ x.header = v.header /\ x.blocks = v.blocks /\ x.final = v.final /\ x.taken = v.taken
        /\ x.announced = v.announced /\ x.panicked = v.panicked /\ x.id = v.id
        /\ x.logged = v.logged /\ x.sent = v.sent /\ x.bytes = v.bytes
        /\ g.logged = w.logged /\ g.status = w.status
    BY <2>2, <2>3, <2>6, <2>8 DEF Fields
  <2>10. w.logged => x.status = StatusKnown(w, 200)
    BY <1>2, <2>8, <2>9 DEF StatusKnown
  <2>11. BlocksInv(x) /\ IDsInv(x) /\ CommitInv(x) /\ (HasID(x) => "id" \notin x.header.prefixed)
    BY <2>2, <2>3, <2>9 DEF BlockSent, BlocksInv, IDsInv, CommitInv, HasID, Ended
  <2>12. StatusInv(x)
    BY <2>2, <2>3, <2>9, <2>10 DEF BlockSent, CoreInv, StatusInv, Ended
  <2> QED
    BY <1>1, <2>3, <2>8, <2>9, <2>11, <2>12 DEF WriterInv, CoreInv, Kept
<1> QED
  BY <1>7, <1>8

\* Writer v is w with another header map.
Refilled(w, v) ==
    /\ CoreInv(v) /\ Kept(v, w)
    /\ v.final = w.final /\ v.taken = w.taken /\ v.panicked = w.panicked
    /\ v.blocks = w.blocks /\ v.committed = w.committed /\ v.status = w.status
    /\ v.hijacked = w.hijacked /\ HasID(v) = HasID(w)
    /\ Fresh(w) => Fresh(v)

\* A writer that differs in nothing but its header map is as sound.
LEMMA OnlyHeader ==
    ASSUME NEW w, NEW v, CoreInv(w), IsWriter(v),
           \A f \in Fields \ {"header", "prepared"} : v[f] = w[f]
    PROVE  Refilled(w, v)
<1>1. /\ v.blocks = w.blocks /\ v.final = w.final /\ v.taken = w.taken /\ v.announced = w.announced
      /\ v.sent = w.sent /\ v.bytes = w.bytes /\ v.panicked = w.panicked /\ v.id = w.id
      /\ v.logged = w.logged /\ v.status = w.status /\ v.committed = w.committed
      /\ v.hijacked = w.hijacked
  BY DEF Fields
<1> QED
  BY <1>1 DEF Refilled, CoreInv, Kept, BlocksInv, IDsInv, StatusInv, CommitInv, HasID, Ended, Fresh

\* Fetching the header map changes nothing but the map.  After the commit it
\* has nothing of the ID's name, but for the header of an upgrade.
LEMMA GetHeaderKeeps ==
    ASSUME NEW w, CoreInv(w), NEW v, v = GetHeader(w)
    PROVE  /\ Refilled(w, v)
           /\ WriterInv(w) => WriterInv(v)
           /\ HasID(w) /\ w.committed =>
                /\ "id" \notin v.header.listed /\ "id" \notin v.header.prefixed
                /\ w.hijacked /\ ~w.prepared => v.prepared
                /\ w.hijacked /\ w.prepared => v.header.values["id"] = <<w.id>>
<1>1. CASE ~HasID(w) \/ ~w.committed
  <2>1. v = w
    BY <1>1 DEF GetHeader
  <2> QED
    BY <1>1, <2>1 DEF Refilled, Kept
<1>2. CASE ~(~HasID(w) \/ ~w.committed)
  <2>1. IsWriter(w) /\ IsHeader(w.header) /\ w.prepared \in BOOLEAN /\ w.hijacked \in BOOLEAN
    BY DEF CoreInv, IsWriter
  <2>2. PICK g : g = CleanRequestIDHeaders(w.header)
    OBVIOUS
  <2>3. IsHeader(g) /\ "id" \notin g.listed /\ "id" \notin g.prefixed
    BY <2>1, <2>2, CleanedHeader
  <2>4. PICK u : u = [w EXCEPT !.header = g]
    OBVIOUS
  <2>5. IsWriter(u) /\ u.header = g /\ \A f \in Fields \ {"header"} : u[f] = w[f]
    BY <2>1, <2>3, <2>4, HeaderReplaced
  <2>6. CASE w.hijacked /\ w.prepared
    <3>1. PICK h : h = SetHeader(g, "id", <<w.id>>)
      OBVIOUS
    <3>2. IsHeader(h) /\ h.values["id"] = <<w.id>> /\ h.listed = g.listed /\ h.prefixed = g.prefixed
      BY <2>3, <3>1, HeaderSet
    <3>3. v = [u EXCEPT !.header = h]
      BY <1>2, <2>2, <2>4, <2>5, <2>6, <3>1 DEF GetHeader
    <3>4. IsWriter(v) /\ v.header = h /\ \A f \in Fields \ {"header"} : v[f] = u[f]
      BY <2>5, <3>2, <3>3, HeaderReplaced
    <3>5. \A f \in Fields \ {"header", "prepared"} : v[f] = w[f]
      BY <2>5, <3>4
    <3> QED
      <4>1. Refilled(w, v)
        BY <3>4, <3>5, OnlyHeader
      <4> QED
        BY <2>3, <2>6, <3>2, <3>4, <4>1 DEF WriterInv, Refilled
  <2>7. CASE ~(w.hijacked /\ w.prepared)
    <3>1. PICK p \in BOOLEAN : p = (w.prepared \/ w.hijacked)
      BY <2>1
    <3>2. v = [u EXCEPT !.prepared = p]
      BY <1>2, <2>2, <2>4, <2>7, <3>1 DEF GetHeader
    <3>3. IsWriter(v) /\ v.prepared = p /\ \A f \in Fields \ {"prepared"} : v[f] = u[f]
      BY <2>5, <3>2 DEF IsWriter, Fields
    <3>4. v.header = g /\ \A f \in Fields \ {"header", "prepared"} : v[f] = w[f]
      BY <2>5, <3>3 DEF Fields
    <3> QED
      <4>1. Refilled(w, v)
        BY <3>3, <3>4, OnlyHeader
      <4> QED
        BY <2>3, <2>7, <3>1, <3>3, <3>4, <4>1 DEF WriterInv, Refilled
  <2> QED
    BY <2>6, <2>7
<1> QED
  BY <1>1, <1>2

\* So does filling the map.
LEMMA FillKeeps ==
    ASSUME NEW w, CoreInv(w), NEW h, IsHeader(h), NEW v, v = [w EXCEPT !.header = h]
    PROVE  Refilled(w, v) /\ v.header = h /\ v.prepared = w.prepared
<1>1. IsWriter(w)
  BY DEF CoreInv
<1>2. IsWriter(v) /\ v.header = h /\ \A f \in Fields \ {"header"} : v[f] = w[f]
  BY <1>1, HeaderReplaced
<1>3. v.prepared = w.prepared /\ \A f \in Fields \ {"header", "prepared"} : v[f] = w[f]
  BY <1>2 DEF Fields
<1> QED
  BY <1>2, <1>3, OnlyHeader

\* http.Error ends the response.
LEMMA ErrorKeeps ==
    ASSUME NEW w, NEW s \in Nat, CoreInv(w), Terminal(s)
    PROVE  LET v == Error(w, s)
           IN  WriterInv(v) /\ Kept(v, w) /\ (v.final \/ v.taken) /\ v.panicked = w.panicked
<1>1. PICK g : g = GetHeader(w)
  OBVIOUS
<1>2. CoreInv(g) /\ Kept(g, w) /\ g.panicked = w.panicked
  BY <1>1, GetHeaderKeeps DEF Refilled
<1>3. PICK h : h = WriteHeader(g, s)
  OBVIOUS
<1>4. s >= 100
  BY DEF Terminal
<1>5. WriterInv(h) /\ Kept(h, g) /\ h.panicked = g.panicked
  BY <1>2, <1>3, <1>4, WriteHeaderKeeps
<1>6. PICK v : v = Write(h, 1)
  OBVIOUS
<1>7. CoreInv(h)
  BY <1>5 DEF WriterInv
<1>8. WriterInv(v) /\ Kept(v, h) /\ (v.final \/ v.taken) /\ v.panicked = h.panicked
  BY <1>6, <1>7, WriteKeeps
<1>9. v = Error(w, s)
  BY <1>1, <1>3, <1>6 DEF Error
<1> QED
  BY <1>2, <1>5, <1>8, <1>9 DEF Kept

\* Enforcing the ID refills the header map.
LEMMA EnforceKeeps ==
    ASSUME NEW w, CoreInv(w), NEW v, v = IF HasID(w) THEN Enforce(w) ELSE w
    PROVE  Refilled(w, v) /\ Enforced(v)
<1>1. IsWriter(w) /\ w.committed \in BOOLEAN
  BY DEF CoreInv, IsWriter
<1>2. v = Ready(w, w.committed)
  BY <1>1, ReadyAsIs
<1>3. /\ IsWriter(v) /\ Enforced(v)
      /\ v.committed = IF HasID(w) THEN w.committed ELSE w.committed
      /\ \A f \in Fields \ {"header", "committed"} : v[f] = w[f]
  BY <1>1, <1>2, ReadySets
<1>4. \A f \in Fields \ {"header", "prepared"} : v[f] = w[f]
  BY <1>3 DEF Fields
<1> QED
  BY <1>3, <1>4, OnlyHeader

\* A hijack that is refused leaves a fresh response as it is.
LEMMA HijackRefused ==
    ASSUME NEW w, CoreInv(w), NEW error, error # "none", NEW v, v = Hijack(w, error)
    PROVE  CoreInv(v) /\ Kept(v, w)
<1>1. v = IF HasID(w) THEN Enforce(w) ELSE w
  BY DEF Hijack, IDHijack
<1> QED
  BY <1>1, EnforceKeeps DEF Refilled

\* After a hijack the ID's writer waits for the header map to be fetched twice.
LEMMA HijackTakes ==
    ASSUME NEW w, CoreInv(w), Fresh(w), NEW v, v = Hijack(w, "none")
    PROVE  /\ CoreInv(v) /\ Kept(v, w) /\ v.taken /\ v.panicked = w.panicked /\ v.blocks = w.blocks
           /\ v.committed = HasID(w) /\ v.hijacked = HasID(w) /\ ~v.prepared
           /\ w.logged => v.status = 101
<1>1. PICK e : e = IF HasID(w) THEN Enforce(w) ELSE w
  OBVIOUS
<1>2. Refilled(w, e)
  BY <1>1, EnforceKeeps
<1>3. PICK id \in BOOLEAN : id = HasID(w)
  BY DEF HasID
<1>4. PICK u : u = [e EXCEPT !.taken = TRUE, !.committed = id, !.hijacked = id, !.prepared = FALSE]
  OBVIOUS
<1>5. v = Observe(u, 101)
  BY <1>1, <1>3, <1>4 DEF Hijack, IDHijack
<1>6. IsWriter(e)
  BY <1>2 DEF Refilled, CoreInv
<1>7. /\ IsWriter(u) /\ u.taken /\ u.committed = id /\ u.hijacked = id /\ ~u.prepared
      /\ \A f \in Fields \ {"taken", "committed", "hijacked", "prepared"} : u[f] = e[f]
  BY <1>4, <1>6 DEF IsWriter, Fields
<1>8. /\ IsWriter(v)
      /\ v.status = IF u.logged /\ u.status = 0 THEN 101 ELSE u.status
      /\ \A f \in Fields \ {"status"} : v[f] = u[f]
  BY <1>5, <1>7, Observes
<1>9. /\ v.header = e.header /\ v.blocks = e.blocks /\ v.final = e.final /\ v.announced = e.announced
      /\ v.sent = e.sent /\ v.bytes = e.bytes /\ v.panicked = e.panicked /\ v.id = e.id
      /\ v.logged = e.logged /\ u.logged = e.logged /\ u.status = e.status
      /\ v.taken /\ v.committed = id /\ v.hijacked = id /\ ~v.prepared
  BY <1>7, <1>8 DEF Fields
<1>10. ~e.final /\ ~e.taken /\ ~Ended(e) /\ e.blocks = w.blocks
  BY <1>2 DEF Refilled, Fresh, CoreInv, BlocksInv
<1>11. e.logged => e.status = 0
  BY <1>2, <1>10 DEF Refilled, CoreInv, StatusInv
<1>12. e.logged => v.status = 101
  BY <1>8, <1>9, <1>11
<1>13. ~Ended(v)
  BY <1>9, <1>10 DEF Ended
<1>14. BlocksInv(v) /\ IDsInv(v) /\ CommitInv(v)
  BY <1>2, <1>9, <1>13 DEF Refilled, CoreInv, BlocksInv, IDsInv, CommitInv, HasID, Ended
<1>15. StatusInv(v)
  BY <1>2, <1>9, <1>12, <1>13 DEF Refilled, CoreInv, StatusInv
<1>16. CoreInv(v)
  BY <1>8, <1>14, <1>15 DEF CoreInv
<1> QED
  BY <1>2, <1>3, <1>9, <1>10, <1>12, <1>16 DEF Refilled, Kept

\* Headers that are copied from elsewhere make a header.
LEMMA CopiedHeader ==
    ASSUME NEW to, NEW from
    PROVE  IsHeader(CopyHeader(to, from))
BY DEF CopyHeader, IsHeader

\* The proxy writes the block of an upgrade itself, with what the second fetch
\* of the header map gives it: the ID, once.
LEMMA UpgradeKeeps ==
    ASSUME NEW w, CoreInv(w), Fresh(w), NEW from,
           NEW g, g = GetHeader(Hijack(w, "none")),
           NEW x, x = GetHeader([g EXCEPT !.header = CopyHeader(@, from)])
    PROVE  /\ CoreInv(x) /\ Kept(x, w) /\ x.taken /\ x.panicked = w.panicked
           /\ WriterInv(SendBlock(x, 101)) /\ Kept(SendBlock(x, 101), w)
<1>1. PICK v : v = Hijack(w, "none")
  OBVIOUS
<1>2. /\ CoreInv(v) /\ Kept(v, w) /\ v.taken /\ v.panicked = w.panicked /\ v.blocks = w.blocks
      /\ v.committed = HasID(w) /\ v.hijacked = HasID(w) /\ ~v.prepared
      /\ w.logged => v.status = 101
  BY <1>1, HijackTakes
<1>3. g = GetHeader(v)
  BY <1>1
<1>4. /\ Refilled(v, g)
      /\ HasID(v) /\ v.committed /\ v.hijacked /\ ~v.prepared => g.prepared
  BY <1>2, <1>3, GetHeaderKeeps
<1>5. PICK h : h = CopyHeader(g.header, from)
  OBVIOUS
<1>6. PICK f : f = [g EXCEPT !.header = h]
  OBVIOUS
<1>7. CoreInv(g)
  BY <1>4 DEF Refilled
<1>8. Refilled(g, f) /\ f.prepared = g.prepared
  BY <1>5, <1>6, <1>7, CopiedHeader, FillKeeps
<1>9. x = GetHeader(f)
  BY <1>5, <1>6
<1>10. CoreInv(f)
  BY <1>8 DEF Refilled
<1>11. /\ Refilled(f, x)
       /\ HasID(f) /\ f.committed =>
            /\ "id" \notin x.header.listed /\ "id" \notin x.header.prefixed
            /\ f.hijacked /\ f.prepared => x.header.values["id"] = <<f.id>>
  BY <1>9, <1>10, GetHeaderKeeps
<1>12. /\ CoreInv(x) /\ Kept(x, w) /\ x.taken /\ x.panicked = w.panicked /\ x.blocks = w.blocks
       /\ w.logged => x.status = 101
       /\ x.final = v.final
  <2>1. CoreInv(x)
    BY <1>11 DEF Refilled
  <2>2. /\ x.taken = v.taken /\ x.panicked = v.panicked /\ x.blocks = v.blocks
        /\ x.status = v.status /\ x.final = v.final
    BY <1>4, <1>8, <1>11 DEF Refilled
  <2>3. Kept(x, w)
    BY <1>2, <1>4, <1>8, <1>11 DEF Refilled, Kept
  <2> QED
    BY <1>2, <2>1, <2>2, <2>3
<1>13. HasID(x) => /\ "id" \notin x.header.listed /\ "id" \notin x.header.prefixed
                   /\ x.header.values["id"] = <<x.id>>
  BY <1>2, <1>4, <1>8, <1>11 DEF Refilled, Kept, HasID
<1>14. \A i \in DOMAIN w.blocks : ~Terminal(w.blocks[i].status)
  <2>1. ~Ended(w)
    BY DEF CoreInv, BlocksInv, Fresh
  <2> QED
    BY <2>1 DEF CoreInv, BlocksInv, Ended
<1>15. PICK block : block = [status |-> 101, ids |-> x.header.values["id"], listed |-> x.header.listed]
  OBVIOUS
<1>16. PICK y : y = SendBlock(x, 101)
  OBVIOUS
<1>17. y = [x EXCEPT !.blocks = Append(x.blocks, block)]
  BY <1>15, <1>16 DEF SendBlock
<1>18. IsWriter(x) /\ Sequence(x.blocks)
  BY <1>12 DEF CoreInv, IsWriter
<1>19. /\ Sequence(Append(x.blocks, block))
       /\ Len(Append(x.blocks, block)) = Len(x.blocks) + 1
       /\ DOMAIN x.blocks = 1 .. Len(x.blocks) /\ Len(x.blocks) \in Nat
       /\ DOMAIN Append(x.blocks, block) = 1 .. Len(x.blocks) + 1
       /\ \A i \in DOMAIN x.blocks : Append(x.blocks, block)[i] = x.blocks[i]
       /\ Append(x.blocks, block)[Len(x.blocks) + 1] = block
  BY <1>18, Appended
<1>20. PICK blocks : blocks = Append(x.blocks, block)
  OBVIOUS
<1>21. /\ y = [n \in Fields |-> y[n]] /\ DOMAIN y = Fields /\ y.blocks = blocks
       /\ \A n \in Fields \ {"blocks"} : y[n] = x[n]
  BY <1>17, <1>18, <1>20 DEF IsWriter, Fields
<1>22. /\ y.header = x.header /\ y.final = x.final /\ y.taken = x.taken /\ y.announced = x.announced
       /\ y.sent = x.sent /\ y.bytes = x.bytes /\ y.panicked = x.panicked /\ y.id = x.id
       /\ y.committed = x.committed /\ y.hijacked = x.hijacked /\ y.prepared = x.prepared
       /\ y.logged = x.logged /\ y.status = x.status
  BY <1>21 DEF Fields
<1>23. IsWriter(y)
  BY <1>18, <1>19, <1>20, <1>21, <1>22 DEF IsWriter
<1>24. /\ Len(y.blocks) = Len(x.blocks) + 1 /\ DOMAIN y.blocks = 1 .. Len(x.blocks) + 1
       /\ \A i \in 1 .. Len(x.blocks) : y.blocks[i] = x.blocks[i] /\ ~Terminal(x.blocks[i].status)
       /\ y.blocks[Len(x.blocks) + 1] = block /\ Len(x.blocks) \in Nat
  <2>1. /\ Len(blocks) = Len(x.blocks) + 1 /\ DOMAIN blocks = 1 .. Len(x.blocks) + 1
        /\ \A i \in 1 .. Len(x.blocks) : blocks[i] = x.blocks[i]
        /\ blocks[Len(x.blocks) + 1] = block /\ Len(x.blocks) \in Nat
    BY <1>19, <1>20
  <2>2. \A i \in 1 .. Len(x.blocks) : ~Terminal(x.blocks[i].status)
    BY <1>12, <1>14, <1>19
  <2> QED
    BY <1>21, <2>1, <2>2
<1>25. block.status = 101 /\ block.ids = x.header.values["id"] /\ block.listed = x.header.listed
  BY <1>15
<1>26. Ended(y) /\ y.blocks[Len(y.blocks)].status = 101
  BY <1>24, <1>25 DEF Ended, Terminal
<1>27. BlocksInv(y)
  BY <1>12, <1>22, <1>24, <1>26 DEF BlocksInv
<1>28. IDsInv(y)
  <2>1. HasID(x) => "id" \notin x.announced
    BY <1>12 DEF CoreInv, IDsInv
  <2>2. HasID(x) => \A i \in 1 .. Len(x.blocks) :
                        x.blocks[i].ids = <<x.id>> /\ "id" \notin x.blocks[i].listed
    BY <1>12, <1>19 DEF CoreInv, IDsInv
  <2> QED
    BY <1>13, <1>22, <1>24, <1>25, <2>1, <2>2 DEF IDsInv, HasID
<1>29. StatusInv(y)
  BY <1>12, <1>22, <1>26 DEF CoreInv, StatusInv, Kept
<1>30. CommitInv(y) /\ (HasID(y) => "id" \notin y.header.prefixed)
  BY <1>12, <1>13, <1>22 DEF CoreInv, CommitInv, HasID
<1>31. WriterInv(y)
  BY <1>23, <1>27, <1>28, <1>29, <1>30 DEF WriterInv, CoreInv
<1> QED
  BY <1>12, <1>16, <1>22, <1>31 DEF Kept

\* The writers around a fresh response are sound, and nothing has been sent.
LEMMA NewWriterIsSound ==
    ASSUME NEW id, NEW logged \in BOOLEAN, NEW v, v = NewWriter(id, logged)
    PROVE  WriterInv(v) /\ Fresh(v) /\ v.id = id /\ v.logged = logged
<1>1. PICK w : w = [header |-> EmptyHeader, blocks |-> <<>>, final |-> FALSE, taken |-> FALSE,
                    announced |-> {}, sent |-> 0, panicked |-> FALSE,
                    id |-> id, committed |-> FALSE, hijacked |-> FALSE, prepared |-> FALSE,
                    logged |-> logged, status |-> 0, bytes |-> 0]
  OBVIOUS
<1>2. v = IF HasID(w) THEN Enforce(w) ELSE w
  BY <1>1 DEF NewWriter
<1>3. IsHeader(EmptyHeader) /\ EmptyHeader.prefixed = {}
  BY DEF EmptyHeader, IsHeader
<1>4. /\ w.header = EmptyHeader /\ w.blocks = <<>> /\ ~w.final /\ ~w.taken /\ w.announced = {}
      /\ w.sent = 0 /\ ~w.panicked /\ w.id = id /\ ~w.committed /\ w.logged = logged
      /\ w.status = 0 /\ w.bytes = 0
  BY <1>1
<1>5. IsWriter(w)
  <2>1. DOMAIN w = Fields /\ w = [f \in Fields |-> w[f]]
    BY <1>1 DEF Fields
  <2>2. w.final \in BOOLEAN /\ w.taken \in BOOLEAN /\ w.panicked \in BOOLEAN
        /\ w.committed \in BOOLEAN /\ w.hijacked \in BOOLEAN /\ w.prepared \in BOOLEAN
        /\ w.logged \in BOOLEAN
    BY <1>1
  <2>3. Sequence(w.blocks)
    BY <1>4 DEF Sequence
  <2> QED
    BY <1>3, <1>4, <2>1, <2>2, <2>3 DEF IsWriter
<1>6. ~Ended(w) /\ DOMAIN w.blocks = {}
  BY <1>4 DEF Ended
<1>7. CoreInv(w) /\ Fresh(w)
  BY <1>4, <1>5, <1>6 DEF CoreInv, BlocksInv, IDsInv, StatusInv, CommitInv, Fresh
<1>8. Refilled(w, v) /\ Enforced(v)
  BY <1>2, <1>7, EnforceKeeps
<1> QED
  BY <1>4, <1>7, <1>8 DEF Refilled, Enforced, WriterInv, Kept

\* A panic of the handler's own changes nothing that was sent.
LEMMA PanicKeeps ==
    ASSUME NEW w, WriterInv(w), NEW v, v = [w EXCEPT !.panicked = TRUE]
    PROVE  WriterInv(v) /\ Kept(v, w)
<1>1. IsWriter(w)
  BY DEF WriterInv, CoreInv
<1>2. IsWriter(v) /\ v.panicked /\ \A f \in Fields \ {"panicked"} : v[f] = w[f]
  BY <1>1 DEF IsWriter, Fields
<1>3. /\ v.header = w.header /\ v.blocks = w.blocks /\ v.final = w.final /\ v.taken = w.taken
      /\ v.announced = w.announced /\ v.sent = w.sent /\ v.bytes = w.bytes /\ v.id = w.id
      /\ v.logged = w.logged /\ v.status = w.status
  BY <1>2 DEF Fields
<1> QED
  BY <1>2, <1>3 DEF WriterInv, CoreInv, Kept, BlocksInv, IDsInv, StatusInv, CommitInv, HasID, Ended

\* What a response came to, as the client and the server have it.
StatusOfResponse(w) ==
    IF Ended(w) THEN w.blocks[Len(w.blocks)].status ELSE IF w.taken THEN 101 ELSE 500

\* The server's writer ends the response the handler has left, and the record
\* has the status and the bytes of what is sent with that.
LEMMA FinishKeeps ==
    ASSUME NEW w, WriterInv(w),
           NEW e, e = IF HasID(w) /\ ~w.committed THEN Enforce(w) ELSE w,
           NEW v, v = IF w.panicked THEN w ELSE ServerFinish(e)
    PROVE  /\ IsWriter(v) /\ BlocksInv(v) /\ IDsInv(v) /\ Kept(v, w)
           /\ HasID(v) => "id" \notin v.header.prefixed
           /\ w.logged => w.bytes = v.sent /\ Recorded(w) = StatusOfResponse(v)
<1>1. CoreInv(w) /\ IsWriter(w) /\ w.committed \in BOOLEAN /\ w.panicked \in BOOLEAN
  BY DEF WriterInv, CoreInv, IsWriter
<1>2. w.logged => /\ w.bytes = w.sent
                  /\ w.status = IF Ended(w) THEN w.blocks[Len(w.blocks)].status
                                ELSE IF w.taken THEN 101 ELSE 0
                  /\ w.status = 0 => ~Ended(w) /\ ~w.taken
  BY <1>1 DEF CoreInv, StatusInv, Ended, Terminal
<1>3. CASE w.panicked \/ (HasID(w) /\ w.committed)
  <2>1. v = w
    <3>1. CASE w.panicked
      BY <3>1
    <3>2. CASE ~w.panicked /\ HasID(w) /\ w.committed
      BY <1>1, <3>2 DEF CoreInv, CommitInv, ServerFinish, ServerWriteHeader
    <3> QED
      BY <1>1, <1>3, <3>1, <3>2
  <2>2. w.logged => Recorded(w) = StatusOfResponse(w)
    <3>1. CASE w.panicked
      BY <1>2, <3>1 DEF Recorded, StatusOfResponse
    <3>2. CASE ~w.panicked /\ HasID(w) /\ w.committed
      BY <1>1, <1>2, <3>2 DEF Recorded, StatusOfResponse, CoreInv, CommitInv, BlocksInv
    <3> QED
      BY <1>1, <1>3, <3>1, <3>2
  <2> QED
    BY <1>1, <1>2, <2>1, <2>2 DEF Kept, WriterInv, CoreInv
<1>4. CASE ~w.panicked /\ ~(HasID(w) /\ w.committed)
  <2>1. e = Ready(w, w.committed)
    BY <1>1, <1>4, ReadyAsIs
  <2>2. v = ServerWriteHeader(Ready(w, w.committed), 200)
    BY <1>4, <2>1 DEF ServerFinish
  <2>3. BlockSent(w, 200, w.committed, v)
    <3>1. w.committed => Terminal(200) \/ w.committed
      OBVIOUS
    <3>2. \A f \in Fields \ {"status"} : w[f] = w[f]
      OBVIOUS
    <3> QED
      BY <1>1, <2>2, <3>1, <3>2, Sends
  <2>4. Terminal(200)
    BY DEF Terminal
  <2>5. w.logged => Recorded(w) = StatusKnown(w, 200)
    BY <1>4, <2>4 DEF Recorded, StatusKnown
  <2>6. Ended(v) \/ v.taken
    BY <2>3, <2>4 DEF BlockSent, BlocksInv
  <2> QED
    BY <1>2, <2>3, <2>5, <2>6 DEF BlockSent, StatusOfResponse
<1> QED
  BY <1>1, <1>3, <1>4

\* The smallest member of a set of one.
LEMMA MinOfOne ==
    ASSUME NEW n \in Nat
    PROVE  Min({n}) = n
BY DEF Min

\* The first final block is the last.
LEMMA OneFinalBlock ==
    ASSUME NEW w, IsWriter(w), BlocksInv(w)
    PROVE  LET terminal == {i \in DOMAIN w.blocks : Terminal(w.blocks[i].status)}
               status == IF terminal # {} THEN w.blocks[Min(terminal)].status
                         ELSE IF w.taken THEN 101 ELSE 500
           IN status = StatusOfResponse(w)
<1>1. PICK terminal : terminal = {i \in DOMAIN w.blocks : Terminal(w.blocks[i].status)}
  OBVIOUS
<1>2. Len(w.blocks) \in Nat /\ DOMAIN w.blocks = 1 .. Len(w.blocks)
  BY DEF IsWriter, Sequence
<1>3. CASE Ended(w)
  <2>1. terminal = {Len(w.blocks)}
    BY <1>1, <1>2, <1>3 DEF Ended, BlocksInv
  <2>2. Min(terminal) = Len(w.blocks) /\ terminal # {}
    BY <1>2, <2>1, MinOfOne
  <2> QED
    BY <1>1, <1>3, <2>2 DEF StatusOfResponse
<1>4. CASE ~Ended(w)
  <2>1. terminal = {}
    BY <1>1, <1>2, <1>4 DEF Ended, BlocksInv
  <2> QED
    BY <1>1, <1>4, <2>1 DEF StatusOfResponse
<1> QED
  BY <1>3, <1>4

\* A header keeps its shape when one part of it is replaced.
LEMMA PartReplaced ==
    ASSUME NEW h, IsHeader(h), NEW values, values = [n \in Names |-> values[n]], NEW names
    PROVE  /\ IsHeader([h EXCEPT !.values = values]) /\ [h EXCEPT !.values = values].prefixed = h.prefixed
           /\ IsHeader([h EXCEPT !.listed = names]) /\ [h EXCEPT !.listed = names].prefixed = h.prefixed
           /\ IsHeader([h EXCEPT !.prefixed = names]) /\ [h EXCEPT !.prefixed = names].prefixed = names
BY DEF IsHeader

\* A writer that is sound stays so when the handler fills its header map, unless
\* it puts a trailer of the ID's name there.
LEMMA FilledIsSound ==
    ASSUME NEW w, WriterInv(w), NEW h, IsHeader(h), HasID(w) => "id" \notin h.prefixed,
           NEW v, v = [w EXCEPT !.header = h]
    PROVE  WriterInv(v) /\ Refilled(w, v)
<1>1. Refilled(w, v) /\ v.header = h
  BY FillKeeps DEF WriterInv
<1> QED
  BY <1>1 DEF Refilled, WriterInv

-----------------------------------------------------------------------------
(* Paths.                                                                  *)

\* The bytes of a path.  A slash is a string, which the provers are not aware of.
Byte == STRING \cup {"/"}

\* A byte of a raw path, and a URL.
RawByte == [byte : Byte, encoded : BOOLEAN]
URL == [path : Seq(Byte), raw : Seq(RawByte)]

\* What stands unencoded in a raw path may.
WellEncoded(raw) == \A i \in DOMAIN raw : raw[i].encoded \/ raw[i].byte \notin Reserved

\* Sequences that have the same members in the same places are the same.
LEMMA SameBytes ==
    ASSUME NEW S, NEW s \in Seq(S), NEW t \in Seq(S), NEW n, Len(s) = n, Len(t) = n,
           \A i \in 1 .. n : s[i] = t[i]
    PROVE  s = t
OBVIOUS

\* Two sequences put together.
LEMMA JoinedBytes ==
    ASSUME NEW S, NEW s \in Seq(S), NEW t \in Seq(S)
    PROVE  /\ s \o t \in Seq(S) /\ Len(s \o t) = Len(s) + Len(t)
           /\ \A i \in 1 .. Len(s) : (s \o t)[i] = s[i]
           /\ \A i \in 1 .. Len(t) : (s \o t)[Len(s) + i] = t[i]
           /\ \A i \in 1 .. Len(s) + Len(t) : i \in 1 .. Len(s) \/ \E j \in 1 .. Len(t) : i = Len(s) + j
<1>1. Len(s) \in Nat /\ Len(t) \in Nat
  OBVIOUS
<1>2. \A i \in 1 .. Len(s) + Len(t) : i \in 1 .. Len(s) \/ (i - Len(s) \in 1 .. Len(t) /\ i = Len(s) + (i - Len(s)))
  BY <1>1
<1> QED
  BY <1>1, <1>2

\* Strings are bytes.
LEMMA StringsAreBytes ==
    /\ \A s \in Seq(STRING) : s \in Seq(Byte)
    /\ \A s \in Seq([byte : STRING, encoded : BOOLEAN]) : s \in Seq(RawByte)
<1>1. \A x \in STRING : x \in Byte
  BY DEF Byte
<1>2. \A x \in [byte : STRING, encoded : BOOLEAN] : x \in RawByte
  BY <1>1 DEF RawByte
<1>3. ASSUME NEW S, NEW T, \A x \in S : x \in T, NEW s \in Seq(S) PROVE s \in Seq(T)
  BY <1>3
<1> QED
  BY <1>1, <1>2, <1>3

\* What a path is decoded to.
LEMMA DecodedPath ==
    ASSUME NEW raw \in Seq(RawByte)
    PROVE  /\ Decode(raw) \in Seq(Byte) /\ Len(Decode(raw)) = Len(raw)
           /\ \A i \in 1 .. Len(raw) : Decode(raw)[i] = raw[i].byte
<1>1. DOMAIN raw = 1 .. Len(raw) /\ Len(raw) \in Nat /\ \A i \in 1 .. Len(raw) : raw[i] \in RawByte
  OBVIOUS
<1>2. Decode(raw) = [i \in 1 .. Len(raw) |-> raw[i].byte]
  BY <1>1 DEF Decode
<1>3. \A i \in 1 .. Len(raw) : raw[i].byte \in Byte
  BY <1>1 DEF RawByte
<1> QED
  BY <1>1, <1>2, <1>3

\* The default encoding of a path is a good one, and decodes to the path.
LEMMA EscapedBytes ==
    ASSUME NEW path \in Seq(Byte)
    PROVE  /\ Escape(path) \in Seq(RawByte) /\ Len(Escape(path)) = Len(path)
           /\ \A i \in 1 .. Len(path) : Escape(path)[i] = [byte |-> path[i], encoded |-> path[i] \in Reserved]
           /\ Decode(Escape(path)) = path /\ WellEncoded(Escape(path))
<1>1. DOMAIN path = 1 .. Len(path) /\ Len(path) \in Nat /\ \A i \in 1 .. Len(path) : path[i] \in Byte
  OBVIOUS
<1>2. Escape(path) = [i \in 1 .. Len(path) |-> [byte |-> path[i], encoded |-> path[i] \in Reserved]]
  BY <1>1 DEF Escape
<1>3. \A i \in 1 .. Len(path) : [byte |-> path[i], encoded |-> path[i] \in Reserved] \in RawByte
  BY <1>1 DEF RawByte
<1>4. /\ Escape(path) \in Seq(RawByte) /\ Len(Escape(path)) = Len(path) /\ DOMAIN Escape(path) = 1 .. Len(path)
      /\ \A i \in 1 .. Len(path) : Escape(path)[i] = [byte |-> path[i], encoded |-> path[i] \in Reserved]
  BY <1>1, <1>2, <1>3
<1>5. Decode(Escape(path)) = path
  BY <1>1, <1>4, DecodedPath
<1>6. WellEncoded(Escape(path))
  <2>1. ASSUME NEW i \in DOMAIN Escape(path)
        PROVE  Escape(path)[i].encoded \/ Escape(path)[i].byte \notin Reserved
    <3>1. Escape(path)[i] = [byte |-> path[i], encoded |-> path[i] \in Reserved]
      BY <1>4
    <3>2. Escape(path)[i].byte = path[i] /\ Escape(path)[i].encoded = (path[i] \in Reserved)
      BY <3>1
    <3> QED
      BY <3>2, Zenon
  <2> QED
    BY <2>1 DEF WellEncoded
<1> QED
  BY <1>4, <1>5, <1>6

\* What is left when n bytes are dropped.
LEMMA DroppedBytes ==
    ASSUME NEW S, NEW s \in Seq(S), NEW n \in 0 .. Len(s)
    PROVE  /\ Drop(s, n) \in Seq(S) /\ Len(Drop(s, n)) = Len(s) - n
           /\ \A i \in 1 .. Len(s) - n : Drop(s, n)[i] = s[n + i]
           /\ n = 0 => Drop(s, n) = s
           /\ n = Len(s) => Drop(s, n) = <<>>
BY DEF Drop

\* Decoding and encoding go byte by byte.
LEMMA DropDecodes ==
    ASSUME NEW raw \in Seq(RawByte), NEW n \in 0 .. Len(raw)
    PROVE  /\ Decode(Drop(raw, n)) = Drop(Decode(raw), n)
           /\ WellEncoded(raw) => WellEncoded(Drop(raw, n))
<1>1. /\ Drop(raw, n) \in Seq(RawByte) /\ Len(Drop(raw, n)) = Len(raw) - n
      /\ \A i \in 1 .. Len(raw) - n : Drop(raw, n)[i] = raw[n + i]
  BY DroppedBytes
<1>2. /\ Decode(raw) \in Seq(Byte) /\ Len(Decode(raw)) = Len(raw)
      /\ \A i \in 1 .. Len(raw) : Decode(raw)[i] = raw[i].byte
  BY DecodedPath
<1>3. /\ Decode(Drop(raw, n)) \in Seq(Byte) /\ Len(Decode(Drop(raw, n))) = Len(raw) - n
      /\ \A i \in 1 .. Len(raw) - n : Decode(Drop(raw, n))[i] = Drop(raw, n)[i].byte
  BY <1>1, DecodedPath
<1>4. /\ Drop(Decode(raw), n) \in Seq(Byte) /\ Len(Drop(Decode(raw), n)) = Len(raw) - n
      /\ \A i \in 1 .. Len(raw) - n : Drop(Decode(raw), n)[i] = Decode(raw)[n + i]
  BY <1>2, DroppedBytes
<1>5. \A i \in 1 .. Len(raw) - n : n + i \in 1 .. Len(raw)
  OBVIOUS
<1>6. Decode(Drop(raw, n)) = Drop(Decode(raw), n)
  <2>1. \A i \in 1 .. Len(raw) - n : Decode(Drop(raw, n))[i] = Drop(Decode(raw), n)[i]
    BY <1>1, <1>2, <1>3, <1>4, <1>5
  <2> QED
    BY <1>3, <1>4, <2>1, SameBytes
<1>7. ASSUME WellEncoded(raw) PROVE WellEncoded(Drop(raw, n))
  <2>1. DOMAIN raw = 1 .. Len(raw) /\ DOMAIN Drop(raw, n) = 1 .. Len(raw) - n
    BY <1>1
  <2>2. ASSUME NEW i \in 1 .. Len(raw) - n
        PROVE  Drop(raw, n)[i].encoded \/ Drop(raw, n)[i].byte \notin Reserved
    <3>1. n + i \in DOMAIN raw /\ Drop(raw, n)[i] = raw[n + i]
      BY <1>1, <1>5, <2>1
    <3> QED
      BY <1>7, <3>1, Zenon DEF WellEncoded
  <2> QED
    BY <2>1, <2>2, Zenon DEF WellEncoded
<1> QED
  BY <1>6, <1>7

\* So does encoding.
LEMMA DropEscapes ==
    ASSUME NEW path \in Seq(Byte), NEW n \in 0 .. Len(path)
    PROVE  Escape(Drop(path, n)) = Drop(Escape(path), n)
<1>1. /\ Drop(path, n) \in Seq(Byte) /\ Len(Drop(path, n)) = Len(path) - n
      /\ \A i \in 1 .. Len(path) - n : Drop(path, n)[i] = path[n + i]
  BY DroppedBytes
<1>2. /\ Escape(path) \in Seq(RawByte) /\ Len(Escape(path)) = Len(path)
      /\ \A i \in 1 .. Len(path) : Escape(path)[i] = [byte |-> path[i], encoded |-> path[i] \in Reserved]
  BY EscapedBytes
<1>3. /\ Escape(Drop(path, n)) \in Seq(RawByte) /\ Len(Escape(Drop(path, n))) = Len(path) - n
      /\ \A i \in 1 .. Len(path) - n :
             Escape(Drop(path, n))[i] = [byte |-> Drop(path, n)[i], encoded |-> Drop(path, n)[i] \in Reserved]
  BY <1>1, EscapedBytes
<1>4. /\ Drop(Escape(path), n) \in Seq(RawByte) /\ Len(Drop(Escape(path), n)) = Len(path) - n
      /\ \A i \in 1 .. Len(path) - n : Drop(Escape(path), n)[i] = Escape(path)[n + i]
  BY <1>2, DroppedBytes
<1>5. \A i \in 1 .. Len(path) - n : n + i \in 1 .. Len(path)
  OBVIOUS
<1>6. \A i \in 1 .. Len(path) - n : Escape(Drop(path, n))[i] = Drop(Escape(path), n)[i]
  BY <1>1, <1>2, <1>3, <1>4, <1>5
<1> QED
  BY <1>3, <1>4, <1>6, SameBytes

\* Decoding and encoding two sequences put together.
LEMMA JoinDecodes ==
    ASSUME NEW a \in Seq(RawByte), NEW b \in Seq(RawByte)
    PROVE  /\ a \o b \in Seq(RawByte) /\ Decode(a \o b) = Decode(a) \o Decode(b)
           /\ WellEncoded(a) /\ WellEncoded(b) => WellEncoded(a \o b)
<1>1. PICK c : c = a \o b
  OBVIOUS
<1>2. PICK p, q, r : p = Decode(a) /\ q = Decode(b) /\ r = Decode(c)
  OBVIOUS
<1>3. PICK m \in Nat, n \in Nat : m = Len(a) /\ n = Len(b)
  OBVIOUS
<1>4. /\ c \in Seq(RawByte) /\ Len(c) = m + n
      /\ \A i \in 1 .. m : c[i] = a[i]
      /\ \A i \in 1 .. n : c[m + i] = b[i]
      /\ \A i \in 1 .. m + n : i \in 1 .. m \/ \E j \in 1 .. n : i = m + j
  BY <1>1, <1>3, JoinedBytes
<1>5. p \in Seq(Byte) /\ Len(p) = m /\ q \in Seq(Byte) /\ Len(q) = n
  BY <1>2, <1>3, DecodedPath
<1>6. (\A i \in 1 .. m : p[i] = a[i].byte) /\ (\A i \in 1 .. n : q[i] = b[i].byte)
  BY <1>2, <1>3, DecodedPath
<1>7. r \in Seq(Byte) /\ Len(r) = m + n /\ \A i \in 1 .. m + n : r[i] = c[i].byte
  BY <1>2, <1>4, DecodedPath
<1>8. PICK v : v = p \o q
  OBVIOUS
<1>9. /\ v \in Seq(Byte) /\ Len(v) = m + n
      /\ \A i \in 1 .. m : v[i] = p[i]
      /\ \A i \in 1 .. n : v[m + i] = q[i]
  <2>1. /\ v \in Seq(Byte) /\ Len(v) = Len(p) + Len(q)
        /\ \A i \in 1 .. Len(p) : v[i] = p[i]
        /\ \A i \in 1 .. Len(q) : v[Len(p) + i] = q[i]
    <3>1. p \in Seq(Byte) /\ q \in Seq(Byte)
      BY <1>5
    <3> QED
      BY <3>1, <1>8, JoinedBytes
  <2> QED
    BY <1>5, <2>1, Zenon
<1>10. ASSUME NEW i \in 1 .. m + n
       PROVE  r[i] = v[i]
  <2>1. r[i] = c[i].byte
    BY <1>7
  <2>2. CASE i \in 1 .. m
    <3>1. c[i] = a[i] /\ v[i] = p[i] /\ p[i] = a[i].byte
      BY <1>4, <1>6, <1>9, <2>2
    <3> QED
      BY <2>1, <3>1
  <2>3. ASSUME NEW j \in 1 .. n, i = m + j
        PROVE  r[i] = v[i]
    <3>1. c[i] = b[j] /\ v[i] = q[j] /\ q[j] = b[j].byte
      BY <1>4, <1>6, <1>9, <2>3
    <3> QED
      BY <2>1, <3>1
  <2>4. i \in 1 .. m \/ \E j \in 1 .. n : i = m + j
    BY <1>4
  <2> QED
    BY <2>2, <2>3, <2>4
<1>11. r = v
  BY <1>7, <1>9, <1>10, SameBytes
<1>12. ASSUME WellEncoded(a), WellEncoded(b) PROVE WellEncoded(c)
  <2>1. DOMAIN a = 1 .. m /\ DOMAIN b = 1 .. n /\ DOMAIN c = 1 .. m + n
    BY <1>3, <1>4
  <2>2. ASSUME NEW i \in 1 .. m + n
        PROVE  c[i].encoded \/ c[i].byte \notin Reserved
    <3>1. CASE i \in 1 .. m
      <4>1. c[i] = a[i]
        BY <1>4, <3>1
      <4> QED
        BY <1>12, <2>1, <3>1, <4>1, Zenon DEF WellEncoded
    <3>2. ASSUME NEW j \in 1 .. n, i = m + j
          PROVE  c[i].encoded \/ c[i].byte \notin Reserved
      <4>1. c[i] = b[j]
        BY <1>4, <3>2
      <4> QED
        BY <1>12, <2>1, <4>1, Zenon DEF WellEncoded
    <3>3. i \in 1 .. m \/ \E j \in 1 .. n : i = m + j
      BY <1>4
    <3> QED
      BY <3>1, <3>2, <3>3
  <2> QED
    BY <2>1, <2>2, Zenon DEF WellEncoded
<1> QED
  BY <1>1, <1>2, <1>4, <1>8, <1>11, <1>12

\* A path that is put together is encoded part by part.
LEMMA JoinEscapes ==
    ASSUME NEW p \in Seq(Byte), NEW q \in Seq(Byte)
    PROVE  Escape(p \o q) = Escape(p) \o Escape(q)
<1>1. PICK r : r = p \o q
  OBVIOUS
<1>2. PICK a, b, c : a = Escape(p) /\ b = Escape(q) /\ c = Escape(r)
  OBVIOUS
<1>3. PICK m \in Nat, n \in Nat : m = Len(p) /\ n = Len(q)
  OBVIOUS
<1>4. /\ r \in Seq(Byte) /\ Len(r) = m + n
      /\ \A i \in 1 .. m : r[i] = p[i]
      /\ \A i \in 1 .. n : r[m + i] = q[i]
      /\ \A i \in 1 .. m + n : i \in 1 .. m \/ \E j \in 1 .. n : i = m + j
  BY <1>1, <1>3, JoinedBytes
<1>5. a \in Seq(RawByte) /\ Len(a) = m /\ b \in Seq(RawByte) /\ Len(b) = n
  BY <1>2, <1>3, EscapedBytes
<1>6. /\ \A i \in 1 .. m : a[i] = [byte |-> p[i], encoded |-> p[i] \in Reserved]
      /\ \A i \in 1 .. n : b[i] = [byte |-> q[i], encoded |-> q[i] \in Reserved]
  BY <1>2, <1>3, EscapedBytes
<1>7. /\ c \in Seq(RawByte) /\ Len(c) = m + n
      /\ \A i \in 1 .. m + n : c[i] = [byte |-> r[i], encoded |-> r[i] \in Reserved]
  BY <1>2, <1>4, EscapedBytes
<1>8. PICK v : v = a \o b
  OBVIOUS
<1>9. /\ v \in Seq(RawByte) /\ Len(v) = m + n
      /\ \A i \in 1 .. m : v[i] = a[i]
      /\ \A i \in 1 .. n : v[m + i] = b[i]
  <2>1. /\ v \in Seq(RawByte) /\ Len(v) = Len(a) + Len(b)
        /\ \A i \in 1 .. Len(a) : v[i] = a[i]
        /\ \A i \in 1 .. Len(b) : v[Len(a) + i] = b[i]
    <3>1. a \in Seq(RawByte) /\ b \in Seq(RawByte)
      BY <1>5
    <3> QED
      BY <3>1, <1>8, JoinedBytes
  <2> QED
    BY <1>5, <2>1, Zenon
<1>10. ASSUME NEW i \in 1 .. m + n
       PROVE  c[i] = v[i]
  <2>1. c[i] = [byte |-> r[i], encoded |-> r[i] \in Reserved]
    BY <1>7
  <2>2. CASE i \in 1 .. m
    <3>1. r[i] = p[i] /\ v[i] = a[i]
      BY <1>4, <1>9, <2>2
    <3>2. a[i] = [byte |-> p[i], encoded |-> p[i] \in Reserved]
      BY <1>6, <2>2
    <3> QED
      BY <2>1, <3>1, <3>2, Zenon
  <2>3. ASSUME NEW j \in 1 .. n, i = m + j
        PROVE  c[i] = v[i]
    <3>1. r[i] = q[j] /\ v[i] = b[j]
      BY <1>4, <1>9, <2>3
    <3>2. b[j] = [byte |-> q[j], encoded |-> q[j] \in Reserved]
      BY <1>6
    <3> QED
      BY <2>1, <3>1, <3>2, Zenon
  <2>4. i \in 1 .. m \/ \E j \in 1 .. n : i = m + j
    BY <1>4
  <2> QED
    BY <2>2, <2>3, <2>4
<1>11. c = v
  BY <1>7, <1>9, <1>10, SameBytes
<1> QED
  BY <1>1, <1>2, <1>8, <1>11

\* A path is written as its raw path says if that is well encoded and means it,
\* and by default if not.
LEMMA WrittenPath ==
    ASSUME NEW u \in URL
    PROVE  /\ ValidRawPath(u) <=> u.raw # <<>> /\ WellEncoded(u.raw) /\ Decode(u.raw) = u.path
           /\ EscapedPath(u) = IF ValidRawPath(u) THEN u.raw ELSE Escape(u.path)
           /\ EscapedPath(u) \in Seq(RawByte) /\ Decode(EscapedPath(u)) = u.path /\ WellEncoded(EscapedPath(u))
<1>1. u.path \in Seq(Byte) /\ u.raw \in Seq(RawByte)
  BY DEF URL
<1>2. EscapedPath(u) = IF u.raw # <<>> /\ WellEncoded(u.raw) /\ Decode(u.raw) = u.path THEN u.raw ELSE Escape(u.path)
  BY DEF EscapedPath, WellEncoded
<1>3. Escape(u.path) \in Seq(RawByte) /\ Decode(Escape(u.path)) = u.path /\ WellEncoded(Escape(u.path))
  BY <1>1, EscapedBytes
<1>4. EscapedPath(u) \in Seq(RawByte) /\ Decode(EscapedPath(u)) = u.path /\ WellEncoded(EscapedPath(u))
  BY <1>1, <1>2, <1>3
<1>5. ValidRawPath(u) <=> u.raw # <<>> /\ WellEncoded(u.raw) /\ Decode(u.raw) = u.path
  BY <1>2, <1>4 DEF ValidRawPath
<1> QED
  BY <1>2, <1>4, <1>5

\* A slash, as it is written.
Slash == [byte |-> "/", encoded |-> FALSE]

\* A sequence of one is the prefix of those that start with it.
LEMMA PrefixOfOne ==
    ASSUME NEW S, NEW x \in S, NEW s \in Seq(S)
    PROVE  IsPrefix(<<x>>, s) <=> s # <<>> /\ s[1] = x
<1>1. PICK one \in Seq(S) : one = <<x>> /\ Len(one) = 1 /\ one[1] = x
  <2>1. <<x>> \in Seq(S) /\ Len(<<x>>) = 1 /\ <<x>>[1] = x
    OBVIOUS
  <2> QED
    BY <2>1, Zenon
<1>2. IsPrefix(one, s) <=> 1 <= Len(s) /\ SubSeq(one, 1, 1) = SubSeq(s, 1, 1)
  BY <1>1 DEF IsPrefix
<1>3. Len(s) \in Nat /\ (s # <<>> <=> 1 <= Len(s))
  OBVIOUS
<1>4. SubSeq(one, 1, 1) \in Seq(S) /\ Len(SubSeq(one, 1, 1)) = 1 /\ SubSeq(one, 1, 1)[1] = x
  BY <1>1
<1>5. ASSUME 1 <= Len(s)
      PROVE  SubSeq(s, 1, 1) \in Seq(S) /\ Len(SubSeq(s, 1, 1)) = 1 /\ SubSeq(s, 1, 1)[1] = s[1]
  BY <1>3, <1>5
<1>6. ASSUME 1 <= Len(s), s[1] = x
      PROVE  SubSeq(one, 1, 1) = SubSeq(s, 1, 1)
  <2>1. \A i \in 1 .. 1 : SubSeq(one, 1, 1)[i] = SubSeq(s, 1, 1)[i]
    BY <1>4, <1>5, <1>6
  <2> QED
    BY <1>4, <1>5, <1>6, <2>1, SameBytes
<1> QED
  BY <1>1, <1>2, <1>3, <1>4, <1>5, <1>6

\* It is its own default encoding.
LEMMA SlashWritten ==
    /\ Slash \in RawByte /\ <<Slash>> \in Seq(RawByte) /\ <<"/">> \in Seq(Byte)
    /\ Escape(<<"/">>) = <<Slash>> /\ Decode(<<Slash>>) = <<"/">> /\ WellEncoded(<<Slash>>)
<1>1. Slash \in RawByte /\ <<Slash>> \in Seq(RawByte) /\ <<"/">> \in Seq(Byte)
  <2>1. "/" \in Byte
    BY DEF Byte
  <2>2. Slash \in RawByte
    BY <2>1 DEF Slash, RawByte
  <2> QED
    BY <2>1, <2>2
<1>2. /\ Escape(<<"/">>) \in Seq(RawByte) /\ Len(Escape(<<"/">>)) = 1
      /\ Escape(<<"/">>)[1] = [byte |-> "/", encoded |-> "/" \in Reserved]
      /\ Decode(Escape(<<"/">>)) = <<"/">> /\ WellEncoded(Escape(<<"/">>))
  <2>1. PICK path \in Seq(Byte) : path = <<"/">> /\ Len(path) = 1 /\ path[1] = "/"
    BY <1>1
  <2>2. /\ Escape(path) \in Seq(RawByte) /\ Len(Escape(path)) = 1
        /\ Escape(path)[1] = [byte |-> path[1], encoded |-> path[1] \in Reserved]
        /\ Decode(Escape(path)) = path /\ WellEncoded(Escape(path))
    <3>1. 1 \in 1 .. Len(path)
      BY <2>1
    <3> QED
      BY <2>1, <3>1, EscapedBytes
  <2> QED
    BY <2>1, <2>2, Zenon
<1>3. [byte |-> "/", encoded |-> "/" \in Reserved] = Slash
  <2>1. ("/" \in Reserved) = FALSE
    BY ReservedAssumption
  <2> QED
    BY <2>1 DEF Slash
<1>4. Escape(<<"/">>) = <<Slash>>
  BY <1>1, <1>2, <1>3
<1> QED
  BY <1>1, <1>2, <1>4

\* A written path that starts with a slash is rooted; else one is put in front.
Starts(raw) == raw # <<>> /\ raw[1] = Slash

\* Either way it means the path, or the path after a slash.
LEMMA RootedPath ==
    ASSUME NEW raw \in Seq(RawByte)
    PROVE  /\ Rooted(raw) = IF Starts(raw) THEN raw ELSE <<Slash>> \o raw
           /\ Rooted(raw) \in Seq(RawByte)
           /\ Decode(Rooted(raw)) = IF Starts(raw) THEN Decode(raw) ELSE <<"/">> \o Decode(raw)
<1>1. IsPrefix(<<Slash>>, raw) <=> Starts(raw)
  BY SlashWritten, PrefixOfOne DEF Starts
<1>2. Rooted(raw) = IF Starts(raw) THEN raw ELSE <<Slash>> \o raw
  BY <1>1, SlashWritten DEF Rooted
<1>3. <<Slash>> \o raw \in Seq(RawByte) /\ Decode(<<Slash>> \o raw) = <<"/">> \o Decode(raw)
  BY SlashWritten, JoinDecodes
<1> QED
  BY <1>2, <1>3

\* Nothing, or a slash, is rooted to a slash.
LEMMA RootedEdges == Rooted(<<Slash>>) = <<Slash>> /\ Rooted(<<>>) = <<Slash>>
<1>1. <<>> \in Seq(RawByte) /\ <<Slash>> \o <<>> = <<Slash>>
  BY SlashWritten
<1>2. Starts(<<Slash>>) /\ ~Starts(<<>>)
  BY DEF Starts
<1> QED
  BY <1>1, <1>2, SlashWritten, RootedPath

\* A path starts with a slash if its default encoding does, and then whatever way it is written
\* the first byte is one.
LEMMA StartOfPath ==
    ASSUME NEW path \in Seq(Byte)
    PROVE  /\ IsPrefix(<<"/">>, path) <=> Starts(Escape(path))
           /\ \A raw \in Seq(RawByte) : Decode(raw) = path /\ Starts(raw) => Starts(Escape(path))
<1>1. IsPrefix(<<"/">>, path) <=> path # <<>> /\ path[1] = "/"
  <2>1. "/" \in Byte
    BY DEF Byte
  <2> QED
    BY <2>1, PrefixOfOne
<1>2. path # <<>> /\ path[1] = "/" <=> Starts(Escape(path))
  <2>1. CASE path = <<>>
    <3>1. Escape(path) = <<>>
      <4>1. Escape(path) \in Seq(RawByte) /\ Len(Escape(path)) = Len(path)
        BY EscapedBytes
      <4>2. Len(path) = 0
        BY <2>1
      <4> QED
        BY <4>1, <4>2
    <3> QED
      BY <2>1, <3>1 DEF Starts
  <2>2. CASE path # <<>>
    <3>1. 1 \in 1 .. Len(path)
      BY <2>2
    <3>2. Escape(path)[1] = [byte |-> path[1], encoded |-> path[1] \in Reserved] /\ Escape(path) # <<>>
      BY <3>1, EscapedBytes
    <3>3. path[1] = "/" <=> [byte |-> path[1], encoded |-> path[1] \in Reserved] = Slash
      <4>1. ASSUME path[1] = "/" PROVE [byte |-> path[1], encoded |-> path[1] \in Reserved] = Slash
        <5>1. (path[1] \in Reserved) = FALSE
          BY <4>1, ReservedAssumption
        <5> QED
          BY <4>1, <5>1 DEF Slash
      <4>2. [byte |-> path[1], encoded |-> path[1] \in Reserved].byte = path[1] /\ Slash.byte = "/"
        BY DEF Slash
      <4> QED
        BY <4>1, <4>2, Zenon
    <3> QED
      BY <2>2, <3>2, <3>3 DEF Starts
  <2> QED
    BY <2>1, <2>2
<1>3. ASSUME NEW raw \in Seq(RawByte), Decode(raw) = path, Starts(raw)
      PROVE  path # <<>> /\ path[1] = "/"
  <2>1. raw # <<>> /\ raw[1] = Slash
    BY <1>3 DEF Starts
  <2>2. 1 \in 1 .. Len(raw)
    BY <2>1
  <2>3. Len(path) = Len(raw) /\ path[1] = raw[1].byte
    BY <1>3, <2>2, DecodedPath
  <2> QED
    BY <2>1, <2>2, <2>3 DEF Slash
<1> QED
  BY <1>1, <1>2, <1>3

\* SetURL puts a slash in front of a path that is not written with one.
LEMMA JoinWritten ==
    ASSUME NEW u \in URL
    PROVE  EscapedPath(JoinTarget(u)) = Rooted(EscapedPath(u))
<1>1. u.path \in Seq(Byte) /\ u.raw \in Seq(RawByte) /\ u = [path |-> u.path, raw |-> u.raw]
  BY DEF URL
<1>2. PICK e : e = EscapedPath(u)
  OBVIOUS
<1>3. e \in Seq(RawByte) /\ Decode(e) = u.path /\ WellEncoded(e)
  BY <1>2, WrittenPath
<1>4. PICK r : r = Rooted(e)
  OBVIOUS
<1>5. r = IF Starts(e) THEN e ELSE <<Slash>> \o e
  BY <1>3, <1>4, RootedPath
<1>6. <<"/">> \o u.path \in Seq(Byte)
  BY <1>1, SlashWritten
<1>7. CASE u.raw = <<>>
  <2>1. e = Escape(u.path)
    BY <1>2, <1>7, WrittenPath
  <2>2. PICK path : path = IF IsPrefix(<<"/">>, u.path) THEN u.path ELSE <<"/">> \o u.path
    OBVIOUS
  <2>3. JoinTarget(u) = [path |-> path, raw |-> <<>>]
    BY <1>1, <1>7, <2>2 DEF JoinTarget
  <2>4. path \in Seq(Byte)
    BY <1>1, <1>6, <2>2
  <2>5. PICK v \in URL : v = JoinTarget(u) /\ v.path = path /\ v.raw = <<>>
    <3>1. PICK v : v = [path |-> path, raw |-> <<>>]
      OBVIOUS
    <3>2. <<>> \in Seq(RawByte)
      OBVIOUS
    <3>3. v \in URL /\ v.path = path /\ v.raw = <<>>
      BY <2>4, <3>1, <3>2, Zenon DEF URL
    <3> QED
      BY <2>3, <3>1, <3>3
  <2>6. EscapedPath(v) = Escape(path)
    BY <2>5, WrittenPath
  <2>7. Escape(path) = r
    <3>1. IsPrefix(<<"/">>, u.path) <=> Starts(e)
      BY <1>1, <2>1, StartOfPath
    <3>2. Escape(<<"/">> \o u.path) = <<Slash>> \o e
      BY <1>1, <2>1, SlashWritten, JoinEscapes
    <3> QED
      BY <1>5, <2>1, <2>2, <3>1, <3>2
  <2> QED
    BY <1>2, <1>4, <2>5, <2>6, <2>7
<1>8. CASE u.raw # <<>>
  <2>1. e # <<>> /\ e[1] = [byte |-> "/", encoded |-> FALSE] <=> Starts(e)
    BY DEF Starts, Slash
  <2>2. JoinTarget(u) = IF Starts(e) THEN [path |-> u.path, raw |-> e]
                        ELSE [path |-> <<"/">> \o u.path, raw |-> Escape(<<"/">>) \o e]
    BY <1>2, <1>8, <2>1 DEF JoinTarget
  <2>3. PICK path : path = IF Starts(e) THEN u.path ELSE <<"/">> \o u.path
    OBVIOUS
  <2>4. JoinTarget(u) = [path |-> path, raw |-> r]
    BY <1>5, <2>2, <2>3, SlashWritten
  <2>5. path \in Seq(Byte) /\ r \in Seq(RawByte) /\ Decode(r) = path
    <3>1. r \in Seq(RawByte) /\ Decode(r) = IF Starts(e) THEN Decode(e) ELSE <<"/">> \o Decode(e)
      BY <1>3, <1>4, RootedPath
    <3> QED
      BY <1>1, <1>3, <1>6, <2>3, <3>1
  <2>6. WellEncoded(r)
    <3>1. WellEncoded(<<Slash>> \o e)
      BY <1>3, SlashWritten, JoinDecodes
    <3> QED
      BY <1>3, <1>5, <3>1
  <2>7. r # <<>>
    <3>1. Starts(e) => e # <<>>
      BY DEF Starts
    <3>2. <<Slash>> \o e # <<>>
      BY <1>3, SlashWritten
    <3> QED
      BY <1>5, <3>1, <3>2
  <2>8. PICK v \in URL : v = JoinTarget(u) /\ v.path = path /\ v.raw = r
    BY <2>4, <2>5 DEF URL
  <2>9. ValidRawPath(v)
    BY <2>5, <2>6, <2>7, <2>8, WrittenPath
  <2> QED
    BY <1>2, <1>4, <2>8, <2>9, WrittenPath
<1> QED
  BY <1>7, <1>8

\* A URL as it is parsed: its raw path, if there is one, means its path.
Parsed(u) == u \in URL /\ (u.raw # <<>> => Decode(u.raw) = u.path)

\* Of a URL that is written as it came, what is left is written as it came.
LEMMA RestWritten ==
    ASSUME NEW u, Parsed(u), NEW n \in 0 .. Len(u.path)
    PROVE  /\ Drop(EscapedPath(u), n) \in Seq(RawByte)
           /\ Decode(Drop(EscapedPath(u), n)) = Drop(u.path, n)
           /\ ~ValidRawPath(u) => Drop(EscapedPath(u), n) = Escape(Drop(u.path, n))
<1>1. u \in URL /\ u.path \in Seq(Byte)
  BY DEF Parsed, URL
<1>2. PICK e : e = EscapedPath(u)
  OBVIOUS
<1>3. e \in Seq(RawByte) /\ Decode(e) = u.path /\ (~ValidRawPath(u) => e = Escape(u.path))
  BY <1>1, <1>2, WrittenPath
<1>4. n \in 0 .. Len(e)
  BY <1>3, DecodedPath
<1>5. Drop(e, n) \in Seq(RawByte)
  BY <1>3, <1>4, DroppedBytes
<1>6. Decode(Drop(e, n)) = Drop(u.path, n)
  BY <1>3, <1>4, DropDecodes
<1>7. ~ValidRawPath(u) => Drop(e, n) = Escape(Drop(u.path, n))
  BY <1>1, <1>3, DropEscapes
<1> QED
  BY <1>2, <1>5, <1>6, <1>7

\* Stripping takes the prefix off the path, or all but a slash, and keeps what
\* is left as it was written.
LEMMA StripWritten ==
    ASSUME NEW u, Parsed(u), NEW prefix \in Seq(Byte), IsPrefix(prefix, u.path),
           NEW v, v = StripRequestPath(u, prefix)
    PROVE  /\ v \in URL
           /\ v.path = Drop(u.path, Len(prefix)) \/ (Drop(u.path, Len(prefix)) = <<>> /\ v.path = <<"/">>)
           /\ u.raw = <<>> \/ ValidRawPath(u) =>
                  Rooted(EscapedPath(v)) = Rooted(Drop(EscapedPath(u), Len(prefix)))
<1>1. u \in URL /\ u.path \in Seq(Byte) /\ u.raw \in Seq(RawByte)
  BY DEF Parsed, URL
<1>2. PICK n \in Nat : n = Len(prefix)
  OBVIOUS
<1>3. n <= Len(u.path)
  BY <1>2 DEF IsPrefix
<1>4. PICK rest : rest = Drop(u.path, n)
  OBVIOUS
<1>5. rest \in Seq(Byte)
  BY <1>1, <1>3, <1>4, DroppedBytes
<1>6. u.raw # <<>> => Len(u.raw) = Len(u.path) /\ Decode(u.raw) = u.path
  BY <1>1, DecodedPath DEF Parsed
<1>7. u.raw # <<>> => StartsWith(u.raw, prefix)
  BY <1>6 DEF StartsWith
<1>8. /\ v.path = IF prefix # <<>> /\ rest = <<>> THEN <<"/">> ELSE rest
      /\ v.raw = IF u.raw = <<>> \/ prefix = <<>> THEN u.raw ELSE Drop(u.raw, n)
      /\ v = [path |-> v.path, raw |-> v.raw]
  BY <1>2, <1>4, <1>7 DEF StripRequestPath, StripPathPrefix
<1>9. v \in URL
  <2>1. v.path \in Seq(Byte)
    BY <1>5, <1>8, SlashWritten
  <2>2. v.raw \in Seq(RawByte)
    BY <1>1, <1>3, <1>6, <1>8, DroppedBytes
  <2> QED
    BY <1>8, <2>1, <2>2 DEF URL
<1>10. prefix = <<>> => n = 0 /\ rest = u.path
  BY <1>1, <1>2, <1>4, DroppedBytes
<1>11. ASSUME u.raw = <<>> \/ ValidRawPath(u)
       PROVE  Rooted(EscapedPath(v)) = Rooted(Drop(EscapedPath(u), n))
  <2>1. PICK e : e = EscapedPath(u)
    OBVIOUS
  <2>2. e \in Seq(RawByte) /\ Decode(e) = u.path /\ Len(e) = Len(u.path)
    <3>1. e \in Seq(RawByte) /\ Decode(e) = u.path
      BY <1>1, <2>1, WrittenPath
    <3> QED
      BY <3>1, DecodedPath
  <2>3. CASE prefix = <<>>
    <3>1. v.path = u.path /\ v.raw = u.raw
      BY <1>8, <1>10, <2>3
    <3>2. EscapedPath(v) = e
      BY <2>1, <3>1 DEF EscapedPath
    <3>3. Drop(e, n) = e
      BY <1>10, <2>2, <2>3, DroppedBytes
    <3> QED
      BY <2>1, <3>2, <3>3
  <2>4. CASE prefix # <<>> /\ rest = <<>>
    <3>1. n = Len(u.path)
      <4>1. Len(rest) = Len(u.path) - n
        BY <1>1, <1>3, <1>4, DroppedBytes
      <4> QED
        BY <1>3, <2>4, <4>1
    <3>2. Drop(e, n) = <<>>
      BY <2>2, <3>1, DroppedBytes
    <3>3. v.path = <<"/">> /\ v.raw = <<>>
      <4>1. u.raw # <<>> => Drop(u.raw, n) = <<>>
        BY <1>1, <1>6, <3>1, DroppedBytes
      <4> QED
        BY <1>8, <2>4, <4>1
    <3>4. EscapedPath(v) = <<Slash>>
      BY <3>3, SlashWritten DEF EscapedPath
    <3> QED
      BY <2>1, <3>2, <3>4, RootedEdges
  <2>5. CASE rest # <<>> /\ prefix # <<>> /\ u.raw = <<>>
    <3>1. v.path = rest /\ v.raw = <<>>
      BY <1>8, <2>5
    <3>2. EscapedPath(v) = Escape(rest) /\ e = Escape(u.path)
      BY <2>1, <2>5, <3>1 DEF EscapedPath
    <3>3. Escape(rest) = Drop(e, n)
      BY <1>1, <1>3, <1>4, <3>2, DropEscapes
    <3> QED
      BY <2>1, <3>2, <3>3
  <2>6. CASE rest # <<>> /\ prefix # <<>> /\ u.raw # <<>>
    <3>1. v.path = rest /\ v.raw = Drop(u.raw, n) /\ e = u.raw /\ WellEncoded(u.raw)
      BY <1>1, <1>8, <1>11, <2>1, <2>6, WrittenPath
    <3>2. Decode(v.raw) = rest /\ WellEncoded(v.raw)
      BY <1>1, <1>3, <1>4, <1>6, <2>6, <3>1, DropDecodes
    <3>3. v.raw # <<>>
      <4>1. Len(v.raw) = Len(rest)
        BY <1>1, <1>3, <1>4, <1>6, <2>6, <3>1, DroppedBytes
      <4> QED
        BY <1>5, <2>6, <4>1
    <3>4. EscapedPath(v) = v.raw
      BY <1>9, <3>1, <3>2, <3>3, WrittenPath
    <3> QED
      BY <2>1, <3>1, <3>4
  <2> QED
    BY <2>3, <2>4, <2>5, <2>6
<1> QED
  BY <1>2, <1>4, <1>8, <1>9, <1>10, <1>11

\* A suffix, with something in front of it.
LEMMA SuffixOf ==
    ASSUME NEW S, NEW s \in Seq(S), NEW a \in Seq(S), NEW t, t = s \/ t = a \o s
    PROVE  IsSuffix(s, t)
<1>1. PICK k \in Nat : t \in Seq(S) /\ Len(t) = k + Len(s) /\ \A i \in 1 .. Len(s) : t[k + i] = s[i]
  <2>1. CASE t = s
    <3>1. t \in Seq(S) /\ Len(t) = 0 + Len(s) /\ \A i \in 1 .. Len(s) : t[0 + i] = s[i]
      BY <2>1
    <3> QED
      BY <3>1
  <2>2. CASE t = a \o s
    <3>1. t \in Seq(S) /\ Len(t) = Len(a) + Len(s) /\ \A i \in 1 .. Len(s) : t[Len(a) + i] = s[i]
      BY <2>2, JoinedBytes
    <3>2. Len(a) \in Nat
      OBVIOUS
    <3> QED
      BY <3>1, <3>2
  <2> QED
    BY <2>1, <2>2
<1>2. PICK m \in Nat : m = Len(s)
  OBVIOUS
<1>3. PICK r : r = Reverse(s)
  OBVIOUS
<1>4. PICK q : q = Reverse(t)
  OBVIOUS
<1>5. r \in Seq(S) /\ Len(r) = m /\ \A i \in 1 .. m : r[i] = s[m - i + 1]
  <2>1. r = [i \in 1 .. m |-> s[(m - i) + 1]]
    BY <1>2, <1>3 DEF Reverse
  <2>2. \A i \in 1 .. m : s[(m - i) + 1] \in S
    BY <1>2
  <2> QED
    BY <2>1, <2>2
<1>6. q \in Seq(S) /\ Len(q) = k + m /\ \A i \in 1 .. k + m : q[i] = t[k + m - i + 1]
  <2>1. q = [i \in 1 .. k + m |-> t[(k + m - i) + 1]]
    BY <1>1, <1>2, <1>4 DEF Reverse
  <2>2. \A i \in 1 .. k + m : t[(k + m - i) + 1] \in S
    BY <1>1, <1>2
  <2> QED
    BY <2>1, <2>2
<1>7. ASSUME NEW i \in 1 .. m
      PROVE  r[i] = q[i]
  <2>1. m - i + 1 \in 1 .. m /\ i \in 1 .. k + m /\ k + (m - i + 1) = k + m - i + 1
    OBVIOUS
  <2>2. t[k + (m - i + 1)] = s[m - i + 1]
    BY <1>1, <1>2, <2>1
  <2>3. q[i] = t[k + m - i + 1] /\ r[i] = s[m - i + 1]
    BY <1>5, <1>6, <2>1
  <2> QED
    BY <2>1, <2>2, <2>3
<1>8. SubSeq(r, 1, m) = SubSeq(q, 1, m)
  <2>1. /\ SubSeq(r, 1, m) \in Seq(S) /\ Len(SubSeq(r, 1, m)) = m
        /\ \A i \in 1 .. m : SubSeq(r, 1, m)[i] = r[i]
    BY <1>5
  <2>2. /\ SubSeq(q, 1, m) \in Seq(S) /\ Len(SubSeq(q, 1, m)) = m
        /\ \A i \in 1 .. m : SubSeq(q, 1, m)[i] = q[i]
    BY <1>6
  <2>3. \A i \in 1 .. m : SubSeq(r, 1, m)[i] = SubSeq(q, 1, m)[i]
    BY <1>7, <2>1, <2>2
  <2> QED
    BY <2>1, <2>2, <2>3, SameBytes
<1> QED
  BY <1>3, <1>4, <1>5, <1>6, <1>8 DEF IsSuffix, IsPrefix

\* A pattern, of a route or of a rewrite: only one with a wildcard may be without a path.
IsPattern(pattern) ==
    /\ pattern.path \in Seq(Byte) /\ pattern.wildcard \in BOOLEAN
    /\ pattern.path = <<>> => pattern.wildcard

\* Only the empty sequence has no length.
LEMMA EmptyIfShort ==
    ASSUME NEW S, NEW s \in Seq(S)
    PROVE  s = <<>> <=> Len(s) = 0
OBVIOUS

\* What a rewrite makes of a path, as it is written.
RewrittenPath(u, source, to) ==
    Escape(to.path) \o (IF to.wildcard /\ source.wildcard THEN Drop(EscapedPath(u), Len(source.path)) ELSE <<>>)

\* Rewriting puts the destination before what a wildcard has left, as it came.
LEMMA RewriteWritten ==
    ASSUME NEW u, Parsed(u), NEW source, IsPattern(source), NEW to, IsPattern(to),
           source.wildcard => IsPrefix(source.path, u.path),
           NEW w, w = RewrittenPath(u, source, to)
    PROVE  w \in Seq(RawByte) /\ EscapedPath(RewriteProxyPath(u, source, to)) = IF w = <<>> THEN <<Slash>> ELSE w
<1>1. u \in URL /\ u.path \in Seq(Byte) /\ u.raw \in Seq(RawByte)
  BY DEF Parsed, URL
<1>2. PICK n \in Nat : n = Len(source.path) /\ (source.wildcard => n \in 0 .. Len(u.path))
  <2>1. Len(source.path) \in Nat
    BY DEF IsPattern
  <2>2. source.wildcard => Len(source.path) <= Len(u.path)
    BY DEF IsPrefix
  <2>3. source.wildcard => Len(source.path) \in 0 .. Len(u.path)
    BY <1>1, <2>1, <2>2
  <2> QED
    BY <2>1, <2>3
<1>3. to.path \in Seq(Byte) /\ to.wildcard \in BOOLEAN /\ source.wildcard \in BOOLEAN /\ (to.path = <<>> => to.wildcard)
  BY DEF IsPattern
<1>4. PICK both : both = (to.wildcard /\ source.wildcard)
  OBVIOUS
<1>5. PICK left : left = IF both THEN Drop(u.path, n) ELSE <<>>
  OBVIOUS
<1>6. PICK rest : rest = IF both THEN Drop(EscapedPath(u), n) ELSE <<>>
  OBVIOUS
<1>7. PICK first : first = Escape(to.path)
  OBVIOUS
<1>8. /\ first \in Seq(RawByte) /\ Decode(first) = to.path /\ WellEncoded(first)
  BY <1>3, <1>7, EscapedBytes
<1>9. left \in Seq(Byte)
  <2>1. ASSUME both PROVE Drop(u.path, n) \in Seq(Byte)
    BY <1>1, <1>2, <1>4, <2>1, DroppedBytes
  <2>2. <<>> \in Seq(Byte)
    OBVIOUS
  <2> QED
    BY <1>5, <2>1, <2>2
<1>10. <<>> \in Seq(RawByte) /\ Decode(<<>>) = <<>> /\ WellEncoded(<<>>) /\ Escape(<<>>) = <<>>
  BY DEF Decode, Escape, WellEncoded
<1>11. rest \in Seq(RawByte) /\ Decode(rest) = left /\ (~ValidRawPath(u) => rest = Escape(left))
  BY <1>2, <1>4, <1>5, <1>6, <1>10, RestWritten
<1>12. PICK x : x = w /\ x = first \o rest
  BY <1>2, <1>4, <1>6, <1>7 DEF RewrittenPath
<1> PICK v : v = RewriteProxyPath(u, source, to)
  OBVIOUS
<1>13. PICK joined : joined = to.path \o left
  OBVIOUS
<1>14. joined \in Seq(Byte)
  BY <1>3, <1>9, <1>13, JoinedBytes
<1>15. x \in Seq(RawByte) /\ Decode(x) = joined /\ (WellEncoded(rest) => WellEncoded(x))
  BY <1>8, <1>11, <1>12, <1>13, JoinDecodes
<1> SUFFICES EscapedPath(v) = IF x = <<>> THEN <<Slash>> ELSE x
  BY <1>12, <1>15
<1>16. x = <<>> <=> joined = <<>>
  <2>1. Len(joined) = Len(x)
    BY <1>15, DecodedPath
  <2>2. x = <<>> <=> Len(x) = 0
    BY <1>15, EmptyIfShort
  <2>3. joined = <<>> <=> Len(joined) = 0
    BY <1>14
  <2> QED
    BY <2>1, <2>2, <2>3
<1>17. PICK path : path = IF joined = <<>> THEN <<"/">> ELSE joined
  OBVIOUS
<1>18. RewritePath(u, source, to) = path
  <2>1. CASE ~to.wildcard
    <3>1. left = <<>> /\ joined = to.path
      <4>1. left = <<>>
        BY <1>4, <1>5, <2>1
      <4>2. to.path \o <<>> = to.path
        BY <1>3
      <4> QED
        BY <1>13, <4>1, <4>2
    <3> QED
      BY <1>3, <1>17, <2>1, <3>1 DEF RewritePath
  <2>2. CASE to.wildcard
    <3>1. left = IF source.wildcard THEN Drop(u.path, Len(source.path)) ELSE <<>>
      BY <1>2, <1>4, <1>5, <2>2
    <3> QED
      BY <1>13, <1>17, <2>2, <3>1 DEF RewritePath
  <2> QED
    BY <2>1, <2>2
<1>19. PICK raw : raw = RewriteRawPath(u, source, to, path)
  OBVIOUS
<1>20. v = [path |-> path, raw |-> raw]
  BY <1>18, <1>19 DEF RewriteProxyPath
<1>21. path \in Seq(Byte)
  BY <1>14, <1>17, SlashWritten
<1>22. CASE ~ValidRawPath(u)
  <2>1. raw = <<>>
    BY <1>19, <1>22 DEF RewriteRawPath
  <2>2. EscapedPath(v) = Escape(path)
    BY <1>20, <2>1 DEF EscapedPath
  <2>3. x = Escape(joined)
    BY <1>3, <1>7, <1>9, <1>11, <1>12, <1>13, <1>22, JoinEscapes
  <2> QED
    BY <1>16, <1>17, <2>2, <2>3, SlashWritten
<1>23. CASE ValidRawPath(u)
  <2>1. u.raw # <<>> /\ WellEncoded(u.raw) /\ Decode(u.raw) = u.path /\ EscapedPath(u) = u.raw /\ Len(u.raw) = Len(u.path)
    <3>1. u.raw # <<>> /\ WellEncoded(u.raw) /\ Decode(u.raw) = u.path /\ EscapedPath(u) = u.raw
      BY <1>1, <1>23, WrittenPath
    <3> QED
      BY <1>1, <3>1, DecodedPath
  <2>2. WellEncoded(rest)
    BY <1>1, <1>2, <1>4, <1>6, <1>10, <2>1, DropDecodes
  <2>3. PICK consumed : consumed = IF source.wildcard THEN Len(source.path) ELSE Len(u.raw)
    OBVIOUS
  <2>4. rest = IF to.wildcard THEN Drop(u.raw, consumed) ELSE <<>>
    <3>1. Drop(u.raw, Len(u.raw)) = <<>>
      BY <1>1, DroppedBytes
    <3> QED
      BY <1>2, <1>3, <1>4, <1>6, <2>1, <2>3, <3>1
  <2>5. source.wildcard => StartsWith(u.raw, source.path)
    BY <2>1 DEF StartsWith
  <2>6. raw = IF ValidRawPath([path |-> path, raw |-> x]) THEN x ELSE <<>>
    <3>1. x = Escape(to.path) \o (IF to.wildcard THEN Drop(u.raw, consumed) ELSE <<>>)
      BY <1>7, <1>12, <2>4
    <3> QED
      BY <1>19, <1>23, <2>3, <2>5, <3>1, Zenon DEF RewriteRawPath
  <2>7. PICK out \in URL : out = [path |-> path, raw |-> x] /\ out.path = path /\ out.raw = x
    <3>1. PICK out : out = [path |-> path, raw |-> x]
      OBVIOUS
    <3>2. out \in URL /\ out.path = path /\ out.raw = x
      BY <1>15, <1>21, <3>1, Zenon DEF URL
    <3> QED
      BY <3>1, <3>2
  <2>8. CASE x = <<>>
    <3>1. raw = <<>> /\ path = <<"/">>
      BY <1>16, <1>17, <2>6, <2>8
    <3>2. EscapedPath(v) = Escape(path)
      BY <1>20, <3>1 DEF EscapedPath
    <3> QED
      BY <2>8, <3>1, <3>2, SlashWritten
  <2>9. CASE x # <<>>
    <3>1. path = joined
      BY <1>16, <1>17, <2>9
    <3>2. ValidRawPath(out)
      BY <1>15, <2>2, <2>7, <2>9, <3>1, WrittenPath
    <3>3. v = out
      BY <1>20, <2>6, <2>7, <3>2
    <3> QED
      BY <2>7, <2>9, <3>2, <3>3, WrittenPath
  <2> QED
    BY <2>8, <2>9
<1> QED
  BY <1>22, <1>23

\* What goes upstream of a URL that is neither rewritten nor, at first, stripped.
LEMMA StrippedArrives ==
    ASSUME NEW u, Parsed(u), NEW prefix \in Seq(Byte), IsPrefix(prefix, u.path),
           NEW e, e = EscapedPath(JoinTarget(StripRequestPath(u, prefix))),
           NEW w, w = Rooted(Drop(EscapedPath(u), Len(prefix)))
    PROVE  IF u.raw = <<>> \/ ValidRawPath(u) THEN e = w ELSE IsSuffix(Decode(w), Decode(e))
<1>1. PICK v : v = StripRequestPath(u, prefix)
  OBVIOUS
<1>2. PICK rest : rest = Drop(u.path, Len(prefix))
  OBVIOUS
<1>3. /\ v.path = rest \/ (rest = <<>> /\ v.path = <<"/">>)
      /\ u.raw = <<>> \/ ValidRawPath(u) => Rooted(EscapedPath(v)) = w
  BY <1>1, <1>2, StripWritten
<1>4. v \in URL
  BY <1>1, StripWritten
<1>5. e = Rooted(EscapedPath(v))
  BY <1>1, <1>4, JoinWritten
<1>6. ASSUME ~ValidRawPath(u)
      PROVE  IsSuffix(Decode(w), Decode(e))
  <2>1. Len(prefix) \in 0 .. Len(u.path) /\ u.path \in Seq(Byte)
    BY DEF IsPrefix, Parsed, URL
  <2>2. rest \in Seq(Byte)
    BY <1>2, <2>1, DroppedBytes
  <2>3. w = Rooted(Escape(rest))
    BY <1>2, <1>6, <2>1, RestWritten
  <2>4. PICK f : f = EscapedPath(v)
    OBVIOUS
  <2>5. f \in Seq(RawByte) /\ Decode(f) = v.path /\ v.path \in Seq(Byte)
    BY <1>4, <2>4, WrittenPath DEF URL
  <2>6. Decode(e) = IF Starts(f) THEN v.path ELSE <<"/">> \o v.path
    BY <1>5, <2>4, <2>5, RootedPath
  <2>7. Decode(w) = IF Starts(Escape(rest)) THEN rest ELSE <<"/">> \o rest
    BY <2>2, <2>3, EscapedBytes, RootedPath
  <2>8. CASE v.path = rest
    <3>1. Starts(f) => Starts(Escape(rest))
      BY <2>2, <2>5, <2>8, StartOfPath
    <3>2. Decode(w) \in Seq(Byte) /\ (Decode(e) = Decode(w) \/ Decode(e) = <<"/">> \o Decode(w))
      <4>1. <<"/">> \o rest \in Seq(Byte)
        BY <2>2, SlashWritten, JoinedBytes
      <4> QED
        BY <2>2, <2>6, <2>7, <2>8, <3>1, <4>1
    <3> QED
      BY <3>2, SlashWritten, SuffixOf
  <2>9. CASE rest = <<>> /\ v.path = <<"/">>
    <3>1. Decode(w) = <<"/">>
      <4>1. ~Starts(Escape(rest)) /\ <<"/">> \o <<>> = <<"/">>
        <5>1. Escape(rest) = <<>>
          BY <2>9 DEF Escape
        <5> QED
          BY <5>1, SlashWritten DEF Starts
      <4> QED
        BY <2>7, <2>9, <4>1
    <3>2. Decode(e) = Decode(w) \/ Decode(e) = <<"/">> \o Decode(w)
      BY <2>6, <2>9, <3>1
    <3> QED
      BY <3>1, <3>2, SlashWritten, SuffixOf
  <2> QED
    BY <1>3, <2>8, <2>9
<1> QED
  BY <1>3, <1>5, <1>6

-----------------------------------------------------------------------------
(* The request.                                                            *)

\* A request is served by a router that is built, and recorded at the end.
PassageInv ==
    /\ pc # "idle" => /\ phase = "built" /\ request \in Traffic(config)
                      /\ noted = PathOrSlash(request.url)
    /\ pc \in {"idle", "admitted", "rejected"} => site = 0
    /\ pc # "finished" => log = <<>>

\* The site and the route are those that are found for the request.
SelectedInv ==
    /\ pc = "selected" => site # 0
    /\ site # 0 => /\ site = SelectSite(config.sites, NormalizeHost(request.host))
                   /\ route = SelectRoute(TheSite.routes, Routed(request), Trusted)

\* The handler has not yet ended its response, or not yet begun it.
Begun == {"admitted", "rejected", "selected", "trip", "copy", "upgrade", "body"}

WritersInv ==
    /\ pc \notin {"idle", "finished"} => WriterInv(writer) /\ writer.logged = config.log
    /\ pc \in Begun => (config.id => HasID(writer))
    /\ pc \in Begun \ {"body"} => Fresh(writer)

\* What has been sent upstream has the ID of the response.
SentInv ==
    /\ IsSet(sent) => /\ pc \notin {"idle", "admitted", "rejected"}
                      /\ sent.forwarded = SetForwardedHeaders(request, Trusted).forwarded
                      /\ config.id => HasID(writer) /\ ToSet(sent.ids) = {writer.id}
    /\ pc \in {"trip", "copy", "upgrade"} => "status" \in DOMAIN answer /\ answer.status \in Nat

\* The record tells what the client has.
EndInv ==
    pc = "finished" =>
        /\ IsWriter(writer) /\ BlocksInv(writer) /\ IDsInv(writer)
        /\ HasID(writer) => "id" \notin writer.header.prefixed
        /\ log = IF ~config.log THEN <<>>
                 ELSE <<[status |-> StatusOfResponse(writer), bytes |-> writer.sent, id |-> writer.id, path |-> noted]>>

ServingInv == LoadedInv /\ PassageInv /\ SelectedInv /\ WritersInv /\ SentInv /\ EndInv

\* Nothing is built once the router is, and no configuration but one that
\* loads is built.
LEMMA BuildKeepsServing ==
    ASSUME ServingInv, Build, UNCHANGED requestVars
    PROVE  ServingInv'
<1>1. /\ phase # "built" /\ pc = "idle"
      /\ \/ phase = "text" /\ LoadsConfig(config) /\ config' = DecodeConfig(config) /\ phase' = "backends"
         \/ phase = "text" /\ config' = config /\ phase' = "unloaded"
         \/ phase \notin {"text", "unloaded"} /\ config' = config /\ phase' # "text"
  BY DEF ServingInv, PassageInv, Build, LoadConfig, LoadFails, ReplaceFile, ProxiesRefused, Refuse, BackendReads,
         BackendBuilt, BackendRefused, AtBackend, ReadFile, BackendsBuilt, StepReads, StepWithoutTransport,
         StepWithTransport, StepRefused, AtStep, SitesBuilt
<1>2. LoadedInv'
  BY <1>1 DEF ServingInv, LoadedInv, Configs
<1>3. /\ pc' = "idle" /\ pc = "idle" /\ site' = 0 /\ site = 0 /\ log' = <<>> /\ sent' = sent /\ ~IsSet(sent)
  BY <1>1 DEF ServingInv, PassageInv, SentInv, requestVars
<1> QED
  BY <1>2, <1>3 DEF ServingInv, PassageInv, SelectedInv, WritersInv, SentInv, EndInv, Begun, IsSet

\* Whoever serves is past the build; what it works on does not change.
LEMMA ServingStays ==
    ASSUME ServingInv, Serve
    PROVE  LoadedInv' /\ config' = config /\ phase' = phase /\ backends' = backends
BY ServingKeepsRouter DEF ServingInv, LoadedInv, buildVars

\* Every way to be done with the response leaves the rest as it was.
LEMMA RespondKeeps ==
    ASSUME ServingInv, Serve, pc \in Begun, NEW w, WriterInv(w), Kept(w, writer), Respond(w)
    PROVE  ServingInv'
<1>1. /\ pc' = "return" /\ writer' = w /\ pc \notin {"idle", "finished"}
      /\ UNCHANGED <<request, noted, site, route, sent, answer, log>>
  BY DEF Respond, Begun
<1>2. LoadedInv' /\ config' = config /\ phase' = phase
  BY ServingStays
<1>3. WritersInv'
  BY <1>1, <1>2 DEF ServingInv, WritersInv, Kept, Begun
<1>4. PassageInv' /\ EndInv'
  BY <1>1, <1>2 DEF ServingInv, PassageInv, EndInv
<1>5. HasID(writer)' = HasID(writer) /\ writer'.id = writer.id
  BY <1>1 DEF Kept, HasID
<1>6. SentInv'
  BY <1>1, <1>2, <1>5 DEF ServingInv, SentInv, Trusted
<1>7. SelectedInv'
  BY <1>1, <1>2, <1>5 DEF ServingInv, SelectedInv, Routed, TheSite, Trusted
<1> QED
  BY <1>2, <1>3, <1>4, <1>6, <1>7 DEF ServingInv

\* Every other step of the answer keeps what has been selected and sent.
LEMMA AnswerKeeps ==
    ASSUME ServingInv, Serve, pc \in {"trip", "copy", "upgrade", "body"},
           pc' \in {"trip", "copy", "upgrade", "body", "return"},
           UNCHANGED <<request, noted, site, route, sent, log>>,
           WriterInv(writer'), Kept(writer', writer),
           pc' \in {"trip", "copy", "upgrade"} =>
               Fresh(writer') /\ "status" \in DOMAIN answer' /\ answer'.status \in Nat
    PROVE  ServingInv'
<1>1. LoadedInv' /\ config' = config /\ phase' = phase
  BY ServingStays
<1>2. HasID(writer)' = HasID(writer) /\ writer'.id = writer.id /\ writer'.logged = writer.logged
  BY DEF Kept, HasID
<1>3. WritersInv'
  BY <1>1, <1>2 DEF ServingInv, WritersInv, Begun
<1>4. PassageInv' /\ EndInv'
  BY <1>1 DEF ServingInv, PassageInv, EndInv
<1>5. SentInv'
  BY <1>1, <1>2 DEF ServingInv, SentInv, Trusted
<1>6. SelectedInv'
  BY <1>1, <1>2 DEF ServingInv, SelectedInv, Routed, TheSite, Trusted
<1> QED
  BY <1>1, <1>3, <1>4, <1>5, <1>6 DEF ServingInv

\* The handler is entered with a writer that has an ID, if it is configured.
LEMMA EnterKeeps ==
    ASSUME ServingInv, Serve, NEW r \in Traffic(config), FailID(r) \/ \E admitted \in BOOLEAN : Enter(r, admitted)
    PROVE  ServingInv'
<1>1. /\ pc = "idle" /\ pc' \in {"admitted", "rejected", "return"} /\ phase = "built"
      /\ request' = r /\ noted' = PathOrSlash(r.url)
      /\ UNCHANGED <<site, route, sent, answer, log>>
  BY DEF FailID, Enter
<1>2. LoadedInv' /\ config' = config /\ phase' = phase
  BY ServingStays
<1>3. PICK id : id = IF config.id THEN RequestIDFor(r.ids) ELSE NoID
  OBVIOUS
<1>4. config.id => id # NoID
  BY <1>3 DEF RequestIDFor, NoID
<1>5. config.log \in BOOLEAN
  <2>1. config \in Configs
    BY <1>1 DEF ServingInv, LoadedInv
  <2> QED
    BY <2>1, ConfigDecoded
<1>6. /\ WriterInv(writer') /\ writer'.logged = config.log
      /\ pc' # "return" => Fresh(writer') /\ writer'.id = id
  <2>1. CASE FailID(r)
    <3>1. PICK w : w = NewWriter(NoID, config.log)
      OBVIOUS
    <3>2. WriterInv(w) /\ w.logged = config.log
      BY <1>5, <3>1, NewWriterIsSound
    <3>3. writer' = Error(w, 500) /\ pc' = "return"
      BY <2>1, <3>1 DEF FailID
    <3>4. 500 \in Nat /\ Terminal(500) /\ CoreInv(w)
      BY <3>2 DEF Terminal, WriterInv
    <3>5. WriterInv(Error(w, 500)) /\ Kept(Error(w, 500), w)
      BY <3>4, ErrorKeeps
    <3> QED
      BY <3>2, <3>3, <3>5 DEF Kept
  <2>2. CASE ~FailID(r)
    <3>1. writer' = NewWriter(id, config.log)
      BY <1>3, <2>2 DEF Enter
    <3> QED
      BY <1>5, <3>1, NewWriterIsSound
  <2> QED
    BY <2>1, <2>2
<1>7. WritersInv'
  BY <1>1, <1>2, <1>4, <1>6 DEF WritersInv, Begun, HasID
<1>8. PassageInv' /\ SelectedInv' /\ EndInv'
  BY <1>1, <1>2 DEF ServingInv, PassageInv, SelectedInv, EndInv
<1>9. SentInv'
  BY <1>1, <1>2 DEF ServingInv, SentInv
<1> QED
  BY <1>2, <1>7, <1>8, <1>9 DEF ServingInv

\* A site and a route are selected.
LEMMA SelectKeeps ==
    ASSUME ServingInv, Serve, Select
    PROVE  ServingInv'
<1>1. /\ pc = "admitted" /\ pc' = "selected" /\ site' # 0
      /\ site' = SelectSite(config.sites, NormalizeHost(request.host))
      /\ route' = SelectRoute(config.sites[site'].routes, Routed(request), Trusted)
      /\ UNCHANGED <<request, writer, noted, sent, answer, log>>
  BY DEF Select
<1>2. LoadedInv' /\ config' = config /\ phase' = phase
  BY ServingStays
<1>3. SelectedInv'
  BY <1>1, <1>2 DEF SelectedInv, Routed, TheSite, Trusted
<1>4. WritersInv' /\ PassageInv' /\ EndInv' /\ SentInv'
  BY <1>1, <1>2 DEF ServingInv, WritersInv, PassageInv, EndInv, SentInv, Begun
<1> QED
  BY <1>2, <1>3, <1>4 DEF ServingInv

\* What goes upstream has the ID of the response.
LEMMA ProxyKeeps ==
    ASSUME ServingInv, Serve, Proxy
    PROVE  ServingInv'
<1>1. /\ pc = "selected" /\ pc' = "trip"
      /\ UNCHANGED <<request, writer, noted, site, route, log>>
      /\ answer' \in Answers(config)
  BY DEF Proxy, Proxied
<1>2. LoadedInv' /\ config' = config /\ phase' = phase
  BY ServingStays
<1>3. "status" \in DOMAIN answer' /\ answer'.status \in Nat
  <2>1. config \in Configs
    BY <1>1 DEF ServingInv, LoadedInv, PassageInv
  <2> QED
    BY <1>1, <2>1, AnswersAssumption
<1>4. /\ sent'.forwarded = SetForwardedHeaders(request, Trusted).forwarded
      /\ sent'.ids = SentIDs(request, writer.id)
  BY DEF Proxy
<1>5. WritersInv' /\ PassageInv' /\ EndInv'
  BY <1>1, <1>2 DEF ServingInv, WritersInv, PassageInv, EndInv, Begun
<1>6. SelectedInv'
  BY <1>1, <1>2 DEF ServingInv, SelectedInv, Routed, TheSite, Trusted
<1>7. config.id => HasID(writer) /\ ToSet(SentIDs(request, writer.id)) = {writer.id}
  <2>1. SUFFICES ASSUME config.id
                 PROVE  HasID(writer) /\ ToSet(SentIDs(request, writer.id)) = {writer.id}
    OBVIOUS
  <2>2. HasID(writer)
    BY <1>1, <2>1 DEF ServingInv, WritersInv, Begun
  <2>3. PICK id : id = writer.id
    OBVIOUS
  <2>4. PICK one \in Seq({id}) : one = <<id>> /\ Len(one) = 1 /\ one[1] = id
    <3>1. <<id>> \in Seq({id}) /\ Len(<<id>>) = 1 /\ <<id>>[1] = id
      OBVIOUS
    <3> QED
      BY <3>1, Zenon
  <2>5. one \o one \in Seq({id}) /\ Len(one \o one) = 2 /\ (one \o one)[1] = id
    BY <2>4
  <2>6. ToSet(one \o one) = {id}
    <3>1. DOMAIN (one \o one) = 1..2 /\ \A i \in 1..2 : (one \o one)[i] = id
      BY <2>5
    <3> QED
      BY <3>1 DEF ToSet
  <2>7. SentIDs(request, id) = one \o one
    <3>1. id # NoID
      BY <2>2, <2>3 DEF HasID
    <3> QED
      BY <2>4, <3>1 DEF SentIDs, RawIDs
  <2> QED
    BY <2>2, <2>3, <2>6, <2>7
<1>8. SentInv'
  BY <1>1, <1>2, <1>3, <1>4, <1>7 DEF SentInv, Trusted
<1> QED
  BY <1>2, <1>5, <1>6, <1>8 DEF ServingInv

\* Whoever serves, in a state that is sound, has a writer that is.
LEMMA BegunIsSound ==
    ASSUME ServingInv, pc \in Begun
    PROVE  /\ WriterInv(writer) /\ CoreInv(writer) /\ config \in Configs /\ request \in Traffic(config)
           /\ pc # "body" => Fresh(writer)
<1>1. pc \notin {"idle", "finished"}
  BY DEF Begun
<1> QED
  BY <1>1 DEF ServingInv, WritersInv, PassageInv, LoadedInv, WriterInv

\* What the handlers that have no upstream answer keeps the invariant.
LEMMA LocalKeeps ==
    ASSUME ServingInv, Serve, Reject \/ ServeGeneralOptions \/ ServeNotFound
    PROVE  ServingInv'
<1>1. pc \in Begun
  BY DEF Reject, ServeGeneralOptions, ServeNotFound, Begun
<1>2. WriterInv(writer) /\ CoreInv(writer)
  BY <1>1, BegunIsSound
<1>3. CASE Reject
  <2>1. Respond(WriteHeader(writer, 429)) /\ 429 \in Nat
    BY <1>3 DEF Reject
  <2>2. WriterInv(WriteHeader(writer, 429)) /\ Kept(WriteHeader(writer, 429), writer)
    BY <1>2, <2>1, WriteHeaderKeeps
  <2> QED
    BY <1>1, <2>1, <2>2, RespondKeeps
<1>4. CASE ServeGeneralOptions
  <2>1. PICK w : w = GetHeader(writer)
    OBVIOUS
  <2>2. Respond(w)
    BY <1>4, <2>1 DEF ServeGeneralOptions
  <2>3. WriterInv(w) /\ Kept(w, writer)
    BY <1>2, <2>1, GetHeaderKeeps DEF Refilled
  <2> QED
    BY <1>1, <2>2, <2>3, RespondKeeps
<1>5. CASE ServeNotFound
  <2>1. Respond(Error(writer, 404)) /\ 404 \in Nat /\ Terminal(404)
    BY <1>5 DEF ServeNotFound, Terminal
  <2>2. WriterInv(Error(writer, 404)) /\ Kept(Error(writer, 404), writer)
    BY <1>2, <2>1, ErrorKeeps
  <2> QED
    BY <1>1, <2>1, <2>2, RespondKeeps
<1> QED
  BY <1>3, <1>4, <1>5

\* A response that is configured has a status, so its writer is left sound.
LEMMA GeneratedKeeps ==
    ASSUME ServingInv, Serve, ServeGenerated
    PROVE  ServingInv'
<1>1. pc = "selected" /\ pc \in Begun /\ route # 0 /\ IsSet(TheRoute.respond)
  BY DEF ServeGenerated, Begun
<1>2. WriterInv(writer) /\ CoreInv(writer) /\ config \in Configs /\ request \in Traffic(config)
  BY <1>1, BegunIsSound
<1>3. TheRoute.respond.status \in Nat
  <2>1. site # 0 /\ site = SelectSite(config.sites, NormalizeHost(request.host))
        /\ route = SelectRoute(TheSite.routes, Routed(request), Trusted)
    BY <1>1 DEF ServingInv, SelectedInv
  <2>2. site \in DOMAIN config.sites
    <3>1. PICK n \in Nat : n > 0 /\ DOMAIN config.sites = 1 .. n
      BY <1>2, ConfigDecoded
    <3> QED
      BY <2>1, <3>1, SelectedSite
  <2>3. route \in DOMAIN TheSite.routes
    <3>1. PICK n \in Nat : DOMAIN TheSite.routes = 1 .. n
      BY <1>2, <2>2, ConfigDecoded DEF TheSite
    <3>2. Routed(request).url.path \in Seq(STRING)
      <4>1. "url" \in DOMAIN request /\ request.url.path \in Seq(STRING)
        BY <1>2, TrafficAssumption DEF URLShape
      <4> QED
        BY <4>1 DEF Routed
    <3>3. route \in 0 .. n
      BY <2>1, <3>1, <3>2, SelectedRoute
    <3> QED
      BY <1>1, <3>1, <3>3
  <2>4. TheRoute.respond.status \in 200 .. 599
    BY <1>1, <1>2, <2>2, <2>3, ConfigDecoded DEF TheRoute, TheSite
  <2> QED
    BY <2>4
<1>4. PICK g : g = GetHeader(writer)
  OBVIOUS
<1>5. WriterInv(g) /\ Kept(g, writer)
  BY <1>2, <1>4, GetHeaderKeeps DEF Refilled
<1>6. PICK values : values = [n \in Names |-> IF Prepared.values[n] = <<>> THEN g.header.values[n] ELSE Prepared.values[n]]
  OBVIOUS
<1>7. PICK h : h = [g.header EXCEPT !.values = values]
  OBVIOUS
<1>8. PICK x : x = [g EXCEPT !.header = h]
  OBVIOUS
<1>9. WriterInv(x) /\ Kept(x, writer)
  <2>1. IsHeader(g.header)
    BY <1>5 DEF WriterInv, CoreInv, IsWriter
  <2>2. values = [n \in Names |-> values[n]]
    BY <1>6
  <2>3. IsHeader(h) /\ h.prefixed = g.header.prefixed
    BY <1>7, <2>1, <2>2, PartReplaced
  <2>4. WriterInv(x) /\ Kept(x, g)
    BY <1>5, <1>8, <2>3, FilledIsSound DEF WriterInv, Refilled
  <2> QED
    BY <1>5, <2>4 DEF Kept
<1>10. PICK begun : begun = WriteHeader(x, TheRoute.respond.status)
  OBVIOUS
<1>11. WriterInv(begun) /\ Kept(begun, x)
  BY <1>3, <1>9, <1>10, WriteHeaderKeeps DEF WriterInv
<1>12. PICK w : w = Write(begun, TheRoute.respond.body)
  OBVIOUS
<1>13. WriterInv(w) /\ Kept(w, begun)
  BY <1>11, <1>12, WriteKeeps DEF WriterInv
<1>14. Respond(begun) \/ Respond(w)
  <2>1. x = [GetHeader(writer) EXCEPT !.header.values =
                 [n \in Names |-> IF Prepared.values[n] = <<>> THEN @[n] ELSE Prepared.values[n]]]
    BY <1>4, <1>6, <1>7, <1>8
  <2> QED
    BY <1>10, <1>12, <2>1 DEF ServeGenerated
<1>15. Kept(begun, writer) /\ Kept(w, writer)
  BY <1>9, <1>11, <1>13 DEF Kept
<1> QED
  BY <1>1, <1>11, <1>13, <1>14, <1>15, RespondKeeps

\* Answering with an error keeps the invariant.
LEMMA FailureKeeps ==
    ASSUME ServingInv, Serve,
           \/ RoundTripFails \/ UpgradeMismatch
           \/ \E error \in {"timeout", "canceled"} : ModifyFails(error)
           \/ \E error \in {"unsupported", "failed"} : UpgradeFails(error)
    PROVE  ServingInv'
<1>1. pc \in Begun
  BY DEF RoundTripFails, UpgradeMismatch, ModifyFails, UpgradeFails, Begun
<1>2. WriterInv(writer) /\ CoreInv(writer)
  BY <1>1, BegunIsSound
<1>3. \A error : StatusOf(error) \in Nat /\ Terminal(StatusOf(error))
  BY DEF StatusOf, Terminal
<1>4. 502 \in Nat /\ Terminal(502)
  BY DEF Terminal
<1>5. PICK w, s : /\ Respond(Error(w, s)) /\ s \in Nat /\ Terminal(s)
                  /\ w = writer \/ \E error \in {"unsupported", "failed"} : w = Hijack(writer, error)
  BY <1>3, <1>4 DEF RoundTripFails, UpgradeMismatch, ModifyFails, UpgradeFails
<1>6. CoreInv(w) /\ Kept(w, writer)
  <2>1. CASE w = writer
    BY <1>2, <2>1 DEF Kept
  <2>2. ASSUME NEW error \in {"unsupported", "failed"}, w = Hijack(writer, error)
        PROVE  CoreInv(w) /\ Kept(w, writer)
    <3>1. error # "none"
      OBVIOUS
    <3> QED
      BY <1>2, <2>2, <3>1, HijackRefused
  <2> QED
    BY <1>5, <2>1, <2>2
<1>7. WriterInv(Error(w, s)) /\ Kept(Error(w, s), w)
  BY <1>5, <1>6, ErrorKeeps
<1>8. Kept(Error(w, s), writer)
  BY <1>6, <1>7 DEF Kept
<1> QED
  BY <1>1, <1>5, <1>7, <1>8, RespondKeeps

\* The block of an upgrade is written by the proxy, or is not.
LEMMA UpgradedKeeps ==
    ASSUME ServingInv, Serve, NEW written \in BOOLEAN, Upgrade(written)
    PROVE  ServingInv'
<1>1. pc \in Begun /\ pc # "body"
  BY DEF Upgrade, Begun
<1>2. CoreInv(writer) /\ Fresh(writer)
  BY <1>1, BegunIsSound
<1>3. PICK g : g = GetHeader(Hijack(writer, "none"))
  OBVIOUS
<1>4. PICK x : x = GetHeader([g EXCEPT !.header = CopyHeader(@, answer.header)])
  OBVIOUS
<1>5. /\ CoreInv(x) /\ Kept(x, writer)
      /\ WriterInv(SendBlock(x, 101)) /\ Kept(SendBlock(x, 101), writer)
  BY <1>2, <1>3, <1>4, UpgradeKeeps
<1>6. x = Upgraded
  BY <1>3, <1>4 DEF Upgraded
<1>7. WriterInv(Error(x, 502)) /\ Kept(Error(x, 502), writer)
  <2>1. 502 \in Nat /\ Terminal(502)
    BY DEF Terminal
  <2>2. WriterInv(Error(x, 502)) /\ Kept(Error(x, 502), x)
    BY <1>5, <2>1, ErrorKeeps
  <2> QED
    BY <1>5, <2>2 DEF Kept
<1>8. Respond(SendBlock(x, 101)) \/ Respond(Error(x, 502))
  BY <1>6 DEF Upgrade
<1> QED
  BY <1>1, <1>5, <1>7, <1>8, RespondKeeps

\* Informational responses leave the response to be begun.
LEMMA InformationalKeeps ==
    ASSUME ServingInv, Serve, Informational
    PROVE  ServingInv'
<1>1. pc = "trip" /\ pc \in Begun /\ pc # "body"
  BY DEF Informational, Begun
<1>2. CoreInv(writer) /\ Fresh(writer)
  BY <1>1, BegunIsSound
<1>3. PICK g : g = GetHeader(writer)
  OBVIOUS
<1>4. CoreInv(g) /\ Kept(g, writer) /\ Fresh(g)
  BY <1>2, <1>3, GetHeaderKeeps DEF Refilled
<1>5. PICK x : x = [g EXCEPT !.header = CopyHeader(g.header, answer.early)]
  OBVIOUS
<1>6. CoreInv(x) /\ Kept(x, g) /\ Fresh(x)
  <2>1. IsHeader(CopyHeader(g.header, answer.early))
    BY CopiedHeader
  <2>2. Refilled(g, x)
    BY <1>4, <1>5, <2>1, FillKeeps
  <2> QED
    BY <1>4, <2>2 DEF Refilled
<1>7. PICK w : w = WriteHeader(x, 103)
  OBVIOUS
<1>8. WriterInv(w) /\ Kept(w, x) /\ Fresh(w)
  <2>1. 103 \in Nat /\ 103 >= 100 /\ ~Terminal(103)
    BY DEF Terminal
  <2> QED
    BY <1>6, <1>7, <2>1, WriteHeaderKeeps
<1>9. PICK v : v = [w EXCEPT !.header = EmptyHeader]
  OBVIOUS
<1>10. WriterInv(v) /\ Kept(v, w) /\ Fresh(v)
  <2>1. IsHeader(EmptyHeader) /\ "id" \notin EmptyHeader.prefixed
    BY DEF EmptyHeader, IsHeader
  <2>2. WriterInv(v) /\ Refilled(w, v)
    BY <1>8, <1>9, <2>1, FilledIsSound
  <2> QED
    BY <1>8, <2>2 DEF Refilled
<1>11. writer' = v
  BY <1>3, <1>5, <1>7, <1>9 DEF Informational
<1>12. Kept(writer', writer)
  BY <1>4, <1>6, <1>8, <1>10, <1>11 DEF Kept
<1>13. "status" \in DOMAIN answer' /\ answer'.status \in Nat
  BY <1>1 DEF Informational, ServingInv, SentInv
<1>14. pc' = "trip" /\ UNCHANGED <<request, noted, site, route, sent, log>>
  BY <1>1 DEF Informational
<1>15. WriterInv(writer') /\ Fresh(writer')
  BY <1>10, <1>11
<1> QED
  BY <1>1, <1>12, <1>13, <1>14, <1>15, AnswerKeeps

\* The answer is prepared, but nothing written.
LEMMA ModifyKeeps ==
    ASSUME ServingInv, Serve, ModifyResponse
    PROVE  ServingInv'
<1>1. pc = "trip" /\ pc \in Begun /\ pc # "body"
  BY DEF ModifyResponse, Begun
<1>2. WriterInv(writer) /\ Fresh(writer)
  BY <1>1, BegunIsSound
<1>3. /\ pc' \in {"copy", "upgrade"} /\ writer' = writer /\ answer' = Modified(answer)
      /\ UNCHANGED <<request, noted, site, route, sent, log>>
  BY DEF ModifyResponse
<1>4. "status" \in DOMAIN answer' /\ answer'.status \in Nat
  <2>1. "status" \in DOMAIN answer /\ answer.status \in Nat
    BY <1>1 DEF ServingInv, SentInv
  <2> QED
    BY <1>3, <2>1 DEF Modified
<1>5. Kept(writer', writer)
  BY <1>3 DEF Kept
<1> QED
  BY <1>1, <1>2, <1>3, <1>4, <1>5, AnswerKeeps

\* The answer's header is copied and sent.
LEMMA CopyKeeps ==
    ASSUME ServingInv, Serve, CopyResponse
    PROVE  ServingInv'
<1>1. pc = "copy" /\ pc \in Begun /\ pc # "body"
  BY DEF CopyResponse, Begun
<1>2. CoreInv(writer) /\ answer.status \in Nat
  BY <1>1, BegunIsSound DEF ServingInv, SentInv
<1>3. PICK g : g = GetHeader(writer)
  OBVIOUS
<1>4. CoreInv(g) /\ Kept(g, writer)
  BY <1>2, <1>3, GetHeaderKeeps DEF Refilled
<1>5. PICK copied : copied = [g EXCEPT !.header = CopyHeader(g.header, answer.header)]
  OBVIOUS
<1>6. CoreInv(copied) /\ Kept(copied, g)
  <2>1. IsHeader(CopyHeader(g.header, answer.header))
    BY CopiedHeader
  <2>2. Refilled(g, copied)
    BY <1>4, <1>5, <2>1, FillKeeps
  <2> QED
    BY <2>2 DEF Refilled
<1>7. PICK x : x = GetHeader(copied)
  OBVIOUS
<1>8. CoreInv(x) /\ Kept(x, copied)
  BY <1>6, <1>7, GetHeaderKeeps DEF Refilled
<1>9. PICK h : h = [x.header EXCEPT !.listed = x.header.listed \cup answer.trailer]
  OBVIOUS
<1>10. PICK announced : announced = [x EXCEPT !.header = h]
  OBVIOUS
<1>11. CoreInv(announced) /\ Kept(announced, x)
  <2>1. IsHeader(h)
    <3>1. PICK g0 : g0 = x.header /\ IsHeader(g0)
      BY <1>8 DEF CoreInv, IsWriter
    <3>2. PICK values : values = g0.values /\ values = [n \in Names |-> values[n]]
      BY <3>1 DEF IsHeader
    <3> QED
      BY <1>9, <3>1, <3>2, PartReplaced
  <2>2. Refilled(x, announced)
    BY <1>8, <1>10, <2>1, FillKeeps
  <2> QED
    BY <2>2 DEF Refilled
<1>12. PICK begun : begun = WriteHeader(announced, answer.status)
  OBVIOUS
<1>13. WriterInv(begun) /\ Kept(begun, announced)
  BY <1>2, <1>11, <1>12, WriteHeaderKeeps
<1>14. announced = [GetHeader(copied) EXCEPT !.header.listed = @ \cup answer.trailer]
  BY <1>7, <1>9, <1>10
<1>15. copied = [GetHeader(writer) EXCEPT !.header = CopyHeader(@, answer.header)]
  BY <1>3, <1>5
<1>16. writer' = begun /\ pc' \in {"body", "return"} /\ UNCHANGED <<request, noted, site, route, sent, log>>
  BY <1>12, <1>14, <1>15 DEF CopyResponse
<1>17. Kept(writer', writer)
  BY <1>4, <1>6, <1>8, <1>11, <1>13, <1>16 DEF Kept
<1> QED
  BY <1>1, <1>13, <1>16, <1>17, AnswerKeeps

\* Bytes of the body, or the end of it in a panic.
LEMMA BodyKeeps ==
    ASSUME ServingInv, Serve, BodyFails \/ \E flush \in FlushErrors \cup {"no"} : CopyBody(flush)
    PROVE  ServingInv'
<1>1. pc = "body" /\ pc \in Begun
  BY DEF BodyFails, CopyBody, Begun
<1>2. WriterInv(writer) /\ CoreInv(writer)
  BY <1>1, BegunIsSound
<1>3. CASE BodyFails
  <2>1. PICK w : w = [writer EXCEPT !.panicked = TRUE]
    OBVIOUS
  <2>2. Respond(w)
    BY <1>3, <2>1 DEF BodyFails
  <2>3. WriterInv(w) /\ Kept(w, writer)
    BY <1>2, <2>1, PanicKeeps
  <2> QED
    BY <1>1, <2>2, <2>3, RespondKeeps
<1>4. ASSUME NEW flush \in FlushErrors \cup {"no"}, CopyBody(flush)
      PROVE  ServingInv'
  <2>1. PICK written : written = Write(writer, 1)
    OBVIOUS
  <2>2. WriterInv(written) /\ Kept(written, writer)
    BY <1>2, <2>1, WriteKeeps
  <2>3. PICK flushed : flushed = Flush(written, flush)
    OBVIOUS
  <2>4. WriterInv(flushed) /\ Kept(flushed, written)
    BY <2>2, <2>3, FlushKeeps DEF WriterInv
  <2>5. writer' = written \/ writer' = flushed
    BY <1>4, <2>1, <2>3 DEF CopyBody
  <2>6. WriterInv(writer') /\ Kept(writer', writer)
    BY <2>2, <2>4, <2>5 DEF Kept
  <2>7. pc' = "body" /\ UNCHANGED <<request, noted, site, route, sent, log>>
    BY <1>1, <1>4 DEF CopyBody
  <2> QED
    BY <1>1, <2>6, <2>7, AnswerKeeps
<1> QED
  BY <1>3, <1>4

\* Of the trailers that come late none has the ID's name.
LEMMA TrailersKeep ==
    ASSUME ServingInv, Serve, NEW flush \in FlushErrors, CopyTrailers(flush)
    PROVE  ServingInv'
<1>1. pc = "body" /\ pc \in Begun
  BY DEF CopyTrailers, Begun
<1>2. WriterInv(writer) /\ CoreInv(writer)
  BY <1>1, BegunIsSound
<1>3. PICK late : late = LateTrailers(answer)
  OBVIOUS
<1>4. PICK flushed : flushed = IF late = {} THEN writer ELSE Flush(writer, flush)
  OBVIOUS
<1>5. WriterInv(flushed) /\ CoreInv(flushed) /\ Kept(flushed, writer)
  <2>1. WriterInv(Flush(writer, flush)) /\ Kept(Flush(writer, flush), writer)
    BY <1>2, FlushKeeps
  <2>2. Kept(writer, writer)
    BY DEF Kept
  <2> QED
    BY <1>2, <1>4, <2>1, <2>2 DEF WriterInv
<1>6. PICK g : g = GetHeader(flushed)
  OBVIOUS
<1>7. WriterInv(g) /\ Kept(g, flushed)
  BY <1>5, <1>6, GetHeaderKeeps DEF Refilled
<1>8. Kept(g, writer) /\ IsHeader(g.header) /\ (HasID(g) => "id" \notin g.header.prefixed /\ HasID(writer))
  BY <1>5, <1>7 DEF Kept, WriterInv, CoreInv, IsWriter, HasID
<1>9. PICK carried : carried = late \cap answer.late
  OBVIOUS
<1>10. HasID(writer) => "id" \notin carried
  BY <1>3, <1>9 DEF LateTrailers
<1>11. PICK values : values = [n \in Names |-> IF n \in carried THEN Append(g.header.values[n], "foreign") ELSE g.header.values[n]]
  OBVIOUS
<1>12. PICK h : h = [g.header EXCEPT !.values = values]
  OBVIOUS
<1>13. PICK k : k = [g.header EXCEPT !.prefixed = g.header.prefixed \cup carried]
  OBVIOUS
<1>14. /\ IsHeader(h) /\ (HasID(g) => "id" \notin h.prefixed)
       /\ IsHeader(k) /\ (HasID(g) => "id" \notin k.prefixed)
  <2>1. values = [n \in Names |-> values[n]]
    BY <1>11
  <2>2. IsHeader(h) /\ h.prefixed = g.header.prefixed
    BY <1>8, <1>12, <2>1, PartReplaced
  <2>3. IsHeader(k) /\ k.prefixed = g.header.prefixed \cup carried
    BY <1>8, <1>13, <2>1, PartReplaced
  <2> QED
    BY <1>8, <1>10, <2>2, <2>3
<1>15. PICK copied : copied = [g EXCEPT !.header = h]
  OBVIOUS
<1>16. PICK prefixed : prefixed = [g EXCEPT !.header = k]
  OBVIOUS
<1>17. WriterInv(copied) /\ Kept(copied, writer)
  <2>1. WriterInv(copied) /\ Refilled(g, copied)
    BY <1>7, <1>14, <1>15, FilledIsSound
  <2> QED
    BY <1>8, <2>1 DEF Refilled, Kept
<1>18. WriterInv(prefixed) /\ Kept(prefixed, writer)
  <2>1. WriterInv(prefixed) /\ Refilled(g, prefixed)
    BY <1>7, <1>14, <1>16, FilledIsSound
  <2> QED
    BY <1>8, <2>1 DEF Refilled, Kept
<1>19. Respond(copied) \/ Respond(prefixed)
  <2>1. copied = [GetHeader(flushed) EXCEPT !.header.values =
                     [n \in Names |-> IF n \in late \cap answer.late THEN Append(@[n], "foreign") ELSE @[n]]]
    BY <1>6, <1>9, <1>11, <1>12, <1>15
  <2>2. prefixed = [GetHeader(flushed) EXCEPT !.header.prefixed = @ \cup (late \cap answer.late)]
    BY <1>6, <1>9, <1>13, <1>16
  <2> QED
    BY <1>3, <1>4, <2>1, <2>2 DEF CopyTrailers
<1> QED
  BY <1>1, <1>17, <1>18, <1>19, RespondKeeps

\* The record is written, and the server ends the response.
LEMMA ReturnKeeps ==
    ASSUME ServingInv, Serve, Return
    PROVE  ServingInv'
<1>1. pc = "return" /\ pc' = "finished" /\ UNCHANGED <<request, noted, site, route, sent, answer>>
  BY DEF Return
<1>2. LoadedInv' /\ config' = config /\ phase' = phase
  BY ServingStays
<1>3. WriterInv(writer) /\ writer.logged = config.log /\ log = <<>>
  BY <1>1 DEF ServingInv, WritersInv, PassageInv
<1>4. PICK e : e = IF HasID(writer) /\ ~writer.committed THEN Enforce(writer) ELSE writer
  OBVIOUS
<1>5. writer' = IF writer.panicked THEN writer ELSE ServerFinish(e)
  BY <1>4 DEF Return
<1>6. /\ IsWriter(writer') /\ BlocksInv(writer') /\ IDsInv(writer') /\ Kept(writer', writer)
      /\ HasID(writer') => "id" \notin writer'.header.prefixed
      /\ writer.logged => writer.bytes = writer'.sent /\ Recorded(writer) = StatusOfResponse(writer')
  BY <1>3, <1>4, <1>5, FinishKeeps
<1>7. log' = IF ~config.log THEN <<>>
             ELSE <<[status |-> StatusOfResponse(writer'), bytes |-> writer'.sent,
                     id |-> writer'.id, path |-> noted']>>
  <2>1. PICK r : r = Record(writer)
    OBVIOUS
  <2>2. log' = IF config.log THEN <<r>> ELSE <<>>
    BY <1>3, <2>1 DEF Return
  <2>3. config.log => r = [status |-> StatusOfResponse(writer'), bytes |-> writer'.sent, id |-> writer'.id, path |-> noted']
    BY <1>1, <1>3, <1>6, <2>1 DEF Record, Kept
  <2> QED
    BY <2>2, <2>3
<1>8. EndInv'
  BY <1>2, <1>6, <1>7 DEF EndInv
<1>9. PassageInv' /\ WritersInv'
  BY <1>1, <1>2 DEF ServingInv, PassageInv, WritersInv, Begun
<1>10. HasID(writer)' = HasID(writer) /\ writer'.id = writer.id
  BY <1>6 DEF Kept, HasID
<1>11. SentInv'
  BY <1>1, <1>2, <1>10 DEF ServingInv, SentInv, Trusted
<1>12. SelectedInv'
  BY <1>1, <1>2, <1>10 DEF ServingInv, SelectedInv, Routed, TheSite, Trusted
<1> QED
  BY <1>2, <1>8, <1>9, <1>11, <1>12 DEF ServingInv

\* The invariant, for every configuration, request and answer.
THEOREM ServingInvariance == Spec => []ServingInv
<1>1. Init => ServingInv
  BY DEF Init, BuildInit, ServingInv, LoadedInv, PassageInv, SelectedInv, WritersInv, SentInv, EndInv, Begun, IsSet
<1>2. ASSUME ServingInv, Next
      PROVE  ServingInv'
  <2>1. CASE Build /\ UNCHANGED requestVars
    BY <1>2, <2>1, BuildKeepsServing
  <2>2. CASE Serve
    <3>1. ASSUME NEW r \in Traffic(config), FailID(r) \/ \E admitted \in BOOLEAN : Enter(r, admitted)
          PROVE  ServingInv'
      BY <1>2, <2>2, <3>1, EnterKeeps
    <3>2. CASE Reject \/ ServeGeneralOptions \/ ServeNotFound
      BY <1>2, <2>2, <3>2, LocalKeeps
    <3>3. CASE Select
      BY <1>2, <2>2, <3>3, SelectKeeps
    <3>4. CASE ServeGenerated
      BY <1>2, <2>2, <3>4, GeneratedKeeps
    <3>5. CASE Proxy
      BY <1>2, <2>2, <3>5, ProxyKeeps
    <3>6. CASE Informational
      BY <1>2, <2>2, <3>6, InformationalKeeps
    <3>7. CASE \/ RoundTripFails \/ UpgradeMismatch
               \/ \E error \in {"timeout", "canceled"} : ModifyFails(error)
               \/ \E error \in {"unsupported", "failed"} : UpgradeFails(error)
      BY <1>2, <2>2, <3>7, FailureKeeps
    <3>8. CASE ModifyResponse
      BY <1>2, <2>2, <3>8, ModifyKeeps
    <3>9. ASSUME NEW written \in BOOLEAN, Upgrade(written)
          PROVE  ServingInv'
      BY <1>2, <2>2, <3>9, UpgradedKeeps
    <3>10. CASE CopyResponse
      BY <1>2, <2>2, <3>10, CopyKeeps
    <3>11. CASE BodyFails \/ \E flush \in FlushErrors \cup {"no"} : CopyBody(flush)
      BY <1>2, <2>2, <3>11, BodyKeeps
    <3>12. ASSUME NEW flush \in FlushErrors, CopyTrailers(flush)
           PROVE  ServingInv'
      BY <1>2, <2>2, <3>12, TrailersKeep
    <3>13. CASE Return
      BY <1>2, <2>2, <3>13, ReturnKeeps
    <3> QED
      BY <2>2, <3>1, <3>2, <3>3, <3>4, <3>5, <3>6, <3>7, <3>8, <3>9, <3>10, <3>11, <3>12, <3>13, Zenon DEF Serve
  <2> QED
    BY <1>2, <2>1, <2>2 DEF Next
<1>3. ASSUME ServingInv, UNCHANGED vars
      PROVE  ServingInv'
  BY <1>3 DEF vars, buildVars, requestVars, ServingInv, LoadedInv, PassageInv, SelectedInv, WritersInv, SentInv,
              EndInv, Routed, TheSite, Trusted
<1> QED
  BY <1>1, <1>2, <1>3, PTL DEF Spec

\* The route that is selected is the best of those that match, by either lookup.
LEMMA SelectionFound == ServingInv => SelectionAgrees
<1> SUFFICES ASSUME ServingInv, site # 0
             PROVE  LET routes == TheSite.routes
                    IN /\ route = BestRoute(routes, Routed(request))
                       /\ route = SelectByScan(routes, Routed(request), Trusted)
                       /\ route = SelectByIndex(routes, Routed(request), Trusted)
  BY DEF SelectionAgrees
<1>1. PICK routes : routes = TheSite.routes
  OBVIOUS
<1>2. PICK req : req = Routed(request)
  OBVIOUS
<1>3. /\ pc # "idle" /\ phase = "built" /\ config \in Configs /\ request \in Traffic(config)
      /\ site = SelectSite(config.sites, NormalizeHost(request.host))
      /\ route = SelectRoute(routes, req, Trusted)
  BY <1>1, <1>2 DEF ServingInv, LoadedInv, PassageInv, SelectedInv
<1>4. site \in DOMAIN config.sites
  <2>1. PICK n \in Nat : n > 0 /\ DOMAIN config.sites = 1 .. n
    BY <1>3, ConfigDecoded
  <2> QED
    BY <1>3, <2>1, SelectedSite
<1>5. PICK n \in Nat : DOMAIN routes = 1 .. n
  BY <1>1, <1>3, <1>4, ConfigDecoded DEF TheSite
<1>6. \A i \in DOMAIN routes : RouteCounts(routes[i])
  BY <1>1, <1>3, <1>4, RoutesDecoded DEF TheSite
<1>7. Ordered(routes)
  BY <1>5, <1>6, RoutesOrdered
<1>8. req.url.path \in Seq(STRING)
  <2>1. "url" \in DOMAIN request /\ request.url.path \in Seq(STRING)
    BY <1>3, TrafficAssumption DEF URLShape
  <2>2. req.url = request.url
    BY <1>2, <2>1 DEF Routed
  <2> QED
    BY <2>1, <2>2
<1>9. PICK best : best = BestRoute(routes, req)
  OBVIOUS
<1>10. \A r : IsBest(routes, Matching(routes, req, Trusted), r) => r = best
  <2>1. PICK some : some = Matching(routes, req, Trusted)
    OBVIOUS
  <2>2. best = TheBest(routes, some)
    <3>1. BestRoute(routes, req) = TheBest(routes, Matching(routes, req, Trusted))
      BY Zenon DEF BestRoute, Matching, TheBest
    <3> QED
      BY <1>9, <2>1, <3>1
  <2>3. some \subseteq DOMAIN routes
    BY <2>1 DEF Matching
  <2> QED
    BY <1>7, <2>1, <2>2, <2>3, OneIsBest
<1>11. SelectByScan(routes, req, Trusted) = best
  BY <1>5, <1>7, <1>10, ScanIsBest
<1>12. SelectByIndex(routes, req, Trusted) = best
  BY <1>5, <1>6, <1>7, <1>8, <1>10, IndexIsBest
<1>13. route = best
  BY <1>3, <1>11, <1>12 DEF SelectRoute
<1> QED
  BY <1>1, <1>2, <1>9, <1>11, <1>12, <1>13

-----------------------------------------------------------------------------
(* The theorems.                                                           *)

\* The site of a request is the first of those that ask for its host most
\* specifically: the lookup by the shape of the host never prefers a
\* wildcard or "*" to a better pattern of another site (newRouter, selectSite).
THEOREM SitesAreMostSpecific == Spec => []SiteIsMostSpecific
<1>1. ServingInv => SiteIsMostSpecific
  <2>1. SUFFICES ASSUME ServingInv, site # 0
                 PROVE  site = MostSpecificSite(NormalizeHost(request.host))
    BY DEF SiteIsMostSpecific
  <2>2. config \in Configs /\ site = SelectSite(config.sites, NormalizeHost(request.host))
    BY <2>1 DEF ServingInv, LoadedInv, PassageInv, SelectedInv
  <2>3. NormalizeHost(request.host) \in Seq(STRING)
    BY <2>1, TrafficAssumption DEF ServingInv, LoadedInv, PassageInv, SelectedInv, NormalizeHost
  <2> QED
    BY <2>1, <2>2, <2>3, MostSpecificFound
<1> QED
  BY <1>1, ServingInvariance, PTL

\* Whatever the routes of a site and their number, the indexed and the linear
\* lookup select the same one, and it beats every other that matches
\* (buildRouteIndex, selectRoute, betterRoute).
THEOREM SelectionsAgree == Spec => []SelectionAgrees
BY SelectionFound, ServingInvariance, PTL

\* One request has one ID, once in every header block, in no trailer, and in the
\* record; whatever goes upstream as an ID is that one (OneID).
THEOREM ResponsesHaveOneID == Spec => []OneID
<1>1. ServingInv => OneID
  <2>1. SUFFICES ASSUME ServingInv, config.id, pc # "idle" PROVE OneID
    BY DEF OneID
  <2>2. IDsInv(writer)
    BY <2>1 DEF ServingInv, WritersInv, EndInv, WriterInv, CoreInv
  <2>3. pc = "finished" /\ HasID(writer) => "id" \notin Trailers(writer)
    BY <2>1, <2>2 DEF ServingInv, EndInv, IDsInv, Trailers
  <2>4. IsSet(sent) => HasID(writer) /\ ToSet(sent.ids) = {writer.id}
    BY <2>1 DEF ServingInv, SentInv
  <2>5. \A i \in DOMAIN log : log[i].id = writer.id
    <3>1. CASE pc # "finished"
      BY <2>1, <3>1 DEF ServingInv, PassageInv
    <3>2. CASE pc = "finished"
      <4>1. PICK r : log \in {<<>>, <<r>>} /\ r.id = writer.id
        BY <2>1, <3>2 DEF ServingInv, EndInv
      <4> QED
        BY <4>1
    <3> QED
      BY <3>1, <3>2
  <2> QED
    BY <2>2, <2>3, <2>4, <2>5 DEF OneID, IDsInv
<1> QED
  BY <1>1, ServingInvariance, PTL

\* There is one record of a response, and it has the status and the bytes that
\* were sent (RecordTellsTheResponse).
THEOREM RecordsTellResponses == Spec => []RecordTellsTheResponse
<1>1. ServingInv => RecordTellsTheResponse
  <2>1. SUFFICES ASSUME ServingInv, pc = "finished" PROVE RecordTellsTheResponse
    BY Zenon DEF RecordTellsTheResponse
  <2>2. PICK terminal : terminal = {i \in DOMAIN writer.blocks : Terminal(writer.blocks[i].status)}
    OBVIOUS
  <2>3. PICK status : status = IF terminal # {} THEN writer.blocks[Min(terminal)].status
                               ELSE IF writer.taken THEN 101 ELSE 500
    OBVIOUS
  <2>4. status = StatusOfResponse(writer)
    BY <2>1, <2>2, <2>3, OneFinalBlock DEF ServingInv, EndInv
  <2>5. log = IF ~config.log THEN <<>>
              ELSE <<[status |-> status, bytes |-> writer.sent, id |-> writer.id, path |-> PathOrSlash(request.url)]>>
    BY <2>1, <2>4 DEF ServingInv, EndInv, PassageInv
  <2> QED
    BY <2>2, <2>3, <2>5 DEF RecordTellsTheResponse
<1> QED
  BY <1>1, ServingInvariance, PTL

-----------------------------------------------------------------------------
(* The next hop.                                                           *)

\* What an address is trusted as does not depend on its form, nor does it become
\* trusted by those who trust kubio.
Itself == {[span |-> {Kubio.n}, form |-> Kubio.form, wide |-> FALSE]}

LEMMA UnmapOnce ==
    ASSUME NEW a \in Address, NEW trusted
    PROVE  /\ IsTrustedProxy(Unmap(a), trusted) <=> IsTrustedProxy(a, trusted)
           /\ IsTrustedProxy(a, trusted \cup Itself) <=> IsTrustedProxy(a, trusted)
           /\ ~IsTrustedProxy(a, Itself)
<1>1. a.n # Kubio.n /\ a.form \in {"v4", "mapped", "invalid"} /\ a = [n |-> a.n, form |-> a.form]
  BY DEF Address
<1>2. PICK u : u = Unmap(a)
  OBVIOUS
<1>3. u.n = a.n /\ u.form # "mapped"
  BY <1>1, <1>2 DEF Unmap
<1>4. Unmap(u) = u
  BY <1>3 DEF Unmap
<1>5. \A p \in Itself : ~InPrefix(p, u)
  BY <1>1, <1>3 DEF Itself, InPrefix
<1> QED
  BY <1>2, <1>4, <1>5 DEF IsTrustedProxy

\* The greatest number up to one of them.
LEMMA MaxOfAll ==
    ASSUME NEW n \in Nat, NEW S, S \subseteq 0 .. n, n \in S
    PROVE  Max(S) = n
<1>1. Max(S) \in S /\ \A i \in S : Max(S) >= i
  BY MaxIsIn
<1>2. Max(S) \in 0 .. n /\ Max(S) >= n
  BY <1>1
<1> QED
  BY <1>2

\* Of request r, of which it is told, the next hop has request next.
Agree(r, trusted, told, next) ==
    /\ EffectiveClientIP(next, trusted \cup Itself) = EffectiveClientIP(r, trusted)
    /\ NoAddress \notin ToSet(told) => EffectiveClientIP(next, Itself) = Unmap(r.peer)

\* The next hop is told of the peer, and of those whom it forwards for if it is
\* trusted; either way it finds the client whom kubio finds.
LEMMA NextHopFinds ==
    ASSUME NEW r, {"peer", "forwarded"} \subseteq DOMAIN r, r.peer \in Address, r.forwarded \in Seq(Address),
           NEW trusted, NEW told, told = SetForwardedHeaders(r, trusted).forwarded,
           NEW next, next = [r EXCEPT !.peer = Kubio, !.forwarded = told]
    PROVE  Agree(r, trusted, told, next)
<1> DEFINE Hops(s, those) == {i \in DOMAIN s : ~IsTrustedProxy(s[i], those)}
           Found(s, those) == IF NoAddress \in ToSet(s) \/ Hops(s, those) = {} THEN NoAddress
                              ELSE Unmap(s[Max(Hops(s, those))])
           Final == Len(told)
<1>1. next.peer = Kubio /\ next.forwarded = told
  OBVIOUS
<1>2. /\ Kubio # NoAddress /\ Unmap(Kubio) = Kubio
      /\ IsTrustedProxy(Kubio, Itself) /\ IsTrustedProxy(Kubio, trusted \cup Itself)
  <2>1. Kubio # NoAddress /\ Unmap(Kubio) = Kubio
    BY DEF Kubio, NoAddress, Unmap
  <2>2. PICK p \in Itself : p.form = Kubio.form /\ p.span = {Kubio.n}
    BY DEF Itself
  <2>3. InPrefix(p, Unmap(Kubio))
    BY <2>1, <2>2 DEF InPrefix
  <2> QED
    BY <2>1, <2>3 DEF IsTrustedProxy
<1>3. /\ EffectiveClientIP(next, trusted \cup Itself) = Found(told, trusted \cup Itself)
      /\ EffectiveClientIP(next, Itself) = Found(told, Itself)
  BY <1>1, <1>2 DEF EffectiveClientIP
<1>4. Unmap(NoAddress) = NoAddress
  BY DEF Unmap, NoAddress
<1>5. r.peer \in Address /\ (IsTrustedProxy(Unmap(r.peer), trusted) <=> IsTrustedProxy(r.peer, trusted))
  BY UnmapOnce
<1>6. CASE r.peer = NoAddress
  <2>1. told = <<>>
    BY <1>6 DEF SetForwardedHeaders
  <2>2. \A those : Found(told, those) = NoAddress
    BY <2>1
  <2>3. EffectiveClientIP(r, trusted) = NoAddress
    BY <1>4, <1>6 DEF EffectiveClientIP
  <2> HIDE DEF Found
  <2> QED
    BY <1>3, <1>4, <1>6, <2>2, <2>3 DEF Agree
<1>7. CASE r.peer # NoAddress
  <2>1. PICK before : before = IF IsTrustedProxy(r.peer, trusted) THEN r.forwarded ELSE <<>>
    OBVIOUS
  <2>2. /\ before \in Seq(Address)
        /\ told = before \o <<r.peer>>
        /\ before = IF IsTrustedProxy(r.peer, trusted) THEN r.forwarded ELSE <<>>
    <3>1. <<>> \o <<r.peer>> = <<r.peer>> /\ <<>> \in Seq(Address)
      OBVIOUS
    <3> QED
      BY <1>7, <2>1, <3>1 DEF SetForwardedHeaders
  <2>3. /\ told \in Seq(Address) /\ Len(told) = Len(before) + 1 /\ Len(before) \in Nat
        /\ DOMAIN told = 1 .. Len(before) + 1 /\ DOMAIN before = 1 .. Len(before)
        /\ \A i \in DOMAIN before : told[i] = before[i]
        /\ told[Len(before) + 1] = r.peer
    BY <2>2
  <2>4. \A i \in DOMAIN told : told[i] \in Address
    BY <2>3
  <2>5. Hops(told, trusted \cup Itself) = Hops(told, trusted)
    BY <2>4, UnmapOnce
  <2>6. Hops(told, Itself) = DOMAIN told
    BY <2>4, UnmapOnce
  <2>7. Max(DOMAIN told) = Len(before) + 1 /\ DOMAIN told # {}
    <3>1. Len(before) + 1 \in Nat /\ DOMAIN told \subseteq 0 .. Len(before) + 1 /\ Len(before) + 1 \in DOMAIN told
      BY <2>3
    <3> QED
      BY <3>1, MaxOfAll
  <2>8. NoAddress \notin ToSet(told) => Found(told, Itself) = Unmap(r.peer)
    <3> HIDE DEF Hops
    <3> QED
      BY <2>3, <2>6, <2>7
  <2>9. Found(told, trusted \cup Itself) = EffectiveClientIP(r, trusted)
    <3>1. CASE IsTrustedProxy(r.peer, trusted)
      <4>1. before = r.forwarded
        BY <2>2, <3>1
      <4>2. Hops(told, trusted) = Hops(r.forwarded, trusted)
        BY <2>3, <3>1, <4>1
      <4>3. NoAddress \in ToSet(told) <=> NoAddress \in ToSet(r.forwarded)
        BY <1>7, <2>3, <4>1 DEF ToSet
      <4>4. Found(told, trusted) = Found(r.forwarded, trusted)
        <5>1. Hops(r.forwarded, trusted) # {} => Max(Hops(r.forwarded, trusted)) \in DOMAIN before
          <6>1. Len(before) \in Nat /\ Hops(r.forwarded, trusted) \subseteq 0 .. Len(before)
                /\ Hops(r.forwarded, trusted) \subseteq DOMAIN before
            BY <2>3, <4>1
          <6> HIDE DEF Hops
          <6> QED
            BY <6>1, MaxIsIn
        <5> HIDE DEF Hops
        <5> QED
          BY <2>3, <4>1, <4>2, <4>3, <5>1
      <4>5. EffectiveClientIP(r, trusted) = Found(r.forwarded, trusted)
        BY <1>5, <1>7, <3>1 DEF EffectiveClientIP
      <4>6. Found(told, trusted \cup Itself) = Found(told, trusted)
        <5> HIDE DEF Hops
        <5> QED
          BY <2>5
      <4> HIDE DEF Found
      <4> QED
        BY <4>4, <4>5, <4>6
    <3>2. CASE ~IsTrustedProxy(r.peer, trusted)
      <4>1. told = <<r.peer>> /\ before = <<>>
        BY <2>2, <3>2
      <4>2. Hops(told, trusted) = DOMAIN told
        BY <3>2, <4>1
      <4>3. NoAddress \notin ToSet(told)
        BY <1>7, <4>1 DEF ToSet
      <4>4. EffectiveClientIP(r, trusted) = Unmap(r.peer)
        BY <1>5, <1>7, <3>2 DEF EffectiveClientIP
      <4>5. Found(told, trusted \cup Itself) = Unmap(r.peer)
        <5> HIDE DEF Hops
        <5> QED
          BY <2>3, <2>5, <2>7, <4>2, <4>3
      <4> QED
        BY <4>4, <4>5
    <3> QED
      BY <3>1, <3>2
  <2> HIDE DEF Found
  <2> QED
    BY <1>3, <2>8, <2>9 DEF Agree
<1> QED
  BY <1>6, <1>7

\* Whom kubio takes for the client, the next hop does (NextHopAgrees).
THEOREM NextHopsAgree == Spec => []NextHopAgrees
<1>1. ServingInv => NextHopAgrees
  <2>1. SUFFICES ASSUME ServingInv, IsSet(sent) PROVE NextHopAgrees
    BY DEF NextHopAgrees
  <2>2. /\ request \in Traffic(config) /\ config \in Configs
        /\ sent.forwarded = SetForwardedHeaders(request, Trusted).forwarded
    BY <2>1 DEF ServingInv, SentInv, PassageInv, LoadedInv
  <2>3. /\ {"peer", "forwarded"} \subseteq DOMAIN request
        /\ request.peer \in Address /\ request.forwarded \in Seq(Address)
    BY <2>2, TrafficAssumption
  <2>4. PICK next : next = [request EXCEPT !.peer = Kubio, !.forwarded = sent.forwarded]
    OBVIOUS
  <2>5. Agree(request, Trusted, sent.forwarded, next)
    BY <2>2, <2>3, <2>4, NextHopFinds
  <2> QED
    BY <2>4, <2>5 DEF NextHopAgrees, Itself, Agree
<1> QED
  BY <1>1, ServingInvariance, PTL
-----------------------------------------------------------------------------
(* The path of a request.                                                  *)

\* What TextsAssumption and TrafficAssumption say of patterns and URLs.
LEMMA ShapedPattern ==
    ASSUME NEW pattern, PatternShape(pattern)
    PROVE  IsPattern(pattern)
<1>1. pattern.path \in Seq(Byte)
  <2>1. pattern.path \in Seq(STRING)
    BY DEF PatternShape
  <2> QED
    BY <2>1, StringsAreBytes
<1> QED
  BY <1>1 DEF PatternShape, IsPattern

\* A URL of that shape is parsed.
LEMMA ShapedURL ==
    ASSUME NEW u, URLShape(u)
    PROVE  Parsed(u)
<1>1. u.path \in Seq(STRING) /\ u.raw \in Seq([byte : STRING, encoded : BOOLEAN]) /\ u = [path |-> u.path, raw |-> u.raw]
  BY DEF URLShape
<1>2. u.path \in Seq(Byte) /\ u.raw \in Seq(RawByte)
  BY <1>1, StringsAreBytes
<1>3. u \in URL
  BY <1>1, <1>2 DEF URL
<1> QED
  BY <1>3 DEF Parsed, URLShape

\* A route that rewrites does not strip (decodeConfig).
LEMMA RoutePatterns ==
    ASSUME NEW c \in Configs, NEW i \in DOMAIN c.sites, NEW j \in DOMAIN c.sites[i].routes,
           NEW r, r = c.sites[i].routes[j]
    PROVE  IsPattern(r.pattern) /\ (IsSet(r.rewrite) => IsPattern(r.rewrite) /\ ~r.strip)
<1>1. PICK text \in Texts : LoadsConfig(text) /\ c = DecodeConfig(text)
  BY DEF Configs
<1>2. /\ {"sites", "log"} \subseteq DOMAIN text
      /\ \A k \in DOMAIN text.sites :
            /\ {"routes", "hosts"} \subseteq DOMAIN text.sites[k]
            /\ \A m \in DOMAIN text.sites[k].routes : RouteShape(text.sites[k].routes[m])
  BY <1>1, TextsAssumption
<1>3. c.sites = [k \in DOMAIN text.sites |-> DecodeSite(text.sites[k])]
  BY <1>1, <1>2 DEF DecodeConfig
<1>4. i \in DOMAIN text.sites /\ c.sites[i] = DecodeSite(text.sites[i])
  BY <1>3
<1>5. c.sites[i].routes = [m \in DOMAIN text.sites[i].routes |-> DecodeRoute(text.sites[i].routes[m])]
  BY <1>2, <1>4 DEF DecodeSite
<1>6. PICK t : t = text.sites[i].routes[j]
  OBVIOUS
<1>7. j \in DOMAIN text.sites[i].routes /\ r = DecodeRoute(t)
  BY <1>5, <1>6
<1>8. RouteShape(t)
  BY <1>2, <1>4, <1>6, <1>7
<1>9. LoadsRoute(t, text.sites[i])
  <2>1. LoadsSite(text.sites[i])
    BY <1>1, <1>4 DEF LoadsConfig
  <2> QED
    BY <1>6, <1>7, <2>1 DEF LoadsSite
<1>10. r.pattern = t.pattern /\ r.rewrite = t.rewrite /\ r.strip = t.strip
  BY <1>7 DEF DecodeRoute
<1>11. ~(IsSet(t.rewrite) /\ t.strip)
  BY <1>9 DEF LoadsRoute
<1>12. PatternShape(t.pattern) /\ (IsSet(t.rewrite) => PatternShape(t.rewrite))
  BY <1>8 DEF RouteShape
<1> QED
  BY <1>10, <1>11, <1>12, ShapedPattern

\* The pattern of a route that is selected matches the path.
LEMMA SelectedMatches ==
    ASSUME ServingInv, site # 0, route # 0
    PROVE  /\ site \in DOMAIN config.sites /\ route \in DOMAIN TheSite.routes
           /\ PathMatches(TheRoute.pattern, request.url.path)
<1>1. PICK routes : routes = TheSite.routes
  OBVIOUS
<1>2. PICK req : req = Routed(request)
  OBVIOUS
<1>3. /\ config \in Configs /\ request \in Traffic(config)
      /\ site = SelectSite(config.sites, NormalizeHost(request.host))
  BY DEF ServingInv, LoadedInv, PassageInv, SelectedInv
<1>4. site \in DOMAIN config.sites
  <2>1. PICK n \in Nat : n > 0 /\ DOMAIN config.sites = 1 .. n
    BY <1>3, ConfigDecoded
  <2> QED
    BY <1>3, <2>1, SelectedSite
<1>5. PICK n \in Nat : DOMAIN routes = 1 .. n
  BY <1>1, <1>3, <1>4, ConfigDecoded DEF TheSite
<1>6. route = SelectByScan(routes, req, Trusted)
  <2>1. SelectionAgrees
    BY SelectionFound
  <2> QED
    BY <1>1, <1>2, <2>1 DEF SelectionAgrees
<1>7. req.url = request.url
  <2>1. "url" \in DOMAIN request
    BY <1>3, TrafficAssumption
  <2> QED
    BY <1>2, <2>1 DEF Routed
<1>8. PICK S : S = {i \in DOMAIN routes : PathMatches(routes[i].pattern, req.url.path)}
  OBVIOUS
<1>9. route \in {0} \cup S
  <2>1. S \subseteq 0 .. n
    BY <1>5, <1>8
  <2>2. BestOf(routes, S, req, Trusted, 0) \in {0} \cup S
    BY <2>1, BestOfMember
  <2> QED
    BY <1>6, <1>8, <2>2 DEF SelectByScan
<1>10. route \in DOMAIN routes /\ PathMatches(routes[route].pattern, req.url.path)
  BY <1>8, <1>9
<1> QED
  BY <1>1, <1>4, <1>7, <1>10 DEF TheRoute

\* So its path is a prefix of it.
LEMMA MatchIsPrefix ==
    ASSUME NEW pattern, pattern.path \in Seq(Byte), NEW path \in Seq(Byte), PathMatches(pattern, path)
    PROVE  IsPrefix(pattern.path, path)
<1>1. PICK p \in Seq(Byte) : p = pattern.path
  OBVIOUS
<1>2. path = p \/ p = <<>> \/ IsPrefix(p \o <<"/">>, path)
  BY <1>1 DEF PathMatches
<1>3. CASE path = p
  BY <1>1, <1>3 DEF IsPrefix
<1>4. CASE p = <<>>
  BY <1>1, <1>4 DEF IsPrefix
<1>5. CASE IsPrefix(p \o <<"/">>, path)
  <2>1. Len(p) + 1 <= Len(path) /\ \A i \in 1 .. Len(p) + 1 : (p \o <<"/">>)[i] = path[i]
    BY <1>5 DEF IsPrefix
  <2>2. \A i \in 1 .. Len(p) : p[i] = path[i]
    BY <2>1
  <2>3. SubSeq(p, 1, Len(p)) = SubSeq(path, 1, Len(p))
    BY <2>1, <2>2
  <2> QED
    BY <1>1, <2>1, <2>3 DEF IsPrefix
<1> QED
  BY <1>1, <1>2, <1>3, <1>4, <1>5

\* Until it is proxied a request keeps its URL.
URLInv == pc \in {"admitted", "rejected", "selected"} => url = request.url

\* What a proxy sends has the path that is wanted.
LEMMA ProxyArrives ==
    ASSUME ServingInv, URLInv, Proxy
    PROVE  PathReachesUpstream'
<1>1. /\ pc = "selected" /\ url = request.url /\ site # 0
      /\ config \in Configs /\ request \in Traffic(config)
  BY DEF Proxy, Proxied, URLInv, ServingInv, SelectedInv, LoadedInv, PassageInv
<1>2. PICK u : u = request.url
  OBVIOUS
<1>3. Parsed(u)
  <2>1. URLShape(request.url)
    BY <1>1, TrafficAssumption
  <2> QED
    BY <1>2, <2>1, ShapedURL
<1>4. u \in URL /\ u.path \in Seq(Byte)
  BY <1>3 DEF Parsed, URL
<1>5. PICK came : came = EscapedPath(u)
  OBVIOUS
<1>6. came \in Seq(RawByte)
  BY <1>4, <1>5, WrittenPath
<1>7. PICK w : w = WantedPath
  OBVIOUS
<1>8. PICK e : e = EscapedPath(Outgoing(url'))
  OBVIOUS
<1>9. url' = IF route # 0 /\ TheRoute.strip THEN StripRequestPath(u, TheRoute.pattern.path) ELSE u
  BY <1>1, <1>2 DEF Proxy
<1>10. IF u.raw = <<>> \/ ValidRawPath(u) THEN e = w ELSE IsSuffix(Decode(w), Decode(e))
  <2>1. ASSUME e = w, w \in Seq(RawByte)
        PROVE  IF u.raw = <<>> \/ ValidRawPath(u) THEN e = w ELSE IsSuffix(Decode(w), Decode(e))
    <3>1. Decode(w) \in Seq(Byte)
      BY <2>1, DecodedPath
    <3>2. IsSuffix(Decode(w), Decode(e))
      BY <2>1, <3>1, SuffixOf
    <3> QED
      BY <2>1, <3>2
  <2>2. ASSUME w = Rooted(came), url' = u, ~(route # 0 /\ IsSet(TheRoute.rewrite))
        PROVE  e = w /\ w \in Seq(RawByte)
    <3>1. e = EscapedPath(JoinTarget(u))
      BY <1>8, <2>2 DEF Outgoing
    <3>2. e = Rooted(came)
      BY <1>4, <1>5, <3>1, JoinWritten
    <3> QED
      BY <1>6, <2>2, <3>2, RootedPath
  <2>3. CASE route = 0
    <3>1. w = Rooted(came)
      BY <1>2, <1>5, <1>7, <2>3 DEF WantedPath
    <3> QED
      BY <1>9, <2>1, <2>2, <2>3, <3>1
  <2>4. CASE route # 0
    <3>1. /\ site \in DOMAIN config.sites /\ route \in DOMAIN TheSite.routes
          /\ PathMatches(TheRoute.pattern, u.path)
      BY <1>1, <1>2, <2>4, SelectedMatches
    <3>2. IsPattern(TheRoute.pattern) /\ (IsSet(TheRoute.rewrite) => IsPattern(TheRoute.rewrite) /\ ~TheRoute.strip)
      BY <1>1, <3>1, RoutePatterns DEF TheRoute, TheSite
    <3>3. PICK source : source = TheRoute.pattern
      OBVIOUS
    <3>4. IsPattern(source) /\ source.path \in Seq(Byte) /\ PathMatches(source, u.path)
      BY <3>1, <3>2, <3>3 DEF IsPattern
    <3>5. IsPrefix(source.path, u.path)
      BY <1>4, <3>4, MatchIsPrefix
    <3>6. CASE IsSet(TheRoute.rewrite)
      <4>1. PICK to : to = TheRoute.rewrite /\ IsPattern(to)
        BY <3>2, <3>6
      <4>2. url' = u
        BY <1>9, <3>2, <3>6
      <4>3. PICK v : v = RewriteProxyPath(u, source, to)
        OBVIOUS
      <4>4. e = EscapedPath(v)
        BY <1>8, <2>4, <3>3, <3>6, <4>1, <4>2, <4>3 DEF Outgoing
      <4>5. PICK x : x = RewrittenPath(u, source, to)
        OBVIOUS
      <4>6. w = IF x = <<>> THEN Escape(<<"/">>) ELSE x
        BY <1>2, <1>5, <1>7, <2>4, <3>3, <3>6, <4>1, <4>5 DEF WantedPath, RewrittenPath
      <4>7. x \in Seq(RawByte) /\ e = IF x = <<>> THEN <<Slash>> ELSE x
        <5>1. Parsed(u) /\ IsPattern(source) /\ IsPattern(to) /\ (source.wildcard => IsPrefix(source.path, u.path))
          BY <1>3, <3>4, <3>5, <4>1
        <5>2. x \in Seq(RawByte) /\ EscapedPath(RewriteProxyPath(u, source, to)) = IF x = <<>> THEN <<Slash>> ELSE x
          BY <4>5, <5>1, RewriteWritten
        <5> QED
          BY <4>3, <4>4, <5>2
      <4>8. e = w
        BY <4>6, <4>7, SlashWritten
      <4>9. e \in Seq(RawByte)
        BY <4>7, SlashWritten
      <4> QED
        BY <2>1, <4>8, <4>9
    <3>7. CASE ~IsSet(TheRoute.rewrite) /\ TheRoute.strip
      <4>1. e = EscapedPath(JoinTarget(StripRequestPath(u, source.path)))
        BY <1>8, <1>9, <2>4, <3>3, <3>7 DEF Outgoing
      <4>2. w = Rooted(Drop(came, Len(source.path)))
        BY <1>2, <1>5, <1>7, <2>4, <3>3, <3>7 DEF WantedPath
      <4> QED
        BY <1>3, <1>5, <3>4, <3>5, <4>1, <4>2, StrippedArrives
    <3>8. CASE ~IsSet(TheRoute.rewrite) /\ ~TheRoute.strip
      <4>1. w = Rooted(came)
        BY <1>2, <1>5, <1>7, <2>4, <3>8 DEF WantedPath
      <4>2. url' = u
        BY <1>9, <3>8
      <4> QED
        BY <2>1, <2>2, <3>8, <4>1, <4>2
    <3> QED
      BY <3>6, <3>7, <3>8
  <2> QED
    BY <2>3, <2>4
<1>11. /\ request' = request /\ WantedPath' = w /\ sent'.url = Outgoing(url')
  <2>1. UNCHANGED <<buildVars, request, site, route>>
    BY DEF Proxy
  <2>2. WantedPath' = WantedPath
    BY <2>1 DEF WantedPath, TheRoute, TheSite, buildVars
  <2>3. sent'.url = Outgoing(url')
    BY DEF Proxy
  <2> QED
    BY <1>7, <2>1, <2>2, <2>3
<1> QED
  BY <1>2, <1>8, <1>10, <1>11 DEF PathReachesUpstream

\* Every byte of the rest of the path is sent upstream as the client wrote it,
\* or, where it must not stand as it was written, means what it meant
\* (StripRequestPath, rewriteProxyPath).
THEOREM PathsReachUpstream == Spec => []PathReachesUpstream
<1>1. Init => URLInv /\ PathReachesUpstream
  BY DEF Init, URLInv, PathReachesUpstream, IsSet
<1>2. ASSUME ServingInv, URLInv, PathReachesUpstream, Next
      PROVE  URLInv' /\ PathReachesUpstream'
  <2>1. CASE Build /\ UNCHANGED requestVars
    <3>1. phase # "built"
      BY <2>1 DEF Build, LoadConfig, LoadFails, ReplaceFile, ProxiesRefused, Refuse, BackendReads, BackendBuilt,
                  BackendRefused, AtBackend, ReadFile, BackendsBuilt, StepReads, StepWithoutTransport,
                  StepWithTransport, StepRefused, AtStep, SitesBuilt
    <3>2. pc = "idle" /\ pc' = "idle" /\ sent' = sent /\ ~IsSet(sent)
      BY <1>2, <2>1, <3>1 DEF requestVars, ServingInv, PassageInv, SentInv
    <3> QED
      BY <3>2 DEF URLInv, PathReachesUpstream, IsSet
  <2>2. CASE Proxy
    <3>1. pc' = "trip"
      BY <2>2 DEF Proxy
    <3> QED
      BY <1>2, <2>2, <3>1, ProxyArrives DEF URLInv
  <2>3. ASSUME NEW r \in Traffic(config), FailID(r) \/ \E admitted \in BOOLEAN : Enter(r, admitted)
        PROVE  URLInv' /\ PathReachesUpstream'
    <3>1. pc = "idle" /\ sent' = sent /\ url' = r.url /\ request' = r
      BY <2>3 DEF FailID, Enter
    <3>2. ~IsSet(sent)
      BY <1>2, <3>1 DEF ServingInv, SentInv
    <3> QED
      BY <3>1, <3>2 DEF URLInv, PathReachesUpstream, IsSet
  <2>4. CASE Select \/ ServeGeneralOptions \/ ServeNotFound
    <3>1. pc = "admitted" /\ sent' = sent /\ url' = url /\ request' = request
      BY <2>4 DEF Select, ServeGeneralOptions, ServeNotFound, Respond
    <3>2. ~IsSet(sent)
      BY <1>2, <3>1 DEF ServingInv, SentInv
    <3> QED
      BY <1>2, <3>1, <3>2 DEF URLInv, PathReachesUpstream, IsSet
  <2>5. ASSUME UNCHANGED <<config, request, site, route, sent>>, pc' \notin {"admitted", "rejected", "selected"}
        PROVE  URLInv' /\ PathReachesUpstream'
    BY <1>2, <2>5 DEF URLInv, PathReachesUpstream, WantedPath, TheRoute, TheSite
  <2>6. ASSUME NEW w, Respond(w)
        PROVE  URLInv' /\ PathReachesUpstream'
    <3>1. UNCHANGED <<config, request, site, route, sent>> /\ pc' = "return"
      BY <2>6 DEF Respond, buildVars
    <3> QED
      BY <2>5, <3>1
  <2>7. CASE Reject \/ ServeGenerated \/ RoundTripFails \/ UpgradeMismatch \/ BodyFails
    BY <2>6, <2>7, Zenon DEF Reject, ServeGenerated, RoundTripFails, UpgradeMismatch, BodyFails
  <2>8. ASSUME NEW error, ModifyFails(error) \/ UpgradeFails(error)
        PROVE  URLInv' /\ PathReachesUpstream'
    BY <2>6, <2>8, Zenon DEF ModifyFails, UpgradeFails
  <2>9. ASSUME NEW written, Upgrade(written)
        PROVE  URLInv' /\ PathReachesUpstream'
    BY <2>6, <2>9, Zenon DEF Upgrade
  <2>10. ASSUME NEW flush, CopyTrailers(flush)
         PROVE  URLInv' /\ PathReachesUpstream'
    BY <2>6, <2>10, Zenon DEF CopyTrailers
  <2>11. CASE Informational \/ ModifyResponse \/ CopyResponse \/ Return
    <3>1. /\ UNCHANGED <<config, request, site, route, sent>>
          /\ pc' \notin {"admitted", "rejected", "selected"}
      BY <2>11 DEF Informational, ModifyResponse, CopyResponse, Return, buildVars
    <3> QED
      BY <2>5, <3>1
  <2>12. ASSUME NEW flush, CopyBody(flush)
         PROVE  URLInv' /\ PathReachesUpstream'
    <3>1. /\ UNCHANGED <<config, request, site, route, sent>>
          /\ pc' \notin {"admitted", "rejected", "selected"}
      BY <2>12 DEF CopyBody, buildVars
    <3> QED
      BY <2>5, <3>1
  <2>13. CASE Serve
    BY <2>2, <2>3, <2>4, <2>7, <2>8, <2>9, <2>10, <2>11, <2>12, <2>13, Zenon DEF Serve
  <2> QED
    BY <1>2, <2>1, <2>13 DEF Next
<1>3. ASSUME URLInv, PathReachesUpstream, UNCHANGED vars
      PROVE  URLInv' /\ PathReachesUpstream'
  BY <1>3 DEF vars, buildVars, requestVars, URLInv, PathReachesUpstream, WantedPath, TheRoute, TheSite
<1> QED
  BY <1>1, <1>2, <1>3, ServingInvariance, PTL DEF Spec

=============================================================================
