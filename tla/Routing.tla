------------------------------- MODULE Routing -------------------------------
(***************************************************************************)
(* How router.go finds the site and the route of a request, and what path  *)
(* it sends upstream.  All of it is computed from a router that does not   *)
(* change once it is built.                                                *)
(*                                                                         *)
(* A host is a sequence of labels and the way it was written: plainly, or  *)
(* with a port, a final dot or capitals.  A path is a sequence of bytes of *)
(* which only "/" is special; a byte in Reserved must be percent-encoded.  *)
(* A raw path is a sequence of bytes each of which is written plainly or   *)
(* as %XX; <<>> is the RawPath of a path whose default encoding is meant.  *)
(***************************************************************************)
EXTENDS ClientAddress, Integers, FiniteSets

CONSTANTS RouteIndexThreshold,   \* routes of a site above which it is indexed
          Reserved               \* bytes that may not stand in a path unencoded

\* net/url writes a slash as it is.
ASSUME ReservedAssumption == "/" \notin Reserved

-----------------------------------------------------------------------------
(* Sites.                                                                  *)

NormalizeHost(host) == host.labels

HostMatches(pattern, host) ==
    \/ pattern.kind = "any"
    \/ pattern.kind = "exact" /\ host = pattern.labels
    \/ pattern.kind = "wildcard" /\ host # <<>> /\ Head(host) # "" /\ Tail(host) = pattern.labels

\* Mutation of Owner: a later site with the same pattern takes it over.
OwnerLast(sites, pattern) ==
    LET owners == {i \in DOMAIN sites : pattern \in sites[i].hosts}
    IN IF owners = {} THEN 0 ELSE Max(owners)

\* The maps of newRouter: the first site that has the pattern, or 0.
Owner(sites, pattern) ==
    LET owners == {i \in DOMAIN sites : pattern \in sites[i].hosts}
    IN IF owners = {} THEN 0 ELSE Min(owners)

AnyHost == [kind |-> "any", labels |-> <<>>]
Exact(labels) == [kind |-> "exact", labels |-> labels]
Wildcard(labels) == [kind |-> "wildcard", labels |-> labels]

\* A single site is asked whether any of its patterns matches; several are
\* looked up by what the host is, exactly, then below one label, then "*".
SelectSite(sites, host) ==
    IF Len(sites) = 1
    THEN IF \E p \in sites[1].hosts : HostMatches(p, host) THEN 1 ELSE 0
    ELSE LET exact == Owner(sites, Exact(host))
             below == IF Len(host) < 2 \/ Head(host) = "" THEN 0
                      ELSE Owner(sites, Wildcard(Tail(host)))
         IN IF exact # 0 THEN exact ELSE IF below # 0 THEN below ELSE Owner(sites, AnyHost)

-----------------------------------------------------------------------------
(* Routes.                                                                 *)

PathMatches(pattern, path) ==
    \/ path = pattern.path
    \/ /\ pattern.wildcard
       /\ pattern.path = <<>> \/ IsPrefix(pattern.path \o <<"/">>, path)

\* The slashes that are left after those at both ends are trimmed, plus one.
PathDepth(path) ==
    LET Inner(i) == /\ \E j \in 1..(i - 1) : path[j] # "/"
                    /\ \E j \in (i + 1)..Len(path) : path[j] # "/"
    IN IF path = <<>> \/ path = <<"/">> THEN 0
       ELSE Cardinality({i \in DOMAIN path : path[i] = "/" /\ Inner(i)}) + 1

\* The Host condition compares the host; the others any value of the header.
MatchesRequestHeader(req, name, alternatives) ==
    IF name = "Host" THEN req.host.labels # <<>> /\ req.host \in alternatives
    ELSE req.header[name] \cap alternatives # {}

MatchesQuery(req, query) ==
    query # <<>> => /\ req.queryValid
                    /\ \A name \in DOMAIN query : req.query[name] \cap query[name] # {}

MatchesClientIP(req, prefixes, trusted) ==
    LET client == EffectiveClientIP(req, trusted)
    IN client # NoAddress /\ \E p \in NormalizeIPPrefixes(prefixes) : InPrefix(p, client)

Matches(req, route, trusted) ==
    /\ route.methods # {} => req.method \in route.methods
    /\ \A name \in DOMAIN route.header : MatchesRequestHeader(req, name, route.header[name])
    /\ MatchesQuery(req, route.query)
    /\ route.ip # {} => MatchesClientIP(req, route.ip, trusted)

SumOver(alternatives) ==
    MapThenSumSet(LAMBDA name : Cardinality(alternatives[name]), DOMAIN alternatives)

ConditionCount(route) ==
    Cardinality(DOMAIN route.header) + Cardinality(DOMAIN route.query)
        + (IF route.ip = {} THEN 0 ELSE 1) + (IF route.methods = {} THEN 0 ELSE 1)
AlternativeCount(route) ==
    Cardinality(route.methods) + SumOver(route.header) + SumOver(route.query)
        + Cardinality(NormalizeIPPrefixes(route.ip))

\* Exact before wildcard, then the deeper pattern, more conditions, fewer
\* alternatives, and the one written later.
BetterRoute(routes, candidate, current) ==
    LET Rank(i) == <<IF routes[i].pattern.wildcard THEN 0 ELSE 1,
                     PathDepth(routes[i].pattern.path),
                     ConditionCount(routes[i]),
                     -AlternativeCount(routes[i]),
                     i>>
        a == Rank(candidate)
        b == Rank(current)
    IN \E k \in DOMAIN a : a[k] > b[k] /\ \A j \in 1..(k - 1) : a[j] = b[j]

\* What op makes of base and the members of a set of numbers, in their order.
FoldInOrder(op(_, _), base, numbers) ==
    MapThenFoldSet(op, base, LAMBDA i : i, LAMBDA s : Max(s), numbers)

\* The better of those of a set of routes that match, or `best`.
BestOf(routes, candidates, req, trusted, best) ==
    FoldInOrder(LAMBDA i, selected :
                    IF /\ Matches(req, routes[i], trusted)
                       /\ selected = 0 \/ BetterRoute(routes, i, selected)
                    THEN i ELSE selected, best, candidates)

SelectByScan(routes, req, trusted) ==
    BestOf(routes, {i \in DOMAIN routes : PathMatches(routes[i].pattern, req.url.path)}, req, trusted, 0)

\* buildRouteIndex: the routes with one pattern.
Bucket(routes, wildcard, path) ==
    {i \in DOMAIN routes : routes[i].pattern.wildcard = wildcard /\ routes[i].pattern.path = path}

Slashes(path) == {n \in 1 .. Len(path) - 1 : path[n + 1] = "/"}

\* Mutation of IndexedPrefixes: the wildcard whose prefix is the whole path is not looked up.
IndexedPrefixesShort(path) == {0} \cup Slashes(path)

\* The lengths of the prefixes of a path that a wildcard may name: of "", of
\* what stands before each slash but the first byte, and of the whole path.
IndexedPrefixes(path) == {0} \cup Slashes(path) \cup {Len(path)}

SelectByIndex(routes, req, trusted) ==
    LET path == req.url.path
        exact == BestOf(routes, Bucket(routes, FALSE, path), req, trusted, 0)
    IN IF exact # 0 THEN exact
       ELSE FoldInOrder(LAMBDA n, best : BestOf(routes, Bucket(routes, TRUE, SubSeq(path, 1, n)), req, trusted, best),
                        0, IndexedPrefixes(path))

SelectRoute(routes, req, trusted) ==
    IF Len(routes) > RouteIndexThreshold THEN SelectByIndex(routes, req, trusted)
    ELSE SelectByScan(routes, req, trusted)

-----------------------------------------------------------------------------
(* Paths.  A url has a decoded path and a raw path.                        *)

Decode(raw) == [i \in DOMAIN raw |-> raw[i].byte]
Escape(path) == [i \in DOMAIN path |-> [byte |-> path[i], encoded |-> path[i] \in Reserved]]
Drop(s, n) == SubSeq(s, n + 1, Len(s))

\* url.URL: a request line is decoded, and kept raw only where its encoding
\* is not the default one; EscapedPath is the inverse.
ParseURL(raw) == [path |-> Decode(raw), raw |-> IF raw = Escape(Decode(raw)) THEN <<>> ELSE raw]
EscapedPath(url) ==
    IF /\ url.raw # <<>>
       /\ \A i \in DOMAIN url.raw : url.raw[i].encoded \/ url.raw[i].byte \notin Reserved
       /\ Decode(url.raw) = url.path
    THEN url.raw ELSE Escape(url.path)

ValidRawPath(url) == url.raw # <<>> /\ EscapedPath(url) = url.raw /\ Decode(url.raw) = url.path

\* stripEscapedPathPrefix consumes as many bytes as the decoded prefix has.
StartsWith(raw, prefix) == IsPrefix(prefix, Decode(raw))

StripPathPrefix(path, prefix) ==
    LET rest == Drop(path, Len(prefix))
    IN IF prefix # <<>> /\ rest = <<>> THEN <<"/">> ELSE rest

\* Mutation of StripRequestPath: the raw path is left as it came.
StripRequestPathOnly(url, prefix) ==
    [path |-> StripPathPrefix(url.path, prefix), raw |-> url.raw]

StripRequestPath(url, prefix) ==
    [path |-> StripPathPrefix(url.path, prefix),
     raw  |-> IF url.raw = <<>> \/ prefix = <<>> THEN url.raw
              ELSE IF StartsWith(url.raw, prefix) THEN Drop(url.raw, Len(prefix)) ELSE <<>>]

RewriteRawPath(in, source, destination, path) ==
    LET consumed == IF source.wildcard THEN Len(source.path) ELSE Len(in.raw)
        raw == Escape(destination.path)
                   \o (IF destination.wildcard THEN Drop(in.raw, consumed) ELSE <<>>)
    IN IF /\ ValidRawPath(in)
          /\ source.wildcard => StartsWith(in.raw, source.path)
          /\ ValidRawPath([path |-> path, raw |-> raw])
       THEN raw ELSE <<>>

\* The destination with the suffix a wildcard source left over.
RewritePath(in, source, destination) ==
    LET suffix == IF source.wildcard THEN Drop(in.path, Len(source.path)) ELSE <<>>
        path == destination.path \o suffix
    IN IF ~destination.wildcard THEN destination.path
       ELSE IF path = <<>> THEN <<"/">> ELSE path

RewriteProxyPath(in, source, destination) ==
    LET path == RewritePath(in, source, destination)
    IN [path |-> path, raw |-> RewriteRawPath(in, source, destination, path)]

\* ProxyRequest.SetURL with a target that has no path: a slash is put in
\* front of a path that is not written with one.
JoinTarget(url) ==
    LET escaped == EscapedPath(url)
    IN IF url.raw = <<>>
       THEN [url EXCEPT !.path = IF IsPrefix(<<"/">>, @) THEN @ ELSE <<"/">> \o @]
       ELSE IF escaped # <<>> /\ escaped[1] = [byte |-> "/", encoded |-> FALSE]
       THEN [path |-> url.path, raw |-> escaped]
       ELSE [path |-> <<"/">> \o url.path, raw |-> Escape(<<"/">>) \o escaped]
=============================================================================
