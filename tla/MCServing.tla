------------------------------ MODULE MCServing ------------------------------
(***************************************************************************)
(* Texts of kubio.json, requests and answers for TLC, in families: each    *)
(* varies one part of the program and holds the others still.              *)
(***************************************************************************)
EXTENDS Serving

\* A family is the `name` its texts carry.
Configuration(name, sites) ==
    [name |-> name, json |-> TRUE, valid |-> TRUE, listen |-> "address", backends |-> <<>>, sites |-> sites,
     id |-> FALSE, log |-> TRUE, limit |-> Unset, tls |-> Unset, trust |-> {},
     files |-> <<>>]

PlainSite ==
    [hosts |-> {AnyHost}, valid |-> TRUE, target |-> "http", backend |-> Unset, timeout |-> Unset,
     tls |-> Unset, policy |-> Unset, setsID |-> FALSE, routes |-> <<>>]

RouteOf(path, wildcard) ==
    [pattern |-> [path |-> path, wildcard |-> wildcard], valid |-> TRUE, methods |-> Unset,
     match |-> Unset,
     target |-> Unset, backend |-> Unset, timeout |-> Unset, tls |-> Unset,
     policy |-> Unset, setsID |-> FALSE, rewrite |-> Unset, strip |-> FALSE, respond |-> Unset]

Host(labels) == [labels |-> labels, written |-> "plainly"]
V4(n) == [n |-> n, form |-> "v4"]
Mapped(n) == [n |-> n, form |-> "mapped"]

PlainRequest ==
    [method |-> "GET", star |-> FALSE, host |-> Host(<<"a">>), url |-> ParseURL(Escape(<<"/">>)),
     header |-> [n \in {"X-A", "X-Request-ID"} |-> {}], query |-> [q \in {"q"} |-> {}], queryValid |-> TRUE,
     peer |-> V4(9), forwarded |-> <<>>, proto |-> <<>>, via |-> <<>>, tls |-> FALSE, ids |-> <<>>]

PlainAnswer ==
    [informational |-> 0, early |-> EmptyHeader, error |-> "none", status |-> 200,
     header |-> EmptyHeader, trailer |-> {}, late |-> {}]

-----------------------------------------------------------------------------
(* Backends: weights, delays, and the other limits of a backend.           *)

PlainBackend ==
    [targets |-> <<"t1", "t2", "t3">>, weights |-> Unset, tries |-> Unset, timeout |-> Unset,
     retry |-> Unset, health |-> Unset, tls |-> Unset]
PlainRetry ==
    [status |-> <<503>>, methods |-> Unset, deadline |-> Unset, backoff |-> Unset, body |-> Unset,
     budget |-> Unset]

Weights == UNION {[1 .. k -> 0 .. 4] : k \in 0 .. 3}
WeightBackends ==
    {[PlainBackend EXCEPT !.targets = SubSeq(@, 1, n), !.weights = w] : n \in 1 .. 3, w \in Weights}

BackoffBackends ==
    {[PlainBackend EXCEPT !.tries = tries, !.targets = <<"t1", "t2", "t3", "t4">>,
                          !.retry = [PlainRetry EXCEPT !.backoff = [base |-> base, cap |-> cap]]]
        : tries \in {1, 2, 4, 5}, base \in 0 .. 10, cap \in 0 .. 10}

Retries ==
    {[PlainRetry EXCEPT !.status = status, !.deadline = deadline, !.body = body, !.budget = budget]
        : status \in {<<503>>, <<>>, <<503, 503>>, <<399>>},
          deadline \in {Unset, 0, 5}, body \in {Unset, 0, 1},
          budget \in {Unset} \cup [max : {0, 1}, window : {0, 1}]}
    \cup {[PlainRetry EXCEPT !.methods = methods] : methods \in {<<>>, <<"GET">>, <<"GET", "GET">>, <<"*">>}}

Healths ==
    {[fail |-> fail, cool |-> cool, probe |-> probe]
        : fail \in {0, 1, 3}, cool \in {Unset, 2, 9},
          probe \in {Unset} \cup [path : {"/"}, every : {2, 9}, timeout : {Unset, 1, 3}]}

OtherBackends ==
    {[PlainBackend EXCEPT !.tries = 2, !.retry = retry] : retry \in Retries}
        \cup {[PlainBackend EXCEPT !.health = health] : health \in Healths}
        \cup {[PlainBackend EXCEPT !.tries = tries, !.retry = retry]
                : tries \in {Unset, 0, 1, 4}, retry \in {Unset, PlainRetry}}
        \cup {[PlainBackend EXCEPT !.timeout = timeout]
                : timeout \in {Malformed} \cup [dial : {Unset, 0, 3}, header : {Unset, 4}]}
        \cup {[PlainBackend EXCEPT !.targets = targets]
                : targets \in {Unset, <<>>, <<"t1", "t1">>, <<"t1", "malformed">>}}

BackendTexts ==
    {[Configuration("backends", <<[PlainSite EXCEPT !.target = Unset, !.backend = "b"]>>)
        EXCEPT !.backends = ("b" :> b)] : b \in WeightBackends \cup BackoffBackends \cup OtherBackends}

-----------------------------------------------------------------------------
(* Transports: direct targets with timeouts and tls blocks of their own,   *)
(* inherited or shared, while files are replaced.                          *)

MCFiles == "ca" :> 1 @@ "cert" :> 1 @@ "key" :> 1

Block(id, ca, cert, key) == [block |-> id, ca |-> ca, name |-> Unset, cert |-> cert, key |-> key]
CA(id) == Block(id, "ca", Unset, Unset)
Pair(id) == Block(id, Unset, "cert", "key")

Blocks(id) ==
    {Unset, CA(id), [CA(id) EXCEPT !.name = "n"], Pair(id), Block(id, Unset, "cert", "cert"),
     Block(id, "ca", "cert", "key")}
Timeout(dial, header, body) == [dial |-> dial, header |-> header, body |-> body]
Timeouts == {Unset, Timeout(3, Unset, Unset), Timeout(3, 4, Unset)}

TLSRoute(upstream, timeout, tls) ==
    [RouteOf(<<"/">>, TRUE) EXCEPT !.target = upstream, !.timeout = timeout, !.tls = tls]
TransportSites ==
    {<<[PlainSite EXCEPT !.target = "https", !.timeout = t1, !.tls = b1,
                         !.routes = <<TLSRoute(upstream, t2, b2)>>]>>
        : t1 \in Timeouts, t2 \in Timeouts, b1 \in Blocks("site"), b2 \in Blocks("route"),
          upstream \in {Unset, "https", "http"}}

\* A backend that reads files, too, and one that is probed, before sites that
\* may be refused.
ProbedBackend == [PlainBackend EXCEPT !.health = [fail |-> 1, cool |-> 2, probe |-> [path |-> "/", every |-> 2, timeout |-> 1]]]
RefusedSites ==
    {<<PlainSite, second>> : second \in
        {[PlainSite EXCEPT !.valid = FALSE], [PlainSite EXCEPT !.backend = "p"],
         [PlainSite EXCEPT !.target = Unset, !.backend = "absent"],
         [PlainSite EXCEPT !.timeout = Timeout(Unset, Unset, 9)],
         [PlainSite EXCEPT !.tls = CA("late")],
         [PlainSite EXCEPT !.target = Unset, !.backend = "p"],
         [PlainSite EXCEPT !.target = Unset, !.backend = "p", !.tls = CA("late")]}}
        \cup {<<[PlainSite EXCEPT !.target = "https", !.tls = Pair("site")]>>}
TransportTexts ==
    {[Configuration("transports", sites) EXCEPT !.files = MCFiles] : sites \in TransportSites}
        \cup {[Configuration("transports", sites) EXCEPT !.files = MCFiles,
                 !.backends = "p" :> ProbedBackend @@ "t" :> [PlainBackend EXCEPT !.tls = CA("t")]]
                : sites \in RefusedSites}

-----------------------------------------------------------------------------
(* Hosts.                                                                  *)

HostPatterns == {AnyHost, Exact(<<"a">>), Exact(<<"b", "a">>), Wildcard(<<"a">>), Wildcard(<<"b", "a">>)}
HostSets == {hosts \in SUBSET HostPatterns : hosts # {} /\ Cardinality(hosts) <= 2}
HostTexts ==
    {Configuration("hosts", <<[PlainSite EXCEPT !.hosts = h1], [PlainSite EXCEPT !.hosts = h2]>>)
        : h1 \in HostSets, h2 \in HostSets}
    \cup {Configuration("hosts", <<[PlainSite EXCEPT !.hosts = h]>>) : h \in HostSets}
HostTraffic ==
    {[PlainRequest EXCEPT !.host = [labels |-> labels, written |-> "with a port"]]
        : labels \in {<<>>, <<"a">>, <<"b", "a">>, <<"c", "a">>, <<"c", "b", "a">>, <<"", "a">>}}

-----------------------------------------------------------------------------
(* Routes: three of them, with and without conditions.                     *)

RoutePatterns ==
    {RouteOf(<<>>, TRUE), RouteOf(<<"/", "a">>, TRUE), RouteOf(<<"/", "a">>, FALSE),
     RouteOf(<<"/", "a", "/", "b">>, TRUE), RouteOf(<<"/">>, TRUE)}
Matching(header, query, ip) == [header |-> header, query |-> query, ip |-> ip]
Conditioned(r) ==
    {r, [r EXCEPT !.methods = <<"GET">>], [r EXCEPT !.methods = <<"GET", "HEAD">>]}
    \cup {[r EXCEPT !.match = match] : match \in
            {Matching("X-A" :> <<"1">>, Unset, Unset), Matching("Host" :> <<Host(<<"a">>)>>, Unset, Unset),
             Matching("X-Request-ID" :> <<"client">>, Unset, Unset),
             Matching(Unset, "q" :> <<"1", "2">>, Unset),
             Matching(Unset, Unset, {[span |-> {8, 9}, form |-> "mapped", wide |-> FALSE]})}}
Conditionals == UNION {Conditioned(r) : r \in {RouteOf(<<>>, TRUE), RouteOf(<<"/", "a">>, TRUE)}}
RouteTexts ==
    {Configuration("routes", <<[PlainSite EXCEPT !.routes = routes]>>)
        : routes \in UNION {[1 .. k -> RoutePatterns] : k \in 1 .. 3}}
    \cup {[Configuration("routes", <<[PlainSite EXCEPT !.routes = <<r1, r2>>]>>) EXCEPT !.id = id]
        : r1 \in Conditionals, r2 \in Conditionals, id \in BOOLEAN}
RoutePaths ==
    {<<>>, <<"/">>, <<"/", "a">>, <<"/", "a", "/">>, <<"/", "a", "/", "b">>, <<"/", "a", "/", "b", "/", "c">>,
     <<"/", "b">>, <<"/", "a", "a">>, <<"/", "/", "a">>}
RouteTraffic ==
    {[PlainRequest EXCEPT !.url = ParseURL(Escape(path))] : path \in RoutePaths}
    \cup {[PlainRequest EXCEPT !.method = "HEAD"], [PlainRequest EXCEPT !.header["X-A"] = {"1"}],
          [PlainRequest EXCEPT !.query["q"] = {"1"}],
          [PlainRequest EXCEPT !.query["q"] = {"1"}, !.queryValid = FALSE],
          [PlainRequest EXCEPT !.ids = <<"client">>, !.header["X-Request-ID"] = {"client"}],
          [PlainRequest EXCEPT !.host = [@ EXCEPT !.written = "with a port"]],
          [PlainRequest EXCEPT !.peer = NoAddress], [PlainRequest EXCEPT !.peer = Mapped(8)]}

-----------------------------------------------------------------------------
(* Paths: raw paths of up to four bytes under routes that strip or rewrite.*)

PathBytes == {[byte |-> "/", encoded |-> FALSE], [byte |-> "/", encoded |-> TRUE],
              [byte |-> "a", encoded |-> FALSE], [byte |-> "a", encoded |-> TRUE],
              [byte |-> "?", encoded |-> FALSE], [byte |-> "?", encoded |-> TRUE]}
Slash == [byte |-> "/", encoded |-> FALSE]
RawPaths == {<<Slash>> \o raw : raw \in UNION {[1 .. k -> PathBytes] : k \in 0 .. 3}}
PathRoutes ==
    {[RouteOf(path, wildcard) EXCEPT !.strip = TRUE]
        : path \in {<<"/", "a">>, <<"/", "?">>}, wildcard \in BOOLEAN}
    \cup {[RouteOf(path, wildcard) EXCEPT !.rewrite = to]
            : path \in {<<>>, <<"/", "a">>}, wildcard \in {TRUE},
              to \in [path : {<<>>, <<"/", "?">>}, wildcard : {TRUE}]
                       \cup [path : {<<"/", "b">>}, wildcard : {FALSE}]}
    \cup {[RouteOf(<<"/", "a">>, FALSE) EXCEPT !.rewrite = [path |-> <<"/", "b">>, wildcard |-> TRUE]]}
PathTexts == {Configuration("paths", <<[PlainSite EXCEPT !.routes = <<r>>]>>) : r \in PathRoutes}
PathTraffic == {[PlainRequest EXCEPT !.url = ParseURL(raw)] : raw \in RawPaths}

-----------------------------------------------------------------------------
(* Clients: peers and forwarded addresses, of either form, trusted or not. *)

Trusts == {{}, {[span |-> {1, 2}, form |-> "v4", wide |-> FALSE]},
           {[span |-> {1, 2}, form |-> "mapped", wide |-> FALSE]},
           {[span |-> 1 .. 3, form |-> "mapped", wide |-> TRUE]}}
Addresses == {V4(1), Mapped(2), V4(3), Mapped(3), NoAddress}
ClientTexts ==
    {[Configuration("clients", <<[PlainSite EXCEPT !.routes = routes]>>) EXCEPT !.trust = trust]
        : trust \in Trusts,
          routes \in {<<>>, <<[RouteOf(<<>>, TRUE) EXCEPT
                         !.match = Matching(Unset, Unset, {[span |-> {3}, form |-> "v4", wide |-> FALSE]})]>>}}
ClientTraffic ==
    {[PlainRequest EXCEPT !.peer = peer, !.forwarded = forwarded]
        : peer \in Addresses, forwarded \in UNION {[1 .. k -> Addresses] : k \in 0 .. 3}}

-----------------------------------------------------------------------------
(* Responses: the ID and the log on or off, policies and headers that name *)
(* the ID, generated responses, and every answer of an upstream.           *)

Meddling == [remove |-> {"id"}, set |-> "id" :> <<"site">>, add |-> "id" :> <<"site">> @@ "other" :> <<"v">>]
Generated(status, body) ==
    [RouteOf(<<"/", "g">>, FALSE) EXCEPT !.respond = [status |-> status, body |-> body, headers |-> Meddling.set]]
ResponseSites(policy, sets) ==
    <<[PlainSite EXCEPT !.hosts = {Exact(<<"a">>)}, !.policy = policy, !.setsID = sets,
                        !.timeout = Timeout(Unset, Unset, 5),
                        !.routes = <<Generated(200, 1), Generated(204, 0),
                                     [RouteOf(<<"/", "r">>, TRUE) EXCEPT !.policy = policy, !.strip = TRUE]>>]>>
ResponseTexts ==
    {[Configuration("responses", ResponseSites(policy, sets)) EXCEPT
        !.id = id, !.log = lg, !.limit = IF lg THEN [rate |-> 1, burst |-> 1] ELSE Unset]
        : policy \in {Unset, Meddling}, sets \in BOOLEAN, id \in BOOLEAN, lg \in BOOLEAN}

ResponseTraffic ==
    {[PlainRequest EXCEPT !.ids = ids] : ids \in {<<>>, <<"client">>, <<"client", "client">>}}
    \cup {[PlainRequest EXCEPT !.url = ParseURL(Escape(<<"/", byte>>)), !.method = method]
            : byte \in {"g", "r"}, method \in {"GET", "HEAD"}}
    \cup {[PlainRequest EXCEPT !.host = Host(<<"b">>)],
          [PlainRequest EXCEPT !.method = "OPTIONS", !.star = TRUE]}

ForeignHeader == [EmptyHeader EXCEPT !.values["id"] = <<"foreign", "foreign">>]
EarlyHeader == [ForeignHeader EXCEPT !.listed = {"id", "other"}]
ResponseAnswers ==
    {[PlainAnswer EXCEPT !.informational = n, !.early = EarlyHeader, !.error = error]
        : n \in 0 .. 2, error \in {"timeout", "tooLarge", "broken"}}
    \cup {[PlainAnswer EXCEPT !.informational = n, !.early = EarlyHeader, !.status = status, !.header = header]
        : n \in 0 .. 1, status \in {200, 404, 99, 101}, header \in {EmptyHeader, ForeignHeader}}
    \cup {[PlainAnswer EXCEPT !.trailer = trailer, !.late = late, !.header = ForeignHeader]
        : trailer \in SUBSET Names, late \in SUBSET Names}

-----------------------------------------------------------------------------
(* Texts that are refused for a combination, or for a field of a block.    *)

Generating == Generated(200, 1)
RefusedRoutes ==
    {[Generated(199, 0) EXCEPT !.strip = strip] : strip \in BOOLEAN}
    \cup {Generated(304, 1), Generated(200, 2), [Generating EXCEPT !.target = "http"],
          [Generating EXCEPT !.setsID = TRUE], [Generating EXCEPT !.policy = Meddling],
          [Generating EXCEPT !.respond = Malformed]}
    \cup {[RouteOf(<<>>, TRUE) EXCEPT !.match = match]
            : match \in {Malformed, Matching(Unset, Unset, Unset), Matching(<<>>, Unset, Unset),
                         Matching("X-A" :> <<"1", "1">>, Unset, Unset), Matching(Unset, Unset, {})}}
    \cup {[RouteOf(<<>>, TRUE) EXCEPT !.rewrite = [path |-> <<>>, wildcard |-> TRUE], !.strip = TRUE],
          [RouteOf(<<>>, TRUE) EXCEPT !.methods = <<>>], [RouteOf(<<>>, TRUE) EXCEPT !.pattern = Unset],
          [RouteOf(<<>>, TRUE) EXCEPT !.target = ""],
          [RouteOf(<<>>, TRUE) EXCEPT !.target = "http", !.backend = "b"],
          [RouteOf(<<>>, TRUE) EXCEPT !.backend = "b", !.timeout = Timeout(1, Unset, Unset)],
          [RouteOf(<<>>, TRUE) EXCEPT !.timeout = Timeout(1, 9, Unset)],
          [RouteOf(<<>>, TRUE) EXCEPT !.tls = CA("late")]}
RefusedSite ==
    {[PlainSite EXCEPT !.hosts = {}], [PlainSite EXCEPT !.target = Unset], [PlainSite EXCEPT !.backend = "b"],
     [PlainSite EXCEPT !.target = Unset, !.backend = "b", !.timeout = Timeout(1, Unset, Unset)],
     [PlainSite EXCEPT !.timeout = Timeout(Unset, Unset, Unset)],
     [PlainSite EXCEPT !.policy = [Meddling EXCEPT !.add = <<>>]],
     [PlainSite EXCEPT !.tls = [CA("site") EXCEPT !.key = "key"]]}
PlainText == Configuration("refused", <<PlainSite>>)
RefusedTexts ==
    {[PlainText EXCEPT !.json = FALSE], [PlainText EXCEPT !.valid = FALSE], [PlainText EXCEPT !.trust = Malformed],
     [PlainText EXCEPT !.listen = Unset], [PlainText EXCEPT !.sites = <<>>],
     [PlainText EXCEPT !.backends = "" :> PlainBackend],
     [PlainText EXCEPT !.limit = [rate |-> 1, burst |-> Unset]],
     [PlainText EXCEPT !.limit = [rate |-> 9, burst |-> 1]], [PlainText EXCEPT !.limit = Malformed],
     [PlainText EXCEPT !.tls = [cert |-> "cert", key |-> Unset]]}
    \cup {[PlainText EXCEPT !.sites = <<s>>, !.files = MCFiles] : s \in RefusedSite}
    \cup {[PlainText EXCEPT !.sites[1].routes = <<r>>, !.backends = "b" :> PlainBackend, !.files = MCFiles]
            : r \in RefusedRoutes}

-----------------------------------------------------------------------------

MCTexts ==
    BackendTexts \cup TransportTexts \cup HostTexts \cup RouteTexts \cup PathTexts
        \cup ClientTexts \cup ResponseTexts \cup RefusedTexts

MCTraffic(cfg) ==
    CASE cfg.name = "hosts" -> HostTraffic
      [] cfg.name = "routes" -> RouteTraffic
      [] cfg.name = "paths" -> PathTraffic
      [] cfg.name = "clients" -> ClientTraffic
      [] cfg.name = "responses" -> ResponseTraffic
      [] OTHER -> {}

MCAnswers(cfg) == IF cfg.name = "responses" THEN ResponseAnswers ELSE {PlainAnswer}
=============================================================================
