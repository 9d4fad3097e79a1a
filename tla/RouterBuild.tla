----------------------------- MODULE RouterBuild -----------------------------
(***************************************************************************)
(* loadConfig and newRouter: a text is decoded, and a router built from it *)
(* in steps, backends first, then every site and its routes in order.      *)
(* Certificate files are read on the way, one at a time, while an operator *)
(* may replace them.                                                       *)
(* Direct targets share transports through a cache of this build.  Either  *)
(* everything is accepted and the probes start, or the build is refused    *)
(* and what it has opened is closed.                                       *)
(*                                                                         *)
(* A `tls` block is a record of paths and a server name; a block of a site *)
(* is shared by the routes that inherit it (the code compares pointers).   *)
(* A file holds the number of a key pair or CA, or Bad.                    *)
(***************************************************************************)
EXTENDS ConfigDecode, FiniteSets

CONSTANTS Texts,      \* the texts of kubio.json, with the files they name
          Bad,        \* the content of a file that is not PEM, or cannot be read
          MaxEdits    \* bound on file replacements during one build

ASSUME BadAssumption == Bad \notin Nat

VARIABLES
    config,      \* the text, and then what decodeConfig has made of it
    files,       \* the certificate files
    edits,       \* how many replacements there have been
    phase,       \* "text", then "unloaded", or "backends", "sites" and "built" or "refused"
    backends,    \* the backends that are built, by name
    reading,     \* what has been read for the tls block at hand
    loaded,      \* directTransportCache.loadedByConfig
    transports,  \* directTransportCache.all; equal keys are one transport
    proxies,     \* the proxy of each step of newSite that is done
    probing,     \* the backends whose probe loop runs
    open         \* the transports that are open: of backends, and of the cache

buildVars == <<config, files, edits, phase, backends, reading, loaded,
               transports, proxies, probing, open>>

\* directTransportCache and newBackends fill maps with map[key] = value.
Put(map, key, value) == [k \in DOMAIN map \cup {key} |-> IF k = key THEN value ELSE map[k]]

-----------------------------------------------------------------------------
(* loadConfig.                                                             *)

LoadConfig ==
    /\ phase = "text" /\ LoadsConfig(config)
    /\ config' = DecodeConfig(config)
    /\ phase' = "backends"
    /\ UNCHANGED <<files, edits, backends, reading, loaded, transports, proxies, probing, open>>

LoadFails ==
    /\ phase = "text" /\ ~LoadsConfig(config)
    /\ phase' = "unloaded"
    /\ UNCHANGED <<config, files, edits, backends, reading, loaded, transports, proxies, probing, open>>

-----------------------------------------------------------------------------
(* What each step of newSite selects.                                      *)

\* The proxies newSite makes, in order; route 0 is the site's own.
Steps(sites) ==
    FlattenSeq([s \in DOMAIN sites |-> [k \in 1 .. Len(sites[s].routes) + 1 |-> <<s, k - 1>>]])

NoUpstream(u) == ~IsSet(u.target) /\ ~IsSet(u.backend)

\* A route that names no upstream uses the site's, and its timeout and tls
\* where it has none of its own.
RouteUpstream(site, route) ==
    LET inherits == NoUpstream(route) /\ IsSet(site.target)
    IN [target  |-> IF NoUpstream(route) THEN site.target ELSE route.target,
        backend |-> IF NoUpstream(route) THEN site.backend ELSE route.backend,
        timeout |-> IF inherits /\ ~IsSet(route.timeout) THEN site.timeout ELSE route.timeout,
        tls     |-> IF inherits /\ ~IsSet(route.tls) THEN site.tls ELSE route.tls]

ValidateDirectTimeout(timeout) ==
    IsSet(timeout) => {timeout.dial, timeout.header, timeout.body} \subseteq 0 .. MaxDirectTimeout

\* newProxyForSelection, up to the transport.
AcceptsUpstream(u, names) ==
    /\ ValidateDirectTimeout(u.timeout)
    /\ IsSet(u.target) # IsSet(u.backend)
    /\ IsSet(u.target) => ParseTarget(u.target) /\ (IsSet(u.tls) => u.target = "https")
    /\ IsSet(u.backend) => ~IsSet(u.timeout) /\ ~IsSet(u.tls) /\ u.backend \in names

\* A generated response has no upstream, no headers of one and no rewrite.
AcceptsRespond(route) ==
    /\ route.respond.status \in 200 .. 599 /\ route.respond.body <= MaxGeneratedBodyBytes
    /\ route.respond.status \in {204, 205, 304} => route.respond.body = 0
    /\ NoUpstream(route) /\ ~IsSet(route.timeout) /\ ~IsSet(route.tls)
    /\ ~IsSet(route.rewrite) /\ ~route.strip /\ route.policy = EmptyPolicy /\ ~route.setsID

Step == Steps(config.sites)[Len(proxies) + 1]
Site == config.sites[Step[1]]
Route == Site.routes[Step[2]]
Generates == Step[2] > 0 /\ IsSet(Route.respond)
Upstream == IF Step[2] = 0 THEN Site ELSE RouteUpstream(Site, Route)

-----------------------------------------------------------------------------
(* Certificate files.                                                      *)

\* loadUpstreamTLS reads the CA, the certificate and the key, in this order;
\* a file that holds both certificate and key is read once.
Paths(tls) ==
    IF ~IsSet(tls) THEN <<>>
    ELSE (IF IsSet(tls.ca) THEN <<tls.ca>> ELSE <<>>)
         \o (IF ~IsSet(tls.cert) THEN <<>>
             ELSE IF tls.cert = tls.key THEN <<tls.cert>> ELSE <<tls.cert, tls.key>>)

\* A certificate and a key are a pair when they hold the same number.
Usable(tls, contents) ==
    LET client == IF IsSet(tls.ca) THEN Tail(contents) ELSE contents
    IN /\ Bad \notin ToSet(contents)
       /\ client # <<>> => Head(client) = Last(client)

\* Mutation of UpstreamTLSIdentity: blocks are told apart by their paths alone.
UpstreamTLSIdentityByPath(tls, contents) ==
    [ca |-> tls.ca, name |-> tls.name, cert |-> tls.cert, key |-> tls.key, read |-> <<>>]

\* The paths and the name, and the hashes of what was read.
UpstreamTLSIdentity(tls, contents) ==
    [ca |-> tls.ca, name |-> tls.name, cert |-> tls.cert, key |-> tls.key, read |-> contents]

\* An operator replaces a file, at any time.
ReplaceFile ==
    /\ phase \in {"backends", "sites"}
    /\ edits < MaxEdits
    /\ \E path \in DOMAIN files : \E content \in {1, 2, Bad} \ {files[path]} :
           files' = [files EXCEPT ![path] = content]
    /\ edits' = edits + 1
    /\ UNCHANGED <<config, phase, backends, reading, loaded, transports, proxies, probing, open>>

\* What has been read belongs to one block at a time.  A bad file ends it.
NotReading == [block |-> Unset, contents |-> <<>>]
ReadAll(tls) == Bad \in ToSet(reading.contents) \/ Len(reading.contents) = Len(Paths(tls))
ReadFile(tls) ==
    /\ ~ReadAll(tls)
    /\ reading' = [block    |-> tls.block,
                   contents |-> Append(reading.contents, files[Paths(tls)[Len(reading.contents) + 1]])]
    /\ UNCHANGED <<config, files, edits, phase, backends, loaded, transports, proxies, probing, open>>

Direct(ts) == {<<"direct", k>> : k \in DOMAIN ts}
OfBackends(bs) == {<<"backend", name>> : name \in DOMAIN bs}

\* Mutation of Refuse: a site that is refused closes the direct transports only.
RefuseOpen ==
    /\ phase' = "refused"
    /\ open' = open \ (IF phase = "backends" THEN OfBackends(backends) ELSE Direct(transports))
    /\ UNCHANGED <<config, files, edits, backends, reading, loaded, transports, proxies, probing>>

\* The build ends in an error.  newBackends closes the transports of the
\* backends in its map; after a site newRouter closes those and the cache's.
Refuse ==
    /\ phase' = "refused"
    /\ open' = open \ (OfBackends(backends) \cup IF phase = "backends" THEN {} ELSE Direct(transports))
    /\ UNCHANGED <<config, files, edits, backends, reading, loaded, transports, proxies, probing>>

\* The trusted proxies are parsed before anything is opened.
ProxiesRefused ==
    /\ phase = "backends" /\ ~config.valid
    /\ Refuse

-----------------------------------------------------------------------------
(* Backends.  The map is ranged over in any order.                         *)

BackendsLeft == DOMAIN config.backends \ DOMAIN backends

\* A backend that has begun to read its files is the one at hand.
AtBackend(name) ==
    /\ phase = "backends" /\ config.valid /\ name \in BackendsLeft
    /\ reading = NotReading \/ (IsSet(config.backends[name].tls) /\ config.backends[name].tls.block = reading.block)

BackendReads(name) ==
    /\ AtBackend(name)
    /\ AcceptsBackend(config.backends[name])
    /\ ReadFile(config.backends[name].tls)

BackendBuilt(name) ==
    LET cfg == config.backends[name]
    IN /\ AtBackend(name)
       /\ AcceptsBackend(cfg) /\ ReadAll(cfg.tls)
       /\ IsSet(cfg.tls) => Usable(cfg.tls, reading.contents)
       /\ backends' = Put(backends, name, NewBackend(cfg, reading))
       /\ open' = open \cup {<<"backend", name>>}
       /\ reading' = NotReading
       /\ UNCHANGED <<config, files, edits, phase, loaded, transports, proxies, probing>>

BackendRefused(name) ==
    LET cfg == config.backends[name]
    IN /\ AtBackend(name)
       /\ \/ ~AcceptsBackend(cfg)
          \/ IsSet(cfg.tls) /\ ReadAll(cfg.tls) /\ ~Usable(cfg.tls, reading.contents)
       /\ Refuse

BackendsBuilt ==
    /\ phase = "backends" /\ config.valid /\ BackendsLeft = {}
    /\ phase' = "sites"
    /\ UNCHANGED <<config, files, edits, backends, reading, loaded, transports, proxies, probing, open>>

-----------------------------------------------------------------------------
(* Sites.                                                                  *)

\* The block of this step was loaded by an earlier one that shares it.
Known(tls) == IsSet(tls) /\ tls.block \in DOMAIN loaded

AcceptsStep ==
    /\ (IF Step[2] = 0 THEN Site ELSE Route).valid
    /\ IF Generates THEN AcceptsRespond(Route) ELSE AcceptsUpstream(Upstream, DOMAIN backends)

AtStep == phase = "sites" /\ Len(proxies) < Len(Steps(config.sites))

StepReads ==
    /\ AtStep /\ AcceptsStep /\ ~Generates
    /\ ~Known(Upstream.tls)
    /\ ReadFile(Upstream.tls)

\* Everything a direct target needs has been read.
StepRead == Known(Upstream.tls) \/ ReadAll(Upstream.tls)
Contents == IF Known(Upstream.tls) THEN loaded[Upstream.tls.block] ELSE reading.contents

\* A generated response, or a proxy through a backend.
StepWithoutTransport ==
    /\ AtStep /\ AcceptsStep
    /\ Generates \/ IsSet(Upstream.backend)
    /\ proxies' = Append(proxies, [transport |-> 0])
    /\ UNCHANGED <<config, files, edits, phase, backends, reading, loaded, transports, probing, open>>

\* A transport without tls has no identity in its key.
TransportKey(u, contents) ==
    [dial   |-> IF IsSet(u.timeout) THEN EffectiveTimeout(u.timeout.dial, DefaultDial) ELSE DefaultDial,
     header |-> IF IsSet(u.timeout) THEN EffectiveTimeout(u.timeout.header, DefaultHeader) ELSE DefaultHeader,
     tls    |-> IF IsSet(u.tls) THEN {UpstreamTLSIdentity(u.tls, contents)} ELSE {}]

\* directTransportCache.get finds the transport with the step's key or adds
\* one, made of the step's timeouts and of what was read for its tls block.
StepWithTransport ==
    LET u == Upstream
        key == TransportKey(u, Contents)
        same == {t \in DOMAIN transports : transports[t].key = key}
        fresh == [key |-> key, contents |-> Contents, name |-> IF IsSet(u.tls) THEN u.tls.name ELSE Unset]
    IN /\ AtStep /\ AcceptsStep /\ ~Generates /\ IsSet(u.target)
       /\ StepRead
       /\ IsSet(u.tls) => Usable(u.tls, Contents)
       /\ transports' = IF same = {} THEN Append(transports, fresh) ELSE transports
       /\ proxies' = Append(proxies, [transport |-> IF same = {} THEN Len(transports) + 1
                                                 ELSE CHOOSE t \in same : TRUE])
       /\ open' = open \cup {<<"direct", Len(transports')>>}
       /\ loaded' = IF IsSet(u.tls) THEN Put(loaded, u.tls.block, Contents) ELSE loaded
       /\ reading' = NotReading
       /\ UNCHANGED <<config, files, edits, phase, backends, probing>>

StepRefused ==
    /\ AtStep
    /\ \/ ~AcceptsStep
       \/ /\ ~Generates /\ IsSet(Upstream.tls) /\ StepRead
          /\ ~Usable(Upstream.tls, Contents)
    /\ Refuse

Probed == {name \in DOMAIN backends : IsSet(backends[name].health) /\ IsSet(backends[name].health.probe)}

\* Only when all of it is built do the probes start.
SitesBuilt ==
    /\ phase = "sites" /\ Len(proxies) = Len(Steps(config.sites))
    /\ phase' = "built"
    /\ probing' = Probed
    /\ UNCHANGED <<config, files, edits, backends, reading, loaded, transports, proxies, open>>

BuildInit ==
    /\ config \in Texts
    /\ files = config.files
    /\ edits = 0
    /\ phase = "text"
    /\ backends = <<>> /\ reading = NotReading /\ loaded = <<>> /\ transports = <<>> /\ proxies = <<>>
    /\ probing = {} /\ open = {}

Build ==
    \/ LoadConfig \/ LoadFails
    \/ ReplaceFile \/ ProxiesRefused
    \/ \E name \in DOMAIN config.backends : BackendReads(name) \/ BackendBuilt(name) \/ BackendRefused(name)
    \/ BackendsBuilt
    \/ StepReads \/ StepWithoutTransport \/ StepWithTransport \/ StepRefused
    \/ SitesBuilt

-----------------------------------------------------------------------------
(* Properties.                                                             *)

\* A complete cycle of a backend's schedule gives every target as many first
\* attempts as its weight, and no part of the cycle gives one more than its
\* share rounded up: buildTargetSchedule is smooth.
ScheduleIsFair ==
    \A name \in DOMAIN backends :
        LET weights == config.backends[name].weights
            schedule == backends[name].schedule
            Given(i, k) == Cardinality({j \in 1 .. k : schedule[j] = i - 1})
        IN IsSet(weights) =>
            /\ Len(schedule) = Total(weights)
            /\ \A i \in DOMAIN weights :
                /\ Given(i, Len(schedule)) = weights[i]
                /\ \A k \in DOMAIN schedule :
                       (Given(i, k) - 1) * Len(schedule) < k * weights[i]

\* The k-th delay between attempts is base doubled k - 1 times, or the cap if
\* that is less, however close to the longest duration they are.
BackoffFollowsCap ==
    \A name \in DOMAIN backends :
        LET retry == config.backends[name].retry
            delays == backends[name].backoff
            capped(k) == IF retry.backoff.base * 2^(k - 1) < retry.backoff.cap
                         THEN retry.backoff.base * 2^(k - 1) ELSE retry.backoff.cap
        IN IsSet(retry) /\ IsSet(retry.backoff) =>
            /\ Len(delays) = backends[name].tries - 1
            /\ \A k \in DOMAIN delays : delays[k] = capped(k)

\* The timeouts and TLS settings a proxy's transport has are those its site or
\* route is configured with, with files as they were read for its own block:
\* a transport is never shared between targets that differ in one of them.
TransportIsOwn ==
    \A k \in DOMAIN proxies : proxies[k].transport # 0 =>
        LET at == Steps(config.sites)[k]
            site == config.sites[at[1]]
            route == site.routes[at[2]]
            u == IF at[2] = 0 \/ NoUpstream(route) THEN site ELSE route
            timeout == IF at[2] # 0 /\ IsSet(route.timeout) THEN route.timeout ELSE u.timeout
            tls == IF at[2] # 0 /\ IsSet(route.tls) THEN route.tls ELSE u.tls
            transport == transports[proxies[k].transport]
        IN /\ transport.key.dial = IF IsSet(timeout) /\ timeout.dial > 0 THEN timeout.dial ELSE DefaultDial
           /\ transport.key.header = IF IsSet(timeout) /\ timeout.header > 0 THEN timeout.header ELSE DefaultHeader
           /\ transport.name = IF IsSet(tls) THEN tls.name ELSE Unset
           /\ transport.contents = IF IsSet(tls) THEN loaded[tls.block] ELSE <<>>

\* decodeConfig and newRouter judge the same options in two places.  A text
\* that loads is refused only for what cannot be told from the options alone:
\* a name that is badly written or names nothing, tls towards a target without
\* it, and the files.  In particular no value is too large for the second.
LoadedBuilds ==
    phase = "refused" =>
        \/ ~config.valid \/ edits > 0 \/ {config.files[path] : path \in DOMAIN config.files} \notin {{}, {1}, {2}}
        \/ \E name \in DOMAIN config.backends :
               LET b == config.backends[name]
               IN ~Distinct(b.targets) \/ "malformed" \in ToSet(b.targets)
        \/ \E s \in DOMAIN config.sites :
               LET site == config.sites[s]
                   BadlyNamed(u) ==
                       \/ ~u.valid \/ u.target = "malformed"
                       \/ IsSet(u.backend) /\ u.backend \notin DOMAIN config.backends
                   Own(route) == IF NoUpstream(route) THEN site.target ELSE route.target
               IN \/ BadlyNamed(site) \/ (IsSet(site.tls) /\ site.target # "https")
                  \/ \E i \in DOMAIN site.routes :
                         \/ BadlyNamed(site.routes[i])
                         \/ IsSet(site.routes[i].tls) /\ Own(site.routes[i]) # "https"

\* A refused build leaves no transport open and no probe running, and no probe
\* runs before everything is built.
RefusedLeavesNothing ==
    /\ phase = "refused" => open = {}
    /\ probing # {} => phase = "built"
=============================================================================
