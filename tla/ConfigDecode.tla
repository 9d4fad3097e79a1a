----------------------------- MODULE ConfigDecode -----------------------------
(***************************************************************************)
(* loadConfig: which texts of kubio.json are let through, and what newRouter*)
(* is given for them.  A text is a record shaped like the configuration; a *)
(* field that is absent is Unset, and one that is null or of another JSON  *)
(* type than its own is Malformed.  `json` is FALSE for a text that is no  *)
(* JSON, or has a duplicate or an unknown key.                             *)
(*                                                                         *)
(* What decodeConfig does not look into is left to newRouter: `valid` says *)
(* whether the hosts, paths, headers and conditions of a site or a route,  *)
(* or the trusted proxies of a text, are well written.                     *)
(***************************************************************************)
EXTENDS BackendConfig

CONSTANTS Malformed,
          MaxLimitRate, MaxLimitBurst,
          MaxHealthProbeDuration,
          MaxDirectTimeout,
          MaxGeneratedBodyBytes

ASSUME ConfigAssumption ==
    /\ Unset \notin {"http", "https"}
    /\ {MaxDirectTimeout, MaxDuration, MaxTargetWeight} \subseteq Nat

Typed(value) == value # Malformed
AnySet(record, fields) == \E f \in fields : IsSet(record[f])
Value(option, default) == IF IsSet(option) THEN option ELSE default

-----------------------------------------------------------------------------
(* Blocks.                                                                 *)

\* A duration is positive, as far as a time.Duration goes.
LoadsDuration(d) == IsSet(d) => d \in 1 .. MaxDuration

LoadsLimit(limit) ==
    IsSet(limit) => Typed(limit) /\ limit.rate \in 1 .. MaxLimitRate /\ limit.burst \in 1 .. MaxLimitBurst

LoadsServerTLS(tls) == IsSet(tls) => Typed(tls) /\ {tls.cert, tls.key} \cap {Unset, Malformed, ""} = {}

LoadsUpstreamTLS(tls) ==
    IsSet(tls) => /\ Typed(tls) /\ AnySet(tls, {"ca", "name", "cert", "key"})
                  /\ {tls.ca, tls.name, tls.cert, tls.key} \cap {Malformed, ""} = {}
                  /\ IsSet(tls.cert) = IsSet(tls.key)

LoadsBackendTimeout(timeout) ==
    IsSet(timeout) => /\ Typed(timeout) /\ AnySet(timeout, {"dial", "header"})
                      /\ LoadsDuration(timeout.dial) /\ LoadsDuration(timeout.header)

\* Mutation of LoadsDirectTimeout: a timeout may be as long as it likes.
LoadsDirectTimeoutUnbounded(timeout) ==
    IsSet(timeout) => /\ Typed(timeout) /\ AnySet(timeout, {"dial", "header", "body"})
                      /\ \A f \in {"dial", "header", "body"} : LoadsDuration(timeout[f])

LoadsDirectTimeout(timeout) ==
    IsSet(timeout) => /\ Typed(timeout) /\ AnySet(timeout, {"dial", "header", "body"})
                      /\ \A f \in {"dial", "header", "body"} :
                             IsSet(timeout[f]) => timeout[f] \in 1 .. MaxDirectTimeout

DecodeDirectTimeout(timeout) ==
    IF IsSet(timeout) THEN [f \in DOMAIN timeout |-> Value(timeout[f], 0)] ELSE Unset

-----------------------------------------------------------------------------
(* Backends.                                                               *)

LoadsBackoff(backoff) ==
    IsSet(backoff) => /\ Typed(backoff)
                      /\ {backoff.base, backoff.cap} \subseteq 1 .. MaxDuration /\ backoff.cap >= backoff.base

LoadsBudget(budget) ==
    IsSet(budget) => Typed(budget) /\ budget.max \in 1 .. MaxRetryBudget /\ budget.window \in 1 .. MaxDuration

\* `body` is the number in retry.body.max.
LoadsRetry(retry) ==
    IsSet(retry) => /\ Typed(retry) /\ Typed(retry.methods)
                    /\ IsSet(retry.status) /\ Typed(retry.status) /\ retry.status # <<>>
                    /\ LoadsDuration(retry.deadline)
                    /\ IsSet(retry.body) => retry.body \in 1 .. MaxRetryBodyBytes
                    /\ LoadsBackoff(retry.backoff) /\ LoadsBudget(retry.budget)

LoadsHealthProbe(probe) ==
    IsSet(probe) => /\ Typed(probe) /\ probe.every \in 1 .. MaxHealthProbeDuration
                    /\ probe.timeout \in 1 .. probe.every

LoadsHealth(health) ==
    IsSet(health) => /\ Typed(health) /\ health.fail \in 1 .. MaxHealthFailures
                     /\ health.cool \in 1 .. MaxHealthCooldown /\ LoadsHealthProbe(health.probe)

LoadsBackend(b) ==
    /\ b.targets \notin {Unset, Malformed, <<>>}
    /\ IsSet(b.weights) => Typed(b.weights) /\ ValidateTargetWeights(b.weights, Len(b.targets))
    /\ IsSet(b.tries) => b.tries \in 1 .. Len(b.targets)
    /\ LoadsBackendTimeout(b.timeout) /\ LoadsUpstreamTLS(b.tls)
    /\ LoadsHealth(b.health) /\ LoadsRetry(b.retry)
    /\ IsSet(b.retry) =>
         /\ IsSet(b.tries) /\ b.tries > 1
         /\ ValidateRetryStatuses(b.retry.status)
         /\ IsSet(b.retry.methods) => ValidateRetryMethods(b.retry.methods)

DecodeBackend(b) ==
    LET Timeout(f) == IF IsSet(b.timeout) THEN Value(b.timeout[f], 0) ELSE 0
    IN [targets |-> b.targets, weights |-> b.weights, tries |-> Value(b.tries, 1),
        dial |-> Timeout("dial"), header |-> Timeout("header"), tls |-> b.tls, health |-> b.health,
        retry |-> IF IsSet(b.retry)
                  THEN [b.retry EXCEPT !.deadline = Value(@, 0), !.methods = Value(@, <<>>)] ELSE Unset]

-----------------------------------------------------------------------------
(* Sites and routes.                                                       *)

EmptyPolicy == [remove |-> {}, set |-> <<>>, add |-> <<>>]

\* An empty part of a policy counts as an error, not as an absent one.
LoadsPolicy(policy) ==
    IsSet(policy) => /\ Typed(policy) /\ AnySet(policy, {"set", "add", "remove"})
                     /\ policy.remove # {} /\ policy.set # <<>> /\ policy.add # <<>>

DecodePolicy(policy) ==
    IF IsSet(policy) THEN [f \in DOMAIN policy |-> Value(policy[f], EmptyPolicy[f])] ELSE EmptyPolicy

\* 204, 205 and 304 have no body.
LoadsRespond(respond) ==
    IsSet(respond) =>
        /\ Typed(respond) /\ respond.status \in 200 .. 599
        /\ respond.body <= MaxGeneratedBodyBytes
        /\ respond.status \in {204, 205, 304} => respond.body = 0

DecodeRespond(respond) ==
    IF IsSet(respond)
    THEN [status |-> respond.status, body |-> respond.body,
          policy |-> [EmptyPolicy EXCEPT !.set = Value(respond.headers, <<>>)]]
    ELSE Unset

LoadsConditions(conditions) ==
    IsSet(conditions) => /\ Typed(conditions) /\ conditions # <<>>
                         /\ \A n \in DOMAIN conditions : conditions[n] # <<>> /\ Distinct(conditions[n])

LoadsRouteMatch(match) ==
    IsSet(match) => /\ Typed(match) /\ AnySet(match, {"header", "query", "ip"})
                    /\ LoadsConditions(match.header) /\ LoadsConditions(match.query)
                    /\ match.ip \notin {Malformed, {}}

Alternatives(conditions) ==
    IF IsSet(conditions) THEN [n \in DOMAIN conditions |-> ToSet(conditions[n])] ELSE <<>>

UsesBackend(route, site) == IsSet(route.backend) \/ (~IsSet(route.target) /\ IsSet(site.backend))

LoadsRoute(route, site) ==
    /\ IsSet(route.pattern)
    /\ IsSet(route.methods) => Typed(route.methods) /\ ValidateMethods(route.methods)
    /\ ~(IsSet(route.rewrite) /\ route.strip)
    /\ LoadsRespond(route.respond)
    /\ IsSet(route.respond) =>
         ~AnySet(route, {"target", "backend", "timeout", "tls", "policy", "rewrite"}) /\ ~route.setsID /\ ~route.strip
    /\ ~(IsSet(route.target) /\ IsSet(route.backend))
    /\ {"", Malformed} \cap {route.target, route.backend} = {}
    /\ IsSet(route.timeout) => ~UsesBackend(route, site)
    /\ LoadsDirectTimeout(route.timeout) /\ LoadsUpstreamTLS(route.tls)
    /\ LoadsPolicy(route.policy) /\ LoadsRouteMatch(route.match)

DecodeRoute(route) ==
    LET match == Value(route.match, [header |-> Unset, query |-> Unset, ip |-> Unset])
    IN [pattern |-> route.pattern, valid |-> route.valid, rewrite |-> route.rewrite, strip |-> route.strip,
        methods |-> ToSet(Value(route.methods, <<>>)),
        header |-> Alternatives(match.header), query |-> Alternatives(match.query), ip |-> Value(match.ip, {}),
        target |-> route.target, backend |-> route.backend, timeout |-> DecodeDirectTimeout(route.timeout),
        tls |-> route.tls, policy |-> DecodePolicy(route.policy), setsID |-> route.setsID,
        respond |-> DecodeRespond(route.respond)]

LoadsSite(site) ==
    /\ site.hosts \notin {Unset, Malformed, {}} /\ Typed(site.routes)
    /\ IsSet(site.target) # IsSet(site.backend)
    /\ {"", Malformed} \cap {site.target, site.backend} = {}
    /\ IsSet(site.backend) => ~IsSet(site.timeout)
    /\ LoadsDirectTimeout(site.timeout) /\ LoadsUpstreamTLS(site.tls) /\ LoadsPolicy(site.policy)
    /\ \A i \in DOMAIN site.routes : LoadsRoute(site.routes[i], site)

DecodeSite(site) ==
    [site EXCEPT !.timeout = DecodeDirectTimeout(@), !.policy = DecodePolicy(@),
                 !.routes = [i \in DOMAIN @ |-> DecodeRoute(@[i])]]

-----------------------------------------------------------------------------

LoadsConfig(text) ==
    /\ text.json
    /\ text.listen \notin {Unset, Malformed, ""} /\ Typed(text.trust)
    /\ LoadsLimit(text.limit) /\ LoadsServerTLS(text.tls)
    /\ "" \notin DOMAIN text.backends
    /\ \A name \in DOMAIN text.backends : LoadsBackend(text.backends[name])
    /\ text.sites # <<>>
    /\ \A i \in DOMAIN text.sites : LoadsSite(text.sites[i])

DecodeConfig(text) ==
    [text EXCEPT !.backends = [name \in DOMAIN @ |-> DecodeBackend(@[name])],
                 !.sites = [i \in DOMAIN @ |-> DecodeSite(@[i])]]
=============================================================================
