---------------------------- MODULE BackendConfig ----------------------------
(***************************************************************************)
(* newBackend: which backend configurations are accepted, and the tables   *)
(* and settings Backend, TargetHealth and Generation run with.  An option  *)
(* that is not configured is Unset.                                        *)
(***************************************************************************)
EXTENDS Schedules

CONSTANTS
    Unset,                 \* an option that is absent: a nil pointer or slice
    MaxTargetWeight, MaxTargetWeightTotal,
    MaxRetryBodyBytes, MaxRetryBudget,
    MaxHealthFailures, MaxHealthCooldown,
    MaxDuration,           \* the longest time.Duration
    DefaultDial,           \* proxyDialTimeout
    DefaultHeader          \* proxyResponseHeaderTimeout

IsSet(option) == option # Unset
Distinct(s) == Cardinality(ToSet(s)) = Len(s)

\* Every prefix of the weights is compared with the limit before it is exceeded.
ValidateTargetWeights(weights, count) ==
    /\ weights # <<>> /\ Len(weights) = count
    /\ \A i \in DOMAIN weights : weights[i] \in 1 .. MaxTargetWeight
    /\ Total(weights) <= MaxTargetWeightTotal

\* "" stands for a method that is no token; "*" may not be retried.
ValidateMethods(methods) == methods # <<>> /\ Distinct(methods) /\ "" \notin ToSet(methods)
ValidateRetryMethods(methods) == ValidateMethods(methods) /\ "*" \notin ToSet(methods)

ValidateRetryStatuses(statuses) ==
    statuses # <<>> /\ Distinct(statuses) /\ ToSet(statuses) \subseteq 400 .. 599

ValidateBackoff(backoff) == IsSet(backoff) => backoff.base > 0 /\ backoff.cap >= backoff.base

ValidateRetry(retry, tries) ==
    IsSet(retry) =>
        /\ tries > 1 /\ retry.deadline >= 0
        /\ ValidateBackoff(retry.backoff)
        /\ retry.methods # <<>> => ValidateRetryMethods(retry.methods)
        /\ ValidateRetryStatuses(retry.status)
        /\ IsSet(retry.body) => retry.body \in 1 .. MaxRetryBodyBytes
        /\ IsSet(retry.budget) => retry.budget.max \in 1 .. MaxRetryBudget /\ retry.budget.window > 0

ValidateHealth(health) ==
    IsSet(health) => health.fail \in 1 .. MaxHealthFailures /\ health.cool \in 1 .. MaxHealthCooldown

\* parseTarget: an absolute HTTP(S) URL of a host and a port.
ParseTarget(target) == target # "malformed"

EffectiveTries(cfg) == IF cfg.tries = 0 THEN 1 ELSE cfg.tries
EffectiveTimeout(configured, default) == IF configured = 0 THEN default ELSE configured

\* The code reads a backend's tls files between these checks, before the last two.
AcceptsBackend(cfg) ==
    /\ cfg.targets # <<>> /\ EffectiveTries(cfg) \in 1 .. Len(cfg.targets)
    /\ ValidateRetry(cfg.retry, EffectiveTries(cfg))
    /\ cfg.dial >= 0 /\ cfg.header >= 0
    /\ Distinct(cfg.targets) /\ \A i \in DOMAIN cfg.targets : ParseTarget(cfg.targets[i])
    /\ IsSet(cfg.weights) => ValidateTargetWeights(cfg.weights, Len(cfg.targets))
    /\ ValidateHealth(cfg.health)

\* What Backend is run with, and the transport the attempts share.
NewBackend(cfg, tls) ==
    LET retry == cfg.retry
        tries == EffectiveTries(cfg)
    IN [n        |-> Len(cfg.targets),
        schedule |-> IF IsSet(cfg.weights) THEN BuildTargetSchedule(cfg.weights) ELSE <<>>,
        tries    |-> tries,
        retry    |-> IsSet(retry),
        deadline |-> IF IsSet(retry) THEN retry.deadline ELSE 0,
        backoff  |-> IF IsSet(retry) /\ IsSet(retry.backoff)
                     THEN BuildBackoffDelays(retry.backoff, tries, MaxDuration) ELSE <<>>,
        budget   |-> IF IsSet(retry) THEN retry.budget ELSE Unset,
        buffers  |-> IsSet(retry) /\ IsSet(retry.body),
        health   |-> cfg.health,
        transport |-> [dial   |-> EffectiveTimeout(cfg.dial, DefaultDial),
                       header |-> EffectiveTimeout(cfg.header, DefaultHeader),
                       tls    |-> tls]]
=============================================================================
