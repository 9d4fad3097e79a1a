------------------------------ MODULE Runtime ------------------------------
(***************************************************************************)
(* The core of kubio: one atomic pointer to the current runtime            *)
(* generation (router, certificate and token bucket), read and replaced by *)
(*   - requests, each of which runs reloadableRouter.ServeHTTP: it takes   *)
(*     its router from a first load, resolves its request ID, loads the    *)
(*     pointer a second time and charges the bucket found there with a     *)
(*     compare-and-swap loop (admitGeneration);                            *)
(*   - main and the watcher goroutine, which poll the configuration file   *)
(*     and publish a generation with a full bucket (StoreGeneration).      *)
(* Every atomic operation on the pointer is an action of its own.          *)
(*                                                                         *)
(* A pointer value is a serial number in the generation it points to: a    *)
(* successful store makes a fresh one, and CompareAndSwap compares them.   *)
(* The process has one rateLimiter, bound by newReloadableRouter and       *)
(* handed from router to router by StoreGeneration, so it has no variable. *)
(***************************************************************************)
EXTENDS TokenBucket, Sequences

CONSTANTS Requests,      \* the requests that arrive, each served once
          Contents,      \* the configuration texts the file may hold
          MaxEdits,      \* bound on changes of the configuration file
          MaxClock       \* bound on the monotonic clock

\* What a text does when it is loaded and built.  A text without `limit`
\* has rate 0 and burst 0.
Content == [loads : BOOLEAN, builds : BOOLEAN, listen : Nat, tls : BOOLEAN,
            requestID : BOOLEAN, rate : Nat, burst : Nat]

ASSUME ContentsAssumption ==
    /\ Contents \subseteq Content
    /\ \A c \in Contents :
          \/ c.rate = 0 /\ c.burst = 0
          \/ /\ c.rate # 0 /\ c.burst # 0
             /\ c.burst * NanotokensPerToken <= MaxInt64
ASSUME BoundsAssumption == MaxEdits \in Nat /\ MaxClock \in Nat

VARIABLES
    file,       \* the watched file: its stat stamp and its text
    edits,      \* how often the file has changed
    clock,      \* the monotonic clock
    wpc,        \* where main, and then watchConfig, stands
    lastSeen,   \* watchConfig's `last`: the stamp it last acted on
    loaded,     \* the text loadConfig returned
    started,    \* the text main started with; watchConfig's listen and tls
    built,      \* how many routers have been built
    next,       \* the generation that is about to be published
    current,    \* reloadableRouter.current
    closed,     \* the routers that have been closed
    pc,         \* where each request stands in ServeHTTP
    router,     \* the router each request took from its first load
    latest,     \* the generation each request loaded last
    attempt,    \* what each request is about to swap in
    outcome,    \* how each request ended
    decidedBy,  \* history: the router whose limit decided each request
    admitted    \* history: clock samples of the current bucket's admissions

fileVars == <<file, edits>>
watchVars == <<wpc, lastSeen, loaded, started, built, next, closed>>
requestVars == <<pc, router, latest, attempt, outcome, decidedBy>>
vars == <<fileVars, clock, watchVars, current, requestVars, admitted>>

-----------------------------------------------------------------------------
(* The configuration file.                                                 *)

Absent == 0   \* the stamp of a file that does not exist: fileState{}

\* The router newRouter builds from a text; the generation number stands for
\* its identity and for the identity of its limitConfig.
NewRouter(content, gen) ==
    [gen       |-> gen,
     limit     |-> IF content.rate = 0 THEN NoLimit
                   ELSE [id |-> gen, rate |-> content.rate, burst |-> content.burst],
     requestID |-> content.requestID,
     content   |-> content]

\* loadTLSCertificate: the certificate pair read while the generation is
\* built, or nil (0) when the text configures no TLS.
NewCertificate(content, gen) == IF content.tls THEN gen ELSE 0

\* Before main publishes, nothing is loaded and there is no generation; these
\* records stand for nil and for zero values.
NilContent == [loads |-> FALSE, builds |-> FALSE, listen |-> 0, tls |-> FALSE,
               requestID |-> FALSE, rate |-> 0, burst |-> 0]
NilGeneration == [ptr |-> 0, router |-> NewRouter(NilContent, 0), certificate |-> 0,
                  bucket |-> NewRateLimitStateValue(NoLimit, 0)]
NilAttempt == [generation |-> NilGeneration, allowed |-> FALSE]

\* An edit leaves a text and a stamp (modification time and size) that no
\* earlier edit left; or it deletes the file.
EditFile ==
    /\ edits < MaxEdits
    /\ edits' = edits + 1
    /\ \/ \E c \in Contents : file' = [stamp |-> edits + 2, content |-> c]
       \/ /\ file.stamp # Absent
          /\ file' = [file EXCEPT !.stamp = Absent]
    /\ UNCHANGED <<clock, watchVars, current, requestVars, admitted>>

Tick ==
    /\ clock < MaxClock
    /\ clock' = clock + 1
    /\ UNCHANGED <<fileVars, watchVars, current, requestVars, admitted>>

-----------------------------------------------------------------------------
(* main: stat, load, build, publish, then serve and watch.                 *)

MainStat ==
    /\ wpc = "mainStat"
    /\ lastSeen' = file.stamp
    /\ wpc' = "mainLoad"
    /\ UNCHANGED <<fileVars, clock, loaded, started, built, next, closed,
                   current, requestVars, admitted>>

\* log.Fatal when there is nothing to load or it does not parse.
MainLoad ==
    /\ wpc = "mainLoad"
    /\ IF file.stamp # Absent /\ file.content.loads
       THEN wpc' = "mainBuild" /\ loaded' = file.content /\ started' = file.content
       ELSE wpc' = "exited" /\ UNCHANGED <<loaded, started>>
    /\ UNCHANGED <<fileVars, clock, lastSeen, built, next, closed, current,
                   requestVars, admitted>>

\* Mutation of MainBuild: the file is stat'ed after it was loaded.
MainBuildThenStat ==
    /\ wpc = "mainBuild"
    /\ IF loaded.builds
       THEN /\ wpc' = "poll"
            /\ built' = built + 1
            /\ LET r == NewRouter(loaded, built + 1)
               IN current' = [ptr |-> current.ptr + 1, router |-> r,
                              certificate |-> NewCertificate(loaded, built + 1),
                              bucket |-> NewRateLimitStateValue(r.limit, clock)]
            /\ admitted' = <<>>
       ELSE wpc' = "exited" /\ UNCHANGED <<built, current, admitted>>
    /\ lastSeen' = file.stamp
    /\ UNCHANGED <<fileVars, clock, loaded, started, next, closed, requestVars>>

\* buildRuntimeGeneration, then newReloadableRouter.  The bucket's clock
\* sample is taken inside newReloadableRouter; nothing reads it before.
MainBuild ==
    /\ wpc = "mainBuild"
    /\ IF loaded.builds
       THEN /\ wpc' = "poll"
            /\ built' = built + 1
            /\ LET r == NewRouter(loaded, built + 1)
               IN current' = [ptr |-> current.ptr + 1, router |-> r,
                              certificate |-> NewCertificate(loaded, built + 1),
                              bucket |-> NewRateLimitStateValue(r.limit, clock)]
            /\ admitted' = <<>>
       ELSE wpc' = "exited" /\ UNCHANGED <<built, current, admitted>>
    /\ UNCHANGED <<fileVars, clock, lastSeen, loaded, started, next, closed, requestVars>>

-----------------------------------------------------------------------------
(* watchConfig.  A poll whose stat fails, or finds the stamp it last acted *)
(* on, changes nothing and is not an action.                               *)

\* The stamp is remembered before the file is loaded, so a reload that fails
\* is not tried again until the stamp changes.
WatchStat ==
    /\ wpc = "poll"
    /\ file.stamp # lastSeen
    /\ lastSeen' = file.stamp
    /\ wpc' = "load"
    /\ UNCHANGED <<fileVars, clock, loaded, started, built, next, closed,
                   current, requestVars, admitted>>

\* Mutation of Reloadable: a change of the TLS mode is not rejected.
ReloadableAnyTLS(content) == content.loads /\ content.listen = started.listen

\* A text that watchConfig goes on to build.
Reloadable(content) ==
    /\ content.loads
    /\ content.listen = started.listen
    /\ content.tls = started.tls

\* loadConfig and the two checks that reject a change which needs a restart.
WatchLoad ==
    /\ wpc = "load"
    /\ IF file.stamp # Absent /\ Reloadable(file.content)
       THEN wpc' = "build" /\ loaded' = file.content
       ELSE wpc' = "poll" /\ UNCHANGED loaded
    /\ UNCHANGED <<fileVars, clock, lastSeen, started, built, next, closed,
                   current, requestVars, admitted>>

\* buildRuntimeGeneration: the certificate and the router, or an error.
WatchBuild ==
    /\ wpc = "build"
    /\ IF loaded.builds
       THEN /\ wpc' = "prepare"
            /\ built' = built + 1
            /\ next' = [ptr         |-> 0,
                        router      |-> NewRouter(loaded, built + 1),
                        certificate |-> NewCertificate(loaded, built + 1),
                        bucket      |-> NewRateLimitStateValue(NoLimit, 0)]
       ELSE wpc' = "poll" /\ UNCHANGED <<built, next>>
    /\ UNCHANGED <<fileVars, clock, lastSeen, loaded, started, closed, current,
                   requestVars, admitted>>

\* Mutation of StorePrepare: the new generation keeps the old balance.
StorePrepareKeepingBucket ==
    /\ wpc = "prepare"
    /\ next' = [next EXCEPT !.bucket = current.bucket]
    /\ wpc' = "swap"
    /\ UNCHANGED <<fileVars, clock, lastSeen, loaded, started, built, closed,
                   current, requestVars, admitted>>

\* StoreGeneration up to the Swap: the full bucket and its clock sample.
StorePrepare ==
    /\ wpc = "prepare"
    /\ next' = [next EXCEPT !.bucket = NewRateLimitStateValue(next.router.limit, clock)]
    /\ wpc' = "swap"
    /\ UNCHANGED <<fileVars, clock, lastSeen, loaded, started, built, closed,
                   current, requestVars, admitted>>

\* The Swap publishes unconditionally and yields the generation it replaced,
\* which the code goes on to close: `next` holds it from here on.
StoreSwap ==
    /\ wpc = "swap"
    /\ current' = [next EXCEPT !.ptr = current.ptr + 1]
    /\ next' = current
    /\ admitted' = <<>>
    /\ wpc' = "close"
    /\ UNCHANGED <<fileVars, clock, lastSeen, loaded, started, built, closed, requestVars>>

\* Mutation of StoreClose: the router just published is closed.
StoreCloseNew ==
    /\ wpc = "close"
    /\ closed' = closed \union {current.router.gen}
    /\ wpc' = "poll"
    /\ UNCHANGED <<fileVars, clock, lastSeen, loaded, started, built, next,
                   current, requestVars, admitted>>

\* old.router.close(); what happens inside it is in Generation.
StoreClose ==
    /\ wpc = "close"
    /\ closed' = closed \union {next.router.gen}
    /\ wpc' = "poll"
    /\ UNCHANGED <<fileVars, clock, lastSeen, loaded, started, built, next,
                   current, requestVars, admitted>>

-----------------------------------------------------------------------------
(* reloadableRouter.ServeHTTP and rateLimiter.admitGeneration.             *)

Serving == wpc \notin {"mainStat", "mainLoad", "mainBuild", "exited"}

Begin(r) ==
    /\ pc[r] = "new"
    /\ Serving
    /\ router' = [router EXCEPT ![r] = current.router]
    /\ pc' = [pc EXCEPT ![r] = "identify"]
    /\ UNCHANGED <<fileVars, clock, watchVars, current, latest, attempt, outcome,
                   decidedBy, admitted>>

\* requestIDFor fails only when the system has no random bytes to give; the
\* request is answered with a 500 and never reaches the limiter.
Identify(r) ==
    /\ pc[r] = "identify"
    /\ \/ /\ pc' = [pc EXCEPT ![r] = "admit"]
          /\ UNCHANGED outcome
       \/ /\ router[r].requestID
          /\ pc' = [pc EXCEPT ![r] = "done"]
          /\ outcome' = [outcome EXCEPT ![r] = "idFailed"]
    /\ UNCHANGED <<fileVars, clock, watchVars, current, router, latest, attempt,
                   decidedBy, admitted>>

\* A load of the pointer by a request: it is admitted at once if the
\* generation it finds has no limit.
LoadLatest(r) ==
    /\ latest' = [latest EXCEPT ![r] = current]
    /\ IF current.router.limit = NoLimit
       THEN /\ pc' = [pc EXCEPT ![r] = "serve"]
            /\ decidedBy' = [decidedBy EXCEPT ![r] = current.router.gen]
       ELSE /\ pc' = [pc EXCEPT ![r] = "reserve"]
            /\ UNCHANGED decidedBy
    /\ UNCHANGED <<fileVars, clock, watchVars, current, router, attempt, outcome, admitted>>

\* Mutation of Admit: the limit of the request's own router is asked.
AdmitByOwnRouter(r) ==
    /\ pc[r] = "admit"
    /\ IF router[r].limit = NoLimit
       THEN /\ pc' = [pc EXCEPT ![r] = "serve"]
            /\ decidedBy' = [decidedBy EXCEPT ![r] = router[r].gen]
            /\ UNCHANGED <<fileVars, clock, watchVars, current, router, latest,
                           attempt, outcome, admitted>>
       ELSE LoadLatest(r)

\* The second load of ServeHTTP.
Admit(r) == pc[r] = "admit" /\ LoadLatest(r)

\* Mutation of Retry: the loop goes round without loading the pointer.
RetryWithoutLoad(r) ==
    /\ pc[r] = "retry"
    /\ pc' = [pc EXCEPT ![r] = "reserve"]
    /\ UNCHANGED <<fileVars, clock, watchVars, current, router, latest, attempt,
                   outcome, decidedBy, admitted>>

\* admitGeneration loads the pointer again after a failed CompareAndSwap.
Retry(r) == pc[r] = "retry" /\ LoadLatest(r)

\* Samples the clock and computes the generation to swap in.
Reserve(r) ==
    /\ pc[r] = "reserve"
    /\ LET reserved == ReserveBucket(latest[r].bucket, latest[r].router.limit, clock)
       IN  attempt' = [attempt EXCEPT ![r] =
             [generation |-> [latest[r] EXCEPT !.bucket = reserved.bucket],
              allowed    |-> reserved.allowed]]
    /\ pc' = [pc EXCEPT ![r] = "swap"]
    /\ UNCHANGED <<fileVars, clock, watchVars, current, router, latest, outcome,
                   decidedBy, admitted>>

\* What a successful swap by a request decides.
Decided(r) ==
    /\ decidedBy' = [decidedBy EXCEPT ![r] = latest[r].router.gen]
    /\ IF attempt[r].allowed
       THEN /\ pc' = [pc EXCEPT ![r] = "serve"]
            /\ admitted' = Append(admitted, attempt[r].generation.bucket.last)
       ELSE /\ pc' = [pc EXCEPT ![r] = "reject"]
            /\ UNCHANGED admitted

\* Mutation of CompareAndSwap: a plain store.
PlainStore(r) ==
    /\ pc[r] = "swap"
    /\ current' = [attempt[r].generation EXCEPT !.ptr = current.ptr + 1]
    /\ Decided(r)
    /\ UNCHANGED <<fileVars, clock, watchVars, router, latest, attempt, outcome>>

\* Mutation of CompareAndSwap: a failed swap does not send the request back.
CompareAndSwapOnce(r) ==
    /\ pc[r] = "swap"
    /\ current' = IF current.ptr = latest[r].ptr
                  THEN [attempt[r].generation EXCEPT !.ptr = current.ptr + 1]
                  ELSE current
    /\ Decided(r)
    /\ UNCHANGED <<fileVars, clock, watchVars, router, latest, attempt, outcome>>

CompareAndSwap(r) ==
    /\ pc[r] = "swap"
    /\ IF current.ptr = latest[r].ptr
       THEN /\ current' = [attempt[r].generation EXCEPT !.ptr = current.ptr + 1]
            /\ Decided(r)
       ELSE /\ pc' = [pc EXCEPT ![r] = "retry"]
            /\ UNCHANGED <<current, decidedBy, admitted>>
    /\ UNCHANGED <<fileVars, clock, watchVars, router, latest, attempt, outcome>>

\* serveResolved or serveRejected, both by the router of the first load.  The
\* locals of admitGeneration are gone.
Finish(r) ==
    /\ pc[r] \in {"serve", "reject"}
    /\ outcome' = [outcome EXCEPT ![r] = IF pc[r] = "serve" THEN "served" ELSE "rejected"]
    /\ pc' = [pc EXCEPT ![r] = "done"]
    /\ latest' = [latest EXCEPT ![r] = NilGeneration]
    /\ attempt' = [attempt EXCEPT ![r] = NilAttempt]
    /\ UNCHANGED <<fileVars, clock, watchVars, current, router, decidedBy, admitted>>

-----------------------------------------------------------------------------
Init ==
    /\ \E c \in Contents : file = [stamp |-> 1, content |-> c]
    /\ edits = 0
    /\ clock = 0
    /\ wpc = "mainStat"
    /\ lastSeen = Absent
    /\ loaded = NilContent
    /\ started = NilContent
    /\ built = 0
    /\ next = NilGeneration
    /\ current = NilGeneration
    /\ closed = {}
    /\ pc = [r \in Requests |-> "new"]
    /\ router = [r \in Requests |-> NilGeneration.router]
    /\ latest = [r \in Requests |-> NilGeneration]
    /\ attempt = [r \in Requests |-> NilAttempt]
    /\ outcome = [r \in Requests |-> "none"]
    /\ decidedBy = [r \in Requests |-> 0]
    /\ admitted = <<>>

MainStep == MainStat \/ MainLoad \/ MainBuild

WatchStep == \/ WatchStat \/ WatchLoad \/ WatchBuild
             \/ StorePrepare \/ StoreSwap \/ StoreClose

RequestStep(r) == \/ Begin(r) \/ Identify(r) \/ Admit(r) \/ Reserve(r)
                  \/ CompareAndSwap(r) \/ Retry(r) \/ Finish(r)

Next == \/ EditFile \/ Tick
        \/ MainStep \/ WatchStep
        \/ \E r \in Requests : RequestStep(r)

Spec == Init /\ [][Next]_vars

\* The Go scheduler runs every goroutine that can run, and the ticker of
\* watchConfig never stops; nobody has to edit the file or advance the clock.
\* To serve a request may take for ever: clients and upstreams may do nothing.
Fairness == /\ WF_vars(MainStep)
            /\ WF_vars(WatchStep)
            /\ \A r \in Requests : WF_vars(RequestStep(r) /\ pc[r] \notin {"serve", "reject"})

FairSpec == Spec /\ Fairness
-----------------------------------------------------------------------------
(* Properties.                                                             *)

Router == [gen : Nat, limit : Limit \union {NoLimit}, requestID : BOOLEAN,
           content : Contents \union {NilContent}]
Generation == [ptr : Nat, router : Router, certificate : Nat, bucket : Bucket]

\* The type invariant: every variable of Runtime keeps its type.
TypeOK ==
    /\ file \in [stamp : Nat, content : Contents]
    /\ edits \in Nat /\ clock \in Nat /\ lastSeen \in Nat /\ built \in Nat
    /\ wpc \in {"mainStat", "mainLoad", "mainBuild", "exited", "poll", "load",
                "build", "prepare", "swap", "close"}
    /\ loaded \in Contents \union {NilContent}
    /\ started \in Contents \union {NilContent}
    /\ next \in Generation
    /\ current \in Generation
    /\ closed \subseteq Nat
    /\ pc \in [Requests -> {"new", "identify", "admit", "reserve", "swap", "retry",
                            "serve", "reject", "done"}]
    /\ router \in [Requests -> Router]
    /\ latest \in [Requests -> Generation]
    /\ attempt \in [Requests -> [generation : Generation, allowed : BOOLEAN]]
    /\ outcome \in [Requests -> {"none", "served", "rejected", "idFailed"}]
    /\ decidedBy \in [Requests -> Nat]
    /\ admitted \in Seq(Nat)

\* In any window of time, all requests together are admitted by one published
\* limit no more often than its burst plus what its rate restores in the
\* window, whatever the order of the loads and swaps of admitGeneration.
AdmissionWindow ==
    \A i, j \in 1 .. Len(admitted) :
        i <= j => (j - i + 1) * NanotokensPerToken
                    <= current.bucket.capacity
                       + current.bucket.config.rate * (admitted[j] - admitted[i])

\* The published bucket always belongs to the published router's own limit,
\* so the "other config" branch of reserveBucket, which grants a token
\* without looking, is never taken on it.
BucketFollowsLimit ==
    /\ current.bucket.config = current.router.limit
    /\ current.bucket.capacity = current.router.limit.burst * NanotokensPerToken

\* A request's compare-and-swap never brings back a generation that the
\* watcher has replaced, and never undoes an admission of the same generation.
NeverReverts ==
    [][/\ current'.router.gen >= current.router.gen
       /\ current'.router.gen = current.router.gen =>
            Len(admitted') >= Len(admitted) /\ current'.bucket.last >= current.bucket.last
      ]_<<current, admitted>>

\* Every decision is taken by the limit published at that moment, even for a
\* request whose router is older, and never by an older one than its router.
DecidedByCurrent ==
    [][\A r \in Requests : decidedBy'[r] # decidedBy[r] =>
          /\ decidedBy[r] = 0
          /\ decidedBy'[r] = current.router.gen
          /\ decidedBy'[r] >= router[r].gen]_decidedBy

\* While kubio serves, the published certificate is the one that was loaded
\* with the published router, and it is there exactly when the listener that
\* main started is a TLS listener: no reload and no admission separates them.
CertificatePaired ==
    Serving => current.certificate = IF started.tls THEN current.router.gen ELSE 0

\* Every router but the published one has been closed, or is the one that the
\* watcher is about to close; the published one has not been closed.
ReplacedRoutersAreClosed ==
    closed = (1 .. current.router.gen - 1)
             \ (IF wpc = "close" THEN {next.router.gen} ELSE {})

\* Once the file stops changing, a text that can be reloaded ends up
\* published, although stat, load and build are separate and edits may come
\* between any two of them, main's own stat and load included.
ConfigurationConverges ==
    <>[](wpc # "exited" /\ file.stamp # Absent /\ file.content.builds
           /\ Reloadable(file.content)
         => current.router.content = file.content)

\* Every request that enters ServeHTTP is decided, or ends without an ID,
\* although its compare-and-swap may fail whenever another request or the
\* watcher swaps first.
RequestsAreDecided ==
    \A r \in Requests : pc[r] = "identify" ~> pc[r] \in {"serve", "reject", "done"}

\* The verdict on a request, and with it Runtime's implementation of the
\* atomic limiter of Admission.
Verdict(r) ==
    CASE pc[r] = "serve" \/ outcome[r] = "served" -> "admitted"
      [] pc[r] = "reject" \/ outcome[r] = "rejected" -> "rejected"
      [] OTHER -> "none"

Atomic == INSTANCE Admission
    WITH limit   <- current.router.limit,
         balance <- current.bucket.tokens,
         since   <- current.bucket.last,
         verdict <- [r \in Requests |-> Verdict(r)]

\* Loads, clock samples and compare-and-swap together behave like one atomic
\* decision per request against one atomically published bucket.
ImplementsAdmission == Atomic!Spec

-----------------------------------------------------------------------------
(* The inductive strengthening behind the safety theorems.                 *)

\* A generation whose bucket is the one its router's limit calls for.
Coherent(g) ==
    /\ g.bucket.config = g.router.limit
    /\ g.bucket.capacity = g.router.limit.burst * NanotokensPerToken
    /\ g.bucket.tokens <= g.bucket.capacity
    /\ g.bucket.last <= clock

\* The published generation is coherent, and so is the one to be swapped in,
\* which is one newer.
PublishedCoherent ==
    /\ Coherent(current)
    /\ wpc = "swap" => Coherent(next) /\ next.bucket.tokens = next.bucket.capacity
    /\ wpc \in {"prepare", "swap"} => next.router.gen = current.router.gen + 1
    /\ built = IF wpc \in {"prepare", "swap"} THEN next.router.gen ELSE current.router.gen

\* A generation that a request has loaded is coherent and limited, and it is
\* the published one unless the pointer has moved on.
LoadedCoherent ==
    \A r \in Requests : pc[r] \in {"reserve", "swap"} =>
        /\ Coherent(latest[r])
        /\ latest[r].router.limit # NoLimit
        /\ latest[r].ptr <= current.ptr
        /\ latest[r].ptr = current.ptr => latest[r] = current

\* What a request is about to swap in comes from what it loaded, at a clock
\* sample that is not earlier than the loaded bucket's.
AttemptCoherent ==
    \A r \in Requests : pc[r] = "swap" =>
        \E now \in 0 .. clock :
            /\ latest[r].bucket.last <= now
            /\ attempt[r].generation =
                 [latest[r] EXCEPT !.bucket =
                    ReserveBucket(latest[r].bucket, latest[r].router.limit, now).bucket]
            /\ attempt[r].allowed =
                 ReserveBucket(latest[r].bucket, latest[r].router.limit, now).allowed

\* A request's routers are no newer than the published one, and its decision
\* and its outcome are unset until they are taken.
RequestsBehind ==
    \A r \in Requests :
        /\ router[r].gen <= current.router.gen
        /\ pc[r] \in {"reserve", "swap"} => router[r].gen <= latest[r].router.gen
        /\ pc[r] \in {"new", "identify", "admit", "reserve", "swap", "retry"} =>
             decidedBy[r] = 0
        /\ pc[r] # "done" => outcome[r] = "none"

\* The tokens still in the bucket and those already granted since any earlier
\* admission fit the burst and what was restored since.
Conservation ==
    /\ \A i \in 1 .. Len(admitted) :
         /\ admitted[i] <= current.bucket.last
         /\ (Len(admitted) - i + 1) * NanotokensPerToken + current.bucket.tokens
             <= current.bucket.capacity
                + current.bucket.config.rate * (current.bucket.last - admitted[i])
    /\ AdmissionWindow

IInv == /\ TypeOK
        /\ PublishedCoherent
        /\ LoadedCoherent
        /\ AttemptCoherent
        /\ RequestsBehind
        /\ Conservation
=============================================================================
