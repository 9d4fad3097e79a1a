------------------------------- MODULE Serving -------------------------------
(***************************************************************************)
(* One request on its way through a router that has been built: its ID and *)
(* the limiter's answer (reloadableRouter.ServeHTTP), the choice of a site *)
(* and a route, the request sent upstream, and every step in which         *)
(* net/http's ReverseProxy, as kubio configures it, writes the response to *)
(* the writers of ResponseWriter; then the access record.                  *)
(*                                                                         *)
(* External are the client, the upstream's answer, and net/http: the       *)
(* server's writer and the order in which ReverseProxy calls the hooks and *)
(* the writer.                                                             *)
(***************************************************************************)
EXTENDS RouterBuild, Routing, ResponseWriter

CONSTANTS Traffic(_),   \* the requests that may be sent to a configuration
          Answers(_)    \* the answers the upstream of a configuration may give

Configs == {DecodeConfig(text) : text \in {t \in Texts : LoadsConfig(t)}}

\* What is assumed of the shape of the inputs.  A text that loads has sites and
\* routes in an order, with hosts and paths that have been taken apart, and of
\* everything else finitely many; its blocks have all their fields, and it has
\* every file that its tls blocks name, unreadable ones included.  A request has a host and a path, and comes
\* from an address and for addresses, none of which is kubio's own; an answer
\* has a status.
IsSequence(s) == Len(s) \in Nat /\ DOMAIN s = 1 .. Len(s)
Kubio == [n |-> 1000, form |-> "v4"]
Address == [n : Nat \ {Kubio.n}, form : {"v4", "mapped", "invalid"}]
HostPattern ==
    {AnyHost} \cup [kind : {"exact"}, labels : Seq(STRING)]
              \cup [kind : {"wildcard"}, labels : Seq(STRING) \ {<<>>}]

\* Only a pattern with a wildcard may be without a path.
PatternShape(pattern) ==
    /\ pattern.path \in Seq(STRING) /\ pattern.wildcard \in BOOLEAN
    /\ pattern.path = <<>> => pattern.wildcard

\* A raw path, where there is one, means the path.
URLShape(u) ==
    /\ u \in [path : Seq(STRING), raw : Seq([byte : STRING, encoded : BOOLEAN])]
    /\ u.raw # <<>> => Decode(u.raw) = u.path

FewConditions(conditions) ==
    IsSet(conditions) => /\ IsFiniteSet(DOMAIN conditions)
                         /\ \A n \in DOMAIN conditions : IsSequence(conditions[n])
TimeoutShape(timeout) == IsSet(timeout) => DOMAIN timeout = {"dial", "header", "body"}
RouteShape(route) ==
    /\ PatternShape(route.pattern) /\ (IsSet(route.rewrite) => PatternShape(route.rewrite))
    /\ IsSet(route.methods) => IsSequence(route.methods)
    /\ IsSet(route.match) => /\ FewConditions(route.match.header) /\ FewConditions(route.match.query)
                             /\ IsSet(route.match.ip) => IsFiniteSet(route.match.ip)
    /\ TimeoutShape(route.timeout)

BackendShape(b) ==
    /\ IsSequence(b.targets) /\ (IsSet(b.weights) => b.weights \in Seq(Nat))
    /\ IsSet(b.retry) => {"status", "methods", "deadline", "backoff", "body", "budget"} \subseteq DOMAIN b.retry

\* The tls blocks of a text or of what it is decoded to, whose `block` is the
\* place where they stand.
TLSBlocks(c) ==
    {tls \in {c.backends[name].tls : name \in DOMAIN c.backends}
                \cup {c.sites[i].tls : i \in DOMAIN c.sites}
                \cup UNION {{route.tls : route \in ToSet(c.sites[i].routes)} : i \in DOMAIN c.sites} : IsSet(tls)}
BlocksShape(c) ==
    \A tls \in TLSBlocks(c) :
        /\ {tls.ca, tls.cert, tls.key} \ {Unset} \subseteq DOMAIN c.files
        /\ \A other \in TLSBlocks(c) : other.block = tls.block => other = tls

ASSUME TextsAssumption ==
    \A text \in {t \in Texts : LoadsConfig(t)} :
        /\ {"sites", "log", "backends", "valid", "files"} \subseteq DOMAIN text /\ text.log \in BOOLEAN
        /\ \A name \in DOMAIN text.backends : BackendShape(text.backends[name])
        /\ IsSequence(text.sites)
        /\ \A i \in DOMAIN text.sites :
              LET at == text.sites[i]
              IN /\ {"routes", "hosts", "valid", "target", "backend", "timeout", "tls", "policy"} \subseteq DOMAIN at
                 /\ at.hosts \subseteq HostPattern /\ TimeoutShape(at.timeout)
                 /\ IsSequence(at.routes) /\ \A j \in DOMAIN at.routes : RouteShape(at.routes[j])
        /\ BlocksShape(text)
ASSUME TrafficAssumption ==
    \A c \in Configs : \A r \in Traffic(c) :
        /\ {"peer", "forwarded", "url"} \subseteq DOMAIN r
        /\ r.peer \in Address /\ r.forwarded \in Seq(Address)
        /\ r.host.labels \in Seq(STRING) /\ URLShape(r.url)
ASSUME AnswersAssumption ==
    \A c \in Configs : \A a \in Answers(c) : "status" \in DOMAIN a /\ a.status \in Nat

VARIABLES
    pc,       \* where the request is
    request,  \* as it came; its url and headers are what kubio works on
    url,      \* request.URL, which stripping changes
    writer,   \* the response's writers
    noted,    \* what serveLogged takes down before it serves
    site, route, \* the selected ones, 0 for none
    sent,     \* the request that goes upstream
    answer,   \* the upstream's answer, as far as it has been worked on
    log       \* the access records

requestVars == <<pc, request, url, writer, noted, site, route, sent, answer, log>>
vars == <<buildVars, requestVars>>

Trusted == NormalizeIPPrefixes(config.trust)
TheSite == config.sites[site]
TheRoute == TheSite.routes[route]

-----------------------------------------------------------------------------
(* The ID and the limiter.                                                 *)

Acceptable(ids) == ids = <<"client">>

\* requestIDFor: exactly one well-formed value is kept.
RequestIDFor(ids) == IF Acceptable(ids) THEN "client" ELSE "fresh"

PathOrSlash(u) == IF EscapedPath(u) = <<>> THEN Escape(<<"/">>) ELSE EscapedPath(u)

\* The handler is entered with its writers set up, and the limiter's answer.
Enter(r, admitted) ==
    /\ phase = "built" /\ pc = "idle"
    /\ IsSet(config.limit) \/ admitted
    /\ request' = r /\ url' = r.url
    /\ writer' = NewWriter(IF config.id THEN RequestIDFor(r.ids) ELSE NoID, config.log)
    /\ noted' = PathOrSlash(r.url)
    /\ pc' = IF admitted THEN "admitted" ELSE "rejected"
    /\ UNCHANGED <<buildVars, site, route, sent, answer, log>>

\* rand.Read fails: 500 without an ID, before the limiter is asked.
FailID(r) ==
    /\ phase = "built" /\ pc = "idle"
    /\ config.id /\ ~Acceptable(r.ids)
    /\ request' = r /\ url' = r.url
    /\ writer' = Error(NewWriter(NoID, config.log), 500)
    /\ noted' = PathOrSlash(r.url)
    /\ pc' = "return"
    /\ UNCHANGED <<buildVars, site, route, sent, answer, log>>

\* The handler is done with the response, but for what its callers do.
Respond(w) ==
    /\ writer' = w
    /\ pc' = "return"
    /\ UNCHANGED <<buildVars, request, url, noted, site, route, sent, answer, log>>

Reject == pc = "rejected" /\ Respond(WriteHeader(writer, 429))

-----------------------------------------------------------------------------
(* serveHTTPRoutes.                                                        *)

GeneralOptions == request.method = "OPTIONS" /\ request.star

\* The request ID is a header like any other to match.header.
Routed(r) == IF HasID(writer) THEN [r EXCEPT !.header = ("X-Request-ID" :> {writer.id}) @@ @] ELSE r

ServeGeneralOptions == pc = "admitted" /\ GeneralOptions /\ Respond(GetHeader(writer))

ServeNotFound ==
    /\ pc = "admitted" /\ ~GeneralOptions
    /\ SelectSite(config.sites, NormalizeHost(request.host)) = 0
    /\ Respond(Error(writer, 404))

Select ==
    /\ pc = "admitted" /\ ~GeneralOptions
    /\ LET s == SelectSite(config.sites, NormalizeHost(request.host))
       IN /\ s # 0
          /\ site' = s
          /\ route' = SelectRoute(config.sites[s].routes, Routed(request), Trusted)
    /\ pc' = "selected"
    /\ UNCHANGED <<buildVars, request, url, writer, noted, sent, answer, log>>

\* What prepareGeneratedResponseHeaders has put together when the site was built.
Prepared == ApplyResponseHeaders(ApplyResponseHeaders(EmptyHeader, {}, TheSite.policy), {}, TheRoute.respond.policy)

ServeGenerated ==
    LET header == [GetHeader(writer) EXCEPT !.header.values =
                       [n \in Names |-> IF Prepared.values[n] = <<>> THEN @[n] ELSE Prepared.values[n]]]
        begun == WriteHeader(header, TheRoute.respond.status)
    IN /\ pc = "selected" /\ route # 0 /\ IsSet(TheRoute.respond)
       /\ Respond(IF request.method = "HEAD" \/ TheRoute.respond.body = 0 THEN begun
                  ELSE Write(begun, TheRoute.respond.body))

-----------------------------------------------------------------------------
(* The request that goes upstream.                                         *)

Proxied == pc = "selected" /\ (route # 0 => ~IsSet(TheRoute.respond))

\* The headers a site configures for all its routes, and the route's own.
SetsID == TheSite.setsID \/ (route # 0 /\ TheRoute.setsID)

\* setRequestID removes every spelling of the header, and stores the ID under
\* the program's own spelling of its name, which is not the canonical one.
RawIDs(own) == IF own # NoID THEN <<own>> ELSE <<>>

\* The configured headers and the ID, which wins, are set under the canonical
\* spelling; that leaves what is there under another alone.
SentIDs(r, own) ==
    RawIDs(own) \o (IF own # NoID THEN <<own>> ELSE IF SetsID THEN <<"configured">> ELSE r.ids)

\* The selected route's strip works on the request itself; its rewrite works
\* on the outgoing URL, after the target has been put into it.
Outgoing(u) ==
    IF route # 0 /\ IsSet(TheRoute.rewrite) THEN RewriteProxyPath(u, TheRoute.pattern, TheRoute.rewrite)
    ELSE JoinTarget(u)

\* Every answer belongs to a request: informational responses come first, then
\* a response or an error.
Proxy ==
    /\ Proxied
    /\ url' = IF route # 0 /\ TheRoute.strip THEN StripRequestPath(url, TheRoute.pattern.path) ELSE url
    /\ LET told == SetForwardedHeaders(request, Trusted)
       IN sent' = [forwarded |-> told.forwarded, proto |-> told.proto, via |-> told.via,
                   url |-> Outgoing(url'), ids |-> SentIDs(request, writer.id)]
    /\ \E a \in Answers(config) : answer' = a
    /\ pc' = "trip"
    /\ UNCHANGED <<buildVars, request, writer, noted, site, route, log>>

-----------------------------------------------------------------------------
(* The answer.                                                             *)

\* ReverseProxy copies the headers of a 1xx, sends it, and clears the map.
Informational ==
    LET w == WriteHeader([GetHeader(writer) EXCEPT !.header = CopyHeader(@, answer.early)], 103)
    IN /\ pc = "trip" /\ answer.informational > 0
       /\ writer' = [w EXCEPT !.header = EmptyHeader]
       /\ answer' = [answer EXCEPT !.informational = @ - 1]
       /\ UNCHANGED <<buildVars, pc, request, url, noted, site, route, sent, log>>

\* proxyErrorHandler.
StatusOf(error) ==
    IF error = "timeout" THEN 504 ELSE IF error = "tooLarge" THEN 413 ELSE 502

RoundTripFails ==
    /\ pc = "trip" /\ answer.informational = 0 /\ answer.error # "none"
    /\ Respond(Error(writer, StatusOf(answer.error)))

\* A body timeout or a deadline is configured for what was selected.
Timed ==
    LET u == IF route = 0 THEN TheSite ELSE RouteUpstream(TheSite, TheRoute)
    IN IF IsSet(u.target) THEN IsSet(u.timeout) /\ u.timeout.body > 0 /\ answer.status >= 200
       ELSE backends[u.backend].deadline > 0

RoutePolicy == IF route = 0 THEN EmptyPolicy ELSE TheRoute.policy

\* modifyProxyResponse, and then enableRequestIDProxy's part.
Modified(a) ==
    LET header == ApplyResponseHeaders(ApplyResponseHeaders(a.header, a.trailer, TheSite.policy),
                                       a.trailer, RoutePolicy)
    IN IF ~HasID(writer) THEN [a EXCEPT !.header = header]
       ELSE [a EXCEPT !.header = SetHeader(CleanRequestIDHeaders(header), "id", <<writer.id>>),
                      !.trailer = @ \ {"id"}]

ModifyResponse ==
    /\ pc = "trip" /\ answer.informational = 0 /\ answer.error = "none"
    /\ answer' = Modified(answer)
    /\ pc' = IF answer.status = 101 THEN "upgrade" ELSE "copy"
    /\ UNCHANGED <<buildVars, request, url, writer, noted, site, route, sent, log>>

\* The time has run out by then, or the client is gone.
ModifyFails(error) ==
    /\ pc = "trip" /\ answer.informational = 0 /\ answer.error = "none"
    /\ Timed
    /\ Respond(Error(writer, StatusOf(error)))

\* The client cannot be switched: no such upgrade was asked for, or no hijack.
UpgradeFails(error) == pc = "upgrade" /\ Respond(Error(Hijack(writer, error), 502))
UpgradeMismatch == pc = "upgrade" /\ Respond(Error(writer, 502))

\* The proxy fetches the hijacked response's header map twice around filling
\* it, and writes the block itself.  It tries to answer 502 if that fails.
Upgraded ==
    LET hijacked == GetHeader(Hijack(writer, "none"))
    IN GetHeader([hijacked EXCEPT !.header = CopyHeader(@, answer.header)])

Upgrade(written) ==
    /\ pc = "upgrade"
    /\ Respond(IF written THEN SendBlock(Upgraded, 101) ELSE Error(Upgraded, 502))

\* The response's header.  A status that is none makes the server's writer
\* panic; otherwise the trailers are announced with it.
CopyResponse ==
    LET copied == [GetHeader(writer) EXCEPT !.header = CopyHeader(@, answer.header)]
        announced == [GetHeader(copied) EXCEPT !.header.listed = @ \cup answer.trailer]
        begun == WriteHeader(announced, answer.status)
    IN /\ pc = "copy"
       /\ writer' = begun
       /\ pc' = IF begun.panicked THEN "return" ELSE "body"
       /\ UNCHANGED <<buildVars, request, url, noted, site, route, sent, answer, log>>

\* The body goes on, a stream with a flush after the bytes; the upstream or the
\* client may fail, which ends the handler in a panic.
CopyBody(flush) ==
    LET written == Write(writer, 1)
    IN /\ pc = "body" /\ writer.sent = 0 /\ request.method # "HEAD"
       /\ writer' = IF flush = "no" THEN written ELSE Flush(written, flush)
       /\ UNCHANGED <<buildVars, pc, request, url, noted, site, route, sent, answer, log>>

BodyFails == pc = "body" /\ Respond([writer EXCEPT !.panicked = TRUE])

\* The body is closed after it has been read to its end, when all trailers are
\* known: requestIDBody takes the ID out of them.
LateTrailers(a) == (a.trailer \cup a.late) \ (IF HasID(writer) THEN {"id"} ELSE {})

\* As many as were announced are copied; else all of them get a prefix.
CopyTrailers(flush) ==
    LET late == LateTrailers(answer)
        flushed == IF late = {} THEN writer ELSE Flush(writer, flush)
        carried == late \cap answer.late
        copied(w) == [w EXCEPT !.header.values =
                          [n \in Names |-> IF n \in carried THEN Append(@[n], "foreign") ELSE @[n]]]
        prefixed(w) == [w EXCEPT !.header.prefixed = @ \cup carried]
    IN /\ pc = "body"
       /\ Respond(IF Cardinality(late) = Cardinality(answer.trailer)
                  THEN copied(GetHeader(flushed)) ELSE prefixed(GetHeader(flushed)))

-----------------------------------------------------------------------------
(* The deferred record, the ID on an uncommitted header, and the server.   *)

Recorded(w) == IF w.status # 0 THEN w.status ELSE IF w.panicked THEN 500 ELSE 200

Record(w) == [status |-> Recorded(w), bytes |-> w.bytes, id |-> w.id, path |-> noted]

Return ==
    LET enforced == IF HasID(writer) /\ ~writer.committed THEN Enforce(writer) ELSE writer
    IN /\ pc = "return"
       /\ log' = IF writer.logged THEN Append(log, Record(writer)) ELSE log
       /\ writer' = IF writer.panicked THEN writer ELSE ServerFinish(enforced)
       /\ pc' = "finished"
       /\ UNCHANGED <<buildVars, request, url, noted, site, route, sent, answer>>

-----------------------------------------------------------------------------

FlushErrors == {"none", "failed", "unsupported"}

Init ==
    /\ BuildInit
    /\ pc = "idle"
    /\ request = Unset /\ url = Unset /\ noted = Unset /\ sent = Unset /\ answer = Unset
    /\ writer = NewWriter(NoID, FALSE)
    /\ site = 0 /\ route = 0
    /\ log = <<>>

Serve ==
    \/ \E r \in Traffic(config) : FailID(r) \/ \E admitted \in BOOLEAN : Enter(r, admitted)
    \/ Reject
    \/ ServeGeneralOptions \/ ServeNotFound \/ Select \/ ServeGenerated \/ Proxy
    \/ Informational \/ RoundTripFails \/ ModifyResponse
    \/ \E error \in {"timeout", "canceled"} : ModifyFails(error)
    \/ \E error \in {"unsupported", "failed"} : UpgradeFails(error)
    \/ UpgradeMismatch
    \/ \E written \in BOOLEAN : Upgrade(written)
    \/ CopyResponse \/ BodyFails
    \/ \E flush \in FlushErrors \cup {"no"} : CopyBody(flush)
    \/ \E flush \in FlushErrors : CopyTrailers(flush)
    \/ Return

Next == (Build /\ UNCHANGED requestVars) \/ Serve

Spec == Init /\ [][Next]_vars

-----------------------------------------------------------------------------
(* What routing should do, said without its order of evaluation.           *)

Specificity(pattern) == CASE pattern.kind = "exact" -> 2 [] pattern.kind = "wildcard" -> 1 [] OTHER -> 0

\* How specifically a site asks for a host; -1 if it does not.
Asks(s, host) ==
    Max({-1} \cup {Specificity(p) : p \in {q \in config.sites[s].hosts : HostMatches(q, host)}})

MostSpecificSite(host) ==
    LET best == Max({Asks(s, host) : s \in DOMAIN config.sites})
    IN IF best = -1 THEN 0 ELSE Min({s \in DOMAIN config.sites : Asks(s, host) = best})

BestRoute(routes, r) ==
    LET matching == {i \in DOMAIN routes : PathMatches(routes[i].pattern, r.url.path) /\ Matches(r, routes[i], Trusted)}
    IN IF matching = {} THEN 0
       ELSE CHOOSE i \in matching : \A j \in matching \ {i} : BetterRoute(routes, i, j)

Rooted(raw) ==
    IF IsPrefix(Escape(<<"/">>), raw) THEN raw ELSE Escape(<<"/">>) \o raw

\* The wire form of the path a route sends upstream, byte by byte.
WantedPath ==
    LET came == EscapedPath(request.url)
        rest == Drop(came, Len(TheRoute.pattern.path))
        to   == TheRoute.rewrite
        rewritten == Escape(to.path) \o (IF to.wildcard /\ TheRoute.pattern.wildcard THEN rest ELSE <<>>)
    IN IF route = 0 THEN Rooted(came)
       ELSE IF IsSet(to) THEN (IF rewritten = <<>> THEN Escape(<<"/">>) ELSE rewritten)
       ELSE IF TheRoute.strip THEN Rooted(rest) ELSE Rooted(came)

-----------------------------------------------------------------------------
(* Properties.                                                             *)

\* Whatever way the site is looked up, it is the one that asks for the host
\* most specifically, and of equals the first (selectSite, newRouter's maps).
SiteIsMostSpecific ==
    site # 0 => site = MostSpecificSite(NormalizeHost(request.host))

\* The indexed and the linear lookup select one route, and it beats every
\* other that matches (selectRoute, betterRoute).
SelectionAgrees ==
    site # 0 =>
        LET routes == TheSite.routes
        IN /\ route = BestRoute(routes, Routed(request))
           /\ route = SelectByScan(routes, Routed(request), Trusted)
           /\ route = SelectByIndex(routes, Routed(request), Trusted)

\* Stripping and rewriting change the prefix of the path and nothing after it:
\* every byte of the rest is sent upstream encoded as the client encoded it.
\* Of a path with bytes that must not stand unencoded, which net/url encodes
\* anew as a whole, the rest is the same once decoded.
PathReachesUpstream ==
    IsSet(sent) =>
        IF request.url.raw = <<>> \/ ValidRawPath(request.url)
        THEN EscapedPath(sent.url) = WantedPath
        ELSE IsSuffix(Decode(WantedPath), Decode(EscapedPath(sent.url)))

\* An upstream that trusts kubio, and the proxies kubio trusts, finds the
\* client in the forwarding headers whom kubio's own match.ip finds.  One that
\* trusts kubio alone finds kubio's peer, unless a malformed hop hides it.
NextHopAgrees ==
    IsSet(sent) =>
        LET itself == {[span |-> {Kubio.n}, form |-> Kubio.form, wide |-> FALSE]}
            next == [request EXCEPT !.peer = Kubio, !.forwarded = sent.forwarded]
        IN /\ EffectiveClientIP(next, Trusted \cup itself) = EffectiveClientIP(request, Trusted)
           /\ NoAddress \notin ToSet(sent.forwarded) => EffectiveClientIP(next, itself) = Unmap(request.peer)

\* One request has one ID: every header block its client is sent, informational,
\* final or of an upgrade, carries it exactly once, no trailer has one, and the
\* access record has the same.  Nothing is sent upstream without it, and no
\* other value, the client's or a configured one, goes there next to it.  That
\* it goes there exactly once (v0.21, section 2) is not so: see SentIDs.
OneID ==
    config.id /\ pc # "idle" =>
        /\ HasID(writer) =>
             /\ \A i \in DOMAIN writer.blocks :
                    writer.blocks[i].ids = <<writer.id>> /\ "id" \notin writer.blocks[i].listed
             /\ pc = "finished" => "id" \notin Trailers(writer)
        /\ IsSet(sent) => HasID(writer) /\ ToSet(sent.ids) = {writer.id}
        /\ \A i \in DOMAIN log : log[i].id = writer.id

\* However the handler ends, there is one record of it, with the status the
\* client was sent, 101 after a hijack, or 500 if a panic came first; with the
\* body bytes the server's writer took, and the path as the client wrote it.
RecordTellsTheResponse ==
    LET terminal == {i \in DOMAIN writer.blocks : Terminal(writer.blocks[i].status)}
        status == IF terminal # {} THEN writer.blocks[Min(terminal)].status
                  ELSE IF writer.taken THEN 101 ELSE 500
    IN pc = "finished" =>
           log = IF ~config.log THEN <<>>
                 ELSE <<[status |-> status, bytes |-> writer.sent, id |-> writer.id,
                         path |-> PathOrSlash(request.url)]>>
=============================================================================
