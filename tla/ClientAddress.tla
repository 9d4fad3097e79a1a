---------------------------- MODULE ClientAddress ----------------------------
(***************************************************************************)
(* Whom a request came from: router.effectiveClientIP, which `match.ip`    *)
(* rules use, and the forwarding headers proxy.setForwardedHeaders sends   *)
(* to the upstream.  They read the same request independently.             *)
(*                                                                         *)
(* An address is a number in one of two forms: IPv4, or IPv4 mapped into   *)
(* IPv6.  A prefix is the set of numbers it spans, with the form it was    *)
(* written in; `wide` marks a mapped prefix shorter than 96 bits.          *)
(***************************************************************************)
EXTENDS Naturals, Sequences, SequencesExt

NoAddress == [n |-> 0, form |-> "invalid"]   \* netip.Addr{}, and a token that is no address
Unmap(address) == IF address.form = "mapped" THEN [address EXCEPT !.form = "v4"] ELSE address
InPrefix(prefix, address) == address.form = prefix.form /\ address.n \in prefix.span

\* Prefixes of trustProxies and of match.ip are brought to IPv4 where they can be.
NormalizeIPPrefix(prefix) ==
    IF prefix.form = "mapped" /\ ~prefix.wide THEN [prefix EXCEPT !.form = "v4"] ELSE prefix

NormalizeIPPrefixes(prefixes) == {NormalizeIPPrefix(p) : p \in prefixes}

IsTrustedProxy(address, trusted) == \E p \in trusted : InPrefix(p, Unmap(address))

\* A request carries the peer it arrived from, the addresses of its
\* X-Forwarded-For lines in order, and the values of X-Forwarded-Proto and -Host.
\* Only a trusted peer is asked whom it forwards for: the last address that
\* is no trusted proxy.  One malformed address makes the client unknown.
EffectiveClientIP(req, trusted) ==
    LET peer == Unmap(req.peer)
        hops == {i \in DOMAIN req.forwarded : ~IsTrustedProxy(req.forwarded[i], trusted)}
    IN IF req.peer = NoAddress \/ ~IsTrustedProxy(peer, trusted) THEN peer
       ELSE IF NoAddress \in ToSet(req.forwarded) \/ hops = {} THEN NoAddress
       ELSE Unmap(req.forwarded[Max(hops)])

RequestProtocol(req) == IF req.tls THEN "https" ELSE "http"
FirstHeaderValue(values, default) == IF values = <<>> THEN default ELSE Head(values)

\* Mutation of SetForwardedHeaders: a trusted peer is not added to what it forwarded.
SetForwardedHeadersWithoutPeer(req, trusted) ==
    LET believed == req.peer # NoAddress /\ IsTrustedProxy(req.peer, trusted)
    IN [forwarded |-> IF believed THEN req.forwarded ELSE <<req.peer>>,
        proto |-> IF believed THEN FirstHeaderValue(req.proto, RequestProtocol(req)) ELSE RequestProtocol(req),
        via   |-> IF believed THEN FirstHeaderValue(req.via, req.host) ELSE req.host]

\* What the upstream is told.  An untrusted peer's own claims are replaced.
SetForwardedHeaders(req, trusted) ==
    LET believed == req.peer # NoAddress /\ IsTrustedProxy(req.peer, trusted)
        peer == IF req.peer = NoAddress THEN <<>> ELSE <<req.peer>>
    IN [forwarded |-> IF believed THEN req.forwarded \o peer ELSE peer,
        proto |-> IF believed THEN FirstHeaderValue(req.proto, RequestProtocol(req))
                  ELSE RequestProtocol(req),
        via   |-> IF believed THEN FirstHeaderValue(req.via, req.host) ELSE req.host]

=============================================================================
