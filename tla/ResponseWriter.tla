---------------------------- MODULE ResponseWriter ----------------------------
(***************************************************************************)
(* The writer a handler gets: the access log's writer around the request   *)
(* ID's writer around the one of net/http's server, each of the first two  *)
(* only if configured.  The state of all three is one record; a call is an *)
(* operator from the record before it to the one after.                    *)
(*                                                                         *)
(* Of the names of a header two are told apart: the request ID's, in any   *)
(* spelling, and another.  Next to its values a header has the names its   *)
(* Trailer field lists, and those with a "Trailer:" key, which net/http    *)
(* sends as trailers.                                                      *)
(***************************************************************************)
EXTENDS Naturals, Sequences

Names == {"id", "other"}
NoID == "none"
EmptyHeader == [values |-> [n \in Names |-> <<>>], listed |-> {}, prefixed |-> {}]
SetHeader(header, name, values) == [header EXCEPT !.values[name] = values]
CopyHeader(to, from) ==
    [values   |-> [n \in Names |-> to.values[n] \o from.values[n]],
     listed   |-> to.listed \cup from.listed,
     prefixed |-> to.prefixed \cup from.prefixed]

RemoveRequestID(header) == [header EXCEPT !.values["id"] = <<>>, !.prefixed = @ \ {"id"}]
RemoveRequestIDTrailer(header) == [header EXCEPT !.listed = @ \ {"id"}]
CleanRequestIDHeaders(header) == RemoveRequestIDTrailer(RemoveRequestID(header))

\* The field is absent where the feature is off.
HasID(w) == w.id # NoID
Terminal(status) == status = 101 \/ status >= 200

-----------------------------------------------------------------------------
(* net/http's writer.  `blocks` is what the client has been sent: of every *)
(* header block the status, the ID values, and the names its Trailer lists.*)

SendBlock(w, status) ==
    [w EXCEPT !.blocks = Append(@, [status |-> status,
                                    ids    |-> w.header.values["id"],
                                    listed |-> w.header.listed])]

ServerWriteHeader(w, status) ==
    IF w.taken \/ w.final THEN w
    ELSE IF status < 100 THEN [w EXCEPT !.panicked = TRUE]
    ELSE [SendBlock(w, status) EXCEPT !.final = Terminal(status),
                                      !.announced = IF Terminal(status) THEN w.header.listed ELSE @]

\* Body bytes commit the header with an implicit 200, as a flush does.  There
\* is no body after a hijack.
Written(w, bytes) == IF w.taken THEN 0 ELSE bytes
ServerWrite(w, bytes) == [ServerWriteHeader(w, 200) EXCEPT !.sent = @ + Written(w, bytes)]

\* At the end of the handler: an implicit 200, and the trailers, which are
\* those listed when the header was written, and those with a prefix.
ServerFinish(w) == ServerWriteHeader(w, 200)
Trailers(w) == {n \in w.announced : w.header.values[n] # <<>>} \cup w.header.prefixed

-----------------------------------------------------------------------------
(* requestIDWriter.                                                        *)

Enforce(w) ==
    [w EXCEPT !.header = SetHeader(CleanRequestIDHeaders(@), "id", <<w.id>>)]

\* Mutation of GetHeader: the header of an upgrade is cleaned both times.
GetHeaderCleaned(w) ==
    IF ~HasID(w) \/ ~w.committed THEN w ELSE [w EXCEPT !.header = CleanRequestIDHeaders(@)]

\* Header(): nothing about the ID survives in a header map that is fetched
\* after the commit.  After a hijack net/http's proxy fetches it twice, fills
\* it in between and writes it itself: the second time the ID is put in.
GetHeader(w) ==
    IF ~HasID(w) \/ ~w.committed THEN w
    ELSE LET cleaned == [w EXCEPT !.header = CleanRequestIDHeaders(@)]
         IN IF w.hijacked /\ w.prepared
            THEN [cleaned EXCEPT !.header = SetHeader(@, "id", <<w.id>>)]
            ELSE [cleaned EXCEPT !.prepared = w.prepared \/ w.hijacked]

IDWriteHeader(w, status) ==
    IF ~HasID(w) THEN ServerWriteHeader(w, status)
    ELSE ServerWriteHeader([Enforce(w) EXCEPT !.committed = @ \/ Terminal(status)], status)

IDWrite(w, bytes) ==
    IF ~HasID(w) THEN ServerWrite(w, bytes)
    ELSE ServerWrite([Enforce(w) EXCEPT !.committed = TRUE], bytes)

\* A flush that fails may have sent the header all the same.
IDFlush(w, error) ==
    LET enforced == IF HasID(w) THEN Enforce(w) ELSE w
        flushed  == IF error = "unsupported" THEN enforced ELSE ServerWriteHeader(enforced, 200)
    IN [flushed EXCEPT !.committed = @ \/ (HasID(w) /\ error = "none")]

IDHijack(w, error) ==
    LET enforced == IF HasID(w) THEN Enforce(w) ELSE w
    IN IF error # "none" THEN enforced
       ELSE [enforced EXCEPT !.taken = TRUE, !.committed = HasID(w), !.hijacked = HasID(w),
                             !.prepared = FALSE]

-----------------------------------------------------------------------------
(* accessResponseWriter: the first terminal status, 0 before it, and the   *)
(* bytes of the body.                                                      *)

Observe(w, status) == [w EXCEPT !.status = IF w.logged /\ @ = 0 THEN status ELSE @]

\* Mutation of WriteHeader: an informational status is recorded as well.
WriteHeaderAnyStatus(w, status) == IDWriteHeader(Observe(w, status), status)

WriteHeader(w, status) ==
    IDWriteHeader(IF Terminal(status) THEN Observe(w, status) ELSE w, status)

Write(w, bytes) ==
    [IDWrite(Observe(w, 200), bytes) EXCEPT !.bytes = @ + (IF w.logged THEN Written(w, bytes) ELSE 0)]

Flush(w, error) ==
    IF error = "unsupported" THEN IDFlush(w, error) ELSE Observe(IDFlush(w, error), 200)

Hijack(w, error) ==
    IF error = "none" THEN Observe(IDHijack(w, error), 101) ELSE IDHijack(w, error)

-----------------------------------------------------------------------------

\* The writers around a fresh response: newRequestIDWriter enforces the ID.
NewWriter(id, logged) ==
    LET w == [header |-> EmptyHeader, blocks |-> <<>>, final |-> FALSE, taken |-> FALSE,
              announced |-> {}, sent |-> 0, panicked |-> FALSE,
              id |-> id, committed |-> FALSE, hijacked |-> FALSE, prepared |-> FALSE,
              logged |-> logged, status |-> 0, bytes |-> 0]
    IN IF HasID(w) THEN Enforce(w) ELSE w

\* http.Error, with a body of one unit.
Error(w, status) == Write(WriteHeader(GetHeader(w), status), 1)

-----------------------------------------------------------------------------
(* The response header policies of a site and a route.                     *)

\* containsHeaderName: a name that the trailer has is left alone.
ApplyResponseHeaders(header, trailer, policy) ==
    LET names == Names \ trailer
        removed(n) == IF n \in policy.remove THEN <<>> ELSE header.values[n]
        set(n) == IF n \in DOMAIN policy.set THEN policy.set[n] ELSE removed(n)
        added(n) == IF n \in DOMAIN policy.add THEN set(n) \o policy.add[n] ELSE set(n)
    IN [header EXCEPT !.values = [n \in Names |-> IF n \in names THEN added(n) ELSE @[n]]]
=============================================================================
