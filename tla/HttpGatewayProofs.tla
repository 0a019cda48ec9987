------------------------- MODULE HttpGatewayProofs -------------------------
(***************************************************************************)
(* Proofs about HttpGateway for every request, ceiling, policy, peer,      *)
(* resolver and fault: targets and addresses that are dialed, the one      *)
(* budget for all hops, the evidence transport and gateway agree on, and   *)
(* the truth of the outcome.  The invariant HInv follows the transport's   *)
(* accounting through its phases (ReadInv, SpendInv, FramingInv) and the   *)
(* gateway through a hop (HopInv, DialInv); AttemptInv ties the two.       *)
(***************************************************************************)
EXTENDS HttpGateway, FiniteSetTheorems, WellFoundedInduction, TLAPS

(* The phases of an attempt: before the final head, and with the body      *)
(* under way; then the response is complete, and in the end handed over.   *)
Heading == {"connect", "write", "head"}
Reading == {"exact", "eof", "chunk", "trailer"}
HandedOver == tpc = "done" /\ tout = "ok"
Complete == tpc \in {"finish", "close"} \/ HandedOver

TypeInv ==
  /\ grant \in WithGrant(Ceiling, Asked) /\ req \in Requests
  /\ late \in BOOLEAN /\ cancelled \in BOOLEAN
  /\ url.host.addr = None \/ IsAddress(url.host.addr)
  /\ use \in [requests : Nat, redirects : Nat, encoded : Nat, wire : Nat]
  /\ res.addresses \in Seq(ToSet(res.addresses))
  /\ \A a \in ToSet(res.addresses) : IsAddress(a)

(* What has been read is a record of sizes, its fields are a peer's.       *)
Sizes ==
  /\ tx.header \in Int /\ tx.body \in Int /\ tx.wire \in Int
  /\ DOMAIN ta = DOMAIN Nothing
  /\ ta.header \in Nat /\ ta.headerWire \in Nat /\ ta.metaWire \in Int
  /\ ta.body \in Nat /\ ta.bodyWire \in Nat /\ tread \in Nat
  /\ ta.trailer \in Nat /\ ta.trailerWire \in Nat
  /\ ta.status = 0 \/ AreFields(ta.fields)

ReadInv ==
  /\ tpc \in Heading \cup Reading \cup {"off", "finish", "close", "done"}
  /\ Sizes

(* Every byte taken from the stream is accounted for, within the limits of *)
(* the attempt.                                                            *)
SpendInv ==
  /\ TActive \/ HandedOver =>
       /\ ta.metaWire >= 0 /\ tread = ta.metaWire + ta.bodyWire /\ tread <= tx.wire
       /\ ta.header <= tx.header /\ ta.body <= tx.body
  /\ tpc \in Heading \cup {"exact"} => ta.body = 0 /\ ta.bodyWire = 0
  /\ tpc = "eof" => ta.bodyWire = ta.body
  /\ tpc \in Heading \cup {"exact", "eof", "chunk"} => ta.trailer = 0 /\ ta.trailerWire = 0
  /\ tpc = "trailer" => /\ ta.header + ta.trailer <= tx.header
                        /\ ta.header + ta.trailerWire <= tx.header

(* gateway._require_transport_response: responses that carry no body.      *)
Bodyless(status, fields, method) ==
  \/ OmitsBody(method, status)
  \/ status \in RedirectStatuses /\ Values(fields, "location") # << >>

Length == Values(ta.fields, "content-length")

(* The framing the transport chose is the one the gateway expects.         *)
FramingInv ==
  /\ tpc \in Reading => ta.omitted = FALSE
  /\ tpc \in Reading \/ Complete =>
       /\ AreFields(ta.fields)
       /\ \/ LocationError(Response) # "ok"
          \/ ta.omitted = Bodyless(ta.status, ta.fields, tx.method)
  /\ tpc = "exact" => /\ Len(Length) = 1 /\ Length[1] >= 0
                      /\ Length[1] <= tx.body /\ Length[1] + ta.metaWire <= tx.wire
  /\ tpc \in {"eof", "chunk", "trailer"} => Length = << >>
  /\ Complete /\ ta.omitted = FALSE /\ Length # << >> => Length[1] = ta.body
  /\ tpc = "close" \/ HandedOver => EvidenceConsistent(Response)

(* An attempt works with what the budgets left.                            *)
AttemptInv == gpc = "attempt" /\ tpc # "off" => tx = Remaining

(* What each stage of a hop has established.                               *)
HopInv ==
  /\ use.redirects <= req.limits.redirects /\ use.encoded <= use.wire
  /\ gpc \in {"pre", "resolve", "post", "attempt"} =>
       use.requests < req.limits.requests /\ url.scheme \in grant.schemes
  /\ gpc = "pre" => res = NoRes
  /\ gpc \in {"post", "attempt"} =>
       res.addresses # << >> /\ \A a \in ToSet(res.addresses) : Classify(a) = "global"
  /\ gpc = "post" /\ task = "allowed" =>
       \E rule \in Policies[grant.policy] : RuleMatches(rule, Facts("post"))

(* Every hop dials once.                                                   *)
DialInv ==
  /\ IsFiniteSet(dialed) /\ Cardinality(dialed) <= req.limits.requests
  /\ gpc \notin {"attempt", "done"} => Cardinality(dialed) <= use.requests
  /\ gpc = "attempt" => Cardinality(dialed) <= use.requests + 1

HInv ==
  /\ TypeInv /\ ReadInv /\ SpendInv /\ FramingInv
  /\ AttemptInv /\ HopInv /\ DialInv /\ AdmittedOnly

-----------------------------------------------------------------------------
(* Ordered checks.                                                         *)

(* A nonempty set of natural numbers has a least element.                  *)
LEMMA Least ==
  ASSUME NEW T, T \subseteq Nat, T # {}
  PROVE  Min(T) \in T /\ \A y \in T : Min(T) <= y
  <1> DEFINE R == {ss \in Nat \X Nat : ss[1] < ss[2]}
  <1>1. IsWellFoundedOn(R, Nat)
    BY NatLessThanWellFounded DEF OpToRel
  <1>2. PICK x \in T : \A y \in T : ~(<<y, x>> \in R)
    BY <1>1, WFMin
  <1>3. \A y \in T : ~(y < x)
    BY <1>2
  <1>4. \A y \in T : x <= y
    BY <1>3
  <1> QED
    BY <1>4 DEF Min

(* One check of several: its code, or what the others say.                 *)
Check(failed, code, rest) == IF failed THEN code ELSE rest
-----------------------------------------------------------------------------
(* The codes of the gateway's checks, and what holds when they pass.       *)

(* What a caller may be told, apart from its own cancellation: Cancelled   *)
(* only while the operation's signal is set, and never ValueError.         *)
Told(code) ==
  /\ code \in {"ok", "Cancelled", "Timeout", "Denied", "RequestInvalid", "LimitExceeded",
               "ResponseInvalid", "ResolutionFailed", "TransportFailed"}
  /\ code = "Cancelled" => cancelled

(* OutboundHttpRequest.__post_init__ and _snapshot_request *)
LEMMA SnapshotCodes ==
  ASSUME NEW r
  PROVE  SnapshotRequest(r) \in {"ok", "RequestInvalid", "LimitExceeded"}
  <1> DEFINE a == r.url.flaw \in {"control", "scheme", "no_host"}
             b == HeadersSize(r.headers) > r.limits.reqHeader
             c == r.body > r.limits.reqBody
             d == r.body > 0
  <1>1. RequestError(r) = FirstError(<< <<a, "RequestInvalid">>, <<b, "LimitExceeded">>,
                                      <<c, "LimitExceeded">>, <<d, "RequestInvalid">> >>)
    BY DEF RequestError
  <1>2. a \in BOOLEAN /\ b \in BOOLEAN /\ c \in BOOLEAN /\ d \in BOOLEAN
    OBVIOUS
  <1> HIDE DEF a, b, c, d
  <1>3. RequestError(r) = Check(a, "RequestInvalid", Check(b, "LimitExceeded",
                          Check(c, "LimitExceeded", Check(d, "RequestInvalid", "ok"))))
    BY <1>1, <1>2, Least DEF FirstError, Check
  <1> QED
    BY <1>3 DEF Check, SnapshotRequest

(* OutboundHttpGrant.require_request *)
LEMMA RequireRequestCodes ==
  ASSUME NEW r, NEW g
  PROVE  RequireRequest(g, r) \in {"ok", "Denied", "LimitExceeded"}
  <1> DEFINE a == r.method \notin g.methods
             b == r.url.scheme \notin g.schemes
             c == r.route # None /\ r.route \notin g.routes
             d == ~LimitsWithin(r.limits, g.limits)
  <1>1. RequireRequest(g, r) = FirstError(<< <<a, "Denied">>, <<b, "Denied">>,
                                           <<c, "Denied">>, <<d, "LimitExceeded">> >>)
    BY DEF RequireRequest
  <1>2. a \in BOOLEAN /\ b \in BOOLEAN /\ c \in BOOLEAN /\ d \in BOOLEAN
    OBVIOUS
  <1> HIDE DEF a, b, c, d
  <1>3. RequireRequest(g, r) = Check(a, "Denied", Check(b, "Denied",
                               Check(c, "Denied", Check(d, "LimitExceeded", "ok"))))
    BY <1>1, <1>2, Least DEF FirstError, Check
  <1> QED
    BY <1>3 DEF Check

(* _require_supported_request *)
LEMMA SupportedCodes ==
  ASSUME NEW r
  PROVE  RequireSupported(r) \in {"ok", "Denied"}
  <1> DEFINE names == [i \in DOMAIN r.headers |-> r.headers[i].name]
  <1> DEFINE a == r.route # None
             b == ~IsInjective(names)
             c == ToSet(names) \cap ControlledHeaders # {}
  <1>1. RequireSupported(r) = FirstError(<< <<a, "Denied">>, <<b, "Denied">>,
                                          <<c, "Denied">> >>)
    BY DEF RequireSupported
  <1>2. a \in BOOLEAN /\ b \in BOOLEAN /\ c \in BOOLEAN
    OBVIOUS
  <1> HIDE DEF a, b, c
  <1>3. RequireSupported(r) = Check(a, "Denied", Check(b, "Denied",
                              Check(c, "Denied", "ok")))
    BY <1>1, <1>2, Least DEF FirstError, Check
  <1> QED
    BY <1>3 DEF Check

(* _await_collaborator: a cancellation is only reported while the signal   *)
(* is set, and a value only while it is not.                               *)
LEMMA StoppedCodes ==
  ASSUME NEW e
  PROVE  /\ Stopped(e) \in {"ok", "Cancelled", "Timeout"}
         /\ Stopped(e) = "Cancelled" => cancelled
         /\ Stopped(e) = "ok" /\ e \in Returned => ~cancelled
  BY DEF Stopped, Inactive, Returned

(* _require_policy passes an allow only.                                   *)
LEMMA PolicyErrorCodes ==
  ASSUME NEW e
  PROVE  /\ Told(PolicyError(e))
         /\ PolicyError(e) = "ok" => e = "allowed"
  <1> DEFINE a == Stopped(e) # "ok"
             b == ~ValidatedDecision(e) \/ e # "allowed"
  <1>1. PolicyError(e) = FirstError(<< <<a, Stopped(e)>>, <<b, "Denied">> >>)
    BY DEF PolicyError
  <1>2. a \in BOOLEAN /\ b \in BOOLEAN
    OBVIOUS
  <1> HIDE DEF a, b
  <1>3. PolicyError(e) = Check(a, Stopped(e), Check(b, "Denied", "ok"))
    BY <1>1, <1>2, Least DEF FirstError, Check
  <1> QED
    BY <1>3, StoppedCodes DEF Check, Told, a, b

(* _resolve *)
LEMMA ResolveErrorCodes ==
  ASSUME NEW e
  PROVE  Told(ResolveError(e))
  <1> DEFINE a == Stopped(e) # "ok"
             b == ~ValidatedResolution(e)
  <1>1. ResolveError(e) = FirstError(<< <<a, Stopped(e)>>, <<b, "ResolutionFailed">> >>)
    BY DEF ResolveError
  <1>2. a \in BOOLEAN /\ b \in BOOLEAN
    OBVIOUS
  <1> HIDE DEF a, b
  <1>3. ResolveError(e) = Check(a, Stopped(e), Check(b, "ResolutionFailed", "ok"))
    BY <1>1, <1>2, Least DEF FirstError, Check
  <1> QED
    BY <1>3, StoppedCodes DEF Check, Told

(* An answer passes only if it is not empty and every address is global.   *)
LEMMA ResolutionErrorCodes ==
  /\ Told(ResolutionError)
  /\ ResolutionError = "ok" =>
       res.addresses # << >> /\ \A x \in ToSet(res.addresses) : Classify(x) = "global"
  <1> DEFINE a == ResolveError(task) # "ok"
             b == res.addresses = << >>
             c == \E x \in ToSet(res.addresses) : Classify(x) # "global"
  <1>1. ResolutionError = FirstError(<< <<a, ResolveError(task)>>,
                                      <<b, "ResolutionFailed">>, <<c, "Denied">> >>)
    BY DEF ResolutionError
  <1>2. a \in BOOLEAN /\ b \in BOOLEAN /\ c \in BOOLEAN
    OBVIOUS
  <1> HIDE DEF a, b, c
  <1>3. ResolutionError = Check(a, ResolveError(task), Check(b, "ResolutionFailed",
                          Check(c, "Denied", "ok")))
    BY <1>1, <1>2, Least DEF FirstError, Check
  <1>4. Told(ResolutionError)
    BY <1>3, ResolveErrorCodes DEF Check, Told
  <1>5. ResolutionError = "ok" => ~b /\ ~c
    BY <1>3, ResolveErrorCodes DEF Check, a
  <1> QED
    BY <1>4, <1>5 DEF b, c

(* _send_attempt passes a value that arrived while nobody cancelled.       *)
LEMMA SendErrorCodes ==
  ASSUME NEW e
  PROVE  /\ Told(SendError(e))
         /\ SendError(e) = "ok" => e = "ok" /\ ~cancelled
  <1> DEFINE a == Stopped(e) # "ok"
             b == e \in {"LimitExceeded", "ResponseInvalid"}
             c == e = "malformed"
             d == e # "ok"
  <1>1. SendError(e) = FirstError(<< <<a, Stopped(e)>>, <<b, e>>,
                                   <<c, "ResponseInvalid">>, <<d, "TransportFailed">> >>)
    BY DEF SendError
  <1>2. a \in BOOLEAN /\ b \in BOOLEAN /\ c \in BOOLEAN /\ d \in BOOLEAN
    OBVIOUS
  <1> HIDE DEF a, b, c, d
  <1>3. SendError(e) = Check(a, Stopped(e), Check(b, e, Check(c, "ResponseInvalid",
                       Check(d, "TransportFailed", "ok"))))
    BY <1>1, <1>2, Least DEF FirstError, Check
  <1> QED
    BY <1>3, StoppedCodes DEF Check, Told, Returned, a, b, d

(* What the budgets leave is not negative, or there is no attempt.         *)
LEMMA BudgetErrorCodes ==
  /\ BudgetError \in {"ok", "LimitExceeded"}
  /\ BudgetError = "ok" => ~(Remaining.wire < 0) /\ ~(req.limits.respBody < use.encoded)
  <1> DEFINE a == Remaining.wire < 0
             b == req.limits.respBody < use.encoded
             c == HeadersSize(TransportHeaders(url, req.headers)) > req.limits.reqHeader
  <1>1. BudgetError = FirstError(<< <<a, "LimitExceeded">>, <<b, "LimitExceeded">>,
                                  <<c, "LimitExceeded">> >>)
    BY DEF BudgetError
  <1>2. a \in BOOLEAN /\ b \in BOOLEAN /\ c \in BOOLEAN
    OBVIOUS
  <1> HIDE DEF a, b, c
  <1>3. BudgetError = Check(a, "LimitExceeded", Check(b, "LimitExceeded",
                      Check(c, "LimitExceeded", "ok")))
    BY <1>1, <1>2, Least DEF FirstError, Check
  <1> QED
    BY <1>3 DEF Check, a, b

(* _redirect_location *)
LEMMA LocationCodes ==
  ASSUME NEW r
  PROVE  /\ LocationError(r) \in {"ok", "ResponseInvalid"}
         /\ LocationError(r) = "ok" =>
              /\ ~(Len(Values(r.fields, "location")) > 1)
              /\ Values(r.fields, "location") # << >> => Values(r.fields, "location")[1].ref # "empty"
  <1> DEFINE values == Values(r.fields, "location")
  <1> DEFINE a == Len(values) > 1
             b == values # << >> /\ values[1].ref = "empty"
  <1>1. LocationError(r) = FirstError(<< <<a, "ResponseInvalid">>,
                                       <<b, "ResponseInvalid">> >>)
    BY DEF LocationError
  <1>2. a \in BOOLEAN /\ b \in BOOLEAN
    OBVIOUS
  <1> HIDE DEF a, b
  <1>3. LocationError(r) = Check(a, "ResponseInvalid", Check(b, "ResponseInvalid", "ok"))
    BY <1>1, <1>2, Least DEF FirstError, Check
  <1>4. LocationError(r) \in {"ok", "ResponseInvalid"} /\ (LocationError(r) = "ok" => ~a /\ ~b)
    BY <1>3 DEF Check
  <1> QED
    BY <1>4 DEF a, b

(* _require_transport_response.                                            *)
LEMMA EvidenceCodes ==
  ASSUME NEW r, NEW attempt
  PROVE  /\ RequireTransportResponse(r, attempt) \in {"ok", "ResponseInvalid", "LimitExceeded"}
         /\ RequireTransportResponse(r, attempt) = "ok" => EvidenceConsistent(r)
         /\ (/\ EvidenceConsistent(r)
             /\ ~(r.headerBytes > attempt.header) /\ ~(r.body > attempt.body)
             /\ ~(r.wire > attempt.wire)
             /\ LocationError(r) = "ok"
             /\ r.omitted = Bodyless(r.status, r.fields, attempt.method)
             /\ ~(Len(Values(r.fields, "content-length")) > 1)
             /\ Values(r.fields, "content-length") # << >> =>
                  /\ ContentLengthValid(Values(r.fields, "content-length")[1])
                  /\ r.omitted \/ Values(r.fields, "content-length")[1] = r.body)
            => RequireTransportResponse(r, attempt) = "ok"
  <1> DEFINE cl == Values(r.fields, "content-length")
             omitted == \/ OmitsBody(attempt.method, r.status)
                        \/ r.status \in RedirectStatuses /\ HasLocation(r)
  <1> DEFINE a == ~EvidenceConsistent(r)
             b == r.headerBytes > attempt.header
             c == r.body > attempt.body
             d == r.wire > attempt.wire
             e == /\ r.status \in RedirectStatuses /\ ~OmitsBody(attempt.method, r.status)
                     /\ LocationError(r) # "ok"
             f == r.omitted # omitted
             g == Len(cl) > 1
             h == cl # << >> /\ ~ContentLengthValid(cl[1])
             i == cl # << >> /\ ~r.omitted /\ cl[1] # r.body
  <1>1. RequireTransportResponse(r, attempt) = FirstError(<< <<a, "ResponseInvalid">>,
                                                           <<b, "LimitExceeded">>,
                                                           <<c, "LimitExceeded">>,
                                                           <<d, "LimitExceeded">>,
                                                           <<e, "ResponseInvalid">>,
                                                           <<f, "ResponseInvalid">>,
                                                           <<g, "ResponseInvalid">>,
                                                           <<h, "ResponseInvalid">>,
                                                           <<i, "ResponseInvalid">> >>)
    BY DEF RequireTransportResponse
  <1>2. /\ a \in BOOLEAN /\ b \in BOOLEAN /\ c \in BOOLEAN /\ d \in BOOLEAN
        /\ e \in BOOLEAN /\ f \in BOOLEAN /\ g \in BOOLEAN /\ h \in BOOLEAN
        /\ i \in BOOLEAN
    OBVIOUS
  <1> HIDE DEF a, b, c, d, e, f, g, h, i
  <1>3. RequireTransportResponse(r, attempt) = Check(a, "ResponseInvalid",
                                               Check(b, "LimitExceeded",
                                               Check(c, "LimitExceeded",
                                               Check(d, "LimitExceeded",
                                               Check(e, "ResponseInvalid",
                                               Check(f, "ResponseInvalid",
                                               Check(g, "ResponseInvalid",
                                               Check(h, "ResponseInvalid",
                                               Check(i, "ResponseInvalid", "ok")))))))))
    BY <1>1, <1>2, Least, SMTT(60) DEF FirstError, Check
  <1>4. RequireTransportResponse(r, attempt) \in {"ok", "ResponseInvalid", "LimitExceeded"}
    BY <1>3 DEF Check
  <1>5. RequireTransportResponse(r, attempt) = "ok" => ~a
    BY <1>3 DEF Check
  <1>6. ~a /\ ~b /\ ~c /\ ~d /\ ~e /\ ~f /\ ~g /\ ~h /\ ~i => RequireTransportResponse(r, attempt) = "ok"
    BY <1>3 DEF Check
  <1> QED
    BY <1>4, <1>5, <1>6 DEF a, b, c, d, e, f, g, h, i, Bodyless, HasLocation

(* What an attempt that passes has shown.                                  *)
LEMMA AttemptErrorCodes ==
  /\ Told(AttemptError)
  /\ AttemptError = "ok" =>
       /\ ~cancelled /\ EvidenceConsistent(Response)
       /\ Redirects => ~(use.redirects >= req.limits.redirects)
  <1> DEFINE a == SendError(task) # "ok"
             b == RequireTransportResponse(Response, Remaining) # "ok"
             c == req.body + Counted.wire > req.limits.transferred
             d == LocationError(Response) # "ok"
             e == Redirects /\ use.redirects >= req.limits.redirects
             f == Redirects /\ ~UrlValid(Target)
  <1>1. AttemptError = FirstError(<< <<a, SendError(task)>>,
                                   <<b, RequireTransportResponse(Response, Remaining)>>,
                                   <<c, "LimitExceeded">>,
                                   <<d, LocationError(Response)>>,
                                   <<e, "LimitExceeded">>, <<f, "ResponseInvalid">> >>)
    BY DEF AttemptError
  <1>2. /\ a \in BOOLEAN /\ b \in BOOLEAN /\ c \in BOOLEAN /\ d \in BOOLEAN
        /\ e \in BOOLEAN /\ f \in BOOLEAN
    OBVIOUS
  <1> HIDE DEF a, b, c, d, e, f
  <1>3. AttemptError = Check(a, SendError(task),
                       Check(b, RequireTransportResponse(Response, Remaining),
                       Check(c, "LimitExceeded", Check(d, LocationError(Response),
                       Check(e, "LimitExceeded", Check(f, "ResponseInvalid", "ok"))))))
    BY <1>1, <1>2, Least, SMTT(60) DEF FirstError, Check
  <1>4. LocationError(Response) \in {"ok", "ResponseInvalid"}
    BY LocationCodes
  <1>5. Told(AttemptError)
    BY <1>3, <1>4, SendErrorCodes, EvidenceCodes DEF Check, Told
  <1>6. AttemptError = "ok" => ~a /\ ~b /\ ~e
    BY <1>3, <1>4 DEF Check, a, b, d
  <1> QED
    BY <1>5, <1>6, SendErrorCodes, EvidenceCodes DEF a, b, e

(* _decode_response *)
LEMMA DecodeCodes ==
  ASSUME NEW r, NEW maximum
  PROVE  DecodeError(r, maximum) \in {"ok", "ResponseInvalid", "LimitExceeded"}
  <1> DEFINE encodings == Values(r.fields, "content-encoding")
             encoding == IF encodings = << >> THEN "identity" ELSE encodings[1]
             verdict == CASE encoding = "identity" -> "ok"
                          [] encoding = "gzip" -> Decompress(r.coding, maximum, {"gzip"})
                          [] encoding = "deflate" -> Decompress(r.coding, maximum, {"zlib", "raw"})
                          [] OTHER -> "ResponseInvalid"
  <1> DEFINE a == Len(encodings) > 1
             b == verdict # "ok"
             c == encoding = "identity" /\ r.body > maximum
  <1>1. DecodeError(r, maximum) = FirstError(<< <<a, "ResponseInvalid">>,
                                              <<b, verdict>>, <<c, "LimitExceeded">> >>)
    BY DEF DecodeError
  <1>2. a \in BOOLEAN /\ b \in BOOLEAN /\ c \in BOOLEAN
    OBVIOUS
  <1> HIDE DEF a, b, c, encoding, verdict
  <1>3. DecodeError(r, maximum) = Check(a, "ResponseInvalid", Check(b, verdict,
                                  Check(c, "LimitExceeded", "ok")))
    BY <1>1, <1>2, Least DEF FirstError, Check
  <1>4. verdict \in {"ok", "ResponseInvalid", "LimitExceeded"}
    BY DEF verdict, Decompress
  <1> QED
    BY <1>3, <1>4 DEF Check

(* OutboundHttpGrant.require_response *)
LEMMA RequireResponseCodes ==
  ASSUME NEW g, NEW r, NEW resp, NEW slow \in BOOLEAN
  PROVE  RequireResponse(g, r, resp, slow)
           \in {"ok", "ResponseInvalid", "Denied", "LimitExceeded"}
  <1> DEFINE a == RequireRequest(g, r) # "ok"
             b == resp.status < 200
             c == HeadersSize(resp.fields) > r.limits.respHeader
             d == resp.body > r.limits.decompressed
             e == resp.usage.requests > r.limits.requests
             f == resp.usage.response > r.limits.respBody
             gg == resp.usage.decompressed > r.limits.decompressed
                     \/ resp.usage.decompressed # resp.body
             h == resp.usage.redirects > r.limits.redirects
             i == resp.usage.request + resp.usage.wire > r.limits.transferred
             j == slow
             k == r.method = "HEAD" /\ resp.body > 0
  <1>1. RequireResponse(g, r, resp, slow) = FirstError(<< <<a, RequireRequest(g, r)>>,
                                                        <<b, "ResponseInvalid">>,
                                                        <<c, "LimitExceeded">>,
                                                        <<d, "LimitExceeded">>,
                                                        <<e, "LimitExceeded">>,
                                                        <<f, "LimitExceeded">>,
                                                        <<gg, "LimitExceeded">>,
                                                        <<h, "LimitExceeded">>,
                                                        <<i, "LimitExceeded">>,
                                                        <<j, "LimitExceeded">>,
                                                        <<k, "LimitExceeded">> >>)
    BY DEF RequireResponse
  <1>2. /\ a \in BOOLEAN /\ b \in BOOLEAN /\ c \in BOOLEAN /\ d \in BOOLEAN
        /\ e \in BOOLEAN /\ f \in BOOLEAN /\ gg \in BOOLEAN /\ h \in BOOLEAN
        /\ i \in BOOLEAN /\ j \in BOOLEAN /\ k \in BOOLEAN
    OBVIOUS
  <1> HIDE DEF a, b, c, d, e, f, gg, h, i, j, k
  <1>3. RequireResponse(g, r, resp, slow) = Check(a, RequireRequest(g, r),
                                            Check(b, "ResponseInvalid",
                                            Check(c, "LimitExceeded",
                                            Check(d, "LimitExceeded",
                                            Check(e, "LimitExceeded",
                                            Check(f, "LimitExceeded",
                                            Check(gg, "LimitExceeded",
                                            Check(h, "LimitExceeded",
                                            Check(i, "LimitExceeded",
                                            Check(j, "LimitExceeded",
                                            Check(k, "LimitExceeded", "ok")))))))))))
    BY <1>1, <1>2, Least, SMTT(60) DEF FirstError, Check
  <1> QED
    BY <1>3, RequireRequestCodes DEF Check

(* A response is published after a passed attempt only.                    *)
LEMMA PublishErrorCodes ==
  ASSUME late \in BOOLEAN, AttemptError = "ok" => ResponseValid(Published)
  PROVE  /\ Told(PublishError)
         /\ PublishError = "ok" => AttemptError = "ok"
  <1> DEFINE a == AttemptError # "ok"
             b == OmitsBody(req.method, Response.status) /\ Response.body > 0
             c == /\ ~OmitsBody(req.method, Response.status)
                     /\ DecodeError(Response, req.limits.decompressed) # "ok"
             d == ~ResponseValid(Published)
             e == RequireResponse(grant, req, Published, late) # "ok"
  <1>1. PublishError = FirstError(<< <<a, AttemptError>>, <<b, "ResponseInvalid">>,
                                   <<c, DecodeError(Response, req.limits.decompressed)>>,
                                   <<d, "ValueError">>,
                                   <<e, RequireResponse(grant, req, Published, late)>> >>)
    BY DEF PublishError
  <1>2. /\ a \in BOOLEAN /\ b \in BOOLEAN /\ c \in BOOLEAN /\ d \in BOOLEAN
        /\ e \in BOOLEAN
    OBVIOUS
  <1> HIDE DEF a, b, c, d, e
  <1>3. PublishError = Check(a, AttemptError, Check(b, "ResponseInvalid",
                       Check(c, DecodeError(Response, req.limits.decompressed),
                       Check(d, "ValueError",
                       Check(e, RequireResponse(grant, req, Published, late), "ok")))))
    BY <1>1, <1>2, Least DEF FirstError, Check
  <1>4. ~a => ~d
    BY DEF a, d
  <1>5. /\ Told(AttemptError)
        /\ DecodeError(Response, req.limits.decompressed) \in {"ok", "ResponseInvalid", "LimitExceeded"}
        /\ RequireResponse(grant, req, Published, late)
             \in {"ok", "ResponseInvalid", "Denied", "LimitExceeded"}
    BY AttemptErrorCodes, DecodeCodes, RequireResponseCodes
  <1>6. Told(PublishError)
    BY <1>3, <1>4, <1>5 DEF Check, Told
  <1>7. PublishError = "ok" => ~a
    BY <1>3 DEF Check, a
  <1> QED
    BY <1>6, <1>7 DEF a

(* classify_ip_address calls an address global only if it is public.       *)
LEMMA GlobalIsPublic ==
  ASSUME NEW x, IsAddress(x), Classify(x) = "global"
  PROVE  Public(x)
  <1>1. ClassifyPlain(x) = "global" /\ x.mapped = None
    BY DEF Classify, IsAddress
  <1>2. /\ x.nets \cap {"metadata", "private", "special"} = {}
        /\ "isatap" \in x.nets => x.v # 6
        /\ x.flags \cap {"unspecified", "loopback", "link_local", "multicast", "reserved"} = {}
        /\ "global" \in x.flags
    <2> DEFINE class == FirstError(<< <<"metadata" \in x.nets, "metadata">>,
                      <<"unspecified" \in x.flags, "unspecified">>,
                      <<"loopback" \in x.flags, "loopback">>,
                      <<"link_local" \in x.flags, "link_local">>,
                      <<"multicast" \in x.flags, "multicast">>,
                      <<"private" \in x.nets, "private">>,
                      <<"special" \in x.nets, "reserved">>,
                      <<x.v = 6 /\ "isatap" \in x.nets, "reserved">>,
                      <<"reserved" \in x.flags \/ "global" \notin x.flags, "reserved">> >>)
    <2>4. ClassifyPlain(x) = IF class = "ok" THEN "global" ELSE class
      BY DEF ClassifyPlain
    <2> DEFINE a == "metadata" \in x.nets
               b == "unspecified" \in x.flags
               c == "loopback" \in x.flags
               d == "link_local" \in x.flags
               e == "multicast" \in x.flags
               f == "private" \in x.nets
               g == "special" \in x.nets
               h == x.v = 6 /\ "isatap" \in x.nets
               i == "reserved" \in x.flags \/ "global" \notin x.flags
    <2>1. class = FirstError(<< <<a, "metadata">>, <<b, "unspecified">>,
                              <<c, "loopback">>, <<d, "link_local">>,
                              <<e, "multicast">>, <<f, "private">>, <<g, "reserved">>,
                              <<h, "reserved">>, <<i, "reserved">> >>)
      OBVIOUS
    <2>2. /\ a \in BOOLEAN /\ b \in BOOLEAN /\ c \in BOOLEAN /\ d \in BOOLEAN
          /\ e \in BOOLEAN /\ f \in BOOLEAN /\ g \in BOOLEAN /\ h \in BOOLEAN
          /\ i \in BOOLEAN
      OBVIOUS
    <2> HIDE DEF class, a, b, c, d, e, f, g, h, i
    <2>3. class = Check(a, "metadata", Check(b, "unspecified", Check(c, "loopback",
                  Check(d, "link_local", Check(e, "multicast", Check(f, "private",
                  Check(g, "reserved", Check(h, "reserved", Check(i, "reserved", "ok")))))))))
      BY <2>1, <2>2, Least, SMTT(60) DEF FirstError, Check
    <2>5. ~a /\ ~b /\ ~c /\ ~d /\ ~e /\ ~f /\ ~g /\ ~h /\ ~i
      BY <1>1, <2>3, <2>4 DEF Check
    <2> QED
      BY <2>5 DEF a, b, c, d, e, f, g, h, i
  <1> QED
    BY <1>1, <1>2 DEF Public, IsAddress

-----------------------------------------------------------------------------
(* The gateway's actions that check something, as what they come to.       *)

(* _require_active *)
LEMMA InactiveCodes == Told(Inactive) /\ (Inactive = "ok" => ~cancelled /\ ~late)
  BY DEF Inactive, Told

(* send() refuses, or enters its loop at the normalized URL.               *)
LEMMA SendEffect ==
  ASSUME Send
  PROVE  \/ gpc' = "done" /\ Told(outcome') /\ outcome' # "ok" /\ UNCHANGED url
         \/ gpc' = "loop" /\ url' = NormalizeUrl(req.url) /\ UNCHANGED outcome
  <1> DEFINE error == FirstError(<< <<SnapshotRequest(req) # "ok", SnapshotRequest(req)>>,
                                <<RequireRequest(grant, req) # "ok", RequireRequest(grant, req)>>,
                                <<RequireSupported(req) # "ok", RequireSupported(req)>>,
                                <<Inactive # "ok", Inactive>>,
                                <<~UrlValid(req.url), "RequestInvalid">> >>)
  <1> DEFINE a == SnapshotRequest(req) # "ok"
             b == RequireRequest(grant, req) # "ok"
             c == RequireSupported(req) # "ok"
             d == Inactive # "ok"
             e == ~UrlValid(req.url)
  <1>1. error = FirstError(<< <<a, SnapshotRequest(req)>>,
                            <<b, RequireRequest(grant, req)>>,
                            <<c, RequireSupported(req)>>, <<d, Inactive>>,
                            <<e, "RequestInvalid">> >>)
    OBVIOUS
  <1>2. /\ a \in BOOLEAN /\ b \in BOOLEAN /\ c \in BOOLEAN /\ d \in BOOLEAN
        /\ e \in BOOLEAN
    OBVIOUS
  <1> HIDE DEF error, a, b, c, d, e
  <1>3. error = Check(a, SnapshotRequest(req), Check(b, RequireRequest(grant, req),
                Check(c, RequireSupported(req), Check(d, Inactive,
                Check(e, "RequestInvalid", "ok")))))
    BY <1>1, <1>2, Least DEF FirstError, Check
  <1>4. Told(error)
    BY <1>3, SnapshotCodes, RequireRequestCodes, SupportedCodes, InactiveCodes DEF Check, Told
  <1>5. IF error # "ok" THEN Raise(error) /\ UNCHANGED url
        ELSE gpc' = "loop" /\ url' = NormalizeUrl(req.url) /\ UNCHANGED <<outcome, task>>
    BY Zenon DEF Send, error
  <1> QED
    BY <1>4, <1>5 DEF Raise

(* The head of the loop: another request is within the limit, to a scheme  *)
(* of the grant.                                                           *)
LEMMA NextHopEffect ==
  ASSUME NextHop
  PROVE  \/ gpc' = "done" /\ Told(outcome') /\ outcome' # "ok"
         \/ /\ gpc' = "pre" /\ task' = "running" /\ UNCHANGED outcome
            /\ ~(use.requests >= req.limits.requests) /\ url.scheme \in grant.schemes
  <1> DEFINE error == FirstError(<< <<Inactive # "ok", Inactive>>,
                                <<use.requests >= req.limits.requests, "LimitExceeded">>,
                                <<url.scheme \notin grant.schemes, "Denied">> >>)
  <1> DEFINE a == Inactive # "ok"
             b == use.requests >= req.limits.requests
             c == url.scheme \notin grant.schemes
  <1>1. error = FirstError(<< <<a, Inactive>>, <<b, "LimitExceeded">>, <<c, "Denied">> >>)
    OBVIOUS
  <1>2. a \in BOOLEAN /\ b \in BOOLEAN /\ c \in BOOLEAN
    OBVIOUS
  <1> HIDE DEF error, a, b, c
  <1>3. error = Check(a, Inactive, Check(b, "LimitExceeded", Check(c, "Denied", "ok")))
    BY <1>1, <1>2, Least DEF FirstError, Check
  <1>4. Told(error) /\ (error = "ok" => ~b /\ ~c)
    BY <1>3, InactiveCodes DEF Check, Told, a
  <1>5. IF error # "ok" THEN Raise(error)
        ELSE gpc' = "pre" /\ task' = "running" /\ UNCHANGED outcome
    BY Zenon DEF NextHop, error
  <1> QED
    BY <1>4, <1>5 DEF Raise, b, c

(* The last check before an attempt: allowed, and within the budgets.      *)
LEMMA AdmitEffect ==
  ASSUME PolicyAdmitsAddresses
  PROVE  \/ /\ gpc' = "done" /\ outcome' # "ok" /\ UNCHANGED <<tVars, dialed>>
            /\ \/ Told(outcome')
               \/ BudgetError = "ok" /\ ~AttemptValid(Remaining)
         \/ /\ gpc' = "attempt" /\ task = "allowed" /\ AttemptValid(Remaining) /\ UNCHANGED outcome
            /\ dialed' = dialed \cup {[url |-> url, address |-> res.addresses[1],
                                       answer |-> ToSet(res.addresses), attempt |-> Remaining,
                                       requests |-> use.requests]}
            /\ \/ TransportBegins(Remaining)
               \/ /\ tpc' = "off" /\ ta' = Nothing /\ tread' = 0
                  /\ twriter' = "none" /\ tout' = "pending" /\ UNCHANGED tx
  <1> DEFINE error == FirstError(<< <<PolicyError(task) # "ok", PolicyError(task)>>,
                                <<BudgetError # "ok", BudgetError>>,
                                <<~AttemptValid(Remaining), "ValueError">> >>)
  <1> DEFINE a == PolicyError(task) # "ok"
             b == BudgetError # "ok"
             c == ~AttemptValid(Remaining)
  <1>1. error = FirstError(<< <<a, PolicyError(task)>>, <<b, BudgetError>>,
                            <<c, "ValueError">> >>)
    OBVIOUS
  <1>2. a \in BOOLEAN /\ b \in BOOLEAN /\ c \in BOOLEAN
    OBVIOUS
  <1> HIDE DEF error, a, b, c
  <1>3. error = Check(a, PolicyError(task), Check(b, BudgetError,
                Check(c, "ValueError", "ok")))
    BY <1>1, <1>2, Least DEF FirstError, Check
  <1>4. /\ Told(error) \/ (~b /\ c)
        /\ error = "ok" => ~a /\ ~c
    <2>1. CASE a
      BY <1>3, <2>1, PolicyErrorCodes DEF Check, Told, a
    <2>2. CASE ~a /\ b
      BY <1>3, <2>2, BudgetErrorCodes DEF Check, Told, b
    <2>3. CASE ~a /\ ~b
      BY <1>3, <2>3 DEF Check, Told
    <2> QED
      BY <2>1, <2>2, <2>3
  <1>5. IF error # "ok" THEN Raise(error) /\ UNCHANGED <<tVars, dialed>>
        ELSE /\ gpc' = "attempt" /\ task' = "running" /\ UNCHANGED outcome
             /\ dialed' = dialed \cup {[url |-> url, address |-> res.addresses[1],
                                        answer |-> ToSet(res.addresses), attempt |-> Remaining,
                                        requests |-> use.requests]}
             /\ \/ TransportBegins(Remaining)
                \/ /\ tpc' = "off" /\ ta' = Nothing /\ tread' = 0
                   /\ twriter' = "none" /\ tout' = "pending" /\ UNCHANGED tx
    BY Zenon DEF PolicyAdmitsAddresses, error
  <1>6. CASE error # "ok"
    BY <1>4, <1>5, <1>6 DEF Raise, b, c
  <1>7. CASE error = "ok"
    BY <1>4, <1>5, <1>7, PolicyErrorCodes DEF a, c
  <1> QED
    BY <1>6, <1>7

-----------------------------------------------------------------------------
(* The transport keeps its accounts.                                       *)

(* The smaller and the larger of two numbers.                              *)
LEMMA TwoNumbers ==
  ASSUME NEW x \in Int, NEW y \in Int
  PROVE  /\ Min({x, y}) = IF x <= y THEN x ELSE y
         /\ Max({x, y}) = IF x >= y THEN x ELSE y
  BY DEF Min, Max

(* A failed attempt has nothing to account for.                            *)
LEMMA FailKeeps ==
  ASSUME NEW code, code # "ok", Fail(code), Sizes'
  PROVE  ReadInv' /\ SpendInv' /\ FramingInv'
  <1>1. tpc' = "done" /\ tout' # "ok"
    BY DEF Fail
  <1>2. ReadInv'
    BY <1>1 DEF ReadInv
  <1>3. SpendInv'
    BY <1>1 DEF SpendInv, TActive, HandedOver, Heading
  <1>4. FramingInv'
    BY <1>1 DEF FramingInv, Complete, HandedOver, Reading
  <1> QED
    BY <1>2, <1>3, <1>4

(* A head that passes is well-formed and within what is left.              *)
LEMMA HeadPasses ==
  ASSUME NEW h, NEW wire, NEW header, HeadError(h, wire, header) = "ok"
  PROVE  /\ ~(h.line + 4 + header[1] > wire) /\ h.status \in 100 .. 599
         /\ ~(header[2] > tx.header - ta.header) /\ h.raw # "incomplete"
  <1> DEFINE a == h.raw = "overrun"
             b == h.raw = "incomplete"
             c == h.line + 4 + header[1] > wire
             d == h.raw = "malformed" \/ h.status \notin 100 .. 599
             e == header[2] > tx.header - ta.header
             f == h.status = 101
             g == h.status < 200 /\ ta.infos >= MaxInformational
  <1>1. HeadError(h, wire, header) = FirstError(<< <<a, "LimitExceeded">>,
                                                 <<b, "ResponseInvalid">>,
                                                 <<c, "LimitExceeded">>,
                                                 <<d, "ResponseInvalid">>,
                                                 <<e, "LimitExceeded">>,
                                                 <<f, "ResponseInvalid">>,
                                                 <<g, "ResponseInvalid">> >>)
    BY DEF HeadError
  <1>2. /\ a \in BOOLEAN /\ b \in BOOLEAN /\ c \in BOOLEAN /\ d \in BOOLEAN
        /\ e \in BOOLEAN /\ f \in BOOLEAN /\ g \in BOOLEAN
    OBVIOUS
  <1> HIDE DEF a, b, c, d, e, f, g
  <1>3. HeadError(h, wire, header) = Check(a, "LimitExceeded",
                                     Check(b, "ResponseInvalid",
                                     Check(c, "LimitExceeded",
                                     Check(d, "ResponseInvalid",
                                     Check(e, "LimitExceeded",
                                     Check(f, "ResponseInvalid",
                                     Check(g, "ResponseInvalid", "ok")))))))
    BY <1>1, <1>2, Least, SMTT(60) DEF FirstError, Check
  <1>4. ~b /\ ~c /\ ~d /\ ~e
    BY <1>3 DEF Check
  <1> QED
    BY <1>4 DEF b, c, d, e

(* What the length of a sequence says.                                     *)
LEMMA SequenceFacts ==
  ASSUME NEW S, NEW s \in Seq(S)
  PROVE  /\ Len(s) \in Nat /\ DOMAIN s = 1 .. Len(s)
         /\ s # << >> <=> Len(s) >= 1
         /\ Len(s) >= 1 => s[1] \in S
         /\ s # << >> /\ ~(Len(s) > 1) <=> Len(s) = 1
  <1> DEFINE n == Len(s)
  <1>1. n \in Nat /\ (s # << >> <=> n >= 1)
    OBVIOUS
  <1>2. s # << >> /\ ~(n > 1) <=> n = 1
    <2> HIDE DEF n
    <2> QED
      BY <1>1
  <1> QED
    BY <1>1, <1>2

(* What the framing of a final head promises.                              *)
Promise(framing, status, fields, wire) ==
  LET cl == Values(fields, "content-length")
      lo == Values(fields, "location")
  IN  /\ framing \in {"ResponseInvalid", "LimitExceeded", "omitted", "exact", "eof", "chunk"}
      /\ framing \notin {"ResponseInvalid", "LimitExceeded"} =>
           \/ lo # << >> /\ (Len(lo) > 1 \/ lo[1].ref = "empty")
           \/ (framing = "omitted") = Bodyless(status, fields, tx.method)
      /\ framing = "exact" => Len(cl) = 1 /\ cl[1] >= 0 /\ cl[1] <= tx.body /\ cl[1] <= wire
      /\ framing \in {"eof", "chunk"} => cl = << >>

(* _read_response_body keeps it.                                           *)
LEMMA FramingPromise ==
  ASSUME NEW status, NEW fields, AreFields(fields), NEW wire \in Int, tx.body \in Int
  PROVE  Promise(Framing(status, fields, wire), status, fields, wire)
  <1> DEFINE framing == Framing(status, fields, wire)
  <1> DEFINE te == Values(fields, "transfer-encoding")
             cl == Values(fields, "content-length")
             lo == Values(fields, "location")
  <1>1. cl \in Seq(Int) /\ lo \in Seq(ToSet(lo))
    BY DEF AreFields
  <1>2. /\ cl # << >> /\ ~(Len(cl) > 1) => Len(cl) = 1
        /\ lo # << >> /\ ~(Len(lo) > 1) => Len(lo) = 1
        /\ Len(lo) = 1 => lo # << >>
        /\ Len(cl) = 1 => cl[1] \in Int
    <2> HIDE DEF cl, lo
    <2>1. cl # << >> /\ ~(Len(cl) > 1) => Len(cl) = 1
      BY <1>1, SequenceFacts
    <2>2. Len(cl) = 1 => cl[1] \in Int
      BY <1>1, SequenceFacts
    <2>3. lo # << >> /\ ~(Len(lo) > 1) => Len(lo) = 1
      BY <1>1, SequenceFacts
    <2>4. Len(lo) = 1 => lo # << >>
      BY <1>1, SequenceFacts
    <2> QED
      BY <2>1, <2>2, <2>3, <2>4
  <1>3. Bodyless(status, fields, tx.method)
          <=> OmitsBody(tx.method, status) \/ (status \in RedirectStatuses /\ lo # << >>)
    BY DEF Bodyless
  <1>4. framing = IF \/ Len(te) > 1 \/ Len(cl) > 1
                     \/ te # << >> /\ cl # << >>
                  THEN "ResponseInvalid"
                  ELSE IF OmitsBody(tx.method, status) THEN "omitted"
                  ELSE IF status \in RedirectStatuses /\ Len(lo) > 1 THEN "ResponseInvalid"
                  ELSE IF status \in RedirectStatuses /\ Len(lo) = 1 /\ lo[1].ref # "empty"
                       THEN "omitted"
                  ELSE IF te # << >> THEN IF te[1] = "chunked" THEN "chunk" ELSE "ResponseInvalid"
                  ELSE IF cl = << >> THEN "eof"
                  ELSE IF ~ContentLengthValid(cl[1]) THEN "ResponseInvalid"
                  ELSE IF cl[1] > tx.body \/ cl[1] > wire THEN "LimitExceeded"
                  ELSE "exact"
    BY DEF Framing
  <1> HIDE DEF framing, te, cl, lo
  <1>5. framing \in {"ResponseInvalid", "LimitExceeded", "omitted", "exact", "eof", "chunk"}
    BY <1>4
  <1>6. framing \notin {"ResponseInvalid", "LimitExceeded"} =>
          \/ lo # << >> /\ (Len(lo) > 1 \/ lo[1].ref = "empty")
          \/ (framing = "omitted") = Bodyless(status, fields, tx.method)
    <2>1. Bodyless(status, fields, tx.method) \in BOOLEAN
      BY DEF Bodyless
    <2> QED
      BY <1>2, <1>3, <1>4, <2>1
  <1>7. framing = "exact" => Len(cl) = 1 /\ cl[1] >= 0 /\ cl[1] <= tx.body /\ cl[1] <= wire
    BY <1>2, <1>4 DEF ContentLengthValid
  <1>8. framing \in {"eof", "chunk"} => cl = << >>
    BY <1>4
  <1> QED
    BY <1>5, <1>6, <1>7, <1>8 DEF Promise, framing, cl, lo

(* The location a response carries is a matter of its fields.              *)
LEMMA LocationOfFields ==
  ASSUME NEW r, NEW s, r.fields = s.fields
  PROVE  LocationError(r) = LocationError(s)
  BY DEF LocationError

(* Heads are counted, and the final one fixes the framing.                 *)
LEMMA ReadHeadKeeps ==
  ASSUME ReadInv, SpendInv, FramingInv, ReadHead
  PROVE  ReadInv' /\ SpendInv' /\ FramingInv'
  <1> DEFINE raw(h) == RawHeadersSize(h.fields)
             counted(h) == Max({raw(h), HeadersSize(h.fields)})
             wire(h) == h.line + 4 + raw(h)
             error(h) == HeadError(h, tx.wire - ta.metaWire, <<raw(h), counted(h)>>)
             framing(h) == Framing(h.status, h.fields, tx.wire - ta.metaWire - wire(h))
             read(h) == [ta EXCEPT !.status = h.status, !.fields = h.fields,
                           !.infos = @ + (IF h.status < 200 THEN 1 ELSE 0),
                           !.header = @ + counted(h), !.headerWire = @ + raw(h),
                           !.metaWire = @ + wire(h), !.omitted = framing(h) = "omitted",
                           !.coding = h.coding]
  <1>1. tpc = "head" /\ UNCHANGED tx
    BY DEF ReadHead
  <1>2. PICK h \in Peer.heads :
          /\ tread' = tread + (IF h.raw = "incomplete" THEN 0 ELSE wire(h))
          /\ IF error(h) # "ok" THEN Fail(error(h)) /\ UNCHANGED ta
             ELSE IF h.status < 200 THEN ta' = read(h) /\ UNCHANGED <<tpc, twriter, tout>>
             ELSE IF framing(h) \in {"ResponseInvalid", "LimitExceeded"}
                  THEN Fail(framing(h)) /\ UNCHANGED ta
             ELSE /\ ta' = read(h)
                  /\ tpc' = IF framing(h) = "omitted" THEN "finish" ELSE framing(h)
                  /\ UNCHANGED <<twriter, tout>>
    BY Zenon DEF ReadHead
  <1>3. /\ raw(h) \in Nat /\ counted(h) \in Nat /\ counted(h) >= raw(h)
        /\ h.line \in Nat /\ wire(h) \in Nat /\ AreFields(h.fields)
    <2>1. h.line \in Nat /\ AreFields(h.fields)
      BY PeerSendsBytes
    <2>2. raw(h) \in Nat /\ HeadersSize(h.fields) \in Nat
      BY <2>1 DEF AreFields
    <2> HIDE DEF raw
    <2>3. counted(h) \in Nat /\ counted(h) >= raw(h)
      BY <2>2 DEF Max
    <2> QED
      BY <2>1, <2>2, <2>3
  <1> HIDE DEF raw, counted
  <1>4. tread' \in Nat
    BY <1>2, <1>3 DEF ReadInv, Sizes
  <1>5. CASE error(h) # "ok"
    <2> HIDE DEF error
    <2>1. Fail(error(h)) /\ UNCHANGED ta
      BY <1>2, <1>5
    <2>2. Sizes'
      BY <1>1, <1>4, <2>1 DEF ReadInv, Sizes
    <2> QED
      BY <1>5, <2>1, <2>2, FailKeeps
  <1>6. CASE error(h) = "ok" /\ ~(h.status < 200) /\ framing(h) \in {"ResponseInvalid", "LimitExceeded"}
    <2> HIDE DEF error, framing
    <2>1. Fail(framing(h)) /\ UNCHANGED ta
      BY <1>2, <1>6
    <2>2. Sizes'
      BY <1>1, <1>4, <2>1 DEF ReadInv, Sizes
    <2> QED
      BY <1>6, <2>1, <2>2, FailKeeps
  <1>7. ASSUME error(h) = "ok", ta' = read(h)
        PROVE  /\ ta'.status = h.status /\ ta'.fields = h.fields
               /\ ta'.header = ta.header + counted(h) /\ ta'.headerWire = ta.headerWire + raw(h)
               /\ ta'.metaWire = ta.metaWire + wire(h) /\ ta'.body = ta.body
               /\ ta'.bodyWire = ta.bodyWire /\ ta'.trailer = ta.trailer
               /\ ta'.trailerWire = ta.trailerWire /\ DOMAIN ta' = DOMAIN Nothing
               /\ ta'.omitted = (framing(h) = "omitted")
               /\ ta.metaWire + wire(h) <= tx.wire /\ ta.header + counted(h) <= tx.header
               /\ tread' = tread + wire(h) /\ h.status \in 100 .. 599
    <2> HIDE DEF framing, wire
    <2>1. /\ ta'.status = h.status /\ ta'.fields = h.fields
          /\ ta'.header = ta.header + counted(h) /\ ta'.headerWire = ta.headerWire + raw(h)
          /\ ta'.metaWire = ta.metaWire + wire(h) /\ ta'.body = ta.body
          /\ ta'.bodyWire = ta.bodyWire /\ ta'.trailer = ta.trailer
          /\ ta'.trailerWire = ta.trailerWire /\ DOMAIN ta' = DOMAIN Nothing
          /\ ta'.omitted = (framing(h) = "omitted")
      BY <1>7 DEF ReadInv, Sizes, Nothing
    <2>2. /\ ~(h.line + 4 + raw(h) > tx.wire - ta.metaWire) /\ h.status \in 100 .. 599
          /\ ~(counted(h) > tx.header - ta.header) /\ h.raw # "incomplete"
      BY <1>7, HeadPasses DEF error
    <2>3. /\ ta.metaWire + wire(h) <= tx.wire /\ ta.header + counted(h) <= tx.header
      BY <1>3, <2>2 DEF ReadInv, Sizes, wire
    <2>4. tread' = tread + wire(h)
      BY <1>2, <2>2
    <2> QED
      BY <2>1, <2>2, <2>3, <2>4
  <1> HIDE DEF error, framing, read, wire
  <1>8. ASSUME error(h) = "ok", ta' = read(h)
        PROVE  tpc' \in {"head", "finish", "exact", "eof", "chunk"} => ReadInv' /\ SpendInv'
    <2>1. SUFFICES ASSUME tpc' \in {"head", "finish", "exact", "eof", "chunk"}
                   PROVE  ReadInv' /\ SpendInv'
      OBVIOUS
    <2>2. ReadInv'
      BY <1>1, <1>3, <1>4, <1>7, <1>8, <2>1 DEF ReadInv, Sizes, Heading, Reading
    <2>3. SpendInv'
      BY <1>1, <1>3, <1>7, <1>8, <2>1 DEF ReadInv, Sizes, SpendInv, TActive, HandedOver, Heading
    <2> QED
      BY <2>2, <2>3
  <1>9. CASE error(h) = "ok" /\ h.status < 200
    <2>1. ta' = read(h) /\ tpc' = "head"
      BY <1>1, <1>2, <1>9
    <2>2. FramingInv'
      BY <2>1 DEF FramingInv, Complete, HandedOver, Reading
    <2> QED
      BY <1>8, <1>9, <2>1, <2>2
  <1>10. CASE error(h) = "ok" /\ ~(h.status < 200) /\ framing(h) \notin {"ResponseInvalid", "LimitExceeded"}
    <2>1. ta' = read(h) /\ tpc' = IF framing(h) = "omitted" THEN "finish" ELSE framing(h)
      BY <1>2, <1>10
    <2>2. tx.wire - ta.metaWire - wire(h) \in Int /\ tx.body \in Int
      BY <1>3 DEF ReadInv, Sizes
    <2> DEFINE cl == Values(h.fields, "content-length")
               lo == Values(h.fields, "location")
    <2>3. /\ framing(h) \in {"omitted", "exact", "eof", "chunk"}
          /\ \/ lo # << >> /\ (Len(lo) > 1 \/ lo[1].ref = "empty")
             \/ (framing(h) = "omitted") = Bodyless(h.status, h.fields, tx.method)
          /\ framing(h) = "exact" => /\ Len(cl) = 1 /\ cl[1] >= 0 /\ cl[1] <= tx.body
                                     /\ cl[1] <= tx.wire - ta.metaWire - wire(h)
          /\ framing(h) \in {"eof", "chunk"} => cl = << >>
      <3>1. Promise(framing(h), h.status, h.fields, tx.wire - ta.metaWire - wire(h))
        BY <1>3, <2>2, FramingPromise DEF framing
      <3> QED
        BY <1>10, <3>1 DEF Promise
    <2>4. ReadInv' /\ SpendInv'
      BY <1>8, <1>10, <2>1, <2>3
    <2>5. /\ ta'.status = h.status /\ ta'.fields = h.fields /\ tx' = tx
          /\ ta'.omitted = (framing(h) = "omitted") /\ ta'.metaWire = ta.metaWire + wire(h)
      BY <1>1, <1>7, <1>10, <2>1
    <2>6. \/ LocationError(Response') # "ok"
          \/ ta'.omitted = Bodyless(ta'.status, ta'.fields, tx'.method)
      <3>1. Response'.fields = h.fields
        BY <2>5 DEF Response
      <3>2. lo # << >> /\ (Len(lo) > 1 \/ lo[1].ref = "empty") => LocationError(Response') # "ok"
        BY <3>1, LocationCodes
      <3> QED
        BY <2>3, <2>5, <3>2
    <2>7. Length' = cl
      BY <2>5 DEF Length
    <2>8. (tpc' \in Reading => ta'.omitted = FALSE) /\ (tpc' = "finish" => ta'.omitted = TRUE)
      BY <2>1, <2>3, <2>5 DEF Reading
    <2>9. tpc' = "exact" => /\ Len(Length') = 1 /\ Length'[1] >= 0 /\ Length'[1] <= tx'.body
                            /\ Length'[1] + ta'.metaWire <= tx'.wire
      <3>1. SUFFICES ASSUME framing(h) = "exact"
                     PROVE  cl[1] + (ta.metaWire + wire(h)) <= tx.wire
        BY <2>1, <2>3, <2>5, <2>7
      <3>2. cl[1] \in Int
        BY <1>3, <2>3, <3>1, SequenceFacts DEF AreFields
      <3> HIDE DEF cl
      <3> QED
        BY <1>3, <2>3, <3>1, <3>2 DEF ReadInv, Sizes
    <2>10. tpc' \in {"eof", "chunk", "trailer"} => Length' = << >>
      BY <2>1, <2>3, <2>7
    <2>11. tpc' \notin {"done", "close"}
      BY <2>1, <2>3
    <2>12. AreFields(ta'.fields)
      BY <1>3, <2>5
    <2>13. FramingInv'
      <3> HIDE DEF cl, lo
      <3> QED
        BY <2>6, <2>8, <2>9, <2>10, <2>11, <2>12 DEF FramingInv, Complete, HandedOver
    <2> QED
      BY <2>4, <2>13
  <1> QED
    BY <1>5, <1>6, <1>9, <1>10

(* A body reader leaves what the head said alone.                          *)
SameHead ==
  /\ ta'.status = ta.status /\ ta'.fields = ta.fields /\ ta'.omitted = ta.omitted
  /\ DOMAIN ta' = DOMAIN Nothing /\ tx' = tx

(* The framing survives the reading of a body that ends as it says.        *)
LEMMA BodyFraming ==
  ASSUME FramingInv, tpc \in Reading, SameHead, tpc' \in {"eof", "chunk", "trailer", "finish"},
         tpc' # "finish" => Length = << >>,
         tpc' = "finish" => Length = << >> \/ Length[1] = ta'.body
  PROVE  FramingInv'
  <1>1. Length' = Length /\ Response'.fields = Response.fields
    BY DEF Length, Response, SameHead
  <1>2. LocationError(Response') = LocationError(Response)
    BY <1>1, LocationOfFields
  <1>3. /\ AreFields(ta.fields) /\ ta.omitted = FALSE
        /\ LocationError(Response) # "ok" \/ ta.omitted = Bodyless(ta.status, ta.fields, tx.method)
    BY DEF FramingInv
  <1> QED
    BY <1>1, <1>2, <1>3 DEF FramingInv, Complete, HandedOver, SameHead

(* So do the accounts while it is within the limits.                       *)
LEMMA BodyCounted ==
  ASSUME ReadInv, SpendInv, tpc \in Reading, SameHead,
         NEW n \in Nat, NEW w \in Nat, n <= w, tpc \in {"exact", "eof"} => n = w,
         ta'.body = ta.body + n, ta'.bodyWire = ta.bodyWire + w, tread' = tread + w,
         ta'.header = ta.header, ta'.headerWire = ta.headerWire, ta'.metaWire = ta.metaWire,
         ta'.trailer = ta.trailer, ta'.trailerWire = ta.trailerWire
  PROVE  /\ Sizes'
         /\ (/\ ta.body + n <= tx.body /\ tread + w <= tx.wire
             /\ tpc' \in {"eof", "chunk", "trailer", "finish"}
             /\ tpc' # "finish" => tpc' = tpc \/ (tpc = "chunk" /\ tpc' = "trailer"))
            => ReadInv' /\ SpendInv'
  <1>1. Sizes'
    BY DEF ReadInv, Sizes, SameHead
  <1>2. ASSUME ta.body + n <= tx.body, tread + w <= tx.wire,
               tpc' \in {"eof", "chunk", "trailer", "finish"},
               tpc' # "finish" => tpc' = tpc \/ (tpc = "chunk" /\ tpc' = "trailer")
        PROVE  ReadInv' /\ SpendInv'
    <2>1. ReadInv'
      BY <1>1, <1>2 DEF ReadInv, Reading
    <2>2. SpendInv'
      BY <1>2 DEF ReadInv, Sizes, SpendInv, SameHead, TActive, HandedOver, Heading, Reading
    <2> QED
      BY <2>1, <2>2
  <1> QED
    BY <1>1, <1>2

(* _read_exactly *)
LEMMA ReadExactKeeps ==
  ASSUME ReadInv, SpendInv, FramingInv, ReadExact
  PROVE  ReadInv' /\ SpendInv' /\ FramingInv'
  <1>1. tpc = "exact" /\ tpc \in Reading /\ UNCHANGED tx
    BY DEF ReadExact, Reading
  <1>2. /\ Length[1] \in Nat /\ Length[1] <= tx.body /\ Length[1] + ta.metaWire <= tx.wire
    <2>1. Length \in Seq(Int) /\ Len(Length) = 1 /\ Length[1] >= 0
      BY <1>1 DEF FramingInv, AreFields, Length
    <2>2. Length[1] \in Int
      BY <2>1, SequenceFacts
    <2> QED
      BY <1>1, <2>1, <2>2 DEF FramingInv
  <1>3. CASE Fail("ResponseInvalid") /\ UNCHANGED <<ta, tread>>
    <2>1. Sizes'
      BY <1>1, <1>3 DEF ReadInv, Sizes
    <2> QED
      BY <1>3, <2>1, FailKeeps
  <1>4. CASE BodyRead(Length[1], Length[1]) /\ tpc' = "finish" /\ UNCHANGED <<twriter, tout>>
    <2> DEFINE n == Length[1]
    <2>0. n \in Nat /\ n <= tx.body /\ n + ta.metaWire <= tx.wire
      BY <1>2
    <2>1. ta' = [ta EXCEPT !.body = @ + n, !.bodyWire = @ + n] /\ tread' = tread + n /\ tpc' = "finish"
      BY <1>4 DEF BodyRead
    <2> HIDE DEF n
    <2>2. /\ SameHead /\ ta'.body = ta.body + n /\ ta'.bodyWire = ta.bodyWire + n
          /\ ta'.header = ta.header /\ ta'.headerWire = ta.headerWire /\ ta'.metaWire = ta.metaWire
          /\ ta'.trailer = ta.trailer /\ ta'.trailerWire = ta.trailerWire
      BY <1>1, <2>1 DEF ReadInv, Sizes, Nothing, SameHead
    <2>3. ta.body = 0 /\ tread = ta.metaWire
      BY <1>1 DEF ReadInv, Sizes, SpendInv, TActive, Heading
    <2>4. ReadInv' /\ SpendInv'
      <3>1. ta.body + n <= tx.body /\ tread + n <= tx.wire
        BY <2>0, <2>3 DEF ReadInv, Sizes
      <3> QED
        BY <1>1, <2>0, <2>1, <2>2, <3>1, BodyCounted
    <2>5. Length[1] = ta'.body
      BY <2>0, <2>2, <2>3 DEF n
    <2> QED
      BY <1>1, <2>1, <2>2, <2>4, <2>5, BodyFraming
  <1> QED
    BY <1>3, <1>4 DEF ReadExact, Length

(* _read_to_eof *)
LEMMA ReadToEofKeeps ==
  ASSUME ReadInv, SpendInv, FramingInv, ReadToEof
  PROVE  ReadInv' /\ SpendInv' /\ FramingInv'
  <1> DEFINE most == Min({tx.body, tx.wire - ta.metaWire})
  <1>1. tpc = "eof" /\ tpc \in Reading /\ UNCHANGED tx /\ Length = << >>
    BY DEF ReadToEof, Reading, FramingInv
  <1>2. most <= tx.body /\ most <= tx.wire - ta.metaWire /\ most \in Int
    BY DEF ReadInv, Sizes, Min
  <1>3. \/ tpc' = "finish" /\ UNCHANGED <<ta, tread, twriter, tout>>
        \/ \E n \in Peer.pieces :
             /\ BodyRead(n, n)
             /\ IF ta.body + n > most
                THEN Fail("LimitExceeded") ELSE UNCHANGED <<tpc, twriter, tout>>
    BY DEF ReadToEof
  <1> HIDE DEF most
  <1>4. CASE tpc' = "finish" /\ UNCHANGED <<ta, tread, twriter, tout>>
    <2>1. SameHead
      BY <1>1, <1>4 DEF SameHead, ReadInv, Sizes
    <2>2. FramingInv'
      BY <1>1, <1>4, <2>1, BodyFraming
    <2> QED
      BY <1>1, <1>4, <2>2 DEF ReadInv, Sizes, SpendInv, TActive, HandedOver, Heading, Reading
  <1>5. ASSUME NEW n \in Peer.pieces, BodyRead(n, n),
               IF ta.body + n > most THEN Fail("LimitExceeded") ELSE UNCHANGED <<tpc, twriter, tout>>
        PROVE  ReadInv' /\ SpendInv' /\ FramingInv'
    <2>1. n \in Nat
      BY PeerSendsBytes
    <2>2. /\ SameHead /\ ta'.body = ta.body + n /\ ta'.bodyWire = ta.bodyWire + n
          /\ ta'.header = ta.header /\ ta'.headerWire = ta.headerWire /\ ta'.metaWire = ta.metaWire
          /\ ta'.trailer = ta.trailer /\ ta'.trailerWire = ta.trailerWire /\ tread' = tread + n
      BY <1>1, <1>5 DEF ReadInv, Sizes, Nothing, SameHead, BodyRead
    <2>3. Sizes'
      BY <1>1, <2>1, <2>2, BodyCounted
    <2>4. CASE ta.body + n > most
      BY <1>5, <2>3, <2>4, FailKeeps
    <2>5. CASE ~(ta.body + n > most)
      <3>a. /\ ta.body \in Nat /\ ta.metaWire \in Int /\ tread = ta.metaWire + ta.body
            /\ tx.body \in Int /\ tx.wire \in Int
        BY <1>1 DEF ReadInv, Sizes, SpendInv, TActive
      <3>1. ta.body + n <= tx.body /\ tread + n <= tx.wire
        BY <1>2, <2>1, <2>5, <3>a
      <3>2. tpc' = "eof"
        BY <1>1, <1>5, <2>5
      <3>3. ReadInv' /\ SpendInv'
        BY <1>1, <2>1, <2>2, <3>1, <3>2, BodyCounted
      <3> QED
        BY <1>1, <2>2, <3>2, <3>3, BodyFraming
    <2> QED
      BY <2>4, <2>5
  <1> QED
    BY <1>3, <1>4, <1>5

(* _read_chunked_body *)
LEMMA ReadChunkKeeps ==
  ASSUME ReadInv, SpendInv, FramingInv, ReadChunk
  PROVE  ReadInv' /\ SpendInv' /\ FramingInv'
  <1> DEFINE line(c) == c.digits + 2
             left(c) == tx.wire - ta.metaWire - ta.bodyWire - line(c)
             error(c) == FirstError(<<
               <<c.raw = "overrun", "LimitExceeded">>,
               <<c.raw = "incomplete", "ResponseInvalid">>,
               <<left(c) < 0, "LimitExceeded">>,
               <<c.raw \in {"extension", "malformed"}, "ResponseInvalid">>,
               <<c.size > 0 /\ c.size > tx.body - ta.body, "LimitExceeded">>,
               <<c.size > 0 /\ c.size + 2 > left(c), "LimitExceeded">>,
               <<c.size > 0 /\ c.raw \in {"short", "unterminated"}, "ResponseInvalid">> >>)
             cost(c) == IF c.size = 0 THEN line(c) ELSE line(c) + c.size + 2
  <1>1. tpc = "chunk" /\ tpc \in Reading /\ UNCHANGED tx /\ Length = << >>
    BY DEF ReadChunk, Reading, FramingInv
  <1>2. PICK x \in Peer.chunks :
          IF error(x) # "ok" THEN Fail(error(x)) /\ UNCHANGED <<ta, tread>>
          ELSE /\ BodyRead(x.size, cost(x))
               /\ tpc' = IF x.size = 0 THEN "trailer" ELSE "chunk"
               /\ UNCHANGED <<twriter, tout>>
    BY Zenon DEF ReadChunk
  <1>3. x.digits \in Nat /\ x.size \in Nat
    BY PeerSendsBytes
  <1>4. error(x) = "ok" => /\ ~(left(x) < 0) /\ ~(x.size > 0 /\ x.size > tx.body - ta.body)
                           /\ ~(x.size > 0 /\ x.size + 2 > left(x))
    <2> DEFINE a == x.raw = "overrun"
               b == x.raw = "incomplete"
               c == left(x) < 0
               d == x.raw \in {"extension", "malformed"}
               e == x.size > 0 /\ x.size > tx.body - ta.body
               f == x.size > 0 /\ x.size + 2 > left(x)
               g == x.size > 0 /\ x.raw \in {"short", "unterminated"}
    <2>1. error(x) = FirstError(<< <<a, "LimitExceeded">>, <<b, "ResponseInvalid">>,
                                 <<c, "LimitExceeded">>, <<d, "ResponseInvalid">>,
                                 <<e, "LimitExceeded">>, <<f, "LimitExceeded">>,
                                 <<g, "ResponseInvalid">> >>)
      OBVIOUS
    <2>2. /\ a \in BOOLEAN /\ b \in BOOLEAN /\ c \in BOOLEAN /\ d \in BOOLEAN
          /\ e \in BOOLEAN /\ f \in BOOLEAN /\ g \in BOOLEAN
      OBVIOUS
    <2> HIDE DEF error, left, a, b, c, d, e, f, g
    <2>3. error(x) = Check(a, "LimitExceeded", Check(b, "ResponseInvalid",
                     Check(c, "LimitExceeded", Check(d, "ResponseInvalid",
                     Check(e, "LimitExceeded", Check(f, "LimitExceeded",
                     Check(g, "ResponseInvalid", "ok")))))))
      BY <2>1, <2>2, Least, SMTT(60) DEF FirstError, Check
    <2>4. error(x) = "ok" => ~c /\ ~e /\ ~f
      BY <2>3 DEF Check
    <2> QED
      BY <2>4 DEF c, e, f
  <1> HIDE DEF error
  <1>5. CASE error(x) # "ok"
    <2>1. Sizes'
      BY <1>1, <1>2, <1>5 DEF ReadInv, Sizes
    <2> QED
      BY <1>2, <1>5, <2>1, FailKeeps
  <1>6. CASE error(x) = "ok"
    <2> DEFINE n == x.size
               w == cost(x)
    <2>1. n \in Nat /\ w \in Nat /\ n <= w
      BY <1>3
    <2>2. ta.body + n <= tx.body /\ tread + w <= tx.wire
      <3>1. ta.body + n <= tx.body
        <4>1. ta.body \in Nat /\ tx.body \in Int /\ ta.body <= tx.body
          BY <1>1 DEF ReadInv, Sizes, SpendInv, TActive
        <4> QED
          BY <1>3, <1>4, <1>6, <4>1
      <3>2. tread = ta.metaWire + ta.bodyWire /\ tread \in Nat /\ tx.wire \in Int
        BY <1>1 DEF ReadInv, Sizes, SpendInv, TActive
      <3>3. tread + w <= tx.wire
        BY <1>3, <1>4, <1>6, <3>2 DEF ReadInv, Sizes
      <3> QED
        BY <3>1, <3>3
    <2>3. /\ BodyRead(n, w) /\ tpc' \in {"chunk", "trailer"}
      BY <1>2, <1>6
    <2> HIDE DEF n, w
    <2>4. /\ SameHead /\ ta'.body = ta.body + n /\ ta'.bodyWire = ta.bodyWire + w
          /\ ta'.header = ta.header /\ ta'.headerWire = ta.headerWire /\ ta'.metaWire = ta.metaWire
          /\ ta'.trailer = ta.trailer /\ ta'.trailerWire = ta.trailerWire /\ tread' = tread + w
      BY <1>1, <2>3 DEF ReadInv, Sizes, Nothing, SameHead, BodyRead
    <2>5. ReadInv' /\ SpendInv'
      BY <1>1, <2>1, <2>2, <2>3, <2>4, BodyCounted
    <2> QED
      BY <1>1, <2>3, <2>4, <2>5, BodyFraming
  <1> QED
    BY <1>5, <1>6

(* _read_trailers *)
LEMMA ReadTrailerKeeps ==
  ASSUME ReadInv, SpendInv, FramingInv, ReadTrailer
  PROVE  ReadInv' /\ SpendInv' /\ FramingInv'
  <1> DEFINE size(t) == IF t.end THEN 2 ELSE RawFieldSize(t.field)
             logical(t) == ta.trailer + FieldSize(t.field)
             raw(t) == ta.trailerWire + RawFieldSize(t.field)
             budget == tx.header - ta.header
             error(t) == FirstError(<<
               <<t.raw = "incomplete", "ResponseInvalid">>,
               <<size(t) > budget + 2, "LimitExceeded">>,
               <<size(t) > tx.wire - ta.metaWire - ta.bodyWire, "LimitExceeded">>,
               <<~t.end /\ t.raw = "malformed", "ResponseInvalid">>,
               <<~t.end /\ Max({logical(t), raw(t)}) > budget, "LimitExceeded">> >>)
  <1>1. tpc = "trailer" /\ tpc \in Reading /\ UNCHANGED tx /\ Length = << >>
    BY DEF ReadTrailer, Reading, FramingInv
  <1>2. PICK x \in Peer.trailers :
          /\ tread' = tread + size(x)
          /\ IF error(x) # "ok" THEN Fail(error(x)) /\ UNCHANGED ta
             ELSE IF x.end
             THEN /\ ta' = [ta EXCEPT !.metaWire = @ + 2,
                                      !.header = @ + Max({ta.trailer, ta.trailerWire}),
                                      !.headerWire = @ + ta.trailerWire]
                  /\ tpc' = "finish" /\ UNCHANGED <<twriter, tout>>
             ELSE /\ ta' = [ta EXCEPT !.trailer = logical(x), !.trailerWire = raw(x),
                                      !.metaWire = @ + size(x)]
                  /\ UNCHANGED <<tpc, twriter, tout>>
    BY Zenon DEF ReadTrailer
  <1>3. RawFieldSize(x.field) \in Nat /\ FieldSize(x.field) \in Nat
    BY PeerSendsBytes DEF RawFieldSize, FieldSize
  <1>4. size(x) \in Nat /\ tread' \in Nat
    BY <1>2, <1>3 DEF ReadInv, Sizes
  <1>5. error(x) = "ok" => /\ ~(size(x) > tx.wire - ta.metaWire - ta.bodyWire)
                           /\ ~(~x.end /\ Max({logical(x), raw(x)}) > budget)
    <2> DEFINE a == x.raw = "incomplete"
               b == size(x) > budget + 2
               c == size(x) > tx.wire - ta.metaWire - ta.bodyWire
               d == ~x.end /\ x.raw = "malformed"
               e == ~x.end /\ Max({logical(x), raw(x)}) > budget
    <2>1. error(x) = FirstError(<< <<a, "ResponseInvalid">>, <<b, "LimitExceeded">>,
                                 <<c, "LimitExceeded">>, <<d, "ResponseInvalid">>,
                                 <<e, "LimitExceeded">> >>)
      OBVIOUS
    <2>2. /\ a \in BOOLEAN /\ b \in BOOLEAN /\ c \in BOOLEAN /\ d \in BOOLEAN
          /\ e \in BOOLEAN
      OBVIOUS
    <2> HIDE DEF error, a, b, c, d, e
    <2>3. error(x) = Check(a, "ResponseInvalid", Check(b, "LimitExceeded",
                     Check(c, "LimitExceeded", Check(d, "ResponseInvalid",
                     Check(e, "LimitExceeded", "ok")))))
      BY <2>1, <2>2, Least DEF FirstError, Check
    <2>4. error(x) = "ok" => ~c /\ ~e
      BY <2>3 DEF Check
    <2> QED
      BY <2>4 DEF c, e
  <1> HIDE DEF error
  <1>6. CASE error(x) # "ok"
    <2>1. Sizes'
      BY <1>1, <1>2, <1>4, <1>6 DEF ReadInv, Sizes
    <2> QED
      BY <1>2, <1>6, <2>1, FailKeeps
  <1>7. /\ tread = ta.metaWire + ta.bodyWire /\ ta.metaWire \in Nat
        /\ ta.body <= tx.body /\ ta.header + ta.trailer <= tx.header
        /\ ta.header + ta.trailerWire <= tx.header
    BY <1>1 DEF ReadInv, Sizes, SpendInv, TActive
  <1>8. CASE error(x) = "ok" /\ x.end
    <2> DEFINE m == Max({ta.trailer, ta.trailerWire})
    <2>1. m \in Nat /\ ta.header + m <= tx.header
      <3>1. ta.trailer \in Nat /\ ta.trailerWire \in Nat
        BY DEF ReadInv, Sizes
      <3>2. m \in {ta.trailer, ta.trailerWire}
        BY <3>1 DEF Max
      <3> QED
        BY <1>7, <3>1, <3>2
    <2>2. ta' = [ta EXCEPT !.metaWire = @ + 2, !.header = @ + m, !.headerWire = @ + ta.trailerWire]
      BY <1>2, <1>8
    <2> HIDE DEF m
    <2>3. /\ SameHead /\ ta'.body = ta.body /\ ta'.bodyWire = ta.bodyWire
          /\ ta'.header = ta.header + m /\ ta'.headerWire = ta.headerWire + ta.trailerWire
          /\ ta'.metaWire = ta.metaWire + 2
          /\ ta'.trailer = ta.trailer /\ ta'.trailerWire = ta.trailerWire
      BY <1>1, <2>2 DEF ReadInv, Sizes, Nothing, SameHead
    <2>4. tpc' = "finish" /\ tread' = tread + 2 /\ tread + 2 <= tx.wire
      BY <1>2, <1>5, <1>7, <1>8 DEF ReadInv, Sizes
    <2>5. ReadInv'
      BY <1>4, <2>1, <2>3, <2>4 DEF ReadInv, Sizes, SameHead
    <2>6. SpendInv'
      BY <1>7, <2>1, <2>3, <2>4 DEF ReadInv, Sizes, SpendInv, SameHead, TActive, HandedOver, Heading
    <2> QED
      BY <1>1, <2>3, <2>4, <2>5, <2>6, BodyFraming
  <1>9. CASE error(x) = "ok" /\ ~x.end
    <2>1. logical(x) \in Nat /\ raw(x) \in Nat /\ size(x) = RawFieldSize(x.field)
      BY <1>3, <1>9 DEF ReadInv, Sizes
    <2>2. /\ ta' = [ta EXCEPT !.trailer = logical(x), !.trailerWire = raw(x), !.metaWire = @ + size(x)]
          /\ tpc' = tpc
      BY <1>2, <1>9
    <2>3. ~(Max({logical(x), raw(x)}) > budget) /\ ~(size(x) > tx.wire - ta.metaWire - ta.bodyWire)
      BY <1>5, <1>9
    <2> HIDE DEF logical, raw, size
    <2>4. ta.header + logical(x) <= tx.header /\ ta.header + raw(x) <= tx.header
      <3> DEFINE m == Max({logical(x), raw(x)})
      <3>1. m \in Int /\ m >= logical(x) /\ m >= raw(x)
        BY <2>1 DEF Max
      <3>2. ~(m > tx.header - ta.header) /\ tx.header \in Int /\ ta.header \in Int
        BY <2>3 DEF ReadInv, Sizes
      <3> HIDE DEF m
      <3> QED
        BY <2>1, <3>1, <3>2
    <2>5. /\ SameHead /\ ta'.body = ta.body /\ ta'.bodyWire = ta.bodyWire
          /\ ta'.header = ta.header /\ ta'.headerWire = ta.headerWire
          /\ ta'.metaWire = ta.metaWire + size(x)
          /\ ta'.trailer = logical(x) /\ ta'.trailerWire = raw(x)
      BY <1>1, <2>2 DEF ReadInv, Sizes, Nothing, SameHead
    <2>6. tread' = tread + size(x) /\ tread + size(x) <= tx.wire
      BY <1>2, <1>4, <1>7, <2>3 DEF ReadInv, Sizes
    <2>7. ReadInv'
      BY <1>4, <2>1, <2>2, <2>5 DEF ReadInv, Sizes, SameHead
    <2>8. SpendInv'
      <3>1. /\ tpc' = "trailer" /\ tx' = tx /\ ta'.metaWire >= 0 /\ tread' <= tx.wire
            /\ tread' = ta'.metaWire + ta'.bodyWire /\ ta'.header <= tx.header
        <4>1. /\ ta.bodyWire \in Nat /\ ta.trailer \in Nat /\ ta.header \in Nat
              /\ tx.header \in Int /\ size(x) \in Nat
          BY <1>4 DEF ReadInv, Sizes
        <4>2. ta'.metaWire >= 0 /\ tread' = ta'.metaWire + ta'.bodyWire
          BY <1>7, <2>5, <2>6, <4>1
        <4>3. ta'.header <= tx.header
          BY <1>7, <2>5, <4>1
        <4> QED
          BY <1>1, <2>2, <2>6, <4>2, <4>3
      <3> QED
        BY <1>7, <2>4, <2>5, <3>1 DEF SpendInv, TActive, HandedOver, Heading
    <2> QED
      BY <1>1, <2>2, <2>5, <2>7, <2>8, BodyFraming
  <1> QED
    BY <1>6, <1>8, <1>9

(* The steps that read nothing.                                            *)
LEMMA QuietKeeps ==
  ASSUME ReadInv, SpendInv, FramingInv,
         Connect \/ WriteRequest \/ BuildResponse \/ CloseGracefully \/ TransportTimeout
           \/ TransportDropped
  PROVE  ReadInv' /\ SpendInv' /\ FramingInv'
  <1>1. UNCHANGED <<tx, ta, tread>>
    BY DEF Connect, WriteRequest, BuildResponse, CloseGracefully, TransportTimeout, TransportDropped
  <1>2. Sizes'
    BY <1>1 DEF ReadInv, Sizes
  <1>3. CASE \E code \in {"Cancelled", "TransportFailed", "Timeout", "CancelledError"} : Fail(code)
    BY <1>2, <1>3, FailKeeps
  <1>4. CASE tpc \in {"connect", "write"} /\ tpc' \in {"write", "head"}
    BY <1>1, <1>2, <1>4 DEF ReadInv, SpendInv, FramingInv, TActive, HandedOver, Complete,
       Heading, Reading
  <1>5. CASE \/ tpc = "finish" /\ tpc' = "close" /\ EvidenceConsistent(Response)
             \/ tpc = "close" /\ tpc' = "done" /\ tout' = "ok"
    <2>1. Response' = Response /\ Length' = Length
      BY <1>1 DEF Response, Length
    <2>2. ReadInv' /\ SpendInv'
      BY <1>1, <1>2, <1>5 DEF ReadInv, SpendInv, TActive, HandedOver, Heading
    <2>3. EvidenceConsistent(Response) /\ Complete /\ Complete'
      BY <1>5 DEF FramingInv, Complete, HandedOver
    <2>4. FramingInv'
      BY <1>1, <1>5, <2>1, <2>3 DEF FramingInv, Complete, HandedOver, Reading
    <2> QED
      BY <2>2, <2>4
  <1> QED
    BY <1>3, <1>4, <1>5 DEF Connect, WriteRequest, BuildResponse, CloseGracefully,
       TransportTimeout, TransportDropped

(* Every step of the transport keeps its accounts.                         *)
LEMMA TransportKeeps ==
  ASSUME ReadInv, SpendInv, FramingInv, TransportStep
  PROVE  ReadInv' /\ SpendInv' /\ FramingInv' /\ UNCHANGED tx /\ tpc # "off"
  <1>1. ReadInv' /\ SpendInv' /\ FramingInv'
    BY ReadHeadKeeps, ReadExactKeeps, ReadToEofKeeps, ReadChunkKeeps, ReadTrailerKeeps, QuietKeeps
       DEF TransportStep
  <1>2. UNCHANGED tx /\ tpc # "off"
    BY DEF TransportStep, Connect, WriteRequest, ReadHead, ReadExact, ReadToEof, ReadChunk,
       ReadTrailer, BuildResponse, CloseGracefully, TransportTimeout, TransportDropped, TActive
  <1> QED
    BY <1>1, <1>2

-----------------------------------------------------------------------------
(* The gateway keeps HInv.                                                 *)

(* What an operation was started with and has come to.                     *)
hop == <<grant, req, url, use, res, dialed>>

(* Steps that change neither a hop nor the transport.                      *)
LEMMA HopStays ==
  ASSUME HInv, UNCHANGED <<hop, tVars>>, late' \in BOOLEAN, cancelled' \in BOOLEAN,
         gpc' \in {gpc, "done"},
         gpc' = "post" /\ task' = "allowed" =>
           \E rule \in Policies[grant.policy] : RuleMatches(rule, Facts("post"))
  PROVE  HInv'
  <1>1. \A p : (Facts(p))' = Facts(p)
    BY DEF Facts, hop
  <1>2. /\ Remaining' = Remaining /\ Response' = Response /\ Length' = Length
        /\ TActive' = TActive /\ HandedOver' = HandedOver /\ Complete' = Complete
    BY DEF Remaining, Response, Length, hop, tVars, TActive, HandedOver, Complete
  <1>3. TypeInv' /\ ReadInv' /\ SpendInv' /\ DialInv'
    BY DEF HInv, TypeInv, ReadInv, Sizes, SpendInv, DialInv, hop, tVars, TActive, HandedOver
  <1>4. FramingInv'
    BY <1>2 DEF HInv, FramingInv, tVars
  <1>5. AttemptInv'
    BY <1>2 DEF HInv, AttemptInv, tVars
  <1>6. HopInv'
    BY <1>1 DEF HInv, HopInv, hop
  <1>7. AdmittedOnly'
    BY <1>1 DEF HInv, AdmittedOnly, hop
  <1> QED
    BY <1>3, <1>4, <1>5, <1>6, <1>7 DEF HInv

(* The accounts of the transport as long as it does nothing.               *)
LEMMA TransportStays ==
  ASSUME HInv, UNCHANGED tVars
  PROVE  ReadInv' /\ SpendInv' /\ FramingInv'
  <1>1. /\ Response' = Response /\ Length' = Length
        /\ TActive' = TActive /\ HandedOver' = HandedOver /\ Complete' = Complete
    BY DEF Response, Length, tVars, TActive, HandedOver, Complete
  <1>2. ReadInv' /\ SpendInv'
    BY DEF HInv, ReadInv, Sizes, SpendInv, tVars, TActive, HandedOver
  <1>3. FramingInv'
    BY <1>1 DEF HInv, FramingInv, tVars
  <1> QED
    BY <1>2, <1>3

(* Facts about the constants as the operation meets them.                  *)
LEMMA Given ==
  ASSUME TypeInv
  PROVE  /\ grant.schemes \subseteq Ceiling.schemes /\ grant.policy = Ceiling.policy
         /\ req.body \in Nat /\ IsLink(req.url)
         /\ req.limits.requests \in Nat /\ req.limits.redirects \in Nat
         /\ req.limits.transferred \in Nat /\ req.limits.respBody \in Nat
         /\ req.limits.respHeader \in Nat
  BY RequestsAreTyped DEF TypeInv, WithGrant, GrantWithin, LimitNames

(* Initially nothing has happened.                                         *)
LEMMA InitHolds == Init => HInv
  <1> SUFFICES ASSUME Init PROVE HInv
    OBVIOUS
  <1>1. TypeInv
    <2>1. grant \in WithGrant(Ceiling, Asked) /\ req \in Requests
      BY DEF Init
    <2>2. late \in BOOLEAN /\ cancelled \in BOOLEAN /\ url.host.addr = None
      BY DEF Init, NoUrl
    <2>3. use \in [requests : Nat, redirects : Nat, encoded : Nat, wire : Nat]
      BY DEF Init, NoUse
    <2>4. res.addresses = << >>
      BY DEF Init, NoRes
    <2>5. ToSet(res.addresses) = {}
      BY <2>4 DEF ToSet
    <2>6. res.addresses \in Seq(ToSet(res.addresses))
      BY <2>4, <2>5
    <2> QED
      BY <2>1, <2>2, <2>3, <2>5, <2>6 DEF TypeInv
  <1>2. ReadInv /\ SpendInv
    BY DEF Init, TInit, ReadInv, Sizes, SpendInv, Nothing, TActive, HandedOver, Heading, Reading
  <1>3. FramingInv /\ AttemptInv
    BY DEF Init, TInit, FramingInv, AttemptInv, Complete, HandedOver, Reading
  <1>4. HopInv
    BY <1>1, Given DEF Init, HopInv, NoUse
  <1>5. DialInv
    BY <1>1, Given, FS_EmptySet DEF Init, DialInv, NoUse
  <1>6. AdmittedOnly
    BY DEF Init, AdmittedOnly
  <1> QED
    BY <1>1, <1>2, <1>3, <1>4, <1>5, <1>6 DEF HInv

(* send() *)
LEMMA SendKeeps ==
  ASSUME HInv, Send
  PROVE  HInv'
  <1>1. UNCHANGED <<grant, req, use, res, dialed, tVars, late, cancelled>> /\ gpc = "idle"
    BY DEF Send, op, envVars
  <1>2. CASE gpc' = "done" /\ UNCHANGED url
    BY <1>1, <1>2, HopStays DEF hop, HInv, TypeInv
  <1>3. CASE gpc' = "loop" /\ url' = NormalizeUrl(req.url)
    <2>1. url'.host.addr = None \/ IsAddress(url'.host.addr)
      BY <1>3, Given DEF HInv, NormalizeUrl, NormalizeHost, IsLink
    <2>2. TypeInv' /\ AttemptInv' /\ HopInv' /\ DialInv' /\ AdmittedOnly'
      BY <1>1, <1>3, <2>1 DEF HInv, TypeInv, AttemptInv, HopInv, DialInv, AdmittedOnly
    <2> QED
      BY <1>1, <2>2, TransportStays DEF HInv
  <1> QED
    BY <1>2, <1>3, SendEffect

(* The head of the loop.                                                   *)
LEMMA NextHopKeeps ==
  ASSUME HInv, NextHop
  PROVE  HInv'
  <1>1. /\ UNCHANGED <<grant, req, url, use, dialed, tVars, late, cancelled>>
        /\ gpc = "loop" /\ res' = NoRes
    BY DEF NextHop, op, envVars
  <1>2. \/ gpc' = "done"
        \/ /\ gpc' = "pre" /\ url.scheme \in grant.schemes
           /\ ~(use.requests >= req.limits.requests)
    BY NextHopEffect
  <1>3. TypeInv' /\ AttemptInv' /\ DialInv'
    BY <1>1, <1>2 DEF HInv, TypeInv, AttemptInv, DialInv, NoRes, ToSet
  <1>4. gpc' = "pre" => use.requests < req.limits.requests
    BY <1>2, Given DEF HInv, TypeInv
  <1>5. HopInv'
    BY <1>1, <1>2, <1>4 DEF HInv, HopInv
  <1>6. AdmittedOnly'
    BY <1>1, <1>2 DEF HInv, AdmittedOnly, ValidFacts, Facts, NoRes
  <1> QED
    BY <1>1, <1>3, <1>5, <1>6, TransportStays DEF HInv

(* The policy engine's answer, in the second phase about the addresses.    *)
LEMMA PolicyAnswersKeeps ==
  ASSUME HInv, PolicyAnswers
  PROVE  HInv'
  <1>1. /\ UNCHANGED <<hop, tVars, gpc, late, cancelled>>
        /\ task' = Evaluate(Policies, Facts(gpc))
    BY DEF PolicyAnswers, op, envVars, hop
  <1>2. gpc = "post" /\ task' = "allowed" =>
          \E rule \in Policies[grant.policy] : RuleMatches(rule, Facts("post"))
    <2>1. Facts("post").policy = grant.policy
      BY DEF Facts
    <2> QED
      BY <1>1, <2>1 DEF Evaluate
  <1> QED
    BY <1>1, <1>2, HopStays DEF HInv, TypeInv

(* The resolver's answer.                                                  *)
LEMMA ResolverAnswersKeeps ==
  ASSUME HInv, ResolverAnswers
  PROVE  HInv'
  <1>1. UNCHANGED <<grant, req, url, use, dialed, tVars, gpc, late, cancelled>> /\ gpc = "resolve"
    BY DEF ResolverAnswers, op, envVars
  <1>2. res'.addresses \in Seq(ToSet(res'.addresses)) /\ \A a \in ToSet(res'.addresses) : IsAddress(a)
    <2>1. CASE UNCHANGED res
      BY <2>1 DEF HInv, TypeInv
    <2>2. CASE \E infos \in Lookups : res'.addresses = StreamAddresses(infos)
      BY <2>2, AnswersAreAddresses
    <2> QED
      BY <2>1, <2>2 DEF ResolverAnswers, ResolverAnswer
  <1>3. TypeInv' /\ AttemptInv' /\ HopInv' /\ DialInv' /\ AdmittedOnly'
    BY <1>1, <1>2 DEF HInv, TypeInv, AttemptInv, HopInv, DialInv, AdmittedOnly
  <1> QED
    BY <1>1, <1>3, TransportStays DEF HInv

(* The first policy phase is over; a literal address is its own answer.    *)
LEMMA PolicyAdmitsNameKeeps ==
  ASSUME HInv, PolicyAdmitsName
  PROVE  HInv'
  <1>1. /\ UNCHANGED <<grant, req, url, use, dialed, tVars, late, cancelled>>
        /\ gpc = "pre" /\ gpc' \in {"done", "resolve"}
    BY DEF PolicyAdmitsName, op, envVars, Ended, Raise
  <1>2. \/ UNCHANGED res
        \/ url.host.addr # None /\ res'.addresses = <<url.host.addr>>
    BY DEF PolicyAdmitsName
  <1>3. res'.addresses \in Seq(ToSet(res'.addresses)) /\ \A a \in ToSet(res'.addresses) : IsAddress(a)
    <2>1. CASE UNCHANGED res
      BY <2>1 DEF HInv, TypeInv
    <2>2. CASE url.host.addr # None /\ res'.addresses = <<url.host.addr>>
      <3>1. ToSet(res'.addresses) = {url.host.addr}
        BY <2>2 DEF ToSet
      <3> QED
        BY <2>2, <3>1 DEF HInv, TypeInv
    <2> QED
      BY <1>2, <2>1, <2>2
  <1>4. TypeInv' /\ AttemptInv' /\ HopInv' /\ DialInv' /\ AdmittedOnly'
    BY <1>1, <1>3 DEF HInv, TypeInv, AttemptInv, HopInv, DialInv, AdmittedOnly
  <1> QED
    BY <1>1, <1>4, TransportStays DEF HInv

(* The addresses are all global.                                           *)
LEMMA AddressesAdmittedKeeps ==
  ASSUME HInv, AddressesAdmitted
  PROVE  HInv'
  <1>1. UNCHANGED <<hop, tVars, late, cancelled>> /\ gpc = "resolve"
    BY DEF AddressesAdmitted, op, envVars, hop, Ended
  <1>2. CASE gpc' = "done"
    BY <1>1, <1>2, HopStays DEF HInv, TypeInv
  <1>3. CASE gpc' = "post" /\ task' = "running" /\ ResolutionError = "ok"
    <2>1. res.addresses # << >> /\ \A a \in ToSet(res.addresses) : Classify(a) = "global"
      BY <1>3, ResolutionErrorCodes
    <2>2. TypeInv' /\ AttemptInv' /\ DialInv'
      BY <1>1, <1>3 DEF HInv, TypeInv, AttemptInv, DialInv, hop
    <2>3. HopInv'
      BY <1>1, <1>3, <2>1 DEF HInv, HopInv, hop
    <2>4. AdmittedOnly'
      BY <1>1, <1>3, <2>1 DEF HInv, AdmittedOnly, ValidFacts, Facts, hop
    <2> QED
      BY <1>1, <2>2, <2>3, <2>4, TransportStays DEF HInv
  <1> QED
    BY <1>2, <1>3 DEF AddressesAdmitted, Raise

(* What the budgets leave makes a valid attempt.                           *)
LEMMA BudgetIsValid ==
  ASSUME TypeInv, BudgetError = "ok"
  PROVE  AttemptValid(Remaining)
  <1> DEFINE transfer == req.limits.transferred - req.body - use.wire
             response == req.limits.respBody - use.encoded
  <1>1. transfer \in Int /\ response \in Int /\ req.limits.respHeader \in Nat
    BY Given DEF TypeInv
  <1>2. /\ Remaining.header = req.limits.respHeader /\ Remaining.wire = transfer
        /\ Remaining.body = Min({response, transfer})
    BY DEF Remaining
  <1>3. transfer >= 0
    BY <1>1, <1>2, BudgetErrorCodes
  <1>4. response >= 0
    BY BudgetErrorCodes, Given DEF TypeInv
  <1> HIDE DEF transfer, response
  <1>5. Remaining.body >= 0
    BY <1>1, <1>2, <1>3, <1>4, TwoNumbers
  <1> QED
    BY <1>1, <1>2, <1>3, <1>5 DEF AttemptValid

(* The budgets are numbers.                                                *)
LEMMA RemainingTyped ==
  ASSUME TypeInv
  PROVE  Remaining.header \in Int /\ Remaining.body \in Int /\ Remaining.wire \in Int
  <1> DEFINE transfer == req.limits.transferred - req.body - use.wire
             response == req.limits.respBody - use.encoded
  <1>1. transfer \in Int /\ response \in Int /\ req.limits.respHeader \in Nat
    BY Given DEF TypeInv
  <1>2. /\ Remaining.header = req.limits.respHeader /\ Remaining.wire = transfer
        /\ Remaining.body = Min({response, transfer})
    BY DEF Remaining
  <1> HIDE DEF transfer, response
  <1> QED
    BY <1>1, <1>2, TwoNumbers

(* The second policy phase is over: the hop is dialed.                     *)
LEMMA PolicyAdmitsAddressesKeeps ==
  ASSUME HInv, PolicyAdmitsAddresses
  PROVE  HInv'
  <1>1. /\ UNCHANGED <<grant, req, url, use, res, late, cancelled>>
        /\ gpc = "post"
    BY DEF PolicyAdmitsAddresses, op, envVars, Ended
  <1>2. CASE gpc' = "done" /\ UNCHANGED <<tVars, dialed>>
    BY <1>1, <1>2, HopStays DEF HInv, TypeInv, hop
  <1>3. ASSUME gpc' = "attempt", task = "allowed", AttemptValid(Remaining),
               dialed' = dialed \cup {[url |-> url, address |-> res.addresses[1],
                                       answer |-> ToSet(res.addresses), attempt |-> Remaining,
                                       requests |-> use.requests]},
               \/ TransportBegins(Remaining)
               \/ /\ tpc' = "off" /\ ta' = Nothing /\ tread' = 0
                  /\ twriter' = "none" /\ tout' = "pending" /\ UNCHANGED tx
        PROVE  HInv'
    <2> DEFINE d == [url |-> url, address |-> res.addresses[1], answer |-> ToSet(res.addresses),
                     attempt |-> Remaining, requests |-> use.requests]
    <2>1. TypeInv'
      BY <1>1 DEF HInv, TypeInv
    <2>2. Remaining' = Remaining
      BY <1>1 DEF Remaining
    <2>3. ReadInv' /\ SpendInv' /\ FramingInv' /\ AttemptInv'
      <3>1. Remaining.header \in Int /\ Remaining.body \in Int /\ Remaining.wire \in Int
        BY RemainingTyped DEF HInv
      <3>2. tx.header \in Int /\ tx.body \in Int /\ tx.wire \in Int
        BY DEF HInv, ReadInv, Sizes
      <3>3. CASE TransportBegins(Remaining)
        <4>1. tpc' = "connect" /\ tx' = Remaining /\ ta' = Nothing /\ tread' = 0 /\ tout' = "pending"
          BY <3>3 DEF TransportBegins
        <4>2. ReadInv'
          BY <3>1, <4>1 DEF ReadInv, Sizes, Nothing, Heading
        <4>3. SpendInv'
          BY <1>3, <3>1, <4>1 DEF SpendInv, Nothing, Heading, TActive, HandedOver, AttemptValid
        <4>4. FramingInv' /\ AttemptInv'
          BY <2>2, <4>1 DEF FramingInv, AttemptInv, Complete, HandedOver, Reading
        <4> QED
          BY <4>2, <4>3, <4>4
      <3>4. CASE tpc' = "off" /\ ta' = Nothing /\ tread' = 0 /\ tout' = "pending" /\ UNCHANGED tx
        <4>1. ReadInv'
          BY <3>2, <3>4 DEF ReadInv, Sizes, Nothing
        <4>2. SpendInv' /\ FramingInv' /\ AttemptInv'
          BY <3>4 DEF SpendInv, FramingInv, AttemptInv, TActive, Complete, HandedOver, Reading, Heading
        <4> QED
          BY <4>1, <4>2
      <3> QED
        BY <1>3, <3>3, <3>4
    <2>4. HopInv'
      BY <1>1, <1>3 DEF HInv, HopInv
    <2>5. DialInv'
      <3>1. /\ IsFiniteSet(dialed') /\ Cardinality(dialed) \in Nat
            /\ \/ Cardinality(dialed') = Cardinality(dialed)
               \/ Cardinality(dialed') = Cardinality(dialed) + 1
        <4>1. dialed' = dialed \cup {d}
          BY <1>3
        <4> HIDE DEF d
        <4>2. IsFiniteSet(dialed)
          BY DEF HInv, DialInv
        <4> QED
          BY <4>1, <4>2, FS_AddElement, FS_CardinalityType
      <3>2. /\ Cardinality(dialed) <= use.requests /\ use.requests < req.limits.requests
            /\ use.requests \in Nat /\ req.limits.requests \in Nat
        BY <1>1, Given DEF HInv, TypeInv, HopInv, DialInv
      <3>3. Cardinality(dialed') <= use.requests + 1 /\ Cardinality(dialed') <= req.limits.requests
        BY <3>1, <3>2
      <3> QED
        BY <1>1, <1>3, <3>1, <3>3 DEF DialInv
    <2>6. AdmittedOnly'
      <3>1. d.url.scheme \in Ceiling.schemes
        BY <1>1, Given DEF HInv, HopInv
      <3>2. \E rule \in Policies[Ceiling.policy] :
              /\ \/ d.url.host = rule.host
                 \/ rule.subdomains /\ IsSuffix(rule.host.labels, d.url.host.labels)
              /\ d.url.scheme \in rule.schemes /\ d.url.port \in rule.ports
        BY <1>1, <1>3, Given DEF HInv, HopInv, RuleMatches, Facts
      <3>3. d.address \in d.answer
        BY <1>1, SequenceFacts DEF HInv, TypeInv, HopInv
      <3>4. \A a \in d.answer : Public(a)
        BY <1>1, GlobalIsPublic DEF HInv, TypeInv, HopInv
      <3>5. dialed' = dialed \cup {d} /\ gpc' \notin {"pre", "post"}
        BY <1>3
      <3> HIDE DEF d
      <3> QED
        BY <3>1, <3>2, <3>3, <3>4, <3>5 DEF HInv, AdmittedOnly
    <2> QED
      BY <2>1, <2>3, <2>4, <2>5, <2>6 DEF HInv
  <1> QED
    BY <1>2, <1>3, AdmitEffect

(* The evidence that passed counts: the usage stays a record of numbers,   *)
(* and no more body than wire bytes is counted.                            *)
LEMMA CountedTyped ==
  ASSUME HInv, EvidenceConsistent(Response)
  PROVE  /\ Counted \in [requests : Nat, redirects : Nat, encoded : Nat, wire : Nat]
         /\ Counted.requests = use.requests + 1 /\ Counted.redirects = use.redirects
         /\ Counted.encoded <= Counted.wire
  <1> DEFINE body == ta.body  wire == ta.metaWire + ta.bodyWire
  <1>1. Response.body = body /\ Response.wire = wire
    BY DEF Response
  <1>2. body \in Nat /\ wire \in Nat /\ body <= wire
    <2>1. /\ ta.metaWire >= ta.headerWire + 17 /\ ta.bodyWire >= ta.body
      BY DEF EvidenceConsistent, Response, MinimumStatusFraming
    <2>2. /\ ta.headerWire \in Nat /\ ta.metaWire \in Int /\ ta.bodyWire \in Nat /\ ta.body \in Nat
      BY DEF HInv, ReadInv, Sizes
    <2> QED
      BY <2>1, <2>2
  <1> HIDE DEF body, wire
  <1>3. /\ use.requests \in Nat /\ use.redirects \in Nat /\ use.encoded \in Nat /\ use.wire \in Nat
        /\ use.encoded <= use.wire
    BY DEF HInv, TypeInv, HopInv
  <1> QED
    BY <1>1, <1>2, <1>3 DEF Counted

(* A response that passed is one the gateway may build.                    *)
LEMMA PublishedIsValid ==
  ASSUME HInv, AttemptError = "ok"
  PROVE  ResponseValid(Published)
  <1>1. EvidenceConsistent(Response)
    BY AttemptErrorCodes
  <1>2. Response.status \in 200 .. 599
    BY <1>1 DEF EvidenceConsistent
  <1>3. /\ Counted.requests \in Nat /\ Counted.requests > 0
        /\ Counted.wire >= Counted.encoded
    BY <1>1, CountedTyped DEF HInv, TypeInv
  <1>4. /\ Published.status = Response.status /\ Published.usage.requests = Counted.requests
        /\ Published.usage.wire = Counted.wire /\ Published.usage.response = Counted.encoded
    BY DEF Published
  <1> QED
    BY <1>2, <1>3, <1>4 DEF ResponseValid

(* What is published has passed.                                           *)
LEMMA PublishPasses ==
  ASSUME HInv, PublishError = "ok"
  PROVE  AttemptError = "ok"
  BY PublishErrorCodes, PublishedIsValid DEF HInv, TypeInv

(* A redirect is followed: the next hop starts, within the budgets.        *)
LEMMA FollowRedirectKeeps ==
  ASSUME HInv, FollowRedirect
  PROVE  HInv'
  <1>1. /\ UNCHANGED <<grant, req, res, dialed, late, cancelled, tx, ta, tread, tout>>
        /\ gpc = "attempt" /\ gpc' = "loop" /\ tpc' = "off"
        /\ use' = [Counted EXCEPT !.redirects = @ + 1] /\ url' = NormalizeUrl(Target)
        /\ AttemptError = "ok" /\ Redirects
    BY DEF FollowRedirect, op, envVars, Ended
  <1>2. EvidenceConsistent(Response) /\ ~(use.redirects >= req.limits.redirects)
    BY <1>1, AttemptErrorCodes
  <1>3. /\ use' \in [requests : Nat, redirects : Nat, encoded : Nat, wire : Nat]
        /\ use'.requests = use.requests + 1 /\ use'.redirects = use.redirects + 1
        /\ use'.encoded <= use'.wire
    BY <1>1, <1>2, CountedTyped DEF HInv, TypeInv
  <1>4. url'.host.addr = None \/ IsAddress(url'.host.addr)
    <2> DEFINE links == Values(Response.fields, "location")
    <2>1. AreFields(Response.fields)
      <3>1. ta.status # 0
        BY <1>2 DEF EvidenceConsistent, Response
      <3> QED
        BY <3>1 DEF HInv, ReadInv, Sizes, Response
    <2>2. links # << >> /\ links \in Seq(ToSet(links)) /\ \A l \in ToSet(links) : IsLink(l)
      BY <1>1, <2>1 DEF Redirects, HasLocation, AreFields
    <2> HIDE DEF links
    <2>3. IsLink(links[1])
      BY <2>2, SequenceFacts
    <2>4. Target = JoinUrl(url, links[1])
      BY DEF Target, links
    <2> DEFINE loc == links[1]
    <2> HIDE DEF loc
    <2>5. \/ Target.host = loc.host
          \/ Target.host.addr = url.host.addr
      BY <2>3, <2>4 DEF JoinUrl, IsLink, loc
    <2> QED
      BY <1>1, <2>3, <2>5 DEF HInv, TypeInv, IsLink, NormalizeUrl, NormalizeHost, loc
  <1>5. TypeInv'
    BY <1>1, <1>3, <1>4 DEF HInv, TypeInv
  <1>6. ReadInv' /\ SpendInv' /\ FramingInv' /\ AttemptInv'
    BY <1>1 DEF HInv, ReadInv, Sizes, SpendInv, FramingInv, AttemptInv, TActive, Complete,
       HandedOver, Reading, Heading
  <1>7. HopInv'
    <2>1. use.redirects + 1 <= req.limits.redirects
      BY <1>2, Given DEF HInv, TypeInv
    <2> QED
      BY <1>1, <1>3, <2>1 DEF HopInv
  <1>8. DialInv'
    BY <1>1, <1>3 DEF HInv, DialInv
  <1>9. AdmittedOnly'
    BY <1>1 DEF HInv, AdmittedOnly
  <1> QED
    BY <1>5, <1>6, <1>7, <1>8, <1>9 DEF HInv

(* A response is published, or refused.                                    *)
LEMMA PublishKeeps ==
  ASSUME HInv, Publish
  PROVE  HInv'
  <1>1. /\ UNCHANGED <<grant, req, url, res, dialed, late, cancelled, tVars>>
        /\ gpc = "attempt" /\ gpc' = "done" /\ use' \in {use, Counted}
        /\ use' = use \/ PublishError = "ok"
    BY DEF Publish, op, envVars, Ended, Raise
  <1>2. CASE UNCHANGED use
    BY <1>1, <1>2, HopStays DEF HInv, TypeInv, hop
  <1>3. CASE use' = Counted /\ PublishError = "ok"
    <2>1. EvidenceConsistent(Response)
      BY <1>3, AttemptErrorCodes, PublishPasses
    <2>2. /\ use' \in [requests : Nat, redirects : Nat, encoded : Nat, wire : Nat]
          /\ use'.redirects = use.redirects /\ use'.encoded <= use'.wire
      BY <1>3, <2>1, CountedTyped
    <2>3. TypeInv'
      BY <1>1, <2>2 DEF HInv, TypeInv
    <2>4. AttemptInv' /\ HopInv' /\ DialInv' /\ AdmittedOnly'
      BY <1>1, <2>2 DEF HInv, AttemptInv, HopInv, DialInv, AdmittedOnly
    <2> QED
      BY <1>1, <2>3, <2>4, TransportStays DEF HInv
  <1> QED
    BY <1>1, <1>2, <1>3

(* A foreign transport's response.                                         *)
LEMMA ForeignAnswersKeeps ==
  ASSUME HInv, ForeignAnswers
  PROVE  HInv'
  <1>1. /\ UNCHANGED <<grant, req, url, use, res, dialed, gpc, late, cancelled>>
        /\ UNCHANGED <<tpc, tx, tread, tout>> /\ gpc = "attempt" /\ tpc = "off"
    BY DEF ForeignAnswers, op, envVars
  <1>2. PICK r \in ForeignResponses :
          ta' = [Nothing EXCEPT !.status = r.status, !.fields = r.fields, !.body = r.body,
                   !.header = r.headerBytes, !.headerWire = r.headerWire,
                   !.metaWire = r.wire - r.bodyWire, !.bodyWire = r.bodyWire,
                   !.omitted = r.omitted, !.coding = r.coding]
    BY DEF ForeignAnswers
  <1>3. Sizes'
    <2>1. /\ AreFields(r.fields)
          /\ r.body \in Nat /\ r.headerBytes \in Nat /\ r.headerWire \in Nat
          /\ r.bodyWire \in Nat /\ r.wire \in Nat /\ r.wire - r.bodyWire \in Int
      BY ForeignResponsesAreTyped
    <2>2. /\ DOMAIN ta' = DOMAIN Nothing
          /\ ta'.header = r.headerBytes /\ ta'.headerWire = r.headerWire
          /\ ta'.metaWire = r.wire - r.bodyWire /\ ta'.body = r.body
          /\ ta'.bodyWire = r.bodyWire /\ ta'.trailer = 0 /\ ta'.trailerWire = 0
          /\ ta'.fields = r.fields
      BY <1>2 DEF Nothing
    <2> QED
      BY <1>1, <2>1, <2>2 DEF HInv, ReadInv, Sizes
  <1>4. ReadInv' /\ SpendInv' /\ FramingInv' /\ AttemptInv'
    BY <1>1, <1>3 DEF HInv, ReadInv, SpendInv, FramingInv, AttemptInv, TActive, Complete,
       HandedOver, Reading, Heading
  <1>5. TypeInv' /\ HopInv' /\ DialInv' /\ AdmittedOnly'
    BY <1>1 DEF HInv, TypeInv, HopInv, DialInv, AdmittedOnly
  <1> QED
    BY <1>4, <1>5 DEF HInv

(* A step of the shipped transport.                                        *)
LEMMA TransportRunsKeeps ==
  ASSUME HInv, TransportRuns
  PROVE  HInv'
  <1>1. UNCHANGED <<hop, gpc, task, late, cancelled>> /\ TransportStep
    BY DEF TransportRuns, envVars, gVars, op, hop
  <1>2. ReadInv' /\ SpendInv' /\ FramingInv' /\ UNCHANGED tx /\ tpc # "off"
    BY <1>1, TransportKeeps DEF HInv
  <1>3. Remaining' = Remaining /\ \A p : (Facts(p))' = Facts(p)
    BY <1>1 DEF Remaining, Facts, hop
  <1>4. TypeInv' /\ AttemptInv' /\ DialInv'
    BY <1>1, <1>2, <1>3 DEF HInv, TypeInv, AttemptInv, DialInv, hop
  <1>5. HopInv' /\ AdmittedOnly'
    BY <1>1, <1>3 DEF HInv, HopInv, AdmittedOnly, hop
  <1> QED
    BY <1>2, <1>4, <1>5 DEF HInv

(* Waiting, being given up, and the environment.                           *)
LEMMA WaitingKeeps ==
  ASSUME HInv,
         CollaboratorFaults \/ TransportAnswers \/ GiveUp \/ TaskSettles \/ DeadlinePasses
           \/ SignalCancellation \/ CancelCaller \/ UNCHANGED vars
  PROVE  HInv'
  <1>1. /\ UNCHANGED <<hop, tVars>> /\ gpc' \in {gpc, "done"}
        /\ late' \in {late, TRUE} /\ cancelled' \in {cancelled, TRUE}
    BY DEF CollaboratorFaults, TransportAnswers, GiveUp, TaskSettles, DeadlinePasses,
       SignalCancellation, CancelCaller, vars, envVars, gVars, op, hop, Raise
  <1>2. gpc' = "post" => gpc = "post" /\ (task' = task \/ task' \in Faults)
    BY DEF CollaboratorFaults, TransportAnswers, GiveUp, TaskSettles, DeadlinePasses,
       SignalCancellation, CancelCaller, vars, gVars, Raise
  <1>3. gpc' = "post" /\ task' = "allowed" =>
          \E rule \in Policies[grant.policy] : RuleMatches(rule, Facts("post"))
    BY <1>2, FaultsAreNoAnswers DEF HInv, HopInv
  <1>4. late' \in BOOLEAN /\ cancelled' \in BOOLEAN
    BY <1>1 DEF HInv, TypeInv
  <1> QED
    BY <1>1, <1>3, <1>4, HopStays

(* The invariant is inductive.                                             *)
LEMMA StepKeeps == HInv /\ [Next]_vars => HInv'
  BY SendKeeps, NextHopKeeps, PolicyAnswersKeeps, ResolverAnswersKeeps, PolicyAdmitsNameKeeps,
     AddressesAdmittedKeeps, PolicyAdmitsAddressesKeeps, FollowRedirectKeeps, PublishKeeps,
     ForeignAnswersKeeps, TransportRunsKeeps, WaitingKeeps, Zenon
     DEF Next

-----------------------------------------------------------------------------
(* The theorems.                                                           *)

(* The invariant of gateway and transport holds throughout an operation.   *)
THEOREM GatewayInvariant == Spec => []HInv
  BY InitHolds, StepKeeps, PTL DEF Spec

(* A connection is only ever opened to an admitted target, whatever        *)
(* redirects, answers and faults came before (_send_bounded).              *)
THEOREM AdmittedTargetsOnly == Spec => []AdmittedOnly
  <1>1. HInv => AdmittedOnly
    BY DEF HInv
  <1> QED
    BY <1>1, GatewayInvariant, PTL

(* The budgets of a request are one for all its hops.                      *)
THEOREM OneBudget == Spec => []CumulativeBudget
  <1>1. HInv => CumulativeBudget
    <2> SUFFICES ASSUME HInv PROVE CumulativeBudget
      OBVIOUS
    <2>1. ASSUME gpc = "attempt", TActive
          PROVE  req.body + use.wire + tread <= req.limits.transferred
      <3>1. tread <= tx.wire /\ tx = Remaining
        BY <2>1 DEF HInv, SpendInv, AttemptInv, TActive
      <3>2. Remaining.wire = req.limits.transferred - req.body - use.wire
        BY DEF Remaining
      <3>3. tread \in Nat /\ req.body \in Nat /\ use.wire \in Nat /\ req.limits.transferred \in Nat
        BY Given DEF HInv, TypeInv, ReadInv, Sizes
      <3>4. tread <= req.limits.transferred - req.body - use.wire
        BY <3>1, <3>2
      <3> QED
        BY <3>3, <3>4
    <2> QED
      BY <2>1 DEF CumulativeBudget, HInv, HopInv, DialInv
  <1> QED
    BY <1>1, GatewayInvariant, PTL

(* Transport and gateway account alike (_require_transport_response).      *)
THEOREM EvidenceAgrees == Spec => []EvidenceAccepted
  <1>1. HInv => EvidenceAccepted
    <2> SUFFICES ASSUME HInv, gpc = "attempt", tpc = "done", tout = "ok"
                 PROVE  /\ Response.wire = tread
                        /\ \/ RequireTransportResponse(Response, Remaining) = "ok"
                           \/ PeerFault(Response)
      BY DEF EvidenceAccepted
    <2>1. HandedOver /\ Complete
      BY DEF HandedOver, Complete
    <2>2. tx = Remaining
      BY DEF HInv, AttemptInv
    <2>3. /\ tread = ta.metaWire + ta.bodyWire /\ tread <= tx.wire
          /\ ta.header <= tx.header /\ ta.body <= tx.body
          /\ ta.header \in Nat /\ tx.header \in Int /\ ta.body \in Nat /\ tx.body \in Int
          /\ tread \in Nat /\ tx.wire \in Int
      BY <2>1 DEF HInv, SpendInv, ReadInv, Sizes
    <2>4. Response.wire = tread /\ Response.headerBytes = ta.header /\ Response.body = ta.body
      BY <2>3 DEF Response
    <2>5. /\ ~(Response.headerBytes > Remaining.header) /\ ~(Response.body > Remaining.body)
          /\ ~(Response.wire > Remaining.wire)
      <3> DEFINE w == Response.wire  h == Response.headerBytes  b == Response.body
      <3>1. /\ w <= tx.wire /\ h <= tx.header /\ b <= tx.body
            /\ w \in Int /\ h \in Int /\ b \in Int
        BY <2>3, <2>4
      <3> HIDE DEF w, h, b
      <3>2. ~(h > tx.header) /\ ~(b > tx.body) /\ ~(w > tx.wire)
        BY <2>3, <3>1
      <3> QED
        BY <2>2, <3>2 DEF w, h, b
    <2>6. EvidenceConsistent(Response) /\ AreFields(ta.fields)
      BY <2>1 DEF HInv, FramingInv
    <2>7. SUFFICES ASSUME ~PeerFault(Response)
                   PROVE  RequireTransportResponse(Response, Remaining) = "ok"
      BY <2>4
    <2>8. LocationError(Response) = "ok"
      BY <2>7 DEF PeerFault
    <2>9. Response.omitted = Bodyless(Response.status, Response.fields, Remaining.method)
      BY <2>1, <2>2, <2>8 DEF HInv, FramingInv, Response
    <2>10. Values(Response.fields, "content-length") = Length
      BY DEF Response, Length
    <2>11. ~(Len(Length) > 1)
      <3>1. Len(Length) <= 1 /\ Length \in Seq(Int)
        BY <2>6, <2>10 DEF EvidenceConsistent, FramingSupported, AreFields, Length
      <3> QED
        BY <3>1, SequenceFacts
    <2>12. Length # << >> =>
             /\ ContentLengthValid(Length[1])
             /\ Response.omitted \/ Length[1] = Response.body
      <3>1. Length # << >> => 1 \in DOMAIN Length
        <4>1. Length \in Seq(Int)
          BY <2>6 DEF AreFields, Length
        <4> QED
          BY <4>1, SequenceFacts
      <3>2. Length # << >> => ContentLengthValid(Length[1])
        BY <2>7, <2>10, <3>1 DEF PeerFault
      <3>3. Length # << >> => Response.omitted \/ Length[1] = Response.body
        BY <2>1, <2>9 DEF HInv, FramingInv, Response, Bodyless, OmitsBody
      <3> QED
        BY <3>2, <3>3
    <2> QED
      BY <2>5, <2>6, <2>8, <2>9, <2>10, <2>11, <2>12, EvidenceCodes
  <1> QED
    BY <1>1, GatewayInvariant, PTL

(* The caller is told the truth about how the operation ended, and no      *)
(* value the gateway builds is refused by its own constructor.             *)
THEOREM OutcomeHonest == Spec => HonestOutcome
  <1>1. HInv /\ [Next]_vars =>
          [outcome' # outcome =>
             /\ outcome' = "ok" => ~late /\ ~cancelled /\ ~killed
             /\ outcome' = "Cancelled" => cancelled
             /\ outcome' = "CancelledError" => killed
             /\ outcome' # "ValueError"]_vars
    <2> SUFFICES ASSUME HInv, Next, outcome' # outcome
                 PROVE  /\ outcome' = "ok" => ~late /\ ~cancelled /\ ~killed
                        /\ outcome' = "Cancelled" => cancelled
                        /\ outcome' = "CancelledError" => killed
                        /\ outcome' # "ValueError"
      BY Zenon
    <2>1. CASE Told(outcome') /\ outcome' # "ok"
      BY <2>1 DEF Told
    <2>2. CASE Send
      BY <2>1, <2>2, SendEffect
    <2>3. CASE NextHop
      BY <2>1, <2>3, NextHopEffect
    <2>4. CASE GiveUp
      BY <2>4 DEF GiveUp, Raise
    <2>5. CASE PolicyAdmitsName
      <3>1. Told(outcome') /\ outcome' # "ok"
        BY <2>5, PolicyErrorCodes DEF PolicyAdmitsName, Raise
      <3> QED
        BY <2>1, <3>1
    <2>6. CASE AddressesAdmitted
      <3>1. Told(outcome') /\ outcome' # "ok"
        BY <2>6, ResolutionErrorCodes DEF AddressesAdmitted, Raise
      <3> QED
        BY <2>1, <3>1
    <2>7. CASE PolicyAdmitsAddresses
      BY <2>1, <2>7, AdmitEffect, BudgetIsValid DEF HInv
    <2>8. CASE Publish
      <3>1. outcome' = PublishError /\ ~late /\ ~killed
        BY <2>8 DEF Publish, Raise, Ended
      <3>2. Told(PublishError) /\ (PublishError = "ok" => AttemptError = "ok")
        BY PublishErrorCodes, PublishedIsValid DEF HInv, TypeInv
      <3> QED
        BY <2>1, <3>1, <3>2, AttemptErrorCodes
    <2>9. CASE ~(Send \/ NextHop \/ GiveUp \/ PolicyAdmitsName \/ AddressesAdmitted
                 \/ PolicyAdmitsAddresses \/ Publish)
      BY <2>9 DEF Next, FollowRedirect, CollaboratorFaults, PolicyAnswers, ResolverAnswers,
         TransportAnswers, ForeignAnswers, TaskSettles, TransportRuns, DeadlinePasses,
         SignalCancellation, CancelCaller, gVars
    <2> QED
      BY <2>2, <2>3, <2>4, <2>5, <2>6, <2>7, <2>8, <2>9
  <1> QED
    BY <1>1, GatewayInvariant, PTL DEF Spec, HonestOutcome
====
