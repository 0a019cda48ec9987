----------------------------- MODULE HttpModels -----------------------------
(***************************************************************************)
(* The values of mem_sandbox.network: transfer limits, grants, requests,   *)
(* URLs, addresses, destination policies and the evidence a transport      *)
(* attempt hands back.  Strings are abstracted to what the checks tell     *)
(* apart: a host is a sequence of labels or an address, a URL that some    *)
(* syntactic check refuses carries the name of its flaw, a header field    *)
(* carries its sizes, and a body is its number of bytes.                   *)
(***************************************************************************)
EXTENDS Integers, Sequences, FiniteSets, SequencesExt

CONSTANTS
  None,           \* the absent value: no route, no address, no canonical name
  ProxyHeaders    \* the header names that begin with "proxy-"

(* The ordered checks of a constructor or a guard: the code of the first   *)
(* one that fails, "ok" when none does.                                    *)
FirstError(checks) ==
  LET failed == {i \in DOMAIN checks : checks[i][1]}
  IN  IF failed = {} THEN "ok" ELSE checks[Min(failed)][2]

-----------------------------------------------------------------------------
(* Limits and grants.                                                      *)

LimitNames == {"timeout", "reqHeader", "reqBody", "respHeader", "respBody",
               "decompressed", "redirects", "requests", "transferred"}

(* HttpTransferLimits.__post_init__ *)
ValidLimits(l) ==
  /\ l.timeout > 0 /\ l.requests > 0
  /\ \A n \in LimitNames : l[n] >= 0
  /\ l.decompressed >= l.respBody

LimitsWithin(l, ceiling) == \A n \in LimitNames : l[n] <= ceiling[n]

(* OutboundHttpGrant.__post_init__ *)
ValidGrant(g) ==
  /\ g.methods # {} /\ g.methods \subseteq {"GET", "HEAD"}
  /\ g.schemes # {} /\ g.schemes \subseteq {"http", "https"}
  /\ ValidLimits(g.limits)
  /\ g.delivery \in {"best_effort", "required"}

(* OutboundHttpGrant.is_within *)
GrantWithin(g, ceiling) ==
  /\ g.policy = ceiling.policy
  /\ g.methods \subseteq ceiling.methods
  /\ g.schemes \subseteq ceiling.schemes
  /\ g.routes \subseteq ceiling.routes
  /\ LimitsWithin(g.limits, ceiling.limits)
  /\ g.delivery = "required" \/ ceiling.delivery = "best_effort"

(* OutboundHttpBinding.with_grant: the asked grants that a host's ceiling  *)
(* lets a session have; any other is denied when the session is made.      *)
WithGrant(ceiling, asked) == {g \in asked : GrantWithin(g, ceiling)}

-----------------------------------------------------------------------------
(* Header fields.  len: bytes of the name and of the value on the wire;    *)
(* wide: how many bytes more the value takes in UTF-8 than in Latin-1;     *)
(* pad: optional whitespace around the value on the wire.                  *)

FieldSize(f) == f.len + f.wide + 4

HeadersSize(fields) == FoldSeq(LAMBDA f, n : n + FieldSize(f), 0, fields)

(* The bytes a field takes at least when written "name: value".            *)
HeadersWireSize(fields) == FoldSeq(LAMBDA f, n : n + f.len + 4, 0, fields)

(* The bytes a field line took on the wire: name ":" pad value CR LF.      *)
RawFieldSize(f) == f.len + f.pad + 3

RawHeadersSize(fields) == FoldSeq(LAMBDA f, n : n + RawFieldSize(f), 0, fields)

Values(fields, name) ==
  LET named == SelectSeq(fields, LAMBDA f : f.name = name)
  IN  [i \in DOMAIN named |-> named[i].value]

Field(name, value, len) == [name |-> name, value |-> value, len |-> len, wide |-> 0, pad |-> 1]

-----------------------------------------------------------------------------
(* Requests.                                                               *)

(* OutboundHttpRequest.__post_init__, the checks that are not type checks  *)
RequestError(r) ==
  FirstError(<< <<r.url.flaw \in {"control", "scheme", "no_host"}, "RequestInvalid">>,
                <<HeadersSize(r.headers) > r.limits.reqHeader, "LimitExceeded">>,
                <<r.body > r.limits.reqBody, "LimitExceeded">>,
                <<r.body > 0, "RequestInvalid">> >>)

(* OutboundHttpGrant.require_request *)
RequireRequest(g, r) ==
  FirstError(<< <<r.method \notin g.methods, "Denied">>,
                <<r.url.scheme \notin g.schemes, "Denied">>,
                <<r.route # None /\ r.route \notin g.routes, "Denied">>,
                <<~LimitsWithin(r.limits, g.limits), "LimitExceeded">> >>)

(* OutboundHttpGrant.require_response; late stands for the duration check  *)
RequireResponse(g, r, resp, late) ==
  LET l == r.limits
      u == resp.usage
  IN  FirstError(<<
        <<RequireRequest(g, r) # "ok", RequireRequest(g, r)>>,
        <<resp.status < 200, "ResponseInvalid">>,
        <<HeadersSize(resp.fields) > l.respHeader, "LimitExceeded">>,
        <<resp.body > l.decompressed, "LimitExceeded">>,
        <<u.requests > l.requests, "LimitExceeded">>,
        <<u.response > l.respBody, "LimitExceeded">>,
        <<u.decompressed > l.decompressed \/ u.decompressed # resp.body, "LimitExceeded">>,
        <<u.redirects > l.redirects, "LimitExceeded">>,
        <<u.request + u.wire > l.transferred, "LimitExceeded">>,
        <<late, "LimitExceeded">>,
        <<r.method = "HEAD" /\ resp.body > 0, "LimitExceeded">> >>)

(* HttpTransferUsage and OutboundHttpResponse, their __post_init__: what   *)
(* the gateway may not build, a ValueError that nothing would catch.       *)
ResponseValid(resp) ==
  /\ resp.status \in 200 .. 599
  /\ resp.usage.requests > 0 /\ resp.usage.wire >= resp.usage.response

(* HttpTransportRequest.__post_init__: no limit of an attempt is negative  *)
AttemptValid(attempt) == attempt.header >= 0 /\ attempt.body >= 0 /\ attempt.wire >= 0

(* gateway._snapshot_request: the gateway works on values it rebuilt, so a *)
(* request whose fields are not exactly typed goes no further.             *)
SnapshotRequest(r) == IF r.exact THEN RequestError(r) ELSE "RequestInvalid"

ControlledHeaders == {"accept-encoding", "authorization", "connection", "content-length",
  "cookie", "expect", "host", "proxy-authorization", "proxy-connection", "te", "trailer",
  "transfer-encoding", "upgrade"} \cup ProxyHeaders

(* gateway._require_supported_request *)
RequireSupported(r) ==
  LET names == [i \in DOMAIN r.headers |-> r.headers[i].name]
  IN  FirstError(<< <<r.route # None, "Denied">>,
                    <<~IsInjective(names), "Denied">>,
                    <<ToSet(names) \cap ControlledHeaders # {}, "Denied">> >>)

(* gateway._transport_headers: Host, Connection and Accept-Encoding first  *)
TransportHeaders(url, headers) ==
  <<Field("host", None, 4), Field("connection", "close", 5),
    Field("accept-encoding", "gzip, deflate", 5)>> \o headers

-----------------------------------------------------------------------------
(* Addresses.  nets: the tables of destination.py the address lies in;     *)
(* flags: what the ipaddress library says of it; mapped: the IPv4 address  *)
(* an IPv4-mapped IPv6 address stands for.                                 *)

(* What an address can be: only an IPv6 address is an ISATAP address or    *)
(* stands for another one.                                                 *)
IsAddress(a) ==
  /\ a.v \in {4, 6}
  /\ a.nets \subseteq {"metadata", "private", "special", "isatap"}
  /\ a.flags \subseteq {"unspecified", "loopback", "link_local", "multicast", "reserved", "global"}
  /\ a.v = 4 => "isatap" \notin a.nets /\ a.mapped = None

(* destination.classify_ip_address, for an address that is not mapped *)
ClassifyPlain(a) ==
  LET class ==
        FirstError(<< <<"metadata" \in a.nets, "metadata">>,
                      <<"unspecified" \in a.flags, "unspecified">>,
                      <<"loopback" \in a.flags, "loopback">>,
                      <<"link_local" \in a.flags, "link_local">>,
                      <<"multicast" \in a.flags, "multicast">>,
                      <<"private" \in a.nets, "private">>,
                      <<"special" \in a.nets, "reserved">>,
                      <<a.v = 6 /\ "isatap" \in a.nets, "reserved">>,
                      <<"reserved" \in a.flags \/ "global" \notin a.flags, "reserved">> >>)
  IN  IF class = "ok" THEN "global" ELSE class

(* destination.classify_ip_address: a mapped address is never global *)
Classify(a) ==
  IF a.v = 6 /\ a.mapped # None
  THEN IF ClassifyPlain(a.mapped) = "global" THEN "reserved" ELSE ClassifyPlain(a.mapped)
  ELSE ClassifyPlain(a)

-----------------------------------------------------------------------------
(* Hosts and URLs.                                                         *)

(* destination._normalize_hostname, what it refuses: the second group of   *)
(* checks is not reached for an address.                                   *)
HostValid(h) ==
  /\ h.flaw \notin {"empty", "percent", "space"}
  /\ h.addr = None => /\ h.labels # << >> /\ h.dots <= 1
                      /\ h.flaw \notin {"numeric", "idna", "label", "too_long"}

(* destination._normalize_hostname: an address as it is; otherwise the     *)
(* labels folded to ASCII, without the one trailing dot.                   *)
NormalizeHost(h) ==
  [labels |-> IF h.addr = None THEN h.labels ELSE << >>, addr |-> h.addr]

DefaultPort(scheme) == IF scheme = "https" THEN 443 ELSE 80

UrlFlaws == {"control", "character", "authority", "userinfo", "empty_port", "escape",
             "double_slash", "too_long", "no_host"}

(* destination.normalize_http_url, what it refuses *)
UrlValid(u) ==
  /\ u.flaw \notin UrlFlaws /\ u.scheme \in {"http", "https"}
  /\ HostValid(u.host)
  /\ u.port = None \/ u.port \in 1 .. 65535

(* destination.normalize_http_url *)
NormalizeUrl(u) ==
  [scheme |-> u.scheme, host |-> NormalizeHost(u.host),
   port |-> IF u.port = None THEN DefaultPort(u.scheme) ELSE u.port]

(* gateway._normalize_redirect, the urljoin: what the location leaves out  *)
(* comes from the current URL.                                             *)
JoinUrl(current, loc) ==
  CASE loc.ref = "relative" ->
         [loc EXCEPT !.scheme = current.scheme, !.port = current.port,
           !.host = [labels |-> current.host.labels, addr |-> current.host.addr,
                     dots |-> 0, flaw |-> "fine"]]
    [] loc.ref = "authority" -> [loc EXCEPT !.scheme = current.scheme]
    [] OTHER -> loc

(* A URL as it is written in a request or a location header.               *)
IsLink(l) ==
  /\ l = [ref |-> l.ref, flaw |-> l.flaw, scheme |-> l.scheme, host |-> l.host, port |-> l.port]
  /\ l.host.addr = None \/ IsAddress(l.host.addr)

(* Header fields as a response carries them: they have sizes, content      *)
(* lengths are integers and locations are URLs.                            *)
AreFields(fields) ==
  /\ {HeadersSize(fields), HeadersWireSize(fields), RawHeadersSize(fields)} \subseteq Nat
  /\ Values(fields, "content-length") \in Seq(Int)
  /\ LET links == Values(fields, "location")
     IN  links \in Seq(ToSet(links)) /\ \A l \in ToSet(links) : IsLink(l)

-----------------------------------------------------------------------------
(* Destination policy.                                                     *)

(* HttpDestinationRule.matches: the exact host or, when the rule says so,  *)
(* a name that ends with "." and the rule's host.                          *)
RuleMatches(rule, q) ==
  /\ \/ q.host = rule.host
     \/ /\ rule.subdomains /\ q.host.addr = None
        /\ Len(q.host.labels) > Len(rule.host.labels)
        /\ IsSuffix(rule.host.labels, q.host.labels)
  /\ q.canonical \in {None, q.host} \cup rule.canonicals
  /\ q.scheme \in rule.schemes /\ q.port \in rule.ports /\ q.method \in rule.methods

(* HttpDestinationRule.__post_init__ *)
ValidRule(rule) ==
  /\ rule.schemes # {} /\ rule.ports # {} /\ rule.methods # {}
  /\ rule.ports \subseteq 1 .. 65535
  /\ rule.subdomains => rule.host.addr = None

(* NetworkPolicyRequest.__post_init__: resolution facts belong to the      *)
(* second phase and only to it.                                            *)
ValidFacts(q) ==
  /\ q.phase = "pre" => q.addresses = << >> /\ q.canonical = None
  /\ q.phase = "post" => q.addresses # << >>

(* StaticNetworkPolicyEngine.evaluate *)
Evaluate(policies, q) ==
  IF q.policy \notin DOMAIN policies THEN "policy_not_found"
  ELSE IF \E rule \in policies[q.policy] : RuleMatches(rule, q) THEN "allowed"
  ELSE "destination_not_allowed"

(* SystemNetworkResolver.resolve: stream addresses only, no address twice; *)
(* NetworkResolution keeps the same order.                                 *)
StreamAddresses(infos) ==
  FoldLeft(LAMBDA s, i : IF i.address \in ToSet(s) THEN s ELSE Append(s, i.address),
           << >>, SelectSeq(infos, LAMBDA i : i.stream))

(* The first canonical name among them. *)
CanonicalName(infos) ==
  LET named == SelectSeq(infos, LAMBDA i : i.stream /\ i.canonical # None)
  IN  IF named = << >> THEN None ELSE named[1].canonical

ResolverAnswer(host, infos) ==
  [host |-> host, addresses |-> StreamAddresses(infos), canonical |-> CanonicalName(infos)]

-----------------------------------------------------------------------------
(* Transport evidence.                                                     *)

RedirectStatuses == {301, 302, 303, 307, 308}

(* gateway._response_omits_body *)
OmitsBody(method, status) == method = "HEAD" \/ status \in {204, 205, 304}

(* transport._MINIMUM_STATUS_FRAMING_BYTES: "HTTP/1.1 200 " and two CR LF  *)
MinimumStatusFraming == 17

(* The length of a number in base 16, for numbers below 16^MaxHexDigits.   *)
MaxHexDigits == 7
HexDigits(n) == 1 + Cardinality({k \in 1 .. (MaxHexDigits - 1) : n >= 16^k})

(* transport._require_supported_response_framing *)
FramingSupported(r) ==
  LET te == Values(r.fields, "transfer-encoding")
      cl == Values(r.fields, "content-length")
  IN  /\ Len(te) <= 1 /\ Len(cl) <= 1
      /\ te = << >> \/ cl = << >>
      /\ te # << >> =>
           /\ te[1] = "chunked"
           /\ ~r.omitted =>
                /\ r.bodyWire >= IF r.body = 0 THEN 3 ELSE r.body + HexDigits(r.body) + 7
                /\ r.metaWire >= r.headerWire + MinimumStatusFraming + 2

(* HttpTransportResponse.__post_init__: the counters must be consistent    *)
(* with each other and with the headers and the body they describe.        *)
EvidenceConsistent(r) ==
  /\ r.status \in 200 .. 599
  /\ r.headerBytes >= HeadersSize(r.fields)
  /\ r.headerWire >= HeadersWireSize(r.fields)
  /\ r.headerBytes >= r.headerWire
  /\ r.metaWire >= r.headerWire + MinimumStatusFraming
  /\ r.bodyWire >= r.body
  /\ r.omitted => r.body = 0 /\ r.bodyWire = 0
  /\ FramingSupported(r)
  /\ r.wire = r.metaWire + r.bodyWire

(* transport.parse_http_content_length: a decimal below 2^63; -1 is text   *)
(* that is not one.                                                        *)
ContentLengthValid(value) == value >= 0

(* gateway._redirect_location *)
LocationError(r) ==
  LET values == Values(r.fields, "location")
  IN  FirstError(<< <<Len(values) > 1, "ResponseInvalid">>,
                    <<values # << >> /\ values[1].ref = "empty", "ResponseInvalid">> >>)

HasLocation(r) == Values(r.fields, "location") # << >>

(* gateway._require_transport_response: the gateway checks the evidence    *)
(* again, against the limits it kept for itself.                           *)
RequireTransportResponse(r, attempt) ==
  LET cl == Values(r.fields, "content-length")
      omitted == \/ OmitsBody(attempt.method, r.status)
                 \/ r.status \in RedirectStatuses /\ HasLocation(r)
  IN  FirstError(<<
        <<~EvidenceConsistent(r), "ResponseInvalid">>,
        <<r.headerBytes > attempt.header, "LimitExceeded">>,
        <<r.body > attempt.body, "LimitExceeded">>,
        <<r.wire > attempt.wire, "LimitExceeded">>,
        <<r.status \in RedirectStatuses /\ ~OmitsBody(attempt.method, r.status)
            /\ LocationError(r) # "ok", "ResponseInvalid">>,
        <<r.omitted # omitted, "ResponseInvalid">>,
        <<Len(cl) > 1, "ResponseInvalid">>,
        <<cl # << >> /\ ~ContentLengthValid(cl[1]), "ResponseInvalid">>,
        <<cl # << >> /\ ~r.omitted /\ cl[1] # r.body, "ResponseInvalid">> >>)

-----------------------------------------------------------------------------
(* Content decoding.  coding.form: how the bytes of the body are really    *)
(* compressed; coding.size: what they inflate to; coding.cut: the stream   *)
(* ends early or has trailing data.                                        *)

(* gateway._decompress: the first window that inflates the data decides    *)
Decompress(coding, maximum, forms) ==
  IF coding.form \notin forms THEN "ResponseInvalid"
  ELSE IF coding.size > maximum THEN "LimitExceeded"
  ELSE IF coding.cut THEN "ResponseInvalid"
  ELSE "ok"

(* gateway._decode_response *)
DecodeError(r, maximum) ==
  LET encodings == Values(r.fields, "content-encoding")
      encoding  == IF encodings = << >> THEN "identity" ELSE encodings[1]
      verdict   == CASE encoding = "identity" -> "ok"
                     [] encoding = "gzip" -> Decompress(r.coding, maximum, {"gzip"})
                     [] encoding = "deflate" -> Decompress(r.coding, maximum, {"zlib", "raw"})
                     [] OTHER -> "ResponseInvalid"
  IN  FirstError(<< <<Len(encodings) > 1, "ResponseInvalid">>,
                    <<verdict # "ok", verdict>>,
                    <<encoding = "identity" /\ r.body > maximum, "LimitExceeded">> >>)

DecodedSize(r) ==
  IF Values(r.fields, "content-encoding") \in {<< >>, <<"identity">>} THEN r.body ELSE r.coding.size

WithheldHeaders == {"connection", "content-encoding", "content-length", "transfer-encoding",
  "authentication-info", "proxy-authenticate", "proxy-authentication-info", "set-cookie",
  "set-cookie2", "www-authenticate"}

(* gateway._published_headers *)
PublishedHeaders(fields) == SelectSeq(fields, LAMBDA f : f.name \notin WithheldHeaders)

=============================================================================
