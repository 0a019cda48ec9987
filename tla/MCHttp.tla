------------------------------- MODULE MCHttp -------------------------------
(* Instances of HttpGateway and HttpTransport for TLC.                     *)
EXTENDS HttpGateway

Address(v, nets, flags, mapped) == [v |-> v, nets |-> nets, flags |-> flags, mapped |-> mapped]
PublicA == Address(4, {}, {"global"}, None)
PublicB == Address(6, {}, {"global"}, None)
Loopback == Address(4, {}, {"loopback"}, None)
WireServer == Address(4, {"metadata"}, {"global"}, None)
Mapped == Address(6, {}, {"global"}, PublicA)
Isatap == Address(6, {"isatap"}, {"global"}, None)

Name(labels) == [labels |-> labels, addr |-> None, dots |-> 0, flaw |-> "fine"]
Numeric(a) == [labels |-> << >>, addr |-> a, dots |-> 0, flaw |-> "fine"]
Link(scheme, host, port) == [ref |-> "absolute", flaw |-> "fine", scheme |-> scheme,
                             host |-> host, port |-> port]
Site == Name(<<"example", "org">>)
Sub == [Name(<<"cdn", "example", "org">>) EXCEPT !.dots = 1]
Relative == [Link("https", Site, None) EXCEPT !.ref = "relative"]

TightLimits == [timeout |-> 1, reqHeader |-> 60, reqBody |-> 0, respHeader |-> 20, respBody |-> 2,
                decompressed |-> 3, redirects |-> 1, requests |-> 2, transferred |-> 62]
MCCeiling == [policy |-> "p", methods |-> {"GET", "HEAD"}, schemes |-> {"https"},
            limits |-> TightLimits, routes |-> {}, delivery |-> "required"]
MCAsked == {MCCeiling, [MCCeiling EXCEPT !.schemes = {"http", "https"}],
            [MCCeiling EXCEPT !.methods = {"GET"}, !.limits.redirects = 0],
            [MCCeiling EXCEPT !.policy = "q"], [MCCeiling EXCEPT !.delivery = "best_effort"]}

Request(method, link, limits) ==
  [exact |-> TRUE, method |-> method, url |-> link, limits |-> limits, headers |-> << >>,
   body |-> 0, route |-> None]
Get == Request("GET", Link("https", Site, None), TightLimits)
MCRequests == {Get, Request("HEAD", Link("https", Sub, 443), [TightLimits EXCEPT !.redirects = 0]),
               [Get EXCEPT !.headers = <<Field("cookie", None, 3)>>],
               [Get EXCEPT !.headers = <<Field("proxy-via", None, 3)>>],
               [Get EXCEPT !.route = "r"], [Get EXCEPT !.exact = FALSE],
               Request("GET", Link("http", Site, None), TightLimits),
               Request("GET", Link("https", Site, None), [TightLimits EXCEPT !.requests = 9]),
               Request("GET", [Link("https", Site, None) EXCEPT !.flaw = "userinfo"], TightLimits)}

Rule(host, subdomains) ==
  [host |-> NormalizeHost(host), subdomains |-> subdomains, schemes |-> {"https"},
   ports |-> {443}, methods |-> {"GET", "HEAD"}, canonicals |-> {}]
MCPolicies == [p \in {"p"} |-> {Rule(Site, TRUE), Rule(Numeric(Loopback), FALSE)}]

Info(address) == [stream |-> TRUE, address |-> address, canonical |-> None]
MCLookups == {<<Info(PublicA), Info(PublicA)>>, <<Info(PublicB), Info(WireServer)>>,
              <<Info(Mapped)>>, <<Info(Isatap)>>, << >>,
              <<[Info(Loopback) EXCEPT !.stream = FALSE], Info(PublicA)>>,
              <<[Info(PublicA) EXCEPT !.canonical = NormalizeHost(Name(<<"other", "net">>))]>>}

Plain == [form |-> "plain", size |-> 0, cut |-> FALSE]
Final(status, fields) == [raw |-> "fine", status |-> status, line |-> 13, fields |-> fields,
                         coding |-> Plain]
ContentLength(n) == Field("content-length", n, 3)
Chunked == Field("transfer-encoding", "chunked", 3)
Location(link) == Field("location", link, 3)
Encoded(encoding, form, size, cut, fields) ==
  [Final(200, <<Field("content-encoding", encoding, 2)>> \o fields) EXCEPT
     !.coding = [form |-> form, size |-> size, cut |-> cut]]

MCPeer ==
  [heads |-> {Final(100, << >>), Final(200, <<ContentLength(2)>>), Final(204, << >>),
              Final(200, <<Chunked>>), Final(200, <<[Field("set-cookie", None, 4) EXCEPT !.wide = 3]>>),
              Final(302, <<Location(Relative)>>), Final(307, <<Location(Link("http", Site, None))>>),
              Final(301, <<Location(Link("https", Numeric(Loopback), 443))>>),
              Final(301, <<Location([Relative EXCEPT !.ref = "empty"])>>),
              Final(200, <<[ContentLength(1) EXCEPT !.pad = 0]>>), Final(200, <<ContentLength(-1)>>),
              Encoded("gzip", "gzip", 4, FALSE, << >>), Encoded("deflate", "raw", 3, FALSE, << >>),
              [Final(200, << >>) EXCEPT !.raw = "incomplete"]},
   chunks |-> {[raw |-> "fine", digits |-> 1, size |-> 1], [raw |-> "fine", digits |-> 2, size |-> 0],
               [raw |-> "fine", digits |-> 1, size |-> 3], [raw |-> "extension", digits |-> 3, size |-> 1]},
   trailers |-> {[raw |-> "fine", end |-> TRUE, field |-> Field("x", None, 0)],
                 [raw |-> "fine", end |-> FALSE, field |-> [Field("x", None, 1) EXCEPT !.wide = 2]]},
   pieces |-> {1, 3}]

Evidence(status, fields, body, wire) ==
  [status |-> status, fields |-> fields, body |-> body, headerBytes |-> HeadersSize(fields),
   headerWire |-> HeadersWireSize(fields), bodyWire |-> body, wire |-> wire, omitted |-> FALSE,
   coding |-> Plain]
MCForeign ==
  {Evidence(200, << >>, 2, 19), Evidence(200, << >>, 1, 70), Evidence(200, << >>, 3, 20),
   [Evidence(204, << >>, 0, 17) EXCEPT !.omitted = TRUE],
   [Evidence(302, <<Location(Link("https", Sub, None))>>, 0, 40) EXCEPT !.omitted = TRUE],
   [Evidence(302, <<Location(Link("https", Site, None))>>, 0, 24) EXCEPT !.omitted = TRUE],
   [Evidence(200, << >>, 1, 18) EXCEPT !.headerWire = 3]}

MCFaults == {"raises", "CancelledError", "Cancelled", "Timeout", "malformed"}
=============================================================================
