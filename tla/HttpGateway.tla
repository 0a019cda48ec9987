----------------------------- MODULE HttpGateway -----------------------------
(***************************************************************************)
(* BoundedOutboundHttpGateway.send with its collaborators: the policy      *)
(* engine, the resolver and the transport, each awaited in a task of its   *)
(* own that the gateway gives up at the deadline or when its caller is     *)
(* cancelled.  One operation is modelled: operations share only the set of *)
(* tasks given up.  The policy engine is the shipped one or misbehaves; the*)
(* resolver answers anything of Lookups; the transport is the shipped one  *)
(* (module HttpTransport) or a foreign one that answers anything of        *)
(* ForeignResponses.                                                       *)
(***************************************************************************)
EXTENDS HttpTransport

CONSTANTS
  Requests,          \* the requests a caller may send
  Ceiling,           \* the grant of the host's binding
  Asked,             \* the grants a session may ask for
  Policies,          \* policy id -> rules, the configuration of the engine
  Lookups,           \* answers of getaddrinfo: sequences of address infos
  ForeignResponses,  \* responses a foreign transport may return
  Faults             \* how a collaborator may misbehave

ASSUME GrantsAreValid == \A g \in Asked \cup {Ceiling} : ValidGrant(g)
ASSUME RulesAreValid == \A p \in DOMAIN Policies : \A rule \in Policies[p] : ValidRule(rule)
ASSUME RequestsAreTyped ==
  \A r \in Requests :
    /\ r.body \in Nat /\ IsLink(r.url)
    /\ ValidLimits(r.limits) /\ \A n \in LimitNames : r.limits[n] \in Nat
ASSUME AnswersAreAddresses ==
  \A infos \in Lookups :
    LET answer == StreamAddresses(infos)
    IN  answer \in Seq(ToSet(answer)) /\ \A a \in ToSet(answer) : IsAddress(a)
ASSUME ForeignResponsesAreTyped ==
  \A r \in ForeignResponses :
    /\ AreFields(r.fields)
    /\ r.body \in Nat /\ r.headerBytes \in Nat /\ r.headerWire \in Nat
    /\ r.bodyWire \in Nat /\ r.wire \in Nat
ASSUME FaultsAreNoAnswers == Faults \cap {"none", "running", "allowed", "answer", "ok"} = {}

VARIABLES
  grant,     \* the effective grant of the session
  gpc,       \* idle, the stage whose task is awaited, or done
  req,       \* the gateway's own copy of the request
  url,       \* the normalized current target
  use,       \* requests, redirects, encoded body and wire bytes so far
  res,       \* the resolution of the current hop
  task,      \* the awaited task: none, running, a fault, or its value
  settling,  \* tasks given up that have not ended
  killed,    \* the caller's task is being cancelled
  outcome,   \* pending, ok, or the error the caller gets
  reply,     \* the published response's body size and usage
  dialed     \* history: the hops for which a transport attempt was started

op == <<grant, req>>    \* what the operation was started with, never changed
gVars == <<gpc, op, url, use, res, task, settling, killed, outcome, reply, dialed>>
vars == <<envVars, tVars, gVars>>

NoUse == [requests |-> 0, redirects |-> 0, encoded |-> 0, wire |-> 0]
NoUrl == [scheme |-> "https", host |-> [labels |-> << >>, addr |-> None], port |-> 443]
NoRes == [addresses |-> << >>, canonical |-> None]

Init ==
  /\ late = FALSE /\ cancelled = FALSE /\ dropped = FALSE /\ TInit
  /\ grant \in WithGrant(Ceiling, Asked)
  /\ gpc = "idle" /\ req \in Requests /\ url = NoUrl /\ use = NoUse /\ res = NoRes
  /\ task = "none" /\ settling = {} /\ killed = FALSE
  /\ outcome = "pending" /\ reply = [body |-> 0, usage |-> NoUse] /\ dialed = {}

(* _require_active: cancellation is reported before the deadline *)
Inactive == IF cancelled THEN "Cancelled" ELSE IF late THEN "Timeout" ELSE "ok"

Raise(code) ==
  /\ outcome' = code /\ gpc' = "done" /\ task' = "none"

-----------------------------------------------------------------------------
(* send: everything before the first await.                                *)
Send ==
  /\ gpc = "idle"
  /\ LET error == FirstError(<< <<SnapshotRequest(req) # "ok", SnapshotRequest(req)>>,
                                <<RequireRequest(grant, req) # "ok", RequireRequest(grant, req)>>,
                                <<RequireSupported(req) # "ok", RequireSupported(req)>>,
                                <<Inactive # "ok", Inactive>>,
                                <<~UrlValid(req.url), "RequestInvalid">> >>)
     IN  IF error # "ok" THEN Raise(error) /\ UNCHANGED url
         ELSE gpc' = "loop" /\ url' = NormalizeUrl(req.url) /\ UNCHANGED <<outcome, task>>
  /\ UNCHANGED <<envVars, tVars, op, use, res, settling, killed, reply, dialed>>

(* The head of the loop in _send_bounded, for the first target and for     *)
(* every redirect alike, up to the start of the policy task.               *)
NextHop ==
  /\ gpc = "loop"
  /\ LET error == FirstError(<< <<Inactive # "ok", Inactive>>,
                                <<use.requests >= req.limits.requests, "LimitExceeded">>,
                                <<url.scheme \notin grant.schemes, "Denied">> >>)
     IN  IF error # "ok" THEN Raise(error)
         ELSE gpc' = "pre" /\ task' = "running" /\ UNCHANGED outcome
  /\ res' = NoRes
  /\ UNCHANGED <<envVars, tVars, op, url, use, settling, killed, reply, dialed>>

(* The facts _require_policy gives the policy engine.                      *)
Facts(phase) ==
  [policy |-> grant.policy, phase |-> phase, method |-> req.method, scheme |-> url.scheme,
   host |-> url.host, port |-> url.port, depth |-> use.redirects,
   addresses |-> res.addresses, canonical |-> res.canonical]

-----------------------------------------------------------------------------
(* The collaborators' side of a task.                                      *)

(* A collaborator raises, or cancels its own task: faults of any stage *)
CollaboratorFaults ==
  /\ task = "running" /\ (gpc = "attempt" => tpc = "off")
  /\ \E fault \in Faults : task' = fault
  /\ UNCHANGED <<envVars, tVars, gpc, op, url, use, res, settling, killed, outcome, reply, dialed>>

PolicyAnswers ==
  /\ task = "running" /\ gpc \in {"pre", "post"}
  /\ task' = Evaluate(Policies, Facts(gpc))
  /\ UNCHANGED <<envVars, tVars, gpc, op, url, use, res, settling, killed, outcome, reply, dialed>>

(* The resolver answers for the name it was asked, or for another one *)
ResolverAnswers ==
  /\ task = "running" /\ gpc = "resolve"
  /\ \/ task' = "wrong_host" /\ UNCHANGED res
     \/ \E infos \in Lookups :
          LET answer == ResolverAnswer(url.host, infos)
          IN  /\ res' = [addresses |-> answer.addresses, canonical |-> answer.canonical]
              /\ task' = "answer"
  /\ UNCHANGED <<envVars, tVars, gpc, op, url, use, settling, killed, outcome, reply, dialed>>

TransportAnswers ==
  /\ task = "running" /\ gpc = "attempt" /\ tpc = "done"
  /\ task' = tout
  /\ UNCHANGED <<envVars, tVars, gpc, op, url, use, res, settling, killed, outcome, reply, dialed>>

(* A foreign transport is a value the gateway must not trust: it leaves    *)
(* its response where the shipped one leaves its own.                      *)
ForeignAnswers ==
  /\ task = "running" /\ gpc = "attempt" /\ tpc = "off"
  /\ \E r \in ForeignResponses :
       ta' = [Nothing EXCEPT !.status = r.status, !.fields = r.fields, !.body = r.body,
                !.header = r.headerBytes, !.headerWire = r.headerWire,
                !.metaWire = r.wire - r.bodyWire, !.bodyWire = r.bodyWire,
                !.omitted = r.omitted, !.coding = r.coding]
  /\ task' = "ok"
  /\ UNCHANGED <<envVars, tpc, tx, tread, twriter, tout,
                 gpc, op, url, use, res, settling, killed, outcome, reply, dialed>>

-----------------------------------------------------------------------------
(* The gateway's side: _await_collaborator after asyncio.wait.             *)

(* Mutant of GiveUp: the wait has no timeout of its own.                   *)
GiveUpAnswered ==
  /\ task # "none" /\ (killed \/ (late /\ task # "running"))
  /\ Raise(IF killed THEN "CancelledError" ELSE "Timeout")
  /\ settling' = IF task = "running" THEN settling \cup {gpc} ELSE settling
  /\ dropped' = TRUE
  /\ UNCHANGED <<late, cancelled, tVars, op, url, use, res, killed, reply, dialed>>

(* The wait ends because the caller is cancelled, or at the deadline, a    *)
(* task that ended in the meantime included; the task is cancelled and     *)
(* retained, and cannot publish anything any more.                         *)
GiveUp ==
  /\ task # "none" /\ (killed \/ late)
  /\ Raise(IF killed THEN "CancelledError" ELSE "Timeout")
  /\ settling' = IF task = "running" THEN settling \cup {gpc} ELSE settling
  /\ dropped' = TRUE
  /\ UNCHANGED <<late, cancelled, tVars, op, url, use, res, killed, reply, dialed>>

(* _settling_task_done *)
TaskSettles ==
  /\ \E stage \in settling :
       /\ stage = "attempt" => ~TActive
       /\ settling' = settling \ {stage}
  /\ UNCHANGED <<envVars, tVars, gpc, op, url, use, res, task, killed, outcome, reply, dialed>>

(* _await_collaborator, its end: a value that arrives in time still counts *)
(* only if the operation was not cancelled meanwhile; a collaborator's own *)
(* cancellation counts only while the operation's signal is set.           *)
Returned == {"allowed", "policy_not_found", "destination_not_allowed", "answer", "wrong_host",
             "ok", "malformed"}

(* Mutant of Stopped: a collaborator's cancellation is taken at its word.  *)
StoppedByAnyone(ended) ==
  CASE ended \in Returned -> Inactive
    [] ended \in {"Cancelled", "Timeout"} -> ended
    [] OTHER -> "ok"

Stopped(ended) ==
  CASE ended \in Returned -> Inactive
    [] ended = "Cancelled" /\ cancelled -> "Cancelled"
    [] ended = "Timeout" -> "Timeout"
    [] OTHER -> "ok"

(* _validated_policy_decision: a rebuilt decision, or nothing *)
ValidatedDecision(ended) == ended \in {"allowed", "policy_not_found", "destination_not_allowed"}

(* _validated_resolution: rebuilt, and for the host that was asked for *)
ValidatedResolution(ended) == ended = "answer"

(* _require_policy: what is not an allow is a denial, an exception and a   *)
(* malformed decision included.                                            *)
PolicyError(ended) ==
  FirstError(<< <<Stopped(ended) # "ok", Stopped(ended)>>,
                <<~ValidatedDecision(ended) \/ ended # "allowed", "Denied">> >>)

(* _resolve: an answer for another host is a failed resolution *)
ResolveError(ended) ==
  FirstError(<< <<Stopped(ended) # "ok", Stopped(ended)>>,
                <<~ValidatedResolution(ended), "ResolutionFailed">> >>)

(* _send_attempt: the transport's own limit and response errors are kept *)
SendError(ended) ==
  FirstError(<< <<Stopped(ended) # "ok", Stopped(ended)>>,
                <<ended \in {"LimitExceeded", "ResponseInvalid"}, ended>>,
                <<ended = "malformed", "ResponseInvalid">>,
                <<ended # "ok", "TransportFailed">> >>)

Ended(stage) == gpc = stage /\ task \notin {"none", "running"} /\ ~killed /\ ~late

(* _resolve starts after the first policy phase; an address literal is its *)
(* own resolution and asks nobody.                                         *)
PolicyAdmitsName ==
  /\ Ended("pre")
  /\ LET error == PolicyError(task)
     IN  IF error # "ok" THEN Raise(error) /\ UNCHANGED res
         ELSE IF url.host.addr # None
         THEN /\ res' = [addresses |-> <<url.host.addr>>, canonical |-> None]
              /\ gpc' = "resolve" /\ task' = "answer" /\ UNCHANGED outcome
         ELSE gpc' = "resolve" /\ task' = "running" /\ UNCHANGED <<res, outcome>>
  /\ UNCHANGED <<envVars, tVars, op, url, use, settling, killed, reply, dialed>>

(* Mutant of ResolutionError: only the address that will be used is looked *)
(* at.                                                                     *)
ResolutionErrorFirst ==
  FirstError(<< <<ResolveError(task) # "ok", ResolveError(task)>>,
                <<res.addresses = << >>, "ResolutionFailed">>,
                <<res.addresses # << >> /\ Classify(res.addresses[1]) # "global", "Denied">> >>)

(* The whole answer is refused if one address of it is not global.         *)
ResolutionError ==
  FirstError(<< <<ResolveError(task) # "ok", ResolveError(task)>>,
                <<res.addresses = << >>, "ResolutionFailed">>,
                <<\E a \in ToSet(res.addresses) : Classify(a) # "global", "Denied">> >>)

AddressesAdmitted ==
  /\ Ended("resolve")
  /\ IF ResolutionError # "ok" THEN Raise(ResolutionError)
     ELSE gpc' = "post" /\ task' = "running" /\ UNCHANGED outcome
  /\ UNCHANGED <<envVars, tVars, op, url, use, res, settling, killed, reply, dialed>>

(* Mutant of Remaining: every hop gets the whole budget.                   *)
RemainingPerHop ==
  [method |-> req.method, header |-> req.limits.respHeader,
   body |-> Min({req.limits.respBody, req.limits.transferred}), wire |-> req.limits.transferred]

(* What the cumulative budgets leave for the next attempt.                 *)
Remaining ==
  LET transfer == req.limits.transferred - req.body - use.wire
      response == req.limits.respBody - use.encoded
  IN  [method |-> req.method, header |-> req.limits.respHeader,
       body |-> Min({response, transfer}), wire |-> transfer]

BudgetError ==
  FirstError(<< <<Remaining.wire < 0, "LimitExceeded">>,
                <<req.limits.respBody < use.encoded, "LimitExceeded">>,
                <<HeadersSize(TransportHeaders(url, req.headers)) > req.limits.reqHeader,
                  "LimitExceeded">> >>)

(* The attempt goes to the first address that was admitted, through the    *)
(* shipped transport or a foreign one.                                     *)
PolicyAdmitsAddresses ==
  /\ Ended("post")
  /\ LET error == FirstError(<< <<PolicyError(task) # "ok", PolicyError(task)>>,
                                <<BudgetError # "ok", BudgetError>>,
                                <<~AttemptValid(Remaining), "ValueError">> >>)
     IN  IF error # "ok" THEN Raise(error) /\ UNCHANGED <<tVars, dialed>>
         ELSE /\ gpc' = "attempt" /\ task' = "running" /\ UNCHANGED outcome
              /\ dialed' = dialed \cup {[url |-> url, address |-> res.addresses[1],
                                         answer |-> ToSet(res.addresses), attempt |-> Remaining,
                                         requests |-> use.requests]}
              /\ \/ TransportBegins(Remaining)
                 \/ /\ tpc' = "off" /\ ta' = Nothing /\ tread' = 0
                    /\ twriter' = "none" /\ tout' = "pending" /\ UNCHANGED tx
  /\ UNCHANGED <<envVars, op, url, use, res, settling, killed, reply>>

-----------------------------------------------------------------------------
(* The rest of the loop: the attempt is counted, its evidence checked      *)
(* again and accumulated, a redirect followed or the response published.   *)

Counted == [requests |-> use.requests + 1, redirects |-> use.redirects,
            encoded |-> use.encoded + Response.body, wire |-> use.wire + Response.wire]

Redirects == Response.status \in RedirectStatuses /\ HasLocation(Response)

Target == JoinUrl(url, Values(Response.fields, "location")[1])

AttemptError ==
  FirstError(<< <<SendError(task) # "ok", SendError(task)>>,
                <<RequireTransportResponse(Response, Remaining) # "ok",
                  RequireTransportResponse(Response, Remaining)>>,
                <<req.body + Counted.wire > req.limits.transferred, "LimitExceeded">>,
                <<LocationError(Response) # "ok", LocationError(Response)>>,
                <<Redirects /\ use.redirects >= req.limits.redirects, "LimitExceeded">>,
                <<Redirects /\ ~UrlValid(Target), "ResponseInvalid">> >>)

FollowRedirect ==
  /\ Ended("attempt") /\ AttemptError = "ok" /\ Redirects
  /\ use' = [Counted EXCEPT !.redirects = @ + 1]
  /\ url' = NormalizeUrl(Target)
  /\ gpc' = "loop" /\ task' = "none" /\ tpc' = "off"
  /\ UNCHANGED <<envVars, tx, ta, tread, twriter, tout, op, res, settling, killed, outcome,
                 reply, dialed>>

(* The published response: decoded, without framing and sensitive headers, *)
(* and checked once more against the grant.                                *)
Published ==
  LET bodyless == OmitsBody(req.method, Response.status)
      body == IF bodyless THEN 0 ELSE DecodedSize(Response)
  IN  [status |-> Response.status, fields |-> PublishedHeaders(Response.fields), body |-> body,
       usage |-> [requests |-> Counted.requests, redirects |-> Counted.redirects,
                  request |-> req.body, response |-> Counted.encoded, wire |-> Counted.wire,
                  decompressed |-> body]]

PublishError ==
  FirstError(<< <<AttemptError # "ok", AttemptError>>,
                <<OmitsBody(req.method, Response.status) /\ Response.body > 0, "ResponseInvalid">>,
                <<~OmitsBody(req.method, Response.status)
                    /\ DecodeError(Response, req.limits.decompressed) # "ok",
                  DecodeError(Response, req.limits.decompressed)>>,
                <<~ResponseValid(Published), "ValueError">>,
                <<RequireResponse(grant, req, Published, late) # "ok",
                  RequireResponse(grant, req, Published, late)>> >>)

Publish ==
  /\ Ended("attempt") /\ ~(AttemptError = "ok" /\ Redirects)
  /\ IF PublishError # "ok" THEN Raise(PublishError) /\ UNCHANGED <<use, reply>>
     ELSE /\ Raise("ok") /\ use' = Counted
          /\ reply' = [body |-> Published.body, usage |-> Counted]
  /\ UNCHANGED <<envVars, tVars, op, url, res, settling, killed, dialed>>

-----------------------------------------------------------------------------
(* The environment: time, the operation's signal, the caller's task.       *)
DeadlinePasses ==
  /\ ~late /\ late' = TRUE
  /\ UNCHANGED <<cancelled, dropped, tVars, gVars>>

SignalCancellation ==
  /\ ~cancelled /\ gpc # "done" /\ cancelled' = TRUE
  /\ UNCHANGED <<late, dropped, tVars, gVars>>

CancelCaller ==
  /\ ~killed /\ gpc \notin {"idle", "done"} /\ killed' = TRUE
  /\ UNCHANGED <<envVars, tVars, gpc, op, url, use, res, task, settling, outcome, reply, dialed>>

TransportRuns ==
  /\ gpc = "attempt" \/ dropped
  /\ TransportStep
  /\ UNCHANGED <<envVars, gVars>>

Next ==
  \/ Send \/ NextHop \/ GiveUp \/ PolicyAdmitsName \/ AddressesAdmitted
  \/ PolicyAdmitsAddresses \/ FollowRedirect \/ Publish
  \/ CollaboratorFaults \/ PolicyAnswers \/ ResolverAnswers \/ TransportAnswers
  \/ ForeignAnswers \/ TaskSettles \/ TransportRuns
  \/ DeadlinePasses \/ SignalCancellation \/ CancelCaller

Spec == Init /\ [][Next]_vars

(* Little is assumed: the clock advances, the gateway leaves the head of   *)
(* its loop and a wait whose timeout is over, and the event loop delivers  *)
(* timeouts and cancellations to the shipped transport.  The policy        *)
(* engine, the resolver, a foreign transport and the peer may never answer.*)
TransportInterrupted ==
  /\ gpc = "attempt" \/ dropped
  /\ TransportTimeout \/ TransportDropped
  /\ UNCHANGED <<envVars, gVars>>

FairSpec ==
  /\ Spec
  /\ WF_vars(DeadlinePasses) /\ WF_vars(NextHop) /\ WF_vars(GiveUp)
  /\ WF_vars(TransportInterrupted)

-----------------------------------------------------------------------------
(* An address any host on the Internet may be reached at: the ipaddress    *)
(* library calls it global, no table of destination.py lists it, and it    *)
(* does not embed another address.                                         *)
Public(a) == a.mapped = None /\ a.nets = {} /\ a.flags = {"global"}

(* Whatever redirects, answers of the resolver and faults came before, a   *)
(* connection is only opened (PolicyAdmitsAddresses, the start of          *)
(* _send_attempt) to a target that the schemes and a rule of the policy of *)
(* the host's ceiling cover, at an address all of whose companions in the  *)
(* answer are public; and the policy engine is told of addresses in the    *)
(* second phase only.                                                      *)
AdmittedOnly ==
  /\ \A d \in dialed :
       /\ d.url.scheme \in Ceiling.schemes
       /\ \E rule \in Policies[Ceiling.policy] :
            /\ \/ d.url.host = rule.host
               \/ rule.subdomains /\ IsSuffix(rule.host.labels, d.url.host.labels)
            /\ d.url.scheme \in rule.schemes /\ d.url.port \in rule.ports
       /\ d.address \in d.answer /\ \A a \in d.answer : Public(a)
  /\ gpc \in {"pre", "post"} => ValidFacts(Facts(gpc))

(* The transfer budget is one for all hops: while an attempt goes on, the  *)
(* bytes taken from all peers of the operation fit it, and no more targets *)
(* were dialed than requests are allowed (_send_bounded, what it leaves    *)
(* for the next attempt, with the transport's own accounting).             *)
CumulativeBudget ==
  /\ gpc = "attempt" /\ TActive =>
       req.body + use.wire + tread <= req.limits.transferred
  /\ Cardinality(dialed) <= req.limits.requests
  /\ use.redirects <= req.limits.redirects

(* A response only the peer can be blamed for: its content length is no    *)
(* number, or its location header is empty or repeated.                    *)
PeerFault(r) ==
  \/ \E i \in DOMAIN Values(r.fields, "content-length") :
        ~ContentLengthValid(Values(r.fields, "content-length")[i])
  \/ LocationError(r) # "ok"

(* What the shipped transport hands over is exactly what it took from the  *)
(* stream, and the gateway's second look at the evidence                   *)
(* (_require_transport_response) never finds a limit exceeded or a counter *)
(* inconsistent: transport and gateway account alike.                      *)
EvidenceAccepted ==
  gpc = "attempt" /\ tpc = "done" /\ tout = "ok" =>
    /\ Response.wire = tread
    /\ RequireTransportResponse(Response, Remaining) = "ok" \/ PeerFault(Response)

(* How an operation ends is told truthfully: a response is published only  *)
(* before the deadline and while nobody cancelled; an operation is called  *)
(* cancelled only if its own signal is set, whatever a collaborator        *)
(* raised; and no constructor of the gateway's own values ever raises      *)
(* (_require_active, the except clauses of the three stages).              *)
HonestOutcome ==
  [][outcome' # outcome =>
       /\ outcome' = "ok" => ~late /\ ~cancelled /\ ~killed
       /\ outcome' = "Cancelled" => cancelled
       /\ outcome' = "CancelledError" => killed
       /\ outcome' # "ValueError"]_vars

(* The operation returns by its deadline even if the policy engine, the    *)
(* resolver or the peer never answers, and no stream outlives it.          *)
SendReturns ==
  /\ gpc = "loop" ~> gpc = "done"
  /\ twriter = "open" ~> twriter # "open"

(* The assertion of HttpTransportResponse, "header_wire_bytes must include *)
(* the response headers": the transport's own accounting satisfies the     *)
(* checks of the evidence it builds.                                       *)
OwnEvidenceConsistent == tpc = "finish" => EvidenceConsistent(Response)
=============================================================================
