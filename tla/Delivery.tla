------------------------------ MODULE Delivery ------------------------------
(***************************************************************************)
(* One reply on its way to Graft: graft.Client.ReplyToIssue fetches the    *)
(* actor document of the series, signs a POST to the inbox it names        *)
(* (ap.SignRequest) and sends it, both through the HTTP client that        *)
(* netguard guards, to the check that Graft makes (ap.VerifyRequest is     *)
(* kept the same as Graft's).  Module Pass sees a call as one step with    *)
(* three outcomes: refused, accepted, accepted without an answer.  Here is *)
(* where they come from.                                                   *)
(*                                                                         *)
(* Servers may redirect, names may resolve to different addresses from one *)
(* dial to the next, an answer may be lost after the request was taken, a  *)
(* request may arrive long after the client has given it up, and the two   *)
(* clocks differ.  A digest stands for the body it is made of, a signature *)
(* for the text that was signed.                                           *)
(***************************************************************************)
EXTENDS Integers, FiniteSets

CONSTANTS
  Url,           \* URLs: records of a scheme, a host and a path
  Inbox,         \* the series inboxes among them
  ActorUrl,      \* where the actor document of the series is
  PrivateHost,   \* hosts that are private addresses
  LocalName,     \* hosts named localhost or *.local
  AllowPrivate,  \* netguard.Options
  AllowHTTP,
  MaxRedirects,
  Redirect,      \* redirects servers make: "keep" (307, 308), "get" (301 to 303)
  Skew,          \* how far Graft's clock is ahead of ours
  Window,        \* maxClockSkew
  MaxCalls,      \* bound: calls of ReplyToIssue
  MaxTime        \* bound: the clock

ASSUME DeliveryAssumption ==
  /\ \A u \in Url : u = [scheme |-> u.scheme, host |-> u.host, path |-> u.path]
  /\ Inbox \subseteq Url /\ ActorUrl \in Url
  /\ Redirect \subseteq {"keep", "get"}

VARIABLES
  now,        \* our clock
  pc,         \* "idle", "actor" (the GET of the document), "send" or "wait"
  request,    \* the request the client is working on
  hops,       \* the requests made before it in this call
  calls,      \* calls made so far
  flying,     \* requests sent that have not arrived
  signed,     \* every request as it was signed
  accepted,   \* the requests Graft took, with the time
  refused,    \* the requests Graft's check turned down, with the time
  dialled,    \* the connections made: scheme and kind of address
  answer,     \* the status on its way to the client that waits
  results,    \* what each call returned: its body and "ok" or "failed"
  lost        \* the bodies of the calls whose answer was lost

call  == <<pc, request, hops, calls, answer>>
graft == <<accepted, refused>>
vars  == <<now, call, flying, signed, graft, dialled, results, lost>>

Bodies  == 1..MaxCalls
NoBody  == 0
Nothing == [headers |-> {}]

(* HTTP statuses; Graft may answer with any success. *)
NoAnswer     == 0
Success      == {200, 202}
Page         == 200
Unauthorized == 401
ServerError  == 500

-----------------------------------------------------------------------------
(* Signatures (ap/sign.go). *)

signedHeaders         == {"(request-target)", "host", "date", "digest"}
requiredSignedHeaders == {"(request-target)", "digest"}

(* Mutation: the request target is signed without its path. *)
HeaderWithoutPath(h, r) ==
  CASE h = "(request-target)" -> <<r.method>>
    [] h = "host"   -> <<r.url.host>>
    [] h = "date"   -> <<r.date>>
    [] h = "digest" -> <<r.digest>>

Header(h, r) ==
  CASE h = "(request-target)" -> <<r.method, r.url.path>>
    [] h = "host"   -> <<r.url.host>>
    [] h = "date"   -> <<r.date>>
    [] h = "digest" -> <<r.digest>>

buildSigningString(headers, r) == [h \in headers |-> Header(h, r)]

Unsigned(u, body) ==
  [method |-> "POST", url |-> u, body |-> body, date |-> now, digest |-> body]

(* A request with the signature it carries. *)
Signed(r, text) == [head |-> r, headers |-> signedHeaders, text |-> text]

(* Mutation: the text is signed before the Date header is set. *)
SignUndated(u, body) ==
  LET r == Unsigned(u, body)
  IN  Signed(r, buildSigningString(signedHeaders, [r EXCEPT !.date = -1]))

SignRequest(u, body) ==
  LET r == Unsigned(u, body)
  IN  Signed(r, buildSigningString(signedHeaders, r))

InWindow(r, t) == t + Skew - r.head.date \in -Window..Window

(* What Graft checks of a request that arrives at time t.                  *)
VerifyRequest(r, t) ==
  /\ InWindow(r, t)
  /\ r.head.digest = r.head.body
  /\ requiredSignedHeaders \subseteq r.headers
  /\ r.text = buildSigningString(r.headers, r.head)

-----------------------------------------------------------------------------
(* The guard (netguard/netguard.go). *)

SchemeAllowed(u) == u.scheme = "https" \/ (AllowHTTP /\ u.scheme = "http")

Validate(u) ==
  /\ SchemeAllowed(u)
  /\ u.host \notin LocalName
  /\ u.host \in PrivateHost => AllowPrivate

Address == {"public", "private"}

ipAllowed(a) == AllowPrivate \/ a = "public"

(* The answers the resolver may give for a host, each time it is asked.    *)
Resolved(host) ==
  IF host \in PrivateHost \cup LocalName THEN {{"private"}} ELSE SUBSET Address \ {{}}

(* Mutation: the first address is dialled, whatever it is. *)
DialFirst(u) == {[scheme |-> u.scheme, address |-> a] : a \in UNION Resolved(u.host)}

(* The connections a dial may make: to an allowed address among those the  *)
(* name resolves to.  None when there is no such address.                  *)
Dial(u) ==
  {[scheme |-> u.scheme, address |-> a] : a \in {b \in UNION Resolved(u.host) : ipAllowed(b)}}

-----------------------------------------------------------------------------
(* The call. *)

Init ==
  /\ now = 0 /\ pc = "idle" /\ request = Nothing /\ hops = 0 /\ calls = 0
  /\ flying = {} /\ signed = {} /\ accepted = {} /\ refused = {} /\ dialled = {}
  /\ answer = NoAnswer /\ results = {} /\ lost = {}

Return(body, result) ==
  /\ pc' = "idle" /\ request' = Nothing /\ hops' = 0 /\ answer' = NoAnswer
  /\ results' = results \cup {[body |-> body, result |-> result]}

CheckRedirect(u) == hops + 1 < MaxRedirects /\ Validate(u)

Get(u) == [head |-> [method |-> "GET", url |-> u]]

(* Actor: the document is at a URL of the configured Graft.  Its GET does  *)
(* nothing to anyone, so that a hop, dial and answer, is one step.         *)
Actor ==
  /\ pc = "idle" /\ calls < MaxCalls /\ calls' = calls + 1
  /\ pc' = "actor" /\ request' = Get(ActorUrl) /\ hops' = 0
  /\ UNCHANGED <<now, flying, signed, graft, dialled, answer, results, lost>>

GetDials ==
  /\ pc = "actor"
  /\ \E c \in Dial(request.head.url) : dialled' = dialled \cup {c}

GetRedirected(u) ==
  /\ GetDials /\ CheckRedirect(u)
  /\ request' = Get(u) /\ hops' = hops + 1
  /\ UNCHANGED <<now, pc, calls, flying, signed, graft, answer, results, lost>>

(* The answer decodes and names an inbox, and a reply of its own is signed *)
(* for it: a call never sends what another call has signed.                *)
ReplyToIssue(u) ==
  /\ GetDials /\ Validate(u)
  /\ pc' = "send" /\ request' = SignRequest(u, calls) /\ hops' = 0
  /\ signed' = signed \cup {request'}
  /\ UNCHANGED <<now, calls, flying, graft, answer, results, lost>>

(* There is no answer below 300 that decodes, or it names a bad inbox: a   *)
(* page is an error here.                                                  *)
NoInbox ==
  /\ pc = "actor" /\ UNCHANGED calls
  /\ GetDials \/ UNCHANGED dialled
  /\ Return(calls, "failed")
  /\ UNCHANGED <<now, flying, signed, graft, lost>>

Send(c) ==
  /\ pc = "send" /\ c \in Dial(request.head.url)
  /\ pc' = "wait"
  /\ dialled' = dialled \cup {c}
  /\ flying' = flying \cup {request}
  /\ UNCHANGED <<now, request, hops, calls, signed, graft, answer, results, lost>>

(* Nothing that may be dialled, or nobody answers there. *)
SendFails ==
  /\ pc = "send" /\ UNCHANGED calls
  /\ Return(calls, "failed")
  /\ UNCHANGED <<now, flying, signed, graft, dialled, lost>>

(* Mutation: a POST whose answer is lost is sent again. *)
SendAgain ==
  /\ pc = "wait" /\ pc' = "send" /\ answer' = NoAnswer
  /\ UNCHANGED <<now, request, hops, calls, flying, signed, graft, dialled, results, lost>>

(* HTTP.Do fails in the place of an answer, or something between the two   *)
(* makes up an error for it: the connection breaks, is reset or closed, the *)
(* timeout of the request or of the pass ends.  That may be before the     *)
(* request arrives, which it may still do, after Graft has taken it, or    *)
(* with the answer under way.                                              *)
AnswerLost ==
  /\ pc = "wait" /\ UNCHANGED calls
  /\ lost' = lost \cup {calls}
  /\ Return(calls, "failed")
  /\ UNCHANGED <<now, flying, signed, graft, dialled>>

(* Mutation: only 200 is success. *)
StrictStatus(status) == IF status = 200 THEN "ok" ELSE "failed"

postSigned(status) == IF status >= 300 THEN "failed" ELSE "ok"

Answered ==
  /\ pc = "wait" /\ answer # NoAnswer /\ UNCHANGED calls
  /\ Return(calls, postSigned(answer))
  /\ UNCHANGED <<now, flying, signed, graft, dialled, lost>>

-----------------------------------------------------------------------------
(* A request arrives.  An answer is sent if the client still waits for it. *)

Waiting(r) == pc = "wait" /\ request = r

Answer(r, statuses) ==
  IF Waiting(r)
    THEN answer' \in statuses /\ UNCHANGED <<pc, request, hops, calls>>
    ELSE UNCHANGED call

Arrives(r) == r \in flying /\ flying' = flying \ {r}

Handled(r) ==
  /\ Arrives(r)
  /\ r.head.url \in Inbox /\ r.head.method = "POST"
  /\ LET valid == VerifyRequest(r, now)
         stamped == {[request |-> r, at |-> now]}
     IN  /\ accepted' = IF valid THEN accepted \cup stamped ELSE accepted
         /\ refused' = IF valid THEN refused ELSE refused \cup stamped
         /\ Answer(r, IF valid THEN Success ELSE {Unauthorized})
  /\ UNCHANGED <<now, signed, dialled, results, lost>>

(* Any server may fail, and one that is no inbox shows a page to a GET. *)
Elsewhere(r) ==
  /\ Arrives(r)
  /\ \/ Answer(r, {ServerError})
     \/ r.head.method = "GET" /\ r.head.url \notin Inbox /\ Answer(r, {Page})
  /\ UNCHANGED <<now, signed, graft, dialled, results, lost>>

(* net/http turns a POST redirected by 301 to 303 into a GET without a     *)
(* body, and copies the headers: digest, date and signature.               *)
Redirected(r, code, u) ==
  LET there == [r EXCEPT !.head.url = u]
  IN  IF code = "keep" THEN there
      ELSE [there EXCEPT !.head.method = "GET", !.head.body = NoBody]

(* The client follows a redirect or fails.  It changes nothing where it    *)
(* comes from, so that it is one step whether or not the client hears it.  *)
RedirectedTo(r, code, u) ==
  /\ Arrives(r)
  /\ \/ /\ Waiting(r) /\ CheckRedirect(u)
        /\ pc' = "send" /\ request' = Redirected(r, code, u) /\ hops' = hops + 1
        /\ UNCHANGED <<calls, answer, results>>
     \/ /\ Waiting(r) /\ ~CheckRedirect(u)
        /\ Return(calls, "failed") /\ UNCHANGED calls
     \/ ~Waiting(r) /\ UNCHANGED <<call, results>>
  /\ UNCHANGED <<now, signed, graft, dialled, lost>>

TimePasses ==
  /\ now < MaxTime
  /\ now' = now + 1
  /\ UNCHANGED <<call, flying, signed, graft, dialled, results, lost>>

Next ==
  \/ Actor \/ NoInbox \/ SendFails \/ Answered \/ AnswerLost \/ TimePasses
  \/ \E u \in Url : GetRedirected(u) \/ ReplyToIssue(u)
  \/ \E c \in [scheme : {"https", "http"}, address : Address] : Send(c)
  \/ \E r \in flying :
       \/ Handled(r) \/ Elsewhere(r)
       \/ \E code \in Redirect, u \in Url : RedirectedTo(r, code, u)

Spec == Init /\ [][Next]_vars

-----------------------------------------------------------------------------
(* Properties. *)

(* Graft takes nothing but what the bridge has signed, for the inbox it was *)
(* signed for, within the window: a request that a redirect takes to        *)
(* another inbox, or strips of its body, or that arrives late, is turned    *)
(* down (VerifyRequest against SignRequest).                                *)
AcceptedAsSigned ==
  \A a \in accepted : a.request \in signed /\ InWindow(a.request, a.at)

(* Graft turns nothing down that reaches the inbox it was signed for in     *)
(* time: what SignRequest signs, VerifyRequest verifies.                    *)
RefusedForCause ==
  \A x \in refused : x.request \in signed => ~InWindow(x.request, x.at)

(* Every connection is to an address and over a scheme the options allow,   *)
(* whatever the resolver says from one time to the next and wherever        *)
(* servers redirect to (netguard.Options).                                  *)
OnlyAllowedDialled ==
  \A c \in dialled : (c.address = "private" => AllowPrivate)
                      /\ (c.scheme = "http" => AllowHTTP)

Taken(body) == \E a \in accepted : a.request.head.body = body

(* A reply that Graft has taken is reported as failed only if the answer    *)
(* was lost: an error that Graft answers with means that it has not taken   *)
(* the reply and never will, so that the retry of the next pass repeats     *)
(* nothing (client.go:164-173; the outcomes module Pass gives a reply).     *)
AnsweredFailureNotTaken ==
  \A x \in results : x.result = "failed" /\ x.body \notin lost => ~Taken(x.body)

(* Something that Graft could take the reply from is under way, or about to *)
(* be sent.                                                                 *)
UnderWay(body) ==
  \/ \E r \in flying : r.head.method = "POST" /\ r.head.body = body
  \/ pc = "send" /\ request.head.method = "POST" /\ request.head.body = body

(* Whatever is redirected, late or lost, one call makes Graft take its      *)
(* reply once at the most, and when it has taken it nothing of it is under  *)
(* way: the only repetitions are new calls, of later passes                 *)
(* (client.go:153-167).                                                     *)
TakenOnce ==
  \A a \in accepted :
    /\ ~UnderWay(a.request.head.body)
    /\ \A b \in accepted : b.request.head.body = a.request.head.body => b = a

(* A call that returns no error has delivered the reply: what is then       *)
(* recorded was "already sent to Graft" (state.go:68-69).                   *)
OkMeansTaken ==
  \A x \in results : x.result = "ok" => Taken(x.body)
=============================================================================
