--------------------------- MODULE DeliveryProof ---------------------------
(***************************************************************************)
(* What a reply and its signature are worth to Graft, for any URLs,        *)
(* redirects, resolvers, clocks and number of calls.                       *)
(*                                                                         *)
(* The argument follows a request from SignRequest to VerifyRequest: it    *)
(* carries what was signed of it wherever redirects take it, so that a     *)
(* request Graft takes is, field by field, one that was signed.            *)
(***************************************************************************)
EXTENDS Delivery, TLAPS

(* A request with a head and a signature. *)
WellFormed(r) ==
  /\ r = [head |-> r.head, headers |-> signedHeaders, text |-> r.text]
  /\ r.head = [method |-> r.head.method, url |-> r.head.url, body |-> r.head.body,
               date |-> r.head.date, digest |-> r.head.digest]
  /\ r.head.url \in Url

(* What SignRequest makes. *)
Genuine(s) ==
  /\ WellFormed(s)
  /\ s.head.method = "POST" /\ s.head.digest = s.head.body
  /\ SchemeAllowed(s.head.url)
  /\ s.text = buildSigningString(signedHeaders, s.head)

(* What redirects leave of one that is among S: the signature and, of a    *)
(* GET, no body.                                                           *)
Carries(r, S) ==
  /\ WellFormed(r)
  /\ SchemeAllowed(r.head.url)
  /\ \E s \in S : r.text = s.text
  /\ r.head.method = "POST" \/ r.head.method = "GET"

SignedInv ==
  /\ \A s \in signed : Genuine(s)
  /\ \A r \in flying : Carries(r, signed)
  /\ pc \in {"send", "wait"} => Carries(request, signed)

(* What Graft has made of the requests that reached an inbox. *)
CheckedInv ==
  /\ \A a \in accepted : /\ Carries(a.request, signed) /\ a.request.head.method = "POST"
                         /\ VerifyRequest(a.request, a.at)
  /\ \A x \in refused : ~VerifyRequest(x.request, x.at)

(* What is dialled: the URL of the document is as good as one that has     *)
(* been validated.                                                         *)
DialInv ==
  /\ pc = "actor" => SchemeAllowed(request.head.url)
  /\ OnlyAllowedDialled

(* A request that can still bring its reply to Graft is the one the client *)
(* waits for, unanswered, or its answer was lost; every call has returned  *)
(* once, the current one not yet.                                          *)
ReportInv ==
  /\ calls \in Nat
  /\ pc \in {"send", "wait"} => request.head.method = "GET" \/ request.head.body = calls
  /\ answer # NoAnswer => pc = "wait" /\ request \notin flying
  /\ \A r \in flying : \/ r.head.method = "GET"
                       \/ r.head.body \in lost
                       \/ Waiting(r)
  /\ \A a \in accepted : \/ a.request.head.body \in lost
                         \/ \E y \in results :
                              y.body = a.request.head.body /\ y.result = "ok"
                         \/ pc = "wait" /\ calls = a.request.head.body /\ answer \in Success
  /\ \A x \in results : x.body \in Nat /\ x.body <= calls /\ (pc # "idle" => x.body # calls)
  /\ \A x \in results, y \in results : x.body = y.body => x.result = y.result

(* One request carries a reply.  None does while the call has yet to sign  *)
(* it, nor beside the one that is about to be sent.                        *)
Mine(r) == r.head.method = "POST" /\ r.head.body = calls

CarrierInv ==
  /\ TakenOnce
  /\ \A r \in flying, q \in flying :
       r.head.method = "POST" /\ q.head.method = "POST" /\ r.head.body = q.head.body => r = q
  /\ \A r \in flying : r.head.method = "POST" => r.head.body \in 0..calls
  /\ \A a \in accepted : a.request.head.body \in 0..calls
  /\ pc = "actor" => /\ \A r \in flying : ~Mine(r)
                     /\ \A a \in accepted : a.request.head.body # calls
  /\ pc = "send" /\ Mine(request) => \A r \in flying : ~Mine(r)

-----------------------------------------------------------------------------
(* A signing string says all that Graft looks at. *)
LEMMA SigningString ==
  ASSUME NEW a, NEW b,
         buildSigningString(signedHeaders, a) = buildSigningString(signedHeaders, b)
  PROVE  /\ a.method = b.method /\ a.url.path = b.url.path
         /\ a.url.host = b.url.host
         /\ a.date = b.date /\ a.digest = b.digest
PROOF
  <1>1. \A h \in signedHeaders : Header(h, a) = Header(h, b)
    BY DEF buildSigningString
  <1>2. Header("(request-target)", a) = Header("(request-target)", b)
    BY <1>1 DEF signedHeaders
  <1>3. Header("host", a) = Header("host", b)
    BY <1>1 DEF signedHeaders
  <1>4. Header("date", a) = Header("date", b)
    BY <1>1 DEF signedHeaders
  <1>5. Header("digest", a) = Header("digest", b)
    BY <1>1 DEF signedHeaders
  <1>6. <<a.method, a.url.path>> = <<b.method, b.url.path>>
    BY <1>2 DEF Header
  <1>7. <<a.url.host>> = <<b.url.host>>
    BY <1>3 DEF Header
  <1>8. <<a.date>> = <<b.date>> /\ <<a.digest>> = <<b.digest>>
    BY <1>4, <1>5 DEF Header
  <1> QED
    BY <1>6, <1>7, <1>8

(* SignRequest signs what it is asked to. *)
LEMMA SignedIsGenuine ==
  ASSUME NEW u \in Url, SchemeAllowed(u), NEW body
  PROVE  /\ Genuine(SignRequest(u, body))
         /\ SignRequest(u, body).head.url = u
         /\ SignRequest(u, body).head.body = body
PROOF
  BY DEF Genuine, WellFormed, SignRequest, Signed, Unsigned

(* A redirect moves a request; one that loses its method loses its body.   *)
LEMMA RedirectKeeps ==
  ASSUME NEW r, WellFormed(r), NEW u \in Url, NEW code \in Redirect
  PROVE  LET there == Redirected(r, code, u) IN
         /\ WellFormed(there)
         /\ there.head.url = u
         /\ there.text = r.text
         /\ \/ there.head.method = r.head.method /\ there.head.body = r.head.body
            \/ there.head.method = "GET"
PROOF
  <1> DEFINE h == [method |-> r.head.method, url |-> u, body |-> r.head.body,
                   date |-> r.head.date, digest |-> r.head.digest]
             there == [head |-> h, headers |-> signedHeaders, text |-> r.text]
  <1>1. [r EXCEPT !.head.url = u] = there
    BY DEF WellFormed
  <1>2. CASE code = "keep"
    BY <1>1, <1>2 DEF WellFormed, Redirected
  <1>3. CASE code = "get"
    BY <1>1, <1>3 DEF WellFormed, Redirected
  <1> QED
    BY <1>2, <1>3, DeliveryAssumption

(* What is signed stays signed, and what a redirect leaves of it too.      *)
LEMMA CarriesOn ==
  ASSUME NEW S, NEW T, S \subseteq T, NEW r, Carries(r, S)
  PROVE  Carries(r, T)
PROOF
  BY DEF Carries

(* A genuine request carries its own signature. *)
LEMMA GenuineCarries ==
  ASSUME NEW S, NEW s \in S, Genuine(s)
  PROVE  Carries(s, S)
PROOF
  BY DEF Carries, Genuine

(* A redirect that the client follows carries the signature on. *)
LEMMA RedirectCarries ==
  ASSUME NEW S, NEW r, Carries(r, S), NEW u \in Url, SchemeAllowed(u),
         NEW code \in Redirect
  PROVE  Carries(Redirected(r, code, u), S)
PROOF
  <1>1. WellFormed(r) /\ (r.head.method = "POST" \/ r.head.method = "GET")
    BY DEF Carries
  <1> DEFINE there == Redirected(r, code, u)
  <1>2. /\ WellFormed(there) /\ there.head.url = u /\ there.text = r.text
        /\ there.head.method = r.head.method \/ there.head.method = "GET"
    BY <1>1, RedirectKeeps
  <1> HIDE DEF there
  <1>3. Carries(there, S)
    BY <1>1, <1>2 DEF Carries
  <1> QED
    BY <1>3 DEF there

-----------------------------------------------------------------------------
(* The kinds of step, apart from the one that signs and the ones that      *)
(* follow a redirect or send.                                              *)
Plain ==
  \/ UNCHANGED vars \/ Actor \/ NoInbox \/ SendFails \/ Answered \/ AnswerLost
  \/ TimePasses
  \/ \E u \in Url : GetRedirected(u)
  \/ \E r \in flying : Handled(r) \/ Elsewhere(r)

(* Every step is of one of them. *)
LEMMA DeliverySteps ==
  ASSUME [Next]_vars
  PROVE  \/ Plain
         \/ \E u \in Url : ReplyToIssue(u)
         \/ \E c \in [scheme : {"https", "http"}, address : Address] : Send(c)
         \/ \E r \in flying, code \in Redirect, u \in Url : RedirectedTo(r, code, u)
PROOF
  <1>1. CASE \E u \in Url : GetRedirected(u) \/ ReplyToIssue(u)
    BY <1>1 DEF Plain
  <1>2. CASE \E r \in flying : \/ Handled(r) \/ Elsewhere(r)
                                \/ \E code \in Redirect, u \in Url : RedirectedTo(r, code, u)
    BY <1>2 DEF Plain
  <1>3. CASE \/ UNCHANGED vars \/ Actor \/ NoInbox \/ SendFails \/ Answered \/ AnswerLost
             \/ TimePasses
    BY <1>3 DEF Plain
  <1> QED
    BY <1>1, <1>2, <1>3 DEF Next

(* The client holds and sends nothing but signed requests: SignedInv. *)
LEMMA SignedInit == Init => SignedInv
PROOF
  BY DEF Init, SignedInv

(* Every step keeps it. *)
LEMMA SignedStep == SignedInv /\ [Next]_vars => SignedInv'
PROOF
  <1> SUFFICES ASSUME SignedInv, [Next]_vars PROVE SignedInv'
    OBVIOUS
  <1> USE DEF call, graft, vars
  <1>1. ASSUME NEW u \in Url, ReplyToIssue(u) PROVE SignedInv'
    <2> DEFINE s == SignRequest(u, calls)
    <2>1. Genuine(s)
      BY <1>1, SignedIsGenuine DEF ReplyToIssue, Validate
    <2>2. request' = s /\ signed' = signed \cup {s} /\ flying' = flying
      BY <1>1 DEF ReplyToIssue
    <2> HIDE DEF s
    <2>3. Carries(s, signed')
      BY <2>1, <2>2, GenuineCarries
    <2>4. \A r \in flying : Carries(r, signed')
      BY <2>2, CarriesOn DEF SignedInv
    <2> QED
      BY <2>1, <2>2, <2>3, <2>4 DEF SignedInv
  <1>2. ASSUME NEW r \in flying, NEW code \in Redirect, NEW u \in Url,
               RedirectedTo(r, code, u)
        PROVE  SignedInv'
    <2> DEFINE there == Redirected(r, code, u)
    <2>1. signed' = signed /\ flying' = flying \ {r}
      BY <1>2 DEF RedirectedTo, Arrives
    <2>2. pc' \in {"send", "wait"} =>
             (request' = there /\ SchemeAllowed(u)) \/ (request' = request /\ pc' = pc)
      BY <1>2 DEF RedirectedTo, CheckRedirect, Validate, Return
    <2>3. SchemeAllowed(u) => Carries(there, signed)
      BY RedirectCarries DEF SignedInv
    <2> HIDE DEF there
    <2> QED
      BY <2>1, <2>2, <2>3 DEF SignedInv
  <1>3. ASSUME NEW c, Send(c) PROVE SignedInv'
    <2>1. /\ pc = "send" /\ request' = request /\ signed' = signed
          /\ flying' = flying \cup {request}
      BY <1>3 DEF Send
    <2> QED
      BY <2>1 DEF SignedInv
  <1>4. CASE Plain
    <2>1. /\ signed' = signed /\ flying' \subseteq flying
          /\ pc' \in {"send", "wait"} => pc' = pc /\ request' = request
      BY <1>4 DEF Plain, Actor, NoInbox, SendFails, Answered, AnswerLost, TimePasses,
                  GetRedirected, GetDials, Handled, Elsewhere, Arrives, Answer, Return
    <2> QED
      BY <2>1 DEF SignedInv
  <1> QED
    BY <1>1, <1>2, <1>3, <1>4, DeliverySteps

-----------------------------------------------------------------------------
(* Graft verifies what it takes, and only that: CheckedInv. *)
LEMMA CheckedStep == SignedInv /\ CheckedInv /\ [Next]_vars => CheckedInv'
PROOF
  <1> SUFFICES ASSUME SignedInv, CheckedInv, [Next]_vars PROVE CheckedInv'
    OBVIOUS
  <1> USE DEF call, graft, vars
  <1>1. ASSUME NEW r \in flying, Handled(r) PROVE CheckedInv'
    <2> DEFINE stamped == [request |-> r, at |-> now]
    <2>1. signed' = signed /\ r.head.method = "POST" /\ Carries(r, signed)
      BY <1>1 DEF Handled, SignedInv
    <2>2. CASE VerifyRequest(r, now)
      <3>1. accepted' = accepted \cup {stamped} /\ refused' = refused
        BY <1>1, <2>2 DEF Handled
      <3> QED
        BY <2>1, <2>2, <3>1 DEF CheckedInv
    <2>3. CASE ~VerifyRequest(r, now)
      <3>1. accepted' = accepted /\ refused' = refused \cup {stamped}
        BY <1>1, <2>3 DEF Handled
      <3> QED
        BY <2>1, <2>3, <3>1 DEF CheckedInv
    <2> QED
      BY <2>2, <2>3
  <1>2. ASSUME accepted' = accepted, refused' = refused, signed \subseteq signed'
        PROVE  CheckedInv'
    BY <1>2, CarriesOn DEF CheckedInv
  <1>3. CASE Plain /\ ~\E r \in flying : Handled(r)
    BY <1>2, <1>3 DEF Plain, Actor, NoInbox, SendFails, Answered, AnswerLost,
                      TimePasses, GetRedirected, Elsewhere
  <1>4. /\ \A u : ReplyToIssue(u) => CheckedInv'
        /\ \A c : Send(c) => CheckedInv'
        /\ \A r, code, u : RedirectedTo(r, code, u) => CheckedInv'
    BY <1>2 DEF ReplyToIssue, Send, RedirectedTo
  <1> QED
    BY <1>1, <1>3, <1>4, DeliverySteps

(* Both hold throughout. *)
LEMMA SignatureInvariant == Spec => [](SignedInv /\ CheckedInv)
PROOF
  <1>1. Init => SignedInv /\ CheckedInv
    BY SignedInit DEF Init, CheckedInv
  <1>2. SignedInv /\ CheckedInv /\ [Next]_vars => (SignedInv /\ CheckedInv)'
    BY SignedStep, CheckedStep
  <1> QED
    BY <1>1, <1>2, PTL DEF Spec

(* Two URLs of one scheme that a signing string does not tell apart. *)
LEMMA SameUrl ==
  ASSUME NEW u \in Url, NEW v \in Url,
         u.scheme = v.scheme, u.host = v.host, u.path = v.path
  PROVE  u = v
PROOF
  BY DeliveryAssumption

(* Unless the options allow plaintext, all schemes are one; then nothing   *)
(* that redirects can change of a signed request gets past the check.  With *)
(* plaintext allowed the scheme is what a signature does not cover.        *)
LEMMA VerifiedWasSigned ==
  ASSUME ~AllowHTTP, NEW S, \A s \in S : Genuine(s),
         NEW r, Carries(r, S), NEW t, VerifyRequest(r, t), r.head.method = "POST"
  PROVE  r \in S
PROOF
  <1>1. PICK s \in S : r.text = s.text
    BY DEF Carries
  <1>2. /\ r.headers = signedHeaders /\ WellFormed(r) /\ WellFormed(s)
        /\ s.text = buildSigningString(signedHeaders, s.head)
        /\ s.head.method = "POST" /\ s.head.digest = s.head.body
        /\ s.head.url.scheme = "https" /\ r.head.url.scheme = "https"
    BY <1>1 DEF Carries, Genuine, WellFormed, SchemeAllowed
  <1>3. /\ r.text = buildSigningString(signedHeaders, r.head)
        /\ r.head.digest = r.head.body
    BY <1>2 DEF VerifyRequest
  <1>4. /\ r.head.url.path = s.head.url.path /\ r.head.url.host = s.head.url.host
        /\ r.head.date = s.head.date /\ r.head.digest = s.head.digest
    BY <1>1, <1>2, <1>3, SigningString
  <1>5. r.head.url = s.head.url
    BY <1>2, <1>4, SameUrl DEF WellFormed
  <1>6. r.head = s.head
    BY <1>2, <1>3, <1>4, <1>5 DEF WellFormed
  <1>7. r = s
    BY <1>1, <1>2, <1>6 DEF WellFormed
  <1> QED
    BY <1>7

(* Graft takes nothing but what the bridge has signed, in time, whichever  *)
(* inbox a redirect takes a request to and whatever it strips from it.  The *)
(* policy for Graft never allows plaintext (cmd/bridge/main.go:68, which is *)
(* Config!graftPolicy): hence the hypothesis.                              *)
THEOREM TakenAsSigned ==
  ASSUME ~AllowHTTP
  PROVE  Spec => []AcceptedAsSigned
PROOF
  <1>1. SignedInv /\ CheckedInv => AcceptedAsSigned
    BY VerifiedWasSigned DEF SignedInv, CheckedInv, AcceptedAsSigned, VerifyRequest
  <1> QED
    BY <1>1, SignatureInvariant, PTL

(* What the bridge has signed is turned down only by the clocks.           *)
THEOREM RefusedByTheClock == Spec => []RefusedForCause
PROOF
  <1>1. SignedInv /\ CheckedInv => RefusedForCause
    <2> SUFFICES ASSUME SignedInv, CheckedInv, NEW x \in refused, x.request \in signed
                 PROVE  ~InWindow(x.request, x.at)
      BY DEF RefusedForCause
    <2>1. Genuine(x.request) /\ ~VerifyRequest(x.request, x.at)
      BY DEF SignedInv, CheckedInv
    <2>2. requiredSignedHeaders \subseteq signedHeaders
      BY DEF requiredSignedHeaders, signedHeaders
    <2>3. x.request.headers = signedHeaders
      BY <2>1 DEF Genuine, WellFormed
    <2> QED
      BY <2>1, <2>2, <2>3 DEF Genuine, VerifyRequest
  <1> QED
    BY <1>1, SignatureInvariant, PTL

-----------------------------------------------------------------------------
(* A connection that Dial makes is as the options have it. *)
LEMMA DialAllowed ==
  ASSUME NEW u, SchemeAllowed(u), NEW c \in Dial(u)
  PROVE  (c.address = "private" => AllowPrivate) /\ (c.scheme = "http" => AllowHTTP)
PROOF
  BY DEF Dial, ipAllowed, SchemeAllowed

(* Every hop dials a URL whose scheme has been checked: DialInv. *)
LEMMA DialStep ==
  ASSUME SchemeAllowed(ActorUrl), SignedInv, DialInv, [Next]_vars
  PROVE  DialInv'
PROOF
  <1> USE DEF call, graft, vars
  <1>1. ASSUME dialled' = dialled \/ \E c \in Dial(request.head.url) : dialled' = dialled \cup {c},
               dialled' # dialled => SchemeAllowed(request.head.url)
        PROVE  OnlyAllowedDialled'
    BY <1>1, DialAllowed DEF DialInv, OnlyAllowedDialled
  <1>2. ASSUME GetDials
        PROVE  /\ SchemeAllowed(request.head.url)
               /\ \E c \in Dial(request.head.url) : dialled' = dialled \cup {c}
    BY <1>2 DEF GetDials, DialInv
  <1>3. ASSUME NEW u \in Url, GetRedirected(u) \/ ReplyToIssue(u) PROVE DialInv'
    <2>1. GetDials
      BY <1>3 DEF GetRedirected, ReplyToIssue
    <2>2. pc' = "actor" => SchemeAllowed(request'.head.url)
      BY <1>3 DEF GetRedirected, ReplyToIssue, CheckRedirect, Validate, Get
    <2>3. (SchemeAllowed(request.head.url))' <=> SchemeAllowed(request'.head.url)
      BY DEF SchemeAllowed
    <2> QED
      BY <1>1, <1>2, <2>1, <2>2, <2>3 DEF DialInv
  <1>4. ASSUME NEW c, Send(c) PROVE DialInv'
    BY <1>1, <1>4 DEF Send, DialInv, SignedInv, Carries
  <1>5. ASSUME Actor PROVE DialInv'
    <2>1. request'.head.url = ActorUrl /\ dialled' = dialled
      BY <1>5 DEF Actor, Get
    <2>2. (SchemeAllowed(request.head.url))'
      BY <2>1 DEF SchemeAllowed
    <2> QED
      BY <1>1, <2>1, <2>2 DEF DialInv
  <1>6. ASSUME NoInbox PROVE DialInv'
    <2>1. pc' = "idle" /\ (GetDials \/ dialled' = dialled)
      BY <1>6 DEF NoInbox, Return
    <2> QED
      BY <1>1, <1>2, <2>1 DEF DialInv
  <1>7. ASSUME dialled' = dialled, pc' = "actor" => pc = "actor" /\ request' = request
        PROVE  DialInv'
    BY <1>1, <1>7 DEF DialInv, SchemeAllowed
  <1>8. UNCHANGED vars \/ SendFails \/ Answered \/ AnswerLost \/ TimePasses => DialInv'
    BY <1>7 DEF SendFails, Answered, AnswerLost, TimePasses, Return
  <1>9. \A r, code, u : Handled(r) \/ Elsewhere(r) \/ RedirectedTo(r, code, u) => DialInv'
    BY <1>7 DEF Handled, Elsewhere, RedirectedTo, Answer, Return
  <1> QED
    BY <1>3, <1>4, <1>5, <1>6, <1>8, <1>9, DeliverySteps DEF Plain

(* No resolver and no redirect brings the bridge to an address or a scheme *)
(* that the options forbid.  Only the actor document's own URL is not      *)
(* validated; that of graft_base_url it starts with is, by checkScheme     *)
(* (config.go:167): hence the hypothesis.                                  *)
THEOREM DialsWhatIsAllowed ==
  ASSUME SchemeAllowed(ActorUrl)
  PROVE  Spec => []OnlyAllowedDialled
PROOF
  <1>1. Init => SignedInv /\ DialInv
    BY SignedInit DEF Init, DialInv, OnlyAllowedDialled
  <1>2. SignedInv /\ DialInv /\ [Next]_vars => (SignedInv /\ DialInv)'
    BY SignedStep, DialStep
  <1>3. SignedInv /\ DialInv => OnlyAllowedDialled
    BY DEF DialInv
  <1> QED
    BY <1>1, <1>2, <1>3, PTL DEF Spec

-----------------------------------------------------------------------------
(* A call reports what became of its reply, unless the answer was lost:    *)
(* ReportInv.                                                              *)
LEMMA ReportStep == SignedInv /\ ReportInv /\ [Next]_vars => ReportInv'
PROOF
  <1> SUFFICES ASSUME SignedInv, ReportInv, [Next]_vars PROVE ReportInv'
    OBVIOUS
  <1> USE DEF call, graft, vars
  <1>1. ASSUME Actor PROVE ReportInv'
    BY <1>1 DEF Actor, ReportInv, Waiting
  <1>2. ASSUME NEW u \in Url, ReplyToIssue(u) PROVE ReportInv'
    <2>1. request'.head.body = calls
      BY <1>2, SignedIsGenuine DEF ReplyToIssue, Validate
    <2> QED
      BY <1>2, <2>1 DEF ReplyToIssue, GetDials, ReportInv, Waiting
  <1>3. ASSUME NEW c, Send(c) PROVE ReportInv'
    BY <1>3 DEF Send, ReportInv, Waiting, NoAnswer, Success
  <1>4. ASSUME AnswerLost PROVE ReportInv'
    BY <1>4 DEF AnswerLost, Return, ReportInv, Waiting
  <1>5. ASSUME NoInbox \/ SendFails PROVE ReportInv'
    BY <1>5 DEF NoInbox, SendFails, GetDials, Return, ReportInv, Waiting
  <1>6. ASSUME Answered PROVE ReportInv'
    <2> DEFINE mine == [body |-> calls, result |-> postSigned(answer)]
    <2>1. /\ pc = "wait" /\ answer # NoAnswer /\ pc' = "idle" /\ calls' = calls /\ answer' = NoAnswer
          /\ results' = results \cup {mine}
          /\ flying' = flying /\ accepted' = accepted /\ lost' = lost
      BY <1>6 DEF Answered, Return
    <2>2. mine.body = calls /\ (answer \in Success => mine.result = "ok")
      BY DEF postSigned, Success
    <2> HIDE DEF mine
    <2> QED
      BY <2>1, <2>2 DEF ReportInv, Waiting
  <1>7. ASSUME NEW r \in flying, Handled(r) PROVE ReportInv'
    <2>1. /\ r.head.method = "POST" /\ flying' = flying \ {r} /\ lost' = lost
          /\ results' = results /\ calls' = calls /\ pc' = pc /\ request' = request
          /\ accepted' = accepted \/ (VerifyRequest(r, now)
                /\ accepted' = accepted \cup {[request |-> r, at |-> now]})
          /\ Answer(r, IF VerifyRequest(r, now) THEN Success ELSE {Unauthorized})
      BY <1>7 DEF Handled, Arrives, Answer
    <2>2. /\ r.head.body \in lost \/ (Waiting(r) /\ r.head.body = calls)
          /\ Waiting(r) => answer = NoAnswer
      BY <2>1 DEF ReportInv, Waiting
    <2>3. \A q \in flying' : \/ q.head.method = "GET"
                             \/ q.head.body \in lost
                             \/ Waiting(q) /\ ~Waiting(r)
      BY <2>1 DEF ReportInv, Waiting
    <2>4. ~Waiting(r) => answer' = answer
      BY <2>1 DEF Answer
    <2>5. Waiting(r) /\ VerifyRequest(r, now) => answer' \in Success
      BY <2>1 DEF Answer
    <2>6. NoAnswer \notin Success
      BY DEF NoAnswer, Success
    <2>7. \A a \in accepted : \/ a.request.head.body \in lost
                              \/ \E y \in results :
                                   y.body = a.request.head.body /\ y.result = "ok"
                              \/ /\ pc = "wait" /\ calls = a.request.head.body
                                 /\ answer \in Success /\ ~Waiting(r)
      BY <2>2, <2>6 DEF ReportInv
    <2>8. \A a \in accepted' \ accepted : \/ a.request.head.body \in lost
                                          \/ /\ pc = "wait" /\ a.request.head.body = calls
                                             /\ answer' \in Success
      BY <2>1, <2>2, <2>5 DEF Waiting
    <2> QED
      BY <2>1, <2>3, <2>4, <2>7, <2>8 DEF ReportInv, Waiting
  <1>8. ASSUME NEW r \in flying, Elsewhere(r) PROVE ReportInv'
    <2>1. /\ flying' = flying \ {r} /\ lost' = lost /\ accepted' = accepted
          /\ results' = results /\ calls' = calls /\ pc' = pc /\ request' = request
          /\ ~Waiting(r) => answer' = answer
      BY <1>8 DEF Elsewhere, Arrives, Answer
    <2>2. Waiting(r) => answer = NoAnswer
      BY DEF ReportInv, Waiting
    <2> QED
      BY <2>1, <2>2 DEF ReportInv, Waiting, NoAnswer, Success
  <1>9. ASSUME NEW r \in flying, NEW code \in Redirect, NEW u \in Url, RedirectedTo(r, code, u)
        PROVE  ReportInv'
    <2>1. CASE Waiting(r) /\ CheckRedirect(u)
      <3> DEFINE there == Redirected(r, code, u)
      <3>1. /\ pc' = "send" /\ request' = there /\ calls' = calls /\ results' = results
            /\ flying' = flying \ {r} /\ accepted' = accepted /\ lost' = lost
            /\ answer' = answer
        BY <1>9, <2>1 DEF RedirectedTo, Arrives
      <3>2. there.head.method = "GET" \/ there.head.body = calls
        BY <2>1, RedirectKeeps DEF SignedInv, Carries, ReportInv, Waiting
      <3> HIDE DEF there
      <3>3. answer = NoAnswer
        BY <2>1 DEF ReportInv, Waiting
      <3> QED
        BY <2>1, <3>1, <3>2, <3>3 DEF ReportInv, Waiting, NoAnswer, Success
    <2>2. CASE Waiting(r) /\ ~CheckRedirect(u)
      <3>1. answer = NoAnswer
        BY <2>2 DEF ReportInv, Waiting
      <3>2. /\ pc = "wait" /\ pc' = "idle" /\ calls' = calls /\ answer' = NoAnswer
            /\ results' = results \cup {[body |-> calls, result |-> "failed"]}
            /\ flying' = flying \ {r} /\ accepted' = accepted /\ lost' = lost
        BY <1>9, <2>2 DEF RedirectedTo, Arrives, Return, Waiting
      <3> QED
        BY <2>2, <3>1, <3>2 DEF ReportInv, Waiting, NoAnswer, Success
    <2>3. CASE ~Waiting(r)
      BY <1>9, <2>3 DEF RedirectedTo, Arrives, ReportInv, Waiting
    <2> QED
      BY <2>1, <2>2, <2>3
  <1>10. UNCHANGED vars \/ TimePasses \/ (\E u \in Url : GetRedirected(u)) => ReportInv'
    BY DEF TimePasses, GetRedirected, GetDials, ReportInv, Waiting
  <1> QED
    BY <1>1, <1>2, <1>3, <1>4, <1>5, <1>6, <1>7, <1>8, <1>9, <1>10, DeliverySteps DEF Plain

(* Both hold throughout. *)
LEMMA ReportInvariant == Spec => [](SignedInv /\ ReportInv)
PROOF
  <1>1. Init => SignedInv /\ ReportInv
    BY SignedInit DEF Init, ReportInv
  <1>2. SignedInv /\ ReportInv /\ [Next]_vars => (SignedInv /\ ReportInv)'
    BY SignedStep, ReportStep
  <1> QED
    BY <1>1, <1>2, PTL DEF Spec

(* Only a lost answer can make a reply that Graft has taken look as if it  *)
(* had failed, be it lost by a timeout or by the connection, before or     *)
(* after Graft took the reply: this is the outcome that module Pass calls  *)
(* accepted without an answer.  An error that is Graft's own answer is one. *)
THEOREM AnsweredFailureIsHonest == Spec => []AnsweredFailureNotTaken
PROOF
  <1>1. SignedInv /\ ReportInv => AnsweredFailureNotTaken
    <2> SUFFICES ASSUME ReportInv, NEW x \in results, x.result = "failed", x.body \notin lost,
                        NEW a \in accepted, a.request.head.body = x.body
                 PROVE  FALSE
      BY DEF AnsweredFailureNotTaken, Taken
    <2> QED
      BY DEF ReportInv
  <1> QED
    BY <1>1, ReportInvariant, PTL

-----------------------------------------------------------------------------
(* A reply has one carrier, and none once Graft has taken it: CarrierInv.  *)
LEMMA CarrierStep == SignedInv /\ ReportInv /\ CarrierInv /\ [Next]_vars => CarrierInv'
PROOF
  <1> SUFFICES ASSUME SignedInv, ReportInv, CarrierInv, [Next]_vars PROVE CarrierInv'
    OBVIOUS
  <1> USE DEF call, graft, vars
  <1>0. calls \in Nat
    BY DEF ReportInv
  <1>1. ASSUME Actor PROVE CarrierInv'
    BY <1>0, <1>1 DEF Actor, CarrierInv, TakenOnce, UnderWay, Mine
  <1>2. ASSUME NEW u \in Url, ReplyToIssue(u) PROVE CarrierInv'
    <2>1. /\ pc = "actor" /\ pc' = "send" /\ request'.head.body = calls /\ calls' = calls
          /\ flying' = flying /\ accepted' = accepted
      BY <1>2, SignedIsGenuine DEF ReplyToIssue, GetDials, Validate
    <2> QED
      BY <2>1 DEF CarrierInv, TakenOnce, UnderWay, Mine
  <1>3. ASSUME NEW c, Send(c) PROVE CarrierInv'
    <2>1. /\ pc = "send" /\ pc' = "wait" /\ request' = request /\ calls' = calls
          /\ flying' = flying \cup {request} /\ accepted' = accepted
      BY <1>3 DEF Send
    <2>2. request.head.method = "POST" => Mine(request)
      BY <2>1 DEF ReportInv, Mine
    <2> QED
      BY <1>0, <2>1, <2>2 DEF CarrierInv, TakenOnce, UnderWay, Mine
  <1>4. ASSUME calls' = calls, accepted' = accepted, flying' \subseteq flying,
               pc' \in {"idle", "wait"}
               \/ (pc' = pc /\ request' = request) \/ (pc' = "actor" /\ pc = "actor")
        PROVE  CarrierInv'
    BY <1>4 DEF CarrierInv, TakenOnce, UnderWay, Mine
  <1>5. ASSUME NEW r \in flying, Handled(r) PROVE CarrierInv'
    <2> DEFINE new == [request |-> r, at |-> now]
    <2>1. /\ r.head.method = "POST" /\ flying' = flying \ {r}
          /\ calls' = calls /\ pc' = pc /\ request' = request
          /\ accepted' = accepted \/ accepted' = accepted \cup {new}
      BY <1>5 DEF Handled, Arrives, Answer
    <2>2. CASE accepted' = accepted
      BY <1>4, <2>1, <2>2
    <2>3. CASE accepted' = accepted \cup {new}
      <3>1. new.request = r
        OBVIOUS
      <3> HIDE DEF new
      <3>2. r.head.body \in 0..calls /\ (pc = "actor" => r.head.body # calls)
        BY <2>1 DEF CarrierInv, Mine
      <3>3. \A a \in accepted : a.request.head.body # r.head.body
        BY <2>1 DEF CarrierInv, TakenOnce, UnderWay
      <3>4. ~UnderWay(r.head.body)'
        <4>1. \A q \in flying' : ~(q.head.method = "POST" /\ q.head.body = r.head.body)
          BY <2>1 DEF CarrierInv
        <4>2. ~(pc = "send" /\ request.head.method = "POST" /\ request.head.body = r.head.body)
          BY <2>1 DEF CarrierInv, ReportInv, Mine
        <4> QED
          BY <2>1, <4>1, <4>2 DEF UnderWay
      <3>5. \A a \in accepted : ~UnderWay(a.request.head.body)'
        BY <2>1 DEF CarrierInv, TakenOnce, UnderWay
      <3>6. TakenOnce'
        BY <2>3, <3>1, <3>3, <3>4, <3>5 DEF CarrierInv, TakenOnce
      <3> QED
        BY <2>1, <2>3, <3>1, <3>2, <3>6 DEF CarrierInv, Mine
    <2> QED
      BY <2>1, <2>2, <2>3
  <1>6. ASSUME NEW r \in flying, NEW code \in Redirect, NEW u \in Url, RedirectedTo(r, code, u)
        PROVE  CarrierInv'
    <2>1. CASE Waiting(r) /\ CheckRedirect(u)
      <3> DEFINE there == Redirected(r, code, u)
      <3>1. /\ pc' = "send" /\ request' = there /\ calls' = calls
            /\ flying' = flying \ {r} /\ accepted' = accepted
        BY <1>6, <2>1 DEF RedirectedTo, Arrives
      <3>2. there.head.method = "POST" => r.head.method = "POST" /\ there.head.body = r.head.body
        BY RedirectKeeps DEF SignedInv, Carries
      <3> HIDE DEF there
      <3>3. TakenOnce'
        BY <3>1, <3>2 DEF CarrierInv, TakenOnce, UnderWay
      <3>4. Mine(there) => \A q \in flying \ {r} : ~Mine(q)
        BY <3>2 DEF CarrierInv, Mine
      <3> QED
        BY <3>1, <3>3, <3>4 DEF CarrierInv, Mine
    <2>2. CASE ~(Waiting(r) /\ CheckRedirect(u))
      BY <1>4, <1>6, <2>2 DEF RedirectedTo, Arrives, Return
    <2> QED
      BY <2>1, <2>2
  <1>7. CASE NoInbox \/ SendFails \/ Answered \/ AnswerLost \/ TimePasses \/ UNCHANGED vars
    BY <1>4, <1>7 DEF NoInbox, SendFails, Answered, AnswerLost, TimePasses, Return
  <1>8. ASSUME NEW u \in Url, GetRedirected(u) PROVE CarrierInv'
    BY <1>4, <1>8 DEF GetRedirected, GetDials
  <1>9. ASSUME NEW r \in flying, Elsewhere(r) PROVE CarrierInv'
    BY <1>4, <1>9 DEF Elsewhere, Arrives, Answer
  <1> QED
    BY <1>1, <1>2, <1>3, <1>5, <1>6, <1>7, <1>8, <1>9, DeliverySteps DEF Plain

(* One call makes Graft take its reply once at the most, through any       *)
(* redirects, delays and losses, for any number of calls: module Pass may  *)
(* give a call at most one delivery.                                       *)
THEOREM RepliesAreTakenOnce == Spec => []TakenOnce
PROOF
  <1>1. Init => CarrierInv
    BY DEF Init, CarrierInv, TakenOnce, UnderWay
  <1>2. SignedInv /\ ReportInv /\ CarrierInv /\ [Next]_vars => CarrierInv'
    BY CarrierStep
  <1>3. CarrierInv => TakenOnce
    BY DEF CarrierInv
  <1> QED
    BY <1>1, <1>2, <1>3, ReportInvariant, PTL DEF Spec
=============================================================================
