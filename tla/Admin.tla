------------------------------- MODULE Admin -------------------------------
(***************************************************************************)
(* The admin API's operations that change state: Bridge.Bind and           *)
(* Bridge.Unbind (internal/bridge/bridge.go), as internal/admin/admin.go   *)
(* calls them.  net/http serves every request in a goroutine of its own,   *)
(* so requests interleave with each other and with the pass at every       *)
(* locked access of the State.  (Mappings and Issues only read.)           *)
(***************************************************************************)
EXTENDS State, Remotes

CONSTANTS
  Admins,       \* concurrent requests
  Bindable,     \* the notes Bind finds in its outbox fetch
  MaxOps        \* bound: admin requests

Idle == [conv |-> "none"]
NotBound == "not bound"

ASSUME AdminAssumption ==
  /\ Bindable \subseteq Note
  /\ MaxOps \in Nat
  /\ NotBound \notin Note

VARIABLES
  request,      \* the Bind of each request that still has its link to write
  ops,          \* how many requests were made
  acked         \* history: conversation -> what its last Bind or Unbind that
                \* saved its result has saved; dropped when a save fails

adminVars == <<request, ops, acked>>

AdminInit ==
  /\ request = [a \in Admins |-> Idle]
  /\ ops = 0
  /\ acked = EmptyMap

Acknowledge(c, what, ok) ==
  acked' = IF ok THEN Put(acked, c, what) ELSE Restrict(acked, DOMAIN acked \ {c})

\* Mutation: the kind of the note is not checked.
AnyKind(n) == SeriesOf[n] \in Series /\ n \in Bindable

\* The note is of a configured series, in its outbox, and an issue or a patch.
\* A request for another note changes nothing and is left out.
Acceptable(n) == SeriesOf[n] \in Series /\ n \in Bindable /\ n \in Replyable

\* Bind up to SetConversationNote.
BindNote(a, c, n) ==
  /\ request[a] = Idle
  /\ ops < MaxOps
  /\ ops' = ops + 1
  /\ Acceptable(n)
  /\ \E ok \in BOOLEAN :
       /\ SaveOutcome(ok)
       /\ SetConversationNote(c, n, ok)
       /\ Acknowledge(c, n, ok)
       /\ request' = IF ok /\ UrlOf[n] # NoUrl
                     THEN [request EXCEPT ![a] = [conv |-> c, note |-> n]]
                     ELSE request
  /\ UNCHANGED <<zulip, inbox, comments>>

\* The rest of Bind: SetIssueConversation, whose error is the request's.
BindLink(a) ==
  /\ request[a] # Idle
  /\ LET r == request[a] IN
     \E ok \in BOOLEAN :
       /\ SaveOutcome(ok)
       /\ SetIssueConversation(SeriesOf[r.note], UrlOf[r.note], r.conv, ok)
  /\ request' = [request EXCEPT ![a] = Idle]
  /\ UNCHANGED <<ops, acked, zulip, inbox, comments>>

Unbind(a, c) ==
  /\ request[a] = Idle
  /\ ops < MaxOps
  /\ ops' = ops + 1
  /\ \E ok \in BOOLEAN :
       /\ SaveOutcome(ok)
       /\ DeleteConversationNote(c, ok)
       /\ Acknowledge(c, NotBound, ok)
  /\ UNCHANGED <<request, zulip, inbox, comments>>

AdminStep ==
  \E a \in Admins :
    \/ \E c \in Conv, n \in Note : BindNote(a, c, n)
    \/ BindLink(a)
    \/ \E c \in Conv : Unbind(a, c)
=============================================================================
