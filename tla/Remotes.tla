------------------------------ MODULE Remotes ------------------------------
(***************************************************************************)
(* The two systems the bridge reconciles, as the code of src/ uses them:   *)
(* Zulip's message list (internal/zulip/client.go reads its newest end and *)
(* appends to it) and Graft (internal/graft/client.go reads the series     *)
(* outboxes and posts replies to the series inbox).  Everything here is    *)
(* external to the repository: the actions say what users, Graft and the   *)
(* network may do, not what they should do.                                *)
(*                                                                         *)
(* All three logs only grow; the index of an entry is its identity (the    *)
(* Zulip message id, the comment's note URI).                              *)
(***************************************************************************)
EXTENDS Naturals, Sequences, FiniteSets

CONSTANTS
  Series,       \* the configured series
  Conv,         \* stream+topic conversations (state.ConversationKey)
  Private,      \* a private message, which is in no conversation
  Note,         \* the issue, patch and commit notes of the outboxes
  SeriesOf,     \* note -> its series
  UrlOf,        \* note -> web URL of its issue, or NoUrl
  NoUrl,
  Replyable,    \* the notes of kind issue or patch
  Text,         \* message content: the first 200 runes, as hashed
  EchoMarked,   \* subset of BOOLEAN: does Graft tag a comment that came from
                \* the bridge with "via Fediverse"?
  FaultKinds,   \* the faults that may happen
  MaxPosts,     \* bound: messages users post
  MaxNative,    \* bound: comments made on the repository itself
  MaxFaults     \* bound: faults of any kind

Faults == {"zulip", "outbox", "refused", "lostAck", "save", "crash"}

ASSUME RemotesAssumption ==
  /\ Private \notin Conv
  /\ Replyable \subseteq Note
  /\ DOMAIN SeriesOf = Note
  /\ DOMAIN UrlOf = Note
  /\ EchoMarked \subseteq BOOLEAN
  /\ FaultKinds \subseteq Faults
  /\ MaxPosts \in Nat /\ MaxNative \in Nat /\ MaxFaults \in Nat

\* The series a note URI may name: the configured ones, and others.
SeriesNames == Series \cup {SeriesOf[n] : n \in Note}

VARIABLES
  zulip,        \* Zulip's messages
  inbox,        \* the replies Graft accepts, in the order they were sent; when
                \* it accepts one whose answer was lost nobody can tell
  comments,     \* the comment notes in the series outboxes
  faults        \* how many faults have happened

remoteVars == <<zulip, inbox, comments, faults>>

UserMessage == [sender : {"user"}, conv : Conv \cup {Private}, text : Text]
BotMessage  == [sender : {"bot"}, conv : Conv, text : Text, mirrors : Nat]
Message     == UserMessage \cup BotMessage
Delivery    == [note : Note, msg : Nat, text : Text]
\* origin is 0 for a comment made on the repository, and otherwise the index
\* in inbox of the reply Graft republished as this comment.
Comment     == [note : Note, text : Text, marked : BOOLEAN, origin : Nat]

RemotesTypeOK ==
  /\ zulip \in Seq(Message)
  /\ inbox \in Seq(Delivery)
  /\ comments \in Seq(Comment)
  /\ faults \in Nat

RemotesInit ==
  /\ zulip = <<>>
  /\ inbox = <<>>
  /\ comments = <<>>
  /\ faults = 0

-----------------------------------------------------------------------------
(* Faults. *)

NoFault == UNCHANGED faults

Fault(kind) ==
  /\ kind \in FaultKinds
  /\ faults < MaxFaults
  /\ faults' = faults + 1

\* The outcome of one save: it succeeds, or fails at the cost of a fault.
SaveOutcome(ok) == IF ok THEN NoFault ELSE Fault("save")

-----------------------------------------------------------------------------
(* What the bridge's calls do to the remote side when they take effect. *)

AcceptReply(n, m, t) ==
  inbox' = Append(inbox, [note |-> n, msg |-> m, text |-> t])

BotPost(c, j) ==
  [sender |-> "bot", conv |-> c, text |-> comments[j].text, mirrors |-> j]

AcceptMessage(c, j) == zulip' = Append(zulip, BotPost(c, j))

-----------------------------------------------------------------------------
(* What happens on its own. *)

UserPosts(c, t) ==
  /\ Cardinality({i \in DOMAIN zulip : zulip[i].sender = "user"}) < MaxPosts
  /\ zulip' = Append(zulip, [sender |-> "user", conv |-> c, text |-> t])
  /\ UNCHANGED <<inbox, comments, faults>>

RepoComment(n, t) ==
  /\ Cardinality({j \in DOMAIN comments : comments[j].origin = 0}) < MaxNative
  /\ comments' = Append(comments, [note |-> n, text |-> t,
                                   marked |-> FALSE, origin |-> 0])
  /\ UNCHANGED <<zulip, inbox, faults>>

\* Graft turns an accepted reply into a comment on the issue and republishes
\* it in the outbox, some time after accepting it; it drops a reply to a
\* commit note.
Republish(d, marked) ==
  /\ inbox[d].note \in Replyable
  /\ \A j \in DOMAIN comments : comments[j].origin # d
  /\ comments' = Append(comments, [note |-> inbox[d].note, text |-> inbox[d].text,
                                   marked |-> marked, origin |-> d])
  /\ UNCHANGED <<zulip, inbox, faults>>

Remote ==
  \/ \E c \in Conv \cup {Private}, t \in Text : UserPosts(c, t)
  \/ \E n \in Replyable, t \in Text : RepoComment(n, t)
  \/ \E d \in DOMAIN inbox, marked \in EchoMarked : Republish(d, marked)
=============================================================================
