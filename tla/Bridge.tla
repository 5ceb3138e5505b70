------------------------------- MODULE Bridge -------------------------------
(***************************************************************************)
(* The running daemon: the pass loop and the admin API over one State,     *)
(* Zulip and Graft around them, a clock, and crashes.                      *)
(***************************************************************************)
EXTENDS Pass, Admin

CONSTANTS
  PassTimeout,  \* the deadline of a pass, in ticks of the clock
  MaxTime       \* bound: ticks of the clock

ASSUME BridgeAssumption == PassTimeout \in Nat /\ MaxTime \in Nat

vars == <<mem, disk, now, zulip, inbox, comments, faults, pc, pass, job,
          request, ops, acked>>

Init ==
  /\ StateInit
  /\ RemotesInit
  /\ PassInit
  /\ AdminInit

\* Time passes; a pass does not outlive its deadline, after which its calls
\* all fail at once.
Tick ==
  /\ now < MaxTime
  /\ pc # "idle" => now < pass.began + PassTimeout
  /\ now' = now + 1
  /\ UNCHANGED <<mem, disk, remoteVars, passVars, adminVars>>

\* The process stops at any point and starts again from the file; what a
\* request had not saved is gone, and so is the rest of the pass.
Crash ==
  /\ Fault("crash")
  /\ Load
  /\ PassOver
  /\ request' = [a \in Admins |-> Idle]
  /\ UNCHANGED <<zulip, inbox, comments, ops, acked>>

Next ==
  \/ PassStep /\ UNCHANGED adminVars
  \/ AdminStep /\ UNCHANGED passVars
  \/ Remote /\ UNCHANGED <<storeVars, passVars, adminVars>>
  \/ Tick
  \/ Crash

Spec == Init /\ [][Next]_vars

\* main's loop runs a pass, waits for the ticker, and runs the next one, so a
\* pass always goes on.  Nothing obliges users, Graft, operators or the clock.
FairSpec == Spec /\ WF_vars(PassStep /\ UNCHANGED adminVars)

-----------------------------------------------------------------------------
(* Types. *)

IssueKeys == SeriesNames \X {UrlOf[n] : n \in Note}

StateOK(s) ==
  /\ DOMAIN s = DOMAIN EmptyState
  /\ IsMap(s.conversationNotes, Conv, Note)
  /\ IsMap(s.issueConversations, IssueKeys, Conv)
  /\ IsMap(s.delivered, Text, Nat)
  /\ IsMap(s.messagesDelivered, SeriesNames \X Nat, Nat)
  /\ IsMap(s.seenNotes, SeriesNames \X Nat, Nat)

PassOK ==
  /\ pass \in PassLocals
  /\ pass.msgs \subseteq {i \in DOMAIN zulip : zulip[i].conv \in Conv}
  /\ pass.notes \subseteq DOMAIN comments
  /\ pass.start <= Len(inbox)

JobOK ==
  /\ pc \in Points
  /\ pc \in {"idle", "outbox", "explicit", "title", "forward", "reverse"} =>
       job = NoJob
  /\ pc \in {"bind", "link"} => job \in BindJob
  /\ pc \in {"reply", "mark", "hash"} =>
       /\ job \in ForwardJob
       /\ job.msg \in DOMAIN zulip
       /\ zulip[job.msg].sender = "user"
  /\ pc \in {"post", "seen"} =>
       /\ job \in ReverseJob
       /\ job.comment \in DOMAIN comments

AdminOK ==
  /\ request \in [Admins -> {Idle} \cup [conv : Conv, note : Note]]
  /\ ops \in Nat
  /\ IsMap(acked, Conv, Note \cup {NotBound})

\* Types of all variables, and what the locals of a pass refer to.
TypeOK ==
  /\ StateOK(mem)
  /\ StateOK(disk)
  /\ now \in Nat
  /\ RemotesTypeOK
  /\ PassOK
  /\ JobOK
  /\ AdminOK

-----------------------------------------------------------------------------
(* From Zulip to Graft. *)

\* What the record of delivered messages is keyed on.
KeyOf(d) == <<SeriesOf[inbox[d].note], inbox[d].msg>>

Accepted(k) == \E d \in DOMAIN inbox : KeyOf(d) = k

\* No message is lost by being taken for delivered: the record, in memory or
\* in the file, only names messages Graft has accepted for that series,
\* whatever fails and wherever the process stops (MarkMessageDelivered runs
\* after ReplyToIssue, bridge.go:323-329).
MarkedWasAccepted ==
  \A k \in DOMAIN mem.messagesDelivered \cup DOMAIN disk.messagesDelivered :
    Accepted(k)

\* A message the file records as delivered, and not so long ago that the
\* entry has expired, is not sent to that series again: not by the next pass,
\* and not after a restart (bridge.go:319, state.go:265-279).
RecordedNotResent ==
  [][\A d \in DOMAIN inbox' \ DOMAIN inbox :
       LET k == <<SeriesOf[inbox'[d].note], inbox'[d].msg>> IN
       k \in DOMAIN disk.messagesDelivered =>
         ~Fresh(disk.messagesDelivered[k])]_vars

\* While no answer is lost, every save succeeds and no record expires, a
\* message is delivered to a series once, however many passes still see it in
\* their window (bridge.go:310-321).
NoDuplicateDelivery ==
  \A d, e \in DOMAIN inbox : KeyOf(d) = KeyOf(e) => d = e

\* The bridge's own posts are never sent back to Graft, though they appear in
\* the same window as everyone's messages (bridge.go:302-306).
NoLoopback ==
  \A d \in DOMAIN inbox : zulip[inbox[d].msg].sender = "user"

\* Within a pass, deliveries follow the order of the messages, "across
\* conversations too" (bridge.go:288-294), failures notwithstanding, in
\* whatever order the conversations come out of their map.
InPassOrder ==
  pc # "idle" =>
    \A d, e \in (pass.start + 1) .. Len(inbox) :
      d < e => inbox[d].msg < inbox[e].msg

\* MaxDeliveriesPerPass bounds the comments one pass makes (bridge.go:45).
DeliveriesBounded ==
  pc # "idle" /\ MaxDeliveries > 0 => Len(inbox) - pass.start <= MaxDeliveries

\* Only issues and patches are replied to: "replies to commit notes are
\* dropped by Graft, so the bridge doesn't send them" (README.md:42-43).
RepliesOnlyToReplyable ==
  \A d \in DOMAIN inbox : inbox[d].note \in Replyable

-----------------------------------------------------------------------------
(* From Graft to Zulip. *)

Mirrors(j) == {i \in DOMAIN zulip : zulip[i].sender = "bot" /\ zulip[i].mirrors = j}

\* No comment is lost by being taken for mirrored: one recorded as seen was
\* posted to Zulip, or carries Graft's marker, or has the text of something
\* the bridge itself delivered (bridge.go:348-375).
SeenWasHandled ==
  \A k \in DOMAIN mem.seenNotes \cup DOMAIN disk.seenNotes :
    \/ Mirrors(k[2]) # {}
    \/ comments[k[2]].marked
    \/ \E d \in DOMAIN inbox : inbox[d].text = comments[k[2]].text

\* A comment the file records as seen, and whose entry has not expired, is
\* not posted to Zulip again (bridge.go:348, state.go:281-295).
SeenNotRemirrored ==
  [][\A i \in DOMAIN zulip' \ DOMAIN zulip :
       zulip'[i].sender = "bot" =>
         LET j == zulip'[i].mirrors
             k == <<CommentSeries(j), j>> IN
         k \in DOMAIN disk.seenNotes => ~Fresh(disk.seenNotes[k])]_vars

\* "Comment notes whose content came from the fediverse (i.e. our own
\* outbound posts, echoed back) are dropped" (bridge.go:339-341): a comment
\* Graft made from the bridge's own reply is not posted to Zulip.
EchoNotMirrored ==
  \A i \in DOMAIN zulip :
    zulip[i].sender = "bot" => comments[zulip[i].mirrors].origin = 0

BoundTo(c, n) == HasNote(c) /\ mem.conversationNotes[c] = n

\* Comments are "mirrored back as Zulip messages into the bound stream+topic"
\* (README.md:28-29): when the pass picks the conversation for a comment, and no
\* Bind is half done, that conversation is bound to a note of the comment's
\* issue.
MirroredWhereBound ==
  [][pc # "post" /\ pc' = "post" /\ (\A a \in Admins : request[a] = Idle) =>
       \E n \in Note :
         /\ BoundTo(job'.conv, n)
         /\ IssueOf(job'.comment) = <<SeriesOf[n], UrlOf[n]>>]_vars

-----------------------------------------------------------------------------
(* Bindings. *)

\* What the admin API has acknowledged is what the process uses and what a
\* restart will find: Bind "persists the mapping and returns an error
\* otherwise" (bridge.go:116-119).
AckedHolds ==
  \A c \in DOMAIN acked :
    \A s \in {mem, disk} :
      IF acked[c] = NotBound
      THEN c \notin DOMAIN s.conversationNotes
      ELSE /\ c \in DOMAIN s.conversationNotes
           /\ s.conversationNotes[c] = acked[c]

\* No issue is linked to a conversation that is not bound: removing a mapping
\* removes "any issue-URL links that point at it" (state.go:202-204).
LinkedIsBound ==
  \A s \in {mem, disk} :
    \A u \in DOMAIN s.issueConversations :
      s.issueConversations[u] \in DOMAIN s.conversationNotes

\* A binding is only replaced by an operator: an explicit mapping, a title
\* match in another series, a restart never change the note of a conversation
\* that has one (bridge.go:241, 262).
BindingSticks ==
  [][\A c \in DOMAIN mem.conversationNotes \cap DOMAIN mem'.conversationNotes :
       mem'.conversationNotes[c] = mem.conversationNotes[c]]_vars

-----------------------------------------------------------------------------
(* Liveness. *)

DueMessages == {i \in DOMAIN zulip :
  /\ zulip[i].sender = "user"
  /\ zulip[i].conv \in DOMAIN Explicit /\ streamAllowed(zulip[i].conv)}

DueComments == {j \in DOMAIN comments :
  \E c \in DOMAIN Explicit : comments[j].note = Explicit[c]}

DealtWith == {j \in DOMAIN comments :
  Mirrors(j) # {} \/ SeenNote(CommentSeries(j), j)}

\* Every message of an allowed conversation with an explicit mapping reaches
\* Graft, whatever finitely many faults happen on the way, as long as it stays
\* inside the window (MaxMsgs).
EventuallyDelivered ==
  \A i \in 1 .. MaxPosts + MaxNative + MaxFaults :
    i \in DueMessages ~> (\E d \in DOMAIN inbox : inbox[d].msg = i)

\* Every comment on an issue with an explicit mapping is dealt with: posted to
\* Zulip, or recorded as an echo.
EventuallyMirrored ==
  \A j \in 1 .. MaxPosts + MaxNative + MaxFaults :
    j \in DueComments ~> j \in DealtWith
=============================================================================
