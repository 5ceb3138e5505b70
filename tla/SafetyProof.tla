---------------------------- MODULE SafetyProof ----------------------------
(***************************************************************************)
(* What the bridge's records promise, for every number of series,          *)
(* conversations, notes, messages, requests and faults.                    *)
(*                                                                         *)
(* The argument has three parts: what one step can do to the State         *)
(* (StoreStep), what it can do to the logs of Zulip and Graft (LogStep),   *)
(* and how the pass arrives at the points where it writes a record         *)
(* (PointStep).  The theorems only use these three lemmas.                 *)
(***************************************************************************)
EXTENDS BridgeProof

\* The reply that the pass is making.
JobReply == [note |-> job.note, msg |-> job.msg, text |-> zulip[job.msg].text]

\* The steps of a pass that only look: nothing outside the pass changes, and
\* the next point is not one where something is sent or recorded.
Looking ==
  \/ FetchMessages
  \/ \E s \in Series : FetchOutbox(s)
  \/ OutboxesDone
  \/ \E c \in Conv : ExplicitKey(c)
  \/ ExplicitDone
  \/ \E s \in Series, c \in Conv : TitlePair(s, c)
  \/ TitleDone
  \/ \E m \in pass.msgs : SkipMessage(m)
  \/ ForwardDone
  \/ \E j \in pass.notes : SkipComment(j)
  \/ ReverseDone

Quiet == UNCHANGED <<mem, disk, now, zulip, inbox, comments>>

\* Looking changes neither the State nor the remote sides (bridge.go:75-80,
\* 207-225, 236-241, 259-268, 298-321, 343-363).
LEMMA LookingStep ==
  ASSUME Looking
  PROVE  Quiet /\ pc' \notin {"reply", "mark", "hash", "post", "seen"}
<1>1. CASE FetchMessages
  BY <1>1 DEF FetchMessages, Quiet, storeVars
<1>2. CASE \E s \in Series : FetchOutbox(s)
  BY <1>2 DEF FetchOutbox, Quiet, storeVars
<1>3. CASE OutboxesDone
  BY <1>3 DEF OutboxesDone, Goto, Quiet, storeVars, remoteVars
<1>4. CASE \E c \in Conv : ExplicitKey(c)
  BY <1>4 DEF ExplicitKey, PassOver, Goto, Quiet, storeVars, remoteVars
<1>5. CASE ExplicitDone
  BY <1>5 DEF ExplicitDone, Goto, Quiet, storeVars, remoteVars
<1>6. CASE \E s \in Series, c \in Conv : TitlePair(s, c)
  BY <1>6 DEF TitlePair, Goto, Quiet, storeVars, remoteVars
<1>7. CASE TitleDone
  BY <1>7 DEF TitleDone, Goto, Quiet, storeVars, remoteVars
<1>8. CASE \E m \in pass.msgs : SkipMessage(m)
  BY <1>8 DEF SkipMessage, Quiet, storeVars, remoteVars
<1>9. CASE ForwardDone
  BY <1>9 DEF ForwardDone, Goto, Quiet, storeVars, remoteVars
<1>10. CASE \E j \in pass.notes : SkipComment(j)
  BY <1>10 DEF SkipComment, NextComment, Quiet, storeVars, remoteVars
<1>11. CASE ReverseDone
  BY <1>11 DEF ReverseDone, PassOver, Quiet, storeVars, remoteVars
<1> QED
  BY <1>1, <1>2, <1>3, <1>4, <1>5, <1>6, <1>7, <1>8, <1>9, <1>10, <1>11
  DEF Looking

\* A step, sorted by what it does to the State and to the remote sides.
LEMMA StepCases ==
  ASSUME [Next]_vars
  PROVE  \/ UNCHANGED vars
         \/ Looking
         \/ \E m \in pass.msgs : PickMessage(m)
         \/ Bind \/ Link
         \/ Reply \/ MarkMessage \/ MarkHash
         \/ \E j \in pass.notes : SuppressEcho(j) \/ PickComment(j)
         \/ Post \/ MarkSeen
         \/ AdminStep /\ UNCHANGED passVars
         \/ Remote /\ UNCHANGED <<storeVars, passVars, adminVars>>
         \/ Tick
         \/ Crash
  BY DEF Next, PassStep, Looking

-----------------------------------------------------------------------------
(* What a step does to the State. *)

\* What a save may add to the records: the delivery that was just made, its
\* hash, a comment that was just posted, or one that is an echo.
RecordStep(s) ==
  /\ \/ s.delivered = mem.delivered
     \/ /\ pc = "hash"
        /\ s.delivered = Put(mem.delivered, zulip[job.msg].text, now)
  /\ \/ s.messagesDelivered = mem.messagesDelivered
     \/ /\ pc = "mark"
        /\ s.messagesDelivered =
             Put(mem.messagesDelivered, <<SeriesOf[job.note], job.msg>>, now)
  /\ \/ s.seenNotes = mem.seenNotes
     \/ \E j \in DOMAIN comments :
          /\ (pc = "seen" /\ j = job.comment) \/ (pc = "reverse" /\ Echo(j))
          /\ s.seenNotes = Put(mem.seenNotes, <<CommentSeries(j), j>>, now)

Saving == \E s : \E ok \in BOOLEAN : StateOK(s) /\ Save(s, ok) /\ RecordStep(s)

StoreUnchanged == UNCHANGED <<mem, disk>> /\ now' \in Nat /\ now' >= now

StoreLoaded ==
  /\ "crash" \in FaultKinds
  /\ mem' = disk /\ disk' = disk /\ now' = now /\ pc' = "idle"

\* A save that touches no record is one of the saves a step may make.
LEMMA SameRecordsSaving ==
  ASSUME NEW ok \in BOOLEAN, \E s : StateOK(s) /\ Save(s, ok) /\ SameRecords(s)
  PROVE  Saving
  BY DEF Saving, SameRecords, RecordStep

\* A save that touches no record.
SavingSame == \E s : \E ok \in BOOLEAN : StateOK(s) /\ Save(s, ok) /\ SameRecords(s)

\* Requests save the State without touching a record (bridge.go:140-156).
LEMMA AdminRecords ==
  ASSUME TypeOK, AdminStep
  PROVE  SavingSame
<1>0. /\ StateOK(mem) /\ StateOK(disk)
      /\ request \in [Admins -> {Idle} \cup [conv : Conv, note : Note]]
  BY DEF TypeOK, AdminOK
<1>1. ASSUME NEW a \in Admins, NEW c \in Conv, NEW n \in Note, BindNote(a, c, n)
      PROVE  SavingSame
  <2>1. PICK ok \in BOOLEAN : SetConversationNote(c, n, ok)
    BY <1>1 DEF BindNote, Acceptable
  <2> QED
    BY <1>0, <2>1, SetNoteState DEF SavingSame
<1>2. ASSUME NEW a \in Admins, BindLink(a)
      PROVE  SavingSame
  <2>1. request[a] \in [conv : Conv, note : Note]
    BY <1>0, <1>2 DEF BindLink
  <2>2. PICK ok \in BOOLEAN :
          SetIssueConversation(SeriesOf[request[a].note], UrlOf[request[a].note],
                               request[a].conv, ok)
    BY <1>2 DEF BindLink
  <2> QED
    BY <1>0, <2>1, <2>2, SetIssueState DEF SavingSame
<1>3. ASSUME NEW a \in Admins, NEW c \in Conv, Unbind(a, c)
      PROVE  SavingSame
  <2>1. PICK ok \in BOOLEAN : DeleteConversationNote(c, ok)
    BY <1>3 DEF Unbind
  <2> QED
    BY <1>0, <2>1, DeleteState DEF SavingSame
<1> QED
  BY <1>1, <1>2, <1>3 DEF AdminStep

\* So do they save as a step may.
LEMMA AdminSaving ==
  ASSUME TypeOK, AdminStep
  PROVE  Saving
  BY AdminRecords, SameRecordsSaving DEF SavingSame

\* Every step leaves the State alone, loads it, or saves it with at most the
\* record that is due at the point where the pass is.
LEMMA StoreStep ==
  ASSUME TypeOK, [Next]_vars
  PROVE  StoreUnchanged \/ StoreLoaded \/ Saving
<1>0. /\ now \in Nat /\ StateOK(mem) /\ StateOK(disk) /\ JobOK
      /\ pass.notes \subseteq DOMAIN comments /\ DOMAIN comments \subseteq Nat
      /\ zulip \in Seq(Message)
      /\ \A j \in DOMAIN comments : CommentSeries(j) \in SeriesNames
  BY TypeFacts
<1>1. UNCHANGED <<mem, disk, now>> => StoreUnchanged
  BY <1>0 DEF StoreUnchanged
<1>2. CASE UNCHANGED vars
  BY <1>1, <1>2 DEF vars
<1>3. CASE Looking
  BY <1>1, <1>3, LookingStep DEF Quiet
<1>4. CASE \E m \in pass.msgs : PickMessage(m)
  BY <1>1, <1>4 DEF PickMessage, storeVars
<1>5. CASE Bind
  <2>1. job \in BindJob
    BY <1>0, <1>5 DEF Bind, JobOK
  <2>2. PICK ok \in BOOLEAN : SetConversationNote(job.conv, job.note, ok)
    BY <1>5 DEF Bind
  <2> QED
    BY <1>0, <2>1, <2>2, SetNoteState, SameRecordsSaving DEF BindJob
<1>6. CASE Link
  <2>1. job \in BindJob
    BY <1>0, <1>6 DEF Link, JobOK
  <2>2. PICK ok \in BOOLEAN :
          SetIssueConversation(SeriesOf[job.note], UrlOf[job.note], job.conv, ok)
    BY <1>6 DEF Link
  <2> QED
    BY <1>0, <2>1, <2>2, SetIssueState, SameRecordsSaving DEF BindJob
<1>7. CASE Reply \/ Post
  BY <1>1, <1>7 DEF Reply, ReplyToIssue, Post, SendMessage, storeVars
<1>8. CASE MarkMessage
  <2>1. job \in ForwardJob /\ pc = "mark"
    BY <1>0, <1>8 DEF MarkMessage, JobOK
  <2>2. PICK ok \in BOOLEAN : MarkMessageDelivered(SeriesOf[job.note], job.msg, ok)
    BY <1>8 DEF MarkMessage
  <2>3. SeriesOf[job.note] \in SeriesNames /\ job.msg \in Nat
    BY <2>1 DEF ForwardJob, SeriesNames
  <2> QED
    BY <1>0, <2>1, <2>2, <2>3, MarkMessageState DEF Saving, RecordStep
<1>9. CASE MarkHash
  <2>1. /\ job.msg \in DOMAIN zulip /\ zulip[job.msg].sender = "user" /\ pc = "hash"
    BY <1>0, <1>9 DEF MarkHash, JobOK
  <2>2. PICK ok \in BOOLEAN : MarkDelivered(zulip[job.msg].text, ok)
    BY <1>9 DEF MarkHash
  <2>3. zulip[job.msg].text \in Text
    BY <1>0, <2>1 DEF Message, UserMessage, BotMessage
  <2> QED
    BY <1>0, <2>1, <2>2, <2>3, MarkDeliveredState DEF Saving, RecordStep
<1>10. ASSUME NEW j \in DOMAIN comments, NEW ok \in BOOLEAN,
              MarkSeenNote(CommentSeries(j), j, ok),
              (pc = "seen" /\ j = job.comment) \/ (pc = "reverse" /\ Echo(j))
       PROVE  Saving
  <2> DEFINE series == CommentSeries(j)
  <2>1. series \in SeriesNames /\ j \in Nat
    BY <1>0
  <2>2. PICK s : /\ StateOK(s) /\ Save(s, ok)
                 /\ s.delivered = mem.delivered
                 /\ s.messagesDelivered = mem.messagesDelivered
                 /\ s.seenNotes = Put(mem.seenNotes, <<series, j>>, now)
    <3> MarkSeenNote(series, j, ok)
      BY <1>10
    <3> HIDE DEF series
    <3> QED
      BY <1>0, <2>1, MarkSeenState
  <2>3. RecordStep(s)
    BY <1>10, <2>2 DEF RecordStep
  <2> QED
    BY <2>2, <2>3 DEF Saving
<1>11. CASE \E j \in pass.notes : SuppressEcho(j)
  BY <1>0, <1>10, <1>11 DEF SuppressEcho, NextComment
<1>12. CASE MarkSeen
  <2>1. pc = "seen" /\ job.comment \in DOMAIN comments
    BY <1>0, <1>12 DEF MarkSeen, JobOK
  <2> QED
    BY <1>10, <1>12, <2>1 DEF MarkSeen
<1>13. CASE AdminStep
  BY <1>13, AdminSaving
<1>14. CASE UNCHANGED storeVars
  BY <1>1, <1>14 DEF storeVars
<1>15. CASE Tick
  BY <1>0, <1>15 DEF Tick, StoreUnchanged
<1>16. CASE Crash
  BY <1>16 DEF Crash, Fault, Load, PassOver, StoreLoaded
<1>17. CASE \E j \in pass.notes : PickComment(j)
  BY <1>1, <1>17 DEF PickComment, storeVars
<1> QED
  BY <1>2, <1>3, <1>4, <1>5, <1>6, <1>7, <1>8, <1>9, <1>11, <1>12, <1>13,
     <1>14, <1>15, <1>16, <1>17, StepCases

-----------------------------------------------------------------------------
(* What a step does to the logs of Zulip and Graft. *)

Extends(log) == \A i \in DOMAIN log : i \in DOMAIN log' /\ log'[i] = log[i]

\* The logs only grow; Graft gets a reply only from the pass, the one that is
\* due, and Zulip gets a message of the bot only from a pass that posts.
LEMMA LogStep ==
  ASSUME TypeOK, [Next]_vars
  PROVE  /\ Extends(zulip) /\ Extends(inbox) /\ Extends(comments)
         /\ \A d \in DOMAIN inbox' \ DOMAIN inbox :
              pc = "reply" /\ inbox'[d] = JobReply
         /\ \A i \in DOMAIN zulip' \ DOMAIN zulip :
              zulip'[i].sender = "bot" =>
                pc = "post" /\ zulip'[i].mirrors = job.comment
<1>0. /\ zulip \in Seq(Message) /\ inbox \in Seq(Delivery) /\ comments \in Seq(Comment)
      /\ JobOK
  BY TypeFacts
<1>1. ASSUME UNCHANGED <<inbox, comments>>, NEW x \in Message, zulip' = Append(zulip, x)
      PROVE  /\ Extends(zulip) /\ Extends(inbox) /\ Extends(comments) /\ inbox' = inbox
             /\ \A i \in DOMAIN zulip' \ DOMAIN zulip : zulip'[i] = x
  BY <1>0, <1>1, AppendLog DEF Extends
<1>2. ASSUME UNCHANGED <<zulip, inbox>>, NEW x \in Comment, comments' = Append(comments, x)
      PROVE  /\ Extends(zulip) /\ Extends(inbox) /\ Extends(comments) /\ inbox' = inbox
             /\ zulip' = zulip
  BY <1>0, <1>2, AppendLog DEF Extends
<1>3. ASSUME UNCHANGED <<zulip, inbox, comments>>
      PROVE  Extends(zulip) /\ Extends(inbox) /\ Extends(comments) /\ inbox' = inbox
  BY <1>3 DEF Extends
<1>4. CASE Reply
  <2>1. /\ job \in ForwardJob /\ pc = "reply"
        /\ job.msg \in DOMAIN zulip /\ zulip[job.msg].sender = "user"
    BY <1>0, <1>4 DEF Reply, ReplyToIssue, JobOK
  <2>2. JobReply \in Delivery
    <3>1. zulip[job.msg].text \in Text
      BY <1>0, <2>1 DEF Message, UserMessage, BotMessage
    <3> QED
      BY <2>1, <3>1 DEF JobReply, Delivery, ForwardJob
  <2>3. /\ UNCHANGED <<zulip, comments>>
        /\ UNCHANGED inbox \/ inbox' = Append(inbox, JobReply)
    BY <1>4 DEF Reply, ReplyToIssue, AcceptReply, JobReply
  <2>4. CASE UNCHANGED inbox
    BY <1>3, <2>3, <2>4
  <2>5. CASE inbox' = Append(inbox, JobReply)
    <3>1. /\ \A i \in DOMAIN inbox : i \in DOMAIN inbox' /\ inbox'[i] = inbox[i]
          /\ \A d \in DOMAIN inbox' \ DOMAIN inbox : inbox'[d] = JobReply
      BY <1>0, <2>2, <2>5, AppendLog
    <3> QED
      BY <2>1, <2>3, <3>1 DEF Extends
  <2> QED
    BY <2>3, <2>4, <2>5
<1>5. CASE Post
  <2>1. job \in ReverseJob /\ job.comment \in DOMAIN comments /\ pc = "post"
    BY <1>0, <1>5 DEF Post, SendMessage, JobOK
  <2>2. BotPost(job.conv, job.comment) \in Message
    BY <1>0, <2>1, BotPostType DEF ReverseJob
  <2>3. /\ UNCHANGED <<inbox, comments>>
        /\ \/ UNCHANGED zulip
           \/ zulip' = Append(zulip, BotPost(job.conv, job.comment))
    BY <1>5 DEF Post, SendMessage, AcceptMessage
  <2>4. BotPost(job.conv, job.comment).mirrors = job.comment
    BY DEF BotPost
  <2> QED
    BY <1>1, <1>3, <2>1, <2>2, <2>3, <2>4
<1>6. ASSUME NEW c \in Conv \cup {Private}, NEW t \in Text, UserPosts(c, t)
      PROVE  /\ Extends(zulip) /\ Extends(inbox) /\ Extends(comments) /\ inbox' = inbox
             /\ \A i \in DOMAIN zulip' \ DOMAIN zulip : zulip'[i].sender # "bot"
  <2>1. [sender |-> "user", conv |-> c, text |-> t] \in Message
    BY DEF Message, UserMessage
  <2> QED
    BY <1>1, <1>6, <2>1 DEF UserPosts
<1>7. ASSUME NEW n \in Replyable, NEW t \in Text, RepoComment(n, t)
      PROVE  /\ Extends(zulip) /\ Extends(inbox) /\ Extends(comments) /\ inbox' = inbox
             /\ zulip' = zulip
  <2>1. [note |-> n, text |-> t, marked |-> FALSE, origin |-> 0] \in Comment
    BY RemotesAssumption DEF Comment
  <2> QED
    BY <1>2, <1>7, <2>1 DEF RepoComment
<1>8. ASSUME NEW d \in DOMAIN inbox, NEW marked \in EchoMarked, Republish(d, marked)
      PROVE  /\ Extends(zulip) /\ Extends(inbox) /\ Extends(comments) /\ inbox' = inbox
             /\ zulip' = zulip
  <2>1. [note |-> inbox[d].note, text |-> inbox[d].text,
         marked |-> marked, origin |-> d] \in Comment
    <3>1. inbox[d] \in Delivery /\ d \in Nat /\ marked \in BOOLEAN
      BY <1>0, RemotesAssumption
    <3> QED
      BY <3>1 DEF Comment, Delivery
  <2> QED
    BY <1>2, <1>8, <2>1 DEF Republish
<1>9. Remote =>
        /\ Extends(zulip) /\ Extends(inbox) /\ Extends(comments) /\ inbox' = inbox
        /\ \A i \in DOMAIN zulip' \ DOMAIN zulip : zulip'[i].sender # "bot"
  BY <1>6, <1>7, <1>8 DEF Remote
<1>10. \/ UNCHANGED vars \/ Looking
       \/ \E m \in pass.msgs : PickMessage(m)
       \/ Bind \/ Link \/ MarkMessage \/ MarkHash
       \/ \E j \in pass.notes : SuppressEcho(j) \/ PickComment(j)
       \/ MarkSeen \/ AdminStep \/ Tick \/ Crash
       => UNCHANGED <<zulip, inbox, comments>>
  BY LookingStep DEF vars, Quiet, PickMessage, Bind, Link, MarkMessage, MarkHash,
    SuppressEcho, PickComment, MarkSeen, AdminStep, BindNote, BindLink, Unbind, Tick, Crash,
    remoteVars
<1> QED
  BY <1>3, <1>4, <1>5, <1>9, <1>10, StepCases

-----------------------------------------------------------------------------
(* How the pass gets to the points where it sends or records. *)

Stays == pc' = pc /\ job' = job

Posted(log, j) ==
  \E i \in DOMAIN log : log[i].sender = "bot" /\ log[i].mirrors = j

\* The pass comes to reply only for a message it found unrecorded, to record
\* a reply only after Graft has taken it, and to record a comment only after
\* Zulip has it.
LEMMA PointStep ==
  ASSUME TypeOK, [Next]_vars
  PROVE  /\ pc' = "reply" =>
              \/ Stays
              \/ /\ UNCHANGED <<mem, disk>>
                 /\ ~MessageDelivered(SeriesOf[job'.note], job'.msg)
                 /\ HasNote(zulip[job'.msg].conv)
                 /\ job'.note = mem.conversationNotes[zulip[job'.msg].conv]
         /\ pc' = "mark" =>
              \/ Stays
              \/ /\ pc = "reply" /\ job' = job
                 /\ \E d \in DOMAIN inbox' : inbox'[d] = JobReply
         /\ pc' = "hash" =>
              Stays \/ (pc = "mark" /\ job' = job)
         /\ pc' = "post" =>
              \/ Stays
              \/ /\ UNCHANGED <<mem, disk, comments>>
                 /\ job'.comment \in DOMAIN comments
                 /\ ~SeenNote(CommentSeries(job'.comment), job'.comment)
         /\ pc' = "seen" =>
              Stays \/ Posted(zulip', job'.comment)
<1>0. /\ zulip \in Seq(Message) /\ inbox \in Seq(Delivery) /\ JobOK
      /\ pass.notes \subseteq DOMAIN comments
  BY TypeFacts
<1>1. CASE Looking
  BY <1>1, LookingStep
<1>2. CASE \E m \in pass.msgs : PickMessage(m)
  BY <1>2 DEF PickMessage, Forwardable, FromUser, Undelivered, storeVars
<1>3. CASE Bind
  <2>1. job \in BindJob
    BY <1>0, <1>3 DEF Bind, JobOK
  <2>2. pc' \in {"idle", "link", "explicit", "title"}
    BY <1>3, <2>1 DEF Bind, PassOver, Goto, BindJob
  <2> QED
    BY <2>2
<1>4. CASE Link
  <2>1. job \in BindJob
    BY <1>0, <1>4 DEF Link, JobOK
  <2>2. pc' \in {"idle", "explicit", "title"}
    BY <1>4, <2>1 DEF Link, PassOver, Goto, BindJob
  <2> QED
    BY <2>2
<1>5. CASE Reply
  <2>1. \/ pc' = "forward"
        \/ /\ pc' = "mark" /\ job' = job /\ pc = "reply"
           /\ inbox' = Append(inbox, JobReply)
    BY <1>5 DEF Reply, ReplyToIssue, AcceptReply, JobReply, Goto
  <2>2. /\ inbox' = Append(inbox, JobReply) => \E d \in DOMAIN inbox' : inbox'[d] = JobReply
    <3>1. inbox' = Append(inbox, JobReply) =>
            Len(inbox) + 1 \in DOMAIN inbox' /\ inbox'[Len(inbox) + 1] = JobReply
      BY <1>0
    <3> QED
      BY <3>1
  <2> QED
    BY <2>1, <2>2
<1>6. CASE MarkMessage
  <2>1. pc = "mark" /\ (pc' = "idle" \/ (pc' = "hash" /\ job' = job))
    BY <1>6 DEF MarkMessage, PassOver
  <2> QED
    BY <2>1
<1>7. CASE MarkHash
  BY <1>7 DEF MarkHash, PassOver, Goto
<1>8. CASE \E j \in pass.notes : SuppressEcho(j)
  BY <1>8 DEF SuppressEcho, PassOver, Stays
<1>9. CASE Post
  <2> DEFINE x == BotPost(job.conv, job.comment)
  <2>1. pc' = "reverse" \/ (pc' = "seen" /\ job' = job /\ zulip' = Append(zulip, x))
    BY <1>9 DEF Post, SendMessage, AcceptMessage, Goto
  <2>2. zulip' = Append(zulip, x) =>
          /\ Len(zulip) + 1 \in DOMAIN zulip' /\ zulip'[Len(zulip) + 1] = x
    BY <1>0
  <2>3. x.sender = "bot" /\ x.mirrors = job.comment
    BY DEF BotPost
  <2> QED
    BY <2>1, <2>2, <2>3 DEF Posted
<1>10. CASE MarkSeen
  BY <1>10 DEF MarkSeen, PassOver, Goto
<1>11. CASE Crash
  BY <1>11 DEF Crash, PassOver
<1>12. CASE UNCHANGED passVars \/ UNCHANGED vars \/ Tick
  BY <1>12 DEF passVars, vars, Tick, Stays
<1>13. CASE \E j \in pass.notes : PickComment(j)
  BY <1>0, <1>13 DEF PickComment, storeVars, remoteVars
<1> QED
  BY <1>1, <1>2, <1>3, <1>4, <1>5, <1>6, <1>7, <1>8, <1>9, <1>10, <1>11, <1>12, <1>13,
     StepCases

\* The pass comes to post a comment only by picking it (bridge.go:358-368).
LEMMA MirrorPoint ==
  ASSUME TypeOK, [Next]_vars, pc # "post", pc' = "post"
  PROVE  \E j \in pass.notes : PickComment(j)
<1>1. JobOK
  BY TypeFacts
<1>2. ~Looking
  BY LookingStep
<1>3. ~Bind /\ ~Link
  <2>1. Bind \/ Link => job \in BindJob
    BY <1>1 DEF Bind, Link, JobOK
  <2> QED
    BY <2>1 DEF Bind, Link, PassOver, Goto, BindJob
<1> QED
  BY <1>2, <1>3, StepCases
  DEF vars, PickMessage, Reply, MarkMessage, MarkHash, SuppressEcho, NextComment, Post,
      MarkSeen, PassOver, Goto, Tick, Crash, passVars

-----------------------------------------------------------------------------
(* What was recorded has happened. *)

\* The strengthening of MarkedWasAccepted and SeenWasHandled that a step
\* preserves: hashes too are of deliveries, a pass that is about to record a
\* delivery has made it, and the comments of the record exist.
Delivered(note, m) ==
  \E d \in DOMAIN inbox :
    inbox[d] = [note |-> note, msg |-> m, text |-> zulip[m].text]

HashedWasSent ==
  \A h \in DOMAIN mem.delivered \cup DOMAIN disk.delivered :
    \E d \in DOMAIN inbox : inbox[d].text = h

SeenExists ==
  \A k \in DOMAIN mem.seenNotes \cup DOMAIN disk.seenNotes :
    k[2] \in DOMAIN comments

Truthful ==
  /\ TypeOK
  /\ MarkedWasAccepted
  /\ HashedWasSent
  /\ SeenExists
  /\ SeenWasHandled
  /\ pc \in {"mark", "hash"} => Delivered(job.note, job.msg)
  /\ pc = "seen" => Posted(zulip, job.comment)

\* The records a save leaves are records the memory or the file had, or the
\* one it adds (state.go:139-167).
LEMMA SavedRecords ==
  ASSUME TypeOK, NEW s, NEW ok \in BOOLEAN, StateOK(s), Save(s, ok)
  PROVE  /\ DOMAIN mem'.delivered \cup DOMAIN disk'.delivered
              \subseteq DOMAIN s.delivered \cup DOMAIN disk.delivered
         /\ DOMAIN mem'.messagesDelivered \cup DOMAIN disk'.messagesDelivered
              \subseteq DOMAIN s.messagesDelivered \cup DOMAIN disk.messagesDelivered
         /\ DOMAIN mem'.seenNotes \cup DOMAIN disk'.seenNotes
              \subseteq DOMAIN s.seenNotes \cup DOMAIN disk.seenNotes
<1>1. mem' = Prune(s) /\ disk' \in {disk, mem'}
  BY SaveState DEF TypeOK
<1>2. /\ DOMAIN Prune(s).delivered \subseteq DOMAIN s.delivered
      /\ DOMAIN Prune(s).messagesDelivered \subseteq DOMAIN s.messagesDelivered
      /\ DOMAIN Prune(s).seenNotes \subseteq DOMAIN s.seenNotes
  <2>1. /\ DOMAIN Unexpired(s.delivered) \subseteq DOMAIN s.delivered
        /\ DOMAIN Unexpired(s.messagesDelivered) \subseteq DOMAIN s.messagesDelivered
        /\ DOMAIN Unexpired(s.seenNotes) \subseteq DOMAIN s.seenNotes
    BY DEF Unexpired, Restrict
  <2> QED
    BY <2>1, PruneState
<1> QED
  BY <1>1, <1>2

\* The keys a step may add to the records, in memory or in the file.
LEMMA RecordKeys ==
  ASSUME TypeOK, [Next]_vars
  PROVE  /\ \A h \in DOMAIN mem'.delivered \cup DOMAIN disk'.delivered :
              \/ h \in DOMAIN mem.delivered \cup DOMAIN disk.delivered
              \/ pc = "hash" /\ h = zulip[job.msg].text
         /\ \A k \in DOMAIN mem'.messagesDelivered \cup DOMAIN disk'.messagesDelivered :
              \/ k \in DOMAIN mem.messagesDelivered \cup DOMAIN disk.messagesDelivered
              \/ pc = "mark" /\ k = <<SeriesOf[job.note], job.msg>>
         /\ \A k \in DOMAIN mem'.seenNotes \cup DOMAIN disk'.seenNotes :
              \/ k \in DOMAIN mem.seenNotes \cup DOMAIN disk.seenNotes
              \/ /\ k[2] \in DOMAIN comments
                 /\ (pc = "seen" /\ k[2] = job.comment) \/ Echo(k[2])
<1>1. CASE StoreUnchanged \/ StoreLoaded
  BY <1>1 DEF StoreUnchanged, StoreLoaded
<1>2. CASE Saving
  <2>0. PICK s : \E ok \in BOOLEAN : StateOK(s) /\ Save(s, ok) /\ RecordStep(s)
    BY <1>2 DEF Saving
  <2>1. PICK ok \in BOOLEAN : StateOK(s) /\ Save(s, ok) /\ RecordStep(s)
    BY <2>0
  <2>2. /\ \A h \in DOMAIN s.delivered :
             h \in DOMAIN mem.delivered \/ (pc = "hash" /\ h = zulip[job.msg].text)
        /\ \A k \in DOMAIN s.messagesDelivered :
             \/ k \in DOMAIN mem.messagesDelivered
             \/ pc = "mark" /\ k = <<SeriesOf[job.note], job.msg>>
        /\ \A k \in DOMAIN s.seenNotes :
             \/ k \in DOMAIN mem.seenNotes
             \/ /\ k[2] \in DOMAIN comments
                /\ (pc = "seen" /\ k[2] = job.comment) \/ Echo(k[2])
    <3>1. \A m, k, x : x \in DOMAIN Put(m, k, now) => x \in DOMAIN m \/ x = k
      BY DEF Put
    <3>2. \A j \in DOMAIN comments : <<CommentSeries(j), j>>[2] = j
      OBVIOUS
    <3> QED
      BY <2>1, <3>1, <3>2 DEF RecordStep
  <2> QED
    BY <2>1, <2>2, SavedRecords
<1> QED
  BY <1>1, <1>2, StoreStep

\* What has been sent stays sent: the evidence for a record never goes away.
LEMMA EvidenceStays ==
  ASSUME TypeOK, [Next]_vars
  PROVE  /\ \A k : Accepted(k) => Accepted(k)'
         /\ \A h : (\E d \in DOMAIN inbox : inbox[d].text = h)
                     => (\E d \in DOMAIN inbox' : inbox'[d].text = h)
         /\ \A j : Posted(zulip, j) => Posted(zulip', j)
         /\ \A n, m : m \in DOMAIN zulip /\ Delivered(n, m) => Delivered(n, m)'
         /\ \A j \in DOMAIN comments : j \in DOMAIN comments' /\ comments'[j] = comments[j]
<1>1. Extends(zulip) /\ Extends(inbox) /\ Extends(comments)
  BY LogStep
<1> QED
  BY <1>1 DEF Extends, Accepted, KeyOf, Posted, Delivered

\* Every step keeps the records truthful.
LEMMA TruthfulStep ==
  ASSUME Truthful, [Next]_vars
  PROVE  Truthful'
<1>0. TypeOK /\ JobOK
  BY DEF Truthful, TypeOK
<1>1. TypeOK'
  BY <1>0, TypeStep
<1>2. pc \in {"mark", "hash"} => job.msg \in DOMAIN zulip /\ Delivered(job.note, job.msg)
  BY <1>0 DEF Truthful, JobOK
<1>3. MarkedWasAccepted'
  <2>1. pc = "mark" => Accepted(<<SeriesOf[job.note], job.msg>>)
    BY <1>2 DEF Delivered, Accepted, KeyOf
  <2> QED
    BY <1>0, <2>1, RecordKeys, EvidenceStays DEF Truthful, MarkedWasAccepted
<1>4. HashedWasSent'
  <2>1. pc = "hash" => \E d \in DOMAIN inbox : inbox[d].text = zulip[job.msg].text
    BY <1>2 DEF Delivered
  <2> QED
    BY <1>0, <2>1, RecordKeys, EvidenceStays DEF Truthful, HashedWasSent
<1>5. SeenExists'
  BY <1>0, RecordKeys, EvidenceStays DEF Truthful, SeenExists
<1>6. SeenWasHandled'
  <2> DEFINE Handled(j) == \/ Posted(zulip, j)
                           \/ comments[j].marked
                           \/ \E d \in DOMAIN inbox : inbox[d].text = comments[j].text
  <2>1. \A j : Mirrors(j) # {} <=> Posted(zulip, j)
    BY DEF Mirrors, Posted
  <2>2. \A j : (Mirrors(j) # {})' <=> Posted(zulip', j)
    BY DEF Mirrors, Posted
  <2>3. \A k \in DOMAIN mem.seenNotes \cup DOMAIN disk.seenNotes :
          k[2] \in DOMAIN comments /\ Handled(k[2])
    BY <2>1 DEF Truthful, SeenWasHandled, SeenExists
  <2>4. \A j \in DOMAIN comments : Echo(j) => Handled(j)
    BY DEF Echo, IsDelivered, Truthful, HashedWasSent
  <2>5. pc = "seen" => Handled(job.comment)
    BY DEF Truthful
  <2>6. \A k \in DOMAIN mem'.seenNotes \cup DOMAIN disk'.seenNotes :
          k[2] \in DOMAIN comments /\ Handled(k[2])
    <3> HIDE DEF Handled
    <3> QED
      BY <1>0, <2>3, <2>4, <2>5, RecordKeys
  <2>7. \A j \in DOMAIN comments : Handled(j) => Handled(j)'
    BY <1>0, EvidenceStays
  <2> QED
    BY <2>2, <2>6, <2>7 DEF SeenWasHandled
<1>7. pc' \in {"mark", "hash"} => Delivered(job.note, job.msg)'
  <2>1. CASE Stays /\ pc \in {"mark", "hash"}
    BY <1>0, <1>2, <2>1, EvidenceStays DEF Stays, Delivered
  <2>2. CASE pc' = "hash" /\ pc = "mark" /\ job' = job
    BY <1>0, <1>2, <2>2, EvidenceStays DEF Delivered
  <2>3. CASE pc = "reply" /\ job' = job /\ \E d \in DOMAIN inbox' : inbox'[d] = JobReply
    <3>1. job.msg \in DOMAIN zulip /\ Extends(zulip)
      BY <1>0, <2>3, LogStep DEF JobOK
    <3> QED
      BY <2>3, <3>1 DEF Extends, Delivered, JobReply
  <2> QED
    BY <1>0, <2>1, <2>2, <2>3, PointStep DEF Stays
<1>8. pc' = "seen" => Posted(zulip', job'.comment)
  BY <1>0, PointStep, EvidenceStays DEF Truthful, Stays
<1> QED
  BY <1>1, <1>3, <1>4, <1>5, <1>6, <1>7, <1>8 DEF Truthful

\* Nothing is recorded at the start (state.go:83-90).
LEMMA TruthfulInit == Init => Truthful
<1> SUFFICES ASSUME Init PROVE Truthful
  OBVIOUS
<1>1. TypeOK
  BY TypeInit
<1> QED
  BY <1>1 DEF Truthful, Init, StateInit, PassInit, EmptyState, EmptyMap,
    MarkedWasAccepted, HashedWasSent, SeenExists, SeenWasHandled

\* A message the bridge records as delivered was accepted by Graft, for the
\* series it is recorded for: no order of failures, crashes, requests and
\* expiries makes the bridge believe in a delivery that did not happen
\* (bridge.go:322-333, state.go:139-167).
THEOREM NoLostMessage == Spec => []MarkedWasAccepted
<1>1. Init => Truthful
  BY TruthfulInit
<1>2. Truthful /\ [Next]_vars => Truthful'
  BY TruthfulStep
<1>3. Truthful => MarkedWasAccepted
  BY DEF Truthful
<1> QED
  BY <1>1, <1>2, <1>3, PTL DEF Spec

\* A comment the bridge records as seen is in Zulip, or was taken for an echo
\* for a reason that holds: Graft's marker, or the text of a reply that was
\* really sent (bridge.go:348-376).
THEOREM NoLostComment == Spec => []SeenWasHandled
<1>1. Init => Truthful
  BY TruthfulInit
<1>2. Truthful /\ [Next]_vars => Truthful'
  BY TruthfulStep
<1>3. Truthful => SeenWasHandled
  BY DEF Truthful
<1> QED
  BY <1>1, <1>2, <1>3, PTL DEF Spec

-----------------------------------------------------------------------------
(* What was recorded is not sent again. *)

\* The strengthening of NoLoopback: the message of every reply exists.
RepliesAreUsers ==
  \A d \in DOMAIN inbox :
    inbox[d].msg \in DOMAIN zulip /\ zulip[inbox[d].msg].sender = "user"

\* The bridge never sends its own messages back to Graft, whatever fails
\* (bridge.go:302-306).
THEOREM NoLoopbackEver == Spec => []NoLoopback
<1> DEFINE Inv == TypeOK /\ RepliesAreUsers
<1>1. Init => Inv
  BY TypeInit DEF Init, RemotesInit, RepliesAreUsers
<1>2. Inv /\ [Next]_vars => Inv'
  <2> SUFFICES ASSUME Inv, [Next]_vars PROVE Inv'
    OBVIOUS
  <2>1. TypeOK' /\ JobOK
    BY TypeStep DEF TypeOK
  <2>2. pc = "reply" => job.msg \in DOMAIN zulip /\ zulip[job.msg].sender = "user"
    BY <2>1 DEF JobOK
  <2>3. \A d \in DOMAIN inbox' :
          inbox'[d].msg \in DOMAIN zulip /\ zulip[inbox'[d].msg].sender = "user"
    BY <2>2, LogStep DEF Extends, RepliesAreUsers, JobReply
  <2> QED
    BY <2>1, <2>3, LogStep DEF Extends, RepliesAreUsers
<1>3. Inv => NoLoopback
  BY DEF RepliesAreUsers, NoLoopback
<1> QED
  BY <1>1, <1>2, <1>3, PTL DEF Spec

\* What a record of the file needs to protect against a repetition before and
\* after a restart: an entry that has not expired is in memory too, with a
\* time at least as late.
Kept(inMemory, onFile) ==
  /\ \A k \in DOMAIN inMemory : inMemory[k] <= now
  /\ \A k \in DOMAIN onFile :
       /\ onFile[k] <= now
       /\ Fresh(onFile[k]) => k \in DOMAIN inMemory /\ onFile[k] <= inMemory[k]

Protects ==
  /\ TypeOK
  /\ Kept(mem.messagesDelivered, disk.messagesDelivered)
  /\ Kept(mem.seenNotes, disk.seenNotes)
  /\ pc = "reply" => ~MessageDelivered(SeriesOf[job.note], job.msg)
  /\ pc = "post"  => ~SeenNote(CommentSeries(job.comment), job.comment)

\* A save keeps what the file protects, whether or not it reaches the file,
\* and whether or not it adds a record (state.go:119-167).
LEMMA KeptBySave ==
  ASSUME NEW K, NEW m, NEW f, IsMap(m, K, Nat), IsMap(f, K, Nat), now \in Nat,
         NEW s, IsMap(s, K, Nat), Kept(m, f),
         s = m \/ \E k : s = Put(m, k, now),
         NEW g, g \in {f, Unexpired(s)}
  PROVE  Kept(Unexpired(s), g)
<1>1. /\ \A k \in DOMAIN s : s[k] <= now
      /\ \A k \in DOMAIN m : k \in DOMAIN s /\ m[k] <= s[k]
  <2>1. \A k \in DOMAIN m : m[k] \in Nat /\ m[k] <= now
    BY DEF IsMap, Kept
  <2>2. CASE s = m
    BY <2>1, <2>2
  <2>3. CASE \E k : s = Put(m, k, now)
    <3>1. PICK x : s = Put(m, x, now)
      BY <2>3
    <3>2. /\ DOMAIN s = DOMAIN m \cup {x}
          /\ \A k \in DOMAIN s : s[k] = IF k = x THEN now ELSE m[k]
      BY <3>1 DEF Put
    <3> QED
      BY <2>1, <3>2
  <2> QED
    BY <2>2, <2>3
<1>2. /\ DOMAIN Unexpired(s) = {k \in DOMAIN s : Fresh(s[k])}
      /\ \A k \in DOMAIN Unexpired(s) : Unexpired(s)[k] = s[k]
  BY DEF Unexpired, Restrict
<1>3. \A k \in DOMAIN f :
        Fresh(f[k]) => k \in DOMAIN Unexpired(s) /\ f[k] <= Unexpired(s)[k]
  <2> SUFFICES ASSUME NEW k \in DOMAIN f, Fresh(f[k])
               PROVE  k \in DOMAIN Unexpired(s) /\ f[k] <= Unexpired(s)[k]
    OBVIOUS
  <2>1. k \in DOMAIN m /\ f[k] <= m[k]
    BY DEF Kept
  <2>2. k \in DOMAIN s /\ m[k] <= s[k]
    BY <1>1, <2>1
  <2>3. f[k] \in Nat /\ m[k] \in Nat /\ s[k] \in Nat
    BY <2>1, <2>2 DEF IsMap
  <2>4. f[k] <= s[k] /\ Fresh(s[k])
    BY <2>1, <2>2, <2>3, RetentionAssumption DEF Fresh
  <2> QED
    BY <1>2, <2>2, <2>4
<1>4. \A k \in DOMAIN Unexpired(s) : Unexpired(s)[k] \in Nat /\ Unexpired(s)[k] <= now
  BY <1>1, <1>2 DEF IsMap
<1>5. CASE g = f
  BY <1>3, <1>4, <1>5 DEF Kept
<1>6. CASE g = Unexpired(s)
  BY <1>4, <1>6 DEF Kept
<1> QED
  BY <1>5, <1>6

\* Every step keeps the protection.
LEMMA ProtectsStep ==
  ASSUME Protects, [Next]_vars
  PROVE  Protects'
<1>0. /\ TypeOK /\ now \in Nat /\ JobOK /\ StateOK(mem) /\ StateOK(disk)
      /\ Kept(mem.messagesDelivered, disk.messagesDelivered)
      /\ Kept(mem.seenNotes, disk.seenNotes)
  BY TypeFacts DEF Protects
<1>1. TypeOK'
  BY <1>0, TypeStep
<1>2. /\ Kept(mem.messagesDelivered, disk.messagesDelivered)'
      /\ Kept(mem.seenNotes, disk.seenNotes)'
  <2>1. CASE StoreUnchanged
    <3>1. \A m, f, K : /\ IsMap(m, K, Nat) /\ IsMap(f, K, Nat) /\ Kept(m, f)
                       => /\ \A k \in DOMAIN m : m[k] <= now'
                          /\ \A k \in DOMAIN f :
                               /\ f[k] <= now'
                               /\ f[k] + Retention >= now' =>
                                    k \in DOMAIN m /\ f[k] <= m[k]
      <4> SUFFICES ASSUME NEW m, NEW f, NEW K,
                          IsMap(m, K, Nat), IsMap(f, K, Nat), Kept(m, f)
                   PROVE  /\ \A k \in DOMAIN m : m[k] <= now'
                          /\ \A k \in DOMAIN f :
                               /\ f[k] <= now'
                               /\ f[k] + Retention >= now' =>
                                    k \in DOMAIN m /\ f[k] <= m[k]
        OBVIOUS
      <4>1. now' \in Nat /\ now <= now' /\ Retention \in Nat
        BY <1>0, <2>1, RetentionAssumption DEF StoreUnchanged
      <4>2. /\ \A k \in DOMAIN m : m[k] \in Nat /\ m[k] <= now
            /\ \A k \in DOMAIN f : f[k] \in Nat /\ f[k] <= now
            /\ \A k \in DOMAIN f : f[k] + Retention >= now =>
                 k \in DOMAIN m /\ f[k] <= m[k]
        BY DEF IsMap, Kept, Fresh
      <4> QED
        BY <1>0, <4>1, <4>2
    <3>2. mem' = mem /\ disk' = disk
      BY <2>1 DEF StoreUnchanged
    <3> QED
      BY <1>0, <3>1, <3>2 DEF StateOK, Kept, Fresh
  <2>2. CASE StoreLoaded
    <3>1. /\ \A k \in DOMAIN disk.messagesDelivered : disk.messagesDelivered[k] \in Nat
          /\ \A k \in DOMAIN disk.seenNotes : disk.seenNotes[k] \in Nat
      BY <1>0 DEF StateOK, IsMap
    <3> QED
      BY <1>0, <2>2, <3>1 DEF StoreLoaded, Kept, Fresh
  <2>3. CASE Saving
    <3>0. PICK s : \E ok \in BOOLEAN : StateOK(s) /\ Save(s, ok) /\ RecordStep(s)
      BY <2>3 DEF Saving
    <3>1. PICK ok \in BOOLEAN : StateOK(s) /\ Save(s, ok) /\ RecordStep(s)
      BY <3>0
    <3>2. mem' = Prune(s) /\ disk' \in {disk, mem'} /\ now' = now
      BY <1>0, <3>1, SaveState
    <3>3. /\ mem'.messagesDelivered = Unexpired(s.messagesDelivered)
          /\ mem'.seenNotes = Unexpired(s.seenNotes)
          /\ disk'.messagesDelivered \in {disk.messagesDelivered,
                                          Unexpired(s.messagesDelivered)}
          /\ disk'.seenNotes \in {disk.seenNotes, Unexpired(s.seenNotes)}
      BY <3>1, <3>2, PruneState
    <3>4. /\ s.messagesDelivered = mem.messagesDelivered
               \/ \E k : s.messagesDelivered = Put(mem.messagesDelivered, k, now)
          /\ s.seenNotes = mem.seenNotes
               \/ \E k : s.seenNotes = Put(mem.seenNotes, k, now)
      BY <3>1 DEF RecordStep
    <3>5. /\ Kept(mem'.messagesDelivered, disk'.messagesDelivered)
          /\ Kept(mem'.seenNotes, disk'.seenNotes)
      <4>1. /\ IsMap(mem.messagesDelivered, SeriesNames \X Nat, Nat)
            /\ IsMap(disk.messagesDelivered, SeriesNames \X Nat, Nat)
            /\ IsMap(s.messagesDelivered, SeriesNames \X Nat, Nat)
            /\ IsMap(mem.seenNotes, SeriesNames \X Nat, Nat)
            /\ IsMap(disk.seenNotes, SeriesNames \X Nat, Nat)
            /\ IsMap(s.seenNotes, SeriesNames \X Nat, Nat)
        BY <1>0, <3>1 DEF StateOK
      <4>2. Kept(Unexpired(s.messagesDelivered), disk'.messagesDelivered)
        BY <1>0, <3>3, <3>4, <4>1, KeptBySave
      <4>3. Kept(Unexpired(s.seenNotes), disk'.seenNotes)
        BY <1>0, <3>3, <3>4, <4>1, KeptBySave
      <4> QED
        BY <3>3, <4>2, <4>3
    <3> QED
      BY <3>2, <3>5 DEF Kept, Fresh
  <2> QED
    BY <1>0, <2>1, <2>2, <2>3, StoreStep
\* While a reply or a post is due nobody records it.
<1>3. /\ pc = "reply" /\ pc' = "reply" =>
           DOMAIN mem'.messagesDelivered \subseteq DOMAIN mem.messagesDelivered
      /\ pc = "post" /\ pc' = "post" =>
           DOMAIN mem'.seenNotes \subseteq DOMAIN mem.seenNotes
  <2>1. CASE StoreUnchanged \/ StoreLoaded
    BY <2>1 DEF StoreUnchanged, StoreLoaded
  <2>2. CASE Saving
    <3>0. PICK s : \E ok \in BOOLEAN : StateOK(s) /\ Save(s, ok) /\ RecordStep(s)
      BY <2>2 DEF Saving
    <3>1. PICK ok \in BOOLEAN : StateOK(s) /\ Save(s, ok) /\ RecordStep(s)
      BY <3>0
    <3>2. /\ mem'.messagesDelivered = Unexpired(s.messagesDelivered)
          /\ mem'.seenNotes = Unexpired(s.seenNotes)
      BY <1>0, <3>1, SaveState, PruneState
    <3>3. /\ DOMAIN mem'.messagesDelivered \subseteq DOMAIN s.messagesDelivered
          /\ DOMAIN mem'.seenNotes \subseteq DOMAIN s.seenNotes
      BY <3>2 DEF Unexpired, Restrict
    <3>4. /\ pc = "reply" => s.messagesDelivered = mem.messagesDelivered
          /\ pc = "post" => s.seenNotes = mem.seenNotes
      BY <3>1 DEF RecordStep
    <3> QED
      BY <3>3, <3>4
  <2> QED
    BY <1>0, <2>1, <2>2, StoreStep
<1>4. (pc = "reply" => ~MessageDelivered(SeriesOf[job.note], job.msg))'
  BY <1>0, <1>3, PointStep DEF Protects, MessageDelivered, Stays
<1>5. (pc = "post" => ~SeenNote(CommentSeries(job.comment), job.comment))'
  <2>1. CASE Stays /\ pc = "post"
    <3>1. job.comment \in DOMAIN comments /\ Extends(comments)
      BY <1>0, <2>1, LogStep DEF JobOK
    <3>2. comments'[job.comment] = comments[job.comment]
      BY <3>1 DEF Extends
    <3> QED
      BY <1>3, <2>1, <3>2 DEF Protects, SeenNote, CommentSeries, Stays
  <2>2. CASE /\ UNCHANGED <<mem, disk, comments>>
             /\ ~SeenNote(CommentSeries(job'.comment), job'.comment)
    BY <2>2 DEF SeenNote, CommentSeries
  <2> QED
    BY <1>0, <2>1, <2>2, PointStep DEF Stays
<1> QED
  BY <1>1, <1>2, <1>4, <1>5 DEF Protects

\* The records start empty in memory and on file (state.go:83-90).
LEMMA ProtectsInit == Init => Protects
  BY TypeInit DEF Protects, Init, StateInit, PassInit, EmptyState, EmptyMap, Kept

\* A message the file records as delivered, with an entry that has not
\* expired, is never sent to that series again, whatever happens in between:
\* restarts, failed saves, unbinding and rebinding (bridge.go:319-323).
THEOREM NoResend == Spec => RecordedNotResent
<1>1. Init => Protects
  BY ProtectsInit
<1>2. Protects /\ [Next]_vars => Protects'
  BY ProtectsStep
<1>3. Protects /\ [Next]_vars =>
        \A d \in DOMAIN inbox' \ DOMAIN inbox :
          LET k == <<SeriesOf[inbox'[d].note], inbox'[d].msg>> IN
          k \in DOMAIN disk.messagesDelivered => ~Fresh(disk.messagesDelivered[k])
  <2> SUFFICES ASSUME Protects, [Next]_vars, NEW d \in DOMAIN inbox' \ DOMAIN inbox
               PROVE  LET k == <<SeriesOf[inbox'[d].note], inbox'[d].msg>> IN
                      k \in DOMAIN disk.messagesDelivered =>
                        ~Fresh(disk.messagesDelivered[k])
    OBVIOUS
  <2>1. pc = "reply" /\ inbox'[d].note = job.note /\ inbox'[d].msg = job.msg
    BY LogStep DEF Protects, JobReply
  <2>2. <<SeriesOf[job.note], job.msg>> \notin DOMAIN mem.messagesDelivered
    BY <2>1 DEF Protects, MessageDelivered
  <2> QED
    BY <2>1, <2>2 DEF Protects, Kept
<1> QED
  BY <1>1, <1>2, <1>3, PTL DEF Spec, RecordedNotResent

\* A comment the file records as seen, with an entry that has not expired, is
\* never posted to Zulip again (bridge.go:348, 368).
THEOREM NoRemirror == Spec => SeenNotRemirrored
<1>1. Init => Protects
  BY ProtectsInit
<1>2. Protects /\ [Next]_vars => Protects'
  BY ProtectsStep
<1>3. Protects /\ [Next]_vars =>
        \A i \in DOMAIN zulip' \ DOMAIN zulip :
          zulip'[i].sender = "bot" =>
            LET j == zulip'[i].mirrors
                k == <<CommentSeries(j), j>> IN
            k \in DOMAIN disk.seenNotes => ~Fresh(disk.seenNotes[k])
  <2> SUFFICES ASSUME Protects, [Next]_vars, NEW i \in DOMAIN zulip' \ DOMAIN zulip,
                      zulip'[i].sender = "bot"
               PROVE  LET j == zulip'[i].mirrors
                          k == <<CommentSeries(j), j>> IN
                      k \in DOMAIN disk.seenNotes => ~Fresh(disk.seenNotes[k])
    OBVIOUS
  <2>1. pc = "post" /\ zulip'[i].mirrors = job.comment
    BY LogStep DEF Protects
  <2>2. <<CommentSeries(job.comment), job.comment>> \notin DOMAIN mem.seenNotes
    BY <2>1 DEF Protects, SeenNote
  <2> QED
    BY <2>1, <2>2 DEF Protects, Kept
<1> QED
  BY <1>1, <1>2, <1>3, PTL DEF Spec, SeenNotRemirrored

-----------------------------------------------------------------------------
(* The replies of one pass: their order and their number. *)

Replying(point) == point \in {"reply", "mark", "hash"}

\* What a step does to a pass that is not over.
PassBegins ==
  /\ pc = "idle" /\ pc' = "outbox" /\ inbox' = inbox
  /\ pass'.start = Len(inbox) /\ pass'.delivered = 0

PassLooks ==
  /\ Stays \/ (~Replying(pc) /\ ~Replying(pc'))
  /\ inbox' = inbox /\ pass'.delivered = pass.delivered

PassPicks ==
  /\ pc = "forward" /\ pc' = "reply" /\ inbox' = inbox
  /\ job'.msg \in pass.msgs /\ Oldest(job'.msg) /\ ~LimitReached
  /\ pass'.msgs = pass.msgs \ {job'.msg} /\ pass'.delivered = pass.delivered

PassReplies ==
  /\ pc = "reply" /\ pass' = pass
  /\ \/ pc' = "mark" /\ inbox' = Append(inbox, JobReply)
     \/ pc' = "forward" /\ inbox' = inbox
     \/ pc' = "forward" /\ inbox' = Append(inbox, JobReply) /\ "lostAck" \in FaultKinds

PassRecords ==
  /\ inbox' = inbox
  /\ \/ pc = "mark" /\ pc' = "hash" /\ pass' = pass
     \/ pc = "hash" /\ pc' = "forward" /\ pass'.delivered = pass.delivered + 1

PassGoesOn ==
  /\ pc # "idle" /\ pass'.start = pass.start /\ pass'.msgs \subseteq pass.msgs
  /\ PassLooks \/ PassPicks \/ PassReplies \/ PassRecords

\* A pass fetches, looks, picks the oldest message that is left, replies,
\* records, and counts, in this order (bridge.go:75-80, 288-334).
LEMMA PassMoves ==
  ASSUME TypeOK, [Next]_vars, pc' # "idle"
  PROVE  PassBegins \/ PassGoesOn
<1>0. pass \in PassLocals /\ JobOK
  BY TypeFacts
<1>1. CASE FetchMessages
  BY <1>1 DEF FetchMessages, NoPass, PassBegins
<1>2. CASE \E s \in Series : FetchOutbox(s)
  BY <1>0, <1>2 DEF FetchOutbox, PassLocals, PassGoesOn, PassLooks, Stays
<1>3. CASE OutboxesDone \/ ExplicitDone \/ TitleDone \/ ForwardDone
  BY <1>0, <1>3 DEF OutboxesDone, ExplicitDone, TitleDone, ForwardDone, Goto, remoteVars,
                    PassLocals, PassGoesOn, PassLooks, Replying
<1>4. CASE \/ \E c \in Conv : ExplicitKey(c)
           \/ \E s \in Series, c \in Conv : TitlePair(s, c)
  BY <1>0, <1>4 DEF ExplicitKey, TitlePair, PassOver, Goto, remoteVars,
                    PassLocals, PassGoesOn, PassLooks, Replying
<1>5. CASE Bind \/ Link
  <2>1. job \in BindJob
    BY <1>0, <1>5 DEF Bind, Link, JobOK
  <2> QED
    BY <1>5, <2>1 DEF Bind, Link, BindJob, PassOver, Goto, PassGoesOn, PassLooks, Replying
<1>6. CASE \E m \in pass.msgs : SkipMessage(m)
  BY <1>0, <1>6 DEF SkipMessage, remoteVars, PassLocals, PassGoesOn, PassLooks, Stays
<1>7. CASE \E m \in pass.msgs : PickMessage(m)
  BY <1>0, <1>7 DEF PickMessage, remoteVars, PassLocals, PassGoesOn, PassPicks
<1>8. CASE Reply
  BY <1>8 DEF Reply, ReplyToIssue, AcceptReply, JobReply, Fault, Goto, PassGoesOn, PassReplies
<1>9. CASE MarkMessage \/ MarkHash
  BY <1>0, <1>9 DEF MarkMessage, MarkHash, PassOver, Goto, PassLocals, PassGoesOn, PassRecords
<1>10. CASE \E j \in pass.notes : SkipComment(j) \/ SuppressEcho(j) \/ PickComment(j)
  BY <1>0, <1>10 DEF SkipComment, SuppressEcho, PickComment, NextComment, PassOver,
                     storeVars, remoteVars, PassLocals, PassGoesOn, PassLooks, Replying
<1>11. CASE Post \/ MarkSeen
  BY <1>0, <1>11 DEF Post, MarkSeen, PassOver, Goto, PassGoesOn, PassLooks, Replying
<1>12. CASE ReverseDone \/ Crash
  BY <1>12 DEF ReverseDone, Crash, PassOver
<1>13. CASE UNCHANGED passVars /\ UNCHANGED inbox
  BY <1>13 DEF passVars, PassGoesOn, PassLooks, PassBegins, Stays
<1>14. UNCHANGED vars \/ Tick \/ (AdminStep /\ UNCHANGED passVars) =>
         UNCHANGED passVars /\ UNCHANGED inbox
  BY DEF vars, Tick, AdminStep, BindNote, BindLink, Unbind, passVars, remoteVars
<1>15. Remote => UNCHANGED inbox
  BY DEF Remote, UserPosts, RepoComment, Republish
<1> QED
  BY <1>1, <1>2, <1>3, <1>4, <1>5, <1>6, <1>7, <1>8, <1>9, <1>10, <1>11, <1>12, <1>13,
     <1>14, <1>15, StepCases DEF Looking

\* The replies of the current pass.
ThisPass == (pass.start + 1) .. Len(inbox)

\* The strengthening of InPassOrder: what the pass has replied to is older
\* than what it is replying to, and that than all it has still to visit.
InOrder ==
  /\ TypeOK
  /\ InPassOrder
  /\ pc # "idle" =>
       \A x \in pass.msgs : \A d \in ThisPass : inbox[d].msg < x
  /\ pc = "reply" =>
       /\ \A x \in pass.msgs : job.msg < x
       /\ \A d \in ThisPass : inbox[d].msg < job.msg

\* Every step keeps the order, a failed reply, a lost answer and a message of
\* another conversation in between notwithstanding (bridge.go:288-334).
LEMMA InOrderStep ==
  ASSUME InOrder, [Next]_vars
  PROVE  InOrder'
<1>0. /\ TypeOK /\ TypeOK' /\ pass \in PassLocals /\ pass.start <= Len(inbox)
      /\ inbox \in Seq(Delivery) /\ pass.msgs \subseteq Nat /\ pass.start \in Nat /\ JobOK
  BY TypeStep, TypeFacts DEF InOrder, PassLocals
<1>1. CASE pc' = "idle"
  BY <1>0, <1>1 DEF InOrder, InPassOrder
<1>2. CASE PassBegins
  <2>1. ThisPass' = {}
    BY <1>0, <1>2 DEF PassBegins, ThisPass
  <2> QED
    BY <1>0, <1>2, <2>1 DEF InOrder, InPassOrder, ThisPass, PassBegins
<1>3. ASSUME pc # "idle", pass'.start = pass.start, inbox' = inbox,
             pass'.msgs \subseteq pass.msgs,
             pc' = "reply" =>
               /\ \A x \in pass'.msgs : job'.msg < x
               /\ \A d \in ThisPass : inbox[d].msg < job'.msg
      PROVE  InOrder'
  BY <1>0, <1>3 DEF InOrder, InPassOrder, ThisPass
<1>4. CASE PassGoesOn /\ PassLooks
  BY <1>3, <1>4 DEF PassGoesOn, PassLooks, Stays, Replying, InOrder
<1>5. CASE PassGoesOn /\ PassPicks
  <2>1. \A x \in pass'.msgs : x \in Nat /\ job'.msg \in Nat /\ job'.msg <= x /\ job'.msg # x
    BY <1>0, <1>5 DEF PassPicks, Oldest
  <2>2. \A d \in ThisPass : inbox[d].msg < job'.msg
    BY <1>5 DEF PassGoesOn, PassPicks, InOrder
  <2> QED
    BY <1>3, <1>5, <2>1, <2>2 DEF PassGoesOn, PassPicks
<1>6. CASE PassGoesOn /\ (PassRecords \/ (PassReplies /\ inbox' = inbox))
  BY <1>3, <1>6 DEF PassGoesOn, PassRecords, PassReplies
<1>7. CASE PassGoesOn /\ PassReplies /\ inbox' # inbox
  <2> DEFINE n == Len(inbox) + 1
  <2>1. /\ pc = "reply" /\ pc' # "reply" /\ pass' = pass /\ inbox' = Append(inbox, JobReply)
    BY <1>7 DEF PassReplies
  <2>2. /\ ThisPass' = ThisPass \cup {n} /\ ThisPass \subseteq DOMAIN inbox
        /\ \A d \in ThisPass : d \in Nat /\ d < n /\ ~(n < d)
        /\ ~(n < n)
    BY <1>0, <2>1 DEF ThisPass
  <2>3. /\ inbox'[n].msg = job.msg
        /\ \A d \in ThisPass : inbox'[d] = inbox[d]
    BY <1>0, <2>1, <2>2 DEF JobReply
  <2>4. \A d \in ThisPass' : \A x \in pass'.msgs : inbox'[d].msg < x
    BY <2>1, <2>2, <2>3 DEF InOrder
  <2>5. \A d, e \in ThisPass' : d < e => inbox'[d].msg < inbox'[e].msg
    <3>1. \A d, e \in ThisPass : d < e => inbox[d].msg < inbox[e].msg
      BY <2>1 DEF InOrder, InPassOrder, ThisPass
    <3>2. \A d \in ThisPass : inbox[d].msg < job.msg
      BY <2>1 DEF InOrder
    <3> HIDE DEF n
    <3> QED
      BY <2>2, <2>3, <3>1, <3>2
  <2> QED
    BY <1>0, <2>1, <2>4, <2>5 DEF InOrder, InPassOrder, ThisPass
<1> QED
  BY <1>0, <1>1, <1>2, <1>4, <1>5, <1>6, <1>7, PassMoves DEF PassGoesOn

\* Within a pass, replies are made in the order of the messages, whichever
\* conversations they are of and whatever fails on the way (bridge.go:288-294).
THEOREM RepliesInOrder == Spec => []InPassOrder
<1>1. Init => InOrder
  BY TypeInit DEF InOrder, InPassOrder, Init, PassInit
<1>2. InOrder /\ [Next]_vars => InOrder'
  BY InOrderStep
<1>3. InOrder => InPassOrder
  BY DEF InOrder
<1> QED
  BY <1>1, <1>2, <1>3, PTL DEF Spec

\* The strengthening of DeliveriesBounded: the pass has counted every reply it
\* has made, but for the one it is recording.
Underway(points) == IF pc \in points THEN 1 ELSE 0

Counting ==
  /\ TypeOK
  /\ pc # "idle" =>
       /\ Len(inbox) = pass.start + pass.delivered + Underway({"mark", "hash"})
       /\ MaxDeliveries > 0 =>
            pass.delivered + Underway({"reply", "mark", "hash"}) <= MaxDeliveries

\* While every answer arrives, each step keeps the count: a reply that fails
\* is not counted and not in Graft, and a save that fails ends the pass
\* (bridge.go:299, 323-334).
LEMMA CountingStep ==
  ASSUME "lostAck" \notin FaultKinds, Counting, [Next]_vars
  PROVE  Counting'
<1>0. /\ TypeOK /\ TypeOK' /\ pass \in PassLocals /\ inbox \in Seq(Delivery)
      /\ pass.start \in Nat /\ pass.delivered \in Nat /\ Len(inbox) \in Nat /\ MaxDeliveries \in Nat
  BY TypeStep, TypeFacts, PassAssumption DEF Counting, PassLocals
<1>1. CASE pc' = "idle"
  BY <1>0, <1>1 DEF Counting
<1>2. CASE PassBegins
  BY <1>0, <1>2 DEF PassBegins, Counting, Underway
<1>3. CASE PassGoesOn /\ PassLooks
  BY <1>0, <1>3 DEF PassGoesOn, PassLooks, Stays, Replying, Counting, Underway
<1>4. CASE PassGoesOn /\ PassPicks
  BY <1>0, <1>4 DEF PassGoesOn, PassPicks, LimitReached, Counting, Underway
<1>5. CASE PassGoesOn /\ PassReplies
  <2>1. inbox' = Append(inbox, JobReply) => Len(inbox') = Len(inbox) + 1
    BY <1>0
  <2> QED
    BY <1>0, <1>5, <2>1 DEF PassGoesOn, PassReplies, Counting, Underway
<1>6. CASE PassGoesOn /\ PassRecords
  BY <1>0, <1>6 DEF PassGoesOn, PassRecords, Counting, Underway
<1> QED
  BY <1>0, <1>1, <1>2, <1>3, <1>4, <1>5, <1>6, PassMoves DEF PassGoesOn

\* A pass never makes more comments than MaxDeliveriesPerPass, whatever fails
\* but an answer that gets lost, which leaves a comment the pass does not
\* count (bridge.go:45, 299, 323-334).
THEOREM DeliveriesLimited ==
  ASSUME "lostAck" \notin FaultKinds
  PROVE  Spec => []DeliveriesBounded
<1>1. Init => Counting
  BY TypeInit DEF Counting, Init, PassInit
<1>2. Counting /\ [Next]_vars => Counting'
  BY CountingStep
<1>3. Counting => DeliveriesBounded
  <2> SUFFICES ASSUME Counting PROVE DeliveriesBounded
    OBVIOUS
  <2>1. /\ pass.start \in Nat /\ pass.delivered \in Nat /\ Len(inbox) \in Nat
        /\ MaxDeliveries \in Nat
    BY TypeFacts, PassAssumption DEF Counting, PassLocals
  <2> QED
    BY <2>1 DEF Counting, DeliveriesBounded, Underway
<1> QED
  BY <1>1, <1>2, <1>3, PTL DEF Spec

-----------------------------------------------------------------------------
(***************************************************************************)
(* Bindings.                                                               *)
(*                                                                         *)
(* One lemma says what a step can do to the bindings (BindingStep), and    *)
(* one how the pass comes to write them (BindPoints); each theorem says    *)
(* who may write them while it holds.                                      *)
(***************************************************************************)
\* The issue a note is of, as links are keyed on it.
NoteIssue(n) == <<SeriesOf[n], UrlOf[n]>>

\* What the mutators do to the bindings in memory.
Keeps ==
  /\ mem'.conversationNotes = mem.conversationNotes
  /\ mem'.issueConversations = mem.issueConversations

Binds(c, n) ==
  /\ mem'.conversationNotes = Put(mem.conversationNotes, c, n)
  /\ mem'.issueConversations = mem.issueConversations

Links(n, c) ==
  /\ mem'.conversationNotes = mem.conversationNotes
  /\ mem'.issueConversations = Put(mem.issueConversations, NoteIssue(n), c)

Unbinds(c) ==
  /\ mem'.conversationNotes =
       Restrict(mem.conversationNotes, DOMAIN mem.conversationNotes \ {c})
  /\ mem'.issueConversations =
       Restrict(mem.issueConversations,
                {u \in DOMAIN mem.issueConversations : mem.issueConversations[u] # c})

\* What becomes of the file.
Filed(ok) == disk' = IF ok THEN mem' ELSE disk

\* A save leaves the bindings it was given, and prune none of them out
\* (state.go:119-167).
LEMMA SavedBindings ==
  ASSUME NEW s, DOMAIN s = DOMAIN EmptyState, NEW ok \in BOOLEAN, Save(s, ok)
  PROVE  /\ mem'.conversationNotes = s.conversationNotes
         /\ mem'.issueConversations = s.issueConversations
         /\ Filed(ok)
<1>1. DOMAIN s = {"conversationNotes", "issueConversations", "delivered",
                  "messagesDelivered", "seenNotes"}
  BY DEF EmptyState
<1>2. /\ Prune(s).conversationNotes = s.conversationNotes
      /\ Prune(s).issueConversations = s.issueConversations
  BY <1>1 DEF Prune
<1> QED
  BY <1>2 DEF Save, Filed

\* The mutators of the bindings (state.go:195-215, 240-245).
LEMMA Mutators ==
  ASSUME StateOK(mem), NEW ok \in BOOLEAN
  PROVE  /\ \A c, n : SetConversationNote(c, n, ok) => Binds(c, n) /\ Filed(ok)
         /\ \A n, c : SetIssueConversation(SeriesOf[n], UrlOf[n], c, ok) =>
                        Links(n, c) /\ Filed(ok)
         /\ \A c : DeleteConversationNote(c, ok) => Unbinds(c) /\ Filed(ok)
<1>1. DOMAIN mem = {"conversationNotes", "issueConversations", "delivered",
                    "messagesDelivered", "seenNotes"} /\ DOMAIN mem = DOMAIN EmptyState
  BY DEF StateOK, EmptyState
<1>2. ASSUME NEW c, NEW n, SetConversationNote(c, n, ok)
      PROVE  Binds(c, n) /\ Filed(ok)
  <2> DEFINE s == [mem EXCEPT !.conversationNotes = Put(@, c, n)]
  <2>1. /\ DOMAIN s = DOMAIN EmptyState /\ s.issueConversations = mem.issueConversations
        /\ s.conversationNotes = Put(mem.conversationNotes, c, n)
    BY <1>1
  <2>2. Save(s, ok)
    BY <1>2 DEF SetConversationNote
  <2> HIDE DEF s
  <2> QED
    BY <2>1, <2>2, SavedBindings DEF Binds
<1>3. ASSUME NEW n, NEW c, SetIssueConversation(SeriesOf[n], UrlOf[n], c, ok)
      PROVE  Links(n, c) /\ Filed(ok)
  <2> DEFINE s == [mem EXCEPT !.issueConversations = Put(@, <<SeriesOf[n], UrlOf[n]>>, c)]
  <2>1. /\ DOMAIN s = DOMAIN EmptyState /\ s.conversationNotes = mem.conversationNotes
        /\ s.issueConversations = Put(mem.issueConversations, NoteIssue(n), c)
    BY <1>1 DEF NoteIssue
  <2>2. Save(s, ok)
    BY <1>3 DEF SetIssueConversation
  <2> HIDE DEF s
  <2> QED
    BY <2>1, <2>2, SavedBindings DEF Links
<1>4. ASSUME NEW c, DeleteConversationNote(c, ok)
      PROVE  Unbinds(c) /\ Filed(ok)
  <2>1. /\ DOMAIN Without(c) = DOMAIN EmptyState
        /\ Without(c).conversationNotes =
             Restrict(mem.conversationNotes, DOMAIN mem.conversationNotes \ {c})
        /\ Without(c).issueConversations =
             Restrict(mem.issueConversations,
                      {u \in DOMAIN mem.issueConversations : mem.issueConversations[u] # c})
    BY <1>1 DEF Without
  <2> QED
    BY <1>4, <2>1, SavedBindings DEF DeleteConversationNote, Unbinds
<1> QED
  BY <1>2, <1>3, <1>4

\* The mutators of the records leave the bindings alone (state.go:256-295).
LEMMA RecordsKeepBindings ==
  ASSUME StateOK(mem), NEW ok \in BOOLEAN, NEW s, NEW k,
         MarkDelivered(k, ok) \/ MarkMessageDelivered(s, k, ok) \/ MarkSeenNote(s, k, ok)
  PROVE  Keeps /\ Filed(ok)
<1>1. DOMAIN mem = {"conversationNotes", "issueConversations", "delivered",
                    "messagesDelivered", "seenNotes"} /\ DOMAIN mem = DOMAIN EmptyState
  BY DEF StateOK, EmptyState
<1>2. PICK m : /\ Save(m, ok) /\ DOMAIN m = DOMAIN EmptyState
               /\ m.conversationNotes = mem.conversationNotes
               /\ m.issueConversations = mem.issueConversations
  <2>1. ASSUME NEW x
        PROVE  /\ LET m == [mem EXCEPT !.delivered = x] IN
                    /\ DOMAIN m = DOMAIN EmptyState
                    /\ m.conversationNotes = mem.conversationNotes
                    /\ m.issueConversations = mem.issueConversations
               /\ LET m == [mem EXCEPT !.messagesDelivered = x] IN
                    /\ DOMAIN m = DOMAIN EmptyState
                    /\ m.conversationNotes = mem.conversationNotes
                    /\ m.issueConversations = mem.issueConversations
               /\ LET m == [mem EXCEPT !.seenNotes = x] IN
                    /\ DOMAIN m = DOMAIN EmptyState
                    /\ m.conversationNotes = mem.conversationNotes
                    /\ m.issueConversations = mem.issueConversations
    BY <1>1
  <2> QED
    BY <2>1 DEF MarkDelivered, MarkMessageDelivered, MarkSeenNote
<1> QED
  BY <1>2, SavedBindings DEF Keeps

-----------------------------------------------------------------------------
(* Who writes the bindings. *)

PassBinds ==
  /\ pc = "bind" /\ Bind
  /\ \E ok \in BOOLEAN : Binds(job.conv, job.note) /\ Filed(ok) /\ (~ok => PassOver)

PassLinks ==
  /\ pc = "link" /\ Link
  /\ \E ok \in BOOLEAN : Links(job.note, job.conv) /\ Filed(ok) /\ (~ok => PassOver)

\* A step of the pass leaves the bindings alone, but at the two points where
\* it writes them (bridge.go:242-248, 269-275).
LEMMA PassBindings ==
  ASSUME TypeOK, PassStep
  PROVE  \/ Keeps /\ disk' \in {disk, mem'} /\ pc \notin {"bind", "link"}
         \/ PassBinds
         \/ PassLinks
<1>0. StateOK(mem)
  BY TypeFacts
<1>1. UNCHANGED <<mem, disk>> => Keeps /\ disk' \in {disk, mem'}
  BY DEF Keeps
<1>2. \A ok \in BOOLEAN : Filed(ok) => disk' \in {disk, mem'}
  BY DEF Filed
<1>3. CASE Looking
  <2>1. pc \notin {"bind", "link"}
    BY <1>3 DEF Looking, FetchMessages, FetchOutbox, OutboxesDone, ExplicitKey, ExplicitDone,
                TitlePair, TitleDone, SkipMessage, ForwardDone, SkipComment, NextComment,
                ReverseDone
  <2> QED
    BY <1>1, <1>3, <2>1, LookingStep DEF Quiet
<1>4. CASE Bind
  <2>1. PICK ok \in BOOLEAN : /\ SetConversationNote(job.conv, job.note, ok)
                              /\ ~ok => PassOver
    BY <1>4 DEF Bind
  <2>2. pc = "bind"
    BY <1>4 DEF Bind
  <2> QED
    BY <1>0, <1>4, <2>1, <2>2, Mutators DEF PassBinds
<1>5. CASE Link
  <2>1. PICK ok \in BOOLEAN :
          /\ SetIssueConversation(SeriesOf[job.note], UrlOf[job.note], job.conv, ok)
          /\ ~ok => PassOver
    BY <1>5 DEF Link
  <2>2. pc = "link"
    BY <1>5 DEF Link
  <2> QED
    BY <1>0, <1>5, <2>1, <2>2, Mutators DEF PassLinks
<1>6. CASE \/ \E m \in pass.msgs : PickMessage(m)
           \/ \E j \in pass.notes : PickComment(j)
           \/ Reply \/ Post
  BY <1>1, <1>6 DEF PickMessage, PickComment, NextComment, Reply, Post, storeVars
<1>7. CASE MarkMessage \/ MarkHash \/ MarkSeen \/ \E j \in pass.notes : SuppressEcho(j)
  <2>1. pc \notin {"bind", "link"}
    BY <1>7 DEF MarkMessage, MarkHash, MarkSeen, SuppressEcho, NextComment
  <2>2. PICK ok \in BOOLEAN :
          \E series, k : \/ MarkDelivered(k, ok)
                        \/ MarkMessageDelivered(series, k, ok)
                        \/ MarkSeenNote(series, k, ok)
    BY <1>7 DEF MarkMessage, MarkHash, MarkSeen, SuppressEcho
  <2>3. PICK series, k : \/ MarkDelivered(k, ok)
                         \/ MarkMessageDelivered(series, k, ok)
                         \/ MarkSeenNote(series, k, ok)
    BY <2>2
  <2> QED
    BY <1>0, <1>2, <2>1, <2>2, <2>3, RecordsKeepBindings
<1> QED
  BY <1>3, <1>4, <1>5, <1>6, <1>7 DEF PassStep, Looking

OperatorBinds ==
  \E a \in Admins, c \in Conv, n \in Note, ok \in BOOLEAN :
    BindNote(a, c, n) /\ Acknowledge(c, n, ok) /\ Binds(c, n) /\ Filed(ok)

OperatorLinks ==
  \E a \in Admins, ok \in BOOLEAN :
    BindLink(a) /\ Links(request[a].note, request[a].conv) /\ Filed(ok)

OperatorUnbinds ==
  \E a \in Admins, c \in Conv, ok \in BOOLEAN :
    Unbind(a, c) /\ Acknowledge(c, NotBound, ok) /\ Unbinds(c) /\ Filed(ok)

\* What a request does to the bindings (bridge.go:140-156, 165-170).
LEMMA AdminBindings ==
  ASSUME TypeOK, AdminStep
  PROVE  OperatorBinds \/ OperatorLinks \/ OperatorUnbinds
<1>0. StateOK(mem)
  BY TypeFacts
<1>1. ASSUME NEW a \in Admins, NEW c \in Conv, NEW n \in Note, BindNote(a, c, n)
      PROVE  OperatorBinds
  <2>1. PICK ok \in BOOLEAN : SetConversationNote(c, n, ok) /\ Acknowledge(c, n, ok)
    BY <1>1 DEF BindNote
  <2> QED
    BY <1>0, <1>1, <2>1, Mutators DEF OperatorBinds
<1>2. ASSUME NEW a \in Admins, BindLink(a)
      PROVE  OperatorLinks
  <2>1. PICK ok \in BOOLEAN :
          SetIssueConversation(SeriesOf[request[a].note], UrlOf[request[a].note],
                               request[a].conv, ok)
    BY <1>2 DEF BindLink
  <2> QED
    BY <1>0, <1>2, <2>1, Mutators DEF OperatorLinks
<1>3. ASSUME NEW a \in Admins, NEW c \in Conv, Unbind(a, c)
      PROVE  OperatorUnbinds
  <2>1. PICK ok \in BOOLEAN : DeleteConversationNote(c, ok) /\ Acknowledge(c, NotBound, ok)
    BY <1>3 DEF Unbind
  <2> QED
    BY <1>0, <1>3, <2>1, Mutators DEF OperatorUnbinds
<1> QED
  BY <1>1, <1>2, <1>3 DEF AdminStep

\* Every step leaves the bindings alone, loads them, or is one of the five
\* that write them.
LEMMA BindingStep ==
  ASSUME TypeOK, [Next]_vars
  PROVE  \/ /\ Keeps /\ disk' \in {disk, mem'} /\ UNCHANGED adminVars
            /\ (PassStep /\ pc \notin {"bind", "link"}) \/ UNCHANGED passVars
         \/ PassBinds /\ UNCHANGED adminVars
         \/ PassLinks /\ UNCHANGED adminVars
         \/ (OperatorBinds \/ OperatorLinks \/ OperatorUnbinds) /\ UNCHANGED passVars
         \/ Crash
<1>1. CASE PassStep /\ UNCHANGED adminVars
  BY <1>1, PassBindings
<1>2. CASE AdminStep /\ UNCHANGED passVars
  BY <1>2, AdminBindings
<1>3. UNCHANGED vars \/ Tick \/ (Remote /\ UNCHANGED <<storeVars, passVars, adminVars>>) =>
        UNCHANGED <<mem, disk, adminVars, passVars>>
  BY DEF vars, Tick, storeVars, adminVars, passVars
<1> QED
  BY <1>1, <1>2, <1>3 DEF Next, Keeps

\* A crash leaves the file's bindings, no pass and no request.
LEMMA CrashBindings ==
  ASSUME Crash
  PROVE  /\ mem' = disk /\ disk' = disk /\ pc' = "idle" /\ pass' = NoPass
         /\ acked' = acked /\ \A a \in Admins : request'[a] = Idle
  BY DEF Crash, Load, PassOver

-----------------------------------------------------------------------------
(* Without mappings of its own, the pass writes no binding. *)

OperatorsOnly == DOMAIN Explicit = {} /\ AllowTitleMatching = FALSE

NothingToBind == pc \notin {"bind", "link", "title"} /\ pass.keys = {}

\* With no explicit mapping and no title matching the pass does not come to
\* the points where it writes a binding (bridge.go:223-229).
LEMMA NothingToBindStep ==
  ASSUME OperatorsOnly, TypeOK, NothingToBind, [Next]_vars
  PROVE  NothingToBind'
<1>0. pass \in PassLocals
  BY TypeFacts
<1>1. CASE FetchMessages \/ OutboxesDone
  <2>1. CASE FetchMessages
    BY <2>1 DEF FetchMessages, NoPass, NothingToBind
  <2>2. CASE OutboxesDone
    BY <1>0, <2>2 DEF OutboxesDone, Goto, PassLocals, NothingToBind, OperatorsOnly
  <2> QED
    BY <1>1, <2>1, <2>2
<1>2. CASE ExplicitDone \/ ForwardDone \/ ReverseDone
  BY <1>0, <1>2 DEF ExplicitDone, ForwardDone, ReverseDone, PassOver, NoPass, Goto,
                    PassLocals, NothingToBind, OperatorsOnly
<1>7. CASE \/ \E s \in Series : FetchOutbox(s)
           \/ \E m \in pass.msgs : SkipMessage(m) \/ PickMessage(m)
  BY <1>0, <1>7 DEF FetchOutbox, SkipMessage, PickMessage, PassLocals, NothingToBind
<1>8. CASE \E j \in pass.notes : SkipComment(j) \/ PickComment(j)
  BY <1>0, <1>8 DEF SkipComment, PickComment, NextComment, PassLocals, NothingToBind
<1>9. CASE \E j \in pass.notes : SuppressEcho(j)
  <2>1. PICK j \in pass.notes :
          \/ PassOver
          \/ /\ pass' = [pass EXCEPT !.notes = @ \ {j}, !.cur = CommentSeries(j)]
             /\ UNCHANGED <<pc, job>>
    BY <1>9 DEF SuppressEcho
  <2>2. CASE PassOver
    BY <2>2 DEF PassOver, NoPass, NothingToBind
  <2>3. CASE pass' = [pass EXCEPT !.notes = @ \ {j}, !.cur = CommentSeries(j)] /\ pc' = pc
    BY <1>0, <2>3 DEF PassLocals, NothingToBind
  <2> QED
    BY <2>1, <2>2, <2>3
<1>3. CASE \/ \E c \in Conv : ExplicitKey(c)
           \/ \E s \in Series, c \in Conv : TitlePair(s, c)
           \/ TitleDone \/ Bind \/ Link
  BY <1>3 DEF ExplicitKey, TitlePair, TitleDone, Bind, Link, NothingToBind
<1>4. CASE Reply \/ MarkMessage \/ MarkHash \/ Post \/ MarkSeen
  BY <1>0, <1>4 DEF Reply, MarkMessage, MarkHash, Post, MarkSeen, PassOver, NoPass, Goto,
                    PassLocals, NothingToBind
<1>5. UNCHANGED vars \/ UNCHANGED <<storeVars, passVars, adminVars>> \/ Tick \/ UNCHANGED passVars
        => NothingToBind'
  BY DEF vars, Tick, passVars, NothingToBind
<1>6. Crash => NothingToBind'
  BY DEF Crash, PassOver, NoPass, NothingToBind
<1> QED
  BY <1>1, <1>2, <1>3, <1>4, <1>5, <1>6, <1>7, <1>8, <1>9, StepCases DEF Looking

-----------------------------------------------------------------------------
(* What was acknowledged holds. *)

\* The state s has what conversation c was last told.
Told(s, c) ==
  IF acked[c] = NotBound
  THEN c \notin DOMAIN s.conversationNotes
  ELSE c \in DOMAIN s.conversationNotes /\ s.conversationNotes[c] = acked[c]

AckedInv == TypeOK /\ NothingToBind /\ AckedHolds

\* Requests interleave with each other and with the pass, saves fail and the
\* process restarts: each step keeps what was acknowledged, in memory and on
\* file (bridge.go:116-156, 165-170, state.go:133-167).
LEMMA AckedStep ==
  ASSUME OperatorsOnly, AckedInv, [Next]_vars
  PROVE  AckedInv'
<1>0. TypeOK /\ TypeOK' /\ NothingToBind' /\ NotBound \notin Note
      /\ \A c \in DOMAIN acked : Told(mem, c) /\ Told(disk, c)
  BY TypeStep, NothingToBindStep, AdminAssumption DEF AckedInv, AckedHolds, Told
<1>1. ASSUME \A c \in DOMAIN acked' : Told(mem, c)' /\ Told(disk, c)'
      PROVE  AckedInv'
  BY <1>0, <1>1 DEF AckedInv, AckedHolds, Told
<1>2. ASSUME mem'.conversationNotes = mem.conversationNotes, disk' \in {disk, mem'},
             acked' = acked
      PROVE  AckedInv'
  BY <1>0, <1>1, <1>2 DEF Told
<1>3. ASSUME NEW c \in Conv, NEW what, NEW ok \in BOOLEAN,
             Acknowledge(c, what, ok), Filed(ok),
             IF what = NotBound
               THEN c \notin DOMAIN mem'.conversationNotes
               ELSE c \in DOMAIN mem'.conversationNotes /\ mem'.conversationNotes[c] = what,
             \A x : x # c =>
               /\ x \in DOMAIN mem'.conversationNotes <=> x \in DOMAIN mem.conversationNotes
               /\ x \in DOMAIN mem.conversationNotes =>
                    mem'.conversationNotes[x] = mem.conversationNotes[x]
      PROVE  AckedInv'
  <2>1. CASE ok
    <3>1. disk' = mem' /\ DOMAIN acked' = DOMAIN acked \cup {c} /\ acked'[c] = what
          /\ \A x \in DOMAIN acked : x # c => acked'[x] = acked[x]
      BY <1>3, <2>1 DEF Acknowledge, Filed, Put
    <3>2. \A x \in DOMAIN acked' : Told(mem, x)'
      BY <1>0, <1>3, <3>1 DEF Told
    <3> QED
      BY <1>1, <3>1, <3>2 DEF Told
  <2>2. CASE ~ok
    <3>1. disk' = disk /\ DOMAIN acked' = DOMAIN acked \ {c}
          /\ \A x \in DOMAIN acked' : acked'[x] = acked[x]
      BY <1>3, <2>2 DEF Acknowledge, Filed, Restrict
    <3>2. \A x \in DOMAIN acked' : Told(mem, x)' /\ Told(disk, x)'
      BY <1>0, <1>3, <3>1 DEF Told
    <3> QED
      BY <1>1, <3>2
  <2> QED
    BY <2>1, <2>2
<1>4. CASE Keeps /\ disk' \in {disk, mem'} /\ UNCHANGED adminVars
  BY <1>2, <1>4 DEF Keeps, adminVars
<1>5. CASE OperatorBinds
  <2>1. PICK a \in Admins, c \in Conv, n \in Note, ok \in BOOLEAN :
          Acknowledge(c, n, ok) /\ Binds(c, n) /\ Filed(ok)
    BY <1>5 DEF OperatorBinds
  <2>2. /\ c \in DOMAIN mem'.conversationNotes /\ mem'.conversationNotes[c] = n
        /\ n # NotBound
    BY <1>0, <2>1 DEF Binds, Put
  <2>3. \A x : x # c =>
          /\ x \in DOMAIN mem'.conversationNotes <=> x \in DOMAIN mem.conversationNotes
          /\ x \in DOMAIN mem.conversationNotes =>
               mem'.conversationNotes[x] = mem.conversationNotes[x]
    BY <2>1 DEF Binds, Put
  <2> QED
    BY <1>3, <2>1, <2>2, <2>3
<1>6. CASE OperatorLinks
  BY <1>2, <1>6 DEF OperatorLinks, BindLink, Links, Filed
<1>7. CASE OperatorUnbinds
  <2>1. PICK a \in Admins, c \in Conv, ok \in BOOLEAN :
          Acknowledge(c, NotBound, ok) /\ Unbinds(c) /\ Filed(ok)
    BY <1>7 DEF OperatorUnbinds
  <2>2. /\ c \notin DOMAIN mem'.conversationNotes
        /\ \A x : x # c =>
             /\ x \in DOMAIN mem'.conversationNotes <=> x \in DOMAIN mem.conversationNotes
             /\ x \in DOMAIN mem.conversationNotes =>
                  mem'.conversationNotes[x] = mem.conversationNotes[x]
    BY <2>1 DEF Unbinds, Restrict
  <2> QED
    BY <1>3, <2>1, <2>2
<1>8. CASE Crash
  BY <1>0, <1>1, <1>8, CrashBindings DEF Told
<1>9. ~PassBinds /\ ~PassLinks
  BY DEF AckedInv, NothingToBind, PassBinds, PassLinks
<1> QED
  BY <1>0, <1>4, <1>5, <1>6, <1>7, <1>8, <1>9, BindingStep

\* What the admin API has acknowledged is what the process uses and what a
\* restart finds, however many requests and passes overlap and whatever
\* fails, as long as only operators bind: the pass's own mappings may
\* overwrite a Bind that comes between its read and its write
\* (bridge.go:116-119, 241-245).
THEOREM AcknowledgedHolds ==
  ASSUME OperatorsOnly
  PROVE  Spec => []AckedHolds
<1>1. Init => AckedInv
  BY TypeInit DEF AckedInv, AckedHolds, NothingToBind, Init, PassInit, NoPass, AdminInit, EmptyMap
<1>2. AckedInv /\ [Next]_vars => AckedInv'
  BY AckedStep
<1>3. AckedInv => AckedHolds
  BY DEF AckedInv
<1> QED
  BY <1>1, <1>2, <1>3, PTL DEF Spec

-----------------------------------------------------------------------------
(* How the pass comes to write a binding or a link. *)

ExplicitJob(c) == [conv |-> c, note |-> Explicit[c], back |-> "explicit"]
TitleJob(s, c) == [conv |-> c, note |-> TitleMatch[<<s, c>>], back |-> "title"]

\* The pass comes to bind a conversation it has found unbound, and to link
\* one it has found or made bound (bridge.go:241-252, 262-275).
LEMMA BindPoints ==
  ASSUME TypeOK, PassStep
  PROVE  /\ pc' = "bind" =>
              \/ /\ pc = "explicit" /\ \E c \in pass.keys :
                      job' = ExplicitJob(c) /\ ~HasNote(c) /\ pass'.keys = pass.keys \ {c}
              \/ /\ pc = "title" /\ pass'.keys = pass.keys
                 /\ \E s \in Series, c \in Conv :
                      job' = TitleJob(s, c) /\ TitleMatch[<<s, c>>] # NoNote /\ ~HasNote(c)
         /\ pc' = "link" =>
              \/ /\ pc = "explicit" /\ \E c \in pass.keys :
                      job' = ExplicitJob(c) /\ HasNote(c) /\ pass'.keys = pass.keys \ {c}
              \/ pc = "bind" /\ job' = job /\ pass' = pass
<1>0. pass \in PassLocals /\ JobOK
  BY TypeFacts
<1>1. CASE \E c \in Conv : ExplicitKey(c)
  <2>1. PICK c \in Conv : ExplicitKey(c)
    BY <1>1
  <2>2. CASE PassOver
    BY <2>2 DEF PassOver
  <2>3. CASE /\ pass' = [pass EXCEPT !.keys = @ \ {c}]
             /\ IF HasNote(c)
                THEN IF Relink(c) THEN pc' = "link" /\ job' = ExplicitJob(c)
                     ELSE Goto("explicit")
                ELSE pc' = "bind" /\ job' = ExplicitJob(c)
    BY <1>0, <2>1, <2>3 DEF ExplicitKey, Goto, PassLocals
  <2> QED
    BY <2>1, <2>2, <2>3 DEF ExplicitKey, ExplicitJob
<1>2. CASE \E s \in Series, c \in Conv : TitlePair(s, c)
  <2>1. PICK s \in Series, c \in Conv : TitlePair(s, c)
    BY <1>2
  <2>2. /\ pc = "title" /\ pass' = [pass EXCEPT !.pairs = @ \ {<<s, c>>}, !.cur = s]
        /\ \/ pc' = "bind" /\ job' = TitleJob(s, c) /\ TitleWanted(s, c)
           \/ pc' = "title"
    BY <2>1 DEF TitlePair, TitleJob, Goto
  <2>3. pass'.keys = pass.keys
    BY <1>0, <2>2 DEF PassLocals
  <2> QED
    BY <2>2, <2>3 DEF TitleWanted
<1>3. CASE Bind
  <2>1. job \in BindJob /\ pc = "bind"
    BY <1>0, <1>3 DEF Bind, JobOK
  <2>2. \/ PassOver
        \/ pass' = pass /\ ((pc' = "link" /\ job' = job) \/ Goto(job.back))
    BY <1>3 DEF Bind
  <2> QED
    BY <2>1, <2>2 DEF PassOver, Goto, BindJob
<1>4. CASE Link
  <2>1. job \in BindJob
    BY <1>0, <1>4 DEF Link, JobOK
  <2>2. PassOver \/ Goto(job.back)
    BY <1>4 DEF Link
  <2> QED
    BY <2>1, <2>2 DEF PassOver, Goto, BindJob
<1>5. CASE \/ FetchMessages \/ OutboxesDone \/ ExplicitDone \/ TitleDone \/ ForwardDone
           \/ ReverseDone \/ \E s \in Series : FetchOutbox(s)
  BY <1>5 DEF FetchMessages, OutboxesDone, ExplicitDone, TitleDone, ForwardDone,
              ReverseDone, FetchOutbox, PassOver, Goto
<1>6. CASE \/ \E m \in pass.msgs : SkipMessage(m) \/ PickMessage(m)
           \/ \E j \in pass.notes : SkipComment(j) \/ SuppressEcho(j) \/ PickComment(j)
  BY <1>6 DEF SkipMessage, PickMessage, SkipComment, SuppressEcho, PickComment,
              NextComment, PassOver
<1>7. CASE Reply \/ MarkMessage \/ MarkHash \/ Post \/ MarkSeen
  BY <1>7 DEF Reply, MarkMessage, MarkHash, Post, MarkSeen, PassOver, Goto
<1> QED
  BY <1>1, <1>2, <1>3, <1>4, <1>5, <1>6, <1>7 DEF PassStep

\* The loop the pass is in: a binding and its link are part of the loop they
\* go back to.
Loop == IF pc \in {"bind", "link"} THEN job.back ELSE pc

\* The explicit mappings are visited one by one, each is found bound or about
\* to be bound, and title matching comes after all of them
\* (bridge.go:222-229, 236-241).
LEMMA LoopStep ==
  ASSUME TypeOK, [Next]_vars
  PROVE  /\ pass'.keys \subseteq pass.keys \/ pass'.keys = DOMAIN Explicit
         /\ Loop' = "explicit" =>
              \/ pass'.keys = DOMAIN Explicit
              \/ /\ Loop = "explicit"
                 /\ \A c \in pass.keys \ pass'.keys :
                      HasNote(c) \/ (pc' = "bind" /\ job'.conv = c)
         /\ Loop' = "title" => Loop = "title" \/ (pc = "explicit" /\ pass.keys = {})
<1>0. pass \in PassLocals /\ JobOK
  BY TypeFacts
<1> DEFINE Elsewhere == Loop' \notin {"explicit", "title"} /\ pass'.keys \subseteq pass.keys
<1>1. CASE PassOver
  BY <1>1 DEF PassOver, NoPass, Loop
<1>2. CASE FetchMessages \/ OutboxesDone
  <2>1. CASE FetchMessages
    BY <2>1 DEF FetchMessages, NoPass, Loop
  <2>2. CASE OutboxesDone
    BY <1>0, <2>2 DEF OutboxesDone, Goto, PassLocals, Loop
  <2> QED
    BY <1>2, <2>1, <2>2
<1>3. CASE ExplicitDone \/ TitleDone \/ ForwardDone \/ ReverseDone
  BY <1>0, <1>1, <1>3 DEF ExplicitDone, TitleDone, ForwardDone, ReverseDone, Goto,
                          PassLocals, Loop
<1>4. CASE \E c \in Conv : ExplicitKey(c)
  <2>1. PICK c \in Conv : ExplicitKey(c)
    BY <1>4
  <2>2. CASE /\ pc = "explicit" /\ pass' = [pass EXCEPT !.keys = @ \ {c}]
             /\ \/ HasNote(c)
                \/ pc' = "bind" /\ job' = ExplicitJob(c)
    <3>1. pass'.keys = pass.keys \ {c} /\ Loop = "explicit"
      BY <1>0, <2>2 DEF PassLocals, Loop
    <3>2. Loop' # "title"
      BY <2>1 DEF ExplicitKey, PassOver, Goto, Loop
    <3> QED
      BY <2>2, <3>1, <3>2 DEF ExplicitJob
  <2> QED
    BY <1>1, <2>1, <2>2 DEF ExplicitKey, ExplicitJob
<1>5. CASE \E s \in Series, c \in Conv : TitlePair(s, c)
  <2>1. PICK s \in Series, c \in Conv : TitlePair(s, c)
    BY <1>5
  <2>2. /\ pc = "title" /\ pass' = [pass EXCEPT !.pairs = @ \ {<<s, c>>}, !.cur = s]
        /\ \/ pc' = "bind" /\ job' = TitleJob(s, c)
           \/ pc' = "title"
    BY <2>1 DEF TitlePair, TitleJob, Goto
  <2> QED
    BY <1>0, <2>2 DEF PassLocals, Loop, TitleJob
<1>6. CASE Bind \/ Link
  <2>1. job \in BindJob /\ Loop = job.back
    BY <1>0, <1>6 DEF Bind, Link, JobOK, Loop
  <2>2. \/ PassOver
        \/ pass' = pass /\ ((pc' = "link" /\ job' = job) \/ Goto(job.back))
    BY <1>6 DEF Bind, Link
  <2> QED
    BY <1>1, <2>1, <2>2 DEF Goto, BindJob, Loop
<1>7. CASE \E s \in Series : FetchOutbox(s)
  BY <1>0, <1>7 DEF FetchOutbox, PassLocals, Loop
<1>8. CASE \E m \in pass.msgs : SkipMessage(m) \/ PickMessage(m)
  BY <1>0, <1>8 DEF SkipMessage, PickMessage, PassLocals, Loop
<1>9. CASE \E j \in pass.notes : SkipComment(j) \/ SuppressEcho(j) \/ PickComment(j)
  <2>1. PICK j \in pass.notes :
          \/ PassOver
          \/ /\ pass' = [pass EXCEPT !.notes = @ \ {j}, !.cur = CommentSeries(j)]
             /\ pc = "reverse" /\ pc' \in {"reverse", "post"}
    BY <1>9 DEF SkipComment, SuppressEcho, PickComment, NextComment
  <2>2. CASE /\ pass' = [pass EXCEPT !.notes = @ \ {j}, !.cur = CommentSeries(j)]
             /\ pc = "reverse" /\ pc' \in {"reverse", "post"}
    BY <1>0, <2>2 DEF PassLocals, Loop
  <2> QED
    BY <1>1, <2>1, <2>2
<1>10. CASE Reply \/ MarkMessage \/ MarkHash \/ Post \/ MarkSeen
  BY <1>0, <1>1, <1>10 DEF Reply, MarkMessage, MarkHash, Post, MarkSeen, Goto, PassLocals, Loop
<1>11. UNCHANGED vars \/ Tick => UNCHANGED passVars
  BY DEF vars, Tick, passVars
<1>12. CASE UNCHANGED passVars
  BY <1>12 DEF passVars, Loop
<1>13. Crash => PassOver
  BY DEF Crash
<1> QED
  BY <1>1, <1>2, <1>3, <1>4, <1>5, <1>6, <1>7, <1>8, <1>9, <1>10, <1>11, <1>12, <1>13,
     StepCases DEF Looking, passVars

-----------------------------------------------------------------------------
(* No link without a binding. *)

\* Either only the pass writes bindings, or only one operator at a time.
OneWriter == Admins = {} \/ (OperatorsOnly /\ \E a : Admins = {a})

\* The strengthening of LinkedIsBound: what is about to be linked is bound.
LinkedInv ==
  /\ TypeOK
  /\ OperatorsOnly => NothingToBind
  /\ LinkedIsBound
  /\ pc = "link" => HasNote(job.conv)
  /\ \A a \in Admins : request[a] # Idle => HasNote(request[a].conv)

\* Every link of the state s is to a conversation that is bound.
Anchored(s) ==
  \A u \in DOMAIN s.issueConversations :
    s.issueConversations[u] \in DOMAIN s.conversationNotes

\* With one writer nothing is unbound between a binding and its link, and a
\* step that removes a binding removes the links to it (state.go:202-215).
LEMMA LinkedStep ==
  ASSUME OneWriter, LinkedInv, [Next]_vars
  PROVE  LinkedInv'
<1>0. /\ TypeOK /\ TypeOK' /\ JobOK /\ (OperatorsOnly => NothingToBind')
      /\ Anchored(mem) /\ Anchored(disk)
      /\ request \in [Admins -> {Idle} \cup [conv : Conv, note : Note]]
  BY TypeStep, TypeFacts, NothingToBindStep
  DEF LinkedInv, LinkedIsBound, Anchored, TypeOK, AdminOK
<1>1. ASSUME Anchored(mem)', disk' \in {disk, mem'},
             pc' = "link" => HasNote(job.conv)',
             \A a \in Admins : request'[a] # Idle => HasNote(request[a].conv)'
      PROVE  LinkedInv'
  BY <1>0, <1>1 DEF LinkedInv, LinkedIsBound, Anchored
<1>2. \A ok \in BOOLEAN : Filed(ok) => disk' \in {disk, mem'}
  BY DEF Filed
<1>3. CASE /\ Keeps /\ disk' \in {disk, mem'} /\ UNCHANGED adminVars
           /\ (PassStep /\ pc \notin {"bind", "link"}) \/ UNCHANGED passVars
  <2>1. Anchored(mem)' /\ \A c : HasNote(c)' <=> HasNote(c)
    BY <1>0, <1>3 DEF Anchored, Keeps, HasNote
  <2>2. \A a \in Admins : request'[a] # Idle => HasNote(request[a].conv)'
    BY <1>3, <2>1 DEF adminVars, LinkedInv, HasNote
  <2>3. pc' = "link" => HasNote(job.conv)'
    <3>1. CASE UNCHANGED passVars
      BY <2>1, <3>1 DEF passVars, LinkedInv, HasNote
    <3>2. CASE PassStep /\ pc \notin {"bind", "link"}
      BY <1>0, <2>1, <3>2, BindPoints DEF HasNote, ExplicitJob
    <3> QED
      BY <1>3, <3>1, <3>2
  <2> QED
    BY <1>1, <1>3, <2>1, <2>2, <2>3
<1>4. CASE PassBinds /\ UNCHANGED adminVars
  <2>1. PICK ok \in BOOLEAN : Binds(job.conv, job.note) /\ Filed(ok)
    BY <1>4 DEF PassBinds
  <2>2. /\ \A c : HasNote(c)' <=> (HasNote(c) \/ c = job.conv)
        /\ mem'.issueConversations = mem.issueConversations
    BY <2>1 DEF Binds, Put, HasNote
  <2>3. Anchored(mem)'
    BY <1>0, <2>2 DEF Anchored, HasNote
  <2>4. pc' = "link" => HasNote(job.conv)'
    <3>1. Bind /\ pc = "bind"
      BY <1>4 DEF PassBinds
    <3>2. pc' = "link" => job' = job
      BY <1>0, <3>1, BindPoints DEF PassStep
    <3> QED
      BY <2>2, <3>2 DEF HasNote
  <2>5. \A a \in Admins : request'[a] # Idle => HasNote(request[a].conv)'
    BY <1>4, <2>2 DEF adminVars, LinkedInv, HasNote
  <2> QED
    BY <1>1, <1>2, <2>1, <2>3, <2>4, <2>5
<1>5. CASE PassLinks /\ UNCHANGED adminVars
  <2>1. PICK ok \in BOOLEAN : Links(job.note, job.conv) /\ Filed(ok)
    BY <1>5 DEF PassLinks
  <2>2. pc = "link" /\ Link
    BY <1>5 DEF PassLinks
  <2>3. Anchored(mem)' /\ mem'.conversationNotes = mem.conversationNotes
    BY <1>0, <2>1, <2>2 DEF Links, Put, Anchored, LinkedInv, HasNote
  <2>4. pc' # "link"
    BY <1>0, <2>2, BindPoints DEF PassStep
  <2> QED
    BY <1>1, <1>2, <1>5, <2>1, <2>3, <2>4 DEF adminVars, LinkedInv, HasNote
<1>6. CASE OperatorBinds /\ UNCHANGED passVars
  <2>1. PICK a \in Admins, c \in Conv, n \in Note, ok \in BOOLEAN :
          BindNote(a, c, n) /\ Binds(c, n) /\ Filed(ok)
    BY <1>6 DEF OperatorBinds
  <2>2. /\ \A x : HasNote(x)' <=> (HasNote(x) \/ x = c)
        /\ mem'.issueConversations = mem.issueConversations
    BY <2>1 DEF Binds, Put, HasNote
  <2>3. Anchored(mem)'
    BY <1>0, <2>2 DEF Anchored, HasNote
  <2>4. request' \in {request, [request EXCEPT ![a] = [conv |-> c, note |-> n]]}
    BY <2>1 DEF BindNote
  <2>5. \A b \in Admins : request'[b] # Idle => HasNote(request[b].conv)'
    BY <1>0, <2>2, <2>4 DEF LinkedInv, HasNote
  <2> QED
    BY <1>1, <1>2, <1>6, <2>1, <2>2, <2>3, <2>5 DEF passVars, LinkedInv, HasNote
<1>7. CASE OperatorLinks /\ UNCHANGED passVars
  <2>1. PICK a \in Admins, ok \in BOOLEAN :
          BindLink(a) /\ Links(request[a].note, request[a].conv) /\ Filed(ok)
    BY <1>7 DEF OperatorLinks
  <2>2. HasNote(request[a].conv) /\ request' = [request EXCEPT ![a] = Idle]
    BY <2>1 DEF BindLink, LinkedInv
  <2>3. Anchored(mem)' /\ mem'.conversationNotes = mem.conversationNotes
    BY <1>0, <2>1, <2>2 DEF Links, Put, Anchored, HasNote
  <2>4. \A b \in Admins : request'[b] # Idle => HasNote(request[b].conv)'
    BY <1>0, <2>2, <2>3 DEF LinkedInv, HasNote
  <2> QED
    BY <1>1, <1>2, <1>7, <2>1, <2>3, <2>4 DEF passVars, LinkedInv, HasNote
<1>8. CASE OperatorUnbinds /\ UNCHANGED passVars
  <2>1. PICK a \in Admins, c \in Conv, ok \in BOOLEAN :
          Unbind(a, c) /\ Unbinds(c) /\ Filed(ok)
    BY <1>8 DEF OperatorUnbinds
  <2>2. Anchored(mem)'
    BY <1>0, <2>1 DEF Unbinds, Restrict, Anchored
  <2>3. \A b \in Admins : request'[b] = Idle
    BY <2>1 DEF Unbind, OneWriter
  <2>4. pc' # "link"
    BY <1>0, <2>1 DEF OneWriter, NothingToBind
  <2> QED
    BY <1>1, <1>2, <2>1, <2>2, <2>3, <2>4
<1>9. CASE Crash
  BY <1>0, <1>1, <1>9, CrashBindings DEF Anchored
<1> QED
  BY <1>0, <1>3, <1>4, <1>5, <1>6, <1>7, <1>8, <1>9, BindingStep

\* No issue is linked to a conversation that is not bound, in memory or on
\* file, whatever fails, as long as nobody unbinds between the two saves of
\* another's binding: a Bind and an Unbind at the same time can leave such a
\* link (bridge.go:140-156, state.go:202-215).
THEOREM LinksAreAnchored ==
  ASSUME OneWriter
  PROVE  Spec => []LinkedIsBound
<1>1. Init => LinkedInv
  BY TypeInit DEF LinkedInv, LinkedIsBound, NothingToBind, Init, StateInit, PassInit, NoPass,
                  AdminInit, EmptyState, EmptyMap
<1>2. LinkedInv /\ [Next]_vars => LinkedInv'
  BY LinkedStep
<1>3. LinkedInv => LinkedIsBound
  BY DEF LinkedInv
<1> QED
  BY <1>1, <1>2, <1>3, PTL DEF Spec

-----------------------------------------------------------------------------
(* Replies go where Graft takes them. *)

\* The configured mappings name issues and patches; the code does not check
\* that they do.
ExplicitReplyable ==
  \A c \in DOMAIN Explicit : Explicit[c] \in Note => Explicit[c] \in Replyable

\* The bindings of the state s are to issues and patches.
ToReplyable(s) ==
  \A c \in DOMAIN s.conversationNotes : s.conversationNotes[c] \in Replyable

\* The strengthening of RepliesOnlyToReplyable: so are all bindings, the one
\* that the pass is about to write, and the one it replies along.
ReplyableInv ==
  /\ TypeOK
  /\ pass.keys \subseteq DOMAIN Explicit
  /\ ToReplyable(mem) /\ ToReplyable(disk)
  /\ pc \in {"bind", "reply"} => job.note \in Replyable
  /\ RepliesOnlyToReplyable

\* Bind checks the kind of the note, a title is matched against issues only,
\* and a reply goes along the binding the pass has read (bridge.go:130-136,
\* 310-322, note.go:105).
LEMMA ReplyableStep ==
  ASSUME ExplicitReplyable, ReplyableInv, [Next]_vars
  PROVE  ReplyableInv'
<1>0. TypeOK /\ TypeOK' /\ JobOK' /\ pass'.keys \subseteq DOMAIN Explicit
  BY TypeStep, LoopStep DEF ReplyableInv, TypeOK
<1>1. \A ok \in BOOLEAN : Filed(ok) => disk' \in {disk, mem'}
  BY DEF Filed
<1>2. ToReplyable(mem)' /\ ToReplyable(disk)'
  <2>1. ASSUME NEW c, NEW n \in Replyable, Binds(c, n) PROVE ToReplyable(mem)'
    BY <2>1 DEF Binds, Put, ToReplyable, ReplyableInv
  <2>2. CASE Keeps /\ disk' \in {disk, mem'}
    BY <2>2 DEF Keeps, ToReplyable, ReplyableInv
  <2>3. CASE PassBinds
    BY <1>1, <2>1, <2>3 DEF PassBinds, ReplyableInv, ToReplyable
  <2>4. CASE PassLinks \/ OperatorLinks
    BY <1>1, <2>4 DEF PassLinks, OperatorLinks, Links, ReplyableInv, ToReplyable
  <2>5. CASE OperatorBinds
    BY <1>1, <2>1, <2>5 DEF OperatorBinds, BindNote, Acceptable, ReplyableInv, ToReplyable
  <2>6. CASE OperatorUnbinds
    BY <1>1, <2>6 DEF OperatorUnbinds, Unbinds, Restrict, ReplyableInv, ToReplyable
  <2>7. CASE Crash
    BY <2>7, CrashBindings DEF ReplyableInv, ToReplyable
  <2> QED
    BY <1>0, <2>2, <2>3, <2>4, <2>5, <2>6, <2>7, BindingStep
<1>3. pc' = "reply" => job'.note \in Replyable
  BY <1>0, PointStep DEF Stays, HasNote, ReplyableInv, ToReplyable
<1>4. pc' = "bind" => job'.note \in Replyable
  <2>1. CASE PassStep
    <3>1. \A s \in Series, c \in Conv :
            TitleMatch[<<s, c>>] # NoNote => TitleMatch[<<s, c>>] \in Replyable
      BY PassAssumption
    <3>2. pc' = "bind" => job'.note \in Note
      BY <1>0 DEF JobOK, BindJob
    <3>3. pc' = "bind" =>
            \/ \E c \in DOMAIN Explicit : job' = ExplicitJob(c)
            \/ \E s \in Series, c \in Conv :
                 job' = TitleJob(s, c) /\ TitleMatch[<<s, c>>] # NoNote
      BY <1>0, <2>1, BindPoints DEF ReplyableInv
    <3>4. ASSUME NEW c \in DOMAIN Explicit, job' = ExplicitJob(c), job'.note \in Note
          PROVE  job'.note \in Replyable
      BY <3>4 DEF ExplicitJob, ExplicitReplyable
    <3>5. ASSUME NEW s \in Series, NEW c \in Conv,
                 job' = TitleJob(s, c), TitleMatch[<<s, c>>] # NoNote
          PROVE  job'.note \in Replyable
      BY <3>1, <3>5 DEF TitleJob
    <3> QED
      BY <3>2, <3>3, <3>4, <3>5
  <2>2. CASE UNCHANGED passVars
    BY <2>2 DEF passVars, ReplyableInv
  <2>3. Crash => pc' = "idle"
    BY CrashBindings
  <2>4. ~PassStep => UNCHANGED passVars \/ Crash
    BY DEF Next, vars, passVars, Tick
  <2> QED
    BY <2>1, <2>2, <2>3, <2>4
<1>5. RepliesOnlyToReplyable'
  BY <1>0, LogStep DEF Extends, JobReply, ReplyableInv, RepliesOnlyToReplyable
<1> QED
  BY <1>0, <1>2, <1>3, <1>4, <1>5 DEF ReplyableInv

\* "Replies to commit notes are dropped by Graft, so the bridge doesn't send
\* them" (README.md:42-43), however bindings change under a pass, provided
\* the configured mappings name no commit.
THEOREM RepliesAreTaken ==
  ASSUME ExplicitReplyable
  PROVE  Spec => []RepliesOnlyToReplyable
<1>1. Init => ReplyableInv
  BY TypeInit DEF ReplyableInv, ToReplyable, RepliesOnlyToReplyable, Init, StateInit,
                  PassInit, NoPass, RemotesInit, EmptyState, EmptyMap
<1>2. ReplyableInv /\ [Next]_vars => ReplyableInv'
  BY ReplyableStep
<1>3. ReplyableInv => RepliesOnlyToReplyable
  BY DEF ReplyableInv
<1> QED
  BY <1>1, <1>2, <1>3, PTL DEF Spec

-----------------------------------------------------------------------------
(* The configured mappings come first, and a binding sticks. *)

\* The bindings of the state s are those configured, where one is, and its
\* links go to conversations bound to a note of the issue.
Fits(s) ==
  /\ \A c \in DOMAIN Explicit \cap DOMAIN s.conversationNotes :
       s.conversationNotes[c] = Explicit[c]
  /\ \A u \in DOMAIN s.issueConversations :
       /\ s.issueConversations[u] \in DOMAIN s.conversationNotes
       /\ u = NoteIssue(s.conversationNotes[s.issueConversations[u]])

\* A restart finds no binding the process does not have.
FileIsOlder ==
  \A c \in DOMAIN disk.conversationNotes : BoundTo(c, disk.conversationNotes[c])

\* The pass has dealt with an explicit mapping, or is doing so.
Settled(c) == HasNote(c) \/ (pc = "bind" /\ c = job.conv)

\* The strengthening of BindingSticks and MirroredWhereBound: explicit
\* mappings are bound before a title is looked at, and what the pass is about
\* to bind or link is still free or bound as it was when the pass looked.
FirstInv ==
  /\ TypeOK
  /\ Fits(mem) /\ Fits(disk) /\ FileIsOlder
  /\ pass.keys \subseteq DOMAIN Explicit
  /\ Loop = "explicit" => \A c \in DOMAIN Explicit \ pass.keys : Settled(c)
  /\ Loop = "title" => \A c \in DOMAIN Explicit : HasNote(c)
  /\ pc = "bind" => ~HasNote(job.conv)
  /\ pc = "link" => BoundTo(job.conv, job.note)
  /\ pc \in {"bind", "link"} /\ job.back = "explicit" =>
       job.conv \in DOMAIN Explicit /\ job.note = Explicit[job.conv]

\* Without operators no step but a crash unbinds anything, and a crash ends
\* the pass (bridge.go:241-248, 262-275).
LEMMA OnlyThePassBinds ==
  ASSUME Admins = {}, FirstInv, [Next]_vars
  PROVE  \/ /\ Keeps /\ disk' \in {disk, mem'}
            /\ (PassStep /\ pc \notin {"bind", "link"}) \/ UNCHANGED passVars
         \/ PassBinds
         \/ PassLinks
         \/ Crash
<1>1. ~OperatorBinds /\ ~OperatorLinks /\ ~OperatorUnbinds
  BY DEF OperatorBinds, OperatorLinks, OperatorUnbinds
<1> QED
  BY <1>1, BindingStep DEF FirstInv

\* A note the pass binds is bound to a conversation that had none, and to the
\* configured one where one is (bridge.go:236-248, 259-275).
LEMMA FirstStateStep ==
  ASSUME Admins = {}, FirstInv, [Next]_vars
  PROVE  /\ Fits(mem)' /\ Fits(disk)' /\ FileIsOlder'
         /\ ~Crash => \A c \in DOMAIN mem.conversationNotes :
                        /\ c \in DOMAIN mem'.conversationNotes
                        /\ mem'.conversationNotes[c] = mem.conversationNotes[c]
         /\ PassBinds => /\ job.conv \in DOMAIN mem'.conversationNotes
                         /\ mem'.conversationNotes[job.conv] = job.note
<1>0. TypeOK /\ JobOK /\ StateOK(mem) /\ StateOK(disk)
  BY TypeFacts DEF FirstInv
<1>1. \A ok \in BOOLEAN : Filed(ok) => disk' \in {disk, mem'}
  BY DEF Filed
<1>2. CASE Keeps /\ disk' \in {disk, mem'} /\ ~PassBinds
  BY <1>2 DEF Keeps, FirstInv, Fits, FileIsOlder, BoundTo, HasNote
<1>3. CASE PassBinds
  <2>1. PICK ok \in BOOLEAN : Binds(job.conv, job.note) /\ Filed(ok)
    BY <1>3 DEF PassBinds
  <2>2. pc = "bind" /\ job \in BindJob /\ ~HasNote(job.conv)
    BY <1>0, <1>3 DEF PassBinds, JobOK, FirstInv
  <2>3. /\ DOMAIN mem'.conversationNotes = DOMAIN mem.conversationNotes \cup {job.conv}
        /\ mem'.conversationNotes[job.conv] = job.note
        /\ \A c \in DOMAIN mem.conversationNotes :
             mem'.conversationNotes[c] = mem.conversationNotes[c]
        /\ mem'.issueConversations = mem.issueConversations
    BY <2>1, <2>2 DEF Binds, Put, HasNote
  <2>4. job.conv \in DOMAIN Explicit => job.note = Explicit[job.conv]
    <3>1. job.back = "explicit" \/ job.back = "title"
      BY <2>2 DEF BindJob
    <3>2. job.back = "title" => \A c \in DOMAIN Explicit : HasNote(c)
      BY <2>2 DEF FirstInv, Loop
    <3> QED
      BY <2>2, <3>1, <3>2 DEF FirstInv
  <2>5. Fits(mem)'
    BY <2>3, <2>4 DEF FirstInv, Fits
  <2>6. FileIsOlder' /\ Fits(disk)'
    BY <1>1, <2>1, <2>3, <2>5 DEF FirstInv, Fits, FileIsOlder, BoundTo, HasNote
  <2> QED
    BY <2>3, <2>5, <2>6
<1>4. CASE PassLinks /\ ~PassBinds
  <2>1. PICK ok \in BOOLEAN : Links(job.note, job.conv) /\ Filed(ok)
    BY <1>4 DEF PassLinks
  <2>2. BoundTo(job.conv, job.note) /\ pc = "link"
    BY <1>4 DEF PassLinks, FirstInv
  <2>3. Fits(mem)' /\ mem'.conversationNotes = mem.conversationNotes
    BY <2>1, <2>2 DEF Links, Put, FirstInv, Fits, BoundTo, HasNote
  <2> QED
    BY <1>1, <1>4, <2>1, <2>2, <2>3 DEF FirstInv, Fits, FileIsOlder, BoundTo, HasNote
<1>5. CASE Crash /\ ~PassBinds
  BY <1>5, CrashBindings DEF FirstInv, Fits, FileIsOlder, BoundTo, HasNote
<1> QED
  BY <1>2, <1>3, <1>4, <1>5, OnlyThePassBinds

\* The pass comes to bind a conversation it has found unbound, or to link one
\* that is bound, and visits every explicit mapping before the first title
\* (bridge.go:223-229, 236-248, 259-275).
LEMMA FirstPassStep ==
  ASSUME Admins = {}, FirstInv, [Next]_vars
  PROVE  FirstInv'
<1>0. /\ TypeOK /\ TypeOK' /\ JobOK /\ JobOK'
      /\ Fits(mem)' /\ Fits(disk)' /\ FileIsOlder'
      /\ pass'.keys \subseteq DOMAIN Explicit
  BY TypeStep, TypeFacts, FirstStateStep, LoopStep DEF FirstInv, TypeOK
<1>1. \A c : HasNote(c) /\ ~Crash => HasNote(c)'
  BY FirstStateStep DEF HasNote
<1>2. CASE Crash
  <2>1. pc' = "idle" /\ Loop' = "idle"
    BY <1>2, CrashBindings DEF Loop
  <2> QED
    BY <1>0, <2>1 DEF FirstInv
<1>3. CASE ~Crash
  <2>1. Loop' = "title" => \A c \in DOMAIN Explicit : HasNote(c)'
    <3>1. pc = "explicit" /\ pass.keys = {} => \A c \in DOMAIN Explicit : HasNote(c)
      BY DEF FirstInv, Loop, Settled
    <3> QED
      BY <1>0, <1>1, <1>3, <3>1, LoopStep DEF FirstInv
  <2>2. ASSUME NEW c, Settled(c) PROVE Settled(c)'
    <3>1. CASE HasNote(c)
      BY <1>1, <1>3, <3>1 DEF Settled
    <3>2. CASE pc = "bind" /\ c = job.conv
      <4>1. CASE PassBinds
        BY <3>2, <4>1, FirstStateStep DEF Settled, HasNote
      <4>2. CASE UNCHANGED passVars
        BY <3>2, <4>2 DEF passVars, Settled
      <4> QED
        BY <1>3, <3>2, <4>1, <4>2, OnlyThePassBinds DEF PassLinks
    <3> QED
      BY <2>2, <3>1, <3>2 DEF Settled
  <2>3. Loop' = "explicit" => \A c \in DOMAIN Explicit \ pass'.keys : Settled(c)'
    <3>1. ASSUME Loop' = "explicit", NEW c \in DOMAIN Explicit \ pass'.keys
          PROVE  Settled(c)'
      <4>1. Loop = "explicit" /\ \/ c \notin pass.keys
                                 \/ HasNote(c) \/ (pc' = "bind" /\ job'.conv = c)
        BY <1>0, <3>1, LoopStep
      <4> QED
        BY <1>1, <1>3, <2>2, <3>1, <4>1 DEF FirstInv, Settled
    <3> QED
      BY <3>1
  <2>4. CASE UNCHANGED passVars /\ Keeps
    <3>1. /\ pc' = "bind" => ~HasNote(job.conv)'
          /\ pc' = "link" => BoundTo(job.conv, job.note)'
          /\ pc' \in {"bind", "link"} /\ job'.back = "explicit" =>
               job'.conv \in DOMAIN Explicit /\ job'.note = Explicit[job'.conv]
      BY <2>4 DEF passVars, Keeps, FirstInv, HasNote, BoundTo
    <3> QED
      BY <1>0, <2>1, <2>3, <3>1 DEF FirstInv
  <2>5. ASSUME /\ pc' = "bind" => ~HasNote(job.conv)'
               /\ pc' = "link" => BoundTo(job.conv, job.note)'
               /\ pc' \in {"bind", "link"} /\ job'.back = "explicit" =>
                    job'.conv \in DOMAIN Explicit /\ job'.note = Explicit[job'.conv]
        PROVE  FirstInv'
    BY <1>0, <2>1, <2>3, <2>5 DEF FirstInv
  <2>6. CASE PassStep /\ pc \notin {"bind", "link"} /\ Keeps
    <3>1. ASSUME NEW c \in pass.keys, job' = ExplicitJob(c)
          PROVE  /\ job'.conv = c /\ c \in DOMAIN Explicit /\ job'.note = Explicit[c]
                 /\ HasNote(c) => mem.conversationNotes[c] = Explicit[c]
      BY <3>1 DEF FirstInv, ExplicitJob, Fits, HasNote
    <3>2. ASSUME pc' = "bind" PROVE ~HasNote(job.conv)' /\
                 (job'.back = "explicit" =>
                    job'.conv \in DOMAIN Explicit /\ job'.note = Explicit[job'.conv])
      <4>1. CASE \E c \in pass.keys : job' = ExplicitJob(c) /\ ~HasNote(c)
        BY <2>6, <3>1, <4>1 DEF Keeps, HasNote
      <4>2. CASE \E t \in Series, c \in Conv : job' = TitleJob(t, c) /\ ~HasNote(c)
        BY <2>6, <4>2 DEF TitleJob, Keeps, HasNote
      <4> QED
        BY <1>0, <2>6, <3>2, <4>1, <4>2, BindPoints
    <3>3. ASSUME pc' = "link" PROVE BoundTo(job.conv, job.note)' /\
                 job'.conv \in DOMAIN Explicit /\ job'.note = Explicit[job'.conv]
      <4>1. PICK c \in pass.keys : job' = ExplicitJob(c) /\ HasNote(c)
        BY <1>0, <2>6, <3>3, BindPoints
      <4> QED
        BY <2>6, <3>1, <4>1 DEF Keeps, BoundTo, HasNote
    <3> QED
      BY <2>5, <3>2, <3>3
  <2>7. CASE PassBinds
    <3>1. pc' # "bind" /\ (pc' = "link" => job' = job)
      BY <1>0, <2>7, BindPoints DEF PassBinds, PassStep
    <3>2. pc' = "link" => BoundTo(job.conv, job.note)'
      BY <2>7, <3>1, FirstStateStep DEF BoundTo, HasNote
    <3> QED
      BY <2>5, <2>7, <3>1, <3>2 DEF FirstInv, PassBinds
  <2>8. CASE PassLinks
    <3>1. pc' \notin {"bind", "link"}
      BY <1>0, <2>8, BindPoints DEF PassLinks, PassStep
    <3> QED
      BY <2>5, <3>1
  <2> QED
    BY <1>3, <2>4, <2>6, <2>7, <2>8, OnlyThePassBinds
<1> QED
  BY <1>2, <1>3

\* Nothing is bound at first.
LEMMA FirstInit == Init => FirstInv
<1> SUFFICES ASSUME Init PROVE FirstInv
  OBVIOUS
<1>1. TypeOK
  BY TypeInit
<1>2. /\ DOMAIN mem.conversationNotes = {} /\ DOMAIN mem.issueConversations = {}
      /\ disk = mem /\ pc = "idle" /\ pass.keys = {}
  BY DEF Init, StateInit, PassInit, NoPass, EmptyState, EmptyMap
<1> QED
  BY <1>1, <1>2 DEF FirstInv, Fits, FileIsOlder, Loop

\* A binding is only replaced by an operator: an explicit mapping, a title
\* match in another series, a save that fails, a restart never change the
\* note of a conversation that has one (bridge.go:241, 262).
THEOREM BindingsStick ==
  ASSUME Admins = {}
  PROVE  Spec => BindingSticks
<1> DEFINE A == \A c \in DOMAIN mem.conversationNotes \cap DOMAIN mem'.conversationNotes :
                  mem'.conversationNotes[c] = mem.conversationNotes[c]
<1>1. FirstInv /\ [Next]_vars => FirstInv'
  BY FirstPassStep
<1>2. FirstInv /\ [Next]_vars => [A]_vars
  <2> SUFFICES ASSUME FirstInv, [Next]_vars PROVE A
    OBVIOUS
  <2>1. CASE Crash
    BY <2>1, CrashBindings DEF FirstInv, FileIsOlder, BoundTo
  <2>2. CASE ~Crash
    BY <2>2, FirstStateStep
  <2> QED
    BY <2>1, <2>2
<1> QED
  BY <1>1, <1>2, FirstInit, PTL DEF Spec, BindingSticks

\* Comments are "mirrored back as Zulip messages into the bound stream+topic"
\* (README.md:28-29): the conversation the pass picks for a comment is bound
\* to a note of the comment's issue, as long as no operator rebinds it
\* (bridge.go:358-368).
THEOREM MirroredIntoBound ==
  ASSUME Admins = {}
  PROVE  Spec => MirroredWhereBound
<1> DEFINE A == pc # "post" /\ pc' = "post" /\ (\A a \in Admins : request[a] = Idle) =>
                  \E n \in Note :
                    /\ BoundTo(job'.conv, n)
                    /\ IssueOf(job'.comment) = <<SeriesOf[n], UrlOf[n]>>
<1>1. FirstInv /\ [Next]_vars => FirstInv'
  BY FirstPassStep
<1>2. FirstInv /\ [Next]_vars => [A]_vars
  <2> SUFFICES ASSUME FirstInv, [Next]_vars, pc # "post", pc' = "post" PROVE A
    OBVIOUS
  <2>1. TypeOK /\ StateOK(mem) /\ Fits(mem)
    BY TypeFacts DEF FirstInv
  <2>2. PICK j \in pass.notes : PickComment(j)
    BY <2>1, MirrorPoint
  <2>3. /\ job'.comment = j /\ job'.conv = mem.issueConversations[IssueOf(j)]
        /\ IssueOf(j) \in DOMAIN mem.issueConversations
    BY <2>2 DEF PickComment, HasConversation, IssueOf
  <2>4. /\ HasNote(job'.conv)
        /\ IssueOf(j) = NoteIssue(mem.conversationNotes[job'.conv])
    BY <2>1, <2>3 DEF Fits, HasNote
  <2>5. mem.conversationNotes[job'.conv] \in Note
    BY <2>1, <2>4 DEF StateOK, IsMap, HasNote
  <2> QED
    BY <2>3, <2>4, <2>5 DEF BoundTo, NoteIssue
<1> QED
  BY <1>1, <1>2, FirstInit, PTL DEF Spec, MirroredWhereBound
=============================================================================
