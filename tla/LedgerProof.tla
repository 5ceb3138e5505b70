----------------------------- MODULE LedgerProof -----------------------------
(***************************************************************************)
(* Both directions of the bridge keep a Ledger, for every number of        *)
(* messages, comments, series, requests and faults, for as long as no      *)
(* record can have expired (Young).                                        *)
(*                                                                         *)
(* The argument is an account.  What an item sent again, or an item sent   *)
(* and not on file, amounts to is owed; a fault pays for one.  Sending     *)
(* owes one more, which the answer lost pays for, or which the record      *)
(* about to be written takes back; the pass has credit for that one.       *)
(***************************************************************************)
EXTENDS SafetyProof, BridgeLedger, FiniteSetTheorems

(* Accounts of any log: the items, the repetitions, and what is owed.      *)

ItemsOf(s) == {s[d] : d \in DOMAIN s}

Again(s) == {d \in DOMAIN s : \E e \in DOMAIN s : e < d /\ s[e] = s[d]}

Owed(s, record) == Cardinality(Again(s)) + Cardinality(ItemsOf(s) \ record)

Counted(s) == IsFiniteSet(Again(s)) /\ IsFiniteSet(ItemsOf(s))

(* The logs, and the item the pass is about to send or record.             *)

Forwarded == [d \in DOMAIN inbox |-> KeyOf(d)]
Mirrored  == [i \in BotPosts |-> zulip[i].mirrors]

ForwardRecord == DOMAIN disk.messagesDelivered
MirrorRecord  == {k[2] : k \in DOMAIN disk.seenNotes}

JobKey  == <<SeriesOf[job.note], job.msg>>
SeenKey == <<CommentSeries(job.comment), job.comment>>

Credit(point) == IF pc = point THEN 1 ELSE 0

(* The retention has not passed since the state file was created. *)
Young == now <= Retention

(* Nothing on file is missing in memory: nothing has expired. *)
Durable ==
  /\ DOMAIN disk.messagesDelivered \subseteq DOMAIN mem.messagesDelivered
  /\ DOMAIN disk.seenNotes \subseteq DOMAIN mem.seenNotes

(* A comment is recorded for the series it is of. *)
SeenUnderSeries ==
  \A k \in DOMAIN mem.seenNotes \cup DOMAIN disk.seenNotes :
    k = <<CommentSeries(k[2]), k[2]>>

(* What is due to be sent, or has just been, is not on record. *)
DueUnrecorded ==
  /\ pc \in {"reply", "mark"} => JobKey \notin DOMAIN mem.messagesDelivered
  /\ pc \in {"post", "seen"} => SeenKey \notin DOMAIN mem.seenNotes

ForwardPaid ==
  Counted(Forwarded) /\ Owed(Forwarded, ForwardRecord) <= faults + Credit("mark")

MirrorPaid ==
  Counted(Mirrored) /\ Owed(Mirrored, MirrorRecord) <= faults + Credit("seen")

LedgerInv ==
  /\ Truthful /\ Durable /\ SeenUnderSeries /\ DueUnrecorded
  /\ ForwardPaid /\ MirrorPaid

-----------------------------------------------------------------------------
(* Accounts. *)

(* Sending an item that is not on record owes one more, and what was owed  *)
(* covers the repetitions there are then.                                  *)
LEMMA SendingOwes ==
  ASSUME NEW s, NEW t, Counted(s), NEW record,
         NEW d, d \notin DOMAIN s, DOMAIN t = DOMAIN s \cup {d},
         \A e \in DOMAIN s : e < d /\ ~(d < e) /\ t[e] = s[e],
         ~(d < d), t[d] \notin record
  PROVE  /\ Counted(t)
         /\ Owed(t, record) = Owed(s, record) + 1
         /\ Cardinality(Again(t)) \in Nat /\ Cardinality(Again(t)) <= Owed(s, record)
PROOF
  <1> DEFINE k == t[d]
             items == ItemsOf(s)
             rest == items \ record
  <1>1. ItemsOf(t) = items \cup {k}
    BY DEF ItemsOf
  <1>2. Again(t) = IF k \in items THEN Again(s) \cup {d} ELSE Again(s)
    <2>1. \A e \in DOMAIN s : e \in Again(t) <=> e \in Again(s)
      BY DEF Again
    <2>2. d \in Again(t) <=> k \in items
      BY DEF Again, ItemsOf
    <2>3. Again(t) \subseteq DOMAIN s \cup {d} /\ Again(s) \subseteq DOMAIN s
      BY DEF Again
    <2> QED
      BY <2>1, <2>2, <2>3
  <1>3. d \notin Again(s)
    BY DEF Again
  <1>4. ItemsOf(t) \ record = rest \cup {k} /\ (k \in items <=> k \in rest)
    BY <1>1
  <1>5. IsFiniteSet(rest) /\ IsFiniteSet(items) /\ IsFiniteSet(Again(s))
    BY FS_Subset DEF Counted
  <1> HIDE DEF k, items, rest
  <1>6. Counted(t)
    <2>1. IsFiniteSet(items \cup {k}) /\ IsFiniteSet(Again(s) \cup {d})
      BY <1>5, FS_AddElement
    <2>2. Again(t) = Again(s) \/ Again(t) = Again(s) \cup {d}
      BY <1>2
    <2> QED
      BY <1>1, <1>5, <2>1, <2>2 DEF Counted
  <1>7. /\ Cardinality(rest) \in Nat /\ Cardinality(Again(s)) \in Nat
        /\ k \in rest => Cardinality(rest) # 0
    <2>1. Cardinality(rest) \in Nat /\ Cardinality(Again(s)) \in Nat
      BY <1>5, FS_CardinalityType
    <2>2. k \in rest => rest # {}
      OBVIOUS
    <2> QED
      BY <1>5, <2>1, <2>2, FS_EmptySet
  <1>8. Cardinality(rest \cup {k}) =
          IF k \in rest THEN Cardinality(rest) ELSE Cardinality(rest) + 1
    BY <1>5, FS_AddElement
  <1>9. Cardinality(Again(s) \cup {d}) = Cardinality(Again(s)) + 1
    BY <1>3, <1>5, FS_AddElement
  <1> QED
    <2>1. Owed(s, record) = Cardinality(Again(s)) + Cardinality(rest)
      BY DEF Owed, rest, items
    <2>2. Owed(t, record) = Cardinality(Again(t)) + Cardinality(rest \cup {k})
      BY <1>4 DEF Owed
    <2> QED
      BY <1>2, <1>4, <1>6, <1>7, <1>8, <1>9, <2>1, <2>2

(* A longer record never owes more, and one less when it gains an item.    *)
LEMMA RecordingPays ==
  ASSUME NEW s, Counted(s), NEW before, NEW after, before \subseteq after
  PROVE  /\ Owed(s, before) \in Nat /\ Owed(s, after) \in Nat
         /\ Owed(s, after) <= Owed(s, before)
         /\ \A k \in ItemsOf(s) : k \in after /\ k \notin before =>
              Owed(s, after) + 1 <= Owed(s, before)
PROOF
  <1> DEFINE rest == ItemsOf(s) \ before
             left == ItemsOf(s) \ after
  <1>1. IsFiniteSet(rest) /\ IsFiniteSet(left) /\ left \subseteq rest
    BY FS_Subset DEF Counted
  <1>2. /\ Cardinality(rest) \in Nat /\ Cardinality(left) \in Nat
        /\ Cardinality(Again(s)) \in Nat
    BY <1>1, FS_CardinalityType DEF Counted
  <1>3. /\ Cardinality(left) <= Cardinality(rest)
        /\ Cardinality(left) = Cardinality(rest) => left = rest
    BY <1>1, FS_Subset
  <1>4. \A k \in ItemsOf(s) : k \in after /\ k \notin before => left # rest
    OBVIOUS
  <1>5. /\ Owed(s, before) = Cardinality(Again(s)) + Cardinality(rest)
        /\ Owed(s, after) = Cardinality(Again(s)) + Cardinality(left)
    BY DEF Owed
  <1> HIDE DEF rest, left
  <1> QED
    BY <1>2, <1>3, <1>4, <1>5

(* The two instances of Ledger count as this module does. *)
LEMMA ForwardCardinality == \A S : Forward!Cardinality(S) = Cardinality(S)
PROOF
  BY Zenon DEF Forward!Cardinality, Cardinality, Forward!IsFiniteSet, IsFiniteSet

(* The same of the other direction. *)
LEMMA MirrorCardinality == \A S : Mirror!Cardinality(S) = Cardinality(S)
PROOF
  BY Zenon DEF Mirror!Cardinality, Cardinality, Mirror!IsFiniteSet, IsFiniteSet

-----------------------------------------------------------------------------
(* Steps. *)

(* Whenever something fails, the file stays as it is: a save that fails, a *)
(* call that fails, a crash (state.go:133-167).                            *)
LEMMA FaultStep ==
  ASSUME TypeOK, [Next]_vars
  PROVE  faults' = faults \/ (faults' = faults + 1 /\ disk' = disk)
PROOF
  <1>1. ASSUME NEW ok \in BOOLEAN, NEW s, SaveOutcome(ok), Save(s, ok)
        PROVE  faults' = faults \/ (faults' = faults + 1 /\ disk' = disk)
    BY <1>1 DEF SaveOutcome, NoFault, Fault, Save
  <1>2. CASE UNCHANGED faults
    BY <1>2
  <1>3. CASE Looking
    BY <1>3 DEF Looking, FetchMessages, FetchOutbox, OutboxesDone, ExplicitKey,
                ExplicitDone, TitlePair, TitleDone, SkipMessage, ForwardDone,
                SkipComment, NextComment, ReverseDone, PassOver, Goto,
                NoFault, Fault, storeVars, remoteVars
  <1>4. CASE Bind \/ Link \/ MarkMessage \/ MarkHash \/ MarkSeen
    BY <1>1, <1>4 DEF Bind, Link, MarkMessage, MarkHash, MarkSeen, SetConversationNote,
                      SetIssueConversation, MarkMessageDelivered, MarkDelivered, MarkSeenNote
  <1>5. CASE \E j \in pass.notes : SuppressEcho(j)
    BY <1>1, <1>5 DEF SuppressEcho, MarkSeenNote
  <1>6. CASE Reply \/ Post
    BY <1>6 DEF Reply, ReplyToIssue, Post, SendMessage, NoFault, Fault, storeVars
  <1>7. CASE AdminStep
    BY <1>1, <1>7 DEF AdminStep, BindNote, BindLink, Unbind, SetConversationNote,
                      SetIssueConversation, DeleteConversationNote
  <1>8. CASE Crash
    BY <1>8 DEF Crash, Load, Fault
  <1>9. \/ UNCHANGED vars \/ Tick \/ Remote
        \/ \E m \in pass.msgs : PickMessage(m)
        \/ \E j \in pass.notes : PickComment(j)
        => UNCHANGED faults
    BY DEF vars, Tick, Remote, UserPosts, RepoComment, Republish, PickMessage,
           PickComment, remoteVars
  <1> QED
    BY <1>2, <1>3, <1>4, <1>5, <1>6, <1>7, <1>8, <1>9, StepCases

(* Graft gets the reply that is due or nothing, and the bridge goes on to   *)
(* record it unless the answer was lost (bridge.go:322-329).               *)
LEMMA ReplyStep ==
  ASSUME TypeOK, [Next]_vars, inbox' # inbox
  PROVE  /\ pc = "reply" /\ inbox' = Append(inbox, JobReply)
         /\ UNCHANGED <<mem, disk, zulip, comments>>
         /\ \/ faults' = faults /\ pc' = "mark" /\ job' = job
            \/ faults' = faults + 1 /\ pc' # "mark" /\ "lostAck" \in FaultKinds
PROOF
  <1>1. CASE Reply
    BY <1>1 DEF Reply, ReplyToIssue, AcceptReply, JobReply, NoFault, Fault, Goto, storeVars
  <1>2. ASSUME ~Reply PROVE inbox' = inbox
    BY <1>2, StepCases, LookingStep
    DEF vars, Quiet, PickMessage, Bind, Link, MarkMessage, MarkHash, SuppressEcho,
        PickComment, Post, MarkSeen, AdminStep, BindNote, BindLink, Unbind,
        Remote, UserPosts, RepoComment, Republish, Tick, Crash, remoteVars
  <1> QED
    BY <1>1, <1>2

(* Zulip gets the post that is due or none of the bot's, and the bridge    *)
(* goes on to record it unless the answer was lost (bridge.go:367-376).    *)
LEMMA PostStep ==
  ASSUME TypeOK, [Next]_vars, Mirrored' # Mirrored
  PROVE  /\ pc = "post" /\ zulip' = Append(zulip, BotPost(job.conv, job.comment))
         /\ UNCHANGED <<mem, disk, inbox, comments>>
         /\ \/ faults' = faults /\ pc' = "seen" /\ job' = job
            \/ faults' = faults + 1 /\ pc' # "seen"
PROOF
  <1>1. CASE Post /\ zulip' # zulip
    BY <1>1 DEF Post, SendMessage, AcceptMessage, NoFault, Fault, Goto, storeVars
  <1>2. CASE zulip' = zulip
    BY <1>2 DEF Mirrored, BotPosts
  <1>3. CASE \E c \in Conv \cup {Private}, t \in Text : UserPosts(c, t)
    <2>1. PICK c \in Conv \cup {Private}, t \in Text : UserPosts(c, t)
      BY <1>3
    <2> DEFINE x == [sender |-> "user", conv |-> c, text |-> t]
    <2>2. x \in Message /\ zulip' = Append(zulip, x) /\ x.sender # "bot"
      BY <2>1 DEF UserPosts, Message, UserMessage
    <2> HIDE DEF x
    <2>3. /\ \A i \in DOMAIN zulip : i \in DOMAIN zulip' /\ zulip'[i] = zulip[i]
          /\ \A i \in DOMAIN zulip' : i \in DOMAIN zulip \/ zulip'[i] = x
      BY <2>2, TypeFacts, AppendLog
    <2>4. BotPosts' = BotPosts
      BY <2>2, <2>3 DEF BotPosts
    <2>5. \A i \in BotPosts : zulip'[i].mirrors = zulip[i].mirrors
      BY <2>3 DEF BotPosts
    <2> QED
      BY <2>4, <2>5 DEF Mirrored
  <1>4. ASSUME ~Post, ~\E c \in Conv \cup {Private}, t \in Text : UserPosts(c, t)
        PROVE  zulip' = zulip
    BY <1>4, StepCases, LookingStep
    DEF vars, Quiet, PickMessage, Bind, Link, Reply, MarkMessage, MarkHash, SuppressEcho,
        PickComment, MarkSeen, AdminStep, BindNote, BindLink, Unbind,
        Remote, RepoComment, Republish, Tick, Crash, remoteVars
  <1> QED
    BY <1>1, <1>2, <1>3, <1>4

(* The pass leaves the points where it records with the record in memory,  *)
(* and on file unless the save has failed; or the process stops.           *)
LEMMA MarkStep ==
  ASSUME TypeOK, [Next]_vars, ~Crash
  PROVE  /\ pc = "mark" /\ pc' # "mark" =>
              /\ JobKey \in DOMAIN mem'.messagesDelivered
              /\ disk' = mem' \/ faults' = faults + 1
         /\ pc = "seen" /\ pc' # "seen" =>
              /\ SeenKey \in DOMAIN mem'.seenNotes
              /\ disk' = mem' \/ faults' = faults + 1
PROOF
  <1>0. /\ StateOK(mem) /\ StateOK(disk) /\ now \in Nat /\ JobOK
        /\ Retention \in Nat /\ \A j \in DOMAIN comments : CommentSeries(j) \in SeriesNames
        /\ DOMAIN comments \subseteq Nat
    BY TypeFacts, RetentionAssumption
  <1>1. CASE MarkMessage
    <2>1. PICK ok \in BOOLEAN : /\ SaveOutcome(ok)
                                /\ MarkMessageDelivered(SeriesOf[job.note], job.msg, ok)
      BY <1>1 DEF MarkMessage
    <2>2. job \in ForwardJob /\ pc = "mark"
      BY <1>0, <1>1 DEF MarkMessage, JobOK
    <2>3. SeriesOf[job.note] \in SeriesNames /\ job.msg \in Nat
      BY <2>2 DEF ForwardJob, SeriesNames
    <2>4. PICK s : /\ StateOK(s) /\ Save(s, ok)
                   /\ s.messagesDelivered = Put(mem.messagesDelivered, JobKey, now)
      BY <1>0, <2>1, <2>3, MarkMessageState DEF JobKey
    <2>5. JobKey \in DOMAIN Unexpired(s.messagesDelivered)
      BY <1>0, <2>4 DEF Unexpired, Restrict, Put, Fresh
    <2>6. mem' = Prune(s) /\ (ok => disk' = mem') /\ (~ok => faults' = faults + 1)
      BY <2>1, <2>4 DEF Save, SaveOutcome, Fault
    <2> QED
      BY <2>2, <2>4, <2>5, <2>6, PruneState
  <1>2. CASE MarkSeen
    <2>1. PICK ok \in BOOLEAN : /\ SaveOutcome(ok)
                                /\ MarkSeenNote(CommentSeries(job.comment), job.comment, ok)
      BY <1>2 DEF MarkSeen
    <2>2. job.comment \in DOMAIN comments /\ pc = "seen"
      BY <1>0, <1>2 DEF MarkSeen, JobOK
    <2>3. CommentSeries(job.comment) \in SeriesNames /\ job.comment \in Nat
      BY <1>0, <2>2
    <2> DEFINE series == CommentSeries(job.comment)
    <2>4. PICK s : /\ StateOK(s) /\ Save(s, ok)
                   /\ s.seenNotes = Put(mem.seenNotes, <<series, job.comment>>, now)
      <3> MarkSeenNote(series, job.comment, ok) /\ series \in SeriesNames
        BY <2>1, <2>3
      <3> HIDE DEF series
      <3> QED
        BY <1>0, <2>3, MarkSeenState
    <2>5. SeenKey \in DOMAIN Unexpired(s.seenNotes)
      BY <1>0, <2>4 DEF Unexpired, Restrict, Put, Fresh, SeenKey
    <2>6. mem' = Prune(s) /\ (ok => disk' = mem') /\ (~ok => faults' = faults + 1)
      BY <2>1, <2>4 DEF Save, SaveOutcome, Fault
    <2> QED
      BY <2>2, <2>4, <2>5, <2>6, PruneState
  <1>3. ASSUME ~MarkMessage, ~MarkSeen, pc \in {"mark", "seen"} PROVE pc' = pc
    BY <1>3, StepCases
    DEF vars, Looking, FetchMessages, FetchOutbox, OutboxesDone, ExplicitKey, ExplicitDone,
        TitlePair, TitleDone, SkipMessage, ForwardDone, SkipComment, NextComment, ReverseDone,
        PickMessage, Bind, Link, Reply, MarkHash, SuppressEcho, PickComment, Post,
        Tick, passVars
  <1> QED
    BY <1>1, <1>2, <1>3

(* While the pass is at such a point nobody else adds to its record.       *)
LEMMA OthersDoNotRecord ==
  ASSUME TypeOK, [Next]_vars, pc' = pc, pc \in {"reply", "mark", "post", "seen"}
  PROVE  /\ job' = job
         /\ DOMAIN mem'.messagesDelivered \subseteq DOMAIN mem.messagesDelivered
         /\ DOMAIN mem'.seenNotes \subseteq DOMAIN mem.seenNotes
PROOF
  <1>1. CASE AdminStep /\ UNCHANGED passVars
    <2>0. PICK s : \E ok \in BOOLEAN : StateOK(s) /\ Save(s, ok) /\ SameRecords(s)
      BY <1>1, AdminRecords DEF SavingSame
    <2>1. StateOK(s) /\ mem' = Prune(s) /\ SameRecords(s)
      BY <2>0 DEF Save
    <2>2. /\ mem'.messagesDelivered = Unexpired(mem.messagesDelivered)
          /\ mem'.seenNotes = Unexpired(mem.seenNotes)
      BY <2>1, PruneState DEF SameRecords
    <2> QED
      BY <1>1, <2>2 DEF Unexpired, Restrict, passVars
  <1>2. CASE UNCHANGED vars \/ Tick \/ (Remote /\ UNCHANGED <<storeVars, passVars, adminVars>>)
    BY <1>2 DEF vars, Tick, storeVars, passVars
  <1>3. ASSUME ~(AdminStep /\ UNCHANGED passVars),
               ~(UNCHANGED vars \/ Tick \/ (Remote /\ UNCHANGED <<storeVars, passVars, adminVars>>))
        PROVE  FALSE
    <2>1. \/ Looking \/ \E m \in pass.msgs : PickMessage(m)
          \/ Bind \/ Link \/ Reply \/ MarkMessage \/ MarkHash
          \/ \E j \in pass.notes : SuppressEcho(j) \/ PickComment(j)
          \/ Post \/ MarkSeen \/ Crash
      BY <1>3, StepCases
    <2>2. ~Looking
      BY LookingStep
    <2> QED
      BY <2>1, <2>2
      DEF PickMessage, Bind, Link, Reply, MarkMessage, MarkHash, SuppressEcho, NextComment,
          PickComment, Post, MarkSeen, Crash, PassOver, Goto
  <1> QED
    BY <1>1, <1>2, <1>3

(* An entry that has not been there longer than the retention is kept.     *)
LEMMA NothingExpires ==
  ASSUME Young, now \in Nat,
         NEW K, NEW m, IsMap(m, K, Nat)
  PROVE  DOMAIN Unexpired(m) = DOMAIN m
PROOF
  <1>1. \A k \in DOMAIN m : Fresh(m[k])
    BY RetentionAssumption DEF IsMap, Fresh, Young
  <1> QED
    BY <1>1 DEF Unexpired, Restrict

(* So long as nothing expires, nothing leaves the file, and nothing leaves *)
(* the memory but what a crash takes.                                      *)
LEMMA DurableStep ==
  ASSUME Young, TypeOK, Durable, [Next]_vars
  PROVE  /\ Durable'
         /\ DOMAIN disk.messagesDelivered \subseteq DOMAIN disk'.messagesDelivered
         /\ DOMAIN disk.seenNotes \subseteq DOMAIN disk'.seenNotes
         /\ \/ "crash" \in FaultKinds
            \/ /\ DOMAIN mem.delivered \subseteq DOMAIN mem'.delivered
               /\ DOMAIN mem.messagesDelivered \subseteq DOMAIN mem'.messagesDelivered
               /\ DOMAIN mem.seenNotes \subseteq DOMAIN mem'.seenNotes
PROOF
  <1>0. now \in Nat /\ StateOK(mem) /\ StateOK(disk)
    BY TypeFacts
  <1>2. CASE StoreUnchanged
    BY <1>2 DEF StoreUnchanged, Durable
  <1>3. CASE StoreLoaded
    BY <1>3 DEF StoreLoaded, Durable
  <1>4. CASE Saving
    <2>0. PICK s : \E ok \in BOOLEAN : StateOK(s) /\ Save(s, ok) /\ RecordStep(s)
      BY <1>4 DEF Saving
    <2>1. PICK ok \in BOOLEAN : StateOK(s) /\ Save(s, ok) /\ RecordStep(s)
      BY <2>0
    <2>2. mem' = Prune(s) /\ disk' \in {disk, mem'}
      BY <1>0, <2>1, SaveState
    <2>3. /\ DOMAIN mem'.delivered = DOMAIN s.delivered
          /\ DOMAIN mem'.messagesDelivered = DOMAIN s.messagesDelivered
          /\ DOMAIN mem'.seenNotes = DOMAIN s.seenNotes
      BY <1>0, <2>1, <2>2, PruneState, NothingExpires DEF StateOK
    <2>4. /\ DOMAIN mem.delivered \subseteq DOMAIN s.delivered
          /\ DOMAIN mem.messagesDelivered \subseteq DOMAIN s.messagesDelivered
          /\ DOMAIN mem.seenNotes \subseteq DOMAIN s.seenNotes
      BY <2>1 DEF RecordStep, Put
    <2> QED
      BY <2>2, <2>3, <2>4 DEF Durable
  <1> QED
    BY <1>2, <1>3, <1>4, StoreStep

(* A comment is only ever recorded for its own series (bridge.go:348-376). *)
LEMMA SeriesStep ==
  ASSUME TypeOK, SeenExists, SeenUnderSeries, [Next]_vars
  PROVE  SeenUnderSeries'
PROOF
  <1>0. /\ \A j \in DOMAIN comments : j \in DOMAIN comments' /\ comments'[j] = comments[j]
        /\ StateOK(disk) /\ JobOK
    BY EvidenceStays, TypeFacts
  <1> DEFINE Good(k) == k[2] \in DOMAIN comments /\ k = <<CommentSeries(k[2]), k[2]>>
  <1>1. \A k \in DOMAIN mem.seenNotes \cup DOMAIN disk.seenNotes : Good(k)
    BY DEF SeenExists, SeenUnderSeries
  <1>2. \A k \in DOMAIN mem'.seenNotes \cup DOMAIN disk'.seenNotes : Good(k)
    <2>1. CASE StoreUnchanged \/ StoreLoaded
      BY <1>1, <2>1 DEF StoreUnchanged, StoreLoaded
    <2>2. CASE Saving
      <3>0. PICK s : \E ok \in BOOLEAN : StateOK(s) /\ Save(s, ok) /\ RecordStep(s)
        BY <2>2 DEF Saving
      <3>1. PICK ok \in BOOLEAN : StateOK(s) /\ Save(s, ok) /\ RecordStep(s)
        BY <3>0
      <3>2. \A j \in DOMAIN comments : Good(<<CommentSeries(j), j>>)
        OBVIOUS
      <3>3. \A k \in DOMAIN s.seenNotes :
              k \in DOMAIN mem.seenNotes \/ \E j \in DOMAIN comments : k = <<CommentSeries(j), j>>
        BY <3>1 DEF RecordStep, Put
      <3> HIDE DEF Good
      <3> QED
        BY <1>1, <3>1, <3>2, <3>3, SavedRecords
    <2> QED
      BY <2>1, <2>2, StoreStep
  <1> QED
    BY <1>0, <1>2 DEF SeenUnderSeries, CommentSeries

(* The pass comes to the points where it records from where it sends.      *)
LEMMA RecordingAfterSending ==
  ASSUME TypeOK, [Next]_vars, pc' # pc
  PROVE  /\ pc' = "mark" => pc = "reply" /\ UNCHANGED <<job, mem, disk, comments>>
         /\ pc' = "seen" => pc = "post" /\ UNCHANGED <<job, mem, disk, comments>>
PROOF
  <1>1. CASE Reply \/ Post
    BY <1>1 DEF Reply, Post, Goto, storeVars
  <1>2. CASE Looking
    BY <1>2, LookingStep
  <1>3. CASE Bind \/ Link
    <2>1. JobOK
      BY TypeFacts
    <2>2. job \in BindJob
      BY <1>3, <2>1 DEF Bind, Link, JobOK
    <2> QED
      BY <1>3, <2>2 DEF Bind, Link, BindJob, PassOver, Goto
  <1>4. \/ UNCHANGED vars
        \/ \E m \in pass.msgs : PickMessage(m)
        \/ MarkMessage \/ MarkHash
        \/ \E j \in pass.notes : SuppressEcho(j) \/ PickComment(j)
        \/ MarkSeen \/ UNCHANGED passVars \/ Tick \/ Crash
        => pc' \notin {"mark", "seen"} \/ pc' = pc
    BY DEF vars, PickMessage, MarkMessage, MarkHash, SuppressEcho, PickComment, MarkSeen,
           passVars, Tick, Crash, PassOver, Goto
  <1> QED
    BY <1>1, <1>2, <1>3, <1>4, StepCases

(* What is due is not on record, until the pass records it.                *)
LEMMA DueStep ==
  ASSUME TypeOK, DueUnrecorded, [Next]_vars
  PROVE  DueUnrecorded'
PROOF
  <1>0. JobOK /\ Extends(comments)
    BY LogStep, TypeFacts
  <1>1. ASSUME pc' = pc, pc \in {"post", "seen"} PROVE SeenKey' = SeenKey
    <2>1. job' = job
      BY <1>1, OthersDoNotRecord
    <2>2. comments'[job.comment] = comments[job.comment]
      BY <1>0, <1>1 DEF JobOK, Extends
    <2> QED
      BY <2>1, <2>2 DEF SeenKey, CommentSeries
  <1>2. ASSUME pc' = pc, pc \in {"reply", "mark"} PROVE JobKey' = JobKey
    BY <1>2, OthersDoNotRecord DEF JobKey
  <1>3. CASE pc' = pc
    BY <1>1, <1>2, <1>3, OthersDoNotRecord DEF DueUnrecorded
  <1>4. CASE pc' # pc
    <2>1. ASSUME pc' = "reply" PROVE JobKey' \notin DOMAIN mem'.messagesDelivered
      <3>1. UNCHANGED <<mem, disk>> /\ ~MessageDelivered(SeriesOf[job'.note], job'.msg)
        BY <1>4, <2>1, PointStep DEF Stays
      <3> QED
        BY <3>1 DEF MessageDelivered, JobKey
    <2>2. ASSUME pc' = "mark" PROVE JobKey' \notin DOMAIN mem'.messagesDelivered
      BY <1>4, <2>2, RecordingAfterSending DEF DueUnrecorded, JobKey
    <2>3. ASSUME pc' = "post" PROVE SeenKey' \notin DOMAIN mem'.seenNotes
      <3>1. /\ UNCHANGED <<mem, disk, comments>>
            /\ ~SeenNote(CommentSeries(job'.comment), job'.comment)
        BY <1>4, <2>3, PointStep DEF Stays
      <3> QED
        BY <3>1 DEF SeenNote, SeenKey, CommentSeries
    <2>4. ASSUME pc' = "seen" PROVE SeenKey' \notin DOMAIN mem'.seenNotes
      BY <1>4, <2>4, RecordingAfterSending DEF DueUnrecorded, SeenKey, CommentSeries
    <2> QED
      BY <2>1, <2>2, <2>3, <2>4 DEF DueUnrecorded
  <1> QED
    BY <1>3, <1>4

-----------------------------------------------------------------------------
(* From Zulip to Graft. *)

(* What a pass is about to record as delivered is an item that was sent.   *)
LEMMA JobKeyWasSent ==
  ASSUME Truthful, pc = "mark"
  PROVE  JobKey \in ItemsOf(Forwarded)
PROOF
  <1>1. PICK d \in DOMAIN inbox :
          inbox[d] = [note |-> job.note, msg |-> job.msg, text |-> zulip[job.msg].text]
    BY DEF Truthful, Delivered
  <1>2. Forwarded[d] = JobKey /\ d \in DOMAIN Forwarded
    BY <1>1 DEF Forwarded, KeyOf, JobKey
  <1> QED
    BY <1>2 DEF ItemsOf

(* The reply of a job is a delivery. *)
LEMMA ReplyType ==
  ASSUME TypeOK, pc = "reply"
  PROVE  JobReply \in Delivery
PROOF
  <1>1. /\ job \in ForwardJob /\ job.msg \in DOMAIN zulip
        /\ zulip[job.msg].sender = "user" /\ zulip \in Seq(Message)
    BY TypeFacts DEF JobOK
  <1>2. zulip[job.msg].text \in Text
    BY <1>1 DEF Message, UserMessage, BotMessage
  <1> QED
    BY <1>1, <1>2 DEF JobReply, Delivery, ForwardJob

(* A reply is an item sent that is not on record, and is paid for.         *)
LEMMA ForwardSends ==
  ASSUME LedgerInv, [Next]_vars, inbox' # inbox
  PROVE  ForwardPaid' /\ Forward!Send
PROOF
  <1>0. TypeOK /\ inbox \in Seq(Delivery) /\ faults \in Nat /\ JobOK
    BY TypeFacts DEF LedgerInv, Truthful
  <1>1. /\ pc = "reply" /\ inbox' = Append(inbox, JobReply) /\ disk' = disk
        /\ \/ faults' = faults /\ pc' = "mark"
           \/ faults' = faults + 1 /\ pc' # "mark"
    BY <1>0, ReplyStep
  <1> DEFINE s == Forwarded
             t == Forwarded'
             d == Len(inbox) + 1
             record == ForwardRecord
  <1>2. /\ DOMAIN s = 1 .. Len(inbox) /\ DOMAIN t = DOMAIN s \cup {d}
        /\ \A e \in DOMAIN s : t[e] = s[e]
        /\ t[d] = JobKey /\ Len(inbox) \in Nat
    <2>1. JobReply \in Delivery
      BY <1>0, <1>1, ReplyType
    <2>2. /\ DOMAIN inbox = 1 .. Len(inbox) /\ DOMAIN inbox' = 1 .. Len(inbox) + 1
          /\ \A e \in DOMAIN inbox : inbox'[e] = inbox[e]
          /\ inbox'[Len(inbox) + 1] = JobReply /\ Len(inbox) \in Nat
      BY <1>0, <1>1, <2>1, AppendLog
    <2> QED
      BY <2>2 DEF Forwarded, KeyOf, JobReply, JobKey
  <1>3. t[d] \notin record
    BY <1>1, <1>2 DEF LedgerInv, DueUnrecorded, Durable, ForwardRecord
  <1>4. /\ Counted(t) /\ Owed(t, record) = Owed(s, record) + 1
        /\ Cardinality(Again(t)) \in Nat /\ Cardinality(Again(t)) <= Owed(s, record)
    <2>1. /\ d \notin DOMAIN s /\ ~(d < d)
          /\ \A e \in DOMAIN s : e < d /\ ~(d < e) /\ t[e] = s[e]
      BY <1>2
    <2>2. Counted(s)
      BY DEF LedgerInv, ForwardPaid
    <2> HIDE DEF s, t, d, record
    <2> QED
      BY <1>2, <1>3, <2>1, <2>2, SendingOwes
  <1>5. Owed(s, record) \in Nat /\ Owed(s, record) <= faults
    <2>1. Counted(s) /\ Owed(s, record) <= faults
      BY <1>0, <1>1 DEF LedgerInv, ForwardPaid, Credit
    <2> QED
      BY <2>1, RecordingPays
  <1>6. ForwardPaid'
    <2>1. ForwardRecord' = record
      BY <1>1 DEF ForwardRecord
    <2>2. (Credit("mark"))' = IF pc' = "mark" THEN 1 ELSE 0
      BY DEF Credit
    <2>3. Owed(t, record) <= faults' + (Credit("mark"))'
      BY <1>0, <1>1, <1>4, <1>5, <2>2
    <2> QED
      BY <1>4, <2>1, <2>3 DEF ForwardPaid
  <1>7. Forward!Send
    <2>1. Forward!Repeats(t) = Cardinality(Again(t))
      BY ForwardCardinality DEF Forward!Repeats, Again
    <2>2. Forward!Repeats(t) <= faults
      BY <1>0, <1>4, <1>5, <2>1
    <2>3. s = [e \in DOMAIN inbox |-> KeyOf(e)] /\ t = [e \in DOMAIN inbox |-> KeyOf(e)]'
      BY DEF Forwarded
    <2>4. record = DOMAIN disk.messagesDelivered /\ d \in DOMAIN t \ DOMAIN s
      BY <1>2 DEF ForwardRecord
    <2>5. \A e \in DOMAIN s : e < d
      BY <1>2
    <2> HIDE DEF s, t, d, record
    <2> QED
      BY <1>1, <1>2, <1>3, <2>2, <2>3, <2>4, <2>5 DEF Forward!Send
  <1> QED
    BY <1>6, <1>7

(* Any other step records, fails or is none of the ledger's business.      *)
LEMMA ForwardKeeps ==
  ASSUME Young, LedgerInv, [Next]_vars, inbox' = inbox
  PROVE  ForwardPaid' /\ (Forward!Record \/ Forward!Mishap)
PROOF
  <1>0. /\ TypeOK /\ Truthful /\ Truthful' /\ Durable /\ faults \in Nat
        /\ Counted(Forwarded) /\ Owed(Forwarded, ForwardRecord) <= faults + Credit("mark")
    BY TypeFacts, TruthfulStep DEF LedgerInv, Truthful, ForwardPaid
  <1> DEFINE s == Forwarded
             before == ForwardRecord
             after == ForwardRecord'
  <1>1. Forwarded' = s
    BY DEF Forwarded, KeyOf
  <1>2. before \subseteq after /\ after \subseteq ItemsOf(s)
    <2>1. before \subseteq after
      BY <1>0, DurableStep DEF ForwardRecord
    <2>2. \A k \in after : Accepted(k)'
      BY <1>0 DEF Truthful, MarkedWasAccepted, ForwardRecord
    <2>3. \A k : Accepted(k)' => k \in ItemsOf(s)
      BY DEF Accepted, KeyOf, ItemsOf, Forwarded
    <2> QED
      BY <2>1, <2>2, <2>3
  <1>3. /\ Owed(s, before) \in Nat /\ Owed(s, after) \in Nat
        /\ Owed(s, after) <= Owed(s, before)
        /\ \A k \in ItemsOf(s) : k \in after /\ k \notin before =>
             Owed(s, after) + 1 <= Owed(s, before)
    <2> HIDE DEF s, before, after
    <2> QED
      BY <1>0, <1>2, RecordingPays DEF s
  <1>4. faults' = faults \/ (faults' = faults + 1 /\ after = before)
    BY <1>0, FaultStep DEF ForwardRecord
  <1>5. pc = "mark" /\ pc' # "mark" /\ faults' = faults => Owed(s, after) + 1 <= Owed(s, before)
    <2> SUFFICES ASSUME pc = "mark", pc' # "mark", faults' = faults
                 PROVE  Owed(s, after) + 1 <= Owed(s, before)
      OBVIOUS
    <2>1. JobKey \in ItemsOf(s) /\ JobKey \notin before
      BY <1>0, JobKeyWasSent DEF LedgerInv, DueUnrecorded, Durable, ForwardRecord
    <2>2. ~Crash
      BY <1>0 DEF Crash, Fault
    <2>3. JobKey \in DOMAIN mem'.messagesDelivered /\ disk' = mem'
      BY <1>0, <2>2, MarkStep
    <2>4. JobKey \in after
      BY <2>3 DEF ForwardRecord
    <2> QED
      BY <1>3, <2>1, <2>4
  <1>6. Owed(s, after) <= faults' + (Credit("mark"))'
    <2>1. /\ Credit("mark") = IF pc = "mark" THEN 1 ELSE 0
          /\ (Credit("mark"))' = IF pc' = "mark" THEN 1 ELSE 0
      BY DEF Credit
    <2>2. Owed(s, before) <= faults + Credit("mark")
      BY <1>0
    <2> HIDE DEF s, before, after
    <2> QED
      BY <1>0, <1>3, <1>4, <1>5, <2>1, <2>2
  <1>7. ForwardPaid'
    BY <1>0, <1>1, <1>6 DEF ForwardPaid
  <1>8. Forward!Record \/ Forward!Mishap
    <2>1. [d \in DOMAIN inbox |-> KeyOf(d)]' = [d \in DOMAIN inbox |-> KeyOf(d)]
      BY <1>1 DEF Forwarded
    <2>2. before = DOMAIN disk.messagesDelivered /\ after = DOMAIN disk'.messagesDelivered
      BY DEF ForwardRecord
    <2>3. Forward!Items([d \in DOMAIN inbox |-> KeyOf(d)]) = ItemsOf(s)
      BY DEF Forward!Items, ItemsOf, Forwarded
    <2> HIDE DEF s, before, after
    <2> QED
      BY <1>2, <1>4, <2>1, <2>2, <2>3 DEF Forward!Record, Forward!Mishap
  <1> QED
    BY <1>7, <1>8

-----------------------------------------------------------------------------
(* From Graft to Zulip. *)

(* The items of the mirror are the comments the bridge has posted.         *)
LEMMA MirrorItems == \A j : j \in ItemsOf(Mirrored) <=> Posted(zulip, j)
PROOF
  BY DEF ItemsOf, Mirrored, BotPosts, Posted

(* A post is an item sent that is not on record, and is paid for.          *)
LEMMA MirrorSends ==
  ASSUME LedgerInv, [Next]_vars, Mirrored' # Mirrored
  PROVE  MirrorPaid' /\ Mirror!Send
PROOF
  <1>0. TypeOK /\ zulip \in Seq(Message) /\ comments \in Seq(Comment) /\ faults \in Nat /\ JobOK
    BY TypeFacts DEF LedgerInv, Truthful
  <1>1. /\ pc = "post" /\ zulip' = Append(zulip, BotPost(job.conv, job.comment)) /\ disk' = disk
        /\ \/ faults' = faults /\ pc' = "seen"
           \/ faults' = faults + 1 /\ pc' # "seen"
    BY <1>0, PostStep
  <1> DEFINE s == Mirrored
             t == Mirrored'
             d == Len(zulip) + 1
             record == MirrorRecord
  <1>2. /\ DOMAIN s \subseteq 1 .. Len(zulip) /\ DOMAIN t = DOMAIN s \cup {d}
        /\ \A e \in DOMAIN s : t[e] = s[e]
        /\ t[d] = job.comment /\ Len(zulip) \in Nat
    <2> DEFINE x == BotPost(job.conv, job.comment)
    <2>1. x \in Message /\ x.sender = "bot" /\ x.mirrors = job.comment
      <3>1. job.conv \in Conv /\ job.comment \in DOMAIN comments
        BY <1>0, <1>1 DEF JobOK, ReverseJob
      <3> QED
        BY <1>0, <3>1, BotPostType DEF BotPost
    <2> HIDE DEF x
    <2>2. /\ DOMAIN zulip = 1 .. Len(zulip) /\ DOMAIN zulip' = 1 .. Len(zulip) + 1
          /\ \A e \in DOMAIN zulip : zulip'[e] = zulip[e]
          /\ zulip'[Len(zulip) + 1] = x /\ Len(zulip) \in Nat
      BY <1>0, <1>1, <2>1, AppendLog DEF x
    <2>3. BotPosts' = BotPosts \cup {d} /\ BotPosts \subseteq 1 .. Len(zulip)
      BY <2>1, <2>2 DEF BotPosts
    <2>4. /\ \A e \in BotPosts : zulip'[e].mirrors = zulip[e].mirrors
          /\ zulip'[d].mirrors = job.comment
      BY <2>1, <2>2 DEF BotPosts
    <2> QED
      BY <2>2, <2>3, <2>4 DEF Mirrored
  <1>3. t[d] \notin record
    <2>1. SeenKey \notin DOMAIN disk.seenNotes
      BY <1>1 DEF LedgerInv, DueUnrecorded, Durable
    <2>2. \A k \in DOMAIN disk.seenNotes : k = <<CommentSeries(k[2]), k[2]>>
      BY DEF LedgerInv, SeenUnderSeries
    <2>3. \A k \in DOMAIN disk.seenNotes : k[2] = job.comment => k = SeenKey
      BY <2>2 DEF SeenKey
    <2> QED
      BY <1>2, <2>1, <2>3 DEF MirrorRecord
  <1>4. /\ Counted(t) /\ Owed(t, record) = Owed(s, record) + 1
        /\ Cardinality(Again(t)) \in Nat /\ Cardinality(Again(t)) <= Owed(s, record)
    <2>1. /\ d \notin DOMAIN s /\ ~(d < d)
          /\ \A e \in DOMAIN s : e < d /\ ~(d < e) /\ t[e] = s[e]
      BY <1>2
    <2>2. Counted(s)
      BY DEF LedgerInv, MirrorPaid
    <2> HIDE DEF s, t, d, record
    <2> QED
      BY <1>2, <1>3, <2>1, <2>2, SendingOwes
  <1>5. Owed(s, record) \in Nat /\ Owed(s, record) <= faults
    <2>1. Counted(s) /\ Owed(s, record) <= faults
      BY <1>0, <1>1 DEF LedgerInv, MirrorPaid, Credit
    <2> QED
      BY <2>1, RecordingPays
  <1>6. MirrorPaid'
    <2>1. MirrorRecord' = record
      BY <1>1 DEF MirrorRecord
    <2>2. (Credit("seen"))' = IF pc' = "seen" THEN 1 ELSE 0
      BY DEF Credit
    <2>3. Owed(t, record) <= faults' + (Credit("seen"))'
      BY <1>0, <1>1, <1>4, <1>5, <2>2
    <2> QED
      BY <1>4, <2>1, <2>3 DEF MirrorPaid
  <1>7. Mirror!Send
    <2>1. Mirror!Repeats(t) = Cardinality(Again(t))
      BY MirrorCardinality DEF Mirror!Repeats, Again
    <2>2. Mirror!Repeats(t) <= faults
      BY <1>0, <1>4, <1>5, <2>1
    <2>3. /\ s = [i \in BotPosts |-> zulip[i].mirrors]
          /\ t = [i \in BotPosts |-> zulip[i].mirrors]'
      BY DEF Mirrored
    <2>4. record = {k[2] : k \in DOMAIN disk.seenNotes} /\ d \in DOMAIN t \ DOMAIN s
      BY <1>2 DEF MirrorRecord
    <2>5. \A e \in DOMAIN s : e < d
      BY <1>2
    <2>6. {k[2] : k \in DOMAIN disk.seenNotes}' = {k[2] : k \in DOMAIN disk.seenNotes}
      BY <1>1
    <2> HIDE DEF s, t, d, record
    <2> QED
      BY <1>1, <1>2, <1>3, <2>2, <2>3, <2>4, <2>5, <2>6 DEF Mirror!Send
  <1> QED
    BY <1>6, <1>7

(* What gets on record was posted or looks like an echo.                   *)
LEMMA MirrorRecords ==
  ASSUME Truthful, [Next]_vars
  PROVE  MirrorRecord' \subseteq ItemsOf(Mirrored) \cup {j \in DOMAIN comments : LooksLikeEcho(j)}
PROOF
  <1>0. TypeOK
    BY DEF Truthful
  <1> DEFINE Fine(j) == Posted(zulip, j) \/ (j \in DOMAIN comments /\ LooksLikeEcho(j))
  <1>1. \A k \in DOMAIN mem.seenNotes \cup DOMAIN disk.seenNotes : Fine(k[2])
    <2>1. \A j : Mirrors(j) # {} <=> Posted(zulip, j)
      BY DEF Mirrors, Posted
    <2> QED
      BY <2>1 DEF Truthful, SeenWasHandled, SeenExists, LooksLikeEcho
  <1>2. \A j \in DOMAIN comments : Echo(j) => Fine(j)
    BY DEF Truthful, HashedWasSent, Echo, IsDelivered, LooksLikeEcho
  <1>3. pc = "seen" => Fine(job.comment)
    BY DEF Truthful
  <1>4. \A k \in DOMAIN disk'.seenNotes : Fine(k[2])
    <2> HIDE DEF Fine
    <2> QED
      BY <1>0, <1>1, <1>2, <1>3, RecordKeys
  <1> QED
    BY <1>4, MirrorItems DEF MirrorRecord

(* Any other step records, fails or is none of the ledger's business.      *)
LEMMA MirrorKeeps ==
  ASSUME Young, LedgerInv, [Next]_vars, Mirrored' = Mirrored
  PROVE  MirrorPaid' /\ (Mirror!Record \/ Mirror!Mishap)
PROOF
  <1>0. /\ TypeOK /\ Truthful /\ Durable /\ faults \in Nat
        /\ Counted(Mirrored) /\ Owed(Mirrored, MirrorRecord) <= faults + Credit("seen")
    BY TypeFacts DEF LedgerInv, Truthful, MirrorPaid
  <1> DEFINE s == Mirrored
             before == MirrorRecord
             after == MirrorRecord'
             excused == {j \in DOMAIN comments : LooksLikeEcho(j)}
  <1>2. before \subseteq after /\ after \subseteq ItemsOf(s) \cup excused
    <2>1. DOMAIN disk.seenNotes \subseteq DOMAIN disk'.seenNotes
      BY <1>0, DurableStep
    <2> QED
      BY <1>0, <2>1, MirrorRecords DEF MirrorRecord
  <1>3. /\ Owed(s, before) \in Nat /\ Owed(s, after) \in Nat
        /\ Owed(s, after) <= Owed(s, before)
        /\ \A k \in ItemsOf(s) : k \in after /\ k \notin before =>
             Owed(s, after) + 1 <= Owed(s, before)
    <2> HIDE DEF s, before, after
    <2> QED
      BY <1>0, <1>2, RecordingPays DEF s
  <1>4. faults' = faults \/ (faults' = faults + 1 /\ after = before)
    BY <1>0, FaultStep DEF MirrorRecord
  <1>5. pc = "seen" /\ pc' # "seen" /\ faults' = faults => Owed(s, after) + 1 <= Owed(s, before)
    <2> SUFFICES ASSUME pc = "seen", pc' # "seen", faults' = faults
                 PROVE  Owed(s, after) + 1 <= Owed(s, before)
      OBVIOUS
    <2>1. job.comment \in ItemsOf(s)
      BY <1>0, MirrorItems DEF Truthful
    <2>2. job.comment \notin before
      <3>1. SeenKey \notin DOMAIN disk.seenNotes
        BY <1>0 DEF LedgerInv, DueUnrecorded, Durable
      <3>2. \A k \in DOMAIN disk.seenNotes : k = <<CommentSeries(k[2]), k[2]>>
        BY DEF LedgerInv, SeenUnderSeries
      <3>3. \A k \in DOMAIN disk.seenNotes : k[2] = job.comment => k = SeenKey
        BY <3>2 DEF SeenKey
      <3> QED
        BY <3>1, <3>3 DEF MirrorRecord
    <2>3. ~Crash
      BY <1>0 DEF Crash, Fault
    <2>4. SeenKey \in DOMAIN mem'.seenNotes /\ disk' = mem'
      BY <1>0, <2>3, MarkStep
    <2>5. job.comment \in after
      <3>1. SeenKey[2] = job.comment /\ SeenKey \in DOMAIN disk'.seenNotes
        BY <2>4 DEF SeenKey
      <3>2. SeenKey[2] \in {k[2] : k \in DOMAIN disk'.seenNotes}
        BY <3>1
      <3> QED
        BY <3>1, <3>2 DEF MirrorRecord
    <2> QED
      BY <1>3, <2>1, <2>2, <2>5
  <1>6. Owed(s, after) <= faults' + (Credit("seen"))'
    <2>1. /\ Credit("seen") = IF pc = "seen" THEN 1 ELSE 0
          /\ (Credit("seen"))' = IF pc' = "seen" THEN 1 ELSE 0
      BY DEF Credit
    <2>2. Owed(s, before) <= faults + Credit("seen")
      BY <1>0
    <2> HIDE DEF s, before, after
    <2> QED
      BY <1>0, <1>3, <1>4, <1>5, <2>1, <2>2
  <1>7. MirrorPaid'
    BY <1>0, <1>6 DEF MirrorPaid
  <1>8. Mirror!Record \/ Mirror!Mishap
    <2>1. [i \in BotPosts |-> zulip[i].mirrors]' = [i \in BotPosts |-> zulip[i].mirrors]
      BY DEF Mirrored
    <2>2. /\ before = {k[2] : k \in DOMAIN disk.seenNotes}
          /\ after = {k[2] : k \in DOMAIN disk.seenNotes}'
      BY DEF MirrorRecord
    <2>3. Mirror!Items([i \in BotPosts |-> zulip[i].mirrors]) = ItemsOf(s)
      BY DEF Mirror!Items, ItemsOf, Mirrored
    <2> HIDE DEF s, before, after
    <2> QED
      BY <1>2, <1>4, <2>1, <2>2, <2>3 DEF Mirror!Record, Mirror!Mishap
  <1> QED
    BY <1>7, <1>8

-----------------------------------------------------------------------------
(* The two refinements. *)

(* Nothing is sent, recorded or owed at the start.                         *)
LEMMA LedgerStart == Init => LedgerInv /\ Forward!Init /\ Mirror!Init
PROOF
  <1> SUFFICES ASSUME Init PROVE LedgerInv /\ Forward!Init /\ Mirror!Init
    OBVIOUS
  <1>1. /\ Truthful /\ faults = 0 /\ pc = "idle"
        /\ DOMAIN inbox = {} /\ DOMAIN zulip = {}
        /\ DOMAIN mem.messagesDelivered = {} /\ DOMAIN disk.messagesDelivered = {}
        /\ DOMAIN mem.seenNotes = {} /\ DOMAIN disk.seenNotes = {}
    BY TruthfulInit
    DEF Init, StateInit, RemotesInit, PassInit, EmptyState, EmptyMap
  <1>2. Durable /\ SeenUnderSeries /\ DueUnrecorded
    BY <1>1 DEF Durable, SeenUnderSeries, DueUnrecorded
  <1>3. /\ DOMAIN Forwarded = {} /\ DOMAIN Mirrored = {}
        /\ ForwardRecord = {} /\ MirrorRecord = {}
    BY <1>1 DEF Forwarded, Mirrored, BotPosts, ForwardRecord, MirrorRecord
  <1>4. ASSUME NEW s, DOMAIN s = {}
        PROVE  Counted(s) /\ Owed(s, {}) = 0
    <2>1. Again(s) = {} /\ ItemsOf(s) = {} /\ ItemsOf(s) \ {} = {}
      BY <1>4 DEF Again, ItemsOf
    <2> QED
      BY <2>1, FS_EmptySet DEF Counted, Owed
  <1>5. /\ Counted(Forwarded) /\ Owed(Forwarded, {}) = 0
        /\ Counted(Mirrored) /\ Owed(Mirrored, {}) = 0
    BY <1>3, <1>4
  <1>6. ForwardPaid /\ MirrorPaid
    BY <1>1, <1>3, <1>5 DEF ForwardPaid, MirrorPaid, Credit
  <1>7. Forward!Init
    BY <1>1, <1>3 DEF Forward!Init, ForwardRecord
  <1>8. Mirror!Init
    BY <1>1, <1>3 DEF Mirror!Init, Mirrored, MirrorRecord
  <1> QED
    BY <1>1, <1>2, <1>6, <1>7, <1>8 DEF LedgerInv

(* Every step of the bridge keeps the account and is a step of either       *)
(* ledger.                                                                 *)
LEMMA LedgerStep ==
  ASSUME Young, LedgerInv, [Next]_vars
  PROVE  /\ LedgerInv'
         /\ Forward!Next
         /\ Mirror!Next
PROOF
  <1>1. Truthful' /\ Durable' /\ SeenUnderSeries' /\ DueUnrecorded'
    BY TruthfulStep, DurableStep, SeriesStep, DueStep DEF LedgerInv, Truthful
  <1>2. ForwardPaid' /\ Forward!Next
    BY ForwardSends, ForwardKeeps DEF Forward!Next
  <1>3. MirrorPaid' /\ Mirror!Next
    BY MirrorSends, MirrorKeeps DEF Mirror!Next
  <1> QED
    BY <1>1, <1>2, <1>3 DEF LedgerInv

(* Forwarding is at least once with repetitions paid for, for every number *)
(* of series, messages, requests and faults: what is on record was         *)
(* accepted, stays on record and is not sent again, and the messages sent  *)
(* twice are never more than the answers lost, saves failed and crashes    *)
(* there were (bridge.go:319-332, state.go:265-279).  This is while no     *)
(* record can have expired: prune forgets a message after the retention,   *)
(* and one still in the window is sent again then.                         *)
THEOREM ForwardingIsPaidFor ==
  Spec /\ []Young => ForwardingKeepsLedger
PROOF
  <1>1. Init => LedgerInv /\ Forward!Init
    BY LedgerStart
  <1>2. LedgerInv /\ Young /\ [Next]_vars => LedgerInv' /\ [Forward!Next]_(Forward!ledger)
    BY LedgerStep
  <1> QED
    BY <1>1, <1>2, PTL DEF Spec, ForwardingKeepsLedger, Forward!Spec

(* The same of mirroring, whose record may also name the comments that     *)
(* look like echoes (bridge.go:348-376, state.go:281-295).                 *)
THEOREM MirroringIsPaidFor ==
  Spec /\ []Young => MirroringKeepsLedger
PROOF
  <1>1. Init => LedgerInv /\ Mirror!Init
    BY LedgerStart
  <1>2. LedgerInv /\ Young /\ [Next]_vars => LedgerInv' /\ [Mirror!Next]_(Mirror!ledger)
    BY LedgerStep
  <1> QED
    BY <1>1, <1>2, PTL DEF Spec, MirroringKeepsLedger, Mirror!Spec

-----------------------------------------------------------------------------
(* Delivered once. *)

(* Every reply Graft accepted is on record in memory, but for the one the  *)
(* pass is about to record.                                                *)
AllRecorded ==
  \A d \in DOMAIN inbox :
    \/ KeyOf(d) \in DOMAIN mem.messagesDelivered
    \/ pc = "mark" /\ KeyOf(d) = JobKey

OnceInv ==
  /\ TypeOK /\ Durable /\ DueUnrecorded
  /\ AllRecorded /\ NoDuplicateDelivery

(* With every answer received and no crash, each step keeps the memory's   *)
(* record complete: a save that fails does not take back what the memory   *)
(* has recorded (state.go:139-167).                                        *)
LEMMA OnceStep ==
  ASSUME FaultKinds \cap {"lostAck", "crash"} = {}, Young, OnceInv, [Next]_vars
  PROVE  OnceInv'
PROOF
  <1>0. TypeOK /\ inbox \in Seq(Delivery)
    BY TypeFacts DEF OnceInv
  <1>1. TypeOK' /\ Durable' /\ DueUnrecorded'
    BY <1>0, TypeStep, DurableStep, DueStep DEF OnceInv
  <1>2. CASE inbox' # inbox
    <2> DEFINE n == Len(inbox) + 1
    <2>1. /\ pc = "reply" /\ inbox' = Append(inbox, JobReply) /\ mem' = mem
          /\ pc' = "mark" /\ job' = job
      BY <1>0, <1>2, ReplyStep
    <2>2. /\ DOMAIN inbox' = DOMAIN inbox \cup {n}
          /\ \A d \in DOMAIN inbox : inbox'[d] = inbox[d]
          /\ inbox'[n].note = job.note /\ inbox'[n].msg = job.msg
      <3>1. JobReply \in Delivery
        BY <1>0, <2>1, ReplyType
      <3> QED
        BY <1>0, <2>1, <3>1, AppendLog DEF JobReply
    <2>3. \A d \in DOMAIN inbox :
            <<SeriesOf[inbox[d].note], inbox[d].msg>> \in DOMAIN mem.messagesDelivered
      BY <2>1 DEF OnceInv, AllRecorded, KeyOf
    <2>4. <<SeriesOf[job.note], job.msg>> \notin DOMAIN mem.messagesDelivered
      BY <2>1 DEF OnceInv, DueUnrecorded, JobKey
    <2> HIDE DEF n
    <2>5. AllRecorded'
      BY <2>1, <2>2, <2>3 DEF AllRecorded, JobKey, KeyOf
    <2>6. NoDuplicateDelivery'
      <3>1. \A d, e \in DOMAIN inbox :
              inbox[d].msg = inbox[e].msg /\ SeriesOf[inbox[d].note] = SeriesOf[inbox[e].note]
              => d = e
        BY DEF OnceInv, NoDuplicateDelivery, KeyOf
      <3>2. \A d, e \in DOMAIN inbox' :
              /\ inbox'[d].msg = inbox'[e].msg
              /\ SeriesOf[inbox'[d].note] = SeriesOf[inbox'[e].note]
              => d = e
        BY <2>2, <2>3, <2>4, <3>1
      <3> QED
        BY <3>2 DEF NoDuplicateDelivery, KeyOf
    <2> QED
      BY <1>1, <2>5, <2>6 DEF OnceInv
  <1>3. CASE inbox' = inbox
    <2>1. \A d \in DOMAIN inbox : KeyOf(d)' = KeyOf(d)
      BY <1>3 DEF KeyOf
    <2>2. DOMAIN mem.messagesDelivered \subseteq DOMAIN mem'.messagesDelivered
      BY <1>0, DurableStep DEF OnceInv
    <2>3. ~Crash
      BY DEF Crash, Fault
    <2>4. pc = "mark" => \/ pc' = "mark" /\ JobKey' = JobKey
                         \/ JobKey \in DOMAIN mem'.messagesDelivered
      BY <1>0, <2>3, MarkStep, OthersDoNotRecord DEF JobKey
    <2>5. AllRecorded'
      BY <1>3, <2>1, <2>2, <2>4 DEF OnceInv, AllRecorded
    <2>6. NoDuplicateDelivery'
      BY <1>3, <2>1 DEF OnceInv, NoDuplicateDelivery
    <2> QED
      BY <1>1, <2>5, <2>6 DEF OnceInv
  <1> QED
    BY <1>2, <1>3

(* While no record can have expired, a message is accepted for a series    *)
(* once, however many passes see it, whatever else fails: only an answer   *)
(* that is lost or a crash between the reply and its record makes Graft    *)
(* get a message twice, a save that fails does not (bridge.go:310-333).    *)
THEOREM DeliveredOnce ==
  ASSUME FaultKinds \cap {"lostAck", "crash"} = {}
  PROVE  Spec /\ []Young => []NoDuplicateDelivery
PROOF
  <1>1. Init => OnceInv
    <2>1. Init => TypeOK /\ Durable /\ DueUnrecorded
      BY LedgerStart DEF LedgerInv, Truthful
    <2>2. Init => DOMAIN inbox = {}
      BY DEF Init, RemotesInit
    <2> QED
      BY <2>1, <2>2 DEF OnceInv, AllRecorded, NoDuplicateDelivery
  <1>2. OnceInv /\ Young /\ [Next]_vars => OnceInv'
    BY OnceStep
  <1>3. OnceInv => NoDuplicateDelivery
    BY DEF OnceInv
  <1> QED
    BY <1>1, <1>2, <1>3, PTL DEF Spec

-----------------------------------------------------------------------------
(* No echoes. *)

(* In the loop that mirrors, what Graft made from the bridge's own reply   *)
(* is recognised.                                                          *)
EchoesKnown ==
  pc = "reverse" => \A j \in DOMAIN comments : comments[j].origin # 0 => Echo(j)

(* What is mirrored, or about to be, was written on the repository.        *)
NativeMirrored ==
  /\ pc \in {"post", "seen"} => comments[job.comment].origin = 0
  /\ \A i \in DOMAIN zulip : zulip[i].sender = "bot" =>
       /\ zulip[i].mirrors \in DOMAIN comments
       /\ comments[zulip[i].mirrors].origin = 0

(* A new comment is written on the repository, or is a reply that Graft    *)
(* accepted and republishes, with its marker or without.                   *)
LEMMA CommentStep ==
  ASSUME TypeOK, [Next]_vars
  PROVE  \A j \in DOMAIN comments' \ DOMAIN comments :
           \/ comments'[j].origin = 0
           \/ /\ comments'[j].marked \in EchoMarked
              /\ \E d \in DOMAIN inbox : comments'[j].text = inbox[d].text
PROOF
  <1>0. comments \in Seq(Comment) /\ inbox \in Seq(Delivery)
    BY TypeFacts
  <1>1. ASSUME NEW n \in Replyable, NEW t \in Text, RepoComment(n, t)
        PROVE  \A j \in DOMAIN comments' \ DOMAIN comments : comments'[j].origin = 0
    <2> DEFINE x == [note |-> n, text |-> t, marked |-> FALSE, origin |-> 0]
    <2>1. x \in Comment /\ x.origin = 0 /\ comments' = Append(comments, x)
      BY <1>1, RemotesAssumption DEF Comment, RepoComment
    <2> HIDE DEF x
    <2> QED
      BY <1>0, <2>1, AppendLog
  <1>2. ASSUME NEW d \in DOMAIN inbox, NEW marked \in EchoMarked, Republish(d, marked)
        PROVE  \A j \in DOMAIN comments' \ DOMAIN comments :
                 comments'[j].marked \in EchoMarked /\ comments'[j].text = inbox[d].text
    <2> DEFINE x == [note |-> inbox[d].note, text |-> inbox[d].text,
                     marked |-> marked, origin |-> d]
    <2>0. inbox[d] \in Delivery /\ d \in Nat /\ marked \in BOOLEAN
      BY <1>0, RemotesAssumption
    <2>1. /\ x \in Comment /\ x.marked \in EchoMarked /\ x.text = inbox[d].text
          /\ comments' = Append(comments, x)
      BY <1>2, <2>0 DEF Comment, Delivery, Republish
    <2> HIDE DEF x
    <2> QED
      BY <1>0, <2>1, AppendLog
  <1>3. \/ comments' = comments
        \/ \E n \in Replyable, t \in Text : RepoComment(n, t)
        \/ \E d \in DOMAIN inbox, marked \in EchoMarked : Republish(d, marked)
    BY StepCases, LookingStep
    DEF vars, Quiet, PickMessage, Bind, Link, Reply, MarkMessage, MarkHash, SuppressEcho,
        PickComment, Post, MarkSeen, AdminStep, BindNote, BindLink, Unbind,
        Remote, UserPosts, Tick, Crash, remoteVars
  <1> QED
    BY <1>1, <1>2, <1>3

(* The pass only picks a comment that is no echo as far as it can tell,    *)
(* and posts the one it has picked (bridge.go:348-376).                    *)
LEMMA NativeStep ==
  ASSUME TypeOK, EchoesKnown, NativeMirrored, [Next]_vars
  PROVE  NativeMirrored'
PROOF
  <1>0. /\ Extends(comments) /\ Extends(zulip) /\ JobOK
        /\ \A i \in DOMAIN zulip' \ DOMAIN zulip :
             zulip'[i].sender = "bot" => pc = "post" /\ zulip'[i].mirrors = job.comment
    BY LogStep, TypeFacts
  <1>1. pc \in {"post", "seen"} => job.comment \in DOMAIN comments
    BY <1>0 DEF JobOK
  <1>2. pc' \in {"post", "seen"} =>
          job'.comment \in DOMAIN comments /\ comments[job'.comment].origin = 0
    <2>1. CASE pc' = pc
      BY <1>1, <2>1, OthersDoNotRecord DEF NativeMirrored
    <2>2. CASE pc' = "post" /\ pc # "post"
      <3>1. PICK j \in pass.notes : PickComment(j)
        BY <2>2, MirrorPoint
      <3>2. job'.comment = j /\ ~Echo(j) /\ pc = "reverse" /\ j \in DOMAIN comments
        BY <3>1, TypeFacts DEF PickComment, NextComment
      <3> QED
        BY <3>2 DEF EchoesKnown
    <2>3. CASE pc' = "seen" /\ pc # "seen"
      BY <1>1, <2>3, RecordingAfterSending DEF NativeMirrored
    <2> QED
      BY <2>1, <2>2, <2>3
  <1>3. \A i \in DOMAIN zulip' : zulip'[i].sender = "bot" =>
          /\ zulip'[i].mirrors \in DOMAIN comments
          /\ comments[zulip'[i].mirrors].origin = 0
    BY <1>0, <1>1 DEF NativeMirrored, Extends
  <1> QED
    BY <1>0, <1>2, <1>3 DEF NativeMirrored, Extends

(* Where Graft marks what it republishes, that is what it is known by.     *)
EchoesMarked == \A j \in DOMAIN comments : comments[j].origin # 0 => comments[j].marked

MarkedInv == TypeOK /\ EchoesMarked /\ NativeMirrored

(* A comment Graft made from the bridge's own reply is not posted to Zulip *)
(* when Graft marks it, whatever fails: an answer lost, a crash, a save    *)
(* that fails or a record that has expired does not matter to the marker   *)
(* (bridge.go:351-352).                                                    *)
THEOREM MarkedEchoesStop ==
  ASSUME EchoMarked \subseteq {TRUE}
  PROVE  Spec => []EchoNotMirrored
PROOF
  <1>1. Init => MarkedInv
    BY TypeInit DEF MarkedInv, EchoesMarked, NativeMirrored, Init, RemotesInit, PassInit
  <1>2. MarkedInv /\ [Next]_vars => MarkedInv'
    <2> SUFFICES ASSUME MarkedInv, [Next]_vars PROVE MarkedInv'
      OBVIOUS
    <2>1. TypeOK' /\ Extends(comments)
      BY TypeStep, LogStep DEF MarkedInv
    <2>2. \A j \in DOMAIN comments' \ DOMAIN comments :
            comments'[j].origin = 0 \/ comments'[j].marked
      BY CommentStep DEF MarkedInv
    <2>3. EchoesMarked'
      BY <2>1, <2>2 DEF MarkedInv, EchoesMarked, Extends
    <2>4. NativeMirrored'
      BY NativeStep DEF MarkedInv, EchoesMarked, EchoesKnown, Echo
    <2> QED
      BY <2>1, <2>3, <2>4 DEF MarkedInv
  <1>3. MarkedInv => EchoNotMirrored
    BY DEF MarkedInv, NativeMirrored, EchoNotMirrored
  <1> QED
    BY <1>1, <1>2, <1>3, PTL DEF Spec

(* Where it does not, an echo is known by its text: every text the bridge  *)
(* has delivered is on record in memory, but for the one it is about to    *)
(* record.                                                                 *)
TextsRecorded ==
  \A d \in DOMAIN inbox :
    \/ inbox[d].text \in DOMAIN mem.delivered
    \/ pc \in {"mark", "hash"} /\ inbox[d].text = zulip[job.msg].text

EchoesSent ==
  \A j \in DOMAIN comments : comments[j].origin # 0 =>
    \E d \in DOMAIN inbox : comments[j].text = inbox[d].text

TextInv == TypeOK /\ Durable /\ TextsRecorded /\ EchoesSent /\ NativeMirrored

(* From Graft's answer to the next message the pass records the text, and  *)
(* nobody else moves it on (bridge.go:323-333).                            *)
LEMMA HashStep ==
  ASSUME FaultKinds \cap {"lostAck", "save", "crash"} = {},
         TypeOK, [Next]_vars, pc \in {"mark", "hash"}
  PROVE  \/ pc' \in {"mark", "hash"} /\ job' = job
         \/ zulip[job.msg].text \in DOMAIN mem'.delivered
PROOF
  <1>0. /\ StateOK(mem) /\ StateOK(disk) /\ now \in Nat /\ JobOK /\ Retention \in Nat
        /\ zulip \in Seq(Message)
    BY TypeFacts, RetentionAssumption
  <1>1. CASE MarkMessage
    <2>1. PICK ok \in BOOLEAN : /\ SaveOutcome(ok)
                                /\ ok => pc' = "hash" /\ job' = job
      BY <1>1 DEF MarkMessage
    <2> QED
      BY <2>1 DEF SaveOutcome, Fault
  <1>2. CASE MarkHash
    <2>1. PICK ok \in BOOLEAN : /\ SaveOutcome(ok)
                                /\ MarkDelivered(zulip[job.msg].text, ok)
      BY <1>2 DEF MarkHash
    <2>2. zulip[job.msg].text \in Text
      BY <1>0 DEF JobOK, Message, UserMessage, BotMessage
    <2>3. PICK s : /\ StateOK(s) /\ Save(s, ok)
                   /\ s.delivered = Put(mem.delivered, zulip[job.msg].text, now)
      BY <1>0, <2>1, <2>2, MarkDeliveredState
    <2>4. zulip[job.msg].text \in DOMAIN Unexpired(s.delivered)
      BY <1>0, <2>3 DEF Unexpired, Restrict, Put, Fresh
    <2>5. mem' = Prune(s)
      BY <2>3 DEF Save
    <2> QED
      BY <2>3, <2>4, <2>5, PruneState
  <1>3. ASSUME ~MarkMessage, ~MarkHash PROVE pc' = pc /\ job' = job
    BY <1>3, StepCases
    DEF vars, Looking, FetchMessages, FetchOutbox, OutboxesDone, ExplicitKey, ExplicitDone,
        TitlePair, TitleDone, SkipMessage, ForwardDone, SkipComment, NextComment, ReverseDone,
        PickMessage, Bind, Link, Reply, MarkSeen, SuppressEcho, PickComment, Post,
        Tick, Crash, Fault, passVars
  <1> QED
    BY <1>1, <1>2, <1>3

(* With every answer received, every save made and no crash, each step     *)
(* keeps the texts on record.                                              *)
LEMMA TextStep ==
  ASSUME FaultKinds \cap {"lostAck", "save", "crash"} = {}, Young, TextInv, [Next]_vars
  PROVE  TextInv'
PROOF
  <1>0. /\ TypeOK /\ TypeOK' /\ JobOK /\ Durable' /\ "crash" \notin FaultKinds
        /\ Extends(zulip) /\ Extends(inbox) /\ Extends(comments)
        /\ DOMAIN mem.delivered \subseteq DOMAIN mem'.delivered
    BY TypeStep, TypeFacts, DurableStep, LogStep DEF TextInv
  <1>1. NativeMirrored'
    <2>1. EchoesKnown
      BY DEF TextInv, TextsRecorded, EchoesSent, EchoesKnown, Echo, IsDelivered
    <2> QED
      BY <2>1, NativeStep DEF TextInv
  <1>2. EchoesSent'
    <2>1. \A j \in DOMAIN comments' \ DOMAIN comments : comments'[j].origin # 0 =>
            \E d \in DOMAIN inbox : comments'[j].text = inbox[d].text
      BY <1>0, CommentStep
    <2>2. \A j \in DOMAIN comments' : comments'[j].origin # 0 =>
            \E d \in DOMAIN inbox : comments'[j].text = inbox[d].text
      BY <1>0, <2>1 DEF TextInv, EchoesSent, Extends
    <2> QED
      BY <1>0, <2>2 DEF EchoesSent, Extends
  <1>3. \A d \in DOMAIN inbox :
          \/ inbox[d].text \in DOMAIN mem'.delivered
          \/ pc' \in {"mark", "hash"} /\ inbox[d].text = zulip'[job'.msg].text
    <2>1. CASE pc \in {"mark", "hash"}
      <3>1. job.msg \in DOMAIN zulip
        BY <1>0, <2>1 DEF JobOK
      <3> QED
        BY <1>0, <2>1, <3>1, HashStep DEF TextInv, TextsRecorded, Extends
    <2>2. CASE pc \notin {"mark", "hash"}
      BY <1>0, <2>2 DEF TextInv, TextsRecorded
    <2> QED
      BY <2>1, <2>2
  <1>4. \A d \in DOMAIN inbox' \ DOMAIN inbox :
          pc' = "mark" /\ inbox'[d].text = zulip'[job'.msg].text
    <2> SUFFICES ASSUME NEW d \in DOMAIN inbox' \ DOMAIN inbox
                 PROVE  pc' = "mark" /\ inbox'[d].text = zulip'[job'.msg].text
      OBVIOUS
    <2>1. inbox'[d] = JobReply /\ pc' = "mark" /\ job' = job /\ zulip' = zulip
      BY <1>0, LogStep, ReplyStep
    <2> QED
      BY <2>1 DEF JobReply
  <1>5. TextsRecorded'
    BY <1>0, <1>3, <1>4 DEF TextsRecorded, Extends
  <1> QED
    BY <1>0, <1>1, <1>2, <1>5 DEF TextInv

(* "Comment notes whose content came from the fediverse (i.e. our own      *)
(* outbound posts, echoed back) are dropped" (bridge.go:339-341), with     *)
(* Graft's marker or without, while no record can have expired and as long *)
(* as every delivery is followed by its hash: an answer lost, a save that  *)
(* fails or a crash in between leaves a text the bridge does not know as   *)
(* its own (bridge.go:323-333).                                            *)
THEOREM EchoesStop ==
  ASSUME FaultKinds \cap {"lostAck", "save", "crash"} = {}
  PROVE  Spec /\ []Young => []EchoNotMirrored
PROOF
  <1>1. Init => TextInv
    BY LedgerStart DEF LedgerInv, Truthful, TextInv, TextsRecorded, EchoesSent, NativeMirrored,
                       Init, RemotesInit, PassInit
  <1>2. TextInv /\ Young /\ [Next]_vars => TextInv'
    BY TextStep
  <1>3. TextInv => EchoNotMirrored
    BY DEF TextInv, NativeMirrored, EchoNotMirrored
  <1> QED
    BY <1>1, <1>2, <1>3, PTL DEF Spec
=============================================================================
