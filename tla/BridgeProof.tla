---------------------------- MODULE BridgeProof ----------------------------
(***************************************************************************)
(* The bridge's invariants, for every number of series, conversations,     *)
(* notes, messages, requests and faults.                                   *)
(***************************************************************************)
EXTENDS Bridge, TLAPS

(* The operators of State: what its Go maps and its saves preserve, for any *)
(* keys and values.                                                        *)

\* Adding one entry to a map gives a map, with the key added and every other
\* entry kept (a Go map assignment, as in state.go:198, 243, 259, 277, 293).
LEMMA PutMap ==
  ASSUME NEW K, NEW V, NEW m, IsMap(m, K, V), NEW k \in K, NEW v \in V
  PROVE  /\ IsMap(Put(m, k, v), K, V)
         /\ DOMAIN Put(m, k, v) = DOMAIN m \cup {k}
         /\ Put(m, k, v)[k] = v
         /\ \A x \in DOMAIN m : x # k => Put(m, k, v)[x] = m[x]
  BY DEF IsMap, Put

\* Deleting entries from a map gives a map with the others kept (Go's delete,
\* as in state.go:126, 208, 211).
LEMMA RestrictMap ==
  ASSUME NEW K, NEW V, NEW m, IsMap(m, K, V), NEW D, D \subseteq DOMAIN m
  PROVE  /\ IsMap(Restrict(m, D), K, V)
         /\ DOMAIN Restrict(m, D) = D
         /\ \A x \in D : Restrict(m, D)[x] = m[x]
  BY DEF IsMap, Restrict

\* prune keeps the entries that have not expired, unchanged, and only those
\* (state.go:121-130).
LEMMA UnexpiredMap ==
  ASSUME NEW K, NEW V, NEW m, IsMap(m, K, V)
  PROVE  /\ IsMap(Unexpired(m), K, V)
         /\ DOMAIN Unexpired(m) = {k \in DOMAIN m : Fresh(m[k])}
         /\ \A k \in DOMAIN Unexpired(m) : Unexpired(m)[k] = m[k]
  BY RestrictMap DEF Unexpired

\* A pruned state is a state with the same bindings and links, and pruned
\* records (state.go:121-130).
LEMMA PruneState ==
  ASSUME NEW s, StateOK(s)
  PROVE  /\ StateOK(Prune(s))
         /\ Prune(s).conversationNotes = s.conversationNotes
         /\ Prune(s).issueConversations = s.issueConversations
         /\ Prune(s).delivered = Unexpired(s.delivered)
         /\ Prune(s).messagesDelivered = Unexpired(s.messagesDelivered)
         /\ Prune(s).seenNotes = Unexpired(s.seenNotes)
<1>1. DOMAIN s = {"conversationNotes", "issueConversations", "delivered",
                  "messagesDelivered", "seenNotes"}
  BY DEF StateOK, EmptyState
<1>2. /\ DOMAIN Prune(s) = DOMAIN s
      /\ Prune(s).conversationNotes = s.conversationNotes
      /\ Prune(s).issueConversations = s.issueConversations
      /\ Prune(s).delivered = Unexpired(s.delivered)
      /\ Prune(s).messagesDelivered = Unexpired(s.messagesDelivered)
      /\ Prune(s).seenNotes = Unexpired(s.seenNotes)
  BY <1>1 DEF Prune
<1>3. /\ IsMap(Unexpired(s.delivered), Text, Nat)
      /\ IsMap(Unexpired(s.messagesDelivered), SeriesNames \X Nat, Nat)
      /\ IsMap(Unexpired(s.seenNotes), SeriesNames \X Nat, Nat)
  BY UnexpiredMap DEF StateOK
<1> QED
  BY <1>2, <1>3 DEF StateOK

\* Saving a state leaves the memory and the file well formed, whether or not
\* the file could be replaced (state.go:139-167).
LEMMA SaveState ==
  ASSUME StateOK(disk), NEW s, StateOK(s), NEW ok \in BOOLEAN, Save(s, ok)
  PROVE  /\ StateOK(mem') /\ StateOK(disk') /\ now' = now
         /\ mem' = Prune(s)
         /\ disk' \in {disk, mem'}
  BY PruneState DEF Save

-----------------------------------------------------------------------------
(* The mutators.  Each is a Save of a well-formed state that changes one    *)
(* named map of the memory, or two.                                         *)

\* The state s has the records of the memory: bindings are another matter.
SameRecords(s) ==
  /\ s.delivered = mem.delivered
  /\ s.messagesDelivered = mem.messagesDelivered
  /\ s.seenNotes = mem.seenNotes

\* SetConversationNote keeps the state well formed and touches no record
\* (state.go:195-200).
LEMMA SetNoteState ==
  ASSUME StateOK(mem), StateOK(disk), NEW c \in Conv, NEW n \in Note,
         NEW ok \in BOOLEAN, SetConversationNote(c, n, ok)
  PROVE  \E s : /\ StateOK(s) /\ Save(s, ok)
                /\ SameRecords(s)
<1> DEFINE s == [mem EXCEPT !.conversationNotes = Put(@, c, n)]
<1>1. DOMAIN mem = {"conversationNotes", "issueConversations", "delivered",
                    "messagesDelivered", "seenNotes"}
  BY DEF StateOK, EmptyState
<1>2. IsMap(Put(mem.conversationNotes, c, n), Conv, Note)
  BY PutMap DEF StateOK
<1>3. StateOK(s) /\ SameRecords(s)
  BY <1>1, <1>2 DEF StateOK, SameRecords
<1> QED
  BY <1>3 DEF SetConversationNote

\* SetIssueConversation, likewise (state.go:240-245).
LEMMA SetIssueState ==
  ASSUME StateOK(mem), StateOK(disk), NEW n \in Note, NEW c \in Conv,
         NEW ok \in BOOLEAN, SetIssueConversation(SeriesOf[n], UrlOf[n], c, ok)
  PROVE  \E s : /\ StateOK(s) /\ Save(s, ok)
                /\ SameRecords(s)
<1> DEFINE u == <<SeriesOf[n], UrlOf[n]>>
           s == [mem EXCEPT !.issueConversations = Put(@, u, c)]
<1>1. DOMAIN mem = {"conversationNotes", "issueConversations", "delivered",
                    "messagesDelivered", "seenNotes"}
  BY DEF StateOK, EmptyState
<1>2. u \in IssueKeys
  BY DEF IssueKeys, SeriesNames
<1>3. IsMap(Put(mem.issueConversations, u, c), IssueKeys, Conv)
  BY <1>2, PutMap DEF StateOK
<1>4. StateOK(s) /\ SameRecords(s)
  BY <1>1, <1>3 DEF StateOK, SameRecords
<1> QED
  BY <1>4 DEF SetIssueConversation

\* DeleteConversationNote, likewise (state.go:205-215).
LEMMA DeleteState ==
  ASSUME StateOK(mem), StateOK(disk), NEW c \in Conv,
         NEW ok \in BOOLEAN, DeleteConversationNote(c, ok)
  PROVE  \E s : /\ StateOK(s) /\ Save(s, ok)
                /\ SameRecords(s)
<1> DEFINE cn == mem.conversationNotes
           ic == mem.issueConversations
           s == [mem EXCEPT
                   !.conversationNotes  = Restrict(@, DOMAIN @ \ {c}),
                   !.issueConversations = Restrict(@, {u \in DOMAIN @ : @[u] # c})]
<1>1. DOMAIN mem = {"conversationNotes", "issueConversations", "delivered",
                    "messagesDelivered", "seenNotes"}
  BY DEF StateOK, EmptyState
<1>2. /\ IsMap(Restrict(cn, DOMAIN cn \ {c}), Conv, Note)
      /\ IsMap(Restrict(ic, {u \in DOMAIN ic : ic[u] # c}), IssueKeys, Conv)
  BY RestrictMap DEF StateOK
<1>3. StateOK(s) /\ SameRecords(s)
  BY <1>1, <1>2 DEF StateOK, SameRecords
<1> QED
  BY <1>3 DEF DeleteConversationNote, Without

\* MarkDelivered adds exactly one record, of now (state.go:256-261).
LEMMA MarkDeliveredState ==
  ASSUME StateOK(mem), StateOK(disk), now \in Nat, NEW h \in Text,
         NEW ok \in BOOLEAN, MarkDelivered(h, ok)
  PROVE  \E s : /\ StateOK(s) /\ Save(s, ok)
                /\ s.delivered = Put(mem.delivered, h, now)
                /\ s.messagesDelivered = mem.messagesDelivered
                /\ s.seenNotes = mem.seenNotes
<1> DEFINE s == [mem EXCEPT !.delivered = Put(@, h, now)]
<1>1. DOMAIN mem = {"conversationNotes", "issueConversations", "delivered",
                    "messagesDelivered", "seenNotes"}
  BY DEF StateOK, EmptyState
<1>2. IsMap(Put(mem.delivered, h, now), Text, Nat)
  BY PutMap DEF StateOK
<1>3. /\ StateOK(s)
      /\ s.delivered = Put(mem.delivered, h, now)
      /\ s.messagesDelivered = mem.messagesDelivered
      /\ s.seenNotes = mem.seenNotes
  BY <1>1, <1>2 DEF StateOK
<1> QED
  BY <1>3 DEF MarkDelivered

\* MarkMessageDelivered adds exactly one record, of now (state.go:274-279).
LEMMA MarkMessageState ==
  ASSUME StateOK(mem), StateOK(disk), now \in Nat,
         NEW series \in SeriesNames, NEW m \in Nat,
         NEW ok \in BOOLEAN, MarkMessageDelivered(series, m, ok)
  PROVE  \E s : /\ StateOK(s) /\ Save(s, ok)
                /\ s.delivered = mem.delivered
                /\ s.messagesDelivered = Put(mem.messagesDelivered, <<series, m>>, now)
                /\ s.seenNotes = mem.seenNotes
<1> DEFINE s == [mem EXCEPT !.messagesDelivered = Put(@, <<series, m>>, now)]
<1>1. DOMAIN mem = {"conversationNotes", "issueConversations", "delivered",
                    "messagesDelivered", "seenNotes"}
  BY DEF StateOK, EmptyState
<1>2. IsMap(Put(mem.messagesDelivered, <<series, m>>, now), SeriesNames \X Nat, Nat)
  BY PutMap DEF StateOK
<1>3. /\ StateOK(s)
      /\ s.delivered = mem.delivered
      /\ s.messagesDelivered = Put(mem.messagesDelivered, <<series, m>>, now)
      /\ s.seenNotes = mem.seenNotes
  BY <1>1, <1>2 DEF StateOK
<1> QED
  BY <1>3 DEF MarkMessageDelivered

\* MarkSeenNote adds exactly one record, of now (state.go:290-295).
LEMMA MarkSeenState ==
  ASSUME StateOK(mem), StateOK(disk), now \in Nat,
         NEW series \in SeriesNames, NEW j \in Nat,
         NEW ok \in BOOLEAN, MarkSeenNote(series, j, ok)
  PROVE  \E s : /\ StateOK(s) /\ Save(s, ok)
                /\ s.delivered = mem.delivered
                /\ s.messagesDelivered = mem.messagesDelivered
                /\ s.seenNotes = Put(mem.seenNotes, <<series, j>>, now)
<1> DEFINE s == [mem EXCEPT !.seenNotes = Put(@, <<series, j>>, now)]
<1>1. DOMAIN mem = {"conversationNotes", "issueConversations", "delivered",
                    "messagesDelivered", "seenNotes"}
  BY DEF StateOK, EmptyState
<1>2. IsMap(Put(mem.seenNotes, <<series, j>>, now), SeriesNames \X Nat, Nat)
  BY PutMap DEF StateOK
<1>3. /\ StateOK(s)
      /\ s.delivered = mem.delivered
      /\ s.messagesDelivered = mem.messagesDelivered
      /\ s.seenNotes = Put(mem.seenNotes, <<series, j>>, now)
  BY <1>1, <1>2 DEF StateOK
<1> QED
  BY <1>3 DEF MarkSeenNote

-----------------------------------------------------------------------------
(* Every step keeps the types. *)

\* The logs of Zulip and Graft only grow: what an index meant, it means still.
LEMMA AppendLog ==
  ASSUME NEW S, NEW log \in Seq(S), NEW x \in S
  PROVE  /\ Append(log, x) \in Seq(S)
         /\ Len(Append(log, x)) = Len(log) + 1
         /\ DOMAIN log = 1 .. Len(log)
         /\ DOMAIN Append(log, x) = 1 .. Len(log) + 1
         /\ \A i \in DOMAIN log : /\ i \in DOMAIN Append(log, x)
                                  /\ Append(log, x)[i] = log[i]
         /\ Append(log, x)[Len(log) + 1] = x
  OBVIOUS

\* What the bridge posts to Zulip is a message with the text of its comment.
LEMMA BotPostType ==
  ASSUME comments \in Seq(Comment), NEW c \in Conv, NEW j \in DOMAIN comments
  PROVE  BotPost(c, j) \in Message
<1>1. comments[j] \in Comment /\ j \in Nat
  OBVIOUS
<1>2. comments[j].text \in Text
  BY <1>1 DEF Comment
<1> QED
  BY <1>1, <1>2 DEF BotPost, Message, BotMessage

\* A fault is one step of the fault counter.
LEMMA FaultCount ==
  ASSUME faults \in Nat, NEW kind, NEW ok \in BOOLEAN,
         NoFault \/ Fault(kind) \/ SaveOutcome(ok)
  PROVE  faults' \in Nat
  BY DEF NoFault, Fault, SaveOutcome

\* The end of a pass clears its locals (bridge.go:75-88).
LEMMA PassOverOK ==
  ASSUME PassOver, inbox \in Seq(Delivery), inbox' \in Seq(Delivery)
  PROVE  PassOK' /\ JobOK'
<1>1. pass' = NoPass /\ pc' = "idle" /\ job' = NoJob
  BY DEF PassOver
<1>2. NoPass \in PassLocals
  BY DEF NoPass, PassLocals
<1>3. Len(inbox') >= 0
  OBVIOUS
<1> QED
  BY <1>1, <1>2, <1>3 DEF PassOK, JobOK, NoPass, Points

-----------------------------------------------------------------------------
(* The environment and the admin API. *)

\* Users, Graft and repository users keep the types.
LEMMA RemoteType ==
  ASSUME TypeOK, Remote, UNCHANGED <<storeVars, passVars, adminVars>>
  PROVE  TypeOK'
<1> USE RemotesAssumption
<1>1. ASSUME NEW c \in Conv \cup {Private}, NEW t \in Text, UserPosts(c, t)
      PROVE  TypeOK'
  <2>1. [sender |-> "user", conv |-> c, text |-> t] \in Message
    BY DEF Message, UserMessage
  <2>2. /\ zulip' \in Seq(Message)
        /\ \A i \in DOMAIN zulip : i \in DOMAIN zulip' /\ zulip'[i] = zulip[i]
    BY <1>1, <2>1, AppendLog DEF UserPosts, TypeOK, RemotesTypeOK
  <2>3. UNCHANGED <<mem, disk, now, inbox, comments, faults, pc, pass, job,
                    request, ops, acked>>
    BY <1>1 DEF UserPosts, storeVars, passVars, adminVars
  <2>4. PassOK' /\ JobOK'
    BY <2>2, <2>3 DEF TypeOK, PassOK, JobOK
  <2> QED
    BY <2>2, <2>3, <2>4 DEF TypeOK, RemotesTypeOK, StateOK, AdminOK
<1>2. ASSUME NEW x \in Comment, comments' = Append(comments, x),
             UNCHANGED <<zulip, inbox, faults>>
      PROVE  TypeOK'
  <2>1. /\ comments' \in Seq(Comment)
        /\ \A j \in DOMAIN comments : j \in DOMAIN comments'
    BY <1>2, AppendLog DEF TypeOK, RemotesTypeOK
  <2>2. UNCHANGED <<mem, disk, now, zulip, inbox, faults, pc, pass, job,
                    request, ops, acked>>
    BY <1>2 DEF storeVars, passVars, adminVars
  <2>3. PassOK' /\ JobOK'
    BY <2>1, <2>2 DEF TypeOK, PassOK, JobOK
  <2> QED
    BY <2>1, <2>2, <2>3 DEF TypeOK, RemotesTypeOK, StateOK, AdminOK
<1>3. ASSUME NEW n \in Replyable, NEW t \in Text, RepoComment(n, t)
      PROVE  TypeOK'
  <2>1. [note |-> n, text |-> t, marked |-> FALSE, origin |-> 0] \in Comment
    BY DEF Comment
  <2> QED
    BY <1>2, <1>3, <2>1 DEF RepoComment
<1>4. ASSUME NEW d \in DOMAIN inbox, NEW marked \in EchoMarked, Republish(d, marked)
      PROVE  TypeOK'
  <2>1. inbox[d] \in Delivery /\ d \in Nat
    BY DEF TypeOK, RemotesTypeOK
  <2>2. [note |-> inbox[d].note, text |-> inbox[d].text,
         marked |-> marked, origin |-> d] \in Comment
    BY <2>1 DEF Comment, Delivery
  <2> QED
    BY <1>2, <1>4, <2>2 DEF Republish
<1> QED
  BY <1>1, <1>3, <1>4 DEF Remote

\* Requests keep the types, and change neither the pass nor the records.
LEMMA AdminType ==
  ASSUME TypeOK, AdminStep, UNCHANGED passVars
  PROVE  TypeOK'
<1> USE RemotesAssumption, AdminAssumption
<1>0. /\ StateOK(mem) /\ StateOK(disk) /\ IsMap(acked, Conv, Note \cup {NotBound})
      /\ now \in Nat /\ faults \in Nat /\ ops \in Nat
      /\ request \in [Admins -> {Idle} \cup [conv : Conv, note : Note]]
  BY DEF TypeOK, RemotesTypeOK, AdminOK
<1>1. ASSUME StateOK(mem'), StateOK(disk'), now' = now, AdminOK', faults' \in Nat,
             UNCHANGED <<zulip, inbox, comments>>
      PROVE  TypeOK'
  <2>1. PassOK' /\ JobOK'
    BY <1>1 DEF TypeOK, PassOK, JobOK, passVars
  <2> QED
    BY <1>1, <2>1 DEF TypeOK, RemotesTypeOK, StateOK
<1>2. ASSUME NEW c \in Conv, NEW w \in Note \cup {NotBound}, NEW ok \in BOOLEAN,
             Acknowledge(c, w, ok)
      PROVE  IsMap(acked', Conv, Note \cup {NotBound})
  <2>1. CASE ok
    BY <1>0, <1>2, <2>1, PutMap DEF Acknowledge
  <2>2. CASE ~ok
    BY <1>0, <1>2, <2>2, RestrictMap DEF Acknowledge
  <2> QED
    BY <2>1, <2>2
<1>3. ASSUME NEW a \in Admins, NEW c \in Conv, NEW n \in Note, BindNote(a, c, n)
      PROVE  TypeOK'
  <2>1. PICK ok \in BOOLEAN :
          /\ SaveOutcome(ok)
          /\ SetConversationNote(c, n, ok)
          /\ Acknowledge(c, n, ok)
          /\ request' = IF ok /\ UrlOf[n] # NoUrl
                        THEN [request EXCEPT ![a] = [conv |-> c, note |-> n]]
                        ELSE request
    BY <1>3 DEF BindNote, Acceptable
  <2>2. StateOK(mem') /\ StateOK(disk') /\ now' = now
    BY <1>0, <2>1, SetNoteState, SaveState
  <2>3. AdminOK'
    <3>1. request' \in [Admins -> {Idle} \cup [conv : Conv, note : Note]]
      BY <1>0, <2>1
    <3>2. ops' \in Nat
      BY <1>0, <1>3 DEF BindNote, Acceptable
    <3>3. IsMap(acked', Conv, Note \cup {NotBound})
      BY <1>2, <2>1
    <3> QED
      BY <3>1, <3>2, <3>3 DEF AdminOK
  <2>4. faults' \in Nat
    BY <1>0, <2>1, FaultCount
  <2> QED
    BY <1>1, <1>3, <2>2, <2>3, <2>4 DEF BindNote, Acceptable
<1>4. ASSUME NEW a \in Admins, BindLink(a)
      PROVE  TypeOK'
  <2>0. request[a] \in [conv : Conv, note : Note]
    BY <1>0, <1>4 DEF BindLink
  <2>1. PICK ok \in BOOLEAN :
          /\ SaveOutcome(ok)
          /\ SetIssueConversation(SeriesOf[request[a].note], UrlOf[request[a].note],
                                  request[a].conv, ok)
    BY <1>4 DEF BindLink
  <2>2. StateOK(mem') /\ StateOK(disk') /\ now' = now
    BY <1>0, <2>0, <2>1, SetIssueState, SaveState
  <2>3. AdminOK'
    BY <1>0, <1>4 DEF BindLink, AdminOK, IsMap
  <2>4. faults' \in Nat
    BY <1>0, <2>1, FaultCount
  <2> QED
    BY <1>1, <1>4, <2>2, <2>3, <2>4 DEF BindLink
<1>5. ASSUME NEW a \in Admins, NEW c \in Conv, Unbind(a, c)
      PROVE  TypeOK'
  <2>1. PICK ok \in BOOLEAN :
          /\ SaveOutcome(ok)
          /\ DeleteConversationNote(c, ok)
          /\ Acknowledge(c, NotBound, ok)
    BY <1>5 DEF Unbind
  <2>2. StateOK(mem') /\ StateOK(disk') /\ now' = now
    BY <1>0, <2>1, DeleteState, SaveState
  <2>3. AdminOK'
    BY <1>0, <1>2, <1>5, <2>1 DEF Unbind, AdminOK
  <2>4. faults' \in Nat
    BY <1>0, <2>1, FaultCount
  <2> QED
    BY <1>1, <1>5, <2>2, <2>3, <2>4 DEF Unbind
<1> QED
  BY <1>3, <1>4, <1>5 DEF AdminStep

-----------------------------------------------------------------------------
(* The pass. *)

\* An action of the pass that leaves the State and both remote sides alone.
LEMMA LocalType ==
  ASSUME TypeOK, UNCHANGED <<mem, disk, now, zulip, inbox, comments, adminVars>>,
         faults' \in Nat, pass' \in PassLocals,
         pass'.msgs \subseteq {i \in DOMAIN zulip : zulip[i].conv \in Conv},
         pass'.notes \subseteq DOMAIN comments, pass'.start <= Len(inbox),
         JobOK'
  PROVE  TypeOK'
<1>1. PassOK'
  BY DEF PassOK
<1> QED
  BY <1>1 DEF TypeOK, RemotesTypeOK, StateOK, AdminOK, adminVars

\* An action of the pass that saves the State.
LEMMA SavingType ==
  ASSUME TypeOK, UNCHANGED <<zulip, inbox, comments, adminVars>>,
         StateOK(mem'), StateOK(disk'), now' = now, faults' \in Nat,
         PassOK', JobOK'
  PROVE  TypeOK'
  BY DEF TypeOK, RemotesTypeOK, AdminOK, adminVars

\* Fetching messages and outboxes, and walking the loops, keep the types.
LEMMA FetchType ==
  ASSUME TypeOK, UNCHANGED adminVars,
         \/ FetchMessages
         \/ \E s \in Series : FetchOutbox(s)
         \/ OutboxesDone
         \/ ExplicitDone
         \/ TitleDone
         \/ ForwardDone
         \/ ReverseDone
  PROVE  TypeOK'
<1>0. /\ pass \in PassLocals /\ now \in Nat /\ faults \in Nat
      /\ pass.msgs \subseteq {i \in DOMAIN zulip : zulip[i].conv \in Conv}
      /\ pass.notes \subseteq DOMAIN comments /\ pass.start <= Len(inbox)
      /\ zulip \in Seq(Message) /\ inbox \in Seq(Delivery) /\ comments \in Seq(Comment)
      /\ JobOK
  BY DEF TypeOK, RemotesTypeOK, PassOK
<1>1. CASE FetchMessages
  <2>1. Window \in SUBSET Nat /\ Window \subseteq {i \in DOMAIN zulip : zulip[i].conv \in Conv}
    BY <1>0 DEF Window, LatestMessages
  <2>2. /\ pass' \in PassLocals
        /\ pass'.msgs \subseteq {i \in DOMAIN zulip : zulip[i].conv \in Conv}
        /\ pass'.notes \subseteq DOMAIN comments /\ pass'.start <= Len(inbox)
    <3>1. CASE UNCHANGED pass
      BY <1>0, <3>1
    <3>2. CASE pass' = [NoPass EXCEPT !.msgs = Window, !.unfetched = Series,
                                      !.began = now, !.start = Len(inbox)]
      <4>1. pass' = [msgs |-> Window, unfetched |-> Series, fetched |-> {},
                     notes |-> {}, keys |-> {}, pairs |-> {}, cur |-> NoSeries,
                     delivered |-> 0, began |-> now, start |-> Len(inbox)]
        BY <3>2 DEF NoPass
      <4>2. Len(inbox) \in Nat
        BY <1>0
      <4> QED
        BY <1>0, <2>1, <4>1, <4>2 DEF PassLocals
    <3> QED
      BY <1>1, <3>1, <3>2 DEF FetchMessages
  <2>3. JobOK'
    BY <1>0, <1>1 DEF FetchMessages, JobOK, Points
  <2>4. faults' \in Nat
    BY <1>0, <1>1, FaultCount DEF FetchMessages
  <2> QED
    BY <1>1, <2>2, <2>3, <2>4, LocalType DEF FetchMessages, storeVars
<1>2. ASSUME NEW s \in Series, FetchOutbox(s)
      PROVE  TypeOK'
  <2>1. CommentsOf(s) \subseteq DOMAIN comments /\ CommentsOf(s) \in SUBSET Nat
    BY <1>0 DEF CommentsOf
  <2>2. /\ pass' \in PassLocals
        /\ pass'.msgs = pass.msgs
        /\ pass'.notes \subseteq DOMAIN comments
        /\ pass'.start = pass.start
    <3>1. CASE pass' = [pass EXCEPT !.unfetched = @ \ {s}]
      BY <1>0, <3>1 DEF PassLocals
    <3>2. CASE pass' = [pass EXCEPT !.unfetched = @ \ {s}, !.fetched = @ \cup {s},
                                    !.notes = @ \cup CommentsOf(s)]
      <4> DEFINE notes == pass.notes \cup CommentsOf(s)
      <4>1. notes \in SUBSET Nat /\ notes \subseteq DOMAIN comments
        BY <1>0, <2>1 DEF PassLocals
      <4>2. pass' = [pass EXCEPT !.unfetched = @ \ {s}, !.fetched = @ \cup {s},
                                 !.notes = notes]
        BY <1>0, <3>2 DEF PassLocals
      <4> HIDE DEF notes
      <4> QED
        BY <1>0, <4>1, <4>2 DEF PassLocals
    <3> QED
      BY <1>2, <3>1, <3>2 DEF FetchOutbox
  <2>3. JobOK'
    BY <1>0, <1>2 DEF FetchOutbox, JobOK, Points
  <2>4. faults' \in Nat
    BY <1>0, <1>2, FaultCount DEF FetchOutbox
  <2> QED
    BY <1>0, <1>2, <2>2, <2>3, <2>4, LocalType DEF FetchOutbox, storeVars
<1>3. CASE OutboxesDone
  <2>1. /\ pass' \in PassLocals
        /\ pass'.msgs = pass.msgs /\ pass'.notes = pass.notes
        /\ pass'.start = pass.start
    BY <1>0, <1>3, PassAssumption DEF OutboxesDone, PassLocals
  <2>2. JobOK'
    BY <1>3 DEF OutboxesDone, Goto, JobOK, Points
  <2> QED
    BY <1>0, <1>3, <2>1, <2>2, LocalType DEF OutboxesDone, storeVars, remoteVars
<1>4. CASE ExplicitDone
  <2>1. Conversations \subseteq Conv
    BY <1>0 DEF Conversations
  <2>2. /\ pass' \in PassLocals
        /\ pass'.msgs = pass.msgs /\ pass'.notes = pass.notes
        /\ pass'.start = pass.start
    <3>1. CASE UNCHANGED pass
      BY <1>0, <3>1
    <3>2. CASE pass' = [pass EXCEPT !.pairs = pass.fetched \X Conversations]
      <4> DEFINE pairs == pass.fetched \X Conversations
      <4>1. pairs \in SUBSET (Series \X Conv)
        BY <1>0, <2>1 DEF PassLocals
      <4> HIDE DEF pairs
      <4>2. pass' = [pass EXCEPT !.pairs = pairs]
        BY <3>2 DEF pairs
      <4> QED
        BY <1>0, <4>1, <4>2 DEF PassLocals
    <3> QED
      BY <1>4, <3>1, <3>2 DEF ExplicitDone
  <2>3. JobOK'
    BY <1>4 DEF ExplicitDone, Goto, JobOK, Points
  <2> QED
    BY <1>0, <1>4, <2>2, <2>3, LocalType DEF ExplicitDone, storeVars, remoteVars
<1>5. CASE TitleDone
  <2>1. /\ pass' \in PassLocals
        /\ pass'.msgs = pass.msgs /\ pass'.notes = pass.notes
        /\ pass'.start = pass.start
    BY <1>0, <1>5 DEF TitleDone, PassLocals
  <2>2. JobOK'
    BY <1>5 DEF TitleDone, Goto, JobOK, Points
  <2> QED
    BY <1>0, <1>5, <2>1, <2>2, LocalType DEF TitleDone, storeVars, remoteVars
<1>6. CASE ForwardDone
  <2>1. /\ pass' \in PassLocals
        /\ pass'.msgs = {} /\ pass'.notes = pass.notes
        /\ pass'.start = pass.start
    BY <1>0, <1>6 DEF ForwardDone, PassLocals
  <2>2. JobOK'
    BY <1>6 DEF ForwardDone, Goto, JobOK, Points
  <2> QED
    BY <1>0, <1>6, <2>1, <2>2, LocalType DEF ForwardDone, storeVars, remoteVars
<1>7. CASE ReverseDone
  <2>1. /\ UNCHANGED <<mem, disk, now, zulip, inbox, comments, faults>>
        /\ PassOver
    BY <1>7 DEF ReverseDone, storeVars, remoteVars
  <2>2. PassOK' /\ JobOK'
    BY <1>0, <2>1, PassOverOK
  <2>3. StateOK(mem') /\ StateOK(disk')
    BY <2>1 DEF TypeOK
  <2> QED
    BY <1>0, <2>1, <2>2, <2>3, SavingType
<1> QED
  BY <1>1, <1>2, <1>3, <1>4, <1>5, <1>6, <1>7

\* What the proofs about single steps take from the type invariant.
LEMMA TypeFacts ==
  ASSUME TypeOK
  PROVE  /\ pass \in PassLocals /\ now \in Nat /\ faults \in Nat
         /\ pass.msgs \subseteq {i \in DOMAIN zulip : zulip[i].conv \in Conv}
         /\ pass.notes \subseteq DOMAIN comments /\ pass.start <= Len(inbox)
         /\ zulip \in Seq(Message) /\ inbox \in Seq(Delivery) /\ comments \in Seq(Comment)
         /\ DOMAIN zulip \subseteq Nat /\ DOMAIN comments \subseteq Nat
         /\ \A j \in DOMAIN comments : comments[j] \in Comment /\ CommentSeries(j) \in SeriesNames
         /\ JobOK /\ StateOK(mem) /\ StateOK(disk)
<1>1. /\ zulip \in Seq(Message) /\ inbox \in Seq(Delivery) /\ comments \in Seq(Comment)
  BY DEF TypeOK, RemotesTypeOK
<1>2. \A j \in DOMAIN comments : comments[j] \in Comment
  BY <1>1
<1>3. \A j \in DOMAIN comments : CommentSeries(j) \in SeriesNames
  BY <1>2 DEF Comment, CommentSeries, SeriesNames
<1> QED
  BY <1>1, <1>2, <1>3 DEF TypeOK, RemotesTypeOK, PassOK

\* Looking at an explicit key or at a title candidate keeps the types
\* (bridge.go:236-241, 260-268).
LEMMA MappingType ==
  ASSUME TypeOK, UNCHANGED adminVars,
         \/ \E c \in Conv : ExplicitKey(c)
         \/ \E s \in Series, c \in Conv : TitlePair(s, c)
  PROVE  TypeOK'
<1>0. /\ pass \in PassLocals /\ faults \in Nat
      /\ pass.msgs \subseteq {i \in DOMAIN zulip : zulip[i].conv \in Conv}
      /\ pass.notes \subseteq DOMAIN comments /\ pass.start <= Len(inbox)
      /\ inbox \in Seq(Delivery)
  BY TypeFacts
<1>1. ASSUME NEW c \in Conv, ExplicitKey(c)
      PROVE  TypeOK'
  <2>0. UNCHANGED <<mem, disk, now, zulip, inbox, comments, faults>>
    BY <1>1 DEF ExplicitKey, storeVars, remoteVars
  <2>1. CASE PassOver
    <3>1. PassOK' /\ JobOK'
      BY <1>0, <2>0, <2>1, PassOverOK
    <3>2. StateOK(mem') /\ StateOK(disk')
      BY <2>0, TypeFacts
    <3> QED
      BY <1>0, <2>0, <3>1, <3>2, SavingType
  <2>2. CASE Explicit[c] \in Note /\ pass' = [pass EXCEPT !.keys = @ \ {c}]
    <3>1. /\ pass' \in PassLocals /\ pass'.msgs = pass.msgs
          /\ pass'.notes = pass.notes /\ pass'.start = pass.start
      BY <1>0, <2>2 DEF PassLocals
    <3>2. \/ pc' = "explicit" /\ job' = NoJob
          \/ /\ pc' \in {"bind", "link"}
             /\ job' = [conv |-> c, note |-> Explicit[c], back |-> "explicit"]
          \/ PassOver
      BY <1>1 DEF ExplicitKey, Relink, Goto
    <3>3. CASE PassOver
      BY <2>1, <3>3
    <3>4. CASE ~PassOver
      <4>1. JobOK'
        BY <2>2, <3>2, <3>4 DEF JobOK, BindJob, Points
      <4> QED
        BY <1>0, <2>0, <3>1, <4>1, LocalType
    <3> QED
      BY <3>3, <3>4
  <2> QED
    BY <1>1, <2>1, <2>2 DEF ExplicitKey, Relink
<1>2. ASSUME NEW s \in Series, NEW c \in Conv, TitlePair(s, c)
      PROVE  TypeOK'
  <2>0. UNCHANGED <<mem, disk, now, zulip, inbox, comments, faults>>
    BY <1>2 DEF TitlePair, storeVars, remoteVars
  <2>1. /\ pass' \in PassLocals /\ pass'.msgs = pass.msgs
        /\ pass'.notes = pass.notes /\ pass'.start = pass.start
    <3>1. s \in SeriesNames \cup {NoSeries}
      BY DEF SeriesNames
    <3> QED
      BY <1>0, <1>2, <3>1 DEF TitlePair, PassLocals
  <2>2. JobOK'
    <3>1. CASE pc' = "bind" /\ TitleMatch[<<s, c>>] # NoNote
               /\ job' = [conv |-> c, note |-> TitleMatch[<<s, c>>], back |-> "title"]
      <4>1. TitleMatch[<<s, c>>] \in Note
        BY <3>1, PassAssumption
      <4> QED
        BY <3>1, <4>1 DEF JobOK, BindJob, Points
    <3>2. CASE Goto("title")
      BY <3>2 DEF Goto, JobOK, Points
    <3> QED
      BY <1>2, <3>1, <3>2 DEF TitlePair, TitleWanted
  <2> QED
    BY <1>0, <2>0, <2>1, <2>2, LocalType
<1> QED
  BY <1>1, <1>2

\* Writing a binding or a link keeps the types (bridge.go:242, 247, 269, 273).
LEMMA BindingType ==
  ASSUME TypeOK, UNCHANGED adminVars, Bind \/ Link
  PROVE  TypeOK'
<1>0. /\ inbox \in Seq(Delivery) /\ faults \in Nat /\ JobOK /\ PassOK
      /\ StateOK(mem) /\ StateOK(disk)
  BY TypeFacts DEF TypeOK
<1>1. /\ job \in BindJob /\ pc \in {"bind", "link"}
      /\ UNCHANGED <<zulip, inbox, comments>>
  BY <1>0 DEF Bind, Link, JobOK
<1>2. PassOver => PassOK' /\ JobOK'
  BY <1>0, <1>1, PassOverOK
<1>3. Goto(job.back) \/ (pc' = "link" /\ UNCHANGED job) => JobOK'
  BY <1>0, <1>1 DEF Goto, JobOK, BindJob, Points
<1>4. UNCHANGED pass => PassOK'
  BY <1>0, <1>1 DEF PassOK
<1>5. CASE Bind
  <2>1. PICK ok \in BOOLEAN :
          /\ SaveOutcome(ok)
          /\ SetConversationNote(job.conv, job.note, ok)
          /\ \/ PassOver
             \/ UNCHANGED pass /\ (Goto(job.back) \/ (pc' = "link" /\ UNCHANGED job))
    BY <1>5 DEF Bind
  <2>2. StateOK(mem') /\ StateOK(disk') /\ now' = now
    BY <1>0, <1>1, <2>1, SetNoteState, SaveState DEF BindJob
  <2>3. faults' \in Nat
    BY <1>0, <2>1, FaultCount
  <2> QED
    BY <1>1, <1>2, <1>3, <1>4, <2>1, <2>2, <2>3, SavingType
<1>6. CASE Link
  <2>1. PICK ok \in BOOLEAN :
          /\ SaveOutcome(ok)
          /\ SetIssueConversation(SeriesOf[job.note], UrlOf[job.note], job.conv, ok)
          /\ \/ PassOver
             \/ UNCHANGED pass /\ Goto(job.back)
    BY <1>6 DEF Link
  <2>2. StateOK(mem') /\ StateOK(disk') /\ now' = now
    BY <1>0, <1>1, <2>1, SetIssueState, SaveState DEF BindJob
  <2>3. faults' \in Nat
    BY <1>0, <2>1, FaultCount
  <2> QED
    BY <1>1, <1>2, <1>3, <1>4, <2>1, <2>2, <2>3, SavingType
<1> QED
  BY <1>5, <1>6

\* Visiting a message keeps the types; what is picked is a user's message
\* (bridge.go:297-321).
LEMMA VisitMessageType ==
  ASSUME TypeOK, UNCHANGED adminVars, NEW m \in pass.msgs,
         SkipMessage(m) \/ PickMessage(m)
  PROVE  TypeOK'
<1>0. /\ pass \in PassLocals /\ faults \in Nat /\ JobOK
      /\ pass.msgs \subseteq {i \in DOMAIN zulip : zulip[i].conv \in Conv}
      /\ pass.notes \subseteq DOMAIN comments /\ pass.start <= Len(inbox)
      /\ DOMAIN zulip \subseteq Nat /\ zulip \in Seq(Message)
      /\ StateOK(mem)
  BY TypeFacts
<1>1. /\ UNCHANGED <<mem, disk, now, zulip, inbox, comments, faults>>
      /\ pass' = [pass EXCEPT !.msgs = @ \ {m}]
  BY DEF SkipMessage, PickMessage, storeVars, remoteVars
<1>2. /\ pass' \in PassLocals /\ pass'.msgs \subseteq pass.msgs
      /\ pass'.notes = pass.notes /\ pass'.start = pass.start
  BY <1>0, <1>1 DEF PassLocals
<1>3. JobOK'
  <2>1. CASE SkipMessage(m)
    BY <1>0, <1>1, <2>1 DEF SkipMessage, JobOK
  <2>2. CASE PickMessage(m)
    <3>1. /\ zulip[m].conv \in DOMAIN mem.conversationNotes
          /\ zulip[m].sender # "bot"
      BY <2>2 DEF PickMessage, Forwardable, FromUser, Undelivered, HasNote
    <3>2. mem.conversationNotes[zulip[m].conv] \in Note
      BY <1>0, <3>1 DEF StateOK, IsMap
    <3>3. job' \in ForwardJob /\ job'.msg = m /\ pc' = "reply"
      BY <1>0, <2>2, <3>2 DEF PickMessage, ForwardJob
    <3>4. zulip[m].sender = "user"
      BY <1>0, <3>1 DEF Message, UserMessage, BotMessage
    <3> QED
      BY <1>0, <1>1, <3>3, <3>4 DEF JobOK, Points
  <2> QED
    BY <2>1, <2>2
<1> QED
  BY <1>0, <1>1, <1>2, <1>3, LocalType

\* Replying and recording the reply keep the types (bridge.go:322-333).
LEMMA ForwardType ==
  ASSUME TypeOK, UNCHANGED adminVars, Reply \/ MarkMessage \/ MarkHash
  PROVE  TypeOK'
<1>0. /\ pass \in PassLocals /\ now \in Nat /\ faults \in Nat /\ JobOK
      /\ zulip \in Seq(Message) /\ inbox \in Seq(Delivery) /\ comments \in Seq(Comment)
      /\ StateOK(mem) /\ StateOK(disk) /\ PassOK
  BY TypeFacts DEF TypeOK
<1>1. /\ job \in ForwardJob /\ job.msg \in DOMAIN zulip
      /\ zulip[job.msg].sender = "user"
      /\ pc \in {"reply", "mark", "hash"}
  BY <1>0 DEF Reply, ReplyToIssue, MarkMessage, MarkHash, JobOK
<1>2. zulip[job.msg].text \in Text
  BY <1>0, <1>1 DEF Message, UserMessage, BotMessage
<1>3. Goto("forward") => JobOK'
  BY DEF Goto, JobOK, Points
<1>4. CASE Reply
  <2>1. /\ UNCHANGED <<mem, disk, now, zulip, comments, pass>>
        /\ \/ UNCHANGED inbox
           \/ inbox' = Append(inbox, [note |-> job.note, msg |-> job.msg,
                                      text |-> zulip[job.msg].text])
        /\ Goto("forward") \/ (pc' = "mark" /\ UNCHANGED job)
    BY <1>4 DEF Reply, ReplyToIssue, AcceptReply, storeVars
  <2>2. inbox' \in Seq(Delivery) /\ Len(inbox') >= Len(inbox)
    <3>1. [note |-> job.note, msg |-> job.msg, text |-> zulip[job.msg].text] \in Delivery
      BY <1>1, <1>2 DEF Delivery, ForwardJob
    <3> QED
      BY <1>0, <2>1, <3>1, AppendLog
  <2>3. PassOK'
    <3>1. pass.start \in Nat /\ Len(inbox) \in Nat /\ Len(inbox') \in Nat
      BY <1>0, <2>2 DEF PassLocals
    <3> QED
      BY <1>0, <2>1, <2>2, <3>1 DEF PassOK
  <2>4. JobOK'
    BY <1>1, <1>3, <2>1 DEF JobOK, Points
  <2>5. faults' \in Nat
    BY <1>0, <1>4, FaultCount DEF Reply, ReplyToIssue
  <2> QED
    BY <1>0, <2>1, <2>2, <2>3, <2>4, <2>5
    DEF TypeOK, RemotesTypeOK, StateOK, AdminOK, adminVars
<1>5. CASE MarkMessage
  <2>1. PICK ok \in BOOLEAN :
          /\ SaveOutcome(ok)
          /\ MarkMessageDelivered(SeriesOf[job.note], job.msg, ok)
          /\ PassOver \/ (pc' = "hash" /\ UNCHANGED <<job, pass>>)
    BY <1>5 DEF MarkMessage
  <2>2. UNCHANGED <<zulip, inbox, comments>>
    BY <1>5 DEF MarkMessage
  <2>3. StateOK(mem') /\ StateOK(disk') /\ now' = now
    <3>1. SeriesOf[job.note] \in SeriesNames /\ job.msg \in Nat
      BY <1>1 DEF ForwardJob, SeriesNames
    <3> QED
      BY <1>0, <2>1, <3>1, MarkMessageState, SaveState
  <2>4. PassOK' /\ JobOK'
    <3>1. CASE PassOver
      BY <1>0, <2>2, <3>1, PassOverOK
    <3>2. CASE pc' = "hash" /\ UNCHANGED <<job, pass>>
      BY <1>0, <1>1, <2>2, <3>2 DEF PassOK, JobOK, Points
    <3> QED
      BY <2>1, <3>1, <3>2
  <2>5. faults' \in Nat
    BY <1>0, <2>1, FaultCount
  <2> QED
    BY <2>2, <2>3, <2>4, <2>5, SavingType
<1>6. CASE MarkHash
  <2>1. PICK ok \in BOOLEAN :
          /\ SaveOutcome(ok)
          /\ MarkDelivered(zulip[job.msg].text, ok)
          /\ PassOver \/ (Goto("forward") /\ pass' = [pass EXCEPT !.delivered = @ + 1])
    BY <1>6 DEF MarkHash
  <2>2. UNCHANGED <<zulip, inbox, comments>>
    BY <1>6 DEF MarkHash
  <2>3. StateOK(mem') /\ StateOK(disk') /\ now' = now
    BY <1>0, <1>2, <2>1, MarkDeliveredState, SaveState
  <2>4. PassOK' /\ JobOK'
    <3>1. CASE PassOver
      BY <1>0, <2>2, <3>1, PassOverOK
    <3>2. CASE Goto("forward") /\ pass' = [pass EXCEPT !.delivered = @ + 1]
      <4>1. /\ pass' \in PassLocals /\ pass'.msgs = pass.msgs
            /\ pass'.notes = pass.notes /\ pass'.start = pass.start
        <5> DEFINE delivered == pass.delivered + 1
        <5>1. delivered \in Nat
          BY <1>0 DEF PassLocals
        <5>2. pass' = [pass EXCEPT !.delivered = delivered]
          BY <1>0, <3>2 DEF PassLocals
        <5> HIDE DEF delivered
        <5> QED
          BY <1>0, <5>1, <5>2 DEF PassLocals
      <4> QED
        BY <1>0, <1>3, <2>2, <3>2, <4>1 DEF PassOK
    <3> QED
      BY <2>1, <3>1, <3>2
  <2>5. faults' \in Nat
    BY <1>0, <2>1, FaultCount
  <2> QED
    BY <2>2, <2>3, <2>4, <2>5, SavingType
<1> QED
  BY <1>4, <1>5, <1>6

\* Visiting a comment keeps the types (bridge.go:343-368).
LEMMA VisitCommentType ==
  ASSUME TypeOK, UNCHANGED adminVars, NEW j \in pass.notes,
         SkipComment(j) \/ SuppressEcho(j) \/ PickComment(j)
  PROVE  TypeOK'
<1>0. /\ pass \in PassLocals /\ now \in Nat /\ faults \in Nat /\ JobOK /\ PassOK
      /\ j \in DOMAIN comments /\ j \in Nat /\ CommentSeries(j) \in SeriesNames
      /\ pass.msgs \subseteq {i \in DOMAIN zulip : zulip[i].conv \in Conv}
      /\ pass.notes \subseteq DOMAIN comments /\ pass.start <= Len(inbox)
      /\ inbox \in Seq(Delivery) /\ StateOK(mem) /\ StateOK(disk)
  BY TypeFacts DEF TypeOK
<1>1. UNCHANGED <<zulip, inbox, comments>>
  BY DEF SkipComment, SuppressEcho, PickComment, remoteVars
<1>2. ASSUME pass' = [pass EXCEPT !.notes = @ \ {j}, !.cur = CommentSeries(j)]
      PROVE  /\ pass' \in PassLocals /\ pass'.msgs = pass.msgs
             /\ pass'.notes \subseteq pass.notes /\ pass'.start = pass.start
             /\ PassOK'
  <2>1. /\ pass' \in PassLocals /\ pass'.msgs = pass.msgs
        /\ pass'.notes \subseteq pass.notes /\ pass'.start = pass.start
    BY <1>0, <1>2 DEF PassLocals
  <2> QED
    BY <1>0, <1>1, <2>1 DEF PassOK
<1>3. CASE SkipComment(j)
  <2>1. JobOK'
    BY <1>0, <1>3 DEF SkipComment, remoteVars, JobOK
  <2> QED
    BY <1>0, <1>2, <1>3, <2>1, LocalType DEF SkipComment, storeVars, remoteVars
<1>4. CASE SuppressEcho(j)
  <2>1. PICK ok \in BOOLEAN :
          /\ SaveOutcome(ok)
          /\ MarkSeenNote(CommentSeries(j), j, ok)
          /\ \/ PassOver
             \/ /\ pass' = [pass EXCEPT !.notes = @ \ {j}, !.cur = CommentSeries(j)]
                /\ UNCHANGED <<pc, job>>
    BY <1>4 DEF SuppressEcho
  <2>2. StateOK(mem') /\ StateOK(disk') /\ now' = now
    <3> DEFINE series == CommentSeries(j)
    <3>1. /\ series \in SeriesNames /\ j \in Nat /\ now \in Nat
          /\ StateOK(mem) /\ StateOK(disk)
      BY <1>0
    <3>2. MarkSeenNote(series, j, ok)
      BY <2>1
    <3> HIDE DEF series
    <3> QED
      BY <3>1, <3>2, MarkSeenState, SaveState
  <2>3. PassOK' /\ JobOK'
    <3>1. CASE PassOver
      BY <1>0, <1>1, <3>1, PassOverOK
    <3>2. CASE /\ pass' = [pass EXCEPT !.notes = @ \ {j}, !.cur = CommentSeries(j)]
               /\ UNCHANGED <<pc, job>>
      BY <1>0, <1>1, <1>2, <3>2 DEF JobOK
    <3> QED
      BY <2>1, <3>1, <3>2
  <2>4. faults' \in Nat
    BY <1>0, <2>1, FaultCount
  <2> QED
    BY <1>1, <2>2, <2>3, <2>4, SavingType
<1>5. CASE PickComment(j)
  <2>1. IssueOf(j) \in DOMAIN mem.issueConversations
    BY <1>5 DEF PickComment, HasConversation, IssueOf
  <2>2. mem.issueConversations[IssueOf(j)] \in Conv
    BY <1>0, <2>1 DEF StateOK, IsMap
  <2>3. JobOK'
    BY <1>0, <1>1, <1>5, <2>2 DEF PickComment, JobOK, ReverseJob, Points
  <2> QED
    BY <1>0, <1>2, <1>5, <2>3, LocalType DEF PickComment, storeVars, remoteVars
<1> QED
  BY <1>3, <1>4, <1>5

\* Posting and recording a comment keep the types (bridge.go:369-376).
LEMMA ReverseType ==
  ASSUME TypeOK, UNCHANGED adminVars, Post \/ MarkSeen
  PROVE  TypeOK'
<1>0. /\ pass \in PassLocals /\ now \in Nat /\ faults \in Nat /\ JobOK /\ PassOK
      /\ zulip \in Seq(Message) /\ inbox \in Seq(Delivery) /\ comments \in Seq(Comment)
      /\ StateOK(mem) /\ StateOK(disk)
      /\ \A j \in DOMAIN comments : CommentSeries(j) \in SeriesNames
  BY TypeFacts DEF TypeOK
<1>1. /\ job \in ReverseJob /\ job.comment \in DOMAIN comments
      /\ pc \in {"post", "seen"}
  BY <1>0 DEF Post, SendMessage, MarkSeen, JobOK
<1>2. Goto("reverse") => JobOK'
  BY DEF Goto, JobOK, Points
<1>3. CASE Post
  <2>1. /\ UNCHANGED <<mem, disk, now, inbox, comments, pass>>
        /\ \/ UNCHANGED zulip
           \/ zulip' = Append(zulip, BotPost(job.conv, job.comment))
        /\ Goto("reverse") \/ (pc' = "seen" /\ UNCHANGED job)
    BY <1>3 DEF Post, SendMessage, AcceptMessage, storeVars
  <2>2. /\ zulip' \in Seq(Message)
        /\ \A i \in DOMAIN zulip : i \in DOMAIN zulip' /\ zulip'[i] = zulip[i]
    <3>1. BotPost(job.conv, job.comment) \in Message
      BY <1>0, <1>1, BotPostType DEF ReverseJob
    <3>2. CASE UNCHANGED zulip
      BY <1>0, <3>2
    <3>3. CASE zulip' = Append(zulip, BotPost(job.conv, job.comment))
      BY <1>0, <3>1, <3>3, AppendLog
    <3> QED
      BY <2>1, <3>2, <3>3
  <2>3. PassOK'
    BY <1>0, <2>1, <2>2 DEF PassOK
  <2>4. JobOK'
    BY <1>1, <1>2, <2>1 DEF JobOK, Points
  <2>5. faults' \in Nat
    BY <1>0, <1>3, FaultCount DEF Post, SendMessage
  <2> QED
    BY <1>0, <2>1, <2>2, <2>3, <2>4, <2>5
    DEF TypeOK, RemotesTypeOK, StateOK, AdminOK, adminVars
<1>4. CASE MarkSeen
  <2>1. PICK ok \in BOOLEAN :
          /\ SaveOutcome(ok)
          /\ MarkSeenNote(CommentSeries(job.comment), job.comment, ok)
          /\ PassOver \/ (Goto("reverse") /\ UNCHANGED pass)
    BY <1>4 DEF MarkSeen
  <2>2. UNCHANGED <<zulip, inbox, comments>>
    BY <1>4 DEF MarkSeen
  <2>3. StateOK(mem') /\ StateOK(disk') /\ now' = now
    <3>1. CommentSeries(job.comment) \in SeriesNames /\ job.comment \in Nat
      BY <1>0, <1>1 DEF ReverseJob
    <3> QED
      BY <1>0, <2>1, <3>1, MarkSeenState, SaveState
  <2>4. PassOK' /\ JobOK'
    <3>1. CASE PassOver
      BY <1>0, <2>2, <3>1, PassOverOK
    <3>2. CASE Goto("reverse") /\ UNCHANGED pass
      BY <1>0, <1>2, <2>2, <3>2 DEF PassOK
    <3> QED
      BY <2>1, <3>1, <3>2
  <2>5. faults' \in Nat
    BY <1>0, <2>1, FaultCount
  <2> QED
    BY <2>2, <2>3, <2>4, <2>5, SavingType
<1> QED
  BY <1>3, <1>4

-----------------------------------------------------------------------------
(* The whole system. *)

\* Every step keeps the types.
LEMMA TypeStep ==
  ASSUME TypeOK, [Next]_vars
  PROVE  TypeOK'
<1>1. CASE PassStep /\ UNCHANGED adminVars
  BY <1>1, FetchType, MappingType, BindingType, VisitMessageType, ForwardType,
     VisitCommentType, ReverseType
  DEF PassStep
<1>2. CASE AdminStep /\ UNCHANGED passVars
  BY <1>2, AdminType
<1>3. CASE Remote /\ UNCHANGED <<storeVars, passVars, adminVars>>
  BY <1>3, RemoteType
<1>4. CASE Tick
  <2>1. now' \in Nat
    BY <1>4, TypeFacts DEF Tick
  <2> QED
    BY <1>4, <2>1 DEF Tick, remoteVars, passVars, adminVars, TypeOK, StateOK,
      RemotesTypeOK, PassOK, JobOK, AdminOK
<1>5. CASE Crash
  <2>1. PassOK' /\ JobOK'
    BY <1>5, PassOverOK, TypeFacts DEF Crash
  <2>2. faults' \in Nat /\ now' = now /\ mem' = disk /\ disk' = disk
    BY <1>5, TypeFacts DEF Crash, Fault, Load
  <2>3. AdminOK'
    BY <1>5 DEF Crash, TypeOK, AdminOK
  <2> QED
    BY <1>5, <2>1, <2>2, <2>3 DEF Crash, TypeOK, RemotesTypeOK, StateOK
<1>6. CASE UNCHANGED vars
  BY <1>6 DEF vars, TypeOK, StateOK, RemotesTypeOK, PassOK, JobOK, AdminOK
<1> QED
  BY <1>1, <1>2, <1>3, <1>4, <1>5, <1>6 DEF Next

\* The bridge starts with empty maps and logs (state.go:83-90).
LEMMA TypeInit == Init => TypeOK
<1> SUFFICES ASSUME Init PROVE TypeOK
  OBVIOUS
<1>1. StateOK(mem) /\ StateOK(disk) /\ now \in Nat
  BY DEF Init, StateInit, StateOK, EmptyState, EmptyMap, IsMap
<1>2. RemotesTypeOK
  BY DEF Init, RemotesInit, RemotesTypeOK
<1>3. PassOK /\ JobOK
  <2>1. NoPass \in PassLocals
    BY DEF NoPass, PassLocals
  <2> QED
    BY <2>1 DEF Init, PassInit, RemotesInit, PassOK, JobOK, NoPass, Points
<1>4. AdminOK
  BY DEF Init, AdminInit, AdminOK, EmptyMap, IsMap
<1> QED
  BY <1>1, <1>2, <1>3, <1>4 DEF TypeOK

\* Every variable keeps its type and the locals of a pass refer to messages,
\* comments and notes that exist, in every reachable state.
THEOREM TypeCorrect == Spec => []TypeOK
<1>1. Init => TypeOK
  BY TypeInit
<1>2. TypeOK /\ [Next]_vars => TypeOK'
  BY TypeStep
<1> QED
  BY <1>1, <1>2, PTL DEF Spec
=============================================================================
