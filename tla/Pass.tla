-------------------------------- MODULE Pass --------------------------------
(***************************************************************************)
(* One reconciliation pass after another: Bridge.RunOnce and everything it *)
(* calls in internal/bridge/bridge.go.                                     *)
(*                                                                         *)
(* A pass is sequential.  An action is what happens between two points     *)
(* where the rest of the world can be observed: a call of a remote system, *)
(* or one locked access of the State.  pc names the next such point:       *)
(*                                                                         *)
(*   idle -> outbox -> explicit <-> bind, link -> title <-> bind, link     *)
(*        -> forward -> reply -> mark -> hash -> forward                   *)
(*        -> reverse -> post -> seen -> reverse -> idle                    *)
(***************************************************************************)
EXTENDS State, Remotes

CONSTANTS
  Explicit,             \* conversation -> note URI of Options.Explicit; a
                        \* value outside Note is a URI ParseNoteURI refuses
  AllowTitleMatching,
  TitleMatch,           \* <<series, conversation>> -> MatchIssueByTitle's
                        \* note, or NoNote
  NoNote,
  Listed,               \* the notes inside the outbox window
  AllowedConv,          \* the conversations of Options.AllowedStreams
  MaxMsgs,              \* how many messages a pass looks at
  Long,                 \* texts near Zulip's limit on the size of a message
  MaxLong,              \* how many of them fit in an answer that is read whole
  MaxDeliveries         \* MaxDeliveriesPerPass; 0 is no limit

NoSeries == "no series"
NoJob == [back |-> "idle"]

ASSUME PassAssumption ==
  /\ DOMAIN Explicit \subseteq Conv
  /\ AllowTitleMatching \in BOOLEAN
  /\ NoNote \notin Note
  /\ TitleMatch \in [Series \X Conv -> (Listed \cap Replyable) \cup {NoNote}]
  /\ \A p \in Series \X Conv :
       TitleMatch[p] # NoNote => SeriesOf[TitleMatch[p]] = p[1]
  /\ Listed \subseteq Note
  /\ AllowedConv \subseteq Conv
  /\ MaxMsgs \in Nat \ {0}
  /\ Long \subseteq Text /\ MaxLong \in Nat
  /\ MaxDeliveries \in Nat
  /\ NoSeries \notin SeriesNames

VARIABLES
  pc,           \* where the pass is
  pass,         \* the locals that live from one loop to the next
  job           \* the locals of the current loop iteration

passVars == <<pc, pass, job>>

Points == {"idle", "outbox", "explicit", "bind", "link", "title", "forward",
           "reply", "mark", "hash", "reverse", "post", "seen"}

PassLocals ==
  [ msgs      : SUBSET Nat,             \* fetched messages still to visit
    unfetched : SUBSET Series,          \* outboxes still to fetch
    fetched   : SUBSET Series,          \* outboxes fetched (notesBySeries)
    notes     : SUBSET Nat,             \* fetched comments still to visit
    keys      : SUBSET Conv,            \* explicit keys still to visit
    pairs     : SUBSET (Series \X Conv),\* title candidates still to visit
    cur       : SeriesNames \cup {NoSeries}, \* series the nested loop is in
    delivered : Nat,                    \* forwardZulipToGraft's counter
    began     : Nat,                    \* when the pass's deadline started
    start     : Nat ]                   \* history: Len(inbox) at the start

NoPass == [ msgs |-> {}, unfetched |-> {}, fetched |-> {}, notes |-> {},
            keys |-> {}, pairs |-> {}, cur |-> NoSeries, delivered |-> 0,
            began |-> 0, start |-> 0 ]

BindJob    == [conv : Conv, note : Note, back : {"explicit", "title"}]
ForwardJob == [msg : Nat, note : Note]
ReverseJob == [comment : Nat, conv : Conv]

PassInit ==
  /\ pc = "idle"
  /\ pass = NoPass
  /\ job = NoJob

\* RunOnce returns: the ticker loop will start another pass.
PassOver ==
  /\ pc' = "idle"
  /\ pass' = NoPass
  /\ job' = NoJob

Goto(point) ==
  /\ pc' = point
  /\ job' = NoJob

-----------------------------------------------------------------------------
(* Fetching. *)

\* The newest MaxMsgs messages the bot can see, its own and private ones
\* included.
LatestMessages == {i \in DOMAIN zulip : i + MaxMsgs > Len(zulip)}

\* One MiB of an answer is read; a longer one does not decode.
AnswerFits == Cardinality({i \in LatestMessages : zulip[i].text \in Long}) <= MaxLong

\* groupByConversation drops the private ones.
Window == {i \in LatestMessages : zulip[i].conv \in Conv}

\* A pass whose fetch fails is over and has changed nothing; one whose answer
\* does not fit fails without a fault, and so is not even a step.
FetchMessages ==
  /\ pc = "idle"
  /\ \/ /\ NoFault
        /\ AnswerFits
        /\ pc' = "outbox"
        /\ pass' = [NoPass EXCEPT !.msgs = Window, !.unfetched = Series,
                                  !.began = now, !.start = Len(inbox)]
     \/ /\ Fault("zulip")
        /\ UNCHANGED <<pc, pass>>
  /\ UNCHANGED <<job, storeVars, zulip, inbox, comments>>

CommentsOf(s) == {j \in DOMAIN comments : SeriesOf[comments[j].note] = s}

\* refreshMapping: a series whose outbox cannot be fetched is skipped.
FetchOutbox(s) ==
  /\ pc = "outbox"
  /\ s \in pass.unfetched
  /\ \/ /\ NoFault
        /\ pass' = [pass EXCEPT !.unfetched = @ \ {s}, !.fetched = @ \cup {s},
                                !.notes = @ \cup CommentsOf(s)]
     \/ /\ Fault("outbox")
        /\ pass' = [pass EXCEPT !.unfetched = @ \ {s}]
  /\ UNCHANGED <<pc, job, storeVars, zulip, inbox, comments>>

OutboxesDone ==
  /\ pc = "outbox"
  /\ pass.unfetched = {}
  /\ Goto("explicit")
  /\ pass' = [pass EXCEPT !.keys = DOMAIN Explicit]
  /\ UNCHANGED <<storeVars, remoteVars>>

-----------------------------------------------------------------------------
(* Bindings: applyExplicit and applyTitleMatching. *)

\* The note has an issue URL to link; only notes in a fetched outbox are in
\* the index the code looks it up in.
Linkable(n) ==
  /\ n \in Listed
  /\ SeriesOf[n] \in pass.fetched
  /\ UrlOf[n] # NoUrl

\* Mutation: only the pass that binds an explicit mapping links it.
NoRelink(c) == FALSE

\* A conversation that is bound already is linked again by every pass.
Relink(c) == Linkable(Explicit[c])

\* applyExplicit, one key: an unparsable note URI ends the whole pass; the
\* binding is only written (in Bind) when this read found none.
ExplicitKey(c) ==
  /\ pc = "explicit"
  /\ c \in pass.keys
  /\ \/ /\ Explicit[c] \notin Note
        /\ PassOver
     \/ /\ Explicit[c] \in Note
        /\ pass' = [pass EXCEPT !.keys = @ \ {c}]
        /\ IF HasNote(c)
           THEN IF Relink(c)
                THEN /\ pc' = "link"
                     /\ job' = [conv |-> c, note |-> Explicit[c], back |-> "explicit"]
                ELSE Goto("explicit")
           ELSE /\ pc' = "bind"
                /\ job' = [conv |-> c, note |-> Explicit[c], back |-> "explicit"]
  /\ UNCHANGED <<storeVars, remoteVars>>

\* groupByConversation, as applyTitleMatching iterates over it.
Conversations == {zulip[i].conv : i \in pass.msgs}

ExplicitDone ==
  /\ pc = "explicit"
  /\ pass.keys = {}
  /\ IF AllowTitleMatching
     THEN /\ Goto("title")
          /\ pass' = [pass EXCEPT !.pairs = pass.fetched \X Conversations]
     ELSE /\ Goto("forward")
          /\ UNCHANGED pass
  /\ UNCHANGED <<storeVars, remoteVars>>

\* A nested loop over a Go map of series visits them in any order, each one
\* to its end: s is the current series or the current one has no item left.
Turn(s, left) == s = pass.cur \/ pass.cur \notin left

\* Mutation: a title match replaces the binding the conversation has.
TitleFound(s, c) == TitleMatch[<<s, c>>] # NoNote

TitleWanted(s, c) == ~HasNote(c) /\ TitleMatch[<<s, c>>] # NoNote

\* applyTitleMatching, one series and conversation.
TitlePair(s, c) ==
  /\ pc = "title"
  /\ <<s, c>> \in pass.pairs
  /\ Turn(s, {p[1] : p \in pass.pairs})
  /\ pass' = [pass EXCEPT !.pairs = @ \ {<<s, c>>}, !.cur = s]
  /\ IF TitleWanted(s, c)
     THEN /\ pc' = "bind"
          /\ job' = [conv |-> c, note |-> TitleMatch[<<s, c>>], back |-> "title"]
     ELSE Goto("title")
  /\ UNCHANGED <<storeVars, remoteVars>>

TitleDone ==
  /\ pc = "title"
  /\ pass.pairs = {}
  /\ Goto("forward")
  /\ pass' = [pass EXCEPT !.cur = NoSeries]
  /\ UNCHANGED <<storeVars, remoteVars>>

\* SetConversationNote, called after ConversationNote found no binding.
Bind ==
  /\ pc = "bind"
  /\ \E ok \in BOOLEAN :
       /\ SaveOutcome(ok)
       /\ SetConversationNote(job.conv, job.note, ok)
       /\ IF ~ok
          THEN PassOver
          ELSE /\ UNCHANGED pass
               /\ IF Linkable(job.note)
                  THEN pc' = "link" /\ UNCHANGED job
                  ELSE Goto(job.back)
  /\ UNCHANGED <<zulip, inbox, comments>>

\* SetIssueConversation.
Link ==
  /\ pc = "link"
  /\ \E ok \in BOOLEAN :
       /\ SaveOutcome(ok)
       /\ SetIssueConversation(SeriesOf[job.note], UrlOf[job.note], job.conv, ok)
       /\ IF ok THEN Goto(job.back) /\ UNCHANGED pass ELSE PassOver
  /\ UNCHANGED <<zulip, inbox, comments>>

-----------------------------------------------------------------------------
(* forwardZulipToGraft. *)

\* Mutation: the limit is noticed one delivery late.
LimitLate == MaxDeliveries > 0 /\ pass.delivered > MaxDeliveries

LimitReached == MaxDeliveries > 0 /\ pass.delivered >= MaxDeliveries

\* Mutation: a check on a message is dropped.
Unchecked(m) == TRUE

\* The messages of all conversations are visited oldest first.
Oldest(m) == \A x \in pass.msgs : m <= x

FromUser(m) == zulip[m].sender # "bot"

\* Without a list of allowed streams, every stream is allowed.
streamAllowed(c) == AllowedConv = {} \/ c \in AllowedConv

\* Mutation: a message is recognised as delivered by its content hash.
HashUndelivered(m) == ~IsDelivered(zulip[m].text)

Undelivered(m) ==
  ~MessageDelivered(SeriesOf[mem.conversationNotes[zulip[m].conv]], m)

Forwardable(m) ==
  /\ FromUser(m)
  /\ streamAllowed(zulip[m].conv)
  /\ HasNote(zulip[m].conv)
  /\ Undelivered(m)

SkipMessage(m) ==
  /\ pc = "forward"
  /\ ~LimitReached
  /\ Oldest(m)
  /\ ~Forwardable(m)
  /\ pass' = [pass EXCEPT !.msgs = @ \ {m}]
  /\ UNCHANGED <<pc, job, storeVars, remoteVars>>

PickMessage(m) ==
  /\ pc = "forward"
  /\ ~LimitReached
  /\ Oldest(m)
  /\ Forwardable(m)
  /\ pass' = [pass EXCEPT !.msgs = @ \ {m}]
  /\ pc' = "reply"
  /\ job' = [msg |-> m, note |-> mem.conversationNotes[zulip[m].conv]]
  /\ UNCHANGED <<storeVars, remoteVars>>

ForwardDone ==
  /\ pc = "forward"
  /\ LimitReached \/ pass.msgs = {}
  /\ Goto("reverse")
  /\ pass' = [pass EXCEPT !.msgs = {}]
  /\ UNCHANGED <<storeVars, remoteVars>>

\* Mutation: the status of the answer is not looked at.
ReplyUnchecked(n, m, t, ok) ==
  ok /\ \/ NoFault /\ AcceptReply(n, m, t)
        \/ Fault("refused") /\ UNCHANGED inbox

\* Graft takes the reply and says so; or it does not get it or refuses it; or
\* it takes it and the answer is lost.
ReplyToIssue(n, m, t, ok) ==
  \/ ok /\ NoFault /\ AcceptReply(n, m, t)
  \/ ~ok /\ Fault("refused") /\ UNCHANGED inbox
  \/ ~ok /\ Fault("lostAck") /\ AcceptReply(n, m, t)

\* An error skips the message until the next pass.
Reply ==
  /\ pc = "reply"
  /\ \E ok \in BOOLEAN :
       /\ ReplyToIssue(job.note, job.msg, zulip[job.msg].text, ok)
       /\ IF ok THEN pc' = "mark" /\ UNCHANGED job ELSE Goto("forward")
  /\ UNCHANGED <<pass, storeVars, zulip, comments>>

MarkMessage ==
  /\ pc = "mark"
  /\ \E ok \in BOOLEAN :
       /\ SaveOutcome(ok)
       /\ MarkMessageDelivered(SeriesOf[job.note], job.msg, ok)
       /\ IF ok THEN pc' = "hash" /\ UNCHANGED <<job, pass>> ELSE PassOver
  /\ UNCHANGED <<zulip, inbox, comments>>

MarkHash ==
  /\ pc = "hash"
  /\ \E ok \in BOOLEAN :
       /\ SaveOutcome(ok)
       /\ MarkDelivered(zulip[job.msg].text, ok)
       /\ IF ok
          THEN /\ Goto("forward")
               /\ pass' = [pass EXCEPT !.delivered = @ + 1]
          ELSE PassOver
  /\ UNCHANGED <<zulip, inbox, comments>>

-----------------------------------------------------------------------------
(* reverseGraftToZulip. *)

CommentSeries(j) == SeriesOf[comments[j].note]

\* Mutation: only Graft's marker counts, not the recorded hash.
MarkedEcho(j) == comments[j].marked

\* The comment came from the bridge, as far as the bridge can tell.
Echo(j) == IsDelivered(comments[j].text) \/ comments[j].marked

NextComment(j) ==
  /\ pc = "reverse"
  /\ j \in pass.notes
  /\ Turn(CommentSeries(j), {CommentSeries(i) : i \in pass.notes})

IssueOf(j) == <<CommentSeries(j), UrlOf[comments[j].note]>>

\* Mirrored already, or of an issue no conversation is linked to.
SkipComment(j) ==
  /\ NextComment(j)
  /\ \/ SeenNote(CommentSeries(j), j)
     \/ /\ ~Echo(j)
        /\ ~HasConversation(IssueOf(j)[1], IssueOf(j)[2])
  /\ pass' = [pass EXCEPT !.notes = @ \ {j}, !.cur = CommentSeries(j)]
  /\ UNCHANGED <<pc, job, storeVars, remoteVars>>

SuppressEcho(j) ==
  /\ NextComment(j)
  /\ ~SeenNote(CommentSeries(j), j)
  /\ Echo(j)
  /\ \E ok \in BOOLEAN :
       /\ SaveOutcome(ok)
       /\ MarkSeenNote(CommentSeries(j), j, ok)
       /\ IF ok
          THEN /\ pass' = [pass EXCEPT !.notes = @ \ {j}, !.cur = CommentSeries(j)]
               /\ UNCHANGED <<pc, job>>
          ELSE PassOver
  /\ UNCHANGED <<zulip, inbox, comments>>

PickComment(j) ==
  /\ NextComment(j)
  /\ ~SeenNote(CommentSeries(j), j)
  /\ ~Echo(j)
  /\ HasConversation(IssueOf(j)[1], IssueOf(j)[2])
  /\ pass' = [pass EXCEPT !.notes = @ \ {j}, !.cur = CommentSeries(j)]
  /\ pc' = "post"
  /\ job' = [comment |-> j, conv |-> mem.issueConversations[IssueOf(j)]]
  /\ UNCHANGED <<storeVars, remoteVars>>

\* Mutation: neither the status of the answer nor its result is looked at.
SendUnchecked(c, j, ok) ==
  ok /\ \/ NoFault /\ AcceptMessage(c, j)
        \/ Fault("refused") /\ UNCHANGED zulip

\* As with a reply: what was posted may be reported as an error, when the
\* answer does not arrive or does not decode.
SendMessage(c, j, ok) ==
  \/ ok /\ NoFault /\ AcceptMessage(c, j)
  \/ ~ok /\ Fault("refused") /\ UNCHANGED zulip
  \/ ~ok /\ Fault("lostAck") /\ AcceptMessage(c, j)

Post ==
  /\ pc = "post"
  /\ \E ok \in BOOLEAN :
       /\ SendMessage(job.conv, job.comment, ok)
       /\ IF ok THEN pc' = "seen" /\ UNCHANGED job ELSE Goto("reverse")
  /\ UNCHANGED <<pass, storeVars, inbox, comments>>

MarkSeen ==
  /\ pc = "seen"
  /\ \E ok \in BOOLEAN :
       /\ SaveOutcome(ok)
       /\ MarkSeenNote(CommentSeries(job.comment), job.comment, ok)
       /\ IF ok THEN Goto("reverse") /\ UNCHANGED pass ELSE PassOver
  /\ UNCHANGED <<zulip, inbox, comments>>

ReverseDone ==
  /\ pc = "reverse"
  /\ pass.notes = {}
  /\ PassOver
  /\ UNCHANGED <<storeVars, remoteVars>>

-----------------------------------------------------------------------------

PassStep ==
  \/ FetchMessages
  \/ \E s \in Series : FetchOutbox(s)
  \/ OutboxesDone
  \/ \E c \in Conv : ExplicitKey(c)
  \/ ExplicitDone
  \/ \E s \in Series, c \in Conv : TitlePair(s, c)
  \/ TitleDone
  \/ Bind
  \/ Link
  \/ \E m \in pass.msgs : SkipMessage(m) \/ PickMessage(m)
  \/ ForwardDone
  \/ Reply
  \/ MarkMessage
  \/ MarkHash
  \/ \E j \in pass.notes : SkipComment(j) \/ SuppressEcho(j) \/ PickComment(j)
  \/ Post
  \/ MarkSeen
  \/ ReverseDone
=============================================================================
