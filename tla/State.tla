------------------------------- MODULE State -------------------------------
(***************************************************************************)
(* The bridge's durable bookkeeping (internal/state/state.go).             *)
(*                                                                         *)
(* A State is five Go maps guarded by one mutex, so every method is one    *)
(* atomic step.  Every mutator changes the maps in memory first and then   *)
(* rewrites the whole file (saveLocked): when the write fails the memory   *)
(* keeps the change, the file does not.  StateFile has the steps of that   *)
(* save, and Store what they add up to: Save and Load here are Store's for *)
(* one process.                                                            *)
(*                                                                         *)
(* ActorKeys is left out: it is written once, before the first pass, and   *)
(* belongs to Daemon.                                                      *)
(***************************************************************************)
EXTENDS Naturals, Functions, GoMaps

CONSTANT
  Retention     \* dedupRetention, in ticks of the clock

ASSUME RetentionAssumption == Retention \in Nat

VARIABLES
  mem,          \* the maps of the running process
  disk,         \* the maps as state.json holds them
  now           \* time.Now()

storeVars == <<mem, disk, now>>

-----------------------------------------------------------------------------

EmptyState ==
  [ conversationNotes  |-> EmptyMap,   \* conversation -> note URI
    issueConversations |-> EmptyMap,   \* <<series, issue URL>> -> conversation
    delivered          |-> EmptyMap,   \* content hash -> time recorded
    messagesDelivered  |-> EmptyMap,   \* <<series, message id>> -> time recorded
    seenNotes          |-> EmptyMap ]  \* <<series, note URI>> -> time recorded

StateInit ==
  /\ mem = EmptyState
  /\ disk = EmptyState
  /\ now = 0

Fresh(t) == t + Retention >= now

Unexpired(m) == Restrict(m, {k \in DOMAIN m : Fresh(m[k])})

\* prune: drops the dedup entries older than the retention.
Prune(s) == [s EXCEPT !.delivered         = Unexpired(@),
                      !.messagesDelivered = Unexpired(@),
                      !.seenNotes         = Unexpired(@)]

\* Mutation: a save that only reaches the memory, as if the caller forgot it.
SaveForgotten(s, ok) == /\ mem' = Prune(s)
                        /\ UNCHANGED <<disk, now>>

\* saveLocked: the memory is pruned whether or not the file is replaced; the
\* file changes in one rename or not at all.
Save(s, ok) == /\ mem' = Prune(s)
               /\ disk' = IF ok THEN Prune(s) ELSE disk
               /\ UNCHANGED now

\* Load after a restart: the memory is what the file holds.
Load == /\ mem' = disk
        /\ UNCHANGED <<disk, now>>

-----------------------------------------------------------------------------
(* The methods.  ok says whether saveLocked succeeded. *)

HasNote(c) == c \in DOMAIN mem.conversationNotes

SetConversationNote(c, n, ok) ==
  Save([mem EXCEPT !.conversationNotes = Put(@, c, n)], ok)

\* Mutation: the issue links of the conversation are left behind.
WithoutNote(c) ==
  [mem EXCEPT !.conversationNotes = Restrict(@, DOMAIN @ \ {c})]

\* The maps without the conversation's mapping and the links that point at it.
Without(c) ==
  [mem EXCEPT !.conversationNotes  = Restrict(@, DOMAIN @ \ {c}),
              !.issueConversations = Restrict(@, {u \in DOMAIN @ : @[u] # c})]

DeleteConversationNote(c, ok) == Save(Without(c), ok)

HasConversation(s, u) == <<s, u>> \in DOMAIN mem.issueConversations

SetIssueConversation(s, u, c, ok) ==
  Save([mem EXCEPT !.issueConversations = Put(@, <<s, u>>, c)], ok)

IsDelivered(h) == h \in DOMAIN mem.delivered

MarkDelivered(h, ok) ==
  Save([mem EXCEPT !.delivered = Put(@, h, now)], ok)

\* Mutation: an entry at the cutoff no longer counts.
MessageDeliveredTooShort(s, m) ==
  /\ <<s, m>> \in DOMAIN mem.messagesDelivered
  /\ mem.messagesDelivered[<<s, m>>] + Retention > now

MessageDelivered(s, m) == <<s, m>> \in DOMAIN mem.messagesDelivered

MarkMessageDelivered(s, m, ok) ==
  Save([mem EXCEPT !.messagesDelivered = Put(@, <<s, m>>, now)], ok)

\* Mutation: an entry at the cutoff no longer counts.
SeenNoteTooShort(s, n) ==
  /\ <<s, n>> \in DOMAIN mem.seenNotes
  /\ mem.seenNotes[<<s, n>>] + Retention > now

SeenNote(s, n) == <<s, n>> \in DOMAIN mem.seenNotes

MarkSeenNote(s, n, ok) ==
  Save([mem EXCEPT !.seenNotes = Put(@, <<s, n>>, now)], ok)
=============================================================================
