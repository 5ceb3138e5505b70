---------------------------- MODULE BridgeLedger ----------------------------
(***************************************************************************)
(* Both directions of the bridge keep a Ledger: messages forwarded to      *)
(* Graft, recorded in messages_delivered, and comments mirrored to Zulip,  *)
(* recorded in seen_notes.  This is as long as no record expires.          *)
(***************************************************************************)
EXTENDS Bridge

BotPosts == {i \in DOMAIN zulip : zulip[i].sender = "bot"}

\* The bridge may take a comment for an echo.
LooksLikeEcho(j) ==
  comments[j].marked \/ \E d \in DOMAIN inbox : inbox[d].text = comments[j].text

Forward == INSTANCE Ledger WITH
  sent     <- [d \in DOMAIN inbox |-> KeyOf(d)],
  recorded <- DOMAIN disk.messagesDelivered,
  excused  <- {},
  mishaps  <- faults

Mirror == INSTANCE Ledger WITH
  sent     <- [i \in BotPosts |-> zulip[i].mirrors],
  recorded <- {k[2] : k \in DOMAIN disk.seenNotes},
  excused  <- {j \in DOMAIN comments : LooksLikeEcho(j)},
  mishaps  <- faults

\* Whatever fails and wherever the process stops, forwarding is at least once
\* with repetitions paid for: a message on record is not sent again, nothing
\* that was not accepted gets on record, nothing leaves the record, and the
\* bridge never repeats itself more often than something has failed, faults of
\* every kind (Remotes!Faults) taken together (bridge.go:319-332,
\* state.go:265-279).
ForwardingKeepsLedger == Forward!Spec

\* The same of mirroring, faults of every kind again taken together, where the
\* record may also name comments that look like echoes (bridge.go:348-376,
\* state.go:281-295).
MirroringKeepsLedger == Mirror!Spec
=============================================================================
