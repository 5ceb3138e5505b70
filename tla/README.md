# A verification project for the Graft-Zulip bridge

The bridge (`src/`) is a Go daemon that keeps Zulip conversations and Graft
issue threads in step. It polls both sides: every pass it forwards new Zulip
messages as signed ActivityPub replies, and posts new issue comments into
Zulip. This directory holds TLA+ models of it, configurations for TLC and
proofs for TLAPS.

1. [The system](#1-the-system)
2. [What can go wrong](#2-what-can-go-wrong)
3. [The modules](#3-the-modules)
4. [The runs](#4-the-runs)
5. [Fairness](#5-fairness)
6. [The proofs](#6-the-proofs)
7. [Where code and documents disagree](#7-where-code-and-documents-disagree)
8. [Abstractions and what is left out](#8-abstractions-and-what-is-left-out)
9. [Plan](#9-plan)

## 1. The system

| Component | Code | State | Operations |
|---|---|---|---|
| State store | `internal/state/state.go` | Six maps behind one mutex: actor keys, conversation → note, ⟨series, issue URL⟩ → conversation, three dedup records with times; the file `state.json` | One method per lookup and per change. Every change alters memory, prunes records older than 180 days and rewrites the whole file (temporary file, rename) |
| Reconciliation pass | `internal/bridge/bridge.go` | Locals of `RunOnce` only | Fetch messages and outboxes, apply the explicit mappings and the title matches, forward, mirror |
| Admin API | `internal/admin/admin.go`, `Bridge.Bind`, `Bridge.Unbind` | None of its own | List issues and mappings, bind, unbind. A goroutine per request |
| Graft client | `internal/graft/client.go`, `internal/ap/sign.go`, `internal/netguard/netguard.go` | A cache-free HTTP client with a guard on every hop | Fetch an actor, an outbox; reply to an issue with a signed POST |
| Note parsing, titles | `internal/graft/note.go`, `internal/ap/object.go` | None | Split a note's content, parse note URIs, normalise and match titles |
| Zulip client | `internal/zulip/client.go` | None | The newest `max_msgs` messages; post a message |
| Daemon | `cmd/bridge/main.go`, `internal/ap/keys.go` | The running process: its actor key, a ticker, a signal context, two servers | Load, ensure the actor's key, serve, loop, shut down |
| Actor server | `internal/ap/server.go` | One constant document | Serve the actor and its public key |
| Configuration | `internal/config/config.go` | None after loading | Read, default, check |

They interact in three ways. The pass and the admin requests run concurrently
and share the State: each method call is atomic, a sequence of them is not.
Passes never overlap: the daemon starts the next one when the last returned.
Zulip and Graft are reached by calls that can fail, and whose answer can be
lost after they took effect. They also feed back: what the bridge posts on one
side it finds again on the other.

## 2. What can go wrong

`PROJECT.json` lists the hazards line by line. They fall into these groups.

- **Recording what happened.** A delivery and its records are three separate
  steps (reply, id, hash), a mirrored comment two. A crash, a failed save or a
  lost answer can separate them. Nothing may be recorded that did not happen;
  what happened and was not recorded is repeated, at most once for each fault.
- **Feedback.** The bot's own messages are in the window it reads, and its own
  replies come back as comments. Neither may go round.
- **Interleaving.** Bind makes two saves; the pass checks a binding in one step
  and writes it in another; an operator may come between.
- **Bindings and links.** Two maps must agree: conversation → note and
  issue → conversation.
- **Limits and order.** A limit on the deliveries of a pass, an order over all
  conversations, a window of messages, records that expire.
- **Progress.** Any failure ends a message, a series or a pass; the next pass
  must get further. The daemon must poll for ever, and stop when asked.
- **Identity.** The actor has one key for good, or peers that keep it reject
  everything.
- **Names.** Topics contain the separators of the keys, paths and links they
  are put into; titles must match in spite of case, gaps and punctuation.
- **The wire.** Redirects, lost answers, late arrivals, names that resolve to
  something else the second time.

## 3. The modules

```
GoMaps ── State ─┬─ Pass ──┐         ┌─ BridgeLedger ── MCBridge
      Remotes ───┤         ├─ Bridge ┤      : Ledger
                 └─ Admin ─┘         └─ BridgeProof ── SafetyProof ─┬─ LedgerProof
                                                     BridgeLedger ──┘
GoMaps ── StateFile ─┬─ MCStateFile      Config ─┬─ Daemon ─┬─ MCDaemon
             : Store └─ StateFileProof   GoMaps ─┘          └─ DaemonProof
Names ── Titles ─┬─ MCTitles             Delivery ─┬─ MCDelivery
                 └─ NamesProof ── TitlesProof      └─ DeliveryProof
```

A line is EXTENDS; a colon is INSTANCE of the abstract specification that the
module above is shown to implement.

**GoMaps** — a Go map as a function with a growing domain.

**State** — the store. `mem` is the maps of the process, `disk` those of the
file, `now` the clock that prunes. One operator per method of the code, with
the method's name. `Save(s, ok)` is `saveLocked`: memory is pruned and kept
whatever happens, the file changes in one rename or not at all.

**StateFile** — the steps of that save (temporary file, contents, close, mode,
rename), each of which may fail, with crashes between any two, several
processes on one file and a umask that may hide a new file from its owner.
**Store** is what they add up to: a save happens at once or not at all, and its
answer says which. The mapping gives a process that is in the middle of a save
the memory from before it (`before`; `Remembered`), and takes the maps of
`state.json`, when there is one, for the file (`OnFile`). `Save` and `Load` of State are Store's for one
process.

**Remotes** — Zulip and Graft as the code uses them, external to the
repository. Three logs that only grow: `zulip` (messages), `inbox` (replies
Graft accepted), `comments` (comment notes of the outboxes). Users post, the
repository gets comments of its own, Graft republishes a reply as a comment,
with or without its "via Fediverse" marker. `Fault(kind)` spends one of
`MaxFaults`: Zulip down, an outbox down, a call refused, an answer lost, a
failed save, a crash.

**Pass** — `RunOnce` and all it calls. A pass is sequential, so an action is
what happens between two points another actor can observe: one call of a remote
system, or one locked access of the State. `pc` names the point:

| `pc` | Actions | Code |
|---|---|---|
| `idle` | `FetchMessages` | `LatestMessages`, grouping |
| `outbox` | `FetchOutbox`, `OutboxesDone` | `refreshMapping` |
| `explicit` | `ExplicitKey`, `ExplicitDone` | `applyExplicit` |
| `title` | `TitlePair`, `TitleDone` | `applyTitleMatching` |
| `bind`, `link` | `Bind`, `Link` | the saves of both |
| `forward` | `SkipMessage`, `PickMessage`, `ForwardDone` | the loop of `forwardZulipToGraft` |
| `reply`, `mark`, `hash` | `Reply`, `MarkMessage`, `MarkHash` | one delivery |
| `reverse` | `SkipComment`, `SuppressEcho`, `PickComment`, `ReverseDone` | the loop of `reverseGraftToZulip` |
| `post`, `seen` | `Post`, `MarkSeen` | one mirrored comment |

`pass` holds the locals that live through the pass, `job` those of an
iteration. Loops over Go maps visit their keys in any order, a nested loop one
outer key to its end before the next (`Turn`).

**Admin** — `Bind` in two steps (`BindNote`, `BindLink`) and `Unbind`, for any
number of concurrent requests, each with what it checks first. `acked` is a history variable: what each
conversation's last saved request was told.

**Bridge** — Pass and Admin interleaved over one State, with a clock and a
crash that loads the file again. All properties of the core are stated here.

**Ledger** — what either direction promises, in terms of items alone: they are
sent one at a time, what is on record is not sent, nothing gets on record
that was not sent (or is excused), nothing is struck from it, and repetitions
never outnumber mishaps. **BridgeLedger** instantiates it twice. Forwarding:
`inbox` is what was sent, `messages_delivered` on file the record. Mirroring:
the bot's posts in `zulip`, `seen_notes` on file, and comments that look like
echoes are excused. Both read the *file*, which is what a restart goes by. The
mappings hold while no record expires.

**Names** — conversation keys, the path of an unbind request, trackback links,
for a topic that a user types character by character. **Titles** adds an outbox
and what `ParseNotes`, `NormalizeTitle` and `MatchIssueByTitle` make of it, and
the way of a message to Graft and back (`Content`, `Republished`, `hashContent`).
Pass takes the outcome of matching as its constant `TitleMatch`, and keys as
model values: Names and Titles are the justification.

**Config** — pure operators: what `config.Load` accepts and how it fills in what
is missing, the guards and the actor that `main` makes of it, who the admin API
lets in, and the two routes of the actor server.

**Daemon** — the process around the passes: configuration, load, key, launch,
the first pass, loop, admin requests, signal, shutdown, crash, `-once`. Several
lives of the process follow each other over one state file, each with a
configuration file, a token in the environment and a mode of its own.

**Delivery** — one reply: the GET of the actor document, signing, validation,
dialling, redirects, late arrivals, Graft's check of the signature. Graft takes
a request in one step and the client hears of it in another (`Handled`,
`Answered`). Until then the answer may be lost (`AnswerLost`), by a timeout or
because the connection is reset or closed: `HTTP.Do` fails the same way whether
Graft has taken the request, will, or never does (`client.go:164-167`).
It shows where the three outcomes come from that Pass gives `ReplyToIssue`
(accepted, refused, accepted with the answer lost): a failure that was answered
is a refusal, and no call is accepted twice. The fourth outcome of section 7, no
error but not taken, is left out of Pass. A request that arrives after its call
was given up is in Pass accepted in the step of the call.
Graft's check is modelled by `VerifyRequest` of `internal/ap/sign.go`, the
repository's own account of how such a request is verified.

`MC*` modules hold the values of the constants. Operators marked *Mutation* are
plausible mistakes in the definition that follows them; no specification uses
them. They are kept to show that the properties notice.

## 4. The runs

Every property of a passing run is broken by at least one mutation under that
run's own configuration. Deadlock is checked except in the two Delivery runs,
whose bounds on calls and time end every behaviour, and in `big_window`, where
the process does stop getting anywhere.

| Run | Checks | Bounds, and why they are enough |
|---|---|---|
| `faults` | Nothing is recorded that did not happen (`MarkedWasAccepted`, `SeenWasHandled`); the bot is not forwarded (`NoLoopback`); each direction implements Ledger, so that repetitions never outnumber faults, of whatever kinds (`ForwardingKeepsLedger`, `MirroringKeepsLedger`); order within a pass (`InPassOrder`), here of one conversation: the order across conversations rests on `RepliesInOrder`, since two conversations with two faults are beyond the time of a run; `TypeOK` | One conversation, two messages, one comment, any two faults of six kinds at any point. Two messages are the fewest with an order; a second fault hits the repair of the first (a crash after a lost answer) |
| `clock` | An entry in the file protects for the whole retention, across restarts (`RecordedNotResent`, `SeenNotRemirrored`) | Retention of 1, three ticks, so that entries live, sit exactly on the cutoff and expire; one fault of any kind |
| `live` | Every due message is delivered, every due comment is dealt with (`EventuallyDelivered`, `EventuallyMirrored`) | Two messages with the same text and a limit of one delivery, so the second needs another pass; any one fault; an empty list of allowed streams, which allows all |
| `operators` | What was acknowledged holds, in memory and after a restart (`AckedHolds`); no link to an unbound conversation (`LinkedIsBound`); no reply to a commit (`RepliesOnlyToReplyable`) | Two conversations, two issues and a commit, three requests: bind, rebind, unbind in every order, between any two steps of a pass. Nothing in the configuration binds |
| `titles` | A binding sticks (`BindingSticks`), comments go where a conversation is bound (`MirroredWhereBound`), no duplicates (`NoDuplicateDelivery`), no echoes (`EchoNotMirrored`), the limit (`DeliveriesBounded`) | Two series with an issue of the same title, one conversation that matches both, one mapped explicitly; two messages, a limit of one; calls fail but answers are not lost |
| `names` | Keys parse back (`KeyRoundTrip`), unbinding reaches its topic (`UnbindsInnerSlashes`), links open theirs (`TrackbackOpensTopic`), titles match by words (`NormalizeIsWords`, `MatchesSameWords`), an own message is recognised when it comes back (`EchoRecognised`) | All topics of up to three of ten characters, every separator and escape of the code among them; two notes, since the first of two matches wins; titles with punctuation inside a word, a double gap, a colon. Texts are cut at 6 and hashed up to 5, with an attribution of 4, so that a message of three is cut and may then end in a space |
| `statefile` | The file can be loaded whatever happened to its writers (`AlwaysLoadable`); a save is one step (`ImplementsStore`) | Two processes, the daemon and a `-once` run, in every interleaving; two contents; three temporary names, one more than can be in use at a time, so that leftovers are met (with all taken, CreateTemp fails, as it does on a full disk); a umask that hides new files. Names are symmetric |
| `daemon` | One key pair per actor (`OneKeyPerActor`), kept in the file (`SigningKeyOnFile`); the actor is found by its handle (`Discoverable`); only Zulip in plaintext (`PlaintextOnlyToZulip`); it stops when asked (`StopsWhenAsked`) and polls until then (`KeepsPolling`) | Three files that are accepted (a trailing slash and the default name; another name and a plaintext Zulip; a negative interval), eight that each break one rule; four key pairs (no behaviour within the faults needs more), any two crashes, failed saves or refused files |
| `delivery` | Graft accepts only what was signed, for that inbox, in time (`AcceptedAsSigned`); refuses nothing else that reaches its inbox (`RefusedForCause`); only allowed addresses are dialled (`OnlyAllowedDialled`); an error means not delivered unless the answer was lost (`AnsweredFailureNotTaken`); no call is taken twice (`TakenOnce`) | Two calls, so a late request meets a retry; two inboxes, the actor document (a page to those who ask for it by mistake), a plaintext URL, an internal address and a local name; a window of 2 around a clock skew of 1, four ticks |
| `bind_race`, `big_window`, `delivery_page` | Violated; see section 7 | The smallest instance with the disagreement |

Not in any run, although modelled: a configured note URI that does not parse. It
ends every pass before its first delivery (the first disjunct of `ExplicitKey`),
so no other property would see more than an empty log.

## 5. Fairness

`Bridge!FairSpec` assumes weak fairness of the pass alone: the daemon's loop
runs one pass after another and every call in it has a deadline. Users,
operators, Graft, the clock and faults are under no obligation, and faults are
finitely many: liveness says that the bridge recovers once they end.

`Daemon!FairSpec` assumes weak fairness of the end of a pass (its context has
the deadline `pass_timeout`, and a panic is recovered), of the ticker, of
taking a tick, and of the shutdown (its context ends after five seconds); the
liveness of `daemon` begins with the first pass, which a negative interval
never lets begin. It
assumes strong fairness of `Stop`: when both channels of the loop's `select` are
ready Go chooses at random, so a signal that is there again and again is taken.
Weak fairness would not do: during every pass `Stop` is disabled.

## 6. The proofs

All theorems hold for any sets of series, conversations, notes, texts and
requests, any retention, any number of posts, faults, requests and ticks, under
the named assumptions on constants (`RemotesAssumption`, `PassAssumption` and so
on, which TLC evaluates in the runs).

Where a theorem has a hypothesis of its own, it is given below with the reason:
without it the code does not do what the property says (section 7), or the
code's own configuration fixes it.

Most properties are not inductive. Each proof names the invariant that is: the
property and what the program's points between two steps add to it. TLC finds
each of them true under the configuration of its property's run.

**The records** (BridgeProof, SafetyProof).

- `TypeCorrect` — `Spec => []TypeOK`. It is more than typing: the
  locals of a pass refer to messages and comments that exist, and the message
  being delivered was written by a user. The module begins with the facts about
  maps and the State's methods that all later proofs use. `TypeOK` is inductive
  by itself.
- `NoLostMessage`, `NoLostComment`, `NoLoopbackEver` —
  `MarkedWasAccepted`, `SeenWasHandled`, `NoLoopback`. The first two are not
  inductive: at `mark` the message is about to be recorded, so the invariant
  `Truthful` adds that at `mark` and `hash` the reply in hand is in the inbox,
  and at `seen` that the post in hand is in Zulip; it also follows
  every recorded hash back to a delivery, since an echo is recorded as seen on
  the strength of its hash. Logs only grow, so evidence never goes away.
  `RepliesAreUsers` says the same of senders.
- `NoResend`, `NoRemirror` — the action properties
  `RecordedNotResent` and `SeenNotRemirrored`. A message is picked only when
  *memory* has no record of it; the property is about the *file*. `Protects` is
  the bridge between the two: what the file records and has not expired, memory
  records too, and between picking and sending nothing else records it. A
  failed save leaves memory ahead of the file, a crash makes them
  equal, and pruning drops from both by the same clock.
- `RepliesInOrder` — `InPassOrder`, without a hypothesis. `InOrder` adds that
  every message still to come has a greater id than any sent by this pass, and
  that the one in hand lies between them.
- `DeliveriesLimited` — `DeliveriesBounded`, when no answer is lost. `Counting`
  says what the count in the pass's locals stands for: it and the delivery that
  is between the answer and its records make up what reached Graft.

**The ledgers** (LedgerProof).

- `ForwardingIsPaidFor`, `MirroringIsPaidFor` — both directions implement
  Ledger: every step is a step of Ledger or none. The proof is an account. An
  item sent again, or sent and not on file, is owed (`Owed`); a fault pays for
  one. A reply owes one more, for which the pass has credit until it is
  recorded (`ForwardPaid`, `MirrorPaid`); a lost answer, a failed save or a
  crash takes that credit and spends a fault on it. The cardinalities need facts
  about finite sets, and that what is due is not on record (`DueUnrecorded`),
  which needs memory to have all the file has (`Durable`).
  The theorems are about behaviours in which the retention has not passed
  (`[]Young`): after it records expire and `prune` makes room for a repetition
  that no fault has paid for.
- `DeliveredOnce` — `NoDuplicateDelivery`, while records are young, when no
  answer is lost and the process does not stop. Failed saves may happen: memory
  still has the record.
- `MarkedEchoesStop`, `EchoesStop` — `EchoNotMirrored` twice. When Graft marks
  what it republishes nothing else is needed, whatever fails and expires. When
  it does not, every text that was sent must be on record (`TextsRecorded`),
  which holds while records are young if no answer is lost, no save fails and
  the process does not stop.

**Bindings** (the second part of SafetyProof).

- `AcknowledgedHolds` — `AckedHolds` for any number of concurrent requests, when
  only operators bind (`OperatorsOnly`: no configured mapping, no title
  matching). With either of them a pass may overwrite a Bind.
- `LinksAreAnchored` — `LinkedIsBound`, when either the passes alone or one
  operator bind (`OneWriter`). The invariant adds that what is about to be
  linked is bound. Two operators break it (run `bind_race`).
- `RepliesAreTaken` — `RepliesOnlyToReplyable`, with operators, title matches
  and configured mappings, if those of the configuration name no commit
  (`ExplicitReplyable`; the code does not check it).
- `BindingsStick`, `MirroredIntoBound` — the action properties `BindingSticks`
  and `MirroredWhereBound`, when no operator takes part. The invariant
  (`FirstInv`) goes through the pass: `applyExplicit` has settled the
  conversations it has been through before a title is looked at, a title is
  looked at for unbound conversations only, nobody writes between a check and
  its write, and no link is to a conversation that is bound elsewhere, in
  memory or in a file that may be behind (`Fits`, `FileIsOlder`).

**The state file** (StateFileProof).

- `FileAlwaysLoads` — `AlwaysLoadable`, for any number of
  processes and files. The invariant adds who owns what: a process in a save has
  a temporary file that exists, is no other's and is not `state.json`
  (`OwnTemp`); from the write on it is whole and holds the process's memory, and
  it is readable when it is renamed (`TempWhole`). Otherwise a rename could
  publish a file that another process was still writing.
- `SavesAreAtomic` — `ImplementsStore` from the same invariant:
  Load, the rename, a failed step and a crash are Store's `Load`, `Saved`,
  `NotSaved` and `Crash`; the change and the other steps of a save move neither
  `Remembered` nor `OnFile`.

**The process** (DaemonProof).

- `OneKeyForGood`, `SignsWithKeptKey` — from the invariant that
  every pair ever published is on file and memory agrees with the file
  once the process runs.
- `PlaintextIsChosen` — `PlaintextOnlyToZulip` for every set of configuration
  files: a process that runs has one that `Load` accepted (`ConfigAccepted`).
- `HandleLeadsToKey` — `Discoverable`, for every configuration: the routes and
  the key id are built from the same origin and name.

**The wire** (DeliveryProof), for any URLs, redirects, resolvers, clocks and
number of calls.

- `TakenAsSigned`, `RefusedByTheClock` — `AcceptedAsSigned`, `RefusedForCause`.
  The invariant (`SignedInv`, `CheckedInv`) follows a request from `SignRequest`
  to `VerifyRequest`: wherever redirects take it it carries what was signed of
  it, so one that Graft takes is, field by field, one that was signed. The first
  supposes that plaintext is not allowed, as it never is for Graft
  (`main.go:68`; `PlaintextIsChosen`): the scheme is not signed.
- `DialsWhatIsAllowed` — `OnlyAllowedDialled`, if the URL of the actor
  document, which alone is not validated, has a permitted scheme, as
  `config.Load` sees to.
- `AnsweredFailureIsHonest` — `AnsweredFailureNotTaken`: a request that can still
  bring its reply to Graft is the one that is waited for, or its answer was lost;
  what Graft has taken was reported as such, or its success is under way, or its
  answer was lost (`ReportInv`). A connection may break at any moment of the wait.
- `RepliesAreTakenOnce` — `TakenOnce`: a reply has one carrier, in flight or about
  to be sent, and none once Graft has taken it (`CarrierInv`): a redirect moves the
  request, and no error makes `postSigned` send it again.

**Names and texts** (NamesProof, TitlesProof), for topics, titles and messages of
every length over every set of characters and outboxes of every length. That
titles are made of the same characters as topics (`TitlesAssumption`) costs
nothing: the set is any.

- `KeysAreFaithful` — `KeyRoundTrip`: the first slash of
  a key is the one after the stream id (`FirstSlash`), and what follows it is
  the topic.
- `UnbindingFindsItsTopic` — `UnbindsInnerSlashes`: trimming takes nothing off a
  key that begins with a stream id and does not end in a slash.
- `EchoesAreRecognised` — `EchoRecognised`, for any limit and any length of the
  hashed part. A note is cut at its first ": ", which is the one Graft put
  there, and trimming takes spaces off the end alone, since the text begins
  with the attribution; so the hashed part is the same if there is something to
  read at its end or after it (`ReadsOn`, which is necessary too: TLC finds a
  counterexample without it).
- `TrackbacksOpenTheirTopic` — `TrackbackOpensTopic`. Each of the three
  replacements of `encodeHashComponent` puts together what it makes of the parts
  (`ReplaceJoined`), so a link is the characters' escapes in a row
  (`EncodeAppend`), and an escape is a dot and two digits that no later
  replacement touches (`CodeDigits`, `EncodeOne`). None has a slash, so the fifth
  part of the link is the topic's (`TopicSegment`), and what is read where the
  link of a first part ends is the rest of the topic (`ReadThrough`).
- `TitlesMatchByWords` — `NormalizeIsWords`. The normal form is made in one pass,
  the words are defined by the places where they begin. Both are followed from
  one character to the next: `WordsStep` and `TextStep` say what one more
  character does. What the pass has written is the words with a space between
  them, and one more if it ends in a gap (`TextTold`); trimming takes that one
  off, so the normal form is a function of the words (`NormalSentence`). It has
  the same words itself (`NormalWords`), so the words are a function of it.
- `TopicFindsTheFirstIssue` — `MatchesSameWords`. The invariant is that the
  outbox has notes Graft can have written and nothing else (`OutboxOK`). A note
  is cut after its word (`NoteCut`), spaces around a title are no words
  (`WordsTrimmed`), so a note is taken for an issue of the topic's title exactly
  if it was published as one (`SameIssue`). Parsing leaves notes out but keeps
  their order, so the first that is taken is the first that was published
  (`FirstIssue`).

What a fold or a recursive function computes from a text (`FoldLeft`,
`FlattenSeq`, `Replace`, `Decode`) is known by induction. The library's
induction theorems take an operator as a parameter, which the provers cannot
instantiate; `Counting` and `ByAppending` state induction for sets instead,
which they can. A recursive function is a CHOOSE: it has the equations of its
definition once it is shown that some function has them (`FoldExists`,
`ReadingExists`).

Only model-checked: liveness (`EventuallyDelivered`, `EventuallyMirrored`,
`StopsWhenAsked`, `KeepsPolling`), since fairness and ENABLED are outside the
prover's reach. Every safety property and every refinement that a passing run
checks is a theorem, with the hypotheses named above. The three violations of
section 7 are counterexamples of TLC.

## 7. Where code and documents disagree

Three runs end in a counterexample to what a comment or document says.

- `delivery_page` (a bug): a redirect by 301, 302 or 303 repeats the signed POST
  as a GET, and a page's 200 is taken for a delivery. The message is recorded
  and never sent (`client.go:169`, against `state.go:69`).
- `big_window` (a bug): `doRequest` reads one MiB of an answer. A window of
  `max_msgs` long messages is longer, does not decode, and ends every pass
  before the outboxes are read; only new short messages can change that, and
  nobody need write any. Meanwhile comments are not mirrored
  (`internal/zulip/client.go:132`, against `README.md:28-29`). With
  `MaxLong = 2` the same run holds.
- `bind_race`: Unbind between the two saves of Bind leaves an issue linked to a
  conversation that is not bound (`bridge.go:140`, against `state.go:202-204`).

Further limits of the code explain why some passing runs are bounded as they
are; each can be seen by changing the constant named.
The theorems about these properties have the same limits as hypotheses.

- Binding a conversation to another issue leaves the first issue's link, so its
  comments still arrive (`bridge.go:143`, against `README.md:28-29`).
  `MirroredWhereBound` runs without operators (`Admins`).
- `DELETE` for the topic `a/` removes the binding of `a` (`admin.go:135`,
  against `admin.go:132-134`). `UnbindsInnerSlashes` is about the other topics.
- Records expire after 180 days while messages are selected by count. In a
  quiet organisation an old message is delivered again. `NoDuplicateDelivery`
  therefore runs without a clock (`MaxTime = 0`; `state.go:14-20`).
- The id and the hash of a delivery are two saves. A crash between them leaves
  the hash unrecorded for ever and the echo is mirrored. `EchoNotMirrored` runs
  without crashes and failed saves (`FaultKinds`; `bridge.go:327-332`).
- A delivery whose answer is lost does not count against the limit of its pass:
  `DeliveriesBounded` runs without lost answers (`bridge.go:323-326`, `:45`).
- A text that is cut inside a gap which begins in its first 200 runes comes back
  without the gap, with another hash, and is taken for somebody's comment; with
  a `max_content_runes` of 200 or less that is every cut in a gap.
  `EchoRecognised` is about the texts that read on (`ReadsOn`; `bridge.go:322`,
  `:351`).
- A configured mapping is not checked for the kind of its note, as Bind's is,
  so messages can be sent to a commit, where Graft drops them.
  `RepliesOnlyToReplyable` runs without configured mappings
  (`Explicit`; `bridge.go:241`, `README.md:42-43`).
- A Bind between a pass's look at a configured conversation and its write is
  acknowledged and overwritten. `AckedHolds` runs without configured mappings
  too (`bridge.go:241-245`).

## 8. Abstractions and what is left out

- A text stands for what is hashed: content with its sender label. Messages do
  not change after they are posted. The bot's own address is configured.
- A conversation, a note, a URL are model values; what their spelling could
  spoil is in Names and Titles.
- The outbox window applies to the notes that are bound (`Listed`); comments
  stay visible. Graft republishes a text unchanged, or with its marker; a text
  it alters in another way is not recognised as an echo.
- One process per state file, except in StateFile. Nothing in the code enforces
  it: two would overwrite each other's maps (Store lets them), and a first start
  of both would make two key pairs.
- In Bridge the file changes in one step, which StateFile justifies. What a file
  system keeps after a power failure without a sync is outside the model.
- At most `PassTimeout` ticks go by during a pass.
- A stream id is one character of its own in Names: digits never meet the
  separators. A client escapes a topic as one path segment.
- `ActorKeys` is in Daemon only; passes there do nothing but save.
- In Delivery a GET of the actor document has no effect anywhere, so a hop of it
  is one step. The fetch of an outbox is the same GET; Pass has its two outcomes.
  The text of the Signature header is a record of what it covers; keys are right.
- The limit on the size of an answer is modelled where it stops every pass (the
  window of messages); an outbox beyond it is Pass's outbox that cannot be
  fetched. A full window is full of messages of two sizes (`Long`).
- A base URL in Config is a scheme, a host and a slash or none. A path in
  `public_base_url`, which its comment calls an origin, is not modelled, nor is
  a name that is no path segment.
- Left out: read-only admin requests and JSON; the rendering of texts apart from
  what an echo is recognised by; the fields of the actor document that nobody
  here reads; logging.

## 9. Plan

Done: State, Remotes, Pass, Admin, Bridge, the ledgers, Store and StateFile,
Names, Titles, Config, Daemon, Delivery; the proofs of section 6. The order was
by importance: records and feedback first, then bindings and races, then the
process, the file and the wire.

Left, in this order:

1. **Bindings.** What an operator is promised, with one atomic bind, implemented
   by the two-step Bind while one request runs. `MirroredWhereBound` with
   operators who unbind but do not rebind.
2. **How stale a target may be.** A reply goes to a note the conversation was
   bound to at some time during the pass, also when an operator moves it.
3. **Delivery under Pass.** That the outcomes Pass gives a reply are those of
   Delivery, as a refinement.
