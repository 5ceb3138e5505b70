------------------------------- MODULE Titles -------------------------------
(***************************************************************************)
(* Title matching: how the bridge reads the notes of a Graft outbox        *)
(* (graft.ParseNotes) and finds the issue a topic is named after           *)
(* (graft.MatchIssueByTitle).                                              *)
(*                                                                         *)
(* Text is a sequence of characters; the word that says what kind of event *)
(* a note is about ("Issue", "comment") is one character of its own.       *)
(* Graft adds notes to the outbox while a user names a topic (Names).      *)
(***************************************************************************)
EXTENDS Names

CONSTANTS Title,      \* titles of issues, patches and commits
          KindWord,   \* the words Graft begins a note with
          MaxContent, \* max_content_runes
          HashLength, \* the runes of a text that its hash is of (200)
          MaxNotes    \* bound: notes in the outbox

ASSUME TitlesAssumption ==
  /\ Title \subseteq Seq(Char)
  /\ MaxContent \in Nat \ {0} /\ HashLength \in Nat \ {0}

VARIABLE outbox       \* the notes, as Graft serves them

vars == <<outbox, topic>>

(* Notes of the configured host, and notes of another one, which           *)
(* ap.ParseNoteURI does not recognise.                                     *)
Origin == {"graft", "foreign"}

Blank       == " "
Space       == {Blank}
Punctuation == {"-", ":", "/", ".", "%", "("}
Lower       == [c \in {"A", "Issue", "Patch", "Commit"} |->
                  CASE c = "A" -> "a" [] c = "Issue" -> "issue" [] c = "Patch" -> "patch"
                    [] c = "Commit" -> "commit"]

lower(c)   == IF c \in DOMAIN Lower THEN Lower[c] ELSE c
ToLower(s) == [i \in DOMAIN s |-> lower(s[i])]

TrimSpace(s) ==
  LET kept == {i \in DOMAIN s : s[i] \notin Space}
  IN  IF kept = {} THEN << >> ELSE SubSeq(s, Min(kept), Max(kept))

(* The places where a ": " begins in s. *)
Colons(s) == {i \in 1..(Len(s) - 1) : s[i] = ":" /\ s[i + 1] = Blank}

(***************************************************************************)
(* Reading notes.                                                          *)
(***************************************************************************)
Kind(prefix) ==
  IF TrimSpace(prefix) = <<"Commit">> THEN <<"git">> ELSE ToLower(TrimSpace(prefix))

CutAt(content, i) ==
  [kind    |-> Kind(SubSeq(content, 1, i - 1)),
   summary |-> TrimSpace(SubSeq(content, i + 2, Len(content)))]

Uncut(content) == [kind |-> ToLower(TrimSpace(content)), summary |-> << >>]

(* Mutation: the kind ends at the last colon. *)
SplitAtLast(content) ==
  IF Colons(content) = {} THEN Uncut(content) ELSE CutAt(content, Max(Colons(content)))

splitKind(content) ==
  IF Colons(content) = {} THEN Uncut(content) ELSE CutAt(content, Min(Colons(content)))

NoteInfo(note) ==
  LET text == splitKind(note.content)
  IN  [uri |-> note.uri, kind |-> text.kind, summary |-> text.summary]

ParseNotes(notes) ==
  FlattenSeq([i \in DOMAIN notes |->
                IF notes[i].uri[1] = "graft" THEN <<NoteInfo(notes[i])>> ELSE << >>])

(***************************************************************************)
(* Matching titles.  One pass over the characters: a space is written only *)
(* after something that is no space, and punctuation is not even noticed.  *)
(***************************************************************************)
(* Mutation: punctuation separates words. *)
NormalizeWide(s) ==
  LET put(text, c) == IF c \in Space \cup Punctuation
                        THEN IF text = << >> \/ Last(text) = Blank THEN text
                             ELSE Append(text, Blank)
                        ELSE Append(text, c)
  IN  TrimSpace(FoldLeft(put, << >>, ToLower(s)))

Written(text, c) ==
  CASE c \in Punctuation -> text
    [] c \in Space -> IF text = << >> \/ Last(text) = Blank THEN text
                      ELSE Append(text, Blank)
    [] OTHER -> Append(text, c)

NormalizeTitle(s) == TrimSpace(FoldLeft(Written, << >>, ToLower(s)))

NoMatch == [uri |-> << >>]

MatchIssueByTitle(notes, title) ==
  LET named == {i \in DOMAIN notes :
                  /\ notes[i].kind = <<"issue">>
                  /\ NormalizeTitle(notes[i].summary) = NormalizeTitle(title)}
  IN  IF named = {} THEN NoMatch ELSE notes[Min(named)]

(***************************************************************************)
(* Recognising our own text.  It is recorded, when Graft has taken it, by  *)
(* the hash of its beginning, which stands for that beginning.             *)
(***************************************************************************)
truncateRunes(s, n) == SubSeq(s, 1, IF Len(s) < n THEN Len(s) ELSE n)

hashContent(s) == truncateRunes(s, HashLength)

(* "**via Zulip, @sender:**", a blank line and the message.                *)
Content(message) == truncateRunes(<<"via", ":", "*", Blank>> \o message, MaxContent)

(* Graft lists the comment that a reply became, with the text it was sent. *)
Republished(content) == <<"comment", ":", Blank>> \o content

(***************************************************************************)
(* The outbox and the topic.                                               *)
(***************************************************************************)
Init == outbox = << >> /\ NameInit

(* Graft mirrors an event: the note says its kind, a colon and its title.  *)
Publish(origin, word, title) ==
  /\ Len(outbox) < MaxNotes
  /\ outbox' = Append(outbox, [uri     |-> <<origin, Len(outbox)>>,
                               content |-> <<word, ":", Blank>> \o title])
  /\ UNCHANGED topic

(* The outbox shows recent events only. *)
Forget == outbox # << >> /\ outbox' = << >> /\ UNCHANGED topic

Next == \/ Forget
        \/ NameStep /\ UNCHANGED outbox
        \/ \E o \in Origin, w \in KindWord, t \in Title : Publish(o, w, t)

Spec == Init /\ [][Next]_vars

(***************************************************************************)
(* Properties.                                                             *)
(***************************************************************************)
(* What two titles have in common when the bridge takes them for the same: *)
(* the words left when punctuation is dropped, in lower case.              *)
Kept(s) == Replace(ToLower(s), [c \in Punctuation |-> << >>])

(* Where words begin, and the word that begins at a place. *)
Starts(text) ==
  {i \in DOMAIN text : text[i] \notin Space /\ (i = 1 \/ text[i - 1] \in Space)}

WordAt(text, i) ==
  LET ends == {j \in i..Len(text) : text[j] \in Space}
  IN  SubSeq(text, i, IF ends = {} THEN Len(text) ELSE Min(ends) - 1)

(* The numbers of a set in their order. *)
Ascending(S) ==
  CHOOSE f \in [1..Cardinality(S) -> S] : \A i, j \in DOMAIN f : i < j => f[i] < f[j]

WordsOf(text) ==
  LET order == Ascending(Starts(text)) IN [k \in DOMAIN order |-> WordAt(text, order[k])]

Words(s) == WordsOf(Kept(s))

(* A topic's normal form determines its words and its words determine the  *)
(* normal form: case, punctuation and the width of a gap make no           *)
(* difference, and nothing else is lost (NormalizeTitle).                  *)
NormalizeIsWords ==
  \A t \in Title : NormalizeTitle(topic) = NormalizeTitle(t) <=> Words(topic) = Words(t)

(* The issue found for a topic is the first issue that Graft itself has    *)
(* published under the same words, and one is found if there is one, also  *)
(* when a title has a colon of its own (MatchIssueByTitle over             *)
(* ParseNotes).                                                            *)
MatchesSameWords ==
  LET issues == {i \in DOMAIN outbox :
                   /\ outbox[i].uri[1] = "graft"
                   /\ Head(outbox[i].content) \in {"Issue", "issue"}
                   /\ Words(SubSeq(outbox[i].content, 4, Len(outbox[i].content)))
                        = Words(topic)}
  IN  MatchIssueByTitle(ParseNotes(outbox), topic).uri
        = IF issues = {} THEN << >> ELSE outbox[Min(issues)].uri

(* The text has something to read where its hash ends or after that, or at *)
(* its end.                                                                *)
ReadsOn(text) ==
  \E i \in DOMAIN text : text[i] \notin Space /\ (i >= HashLength \/ i = Len(text))

(* A message that was sent to Graft is recognised when Graft lists it,     *)
(* though it was cut before it was sent, the kind and the spaces around it *)
(* are taken off when it comes back, and it may have separators of its own *)
(* (forwardZulipToGraft, reverseGraftToZulip).  Zulip strips the spaces    *)
(* around a message, so only a text that is cut inside a gap which begins  *)
(* in the hashed part does not read on.                                    *)
EchoRecognised ==
  ReadsOn(Content(topic)) =>
    hashContent(splitKind(Republished(Content(topic))).summary)
      = hashContent(Content(topic))
=============================================================================
