------------------------------- MODULE Names -------------------------------
(***************************************************************************)
(* The names of a conversation: its key in the state file                  *)
(* (state.ConversationKey), the path an operator names it by in            *)
(* DELETE /admin/mappings/<stream_id>/<topic> (admin.handleMapping), and   *)
(* the trackback link of a message (bridge.messageURL).                    *)
(*                                                                         *)
(* Text is a sequence of characters.  A stream id is one character of its  *)
(* own: its digits never meet the separators.  The one variable is a topic *)
(* as a user types it (in module Titles also a message); every name is a   *)
(* function of it.                                                         *)
(***************************************************************************)
EXTENDS Naturals, Sequences, SequencesExt

CONSTANTS Char,      \* the characters a topic is made of
          Stream,    \* stream ids
          MaxLength  \* bound: the longest topic

ASSUME NamesAssumption ==
  /\ "/" \in Char /\ Stream \cap Char = {}
  /\ MaxLength \in Nat

VARIABLE topic

NameInit == topic = << >>

Type(c)  == Len(topic) < MaxLength /\ topic' = Append(topic, c)
Clear    == topic # << >> /\ topic' = << >>
NameStep == Clear \/ \E c \in Char : Type(c)
NameSpec == NameInit /\ [][NameStep]_topic

(* The part of s before the first c, and the part after it (strings.Cut).  *)
FirstAt(s, c) == Min({i \in DOMAIN s : s[i] = c})
Before(s, c)  == SubSeq(s, 1, FirstAt(s, c) - 1)
After(s, c)   == SubSeq(s, FirstAt(s, c) + 1, Len(s))

(***************************************************************************)
(* Conversation keys.                                                      *)
(***************************************************************************)
ConversationKey(stream, t) == <<stream, "/">> \o t

NotParsed == [ok |-> FALSE]

(* A stream id and a topic, unless the text before the separator is no     *)
(* stream id.                                                              *)
Conversation(id, t) ==
  IF \E s \in Stream : id = <<s>>
    THEN [ok |-> TRUE, stream |-> Head(id), topic |-> t]
    ELSE NotParsed

(* Mutation: the topic begins after the last slash. *)
ParseAtLast(key) ==
  LET cut == Max({i \in DOMAIN key : key[i] = "/"})
  IN  Conversation(SubSeq(key, 1, cut - 1), SubSeq(key, cut + 1, Len(key)))

ParseConversationKey(key) ==
  IF Contains(key, "/")
    THEN Conversation(Before(key, "/"), After(key, "/"))
    ELSE NotParsed

(***************************************************************************)
(* Unbinding.  The client escapes the topic as one path segment, and       *)
(* net/http hands the handler the path unescaped; a segment "." or ".." is *)
(* redirected to the cleaned path instead.                                 *)
(***************************************************************************)
Redirected(t) == t \in {<<".">>, <<".", ".">>}

(* strings.Trim(s, "/") *)
TrimSlashes(s) ==
  LET kept == {i \in DOMAIN s : s[i] # "/"}
  IN  IF kept = {} THEN << >> ELSE SubSeq(s, Min(kept), Max(kept))

(* Mutation: slashes are trimmed from the topic on both sides. *)
UnboundTrimmed(remainder) ==
  LET raw == TrimSlashes(remainder)
  IN  IF Contains(raw, "/") /\ TrimSlashes(After(raw, "/")) # << >>
        THEN Conversation(Before(raw, "/"), TrimSlashes(After(raw, "/")))
        ELSE NotParsed

(* The conversation that the DELETE of a path's remainder unbinds. *)
Unbound(remainder) ==
  LET raw == TrimSlashes(remainder)
  IN  IF Contains(raw, "/") /\ After(raw, "/") # << >>
        THEN Conversation(Before(raw, "/"), After(raw, "/"))
        ELSE NotParsed

DeleteMapping(stream, t) ==
  IF Redirected(t) THEN NotParsed ELSE Unbound(<<stream, "/">> \o t)

(***************************************************************************)
(* Trackback links.                                                        *)
(***************************************************************************)
(* The characters that are not letters or digits, and their codes. *)
Code == [c \in {"/", "%", ".", "(", ":"} |->
           CASE c = "/" -> <<"2", "F">> [] c = "%" -> <<"2", "5">> [] c = "." -> <<"2", "E">>
             [] c = "(" -> <<"2", "8">> [] c = ":" -> <<"3", "A">>]

PathUnescaped == {".", ":"}    \* what url.PathEscape leaves alone

(* s with each character replaced by what f gives for it, if anything, in  *)
(* one pass (strings.Replacer).                                            *)
Replace(s, f) ==
  FlattenSeq([i \in DOMAIN s |-> IF s[i] \in DOMAIN f THEN f[s[i]] ELSE <<s[i]>>])

Escapes(S) == [c \in S |-> <<"%">> \o Code[c]]

PathEscapes  == Escapes(DOMAIN Code \ PathUnescaped)
ColonEscape  == Escapes({":"})
HashReplacer == [c \in {"%", ".", "("} |-> IF c = "%" THEN <<".">> ELSE <<".">> \o Code[c]]

PathEscape(s) == Replace(s, PathEscapes)

(* Mutation: "%" is replaced in a pass of its own, before the others. *)
EncodeInPasses(s) ==
  Replace(Replace(PathEscape(s), [c \in {"%"} |-> <<".">>]),
          [c \in {"."} |-> <<".">> \o Code[c]])

encodeHashComponent(s) == Replace(Replace(PathEscape(s), ColonEscape), HashReplacer)

messageURL(stream, t) ==
  <<"narrow", "/", "stream", "/", stream, "/", "topic", "/">>
    \o encodeHashComponent(t) \o <<"/", "near", "/", "id">>

(* The web client takes the fragment apart at its slashes and reads each   *)
(* "." with the two characters after it as an escaped character.           *)
Segment(s, n) ==
  LET slashes == {i \in DOMAIN s : s[i] = "/"}
      cut == CHOOSE i \in slashes : Cardinality({j \in slashes : j < i}) = n - 2
      end == Min({i \in slashes : i > cut})
  IN  SubSeq(s, cut + 1, end - 1)

(* A code that no character has leaves the link unreadable. *)
Decoded(code) ==
  IF \E c \in DOMAIN Code : Code[c] = code
    THEN CHOOSE c \in DOMAIN Code : Code[c] = code
    ELSE "unreadable"

Decode(s) ==
  LET from[i \in 1..(Len(s) + 3)] ==
        IF i > Len(s) THEN << >>
        ELSE IF s[i] \in {".", "%"} THEN <<Decoded(SubSeq(s, i + 1, i + 2))>> \o from[i + 3]
        ELSE <<s[i]>> \o from[i + 1]
  IN  from[1]

(***************************************************************************)
(* Properties.                                                             *)
(***************************************************************************)
(* A topic is made of characters. *)
TypeOK == topic \in Seq(Char)

(* A conversation is found again from its key, whatever separators its     *)
(* topic has: mirrored comments go to the conversation that was bound      *)
(* (ParseConversationKey is ConversationKey's inverse).                    *)
KeyRoundTrip ==
  \A s \in Stream :
    ParseConversationKey(ConversationKey(s, topic))
      = [ok |-> TRUE, stream |-> s, topic |-> topic]

(* A request to unbind a conversation unbinds that one, whatever slashes   *)
(* its topic begins with or has inside, unless the topic ends in a slash.  *)
UnbindsInnerSlashes ==
  topic # << >> /\ ~Redirected(topic) /\ Last(topic) # "/" =>
    \A s \in Stream :
      DeleteMapping(s, topic) = [ok |-> TRUE, stream |-> s, topic |-> topic]

(* The trackback link of a message opens its topic: no character of the    *)
(* topic is taken for a separator or for part of an escape.                *)
TrackbackOpensTopic ==
  \A s \in Stream : Decode(Segment(messageURL(s, topic), 5)) = topic

=============================================================================
