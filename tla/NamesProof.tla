----------------------------- MODULE NamesProof -----------------------------
(***************************************************************************)
(* What names and texts keep on their way, for every set of characters and *)
(* every length: the key of a conversation is parsed back into it, the     *)
(* path of an unbind request names the conversation it was made from, and  *)
(* a text that was sent to Graft is known when it comes back.              *)
(*                                                                         *)
(* The first part is about where the first separator is, and the first and *)
(* the last character that is kept.  The second is about what folds and    *)
(* recursive functions compute from a text: such a value is known by       *)
(* induction, as a set of numbers or of texts that has everything          *)
(* (Counting, ByAppending), once it is known that there is a function with *)
(* the equations of the definition (RunExists, ReadingExists).             *)
(* FoldExists takes the fold over every set of places, as Folds has it.    *)
(***************************************************************************)
EXTENDS Titles, SequenceTheorems, WellFoundedInduction, FiniteSetTheorems, TLAPS

(* The key of a conversation has its first slash right after the stream    *)
(* id, whatever slashes the topic has.                                     *)
LEMMA FirstSlash ==
  ASSUME NEW s \in Stream, NEW t \in Seq(Char)
  PROVE  LET key == ConversationKey(s, t)
         IN  /\ key \in Seq(Stream \cup Char)
             /\ Contains(key, "/")
             /\ FirstAt(key, "/") = 2
PROOF
  <1> DEFINE key  == ConversationKey(s, t)
             cuts == {i \in DOMAIN key : key[i] = "/"}
  <1>1. key \in Seq(Stream \cup Char) /\ Len(key) = 2 + Len(t)
    BY NamesAssumption DEF ConversationKey
  <1>2. key[1] = s /\ key[2] = "/"
    BY DEF ConversationKey
  <1>3. s # "/"
    BY NamesAssumption
  <1>4. 2 \in cuts /\ \A i \in cuts : i >= 2
    BY <1>1, <1>2, <1>3
  <1>5. Min(cuts) = 2
    BY <1>4 DEF Min
  <1>6. FirstAt(key, "/") = 2
    BY <1>5 DEF FirstAt
  <1>7. Contains(key, "/")
    BY <1>1, <1>2 DEF Contains
  <1> QED
    BY <1>1, <1>6, <1>7

(* Two sequences with the same length and elements are the same. *)
LEMMA SameText ==
  ASSUME NEW S, NEW T, NEW s \in Seq(S), NEW t \in Seq(T), Len(s) = Len(t),
         \A i \in 1..Len(t) : s[i] = t[i]
  PROVE  s = t
PROOF
  BY SeqEqual

(* A text that begins with one text and goes on with another one. *)
LEMMA Joined ==
  ASSUME NEW S, NEW a \in Seq(S), NEW b \in Seq(S)
  PROVE  /\ a \o b \in Seq(S) /\ Len(a) \in Nat /\ Len(b) \in Nat
         /\ Len(a \o b) = Len(a) + Len(b)
         /\ \A i \in 1..Len(a) : (a \o b)[i] = a[i]
         /\ \A i \in 1..Len(b) : (a \o b)[Len(a) + i] = b[i]
PROOF
  OBVIOUS

(* The end of a text. *)
LEMMA EndOf ==
  ASSUME NEW S, NEW s \in Seq(S), NEW m \in 1..(Len(s) + 1)
  PROVE  /\ SubSeq(s, m, Len(s)) \in Seq(S)
         /\ Len(SubSeq(s, m, Len(s))) = Len(s) - m + 1
         /\ \A i \in 1..(Len(s) - m + 1) : SubSeq(s, m, Len(s))[i] = s[m + i - 1]
PROOF
  OBVIOUS

(* Cut at its first slash, the key of a conversation falls back into the   *)
(* stream id and the topic.                                                *)
LEMMA CutBack ==
  ASSUME NEW s \in Stream, NEW t \in Seq(Char)
  PROVE  /\ Before(ConversationKey(s, t), "/") = <<s>>
         /\ After(ConversationKey(s, t), "/") = t
PROOF
  <1> DEFINE key == ConversationKey(s, t)
  <1>1. key \in Seq(Stream \cup Char)
    BY FirstSlash
  <1>2. FirstAt(key, "/") = 2
    BY FirstSlash
  <1>3. Before(key, "/") = <<s>>
    <2>1. Before(key, "/") = SubSeq(key, 1, 1)
      BY <1>2 DEF Before
    <2> QED
      BY <2>1, <1>1 DEF ConversationKey
  <1>4. After(key, "/") = t
    <2>1. After(key, "/") = SubSeq(key, 3, Len(key))
      BY <1>2 DEF After
    <2>2. Len(key) = 2 + Len(t) /\ \A i \in 1..Len(t) : key[2 + i] = t[i]
      BY DEF ConversationKey
    <2>3. SubSeq(key, 3, Len(key)) \in Seq(Stream \cup Char)
      BY <1>1, <2>2
    <2>4. Len(SubSeq(key, 3, Len(key))) = Len(t)
      BY <1>1, <2>2
    <2>5. \A i \in 1..Len(t) : SubSeq(key, 3, Len(key))[i] = t[i]
      BY <1>1, <2>2, <2>4
    <2> QED
      BY <2>1, <2>3, <2>4, <2>5, SameText
  <1> QED
    BY <1>3, <1>4

(* The inverse of ConversationKey is ParseConversationKey. *)
LEMMA ParsedBack ==
  ASSUME NEW s \in Stream, NEW t \in Seq(Char)
  PROVE  ParseConversationKey(ConversationKey(s, t))
           = [ok |-> TRUE, stream |-> s, topic |-> t]
PROOF
  <1> DEFINE key == ConversationKey(s, t)
  <1>1. Contains(key, "/") /\ Before(key, "/") = <<s>> /\ After(key, "/") = t
    BY FirstSlash, CutBack
  <1>2. Conversation(<<s>>, t) = [ok |-> TRUE, stream |-> s, topic |-> t]
    BY DEF Conversation
  <1>3. ParseConversationKey(key) = Conversation(Before(key, "/"), After(key, "/"))
    BY <1>1 DEF ParseConversationKey
  <1> QED
    BY <1>1, <1>2, <1>3

-----------------------------------------------------------------------------
(* The first and the last of some places.                                  *)
Precedes == {p \in Nat \X Nat : p[1] < p[2]}

(* A set of numbers has a least one. *)
LEMMA Least ==
  ASSUME NEW S, S \subseteq Nat, S # {}
  PROVE  \E m \in S : \A k \in S : m <= k
PROOF
  <1>1. IsWellFoundedOn(Precedes, Nat)
    BY NatLessThanWellFounded, Zenon DEF OpToRel, Precedes
  <1>2. PICK m \in S : \A k \in S : ~(<<k, m>> \in Precedes)
    BY <1>1, WFMin
  <1>3. \A k \in S : k \in Nat /\ ~(k < m)
    BY <1>2 DEF Precedes
  <1> QED
    BY <1>3

(* Of some places in a text one is the last. *)
LEMMA Greatest ==
  ASSUME NEW n \in Nat, NEW S, S \subseteq 1..n, S # {}
  PROVE  Max(S) \in S /\ \A k \in S : k <= Max(S)
PROOF
  <1> DEFINE T == {n - k : k \in S}
  <1>1. T \subseteq Nat /\ T # {}
    <2>1. T \subseteq Nat
      OBVIOUS
    <2>2. T # {}
      OBVIOUS
    <2> QED
      BY <2>1, <2>2
  <1>2. PICK m \in T : \A k \in T : m <= k
    <2> HIDE DEF T
    <2> QED
      BY <1>1, Least
  <1>3. PICK x \in S : m = n - x
    OBVIOUS
  <1>4. \A k \in S : n - x <= n - k
    BY <1>2, <1>3
  <1>5. \A k \in S : x >= k
    BY <1>4
  <1> QED
    BY <1>5 DEF Max

(* A text whose first and last characters are kept is kept whole. *)
LEMMA KeptWhole ==
  ASSUME NEW S, NEW s \in Seq(S), NEW kept, kept \subseteq DOMAIN s,
         1 \in kept, Len(s) \in kept
  PROVE  SubSeq(s, Min(kept), Max(kept)) = s
PROOF
  <1>1. Min(kept) = 1 /\ Max(kept) = Len(s)
    BY DEF Min, Max
  <1> QED
    BY <1>1, SubSeqFull

-----------------------------------------------------------------------------
(* A request to unbind a conversation names that one, slashes inside the   *)
(* topic included, when the topic does not end in one (admin.go:128-143).  *)
LEMMA UnboundIsBound ==
  ASSUME NEW s \in Stream, NEW t \in Seq(Char), t # << >>, Last(t) # "/"
  PROVE  Unbound(<<s, "/">> \o t) = [ok |-> TRUE, stream |-> s, topic |-> t]
PROOF
  <1> DEFINE key  == ConversationKey(s, t)
             kept == {i \in DOMAIN key : key[i] # "/"}
  <1>1. key \in Seq(Stream \cup Char) /\ Contains(key, "/")
    BY FirstSlash
  <1>2. Len(key) = 2 + Len(t) /\ key[1] = s /\ \A i \in 1..Len(t) : key[2 + i] = t[i]
    BY DEF ConversationKey
  <1>3. Len(t) \in 1..Len(t) /\ Len(t) \in Nat
    OBVIOUS
  <1>4. key[Len(key)] = Last(t)
    BY <1>2, <1>3 DEF Last
  <1>5. 1 \in kept /\ Len(key) \in kept
    BY <1>1, <1>2, <1>3, <1>4, NamesAssumption
  <1>6. TrimSlashes(key) = key
    <2> HIDE DEF key
    <2>1. SubSeq(key, Min(kept), Max(kept)) = key
      <3>1. kept \subseteq DOMAIN key
        OBVIOUS
      <3> HIDE DEF kept
      <3> QED
        BY <1>1, <1>5, <3>1, KeptWhole
    <2> QED
      BY <1>5, <2>1 DEF TrimSlashes
  <1>7. Before(key, "/") = <<s>> /\ After(key, "/") = t
    BY CutBack
  <1>8. Conversation(<<s>>, t) = [ok |-> TRUE, stream |-> s, topic |-> t]
    BY DEF Conversation
  <1>9. Unbound(key) = Conversation(Before(key, "/"), After(key, "/"))
    <2> HIDE DEF key
    <2> QED
      BY <1>1, <1>6, <1>7 DEF Unbound
  <1> QED
    BY <1>7, <1>8, <1>9 DEF ConversationKey

-----------------------------------------------------------------------------
(* What was sent is known when it comes back.                              *)

(* Everything a text is made of. *)
Rune == Char \cup {"via", "comment", ":", "*", Blank}

(* What is left of a note's kind and separator is the text it was sent as, *)
(* without the spaces around it (note.go:60-77).                           *)
LEMMA ComesBackTrimmed ==
  ASSUME NEW t \in Seq(Rune)
  PROVE  splitKind(Republished(t)).summary = TrimSpace(t)
PROOF
  <1> DEFINE kind == <<"comment", ":", Blank>>
             note == Republished(t)
  <1>0. Len(t) \in Nat
    OBVIOUS
  <1>1. /\ note \in Seq(Rune) /\ Len(note) = 3 + Len(t)
        /\ note[1] = "comment" /\ note[2] = ":" /\ note[3] = Blank
        /\ \A i \in 1..Len(t) : note[3 + i] = t[i]
    <2>1. note = kind \o t
      BY DEF Republished
    <2>2. kind \in Seq(Rune)
      BY DEF Rune
    <2>3. Len(kind) = 3 /\ kind[1] = "comment" /\ kind[2] = ":" /\ kind[3] = Blank
      OBVIOUS
    <2> HIDE DEF kind, note
    <2>4. /\ kind \o t \in Seq(Rune)
          /\ Len(kind \o t) = Len(kind) + Len(t)
          /\ \A i \in 1..Len(kind) : (kind \o t)[i] = kind[i]
          /\ \A i \in 1..Len(t) : (kind \o t)[Len(kind) + i] = t[i]
      BY <2>2, Joined
    <2> QED
      BY <1>0, <2>1, <2>3, <2>4
  <1> HIDE DEF note, kind
  <1>2. 2 \in Colons(note) /\ \A i \in Colons(note) : i \in Nat /\ i >= 2
    <2>1. Colons(note) = {i \in 1..(2 + Len(t)) : note[i] = ":" /\ note[i + 1] = Blank}
      <3>1. Len(note) - 1 = 2 + Len(t)
        BY <1>0, <1>1
      <3> QED
        BY <3>1, Zenon DEF Colons
    <2>2. ":" # "comment"
      OBVIOUS
    <2>3. note[2] = ":" /\ note[2 + 1] = Blank /\ 2 \in 1..(2 + Len(t))
      BY <1>0, <1>1
    <2>4. note[1] # ":"
      BY <1>1, <2>2, Zenon
    <2>5. ASSUME NEW i \in Colons(note)
          PROVE  i \in Nat /\ i >= 2
      <3>1. i \in 1..(2 + Len(t)) /\ note[i] = ":"
        BY <2>1, Zenon
      <3>2. i # 1
        BY <2>4, <3>1, Zenon
      <3> QED
        BY <1>0, <3>1, <3>2
    <2> QED
      BY <2>1, <2>3, <2>5, Zenon
  <1>3. Min(Colons(note)) = 2
    <2> DEFINE places == Colons(note)
    <2>1. 2 \in places /\ \A i \in places : i \in Nat /\ i >= 2
      BY <1>2
    <2> HIDE DEF places
    <2>2. Min(places) = 2
      BY <2>1 DEF Min
    <2> QED
      BY <2>2 DEF places
  <1>4. SubSeq(note, 4, Len(note)) = t
    <2>1. Len(note) \in Nat /\ Len(note) >= 3
      BY <1>0, <1>1
    <2>2. /\ SubSeq(note, 4, Len(note)) \in Seq(Rune)
          /\ Len(SubSeq(note, 4, Len(note))) = Len(t)
          /\ \A i \in 1..Len(t) : SubSeq(note, 4, Len(note))[i] = note[4 + i - 1]
      BY <1>0, <1>1, <2>1, EndOf
    <2>3. \A i \in 1..Len(t) : SubSeq(note, 4, Len(note))[i] = t[i]
      <3>1. \A i \in 1..Len(t) : 4 + i - 1 = 3 + i
        BY <1>0
      <3> QED
        BY <1>1, <2>2, <3>1
    <2> QED
      BY <2>2, <2>3, SameText
  <1>5. splitKind(note) = CutAt(note, 2)
    BY <1>2, <1>3 DEF splitKind
  <1>6. CutAt(note, 2).summary = TrimSpace(SubSeq(note, 4, Len(note)))
    BY DEF CutAt
  <1> QED
    BY <1>4, <1>5, <1>6 DEF note

(* A text that begins with something to read loses its end alone. *)
LEMMA TrimmedAtTheEnd ==
  ASSUME NEW t \in Seq(Rune), t # << >>, t[1] \notin Space,
         NEW i \in DOMAIN t, t[i] \notin Space
  PROVE  \E m \in DOMAIN t : m >= i /\ TrimSpace(t) = SubSeq(t, 1, m)
PROOF
  <1> DEFINE kept == {k \in DOMAIN t : t[k] \notin Space}
  <1>1. kept \subseteq 1..Len(t) /\ 1 \in kept /\ i \in kept /\ Len(t) \in Nat
    OBVIOUS
  <1>2. TrimSpace(t) = SubSeq(t, Min(kept), Max(kept))
    BY <1>1 DEF TrimSpace
  <1> HIDE DEF kept
  <1>3. Min(kept) = 1
    BY <1>1 DEF Min
  <1>4. Max(kept) \in kept /\ i <= Max(kept)
    BY <1>1, Greatest
  <1> QED
    BY <1>1, <1>2, <1>3, <1>4

(* The beginning of a beginning is a beginning. *)
LEMMA BeginningOfBeginning ==
  ASSUME NEW t \in Seq(Rune), NEW m \in 1..Len(t), NEW k \in 1..m
  PROVE  SubSeq(SubSeq(t, 1, m), 1, k) = SubSeq(t, 1, k)
PROOF
  BY SubSeqOfSubSeq

(* A text that begins with something to read and reads on past its hash,   *)
(* or to its end, has the same hash when it comes back (bridge.go:322-332, *)
(* 351).                                                                   *)
LEMMA HashComesBack ==
  ASSUME NEW t \in Seq(Rune), t # << >>, t[1] \notin Space, ReadsOn(t)
  PROVE  hashContent(TrimSpace(t)) = hashContent(t)
PROOF
  <1>0. HashLength \in Nat /\ HashLength >= 1 /\ Len(t) \in Nat /\ Len(t) >= 1
    BY TitlesAssumption
  <1>1. PICK i \in DOMAIN t : t[i] \notin Space /\ (i >= HashLength \/ i = Len(t))
    BY DEF ReadsOn
  <1>2. PICK m \in DOMAIN t : m >= i /\ TrimSpace(t) = SubSeq(t, 1, m)
    BY <1>1, TrimmedAtTheEnd
  <1>3. m \in 1..Len(t) /\ Len(SubSeq(t, 1, m)) = m
    BY <1>0
  <1>4. CASE m = Len(t)
    BY <1>2, <1>4, SubSeqFull
  <1>5. CASE m >= HashLength
    <2>1. hashContent(t) = SubSeq(t, 1, HashLength)
      BY <1>0, <1>3, <1>5 DEF hashContent, truncateRunes
    <2>2. hashContent(SubSeq(t, 1, m)) = SubSeq(SubSeq(t, 1, m), 1, HashLength)
      BY <1>0, <1>3, <1>5 DEF hashContent, truncateRunes
    <2>3. SubSeq(SubSeq(t, 1, m), 1, HashLength) = SubSeq(t, 1, HashLength)
      BY <1>0, <1>3, <1>5, BeginningOfBeginning
    <2> QED
      BY <1>2, <2>1, <2>2, <2>3
  <1> QED
    BY <1>0, <1>1, <1>2, <1>3, <1>4, <1>5

(* What is sent begins with the attribution, cut or not. *)
LEMMA SentText ==
  ASSUME NEW message \in Seq(Char)
  PROVE  /\ Content(message) \in Seq(Rune) /\ Content(message) # << >>
         /\ Content(message)[1] = "via"
PROOF
  <1> DEFINE by    == <<"via", ":", "*", Blank>>
             whole == by \o message
  <1>0. MaxContent \in Nat /\ MaxContent >= 1
    BY TitlesAssumption
  <1>1. /\ whole \in Seq(Rune) /\ Len(whole) \in Nat /\ Len(whole) >= 4
        /\ whole[1] = "via"
    <2>1. by \in Seq(Rune)
      BY DEF Rune
    <2>2. Len(by) = 4 /\ by[1] = "via"
      OBVIOUS
    <2>3. Char \subseteq Rune
      BY DEF Rune
    <2>4. message \in Seq(Rune)
      BY <2>3, SeqMonotonic
    <2> HIDE DEF by
    <2>5. /\ by \o message \in Seq(Rune) /\ Len(message) \in Nat
          /\ Len(by \o message) = Len(by) + Len(message)
          /\ \A i \in 1..Len(by) : (by \o message)[i] = by[i]
      BY <2>1, <2>4, Joined
    <2> QED
      BY <2>2, <2>5
  <1> HIDE DEF whole
  <1>2. PICK n \in 1..Len(whole) : truncateRunes(whole, MaxContent) = SubSeq(whole, 1, n)
    <2>1. (IF Len(whole) < MaxContent THEN Len(whole) ELSE MaxContent) \in 1..Len(whole)
      BY <1>0, <1>1
    <2> QED
      BY <2>1 DEF truncateRunes
  <1>3. /\ SubSeq(whole, 1, n) \in Seq(Rune) /\ SubSeq(whole, 1, n) # << >>
        /\ SubSeq(whole, 1, n)[1] = whole[1]
    BY <1>1, <1>2
  <1> QED
    BY <1>1, <1>2, <1>3 DEF Content, whole

-----------------------------------------------------------------------------
(* Induction, and what folds compute. *)

(* Induction over the numbers: a set that begins at zero and has the next  *)
(* number of each of its numbers has them all.                             *)
LEMMA Counting ==
  ASSUME NEW P, 0 \in P, \A k \in Nat : k \in P => k + 1 \in P
  PROVE  \A k \in Nat : k \in P
PROOF
  <1> DEFINE Out == {k \in Nat : k \notin P}
  <1> SUFFICES ASSUME Out # {} PROVE FALSE
    OBVIOUS
  <1>1. PICK m \in Out : \A k \in Out : m <= k
    <2>1. Out \subseteq Nat
      OBVIOUS
    <2> HIDE DEF Out
    <2> QED
      BY <2>1, Least
  <1>2. m # 0 /\ m - 1 \in Nat /\ m - 1 \notin Out
    BY <1>1
  <1>3. m - 1 \in P /\ (m - 1) + 1 = m
    BY <1>2
  <1> QED
    BY <1>1, <1>2, <1>3

(* The number of a set that none of them exceeds, and that exceeds none.   *)
LEMMA Extremes ==
  ASSUME NEW S, S \subseteq Nat, NEW m \in S
  PROVE  /\ (\A k \in S : k <= m) => Max(S) = m
         /\ (\A k \in S : m <= k) => Min(S) = m
PROOF
  <1>1. ASSUME \A k \in S : k <= m PROVE Max(S) = m
    <2>1. Max(S) \in S /\ Max(S) >= m /\ Max(S) \in Nat /\ m \in Nat
      BY <1>1 DEF Max
    <2> QED
      BY <1>1, <2>1
  <1>2. ASSUME \A k \in S : m <= k PROVE Min(S) = m
    <2>1. Min(S) \in S /\ Min(S) <= m /\ Min(S) \in Nat /\ m \in Nat
      BY <1>2 DEF Min
    <2> QED
      BY <1>2, <2>1
  <1> QED
    BY <1>1, <1>2

(* The places up to one.                                                   *)
LEMMA UpTo ==
  ASSUME NEW n \in Nat, NEW k \in 1..n
  PROVE  /\ 1..k \in SUBSET (1..n) /\ 1..k # {} /\ Max(1..k) = k
         /\ (1..k) \ {k} = 1..(k - 1)
PROOF
  <1>1. Max(1..k) = k
    <2>1. 1..k \subseteq Nat /\ k \in 1..k /\ \A i \in 1..k : i <= k
      OBVIOUS
    <2> QED
      BY <2>1, Extremes
  <1>2. (1..k) \ {k} = 1..(k - 1)
    OBVIOUS
  <1> QED
    BY <1>1, <1>2

(* The values of a fold from the left, on every set of places.             *)
Fold(iter, q0, step, s, n) ==
  \A u \in SUBSET (1..n) :
    iter[u] = IF u = {} THEN q0 ELSE step[<<iter[u \ {Max(u)}], s[Max(u)]>>]

HasFold(Q, q0, step, s, n) ==
  \E iter \in [SUBSET (1..n) -> Q] : Fold(iter, q0, step, s, n)

(* A fold from the left exists: the values it takes on every set of places *)
(* can be given, one place after the other.                                *)
LEMMA FoldExists ==
  ASSUME NEW Q, NEW X, NEW q0 \in Q, NEW step \in [Q \X X -> Q],
         NEW n \in Nat, NEW s, \A i \in 1..n : s[i] \in X
  PROVE  HasFold(Q, q0, step, s, n)
PROOF
  <1> DEFINE Has(k) == HasFold(Q, q0, step, s, k)
             Good   == {k \in Nat : k <= n => Has(k)}
  <1>1. Has(0)
    <2> DEFINE iter == [u \in SUBSET (1..0) |-> q0]
    <2>1. iter \in [SUBSET (1..0) -> Q]
      OBVIOUS
    <2>2. \A u \in SUBSET (1..0) : u = {}
      OBVIOUS
    <2>3. Fold(iter, q0, step, s, 0)
      BY <2>2 DEF Fold
    <2> QED
      BY <2>1, <2>3 DEF HasFold
  <1>2. ASSUME NEW k \in Nat, k + 1 <= n, Has(k) PROVE Has(k + 1)
    <2>1. PICK old \in [SUBSET (1..k) -> Q] : Fold(old, q0, step, s, k)
      BY <1>2 DEF HasFold
    <2> DEFINE iter == [u \in SUBSET (1..(k + 1)) |->
                          IF k + 1 \in u THEN step[<<old[u \ {k + 1}], s[k + 1]>>] ELSE old[u]]
    <2>2. \A u \in SUBSET (1..(k + 1)) : /\ u \ {k + 1} \in SUBSET (1..k)
                                         /\ k + 1 \notin u => u \in SUBSET (1..k)
                                         /\ k + 1 \in u => u # {} /\ Max(u) = k + 1
      <3>1. ASSUME NEW u \in SUBSET (1..(k + 1)), k + 1 \in u
            PROVE  Max(u) = k + 1
        <4>1. u \subseteq Nat /\ \A i \in u : i <= k + 1
          OBVIOUS
        <4> QED
          BY <3>1, <4>1, Extremes
      <3> QED
        BY <3>1
    <2>3. s[k + 1] \in X
      BY <1>2
    <2>4. iter \in [SUBSET (1..(k + 1)) -> Q]
      BY <2>2, <2>3
    <2>5. ASSUME NEW u \in SUBSET (1..(k + 1))
          PROVE  iter[u] = IF u = {} THEN q0
                           ELSE step[<<iter[u \ {Max(u)}], s[Max(u)]>>]
      <3>1. CASE k + 1 \in u
        <4>1. iter[u \ {k + 1}] = old[u \ {k + 1}]
          BY <2>2
        <4>2. iter[u] = step[<<old[u \ {k + 1}], s[k + 1]>>]
          BY <3>1
        <4> HIDE DEF iter
        <4> QED
          BY <2>2, <3>1, <4>1, <4>2
      <3>2. CASE k + 1 \notin u
        <4>1. iter[u] = old[u] /\ u \in SUBSET (1..k)
          BY <2>2, <3>2
        <4>2. old[u] = IF u = {} THEN q0 ELSE step[<<old[u \ {Max(u)}], s[Max(u)]>>]
          BY <2>1, <4>1 DEF Fold
        <4>3. CASE u = {}
          BY <4>1, <4>2, <4>3
        <4>4. CASE u # {}
          <5>1. iter[u \ {Max(u)}] = old[u \ {Max(u)}]
            BY <2>2, <3>2, <4>1
          <5> HIDE DEF iter
          <5> QED
            BY <4>1, <4>2, <4>4, <5>1
        <4> QED
          BY <4>3, <4>4
      <3> QED
        BY <3>1, <3>2
    <2> HIDE DEF iter
    <2> QED
      BY <2>4, <2>5 DEF Fold, HasFold
  <1>3. Has(n)
    <2> HIDE DEF Has
    <2>1. 0 \in Good /\ \A k \in Nat : k \in Good => k + 1 \in Good
      BY <1>1, <1>2
    <2> HIDE DEF Good
    <2>2. n \in Good
      BY <2>1, Counting
    <2> QED
      BY <2>2 DEF Good
  <1> QED
    BY <1>3

(* What a fold has after each place of a text, and in the end: step gives  *)
(* the next value from the last one and what is at the place.              *)
Machine(Q, X, q0, step) == q0 \in Q /\ step \in [Q \X X -> Q]

Run(r, q0, step, s) ==
  r[0] = q0 /\ \A i \in 1..Len(s) : r[i] = step[<<r[i - 1], s[i]>>]

Result(q0, step, s) == (CHOOSE r : Run(r, q0, step, s))[Len(s)]

(* A fold over a text has a run. *)
LEMMA RunExists ==
  ASSUME NEW Q, NEW X, NEW q0, NEW step, Machine(Q, X, q0, step), NEW s \in Seq(X)
  PROVE  \E r : Run(r, q0, step, s)
PROOF
  <1>0. Len(s) \in Nat /\ q0 \in Q /\ step \in [Q \X X -> Q]
    BY DEF Machine
  <1>1. PICK iter \in [SUBSET (1..Len(s)) -> Q] : Fold(iter, q0, step, s, Len(s))
    <2> DEFINE n == Len(s)
    <2>1. n \in Nat /\ \A i \in 1..n : s[i] \in X
      BY <1>0
    <2> HIDE DEF n
    <2>2. HasFold(Q, q0, step, s, n)
      BY <1>0, <2>1, FoldExists
    <2> QED
      BY <2>2 DEF n, HasFold
  <1> DEFINE r == [k \in 0..Len(s) |-> iter[1..k]]
  <1>2. r[0] = q0
    <2>1. 1..0 = {} /\ 0 \in 0..Len(s)
      BY <1>0
    <2>2. iter[{}] = q0
      BY <1>1 DEF Fold
    <2> QED
      BY <2>1, <2>2
  <1>3. ASSUME NEW i \in 1..Len(s) PROVE r[i] = step[<<r[i - 1], s[i]>>]
    <2>1. /\ 1..i \in SUBSET (1..Len(s)) /\ 1..i # {} /\ Max(1..i) = i
          /\ (1..i) \ {i} = 1..(i - 1)
      BY <1>0, UpTo
    <2>2. iter[1..i] = step[<<iter[1..(i - 1)], s[i]>>]
      BY <1>1, <2>1 DEF Fold
    <2>3. r[i] = iter[1..i] /\ r[i - 1] = iter[1..(i - 1)]
      BY <1>0
    <2> QED
      BY <2>2, <2>3
  <1> HIDE DEF r
  <1>4. Run(r, q0, step, s)
    BY <1>2, <1>3 DEF Run
  <1> QED
    BY <1>4

(* The values of a run are of their kind, and a run over another text with *)
(* the same beginning has the same ones there.                             *)
LEMMA RunsAgree ==
  ASSUME NEW Q, NEW X, NEW q0, NEW step, Machine(Q, X, q0, step),
         NEW s \in Seq(X), NEW t \in Seq(X), NEW r, NEW z,
         Run(r, q0, step, s), Run(z, q0, step, t),
         NEW n \in Nat, n <= Len(s), n <= Len(t), \A i \in 1..n : s[i] = t[i]
  PROVE  r[n] = z[n] /\ r[n] \in Q
PROOF
  <1> DEFINE P == {k \in Nat : k <= n => r[k] = z[k] /\ r[k] \in Q}
  <1>0. /\ Len(s) \in Nat /\ Len(t) \in Nat /\ q0 \in Q /\ step \in [Q \X X -> Q]
        /\ \A i \in 1..Len(s) : s[i] \in X
    BY DEF Machine
  <1>1. 0 \in P
    BY <1>0 DEF Run
  <1>2. ASSUME NEW k \in Nat, k \in P PROVE k + 1 \in P
    <2> SUFFICES ASSUME k + 1 <= n PROVE r[k + 1] = z[k + 1] /\ r[k + 1] \in Q
      OBVIOUS
    <2>1. r[k] = z[k] /\ r[k] \in Q
      BY <1>2
    <2>2. k + 1 \in 1..Len(s) /\ k + 1 \in 1..Len(t) /\ (k + 1) - 1 = k
      BY <1>0
    <2>3. r[k + 1] = step[<<r[k], s[k + 1]>>] /\ z[k + 1] = step[<<z[k], t[k + 1]>>]
      BY <2>2 DEF Run
    <2>4. s[k + 1] = t[k + 1] /\ s[k + 1] \in X
      BY <1>0, <2>2
    <2> QED
      BY <1>0, <2>1, <2>3, <2>4
  <1>3. n \in P
    <2> HIDE DEF P
    <2> QED
      BY <1>1, <1>2, Counting
  <1> QED
    BY <1>3

(* The chosen run. *)
LEMMA ResultRun ==
  ASSUME NEW Q, NEW X, NEW q0, NEW step, Machine(Q, X, q0, step), NEW s \in Seq(X)
  PROVE  \E r : Run(r, q0, step, s) /\ Result(q0, step, s) = r[Len(s)]
PROOF
  <1>1. \E r : Run(r, q0, step, s)
    BY RunExists
  <1> QED
    BY <1>1 DEF Result

(* In the end, over the empty text and with one place more. *)
LEMMA ResultNone ==
  ASSUME NEW Q, NEW X, NEW q0, NEW step, Machine(Q, X, q0, step)
  PROVE  Result(q0, step, << >>) = q0
PROOF
  <1>1. << >> \in Seq(X)
    OBVIOUS
  <1>2. \E r : Run(r, q0, step, << >>)
    BY <1>1, RunExists, Zenon
  <1>3. Run(CHOOSE r : Run(r, q0, step, << >>), q0, step, << >>)
    BY <1>2, Zenon
  <1>4. Len(<< >>) = 0
    OBVIOUS
  <1> QED
    BY <1>3, <1>4, Zenon DEF Result, Run

(* The result with one place more. *)
LEMMA ResultAppend ==
  ASSUME NEW Q, NEW X, NEW q0, NEW step, Machine(Q, X, q0, step),
         NEW s \in Seq(X), NEW c \in X
  PROVE  /\ Result(q0, step, s) \in Q
         /\ Result(q0, step, Append(s, c)) = step[<<Result(q0, step, s), c>>]
PROOF
  <1> DEFINE t == Append(s, c)
  <1>1. /\ t \in Seq(X) /\ Len(s) \in Nat /\ Len(t) = Len(s) + 1
        /\ t[Len(t)] = c /\ \A i \in 1..Len(s) : s[i] = t[i]
    OBVIOUS
  <1> HIDE DEF t
  <1>4. PICK r : Run(r, q0, step, s) /\ Result(q0, step, s) = r[Len(s)]
    BY ResultRun
  <1>5. PICK z : Run(z, q0, step, t) /\ Result(q0, step, t) = z[Len(t)]
    BY <1>1, ResultRun
  <1>6. r[Len(s)] = z[Len(s)] /\ r[Len(s)] \in Q
    <2> DEFINE n == Len(s)
    <2>1. n \in Nat /\ n <= Len(s) /\ n <= Len(t) /\ \A i \in 1..n : s[i] = t[i]
      BY <1>1
    <2> HIDE DEF n
    <2>2. t \in Seq(X) /\ Run(r, q0, step, s) /\ Run(z, q0, step, t)
      BY <1>1, <1>4, <1>5
    <2> QED
      BY <2>1, <2>2, RunsAgree DEF n
  <1>7. z[Len(t)] = step[<<z[Len(s)], c>>]
    <2>1. Len(t) \in 1..Len(t) /\ Len(t) - 1 = Len(s)
      BY <1>1
    <2> QED
      BY <1>1, <1>5, <2>1 DEF Run
  <1>8. Result(q0, step, t) = step[<<Result(q0, step, s), c>>]
    BY <1>4, <1>5, <1>6, <1>7
  <1> QED
    BY <1>4, <1>6, <1>8 DEF t

-----------------------------------------------------------------------------
(* Texts put together.                                                     *)

Put2(S) == [p \in Seq(S) \X Seq(S) |-> p[1] \o p[2]]

(* Putting two texts together is a step of a fold. *)
LEMMA Put2Type ==
  ASSUME NEW S
  PROVE  /\ Machine(Seq(S), Seq(S), << >>, Put2(S))
         /\ \A a, b \in Seq(S) : Put2(S)[<<a, b>>] = a \o b
PROOF
  <1>1. \A p \in Seq(S) \X Seq(S) : p[1] \in Seq(S) /\ p[2] \in Seq(S)
    OBVIOUS
  <1>2. \A p \in Seq(S) \X Seq(S) : p[1] \o p[2] \in Seq(S)
    BY <1>1, ConcatProperties
  <1>3. Put2(S) \in [Seq(S) \X Seq(S) -> Seq(S)]
    BY <1>2, Zenon DEF Put2
  <1>4. << >> \in Seq(S)
    OBVIOUS
  <1>5. \A a, b \in Seq(S) : Put2(S)[<<a, b>>] = a \o b
    BY DEF Put2
  <1> QED
    BY <1>3, <1>4, <1>5, Zenon DEF Machine

(* FlattenSeq puts the texts together one after the other. *)
LEMMA FlattenRun ==
  ASSUME NEW S, NEW seqs \in Seq(Seq(S)), 
         NEW r, Run(r, << >>, Put2(S), seqs)
  PROVE  FlattenSeq(seqs) = r[Len(seqs)]
PROOF
  <1>0. /\ Len(seqs) \in Nat /\ << >> \in Seq(S) /\ \A i \in 1..Len(seqs) : seqs[i] \in Seq(S)
        /\ r[0] = << >>
    BY DEF Run
  <1>1. \A k \in Nat : k <= Len(seqs) => r[k] \in Seq(S)
    BY Put2Type, RunsAgree
  <1>2. \A i \in 1..Len(seqs) : r[i] = r[i - 1] \o seqs[i]
    <2> SUFFICES ASSUME NEW i \in 1..Len(seqs) PROVE r[i] = r[i - 1] \o seqs[i]
      OBVIOUS
    <2>1. i - 1 \in Nat /\ i - 1 <= Len(seqs)
      BY <1>0
    <2> QED
      BY <1>0, <1>1, <2>1, Put2Type DEF Run
  <1>5. 1 \in 1..Len(seqs) => r[1] = seqs[1]
    <2> SUFFICES ASSUME 1 \in 1..Len(seqs) PROVE r[1] = seqs[1]
      OBVIOUS
    <2>1. r[1] = r[1 - 1] \o seqs[1]
      BY <1>2
    <2>4. 1 - 1 = 0
      OBVIOUS
    <2>3. r[1] = << >> \o seqs[1] /\ seqs[1] \in Seq(S)
      BY <1>0, <2>1, <2>4, Zenon
    <2>2. << >> \o seqs[1] = seqs[1]
      BY <2>3, ConcatEmptySeq
    <2> QED
      BY <2>2, <2>3
  <1>3. CASE Len(seqs) = 0
    <2>1. seqs = << >>
      BY <1>3, EmptySeq
    <2>2. FlattenSeq(seqs) = seqs
      BY <1>3, Zenon DEF FlattenSeq
    <2> QED
      BY <1>0, <1>3, <2>1, <2>2
  <1>4. CASE Len(seqs) # 0
    <2> DEFINE Body(f) == [i \in 1..Len(seqs) |->
                             IF i = 1 THEN seqs[i] ELSE f[i - 1] \o seqs[i]]
               flatten == CHOOSE f : f = Body(f)
               some    == [i \in 1..Len(seqs) |-> r[i]]
    <2>1. FlattenSeq(seqs) = flatten[Len(seqs)]
      BY <1>4, Zenon DEF FlattenSeq
    <2>2. some = Body(some)
      <3>1. ASSUME NEW i \in 1..Len(seqs)
            PROVE  r[i] = IF i = 1 THEN seqs[i] ELSE some[i - 1] \o seqs[i]
        <4>1. CASE i = 1
          BY <1>5, <4>1
        <4>2. CASE i # 1
          <5>1. i - 1 \in 1..Len(seqs)
            BY <1>0, <4>2
          <5>2. some[i - 1] = r[i - 1]
            BY <5>1
          <5> QED
            BY <1>2, <4>2, <5>2
        <4> QED
          BY <4>1, <4>2
      <3> QED
        BY <3>1
    <2>3. flatten = Body(flatten)
      <3> HIDE DEF Body
      <3> QED
        BY <2>2
    <2> HIDE DEF flatten
    <2>4. \A i \in 1..Len(seqs) :
            flatten[i] = IF i = 1 THEN seqs[i] ELSE flatten[i - 1] \o seqs[i]
      BY <2>3
    <2>5. flatten[1] = r[1]
      BY <1>4, <1>5, <2>4
    <2>6. ASSUME NEW i \in 1..Len(seqs), i # 1, flatten[i - 1] = r[i - 1]
          PROVE  flatten[i] = r[i]
      <3>1. flatten[i] = flatten[i - 1] \o seqs[i]
        BY <2>4, <2>6, Zenon
      <3>2. r[i] = r[i - 1] \o seqs[i]
        BY <1>2, <2>6, Zenon
      <3> QED
        BY <2>6, <3>1, <3>2, Zenon
    <2> DEFINE P == {k \in Nat : k + 1 <= Len(seqs) => flatten[k + 1] = r[k + 1]}
    <2>9. 0 \in P
      BY <2>5
    <2>10. ASSUME NEW k \in Nat, k \in P PROVE k + 1 \in P
      <3> SUFFICES ASSUME (k + 1) + 1 <= Len(seqs)
                   PROVE  flatten[(k + 1) + 1] = r[(k + 1) + 1]
        OBVIOUS
      <3>1. /\ (k + 1) + 1 \in 1..Len(seqs) /\ (k + 1) + 1 # 1
            /\ ((k + 1) + 1) - 1 = k + 1 /\ flatten[k + 1] = r[k + 1]
        BY <1>0, <2>10
      <3> QED
        BY <2>6, <3>1
    <2>7. Len(seqs) - 1 \in P
      <3>1. Len(seqs) - 1 \in Nat
        BY <1>0, <1>4
      <3> HIDE DEF P
      <3> QED
        BY <2>9, <2>10, <3>1, Counting
    <2>8. flatten[Len(seqs)] = r[Len(seqs)]
      <3>1. (Len(seqs) - 1) + 1 = Len(seqs)
        BY <1>0
      <3> QED
        BY <1>0, <2>7, <3>1
    <2> QED
      BY <1>0, <1>1, <2>1, <2>8
  <1> QED
    BY <1>3, <1>4

(* FlattenSeq, one text after the other. *)
LEMMA FlattenAppend ==
  ASSUME NEW S, NEW seqs \in Seq(Seq(S)), NEW w \in Seq(S)
  PROVE  /\ FlattenSeq(<< >>) = << >>
         /\ FlattenSeq(seqs) \in Seq(S)
         /\ FlattenSeq(Append(seqs, w)) = FlattenSeq(seqs) \o w
PROOF
  <1>1. Machine(Seq(S), Seq(S), << >>, Put2(S))
    BY Put2Type
  <1>2. ASSUME NEW x \in Seq(Seq(S)) PROVE FlattenSeq(x) = Result(<< >>, Put2(S), x)
    <2>1. PICK r : Run(r, << >>, Put2(S), x) /\ Result(<< >>, Put2(S), x) = r[Len(x)]
      BY <1>1, ResultRun
    <2> QED
      BY <2>1, FlattenRun
  <1> DEFINE more == Append(seqs, w)
  <1>3. << >> \in Seq(Seq(S)) /\ more \in Seq(Seq(S))
    OBVIOUS
  <1>4. /\ Result(<< >>, Put2(S), << >>) = << >>
        /\ Result(<< >>, Put2(S), seqs) \in Seq(S)
        /\ Result(<< >>, Put2(S), more) = Put2(S)[<<Result(<< >>, Put2(S), seqs), w>>]
    BY <1>1, ResultNone, ResultAppend
  <1>5. Put2(S)[<<Result(<< >>, Put2(S), seqs), w>>] = Result(<< >>, Put2(S), seqs) \o w
    BY <1>4, Put2Type
  <1> HIDE DEF more
  <1> QED
    BY <1>2, <1>3, <1>4, <1>5 DEF more

(* Induction over texts, one character after the other.                    *)
LEMMA ByAppending ==
  ASSUME NEW S, NEW P, << >> \in P,
         \A s \in Seq(S), c \in S : s \in P => Append(s, c) \in P
  PROVE  Seq(S) \subseteq P
PROOF
  <1> DEFINE All(k) == \A t \in Seq(S) : Len(t) = k => t \in P
             Good   == {k \in Nat : All(k)}
  <1>1. All(0)
    <2> SUFFICES ASSUME NEW t \in Seq(S), Len(t) = 0 PROVE t \in P
      OBVIOUS
    <2>1. t = << >>
      OBVIOUS
    <2> QED
      BY <2>1
  <1>2. ASSUME NEW k \in Nat, All(k) PROVE All(k + 1)
    <2> SUFFICES ASSUME NEW t \in Seq(S), Len(t) = k + 1 PROVE t \in P
      OBVIOUS
    <2> DEFINE u == SubSeq(t, 1, k)
               c == t[k + 1]
    <2>1. u \in Seq(S) /\ Len(u) = k /\ c \in S /\ t = Append(u, c)
      OBVIOUS
    <2>2. u \in P
      BY <1>2, <2>1
    <2> HIDE DEF u, c
    <2> QED
      BY <2>1, <2>2
  <1> HIDE DEF All
  <1>3. 0 \in Good /\ \A k \in Nat : k \in Good => k + 1 \in Good
    BY <1>1, <1>2
  <1> HIDE DEF Good
  <1>4. \A k \in Nat : k \in Good
    BY <1>3, Counting
  <1> QED
    BY <1>4 DEF All, Good

-----------------------------------------------------------------------------
(* Replacements and links. *)

(* What links and the normal forms of titles are made of. *)
Mark == Char \cup {"/", "%", ".", "(", ":", "2", "5", "8", "F", "E", "3", "A"}
             \cup {Blank, "a", "issue", "patch", "commit"}

(* Three texts put together, from either end. *)
EitherEnd(x, y, z) == (x \o y) \o z = x \o (y \o z)

LEMMA Grouped ==
  ASSUME NEW S, NEW x \in Seq(S), NEW y \in Seq(S), NEW z \in Seq(S)
  PROVE  EitherEnd(x, y, z)
PROOF
  BY ConcatAssociative DEF EitherEnd

(* What one character is replaced by. *)
Rep(c, f)   == IF c \in DOMAIN f THEN f[c] ELSE <<c>>
Table(f) == \A c \in Mark : Rep(c, f) \in Seq(Mark)

(* Nothing is replaced in nothing. *)
LEMMA ReplaceNone ==
  ASSUME NEW f
  PROVE  Replace(<< >>, f) = << >>
PROOF
  <1>1. [i \in DOMAIN << >> |-> IF << >>[i] \in DOMAIN f THEN f[<< >>[i]] ELSE << <<  >>[i]>>] = << >>
    OBVIOUS
  <1>2. FlattenSeq(<< >>) = << >>
    <2>1. Len(<< >>) = 0
      OBVIOUS
    <2> QED
      BY <2>1, Zenon DEF FlattenSeq
  <1> QED
    BY <1>1, <1>2, Zenon DEF Replace

(* A replacement, one character after the other. *)
LEMMA ReplaceAppend ==
  ASSUME NEW f, Table(f), NEW s \in Seq(Mark), NEW c \in Mark
  PROVE  /\ Replace(s, f) \in Seq(Mark)
         /\ Replace(Append(s, c), f) = Replace(s, f) \o Rep(c, f)
PROOF
  <1> DEFINE Each(t) == [i \in DOMAIN t |-> Rep(t[i], f)]
  <1>1. \A t : Replace(t, f) = FlattenSeq(Each(t))
    BY Zenon DEF Replace, Rep
  <1>2. Each(s) \in Seq(Seq(Mark)) /\ Rep(c, f) \in Seq(Mark)
    <2>1. /\ Len(s) \in Nat /\ \A i \in 1..Len(s) : Rep(s[i], f) \in Seq(Mark)
          /\ Rep(c, f) \in Seq(Mark)
      BY DEF Table
    <2>2. Each(s) = [i \in 1..Len(s) |-> Rep(s[i], f)]
      OBVIOUS
    <2> QED
      BY <2>1, <2>2
  <1>3. Each(Append(s, c)) = Append(Each(s), Rep(c, f))
    <2> DEFINE t == Append(s, c)
               u == Append(Each(s), Rep(c, f))
    <2>1. /\ Len(s) \in Nat /\ t \in Seq(Mark) /\ Len(t) = Len(s) + 1 /\ DOMAIN t = 1..(Len(s) + 1)
          /\ t[Len(s) + 1] = c /\ \A i \in 1..Len(s) : t[i] = s[i]
      OBVIOUS
    <2>2. /\ Len(Each(s)) = Len(s) /\ \A i \in 1..Len(s) : Each(s)[i] = Rep(s[i], f)
      OBVIOUS
    <2>3. /\ u \in Seq(Seq(Mark)) /\ DOMAIN u = 1..(Len(s) + 1)
          /\ u[Len(s) + 1] = Rep(c, f) /\ \A i \in 1..Len(s) : u[i] = Each(s)[i]
      <3> HIDE DEF Each
      <3> QED
        BY <1>2, <2>2
    <2> HIDE DEF t, u
    <2>4. ASSUME NEW i \in 1..(Len(s) + 1) PROVE u[i] = Rep(t[i], f)
      <3>1. CASE i = Len(s) + 1
        BY <2>1, <2>3, <3>1, Zenon
      <3>2. CASE i # Len(s) + 1
        <4>1. i \in 1..Len(s)
          BY <2>1, <3>2
        <4> QED
          BY <2>1, <2>2, <2>3, <4>1
      <3> QED
        BY <3>1, <3>2
    <2>5. Each(t) = [i \in 1..(Len(s) + 1) |-> Rep(t[i], f)]
      BY <2>1
    <2>6. u = [i \in 1..(Len(s) + 1) |-> u[i]]
      BY <2>3
    <2> QED
      BY <2>4, <2>5, <2>6 DEF t, u
  <1> HIDE DEF Each
  <1>4. /\ FlattenSeq(Each(s)) \in Seq(Mark)
        /\ FlattenSeq(Append(Each(s), Rep(c, f))) = FlattenSeq(Each(s)) \o Rep(c, f)
    BY <1>2, FlattenAppend
  <1> QED
    BY <1>1, <1>3, <1>4, Zenon

(* What a text is replaced by is put together from what its parts are.     *)
LEMMA ReplaceJoined ==
  ASSUME NEW f, Table(f), NEW a \in Seq(Mark), NEW b \in Seq(Mark)
  PROVE  Replace(a \o b, f) = Replace(a, f) \o Replace(b, f) /\ Replace(a, f) \in Seq(Mark)
PROOF
  <1> DEFINE P == {t \in Seq(Mark) :
                     /\ Replace(t, f) \in Seq(Mark)
                     /\ Replace(a \o t, f) = Replace(a, f) \o Replace(t, f)}
  <1>4. << >> \in Seq(Mark) /\ a \o << >> = a
    BY ConcatEmptySeq
  <1>0. \A t \in Seq(Mark) : Replace(t, f) \in Seq(Mark)
    <2> DEFINE R == {t \in Seq(Mark) : Replace(t, f) \in Seq(Mark)}
    <2>1. << >> \in R
      BY <1>4, ReplaceNone, Zenon
    <2>2. ASSUME NEW t \in Seq(Mark), NEW c \in Mark, t \in R PROVE Append(t, c) \in R
      <3>1. Append(t, c) \in Seq(Mark) /\ Rep(c, f) \in Seq(Mark)
        BY DEF Table
      <3>2. Replace(t, f) \in Seq(Mark) /\ Replace(Append(t, c), f) = Replace(t, f) \o Rep(c, f)
        BY ReplaceAppend
      <3>3. Replace(t, f) \o Rep(c, f) \in Seq(Mark)
        BY <3>1, <3>2, ConcatProperties
      <3> QED
        BY <3>1, <3>2, <3>3
    <2> HIDE DEF R
    <2>3. Seq(Mark) \subseteq R
      BY <2>1, <2>2, ByAppending
    <2> QED
      BY <2>3 DEF R
  <1>1. << >> \in P
    <2>1. Replace(a, f) \o << >> = Replace(a, f)
      BY <1>0, ConcatEmptySeq
    <2> QED
      BY <1>4, <2>1, ReplaceNone, Zenon
  <1>2. ASSUME NEW t \in Seq(Mark), NEW c \in Mark, t \in P PROVE Append(t, c) \in P
    <2>1. a \o Append(t, c) = Append(a \o t, c) /\ a \o t \in Seq(Mark) /\ Append(t, c) \in Seq(Mark)
      OBVIOUS
    <2>2. /\ Replace(Append(a \o t, c), f) = Replace(a \o t, f) \o Rep(c, f)
          /\ Replace(Append(t, c), f) = Replace(t, f) \o Rep(c, f)
      BY <2>1, ReplaceAppend
    <2> DEFINE x == Replace(a, f)
               y == Replace(t, f)
               z == Rep(c, f)
    <2>3. (x \o y) \o z = x \o (y \o z)
      <3>1. x \in Seq(Mark) /\ y \in Seq(Mark) /\ z \in Seq(Mark)
        BY <1>0 DEF Table
      <3>2. EitherEnd(x, y, z)
        <4> HIDE DEF x, y, z, P
        <4> QED
          BY <3>1, Grouped
      <3> QED
        BY <3>2 DEF EitherEnd
    <2>4. Replace(a \o t, f) = Replace(a, f) \o Replace(t, f)
      BY <1>2
    <2> QED
      BY <1>0, <2>1, <2>2, <2>3, <2>4, Zenon
  <1>3. Seq(Mark) \subseteq P
    <2> HIDE DEF P
    <2> QED
      BY <1>1, <1>2, ByAppending
  <1> QED
    BY <1>0, <1>3

(* What the escapes are. *)
LEMMA Codes ==
  /\ DOMAIN Code = {"/", "%", ".", "(", ":"}
  /\ Code["/"] = <<"2", "F">> /\ Code["%"] = <<"2", "5">> /\ Code["."] = <<"2", "E">>
  /\ Code["("] = <<"2", "8">> /\ Code[":"] = <<"3", "A">>
PROOF
  BY DEF Code

(* The tables of the replacements that make a link. *)
LEMMA EscapeTables ==
  /\ DOMAIN PathEscapes = {"/", "%", "("} /\ DOMAIN ColonEscape = {":"}
  /\ DOMAIN HashReplacer = {"%", ".", "("}
  /\ \A c \in {"/", "%", "("} : PathEscapes[c] = <<"%">> \o Code[c]
  /\ ColonEscape[":"] = <<"%">> \o Code[":"]
  /\ HashReplacer["%"] = <<".">> /\ HashReplacer["."] = <<".">> \o Code["."]
  /\ HashReplacer["("] = <<".">> \o Code["("]
PROOF
  <1>1. DOMAIN HashReplacer = {"%", ".", "("}
    BY DEF HashReplacer
  <1>2. DOMAIN PathEscapes = {"/", "%", "("} /\ DOMAIN ColonEscape = {":"}
    BY Codes DEF PathEscapes, ColonEscape, Escapes, PathUnescaped
  <1>3. /\ \A c \in {"/", "%", "("} : PathEscapes[c] = <<"%">> \o Code[c]
        /\ ColonEscape[":"] = <<"%">> \o Code[":"]
    BY Codes, Zenon DEF PathEscapes, ColonEscape, Escapes, PathUnescaped
  <1>4. /\ HashReplacer["%"] = <<".">> /\ HashReplacer["."] = <<".">> \o Code["."]
        /\ HashReplacer["("] = <<".">> \o Code["("]
    BY DEF HashReplacer
  <1> QED
    BY <1>1, <1>2, <1>3, <1>4

(* What one character of a topic is in a link: a letter or digit itself,   *)
(* anything else a dot and its code.                                       *)
Escaped(c) == IF c \in DOMAIN Code THEN <<".">> \o Code[c] ELSE <<c>>

(* The tables make marks of marks. *)
LEMMA TablesTyped ==
  Table(PathEscapes) /\ Table(ColonEscape) /\ Table(HashReplacer)
PROOF
  <1>1. \A x \in DOMAIN Code : /\ <<"%">> \o Code[x] \in Seq(Mark)
                               /\ <<".">> \o Code[x] \in Seq(Mark)
    <2>3. /\ <<"2", "F">> \in Seq(Mark) /\ <<"2", "5">> \in Seq(Mark)
          /\ <<"2", "E">> \in Seq(Mark) /\ <<"2", "8">> \in Seq(Mark)
          /\ <<"3", "A">> \in Seq(Mark)
      BY DEF Mark
    <2>1. \A x \in DOMAIN Code : Code[x] \in Seq(Mark)
      BY <2>3, Codes, Zenon
    <2>2. <<"%">> \in Seq(Mark) /\ <<".">> \in Seq(Mark)
      BY DEF Mark
    <2> QED
      BY <2>1, <2>2, ConcatProperties
  <1>2. <<".">> \in Seq(Mark) /\ \A x \in Mark : <<x>> \in Seq(Mark)
    BY DEF Mark
  <1>3. ASSUME NEW x \in Mark PROVE Rep(x, PathEscapes) \in Seq(Mark)
    BY <1>1, <1>2, Codes, EscapeTables, Zenon DEF Rep
  <1>4. ASSUME NEW x \in Mark PROVE Rep(x, ColonEscape) \in Seq(Mark)
    BY <1>1, <1>2, Codes, EscapeTables, Zenon DEF Rep
  <1>5. ASSUME NEW x \in Mark PROVE Rep(x, HashReplacer) \in Seq(Mark)
    BY <1>1, <1>2, Codes, EscapeTables, Zenon DEF Rep
  <1> QED
    BY <1>3, <1>4, <1>5 DEF Table

(* The three replacements of a link, one after the other, put together     *)
(* what they make of the parts.                                            *)
LEMMA EncodeJoined ==
  ASSUME NEW a \in Seq(Mark), NEW b \in Seq(Mark)
  PROVE  /\ encodeHashComponent(a) \in Seq(Mark)
         /\ encodeHashComponent(a \o b) = encodeHashComponent(a) \o encodeHashComponent(b)
PROOF
  <1> DEFINE Joins(f) ==
               \A x, y \in Seq(Mark) : /\ Replace(x, f) \in Seq(Mark)
                                       /\ Replace(x \o y, f) = Replace(x, f) \o Replace(y, f)
  <1>1. Joins(PathEscapes) /\ Joins(ColonEscape) /\ Joins(HashReplacer)
    BY ReplaceJoined, TablesTyped
  <1> DEFINE a1 == Replace(a, PathEscapes)
             b1 == Replace(b, PathEscapes)
             a2 == Replace(a1, ColonEscape)
             b2 == Replace(b1, ColonEscape)
  <1> HIDE DEF Joins
  <1>4. a1 \in Seq(Mark) /\ b1 \in Seq(Mark) /\ Replace(a \o b, PathEscapes) = a1 \o b1
    BY <1>1 DEF Joins
  <1> HIDE DEF a1, b1
  <1>5. a2 \in Seq(Mark) /\ b2 \in Seq(Mark) /\ Replace(a1 \o b1, ColonEscape) = a2 \o b2
    BY <1>1, <1>4 DEF Joins
  <1> HIDE DEF a2, b2
  <1>6. /\ Replace(a2, HashReplacer) \in Seq(Mark)
        /\ Replace(a2 \o b2, HashReplacer) = Replace(a2, HashReplacer) \o Replace(b2, HashReplacer)
    BY <1>1, <1>5 DEF Joins
  <1> QED
    BY <1>4, <1>5, <1>6, Zenon DEF a1, b1, a2, b2, encodeHashComponent, PathEscape

(* What a single character is replaced by. *)
LEMMA ReplaceOne ==
  ASSUME NEW f, Table(f), NEW c \in Mark
  PROVE  Replace(<<c>>, f) = Rep(c, f)
PROOF
  <2> DEFINE none == << >>
  <2>1. none \in Seq(Mark) /\ <<c>> = Append(none, c)
    OBVIOUS
  <2>2. Rep(c, f) \in Seq(Mark) /\ Replace(none, f) = << >>
    BY ReplaceNone DEF Table
  <2>3. << >> \o Rep(c, f) = Rep(c, f)
    BY <2>2, ConcatEmptySeq
  <2> HIDE DEF none
  <2>4. Replace(Append(none, c), f) = Replace(none, f) \o Rep(c, f)
    BY <2>1, ReplaceAppend
  <2> QED
    BY <2>1, <2>2, <2>3, <2>4, Zenon

(* The digits that codes are made of are left alone. *)
Digit == {"2", "5", "8", "F", "E", "3", "A"}

(* Two characters put together. *)
LEMMA Pair ==
  ASSUME NEW x \in Mark, NEW y \in Mark
  PROVE  <<x>> \o <<y>> = <<x, y>>
PROOF
  <1>1. <<x>> \in Seq(Mark) /\ <<x, y>> = Append(<<x>>, y)
    OBVIOUS
  <1> QED
    BY <1>1, AppendIsConcat, Zenon

(* A replacement that leaves two digits alone. *)
LEMMA ReplaceDigits ==
  ASSUME NEW f, Table(f), NEW x \in Digit, NEW y \in Digit,
         x \notin DOMAIN f, y \notin DOMAIN f
  PROVE  Replace(<<x, y>>, f) = <<x, y>>
PROOF
  <1>1. x \in Mark /\ y \in Mark
    BY DEF Mark, Digit
  <1>2. Replace(<<x>>, f) = <<x>> /\ Rep(y, f) = <<y>>
    BY <1>1, ReplaceOne DEF Rep
  <1>3. <<x>> \in Seq(Mark) /\ <<x, y>> = Append(<<x>>, y)
    BY <1>1
  <1>4. Replace(Append(<<x>>, y), f) = Replace(<<x>>, f) \o Rep(y, f)
    BY <1>1, <1>3, ReplaceAppend, Zenon
  <1>5. <<x>> \o <<y>> = <<x, y>>
    BY <1>1, Pair
  <1> QED
    BY <1>2, <1>3, <1>4, <1>5, Zenon

(* A code passes the second and the third replacement unchanged. *)
LEMMA CodeDigits ==
  ASSUME NEW c \in DOMAIN Code
  PROVE  /\ \E x, y \in Digit : Code[c] = <<x, y>>
         /\ Code[c] \in Seq(Mark) /\ <<"%">> \in Seq(Mark) /\ <<".">> \in Seq(Mark)
         /\ Replace(Code[c], ColonEscape) = Code[c]
         /\ Replace(Code[c], HashReplacer) = Code[c]
PROOF
  <1>1. PICK x \in Digit, y \in Digit : Code[c] = <<x, y>>
    BY Codes DEF Digit
  <1>2. /\ x \notin DOMAIN ColonEscape /\ y \notin DOMAIN ColonEscape
        /\ x \notin DOMAIN HashReplacer /\ y \notin DOMAIN HashReplacer
    BY EscapeTables DEF Digit
  <1>3. Replace(<<x, y>>, ColonEscape) = <<x, y>> /\ Replace(<<x, y>>, HashReplacer) = <<x, y>>
    BY <1>2, ReplaceDigits, TablesTyped
  <1>4. x \in Mark /\ y \in Mark /\ "%" \in Mark /\ "." \in Mark
    BY DEF Mark, Digit
  <1> QED
    BY <1>1, <1>3, <1>4

(* What one character of a topic is in a link                              *)
(* (zulip.encodeHashComponent).                                            *)
LEMMA EncodeOne ==
  ASSUME NEW c \in Char
  PROVE  encodeHashComponent(<<c>>) = Escaped(c)
PROOF
  <1> DEFINE Path(s)  == Replace(s, PathEscapes)
             Colon(s) == Replace(s, ColonEscape)
             Hash(s)  == Replace(s, HashReplacer)
  <1>1. encodeHashComponent(<<c>>) = Hash(Colon(Path(<<c>>)))
    BY Zenon DEF encodeHashComponent, PathEscape
  <1>2. c \in Mark /\ "%" \in Mark /\ "." \in Mark /\ ":" \in Mark
    BY DEF Mark
  <1>4. \A d : d \notin DOMAIN Code => /\ Rep(d, PathEscapes) = <<d>> /\ Rep(d, ColonEscape) = <<d>>
                                       /\ Rep(d, HashReplacer) = <<d>>
    BY Codes, EscapeTables, Zenon DEF Rep
  <1>5. /\ Rep("%", ColonEscape) = <<"%">> /\ Rep("%", HashReplacer) = <<".">>
        /\ Rep(".", PathEscapes) = <<".">> /\ Rep(".", ColonEscape) = <<".">>
        /\ Rep(".", HashReplacer) = <<".">> \o Code["."]
        /\ Rep(":", PathEscapes) = <<":">> /\ Rep(":", ColonEscape) = <<"%">> \o Code[":"]
        /\ \A d \in {"/", "%", "("} : Rep(d, PathEscapes) = <<"%">> \o Code[d]
    BY EscapeTables DEF Rep
  <1>8. \A x \in Mark : /\ Path(<<x>>) = Rep(x, PathEscapes) /\ Colon(<<x>>) = Rep(x, ColonEscape)
                        /\ Hash(<<x>>) = Rep(x, HashReplacer)
    BY ReplaceOne, TablesTyped
  <1>7. ASSUME NEW d \in DOMAIN Code
        PROVE  /\ Colon(<<"%">> \o Code[d]) = <<"%">> \o Code[d]
               /\ Hash(<<"%">> \o Code[d]) = <<".">> \o Code[d]
    <2>1. /\ <<"%">> \in Seq(Mark) /\ Code[d] \in Seq(Mark)
          /\ Colon(Code[d]) = Code[d] /\ Hash(Code[d]) = Code[d]
      BY CodeDigits
    <2>2. /\ Colon(<<"%">> \o Code[d]) = Colon(<<"%">>) \o Colon(Code[d])
          /\ Hash(<<"%">> \o Code[d]) = Hash(<<"%">>) \o Hash(Code[d])
      BY <2>1, ReplaceJoined, TablesTyped, Zenon
    <2>3. Colon(<<"%">>) = <<"%">> /\ Hash(<<"%">>) = <<".">>
      BY <1>2, <1>5, <1>8, Zenon
    <2> QED
      BY <2>1, <2>2, <2>3, Zenon
  <1> HIDE DEF Path, Colon, Hash
  <1>9. CASE c \notin DOMAIN Code
    <2>1. Path(<<c>>) = <<c>> /\ Colon(<<c>>) = <<c>> /\ Hash(<<c>>) = <<c>>
      BY <1>2, <1>4, <1>8, <1>9, Zenon
    <2> QED
      BY <1>1, <1>9, <2>1, Zenon DEF Escaped
  <1>10. CASE c \in {"/", "%", "("}
    <2>1. c \in DOMAIN Code
      BY <1>10, Codes
    <2>2. Path(<<c>>) = <<"%">> \o Code[c]
      BY <1>2, <1>5, <1>8, <1>10, Zenon
    <2>3. Hash(Colon(Path(<<c>>))) = <<".">> \o Code[c]
      BY <1>7, <2>1, <2>2, Zenon
    <2> QED
      BY <1>1, <2>1, <2>3, Zenon DEF Escaped
  <1>11. CASE c = "."
    <2>1. "." \in DOMAIN Code
      BY Codes
    <2>2. Path(<<".">>) = <<".">> /\ Colon(<<".">>) = <<".">> /\ Hash(<<".">>) = <<".">> \o Code["."]
      BY <1>2, <1>5, <1>8, Zenon
    <2> QED
      BY <1>1, <1>11, <2>1, <2>2, Zenon DEF Escaped
  <1>12. CASE c = ":"
    <2>1. ":" \in DOMAIN Code
      BY Codes
    <2>2. Path(<<":">>) = <<":">> /\ Colon(<<":">>) = <<"%">> \o Code[":"]
      BY <1>2, <1>5, <1>8, Zenon
    <2> QED
      BY <1>1, <1>7, <1>12, <2>1, <2>2, Zenon DEF Escaped
  <1> QED
    BY <1>9, <1>10, <1>11, <1>12, Codes, Zenon

(* A character stands for itself or is a dot and two digits. *)
LEMMA EscapedShape ==
  /\ \A c \in Char : c \notin DOMAIN Code => Escaped(c) = <<c>>
  /\ \A c \in DOMAIN Code : \E x, y \in Digit :
       Code[c] = <<x, y>> /\ Escaped(c) = <<".", x, y>>
PROOF
  <1>1. ASSUME NEW c \in DOMAIN Code
        PROVE  \E x, y \in Digit : Code[c] = <<x, y>> /\ Escaped(c) = <<".", x, y>>
    <2>1. PICK x \in Digit, y \in Digit : Code[c] = <<x, y>>
      BY CodeDigits
    <2>2. <<".", x, y>> = <<".">> \o <<x, y>>
      OBVIOUS
    <2>3. Escaped(c) = <<".">> \o Code[c]
      BY Zenon DEF Escaped
    <2> QED
      BY <2>1, <2>2, <2>3, Zenon
  <1> QED
    BY <1>1, Zenon DEF Escaped

(* The link of a topic is put together from what its characters are.       *)
LEMMA EncodeAppend ==
  /\ encodeHashComponent(<< >>) = << >>
  /\ \A t \in Seq(Char), c \in Char :
       /\ encodeHashComponent(t) \in Seq(Mark) /\ Escaped(c) \in Seq(Mark)
       /\ encodeHashComponent(Append(t, c)) = encodeHashComponent(t) \o Escaped(c)
PROOF
  <1>1. encodeHashComponent(<< >>) = << >>
    BY ReplaceNone, Zenon DEF encodeHashComponent, PathEscape
  <1>2. ASSUME NEW t \in Seq(Char), NEW c \in Char
        PROVE  /\ encodeHashComponent(t) \in Seq(Mark) /\ Escaped(c) \in Seq(Mark)
               /\ encodeHashComponent(Append(t, c)) = encodeHashComponent(t) \o Escaped(c)
    <2>1. t \in Seq(Mark) /\ <<c>> \in Seq(Mark)
      BY DEF Mark
    <2>2. Append(t, c) = t \o <<c>>
      BY AppendIsConcat
    <2>3. encodeHashComponent(<<c>>) = Escaped(c)
      BY EncodeOne
    <2> QED
      BY <2>1, <2>2, <2>3, EncodeJoined, Zenon
  <1> QED
    BY <1>1, <1>2

(* No character of a topic is a separator of its link. *)
SlashFree(s) == \A i \in 1..Len(s) : s[i] # "/"

(* An encoded topic has no slash. *)
LEMMA EncodeSlashFree ==
  ASSUME NEW t \in Seq(Char)
  PROVE  encodeHashComponent(t) \in Seq(Mark) /\ SlashFree(encodeHashComponent(t))
PROOF
  <1> DEFINE P == {u \in Seq(Char) : SlashFree(encodeHashComponent(u))}
  <1>1. << >> \in P
    <2>1. << >> \in Seq(Char) /\ SlashFree(<< >>)
      BY DEF SlashFree
    <2> QED
      BY <2>1, EncodeAppend, Zenon
  <1>2. ASSUME NEW u \in Seq(Char), NEW c \in Char, u \in P PROVE Append(u, c) \in P
    <2> DEFINE a == encodeHashComponent(u)
               b == Escaped(c)
    <2>1. a \in Seq(Mark) /\ b \in Seq(Mark) /\ encodeHashComponent(Append(u, c)) = a \o b
      BY EncodeAppend
    <2>2. SlashFree(a)
      BY <1>2
    <2>3. SlashFree(b)
      <3>1. CASE c \notin DOMAIN Code
        <4>1. c # "/" /\ b = <<c>>
          BY <3>1, EscapedShape, Codes
        <4> QED
          BY <4>1 DEF SlashFree
      <3>2. CASE c \in DOMAIN Code
        <4>1. PICK x \in Digit, y \in Digit : b = <<".", x, y>>
          BY <3>2, EscapedShape
        <4>2. x # "/" /\ y # "/"
          BY DEF Digit
        <4> QED
          BY <4>1, <4>2 DEF SlashFree
      <3> QED
        BY <3>1, <3>2
    <2> HIDE DEF a, b
    <2>4. SlashFree(a \o b)
      BY <2>1, <2>2, <2>3 DEF SlashFree
    <2>5. Append(u, c) \in Seq(Char)
      OBVIOUS
    <2> QED
      BY <2>1, <2>4, <2>5
  <1> HIDE DEF P
  <1>3. Seq(Char) \subseteq P
    BY <1>1, <1>2, ByAppending
  <1>4. encodeHashComponent(t) \in Seq(Mark)
    BY EncodeAppend, NamesAssumption
  <1> QED
    BY <1>3, <1>4 DEF P

-----------------------------------------------------------------------------
(* The segments of a link. *)

(* The places of the slashes of a link, and the two that are around the    *)
(* fifth part.                                                             *)
LEMMA FourthSlash ==
  ASSUME NEW L \in Nat
  PROVE  LET slashes == {2, 4, 6, 8, L + 9, L + 11}
         IN  /\ (CHOOSE i \in slashes : Cardinality({j \in slashes : j < i}) = 5 - 2) = 8
             /\ Min({i \in slashes : i > 8}) = L + 9
PROOF
  <1> DEFINE slashes  == {2, 4, 6, 8, L + 9, L + 11}
             below(i) == {j \in slashes : j < i}
  <1>1. /\ IsFiniteSet({2, 4, 6}) /\ Cardinality({2, 4, 6}) = 3
        /\ IsFiniteSet({2, 4}) /\ Cardinality({2, 4}) = 2
        /\ IsFiniteSet({2, 4, 6, 8}) /\ Cardinality({2, 4, 6, 8}) = 4
    <2>1. IsFiniteSet({2}) /\ Cardinality({2}) = 1
      BY FS_Singleton
    <2>2. IsFiniteSet({2} \cup {4}) /\ Cardinality({2} \cup {4}) = 2
      BY <2>1, FS_AddElement
    <2>3. {2} \cup {4} = {2, 4} /\ {2, 4} \cup {6} = {2, 4, 6} /\ {2, 4, 6} \cup {8} = {2, 4, 6, 8}
      OBVIOUS
    <2>4. IsFiniteSet({2, 4} \cup {6}) /\ Cardinality({2, 4} \cup {6}) = 3
      BY <2>2, <2>3, FS_AddElement
    <2>5. IsFiniteSet({2, 4, 6} \cup {8}) /\ Cardinality({2, 4, 6} \cup {8}) = 4
      BY <2>3, <2>4, FS_AddElement
    <2> QED
      BY <2>2, <2>3, <2>4, <2>5
  <1>2. 8 \in slashes /\ below(8) = {2, 4, 6}
    OBVIOUS
  <1>3. ASSUME NEW i \in slashes, i # 8 PROVE Cardinality(below(i)) # 3
    <2>1. CASE i < 8
      <3>1. below(i) \in SUBSET {2, 4}
        BY <2>1
      <3>2. IsFiniteSet(below(i)) /\ Cardinality(below(i)) <= 2
        BY <1>1, <3>1, FS_Subset
      <3>3. Cardinality(below(i)) \in Nat
        BY <3>2, FS_CardinalityType
      <3> QED
        BY <3>2, <3>3
    <2>2. CASE i > 8
      <3>1. {2, 4, 6, 8} \in SUBSET below(i)
        BY <2>2
      <3>2. IsFiniteSet(below(i))
        <4>1. IsFiniteSet({2, 4, 6, 8} \cup {L + 9})
          BY <1>1, FS_AddElement
        <4>2. IsFiniteSet(({2, 4, 6, 8} \cup {L + 9}) \cup {L + 11})
          BY <4>1, FS_AddElement
        <4>3. below(i) \in SUBSET (({2, 4, 6, 8} \cup {L + 9}) \cup {L + 11})
          OBVIOUS
        <4> QED
          BY <4>2, <4>3, FS_Subset
      <3>3. 4 <= Cardinality(below(i)) /\ Cardinality(below(i)) \in Nat
        BY <1>1, <3>1, <3>2, FS_Subset, FS_CardinalityType
      <3> QED
        BY <3>3
    <2>3. i \in Nat
      OBVIOUS
    <2> QED
      BY <1>3, <2>1, <2>2, <2>3
  <1>4. Min({i \in slashes : i > 8}) = L + 9
    <2>1. /\ {i \in slashes : i > 8} \subseteq Nat /\ L + 9 \in {i \in slashes : i > 8}
          /\ \A k \in {i \in slashes : i > 8} : L + 9 <= k
      OBVIOUS
    <2> QED
      BY <2>1, Extremes
  <1>5. 5 - 2 = 3
    OBVIOUS
  <1>6. Cardinality(below(8)) = 3
    BY <1>1, <1>2
  <1>7. (CHOOSE i \in slashes : Cardinality(below(i)) = 3) = 8
    <2> DEFINE Third(i) == i \in slashes /\ Cardinality(below(i)) = 3
    <2>1. Third(8) /\ \A i : Third(i) => i = 8
      BY <1>2, <1>3, <1>6
    <2> HIDE DEF slashes
    <2> QED
      BY <2>1, Zenon
  <1> QED
    BY <1>4, <1>5, <1>7, Zenon

(* The fifth part of a link is its topic's. *)
LEMMA TopicSegment ==
  ASSUME NEW s \in Stream, NEW e \in Seq(Mark), SlashFree(e), NEW t,
         e = encodeHashComponent(t)
  PROVE  Segment(messageURL(s, t), 5) = e
PROOF
  <1> DEFINE U == Mark \cup {s, "narrow", "stream", "topic", "near", "id"}
             a == <<"narrow", "/", "stream", "/", s, "/", "topic", "/">>
             c == <<"/", "near", "/", "id">>
             w == (a \o e) \o c
             L == Len(e)
             slashes == {i \in DOMAIN w : w[i] = "/"}
  <1>1. messageURL(s, t) = w
    BY Zenon DEF messageURL
  <1>2. s # "/" /\ "/" \in Mark
    BY NamesAssumption DEF Mark
  <1>3. a \in Seq(U) /\ e \in Seq(U) /\ c \in Seq(U) /\ Len(a) = 8 /\ Len(c) = 4 /\ L \in Nat
    BY <1>2
  <1>4. /\ a[1] # "/" /\ a[2] = "/" /\ a[3] # "/" /\ a[4] = "/" /\ a[5] # "/" /\ a[6] = "/"
        /\ a[7] # "/" /\ a[8] = "/" /\ c[1] = "/" /\ c[2] # "/" /\ c[3] = "/" /\ c[4] # "/"
    BY <1>2
  <1>5. \A i \in 1..L : e[i] # "/"
    BY DEF SlashFree
  <1> HIDE DEF a, c, L, U
  <1>6. /\ w \in Seq(U) /\ Len(w) = L + 12
        /\ \A i \in 1..8 : w[i] = a[i]
        /\ \A i \in 1..L : w[8 + i] = e[i]
        /\ \A i \in 1..4 : w[8 + L + i] = c[i]
    <2>1. L = Len(e)
      BY DEF L
    <2>2. /\ w \in Seq(U) /\ Len(w) = Len(a) + Len(e) + Len(c)
          /\ \A i \in 1..Len(a) : w[i] = a[i]
          /\ \A i \in 1..Len(e) : w[Len(a) + i] = e[i]
          /\ \A i \in 1..Len(c) : w[Len(a) + Len(e) + i] = c[i]
      <3>1. w = (a \o e) \o c
        OBVIOUS
      <3>2. a \in Seq(U) /\ e \in Seq(U) /\ c \in Seq(U)
        BY <1>3
      <3> HIDE DEF w
      <3> QED
        BY <3>1, <3>2
    <2>3. Len(w) = L + 12
      <3> HIDE DEF w
      <3> QED
        BY <1>3, <2>1, <2>2
    <2> HIDE DEF w
    <2> QED
      BY <1>3, <2>1, <2>2, <2>3
  <1> HIDE DEF w
  <1>7. slashes = {2, 4, 6, 8, L + 9, L + 11}
    <2>1. DOMAIN w = 1..(L + 12)
      BY <1>3, <1>6
    <2>2. /\ w[2] = "/" /\ w[4] = "/" /\ w[6] = "/" /\ w[8] = "/" /\ w[L + 9] = "/" /\ w[L + 11] = "/"
          /\ w[1] # "/" /\ w[3] # "/" /\ w[5] # "/" /\ w[7] # "/" /\ w[L + 10] # "/" /\ w[L + 12] # "/"
      <3>1. 9 + L = 8 + L + 1 /\ 10 + L = 8 + L + 2 /\ 11 + L = 8 + L + 3 /\ 12 + L = 8 + L + 4
        BY <1>3
      <3> QED
        BY <1>3, <1>4, <1>6, <3>1
    <2>3. \A i \in 9..(L + 8) : w[i] # "/"
      <3> SUFFICES ASSUME NEW i \in 9..(L + 8) PROVE w[i] # "/"
        OBVIOUS
      <3>1. i - 8 \in 1..L /\ i = 8 + (i - 8)
        BY <1>3
      <3>2. w[8 + (i - 8)] = e[i - 8]
        BY <1>6, <3>1
      <3> QED
        BY <1>5, <3>1, <3>2
    <2>4. \A i \in 1..(L + 12) : \/ i \in {1, 2, 3, 4, 5, 6, 7, 8} \/ i \in 9..(L + 8)
                                 \/ i \in {L + 9, L + 10, L + 11, L + 12}
      BY <1>3
    <2>5. ASSUME NEW i \in 1..(L + 12) PROVE w[i] = "/" <=> i \in {2, 4, 6, 8, L + 9, L + 11}
      <3>1. CASE i \in 9..(L + 8)
        BY <1>3, <2>3, <3>1
      <3>2. CASE i \in {1, 2, 3, 4, 5, 6, 7, 8}
        BY <1>3, <2>2, <3>2
      <3>3. CASE i \in {L + 9, L + 10, L + 11, L + 12}
        BY <1>3, <2>2, <3>3
      <3> QED
        BY <2>4, <3>1, <3>2, <3>3
    <2>6. {2, 4, 6, 8, L + 9, L + 11} \subseteq 1..(L + 12)
      BY <1>3
    <2> QED
      BY <2>1, <2>5, <2>6
  <1> DEFINE six == {2, 4, 6, 8, L + 9, L + 11}
  <1>8. /\ (CHOOSE i \in six : Cardinality({j \in six : j < i}) = 5 - 2) = 8
        /\ Min({i \in six : i > 8}) = L + 9
    <2>1. L \in Nat
      BY <1>3
    <2> QED
      BY <2>1, FourthSlash, Zenon
  <1>9. Segment(w, 5) = SubSeq(w, 8 + 1, (L + 9) - 1)
    BY <1>7, <1>8, ZenonT(40) DEF Segment
  <1>10. SubSeq(w, 9, L + 8) = e
    <2> DEFINE v == SubSeq(w, 9, L + 8)
    <2>1. v \in Seq(U) /\ Len(v) = L /\ \A i \in 1..L : v[i] = w[8 + i]
      BY <1>3, <1>6
    <2> HIDE DEF v
    <2>2. \A i \in 1..Len(e) : v[i] = e[i]
      BY <1>6, <2>1 DEF L
    <2>3. v = e
      BY <1>3, <2>1, <2>2, SameText DEF L
    <2> QED
      BY <2>3 DEF v
  <1>11. 8 + 1 = 9 /\ (L + 9) - 1 = L + 8
    BY <1>3
  <1> QED
    BY <1>1, <1>9, <1>10, <1>11, Zenon DEF w

-----------------------------------------------------------------------------
(* Reading a link. *)

(* What is read from place i of a link on, where f is what is read from    *)
(* the later places.                                                       *)
Read(s, f, i) ==
  IF i > Len(s) THEN << >>
  ELSE IF s[i] \in {".", "%"} THEN <<Decoded(SubSeq(s, i + 1, i + 2))>> \o f[i + 3]
  ELSE <<s[i]>> \o f[i + 1]

Reading(s, f) == f = [i \in 1..(Len(s) + 3) |-> Read(s, f, i)]

(* Every link can be read: from its last place back to its first one.      *)
LEMMA ReadingExists ==
  ASSUME NEW s \in Seq(Mark)
  PROVE  \E f : Reading(s, f)
PROOF
  <1> DEFINE n == Len(s) + 3
             Right(f, k) == \A i \in 1..n : i > n - k => f[i] = Read(s, f, i)
             P == {k \in Nat : \E f : f = [i \in 1..n |-> f[i]] /\ Right(f, k)}
  <1>0. n \in Nat
    OBVIOUS
  <1>1. 0 \in P
    <2> DEFINE f == [i \in 1..n |-> << >>]
    <2>1. f = [i \in 1..n |-> f[i]]
      OBVIOUS
    <2>2. Right(f, 0)
      BY <1>0
    <2> QED
      BY <2>1, <2>2
  <1>2. ASSUME NEW k \in Nat, k \in P PROVE k + 1 \in P
    <2>1. PICK f : f = [i \in 1..n |-> f[i]] /\ Right(f, k)
      BY <1>2
    <2> DEFINE g == [i \in 1..n |-> IF i = n - k THEN Read(s, f, i) ELSE f[i]]
    <2>2. g = [i \in 1..n |-> g[i]]
      OBVIOUS
    <2>3. ASSUME NEW i \in 1..n, i > n - (k + 1) PROVE g[i] = Read(s, g, i)
      <3>1. g[i] = Read(s, f, i)
        <4>1. CASE i = n - k
          BY <4>1
        <4>2. CASE i # n - k
          <5>1. i > n - k
            BY <1>0, <2>3, <4>2
          <5> QED
            BY <2>1, <4>2, <5>1
        <4> QED
          BY <4>1, <4>2
      <3>2. CASE i > Len(s)
        BY <3>1, <3>2 DEF Read
      <3>3. CASE ~(i > Len(s))
        <4>1. i + 1 \in 1..n /\ i + 3 \in 1..n /\ i + 1 # n - k /\ i + 3 # n - k
          BY <1>0, <2>3, <3>3
        <4>2. g[i + 1] = f[i + 1] /\ g[i + 3] = f[i + 3]
          BY <4>1
        <4> HIDE DEF g
        <4> QED
          BY <3>1, <3>3, <4>2, Zenon DEF Read
      <3> QED
        BY <3>2, <3>3
    <2> HIDE DEF g
    <2>4. Right(g, k + 1)
      BY <2>3
    <2> QED
      BY <2>2, <2>4
  <1> HIDE DEF P
  <1>3. n \in P
    BY <1>0, <1>1, <1>2, Counting
  <1>4. PICK f : f = [i \in 1..n |-> f[i]] /\ Right(f, n)
    BY <1>3 DEF P
  <1>5. \A i \in 1..n : f[i] = Read(s, f, i)
    BY <1>0, <1>4
  <1>6. f = [i \in 1..n |-> Read(s, f, i)]
    BY <1>4, <1>5, Zenon
  <1> QED
    BY <1>6, Zenon DEF Reading

(* Decode is the first value of a reading. *)
LEMMA DecodeReading ==
  ASSUME NEW s \in Seq(Mark)
  PROVE  \E f : Reading(s, f) /\ Decode(s) = f[1]
PROOF
  <1>1. Decode(s) = (CHOOSE f : Reading(s, f))[1]
    BY Zenon DEF Decode, Reading, Read
  <1>2. \E f : Reading(s, f)
    BY ReadingExists
  <1> QED
    BY <1>1, <1>2, Zenon

(* No two characters have the same code. *)
LEMMA DecodedBack ==
  ASSUME NEW c \in DOMAIN Code
  PROVE  Decoded(Code[c]) = c
PROOF
  <1>1. \A d \in DOMAIN Code : Code[d] = Code[c] => d = c
    <2> SUFFICES ASSUME NEW d \in DOMAIN Code, Code[d] = Code[c] PROVE d = c
      OBVIOUS
    <2>1. Code[d][1] = Code[c][1] /\ Code[d][2] = Code[c][2]
      OBVIOUS
    <2> QED
      BY <2>1, Codes
  <1> QED
    BY <1>1 DEF Decoded

(* The first character of what is left goes over to what is done. *)
LEMMA MoveOne ==
  ASSUME NEW a \in Seq(Char), NEW b \in Seq(Char), Len(b) >= 1
  PROVE  \E c \in Char, d \in Seq(Char) :
           /\ Len(d) = Len(b) - 1 /\ b = <<c>> \o d
           /\ Append(a, c) \in Seq(Char) /\ Append(a, c) \o d = a \o b
PROOF
  <1> DEFINE c == b[1]
             d == SubSeq(b, 2, Len(b))
             u == <<c>> \o d
             v == Append(a, c) \o d
             w == a \o b
  <1>1. c \in Char /\ d \in Seq(Char) /\ Len(d) = Len(b) - 1 /\ \A i \in 1..(Len(b) - 1) : d[i] = b[i + 1]
    <2>1. c \in Char /\ 2 \in 1..(Len(b) + 1) /\ Len(b) \in Nat
      OBVIOUS
    <2>2. d \in Seq(Char) /\ Len(d) = Len(b) - 2 + 1 /\ \A i \in 1..(Len(b) - 2 + 1) : d[i] = b[2 + i - 1]
      BY <2>1, EndOf
    <2>3. \A i \in 1..(Len(b) - 1) : i \in 1..(Len(b) - 2 + 1) /\ 2 + i - 1 = i + 1
      BY <2>1
    <2> HIDE DEF c, d
    <2> QED
      BY <2>1, <2>2, <2>3
  <1> HIDE DEF c, d
  <1>2. u \in Seq(Char) /\ Len(u) = Len(b) /\ u[1] = c /\ \A i \in 1..(Len(b) - 1) : u[i + 1] = d[i]
    BY <1>1
  <1>3. b = u
    <2>1. \A i \in 1..Len(b) : b[i] = u[i]
      <3> SUFFICES ASSUME NEW i \in 1..Len(b) PROVE b[i] = u[i]
        OBVIOUS
      <3>1. CASE i = 1
        BY <1>2, <3>1 DEF c
      <3>2. CASE i # 1
        <4>1. i - 1 \in 1..(Len(b) - 1) /\ i = (i - 1) + 1
          BY <3>2
        <4> QED
          BY <1>1, <1>2, <4>1
      <3> QED
        BY <3>1, <3>2
    <2> HIDE DEF u
    <2> QED
      BY <1>2, <2>1, SameText
  <1>4. Append(a, c) \in Seq(Char) /\ Append(a, c) = a \o <<c>> /\ <<c>> \in Seq(Char)
    BY <1>1, AppendIsConcat
  <1>5. (a \o <<c>>) \o d = a \o (<<c>> \o d)
    <2>1. EitherEnd(a, <<c>>, d)
      BY <1>1, <1>4, Grouped
    <2> QED
      BY <2>1, Zenon DEF EitherEnd
  <1>6. v = w
    BY <1>3, <1>4, <1>5, Zenon
  <1> QED
    BY <1>1, <1>3, <1>4, <1>6, Zenon DEF u, v, w

(* Two characters of a text. *)
LEMMA TwoAt ==
  ASSUME NEW S, NEW s \in Seq(S), NEW i \in Nat, i + 2 <= Len(s)
  PROVE  SubSeq(s, i + 1, i + 2) = <<s[i + 1], s[i + 2]>>
PROOF
  <1> DEFINE v == SubSeq(s, i + 1, i + 2)
             u == <<s[i + 1], s[i + 2]>>
  <1>1. v \in Seq(S) /\ Len(v) = 2 /\ v[1] = s[i + 1] /\ v[2] = s[i + 2]
    OBVIOUS
  <1>2. u \in Seq(S) /\ Len(u) = 2 /\ u[1] = s[i + 1] /\ u[2] = s[i + 2]
    OBVIOUS
  <1> HIDE DEF u, v
  <1>3. \A k \in 1..Len(u) : v[k] = u[k]
    BY <1>1, <1>2
  <1>4. v = u
    BY <1>1, <1>2, <1>3, SameText
  <1> QED
    BY <1>4 DEF u, v

(* What is read where the link of a first part ends is the rest.           *)
LEMMA ReadThrough ==
  ASSUME NEW t \in Seq(Char), NEW f, Reading(encodeHashComponent(t), f)
  PROVE  f[1] = t
PROOF
  <1> DEFINE s    == encodeHashComponent(t)
             E(x) == encodeHashComponent(x)
             All(k) == \A a, b \in Seq(Char) : a \o b = t /\ Len(b) = k => f[Len(E(a)) + 1] = b
             P == {k \in Nat : All(k)}
  <1>0. /\ E(<< >>) = << >> /\ Len(s) \in Nat
        /\ \A a \in Seq(Char) : E(a) \in Seq(Mark) /\ Len(E(a)) \in Nat
    <2>1. \A a \in Seq(Char) : E(a) \in Seq(Mark)
      BY EncodeSlashFree
    <2> QED
      BY <2>1, EncodeAppend
  <1>1. \A a, b \in Seq(Char) : a \o b \in Seq(Char) /\ E(a \o b) = E(a) \o E(b)
    <2>1. \A a \in Seq(Char) : a \in Seq(Mark)
      BY DEF Mark
    <2> QED
      BY <2>1, EncodeJoined, ConcatProperties
  <1>2. \A i \in 1..(Len(s) + 3) : f[i] = Read(s, f, i)
    BY Zenon DEF Reading
  <1> HIDE DEF E
  <1>3. All(0)
    <2> SUFFICES ASSUME NEW a \in Seq(Char), NEW b \in Seq(Char), a \o b = t, Len(b) = 0
                 PROVE  f[Len(E(a)) + 1] = b
      OBVIOUS
    <2>1. b = << >> /\ a = t
      BY ConcatEmptySeq
    <2>2. Len(s) + 1 \in 1..(Len(s) + 3) /\ Len(s) + 1 > Len(s)
      BY <1>0
    <2>3. f[Len(s) + 1] = << >>
      BY <1>2, <2>2, Zenon DEF Read
    <2> QED
      BY <2>1, <2>3 DEF E
  <1>4. ASSUME NEW k \in Nat, All(k) PROVE All(k + 1)
    <2> SUFFICES ASSUME NEW a \in Seq(Char), NEW b \in Seq(Char), a \o b = t, Len(b) = k + 1
                 PROVE  f[Len(E(a)) + 1] = b
      OBVIOUS
    <2>0. Len(b) >= 1
      OBVIOUS
    <2>1. PICK c \in Char, d \in Seq(Char) :
            /\ Len(d) = Len(b) - 1 /\ b = <<c>> \o d
            /\ Append(a, c) \in Seq(Char) /\ Append(a, c) \o d = a \o b
      BY <2>0, MoveOne, Zenon
    <2> DEFINE e == Append(a, c)
               i == Len(E(a)) + 1
    <2>7. /\ Len(d) = k /\ b = <<c>> \o d /\ e \in Seq(Char) /\ e \o d = a \o b
      BY <2>1
    <2>2. f[Len(E(e)) + 1] = d
      BY <1>4, <2>7
    <2>3. /\ E(e) = E(a) \o Escaped(c) /\ Escaped(c) \in Seq(Mark)
          /\ s = E(e) \o E(d)
      <3>1. E(e) = E(a) \o Escaped(c) /\ Escaped(c) \in Seq(Mark)
        BY <2>1, <2>7, EncodeAppend DEF E
      <3>2. E(e \o d) = E(e) \o E(d) /\ e \o d = t
        BY <1>1, <2>1, <2>7
      <3> QED
        BY <3>1, <3>2, Zenon DEF E
    <2>4. /\ E(a) \in Seq(Mark) /\ E(e) \in Seq(Mark) /\ E(d) \in Seq(Mark)
      BY <1>0, <2>1, <2>7
    <2>5. CASE c \notin DOMAIN Code
      <3>1. Escaped(c) = <<c>> /\ c # "." /\ c # "%"
        BY <2>1, <2>7, <2>5, EscapedShape, Codes
      <3>2. Len(E(e)) = i /\ s[i] = c /\ i \in 1..Len(s) /\ Len(s) \in Nat
        <4> HIDE DEF e, s
        <4>1. Len(E(e)) = i /\ E(e)[i] = c
          BY <2>3, <2>4, <3>1
        <4> QED
          BY <2>3, <2>4, <4>1
      <3>3. f[i] = Read(s, f, i) /\ ~(i > Len(s))
        BY <1>2, <3>2
      <3>4. f[i] = <<c>> \o f[i + 1]
        BY <3>1, <3>2, <3>3 DEF Read
      <3> QED
        BY <2>1, <2>7, <2>2, <3>2, <3>4
    <2>6. CASE c \in DOMAIN Code
      <3>1. PICK x \in Digit, y \in Digit : Code[c] = <<x, y>> /\ Escaped(c) = <<".", x, y>>
        BY <2>6, EscapedShape
      <3>2. /\ Len(E(e)) = i + 2 /\ s[i] = "." /\ SubSeq(s, i + 1, i + 2) = <<x, y>>
            /\ i \in 1..Len(s) /\ Len(s) \in Nat
        <4> HIDE DEF e, s
        <4>1. Len(E(e)) = i + 2 /\ E(e)[i] = "." /\ E(e)[i + 1] = x /\ E(e)[i + 2] = y
          BY <2>3, <2>4, <3>1
        <4>2. /\ s \in Seq(Mark) /\ Len(s) >= i + 2 /\ s[i] = "." /\ s[i + 1] = x /\ s[i + 2] = y
              /\ i \in Nat /\ i >= 1
          BY <2>3, <2>4, <4>1
        <4>3. SubSeq(s, i + 1, i + 2) = <<x, y>>
          BY <4>2, TwoAt
        <4> QED
          BY <4>1, <4>2, <4>3
      <3>3. f[i] = Read(s, f, i) /\ ~(i > Len(s))
        BY <1>2, <3>2
      <3>4. f[i] = <<Decoded(<<x, y>>)>> \o f[i + 3]
        BY <3>2, <3>3 DEF Read
      <3>5. Decoded(<<x, y>>) = c
        BY <2>6, <3>1, DecodedBack
      <3>6. i + 3 = (i + 2) + 1
        BY <3>2
      <3> QED
        BY <2>1, <2>7, <2>2, <3>2, <3>4, <3>5, <3>6, Zenon
    <2> QED
      BY <2>5, <2>6
  <1>5. \A k \in Nat : k \in P
    <2> HIDE DEF All
    <2>1. 0 \in P /\ \A k \in Nat : k \in P => k + 1 \in P
      BY <1>3, <1>4
    <2> HIDE DEF P
    <2> QED
      BY <2>1, Counting
  <1>6. All(Len(t))
    <2> HIDE DEF All
    <2> QED
      BY <1>5
  <1>7. << >> \in Seq(Char) /\ << >> \o t = t
    BY ConcatEmptySeq
  <1>8. f[Len(E(<< >>)) + 1] = t
    BY <1>6, <1>7, Zenon
  <1> QED
    BY <1>0, <1>8

(* The trackback link of a message opens its topic.                        *)
LEMMA LinkOpens ==
  ASSUME NEW s \in Stream, NEW t \in Seq(Char)
  PROVE  Decode(Segment(messageURL(s, t), 5)) = t
PROOF
  <1> DEFINE e == encodeHashComponent(t)
  <1>1. e \in Seq(Mark) /\ SlashFree(e)
    BY EncodeSlashFree
  <1> HIDE DEF e
  <1>2. Segment(messageURL(s, t), 5) = e
    BY <1>1, TopicSegment DEF e
  <1>3. PICK f : Reading(e, f) /\ Decode(e) = f[1]
    BY <1>1, DecodeReading
  <1>4. f[1] = t
    BY <1>3, ReadThrough DEF e
  <1> QED
    BY <1>2, <1>3, <1>4

-----------------------------------------------------------------------------
(* The theorems: topics and messages are what users type. *)

LEMMA TopicType == Spec => []TypeOK
PROOF
  <1>1. Init => TypeOK
    BY DEF Init, NameInit, TypeOK
  <1>2. TypeOK /\ [Next]_vars => TypeOK'
    <2> SUFFICES ASSUME TypeOK, [Next]_vars
                 PROVE  TypeOK'
      OBVIOUS
    <2>1. CASE Clear
      BY <2>1 DEF Clear, TypeOK
    <2>2. ASSUME NEW c \in Char, Type(c)
          PROVE  TypeOK'
      BY <2>2 DEF Type, TypeOK
    <2>3. CASE UNCHANGED topic
      BY <2>3 DEF TypeOK
    <2> QED
      BY <2>1, <2>2, <2>3 DEF Next, NameStep, Forget, Publish, vars
  <1> QED
    BY <1>1, <1>2, PTL DEF Spec

(* A conversation is found again from its key in every state: comments     *)
(* are posted to the conversation that was bound, never to another one     *)
(* (state.go:26-41).                                                       *)
THEOREM KeysAreFaithful == Spec => []KeyRoundTrip
PROOF
  <1>1. TypeOK => KeyRoundTrip
    BY ParsedBack DEF KeyRoundTrip, TypeOK
  <1> QED
    BY <1>1, TopicType, PTL

(* A request to unbind a conversation unbinds that one, whatever slashes   *)
(* its topic begins with or has inside, unless the topic ends in a slash   *)
(* (admin.go:128-143).                                                     *)
THEOREM UnbindingFindsItsTopic == Spec => []UnbindsInnerSlashes
PROOF
  <1>1. TypeOK => UnbindsInnerSlashes
    BY UnboundIsBound DEF UnbindsInnerSlashes, TypeOK, DeleteMapping
  <1> QED
    BY <1>1, TopicType, PTL

(* A message that was sent to Graft is recognised when Graft lists it,     *)
(* whatever separators it has and wherever it was cut, unless the cut is   *)
(* in a gap that begins in the hashed part (bridge.go:322-332, 351).       *)
THEOREM EchoesAreRecognised == Spec => []EchoRecognised
PROOF
  <1>1. TypeOK => EchoRecognised
    <2> SUFFICES ASSUME TypeOK, ReadsOn(Content(topic))
                 PROVE  hashContent(splitKind(Republished(Content(topic))).summary)
                          = hashContent(Content(topic))
      BY DEF EchoRecognised
    <2>1. /\ Content(topic) \in Seq(Rune) /\ Content(topic) # << >>
          /\ Content(topic)[1] \notin Space
      <3>1. topic \in Seq(Char)
        BY DEF TypeOK
      <3>2. "via" \notin Space
        BY Zenon DEF Space, Blank
      <3> QED
        BY <3>1, <3>2, SentText
    <2> QED
      BY <2>1, ComesBackTrimmed, HashComesBack
  <1> QED
    BY <1>1, TopicType, PTL

(* Where the trackback link of a message is decoded, its topic is the one  *)
(* the message was posted to, whatever separators and escapes the topic    *)
(* has: no trackback leads to another topic (bridge.go:434-454).           *)
THEOREM TrackbacksOpenTheirTopic == Spec => []TrackbackOpensTopic
PROOF
  <1>1. TypeOK => TrackbackOpensTopic
    BY LinkOpens DEF TypeOK, TrackbackOpensTopic
  <1>2. Spec => []TypeOK
    BY TopicType
  <1> QED
    BY <1>1, <1>2, PTL
=============================================================================
