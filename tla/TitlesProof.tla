----------------------------- MODULE TitlesProof -----------------------------
(***************************************************************************)
(* Titles match by their words, in titles of every length over every set   *)
(* of characters, and a topic finds the first issue published under its    *)
(* words.                                                                  *)
(*                                                                         *)
(* The normal form of a title is computed in one pass over its characters, *)
(* and its words are defined by the places where they begin.  Both are     *)
(* followed from one character to the next (WordsStep, TextStep): what the *)
(* pass has written is the words put together with a space between them    *)
(* (TextTold), and it can be read again (NormalWords).  So each of the two *)
(* determines the other.                                                   *)
(***************************************************************************)
EXTENDS NamesProof

-----------------------------------------------------------------------------
(* The characters of a title. *)

(* Lower case. *)
LEMMA Lowering ==
  /\ \A c \in Mark : lower(c) \in Mark /\ lower(lower(c)) = lower(c)
  /\ \A c \in Space \cup Punctuation : lower(c) = c
PROOF
  <1>1. /\ DOMAIN Lower = {"A", "Issue", "Patch", "Commit"}
        /\ \A c \in DOMAIN Lower : Lower[c] \in {"a", "issue", "patch", "commit"}
    BY DEF Lower
  <1>2. \A c \in DOMAIN Lower : Lower[c] \in Mark /\ Lower[c] \notin DOMAIN Lower
    BY <1>1 DEF Mark
  <1>3. \A c \in Space \cup Punctuation : c \notin DOMAIN Lower
    BY <1>1 DEF Space, Punctuation, Blank
  <1> QED
    BY <1>2, <1>3, Zenon DEF lower

(* ToLower, one character after the other. *)
LEMMA ToLowerAppend ==
  ASSUME NEW s \in Seq(Mark), NEW c \in Mark
  PROVE  /\ ToLower(s) \in Seq(Mark)
         /\ ToLower(Append(s, c)) = Append(ToLower(s), lower(c))
PROOF
  <1> DEFINE n == Len(s)
             t == Append(s, c)
             u == ToLower(s)
             v == Append(u, lower(c))
  <1>1. \A d \in Mark : lower(d) \in Mark
    BY Lowering
  <1>2. /\ n \in Nat /\ t \in Seq(Mark) /\ DOMAIN t = 1..(n + 1) /\ t[n + 1] = c
        /\ \A i \in 1..n : t[i] = s[i]
    OBVIOUS
  <1>3. u = [i \in 1..n |-> lower(s[i])] /\ u \in Seq(Mark)
    BY <1>1 DEF ToLower
  <1>4. ToLower(t) = [i \in 1..(n + 1) |-> lower(t[i])]
    BY <1>2, Zenon DEF ToLower
  <1>5. /\ Len(u) = n /\ \A i \in 1..n : u[i] = lower(s[i])
    BY <1>2, <1>3
  <1>9. lower(c) \in Mark
    BY <1>1
  <1> HIDE DEF n, t, u
  <1>6. /\ v = [i \in 1..(n + 1) |-> v[i]] /\ v[n + 1] = lower(c) /\ \A i \in 1..n : v[i] = u[i]
    BY <1>2, <1>3, <1>5, <1>9
  <1> HIDE DEF v
  <1>7. \A i \in 1..(n + 1) : v[i] = lower(t[i])
    <2> SUFFICES ASSUME NEW i \in 1..(n + 1) PROVE v[i] = lower(t[i])
      OBVIOUS
    <2>1. CASE i = n + 1
      BY <1>2, <1>6, <2>1
    <2>2. CASE i # n + 1
      <3>1. i \in 1..n
        BY <1>2, <2>2
      <3> QED
        BY <1>2, <1>5, <1>6, <3>1
    <2> QED
      BY <2>1, <2>2
  <1>8. ToLower(t) = v
    BY <1>4, <1>6, <1>7
  <1> QED
    BY <1>3, <1>8 DEF t, u, v

Drop == [c \in Punctuation |-> << >>]

(* The characters that count, of a text with one character more. *)
LEMMA KeptAppend ==
  /\ Kept(<< >>) = << >>
  /\ \A s \in Seq(Mark), c \in Mark :
       /\ Kept(s) \in Seq(Mark)
       /\ lower(c) \in Punctuation => Kept(Append(s, c)) = Kept(s)
       /\ lower(c) \notin Punctuation => Kept(Append(s, c)) = Append(Kept(s), lower(c))
PROOF
  <1>1. \A s : Kept(s) = Replace(ToLower(s), Drop)
    BY Zenon DEF Kept, Drop
  <1>2. Table(Drop)
    <2>1. << >> \in Seq(Mark) /\ \A c \in Mark : <<c>> \in Seq(Mark)
      OBVIOUS
    <2> QED
      BY <2>1, Zenon DEF Table, Rep, Drop
  <1>3. Kept(<< >>) = << >>
    <2>1. ToLower(<< >>) = << >>
      BY DEF ToLower
    <2> QED
      BY <1>1, <2>1, ReplaceNone, Zenon
  <1>4. ASSUME NEW s \in Seq(Mark), NEW c \in Mark
        PROVE  /\ Kept(s) \in Seq(Mark)
               /\ lower(c) \in Punctuation => Kept(Append(s, c)) = Kept(s)
               /\ lower(c) \notin Punctuation => Kept(Append(s, c)) = Append(Kept(s), lower(c))
    <2> DEFINE u == ToLower(s)
               d == lower(c)
    <2>1. u \in Seq(Mark) /\ d \in Mark /\ ToLower(Append(s, c)) = Append(u, d)
      BY ToLowerAppend, Lowering
    <2> HIDE DEF u, d
    <2>2. /\ Replace(u, Drop) \in Seq(Mark)
          /\ Replace(Append(u, d), Drop) = Replace(u, Drop) \o Rep(d, Drop)
      BY <1>2, <2>1, ReplaceAppend
    <2>3. d \in Punctuation => Rep(d, Drop) = << >>
      BY Zenon DEF Rep, Drop
    <2>4. d \notin Punctuation => Rep(d, Drop) = <<d>>
      BY Zenon DEF Rep, Drop
    <2>5. /\ Replace(u, Drop) \o << >> = Replace(u, Drop)
          /\ Replace(u, Drop) \o <<d>> = Append(Replace(u, Drop), d)
      BY <2>1, <2>2, ConcatEmptySeq, AppendIsConcat
    <2> QED
      BY <1>1, <2>1, <2>2, <2>3, <2>4, <2>5, Zenon DEF u, d
  <1> QED
    BY <1>3, <1>4

(* The one pass over a title: what is written after each character. *)
Pass(s) == FoldLeft(Written, << >>, s)

(* Written texts are made of marks. *)
LEMMA WrittenType ==
  ASSUME NEW text \in Seq(Mark), NEW c \in Mark
  PROVE  Written(text, c) \in Seq(Mark)
PROOF
  <1>1. Append(text, c) \in Seq(Mark)
    OBVIOUS
  <1>2. Append(text, Blank) \in Seq(Mark)
    <2>1. Blank \in Mark
      BY DEF Mark
    <2> QED
      BY <2>1
  <1> QED
    BY <1>1, <1>2, Zenon DEF Written

(* The pass, one character after the other. *)
LEMMA PassAppend ==
  /\ Pass(<< >>) = << >>
  /\ \A s \in Seq(Mark), c \in Mark :
       Pass(s) \in Seq(Mark) /\ Pass(Append(s, c)) = Written(Pass(s), c)
PROOF
  <1> DEFINE Q    == Seq(Mark)
             step == [p \in Q \X Mark |-> Written(p[1], p[2])]
  <1>1. \A q \in Q, c \in Mark : step[<<q, c>>] = Written(q, c)
    OBVIOUS
  <1>2. Machine(Q, Mark, << >>, step)
    <2>1. \A p \in Q \X Mark : Written(p[1], p[2]) \in Q
      <3>1. \A p \in Q \X Mark : p[1] \in Q /\ p[2] \in Mark
        OBVIOUS
      <3> QED
        BY <3>1, WrittenType, Zenon
    <2>2. step \in [Q \X Mark -> Q]
      BY <2>1, Zenon
    <2>3. << >> \in Q
      OBVIOUS
    <2> QED
      BY <2>2, <2>3, Zenon DEF Machine
  <1> HIDE DEF step
  <1>3. ASSUME NEW s \in Seq(Mark) PROVE Pass(s) = Result(<< >>, step, s)
    <2> DEFINE n == Len(s)
               Body(f) == [u \in SUBSET DOMAIN s |->
                             IF u = {} THEN << >> ELSE Written(f[u \ {Max(u)}], s[Max(u)])]
               iter == CHOOSE f : f = Body(f)
    <2>1. Pass(s) = iter[DOMAIN s]
      BY Zenon DEF Pass, FoldLeft, MapThenFoldSet
    <2>2. n \in Nat /\ DOMAIN s = 1..n /\ \A i \in 1..n : s[i] \in Mark
      OBVIOUS
    <2>3. \E f : f = Body(f)
      <3>1. HasFold(Q, << >>, step, s, n)
        <4> HIDE DEF n
        <4> QED
          BY <1>2, <2>2, FoldExists DEF Machine
      <3>2. PICK f \in [SUBSET (1..n) -> Q] : Fold(f, << >>, step, s, n)
        BY <3>1 DEF HasFold
      <3> HIDE DEF n
      <3>3. ASSUME NEW u \in SUBSET (1..n), u # {}
            PROVE  f[u] = Written(f[u \ {Max(u)}], s[Max(u)])
        <4>1. Max(u) \in 1..n
          BY <2>2, <3>3, Greatest
        <4>2. f[u \ {Max(u)}] \in Q /\ s[Max(u)] \in Mark
          <5>1. u \ {Max(u)} \in SUBSET (1..n)
            OBVIOUS
          <5> QED
            BY <2>2, <3>2, <4>1, <5>1
        <4>3. f[u] = step[<<f[u \ {Max(u)}], s[Max(u)]>>]
          BY <3>2, <3>3, Zenon DEF Fold
        <4> QED
          BY <1>1, <4>2, <4>3, Zenon
      <3>4. f[{}] = << >>
        BY <3>2 DEF Fold
      <3>5. f = Body(f)
        <4>1. f = [u \in SUBSET (1..n) |-> f[u]]
          BY <3>2
        <4>2. \A u \in SUBSET (1..n) :
                f[u] = IF u = {} THEN << >> ELSE Written(f[u \ {Max(u)}], s[Max(u)])
          BY <3>3, <3>4, Zenon
        <4> QED
          BY <2>2, <4>1, <4>2, Zenon
      <3> QED
        BY <3>5
    <2>4. iter = Body(iter)
      <3> HIDE DEF Body
      <3> QED
        BY <2>3
    <2> HIDE DEF iter
    <2>5. \A u \in SUBSET (1..n) :
            iter[u] = IF u = {} THEN << >> ELSE Written(iter[u \ {Max(u)}], s[Max(u)])
      BY <2>2, <2>4, Zenon
    <2>6. PICK r : Run(r, << >>, step, s) /\ Result(<< >>, step, s) = r[Len(s)]
      BY <1>2, ResultRun
    <2>7. \A k \in Nat : k <= n => r[k] \in Q
      BY <1>2, <2>6, RunsAgree
    <2> DEFINE P == {k \in Nat : k <= n => iter[1..k] = r[k]}
    <2>8. 0 \in P
      <3>1. 1..0 = {} /\ {} \in SUBSET (1..n)
        OBVIOUS
      <3>2. iter[{}] = << >>
        BY <2>5, <3>1, Zenon
      <3>3. r[0] = << >>
        BY <2>6 DEF Run
      <3> QED
        BY <3>1, <3>2, <3>3
    <2>9. ASSUME NEW k \in Nat, k \in P PROVE k + 1 \in P
      <3> SUFFICES ASSUME k + 1 <= n PROVE iter[1..(k + 1)] = r[k + 1]
        OBVIOUS
      <3> DEFINE j == k + 1
      <3>1. j \in 1..n /\ j - 1 = k /\ iter[1..k] = r[k] /\ r[k] \in Q
        BY <2>2, <2>7, <2>9
      <3> HIDE DEF j, n
      <3>2. 1..j \in SUBSET (1..n) /\ 1..j # {} /\ Max(1..j) = j /\ (1..j) \ {j} = 1..(j - 1)
        BY <2>2, <3>1, UpTo
      <3>3. iter[1..j] = Written(iter[1..k], s[j])
        BY <2>5, <3>1, <3>2, Zenon
      <3>4. r[j] = step[<<r[k], s[j]>>]
        BY <2>6, <3>1 DEF Run, n
      <3>5. s[j] \in Mark
        BY <2>2, <3>1
      <3> QED
        BY <1>1, <3>1, <3>3, <3>4, <3>5, Zenon DEF j
    <2>10. iter[1..n] = r[n]
      <3> HIDE DEF P
      <3>1. n \in P
        BY <2>2, <2>8, <2>9, Counting
      <3> QED
        BY <2>2, <3>1 DEF P
    <2> QED
      BY <2>1, <2>2, <2>6, <2>10, Zenon
  <1>4. Result(<< >>, step, << >>) = << >>
    BY <1>2, ResultNone, Zenon
  <1>5. ASSUME NEW s \in Seq(Mark), NEW c \in Mark
        PROVE  /\ Result(<< >>, step, s) \in Seq(Mark)
               /\ Result(<< >>, step, Append(s, c)) = step[<<Result(<< >>, step, s), c>>]
    BY <1>2, ResultAppend
  <1>6. << >> \in Seq(Mark) /\ \A s \in Seq(Mark), c \in Mark : Append(s, c) \in Seq(Mark)
    OBVIOUS
  <1>7. Pass(<< >>) = << >>
    BY <1>3, <1>4, <1>6, Zenon
  <1>8. ASSUME NEW s \in Seq(Mark), NEW c \in Mark
        PROVE  Pass(s) \in Seq(Mark) /\ Pass(Append(s, c)) = Written(Pass(s), c)
    <2>1. Pass(s) = Result(<< >>, step, s) /\ Append(s, c) \in Seq(Mark)
      BY <1>3, <1>6
    <2>2. Pass(Append(s, c)) = Result(<< >>, step, Append(s, c))
      BY <1>3, <2>1
    <2> QED
      BY <1>1, <1>5, <2>1, <2>2, Zenon
  <1> QED
    BY <1>7, <1>8

-----------------------------------------------------------------------------
(* Words and where they begin. *)

(* The first n numbers, in their order, to all of S. *)
Enumerates(p, n, S) ==
  /\ p \in [1..n -> S]
  /\ \A i \in S : \E k \in 1..n : p[k] = i
  /\ \A i, j \in 1..n : i < j => p[i] < p[j]

(* There is one way only to put numbers in their order. *)
LEMMA OneOrder ==
  ASSUME NEW S, S \subseteq Nat, NEW n \in Nat, NEW p, Enumerates(p, n, S),
         NEW f, Enumerates(f, n, S)
  PROVE  f = p
PROOF
  <1> DEFINE P == {k \in Nat : \A i \in 1..n : i <= k => f[i] = p[i]}
  <1>0. /\ p \in [1..n -> S] /\ f \in [1..n -> S]
        /\ \A i \in 1..n : p[i] \in Nat /\ f[i] \in Nat
    BY DEF Enumerates
  <1>1. 0 \in P
    OBVIOUS
  <1>2. ASSUME NEW k \in Nat, k \in P PROVE k + 1 \in P
    <2> SUFFICES ASSUME k + 1 \in 1..n PROVE f[k + 1] = p[k + 1]
      BY <1>2
    <2>1. PICK a \in 1..n : p[a] = f[k + 1]
      BY <1>0 DEF Enumerates
    <2>2. PICK b \in 1..n : f[b] = p[k + 1]
      BY <1>0 DEF Enumerates
    <2>3. ~(a < k + 1)
      <3> SUFFICES ASSUME a < k + 1 PROVE FALSE
        OBVIOUS
      <3>1. f[a] = p[a]
        BY <1>2
      <3>2. f[a] < f[k + 1]
        BY DEF Enumerates
      <3> QED
        BY <1>0, <2>1, <3>1, <3>2
    <2>4. ~(b < k + 1)
      <3> SUFFICES ASSUME b < k + 1 PROVE FALSE
        OBVIOUS
      <3>1. f[b] = p[b]
        BY <1>2
      <3>2. p[b] < p[k + 1]
        BY DEF Enumerates
      <3> QED
        BY <1>0, <2>2, <3>1, <3>2
    <2>5. a = k + 1 \/ p[k + 1] < p[a]
      BY <2>3 DEF Enumerates
    <2>6. b = k + 1 \/ f[k + 1] < f[b]
      BY <2>4 DEF Enumerates
    <2> QED
      BY <1>0, <2>1, <2>2, <2>5, <2>6
  <1>3. n \in P
    <2> HIDE DEF P
    <2> QED
      BY <1>1, <1>2, Counting
  <1> QED
    BY <1>0, <1>3

(* Whatever puts the numbers of a set in order is what Ascending           *)
(* chooses.                                                                *)
LEMMA AscendingIs ==
  ASSUME NEW S, S \subseteq Nat, NEW n \in Nat, NEW p, Enumerates(p, n, S)
  PROVE  Ascending(S) = p
PROOF
  <1>0. p \in [1..n -> S] /\ \A i \in 1..n : p[i] \in Nat
    BY DEF Enumerates
  <1>1. p \in Bijection(1..n, S)
    <2>1. \A i, j \in 1..n : p[i] = p[j] => i = j
      <3> SUFFICES ASSUME NEW i \in 1..n, NEW j \in 1..n, p[i] = p[j] PROVE i = j
        OBVIOUS
      <3>1. /\ i < j => p[i] < p[j]
            /\ j < i => p[j] < p[i]
        BY DEF Enumerates
      <3> QED
        BY <1>0, <3>1
    <2> QED
      BY <1>0, <2>1 DEF Enumerates, Bijection, Injection, Surjection, IsInjective
  <1>2. IsFiniteSet(S) /\ Cardinality(S) = n
    BY <1>1, FS_NatBijection, FS_CountingElements DEF ExistsBijection
  <1>3. IsFiniteSet(1..n) /\ Cardinality(1..n) = n
    BY FS_Interval
  <1> DEFINE Up(f) == f \in [1..n -> S] /\ \A i, j \in DOMAIN f : i < j => f[i] < f[j]
  <1>4. Up(p)
    BY <1>0 DEF Enumerates
  <1>5. ASSUME NEW f, Up(f) PROVE f = p
    <2>1. \A i \in 1..n : f[i] \in Nat
      BY <1>5
    <2>2. \A i, j \in 1..n : f[i] = f[j] => i = j
      <3> SUFFICES ASSUME NEW i \in 1..n, NEW j \in 1..n, f[i] = f[j] PROVE i = j
        OBVIOUS
      <3>1. /\ i < j => f[i] < f[j]
            /\ j < i => f[j] < f[i]
        BY <1>5
      <3> QED
        BY <2>1, <3>1
    <2>3. f \in Injection(1..n, S)
      BY <1>5, <2>2 DEF Injection, IsInjective
    <2>4. f \in Surjection(1..n, S)
      BY <1>2, <1>3, <2>3, FS_Injection
    <2>5. Enumerates(f, n, S)
      BY <1>5, <2>4 DEF Enumerates, Surjection
    <2> QED
      BY <2>5, OneOrder
  <1>6. Ascending(S) = CHOOSE f : Up(f)
    <2>1. Ascending(S) = CHOOSE f \in [1..n -> S] : \A i, j \in DOMAIN f : i < j => f[i] < f[j]
      BY <1>2, Zenon DEF Ascending
    <2> QED
      BY <2>1
  <1> HIDE DEF Up
  <1> QED
    BY <1>4, <1>5, <1>6

(* The text ends between two words: it is empty or has a space at its end. *)
Between(text) == Len(text) = 0 \/ text[Len(text)] \in Space

(* The places of a text with one character more. *)
LEMMA OneMore ==
  ASSUME NEW text \in Seq(Mark), NEW c \in Mark, NEW more, more = Append(text, c)
  PROVE  /\ more \in Seq(Mark) /\ Len(text) \in Nat /\ Len(more) = Len(text) + 1
         /\ DOMAIN more = 1..(Len(text) + 1) /\ DOMAIN text = 1..Len(text)
         /\ more[Len(text) + 1] = c /\ \A i \in 1..Len(text) : more[i] = text[i]
PROOF
  OBVIOUS

(* A character that is no space begins a word after a gap; nothing else    *)
(* does.                                                                   *)
LEMMA StartsAppend ==
  ASSUME NEW text \in Seq(Mark), NEW c \in Mark, NEW more, more = Append(text, c)
  PROVE  /\ Starts(text) \subseteq 1..Len(text)
         /\ c \notin Space /\ Between(text) => Starts(more) = Starts(text) \cup {Len(text) + 1}
         /\ ~(c \notin Space /\ Between(text)) => Starts(more) = Starts(text)
PROOF
  <1> DEFINE n == Len(text)
  <1>1. /\ n \in Nat /\ DOMAIN more = 1..(n + 1) /\ DOMAIN text = 1..n
        /\ more[n + 1] = c /\ \A i \in 1..n : more[i] = text[i]
    BY OneMore
  <1> HIDE DEF n
  <1>2. /\ Starts(text) = {i \in 1..n : text[i] \notin Space /\ (i = 1 \/ text[i - 1] \in Space)}
        /\ Starts(more) = {i \in 1..(n + 1) : more[i] \notin Space /\ (i = 1 \/ more[i - 1] \in Space)}
    BY <1>1, Zenon DEF Starts
  <1>3. \A i \in 1..n : i \in Starts(more) <=> i \in Starts(text)
    <2> SUFFICES ASSUME NEW i \in 1..n PROVE i \in Starts(more) <=> i \in Starts(text)
      OBVIOUS
    <2>1. i \in 1..(n + 1) /\ more[i] = text[i]
      BY <1>1
    <2>2. i # 1 => more[i - 1] = text[i - 1]
      <3>1. i # 1 => i - 1 \in 1..n
        BY <1>1
      <3> QED
        BY <1>1, <3>1
    <2> QED
      BY <1>2, <2>1, <2>2
  <1>4. n + 1 \in Starts(more) <=> c \notin Space /\ Between(text)
    <2>1. n + 1 \in 1..(n + 1) /\ (n + 1) - 1 = n /\ (n + 1 = 1 <=> n = 0)
      BY <1>1
    <2>2. n # 0 => more[n] = text[n]
      <3>1. n # 0 => n \in 1..n
        BY <1>1
      <3> QED
        BY <1>1, <3>1
    <2>3. n + 1 \in Starts(more) <=> c \notin Space /\ (n = 0 \/ more[n] \in Space)
      <3>1. n + 1 \in Starts(more)
              <=> more[n + 1] \notin Space /\ (n + 1 = 1 \/ more[(n + 1) - 1] \in Space)
        BY <1>2, <2>1
      <3> QED
        BY <1>1, <2>1, <3>1
    <2> QED
      BY <2>2, <2>3 DEF Between, n
  <1>5. Starts(text) \subseteq 1..n /\ Starts(more) \subseteq 1..(n + 1)
    BY <1>2
  <1>6. 1..(n + 1) = 1..n \cup {n + 1}
    BY <1>1
  <1>7. n + 1 \notin 1..n
    BY <1>1
  <1> QED
    <2>1. \A i \in 1..(n + 1) : i = n + 1 \/ i \in 1..n
      BY <1>6
    <2> QED
      BY <1>3, <1>4, <1>5, <1>7, <2>1 DEF n

(* The word at a place of a text with one character more. *)
LEMMA WordAtAppend ==
  ASSUME NEW text \in Seq(Mark), NEW c \in Mark, NEW more, more = Append(text, c),
         NEW i \in 1..Len(text)
  PROVE  /\ WordAt(text, i) \in Seq(Mark)
         /\ c \in Space \/ (\E j \in i..Len(text) : text[j] \in Space)
              => WordAt(more, i) = WordAt(text, i)
         /\ c \notin Space /\ (\A j \in i..Len(text) : text[j] \notin Space)
              => WordAt(more, i) = Append(WordAt(text, i), c)
PROOF
  <1> DEFINE n     == Len(text)
             ends  == {j \in i..n : text[j] \in Space}
             ends2 == {j \in i..(n + 1) : more[j] \in Space}
  <1>1. /\ n \in Nat /\ more \in Seq(Mark) /\ Len(more) = n + 1
        /\ more[n + 1] = c /\ \A k \in 1..n : more[k] = text[k]
    BY OneMore
  <1> HIDE DEF n
  <1>2. /\ WordAt(text, i) = SubSeq(text, i, IF ends = {} THEN n ELSE Min(ends) - 1)
        /\ WordAt(more, i) = SubSeq(more, i, IF ends2 = {} THEN n + 1 ELSE Min(ends2) - 1)
    BY <1>1, Zenon DEF WordAt, n
  <1>3. \A m \in (i - 1)..n : SubSeq(more, i, m) = SubSeq(text, i, m) /\ SubSeq(text, i, m) \in Seq(Mark)
    <2> SUFFICES ASSUME NEW m \in (i - 1)..n
                 PROVE  SubSeq(more, i, m) = SubSeq(text, i, m) /\ SubSeq(text, i, m) \in Seq(Mark)
      OBVIOUS
    <2> DEFINE u == SubSeq(more, i, m)
               v == SubSeq(text, i, m)
    <2>1. u \in Seq(Mark) /\ Len(u) = m - i + 1 /\ \A k \in 1..(m - i + 1) : u[k] = more[i + k - 1]
      BY <1>1 DEF n
    <2>2. v \in Seq(Mark) /\ Len(v) = m - i + 1 /\ \A k \in 1..(m - i + 1) : v[k] = text[i + k - 1]
      BY <1>1 DEF n
    <2>3. \A k \in 1..(m - i + 1) : i + k - 1 \in 1..n
      BY <1>1
    <2> HIDE DEF u, v
    <2>5. \A k \in 1..(m - i + 1) : u[k] = v[k]
      BY <1>1, <2>1, <2>2, <2>3
    <2>4. u = v
      BY <2>1, <2>2, <2>5, SameText
    <2> QED
      BY <2>2, <2>4 DEF u, v
  <1>4. i \in 1..n /\ n \in (i - 1)..n
    BY <1>1 DEF n
  <1>5. \A j \in i..n : j \in ends2 <=> j \in ends
    BY <1>1, <1>4
  <1>6. n + 1 \in ends2 <=> c \in Space
    BY <1>1, <1>4
  <1>7. \A j \in i..(n + 1) : j = n + 1 \/ j \in i..n
    BY <1>1, <1>4
  <1>8. /\ ends \subseteq i..n /\ ends2 \subseteq i..(n + 1) /\ ends \subseteq Nat /\ ends2 \subseteq Nat
        /\ ends \subseteq 1..n
    BY <1>1, <1>4
  <1>9. ends = {} <=> \A j \in i..n : text[j] \notin Space
    OBVIOUS
  <1> HIDE DEF ends, ends2
  <1>10. CASE ends # {}
    <2>1. PICK m \in ends : \A k \in ends : m <= k
      BY <1>8, <1>10, Least
    <2>2. m \in ends2 /\ \A k \in ends2 : m <= k
      BY <1>1, <1>5, <1>7, <1>8, <2>1
    <2>3. Min(ends) = m /\ Min(ends2) = m
      BY <1>8, <2>1, <2>2, Extremes
    <2>4. m - 1 \in (i - 1)..n
      BY <1>1, <1>4, <1>8, <2>1
    <2>5. WordAt(text, i) = SubSeq(text, i, m - 1) /\ WordAt(more, i) = SubSeq(more, i, m - 1)
      BY <1>2, <1>10, <2>2, <2>3
    <2> QED
      BY <1>3, <1>9, <1>10, <2>4, <2>5 DEF n
  <1>11. CASE ends = {} /\ c \in Space
    <2>1. n + 1 \in ends2 /\ \A k \in ends2 : n + 1 <= k
      BY <1>1, <1>5, <1>6, <1>7, <1>8, <1>11
    <2>2. Min(ends2) = n + 1
      BY <1>8, <2>1, Extremes
    <2>3. WordAt(text, i) = SubSeq(text, i, n) /\ WordAt(more, i) = SubSeq(more, i, n)
      <3>1. (n + 1) - 1 = n
        BY <1>1
      <3> QED
        BY <1>2, <1>11, <2>1, <2>2, <3>1
    <2> QED
      BY <1>3, <1>4, <1>11, <2>3
  <1>12. CASE ends = {} /\ c \notin Space
    <2>1. ends2 = {}
      BY <1>5, <1>6, <1>7, <1>8, <1>12
    <2>2. WordAt(text, i) = SubSeq(text, i, n) /\ WordAt(more, i) = SubSeq(more, i, n + 1)
      BY <1>2, <1>12, <2>1
    <2>3. SubSeq(more, i, n + 1) = Append(SubSeq(text, i, n), c)
      <3> DEFINE u == SubSeq(more, i, n + 1)
                 v == SubSeq(text, i, n)
                 w == Append(v, c)
      <3>1. u \in Seq(Mark) /\ Len(u) = n - i + 2 /\ \A k \in 1..(n - i + 2) : u[k] = more[i + k - 1]
        BY <1>1, <1>4
      <3>2. v \in Seq(Mark) /\ Len(v) = n - i + 1 /\ \A k \in 1..(n - i + 1) : v[k] = text[i + k - 1]
        BY <1>1, <1>4 DEF n
      <3> HIDE DEF u, v
      <3>3. /\ w \in Seq(Mark) /\ Len(w) = n - i + 2 /\ w[n - i + 2] = c
            /\ \A k \in 1..(n - i + 1) : w[k] = v[k]
        BY <1>1, <1>4, <3>2
      <3> HIDE DEF w
      <3>4. \A k \in 1..(n - i + 2) : u[k] = w[k]
        <4> SUFFICES ASSUME NEW k \in 1..(n - i + 2) PROVE u[k] = w[k]
          OBVIOUS
        <4>1. CASE k = n - i + 2
          <5>1. i + k - 1 = n + 1
            BY <1>1, <1>4, <4>1
          <5>2. u[k] = c
            BY <1>1, <3>1, <5>1
          <5> QED
            BY <3>3, <4>1, <5>2
        <4>2. CASE k # n - i + 2
          <5>1. k \in 1..(n - i + 1) /\ i + k - 1 \in 1..n
            BY <1>1, <1>4, <4>2
          <5>2. u[k] = text[i + k - 1] /\ w[k] = text[i + k - 1]
            BY <1>1, <3>1, <3>2, <3>3, <5>1
          <5> QED
            BY <5>2
        <4> QED
          BY <4>1, <4>2
      <3>5. u = w
        BY <3>1, <3>3, <3>4, SameText
      <3> QED
        BY <3>5 DEF u, v, w
    <2> QED
      BY <1>3, <1>4, <1>9, <1>12, <2>2, <2>3 DEF n
  <1> QED
    BY <1>10, <1>11, <1>12

(* The last word grows with a character that is no space. *)
LEMMA WordAtEnd ==
  ASSUME NEW text \in Seq(Mark), NEW c \in Mark, c \notin Space,
         NEW more, more = Append(text, c)
  PROVE  WordAt(more, Len(text) + 1) = <<c>>
PROOF
  <1> DEFINE n    == Len(text)
             ends == {j \in (n + 1)..Len(more) : more[j] \in Space}
  <1>1. n \in Nat /\ more \in Seq(Mark) /\ Len(more) = n + 1 /\ more[n + 1] = c
    BY OneMore
  <1> HIDE DEF n
  <1>2. ends = {}
    BY <1>1
  <1>3. WordAt(more, n + 1) = SubSeq(more, n + 1, IF ends = {} THEN Len(more) ELSE Min(ends) - 1)
    BY Zenon DEF WordAt
  <1>4. WordAt(more, n + 1) = SubSeq(more, n + 1, n + 1)
    BY <1>1, <1>2, <1>3, Zenon
  <1>5. SubSeq(more, n + 1, n + 1) = <<c>>
    <2> DEFINE u == SubSeq(more, n + 1, n + 1)
               v == <<c>>
    <2>1. u \in Seq(Mark) /\ Len(u) = 1 /\ u[1] = c
      BY <1>1
    <2>2. v \in Seq(Mark) /\ Len(v) = 1 /\ v[1] = c
      OBVIOUS
    <2> HIDE DEF u, v
    <2>3. \A k \in 1..1 : u[k] = v[k]
      BY <2>1, <2>2
    <2>4. u = v
      BY <2>1, <2>2, <2>3, SameText
    <2> QED
      BY <2>4 DEF u, v
  <1> QED
    BY <1>4, <1>5 DEF n

(* The words of a text begin at the places p. *)
Splits(text, p, ws) ==
  /\ ws \in Seq(Seq(Mark))
  /\ Enumerates(p, Len(ws), Starts(text))
  /\ \A k \in 1..Len(ws) : ws[k] = WordAt(text, p[k])
  /\ ~Between(text) => /\ Len(ws) >= 1
                       /\ \A j \in p[Len(ws)]..Len(text) : text[j] \notin Space

(* The words with one character more: a space changes nothing, any other   *)
(* character begins a word between two words and is added to the last one  *)
(* within a word.                                                          *)
Longer(ws, c) == [k \in 1..Len(ws) |-> IF k = Len(ws) THEN Append(ws[k], c) ELSE ws[k]]

MoreWords(ws, between, c) ==
  IF c \in Space THEN ws ELSE IF between THEN Append(ws, <<c>>) ELSE Longer(ws, c)

(* There are as many words as before. *)
LEMMA LongerType ==
  ASSUME NEW ws \in Seq(Seq(Mark)), NEW c \in Mark
  PROVE  Longer(ws, c) \in Seq(Seq(Mark)) /\ Len(Longer(ws, c)) = Len(ws)
PROOF
  <1>1. Len(ws) \in Nat /\ \A k \in 1..Len(ws) : ws[k] \in Seq(Mark)
    OBVIOUS
  <1>2. \A w \in Seq(Mark) : Append(w, c) \in Seq(Mark)
    OBVIOUS
  <1> QED
    BY <1>1, <1>2 DEF Longer

(* Such words are the words of the text. *)
LEMMA SplitsWords ==
  ASSUME NEW text \in Seq(Mark), NEW p, NEW ws, Splits(text, p, ws)
  PROVE  WordsOf(text) = ws
PROOF
  <1>1. /\ ws = [k \in 1..Len(ws) |-> ws[k]] /\ Len(ws) \in Nat
        /\ \A k \in 1..Len(ws) : ws[k] = WordAt(text, p[k])
    BY DEF Splits
  <1>2. Starts(text) \subseteq Nat
    BY DEF Starts
  <1>3. Ascending(Starts(text)) = p
    BY <1>1, <1>2, AscendingIs DEF Splits
  <1>4. DOMAIN p = 1..Len(ws)
    BY DEF Splits, Enumerates
  <1>5. WordsOf(text) = [k \in 1..Len(ws) |-> WordAt(text, p[k])]
    BY <1>3, <1>4, Zenon DEF WordsOf
  <1> QED
    BY <1>1, <1>5, Zenon

(* Within the last word there is no space; after every other word there is *)
(* one.                                                                    *)
LEMMA SpaceAfter ==
  ASSUME NEW text \in Seq(Mark), NEW p, NEW ws, Splits(text, p, ws),
         NEW k \in 1..Len(ws)
  PROVE  /\ p[k] \in 1..Len(text)
         /\ k # Len(ws) \/ Between(text) => \E j \in p[k]..Len(text) : text[j] \in Space
         /\ k = Len(ws) /\ ~Between(text) => \A j \in p[k]..Len(text) : text[j] \notin Space
PROOF
  <1> DEFINE n == Len(ws)
  <1>1. /\ n \in Nat /\ p \in [1..n -> Starts(text)] /\ \A i, j \in 1..n : i < j => p[i] < p[j]
    BY DEF Splits, Enumerates
  <1>2. /\ Len(text) \in Nat
        /\ \A i \in Starts(text) : /\ i \in 1..Len(text) /\ text[i] \notin Space
                                   /\ i = 1 \/ text[i - 1] \in Space
    BY DEF Starts
  <1>3. p[k] \in 1..Len(text) /\ text[p[k]] \notin Space
    BY <1>1, <1>2
  <1>4. CASE k # n
    <2>1. k + 1 \in 1..n /\ k < k + 1
      BY <1>1, <1>4
    <2>2. p[k] < p[k + 1] /\ p[k + 1] \in Starts(text)
      BY <1>1, <2>1
    <2> DEFINE j == p[k + 1] - 1
    <2>3. p[k + 1] \in 1..Len(text) /\ p[k + 1] # 1 /\ text[j] \in Space
      BY <1>2, <1>3, <2>2
    <2>4. j \in p[k]..Len(text)
      BY <1>2, <1>3, <2>2, <2>3
    <2> QED
      BY <1>3, <1>4, <2>3, <2>4
  <1>5. CASE k = n /\ Between(text)
    <2>1. Len(text) # 0 /\ Len(text) \in p[k]..Len(text)
      BY <1>2, <1>3
    <2>2. text[Len(text)] \in Space
      BY <1>5, <2>1 DEF Between
    <2> QED
      BY <1>3, <1>5, <2>1, <2>2
  <1>6. CASE k = n /\ ~Between(text)
    BY <1>3, <1>6 DEF Splits
  <1> QED
    BY <1>4, <1>5, <1>6

(* Words with one character more. *)
LEMMA SplitsAppend ==
  ASSUME NEW text \in Seq(Mark), NEW c \in Mark, NEW p, NEW ws, Splits(text, p, ws)
  PROVE  \E q : Splits(Append(text, c), q, MoreWords(ws, Between(text), c))
PROOF
  <1> DEFINE more == Append(text, c)
             n    == Len(ws)
             N    == Len(text)
  <1>1. /\ more \in Seq(Mark) /\ N \in Nat /\ Len(more) = N + 1
        /\ more[N + 1] = c /\ \A i \in 1..N : more[i] = text[i]
    BY OneMore
  <1>2. /\ Starts(text) \subseteq 1..N
        /\ c \notin Space /\ Between(text) => Starts(more) = Starts(text) \cup {N + 1}
        /\ ~(c \notin Space /\ Between(text)) => Starts(more) = Starts(text)
    BY StartsAppend
  <1>3. \A i \in 1..N :
          /\ c \in Space \/ (\E j \in i..N : text[j] \in Space) => WordAt(more, i) = WordAt(text, i)
          /\ c \notin Space /\ (\A j \in i..N : text[j] \notin Space)
               => WordAt(more, i) = Append(WordAt(text, i), c)
    <2>1. more = Append(text, c) /\ N = Len(text)
      OBVIOUS
    <2> HIDE DEF more, N, n
    <2> SUFFICES ASSUME NEW i \in 1..N
                 PROVE  /\ c \in Space \/ (\E j \in i..N : text[j] \in Space)
                             => WordAt(more, i) = WordAt(text, i)
                        /\ c \notin Space /\ (\A j \in i..N : text[j] \notin Space)
                             => WordAt(more, i) = Append(WordAt(text, i), c)
      OBVIOUS
    <2>2. /\ c \in Space \/ (\E j \in i..Len(text) : text[j] \in Space)
               => WordAt(more, i) = WordAt(text, i)
          /\ c \notin Space /\ (\A j \in i..Len(text) : text[j] \notin Space)
               => WordAt(more, i) = Append(WordAt(text, i), c)
      <3>1. i \in 1..Len(text)
        BY <2>1
      <3> HIDE DEF N
      <3> QED
        BY <2>1, <3>1, WordAtAppend, ZenonT(40)
    <2> QED
      BY <2>1, <2>2
  <1>4. c \notin Space => WordAt(more, N + 1) = <<c>>
    BY WordAtEnd
  <1>5. \A k \in 1..n :
          /\ p[k] \in 1..N
          /\ k # n \/ Between(text) => \E j \in p[k]..N : text[j] \in Space
          /\ k = n /\ ~Between(text) => \A j \in p[k]..N : text[j] \notin Space
    BY SpaceAfter
  <1>6. /\ ws \in Seq(Seq(Mark)) /\ n \in Nat /\ Enumerates(p, n, Starts(text))
        /\ \A k \in 1..n : ws[k] = WordAt(text, p[k])
        /\ ~Between(text) => n >= 1
    BY DEF Splits
  <1>7. Between(more) <=> c \in Space
    BY <1>1 DEF Between
  <1> HIDE DEF more, N
  <1>8. CASE c \in Space
    <2>1. Starts(more) = Starts(text) /\ \A k \in 1..n : WordAt(more, p[k]) = ws[k]
      BY <1>2, <1>3, <1>5, <1>6, <1>8
    <2>2. Splits(more, p, ws)
      BY <1>6, <1>7, <1>8, <2>1 DEF Splits
    <2> QED
      BY <1>8, <2>2, Zenon DEF MoreWords, more
  <1>9. CASE c \notin Space /\ Between(text)
    <2> DEFINE q  == [k \in 1..(n + 1) |-> IF k = n + 1 THEN N + 1 ELSE p[k]]
               vs == Append(ws, <<c>>)
    <2>1. <<c>> \in Seq(Mark)
      OBVIOUS
    <2> DEFINE w == <<c>>
    <2> HIDE DEF w
    <2>2. /\ Append(ws, w) \in Seq(Seq(Mark)) /\ Len(Append(ws, w)) = n + 1
          /\ Append(ws, w)[n + 1] = w /\ \A k \in 1..n : Append(ws, w)[k] = ws[k]
      BY <1>6, <2>1 DEF w
    <2>3. /\ vs \in Seq(Seq(Mark)) /\ Len(vs) = n + 1
          /\ vs[n + 1] = <<c>> /\ \A k \in 1..n : vs[k] = ws[k]
      BY <2>2 DEF w
    <2>4. /\ q[n + 1] = N + 1 /\ DOMAIN q = 1..(n + 1)
          /\ \A k \in 1..n : q[k] = p[k]
      BY <1>6
    <2> HIDE DEF q, vs, n
    <2>5. \A k \in 1..(n + 1) : k = n + 1 \/ k \in 1..n
      BY <1>6
    <2>6. Enumerates(q, n + 1, Starts(more))
      <3>1. Starts(more) = Starts(text) \cup {N + 1}
        BY <1>2, <1>9
      <3>2. q \in [1..(n + 1) -> Starts(more)]
        <4>1. \A k \in 1..(n + 1) : q[k] \in Starts(more)
          BY <1>6, <2>4, <2>5, <3>1 DEF Enumerates
        <4>2. q = [k \in 1..(n + 1) |-> q[k]]
          BY DEF q
        <4> QED
          BY <4>1, <4>2
      <3>3. \A i \in Starts(more) : \E k \in 1..(n + 1) : q[k] = i
        <4> SUFFICES ASSUME NEW i \in Starts(more) PROVE \E k \in 1..(n + 1) : q[k] = i
          OBVIOUS
        <4>1. CASE i = N + 1
          <5>1. n + 1 \in 1..(n + 1)
            BY <1>6
          <5> QED
            BY <2>4, <4>1, <5>1
        <4>2. CASE i \in Starts(text)
          <5>1. PICK k \in 1..n : p[k] = i
            BY <1>6, <4>2 DEF Enumerates
          <5>2. k \in 1..(n + 1)
            BY <1>6
          <5> QED
            BY <2>4, <5>1, <5>2
        <4> QED
          BY <3>1, <4>1, <4>2
      <3>4. \A i, j \in 1..(n + 1) : i < j => q[i] < q[j]
        <4> SUFFICES ASSUME NEW i \in 1..(n + 1), NEW j \in 1..(n + 1), i < j PROVE q[i] < q[j]
          OBVIOUS
        <4>1. i \in 1..n
          BY <1>6
        <4>2. CASE j = n + 1
          BY <1>1, <1>5, <2>4, <4>1, <4>2
        <4>3. CASE j \in 1..n
          BY <1>6, <2>4, <4>1, <4>3 DEF Enumerates
        <4> QED
          BY <2>5, <4>2, <4>3
      <3> QED
        BY <3>2, <3>3, <3>4 DEF Enumerates
    <2>7. \A k \in 1..(n + 1) : vs[k] = WordAt(more, q[k])
      <3> SUFFICES ASSUME NEW k \in 1..(n + 1) PROVE vs[k] = WordAt(more, q[k])
        OBVIOUS
      <3>1. CASE k = n + 1
        BY <1>4, <1>9, <2>3, <2>4, <3>1, Zenon
      <3>2. CASE k \in 1..n
        BY <1>3, <1>5, <1>6, <1>9, <2>3, <2>4, <3>2
      <3> QED
        BY <2>5, <3>1, <3>2
    <2>8. /\ n + 1 >= 1 /\ \A j \in q[n + 1]..Len(more) : more[j] \notin Space
      BY <1>1, <1>6, <1>9, <2>4
    <2>9. Splits(more, q, vs)
      BY <2>3, <2>6, <2>7, <2>8 DEF Splits
    <2> QED
      BY <1>9, <2>9, Zenon DEF MoreWords, more, vs
  <1>10. CASE c \notin Space /\ ~Between(text)
    <2> DEFINE vs == Longer(ws, c)
    <2>1. Starts(more) = Starts(text)
      BY <1>2, <1>10
    <2>2. /\ vs \in Seq(Seq(Mark)) /\ Len(vs) = n
      BY <1>6, LongerType
    <2>3. \A k \in 1..n : vs[k] = IF k = n THEN Append(ws[k], c) ELSE ws[k]
      BY DEF Longer
    <2> HIDE DEF vs, n
    <2>4. \A k \in 1..n : vs[k] = WordAt(more, p[k])
      BY <1>3, <1>5, <1>6, <1>10, <2>3
    <2>5. \A j \in p[n]..Len(more) : more[j] \notin Space
      <3> SUFFICES ASSUME NEW j \in p[n]..Len(more) PROVE more[j] \notin Space
        OBVIOUS
      <3>1. n \in 1..n /\ p[n] \in 1..N
        BY <1>5, <1>6, <1>10
      <3>2. CASE j = N + 1
        BY <1>1, <1>10, <3>2
      <3>3. CASE j # N + 1
        <4>1. j \in p[n]..N /\ j \in 1..N
          BY <1>1, <3>1, <3>3
        <4>2. text[j] \notin Space
          BY <1>5, <1>10, <3>1, <4>1
        <4> QED
          BY <1>1, <4>1, <4>2
      <3> QED
        BY <3>2, <3>3
    <2>6. Splits(more, p, vs)
      BY <1>6, <1>10, <2>1, <2>2, <2>4, <2>5 DEF Splits
    <2> QED
      BY <1>10, <2>6, Zenon DEF MoreWords, more, vs
  <1> QED
    BY <1>8, <1>9, <1>10

(* The words of a text, one character after the other. *)
LEMMA WordsAppend ==
  /\ WordsOf(<< >>) = << >>
  /\ \A text \in Seq(Mark), c \in Mark :
       /\ WordsOf(text) \in Seq(Seq(Mark))
       /\ ~Between(text) => Len(WordsOf(text)) >= 1
       /\ WordsOf(Append(text, c)) = MoreWords(WordsOf(text), Between(text), c)
PROOF
  <1> DEFINE P == {text \in Seq(Mark) : \E p, ws : Splits(text, p, ws)}
             none == << >>
  <1>1. none \in Seq(Mark) /\ Splits(none, none, none)
    <2>1. none \in Seq(Mark) /\ none \in Seq(Seq(Mark)) /\ Len(none) = 0 /\ none \in [1..0 -> {}]
      OBVIOUS
    <2>2. Starts(none) = {}
      BY <2>1 DEF Starts
    <2>3. Between(none)
      BY <2>1 DEF Between
    <2> HIDE DEF none
    <2> QED
      BY <2>1, <2>2, <2>3 DEF Splits, Enumerates
  <1>2. WordsOf(none) = none
    BY <1>1, SplitsWords, Zenon
  <1>3. << >> \in P
    BY <1>1
  <1>4. ASSUME NEW text \in Seq(Mark), NEW c \in Mark, text \in P PROVE Append(text, c) \in P
    <2>1. PICK p, ws : Splits(text, p, ws)
      BY <1>4
    <2>2. \E q : Splits(Append(text, c), q, MoreWords(ws, Between(text), c))
      BY <2>1, SplitsAppend
    <2>3. Append(text, c) \in Seq(Mark)
      OBVIOUS
    <2> QED
      BY <2>2, <2>3
  <1>5. Seq(Mark) \subseteq P
    <2> HIDE DEF P
    <2> QED
      BY <1>3, <1>4, ByAppending
  <1>6. ASSUME NEW text \in Seq(Mark), NEW c \in Mark
        PROVE  /\ WordsOf(text) \in Seq(Seq(Mark))
               /\ ~Between(text) => Len(WordsOf(text)) >= 1
               /\ WordsOf(Append(text, c)) = MoreWords(WordsOf(text), Between(text), c)
    <2>1. PICK p, ws : Splits(text, p, ws)
      BY <1>5
    <2>2. PICK q : Splits(Append(text, c), q, MoreWords(ws, Between(text), c))
      BY <2>1, SplitsAppend
    <2>3. Append(text, c) \in Seq(Mark)
      OBVIOUS
    <2>4. WordsOf(text) = ws /\ WordsOf(Append(text, c)) = MoreWords(ws, Between(text), c)
      BY <2>1, <2>2, <2>3, SplitsWords, Zenon
    <2>5. ws \in Seq(Seq(Mark)) /\ (~Between(text) => Len(ws) >= 1)
      BY <2>1 DEF Splits
    <2> QED
      BY <2>4, <2>5
  <1> QED
    BY <1>2, <1>6

-----------------------------------------------------------------------------
(* The words of a title and what is written of them. *)

(* A title ends between two words. *)
Gap(s) == Between(Kept(s))

(* The words of a title, one character after the other. *)
LEMMA WordsStep ==
  /\ Words(<< >>) = << >> /\ Gap(<< >>)
  /\ \A s \in Seq(Mark), c \in Mark :
       /\ Words(s) \in Seq(Seq(Mark)) /\ (~Gap(s) => Len(Words(s)) >= 1)
       /\ lower(c) \in Punctuation
            => Words(Append(s, c)) = Words(s) /\ (Gap(Append(s, c)) <=> Gap(s))
       /\ lower(c) \notin Punctuation
            => /\ Words(Append(s, c)) = MoreWords(Words(s), Gap(s), lower(c))
               /\ Gap(Append(s, c)) <=> lower(c) \in Space
PROOF
  <1>1. Words(<< >>) = << >>
    BY KeptAppend, WordsAppend, Zenon DEF Words
  <1>2. Gap(<< >>)
    <2>1. Between(<< >>)
      BY DEF Between
    <2> QED
      BY <2>1, KeptAppend, Zenon DEF Gap
  <1>3. ASSUME NEW s \in Seq(Mark), NEW c \in Mark
        PROVE  /\ Words(s) \in Seq(Seq(Mark)) /\ (~Gap(s) => Len(Words(s)) >= 1)
               /\ lower(c) \in Punctuation
                    => Words(Append(s, c)) = Words(s) /\ (Gap(Append(s, c)) <=> Gap(s))
               /\ lower(c) \notin Punctuation
                    => /\ Words(Append(s, c)) = MoreWords(Words(s), Gap(s), lower(c))
                       /\ Gap(Append(s, c)) <=> lower(c) \in Space
    <2>1. /\ Kept(s) \in Seq(Mark) /\ lower(c) \in Mark
          /\ lower(c) \in Punctuation => Kept(Append(s, c)) = Kept(s)
          /\ lower(c) \notin Punctuation => Kept(Append(s, c)) = Append(Kept(s), lower(c))
      BY KeptAppend, Lowering
    <2> DEFINE k == Kept(s)
               d == lower(c)
    <2> HIDE DEF k, d
    <2>2. k \in Seq(Mark) /\ d \in Mark
      BY <2>1 DEF k, d
    <2>3. /\ WordsOf(k) \in Seq(Seq(Mark)) /\ (~Between(k) => Len(WordsOf(k)) >= 1)
          /\ WordsOf(Append(k, d)) = MoreWords(WordsOf(k), Between(k), d)
      BY <2>2, WordsAppend
    <2>4. Between(Append(k, d)) <=> d \in Space
      BY <2>2 DEF Between
    <2> QED
      BY <2>1, <2>3, <2>4, Zenon DEF k, d, Words, Gap
  <1> QED
    BY <1>1, <1>2, <1>3

(* What has been written after each character of a title. *)
Text(s) == Pass(ToLower(s))

(* What is written, one character after the other. *)
LEMMA TextStep ==
  /\ Text(<< >>) = << >>
  /\ \A s \in Seq(Mark), c \in Mark :
       Text(s) \in Seq(Mark) /\ Text(Append(s, c)) = Written(Text(s), lower(c))
PROOF
  <1>1. ToLower(<< >>) = << >>
    BY DEF ToLower
  <1>2. ASSUME NEW s \in Seq(Mark), NEW c \in Mark
        PROVE  Text(s) \in Seq(Mark) /\ Text(Append(s, c)) = Written(Text(s), lower(c))
    <2>1. /\ ToLower(s) \in Seq(Mark) /\ lower(c) \in Mark
          /\ ToLower(Append(s, c)) = Append(ToLower(s), lower(c))
      BY ToLowerAppend, Lowering
    <2> QED
      BY <2>1, PassAppend, Zenon DEF Text
  <1> QED
    BY <1>1, <1>2, PassAppend, Zenon DEF Text

(* The text that is written has no two spaces together and none at its     *)
(* beginning.                                                              *)
Tidy(v) ==
  Len(v) > 0 => /\ v[1] \notin Space
                /\ v[Len(v)] \in Space => Len(v) >= 2 /\ v[Len(v) - 1] \notin Space

(* What is written of one more character. *)
LEMMA WrittenStep ==
  ASSUME NEW v \in Seq(Mark), NEW c \in Mark
  PROVE  /\ c \in Punctuation => Written(v, c) = v
         /\ c \in Space /\ Between(v) => Written(v, c) = v
         /\ c \in Space /\ ~Between(v) => Written(v, c) = Append(v, c)
         /\ c \notin Space /\ c \notin Punctuation => Written(v, c) = Append(v, c)
PROOF
  <1>1. Between(v) <=> v = << >> \/ Last(v) = Blank
    <2>1. v = << >> <=> Len(v) = 0
      BY EmptySeq
    <2> QED
      BY <2>1 DEF Between, Space, Last
  <1>2. \A d \in Space : d \notin Punctuation /\ d = Blank
    BY DEF Space, Punctuation, Blank
  <1> QED
    BY <1>1, <1>2, Zenon DEF Written

(* The pass keeps the words, and writes no second space (note.go:84-97). *)
LEMMA TextKeeps ==
  ASSUME NEW s \in Seq(Mark)
  PROVE  /\ Text(s) \in Seq(Mark) /\ Words(Text(s)) = Words(s)
         /\ Gap(Text(s)) <=> Gap(s)
         /\ Between(Text(s)) <=> Gap(s)
         /\ Tidy(Text(s))
PROOF
  <1> DEFINE Keeps(t) == /\ Words(Text(t)) = Words(t) /\ (Gap(Text(t)) <=> Gap(t))
                         /\ (Between(Text(t)) <=> Gap(t)) /\ Tidy(Text(t))
             P == {t \in Seq(Mark) : Keeps(t)}
  <1>1. << >> \in P
    <2>1. << >> \in Seq(Mark) /\ Between(<< >>) /\ Tidy(<< >>)
      BY DEF Between, Tidy
    <2> QED
      BY <2>1, TextStep, WordsStep, Zenon
  <1>2. ASSUME NEW t \in Seq(Mark), NEW c \in Mark, t \in P PROVE Append(t, c) \in P
    <2> DEFINE v == Text(t)
               d == lower(c)
               u == Append(t, c)
    <2>0. Keeps(t)
      BY <1>2
    <2>1. /\ u \in Seq(Mark) /\ v \in Seq(Mark) /\ d \in Mark /\ lower(d) = d
          /\ Text(u) = Written(v, d)
      BY TextStep, Lowering
    <2>2. /\ d \in Punctuation => Words(u) = Words(t) /\ (Gap(u) <=> Gap(t))
          /\ d \notin Punctuation => /\ Words(u) = MoreWords(Words(t), Gap(t), d)
                                     /\ Gap(u) <=> d \in Space
      BY WordsStep
    <2> HIDE DEF v, d, u
    <2>3. /\ d \notin Punctuation => /\ Words(Append(v, d)) = MoreWords(Words(v), Gap(v), d)
                                     /\ Gap(Append(v, d)) <=> d \in Space
      BY <2>1, WordsStep
    <2>4. /\ Words(v) = Words(t) /\ (Gap(v) <=> Gap(t)) /\ (Between(v) <=> Gap(t)) /\ Tidy(v)
      BY <2>0 DEF v
    <2>5. d \in Space => d \notin Punctuation
      BY DEF Space, Punctuation, Blank
    <2>6. Between(Append(v, d)) <=> d \in Space
      BY <2>1 DEF Between
    <2>7. ~(d \in Space /\ Between(v)) => Tidy(Append(v, d))
      BY <2>1, <2>4 DEF Tidy, Between
    <2>8. \A ws, b : d \in Space => MoreWords(ws, b, d) = ws
      BY DEF MoreWords
    <2>9. CASE d \in Punctuation
      <3>1. Text(u) = v
        BY <2>1, <2>9, WrittenStep
      <3> QED
        BY <2>1, <2>2, <2>4, <2>9, <3>1, Zenon DEF u
    <2>10. CASE d \in Space /\ Between(v)
      <3>1. Text(u) = v
        BY <2>1, <2>10, WrittenStep
      <3> QED
        BY <2>1, <2>2, <2>4, <2>5, <2>8, <2>10, <3>1, Zenon DEF u
    <2>11. CASE d \in Space /\ ~Between(v)
      <3>1. Text(u) = Append(v, d)
        BY <2>1, <2>11, WrittenStep
      <3>2. Words(u) = Words(Append(v, d)) /\ Gap(u) /\ Gap(Append(v, d))
        BY <2>2, <2>3, <2>4, <2>5, <2>8, <2>11
      <3>3. Between(Append(v, d)) /\ Tidy(Append(v, d))
        BY <2>6, <2>7, <2>11
      <3> QED
        BY <2>1, <3>1, <3>2, <3>3, Zenon DEF u
    <2>12. CASE d \notin Space /\ d \notin Punctuation
      <3>1. Text(u) = Append(v, d)
        BY <2>1, <2>12, WrittenStep
      <3>2. MoreWords(Words(t), Gap(t), d) = MoreWords(Words(v), Gap(v), d)
        BY <2>4, Zenon DEF MoreWords
      <3>3. Words(u) = Words(Append(v, d)) /\ ~Gap(u) /\ ~Gap(Append(v, d))
        BY <2>2, <2>3, <2>12, <3>2
      <3>4. ~Between(Append(v, d)) /\ Tidy(Append(v, d))
        BY <2>6, <2>7, <2>12
      <3> QED
        BY <2>1, <3>1, <3>3, <3>4, Zenon DEF u
    <2> QED
      BY <2>9, <2>10, <2>11, <2>12
  <1>3. Seq(Mark) \subseteq P
    <2> HIDE DEF P
    <2> QED
      BY <1>1, <1>2, ByAppending
  <1>4. Text(s) \in Seq(Mark)
    <2>1. Blank \in Mark
      BY DEF Mark
    <2> QED
      BY <2>1, TextStep
  <1> QED
    BY <1>3, <1>4

(* A text without its last character. *)
LEMMA WithoutLast ==
  ASSUME NEW v \in Seq(Mark), Len(v) >= 1
  PROVE  /\ SubSeq(v, 1, Len(v) - 1) \in Seq(Mark) /\ v[Len(v)] \in Mark
         /\ v = Append(SubSeq(v, 1, Len(v) - 1), v[Len(v)])
PROOF
  OBVIOUS

(* A text that is written keeps all but a space at its end. *)
LEMMA TrimTidy ==
  ASSUME NEW v \in Seq(Mark), Tidy(v)
  PROVE  /\ ~Between(v) \/ Len(v) = 0 => TrimSpace(v) = v
         /\ Between(v) /\ Len(v) # 0 =>
              TrimSpace(v) \in Seq(Mark) /\ \E c \in Space : v = Append(TrimSpace(v), c)
PROOF
  <1> DEFINE n    == Len(v)
             kept == {i \in DOMAIN v : v[i] \notin Space}
  <1>1. n \in Nat /\ DOMAIN v = 1..n
    OBVIOUS
  <1>2. TrimSpace(v) = IF kept = {} THEN << >> ELSE SubSeq(v, Min(kept), Max(kept))
    BY Zenon DEF TrimSpace
  <1>3. kept \subseteq 1..n
    BY <1>1
  <1>4. CASE n = 0
    <2>1. v = << >>
      BY <1>4, EmptySeq
    <2>2. kept = {}
      BY <1>1, <1>4
    <2>3. TrimSpace(v) = v
      BY <1>2, <2>1, <2>2, Zenon
    <2> QED
      BY <1>4, <2>3
  <1>5. CASE n # 0
    <2>1. v[1] \notin Space /\ 1 \in kept /\ \A k \in kept : 1 <= k
      BY <1>1, <1>5 DEF Tidy
    <2> HIDE DEF kept
    <2>2. kept \subseteq Nat /\ kept # {}
      BY <1>3, <2>1
    <2>3. Min(kept) = 1
      BY <2>1, <2>2, Extremes
    <2>4. CASE ~Between(v)
      <3>1. n \in kept /\ \A k \in kept : k <= n
        BY <1>1, <1>3, <1>5, <2>4 DEF Between, kept
      <3>2. Max(kept) = n
        BY <2>2, <3>1, Extremes
      <3>3. SubSeq(v, 1, n) = v
        BY <1>1
      <3> QED
        BY <1>2, <1>5, <2>2, <2>3, <2>4, <3>2, <3>3
    <2>5. CASE Between(v)
      <3>1. v[n] \in Space /\ n >= 2 /\ v[n - 1] \notin Space
        BY <1>1, <1>5, <2>5 DEF Between, Tidy
      <3>2. n - 1 \in kept /\ \A k \in kept : k <= n - 1
        <4>1. n - 1 \in 1..n
          BY <1>1, <3>1
        <4>2. n \notin kept
          BY <3>1 DEF kept
        <4>3. n - 1 \in kept
          BY <1>1, <3>1, <4>1 DEF kept
        <4>4. \A k \in kept : k \in 1..n /\ k # n
          BY <1>3, <4>2
        <4> QED
          BY <1>1, <4>3, <4>4
      <3>3. Max(kept) = n - 1
        BY <2>2, <3>2, Extremes
      <3>4. TrimSpace(v) = SubSeq(v, 1, n - 1)
        BY <1>2, <2>2, <2>3, <3>3, Zenon
      <3>5. /\ SubSeq(v, 1, n - 1) \in Seq(Mark)
            /\ v = Append(SubSeq(v, 1, n - 1), v[n])
        BY <3>1, WithoutLast
      <3> QED
        BY <1>5, <2>5, <3>1, <3>4, <3>5
    <2> QED
      BY <2>4, <2>5
  <1> QED
    BY <1>4, <1>5

(* The normal form of a title can be read again: it has the same words. *)
LEMMA NormalWords ==
  ASSUME NEW s \in Seq(Mark)
  PROVE  Words(NormalizeTitle(s)) = Words(s)
PROOF
  <1> DEFINE v == Text(s)
  <1>1. NormalizeTitle(s) = TrimSpace(v)
    BY Zenon DEF NormalizeTitle, Text, Pass
  <1>2. v \in Seq(Mark) /\ Words(v) = Words(s) /\ Tidy(v)
    BY TextKeeps
  <1> HIDE DEF v
  <1>3. CASE ~Between(v) \/ Len(v) = 0
    BY <1>1, <1>2, <1>3, TrimTidy
  <1>4. CASE Between(v) /\ Len(v) # 0
    <2> DEFINE u == TrimSpace(v)
    <2>1. u \in Seq(Mark) /\ \E c \in Space : v = Append(u, c)
      BY <1>2, <1>4, TrimTidy
    <2> HIDE DEF u
    <2>2. PICK c \in Space : v = Append(u, c)
      BY <2>1
    <2>3. c \in Mark /\ lower(c) = c /\ c \notin Punctuation
      <3>1. c = Blank /\ Blank \notin Punctuation
        BY DEF Space, Punctuation, Blank
      <3>2. Blank \in Mark
        BY DEF Mark
      <3> QED
        BY <3>1, <3>2, Lowering
    <2>4. Words(Append(u, c)) = MoreWords(Words(u), Gap(u), lower(c))
      BY <2>1, <2>3, WordsStep
    <2>5. Words(v) = Words(u)
      BY <2>2, <2>3, <2>4, Zenon DEF MoreWords
    <2> QED
      BY <1>1, <1>2, <2>5 DEF u
  <1> QED
    BY <1>3, <1>4

-----------------------------------------------------------------------------
(* Words put together to a sentence. *)

(* A sequence with one place more, and one with its last place apart. *)
LEMMA AppendShape ==
  ASSUME NEW S, NEW u \in Seq(S), NEW w \in S
  PROVE  /\ Len(u) \in Nat /\ Append(u, w) \in Seq(S)
         /\ Append(u, w) = [k \in 1..(Len(u) + 1) |-> Append(u, w)[k]]
         /\ Append(u, w)[Len(u) + 1] = w /\ \A k \in 1..Len(u) : Append(u, w)[k] = u[k]
PROOF
  <1> DEFINE v == Append(u, w)
             n == Len(u)
  <1>1. /\ n \in Nat /\ v \in Seq(S) /\ DOMAIN v = 1..(n + 1)
        /\ v[n + 1] = w /\ \A k \in 1..n : v[k] = u[k]
    OBVIOUS
  <1> HIDE DEF v
  <1>2. v = [k \in 1..(n + 1) |-> v[k]]
    BY <1>1
  <1> QED
    BY <1>1, <1>2 DEF v

(* The last part apart. *)
LEMMA LastApart ==
  ASSUME NEW S, NEW u \in Seq(S), Len(u) >= 1
  PROVE  \E v \in Seq(S), w \in S : u = Append(v, w)
PROOF
  <1> DEFINE v == SubSeq(u, 1, Len(u) - 1)
             w == u[Len(u)]
  <1>1. v \in Seq(S) /\ w \in S /\ u = Append(v, w)
    OBVIOUS
  <1> QED
    BY <1>1

(* Words with a space before each but the first, in one text. *)
Parts(ws)  == [k \in DOMAIN ws |-> IF k = 1 THEN ws[k] ELSE <<Blank>> \o ws[k]]
Sentence(ws) == FlattenSeq(Parts(ws))

(* A sentence with one word more. *)
LEMMA JoinedAppend ==
  ASSUME NEW ws \in Seq(Seq(Mark)), NEW w \in Seq(Mark)
  PROVE  /\ Sentence(<< >>) = << >> /\ Sentence(ws) \in Seq(Mark)
         /\ Len(ws) = 0 => Sentence(Append(ws, w)) = Sentence(ws) \o w
         /\ Len(ws) # 0 => Sentence(Append(ws, w)) = Sentence(ws) \o (<<Blank>> \o w)
PROOF
  <1> DEFINE n    == Len(ws)
             more == Append(ws, w)
             part == IF n = 0 THEN w ELSE <<Blank>> \o w
  <1>1. /\ n \in Nat /\ DOMAIN ws = 1..n /\ \A k \in 1..n : ws[k] \in Seq(Mark)
        /\ DOMAIN more = 1..(n + 1) /\ more[n + 1] = w /\ \A k \in 1..n : more[k] = ws[k]
    OBVIOUS
  <1>2. \A v \in Seq(Mark) : <<Blank>> \o v \in Seq(Mark)
    <2>1. Blank \in Mark
      BY DEF Mark
    <2>2. <<Blank>> \in Seq(Mark)
      BY <2>1
    <2> QED
      BY <2>2, ConcatProperties
  <1>3. part \in Seq(Mark)
    BY <1>2
  <1>4. Parts(<< >>) = << >>
    BY DEF Parts
  <1> HIDE DEF n, more
  <1>5. Parts(ws) \in Seq(Seq(Mark)) /\ Len(Parts(ws)) = n /\ DOMAIN Parts(ws) = 1..n
    <2>1. Parts(ws) = [k \in 1..n |-> IF k = 1 THEN ws[k] ELSE <<Blank>> \o ws[k]]
      BY <1>1, Zenon DEF Parts
    <2>2. \A k \in 1..n : (IF k = 1 THEN ws[k] ELSE <<Blank>> \o ws[k]) \in Seq(Mark)
      BY <1>1, <1>2
    <2> QED
      BY <1>1, <2>1, <2>2
  <1>6. Parts(more) = Append(Parts(ws), part)
    <2> DEFINE u == Append(Parts(ws), part)
               ps == Parts(ws)
    <2>1. ps \in Seq(Seq(Mark)) /\ Len(ps) = n /\ part \in Seq(Mark)
      BY <1>3, <1>5
    <2>2. \A k \in 1..n : ps[k] = IF k = 1 THEN ws[k] ELSE <<Blank>> \o ws[k]
      BY <1>1 DEF Parts
    <2> HIDE DEF ps, part
    <2>3. /\ u = [k \in 1..(n + 1) |-> u[k]]
          /\ u[n + 1] = part /\ \A k \in 1..n : u[k] = ps[k]
      <3>1. ps \in Seq(Seq(Mark)) /\ part \in Seq(Mark) /\ u = Append(ps, part)
        BY <2>1 DEF ps
      <3> HIDE DEF u
      <3> QED
        BY <2>1, <3>1, AppendShape
    <2>4. Parts(more) = [k \in 1..(n + 1) |-> IF k = 1 THEN more[k] ELSE <<Blank>> \o more[k]]
      BY <1>1, Zenon DEF Parts
    <2> HIDE DEF u
    <2>5. ASSUME NEW k \in 1..(n + 1)
          PROVE  u[k] = IF k = 1 THEN more[k] ELSE <<Blank>> \o more[k]
      <3>1. CASE k = n + 1
        <4>1. k = 1 <=> n = 0
          BY <1>1, <3>1
        <4> QED
          BY <1>1, <2>3, <3>1, <4>1, Zenon DEF part
      <3>2. CASE k # n + 1
        <4>1. k \in 1..n
          BY <1>1, <3>2
        <4>2. u[k] = ps[k] /\ more[k] = ws[k]
          BY <1>1, <2>3, <4>1, Zenon
        <4> QED
          BY <2>2, <4>1, <4>2, Zenon
      <3> QED
        BY <3>1, <3>2
    <2>6. Parts(more) = u
      BY <2>3, <2>4, <2>5, Zenon
    <2> QED
      BY <2>6 DEF u
  <1> HIDE DEF part
  <1>7. /\ FlattenSeq(<< >>) = << >> /\ FlattenSeq(Parts(ws)) \in Seq(Mark)
        /\ FlattenSeq(Append(Parts(ws), part)) = FlattenSeq(Parts(ws)) \o part
    BY <1>3, <1>5, FlattenAppend
  <1>8. /\ Sentence(<< >>) = << >> /\ Sentence(ws) \in Seq(Mark)
        /\ Sentence(more) = Sentence(ws) \o part
    BY <1>4, <1>6, <1>7, Zenon DEF Sentence
  <1>9. n = 0 => part = w
    BY Zenon DEF part
  <1>10. n # 0 => part = <<Blank>> \o w
    BY Zenon DEF part
  <1> QED
    BY <1>8, <1>9, <1>10, Zenon DEF n, more

Adds(w, c, x) == x = Append(w, c)

(* The last word with one character more. *)
LEMMA LongerAppend ==
  ASSUME NEW S, NEW u \in Seq(S), NEW w \in S, NEW c, NEW x \in S, Adds(w, c, x)
  PROVE  Longer(Append(u, w), c) = Append(u, x)
PROOF
  <1> DEFINE n == Len(u)
             v == Append(u, w)
             z == Append(u, x)
  <1>1. /\ n \in Nat /\ Len(v) = n + 1 /\ v[n + 1] = w /\ \A k \in 1..n : v[k] = u[k]
    OBVIOUS
  <1>3. /\ z = [k \in 1..(n + 1) |-> z[k]] /\ z[n + 1] = x /\ \A k \in 1..n : z[k] = u[k]
    BY AppendShape
  <1> HIDE DEF v, z, n
  <1>4. Longer(v, c) = [k \in 1..(n + 1) |-> IF k = n + 1 THEN Append(v[k], c) ELSE v[k]]
    BY <1>1, Zenon DEF Longer
  <1>5. ASSUME NEW k \in 1..(n + 1)
        PROVE  z[k] = IF k = n + 1 THEN Append(v[k], c) ELSE v[k]
    <2>1. CASE k = n + 1
      BY <1>1, <1>3, <2>1, Zenon DEF Adds
    <2>2. CASE k # n + 1
      <3>1. k \in 1..n
        BY <1>1, <2>2
      <3> QED
        BY <1>1, <1>3, <2>2, <3>1, Zenon
    <2> QED
      BY <2>1, <2>2
  <1>6. Longer(v, c) = z
    BY <1>3, <1>4, <1>5, Zenon
  <1> QED
    BY <1>6 DEF v, z

(* A sentence whose last word has one character more. *)
LEMMA JoinedLonger ==
  ASSUME NEW ws \in Seq(Seq(Mark)), NEW c \in Mark, Len(ws) >= 1
  PROVE  Sentence(Longer(ws, c)) = Append(Sentence(ws), c)
PROOF
  <1>1. PICK front \in Seq(Seq(Mark)), w \in Seq(Mark) : ws = Append(front, w)
    BY LastApart
  <1> DEFINE x == Append(w, c)
             j == Sentence(front)
  <1>2. x \in Seq(Mark)
    OBVIOUS
  <1>3. Longer(ws, c) = Append(front, x)
    <2>1. Adds(w, c, x)
      BY DEF Adds
    <2> HIDE DEF x
    <2>2. Longer(Append(front, w), c) = Append(front, x)
      BY <1>2, <2>1, LongerAppend
    <2> QED
      BY <1>1, <2>2
  <1>4. /\ j \in Seq(Mark)
        /\ Len(front) = 0 => Sentence(ws) = j \o w /\ Sentence(Append(front, x)) = j \o x
        /\ Len(front) # 0 => /\ Sentence(ws) = j \o (<<Blank>> \o w)
                             /\ Sentence(Append(front, x)) = j \o (<<Blank>> \o x)
    BY <1>1, <1>2, JoinedAppend
  <1>5. \A a, b \in Seq(Mark) : a \o Append(b, c) = Append(a \o b, c)
    OBVIOUS
  <1>6. <<Blank>> \in Seq(Mark)
    <2>1. Blank \in Mark
      BY DEF Mark
    <2> QED
      BY <2>1
  <1>7. <<Blank>> \o w \in Seq(Mark)
    BY <1>6, ConcatProperties
  <1>8. j \o x = Append(j \o w, c) /\ <<Blank>> \o x = Append(<<Blank>> \o w, c)
    BY <1>4, <1>5, <1>6, Zenon
  <1> DEFINE y == <<Blank>> \o w
  <1>9. j \o Append(y, c) = Append(j \o y, c)
    BY <1>4, <1>5, <1>7, Zenon
  <1> HIDE DEF j, x
  <1>10. CASE Len(front) = 0
    BY <1>3, <1>4, <1>8, <1>10
  <1>11. CASE Len(front) # 0
    <2>1. Sentence(ws) = j \o y /\ Sentence(Append(front, x)) = j \o Append(y, c)
      BY <1>4, <1>8, <1>11
    <2> QED
      BY <1>3, <1>9, <2>1
  <1> QED
    BY <1>10, <1>11

(* What is written of a title is its words with a space between, and one   *)
(* more at the end if the title ends between two words.                    *)
Told(v, ws, gap) ==
  /\ Len(ws) = 0 => gap /\ v = << >>
  /\ Len(ws) # 0 /\ gap => v = Append(Sentence(ws), Blank)
  /\ ~gap => v = Sentence(ws)

(* What has been written tells the words with one character more. *)
LEMMA TellsMore ==
  ASSUME NEW v \in Seq(Mark), NEW ws \in Seq(Seq(Mark)), NEW gap \in BOOLEAN,
         ~gap => Len(ws) >= 1, Told(v, ws, gap), NEW d \in Mark, d \notin Space
  PROVE  Told(Append(v, d), MoreWords(ws, gap, d), FALSE)
PROOF
  <1> DEFINE S == Sentence(ws)
  <1>1. S \in Seq(Mark) /\ Sentence(<< >>) = << >>
    <2>1. << >> \in Seq(Mark)
      OBVIOUS
    <2> QED
      BY <2>1, JoinedAppend
  <1>2. CASE ~gap
    <2>1. MoreWords(ws, gap, d) = Longer(ws, d)
      BY <1>2, Zenon DEF MoreWords
    <2>2. Sentence(Longer(ws, d)) = Append(S, d) /\ Len(Longer(ws, d)) = Len(ws)
      BY <1>2, JoinedLonger, LongerType
    <2>3. v = S /\ Len(ws) # 0
      BY <1>2 DEF Told
    <2> QED
      BY <2>1, <2>2, <2>3, Zenon DEF Told
  <1>3. CASE gap
    <2> DEFINE w  == <<d>>
               vs == Append(ws, w)
    <2>1. MoreWords(ws, gap, d) = vs
      BY <1>3, Zenon DEF MoreWords
    <2>2. w \in Seq(Mark)
      OBVIOUS
    <2>3. /\ Len(ws) = 0 => Sentence(vs) = S \o w
          /\ Len(ws) # 0 => Sentence(vs) = S \o (<<Blank>> \o w)
      <3> HIDE DEF w
      <3> QED
        BY <2>2, JoinedAppend
    <2>4. Len(vs) # 0
      <3> HIDE DEF w
      <3> QED
        BY <2>2
    <2>5. CASE Len(ws) = 0
      <3>1. ws = << >> /\ v = << >>
        BY <2>5, EmptySeq DEF Told
      <3>2. Sentence(vs) = << >> \o w
        BY <1>1, <2>3, <2>5, <3>1, Zenon
      <3>3. << >> \o w = w /\ Append(<< >>, d) = w
        BY <2>2, ConcatEmptySeq
      <3>4. Append(v, d) = Sentence(vs)
        BY <3>1, <3>2, <3>3, Zenon
      <3> QED
        BY <2>1, <2>4, <3>4, Zenon DEF Told
    <2>6. CASE Len(ws) # 0
      <3>1. v = Append(S, Blank)
        BY <1>3, <2>6 DEF Told
      <3>2. <<Blank>> \in Seq(Mark) /\ Blank \in Mark
        <4>1. Blank \in Mark
          BY DEF Mark
        <4> QED
          BY <4>1
      <3>3. v = S \o <<Blank>> /\ Append(v, d) = v \o w
        BY <1>1, <3>1, <3>2, AppendIsConcat
      <3>4. (S \o <<Blank>>) \o w = S \o (<<Blank>> \o w)
        <4>1. EitherEnd(S, <<Blank>>, w)
          <5> HIDE DEF w, S
          <5> QED
            BY <1>1, <2>2, <3>2, Grouped
        <4> QED
          BY <4>1, Zenon DEF EitherEnd
      <3>5. Append(v, d) = Sentence(vs)
        BY <2>3, <2>6, <3>3, <3>4, Zenon
      <3> QED
        BY <2>1, <2>4, <3>5, Zenon DEF Told
    <2> QED
      BY <2>5, <2>6
  <1> QED
    BY <1>2, <1>3

(* Texts that are the same with a last character are so without it. *)
LEMMA SameFront ==
  ASSUME NEW a \in Seq(Mark), NEW b \in Seq(Mark), NEW c \in Mark, NEW d \in Mark,
         NEW v, v = Append(a, c), v = Append(b, d)
  PROVE  a = b
PROOF
  <1>1. Append(a, c) = Append(b, d)
    OBVIOUS
  <1> QED
    BY <1>1, AppendInjective

(* What the pass has written is the sentence of the words it has read. *)
LEMMA TextTold ==
  ASSUME NEW s \in Seq(Mark)
  PROVE  Told(Text(s), Words(s), Gap(s))
PROOF
  <1> DEFINE P == {t \in Seq(Mark) : Told(Text(t), Words(t), Gap(t))}
  <1>1. << >> \in P
    <2> DEFINE none == << >>
    <2>1. none \in Seq(Mark) /\ Len(none) = 0
      OBVIOUS
    <2>2. Text(none) = none /\ Words(none) = none /\ Gap(none)
      BY TextStep, WordsStep, Zenon
    <2> HIDE DEF none
    <2>3. none = << >>
      BY DEF none
    <2>4. Told(none, none, TRUE)
      BY <2>1, <2>3 DEF Told
    <2> QED
      BY <2>1, <2>2, <2>3, <2>4 DEF Told
  <1>2. ASSUME NEW t \in Seq(Mark), NEW c \in Mark, t \in P PROVE Append(t, c) \in P
    <2> DEFINE v  == Text(t)
               ws == Words(t)
               g  == Gap(t)
               u  == Append(t, c)
               d  == lower(c)
    <2>1. u \in Seq(Mark) /\ v \in Seq(Mark) /\ d \in Mark /\ Text(u) = Written(v, d)
      BY TextStep, Lowering
    <2>2. /\ ws \in Seq(Seq(Mark)) /\ (~g => Len(ws) >= 1)
          /\ d \in Punctuation => Words(u) = ws /\ (Gap(u) <=> g)
          /\ d \notin Punctuation => Words(u) = MoreWords(ws, g, d) /\ (Gap(u) <=> d \in Space)
      BY WordsStep
    <2>3. Told(v, ws, g) /\ (Between(v) <=> g) /\ g \in BOOLEAN
      BY <1>2, TextKeeps DEF Gap, Between
    <2>4. \A e \in Space : e = Blank /\ e \notin Punctuation
      BY DEF Space, Punctuation, Blank
    <2> HIDE DEF v, ws, g, u, d
    <2>5. CASE d \in Punctuation \/ (d \in Space /\ Between(v))
      <3>1. Text(u) = v
        BY <2>1, <2>5, WrittenStep
      <3>2. Words(u) = ws /\ (Gap(u) <=> g)
        <4>1. d \in Space => MoreWords(ws, g, d) = ws
          BY Zenon DEF MoreWords
        <4> QED
          BY <2>2, <2>3, <2>4, <2>5, <4>1
      <3>3. Told(Text(u), Words(u), Gap(u))
        BY <2>3, <3>1, <3>2, Zenon DEF Told
      <3> QED
        BY <2>1, <3>3 DEF u
    <2>6. CASE d \in Space /\ ~Between(v)
      <3>1. Text(u) = Append(v, d)
        BY <2>1, <2>6, WrittenStep
      <3>2. Words(u) = ws /\ Gap(u) /\ ~g
        <4>1. MoreWords(ws, g, d) = ws
          BY <2>6, Zenon DEF MoreWords
        <4> QED
          BY <2>2, <2>3, <2>4, <2>6, <4>1
      <3>3. v = Sentence(ws) /\ Len(ws) # 0 /\ d = Blank
        BY <2>2, <2>3, <2>4, <2>6, <3>2 DEF Told
      <3>4. Told(Text(u), Words(u), Gap(u))
        BY <3>1, <3>2, <3>3, Zenon DEF Told
      <3> QED
        BY <2>1, <3>4 DEF u
    <2>7. CASE d \notin Space /\ d \notin Punctuation
      <3>1. Text(u) = Append(v, d)
        BY <2>1, <2>7, WrittenStep
      <3>2. Words(u) = MoreWords(ws, g, d) /\ ~Gap(u)
        BY <2>2, <2>7
      <3>3. Told(Append(v, d), MoreWords(ws, g, d), FALSE)
        BY <2>1, <2>2, <2>3, <2>7, TellsMore DEF v
      <3>4. Told(Text(u), Words(u), Gap(u))
        BY <3>1, <3>2, <3>3, Zenon DEF Told
      <3> QED
        BY <2>1, <3>4 DEF u
    <2> QED
      BY <2>5, <2>6, <2>7
  <1>3. Seq(Mark) \subseteq P
    <2> HIDE DEF P
    <2> QED
      BY <1>1, <1>2, ByAppending
  <1> QED
    BY <1>3

(* The words of a title, with one space between, are its normal form. *)
LEMMA NormalSentence ==
  ASSUME NEW s \in Seq(Mark)
  PROVE  NormalizeTitle(s) = Sentence(Words(s))
PROOF
  <1> DEFINE v  == Text(s)
             ws == Words(s)
             S  == Sentence(ws)
  <1>1. NormalizeTitle(s) = TrimSpace(v)
    BY Zenon DEF NormalizeTitle, Text, Pass
  <1>2. v \in Seq(Mark) /\ (Between(v) <=> Gap(s)) /\ Tidy(v)
    BY TextKeeps
  <1>3. Told(v, ws, Gap(s))
    BY TextTold
  <1>4. ws \in Seq(Seq(Mark)) /\ S \in Seq(Mark) /\ Sentence(<< >>) = << >>
    <2>1. Blank \in Mark /\ << >> \in Seq(Mark)
      BY DEF Mark
    <2>2. ws \in Seq(Seq(Mark))
      BY <2>1, WordsStep
    <2> HIDE DEF ws
    <2> QED
      BY <2>1, <2>2, JoinedAppend
  <1> HIDE DEF v, ws, S
  <1>5. CASE Len(ws) = 0
    <2>1. v = << >> /\ ws = << >>
      BY <1>3, <1>4, <1>5, EmptySeq DEF Told
    <2>2. Len(v) = 0
      BY <2>1
    <2>3. TrimSpace(v) = v
      BY <1>2, <2>2, TrimTidy
    <2> QED
      BY <1>1, <1>4, <2>1, <2>3, Zenon DEF ws
  <1>6. CASE ~Gap(s)
    <2>1. v = S
      BY <1>3, <1>6, Zenon DEF Told, S
    <2>2. TrimSpace(v) = v
      BY <1>2, <1>6, TrimTidy
    <2> QED
      BY <1>1, <2>1, <2>2, Zenon DEF S, ws
  <1>7. CASE Len(ws) # 0 /\ Gap(s)
    <2>1. v = Append(S, Blank)
      BY <1>3, <1>7, Zenon DEF Told, S
    <2>2. Len(v) # 0
      BY <1>4, <2>1
    <2> DEFINE u == TrimSpace(v)
    <2>3. u \in Seq(Mark) /\ \E c \in Space : v = Append(u, c)
      BY <1>2, <1>7, <2>2, TrimTidy
    <2> HIDE DEF u
    <2>4. PICK c \in Space : v = Append(u, c)
      BY <2>3
    <2>5. u = S
      <3>1. c \in Mark /\ Blank \in Mark
        <4>1. c = Blank
          BY DEF Space
        <4> QED
          BY <4>1 DEF Mark
      <3> QED
        BY <1>4, <2>1, <2>3, <2>4, <3>1, SameFront, Zenon
    <2> QED
      BY <1>1, <2>5 DEF u, S, ws
  <1> QED
    BY <1>5, <1>6, <1>7

(* Titles have the same normal form if they have the same words, and       *)
(* only then.                                                              *)
LEMMA SameNormal ==
  ASSUME NEW s \in Seq(Char), NEW t \in Seq(Char)
  PROVE  NormalizeTitle(s) = NormalizeTitle(t) <=> Words(s) = Words(t)
PROOF
  <1>1. s \in Seq(Mark) /\ t \in Seq(Mark)
    BY DEF Mark
  <1>2. /\ NormalizeTitle(s) = Sentence(Words(s)) /\ NormalizeTitle(t) = Sentence(Words(t))
        /\ Words(NormalizeTitle(s)) = Words(s) /\ Words(NormalizeTitle(t)) = Words(t)
    BY <1>1, NormalSentence, NormalWords
  <1> QED
    BY <1>2, Zenon

(* Titles match when they have the same words and only then: case,         *)
(* punctuation and the width of a gap make no difference, and nothing else *)
(* is lost, whatever characters there are (note.go:80-98).                 *)
THEOREM TitlesMatchByWords == Spec => []NormalizeIsWords
PROOF
  <1>1. TypeOK => NormalizeIsWords
    BY TitlesAssumption, SameNormal DEF TypeOK, NormalizeIsWords
  <1> QED
    BY <1>1, TopicType, PTL

-----------------------------------------------------------------------------
(* Notes, as Graft publishes them and as they are read. *)

(* A text of spaces has no word. *)
Blanks(t) == \A i \in DOMAIN t : t[i] \in Space

(* One more space tells nothing, and a text that begins with nothing but   *)
(* spaces has the words of the rest.                                       *)
LEMMA SpaceStep ==
  ASSUME NEW s \in Seq(Mark), NEW c \in Mark, c \in Space
  PROVE  Words(Append(s, c)) = Words(s) /\ Gap(Append(s, c))
PROOF
  <1>1. lower(c) = c /\ c \notin Punctuation
    <2>1. c = Blank /\ Blank \notin Punctuation
      BY DEF Space, Punctuation, Blank
    <2>2. Blank \in Mark
      BY DEF Mark
    <2> QED
      BY <2>1, <2>2, Lowering
  <1>2. /\ Words(Append(s, c)) = MoreWords(Words(s), Gap(s), c)
        /\ Gap(Append(s, c)) <=> c \in Space
    BY <1>1, WordsStep
  <1> QED
    BY <1>2, Zenon DEF MoreWords

(* Texts of spaces, one character after the other. *)
LEMMA BlanksAppend ==
  ASSUME NEW s \in Seq(Mark), NEW c \in Mark, Blanks(Append(s, c))
  PROVE  Blanks(s) /\ c \in Space
PROOF
  <1> DEFINE w == Append(s, c)
             n == Len(s)
  <1>1. /\ n \in Nat /\ DOMAIN s = 1..n /\ DOMAIN w = 1..(n + 1) /\ w[n + 1] = c
        /\ \A i \in 1..n : w[i] = s[i]
    OBVIOUS
  <1> HIDE DEF w, n
  <1>2. \A i \in 1..(n + 1) : w[i] \in Space
    BY <1>1 DEF Blanks, w
  <1> QED
    BY <1>1, <1>2 DEF Blanks

(* A text of spaces has no words. *)
LEMMA BlanksSayNothing ==
  ASSUME NEW a \in Seq(Mark), Blanks(a)
  PROVE  Words(a) = << >> /\ Gap(a)
PROOF
  <1> DEFINE P == {t \in Seq(Mark) : Blanks(t) => Words(t) = << >> /\ Gap(t)}
  <1>1. << >> \in P
    <2>1. << >> \in Seq(Mark)
      OBVIOUS
    <2> QED
      BY <2>1, WordsStep, Zenon
  <1>2. ASSUME NEW t \in Seq(Mark), NEW c \in Mark, t \in P PROVE Append(t, c) \in P
    <2>1. Append(t, c) \in Seq(Mark)
      OBVIOUS
    <2>2. Blanks(Append(t, c)) => Words(Append(t, c)) = << >> /\ Gap(Append(t, c))
      <3> SUFFICES ASSUME Blanks(Append(t, c))
                   PROVE  Words(Append(t, c)) = << >> /\ Gap(Append(t, c))
        OBVIOUS
      <3>1. Blanks(t) /\ c \in Space
        BY BlanksAppend
      <3>2. Words(t) = << >>
        BY <1>2, <3>1
      <3> QED
        BY <3>1, <3>2, SpaceStep
    <2> QED
      BY <2>1, <2>2, Zenon
  <1>3. Seq(Mark) \subseteq P
    <2> HIDE DEF P
    <2> QED
      BY <1>1, <1>2, ByAppending
  <1> QED
    BY <1>3

(* What is written before a text and after it. *)
LEMMA ConcatStep ==
  ASSUME NEW a \in Seq(Mark), NEW b \in Seq(Mark), NEW c \in Mark
  PROVE  /\ a \o b \in Seq(Mark) /\ a \o << >> = a
         /\ a \o Append(b, c) = Append(a \o b, c)
PROOF
  BY SMTT(20)

(* Spaces before a title make no difference. *)
LEMMA BlanksBefore ==
  ASSUME NEW a \in Seq(Mark), Blanks(a), NEW b \in Seq(Mark)
  PROVE  Words(a \o b) = Words(b) /\ (Gap(a \o b) <=> Gap(b))
PROOF
  <1> DEFINE P == {t \in Seq(Mark) : Words(a \o t) = Words(t) /\ (Gap(a \o t) <=> Gap(t))}
  <1>1. << >> \in P
    <2>1. << >> \in Seq(Mark) /\ Blank \in Mark
      BY DEF Mark
    <2>2. a \o << >> = a
      BY <2>1, ConcatStep
    <2>3. Words(a) = << >> /\ Gap(a) /\ Words(<< >>) = << >> /\ Gap(<< >>)
      BY BlanksSayNothing, WordsStep
    <2> QED
      BY <2>1, <2>2, <2>3, Zenon
  <1>2. ASSUME NEW t \in Seq(Mark), NEW c \in Mark, t \in P PROVE Append(t, c) \in P
    <2> DEFINE u == a \o t
    <2>1. Append(t, c) \in Seq(Mark) /\ u \in Seq(Mark) /\ a \o Append(t, c) = Append(u, c)
      BY ConcatStep
    <2>2. Words(u) = Words(t) /\ (Gap(u) <=> Gap(t))
      BY <1>2
    <2> HIDE DEF u
    <2>3. Words(Append(u, c)) = Words(Append(t, c)) /\ (Gap(Append(u, c)) <=> Gap(Append(t, c)))
      <3>1. CASE lower(c) \in Punctuation
        <4>1. /\ Words(Append(u, c)) = Words(u) /\ (Gap(Append(u, c)) <=> Gap(u))
              /\ Words(Append(t, c)) = Words(t) /\ (Gap(Append(t, c)) <=> Gap(t))
          BY <2>1, <3>1, WordsStep
        <4> QED
          BY <2>2, <4>1, Zenon
      <3>2. CASE lower(c) \notin Punctuation
        <4>1. /\ Words(Append(u, c)) = MoreWords(Words(u), Gap(u), lower(c))
              /\ Gap(Append(u, c)) <=> lower(c) \in Space
              /\ Words(Append(t, c)) = MoreWords(Words(t), Gap(t), lower(c))
              /\ Gap(Append(t, c)) <=> lower(c) \in Space
          BY <2>1, <3>2, WordsStep
        <4>2. MoreWords(Words(u), Gap(u), lower(c)) = MoreWords(Words(t), Gap(t), lower(c))
          BY <2>2, Zenon DEF MoreWords
        <4> QED
          BY <4>1, <4>2
      <3> QED
        BY <3>1, <3>2
    <2> QED
      BY <2>1, <2>3
  <1>3. Seq(Mark) \subseteq P
    <2> HIDE DEF P
    <2> QED
      BY <1>1, <1>2, ByAppending
  <1> QED
    BY <1>3

(* Nor do spaces after it. *)
LEMMA BlanksAfter ==
  ASSUME NEW a \in Seq(Mark), NEW b \in Seq(Mark), Blanks(b)
  PROVE  Words(a \o b) = Words(a)
PROOF
  <1> DEFINE P == {t \in Seq(Mark) : Blanks(t) => Words(a \o t) = Words(a)}
  <1>1. << >> \in P
    <2>1. << >> \in Seq(Mark) /\ Blank \in Mark
      BY DEF Mark
    <2>2. a \o << >> = a
      BY <2>1, ConcatStep
    <2> QED
      BY <2>1, <2>2, Zenon
  <1>2. ASSUME NEW t \in Seq(Mark), NEW c \in Mark, t \in P PROVE Append(t, c) \in P
    <2> DEFINE u == a \o t
    <2>1. Append(t, c) \in Seq(Mark) /\ u \in Seq(Mark) /\ a \o Append(t, c) = Append(u, c)
      BY ConcatStep
    <2>2. Blanks(t) => Words(u) = Words(a)
      BY <1>2
    <2> HIDE DEF u
    <2>3. ASSUME Blanks(Append(t, c)) PROVE Words(Append(u, c)) = Words(a)
      <3>1. Blanks(t) /\ c \in Space
        BY <2>3, BlanksAppend
      <3> QED
        BY <2>1, <2>2, <3>1, SpaceStep
    <2> QED
      BY <2>1, <2>3
  <1>3. Seq(Mark) \subseteq P
    <2> HIDE DEF P
    <2> QED
      BY <1>1, <1>2, ByAppending
  <1> QED
    BY <1>3
(* A text falls into what is before a place of it, up to another one, and  *)
(* what is after that.                                                     *)
LEMMA ThreeParts ==
  ASSUME NEW S, NEW t \in Seq(S), NEW m \in 1..Len(t), NEW k \in m..Len(t)
  PROVE  LET a == SubSeq(t, 1, m - 1)
             b == SubSeq(t, m, k)
             c == SubSeq(t, k + 1, Len(t))
         IN  /\ a \in Seq(S) /\ b \in Seq(S) /\ c \in Seq(S) /\ a \o b \in Seq(S)
             /\ t = (a \o b) \o c
             /\ Len(a) = m - 1 /\ \A i \in 1..(m - 1) : a[i] = t[i]
             /\ Len(c) = Len(t) - k /\ \A i \in 1..(Len(t) - k) : c[i] = t[k + i]
PROOF
  <1> DEFINE a == SubSeq(t, 1, m - 1)
             b == SubSeq(t, m, k)
             c == SubSeq(t, k + 1, Len(t))
  <1>0. Len(t) \in Nat /\ m \in Nat /\ k \in Nat /\ m <= k /\ k <= Len(t) /\ m >= 1
    OBVIOUS
  <1>1. a \in Seq(S) /\ Len(a) = m - 1 /\ \A i \in 1..(m - 1) : a[i] = t[i]
    BY <1>0
  <1>2. b \in Seq(S)
    BY <1>0
  <1>3. c \in Seq(S) /\ Len(c) = Len(t) - k /\ \A i \in 1..(Len(t) - k) : c[i] = t[k + i]
    BY <1>0
  <1>4. SubSeq(t, 1, m - 1) \o SubSeq(t, (m - 1) + 1, k) = SubSeq(t, 1, k)
    <2>1. 1 \in 1..(Len(t) + 1) /\ m - 1 \in (1 - 1)..Len(t) /\ k \in (m - 1)..Len(t)
      BY <1>0
    <2> QED
      BY <2>1, ConcatAdjacentSubSeq
  <1>5. SubSeq(t, 1, k) \o SubSeq(t, k + 1, Len(t)) = SubSeq(t, 1, Len(t))
    <2>1. 1 \in 1..(Len(t) + 1) /\ k \in (1 - 1)..Len(t) /\ Len(t) \in k..Len(t)
      BY <1>0
    <2> QED
      BY <2>1, ConcatAdjacentSubSeq
  <1>6. SubSeq(t, 1, Len(t)) = t /\ (m - 1) + 1 = m /\ SubSeq(t, 1, k) \in Seq(S)
    BY <1>0
  <1>7. a \o b = SubSeq(t, 1, k)
    BY <1>4, <1>6
  <1> QED
    BY <1>1, <1>2, <1>3, <1>5, <1>6, <1>7

(* A title has its words without the spaces around it.                     *)
LEMMA WordsTrimmed ==
  ASSUME NEW t \in Seq(Mark)
  PROVE  TrimSpace(t) \in Seq(Mark) /\ Words(TrimSpace(t)) = Words(t)
PROOF
  <1> DEFINE kept == {i \in DOMAIN t : t[i] \notin Space}
             m    == Min(kept)
             k    == Max(kept)
  <1>1. TrimSpace(t) = IF kept = {} THEN << >> ELSE SubSeq(t, m, k)
    BY Zenon DEF TrimSpace
  <1>2. Len(t) \in Nat /\ DOMAIN t = 1..Len(t) /\ kept \subseteq 1..Len(t)
    OBVIOUS
  <1>3. CASE kept = {}
    <2>1. Blanks(t)
      BY <1>3 DEF Blanks
    <2>2. Words(t) = << >> /\ Words(<< >>) = << >>
      BY <2>1, BlanksSayNothing, WordsStep
    <2>3. << >> \in Seq(Mark)
      OBVIOUS
    <2> QED
      BY <1>1, <1>3, <2>2, <2>3, Zenon
  <1>4. CASE kept # {}
    <2> HIDE DEF kept
    <2>1. k \in kept /\ \A i \in kept : i <= k
      BY <1>2, <1>4, Greatest
    <2>2. m \in kept /\ \A i \in kept : m <= i
      <3>1. kept \subseteq Nat
        BY <1>2
      <3>2. PICK l \in kept : \A i \in kept : l <= i
        BY <1>4, <3>1, Least
      <3>3. Min(kept) = l
        BY <3>1, <3>2, Extremes
      <3> QED
        BY <3>2, <3>3
    <2> HIDE DEF m, k
    <2>3. m \in 1..Len(t) /\ k \in m..Len(t)
      BY <1>2, <2>1, <2>2
    <2> DEFINE a == SubSeq(t, 1, m - 1)
               b == SubSeq(t, m, k)
               c == SubSeq(t, k + 1, Len(t))
    <2>4. /\ a \in Seq(Mark) /\ b \in Seq(Mark) /\ c \in Seq(Mark) /\ a \o b \in Seq(Mark)
          /\ t = (a \o b) \o c
          /\ Len(a) = m - 1 /\ \A i \in 1..(m - 1) : a[i] = t[i]
          /\ Len(c) = Len(t) - k /\ \A i \in 1..(Len(t) - k) : c[i] = t[k + i]
      BY <2>3, ThreeParts, ZenonT(40)
    <2>5. b = TrimSpace(t)
      BY <1>1, <1>4
    <2> HIDE DEF a, b, c
    <2>6. Blanks(a)
      <3>1. ASSUME NEW i \in 1..(m - 1) PROVE t[i] \in Space
        <4>1. i \notin kept /\ i \in DOMAIN t
          BY <1>2, <2>2, <2>3
        <4> QED
          BY <4>1 DEF kept
      <3>2. DOMAIN a = 1..(m - 1)
        BY <2>4
      <3> QED
        BY <2>4, <3>1, <3>2 DEF Blanks
    <2>7. Blanks(c)
      <3>1. ASSUME NEW i \in 1..(Len(t) - k) PROVE t[k + i] \in Space
        <4>1. k + i \notin kept /\ k + i \in DOMAIN t
          BY <1>2, <2>1, <2>3
        <4> QED
          BY <4>1 DEF kept
      <3>2. DOMAIN c = 1..(Len(t) - k)
        BY <2>4
      <3> QED
        BY <2>4, <3>1, <3>2 DEF Blanks
    <2>8. Words(a \o b) = Words(b)
      BY <2>4, <2>6, BlanksBefore
    <2> DEFINE d == a \o b
    <2>9. d \in Seq(Mark)
      BY <2>4
    <2> HIDE DEF d
    <2>10. Words(d \o c) = Words(d)
      BY <2>4, <2>7, <2>9, BlanksAfter
    <2> QED
      BY <2>4, <2>5, <2>8, <2>10 DEF d
  <1> QED
    BY <1>3, <1>4

(* The first character of a text. *)
LEMMA FirstAlone ==
  ASSUME NEW S, NEW s \in Seq(S), Len(s) >= 1
  PROVE  SubSeq(s, 1, 1) = <<s[1]>>
PROOF
  <1> DEFINE u == SubSeq(s, 1, 1)
             v == <<s[1]>>
  <1>1. u \in Seq(S) /\ Len(u) = 1 /\ u[1] = s[1]
    OBVIOUS
  <1>2. v \in Seq(S) /\ Len(v) = 1 /\ v[1] = s[1]
    OBVIOUS
  <1> HIDE DEF u, v
  <1>3. u = v
    BY <1>1, <1>2, SameText
  <1> QED
    BY <1>3 DEF u, v

(* A note of one kind of event begins with its word.                       *)
LEMMA KindOf ==
  ASSUME NEW w
  PROVE  Kind(<<w>>) = <<"issue">> <=> w \in {"Issue", "issue"}
PROOF
  <1>1. Blank \notin {"Issue", "issue", "Commit"}
    BY DEF Blank
  <1>2. CASE w = Blank
    <2>1. {i \in DOMAIN <<w>> : <<w>>[i] \notin Space} = {}
      BY <1>2 DEF Space
    <2>2. TrimSpace(<<w>>) = << >>
      BY <2>1, Zenon DEF TrimSpace
    <2>3. << >> # <<"Commit">> /\ << >> # <<"issue">> /\ ToLower(<< >>) = << >>
      BY DEF ToLower
    <2>4. Kind(<<w>>) = << >>
      BY <2>2, <2>3, Zenon DEF Kind
    <2> QED
      BY <1>1, <1>2, <2>3, <2>4
  <1>3. CASE w # Blank
    <2> DEFINE kept == {i \in DOMAIN <<w>> : <<w>>[i] \notin Space}
    <2>1. kept = {1}
      BY <1>3 DEF Space
    <2>2. TrimSpace(<<w>>) = SubSeq(<<w>>, Min(kept), Max(kept))
      BY <2>1, Zenon DEF TrimSpace
    <2> HIDE DEF kept
    <2>3. Min(kept) = 1 /\ Max(kept) = 1
      BY <2>1 DEF Min, Max
    <2>4. TrimSpace(<<w>>) = <<w>>
      <3>1. SubSeq(<<w>>, 1, 1) = <<w>>
        <4> DEFINE v == <<w>>
        <4>1. v \in Seq({w}) /\ Len(v) = 1 /\ v[1] = w
          OBVIOUS
        <4> HIDE DEF v
        <4>2. SubSeq(v, 1, 1) = <<v[1]>>
          BY <4>1, FirstAlone
        <4> QED
          BY <4>1, <4>2 DEF v
      <3> QED
        BY <2>2, <2>3, <3>1, Zenon
    <2>5. CASE w = "Commit"
      <3>1. Kind(<<w>>) = <<"git">>
        BY <2>4, <2>5, Zenon DEF Kind
      <3> QED
        BY <2>5, <3>1
    <2>6. CASE w # "Commit"
      <3>1. ToLower(<<w>>) = <<lower(w)>>
        BY DEF ToLower
      <3>2. <<w>> # <<"Commit">>
        BY <2>6
      <3>3. Kind(<<w>>) = <<lower(w)>>
        BY <2>4, <3>1, <3>2, Zenon DEF Kind
      <3>4. lower(w) = "issue" <=> w \in {"Issue", "issue"}
        BY DEF lower, Lower
      <3>5. <<lower(w)>> = <<"issue">> <=> lower(w) = "issue"
        OBVIOUS
      <3> QED
        BY <3>3, <3>4, <3>5, Zenon
    <2> QED
      BY <2>5, <2>6
  <1> QED
    BY <1>2, <1>3

(* The kind of a note ends at the colon after its word, whatever colons    *)
(* its title has, and its title is what follows.                           *)
LEMMA NoteCut ==
  ASSUME NEW w, NEW t \in Seq(Char), NEW content, content = <<w, ":", Blank>> \o t
  PROVE  /\ Head(content) = w /\ SubSeq(content, 4, Len(content)) = t
         /\ splitKind(content) = [kind |-> Kind(<<w>>), summary |-> TrimSpace(t)]
PROOF
  <1> DEFINE R    == {w, ":", Blank} \cup Char
             kind == <<w, ":", Blank>>
             n    == Len(t)
  <1>0. t \in Seq(R) /\ n \in Nat /\ kind \in Seq(R)
    OBVIOUS
  <1>1. /\ content \in Seq(R) /\ Len(content) = 3 + n
        /\ content[1] = w /\ content[2] = ":" /\ content[3] = Blank
        /\ \A i \in 1..n : content[3 + i] = t[i]
    <2>1. Len(kind) = 3 /\ kind[1] = w /\ kind[2] = ":" /\ kind[3] = Blank
      OBVIOUS
    <2>2. content = kind \o t
      OBVIOUS
    <2> HIDE DEF kind, R
    <2>3. /\ kind \o t \in Seq(R)
          /\ Len(kind \o t) = Len(kind) + Len(t)
          /\ \A i \in 1..Len(kind) : (kind \o t)[i] = kind[i]
          /\ \A i \in 1..Len(t) : (kind \o t)[Len(kind) + i] = t[i]
      BY <1>0, Joined
    <2> QED
      BY <1>0, <2>1, <2>2, <2>3
  <1> HIDE DEF R, kind, n
  <1>2. 2 \in Colons(content) /\ \A i \in Colons(content) : i \in Nat /\ i >= 2
    <2>1. Colons(content) = {i \in 1..(2 + n) : content[i] = ":" /\ content[i + 1] = Blank}
      <3>1. Len(content) - 1 = 2 + n
        BY <1>0, <1>1
      <3> QED
        BY <3>1, Zenon DEF Colons
    <2>2. ":" # Blank
      BY DEF Blank
    <2>3. content[2] = ":" /\ content[2 + 1] = Blank /\ 2 \in 1..(2 + n)
      BY <1>0, <1>1
    <2>4. content[1 + 1] # Blank
      BY <1>1, <2>2
    <2>5. ASSUME NEW i \in Colons(content)
          PROVE  i \in Nat /\ i >= 2
      <3>1. i \in 1..(2 + n) /\ content[i + 1] = Blank
        BY <2>1, Zenon
      <3>2. i # 1
        BY <2>4, <3>1, Zenon
      <3> QED
        BY <1>0, <3>1, <3>2
    <2> QED
      BY <2>1, <2>3, <2>5, Zenon
  <1>3. Min(Colons(content)) = 2
    <2> DEFINE places == Colons(content)
    <2>1. 2 \in places /\ \A i \in places : i \in Nat /\ i >= 2
      BY <1>2
    <2> HIDE DEF places
    <2>2. Min(places) = 2
      BY <2>1 DEF Min
    <2> QED
      BY <2>2 DEF places
  <1>4. SubSeq(content, 4, Len(content)) = t
    <2>1. Len(content) \in Nat /\ Len(content) >= 3 /\ 4 \in 1..(Len(content) + 1)
      BY <1>0, <1>1
    <2> DEFINE rest == SubSeq(content, 4, Len(content))
    <2>2. /\ rest \in Seq(R) /\ Len(rest) = Len(content) - 4 + 1
          /\ \A i \in 1..(Len(content) - 4 + 1) : rest[i] = content[4 + i - 1]
      BY <1>1, <2>1, EndOf
    <2> HIDE DEF rest
    <2>3. Len(rest) = n /\ \A i \in 1..n : rest[i] = t[i]
      <3>1. \A i \in 1..n : 4 + i - 1 = 3 + i
        BY <1>0
      <3> QED
        BY <1>0, <1>1, <2>2, <3>1
    <2>4. rest = t
      BY <1>0, <2>2, <2>3, SameText DEF n
    <2> QED
      BY <2>4 DEF rest
  <1>5. splitKind(content) = CutAt(content, 2)
    BY <1>2, <1>3 DEF splitKind
  <1>6. SubSeq(content, 1, 2 - 1) = <<w>>
    <2>1. SubSeq(content, 1, 1) = <<content[1]>>
      <3>1. content \in Seq(R) /\ Len(content) >= 1
        BY <1>0, <1>1
      <3> QED
        BY <3>1, FirstAlone, Zenon
    <2> QED
      BY <1>1, <2>1
  <1>7. CutAt(content, 2) = [kind |-> Kind(<<w>>), summary |-> TrimSpace(t)]
    <2>1. 2 + 2 = 4
      OBVIOUS
    <2>2. CutAt(content, 2) = [kind    |-> Kind(SubSeq(content, 1, 2 - 1)),
                               summary |-> TrimSpace(SubSeq(content, 4, Len(content)))]
      BY <2>1, Zenon DEF CutAt
    <2> QED
      BY <1>4, <1>6, <2>2, Zenon
  <1>8. Head(content) = w
    BY <1>0, <1>1
  <1> QED
    BY <1>4, <1>5, <1>7, <1>8

(* The first member of a text that is in a set. *)
In(s, G)    == {i \in DOMAIN s : s[i] \in G}
First(s, G) == s[Min(In(s, G))]

(* With one more member, the first one stays the first one. *)
LEMMA FirstAppend ==
  ASSUME NEW S, NEW s \in Seq(S), NEW x \in S, NEW G
  PROVE  /\ In(Append(s, x), G) = {} <=> In(s, G) = {} /\ x \notin G
         /\ In(s, G) # {} => First(Append(s, x), G) = First(s, G)
         /\ In(s, G) = {} /\ x \in G => First(Append(s, x), G) = x
PROOF
  <1> DEFINE w == Append(s, x)
             n == Len(s)
             K == In(s, G)
             L == In(w, G)
  <1>1. /\ n \in Nat /\ DOMAIN s = 1..n /\ DOMAIN w = 1..(n + 1) /\ w[n + 1] = x
        /\ \A i \in 1..n : w[i] = s[i]
    OBVIOUS
  <1> HIDE DEF w, n
  <1>2. K = {i \in 1..n : s[i] \in G} /\ L = {i \in 1..(n + 1) : w[i] \in G}
    BY <1>1, Zenon DEF In
  <1> HIDE DEF K, L
  <1>3. /\ K \subseteq 1..n /\ L \subseteq 1..(n + 1)
        /\ \A i \in 1..n : i \in L <=> i \in K
        /\ n + 1 \in L <=> x \in G
        /\ \A i \in 1..(n + 1) : i \in 1..n \/ i = n + 1
        /\ n + 1 \in 1..(n + 1) /\ \A i \in 1..n : i \in 1..(n + 1)
    BY <1>1, <1>2
  <1>4. L = {} <=> K = {} /\ x \notin G
    BY <1>3
  <1>5. ASSUME K # {} PROVE w[Min(L)] = s[Min(K)]
    <2>1. K \subseteq Nat /\ L \subseteq Nat
      BY <1>1, <1>3
    <2>2. PICK m \in K : \A k \in K : m <= k
      BY <1>5, <2>1, Least
    <2>3. m \in L /\ \A k \in L : m <= k
      <3>1. m \in 1..n /\ m \in L
        BY <1>3, <2>2
      <3>2. ASSUME NEW k \in L PROVE m <= k
        <4>1. k \in 1..n \/ k = n + 1
          BY <1>3
        <4> QED
          BY <1>1, <1>3, <2>2, <3>1, <4>1
      <3> QED
        BY <3>1, <3>2
    <2>4. Min(L) = m /\ Min(K) = m
      BY <2>1, <2>2, <2>3, Extremes
    <2> QED
      BY <1>1, <1>3, <2>2, <2>4
  <1>6. ASSUME K = {}, x \in G PROVE w[Min(L)] = x
    <2>1. L = {n + 1}
      BY <1>3, <1>6
    <2>2. Min(L) = n + 1
      BY <1>1, <2>1 DEF Min
    <2> QED
      BY <1>1, <2>2
  <1> QED
    BY <1>4, <1>5, <1>6, Zenon DEF First, K, L, w

(* The notes that Graft can publish. *)
NoteText(w, t) == <<w, ":", Blank>> \o t

Contents == {NoteText(w, t) : w \in KindWord, t \in Title}
Note     == [uri : Origin \X Nat, content : Contents]

(* What ParseNotes makes of notes. *)
Infos == {NoteInfo(n) : n \in Note}

Parsed(n) == IF n.uri[1] = "graft" THEN <<NoteInfo(n)>> ELSE << >>

(* A note is read as one of Infos. *)
LEMMA ParsedType ==
  ASSUME NEW n \in Note
  PROVE  NoteInfo(n) \in Infos /\ Parsed(n) \in Seq(Infos)
PROOF
  <1>1. NoteInfo(n) \in Infos
    BY DEF Infos
  <1> HIDE DEF Infos
  <1>2. <<NoteInfo(n)>> \in Seq(Infos) /\ << >> \in Seq(Infos)
    BY <1>1
  <1> QED
    BY <1>1, <1>2, Zenon DEF Parsed

(* Notes are read one after the other. *)
LEMMA ParseAppend ==
  /\ ParseNotes(<< >>) = << >>
  /\ \A o \in Seq(Note), n \in Note :
       /\ ParseNotes(o) \in Seq(Infos)
       /\ ParseNotes(Append(o, n)) =
            IF n.uri[1] = "graft" THEN Append(ParseNotes(o), NoteInfo(n)) ELSE ParseNotes(o)
PROOF
  <1> DEFINE Each(o) == [i \in DOMAIN o |-> Parsed(o[i])]
  <1>0. \A o : ParseNotes(o) = FlattenSeq(Each(o))
    BY Zenon DEF ParseNotes, Parsed
  <1>1. ParseNotes(<< >>) = << >>
    <2>1. Each(<< >>) = << >>
      OBVIOUS
    <2>2. << >> \in Seq(Seq(Infos)) /\ << >> \in Seq(Infos)
      OBVIOUS
    <2>3. FlattenSeq(<< >>) = << >>
      BY <2>2, FlattenAppend
    <2> QED
      BY <1>0, <2>1, <2>3, Zenon
  <1>2. ASSUME NEW o \in Seq(Note), NEW n \in Note
        PROVE  /\ ParseNotes(o) \in Seq(Infos)
               /\ ParseNotes(Append(o, n)) =
                    IF n.uri[1] = "graft" THEN Append(ParseNotes(o), NoteInfo(n))
                                          ELSE ParseNotes(o)
    <2> DEFINE I == Infos
               N == Note
               p == Parsed(n)
               e == Each(o)
    <2>1. NoteInfo(n) \in I /\ p \in Seq(I) /\ \A m \in N : Parsed(m) \in Seq(I)
      BY ParsedType
    <2> HIDE DEF I, N
    <2>2. /\ o \in Seq(N) /\ n \in N
      BY DEF N
    <2>3. e \in Seq(Seq(I))
      <3> DEFINE J == Seq(I)
                 l == Len(o)
      <3>1. l \in Nat /\ DOMAIN o = 1..l /\ \A i \in 1..l : o[i] \in N
        BY <2>2
      <3>2. \A m \in N : Parsed(m) \in J
        BY <2>1
      <3> HIDE DEF J, l
      <3>3. e = [i \in 1..l |-> Parsed(o[i])]
        BY <3>1
      <3>4. \A i \in 1..l : Parsed(o[i]) \in J
        BY <3>1, <3>2
      <3> HIDE DEF e
      <3>5. e \in [1..l -> J]
        BY <3>3, <3>4
      <3>6. e \in Seq(J)
        BY <3>1, <3>5
      <3> QED
        BY <3>6 DEF J
    <2>4. Each(Append(o, n)) = Append(e, p)
      BY <2>2
    <2> HIDE DEF e, p, Each
    <2>5. FlattenSeq(e) \in Seq(I) /\ FlattenSeq(Append(e, p)) = FlattenSeq(e) \o p
      BY <2>1, <2>3, FlattenAppend
    <2>6. ParseNotes(o) = FlattenSeq(e) /\ ParseNotes(Append(o, n)) = FlattenSeq(e) \o p
      BY <1>0, <2>4, <2>5 DEF e
    <2> DEFINE f == FlattenSeq(e)
    <2> HIDE DEF f
    <2>7. f \in Seq(I)
      BY <2>5 DEF f
    <2>8. f \o << >> = f /\ f \o <<NoteInfo(n)>> = Append(f, NoteInfo(n))
      BY <2>1, <2>7
    <2>9. p = IF n.uri[1] = "graft" THEN <<NoteInfo(n)>> ELSE << >>
      BY Zenon DEF p, Parsed
    <2> QED
      BY <2>6, <2>7, <2>8, <2>9, Zenon DEF f, I
  <1> QED
    BY <1>1, <1>2

(* The notes that name an issue as a topic does, as they are read and as   *)
(* they are published.                                                     *)
Named(title) ==
  {p \in Infos : p.kind = <<"issue">> /\ NormalizeTitle(p.summary) = NormalizeTitle(title)}

Issues(title) ==
  {n \in Note : /\ n.uri[1] = "graft"
                /\ Head(n.content) \in {"Issue", "issue"}
                /\ Words(SubSeq(n.content, 4, Len(n.content))) = Words(title)}

(* A note names an issue as the topic does if it was published so.         *)
LEMMA SameIssue ==
  ASSUME NEW title \in Seq(Char), NEW n \in Note, n.uri[1] = "graft"
  PROVE  /\ NoteInfo(n) \in Named(title) <=> n \in Issues(title)
         /\ NoteInfo(n).uri = n.uri
PROOF
  <1>1. n.content \in Contents
    BY DEF Note
  <1>2. PICK w \in KindWord, t \in Title : n.content = <<w, ":", Blank>> \o t
    <2>1. PICK w \in KindWord, t \in Title : n.content = NoteText(w, t)
      BY <1>1 DEF Contents
    <2> QED
      BY <2>1, Zenon DEF NoteText
  <1>3. t \in Seq(Char)
    BY TitlesAssumption
  <1> DEFINE c == n.content
  <1>4. /\ Head(c) = w /\ SubSeq(c, 4, Len(c)) = t
        /\ splitKind(c) = [kind |-> Kind(<<w>>), summary |-> TrimSpace(t)]
    BY <1>2, <1>3, NoteCut, Zenon
  <1>5. NoteInfo(n) = [uri |-> n.uri, kind |-> Kind(<<w>>), summary |-> TrimSpace(t)]
    <2> DEFINE text == splitKind(c)
    <2>1. NoteInfo(n) = [uri |-> n.uri, kind |-> text.kind, summary |-> text.summary]
      BY Zenon DEF NoteInfo
    <2>2. text = [kind |-> Kind(<<w>>), summary |-> TrimSpace(t)]
      BY <1>4
    <2> HIDE DEF text
    <2>3. text.kind = Kind(<<w>>) /\ text.summary = TrimSpace(t)
      BY <2>2
    <2> QED
      BY <2>1, <2>3
  <1> HIDE DEF c
  <1>6. NoteInfo(n) \in Infos
    BY ParsedType
  <1>7. NormalizeTitle(TrimSpace(t)) = NormalizeTitle(title) <=> Words(t) = Words(title)
    <2>1. t \in Seq(Mark) /\ title \in Seq(Mark)
      BY <1>3 DEF Mark
    <2>2. TrimSpace(t) \in Seq(Mark) /\ Words(TrimSpace(t)) = Words(t)
      BY <2>1, WordsTrimmed
    <2>3. /\ NormalizeTitle(TrimSpace(t)) = Sentence(Words(TrimSpace(t)))
          /\ NormalizeTitle(title) = Sentence(Words(title))
          /\ Words(NormalizeTitle(TrimSpace(t))) = Words(TrimSpace(t))
          /\ Words(NormalizeTitle(title)) = Words(title)
      BY <2>1, <2>2, NormalSentence, NormalWords
    <2> QED
      BY <2>2, <2>3, Zenon
  <1>8. Kind(<<w>>) = <<"issue">> <=> w \in {"Issue", "issue"}
    BY KindOf
  <1> DEFINE k == Kind(<<w>>)
             u == TrimSpace(t)
             p == NoteInfo(n)
  <1>9. p.uri = n.uri /\ p.kind = k /\ p.summary = u
    BY <1>5
  <1> HIDE DEF k, u, p
  <1>10. p \in Named(title) <=> k = <<"issue">> /\ NormalizeTitle(u) = NormalizeTitle(title)
    BY <1>6, <1>9, Zenon DEF Named, p
  <1>11. n \in Issues(title) <=> w \in {"Issue", "issue"} /\ Words(t) = Words(title)
    BY <1>4, Zenon DEF Issues, c
  <1> QED
    BY <1>7, <1>8, <1>9, <1>10, <1>11, Zenon DEF k, u, p

(* Where the first issue under a title is read, the first one is published.*)
LEMMA FirstIssue ==
  ASSUME NEW title \in Seq(Char), NEW o \in Seq(Note)
  PROVE  /\ In(ParseNotes(o), Named(title)) = {} <=> In(o, Issues(title)) = {}
         /\ In(o, Issues(title)) # {} =>
              First(ParseNotes(o), Named(title)).uri = First(o, Issues(title)).uri
PROOF
  <1> DEFINE G == Named(title)
             H == Issues(title)
             Agree(x) == /\ In(ParseNotes(x), G) = {} <=> In(x, H) = {}
                         /\ In(x, H) # {} => First(ParseNotes(x), G).uri = First(x, H).uri
             P == {x \in Seq(Note) : Agree(x)}
  <1>1. << >> \in P
    <2>1. << >> \in Seq(Note)
      OBVIOUS
    <2> HIDE DEF G, H
    <2>2. In(<< >>, G) = {} /\ In(<< >>, H) = {}
      BY DEF In
    <2> QED
      BY <2>1, <2>2, ParseAppend, Zenon
  <1>2. ASSUME NEW x \in Seq(Note), NEW n \in Note, x \in P PROVE Append(x, n) \in P
    <2> DEFINE N == Note
               I == Infos
               p == ParseNotes(x)
               q == NoteInfo(n)
               y == Append(x, n)
    <2>1. p \in Seq(I) /\ q \in I
          /\ ParseNotes(y) = IF n.uri[1] = "graft" THEN Append(p, q) ELSE p
      BY ParseAppend, ParsedType, Zenon
    <2>2. Agree(x)
      BY <1>2
    <2>3. y \in Seq(Note)
      OBVIOUS
    <2>4. n \in H => n.uri[1] = "graft"
      BY DEF Issues
    <2>5. n.uri[1] = "graft" => (q \in G <=> n \in H) /\ q.uri = n.uri
      BY SameIssue, Zenon
    <2>6. /\ In(y, H) = {} <=> In(x, H) = {} /\ n \notin H
          /\ In(x, H) # {} => First(y, H) = First(x, H)
          /\ In(x, H) = {} /\ n \in H => First(y, H) = n
      <3> HIDE DEF H
      <3>1. x \in Seq(N) /\ n \in N
        OBVIOUS
      <3> HIDE DEF N
      <3> QED
        BY <3>1, FirstAppend
    <2> HIDE DEF G, H, p, q, y, I
    <2>7. CASE n.uri[1] = "graft"
      <3>1. ParseNotes(y) = Append(p, q)
        BY <2>1, <2>7
      <3>2. /\ In(Append(p, q), G) = {} <=> In(p, G) = {} /\ q \notin G
            /\ In(p, G) # {} => First(Append(p, q), G) = First(p, G)
            /\ In(p, G) = {} /\ q \in G => First(Append(p, q), G) = q
        BY <2>1, FirstAppend, SMTT(30)
      <3>3. Agree(y)
        BY <2>2, <2>5, <2>6, <2>7, <3>1, <3>2, Zenon DEF p
      <3> QED
        BY <2>3, <3>3 DEF y
    <2>8. CASE n.uri[1] # "graft"
      <3>1. ParseNotes(y) = p
        BY <2>1, <2>8
      <3>2. Agree(y)
        BY <2>2, <2>4, <2>6, <2>8, <3>1, Zenon DEF p
      <3> QED
        BY <2>3, <3>2 DEF y
    <2> QED
      BY <2>7, <2>8
  <1>3. Seq(Note) \subseteq P
    <2> HIDE DEF P
    <2> QED
      BY <1>1, <1>2, ByAppending
  <1> QED
    BY <1>3

(* The outbox has notes that Graft published, and nothing else.            *)
OutboxOK == outbox \in Seq(Note)

(* The outbox has such notes in every state. *)
LEMMA OutboxType == Spec => []OutboxOK
PROOF
  <1>1. Init => OutboxOK
    BY DEF Init, OutboxOK
  <1>2. OutboxOK /\ [Next]_vars => OutboxOK'
    <2> SUFFICES ASSUME OutboxOK, [Next]_vars
                 PROVE  OutboxOK'
      OBVIOUS
    <2>1. CASE Forget
      BY <2>1 DEF Forget, OutboxOK
    <2>2. ASSUME NEW o \in Origin, NEW w \in KindWord, NEW t \in Title, Publish(o, w, t)
          PROVE  OutboxOK'
      <3> DEFINE n == [uri |-> <<o, Len(outbox)>>, content |-> <<w, ":", Blank>> \o t]
      <3>1. outbox' = Append(outbox, n)
        BY <2>2 DEF Publish
      <3>2. NoteText(w, t) \in Contents
        BY DEF Contents
      <3>3. <<o, Len(outbox)>> \in Origin \X Nat
        BY DEF OutboxOK
      <3>4. n \in Note
        BY <3>2, <3>3, Zenon DEF Note, NoteText
      <3> HIDE DEF n
      <3> QED
        BY <3>1, <3>4 DEF OutboxOK
    <2>3. CASE UNCHANGED outbox
      BY <2>3 DEF OutboxOK
    <2> QED
      BY <2>1, <2>2, <2>3 DEF Next, vars
  <1> QED
    BY <1>1, <1>2, PTL DEF Spec

(* In every outbox Graft can serve, the issue a topic is bound to is the   *)
(* first that was published under the topic's words, and there is one if   *)
(* any was: foreign notes, other kinds and colons in titles do not mislead *)
(* it (note.go:38-76, 103-111).                                           *)
THEOREM TopicFindsTheFirstIssue == Spec => []MatchesSameWords
PROOF
  <1>1. OutboxOK /\ TypeOK => MatchesSameWords
    <2> SUFFICES ASSUME OutboxOK, TypeOK PROVE MatchesSameWords
      OBVIOUS
    <2> DEFINE p      == ParseNotes(outbox)
               G      == Named(topic)
               H      == Issues(topic)
               named  == {i \in DOMAIN p : /\ p[i].kind = <<"issue">>
                                           /\ NormalizeTitle(p[i].summary)
                                                = NormalizeTitle(topic)}
               issues == {i \in DOMAIN outbox :
                            /\ outbox[i].uri[1] = "graft"
                            /\ Head(outbox[i].content) \in {"Issue", "issue"}
                            /\ Words(SubSeq(outbox[i].content, 4, Len(outbox[i].content)))
                                 = Words(topic)}
    <2>1. outbox \in Seq(Note) /\ topic \in Seq(Char) /\ p \in Seq(Infos)
      BY ParseAppend DEF OutboxOK, TypeOK
    <2>2. named = In(p, G)
      <3>1. \A i \in DOMAIN p : p[i] \in Infos
        BY <2>1
      <3> HIDE DEF p
      <3> QED
        BY <3>1, Zenon DEF In, Named
    <2>3. issues = In(outbox, H)
      <3>1. \A i \in DOMAIN outbox : outbox[i] \in Note
        BY <2>1
      <3> QED
        BY <3>1, Zenon DEF In, Issues
    <2>4. /\ In(p, G) = {} <=> In(outbox, H) = {}
          /\ In(outbox, H) # {} => First(p, G).uri = First(outbox, H).uri
      BY <2>1, FirstIssue
    <2>5. MatchIssueByTitle(p, topic) = IF named = {} THEN NoMatch ELSE p[Min(named)]
      BY Zenon DEF MatchIssueByTitle
    <2>6. MatchesSameWords <=>
            MatchIssueByTitle(p, topic).uri = IF issues = {} THEN << >>
                                              ELSE outbox[Min(issues)].uri
      BY Zenon DEF MatchesSameWords
    <2> HIDE DEF p, G, H, named, issues
    <2>7. NoMatch.uri = << >>
      BY DEF NoMatch
    <2> QED
      BY <2>2, <2>3, <2>4, <2>5, <2>6, <2>7, Zenon DEF First
  <1> QED
    BY <1>1, TopicType, OutboxType, PTL
=============================================================================
