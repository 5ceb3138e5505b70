------------------------------- MODULE Ledger -------------------------------
(***************************************************************************)
(* What each direction of the bridge promises.  Items are sent, one at a   *)
(* time; a durable record says which need not be sent again.  The record   *)
(* names only items that were sent, or that are excused from it, and what  *)
(* it names is not sent.  An item is sent twice only at the price of a     *)
(* mishap, all items together: never more repetitions than mishaps.        *)
(***************************************************************************)
EXTENDS Naturals, FiniteSets

VARIABLES
  sent,         \* attempt -> the item it sent
  recorded,     \* the items on record
  excused,      \* items that need not be sent; the surroundings decide
  mishaps       \* how much has gone wrong

ledger == <<sent, recorded, mishaps>>

Items(s) == {s[d] : d \in DOMAIN s}

Repeats(s) == Cardinality({d \in DOMAIN s : \E e \in DOMAIN s : e < d /\ s[e] = s[d]})

Init ==
  /\ DOMAIN sent = {}
  /\ recorded = {}
  /\ mishaps = 0

\* An item is sent; the answer may be lost, which is a mishap.
Send ==
  /\ \E d \in DOMAIN sent' \ DOMAIN sent :
       /\ DOMAIN sent' = DOMAIN sent \cup {d}
       /\ \A e \in DOMAIN sent : e < d /\ sent'[e] = sent[e]
       /\ sent'[d] \notin recorded
  /\ Repeats(sent') <= mishaps
  /\ mishaps' \in {mishaps, mishaps + 1}
  /\ UNCHANGED recorded

\* Nothing is struck from the record, and nothing false is added.
Record ==
  /\ recorded \subseteq recorded'
  /\ recorded' \subseteq Items(sent) \cup excused
  /\ UNCHANGED <<sent, mishaps>>

Mishap ==
  /\ mishaps' = mishaps + 1
  /\ UNCHANGED <<sent, recorded>>

Next == Send \/ Record \/ Mishap

Spec == Init /\ [][Next]_ledger
=============================================================================
