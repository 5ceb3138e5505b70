----------------------------- MODULE MCDelivery -----------------------------
(***************************************************************************)
(* Two series inboxes of one Graft, a page beside them, a plaintext URL,   *)
(* an internal address and a local name.                                   *)
(***************************************************************************)
EXTENDS Delivery

At(scheme, host, path) == [scheme |-> scheme, host |-> host, path |-> path]

Inboxes  == {At("https", "graft", "s1"), At("https", "graft", "s2")}
Document == At("https", "graft", "page")
SomeUrls == Inboxes \cup {Document, At("http", "graft", "s1"),
                          At("https", "internal", "page"), At("https", "local", "page")}
FewUrls  == Inboxes \cup {Document}
=============================================================================
