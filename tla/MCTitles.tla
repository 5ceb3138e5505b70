------------------------------ MODULE MCTitles ------------------------------
(***************************************************************************)
(* Titles with punctuation inside a word, a gap of two spaces, an upper    *)
(* case letter, and a colon of their own.                                  *)
(***************************************************************************)
EXTENDS Titles

TitlesWithTraps == { <<"a">>, <<"A", "-", "b">>, <<"a", " ", " ", "b">>,
                     <<"b", ":", " ", "a">> }
=============================================================================
