---------------------------- MODULE MCStateFile ----------------------------
(***************************************************************************)
(* The daemon and a second process on one state file, under a umask that   *)
(* would hide a new file from its owner.  Temporary names are alike.       *)
(***************************************************************************)
EXTENDS StateFile, TLC

CONSTANTS t1, t2, t3

TempNames == {t1, t2, t3}
TempSymmetry == Permutations(TempNames)
=============================================================================
