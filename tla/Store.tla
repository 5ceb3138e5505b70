------------------------------- MODULE Store -------------------------------
(***************************************************************************)
(* What the state file promises the processes that use it                  *)
(* (internal/state/state.go): a save happens at once or not at all, its    *)
(* answer says which, the memory keeps the change either way, and a        *)
(* process that starts finds the last save of anyone.                      *)
(***************************************************************************)
CONSTANTS
  Process,
  Contents,     \* what the maps may hold
  Empty,        \* the maps when there is no file yet
  Down          \* the memory of a process that is not running

VARIABLES
  mem,          \* process -> the maps in its memory
  disk,         \* the maps on file
  answer        \* process -> what its last save returned

vars == <<mem, disk, answer>>

Init ==
  /\ mem = [p \in Process |-> Down]
  /\ disk = Empty
  /\ answer = [p \in Process |-> "none"]

Load(p) ==
  /\ mem[p] = Down
  /\ mem' = [mem EXCEPT ![p] = disk]
  /\ UNCHANGED <<disk, answer>>

Saved(p, s) ==
  /\ mem[p] # Down
  /\ mem' = [mem EXCEPT ![p] = s]
  /\ disk' = s
  /\ answer' = [answer EXCEPT ![p] = "ok"]

NotSaved(p, s) ==
  /\ mem[p] # Down
  /\ mem' = [mem EXCEPT ![p] = s]
  /\ answer' = [answer EXCEPT ![p] = "error"]
  /\ UNCHANGED disk

Crash(p) ==
  /\ mem[p] # Down
  /\ mem' = [mem EXCEPT ![p] = Down]
  /\ answer' = [answer EXCEPT ![p] = "none"]
  /\ UNCHANGED disk

Next ==
  \E p \in Process :
    \/ Load(p) \/ Crash(p)
    \/ \E s \in Contents : Saved(p, s) \/ NotSaved(p, s)

Spec == Init /\ [][Next]_vars
=============================================================================
