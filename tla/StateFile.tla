----------------------------- MODULE StateFile -----------------------------
(***************************************************************************)
(* How a State gets to disk (internal/state/state.go, saveLocked and Load):*)
(* a change under the mutex, a temporary file of a fresh name, its         *)
(* contents, its mode, a rename over state.json.  Any step may fail, and   *)
(* the process may end between any two; a temporary file may be left.      *)
(*                                                                         *)
(* Nothing keeps two processes off one file (a run with -once beside the   *)
(* daemon).  Calls of one process are serialised by its mutex, so a        *)
(* process is in one call at a time; module State has that call as one     *)
(* step, and Store says what it promises.                                  *)
(***************************************************************************)
EXTENDS Functions, GoMaps

CONSTANTS
  Process, Contents, Empty, Down,    \* as in Store
  Temp,         \* names of temporary files (os.CreateTemp)
  UmaskHides    \* whether the umask keeps new files from their owner

StateJson == "state.json"

ASSUME StateFileAssumption ==
  /\ Empty \in Contents /\ Down \notin Contents
  /\ StateJson \notin Temp
  /\ UmaskHides \in BOOLEAN

VARIABLES
  files,        \* the directory: name -> contents, whole or not, readable or not
  pc,           \* process -> "down", "idle", or the next step of its save
  mem,          \* process -> the maps in its memory
  before,       \* history: process -> its maps before the change being saved,
                \* Empty when there is none
  temp,         \* process -> tmpName, StateJson when there is none
  answer        \* process -> what its last save returned

vars == <<files, pc, mem, before, temp, answer>>

Steps == {"create", "write", "close", "chmod", "rename"}

Init ==
  /\ files = EmptyMap
  /\ pc = [p \in Process |-> "down"]
  /\ mem = [p \in Process |-> Empty]
  /\ before = [p \in Process |-> Empty]
  /\ temp = [p \in Process |-> StateJson]
  /\ answer = [p \in Process |-> "none"]

At(p, from, to) == pc[p] = from /\ pc' = [pc EXCEPT ![p] = to]

Loadable(f) == f.whole /\ f.readable

\* Load: no file is an empty state; one that cannot be read or parsed is
\* refused, and the process ends.
Load(p) ==
  /\ At(p, "down", "idle")
  /\ \/ /\ StateJson \notin DOMAIN files
        /\ mem' = [mem EXCEPT ![p] = Empty]
     \/ /\ StateJson \in DOMAIN files
        /\ Loadable(files[StateJson])
        /\ mem' = [mem EXCEPT ![p] = files[StateJson].maps]
  /\ UNCHANGED <<files, before, temp, answer>>

\* A mutator takes the mutex, changes the maps and calls saveLocked, which
\* prunes them: s is the result.
Change(p, s) ==
  /\ At(p, "idle", "create")
  /\ before' = [before EXCEPT ![p] = mem[p]]
  /\ mem' = [mem EXCEPT ![p] = s]
  /\ UNCHANGED <<files, temp, answer>>

\* Mutation: the file is created whether or not it exists.
AnyName(t) == TRUE

\* os.CreateTemp creates a file that does not exist, with mode 0600 less the
\* umask.
FreshName(t) == t \notin DOMAIN files

CreateTemp(p, t) ==
  /\ FreshName(t)
  /\ At(p, "create", "write")
  /\ files' = Put(files, t, [maps |-> mem[p], whole |-> FALSE,
                             readable |-> ~UmaskHides])
  /\ temp' = [temp EXCEPT ![p] = t]
  /\ UNCHANGED <<mem, before, answer>>

Update(p, f) ==
  /\ files' = [files EXCEPT ![temp[p]] = f]
  /\ UNCHANGED <<mem, before, temp, answer>>

Write(p) ==
  /\ At(p, "write", "close")
  /\ Update(p, [files[temp[p]] EXCEPT !.maps = mem[p], !.whole = TRUE])

Close(p) ==
  /\ At(p, "close", "chmod")
  /\ UNCHANGED <<files, mem, before, temp, answer>>

\* Mutation: the mode is left to the umask.
ChmodSkipped(p) ==
  /\ At(p, "chmod", "rename")
  /\ UNCHANGED <<files, mem, before, temp, answer>>

Chmod(p) ==
  /\ At(p, "chmod", "rename")
  /\ Update(p, [files[temp[p]] EXCEPT !.readable = TRUE])

Removed(t) == Restrict(files, DOMAIN files \ {t})

\* saveLocked returns.
Return(p, result) ==
  /\ before' = [before EXCEPT ![p] = Empty]
  /\ temp' = [temp EXCEPT ![p] = StateJson]
  /\ answer' = [answer EXCEPT ![p] = result]

Rename(p) ==
  /\ At(p, "rename", "idle")
  /\ files' = Put(Removed(temp[p]), StateJson, files[temp[p]])
  /\ Return(p, "ok")
  /\ UNCHANGED mem

\* A step fails.  A file that was created and not renamed is removed, if the
\* removal works; one whose rename failed stays.
Fail(p) ==
  /\ pc[p] \in Steps
  /\ pc' = [pc EXCEPT ![p] = "idle"]
  /\ \/ pc[p] \in {"write", "close", "chmod"} /\ files' = Removed(temp[p])
     \/ UNCHANGED files
  /\ Return(p, "error")
  /\ UNCHANGED mem

Crash(p) ==
  /\ pc[p] # "down"
  /\ pc' = [pc EXCEPT ![p] = "down"]
  /\ mem' = [mem EXCEPT ![p] = Empty]
  /\ Return(p, "none")
  /\ UNCHANGED files

Next ==
  \E p \in Process :
    \/ Load(p)
    \/ \E s \in Contents : Change(p, s)
    \/ \E t \in Temp : CreateTemp(p, t)
    \/ Write(p) \/ Close(p) \/ Chmod(p) \/ Rename(p)
    \/ Fail(p) \/ Crash(p)

Spec == Init /\ [][Next]_vars

-----------------------------------------------------------------------------
(* Properties. *)

\* Whatever fails, wherever a process ends and however two of them interleave,
\* Load never refuses what a save has left: the actor's key pair and the
\* records of deliveries are never out of reach (state.go:132-167, 78-94).
AlwaysLoadable ==
  StateJson \in DOMAIN files => Loadable(files[StateJson])

\* The five steps of a save are one: it takes effect when the rename does,
\* for the file and for the answer, and a process that ends in the middle has
\* changed nothing ("Save atomically writes the state back to disk",
\* state.go:132), with two processes as with one.
Remembered ==
  [p \in Process |-> CASE pc[p] = "down" -> Down
                       [] pc[p] \in Steps -> before[p]
                       [] OTHER -> mem[p]]

OnFile == IF StateJson \in DOMAIN files THEN files[StateJson].maps ELSE Empty

Abstract == INSTANCE Store WITH mem <- Remembered, disk <- OnFile

ImplementsStore == Abstract!Spec
=============================================================================
