--------------------------- MODULE StateFileProof ---------------------------
(***************************************************************************)
(* Any number of processes may save to one state file: it can always be    *)
(* loaded, and every save is one step of Store.                            *)
(***************************************************************************)
EXTENDS StateFile, TLAPS

File == [maps : Contents, whole : BOOLEAN, readable : BOOLEAN]

\* The steps at which a process has a temporary file, and at which it has
\* written it.
Holding == {"write", "close", "chmod", "rename"}
Written == {"close", "chmod", "rename"}

TypeOK ==
  /\ IsMap(files, Temp \cup {StateJson}, File)
  /\ pc \in [Process -> Steps \cup {"down", "idle"}]
  /\ mem \in [Process -> Contents]
  /\ before \in [Process -> Contents]
  /\ temp \in [Process -> Temp \cup {StateJson}]
  /\ answer \in [Process -> {"none", "ok", "error"}]

\* A process in a save has a file of its own, which nobody removes under it.
OwnTemp ==
  \A p \in Process : pc[p] \in Holding =>
    /\ temp[p] \in Temp
    /\ temp[p] \in DOMAIN files
    /\ \A q \in Process \ {p} : pc[q] \in Holding => temp[q] # temp[p]

\* What a process renames is its memory, whole, and readable.
TempWhole ==
  \A p \in Process : pc[p] \in Written =>
    /\ files[temp[p]].whole
    /\ files[temp[p]].maps = mem[p]
    /\ pc[p] = "rename" => files[temp[p]].readable

IInv == TypeOK /\ OwnTemp /\ TempWhole /\ AlwaysLoadable

-----------------------------------------------------------------------------
\* An entry added to a map (os.CreateTemp, os.Rename).
LEMMA PutFile ==
  ASSUME NEW K, NEW V, NEW m, IsMap(m, K, V), NEW k \in K, NEW v \in V
  PROVE  /\ IsMap(Put(m, k, v), K, V)
         /\ DOMAIN Put(m, k, v) = DOMAIN m \cup {k}
         /\ Put(m, k, v)[k] = v
         /\ \A x \in DOMAIN m : x # k => Put(m, k, v)[x] = m[x]
  BY DEF IsMap, Put

\* A file removed (os.Remove) leaves the others as they are.
LEMMA RemoveFile ==
  ASSUME NEW K, NEW V, IsMap(files, K, V), NEW t
  PROVE  /\ IsMap(Removed(t), K, V)
         /\ DOMAIN Removed(t) = DOMAIN files \ {t}
         /\ \A x \in DOMAIN files \ {t} : Removed(t)[x] = files[x]
  BY DEF IsMap, Removed, Restrict

\* A file replaced by one of the same name (File.Write, os.Chmod).
LEMMA ReplaceFile ==
  ASSUME NEW K, NEW V, NEW m, IsMap(m, K, V), NEW k \in DOMAIN m, NEW v \in V
  PROVE  /\ IsMap([m EXCEPT ![k] = v], K, V)
         /\ DOMAIN [m EXCEPT ![k] = v] = DOMAIN m
         /\ [m EXCEPT ![k] = v][k] = v
         /\ \A x \in DOMAIN m : x # k => [m EXCEPT ![k] = v][x] = m[x]
  BY DEF IsMap

\* There is no file, and nobody is in a save.
LEMMA InitIInv == Init => IInv
<1> SUFFICES ASSUME Init PROVE IInv
  OBVIOUS
<1>1. DOMAIN files = {} /\ IsMap(files, Temp \cup {StateJson}, File)
  BY DEF Init, EmptyMap, IsMap
<1>2. TypeOK
  BY <1>1, StateFileAssumption DEF Init, TypeOK
<1>3. OwnTemp /\ TempWhole
  BY DEF Init, OwnTemp, TempWhole, Holding, Written
<1>4. AlwaysLoadable
  BY <1>1 DEF AlwaysLoadable
<1> QED
  BY <1>2, <1>3, <1>4 DEF IInv

\* A step that leaves the files alone and p with none of its own keeps the
\* invariant (Load, Change, Crash, and a save that fails and removes nothing).
LEMMA KeepsFiles ==
  ASSUME IInv, NEW p \in Process, UNCHANGED files,
         NEW s, s \in {"down", "idle", "create"}, pc' = [pc EXCEPT ![p] = s],
         NEW c \in Contents, mem' = [mem EXCEPT ![p] = c],
         NEW b \in Contents, before' = [before EXCEPT ![p] = b],
         \/ UNCHANGED temp
         \/ temp' = [temp EXCEPT ![p] = StateJson],
         answer' \in [Process -> {"none", "ok", "error"}]
  PROVE  IInv'
<1> USE DEF IInv
<1>1. /\ \A q \in Process \ {p} : /\ pc'[q] = pc[q] /\ mem'[q] = mem[q]
                                  /\ temp'[q] = temp[q]
      /\ pc'[p] \notin Holding /\ pc'[p] \notin Written
  BY DEF TypeOK, Holding, Written
<1>2. TypeOK'
  BY DEF TypeOK, Steps
<1>3. OwnTemp'
  BY <1>1 DEF OwnTemp
<1>4. TempWhole'
  BY <1>1 DEF TempWhole
<1>5. AlwaysLoadable'
  BY DEF AlwaysLoadable, Loadable
<1> QED
  BY <1>2, <1>3, <1>4, <1>5

\* A load takes what is on file, or nothing (state.go:73-117).
LEMMA LoadIInv ==
  ASSUME IInv, NEW p \in Process, Load(p)
  PROVE  IInv'
<1>1. PICK c \in Contents : mem' = [mem EXCEPT ![p] = c]
  <2>1. CASE StateJson \in DOMAIN files
    <3>1. files[StateJson].maps \in Contents
      BY <2>1 DEF IInv, TypeOK, IsMap, File
    <3> QED
      BY <2>1, <3>1 DEF Load
  <2>2. CASE StateJson \notin DOMAIN files
    BY <2>2, StateFileAssumption DEF Load
  <2> QED
    BY <2>1, <2>2
<1>2. before[p] \in Contents /\ before' = [before EXCEPT ![p] = before[p]]
  BY DEF Load, IInv, TypeOK
<1>3. /\ UNCHANGED <<files, temp, answer>>
      /\ pc' = [pc EXCEPT ![p] = "idle"]
  BY DEF Load, At
<1>4. answer' \in [Process -> {"none", "ok", "error"}]
  BY <1>3 DEF IInv, TypeOK
<1> QED
  BY <1>1, <1>2, <1>3, <1>4, KeepsFiles

\* A change of the maps touches no file (state.go:139-144).
LEMMA ChangeIInv ==
  ASSUME IInv, NEW p \in Process, NEW s \in Contents, Change(p, s)
  PROVE  IInv'
<1>1. mem[p] \in Contents /\ answer \in [Process -> {"none", "ok", "error"}]
  BY DEF IInv, TypeOK
<1>2. /\ UNCHANGED <<files, temp, answer>>
      /\ pc' = [pc EXCEPT ![p] = "create"]
      /\ before' = [before EXCEPT ![p] = mem[p]]
      /\ mem' = [mem EXCEPT ![p] = s]
  BY DEF Change, At
<1> QED
  BY <1>1, <1>2, KeepsFiles

\* A process that ends leaves its temporary file to nobody.
LEMMA CrashIInv ==
  ASSUME IInv, NEW p \in Process, Crash(p)
  PROVE  IInv'
<1>1. /\ UNCHANGED files
      /\ pc' = [pc EXCEPT ![p] = "down"]
      /\ mem' = [mem EXCEPT ![p] = Empty]
      /\ before' = [before EXCEPT ![p] = Empty]
      /\ temp' = [temp EXCEPT ![p] = StateJson]
      /\ answer' \in [Process -> {"none", "ok", "error"}]
  BY DEF Crash, Return, IInv, TypeOK
<1> QED
  BY <1>1, StateFileAssumption, KeepsFiles

\* The new temporary file is nobody else's (state.go:145-150).
LEMMA CreateTempIInv ==
  ASSUME IInv, NEW p \in Process, NEW t \in Temp, CreateTemp(p, t)
  PROVE  IInv'
<1> DEFINE new == [maps |-> mem[p], whole |-> FALSE, readable |-> ~UmaskHides]
<1> USE DEF IInv
<1>1. new \in File
  BY StateFileAssumption DEF TypeOK, File
<1>2. /\ files' = Put(files, t, new)
      /\ t \notin DOMAIN files
      /\ pc[p] = "create" /\ pc' = [pc EXCEPT ![p] = "write"]
      /\ temp' = [temp EXCEPT ![p] = t]
      /\ UNCHANGED <<mem, before, answer>>
  BY DEF CreateTemp, FreshName, At
<1> HIDE DEF new
<1>3. /\ IsMap(files', Temp \cup {StateJson}, File)
      /\ DOMAIN files' = DOMAIN files \cup {t}
      /\ \A x \in DOMAIN files : files'[x] = files[x]
  <2>1. IsMap(files, Temp \cup {StateJson}, File) /\ t \in Temp \cup {StateJson}
    BY DEF TypeOK
  <2>2. /\ IsMap(Put(files, t, new), Temp \cup {StateJson}, File)
        /\ DOMAIN Put(files, t, new) = DOMAIN files \cup {t}
        /\ \A x \in DOMAIN files : x # t => Put(files, t, new)[x] = files[x]
    <3> DEFINE names == Temp \cup {StateJson}
    <3>1. IsMap(files, names, File) /\ t \in names /\ new \in File
      BY <1>1, <2>1
    <3> HIDE DEF names
    <3>2. /\ IsMap(Put(files, t, new), names, File)
          /\ DOMAIN Put(files, t, new) = DOMAIN files \cup {t}
          /\ \A x \in DOMAIN files : x # t => Put(files, t, new)[x] = files[x]
      BY <3>1, PutFile
    <3> QED
      BY <3>2 DEF names
  <2> QED
    BY <1>2, <2>2
<1>4. \A q \in Process \ {p} : pc'[q] = pc[q] /\ temp'[q] = temp[q]
  BY <1>2 DEF TypeOK
<1>5. pc'[p] = "write" /\ temp'[p] = t
  BY <1>2 DEF TypeOK
<1>6. TypeOK'
  BY <1>2, <1>3 DEF TypeOK, Steps
<1>7. OwnTemp'
  BY <1>2, <1>3, <1>4, <1>5 DEF OwnTemp, Holding
<1>8. TempWhole'
  BY <1>2, <1>3, <1>4, <1>5 DEF TempWhole, OwnTemp, Holding, Written
<1>9. AlwaysLoadable'
  BY <1>3, StateFileAssumption DEF AlwaysLoadable, Loadable
<1> QED
  BY <1>6, <1>7, <1>8, <1>9

\* A step that rewrites p's own temporary file, to what the next step expects.
LEMMA KeepsOthers ==
  ASSUME IInv, NEW p \in Process, pc[p] \in Holding,
         NEW s \in Written, pc' = [pc EXCEPT ![p] = s],
         NEW f \in File, Update(p, f),
         f.whole, f.maps = mem[p], s = "rename" => f.readable
  PROVE  IInv'
<1> USE DEF IInv
<1>1. /\ files' = [files EXCEPT ![temp[p]] = f]
      /\ UNCHANGED <<mem, before, temp, answer>>
  BY DEF Update
<1>2. temp[p] \in DOMAIN files /\ temp[p] \in Temp
  BY DEF OwnTemp
<1>3. /\ IsMap(files', Temp \cup {StateJson}, File)
      /\ DOMAIN files' = DOMAIN files
      /\ files'[temp[p]] = f
      /\ \A x \in DOMAIN files : x # temp[p] => files'[x] = files[x]
  BY <1>1, <1>2, ReplaceFile DEF TypeOK
<1>4. /\ \A q \in Process \ {p} : pc'[q] = pc[q]
      /\ pc'[p] = s
  BY DEF TypeOK
<1>5. TypeOK'
  BY <1>1, <1>3 DEF TypeOK, Steps, Written
<1>6. OwnTemp'
  BY <1>1, <1>3, <1>4 DEF OwnTemp
<1>7. TempWhole'
  BY <1>1, <1>3, <1>4 DEF TempWhole, OwnTemp, Holding, Written
<1>8. AlwaysLoadable'
  BY <1>2, <1>3, StateFileAssumption DEF AlwaysLoadable, Loadable
<1> QED
  BY <1>5, <1>6, <1>7, <1>8

\* A written file holds the memory of its process (state.go:151-155).
LEMMA WriteIInv ==
  ASSUME IInv, NEW p \in Process, Write(p)
  PROVE  IInv'
<1> DEFINE f == [files[temp[p]] EXCEPT !.maps = mem[p], !.whole = TRUE]
<1>1. pc[p] = "write" /\ pc' = [pc EXCEPT ![p] = "close"] /\ Update(p, f)
  BY DEF Write, At
<1>2. files[temp[p]] \in File /\ mem[p] \in Contents
  BY <1>1 DEF IInv, TypeOK, OwnTemp, Holding, IsMap
<1>3. f \in File /\ f.whole /\ f.maps = mem[p]
  BY <1>2 DEF File
<1> QED
  BY <1>1, <1>3, KeepsOthers DEF Holding, Written

\* Its owner can read a file after its mode is set (state.go:160-165).
LEMMA ChmodIInv ==
  ASSUME IInv, NEW p \in Process, Chmod(p)
  PROVE  IInv'
<1> DEFINE f == [files[temp[p]] EXCEPT !.readable = TRUE]
<1>1. pc[p] = "chmod" /\ pc' = [pc EXCEPT ![p] = "rename"] /\ Update(p, f)
  BY DEF Chmod, At
<1>2. files[temp[p]] \in File
  BY <1>1 DEF IInv, TypeOK, OwnTemp, Holding, IsMap
<1>3. files[temp[p]].whole /\ files[temp[p]].maps = mem[p]
  BY <1>1 DEF IInv, TempWhole, Written
<1>4. f \in File /\ f.whole /\ f.maps = mem[p] /\ f.readable
  BY <1>2, <1>3 DEF File
<1> QED
  BY <1>1, <1>4, KeepsOthers DEF Holding, Written

\* Closing changes no file (state.go:156-159).
LEMMA CloseIInv ==
  ASSUME IInv, NEW p \in Process, Close(p)
  PROVE  IInv'
<1> USE DEF IInv
<1>1. /\ pc[p] = "close" /\ pc' = [pc EXCEPT ![p] = "chmod"]
      /\ UNCHANGED <<files, mem, before, temp, answer>>
  BY DEF Close, At
<1>2. /\ \A q \in Process \ {p} : pc'[q] = pc[q]
      /\ pc'[p] = "chmod"
  BY <1>1 DEF TypeOK
<1>3. TypeOK'
  BY <1>1 DEF TypeOK, Steps
<1>4. OwnTemp'
  BY <1>1, <1>2 DEF OwnTemp, Holding
<1>5. TempWhole'
  BY <1>1, <1>2 DEF TempWhole, Written
<1>6. AlwaysLoadable'
  BY <1>1 DEF AlwaysLoadable, Loadable
<1> QED
  BY <1>3, <1>4, <1>5, <1>6

\* A renamed file is no other process's, and can be loaded (state.go:166).
LEMMA RenameIInv ==
  ASSUME IInv, NEW p \in Process, Rename(p)
  PROVE  IInv'
<1> USE DEF IInv
<1>1. /\ pc[p] = "rename" /\ pc' = [pc EXCEPT ![p] = "idle"]
      /\ files' = Put(Removed(temp[p]), StateJson, files[temp[p]])
      /\ temp' = [temp EXCEPT ![p] = StateJson]
      /\ before' = [before EXCEPT ![p] = Empty]
      /\ answer' = [answer EXCEPT ![p] = "ok"]
      /\ UNCHANGED mem
  BY DEF Rename, At, Return
<1>2. temp[p] \in DOMAIN files /\ temp[p] \in Temp /\ files[temp[p]] \in File
  BY <1>1 DEF TypeOK, OwnTemp, Holding, IsMap
<1>3. Loadable(files[temp[p]])
  BY <1>1 DEF TempWhole, Written, Loadable
<1>4. /\ IsMap(Removed(temp[p]), Temp \cup {StateJson}, File)
      /\ DOMAIN Removed(temp[p]) = DOMAIN files \ {temp[p]}
      /\ \A x \in DOMAIN files \ {temp[p]} : Removed(temp[p])[x] = files[x]
  BY RemoveFile DEF TypeOK
<1>5. /\ IsMap(files', Temp \cup {StateJson}, File)
      /\ DOMAIN files' = (DOMAIN files \ {temp[p]}) \cup {StateJson}
      /\ files'[StateJson] = files[temp[p]]
      /\ \A x \in DOMAIN files \ {temp[p]} : x # StateJson => files'[x] = files[x]
  <2> DEFINE rest == Removed(temp[p])
             new == Put(rest, StateJson, files[temp[p]])
  <2>1. StateJson \in Temp \cup {StateJson}
    OBVIOUS
  <2> HIDE DEF rest
  <2>2. /\ IsMap(new, Temp \cup {StateJson}, File)
        /\ DOMAIN new = DOMAIN rest \cup {StateJson}
        /\ new[StateJson] = files[temp[p]]
        /\ \A x \in DOMAIN rest : x # StateJson => new[x] = rest[x]
    <3>1. IsMap(rest, Temp \cup {StateJson}, File)
      BY <1>4 DEF rest
    <3> QED
      BY <1>2, <2>1, <3>1, PutFile
  <2> QED
    BY <1>1, <1>4, <2>2 DEF rest
<1>6. /\ \A q \in Process \ {p} : pc'[q] = pc[q] /\ temp'[q] = temp[q]
      /\ pc'[p] \notin Holding /\ pc'[p] \notin Written
  BY <1>1 DEF TypeOK, Holding, Written
<1>7. TypeOK'
  BY <1>1, <1>5, StateFileAssumption DEF TypeOK, Steps
<1>8. OwnTemp'
  BY <1>1, <1>5, <1>6 DEF OwnTemp, Holding
<1>9. TempWhole'
  <2> SUFFICES ASSUME NEW q \in Process, pc'[q] \in Written
               PROVE  /\ files'[temp'[q]].whole
                      /\ files'[temp'[q]].maps = mem'[q]
                      /\ pc'[q] = "rename" => files'[temp'[q]].readable
    BY DEF TempWhole
  <2>1. q # p /\ pc'[q] = pc[q] /\ temp'[q] = temp[q]
    BY <1>6
  <2>2. temp[q] \in DOMAIN files \ {temp[p]} /\ temp[q] # StateJson
    BY <1>1, <2>1, StateFileAssumption DEF OwnTemp, Holding, Written
  <2> QED
    BY <1>1, <1>5, <2>1, <2>2 DEF TempWhole
<1>10. AlwaysLoadable'
  BY <1>3, <1>5 DEF AlwaysLoadable, Loadable
<1> QED
  BY <1>7, <1>8, <1>9, <1>10

\* A failed save removes at most a file of its own (state.go:146-166).
LEMMA FailIInv ==
  ASSUME IInv, NEW p \in Process, Fail(p)
  PROVE  IInv'
<1> USE DEF IInv
<1>1. /\ pc[p] \in Steps /\ pc' = [pc EXCEPT ![p] = "idle"]
      /\ temp' = [temp EXCEPT ![p] = StateJson]
      /\ before' = [before EXCEPT ![p] = Empty]
      /\ answer' = [answer EXCEPT ![p] = "error"]
      /\ UNCHANGED mem
  BY DEF Fail, Return
<1>2. /\ answer' \in [Process -> {"none", "ok", "error"}]
      /\ mem[p] \in Contents /\ mem' = [mem EXCEPT ![p] = mem[p]]
  BY <1>1 DEF TypeOK
<1>3. CASE UNCHANGED files
  BY <1>1, <1>2, <1>3, StateFileAssumption, KeepsFiles
<1>4. CASE pc[p] \in {"write", "close", "chmod"} /\ files' = Removed(temp[p])
  <2>1. temp[p] \in Temp
    BY <1>4 DEF OwnTemp, Holding
  <2>2. /\ IsMap(files', Temp \cup {StateJson}, File)
        /\ DOMAIN files' = DOMAIN files \ {temp[p]}
        /\ \A x \in DOMAIN files \ {temp[p]} : files'[x] = files[x]
    BY <1>4, RemoveFile DEF TypeOK
  <2>3. /\ \A q \in Process \ {p} : pc'[q] = pc[q] /\ temp'[q] = temp[q]
        /\ pc'[p] \notin Holding /\ pc'[p] \notin Written
    BY <1>1 DEF TypeOK, Holding, Written
  <2>4. TypeOK'
    BY <1>1, <2>2, StateFileAssumption DEF TypeOK, Steps
  <2>5. OwnTemp'
    BY <1>1, <1>4, <2>2, <2>3 DEF OwnTemp, Holding
  <2>6. TempWhole'
    BY <1>1, <1>4, <2>2, <2>3 DEF TempWhole, OwnTemp, Holding, Written
  <2>7. AlwaysLoadable'
    BY <2>1, <2>2, StateFileAssumption DEF AlwaysLoadable, Loadable
  <2> QED
    BY <2>4, <2>5, <2>6, <2>7
<1> QED
  BY <1>3, <1>4 DEF Fail

\* Every step keeps the invariant.
LEMMA StepIInv == IInv /\ [Next]_vars => IInv'
<1> SUFFICES ASSUME IInv, [Next]_vars PROVE IInv'
  OBVIOUS
<1>1. CASE UNCHANGED vars
  BY <1>1 DEF vars, IInv, TypeOK, OwnTemp, TempWhole, AlwaysLoadable, Loadable
<1>2. ASSUME NEW p \in Process,
             \/ Load(p)
             \/ \E s \in Contents : Change(p, s)
             \/ \E t \in Temp : CreateTemp(p, t)
             \/ Write(p) \/ Close(p) \/ Chmod(p) \/ Rename(p)
             \/ Fail(p) \/ Crash(p)
      PROVE  IInv'
  BY <1>2, LoadIInv, ChangeIInv, CreateTempIInv, WriteIInv, CloseIInv,
     ChmodIInv, RenameIInv, FailIInv, CrashIInv
<1> QED
  BY <1>1, <1>2 DEF Next

\* state.json can be loaded in every reachable state: only whole, readable
\* files of the process's own are renamed over it (state.go:132-167).
THEOREM FileAlwaysLoads == Spec => []AlwaysLoadable
<1>1. IInv => AlwaysLoadable
  BY DEF IInv
<1> QED
  BY <1>1, InitIInv, StepIInv, PTL DEF Spec

-----------------------------------------------------------------------------
(* The refinement: every step is a step of Store or changes nothing there. *)

\* What a step of p does to the memories of Store.
LEMMA RememberedStep ==
  ASSUME NEW p \in Process,
         \A q \in Process \ {p} :
           pc'[q] = pc[q] /\ mem'[q] = mem[q] /\ before'[q] = before[q]
  PROVE  /\ pc'[p] = "down" => Remembered' = [Remembered EXCEPT ![p] = Down]
         /\ pc'[p] \in Steps => Remembered' = [Remembered EXCEPT ![p] = before'[p]]
         /\ pc'[p] = "idle" => Remembered' = [Remembered EXCEPT ![p] = mem'[p]]
<1> DEFINE Of(q) == CASE pc[q] = "down" -> Down
                      [] pc[q] \in Steps -> before[q]
                      [] OTHER -> mem[q]
<1>1. \A q \in Process \ {p} : Of(q)' = Of(q)
  OBVIOUS
<1>2. "down" \notin Steps /\ "idle" \notin Steps
  BY DEF Steps
<1>3. /\ pc'[p] = "down" => Of(p)' = Down
      /\ pc'[p] \in Steps => Of(p)' = before'[p]
      /\ pc'[p] = "idle" => Of(p)' = mem'[p]
  BY <1>2
<1>4. Remembered' = [q \in Process |-> Of(q)'] /\ Remembered = [q \in Process |-> Of(q)]
  BY DEF Remembered
<1> HIDE DEF Of
<1> QED
  BY <1>1, <1>3, <1>4

\* In a state of the invariant, a running process remembers something, and a
\* process in a save what it had before.
LEMMA RememberedNow ==
  ASSUME IInv, NEW p \in Process
  PROVE  /\ pc[p] = "down" => Remembered[p] = Down
         /\ pc[p] # "down" => Remembered[p] # Down
         /\ pc[p] \in Steps => Remembered[p] = before[p]
         /\ pc[p] = "idle" => Remembered[p] = mem[p]
         /\ Remembered = [Remembered EXCEPT ![p] = Remembered[p]]
<1>1. /\ mem[p] \in Contents /\ before[p] \in Contents
      /\ pc[p] \in Steps \cup {"down", "idle"}
  BY DEF IInv, TypeOK
<1>2. "down" \notin Steps /\ "idle" \notin Steps
  BY DEF Steps
<1>3. Remembered[p] = CASE pc[p] = "down" -> Down
                        [] pc[p] \in Steps -> before[p]
                        [] OTHER -> mem[p]
  BY DEF Remembered
<1>4. Remembered = [Remembered EXCEPT ![p] = Remembered[p]]
  BY DEF Remembered
<1>5. CASE pc[p] = "down"
  BY <1>2, <1>3, <1>4, <1>5
<1>6. CASE pc[p] \in Steps
  BY <1>1, <1>2, <1>3, <1>4, <1>6, StateFileAssumption
<1>7. CASE pc[p] = "idle"
  BY <1>1, <1>2, <1>3, <1>4, <1>7, StateFileAssumption
<1> QED
  BY <1>1, <1>5, <1>6, <1>7

\* Removing or replacing a temporary file leaves what is on file.
LEMMA OnFileKept ==
  ASSUME IInv, NEW p \in Process,
         \/ UNCHANGED files
         \/ \E t \in Temp : CreateTemp(p, t)
         \/ /\ pc[p] \in Holding
            /\ \/ files' = Removed(temp[p])
               \/ \E f : Update(p, f)
  PROVE  OnFile' = OnFile
<1>1. SUFFICES /\ StateJson \in DOMAIN files' <=> StateJson \in DOMAIN files
               /\ StateJson \in DOMAIN files => files'[StateJson] = files[StateJson]
  BY DEF OnFile
<1>2. CASE UNCHANGED files
  BY <1>2
<1>3. ASSUME NEW t \in Temp, CreateTemp(p, t)
      PROVE  /\ StateJson \in DOMAIN files' <=> StateJson \in DOMAIN files
             /\ StateJson \in DOMAIN files => files'[StateJson] = files[StateJson]
  BY <1>3, StateFileAssumption DEF CreateTemp, Put
<1>4. ASSUME pc[p] \in Holding
      PROVE  temp[p] # StateJson
  BY <1>4, StateFileAssumption DEF IInv, OwnTemp
<1>5. CASE pc[p] \in Holding /\ files' = Removed(temp[p])
  BY <1>4, <1>5 DEF Removed, Restrict
<1>6. ASSUME NEW f, pc[p] \in Holding, Update(p, f)
      PROVE  /\ DOMAIN files' = DOMAIN files
             /\ StateJson \in DOMAIN files => files'[StateJson] = files[StateJson]
  BY <1>4, <1>6 DEF Update, IInv, TypeOK, IsMap
<1> QED
  BY <1>2, <1>3, <1>5, <1>6

\* No process runs and nothing is on file.
LEMMA InitStore == Init => Abstract!Init
<1> SUFFICES ASSUME Init PROVE Abstract!Init
  OBVIOUS
<1>1. OnFile = Empty
  BY DEF Init, EmptyMap, OnFile
<1>2. \A p \in Process : pc[p] = "down"
  BY DEF Init
<1>3. Remembered = [p \in Process |-> Down]
  <2>1. \A p \in Process : Remembered[p] = Down
    <3> SUFFICES ASSUME NEW p \in Process PROVE Remembered[p] = Down
      OBVIOUS
    <3>1. Remembered[p] = CASE pc[p] = "down" -> Down
                            [] pc[p] \in Steps -> before[p]
                            [] OTHER -> mem[p]
      BY DEF Remembered
    <3> QED
      BY <1>2, <3>1 DEF Steps
  <2>2. Remembered = [p \in Process |-> Remembered[p]]
    BY DEF Remembered
  <2> QED
    BY <2>1, <2>2
<1>4. answer = [p \in Process |-> "none"]
  BY DEF Init
<1> QED
  BY <1>1, <1>3, <1>4 DEF Abstract!Init

\* A step between the change and the rename changes nothing in Store.
LEMMA QuietStep ==
  ASSUME IInv, NEW p \in Process, pc[p] \in Steps,
         NEW s \in Steps, pc' = [pc EXCEPT ![p] = s],
         UNCHANGED <<mem, before, answer>>, OnFile' = OnFile
  PROVE  UNCHANGED Abstract!vars
<1>1. \A q \in Process \ {p} :
        pc'[q] = pc[q] /\ mem'[q] = mem[q] /\ before'[q] = before[q]
  BY DEF IInv, TypeOK
<1>2. pc'[p] \in Steps /\ before'[p] = before[p]
  BY DEF IInv, TypeOK
<1>3. Remembered' = [Remembered EXCEPT ![p] = before[p]]
  BY <1>1, <1>2, RememberedStep
<1>4. Remembered' = Remembered
  BY <1>3, RememberedNow
<1> QED
  BY <1>4 DEF Abstract!vars

\* A load finds what is on file.
LEMMA LoadStep ==
  ASSUME IInv, NEW p \in Process, Load(p)
  PROVE  Abstract!Load(p)
<1>1. /\ pc[p] = "down" /\ pc' = [pc EXCEPT ![p] = "idle"]
      /\ UNCHANGED <<files, before, temp, answer>>
      /\ mem' = [mem EXCEPT ![p] = OnFile]
  BY DEF Load, At, OnFile
<1>2. \A q \in Process \ {p} :
        pc'[q] = pc[q] /\ mem'[q] = mem[q] /\ before'[q] = before[q]
  BY <1>1 DEF IInv, TypeOK
<1>3. pc'[p] = "idle" /\ mem'[p] = OnFile
  BY <1>1 DEF IInv, TypeOK
<1>4. Remembered' = [Remembered EXCEPT ![p] = OnFile]
  BY <1>2, <1>3, RememberedStep
<1>5. Remembered[p] = Down
  BY <1>1, RememberedNow
<1>6. OnFile' = OnFile
  BY <1>1 DEF OnFile
<1> QED
  BY <1>1, <1>4, <1>5, <1>6 DEF Abstract!Load

\* A change that is not saved yet has not happened.
LEMMA ChangeStep ==
  ASSUME IInv, NEW p \in Process, NEW s \in Contents, Change(p, s)
  PROVE  UNCHANGED Abstract!vars
<1>1. /\ pc[p] = "idle" /\ pc' = [pc EXCEPT ![p] = "create"]
      /\ before' = [before EXCEPT ![p] = mem[p]]
      /\ mem' = [mem EXCEPT ![p] = s]
      /\ UNCHANGED <<files, temp, answer>>
  BY DEF Change, At
<1>2. \A q \in Process \ {p} :
        pc'[q] = pc[q] /\ mem'[q] = mem[q] /\ before'[q] = before[q]
  BY <1>1 DEF IInv, TypeOK
<1>3. pc'[p] \in Steps /\ before'[p] = mem[p]
  BY <1>1 DEF IInv, TypeOK, Steps
<1>4. Remembered' = [Remembered EXCEPT ![p] = mem[p]]
  BY <1>2, <1>3, RememberedStep
<1>5. Remembered' = Remembered
  BY <1>1, <1>4, RememberedNow
<1>6. OnFile' = OnFile
  BY <1>1 DEF OnFile
<1> QED
  BY <1>1, <1>5, <1>6 DEF Abstract!vars

\* A save that ends, in either way, leaves the process with its change.
LEMMA EndOfSave ==
  ASSUME IInv, NEW p \in Process, pc[p] \in Steps,
         pc' = [pc EXCEPT ![p] = "idle"], UNCHANGED mem,
         before' = [before EXCEPT ![p] = Empty]
  PROVE  /\ Remembered[p] # Down
         /\ mem[p] \in Contents
         /\ Remembered' = [Remembered EXCEPT ![p] = mem[p]]
<1>1. \A q \in Process \ {p} :
        pc'[q] = pc[q] /\ mem'[q] = mem[q] /\ before'[q] = before[q]
  BY DEF IInv, TypeOK
<1>2. pc'[p] = "idle" /\ mem'[p] = mem[p] /\ mem[p] \in Contents
  BY DEF IInv, TypeOK
<1>3. Remembered' = [Remembered EXCEPT ![p] = mem[p]]
  BY <1>1, <1>2, RememberedStep
<1>4. pc[p] # "down"
  BY DEF Steps
<1> QED
  BY <1>2, <1>3, <1>4, RememberedNow

\* The rename is the moment of a save.
LEMMA RenameStep ==
  ASSUME IInv, NEW p \in Process, Rename(p)
  PROVE  Abstract!Saved(p, mem[p])
<1>1. /\ pc[p] = "rename" /\ pc' = [pc EXCEPT ![p] = "idle"]
      /\ files' = Put(Removed(temp[p]), StateJson, files[temp[p]])
      /\ before' = [before EXCEPT ![p] = Empty]
      /\ answer' = [answer EXCEPT ![p] = "ok"]
      /\ UNCHANGED mem
  BY DEF Rename, At, Return
<1>2. /\ Remembered[p] # Down
      /\ Remembered' = [Remembered EXCEPT ![p] = mem[p]]
  BY <1>1, EndOfSave DEF Steps
<1>3. files[temp[p]].maps = mem[p]
  BY <1>1 DEF IInv, TempWhole, Written
<1>4. OnFile' = mem[p]
  <2>1. StateJson \in DOMAIN files' /\ files'[StateJson] = files[temp[p]]
    BY <1>1 DEF Put
  <2> QED
    BY <1>3, <2>1 DEF OnFile
<1> QED
  BY <1>1, <1>2, <1>4 DEF Abstract!Saved

\* A save that fails changes the memory alone.
LEMMA FailStep ==
  ASSUME IInv, NEW p \in Process, Fail(p)
  PROVE  Abstract!NotSaved(p, mem[p])
<1>1. /\ pc[p] \in Steps /\ pc' = [pc EXCEPT ![p] = "idle"]
      /\ \/ pc[p] \in {"write", "close", "chmod"} /\ files' = Removed(temp[p])
         \/ UNCHANGED files
      /\ before' = [before EXCEPT ![p] = Empty]
      /\ answer' = [answer EXCEPT ![p] = "error"]
      /\ UNCHANGED mem
  BY DEF Fail, Return
<1>2. /\ Remembered[p] # Down
      /\ Remembered' = [Remembered EXCEPT ![p] = mem[p]]
  BY <1>1, EndOfSave
<1>3. OnFile' = OnFile
  BY <1>1, OnFileKept DEF Holding
<1> QED
  BY <1>1, <1>2, <1>3 DEF Abstract!NotSaved

\* A process that ends in a save has changed nothing.
LEMMA CrashStep ==
  ASSUME IInv, NEW p \in Process, Crash(p)
  PROVE  Abstract!Crash(p)
<1>1. /\ pc[p] # "down" /\ pc' = [pc EXCEPT ![p] = "down"]
      /\ mem' = [mem EXCEPT ![p] = Empty]
      /\ before' = [before EXCEPT ![p] = Empty]
      /\ answer' = [answer EXCEPT ![p] = "none"]
      /\ UNCHANGED files
  BY DEF Crash, Return
<1>2. \A q \in Process \ {p} :
        pc'[q] = pc[q] /\ mem'[q] = mem[q] /\ before'[q] = before[q]
  BY <1>1 DEF IInv, TypeOK
<1>3. pc'[p] = "down"
  BY <1>1 DEF IInv, TypeOK
<1>4. Remembered' = [Remembered EXCEPT ![p] = Down]
  BY <1>2, <1>3, RememberedStep
<1>5. Remembered[p] # Down
  BY <1>1, RememberedNow
<1>6. OnFile' = OnFile
  BY <1>1 DEF OnFile
<1> QED
  BY <1>1, <1>4, <1>5, <1>6 DEF Abstract!Crash

\* Every step is one of Store, or changes nothing there.
LEMMA StoreStep == IInv /\ [Next]_vars => [Abstract!Next]_(Abstract!vars)
<1> SUFFICES ASSUME IInv, [Next]_vars
             PROVE  Abstract!Next \/ UNCHANGED Abstract!vars
  OBVIOUS
<1>1. CASE UNCHANGED vars
  BY <1>1 DEF vars, Abstract!vars, Remembered, OnFile
<1>2. ASSUME NEW p \in Process, Load(p) \/ Crash(p)
      PROVE  Abstract!Next
  BY <1>2, LoadStep, CrashStep DEF Abstract!Next
<1>3. ASSUME NEW p \in Process, Rename(p) \/ Fail(p)
      PROVE  Abstract!Next
  <2>1. mem[p] \in Contents
    BY DEF IInv, TypeOK
  <2>2. Abstract!Saved(p, mem[p]) \/ Abstract!NotSaved(p, mem[p])
    BY <1>3, RenameStep, FailStep
  <2> QED
    BY <2>1, <2>2 DEF Abstract!Next
<1>4. ASSUME NEW p \in Process, NEW s \in Contents, Change(p, s)
      PROVE  UNCHANGED Abstract!vars
  BY <1>4, ChangeStep
<1>5. ASSUME NEW p \in Process,
             (\E t \in Temp : CreateTemp(p, t)) \/ Write(p) \/ Close(p) \/ Chmod(p)
      PROVE  UNCHANGED Abstract!vars
  <2>1. PICK s \in Steps : pc' = [pc EXCEPT ![p] = s]
    BY <1>5 DEF CreateTemp, Write, Close, Chmod, At, Steps
  <2>2. pc[p] \in Steps /\ UNCHANGED <<mem, before, answer>>
    BY <1>5 DEF CreateTemp, Write, Close, Chmod, Update, At, Steps
  <2>3. OnFile' = OnFile
    <3>1. CASE \E t \in Temp : CreateTemp(p, t)
      BY <3>1, OnFileKept
    <3>2. CASE Write(p) \/ Chmod(p)
      <4>1. pc[p] \in Holding /\ \E f : Update(p, f)
        BY <3>2 DEF Write, Chmod, At, Holding
      <4> QED
        BY <4>1, OnFileKept
    <3>3. CASE Close(p)
      BY <3>3, OnFileKept DEF Close
    <3> QED
      BY <1>5, <3>1, <3>2, <3>3
  <2> QED
    BY <2>1, <2>2, <2>3, QuietStep
<1> QED
  BY <1>1, <1>2, <1>3, <1>4, <1>5 DEF Next

\* With any number of processes on one file, a save that takes five steps, any
\* of which may fail or be the last, is one step of Store or none
\* (state.go:132-167).
THEOREM SavesAreAtomic == Spec => ImplementsStore
<1> QED
  BY InitIInv, StepIInv, InitStore, StoreStep, PTL
  DEF Spec, ImplementsStore, Abstract!Spec
=============================================================================
