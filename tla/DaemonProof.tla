---------------------------- MODULE DaemonProof ----------------------------
(***************************************************************************)
(* An actor has one key pair for good, for every set of names and keys and *)
(* any number of faults.  The argument: what has been published is in the  *)
(* file, and a process that is past Load holds in memory what the file     *)
(* holds, so that the key pair it adds is for a name the file does not     *)
(* have, and what it saves takes nothing away.                             *)
(*                                                                         *)
(* And whatever configuration it is given, a process uses plaintext with   *)
(* Zulip only, and its handle leads to the key it signs with.              *)
(***************************************************************************)
EXTENDS Daemon, TLAPS

PublishedOnFile ==
  \A p \in published :
    \E n \in DOMAIN file : p.id.path = <<"actors", n>> /\ p.key = file[n]

MemoryIsFile == phase # "down" => actorKeys = file

OnFile == PublishedOnFile /\ MemoryIsFile /\ SigningKeyOnFile

LEMMA OnFileInit == Init => OnFile
PROOF
  BY DEF Init, OnFile, PublishedOnFile, MemoryIsFile, SigningKeyOnFile, Running

(* A key pair stored for a new name leaves the others where they are. *)
LEMMA StoreKeeps ==
  ASSUME NEW k, Store(k), OnFile, phase = "loaded", name \notin DOMAIN actorKeys
  PROVE  /\ actorKeys' = file'
         /\ name \in DOMAIN file' /\ file'[name] = k
         /\ \A n \in DOMAIN file : n \in DOMAIN file' /\ file'[n] = file[n]
PROOF
  <1>1. actorKeys = file
    BY DEF OnFile, MemoryIsFile
  <1> QED
    BY <1>1 DEF Store, Put

(* The document of an actor says where it is served and what its key is.   *)
LEMMA ServedAtItsName ==
  ASSUME NEW c, NEW k
  PROVE  /\ Actor(ActorServer(c, k)).id.path = <<"actors", c.actor_name>>
         /\ Actor(ActorServer(c, k)).key = k
PROOF
  BY DEF Actor, ActorServer, ActorURL, TrimRight

(* Every step keeps what is published, in memory and in use on file. *)
LEMMA OnFileStep == OnFile /\ [Next]_vars => OnFile'
PROOF
  <1> SUFFICES ASSUME OnFile, [Next]_vars
               PROVE  OnFile'
    OBVIOUS
  <1> USE DEF OnFile, PublishedOnFile, MemoryIsFile, SigningKeyOnFile, Running
  <1>1. ASSUME NEW f \in ConfigFile, NEW e \in Env, NEW flag \in BOOLEAN,
               Start(f, e, flag)
        PROVE  OnFile'
    BY <1>1 DEF Start, Load
  <1>2. CASE KnownActor
    BY <1>2 DEF KnownActor, Launch, name
  <1>3. ASSUME NEW k \in Key, NewActor(k)
        PROVE  OnFile'
    <2>1. /\ actorKeys' = file'
          /\ name \in DOMAIN file' /\ file'[name] = k
          /\ \A n \in DOMAIN file : n \in DOMAIN file' /\ file'[n] = file[n]
      BY <1>3, StoreKeeps DEF NewActor
    <2>2. key' = k /\ name' = name /\ published' = published
      BY <1>3 DEF NewActor, Launch, name
    <2> QED
      BY <2>1, <2>2
  <1>4. ASSUME NEW k \in Key, NewActorUnsaved(k)
        PROVE  OnFile'
    BY <1>4 DEF NewActorUnsaved, name
  <1>5. CASE Listen
    <2>1. UNCHANGED <<file, actorKeys, name, key, phase>> /\ phase # "down"
      BY <1>5 DEF Listen, keyVars, loopVars, name
    <2>2. /\ Actor(ActorServer(cfg, key)).id.path = <<"actors", name>>
          /\ Actor(ActorServer(cfg, key)).key = key
      BY ServedAtItsName DEF name
    <2>3. published' \subseteq published \cup {Actor(ActorServer(cfg, key))}
      BY <1>5 DEF Listen
    <2>4. name \in DOMAIN file /\ file[name] = key
      BY <1>5 DEF Listen
    <2> QED
      BY <2>1, <2>2, <2>3, <2>4
  <1>6. ASSUME NEW got \in Bearer, AdminRequest(got)
        PROVE  OnFile'
    BY <1>6 DEF AdminRequest, SaveState, loopVars, name
  <1>7. CASE PassSaves
    BY <1>7 DEF PassSaves, SaveState, loopVars, name
  <1>8. CASE FirstPass \/ EndPass \/ Tick \/ NextPass \/ Stop \/ Shutdown
    BY <1>8 DEF FirstPass, EndPass, Tick, NextPass, Stop, Shutdown, keyVars, name
  <1>9. CASE Signal \/ Crash \/ Refuse \/ Repair
    BY <1>9 DEF Signal, Crash, Refuse, Repair, keyVars, loopVars, name
  <1>10. CASE UNCHANGED vars
    BY <1>10 DEF vars, keyVars, loopVars, name
  <1> QED
    BY <1>1, <1>2, <1>3, <1>4, <1>5, <1>6, <1>7, <1>8, <1>9, <1>10 DEF Next

(* No name is ever served with two keys. *)
THEOREM OneKeyForGood == Spec => []OneKeyPerActor
PROOF
  <1>1. OnFile => OneKeyPerActor
    <2> SUFFICES ASSUME OnFile, NEW p \in published, NEW q \in published, p.id = q.id
                 PROVE  p.key = q.key
      BY DEF OneKeyPerActor
    <2>1. PICK n \in DOMAIN file : p.id.path = <<"actors", n>> /\ p.key = file[n]
      BY DEF OnFile, PublishedOnFile
    <2>2. PICK m \in DOMAIN file : q.id.path = <<"actors", m>> /\ q.key = file[m]
      BY DEF OnFile, PublishedOnFile
    <2>3. n = m
      BY <2>1, <2>2
    <2> QED
      BY <2>1, <2>2, <2>3
  <1> QED
    BY <1>1, OnFileInit, OnFileStep, PTL DEF Spec

(* A running process signs with the key that a restart will find. *)
THEOREM SignsWithKeptKey == Spec => []SigningKeyOnFile
PROOF
  <1>1. OnFile => SigningKeyOnFile
    BY DEF OnFile
  <1> QED
    BY <1>1, OnFileInit, OnFileStep, PTL DEF Spec

-----------------------------------------------------------------------------
(* Configurations. *)

(* The process runs on what Load has made of a file that it accepted. *)
ConfigAccepted == \E f \in ConfigFile : Accepted(f) /\ cfg = Defaulted(f)

(* Every start reads a configuration again, and nothing else changes it. *)
LEMMA ConfigStep == ConfigAccepted /\ [Next]_vars => ConfigAccepted'
PROOF
  <1> SUFFICES ASSUME ConfigAccepted, [Next]_vars
               PROVE  ConfigAccepted'
    OBVIOUS
  <1>1. CASE UNCHANGED cfg
    BY <1>1 DEF ConfigAccepted
  <1>2. ASSUME NEW f \in ConfigFile, NEW e \in Env, NEW flag \in BOOLEAN,
               Start(f, e, flag)
        PROVE  ConfigAccepted'
    BY <1>2 DEF Start, ConfigAccepted
  <1>3. CASE UNCHANGED vars
    BY <1>1, <1>3 DEF vars, keyVars
  <1>4. CASE \/ KnownActor \/ (\E k \in Key : NewActor(k) \/ NewActorUnsaved(k))
             \/ \E got \in Bearer : AdminRequest(got)
    BY <1>1, <1>4 DEF KnownActor, NewActor, NewActorUnsaved, Launch, AdminRequest, SaveState
  <1>5. CASE \/ Listen \/ FirstPass \/ PassSaves \/ EndPass \/ Tick \/ NextPass \/ Stop
             \/ Shutdown \/ Signal \/ Crash \/ Refuse \/ Repair
    BY <1>1, <1>5 DEF Listen, FirstPass, PassSaves, SaveState, EndPass, Tick, NextPass,
      Stop, Shutdown, Signal, Crash, Refuse, Repair, keyVars
  <1> QED
    BY <1>2, <1>3, <1>4, <1>5 DEF Next

(* The defaults leave the URLs and the flag as the file has them. *)
LEMMA DefaultedKeeps ==
  ASSUME NEW f \in ConfigFile
  PROVE  /\ Defaulted(f).public_base_url = f.public_base_url
         /\ Defaulted(f).graft_base_url = f.graft_base_url
         /\ Defaulted(f).zulip_base_url = f.zulip_base_url
         /\ Defaulted(f).allow_insecure_http = f.allow_insecure_http
PROOF
  BY ConfigAssumption DEF Defaulted

(* Only Zulip is ever reached in plaintext, and only when the operator has *)
(* said so, whatever the configurations (config.go:37-44; main.go:61-73).  *)
THEOREM PlaintextIsChosen == Spec => []PlaintextOnlyToZulip
PROOF
  <1>1. Init => ConfigAccepted
    BY DEF Init, ConfigAccepted
  <1>2. ConfigAccepted => PlaintextOnlyToZulip
    <2> SUFFICES ASSUME ConfigAccepted PROVE PlaintextOnlyToZulip
      OBVIOUS
    <2>1. PICK f \in ConfigFile : Accepted(f) /\ cfg = Defaulted(f)
      BY DEF ConfigAccepted
    <2>2. /\ f.public_base_url.scheme = "https"
          /\ f.graft_base_url.scheme = "https"
          /\ f.zulip_base_url.scheme = "http" => f.allow_insecure_http
      BY <2>1 DEF Accepted, checkScheme
    <2> QED
      BY <2>1, <2>2, DefaultedKeeps DEF PlaintextOnlyToZulip, zulipPolicy
  <1> QED
    BY <1>1, <1>2, ConfigStep, PTL DEF Spec

(* The handle leads to the document that has the key of the signatures.    *)
(* This needs no induction: it is what the routes and the key id share.    *)
THEOREM HandleLeadsToKey == Spec => []Discoverable
PROOF
  <1>1. Discoverable
    BY DEF Discoverable, ActorServer, TrimRight, WebFinger, Handle, ActorRoute, ActorURL,
      Actor, KeyID, name
  <1> QED
    BY <1>1, PTL
=============================================================================
