------------------------------- MODULE Daemon -------------------------------
(***************************************************************************)
(* The process around the passes (cmd/bridge/main.go): starting from       *)
(* state.json, the actor's key pair, the loop of passes, the two ways out. *)
(* What a pass does is module Pass; here it begins, may write the state    *)
(* file, and ends.                                                         *)
(*                                                                         *)
(* The operator chooses the configuration file, the admin token of the     *)
(* environment and the mode at every start, and may make the state file    *)
(* unreadable to the process for a while (a mode that lets others read it, *)
(* which Load refuses, an unreadable disk).                                *)
(***************************************************************************)
EXTENDS Config, GoMaps

CONSTANTS ConfigFile,  \* what the operator may write as config.json
          Env,         \* GRAFT_BRIDGE_ADMIN_TOKEN, "" when it is not set
          Key,         \* key pairs
          MaxFaults    \* bound: crashes, failed saves and refused files

(* What the file says is unmarshalled into one struct, and its mode and     *)
(* syntax are of the file: a configuration has every field, in use or not. *)
ASSUME ConfigAssumption ==
  \A f \in ConfigFile :
    {"public_base_url", "graft_base_url", "zulip_base_url", "allow_insecure_http"}
      \subseteq DOMAIN f

VARIABLES
  file,        \* ActorKeys in state.json
  readable,    \* whether Load accepts the file
  actorKeys,   \* State.ActorKeys in memory
  made,        \* the key pairs generated so far
  cfg, env,    \* the configuration of the running process
  key,         \* its actor's key pair
  once,        \* the -once flag
  phase,       \* "down", "loaded", "started", "pass", "wait" or "stopping"
  server,      \* the goroutine that serves: "starting", "serving" or "ended"
  published,   \* the actor documents peers may have fetched
  signalled,   \* ctx.Done()
  due,         \* ticker.C holds a tick
  faults

keyVars  == <<file, actorKeys, made, cfg, env, key>>
loopVars == <<phase, signalled, due>>
vars == <<keyVars, loopVars, readable, once, server, published, faults>>

name == cfg.actor_name

Running == phase \in {"started", "pass", "wait", "stopping"}

Init ==
  /\ file = EmptyMap /\ actorKeys = EmptyMap /\ made = {}
  /\ readable = TRUE
  /\ cfg \in {Defaulted(f) : f \in {g \in ConfigFile : Accepted(g)}}
  /\ env \in Env /\ key \in Key /\ once = FALSE
  /\ phase = "down" /\ server = "ended" /\ published = {}
  /\ signalled = FALSE /\ due = FALSE
  /\ faults = 0

Fault == faults < MaxFaults /\ faults' = faults + 1

-----------------------------------------------------------------------------
(* Starting. *)

(* Mutation: a file that cannot be read counts as absent. *)
LoadAnyway(keys) == keys = IF readable THEN file ELSE EmptyMap

(* state.Load: without a file the maps are empty; a file it refuses or     *)
(* cannot read ends the process.                                           *)
Load(keys) == readable /\ keys = file

(* config.Load accepts the file, state.Load what is on disk. *)
Start(f, e, flag) ==
  /\ phase = "down"
  /\ Accepted(f)
  /\ Load(actorKeys')
  /\ cfg' = Defaulted(f) /\ env' = e /\ once' = flag
  /\ phase' = "loaded" /\ signalled' = FALSE /\ due' = FALSE
  /\ UNCHANGED <<file, made, key, readable, server, published, faults>>

(* With its key the process starts the goroutine of the HTTP server.       *)
Launch ==
  /\ phase' = "started" /\ server' = "starting"
  /\ UNCHANGED <<cfg, env, once, signalled, due, published>>

(* ensureActor, the name has a key pair. *)
KnownActor ==
  /\ phase = "loaded" /\ name \in DOMAIN actorKeys
  /\ key' = actorKeys[name]
  /\ Launch
  /\ UNCHANGED <<file, readable, actorKeys, made, faults>>

(* SetKeyPair, the save succeeds.                                          *)
Store(k) == actorKeys' = Put(actorKeys, name, k) /\ file' = actorKeys'

(* ensureActor, the name is new and its key pair is saved, to a new file   *)
(* that others cannot read.                                                *)
NewActor(k) ==
  /\ phase = "loaded" /\ name \notin DOMAIN actorKeys /\ k \notin made
  /\ Store(k)
  /\ made' = made \cup {k} /\ key' = k /\ readable' = TRUE
  /\ Launch
  /\ UNCHANGED faults

(* Mutation: a failed save is ignored. *)
UseUnsaved(k) ==
  /\ phase = "loaded" /\ name \notin DOMAIN actorKeys /\ k \notin made
  /\ Fault
  /\ actorKeys' = Put(actorKeys, name, k) /\ key' = k /\ made' = made \cup {k}
  /\ Launch
  /\ UNCHANGED <<file, readable>>

(* ensureActor, the save fails: the process exits and its key pair is gone. *)
NewActorUnsaved(k) ==
  /\ phase = "loaded" /\ name \notin DOMAIN actorKeys /\ k \notin made
  /\ Fault
  /\ made' = made \cup {k} /\ phase' = "down"
  /\ UNCHANGED <<file, actorKeys, cfg, env, key, signalled, due, readable, once, server,
                 published>>

(* ListenAndServe serves the actor document, or fails: the failure is      *)
(* logged and the passes go on.                                            *)
Listen ==
  /\ Running /\ server = "starting" /\ phase # "stopping"
  /\ \/ /\ server' = "serving"
        /\ published' = published \cup {Actor(ActorServer(cfg, key))}
     \/ server' = "ended" /\ UNCHANGED published
  /\ UNCHANGED <<keyVars, loopVars, readable, once, faults>>

-----------------------------------------------------------------------------
(* The loop. *)

(* The first pass begins.  Before it the daemon makes its ticker, which    *)
(* panics when poll_interval is negative; -once needs none.                *)
FirstPass ==
  /\ phase = "started"
  /\ IF once \/ cfg.poll_interval > 0
       THEN phase' = "pass" /\ UNCHANGED server
       ELSE phase' = "down" /\ server' = "ended"
  /\ UNCHANGED <<keyVars, signalled, due, readable, once, published, faults>>

(* Some other part of the state is changed, and every map is saved.        *)
SaveState ==
  /\ file' = actorKeys /\ readable' = TRUE
  /\ UNCHANGED <<actorKeys, made, cfg, env, key, loopVars, once, server, published,
                 faults>>

PassSaves == phase = "pass" /\ SaveState

(* A request to the admin API with this bearer token, which binds or       *)
(* unbinds; one in progress at the signal is finished.                     *)
AdminRequest(got) ==
  /\ Running /\ server = "serving"
  /\ Admitted(cfg, env, got)
  /\ SaveState

(* Mutation: a pass that panics takes the process with it. *)
EndPassUnrecovered ==
  /\ phase = "pass"
  /\ phase' \in {IF once THEN "stopping" ELSE "wait", "down"}
  /\ UNCHANGED <<keyVars, signalled, due, readable, once, server, published, faults>>

(* A pass returns, runs into PassTimeout or the signal (its context), or   *)
(* panics, which is recovered.                                             *)
EndPass ==
  /\ phase = "pass"
  /\ phase' = IF once THEN "stopping" ELSE "wait"
  /\ UNCHANGED <<keyVars, signalled, due, readable, once, server, published, faults>>

(* The ticker's channel holds one tick; the ticks that find it full are    *)
(* dropped.                                                                *)
Tick ==
  /\ phase \in {"pass", "wait"} /\ ~once /\ ~due
  /\ due' = TRUE
  /\ UNCHANGED <<keyVars, phase, signalled, readable, once, server, published, faults>>

(* The select of the loop: with a tick and a signal both there, it takes   *)
(* either.                                                                 *)
NextPass ==
  /\ phase = "wait" /\ due
  /\ phase' = "pass" /\ due' = FALSE
  /\ UNCHANGED <<keyVars, signalled, readable, once, server, published, faults>>

(* Mutation: the loop looks at the signal only when no tick is due. *)
StopUnlessDue ==
  /\ phase = "wait" /\ signalled /\ ~due
  /\ phase' = "stopping"
  /\ UNCHANGED <<keyVars, signalled, due, readable, once, server, published, faults>>

Stop ==
  /\ phase = "wait" /\ signalled
  /\ phase' = "stopping"
  /\ UNCHANGED <<keyVars, signalled, due, readable, once, server, published, faults>>

(* Shutdown waits for the requests being served, five seconds at most; a   *)
(* server that has not begun to listen never will.                         *)
Shutdown ==
  /\ phase = "stopping"
  /\ phase' = "down" /\ server' = "ended"
  /\ UNCHANGED <<keyVars, signalled, due, readable, once, published, faults>>

-----------------------------------------------------------------------------
(* The surroundings. *)

(* SIGINT or SIGTERM once the process asks to be told of them. *)
Signal ==
  /\ phase \in {"pass", "wait"} /\ ~signalled
  /\ signalled' = TRUE
  /\ UNCHANGED <<keyVars, phase, due, readable, once, server, published, faults>>

(* Any other end, a signal before that included. *)
Crash ==
  /\ phase # "down" /\ Fault
  /\ phase' = "down" /\ server' = "ended"
  /\ UNCHANGED <<keyVars, signalled, due, readable, once, published>>

Refuse ==
  /\ readable /\ Fault
  /\ readable' = FALSE
  /\ UNCHANGED <<keyVars, loopVars, once, server, published>>

Repair ==
  /\ ~readable
  /\ readable' = TRUE
  /\ UNCHANGED <<keyVars, loopVars, once, server, published, faults>>

Bearer == Env \cup {f.admin_token : f \in ConfigFile}

Next ==
  \/ \E f \in ConfigFile, e \in Env, flag \in BOOLEAN : Start(f, e, flag)
  \/ KnownActor
  \/ \E k \in Key : NewActor(k) \/ NewActorUnsaved(k)
  \/ \E got \in Bearer : AdminRequest(got)
  \/ Listen \/ FirstPass \/ PassSaves \/ EndPass \/ Tick \/ NextPass \/ Stop \/ Shutdown
  \/ Signal \/ Crash \/ Refuse \/ Repair

Spec == Init /\ [][Next]_vars

(* A pass ends: its context has a deadline, which every request it makes   *)
(* obeys.  The ticker ticks, Shutdown has a deadline of its own.  A select *)
(* that finds the signal there again and again takes it some time: among   *)
(* the branches that are ready Go chooses at random.                       *)
FairSpec ==
  Spec /\ WF_vars(EndPass) /\ WF_vars(Tick) /\ WF_vars(NextPass)
       /\ SF_vars(Stop) /\ WF_vars(Shutdown)

-----------------------------------------------------------------------------
(* Properties. *)

(* An actor has one key pair for good: whatever crashes, failed saves and  *)
(* refused files there were, no actor is ever served with two keys, so a   *)
(* peer that keeps the key it fetched can verify every later delivery      *)
(* (ensureActor; README.md:99 on losing the key pair).                     *)
OneKeyPerActor ==
  \A p, q \in published : p.id = q.id => p.key = q.key

(* The key that signs is the one a restart will find.                      *)
SigningKeyOnFile ==
  Running => name \in DOMAIN file /\ file[name] = key

(* Who looks the actor up by its handle and follows the link gets, from    *)
(* the route this process serves, the document of the actor whose key id   *)
(* is on its signatures and whose key verifies them, also with a trailing  *)
(* slash on public_base_url (ActorServer; README.md:40-41).                *)
Discoverable ==
  server = "serving" =>
    LET s    == ActorServer(cfg, key)
        jrd  == WebFinger(s, <<name, cfg.public_base_url.host>>)
        page == ActorRoute(s, jrd.self.path)
    IN  /\ jrd.status = 200 /\ page.status = 200
        /\ page.body.id = jrd.self
        /\ page.body.keyId = KeyID(s) /\ page.body.key = key

(* What config.Load lets through, the guards of main let out, and in       *)
(* plaintext only a Zulip of which that was said: neither a note to Graft  *)
(* nor the address of the actor (config.go:37-44; main.go:61-73).        *)
PlaintextOnlyToZulip ==
  phase # "down" =>
    /\ cfg.public_base_url.scheme = "https"
    /\ cfg.graft_base_url.scheme = "http" => graftPolicy.AllowHTTP
    /\ cfg.zulip_base_url.scheme = "http" =>
         zulipPolicy(cfg).AllowHTTP /\ cfg.allow_insecure_http

(* Asked to stop, the process stops, also when passes take longer than     *)
(* poll_interval and a tick is always due (main.go:147-156).               *)
StopsWhenAsked == signalled /\ phase # "down" ~> phase = "down"

(* Until it is asked to stop or crashes, the daemon begins another pass    *)
(* after each: a pass that fails, times out or panics is not the last      *)
(* (main.go:124-135).                                                      *)
KeepsPolling ==
  \A f \in 0..MaxFaults :
    LET left == signalled \/ faults > f
    IN  /\ phase = "pass" /\ ~once /\ faults = f ~> phase = "wait" \/ left
        /\ phase = "wait" /\ faults = f ~> phase = "pass" \/ left
=============================================================================
