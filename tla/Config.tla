------------------------------- MODULE Config -------------------------------
(***************************************************************************)
(* The configuration file: what config.Load (internal/config/config.go)    *)
(* makes of it and what main (cmd/bridge/main.go) derives from it, as far  *)
(* as the process around the passes is concerned.  The limits of a pass    *)
(* are constants of module Pass.                                           *)
(*                                                                         *)
(* A base URL is a record of scheme, host and whether it ends in a slash.  *)
(* A field the file leaves out is "", 0, { } or Absent.                    *)
(***************************************************************************)
EXTENDS Integers

Default(value, zero, default) == IF value = zero THEN default ELSE value

(* Only a field that is left out, or zero, gets its default: a negative    *)
(* duration is kept.                                                       *)
Defaulted(f) ==
  [f EXCEPT !.actor_name    = Default(@, "", "zulip"),
            !.poll_interval = Default(@, 0, 30)]

Absent == [scheme |-> "", host |-> "", slash |-> FALSE]

Required(f) ==
  /\ Absent \notin {f.public_base_url, f.graft_base_url, f.zulip_base_url}
  /\ f.email # "" /\ f.series # {}

(* Mutation: allow_insecure_http is meant for every URL. *)
checkAnyScheme(u, allowHTTP) == u.scheme \in {"https", "http"}

checkScheme(u, allowHTTP) == u.scheme = "https" \/ (u.scheme = "http" /\ allowHTTP)

(* Load: the mode of the file, its syntax, the fields there must be, the   *)
(* schemes.  The flag is for Zulip alone.                                  *)
Accepted(f) ==
  /\ ~f.shared /\ f.parses
  /\ Required(f)
  /\ checkScheme(f.public_base_url, FALSE)
  /\ checkScheme(f.graft_base_url, FALSE)
  /\ checkScheme(f.zulip_base_url, f.allow_insecure_http)

(* Who may be dialled, and how (netguard.Options).                         *)
graftPolicy    == [AllowPrivate |-> FALSE, AllowHTTP |-> FALSE]
zulipPolicy(c) == [AllowPrivate |-> TRUE, AllowHTTP |-> c.allow_insecure_http]

(* Mutation: the slash stays. *)
Untrimmed(u) == u

(* strings.TrimRight(u, "/") *)
TrimRight(u) == [scheme |-> u.scheme, host |-> u.host, slash |-> FALSE]

(* The actor that ensureActor makes of the configuration and a key pair.   *)
ActorServer(c, key) ==
  [BaseURL |-> TrimRight(c.public_base_url), Name |-> c.actor_name, Key |-> key]

-----------------------------------------------------------------------------
(* The admin API (newMux; internal/admin/admin.go). *)

(* The environment has the last word. *)
Token(c, env) == IF env # "" THEN env ELSE c.admin_token

Mounted(c, env) == Token(c, env) # ""

auth(token, got) == token # "" /\ got # "" /\ got = token

(* A request with this bearer token reaches the bridge. *)
Admitted(c, env, got) == Mounted(c, env) /\ auth(Token(c, env), got)

-----------------------------------------------------------------------------
(* The actor server (internal/ap/server.go). *)

ActorURL(s) ==
  [scheme |-> s.BaseURL.scheme, host |-> s.BaseURL.host,
   path   |-> IF s.BaseURL.slash THEN <<"", "actors", s.Name>> ELSE <<"actors", s.Name>>]

KeyID(s) == <<ActorURL(s), "main-key">>

Actor(s) == [id |-> ActorURL(s), keyId |-> KeyID(s), key |-> s.Key]

Handle(s) == <<s.Name, s.BaseURL.host>>

NotFound == [status |-> 404]

(* The two routes; both answer GET and HEAD only.  A path that is not      *)
(* clean is redirected by the mux, which counts as not found here.         *)
WebFinger(s, resource) ==
  IF resource \in {<< >>, Handle(s)}
    THEN [status |-> 200, subject |-> Handle(s), self |-> ActorURL(s)]
    ELSE NotFound

ActorRoute(s, path) ==
  IF path = <<"actors", s.Name>> THEN [status |-> 200, body |-> Actor(s)] ELSE NotFound
=============================================================================
