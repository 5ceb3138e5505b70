------------------------------ MODULE MCDaemon ------------------------------
(* Module Daemon for TLC: the configuration files an operator may write.     *)
EXTENDS Daemon

CONSTANTS n1

Url(scheme, host) == [scheme |-> scheme, host |-> host, slash |-> FALSE]

(* Accepted: a trailing slash, the default name, a token in the file. *)
Base ==
  [shared |-> FALSE, parses |-> TRUE, allow_insecure_http |-> FALSE,
   public_base_url |-> [Url("https", "bridge") EXCEPT !.slash = TRUE],
   graft_base_url  |-> Url("https", "graft"),
   zulip_base_url  |-> Url("https", "zulip"),
   email |-> "bot", series |-> {"s1"}, actor_name |-> "", poll_interval |-> 0,
   admin_token |-> "filed"]

(* Accepted: another name, and a Zulip on an internal network. *)
Internal ==
  [Base EXCEPT !.public_base_url.slash = FALSE, !.actor_name = n1, !.admin_token = "",
               !.zulip_base_url.scheme = "http", !.allow_insecure_http = TRUE]

(* Accepted, and of no use to a daemon. *)
Backwards == [Base EXCEPT !.poll_interval = -1]

Refused ==
  {[Base EXCEPT !.shared = TRUE], [Base EXCEPT !.parses = FALSE],
   [Base EXCEPT !.series = {}], [Base EXCEPT !.email = ""],
   [Base EXCEPT !.public_base_url.scheme = "http", !.allow_insecure_http = TRUE],
   [Base EXCEPT !.graft_base_url.scheme = "http", !.allow_insecure_http = TRUE],
   [Base EXCEPT !.zulip_base_url.scheme = "http"],
   [Base EXCEPT !.zulip_base_url.scheme = "ftp"]}

ConfigFiles == {Base, Internal, Backwards} \cup Refused

Envs == {"", "enved"}
=============================================================================
