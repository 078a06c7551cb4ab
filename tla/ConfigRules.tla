---------------------------- MODULE ConfigRules ----------------------------
(***************************************************************************)
(* What the configuration package computes (internal/config): Load, which  *)
(* fills in defaults and validates, and Diff, which says what a reload     *)
(* changes.                                                                *)
(*                                                                         *)
(* A parsed file is a record:                                              *)
(*   settings  a function from the names of the settings it gives, path    *)
(*             with _ for a dot; a setting given its zero value (0, "",    *)
(*             false) cannot be told from one not given, and is left out.  *)
(*             A list given as [] can (it is not nil), and is <<>>.        *)
(*             Durations are in seconds, rates in percent, lists (proxies, *)
(*             domains, URLs, policies) sequences.                         *)
(*   agents    the sequence of agents, records with a zero value where the *)
(*             file gives none                                             *)
(***************************************************************************)
EXTENDS Integers, FiniteSets, Sequences

CONSTANT Readable      \* paths os.Stat finds

Has(c, f) == f \in DOMAIN c.settings

----------------------------------------------------------------------------
(* ApplyDefaults *)

Default ==
    [listen_host |-> "0.0.0.0", listen_port |-> 8080, listen_max_connections |-> 1000,
     listen_global_rate_limit |-> 5000, listen_trusted_proxies |-> <<>>, mcp_host |-> "127.0.0.1", mcp_port |-> 8081,
     health_liveness_path |-> "/healthz", health_readiness_path |-> "/readyz",
     health_readiness_mode |-> "any_healthy", routing_mode |-> "path-prefix",
     card_mode |-> "gateway", security_auth_mode |-> "passthrough-strict",
     body_inspection_max_size |-> 1048576, logging_level |-> "info",
     logging_format |-> "json", logging_output |-> "stdout", shutdown_timeout |-> 30,
     shutdown_drain_timeout |-> 15, migration_agentgateway_version |-> "latest",
     locale_default |-> "en"]

CardSignatureDefault == [security_card_signature_cache_ttl |-> 3600]

ReplayDefault ==
    [security_replay_window |-> 300, security_replay_nonce_policy |-> "warn",
     security_replay_nonce_source |-> "auto", security_replay_clock_skew |-> 5,
     security_replay_store |-> "memory", security_replay_cleanup_interval |-> 60]

RateLimitDefault ==
    [security_rate_limit_ip_per_ip |-> 200, security_rate_limit_ip_burst |-> 50,
     security_rate_limit_ip_cleanup_interval |-> 300,
     security_rate_limit_user_per_user |-> 100, security_rate_limit_user_burst |-> 20,
     security_rate_limit_user_cleanup_interval |-> 300, security_rate_limit_per_agent |-> 500]

AuditDefault ==
    [logging_audit_sampling_rate |-> 100, logging_audit_error_sampling_rate |-> 100,
     logging_audit_max_body_log_size |-> 1024]

\* Push protection is on as a whole where the file says nothing about it.
PushDefault(c) ==
    LET told == {"security_push_block_private_networks", "security_push_require_https",
                 "security_push_require_challenge", "security_push_hmac_secret"}
        domains == /\ Has(c, "security_push_allowed_domains")
                   /\ c.settings.security_push_allowed_domains # <<>>
    IN  IF domains \/ \E f \in told : Has(c, f) THEN [security_push_dns_fail_policy |-> "block"]
        ELSE [security_push_dns_fail_policy |-> "block",
              security_push_block_private_networks |-> TRUE,
              security_push_require_https |-> TRUE, security_push_require_challenge |-> TRUE]

\* So is the reload, and the watching of the file.
ReloadDefault(c) ==
    IF \E f \in {"reload_enabled", "reload_watch_file", "reload_debounce"} : Has(c, f)
    THEN [reload_debounce |-> 2]
    ELSE [reload_debounce |-> 2, reload_enabled |-> TRUE, reload_watch_file |-> TRUE]

AgentDefaults(a) ==
    [a EXCEPT !.poll_interval = IF @ = 0 THEN 60 ELSE @,
              !.timeout = IF @ = 0 THEN 30 ELSE @,
              !.max_streams = IF @ = 0 THEN 10 ELSE @,
              !.card_change_policy = IF @ = "" THEN "alert" ELSE @]

\* s, with what d gives where s gives nothing.
Fill(s, d) ==
    [f \in DOMAIN s \cup DOMAIN d |-> IF f \in DOMAIN s THEN s[f] ELSE d[f]]

ApplyDefaults(c) ==
    LET defaults == {Default, CardSignatureDefault, ReplayDefault, RateLimitDefault,
                     AuditDefault, PushDefault(c), ReloadDefault(c)}
        given == UNION {DOMAIN d : d \in defaults}
    IN  [settings |-> Fill(c.settings,
                           [f \in given |-> (CHOOSE d \in defaults : f \in DOMAIN d)[f]]),
         agents |-> [i \in DOMAIN c.agents |-> AgentDefaults(c.agents[i])]]

----------------------------------------------------------------------------
(* Validate *)

\* What a setting must be, if it is set.
Allowed(f, v) ==
    CASE f \in {"listen_port", "listen_grpc_port", "mcp_port"} -> v \in 1 .. 65535
      [] f \in {"listen_max_connections", "listen_global_rate_limit"} -> v >= 1
      [] f = "security_auth_mode" -> v \in {"passthrough", "passthrough-strict", "terminate"}
      [] f = "routing_mode" -> v \in {"path-prefix", "single"}
      [] f = "health_readiness_mode" -> v \in {"any_healthy", "default_healthy", "all_healthy"}
      [] f = "card_mode" -> v \in {"gateway", "passthrough"}
      [] f = "security_replay_nonce_policy" -> v \in {"warn", "require"}
      [] f = "security_replay_nonce_source" -> v \in {"auto", "header", "jsonrpc-id"}
      [] f = "security_push_dns_fail_policy" -> v \in {"block", "allow"}
      [] f \in {"listen_tls_cert_file", "listen_tls_key_file"} -> v \in Readable
      [] f \in {"logging_audit_sampling_rate", "logging_audit_error_sampling_rate"} ->
            v \in 0 .. 100
      [] OTHER -> TRUE

\* hasHost stands for a grpc_url that url.Parse takes and finds a host in.
ValidAgent(a) ==
    /\ a.name # "" /\ a.url # ""
    /\ a.poll_interval >= 0 /\ a.timeout >= 0
    /\ a.grpc_url \in {"", "hasHost"}
    /\ a.card_change_policy \in {"auto", "alert", "approve"}

AtMostOneDefault(c) == \A i, j \in DOMAIN c.agents :
    c.agents[i].default /\ c.agents[j].default => i = j

Validate(c) ==
    /\ c.agents # <<>>
    /\ \A i \in DOMAIN c.agents : ValidAgent(c.agents[i])
    /\ AtMostOneDefault(c)
    /\ \A f \in DOMAIN c.settings : Allowed(f, c.settings[f])
    /\ Has(c, "listen_grpc_port") => c.settings.listen_grpc_port # c.settings.listen_port

\* Mutant: what the file says is validated before the defaults are filled in.
MutLoads(c) ==
    /\ \A i \in DOMAIN c.agents :
          ValidAgent([c.agents[i] EXCEPT !.card_change_policy = AgentDefaults(c.agents[i]).card_change_policy])
    /\ c.agents # <<>> /\ AtMostOneDefault(c)
    /\ \A f \in DOMAIN c.settings : Allowed(f, c.settings[f])
    /\ Has(c, "listen_grpc_port") /\ Has(c, "listen_port") =>
          c.settings.listen_grpc_port # c.settings.listen_port

\* Load returns ApplyDefaults(c), if that is valid.
Loads(c) == Validate(ApplyDefaults(c))

----------------------------------------------------------------------------
(* Diff *)

NeedRestart ==
    {"listen_host", "listen_port", "listen_grpc_port", "listen_max_connections",
     "listen_global_rate_limit", "listen_tls_cert_file", "listen_tls_key_file",
     "listen_trusted_proxies", "external_url", "mcp_enabled", "mcp_host", "mcp_port",
     "routing_mode", "card_mode", "health_readiness_mode", "body_inspection_max_size",
     "shutdown_timeout", "shutdown_drain_timeout"}

Reloadable ==
    {"security_auth_mode", "security_auth_allow_unauthenticated",
     "security_rate_limit_enabled", "security_rate_limit_per_agent",
     "security_rate_limit_ip_per_ip", "security_rate_limit_ip_burst",
     "security_rate_limit_ip_cleanup_interval", "security_rate_limit_user_per_user",
     "security_rate_limit_user_burst", "security_rate_limit_user_cleanup_interval",
     "security_card_signature_require", "security_card_signature_trusted_jwks_urls",
     "security_card_signature_cache_ttl", "security_replay_enabled", "security_replay_window",
     "security_replay_nonce_policy", "security_replay_nonce_source",
     "security_replay_clock_skew", "security_push_block_private_networks",
     "security_push_require_https", "security_push_require_challenge",
     "security_push_allowed_domains", "security_push_dns_fail_policy", "logging_level",
     "logging_format", "logging_audit_sampling_rate", "logging_audit_error_sampling_rate",
     "logging_audit_max_body_log_size"}

\* Lists too: an empty one differs from none.
diffField(old, new, f) ==
    \/ Has(old, f) # Has(new, f)
    \/ Has(old, f) /\ Has(new, f) /\ old.settings[f] # new.settings[f]

Names(c) == {c.agents[i].name : i \in DOMAIN c.agents}

\* Of agents with one name the map keeps the last.
AgentNamed(c, n) ==
    c.agents[CHOOSE i \in DOMAIN c.agents :
                /\ c.agents[i].name = n
                /\ \A j \in DOMAIN c.agents : c.agents[j].name = n => j <= i]

\* grpc_url is not among what is compared.
AgentFields == {"url", "timeout", "max_streams", "default", "card_change_policy", "poll_interval"}

\* Of a changed agent: its name, and the field (none if it is new or gone).
diffAgents(old, new) ==
    {<<n, "">> : n \in (Names(old) \ Names(new)) \cup (Names(new) \ Names(old))}
      \cup {c \in (Names(old) \cap Names(new)) \X AgentFields :
               AgentNamed(old, c[1])[c[2]] # AgentNamed(new, c[1])[c[2]]}

\* security.policies, mcp.auth.token, logging.output and others are in
\* neither set: Diff does not see them.
Diff(old, new) ==
    {<<"", f>> : f \in {g \in NeedRestart \cup Reloadable : diffField(old, new, g)}}
      \cup diffAgents(old, new)
=============================================================================
