---------------------------- MODULE MCSecureFlow ----------------------------
(* A small instance of SecureFlow for TLC.                                 *)
EXTENDS SecureFlow

Config(mode, replay, revocation) ==
  [mode |-> mode, key_store_uri |-> "file", replay_store_uri |-> replay,
   revocation_log_uri |-> revocation, max_payload_bytes |-> 1048576,
   replay_window_seconds |-> 300, redact_errors |-> TRUE, allow_demo_keys |-> FALSE,
   demo_key_ids |-> {}, tenant_id |-> "",
   rate_limit |-> {[requests_per_minute |-> 600, burst |-> 60]}]

\* SIFRConfig.demo(), a verifier in each of the other modes, and settings
\* that validate refuses: a cluster without a replay store, a tenant verifier
\* without a tenant, a window and a burst out of range.
SomeConfigs == {
  [Config("development_demo", "", "") EXCEPT
     !.key_store_uri = "", !.allow_demo_keys = TRUE, !.redact_errors = FALSE, !.rate_limit = {}],
  Config("single_verifier", "replay.db", ""),
  Config("clustered_verifier", "replay.db", "revocations"),
  Config("clustered_verifier", "", "revocations"),
  [Config("multi_tenant_verifier", "replay.db", "revocations") EXCEPT !.tenant_id = "t1"],
  Config("multi_tenant_verifier", "replay.db", "revocations"),
  [Config("single_verifier", "", "") EXCEPT !.replay_window_seconds = 0],
  [Config("single_verifier", "", "") EXCEPT !.rate_limit = {[requests_per_minute |-> 1, burst |-> 2]}]}

\* A sum that wraps at three bits, one that does not, and calls that fail.
SomeArgs == {<<3, 2>>, <<-1, 2>>, <<NotInt, 2>>, <<NotNumber, 2>>}
=============================================================================
