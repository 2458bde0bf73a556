---------------------------- MODULE Configuration ---------------------------
(***************************************************************************)
(* sifr/config.py: which settings SIFRConfig.validate accepts, and what    *)
(* the replay cache of a verifier is built from.  A setting that is None   *)
(* or empty is "", and a rate limit a set of at most one.                  *)
(***************************************************************************)
EXTENDS Integers

ClusteredModes == {"clustered_verifier", "multi_tenant_verifier"}

\* RateLimitConfig.validate
RateLimitValid(limit) ==
  limit.requests_per_minute > 0 /\ limit.burst > 0 /\ limit.burst <= limit.requests_per_minute

RangesValid(cfg) ==
  /\ 0 < cfg.max_payload_bytes /\ cfg.max_payload_bytes <= 16 * 1024 * 1024
  /\ 0 < cfg.replay_window_seconds /\ cfg.replay_window_seconds <= 24 * 60 * 60
  /\ \A limit \in cfg.rate_limit : RateLimitValid(limit)

\* Mutation: a cluster may do without shared stores.
ProductionValidAlone(cfg) ==
  /\ ~cfg.allow_demo_keys /\ cfg.demo_key_ids = {}
  /\ cfg.redact_errors
  /\ cfg.key_store_uri \notin {"", "demo"}
  /\ cfg.mode = "multi_tenant_verifier" => cfg.tenant_id # ""

\* Outside the demo mode; a key store URI with "demo" in it is "demo".
ProductionValid(cfg) ==
  /\ ~cfg.allow_demo_keys /\ cfg.demo_key_ids = {}
  /\ cfg.redact_errors
  /\ cfg.key_store_uri \notin {"", "demo"}
  /\ cfg.mode \in ClusteredModes => cfg.replay_store_uri # "" /\ cfg.revocation_log_uri # ""
  /\ cfg.mode = "multi_tenant_verifier" => cfg.tenant_id # ""

\* SIFRConfig.validate
Valid(cfg) ==
  /\ RangesValid(cfg)
  /\ IF cfg.mode = "development_demo" THEN cfg.allow_demo_keys ELSE ProductionValid(cfg)

\* build_replay_cache: without a store the cache is in the memory of the
\* process alone.
ReplayIsDurable(cfg) == cfg.replay_store_uri # ""
=============================================================================
