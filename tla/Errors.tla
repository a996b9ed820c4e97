------------------------------- MODULE Errors -------------------------------
(* The errors a request can meet, by their codes, and the HTTP status each  *)
(* of them is answered with (kafka/error.rs, app/error.rs).                 *)
EXTENDS Integers

QueryErrors ==
  {"limit_too_small", "invalid_cursor", "inverted_timestamp_range", "filter_too_long"}

Unknowns ==
  {"unknown_topic", "unknown_group", "unknown_broker", "unknown_subject",
   "unknown_schema", "unknown_partition", "unknown_offset", "no_schema_registry"}

\* What Kafka or the registry would not do, and what klens would not ask for.
Refusals ==
  {"refused", "registry_refused", "unencodable", "internal_topic", "prefixed_acl",
   "no_committed_offset"}

Conflicts == {"active_group", "consumed_topic"}

Failures == {"admin", "broker_configs", "schema_registry", "client"}

KafkaErrors ==
  QueryErrors \union Unknowns \union Refusals \union Conflicts \union Failures
    \union {"unknown_cluster", "timeout"}

AccessErrors == {"unknown_cluster", "forbidden", "read_only"}

ApiErrors ==
  KafkaErrors \union AccessErrors
    \union {"session_expired", "unauthorized", "host_not_allowed", "not_from_gateway",
            "not_found", "too_many_tails", "rate_limited", "too_many_live_calls",
            "not_ready", "unprocessable"}

KafkaStatus(error) ==
  CASE error \in Unknowns \union {"unknown_cluster"} -> 404
    [] error \in QueryErrors -> 400
    [] error \in Refusals -> 422
    [] error \in Conflicts -> 409
    [] error \in Failures -> 502
    [] error = "timeout" -> 504

Status(error) ==
  CASE error \in {"session_expired", "unauthorized"} -> 401
    [] error \in {"too_many_tails", "not_ready"} -> 503
    [] error \in {"rate_limited", "too_many_live_calls"} -> 429
    [] error = "unprocessable" -> 422
    [] error \in {"host_not_allowed", "not_from_gateway", "forbidden", "read_only"} -> 403
    [] error \in {"not_found", "unknown_cluster"} -> 404
    [] error \in KafkaErrors \ {"unknown_cluster"} -> KafkaStatus(error)
=============================================================================
