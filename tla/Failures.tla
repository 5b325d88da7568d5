------------------------------ MODULE Failures ------------------------------
(***************************************************************************)
(* Classification of cloud control-plane failures (core/failures.py), the  *)
(* error a provider operation raises (core/exceptions.py) and the effect a *)
(* reported failure has on the account that suffered it                    *)
(* (AccountManager.outcome_for, accounts/manager.py).                      *)
(***************************************************************************)

FailureKind == {"auth", "permission", "quota", "rate_limit", "capacity",
                "invalid_request", "transient"}

\* Another account may succeed where this one failed.
AllowsFailover(kind) == kind # "invalid_request"

(***************************************************************************)
(* A ProviderOperationError: resource_may_exist and operation_may_continue *)
(* are what the services decide from.                                      *)
(***************************************************************************)
Error == [kind : FailureKind, resource_may_exist : BOOLEAN,
          operation_may_continue : BOOLEAN]

NoError == [kind |-> "none", resource_may_exist |-> FALSE,
            operation_may_continue |-> FALSE]

\* A classified failure raised before anything remote happened.
LocalError(kind) ==
    [kind |-> kind, resource_may_exist |-> FALSE,
     operation_may_continue |-> FALSE]

(***************************************************************************)
(* Scheduling health of a pooled account.  Only rejected credentials       *)
(* revoke; throttling, quota, permission and transient failures park; a    *)
(* stock-out or a bad request leaves the account alone.                    *)
(***************************************************************************)
Health == {"available", "cooldown", "revoked"}

HealthAfter(health, kind) ==
    CASE kind = "auth" -> "revoked"
      [] kind \in {"rate_limit", "quota", "permission", "transient"} -> "cooldown"
      [] OTHER -> health
=============================================================================
