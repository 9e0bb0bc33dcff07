------------------------------ MODULE Requests ------------------------------
(***************************************************************************)
(* How one request to Dolibarr ends: DolibarrClient._request_typed         *)
(* (src/src/dolibarr_mcp/client.py), and the status that each error class  *)
(* (errors.py) has in answers of this server.                              *)
(***************************************************************************)
EXTENDS Naturals, FiniteSets

\* Statuses stand for their classes: 302 for 1xx and 3xx, 418 for other 4xx, 500 for 5xx.
\* An unusable payload is no JSON or does not fit the schema.
Reply == {"ok", "unusable", "timeout", "unreachable"}
         \cup {"302", "400", "401", "403", "404", "405", "409", "418", "422", "429", "500"}

Error == {"InvalidDolibarrCredentials", "DolibarrPermissionDenied", "DolibarrNotFound",
          "DolibarrConflict", "DolibarrRateLimited", "DolibarrUnavailable",
          "DolibarrWriteRejected", "InvalidDolibarrResponse", "DolibarrResultLimit"}

\* Mutant: the identity request is treated like any other.
MutantErrorOf(method, identity, a) ==
    CASE a = "ok" -> "none"
      [] a \in {"timeout", "unreachable", "500"} -> "DolibarrUnavailable"
      [] a = "401" -> "InvalidDolibarrCredentials"
      [] a = "403" -> "DolibarrPermissionDenied"
      [] a = "404" -> "DolibarrNotFound"
      [] a = "409" -> "DolibarrConflict"
      [] a = "429" -> "DolibarrRateLimited"
      [] a \in {"400", "405", "422"} /\ method # "GET" -> "DolibarrWriteRejected"
      [] OTHER -> "InvalidDolibarrResponse"

\* identity: the request that verifies a key.
ErrorOf(method, identity, a) ==
    CASE a = "ok" -> "none"
      [] a \in {"timeout", "unreachable", "500"} -> "DolibarrUnavailable"
      [] a = "401" \/ (a = "403" /\ identity) -> "InvalidDolibarrCredentials"
      [] a = "403" /\ ~ identity -> "DolibarrPermissionDenied"
      [] a = "404" /\ ~ identity -> "DolibarrNotFound"
      [] a = "409" /\ ~ identity -> "DolibarrConflict"
      [] a = "429" -> "DolibarrRateLimited"
      [] a \in {"400", "405", "422"} /\ method # "GET" -> "DolibarrWriteRejected"
      [] OTHER -> "InvalidDolibarrResponse"

HttpStatus(e) ==
    CASE e = "InvalidDolibarrCredentials" -> 401
      [] e = "DolibarrPermissionDenied" -> 403
      [] e = "DolibarrNotFound" -> 404
      [] e = "DolibarrConflict" -> 409
      [] e \in {"DolibarrWriteRejected", "DolibarrResultLimit"} -> 422
      [] e = "DolibarrRateLimited" -> 429
      [] e = "DolibarrUnavailable" -> 503
      [] e = "InvalidDolibarrResponse" -> 502
=============================================================================
