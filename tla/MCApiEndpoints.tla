--------------------------- MODULE MCApiEndpoints ----------------------------
(***************************************************************************)
(* Instances of ApiEndpoints for TLC: two workers, each with its health    *)
(* check, one of them or none with an operation.                           *)
(***************************************************************************)
EXTENDS ApiEndpoints, TLC

CONSTANTS w1, w2, h1, h2, op

SharedWorkerOf == (h1 :> w1) @@ (h2 :> w2) @@ (op :> w1)
SharedKindOf == (h1 :> "health") @@ (h2 :> "health") @@ (op :> "operation")

HealthWorkerOf == (h1 :> w1) @@ (h2 :> w2)
HealthKindOf == (h1 :> "health") @@ (h2 :> "health")

AllFaults == {"database", "connection", "cancellation", "crash"}
=============================================================================
