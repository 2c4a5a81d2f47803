------------------------------- MODULE GoStatus -------------------------------
(***************************************************************************)
(* Status codes of the Go SDK, results that have a code and a value, and   *)
(* what either transport makes of a code.                                  *)
(***************************************************************************)
EXTENDS Integers, Sequences

StatusCodeOk == 0
StatusCodeInvalidArgument == 3
StatusCodeNotFound == 5
StatusCodePermissionDenied == 7
StatusCodeUnimplemented == 12
StatusCodeInternal == 13
StatusCodeUnauthenticated == 16

nil == <<"nil", 0>>

Reply(v) == [code |-> StatusCodeOk, value |-> v]
ReplyError(code) == [code |-> code, value |-> nil]
IsOk(r) == r.code = StatusCodeOk

ToGRPCCode(code) == IF code \in 0..16 THEN code ELSE 2

ToHTTPStatus(code) ==
    CASE code = 0 -> 200 [] code = 1 -> 499 [] code \in {3, 9, 11} -> 400 [] code = 4 -> 504
      [] code = 5 -> 404 [] code \in {6, 10} -> 409 [] code = 7 -> 403 [] code = 8 -> 429
      [] code = 12 -> 501 [] code = 14 -> 503 [] code = 16 -> 401 [] OTHER -> 500
=============================================================================
