------------------------------ MODULE Outcome ------------------------------
(***************************************************************************)
(* How a call of a codec ends: with a result, an error or a panic.         *)
(***************************************************************************)
EXTENDS Naturals

Ok(x) == [st |-> "ok", x |-> x]
Err == [st |-> "error"]
Panic == [st |-> "panic"]

Least(S) == CHOOSE i \in S : \A j \in S : i <= j

(* Calls in order, each made when those before it were ok: the results of  *)
(* all, or the first failure.                                              *)
InOrder(calls) ==
    LET failed == {i \in DOMAIN calls : calls[i].st # "ok"}
    IN  IF failed = {} THEN Ok([i \in DOMAIN calls |-> calls[i].x])
                       ELSE calls[Least(failed)]

(* f of the result of a call that was ok. *)
Then(r, f(_)) == IF r.st = "ok" THEN Ok(f(r.x)) ELSE r

=============================================================================
