--------------------------- MODULE WheelContract ----------------------------
(***************************************************************************)
(* What wheelcache::refresh promises its caller, without Jobs or pods: it  *)
(* returns, and when it returns Ok the driver's directory holds the wheels *)
(* of this very refresh until the next one -- unless an API error or the   *)
(* end of the guardian came in between, in this refresh or an earlier one. *)
(***************************************************************************)

VARIABLES
    busy,         \* TRUE: refresh was called and has not returned
    result,       \* what it returned last
    cache,        \* "own": the wheels of the latest refresh and no others
    interrupted   \* TRUE: an API error, or a new process, so far

vars == <<busy, result, cache, interrupted>>

Interruptible == interrupted' \in {interrupted, TRUE}

Call ==
    /\ ~busy /\ busy' = TRUE
    /\ result' = "none" /\ cache' = "other"
    /\ Interruptible

(* Jobs and pods at work: at rest too, after a refresh that gave up, but   *)
(* not after one that was Ok.                                              *)
Work ==
    /\ UNCHANGED <<busy, result>>
    /\ cache' \in {"own", "other"}
    /\ ~busy /\ result = "ok" /\ ~interrupted => UNCHANGED cache
    /\ Interruptible

Succeed ==
    /\ busy /\ busy' = FALSE
    /\ result' = "ok"
    /\ UNCHANGED cache
    /\ cache = "own" \/ interrupted
    /\ Interruptible

Fail ==
    /\ busy /\ busy' = FALSE
    /\ result' = "err"
    /\ UNCHANGED cache
    /\ Interruptible

(* The process ends, and nobody learns of the result. *)
Abort ==
    /\ busy' = FALSE /\ result' = "none"
    /\ UNCHANGED cache
    /\ interrupted' = TRUE

Init ==
    /\ busy = FALSE /\ result = "none"
    /\ cache = "other" /\ interrupted = FALSE

Next == Call \/ Work \/ Succeed \/ Fail \/ Abort

Spec == Init /\ [][Next]_vars
=============================================================================
