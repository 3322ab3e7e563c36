--------------------------- MODULE RetrySchedule ---------------------------
(***************************************************************************)
(* When the repair of one driver is attempted: main's tokio interval, whose *)
(* missed ticks come in a burst, against the backoff of reconcile.rs.      *)
(* Time is discrete; instants are kept relative to now.                    *)
(***************************************************************************)
EXTENDS Integers

CONSTANTS
    Base,          \* REPAIR_BACKOFF_BASE (300 s)
    Cap,           \* REPAIR_BACKOFF_MAX (3600 s)
    Period,        \* reconcile_interval_secs (300 s)
    LongestRepair, \* bound: a repair with its wheel Job and its post-repair check
    MaxFailures,   \* bound: the failure counter (a u32) stays at this value
    MaxDebt        \* bound: how far the loop falls behind the interval

ASSUME RetryAssumption ==
    /\ Base \in Nat \ {0} /\ Cap \in Nat /\ Base <= Cap
    /\ Period \in Nat \ {0}
    /\ LongestRepair \in Nat /\ MaxFailures \in Nat \ {0} /\ MaxDebt \in Nat

VARIABLES
    phase,     \* the loop: waiting for a tick, about to check, or repairing
    failures,  \* consecutive failed repairs (0: no entry in consecutive_failures)
    wait,      \* time left until next_attempt
    due,       \* time left until the interval's next tick; negative: it was missed
    spent,     \* how long the current repair has taken
    since,     \* history: time since the last failed repair ended, up to Cap
    unseen,    \* history: time since this driver was last checked or repaired
    skipped,   \* history: runs since then that did not attempt a repair
    fast       \* history: that repair failed before it took any time

vars == <<phase, failures, wait, due, spent, since, unseen, skipped, fast>>

(* 1u32 << exp, for the exponents min(16) lets through. *)
Shift(exp) == <<1, 2, 4, 8, 16, 32, 64, 128, 256, 512, 1024, 2048, 4096, 8192,
                16384, 32768, 65536>>[exp + 1]
AtMost(limit, n) == IF n <= limit THEN n ELSE limit
SaturatingPred(n) == IF n = 0 THEN 0 ELSE n - 1
ShiftedTooLittle(n) == SaturatingPred(SaturatingPred(n))        \* mutant: off by one
Exponent(n) == AtMost(16, SaturatingPred(n))

(* backoff_delay. checked_mul cannot overflow a Duration for any exponent. *)
DelayUncapped(n) == Base * Shift(Exponent(n))                   \* mutant: no cap
Delay(n) == AtMost(Cap, Base * Shift(Exponent(n)))

(* entry.0 += 1: long past the cap by MaxFailures.                         *)
Bump(n) == IF n < MaxFailures THEN n + 1 ELSE n

Elapse ==
    /\ phase = "sleeping" => due > 0          \* a tick is taken when it is due
    /\ phase # "checking"                     \* a check takes no time
    /\ phase = "repairing" => spent < LongestRepair /\ due > -MaxDebt
    /\ due' = due - 1
    /\ wait' = IF wait > 0 THEN wait - 1 ELSE 0
    /\ spent' = IF phase = "repairing" THEN spent + 1 ELSE spent
    /\ since' = IF failures > 0 THEN AtMost(Cap, since + 1) ELSE since
    /\ unseen' = IF phase = "repairing" THEN 0 ELSE unseen + 1
    /\ UNCHANGED <<phase, failures, skipped, fast>>

(* interval.tick(): the next deadline is one period after the last one, so *)
(* the ticks a long run missed follow at once.                             *)
Tick ==
    /\ phase = "sleeping" /\ due <= 0
    /\ phase' = "checking"
    /\ due' = due + Period
    /\ UNCHANGED <<failures, wait, spent, since, unseen, skipped, fast>>

AlwaysRetry == FALSE                          \* mutant: next_attempt not looked at
BackingOff == failures > 0 /\ wait > 0

Skip ==
    /\ phase = "checking" /\ BackingOff
    /\ phase' = "sleeping"
    /\ skipped' = AtMost(1, skipped + 1)
    /\ UNCHANGED <<failures, wait, due, spent, since, unseen, fast>>

(* Present: the entry is removed. *)
Clear == failures' = 0 /\ wait' = 0 /\ since' = 0 /\ unseen' = 0 /\ skipped' = 0 /\ fast' = FALSE

FindPresent ==
    /\ phase = "checking" /\ ~BackingOff
    /\ phase' = "sleeping"
    /\ Clear
    /\ UNCHANGED <<due, spent>>

(* Degraded: the entry stays, nothing is attempted. *)
FindDegraded ==
    /\ phase = "checking" /\ ~BackingOff
    /\ phase' = "sleeping"
    /\ unseen' = 0
    /\ UNCHANGED <<failures, wait, due, spent, since, skipped, fast>>

(* Absent: a repair. *)
Attempt ==
    /\ phase = "checking" /\ ~BackingOff
    /\ phase' = "repairing"
    /\ spent' = 0 /\ unseen' = 0
    /\ UNCHANGED <<failures, wait, due, since, skipped, fast>>

RepairConfirmed ==
    /\ phase = "repairing"
    /\ phase' = "sleeping"
    /\ Clear /\ spent' = 0
    /\ UNCHANGED due

(* bump_failure *)
RepairFailed ==
    /\ phase = "repairing"
    /\ phase' = "sleeping"
    /\ failures' = Bump(failures)
    /\ wait' = Delay(Bump(failures))
    /\ since' = 0 /\ unseen' = 0 /\ skipped' = 0 /\ fast' = (spent = 0) /\ spent' = 0
    /\ UNCHANGED due

(* A new process: ReconcileState::default(), and a first tick at once.     *)
Restart ==
    /\ phase' = "sleeping" /\ due' = 0 /\ spent' = 0
    /\ Clear

Init ==
    /\ phase = "sleeping" /\ due = 0 /\ spent = 0
    /\ failures = 0 /\ wait = 0 /\ since = 0 /\ unseen = 0 /\ skipped = 0 /\ fast = FALSE

Next == \/ Elapse \/ Tick \/ Skip \/ FindPresent \/ FindDegraded \/ Attempt
        \/ RepairConfirmed \/ RepairFailed \/ Restart

Spec == Init /\ [][Next]_vars

-----------------------------------------------------------------------------
TypeOK ==
    /\ phase \in {"sleeping", "checking", "repairing"}
    /\ failures \in 0..MaxFailures
    /\ wait \in 0..Cap
    /\ due \in Int /\ due <= Period
    /\ spent \in 0..LongestRepair
    /\ since \in 0..Cap /\ unseen \in Nat
    /\ skipped \in 0..1
    /\ fast \in BOOLEAN

(* The documented delay, base * 2^(failures-1) up to the cap: doubled with *)
(* every failure but the first.                                            *)
Doubled[n \in 0..MaxFailures] == IF n <= 1 THEN Base ELSE 2 * Doubled[n - 1]
Documented(n) == AtMost(Cap, Doubled[n])

(* Within one process the repairs of a driver that keeps failing are at    *)
(* least the documented delay apart, however many ticks a long run missed. *)
Spacing == [][Attempt /\ failures > 0 => since >= Documented(failures)]_vars

(* "a repair that can't work isn't retried (and a rollout isn't triggered) *)
(* every tick": after a repair that took time, the next tick passes it by. *)
NotEveryTick == [][Attempt /\ failures > 0 => skipped > 0 \/ fast]_vars

(* Nor is a driver ever forgotten: it is checked again within the cap and  *)
(* one period, whatever the backoff and the missed ticks.                  *)
CheckedInTime == unseen <= Cap + Period
=============================================================================
