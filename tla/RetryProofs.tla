----------------------------- MODULE RetryProofs -----------------------------
(***************************************************************************)
(* RetrySchedule for every base, cap, interval and length of a repair: the *)
(* delay stays within its bounds and never shrinks, no repair comes before *)
(* it is over, and no driver goes unchecked for longer than the cap and    *)
(* one interval.                                                           *)
(***************************************************************************)
EXTENDS RetrySchedule, TLAPS

Steps == INSTANCE SelectionProofs WITH Name <- {}

(* The shift of backoff_delay, entry by entry. *)
LEMMA ShiftTable ==
  /\ Shift(0) = 1 /\ Shift(1) = 2 /\ Shift(2) = 4 /\ Shift(3) = 8 /\ Shift(4) = 16
  /\ Shift(5) = 32 /\ Shift(6) = 64 /\ Shift(7) = 128 /\ Shift(8) = 256 /\ Shift(9) = 512
  /\ Shift(10) = 1024 /\ Shift(11) = 2048 /\ Shift(12) = 4096 /\ Shift(13) = 8192 /\ Shift(14) = 16384
  /\ Shift(15) = 32768 /\ Shift(16) = 65536
  BY DEF Shift

(* It grows with the exponents it is given ... *)
LEMMA ShiftGrows ==
  /\ \A e \in 0..16 : Shift(e) \in Nat /\ Shift(e) >= 1
  /\ \A e \in 0..15 : Shift(e) <= Shift(e + 1)
  BY ShiftTable, SMTT(60)

(* ... and doubles with each. *)
LEMMA ShiftDoubles ==
  \A n \in 1..16 : Shift(n - 1) \in Nat /\ Shift(n) = 2 * Shift(n - 1)
  BY ShiftTable, SMTT(60)

(* The exponent is in range, and grows with the failures until it is capped. *)
LEMMA ExponentInRange ==
  ASSUME NEW n \in Nat
  PROVE  /\ Exponent(n) \in 0..16
         /\ \/ Exponent(n + 1) = Exponent(n)
            \/ Exponent(n) \in 0..15 /\ Exponent(n + 1) = Exponent(n) + 1
  BY DEF Exponent, AtMost, SaturatingPred

(* backoff_delay: never shorter than the base, never longer than the cap,  *)
(* and never shorter after one more failure.                               *)
THEOREM DelayBounds ==
  ASSUME NEW n \in Nat
  PROVE  /\ Delay(n) \in Nat
         /\ Base <= Delay(n) /\ Delay(n) <= Cap
         /\ Delay(n) <= Delay(n + 1)
  <1> DEFINE s == Shift(Exponent(n))
             t == Shift(Exponent(n + 1))
  <1>1. s \in Nat /\ t \in Nat /\ s >= 1 /\ s <= t
    <2>1. Exponent(n) \in 0..16 /\ Exponent(n + 1) \in 0..16
      BY ExponentInRange
    <2>2. CASE Exponent(n + 1) = Exponent(n)
      BY <2>1, <2>2, ShiftGrows
    <2>3. CASE Exponent(n) \in 0..15 /\ Exponent(n + 1) = Exponent(n) + 1
      BY <2>1, <2>3, ShiftGrows
    <2> QED BY <2>2, <2>3, ExponentInRange
  <1>2. Base * s \in Nat /\ Base * t \in Nat /\ Base <= Base * s /\ Base * s <= Base * t
    <2> HIDE DEF s, t
    <2>1. Base \in Nat /\ Base * 1 = Base
      BY RetryAssumption
    <2>2. \A a, b, c \in Nat : a <= b => c * a \in Nat /\ c * b \in Nat /\ c * a <= c * b
      OBVIOUS
    <2> QED BY <1>1, <2>1, <2>2
  <1>3. Delay(n) = AtMost(Cap, Base * s) /\ Delay(n + 1) = AtMost(Cap, Base * t)
    BY DEF Delay
  <1> HIDE DEF s, t
  <1> QED BY <1>2, <1>3, RetryAssumption DEF AtMost

(* The documented law, base * 2^(failures-1) up to the cap: the first delay *)
(* is the base, and each failure doubles it, until the exponent's own cap.  *)
THEOREM DelayDoubles ==
  /\ Delay(1) = Base
  /\ \A n \in 1..16 : Delay(n + 1) = AtMost(Cap, 2 * Delay(n))
  <1>1. Delay(1) = Base
    <2>1. Exponent(1) = 0
      BY DEF Exponent, AtMost, SaturatingPred
    <2>2. Base \in Nat /\ Base * 1 = Base
      BY RetryAssumption
    <2>3. Shift(0) = 1
      BY DEF Shift
    <2>4. Delay(1) = AtMost(Cap, Base * 1)
      BY <2>1, <2>3 DEF Delay
    <2> QED BY <2>2, <2>4, RetryAssumption DEF AtMost
  <1>2. ASSUME NEW n \in 1..16
        PROVE  Delay(n + 1) = AtMost(Cap, 2 * Delay(n))
    <2>1. Exponent(n) = n - 1 /\ Exponent(n + 1) = n
      BY DEF Exponent, AtMost, SaturatingPred
    <2>2. PICK s \in Nat : Shift(n - 1) = s /\ Shift(n) = 2 * s
      BY ShiftDoubles
    <2>3. PICK x \in Nat : Base * s = x /\ Base * (2 * s) = 2 * x
      <3>1. \A b, c \in Nat : b * c \in Nat /\ b * (2 * c) = 2 * (b * c)
        OBVIOUS
      <3> QED BY <3>1, RetryAssumption
    <2>4. Delay(n) = AtMost(Cap, x) /\ Delay(n + 1) = AtMost(Cap, 2 * x)
      BY <2>1, <2>2, <2>3 DEF Delay
    <2> QED BY <2>4, RetryAssumption DEF AtMost
  <1> QED BY <1>1, <1>2

-----------------------------------------------------------------------------
(* Bumping the counter keeps it in range. *)
LEMMA BumpInRange ==
  ASSUME NEW n \in 0..MaxFailures
  PROVE  Bump(n) \in 0..MaxFailures /\ Bump(n) > 0 /\ Bump(n) \in Nat
  BY RetryAssumption DEF Bump

(* The delay and the counter stay in their ranges, and missed ticks never  *)
(* push the next deadline further away than one interval.                  *)
THEOREM RetryTypeCorrect == Spec => []TypeOK
  <1>1. Init => TypeOK
    <2>1. Init => fast \in BOOLEAN
      BY Zenon DEF Init
    <2> QED BY <2>1, RetryAssumption DEF Init, TypeOK
  <1>2. TypeOK /\ [Next]_vars => TypeOK'
    <2> SUFFICES ASSUME TypeOK, [Next]_vars PROVE TypeOK'
      OBVIOUS
    <2> USE RetryAssumption DEF TypeOK
    <2>1. CASE Elapse
      BY <2>1 DEF Elapse, AtMost
    <2>2. CASE Tick
      BY <2>2 DEF Tick
    <2>3. CASE Skip
      BY <2>3 DEF Skip, AtMost
    <2>a. Clear => fast' \in BOOLEAN
      BY Zenon DEF Clear
    <2>4. CASE FindPresent \/ FindDegraded \/ Attempt \/ RepairConfirmed
      BY <2>4, <2>a DEF FindPresent, FindDegraded, Attempt, RepairConfirmed, Clear
    <2>5. CASE RepairFailed
      <3>1. failures' \in 0..MaxFailures /\ wait' \in 0..Cap
        BY <2>5, BumpInRange, DelayBounds DEF RepairFailed
      <3> QED BY <2>5, <3>1 DEF RepairFailed
    <2>6. CASE Restart
      BY <2>6, <2>a DEF Restart, Clear
    <2>7. CASE UNCHANGED vars
      BY <2>7 DEF vars
    <2> QED BY <2>1, <2>2, <2>3, <2>4, <2>5, <2>6, <2>7 DEF Next
  <1> QED BY <1>1, <1>2, PTL DEF Spec

(* While a driver backs off, the time it went unchecked and the time left  *)
(* of its delay add up to at most the cap; from then on, the next tick is  *)
(* at most one interval away.                                              *)
CheckInv ==
    /\ wait > 0 => unseen + wait <= Cap
    /\ phase # "repairing" => unseen <= Cap + Period
    /\ phase = "sleeping" /\ wait = 0 => unseen + due <= Cap + Period
    /\ phase = "repairing" => unseen = 0 /\ wait = 0
    /\ failures = 0 => wait = 0

(* A driver that is being repaired or backs off is still looked at again   *)
(* within the cap and one interval.                                        *)
THEOREM CheckedWithinCap == Spec => []CheckedInTime
  <1>1. Init => CheckInv
    BY RetryAssumption DEF Init, CheckInv
  <1>2. TypeOK /\ CheckInv /\ [Next]_vars => CheckInv'
    <2> SUFFICES ASSUME TypeOK, CheckInv, [Next]_vars PROVE CheckInv'
      OBVIOUS
    <2> USE RetryAssumption DEF TypeOK, CheckInv
    <2>1. CASE Elapse
      BY <2>1 DEF Elapse
    <2>2. CASE Tick
      BY <2>2 DEF Tick
    <2>3. CASE Skip
      BY <2>3 DEF Skip, BackingOff
    <2>4. CASE FindPresent \/ FindDegraded \/ Attempt \/ RepairConfirmed
      BY <2>4 DEF FindPresent, FindDegraded, Attempt, RepairConfirmed, Clear, BackingOff
    <2>5. CASE RepairFailed
      <3>1. wait' \in 0..Cap /\ failures' > 0
        BY <2>5, BumpInRange, DelayBounds DEF RepairFailed
      <3> QED BY <2>5, <3>1 DEF RepairFailed
    <2>6. CASE Restart
      BY <2>6 DEF Restart, Clear
    <2>7. CASE UNCHANGED vars
      BY <2>7 DEF vars
    <2> QED BY <2>1, <2>2, <2>3, <2>4, <2>5, <2>6, <2>7 DEF Next
  <1>3. TypeOK /\ CheckInv => CheckedInTime
    BY RetryAssumption DEF TypeOK, CheckInv, CheckedInTime
  <1> QED BY <1>1, <1>2, <1>3, RetryTypeCorrect, PTL DEF Spec

-----------------------------------------------------------------------------
(* The time since the last failure and the time left of the delay cover it. *)
SpacingInv ==
    /\ failures = 0 => wait = 0
    /\ failures > 0 => since + wait >= Delay(failures)

(* Two repairs of a driver that keeps failing are at least backoff_delay   *)
(* apart, whatever ticks a long run missed and however they burst.         *)
THEOREM SpacedByDelay == Spec => [][Attempt /\ failures > 0 => since >= Delay(failures)]_vars
  <1>1. Init => SpacingInv
    BY DEF Init, SpacingInv
  <1>2. TypeOK /\ SpacingInv /\ [Next]_vars => SpacingInv'
    <2> SUFFICES ASSUME TypeOK, SpacingInv, [Next]_vars PROVE SpacingInv'
      OBVIOUS
    <2> USE DEF SpacingInv
    <2>a. failures \in Nat /\ wait \in Nat /\ since \in 0..Cap
      BY RetryAssumption DEF TypeOK
    <2>b. Delay(failures) \in Nat /\ Delay(failures) <= Cap
      BY <2>a, DelayBounds
    <2>1. CASE Elapse
      <3>1. failures' = failures /\ Delay(failures') = Delay(failures)
        BY <2>1 DEF Elapse
      <3> QED BY <2>1, <2>a, <2>b, <3>1, RetryAssumption DEF Elapse, AtMost
    <2>2. CASE Tick \/ Skip \/ FindDegraded \/ Attempt
      BY <2>2 DEF Tick, Skip, FindDegraded, Attempt
    <2>3. CASE FindPresent \/ RepairConfirmed \/ Restart
      BY <2>3 DEF FindPresent, RepairConfirmed, Restart, Clear
    <2>4. CASE RepairFailed
      <3>1. /\ failures' = Bump(failures) /\ wait' = Delay(failures') /\ since' = 0
            /\ failures' > 0 /\ wait' \in Nat
        BY <2>4, BumpInRange, DelayBounds DEF RepairFailed, TypeOK
      <3> QED BY <3>1
    <2>5. CASE UNCHANGED vars
      BY <2>5 DEF vars
    <2> QED BY <2>1, <2>2, <2>3, <2>4, <2>5 DEF Next
  <1>3. TypeOK /\ SpacingInv => (Attempt /\ failures > 0 => since >= Delay(failures))
    BY DEF TypeOK, SpacingInv, Attempt, BackingOff
  <1>4. Spec => [](TypeOK /\ SpacingInv)
    BY <1>1, <1>2, RetryTypeCorrect, PTL DEF Spec
  <1> QED BY <1>3, <1>4, PTL

-----------------------------------------------------------------------------
(* The documented delay is a function, defined by what it is for one       *)
(* failure less.                                                           *)
LEMMA DoubledSteps ==
  /\ MaxFailures > 0 => Doubled[1] = Base
  /\ \A n \in 2..MaxFailures : Doubled[n] = 2 * Doubled[n - 1]
  /\ \A n \in 0..MaxFailures : Doubled[n] \in Nat
  <1> DEFINE m == MaxFailures
             Law(f) == [n \in 0..m |-> IF n <= 1 THEN Base ELSE 2 * f[n - 1]]
             step == [n \in 1..m |-> [b \in Nat |-> IF n = 1 THEN Base ELSE 2 * b]]
  <1>1. m \in Nat /\ m > 0 /\ Base \in Nat
    BY RetryAssumption
  <1>2. /\ \A n \in 1..m, b \in Nat : step[n][b] = IF n = 1 THEN Base ELSE 2 * b
        /\ Steps!StepsIn(step, m, Nat)
    <2>1. \A n \in 1..m, b \in Nat : step[n][b] = IF n = 1 THEN Base ELSE 2 * b
      OBVIOUS
    <2>2. \A n \in 1..m, b \in Nat : step[n][b] \in Nat
      BY <1>1, <2>1
    <2> QED BY <2>1, <2>2 DEF Steps!StepsIn
  <1> HIDE DEF m, step
  <1>3. PICK f \in [0..m -> Nat] : Steps!Stepwise(f, m, Base, step)
    BY <1>1, <1>2, Steps!StepwiseExists
  <1>4. ASSUME NEW n \in 1..m
        PROVE  f[n] = IF n <= 1 THEN Base ELSE 2 * f[n - 1]
    <2>1. n - 1 \in 0..m /\ n \in Nat /\ (n <= 1 <=> n = 1)
      BY <1>1
    <2>2. f[n] = step[n][f[n - 1]]
      BY <1>3 DEF Steps!Stepwise
    <2> QED BY <1>2, <2>1, <2>2
  <1>5. f[0] = Base
    BY <1>3 DEF Steps!Stepwise
  <1>6. f = Law(f)
    <2>1. ASSUME NEW n \in 0..m PROVE f[n] = IF n <= 1 THEN Base ELSE 2 * f[n - 1]
      <3>1. CASE n = 0
        BY <1>5, <3>1
      <3>2. CASE n # 0
        <4>1. n \in 1..m
          BY <1>1, <3>2
        <4> QED BY <1>4, <4>1
      <3> QED BY <3>1, <3>2
    <2> QED BY <2>1
  <1>7. Doubled = CHOOSE g : g = Law(g)
    BY DEF Doubled, m
  <1>8. Doubled = Law(Doubled)
    <2> DEFINE g == CHOOSE g : g = Law(g)
    <2>1. g = Law(g)
      BY <1>6
    <2> QED BY <1>7, <2>1
  <1> HIDE DEF Doubled
  <1>9. \A n \in 0..m : Doubled[n] = IF n <= 1 THEN Base ELSE 2 * Doubled[n - 1]
    BY <1>8
  <1>10. \A n \in 0..m : Doubled[n] \in Nat
    <2> DEFINE T == {n \in 0..m : Doubled[n] \in Nat}
    <2>1. 0 \in T
      BY <1>1, <1>9
    <2>2. ASSUME NEW n \in 1..m, n - 1 \in T PROVE n \in T
      <3>1. n \in 0..m /\ n - 1 \in 0..m
        BY <1>1
      <3>2. Doubled[n - 1] \in Nat
        BY <2>2
      <3>3. Doubled[n] = IF n <= 1 THEN Base ELSE 2 * Doubled[n - 1]
        BY <1>9, <3>1
      <3>4. Doubled[n] \in Nat
        <4>1. 2 * Doubled[n - 1] \in Nat
          BY <3>2
        <4> QED BY <1>1, <3>3, <4>1
      <3> QED BY <3>1, <3>4
    <2> HIDE DEF T
    <2>3. \A n \in 0..m : n \in T
      BY <1>1, <2>1, <2>2, Steps!InductionUpTo
    <2> QED BY <2>3 DEF T
  <1>11. Doubled[1] = Base
    BY <1>1, <1>9
  <1>12. \A n \in 2..m : Doubled[n] = 2 * Doubled[n - 1]
    BY <1>1, <1>9
  <1> QED BY <1>10, <1>11, <1>12 DEF m

(* What backoff_delay computes is the documented delay, if the cap on its  *)
(* exponent (16) is not reached before the cap on the delay.               *)
THEOREM DelayAsDocumented ==
  ASSUME Cap <= 65536 * Base, NEW n \in 1..MaxFailures
  PROVE  Delay(n) = Documented(n)
  <1> DEFINE m == MaxFailures
             T == {k \in 0..m : k = 0 \/ Delay(k) = AtMost(Cap, Doubled[k])}
  <1>1. m \in Nat /\ m > 0 /\ Base \in Nat /\ Cap \in Nat
    BY RetryAssumption
  <1>2. ASSUME NEW k \in 1..m, k - 1 \in T PROVE k \in T
    <2>1. CASE k = 1
      <3>1. Delay(1) = Base /\ Doubled[1] = Base
        BY <1>1, DelayDoubles, DoubledSteps
      <3>2. AtMost(Cap, Base) = Base
        BY RetryAssumption DEF AtMost
      <3> QED BY <2>1, <3>1, <3>2
    <2>2. CASE k # 1
      <3>1. k - 1 \in 1..m /\ k \in 2..m /\ k - 1 \in 0..m /\ k - 1 \in Nat
        BY <1>1, <2>2
      <3> DEFINE x == Doubled[k - 1]
      <3>2. Doubled[k] = 2 * x /\ x \in Nat
        BY <3>1, DoubledSteps
      <3>3. Delay(k - 1) = AtMost(Cap, x)
        BY <1>2, <3>1
      <3> HIDE DEF x
      <3>4. Delay(k) = AtMost(Cap, 2 * Delay(k - 1))
        <4>1. CASE k - 1 <= 16
          <5>1. k - 1 \in 1..16 /\ (k - 1) + 1 = k
            BY <3>1, <4>1
          <5>2. Delay((k - 1) + 1) = AtMost(Cap, 2 * Delay(k - 1))
            BY <5>1, DelayDoubles
          <5> QED BY <5>1, <5>2
        <4>2. CASE k - 1 > 16
          <5>1. Exponent(k) = 16 /\ Exponent(k - 1) = 16
            BY <3>1, <4>2 DEF Exponent, AtMost, SaturatingPred
          <5>2. Delay(k) = Cap /\ Delay(k - 1) = Cap
            <6>1. Base * 65536 = 65536 * Base
              BY <1>1
            <6>2. Delay(k) = AtMost(Cap, Base * 65536) /\ Delay(k - 1) = AtMost(Cap, Base * 65536)
              BY <5>1, ShiftTable DEF Delay
            <6>3. AtMost(Cap, 65536 * Base) = Cap
              BY <1>1 DEF AtMost
            <6> QED BY <6>1, <6>2, <6>3
          <5>3. AtMost(Cap, 2 * Cap) = Cap
            BY <1>1 DEF AtMost
          <5> QED BY <5>2, <5>3
        <4> QED BY <3>1, <4>1, <4>2
      <3>5. AtMost(Cap, 2 * AtMost(Cap, x)) = AtMost(Cap, 2 * x)
        BY <1>1, <3>2 DEF AtMost
      <3> QED BY <3>1, <3>2, <3>3, <3>4, <3>5
    <2> QED BY <2>1, <2>2
  <1>3. 0 \in T
    BY <1>1
  <1> HIDE DEF T
  <1>4. \A k \in 0..m : k \in T
    BY <1>1, <1>2, <1>3, Steps!InductionUpTo
  <1>5. n \in T /\ n # 0
    BY <1>1, <1>4
  <1> QED BY <1>5 DEF T, Documented

(* With the cap of the code, a repair of a driver that keeps failing is    *)
(* never attempted before the documented delay is over.                    *)
THEOREM SpacedAsDocumented ==
  ASSUME Cap <= 65536 * Base
  PROVE  Spec => Spacing
  <1>1. TypeOK /\ (Attempt /\ failures > 0 => since >= Delay(failures))
           => (Attempt /\ failures > 0 => since >= Documented(failures))
    <2> SUFFICES ASSUME TypeOK, failures > 0 PROVE Delay(failures) = Documented(failures)
      OBVIOUS
    <2>1. failures \in 1..MaxFailures
      BY RetryAssumption DEF TypeOK
    <2> QED BY <2>1, DelayAsDocumented
  <1> QED BY <1>1, SpacedByDelay, RetryTypeCorrect, PTL DEF Spacing

-----------------------------------------------------------------------------
(* A repair that took time ends less than an interval before the next      *)
(* tick, or after it: that tick comes before the shortest delay is over.   *)
TickInv ==
    /\ phase = "checking" => due <= Period
    /\ phase = "repairing" => due + spent <= Period
    /\ failures > 0 /\ ~fast /\ skipped = 0 =>
          /\ phase # "repairing"
          /\ wait > 0
          /\ phase = "sleeping" => wait > due

(* When the interval is no longer than the base of the backoff, a repair   *)
(* that failed after any time at all is not tried again at the next tick.  *)
THEOREM TickPassesBy ==
  ASSUME Period <= Base
  PROVE  Spec => NotEveryTick
  <1>1. Init => TickInv
    BY RetryAssumption DEF Init, TickInv
  <1>2. TypeOK /\ TickInv /\ [Next]_vars => TickInv'
    <2> SUFFICES ASSUME TypeOK, TickInv, [Next]_vars PROVE TickInv'
      OBVIOUS
    <2> USE RetryAssumption DEF TypeOK, TickInv
    <2>1. CASE Elapse
      BY <2>1 DEF Elapse
    <2>2. CASE Tick
      BY <2>2 DEF Tick
    <2>3. CASE Skip
      BY <2>3 DEF Skip, AtMost
    <2>4. CASE FindPresent
      BY <2>4 DEF FindPresent, Clear
    <2>5. CASE FindDegraded
      BY <2>5 DEF FindDegraded, BackingOff
    <2>6. CASE Attempt
      BY <2>6 DEF Attempt, BackingOff
    <2>7. CASE RepairConfirmed
      BY <2>7 DEF RepairConfirmed, Clear
    <2>8. CASE RepairFailed
      <3>1. wait' \in Nat /\ wait' >= Base /\ failures' > 0
        BY <2>8, BumpInRange, DelayBounds DEF RepairFailed
      <3>2. phase' = "sleeping" /\ due' = due /\ fast' = (spent = 0)
        BY <2>8 DEF RepairFailed
      <3>3. phase = "repairing" /\ due + spent <= Period
        BY <2>8 DEF RepairFailed
      <3>4. ~fast' => spent # 0
        BY <3>2, Zenon
      <3>5. ~fast' => spent > 0
        BY <3>4
      <3> QED BY <3>1, <3>2, <3>3, <3>5
    <2>9. CASE Restart
      BY <2>9 DEF Restart, Clear
    <2>10. CASE UNCHANGED vars
      BY <2>10 DEF vars
    <2> QED BY <2>1, <2>2, <2>3, <2>4, <2>5, <2>6, <2>7, <2>8, <2>9, <2>10 DEF Next
  <1>3. TypeOK /\ TickInv => (Attempt /\ failures > 0 => skipped > 0 \/ fast)
    BY DEF TypeOK, TickInv, Attempt, BackingOff
  <1>4. Spec => [](TypeOK /\ TickInv)
    BY <1>1, <1>2, RetryTypeCorrect, PTL DEF Spec
  <1> QED BY <1>3, <1>4, PTL DEF NotEveryTick
=============================================================================
