---------------------------- MODULE BillingProofs ----------------------------
(***************************************************************************)
(* Proofs about the rule of need_destroy, for any settings, any interval   *)
(* and rounds of the killer, and any age.                                  *)
(*                                                                         *)
(* NoExtraUnit is not inductive: it says nothing of a server that is       *)
(* asleep in its safe time with nobody due to look at it.  LookedAtInTime  *)
(* adds that: the killer looks again before the unit of the bill ends.     *)
(***************************************************************************)
EXTENDS Billing, TLAPS

\* The remainder of a division by a unit of the bill.
LEMMA Remainder ==
    ASSUME NEW n \in Nat, NEW unit \in Nat \ {0}
    PROVE  /\ n % unit \in 0..(unit - 1)
           /\ n \div unit \in Nat
           /\ n = unit * (n \div unit) + (n % unit)
OBVIOUS

\* The unit in progress ends no later than any later end of a unit.
LEMMA NextEnd ==
    ASSUME NEW age \in Nat, NEW end \in Nat, NEW unit \in Nat \ {0},
           age < end, end % unit = 0
    PROVE  unit - (age % unit) <= end - age
<1> DEFINE q == age \div unit
           p == end \div unit
           r == age % unit
<1>1. q \in Nat /\ r \in 0..(unit - 1) /\ age = unit * q + r
    BY Remainder
<1>2. p \in Nat /\ end = unit * p
    BY Remainder
<1> HIDE DEF q, p, r
<1>3. p > q
    <2> SUFFICES ASSUME p <= q PROVE FALSE
        BY <1>1, <1>2
    <2>1. unit * p <= unit * q
        BY <1>1, <1>2
    <2> QED BY <1>1, <1>2, <2>1
<1>4. unit * p >= unit * (q + 1)
    BY <1>1, <1>2, <1>3
<1>5. unit * (q + 1) = unit * q + unit
    BY <1>1
<1>6. unit - r <= end - age
    BY <1>1, <1>2, <1>4, <1>5
<1> QED BY <1>6 DEF r

\* Facts about the values a configuration can have.
LEMMA ConfigTypes ==
    ASSUME NEW c \in Config
    PROVE  /\ c.min_life_to_live \in Int
           /\ c.bill_time_unit \in Int
           /\ SafeTime(c) \in Int
           /\ c.min_destroy_interval \in Nat \ {0}
<1>1. /\ c.min_life_to_live \in MinLives
      /\ c.bill_time_unit \in Units
      /\ c.destroy_safe_time \in SafeTimes
      /\ c.min_destroy_interval \in Intervals
    BY DEF Config
<1>2. /\ c.min_life_to_live \in Nat \cup {Missing, Garbled}
      /\ c.bill_time_unit \in Nat \cup {Missing, Garbled}
      /\ c.destroy_safe_time \in Nat \cup {Missing, Garbled}
    BY <1>1, SettingsAssumption
<1>3. c.min_destroy_interval \in Nat \ {0}
    BY <1>1, IntervalsAssumption
<1>4. Missing \in Int /\ Garbled \in Int
    BY DEF Missing, Garbled
<1> QED BY <1>2, <1>3, <1>4 DEF SafeTime

\* A configuration that is Sound makes the killer destroy every idle server it
\* finds past its minimum life and within the safe time of a unit of the bill.
LEMMA DestroyedInSafeTime ==
    ASSUME NEW c \in Config, Sound(c), NEW age \in Nat, NEW end \in Nat,
           end % c.bill_time_unit = 0, age < end, end <= age + SafeTime(c),
           c.min_life_to_live <= age
    PROVE  NeedDestroy(c, age, FALSE) = "destroy"
<1>1. c.bill_time_unit \in Nat \ {0} /\ c.min_life_to_live \in Nat
    BY ConfigTypes DEF Sound
<1>2. SafeTime(c) \in Nat
    BY ConfigTypes, RoundAssumption DEF Sound
<1>3. c.bill_time_unit - (age % c.bill_time_unit) <= end - age
    BY <1>1, NextEnd
<1>4. age % c.bill_time_unit \in Nat
    <2>1. age % c.bill_time_unit \in 0..(c.bill_time_unit - 1)
        BY <1>1, Remainder
    <2> QED BY <1>1, <2>1
<1>5. BillTtl(c, age) <= 0
    BY <1>1, <1>2, <1>3, <1>4 DEF BillTtl
<1>6. ~ConfigRaises(c)
    BY <1>1, <1>2 DEF ConfigRaises, Raises
<1>7. BillTtl(c, age) \in Int
    BY <1>1, <1>2, <1>4 DEF BillTtl
<1> QED BY <1>1, <1>5, <1>6, <1>7 DEF NeedDestroy, Raises, Young

\* A configuration that is Sound never makes need_destroy raise.
LEMMA SoundNeverRaises ==
    ASSUME NEW c \in Config, Sound(c), NEW age \in Nat, NEW used \in BOOLEAN
    PROVE  NeedDestroy(c, age, used) # "error"
BY ConfigTypes, RoundAssumption DEF Sound, NeedDestroy, Raises, ConfigRaises

\* The end of a unit of the bill that leaves the killer a round past the
\* minimum life.
Settled(c, end) ==
    /\ end % c.bill_time_unit = 0
    /\ c.min_life_to_live + c.min_destroy_interval + MaxRound < end

\* A server that need_destroy keeps has a whole round of the killer before it:
\* it is young, and the end of the unit is far from its minimum life, or it is
\* not yet in the safe time, which is longer than a round.
LEMMA EndIsFar ==
    ASSUME NEW c \in Config, Sound(c), NEW age \in Nat, NEW end \in Nat,
           age < end, Settled(c, end), NeedDestroy(c, age, FALSE) # "destroy"
    PROVE  age + c.min_destroy_interval + MaxRound < end
<1>1. /\ c.min_life_to_live \in Nat /\ SafeTime(c) \in Int
      /\ c.min_destroy_interval \in Nat /\ MaxRound \in Nat
    BY ConfigTypes, RoundAssumption DEF Sound
<1>2. CASE age < c.min_life_to_live
    BY <1>1, <1>2 DEF Settled
<1>3. CASE c.min_life_to_live <= age
    <2>1. age + SafeTime(c) < end
        <3> SUFFICES ASSUME end <= age + SafeTime(c) PROVE FALSE
            BY <1>1
        <3> QED BY <1>3, DestroyedInSafeTime DEF Settled
    <2> QED BY <1>1, <2>1 DEF Sound
<1> QED BY <1>1, <1>2, <1>3

LookedAtInTime ==
    Sound(conf) /\ Exists =>
        /\ status = "alive"
        /\ ~in_use => \A end \in Nat : Due(end) => live_sec + wake < end

BillInv == TypeOK /\ LookedAtInTime

\* BillInv holds for a server that was just created.
LEMMA InitBillInv == Init => BillInv
<1> SUFFICES ASSUME Init PROVE BillInv
    OBVIOUS
<1>1. TypeOK
    BY AgeAssumption DEF Init, TypeOK
<1>2. LookedAtInTime
    BY <1>1, ConfigTypes, RoundAssumption DEF Init, LookedAtInTime, Sound, Due, TypeOK
<1> QED BY <1>1, <1>2 DEF BillInv

\* Every step keeps the clocks and the status within their types.
LEMMA NextTypeOK == TypeOK /\ [Next]_vars => TypeOK'
<1> SUFFICES ASSUME TypeOK, [Next]_vars PROVE TypeOK'
    OBVIOUS
<1> USE ConfigTypes, RoundAssumption, AgeAssumption DEF TypeOK
<1>1. CASE Tick
    BY <1>1 DEF Tick
<1>2. CASE Patrol
    BY <1>2 DEF Patrol, NextLook
<1>3. CASE LogIn
    BY <1>3 DEF LogIn
<1>4. CASE LogOut
    <2>1. status' \in {"alive", "destroyed", "killer_dead"}
        BY <1>4 DEF LogOut
    <2>2. idle_since' \in 0..live_sec'
        BY <1>4 DEF LogOut
    <2> QED BY <1>4, <2>1, <2>2 DEF LogOut
<1>5. CASE UNCHANGED vars
    BY <1>5 DEF vars
<1> QED BY <1>1, <1>2, <1>3, <1>4, <1>5 DEF Next

\* The server is looked at in time: after a patrol or a logout that keeps it,
\* because a whole sleep and round fit in what is left of the unit.
LEMMA NextLookedAtInTime == BillInv /\ [Next]_vars => LookedAtInTime'
<1> SUFFICES ASSUME BillInv, [Next]_vars, Sound(conf)', Exists'
             PROVE  /\ (status = "alive")'
                    /\ ~in_use' => \A end \in Nat : Due(end)' => (live_sec + wake < end)'
    BY DEF LookedAtInTime
<1>1. TypeOK /\ TypeOK' /\ conf \in Config /\ live_sec \in Nat /\ wake \in Nat
    BY NextTypeOK, ConfigTypes, RoundAssumption, AgeAssumption DEF BillInv, TypeOK
<1>2. Sound(conf) /\ Exists /\ status = "alive" /\ conf' = conf
    BY DEF BillInv, LookedAtInTime, Next, vars, Tick, Patrol, LogIn, LogOut,
           Exists, Sound, SafeTime
<1>3. SafeTime(conf) \in Nat /\ conf.min_life_to_live \in Nat
    BY <1>1, <1>2, ConfigTypes, RoundAssumption DEF Sound
<1>4. CASE Tick
    BY <1>1, <1>2, <1>4 DEF BillInv, LookedAtInTime, Tick, Due, SafeTime
<1>5. CASE Patrol
    <2>1. NeedDestroy(conf, live_sec, in_use) # "error"
        BY <1>1, <1>2, SoundNeverRaises DEF TypeOK
    <2>2. NeedDestroy(conf, live_sec, in_use) # "destroy" /\ status' = "alive"
        BY <1>5, <2>1 DEF Patrol, Exists
    <2>3. ASSUME ~in_use', NEW end \in Nat, Due(end)' PROVE live_sec' + wake' < end
        <3>1. live_sec < end /\ Due(end) /\ in_use = FALSE
            BY <1>1, <1>2, <1>5, <2>3
               DEF BillInv, LookedAtInTime, Patrol, Due, SafeTime, TypeOK
        <3>2. live_sec + conf.min_destroy_interval + MaxRound < end
            <4>1. NeedDestroy(conf, live_sec, FALSE) # "destroy"
                BY <2>2, <3>1
            <4>2. Settled(conf, end)
                BY <3>1 DEF Due, Settled
            <4> QED BY <1>1, <1>2, <3>1, <4>1, <4>2, EndIsFar
        <3> QED BY <1>1, <1>5, <3>2, ConfigTypes, RoundAssumption DEF Patrol, NextLook
    <2> QED BY <2>2, <2>3
<1>6. CASE LogIn
    BY <1>2, <1>6 DEF LogIn
<1>7. CASE LogOut
    <2>1. NeedDestroy(conf, live_sec, FALSE) # "destroy" /\ status' = "alive"
        BY <1>2, <1>7 DEF LogOut, Exists
    <2>2. ASSUME NEW end \in Nat, Due(end)' PROVE live_sec' + wake' < end
        <3>1. live_sec < end /\ Settled(conf, end)
            BY <1>2, <1>7, <2>2 DEF LogOut, Due, Settled
        <3>2. live_sec + conf.min_destroy_interval + MaxRound < end
            BY <1>1, <1>2, <2>1, <3>1, EndIsFar
        <3> QED BY <1>1, <1>7, <3>2, ConfigTypes, RoundAssumption DEF LogOut, TypeOK
    <2> QED BY <2>1, <2>2
<1>8. CASE UNCHANGED vars
    BY <1>2, <1>8 DEF vars, BillInv, LookedAtInTime, Due, SafeTime
<1> QED BY <1>4, <1>5, <1>6, <1>7, <1>8 DEF Next

\* BillInv holds at all times.
LEMMA SpecBillInv == Spec => []BillInv
<1>1. BillInv /\ [Next]_vars => BillInv'
    BY NextTypeOK, NextLookedAtInTime DEF BillInv
<1> QED BY <1>1, InitBillInv, PTL DEF Spec

\* The rule is well typed: ages and sleeps stay within their bounds.
THEOREM BillingTyped == Spec => []TypeOK
<1>1. BillInv => TypeOK
    BY DEF BillInv
<1> QED BY <1>1, SpecBillInv, PTL

\* With any configuration whose safe time is longer than the interval and a
\* round of the killer, a server nobody uses enters no further unit of the bill
\* once the killer had the time of one round past the minimum life.
THEOREM NoExtraUnitHolds == Spec => []NoExtraUnit
<1>1. BillInv => NoExtraUnit
    <2> SUFFICES ASSUME BillInv, Sound(conf), Exists, ~in_use,
                        NEW end \in 1..live_sec, Due(end)
                 PROVE  FALSE
        BY DEF NoExtraUnit
    <2>1. live_sec \in Nat /\ wake \in Nat
        BY ConfigTypes, RoundAssumption, AgeAssumption DEF BillInv, TypeOK
    <2>2. live_sec + wake < end
        BY <2>1 DEF BillInv, LookedAtInTime
    <2> QED BY <2>1, <2>2
<1> QED BY <1>1, SpecBillInv, PTL

-----------------------------------------------------------------------------
(* Paid time is used.                                                      *)

\* A multiple of the unit leaves no remainder.
LEMMA MultipleHasNoRemainder ==
    ASSUME NEW k \in Nat, NEW unit \in Nat \ {0}
    PROVE  (unit * k) % unit = 0
<1> DEFINE n == unit * k
           q == n \div unit
           r == n % unit
<1>1. n \in Nat
    OBVIOUS
<1>2. q \in Nat /\ r \in 0..(unit - 1) /\ n = unit * q + r
    BY <1>1, Remainder
<1>3. n = unit * k
    OBVIOUS
<1> HIDE DEF n, q, r
<1>4. r = unit * (k - q)
    <2>1. unit * (k - q) = unit * k - unit * q
        BY <1>2
    <2> QED BY <1>2, <1>3, <2>1
<1>5. k - q <= 0
    <2> SUFFICES ASSUME k - q >= 1 PROVE FALSE
        BY <1>2
    <2>1. unit * (k - q) >= unit
        BY <1>2
    <2> QED BY <1>2, <1>4, <2>1
<1>6. unit * (k - q) <= 0
    BY <1>2, <1>5
<1>7. r = 0
    BY <1>2, <1>4, <1>6
<1> QED BY <1>7 DEF r, n

\* The end of a unit of the bill within the safe time, when a server is due.
EndIsNear(c, age) ==
    \E end \in 1..(age + c.bill_time_unit) :
        end % c.bill_time_unit = 0 /\ age < end /\ end <= age + SafeTime(c)

\* need_destroy says "destroy" only when the safe time of a unit has begun.
LEMMA DestroyedNearEnd ==
    ASSUME NEW c \in Config, NEW age \in Nat, NEW used \in BOOLEAN,
           c.min_life_to_live > 0, NeedDestroy(c, age, used) = "destroy"
    PROVE  EndIsNear(c, age)
<1>1. BillTtl(c, age) <= 0 /\ ~ConfigRaises(c)
    <2>1. ~(BillTtl(c, age) > 0) /\ ~ConfigRaises(c)
        BY ConfigTypes DEF NeedDestroy
    <2>2. c.bill_time_unit \in Nat \ {0}
        BY <2>1, ConfigTypes DEF ConfigRaises, Raises
    <2>3. age % c.bill_time_unit \in 0..(c.bill_time_unit - 1)
        BY <2>2, Remainder
    <2>4. BillTtl(c, age) \in Int
        BY <2>2, <2>3, ConfigTypes DEF BillTtl
    <2> QED BY <2>1, <2>4
<1>2. c.bill_time_unit \in Nat \ {0}
    BY <1>1, ConfigTypes DEF ConfigRaises, Raises
<1> DEFINE unit == c.bill_time_unit
           q == age \div unit
           r == age % unit
           end == unit * (q + 1)
<1>3. q \in Nat /\ r \in 0..(unit - 1) /\ age = unit * q + r
    BY <1>2, Remainder
<1>4. end % unit = 0
    <2>1. q + 1 \in Nat
        BY <1>3
    <2> HIDE DEF unit, q
    <2> QED BY <1>2, <2>1, MultipleHasNoRemainder DEF unit
<1>5. unit - r - SafeTime(c) <= 0
    BY <1>1 DEF BillTtl
<1>6. unit \in Nat \ {0}
    BY <1>2
<1>7. SafeTime(c) \in Int
    BY ConfigTypes
<1> HIDE DEF unit, q, r, end
<1>8. end = unit * q + unit
    BY <1>3, <1>6 DEF end
<1>9. end = age - r + unit
    BY <1>3, <1>6, <1>8
<1>10. end \in 1..(age + unit) /\ age < end /\ end <= age + SafeTime(c)
    BY <1>3, <1>5, <1>6, <1>7, <1>9
<1> QED BY <1>4, <1>10 DEF EndIsNear, unit

\* A server with a minimum life is destroyed only when at most the safe time is
\* left of the unit of the bill it is in, whoever destroys it and at any age.
THEOREM PaidTimeIsUsedHolds == Spec => []PaidTimeIsUsed
<1>1. Init => PaidTimeIsUsed
    BY DEF Init, PaidTimeIsUsed
<1>2. BillInv /\ PaidTimeIsUsed /\ [Next]_vars => PaidTimeIsUsed'
    <2> SUFFICES ASSUME BillInv, PaidTimeIsUsed, [Next]_vars,
                        status' = "destroyed", (conf.min_life_to_live > 0)'
                 PROVE  EndIsNear(conf, live_sec)'
        BY DEF PaidTimeIsUsed, EndIsNear
    <2>1. conf' = conf
        BY DEF Next, vars, Tick, Patrol, LogIn, LogOut
    <2>2. conf \in Config /\ live_sec \in Nat /\ in_use \in BOOLEAN
        BY AgeAssumption DEF BillInv, TypeOK
    <2>3. live_sec' = live_sec
        BY DEF Next, vars, Tick, Patrol, LogIn, LogOut, Exists
    <2>4. CASE status = "destroyed"
        BY <2>1, <2>3, <2>4 DEF PaidTimeIsUsed, EndIsNear, SafeTime
    <2>5. CASE status # "destroyed"
        <3>1. \E used \in BOOLEAN : NeedDestroy(conf, live_sec, used) = "destroy"
            BY <2>2, <2>5 DEF Next, vars, Tick, Patrol, LogIn, LogOut
        <3> QED BY <2>1, <2>2, <2>3, <3>1, DestroyedNearEnd DEF EndIsNear, SafeTime
    <2> QED BY <2>4, <2>5
<1> QED BY <1>1, <1>2, SpecBillInv, PTL DEF Spec
=============================================================================
