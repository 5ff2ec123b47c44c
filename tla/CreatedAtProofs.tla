--------------------------- MODULE CreatedAtProofs ---------------------------
(***************************************************************************)
(* What the 16-bit stamp guarantees for every unit, modulus, TTL and skew. *)
(* The facts about division and remainders are stated here once.           *)
(***************************************************************************)
EXTENDS CreatedAt, TLAPS

\* Division by the stamp unit.
LEMMA DivMod ==
  \A t \in Nat : /\ t \div Unit \in Nat
                 /\ t % Unit \in 0 .. (Unit - 1)
                 /\ t = (Unit * (t \div Unit)) + (t % Unit)
BY StampAssumption

\* Division is monotone: a later time has no smaller unit count.
LEMMA DivMono ==
  \A a, b \in Nat : a <= b => (a \div Unit) <= (b \div Unit)
BY StampAssumption, DivMod

\* A stamp is below the modulus.
LEMMA ModRange ==
  \A x \in Int : (x % Modulus) \in 0 .. (Modulus - 1)
BY StampAssumption

\* The cut to 16 bits does nothing to small numbers.
LEMMA ModSmall ==
  \A x \in Nat : x < Modulus => (x % Modulus) = x
BY StampAssumption

\* The cut to 16 bits never makes a number larger.
LEMMA ModLe ==
  \A x \in Nat : (x % Modulus) <= x
BY StampAssumption

\* A number is its remainder plus a multiple of the modulus ...
LEMMA ModForm ==
  \A x \in Int : \E k \in Int : x = (Modulus * k) + (x % Modulus)
<1> TAKE x \in Int
<1>1. x = (Modulus * (x \div Modulus)) + (x % Modulus)
  BY StampAssumption
<1>2. (x \div Modulus) \in Int
  BY StampAssumption
<1> QED BY <1>1, <1>2

\* ... and that determines the remainder.
LEMMA ModUnique ==
  ASSUME NEW x \in Int, NEW k \in Int, NEW r \in 0 .. (Modulus - 1),
         x = (Modulus * k) + r
  PROVE  (x % Modulus) = r
BY StampAssumption

\* wrapping_sub of two cut numbers is the cut difference.
LEMMA ModDiff ==
  \A x, y \in Int : wrapping_sub(x % Modulus, y % Modulus) = ((x - y) % Modulus)
<1> TAKE x, y \in Int
<1>1. PICK k \in Int : x = (Modulus * k) + (x % Modulus)
  BY ModForm
<1>2. PICK l \in Int : y = (Modulus * l) + (y % Modulus)
  BY ModForm
<1> DEFINE d == (x % Modulus) - (y % Modulus)
<1>3. d \in Int BY ModRange, StampAssumption
<1>4. PICK m \in Int : d = (Modulus * m) + (d % Modulus)
  BY <1>3, ModForm
<1>5. (x - y) = (Modulus * (k - l + m)) + (d % Modulus)
  <2>1. (Modulus * (k - l + m)) = (Modulus * k) - (Modulus * l) + (Modulus * m)
    BY StampAssumption
  <2>2. /\ (Modulus * k) \in Int /\ (Modulus * l) \in Int /\ (Modulus * m) \in Int
        /\ (x % Modulus) \in Int /\ (y % Modulus) \in Int /\ (d % Modulus) \in Int
    BY <1>3, ModRange, StampAssumption
  <2>3. (x % Modulus) - (y % Modulus) = (Modulus * m) + (d % Modulus)
    BY <1>4
  <2> HIDE DEF d
  <2> QED BY <1>1, <1>2, <2>1, <2>2, <2>3
<1>6. (d % Modulus) \in 0 .. (Modulus - 1)
  BY <1>3, ModRange
<1>7. ((x - y) % Modulus) = (d % Modulus)
  <2>1. k - l + m \in Int /\ x - y \in Int OBVIOUS
  <2> HIDE DEF d
  <2> QED BY <1>5, <1>6, <2>1, ModUnique
<1> QED BY <1>7 DEF wrapping_sub

\* A request's stamp and the present stamp differ by the number of unit
\* boundaries passed, modulo the wrap.
LEMMA AgeForm ==
  ASSUME NEW born \in Nat, NEW now \in Nat
  PROVE  age_secs(created_at_from(born), created_at_from(now)) =
         Unit * (((now \div Unit) - (born \div Unit)) % Modulus)
<1>1. (now \div Unit) \in Int /\ (born \div Unit) \in Int
  BY DivMod
<1>2. wrapping_sub((now \div Unit) % Modulus, (born \div Unit) % Modulus)
        = (((now \div Unit) - (born \div Unit)) % Modulus)
  BY <1>1, ModDiff
<1>3. (((now \div Unit) - (born \div Unit)) % Modulus) \in Int
  BY <1>1, ModRange, StampAssumption
<1> QED BY <1>2, <1>3, StampAssumption DEF age_secs, created_at_from

\* What process_purge_expired_requests takes for expired is older than the
\* TTL, wherever in its unit the request was stamped and however often the
\* stamp has wrapped.
THEOREM PurgeNeverEarlyThm ==
  ASSUME NEW born \in Nat, NEW now \in Nat, born <= now,
         Expired(created_at_from(born), now)
  PROVE  now - born > TTL
<1> DEFINE d == (now \div Unit) - (born \div Unit)
<1>1. d \in Nat
  BY DivMod, DivMono
<1>2. (d % Modulus) <= d /\ (d % Modulus) \in Nat
  BY <1>1, ModLe, ModRange, StampAssumption
<1>3. Unit * (d % Modulus) > TTL
  BY AgeForm DEF Expired
<1>4. PICK u \in Nat : TTL = Unit * u
  <2>1. TTL = (Unit * (TTL \div Unit)) + (TTL % Unit) /\ (TTL \div Unit) \in Nat
    BY StampAssumption
  <2>2. TTL = Unit * (TTL \div Unit)
    BY <2>1, StampAssumption
  <2> QED BY <2>1, <2>2
<1>5. (d % Modulus) >= u + 1
  BY <1>2, <1>3, <1>4, StampAssumption
<1>6. d >= u + 1
  BY <1>1, <1>2, <1>4, <1>5
<1>7. (Unit * d) >= (Unit * u) + Unit
  <2> HIDE DEF d
  <2> QED BY <1>1, <1>4, <1>6, StampAssumption
<1>8. now - born > (Unit * d) - Unit
  <2>1. /\ now = (Unit * (now \div Unit)) + (now % Unit)
        /\ born = (Unit * (born \div Unit)) + (born % Unit)
        /\ now % Unit \in 0 .. (Unit - 1) /\ born % Unit \in 0 .. (Unit - 1)
        /\ (now \div Unit) \in Nat /\ (born \div Unit) \in Nat
    BY DivMod
  <2>2. (Unit * d) = (Unit * (now \div Unit)) - (Unit * (born \div Unit))
    BY <2>1, StampAssumption
  <2>3. (Unit * (now \div Unit)) \in Int /\ (Unit * (born \div Unit)) \in Int
    BY <2>1, StampAssumption
  <2> HIDE DEF d
  <2> QED BY <2>1, <2>2, <2>3, StampAssumption
<1>9. (Unit * d) \in Int /\ (Unit * u) \in Int
  <2> HIDE DEF d
  <2> QED BY <1>1, <1>4, StampAssumption
<1> HIDE DEF d
<1> QED BY <1>4, <1>7, <1>8, <1>9, StampAssumption

\* A host clock that trails the cluster by no more than CLOCK_SKEW_UNITS reads a
\* new request as age 0: the oracle's age_secs does not wrap.
LEMMA SkewReadsZero ==
  ASSUME NEW b \in Nat, NEW h \in Nat, h < b, b - h <= SkewUnits * Unit
  PROVE  oracle_age_secs(created_at_from(b), h) = 0
<1> DEFINE d == (b \div Unit) - (h \div Unit)
<1>1. /\ b = (Unit * (b \div Unit)) + (b % Unit)
      /\ h = (Unit * (h \div Unit)) + (h % Unit)
      /\ b % Unit \in 0 .. (Unit - 1) /\ h % Unit \in 0 .. (Unit - 1)
      /\ (b \div Unit) \in Nat /\ (h \div Unit) \in Nat
  BY DivMod
<1>2. d \in Nat BY <1>1, DivMono
<1>3. d <= SkewUnits
  <2>1. h + SkewUnits * Unit \in Nat /\ b <= h + SkewUnits * Unit
    BY StampAssumption
  <2>2. ((h + SkewUnits * Unit) \div Unit) = (h \div Unit) + SkewUnits
    BY <1>1, StampAssumption
  <2> QED BY <1>1, <2>1, <2>2, DivMono, StampAssumption
<1>4. SkewUnits < Modulus
  <2>1. (SkewUnits + 2) * Unit < Unit * Modulus BY StampAssumption
  <2> QED BY <2>1, StampAssumption
<1>5. wrapping_sub(created_at_from(b), created_at_from(h)) = (d % Modulus)
  BY <1>1, ModDiff DEF created_at_from
<1>6. (d % Modulus) = d BY <1>2, <1>3, <1>4, ModSmall, StampAssumption
<1> QED BY <1>3, <1>5, <1>6 DEF oracle_age_secs

\* While a stamp has not come round again, a request that the oracle's age_secs takes
\* for expired stays expired.
LEMMA ExpiredStays ==
  ASSUME NEW b \in Nat, NEW h \in Nat, NEW g \in Nat, h <= g,
         b - h <= SkewUnits * Unit, g - b + (SkewUnits + 1) * Unit <= Cycle,
         OracleExpired(created_at_from(b), h)
  PROVE  OracleExpired(created_at_from(b), g)
<1> DEFINE d == (h \div Unit) - (b \div Unit)
           e == (g \div Unit) - (b \div Unit)
<1>1. b <= h
  <2> SUFFICES ASSUME h < b PROVE FALSE OBVIOUS
  <2>1. oracle_age_secs(created_at_from(b), h) = 0 BY SkewReadsZero
  <2> QED BY <2>1, StampAssumption DEF OracleExpired
<1>2. d \in Nat /\ e \in Nat /\ d <= e
  BY <1>1, DivMod, DivMono
<1>3. Unit * (d % Modulus) > TTL
  <2>1. Expired(created_at_from(b), h)
    BY StampAssumption DEF OracleExpired, oracle_age_secs, Expired
  <2> QED BY <2>1, AgeForm DEF Expired
<1>4. e + SkewUnits < Modulus
  <2>1. /\ g = (Unit * (g \div Unit)) + (g % Unit)
        /\ b = (Unit * (b \div Unit)) + (b % Unit)
        /\ g % Unit \in 0 .. (Unit - 1) /\ b % Unit \in 0 .. (Unit - 1)
        /\ (g \div Unit) \in Nat /\ (b \div Unit) \in Nat
    BY DivMod
  <2>2. (Unit * e) = (Unit * (g \div Unit)) - (Unit * (b \div Unit))
    BY <2>1, StampAssumption
  <2>3. (Unit * (g \div Unit)) \in Int /\ (Unit * (b \div Unit)) \in Int
    BY <2>1, StampAssumption
  <2> HIDE DEF d, e
  <2>4. (Unit * e) - Unit < g - b
    BY <2>1, <2>2, <2>3, StampAssumption
  <2>5. (SkewUnits + 1) * Unit = (Unit * SkewUnits) + Unit BY StampAssumption
  <2>6. Unit * (e + SkewUnits) = (Unit * e) + (Unit * SkewUnits) BY <1>2, StampAssumption
  <2>7. Unit * (e + SkewUnits) < Unit * Modulus
    <3>1. Unit * e \in Int /\ Unit * SkewUnits \in Int /\ Unit * Modulus \in Int
      BY <1>2, StampAssumption
    <3> QED BY <2>4, <2>5, <2>6, <3>1, StampAssumption DEF Cycle
  <2> QED BY <1>2, <2>7, StampAssumption
<1> HIDE DEF d, e
<1>5. d % Modulus = d /\ e % Modulus = e
  BY <1>2, <1>4, ModSmall, StampAssumption
<1>6. Unit * e > TTL /\ e > 0
  BY <1>2, <1>3, <1>5, StampAssumption
<1>7. (-e) % Modulus = Modulus - e
  <2>1. -e = (Modulus * (-1)) + (Modulus - e) BY <1>2, StampAssumption
  <2>2. Modulus - e \in 0 .. (Modulus - 1) /\ -e \in Int
    BY <1>2, <1>4, <1>6, StampAssumption
  <2> QED BY <2>1, <2>2, ModUnique
<1>8. wrapping_sub(created_at_from(b), created_at_from(g)) = Modulus - e
  <2>1. (b \div Unit) \in Int /\ (g \div Unit) \in Int BY DivMod
  <2>2. (b \div Unit) - (g \div Unit) = -e BY <2>1 DEF e
  <2> QED BY <1>7, <2>1, <2>2, ModDiff DEF created_at_from
<1>9. age_secs(created_at_from(b), created_at_from(g)) = Unit * e
  BY <1>5, AgeForm DEF e
<1> QED BY <1>2, <1>4, <1>6, <1>8, <1>9, StampAssumption DEF OracleExpired, oracle_age_secs

\* Division with remainder by any positive number has one result.
LEMMA RemainderUnique ==
  ASSUME NEW c \in Nat \ {0}, NEW x \in Int, NEW k \in Int, NEW r \in 0 .. (c - 1),
         x = (c * k) + r
  PROVE  (x % c) = r
OBVIOUS

\* A request past the TTL that process_purge_expired_requests still takes for fresh was
\* made some whole number of wraps ago, give or take the TTL and a unit.
THEOREM FreshOnlyAfterWrapThm ==
  ASSUME NEW born \in Nat, NEW now \in Nat, now - born >= TTL + Unit,
         ~Expired(created_at_from(born), now)
  PROVE  \/ ((now - born) % Cycle) < TTL + Unit
         \/ ((now - born) % Cycle) > Cycle - Unit
<1> DEFINE d == (now \div Unit) - (born \div Unit)
           m == d % Modulus
           e == (now % Unit) - (born % Unit)
<1>1. /\ now = (Unit * (now \div Unit)) + (now % Unit)
      /\ born = (Unit * (born \div Unit)) + (born % Unit)
      /\ now % Unit \in 0 .. (Unit - 1) /\ born % Unit \in 0 .. (Unit - 1)
      /\ (now \div Unit) \in Nat /\ (born \div Unit) \in Nat
  BY DivMod
<1>2. /\ d \in Int /\ e \in Int /\ e > -Unit /\ e < Unit /\ m \in 0 .. (Modulus - 1)
      /\ Unit \in Nat \ {0} /\ Modulus \in Nat \ {0} /\ TTL \in Nat
  BY <1>1, ModRange, StampAssumption
<1>3. now - born = (Unit * d) + e
  <2>1. (Unit * d) = (Unit * (now \div Unit)) - (Unit * (born \div Unit))
    BY <1>1, StampAssumption
  <2>2. (Unit * (now \div Unit)) \in Int /\ (Unit * (born \div Unit)) \in Int
    BY <1>1, StampAssumption
  <2> HIDE DEF d
  <2> QED BY <1>1, <2>1, <2>2, StampAssumption
<1>4. Unit * m <= TTL
  <2>1. ~(Unit * m > TTL) BY AgeForm DEF Expired
  <2>2. Unit * m \in Int
    <3> HIDE DEF m
    <3> QED BY <1>2
  <2> QED BY <1>2, <2>1, <2>2
<1>5. PICK k \in Int : d = (Modulus * k) + m
  BY <1>2, ModForm
<1> HIDE DEF d, e, m
<1>6. now - born = (Cycle * k) + ((Unit * m) + e)
  BY <1>2, <1>3, <1>5 DEF Cycle
<1>7. /\ Cycle \in Nat \ {0} /\ TTL + Unit < Cycle /\ Unit * m \in Nat
      /\ now - born \in Int /\ (Unit * m) + e \in Int
  <2>1. Cycle \in Nat \ {0} BY <1>2 DEF Cycle
  <2>2. (SkewUnits + 2) * Unit >= Unit /\ (SkewUnits + 2) * Unit \in Int
    BY StampAssumption
  <2>3. TTL + (SkewUnits + 2) * Unit < Cycle BY StampAssumption DEF Cycle
  <2> QED BY <1>2, <2>1, <2>2, <2>3
<1>8. CASE (Unit * m) + e >= 0
  <2>1. (Unit * m) + e \in 0 .. (Cycle - 1) /\ (Unit * m) + e < TTL + Unit
    BY <1>2, <1>4, <1>7, <1>8
  <2>2. ((now - born) % Cycle) = (Unit * m) + e
    BY <1>6, <1>7, <2>1, RemainderUnique
  <2> QED BY <2>1, <2>2
<1>9. CASE (Unit * m) + e < 0
  <2> DEFINE r == Cycle + ((Unit * m) + e)
  <2>1. r \in 0 .. (Cycle - 1) /\ r > Cycle - Unit
    BY <1>2, <1>7, <1>9
  <2>2. now - born = (Cycle * (k - 1)) + r /\ k - 1 \in Int
    BY <1>6, <1>7
  <2> HIDE DEF r
  <2>3. ((now - born) % Cycle) = r
    BY <1>7, <2>1, <2>2, RemainderUnique
  <2> QED BY <2>1, <2>3
<1> QED BY <1>7, <1>8, <1>9

=============================================================================
