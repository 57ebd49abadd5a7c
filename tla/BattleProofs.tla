----------------------------- MODULE BattleProofs -----------------------------
(***************************************************************************)
(* Battles of any number of armies, and tables of any size.  What the      *)
(* table's three reused rows sum up is what rolling the dice to the end    *)
(* gives on average, and resolving a battle with it leaves an army on both *)
(* sides.  Both come from one fact: however armies are valued, as long as  *)
(* a roll of the dice does not change what a battle is worth on average,   *)
(* the chances in the rows and the armies counted so far keep that worth.  *)
(***************************************************************************)
EXTENDS BattleTable, FiniteLemmas, SequenceTheorems

\* With two dice on each side two armies fall, else one; the odds are whole.
Outcome(loses_a, loses_d, chance, of) ==
    [a |-> loses_a, d |-> loses_d, chance |-> chance, of |-> of]
TwoFall(a, d, of, r, s, t) ==
    /\ of \in Nat \ {0} /\ r \in Nat /\ s \in Nat /\ t \in Nat /\ r + s + t = of
    /\ get_probs(a, d) = {Outcome(0, 2, r, of), Outcome(1, 1, s, of), Outcome(2, 0, t, of)}
OneFalls(a, d, of, r, s) ==
    /\ of \in Nat \ {0} /\ r \in Nat /\ s \in Nat /\ r + s = of
    /\ get_probs(a, d) = {Outcome(0, 1, r, of), Outcome(1, 0, s, of)}
LEMMA OddsOfTwo ==
    ASSUME NEW a \in Nat, NEW d \in Nat, a >= 2, d >= 2
    PROVE  \E of, r, s, t : TwoFall(a, d, of, r, s, t)
<1>1. Min({a, 3}) = (IF a < 3 THEN a ELSE 3) /\ Min({d, 2}) = 2
  BY MinOfTwo
<1>2. CASE a = 2
  <2>1. <<Min({a, 3}), Min({d, 2})>> = <<2, 2>>
    BY <1>1, <1>2
  <2>2. get_probs(a, d) = {Outcome(0, 2, 295, 1296), Outcome(1, 1, 420, 1296), Outcome(2, 0, 581, 1296)}
    BY <2>1 DEF get_probs, Outcome
  <2>3. TwoFall(a, d, 1296, 295, 420, 581)
    BY <2>2 DEF TwoFall
  <2> QED  BY <2>3
<1>3. CASE a >= 3
  <2>1. <<Min({a, 3}), Min({d, 2})>> = <<3, 2>>
    BY <1>1, <1>3
  <2>2. get_probs(a, d) = {Outcome(0, 2, 2890, 7776), Outcome(1, 1, 2611, 7776), Outcome(2, 0, 2275, 7776)}
    BY <2>1 DEF get_probs, Outcome
  <2>3. TwoFall(a, d, 7776, 2890, 2611, 2275)
    BY <2>2 DEF TwoFall
  <2> QED  BY <2>3
<1> QED  BY <1>2, <1>3

LEMMA OddsOfOne ==
    ASSUME NEW a \in Nat \ {0}, NEW d \in Nat \ {0}, a = 1 \/ d = 1
    PROVE  \E of, r, s : OneFalls(a, d, of, r, s)
<1>1. Min({a, 3}) = (IF a < 3 THEN a ELSE 3) /\ Min({d, 2}) = (IF d < 2 THEN d ELSE 2)
  BY MinOfTwo
<1>2. CASE a = 1 /\ d >= 2
  <2>1. <<Min({a, 3}), Min({d, 2})>> = <<1, 2>>
    BY <1>1, <1>2
  <2>2. get_probs(a, d) = {Outcome(0, 1, 55, 216), Outcome(1, 0, 161, 216)}
    BY <2>1 DEF get_probs, Outcome
  <2>3. OneFalls(a, d, 216, 55, 161)
    BY <2>2 DEF OneFalls
  <2> QED  BY <2>3
<1>3. CASE a = 1 /\ d = 1
  <2>1. <<Min({a, 3}), Min({d, 2})>> = <<1, 1>>
    BY <1>1, <1>3
  <2>2. get_probs(a, d) = {Outcome(0, 1, 15, 36), Outcome(1, 0, 21, 36)}
    BY <2>1 DEF get_probs, Outcome
  <2>3. OneFalls(a, d, 36, 15, 21)
    BY <2>2 DEF OneFalls
  <2> QED  BY <2>3
<1>4. CASE a = 2 /\ d = 1
  <2>1. <<Min({a, 3}), Min({d, 2})>> = <<2, 1>>
    BY <1>1, <1>4
  <2>2. get_probs(a, d) = {Outcome(0, 1, 125, 216), Outcome(1, 0, 91, 216)}
    BY <2>1 DEF get_probs, Outcome
  <2>3. OneFalls(a, d, 216, 125, 91)
    BY <2>2 DEF OneFalls
  <2> QED  BY <2>3
<1>5. CASE a >= 3 /\ d = 1
  <2>1. <<Min({a, 3}), Min({d, 2})>> = <<3, 1>>
    BY <1>1, <1>5
  <2>2. get_probs(a, d) = {Outcome(0, 1, 855, 1296), Outcome(1, 0, 441, 1296)}
    BY <2>1 DEF get_probs, Outcome
  <2>3. OneFalls(a, d, 1296, 855, 441)
    BY <2>2 DEF OneFalls
  <2> QED  BY <2>3
<1> QED  BY <1>2, <1>3, <1>4, <1>5

\* Multiples.
Multiple(x, g) == \E m \in Nat : x = m * g
LEMMA WholeIsMultiple ==
    ASSUME NEW x \in Nat, NEW g \in Nat \ {0}
    PROVE  /\ x % g = 0 => Multiple(x, g)
           /\ Multiple(x, g) => x % g = 0
<1>1. ASSUME x % g = 0 PROVE Multiple(x, g)
  <2> DEFINE q == x \div g
  <2>1. x = g * q + (x % g) /\ q \in Nat
    OBVIOUS
  <2> HIDE DEF q
  <2>2. x = q * g
    BY <1>1, <2>1
  <2> QED  BY <2>1, <2>2 DEF Multiple
<1>2. ASSUME Multiple(x, g) PROVE x % g = 0
  <2>1. PICK m \in Nat : x = m * g
    BY <1>2 DEF Multiple
  <2>2. (m * g) % g = 0
    OBVIOUS
  <2> QED  BY <2>1, <2>2
<1> QED  BY <1>1, <1>2

\* What an outcome gets of a chance is whole.
LEMMA ShareIsWhole ==
    ASSUME NEW x \in Nat, NEW of \in Nat \ {0}, NEW c \in Nat, NEW g \in Nat \ {0},
           Multiple(x, of * g)
    PROVE  /\ x \div of \in Nat /\ x = of * (x \div of)
           /\ (x \div of) * c \in Nat /\ Multiple((x \div of) * c, g)
<1>1. PICK m \in Nat : x = m * (of * g)
  BY DEF Multiple
<1> DEFINE y == m * g
<1>2. y \in Nat /\ x = of * y
  BY <1>1
<1> HIDE DEF y
<1>3. (of * y) \div of = y
  BY <1>2
<1>4. x \div of = y
  BY <1>2, <1>3
<1>5. y * c = (m * c) * g /\ m * c \in Nat
  BY DEF y
<1>6. Multiple(y * c, g)
  BY <1>5 DEF Multiple
<1>7. y * c \in Nat
  BY <1>2
<1> QED  BY <1>2, <1>4, <1>6, <1>7

(***************************************************************************)
(* One cell of the table.                                                  *)
(***************************************************************************)
Tables(D) == [0..2 -> [0..D -> Nat]]

\* What a cell hands on arrives at the outcomes' cells and nowhere else.
Arrives(new, dp, P, a, d, slot, column) ==
    /\ (\A p \in P : ~((a - p.a) % 3 = slot /\ d - p.d = column))
           => new[slot][column] = dp[slot][column]
    /\ \A p \in P :
          /\ (a - p.a) % 3 = slot /\ d - p.d = column
          /\ (dp[a % 3][d] \div p.of) * p.chance \in Int
          /\ \A q \in P : (a - q.a) % 3 = slot /\ d - q.d = column => q = p
          => new[slot][column] = dp[slot][column] + (dp[a % 3][d] \div p.of) * p.chance
LEMMA SpreadAt ==
    ASSUME NEW a \in Nat, NEW D \in Nat, NEW d \in 1..D, NEW dp \in Tables(D),
           NEW slot \in 0..2, NEW column \in 0..D
    PROVE  Arrives(Spread(dp, a, d), dp, get_probs(a, d), a, d, slot, column)
<1> DEFINE P == get_probs(a, d)
           share == [p \in P |-> (dp[a % 3][d] \div p.of) * p.chance]
           to == {p \in P : (a - p.a) % 3 = slot /\ d - p.d = column}
<1>1. Spread(dp, a, d)[slot][column] = dp[slot][column] + SumOver(share, to)
  <2>1. DOMAIN dp[slot] = 0..D
    BY DEF Tables
  <2> QED  BY <2>1 DEF Spread, SumOver
<1>2. dp[slot][column] \in Nat
  BY DEF Tables
<1>3. \A p \in P : share[p] = (dp[a % 3][d] \div p.of) * p.chance
  OBVIOUS
<1>4. \A p : p \in to <=> p \in P /\ (a - p.a) % 3 = slot /\ d - p.d = column
  OBVIOUS
<1> HIDE DEF share, to
<1>5. ASSUME \A p \in P : ~((a - p.a) % 3 = slot /\ d - p.d = column)
      PROVE  Spread(dp, a, d)[slot][column] = dp[slot][column]
  <2>1. to = {}
    BY <1>4, <1>5
  <2> QED  BY <1>1, <1>2, <2>1, SumOfNone
<1>6. ASSUME NEW p \in P, (a - p.a) % 3 = slot /\ d - p.d = column,
             (dp[a % 3][d] \div p.of) * p.chance \in Int,
             \A q \in P : (a - q.a) % 3 = slot /\ d - q.d = column => q = p
      PROVE  Spread(dp, a, d)[slot][column] = dp[slot][column] + (dp[a % 3][d] \div p.of) * p.chance
  <2>1. to = {p}
    BY <1>4, <1>6
  <2>2. SumOver(share, {p}) = share[p]
    <3>1. IsFiniteSet({p}) /\ p \in {p} /\ share[p] \in Int /\ \A x \in {p} \ {p} : share[x] = 0
      BY <1>3, <1>6, FS_Singleton
    <3> QED  BY <3>1, SumOfOne
  <2> QED  BY <1>1, <1>3, <2>1, <2>2
<1> QED  BY <1>5, <1>6 DEF Arrives

\* With two dice each.
ToThree(new, D, dp, a, d, y, r, s, t) ==
    \A slot \in 0..2, column \in 0..D :
        new[slot][column] = dp[slot][column] +
            (IF slot = a % 3 /\ column = d - 2 THEN y * r
             ELSE IF slot = (a - 1) % 3 /\ column = d - 1 THEN y * s
             ELSE IF slot = (a - 2) % 3 /\ column = d THEN y * t ELSE 0)
LEMMA SpreadOfTwo ==
    ASSUME NEW a \in Nat, a >= 2, NEW D \in Nat, NEW d \in 2..D, NEW dp \in Tables(D),
           NEW of, NEW r, NEW s, NEW t, TwoFall(a, d, of, r, s, t),
           NEW y \in Nat, y = dp[a % 3][d] \div of
    PROVE  /\ Spread(dp, a, d) \in Tables(D)
           /\ ToThree(Spread(dp, a, d), D, dp, a, d, y, r, s, t)
<1> DEFINE P == get_probs(a, d)
           p1 == Outcome(0, 2, r, of)
           p2 == Outcome(1, 1, s, of)
           p3 == Outcome(2, 0, t, of)
           new == Spread(dp, a, d)
<1>0. P = get_probs(a, d)
  OBVIOUS
<1>1. /\ p1.a = 0 /\ p1.d = 2 /\ p1.chance = r /\ p1.of = of
      /\ p2.a = 1 /\ p2.d = 1 /\ p2.chance = s /\ p2.of = of
      /\ p3.a = 2 /\ p3.d = 0 /\ p3.chance = t /\ p3.of = of
  BY DEF Outcome
<1>01. of \in Nat \ {0} /\ r \in Nat /\ s \in Nat /\ t \in Nat
  BY DEF TwoFall
<1>2. p1 \in P /\ p2 \in P /\ p3 \in P /\ \A p \in P : p = p1 \/ p = p2 \/ p = p3
  BY DEF TwoFall
<1>3. y * r \in Nat /\ y * s \in Nat /\ y * t \in Nat
  BY <1>01
<1>4. a % 3 # (a - 1) % 3 /\ a % 3 # (a - 2) % 3 /\ (a - 1) % 3 # (a - 2) % 3 /\ (a - 0) % 3 = a % 3
  OBVIOUS
<1> HIDE DEF P, p1, p2, p3
<1>5. ASSUME NEW slot \in 0..2, NEW column \in 0..D
      PROVE  /\ new[slot][column] = dp[slot][column] +
                     (IF slot = a % 3 /\ column = d - 2 THEN y * r
                      ELSE IF slot = (a - 1) % 3 /\ column = d - 1 THEN y * s
                      ELSE IF slot = (a - 2) % 3 /\ column = d THEN y * t ELSE 0)
             /\ new[slot][column] \in Nat
  <2>0. d \in 1..D /\ dp[slot][column] \in Nat
    <3>1. dp[slot] \in [0..D -> Nat]
      BY DEF Tables
    <3> QED  BY <3>1
  <2>01. Arrives(Spread(dp, a, d), dp, get_probs(a, d), a, d, slot, column)
    BY <2>0, SpreadAt
  <2>02. new = Spread(dp, a, d)
    OBVIOUS
  <2> HIDE DEF new
  <2>1. Arrives(new, dp, P, a, d, slot, column)
    BY <1>0, <2>01, <2>02
  <2>2. CASE slot = a % 3 /\ column = d - 2
    <3>1. \A q \in P : (a - q.a) % 3 = slot /\ d - q.d = column => q = p1
      BY <1>1, <1>2, <1>4, <2>2
    <3>2. (a - p1.a) % 3 = slot /\ d - p1.d = column
      BY <1>1, <1>4, <2>2
    <3>3. (dp[a % 3][d] \div p1.of) * p1.chance = y * r
      BY <1>1
    <3>4. new[slot][column] = dp[slot][column] + y * r
      BY <1>2, <1>3, <2>1, <3>1, <3>2, <3>3 DEF Arrives
    <3> QED  BY <1>3, <2>0, <2>2, <3>4
  <2>3. CASE slot = (a - 1) % 3 /\ column = d - 1
    <3>1. \A q \in P : (a - q.a) % 3 = slot /\ d - q.d = column => q = p2
      BY <1>1, <1>2, <1>4, <2>3
    <3>2. (a - p2.a) % 3 = slot /\ d - p2.d = column
      BY <1>1, <1>4, <2>3
    <3>3. (dp[a % 3][d] \div p2.of) * p2.chance = y * s
      BY <1>1
    <3>4. new[slot][column] = dp[slot][column] + y * s
      BY <1>2, <1>3, <2>1, <3>1, <3>2, <3>3 DEF Arrives
    <3> QED  BY <1>3, <1>4, <2>0, <2>3, <3>4
  <2>4. CASE slot = (a - 2) % 3 /\ column = d
    <3>1. \A q \in P : (a - q.a) % 3 = slot /\ d - q.d = column => q = p3
      BY <1>1, <1>2, <1>4, <2>4
    <3>2. (a - p3.a) % 3 = slot /\ d - p3.d = column
      BY <1>1, <1>4, <2>4
    <3>3. (dp[a % 3][d] \div p3.of) * p3.chance = y * t
      BY <1>1
    <3>4. new[slot][column] = dp[slot][column] + y * t
      BY <1>2, <1>3, <2>1, <3>1, <3>2, <3>3 DEF Arrives
    <3> QED  BY <1>3, <1>4, <2>0, <2>4, <3>4
  <2>5. CASE ~(slot = a % 3 /\ column = d - 2) /\ ~(slot = (a - 1) % 3 /\ column = d - 1)
             /\ ~(slot = (a - 2) % 3 /\ column = d)
    <3>1. \A p \in P : ~((a - p.a) % 3 = slot /\ d - p.d = column)
      BY <1>1, <1>2, <1>4, <2>5
    <3>2. new[slot][column] = dp[slot][column]
      BY <2>1, <3>1 DEF Arrives
    <3> QED  BY <2>0, <2>5, <3>2
  <2> QED  BY <2>2, <2>3, <2>4, <2>5
<1>6. new \in Tables(D)
  <2>1. new = [slot \in 0..2 |-> [column \in 0..D |-> new[slot][column]]]
    <3>1. \A slot \in 0..2 : DOMAIN dp[slot] = 0..D
      BY DEF Tables
    <3> QED  BY <3>1 DEF Spread
  <2> HIDE DEF new
  <2> QED  BY <1>5, <2>1 DEF Tables
<1>7. new = Spread(dp, a, d)
  OBVIOUS
<1> HIDE DEF new
<1>8. ToThree(new, D, dp, a, d, y, r, s, t)
  BY <1>5 DEF ToThree
<1> QED  BY <1>6, <1>7, <1>8

\* With one die on a side.
ToTwo(new, D, dp, a, d, y, r, s) ==
    \A slot \in 0..2, column \in 0..D :
        new[slot][column] = dp[slot][column] +
            (IF slot = a % 3 /\ column = d - 1 THEN y * r
             ELSE IF slot = (a - 1) % 3 /\ column = d THEN y * s ELSE 0)
LEMMA SpreadOfOne ==
    ASSUME NEW a \in Nat \ {0}, NEW D \in Nat, NEW d \in 1..D, NEW dp \in Tables(D),
           NEW of, NEW r, NEW s, OneFalls(a, d, of, r, s),
           NEW y \in Nat, y = dp[a % 3][d] \div of
    PROVE  /\ Spread(dp, a, d) \in Tables(D)
           /\ ToTwo(Spread(dp, a, d), D, dp, a, d, y, r, s)
<1> DEFINE P == get_probs(a, d)
           p1 == Outcome(0, 1, r, of)
           p2 == Outcome(1, 0, s, of)
           new == Spread(dp, a, d)
<1>0. P = get_probs(a, d)
  OBVIOUS
<1>1. /\ p1.a = 0 /\ p1.d = 1 /\ p1.chance = r /\ p1.of = of
      /\ p2.a = 1 /\ p2.d = 0 /\ p2.chance = s /\ p2.of = of
  BY DEF Outcome
<1>01. of \in Nat \ {0} /\ r \in Nat /\ s \in Nat
  BY DEF OneFalls
<1>2. p1 \in P /\ p2 \in P /\ \A p \in P : p = p1 \/ p = p2
  BY DEF OneFalls
<1>3. y * r \in Nat /\ y * s \in Nat
  BY <1>01
<1>4. a % 3 # (a - 1) % 3 /\ (a - 0) % 3 = a % 3
  OBVIOUS
<1> HIDE DEF P, p1, p2
<1>5. ASSUME NEW slot \in 0..2, NEW column \in 0..D
      PROVE  /\ new[slot][column] = dp[slot][column] +
                     (IF slot = a % 3 /\ column = d - 1 THEN y * r
                      ELSE IF slot = (a - 1) % 3 /\ column = d THEN y * s ELSE 0)
             /\ new[slot][column] \in Nat
  <2>0. dp[slot][column] \in Nat
    <3>1. dp[slot] \in [0..D -> Nat]
      BY DEF Tables
    <3> QED  BY <3>1
  <2>01. Arrives(Spread(dp, a, d), dp, get_probs(a, d), a, d, slot, column)
    <3>1. a \in Nat
      OBVIOUS
    <3> QED  BY <3>1, SpreadAt
  <2>02. new = Spread(dp, a, d)
    OBVIOUS
  <2> HIDE DEF new
  <2>1. Arrives(new, dp, P, a, d, slot, column)
    BY <1>0, <2>01, <2>02
  <2>2. CASE slot = a % 3 /\ column = d - 1
    <3>1. \A q \in P : (a - q.a) % 3 = slot /\ d - q.d = column => q = p1
      BY <1>1, <1>2, <1>4, <2>2
    <3>2. (a - p1.a) % 3 = slot /\ d - p1.d = column
      BY <1>1, <1>4, <2>2
    <3>3. (dp[a % 3][d] \div p1.of) * p1.chance = y * r
      BY <1>1
    <3>4. new[slot][column] = dp[slot][column] + y * r
      BY <1>2, <1>3, <2>1, <3>1, <3>2, <3>3 DEF Arrives
    <3> QED  BY <1>3, <2>0, <2>2, <3>4
  <2>3. CASE slot = (a - 1) % 3 /\ column = d
    <3>1. \A q \in P : (a - q.a) % 3 = slot /\ d - q.d = column => q = p2
      BY <1>1, <1>2, <1>4, <2>3
    <3>2. (a - p2.a) % 3 = slot /\ d - p2.d = column
      BY <1>1, <1>4, <2>3
    <3>3. (dp[a % 3][d] \div p2.of) * p2.chance = y * s
      BY <1>1
    <3>4. new[slot][column] = dp[slot][column] + y * s
      BY <1>2, <1>3, <2>1, <3>1, <3>2, <3>3 DEF Arrives
    <3>5. slot # a % 3
      BY <1>4, <2>3
    <3> QED  BY <1>3, <2>0, <2>3, <3>4, <3>5
  <2>4. CASE ~(slot = a % 3 /\ column = d - 1) /\ ~(slot = (a - 1) % 3 /\ column = d)
    <3>0. ~((a - p1.a) % 3 = slot /\ d - p1.d = column) /\ ~((a - p2.a) % 3 = slot /\ d - p2.d = column)
      BY <1>1, <1>4, <2>4
    <3>1. \A p \in P : ~((a - p.a) % 3 = slot /\ d - p.d = column)
      BY <1>2, <3>0
    <3>2. new[slot][column] = dp[slot][column]
      BY <2>1, <3>1 DEF Arrives
    <3> QED  BY <2>0, <2>4, <3>2
  <2> QED  BY <2>2, <2>3, <2>4
<1>6. new \in Tables(D)
  <2>1. new = [slot \in 0..2 |-> [column \in 0..D |-> new[slot][column]]]
    <3>1. \A slot \in 0..2 : DOMAIN dp[slot] = 0..D
      BY DEF Tables
    <3> QED  BY <3>1 DEF Spread
  <2> HIDE DEF new
  <2> QED  BY <1>5, <2>1 DEF Tables
<1>7. new = Spread(dp, a, d)
  OBVIOUS
<1> HIDE DEF new
<1>8. ToTwo(new, D, dp, a, d, y, r, s)
  BY <1>5 DEF ToTwo
<1> QED  BY <1>6, <1>7, <1>8

(***************************************************************************)
(* The chances still in the table, by cell, while row a is worked through  *)
(* down to column d: the rows a, a - 1 and a - 2 in their slots.           *)
(***************************************************************************)
Cells(A, D) == (0..A) \X (0..D)
Alive(A, D, dp, a, d) ==
    [x \in Cells(A, D) |-> IF a - 2 <= x[1] /\ x[1] <= a /\ (x[1] < a \/ x[2] <= d)
                           THEN dp[x[1] % 3][x[2]] ELSE 0]

AliveIn(v, A, D, dp, a, d) ==
    /\ v \in [Cells(A, D) -> Nat]
    /\ \A i \in 0..A, c \in 0..D :
          /\ <<i, c>> \in Cells(A, D)
          /\ v[<<i, c>>] = IF a - 2 <= i /\ i <= a /\ (i < a \/ c <= d) THEN dp[i % 3][c] ELSE 0
LEMMA CellsAreFinite == ASSUME NEW A \in Nat, NEW D \in Nat  PROVE IsFiniteSet(Cells(A, D))
<1>1. IsFiniteSet(0..A) /\ IsFiniteSet(0..D)
  BY FS_Interval
<1> QED  BY <1>1, FS_Product DEF Cells
LEMMA AliveType ==
    ASSUME NEW A \in Nat, NEW D \in Nat, NEW dp \in Tables(D), NEW a \in -1..A, NEW d \in -1..D
    PROVE  AliveIn(Alive(A, D, dp, a, d), A, D, dp, a, d)
<1>2. \A i \in 0..A, c \in 0..D : <<i, c>> \in Cells(A, D)
  BY DEF Cells
<1>3. \A x \in Cells(A, D) : x[1] \in 0..A /\ x[2] \in 0..D
  BY DEF Cells
<1>4. \A i \in 0..A, c \in 0..D : dp[i % 3][c] \in Nat
  <2> TAKE i \in 0..A, c \in 0..D
  <2>1. i % 3 \in 0..2
    OBVIOUS
  <2>2. dp[i % 3] \in [0..D -> Nat]
    BY <2>1 DEF Tables
  <2> QED  BY <2>2
<1>5. ASSUME NEW x \in Cells(A, D)
      PROVE  (IF a - 2 <= x[1] /\ x[1] <= a /\ (x[1] < a \/ x[2] <= d)
              THEN dp[x[1] % 3][x[2]] ELSE 0) \in Nat
  <2>1. dp[x[1] % 3][x[2]] \in Nat
    BY <1>3, <1>4
  <2> QED  BY <2>1
<1>6. Alive(A, D, dp, a, d) \in [Cells(A, D) -> Nat]
  BY <1>5 DEF Alive
<1>7. ASSUME NEW i \in 0..A, NEW c \in 0..D
      PROVE  Alive(A, D, dp, a, d)[<<i, c>>] =
                 IF a - 2 <= i /\ i <= a /\ (i < a \/ c <= d) THEN dp[i % 3][c] ELSE 0
  <2> DEFINE x == <<i, c>>
  <2>1. x \in Cells(A, D) /\ x[1] = i /\ x[2] = c
    BY <1>2
  <2> HIDE DEF x
  <2>2. Alive(A, D, dp, a, d)[x] =
            IF a - 2 <= x[1] /\ x[1] <= a /\ (x[1] < a \/ x[2] <= d) THEN dp[x[1] % 3][x[2]] ELSE 0
    BY <2>1 DEF Alive
  <2>3. Alive(A, D, dp, a, d)[x] =
            IF a - 2 <= i /\ i <= a /\ (i < a \/ c <= d) THEN dp[i % 3][c] ELSE 0
    BY <2>1, <2>2
  <2> QED  BY <2>3 DEF x
<1> QED  BY <1>2, <1>6, <1>7 DEF AliveIn

\* What is alive after a cell has handed on its chance.
LiveThree(A, D, v, w, a, d, y, r, s, t) ==
    \A i \in 0..A, c \in 0..D :
        w[<<i, c>>] = IF i = a /\ c = d THEN 0
                      ELSE v[<<i, c>>] + (IF i = a /\ c = d - 2 THEN y * r
                                          ELSE IF i = a - 1 /\ c = d - 1 THEN y * s
                                          ELSE IF i = a - 2 /\ c = d THEN y * t ELSE 0)
LEMMA AliveAfterTwo ==
    ASSUME NEW A \in Nat, NEW D \in Nat, NEW dp \in Tables(D), NEW a \in 2..A, NEW d \in 2..D,
           NEW new \in Tables(D), NEW y \in Nat, NEW r \in Nat, NEW s \in Nat, NEW t \in Nat,
           ToThree(new, D, dp, a, d, y, r, s, t)
    PROVE  LiveThree(A, D, Alive(A, D, dp, a, d), Alive(A, D, new, a, d - 1), a, d, y, r, s, t)
<1> DEFINE v == Alive(A, D, dp, a, d)
           w == Alive(A, D, new, a, d - 1)
<1>0. AliveIn(v, A, D, dp, a, d) /\ AliveIn(w, A, D, new, a, d - 1)
  <2>1. a \in -1..A /\ d \in -1..D /\ d - 1 \in -1..D
    OBVIOUS
  <2> QED  BY <2>1, AliveType
<1>01. y * r \in Nat /\ y * s \in Nat /\ y * t \in Nat
  OBVIOUS
<1> HIDE DEF v, w
<1> SUFFICES LiveThree(A, D, v, w, a, d, y, r, s, t)
  BY DEF v, w
<1> SUFFICES ASSUME NEW i \in 0..A, NEW c \in 0..D
             PROVE  w[<<i, c>>] = IF i = a /\ c = d THEN 0
                      ELSE v[<<i, c>>] + (IF i = a /\ c = d - 2 THEN y * r
                                          ELSE IF i = a - 1 /\ c = d - 1 THEN y * s
                                          ELSE IF i = a - 2 /\ c = d THEN y * t ELSE 0)
  BY DEF LiveThree
<1>1. a \in -1..A /\ d \in -1..D /\ d - 1 \in -1..D /\ i % 3 \in 0..2
  OBVIOUS
<1>2. v[<<i, c>>] =
          IF a - 2 <= i /\ i <= a /\ (i < a \/ c <= d) THEN dp[i % 3][c] ELSE 0
  BY <1>0 DEF AliveIn
<1>3. w[<<i, c>>] =
          IF a - 2 <= i /\ i <= a /\ (i < a \/ c <= d - 1) THEN new[i % 3][c] ELSE 0
  BY <1>0 DEF AliveIn
<1>4. new[i % 3][c] = dp[i % 3][c] +
          (IF i % 3 = a % 3 /\ c = d - 2 THEN y * r
           ELSE IF i % 3 = (a - 1) % 3 /\ c = d - 1 THEN y * s
           ELSE IF i % 3 = (a - 2) % 3 /\ c = d THEN y * t ELSE 0)
  BY <1>1 DEF ToThree
<1>5. dp[i % 3][c] \in Nat
  <2>1. dp[i % 3] \in [0..D -> Nat]
    BY <1>1 DEF Tables
  <2> QED  BY <2>1
<1>6. CASE i < a - 2 \/ i > a
  BY <1>2, <1>3, <1>6
<1>7. CASE i = a
  <2>1. i % 3 = a % 3 /\ i % 3 # (a - 1) % 3 /\ i % 3 # (a - 2) % 3 /\ i # a - 1 /\ i # a - 2
    BY <1>7
  <2> QED  BY <1>01, <1>2, <1>3, <1>4, <1>5, <1>7, <2>1
<1>8. CASE i = a - 1
  <2>1. i % 3 = (a - 1) % 3 /\ i % 3 # a % 3 /\ i % 3 # (a - 2) % 3 /\ i # a /\ i # a - 2
    BY <1>8
  <2> QED  BY <1>01, <1>2, <1>3, <1>4, <1>5, <1>8, <2>1
<1>9. CASE i = a - 2
  <2>1. i % 3 = (a - 2) % 3 /\ i % 3 # a % 3 /\ i % 3 # (a - 1) % 3 /\ i # a /\ i # a - 1
    BY <1>9
  <2> QED  BY <1>01, <1>2, <1>3, <1>4, <1>5, <1>9, <2>1
<1> QED  BY <1>6, <1>7, <1>8, <1>9

LiveTwo(A, D, v, w, a, d, y, r, s) ==
    \A i \in 0..A, c \in 0..D :
        w[<<i, c>>] = IF i = a /\ c = d THEN 0
                      ELSE v[<<i, c>>] + (IF i = a /\ c = d - 1 THEN y * r
                                          ELSE IF i = a - 1 /\ c = d THEN y * s ELSE 0)
LEMMA AliveAfterOne ==
    ASSUME NEW A \in Nat, NEW D \in Nat, NEW dp \in Tables(D), NEW a \in 1..A, NEW d \in 1..D,
           NEW new \in Tables(D), NEW y \in Nat, NEW r \in Nat, NEW s \in Nat,
           ToTwo(new, D, dp, a, d, y, r, s)
    PROVE  LiveTwo(A, D, Alive(A, D, dp, a, d), Alive(A, D, new, a, d - 1), a, d, y, r, s)
<1> DEFINE v == Alive(A, D, dp, a, d)
           w == Alive(A, D, new, a, d - 1)
<1>0. AliveIn(v, A, D, dp, a, d) /\ AliveIn(w, A, D, new, a, d - 1)
  <2>1. a \in -1..A /\ d \in -1..D /\ d - 1 \in -1..D
    OBVIOUS
  <2> QED  BY <2>1, AliveType
<1>01. y * r \in Nat /\ y * s \in Nat
  OBVIOUS
<1> HIDE DEF v, w
<1> SUFFICES LiveTwo(A, D, v, w, a, d, y, r, s)
  BY DEF v, w
<1> SUFFICES ASSUME NEW i \in 0..A, NEW c \in 0..D
             PROVE  w[<<i, c>>] = IF i = a /\ c = d THEN 0
                      ELSE v[<<i, c>>] + (IF i = a /\ c = d - 1 THEN y * r
                                          ELSE IF i = a - 1 /\ c = d THEN y * s ELSE 0)
  BY DEF LiveTwo
<1>1. a \in -1..A /\ d \in -1..D /\ d - 1 \in -1..D /\ i % 3 \in 0..2
  OBVIOUS
<1>2. v[<<i, c>>] =
          IF a - 2 <= i /\ i <= a /\ (i < a \/ c <= d) THEN dp[i % 3][c] ELSE 0
  BY <1>0 DEF AliveIn
<1>3. w[<<i, c>>] =
          IF a - 2 <= i /\ i <= a /\ (i < a \/ c <= d - 1) THEN new[i % 3][c] ELSE 0
  BY <1>0 DEF AliveIn
<1>4. new[i % 3][c] = dp[i % 3][c] +
          (IF i % 3 = a % 3 /\ c = d - 1 THEN y * r
           ELSE IF i % 3 = (a - 1) % 3 /\ c = d THEN y * s ELSE 0)
  BY <1>1 DEF ToTwo
<1>5. dp[i % 3][c] \in Nat
  <2>1. dp[i % 3] \in [0..D -> Nat]
    BY <1>1 DEF Tables
  <2> QED  BY <2>1
<1>6. CASE i < a - 2 \/ i > a
  BY <1>2, <1>3, <1>6
<1>7. CASE i = a
  <2>1. i % 3 = a % 3 /\ i % 3 # (a - 1) % 3 /\ i # a - 1
    BY <1>7
  <2> QED  BY <1>01, <1>2, <1>3, <1>4, <1>5, <1>7, <2>1
<1>8. CASE i = a - 1
  <2>1. i % 3 = (a - 1) % 3 /\ i % 3 # a % 3 /\ i # a
    BY <1>8
  <2> QED  BY <1>01, <1>2, <1>3, <1>4, <1>5, <1>8, <2>1
<1>9. CASE i = a - 2
  <2>1. i % 3 # a % 3 /\ i % 3 # (a - 1) % 3 /\ i # a /\ i # a - 1
    BY <1>9
  <2> QED  BY <1>01, <1>2, <1>3, <1>4, <1>5, <1>9, <2>1
<1> QED  BY <1>6, <1>7, <1>8, <1>9

\* Multiples of multiples, and their sums.
LEMMA MultiplesAdd ==
    ASSUME NEW g \in Nat, NEW x, NEW y, Multiple(x, g), Multiple(y, g)
    PROVE  Multiple(x + y, g)
<1>1. PICK m \in Nat : x = m * g
  BY DEF Multiple
<1>2. PICK n \in Nat : y = n * g
  BY DEF Multiple
<1>3. x + y = (m + n) * g /\ m + n \in Nat
  BY <1>1, <1>2
<1> QED  BY <1>3 DEF Multiple
LEMMA MultipleOfMultiple ==
    ASSUME NEW g \in Nat, NEW h \in Nat, NEW x, Multiple(x, g), Multiple(g, h)
    PROVE  Multiple(x, h)
<1>1. PICK m \in Nat : x = m * g
  BY DEF Multiple
<1>2. PICK n \in Nat : g = n * h
  BY DEF Multiple
<1>3. x = (m * n) * h /\ m * n \in Nat
  BY <1>1, <1>2
<1> QED  BY <1>3 DEF Multiple

(***************************************************************************)
(* What a battle is worth.  Let every cell have a worth, and an army that  *)
(* is left to a side: the worth of a cell is the mean of the worths of     *)
(* where its battle goes next, and a battle that is over is worth no more  *)
(* than the armies left of it.  Then what is still in the table and the    *)
(* armies counted so far are together worth no less than the battle was at *)
(* the start.                                                              *)
(***************************************************************************)
Fair(A, D, W) ==
    /\ W.cell \in [Cells(A, D) -> Int] /\ W.a \in Int /\ W.d \in Int
    /\ \A a \in 1..A : W.cell[<<a, 0>>] <= W.a * a
    /\ \A d \in 1..D : W.cell[<<0, d>>] <= W.d * d
    /\ \A a \in 2..A, d \in 2..D : \A of, r, s, t : TwoFall(a, d, of, r, s, t) =>
          of * W.cell[<<a, d>>] =
              r * W.cell[<<a, d - 2>>] + s * W.cell[<<a - 1, d - 1>>] + t * W.cell[<<a - 2, d>>]
    /\ \A a \in 1..A, d \in 1..D : a = 1 \/ d = 1 => \A of, r, s : OneFalls(a, d, of, r, s) =>
          of * W.cell[<<a, d>>] = r * W.cell[<<a, d - 1>>] + s * W.cell[<<a - 1, d>>]
Worth(u, v, C) == SumOver([x \in C |-> v[x] * u[x]], C)

Battling(D) == [dp : Tables(D), a : Nat, d : Nat]
Kept(A, D, W, s, a, d) ==
    /\ s \in Battling(D)
    /\ Alive(A, D, s.dp, a, d)[<<0, 0>>] = 0
    /\ \A x \in Cells(A, D) : Multiple(Alive(A, D, s.dp, a, d)[x], Grain[x])
    /\ One * W.cell[<<A, D>>] <=
           Worth(W.cell, Alive(A, D, s.dp, a, d), Cells(A, D)) + (W.a * s.a + W.d * s.d)

\* The worth of two tables that differ in a few places.
Weighed(f, g, u, v, w, C, E) ==
    /\ Changed(f, g, C, E) /\ Worth(u, v, C) = SumOver(f, C) /\ Worth(u, w, C) = SumOver(g, C)
    /\ Worth(u, v, C) \in Int
    /\ \A x \in C : g[x] = w[x] * u[x] /\ f[x] = v[x] * u[x]
LEMMA WorthChanged ==
    ASSUME NEW C, IsFiniteSet(C), NEW u \in [C -> Int], NEW v \in [C -> Nat], NEW w \in [C -> Nat],
           NEW E \in SUBSET C, \A x \in C \ E : v[x] = w[x]
    PROVE  \E f, g : Weighed(f, g, u, v, w, C, E)
<1> DEFINE f == [x \in C |-> v[x] * u[x]]
           g == [x \in C |-> w[x] * u[x]]
<1>1. \A x \in C : v[x] \in Int /\ w[x] \in Int /\ u[x] \in Int
  OBVIOUS
<1>2. \A x \in C : v[x] * u[x] \in Int /\ w[x] * u[x] \in Int
  BY <1>1
<1>3. \A x \in C : g[x] = w[x] * u[x] /\ f[x] = v[x] * u[x]
  OBVIOUS
<1>4. Worth(u, v, C) = SumOver(f, C) /\ Worth(u, w, C) = SumOver(g, C)
  BY DEF Worth
<1> HIDE DEF f, g
<1>5. \A x \in C : f[x] \in Int /\ g[x] \in Int
  BY <1>2, <1>3
<1>6. \A x \in C \ E : f[x] = g[x]
  BY <1>3
<1>7. Changed(f, g, C, E)
  BY <1>5, <1>6 DEF Changed
<1>8. Worth(u, v, C) \in Int
  BY <1>4, <1>5, SumType
<1>9. Weighed(f, g, u, v, w, C, E)
  BY <1>3, <1>4, <1>7, <1>8 DEF Weighed
<1> QED  BY <1>9

\* Moving on to a table whose live chances are the same.
SameAlive(A, D, dp, a, d, new, b, e) ==
    \A i \in 0..A, c \in 0..D : Alive(A, D, new, b, e)[<<i, c>>] = Alive(A, D, dp, a, d)[<<i, c>>]
LEMMA KeptBySame ==
    ASSUME NEW A \in Nat, NEW D \in Nat, NEW W, NEW s, NEW t \in Battling(D),
           NEW a \in -1..A, NEW d \in -1..D, NEW b \in -1..A, NEW e \in -1..D,
           Kept(A, D, W, s, a, d), t.a = s.a, t.d = s.d,
           SameAlive(A, D, s.dp, a, d, t.dp, b, e)
    PROVE  Kept(A, D, W, t, b, e)
<1> DEFINE v == Alive(A, D, s.dp, a, d)
           w == Alive(A, D, t.dp, b, e)
<1>1. v \in [Cells(A, D) -> Nat] /\ w \in [Cells(A, D) -> Nat]
  <2>1. s.dp \in Tables(D) /\ t.dp \in Tables(D)
    BY DEF Kept, Battling
  <2>2. AliveIn(v, A, D, s.dp, a, d) /\ AliveIn(w, A, D, t.dp, b, e)
    BY <2>1, AliveType
  <2> HIDE DEF v, w
  <2> QED  BY <2>2 DEF AliveIn
<1>2. \A x \in Cells(A, D) : w[x] = v[x]
  <2> TAKE x \in Cells(A, D)
  <2>1. x[1] \in 0..A /\ x[2] \in 0..D /\ x = <<x[1], x[2]>>
    BY DEF Cells
  <2>2. w[<<x[1], x[2]>>] = v[<<x[1], x[2]>>]
    BY <2>1 DEF SameAlive
  <2> HIDE DEF v, w
  <2> QED  BY <2>1, <2>2
<1> HIDE DEF v, w
<1>3. w = v
  BY <1>1, <1>2
<1>4. Alive(A, D, t.dp, b, e) = Alive(A, D, s.dp, a, d)
  BY <1>3 DEF v, w
<1> QED  BY <1>4 DEF Kept

\* The start.
StartOf(A, D) ==
    [dp |-> [slot \in 0..2 |-> IF slot = A % 3 THEN [[column \in 0..D |-> 0] EXCEPT ![D] = One]
                               ELSE [column \in 0..D |-> 0]],
     a |-> 0, d |-> 0]
LEMMA KeptAtStart ==
    ASSUME NEW A \in Nat \ {0}, NEW D \in Nat \ {0}, Exact(A, D), NEW W, Fair(A, D, W)
    PROVE  Kept(A, D, W, StartOf(A, D), A, D)
<1> DEFINE s == StartOf(A, D)
           v == Alive(A, D, s.dp, A, D)
           none == [column \in 0..D |-> 0]
           full == [none EXCEPT ![D] = One]
<1>0. One \in Nat \ {0}
  BY BattleTableAssumption
<1>1. none \in [0..D -> Nat] /\ full \in [0..D -> Nat] /\ full[D] = One
      /\ \A c \in 0..D : none[c] = 0 /\ (c # D => full[c] = 0)
  BY <1>0
<1>2. /\ \A slot \in 0..2 : s.dp[slot] = IF slot = A % 3 THEN full ELSE none
      /\ s.dp = [slot \in 0..2 |-> IF slot = A % 3 THEN full ELSE none]
      /\ s = [dp |-> s.dp, a |-> 0, d |-> 0] /\ s.a = 0 /\ s.d = 0
  BY DEF StartOf
<1>13. s = StartOf(A, D)
  OBVIOUS
<1> HIDE DEF none, full, s
<1>3. s.dp \in Tables(D)
  BY <1>1, <1>2 DEF Tables
<1>4. s \in Battling(D)
  BY <1>2, <1>3 DEF Battling
<1>5. IsFiniteSet(Cells(A, D)) /\ AliveIn(v, A, D, s.dp, A, D)
  <2>1. A \in Nat /\ D \in Nat /\ A \in -1..A /\ D \in -1..D
    OBVIOUS
  <2> QED  BY <1>3, <2>1, AliveType, CellsAreFinite
<1> HIDE DEF v
<1>6. ASSUME NEW i \in 0..A, NEW c \in 0..D
      PROVE  v[<<i, c>>] = IF i = A /\ c = D THEN One ELSE 0
  <2>1. i % 3 \in 0..2
    OBVIOUS
  <2>2. s.dp[i % 3] = IF i % 3 = A % 3 THEN full ELSE none
    BY <1>2, <2>1
  <2>3. v[<<i, c>>] = IF A - 2 <= i /\ i <= A /\ (i < A \/ c <= D) THEN s.dp[i % 3][c] ELSE 0
    BY <1>5 DEF AliveIn
  <2>4. CASE i = A
    <3>1. s.dp[i % 3] = full
      BY <2>2, <2>4
    <3>2. v[<<i, c>>] = full[c]
      BY <2>3, <2>4, <3>1
    <3> QED  BY <1>1, <2>4, <3>2
  <2>5. CASE A - 2 <= i /\ i < A
    <3>0. i % 3 # A % 3
      BY <2>5
    <3>1. s.dp[i % 3] = none
      BY <2>2, <3>0
    <3>2. v[<<i, c>>] = none[c]
      BY <2>3, <2>5, <3>1
    <3> QED  BY <1>1, <2>5, <3>2
  <2>6. CASE i < A - 2
    BY <2>3, <2>6
  <2> QED  BY <2>4, <2>5, <2>6
<1>7. \A x \in Cells(A, D) : x[1] \in 0..A /\ x[2] \in 0..D /\ x = <<x[1], x[2]>>
  BY DEF Cells
<1>8. \A x \in Cells(A, D) : v[x] = IF x = <<A, D>> THEN One ELSE 0
  BY <1>6, <1>7
<1>9. <<A, D>> \in Cells(A, D) /\ v[<<A, D>>] = One
  BY <1>6 DEF Cells
<1>10. Worth(W.cell, v, Cells(A, D)) = One * W.cell[<<A, D>>]
  <2> DEFINE h == [x \in Cells(A, D) |-> v[x] * W.cell[x]]
  <2>0. One \in Nat /\ W.cell \in [Cells(A, D) -> Int]
    BY BattleTableAssumption DEF Fair
  <2>1. \A x \in Cells(A, D) : W.cell[x] \in Int /\ h[x] = v[x] * W.cell[x]
    BY <2>0
  <2>2. Worth(W.cell, v, Cells(A, D)) = SumOver(h, Cells(A, D))
    BY DEF Worth
  <2> HIDE DEF h
  <2>3. \A x \in Cells(A, D) \ {<<A, D>>} : h[x] = 0
    <3> TAKE x \in Cells(A, D) \ {<<A, D>>}
    <3>1. h[x] = 0 * W.cell[x]
      BY <1>8, <2>1
    <3> QED  BY <2>1, <3>1
  <2>4. h[<<A, D>>] = One * W.cell[<<A, D>>] /\ h[<<A, D>>] \in Int
    <3>1. h[<<A, D>>] = One * W.cell[<<A, D>>]
      BY <1>9, <2>1
    <3>2. W.cell[<<A, D>>] \in Int
      BY <1>9, <2>1
    <3> QED  BY <2>0, <3>1, <3>2
  <2> QED  BY <1>5, <1>9, <2>2, <2>3, <2>4, SumOfOne
<1>11. v[<<0, 0>>] = 0
  BY <1>6
<1>12. ASSUME NEW x \in Cells(A, D) PROVE Multiple(v[x], Grain[x])
  <2>1. Grain[x] \in Nat \ {0}
    BY DEF Exact, Cells
  <2>2. CASE x = <<A, D>>
    <3>1. One % Grain[x] = 0
      BY <2>2 DEF Exact
    <3>2. Multiple(One, Grain[x])
      BY <1>0, <2>1, <3>1, WholeIsMultiple
    <3> QED  BY <1>9, <2>2, <3>2
  <2>3. CASE x # <<A, D>>
    <3>1. 0 = 0 * Grain[x]
      BY <2>1
    <3> QED  BY <1>8, <2>3, <3>1 DEF Multiple
  <2> QED  BY <2>2, <2>3
<1>14. One * W.cell[<<A, D>>] <= Worth(W.cell, v, Cells(A, D)) + (W.a * s.a + W.d * s.d)
  <2>1. W.a * s.a + W.d * s.d = 0
    BY <1>2 DEF Fair
  <2>2. One * W.cell[<<A, D>>] \in Int
    <3>1. One \in Int /\ W.cell[<<A, D>>] \in Int
      BY <1>9, BattleTableAssumption DEF Fair
    <3> QED  BY <3>1
  <2> QED  BY <1>10, <2>1, <2>2
<1>15. Kept(A, D, W, s, A, D)
  BY <1>4, <1>11, <1>12, <1>14 DEF Kept, v
<1> QED  BY <1>13, <1>15

\* A cell.
Shared(A, D, a, d, p, x) ==
    /\ x \div p.of \in Nat /\ x = p.of * (x \div p.of)
    /\ (x \div p.of) * p.chance \in Nat
    /\ Multiple((x \div p.of) * p.chance, Grain[<<a - p.a, d - p.d>>])
LEMMA ShareOf ==
    ASSUME NEW A \in Nat, NEW D \in Nat, Exact(A, D), NEW a \in 1..A, NEW d \in 1..D,
           NEW p \in get_probs(a, d), p.of \in Nat \ {0}, p.chance \in Nat,
           <<a - p.a, d - p.d>> \in Cells(A, D),
           NEW x \in Nat, Multiple(x, Grain[<<a, d>>])
    PROVE  Shared(A, D, a, d, p, x)
<1> DEFINE e == <<a - p.a, d - p.d>>
           of == p.of
           chance == p.chance
<1> DEFINE g == Grain[<<a, d>>]
           h == Grain[e]
<1>0. of \in Nat \ {0} /\ chance \in Nat
  OBVIOUS
<1>1. g \in Nat \ {0} /\ h \in Nat \ {0}
  <2>1. <<a, d>> \in Cells(A, D)
    BY DEF Cells
  <2> QED  BY <2>1 DEF Exact, Cells
<1>2. g % (of * h) = 0
  BY DEF Exact
<1> HIDE DEF g, h, of, chance
<1>3. of * h \in Nat \ {0}
  BY <1>0, <1>1
<1>4. Multiple(g, of * h)
  BY <1>1, <1>2, <1>3, WholeIsMultiple
<1>5. Multiple(x, g)
  BY DEF g
<1>6. Multiple(x, of * h)
  BY <1>1, <1>3, <1>4, <1>5, MultipleOfMultiple
<1>7. /\ x \div of \in Nat /\ x = of * (x \div of)
      /\ (x \div of) * chance \in Nat
      /\ Multiple((x \div of) * chance, h)
  BY <1>0, <1>1, <1>6, ShareIsWhole
<1> QED  BY <1>7 DEF h, of, chance, Shared

\* What is live after a cell's share went to three cells.
ThreeGet(v, w, C, e0, e1, e2, e3, of, y, r, s, t) ==
    /\ IsFiniteSet(C) /\ v \in [C -> Nat] /\ w \in [C -> Nat]
    /\ e0 \in C /\ e1 \in C /\ e2 \in C /\ e3 \in C
    /\ e1 # e2 /\ e1 # e3 /\ e2 # e3 /\ e1 # e0 /\ e2 # e0 /\ e3 # e0
    /\ v[e0] = of * y /\ w[e0] = 0
    /\ w[e1] = v[e1] + y * r /\ w[e2] = v[e2] + y * s /\ w[e3] = v[e3] + y * t
    /\ \A x \in C \ {e1, e2, e3, e0} : v[x] = w[x]
LEMMA HandedToThree ==
    ASSUME NEW C, NEW v, NEW w, NEW e0, NEW e1, NEW e2, NEW e3, NEW u \in [C -> Int],
           NEW of \in Nat, NEW r \in Nat, NEW s \in Nat, NEW t \in Nat, NEW y \in Nat,
           of * u[e0] = r * u[e1] + s * u[e2] + t * u[e3],
           ThreeGet(v, w, C, e0, e1, e2, e3, of, y, r, s, t)
    PROVE  Worth(u, w, C) = Worth(u, v, C) /\ Worth(u, v, C) \in Int
<1> USE DEF ThreeGet
<1>01. PICK f, g : Weighed(f, g, u, v, w, C, {e1, e2, e3, e0})
  <2> DEFINE E == {e1, e2, e3, e0}
  <2>1. E \in SUBSET C /\ \A x \in C \ E : v[x] = w[x]
    OBVIOUS
  <2>2. IsFiniteSet(C) /\ v \in [C -> Nat] /\ w \in [C -> Nat]
    OBVIOUS
  <2> HIDE DEF E
  <2>3. \E f, g : Weighed(f, g, u, v, w, C, E)
    BY <2>1, <2>2, WorthChanged
  <2> QED  BY <2>3 DEF E
<1>1. /\ Changed(f, g, C, {e1, e2, e3, e0})
      /\ Worth(u, v, C) = SumOver(f, C) /\ Worth(u, w, C) = SumOver(g, C) /\ Worth(u, v, C) \in Int
      /\ \A x \in C : g[x] = w[x] * u[x] /\ f[x] = v[x] * u[x]
  BY <1>01 DEF Weighed
<1>2. SumOver(g, C) = SumOver(f, C) + (g[e1] - f[e1]) + (g[e2] - f[e2]) + (g[e3] - f[e3])
                               + (g[e0] - f[e0])
  BY <1>1, SumOfFourChanged
<1> DEFINE u0 == u[e0]
           u1 == u[e1]
           u2 == u[e2]
           u3 == u[e3]
<1>3. /\ u0 \in Int /\ u1 \in Int /\ u2 \in Int /\ u3 \in Int
      /\ v[e0] \in Int /\ v[e1] \in Int /\ v[e2] \in Int /\ v[e3] \in Int
  OBVIOUS
<1>4. /\ f[e0] = v[e0] * u0 /\ f[e1] = v[e1] * u1 /\ f[e2] = v[e2] * u2 /\ f[e3] = v[e3] * u3
      /\ g[e0] = w[e0] * u0 /\ g[e1] = w[e1] * u1 /\ g[e2] = w[e2] * u2 /\ g[e3] = w[e3] * u3
  BY <1>1
<1>5. of * u0 = r * u1 + s * u2 + t * u3
  OBVIOUS
<1>6. /\ v[e0] = of * y /\ w[e0] = 0
      /\ w[e1] = v[e1] + y * r /\ w[e2] = v[e2] + y * s /\ w[e3] = v[e3] + y * t
  OBVIOUS
<1> HIDE DEF u0, u1, u2, u3, ThreeGet
<1>7. g[e1] - f[e1] = y * (r * u1) /\ y * (r * u1) \in Int
  BY <1>3, <1>4, <1>6
<1>8. g[e2] - f[e2] = y * (s * u2) /\ y * (s * u2) \in Int
  BY <1>3, <1>4, <1>6
<1>9. g[e3] - f[e3] = y * (t * u3) /\ y * (t * u3) \in Int
  BY <1>3, <1>4, <1>6
<1>10. g[e0] - f[e0] = 0 - y * (of * u0) /\ y * (of * u0) \in Int
  BY <1>3, <1>4, <1>6
<1>11. y * (of * u0) = y * (r * u1) + y * (s * u2) + y * (t * u3)
  <2> DEFINE p0 == of * u0
             p1 == r * u1
             p2 == s * u2
             p3 == t * u3
  <2>1. p0 = p1 + p2 + p3 /\ p1 \in Int /\ p2 \in Int /\ p3 \in Int
    BY <1>3, <1>5
  <2> HIDE DEF p0, p1, p2, p3
  <2>2. y * p0 = y * p1 + y * p2 + y * p3
    BY <2>1
  <2> QED  BY <2>2 DEF p0, p1, p2, p3
<1> DEFINE q0 == y * (of * u0)
           q1 == y * (r * u1)
           q2 == y * (s * u2)
           q3 == y * (t * u3)
           sum == SumOver(f, C)
<1>12. SumOver(g, C) = sum + q1 + q2 + q3 + (0 - q0)
  BY <1>2, <1>7, <1>8, <1>9, <1>10
<1>13. sum \in Int /\ q0 = q1 + q2 + q3 /\ q1 \in Int /\ q2 \in Int /\ q3 \in Int
  BY <1>1, <1>7, <1>8, <1>9, <1>11
<1> HIDE DEF sum, q0, q1, q2, q3
<1>14. SumOver(g, C) = sum
  BY <1>12, <1>13
<1> QED  BY <1>1, <1>14 DEF sum

TwoGet(v, w, C, e0, e1, e2, of, y, r, s) ==
    /\ IsFiniteSet(C) /\ v \in [C -> Nat] /\ w \in [C -> Nat]
    /\ e0 \in C /\ e1 \in C /\ e2 \in C /\ e1 # e2 /\ e1 # e0 /\ e2 # e0
    /\ v[e0] = of * y /\ w[e0] = 0 /\ w[e1] = v[e1] + y * r /\ w[e2] = v[e2] + y * s
    /\ \A x \in C \ {e1, e2, e0} : v[x] = w[x]
LEMMA HandedToTwo ==
    ASSUME NEW C, NEW v, NEW w, NEW e0, NEW e1, NEW e2, NEW u \in [C -> Int],
           NEW of \in Nat, NEW r \in Nat, NEW s \in Nat, NEW y \in Nat,
           of * u[e0] = r * u[e1] + s * u[e2],
           TwoGet(v, w, C, e0, e1, e2, of, y, r, s)
    PROVE  Worth(u, w, C) = Worth(u, v, C) /\ Worth(u, v, C) \in Int
<1> USE DEF TwoGet
<1>01. PICK f, g : Weighed(f, g, u, v, w, C, {e1, e2, e0})
  <2> DEFINE E == {e1, e2, e0}
  <2>1. E \in SUBSET C /\ \A x \in C \ E : v[x] = w[x]
    OBVIOUS
  <2>2. IsFiniteSet(C) /\ v \in [C -> Nat] /\ w \in [C -> Nat]
    OBVIOUS
  <2> HIDE DEF E
  <2>3. \E f, g : Weighed(f, g, u, v, w, C, E)
    BY <2>1, <2>2, WorthChanged
  <2> QED  BY <2>3 DEF E
<1>1. /\ Changed(f, g, C, {e1, e2, e0})
      /\ Worth(u, v, C) = SumOver(f, C) /\ Worth(u, w, C) = SumOver(g, C) /\ Worth(u, v, C) \in Int
      /\ \A x \in C : g[x] = w[x] * u[x] /\ f[x] = v[x] * u[x]
  BY <1>01 DEF Weighed
<1>2. SumOver(g, C) = SumOver(f, C) + (g[e1] - f[e1]) + (g[e2] - f[e2]) + (g[e0] - f[e0])
  BY <1>1, SumOfThreeChanged
<1> DEFINE u0 == u[e0]
           u1 == u[e1]
           u2 == u[e2]
<1>3. /\ u0 \in Int /\ u1 \in Int /\ u2 \in Int
      /\ v[e0] \in Int /\ v[e1] \in Int /\ v[e2] \in Int
  OBVIOUS
<1>4. /\ f[e0] = v[e0] * u0 /\ f[e1] = v[e1] * u1 /\ f[e2] = v[e2] * u2
      /\ g[e0] = w[e0] * u0 /\ g[e1] = w[e1] * u1 /\ g[e2] = w[e2] * u2
  BY <1>1
<1>5. of * u0 = r * u1 + s * u2
  OBVIOUS
<1>6. /\ v[e0] = of * y /\ w[e0] = 0 /\ w[e1] = v[e1] + y * r /\ w[e2] = v[e2] + y * s
  OBVIOUS
<1> HIDE DEF u0, u1, u2, TwoGet
<1>7. g[e1] - f[e1] = y * (r * u1) /\ y * (r * u1) \in Int
  BY <1>3, <1>4, <1>6
<1>8. g[e2] - f[e2] = y * (s * u2) /\ y * (s * u2) \in Int
  BY <1>3, <1>4, <1>6
<1>10. g[e0] - f[e0] = 0 - y * (of * u0) /\ y * (of * u0) \in Int
  BY <1>3, <1>4, <1>6
<1>11. y * (of * u0) = y * (r * u1) + y * (s * u2)
  <2> DEFINE p0 == of * u0
             p1 == r * u1
             p2 == s * u2
  <2>1. p0 = p1 + p2 /\ p1 \in Int /\ p2 \in Int
    BY <1>3, <1>5
  <2> HIDE DEF p0, p1, p2
  <2>2. y * p0 = y * p1 + y * p2
    BY <2>1
  <2> QED  BY <2>2 DEF p0, p1, p2
<1> DEFINE q0 == y * (of * u0)
           q1 == y * (r * u1)
           q2 == y * (s * u2)
           sum == SumOver(f, C)
<1>12. SumOver(g, C) = sum + q1 + q2 + (0 - q0)
  BY <1>2, <1>7, <1>8, <1>10
<1>13. sum \in Int /\ q0 = q1 + q2 /\ q1 \in Int /\ q2 \in Int
  BY <1>1, <1>7, <1>8, <1>11
<1> HIDE DEF sum, q0, q1, q2
<1>14. SumOver(g, C) = sum
  BY <1>12, <1>13
<1> QED  BY <1>1, <1>14 DEF sum

LEMMA CellKeepsTwo ==
    ASSUME NEW A \in Nat, NEW D \in Nat, Exact(A, D), NEW a \in 2..A, NEW d \in 2..D,
           NEW W, Fair(A, D, W), NEW s, Kept(A, D, W, s, a, d)
    PROVE  Kept(A, D, W, [s EXCEPT !.dp = Spread(@, a, d)], a, d - 1)
<1> DEFINE C == Cells(A, D)
           dp == s.dp
           new == Spread(dp, a, d)
           v == Alive(A, D, dp, a, d)
           w == Alive(A, D, new, a, d - 1)
           here == dp[a % 3][d]
<1>0. dp \in Tables(D) /\ s \in Battling(D)
  BY DEF Kept, Battling
<1>1. PICK of, r, q, t : TwoFall(a, d, of, r, q, t)
  <2>1. a \in Nat /\ d \in Nat /\ a >= 2 /\ d >= 2
    OBVIOUS
  <2> QED  BY <2>1, OddsOfTwo
<1>01. of \in Nat \ {0} /\ r \in Nat /\ q \in Nat /\ t \in Nat /\ r + q + t = of
  BY <1>1 DEF TwoFall
<1> DEFINE y == here \div of
           p1 == Outcome(0, 2, r, of)
           p2 == Outcome(1, 1, q, of)
           p3 == Outcome(2, 0, t, of)
<1>2. /\ p1.a = 0 /\ p1.d = 2 /\ p1.chance = r /\ p1.of = of
      /\ p2.a = 1 /\ p2.d = 1 /\ p2.chance = q /\ p2.of = of
      /\ p3.a = 2 /\ p3.d = 0 /\ p3.chance = t /\ p3.of = of
      /\ p1 \in get_probs(a, d) /\ p2 \in get_probs(a, d) /\ p3 \in get_probs(a, d)
  BY <1>1 DEF Outcome, TwoFall
<1>3. IsFiniteSet(C) /\ AliveIn(v, A, D, dp, a, d) /\ v \in [C -> Nat]
  <2>1. a \in -1..A /\ d \in -1..D
    OBVIOUS
  <2>2. IsFiniteSet(C) /\ AliveIn(v, A, D, dp, a, d)
    BY <1>0, <2>1, AliveType, CellsAreFinite
  <2> HIDE DEF dp, v
  <2> QED  BY <2>2 DEF AliveIn
<1>4. here \in Nat /\ v[<<a, d>>] = here
  <2>1. a % 3 \in 0..2 /\ a \in 0..A /\ d \in 0..D
    OBVIOUS
  <2>2. dp[a % 3] \in [0..D -> Nat]
    BY <1>0, <2>1 DEF Tables
  <2> HIDE DEF dp, v
  <2>3. v[<<a, d>>] = dp[a % 3][d]
    BY <1>3, <2>1 DEF AliveIn
  <2> QED  BY <2>1, <2>2, <2>3
<1>5. Multiple(here, Grain[<<a, d>>])
  <2>1. <<a, d>> \in C
    BY DEF Cells
  <2>2. Multiple(v[<<a, d>>], Grain[<<a, d>>])
    BY <2>1 DEF Kept
  <2> QED  BY <1>4, <2>2
<1> DEFINE e0 == <<a, d>>
           e1 == <<a, d - 2>>
           e2 == <<a - 1, d - 1>>
           e3 == <<a - 2, d>>
<1>6. /\ e0 \in C /\ e1 \in C /\ e2 \in C /\ e3 \in C
      /\ e1 # e2 /\ e1 # e3 /\ e2 # e3 /\ e1 # e0 /\ e2 # e0 /\ e3 # e0
      /\ e0 # <<0, 0>> /\ e1 # <<0, 0>> /\ e2 # <<0, 0>> /\ e3 # <<0, 0>> /\ <<0, 0>> \in C
  BY DEF Cells
<1>7. e1 = <<a - p1.a, d - p1.d>> /\ e2 = <<a - p2.a, d - p2.d>> /\ e3 = <<a - p3.a, d - p3.d>>
  <2> HIDE DEF p1, p2, p3
  <2>1. d - p1.d = d - 2 /\ a - p1.a = a /\ a - p2.a = a - 1 /\ d - p2.d = d - 1
        /\ a - p3.a = a - 2 /\ d - p3.d = d
    BY <1>2
  <2> QED  BY <2>1
<1> HIDE DEF p1, p2, p3, here, C, dp, v, new, w
<1>8. /\ y \in Nat /\ here = of * y
      /\ y * r \in Nat /\ y * q \in Nat /\ y * t \in Nat
      /\ Multiple(y * r, Grain[e1]) /\ Multiple(y * q, Grain[e2]) /\ Multiple(y * t, Grain[e3])
  <2>1. a \in 1..A /\ d \in 1..D
    OBVIOUS
  <2>2. p1.of \in Nat \ {0} /\ p2.of \in Nat \ {0} /\ p3.of \in Nat \ {0}
        /\ p1.chance \in Nat /\ p2.chance \in Nat /\ p3.chance \in Nat
    BY <1>01, <1>2
  <2> HIDE DEF e1, e2, e3
  <2>3. <<a - p1.a, d - p1.d>> \in Cells(A, D) /\ <<a - p2.a, d - p2.d>> \in Cells(A, D)
        /\ <<a - p3.a, d - p3.d>> \in Cells(A, D)
    BY <1>6, <1>7 DEF C
  <2>4. Shared(A, D, a, d, p1, here)
    BY <1>2, <1>4, <1>5, <2>1, <2>2, <2>3, ShareOf
  <2>5. Shared(A, D, a, d, p2, here)
    BY <1>2, <1>4, <1>5, <2>1, <2>2, <2>3, ShareOf
  <2>6. Shared(A, D, a, d, p3, here)
    BY <1>2, <1>4, <1>5, <2>1, <2>2, <2>3, ShareOf
  <2>7. y \in Nat /\ here = of * y /\ y * r \in Nat /\ Multiple(y * r, Grain[e1])
    BY <1>2, <1>7, <2>4 DEF Shared
  <2>8. y * q \in Nat /\ Multiple(y * q, Grain[e2])
    BY <1>2, <1>7, <2>5 DEF Shared
  <2>9. y * t \in Nat /\ Multiple(y * t, Grain[e3])
    BY <1>2, <1>7, <2>6 DEF Shared
  <2> QED  BY <2>7, <2>8, <2>9
<1>9. y = dp[a % 3][d] \div of
  BY DEF here
<1> HIDE DEF y
<1>10. new \in Tables(D) /\ ToThree(new, D, dp, a, d, y, r, q, t)
  <2>1. a \in Nat /\ a >= 2
    OBVIOUS
  <2> QED  BY <1>0, <1>1, <1>8, <1>9, <2>1, SpreadOfTwo DEF new
<1>11. w \in [C -> Nat]
  <2>1. a \in -1..A /\ d - 1 \in -1..D
    OBVIOUS
  <2>2. AliveIn(w, A, D, new, a, d - 1)
    BY <1>10, <2>1, AliveType DEF w
  <2> QED  BY <2>2 DEF AliveIn, C
<1>12. LiveThree(A, D, v, w, a, d, y, r, q, t)
  BY <1>0, <1>01, <1>8, <1>10, AliveAfterTwo DEF w, v
<1>13. /\ w[e0] = 0 /\ w[e1] = v[e1] + y * r /\ w[e2] = v[e2] + y * q /\ w[e3] = v[e3] + y * t
       /\ \A x \in C \ {e1, e2, e3, e0} : v[x] = w[x]
  <2>1. w[e0] = 0
    BY <1>12 DEF LiveThree
  <2>2. w[e1] = v[e1] + y * r
    BY <1>12 DEF LiveThree
  <2>3. w[e2] = v[e2] + y * q
    BY <1>12 DEF LiveThree
  <2>4. w[e3] = v[e3] + y * t
    BY <1>12 DEF LiveThree
  <2>5. ASSUME NEW x \in C \ {e1, e2, e3, e0} PROVE v[x] = w[x]
    <3>1. x[1] \in 0..A /\ x[2] \in 0..D /\ x = <<x[1], x[2]>> /\ v[x] \in Nat
      BY <1>3 DEF C, Cells
    <3> DEFINE i == x[1]
               c == x[2]
    <3>2. ~(i = a /\ c = d) /\ ~(i = a /\ c = d - 2) /\ ~(i = a - 1 /\ c = d - 1)
          /\ ~(i = a - 2 /\ c = d)
      BY <3>1
    <3>3. i \in 0..A /\ c \in 0..D /\ x = <<i, c>>
      BY <3>1
    <3> HIDE DEF i, c
    <3>4. w[<<i, c>>] = v[<<i, c>>] + 0
      BY <1>12, <3>2, <3>3 DEF LiveThree
    <3> QED  BY <3>1, <3>3, <3>4
  <2> QED  BY <2>1, <2>2, <2>3, <2>4, <2>5
<1>14. v[e0] = of * y
  BY <1>4, <1>8
<1> DEFINE u == W.cell
<1>141. u \in [C -> Int] /\ of * u[e0] = r * u[e1] + q * u[e2] + t * u[e3]
  BY <1>1 DEF Fair, C
<1> HIDE DEF e0, e1, e2, e3, u
<1>15. Worth(u, w, C) = Worth(u, v, C) /\ Worth(u, v, C) \in Int
  <2>1. ThreeGet(v, w, C, e0, e1, e2, e3, of, y, r, q, t)
    BY <1>3, <1>6, <1>11, <1>13, <1>14 DEF ThreeGet
  <2> QED  BY <1>01, <1>8, <1>141, <2>1, HandedToThree
<1>16. w[<<0, 0>>] = 0
  <2>1. v[<<0, 0>>] = 0
    BY DEF Kept, v, dp
  <2> QED  BY <1>6, <1>13, <2>1
<1>17. \A x \in C : Multiple(w[x], Grain[x])
  <2> TAKE x \in C
  <2>1. Multiple(v[x], Grain[x]) /\ Grain[x] \in Nat \ {0}
    BY DEF Kept, C, v, dp, Cells, Exact
  <2>2. CASE x = e0
    <3>1. 0 = 0 * Grain[x]
      BY <2>1
    <3> QED  BY <1>13, <2>2, <3>1 DEF Multiple
  <2>3. CASE x = e1
    BY <1>8, <1>13, <2>1, <2>3, MultiplesAdd
  <2>4. CASE x = e2
    BY <1>8, <1>13, <2>1, <2>4, MultiplesAdd
  <2>5. CASE x = e3
    BY <1>8, <1>13, <2>1, <2>5, MultiplesAdd
  <2>6. CASE x \notin {e1, e2, e3, e0}
    BY <1>13, <2>1, <2>6
  <2> QED  BY <2>2, <2>3, <2>4, <2>5, <2>6
<1> DEFINE next == [s EXCEPT !.dp = Spread(@, a, d)]
<1>18. next \in Battling(D) /\ next.dp = new /\ next.a = s.a /\ next.d = s.d
  BY <1>0, <1>10 DEF Battling, new, dp
<1> HIDE DEF next
<1>19. Kept(A, D, W, next, a, d - 1)
  <2>1. One * W.cell[<<A, D>>] <= Worth(u, v, C) + (W.a * s.a + W.d * s.d)
    BY DEF Kept, v, dp, C, u
  <2>2. One * W.cell[<<A, D>>] <= Worth(u, w, C) + (W.a * next.a + W.d * next.d)
    BY <1>15, <1>18, <2>1
  <2> QED  BY <1>16, <1>17, <1>18, <2>2 DEF Kept, w, C, u
<1> QED  BY <1>19 DEF next
LEMMA CellKeepsOne ==
    ASSUME NEW A \in Nat, NEW D \in Nat, Exact(A, D), NEW a \in 1..A, NEW d \in 1..D,
           a = 1 \/ d = 1, NEW W, Fair(A, D, W), NEW s, Kept(A, D, W, s, a, d)
    PROVE  Kept(A, D, W, [s EXCEPT !.dp = Spread(@, a, d)], a, d - 1)
<1> DEFINE C == Cells(A, D)
           dp == s.dp
           new == Spread(dp, a, d)
           v == Alive(A, D, dp, a, d)
           w == Alive(A, D, new, a, d - 1)
           here == dp[a % 3][d]
<1>0. dp \in Tables(D) /\ s \in Battling(D)
  BY DEF Kept, Battling
<1>1. PICK of, r, q : OneFalls(a, d, of, r, q)
  <2>1. a \in Nat \ {0} /\ d \in Nat \ {0}
    OBVIOUS
  <2> QED  BY <2>1, OddsOfOne
<1>01. of \in Nat \ {0} /\ r \in Nat /\ q \in Nat /\ r + q = of
  BY <1>1 DEF OneFalls
<1> DEFINE y == here \div of
           p1 == Outcome(0, 1, r, of)
           p2 == Outcome(1, 0, q, of)
<1>2. /\ p1.a = 0 /\ p1.d = 1 /\ p1.chance = r /\ p1.of = of
      /\ p2.a = 1 /\ p2.d = 0 /\ p2.chance = q /\ p2.of = of
      /\ p1 \in get_probs(a, d) /\ p2 \in get_probs(a, d)
  BY <1>1 DEF Outcome, OneFalls
<1>3. IsFiniteSet(C) /\ AliveIn(v, A, D, dp, a, d) /\ v \in [C -> Nat]
  <2>1. a \in -1..A /\ d \in -1..D
    OBVIOUS
  <2>2. IsFiniteSet(C) /\ AliveIn(v, A, D, dp, a, d)
    BY <1>0, <2>1, AliveType, CellsAreFinite
  <2> HIDE DEF dp, v
  <2> QED  BY <2>2 DEF AliveIn
<1>4. here \in Nat /\ v[<<a, d>>] = here
  <2>1. a % 3 \in 0..2 /\ a \in 0..A /\ d \in 0..D
    OBVIOUS
  <2>2. dp[a % 3] \in [0..D -> Nat]
    BY <1>0, <2>1 DEF Tables
  <2> HIDE DEF dp, v
  <2>3. v[<<a, d>>] = dp[a % 3][d]
    BY <1>3, <2>1 DEF AliveIn
  <2> QED  BY <2>1, <2>2, <2>3
<1>5. Multiple(here, Grain[<<a, d>>])
  <2>1. <<a, d>> \in C
    BY DEF Cells
  <2>2. Multiple(v[<<a, d>>], Grain[<<a, d>>])
    BY <2>1 DEF Kept
  <2> QED  BY <1>4, <2>2
<1> DEFINE e0 == <<a, d>>
           e1 == <<a, d - 1>>
           e2 == <<a - 1, d>>
<1>6. /\ e0 \in C /\ e1 \in C /\ e2 \in C
      /\ e1 # e2 /\ e1 # e0 /\ e2 # e0
      /\ e0 # <<0, 0>> /\ e1 # <<0, 0>> /\ e2 # <<0, 0>> /\ <<0, 0>> \in C
  BY DEF Cells
<1>7. e1 = <<a - p1.a, d - p1.d>> /\ e2 = <<a - p2.a, d - p2.d>>
  <2> HIDE DEF p1, p2
  <2>1. d - p1.d = d - 1 /\ a - p1.a = a /\ a - p2.a = a - 1 /\ d - p2.d = d
    BY <1>2
  <2> QED  BY <2>1
<1> HIDE DEF p1, p2, here, C, dp, v, new, w
<1>8. /\ y \in Nat /\ here = of * y
      /\ y * r \in Nat /\ y * q \in Nat
      /\ Multiple(y * r, Grain[e1]) /\ Multiple(y * q, Grain[e2])
  <2>1. a \in 1..A /\ d \in 1..D
    OBVIOUS
  <2>2. p1.of \in Nat \ {0} /\ p2.of \in Nat \ {0}
        /\ p1.chance \in Nat /\ p2.chance \in Nat
    BY <1>01, <1>2
  <2> HIDE DEF e1, e2
  <2>3. <<a - p1.a, d - p1.d>> \in Cells(A, D) /\ <<a - p2.a, d - p2.d>> \in Cells(A, D)
    BY <1>6, <1>7 DEF C
  <2>4. Shared(A, D, a, d, p1, here)
    BY <1>2, <1>4, <1>5, <2>1, <2>2, <2>3, ShareOf
  <2>5. Shared(A, D, a, d, p2, here)
    BY <1>2, <1>4, <1>5, <2>1, <2>2, <2>3, ShareOf
  <2>7. y \in Nat /\ here = of * y /\ y * r \in Nat /\ Multiple(y * r, Grain[e1])
    BY <1>2, <1>7, <2>4 DEF Shared
  <2>8. y * q \in Nat /\ Multiple(y * q, Grain[e2])
    BY <1>2, <1>7, <2>5 DEF Shared
  <2> QED  BY <2>7, <2>8
<1>9. y = dp[a % 3][d] \div of
  BY DEF here
<1> HIDE DEF y
<1>10. new \in Tables(D) /\ ToTwo(new, D, dp, a, d, y, r, q)
  <2>1. a \in Nat \ {0}
    OBVIOUS
  <2> QED  BY <1>0, <1>1, <1>8, <1>9, <2>1, SpreadOfOne DEF new
<1>11. w \in [C -> Nat]
  <2>1. a \in -1..A /\ d - 1 \in -1..D
    OBVIOUS
  <2>2. AliveIn(w, A, D, new, a, d - 1)
    BY <1>10, <2>1, AliveType DEF w
  <2> QED  BY <2>2 DEF AliveIn, C
<1>12. LiveTwo(A, D, v, w, a, d, y, r, q)
  BY <1>0, <1>01, <1>8, <1>10, AliveAfterOne DEF w, v
<1>13. /\ w[e0] = 0 /\ w[e1] = v[e1] + y * r /\ w[e2] = v[e2] + y * q
       /\ \A x \in C \ {e1, e2, e0} : v[x] = w[x]
  <2>1. w[e0] = 0
    BY <1>12 DEF LiveTwo
  <2>2. w[e1] = v[e1] + y * r
    BY <1>12 DEF LiveTwo
  <2>3. w[e2] = v[e2] + y * q
    BY <1>12 DEF LiveTwo
  <2>5. ASSUME NEW x \in C \ {e1, e2, e0} PROVE v[x] = w[x]
    <3>1. x[1] \in 0..A /\ x[2] \in 0..D /\ x = <<x[1], x[2]>> /\ v[x] \in Nat
      BY <1>3 DEF C, Cells
    <3> DEFINE i == x[1]
               c == x[2]
    <3>2. ~(i = a /\ c = d) /\ ~(i = a /\ c = d - 1) /\ ~(i = a - 1 /\ c = d)
      BY <3>1
    <3>3. i \in 0..A /\ c \in 0..D /\ x = <<i, c>>
      BY <3>1
    <3> HIDE DEF i, c
    <3>4. w[<<i, c>>] = v[<<i, c>>] + 0
      BY <1>12, <3>2, <3>3 DEF LiveTwo
    <3> QED  BY <3>1, <3>3, <3>4
  <2> QED  BY <2>1, <2>2, <2>3, <2>5
<1>14. v[e0] = of * y
  BY <1>4, <1>8
<1> DEFINE u == W.cell
<1>141. u \in [C -> Int] /\ of * u[e0] = r * u[e1] + q * u[e2]
  BY <1>1 DEF Fair, C
<1> HIDE DEF e0, e1, e2, u
<1>15. Worth(u, w, C) = Worth(u, v, C) /\ Worth(u, v, C) \in Int
  <2>1. TwoGet(v, w, C, e0, e1, e2, of, y, r, q)
    BY <1>3, <1>6, <1>11, <1>13, <1>14 DEF TwoGet
  <2> QED  BY <1>01, <1>8, <1>141, <2>1, HandedToTwo
<1>16. w[<<0, 0>>] = 0
  <2>1. v[<<0, 0>>] = 0
    BY DEF Kept, v, dp
  <2> QED  BY <1>6, <1>13, <2>1
<1>17. \A x \in C : Multiple(w[x], Grain[x])
  <2> TAKE x \in C
  <2>1. Multiple(v[x], Grain[x]) /\ Grain[x] \in Nat \ {0}
    BY DEF Kept, C, v, dp, Cells, Exact
  <2>2. CASE x = e0
    <3>1. 0 = 0 * Grain[x]
      BY <2>1
    <3> QED  BY <1>13, <2>2, <3>1 DEF Multiple
  <2>3. CASE x = e1
    BY <1>8, <1>13, <2>1, <2>3, MultiplesAdd
  <2>4. CASE x = e2
    BY <1>8, <1>13, <2>1, <2>4, MultiplesAdd
  <2>6. CASE x \notin {e1, e2, e0}
    BY <1>13, <2>1, <2>6
  <2> QED  BY <2>2, <2>3, <2>4, <2>6
<1> DEFINE next == [s EXCEPT !.dp = Spread(@, a, d)]
<1>18. next \in Battling(D) /\ next.dp = new /\ next.a = s.a /\ next.d = s.d
  BY <1>0, <1>10 DEF Battling, new, dp
<1> HIDE DEF next
<1>19. Kept(A, D, W, next, a, d - 1)
  <2>1. One * W.cell[<<A, D>>] <= Worth(u, v, C) + (W.a * s.a + W.d * s.d)
    BY DEF Kept, v, dp, C, u
  <2>2. One * W.cell[<<A, D>>] <= Worth(u, w, C) + (W.a * next.a + W.d * next.d)
    BY <1>15, <1>18, <2>1
  <2> QED  BY <1>16, <1>17, <1>18, <2>2 DEF Kept, w, C, u
<1> QED  BY <1>19 DEF next

\* What is live when a column is done with nothing handed on.
Passed(A, D, u, v, w, e, here) ==
    /\ v[e] = here /\ here \in Nat /\ e \in Cells(A, D)
    /\ w[e] = 0 /\ \A x \in Cells(A, D) : x # e => w[x] = v[x]
    /\ Worth(u, w, Cells(A, D)) = Worth(u, v, Cells(A, D)) - here * u[e]
    /\ Worth(u, v, Cells(A, D)) \in Int
LEMMA ColumnDone ==
    ASSUME NEW A \in Nat, NEW D \in Nat, NEW dp \in Tables(D), NEW a \in 0..A, NEW d \in 0..D,
           NEW u \in [Cells(A, D) -> Int]
    PROVE  Passed(A, D, u, Alive(A, D, dp, a, d), Alive(A, D, dp, a, d - 1), <<a, d>>, dp[a % 3][d])
<1> DEFINE v == Alive(A, D, dp, a, d)
           w == Alive(A, D, dp, a, d - 1)
           C == Cells(A, D)
           e == <<a, d>>
           here == dp[a % 3][d]
<1>1. AliveIn(v, A, D, dp, a, d) /\ AliveIn(w, A, D, dp, a, d - 1) /\ IsFiniteSet(C)
  <2>1. a \in -1..A /\ d \in -1..D /\ d - 1 \in -1..D
    OBVIOUS
  <2> QED  BY <2>1, AliveType, CellsAreFinite
<1> HIDE DEF v, w
<1>2. v \in [C -> Nat] /\ w \in [C -> Nat]
  BY <1>1 DEF AliveIn
<1>3. e \in C
  BY DEF Cells
<1>4. here \in Nat
  <2>1. a % 3 \in 0..2
    OBVIOUS
  <2>2. dp[a % 3] \in [0..D -> Nat]
    BY <2>1 DEF Tables
  <2> QED  BY <2>2
<1>5. v[e] = here /\ w[e] = 0
  BY <1>1 DEF AliveIn
<1>6. ASSUME NEW x \in C, x # e PROVE w[x] = v[x]
  <2> DEFINE i == x[1]
             c == x[2]
  <2>1. i \in 0..A /\ c \in 0..D /\ x = <<i, c>> /\ ~(i = a /\ c = d)
    BY <1>6 DEF Cells
  <2> HIDE DEF i, c
  <2>2. v[<<i, c>>] = IF a - 2 <= i /\ i <= a /\ (i < a \/ c <= d) THEN dp[i % 3][c] ELSE 0
    BY <1>1, <2>1 DEF AliveIn
  <2>3. w[<<i, c>>] = IF a - 2 <= i /\ i <= a /\ (i < a \/ c <= d - 1) THEN dp[i % 3][c] ELSE 0
    BY <1>1, <2>1 DEF AliveIn
  <2>4. (i < a \/ c <= d) /\ i <= a <=> (i < a \/ c <= d - 1) /\ i <= a
    BY <2>1
  <2>5. v[<<i, c>>] = w[<<i, c>>]
    BY <2>2, <2>3, <2>4
  <2> QED  BY <2>1, <2>5
<1> HIDE DEF e, here, C
<1>7. Worth(u, w, C) = Worth(u, v, C) - here * u[e] /\ Worth(u, v, C) \in Int
  <2>1. {e} \in SUBSET C /\ \A x \in C \ {e} : v[x] = w[x]
    BY <1>3, <1>6
  <2>2. u \in [C -> Int]
    BY DEF C
  <2>3. PICK f, g : Weighed(f, g, u, v, w, C, {e})
    BY <1>1, <1>2, <2>1, <2>2, WorthChanged
  <2>4. /\ \A x \in C : f[x] \in Int /\ g[x] \in Int
        /\ \A x \in C \ {e} : f[x] = g[x]
        /\ Worth(u, v, C) = SumOver(f, C) /\ Worth(u, w, C) = SumOver(g, C) /\ Worth(u, v, C) \in Int
    BY <2>3 DEF Weighed, Changed
  <2>5. SumOver(g, C) = SumOver(f, C) - f[e] + g[e]
    BY <1>1, <1>3, <2>4, SumChange
  <2>6. f[e] = here * u[e] /\ g[e] = 0 * u[e] /\ u[e] \in Int
    BY <1>3, <1>5, <2>2, <2>3 DEF Weighed
  <2>7. g[e] = 0 /\ f[e] \in Int
    BY <1>3, <2>4, <2>6
  <2> QED  BY <2>4, <2>5, <2>6, <2>7
<1>8. Passed(A, D, u, v, w, e, here)
  BY <1>3, <1>4, <1>5, <1>6, <1>7 DEF Passed, C
<1> QED  BY <1>8 DEF v, w, e, here

LEMMA ColumnKeeps ==
    ASSUME NEW A \in Nat, NEW D \in Nat, Exact(A, D), NEW a \in 0..A, NEW d \in 0..D,
           NEW W, Fair(A, D, W), NEW s,
           Kept(A, D, W, s, a, d), NEW next \in Battling(D), next.dp = s.dp,
           W.a * s.a + W.d * s.d + s.dp[a % 3][d] * W.cell[<<a, d>>] <= W.a * next.a + W.d * next.d
    PROVE  Kept(A, D, W, next, a, d - 1)
<1> DEFINE C == Cells(A, D)
           dp == s.dp
           v == Alive(A, D, dp, a, d)
           w == Alive(A, D, dp, a, d - 1)
           e == <<a, d>>
           here == dp[a % 3][d]
           u == W.cell
<1>0. u \in [C -> Int] /\ W.a \in Int /\ W.d \in Int /\ One \in Int
  BY BattleTableAssumption DEF Fair
<1>1. dp \in Tables(D) /\ s.a \in Nat /\ s.d \in Nat /\ next.a \in Nat /\ next.d \in Nat
  BY DEF Kept, Battling
<1> HIDE DEF dp
<1>2. Passed(A, D, u, v, w, e, here)
  <2> HIDE DEF u
  <2> QED  BY <1>0, <1>1, ColumnDone
<1>3. /\ v[<<0, 0>>] = 0 /\ \A x \in C : Multiple(v[x], Grain[x])
      /\ One * u[<<A, D>>] <= Worth(u, v, C) + (W.a * s.a + W.d * s.d)
  BY DEF Kept, dp
<1>4. next.dp = dp /\ W.a * s.a + W.d * s.d + here * u[e] <= W.a * next.a + W.d * next.d
  BY DEF dp
<1> HIDE DEF v, w, e, here, u
<1>5. w[<<0, 0>>] = 0
  <2>1. <<0, 0>> \in Cells(A, D)
    BY DEF Cells
  <2> QED  BY <1>2, <1>3, <2>1 DEF Passed
<1>6. \A x \in C : Multiple(w[x], Grain[x])
  <2> TAKE x \in C
  <2>1. Grain[x] \in Nat
    BY DEF Exact, Cells
  <2>2. CASE x = e
    <3>1. 0 = 0 * Grain[x]
      BY <2>1
    <3> QED  BY <1>2, <2>2, <3>1 DEF Multiple, Passed
  <2>3. CASE x # e
    BY <1>2, <1>3, <2>3 DEF Passed
  <2> QED  BY <2>2, <2>3
<1>7. One * u[<<A, D>>] <= Worth(u, w, C) + (W.a * next.a + W.d * next.d)
  <2> DEFINE all == One * u[<<A, D>>]
             had == Worth(u, v, C)
             has == Worth(u, w, C)
             won == W.a * s.a + W.d * s.d
             wins == W.a * next.a + W.d * next.d
             part == here * u[e]
  <2>1. all \in Int /\ part \in Int
    <3>1. u[<<A, D>>] \in Int /\ u[e] \in Int /\ here \in Int
      BY <1>0, <1>2 DEF Passed, Cells
    <3> QED  BY <1>0, <3>1
  <2>2. won \in Int /\ wins \in Int
    BY <1>0, <1>1
  <2>3. has = had - part /\ had \in Int
    BY <1>2 DEF Passed
  <2>4. all <= had + won /\ won + part <= wins
    BY <1>3, <1>4
  <2> HIDE DEF all, had, has, won, wins, part
  <2>5. all <= has + wins
    BY <2>1, <2>2, <2>3, <2>4
  <2> QED  BY <2>5 DEF all, has, wins
<1> QED  BY <1>4, <1>5, <1>6, <1>7 DEF Kept, w, u

\* More of what is worth more.
LEMMA TimesMore ==
    ASSUME NEW n \in Nat, NEW x \in Int, NEW y \in Int, x <= y
    PROVE  n * x <= n * y
<1>1. y - x \in Nat
  OBVIOUS
<1>2. n * (y - x) \in Nat
  BY <1>1
<1>3. n * (y - x) = n * y - n * x
  OBVIOUS
<1>4. n * y \in Int /\ n * x \in Int
  OBVIOUS
<1> QED  BY <1>2, <1>3, <1>4

LEMMA CellKeeps ==
    ASSUME NEW A \in Nat, NEW D \in Nat, Exact(A, D), NEW a \in 0..A, NEW d \in 0..D,
           NEW W, Fair(A, D, W), NEW s, Kept(A, D, W, s, a, d)
    PROVE  Kept(A, D, W, Cell(s, a, d), a, d - 1)
<1> DEFINE here == s.dp[a % 3][d]
           u == W.cell[<<a, d>>]
<1>0. s \in Battling(D) /\ s.dp \in Tables(D) /\ s.a \in Nat /\ s.d \in Nat
  BY DEF Kept, Battling
<1>01. W.a \in Int /\ W.d \in Int /\ u \in Int
  <2>1. <<a, d>> \in Cells(A, D)
    BY DEF Cells
  <2> QED  BY <2>1 DEF Fair
<1>1. here \in Nat /\ (<<a, d>> = <<0, 0>> => here = 0)
  <2> DEFINE dp == s.dp
             v == Alive(A, D, dp, a, d)
             w == Alive(A, D, dp, a, d - 1)
             all == W.cell
  <2>1. dp \in Tables(D) /\ all \in [Cells(A, D) -> Int]
    BY <1>0 DEF Fair
  <2>2. v[<<0, 0>>] = 0
    BY DEF Kept
  <2> HIDE DEF dp, all
  <2>3. Passed(A, D, all, v, w, <<a, d>>, dp[a % 3][d])
    BY <2>1, ColumnDone
  <2> HIDE DEF v, w
  <2>4. dp[a % 3][d] \in Nat /\ v[<<a, d>>] = dp[a % 3][d]
    BY <2>3 DEF Passed
  <2> QED  BY <2>2, <2>4 DEF dp
<1>2. CASE here = 0
  <2>1. Cell(s, a, d) = s
    BY <1>2 DEF Cell
  <2>2. W.a * s.a + W.d * s.d + here * u <= W.a * s.a + W.d * s.d
    <3> DEFINE won == W.a * s.a + W.d * s.d
    <3>1. won \in Int /\ here * u = 0
      BY <1>0, <1>01, <1>2
    <3> HIDE DEF won
    <3>2. won + here * u <= won
      BY <3>1
    <3> QED  BY <3>2 DEF won
  <2> QED  BY <1>0, <2>1, <2>2, ColumnKeeps
<1>3. CASE here # 0 /\ a = 0
  <2>1. d \in 1..D
    BY <1>1, <1>3
  <2> DEFINE next == [s EXCEPT !.d = @ + d * here]
  <2>2. d * here \in Nat
    BY <1>1, <2>1
  <2>3. next \in Battling(D) /\ next.dp = s.dp /\ next.a = s.a /\ next.d = s.d + d * here
    BY <1>0, <2>2 DEF Battling
  <2>4. Cell(s, a, d) = next
    BY <1>3 DEF Cell
  <2> HIDE DEF next
  <2>5. here * u <= here * (W.d * d)
    <3>1. u <= W.d * d /\ W.d * d \in Int
      BY <1>01, <1>3, <2>1 DEF Fair
    <3> HIDE DEF here, u
    <3> QED  BY <1>01, <1>1, <3>1, TimesMore
  <2>6. W.d * (s.d + d * here) = W.d * s.d + here * (W.d * d)
    <3> HIDE DEF here
    <3> QED  BY <1>0, <1>01, <1>1, <2>1
  <2>7. W.a * s.a + W.d * s.d + here * u <= W.a * next.a + W.d * next.d
    <3> DEFINE p == W.a * s.a
               q == W.d * s.d
               r == here * u
               t == here * (W.d * d)
    <3>1. p \in Int /\ q \in Int /\ r \in Int /\ t \in Int
      BY <1>0, <1>01, <1>1, <2>1
    <3>2. W.a * next.a = p /\ W.d * next.d = q + t /\ r <= t
      BY <2>3, <2>5, <2>6
    <3> HIDE DEF p, q, r, t
    <3>3. p + q + r <= W.a * next.a + W.d * next.d
      BY <3>1, <3>2
    <3> QED  BY <3>3 DEF p, q, r
  <2> QED  BY <2>3, <2>4, <2>7, ColumnKeeps
<1>4. CASE here # 0 /\ a # 0 /\ d = 0
  <2>1. a \in 1..A
    BY <1>4
  <2> DEFINE next == [s EXCEPT !.a = @ + a * here]
  <2>2. a * here \in Nat
    BY <1>1, <2>1
  <2>3. next \in Battling(D) /\ next.dp = s.dp /\ next.a = s.a + a * here /\ next.d = s.d
    BY <1>0, <2>2 DEF Battling
  <2>4. Cell(s, a, d) = next
    BY <1>4 DEF Cell
  <2> HIDE DEF next
  <2>5. here * u <= here * (W.a * a)
    <3>1. u <= W.a * a /\ W.a * a \in Int
      BY <1>01, <1>4, <2>1 DEF Fair
    <3> HIDE DEF here, u
    <3> QED  BY <1>01, <1>1, <3>1, TimesMore
  <2>6. W.a * (s.a + a * here) = W.a * s.a + here * (W.a * a)
    <3> HIDE DEF here
    <3> QED  BY <1>0, <1>01, <1>1, <2>1
  <2>7. W.a * s.a + W.d * s.d + here * u <= W.a * next.a + W.d * next.d
    <3> DEFINE p == W.a * s.a
               q == W.d * s.d
               r == here * u
               t == here * (W.a * a)
    <3>1. p \in Int /\ q \in Int /\ r \in Int /\ t \in Int
      BY <1>0, <1>01, <1>1, <2>1
    <3>2. W.a * next.a = p + t /\ W.d * next.d = q /\ r <= t
      BY <2>3, <2>5, <2>6
    <3> HIDE DEF p, q, r, t
    <3>3. p + q + r <= W.a * next.a + W.d * next.d
      BY <3>1, <3>2
    <3> QED  BY <3>3 DEF p, q, r
  <2> QED  BY <2>3, <2>4, <2>7, ColumnKeeps
<1>5. CASE here # 0 /\ a # 0 /\ d # 0
  <2>1. Cell(s, a, d) = [s EXCEPT !.dp = Spread(@, a, d)]
    BY <1>5 DEF Cell
  <2>2. CASE a >= 2 /\ d >= 2
    <3>1. a \in 2..A /\ d \in 2..D
      BY <2>2
    <3> QED  BY <2>1, <3>1, CellKeepsTwo
  <2>3. CASE a = 1 \/ d = 1
    <3>1. a \in 1..A /\ d \in 1..D
      BY <1>5
    <3> QED  BY <2>1, <2>3, <3>1, CellKeepsOne
  <2>4. (a >= 2 /\ d >= 2) \/ (a = 1 \/ d = 1)
    BY <1>5
  <2> QED  BY <2>2, <2>3, <2>4
<1> QED  BY <1>2, <1>3, <1>4, <1>5

\* A row.
Worked(s, a, last, m, f) ==
    f = [i \in 0..m |-> IF i = 0 THEN s ELSE Cell(f[i - 1], a, last + 1 - i)]
LEMMA WorkedRuns ==
    ASSUME NEW s, NEW a, NEW last
    PROVE  \A m \in Nat : \E f : Worked(s, a, last, m, f)
<1> DEFINE good == {m \in Nat : \E f : Worked(s, a, last, m, f)}
<1>1. 0 \in good
  <2> DEFINE f == [i \in 0..0 |-> s]
  <2>1. f = [i \in 0..0 |-> IF i = 0 THEN s ELSE Cell(f[i - 1], a, last + 1 - i)]
    BY \A i \in 0..0 : i = 0
  <2>2. Worked(s, a, last, 0, f)
    BY <2>1 DEF Worked
  <2> QED  BY <2>2
<1>2. ASSUME NEW m \in Nat, m \in good PROVE m + 1 \in good
  <2>1. PICK f : Worked(s, a, last, m, f)
    BY <1>2
  <2> DEFINE next == Cell(f[m], a, last + 1 - (m + 1))
             g == [i \in 0..m + 1 |-> IF i = m + 1 THEN next ELSE f[i]]
  <2>2. \A i \in 0..m + 1 : g[i] = IF i = 0 THEN s ELSE Cell(g[i - 1], a, last + 1 - i)
    <3> TAKE i \in 0..m + 1
    <3>1. CASE i = m + 1
      <4>1. i # 0 /\ i - 1 = m /\ m \in 0..m + 1 /\ m # m + 1
        BY <3>1
      <4>2. g[i] = next /\ g[i - 1] = f[m]
        BY <3>1, <4>1
      <4> HIDE DEF g
      <4> QED  BY <3>1, <4>1, <4>2
    <3>2. CASE i \in 0..m
      <4>1. i # m + 1 /\ (i # 0 => i - 1 \in 0..m /\ i - 1 # m + 1 /\ i - 1 \in 0..m + 1)
        BY <3>2
      <4>2. g[i] = f[i] /\ (i # 0 => g[i - 1] = f[i - 1])
        BY <4>1
      <4>3. f[i] = IF i = 0 THEN s ELSE Cell(f[i - 1], a, last + 1 - i)
        BY <2>1, <3>2 DEF Worked
      <4> HIDE DEF g
      <4> QED  BY <4>2, <4>3
    <3> QED  BY <3>1, <3>2
  <2>3. Worked(s, a, last, m + 1, g)
    <3>1. g = [i \in 0..m + 1 |-> g[i]]
      OBVIOUS
    <3> HIDE DEF g
    <3>2. g = [i \in 0..m + 1 |-> IF i = 0 THEN s ELSE Cell(g[i - 1], a, last + 1 - i)]
      BY <2>2, <3>1
    <3> QED  BY <3>2 DEF Worked
  <2> QED  BY <2>3
<1> HIDE DEF good
<1>3. \A m \in Nat : m \in good
  BY <1>1, <1>2, NumberInduction
<1> QED  BY <1>3 DEF good

LEMMA RowKeeps ==
    ASSUME NEW A \in Nat, NEW D \in Nat, Exact(A, D), NEW a \in 0..A,
           NEW W, Fair(A, D, W), NEW s, Kept(A, D, W, s, a, D)
    PROVE  Kept(A, D, W, Row(s, a, D), a - 1, D)
<1> DEFINE f == CHOOSE f : Worked(s, a, D, D + 1, f)
           t == f[D + 1]
<1>1. Row(s, a, D) = [t EXCEPT !.dp = Cleared(@, a)]
  BY DEF Row, Worked
<1>2. Worked(s, a, D, D + 1, f)
  <2>1. D + 1 \in Nat
    OBVIOUS
  <2>2. \E g : Worked(s, a, D, D + 1, g)
    BY <2>1, WorkedRuns
  <2> QED  BY <2>2
<1> HIDE DEF f
<1>3. f[0] = s /\ \A i \in 1..D + 1 : f[i] = Cell(f[i - 1], a, D + 1 - i)
  BY <1>2 DEF Worked
<1> DEFINE good == {i \in Nat : i <= D + 1 => Kept(A, D, W, f[i], a, D - i)}
<1>4. 0 \in good
  BY <1>3
<1>5. ASSUME NEW i \in Nat, i \in good PROVE i + 1 \in good
  <2> SUFFICES ASSUME i + 1 <= D + 1 PROVE Kept(A, D, W, f[i + 1], a, D - (i + 1))
    OBVIOUS
  <2>1. D - i \in 0..D /\ i + 1 \in 1..D + 1 /\ (i + 1) - 1 = i /\ D + 1 - (i + 1) = D - i
        /\ D - (i + 1) = (D - i) - 1
    OBVIOUS
  <2>2. f[i + 1] = Cell(f[(i + 1) - 1], a, D + 1 - (i + 1))
    BY <1>3, <2>1
  <2>3. f[i + 1] = Cell(f[i], a, D - i)
    BY <2>1, <2>2
  <2>4. Kept(A, D, W, f[i], a, D - i)
    BY <1>5
  <2>5. Kept(A, D, W, Cell(f[i], a, D - i), a, (D - i) - 1)
    BY <2>1, <2>4, CellKeeps
  <2> QED  BY <2>1, <2>3, <2>5
<1> HIDE DEF good
<1>6. \A i \in Nat : i \in good
  BY <1>4, <1>5, NumberInduction
<1>7. Kept(A, D, W, t, a, -1)
  <2>1. D + 1 \in good /\ D - (D + 1) = -1
    BY <1>6
  <2> QED  BY <2>1 DEF good
<1> HIDE DEF t
<1> DEFINE u == [t EXCEPT !.dp = Cleared(@, a)]
           old == t.dp
           new == Cleared(old, a)
<1>8. t \in Battling(D) /\ old \in Tables(D)
  BY <1>7 DEF Kept, Battling
<1>9. /\ new \in Tables(D)
      /\ \A slot \in 0..2, c \in 0..D : new[slot][c] = IF slot = a % 3 THEN 0 ELSE old[slot][c]
  <2>1. a % 3 \in 0..2
    OBVIOUS
  <2> HIDE DEF old
  <2>2. new = [slot \in 0..2 |-> IF slot = a % 3 THEN [c \in 0..D |-> 0] ELSE old[slot]]
    BY <1>8, <2>1 DEF Tables, Cleared
  <2> HIDE DEF new
  <2>3. \A slot \in 0..2 : new[slot] = IF slot = a % 3 THEN [c \in 0..D |-> 0] ELSE old[slot]
    BY <2>2
  <2>4. \A slot \in 0..2 : old[slot] \in [0..D -> Nat]
    BY <1>8 DEF Tables
  <2>5. [c \in 0..D |-> 0] \in [0..D -> Nat]
    OBVIOUS
  <2>6. new \in Tables(D)
    BY <2>2, <2>4, <2>5 DEF Tables
  <2> QED  BY <2>3, <2>6
<1>10. u \in Battling(D) /\ u.dp = new /\ u.a = t.a /\ u.d = t.d
  <2> HIDE DEF new
  <2>1. u = [t EXCEPT !.dp = new]
    BY DEF new
  <2> HIDE DEF u
  <2> QED  BY <1>8, <1>9, <2>1 DEF Battling
<1>11. Row(s, a, D) = u
  BY <1>1
<1> HIDE DEF u, old, new
<1>12. ASSUME NEW i \in 0..A, NEW c \in 0..D
       PROVE  Alive(A, D, new, a - 1, D)[<<i, c>>] = Alive(A, D, old, a, -1)[<<i, c>>]
  <2>1. AliveIn(Alive(A, D, new, a - 1, D), A, D, new, a - 1, D)
    <3>1. a - 1 \in -1..A /\ D \in -1..D
      OBVIOUS
    <3> QED  BY <1>9, <3>1, AliveType
  <2>2. AliveIn(Alive(A, D, old, a, -1), A, D, old, a, -1)
    <3>1. a \in -1..A /\ -1 \in -1..D
      OBVIOUS
    <3> QED  BY <1>8, <3>1, AliveType
  <2> DEFINE v == Alive(A, D, old, a, -1)
             w == Alive(A, D, new, a - 1, D)
  <2> HIDE DEF v, w
  <2>3. v[<<i, c>>] = IF a - 2 <= i /\ i <= a /\ (i < a \/ c <= -1) THEN old[i % 3][c] ELSE 0
    BY <2>2 DEF AliveIn, v
  <2>4. w[<<i, c>>] = IF a - 1 - 2 <= i /\ i <= a - 1 /\ (i < a - 1 \/ c <= D) THEN new[i % 3][c] ELSE 0
    BY <2>1 DEF AliveIn, w
  <2>5. new[i % 3][c] = IF i % 3 = a % 3 THEN 0 ELSE old[i % 3][c]
    <3>1. i % 3 \in 0..2
      OBVIOUS
    <3> QED  BY <1>9, <3>1
  <2>6. CASE i = a - 3
    <3>1. i % 3 = a % 3
      BY <2>6
    <3> QED  BY <2>3, <2>4, <2>5, <2>6, <3>1 DEF v, w
  <2>7. CASE a - 2 <= i /\ i < a
    <3>1. i % 3 # a % 3
      BY <2>7
    <3>2. w[<<i, c>>] = old[i % 3][c]
      BY <2>4, <2>5, <2>7, <3>1
    <3>3. v[<<i, c>>] = old[i % 3][c]
      BY <2>3, <2>7
    <3> QED  BY <3>2, <3>3 DEF v, w
  <2>8. CASE i < a - 3 \/ i >= a
    <3>1. w[<<i, c>>] = 0
      BY <2>4, <2>8
    <3>2. v[<<i, c>>] = 0
      BY <2>3, <2>8
    <3> QED  BY <3>1, <3>2 DEF v, w
  <2> QED  BY <2>6, <2>7, <2>8
<1>13. Kept(A, D, W, u, a - 1, D)
  <2>1. a \in -1..A /\ -1 \in -1..D /\ a - 1 \in -1..A /\ D \in -1..D
    OBVIOUS
  <2>2. \A i \in 0..A, c \in 0..D :
            Alive(A, D, u.dp, a - 1, D)[<<i, c>>] = Alive(A, D, t.dp, a, -1)[<<i, c>>]
    BY <1>10, <1>12 DEF old
  <2>3. SameAlive(A, D, t.dp, a, -1, u.dp, a - 1, D)
    BY <2>2 DEF SameAlive
  <2> QED  BY <1>7, <1>10, <2>1, <2>3, KeptBySame
<1> QED  BY <1>11, <1>13

\* A whole battle.
Fought(A, D, m, f) ==
    f = [i \in 0..m |-> IF i = 0 THEN StartOf(A, D) ELSE Row(f[i - 1], A + 1 - i, D)]
LEMMA FoughtRuns ==
    ASSUME NEW A, NEW D
    PROVE  \A m \in Nat : \E f : Fought(A, D, m, f)
<1> DEFINE first == StartOf(A, D)
           good == {m \in Nat : \E f : Fought(A, D, m, f)}
<1>1. 0 \in good
  <2> DEFINE f == [i \in 0..0 |-> first]
  <2>1. f = [i \in 0..0 |-> IF i = 0 THEN first ELSE Row(f[i - 1], A + 1 - i, D)]
    BY \A i \in 0..0 : i = 0
  <2>2. Fought(A, D, 0, f)
    BY <2>1 DEF Fought
  <2> QED  BY <2>2
<1>2. ASSUME NEW m \in Nat, m \in good PROVE m + 1 \in good
  <2>1. PICK f : Fought(A, D, m, f)
    BY <1>2
  <2> DEFINE next == Row(f[m], A + 1 - (m + 1), D)
             g == [i \in 0..m + 1 |-> IF i = m + 1 THEN next ELSE f[i]]
  <2> HIDE DEF first
  <2>2. \A i \in 0..m + 1 : g[i] = IF i = 0 THEN first ELSE Row(g[i - 1], A + 1 - i, D)
    <3> TAKE i \in 0..m + 1
    <3>1. CASE i = m + 1
      <4>1. i # 0 /\ i - 1 = m /\ m \in 0..m + 1 /\ m # m + 1
        BY <3>1
      <4>2. g[i] = next /\ g[i - 1] = f[m]
        BY <3>1, <4>1
      <4> HIDE DEF g
      <4> QED  BY <3>1, <4>1, <4>2
    <3>2. CASE i \in 0..m
      <4>1. i # m + 1 /\ (i # 0 => i - 1 \in 0..m /\ i - 1 # m + 1 /\ i - 1 \in 0..m + 1)
        BY <3>2
      <4>2. g[i] = f[i] /\ (i # 0 => g[i - 1] = f[i - 1])
        BY <4>1
      <4>3. f[i] = IF i = 0 THEN first ELSE Row(f[i - 1], A + 1 - i, D)
        BY <2>1, <3>2 DEF Fought, first
      <4> HIDE DEF g
      <4> QED  BY <4>2, <4>3
    <3> QED  BY <3>1, <3>2
  <2>3. Fought(A, D, m + 1, g)
    <3>1. g = [i \in 0..m + 1 |-> g[i]]
      OBVIOUS
    <3> HIDE DEF g
    <3>2. g = [i \in 0..m + 1 |-> IF i = 0 THEN first ELSE Row(g[i - 1], A + 1 - i, D)]
      BY <2>2, <3>1
    <3> QED  BY <3>2 DEF Fought, first
  <2> QED  BY <2>3
<1> HIDE DEF good
<1>3. \A m \in Nat : m \in good
  BY <1>1, <1>2, NumberInduction
<1> QED  BY <1>3 DEF good

LEMMA WorthIsKept ==
    ASSUME NEW A \in Nat \ {0}, NEW D \in Nat \ {0}, Exact(A, D), NEW W, Fair(A, D, W)
    PROVE  /\ Expectation(A, D).a \in Nat /\ Expectation(A, D).d \in Nat
           /\ One * W.cell[<<A, D>>] <= W.a * Expectation(A, D).a + W.d * Expectation(A, D).d
<1> DEFINE f == CHOOSE f : Fought(A, D, A + 1, f)
           e == f[A + 1]
<1>0. A \in Nat /\ D \in Nat /\ One \in Nat \ {0}
  BY BattleTableAssumption
<1>1. Expectation(A, D) = e
  BY DEF Expectation, Fought, StartOf
<1>2. Fought(A, D, A + 1, f)
  <2>1. A + 1 \in Nat
    OBVIOUS
  <2>2. \E g : Fought(A, D, A + 1, g)
    BY <2>1, FoughtRuns
  <2> QED  BY <2>2
<1> HIDE DEF f
<1>3. f[0] = StartOf(A, D) /\ \A i \in 1..A + 1 : f[i] = Row(f[i - 1], A + 1 - i, D)
  BY <1>2 DEF Fought
<1> DEFINE good == {i \in Nat : i <= A + 1 => Kept(A, D, W, f[i], A - i, D)}
<1>4. 0 \in good
  <2>1. Kept(A, D, W, StartOf(A, D), A, D)
    BY <1>0, KeptAtStart
  <2>2. A - 0 = A
    OBVIOUS
  <2> QED  BY <1>3, <2>1, <2>2
<1>5. ASSUME NEW i \in Nat, i \in good PROVE i + 1 \in good
  <2> SUFFICES ASSUME i + 1 <= A + 1 PROVE Kept(A, D, W, f[i + 1], A - (i + 1), D)
    OBVIOUS
  <2>1. A - i \in 0..A /\ i + 1 \in 1..A + 1 /\ (i + 1) - 1 = i /\ A + 1 - (i + 1) = A - i
        /\ A - (i + 1) = (A - i) - 1
    OBVIOUS
  <2>2. f[i + 1] = Row(f[(i + 1) - 1], A + 1 - (i + 1), D)
    BY <1>3, <2>1
  <2>3. f[i + 1] = Row(f[i], A - i, D)
    BY <2>1, <2>2
  <2>4. Kept(A, D, W, f[i], A - i, D)
    BY <1>5
  <2>5. Kept(A, D, W, Row(f[i], A - i, D), (A - i) - 1, D)
    BY <1>0, <2>1, <2>4, RowKeeps
  <2> QED  BY <2>1, <2>3, <2>5
<1> HIDE DEF good
<1>6. \A i \in Nat : i \in good
  BY <1>4, <1>5, NumberInduction
<1>7. Kept(A, D, W, e, -1, D)
  <2>1. A + 1 \in good /\ A - (A + 1) = -1
    BY <1>6
  <2> QED  BY <2>1 DEF good
<1> HIDE DEF e
<1> DEFINE v == Alive(A, D, e.dp, -1, D)
<1>8. e.dp \in Tables(D) /\ e.a \in Nat /\ e.d \in Nat
  BY <1>7 DEF Kept, Battling
<1>9. \A x \in Cells(A, D) : v[x] = 0
  BY DEF Alive, Cells
<1>10. Worth(W.cell, v, Cells(A, D)) = 0
  <2> DEFINE h == [x \in Cells(A, D) |-> v[x] * W.cell[x]]
  <2>1. \A x \in Cells(A, D) : h[x] = 0
    <3> TAKE x \in Cells(A, D)
    <3>1. W.cell[x] \in Int
      BY DEF Fair
    <3>2. 0 * W.cell[x] = 0
      BY <3>1
    <3> HIDE DEF v
    <3> QED  BY <1>9, <3>2
  <2>2. Worth(W.cell, v, Cells(A, D)) = SumOver(h, Cells(A, D))
    BY DEF Worth
  <2> HIDE DEF h
  <2> QED  BY <1>0, <2>1, <2>2, CellsAreFinite, SumOfZeros
<1>11. One * W.cell[<<A, D>>] <= Worth(W.cell, v, Cells(A, D)) + (W.a * e.a + W.d * e.d)
  BY <1>7 DEF Kept
<1>12. One * W.cell[<<A, D>>] <= W.a * e.a + W.d * e.d
  <2>1. W.a * e.a + W.d * e.d \in Int
    BY <1>8 DEF Fair
  <2> QED  BY <1>10, <1>11, <2>1
<1> QED  BY <1>1, <1>8, <1>12

\* An army of either side is worth one, and so is every battle.
LEMMA ArmiesAreLeft ==
    ASSUME NEW A \in Nat \ {0}, NEW D \in Nat \ {0}, Exact(A, D)
    PROVE  /\ Expectation(A, D).a \in Nat /\ Expectation(A, D).d \in Nat
           /\ One <= Expectation(A, D).a + Expectation(A, D).d
<1> DEFINE one == [x \in Cells(A, D) |-> 1]
           W == [cell |-> one, a |-> 1, d |-> 1]
<1>1. W.cell = one /\ W.a = 1 /\ W.d = 1
  OBVIOUS
<1>2. one \in [Cells(A, D) -> Int] /\ \A i \in 0..A, c \in 0..D : one[<<i, c>>] = 1
  BY DEF Cells
<1> HIDE DEF one, W
<1>3. Fair(A, D, W)
  <2>1. W.cell \in [Cells(A, D) -> Int] /\ W.a \in Int /\ W.d \in Int
    BY <1>1, <1>2
  <2>2. \A a \in 1..A : W.cell[<<a, 0>>] <= W.a * a
    BY <1>1, <1>2
  <2>3. \A d \in 1..D : W.cell[<<0, d>>] <= W.d * d
    BY <1>1, <1>2
  <2>4. ASSUME NEW a \in 2..A, NEW d \in 2..D, NEW of, NEW r, NEW s, NEW t, TwoFall(a, d, of, r, s, t)
        PROVE  of * W.cell[<<a, d>>] =
                   r * W.cell[<<a, d - 2>>] + s * W.cell[<<a - 1, d - 1>>] + t * W.cell[<<a - 2, d>>]
    <3>1. W.cell[<<a, d>>] = 1 /\ W.cell[<<a, d - 2>>] = 1 /\ W.cell[<<a - 1, d - 1>>] = 1
          /\ W.cell[<<a - 2, d>>] = 1
      BY <1>1, <1>2
    <3>2. of \in Nat /\ r \in Nat /\ s \in Nat /\ t \in Nat /\ r + s + t = of
      BY <2>4 DEF TwoFall
    <3> QED  BY <3>1, <3>2
  <2>5. ASSUME NEW a \in 1..A, NEW d \in 1..D, NEW of, NEW r, NEW s, OneFalls(a, d, of, r, s)
        PROVE  of * W.cell[<<a, d>>] = r * W.cell[<<a, d - 1>>] + s * W.cell[<<a - 1, d>>]
    <3>1. W.cell[<<a, d>>] = 1 /\ W.cell[<<a, d - 1>>] = 1 /\ W.cell[<<a - 1, d>>] = 1
      BY <1>1, <1>2
    <3>2. of \in Nat /\ r \in Nat /\ s \in Nat /\ r + s = of
      BY <2>5 DEF OneFalls
    <3> QED  BY <3>1, <3>2
  <2> QED  BY <2>1, <2>2, <2>3, <2>4, <2>5 DEF Fair
<1>4. /\ Expectation(A, D).a \in Nat /\ Expectation(A, D).d \in Nat
      /\ One * W.cell[<<A, D>>] <= W.a * Expectation(A, D).a + W.d * Expectation(A, D).d
  BY <1>3, WorthIsKept
<1>5. W.cell[<<A, D>>] = 1 /\ One \in Nat
  BY <1>1, <1>2, BattleTableAssumption
<1> QED  BY <1>1, <1>4, <1>5

\* One side at least is expected to have half an army or more.
LEMMA RemnantsAre ==
    ASSUME NEW A \in Nat \ {0}, NEW D \in Nat \ {0}, Exact(A, D)
    PROVE  LET left == ComputeExpectedRemnants(A, D)
           IN  left.a \in Nat /\ left.d \in Nat /\ (left.a >= 1 \/ left.d >= 1)
<1>0. One \in Nat \ {0}
  BY BattleTableAssumption
<1>1. ASSUME NEW x \in Nat PROVE Rounded(x) \in Nat /\ (2 * x >= One => Rounded(x) >= 1)
  <2> DEFINE n == 2 * x + One
             of == 2 * One
             q == n \div of
  <2>1. n \in Nat /\ of \in Nat \ {0} /\ Rounded(x) = q
    BY <1>0 DEF Rounded
  <2>2. 2 * x >= One => n >= of
    BY <1>0
  <2> HIDE DEF n, of
  <2>3. q \in Nat /\ (n >= of => q >= 1)
    BY <2>1
  <2> QED  BY <2>1, <2>2, <2>3
<1> DEFINE e == Expectation(A, D)
           left == ComputeExpectedRemnants(A, D)
<1>2. e.a \in Nat /\ e.d \in Nat /\ One <= e.a + e.d
  BY ArmiesAreLeft
<1>3. left.a = Rounded(e.a) /\ left.d = Rounded(e.d)
  BY DEF ComputeExpectedRemnants
<1> HIDE DEF e, left
<1>4. 2 * e.a >= One \/ 2 * e.d >= One
  BY <1>0, <1>2
<1>5. left.a \in Nat /\ left.d \in Nat /\ (left.a >= 1 \/ left.d >= 1)
  BY <1>1, <1>2, <1>3, <1>4
<1> QED  BY <1>5 DEF left

\* Looking a battle up turns the two sides round while the table has it.
LEMMA LookupIs ==
    ASSUME NEW a \in Nat \ {0}, NEW d \in Nat \ {0}
    PROVE  \/ LookupExpectedRemnants(a, d) = ComputeExpectedRemnants(a, d)
           \/ LookupExpectedRemnants(a, d) = ComputeExpectedRemnants(d, a)
<1>1. CASE a \in 1..TableSize /\ d \in 1..TableSize
  <2>1. GeneratedTable[a][d] = ComputeExpectedRemnants(d, a)
    BY <1>1 DEF GeneratedTable
  <2> QED  BY <1>1, <2>1 DEF LookupExpectedRemnants
<1>2. CASE ~(a \in 1..TableSize /\ d \in 1..TableSize)
  BY <1>2 DEF LookupExpectedRemnants
<1> QED  BY <1>1, <1>2

LEMMA BothAreLeft ==
    ASSUME NEW b \in Battles
    PROVE  LET after == ResolveBattleWithExpectation(b[1], b[2])
           IN  after.src >= 1 /\ after.tgt >= 1
<1> DEFINE a == b[1]
           d == b[2]
           left == LookupExpectedRemnants(a, d)
           after == ResolveBattleWithExpectation(a, d)
<1>1. a \in Nat \ {0} /\ d \in Nat \ {0} /\ Exact(a, d) /\ Exact(d, a)
  BY BattleTableAssumption
<1> HIDE DEF a, d
<1>2. left.a \in Nat /\ left.d \in Nat /\ (left.a >= 1 \/ left.d >= 1)
  <2>1. CASE left = ComputeExpectedRemnants(a, d)
    BY <1>1, <2>1, RemnantsAre
  <2>2. CASE left = ComputeExpectedRemnants(d, a)
    BY <1>1, <2>2, RemnantsAre
  <2> QED  BY <1>1, <2>1, <2>2, LookupIs
<1>3. after = IF left.a > left.d
              THEN [captured |-> TRUE, src |-> a + 1 - (a - left.a), tgt |-> left.a]
              ELSE [captured |-> FALSE, src |-> 1, tgt |-> left.d]
  BY DEF ResolveBattleWithExpectation
<1> HIDE DEF left, after
<1>4. CASE left.a > left.d
  <2>1. after.src = a + 1 - (a - left.a) /\ after.tgt = left.a
    BY <1>3, <1>4
  <2> QED  BY <1>1, <1>2, <1>4, <2>1 DEF after, a, d
<1>5. CASE ~(left.a > left.d)
  <2>1. after.src = 1 /\ after.tgt = left.d
    BY <1>3, <1>5
  <2> QED  BY <1>2, <1>5, <2>1 DEF after, a, d
<1> QED  BY <1>4, <1>5

(* A battle resolved by the playouts' shortcut leaves an army on both      *)
(* sides, whatever the sizes of the two sides and of the table: rounding   *)
(* to the nearest army never rounds both expectations down to none.        *)
BattleInv == battle = <<>> \/ battle \in Battles
THEOREM BattlesLeaveArmies == BattleInit /\ [][BattleNext]_battle => []NobodyLeavesEmpty
<1>1. BattleInit => BattleInv
  BY DEF BattleInit, BattleInv
<1>2. BattleInv /\ [BattleNext]_battle => BattleInv'
  BY DEF BattleInv, BattleNext
<1>3. BattleInv => NobodyLeavesEmpty
  <2> SUFFICES ASSUME battle \in Battles PROVE NobodyLeavesEmpty
    BY DEF BattleInv, NobodyLeavesEmpty
  <2>1. LET after == ResolveBattleWithExpectation(battle[1], battle[2])
        IN  after.src >= 1 /\ after.tgt >= 1
    BY BothAreLeft
  <2> QED  BY <2>1 DEF NobodyLeavesEmpty
<1> QED  BY <1>1, <1>2, <1>3, PTL

(***************************************************************************)
(* What rolling the dice leaves.                                           *)
(***************************************************************************)
Dice(a, d) == <<Min({a, 3}), Min({d, 2})>>
DiceIs(a, d) ==
    /\ Min({a, 3}) = (IF a < 3 THEN a ELSE 3) /\ Min({d, 2}) = (IF d < 2 THEN d ELSE 2)
    /\ Min({Min({a, 3}), Min({d, 2})}) = IF a = 1 \/ d = 1 THEN 1 ELSE 2
    /\ Min({Min({a, 3}), 3}) = Min({a, 3}) /\ Min({Min({d, 2}), 2}) = Min({d, 2})
LEMMA DiceAre == ASSUME NEW a \in Nat \ {0}, NEW d \in Nat \ {0}  PROVE DiceIs(a, d)
<1> DEFINE i == Min({a, 3})
           j == Min({d, 2})
<1>1. i = (IF a < 3 THEN a ELSE 3) /\ j = (IF d < 2 THEN d ELSE 2)
  BY MinOfTwo
<1>2. i \in 1..3 /\ j \in 1..2
  BY <1>1
<1> HIDE DEF i, j
<1>3. Min({i, j}) = IF i < j THEN i ELSE j
  BY <1>2, MinOfTwo
<1>4. Min({i, 3}) = i /\ Min({j, 2}) = j
  BY <1>2, MinOfTwo
<1>5. Min({i, j}) = IF a = 1 \/ d = 1 THEN 1 ELSE 2
  BY <1>1, <1>3
<1> QED  BY <1>1, <1>4, <1>5 DEF i, j, DiceIs

LEMMA OddsAreCounts ==
    ASSUME NEW a \in Nat \ {0}, NEW d \in Nat \ {0}, NEW pairs,
           pairs = IF a = 1 \/ d = 1 THEN 1 ELSE 2
    PROVE  get_probs(a, d) = {[a |-> pairs - lost, d |-> lost, chance |-> Falls[Dice(a, d)][lost],
                               of |-> Throws[Dice(a, d)]] : lost \in 0..pairs}
<1> DEFINE i == Min({a, 3})
           j == Min({d, 2})
<1>0. DiceIs(a, d)
  BY DiceAre
<1>1. i \in 1..3 /\ j \in 1..2 /\ Min({i, j}) = pairs /\ Min({i, 3}) = i /\ Min({j, 2}) = j
  BY <1>0 DEF DiceIs
<1>2. Dice(a, d) = <<i, j>>
  BY DEF Dice
<1>3. get_probs(a, d) = get_probs(i, j)
  BY <1>1 DEF get_probs
<1> HIDE DEF i, j
<1>4. get_probs(i, j) = {[a |-> Min({i, j}) - lost, d |-> lost, chance |-> Falls[<<i, j>>][lost],
                          of |-> Throws[<<i, j>>]] : lost \in 0..Min({i, j})}
  BY <1>1, DiceAssumption
<1> QED  BY <1>1, <1>2, <1>3, <1>4

LEMMA CountsOfTwo ==
    ASSUME NEW a \in Nat, NEW d \in Nat, a >= 2, d >= 2, NEW of, NEW r, NEW s, NEW t,
           TwoFall(a, d, of, r, s, t)
    PROVE  LET n == Falls[Dice(a, d)]
           IN  Throws[Dice(a, d)] = of /\ n[2] = r /\ n[1] = s /\ n[0] = t
<1> DEFINE n == Falls[Dice(a, d)]
           all == Throws[Dice(a, d)]
           p(lost) == [a |-> 2 - lost, d |-> lost, chance |-> n[lost], of |-> all]
<1>1. get_probs(a, d) = {p(lost) : lost \in 0..2}
  BY OddsAreCounts
<1>2. get_probs(a, d) = {Outcome(0, 2, r, of), Outcome(1, 1, s, of), Outcome(2, 0, t, of)}
  BY DEF TwoFall
<1>3. ASSUME NEW lost \in 0..2
      PROVE  p(lost).d = lost /\ p(lost).chance = n[lost] /\ p(lost).of = all
             /\ (p(lost) = Outcome(0, 2, r, of) \/ p(lost) = Outcome(1, 1, s, of)
                    \/ p(lost) = Outcome(2, 0, t, of))
  BY <1>1, <1>2
<1>4. /\ Outcome(0, 2, r, of).d = 2 /\ Outcome(0, 2, r, of).chance = r /\ Outcome(0, 2, r, of).of = of
      /\ Outcome(1, 1, s, of).d = 1 /\ Outcome(1, 1, s, of).chance = s
      /\ Outcome(2, 0, t, of).d = 0 /\ Outcome(2, 0, t, of).chance = t
  BY DEF Outcome
<1> HIDE DEF p, n, all
<1>5. p(2) = Outcome(0, 2, r, of)
  BY <1>3, <1>4
<1>6. p(1) = Outcome(1, 1, s, of)
  BY <1>3, <1>4
<1>7. p(0) = Outcome(2, 0, t, of)
  BY <1>3, <1>4
<1>8. all = of /\ n[2] = r /\ n[1] = s /\ n[0] = t
  BY <1>3, <1>4, <1>5, <1>6, <1>7
<1> QED  BY <1>8 DEF all, n

LEMMA CountsOfOne ==
    ASSUME NEW a \in Nat \ {0}, NEW d \in Nat \ {0}, a = 1 \/ d = 1, NEW of, NEW r, NEW s,
           OneFalls(a, d, of, r, s)
    PROVE  LET n == Falls[Dice(a, d)]
           IN  Throws[Dice(a, d)] = of /\ n[1] = r /\ n[0] = s
<1> DEFINE n == Falls[Dice(a, d)]
           all == Throws[Dice(a, d)]
           p(lost) == [a |-> 1 - lost, d |-> lost, chance |-> n[lost], of |-> all]
<1>1. get_probs(a, d) = {p(lost) : lost \in 0..1}
  <2> DEFINE pairs == 1
  <2>1. pairs = IF a = 1 \/ d = 1 THEN 1 ELSE 2
    OBVIOUS
  <2> HIDE DEF pairs
  <2>2. get_probs(a, d) = {[a |-> pairs - lost, d |-> lost, chance |-> Falls[Dice(a, d)][lost],
                            of |-> Throws[Dice(a, d)]] : lost \in 0..pairs}
    BY <2>1, OddsAreCounts
  <2> QED  BY <2>2 DEF pairs
<1>2. get_probs(a, d) = {Outcome(0, 1, r, of), Outcome(1, 0, s, of)}
  BY DEF OneFalls
<1>3. ASSUME NEW lost \in 0..1
      PROVE  p(lost).d = lost /\ p(lost).chance = n[lost] /\ p(lost).of = all
             /\ (p(lost) = Outcome(0, 1, r, of) \/ p(lost) = Outcome(1, 0, s, of))
  BY <1>1, <1>2
<1>4. /\ Outcome(0, 1, r, of).d = 1 /\ Outcome(0, 1, r, of).chance = r /\ Outcome(0, 1, r, of).of = of
      /\ Outcome(1, 0, s, of).d = 0 /\ Outcome(1, 0, s, of).chance = s
  BY DEF Outcome
<1> HIDE DEF p, n, all
<1>5. p(1) = Outcome(0, 1, r, of)
  BY <1>3, <1>4
<1>6. p(0) = Outcome(1, 0, s, of)
  BY <1>3, <1>4
<1>8. all = of /\ n[1] = r /\ n[0] = s
  BY <1>3, <1>4, <1>5, <1>6
<1> QED  BY <1>8 DEF all, n

\* Where the recursion goes: to battles with fewer armies.
Pairs(x) == Min({Dice(x[1], x[2])[1], Dice(x[1], x[2])[2]})
Child(x, lost) == <<x[1] - (Pairs(x) - lost), x[2] - lost>>
LEMMA ChildrenAre ==
    ASSUME NEW A \in Nat, NEW D \in Nat, NEW x \in Cells(A, D), x[1] # 0, x[2] # 0
    PROVE  /\ Pairs(x) = IF x[1] = 1 \/ x[2] = 1 THEN 1 ELSE 2
           /\ \A lost \in 0..Pairs(x) :
                 Child(x, lost) \in Cells(A, D) /\ Child(x, lost)[1] + Child(x, lost)[2] < x[1] + x[2]
<1> DEFINE a == x[1]
           d == x[2]
<1>1. a \in 1..A /\ d \in 1..D
  BY DEF Cells
<1>2. Pairs(x) = Min({Min({a, 3}), Min({d, 2})})
  BY DEF Pairs, Dice
<1> HIDE DEF a, d
<1>3. Pairs(x) = IF a = 1 \/ d = 1 THEN 1 ELSE 2
  <2>1. DiceIs(a, d)
    BY <1>1, DiceAre
  <2> QED  BY <1>2, <2>1 DEF DiceIs
<1>4. ASSUME NEW lost \in 0..Pairs(x)
      PROVE  Child(x, lost) \in Cells(A, D) /\ Child(x, lost)[1] + Child(x, lost)[2] < a + d
  <2> DEFINE i == a - (Pairs(x) - lost)
             j == d - lost
  <2>1. i \in 0..A /\ j \in 0..D /\ i + j < a + d
    BY <1>1, <1>3
  <2>2. Child(x, lost) = <<i, j>>
    BY DEF Child, a, d
  <2> HIDE DEF i, j
  <2> QED  BY <2>1, <2>2 DEF Cells
<1> QED  BY <1>3, <1>4 DEF a, d

\* The recursive function exists: by the number of armies.
Part(f, x) == [lost \in 0..Pairs(x) |->
                  Falls[Dice(x[1], x[2])][lost] * (f[Child(x, lost)] \div Throws[Dice(x[1], x[2])])]
Mean(f, x, side) == IF x[1] = 0 \/ x[2] = 0 THEN x[side] * One ELSE SumOver(Part(f, x), 0..Pairs(x))
Leaves(A, D, side, f) == f = [x \in (0..A) \X (0..D) |-> Mean(f, x, side)]
Partly(A, D, side, m, f) ==
    f = [x \in Cells(A, D) |-> IF x[1] + x[2] <= m THEN Mean(f, x, side) ELSE 0]

LEMMA MeanOfFewer ==
    ASSUME NEW A \in Nat, NEW D \in Nat, NEW side, NEW x \in Cells(A, D), NEW f, NEW g,
           \A y \in Cells(A, D) : y[1] + y[2] < x[1] + x[2] => f[y] = g[y]
    PROVE  Mean(f, x, side) = Mean(g, x, side)
<1>1. CASE x[1] = 0 \/ x[2] = 0
  BY <1>1 DEF Mean
<1>2. CASE x[1] # 0 /\ x[2] # 0
  <2>1. \A lost \in 0..Pairs(x) : f[Child(x, lost)] = g[Child(x, lost)]
    BY <1>2, ChildrenAre
  <2>2. Part(f, x) = Part(g, x)
    BY <2>1 DEF Part
  <2> QED  BY <2>2 DEF Mean
<1> QED  BY <1>1, <1>2

LEMMA LeavesExists ==
    ASSUME NEW A \in Nat, NEW D \in Nat, NEW side
    PROVE  \E f : Leaves(A, D, side, f)
<1> DEFINE C == Cells(A, D)
           good == {m \in Nat : \E f : Partly(A, D, side, m, f)}
<1>0. \A x \in C : x[1] \in 0..A /\ x[2] \in 0..D
  BY DEF Cells
<1>1. 0 \in good
  <2> DEFINE f == [x \in C |-> IF x[1] + x[2] <= 0 THEN x[side] * One ELSE 0]
  <2>1. \A x \in C : x[1] + x[2] <= 0 => Mean(f, x, side) = x[side] * One
    <3> TAKE x \in C
    <3>1. x[1] + x[2] <= 0 => x[1] = 0
      BY <1>0
    <3> QED  BY <3>1 DEF Mean
  <2>2. f = [x \in C |-> IF x[1] + x[2] <= 0 THEN Mean(f, x, side) ELSE 0]
    BY <2>1
  <2>3. Partly(A, D, side, 0, f)
    BY <2>2 DEF Partly
  <2> QED  BY <2>3
<1>2. ASSUME NEW m \in Nat, m \in good PROVE m + 1 \in good
  <2>1. PICK f : Partly(A, D, side, m, f)
    BY <1>2
  <2> DEFINE g == [x \in C |-> IF x[1] + x[2] <= m + 1 THEN Mean(f, x, side) ELSE 0]
  <2>2. \A x \in C : f[x] = IF x[1] + x[2] <= m THEN Mean(f, x, side) ELSE 0
    BY <2>1 DEF Partly
  <2>3. \A x \in C : x[1] + x[2] <= m => f[x] = g[x]
    <3> TAKE x \in C
    <3> HAVE x[1] + x[2] <= m
    <3>1. x[1] + x[2] <= m + 1
      BY <1>0
    <3> QED  BY <2>2, <3>1
  <2>4. \A x \in C : x[1] + x[2] <= m + 1 => Mean(g, x, side) = Mean(f, x, side)
    <3> TAKE x \in C
    <3> HAVE x[1] + x[2] <= m + 1
    <3>1. \A y \in C : y[1] + y[2] < x[1] + x[2] => f[y] = g[y]
      <4> TAKE y \in C
      <4> HAVE y[1] + y[2] < x[1] + x[2]
      <4>1. y[1] + y[2] <= m
        BY <1>0
      <4> QED  BY <2>3, <4>1
    <3> HIDE DEF g
    <3> QED  BY <3>1, MeanOfFewer
  <2>5. g = [x \in C |-> IF x[1] + x[2] <= m + 1 THEN Mean(g, x, side) ELSE 0]
    BY <2>4
  <2>6. Partly(A, D, side, m + 1, g)
    BY <2>5 DEF Partly
  <2> QED  BY <2>6
<1> HIDE DEF good
<1>3. \A m \in Nat : m \in good
  BY <1>1, <1>2, NumberInduction
<1>4. PICK f : Partly(A, D, side, A + D, f)
  <2>1. A + D \in Nat
    OBVIOUS
  <2> QED  BY <1>3, <2>1 DEF good
<1>5. \A x \in C : x[1] + x[2] <= A + D
  BY <1>0
<1>6. f = [x \in C |-> Mean(f, x, side)]
  BY <1>4, <1>5 DEF Partly
<1>7. Leaves(A, D, side, f)
  BY <1>6 DEF Leaves, Cells
<1> QED  BY <1>7

\* What is left is that function's value.
LeavesOf(A, D, side) == CHOOSE f : Leaves(A, D, side, f)
LEMMA LeftIs ==
    ASSUME NEW A \in Nat, NEW D \in Nat, NEW side
    PROVE  /\ Left(A, D, side) = LeavesOf(A, D, side)[<<A, D>>]
           /\ \A x \in Cells(A, D) : LeavesOf(A, D, side)[x] = Mean(LeavesOf(A, D, side), x, side)
<1>1. Left(A, D, side) = LeavesOf(A, D, side)[<<A, D>>]
  BY Zenon DEF Left, LeavesOf, Leaves, Mean, Part, Pairs, Dice, Child, SumOver
<1>2. Leaves(A, D, side, LeavesOf(A, D, side))
  <2>1. \E f : Leaves(A, D, side, f)
    BY LeavesExists
  <2> QED  BY <2>1 DEF LeavesOf
<1> DEFINE g == LeavesOf(A, D, side)
<1> HIDE DEF g
<1>3. \A x \in Cells(A, D) : g[x] = Mean(g, x, side)
  <2>1. g = [x \in Cells(A, D) |-> Mean(g, x, side)]
    BY <1>2 DEF Leaves, Cells, g
  <2> QED  BY <2>1
<1> QED  BY <1>1, <1>3 DEF g

\* The mean, written out.
LEMMA SumOfThreeParts ==
    ASSUME NEW f, f[0] \in Int, f[1] \in Int, f[2] \in Int
    PROVE  SumOver(f, 0..1) = f[0] + f[1] /\ SumOver(f, 0..2) = f[0] + f[1] + f[2]
<1>1. SumOver(f, 0..0) = f[0]
  <2>1. 0..0 = {0} /\ \A x \in {0} \ {0} : f[x] = 0
    OBVIOUS
  <2>2. IsFiniteSet({0}) /\ 0 \in {0}
    BY FS_Singleton
  <2>3. SumOver(f, {0}) = f[0]
    BY <2>1, <2>2, SumOfOne
  <2> QED  BY <2>1, <2>3
<1>2. SumOver(f, 0..1) = f[1] + SumOver(f, 0..0)
  <2>1. \A i \in 0..1 : f[i] \in Int
    <3>1. \A i \in 0..1 : i = 0 \/ i = 1
      OBVIOUS
    <3> QED  BY <3>1
  <2>2. IsFiniteSet(0..1)
    <3>1. 0 \in Int /\ 1 \in Int
      OBVIOUS
    <3> QED  BY <3>1, FS_Interval
  <2>02. 1 \in 0..1 /\ (0..1) \ {1} = 0..0
    OBVIOUS
  <2>3. SumOver(f, 0..1) = f[1] + SumOver(f, (0..1) \ {1})
    BY <2>1, <2>2, <2>02, SumRemove
  <2> QED  BY <2>02, <2>3
<1>3. SumOver(f, 0..2) = f[2] + SumOver(f, 0..1)
  <2>1. \A i \in 0..2 : f[i] \in Int
    <3>1. \A i \in 0..2 : i = 0 \/ i = 1 \/ i = 2
      OBVIOUS
    <3> QED  BY <3>1
  <2>2. IsFiniteSet(0..2)
    <3>1. 0 \in Int /\ 2 \in Int
      OBVIOUS
    <3> QED  BY <3>1, FS_Interval
  <2>02. 2 \in 0..2 /\ (0..2) \ {2} = 0..1
    OBVIOUS
  <2>3. SumOver(f, 0..2) = f[2] + SumOver(f, (0..2) \ {2})
    BY <2>1, <2>2, <2>02, SumRemove
  <2> QED  BY <2>02, <2>3
<1> QED  BY <1>1, <1>2, <1>3

MeanIsOfThree(f, side, a, d, of, r, s, t) ==
    Mean(f, <<a, d>>, side) = r * (f[<<a, d - 2>>] \div of) + s * (f[<<a - 1, d - 1>>] \div of)
                                  + t * (f[<<a - 2, d>>] \div of)
LEMMA MeanOfThree ==
    ASSUME NEW A \in Nat, NEW D \in Nat, NEW side, NEW a \in 2..A, NEW d \in 2..D, NEW f,
           NEW of, NEW r, NEW s, NEW t, TwoFall(a, d, of, r, s, t),
           f[<<a, d - 2>>] \div of \in Nat, f[<<a - 1, d - 1>>] \div of \in Nat,
           f[<<a - 2, d>>] \div of \in Nat
    PROVE  MeanIsOfThree(f, side, a, d, of, r, s, t)
<1> DEFINE x == <<a, d>>
           part == Part(f, x)
<1>0. x \in Cells(A, D) /\ x[1] = a /\ x[2] = d /\ a \in Nat /\ d \in Nat
  BY DEF Cells
<1>1. Falls[Dice(a, d)][2] = r /\ Falls[Dice(a, d)][1] = s /\ Falls[Dice(a, d)][0] = t
      /\ Throws[Dice(a, d)] = of
  BY CountsOfTwo
<1>2. Pairs(x) = 2
  <2>1. x[1] # 0 /\ x[2] # 0 /\ ~(x[1] = 1 \/ x[2] = 1)
    BY <1>0
  <2> HIDE DEF x
  <2>2. Pairs(x) = IF x[1] = 1 \/ x[2] = 1 THEN 1 ELSE 2
    BY <1>0, <2>1, ChildrenAre
  <2> QED  BY <2>1, <2>2
<1>3. Child(x, 2) = <<a, d - 2>> /\ Child(x, 1) = <<a - 1, d - 1>> /\ Child(x, 0) = <<a - 2, d>>
  BY <1>0, <1>2 DEF Child
<1>4. Mean(f, x, side) = SumOver(part, 0..2)
  BY <1>0, <1>2 DEF Mean
<1>5. \A lost \in 0..2 : part[lost] = Falls[Dice(a, d)][lost] * (f[Child(x, lost)] \div Throws[Dice(a, d)])
  BY <1>0, <1>2 DEF Part
<1> HIDE DEF part, x
<1>6. /\ part[2] = r * (f[<<a, d - 2>>] \div of)
      /\ part[1] = s * (f[<<a - 1, d - 1>>] \div of)
      /\ part[0] = t * (f[<<a - 2, d>>] \div of)
  BY <1>1, <1>3, <1>5
<1>7. part[2] \in Int /\ part[1] \in Int /\ part[0] \in Int
  <2>1. r \in Nat /\ s \in Nat /\ t \in Nat
    BY DEF TwoFall
  <2> QED  BY <1>6, <2>1
<1>8. SumOver(part, 0..2) = part[0] + part[1] + part[2]
  BY <1>7, SumOfThreeParts
<1>9. SumOver(part, 0..2) = part[2] + part[1] + part[0]
  BY <1>7, <1>8
<1> QED  BY <1>4, <1>6, <1>9 DEF MeanIsOfThree, x

MeanIsOfTwo(f, side, a, d, of, r, s) ==
    Mean(f, <<a, d>>, side) = r * (f[<<a, d - 1>>] \div of) + s * (f[<<a - 1, d>>] \div of)
LEMMA MeanOfTwo ==
    ASSUME NEW A \in Nat, NEW D \in Nat, NEW side, NEW a \in 1..A, NEW d \in 1..D, a = 1 \/ d = 1,
           NEW f, NEW of, NEW r, NEW s, OneFalls(a, d, of, r, s),
           f[<<a, d - 1>>] \div of \in Nat, f[<<a - 1, d>>] \div of \in Nat
    PROVE  MeanIsOfTwo(f, side, a, d, of, r, s)
<1> DEFINE x == <<a, d>>
           part == Part(f, x)
<1>0. x \in Cells(A, D) /\ x[1] = a /\ x[2] = d /\ a \in Nat \ {0} /\ d \in Nat \ {0}
  BY DEF Cells
<1>1. Falls[Dice(a, d)][1] = r /\ Falls[Dice(a, d)][0] = s /\ Throws[Dice(a, d)] = of
  BY <1>0, CountsOfOne
<1>2. Pairs(x) = 1
  BY <1>0, ChildrenAre
<1>3. Child(x, 1) = <<a, d - 1>> /\ Child(x, 0) = <<a - 1, d>>
  BY <1>0, <1>2 DEF Child
<1>4. Mean(f, x, side) = SumOver(part, 0..1)
  BY <1>0, <1>2 DEF Mean
<1>5. \A lost \in 0..1 : part[lost] = Falls[Dice(a, d)][lost] * (f[Child(x, lost)] \div Throws[Dice(a, d)])
  BY <1>0, <1>2 DEF Part
<1> DEFINE two == [i \in 0..2 |-> IF i = 2 THEN 0 ELSE part[i]]
<1> HIDE DEF part, x
<1>6. part[1] = r * (f[<<a, d - 1>>] \div of) /\ part[0] = s * (f[<<a - 1, d>>] \div of)
  BY <1>1, <1>3, <1>5
<1>7. part[1] \in Int /\ part[0] \in Int
  <2>1. r \in Nat /\ s \in Nat
    BY DEF OneFalls
  <2> QED  BY <1>6, <2>1
<1>8. SumOver(part, 0..1) = SumOver(two, 0..1)
  <2>1. 0 \in Int /\ 1 \in Int
    OBVIOUS
  <2>2. IsFiniteSet(0..1)
    BY <2>1, FS_Interval
  <2>3. \A i \in 0..1 : part[i] = two[i]
    OBVIOUS
  <2> HIDE DEF two
  <2> QED  BY <2>2, <2>3, SumSame
<1>9. two[0] = part[0] /\ two[1] = part[1] /\ two[2] = 0
  OBVIOUS
<1> HIDE DEF two
<1>10. SumOver(two, 0..1) = two[0] + two[1]
  BY <1>7, <1>9, SumOfThreeParts
<1>11. SumOver(part, 0..1) = part[1] + part[0]
  BY <1>7, <1>8, <1>9, <1>10
<1> QED  BY <1>4, <1>6, <1>11 DEF MeanIsOfTwo, x

\* A value is whole when no chance of getting to its cell is rounded.
Whole(f, x) == f[x] \in Nat /\ Multiple(f[x] * Grain[x], One)
LEMMA ScaledMultiple ==
    ASSUME NEW c \in Nat, NEW y \in Nat, NEW g \in Nat, NEW h \in Nat, Multiple(y * g, h)
    PROVE  c * y \in Nat /\ Multiple((c * y) * g, h)
<1>1. PICK m \in Nat : y * g = m * h
  BY DEF Multiple
<1>2. (c * y) * g = c * (y * g)
  OBVIOUS
<1>3. c * (m * h) = (c * m) * h /\ c * m \in Nat
  OBVIOUS
<1>4. (c * y) * g = (c * m) * h
  BY <1>1, <1>2, <1>3
<1>5. Multiple((c * y) * g, h)
  BY <1>3, <1>4 DEF Multiple
<1>6. c * y \in Nat
  OBVIOUS
<1> QED  BY <1>5, <1>6

WholeShare(f, of, a, d, e) ==
    /\ f[e] \in Nat /\ f[e] \div of \in Nat /\ f[e] = of * (f[e] \div of)
    /\ Multiple((f[e] \div of) * Grain[<<a, d>>], One)
LEMMA ShareOfWhole ==
    ASSUME NEW A \in Nat, NEW D \in Nat, Exact(A, D), NEW a \in 1..A, NEW d \in 1..D,
           NEW p \in get_probs(a, d), p.of \in Nat \ {0},
           <<a - p.a, d - p.d>> \in Cells(A, D),
           NEW f, Whole(f, <<a - p.a, d - p.d>>)
    PROVE  WholeShare(f, p.of, a, d, <<a - p.a, d - p.d>>)
<1> DEFINE e == <<a - p.a, d - p.d>>
           of == p.of
           g == Grain[<<a, d>>]
           h == Grain[e]
           z == f[e]
<1>0. of \in Nat \ {0} /\ One \in Nat \ {0}
  BY BattleTableAssumption
<1>1. g \in Nat \ {0} /\ h \in Nat \ {0} /\ One % g = 0
  <2>1. <<a, d>> \in Cells(A, D)
    BY DEF Cells
  <2> QED  BY <2>1 DEF Exact, Cells
<1>2. g % (of * h) = 0
  BY DEF Exact
<1>3. z \in Nat /\ Multiple(z * h, One)
  BY DEF Whole
<1> HIDE DEF g, h, of, z, e
<1>4. of * h \in Nat \ {0}
  BY <1>0, <1>1
<1>5. Multiple(g, of * h) /\ Multiple(One, g)
  BY <1>0, <1>1, <1>2, <1>4, WholeIsMultiple
<1>6. PICK m \in Nat : g = m * (of * h)
  BY <1>5 DEF Multiple
<1>7. PICK n \in Nat : One = n * g
  BY <1>5 DEF Multiple
<1>8. PICK k \in Nat : z * h = k * One
  BY <1>3 DEF Multiple
<1> DEFINE y == (k * n) * m
<1>9. y \in Nat
  OBVIOUS
<1>10. z = of * y
  <2>1. k * One = (k * n) * g
    BY <1>1, <1>7
  <2>2. (k * n) * (m * (of * h)) = (of * y) * h
    BY <1>0, <1>1
  <2>3. z * h = (of * y) * h
    BY <1>6, <1>8, <2>1, <2>2
  <2> DEFINE w == of * y
  <2>4. w \in Nat
    BY <1>0, <1>9
  <2> HIDE DEF w, y
  <2>5. (z * h) \div h = z /\ (w * h) \div h = w
    BY <1>1, <1>3, <2>4
  <2> QED  BY <2>3, <2>5 DEF w
<1>11. Multiple(y * g, One)
  <2>1. ((k * n) * m) * g = (k * m) * (n * g) /\ k * m \in Nat
    BY <1>1
  <2>2. y * g = (k * m) * One
    BY <1>7, <2>1
  <2> QED  BY <2>1, <2>2 DEF Multiple
<1> HIDE DEF y
<1>12. z \div of = y
  <2>1. (of * y) \div of = y
    BY <1>0, <1>9
  <2> QED  BY <1>10, <2>1
<1> QED  BY <1>3, <1>9, <1>10, <1>11, <1>12 DEF WholeShare, z, g, of, e

\* From the cells that a battle goes to, to the cell it is in.
EvenOfThree(f, a, d, of, r, s, t) ==
    of * f[<<a, d>>] = r * f[<<a, d - 2>>] + s * f[<<a - 1, d - 1>>] + t * f[<<a - 2, d>>]
LEMMA WholeOfThree ==
    ASSUME NEW A \in Nat, NEW D \in Nat, Exact(A, D), NEW side, NEW a \in 2..A, NEW d \in 2..D, NEW f,
           f[<<a, d>>] = Mean(f, <<a, d>>, side),
           Whole(f, <<a, d - 2>>), Whole(f, <<a - 1, d - 1>>), Whole(f, <<a - 2, d>>),
           NEW of, NEW r, NEW s, NEW t, TwoFall(a, d, of, r, s, t)
    PROVE  Whole(f, <<a, d>>) /\ EvenOfThree(f, a, d, of, r, s, t)
<1> DEFINE e1 == <<a, d - 2>>
           e2 == <<a - 1, d - 1>>
           e3 == <<a - 2, d>>
           y1 == f[e1] \div of
           y2 == f[e2] \div of
           y3 == f[e3] \div of
           g == Grain[<<a, d>>]
           x == <<a, d>>
<1>0. /\ of \in Nat \ {0} /\ r \in Nat /\ s \in Nat /\ t \in Nat /\ a \in 1..A /\ d \in 1..D
      /\ One \in Nat
  BY BattleTableAssumption DEF TwoFall
<1>1. WholeShare(f, of, a, d, e1) /\ WholeShare(f, of, a, d, e2) /\ WholeShare(f, of, a, d, e3)
  <2>1. Outcome(0, 2, r, of) \in get_probs(a, d) /\ Outcome(1, 1, s, of) \in get_probs(a, d)
        /\ Outcome(2, 0, t, of) \in get_probs(a, d)
    BY DEF TwoFall
  <2>2. e1 \in Cells(A, D) /\ e2 \in Cells(A, D) /\ e3 \in Cells(A, D)
    BY DEF Cells
  <2>3. WholeShare(f, of, a, d, e1)
    <3> DEFINE p == Outcome(0, 2, r, of)
    <3>1. p.a = 0 /\ p.d = 2 /\ p.of = of
      BY DEF Outcome
    <3>2. <<a - p.a, d - p.d>> = e1
      BY <3>1
    <3> HIDE DEF p
    <3>3. p \in get_probs(a, d)
      BY <2>1 DEF p
    <3>4. WholeShare(f, p.of, a, d, <<a - p.a, d - p.d>>)
      BY <1>0, <2>2, <3>1, <3>2, <3>3, ShareOfWhole
    <3> QED  BY <3>1, <3>2, <3>4
  <2>4. WholeShare(f, of, a, d, e2)
    <3> DEFINE p == Outcome(1, 1, s, of)
    <3>1. p.a = 1 /\ p.d = 1 /\ p.of = of
      BY DEF Outcome
    <3>2. <<a - p.a, d - p.d>> = e2
      BY <3>1
    <3> HIDE DEF p
    <3>3. p \in get_probs(a, d)
      BY <2>1 DEF p
    <3>4. WholeShare(f, p.of, a, d, <<a - p.a, d - p.d>>)
      BY <1>0, <2>2, <3>1, <3>2, <3>3, ShareOfWhole
    <3> QED  BY <3>1, <3>2, <3>4
  <2>5. WholeShare(f, of, a, d, e3)
    <3> DEFINE p == Outcome(2, 0, t, of)
    <3>1. p.a = 2 /\ p.d = 0 /\ p.of = of
      BY DEF Outcome
    <3>2. <<a - p.a, d - p.d>> = e3
      BY <3>1
    <3> HIDE DEF p
    <3>3. p \in get_probs(a, d)
      BY <2>1 DEF p
    <3>4. WholeShare(f, p.of, a, d, <<a - p.a, d - p.d>>)
      BY <1>0, <2>2, <3>1, <3>2, <3>3, ShareOfWhole
    <3> QED  BY <3>1, <3>2, <3>4
  <2> QED  BY <2>3, <2>4, <2>5
<1>2. /\ y1 \in Nat /\ f[e1] = of * y1 /\ Multiple(y1 * g, One)
      /\ y2 \in Nat /\ f[e2] = of * y2 /\ Multiple(y2 * g, One)
      /\ y3 \in Nat /\ f[e3] = of * y3 /\ Multiple(y3 * g, One)
  BY <1>1 DEF WholeShare
<1>3. g \in Nat
  <2>1. <<a, d>> \in Cells(A, D)
    BY DEF Cells
  <2> QED  BY <2>1 DEF Exact, Cells
<1>4. f[x] = r * y1 + s * y2 + t * y3
  <2>1. MeanIsOfThree(f, side, a, d, of, r, s, t)
    BY <1>2, MeanOfThree
  <2> QED  BY <2>1 DEF MeanIsOfThree
<1>01. e1 = <<a, d - 2>> /\ e2 = <<a - 1, d - 1>> /\ e3 = <<a - 2, d>> /\ x = <<a, d>> /\ g = Grain[x]
  OBVIOUS
<1> HIDE DEF y1, y2, y3, g, e1, e2, e3, x
<1>5. /\ r * y1 \in Nat /\ Multiple((r * y1) * g, One)
      /\ s * y2 \in Nat /\ Multiple((s * y2) * g, One)
      /\ t * y3 \in Nat /\ Multiple((t * y3) * g, One)
  BY <1>0, <1>2, <1>3, ScaledMultiple
<1>6. f[x] \in Nat
  BY <1>4, <1>5
<1>7. Multiple(f[x] * g, One)
  <2> DEFINE u == (r * y1) * g
             v == (s * y2) * g
             w == (t * y3) * g
  <2>1. f[x] * g = u + v + w
    BY <1>3, <1>4, <1>5
  <2>2. Multiple(u, One) /\ Multiple(v, One) /\ Multiple(w, One)
    BY <1>5
  <2> HIDE DEF u, v, w
  <2>3. Multiple(u + v, One)
    BY <1>0, <2>2, MultiplesAdd
  <2>4. Multiple((u + v) + w, One)
    BY <1>0, <2>2, <2>3, MultiplesAdd
  <2> QED  BY <2>1, <2>4
<1>8. of * f[x] = r * f[e1] + s * f[e2] + t * f[e3]
  <2>1. of * (r * y1 + s * y2 + t * y3) = r * (of * y1) + s * (of * y2) + t * (of * y3)
    BY <1>0, <1>2
  <2> QED  BY <1>2, <1>4, <2>1
<1>9. EvenOfThree(f, a, d, of, r, s, t)
  BY <1>01, <1>8 DEF EvenOfThree
<1>10. Whole(f, x)
  BY <1>01, <1>6, <1>7 DEF Whole
<1> QED  BY <1>9, <1>10 DEF x

EvenOfTwo(f, a, d, of, r, s) == of * f[<<a, d>>] = r * f[<<a, d - 1>>] + s * f[<<a - 1, d>>]
LEMMA WholeOfTwo ==
    ASSUME NEW A \in Nat, NEW D \in Nat, Exact(A, D), NEW side, NEW a \in 1..A, NEW d \in 1..D,
           a = 1 \/ d = 1, NEW f, f[<<a, d>>] = Mean(f, <<a, d>>, side),
           Whole(f, <<a, d - 1>>), Whole(f, <<a - 1, d>>),
           NEW of, NEW r, NEW s, OneFalls(a, d, of, r, s)
    PROVE  Whole(f, <<a, d>>) /\ EvenOfTwo(f, a, d, of, r, s)
<1> DEFINE e1 == <<a, d - 1>>
           e2 == <<a - 1, d>>
           y1 == f[e1] \div of
           y2 == f[e2] \div of
           g == Grain[<<a, d>>]
           x == <<a, d>>
<1>0. of \in Nat \ {0} /\ r \in Nat /\ s \in Nat /\ One \in Nat
  BY BattleTableAssumption DEF OneFalls
<1>1. WholeShare(f, of, a, d, e1) /\ WholeShare(f, of, a, d, e2)
  <2>1. Outcome(0, 1, r, of) \in get_probs(a, d) /\ Outcome(1, 0, s, of) \in get_probs(a, d)
    BY DEF OneFalls
  <2>2. e1 \in Cells(A, D) /\ e2 \in Cells(A, D)
    BY DEF Cells
  <2>3. WholeShare(f, of, a, d, e1)
    <3> DEFINE p == Outcome(0, 1, r, of)
    <3>1. p.a = 0 /\ p.d = 1 /\ p.of = of
      BY DEF Outcome
    <3>2. <<a - p.a, d - p.d>> = e1
      BY <3>1
    <3> HIDE DEF p
    <3>3. p \in get_probs(a, d)
      BY <2>1 DEF p
    <3>4. WholeShare(f, p.of, a, d, <<a - p.a, d - p.d>>)
      BY <1>0, <2>2, <3>1, <3>2, <3>3, ShareOfWhole
    <3> QED  BY <3>1, <3>2, <3>4
  <2>4. WholeShare(f, of, a, d, e2)
    <3> DEFINE p == Outcome(1, 0, s, of)
    <3>1. p.a = 1 /\ p.d = 0 /\ p.of = of
      BY DEF Outcome
    <3>2. <<a - p.a, d - p.d>> = e2
      BY <3>1
    <3> HIDE DEF p
    <3>3. p \in get_probs(a, d)
      BY <2>1 DEF p
    <3>4. WholeShare(f, p.of, a, d, <<a - p.a, d - p.d>>)
      BY <1>0, <2>2, <3>1, <3>2, <3>3, ShareOfWhole
    <3> QED  BY <3>1, <3>2, <3>4
  <2> QED  BY <2>3, <2>4
<1>2. /\ y1 \in Nat /\ f[e1] = of * y1 /\ Multiple(y1 * g, One)
      /\ y2 \in Nat /\ f[e2] = of * y2 /\ Multiple(y2 * g, One)
  BY <1>1 DEF WholeShare
<1>3. g \in Nat
  <2>1. <<a, d>> \in Cells(A, D)
    BY DEF Cells
  <2> QED  BY <2>1 DEF Exact, Cells
<1>4. f[x] = r * y1 + s * y2
  <2>1. MeanIsOfTwo(f, side, a, d, of, r, s)
    BY <1>2, MeanOfTwo
  <2> QED  BY <2>1 DEF MeanIsOfTwo
<1>01. e1 = <<a, d - 1>> /\ e2 = <<a - 1, d>> /\ x = <<a, d>> /\ g = Grain[x]
  OBVIOUS
<1> HIDE DEF y1, y2, g, e1, e2, x
<1>5. /\ r * y1 \in Nat /\ Multiple((r * y1) * g, One)
      /\ s * y2 \in Nat /\ Multiple((s * y2) * g, One)
  BY <1>0, <1>2, <1>3, ScaledMultiple
<1>6. f[x] \in Nat
  BY <1>4, <1>5
<1>7. Multiple(f[x] * g, One)
  <2> DEFINE u == (r * y1) * g
             v == (s * y2) * g
  <2>1. f[x] * g = u + v
    BY <1>3, <1>4, <1>5
  <2>2. Multiple(u, One) /\ Multiple(v, One)
    BY <1>5
  <2> HIDE DEF u, v
  <2>3. Multiple(u + v, One)
    BY <1>0, <2>2, MultiplesAdd
  <2> QED  BY <2>1, <2>3
<1>8. of * f[x] = r * f[e1] + s * f[e2]
  <2>1. of * (r * y1 + s * y2) = r * (of * y1) + s * (of * y2)
    BY <1>0, <1>2
  <2> QED  BY <1>2, <1>4, <2>1
<1>9. EvenOfTwo(f, a, d, of, r, s)
  BY <1>01, <1>8 DEF EvenOfTwo
<1>10. Whole(f, x)
  BY <1>01, <1>6, <1>7 DEF Whole
<1> QED  BY <1>9, <1>10 DEF x

\* So every value is whole.
LEMMA AllAreWhole ==
    ASSUME NEW A \in Nat, NEW D \in Nat, Exact(A, D), NEW side \in {1, 2}, NEW f,
           \A x \in Cells(A, D) : f[x] = Mean(f, x, side)
    PROVE  \A x \in Cells(A, D) : Whole(f, x)
<1> DEFINE C == Cells(A, D)
           good == {m \in Nat : \A x \in C : x[1] + x[2] <= m => Whole(f, x)}
<1>0. One \in Nat
  BY BattleTableAssumption
<1>1. ASSUME NEW x \in C, x[1] = 0 \/ x[2] = 0 PROVE Whole(f, x)
  <2> DEFINE n == x[side]
             g == Grain[x]
  <2>1. n \in Nat /\ g \in Nat
    BY DEF Cells, Exact
  <2>2. f[x] = n * One
    BY <1>1 DEF Mean
  <2> HIDE DEF n, g
  <2>3. (n * One) * g = (n * g) * One /\ n * g \in Nat /\ n * One \in Nat
    BY <1>0, <2>1
  <2>4. Multiple(f[x] * g, One)
    BY <2>2, <2>3 DEF Multiple
  <2> QED  BY <2>2, <2>3, <2>4 DEF Whole, g
<1>2. 0 \in good
  <2> SUFFICES ASSUME NEW x \in C, x[1] + x[2] <= 0 PROVE Whole(f, x)
    OBVIOUS
  <2>1. x[1] = 0
    BY DEF Cells
  <2> QED  BY <1>1, <2>1
<1>3. ASSUME NEW m \in Nat, m \in good PROVE m + 1 \in good
  <2> SUFFICES ASSUME NEW x \in C, x[1] + x[2] <= m + 1 PROVE Whole(f, x)
    OBVIOUS
  <2> DEFINE a == x[1]
             d == x[2]
  <2>1. a \in 0..A /\ d \in 0..D /\ x = <<a, d>>
    BY DEF Cells
  <2>2. f[<<a, d>>] = Mean(f, <<a, d>>, side) /\ a + d <= m + 1
    BY <2>1
  <2> HIDE DEF a, d
  <2>3. \A i \in 0..A, j \in 0..D : i + j <= m => Whole(f, <<i, j>>)
    <3> TAKE i \in 0..A, j \in 0..D
    <3>1. <<i, j>> \in C /\ <<i, j>>[1] = i /\ <<i, j>>[2] = j
      BY DEF Cells
    <3> QED  BY <1>3, <3>1
  <2>4. CASE a = 0 \/ d = 0
    BY <1>1, <2>4 DEF a, d
  <2>5. CASE a >= 2 /\ d >= 2
    <3>1. a \in 2..A /\ d \in 2..D /\ a \in Nat /\ d \in Nat
      BY <2>1, <2>5
    <3>2. PICK of, r, s, t : TwoFall(a, d, of, r, s, t)
      BY <2>5, <3>1, OddsOfTwo
    <3>3. Whole(f, <<a, d - 2>>) /\ Whole(f, <<a - 1, d - 1>>) /\ Whole(f, <<a - 2, d>>)
      <4>1. /\ a \in 0..A /\ d - 2 \in 0..D /\ a + (d - 2) <= m
            /\ a - 1 \in 0..A /\ d - 1 \in 0..D /\ (a - 1) + (d - 1) <= m
            /\ a - 2 \in 0..A /\ d \in 0..D /\ (a - 2) + d <= m
        BY <2>2, <3>1
      <4> QED  BY <2>3, <4>1
    <3>4. Whole(f, <<a, d>>)
      BY <2>2, <3>1, <3>2, <3>3, WholeOfThree
    <3> QED  BY <2>1, <3>4
  <2>6. CASE a >= 1 /\ d >= 1 /\ (a = 1 \/ d = 1)
    <3>1. a \in 1..A /\ d \in 1..D /\ a \in Nat \ {0} /\ d \in Nat \ {0}
      BY <2>1, <2>6
    <3>2. PICK of, r, s : OneFalls(a, d, of, r, s)
      BY <2>6, <3>1, OddsOfOne
    <3>3. Whole(f, <<a, d - 1>>) /\ Whole(f, <<a - 1, d>>)
      <4>1. /\ a \in 0..A /\ d - 1 \in 0..D /\ a + (d - 1) <= m
            /\ a - 1 \in 0..A /\ d \in 0..D /\ (a - 1) + d <= m
        BY <2>2, <3>1
      <4> QED  BY <2>3, <4>1
    <3>4. Whole(f, <<a, d>>)
      BY <2>2, <2>6, <3>1, <3>2, <3>3, WholeOfTwo
    <3> QED  BY <2>1, <3>4
  <2> QED  BY <2>1, <2>4, <2>5, <2>6
<1> HIDE DEF good
<1>4. \A m \in Nat : m \in good
  BY <1>2, <1>3, NumberInduction
<1>5. \A x \in C : x[1] + x[2] <= A + D
  BY DEF Cells
<1>6. A + D \in good
  <2>1. A + D \in Nat
    OBVIOUS
  <2> QED  BY <1>4, <2>1
<1> QED  BY <1>5, <1>6 DEF good

\* A fair worth that is just what the armies of one side are worth.
EvenBattle(A, D, f, ka, kd) ==
    /\ \A x \in Cells(A, D) : f[x] \in Int
    /\ \A a \in 1..A : f[<<a, 0>>] = ka * a
    /\ \A d \in 1..D : f[<<0, d>>] = kd * d
    /\ \A a \in 2..A, d \in 2..D : \A of, r, s, t :
          TwoFall(a, d, of, r, s, t) => EvenOfThree(f, a, d, of, r, s, t)
    /\ \A a \in 1..A, d \in 1..D : a = 1 \/ d = 1 => \A of, r, s :
          OneFalls(a, d, of, r, s) => EvenOfTwo(f, a, d, of, r, s)
LEMMA EvenWorth ==
    ASSUME NEW A \in Nat \ {0}, NEW D \in Nat \ {0}, Exact(A, D), NEW ka \in Int, NEW kd \in Int, NEW f,
           EvenBattle(A, D, f, ka, kd)
    PROVE  One * f[<<A, D>>] <= ka * Expectation(A, D).a + kd * Expectation(A, D).d
<1> USE DEF EvenBattle
<1> DEFINE cell == [x \in Cells(A, D) |-> f[x]]
           W == [cell |-> cell, a |-> ka, d |-> kd]
<1>1. W.cell = cell /\ W.a = ka /\ W.d = kd
  OBVIOUS
<1>2. cell \in [Cells(A, D) -> Int] /\ \A i \in 0..A, c \in 0..D : cell[<<i, c>>] = f[<<i, c>>]
  BY DEF Cells
<1> HIDE DEF cell, W
<1>3. Fair(A, D, W)
  <2>1. W.cell \in [Cells(A, D) -> Int] /\ W.a \in Int /\ W.d \in Int
    BY <1>1, <1>2
  <2>2. ASSUME NEW a \in 1..A PROVE W.cell[<<a, 0>>] <= W.a * a
    <3>1. W.cell[<<a, 0>>] = W.a * a /\ W.a * a \in Int
      BY <1>1, <1>2
    <3> QED  BY <3>1
  <2>3. ASSUME NEW d \in 1..D PROVE W.cell[<<0, d>>] <= W.d * d
    <3>1. W.cell[<<0, d>>] = W.d * d /\ W.d * d \in Int
      BY <1>1, <1>2
    <3> QED  BY <3>1
  <2>4. ASSUME NEW a \in 2..A, NEW d \in 2..D, NEW of, NEW r, NEW s, NEW t, TwoFall(a, d, of, r, s, t)
        PROVE  of * W.cell[<<a, d>>] =
                   r * W.cell[<<a, d - 2>>] + s * W.cell[<<a - 1, d - 1>>] + t * W.cell[<<a - 2, d>>]
    <3>1. /\ a \in 0..A /\ d - 2 \in 0..D /\ a - 1 \in 0..A /\ d - 1 \in 0..D
          /\ a - 2 \in 0..A /\ d \in 0..D
      OBVIOUS
    <3>2. EvenOfThree(f, a, d, of, r, s, t)
      BY <2>4
    <3> QED  BY <1>1, <1>2, <3>1, <3>2 DEF EvenOfThree
  <2>5. ASSUME NEW a \in 1..A, NEW d \in 1..D, a = 1 \/ d = 1, NEW of, NEW r, NEW s,
               OneFalls(a, d, of, r, s)
        PROVE  of * W.cell[<<a, d>>] = r * W.cell[<<a, d - 1>>] + s * W.cell[<<a - 1, d>>]
    <3>1. a \in 0..A /\ d - 1 \in 0..D /\ a - 1 \in 0..A /\ d \in 0..D
      OBVIOUS
    <3>2. EvenOfTwo(f, a, d, of, r, s)
      BY <2>5
    <3> QED  BY <1>1, <1>2, <3>1, <3>2 DEF EvenOfTwo
  <2> QED  BY <2>1, <2>2, <2>3, <2>4, <2>5 DEF Fair
<1>4. One * W.cell[<<A, D>>] <= W.a * Expectation(A, D).a + W.d * Expectation(A, D).d
  BY <1>3, WorthIsKept
<1>5. W.cell[<<A, D>>] = f[<<A, D>>]
  <2>1. A \in 0..A /\ D \in 0..D
    OBVIOUS
  <2> QED  BY <1>1, <1>2, <2>1
<1> QED  BY <1>1, <1>4, <1>5

\* Taken negative, such a worth is one again.
LEMMA Negative ==
    ASSUME NEW A \in Nat, NEW D \in Nat, NEW f, NEW ka \in Int, NEW kd \in Int, EvenBattle(A, D, f, ka, kd)
    PROVE  EvenBattle(A, D, [x \in Cells(A, D) |-> -f[x]], -ka, -kd)
<1> DEFINE g == [x \in Cells(A, D) |-> -f[x]]
<1>1. \A i \in 0..A, j \in 0..D : f[<<i, j>>] \in Int /\ g[<<i, j>>] = -f[<<i, j>>]
  BY DEF Cells, EvenBattle
<1>2. \A x \in Cells(A, D) : g[x] \in Int
  BY DEF EvenBattle
<1> HIDE DEF g
<1>3. ASSUME NEW a \in 1..A PROVE g[<<a, 0>>] = (-ka) * a
  <2>1. a \in 0..A /\ 0 \in 0..D /\ f[<<a, 0>>] = ka * a
    BY DEF EvenBattle
  <2>2. (-ka) * a = -(ka * a)
    OBVIOUS
  <2> QED  BY <1>1, <2>1, <2>2
<1>4. ASSUME NEW d \in 1..D PROVE g[<<0, d>>] = (-kd) * d
  <2>1. 0 \in 0..A /\ d \in 0..D /\ f[<<0, d>>] = kd * d
    BY DEF EvenBattle
  <2>2. (-kd) * d = -(kd * d)
    OBVIOUS
  <2> QED  BY <1>1, <2>1, <2>2
<1>5. ASSUME NEW a \in 2..A, NEW d \in 2..D, NEW of, NEW r, NEW s, NEW t, TwoFall(a, d, of, r, s, t)
      PROVE  EvenOfThree(g, a, d, of, r, s, t)
  <2> DEFINE u == f[<<a, d>>]
             u1 == f[<<a, d - 2>>]
             u2 == f[<<a - 1, d - 1>>]
             u3 == f[<<a - 2, d>>]
  <2>1. /\ a \in 0..A /\ d - 2 \in 0..D /\ a - 1 \in 0..A /\ d - 1 \in 0..D
        /\ a - 2 \in 0..A /\ d \in 0..D
    OBVIOUS
  <2>2. /\ u \in Int /\ g[<<a, d>>] = -u /\ u1 \in Int /\ g[<<a, d - 2>>] = -u1
        /\ u2 \in Int /\ g[<<a - 1, d - 1>>] = -u2 /\ u3 \in Int /\ g[<<a - 2, d>>] = -u3
    BY <1>1, <2>1
  <2>3. EvenOfThree(f, a, d, of, r, s, t)
    BY <1>5 DEF EvenBattle
  <2>4. of * u = r * u1 + s * u2 + t * u3
    BY <2>3 DEF EvenOfThree
  <2>5. of \in Nat /\ r \in Nat /\ s \in Nat /\ t \in Nat
    BY <1>5 DEF TwoFall
  <2> HIDE DEF u, u1, u2, u3
  <2>6. of * (-u) = -(of * u) /\ r * (-u1) = -(r * u1) /\ s * (-u2) = -(s * u2) /\ t * (-u3) = -(t * u3)
    BY <2>2, <2>5
  <2>7. of * (-u) = r * (-u1) + s * (-u2) + t * (-u3)
    <3> DEFINE v1 == r * u1
               v2 == s * u2
               v3 == t * u3
    <3>1. v1 \in Int /\ v2 \in Int /\ v3 \in Int
      BY <2>2, <2>5
    <3>2. of * (-u) = -(v1 + v2 + v3) /\ r * (-u1) = -v1 /\ s * (-u2) = -v2 /\ t * (-u3) = -v3
      BY <2>4, <2>6
    <3> HIDE DEF v1, v2, v3
    <3> QED  BY <3>1, <3>2
  <2> QED  BY <2>2, <2>7 DEF EvenOfThree
<1>6. ASSUME NEW a \in 1..A, NEW d \in 1..D, a = 1 \/ d = 1, NEW of, NEW r, NEW s,
             OneFalls(a, d, of, r, s)
      PROVE  EvenOfTwo(g, a, d, of, r, s)
  <2> DEFINE u == f[<<a, d>>]
             u1 == f[<<a, d - 1>>]
             u2 == f[<<a - 1, d>>]
  <2>1. a \in 0..A /\ d - 1 \in 0..D /\ a - 1 \in 0..A /\ d \in 0..D
    OBVIOUS
  <2>2. /\ u \in Int /\ g[<<a, d>>] = -u /\ u1 \in Int /\ g[<<a, d - 1>>] = -u1
        /\ u2 \in Int /\ g[<<a - 1, d>>] = -u2
    BY <1>1, <2>1
  <2>3. EvenOfTwo(f, a, d, of, r, s)
    BY <1>6 DEF EvenBattle
  <2>4. of * u = r * u1 + s * u2
    BY <2>3 DEF EvenOfTwo
  <2>5. of \in Nat /\ r \in Nat /\ s \in Nat
    BY <1>6 DEF OneFalls
  <2> HIDE DEF u, u1, u2
  <2>6. of * (-u) = -(of * u) /\ r * (-u1) = -(r * u1) /\ s * (-u2) = -(s * u2)
    BY <2>2, <2>5
  <2>7. of * (-u) = r * (-u1) + s * (-u2)
    <3> DEFINE v1 == r * u1
               v2 == s * u2
    <3>1. v1 \in Int /\ v2 \in Int
      BY <2>2, <2>5
    <3>2. of * (-u) = -(v1 + v2) /\ r * (-u1) = -v1 /\ s * (-u2) = -v2
      BY <2>4, <2>6
    <3> HIDE DEF v1, v2
    <3> QED  BY <3>1, <3>2
  <2> QED  BY <2>2, <2>7 DEF EvenOfTwo
<1>7. EvenBattle(A, D, g, -ka, -kd)
  BY <1>2, <1>3, <1>4, <1>5, <1>6 DEF EvenBattle
<1> QED  BY <1>7 DEF g

LEMMA WhatIsLeft ==
    ASSUME NEW A \in Nat \ {0}, NEW D \in Nat \ {0}, Exact(A, D), NEW f, NEW ka \in Int, NEW kd \in Int,
           EvenBattle(A, D, f, ka, kd)
    PROVE  One * f[<<A, D>>] = ka * Expectation(A, D).a + kd * Expectation(A, D).d
<1> DEFINE g == [x \in Cells(A, D) |-> -f[x]]
           ea == Expectation(A, D).a
           ed == Expectation(A, D).d
           u == f[<<A, D>>]
<1>1. ea \in Nat /\ ed \in Nat /\ One \in Nat
  BY ArmiesAreLeft, BattleTableAssumption
<1>2. u \in Int /\ g[<<A, D>>] = -u
  <2>1. <<A, D>> \in Cells(A, D)
    BY DEF Cells
  <2> QED  BY <2>1 DEF EvenBattle
<1>3. EvenBattle(A, D, g, -ka, -kd)
  <2>1. A \in Nat /\ D \in Nat
    OBVIOUS
  <2> QED  BY <2>1, Negative
<1> HIDE DEF g
<1>4. One * g[<<A, D>>] <= (-ka) * ea + (-kd) * ed
  <2>1. -ka \in Int /\ -kd \in Int
    OBVIOUS
  <2> QED  BY <1>3, <2>1, EvenWorth
<1>5. One * u <= ka * ea + kd * ed
  BY EvenWorth
<1> HIDE DEF ea, ed, u
<1> DEFINE p == One * u
           q == ka * ea
           r == kd * ed
<1>6. One * (-u) = -p /\ (-ka) * ea = -q /\ (-kd) * ed = -r
  BY <1>1, <1>2
<1>7. p \in Int /\ q \in Int /\ r \in Int
  BY <1>1, <1>2
<1>8. -p <= -q + -r /\ p <= q + r
  BY <1>2, <1>4, <1>5, <1>6
<1> HIDE DEF p, q, r
<1>9. p = q + r
  BY <1>7, <1>8
<1> QED  BY <1>9 DEF p, q, r, u, ea, ed

\* The table's rows leave what rolling the dice leaves.
LEMMA LeavesAreEven ==
    ASSUME NEW A \in Nat \ {0}, NEW D \in Nat \ {0}, Exact(A, D), NEW side \in {1, 2},
           NEW ka, NEW kd, ka = (IF side = 1 THEN One ELSE 0), kd = (IF side = 1 THEN 0 ELSE One)
    PROVE  EvenBattle(A, D, LeavesOf(A, D, side), ka, kd)
<1> DEFINE f == LeavesOf(A, D, side)
<1>0. A \in Nat /\ D \in Nat /\ One \in Nat
  BY BattleTableAssumption
<1>1. \A x \in Cells(A, D) : f[x] = Mean(f, x, side)
  BY <1>0, LeftIs
<1> HIDE DEF f
<1>2. \A x \in Cells(A, D) : Whole(f, x)
  BY <1>0, <1>1, AllAreWhole
<1>3. \A i \in 0..A, j \in 0..D : Whole(f, <<i, j>>) /\ f[<<i, j>>] = Mean(f, <<i, j>>, side)
  BY <1>1, <1>2 DEF Cells
<1>4. \A x \in Cells(A, D) : f[x] \in Int
  BY <1>2 DEF Whole
<1>5. ASSUME NEW a \in 1..A PROVE f[<<a, 0>>] = ka * a
  <2>1. f[<<a, 0>>] = <<a, 0>>[side] * One
    <3>1. a \in 0..A /\ 0 \in 0..D /\ <<a, 0>>[2] = 0
      OBVIOUS
    <3> QED  BY <1>3, <3>1 DEF Mean
  <2>2. CASE side = 1
    BY <1>0, <2>1, <2>2
  <2>3. CASE side = 2
    BY <1>0, <2>1, <2>3
  <2> QED  BY <2>2, <2>3
<1>6. ASSUME NEW d \in 1..D PROVE f[<<0, d>>] = kd * d
  <2>1. f[<<0, d>>] = <<0, d>>[side] * One
    <3>1. 0 \in 0..A /\ d \in 0..D /\ <<0, d>>[1] = 0
      OBVIOUS
    <3> QED  BY <1>3, <3>1 DEF Mean
  <2>2. CASE side = 1
    BY <1>0, <2>1, <2>2
  <2>3. CASE side = 2
    BY <1>0, <2>1, <2>3
  <2> QED  BY <2>2, <2>3
<1>7. ASSUME NEW a \in 2..A, NEW d \in 2..D, NEW of, NEW r, NEW s, NEW t, TwoFall(a, d, of, r, s, t)
      PROVE  EvenOfThree(f, a, d, of, r, s, t)
  <2>1. /\ a \in 0..A /\ d - 2 \in 0..D /\ a - 1 \in 0..A /\ d - 1 \in 0..D
        /\ a - 2 \in 0..A /\ d \in 0..D
    OBVIOUS
  <2>2. f[<<a, d>>] = Mean(f, <<a, d>>, side) /\ Whole(f, <<a, d - 2>>) /\ Whole(f, <<a - 1, d - 1>>)
        /\ Whole(f, <<a - 2, d>>)
    BY <1>3, <2>1
  <2> QED  BY <1>0, <1>7, <2>2, WholeOfThree
<1>8. ASSUME NEW a \in 1..A, NEW d \in 1..D, a = 1 \/ d = 1, NEW of, NEW r, NEW s,
             OneFalls(a, d, of, r, s)
      PROVE  EvenOfTwo(f, a, d, of, r, s)
  <2>1. a \in 0..A /\ d - 1 \in 0..D /\ a - 1 \in 0..A /\ d \in 0..D
    OBVIOUS
  <2>2. f[<<a, d>>] = Mean(f, <<a, d>>, side) /\ Whole(f, <<a, d - 1>>) /\ Whole(f, <<a - 1, d>>)
    BY <1>3, <2>1
  <2> QED  BY <1>0, <1>8, <2>2, WholeOfTwo
<1>9. EvenBattle(A, D, f, ka, kd)
  BY <1>4, <1>5, <1>6, <1>7, <1>8 DEF EvenBattle
<1> QED  BY <1>9 DEF f

LEMMA ExpectationIsLeft ==
    ASSUME NEW A \in Nat \ {0}, NEW D \in Nat \ {0}, Exact(A, D)
    PROVE  Expectation(A, D).a = Left(A, D, 1) /\ Expectation(A, D).d = Left(A, D, 2)
<1> DEFINE ea == Expectation(A, D).a
           ed == Expectation(A, D).d
           fa == LeavesOf(A, D, 1)
           fd == LeavesOf(A, D, 2)
           u == fa[<<A, D>>]
           v == fd[<<A, D>>]
<1>0. A \in Nat /\ D \in Nat /\ One \in Nat \ {0} /\ <<A, D>> \in Cells(A, D)
  BY BattleTableAssumption DEF Cells
<1>1. ea \in Nat /\ ed \in Nat
  BY ArmiesAreLeft
<1>2. EvenBattle(A, D, fa, One, 0) /\ EvenBattle(A, D, fd, 0, One)
  <2>1. EvenBattle(A, D, fa, IF 1 = 1 THEN One ELSE 0, IF 1 = 1 THEN 0 ELSE One)
    BY LeavesAreEven
  <2>2. EvenBattle(A, D, fd, IF 2 = 1 THEN One ELSE 0, IF 2 = 1 THEN 0 ELSE One)
    BY LeavesAreEven
  <2> QED  BY <2>1, <2>2
<1>3. u = Left(A, D, 1) /\ v = Left(A, D, 2)
  BY <1>0, LeftIs
<1> HIDE DEF fa, fd
<1>4. u \in Int /\ v \in Int
  BY <1>0, <1>2 DEF EvenBattle
<1>5. One * u = One * ea + 0 * ed
  BY <1>0, <1>2, WhatIsLeft
<1>6. One * v = 0 * ea + One * ed
  BY <1>0, <1>2, WhatIsLeft
<1> HIDE DEF ea, ed, u, v
<1>7. One * u = One * ea /\ One * v = One * ed
  BY <1>0, <1>1, <1>5, <1>6
<1>8. (One * u) \div One = u /\ (One * ea) \div One = ea
      /\ (One * v) \div One = v /\ (One * ed) \div One = ed
  BY <1>0, <1>1, <1>4
<1>9. ea = u /\ ed = v
  BY <1>7, <1>8
<1> QED  BY <1>3, <1>9 DEF ea, ed

(* What ComputeExpectedRemnants sums up in its three reused rows is, for a *)
(* battle of any size, what rolling the dice until one side has no army    *)
(* left gives on average.                                                  *)
THEOREM ExpectedIsRolled == BattleInit /\ [][BattleNext]_battle => []ExpectationIsOfTheDice
<1>1. BattleInit => BattleInv
  BY DEF BattleInit, BattleInv
<1>2. BattleInv /\ [BattleNext]_battle => BattleInv'
  BY DEF BattleInv, BattleNext
<1>3. BattleInv => ExpectationIsOfTheDice
  <2> SUFFICES ASSUME battle \in Battles PROVE ExpectationIsOfTheDice
    BY DEF BattleInv, ExpectationIsOfTheDice
  <2> DEFINE A == battle[1]
             D == battle[2]
  <2>1. A \in Nat \ {0} /\ D \in Nat \ {0} /\ Exact(A, D)
    BY BattleTableAssumption
  <2>2. Expectation(A, D).a = Left(A, D, 1) /\ Expectation(A, D).d = Left(A, D, 2)
    BY <2>1, ExpectationIsLeft
  <2> QED  BY <2>2 DEF ExpectationIsOfTheDice
<1> QED  BY <1>1, <1>2, <1>3, PTL
=============================================================================
