-------------------------- MODULE BondingCurve_proofs --------------------------
(***************************************************************************)
(* Proofs about the curve arithmetic and about BondingCurve, for every     *)
(* precision, curve, amount and administrator.  Of the arithmetic: the     *)
(* bisection is well defined and ends around the crossing it looks for,    *)
(* both quotes are natural numbers, no reserve mints more than the cap,    *)
(* and what it mints is covered up to a slack.  How far exp_neg, cut off   *)
(* and rounded, is from decreasing, and how far it falls between           *)
(* neighbours, is worked out from its series and its table.  With the      *)
(* constants of math.rs the slack is 1083 lamports, and the bisection      *)
(* inverts exp_neg up to 2507577 units of 10^-12: these are the laws of    *)
(* CurveLaws.  Of the program: the shapes of the accounts, the vault's     *)
(* reserve, the supply's cover, deprecation, the one-trade rule and        *)
(* renouncing.                                                             *)
(*                                                                         *)
(* The bisection is a recursive function.  That the recursion defines a    *)
(* function at all, and what holds for each of its rounds, is proved here  *)
(* from the least element of a set of counterexamples.                     *)
(***************************************************************************)
EXTENDS BondingCurveHistory, CurveLaws, WellFoundedInduction, TLAPS

(* Every nonempty set of natural numbers has a least element. *)
LEMMA LeastNat ==
  ASSUME NEW T \in SUBSET Nat, T # {}
  PROVE  \E m \in T : \A n \in T : m <= n
<1>. DEFINE Below == {ss \in Nat \X Nat : ss[1] < ss[2]}
<1>1. IsWellFoundedOn(Below, Nat)
  BY NatLessThanWellFounded DEF OpToRel
<1>. HIDE DEF Below
<1>2. PICK m \in T : \A n \in T : ~ (<<n, m>> \in Below)
  BY <1>1, WFMin
<1>3. \A n \in T : m <= n
  <2>. TAKE n \in T
  <2>1. m \in Nat /\ n \in Nat
    OBVIOUS
  <2>2. ~ (n < m)
    BY <1>2, <2>1 DEF Below
  <2>. QED BY <2>1, <2>2
<1>. QED BY <1>3

(* A function can be iterated from any start: the sequence exists. *)
LEMMA IterationExists ==
  ASSUME NEW S, NEW start \in S, NEW F \in [S -> S]
  PROVE  \E g \in [Nat -> S] :
            g[0] = start /\ \A i \in Nat : g[i + 1] = F[g[i]]
<1>. DEFINE Path(p, n) == /\ p \in [0 .. n -> S] /\ p[0] = start
                          /\ \A i \in 0 .. n - 1 : p[i + 1] = F[p[i]]
<1>1. \A n \in Nat : \E p : Path(p, n)
  <2>. DEFINE Without == {n \in Nat : \A p : ~ Path(p, n)}
  <2>1. SUFFICES ASSUME Without # {} PROVE FALSE
    OBVIOUS
  <2>2. PICK n \in Without : \A k \in Without : n <= k
    <3>1. Without \in SUBSET Nat
      OBVIOUS
    <3>. HIDE DEF Without
    <3>. QED BY <2>1, <3>1, LeastNat
  <2>3. CASE n = 0
    <3>1. Path([i \in 0 .. 0 |-> start], 0)
      OBVIOUS
    <3>. QED BY <2>3, <3>1
  <2>4. CASE n # 0
    <3>1. n - 1 \in Nat /\ n - 1 \notin Without
      <4>1. n \in Nat /\ n - 1 \in Nat /\ ~ (n <= n - 1)
        BY <2>4
      <4>. HIDE DEF Without
      <4>. QED BY <2>2, <4>1
    <3>2. PICK p : Path(p, n - 1)
      BY <3>1
    <3>. DEFINE q == [i \in 0 .. n |-> IF i = n THEN F[p[n - 1]] ELSE p[i]]
    <3>3. p[n - 1] \in S /\ F[p[n - 1]] \in S
      BY <3>1, <3>2
    <3>4. q \in [0 .. n -> S]
      BY <3>1, <3>2, <3>3
    <3>5. q[0] = start
      BY <2>4, <3>2
    <3>6. \A i \in 0 .. n - 1 : q[i + 1] = F[q[i]]
      BY <3>1, <3>2
    <3>. QED BY <2>2, <3>4, <3>5, <3>6
  <2>. QED BY <2>3, <2>4
<1>2. ASSUME NEW m \in Nat, NEW n \in Nat, NEW p, NEW q, Path(p, m), Path(q, n)
      PROVE  \A k \in 0 .. m : k <= n => p[k] = q[k]
  <2>. DEFINE Apart == {k \in 0 .. m : k <= n /\ p[k] # q[k]}
  <2>1. SUFFICES ASSUME Apart # {} PROVE FALSE
    OBVIOUS
  <2>2. PICK k \in Apart : \A j \in Apart : k <= j
    <3>1. Apart \in SUBSET Nat
      OBVIOUS
    <3>. HIDE DEF Apart
    <3>. QED BY <2>1, <3>1, LeastNat
  <2>3. k # 0
    BY <1>2, <2>2
  <2>4. k - 1 \in 0 .. m - 1 /\ k - 1 \in 0 .. n - 1 /\ k - 1 \notin Apart
    BY <2>2, <2>3
  <2>5. p[k - 1] = q[k - 1]
    BY <2>4
  <2>6. p[k] = F[p[k - 1]] /\ q[k] = F[q[k - 1]]
    <3>1. k = (k - 1) + 1
      BY <2>2
    <3>. QED BY <1>2, <2>4, <3>1
  <2>. QED BY <2>2, <2>5, <2>6
<1>. DEFINE path(n) == CHOOSE p : Path(p, n)
<1>3. \A n \in Nat : Path(path(n), n)
  BY <1>1
<1>. DEFINE g == [n \in Nat |-> path(n)[n]]
<1>. HIDE DEF path
<1>4. g \in [Nat -> S]
  BY <1>3
<1>5. g[0] = start
  BY <1>3
<1>6. ASSUME NEW i \in Nat PROVE g[i + 1] = F[g[i]]
  <2>1. path(i + 1)[i] = path(i)[i]
    <3>1. Path(path(i + 1), i + 1) /\ Path(path(i), i)
      BY <1>3
    <3>. HIDE DEF Path
    <3>. QED BY <1>2, <3>1
  <2>2. path(i + 1)[i + 1] = F[path(i + 1)[i]]
    BY <1>3
  <2>. QED BY <2>1, <2>2
<1>. QED BY <1>4, <1>5, <1>6

-----------------------------------------------------------------------------
(* The arithmetic of CurveMath *)

(* What the rounds of the bisection range over. *)
Interval == [low : 0 .. MaxExpX, high : 0 .. MaxExpX]

(* One round keeps the interval within 0 .. MaxExpX, whatever the target.  *)
LEMMA HalveType ==
  ASSUME NEW interval \in Interval, NEW target
  PROVE  Halve(interval, target) \in Interval
BY CurveConstants DEF Halve, Interval

(* The recursion of the bisection defines its rounds. *)
LEMMA RoundsExist ==
  ASSUME NEW target
  PROVE  \E after :
           /\ Bisection(target) = after[Rounds]
           /\ after[0] = [low |-> 0, high |-> MaxExpX]
           /\ \A i \in Nat : after[i + 1] = Halve(after[i], target)
<1>. DEFINE start == [low |-> 0, high |-> MaxExpX]
            F == [v \in Interval |-> Halve(v, target)]
            Rounded(f) == f = [i \in Nat |-> IF i = 0 THEN start
                                             ELSE Halve(f[i - 1], target)]
            after == CHOOSE f : Rounded(f)
<1>1. start \in Interval
  BY CurveConstants DEF Interval
<1>2. F \in [Interval -> Interval]
  BY HalveType
<1>3. PICK g \in [Nat -> Interval] :
         g[0] = start /\ \A i \in Nat : g[i + 1] = F[g[i]]
  <2>. HIDE DEF start, F
  <2>. QED BY <1>1, <1>2, IterationExists
<1>4. \A i \in Nat \ {0} : g[i] = Halve(g[i - 1], target)
  <2>. TAKE i \in Nat \ {0}
  <2>1. i - 1 \in Nat /\ i = (i - 1) + 1
    OBVIOUS
  <2>2. g[i] = F[g[i - 1]]
    BY <1>3, <2>1
  <2>. QED BY <2>1, <2>2
<1>5. Rounded(g)
  <2>. HIDE DEF start
  <2>. QED BY <1>3, <1>4
<1>6. Rounded(after)
  BY <1>5
<1>7. Bisection(target) = after[Rounds]
  BY DEF Bisection
<1>. HIDE DEF after
<1>8. after[0] = start
  BY <1>6
<1>9. ASSUME NEW i \in Nat PROVE after[i + 1] = Halve(after[i], target)
  <2>1. i + 1 \in Nat /\ i + 1 # 0 /\ (i + 1) - 1 = i
    OBVIOUS
  <2>. HIDE DEF start
  <2>. QED BY <1>6, <2>1
<1>. QED BY <1>7, <1>8, <1>9

(* What every round preserves, however it depends on the number of rounds  *)
(* done, holds of the result of the bisection.                             *)
LEMMA RoundsPreserve ==
  ASSUME NEW target, NEW S \in [Nat -> SUBSET Interval],
         [low |-> 0, high |-> MaxExpX] \in S[0],
         \A i \in Nat : \A v \in S[i] : Halve(v, target) \in S[i + 1]
  PROVE  Bisection(target) \in S[Rounds]
<1>1. PICK after :
         /\ Bisection(target) = after[Rounds]
         /\ after[0] = [low |-> 0, high |-> MaxExpX]
         /\ \A i \in Nat : after[i + 1] = Halve(after[i], target)
  BY RoundsExist
<1>2. \A i \in Nat : after[i] \in S[i]
  <2>. DEFINE Outside == {i \in Nat : after[i] \notin S[i]}
  <2>1. SUFFICES ASSUME Outside # {} PROVE FALSE
    OBVIOUS
  <2>2. PICK i \in Outside : \A j \in Outside : i <= j
    <3>1. Outside \in SUBSET Nat
      OBVIOUS
    <3>. HIDE DEF Outside
    <3>. QED BY <2>1, <3>1, LeastNat
  <2>3. i # 0
    BY <1>1, <2>2
  <2>4. i - 1 \in Nat /\ i = (i - 1) + 1 /\ after[i - 1] \in S[i - 1]
    BY <2>2, <2>3
  <2>5. after[i] = Halve(after[i - 1], target)
    BY <1>1, <2>4
  <2>. QED BY <2>2, <2>4, <2>5
<1>. QED BY <1>1, <1>2, CurveConstants

(* What solve_exp_inverse works with never leaves the domain of exp_neg.   *)
THEOREM BisectionType == \A target : Bisection(target) \in Interval
<1>. TAKE target
<1>. DEFINE S == [i \in Nat |-> Interval]
<1>1. S \in [Nat -> SUBSET Interval] /\ S[Rounds] = Interval
  BY CurveConstants
<1>2. [low |-> 0, high |-> MaxExpX] \in S[0]
  BY CurveConstants DEF Interval
<1>3. \A i \in Nat : \A v \in S[i] : Halve(v, target) \in S[i + 1]
  BY HalveType
<1>. HIDE DEF S
<1>. QED BY <1>1, <1>2, <1>3, RoundsPreserve

(* Truncating division of natural numbers. *)
LEMMA Division ==
  ASSUME NEW a \in Nat, NEW b \in Nat \ {0}
  PROVE  /\ a \div b \in Nat /\ a % b \in 0 .. b - 1
         /\ a = b * (a \div b) + (a % b)
OBVIOUS

(* A quotient is bounded as its dividend is. *)
LEMMA DivisionBound ==
  ASSUME NEW a \in Nat, NEW b \in Nat \ {0}, NEW c \in Nat, a <= c * b
  PROVE  a \div b <= c
<1>. DEFINE q == a \div b
            r == a % b
<1>1. q \in Nat /\ r \in 0 .. b - 1 /\ a = b * q + r
  BY Division
<1>. HIDE DEF q, r
<1>2. SUFFICES ASSUME q >= c + 1 PROVE FALSE
  BY <1>1 DEF q
<1>3. q - c - 1 \in Nat /\ b * (q - c - 1) >= 0
  BY <1>1, <1>2
<1>4. b * q = b * c + b + b * (q - c - 1)
  BY <1>1
<1>5. b * c = c * b
  OBVIOUS
<1>. QED BY <1>1, <1>3, <1>4, <1>5

(* saturating_sub stays within its first argument. *)
LEMMA MinusType ==
  ASSUME NEW a \in Nat, NEW b \in Nat
  PROVE  Minus(a, b) \in 0 .. a
BY DEF Minus

(* The truncated series is a natural number: each term is, and every       *)
(* subtraction saturates.                                                  *)
LEMMA ExpFractionType ==
  ASSUME NEW f \in Nat
  PROVE  ExpFraction(f) \in Nat
<1>. DEFINE f2 == (f * f) \div Scale
            f3 == (f2 * f) \div Scale
            f4 == (f3 * f) \div Scale
            f5 == (f4 * f) \div Scale
            f6 == (f5 * f) \div Scale
            f7 == (f6 * f) \div Scale
            f8 == (f7 * f) \div Scale
            t2 == f2 \div 2
            t3 == f3 \div 6
            t4 == f4 \div 24
            t5 == f5 \div 120
            t6 == f6 \div 720
            t7 == f7 \div 5040
            t8 == f8 \div 40320
            s1 == Minus(Scale, f) + t2
            s2 == Minus(s1, t3) + t4
            s3 == Minus(s2, t5) + t6
            s4 == Minus(s3, t7) + t8
<1>1. Scale \in Nat \ {0}
  BY CurveConstants
<1>2. \A n \in Nat : (n * f) \div Scale \in Nat
  BY <1>1, Division
<1>3. f2 \in Nat /\ f3 \in Nat /\ f4 \in Nat /\ f5 \in Nat
  BY <1>2
<1>4. f6 \in Nat /\ f7 \in Nat /\ f8 \in Nat
  <2>. HIDE DEF f5
  <2>. QED BY <1>2, <1>3
<1>5. s4 = ExpFraction(f)
  BY DEF ExpFraction
<1>. HIDE DEF f2, f3, f4, f5, f6, f7, f8
<1>6. /\ t2 \in Nat /\ t3 \in Nat /\ t4 \in Nat /\ t5 \in Nat
      /\ t6 \in Nat /\ t7 \in Nat /\ t8 \in Nat
  BY <1>3, <1>4
<1>. HIDE DEF t2, t3, t4, t5, t6, t7, t8
<1>7. \A m \in Nat, n \in Nat : Minus(m, n) \in Nat
  BY MinusType
<1>8. s1 \in Nat
  BY <1>1, <1>6, <1>7
<1>. HIDE DEF s1
<1>9. s2 \in Nat
  BY <1>6, <1>7, <1>8
<1>. HIDE DEF s2
<1>10. s3 \in Nat
  BY <1>6, <1>7, <1>9
<1>. HIDE DEF s3
<1>11. s4 \in Nat
  BY <1>6, <1>7, <1>10
<1>. HIDE DEF s4
<1>. QED BY <1>5, <1>11

(* exp_neg is a natural number: its table is read inside its domain. *)
LEMMA ExpNegType ==
  ASSUME NEW x \in Nat
  PROVE  ExpNeg(x) \in Nat
<1>1. CASE x >= MaxExpX
  BY <1>1 DEF ExpNeg
<1>2. CASE ~ (x >= MaxExpX)
  <2>1. Scale \in Nat \ {0} /\ MaxExpX \in Nat /\ MaxExpX < 5 * Scale
    BY CurveConstants
  <2>. DEFINE q == x \div Scale
              r == x % Scale
  <2>2. q \in Nat /\ r \in 0 .. Scale - 1 /\ x = Scale * q + r
    BY <2>1, Division
  <2>3. x < 5 * Scale
    BY <1>2, <2>1
  <2>. HIDE DEF q, r
  <2>4. q <= 4
    <3>1. SUFFICES ASSUME q >= 5 PROVE FALSE
      BY <2>2
    <3>2. Scale * q = 5 * Scale + Scale * (q - 5) /\ Scale * (q - 5) >= 0
      BY <2>1, <2>2, <3>1
    <3>. QED BY <2>1, <2>2, <2>3, <3>2
  <2>5. ExpNegInt[q] \in Nat
    BY <2>1, <2>2, <2>4, CurveConstants
  <2>6. ExpFraction(r) \in Nat
    BY <2>1, <2>2, ExpFractionType
  <2>7. ExpNegInt[q] * ExpFraction(r) \in Nat
    BY <2>5, <2>6
  <2>8. (ExpNegInt[q] * ExpFraction(r)) \div Scale \in Nat
    BY <2>1, <2>7, Division
  <2>. QED BY <1>2, <2>8 DEF ExpNeg, q, r
<1>. QED BY <1>1, <1>2, CurveConstants

(* The intervals of the bisection after a number of rounds of which power  *)
(* is the power of two: exp_neg crosses the target between its ends, and   *)
(* its length has been halved in each round, up to one unit.               *)
Bracket(target, power) ==
  {v \in Interval :
     /\ v.low <= v.high
     /\ v.low = 0 \/ ExpNeg(v.low) > target
     /\ ExpNeg(v.high) <= target
     /\ power * (v.high - v.low - 1) <= MaxExpX}

(* A round halves the interval and keeps the crossing inside. *)
LEMMA HalveBrackets ==
  ASSUME NEW target \in Nat, NEW power \in Nat, NEW v \in Bracket(target, power)
  PROVE  Halve(v, target) \in Bracket(target, 2 * power)
<1>. DEFINE mid == (v.low + v.high) \div 2
            w == Halve(v, target)
<1>1. /\ v \in Interval /\ v.low \in Nat /\ v.high \in Nat /\ v.low <= v.high
      /\ v.low = 0 \/ ExpNeg(v.low) > target
      /\ ExpNeg(v.high) <= target
      /\ power * (v.high - v.low - 1) <= MaxExpX
      /\ MaxExpX \in Nat
  BY CurveConstants DEF Bracket, Interval
<1>2. /\ mid \in Nat /\ v.low <= mid /\ mid <= v.high
      /\ 2 * mid <= v.low + v.high /\ v.low + v.high <= 2 * mid + 1
  BY <1>1
<1>3. ExpNeg(mid) \in Nat
  BY <1>2, ExpNegType
<1>4. /\ w \in Interval
      /\ ExpNeg(mid) > target => w.low = mid /\ w.high = v.high
      /\ ~ (ExpNeg(mid) > target) => w.low = v.low /\ w.high = mid
  BY <1>1, HalveType DEF Halve, Interval
<1>. HIDE DEF mid, w
<1>5. /\ w.low \in Nat /\ w.high \in Nat /\ w.low <= w.high
      /\ 2 * (w.high - w.low - 1) <= v.high - v.low - 1
  BY <1>1, <1>2, <1>4
<1>6. (2 * power) * (w.high - w.low - 1) <= MaxExpX
  <2>. DEFINE long == v.high - v.low - 1
              short == w.high - w.low - 1
  <2>1. long \in Int /\ short \in Int /\ 2 * short <= long
    BY <1>1, <1>5
  <2>2. power * long <= MaxExpX
    BY <1>1
  <2>. HIDE DEF long, short
  <2>3. long - 2 * short \in Nat /\ power * (long - 2 * short) >= 0
    BY <2>1
  <2>4. power * long = power * (2 * short) + power * (long - 2 * short)
    BY <2>1
  <2>5. (2 * power) * short = power * (2 * short)
    BY <2>1
  <2>6. (2 * power) * short <= MaxExpX
    BY <1>1, <2>1, <2>2, <2>3, <2>4, <2>5
  <2>. QED BY <2>6 DEF short
<1>7. (w.low = 0 \/ ExpNeg(w.low) > target) /\ ExpNeg(w.high) <= target
  BY <1>1, <1>3, <1>4
<1>. QED BY <1>4, <1>5, <1>6, <1>7 DEF Bracket, w

(* What solve_exp_inverse returns lies in an interval that the crossing of *)
(* exp_neg and the target lies in as well, and that is no longer than      *)
(* MAX_EXP_X halved once a round, and one unit of the fixed point.         *)
THEOREM BisectionBrackets ==
  ASSUME NEW target \in 1 .. Scale - 1, NEW doubled \in [Nat -> Nat],
         doubled[0] = 1, \A i \in Nat : doubled[i + 1] = 2 * doubled[i]
  PROVE  /\ Bisection(target) \in Bracket(target, doubled[Rounds])
         /\ Bisection(target).low <= SolveExpInverse(target)
         /\ SolveExpInverse(target) <= Bisection(target).high
<1>. DEFINE S == [i \in Nat |-> Bracket(target, doubled[i])]
            b == Bisection(target)
<1>1. Scale \in Nat /\ MaxExpX \in Nat /\ Rounds \in Nat
  BY CurveConstants
<1>2. S \in [Nat -> SUBSET Interval] /\ S[Rounds] = Bracket(target, doubled[Rounds])
  BY <1>1 DEF Bracket
<1>3. [low |-> 0, high |-> MaxExpX] \in S[0]
  <2>1. ExpNeg(MaxExpX) <= target
    BY <1>1 DEF ExpNeg
  <2>2. doubled[0] * (MaxExpX - 0 - 1) <= MaxExpX
    BY <1>1
  <2>. QED BY <1>1, <2>1, <2>2 DEF Bracket, Interval
<1>4. \A i \in Nat : \A v \in S[i] : Halve(v, target) \in S[i + 1]
  <2>. SUFFICES ASSUME NEW i \in Nat, NEW v \in Bracket(target, doubled[i])
                PROVE  Halve(v, target) \in Bracket(target, doubled[i + 1])
    OBVIOUS
  <2>1. Halve(v, target) \in Bracket(target, 2 * doubled[i])
    BY <1>1, HalveBrackets
  <2>. QED BY <2>1
<1>. HIDE DEF S
<1>5. b \in Bracket(target, doubled[Rounds])
  BY <1>2, <1>3, <1>4, RoundsPreserve
<1>6. SolveExpInverse(target) = (b.low + b.high) \div 2
  BY <1>1 DEF SolveExpInverse, Middle
<1>. HIDE DEF b
<1>7. b.low \in Nat /\ b.high \in Nat /\ b.low <= b.high
  BY <1>1, <1>5 DEF Bracket, Interval
<1>8. b.low <= SolveExpInverse(target) /\ SolveExpInverse(target) <= b.high
  BY <1>6, <1>7
<1>. QED BY <1>5, <1>8 DEF b

(* No reserve mints more than the cap. *)
THEOREM MintedWithinCap ==
  ASSUME NEW r \in Nat
  PROVE  MintedAt(r) \in 0 .. CurveK
<1>1. Scale \in Nat \ {0} /\ CurveS \in Nat \ {0} /\ CurveK \in Nat
  BY CurveConstants
<1>2. r * Scale \in Nat
  BY <1>1
<1>3. (r * Scale) \div CurveS \in Nat
  BY <1>1, <1>2, Division
<1>. DEFINE part == Minus(Scale, ExpNeg((r * Scale) \div CurveS))
<1>4. part \in 0 .. Scale
  BY <1>1, <1>3, ExpNegType, MinusType
<1>5. MintedAt(r) = (CurveK * part) \div Scale
  BY DEF MintedAt
<1>. HIDE DEF part
<1>6. CurveK * part \in Nat /\ CurveK * part <= CurveK * Scale
  <2>1. CurveK * (Scale - part) >= 0
    BY <1>1, <1>4
  <2>2. CurveK * Scale = CurveK * part + CurveK * (Scale - part)
    BY <1>1, <1>4
  <2>. QED BY <1>1, <1>4, <2>1, <2>2
<1>7. (CurveK * part) \div Scale \in Nat /\ (CurveK * part) \div Scale <= CurveK
  BY <1>1, <1>6, Division, DivisionBound
<1>. QED BY <1>1, <1>5, <1>7

(* The argument of the curve at a supply is a natural number. *)
LEMMA CurveArgumentType ==
  ASSUME NEW minted \in Nat
  PROVE  CurveArgument(minted) \in Nat
<1>. DEFINE y == (minted * Scale) \div CurveK
            b == Bisection(Minus(Scale, y))
<1>1. MaxExpX \in Nat
  BY CurveConstants
<1>2. b \in Interval
  BY BisectionType
<1>3. Middle(b) \in Nat
  <2>. HIDE DEF b
  <2>. QED BY <1>1, <1>2 DEF Middle, Interval
<1>. HIDE DEF y
<1>. QED BY <1>1, <1>3 DEF CurveArgument, LnInv, SolveExpInverse, y

(* exp_neg decreases over any distance of d or more, whatever its rounding *)
(* and the joints of its table do to neighbours, and is positive before    *)
(* the cut-off.                                                            *)
Decreasing(d) ==
  /\ \A a \in Nat, b \in Nat : a >= b + d => ExpNeg(a) <= ExpNeg(b)
  /\ \A a \in 0 .. MaxExpX - 1 : ExpNeg(a) > 0

(* What the curve mints against a reserve it prices back at no more than   *)
(* the reserve and a slack.                                                *)
MintsCovered(slack) ==
  \A r \in Nat : CurveS * CurveArgument(MintedAt(r)) <= Scale * (r + slack)

(* A product of natural numbers keeps an order. *)
LEMMA ProductBound ==
  ASSUME NEW a \in Nat, NEW b \in Int, NEW c \in Int, b <= c
  PROVE  a * b <= a * c
<1>1. c - b \in Nat /\ a * (c - b) >= 0
  OBVIOUS
<1>2. a * c = a * b + a * (c - b)
  OBVIOUS
<1>. QED BY <1>1, <1>2

(* Scaled up and cut twice, a part of the cap loses, never gains.          *)
LEMMA PartLoses ==
  ASSUME NEW part \in Nat
  PROVE  LET y == (((CurveK * part) \div Scale) * Scale) \div CurveK
         IN y \in Nat /\ y <= part
<1>. DEFINE minted == (CurveK * part) \div Scale
            rest == (CurveK * part) % Scale
<1>1. Scale \in Nat \ {0} /\ CurveK \in Nat \ {0} /\ CurveK * part \in Nat
  BY CurveConstants
<1>2. minted \in Nat /\ rest \in Nat /\ CurveK * part = Scale * minted + rest
  BY <1>1, Division
<1>. HIDE DEF minted, rest
<1>3. minted * Scale \in Nat /\ minted * Scale <= part * CurveK
  <2>1. minted * Scale = Scale * minted /\ part * CurveK = CurveK * part
    BY <1>1, <1>2
  <2>2. Scale * minted \in Nat
    BY <1>1, <1>2
  <2>. QED BY <1>1, <1>2, <2>1, <2>2
<1>4. (minted * Scale) \div CurveK \in Nat /\ (minted * Scale) \div CurveK <= part
  BY <1>1, <1>3, Division, DivisionBound
<1>. QED BY <1>4 DEF minted

(* The argument found for what an argument x mints exceeds x by no more    *)
(* than d and half the last interval of the bisection.                     *)
LEMMA ArgumentReturns ==
  ASSUME NEW d \in Nat \ {0}, Decreasing(d),
         NEW doubled \in [Nat -> Nat \ {0}],
         doubled[0] = 1, \A i \in Nat : doubled[i + 1] = 2 * doubled[i],
         NEW r \in Nat, NEW x \in Nat, x = (r * Scale) \div CurveS
  PROVE  LET arg == CurveArgument(MintedAt(r))
         IN doubled[Rounds] * (2 * (arg - x - d) + 1) <= MaxExpX
<1>. DEFINE E == ExpNeg(x)
            part == Minus(Scale, E)
            y == (MintedAt(r) * Scale) \div CurveK
            arg == CurveArgument(MintedAt(r))
            power == doubled[Rounds]
            target == Scale - y
<1>1. Scale \in Nat \ {0} /\ MaxExpX \in Nat /\ power \in Nat \ {0}
  BY CurveConstants
<1>2. E \in Nat /\ part \in Nat
  <2>1. E \in Nat
    BY ExpNegType
  <2>. HIDE DEF E
  <2>2. part \in 0 .. Scale
    BY <1>1, <2>1, MinusType
  <2>. QED BY <2>1, <2>2
<1>3. y \in Nat /\ y <= part
  <2>1. MintedAt(r) = (CurveK * part) \div Scale
    BY DEF MintedAt
  <2>. HIDE DEF part
  <2>. QED BY <1>2, <2>1, PartLoses
<1>4. arg = IF y = 0 THEN 0 ELSE SolveExpInverse(Minus(Scale, y))
  BY DEF CurveArgument, LnInv
<1>. HIDE DEF E, y, arg, power
<1>5. SUFFICES power * (2 * (arg - x - d) + 1) <= MaxExpX
  BY DEF arg, power
<1>6. ASSUME arg \in Nat, arg <= x PROVE power * (2 * (arg - x - d) + 1) <= MaxExpX
  <2>1. 2 * (arg - x - d) + 1 \in Int /\ 2 * (arg - x - d) + 1 <= 0
    BY <1>6
  <2>. DEFINE over == 2 * (arg - x - d) + 1
  <2>2. over \in Int /\ over <= 0
    BY <2>1
  <2>. HIDE DEF over
  <2>3. power * over <= power * 0
    BY <1>1, <2>2, ProductBound
  <2>4. power * over <= MaxExpX
    BY <1>1, <2>2, <2>3
  <2>. QED BY <2>4 DEF over
<1>7. CASE y = 0
  BY <1>4, <1>6, <1>7
<1>8. CASE y # 0
  <2>1. E <= target /\ target \in 0 .. Scale - 1 /\ Minus(Scale, y) = target
    BY <1>1, <1>2, <1>3, <1>8 DEF Minus
  <2>. HIDE DEF target
  <2>2. CASE target = 0
    <3>1. E = 0
      BY <1>2, <2>1, <2>2
    <3>2. x >= MaxExpX
      BY <1>1, <3>1 DEF Decreasing, E
    <3>3. arg = MaxExpX
      BY <1>1, <1>4, <1>8, <2>1, <2>2 DEF SolveExpInverse
    <3>. QED BY <1>1, <1>6, <3>2, <3>3
  <2>3. CASE target # 0
    <3>. DEFINE b == Bisection(target)
    <3>1. target \in 1 .. Scale - 1
      BY <1>1, <2>1, <2>3
    <3>2. b \in Bracket(target, power)
      BY <3>1, BisectionBrackets DEF power
    <3>3. arg = (b.low + b.high) \div 2
      BY <1>1, <1>4, <1>8, <2>1, <3>1 DEF SolveExpInverse, Middle
    <3>. HIDE DEF b
    <3>4. /\ b.low \in Nat /\ b.high \in Nat /\ b.low <= b.high
          /\ b.low = 0 \/ ExpNeg(b.low) > target
          /\ power * (b.high - b.low - 1) <= MaxExpX
      BY <1>1, <3>2 DEF Bracket, Interval
    <3>5. b.low + 1 <= x + d
      <4>1. CASE b.low = 0
        BY <4>1
      <4>2. CASE ExpNeg(b.low) > target
        <5>1. ExpNeg(b.low) \in Nat /\ ExpNeg(b.low) > E
          BY <1>2, <2>1, <3>4, <4>2, ExpNegType
        <5>2. b.low >= x + d => ExpNeg(b.low) <= E
          BY <3>4 DEF Decreasing, E
        <5>3. ~ (b.low >= x + d)
          BY <1>2, <5>1, <5>2
        <5>. QED BY <3>4, <5>3
      <4>. QED BY <3>4, <4>1, <4>2
    <3>6. arg \in Nat /\ 2 * arg <= b.low + b.high
      BY <3>3, <3>4
    <3>. DEFINE over == 2 * (arg - x - d) + 1
                long == b.high - b.low - 1
    <3>7. over \in Int /\ long \in Int /\ over <= long
      BY <3>4, <3>5, <3>6
    <3>8. power * long <= MaxExpX
      BY <3>4
    <3>. HIDE DEF over, long
    <3>9. power * over <= power * long /\ power * over \in Int /\ power * long \in Int
      BY <1>1, <3>7, ProductBound
    <3>10. power * over <= MaxExpX
      BY <1>1, <3>8, <3>9
    <3>. QED BY <3>10 DEF over
  <2>. QED BY <2>2, <2>3
<1>. QED BY <1>7, <1>8

(* Whatever exp_neg's rounding does within d, and however many the rounds, *)
(* a mint is covered up to this slack: d, and what the rounds leave of the *)
(* interval.                                                               *)
THEOREM MintsAreCovered ==
  ASSUME NEW d \in Nat \ {0}, Decreasing(d),
         NEW doubled \in [Nat -> Nat \ {0}],
         doubled[0] = 1, \A i \in Nat : doubled[i + 1] = 2 * doubled[i],
         NEW slack \in Nat,
         CurveS * (MaxExpX + doubled[Rounds] * (2 * d - 1))
           <= (2 * doubled[Rounds]) * (Scale * slack)
  PROVE  MintsCovered(slack)
<1>. SUFFICES ASSUME NEW r \in Nat
              PROVE  CurveS * CurveArgument(MintedAt(r)) <= Scale * (r + slack)
  BY DEF MintsCovered
<1>. DEFINE amount == r * Scale
            x == amount \div CurveS
            rest == amount % CurveS
            arg == CurveArgument(MintedAt(r))
            power == doubled[Rounds]
            slop == MaxExpX + power * (2 * d - 1)
            twice == 2 * power
<1>1. /\ Scale \in Nat \ {0} /\ CurveS \in Nat \ {0} /\ MaxExpX \in Nat
      /\ power \in Nat \ {0} /\ amount \in Nat
  BY CurveConstants
<1>2. x \in Nat /\ rest \in Nat /\ r * Scale = CurveS * x + rest
  <2>. HIDE DEF amount
  <2>1. /\ x \in Nat /\ rest \in 0 .. CurveS - 1
        /\ amount = CurveS * x + rest
    BY <1>1, Division
  <2>. QED BY <1>1, <2>1 DEF amount
<1>3. arg \in Nat
  <2>1. MintedAt(r) \in Nat
    BY MintedWithinCap, CurveConstants
  <2>. QED BY <2>1, CurveArgumentType
<1>4. power * (2 * (arg - x - d) + 1) <= MaxExpX
  <2>. DEFINE X == x
  <2>1. X \in Nat /\ X = (r * Scale) \div CurveS
    BY <1>2
  <2>. HIDE DEF X
  <2>2. power * (2 * (arg - X - d) + 1) <= MaxExpX
    BY <2>1, ArgumentReturns
  <2>. QED BY <2>2 DEF X
<1>5. CurveS * slop <= twice * (Scale * slack)
  OBVIOUS
<1>. HIDE DEF x, rest, arg, power
<1>6. twice * arg <= slop + twice * x
  <2>1. power * (2 * (arg - x - d) + 1)
          = twice * arg - twice * x - power * (2 * d - 1)
    BY <1>1, <1>2, <1>3
  <2>2. /\ twice * arg \in Int /\ twice * x \in Int /\ power * (2 * d - 1) \in Int
    BY <1>1, <1>2, <1>3
  <2>. QED BY <1>1, <1>4, <2>1, <2>2
<1>7. slop \in Int /\ twice \in Nat \ {0}
  BY <1>1
<1>. HIDE DEF slop, twice
<1>8. CurveS * (twice * arg) <= CurveS * slop + CurveS * (twice * x)
  <2>1. twice * arg \in Int /\ slop + twice * x \in Int
    BY <1>2, <1>3, <1>7
  <2>2. CurveS * (twice * arg) <= CurveS * (slop + twice * x)
    BY <1>1, <1>6, <2>1, ProductBound
  <2>3. CurveS * (slop + twice * x) = CurveS * slop + CurveS * (twice * x)
    BY <1>1, <1>2, <1>7
  <2>. QED BY <2>2, <2>3
<1>9. CurveS * (twice * x) <= twice * (Scale * r)
  <2>1. CurveS * x \in Int /\ Scale * r \in Int /\ CurveS * x <= Scale * r
    BY <1>1, <1>2
  <2>2. twice * (CurveS * x) <= twice * (Scale * r)
    BY <1>7, <2>1, ProductBound
  <2>3. CurveS * (twice * x) = twice * (CurveS * x)
    BY <1>1, <1>2, <1>7
  <2>. QED BY <2>2, <2>3
<1>. DEFINE left == CurveS * arg
            right == Scale * (r + slack)
<1>10. left \in Int /\ right \in Int /\ twice * left <= twice * right
  <2>1. twice * right = twice * (Scale * r) + twice * (Scale * slack)
    BY <1>1, <1>7
  <2>2. twice * left = CurveS * (twice * arg)
    BY <1>1, <1>3, <1>7
  <2>3. /\ CurveS * (twice * arg) \in Int /\ CurveS * slop \in Int
        /\ CurveS * (twice * x) \in Int /\ twice * (Scale * r) \in Int
        /\ twice * (Scale * slack) \in Int /\ left \in Int /\ right \in Int
    BY <1>1, <1>2, <1>3, <1>7
  <2>. HIDE DEF left, right
  <2>. QED BY <1>5, <1>8, <1>9, <2>1, <2>2, <2>3
<1>. HIDE DEF left, right
<1>11. left <= right
  <2>1. SUFFICES ASSUME right + 1 <= left PROVE FALSE
    BY <1>10
  <2>2. twice * (right + 1) <= twice * left
    BY <1>7, <1>10, <2>1, ProductBound
  <2>3. twice * (right + 1) = twice * right + twice /\ twice * right \in Int
    BY <1>7, <1>10
  <2>. QED BY <1>7, <1>10, <2>2, <2>3
<1>. QED BY <1>11 DEF left, right, arg

(* A buy is quoted a number of tokens that keeps the supply within the cap.*)
LEMMA QuoteBuyType ==
  ASSUME NEW cumulativeSol \in Nat, NEW totalMinted \in 0 .. CurveK,
         NEW solIn \in Nat
  PROVE  LET out == QuoteBuy(cumulativeSol, totalMinted, solIn).out
         IN out \in Nat /\ totalMinted + out \in 0 .. CurveK
<1>1. CurveK \in Nat
  BY CurveConstants
<1>2. MintedAt(cumulativeSol + solIn) \in 0 .. CurveK
  BY MintedWithinCap
<1>. DEFINE tokenOut == Minus(MintedAt(cumulativeSol + solIn), totalMinted)
<1>3. tokenOut \in Nat /\ totalMinted + tokenOut \in 0 .. CurveK
  BY <1>1, <1>2 DEF Minus
<1>4. QuoteBuy(cumulativeSol, totalMinted, solIn).out \in {0, tokenOut}
  BY DEF QuoteBuy, NoQuote
<1>. HIDE DEF tokenOut
<1>. QED BY <1>1, <1>3, <1>4

(* A sale is quoted a natural number of SOL. *)
LEMMA QuoteSellType ==
  ASSUME NEW totalMinted \in Nat, NEW tokenIn \in Nat
  PROVE  QuoteSell(totalMinted, tokenIn).out \in Nat
<1>1. Scale \in Nat \ {0} /\ CurveS \in Nat
  BY CurveConstants
<1>. DEFINE before == CurveArgument(totalMinted)
            after == CurveArgument(Minus(totalMinted, tokenIn))
            solOut == (CurveS * Minus(before, after)) \div Scale
<1>2. before \in Nat
  BY CurveArgumentType
<1>3. after \in Nat
  BY MinusType, CurveArgumentType
<1>4. CurveS * Minus(before, after) \in Nat
  <2>. HIDE DEF before, after
  <2>. QED BY <1>1, <1>2, <1>3, MinusType
<1>5. solOut \in Nat
  BY <1>1, <1>4, Division
<1>6. QuoteSell(totalMinted, tokenIn).out \in {0, solOut}
  BY DEF QuoteSell, NoQuote
<1>. HIDE DEF solOut
<1>. QED BY <1>5, <1>6

(* The fee is no larger than the amount. *)
LEMMA LockFeeType ==
  ASSUME NEW sol \in Nat
  PROVE  LockFee(sol) \in Nat /\ LockFee(sol) <= sol
BY DEF LockFee

-----------------------------------------------------------------------------
(* The amounts of the trades *)

(* What the trades need of TypeOK.  The composition of the programs has it *)
(* too, without this module's bounds on the clock and the treasury.        *)
Shaped ==
  /\ curve \in [open : BOOLEAN, cumulativeSol : Nat, totalMinted : 0 .. CurveK,
                selfDeprecated : BOOLEAN, lastSlot : Nat]
  /\ vault \in Nat

LEMMA TypeShapes == TypeOK => Shaped
BY CurveBounds DEF TypeOK, Shaped

(* What a buy's amounts are: the fee and the net amount are natural, and   *)
(* the tokens keep the supply within the cap.                              *)
LEMMA BuyAmounts ==
  ASSUME Shaped, NEW sol \in SolAmounts
  PROVE  LET net == sol - LockFee(sol)
             out == QuoteBuy(curve.cumulativeSol, curve.totalMinted, net).out
         IN /\ LockFee(sol) \in Nat /\ net \in Nat
            /\ out \in Nat /\ curve.totalMinted + out \in 0 .. CurveK
<1>1. sol \in Nat
  BY CurveBounds
<1>2. LockFee(sol) \in Nat /\ sol - LockFee(sol) \in Nat
  BY <1>1, LockFeeType
<1>3. curve.cumulativeSol \in Nat /\ curve.totalMinted \in 0 .. CurveK
  BY DEF Shaped
<1>. QED BY <1>2, <1>3, QuoteBuyType

(* What a sale's amounts are: natural numbers of tokens and of SOL. *)
LEMMA SellAmounts ==
  ASSUME Shaped, NEW p \in Portions
  PROVE  LET tokenIn == curve.totalMinted \div p
         IN tokenIn \in Nat /\ QuoteSell(curve.totalMinted, tokenIn).out \in Nat
<1>1. curve.totalMinted \in Nat
  BY CurveConstants DEF Shaped
<1>2. p \in Nat \ {0}
  BY CurveBounds
<1>3. curve.totalMinted \div p \in Nat
  BY <1>1, <1>2, Division
<1>. QED BY <1>1, <1>3, QuoteSellType

-----------------------------------------------------------------------------
(* Types *)

(* Before the launch the accounts have their shape. *)
LEMMA TypeInit == Init => TypeOK
<1>1. CurveK \in Nat /\ MaxSlot \in Nat /\ MaxSlot > 0 /\ MaxTreasury \in Nat
  BY CurveConstants, CurveBounds
<1>. QED BY <1>1 DEF Init, TypeOK, NoCurve, NoConfig

(* A buy keeps the accounts' shape: net SOL in, tokens within the cap. *)
LEMMA TypeBuy ==
  ASSUME TypeOK, NEW sol \in SolAmounts, Buy(sol)
  PROVE  TypeOK'
<1>. DEFINE net == sol - LockFee(sol)
            out == QuoteBuy(curve.cumulativeSol, curve.totalMinted, net).out
<1>1. /\ LockFee(sol) \in Nat /\ net \in Nat
      /\ out \in Nat /\ curve.totalMinted + out \in 0 .. CurveK
  BY BuyAmounts, TypeShapes
<1>2. /\ lockFees' = lockFees + LockFee(sol) /\ vault' = vault + net
      /\ RecordBuy(net, out)
      /\ UNCHANGED <<treasury, admin, slot>>
  BY DEF Buy
<1>. HIDE DEF net, out
<1>3. MaxSlot \in Nat
  BY CurveBounds
<1>4. curve' \in [open : BOOLEAN, cumulativeSol : Nat, totalMinted : 0 .. CurveK,
                  selfDeprecated : BOOLEAN, lastSlot : 0 .. MaxSlot]
  <2>1. slot \in 0 .. MaxSlot
    BY <1>3 DEF TypeOK
  <2>2. curve.cumulativeSol + net \in Nat
    BY <1>1 DEF TypeOK
  <2>. QED BY <1>1, <1>2, <2>1, <2>2, Zenon DEF RecordBuy, TypeOK
<1>. QED BY <1>1, <1>2, <1>4 DEF TypeOK

(* A sale does too: both checked subtractions succeeded. *)
LEMMA TypeSell ==
  ASSUME TypeOK, NEW p \in Portions, Sell(curve.totalMinted \div p)
  PROVE  TypeOK'
<1>. DEFINE tokenIn == curve.totalMinted \div p
            out == QuoteSell(curve.totalMinted, tokenIn).out
<1>1. tokenIn \in Nat /\ out \in Nat
  BY SellAmounts, TypeShapes
<1>2. /\ vault >= out /\ vault' = vault - out
      /\ RecordSell(out, tokenIn)
      /\ UNCHANGED <<lockFees, treasury, admin, slot>>
  BY DEF Sell
<1>. HIDE DEF tokenIn, out
<1>3. MaxSlot \in Nat /\ CurveK \in Nat
  BY CurveBounds, CurveConstants
<1>4. /\ curve.cumulativeSol - out \in Nat
      /\ curve.totalMinted - tokenIn \in 0 .. CurveK
      /\ slot \in 0 .. MaxSlot
  BY <1>1, <1>2, <1>3 DEF RecordSell, TypeOK
<1>5. curve' \in [open : BOOLEAN, cumulativeSol : Nat, totalMinted : 0 .. CurveK,
                  selfDeprecated : BOOLEAN, lastSlot : 0 .. MaxSlot]
  BY <1>2, <1>4 DEF RecordSell, TypeOK
<1>. QED BY <1>1, <1>2, <1>5 DEF TypeOK

(* Every instruction keeps the accounts' shape. *)
LEMMA TypeStep == TypeOK /\ [Next]_bcVars => TypeOK'
<1>. SUFFICES ASSUME TypeOK, [Next]_bcVars PROVE TypeOK'
  OBVIOUS
<1>0. /\ {VaultRent, LaunchFee, MaxSlot, MaxTreasury} \subseteq Nat
      /\ CurveK \in Nat /\ Deployer \in Admins
  BY CurveBounds, CurveConstants
<1>1. ASSUME NEW a \in Admins, InitializeGlobalConfig(a) PROVE TypeOK'
  BY <1>1 DEF InitializeGlobalConfig, TypeOK
<1>2. ASSUME NEW a \in Admins, NEW paused \in BOOLEAN, SetPaused(a, paused)
      PROVE TypeOK'
  BY <1>2 DEF SetPaused, TypeOK
<1>3. ASSUME NEW a \in Admins, RenounceAdmin(a) PROVE TypeOK'
  BY <1>3 DEF RenounceAdmin, TypeOK
<1>4. ASSUME NEW a \in Admins, NEW amount \in 0 .. MaxTreasury,
             WithdrawTreasury(a, amount)
      PROVE TypeOK'
  <2>1. treasury' \in 0 .. MaxTreasury
    BY <1>0, <1>4 DEF WithdrawTreasury, TypeOK
  <2>. QED BY <1>4, <2>1 DEF WithdrawTreasury, TypeOK
<1>5. CASE CreateToken
  <2>1. vault' \in Nat
    BY <1>0, <1>5 DEF CreateToken, Minus, TypeOK
  <2>2. treasury' \in 0 .. MaxTreasury
    BY <1>0, <1>5 DEF CreateToken, FundTreasury, TypeOK
  <2>3. curve' = [open |-> TRUE, cumulativeSol |-> 0, totalMinted |-> 0,
                  selfDeprecated |-> FALSE, lastSlot |-> 0]
    BY <1>5 DEF CreateToken, NoCurve
  <2>4. UNCHANGED <<lockFees, admin, slot>>
    BY <1>5 DEF CreateToken
  <2>. QED BY <1>0, <2>1, <2>2, <2>3, <2>4 DEF TypeOK
<1>6. CASE CreateOtherToken
  BY <1>0, <1>6 DEF CreateOtherToken, FundTreasury, TypeOK
<1>7. CASE GiveToVault
  BY <1>7 DEF GiveToVault, TypeOK
<1>8. CASE Tick
  BY <1>0, <1>8 DEF Tick, TypeOK
<1>9. CASE UNCHANGED bcVars
  BY <1>9 DEF bcVars, TypeOK
<1>. QED BY <1>1, <1>2, <1>3, <1>4, <1>5, <1>6, <1>7, <1>8, <1>9, TypeBuy, TypeSell
       DEF Next, Administer, Trade, Pause, Unpause

(* The accounts keep their shape, and the curve mints no more than its cap.*)
THEOREM TypeCorrect == Spec => []TypeOK
BY TypeInit, TypeStep, PTL DEF Spec

-----------------------------------------------------------------------------
(* The reserve and deprecation *)

(* A curve that is not launched yet is all zero.  Without this the launch  *)
(* could reset a reserve, and revive a deprecated curve.                   *)
Blank == ~curve.open => curve = NoCurve

ReserveInv == Blank /\ VaultHoldsReserve /\ DeprecatedAboveThreshold

(* Before the launch the reserve invariant holds. *)
LEMMA ReserveInit == Init => ReserveInv
<1>1. SelfDeprecatedThreshold \in Int
  BY CurveConstants DEF SelfDeprecatedThreshold
<1>. QED
  BY <1>1, ThresholdIsPositive
     DEF Init, ReserveInv, Blank, VaultHoldsReserve, DeprecatedAboveThreshold, NoCurve

(* What leaves the curve and does not lower the vault leaves the invariant.*)
LEMMA ReserveFrame ==
  ASSUME TypeOK, ReserveInv, curve' = curve, vault' \in Nat, vault' >= vault
  PROVE  ReserveInv'
<1>1. /\ VaultRent \in Nat /\ vault \in Nat /\ curve.cumulativeSol \in Nat
  BY CurveBounds DEF TypeOK
<1>. QED BY <1>1 DEF ReserveInv, Blank, VaultHoldsReserve, DeprecatedAboveThreshold

(* A buy adds the same amount to the vault and to the reserve. *)
LEMMA ReserveBuy ==
  ASSUME Shaped, ReserveInv, NEW sol \in SolAmounts, Buy(sol)
  PROVE  ReserveInv'
<1>. DEFINE net == sol - LockFee(sol)
            out == QuoteBuy(curve.cumulativeSol, curve.totalMinted, net).out
<1>1. net \in Nat /\ out \in Nat
  BY BuyAmounts
<1>2. /\ vault' = vault + net /\ RecordBuy(net, out) /\ curve.open
  BY DEF Buy
<1>. HIDE DEF net, out
<1>3. /\ curve'.open
      /\ curve'.cumulativeSol = curve.cumulativeSol + net
      /\ curve'.totalMinted = curve.totalMinted + out
      /\ curve'.totalMinted >= SelfDeprecatedThreshold => curve'.selfDeprecated
  BY <1>2 DEF RecordBuy, Shaped
<1>4. VaultHoldsReserve'
  BY <1>1, <1>2, <1>3, CurveBounds DEF ReserveInv, VaultHoldsReserve, Shaped
<1>. QED BY <1>3, <1>4 DEF ReserveInv, Blank, DeprecatedAboveThreshold

(* A sale takes the same amount from the vault and from the reserve. *)
LEMMA ReserveSell ==
  ASSUME Shaped, ReserveInv, NEW tokenIn \in Nat, Sell(tokenIn)
  PROVE  ReserveInv'
<1>. DEFINE out == QuoteSell(curve.totalMinted, tokenIn).out
<1>1. curve.totalMinted \in Nat /\ out \in Nat
  <2>1. curve.totalMinted \in Nat
    BY CurveConstants DEF Shaped
  <2>. QED BY <2>1, QuoteSellType
<1>2. /\ vault' = vault - out /\ RecordSell(out, tokenIn) /\ curve.open
  BY DEF Sell
<1>. HIDE DEF out
<1>3. /\ curve'.open
      /\ curve'.cumulativeSol = curve.cumulativeSol - out
      /\ curve'.totalMinted = curve.totalMinted - tokenIn
      /\ curve'.selfDeprecated = curve.selfDeprecated
  BY <1>2 DEF RecordSell, Shaped
<1>4. VaultHoldsReserve'
  BY <1>1, <1>2, <1>3, CurveBounds DEF ReserveInv, VaultHoldsReserve, Shaped
<1>5. DeprecatedAboveThreshold'
  <2>1. SelfDeprecatedThreshold \in Int /\ curve.totalMinted \in Nat
    BY CurveConstants DEF SelfDeprecatedThreshold, Shaped
  <2>. QED BY <1>1, <1>3, <2>1 DEF ReserveInv, DeprecatedAboveThreshold
<1>. QED BY <1>3, <1>4, <1>5 DEF ReserveInv, Blank

(* Every instruction keeps the reserve invariant. *)
LEMMA ReserveStep == TypeOK /\ ReserveInv /\ [Next]_bcVars => ReserveInv'
<1>. SUFFICES ASSUME TypeOK, ReserveInv, [Next]_bcVars PROVE ReserveInv'
  OBVIOUS
<1>0. vault \in Nat /\ VaultRent \in Nat
  BY CurveBounds DEF TypeOK
<1>1. ASSUME UNCHANGED <<curve, vault>> PROVE ReserveInv'
  BY <1>0, <1>1, ReserveFrame
<1>2. CASE CreateToken
  <2>1. curve' = [NoCurve EXCEPT !.open = TRUE] /\ vault' = vault + Minus(VaultRent, vault)
    BY <1>2 DEF CreateToken
  <2>2. vault' >= VaultRent /\ vault' \in Nat
    BY <1>0, <2>1 DEF Minus
  <2>3. SelfDeprecatedThreshold \in Int
    BY CurveConstants DEF SelfDeprecatedThreshold
  <2>. QED
    BY <1>0, <2>1, <2>2, <2>3, ThresholdIsPositive
       DEF ReserveInv, Blank, VaultHoldsReserve, DeprecatedAboveThreshold, NoCurve
<1>3. CASE GiveToVault
  <2>1. curve' = curve /\ vault' \in Nat /\ vault' >= vault
    BY <1>0, <1>3 DEF GiveToVault
  <2>. QED BY <2>1, ReserveFrame
<1>4. Shaped
  BY TypeShapes
<1>5. \A p \in Portions : curve.totalMinted \div p \in Nat
  BY <1>4, SellAmounts
<1>. QED
  BY <1>1, <1>2, <1>3, <1>4, <1>5, ReserveBuy, ReserveSell
     DEF Next, Administer, Trade, InitializeGlobalConfig, Pause, Unpause, SetPaused,
         RenounceAdmin,
         WithdrawTreasury, CreateOtherToken, Tick, bcVars

(* The vault always holds the recorded reserve on top of its rent, and the *)
(* curve is deprecated whenever its supply is at the threshold or above:   *)
(* in any order of launches, trades, gifts and administration.             *)
THEOREM ReserveHolds == Spec => [](VaultHoldsReserve /\ DeprecatedAboveThreshold)
<1>1. TypeOK /\ ReserveInv /\ [Next]_bcVars => TypeOK' /\ ReserveInv'
  BY TypeStep, ReserveStep
<1>2. Init => TypeOK /\ ReserveInv
  BY TypeInit, ReserveInit
<1>3. ReserveInv => VaultHoldsReserve /\ DeprecatedAboveThreshold
  BY DEF ReserveInv
<1>. QED BY <1>1, <1>2, <1>3, PTL DEF Spec

-----------------------------------------------------------------------------
(* The reserve and the supply *)

(* A sale pays what the argument of the curve falls by, rounded down.      *)
LEMMA SellTelescopes ==
  ASSUME NEW minted \in Nat, NEW tokenIn \in Nat, tokenIn <= minted,
         QuoteSell(minted, tokenIn).ok
  PROVE  LET out == QuoteSell(minted, tokenIn).out
         IN Scale * out <= CurveS * CurveArgument(minted)
                             - CurveS * CurveArgument(minted - tokenIn)
<1>. DEFINE before == CurveArgument(minted)
            after == CurveArgument(minted - tokenIn)
            out == QuoteSell(minted, tokenIn).out
            value == CurveS * Minus(before, after)
            rest == value % Scale
<1>1. Scale \in Nat \ {0} /\ CurveS \in Nat \ {0}
  BY CurveConstants
<1>2. minted - tokenIn \in Nat /\ Minus(minted, tokenIn) = minted - tokenIn
  BY DEF Minus
<1>3. before \in Nat /\ after \in Nat
  BY <1>2, CurveArgumentType
<1>4. out = value \div Scale /\ out # 0
  BY <1>2 DEF QuoteSell, NoQuote
<1>. HIDE DEF before, after, out
<1>5. Minus(before, after) \in Nat
  BY <1>3 DEF Minus
<1>6. value \in Nat
  BY <1>1, <1>5
<1>7. out \in Nat /\ rest \in Nat /\ value = Scale * out + rest
  <2>. HIDE DEF value
  <2>. QED BY <1>1, <1>4, <1>6, Division
<1>. HIDE DEF rest
<1>8. before > after /\ Minus(before, after) = before - after
  <2>1. SUFFICES ASSUME ~ (before > after) PROVE FALSE
    BY DEF Minus
  <2>2. value = 0
    BY <1>1, <2>1 DEF Minus
  <2>. HIDE DEF value
  <2>3. Scale * out >= out
    <3>1. out * 1 <= out * Scale
      BY <1>1, <1>7, ProductBound
    <3>. QED BY <1>1, <1>7, <3>1
  <2>. QED BY <1>1, <1>4, <1>7, <2>2, <2>3
<1>9. value = CurveS * before - CurveS * after
  BY <1>1, <1>3, <1>8
<1>10. Scale * out \in Int /\ CurveS * before \in Int /\ CurveS * after \in Int
  BY <1>1, <1>3, <1>7
<1>. HIDE DEF value
<1>11. Scale * out <= CurveS * before - CurveS * after
  BY <1>7, <1>9, <1>10
<1>. QED BY <1>11 DEF before, after, out

(* A buy leaves the supply that its reserve mints. *)
LEMMA CoverBuy ==
  ASSUME MintsCovered(RoundingSlack), Shaped, NEW sol \in SolAmounts, Buy(sol)
  PROVE  ReserveCoversSupply'
<1>0. /\ Scale \in Nat /\ CurveS \in Nat /\ RoundingSlack \in Nat
      /\ curve.cumulativeSol \in Nat /\ curve.totalMinted \in Nat
  BY CurveConstants, CurveBounds DEF Shaped
<1>. DEFINE net == sol - LockFee(sol)
            quote == QuoteBuy(curve.cumulativeSol, curve.totalMinted, net)
            r == curve.cumulativeSol + net
<1>1. net \in Nat /\ quote.out \in Nat
  BY BuyAmounts
<1>2. quote.ok /\ RecordBuy(net, quote.out)
  BY DEF Buy
<1>3. r \in Nat /\ MintedAt(r) \in Nat
  BY <1>0, <1>1, MintedWithinCap, CurveConstants
<1>4. quote.out = Minus(MintedAt(r), curve.totalMinted) /\ quote.out # 0
  BY <1>2 DEF QuoteBuy, NoQuote
<1>. HIDE DEF net, quote
<1>5. curve.totalMinted + quote.out = MintedAt(r)
  <2>. HIDE DEF r
  <2>. QED BY <1>0, <1>3, <1>4 DEF Minus
<1>6. curve'.cumulativeSol = r /\ curve'.totalMinted = MintedAt(r)
  <2>1. curve'.cumulativeSol = r /\ curve'.totalMinted = curve.totalMinted + quote.out
    BY <1>2 DEF RecordBuy, Shaped
  <2>. QED BY <1>5, <2>1
<1>. HIDE DEF r
<1>7. CurveS * CurveArgument(MintedAt(r)) <= Scale * (r + RoundingSlack)
  BY <1>3 DEF MintsCovered
<1>. QED BY <1>6, <1>7 DEF ReserveCoversSupply

(* A sale, of any amount, pays no more than what it takes off the price of *)
(* the supply.                                                             *)
LEMMA CoverSell ==
  ASSUME Shaped, ReserveCoversSupply, NEW tokenIn \in Nat, Sell(tokenIn)
  PROVE  ReserveCoversSupply'
<1>0. /\ Scale \in Nat /\ CurveS \in Nat /\ RoundingSlack \in Nat
      /\ curve.cumulativeSol \in Nat /\ curve.totalMinted \in Nat
  BY CurveConstants, CurveBounds DEF Shaped
<1>. DEFINE quote == QuoteSell(curve.totalMinted, tokenIn)
            before == CurveArgument(curve.totalMinted)
            after == CurveArgument(curve.totalMinted - tokenIn)
<1>1. quote.out \in Nat
  BY <1>0, QuoteSellType
<1>2. quote.ok /\ RecordSell(quote.out, tokenIn)
  BY DEF Sell
<1>3. /\ tokenIn <= curve.totalMinted /\ quote.out <= curve.cumulativeSol
      /\ curve'.cumulativeSol = curve.cumulativeSol - quote.out
      /\ curve'.totalMinted = curve.totalMinted - tokenIn
  BY <1>2 DEF RecordSell, Shaped
<1>4. Scale * quote.out <= CurveS * before - CurveS * after
  BY <1>0, <1>1, <1>2, <1>3, SellTelescopes
<1>5. before \in Nat /\ after \in Nat
  <2>1. curve.totalMinted - tokenIn \in Nat
    BY <1>0, <1>1, <1>3
  <2>. QED BY <1>0, <2>1, CurveArgumentType
<1>6. CurveS * before <= Scale * (curve.cumulativeSol + RoundingSlack)
  BY DEF ReserveCoversSupply
<1>. HIDE DEF quote, before, after
<1>7. Scale * (curve.cumulativeSol - quote.out + RoundingSlack)
        = Scale * (curve.cumulativeSol + RoundingSlack) - Scale * quote.out
  BY <1>0, <1>1
<1>8. /\ CurveS * before \in Int /\ CurveS * after \in Int /\ Scale * quote.out \in Int
      /\ Scale * (curve.cumulativeSol + RoundingSlack) \in Int
  BY <1>0, <1>1, <1>5
<1>9. CurveS * after <= Scale * (curve.cumulativeSol - quote.out + RoundingSlack)
  BY <1>4, <1>6, <1>7, <1>8
<1>. QED BY <1>3, <1>9 DEF ReserveCoversSupply, after

(* Every instruction leaves the supply covered. *)
LEMMA CoverStep ==
  MintsCovered(RoundingSlack) /\ TypeOK /\ ReserveCoversSupply /\ [Next]_bcVars
    => ReserveCoversSupply'
<1>. SUFFICES ASSUME MintsCovered(RoundingSlack), TypeOK, ReserveCoversSupply, [Next]_bcVars
              PROVE  ReserveCoversSupply'
  OBVIOUS
<1>0. /\ Scale \in Nat /\ CurveS \in Nat /\ RoundingSlack \in Nat
      /\ curve.cumulativeSol \in Nat /\ curve.totalMinted \in Nat
  BY CurveConstants, CurveBounds DEF TypeOK
<1>1. ASSUME curve' = curve PROVE ReserveCoversSupply'
  BY <1>1 DEF ReserveCoversSupply
<1>2. CASE CreateToken
  <2>1. curve'.totalMinted = 0 /\ curve'.cumulativeSol = 0
    BY <1>2 DEF CreateToken, NoCurve
  <2>2. CurveArgument(0) = 0
    <3>1. (0 * Scale) \div CurveK = 0
      BY <1>0, CurveConstants
    <3>. QED BY <3>1 DEF CurveArgument, LnInv
  <2>. QED BY <1>0, <2>1, <2>2 DEF ReserveCoversSupply
<1>3. Shaped
  BY TypeShapes
<1>4. \A p \in Portions : curve.totalMinted \div p \in Nat
  BY <1>3, SellAmounts
<1>. QED
  BY <1>1, <1>2, <1>3, <1>4, CoverBuy, CoverSell
     DEF Next, Administer, Trade, InitializeGlobalConfig, Pause, Unpause, SetPaused,
         RenounceAdmin,
         WithdrawTreasury, CreateOtherToken, GiveToVault, Tick, bcVars

(* Before the launch there is nothing to cover. *)
LEMMA CoverInit == Init => ReserveCoversSupply
<1>. SUFFICES ASSUME Init PROVE ReserveCoversSupply
  OBVIOUS
<1>1. /\ Scale \in Nat /\ CurveS \in Nat /\ RoundingSlack \in Nat
      /\ curve.cumulativeSol = 0 /\ curve.totalMinted = 0
  BY CurveConstants, CurveBounds DEF Init, NoCurve
<1>2. (0 * Scale) \div CurveK = 0
  BY <1>1, CurveConstants
<1>3. CurveArgument(0) = 0
  BY <1>2 DEF CurveArgument, LnInv
<1>. QED BY <1>1, <1>3 DEF ReserveCoversSupply

(* If every mint is covered, so is what any order of trades leaves.        *)
LEMMA CoveredStays ==
  ASSUME MintsCovered(RoundingSlack)
  PROVE  Spec => []ReserveCoversSupply
<1>1. TypeOK /\ ReserveCoversSupply /\ [Next]_bcVars => ReserveCoversSupply'
  BY CoverStep
<1>. QED BY <1>1, TypeInit, TypeStep, CoverInit, PTL DEF Spec

(* In any order of trades the curve would pay for all its tokens no more   *)
(* than its reserve and one slack: that of a single mint.  The errors of   *)
(* sales do not add up.                                                    *)
THEOREM ReserveCovers ==
  ASSUME NEW d \in Nat \ {0}, Decreasing(d),
         NEW doubled \in [Nat -> Nat \ {0}],
         doubled[0] = 1, \A i \in Nat : doubled[i + 1] = 2 * doubled[i],
         CurveS * (MaxExpX + doubled[Rounds] * (2 * d - 1))
           <= (2 * doubled[Rounds]) * (Scale * RoundingSlack)
  PROVE  Spec => []ReserveCoversSupply
<1>1. MintsCovered(RoundingSlack)
  BY MintsAreCovered, CurveBounds
<1>. QED BY <1>1, CoveredStays

-----------------------------------------------------------------------------
(* How far exp_neg is out of order: the hypothesis Decreasing(d) above,    *)
(* from the degrees of its series, one after the other.                    *)

(* What a quotient of natural numbers is, without remainders. *)
LEMMA Quotient ==
  ASSUME NEW a \in Nat, NEW b \in Nat \ {0}
  PROVE  /\ a \div b \in Nat
         /\ b * (a \div b) <= a /\ a <= b * (a \div b) + b - 1
<1>. DEFINE q == a \div b
            r == a % b
<1>1. q \in Nat /\ r \in 0 .. b - 1 /\ a = b * q + r
  BY Division
<1>. HIDE DEF q, r
<1>2. b * q \in Nat
  BY <1>1
<1>3. b * q <= a /\ a <= b * q + b - 1
  BY <1>1, <1>2
<1>. QED BY <1>1, <1>3 DEF q

(* A common positive factor leaves an order. *)
LEMMA CancelFactor ==
  ASSUME NEW s \in Nat \ {0}, NEW x \in Int, NEW y \in Int, s * x <= s * y
  PROVE  x <= y
<1>1. SUFFICES ASSUME y + 1 <= x PROVE FALSE
  OBVIOUS
<1>2. s * (y + 1) <= s * x
  BY <1>1, ProductBound
<1>3. s * (y + 1) = s * y + s /\ s * y \in Int /\ s * x \in Int
  OBVIOUS
<1>. QED BY <1>2, <1>3

(* From one power of the series to the next.  For b <= a below the fixed-  *)
(* point one, w and v are the powers k - 1 and k of b, u the power k of a. *)
(* The next powers differ by no more than (k + 1) / k of what these differ *)
(* by, and by no less than the derivative at b says, up to the rounding.   *)
LEMMA PowerStep ==
  ASSUME NEW a \in 0 .. Scale, NEW b \in 0 .. Scale, b <= a,
         NEW k \in Nat \ {0}, NEW c \in Nat,
         NEW w \in Nat, NEW v \in Nat, NEW u \in Nat,
         v <= w, v <= u, Scale * v <= w * b,
         k * (w * (a - b)) - c * Scale <= Scale * (u - v)
  PROVE  LET U == (u * a) \div Scale
             V == (v * b) \div Scale
         IN /\ U \in Nat /\ V \in Nat /\ V <= U /\ V <= v /\ Scale * V <= v * b
            /\ (k + 1) * (v * (a - b)) - (c + 1) * Scale <= Scale * (U - V)
            /\ k * (U - V) <= (k + 1) * (u - v) + c + k
<1>. DEFINE U == (u * a) \div Scale
            V == (v * b) \div Scale
            g == u - v
            e == a - b
<1>1. Scale \in Nat \ {0} /\ a \in Nat /\ b \in Nat /\ u * a \in Nat /\ v * b \in Nat
  BY CurveConstants
<1>2. U \in Nat /\ Scale * U <= u * a /\ u * a <= Scale * U + Scale - 1
  BY <1>1, Quotient
<1>3. V \in Nat /\ Scale * V <= v * b /\ v * b <= Scale * V + Scale - 1
  BY <1>1, Quotient
<1>. HIDE DEF U, V
<1>4. g \in Nat /\ e \in Nat /\ u = v + g /\ a = b + e
  BY <1>1
<1>5. k * (w * e) - c * Scale <= Scale * g
  OBVIOUS
<1>. HIDE DEF g, e
<1>6. /\ g * a \in Nat /\ g * b \in Nat /\ v * e \in Nat /\ g * Scale \in Nat
      /\ Scale * U \in Nat /\ Scale * V \in Nat
  BY <1>1, <1>2, <1>3, <1>4
<1>7. u * a = v * b + v * e + g * a
  BY <1>1, <1>4
<1>8. Scale * (U - V) = Scale * U - Scale * V
  BY <1>1, <1>2, <1>3
<1>9. V <= U
  <2>1. Scale * V <= Scale * U + Scale - 1
    BY <1>1, <1>2, <1>3, <1>6, <1>7
  <2>2. SUFFICES ASSUME U + 1 <= V PROVE FALSE
    BY <1>2, <1>3
  <2>3. Scale * (U + 1) <= Scale * V
    BY <1>1, <1>2, <1>3, <2>2, ProductBound
  <2>4. Scale * (U + 1) = Scale * U + Scale
    BY <1>1, <1>2
  <2>. QED BY <1>1, <1>6, <2>1, <2>3, <2>4
<1>10. V <= v
  <2>1. v * b <= v * Scale
    BY <1>1, ProductBound
  <2>2. v * Scale = Scale * v /\ Scale * v \in Int
    BY <1>1
  <2>3. Scale * V <= Scale * v
    BY <1>1, <1>3, <1>6, <2>1, <2>2
  <2>. QED BY <1>1, <1>3, <2>3, CancelFactor
<1>11. (k + 1) * (v * e) - (c + 1) * Scale <= Scale * (U - V)
  <2>1. g * b <= g * a
    BY <1>1, <1>4, ProductBound
  <2>2. b * (k * (w * e) - c * Scale) <= b * (Scale * g)
    <3>. DEFINE left == k * (w * e) - c * Scale
                right == Scale * g
    <3>1. left \in Int /\ right \in Int /\ left <= right
      BY <1>1, <1>4, <1>5
    <3>. HIDE DEF left, right
    <3>2. b * left <= b * right
      BY <1>1, <3>1, ProductBound
    <3>. QED BY <3>2 DEF left, right
  <2>3. (k * e) * (Scale * v) <= (k * e) * (w * b)
    BY <1>1, <1>4, ProductBound
  <2>4. c * b <= c * Scale
    BY <1>1, ProductBound
  <2>5. Scale * (k * (v * e)) <= Scale * (g * b + c * b)
    <3>1. Scale * (k * (v * e)) = (k * e) * (Scale * v)
      BY <1>1, <1>4
    <3>2. b * (k * (w * e) - c * Scale) = (k * e) * (w * b) - Scale * (c * b)
      BY <1>1, <1>4
    <3>3. b * (Scale * g) = Scale * (g * b)
      BY <1>1, <1>4
    <3>4. Scale * (g * b + c * b) = Scale * (g * b) + Scale * (c * b)
      BY <1>1, <1>4
    <3>5. /\ (k * e) * (w * b) \in Int /\ Scale * (c * b) \in Int
          /\ Scale * (g * b) \in Int /\ (k * e) * (Scale * v) \in Int
      BY <1>1, <1>4
    <3>. QED BY <2>2, <2>3, <3>1, <3>2, <3>3, <3>4, <3>5
  <2>6. k * (v * e) <= g * b + c * b
    <3>1. k * (v * e) \in Int /\ g * b + c * b \in Int
      BY <1>1, <1>4
    <3>. HIDE DEF e
    <3>. QED BY <1>1, <2>5, <3>1, CancelFactor
  <2>7. (k + 1) * (v * e) = k * (v * e) + v * e /\ (c + 1) * Scale = c * Scale + Scale
    BY <1>1, <1>4
  <2>8. k * (v * e) \in Int /\ c * b \in Int /\ c * Scale \in Int
    BY <1>1, <1>4
  <2>. DEFINE near == g * b
              far == g * a
              lost == c * b
              slack == c * Scale
              top == Scale * U
              bottom == Scale * V
              before == v * e
              grown == k * before
              whole == (k + 1) * before
              allowed == (c + 1) * Scale
              gap == Scale * (U - V)
  <2>9. /\ near \in Int /\ far \in Int /\ lost \in Int /\ slack \in Int
        /\ top \in Int /\ bottom \in Int /\ before \in Int /\ grown \in Int
    BY <1>1, <1>4, <1>6, <2>8
  <2>10. near <= far /\ lost <= slack /\ grown <= near + lost
    BY <2>1, <2>4, <2>6
  <2>11. before + far <= top - bottom + Scale - 1
    BY <1>1, <1>2, <1>3, <1>6, <1>7
  <2>12. whole = grown + before /\ allowed = slack + Scale /\ gap = top - bottom
    BY <1>8, <2>7
  <2>. HIDE DEF near, far, lost, slack, top, bottom, before, grown, whole, allowed, gap
  <2>13. whole - allowed <= gap
    BY <1>1, <2>9, <2>10, <2>11, <2>12
  <2>. QED BY <2>13 DEF whole, before, allowed, gap
<1>12. k * (U - V) <= (k + 1) * g + c + k
  <2>1. g * a <= g * Scale
    BY <1>1, <1>4, ProductBound
  <2>2. (k * e) * v <= (k * e) * w
    BY <1>1, <1>4, ProductBound
  <2>3. k * (v * e) <= Scale * g + c * Scale
    <3>1. (k * e) * v = k * (v * e) /\ (k * e) * w = k * (w * e)
      BY <1>1, <1>4
    <3>2. /\ k * (v * e) \in Int /\ k * (w * e) \in Int
          /\ c * Scale \in Int /\ Scale * g \in Int
      BY <1>1, <1>4
    <3>. QED BY <1>5, <2>2, <3>1, <3>2
  <2>4. Scale * (U - V) <= g * Scale + v * e + Scale
    BY <1>1, <1>2, <1>3, <1>6, <1>7, <1>8, <2>1
  <2>5. k * (Scale * (U - V)) <= k * (g * Scale + v * e + Scale)
    <3>1. Scale * (U - V) \in Int /\ g * Scale + v * e + Scale \in Int
      BY <1>1, <1>2, <1>3, <1>6
    <3>. QED BY <2>4, <3>1, ProductBound
  <2>6. k * (Scale * (U - V)) = Scale * (k * (U - V))
    BY <1>1, <1>2, <1>3
  <2>7. k * (g * Scale + v * e + Scale) = k * (g * Scale) + k * (v * e) + k * Scale
    BY <1>1, <1>4
  <2>8. Scale * ((k + 1) * g + c + k)
          = k * (g * Scale) + Scale * g + c * Scale + k * Scale
    BY <1>1, <1>4
  <2>9. /\ k * (g * Scale) \in Int /\ k * (v * e) \in Int /\ k * Scale \in Int
        /\ Scale * g \in Int /\ c * Scale \in Int /\ Scale * (k * (U - V)) \in Int
    BY <1>1, <1>2, <1>3, <1>4
  <2>10. Scale * (k * (U - V)) <= Scale * ((k + 1) * g + c + k)
    BY <2>3, <2>5, <2>6, <2>7, <2>8, <2>9
  <2>11. k * (U - V) \in Int /\ (k + 1) * g + c + k \in Int
    BY <1>2, <1>3, <1>4
  <2>. QED BY <1>1, <2>10, <2>11, CancelFactor
<1>. QED BY <1>2, <1>3, <1>9, <1>10, <1>11, <1>12 DEF U, V, g, e
(* The powers of the series, as exp_neg computes them. *)
Second(f) == (f * f) \div Scale
Third(f) == (Second(f) * f) \div Scale
Fourth(f) == (Third(f) * f) \div Scale
Fifth(f) == (Fourth(f) * f) \div Scale
Sixth(f) == (Fifth(f) * f) \div Scale
Seventh(f) == (Sixth(f) * f) \div Scale
Eighth(f) == (Seventh(f) * f) \div Scale

(* For b <= a, the powers of degree k - 1 and k of b are w and v, and u is  *)
(* the power k of a: u is ahead of v by no less than the derivative of the *)
(* power at b says, but for the rounding of each degree.                   *)
Ahead(a, b, k, w, v, u) ==
  /\ w \in Nat /\ v \in Nat /\ u \in Nat
  /\ v <= w /\ v <= u /\ Scale * v <= w * b
  /\ k * (w * (a - b)) - (k - 1) * Scale <= Scale * (u - v)

(* The same of the next degree, whose distance is bounded by this one's.   *)
LEMMA NextPower ==
  ASSUME NEW a \in 0 .. Scale, NEW b \in 0 .. Scale, b <= a, NEW k \in Nat \ {0},
         NEW w, NEW v, NEW u, Ahead(a, b, k, w, v, u),
         NEW U, NEW V, U = (u * a) \div Scale, V = (v * b) \div Scale
  PROVE  /\ Ahead(a, b, k + 1, v, V, U)
         /\ k * (U - V) <= (k + 1) * (u - v) + 2 * k - 1
<1>. DEFINE c == k - 1
<1>1. /\ w \in Nat /\ v \in Nat /\ u \in Nat /\ c \in Nat
      /\ v <= w /\ v <= u /\ Scale * v <= w * b
      /\ k * (w * (a - b)) - c * Scale <= Scale * (u - v)
      /\ c + k = 2 * k - 1 /\ c + 1 = (k + 1) - 1
  BY DEF Ahead
<1>. HIDE DEF c
<1>2. /\ U \in Nat /\ V \in Nat /\ V <= U /\ V <= v /\ Scale * V <= v * b
      /\ (k + 1) * (v * (a - b)) - (c + 1) * Scale <= Scale * (U - V)
      /\ k * (U - V) <= (k + 1) * (u - v) + c + k
  BY <1>1, PowerStep
<1>3. (k + 1) * (v * (a - b)) - ((k + 1) - 1) * Scale <= Scale * (U - V)
  BY <1>1, <1>2
<1>4. k * (U - V) <= (k + 1) * (u - v) + 2 * k - 1
  <2>1. (k + 1) * (u - v) \in Int /\ k * (U - V) \in Int
    BY <1>1, <1>2
  <2>. QED BY <1>1, <1>2, <2>1
<1>. QED BY <1>1, <1>2, <1>3, <1>4 DEF Ahead

(* How two arguments' powers of the series differ, degree by degree.       *)
LEMMA PowersDiffer ==
  ASSUME NEW a \in 0 .. Scale, NEW b \in 0 .. Scale, b <= a
  PROVE  /\ Ahead(a, b, 2, b, Second(b), Second(a))
         /\ Ahead(a, b, 3, Second(b), Third(b), Third(a))
         /\ Ahead(a, b, 4, Third(b), Fourth(b), Fourth(a))
         /\ Ahead(a, b, 5, Fourth(b), Fifth(b), Fifth(a))
         /\ Ahead(a, b, 6, Fifth(b), Sixth(b), Sixth(a))
         /\ Ahead(a, b, 7, Sixth(b), Seventh(b), Seventh(a))
         /\ Ahead(a, b, 8, Seventh(b), Eighth(b), Eighth(a))
         /\ 2 * (Third(a) - Third(b)) <= 3 * (Second(a) - Second(b)) + 3
         /\ 3 * (Fourth(a) - Fourth(b)) <= 4 * (Third(a) - Third(b)) + 5
         /\ 4 * (Fifth(a) - Fifth(b)) <= 5 * (Fourth(a) - Fourth(b)) + 7
         /\ 5 * (Sixth(a) - Sixth(b)) <= 6 * (Fifth(a) - Fifth(b)) + 9
         /\ 6 * (Seventh(a) - Seventh(b)) <= 7 * (Sixth(a) - Sixth(b)) + 11
         /\ 7 * (Eighth(a) - Eighth(b)) <= 8 * (Seventh(a) - Seventh(b)) + 13
<1>0. Scale \in Nat \ {0} /\ a \in Nat /\ b \in Nat
  BY CurveConstants
<1>1. Ahead(a, b, 1, Scale, b, a)
  BY <1>0 DEF Ahead
<1>2. Ahead(a, b, 1 + 1, b, Second(b), Second(a))
  BY <1>1, NextPower DEF Second
<1>3. /\ Ahead(a, b, 2 + 1, Second(b), Third(b), Third(a))
      /\ 2 * (Third(a) - Third(b)) <= (2 + 1) * (Second(a) - Second(b)) + 2 * 2 - 1
  <2>1. Ahead(a, b, 2, b, Second(b), Second(a))
    BY <1>2
  <2>. QED BY <2>1, NextPower DEF Third
<1>4. /\ Ahead(a, b, 3 + 1, Third(b), Fourth(b), Fourth(a))
      /\ 3 * (Fourth(a) - Fourth(b)) <= (3 + 1) * (Third(a) - Third(b)) + 2 * 3 - 1
  <2>1. Ahead(a, b, 3, Second(b), Third(b), Third(a))
    BY <1>3
  <2>. QED BY <2>1, NextPower DEF Fourth
<1>5. /\ Ahead(a, b, 4 + 1, Fourth(b), Fifth(b), Fifth(a))
      /\ 4 * (Fifth(a) - Fifth(b)) <= (4 + 1) * (Fourth(a) - Fourth(b)) + 2 * 4 - 1
  <2>1. Ahead(a, b, 4, Third(b), Fourth(b), Fourth(a))
    BY <1>4
  <2>. QED BY <2>1, NextPower DEF Fifth
<1>6. /\ Ahead(a, b, 5 + 1, Fifth(b), Sixth(b), Sixth(a))
      /\ 5 * (Sixth(a) - Sixth(b)) <= (5 + 1) * (Fifth(a) - Fifth(b)) + 2 * 5 - 1
  <2>1. Ahead(a, b, 5, Fourth(b), Fifth(b), Fifth(a))
    BY <1>5
  <2>. QED BY <2>1, NextPower DEF Sixth
<1>7. /\ Ahead(a, b, 6 + 1, Sixth(b), Seventh(b), Seventh(a))
      /\ 6 * (Seventh(a) - Seventh(b)) <= (6 + 1) * (Sixth(a) - Sixth(b)) + 2 * 6 - 1
  <2>1. Ahead(a, b, 6, Fifth(b), Sixth(b), Sixth(a))
    BY <1>6
  <2>. QED BY <2>1, NextPower DEF Seventh
<1>8. /\ Ahead(a, b, 7 + 1, Seventh(b), Eighth(b), Eighth(a))
      /\ 7 * (Eighth(a) - Eighth(b)) <= (7 + 1) * (Seventh(a) - Seventh(b)) + 2 * 7 - 1
  <2>1. Ahead(a, b, 7, Sixth(b), Seventh(b), Seventh(a))
    BY <1>7
  <2>. QED BY <2>1, NextPower DEF Eighth
<1>9. 3 * (Fourth(a) - Fourth(b)) <= 4 * (Third(a) - Third(b)) + 5
  BY <1>3, <1>4 DEF Ahead
<1>10. 5 * (Sixth(a) - Sixth(b)) <= 6 * (Fifth(a) - Fifth(b)) + 9
  BY <1>5, <1>6 DEF Ahead
<1>11. 7 * (Eighth(a) - Eighth(b)) <= 8 * (Seventh(a) - Seventh(b)) + 13
  BY <1>7, <1>8 DEF Ahead
<1>12. 2 * (Third(a) - Third(b)) <= 3 * (Second(a) - Second(b)) + 3
  BY <1>2, <1>3 DEF Ahead
<1>13. 4 * (Fifth(a) - Fifth(b)) <= 5 * (Fourth(a) - Fourth(b)) + 7
  BY <1>4, <1>5 DEF Ahead
<1>14. 6 * (Seventh(a) - Seventh(b)) <= 7 * (Sixth(a) - Sixth(b)) + 11
  BY <1>6, <1>7 DEF Ahead
<1>. QED BY <1>2, <1>3, <1>4, <1>5, <1>6, <1>7, <1>8, <1>9, <1>10, <1>11, <1>12, <1>13, <1>14

(* What the square adds to the falling series the cube takes away again,   *)
(* and a third of the distance is left: with s the sum of the arguments in *)
(* units of the fixed point, (2 - s) (4 - s) is not negative.              *)
LEMMA CubeHolds ==
  ASSUME NEW a \in 0 .. Scale, NEW b \in 0 .. Scale, b <= a
  PROVE  9 * (Second(a) - Second(b)) <= 12 * (a - b) + 2 * (Third(a) - Third(b)) + 13
<1>. DEFINE e == a - b
            s == a + b
            A2 == Second(a)
            B2 == Second(b)
            A3 == Third(a)
            B3 == Third(b)
<1>0. Scale \in Nat \ {0} /\ a \in Nat /\ b \in Nat
  BY CurveConstants
<1>1. /\ A2 \in Nat /\ Scale * A2 <= a * a /\ a * a <= Scale * A2 + Scale - 1
      /\ B2 \in Nat /\ Scale * B2 <= b * b /\ b * b <= Scale * B2 + Scale - 1
  BY <1>0, Quotient DEF Second
<1>2. /\ A3 \in Nat /\ A2 * a <= Scale * A3 + Scale - 1
      /\ B3 \in Nat /\ Scale * B3 <= B2 * b
  <2>1. A2 * a \in Nat /\ B2 * b \in Nat
    BY <1>0, <1>1
  <2>. QED BY <1>0, <2>1, Quotient DEF Third
<1>. HIDE DEF A2, B2, A3, B3
<1>3. e \in Nat /\ s \in Nat /\ s <= 2 * Scale
  BY <1>0
<1>4. Scale * (A2 - B2) <= e * s + Scale
  <2>1. a * a - b * b = e * s
    BY <1>0
  <2>2. /\ Scale * (A2 - B2) = Scale * A2 - Scale * B2
        /\ a * a \in Int /\ b * b \in Int /\ Scale * A2 \in Int /\ Scale * B2 \in Int
    BY <1>0, <1>1
  <2>. QED BY <1>0, <1>1, <2>1, <2>2
<1>5. a * (a * a) - b * (b * b) <= Scale * (Scale * (A3 - B3)) + 2 * (Scale * Scale)
  <2>1. a * (a * a) <= a * (Scale * A2 + Scale - 1)
    <3>1. a * a \in Int /\ Scale * A2 + Scale - 1 \in Int
      BY <1>0, <1>1
    <3>. QED BY <1>0, <1>1, <3>1, ProductBound
  <2>2. Scale * (A2 * a) <= Scale * (Scale * A3 + Scale - 1)
    <3>1. A2 * a \in Int /\ Scale * A3 + Scale - 1 \in Int
      BY <1>0, <1>1, <1>2
    <3>. QED BY <1>0, <1>2, <3>1, ProductBound
  <2>3. b * (Scale * B2) <= b * (b * b)
    <3>1. Scale * B2 \in Int /\ b * b \in Int
      BY <1>0, <1>1
    <3>. QED BY <1>0, <1>1, <3>1, ProductBound
  <2>4. Scale * (Scale * B3) <= Scale * (B2 * b)
    <3>1. Scale * B3 \in Int /\ B2 * b \in Int
      BY <1>0, <1>1, <1>2
    <3>. QED BY <1>0, <1>2, <3>1, ProductBound
  <2>5. Scale * a <= Scale * Scale
    BY <1>0, ProductBound
  <2>. QED BY <1>0, <1>1, <1>2, <2>1, <2>2, <2>3, <2>4, <2>5
<1>6. 3 * (e * (s * s)) <= 4 * (a * (a * a) - b * (b * b))
  <2>1. 4 * (a * (a * a) - b * (b * b)) = 3 * (e * (s * s)) + e * (e * e)
    BY <1>0
  <2>2. e * (e * e) \in Nat /\ e * (s * s) \in Nat
    BY <1>3
  <2>. QED BY <1>0, <2>1, <2>2
<1>7. 6 * (Scale * (e * s)) <= 8 * (Scale * (Scale * e)) + e * (s * s)
  <2>1. (2 * Scale - s) * (4 * Scale - s) \in Nat
    BY <1>0, <1>3
  <2>2. e * ((2 * Scale - s) * (4 * Scale - s)) \in Nat
    <3>. HIDE DEF e, s
    <3>. QED BY <1>0, <1>3, <2>1
  <2>3. e * ((2 * Scale - s) * (4 * Scale - s))
          = 8 * (Scale * (Scale * e)) - 6 * (Scale * (e * s)) + e * (s * s)
    <3>. HIDE DEF e, s
    <3>. QED BY <1>0, <1>3
  <2>4. Scale * (Scale * e) \in Int /\ Scale * (e * s) \in Int /\ e * (s * s) \in Int
    BY <1>0, <1>3
  <2>. QED BY <2>2, <2>3, <2>4
<1>8. Scale * (Scale * (9 * (A2 - B2))) <= Scale * (Scale * (12 * e + 2 * (A3 - B3) + 13))
  <2>1. Scale * (Scale * (A2 - B2)) <= Scale * (e * s + Scale)
    <3>1. Scale * (A2 - B2) \in Int /\ e * s + Scale \in Int
      BY <1>0, <1>1, <1>3
    <3>. QED BY <1>0, <1>4, <3>1, ProductBound
  <2>. DEFINE square == Scale * (Scale * (A2 - B2))
              cube == Scale * (Scale * (A3 - B3))
              first == Scale * (Scale * e)
              second == Scale * (e * s)
              third == e * (s * s)
              one == Scale * Scale
              powers == a * (a * a) - b * (b * b)
  <2>2. /\ square \in Int /\ cube \in Int /\ first \in Int /\ second \in Int
        /\ third \in Int /\ one \in Nat /\ powers \in Int
    BY <1>0, <1>1, <1>2, <1>3
  <2>3. square <= second + one
    BY <2>1, <1>0, <1>3
  <2>4. powers <= cube + 2 * one /\ 3 * third <= 4 * powers
    BY <1>5, <1>6
  <2>5. 6 * second <= 8 * first + third
    BY <1>7
  <2>6. Scale * (Scale * (9 * (A2 - B2))) = 9 * square
    BY <1>0, <1>1
  <2>7. Scale * (Scale * (12 * e + 2 * (A3 - B3) + 13)) = 12 * first + 2 * cube + 13 * one
    BY <1>0, <1>2, <1>3
  <2>. HIDE DEF square, cube, first, second, third, one, powers
  <2>8. 9 * square <= 12 * first + 2 * cube + 13 * one
    BY <2>2, <2>3, <2>4, <2>5
  <2>. QED BY <2>6, <2>7, <2>8
<1>9. 9 * (A2 - B2) <= 12 * e + 2 * (A3 - B3) + 13
  <2>. DEFINE left == 9 * (A2 - B2)
              right == 12 * e + 2 * (A3 - B3) + 13
  <2>1. left \in Int /\ right \in Int /\ Scale * left \in Int /\ Scale * right \in Int
    BY <1>0, <1>1, <1>2, <1>3
  <2>2. Scale * (Scale * left) <= Scale * (Scale * right)
    BY <1>8
  <2>. HIDE DEF left, right
  <2>3. Scale * left <= Scale * right
    BY <1>0, <2>1, <2>2, CancelFactor
  <2>4. left <= right
    BY <1>0, <2>1, <2>3, CancelFactor
  <2>. QED BY <2>4 DEF left, right
<1>. QED BY <1>9 DEF A2, B2, A3, B3
(* Up to the fixed-point one no subtraction of the series saturates.       *)
LEMMA SeriesUnsaturated ==
  ASSUME NEW f \in 0 .. Scale
  PROVE  /\ ExpFraction(f) \in Nat
         /\ ExpFraction(f) = Scale - f + (Second(f) \div 2) - (Third(f) \div 6)
                               + (Fourth(f) \div 24) - (Fifth(f) \div 120)
                               + (Sixth(f) \div 720) - (Seventh(f) \div 5040)
                               + (Eighth(f) \div 40320)
<1>0. Scale \in Nat \ {0} /\ f \in Nat /\ f <= Scale
  BY CurveConstants
<1>. DEFINE f2 == Second(f)
            f3 == Third(f)
            f4 == Fourth(f)
            f5 == Fifth(f)
            f6 == Sixth(f)
            f7 == Seventh(f)
            f8 == Eighth(f)
<1>1. /\ f2 \in Nat /\ f3 \in Nat /\ f4 \in Nat /\ f5 \in Nat
      /\ f6 \in Nat /\ f7 \in Nat /\ f8 \in Nat
      /\ f3 <= f2 /\ f5 <= f4 /\ f7 <= f6
  <2>1. f <= f
    BY <1>0
  <2>. QED BY <2>1, PowersDiffer DEF Ahead
<1>2. ExpFraction(f)
        = Minus(Minus(Minus(Minus(Scale, f) + (f2 \div 2), f3 \div 6)
                  + (f4 \div 24), f5 \div 120) + (f6 \div 720), f7 \div 5040)
            + (f8 \div 40320)
  BY DEF ExpFraction, Second, Third, Fourth, Fifth, Sixth, Seventh, Eighth
<1>. HIDE DEF f2, f3, f4, f5, f6, f7, f8
<1>. DEFINE t2 == f2 \div 2
            t3 == f3 \div 6
            t4 == f4 \div 24
            t5 == f5 \div 120
            t6 == f6 \div 720
            t7 == f7 \div 5040
            t8 == f8 \div 40320
<1>3. /\ t2 \in Nat /\ t3 \in Nat /\ t4 \in Nat /\ t5 \in Nat
      /\ t6 \in Nat /\ t7 \in Nat /\ t8 \in Nat
      /\ t3 <= t2 /\ t5 <= t4 /\ t7 <= t6
  BY <1>1
<1>4. ExpFraction(f)
        = Minus(Minus(Minus(Minus(Scale, f) + t2, t3) + t4, t5) + t6, t7) + t8
  BY <1>2
<1>. HIDE DEF t2, t3, t4, t5, t6, t7, t8
<1>5. \A m \in Nat, n \in Nat : n <= m => Minus(m, n) = m - n /\ m - n \in Nat
  BY DEF Minus
<1>6. Minus(Scale, f) = Scale - f /\ Scale - f \in Nat
  BY <1>0, <1>5
<1>7. /\ Minus((Scale - f) + t2, t3) = (Scale - f) + t2 - t3
      /\ (Scale - f) + t2 - t3 \in Nat
  BY <1>0, <1>3, <1>5, <1>6
<1>. DEFINE s2 == (Scale - f) + t2 - t3
<1>8. /\ Minus(s2 + t4, t5) = s2 + t4 - t5
      /\ s2 + t4 - t5 \in Nat
  <2>1. s2 \in Nat
    BY <1>7
  <2>. HIDE DEF s2
  <2>2. s2 + t4 \in Nat /\ t5 <= s2 + t4
    BY <1>3, <2>1
  <2>. QED BY <1>3, <2>1, <2>2 DEF Minus
<1>. DEFINE s3 == s2 + t4 - t5
<1>9. /\ Minus(s3 + t6, t7) = s3 + t6 - t7
      /\ s3 + t6 - t7 \in Nat
  <2>1. s3 \in Nat
    BY <1>8
  <2>. HIDE DEF s3
  <2>2. s3 + t6 \in Nat /\ t7 <= s3 + t6
    BY <1>3, <2>1
  <2>. QED BY <1>3, <2>1, <2>2 DEF Minus
<1>10. ExpFraction(f) = s3 + t6 - t7 + t8 /\ s3 + t6 - t7 + t8 \in Nat
  BY <1>3, <1>4, <1>6, <1>7, <1>8, <1>9
<1>. QED BY <1>10 DEF f2, f3, f4, f5, f6, f7, f8, t2, t3, t4, t5, t6, t7, t8

(* The change of the series between two arguments, term by term: each of   *)
(* D is what a power changes by, and each of T what its term does.         *)
LEMMA SeriesDiffers ==
  ASSUME NEW a \in 0 .. Scale, NEW b \in 0 .. Scale, b <= a
  PROVE  \E D \in [2 .. 8 -> Nat], T \in [2 .. 8 -> Int] :
           /\ ExpFraction(a) - ExpFraction(b)
                = T[2] - T[3] + T[4] - T[5] + T[6] - T[7] + T[8] - (a - b)
           /\ 9 * D[2] <= 12 * (a - b) + 2 * D[3] + 13
           /\ 2 * D[3] <= 3 * D[2] + 3 /\ 3 * D[4] <= 4 * D[3] + 5
           /\ 4 * D[5] <= 5 * D[4] + 7 /\ 5 * D[6] <= 6 * D[5] + 9
           /\ 6 * D[7] <= 7 * D[6] + 11 /\ 7 * D[8] <= 8 * D[7] + 13
           /\ 2 * T[2] <= D[2] + 1 /\ D[2] - 1 <= 2 * T[2]
           /\ 6 * T[3] <= D[3] + 5 /\ D[3] - 5 <= 6 * T[3]
           /\ 24 * T[4] <= D[4] + 23 /\ D[4] - 23 <= 24 * T[4]
           /\ 120 * T[5] <= D[5] + 119 /\ D[5] - 119 <= 120 * T[5]
           /\ 720 * T[6] <= D[6] + 719 /\ D[6] - 719 <= 720 * T[6]
           /\ 5040 * T[7] <= D[7] + 5039 /\ D[7] - 5039 <= 5040 * T[7]
           /\ 40320 * T[8] <= D[8] + 40319 /\ D[8] - 40319 <= 40320 * T[8]
<1>. DEFINE Power(n, f) == CASE n = 2 -> Second(f) [] n = 3 -> Third(f)
                             [] n = 4 -> Fourth(f) [] n = 5 -> Fifth(f)
                             [] n = 6 -> Sixth(f) [] n = 7 -> Seventh(f)
                             [] n = 8 -> Eighth(f)
            Factor(n) == CASE n = 2 -> 2 [] n = 3 -> 6 [] n = 4 -> 24 [] n = 5 -> 120
                           [] n = 6 -> 720 [] n = 7 -> 5040 [] n = 8 -> 40320
            D == [n \in 2 .. 8 |-> Power(n, a) - Power(n, b)]
            T == [n \in 2 .. 8 |-> (Power(n, a) \div Factor(n)) - (Power(n, b) \div Factor(n))]
<1>1. /\ Second(a) \in Nat /\ Second(b) \in Nat /\ Third(a) \in Nat /\ Third(b) \in Nat
      /\ Fourth(a) \in Nat /\ Fourth(b) \in Nat /\ Fifth(a) \in Nat /\ Fifth(b) \in Nat
      /\ Sixth(a) \in Nat /\ Sixth(b) \in Nat /\ Seventh(a) \in Nat /\ Seventh(b) \in Nat
      /\ Eighth(a) \in Nat /\ Eighth(b) \in Nat
  BY PowersDiffer DEF Ahead
<1>2. /\ D[2] = Second(a) - Second(b) /\ D[3] = Third(a) - Third(b)
      /\ D[4] = Fourth(a) - Fourth(b) /\ D[5] = Fifth(a) - Fifth(b)
      /\ D[6] = Sixth(a) - Sixth(b) /\ D[7] = Seventh(a) - Seventh(b)
      /\ D[8] = Eighth(a) - Eighth(b)
  OBVIOUS
<1>3. /\ T[2] = (Second(a) \div 2) - (Second(b) \div 2)
      /\ T[3] = (Third(a) \div 6) - (Third(b) \div 6)
      /\ T[4] = (Fourth(a) \div 24) - (Fourth(b) \div 24)
      /\ T[5] = (Fifth(a) \div 120) - (Fifth(b) \div 120)
      /\ T[6] = (Sixth(a) \div 720) - (Sixth(b) \div 720)
      /\ T[7] = (Seventh(a) \div 5040) - (Seventh(b) \div 5040)
      /\ T[8] = (Eighth(a) \div 40320) - (Eighth(b) \div 40320)
  OBVIOUS
<1>4. /\ D[2] \in Nat /\ D[3] \in Nat /\ D[4] \in Nat /\ D[5] \in Nat
      /\ D[6] \in Nat /\ D[7] \in Nat /\ D[8] \in Nat
  <2>. HIDE DEF D
  <2>. QED BY <1>2, PowersDiffer DEF Ahead
<1>5. /\ T[2] \in Int /\ 2 * T[2] <= D[2] + 1 /\ D[2] - 1 <= 2 * T[2]
      /\ T[3] \in Int /\ 6 * T[3] <= D[3] + 5 /\ D[3] - 5 <= 6 * T[3]
  <2>. HIDE DEF D, T
  <2>. QED BY <1>1, <1>2, <1>3
<1>6. /\ T[4] \in Int /\ 24 * T[4] <= D[4] + 23 /\ D[4] - 23 <= 24 * T[4]
      /\ T[5] \in Int /\ 120 * T[5] <= D[5] + 119 /\ D[5] - 119 <= 120 * T[5]
  <2>. HIDE DEF D, T
  <2>. QED BY <1>1, <1>2, <1>3
<1>7. /\ T[6] \in Int /\ 720 * T[6] <= D[6] + 719 /\ D[6] - 719 <= 720 * T[6]
      /\ T[7] \in Int /\ 5040 * T[7] <= D[7] + 5039 /\ D[7] - 5039 <= 5040 * T[7]
      /\ T[8] \in Int /\ 40320 * T[8] <= D[8] + 40319 /\ D[8] - 40319 <= 40320 * T[8]
  <2>. HIDE DEF D, T
  <2>. QED BY <1>1, <1>2, <1>3
<1>8. D \in [2 .. 8 -> Nat] /\ T \in [2 .. 8 -> Int]
  <2>. DEFINE range == 2 .. 8
              difference(n) == Power(n, a) - Power(n, b)
              change(n) == (Power(n, a) \div Factor(n)) - (Power(n, b) \div Factor(n))
  <2>1. ASSUME NEW n \in 2 .. 8
        PROVE  D[n] \in Nat /\ T[n] \in Int
    <3>1. n = 2 \/ n = 3 \/ n = 4 \/ n = 5 \/ n = 6 \/ n = 7 \/ n = 8
      OBVIOUS
    <3>. HIDE DEF D, T
    <3>. QED BY <1>4, <1>5, <1>6, <1>7, <3>1
  <2>2. /\ \A n \in range : difference(n) \in Nat /\ change(n) \in Int
        /\ D = [n \in range |-> difference(n)] /\ T = [n \in range |-> change(n)]
    BY <2>1
  <2>. HIDE DEF range, difference, change
  <2>3. D \in [range -> Nat] /\ T \in [range -> Int]
    BY <2>2
  <2>. QED BY <2>3 DEF range
<1>9. ExpFraction(a) - ExpFraction(b)
        = T[2] - T[3] + T[4] - T[5] + T[6] - T[7] + T[8] - (a - b)
  <2>. DEFINE terms(f) == <<Second(f) \div 2, Third(f) \div 6, Fourth(f) \div 24,
                            Fifth(f) \div 120, Sixth(f) \div 720,
                            Seventh(f) \div 5040, Eighth(f) \div 40320>>
  <2>1. \A n \in 1 .. 7 : terms(a)[n] \in Nat /\ terms(b)[n] \in Nat
    BY <1>1
  <2>2. /\ a \in Int /\ b \in Int /\ Scale \in Int
    BY CurveConstants
  <2>3. /\ ExpFraction(a) = Scale - a + terms(a)[1] - terms(a)[2] + terms(a)[3]
              - terms(a)[4] + terms(a)[5] - terms(a)[6] + terms(a)[7]
        /\ ExpFraction(b) = Scale - b + terms(b)[1] - terms(b)[2] + terms(b)[3]
              - terms(b)[4] + terms(b)[5] - terms(b)[6] + terms(b)[7]
    BY SeriesUnsaturated
  <2>. HIDE DEF T
  <2>4. /\ T[2] = terms(a)[1] - terms(b)[1] /\ T[3] = terms(a)[2] - terms(b)[2]
        /\ T[4] = terms(a)[3] - terms(b)[3] /\ T[5] = terms(a)[4] - terms(b)[4]
        /\ T[6] = terms(a)[5] - terms(b)[5] /\ T[7] = terms(a)[6] - terms(b)[6]
        /\ T[8] = terms(a)[7] - terms(b)[7]
    BY <1>3
  <2>. HIDE DEF terms
  <2>. QED BY <2>1, <2>2, <2>3, <2>4
<1>10. /\ 2 * D[3] <= 3 * D[2] + 3 /\ 3 * D[4] <= 4 * D[3] + 5
       /\ 4 * D[5] <= 5 * D[4] + 7 /\ 5 * D[6] <= 6 * D[5] + 9
       /\ 6 * D[7] <= 7 * D[6] + 11 /\ 7 * D[8] <= 8 * D[7] + 13
  <2>. HIDE DEF D
  <2>. QED BY <1>2, PowersDiffer
<1>11. 9 * D[2] <= 12 * (a - b) + 2 * D[3] + 13
  <2>. HIDE DEF D
  <2>. QED BY <1>2, CubeHolds
<1>. HIDE DEF D, T
<1>. QED BY <1>5, <1>6, <1>7, <1>8, <1>9, <1>10, <1>11

(* The error the truncations of the series can make, in units.             *)
Noise == 7

(* The series falls by a third of the distance of its arguments, up to     *)
(* what its seven truncations can add.                                     *)
THEOREM SeriesFalls ==
  ASSUME NEW a \in 0 .. Scale, NEW b \in 0 .. Scale, b <= a
  PROVE  3 * (ExpFraction(a) - ExpFraction(b)) + (a - b) <= 3 * Noise
<1>1. a - b \in Nat
  BY CurveConstants
<1>. DEFINE e == a - b
            change == ExpFraction(a) - ExpFraction(b)
<1>2. PICK D \in [2 .. 8 -> Nat], T \in [2 .. 8 -> Int] :
         /\ change = T[2] - T[3] + T[4] - T[5] + T[6] - T[7] + T[8] - e
         /\ 9 * D[2] <= 12 * e + 2 * D[3] + 13 /\ 3 * D[4] <= 4 * D[3] + 5
         /\ 5 * D[6] <= 6 * D[5] + 9 /\ 7 * D[8] <= 8 * D[7] + 13
         /\ 2 * T[2] <= D[2] + 1 /\ D[3] - 5 <= 6 * T[3]
         /\ 24 * T[4] <= D[4] + 23 /\ D[5] - 119 <= 120 * T[5]
         /\ 720 * T[6] <= D[6] + 719 /\ D[7] - 5039 <= 5040 * T[7]
         /\ 40320 * T[8] <= D[8] + 40319
  BY SeriesDiffers
<1>3. \A n \in 2 .. 8 : D[n] \in Nat /\ T[n] \in Int
  OBVIOUS
<1>. HIDE DEF e, change
<1>4. 3 * change + e <= 3 * Noise
  <2>1. e \in Nat
    BY <1>1 DEF e
  <2>. QED BY <1>2, <1>3, <2>1 DEF Noise
<1>. QED BY <1>4 DEF e, change

(* Nor does it fall by more than that distance, up to the same noise: what *)
(* an odd power takes away the even one before it has added.               *)
THEOREM SeriesIsSmooth ==
  ASSUME NEW a \in 0 .. Scale, NEW b \in 0 .. Scale, b <= a
  PROVE  ExpFraction(b) - ExpFraction(a) <= (a - b) + Noise
<1>1. a - b \in Nat
  BY CurveConstants
<1>. DEFINE e == a - b
            change == ExpFraction(a) - ExpFraction(b)
<1>2. PICK D \in [2 .. 8 -> Nat], T \in [2 .. 8 -> Int] :
         /\ change = T[2] - T[3] + T[4] - T[5] + T[6] - T[7] + T[8] - e
         /\ 2 * D[3] <= 3 * D[2] + 3 /\ 4 * D[5] <= 5 * D[4] + 7
         /\ 6 * D[7] <= 7 * D[6] + 11
         /\ D[2] - 1 <= 2 * T[2] /\ 6 * T[3] <= D[3] + 5
         /\ D[4] - 23 <= 24 * T[4] /\ 120 * T[5] <= D[5] + 119
         /\ D[6] - 719 <= 720 * T[6] /\ 5040 * T[7] <= D[7] + 5039
         /\ D[8] - 40319 <= 40320 * T[8]
  BY SeriesDiffers
<1>3. \A n \in 2 .. 8 : D[n] \in Nat /\ T[n] \in Int
  OBVIOUS
<1>. HIDE DEF e, change
<1>4. 0 - change <= e + Noise
  <2>1. e \in Nat
    BY <1>1 DEF e
  <2>. QED BY <1>2, <1>3, <2>1 DEF Noise
<1>5. ExpFraction(a) \in Nat /\ ExpFraction(b) \in Nat
  BY SeriesUnsaturated
<1>. QED BY <1>1, <1>4, <1>5 DEF e, change

(* The series starts at one. *)
LEMMA SeriesAtZero ==
  ExpFraction(0) = Scale
<1>1. Scale \in Nat \ {0}
  BY CurveConstants
<1>2. (0 * 0) \div Scale = 0 /\ (0 * 0) \div Scale = 0 * 0
  BY <1>1
<1>. QED BY <1>1, <1>2 DEF ExpFraction, Minus

(* On the whole interval the series stays between its value at the end and *)
(* the fixed-point one, up to the noise.                                   *)
LEMMA SeriesBounds ==
  ASSUME NEW f \in 0 .. Scale
  PROVE  /\ ExpFraction(f) \in Nat /\ ExpFraction(Scale) \in Nat
         /\ ExpFraction(f) <= Scale + Noise
         /\ ExpFraction(Scale) - Noise <= ExpFraction(f)
<1>1. Scale \in Nat \ {0}
  BY CurveConstants
<1>2. ExpFraction(0) = Scale
  BY SeriesAtZero
<1>3. ExpFraction(f) \in Nat /\ ExpFraction(Scale) \in Nat
  BY <1>1, SeriesUnsaturated
<1>4. 3 * (ExpFraction(f) - ExpFraction(0)) + (f - 0) <= 3 * Noise
  BY <1>1, SeriesFalls
<1>5. 3 * (ExpFraction(Scale) - ExpFraction(f)) + (Scale - f) <= 3 * Noise
  BY <1>1, SeriesFalls
<1>. QED BY <1>1, <1>2, <1>3, <1>4, <1>5 DEF Noise

(* The table goes with the series: at each whole number what the series    *)
(* has come down to is no less than the next entry, with the noise on both *)
(* sides, and at the last one something is left.                           *)
JointsFall ==
  LET end == ExpFraction(Scale) - Noise
  IN /\ \A n \in 0 .. 3 : ExpNegInt[n + 1] * (Scale + Noise) <= ExpNegInt[n] * end
     /\ Scale <= ExpNegInt[4] * end

(* Then the table falls, and something is left at the end of the series.   *)
LEMMA TableFalls ==
  ASSUME JointsFall
  PROVE  /\ ExpFraction(Scale) - Noise \in Nat \ {0}
         /\ \A m \in 0 .. 4, n \in 0 .. 4 : m <= n => ExpNegInt[n] <= ExpNegInt[m]
<1>. DEFINE end == ExpFraction(Scale) - Noise
<1>1. Scale \in Nat \ {0} /\ \A n \in 0 .. 4 : ExpNegInt[n] \in Nat
  BY CurveConstants
<1>2. end \in Int /\ end <= Scale + Noise
  <2>1. Scale \in 0 .. Scale
    BY <1>1
  <2>. QED BY <1>1, <2>1, SeriesBounds DEF Noise
<1>3. /\ \A n \in 0 .. 3 : ExpNegInt[n + 1] * (Scale + Noise) <= ExpNegInt[n] * end
      /\ Scale <= ExpNegInt[4] * end
  BY DEF JointsFall
<1>. HIDE DEF end
<1>4. end >= 1
  <2>1. SUFFICES ASSUME end <= 0 PROVE FALSE
    BY <1>2
  <2>2. ExpNegInt[4] * end <= ExpNegInt[4] * 0
    BY <1>1, <1>2, <2>1, ProductBound
  <2>3. ExpNegInt[4] * 0 = 0 /\ ExpNegInt[4] * end \in Int
    BY <1>1, <1>2
  <2>. QED BY <1>1, <1>3, <2>2, <2>3
<1>5. ASSUME NEW n \in 0 .. 3 PROVE ExpNegInt[n + 1] <= ExpNegInt[n]
  <2>1. n \in 0 .. 4 /\ n + 1 \in 0 .. 4
    OBVIOUS
  <2>2. ExpNegInt[n] \in Nat /\ ExpNegInt[n + 1] \in Nat
    BY <1>1, <2>1
  <2>. DEFINE here == ExpNegInt[n]
              next == ExpNegInt[n + 1]
              one == Scale + Noise
  <2>3. next * one <= here * end
    BY <1>3
  <2>4. here \in Nat /\ next \in Nat /\ one \in Nat \ {0} /\ end <= one
    BY <1>1, <1>2, <2>2 DEF Noise
  <2>. HIDE DEF here, next, one
  <2>5. here * end <= here * one
    BY <1>2, <2>4, ProductBound
  <2>6. one * next <= one * here
    <3>1. /\ next * one = one * next /\ here * one = one * here
          /\ next * one \in Int /\ here * one \in Int /\ here * end \in Int
      BY <1>2, <2>4
    <3>. QED BY <2>3, <2>5, <3>1
  <2>7. next <= here
    BY <2>4, <2>6, CancelFactor
  <2>. QED BY <2>7 DEF here, next
<1>6. /\ ExpNegInt[1] <= ExpNegInt[0] /\ ExpNegInt[2] <= ExpNegInt[1]
      /\ ExpNegInt[3] <= ExpNegInt[2] /\ ExpNegInt[4] <= ExpNegInt[3]
  <2>1. /\ ExpNegInt[0 + 1] <= ExpNegInt[0] /\ ExpNegInt[1 + 1] <= ExpNegInt[1]
        /\ ExpNegInt[2 + 1] <= ExpNegInt[2] /\ ExpNegInt[3 + 1] <= ExpNegInt[3]
    BY <1>5
  <2>. QED BY <2>1
<1>7. \A m \in 0 .. 4, n \in 0 .. 4 : m <= n => ExpNegInt[n] <= ExpNegInt[m]
  BY <1>1, <1>6
<1>. QED BY <1>2, <1>4, <1>7 DEF end

(* Division keeps an order. *)
LEMMA DivisionKeepsOrder ==
  ASSUME NEW x \in Nat, NEW y \in Nat, x <= y, NEW s \in Nat \ {0}
  PROVE  x \div s <= y \div s
<1>. DEFINE p == x \div s
            q == y \div s
<1>1. p \in Nat /\ s * p <= x /\ q \in Nat /\ y <= s * q + s - 1
  BY Quotient
<1>. HIDE DEF p, q
<1>2. SUFFICES ASSUME q + 1 <= p PROVE FALSE
  BY <1>1 DEF p, q
<1>3. s * (q + 1) <= s * p
  BY <1>1, <1>2, ProductBound
<1>4. s * (q + 1) = s * q + s /\ s * q \in Int /\ s * p \in Int
  BY <1>1
<1>. QED BY <1>1, <1>3, <1>4

(* Where an argument before the cut-off lies: its table entry, and its     *)
(* place in the series.                                                    *)
LEMMA ExpNegParts ==
  ASSUME NEW x \in Nat, x < MaxExpX
  PROVE  LET n == x \div Scale
             f == x % Scale
         IN /\ n \in 0 .. 4 /\ f \in 0 .. Scale /\ f <= Scale - 1 /\ x = Scale * n + f
            /\ ExpNegInt[n] * ExpFraction(f) \in Nat
            /\ ExpNeg(x) = (ExpNegInt[n] * ExpFraction(f)) \div Scale
<1>. DEFINE n == x \div Scale
            f == x % Scale
<1>1. Scale \in Nat \ {0} /\ MaxExpX \in Nat /\ MaxExpX < 5 * Scale
  BY CurveConstants
<1>2. n \in Nat /\ f \in 0 .. Scale - 1 /\ x = Scale * n + f
  BY <1>1, Division
<1>3. ExpNeg(x) = (ExpNegInt[n] * ExpFraction(f)) \div Scale
  BY <1>1 DEF ExpNeg
<1>. HIDE DEF n, f
<1>4. n <= 4
  <2>1. SUFFICES ASSUME 5 <= n PROVE FALSE
    BY <1>2
  <2>2. Scale * 5 <= Scale * n
    BY <1>1, <1>2, <2>1, ProductBound
  <2>3. Scale * n \in Int
    BY <1>1, <1>2
  <2>. QED BY <1>1, <1>2, <2>2, <2>3
<1>5. ExpNegInt[n] \in Nat /\ ExpFraction(f) \in Nat
  BY <1>1, <1>2, <1>4, SeriesBounds, CurveConstants
<1>6. ExpNegInt[n] * ExpFraction(f) \in Nat
  BY <1>5
<1>. QED BY <1>1, <1>2, <1>3, <1>4, <1>6 DEF n, f

(* The hypothesis of MintsAreCovered, for any precision and any table that *)
(* goes with the series: arguments 22 units apart are in order.            *)
THEOREM JointsDecrease ==
  ASSUME JointsFall
  PROVE  Decreasing(3 * Noise + 1)
<1>. DEFINE end == ExpFraction(Scale) - Noise
<1>1. Scale \in Nat \ {0} /\ MaxExpX \in Nat /\ \A n \in 0 .. 4 : ExpNegInt[n] \in Nat
  BY CurveConstants
<1>2. /\ end \in Nat \ {0}
      /\ \A m \in 0 .. 4, n \in 0 .. 4 : m <= n => ExpNegInt[n] <= ExpNegInt[m]
  BY TableFalls
<1>3. /\ \A n \in 0 .. 3 : ExpNegInt[n + 1] * (Scale + Noise) <= ExpNegInt[n] * end
      /\ Scale <= ExpNegInt[4] * end
  BY DEF JointsFall
<1>4. \A f \in 0 .. Scale : /\ ExpFraction(f) \in Nat /\ ExpFraction(f) <= Scale + Noise
                            /\ end <= ExpFraction(f)
  BY SeriesBounds
<1>. HIDE DEF end
<1>5. ASSUME NEW a \in Nat, NEW b \in Nat, a >= b + (3 * Noise + 1)
      PROVE  ExpNeg(a) <= ExpNeg(b)
  <2>1. CASE a >= MaxExpX
    <3>1. ExpNeg(a) = 0 /\ ExpNeg(b) \in Nat
      BY <2>1, ExpNegType DEF ExpNeg
    <3>. QED BY <3>1
  <2>2. CASE a < MaxExpX
    <3>. DEFINE na == a \div Scale
                ra == a % Scale
                nb == b \div Scale
                rb == b % Scale
    <3>1. b < MaxExpX /\ b + 22 <= a
      BY <1>1, <1>5, <2>2 DEF Noise
    <3>2. /\ na \in 0 .. 4 /\ ra \in 0 .. Scale /\ ra <= Scale - 1 /\ a = Scale * na + ra
          /\ ExpNegInt[na] * ExpFraction(ra) \in Nat
          /\ ExpNeg(a) = (ExpNegInt[na] * ExpFraction(ra)) \div Scale
      BY <2>2, ExpNegParts
    <3>3. /\ nb \in 0 .. 4 /\ rb \in 0 .. Scale /\ rb <= Scale - 1 /\ b = Scale * nb + rb
          /\ ExpNegInt[nb] * ExpFraction(rb) \in Nat
          /\ ExpNeg(b) = (ExpNegInt[nb] * ExpFraction(rb)) \div Scale
      BY <3>1, ExpNegParts
    <3>. HIDE DEF na, ra, nb, rb
    <3>4. nb <= na
      <4>1. SUFFICES ASSUME na + 1 <= nb PROVE FALSE
        BY <3>2, <3>3
      <4>2. Scale * (na + 1) <= Scale * nb
        BY <1>1, <3>2, <3>3, <4>1, ProductBound
      <4>3. Scale * (na + 1) = Scale * na + Scale /\ Scale * na \in Int /\ Scale * nb \in Int
        BY <1>1, <3>2, <3>3
      <4>. QED BY <1>1, <3>1, <3>2, <3>3, <4>2, <4>3
    <3>5. ExpNegInt[na] * ExpFraction(ra) <= ExpNegInt[nb] * ExpFraction(rb)
      <4>. DEFINE Ta == ExpNegInt[na]
                  Tb == ExpNegInt[nb]
                  Ea == ExpFraction(ra)
                  Eb == ExpFraction(rb)
      <4>1. /\ Ta \in Nat /\ Tb \in Nat /\ Ea \in Nat /\ Eb \in Nat
            /\ Ea <= Scale + Noise /\ end <= Eb
        BY <1>1, <1>4, <3>2, <3>3
      <4>2. CASE na = nb
        <5>1. rb <= ra /\ ra - rb >= 22
          BY <1>1, <3>1, <3>2, <3>3, <4>2
        <5>2. 3 * (Ea - Eb) + (ra - rb) <= 3 * Noise
          BY <3>2, <3>3, <5>1, SeriesFalls
        <5>3. Ea <= Eb
          BY <1>1, <3>2, <3>3, <4>1, <5>1, <5>2 DEF Noise
        <5>. QED BY <4>1, <4>2, <5>3, ProductBound
      <4>3. CASE na # nb
        <5>1. nb \in 0 .. 3 /\ nb + 1 \in 0 .. 4 /\ nb + 1 <= na
          BY <3>2, <3>3, <3>4, <4>3
        <5>. DEFINE next == ExpNegInt[nb + 1]
        <5>2. next \in Nat /\ Ta <= next
          BY <1>1, <1>2, <3>2, <5>1
        <5>3. next * (Scale + Noise) <= Tb * end
          BY <1>3, <5>1
        <5>. HIDE DEF next, Ta, Tb, Ea, Eb
        <5>4. Ta * Ea <= Ta * (Scale + Noise)
          BY <1>1, <4>1, ProductBound DEF Noise
        <5>5. (Scale + Noise) * Ta <= (Scale + Noise) * next
          BY <1>1, <4>1, <5>2, ProductBound DEF Noise
        <5>6. Tb * end <= Tb * Eb
          BY <1>2, <4>1, ProductBound
        <5>7. /\ (Scale + Noise) * Ta = Ta * (Scale + Noise)
              /\ (Scale + Noise) * next = next * (Scale + Noise)
              /\ Ta * (Scale + Noise) \in Int /\ next * (Scale + Noise) \in Int
              /\ Ta * Ea \in Int /\ Tb * end \in Int /\ Tb * Eb \in Int
          BY <1>1, <1>2, <4>1, <5>2 DEF Noise
        <5>8. Ta * Ea <= Tb * Eb
          BY <5>3, <5>4, <5>5, <5>6, <5>7
        <5>. QED BY <5>8 DEF Ta, Tb, Ea, Eb
      <4>. QED BY <4>2, <4>3
    <3>. QED BY <1>1, <3>2, <3>3, <3>5, DivisionKeepsOrder
  <2>. QED BY <1>1, <2>1, <2>2
<1>6. ASSUME NEW a \in 0 .. MaxExpX - 1
      PROVE  ExpNeg(a) > 0
  <2>. DEFINE n == a \div Scale
              f == a % Scale
  <2>1. /\ n \in 0 .. 4 /\ f \in 0 .. Scale
        /\ ExpNegInt[n] * ExpFraction(f) \in Nat
        /\ ExpNeg(a) = (ExpNegInt[n] * ExpFraction(f)) \div Scale
    BY <1>1, ExpNegParts
  <2>. HIDE DEF n, f
  <2>. DEFINE entry == ExpNegInt[n]
              least == ExpNegInt[4]
              here == ExpFraction(f)
  <2>2. entry \in Nat /\ least \in Nat /\ least <= entry /\ here \in Nat /\ end <= here
    BY <1>1, <1>2, <1>4, <2>1
  <2>3. Scale <= least * end /\ entry * here \in Nat
    BY <1>3, <2>1
  <2>4. ExpNeg(a) = (entry * here) \div Scale
    BY <2>1
  <2>. HIDE DEF entry, least, here
  <2>5. end * least <= end * entry /\ entry * end <= entry * here
    BY <1>2, <2>2, ProductBound
  <2>6. /\ end * least = least * end /\ end * entry = entry * end
        /\ least * end \in Int /\ entry * end \in Int
    BY <1>2, <2>2
  <2>7. Scale <= entry * here
    BY <1>1, <2>3, <2>5, <2>6
  <2>8. Scale \div Scale = 1
    BY <1>1
  <2>9. Scale \div Scale <= (entry * here) \div Scale
    BY <1>1, <2>3, <2>7, DivisionKeepsOrder
  <2>10. (entry * here) \div Scale \in Nat
    BY <1>1, <2>3, Quotient
  <2>. QED BY <2>4, <2>8, <2>9, <2>10
<1>. QED BY <1>5, <1>6 DEF Decreasing

(* The table starts at one, and at each whole number it goes no further    *)
(* below what the series has come down to than jump.                       *)
JointsMeet(jump) ==
  /\ ExpNegInt[0] = Scale
  /\ \A n \in 0 .. 3 :
       ExpNegInt[n] * ExpFraction(Scale) <= (ExpNegInt[n + 1] + jump) * Scale

(* A quotient moves by no more than its dividend does, and one. *)
LEMMA QuotientMoves ==
  ASSUME NEW u \in Nat, NEW v \in Nat, NEW s \in Nat \ {0}, NEW c \in Nat,
         u <= v + s * c
  PROVE  u \div s <= v \div s + c + 1
<1>. DEFINE p == u \div s
            q == v \div s
<1>1. p \in Nat /\ s * p <= u /\ q \in Nat /\ v <= s * q + s - 1
  BY Quotient
<1>. HIDE DEF p, q
<1>2. SUFFICES ASSUME q + c + 1 <= p PROVE FALSE
  BY <1>1 DEF p, q
<1>3. s * (q + c + 1) <= s * p
  BY <1>1, <1>2, ProductBound
<1>4. /\ s * (q + c + 1) = s * q + s * c + s
      /\ s * q \in Int /\ s * c \in Int /\ s * p \in Int
  BY <1>1
<1>. QED BY <1>1, <1>3, <1>4

(* exp_neg falls, between arguments no further apart than the fixed-point  *)
(* one, by no more than their distance, the one joint that may lie between *)
(* them, and the noise on either side of it.                               *)
LEMMA ExpNegIsSmooth ==
  ASSUME NEW jump \in Nat, JointsMeet(jump),
         NEW a \in Nat, NEW b \in Nat, b <= a, a < MaxExpX, a - b <= Scale
  PROVE  ExpNeg(b) <= ExpNeg(a) + (a - b) + jump + 2 * Noise + 1
<1>. DEFINE na == a \div Scale
            ra == a % Scale
            nb == b \div Scale
            rb == b % Scale
            e == a - b
<1>1. /\ Scale \in Nat \ {0} /\ \A n \in 0 .. 4 : ExpNegInt[n] \in 0 .. Scale
      /\ MaxExpX \in Nat
  BY CurveConstants
<1>2. /\ na \in 0 .. 4 /\ ra \in 0 .. Scale /\ ra <= Scale - 1 /\ a = Scale * na + ra
      /\ ExpNegInt[na] * ExpFraction(ra) \in Nat
      /\ ExpNeg(a) = (ExpNegInt[na] * ExpFraction(ra)) \div Scale
  BY ExpNegParts
<1>3. /\ nb \in 0 .. 4 /\ rb \in 0 .. Scale /\ rb <= Scale - 1 /\ b = Scale * nb + rb
      /\ ExpNegInt[nb] * ExpFraction(rb) \in Nat
      /\ ExpNeg(b) = (ExpNegInt[nb] * ExpFraction(rb)) \div Scale
  <2>1. b < MaxExpX
    BY <1>1
  <2>. QED BY <2>1, ExpNegParts
<1>. HIDE DEF na, ra, nb, rb
<1>4. e \in Nat /\ e <= Scale /\ Scale * na + ra = Scale * nb + rb + e
  BY <1>2, <1>3
<1>5. na = nb \/ na = nb + 1
  <2>1. Scale * na \in Int /\ Scale * nb \in Int
    BY <1>1, <1>2, <1>3
  <2>2. ASSUME na + 1 <= nb PROVE FALSE
    <3>1. Scale * (na + 1) <= Scale * nb /\ Scale * (na + 1) = Scale * na + Scale
      BY <1>1, <1>2, <1>3, <2>2, ProductBound
    <3>. QED BY <1>1, <1>2, <1>3, <1>4, <2>1, <3>1
  <2>3. ASSUME nb + 2 <= na PROVE FALSE
    <3>1. Scale * (nb + 2) <= Scale * na /\ Scale * (nb + 2) = Scale * nb + 2 * Scale
      BY <1>1, <1>2, <1>3, <2>3, ProductBound
    <3>. QED BY <1>1, <1>2, <1>3, <1>4, <2>1, <3>1
  <2>. QED BY <1>2, <1>3, <2>2, <2>3
<1>. DEFINE Ta == ExpNegInt[na]
            Tb == ExpNegInt[nb]
            Ea == ExpFraction(ra)
            Eb == ExpFraction(rb)
            c == e + jump + 2 * Noise
<1>6. /\ Ta \in 0 .. Scale /\ Tb \in 0 .. Scale /\ Ea \in Nat /\ Eb \in Nat
      /\ Ta * Ea \in Nat /\ Tb * Eb \in Nat /\ c \in Nat
  BY <1>1, <1>2, <1>3, <1>4, SeriesBounds DEF Noise
<1>7. Tb * Eb <= Ta * Ea + Scale * c
  <2>1. CASE na = nb
    <3>1. rb <= ra /\ ra - rb = e
      BY <1>1, <1>2, <1>3, <1>4, <2>1
    <3>2. Eb - Ea <= (ra - rb) + Noise
      BY <1>2, <1>3, <3>1, SeriesIsSmooth
    <3>. HIDE DEF Ta, Tb, Ea, Eb, e, c
    <3>3. Eb <= Ea + c /\ Ta = Tb
      <4>1. Ta = Tb
        BY <2>1 DEF Ta, Tb
      <4>. QED BY <1>4, <1>6, <3>1, <3>2, <4>1 DEF Noise, c
    <3>4. Tb * Eb <= Tb * (Ea + c)
      BY <1>6, <3>3, ProductBound
    <3>5. Tb * (Ea + c) = Ta * Ea + c * Tb /\ c * Tb <= c * Scale /\ c * Scale = Scale * c
      BY <1>1, <1>6, <3>3, ProductBound
    <3>6. c * Tb \in Int /\ Scale * c \in Int
      BY <1>1, <1>6
    <3>. QED BY <1>6, <3>4, <3>5, <3>6
  <2>2. CASE na = nb + 1
    <3>. DEFINE end == ExpFraction(Scale)
                left == Scale - rb
    <3>1. left \in Nat /\ left + ra = e
      <4>1. Scale * na = Scale * nb + Scale
        BY <1>1, <1>2, <1>3, <2>2
      <4>2. Scale * nb \in Int
        BY <1>1, <1>3
      <4>. QED BY <1>1, <1>2, <1>3, <1>4, <4>1, <4>2
    <3>2. /\ end \in Nat /\ Eb <= end + left + Noise
      <4>1. ExpFraction(rb) - ExpFraction(Scale) <= (Scale - rb) + Noise
        BY <1>1, <1>3, SeriesIsSmooth
      <4>2. end \in Nat
        BY <1>1, SeriesUnsaturated
      <4>. QED BY <1>1, <1>3, <1>6, <4>1, <4>2 DEF Noise
    <3>3. Scale <= Ea + ra + Noise
      <4>1. ExpFraction(0) - ExpFraction(ra) <= (ra - 0) + Noise /\ ExpFraction(0) = Scale
        BY <1>1, <1>2, SeriesIsSmooth, SeriesAtZero
      <4>. QED BY <1>1, <1>2, <1>6, <4>1 DEF Noise
    <3>4. Tb * end <= (Ta + jump) * Scale
      BY <1>3, <2>2, <1>2 DEF JointsMeet
    <3>. HIDE DEF Ta, Tb, Ea, Eb, e, c, end, left
    <3>5. Tb * Eb <= Tb * end + (left + Noise) * Scale
      <4>1. Tb * Eb <= Tb * (end + left + Noise)
        BY <1>6, <3>1, <3>2, ProductBound DEF Noise
      <4>2. (left + Noise) * Tb <= (left + Noise) * Scale
        BY <1>1, <1>6, <3>1, ProductBound DEF Noise
      <4>3. /\ Tb * (end + left + Noise) = Tb * end + (left + Noise) * Tb
            /\ Tb * end \in Int /\ (left + Noise) * Tb \in Int /\ (left + Noise) * Scale \in Int
        BY <1>1, <1>6, <3>1, <3>2 DEF Noise
      <4>. QED BY <1>6, <4>1, <4>2, <4>3
    <3>6. Ta * Scale <= Ta * Ea + (ra + Noise) * Scale
      <4>1. Ta * Scale <= Ta * (Ea + ra + Noise)
        BY <1>1, <1>2, <1>6, <3>3, ProductBound DEF Noise
      <4>2. (ra + Noise) * Ta <= (ra + Noise) * Scale
        BY <1>1, <1>2, <1>6, ProductBound DEF Noise
      <4>3. /\ Ta * (Ea + ra + Noise) = Ta * Ea + (ra + Noise) * Ta
            /\ Ta * Ea \in Int /\ (ra + Noise) * Ta \in Int /\ (ra + Noise) * Scale \in Int
            /\ Ta * Scale \in Int
        BY <1>1, <1>2, <1>6 DEF Noise
      <4>. QED BY <4>1, <4>2, <4>3
    <3>7. (Ta + jump) * Scale = Ta * Scale + jump * Scale
      BY <1>1, <1>6
    <3>8. Scale * c = (left + Noise) * Scale + (ra + Noise) * Scale + jump * Scale
      <4>1. c = (left + Noise) + (ra + Noise) + jump
        BY <1>2, <3>1 DEF c, Noise
      <4>. QED BY <1>1, <1>2, <3>1, <4>1 DEF Noise
    <3>9. /\ Tb * end \in Int /\ Ta * Scale \in Int /\ jump * Scale \in Int
          /\ (left + Noise) * Scale \in Int /\ (ra + Noise) * Scale \in Int
      BY <1>1, <1>2, <1>6, <3>1, <3>2 DEF Noise
    <3>. QED BY <1>6, <3>4, <3>5, <3>6, <3>7, <3>8, <3>9
  <2>. QED BY <1>5, <2>1, <2>2
<1>8. (Tb * Eb) \div Scale <= (Ta * Ea) \div Scale + c + 1
  <2>. HIDE DEF Ta, Tb, Ea, Eb, c
  <2>. QED BY <1>1, <1>6, <1>7, QuotientMoves
<1>9. ExpNeg(b) <= ExpNeg(a) + c + 1
  BY <1>2, <1>3, <1>8
<1>10. ExpNeg(a) \in Nat /\ ExpNeg(b) \in Nat
  BY ExpNegType
<1>. QED BY <1>4, <1>9, <1>10 DEF Noise

(* The bisection inverts exp_neg: at what it returns for a target exp_neg  *)
(* is the target again, up to what exp_neg falls by over the interval the  *)
(* rounds have left, of which span is a bound.                             *)
THEOREM BisectionReturns ==
  ASSUME NEW jump \in Nat, JointsMeet(jump), MaxExpX > 0,
         NEW doubled \in [Nat -> Nat \ {0}],
         doubled[0] = 1, \A i \in Nat : doubled[i + 1] = 2 * doubled[i],
         NEW span \in Nat, span < Scale, MaxExpX < doubled[Rounds] * (span + 1),
         NEW target \in Nat, target <= Scale, target > ExpNeg(MaxExpX - 1)
  PROVE  LET found == ExpNeg(SolveExpInverse(target))
         IN /\ found \in Nat
            /\ found <= target + span + jump + 2 * Noise + 2
            /\ target <= found + span + jump + 2 * Noise + 2
<1>. DEFINE t == span + jump + 2 * Noise + 2
            last == MaxExpX - 1
            power == doubled[Rounds]
<1>1. /\ Scale \in Nat \ {0} /\ MaxExpX \in Nat /\ Rounds \in Nat /\ last \in Nat
      /\ power \in Nat \ {0} /\ t \in Nat /\ last < MaxExpX
  BY CurveConstants DEF Noise
<1>2. ExpNeg(last) \in Nat /\ ExpNeg(last) < target
  BY <1>1, ExpNegType
<1>3. ExpNeg(0) = Scale
  <2>1. 0 \div Scale = 0 /\ 0 % Scale = 0
    BY <1>1
  <2>2. ExpNeg(0) = (ExpNegInt[0] * ExpFraction(0)) \div Scale
    BY <1>1, <2>1 DEF ExpNeg
  <2>3. (Scale * Scale) \div Scale = Scale
    BY <1>1
  <2>. QED BY <2>2, <2>3, SeriesAtZero DEF JointsMeet
<1>4. ASSUME NEW a \in Nat, NEW b \in Nat, b <= a, a - b <= span + 1, a < MaxExpX
      PROVE  ExpNeg(a) \in Nat /\ ExpNeg(b) \in Nat /\ ExpNeg(b) <= ExpNeg(a) + t
  <2>1. a - b <= Scale
    BY <1>1, <1>4
  <2>2. ExpNeg(b) <= ExpNeg(a) + (a - b) + jump + 2 * Noise + 1
    BY <1>4, <2>1, ExpNegIsSmooth
  <2>3. ExpNeg(a) \in Nat /\ ExpNeg(b) \in Nat
    BY ExpNegType
  <2>. QED BY <1>4, <2>2, <2>3 DEF Noise
<1>. HIDE DEF t, last, power
<1>5. SUFFICES /\ ExpNeg(SolveExpInverse(target)) \in Nat
               /\ ExpNeg(SolveExpInverse(target)) <= target + t
               /\ target <= ExpNeg(SolveExpInverse(target)) + t
  <2>1. t = span + jump + 2 * Noise + 2
    BY DEF t
  <2>. QED BY <1>1, <2>1 DEF Noise
<1>6. CASE target = Scale
  <2>1. SolveExpInverse(target) = 0
    BY <1>1, <1>6 DEF SolveExpInverse
  <2>2. ExpNeg(SolveExpInverse(target)) = target
    BY <1>3, <1>6, <2>1
  <2>. QED BY <1>1, <2>2
<1>7. CASE target # Scale
  <2>. DEFINE v == Bisection(target)
              mid == SolveExpInverse(target)
              low == v.low
              high == v.high
              long == high - low - 1
  <2>1. target \in 1 .. Scale - 1
    BY <1>1, <1>2, <1>7
  <2>2. v \in Bracket(target, power)
    BY <2>1, BisectionBrackets DEF power
  <2>3. mid = (low + high) \div 2
    BY <1>1, <2>1 DEF SolveExpInverse, Middle
  <2>. HIDE DEF v, mid
  <2>4. /\ low \in Nat /\ high \in Nat /\ low <= high /\ high <= MaxExpX
        /\ low = 0 \/ ExpNeg(low) > target
        /\ ExpNeg(high) <= target
        /\ power * long <= MaxExpX
    BY <1>1, <2>2 DEF Bracket, Interval
  <2>. HIDE DEF low, high
  <2>5. high - low <= span + 1
    <3>1. long \in Int
      BY <2>4
    <3>. HIDE DEF long
    <3>2. SUFFICES ASSUME span + 1 <= long PROVE FALSE
      BY <2>4, <3>1 DEF long
    <3>3. power * (span + 1) <= power * long
      BY <1>1, <3>1, <3>2, ProductBound
    <3>4. MaxExpX < power * (span + 1)
      BY DEF power
    <3>5. power * (span + 1) \in Int /\ power * long \in Int
      BY <1>1, <3>1
    <3>. QED BY <1>1, <2>4, <3>3, <3>4, <3>5
  <2>6. mid \in Nat /\ 2 * mid <= low + high /\ low + high <= 2 * mid + 1
    BY <2>3, <2>4
  <2>7. ExpNeg(low) \in Nat /\ ExpNeg(low) > target /\ low < MaxExpX
    <3>1. ExpNeg(low) > target
      BY <1>1, <1>3, <2>1, <2>4
    <3>2. low >= MaxExpX => ExpNeg(low) = 0
      BY DEF ExpNeg
    <3>. QED BY <1>1, <2>1, <2>4, <3>1, <3>2, ExpNegType
  <2>8. ExpNeg(high) \in Nat /\ ExpNeg(high) <= target
    BY <2>4, ExpNegType
  <2>9. low < high
    <3>1. low # high
      BY <2>1, <2>7, <2>8
    <3>. QED BY <2>4, <3>1
  <2>10. low <= mid /\ mid < high /\ mid < MaxExpX
    BY <1>1, <2>4, <2>6, <2>9
  <2>11. ExpNeg(mid) \in Nat /\ target <= ExpNeg(mid) + t
    <3>1. mid - low <= span + 1
      BY <2>4, <2>5, <2>6, <2>10
    <3>2. ExpNeg(mid) \in Nat /\ ExpNeg(low) <= ExpNeg(mid) + t
      BY <1>4, <2>4, <2>6, <2>10, <3>1
    <3>. QED BY <1>1, <2>1, <2>7, <3>2
  <2>12. ExpNeg(mid) <= target + t
    <3>1. CASE high < MaxExpX
      <4>1. high - mid <= span + 1
        BY <2>4, <2>5, <2>6, <2>10
      <4>2. ExpNeg(mid) <= ExpNeg(high) + t
        BY <1>4, <2>4, <2>6, <2>10, <3>1, <4>1
      <4>. QED BY <1>1, <2>1, <2>8, <2>11, <4>2
    <3>2. CASE high = MaxExpX
      <4>1. mid <= last /\ last - mid <= span + 1
        BY <1>1, <2>4, <2>5, <2>6, <2>10, <3>2 DEF last
      <4>2. ExpNeg(mid) <= ExpNeg(last) + t
        BY <1>1, <1>4, <2>6, <4>1
      <4>. QED BY <1>1, <1>2, <2>1, <2>11, <4>2
    <3>. QED BY <1>1, <2>4, <3>1, <3>2
  <2>. QED BY <2>11, <2>12 DEF mid
<1>. QED BY <1>6, <1>7

-----------------------------------------------------------------------------
(* The program's own constants.  The prover folds a product of two literal *)
(* numbers in 63 bits, and the products here are longer.  So each constant *)
(* enters as a number between two bounds that are equal, and is multiplied *)
(* as such.                                                                *)

(* math.rs: SCALE, MAX_EXP_X, EXP_NEG_INT, the rounds and CURVE_S. *)
ProgramArithmetic ==
  /\ Scale = 1000000000000 /\ MaxExpX = 4605170000000
  /\ ExpNegInt[0] = 1000000000000 /\ ExpNegInt[1] = 367879441171
  /\ ExpNegInt[2] = 135335283237 /\ ExpNegInt[3] = 49787068368
  /\ ExpNegInt[4] = 18315638889
  /\ Rounds = 30 /\ CurveS = 500000000000

Exactly(number, value) == number \in Int /\ value <= number /\ number <= value

(* The same with bounds. *)
LEMMA ProgramBounds ==
  ASSUME ProgramArithmetic
  PROVE  /\ Exactly(Scale, 1000000000000) /\ Exactly(MaxExpX, 4605170000000)
         /\ Exactly(ExpNegInt[0], 1000000000000) /\ Exactly(ExpNegInt[1], 367879441171)
         /\ Exactly(ExpNegInt[2], 135335283237) /\ Exactly(ExpNegInt[3], 49787068368)
         /\ Exactly(ExpNegInt[4], 18315638889)
         /\ Exactly(Rounds, 30) /\ Exactly(CurveS, 500000000000)
BY SMT DEF ProgramArithmetic, Exactly

(* At the fixed-point one every power is one, in any precision. *)
LEMMA SeriesAtOne ==
  ExpFraction(Scale) = (Scale \div 2) - (Scale \div 6) + (Scale \div 24)
                         - (Scale \div 120) + (Scale \div 720)
                         - (Scale \div 5040) + (Scale \div 40320)
<1>1. Scale \in Nat \ {0} /\ Scale \in 0 .. Scale
  BY CurveConstants
<1>2. (Scale * Scale) \div Scale = Scale
  BY <1>1
<1>3. /\ Second(Scale) = Scale /\ Third(Scale) = Scale /\ Fourth(Scale) = Scale
      /\ Fifth(Scale) = Scale /\ Sixth(Scale) = Scale /\ Seventh(Scale) = Scale
      /\ Eighth(Scale) = Scale
  BY <1>2 DEF Second, Third, Fourth, Fifth, Sixth, Seventh, Eighth
<1>4. ExpFraction(Scale)
        = Scale - Scale + (Scale \div 2) - (Scale \div 6) + (Scale \div 24)
            - (Scale \div 120) + (Scale \div 720) - (Scale \div 5040)
            + (Scale \div 40320)
  BY <1>1, <1>3, SeriesUnsaturated
<1>. QED BY <1>1, <1>4

(* What the program's series has come down to at one. *)
LEMMA ProgramSeriesAtOne ==
  ASSUME ProgramArithmetic
  PROVE  Exactly(ExpFraction(Scale), 367881944444)
<1>1. Exactly(Scale, 1000000000000)
  BY ProgramBounds
<1>2. /\ Exactly(Scale \div 2, 500000000000) /\ Exactly(Scale \div 6, 166666666666)
      /\ Exactly(Scale \div 24, 41666666666) /\ Exactly(Scale \div 120, 8333333333)
      /\ Exactly(Scale \div 720, 1388888888) /\ Exactly(Scale \div 5040, 198412698)
      /\ Exactly(Scale \div 40320, 24801587)
  BY SMT, <1>1 DEF Exactly
<1>. QED BY SMT, <1>2, SeriesAtOne DEF Exactly

(* The program's table goes with its series. *)
THEOREM ProgramJointsFall ==
  ASSUME ProgramArithmetic
  PROVE  JointsFall
<1>. DEFINE end == ExpFraction(Scale) - Noise
            one == Scale + Noise
<1>1. Exactly(end, 367881944437) /\ Exactly(one, 1000000000007)
  BY SMT, ProgramBounds, ProgramSeriesAtOne DEF Exactly, Noise
<1>2. /\ Exactly(Scale, 1000000000000)
      /\ Exactly(ExpNegInt[0], 1000000000000) /\ Exactly(ExpNegInt[1], 367879441171)
      /\ Exactly(ExpNegInt[2], 135335283237) /\ Exactly(ExpNegInt[3], 49787068368)
      /\ Exactly(ExpNegInt[4], 18315638889)
  BY ProgramBounds
<1>. HIDE DEF end, one
<1>3. /\ ExpNegInt[1] * one <= ExpNegInt[0] * end
      /\ ExpNegInt[2] * one <= ExpNegInt[1] * end
      /\ ExpNegInt[3] * one <= ExpNegInt[2] * end
      /\ ExpNegInt[4] * one <= ExpNegInt[3] * end
  BY SMT, <1>1, <1>2 DEF Exactly
<1>4. Scale <= ExpNegInt[4] * end
  BY SMT, <1>1, <1>2 DEF Exactly
<1>5. ASSUME NEW n \in 0 .. 3
      PROVE  ExpNegInt[n + 1] * one <= ExpNegInt[n] * end
  <2>1. n = 0 \/ n = 1 \/ n = 2 \/ n = 3
    OBVIOUS
  <2>. QED BY SMT, <1>3, <2>1
<1>. QED BY <1>4, <1>5 DEF JointsFall, end, one

(* The powers of two by which the rounds divide their first interval. *)
LEMMA DoublingExists ==
  \E doubled \in [Nat -> Nat \ {0}] :
    doubled[0] = 1 /\ \A i \in Nat : doubled[i + 1] = 2 * doubled[i]
<1>. DEFINE S == Nat \ {0}
            F == [v \in S |-> 2 * v]
            start == 1
<1>1. F \in [S -> S] /\ start \in S
  OBVIOUS
<1>2. \A v \in S : F[v] = 2 * v
  OBVIOUS
<1>. HIDE DEF S, F, start
<1>3. PICK g \in [Nat -> S] : g[0] = start /\ \A i \in Nat : g[i + 1] = F[g[i]]
  BY <1>1, IterationExists
<1>4. \A i \in Nat : g[i + 1] = 2 * g[i]
  BY <1>2, <1>3
<1>. QED BY <1>3, <1>4 DEF S, start

(* Thirty of them. *)
LEMMA ThirtyDoublings ==
  ASSUME NEW doubled \in [Nat -> Nat \ {0}],
         doubled[0] = 1, \A i \in Nat : doubled[i + 1] = 2 * doubled[i]
  PROVE  doubled[30] = 1073741824
<1>1. ASSUME NEW i \in Nat PROVE doubled[i + 5] = 32 * doubled[i]
  <2>1. /\ i + 1 \in Nat /\ i + 2 \in Nat /\ i + 3 \in Nat /\ i + 4 \in Nat
        /\ (i + 1) + 1 = i + 2 /\ (i + 2) + 1 = i + 3 /\ (i + 3) + 1 = i + 4
        /\ (i + 4) + 1 = i + 5
    OBVIOUS
  <2>2. /\ doubled[i + 1] = 2 * doubled[i] /\ doubled[i + 2] = 2 * doubled[i + 1]
        /\ doubled[i + 3] = 2 * doubled[i + 2] /\ doubled[i + 4] = 2 * doubled[i + 3]
        /\ doubled[i + 5] = 2 * doubled[i + 4]
    BY <2>1
  <2>3. doubled[i] \in Nat
    OBVIOUS
  <2>. QED BY <2>2, <2>3
<1>2. doubled[0 + 5] = 32 * doubled[0] /\ doubled[5 + 5] = 32 * doubled[5]
  BY <1>1
<1>3. doubled[10 + 5] = 32 * doubled[10] /\ doubled[15 + 5] = 32 * doubled[15]
  BY <1>1
<1>4. doubled[20 + 5] = 32 * doubled[20] /\ doubled[25 + 5] = 32 * doubled[25]
  BY <1>1
<1>. QED BY SMT, <1>2, <1>3, <1>4

(* With the program's table every mint is covered up to 1083 lamports.     *)
LEMMA ProgramMintsCovered ==
  ASSUME ProgramArithmetic, NEW slack \in Nat, slack >= 1083
  PROVE  MintsCovered(slack)
<1>1. Decreasing(22)
  BY ProgramJointsFall, JointsDecrease DEF Noise
<1>2. PICK doubled \in [Nat -> Nat \ {0}] :
         doubled[0] = 1 /\ \A i \in Nat : doubled[i + 1] = 2 * doubled[i]
  BY DoublingExists
<1>3. Exactly(doubled[Rounds], 1073741824)
  BY SMT, <1>2, ThirtyDoublings DEF ProgramArithmetic, Exactly
<1>4. CurveS * (MaxExpX + doubled[Rounds] * (2 * 22 - 1))
        <= (2 * doubled[Rounds]) * (Scale * slack)
  <2>. DEFINE power == doubled[Rounds]
  <2>1. /\ Exactly(power, 1073741824) /\ Exactly(Scale, 1000000000000)
        /\ Exactly(MaxExpX, 4605170000000) /\ Exactly(CurveS, 500000000000)
    BY <1>3, ProgramBounds
  <2>. HIDE DEF power
  <2>2. CurveS * (MaxExpX + power * 43) <= (2 * power) * (Scale * 1083)
    BY SMT, <2>1 DEF Exactly
  <2>3. (2 * power) * (Scale * 1083) <= (2 * power) * (Scale * slack)
    BY SMT, <2>1 DEF Exactly
  <2>. QED BY SMT, <2>1, <2>2, <2>3 DEF Exactly, power
<1>. QED BY <1>1, <1>2, <1>4, MintsAreCovered

(* With the program's table the supply's price never exceeds the reserve   *)
(* by more than 1083 lamports, whatever trades came before.                *)
THEOREM ProgramReserveCovers ==
  ASSUME ProgramArithmetic, RoundingSlack >= 1083
  PROVE  Spec => []ReserveCoversSupply
<1>1. RoundingSlack \in Nat
  BY CurveBounds
<1>2. MintsCovered(RoundingSlack)
  BY <1>1, ProgramMintsCovered
<1>. QED BY <1>2, CoveredStays

(* At its whole numbers the program's table is at most 2503273 units below *)
(* its series, which ends with the eighth power.                           *)
LEMMA ProgramJointsMeet ==
  ASSUME ProgramArithmetic
  PROVE  JointsMeet(2503273)
<1>. DEFINE end == ExpFraction(Scale)
<1>1. Exactly(end, 367881944444)
  BY ProgramSeriesAtOne
<1>2. /\ Exactly(Scale, 1000000000000)
      /\ Exactly(ExpNegInt[0], 1000000000000) /\ Exactly(ExpNegInt[1], 367879441171)
      /\ Exactly(ExpNegInt[2], 135335283237) /\ Exactly(ExpNegInt[3], 49787068368)
      /\ Exactly(ExpNegInt[4], 18315638889)
  BY ProgramBounds
<1>3. ExpNegInt[0] = Scale
  BY SMT DEF ProgramArithmetic
<1>. HIDE DEF end
<1>4. /\ ExpNegInt[0] * end <= (ExpNegInt[1] + 2503273) * Scale
      /\ ExpNegInt[1] * end <= (ExpNegInt[2] + 2503273) * Scale
      /\ ExpNegInt[2] * end <= (ExpNegInt[3] + 2503273) * Scale
      /\ ExpNegInt[3] * end <= (ExpNegInt[4] + 2503273) * Scale
  BY SMT, <1>1, <1>2 DEF Exactly
<1>5. ASSUME NEW n \in 0 .. 3
      PROVE  ExpNegInt[n] * end <= (ExpNegInt[n + 1] + 2503273) * Scale
  <2>1. n = 0 \/ n = 1 \/ n = 2 \/ n = 3
    OBVIOUS
  <2>. QED BY SMT, <1>4, <2>1
<1>. QED BY <1>3, <1>5 DEF JointsMeet, end

(* The bisection of the program inverts its exp_neg up to 2507577 units,   *)
(* two and a half millionths of the fixed-point one.                       *)
LEMMA ProgramReturns ==
  ASSUME ProgramArithmetic, NEW target \in Nat,
         target <= Scale, target > ExpNeg(MaxExpX - 1)
  PROVE  LET found == ExpNeg(SolveExpInverse(target))
         IN found \in Nat /\ found <= target + 2507577 /\ target <= found + 2507577
<1>1. PICK doubled \in [Nat -> Nat \ {0}] :
         doubled[0] = 1 /\ \A i \in Nat : doubled[i + 1] = 2 * doubled[i]
  BY DoublingExists
<1>2. Exactly(doubled[Rounds], 1073741824)
  BY SMT, <1>1, ThirtyDoublings DEF ProgramArithmetic, Exactly
<1>3. /\ MaxExpX > 0 /\ 4288 < Scale
      /\ MaxExpX < doubled[Rounds] * (4288 + 1)
  BY SMT, <1>2, ProgramBounds DEF Exactly
<1>4. JointsMeet(2503273)
  BY ProgramJointsMeet
<1>. DEFINE found == ExpNeg(SolveExpInverse(target))
<1>5. /\ found \in Nat
      /\ found <= target + 4288 + 2503273 + 2 * Noise + 2
      /\ target <= found + 4288 + 2503273 + 2 * Noise + 2
  <2>1. 4288 \in Nat /\ 2503273 \in Nat
    BY SMT
  <2>. QED BY <1>1, <1>3, <1>4, <2>1, BisectionReturns
<1>. HIDE DEF found
<1>6. found \in Nat /\ found <= target + 2507577 /\ target <= found + 2507577
  BY SMT, <1>5 DEF Noise
<1>. QED BY <1>6 DEF found

-----------------------------------------------------------------------------
(* The laws of the curve, as CurveLaws states them of an argument that     *)
(* runs through the natural numbers.                                       *)

(* The argument stays a natural number. *)
LEMMA ArgumentIsNatural == LawsSpec => [](argument \in Nat)
<1>. DEFINE Natural == argument \in Nat
<1>1. LawsInit => Natural
  BY DEF LawsInit
<1>2. Natural /\ [LawsNext]_argument => Natural'
  BY DEF LawsNext
<1>3. LawsSpec => []Natural
  <2>. HIDE DEF Natural
  <2>. QED BY <1>1, <1>2, PTL DEF LawsSpec
<1>. QED BY <1>3

(* exp_neg falls over every distance of 22 units or more, and is positive  *)
(* before the cut-off, whenever its table goes with its series.            *)
THEOREM ExpNegDecreases ==
  ASSUME JointsFall, Disorder \in Nat, Disorder >= 22
  PROVE  LawsSpec => []NearlyDecreasing
<1>1. Decreasing(22)
  BY JointsDecrease DEF Noise
<1>2. argument \in Nat => NearlyDecreasing
  <2>1. ASSUME argument \in Nat, NEW gap \in Disorder .. 2 * Disorder - 1, gap <= argument
        PROVE  ExpNeg(argument) <= ExpNeg(argument - gap)
    <3>1. argument - gap \in Nat /\ argument >= (argument - gap) + 22
      BY <2>1
    <3>. QED BY <1>1, <2>1, <3>1 DEF Decreasing
  <2>2. argument \in Nat /\ argument < MaxExpX => ExpNeg(argument) > 0
    <3>1. MaxExpX \in Nat
      BY CurveConstants
    <3>. QED BY <1>1, <3>1 DEF Decreasing
  <2>. QED BY <2>1, <2>2 DEF NearlyDecreasing
<1>. QED BY <1>2, ArgumentIsNatural, PTL

(* What the program's bisection returns for a target above the cut-off has *)
(* that value again, up to two and a half millionths.                      *)
THEOREM BisectionInvertsAlways ==
  ASSUME ProgramArithmetic, Tolerance \in Nat, Tolerance >= 2507577
  PROVE  LawsSpec => []BisectionInverts
<1>1. argument \in Nat => BisectionInverts
  <2>. DEFINE found == ExpNeg(SolveExpInverse(argument))
  <2>1. ASSUME argument \in Nat, argument <= Scale, argument > ExpNeg(MaxExpX - 1)
        PROVE  found \in Nat /\ found <= argument + Tolerance /\ argument <= found + Tolerance
    <3>1. found \in Nat /\ found <= argument + 2507577 /\ argument <= found + 2507577
      BY <2>1, ProgramReturns
    <3>. HIDE DEF found
    <3>. QED BY SMT, <2>1, <3>1
  <2>. HIDE DEF found
  <2>2. ASSUME argument \in Nat, argument <= Scale, argument > ExpNeg(MaxExpX - 1)
        PROVE  Distance(found, argument) <= Tolerance
    BY <2>1, <2>2 DEF Distance
  <2>. QED BY <2>2 DEF BisectionInverts, found
<1>. QED BY <1>1, ArgumentIsNatural, PTL

(* What any reserve mints under the program's curve is priced back at no   *)
(* more than that reserve and 1083 lamports.                               *)
THEOREM MintIsCoveredAlways ==
  ASSUME ProgramArithmetic, Tolerance \in Nat, Tolerance >= 1083
  PROVE  LawsSpec => []MintIsCovered
<1>1. MintsCovered(Tolerance)
  BY ProgramMintsCovered
<1>2. argument \in Nat => MintIsCovered
  BY <1>1 DEF MintIsCovered, MintsCovered
<1>. QED BY <1>2, ArgumentIsNatural, PTL

-----------------------------------------------------------------------------
(* What a step may never do *)

(* A step either keeps the curve, opens it, or trades; the first two never *)
(* happen to a curve that has traded.                                      *)
LEMMA CurveSteps ==
  ASSUME TypeOK, Blank, Next, curve' # curve
  PROVE  \/ ~curve.open /\ ~curve.selfDeprecated
         \/ curve.open /\ ~curve.selfDeprecated /\ curve.lastSlot # slot
         \/ /\ curve.open /\ curve.lastSlot # slot
            /\ curve'.selfDeprecated = curve.selfDeprecated
            /\ curve'.totalMinted <= curve.totalMinted
<1>1. CASE CreateToken
  <2>1. ~curve.open
    BY <1>1 DEF CreateToken
  <2>2. curve = NoCurve
    BY <2>1 DEF Blank
  <2>3. ~curve.selfDeprecated
    BY <2>2 DEF NoCurve
  <2>. QED BY <2>1, <2>3
<1>2. ASSUME NEW sol \in SolAmounts, Buy(sol)
      PROVE  curve.open /\ ~curve.selfDeprecated /\ curve.lastSlot # slot
  BY <1>2 DEF Buy, FirstInSlot
<1>3. ASSUME NEW p \in Portions, Sell(curve.totalMinted \div p)
      PROVE  /\ curve.open /\ curve.lastSlot # slot
             /\ curve'.selfDeprecated = curve.selfDeprecated
             /\ curve'.totalMinted <= curve.totalMinted
  <2>. DEFINE tokenIn == curve.totalMinted \div p
              out == QuoteSell(curve.totalMinted, tokenIn).out
  <2>1. tokenIn \in Nat
    BY SellAmounts, TypeShapes
  <2>2. curve.open /\ curve.lastSlot # slot /\ RecordSell(out, tokenIn)
    BY <1>3 DEF Sell, FirstInSlot
  <2>. HIDE DEF tokenIn, out
  <2>3. /\ curve'.selfDeprecated = curve.selfDeprecated
        /\ curve'.totalMinted = curve.totalMinted - tokenIn
        /\ curve.totalMinted \in Nat
    BY <2>2, CurveConstants DEF RecordSell, TypeOK
  <2>. QED BY <2>1, <2>2, <2>3
<1>. QED
  BY <1>1, <1>2, <1>3
     DEF Next, Administer, Trade, InitializeGlobalConfig, Pause, Unpause, SetPaused,
         RenounceAdmin,
         WithdrawTreasury, CreateOtherToken, GiveToVault, Tick

(* A deprecated curve stays deprecated and never mints again, however far  *)
(* its holders sell it down.                                               *)
THEOREM DeprecationIsFinal == Spec => NoMintAfterDeprecation
<1>1. TypeOK /\ ReserveInv /\ [Next]_bcVars => TypeOK' /\ ReserveInv'
  BY TypeStep, ReserveStep
<1>2. Init => TypeOK /\ ReserveInv
  BY TypeInit, ReserveInit
<1>3. TypeOK /\ ReserveInv /\ [Next]_bcVars =>
        [curve.selfDeprecated =>
           /\ curve'.selfDeprecated
           /\ curve'.totalMinted <= curve.totalMinted]_bcVars
  <2>. SUFFICES ASSUME TypeOK, ReserveInv, Next, curve.selfDeprecated
                PROVE  curve'.selfDeprecated /\ curve'.totalMinted <= curve.totalMinted
    OBVIOUS
  <2>1. CASE curve' = curve
    BY <2>1, CurveConstants DEF TypeOK
  <2>2. CASE curve' # curve
    BY <2>2, CurveSteps DEF ReserveInv
  <2>. QED BY <2>1, <2>2
<1>. QED BY <1>1, <1>2, <1>3, PTL DEF Spec, NoMintAfterDeprecation

(* The slot the account remembers, and what it says of the trades counted. *)
HistoryInv ==
  /\ TypeOK /\ ReserveInv
  /\ curve.lastSlot <= slot
  /\ trades = IF curve.lastSlot = slot THEN 1 ELSE 0

(* Every trade finds another slot in the account, and leaves its own.      *)
LEMMA TradeMarksSlot ==
  ASSUME TypeOK, Trade
  PROVE  curve.lastSlot # slot /\ curve'.lastSlot = slot /\ slot' = slot
<1>1. ASSUME NEW sol \in SolAmounts, Buy(sol)
      PROVE  curve.lastSlot # slot /\ curve'.lastSlot = slot /\ slot' = slot
  BY <1>1 DEF Buy, FirstInSlot, RecordBuy, TypeOK
<1>2. ASSUME NEW p \in Portions, Sell(curve.totalMinted \div p)
      PROVE  curve.lastSlot # slot /\ curve'.lastSlot = slot /\ slot' = slot
  BY <1>2 DEF Sell, FirstInSlot, RecordSell, TypeOK
<1>. QED BY <1>1, <1>2 DEF Trade

(* Neither the other instructions nor the clock touch the slot remembered. *)
LEMMA OthersKeepSlot ==
  ASSUME Blank, Administer \/ CreateToken \/ CreateOtherToken \/ GiveToVault \/ Tick
  PROVE  curve'.lastSlot = curve.lastSlot
<1>1. CASE CreateToken
  BY <1>1 DEF CreateToken, Blank, NoCurve
<1>2. CASE ~CreateToken
  BY <1>2 DEF Administer, InitializeGlobalConfig, Pause, Unpause, SetPaused, RenounceAdmin,
              WithdrawTreasury, CreateOtherToken, GiveToVault, Tick
<1>. QED BY <1>1, <1>2

(* Every step keeps the count and the slot remembered together.            *)
LEMMA HistoryStep == HistoryInv /\ [HistoryNext]_historyVars => HistoryInv'
<1>. SUFFICES ASSUME HistoryInv, [HistoryNext]_historyVars PROVE HistoryInv'
  OBVIOUS
<1>1. slot \in Nat /\ curve.lastSlot \in Nat
  BY CurveBounds DEF HistoryInv, TypeOK
<1>2. TypeOK' /\ ReserveInv'
  <2>1. [Next]_bcVars
    BY DEF HistoryNext, Next, historyVars
  <2>. QED BY <2>1, TypeStep, ReserveStep DEF HistoryInv
<1>3. CASE Trade /\ trades' = trades + 1
  <2>1. curve.lastSlot # slot /\ curve'.lastSlot = slot /\ slot' = slot
    BY <1>3, TradeMarksSlot DEF HistoryInv
  <2>. QED BY <1>1, <1>2, <1>3, <2>1 DEF HistoryInv
<1>4. CASE Tick /\ trades' = 0
  <2>1. curve'.lastSlot = curve.lastSlot /\ slot' = slot + 1
    BY <1>4, OthersKeepSlot DEF HistoryInv, ReserveInv, Tick
  <2>2. curve'.lastSlot < slot'
    BY <1>1, <2>1 DEF HistoryInv
  <2>. QED BY <1>1, <1>2, <1>4, <2>1, <2>2 DEF HistoryInv
<1>5. CASE (Administer \/ CreateToken \/ CreateOtherToken \/ GiveToVault) /\ UNCHANGED trades
  <2>1. curve'.lastSlot = curve.lastSlot
    BY <1>5, OthersKeepSlot DEF HistoryInv, ReserveInv
  <2>2. slot' = slot
    BY <1>5 DEF Administer, InitializeGlobalConfig, Pause, Unpause, SetPaused, RenounceAdmin,
                WithdrawTreasury, CreateToken, CreateOtherToken, GiveToVault
  <2>. QED BY <1>2, <1>5, <2>1, <2>2 DEF HistoryInv
<1>6. CASE UNCHANGED historyVars
  BY <1>2, <1>6 DEF HistoryInv, historyVars, bcVars
<1>. QED BY <1>3, <1>4, <1>5, <1>6 DEF HistoryNext

(* At most one trade of the curve goes through in a slot, counted as they  *)
(* happen, buys and sells together, whatever the curve account remembers.  *)
THEOREM TradesOncePerSlot == HistorySpec => []OneTradePerSlot
<1>1. HistoryInit => HistoryInv
  <2>1. HistoryInit => curve.lastSlot = 0 /\ slot = 1 /\ trades = 0
    BY DEF HistoryInit, Init, NoCurve
  <2>. QED BY <2>1, TypeInit, ReserveInit DEF HistoryInit, HistoryInv
<1>2. HistoryInv => OneTradePerSlot
  BY DEF HistoryInv, OneTradePerSlot
<1>. QED BY <1>1, <1>2, HistoryStep, PTL DEF HistorySpec

(* Renouncing freezes the config for good and locks the treasury in.       *)
THEOREM RenouncingIsFinal == Spec => RenouncedIsFrozen
<1>1. TypeOK /\ [Next]_bcVars =>
        [admin.open /\ admin.authority = NoAdmin =>
           admin' = admin /\ treasury' >= treasury]_bcVars
  <2>. SUFFICES ASSUME TypeOK, Next, admin.open, admin.authority = NoAdmin
                PROVE  admin' = admin /\ treasury' >= treasury
    OBVIOUS
  <2>1. treasury \in Nat /\ LaunchFee \in Nat
    BY CurveBounds DEF TypeOK
  <2>2. \A a \in Admins : ~ IsAuthority(a)
    BY DEF IsAuthority
  <2>. QED
    BY <2>1, <2>2
       DEF Next, Administer, Trade, InitializeGlobalConfig, Pause, Unpause, SetPaused,
           RenounceAdmin,
           WithdrawTreasury, CreateToken, FundTreasury, CreateOtherToken,
           GiveToVault, Buy, Sell, Tick
<1>. QED BY <1>1, TypeInit, TypeStep, PTL DEF Spec, RenouncedIsFrozen

=============================================================================
