-------------------------- MODULE PaymentPlanProofs --------------------------
(***************************************************************************)
(* Theorems about PaymentPlan, for every plan that passes validation,      *)
(* every total and every hour of booking.                                  *)
(*                                                                         *)
(* The rows are those of some hour, and there are three shapes of them:    *)
(* one row, a deposit with one more, or a deposit with equal parts of the  *)
(* rest.  The sum is counted along the parts, one after another.           *)
(***************************************************************************)
EXTENDS PaymentPlan, FiniteSets, FiniteSetTheorems, TLAPS

Generated == rows # <<>> => \E at \in Hours : rows = generate_rows(plan, total, at)

IInv == TypeOK /\ Generated

-----------------------------------------------------------------------------
(* Sums over finite sets.  SumFunction is a fold that takes one element     *)
(* after another, in an order left open.  What is said here needs no order: *)
(* any element may be taken out of the sum.  Induction is by the least      *)
(* counterexample: a set of finite sets that is not empty has a smallest    *)
(* member.                                                                  *)

(* The sums of f over the subsets of D.                                     *)
Additive(g, f, D) ==
    /\ g \in [SUBSET D -> Int]
    /\ g[{}] = 0
    /\ \A s \in SUBSET D : \A x \in s : g[s] = f[x] + g[s \ {x}]

(* The fold that SumFunction is.                                            *)
Fold(f) ==
    CHOOSE it : it = [s \in SUBSET DOMAIN f |->
        IF s = {} THEN 0
        ELSE f[CHOOSE x \in s : TRUE] + it[s \ {CHOOSE x \in s : TRUE}]]

(* A set of natural numbers has a least one.                                *)
LEMMA LeastNatural ==
    ASSUME NEW S \in SUBSET Nat, S # {}
    PROVE  \E x \in S : \A y \in S : x <= y
<1>1. PICK x \in S : \A y \in S : ~ (<<y, x>> \in OpToRel(<, Nat))
  <2> DEFINE less == OpToRel(<, Nat)
  <2>1. IsWellFoundedOn(less, Nat)
    BY NatLessThanWellFounded
  <2> HIDE DEF less
  <2> QED BY <2>1, WFMin DEF less
<1>2. \A y \in S : ~ (y < x)
  BY <1>1 DEF OpToRel
<1> QED BY <1>2

(* A set of finite sets has a smallest one: without an element more than    *)
(* any of them, it is not in the set.                                       *)
LEMMA SmallestSet ==
    ASSUME NEW C, C # {}, \A s \in C : IsFiniteSet(s)
    PROVE  \E s \in C : \A x \in s : s \ {x} \notin C
<1> DEFINE sizes == {Cardinality(s) : s \in C}
<1>1. sizes \in SUBSET Nat /\ sizes # {}
  BY FS_CardinalityType
<1>2. PICK n \in sizes : \A m \in sizes : n <= m
  BY <1>1, LeastNatural
<1>3. PICK s \in C : Cardinality(s) = n
  BY <1>2
<1>4. ASSUME NEW x \in s, s \ {x} \in C
      PROVE  FALSE
  <2>1. Cardinality(s \ {x}) = n - 1 /\ n \in Nat
    BY <1>1, <1>3, FS_RemoveElement
  <2>2. n <= n - 1
    BY <1>2, <1>4, <2>1
  <2> QED BY <2>1, <2>2
<1> QED BY <1>4

(* There are sums over the subsets of a finite set.                         *)
LEMMA AdditiveExists ==
    ASSUME NEW D, IsFiniteSet(D), NEW f \in [D -> Int]
    PROVE  \E g : Additive(g, f, D)
<1> DEFINE C == {T \in SUBSET D : ~ \E g : Additive(g, f, T)}
<1>1. SUFFICES ASSUME C # {} PROVE FALSE
  OBVIOUS
<1>2. PICK T \in C : \A x \in T : T \ {x} \notin C
  <2>1. \A s \in C : IsFiniteSet(s)
    BY FS_Subset
  <2> HIDE DEF C
  <2> QED BY <1>1, <2>1, SmallestSet
<1>3. T # {}
  <2>1. Additive([s \in SUBSET {} |-> 0], f, {})
    BY DEF Additive
  <2> QED BY <2>1
<1>4. PICK x \in T : TRUE
  BY <1>3
<1>5. PICK g : Additive(g, f, T \ {x})
  BY <1>2
<1> DEFINE h == [s \in SUBSET T |-> IF x \in s THEN f[x] + g[s \ {x}] ELSE g[s]]
<1>6. f[x] \in Int
  OBVIOUS
<1>7. \A s \in SUBSET T : s \ {x} \in SUBSET (T \ {x}) /\ (x \notin s => s \in SUBSET (T \ {x}))
  OBVIOUS
<1>8. h \in [SUBSET T -> Int] /\ h[{}] = 0
  BY <1>5, <1>6, <1>7 DEF Additive
<1>9. ASSUME NEW s \in SUBSET T, NEW y \in s
      PROVE  h[s] = f[y] + h[s \ {y}]
  <2>1. f[y] \in Int
    OBVIOUS
  <2>2. CASE x \notin s
    BY <1>5, <1>7, <2>2 DEF Additive
  <2>3. CASE x \in s /\ y = x
    BY <2>3
  <2>4. CASE x \in s /\ y # x
    <3>1. h[s] = f[x] + g[s \ {x}]
      BY <2>4
    <3>2. h[s \ {y}] = f[x] + g[(s \ {y}) \ {x}]
      BY <2>4
    <3>3. (s \ {y}) \ {x} = (s \ {x}) \ {y} /\ y \in s \ {x}
      BY <2>4
    <3>4. g[s \ {x}] = f[y] + g[(s \ {x}) \ {y}]
      BY <1>5, <1>7, <3>3 DEF Additive
    <3>5. PICK a \in Int : a = g[(s \ {x}) \ {y}]
      BY <1>5, <1>7 DEF Additive
    <3>6. h[s] = f[x] + (f[y] + a)
      BY <3>1, <3>4, <3>5
    <3>7. h[s \ {y}] = f[x] + a
      BY <3>2, <3>3, <3>5
    <3>8. f[x] + (f[y] + a) = f[y] + (f[x] + a)
      BY <1>6, <2>1
    <3> HIDE DEF h
    <3> QED BY <3>6, <3>7, <3>8
  <2> QED BY <2>2, <2>3, <2>4
<1>10. Additive(h, f, T)
  BY <1>8, <1>9 DEF Additive
<1> QED BY <1>2, <1>10

(* Only those.                                                              *)
LEMMA AdditiveUnique ==
    ASSUME NEW D, IsFiniteSet(D), NEW f, NEW g, NEW h,
           Additive(g, f, D), Additive(h, f, D)
    PROVE  \A s \in SUBSET D : g[s] = h[s]
<1> DEFINE C == {s \in SUBSET D : g[s] # h[s]}
<1> SUFFICES ASSUME C # {} PROVE FALSE
  OBVIOUS
<1>1. PICK s \in C : \A x \in s : s \ {x} \notin C
  <2>1. \A s \in C : IsFiniteSet(s)
    BY FS_Subset
  <2> HIDE DEF C
  <2> QED BY <2>1, SmallestSet
<1>2. PICK x \in s : TRUE
  BY <1>1 DEF Additive
<1>3. g[s \ {x}] = h[s \ {x}]
  BY <1>1, <1>2
<1> QED BY <1>1, <1>2, <1>3 DEF Additive

(* The fold is one of them.                                                 *)
LEMMA SumAdditive ==
    ASSUME NEW D, IsFiniteSet(D), NEW f \in [D -> Int]
    PROVE  \E g : Additive(g, f, D) /\ SumFunction(f) = g[D]
<1>1. PICK g : Additive(g, f, D)
  BY AdditiveExists
<1>2. DOMAIN f = D
  OBVIOUS
<1>3. SumFunction(f) = Fold(f)[D]
  BY <1>2 DEF SumFunction, SumFunctionOnSet, FoldFunctionOnSet, MapThenFoldSet, Fold
<1> DEFINE Is(it) == it = [s \in SUBSET D |->
                IF s = {} THEN 0
                ELSE f[CHOOSE x \in s : TRUE] + it[s \ {CHOOSE x \in s : TRUE}]]
<1>4. Is(g)
  <2>1. \A s \in SUBSET D : s # {} => (CHOOSE x \in s : TRUE) \in s
    OBVIOUS
  <2>2. \A s \in SUBSET D : g[s] =
                IF s = {} THEN 0
                ELSE f[CHOOSE x \in s : TRUE] + g[s \ {CHOOSE x \in s : TRUE}]
    BY <1>1, <2>1 DEF Additive
  <2>3. g = [s \in SUBSET D |-> g[s]]
    BY <1>1 DEF Additive
  <2> QED BY <2>2, <2>3
<1>5. Fold(f) = CHOOSE it : Is(it)
  BY <1>2 DEF Fold
<1>6. Is(Fold(f))
  <2> HIDE DEF Is
  <2> QED BY <1>4, <1>5
<1>7. PICK h : h = Fold(f)
  OBVIOUS
<1>8. \A s \in SUBSET D : h[s] = IF s = {} THEN 0
                ELSE f[CHOOSE x \in s : TRUE] + h[s \ {CHOOSE x \in s : TRUE}]
  BY <1>6, <1>7
<1> HIDE DEF Is
<1>9. h[D] = g[D]
  <2> DEFINE C == {s \in SUBSET D : h[s] # g[s]}
  <2> SUFFICES ASSUME C # {} PROVE FALSE
    OBVIOUS
  <2>1. PICK s \in C : \A x \in s : s \ {x} \notin C
    <3>1. \A s \in C : IsFiniteSet(s)
      BY FS_Subset
    <3> HIDE DEF C
    <3> QED BY <3>1, SmallestSet
  <2>2. s # {}
    BY <1>1, <1>8, <2>1 DEF Additive
  <2>3. PICK x \in s : x = CHOOSE y \in s : TRUE
    BY <2>2
  <2>4. h[s] = f[x] + h[s \ {x}]
    BY <1>8, <2>2, <2>3
  <2>5. g[s] = f[x] + g[s \ {x}]
    BY <1>1 DEF Additive
  <2>6. h[s \ {x}] = g[s \ {x}]
    BY <2>1
  <2> QED BY <2>1, <2>4, <2>5, <2>6
<1> QED BY <1>1, <1>3, <1>7, <1>9

(* The sum of nothing.                                                      *)
LEMMA SumOfNone ==
    ASSUME NEW f \in [{} -> Int]
    PROVE  SumFunction(f) = 0
BY SumAdditive, FS_EmptySet DEF Additive

(* An element may be taken out of a sum.                                    *)
LEMMA SumWithout ==
    ASSUME NEW D, IsFiniteSet(D), NEW f \in [D -> Int], NEW x \in D
    PROVE  /\ SumFunction(f) \in Int
           /\ SumFunction([y \in D \ {x} |-> f[y]]) \in Int
           /\ SumFunction(f) = f[x] + SumFunction([y \in D \ {x} |-> f[y]])
<1> DEFINE E == D \ {x}
           e == [y \in E |-> f[y]]
<1>1. IsFiniteSet(E) /\ e \in [E -> Int]
  BY FS_RemoveElement
<1>2. PICK g : Additive(g, f, D) /\ SumFunction(f) = g[D]
  BY SumAdditive
<1> HIDE DEF e
<1>3. PICK h : Additive(h, e, E) /\ SumFunction(e) = h[E]
  BY <1>1, SumAdditive
<1> DEFINE k == [s \in SUBSET E |-> g[s]]
<1>4. Additive(k, e, E)
  <2>1. k \in [SUBSET E -> Int] /\ k[{}] = 0
    BY <1>2 DEF Additive
  <2>2. ASSUME NEW s \in SUBSET E, NEW y \in s
        PROVE  k[s] = e[y] + k[s \ {y}]
    <3>1. s \in SUBSET D /\ s \ {y} \in SUBSET E /\ e[y] = f[y]
      BY DEF e
    <3> QED BY <1>2, <3>1 DEF Additive
  <2> QED BY <2>1, <2>2 DEF Additive
<1>5. h[E] = k[E]
  BY <1>1, <1>3, <1>4, AdditiveUnique
<1>6. g[D] = f[x] + g[E] /\ k[E] = g[E] /\ g[D] \in Int /\ g[E] \in Int
  BY <1>2 DEF Additive
<1> QED BY <1>2, <1>3, <1>5, <1>6 DEF e

(* A sum of natural numbers is one.                                         *)
LEMMA SumOfNaturals ==
    ASSUME NEW D, IsFiniteSet(D), NEW f \in [D -> Nat]
    PROVE  SumFunction(f) \in Nat
<1>1. PICK g : Additive(g, f, D) /\ SumFunction(f) = g[D]
  BY SumAdditive
<1> DEFINE C == {s \in SUBSET D : g[s] \notin Nat}
<1>2. CASE C = {}
  BY <1>1, <1>2
<1>3. CASE C # {}
  <2>1. PICK s \in C : \A x \in s : s \ {x} \notin C
    <3>1. \A s \in C : IsFiniteSet(s)
      BY FS_Subset
    <3> HIDE DEF C
    <3> QED BY <1>3, <3>1, SmallestSet
  <2>2. PICK x \in s : TRUE
    <3>1. g[{}] \in Nat
      BY <1>1 DEF Additive
    <3> QED BY <2>1, <3>1
  <2>3. g[s] = f[x] + g[s \ {x}] /\ g[s \ {x}] \in Nat /\ f[x] \in Nat
    BY <1>1, <2>1, <2>2 DEF Additive
  <2> QED BY <2>1, <2>3
<1> QED BY <1>2, <1>3

(* A sum of noughts is nought.                                              *)
LEMMA SumOfZeros ==
    ASSUME NEW D, IsFiniteSet(D), NEW f \in [D -> {0}]
    PROVE  SumFunction(f) = 0
<1>1. PICK g : Additive(g, f, D) /\ SumFunction(f) = g[D]
  BY SumAdditive
<1>2. Additive([s \in SUBSET D |-> 0], f, D)
  BY DEF Additive
<1> QED BY <1>1, <1>2, AdditiveUnique

(* The sum of a list, one number after another.                             *)
LEMMA SumOfNext ==
    ASSUME NEW n \in Nat, NEW f \in [1 .. n + 1 -> Int]
    PROVE  /\ SumFunction(f) = f[n + 1] + SumFunction([i \in 1 .. n |-> f[i]])
           /\ SumFunction([i \in 1 .. n |-> f[i]]) \in Int
<1>1. IsFiniteSet(1 .. n + 1) /\ n + 1 \in 1 .. n + 1
  BY FS_Interval
<1>2. (1 .. n + 1) \ {n + 1} = 1 .. n
  OBVIOUS
<1>3. [y \in (1 .. n + 1) \ {n + 1} |-> f[y]] = [i \in 1 .. n |-> f[i]]
  BY <1>2
<1> DEFINE D == 1 .. n + 1
           x == n + 1
<1>4. IsFiniteSet(D) /\ f \in [D -> Int] /\ x \in D
  BY <1>1
<1>5. [y \in D \ {x} |-> f[y]] = [i \in 1 .. n |-> f[i]]
  BY <1>3
<1> HIDE DEF D
<1>6. SumFunction(f) = f[x] + SumFunction([y \in D \ {x} |-> f[y]])
      /\ SumFunction([y \in D \ {x} |-> f[y]]) \in Int
  BY <1>4, SumWithout, SMTT(40)
<1> QED BY <1>5, <1>6

-----------------------------------------------------------------------------
(* Arithmetic.                                                              *)

(* More divides into no less.                                               *)
LEMMA DivGrows ==
    ASSUME NEW a \in Int, NEW b \in Int, NEW d \in Nat \ {0}, a <= b
    PROVE  a \div d <= b \div d
<1> DEFINE x == a \div d
           y == b \div d
<1>1. /\ x \in Int /\ d * x <= a /\ a < d * (x + 1)
      /\ y \in Int /\ d * y <= b /\ b < d * (y + 1)
  OBVIOUS
<1>2. ASSUME y < x PROVE FALSE
  <2>1. y + 1 <= x
    BY <1>1, <1>2
  <2>2. d * (y + 1) <= d * x
    BY <1>1, <2>1
  <2> QED BY <1>1, <2>2
<1> HIDE DEF x, y
<1>3. x <= y
  BY <1>1, <1>2
<1> QED BY <1>3 DEF x, y

(* More times as much is no less.                                           *)
LEMMA TimesGrows ==
    ASSUME NEW m \in Nat, NEW a \in Int, NEW b \in Int, a <= b
    PROVE  m * a <= m * b
OBVIOUS

(* The parts of a balance, and what is left of it.                          *)
LEMMA Parts ==
    ASSUME NEW balance \in Nat, NEW n \in 2 .. 6
    PROVE  /\ balance \div n \in Nat /\ balance % n \in 0 .. n - 1
           /\ n * (balance \div n) + (balance % n) = balance
<1>1. CASE n = 2
  BY <1>1
<1>2. CASE n = 3
  BY <1>2
<1>3. CASE n = 4
  BY <1>3
<1>4. CASE n = 5
  BY <1>4
<1>5. CASE n = 6
  BY <1>5
<1> QED BY <1>1, <1>2, <1>3, <1>4, <1>5

-----------------------------------------------------------------------------
(* The rows.                                                                *)

(* What validation says of the numbers of a plan.                           *)
LEMMA PlanTyped ==
    ASSUME NEW p \in Plans
    PROVE  /\ p.deposit_value \in Nat \ {0}
           /\ p.balance_due_days_before \in Nat
           /\ p.installments_count \in 2 .. 6
           /\ Deadline(p) \in Int
<1>1. ValidPlan(p) /\ Start \in Nat
  BY PlanConstants
<1>2. p.balance_due_days_before \in 1 .. 180
  BY <1>1 DEF ValidPlan
<1>3. p.deposit_value \in Nat \ {0} /\ p.installments_count \in 2 .. 6
  BY <1>1 DEF ValidPlan
<1>4. Deadline(p) \in Int
  BY <1>1, <1>2 DEF Deadline, Day
<1> QED BY <1>2, <1>3, <1>4

(* A deposit is at least a cent, and what is left is not negative.          *)
LEMMA DepositTyped ==
    ASSUME NEW p \in Plans, NEW t \in Amounts
    PROVE  /\ compute_deposit_minor(p, t) \in Nat \ {0}
           /\ t - compute_deposit_minor(p, t) \in Nat
           /\ t \in Nat
<1>1. t \in Nat \ {0}
  BY PlanConstants
<1>2. p.deposit_value \in Nat
  BY PlanTyped
<1>3. PICK d \in Int : d = IF p.deposit_type = "percent"
                     THEN (2 * t * p.deposit_value + 100) \div 200
                     ELSE p.deposit_value
  <2>1. 2 * t * p.deposit_value + 100 \in Int
    BY <1>1, <1>2
  <2>2. (2 * t * p.deposit_value + 100) \div 200 \in Int
    BY <2>1
  <2> QED BY <1>2, <2>2
<1>4. compute_deposit_minor(p, t) = MaxOf(1, MinOf(d, t - 1))
  BY <1>3 DEF compute_deposit_minor
<1> QED BY <1>1, <1>4 DEF MaxOf, MinOf

(* What generate_rows returns.                                              *)
Split(p, t, at, r) ==
    LET d == compute_deposit_minor(p, t)
        n == p.installments_count
    IN  /\ r = [i \in 1 .. n + 1 |-> r[i]]
        /\ r[1] = Row(0, "deposit", d, at)
        /\ \A i \in 1 .. n : r[i + 1] = Installment(p, t - d, n, i, at)

LEMMA Shapes ==
    ASSUME NEW p \in Plans, NEW t \in Amounts, NEW at \in Hours,
           NEW r, r = generate_rows(p, t, at)
    PROVE  LET d == compute_deposit_minor(p, t) IN
           \/ r = <<Row(0, "full", t, at)>>
           \/ \E kind \in {"balance", "installment"} :
                 r = <<Row(0, "deposit", d, at), Row(1, kind, t - d, Deadline(p))>>
           \/ /\ Split(p, t, at, r)
              /\ at < Deadline(p)
<1> DEFINE d == compute_deposit_minor(p, t)
           n == p.installments_count
           parts == [i \in 1 .. n |-> Installment(p, t - d, n, i, at)]
<1>1. n \in 2 .. 6
  BY PlanTyped
<1>2. at \in Nat /\ Deadline(p) \in Int
  BY PlanTyped, PlanConstants
<1>3. ASSUME r = <<Row(0, "deposit", d, at)>> \o parts
      PROVE  Split(p, t, at, r)
  <2>1. PICK T : T = {parts[i] : i \in 1 .. n} \cup {Row(0, "deposit", d, at)}
    OBVIOUS
  <2>2. parts \in Seq(T) /\ Len(parts) = n /\ <<Row(0, "deposit", d, at)>> \in Seq(T)
    BY <1>1, <2>1
  <2>3. /\ r = [i \in 1 .. n + 1 |-> r[i]] /\ r[1] = Row(0, "deposit", d, at)
        /\ \A i \in 1 .. n : r[i + 1] = parts[i]
    <3> HIDE DEF parts
    <3> QED BY <1>1, <1>3, <2>2
  <2> QED BY <2>3 DEF Split
<1>4. effective_mode(p, at) # "full" => at < Deadline(p)
  BY <1>2 DEF effective_mode
<1> HIDE DEF Split
<1> QED BY <1>3, <1>4 DEF generate_rows

(* A part is a row of the schedule.                                         *)
LEMMA PartTyped ==
    ASSUME NEW p \in Plans, NEW balance \in Nat, NEW at \in Hours,
           NEW n \in 2 .. 6, NEW i \in 1 .. n
    PROVE  Installment(p, balance, n, i, at) \in PlanRow
<1>2. at \in Int /\ Deadline(p) \in Int
  BY PlanTyped, PlanConstants
<1>3. PICK day \in Int :
          day = (at * n + (Deadline(p) - at) * i) \div (Day * n)
  <2>1. at * n + (Deadline(p) - at) * i \in Int /\ Day * n \in Nat \ {0}
    BY <1>2 DEF Day
  <2> QED BY <2>1
<1>4. PICK a \in Nat : a = (balance \div n) + (IF i <= (balance % n) THEN 1 ELSE 0)
  BY Parts
<1>5. PICK due \in Int : due = MinOf(Day * day + 12, Deadline(p))
  BY <1>2 DEF Day, MinOf
<1>6. Installment(p, balance, n, i, at)
        = [seq |-> i, kind |-> "installment", amount_minor |-> a, due_at |-> due]
  BY <1>3, <1>4, <1>5 DEF Installment, Row
<1>7. i \in 0 .. 6
  OBVIOUS
<1> QED BY <1>4, <1>5, <1>6, <1>7 DEF PlanRow

(* The amount of a part.                                                    *)
LEMMA PartAmount ==
    ASSUME NEW p, NEW balance, NEW n, NEW i, NEW at
    PROVE  Installment(p, balance, n, i, at).amount_minor
             = (balance \div n) + (IF i <= (balance % n) THEN 1 ELSE 0)
BY DEF Installment, Row

-----------------------------------------------------------------------------
(* The sum of the rows.                                                     *)

(* A list that starts with d and goes on with parts: the first so many.     *)
LEMMA SumOfParts ==
    ASSUME NEW n \in Nat, NEW d \in Nat, NEW b \in Nat, NEW odd \in 0 .. n,
           NEW f \in [1 .. n + 1 -> Int], f[1] = d,
           \A i \in 1 .. n : f[i + 1] = b + (IF i <= odd THEN 1 ELSE 0)
    PROVE  SumFunction(f) = d + n * b + odd
<1> DEFINE Upto(k) == [i \in 1 .. k + 1 |-> f[i]]
           Sum(k) == d + k * b + (IF k <= odd THEN k ELSE odd)
           Wrong == {k \in 0 .. n : SumFunction(Upto(k)) # Sum(k)}
<1>1. SumFunction(Upto(0)) = Sum(0)
  <2> DEFINE g == [i \in 1 .. 0 + 1 |-> f[i]]
             h == [i \in 1 .. 0 |-> g[i]]
  <2>1. g \in [1 .. 0 + 1 -> Int] /\ g[0 + 1] = d /\ g = Upto(0)
    OBVIOUS
  <2>2. h \in [{} -> Int]
    OBVIOUS
  <2> HIDE DEF g
  <2>3. SumFunction(g) = g[0 + 1] + SumFunction(h)
    BY <2>1, SumOfNext
  <2>4. SumFunction(h) = 0
    <3> HIDE DEF h
    <3> QED BY <2>2, SumOfNone
  <2>5. Sum(0) = d
    OBVIOUS
  <2> HIDE DEF h, Sum, Upto
  <2> QED BY <2>1, <2>3, <2>4, <2>5
<1>2. ASSUME NEW k \in 1 .. n, SumFunction(Upto(k - 1)) = Sum(k - 1)
      PROVE  SumFunction(Upto(k)) = Sum(k)
  <2> DEFINE g == Upto(k)
             h == [i \in 1 .. k |-> g[i]]
  <2>1. k \in Nat /\ g \in [1 .. k + 1 -> Int] /\ g[k + 1] = f[k + 1]
    OBVIOUS
  <2>2. h = Upto(k - 1)
    OBVIOUS
  <2>3. SumFunction(g) = g[k + 1] + SumFunction(h)
    <3> HIDE DEF g
    <3> QED BY <2>1, SumOfNext
  <2>4. f[k + 1] = b + (IF k <= odd THEN 1 ELSE 0)
    OBVIOUS
  <2>5. Sum(k - 1) + b + (IF k <= odd THEN 1 ELSE 0) = Sum(k)
    <3>1. (k - 1) * b + b = k * b /\ (k - 1) * b \in Nat /\ k * b \in Nat
      OBVIOUS
    <3>2. PICK x \in Nat, y \in Nat : x = (k - 1) * b /\ y = k * b /\ x + b = y
      BY <3>1
    <3>3. Sum(k - 1) = d + x + (IF k - 1 <= odd THEN k - 1 ELSE odd)
      BY <3>2
    <3>4. Sum(k) = d + y + (IF k <= odd THEN k ELSE odd)
      BY <3>2
    <3> HIDE DEF Sum
    <3> QED BY <3>2, <3>3, <3>4
  <2>6. Sum(k - 1) \in Nat
    <3>1. (k - 1) * b \in Nat
      OBVIOUS
    <3> QED BY <3>1
  <2> HIDE DEF g, h, Sum, Upto
  <2>7. SumFunction(g) = b + (IF k <= odd THEN 1 ELSE 0) + Sum(k - 1)
    BY <1>2, <2>1, <2>2, <2>3, <2>4
  <2> QED BY <2>5, <2>6, <2>7 DEF g
<1>3. Wrong = {}
  <2> SUFFICES ASSUME Wrong # {} PROVE FALSE
    OBVIOUS
  <2>1. PICK k \in Wrong : \A j \in Wrong : k <= j
    <3>1. Wrong \in SUBSET Nat
      OBVIOUS
    <3> HIDE DEF Wrong
    <3> QED BY <3>1, LeastNatural
  <2> HIDE DEF Upto, Sum
  <2>2. k \in 1 .. n
    BY <1>1
  <2>3. k - 1 \notin Wrong /\ k - 1 \in 0 .. n
    BY <2>1, <2>2
  <2> QED BY <1>2, <2>2, <2>3
<1>4. Upto(n) = f /\ Sum(n) = d + n * b + odd
  OBVIOUS
<1>5. SumFunction(Upto(n)) = Sum(n)
  <2> HIDE DEF Upto, Sum
  <2> QED BY <1>3
<1> QED BY <1>4, <1>5

(* A list of one or two.                                                    *)
LEMMA SumOfFew ==
    ASSUME NEW a \in Int, NEW b \in Int
    PROVE  /\ \A f \in [1 .. 1 -> Int] : f[1] = a => SumFunction(f) = a
           /\ \A f \in [1 .. 2 -> Int] :
                 f[1] = a /\ f[2] = b => SumFunction(f) = a + b
<1>1. ASSUME NEW f \in [1 .. 1 -> Int], f[1] = a
      PROVE  SumFunction(f) = a
  <2> DEFINE h == [i \in 1 .. 0 |-> f[i]]
  <2>1. f \in [1 .. 0 + 1 -> Int] /\ h \in [{} -> Int] /\ f[0 + 1] = a
    BY <1>1
  <2>2. SumFunction(f) = f[0 + 1] + SumFunction(h)
    BY <2>1, SumOfNext
  <2>3. SumFunction(h) = 0
    <3> HIDE DEF h
    <3> QED BY <2>1, SumOfNone
  <2> HIDE DEF h
  <2> QED BY <2>1, <2>2, <2>3
<1>2. ASSUME NEW f \in [1 .. 2 -> Int], f[1] = a, f[2] = b
      PROVE  SumFunction(f) = a + b
  <2> DEFINE h == [i \in 1 .. 1 |-> f[i]]
  <2>1. f \in [1 .. 1 + 1 -> Int] /\ h \in [1 .. 1 -> Int] /\ h[1] = a
        /\ f[1 + 1] = b
    BY <1>2
  <2>2. SumFunction(f) = f[1 + 1] + SumFunction(h)
    BY <2>1, SumOfNext
  <2> HIDE DEF h
  <2>3. SumFunction(h) = a
    BY <1>1, <2>1
  <2> QED BY <2>1, <2>2, <2>3
<1> QED BY <1>1, <1>2

(* The rows of a plan add up to the total.                                  *)
LEMMA GeneratedSum ==
    ASSUME NEW p \in Plans, NEW t \in Amounts, NEW at \in Hours,
           NEW r, r = generate_rows(p, t, at)
    PROVE  SumFunction([i \in DOMAIN r |-> r[i].amount_minor]) = t
<1> DEFINE f == [i \in DOMAIN r |-> r[i].amount_minor]
<1> SUFFICES SumFunction(f) = t
  OBVIOUS
<1>1. PICK d \in Nat : d = compute_deposit_minor(p, t) /\ t - d \in Nat
  BY DepositTyped
<1>2. t \in Nat
  BY DepositTyped
<1>3. CASE r = <<Row(0, "full", t, at)>>
  <2>1. DOMAIN r = 1 .. 1 /\ r[1].amount_minor = t
    BY <1>3 DEF Row
  <2>2. f \in [1 .. 1 -> Int] /\ f[1] = t
    BY <1>2, <2>1
  <2> HIDE DEF f
  <2> QED BY <1>2, <2>2, SumOfFew
<1>4. ASSUME NEW kind,
             r = <<Row(0, "deposit", d, at), Row(1, kind, t - d, Deadline(p))>>
      PROVE  SumFunction(f) = t
  <2>1. DOMAIN r = 1 .. 2 /\ r[1].amount_minor = d /\ r[2].amount_minor = t - d
    BY <1>4 DEF Row
  <2>2. f \in [1 .. 2 -> Int] /\ f[1] = d /\ f[2] = t - d
    BY <1>1, <2>1
  <2> HIDE DEF f
  <2>3. SumFunction(f) = d + (t - d)
    BY <1>1, <2>2, SumOfFew
  <2> QED BY <1>1, <1>2, <2>3
<1>5. CASE Split(p, t, at, r)
  <2>1. PICK n \in 2 .. 6 : n = p.installments_count
    BY PlanTyped
  <2>2. PICK balance \in Nat : balance = t - d
    BY <1>1
  <2>3. /\ DOMAIN r = 1 .. n + 1 /\ r[1] = Row(0, "deposit", d, at)
        /\ \A i \in 1 .. n : r[i + 1] = Installment(p, balance, n, i, at)
    BY <1>1, <1>5, <2>1, <2>2 DEF Split
  <2>4. PICK b \in Nat, odd \in 0 .. n - 1 :
           /\ b = balance \div n /\ odd = balance % n /\ n * b + odd = balance
    BY Parts
  <2>5. \A i \in 1 .. n :
           r[i + 1].amount_minor = b + (IF i <= odd THEN 1 ELSE 0)
    <3> SUFFICES ASSUME NEW i \in 1 .. n
                 PROVE  r[i + 1].amount_minor = b + (IF i <= odd THEN 1 ELSE 0)
      OBVIOUS
    <3>1. PICK part : part = r[i + 1] /\ part = Installment(p, balance, n, i, at)
      BY <2>3
    <3>2. part.amount_minor
            = (balance \div n) + (IF i <= (balance % n) THEN 1 ELSE 0)
      BY <3>1, PartAmount
    <3> QED BY <2>4, <3>1, <3>2
  <2>6. r[1].amount_minor = d
    BY <2>3 DEF Row
  <2>7. \A i \in 1 .. n + 1 : i = 1 \/ (i - 1 \in 1 .. n /\ i = (i - 1) + 1)
    OBVIOUS
  <2>8. \A i \in 1 .. n + 1 : r[i].amount_minor \in Int
    <3>1. \A i \in 1 .. n : b + (IF i <= odd THEN 1 ELSE 0) \in Int
      OBVIOUS
    <3> QED BY <2>5, <2>6, <2>7, <3>1
  <2>9. /\ f \in [1 .. n + 1 -> Int] /\ f[1] = d
        /\ \A i \in 1 .. n : f[i + 1] = b + (IF i <= odd THEN 1 ELSE 0)
    BY <2>3, <2>5, <2>6, <2>8
  <2> HIDE DEF f
  <2>10. n \in Nat /\ odd \in 0 .. n
    OBVIOUS
  <2>11. SumFunction(f) = d + n * b + odd
    BY <2>9, <2>10, SumOfParts, ZenonT(40)
  <2>12. d + n * b + odd = d + (n * b + odd)
    <3>1. n * b \in Nat
      OBVIOUS
    <3> QED BY <3>1
  <2>13. d + n * b + odd = d + balance
    BY <2>4, <2>12
  <2>14. d + balance = t
    BY <1>1, <1>2, <2>2
  <2> QED BY <2>11, <2>13, <2>14
<1> HIDE DEF f
<1> QED BY <1>1, <1>3, <1>4, <1>5, Shapes

-----------------------------------------------------------------------------
(* The type of the rows, and how far they differ.                           *)

(* The rows generated for a plan have the type of rows.                     *)
LEMMA RowsTyped ==
    ASSUME NEW p \in Plans, NEW t \in Amounts, NEW at \in Hours,
           NEW r, r = generate_rows(p, t, at)
    PROVE  r \in Seq(PlanRow)
<1>1. PICK d \in Nat : d = compute_deposit_minor(p, t) /\ t - d \in Nat
  BY DepositTyped
<1>2. t \in Nat /\ at \in Int /\ Deadline(p) \in Int
  BY DepositTyped, PlanTyped, PlanConstants
<1>3. Row(0, "full", t, at) \in PlanRow /\ Row(0, "deposit", d, at) \in PlanRow
  BY <1>2 DEF Row, PlanRow
<1>4. \A kind \in {"balance", "installment"} :
         Row(1, kind, t - d, Deadline(p)) \in PlanRow
  BY <1>1, <1>2 DEF Row, PlanRow
<1>5. CASE r = <<Row(0, "full", t, at)>>
  BY <1>3, <1>5
<1>6. ASSUME NEW kind \in {"balance", "installment"},
             r = <<Row(0, "deposit", d, at), Row(1, kind, t - d, Deadline(p))>>
      PROVE  r \in Seq(PlanRow)
  BY <1>3, <1>4, <1>6
<1>7. CASE Split(p, t, at, r)
  <2>1. PICK n \in 2 .. 6 : n = p.installments_count
    BY PlanTyped
  <2>2. PICK balance \in Nat : balance = t - d
    BY <1>1
  <2>3. /\ r = [i \in 1 .. n + 1 |-> r[i]] /\ r[1] = Row(0, "deposit", d, at)
        /\ \A i \in 1 .. n : r[i + 1] = Installment(p, balance, n, i, at)
    BY <1>1, <1>7, <2>1, <2>2 DEF Split
  <2>4. \A i \in 1 .. n : r[i + 1] \in PlanRow
    <3>1. \A i \in 1 .. n : Installment(p, balance, n, i, at) \in PlanRow
      BY PartTyped
    <3> QED BY <2>3, <3>1
  <2>5. \A i \in 1 .. n + 1 : i = 1 \/ (i - 1 \in 1 .. n /\ i = (i - 1) + 1)
    OBVIOUS
  <2>6. \A i \in 1 .. n + 1 : r[i] \in PlanRow
    BY <1>3, <2>3, <2>4, <2>5
  <2>7. n + 1 \in Nat /\ r \in [1 .. n + 1 -> PlanRow]
    BY <2>3, <2>6
  <2> QED BY <2>7
<1> QED BY <1>1, <1>5, <1>6, <1>7, Shapes

(* A later part is due no earlier.                                          *)
LEMMA DueGrows ==
    ASSUME NEW p \in Plans, NEW balance \in Nat, NEW at \in Hours,
           NEW n \in 2 .. 6, NEW i \in 1 .. n, NEW j \in 1 .. n,
           i <= j, at <= Deadline(p)
    PROVE  /\ Installment(p, balance, n, i, at).due_at
                <= Installment(p, balance, n, j, at).due_at
           /\ Installment(p, balance, n, j, at).due_at <= Deadline(p)
<1>1. at \in Int /\ Deadline(p) \in Int
  BY PlanTyped, PlanConstants
<1>2. PICK window \in Nat : window = Deadline(p) - at
  BY <1>1
<1>3. PICK x \in Int, y \in Int :
         /\ x = at * n + window * i /\ y = at * n + window * j /\ x <= y
  <2>1. window * i <= window * j
    BY TimesGrows
  <2>2. at * n \in Int /\ window * i \in Int /\ window * j \in Int
    BY <1>1
  <2> QED BY <2>1, <2>2
<1>4. PICK m \in Nat \ {0} : m = Day * n
  BY DEF Day
<1>5. PICK a \in Int, b \in Int : a = x \div m /\ b = y \div m /\ a <= b
  <2>1. x \div m <= y \div m
    BY <1>3, DivGrows
  <2>2. x \div m \in Int /\ y \div m \in Int
    OBVIOUS
  <2> QED BY <2>1, <2>2
<1>6. Installment(p, balance, n, i, at).due_at = MinOf(Day * a + 12, Deadline(p))
  BY <1>2, <1>3, <1>4, <1>5 DEF Installment, Row
<1>7. Installment(p, balance, n, j, at).due_at = MinOf(Day * b + 12, Deadline(p))
  BY <1>2, <1>3, <1>4, <1>5 DEF Installment, Row
<1> QED BY <1>1, <1>5, <1>6, <1>7 DEF MinOf, Day

(* What InstallmentsFair says of the rows of a plan.                        *)
LEMMA RowsFair ==
    ASSUME NEW p \in Plans, NEW t \in Amounts, NEW at \in Hours,
           NEW r, r = generate_rows(p, t, at),
           NEW i \in DOMAIN r, NEW j \in DOMAIN r,
           i < j, r[i].kind = "installment"
    PROVE  /\ r[i].due_at <= r[j].due_at
           /\ r[j].due_at <= Deadline(p)
           /\ r[i].amount_minor - r[j].amount_minor \in {0, 1}
<1>1. PICK d \in Nat : d = compute_deposit_minor(p, t) /\ t - d \in Nat
  BY DepositTyped
<1>2. r # <<Row(0, "full", t, at)>>
  <2> SUFFICES ASSUME r = <<Row(0, "full", t, at)>> PROVE FALSE
    OBVIOUS
  <2> QED OBVIOUS
<1>3. ASSUME NEW kind,
             r = <<Row(0, "deposit", d, at), Row(1, kind, t - d, Deadline(p))>>
      PROVE  FALSE
  <2>1. i = 1 /\ r[1] = Row(0, "deposit", d, at)
    BY <1>3
  <2> QED BY <2>1 DEF Row
<1>4. Split(p, t, at, r) /\ at < Deadline(p)
  BY <1>1, <1>2, <1>3, Shapes
<1>5. PICK n \in 2 .. 6 : n = p.installments_count
  BY PlanTyped
<1>6. PICK balance \in Nat : balance = t - d
  BY <1>1
<1>7. /\ DOMAIN r = 1 .. n + 1 /\ r[1] = Row(0, "deposit", d, at)
      /\ \A k \in 1 .. n : r[k + 1] = Installment(p, balance, n, k, at)
  BY <1>1, <1>4, <1>5, <1>6 DEF Split
<1>8. i # 1
  BY <1>7 DEF Row
<1>9. PICK k \in 1 .. n, l \in 1 .. n : i = k + 1 /\ j = l + 1 /\ k < l
  <2>1. i \in 1 .. n + 1 /\ j \in 1 .. n + 1
    BY <1>7
  <2>2. i - 1 \in 1 .. n /\ j - 1 \in 1 .. n /\ i - 1 < j - 1
    BY <1>8, <2>1
  <2>3. i = (i - 1) + 1 /\ j = (j - 1) + 1
    BY <2>1
  <2> QED BY <2>2, <2>3
<1>10. /\ r[i] = Installment(p, balance, n, k, at)
       /\ r[j] = Installment(p, balance, n, l, at)
  BY <1>7, <1>9
<1>11. PICK b \in Nat, odd \in Nat : b = balance \div n /\ odd = balance % n
  BY Parts
<1>12. /\ r[i].amount_minor = b + (IF k <= odd THEN 1 ELSE 0)
       /\ r[j].amount_minor = b + (IF l <= odd THEN 1 ELSE 0)
  BY <1>10, <1>11, PartAmount
<1>13. r[i].amount_minor - r[j].amount_minor \in {0, 1}
  BY <1>9, <1>12
<1>14. at <= Deadline(p) /\ k <= l
  BY <1>4, <1>9, PlanTyped, PlanConstants
<1>15. r[i].due_at <= r[j].due_at /\ r[j].due_at <= Deadline(p)
  BY <1>10, <1>14, DueGrows
<1> QED BY <1>13, <1>15

-----------------------------------------------------------------------------
(* What a withdrawal gives back.                                            *)

(* The entries of a list have its type.                                     *)
LEMMA EntryTyped ==
    ASSUME NEW T, NEW s \in Seq(T)
    PROVE  \A i \in DOMAIN s : i \in Nat /\ s[i] \in T
OBVIOUS

(* The tier that is reached is the first of those that are.                 *)
LEMMA TierReached ==
    ASSUME NEW p \in Plans, NEW days \in Nat,
           NEW reached,
           reached = {i \in DOMAIN p.cancellation_policy :
                        days >= p.cancellation_policy[i].days_before},
           reached # {}
    PROVE  \E i \in reached :
              /\ \A j \in reached : i <= j
              /\ refund_percent_at(p, days) = p.cancellation_policy[i].refund_percent
<1>1. p.cancellation_policy \in Seq([days_before : 0..365, refund_percent : 0..100])
  <2>1. ValidPlan(p)
    BY PlanConstants
  <2> QED BY <2>1 DEF ValidPlan
<1>2. reached \in SUBSET Nat
  BY <1>1
<1>3. \E i \in reached : \A j \in reached : i <= j
  BY <1>2, LeastNatural
<1>4. PICK i \in reached : /\ \A j \in reached : i <= j
                           /\ i = CHOOSE k \in reached : \A j \in reached : k <= j
  BY <1>3
<1>5. ~ (days < 0)
  OBVIOUS
<1>6. refund_percent_at(p, days) = p.cancellation_policy[i].refund_percent
  BY <1>4, <1>5 DEF refund_percent_at
<1> QED BY <1>4, <1>6

(* More days left give back no less.                                        *)
LEMMA PercentGrows ==
    ASSUME NEW p \in Plans, NEW a \in Int, NEW b \in Int, a <= b
    PROVE  /\ refund_percent_at(p, a) \in Nat
           /\ refund_percent_at(p, b) \in Nat
           /\ refund_percent_at(p, a) <= refund_percent_at(p, b)
<1> DEFINE tiers == p.cancellation_policy
           Reached(days) == {i \in DOMAIN tiers : days >= tiers[i].days_before}
<1>1. ValidPlan(p)
  BY PlanConstants
<1>2. tiers \in Seq([days_before : 0..365, refund_percent : 0..100])
  BY <1>1 DEF ValidPlan
<1>3. \A i, j \in DOMAIN tiers :
         i < j => tiers[i].refund_percent >= tiers[j].refund_percent
  BY <1>1 DEF ValidPlan
<1>4. \A i \in DOMAIN tiers : /\ i \in Nat
                              /\ tiers[i].days_before \in Int
                              /\ tiers[i].refund_percent \in Nat
  <2>1. PICK T : T = [days_before : 0..365, refund_percent : 0..100]
    OBVIOUS
  <2>2. tiers \in Seq(T)
    BY <1>2, <2>1
  <2>3. \A tier \in T : tier.days_before \in Int /\ tier.refund_percent \in Nat
    BY <2>1
  <2> HIDE DEF tiers
  <2>4. \A i \in DOMAIN tiers : i \in Nat /\ tiers[i] \in T
    BY <2>2, EntryTyped
  <2> QED BY <2>3, <2>4
<1>5. Reached(a) \subseteq Reached(b)
  BY <1>4
<1>6. \A days \in Int : days < 0 \/ Reached(days) = {} => refund_percent_at(p, days) = 0
  BY DEF refund_percent_at
<1>7. \A days \in Int : days >= 0 /\ Reached(days) # {} =>
         \E i \in Reached(days) :
            /\ \A j \in Reached(days) : i <= j
            /\ refund_percent_at(p, days) = tiers[i].refund_percent
  <2> SUFFICES ASSUME NEW days \in Int, days >= 0, Reached(days) # {}
               PROVE  \E i \in Reached(days) :
                         /\ \A j \in Reached(days) : i <= j
                         /\ refund_percent_at(p, days) = tiers[i].refund_percent
    OBVIOUS
  <2>1. days \in Nat
    OBVIOUS
  <2> QED BY <2>1, TierReached
<1>8. \A days \in Int : refund_percent_at(p, days) \in Nat
  <2> SUFFICES ASSUME NEW days \in Int PROVE refund_percent_at(p, days) \in Nat
    OBVIOUS
  <2>1. CASE days < 0 \/ Reached(days) = {}
    BY <1>6, <2>1
  <2>2. CASE days >= 0 /\ Reached(days) # {}
    <3>1. PICK i \in Reached(days) :
             refund_percent_at(p, days) = tiers[i].refund_percent
      BY <1>7, <2>2
    <3> QED BY <1>4, <3>1
  <2> QED BY <2>1, <2>2
<1>9. refund_percent_at(p, a) <= refund_percent_at(p, b)
  <2>1. CASE a < 0 \/ Reached(a) = {}
    <3>1. refund_percent_at(p, a) = 0 /\ refund_percent_at(p, b) \in Nat
      BY <1>6, <1>8, <2>1
    <3> QED BY <3>1
  <2>2. CASE a >= 0 /\ Reached(a) # {}
    <3>1. b >= 0 /\ Reached(b) # {}
      BY <1>5, <2>2
    <3>2. PICK i \in Reached(a) :
             refund_percent_at(p, a) = tiers[i].refund_percent
      BY <1>7, <2>2
    <3>3. PICK j \in Reached(b) :
             /\ \A k \in Reached(b) : j <= k
             /\ refund_percent_at(p, b) = tiers[j].refund_percent
      BY <1>7, <3>1
    <3>4. i \in DOMAIN tiers /\ j \in DOMAIN tiers /\ j <= i
      BY <1>5, <3>2, <3>3
    <3>5. tiers[i].refund_percent <= tiers[j].refund_percent
      <4>1. CASE i = j
        BY <1>4, <3>4, <4>1
      <4>2. CASE j < i
        BY <1>3, <1>4, <3>4, <4>2
      <4> QED BY <1>4, <3>4, <4>1, <4>2
    <3> QED BY <3>2, <3>3, <3>5
  <2> QED BY <2>1, <2>2
<1> QED BY <1>8, <1>9

(* What was paid is not negative, and nothing while nothing is paid.        *)
LEMMA PaidTyped ==
    ASSUME rows \in Seq(PlanRow)
    PROVE  /\ paid_minor \in Nat
           /\ paid = {} => paid_minor = 0
<1> DEFINE f == [i \in DOMAIN rows |->
                   IF rows[i].seq \in paid THEN rows[i].amount_minor ELSE 0]
           D == DOMAIN rows
<1>1. IsFiniteSet(D)
  BY FS_Interval
<1>2. f \in [D -> Nat] /\ (paid = {} => f \in [D -> {0}])
  <2>1. \A i \in DOMAIN rows : rows[i] \in PlanRow
    BY EntryTyped
  <2>2. \A i \in DOMAIN rows : rows[i].amount_minor \in Nat
    BY <2>1 DEF PlanRow
  <2> QED BY <2>2
<1>3. paid_minor = SumFunction(f)
  BY DEF paid_minor
<1> HIDE DEF f, D
<1> QED BY <1>1, <1>2, <1>3, SumOfNaturals, SumOfZeros

-----------------------------------------------------------------------------
(* The theorems.                                                            *)

(* The invariant holds of the first state.                                  *)
LEMMA InitIInv == Init => IInv
<1> SUFFICES ASSUME Init PROVE IInv
  OBVIOUS
<1>1. rows = <<>> /\ rows \in Seq(PlanRow) /\ paid = {}
  BY DEF Init
<1> QED BY <1>1 DEF Init, IInv, TypeOK, Generated

(* Every step keeps it: rows are generated once, for the plan and the total *)
(* that the order keeps.                                                    *)
LEMMA NextIInv == IInv /\ [Next]_vars => IInv'
<1> SUFFICES ASSUME IInv, [Next]_vars PROVE IInv'
  OBVIOUS
<1> USE DEF IInv
<1>1. CASE create_schedule_for_new_order
  <2>1. rows' = generate_rows(plan, total, now) /\ now \in Hours
        /\ plan \in Plans /\ total \in Amounts
    BY <1>1 DEF create_schedule_for_new_order, TypeOK
  <2>2. rows' \in Seq(PlanRow)
    BY <2>1, RowsTyped
  <2>3. paid = {}
    <3>1. rows = <<>>
      BY <1>1 DEF create_schedule_for_new_order
    <3>2. DOMAIN rows = {}
      BY <3>1
    <3> QED BY <3>2 DEF TypeOK
  <2>4. TypeOK'
    BY <1>1, <2>1, <2>2, <2>3 DEF create_schedule_for_new_order, TypeOK
  <2>5. Generated'
    BY <1>1, <2>1 DEF create_schedule_for_new_order, Generated
  <2> QED BY <2>4, <2>5
<1>2. ASSUME NEW seq \in 0..6, Pay(seq)
      PROVE  IInv'
  BY <1>2 DEF Pay, TypeOK, Generated
<1>3. CASE Tick
  BY <1>3 DEF Tick, TypeOK, Generated
<1>4. CASE UNCHANGED vars
  BY <1>4 DEF vars, TypeOK, Generated
<1> QED BY <1>1, <1>2, <1>3, <1>4 DEF Next

(* The rows of an order are always those its plan gives at some hour.       *)
THEOREM AlwaysGenerated == Spec => []IInv
BY InitIInv, NextIInv, PTL DEF Spec

(* Type correctness.                                                        *)
THEOREM TypeCorrect == Spec => []TypeOK
<1>1. IInv => TypeOK
  BY DEF IInv
<1> QED BY <1>1, AlwaysGenerated, PTL

(* The rounding of the deposit and of the parts never loses a cent, and     *)
(* never charges one more: the rows of any plan add up to any total.        *)
THEOREM NoCentLost == Spec => []SumIsTotal
<1>1. IInv => SumIsTotal
  BY GeneratedSum DEF IInv, TypeOK, Generated, SumIsTotal
<1> QED BY <1>1, AlwaysGenerated, PTL

(* The parts are due in order, none after the deadline, and no two differ   *)
(* by more than the cent of the remainder.                                  *)
THEOREM FairParts == Spec => []InstallmentsFair
<1>1. IInv => InstallmentsFair
  <2> SUFFICES ASSUME IInv,
                      NEW i \in DOMAIN rows, NEW j \in DOMAIN rows,
                      i < j, rows[i].kind = "installment"
               PROVE  /\ rows[i].due_at <= rows[j].due_at
                      /\ rows[j].due_at <= Deadline(plan)
                      /\ rows[i].amount_minor - rows[j].amount_minor \in {0, 1}
    BY DEF InstallmentsFair
  <2>1. rows # <<>>
    <3> SUFFICES ASSUME rows = <<>> PROVE FALSE
      OBVIOUS
    <3> QED OBVIOUS
  <2>2. PICK at \in Hours : rows = generate_rows(plan, total, at)
    BY <2>1 DEF IInv, Generated
  <2>3. plan \in Plans /\ total \in Amounts
    BY DEF IInv, TypeOK
  <2> QED BY <2>2, <2>3, RowsFair
<1> QED BY <1>1, AlwaysGenerated, PTL

(* Later, less time is left.                                                *)
LEMMA LessIsLeft ==
    ASSUME NEW a \in Int, NEW b \in Int, NEW c \in Int, a < b
    PROVE  c - b <= c - a
OBVIOUS

(* A share of what was paid is no more than a greater share.                *)
LEMMA ShareGrows ==
    ASSUME NEW m \in Nat, NEW a \in Nat, NEW b \in Nat, a <= b
    PROVE  (m * a) \div 100 <= (m * b) \div 100
<1>1. m * a <= m * b /\ m * a \in Int /\ m * b \in Int
  BY TimesGrows
<1> QED BY <1>1, DivGrows

(* Short of a further payment, a withdrawal never comes to give back more   *)
(* than it did: neither the passing of time nor the making of the rows      *)
(* raises it.                                                               *)
THEOREM RefundShrinks == Spec => RefundNeverGrows
<1>1. IInv /\ [Next]_vars
        => [paid' = paid => compute_policy_refund' <= compute_policy_refund]_vars
  <2> SUFFICES ASSUME IInv, [Next]_vars, ~ UNCHANGED vars, paid' = paid
               PROVE  compute_policy_refund' <= compute_policy_refund
    OBVIOUS
  <2>1. IInv'
    BY NextIInv
  <2>2. /\ plan \in Plans /\ now \in Int /\ now' \in Int /\ Start \in Int
        /\ rows \in Seq(PlanRow) /\ rows' \in Seq(PlanRow)
    BY <2>1, PlanConstants DEF IInv, TypeOK
  <2>3. paid_minor \in Nat /\ (paid = {} => paid_minor = 0)
    BY <2>2, PaidTyped
  <2> DEFINE days == (Start - now) \div Day
             left == (Start - now') \div Day
  <2>4. days \in Int /\ left \in Int /\ Start - now \in Int /\ Start - now' \in Int
        /\ Day \in Nat \ {0}
    BY <2>2 DEF Day
  <2>5. \A seq \in 0..6 : ~ Pay(seq)
    BY DEF Pay
  <2>6. CASE Tick
    <3>1. now < now' /\ plan' = plan /\ rows' = rows
      BY <2>6 DEF Tick
    <3>2. PICK x \in Int, y \in Int : x = Start - now' /\ y = Start - now /\ x <= y
      <4>1. now \in Int /\ now' \in Int /\ Start \in Int
        BY <2>2
      <4>2. Start - now' <= Start - now
        BY <3>1, <4>1, LessIsLeft
      <4> QED BY <2>4, <4>2
    <3>3. left <= days
      <4>1. x \div Day <= y \div Day
        BY <2>4, <3>2, DivGrows
      <4> QED BY <3>2, <4>1
    <3>4. PICK m \in Nat : m = paid_minor /\ m = paid_minor'
      BY <2>3, <3>1 DEF paid_minor
    <3>5. PICK a \in Nat, b \in Nat : /\ a = refund_percent_at(plan, left)
                                      /\ b = refund_percent_at(plan, days)
                                      /\ a <= b
      <4> HIDE DEF left, days
      <4> QED BY <2>2, <2>4, <3>3, PercentGrows
    <3>6. compute_policy_refund = (m * b) \div 100
      BY <3>4, <3>5 DEF compute_policy_refund
    <3>7. compute_policy_refund' = (m * a) \div 100
      BY <3>1, <3>4, <3>5 DEF compute_policy_refund
    <3> QED BY <3>5, <3>6, <3>7, ShareGrows
  <2>7. CASE create_schedule_for_new_order
    <3>1. now' = now /\ plan' = plan /\ rows = <<>>
      BY <2>7 DEF create_schedule_for_new_order
    <3>2. paid = {} /\ paid' = {}
      BY <3>1 DEF IInv, TypeOK
    <3>3. paid_minor = 0
      BY <2>3, <3>2
    <3>4. paid_minor' = 0
      <4>1. (rows \in Seq(PlanRow) => (paid = {} => paid_minor = 0))'
        BY PaidTyped, PTL
      <4> QED BY <2>2, <3>2, <4>1
    <3>5. PICK b \in Nat : b = refund_percent_at(plan, days)
      BY <2>2, <2>4, PercentGrows
    <3>6. compute_policy_refund = (0 * b) \div 100
      BY <3>3, <3>5 DEF compute_policy_refund
    <3>7. compute_policy_refund' = (0 * b) \div 100
      BY <3>1, <3>4, <3>5 DEF compute_policy_refund
    <3> QED BY <3>6, <3>7
  <2> QED BY <2>5, <2>6, <2>7 DEF Next
<1> QED BY <1>1, AlwaysGenerated, PTL DEF Spec, RefundNeverGrows

==============================================================================
