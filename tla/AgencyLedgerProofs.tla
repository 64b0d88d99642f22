------------------------- MODULE AgencyLedgerProofs -------------------------
(***************************************************************************)
(* The account of an agency admin stays sound for any amounts and any      *)
(* number of entries, invoices and payments: no money settles twice, an    *)
(* invoice is paid exactly when it is settled, without an invoice under    *)
(* review no change leaves more open beyond the debt than before, and a    *)
(* paid invoice is unpaid again only because an entry is voided.           *)
(*                                                                         *)
(* 1. Sums.  SumTo is a recursive function; what it is at 0 and at n + 1   *)
(*    follows from the two running totals agreeing up to the least place   *)
(*    where they would not (Least, Induct), and every other fact about     *)
(*    sums from these two.                                                 *)
(* 2. Allocation.  Laid lays the sources along the invoices as two rows of *)
(*    stretches of one line of money; summed along a row, along a column   *)
(*    and over all, it takes no more than an invoice has open, than a      *)
(*    source has, and exactly what both have up to the cap.                *)
(* 3. The account.  LedgerInv: the types, and Sound - each row is settled  *)
(*    up to its amount by live money and has the status that says so, and  *)
(*    no entry gives more than it has.  enforce keeps it and, without an   *)
(*    invoice under review, closes the excess.                             *)
(* 4. Every action keeps LedgerInv and does not raise the excess (Good).   *)
(* 5. Paid invoices stay paid.                                             *)
(***************************************************************************)
EXTENDS AgencyLedger, FiniteSetTheorems, TLAPS

-----------------------------------------------------------------------------
(* 1. Sums.                                                                *)

(* A set of naturals that is not empty has a least element.                *)
LEMMA Least ==
  ASSUME NEW T \in SUBSET Nat, T # {}
  PROVE  \E x \in T : \A y \in T : x <= y
<1>1. PICK x \in T : \A y \in T : ~ (<<y, x>> \in OpToRel(<, Nat))
  BY WFMin, NatLessThanWellFounded
<1>2. ASSUME NEW y \in T, y < x PROVE FALSE
  <2>1. <<y, x>> \in OpToRel(<, Nat)
    BY <1>2 DEF OpToRel
  <2> QED BY <2>1, <1>1
<1> QED BY <1>2

(* So a set with 0 and every successor has all of them.                    *)
LEMMA Induct ==
  ASSUME NEW T \in SUBSET Nat, 0 \in T, \A n \in T : n + 1 \in T
  PROVE  T = Nat
<1> SUFFICES ASSUME T # Nat PROVE FALSE
  OBVIOUS
<1>1. PICK x \in Nat \ T : \A y \in Nat \ T : x <= y
  BY Least
<1>2. x - 1 \in Nat /\ ~ (x <= x - 1)
  BY <1>1
<1>3. x - 1 \in T
  BY <1>1, <1>2
<1> QED BY <1>1, <1>2, <1>3
-----------------------------------------------------------------------------
(* sum is the running total of f up to n.                                  *)
Running(f, n, sum) == sum = [k \in 0 .. n |-> IF k = 0 THEN 0 ELSE f[k] + sum[k - 1]]

LEMMA RunningExists ==
  ASSUME NEW f, NEW n \in Nat
  PROVE  \E sum : Running(f, n, sum)
<1> DEFINE T == {m \in Nat : \E sum : Running(f, m, sum)}
<1>1. 0 \in T
  <2>1. Running(f, 0, [k \in 0 .. 0 |-> 0])
    BY DEF Running
  <2> QED BY <2>1
<1>2. ASSUME NEW m \in T PROVE m + 1 \in T
  <2>1. PICK sum : Running(f, m, sum)
    OBVIOUS
  <2> DEFINE next == [k \in 0 .. m + 1 |-> IF k = m + 1 THEN f[m + 1] + sum[m] ELSE sum[k]]
  <2>2. \A k \in 0 .. m : next[k] = sum[k]
    OBVIOUS
  <2>3. \A k \in 0 .. m : sum[k] = IF k = 0 THEN 0 ELSE f[k] + sum[k - 1]
    BY <2>1 DEF Running
  <2>4. ASSUME NEW k \in 0 .. m + 1
        PROVE  next[k] = IF k = 0 THEN 0 ELSE f[k] + next[k - 1]
    <3>1. CASE k = 0
      BY <3>1, <2>2, <2>3
    <3>2. CASE k = m + 1
      BY <3>2, <2>2
    <3>3. CASE k \in 1 .. m
      BY <3>3, <2>2, <2>3
    <3> QED BY <3>1, <3>2, <3>3
  <2>5. Running(f, m + 1, next)
    BY <2>4 DEF Running
  <2> QED BY <2>5
<1> HIDE DEF T
<1>3. T = Nat
  BY <1>1, <1>2, Induct DEF T
<1> QED BY <1>3 DEF T

LEMMA RunningAgree ==
  ASSUME NEW f, NEW n \in Nat, NEW m \in Nat, n <= m, NEW r, Running(f, n, r),
         NEW s, Running(f, m, s)
  PROVE  r[n] = s[n]
<1> DEFINE T == {k \in Nat : k <= n => r[k] = s[k]}
<1>0. /\ \A k \in 0 .. n : r[k] = IF k = 0 THEN 0 ELSE f[k] + r[k - 1]
      /\ \A k \in 0 .. m : s[k] = IF k = 0 THEN 0 ELSE f[k] + s[k - 1]
  BY DEF Running
<1>1. 0 \in T
  BY <1>0
<1>2. ASSUME NEW k \in T PROVE k + 1 \in T
  BY <1>0
<1> HIDE DEF T
<1>3. T = Nat
  BY <1>1, <1>2, Induct DEF T
<1> QED BY <1>3 DEF T

LEMMA SumRunning ==
  ASSUME NEW f, NEW n \in Nat
  PROVE  \E sum : Running(f, n, sum) /\ SumTo(f, n) = sum[n]
<1> DEFINE c == CHOOSE sum : Running(f, n, sum)
<1>1. Running(f, n, c)
  BY RunningExists
<1>2. SumTo(f, n) = c[n]
  BY DEF SumTo, Running
<1> QED BY <1>1, <1>2

LEMMA SumZero == ASSUME NEW f PROVE SumTo(f, 0) = 0
BY SumRunning DEF Running

LEMMA SumNext ==
  ASSUME NEW f, NEW n \in Nat
  PROVE  SumTo(f, n + 1) = f[n + 1] + SumTo(f, n)
<1>1. PICK r : Running(f, n, r) /\ SumTo(f, n) = r[n]
  BY SumRunning
<1>2. PICK s : Running(f, n + 1, s) /\ SumTo(f, n + 1) = s[n + 1]
  BY SumRunning
<1>3. r[n] = s[n]
  BY <1>1, <1>2, RunningAgree
<1>4. s[n + 1] = f[n + 1] + s[n]
  BY <1>2 DEF Running
<1> QED BY <1>1, <1>2, <1>3, <1>4

LEMMA SumNat ==
  ASSUME NEW n \in Nat, NEW f, \A k \in 1 .. n : f[k] \in Nat
  PROVE  SumTo(f, n) \in Nat
<1> DEFINE T == {m \in Nat : m <= n => SumTo(f, m) \in Nat}
<1>1. 0 \in T
  BY SumZero
<1>2. ASSUME NEW m \in T PROVE m + 1 \in T
  BY SumNext
<1> HIDE DEF T
<1>3. T = Nat
  BY <1>1, <1>2, Induct DEF T
<1> QED BY <1>3 DEF T

LEMMA SumSame ==
  ASSUME NEW n \in Nat, NEW f, NEW g, \A k \in 1 .. n : f[k] = g[k]
  PROVE  SumTo(f, n) = SumTo(g, n)
<1> DEFINE T == {m \in Nat : m <= n => SumTo(f, m) = SumTo(g, m)}
<1>1. 0 \in T
  BY SumZero
<1>2. ASSUME NEW m \in T PROVE m + 1 \in T
  BY SumNext
<1> HIDE DEF T
<1>3. T = Nat
  BY <1>1, <1>2, Induct DEF T
<1> QED BY <1>3 DEF T

LEMMA SumNone ==
  ASSUME NEW n \in Nat, NEW f, \A k \in 1 .. n : f[k] = 0
  PROVE  SumTo(f, n) = 0
<1> DEFINE T == {m \in Nat : m <= n => SumTo(f, m) = 0}
<1>1. 0 \in T
  BY SumZero
<1>2. ASSUME NEW m \in T PROVE m + 1 \in T
  BY SumNext
<1> HIDE DEF T
<1>3. T = Nat
  BY <1>1, <1>2, Induct DEF T
<1> QED BY <1>3 DEF T

LEMMA SumLeq ==
  ASSUME NEW n \in Nat, NEW f, NEW g, \A k \in 1 .. n : f[k] \in Nat /\ g[k] \in Nat /\ f[k] <= g[k]
  PROVE  SumTo(f, n) \in Nat /\ SumTo(g, n) \in Nat /\ SumTo(f, n) <= SumTo(g, n)
<1> DEFINE T == {m \in Nat : m <= n => SumTo(f, m) \in Nat /\ SumTo(g, m) \in Nat /\ SumTo(f, m) <= SumTo(g, m)}
<1>1. 0 \in T
  BY SumZero
<1>2. ASSUME NEW m \in T PROVE m + 1 \in T
  BY SumNext
<1> HIDE DEF T
<1>3. T = Nat
  BY <1>1, <1>2, Induct DEF T
<1> QED BY <1>3 DEF T

LEMMA SumAdd ==
  ASSUME NEW n \in Nat, NEW f, NEW g, NEW h,
         \A k \in 1 .. n : f[k] \in Nat /\ g[k] \in Nat /\ h[k] = f[k] + g[k]
  PROVE  SumTo(f, n) \in Nat /\ SumTo(g, n) \in Nat /\ SumTo(h, n) = SumTo(f, n) + SumTo(g, n)
<1> DEFINE T == {m \in Nat : m <= n => SumTo(f, m) \in Nat /\ SumTo(g, m) \in Nat /\ SumTo(h, m) = SumTo(f, m) + SumTo(g, m)}
<1>1. 0 \in T
  BY SumZero
<1>2. ASSUME NEW m \in T PROVE m + 1 \in T
  BY SumNext
<1> HIDE DEF T
<1>3. T = Nat
  BY <1>1, <1>2, Induct DEF T
<1> QED BY <1>3 DEF T

(* Changed at one place, the sum changes by as much.                       *)
LEMMA SumPoint ==
  ASSUME NEW n \in Nat, NEW f, NEW g, \A k \in 1 .. n : f[k] \in Nat /\ g[k] \in Nat,
         NEW x \in 1 .. n, \A k \in 1 .. n : k # x => g[k] = f[k]
  PROVE  SumTo(f, n) \in Nat /\ SumTo(g, n) = SumTo(f, n) + g[x] - f[x]
<1> DEFINE T == {m \in Nat : m <= n => /\ SumTo(f, m) \in Nat
                                  /\ SumTo(g, m) = IF m < x THEN SumTo(f, m) ELSE SumTo(f, m) + g[x] - f[x]}
<1>1. 0 \in T
  BY SumZero
<1>2. ASSUME NEW m \in T PROVE m + 1 \in T
  BY SumNext
<1> HIDE DEF T
<1>3. T = Nat
  BY <1>1, <1>2, Induct DEF T
<1> QED BY <1>3 DEF T

LEMMA SumMember ==
  ASSUME NEW n \in Nat, NEW f, \A k \in 1 .. n : f[k] \in Nat, NEW x \in 1 .. n
  PROVE  SumTo(f, n) \in Nat /\ f[x] <= SumTo(f, n)
<1> DEFINE T == {m \in Nat : m <= n => SumTo(f, m) \in Nat /\ (x <= m => f[x] <= SumTo(f, m))}
<1>1. 0 \in T
  BY SumZero
<1>2. ASSUME NEW m \in T PROVE m + 1 \in T
  BY SumNext
<1> HIDE DEF T
<1>3. T = Nat
  BY <1>1, <1>2, Induct DEF T
<1> QED BY <1>3 DEF T

-----------------------------------------------------------------------------
(* What the places s[1] .. s[n] of h hold is all that h holds.             *)
Full(h, n) == h[0] + SumTo(h, n)

LEMMA FullPoint ==
  ASSUME NEW n \in Nat, NEW f, NEW g, \A k \in 0 .. n : f[k] \in Nat /\ g[k] \in Nat,
         NEW x \in 0 .. n, \A k \in 0 .. n : k # x => g[k] = f[k]
  PROVE  Full(f, n) \in Nat /\ Full(g, n) = Full(f, n) + g[x] - f[x]
<1>1. SumTo(f, n) \in Nat /\ SumTo(g, n) \in Nat
  BY SumNat
<1>2. CASE x = 0
  <2>1. SumTo(f, n) = SumTo(g, n)
    BY <1>2, SumSame
  <2> QED BY <2>1, <1>1, <1>2 DEF Full
<1>3. CASE x \in 1 .. n
  <2>1. SumTo(g, n) = SumTo(f, n) + g[x] - f[x]
    BY <1>3, SumPoint
  <2> QED BY <2>1, <1>1, <1>3 DEF Full
<1> QED BY <1>2, <1>3

Puts(s, L, g, h, n) ==
  /\ L \in Nat /\ n \in Nat
  /\ \A l \in 1 .. L : s[l] \in 0 .. n /\ g[l] \in Nat /\ h[s[l]] = g[l]
  /\ \A k, l \in 1 .. L : s[k] = s[l] => k = l
  /\ \A e \in 0 .. n : (\A l \in 1 .. L : s[l] # e) => h[e] = 0

LEMMA Relabel ==
  ASSUME NEW s, NEW L, NEW g, NEW h, NEW n, Puts(s, L, g, h, n)
  PROVE  Full(h, n) = SumTo(g, L)
<1> USE DEF Puts
<1> DEFINE H(m) == [e \in 0 .. n |-> IF \E l \in 1 .. m : s[l] = e THEN h[e] ELSE 0]
           T == {m \in Nat : m <= L => Full(H(m), n) = SumTo(g, m)}
<1>1. \A m \in Nat : m <= L => \A e \in 0 .. n : H(m)[e] \in Nat
  OBVIOUS
<1>2. 0 \in T
  <2>1. \A e \in 0 .. n : H(0)[e] = 0
    OBVIOUS
  <2>2. SumTo(H(0), n) = 0
    BY <2>1, SumNone
  <2>3. Full(H(0), n) = 0
    BY <2>1, <2>2 DEF Full
  <2> QED BY <2>3, SumZero
<1>3. ASSUME NEW m \in T, m + 1 <= L PROVE Full(H(m + 1), n) = SumTo(g, m + 1)
  <2>1. m \in Nat /\ m <= L /\ m + 1 \in 1 .. L
    BY <1>3
  <2>2. s[m + 1] \in 0 .. n /\ H(m)[s[m + 1]] = 0 /\ H(m + 1)[s[m + 1]] = g[m + 1]
    BY <2>1
  <2>3. \A e \in 0 .. n : e # s[m + 1] => H(m + 1)[e] = H(m)[e]
    BY <2>1
  <2>4. (\A e \in 0 .. n : H(m)[e] \in Nat) /\ (\A e \in 0 .. n : H(m + 1)[e] \in Nat)
    BY <2>1, <1>1, SMTT(30)
  <2>5. Full(H(m), n) = SumTo(g, m)
    BY <2>1
  <2> HIDE DEF H
  <2>6. Full(H(m), n) \in Nat /\ Full(H(m + 1), n) = Full(H(m), n) + g[m + 1] - 0
    BY <2>2, <2>3, <2>4, FullPoint, SMTT(30)
  <2>7. SumTo(g, m + 1) = g[m + 1] + SumTo(g, m) /\ g[m + 1] \in Nat
    BY <2>1, SumNext
  <2> QED BY <2>5, <2>6, <2>7
<1>4. \A m \in T : m + 1 \in T
  <2> HIDE DEF H
  <2> QED BY <1>3
<1>5. L \in T
  <2> HIDE DEF T
  <2>1. T = Nat
    BY <1>2, <1>4, Induct DEF T
  <2> QED BY <2>1
<1>6. \A e \in 0 .. n : H(L)[e] = h[e]
  OBVIOUS
<1>7. Full(H(L), n) = SumTo(g, L)
  BY <1>5
<1> HIDE DEF H
<1>8. SumTo(H(L), n) = SumTo(h, n)
  BY <1>6, SumSame
<1> QED BY <1>6, <1>7, <1>8 DEF Full
-----------------------------------------------------------------------------
(* 2. Allocation.                                                          *)

LEMMA MinType ==
  ASSUME NEW a \in Nat, NEW b \in Nat, NEW c \in Nat
  PROVE  LET m == Min({a, b, c}) IN m \in {a, b, c} /\ m <= a /\ m <= b /\ m <= c
<1>1. \E x \in {a, b, c} : \A y \in {a, b, c} : x <= y
  OBVIOUS
<1>2. \A y \in {a, b, c} : Min({a, b, c}) \in {a, b, c} /\ Min({a, b, c}) <= y
  BY <1>1 DEF Min
<1> QED BY <1>2

LEMMA MaxType ==
  ASSUME NEW a \in Nat, NEW b \in Nat
  PROVE  LET m == Max({a, b}) IN m \in {a, b} /\ a <= m /\ b <= m
<1>1. \E x \in {a, b} : \A y \in {a, b} : x >= y
  OBVIOUS
<1>2. \A y \in {a, b} : Max({a, b}) \in {a, b} /\ Max({a, b}) >= y
  BY <1>1 DEF Max
<1> QED BY <1>2

(* What two stretches of money, a to b and c to d, have in common up to cap. *)
Reach(b, d, cap) == Min({b, d, cap})
Common(a, b, c, d, cap) == Minus(Reach(b, d, cap), Max({a, c}))

LEMMA CommonStep ==
  ASSUME NEW a, NEW b, NEW c, NEW d, NEW cap, {a, b, c, d, cap} \subseteq Nat, a <= b, c <= d
  PROVE  /\ Common(a, b, c, d, cap) \in Nat
         /\ Minus(Reach(b, c, cap), a) \in Nat
         /\ Minus(Reach(b, d, cap), a) = Common(a, b, c, d, cap) + Minus(Reach(b, c, cap), a)
<1> DEFINE md == Reach(b, d, cap)
           mc == Reach(b, c, cap)
           x == Max({a, c})
<1>1. md \in {b, d, cap} /\ md <= b /\ md <= d /\ md <= cap
  BY MinType DEF Reach
<1>2. mc \in {b, c, cap} /\ mc <= b /\ mc <= c /\ mc <= cap
  BY MinType DEF Reach
<1>3. x \in {a, c} /\ a <= x /\ c <= x
  BY MaxType
<1> HIDE DEF md, mc, x
<1>4. /\ Minus(md, x) \in Nat
      /\ Minus(mc, a) \in Nat
      /\ Minus(md, a) = Minus(md, x) + Minus(mc, a)
  BY <1>1, <1>2, <1>3 DEF Minus
<1> QED BY <1>4 DEF md, mc, x, Common

(* A stretch along the stretches C[0] .. C[L], up to cap.                  *)
Steps(C, L) == C[0] = 0 /\ \A l \in 1 .. L : C[l - 1] \in Nat /\ C[l] \in Nat /\ C[l - 1] <= C[l]

LEMMA StepsType == ASSUME NEW L \in Nat, NEW C, Steps(C, L) PROVE \A l \in 0 .. L : C[l] \in Nat
BY DEF Steps

LEMMA LaidAlong ==
  ASSUME NEW L \in Nat, NEW C, Steps(C, L), NEW a \in Nat, NEW b \in Nat, NEW cap \in Nat, a <= b,
         NEW g, \A l \in 1 .. L : g[l] = Common(a, b, C[l - 1], C[l], cap)
  PROVE  SumTo(g, L) = Minus(Reach(b, C[L], cap), a)
<1> DEFINE T == {m \in Nat : m <= L => SumTo(g, m) = Minus(Reach(b, C[m], cap), a)}
<1>1. 0 \in T
  <2>1. Reach(b, C[0], cap) = 0
    BY MinType DEF Steps, Reach
  <2> QED BY <2>1, SumZero DEF Minus
<1>2. ASSUME NEW m \in T, m + 1 <= L PROVE SumTo(g, m + 1) = Minus(Reach(b, C[m + 1], cap), a)
  <2>1. m \in Nat /\ m + 1 \in 1 .. L
    BY <1>2
  <2>2. SumTo(g, m) = Minus(Reach(b, C[m], cap), a)
    BY <2>1
  <2>3. SumTo(g, m + 1) = g[m + 1] + SumTo(g, m)
    BY <2>1, SumNext
  <2>4. C[m] \in Nat /\ C[m + 1] \in Nat /\ C[m] <= C[m + 1]
    BY <2>1 DEF Steps
  <2>5. g[m + 1] = Common(a, b, C[m], C[m + 1], cap)
    BY <2>1
  <2>6. Common(a, b, C[m], C[m + 1], cap) \in Nat
    BY <2>4, CommonStep
  <2>7. Minus(Reach(b, C[m], cap), a) \in Nat
    BY <2>4, CommonStep
  <2>8. Minus(Reach(b, C[m + 1], cap), a)
          = Common(a, b, C[m], C[m + 1], cap) + Minus(Reach(b, C[m], cap), a)
    BY <2>4, CommonStep
  <2> QED BY <2>2, <2>3, <2>5, <2>6, <2>7, <2>8
<1>3. \A m \in T : m + 1 \in T
  BY <1>2
<1> HIDE DEF T
<1>4. T = Nat
  BY <1>1, <1>3, Induct DEF T
<1> QED BY <1>4 DEF T
-----------------------------------------------------------------------------
(* A set of row numbers has a list in their order.                         *)
LEMMA SortedExists ==
  ASSUME NEW N \in Nat, NEW S \in SUBSET (1 .. N)
  PROVE  \E s \in SetToSeqs(S) : \A j, k \in DOMAIN s : j < k => s[j] < s[k]
<1> DEFINE Sorted(R) == \E s \in SetToSeqs(R) : \A j, k \in DOMAIN s : j < k => s[j] < s[k]
           T == {n \in Nat : \A R \in SUBSET (1 .. n) : Sorted(R)}
<1>1. 0 \in T
  <2>1. Cardinality({}) = 0
    BY FS_EmptySet
  <2>2. [k \in 1 .. 0 |-> 0] \in SetToSeqs({})
    BY <2>1 DEF SetToSeqs
  <2>3. Sorted({})
    BY <2>2
  <2>4. \A R \in SUBSET (1 .. 0) : R = {}
    OBVIOUS
  <2> QED BY <2>3, <2>4
<1>2. ASSUME NEW n \in T PROVE n + 1 \in T
  <2> SUFFICES ASSUME NEW R \in SUBSET (1 .. n + 1) PROVE Sorted(R)
    OBVIOUS
  <2>1. CASE n + 1 \notin R
    <3>1. R \in SUBSET (1 .. n)
      BY <2>1
    <3> QED BY <3>1
  <2>2. CASE n + 1 \in R
    <3> DEFINE Q == R \ {n + 1}
               c == Cardinality(Q)
    <3>1. Q \in SUBSET (1 .. n)
      OBVIOUS
    <3>2. Sorted(Q)
      BY <3>1
    <3>3. PICK s \in SetToSeqs(Q) : \A j, k \in DOMAIN s : j < k => s[j] < s[k]
      BY <3>2
    <3>4. IsFiniteSet(Q)
      <4>1. IsFiniteSet(1 .. n)
        BY FS_Interval
      <4> QED BY <3>1, <4>1, FS_Subset
    <3>5. c \in Nat
      BY <3>4, FS_CardinalityType
    <3>6. Cardinality(R) = c + 1
      <4>1. R = Q \cup {n + 1}
        BY <2>2
      <4> QED BY <3>4, <4>1, FS_AddElement
    <3>7. s \in [1 .. c -> Q] /\ \A j, k \in 1 .. c : j # k => s[j] # s[k]
      BY DEF SetToSeqs
    <3> DEFINE t == [k \in 1 .. c + 1 |-> IF k = c + 1 THEN n + 1 ELSE s[k]]
    <3> HIDE DEF c
    <3>8. \A j \in 1 .. c : t[j] = s[j] /\ s[j] \in Nat /\ s[j] < n + 1
      <4>1. n \in Nat /\ \A x \in Q : x \in Nat /\ x < n + 1
        BY <3>1
      <4> HIDE DEF Q
      <4>2. \A j \in 1 .. c : t[j] = s[j] /\ s[j] \in Q
        BY <3>5, <3>7
      <4> QED BY <4>1, <4>2
    <3>9. t[c + 1] = n + 1 /\ t \in [1 .. c + 1 -> R]
      BY <2>2, <3>5, <3>7
    <3> HIDE DEF t
    <3>10. ASSUME NEW j \in 1 .. c + 1, NEW k \in 1 .. c + 1, j < k PROVE t[j] < t[k]
      <4>1. j \in 1 .. c
        BY <3>5, <3>10
      <4>2. CASE k = c + 1
        BY <4>1, <4>2, <3>8, <3>9
      <4>3. CASE k \in 1 .. c
        BY <4>1, <4>3, <3>3, <3>7, <3>8, <3>10
      <4> QED BY <4>2, <4>3, <3>5
    <3>11. \A j \in 1 .. c + 1 : t[j] \in Nat
      <4>1. \A x \in R : x \in Nat
        OBVIOUS
      <4> QED BY <3>5, <3>9, <4>1
    <3>12. \A j, k \in 1 .. c + 1 : j # k => t[j] # t[k]
      BY <3>5, <3>10, <3>11
    <3>13. t \in SetToSeqs(R)
      BY <3>6, <3>9, <3>12 DEF SetToSeqs
    <3> QED BY <3>9, <3>10, <3>13
  <2> QED BY <2>1, <2>2
<1> HIDE DEF T
<1>3. T = Nat
  BY <1>1, <1>2, Induct DEF T
<1> QED BY <1>3 DEF T

(* s lists n members of I, each of them once.                              *)
Lists(s, n, I) ==
  /\ n \in Nat /\ s \in [1 .. n -> I]
  /\ \A j, k \in 1 .. n : s[j] = s[k] => j = k

LEMMA ListsAll ==
  ASSUME NEW N \in Nat, NEW S \in SUBSET (1 .. N), NEW s \in SetToSeqs(S)
  PROVE  Lists(s, Cardinality(S), S) /\ \A x \in S : \E k \in 1 .. Cardinality(S) : s[k] = x
<1> DEFINE n == Cardinality(S)
<1>1. IsFiniteSet(S)
  <2>1. IsFiniteSet(1 .. N)
    BY FS_Interval
  <2> QED BY <2>1, FS_Subset
<1>2. n \in Nat
  BY <1>1, FS_CardinalityType
<1>3. s \in [1 .. n -> S] /\ \A j, k \in 1 .. n : s[j] = s[k] => j = k
  BY DEF SetToSeqs
<1>4. s \in Injection(1 .. n, S)
  BY <1>3 DEF Injection, IsInjective
<1>5. Cardinality(1 .. n) = n
  BY <1>2, FS_Interval
<1>6. s \in Surjection(1 .. n, S)
  BY <1>1, <1>4, <1>5, FS_Injection
<1> QED BY <1>2, <1>3, <1>6 DEF Lists, Surjection

LEMMA OldestLists ==
  ASSUME NEW N \in Nat, NEW S \in SUBSET (1 .. N)
  PROVE  /\ Lists(Oldest(S), Cardinality(S), S)
         /\ \A x \in S : \E k \in 1 .. Cardinality(S) : Oldest(S)[k] = x
<1>1. Oldest(S) \in SetToSeqs(S)
  BY SortedExists DEF Oldest
<1> QED BY <1>1, ListsAll
-----------------------------------------------------------------------------
(* The money of the first sources, in their order, grows by what the next  *)
(* one has.                                                                *)
Growth(f, s, n) == [l \in 0 .. n |-> Upto(f, s, l)]

LEMMA UptoNext ==
  ASSUME NEW f, NEW s, NEW l \in Nat, \A j \in 1 .. l + 1 : f[s[j]] \in Nat
  PROVE  Upto(f, s, l + 1) = Upto(f, s, l) + f[s[l + 1]]
<1> DEFINE F == [j \in 1 .. l + 1 |-> f[s[j]]]
           G == [j \in 1 .. l |-> f[s[j]]]
<1>1. F[l + 1] = f[s[l + 1]] /\ F[l + 1] \in Nat /\ \A j \in 1 .. l : F[j] = G[j] /\ F[j] \in Nat
  OBVIOUS
<1> HIDE DEF F, G
<1>2. SumTo(F, l + 1) = F[l + 1] + SumTo(F, l)
  BY SumNext
<1>3. SumTo(F, l) = SumTo(G, l) /\ SumTo(F, l) \in Nat
  BY <1>1, SumSame, SumNat
<1> QED BY <1>1, <1>2, <1>3 DEF Upto, F, G

LEMMA GrowthSteps ==
  ASSUME NEW n \in Nat, NEW s, NEW f, \A l \in 1 .. n : f[s[l]] \in Nat
  PROVE  /\ Steps(Growth(f, s, n), n)
         /\ \A l \in 1 .. n : Growth(f, s, n)[l] = Growth(f, s, n)[l - 1] + f[s[l]]
<1> DEFINE C == Growth(f, s, n)
           T == {m \in Nat : m <= n => Upto(f, s, m) \in Nat}
<1>1. Upto(f, s, 0) = 0
  BY SumZero DEF Upto
<1>2. 0 \in T
  BY <1>1
<1>3. \A m \in T : m + 1 \in T
  <2> SUFFICES ASSUME NEW m \in T, m + 1 <= n PROVE Upto(f, s, m + 1) \in Nat
    OBVIOUS
  <2>1. m \in Nat /\ m + 1 \in 1 .. n /\ Upto(f, s, m) \in Nat /\ \A j \in 1 .. m + 1 : f[s[j]] \in Nat
    OBVIOUS
  <2> QED BY <2>1, UptoNext
<1>4. \A m \in 0 .. n : Upto(f, s, m) \in Nat
  <2> HIDE DEF T
  <2>1. T = Nat
    BY <1>2, <1>3, Induct DEF T
  <2> QED BY <2>1 DEF T
<1>5. \A l \in 0 .. n : C[l] = Upto(f, s, l)
  BY DEF Growth
<1> HIDE DEF C, T
<1>6. ASSUME NEW l \in 1 .. n PROVE C[l] = C[l - 1] + f[s[l]]
  <2>1. l - 1 \in Nat /\ (l - 1) + 1 = l /\ l - 1 \in 0 .. n /\ l \in 0 .. n /\ \A j \in 1 .. (l - 1) + 1 : f[s[j]] \in Nat
    OBVIOUS
  <2>2. Upto(f, s, (l - 1) + 1) = Upto(f, s, l - 1) + f[s[(l - 1) + 1]]
    BY <2>1, UptoNext
  <2> QED BY <1>5, <2>1, <2>2
<1>7. ASSUME NEW l \in 1 .. n PROVE C[l - 1] \in Nat /\ C[l] \in Nat /\ C[l - 1] <= C[l]
  <2>1. l - 1 \in 0 .. n /\ l \in 0 .. n /\ f[s[l]] \in Nat
    OBVIOUS
  <2>2. C[l - 1] \in Nat /\ C[l] \in Nat
    BY <1>4, <1>5, <2>1
  <2> QED BY <1>6, <2>1, <2>2
<1>8. C[0] = 0
  BY <1>1, <1>5
<1>9. Steps(C, n)
  BY <1>7, <1>8 DEF Steps
<1> QED BY <1>6, <1>9 DEF C
-----------------------------------------------------------------------------
LEMMA SettledType ==
  ASSUME LedgerAssumption, NEW v \in Invoice
  PROVE  Settled(v) \in Nat /\ Settled(v) = v.outside + Full(v.by, MaxEntry) /\ Full(v.by, MaxEntry) \in Nat
<1>1. MaxEntry \in Nat /\ v.outside \in Nat /\ v.by \in [0 .. MaxEntry -> Nat]
  BY DEF LedgerAssumption, Invoice
<1>2. SumTo(v.by, MaxEntry) \in Nat
  BY <1>1, SumNat
<1> QED BY <1>1, <1>2 DEF Settled, Full

LEMMA RemainingType ==
  ASSUME LedgerAssumption, NEW v \in Invoice
  PROVE  Remaining(v) \in Nat
<1>1. Settled(v) \in Nat /\ v.amount \in Nat
  BY SettledType DEF Invoice
<1> QED BY <1>1 DEF Remaining, Minus

(* What allocate is given: unpaid invoices, and entries (or the balance),  *)
(* each once.                                                              *)
Plan(V, dst, K, src, L, credit, cap) ==
  /\ V \in Seq(Invoice)
  /\ Lists(dst, K, Unpaid(V)) /\ Lists(src, L, 0 .. MaxEntry)
  /\ cap \in Nat
  /\ \A l \in 1 .. L : credit[src[l]] \in Nat

Rest(V) == [i \in DOMAIN V |-> Remaining(V[i])]

(* What is asked for, and what there is, up to each place of the lists.    *)
Asked(V, dst, K) == Growth(Rest(V), dst, K)
There(credit, src, L) == Growth(credit, src, L)

LEMMA PlanType ==
  ASSUME LedgerAssumption, NEW V, NEW dst, NEW K, NEW src, NEW L, NEW credit, NEW cap,
         Plan(V, dst, K, src, L, credit, cap)
  PROVE  /\ K \in Nat /\ L \in Nat /\ cap \in Nat /\ MaxEntry \in Nat
         /\ Len(V) \in Nat /\ DOMAIN V = 1 .. Len(V)
         /\ \A k \in 1 .. K : dst[k] \in DOMAIN V /\ V[dst[k]].status = "unpaid"
         /\ \A l \in 1 .. L : src[l] \in 0 .. MaxEntry
BY DEF Plan, Lists, Unpaid, LedgerAssumption

LEMMA PlanAsked ==
  ASSUME LedgerAssumption, NEW V, NEW dst, NEW K, NEW src, NEW L, NEW credit, NEW cap,
         Plan(V, dst, K, src, L, credit, cap)
  PROVE  /\ Steps(Asked(V, dst, K), K)
         /\ \A k \in 1 .. K : /\ Remaining(V[dst[k]]) \in Nat
                              /\ Asked(V, dst, K)[k] = Asked(V, dst, K)[k - 1] + Remaining(V[dst[k]])
<1>1. K \in Nat /\ \A k \in 1 .. K : dst[k] \in DOMAIN V
  BY PlanType
<1>2. \A i \in DOMAIN V : V[i] \in Invoice
  BY DEF Plan
<1>3. \A k \in 1 .. K : Rest(V)[dst[k]] = Remaining(V[dst[k]])
  BY <1>1 DEF Rest
<1>4. \A k \in 1 .. K : Remaining(V[dst[k]]) \in Nat
  BY <1>1, <1>2, RemainingType
<1>5. \A k \in 1 .. K : Rest(V)[dst[k]] \in Nat
  BY <1>3, <1>4
<1>6. Steps(Asked(V, dst, K), K)
  BY <1>1, <1>5, GrowthSteps DEF Asked
<1>7. \A k \in 1 .. K : Asked(V, dst, K)[k] = Asked(V, dst, K)[k - 1] + Rest(V)[dst[k]]
  BY <1>1, <1>5, GrowthSteps DEF Asked
<1> QED BY <1>3, <1>4, <1>6, <1>7

LEMMA PlanThere ==
  ASSUME LedgerAssumption, NEW V, NEW dst, NEW K, NEW src, NEW L, NEW credit, NEW cap,
         Plan(V, dst, K, src, L, credit, cap)
  PROVE  /\ Steps(There(credit, src, L), L)
         /\ \A l \in 1 .. L : /\ credit[src[l]] \in Nat
                              /\ There(credit, src, L)[l] = There(credit, src, L)[l - 1] + credit[src[l]]
<1>1. L \in Nat
  BY PlanType
<1>2. \A l \in 1 .. L : credit[src[l]] \in Nat
  BY DEF Plan
<1>3. Steps(There(credit, src, L), L)
  BY <1>1, <1>2, GrowthSteps DEF There
<1>4. \A l \in 1 .. L : There(credit, src, L)[l] = There(credit, src, L)[l - 1] + credit[src[l]]
  BY <1>1, <1>2, GrowthSteps DEF There
<1> QED BY <1>2, <1>3, <1>4

(* A list has a member in one place.                                       *)
LEMMA PlaceIs ==
  ASSUME NEW s, NEW n, NEW I, Lists(s, n, I), NEW k \in 1 .. n
  PROVE  s[k] \in Range(s) /\ Place(s, s[k]) = k
<1>1. DOMAIN s = 1 .. n /\ \A j \in 1 .. n : s[j] = s[k] => j = k
  BY DEF Lists
<1> QED BY <1>1 DEF Range, Place

(* What source l gives to invoice k is what their stretches have in common. *)
LEMMA LaidCell ==
  ASSUME LedgerAssumption, NEW V, NEW dst, NEW K, NEW src, NEW L, NEW credit, NEW cap,
         Plan(V, dst, K, src, L, credit, cap), NEW k \in 1 .. K, NEW l \in 1 .. L
  PROVE  Laid(V, dst, src, credit, cap)[dst[k]][src[l]] = Common(Asked(V, dst, K)[k - 1], Asked(V, dst, K)[k],
                                       There(credit, src, L)[l - 1], There(credit, src, L)[l], cap)
<1> DEFINE laid == Laid(V, dst, src, credit, cap)
           Part(x, y) == Minus(Min({Upto(Rest(V), dst, x), Upto(credit, src, y), cap}),
                               Max({Upto(Rest(V), dst, x - 1), Upto(credit, src, y - 1)}))
<1>1. \A i \in DOMAIN V, e \in 0 .. MaxEntry :
        laid[i][e] = IF i \in Range(dst) /\ e \in Range(src) THEN Part(Place(dst, i), Place(src, e)) ELSE 0
  BY DEF Laid, Rest
<1> HIDE DEF laid, Part
<1>2. Lists(dst, K, Unpaid(V)) /\ Lists(src, L, 0 .. MaxEntry)
  BY DEF Plan
<1>3. dst[k] \in DOMAIN V /\ src[l] \in 0 .. MaxEntry
  BY PlanType
<1>4. dst[k] \in Range(dst) /\ Place(dst, dst[k]) = k
  BY <1>2, PlaceIs
<1>5. src[l] \in Range(src) /\ Place(src, src[l]) = l
  BY <1>2, PlaceIs
<1>6. laid[dst[k]][src[l]] = Part(k, l)
  BY <1>1, <1>3, <1>4, <1>5
<1>7. K \in Nat /\ L \in Nat
  BY PlanType
<1>8. Asked(V, dst, K)[k - 1] = Upto(Rest(V), dst, k - 1) /\ Asked(V, dst, K)[k] = Upto(Rest(V), dst, k)
  BY <1>7 DEF Asked, Growth
<1>9. There(credit, src, L)[l - 1] = Upto(credit, src, l - 1) /\ There(credit, src, L)[l] = Upto(credit, src, l)
  BY <1>7 DEF There, Growth
<1> QED BY <1>6, <1>8, <1>9 DEF laid, Part, Common, Reach

LEMMA LaidNothing ==
  ASSUME NEW V, NEW dst, NEW src, NEW credit, NEW cap,
         NEW i \in DOMAIN V, NEW e \in 0 .. MaxEntry, i \notin Range(dst) \/ e \notin Range(src)
  PROVE  Laid(V, dst, src, credit, cap)[i][e] = 0
BY DEF Laid

LEMMA CommonType ==
  ASSUME NEW a, NEW b, NEW c, NEW d, NEW cap, {a, b, c, d, cap} \subseteq Nat
  PROVE  Common(a, b, c, d, cap) \in Nat
<1>1. Min({b, d, cap}) \in {b, d, cap} /\ Max({a, c}) \in {a, c}
  BY MinType, MaxType
<1>2. Min({b, d, cap}) \in Nat /\ Max({a, c}) \in Nat
  BY <1>1
<1> QED BY <1>2 DEF Common, Reach, Minus

LEMMA CommonTurned ==
  ASSUME NEW a, NEW b, NEW c, NEW d, NEW cap
  PROVE  Common(a, b, c, d, cap) = Common(c, d, a, b, cap)
<1>1. {b, d, cap} = {d, b, cap} /\ {a, c} = {c, a}
  OBVIOUS
<1> QED BY <1>1 DEF Common, Reach

(* Money is laid up to what is there: along one invoice, ...               *)
LEMMA LaidRow ==
  ASSUME LedgerAssumption, NEW V, NEW dst, NEW K, NEW src, NEW L, NEW credit, NEW cap,
         Plan(V, dst, K, src, L, credit, cap), NEW k \in 1 .. K
  PROVE  Full(Laid(V, dst, src, credit, cap)[dst[k]], MaxEntry)
           = Minus(Reach(Asked(V, dst, K)[k], There(credit, src, L)[L], cap), Asked(V, dst, K)[k - 1])
<1> DEFINE C == There(credit, src, L)
           a == Asked(V, dst, K)[k - 1]
           b == Asked(V, dst, K)[k]
           g == [l \in 1 .. L |-> Common(a, b, C[l - 1], C[l], cap)]
           h == Laid(V, dst, src, credit, cap)[dst[k]]
<1>1. K \in Nat /\ L \in Nat /\ MaxEntry \in Nat /\ cap \in Nat
  BY PlanType
<1>2. a \in Nat /\ b \in Nat /\ a <= b
  BY PlanAsked DEF Steps
<1>3. Steps(C, L)
  BY PlanThere
<1>5. \A l \in 1 .. L : h[src[l]] = g[l]
  BY LaidCell
<1>6. \A e \in 0 .. MaxEntry : (\A l \in 1 .. L : src[l] # e) => h[e] = 0
  <2>1. Range(src) = {src[l] : l \in 1 .. L} /\ dst[k] \in DOMAIN V
    BY PlanType DEF Plan, Lists, Range
  <2> QED BY <2>1, LaidNothing
<1>7. \A l \in 1 .. L : src[l] \in 0 .. MaxEntry
  BY PlanType
<1>8. \A j, l \in 1 .. L : src[j] = src[l] => j = l
  BY DEF Plan, Lists
<1> HIDE DEF h, C, a, b
<1>10. \A l \in 1 .. L : g[l] = Common(a, b, C[l - 1], C[l], cap)
  OBVIOUS
<1>11. \A l \in 1 .. L : g[l] \in Nat
  BY <1>1, <1>2, <1>3, <1>10, CommonType DEF Steps
<1> HIDE DEF g
<1>12. Full(h, MaxEntry) = SumTo(g, L)
  <2>1. Puts(src, L, g, h, MaxEntry)
    BY <1>1, <1>5, <1>6, <1>7, <1>8, <1>11 DEF Puts
  <2> QED BY <2>1, Relabel
<1>13. SumTo(g, L) = Minus(Reach(b, C[L], cap), a)
  BY <1>1, <1>2, <1>3, <1>10, LaidAlong
<1> QED BY <1>12, <1>13 DEF h, a, b, C

(* ... from one source, ...                                                *)
LEMMA LaidColumn ==
  ASSUME LedgerAssumption, NEW V, NEW dst, NEW K, NEW src, NEW L, NEW credit, NEW cap,
         Plan(V, dst, K, src, L, credit, cap), NEW l \in 1 .. L
  PROVE  SumTo([i \in DOMAIN V |-> Laid(V, dst, src, credit, cap)[i][src[l]]], Len(V))
           = Minus(Reach(There(credit, src, L)[l], Asked(V, dst, K)[K], cap), There(credit, src, L)[l - 1])
<1> DEFINE laid == Laid(V, dst, src, credit, cap)
           N == Len(V)
           C == Asked(V, dst, K)
           a == There(credit, src, L)[l - 1]
           b == There(credit, src, L)[l]
           f == [i \in DOMAIN V |-> laid[i][src[l]]]
           g == [k \in 1 .. K |-> Common(a, b, C[k - 1], C[k], cap)]
           h == [i \in 0 .. N |-> IF i = 0 THEN 0 ELSE f[i]]
<1>1. K \in Nat /\ L \in Nat /\ N \in Nat /\ cap \in Nat /\ DOMAIN V = 1 .. N
  BY PlanType
<1>2. a \in Nat /\ b \in Nat /\ a <= b
  BY PlanThere DEF Steps
<1>3. Steps(C, K)
  BY PlanAsked
<1>4. \A k \in 1 .. K : dst[k] \in 1 .. N /\ C[k - 1] \in Nat /\ C[k] \in Nat
  BY <1>1, <1>3, PlanType DEF Steps
<1>5. \A k \in 1 .. K : laid[dst[k]][src[l]] = Common(C[k - 1], C[k], a, b, cap)
  BY LaidCell
<1>6. \A i \in DOMAIN V : (\A k \in 1 .. K : dst[k] # i) => laid[i][src[l]] = 0
  <2>1. Range(dst) = {dst[k] : k \in 1 .. K} /\ src[l] \in 0 .. MaxEntry
    BY PlanType DEF Plan, Lists, Range
  <2> QED BY <2>1, LaidNothing
<1>7. \A j, k \in 1 .. K : dst[j] = dst[k] => j = k
  BY DEF Plan, Lists
<1> HIDE DEF laid, C, a, b, N
<1>8. \A k \in 1 .. K : g[k] \in Nat /\ h[dst[k]] = g[k]
  <2> SUFFICES ASSUME NEW k \in 1 .. K PROVE g[k] \in Nat /\ h[dst[k]] = g[k]
    OBVIOUS
  <2>1. /\ Common(C[k - 1], C[k], a, b, cap) \in Nat
        /\ Common(C[k - 1], C[k], a, b, cap) = Common(a, b, C[k - 1], C[k], cap)
    <3>1. {C[k - 1], C[k], a, b, cap} \subseteq Nat
      BY <1>1, <1>2, <1>4
    <3>2. Common(C[k - 1], C[k], a, b, cap) \in Nat
      BY <3>1, CommonType, Zenon
    <3>3. Common(C[k - 1], C[k], a, b, cap) = Common(a, b, C[k - 1], C[k], cap)
      BY CommonTurned
    <3> QED BY <3>2, <3>3
  <2>2. h[dst[k]] = laid[dst[k]][src[l]] /\ g[k] = Common(a, b, C[k - 1], C[k], cap)
    BY <1>1, <1>4
  <2> HIDE DEF g, h
  <2> QED BY <1>5, <2>1, <2>2
<1>9. /\ h[0] = 0 /\ \A i \in 1 .. N : h[i] = f[i]
      /\ \A i \in 0 .. N : (\A k \in 1 .. K : dst[k] # i) => h[i] = 0
  BY <1>1, <1>6
<1>10. \A k \in 1 .. K : g[k] = Common(a, b, C[k - 1], C[k], cap)
  OBVIOUS
<1> HIDE DEF f, g, h
<1>11. \A i \in 1 .. N : f[i] \in Nat /\ h[i] \in Nat
  BY <1>8, <1>9
<1>12. Full(h, N) = SumTo(g, K)
  <2>1. Puts(dst, K, g, h, N)
    BY <1>1, <1>4, <1>7, <1>8, <1>9 DEF Puts
  <2> QED BY <2>1, Relabel
<1>13. SumTo(g, K) = Minus(Reach(b, C[K], cap), a)
  BY <1>1, <1>2, <1>3, <1>10, LaidAlong
<1>14. Full(h, N) = SumTo(f, N)
  <2>1. SumTo(h, N) = SumTo(f, N) /\ SumTo(f, N) \in Nat
    BY <1>1, <1>9, <1>11, SumSame, SumNat
  <2> QED BY <1>9, <2>1 DEF Full
<1> QED BY <1>12, <1>13, <1>14 DEF f, a, b, N, C, laid

(* ... and in all.                                                         *)
LEMMA LaidTotal ==
  ASSUME LedgerAssumption, NEW V, NEW dst, NEW K, NEW src, NEW L, NEW credit, NEW cap,
         Plan(V, dst, K, src, L, credit, cap)
  PROVE  SumTo([i \in DOMAIN V |-> Full(Laid(V, dst, src, credit, cap)[i], MaxEntry)], Len(V))
           = Reach(There(credit, src, L)[L], Asked(V, dst, K)[K], cap)
<1> DEFINE laid == Laid(V, dst, src, credit, cap)
           N == Len(V)
           C == Asked(V, dst, K)
           b == There(credit, src, L)[L]
           f == [i \in DOMAIN V |-> Full(laid[i], MaxEntry)]
           g == [k \in 1 .. K |-> Common(0, b, C[k - 1], C[k], cap)]
           h == [i \in 0 .. N |-> IF i = 0 THEN 0 ELSE f[i]]
<1>1. K \in Nat /\ L \in Nat /\ N \in Nat /\ cap \in Nat /\ DOMAIN V = 1 .. N /\ MaxEntry \in Nat
  BY PlanType
<1>2. b \in Nat
  BY <1>1, PlanThere, StepsType
<1>3. Steps(C, K)
  BY PlanAsked
<1>4. \A k \in 1 .. K : dst[k] \in 1 .. N /\ C[k - 1] \in Nat /\ C[k] \in Nat
  BY <1>1, <1>3, PlanType DEF Steps
<1>5. \A k \in 1 .. K : Full(laid[dst[k]], MaxEntry) = Minus(Reach(C[k], b, cap), C[k - 1])
  BY LaidRow
<1>6. \A i \in DOMAIN V : (\A k \in 1 .. K : dst[k] # i) => Full(laid[i], MaxEntry) = 0
  <2>1. Range(dst) = {dst[k] : k \in 1 .. K}
    BY DEF Plan, Lists, Range
  <2>2. \A i \in DOMAIN V, e \in 0 .. MaxEntry : i \notin Range(dst) => laid[i][e] = 0
    BY LaidNothing
  <2> HIDE DEF laid
  <2> QED BY <1>1, <2>1, <2>2, SumNone DEF Full
<1>7. \A j, k \in 1 .. K : dst[j] = dst[k] => j = k
  BY DEF Plan, Lists
<1> HIDE DEF laid, C, b, N
<1>8. \A k \in 1 .. K : g[k] \in Nat /\ h[dst[k]] = g[k]
  <2> SUFFICES ASSUME NEW k \in 1 .. K PROVE g[k] \in Nat /\ h[dst[k]] = g[k]
    OBVIOUS
  <2>1. Common(0, b, C[k - 1], C[k], cap) \in Nat
    <3>1. {0, b, C[k - 1], C[k], cap} \subseteq Nat
      BY <1>1, <1>2, <1>4
    <3> QED BY <3>1, CommonType, Zenon
  <2>2. Max({0, C[k - 1]}) = C[k - 1] /\ {C[k], b, cap} = {b, C[k], cap}
    BY <1>4, MaxType
  <2>3. Common(0, b, C[k - 1], C[k], cap) = Minus(Reach(C[k], b, cap), C[k - 1])
    BY <2>2 DEF Common, Reach
  <2>4. h[dst[k]] = Full(laid[dst[k]], MaxEntry) /\ g[k] = Common(0, b, C[k - 1], C[k], cap)
    BY <1>1, <1>4
  <2> HIDE DEF g, h
  <2> QED BY <1>5, <2>1, <2>3, <2>4
<1>9. /\ h[0] = 0 /\ \A i \in 1 .. N : h[i] = f[i]
      /\ \A i \in 0 .. N : (\A k \in 1 .. K : dst[k] # i) => h[i] = 0
  BY <1>1, <1>6
<1>10. \A k \in 1 .. K : g[k] = Common(0, b, C[k - 1], C[k], cap)
  OBVIOUS
<1> HIDE DEF f, g, h
<1>11. \A i \in 1 .. N : f[i] \in Nat /\ h[i] \in Nat
  BY <1>8, <1>9
<1>12. Full(h, N) = SumTo(g, K)
  <2>1. Puts(dst, K, g, h, N)
    BY <1>1, <1>4, <1>7, <1>8, <1>9 DEF Puts
  <2> QED BY <2>1, Relabel
<1>13. SumTo(g, K) = Minus(Reach(b, C[K], cap), 0)
  BY <1>1, <1>2, <1>3, <1>10, LaidAlong
<1>14. Full(h, N) = SumTo(f, N)
  <2>1. SumTo(h, N) = SumTo(f, N) /\ SumTo(f, N) \in Nat
    BY <1>1, <1>9, <1>11, SumSame, SumNat
  <2> QED BY <1>9, <2>1 DEF Full
<1>15. Minus(Reach(b, C[K], cap), 0) = Reach(b, C[K], cap)
  <2>1. C[K] \in Nat
    BY <1>1, <1>3, StepsType
  <2>2. Min({b, C[K], cap}) \in {b, C[K], cap}
    BY <1>1, <1>2, <2>1, MinType
  <2>3. Min({b, C[K], cap}) \in Nat
    BY <1>1, <1>2, <2>1, <2>2
  <2> QED BY <2>3 DEF Minus, Reach
<1> QED BY <1>12, <1>13, <1>14, <1>15 DEF f, b, N, C, laid
-----------------------------------------------------------------------------
(* 3. The account.                                                         *)

(* Entry e is money that may settle invoices.                              *)
Gives(E, e) == e \in DOMAIN E /\ E[e].kind \in Reducing /\ ~E[e].void

(* An invoice is settled by live money up to its amount, and its status    *)
(* says how far.                                                           *)
RowSound(E, v) ==
  /\ v.amount > 0
  /\ Settled(v) <= v.amount
  /\ v.status = "paid" <=> Settled(v) = v.amount
  /\ v.status = "voided" => v.outside = 0 /\ \A e \in 0 .. MaxEntry : v.by[e] = 0
  /\ \A e \in 1 .. MaxEntry : v.by[e] # 0 => Gives(E, e)
  /\ v.charge # 0 => v.charge \in DOMAIN E /\ E[v.charge].kind = "charge"

Rows(E, V) ==
  /\ E \in Seq(Entry) /\ Len(E) <= MaxEntry
  /\ V \in Seq(Invoice) /\ Len(V) <= MaxInvoice

Sound(E, V) ==
  /\ Rows(E, V)
  /\ \A i \in DOMAIN V : RowSound(E, V[i])
  /\ \A e \in DOMAIN E : E[e].kind # "checkout" => Given(V, e) <= E[e].amount

LedgerInv == TypeOK /\ Sound(entry, invoice)
-----------------------------------------------------------------------------
(* refresh                                                                 *)
LEMMA RefreshedIs ==
  ASSUME LedgerAssumption, NEW u \in Invoice, Settled(u) <= u.amount
  PROVE  LET w == Refreshed(u) IN
         /\ w \in Invoice
         /\ w.amount = u.amount /\ w.charge = u.charge /\ w.by = u.by /\ w.outside = u.outside
         /\ Settled(w) = Settled(u)
         /\ u.status = "voided" => w = u
         /\ u.status # "voided" => w.status = IF Settled(u) = u.amount THEN "paid"
                                              ELSE IF u.status = "paid" THEN "unpaid" ELSE u.status
<1> DEFINE w == Refreshed(u)
           s == IF u.status = "voided" THEN "voided"
                ELSE IF Settled(u) = u.amount THEN "paid"
                ELSE IF u.status = "paid" THEN "unpaid" ELSE u.status
<1>1. Settled(u) \in Nat /\ u.amount \in Nat
  BY SettledType DEF Invoice
<1>2. w = [u EXCEPT !.status = s]
  <2>1. CASE u.status = "voided"
    BY <2>1 DEF Refreshed, Invoice
  <2>2. CASE u.status # "voided" /\ Settled(u) = u.amount
    BY <1>1, <2>2 DEF Refreshed
  <2>3. CASE u.status # "voided" /\ Settled(u) # u.amount
    <3>1. Settled(u) < u.amount /\ ~ (Settled(u) >= u.amount)
      BY <1>1, <2>3
    <3>2. CASE u.status = "paid"
      BY <3>1, <3>2 DEF Refreshed
    <3>3. CASE u.status # "paid"
      BY <2>3, <3>1, <3>3 DEF Refreshed
    <3> QED BY <3>2, <3>3
  <2> QED BY <2>1, <2>2, <2>3
<1> HIDE DEF w
<1>3. /\ w \in Invoice
      /\ w.amount = u.amount /\ w.charge = u.charge /\ w.by = u.by /\ w.outside = u.outside
      /\ w.status = s
  BY <1>2 DEF Invoice
<1>4. Settled(w) = Settled(u)
  BY <1>3 DEF Settled
<1>5. u.status = "voided" => w = u
  BY <1>2 DEF Invoice
<1> QED BY <1>3, <1>4, <1>5 DEF w

(* A row that is refreshed after its money changed is sound again.         *)
LEMMA RefreshedSound ==
  ASSUME LedgerAssumption, NEW E, NEW u \in Invoice, u.amount > 0, Settled(u) <= u.amount,
         u.status # "voided",
         \A e \in 1 .. MaxEntry : u.by[e] # 0 => Gives(E, e),
         u.charge # 0 => u.charge \in DOMAIN E /\ E[u.charge].kind = "charge"
  PROVE  LET w == Refreshed(u) IN
         /\ w \in Invoice /\ RowSound(E, w)
         /\ w.amount = u.amount /\ w.charge = u.charge /\ w.by = u.by /\ w.outside = u.outside
         /\ Settled(w) = Settled(u)
         /\ w.status = IF Settled(u) = u.amount THEN "paid"
                       ELSE IF u.status = "paid" THEN "unpaid" ELSE u.status
<1> DEFINE w == Refreshed(u)
<1>1. /\ w \in Invoice
      /\ w.amount = u.amount /\ w.charge = u.charge /\ w.by = u.by /\ w.outside = u.outside
      /\ Settled(w) = Settled(u)
      /\ w.status = IF Settled(u) = u.amount THEN "paid"
                    ELSE IF u.status = "paid" THEN "unpaid" ELSE u.status
  BY RefreshedIs
<1> HIDE DEF w
<1>2. w.status # "voided" /\ (w.status = "paid" <=> Settled(w) = w.amount)
  BY <1>1
<1>3. RowSound(E, w)
  BY <1>1, <1>2 DEF RowSound
<1> QED BY <1>1, <1>3 DEF w

(* What remains of a row.                                                  *)
LEMMA RemainingIs ==
  ASSUME LedgerAssumption, NEW E, NEW v \in Invoice, RowSound(E, v)
  PROVE  /\ v.status # "voided" => Remaining(v) = v.amount - Settled(v)
         /\ v.status = "voided" => Remaining(v) = 0
         /\ v.status \in {"unpaid", "pending"} => Remaining(v) > 0
         /\ Remaining(v) \in Nat
<1>1. Settled(v) \in Nat /\ v.amount \in Nat /\ v.status \in {"unpaid", "pending", "paid", "voided"}
  BY SettledType DEF Invoice
<1> QED BY <1>1 DEF RowSound, Remaining, Minus

(* Money is laid on an unpaid invoice.                                     *)
Added(v, h) == Refreshed([v EXCEPT !.by = [e \in DOMAIN @ |-> @[e] + h[e]]])

Lays(E, v, h) ==
  /\ v \in Invoice /\ RowSound(E, v) /\ v.status \in {"unpaid", "pending"}
  /\ h \in [0 .. MaxEntry -> Nat] /\ Full(h, MaxEntry) <= Remaining(v)
  /\ \A e \in 1 .. MaxEntry : h[e] # 0 => Gives(E, e)

LaidOn(E, v, h, w) ==
  /\ w \in Invoice /\ RowSound(E, w)
  /\ w.status \in {v.status, "paid"}
  /\ \A e \in 0 .. MaxEntry : w.by[e] = v.by[e] + h[e]
  /\ Remaining(v) = Remaining(w) + Full(h, MaxEntry)

LEMMA AddedRow ==
  ASSUME LedgerAssumption, NEW E, NEW v, NEW h, Lays(E, v, h)
  PROVE  LaidOn(E, v, h, Added(v, h))
<1> DEFINE w == Added(v, h)
<1> USE DEF Lays
<1> DEFINE b == [e \in 0 .. MaxEntry |-> v.by[e] + h[e]]
           u == [v EXCEPT !.by = b]
<1>1. MaxEntry \in Nat /\ v.by \in [0 .. MaxEntry -> Nat]
  BY DEF LedgerAssumption, Invoice
<1>2. b = [e \in DOMAIN v.by |-> v.by[e] + h[e]] /\ b \in [0 .. MaxEntry -> Nat]
  BY <1>1
<1>0. w = Refreshed(u)
  BY <1>2 DEF Added
<1> HIDE DEF w
<1>3. Full(b, MaxEntry) = Full(v.by, MaxEntry) + Full(h, MaxEntry) /\ Full(h, MaxEntry) \in Nat
  <2>1. \A e \in 1 .. MaxEntry : v.by[e] \in Nat /\ h[e] \in Nat /\ b[e] = v.by[e] + h[e]
    BY <1>1
  <2>2. b[0] = v.by[0] + h[0] /\ v.by[0] \in Nat /\ h[0] \in Nat
    BY <1>1
  <2> HIDE DEF b
  <2>3. SumTo(b, MaxEntry) = SumTo(v.by, MaxEntry) + SumTo(h, MaxEntry)
    BY <1>1, <2>1, SumAdd
  <2>4. SumTo(v.by, MaxEntry) \in Nat /\ SumTo(h, MaxEntry) \in Nat
    BY <1>1, <2>1, SumNat
  <2> QED BY <2>2, <2>3, <2>4 DEF Full
<1> HIDE DEF b
<1>4. /\ u \in Invoice /\ u.amount = v.amount /\ u.charge = v.charge /\ u.outside = v.outside
      /\ u.status = v.status /\ u.by = b
  BY <1>2 DEF Invoice
<1> HIDE DEF u
<1>5. Settled(u) = Settled(v) + Full(h, MaxEntry) /\ Settled(v) \in Nat
  <2>1. Settled(v) = v.outside + Full(v.by, MaxEntry) /\ Full(v.by, MaxEntry) \in Nat /\ Settled(v) \in Nat
    BY SettledType
  <2>2. Settled(u) = u.outside + Full(b, MaxEntry)
    BY <1>4, SettledType
  <2>3. v.outside \in Nat
    BY DEF Invoice
  <2> QED BY <1>3, <1>4, <2>1, <2>2, <2>3
<1>6. Remaining(v) = v.amount - Settled(v) /\ v.amount \in Nat
  BY RemainingIs DEF Invoice
<1>7. Settled(u) <= u.amount
  BY <1>3, <1>4, <1>5, <1>6
<1>8. \A e \in 1 .. MaxEntry : u.by[e] # 0 => Gives(E, e)
  <2> SUFFICES ASSUME NEW e \in 1 .. MaxEntry, u.by[e] # 0 PROVE Gives(E, e)
    OBVIOUS
  <2>1. u.by[e] = v.by[e] + h[e] /\ v.by[e] \in Nat /\ h[e] \in Nat
    BY <1>1, <1>4 DEF b
  <2>2. v.by[e] # 0 \/ h[e] # 0
    BY <2>1
  <2> QED BY <2>2 DEF RowSound
<1>9. /\ w \in Invoice /\ RowSound(E, w)
      /\ w.amount = u.amount /\ w.by = u.by /\ w.outside = u.outside
      /\ Settled(w) = Settled(u)
      /\ w.status = IF Settled(u) = u.amount THEN "paid"
                    ELSE IF u.status = "paid" THEN "unpaid" ELSE u.status
  <2>1. u.amount > 0 /\ u.status # "voided"
    BY <1>4 DEF RowSound
  <2>2. u.charge # 0 => u.charge \in DOMAIN E /\ E[u.charge].kind = "charge"
    BY <1>4 DEF RowSound
  <2>3. u \in Invoice
    BY <1>4
  <2> QED BY <1>0, <1>7, <1>8, <2>1, <2>2, <2>3, RefreshedSound
<1>10. w.status \in {v.status, "paid"}
  BY <1>4, <1>9
<1>11. Remaining(w) = w.amount - Settled(w)
  BY <1>9, <1>10, RemainingIs
<1>12. Remaining(v) = Remaining(w) + Full(h, MaxEntry)
  BY <1>3, <1>4, <1>5, <1>6, <1>9, <1>11
<1>13. \A e \in 0 .. MaxEntry : w.by[e] = v.by[e] + h[e]
  BY <1>4, <1>9 DEF b
<1> QED BY <1>9, <1>10, <1>12, <1>13 DEF LaidOn, w
-----------------------------------------------------------------------------
LEMMA LaidType ==
  ASSUME LedgerAssumption, NEW V, NEW dst, NEW K, NEW src, NEW L, NEW credit, NEW cap,
         Plan(V, dst, K, src, L, credit, cap), NEW i \in DOMAIN V
  PROVE  LET h == Laid(V, dst, src, credit, cap)[i] IN
         /\ h \in [0 .. MaxEntry -> Nat]
         /\ \A e \in 0 .. MaxEntry : h[e] # 0 => V[i].status = "unpaid" /\ \E l \in 1 .. L : src[l] = e
         /\ Full(h, MaxEntry) \in Nat
         /\ V[i].status = "unpaid" => Full(h, MaxEntry) <= Remaining(V[i])
         /\ V[i].status # "unpaid" => Full(h, MaxEntry) = 0
<1> DEFINE h == Laid(V, dst, src, credit, cap)[i]
           A == Asked(V, dst, K)
           C == There(credit, src, L)
<1>1. /\ K \in Nat /\ L \in Nat /\ cap \in Nat /\ MaxEntry \in Nat
      /\ \A k \in 1 .. K : V[dst[k]].status = "unpaid"
  BY PlanType
<1>2. /\ Steps(A, K) /\ Steps(C, L)
      /\ \A k \in 1 .. K : Remaining(V[dst[k]]) \in Nat /\ A[k] = A[k - 1] + Remaining(V[dst[k]])
  BY PlanAsked, PlanThere
<1>3. Range(dst) = {dst[k] : k \in 1 .. K} /\ Range(src) = {src[l] : l \in 1 .. L}
  BY DEF Plan, Lists, Range
<1>4. \A e \in 0 .. MaxEntry : i \notin Range(dst) \/ e \notin Range(src) => h[e] = 0
  BY LaidNothing
<1>5. \A k \in 1 .. K, l \in 1 .. L : i = dst[k] => h[src[l]] = Common(A[k - 1], A[k], C[l - 1], C[l], cap)
  BY LaidCell
<1>6. \A k \in 1 .. K : i = dst[k] => Full(h, MaxEntry) = Minus(Reach(A[k], C[L], cap), A[k - 1])
  BY LaidRow
<1>7. DOMAIN h = 0 .. MaxEntry /\ h = [e \in 0 .. MaxEntry |-> h[e]]
  BY DEF Laid
<1>8. Remaining(V[i]) \in Nat
  BY RemainingType DEF Plan
<1>9. C[L] \in Nat
  BY <1>1, <1>2, StepsType
<1> HIDE DEF h, A, C
<1>10. ASSUME NEW e \in 0 .. MaxEntry PROVE h[e] \in Nat
  <2>1. CASE i \notin Range(dst) \/ e \notin Range(src)
    BY <1>4, <2>1
  <2>2. CASE i \in Range(dst) /\ e \in Range(src)
    <3>1. PICK k \in 1 .. K, l \in 1 .. L : i = dst[k] /\ e = src[l]
      BY <1>3, <2>2
    <3>2. {A[k - 1], A[k], C[l - 1], C[l], cap} \subseteq Nat
      BY <1>1, <1>2 DEF Steps
    <3>3. Common(A[k - 1], A[k], C[l - 1], C[l], cap) \in Nat
      BY <3>2, CommonType, Zenon
    <3> QED BY <1>5, <3>1, <3>3
  <2> QED BY <2>1, <2>2
<1>11. \A e \in 0 .. MaxEntry : h[e] # 0 => V[i].status = "unpaid" /\ \E l \in 1 .. L : src[l] = e
  BY <1>1, <1>3, <1>4
<1>12. h \in [0 .. MaxEntry -> Nat]
  BY <1>7, <1>10
<1>13. CASE i \notin Range(dst)
  <2>1. \A e \in 0 .. MaxEntry : h[e] = 0
    BY <1>4, <1>13
  <2>2. Full(h, MaxEntry) = 0
    BY <1>1, <2>1, SumNone DEF Full
  <2> QED BY <1>8, <1>11, <1>12, <2>2 DEF h
<1>14. CASE i \in Range(dst)
  <2>1. PICK k \in 1 .. K : i = dst[k]
    BY <1>3, <1>14
  <2>2. A[k] \in Nat /\ A[k - 1] \in Nat /\ A[k] = A[k - 1] + Remaining(V[i])
    BY <1>2, <2>1 DEF Steps
  <2>3. Reach(A[k], C[L], cap) \in {A[k], C[L], cap} /\ Reach(A[k], C[L], cap) <= A[k]
    BY <1>1, <1>9, <2>2, MinType DEF Reach
  <2>4. Reach(A[k], C[L], cap) \in Nat
    BY <1>1, <1>9, <2>2, <2>3
  <2>5. Full(h, MaxEntry) = Minus(Reach(A[k], C[L], cap), A[k - 1])
    BY <1>6, <2>1
  <2>6. Full(h, MaxEntry) \in Nat /\ Full(h, MaxEntry) <= Remaining(V[i])
    BY <1>8, <2>2, <2>3, <2>4, <2>5 DEF Minus
  <2>7. V[i].status = "unpaid"
    BY <1>1, <2>1
  <2> QED BY <1>11, <1>12, <2>6, <2>7 DEF h
<1> QED BY <1>13, <1>14

(* A source gives no more than it has.                                     *)
LEMMA ColumnWithin ==
  ASSUME LedgerAssumption, NEW V, NEW dst, NEW K, NEW src, NEW L, NEW credit, NEW cap,
         Plan(V, dst, K, src, L, credit, cap), NEW l \in 1 .. L
  PROVE  /\ SumTo([i \in DOMAIN V |-> Laid(V, dst, src, credit, cap)[i][src[l]]], Len(V)) \in Nat
         /\ SumTo([i \in DOMAIN V |-> Laid(V, dst, src, credit, cap)[i][src[l]]], Len(V)) <= credit[src[l]]
<1> DEFINE A == Asked(V, dst, K)
           C == There(credit, src, L)
           f == [i \in DOMAIN V |-> Laid(V, dst, src, credit, cap)[i][src[l]]]
<1>1. K \in Nat /\ L \in Nat /\ cap \in Nat
  BY PlanType
<1>2. A[K] \in Nat
  <2>1. Steps(A, K)
    BY PlanAsked
  <2> QED BY <1>1, <2>1, StepsType
<1>3. C[l] \in Nat /\ C[l - 1] \in Nat /\ C[l] = C[l - 1] + credit[src[l]] /\ credit[src[l]] \in Nat
  BY PlanThere DEF Steps
<1>4. SumTo(f, Len(V)) = Minus(Reach(C[l], A[K], cap), C[l - 1])
  BY LaidColumn
<1> HIDE DEF f, A, C
<1>5. Reach(C[l], A[K], cap) \in {C[l], A[K], cap} /\ Reach(C[l], A[K], cap) <= C[l]
  BY <1>1, <1>2, <1>3, MinType DEF Reach
<1>6. Reach(C[l], A[K], cap) \in Nat
  BY <1>1, <1>2, <1>3, <1>5
<1>7. SumTo(f, Len(V)) \in Nat /\ SumTo(f, Len(V)) <= credit[src[l]]
  BY <1>3, <1>4, <1>5, <1>6 DEF Minus
<1> QED BY <1>7 DEF f

(* allocate keeps the account sound, and what is open falls by what is laid. *)
LEMMA AllocatedSound ==
  ASSUME LedgerAssumption, NEW E, NEW V, NEW dst, NEW K, NEW src, NEW L, NEW credit, NEW cap,
         Plan(V, dst, K, src, L, credit, cap), Sound(E, V),
         \A l \in 1 .. L : src[l] # 0 =>
           /\ Gives(E, src[l])
           /\ E[src[l]].kind # "checkout" => Given(V, src[l]) + credit[src[l]] <= E[src[l]].amount,
         NEW W, W = Allocated(V, dst, src, credit, cap)
  PROVE  /\ Sound(E, W) /\ DOMAIN W = DOMAIN V
         /\ \A i \in DOMAIN V : W[i].status = "pending" => V[i].status = "pending"
         /\ OpenTotal(V) = OpenTotal(W) + Reach(There(credit, src, L)[L], Asked(V, dst, K)[K], cap)
         /\ OpenTotal(W) \in Nat
<1> DEFINE laid == Laid(V, dst, src, credit, cap)
           N == Len(V)
<1>1. MaxEntry \in Nat /\ N \in Nat /\ DOMAIN V = 1 .. N /\ \A i \in 1 .. N : V[i] \in Invoice /\ RowSound(E, V[i])
  BY PlanType DEF Sound, Rows
<1>2. ASSUME NEW i \in 1 .. N
      PROVE  /\ laid[i] \in [0 .. MaxEntry -> Nat]
             /\ \A e \in 0 .. MaxEntry : laid[i][e] # 0 => V[i].status = "unpaid" /\ \E l \in 1 .. L : src[l] = e
             /\ Full(laid[i], MaxEntry) \in Nat
             /\ V[i].status = "unpaid" => Full(laid[i], MaxEntry) <= Remaining(V[i])
             /\ V[i].status # "unpaid" => Full(laid[i], MaxEntry) = 0
  BY <1>1, LaidType
<1>3. DOMAIN W = 1 .. N /\ W = [i \in 1 .. N |-> W[i]]
  BY <1>1 DEF Allocated
<1>4. \A i \in 1 .. N : W[i] = IF V[i].status # "unpaid" THEN V[i]
                              ELSE Refreshed([V[i] EXCEPT !.by = [e \in DOMAIN @ |-> @[e] + laid[i][e]]])
  BY <1>1 DEF Allocated
<1>5. \A i \in 1 .. N, e \in 1 .. MaxEntry : laid[i][e] # 0 => Gives(E, e)
  <2> SUFFICES ASSUME NEW i \in 1 .. N, NEW e \in 1 .. MaxEntry, laid[i][e] # 0 PROVE Gives(E, e)
    OBVIOUS
  <2>1. e \in 0 .. MaxEntry /\ e # 0
    BY <1>1
  <2>2. PICK l \in 1 .. L : src[l] = e
    BY <1>2, <2>1
  <2> QED BY <2>1, <2>2
<1>6. SumTo([i \in DOMAIN V |-> Full(laid[i], MaxEntry)], N)
        = Reach(There(credit, src, L)[L], Asked(V, dst, K)[K], cap)
  BY LaidTotal
<1>7. \A l \in 1 .. L : /\ SumTo([i \in DOMAIN V |-> laid[i][src[l]]], N) \in Nat
                        /\ SumTo([i \in DOMAIN V |-> laid[i][src[l]]], N) <= credit[src[l]]
  BY ColumnWithin
<1>8. \A l \in 1 .. L : credit[src[l]] \in Nat
  BY PlanThere
<1> HIDE DEF laid, N
<1>9. ASSUME NEW i \in 1 .. N
      PROVE  /\ W[i] \in Invoice /\ RowSound(E, W[i])
             /\ Remaining(W[i]) \in Nat
             /\ W[i].status = "pending" => V[i].status = "pending"
             /\ Remaining(V[i]) = Remaining(W[i]) + Full(laid[i], MaxEntry)
             /\ \A e \in 0 .. MaxEntry : W[i].by[e] = V[i].by[e] + laid[i][e]
  <2>1. V[i] \in Invoice /\ RowSound(E, V[i]) /\ Remaining(V[i]) \in Nat
    BY <1>1, RemainingType
  <2>2. CASE V[i].status # "unpaid"
    <3>1. W[i] = V[i] /\ Full(laid[i], MaxEntry) = 0 /\ \A e \in 0 .. MaxEntry : laid[i][e] = 0
      BY <1>2, <1>4, <2>2
    <3>2. \A e \in 0 .. MaxEntry : V[i].by[e] \in Nat
      BY <2>1 DEF Invoice
    <3> QED BY <2>1, <3>1, <3>2
  <2>3. CASE V[i].status = "unpaid"
    <3> DEFINE h == laid[i]
    <3>1. h \in [0 .. MaxEntry -> Nat] /\ Full(h, MaxEntry) <= Remaining(V[i])
      BY <1>2, <2>3
    <3>2. \A e \in 1 .. MaxEntry : h[e] # 0 => Gives(E, e)
      BY <1>5
    <3>3. W[i] = Refreshed([V[i] EXCEPT !.by = [e \in DOMAIN @ |-> @[e] + h[e]]])
      BY <1>4, <2>3
    <3> HIDE DEF h
    <3>4. /\ W[i] \in Invoice /\ RowSound(E, W[i])
          /\ W[i].status \in {V[i].status, "paid"}
          /\ \A e \in 0 .. MaxEntry : W[i].by[e] = V[i].by[e] + h[e]
          /\ Remaining(V[i]) = Remaining(W[i]) + Full(h, MaxEntry)
      <4> DEFINE v == V[i]
                 w == W[i]
      <4>1. v \in Invoice /\ RowSound(E, v) /\ v.status \in {"unpaid", "pending"} /\ Full(h, MaxEntry) <= Remaining(v)
        BY <2>1, <2>3, <3>1
      <4>2. w = Added(v, h)
        BY <3>3 DEF Added
      <4> HIDE DEF v, w
      <4>3. /\ w \in Invoice /\ RowSound(E, w)
            /\ w.status \in {v.status, "paid"}
            /\ \A e \in 0 .. MaxEntry : w.by[e] = v.by[e] + h[e]
            /\ Remaining(v) = Remaining(w) + Full(h, MaxEntry)
        <5>1. Lays(E, v, h)
          BY <3>1, <3>2, <4>1 DEF Lays
        <5>2. LaidOn(E, v, h, w)
          BY <4>2, <5>1, AddedRow
        <5> QED BY <5>2 DEF LaidOn
      <4> QED BY <4>3 DEF v, w
    <3>5. Remaining(W[i]) \in Nat
      BY <3>4, RemainingType
    <3> QED BY <3>4, <3>5 DEF h
  <2> QED BY <2>2, <2>3
<1>10. Rows(E, W)
  <2>1. W \in [1 .. N -> Invoice]
    BY <1>3, <1>9
  <2>2. W \in Seq(Invoice) /\ Len(W) = N
    BY <1>1, <2>1
  <2> QED BY <2>2 DEF Sound, Rows, N
<1>11. ASSUME NEW e \in DOMAIN E, E[e].kind # "checkout"
       PROVE  Given(W, e) <= E[e].amount
  <2> DEFINE f == [i \in 1 .. N |-> V[i].by[e]]
             g == [i \in 1 .. N |-> laid[i][e]]
             s == [i \in 1 .. N |-> W[i].by[e]]
  <2>1. e \in 1 .. MaxEntry /\ e \in 0 .. MaxEntry /\ e # 0
    BY <1>1 DEF Sound, Rows
  <2>2. Len(W) = N /\ DOMAIN W = 1 .. N
    BY <1>1, <1>3, <1>10 DEF Rows
  <2>3. Given(V, e) = SumTo(f, N) /\ Given(W, e) = SumTo(s, N)
    BY <1>1, <2>2 DEF Given, N
  <2>4. \A i \in 1 .. N : f[i] \in Nat /\ g[i] \in Nat /\ s[i] = f[i] + g[i]
    <3> SUFFICES ASSUME NEW i \in 1 .. N PROVE f[i] \in Nat /\ g[i] \in Nat /\ s[i] = f[i] + g[i]
      OBVIOUS
    <3>1. f[i] = V[i].by[e] /\ g[i] = laid[i][e] /\ s[i] = W[i].by[e]
      OBVIOUS
    <3>2. V[i].by \in [0 .. MaxEntry -> Nat]
      BY <1>1 DEF Invoice
    <3>3. V[i].by[e] \in Nat /\ laid[i][e] \in Nat
      BY <1>2, <2>1, <3>2
    <3>4. W[i].by[e] = V[i].by[e] + laid[i][e]
      BY <1>9, <2>1
    <3> QED BY <3>1, <3>3, <3>4
  <2>5. SumTo(f, N) <= E[e].amount
    BY <1>11, <2>3 DEF Sound
  <2>6. E[e].amount \in Nat
    <3>1. E[e] \in Entry
      BY DEF Sound, Rows
    <3> QED BY <3>1 DEF Entry
  <2>7. \A l \in 1 .. L : src[l] = e => SumTo(g, N) \in Nat /\ SumTo(g, N) <= credit[e]
    BY <1>1, <1>7
  <2>8. (\A l \in 1 .. L : src[l] # e) => \A i \in 1 .. N : g[i] = 0
    BY <1>2, <2>1
  <2> HIDE DEF f, g, s
  <2>9. SumTo(s, N) = SumTo(f, N) + SumTo(g, N)
    BY <1>1, <2>4, SumAdd
  <2>10. SumTo(f, N) \in Nat /\ SumTo(g, N) \in Nat
    BY <1>1, <2>4, SumNat
  <2>11. CASE \E l \in 1 .. L : src[l] = e
    <3>1. PICK l \in 1 .. L : src[l] = e
      BY <2>11
    <3>2. SumTo(f, N) + credit[e] <= E[e].amount /\ credit[e] \in Nat
      BY <1>8, <1>11, <2>1, <2>3, <3>1
    <3>3. SumTo(g, N) <= credit[e]
      BY <2>7, <3>1
    <3> QED BY <2>3, <2>6, <2>9, <2>10, <3>2, <3>3
  <2>12. CASE \A l \in 1 .. L : src[l] # e
    <3>1. SumTo(g, N) = 0
      BY <1>1, <2>8, <2>12, SumNone
    <3> QED BY <2>3, <2>5, <2>9, <2>10, <3>1
  <2> QED BY <2>11, <2>12
<1>12. Sound(E, W)
  BY <1>3, <1>9, <1>10, <1>11 DEF Sound
<1>13. /\ OpenTotal(V) = OpenTotal(W) + SumTo([i \in DOMAIN V |-> Full(laid[i], MaxEntry)], N)
       /\ OpenTotal(W) \in Nat
  <2> DEFINE f == [i \in 1 .. N |-> Remaining(W[i])]
             g == [i \in 1 .. N |-> Full(laid[i], MaxEntry)]
             s == [i \in 1 .. N |-> Remaining(V[i])]
  <2>1. Len(W) = N /\ DOMAIN W = 1 .. N
    BY <1>1, <1>3, <1>10 DEF Rows
  <2>2. OpenTotal(V) = SumTo(s, N) /\ OpenTotal(W) = SumTo(f, N)
    BY <1>1, <2>1 DEF OpenTotal, N
  <2>3. \A i \in 1 .. N : f[i] \in Nat /\ g[i] \in Nat /\ s[i] = f[i] + g[i]
    BY <1>2, <1>9
  <2>4. g = [i \in DOMAIN V |-> Full(laid[i], MaxEntry)]
    BY <1>1
  <2> HIDE DEF f, g, s
  <2>5. SumTo(s, N) = SumTo(f, N) + SumTo(g, N)
    BY <1>1, <2>3, SumAdd
  <2>6. SumTo(f, N) \in Nat
    BY <1>1, <2>3, SumNat
  <2> QED BY <2>2, <2>4, <2>5, <2>6
<1> QED BY <1>1, <1>3, <1>6, <1>9, <1>12, <1>13
-----------------------------------------------------------------------------
LEMMA TotalsType ==
  ASSUME LedgerAssumption, NEW E, NEW V, Rows(E, V)
  PROVE  /\ Debt(E) \in Nat /\ OpenTotal(V) \in Nat /\ OutsideTotal(V) \in Nat /\ Excess(E, V) \in Nat
         /\ \A e \in 0 .. MaxEntry : Given(V, e) \in Nat
<1>1. /\ Len(E) \in Nat /\ DOMAIN E = 1 .. Len(E) /\ \A e \in DOMAIN E : E[e] \in Entry
      /\ Len(V) \in Nat /\ DOMAIN V = 1 .. Len(V) /\ \A i \in DOMAIN V : V[i] \in Invoice
  BY DEF Rows
<1>2. ASSUME NEW kinds PROVE Total(E, kinds) \in Nat
  <2> DEFINE f == [e \in DOMAIN E |-> IF E[e].kind \in kinds /\ ~E[e].void THEN E[e].amount ELSE 0]
  <2>1. \A e \in 1 .. Len(E) : f[e] \in Nat
    BY <1>1 DEF Entry
  <2> HIDE DEF f
  <2>2. SumTo(f, Len(E)) \in Nat
    BY <1>1, <2>1, SumNat
  <2> QED BY <2>2 DEF Total, f
<1>3. Debt(E) \in Nat
  <2>1. Total(E, Owing) \in Nat /\ Total(E, Reducing) \in Nat
    BY <1>2
  <2> QED BY <2>1 DEF Debt, Minus
<1>4. OpenTotal(V) \in Nat
  <2> DEFINE f == [i \in DOMAIN V |-> Remaining(V[i])]
  <2>1. \A i \in 1 .. Len(V) : f[i] \in Nat
    BY <1>1, RemainingType
  <2> HIDE DEF f
  <2>2. SumTo(f, Len(V)) \in Nat
    BY <1>1, <2>1, SumNat
  <2> QED BY <2>2 DEF OpenTotal, f
<1>5. OutsideTotal(V) \in Nat
  <2> DEFINE f == [i \in DOMAIN V |-> V[i].outside]
  <2>1. \A i \in 1 .. Len(V) : f[i] \in Nat
    BY <1>1 DEF Invoice
  <2> HIDE DEF f
  <2>2. SumTo(f, Len(V)) \in Nat
    BY <1>1, <2>1, SumNat
  <2> QED BY <2>2 DEF OutsideTotal, f
<1>6. ASSUME NEW e \in 0 .. MaxEntry PROVE Given(V, e) \in Nat
  <2> DEFINE f == [i \in DOMAIN V |-> V[i].by[e]]
  <2>1. \A i \in 1 .. Len(V) : f[i] \in Nat
    BY <1>1 DEF Invoice
  <2> HIDE DEF f
  <2>2. SumTo(f, Len(V)) \in Nat
    BY <1>1, <2>1, SumNat
  <2> QED BY <2>2 DEF Given, f
<1>7. Excess(E, V) \in Nat
  BY <1>3, <1>4 DEF Excess, Minus
<1> QED BY <1>3, <1>4, <1>5, <1>6, <1>7

(* When all unpaid invoices are asked and none is under review, all that   *)
(* is open is asked for.                                                   *)
LEMMA AskedAll ==
  ASSUME LedgerAssumption, NEW V, NEW dst, NEW K, NEW src, NEW L, NEW credit, NEW cap,
         Plan(V, dst, K, src, L, credit, cap),
         \A i \in Unpaid(V) : \E k \in 1 .. K : dst[k] = i,
         \A i \in DOMAIN V : V[i].status # "pending"
  PROVE  Asked(V, dst, K)[K] = OpenTotal(V)
<1> DEFINE N == Len(V)
           f == [i \in DOMAIN V |-> Remaining(V[i])]
           g == [k \in 1 .. K |-> f[dst[k]]]
           h == [i \in 0 .. N |-> IF i = 0 THEN 0 ELSE f[i]]
<1>1. /\ K \in Nat /\ N \in Nat /\ DOMAIN V = 1 .. N
      /\ \A k \in 1 .. K : dst[k] \in 1 .. N
  BY PlanType
<1>2. \A i \in 1 .. N : f[i] \in Nat
  BY <1>1, RemainingType DEF Plan
<1>3. \A j, k \in 1 .. K : dst[j] = dst[k] => j = k
  BY DEF Plan, Lists
<1>4. \A i \in 1 .. N : (\A k \in 1 .. K : dst[k] # i) => f[i] = 0
  BY <1>1 DEF Unpaid, Remaining
<1>5. Asked(V, dst, K)[K] = SumTo(g, K)
  BY <1>1 DEF Asked, Growth, Upto, Rest
<1>6. OpenTotal(V) = SumTo(f, N)
  BY DEF OpenTotal
<1> HIDE DEF f, N
<1>7. \A k \in 1 .. K : dst[k] \in 0 .. N /\ g[k] \in Nat /\ h[dst[k]] = g[k]
  BY <1>1, <1>2
<1>8. /\ h[0] = 0 /\ \A i \in 1 .. N : h[i] = f[i] /\ h[i] \in Nat
      /\ \A i \in 0 .. N : (\A k \in 1 .. K : dst[k] # i) => h[i] = 0
  BY <1>1, <1>2, <1>4
<1> HIDE DEF g, h
<1>9. Puts(dst, K, g, h, N)
  BY <1>1, <1>3, <1>7, <1>8 DEF Puts
<1>10. Full(h, N) = SumTo(g, K)
  BY <1>9, Relabel
<1>11. SumTo(h, N) = SumTo(f, N) /\ SumTo(f, N) \in Nat
  BY <1>1, <1>2, <1>8, SumSame, SumNat
<1> QED BY <1>5, <1>6, <1>8, <1>10, <1>11 DEF Full

(* enforce keeps the account sound; with no invoice under review, nothing  *)
(* is open that the ledger does not ask for.                               *)
LEMMA EnforcedSound ==
  ASSUME LedgerAssumption, NEW E, NEW V, Sound(E, V), NEW from
  PROVE  LET W == Enforced(E, V, from) IN
         /\ Sound(E, W) /\ DOMAIN W = DOMAIN V
         /\ (\A i \in DOMAIN V : V[i].status # "pending") => Excess(E, W) = 0
<1> DEFINE W == Enforced(E, V, from)
           excess == Excess(E, V)
           credit == [e \in 0 .. Len(E) |-> IF e = 0 THEN excess ELSE Credit(E, V, e)]
           dst == Oldest(Unpaid(V))
           K == Cardinality(Unpaid(V))
           S == Sources(E, V, from)
           s == Oldest(S)
           c == Cardinality(S)
           src == Append(s, 0)
<1>1. /\ Len(E) \in Nat /\ DOMAIN E = 1 .. Len(E) /\ Len(E) <= MaxEntry /\ MaxEntry \in Nat
      /\ Len(V) \in Nat /\ DOMAIN V = 1 .. Len(V) /\ V \in Seq(Invoice)
      /\ \A e \in DOMAIN E : E[e] \in Entry
  BY DEF Sound, Rows, LedgerAssumption
<1>2. /\ excess \in Nat /\ excess = Minus(OpenTotal(V), Debt(E)) /\ OpenTotal(V) \in Nat /\ Debt(E) \in Nat
      /\ \A e \in 0 .. MaxEntry : Given(V, e) \in Nat
  BY TotalsType DEF Sound, Excess
<1>3. CASE excess = 0
  <2>1. W = V
    BY <1>3 DEF Enforced
  <2> QED BY <1>3, <2>1
<1>4. CASE excess # 0
  <2>1. W = Allocated(V, dst, src, credit, excess)
    BY <1>4 DEF Enforced
  <2>2. Lists(dst, K, Unpaid(V)) /\ \A i \in Unpaid(V) : \E k \in 1 .. K : dst[k] = i
    <3>1. Unpaid(V) \in SUBSET (1 .. Len(V))
      BY <1>1 DEF Unpaid
    <3> QED BY <1>1, <3>1, OldestLists
  <2>3. Lists(s, c, S)
    BY <1>1, OldestLists DEF Sources
  <2>4. \A e \in S : e \in DOMAIN E /\ Gives(E, e)
    BY DEF Sources, Gives
  <2>5. c \in Nat /\ s \in [1 .. c -> S] /\ \A j, k \in 1 .. c : s[j] = s[k] => j = k
    BY <2>3 DEF Lists
  <2> HIDE DEF s, c, S, dst, K, W, excess
  <2>6. /\ src \in [1 .. c + 1 -> 0 .. MaxEntry] /\ src[c + 1] = 0
        /\ \A j \in 1 .. c : src[j] = s[j] /\ s[j] \in S
    <3>1. S \subseteq 1 .. MaxEntry
      BY <1>1, <2>4
    <3>2. s \in [1 .. c -> 0 .. MaxEntry]
      <4>1. S \subseteq 0 .. MaxEntry
        BY <1>1, <3>1
      <4> QED BY <2>5, <4>1
    <3>3. s \in Seq(0 .. MaxEntry) /\ Len(s) = c
      BY <2>5, <3>2
    <3>4. 0 \in 0 .. MaxEntry
      BY <1>1
    <3>5. src \in Seq(0 .. MaxEntry) /\ Len(src) = c + 1
      BY <3>3, <3>4
    <3>6. src[c + 1] = 0 /\ \A j \in 1 .. c : src[j] = s[j]
      BY <2>5, <3>3
    <3> HIDE DEF src
    <3>7. src \in [1 .. c + 1 -> 0 .. MaxEntry]
      BY <3>5
    <3> QED BY <2>5, <3>6, <3>7
  <2> HIDE DEF src
  <2>7. \A j, k \in 1 .. c + 1 : src[j] = src[k] => j = k
    <3>1. \A j \in 1 .. c : src[j] # 0
      BY <1>1, <2>4, <2>6
    <3> QED BY <2>5, <2>6, <3>1
  <2>8. Lists(src, c + 1, 0 .. MaxEntry)
    BY <2>5, <2>6, <2>7 DEF Lists
  <2>9. credit[0] = excess /\ \A e \in DOMAIN E : credit[e] = Minus(E[e].amount, Given(V, e))
    BY <1>1 DEF Credit
  <2> HIDE DEF credit
  <2>10. \A e \in DOMAIN E : /\ E[e].amount \in Nat /\ Given(V, e) \in Nat /\ credit[e] \in Nat
                             /\ E[e].kind # "checkout" => Given(V, e) + credit[e] <= E[e].amount
    <3> SUFFICES ASSUME NEW e \in DOMAIN E
                 PROVE  /\ E[e].amount \in Nat /\ Given(V, e) \in Nat /\ credit[e] \in Nat
                        /\ E[e].kind # "checkout" => Given(V, e) + credit[e] <= E[e].amount
      OBVIOUS
    <3>1. E[e].amount \in Nat
      BY <1>1 DEF Entry
    <3>2. Given(V, e) \in Nat
      BY <1>1, <1>2
    <3>3. E[e].kind # "checkout" => Given(V, e) <= E[e].amount
      BY DEF Sound
    <3> QED BY <2>9, <3>1, <3>2, <3>3 DEF Minus
  <2>11. \A l \in 1 .. c + 1 : src[l] = 0 \/ (src[l] \in DOMAIN E /\ Gives(E, src[l]))
    BY <2>4, <2>5, <2>6
  <2>12. \A l \in 1 .. c + 1 : credit[src[l]] \in Nat
    BY <1>2, <2>9, <2>10, <2>11
  <2>13. Plan(V, dst, K, src, c + 1, credit, excess)
    BY <1>1, <1>2, <2>2, <2>8, <2>12 DEF Plan
  <2> DEFINE A == Asked(V, dst, K)[K]
             C == There(credit, src, c + 1)[c + 1]
  <2>14. \A l \in 1 .. c + 1 : src[l] # 0 =>
           /\ Gives(E, src[l])
           /\ E[src[l]].kind # "checkout" => Given(V, src[l]) + credit[src[l]] <= E[src[l]].amount
    BY <2>10, <2>11
  <2>15. /\ Sound(E, W) /\ DOMAIN W = DOMAIN V
         /\ OpenTotal(V) = OpenTotal(W) + Reach(C, A, excess) /\ OpenTotal(W) \in Nat
    <3> DEFINE L == c + 1
    <3>1. Plan(V, dst, K, src, L, credit, excess) /\ \A l \in 1 .. L : src[l] # 0 =>
             /\ Gives(E, src[l])
             /\ E[src[l]].kind # "checkout" => Given(V, src[l]) + credit[src[l]] <= E[src[l]].amount
      BY <2>13, <2>14
    <3> HIDE DEF L
    <3>2. /\ Sound(E, W) /\ DOMAIN W = DOMAIN V
          /\ OpenTotal(V) = OpenTotal(W) + Reach(There(credit, src, L)[L], Asked(V, dst, K)[K], excess)
          /\ OpenTotal(W) \in Nat
      BY <2>1, <3>1, AllocatedSound
    <3> QED BY <3>2 DEF L
  <2>16. ASSUME \A i \in DOMAIN V : V[i].status # "pending" PROVE Excess(E, W) = 0
    <3>1. A = OpenTotal(V)
      BY <2>2, <2>13, <2>16, AskedAll
    <3>2. C \in Nat /\ C >= excess
      <4>1. c + 1 \in 1 .. c + 1 /\ c + 1 \in Nat
        BY <2>5
      <4>2. /\ C = There(credit, src, c + 1)[(c + 1) - 1] + credit[src[c + 1]] /\ credit[src[c + 1]] \in Nat
            /\ There(credit, src, c + 1)[(c + 1) - 1] \in Nat /\ C \in Nat
        BY <2>13, <4>1, PlanThere DEF Steps
      <4>3. credit[src[c + 1]] = excess
        BY <2>6, <2>9
      <4> HIDE DEF C
      <4> QED BY <4>2, <4>3
    <3> HIDE DEF A, C
    <3>3. excess <= OpenTotal(V) /\ OpenTotal(V) - excess <= Debt(E)
      BY <1>2, <1>4 DEF Minus
    <3>4. Reach(C, A, excess) = excess
      <4>1. Reach(C, A, excess) \in {C, A, excess} /\ Reach(C, A, excess) <= excess
        BY <1>2, <3>1, <3>2, MinType DEF Reach
      <4> QED BY <1>2, <3>1, <3>2, <3>3, <4>1
    <3>5. OpenTotal(W) <= Debt(E)
      BY <1>2, <2>15, <3>3, <3>4
    <3> QED BY <1>2, <2>15, <3>5 DEF Excess, Minus
  <2> QED BY <2>15, <2>16 DEF W
<1> QED BY <1>3, <1>4

LEMMA BooksSound ==
  ASSUME LedgerAssumption, NEW E, NEW V, Sound(E, V), NEW P, Books(E, V, P)
  PROVE  /\ entry' = E /\ Sound(entry', invoice') /\ DOMAIN invoice' = DOMAIN V
         /\ (\A i \in DOMAIN V : V[i].status # "pending") => Excess(entry', invoice') = 0
         /\ payment' = Cancelled(P, Changed(V, invoice')) /\ picked' = picked
<1>1. entry' = E /\ invoice' = Enforced(E, V, since') /\ payment' = Cancelled(P, Changed(V, invoice')) /\ picked' = picked
  BY DEF Books
<1> QED BY <1>1, EnforcedSound
-----------------------------------------------------------------------------
(* Rows that are sound one by one, with no more money from any entry.      *)
LEMMA RowsSound ==
  ASSUME LedgerAssumption, NEW E, NEW V, Rows(E, V),
         \A e \in DOMAIN E : E[e].kind # "checkout" => Given(V, e) <= E[e].amount,
         NEW F, F \in Seq(Entry), Len(F) = Len(E),
         \A e \in DOMAIN E : F[e].kind = E[e].kind /\ F[e].amount = E[e].amount,
         NEW W, DOMAIN W = DOMAIN V, W = [i \in DOMAIN W |-> W[i]],
         \A i \in DOMAIN V : /\ W[i] \in Invoice /\ RowSound(F, W[i])
                             /\ \A e \in DOMAIN E : E[e].kind # "checkout" => W[i].by[e] <= V[i].by[e]
  PROVE  Sound(F, W)
<1> DEFINE N == Len(V)
<1>1. N \in Nat /\ DOMAIN V = 1 .. N /\ \A i \in 1 .. N : V[i] \in Invoice
  BY DEF Rows
<1>2. Len(E) \in Nat /\ DOMAIN E = 1 .. Len(E) /\ Len(E) <= MaxEntry /\ MaxEntry \in Nat /\ \A e \in DOMAIN E : E[e] \in Entry
  BY DEF Rows, LedgerAssumption
<1>3. DOMAIN F = DOMAIN E
  BY <1>2
<1> HIDE DEF N
<1>4. W \in [1 .. N -> Invoice]
  BY <1>1
<1>5. W \in Seq(Invoice) /\ Len(W) = N /\ DOMAIN W = 1 .. N
  BY <1>1, <1>4
<1>6. Rows(F, W)
  BY <1>5 DEF Rows, N
<1>7. ASSUME NEW e \in DOMAIN E, E[e].kind # "checkout" PROVE Given(W, e) <= E[e].amount
  <2> DEFINE f == [i \in 1 .. N |-> W[i].by[e]]
             g == [i \in 1 .. N |-> V[i].by[e]]
  <2>1. e \in 0 .. MaxEntry
    BY <1>2
  <2>2. \A i \in 1 .. N : W[i].by[e] \in Nat /\ V[i].by[e] \in Nat
    <3> SUFFICES ASSUME NEW i \in 1 .. N PROVE W[i].by[e] \in Nat /\ V[i].by[e] \in Nat
      OBVIOUS
    <3>1. W[i].by \in [0 .. MaxEntry -> Nat] /\ V[i].by \in [0 .. MaxEntry -> Nat]
      BY <1>1, <1>4 DEF Invoice
    <3> QED BY <2>1, <3>1
  <2>3. \A i \in 1 .. N : f[i] \in Nat /\ g[i] \in Nat /\ f[i] <= g[i]
    BY <1>1, <1>7, <2>2
  <2>4. Given(V, e) = SumTo(g, N) /\ Given(W, e) = SumTo(f, N)
    BY <1>1, <1>5 DEF Given, N
  <2>5. Given(V, e) <= E[e].amount
    BY <1>7
  <2>6. E[e].amount \in Nat
    BY <1>2 DEF Entry
  <2> HIDE DEF f, g
  <2>7. SumTo(f, N) \in Nat /\ SumTo(g, N) \in Nat /\ SumTo(f, N) <= SumTo(g, N)
    BY <1>1, <2>3, SumLeq
  <2> QED BY <2>4, <2>5, <2>6, <2>7
<1>8. \A e \in DOMAIN F : F[e].kind # "checkout" => Given(W, e) <= F[e].amount
  BY <1>3, <1>7
<1> QED BY <1>6, <1>8 DEF Sound

(* An entry more.                                                          *)
LEMMA EntryAdded ==
  ASSUME LedgerAssumption, NEW E, NEW V, Sound(E, V), Len(E) < MaxEntry, NEW r \in Entry
  PROVE  /\ Sound(Append(E, r), V)
         /\ Len(E) + 1 \in DOMAIN Append(E, r) /\ Append(E, r)[Len(E) + 1] = r
         /\ Given(V, Len(E) + 1) = 0
         /\ \A i \in DOMAIN V : V[i].by[Len(E) + 1] = 0
<1> DEFINE F == Append(E, r)
           n == Len(E) + 1
<1>1. /\ Len(E) \in Nat /\ DOMAIN E = 1 .. Len(E) /\ MaxEntry \in Nat
      /\ \A i \in DOMAIN V : RowSound(E, V[i]) /\ V[i] \in Invoice
      /\ Len(V) \in Nat /\ DOMAIN V = 1 .. Len(V)
  BY DEF Sound, Rows, LedgerAssumption
<1>2. /\ F \in Seq(Entry) /\ Len(F) = n /\ DOMAIN F = 1 .. n /\ F[n] = r
      /\ \A e \in DOMAIN E : F[e] = E[e] /\ e \in DOMAIN F
  BY <1>1 DEF Sound, Rows
<1> HIDE DEF F
<1>3. n \in 1 .. MaxEntry /\ n \notin DOMAIN E
  BY <1>1
<1>4. \A i \in DOMAIN V : V[i].by[n] = 0
  BY <1>1, <1>3 DEF RowSound, Gives
<1>5. Given(V, n) = 0
  <2> DEFINE f == [i \in DOMAIN V |-> V[i].by[n]]
  <2>1. \A i \in 1 .. Len(V) : f[i] = 0
    BY <1>1, <1>4
  <2> HIDE DEF f
  <2>2. SumTo(f, Len(V)) = 0
    BY <1>1, <2>1, SumNone
  <2> QED BY <2>2 DEF Given, f
<1>6. \A e : Gives(E, e) => Gives(F, e)
  BY <1>2 DEF Gives
<1>7. \A i \in DOMAIN V : RowSound(F, V[i])
  <2> SUFFICES ASSUME NEW i \in DOMAIN V PROVE RowSound(F, V[i])
    OBVIOUS
  <2>1. RowSound(E, V[i])
    BY <1>1
  <2>2. V[i].charge # 0 => V[i].charge \in DOMAIN F /\ F[V[i].charge].kind = "charge"
    BY <1>2, <2>1 DEF RowSound
  <2> QED BY <1>6, <2>1, <2>2 DEF RowSound
<1>8. Rows(F, V)
  BY <1>1, <1>2 DEF Sound, Rows
<1>9. \A e \in DOMAIN F : F[e].kind # "checkout" => Given(V, e) <= F[e].amount
  <2> SUFFICES ASSUME NEW e \in DOMAIN F, F[e].kind # "checkout" PROVE Given(V, e) <= F[e].amount
    OBVIOUS
  <2>1. CASE e = n
    <3>1. F[e].amount \in Nat
      BY <1>2, <2>1 DEF Entry
    <3> HIDE DEF n
    <3> QED BY <1>5, <2>1, <3>1
  <2>2. CASE e # n
    <3>1. e \in DOMAIN E
      BY <1>1, <1>2, <2>2
    <3> QED BY <1>2, <3>1 DEF Sound
  <2> QED BY <2>1, <2>2
<1>10. Sound(F, V)
  BY <1>7, <1>8, <1>9 DEF Sound
<1> QED BY <1>2, <1>4, <1>5, <1>10 DEF F

(* An invoice more, that nothing has settled.                              *)
Opens(V, a, W) == OpenTotal(W) = OpenTotal(V) + a

NoPending(V) == \A i \in DOMAIN V : V[i].status # "pending"

Fresh(r, a, c) ==
  r = [amount |-> a, status |-> "unpaid", charge |-> c, by |-> [e \in 0 .. MaxEntry |-> 0], outside |-> 0]

LEMMA InvoiceAdded ==
  ASSUME LedgerAssumption, NEW E, NEW V, Sound(E, V), Len(V) < MaxInvoice,
         NEW a, a \in Nat \ {0}, NEW c, c \in 0 .. MaxEntry, c # 0 => c \in DOMAIN E /\ E[c].kind = "charge",
         NEW r, Fresh(r, a, c),
         NEW W, W = Append(V, r)
  PROVE  /\ Sound(E, W) /\ Len(W) = Len(V) + 1
         /\ NoPending(V) => NoPending(W)
         /\ Opens(V, a, W)
<1> DEFINE N == Len(V)
<1>1. /\ N \in Nat /\ DOMAIN V = 1 .. N /\ MaxEntry \in Nat /\ MaxInvoice \in Nat
      /\ \A i \in 1 .. N : V[i] \in Invoice /\ RowSound(E, V[i])
      /\ Rows(E, V)
      /\ Len(E) \in Nat /\ DOMAIN E = 1 .. Len(E) /\ Len(E) <= MaxEntry
  BY DEF Sound, Rows, LedgerAssumption
<1>2. /\ r \in Invoice /\ r.amount = a /\ r.status = "unpaid" /\ r.charge = c /\ r.outside = 0
      /\ \A e \in 0 .. MaxEntry : r.by[e] = 0
  BY DEF Invoice, Fresh
<1>3. Settled(r) = 0
  <2>1. SumTo(r.by, MaxEntry) = 0
    BY <1>1, <1>2, SumNone
  <2> QED BY <1>1, <1>2, <2>1 DEF Settled
<1>4. RowSound(E, r) /\ Remaining(r) = a
  <2>1. RowSound(E, r)
    BY <1>1, <1>2, <1>3 DEF RowSound
  <2>2. Remaining(r) = a - 0
    BY <1>2, <1>3, <2>1, RemainingIs
  <2> QED BY <2>1, <2>2
<1>5. V \in Seq(Invoice)
  BY <1>1 DEF Rows
<1>6. W \in Seq(Invoice) /\ Len(W) = N + 1
  BY <1>2, <1>5
<1>7. DOMAIN W = 1 .. N + 1 /\ W[N + 1] = r /\ \A i \in 1 .. N : W[i] = V[i]
  BY <1>1, <1>5
<1>8. Rows(E, W)
  BY <1>1, <1>6 DEF Rows, N
<1> HIDE DEF N
<1>9. \A i \in DOMAIN W : W[i] = r \/ (i \in 1 .. N /\ W[i] = V[i])
  BY <1>1, <1>7
<1>10. \A i \in DOMAIN W : RowSound(E, W[i])
  BY <1>1, <1>4, <1>9
<1>11. ASSUME NEW e \in DOMAIN E, E[e].kind # "checkout" PROVE Given(W, e) <= E[e].amount
  <2> DEFINE f == [i \in DOMAIN V |-> V[i].by[e]]
             g == [i \in DOMAIN W |-> W[i].by[e]]
  <2>1. e \in 0 .. MaxEntry
    BY <1>1
  <2>2. g[N + 1] = 0 /\ \A i \in 1 .. N : g[i] = f[i]
    BY <1>1, <1>2, <1>7, <2>1
  <2>3. Given(V, e) = SumTo(f, N) /\ Given(W, e) = SumTo(g, N + 1)
    BY <1>6 DEF Given, N
  <2>4. Given(V, e) \in Nat
    BY <1>1, <2>1, TotalsType
  <2> HIDE DEF f, g
  <2>5. SumTo(g, N + 1) = g[N + 1] + SumTo(g, N)
    BY <1>1, SumNext
  <2>6. SumTo(g, N) = SumTo(f, N)
    BY <1>1, <2>2, SumSame
  <2>7. Given(W, e) = Given(V, e)
    BY <2>2, <2>3, <2>4, <2>5, <2>6
  <2> QED BY <1>11, <2>7 DEF Sound
<1>12. OpenTotal(W) = OpenTotal(V) + a /\ OpenTotal(V) \in Nat
  <2> DEFINE f == [i \in DOMAIN V |-> Remaining(V[i])]
             g == [i \in DOMAIN W |-> Remaining(W[i])]
  <2>1. g[N + 1] = a /\ \A i \in 1 .. N : g[i] = f[i]
    <3>1. N + 1 \in DOMAIN W /\ g[N + 1] = Remaining(W[N + 1])
      BY <1>1, <1>7
    <3>2. \A i \in 1 .. N : f[i] = Remaining(V[i]) /\ g[i] = Remaining(W[i])
      BY <1>1, <1>7
    <3> HIDE DEF f, g
    <3> QED BY <1>4, <1>7, <3>1, <3>2
  <2>2. OpenTotal(V) = SumTo(f, N) /\ OpenTotal(W) = SumTo(g, N + 1)
    BY <1>6 DEF OpenTotal, N
  <2>3. OpenTotal(V) \in Nat
    BY <1>1, TotalsType
  <2> HIDE DEF f, g
  <2>4. SumTo(g, N + 1) = g[N + 1] + SumTo(g, N)
    BY <1>1, SumNext
  <2>5. SumTo(g, N) = SumTo(f, N)
    BY <1>1, <2>1, SumSame
  <2> QED BY <2>1, <2>2, <2>3, <2>4, <2>5
<1>13. Sound(E, W)
  BY <1>8, <1>10, <1>11 DEF Sound
<1>14. NoPending(V) => NoPending(W)
  BY <1>1, <1>2, <1>9 DEF NoPending, N
<1> QED BY <1>6, <1>12, <1>13, <1>14 DEF N, Opens
-----------------------------------------------------------------------------
(* Voided, released, settled outside the ledger, or moved in review.       *)
LEMMA VoidedRow ==
  ASSUME LedgerAssumption, NEW E, NEW v \in Invoice, RowSound(E, v), NEW w, w = Voided(v)
  PROVE  /\ w \in Invoice /\ RowSound(E, w) /\ w.status = "voided"
         /\ \A e \in 0 .. MaxEntry : w.by[e] = 0 /\ v.by[e] \in Nat
<1>1. MaxEntry \in Nat /\ v.by \in [0 .. MaxEntry -> Nat]
  BY DEF LedgerAssumption, Invoice
<1>2. w = [v EXCEPT !.status = "voided", !.by = [e \in 0 .. MaxEntry |-> 0], !.outside = 0]
  BY <1>1 DEF Voided
<1> DEFINE none == [e \in 0 .. MaxEntry |-> 0]
<1>7. none \in [0 .. MaxEntry -> Nat] /\ \A e \in 0 .. MaxEntry : none[e] = 0
  OBVIOUS
<1>8. w = [v EXCEPT !.status = "voided", !.by = none, !.outside = 0]
  BY <1>2
<1> HIDE DEF none
<1>9. /\ w.status = "voided" /\ w.amount = v.amount /\ w.charge = v.charge /\ w.outside = 0
      /\ w.by = none /\ w \in Invoice
  <2>1. v = [amount |-> v.amount, status |-> v.status, charge |-> v.charge, by |-> v.by, outside |-> v.outside]
    BY DEF Invoice
  <2>2. w = [amount |-> v.amount, status |-> "voided", charge |-> v.charge, by |-> none, outside |-> 0]
    BY <1>8, <2>1
  <2>3. v.amount \in Nat /\ v.charge \in 0 .. MaxEntry
    BY DEF Invoice
  <2>4. w \in Invoice
    BY <1>7, <2>2, <2>3 DEF Invoice
  <2> QED BY <2>2, <2>4
<1>3. /\ w \in Invoice /\ w.status = "voided" /\ w.amount = v.amount /\ w.charge = v.charge /\ w.outside = 0
      /\ \A e \in 0 .. MaxEntry : w.by[e] = 0
  BY <1>7, <1>9
<1>4. Settled(w) = 0
  <2>1. SumTo(w.by, MaxEntry) = 0
    BY <1>1, <1>3, SumNone
  <2> QED BY <1>1, <1>3, <2>1 DEF Settled
<1>5. w.amount \in Nat
  BY <1>3 DEF Invoice
<1>6. RowSound(E, w)
  BY <1>1, <1>3, <1>4, <1>5 DEF RowSound
<1> QED BY <1>1, <1>3, <1>6

LEMMA ReleasedRow ==
  ASSUME LedgerAssumption, NEW E, NEW v \in Invoice, RowSound(E, v),
         NEW x \in 1 .. MaxEntry, v.by[x] # 0,
         NEW w, w = Refreshed([v EXCEPT !.by[x] = 0])
  PROVE  /\ w \in Invoice /\ RowSound(E, w)
         /\ w.by[x] = 0
         /\ \A e \in 0 .. MaxEntry : w.by[e] <= v.by[e]
         /\ w.status = "pending" => v.status = "pending"
<1> DEFINE u == [v EXCEPT !.by[x] = 0]
<1>1. MaxEntry \in Nat /\ v.by \in [0 .. MaxEntry -> Nat] /\ x \in 0 .. MaxEntry
  BY DEF LedgerAssumption, Invoice
<1>2. /\ u.amount = v.amount /\ u.charge = v.charge /\ u.outside = v.outside /\ u.status = v.status
      /\ u.by = [v.by EXCEPT ![x] = 0] /\ u \in Invoice
  BY <1>1 DEF Invoice
<1> HIDE DEF u
<1>3. u.by[x] = 0 /\ \A e \in 0 .. MaxEntry : u.by[e] \in Nat /\ v.by[e] \in Nat /\ (e # x => u.by[e] = v.by[e])
  BY <1>1, <1>2
<1>4. Settled(u) = Settled(v) - v.by[x] /\ Settled(u) \in Nat /\ Settled(v) \in Nat
  <2>1. Settled(v) = v.outside + Full(v.by, MaxEntry) /\ Full(v.by, MaxEntry) \in Nat /\ Settled(v) \in Nat
    BY SettledType
  <2>2. Settled(u) = u.outside + Full(u.by, MaxEntry) /\ Settled(u) \in Nat
    BY <1>2, SettledType
  <2>3. v.outside \in Nat
    BY DEF Invoice
  <2> DEFINE f == v.by
             g == u.by
  <2>4. g[x] = 0 /\ f[x] \in Nat /\ (\A e \in 0 .. MaxEntry : f[e] \in Nat /\ g[e] \in Nat)
        /\ (\A e \in 0 .. MaxEntry : e # x => g[e] = f[e])
    BY <1>1, <1>3
  <2> DEFINE n == MaxEntry
  <2>5. n \in Nat /\ x \in 0 .. n /\ (\A k \in 0 .. n : f[k] \in Nat /\ g[k] \in Nat)
        /\ (\A k \in 0 .. n : k # x => g[k] = f[k])
    BY <1>1, <2>4
  <2> HIDE DEF f, g, n
  <2>7. Full(g, n) = Full(f, n) + g[x] - f[x]
    BY <2>5, FullPoint
  <2>6. Full(u.by, MaxEntry) = Full(v.by, MaxEntry) + g[x] - v.by[x] /\ v.by[x] \in Nat
    BY <2>4, <2>7 DEF f, g, n
  <2> QED BY <1>2, <2>1, <2>2, <2>3, <2>4, <2>6
<1>5. v.by[x] \in Nat /\ v.by[x] > 0
  BY <1>1
<1>6. u.status # "voided"
  BY <1>1, <1>2 DEF RowSound
<1>7. \A e \in 1 .. MaxEntry : u.by[e] # 0 => Gives(E, e)
  BY <1>1, <1>3 DEF RowSound
<1>8. u.amount > 0 /\ Settled(u) <= u.amount
  <2>1. v.amount \in Nat /\ v.amount > 0 /\ Settled(v) <= v.amount
    BY DEF Invoice, RowSound
  <2> QED BY <1>2, <1>4, <1>5, <2>1
<1>9. u.charge # 0 => u.charge \in DOMAIN E /\ E[u.charge].kind = "charge"
  BY <1>2 DEF RowSound
<1>10. /\ w \in Invoice /\ RowSound(E, w) /\ w.by = u.by
       /\ w.status = IF Settled(u) = u.amount THEN "paid" ELSE IF u.status = "paid" THEN "unpaid" ELSE u.status
  BY <1>2, <1>6, <1>7, <1>8, <1>9, RefreshedSound DEF u
<1>11. w.status = "pending" => v.status = "pending"
  BY <1>2, <1>10
<1>12. \A e \in 0 .. MaxEntry : w.by[e] <= v.by[e]
  BY <1>3, <1>10
<1> QED BY <1>3, <1>10, <1>11, <1>12

LEMMA OutsideRow ==
  ASSUME LedgerAssumption, NEW E, NEW v \in Invoice, RowSound(E, v), v.status = "unpaid",
         NEW w, w = PaidOutside(v)
  PROVE  w \in Invoice /\ RowSound(E, w) /\ w.by = v.by /\ Remaining(w) = 0
<1> DEFINE u == [v EXCEPT !.outside = @ + Remaining(v)]
<1>1. v.outside \in Nat /\ Remaining(v) \in Nat /\ Remaining(v) = v.amount - Settled(v) /\ v.amount \in Nat
  BY RemainingIs DEF Invoice
<1>2. /\ u \in Invoice /\ u.amount = v.amount /\ u.charge = v.charge /\ u.by = v.by /\ u.status = v.status
      /\ u.outside = v.outside + Remaining(v)
  BY <1>1, SMTT(30) DEF Invoice
<1> HIDE DEF u
<1>3. Settled(u) = u.amount
  <2>1. Settled(v) = v.outside + Full(v.by, MaxEntry) /\ Full(v.by, MaxEntry) \in Nat /\ Settled(v) \in Nat
    BY SettledType
  <2>2. Settled(u) = u.outside + Full(u.by, MaxEntry)
    BY <1>2, SettledType
  <2>3. Full(u.by, MaxEntry) = Full(v.by, MaxEntry)
    BY <1>2
  <2> QED BY <1>1, <1>2, <2>1, <2>2, <2>3
<1>4. u.amount > 0 /\ Settled(u) <= u.amount
  BY <1>1, <1>2, <1>3 DEF RowSound
<1>5. \A e \in 1 .. MaxEntry : u.by[e] # 0 => Gives(E, e)
  BY <1>2 DEF RowSound
<1>6. u.charge # 0 => u.charge \in DOMAIN E /\ E[u.charge].kind = "charge"
  BY <1>2 DEF RowSound
<1>7. /\ w \in Invoice /\ RowSound(E, w) /\ w.by = u.by
      /\ w.status = IF Settled(u) = u.amount THEN "paid" ELSE IF u.status = "paid" THEN "unpaid" ELSE u.status
  BY <1>2, <1>4, <1>5, <1>6, RefreshedSound DEF u, PaidOutside
<1>8. w.status = "paid"
  BY <1>3, <1>7
<1> QED BY <1>2, <1>7, <1>8 DEF Remaining

LEMMA MovedRow ==
  ASSUME LedgerAssumption, NEW E, NEW v \in Invoice, RowSound(E, v),
         v.status \in {"unpaid", "pending"},
         NEW s \in {"unpaid", "pending"}, NEW w, w = [v EXCEPT !.status = s]
  PROVE  w \in Invoice /\ RowSound(E, w) /\ w.by = v.by /\ w.status = s /\ Remaining(w) = Remaining(v)
<1>1. /\ w \in Invoice /\ w.status = s /\ w.amount = v.amount /\ w.charge = v.charge
      /\ w.by = v.by /\ w.outside = v.outside
  BY DEF Invoice
<1>2. Settled(w) = Settled(v)
  BY <1>1 DEF Settled
<1>3. RowSound(E, w)
  BY <1>1, <1>2 DEF RowSound
<1> QED BY <1>1, <1>2, <1>3 DEF Remaining

(* An entry that settles nothing of a row may be voided.                   *)
VoidedAt(E, x, F) == x \in DOMAIN E /\ F = [E EXCEPT ![x].void = TRUE]

LEMMA EntryVoided ==
  ASSUME LedgerAssumption, NEW E, E \in Seq(Entry), NEW x, NEW F, VoidedAt(E, x, F)
  PROVE  /\ F \in Seq(Entry) /\ Len(F) = Len(E) /\ F[x].void
         /\ \A e \in DOMAIN E : F[e].kind = E[e].kind /\ F[e].amount = E[e].amount
         /\ \A v \in Invoice : RowSound(E, v) /\ v.by[x] = 0 => RowSound(F, v)
<1>1. Len(E) \in Nat /\ DOMAIN E = 1 .. Len(E) /\ \A e \in DOMAIN E : E[e] \in Entry
  OBVIOUS
<1>2. x \in DOMAIN E /\ DOMAIN F = DOMAIN E /\ \A e \in DOMAIN E : F[e] = IF e = x THEN [E[e] EXCEPT !.void = TRUE] ELSE E[e]
  BY DEF VoidedAt
<1>3. \A e \in DOMAIN E : F[e] \in Entry /\ F[e].kind = E[e].kind /\ F[e].amount = E[e].amount
                          /\ (e # x => F[e] = E[e])
  BY <1>1, <1>2 DEF Entry
<1>4. F[x].void
  BY <1>1, <1>2 DEF Entry
<1>5. F \in Seq(Entry) /\ Len(F) = Len(E)
  <2>1. F = [e \in 1 .. Len(E) |-> F[e]]
    BY <1>1 DEF VoidedAt
  <2>2. \A e \in 1 .. Len(E) : F[e] \in Entry
    BY <1>1, <1>3
  <2>3. F \in [1 .. Len(E) -> Entry]
    BY <2>1, <2>2
  <2> QED BY <1>1, <2>3
<1>6. \A e : e # x /\ Gives(E, e) => Gives(F, e)
  BY <1>2, <1>3 DEF Gives
<1>7. ASSUME NEW v \in Invoice, RowSound(E, v), v.by[x] = 0 PROVE RowSound(F, v)
  <2>1. \A e \in 1 .. MaxEntry : v.by[e] # 0 => Gives(F, e)
    BY <1>6, <1>7 DEF RowSound
  <2>2. v.charge # 0 => v.charge \in DOMAIN F /\ F[v.charge].kind = "charge"
    BY <1>2, <1>3, <1>7 DEF RowSound
  <2> QED BY <1>7, <2>1, <2>2 DEF RowSound
<1> QED BY <1>3, <1>4, <1>5, <1>7
-----------------------------------------------------------------------------
(* 4. The actions.                                                         *)

(* What every transaction keeps: the account is sound, and without an      *)
(* invoice under review no more is open beyond the debt than before.       *)
Good == LedgerInv' /\ (NoPending(invoice) => Excess(entry', invoice') <= Excess(entry, invoice))

Payments(P) == P \in Seq(Payment) /\ Len(P) = Len(payment)

LEMMA CancelledType ==
  ASSUME LedgerAssumption, LedgerInv, NEW P, Payments(P), NEW I
  PROVE  Payments(Cancelled(P, I))
<1> DEFINE Q == Cancelled(P, I)
<1>1. Len(P) \in Nat /\ DOMAIN P = 1 .. Len(P) /\ \A p \in 1 .. Len(P) : P[p] \in Payment
  BY DEF Payments
<1>2. \A p \in 1 .. Len(P) : [P[p] EXCEPT !.status = "cancelled"] \in Payment
  BY <1>1 DEF Payment
<1>3. Q = [p \in 1 .. Len(P) |-> Q[p]] /\ \A p \in 1 .. Len(P) : Q[p] = P[p] \/ Q[p] = [P[p] EXCEPT !.status = "cancelled"]
  BY <1>1 DEF Cancelled
<1> HIDE DEF Q
<1>4. \A p \in 1 .. Len(P) : Q[p] \in Payment
  BY <1>1, <1>2, <1>3
<1>5. Q \in [1 .. Len(P) -> Payment]
  BY <1>3, <1>4
<1>6. Q \in Seq(Payment) /\ Len(Q) = Len(P)
  BY <1>1, <1>5
<1> QED BY <1>6 DEF Payments, Q

LEMMA MoveToType ==
  ASSUME LedgerAssumption, LedgerInv, NEW p, NEW s,
         s \in {"pending_payment", "pending_review", "approved", "rejected", "expired", "cancelled"}
  PROVE  Payments(payment) /\ Payments(MoveTo(p, s))
<1> DEFINE Q == MoveTo(p, s)
           P == payment
<1>1. Len(P) \in Nat /\ DOMAIN P = 1 .. Len(P) /\ \A k \in 1 .. Len(P) : P[k] \in Payment
  BY DEF LedgerInv, TypeOK
<1>2. \A k \in 1 .. Len(P) : [P[k] EXCEPT !.status = s] \in Payment
  BY <1>1 DEF Payment
<1>3. Q = [k \in 1 .. Len(P) |-> Q[k]] /\ \A k \in 1 .. Len(P) : Q[k] = P[k] \/ Q[k] = [P[k] EXCEPT !.status = s]
  BY <1>1 DEF MoveTo
<1> HIDE DEF Q
<1>4. \A k \in 1 .. Len(P) : Q[k] \in Payment
  BY <1>1, <1>2, <1>3
<1>5. Q \in [1 .. Len(P) -> Payment]
  BY <1>3, <1>4
<1>6. Q \in Seq(Payment) /\ Len(Q) = Len(P)
  BY <1>1, <1>5
<1> QED BY <1>6 DEF Payments, Q, LedgerInv, TypeOK

LEMMA SameTypes ==
  ASSUME LedgerAssumption, LedgerInv, NEW E, NEW V, NEW P, NEW t, Rows(E, V),
         Payments(P), t \in 0 .. MaxEntry + 1
  PROVE  /\ P \in Seq(Payment) /\ Len(P) <= MaxPayment /\ DOMAIN P = DOMAIN payment
         /\ E \in Seq(Entry) /\ Len(E) <= MaxEntry
         /\ V \in Seq(Invoice) /\ Len(V) <= MaxInvoice
BY DEF LedgerInv, TypeOK, Payments, Rows

LEMMA FirstType ==
  ASSUME LedgerAssumption, LedgerInv, FirstInvoice \/ since' = since
  PROVE  since' \in 0 .. MaxEntry + 1
<1>1. Len(entry) \in Nat /\ Len(entry) <= MaxEntry /\ MaxEntry \in Nat /\ since \in 0 .. MaxEntry + 1
  BY DEF LedgerInv, TypeOK, LedgerAssumption
<1> QED BY <1>1 DEF FirstInvoice

(* A transaction that ends with enforce.                                   *)
LEMMA Balanced ==
  ASSUME LedgerAssumption, LedgerInv, NEW E, NEW V, NEW P, Sound(E, V), Payments(P), Books(E, V, P),
         since' \in 0 .. MaxEntry + 1, NoPending(invoice) => NoPending(V)
  PROVE  Good
<1>1. /\ entry' = E /\ Sound(entry', invoice')
      /\ NoPending(V) => Excess(entry', invoice') = 0
      /\ payment' = Cancelled(P, Changed(V, invoice')) /\ picked' = picked
  BY BooksSound DEF NoPending
<1>2. Payments(payment')
  BY <1>1, CancelledType
<1>3. Rows(entry', invoice')
  BY <1>1 DEF Sound
<1>4. TypeOK'
  <2>1. picked \subseteq DOMAIN payment
    BY DEF LedgerInv, TypeOK
  <2> QED BY <1>1, <1>2, <1>3, <2>1, SameTypes DEF TypeOK
<1>5. Excess(entry, invoice) \in Nat
  BY TotalsType DEF LedgerInv, Sound
<1> QED BY <1>1, <1>4, <1>5 DEF Good, LedgerInv

(* A transaction that leaves the ledger alone.                             *)
LEMMA OnlyRows ==
  ASSUME LedgerAssumption, LedgerInv, entry' = entry, Sound(entry, invoice'), TypeOK',
         OpenTotal(invoice') <= OpenTotal(invoice) \/ OpenTotal(invoice') <= Debt(entry)
  PROVE  Good
<1>1. /\ Debt(entry) \in Nat /\ OpenTotal(invoice) \in Nat /\ OpenTotal(invoice') \in Nat
  BY TotalsType DEF LedgerInv, Sound
<1>2. Excess(entry, invoice') <= Excess(entry, invoice)
  BY <1>1 DEF Excess, Minus
<1>3. Sound(entry', invoice') /\ Excess(entry', invoice') <= Excess(entry, invoice)
  BY <1>2
<1> QED BY <1>3 DEF Good, LedgerInv

(* Row by row, no more is open.                                            *)
LEMMA OpenFalls ==
  ASSUME LedgerAssumption, NEW E, NEW V, NEW F, NEW W, Rows(E, V), Rows(F, W), DOMAIN W = DOMAIN V,
         \A i \in DOMAIN V : Remaining(W[i]) <= Remaining(V[i])
  PROVE  OpenTotal(W) <= OpenTotal(V)
<1> DEFINE f == [i \in DOMAIN V |-> Remaining(V[i])]
           g == [i \in DOMAIN W |-> Remaining(W[i])]
           N == Len(V)
<1>1. N \in Nat /\ DOMAIN V = 1 .. N /\ Len(W) = N /\ \A i \in 1 .. N : V[i] \in Invoice /\ W[i] \in Invoice
  BY DEF Rows
<1>2. OpenTotal(V) = SumTo(f, N) /\ OpenTotal(W) = SumTo(g, N)
  BY <1>1 DEF OpenTotal
<1>3. \A i \in 1 .. N : f[i] \in Nat /\ g[i] \in Nat /\ g[i] <= f[i]
  <2>1. \A i \in 1 .. N : Remaining(V[i]) \in Nat /\ Remaining(W[i]) \in Nat
    BY <1>1, RemainingType
  <2> QED BY <1>1, <2>1
<1> HIDE DEF f, g, N
<1>4. SumTo(g, N) <= SumTo(f, N)
  BY <1>1, <1>3, SumLeq
<1> QED BY <1>2, <1>4
-----------------------------------------------------------------------------
LEMMA Known ==
  ASSUME LedgerAssumption, LedgerInv
  PROVE  /\ Sound(entry, invoice) /\ Rows(entry, invoice) /\ Payments(payment)
         /\ MaxEntry \in Nat /\ MaxInvoice \in Nat
         /\ Len(entry) \in Nat /\ DOMAIN entry = 1 .. Len(entry) /\ Len(entry) <= MaxEntry
         /\ Len(invoice) \in Nat /\ DOMAIN invoice = 1 .. Len(invoice) /\ Len(invoice) <= MaxInvoice
         /\ \A e \in DOMAIN entry : entry[e] \in Entry
         /\ \A i \in DOMAIN invoice : invoice[i] \in Invoice /\ RowSound(entry, invoice[i])
         /\ since \in 0 .. MaxEntry + 1
BY DEF LedgerInv, TypeOK, Sound, Rows, Payments, LedgerAssumption

(* add_entry *)
LEMMA NewEntrySound ==
  ASSUME LedgerAssumption, LedgerInv, Len(entry) < MaxEntry,
         NEW kind, kind \in Owing \cup Reducing, NEW a, a \in Nat, NEW E, E = NewEntry(kind, a),
         NEW n, n = Len(entry) + 1
  PROVE  /\ Sound(E, invoice) /\ n \in 1 .. MaxEntry /\ n \in DOMAIN E
         /\ E[n].kind = kind /\ E[n].amount = a /\ ~E[n].void
         /\ Given(invoice, n) = 0 /\ \A i \in DOMAIN invoice : invoice[i].by[n] = 0
<1> DEFINE r == [kind |-> kind, amount |-> a, void |-> FALSE]
<1>1. r \in Entry /\ r.kind = kind /\ r.amount = a /\ ~r.void
  BY DEF Entry
<1>2. E = Append(entry, r)
  BY DEF NewEntry
<1> HIDE DEF r
<1>3. Sound(entry, invoice)
  BY Known
<1>4. /\ Sound(E, invoice) /\ n \in DOMAIN E /\ E[n] = r
      /\ Given(invoice, n) = 0 /\ \A i \in DOMAIN invoice : invoice[i].by[n] = 0
  BY <1>1, <1>2, <1>3, EntryAdded
<1>5. n \in 1 .. MaxEntry
  BY Known
<1> QED BY <1>1, <1>4, <1>5

LEMMA ChargeGood == ASSUME LedgerAssumption, LedgerInv, NEW a, a \in Nat \ {0}, Charge(a) PROVE Good
<1> DEFINE n == Len(entry) + 1
           E == NewEntry("charge", a)
           V == NewInvoice(a, n)
           r == [amount |-> a, status |-> "unpaid", charge |-> n,
                 by |-> [e \in 0 .. MaxEntry |-> 0], outside |-> 0]
<1>1. Len(entry) < MaxEntry /\ Len(invoice) < MaxInvoice /\ FirstInvoice /\ Books(E, V, payment)
  BY DEF Charge
<1>3. V = Append(invoice, r) /\ n = Len(entry) + 1 /\ E = NewEntry("charge", a) /\ a \in Nat
      /\ "charge" \in Owing \cup Reducing
  BY DEF NewInvoice, Owing
<1>8. Fresh(r, a, n)
  BY DEF Fresh
<1> HIDE DEF E, V, n, r
<1>2. Sound(E, invoice) /\ n \in 1 .. MaxEntry /\ n \in DOMAIN E /\ E[n].kind = "charge"
  BY <1>1, <1>3, NewEntrySound
<1>9. n \in 0 .. MaxEntry /\ (n # 0 => n \in DOMAIN E /\ E[n].kind = "charge")
  BY <1>2
<1>4. /\ Sound(E, V)
      /\ NoPending(invoice) => NoPending(V)
  <2>1. Sound(E, invoice)
    BY <1>2
  <2>2. Len(invoice) < MaxInvoice
    BY <1>1
  <2>3. n \in 0 .. MaxEntry
    BY <1>9
  <2>4. n # 0 => n \in DOMAIN E /\ E[n].kind = "charge"
    BY <1>9
  <2>5. V = Append(invoice, r)
    BY <1>3
  <2> QED BY <1>8, <2>1, <2>2, <2>3, <2>4, <2>5, InvoiceAdded, Zenon
<1>6. Payments(payment)
  BY Known
<1>7. since' \in 0 .. MaxEntry + 1
  BY <1>1, FirstType
<1> QED BY <1>1, <1>4, <1>6, <1>7, Balanced

LEMMA IncreaseGood == ASSUME LedgerAssumption, LedgerInv, NEW a, a \in Nat, Increase(a) PROVE Good
<1> DEFINE E == NewEntry("increase", a)
<1>1. Len(entry) < MaxEntry /\ since' = since /\ Books(E, invoice, payment)
  BY DEF Increase
<1>2. Sound(E, invoice)
  BY <1>1, NewEntrySound DEF Owing
<1>3. Payments(payment) /\ since' \in 0 .. MaxEntry + 1
  BY <1>1, Known
<1> HIDE DEF E
<1> QED BY <1>1, <1>2, <1>3, Balanced

(* The invoices staff chose, each of them once.                            *)
LEMMA OrderLists ==
  ASSUME LedgerAssumption, LedgerInv, NEW order \in SetToAllKPermutations(Unpaid(invoice))
  PROVE  \E K : Lists(order, K, Unpaid(invoice))
<1>1. PICK S \in SUBSET Unpaid(invoice) : order \in SetToSeqs(S)
  BY DEF SetToAllKPermutations
<1> DEFINE N == Len(invoice)
<1>2. N \in Nat /\ S \in SUBSET (1 .. N)
  BY Known DEF Unpaid
<1> HIDE DEF N
<1>3. Lists(order, Cardinality(S), S)
  BY <1>1, <1>2, ListsAll
<1>4. Lists(order, Cardinality(S), Unpaid(invoice))
  BY <1>1, <1>3 DEF Lists
<1> QED BY <1>4

LEMMA ReduceGood ==
  ASSUME LedgerAssumption, LedgerInv, NEW a, a \in Nat,
         NEW order \in SetToAllKPermutations(Unpaid(invoice)), Reduce(a, order)
  PROVE  Good
<1> DEFINE n == Len(entry) + 1
           E == NewEntry("reduce", a)
           src == <<n>>
           credit == [e \in {n} |-> a]
           V == Allocated(invoice, order, src, credit, a)
           P == Cancelled(payment, Changed(invoice, V))
<1>1. Len(entry) < MaxEntry /\ since' = since /\ Books(E, V, P)
  BY DEF Reduce
<1>2. /\ Sound(E, invoice) /\ n \in 1 .. MaxEntry /\ n \in DOMAIN E
      /\ E[n].kind = "reduce" /\ E[n].amount = a /\ ~E[n].void /\ Given(invoice, n) = 0
  <2>1. n = Len(entry) + 1 /\ E = NewEntry("reduce", a) /\ "reduce" \in Owing \cup Reducing
    BY DEF Reducing
  <2> HIDE DEF n, E
  <2> QED BY <1>1, <2>1, NewEntrySound
<1>3. Payments(payment) /\ since' \in 0 .. MaxEntry + 1
  BY <1>1, Known
<1>4. PICK K : Lists(order, K, Unpaid(invoice))
  BY OrderLists
<1>5. src[1] = n /\ credit[n] = a /\ Lists(src, 1, 0 .. MaxEntry)
  BY <1>2 DEF Lists
<1> HIDE DEF src, credit, V, n
<1>6. Plan(invoice, order, K, src, 1, credit, a)
  BY <1>2, <1>4, <1>5 DEF Plan, Sound, Rows
<1>7. \A l \in 1 .. 1 : src[l] # 0 =>
        /\ Gives(E, src[l])
        /\ E[src[l]].kind # "checkout" => Given(invoice, src[l]) + credit[src[l]] <= E[src[l]].amount
  BY <1>2, <1>5 DEF Gives, Reducing
<1>8. /\ Sound(E, V) /\ DOMAIN V = DOMAIN invoice
      /\ \A i \in DOMAIN invoice : V[i].status = "pending" => invoice[i].status = "pending"
  <2>1. V = Allocated(invoice, order, src, credit, a)
    BY DEF V
  <2> HIDE DEF E
  <2> QED BY <1>2, <1>6, <1>7, <2>1, AllocatedSound
<1>9. NoPending(invoice) => NoPending(V)
  BY <1>8 DEF NoPending
<1>10. Payments(P)
  BY <1>3, CancelledType
<1> HIDE DEF E, P
<1> QED BY <1>1, <1>3, <1>8, <1>9, <1>10, Balanced
-----------------------------------------------------------------------------
(* Money is taken from the rows, or moved to an entry of a checkout.       *)
(* The rows before are sound, and give the new ones no more than they had. *)
LEMMA RowsChanged ==
  ASSUME LedgerAssumption, LedgerInv,
         NEW F, F \in Seq(Entry), Len(F) = Len(entry),
         \A e \in DOMAIN entry : F[e].kind = entry[e].kind /\ F[e].amount = entry[e].amount,
         NEW W, DOMAIN W = DOMAIN invoice, W = [i \in DOMAIN W |-> W[i]],
         \A i \in DOMAIN invoice :
            /\ W[i] \in Invoice /\ RowSound(F, W[i])
            /\ \A e \in 0 .. MaxEntry : W[i].by[e] <= invoice[i].by[e]
            /\ W[i].status = "pending" => invoice[i].status = "pending"
  PROVE  Sound(F, W) /\ (NoPending(invoice) => NoPending(W))
<1>1. /\ Rows(entry, invoice) /\ DOMAIN entry = 1 .. Len(entry) /\ Len(entry) <= MaxEntry
      /\ Len(entry) \in Nat /\ MaxEntry \in Nat
  BY Known
<1>2. \A e \in DOMAIN entry : entry[e].kind # "checkout" => Given(invoice, e) <= entry[e].amount
  BY DEF LedgerInv, Sound
<1>3. \A i \in DOMAIN invoice : /\ W[i] \in Invoice /\ RowSound(F, W[i])
                                /\ \A e \in DOMAIN entry : entry[e].kind # "checkout" => W[i].by[e] <= invoice[i].by[e]
  BY <1>1
<1>4. Sound(F, W)
  BY <1>1, <1>2, <1>3, RowsSound
<1> QED BY <1>4 DEF NoPending

LEMMA VoidInvoiceGood ==
  ASSUME LedgerAssumption, LedgerInv, NEW x \in DOMAIN invoice, VoidInvoice(x)
  PROVE  Good
<1> DEFINE c == invoice[x].charge
           E == IF c = 0 THEN entry ELSE [entry EXCEPT ![c].void = TRUE]
           w == Voided(invoice[x])
           V == [invoice EXCEPT ![x] = Voided(@)]
           P == Cancelled(payment, {x})
<1>1. since' = since /\ Books(E, V, P)
  BY DEF VoidInvoice
<1>2. /\ \A i \in DOMAIN invoice : invoice[i] \in Invoice /\ RowSound(entry, invoice[i])
      /\ since \in 0 .. MaxEntry + 1 /\ Payments(payment) /\ entry \in Seq(Entry)
      /\ MaxEntry \in Nat /\ Len(entry) \in Nat /\ DOMAIN entry = 1 .. Len(entry) /\ Len(entry) <= MaxEntry
  BY Known DEF Rows
<1>3. /\ w \in Invoice /\ RowSound(entry, w) /\ w.status = "voided"
      /\ \A e \in 0 .. MaxEntry : w.by[e] = 0 /\ invoice[x].by[e] \in Nat
  BY <1>2, VoidedRow
<1>4. /\ E \in Seq(Entry) /\ Len(E) = Len(entry)
      /\ \A e \in DOMAIN entry : E[e].kind = entry[e].kind /\ E[e].amount = entry[e].amount
      /\ \A v \in Invoice : RowSound(entry, v) => RowSound(E, v)
  <2>1. CASE c = 0
    BY <1>2, <2>1
  <2>2. CASE c # 0
    <3>1. c \in DOMAIN entry /\ entry[c].kind = "charge"
      BY <1>2, <2>2 DEF RowSound
    <3>2. E = [entry EXCEPT ![c].void = TRUE]
      BY <2>2
    <3>3. c \in 1 .. MaxEntry /\ ~Gives(entry, c)
      BY <1>2, <3>1 DEF Gives, Reducing
    <3>4. \A v \in Invoice : RowSound(entry, v) => v.by[c] = 0
      BY <3>3 DEF RowSound
    <3> HIDE DEF E, c
    <3>5. VoidedAt(entry, c, E)
      BY <3>1, <3>2 DEF VoidedAt
    <3> QED BY <1>2, <3>4, <3>5, EntryVoided
  <2> QED BY <2>1, <2>2
<1>5. DOMAIN V = DOMAIN invoice /\ V = [i \in DOMAIN V |-> V[i]]
      /\ \A i \in DOMAIN invoice : V[i] = IF i = x THEN w ELSE invoice[i]
  OBVIOUS
<1> HIDE DEF E, V, w
<1>6. ASSUME NEW i \in DOMAIN invoice
      PROVE  /\ V[i] \in Invoice /\ RowSound(E, V[i])
             /\ \A e \in 0 .. MaxEntry : V[i].by[e] <= invoice[i].by[e]
             /\ V[i].status = "pending" => invoice[i].status = "pending"
  <2>1. CASE i = x
    BY <1>3, <1>4, <1>5, <2>1
  <2>2. CASE i # x
    <3>1. V[i] = invoice[i]
      BY <1>5, <2>2
    <3>2. \A e \in 0 .. MaxEntry : invoice[i].by[e] \in Nat
      BY <1>2 DEF Invoice
    <3> QED BY <1>2, <1>4, <3>1, <3>2
  <2> QED BY <2>1, <2>2
<1>7. Sound(E, V) /\ (NoPending(invoice) => NoPending(V))
  BY <1>4, <1>5, <1>6, RowsChanged
<1>8. Payments(P)
  BY <1>2, CancelledType
<1> HIDE DEF P
<1> QED BY <1>1, <1>2, <1>7, <1>8, Balanced

LEMMA VoidEntryGood ==
  ASSUME LedgerAssumption, LedgerInv, NEW x, x \in DOMAIN entry, VoidEntry(x)
  PROVE  Good
<1> DEFINE gone == {i \in Unpaid(invoice) : invoice[i].charge = x}
           V == [i \in DOMAIN invoice |-> IF i \in gone THEN Voided(invoice[i]) ELSE invoice[i]]
           R == Released(V, x)
           E == [entry EXCEPT ![x].void = TRUE]
           P == Cancelled(payment, gone)
<1>1. since' = since /\ Books(E, R, P)
  BY DEF VoidEntry
<1>2. /\ \A i \in DOMAIN invoice : invoice[i] \in Invoice /\ RowSound(entry, invoice[i])
      /\ since \in 0 .. MaxEntry + 1 /\ Payments(payment) /\ entry \in Seq(Entry)
      /\ MaxEntry \in Nat /\ Len(entry) \in Nat /\ DOMAIN entry = 1 .. Len(entry) /\ Len(entry) <= MaxEntry
  BY Known DEF Rows
<1>3. /\ E \in Seq(Entry) /\ Len(E) = Len(entry)
      /\ \A e \in DOMAIN entry : E[e].kind = entry[e].kind /\ E[e].amount = entry[e].amount
      /\ \A v \in Invoice : RowSound(entry, v) /\ v.by[x] = 0 => RowSound(E, v)
  <2>1. VoidedAt(entry, x, E)
    BY DEF VoidedAt
  <2> HIDE DEF E
  <2> QED BY <1>2, <2>1, EntryVoided
<1>4. x \in 1 .. MaxEntry /\ x \in 0 .. MaxEntry
  BY <1>2
<1>5. DOMAIN V = DOMAIN invoice /\ \A i \in DOMAIN invoice : V[i] = IF i \in gone THEN Voided(invoice[i]) ELSE invoice[i]
  OBVIOUS
<1> HIDE DEF E, V, gone
<1>6. DOMAIN R = DOMAIN invoice /\ R = [i \in DOMAIN R |-> R[i]]
      /\ \A i \in DOMAIN invoice : R[i] = IF V[i].by[x] = 0 THEN V[i] ELSE Refreshed([V[i] EXCEPT !.by[x] = 0])
  BY <1>5 DEF Released
<1> HIDE DEF R
<1>7. ASSUME NEW i \in DOMAIN invoice
      PROVE  /\ V[i] \in Invoice /\ RowSound(entry, V[i])
             /\ \A e \in 0 .. MaxEntry : V[i].by[e] \in Nat /\ V[i].by[e] <= invoice[i].by[e]
             /\ V[i].status = "pending" => invoice[i].status = "pending"
  <2>1. \A e \in 0 .. MaxEntry : invoice[i].by[e] \in Nat
    BY <1>2 DEF Invoice
  <2>2. CASE i \in gone
    <3> DEFINE u == invoice[i]
               w == V[i]
    <3>1. w = Voided(u) /\ u \in Invoice /\ RowSound(entry, u)
      BY <1>2, <1>5, <2>2
    <3> HIDE DEF u, w
    <3>2. /\ w \in Invoice /\ RowSound(entry, w) /\ w.status = "voided"
          /\ \A e \in 0 .. MaxEntry : w.by[e] = 0 /\ u.by[e] \in Nat
      BY <3>1, VoidedRow
    <3> QED BY <3>2 DEF u, w
  <2>3. CASE i \notin gone
    BY <1>2, <1>5, <2>1, <2>3
  <2> QED BY <2>2, <2>3
<1>8. ASSUME NEW i \in DOMAIN invoice
      PROVE  /\ R[i] \in Invoice /\ RowSound(E, R[i])
             /\ \A e \in 0 .. MaxEntry : R[i].by[e] <= invoice[i].by[e]
             /\ R[i].status = "pending" => invoice[i].status = "pending"
  <2> DEFINE v == V[i]
             w == R[i]
  <2>1. /\ v \in Invoice /\ RowSound(entry, v)
        /\ \A e \in 0 .. MaxEntry : v.by[e] \in Nat /\ v.by[e] <= invoice[i].by[e] /\ invoice[i].by[e] \in Nat
        /\ v.status = "pending" => invoice[i].status = "pending"
    BY <1>2, <1>7 DEF Invoice
  <2>2. w = IF v.by[x] = 0 THEN v ELSE Refreshed([v EXCEPT !.by[x] = 0])
    BY <1>6
  <2> HIDE DEF v, w
  <2>3. CASE v.by[x] = 0
    BY <1>3, <2>1, <2>2, <2>3 DEF w
  <2>4. CASE v.by[x] # 0
    <3>1. /\ w \in Invoice /\ RowSound(entry, w) /\ w.by[x] = 0
          /\ \A e \in 0 .. MaxEntry : w.by[e] <= v.by[e]
          /\ w.status = "pending" => v.status = "pending"
      BY <1>4, <2>1, <2>2, <2>4, ReleasedRow
    <3>2. RowSound(E, w)
      BY <1>3, <3>1
    <3>3. \A e \in 0 .. MaxEntry : w.by[e] \in Nat
      BY <3>1 DEF Invoice
    <3>4. \A e \in 0 .. MaxEntry : w.by[e] <= invoice[i].by[e]
      BY <2>1, <3>1, <3>3
    <3> QED BY <2>1, <3>1, <3>2, <3>4 DEF w
  <2> QED BY <2>3, <2>4
<1>9. Sound(E, R) /\ (NoPending(invoice) => NoPending(R))
  BY <1>3, <1>6, <1>8, RowsChanged
<1>10. Payments(P)
  BY <1>2, CancelledType
<1> HIDE DEF P
<1> QED BY <1>1, <1>2, <1>9, <1>10, Balanced
-----------------------------------------------------------------------------
LEMMA SettleOutsideGood ==
  ASSUME LedgerAssumption, LedgerInv, NEW x \in DOMAIN invoice, SettleOutside(x)
  PROVE  Good
<1> DEFINE V == invoice'
           v == invoice[x]
           w == PaidOutside(v)
<1>1. /\ v.status = "unpaid" /\ invoice' = [invoice EXCEPT ![x] = PaidOutside(@)]
      /\ payment' = Cancelled(payment, {x}) /\ entry' = entry /\ since' = since /\ picked' = picked
  BY DEF SettleOutside
<1>2. /\ \A i \in DOMAIN invoice : invoice[i] \in Invoice /\ RowSound(entry, invoice[i])
      /\ since \in 0 .. MaxEntry + 1 /\ Payments(payment) /\ entry \in Seq(Entry)
      /\ Rows(entry, invoice)
  BY Known DEF Rows
<1>3. v \in Invoice /\ RowSound(entry, v) /\ w = PaidOutside(v)
  BY <1>2
<1>4. DOMAIN V = DOMAIN invoice /\ V = [i \in DOMAIN V |-> V[i]]
      /\ \A i \in DOMAIN invoice : V[i] = IF i = x THEN w ELSE invoice[i]
  BY <1>1
<1> HIDE DEF v, w, V
<1>5. w \in Invoice /\ RowSound(entry, w) /\ w.by = v.by /\ Remaining(w) = 0
  BY <1>1, <1>3, OutsideRow
<1>6. w.status # "pending"
  <2>1. Remaining(w) > 0 \/ w.status # "pending"
    BY <1>5, RemainingIs
  <2> QED BY <1>5, <2>1
<1>7. ASSUME NEW i \in DOMAIN invoice
      PROVE  /\ V[i] \in Invoice /\ RowSound(entry, V[i])
             /\ \A e \in 0 .. MaxEntry : V[i].by[e] <= invoice[i].by[e]
             /\ V[i].status = "pending" => invoice[i].status = "pending"
             /\ Remaining(V[i]) <= Remaining(invoice[i])
  <2>1. \A e \in 0 .. MaxEntry : invoice[i].by[e] \in Nat
    BY <1>2 DEF Invoice
  <2>2. Remaining(invoice[i]) \in Nat
    BY <1>2, RemainingType
  <2>3. CASE i = x
    <3>1. V[i] = w /\ invoice[i] = v
      BY <1>4, <2>3 DEF v
    <3> QED BY <1>5, <1>6, <2>1, <2>2, <3>1
  <2>4. CASE i # x
    BY <1>2, <1>4, <2>1, <2>2, <2>4
  <2> QED BY <2>3, <2>4
<1>8. Sound(entry, V)
  BY <1>2, <1>4, <1>7, RowsChanged
<1>9. OpenTotal(V) <= OpenTotal(invoice)
  <2>1. Rows(entry, V)
    BY <1>8 DEF Sound
  <2> QED BY <1>2, <1>4, <1>7, <2>1, OpenFalls
<1>10. TypeOK'
  <2>1. Payments(payment') /\ picked \subseteq DOMAIN payment
    BY <1>1, <1>2, CancelledType DEF LedgerInv, TypeOK
  <2>2. Rows(entry, V)
    BY <1>8 DEF Sound
  <2> QED BY <1>1, <1>2, <2>1, <2>2, SameTypes DEF TypeOK, V
<1> QED BY <1>1, <1>8, <1>9, <1>10, OnlyRows DEF V

(* settlement_quote: no more is asked for than the debt.                   *)
LEMMA OldBalanceIs ==
  ASSUME LedgerAssumption, LedgerInv, OldBalance # 0
  PROVE  /\ OldBalance \in Nat \ {0}
         /\ OldBalance + OpenTotal(invoice) <= Debt(entry)
<1>1. Debt(entry) \in Nat /\ OpenTotal(invoice) \in Nat /\ OutsideTotal(invoice) \in Nat
  BY TotalsType, Known
<1> QED BY <1>1 DEF OldBalance, Minus

LEMMA Settlement ==
  ASSUME LedgerAssumption, LedgerInv, OldBalance # 0, Len(invoice) < MaxInvoice,
         NEW V, V = NewInvoice(OldBalance, 0)
  PROVE  Sound(entry, V) /\ OpenTotal(V) <= Debt(entry)
<1> DEFINE a == OldBalance
           r == [amount |-> a, status |-> "unpaid", charge |-> 0,
                 by |-> [e \in 0 .. MaxEntry |-> 0], outside |-> 0]
<1>1. V = Append(invoice, r) /\ Fresh(r, a, 0)
  BY DEF NewInvoice, Fresh
<1>2. a \in Nat \ {0} /\ a + OpenTotal(invoice) <= Debt(entry)
  BY OldBalanceIs
<1>3. Sound(entry, invoice) /\ MaxEntry \in Nat
  BY Known
<1> DEFINE c == 0
<1>4. c \in 0 .. MaxEntry /\ (c # 0 => c \in DOMAIN entry /\ entry[c].kind = "charge") /\ Fresh(r, a, c)
  BY <1>1, <1>3
<1> HIDE DEF a, r, c
<1>5. Sound(entry, V) /\ OpenTotal(V) = OpenTotal(invoice) + a /\ OpenTotal(invoice) \in Nat
  <2>1. V = Append(invoice, r)
    BY <1>1
  <2>2. a \in Nat \ {0}
    BY <1>2
  <2>3. Sound(entry, invoice)
    BY <1>3
  <2>4. c \in 0 .. MaxEntry
    BY <1>4
  <2>5. c # 0 => c \in DOMAIN entry /\ entry[c].kind = "charge"
    BY <1>4
  <2>6. Fresh(r, a, c)
    BY <1>4
  <2>7. Sound(entry, V)
    BY <2>1, <2>2, <2>3, <2>4, <2>5, <2>6, InvoiceAdded, Zenon
  <2>8. Opens(invoice, a, V)
    BY <2>1, <2>2, <2>3, <2>4, <2>5, <2>6, InvoiceAdded, Zenon
  <2>9. OpenTotal(invoice) \in Nat
    BY TotalsType, Known
  <2> QED BY <2>7, <2>8, <2>9 DEF Opens
<1>6. Debt(entry) \in Nat
  BY TotalsType, Known
<1> QED BY <1>2, <1>5, <1>6

LEMMA SettlementGood == ASSUME LedgerAssumption, LedgerInv, IssueSettlement PROVE Good
<1>1. /\ OldBalance # 0 /\ Len(invoice) < MaxInvoice /\ FirstInvoice /\ invoice' = NewInvoice(OldBalance, 0)
      /\ entry' = entry /\ payment' = payment /\ picked' = picked
  BY DEF IssueSettlement
<1>2. Sound(entry, invoice') /\ OpenTotal(invoice') <= Debt(entry)
  BY <1>1, Settlement
<1>3. since' \in 0 .. MaxEntry + 1
  BY <1>1, FirstType
<1>4. TypeOK'
  BY <1>1, <1>2, <1>3 DEF TypeOK, LedgerInv, Sound, Rows
<1> QED BY <1>1, <1>2, <1>4, OnlyRows

LEMMA CheckoutType ==
  ASSUME LedgerAssumption, LedgerInv, NEW V, Sound(entry, V), NEW I \in SUBSET Unpaid(V),
         Len(payment) < MaxPayment
  PROVE  /\ Checkout(V, I) \in Seq(Payment) /\ Len(Checkout(V, I)) <= MaxPayment
         /\ DOMAIN payment \subseteq DOMAIN Checkout(V, I)
<1> DEFINE P == Cancelled(payment, I)
           m == [i \in 1 .. MaxInvoice |-> IF i \in I THEN Remaining(V[i]) ELSE 0]
           r == [status |-> "pending_payment", items |-> m]
<1>1. \A i \in I : Remaining(V[i]) \in Nat
  <2>1. \A i \in DOMAIN V : V[i] \in Invoice
    BY DEF Sound, Rows
  <2> QED BY <2>1, RemainingType DEF Unpaid
<1>2. m \in [1 .. MaxInvoice -> Nat]
  BY <1>1
<1> HIDE DEF m
<1>3. r \in Payment
  BY <1>2 DEF Payment
<1>4. Payments(P)
  BY Known, CancelledType
<1>5. Checkout(V, I) = Append(P, r)
  BY DEF Checkout, m
<1> HIDE DEF P, r
<1>6. P \in Seq(Payment) /\ Len(P) = Len(payment) /\ Len(payment) \in Nat /\ DOMAIN payment = 1 .. Len(payment)
      /\ MaxPayment \in Nat
  BY <1>4 DEF Payments, LedgerInv, TypeOK, LedgerAssumption
<1>7. Append(P, r) \in Seq(Payment) /\ Len(Append(P, r)) = Len(payment) + 1 /\ DOMAIN Append(P, r) = 1 .. Len(payment) + 1
  BY <1>3, <1>6
<1> QED BY <1>5, <1>6, <1>7

LEMMA CreatePaymentGood ==
  ASSUME LedgerAssumption, LedgerInv, NEW I \in SUBSET Unpaid(invoice), CreatePayment(I)
  PROVE  Good
<1>1. /\ Len(payment) < MaxPayment /\ payment' = Checkout(invoice, I)
      /\ entry' = entry /\ invoice' = invoice /\ since' = since /\ picked' = picked
  BY DEF CreatePayment
<1>2. Sound(entry, invoice)
  BY Known
<1>3. /\ payment' \in Seq(Payment) /\ Len(payment') <= MaxPayment
      /\ DOMAIN payment \subseteq DOMAIN payment'
  BY <1>1, <1>2, CheckoutType
<1>4. TypeOK'
  BY <1>1, <1>3 DEF TypeOK, LedgerInv
<1>5. OpenTotal(invoice) \in Nat
  BY TotalsType, Known
<1> QED BY <1>1, <1>2, <1>4, <1>5, OnlyRows

LEMMA PayAllGood == ASSUME LedgerAssumption, LedgerInv, PayAll PROVE Good
<1> DEFINE V == invoice'
<1>1. /\ V = IF OldBalance = 0 THEN invoice ELSE NewInvoice(OldBalance, 0)
      /\ Len(payment) < MaxPayment /\ Len(V) <= MaxInvoice
      /\ FirstInvoice \/ since' = since
      /\ payment' = Checkout(V, Unpaid(V)) /\ entry' = entry /\ picked' = picked
  BY DEF PayAll
<1>2. Sound(entry, V) /\ (OpenTotal(V) <= OpenTotal(invoice) \/ OpenTotal(V) <= Debt(entry))
  <2>1. CASE OldBalance = 0
    <3>1. OpenTotal(invoice) \in Nat
      BY TotalsType, Known
    <3> HIDE DEF V
    <3>2. V = invoice
      BY <1>1, <2>1
    <3> QED BY <3>1, <3>2, Known
  <2>2. CASE OldBalance # 0
    <3>1. V = NewInvoice(OldBalance, 0)
      BY <1>1, <2>2
    <3>2. Len(V) = Len(invoice) + 1 /\ MaxInvoice \in Nat /\ Len(invoice) \in Nat
      BY <3>1, Known DEF NewInvoice, Rows
    <3>3. Len(invoice) < MaxInvoice
      BY <1>1, <3>2
    <3> HIDE DEF V
    <3> QED BY <2>2, <3>1, <3>3, Settlement
  <2> QED BY <2>1, <2>2
<1>3. since' \in 0 .. MaxEntry + 1
  BY <1>1, FirstType
<1>4. /\ payment' \in Seq(Payment) /\ Len(payment') <= MaxPayment
      /\ DOMAIN payment \subseteq DOMAIN payment'
  <2> DEFINE I == Unpaid(V)
  <2>1. I \in SUBSET Unpaid(V) /\ payment' = Checkout(V, I)
    BY <1>1
  <2> HIDE DEF I, V
  <2> QED BY <1>1, <1>2, <2>1, CheckoutType
<1>5. TypeOK'
  BY <1>1, <1>2, <1>3, <1>4 DEF TypeOK, LedgerInv, Sound, Rows
<1> QED BY <1>1, <1>2, <1>5, OnlyRows
-----------------------------------------------------------------------------
(* Invoices go to review and come back; what they ask for does not change. *)
LEMMA MovedGood ==
  ASSUME LedgerAssumption, LedgerInv, NEW p, NEW from \in {"unpaid", "pending"},
         NEW to \in {"unpaid", "pending"},
         invoice' = Moved(p, from, to) \/ invoice' = invoice,
         Payments(payment'), entry' = entry, since' = since, picked' \subseteq DOMAIN payment
  PROVE  Good
<1> DEFINE V == invoice'
<1>1. /\ \A i \in DOMAIN invoice : invoice[i] \in Invoice /\ RowSound(entry, invoice[i])
      /\ since \in 0 .. MaxEntry + 1 /\ entry \in Seq(Entry) /\ Rows(entry, invoice)
      /\ DOMAIN invoice = 1 .. Len(invoice) /\ Len(invoice) \in Nat
      /\ \A e \in DOMAIN entry : entry[e].kind # "checkout" => Given(invoice, e) <= entry[e].amount
  BY Known DEF Rows, Sound
<1>2. DOMAIN V = DOMAIN invoice /\ V = [i \in DOMAIN V |-> V[i]]
      /\ \A i \in DOMAIN invoice : \/ V[i] = invoice[i]
                                   \/ invoice[i].status = from /\ V[i] = [invoice[i] EXCEPT !.status = to]
  <2>1. CASE invoice' = Moved(p, from, to)
    BY <2>1 DEF Moved
  <2>2. CASE invoice' = invoice
    BY <1>1, <2>2 DEF Rows
  <2> QED BY <2>1, <2>2
<1> HIDE DEF V
<1>3. ASSUME NEW i \in DOMAIN invoice
      PROVE  /\ V[i] \in Invoice /\ RowSound(entry, V[i]) /\ V[i].by = invoice[i].by
             /\ Remaining(V[i]) = Remaining(invoice[i])
  <2> DEFINE v == invoice[i]
             w == V[i]
  <2>1. v \in Invoice /\ RowSound(entry, v)
    BY <1>1
  <2>2. w = v \/ (v.status \in {"unpaid", "pending"} /\ w = [v EXCEPT !.status = to])
    BY <1>2
  <2> HIDE DEF v, w
  <2>3. w \in Invoice /\ RowSound(entry, w) /\ w.by = v.by /\ Remaining(w) = Remaining(v)
    BY <2>1, <2>2, MovedRow
  <2> QED BY <2>3 DEF v, w
<1>4. \A i \in DOMAIN invoice :
        /\ V[i] \in Invoice /\ RowSound(entry, V[i])
        /\ \A e \in DOMAIN entry : entry[e].kind # "checkout" => V[i].by[e] <= invoice[i].by[e]
        /\ Remaining(V[i]) <= Remaining(invoice[i])
  <2> SUFFICES ASSUME NEW i \in DOMAIN invoice
               PROVE  /\ \A e \in DOMAIN entry : V[i].by[e] <= invoice[i].by[e]
                      /\ Remaining(V[i]) <= Remaining(invoice[i])
    BY <1>3
  <2>1. invoice[i].by \in [0 .. MaxEntry -> Nat]
    BY <1>1 DEF Invoice
  <2>2. \A e \in DOMAIN entry : e \in 0 .. MaxEntry
    BY Known
  <2>3. \A e \in DOMAIN entry : invoice[i].by[e] \in Nat
    BY <2>1, <2>2
  <2>4. Remaining(invoice[i]) \in Nat
    BY <1>1, RemainingType
  <2> QED BY <1>3, <2>3, <2>4
<1>5. Sound(entry, V)
  BY <1>1, <1>2, <1>4, RowsSound
<1>6. OpenTotal(V) <= OpenTotal(invoice)
  <2>1. Rows(entry, V)
    BY <1>5 DEF Sound
  <2> QED BY <1>1, <1>2, <1>4, <2>1, OpenFalls
<1>7. TypeOK'
  <2>2. Rows(entry, V)
    BY <1>5 DEF Sound
  <2> QED BY <1>1, <2>2, SameTypes DEF TypeOK, V
<1> QED BY <1>5, <1>6, <1>7, OnlyRows DEF V

LEMMA PaymentGood ==
  ASSUME LedgerAssumption, LedgerInv, NEW p \in DOMAIN payment,
         \/ SubmitReceipt(p) \/ CancelPayment(p) \/ Expire(p) \/ PickNear(p)
         \/ FlagMismatch(p) \/ Reject(p)
  PROVE  Good
<1>1. picked \subseteq DOMAIN payment /\ Payments(payment)
  BY Known DEF LedgerInv, TypeOK
<1>2. \A s \in {"pending_review", "rejected", "expired", "cancelled"} : Payments(MoveTo(p, s))
  BY MoveToType
<1>3. CASE SubmitReceipt(p)
  <2>1. /\ payment' = MoveTo(p, "pending_review") /\ invoice' = Moved(p, "unpaid", "pending")
        /\ entry' = entry /\ since' = since /\ picked' = picked
    BY <1>3 DEF SubmitReceipt
  <2> QED BY <1>1, <1>2, <2>1, MovedGood
<1>4. CASE CancelPayment(p) \/ Expire(p) \/ PickNear(p)
  <2>1. /\ payment' \in {payment, MoveTo(p, "cancelled"), MoveTo(p, "expired")} /\ invoice' = invoice
        /\ entry' = entry /\ since' = since /\ picked' \subseteq picked \cup {p}
    BY <1>4 DEF CancelPayment, Expire, PickNear
  <2>2. Payments(payment') /\ picked' \subseteq DOMAIN payment
    BY <1>1, <1>2, <2>1
  <2> QED BY <2>1, <2>2, MovedGood
<1>5. CASE FlagMismatch(p)
  <2>1. /\ payment' \in {payment, MoveTo(p, "pending_review")} /\ invoice' = Moved(p, "unpaid", "pending")
        /\ entry' = entry /\ since' = since /\ picked' \subseteq picked
    BY <1>5 DEF FlagMismatch
  <2>2. Payments(payment') /\ picked' \subseteq DOMAIN payment
    BY <1>1, <1>2, <2>1
  <2> QED BY <2>1, <2>2, MovedGood
<1>6. CASE Reject(p)
  <2>1. /\ payment' = MoveTo(p, "rejected") /\ invoice' = Moved(p, "pending", "unpaid")
        /\ entry' = entry /\ since' = since /\ picked' = picked
    BY <1>6 DEF Reject
  <2> QED BY <1>1, <1>2, <2>1, MovedGood
<1> QED BY <1>3, <1>4, <1>5, <1>6
-----------------------------------------------------------------------------
(* approve_payment: the entry settles what its items ask for.              *)
LEMMA ApprovedRow ==
  ASSUME LedgerAssumption, NEW E, NEW v \in Invoice, RowSound(E, v),
         v.status \in {"unpaid", "pending"},
         NEW n \in 1 .. MaxEntry, Gives(E, n), v.by[n] = 0,
         NEW t \in Nat, t <= Remaining(v),
         NEW w, w = Refreshed([v EXCEPT !.by[n] = t])
  PROVE  /\ w \in Invoice /\ RowSound(E, w) /\ w.status \in {v.status, "paid"}
         /\ \A e \in 0 .. MaxEntry : e # n => w.by[e] = v.by[e]
<1> DEFINE h == [e \in 0 .. MaxEntry |-> IF e = n THEN t ELSE 0]
           z == [e \in 0 .. MaxEntry |-> 0]
<1>1. MaxEntry \in Nat /\ v.by \in [0 .. MaxEntry -> Nat] /\ n \in 0 .. MaxEntry
  BY DEF LedgerAssumption, Invoice
<1>2. h \in [0 .. MaxEntry -> Nat]
  OBVIOUS
<1>3. Full(h, MaxEntry) = t
  <2>1. z[0] = 0 /\ \A k \in 1 .. MaxEntry : z[k] = 0
    BY <1>1
  <2>2. h[n] = t /\ z[n] = 0 /\ (\A k \in 0 .. MaxEntry : h[k] \in Nat /\ z[k] \in Nat)
        /\ \A k \in 0 .. MaxEntry : k # n => h[k] = z[k]
    BY <1>1
  <2> DEFINE m == MaxEntry
  <2>3. m \in Nat /\ n \in 0 .. m /\ (\A k \in 0 .. m : z[k] \in Nat /\ h[k] \in Nat)
        /\ (\A k \in 0 .. m : k # n => h[k] = z[k])
    BY <1>1, <2>2
  <2> HIDE DEF h, z
  <2>4. Full(z, MaxEntry) = 0
    <3>1. SumTo(z, MaxEntry) = 0
      BY <1>1, <2>1, SumNone
    <3> QED BY <2>1, <3>1 DEF Full
  <2> HIDE DEF m
  <2>5. Full(h, m) = Full(z, m) + h[n] - z[n]
    BY <2>3, FullPoint
  <2> QED BY <2>2, <2>4, <2>5 DEF m
<1>4. [v EXCEPT !.by[n] = t] = [v EXCEPT !.by = [e \in DOMAIN @ |-> @[e] + h[e]]]
  <2>1. \A e \in 0 .. MaxEntry : v.by[e] + h[e] = IF e = n THEN t ELSE v.by[e]
    BY <1>1
  <2> HIDE DEF h
  <2>2. [v.by EXCEPT ![n] = t] = [e \in 0 .. MaxEntry |-> IF e = n THEN t ELSE v.by[e]]
    BY <1>1
  <2>3. [e \in DOMAIN v.by |-> v.by[e] + h[e]] = [e \in 0 .. MaxEntry |-> IF e = n THEN t ELSE v.by[e]]
    BY <1>1, <2>1
  <2>4. [v EXCEPT !.by[n] = t] = [v EXCEPT !.by = [v.by EXCEPT ![n] = t]]
    OBVIOUS
  <2>5. [v EXCEPT !.by = [e \in DOMAIN @ |-> @[e] + h[e]]] = [v EXCEPT !.by = [e \in DOMAIN v.by |-> v.by[e] + h[e]]]
    OBVIOUS
  <2> QED BY <2>2, <2>3, <2>4, <2>5
<1>5. w = Added(v, h)
  BY <1>4 DEF Added
<1>6. \A e \in 1 .. MaxEntry : h[e] # 0 => Gives(E, e)
  OBVIOUS
<1>7. \A e \in 0 .. MaxEntry : e # n => h[e] = 0
  OBVIOUS
<1> HIDE DEF h
<1>8. Full(h, MaxEntry) <= Remaining(v)
  BY <1>3
<1>9. /\ w \in Invoice /\ RowSound(E, w) /\ w.status \in {v.status, "paid"}
      /\ \A e \in 0 .. MaxEntry : w.by[e] = v.by[e] + h[e]
  <2>1. Lays(E, v, h)
    BY <1>2, <1>6, <1>8 DEF Lays
  <2>2. LaidOn(E, v, h, w)
    BY <1>5, <2>1, AddedRow
  <2> QED BY <2>2 DEF LaidOn
<1>10. \A e \in 0 .. MaxEntry : v.by[e] \in Nat
  BY <1>1
<1> QED BY <1>7, <1>9, <1>10

LEMMA ApproveGood ==
  ASSUME LedgerAssumption, LedgerInv, NEW p \in DOMAIN payment,
         NEW covered \in 1 .. AskedFor(p), Approve(p, covered)
  PROVE  Good
<1> DEFINE n == Len(entry) + 1
           E == NewEntry("checkout", covered)
           Take(i) == Min({payment[p].items[i], Remaining(invoice[i])})
           Paid(i) == Refreshed([invoice[i] EXCEPT !.by[n] = Take(i)])
           V == [i \in DOMAIN invoice |->
                   IF i \notin Paying(p) \/ Remaining(invoice[i]) = 0 THEN invoice[i]
                   ELSE [Paid(i) EXCEPT !.status = IF @ = "pending" THEN "unpaid" ELSE @]]
           P == MoveTo(p, "approved")
<1>1. Len(entry) < MaxEntry /\ since' = since /\ Books(E, V, P)
  BY DEF Approve
<1>2. payment[p].items \in [1 .. MaxInvoice -> Nat]
  <2>1. payment[p] \in Payment
    BY DEF LedgerInv, TypeOK
  <2> QED BY <2>1 DEF Payment
<1>3. covered \in Nat
  <2> DEFINE f == payment[p].items
  <2>1. MaxInvoice \in Nat /\ \A k \in 1 .. MaxInvoice : f[k] \in Nat
    BY <1>2, Known
  <2> HIDE DEF f
  <2>2. SumTo(f, MaxInvoice) \in Nat
    BY <2>1, SumNat
  <2>3. AskedFor(p) \in Nat
    BY <2>2 DEF AskedFor, f
  <2> QED BY <2>3
<1>4. /\ Sound(E, invoice) /\ n \in 1 .. MaxEntry /\ n \in DOMAIN E
      /\ E[n].kind = "checkout" /\ ~E[n].void
      /\ \A i \in DOMAIN invoice : invoice[i].by[n] = 0
  <2>1. n = Len(entry) + 1 /\ E = NewEntry("checkout", covered) /\ "checkout" \in Owing \cup Reducing
    BY DEF Reducing
  <2> HIDE DEF n, E
  <2> QED BY <1>1, <1>3, <2>1, NewEntrySound
<1>5. /\ DOMAIN V = DOMAIN invoice /\ V = [i \in DOMAIN V |-> V[i]]
      /\ \A i \in DOMAIN invoice :
           V[i] = IF i \notin Paying(p) \/ Remaining(invoice[i]) = 0 THEN invoice[i]
                  ELSE [Paid(i) EXCEPT !.status = IF @ = "pending" THEN "unpaid" ELSE @]
  OBVIOUS
<1>6. since' \in 0 .. MaxEntry + 1 /\ Payments(P)
  BY <1>1, Known, MoveToType
<1>7. Gives(E, n)
  BY <1>4 DEF Gives, Reducing
<1>8. /\ Rows(E, invoice) /\ E \in Seq(Entry)
      /\ \A i \in DOMAIN invoice : invoice[i] \in Invoice /\ RowSound(E, invoice[i])
      /\ \A e \in DOMAIN E : E[e].kind # "checkout" => Given(invoice, e) <= E[e].amount
      /\ Len(E) \in Nat /\ DOMAIN E = 1 .. Len(E) /\ Len(E) <= MaxEntry
      /\ DOMAIN invoice = 1 .. Len(invoice) /\ Len(invoice) <= MaxInvoice /\ MaxInvoice \in Nat /\ Len(invoice) \in Nat
  BY <1>4, Known DEF Sound, Rows
<1> HIDE DEF V, E, P, n
<1>9. ASSUME NEW i \in DOMAIN invoice
      PROVE  /\ V[i] \in Invoice /\ RowSound(E, V[i])
             /\ \A e \in 0 .. MaxEntry : e # n => V[i].by[e] = invoice[i].by[e]
             /\ V[i].status = "pending" => invoice[i].status = "pending"
  <2> DEFINE v == invoice[i]
             w == V[i]
             t == Take(i)
             u == Paid(i)
  <2>1. v \in Invoice /\ RowSound(E, v) /\ v.by[n] = 0
    BY <1>4, <1>8
  <2>2. t \in Nat /\ t <= Remaining(v)
    <3> DEFINE a == payment[p].items[i]
               b == Remaining(v)
    <3>1. a \in Nat /\ b \in Nat
      BY <1>2, <1>8, <2>1, RemainingType
    <3> HIDE DEF a, b
    <3>2. {a, b} = {a, b, b}
      OBVIOUS
    <3>3. Min({a, b, b}) \in {a, b, b} /\ Min({a, b, b}) <= b
      BY <3>1, MinType
    <3> QED BY <3>1, <3>2, <3>3 DEF a, b
  <2>3. u = Refreshed([v EXCEPT !.by[n] = t])
    OBVIOUS
  <2>4. w = IF i \notin Paying(p) \/ Remaining(v) = 0 THEN v
            ELSE [u EXCEPT !.status = IF @ = "pending" THEN "unpaid" ELSE @]
    BY <1>5
  <2> HIDE DEF v, w, t, u
  <2>5. CASE i \notin Paying(p) \/ Remaining(v) = 0
    BY <2>1, <2>4, <2>5 DEF v, w
  <2>6. CASE ~(i \notin Paying(p) \/ Remaining(v) = 0)
    <3>1. v.status \in {"unpaid", "pending"}
      BY <2>6 DEF Remaining
    <3>2. /\ u \in Invoice /\ RowSound(E, u) /\ u.status \in {v.status, "paid"}
          /\ \A e \in 0 .. MaxEntry : e # n => u.by[e] = v.by[e]
      BY <1>4, <1>7, <2>1, <2>2, <2>3, <3>1, ApprovedRow
    <3>3. CASE u.status = "pending"
      <4>1. w = [u EXCEPT !.status = "unpaid"]
        BY <2>4, <2>6, <3>3
      <4>2. w \in Invoice /\ RowSound(E, w) /\ w.by = u.by /\ w.status = "unpaid"
        BY <3>2, <3>3, <4>1, MovedRow
      <4> QED BY <3>2, <4>2 DEF v, w
    <3>4. CASE u.status # "pending"
      <4>1. w = u
        BY <2>4, <2>6, <3>2, <3>4 DEF Invoice
      <4> QED BY <3>2, <3>4, <4>1 DEF v, w
    <3> QED BY <3>3, <3>4
  <2> QED BY <2>5, <2>6
<1>10. \A i \in DOMAIN invoice :
         /\ V[i] \in Invoice /\ RowSound(E, V[i])
         /\ \A e \in DOMAIN E : E[e].kind # "checkout" => V[i].by[e] <= invoice[i].by[e]
  <2> SUFFICES ASSUME NEW i \in DOMAIN invoice, NEW e \in DOMAIN E, E[e].kind # "checkout"
               PROVE  V[i].by[e] <= invoice[i].by[e]
    BY <1>9
  <2>1. invoice[i].by \in [0 .. MaxEntry -> Nat]
    BY <1>8 DEF Invoice
  <2>2. e \in 0 .. MaxEntry /\ e # n
    BY <1>4, <1>8, Known
  <2>3. invoice[i].by[e] \in Nat
    BY <2>1, <2>2
  <2> QED BY <1>9, <2>2, <2>3
<1>11. Sound(E, V)
  BY <1>5, <1>8, <1>10, RowsSound
<1>12. NoPending(invoice) => NoPending(V)
  BY <1>5, <1>9 DEF NoPending
<1> QED BY <1>1, <1>6, <1>11, <1>12, Balanced
-----------------------------------------------------------------------------
LEMMA StartGood == Init => LedgerInv
<1>1. SUFFICES ASSUME Init PROVE LedgerInv
  OBVIOUS
<1>2. entry = <<>> /\ invoice = <<>> /\ payment = <<>> /\ since = 0 /\ picked = {}
  BY <1>1 DEF Init
<1>3. TypeOK
  BY <1>2, LedgerAssumption DEF TypeOK, LedgerAssumption
<1>4. Sound(entry, invoice)
  BY <1>2, LedgerAssumption DEF Sound, Rows, LedgerAssumption
<1> QED BY <1>3, <1>4 DEF LedgerInv

LEMMA StepGood == ASSUME LedgerAssumption, LedgerInv, [Next]_vars PROVE Good
<1>1. ASSUME NEW a \in Price, Charge(a) PROVE Good
  BY <1>1, ChargeGood DEF LedgerAssumption
<1>2. ASSUME NEW a \in Amount, Increase(a) PROVE Good
  BY <1>2, IncreaseGood DEF LedgerAssumption
<1>3. ASSUME NEW a \in Amount, NEW order \in SetToAllKPermutations(Unpaid(invoice)), Reduce(a, order) PROVE Good
  BY <1>3, ReduceGood DEF LedgerAssumption
<1>4. CASE UNCHANGED vars
  <2>1. entry' = entry /\ invoice' = invoice /\ payment' = payment /\ since' = since /\ picked' = picked
    BY <1>4 DEF vars
  <2>2. LedgerInv'
    BY <2>1 DEF LedgerInv, TypeOK
  <2>3. Excess(entry, invoice) \in Nat
    BY TotalsType DEF LedgerInv, Sound
  <2> QED BY <2>1, <2>2, <2>3 DEF Good
<1> QED BY <1>1, <1>2, <1>3, <1>4, VoidEntryGood, VoidInvoiceGood, SettleOutsideGood, SettlementGood,
           CreatePaymentGood, PayAllGood, PaymentGood, ApproveGood DEF Next

(* The account stays sound, for any amounts and any number of rows: the    *)
(* inductive invariant behind the next three.                              *)
THEOREM AccountSound == Spec => []LedgerInv
<1>1. LedgerInv /\ [Next]_vars => LedgerInv'
  BY StepGood, LedgerAssumption DEF Good
<1> QED BY <1>1, StartGood, PTL DEF Spec

(* The rows have their types and their bounds.                             *)
THEOREM LedgerTypes == Spec => []TypeOK
<1>1. LedgerInv => TypeOK
  BY DEF LedgerInv
<1> QED BY <1>1, AccountSound, PTL

(* An invoice is paid exactly when allocations cover it, never by more     *)
(* than its amount, and a voided one holds no money (allocation).          *)
THEOREM LedgerPaidExactly == Spec => []PaidExactly
<1>1. LedgerInv => PaidExactly
  <2> SUFFICES ASSUME LedgerInv, NEW i \in DOMAIN invoice
               PROVE  /\ Settled(invoice[i]) <= invoice[i].amount
                      /\ invoice[i].status = "paid" <=> Settled(invoice[i]) = invoice[i].amount
                      /\ invoice[i].status = "voided" => Settled(invoice[i]) = 0
    BY DEF PaidExactly
  <2> DEFINE v == invoice[i]
             b == v.by
  <2>1. v \in Invoice /\ RowSound(entry, v) /\ MaxEntry \in Nat
    BY Known, LedgerAssumption
  <2>2. ASSUME v.status = "voided" PROVE Settled(v) = 0
    <3>1. v.outside = 0 /\ b[0] = 0 /\ \A e \in 1 .. MaxEntry : b[e] = 0
      BY <2>1, <2>2 DEF RowSound
    <3> HIDE DEF b
    <3>2. SumTo(b, MaxEntry) = 0
      BY <2>1, <3>1, SumNone
    <3> QED BY <3>1, <3>2 DEF Settled, b
  <2> QED BY <2>1, <2>2 DEF RowSound
<1> QED BY <1>1, AccountSound, PTL

(* No entry settles more than it has (a checkout may settle a rounded      *)
(* shortfall on top), and a voided one nothing (entry_credit, release).    *)
THEOREM LedgerNotOverspent == Spec => []NotOverspent
<1>1. LedgerInv => NotOverspent
  <2> SUFFICES ASSUME LedgerInv, NEW e \in DOMAIN entry
               PROVE  /\ entry[e].void => Given(invoice, e) = 0
                      /\ entry[e].kind # "checkout" => Given(invoice, e) <= entry[e].amount
    BY DEF NotOverspent
  <2>1. Sound(entry, invoice) /\ e \in 1 .. MaxEntry /\ Len(invoice) \in Nat /\ DOMAIN invoice = 1 .. Len(invoice)
        /\ \A i \in DOMAIN invoice : RowSound(entry, invoice[i])
    BY Known, LedgerAssumption
  <2>2. ASSUME entry[e].void PROVE Given(invoice, e) = 0
    <3> DEFINE f == [i \in DOMAIN invoice |-> invoice[i].by[e]]
               N == Len(invoice)
    <3>1. N \in Nat /\ \A i \in 1 .. N : f[i] = 0
      BY <2>1, <2>2 DEF RowSound, Gives
    <3> HIDE DEF f, N
    <3>2. SumTo(f, N) = 0
      BY <3>1, SumNone
    <3> QED BY <3>2 DEF Given, f, N
  <2> QED BY <2>1, <2>2 DEF Sound
<1> QED BY <1>1, AccountSound, PTL

(* Without an invoice under review, no change leaves more open beyond the  *)
(* debt than there was (enforce).                                          *)
THEOREM LedgerExcess == Spec => ExcessOnlyUnderReview
<1> DEFINE Less == (\A i \in DOMAIN invoice : invoice[i].status # "pending") /\ <<entry, invoice>>' # <<entry, invoice>>
                     => Excess(entry', invoice') <= Excess(entry, invoice)
<1>1. LedgerInv /\ [Next]_vars => [Less]_vars
  BY StepGood, LedgerAssumption DEF Good, NoPending
<1> QED BY <1>1, AccountSound, PTL DEF Spec, ExcessOnlyUnderReview
-----------------------------------------------------------------------------
(* 5. Paid invoices stay paid.                                             *)

IsSeq(s) == \E S : s \in Seq(S)

(* Every invoice of V that is paid is the same in W.                       *)
KeepsPaid(V, W) ==
  \A i \in DOMAIN V : V[i].status = "paid" => i \in DOMAIN W /\ W[i] = V[i]

IInv == IsSeq(invoice) /\ entry \in Seq(Entry)
-----------------------------------------------------------------------------
(* A list made of another one, row by row, is a list.                      *)
LEMMA RowByRow ==
  ASSUME NEW V, IsSeq(V), NEW W, DOMAIN W = DOMAIN V, W = [i \in DOMAIN W |-> W[i]]
  PROVE  IsSeq(W)
<1>1. Len(V) \in Nat /\ DOMAIN W = 1 .. Len(V)
  BY DEF IsSeq
<1> DEFINE S == {W[i] : i \in 1 .. Len(V)}
<1>2. W \in [1 .. Len(V) -> S]
  BY <1>1
<1>3. W \in Seq(S)
  BY <1>1, <1>2
<1> QED BY <1>3 DEF IsSeq

(* So is one with a row more, and the old rows are where they were.        *)
LEMMA OneMore ==
  ASSUME NEW V, IsSeq(V), NEW r
  PROVE  IsSeq(Append(V, r)) /\ KeepsPaid(V, Append(V, r))
<1>1. PICK S : V \in Seq(S)
  BY DEF IsSeq
<1>2. V \in Seq(S \cup {r})
  BY <1>1
<1>3. Append(V, r) \in Seq(S \cup {r})
  BY <1>2
<1>4. \A i \in DOMAIN V : i \in DOMAIN Append(V, r) /\ Append(V, r)[i] = V[i]
  BY <1>1
<1> QED BY <1>3, <1>4 DEF IsSeq, KeepsPaid

(* Money is laid along unpaid invoices only.                               *)
LEMMA AllocatedKeeps ==
  ASSUME NEW V, IsSeq(V), NEW dst, NEW src, NEW credit, NEW cap
  PROVE  LET W == Allocated(V, dst, src, credit, cap) IN IsSeq(W) /\ KeepsPaid(V, W)
<1> DEFINE W == Allocated(V, dst, src, credit, cap)
<1>1. DOMAIN W = DOMAIN V /\ W = [i \in DOMAIN W |-> W[i]]
  BY DEF Allocated
<1>2. \A i \in DOMAIN V : V[i].status # "unpaid" => W[i] = V[i]
  BY DEF Allocated
<1>3. IsSeq(W)
  BY <1>1, RowByRow
<1> QED BY <1>1, <1>2, <1>3 DEF KeepsPaid

LEMMA EnforcedKeeps ==
  ASSUME NEW E, NEW V, IsSeq(V), NEW from
  PROVE  LET W == Enforced(E, V, from) IN IsSeq(W) /\ KeepsPaid(V, W)
<1>1. IsSeq(V) /\ KeepsPaid(V, V)
  BY DEF KeepsPaid
<1> QED BY <1>1, AllocatedKeeps DEF Enforced

LEMMA BooksKeep ==
  ASSUME NEW E, NEW V, IsSeq(V), NEW P, Books(E, V, P)
  PROVE  entry' = E /\ IsSeq(invoice') /\ KeepsPaid(V, invoice')
BY EnforcedKeeps DEF Books

LEMMA KeepsTrans ==
  ASSUME NEW U, NEW V, NEW W, KeepsPaid(U, V), KeepsPaid(V, W)
  PROVE  KeepsPaid(U, W)
BY DEF KeepsPaid

(* An invoice list changed in rows that were not paid.                     *)
LEMMA ChangedRows ==
  ASSUME NEW V, IsSeq(V), NEW W, DOMAIN W = DOMAIN V, W = [i \in DOMAIN W |-> W[i]],
         \A i \in DOMAIN V : V[i].status = "paid" => W[i] = V[i]
  PROVE  IsSeq(W) /\ KeepsPaid(V, W)
BY RowByRow DEF KeepsPaid

LEMMA NewEntryType ==
  ASSUME IInv, NEW kind \in Owing \cup Reducing, NEW a \in Nat
  PROVE  NewEntry(kind, a) \in Seq(Entry)
<1>1. [kind |-> kind, amount |-> a, void |-> FALSE] \in Entry
  BY DEF Entry
<1> QED BY <1>1 DEF NewEntry, IInv
LEMMA VoidedEntryType ==
  ASSUME IInv, NEW e
  PROVE  [entry EXCEPT ![e].void = TRUE] \in Seq(Entry)
<1> DEFINE E == [entry EXCEPT ![e].void = TRUE]
<1>1. Len(entry) \in Nat /\ DOMAIN entry = 1 .. Len(entry)
  BY DEF IInv
<1>2. ASSUME NEW k \in 1 .. Len(entry) PROVE E[k] \in Entry
  <2>1. entry[k] \in Entry
    BY DEF IInv
  <2>2. [entry[k] EXCEPT !.void = TRUE] \in Entry
    BY <2>1 DEF Entry
  <2>3. E[k] = IF k = e THEN [entry[k] EXCEPT !.void = TRUE] ELSE entry[k]
    BY <1>1
  <2> HIDE DEF E
  <2> QED BY <2>1, <2>2, <2>3
<1>3. DOMAIN E = 1 .. Len(entry) /\ E = [k \in 1 .. Len(entry) |-> E[k]]
  BY <1>1
<1> HIDE DEF E
<1>4. E \in Seq(Entry)
  BY <1>1, <1>2, <1>3
<1> QED BY <1>4 DEF E
-----------------------------------------------------------------------------
(* A paid invoice is kept, or lost an entry that settled it.               *)
Kept ==
  \A i \in DOMAIN invoice : invoice[i].status = "paid" =>
    \/ invoice'[i] = invoice[i]
    \/ \E e \in DOMAIN entry : invoice[i].by[e] # 0 /\ ~entry[e].void /\ entry'[e].void

(* add_entry and issue_for_entry                                           *)
LEMMA EntryStep ==
  ASSUME LedgerAssumption, IInv, NEW a \in Nat,
         Charge(a) \/ Increase(a) \/ \E order \in SetToAllKPermutations(Unpaid(invoice)) : Reduce(a, order)
  PROVE  IInv' /\ Kept
<1>1. CASE Charge(a)
  <2> DEFINE V == NewInvoice(a, Len(entry) + 1)
  <2>1. IsSeq(V) /\ KeepsPaid(invoice, V)
    BY OneMore DEF IInv, NewInvoice
  <2>2. Books(NewEntry("charge", a), V, payment)
    BY <1>1 DEF Charge
  <2>3. entry' = NewEntry("charge", a) /\ IsSeq(invoice') /\ KeepsPaid(V, invoice')
    BY <2>1, <2>2, BooksKeep
  <2> QED BY <2>1, <2>3, NewEntryType, KeepsTrans DEF IInv, Kept, KeepsPaid, Owing
<1>2. CASE Increase(a)
  <2>1. entry' = NewEntry("increase", a) /\ IsSeq(invoice') /\ KeepsPaid(invoice, invoice')
    BY <1>2, BooksKeep DEF Increase, IInv
  <2> QED BY <2>1, NewEntryType DEF IInv, Kept, KeepsPaid, Owing
<1>3. ASSUME NEW order, Reduce(a, order) PROVE IInv' /\ Kept
  <2> DEFINE V == Allocated(invoice, order, <<Len(entry) + 1>>, [e \in {Len(entry) + 1} |-> a], a)
  <2>1. IsSeq(V) /\ KeepsPaid(invoice, V)
    BY AllocatedKeeps DEF IInv
  <2>2. Books(NewEntry("reduce", a), V, Cancelled(payment, Changed(invoice, V)))
    BY <1>3 DEF Reduce
  <2> HIDE DEF V
  <2>3. entry' = NewEntry("reduce", a) /\ IsSeq(invoice') /\ KeepsPaid(V, invoice')
    BY <2>1, <2>2, BooksKeep
  <2> QED BY <2>1, <2>3, NewEntryType, KeepsTrans DEF IInv, Kept, KeepsPaid, Reducing
<1> QED BY <1>1, <1>2, <1>3

(* void: the only statement that takes something away from a paid invoice. *)
LEMMA VoidEntryStep ==
  ASSUME IInv, NEW x \in DOMAIN entry, VoidEntry(x)
  PROVE  IInv' /\ Kept
<1> DEFINE gone == {i \in Unpaid(invoice) : invoice[i].charge = x}
           V == [i \in DOMAIN invoice |-> IF i \in gone THEN Voided(invoice[i]) ELSE invoice[i]]
           R == Released(V, x)
           E == [entry EXCEPT ![x].void = TRUE]
<1>1. ~entry[x].void /\ Books(E, R, Cancelled(payment, gone))
  BY DEF VoidEntry
<1>2. IsSeq(V) /\ DOMAIN V = DOMAIN invoice
  BY RowByRow DEF IInv
<1>3. \A i \in DOMAIN invoice : invoice[i].status = "paid" => V[i] = invoice[i]
  BY DEF Unpaid
<1> HIDE DEF V
<1>4. IsSeq(R) /\ DOMAIN R = DOMAIN V
  BY <1>2, RowByRow DEF Released
<1>5. \A i \in DOMAIN V : V[i].by[x] = 0 => R[i] = V[i]
  BY DEF Released
<1> HIDE DEF R
<1>6. entry' = E /\ IsSeq(invoice') /\ KeepsPaid(R, invoice')
  BY <1>1, <1>4, BooksKeep
<1>7. E \in Seq(Entry) /\ E[x].void
  <2>1. entry[x] \in Entry
    BY DEF IInv
  <2>2. E[x] = [entry[x] EXCEPT !.void = TRUE]
    OBVIOUS
  <2>3. E[x].void
    BY <2>1, <2>2 DEF Entry
  <2> QED BY <2>3, VoidedEntryType
<1>8. ASSUME NEW i \in DOMAIN invoice, invoice[i].status = "paid", invoice[i].by[x] = 0
      PROVE  invoice'[i] = invoice[i]
  BY <1>2, <1>3, <1>4, <1>5, <1>6, <1>8 DEF KeepsPaid
<1> QED BY <1>1, <1>6, <1>7, <1>8 DEF IInv, Kept

(* void_invoice and settle_outside work on one unpaid invoice.             *)
LEMMA OneInvoiceStep ==
  ASSUME IInv, NEW x \in DOMAIN invoice, VoidInvoice(x) \/ SettleOutside(x)
  PROVE  IInv' /\ Kept
<1>1. CASE VoidInvoice(x)
  <2> DEFINE c == invoice[x].charge
             V == [invoice EXCEPT ![x] = Voided(@)]
             E == IF c = 0 THEN entry ELSE [entry EXCEPT ![c].void = TRUE]
  <2>1. invoice[x].status = "unpaid" /\ Books(E, V, Cancelled(payment, {x}))
    BY <1>1 DEF VoidInvoice
  <2>2. IsSeq(V) /\ KeepsPaid(invoice, V)
    BY <2>1, ChangedRows DEF IInv
  <2>3. E \in Seq(Entry)
    BY VoidedEntryType DEF IInv
  <2> HIDE DEF V, E
  <2>4. entry' = E /\ IsSeq(invoice') /\ KeepsPaid(V, invoice')
    BY <2>1, <2>2, BooksKeep
  <2> QED BY <2>2, <2>3, <2>4, KeepsTrans DEF IInv, Kept, KeepsPaid
<1>2. CASE SettleOutside(x)
  <2> DEFINE V == [invoice EXCEPT ![x] = PaidOutside(@)]
  <2>1. invoice[x].status = "unpaid" /\ invoice' = V /\ entry' = entry
    BY <1>2 DEF SettleOutside
  <2>2. IsSeq(V) /\ KeepsPaid(invoice, V)
    BY <2>1, ChangedRows DEF IInv
  <2> HIDE DEF V
  <2> QED BY <2>1, <2>2 DEF IInv, Kept, KeepsPaid
<1> QED BY <1>1, <1>2

(* issue_settlement, create_payment and pay_all add rows.                  *)
LEMMA NewRowStep ==
  ASSUME IInv, IssueSettlement \/ PayAll \/ \E I \in SUBSET Unpaid(invoice) : CreatePayment(I)
  PROVE  IInv' /\ Kept
<1>1. entry' = entry
  BY DEF IssueSettlement, PayAll, CreatePayment
<1>2. invoice' = invoice \/ invoice' = NewInvoice(OldBalance, 0)
  BY DEF IssueSettlement, PayAll, CreatePayment
<1>3. IsSeq(NewInvoice(OldBalance, 0)) /\ KeepsPaid(invoice, NewInvoice(OldBalance, 0))
  BY OneMore DEF NewInvoice, IInv
<1> QED BY <1>1, <1>2, <1>3 DEF IInv, Kept, KeepsPaid

(* A payment in review, or no longer, moves invoices that are not paid.    *)
LEMMA PaymentStep ==
  ASSUME IInv, NEW p \in DOMAIN payment,
         \/ SubmitReceipt(p) \/ CancelPayment(p) \/ Expire(p) \/ PickNear(p)
         \/ FlagMismatch(p) \/ Reject(p)
  PROVE  IInv' /\ Kept
<1>1. entry' = entry
  BY DEF SubmitReceipt, CancelPayment, Expire, PickNear, FlagMismatch, Reject
<1>2. \/ invoice' = invoice
      \/ invoice' = Moved(p, "unpaid", "pending")
      \/ invoice' = Moved(p, "pending", "unpaid")
  BY DEF SubmitReceipt, CancelPayment, Expire, PickNear, FlagMismatch, Reject
<1>3. ASSUME NEW from \in {"unpaid", "pending"}, NEW to, invoice' = Moved(p, from, to)
      PROVE  IsSeq(invoice') /\ KeepsPaid(invoice, invoice')
  BY <1>3, ChangedRows DEF Moved, IInv
<1> QED BY <1>1, <1>2, <1>3 DEF IInv, Kept, KeepsPaid

(* approve_payment settles what is open: of a paid invoice, nothing.       *)
LEMMA ApproveStep ==
  ASSUME IInv, NEW p \in DOMAIN payment, NEW covered \in 1 .. AskedFor(p), Approve(p, covered)
  PROVE  IInv' /\ Kept
<1> DEFINE n == Len(entry) + 1
           Take(i) == Min({payment[p].items[i], Remaining(invoice[i])})
           Paid(i) == Refreshed([invoice[i] EXCEPT !.by[n] = Take(i)])
           V == [i \in DOMAIN invoice |->
                   IF i \notin Paying(p) \/ Remaining(invoice[i]) = 0 THEN invoice[i]
                   ELSE [Paid(i) EXCEPT !.status = IF @ = "pending" THEN "unpaid" ELSE @]]
<1>1. Books(NewEntry("checkout", covered), V, MoveTo(p, "approved"))
  BY DEF Approve
<1>2. \A i \in DOMAIN invoice : invoice[i].status = "paid" => Remaining(invoice[i]) = 0
  BY DEF Remaining
<1> HIDE DEF Paid
<1>3. IsSeq(V) /\ KeepsPaid(invoice, V)
  BY <1>2, ChangedRows DEF IInv
<1> HIDE DEF V
<1>4. entry' = NewEntry("checkout", covered) /\ IsSeq(invoice') /\ KeepsPaid(V, invoice')
  BY <1>1, <1>3, BooksKeep
<1>5. entry' \in Seq(Entry)
  BY <1>4, NewEntryType DEF Reducing
<1> QED BY <1>3, <1>4, <1>5, KeepsTrans DEF IInv, Kept, KeepsPaid

LEMMA LedgerStep == ASSUME LedgerAssumption, IInv, [Next]_vars PROVE IInv' /\ Kept
<1>1. ASSUME NEW a \in Price, Charge(a) PROVE IInv' /\ Kept
  BY <1>1, EntryStep DEF LedgerAssumption
<1>2. ASSUME NEW a \in Amount,
             Increase(a) \/ \E order \in SetToAllKPermutations(Unpaid(invoice)) : Reduce(a, order)
      PROVE  IInv' /\ Kept
  BY <1>2, EntryStep DEF LedgerAssumption
<1>3. CASE UNCHANGED vars
  BY <1>3 DEF vars, IInv, Kept
<1> QED BY <1>1, <1>2, <1>3, VoidEntryStep, OneInvoiceStep, NewRowStep, PaymentStep, ApproveStep DEF Next

LEMMA ListsRight == LedgerInv => IInv
BY DEF LedgerInv, TypeOK, IInv, IsSeq

(* A paid invoice is asked for again only because an entry that settled it *)
(* is voided, for any amounts and any number of rows                       *)
(* (reject_payment, flag_mismatch, approve_payment, on_entry_void).        *)
THEOREM PaidInvoicesStayPaid == Spec => PaidStaysPaid
<1> DEFINE Stays == \A i \in DOMAIN invoice :
                      invoice[i].status = "paid" /\ invoice'[i].status # "paid"
                        => \E e \in DOMAIN entry : /\ invoice[i].by[e] # 0
                                                   /\ ~entry[e].void /\ entry'[e].void
<1>1. LedgerInv /\ [Next]_vars => [Stays]_vars
  BY LedgerStep, LedgerAssumption, ListsRight DEF Kept
<1> QED BY <1>1, AccountSound, PTL DEF Spec, PaidStaysPaid
=============================================================================
