--------------------------- MODULE ByteSums_proofs ---------------------------
(***************************************************************************)
(* What the sum of a sequence of bytes is, for sequences of any length.    *)
(* Induction goes through the least element of the set of counterexamples: *)
(* sets, unlike predicates, are parameters that the provers can supply.    *)
(***************************************************************************)
EXTENDS ByteSums, SequenceTheorems, WellFoundedInduction, TLAPS

\* Every set of naturals that is not empty has a least element.
LEMMA LeastNatural ==
    ASSUME NEW T, T \subseteq Nat, T # {}
    PROVE  \E n \in T : \A m \in T : n <= m
<1> DEFINE R == OpToRel(<, Nat)
<1>1. IsWellFoundedOn(R, Nat)
  BY NatLessThanWellFounded
<1>2. \A x, y \in Nat : y < x => <<y, x>> \in R
  BY DEF OpToRel
<1> HIDE DEF R
<1>3. PICK x \in T : \A y \in T : ~(<<y, x>> \in R)
  BY <1>1, WFMin
<1>4. ASSUME NEW y \in T PROVE x <= y
  <2>1. x \in Nat /\ y \in Nat
    OBVIOUS
  <2>2. ~(y < x)
    BY <2>1, <1>2, <1>3, Zenon
  <2> QED
    BY <2>1, <2>2
<1> QED
  BY <1>4

\* Induction: a set with zero and the successors of its elements has all naturals.
LEMMA Induction ==
    ASSUME NEW T, 0 \in T, \A n \in Nat : n \in T => n + 1 \in T
    PROVE  \A n \in Nat : n \in T
<1> SUFFICES ASSUME NEW n \in Nat, n \notin T PROVE FALSE
  OBVIOUS
<1> DEFINE U == {m \in Nat : m \notin T}
<1>1. PICK m \in U : \A k \in U : m <= k
  <2>1. U \subseteq Nat /\ U # {}
    OBVIOUS
  <2> HIDE DEF U
  <2> QED
    BY <2>1, LeastNatural
<1>2. m # 0 /\ m \in Nat /\ m \notin T
  OBVIOUS
<1>3. m - 1 \in Nat /\ m - 1 \notin U
  BY <1>1, <1>2
<1>4. m - 1 \in T /\ (m - 1) + 1 = m
  BY <1>2, <1>3
<1> QED
  BY <1>2, <1>3, <1>4

-----------------------------------------------------------------------------
(* Arithmetic in bytes.                                                    *)

LEMMA ModShift ==
    ASSUME NEW M \in Nat \ {0}, NEW y \in Nat, NEW k \in 0 .. (M - 1), y % M = 0
    PROVE  (y + k) % M = k
  OBVIOUS

\* Two sums that are zero in a byte and differ in one byte do not differ.
LEMMA ModSame ==
    ASSUME NEW M \in Nat \ {0}, NEW x \in Nat, NEW y \in Nat,
           NEW old \in 0 .. (M - 1), NEW new \in 0 .. (M - 1),
           x % M = 0, y % M = 0, x + old = y + new
    PROVE  old = new
  BY ModShift

\* The complement of a sum makes it zero.
LEMMA Complement ==
    ASSUME NEW M \in Nat \ {0}, NEW x \in Nat
    PROVE  /\ (M - (x % M)) % M \in 0 .. (M - 1)
           /\ (x + ((M - (x % M)) % M)) % M = 0
<1>1. (M - (x % M)) % M \in 0 .. (M - 1)
  OBVIOUS
<1>2. (x + ((M - (x % M)) % M)) % M = 0
  OBVIOUS
<1> QED
  BY <1>1, <1>2

-----------------------------------------------------------------------------
(* The running sums.                                                       *)

\* f holds the running sums of the first n bytes.
Summed(f, bytes, n) ==
    f \in [0 .. n -> Nat] /\ f[0] = 0 /\ \A m \in 1 .. n : f[m] = f[m - 1] + bytes[m]

\* They exist, so that the recursive definition defines them.
LEMMA PartialSumsDefined ==
    ASSUME NEW bytes \in Seq(Nat)
    PROVE  Summed(PartialSums(bytes), bytes, Len(bytes))
<1> DEFINE T == {n \in Nat : n <= Len(bytes) => \E f : Summed(f, bytes, n)}
<1>0. Len(bytes) \in Nat /\ \A m \in 1 .. Len(bytes) : bytes[m] \in Nat
  OBVIOUS
<1>1. 0 \in T
  <2>1. Summed([m \in 0 .. 0 |-> 0], bytes, 0)
    BY DEF Summed
  <2> QED
    BY <2>1
<1>2. ASSUME NEW n \in Nat, n \in T
      PROVE  n + 1 \in T
  <2> SUFFICES ASSUME n + 1 <= Len(bytes) PROVE \E f : Summed(f, bytes, n + 1)
    BY <1>0
  <2>1. PICK f : Summed(f, bytes, n)
    BY <1>0, <1>2
  <2> DEFINE g == [m \in 0 .. (n + 1) |-> IF m = n + 1 THEN f[n] + bytes[n + 1] ELSE f[m]]
  <2>2. bytes[n + 1] \in Nat /\ f[n] \in Nat
    BY <1>0, <2>1 DEF Summed
  <2>3. g \in [0 .. (n + 1) -> Nat] /\ g[0] = 0
    BY <2>1, <2>2 DEF Summed
  <2>4. ASSUME NEW m \in 1 .. (n + 1) PROVE g[m] = g[m - 1] + bytes[m]
    <3>1. m - 1 \in 0 .. n /\ g[m - 1] = f[m - 1]
      OBVIOUS
    <3>2. CASE m = n + 1
      BY <3>1, <3>2
    <3>3. CASE m # n + 1
      <4>1. m \in 1 .. n /\ g[m] = f[m]
        BY <3>3
      <4> QED
        BY <3>1, <4>1, <2>1 DEF Summed
    <3> QED
      BY <3>2, <3>3
  <2>5. Summed(g, bytes, n + 1)
    BY <2>3, <2>4 DEF Summed
  <2> QED
    BY <2>5
<1>3. PICK f : Summed(f, bytes, Len(bytes))
  <2>1. \A n \in Nat : n \in T
    <3> HIDE DEF T
    <3> QED
      BY <1>1, <1>2, Induction
  <2> QED
    BY <1>0, <2>1
<1> DEFINE Rec(h) == h = [n \in 0 .. Len(bytes) |-> IF n = 0 THEN 0 ELSE h[n - 1] + bytes[n]]
<1>4. Rec(f)
  BY <1>0, <1>3 DEF Summed
<1>5. PartialSums(bytes) = CHOOSE h : Rec(h)
  BY DEF PartialSums
<1>6. Rec(PartialSums(bytes))
  BY <1>4, <1>5
<1> DEFINE h == PartialSums(bytes)
<1> HIDE DEF h
<1>7. DOMAIN h = 0 .. Len(bytes) /\ h[0] = 0 /\ \A m \in 1 .. Len(bytes) : h[m] = h[m - 1] + bytes[m]
  <2>1. h = [n \in 0 .. Len(bytes) |-> IF n = 0 THEN 0 ELSE h[n - 1] + bytes[n]]
    BY <1>6 DEF h
  <2> QED
    BY <1>0, <2>1
<1>8. \A n \in Nat : n \in {k \in Nat : k <= Len(bytes) => h[k] \in Nat}
  <2> DEFINE V == {k \in Nat : k <= Len(bytes) => h[k] \in Nat}
  <2>1. 0 \in V
    BY <1>7
  <2>2. ASSUME NEW n \in Nat, n \in V PROVE n + 1 \in V
    BY <1>0, <1>7, <2>2
  <2> HIDE DEF V
  <2>3. \A n \in Nat : n \in V
    BY <2>1, <2>2, Induction
  <2> QED
    BY <2>3 DEF V
<1>9. h \in [0 .. Len(bytes) -> Nat]
  <2>1. h = [n \in 0 .. Len(bytes) |-> h[n]]
    BY <1>6 DEF h
  <2>2. \A n \in 0 .. Len(bytes) : h[n] \in Nat
    BY <1>0, <1>8
  <2> QED
    BY <2>1, <2>2
<1> QED
  BY <1>7, <1>9 DEF Summed, h

LEMMA SumNat ==
    ASSUME NEW bytes \in Seq(Nat)
    PROVE  ByteSum(bytes) \in Nat
<1>1. Len(bytes) \in 0 .. Len(bytes)
  OBVIOUS
<1> QED
  BY <1>1, PartialSumsDefined DEF ByteSum, Summed

LEMMA SumSingle ==
    ASSUME NEW byte \in Nat
    PROVE  ByteSum(<<byte>>) = byte
<1> DEFINE s == <<byte>>
<1>1. s \in Seq(Nat) /\ Len(s) = 1 /\ s[1] = byte
  OBVIOUS
<1> HIDE DEF s
<1>2. /\ PartialSums(s)[0] = 0
      /\ \A m \in 1 .. 1 : PartialSums(s)[m] = PartialSums(s)[m - 1] + s[m]
  BY <1>1, PartialSumsDefined DEF Summed
<1>3. PartialSums(s)[1] = PartialSums(s)[0] + s[1]
  BY <1>2
<1>4. ByteSum(s) = byte
  BY <1>1, <1>2, <1>3 DEF ByteSum
<1> QED
  BY <1>4 DEF s

\* The sum of two sequences one after the other.
LEMMA SumConcat ==
    ASSUME NEW s \in Seq(Nat), NEW t \in Seq(Nat)
    PROVE  ByteSum(s \o t) = ByteSum(s) + ByteSum(t)
<1> DEFINE u == s \o t
           f == PartialSums(s)
           g == PartialSums(t)
           h == PartialSums(u)
<1>1. /\ u \in Seq(Nat) /\ Len(u) = Len(s) + Len(t) /\ Len(s) \in Nat /\ Len(t) \in Nat
      /\ \A m \in 1 .. Len(s) : u[m] = s[m]
      /\ \A m \in 1 .. Len(t) : u[Len(s) + m] = t[m]
  OBVIOUS
<1>2. Summed(f, s, Len(s)) /\ Summed(g, t, Len(t)) /\ Summed(h, u, Len(u))
  BY <1>1, PartialSumsDefined
<1> HIDE DEF u, f, g, h
<1>3. h[Len(s)] = f[Len(s)]
  <2> DEFINE T == {n \in Nat : n <= Len(s) => h[n] = f[n]}
  <2>1. 0 \in T
    BY <1>2 DEF Summed
  <2>2. ASSUME NEW n \in Nat, n \in T PROVE n + 1 \in T
    <3> SUFFICES ASSUME n + 1 <= Len(s) PROVE h[n + 1] = f[n + 1]
      OBVIOUS
    <3>1. h[n] = f[n]
      BY <1>1, <2>2
    <3>2. n + 1 \in 1 .. Len(s) /\ n + 1 \in 1 .. Len(u) /\ (n + 1) - 1 = n
      BY <1>1
    <3>3. h[n + 1] = h[n] + u[n + 1] /\ f[n + 1] = f[n] + s[n + 1]
      BY <1>2, <3>2 DEF Summed
    <3> QED
      BY <1>1, <3>1, <3>2, <3>3
  <2> HIDE DEF T
  <2>3. Len(s) \in T
    BY <1>1, <2>1, <2>2, Induction
  <2> QED
    BY <1>1, <2>3 DEF T
<1>4. h[Len(s) + Len(t)] = f[Len(s)] + g[Len(t)]
  <2> DEFINE T == {n \in Nat : n <= Len(t) => h[Len(s) + n] = f[Len(s)] + g[n]}
  <2>0. f[Len(s)] \in Nat /\ \A n \in 0 .. Len(t) : g[n] \in Nat
    <3>1. Len(s) \in 0 .. Len(s)
      BY <1>1
    <3> QED
      BY <1>2, <3>1 DEF Summed
  <2>1. 0 \in T
    BY <1>1, <1>2, <1>3, <2>0 DEF Summed
  <2>2. ASSUME NEW n \in Nat, n \in T PROVE n + 1 \in T
    <3> SUFFICES ASSUME n + 1 <= Len(t) PROVE h[Len(s) + (n + 1)] = f[Len(s)] + g[n + 1]
      OBVIOUS
    <3>1. h[Len(s) + n] = f[Len(s)] + g[n]
      BY <1>1, <2>2
    <3>2. /\ n + 1 \in 1 .. Len(t) /\ (n + 1) - 1 = n
          /\ Len(s) + (n + 1) \in 1 .. Len(u) /\ (Len(s) + (n + 1)) - 1 = Len(s) + n
      BY <1>1
    <3>3. h[Len(s) + (n + 1)] = h[Len(s) + n] + u[Len(s) + (n + 1)] /\ g[n + 1] = g[n] + t[n + 1]
      BY <1>2, <3>2 DEF Summed
    <3>4. u[Len(s) + (n + 1)] = t[n + 1] /\ t[n + 1] \in Nat /\ g[n] \in Nat
      BY <1>1, <2>0, <3>2
    <3> QED
      BY <2>0, <3>1, <3>3, <3>4
  <2> HIDE DEF T
  <2>3. Len(t) \in T
    BY <1>1, <2>1, <2>2, Induction
  <2> QED
    BY <1>1, <2>3 DEF T
<1> QED
  BY <1>1, <1>3, <1>4 DEF ByteSum, u, f, g, h

\* f and g hold the running sums of s and t, which differ in their i-th byte alone.
DifferInOne(f, s, g, t, size, i) ==
    /\ size \in Nat /\ i \in 1 .. size /\ Summed(f, s, size) /\ Summed(g, t, size)
    /\ \A m \in 1 .. size : s[m] \in Nat /\ t[m] \in Nat /\ (m # i => t[m] = s[m])

LEMMA SummedUpdate ==
    ASSUME NEW s, NEW t, NEW f, NEW g, NEW size, NEW i, DifferInOne(f, s, g, t, size, i)
    PROVE  g[size] + s[i] = f[size] + t[i]
<1>0. /\ size \in Nat /\ i \in 1 .. size /\ Summed(f, s, size) /\ Summed(g, t, size)
      /\ \A m \in 1 .. size : s[m] \in Nat /\ t[m] \in Nat /\ (m # i => t[m] = s[m])
  BY DEF DifferInOne
<1> DEFINE T == {n \in Nat : n <= size =>
                   IF n < i THEN g[n] = f[n] ELSE g[n] + s[i] = f[n] + t[i]}
<1>1. 0 \in T
  BY <1>0 DEF Summed
<1>2. ASSUME NEW n \in Nat, n \in T PROVE n + 1 \in T
  <2> SUFFICES ASSUME n + 1 <= size
               PROVE  IF n + 1 < i THEN g[n + 1] = f[n + 1]
                      ELSE g[n + 1] + s[i] = f[n + 1] + t[i]
    BY <1>0
  <2>1. n + 1 \in 1 .. size /\ (n + 1) - 1 = n /\ n \in 0 .. size
    BY <1>0
  <2>2. /\ f[n + 1] = f[n] + s[n + 1] /\ g[n + 1] = g[n] + t[n + 1]
        /\ f[n] \in Nat /\ g[n] \in Nat /\ s[n + 1] \in Nat /\ t[n + 1] \in Nat
        /\ s[i] \in Nat /\ t[i] \in Nat
    BY <1>0, <2>1 DEF Summed
  <2>3. IF n < i THEN g[n] = f[n] ELSE g[n] + s[i] = f[n] + t[i]
    BY <1>0, <1>2, <2>1
  <2>4. n + 1 # i => t[n + 1] = s[n + 1]
    BY <1>0, <2>1
  <2> HIDE DEF T
  <2> QED
    BY <1>0, <2>2, <2>3, <2>4
<1> HIDE DEF T
<1>3. size \in T
  BY <1>0, <1>1, <1>2, Induction
<1> QED
  BY <1>0, <1>3 DEF T

\* Another value for one byte changes the sum by the difference.
LEMMA SumUpdate ==
    ASSUME NEW s \in Seq(Nat), NEW t \in Seq(Nat), Len(t) = Len(s), NEW i \in 1 .. Len(s),
           \A m \in 1 .. Len(s) : m # i => t[m] = s[m]
    PROVE  ByteSum(t) + s[i] = ByteSum(s) + t[i]
<1> DEFINE f == PartialSums(s)
           g == PartialSums(t)
           size == Len(s)
<1>1. size \in Nat /\ i \in 1 .. size
  OBVIOUS
<1>2. \A m \in 1 .. size : s[m] \in Nat /\ t[m] \in Nat
  BY ElementOfSeq
<1>3. \A m \in 1 .. size : m # i => t[m] = s[m]
  OBVIOUS
<1>4. Summed(f, s, size) /\ Summed(g, t, size) /\ ByteSum(s) = f[size] /\ ByteSum(t) = g[size]
  BY PartialSumsDefined DEF ByteSum
<1> HIDE DEF f, g, size
<1>5. DifferInOne(f, s, g, t, size, i)
  BY <1>1, <1>2, <1>3, <1>4 DEF DifferInOne
<1>6. g[size] + s[i] = f[size] + t[i]
  BY <1>5, SummedUpdate
<1> QED
  BY <1>4, <1>6, Zenon
=============================================================================
