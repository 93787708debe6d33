---------------------------- MODULE OneShotProofs ----------------------------
(***************************************************************************)
(* That sequences are executed as their definition says wherever a match   *)
(* lies, and that AppendDecompress and streaming return exactly what the   *)
(* frames they are given stand for, for any number of goroutines, decoders *)
(* and frames.                                                             *)
(***************************************************************************)
EXTENDS OneShot, SequenceTheorems, WellFoundedInduction, TLAPS

-----------------------------------------------------------------------------
(* Induction over the naturals for a property given as a set: the least    *)
(* number outside of the set would have a predecessor in it.               *)
LEMMA SetInduction ==
  ASSUME NEW T, 0 \in T, \A n \in Nat : n \in T => n + 1 \in T
  PROVE  \A n \in Nat : n \in T
<1> DEFINE Below == {ss \in Nat \X Nat : ss[1] < ss[2]}
           B == Nat \ T
<1>1. IsWellFoundedOn(Below, Nat)
  BY NatLessThanWellFounded DEF OpToRel
<1>2. SUFFICES ASSUME B # {} PROVE FALSE
  OBVIOUS
<1>3. PICK x \in B : \A y \in B : ~ (<<y, x>> \in Below)
  <2>1. B \subseteq Nat
    OBVIOUS
  <2> HIDE DEF B, Below
  <2> QED
    BY <1>1, <1>2, <2>1, WFMin
<1>4. x \in Nat /\ x # 0
  OBVIOUS
<1>5. x - 1 \in Nat /\ x - 1 < x
  BY <1>4
<1>6. x - 1 \notin T
  BY <1>4, <1>5
<1>7. <<x - 1, x>> \in Below
  BY <1>4, <1>5
<1> QED
  BY <1>3, <1>5, <1>6, <1>7

(* The same with all smaller numbers as the hypothesis. *)
LEMMA StrongInduction ==
  ASSUME NEW T, \A n \in Nat : (\A m \in 0..(n - 1) : m \in T) => n \in T
  PROVE  \A n \in Nat : n \in T
<1> DEFINE U == {n \in Nat : \A m \in 0..(n - 1) : m \in T}
<1>1. 0 \in U
  OBVIOUS
<1>2. ASSUME NEW n \in Nat, n \in U
      PROVE  n + 1 \in U
  <2>1. n \in T
    BY <1>2
  <2>2. \A m \in 0..((n + 1) - 1) : m = n \/ m \in 0..(n - 1)
    OBVIOUS
  <2> QED
    BY <1>2, <2>1, <2>2
<1>3. \A n \in Nat : n \in U
  <2> HIDE DEF U
  <2> QED
    BY <1>1, <1>2, SetInduction
<1> QED
  BY <1>3

(* Quotient and remainder are determined. *)
LEMMA OneRemainder ==
  ASSUME NEW m \in Nat \ {0}, NEW p \in Int, NEW q \in Int, NEW x \in 0..(m - 1), NEW y \in 0..(m - 1),
         m * p + x = m * q + y
  PROVE  x = y
<1>1. m * (p - q) = y - x
  <2>1. m * (p - q) = m * p - m * q
    OBVIOUS
  <2> QED
    BY <2>1
<1>2. \A k \in Int : k >= 1 => m * k >= m
  OBVIOUS
<1>3. \A k \in Int : k <= -1 => m * k <= -m
  OBVIOUS
<1>4. p - q \in Int
  OBVIOUS
<1>5. p - q = 0
  <2>1. CASE p - q >= 1
    BY <1>1, <1>2, <1>4, <2>1
  <2>2. CASE p - q <= -1
    BY <1>1, <1>3, <1>4, <2>2
  <2> QED
    BY <2>1, <2>2
<1> QED
  BY <1>1, <1>5

(* A remainder is the same a whole period later. *)
LEMMA Period ==
  ASSUME NEW m \in Nat \ {0}, NEW a \in Nat
  PROVE  /\ a < m => a % m = a
         /\ a >= m => a - m \in Nat /\ a % m = (a - m) % m
         /\ a % m \in 0..(m - 1)
<1>1. \A b \in Nat : b % m \in 0..(m - 1) /\ b \div m \in Int /\ b = m * (b \div m) + (b % m)
  OBVIOUS
<1>2. ASSUME a < m PROVE a % m = a
  <2>1. m * (a \div m) + (a % m) = m * 0 + a
    BY <1>1
  <2>2. a \in 0..(m - 1)
    BY <1>2
  <2> QED
    BY <1>1, <2>1, <2>2, OneRemainder
<1>3. ASSUME a >= m PROVE a - m \in Nat /\ a % m = (a - m) % m
  <2>1. a - m \in Nat
    BY <1>3
  <2> DEFINE q == (a - m) \div m
  <2>2. q \in Int /\ a - m = m * q + ((a - m) % m) /\ (a - m) % m \in 0..(m - 1)
    BY <1>1, <2>1
  <2> HIDE DEF q
  <2>3. m * (q + 1) = m * q + m
    BY <2>2
  <2>4. m * (a \div m) + (a % m) = m * (q + 1) + ((a - m) % m)
    BY <1>1, <2>2, <2>3
  <2>5. a \div m \in Int /\ q + 1 \in Int /\ a % m \in 0..(m - 1)
    BY <1>1, <2>2
  <2> QED
    BY <2>1, <2>2, <2>4, <2>5, OneRemainder
<1> QED
  BY <1>1, <1>2, <1>3

-----------------------------------------------------------------------------
(* The recursive function of Bytewise is a sequence: the string it is      *)
(* given and, behind it, bytes that repeat what lies mo in front of them.  *)
Repeats(f, all, mo, n) == f = [i \in 1..n |-> IF i <= Len(all) THEN all[i] ELSE f[i - mo]]

LEMMA BytewiseExists ==
  ASSUME NEW S, NEW all \in Seq(S), NEW mo \in Nat, NEW ml \in Nat,
         ml > 0 => mo \in 1..Len(all)
  PROVE  \E f : Repeats(f, all, mo, Len(all) + ml)
<1> DEFINE L == Len(all)
           f == [i \in 1..(L + ml) |-> IF i <= L THEN all[i] ELSE all[(L - mo) + 1 + ((i - L - 1) % mo)]]
<1>1. L \in Nat
  OBVIOUS
<1>2. ASSUME NEW i \in 1..(L + ml), i > L
      PROVE  f[i] = f[i - mo]
  <2>1. mo \in 1..L
    BY <1>2
  <2>2. i - L - 1 \in Nat /\ i - mo \in 1..(L + ml)
    BY <1>2, <2>1
  <2>3. f[i] = all[(L - mo) + 1 + ((i - L - 1) % mo)]
    BY <1>2
  <2>4. CASE i - L - 1 < mo
    <3>1. (i - L - 1) % mo = i - L - 1
      <4>1. mo \in Nat \ {0}
        BY <2>1
      <4> HIDE DEF L, f
      <4> QED
        BY <2>2, <2>4, <4>1, Period
    <3>2. f[i - mo] = all[i - mo]
      BY <2>2, <2>4
    <3>3. (L - mo) + 1 + (i - L - 1) = i - mo
      BY <2>1
    <3> QED
      BY <2>3, <3>1, <3>2, <3>3
  <2>5. CASE i - L - 1 >= mo
    <3>1. (i - L - 1) % mo = ((i - L - 1) - mo) % mo
      <4>1. mo \in Nat \ {0}
        BY <2>1
      <4> HIDE DEF L, f
      <4> QED
        BY <2>2, <2>5, <4>1, Period
    <3>2. (i - L - 1) - mo = (i - mo) - L - 1 /\ i - mo > L
      BY <2>1, <2>5
    <3>3. f[i - mo] = all[(L - mo) + 1 + (((i - mo) - L - 1) % mo)]
      BY <2>2, <3>2
    <3> QED
      BY <2>3, <3>1, <3>2, <3>3
  <2> QED
    <3>1. i - L - 1 \in Int /\ mo \in Int
      BY <1>1, <2>1
    <3> HIDE DEF f, L
    <3> QED
      BY <2>4, <2>5, <3>1
<1>3. f = [i \in 1..(L + ml) |-> IF i <= L THEN all[i] ELSE f[i - mo]]
  <2>1. \A i \in 1..(L + ml) : f[i] = IF i <= L THEN all[i] ELSE f[i - mo]
    <3> SUFFICES ASSUME NEW i \in 1..(L + ml) PROVE f[i] = IF i <= L THEN all[i] ELSE f[i - mo]
      OBVIOUS
    <3>1. CASE i <= L
      BY <3>1
    <3>2. CASE i > L
      <4> HIDE DEF f
      <4> QED
        BY <1>1, <1>2, <3>2
    <3> QED
      BY <1>1, <3>1, <3>2
  <2> QED
    BY <2>1
<1>4. Repeats(f, all, mo, L + ml)
  BY <1>3 DEF Repeats
<1> QED
  BY <1>4

LEMMA BytewiseValue ==
  ASSUME NEW S, NEW all \in Seq(S), NEW mo \in Nat, NEW ml \in Nat,
         ml > 0 => mo \in 1..Len(all)
  PROVE  /\ Exec!Bytewise(all, mo, ml) \in Seq(S)
         /\ Len(Exec!Bytewise(all, mo, ml)) = Len(all) + ml
         /\ \A i \in 1..(Len(all) + ml) :
              Exec!Bytewise(all, mo, ml)[i] =
                IF i <= Len(all) THEN all[i] ELSE Exec!Bytewise(all, mo, ml)[i - mo]
<1> DEFINE byte[i \in 1..(Len(all) + ml)] == IF i <= Len(all) THEN all[i] ELSE byte[i - mo]
           n == Len(all) + ml
<1>1. Exec!Bytewise(all, mo, ml) = byte
  BY DEF Exec!Bytewise
<1>2. byte = [i \in 1..n |-> IF i <= Len(all) THEN all[i] ELSE byte[i - mo]]
  <2>1. byte = CHOOSE f : Repeats(f, all, mo, n)
    BY DEF Repeats
  <2>2. \E f : Repeats(f, all, mo, n)
    BY BytewiseExists
  <2>3. Repeats(byte, all, mo, n)
    <3> HIDE DEF byte, n
    <3> QED
      BY <2>1, <2>2
  <2> QED
    BY <2>3 DEF Repeats
<1> HIDE DEF byte
<1>3. \A i \in 1..n : byte[i] = IF i <= Len(all) THEN all[i] ELSE byte[i - mo]
  BY <1>2
<1>4. n \in Nat
  OBVIOUS
<1> DEFINE T == {k \in Nat : k \in 1..n => byte[k] \in S}
<1>5. ASSUME NEW k \in Nat, \A m \in 0..(k - 1) : m \in T
      PROVE  k \in T
  <2>1. CASE k \in 1..n /\ k > Len(all)
    <3>1. mo \in 1..Len(all)
      BY <2>1
    <3>2. k - mo \in 0..(k - 1) /\ k - mo \in 1..n
      BY <2>1, <3>1
    <3>3. byte[k - mo] \in S
      BY <1>5, <3>2
    <3>4. byte[k] = byte[k - mo]
      BY <1>3, <2>1
    <3> QED
      BY <3>3, <3>4
  <2>2. CASE k \in 1..n /\ k <= Len(all)
    <3>1. byte[k] = all[k]
      BY <1>3, <2>2
    <3>2. all[k] \in S
      BY <2>2
    <3> QED
      BY <3>1, <3>2
  <2> QED
    BY <1>4, <2>1, <2>2
<1>6. \A k \in Nat : k \in T
  <2> HIDE DEF T
  <2> QED
    BY <1>5, StrongInduction
<1>7. \A k \in 1..n : byte[k] \in S
  BY <1>4, <1>6
<1>8. byte \in Seq(S) /\ Len(byte) = n
  <2>1. byte \in [1..n -> S]
    BY <1>2, <1>7
  <2> QED
    BY <1>4, <2>1
<1> QED
  BY <1>1, <1>3, <1>8

-----------------------------------------------------------------------------
(* The lesser of two. *)
LEMMA MinOfTwo ==
  ASSUME NEW a \in Int, NEW b \in Int
  PROVE  Min({a, b}) = IF a <= b THEN a ELSE b
<1> DEFINE m == IF a <= b THEN a ELSE b
<1>1. m \in {a, b} /\ \A y \in {a, b} : m <= y
  OBVIOUS
<1>2. \A x \in {a, b} : (\A y \in {a, b} : x <= y) => x = m
  OBVIOUS
<1> QED
  BY <1>1, <1>2 DEF Min

(* What out holds is what byte holds behind base. *)
Follows(byte, base, out) == \A q \in 1..Len(out) : out[q] = byte[base + q]

LEMMA FollowsOn ==
  ASSUME NEW S, NEW out \in Seq(S), NEW byte, NEW base \in Nat, Follows(byte, base, out),
         NEW more \in Seq(S), \A i \in 1..Len(more) : more[i] = byte[base + Len(out) + i]
  PROVE  /\ out \o more \in Seq(S) /\ Len(out \o more) = Len(out) + Len(more)
         /\ Follows(byte, base, out \o more)
<1>1. out \o more \in Seq(S) /\ Len(out \o more) = Len(out) + Len(more)
  OBVIOUS
<1>2. ASSUME NEW q \in 1..Len(out \o more)
      PROVE  (out \o more)[q] = byte[base + q]
  <2>1. CASE q <= Len(out)
    <3>1. (out \o more)[q] = out[q]
      BY <1>1, <2>1
    <3> QED
      BY <2>1, <3>1 DEF Follows
  <2>2. CASE q > Len(out)
    <3>1. (out \o more)[q] = more[q - Len(out)] /\ q - Len(out) \in 1..Len(more)
      BY <1>1, <2>2
    <3>2. base + Len(out) + (q - Len(out)) = base + q
      OBVIOUS
    <3> QED
      BY <3>1, <3>2
  <2> QED
    BY <2>1, <2>2
<1> QED
  BY <1>1, <1>2 DEF Follows

(* Behind L, n bytes that repeat what lies mo in front of them. *)
Repeating(byte, L, n, mo) == \A i \in (L + 1)..(L + n) : byte[i] = byte[i - mo]

(* A match that repeats the end of the output, which it may overlap. *)
LEMMA CopyOutFollows ==
  ASSUME NEW S, NEW out \in Seq(S), NEW byte, NEW base \in Nat, Follows(byte, base, out),
         NEW mo \in 1..Len(out), NEW n \in Nat, NEW reached \in Nat, reached = base + Len(out),
         Repeating(byte, reached, n, mo)
  PROVE  /\ Exec!CopyOut(out, mo, n) \in Seq(S) /\ Len(Exec!CopyOut(out, mo, n)) = Len(out) + n
         /\ Follows(byte, base, Exec!CopyOut(out, mo, n))
<1> DEFINE from == Len(out) - mo
           more == [i \in 1..n |-> out[from + 1 + ((i - 1) % mo)]]
<1>0. mo \in Nat \ {0}
  OBVIOUS
<1>1. ASSUME NEW i \in 1..n
      PROVE  i - 1 \in Nat /\ (i - 1) % mo \in 0..(mo - 1)
  <2>1. i - 1 \in Nat
    OBVIOUS
  <2> QED
    BY <1>0, <2>1, Period
<1>2. \A i \in 1..n : from + 1 + ((i - 1) % mo) \in 1..Len(out)
  BY <1>1
<1>3. more \in Seq(S) /\ Len(more) = n
  BY <1>2
<1> DEFINE T == {i \in Nat : i \in 1..n => more[i] = byte[base + Len(out) + i]}
<1>4. ASSUME NEW i \in Nat, \A k \in 0..(i - 1) : k \in T
      PROVE  i \in T
  <2> SUFFICES ASSUME i \in 1..n
               PROVE  more[i] = byte[base + Len(out) + i]
    OBVIOUS
  <2>1. byte[base + Len(out) + i] = byte[(base + Len(out) + i) - mo]
    <3>1. base + Len(out) + i \in (reached + 1)..(reached + n)
      OBVIOUS
    <3> QED
      BY <3>1 DEF Repeating
  <2>2. CASE i <= mo
    <3>0. i - 1 \in Nat /\ i - 1 < mo
      BY <2>2
    <3>1. (i - 1) % mo = i - 1
      BY <1>0, <3>0, Period
    <3>2. more[i] = out[from + i] /\ from + i \in 1..Len(out)
      BY <1>2, <2>2, <3>1
    <3>3. out[from + i] = byte[base + (from + i)]
      BY <3>2 DEF Follows
    <3>4. base + (from + i) = (base + Len(out) + i) - mo
      OBVIOUS
    <3> QED
      BY <2>1, <3>2, <3>3, <3>4
  <2>3. CASE i > mo
    <3>1. i - mo \in 1..n /\ i - mo \in 0..(i - 1) /\ i - 1 \in Nat /\ mo \in Nat \ {0} /\ i - 1 >= mo
      BY <2>3
    <3>2. (i - 1) % mo = ((i - 1) - mo) % mo
      BY <3>1, Period
    <3>3. (i - 1) - mo = (i - mo) - 1
      OBVIOUS
    <3>4. more[i] = more[i - mo]
      BY <3>1, <3>2, <3>3
    <3>5. more[i - mo] = byte[base + Len(out) + (i - mo)]
      BY <1>4, <3>1
    <3>6. base + Len(out) + (i - mo) = (base + Len(out) + i) - mo
      OBVIOUS
    <3> QED
      BY <2>1, <3>4, <3>5, <3>6
  <2> QED
    BY <2>2, <2>3
<1>5. \A i \in Nat : i \in T
  <2> HIDE DEF T
  <2> QED
    BY <1>4, StrongInduction
<1>6. \A i \in 1..Len(more) : more[i] = byte[base + Len(out) + i]
  <2> HIDE DEF more
  <2> QED
    BY <1>3, <1>5
<1>7. Exec!CopyOut(out, mo, n) = out \o more
  BY DEF Exec!CopyOut
<1> HIDE DEF more, T
<1>8. /\ out \o more \in Seq(S) /\ Len(out \o more) = Len(out) + Len(more)
      /\ Follows(byte, base, out \o more)
  BY <1>3, <1>6, FollowsOn
<1> QED
  BY <1>3, <1>7, <1>8

(* What can be referred to: the dictionary, the history, the output and    *)
(* the literals of the sequence, one behind the other.                     *)
Seqs(S, a, b, c, d) == a \in Seq(S) /\ b \in Seq(S) /\ c \in Seq(S) /\ d \in Seq(S)

Parts(S, a, b, c, all) ==
  /\ all \in Seq(S)
  /\ Len(all) = Len(a) + Len(b) + Len(c)
  /\ \A i \in 1..Len(a) : all[i] = a[i]
  /\ \A i \in 1..Len(b) : all[Len(a) + i] = b[i]
  /\ \A i \in 1..Len(c) : all[Len(a) + Len(b) + i] = c[i]

LEMMA FourParts ==
  ASSUME NEW S, NEW a, NEW b, NEW c, NEW d, Seqs(S, a, b, c, d)
  PROVE  Parts(S, a, b, c \o d, a \o b \o c \o d)
<1> a \in Seq(S) /\ b \in Seq(S) /\ c \in Seq(S) /\ d \in Seq(S)
  BY DEF Seqs
<1>1. a \o b \in Seq(S) /\ Len(a \o b) = Len(a) + Len(b)
  OBVIOUS
<1>2. /\ \A i \in 1..Len(a) : (a \o b)[i] = a[i]
      /\ \A i \in 1..Len(b) : (a \o b)[Len(a) + i] = b[i]
  OBVIOUS
<1>3. c \o d \in Seq(S)
  OBVIOUS
<1>4. a \o b \o c \o d = (a \o b) \o (c \o d)
  <2>1. \A x \in Seq(S) : (x \o c) \o d = x \o (c \o d)
    OBVIOUS
  <2> QED
    BY <1>1, <2>1
<1>5. ASSUME NEW x \in Seq(S), NEW y \in Seq(S)
      PROVE  /\ x \o y \in Seq(S) /\ Len(x \o y) = Len(x) + Len(y)
             /\ \A i \in 1..Len(x) : (x \o y)[i] = x[i]
             /\ \A i \in 1..Len(y) : (x \o y)[Len(x) + i] = y[i]
  OBVIOUS
<1> DEFINE ab == a \o b
           cd == c \o d
<1>6. /\ ab \o cd \in Seq(S) /\ Len(ab \o cd) = Len(ab) + Len(cd)
      /\ \A i \in 1..Len(ab) : (ab \o cd)[i] = ab[i]
      /\ \A i \in 1..Len(cd) : (ab \o cd)[Len(ab) + i] = cd[i]
  <2>1. ab \in Seq(S) /\ cd \in Seq(S)
    BY <1>1, <1>3
  <2> HIDE DEF ab, cd
  <2> QED
    BY <1>5, <2>1
<1>7. /\ Len(ab) = Len(a) + Len(b) /\ Len(a) \in Nat /\ Len(b) \in Nat
      /\ \A i \in 1..Len(a) : ab[i] = a[i]
      /\ \A i \in 1..Len(b) : ab[Len(a) + i] = b[i]
  BY <1>1, <1>2
<1> HIDE DEF ab, cd
<1>8. /\ ab \o cd \in Seq(S) /\ Len(ab \o cd) = Len(a) + Len(b) + Len(cd)
      /\ \A i \in 1..Len(a) : (ab \o cd)[i] = a[i]
      /\ \A i \in 1..Len(b) : (ab \o cd)[Len(a) + i] = b[i]
      /\ \A i \in 1..Len(cd) : (ab \o cd)[Len(a) + Len(b) + i] = cd[i]
  BY <1>6, <1>7, SMTT(30)
<1> QED
  BY <1>4, <1>8 DEF ab, cd, Parts

(* A match of which left bytes are still to be copied, up to end. *)
Stage(S, byte, base, out, left, end) ==
  /\ out \in Seq(S) /\ Follows(byte, base, out)
  /\ left \in Nat /\ (base + Len(out)) + left = end

(* A piece of it that lies in s: the dictionary or the history. *)
Grown(out, s, at, n) == out \o [i \in 1..n |-> s[at + i]]

LEMMA Shifted == \A x, y, z, w, v \in Int : x - y = z + w => (x + v) - y = z + (w + v)
OBVIOUS

LEMMA Moved == \A b, l, f, r, k, e \in Int : (b + l) + f = e => (r = f - k => (b + (l + k)) + r = e)
OBVIOUS

Piece(S, byte, base, mo, L, ml, end, out, left, s, before, at, n, rest) ==
  /\ base \in Nat /\ mo \in Nat /\ L \in Nat /\ ml \in Nat /\ end \in Nat
  /\ Repeating(byte, L, ml, mo) /\ end = L + ml
  /\ out \in Seq(S) /\ left \in Nat /\ Stage(S, byte, base, out, left, end) /\ L <= base + Len(out)
  /\ s \in Seq(S) /\ before \in Nat /\ Follows(byte, before, s)
  /\ at \in Int /\ n \in 0..left /\ (n > 0 => at >= 0 /\ at + n <= Len(s))
  /\ (base + Len(out)) - mo = before + at
  /\ rest = left - n

LEMMA NextPiece ==
  ASSUME NEW S, NEW byte, NEW base, NEW mo, NEW L, NEW ml, NEW end, NEW out, NEW left,
         NEW s, NEW before, NEW at, NEW n, NEW rest,
         Piece(S, byte, base, mo, L, ml, end, out, left, s, before, at, n, rest)
  PROVE  /\ Stage(S, byte, base, Grown(out, s, at, n), rest, end)
         /\ Len(Grown(out, s, at, n)) = Len(out) + n
<1> SUFFICES ASSUME
         base \in Nat, mo \in Nat, L \in Nat, ml \in Nat, end \in Nat,
         Repeating(byte, L, ml, mo), end = L + ml,
         out \in Seq(S), left \in Nat, Stage(S, byte, base, out, left, end), L <= base + Len(out),
         s \in Seq(S), before \in Nat, Follows(byte, before, s),
         at \in Int, n \in 0..left, n > 0 => at >= 0 /\ at + n <= Len(s),
         (base + Len(out)) - mo = before + at,
         rest = left - n
    PROVE  /\ Stage(S, byte, base, Grown(out, s, at, n), rest, end)
           /\ Len(Grown(out, s, at, n)) = Len(out) + n
  BY DEF Piece
<1> DEFINE more == [i \in 1..n |-> s[at + i]]
<1>0. Follows(byte, base, out)
  BY DEF Stage
<1>1. out \in Seq(S) /\ left \in Nat /\ (base + Len(out)) + left = end /\ Len(out) \in Nat
  BY DEF Stage
<1>2. n \in Nat /\ n <= left
  BY <1>1
<1>3. more \in Seq(S) /\ Len(more) = n
  <2>1. ASSUME NEW i \in 1..n
        PROVE  s[at + i] \in S
    <3>1. at + i \in 1..Len(s)
      BY <1>2
    <3> QED
      BY <3>1, SMTT(30)
  <2> QED
    BY <1>2, <2>1
<1>4. ASSUME NEW i \in 1..n
      PROVE  more[i] = byte[base + Len(out) + i]
  <2>1. base + Len(out) + i \in (L + 1)..(L + ml)
    BY <1>1, <1>2, SMTT(30)
  <2>2. byte[base + Len(out) + i] = byte[(base + Len(out) + i) - mo]
    BY <2>1 DEF Repeating
  <2>3. (base + Len(out) + i) - mo = before + (at + i)
    <3>1. base + Len(out) \in Int /\ mo \in Int /\ before \in Int /\ at \in Int /\ i \in Int
      BY <1>1, <1>2
    <3> QED
      BY <3>1, Shifted, SMTT(30)
  <2>4. byte[before + (at + i)] = s[at + i]
    <3>1. at + i \in 1..Len(s)
      BY <1>2
    <3> QED
      BY <3>1 DEF Follows
  <2> QED
    BY <2>2, <2>3, <2>4
<1> HIDE DEF more
<1>5. \A i \in 1..Len(more) : more[i] = byte[base + Len(out) + i]
  BY <1>3, <1>4
<1>6. /\ out \o more \in Seq(S) /\ Len(out \o more) = Len(out) + Len(more)
      /\ Follows(byte, base, out \o more)
  BY <1>0, <1>1, <1>3, <1>5, FollowsOn
<1>7. Stage(S, byte, base, out \o more, rest, end) /\ Len(out \o more) = Len(out) + n
  <2>1. Len(out \o more) = Len(out) + n
    BY <1>1, <1>2, <1>3, <1>6
  <2>2. (base + Len(out \o more)) + rest = end
    <3>1. base \in Int /\ Len(out) \in Int /\ left \in Int /\ n \in Int /\ end \in Int /\ rest \in Int
      BY <1>1, <1>2
    <3>2. (base + (Len(out) + n)) + rest = end
      BY <1>1, <3>1, Moved, SMTT(30)
    <3> QED
      BY <2>1, <3>2
  <2> QED
    BY <1>6, <2>1, <2>2 DEF Stage
<1> QED
  BY <1>7 DEF more, Grown

(* The bytes a sequence refers to and makes: base of the dictionary and    *)
(* the history, up to L the output and its literals, up to end the match.  *)
Surrounded(S, dict, hist, base, lit, L, byte, mo, ml, end) ==
  /\ dict \in Seq(S) /\ hist \in Seq(S) /\ lit \in Seq(S)
  /\ base = Len(dict) + Len(hist)
  /\ L = base + Len(lit)
  /\ mo \in Nat /\ ml \in Nat /\ end = L + ml
  /\ Follows(byte, 0, dict)
  /\ Follows(byte, Len(dict), hist)
  /\ Follows(byte, base, lit)
  /\ Repeating(byte, L, ml, mo)

InDict(S, dict, hist, base, lit, L, byte, mo, ml, end, at, n) ==
  /\ dict \in Seq(S) /\ hist \in Seq(S) /\ lit \in Seq(S) /\ base \in Nat /\ L \in Nat
  /\ mo \in Nat /\ ml \in Nat /\ end \in Nat
  /\ Surrounded(S, dict, hist, base, lit, L, byte, mo, ml, end)
  /\ at \in Nat /\ Len(dict) - at = mo - (Len(lit) + Len(hist)) /\ at < Len(dict)
  /\ n \in 0..ml /\ n <= Len(dict) - at /\ (n < ml => n = Len(dict) - at)

LEMMA DictPiece ==
  ASSUME NEW S, NEW dict, NEW hist, NEW lit, NEW base, NEW L, NEW byte, NEW mo, NEW ml, NEW end,
         NEW at, NEW n, InDict(S, dict, hist, base, lit, L, byte, mo, ml, end, at, n)
  PROVE  /\ Stage(S, byte, base, Grown(lit, dict, at, n), ml - n, end)
         /\ Len(Grown(lit, dict, at, n)) = Len(lit) + n
         /\ n < ml => mo <= Len(lit) + n + Len(hist)
<1> SUFFICES ASSUME
           dict \in Seq(S), hist \in Seq(S), lit \in Seq(S), base \in Nat, L \in Nat,
           mo \in Nat, ml \in Nat, end \in Nat,
           Surrounded(S, dict, hist, base, lit, L, byte, mo, ml, end),
           at \in Nat, Len(dict) - at = mo - (Len(lit) + Len(hist)), at < Len(dict),
           n \in 0..ml, n <= Len(dict) - at, n < ml => n = Len(dict) - at
    PROVE  /\ Stage(S, byte, base, Grown(lit, dict, at, n), ml - n, end)
           /\ Len(Grown(lit, dict, at, n)) = Len(lit) + n
           /\ n < ml => mo <= Len(lit) + n + Len(hist)
  BY DEF InDict
<1>1. Repeating(byte, L, ml, mo) /\ Follows(byte, 0, dict) /\ Follows(byte, base, lit)
  BY DEF Surrounded
<1>2. base = Len(dict) + Len(hist) /\ L = base + Len(lit) /\ end = L + ml
  BY DEF Surrounded
<1>3. Len(dict) \in Nat /\ Len(hist) \in Nat /\ Len(lit) \in Nat
  OBVIOUS
<1>4. Stage(S, byte, base, lit, ml, end)
  BY <1>1, <1>2 DEF Stage
<1>5. n > 0 => at >= 0 /\ at + n <= Len(dict)
  BY <1>3
<1>6. (base + Len(lit)) - mo = 0 + at /\ L <= base + Len(lit) /\ 0 \in Nat /\ at \in Int
  BY <1>2, <1>3
<1>7. /\ Stage(S, byte, base, Grown(lit, dict, at, n), ml - n, end)
      /\ Len(Grown(lit, dict, at, n)) = Len(lit) + n
  <2> DEFINE rest == ml - n
             start == 0
  <2>1. rest \in Nat /\ rest = ml - n
    OBVIOUS
  <2>2. start \in Nat /\ (base + Len(lit)) - mo = start + at /\ Follows(byte, start, dict)
    BY <1>1, <1>6
  <2> HIDE DEF rest, start
  <2>3. Piece(S, byte, base, mo, L, ml, end, lit, ml, dict, start, at, n, rest)
    BY <1>1, <1>2, <1>4, <1>5, <1>6, <2>1, <2>2 DEF Piece
  <2>4. Stage(S, byte, base, Grown(lit, dict, at, n), rest, end) /\ Len(Grown(lit, dict, at, n)) = Len(lit) + n
    BY <2>3, NextPiece
  <2> QED
    BY <2>4 DEF rest
<1>8. n < ml => mo <= Len(lit) + n + Len(hist)
  BY <1>3
<1> QED
  BY <1>7, <1>8

InHistory(S, dict, hist, base, lit, L, byte, mo, ml, end, out, left, at, n) ==
  /\ dict \in Seq(S) /\ hist \in Seq(S) /\ lit \in Seq(S) /\ base \in Nat /\ L \in Nat
  /\ mo \in Nat /\ ml \in Nat /\ end \in Nat
  /\ Surrounded(S, dict, hist, base, lit, L, byte, mo, ml, end)
  /\ out \in Seq(S) /\ left \in Nat /\ Stage(S, byte, base, out, left, end) /\ Len(out) >= Len(lit)
  /\ at = Len(hist) - (mo - Len(out))
  /\ n \in 0..left /\ (n > 0 => n <= mo - Len(out) /\ at >= 0) /\ (n < left => mo - Len(out) <= n)

LEMMA HistoryPiece ==
  ASSUME NEW S, NEW dict, NEW hist, NEW lit, NEW base, NEW L, NEW byte, NEW mo, NEW ml, NEW end,
         NEW out, NEW left, NEW at, NEW n,
         InHistory(S, dict, hist, base, lit, L, byte, mo, ml, end, out, left, at, n)
  PROVE  /\ Stage(S, byte, base, Grown(out, hist, at, n), left - n, end)
         /\ Len(Grown(out, hist, at, n)) = Len(out) + n
         /\ n < left => mo <= Len(out) + n
<1> SUFFICES ASSUME
           dict \in Seq(S), hist \in Seq(S), lit \in Seq(S), base \in Nat, L \in Nat,
           mo \in Nat, ml \in Nat, end \in Nat,
           Surrounded(S, dict, hist, base, lit, L, byte, mo, ml, end),
           out \in Seq(S), left \in Nat, Stage(S, byte, base, out, left, end), Len(out) >= Len(lit),
           at = Len(hist) - (mo - Len(out)),
           n \in 0..left, n > 0 => n <= mo - Len(out) /\ at >= 0, n < left => mo - Len(out) <= n
    PROVE  /\ Stage(S, byte, base, Grown(out, hist, at, n), left - n, end)
           /\ Len(Grown(out, hist, at, n)) = Len(out) + n
           /\ n < left => mo <= Len(out) + n
  BY DEF InHistory
<1>1. Repeating(byte, L, ml, mo) /\ Follows(byte, Len(dict), hist)
  BY DEF Surrounded
<1>2. base = Len(dict) + Len(hist) /\ L = base + Len(lit) /\ end = L + ml
  BY DEF Surrounded
<1>3. Len(dict) \in Nat /\ Len(hist) \in Nat /\ Len(lit) \in Nat /\ Len(out) \in Nat /\ at \in Int
  OBVIOUS
<1>4. n > 0 => at >= 0 /\ at + n <= Len(hist)
  BY <1>3
<1>5. (base + Len(out)) - mo = Len(dict) + at /\ L <= base + Len(out)
  BY <1>2, <1>3
<1>6. /\ Stage(S, byte, base, Grown(out, hist, at, n), left - n, end)
      /\ Len(Grown(out, hist, at, n)) = Len(out) + n
  <2> DEFINE rest == left - n
             start == Len(dict)
  <2>1. rest \in Nat /\ rest = left - n
    OBVIOUS
  <2>2. start \in Nat /\ (base + Len(out)) - mo = start + at /\ Follows(byte, start, hist)
    BY <1>1, <1>3, <1>5
  <2> HIDE DEF rest, start
  <2>3. Piece(S, byte, base, mo, L, ml, end, out, left, hist, start, at, n, rest)
    BY <1>1, <1>2, <1>3, <1>4, <1>5, <2>1, <2>2 DEF Piece
  <2>4. Stage(S, byte, base, Grown(out, hist, at, n), rest, end) /\ Len(Grown(out, hist, at, n)) = Len(out) + n
    BY <2>3, NextPiece
  <2> QED
    BY <2>4 DEF rest
<1>7. n < left => mo <= Len(out) + n
  BY <1>3
<1> QED
  BY <1>6, <1>7

LEMMA OutputPiece ==
  ASSUME NEW S, NEW dict \in Seq(S), NEW hist \in Seq(S), NEW lit \in Seq(S), NEW base \in Nat, NEW L \in Nat,
         NEW byte, NEW mo \in Nat, NEW ml \in Nat, NEW end \in Nat,
         Surrounded(S, dict, hist, base, lit, L, byte, mo, ml, end),
         NEW out \in Seq(S), NEW left \in Nat, Stage(S, byte, base, out, left, end), Len(out) >= Len(lit),
         mo \in 1..Len(out)
  PROVE  Stage(S, byte, base, Exec!CopyOut(out, mo, left), 0, end)
<1>1. /\ dict \in Seq(S) /\ hist \in Seq(S) /\ lit \in Seq(S)
      /\ base = Len(dict) + Len(hist) /\ L = base + Len(lit)
      /\ mo \in Nat /\ ml \in Nat /\ end = L + ml
  BY DEF Surrounded
<1>2. /\ base \in Nat /\ L \in Nat /\ Len(lit) \in Nat
      /\ Len(out) \in Nat /\ left \in Nat /\ out \in Seq(S) /\ (base + Len(out)) + left = end
  BY <1>1 DEF Stage
<1>3. Follows(byte, base, out)
  BY DEF Stage
<1> DEFINE reached == base + Len(out)
<1>4. reached \in Nat /\ Repeating(byte, reached, left, mo)
  <2>1. \A i \in (reached + 1)..(reached + left) : i \in (L + 1)..(L + ml)
    BY <1>1, <1>2
  <2> QED
    BY <1>2, <2>1, SMTT(30) DEF Surrounded, Repeating
<1>5. /\ Exec!CopyOut(out, mo, left) \in Seq(S)
      /\ Len(Exec!CopyOut(out, mo, left)) = Len(out) + left
      /\ Follows(byte, base, Exec!CopyOut(out, mo, left))
  BY <1>1, <1>2, <1>3, <1>4, CopyOutFollows, SMTT(30)
<1>6. (base + Len(Exec!CopyOut(out, mo, left))) + 0 = end
  BY <1>2, <1>5
<1> QED
  BY <1>5, <1>6 DEF Stage

(* What FromDict and FromHistory return, in these terms. *)
LEMMA FromDictValue ==
  ASSUME NEW env, NEW lit, NEW mo, NEW ml
  PROVE  LET at == Len(env.dict) - (mo - (Len(lit) + Len(env.hist)))
             n == Min({ml, Len(env.dict) - at})
         IN  at \in 0..(Len(env.dict) - 1) =>
               Exec!FromDict(env, lit, mo, ml) = [ok |-> TRUE, out |-> Grown(lit, env.dict, at, n), left |-> ml - n]
<1> DEFINE at == Len(env.dict) - (mo - (Len(lit) + Len(env.hist)))
             n == Min({ml, Len(env.dict) - at})
             in == at \in 0..(Len(env.dict) - 1)
             m == IF in THEN n ELSE 0
<1>1. Exec!FromDict(env, lit, mo, ml) = [ok |-> in, out |-> lit \o [i \in 1..m |-> env.dict[at + i]], left |-> ml - m]
  BY Zenon DEF Exec!FromDict, Exec!Min, Min
<1>2. ASSUME in
      PROVE  m = n /\ in = TRUE
  <2> HIDE DEF n, at
  <2> QED
    BY <1>2
<1> HIDE DEF n, at, m, in
<1>3. ASSUME in
      PROVE  Exec!FromDict(env, lit, mo, ml) = [ok |-> TRUE, out |-> Grown(lit, env.dict, at, n), left |-> ml - n]
  BY <1>1, <1>2, <1>3, Zenon DEF Grown
<1> QED
  BY <1>3 DEF n, at, in

LEMMA FromHistoryValue ==
  ASSUME NEW env, NEW out, NEW mo, NEW left
  PROVE  LET back == mo - Len(out)
             n == IF back > 0 THEN Min({left, back}) ELSE 0
         IN  Exec!FromHistory(env, out, mo, left) = [out |-> Grown(out, env.hist, Len(env.hist) - back, n), left |-> left - n]
BY Zenon DEF Exec!FromHistory, Grown, Exec!Min, Min

(* The pieces of a match that starts in the history or the output. *)
Near(S, env, base, lit, L, byte, mo, ml, end, out, left) ==
  /\ lit \in Seq(S) /\ base \in Nat /\ L \in Nat
  /\ mo \in Nat /\ ml \in Nat /\ end \in Nat
  /\ env.dict \in Seq(S) /\ env.hist \in Seq(S)
  /\ Surrounded(S, env.dict, env.hist, base, lit, L, byte, mo, ml, end)
  /\ out \in Seq(S) /\ left \in Nat /\ Stage(S, byte, base, out, left, end) /\ Len(out) >= Len(lit)
  /\ left > 0 => mo <= Len(out) + Len(env.hist) /\ mo > 0

Finishes(S, env, base, byte, mo, end, out, left) ==
  LET hist == Exec!FromHistory(env, out, mo, left)
  IN  Stage(S, byte, base, IF hist.left > 0 THEN Exec!CopyOut(hist.out, mo, hist.left) ELSE hist.out, 0, end)

LEMMA NearMatch ==
  ASSUME NEW S, NEW env, NEW base, NEW lit, NEW L, NEW byte, NEW mo, NEW ml, NEW end, NEW out, NEW left,
         Near(S, env, base, lit, L, byte, mo, ml, end, out, left)
  PROVE  Finishes(S, env, base, byte, mo, end, out, left)
<1> SUFFICES ASSUME
         lit \in Seq(S), base \in Nat, L \in Nat, mo \in Nat, ml \in Nat, end \in Nat,
         env.dict \in Seq(S), env.hist \in Seq(S),
         Surrounded(S, env.dict, env.hist, base, lit, L, byte, mo, ml, end),
         out \in Seq(S), left \in Nat, Stage(S, byte, base, out, left, end), Len(out) >= Len(lit),
         left > 0 => mo <= Len(out) + Len(env.hist) /\ mo > 0
    PROVE  LET hist == Exec!FromHistory(env, out, mo, left)
           IN  Stage(S, byte, base, IF hist.left > 0 THEN Exec!CopyOut(hist.out, mo, hist.left) ELSE hist.out, 0, end)
  BY DEF Near, Finishes
<1> DEFINE hist == env.hist
           back == mo - Len(out)
           at == Len(hist) - back
           n == IF back > 0 THEN Min({left, back}) ELSE 0
           next == Grown(out, hist, at, n)
           rest == left - n
<1>1. Exec!FromHistory(env, out, mo, left) = [out |-> next, left |-> rest]
  BY FromHistoryValue
<1>2. hist \in Seq(S) /\ Len(hist) \in Nat /\ Len(out) \in Nat
  OBVIOUS
<1>3. left > 0 => mo <= Len(out) + Len(hist) /\ mo > 0
  OBVIOUS
<1> HIDE DEF hist
<1>4. back > 0 => Min({left, back}) = IF left <= back THEN left ELSE back
  <2>1. left \in Int /\ back \in Int
    BY <1>2
  <2> HIDE DEF back
  <2> QED
    BY <2>1, MinOfTwo
<1>5. n \in 0..left /\ (n > 0 => n <= back /\ at >= 0) /\ (n < left => back <= n)
  <2>1. left \in Nat /\ back \in Int /\ at \in Int /\ (left > 0 => at >= 0)
    BY <1>2, <1>3
  <2>2. n = IF back > 0 THEN (IF left <= back THEN left ELSE back) ELSE 0
    BY <1>4
  <2> HIDE DEF n, at, back
  <2> QED
    BY <2>1, <2>2
<1> HIDE DEF n
<1>6. InHistory(S, env.dict, hist, base, lit, L, byte, mo, ml, end, out, left, at, n)
  BY <1>2, <1>5 DEF InHistory, hist
<1> HIDE DEF at
<1>7. /\ Stage(S, byte, base, next, rest, end)
      /\ Len(next) = Len(out) + n
      /\ n < left => mo <= Len(out) + n
  BY <1>6, HistoryPiece
<1>8. rest \in Nat /\ (rest > 0 => n < left)
  BY <1>5
<1>9. next \in Seq(S)
  BY <1>7 DEF Stage
<1> HIDE DEF next, rest
<1>10. CASE rest > 0
  <2>1. mo \in 1..Len(next) /\ Len(next) >= Len(lit)
    BY <1>2, <1>3, <1>5, <1>7, <1>8, <1>10
  <2>2. Stage(S, byte, base, Exec!CopyOut(next, mo, rest), 0, end)
    BY <1>7, <1>8, <1>9, <2>1, OutputPiece
  <2> QED
    BY <1>1, <1>10, <2>2
<1>11. CASE ~(rest > 0)
  <2>1. rest = 0
    BY <1>8, <1>11
  <2> QED
    BY <1>1, <1>7, <2>1
<1> QED
  BY <1>10, <1>11

(* The pieces of a match that starts in the dictionary, or not. *)
Far(S, env, base, lit, L, byte, mo, ml, end) ==
  /\ lit \in Seq(S) /\ base \in Nat /\ L \in Nat
  /\ mo \in Nat /\ ml \in Nat /\ end \in Nat
  /\ env.dict \in Seq(S) /\ env.hist \in Seq(S)
  /\ Surrounded(S, env.dict, env.hist, base, lit, L, byte, mo, ml, end)
  /\ ml > 0 => mo > 0
  /\ mo - (Len(lit) + Len(env.hist)) \in 1..Len(env.dict)

LEMMA FarMatch ==
  ASSUME NEW S, NEW env, NEW base, NEW lit, NEW L, NEW byte, NEW mo, NEW ml, NEW end,
         Far(S, env, base, lit, L, byte, mo, ml, end)
  PROVE  LET from == Exec!FromDict(env, lit, mo, ml)
         IN  from.ok /\ Near(S, env, base, lit, L, byte, mo, ml, end, from.out, from.left)
<1> DEFINE dict == env.dict
           hist == env.hist
           D == Len(dict)
           H == Len(hist)
           at == D - (mo - (Len(lit) + H))
           room == D - at
           n == Min({ml, room})
           out == Grown(lit, dict, at, n)
           left == ml - n
<1>1. /\ lit \in Seq(S) /\ base \in Nat /\ L \in Nat
      /\ mo \in Nat /\ ml \in Nat /\ end \in Nat
      /\ dict \in Seq(S) /\ hist \in Seq(S)
      /\ Surrounded(S, dict, hist, base, lit, L, byte, mo, ml, end)
      /\ ml > 0 => mo > 0
      /\ mo - (Len(lit) + H) \in 1..D
  BY DEF Far
<1>2. at \in 0..(D - 1) => Exec!FromDict(env, lit, mo, ml) = [ok |-> TRUE, out |-> out, left |-> left]
  BY FromDictValue
<1> HIDE DEF dict, hist
<1>3. D \in Nat /\ H \in Nat /\ Len(lit) \in Nat
  BY <1>1
<1> HIDE DEF D, H
<1>4. at \in 0..(D - 1) /\ room = mo - (Len(lit) + H) /\ room \in Nat /\ at \in Nat
  BY <1>1, <1>3
<1> HIDE DEF room
<1>5. n = IF ml <= room THEN ml ELSE room
  BY <1>1, <1>4, MinOfTwo
<1> HIDE DEF n
<1>6. n \in 0..ml /\ n <= room /\ (n < ml => n = room)
  BY <1>1, <1>4, <1>5
<1>7. InDict(S, dict, hist, base, lit, L, byte, mo, ml, end, at, n)
  <2>1. at = Len(dict) - (mo - (Len(lit) + Len(hist))) /\ at \in 0..(Len(dict) - 1)
    BY <1>4 DEF D, H
  <2>2. n <= Len(dict) - at /\ (n < ml => n = Len(dict) - at)
    BY <1>6 DEF D, room
  <2> HIDE DEF at
  <2> QED
    BY <1>1, <1>6, <2>1, <2>2 DEF InDict
<1>8. Exec!FromDict(env, lit, mo, ml) = [ok |-> TRUE, out |-> out, left |-> left]
  BY <1>2, <1>4
<1> HIDE DEF at
<1>9. /\ Stage(S, byte, base, out, left, end)
      /\ Len(out) = Len(lit) + n
      /\ n < ml => mo <= Len(lit) + n + Len(hist)
  BY <1>7, DictPiece
<1>10. out \in Seq(S)
  BY <1>9 DEF Stage
<1> HIDE DEF out
<1>11. left \in Nat /\ Len(out) >= Len(lit) /\ (left > 0 => n < ml /\ ml > 0)
  BY <1>1, <1>3, <1>6, <1>9
<1> HIDE DEF left
<1>12. left > 0 => mo <= Len(out) + Len(hist) /\ mo > 0
  BY <1>1, <1>3, <1>9, <1>11
<1>13. Near(S, env, base, lit, L, byte, mo, ml, end, out, left)
  BY <1>1, <1>9, <1>10, <1>11, <1>12 DEF Near, dict, hist
<1> QED
  BY <1>8, <1>13

(* What is copied byte by byte, as predicates that can be instantiated. *)
Copies(S, all, mo, ml) == all \in Seq(S) /\ mo \in Nat /\ ml \in Nat /\ (ml > 0 => mo \in 1..Len(all))

Copied(S, all, mo, ml, byte) ==
  /\ byte \in Seq(S) /\ Len(byte) = Len(all) + ml
  /\ \A i \in 1..(Len(all) + ml) : byte[i] = IF i <= Len(all) THEN all[i] ELSE byte[i - mo]

LEMMA CopiedBytewise ==
  ASSUME NEW S, NEW all, NEW mo, NEW ml, Copies(S, all, mo, ml)
  PROVE  Copied(S, all, mo, ml, Exec!Bytewise(all, mo, ml))
<1>1. all \in Seq(S) /\ mo \in Nat /\ ml \in Nat /\ (ml > 0 => mo \in 1..Len(all))
  BY DEF Copies
<1>2. /\ Exec!Bytewise(all, mo, ml) \in Seq(S)
      /\ Len(Exec!Bytewise(all, mo, ml)) = Len(all) + ml
      /\ \A i \in 1..(Len(all) + ml) :
           Exec!Bytewise(all, mo, ml)[i] =
             IF i <= Len(all) THEN all[i] ELSE Exec!Bytewise(all, mo, ml)[i - mo]
  BY <1>1, BytewiseValue
<1> QED
  BY <1>2 DEF Copied

(* The byte by byte copy has these surroundings. *)
Surrounds(S, dict, hist, out, pre, mo, ml, base, L, end) ==
  /\ dict \in Seq(S) /\ hist \in Seq(S) /\ out \in Seq(S) /\ pre \in Seq(S)
  /\ mo \in Nat /\ ml \in Nat /\ base \in Nat /\ L \in Nat /\ end \in Nat
  /\ base = Len(dict) + Len(hist) /\ L = base + Len(out \o pre) /\ end = L + ml
  /\ ml > 0 => mo \in 1..L

LEMMA SurroundedBy ==
  ASSUME NEW S, NEW dict, NEW hist, NEW out, NEW pre, NEW mo, NEW ml, NEW base, NEW L, NEW end,
         Surrounds(S, dict, hist, out, pre, mo, ml, base, L, end)
  PROVE  LET byte == Exec!Bytewise(dict \o hist \o out \o pre, mo, ml)
         IN  /\ byte \in Seq(S) /\ Len(byte) = end
             /\ Surrounded(S, dict, hist, base, out \o pre, L, byte, mo, ml, end)
<1> /\ dict \in Seq(S) /\ hist \in Seq(S) /\ out \in Seq(S) /\ pre \in Seq(S)
    /\ mo \in Nat /\ ml \in Nat /\ base \in Nat /\ L \in Nat /\ end \in Nat
    /\ base = Len(dict) + Len(hist) /\ L = base + Len(out \o pre) /\ end = L + ml
    /\ ml > 0 => mo \in 1..L
  BY DEF Surrounds
<1> DEFINE all == dict \o hist \o out \o pre
           lit == out \o pre
           byte == Exec!Bytewise(all, mo, ml)
<1>1. /\ all \in Seq(S)
      /\ Len(all) = Len(dict) + Len(hist) + Len(lit)
      /\ \A i \in 1..Len(dict) : all[i] = dict[i]
      /\ \A i \in 1..Len(hist) : all[Len(dict) + i] = hist[i]
      /\ \A i \in 1..Len(lit) : all[Len(dict) + Len(hist) + i] = lit[i]
  <2>1. Seqs(S, dict, hist, out, pre)
    BY DEF Seqs
  <2>2. Parts(S, dict, hist, out \o pre, dict \o hist \o out \o pre)
    BY <2>1, FourParts
  <2> QED
    BY <2>2 DEF Parts
<1>2. lit \in Seq(S) /\ Len(lit) \in Nat /\ Len(dict) \in Nat /\ Len(hist) \in Nat
  OBVIOUS
<1>3. L = base + Len(lit)
  OBVIOUS
<1> HIDE DEF all, lit
<1>4. Len(all) = L
  BY <1>1, <1>2, <1>3
<1>5. /\ byte \in Seq(S) /\ Len(byte) = L + ml
      /\ \A i \in 1..(L + ml) : byte[i] = IF i <= L THEN all[i] ELSE byte[i - mo]
  <2>1. ml > 0 => mo \in 1..Len(all)
    BY <1>4
  <2>2. Copies(S, all, mo, ml)
    BY <1>1, <2>1 DEF Copies
  <2>3. Copied(S, all, mo, ml, byte)
    BY <2>2, CopiedBytewise
  <2> HIDE DEF byte
  <2> QED
    BY <1>4, <2>3 DEF Copied
<1> HIDE DEF byte
<1>6. ASSUME NEW i \in 1..L
      PROVE  byte[i] = all[i]
  BY <1>5
<1>7. Follows(byte, 0, dict)
  <2>1. ASSUME NEW i \in 1..Len(dict)
        PROVE  dict[i] = byte[0 + i]
    <3>1. i \in 1..L /\ 0 + i = i
      BY <1>2, <1>3
    <3> QED
      BY <1>1, <1>6, <3>1
  <2> QED
    BY <2>1 DEF Follows
<1>8. Follows(byte, Len(dict), hist)
  <2>1. ASSUME NEW i \in 1..Len(hist)
        PROVE  hist[i] = byte[Len(dict) + i]
    <3>1. Len(dict) + i \in 1..L
      BY <1>2, <1>3, SMTT(30)
    <3> QED
      BY <1>1, <1>6, <3>1
  <2> QED
    BY <2>1 DEF Follows
<1>9. Follows(byte, base, lit)
  <2>1. ASSUME NEW i \in 1..Len(lit)
        PROVE  lit[i] = byte[base + i]
    <3>1. base + i \in 1..L
      BY <1>2, <1>3, SMTT(30)
    <3> QED
      BY <1>1, <1>6, <3>1
  <2> QED
    BY <2>1 DEF Follows
<1>10. Repeating(byte, L, ml, mo)
  <2>1. ASSUME NEW i \in (L + 1)..(L + ml)
        PROVE  byte[i] = byte[i - mo]
    BY <1>5
  <2> QED
    BY <2>1 DEF Repeating
<1>11. Surrounded(S, dict, hist, base, lit, L, byte, mo, ml, end)
  BY <1>2, <1>3, <1>7, <1>8, <1>9, <1>10 DEF Surrounded
<1> QED
  BY <1>5, <1>11 DEF byte, all, lit

(* A sequence that follows byte to its end is the end of byte. *)
LEMMA FollowsToEnd ==
  ASSUME NEW S, NEW byte \in Seq(S), NEW base \in Nat, NEW out, Stage(S, byte, base, out, 0, Len(byte))
  PROVE  out = Exec!LastOf(byte, Len(out))
<1>1. out \in Seq(S) /\ Follows(byte, base, out) /\ Len(out) \in Nat /\ base + Len(out) = Len(byte) /\ Len(byte) \in Nat
  <2>1. out \in Seq(S) /\ Follows(byte, base, out) /\ (base + Len(out)) + 0 = Len(byte)
    BY DEF Stage
  <2> QED
    BY <2>1
<1>2. Len(byte) - Len(out) + 1 = base + 1
  BY <1>1
<1> DEFINE last == SubSeq(byte, base + 1, Len(byte))
<1>3. Exec!LastOf(byte, Len(out)) = last
  BY <1>2 DEF Exec!LastOf
<1>4. last \in Seq(S) /\ Len(last) = Len(out) /\ \A q \in 1..Len(out) : last[q] = byte[base + q]
  <2>1. base + 1 \in 1..(Len(byte) + 1) /\ Len(byte) \in 0..Len(byte) /\ Len(byte) - (base + 1) + 1 = Len(out)
    BY <1>1
  <2>2. last \in Seq(S) /\ Len(last) = Len(out)
    BY <2>1
  <2>3. ASSUME NEW q \in 1..Len(out)
        PROVE  last[q] = byte[base + q]
    <3>1. last[q] = byte[(base + 1) + q - 1]
      BY <1>1, <2>1
    <3>2. (base + 1) + q - 1 = base + q
      BY <1>1
    <3> QED
      BY <3>1, <3>2
  <2> QED
    BY <2>2, <2>3
<1> HIDE DEF last
<1>5. \A q \in 1..Len(out) : out[q] = byte[base + q]
  BY <1>1 DEF Follows
<1>6. out = last
  BY <1>1, <1>4, <1>5
<1> QED
  BY <1>3, <1>6

-----------------------------------------------------------------------------
(* What a block is surrounded by, a sequence, and what the sequences of    *)
(* the block before it have produced and left.                             *)
Settings(S) == [dict : Seq(S), hist : Seq(S), window : Nat, maxBlock : Int, start : Nat]

Sequence == [ll : Nat, ml : Nat, mo : Nat]

Progress(S) == [ok : BOOLEAN, out : Seq(S), lits : Seq(S), room : Int]

(* A turn of the loop of decodeSync whose literals are there, with the     *)
(* pieces of the match by their names.                                     *)
ExecutedTo(env, seq, slack, acc) ==
  LET lit  == acc.out \o SubSeq(acc.lits, 1, seq.ll)
      far  == seq.mo > Len(lit) + Len(env.hist) \/ seq.mo > env.window
      dict == IF far THEN Exec!FromDict(env, lit, seq.mo, seq.ml) ELSE [ok |-> TRUE, out |-> lit, left |-> seq.ml]
      hist == Exec!FromHistory(env, dict.out, seq.mo, dict.left)
      all  == IF hist.left > 0 THEN Exec!CopyOut(hist.out, seq.mo, hist.left) ELSE hist.out
  IN  IF \/ seq.ll + seq.ml + Len(acc.out) - env.start > env.maxBlock
         \/ seq.ml > MaxMatch
         \/ seq.mo = 0 /\ seq.ml > 0
         \/ ~dict.ok
      THEN Exec!Failed
      ELSE [ok |-> TRUE, out |-> all, lits |-> SubSeq(acc.lits, seq.ll + 1, Len(acc.lits)),
            room |-> Exec!Room(env, acc, seq.ll + seq.ml, slack)]

LEMMA ExecuteValue ==
  ASSUME NEW env, NEW seq, NEW slack, NEW acc, seq.ll \in Nat, Len(acc.lits) \in Nat
  PROVE  /\ seq.ll > Len(acc.lits) => Exec!Execute(env, seq, slack, acc) = Exec!Failed
         /\ seq.ll <= Len(acc.lits) => Exec!Execute(env, seq, slack, acc) = ExecutedTo(env, seq, slack, acc)
<1>1. ASSUME seq.ll > Len(acc.lits)
      PROVE  Exec!Execute(env, seq, slack, acc) = Exec!Failed
  BY <1>1, Zenon DEF Exec!Execute
<1>2. ASSUME seq.ll <= Len(acc.lits)
      PROVE  Exec!Execute(env, seq, slack, acc) = ExecutedTo(env, seq, slack, acc)
  <2>1. Min({seq.ll, Len(acc.lits)}) = seq.ll
    <3>1. Min({seq.ll, Len(acc.lits)}) = IF seq.ll <= Len(acc.lits) THEN seq.ll ELSE Len(acc.lits)
      BY MinOfTwo
    <3> QED
      BY <1>2, <3>1
  <2>2. Exec!Min({seq.ll, Len(acc.lits)}) = seq.ll
    BY <2>1, Zenon DEF Exec!Min, Min
  <2>3. ~(seq.ll > Len(acc.lits))
    BY <1>2
  <2> QED
    BY <2>2, <2>3, Zenon DEF Exec!Execute, ExecutedTo
<1> QED
  BY <1>1, <1>2

(* The room that is kept suffices for a sequence that fits in its block. *)
LEMMA RoomSuffices ==
  ASSUME NEW env, NEW acc, NEW more \in Nat, NEW slack \in Nat,
         Len(acc.out) \in Nat, acc.room \in Int, env.maxBlock \in Int, env.start \in Nat,
         (more + Len(acc.out)) - env.start <= env.maxBlock
  PROVE  Len(acc.out) + more <= Exec!Room(env, acc, more, slack)
<1> DEFINE used == Len(acc.out)
           left == env.maxBlock - (used - env.start)
           wish == slack + more
           room == Min({wish, left})
<1>1. left \in Int /\ wish \in Int /\ more <= left /\ more <= wish
  OBVIOUS
<1>2. Exec!Room(env, acc, more, slack) = IF used + more <= acc.room THEN acc.room ELSE used + room
  BY Zenon DEF Exec!Room, Exec!Min, Min
<1> HIDE DEF left, wish
<1>3. room = IF wish <= left THEN wish ELSE left
  BY <1>1, MinOfTwo
<1> HIDE DEF room
<1>4. room \in Int /\ more <= room
  BY <1>1, <1>3
<1> QED
  BY <1>2, <1>4

LEMMA FromDictAccepts ==
  ASSUME NEW env, NEW lit, NEW mo, NEW ml
  PROVE  Exec!FromDict(env, lit, mo, ml).ok
           = (Len(env.dict) - (mo - (Len(lit) + Len(env.hist))) \in 0..(Len(env.dict) - 1))
BY DEF Exec!FromDict

(* A match that starts in the history or the output, or else in the        *)
(* dictionary, ends with what the byte by byte copy has there.             *)
WithinReach(S, env, out, pre, mo, ml, far) ==
  /\ env.dict \in Seq(S) /\ env.hist \in Seq(S) /\ out \in Seq(S) /\ pre \in Seq(S)
  /\ mo \in Nat /\ ml \in Nat /\ far \in BOOLEAN
  /\ ml > 0 => mo > 0
  /\ far => mo - (Len(out \o pre) + Len(env.hist)) \in 1..Len(env.dict)
  /\ ~far => mo <= Len(out \o pre) + Len(env.hist)

Reached(env, out, pre, mo, ml, far) ==
  LET lit  == out \o pre
      dict == IF far THEN Exec!FromDict(env, lit, mo, ml) ELSE [ok |-> TRUE, out |-> lit, left |-> ml]
      hist == Exec!FromHistory(env, dict.out, mo, dict.left)
      all  == IF hist.left > 0 THEN Exec!CopyOut(hist.out, mo, hist.left) ELSE hist.out
  IN  /\ dict.ok
      /\ Len(all) = Len(lit) + ml
      /\ all = Exec!LastOf(Exec!Bytewise(env.dict \o env.hist \o out \o pre, mo, ml), Len(lit) + ml)

LEMMA MatchReaches ==
  ASSUME NEW S, NEW env, NEW out, NEW pre, NEW mo, NEW ml, NEW far, WithinReach(S, env, out, pre, mo, ml, far)
  PROVE  Reached(env, out, pre, mo, ml, far)
<1> DEFINE dict == env.dict
           hist == env.hist
           lit == out \o pre
           base == Len(dict) + Len(hist)
           L == base + Len(lit)
           end == L + ml
           byte == Exec!Bytewise(dict \o hist \o out \o pre, mo, ml)
           first == IF far THEN Exec!FromDict(env, lit, mo, ml) ELSE [ok |-> TRUE, out |-> lit, left |-> ml]
           second == Exec!FromHistory(env, first.out, mo, first.left)
           all == IF second.left > 0 THEN Exec!CopyOut(second.out, mo, second.left) ELSE second.out
<1>1. /\ dict \in Seq(S) /\ hist \in Seq(S) /\ out \in Seq(S) /\ pre \in Seq(S)
      /\ mo \in Nat /\ ml \in Nat /\ far \in BOOLEAN
      /\ ml > 0 => mo > 0
      /\ far => mo - (Len(lit) + Len(hist)) \in 1..Len(dict)
      /\ ~far => mo <= Len(lit) + Len(hist)
  BY DEF WithinReach
<1>2. lit \in Seq(S)
  BY <1>1
<1> HIDE DEF dict, hist
<1>3. /\ base \in Nat /\ L \in Nat /\ end \in Nat /\ Len(lit) \in Nat /\ Len(dict) \in Nat /\ Len(hist) \in Nat
      /\ base = Len(dict) + Len(hist) /\ L = base + Len(out \o pre) /\ end = L + ml
      /\ ml > 0 => mo \in 1..L
  <2>1. Len(lit) \in Nat /\ Len(dict) \in Nat /\ Len(hist) \in Nat
    BY <1>1, <1>2
  <2> HIDE DEF lit
  <2>2. base \in Nat /\ L \in Nat /\ end \in Nat /\ (ml > 0 => mo \in 1..L)
    BY <1>1, <2>1
  <2> QED
    BY <2>1, <2>2 DEF lit
<1> HIDE DEF base, L, end
<1>4. /\ byte \in Seq(S) /\ Len(byte) = end
      /\ Surrounded(S, dict, hist, base, lit, L, byte, mo, ml, end)
  <2>1. Surrounds(S, dict, hist, out, pre, mo, ml, base, L, end)
    BY <1>1, <1>3 DEF Surrounds
  <2> QED
    BY <2>1, SurroundedBy
<1> HIDE DEF byte
<1>5. Near(S, env, base, lit, L, byte, mo, ml, end, first.out, first.left) /\ first.ok
  <2>1. CASE ~far
    <3>1. first = [ok |-> TRUE, out |-> lit, left |-> ml]
      BY <2>1
    <3> HIDE DEF first, lit
    <3>2. Follows(byte, base, lit) /\ L = base + Len(lit) /\ end = L + ml
      BY <1>4 DEF Surrounded
    <3>3. Stage(S, byte, base, lit, ml, end)
      <4>1. (base + Len(lit)) + ml = end
        BY <1>1, <1>3, <3>2
      <4> QED
        BY <1>1, <1>2, <3>2, <4>1 DEF Stage
    <3>4. ml > 0 => mo <= Len(lit) + Len(hist) /\ mo > 0
      BY <1>1, <2>1
    <3>5. Len(lit) >= Len(lit)
      BY <1>3
    <3>6. Near(S, env, base, lit, L, byte, mo, ml, end, lit, ml)
      BY <1>1, <1>2, <1>3, <1>4, <3>3, <3>4, <3>5 DEF Near, dict, hist
    <3> QED
      BY <3>1, <3>6
  <2>2. CASE far
    <3>1. first = Exec!FromDict(env, lit, mo, ml)
      BY <2>2
    <3> HIDE DEF first, lit
    <3>2. Far(S, env, base, lit, L, byte, mo, ml, end)
      BY <1>1, <1>2, <1>3, <1>4, <2>2 DEF Far, dict, hist
    <3> QED
      BY <3>1, <3>2, FarMatch
  <2> QED
    BY <1>1, <2>1, <2>2
<1> HIDE DEF first
<1>6. Finishes(S, env, base, byte, mo, end, first.out, first.left)
  BY <1>5, NearMatch
<1>7. Stage(S, byte, base, all, 0, end)
  BY <1>6, Zenon DEF Finishes
<1> HIDE DEF all
<1>8. all = Exec!LastOf(byte, Len(all))
  BY <1>4, <1>7, <1>3, FollowsToEnd
<1>9. Len(all) = Len(lit) + ml
  <2>1. all \in Seq(S) /\ (base + Len(all)) + 0 = end
    BY <1>7 DEF Stage
  <2>2. Len(all) \in Nat
    BY <2>1
  <2>3. end = base + Len(lit) + ml
    BY DEF end, L
  <2> HIDE DEF lit
  <2> QED
    BY <1>1, <1>3, <2>1, <2>2, <2>3, SMTT(30)
<1>10. all = Exec!LastOf(byte, Len(lit) + ml)
  BY <1>8, <1>9
<1> QED
  BY <1>5, <1>9, <1>10, Zenon DEF Reached, all, first, byte, dict, hist

(* However a match lies over dictionary, history and output, decodeSync    *)
(* produces what the byte by byte copy does, refuses exactly the sequences *)
(* that are not legal, and never writes past the capacity it has grown its *)
(* output to: for every alphabet, dictionary, history, output and sequence. *)
THEOREM CopyIsExact ==
  ASSUME NEW S, MaxMatch \in Nat,
         NEW env \in Settings(S), NEW seq \in Sequence, NEW slack \in Nat, NEW acc \in Progress(S)
  PROVE  Exec!CopyIsBytewise(env, seq, slack, acc)
<1> DEFINE ll == seq.ll
           ml == seq.ml
           mo == seq.mo
           done == Exec!Execute(env, seq, slack, acc)
           byte == Exec!Bytewise(env.dict \o env.hist \o acc.out \o SubSeq(acc.lits, 1, ll), mo, ml)
           used == Len(acc.out)
           D == Len(env.dict)
           H == Len(env.hist)
<1>1. /\ ll \in Nat /\ ml \in Nat /\ mo \in Nat
      /\ acc.out \in Seq(S) /\ acc.lits \in Seq(S) /\ acc.room \in Int
      /\ env.dict \in Seq(S) /\ env.hist \in Seq(S)
      /\ env.window \in Nat /\ env.maxBlock \in Int /\ env.start \in Nat
  BY DEF Settings, Sequence, Progress
<1>2. used \in Nat /\ D \in Nat /\ H \in Nat /\ Len(acc.lits) \in Nat
  BY <1>1, SMTT(30)
<1>3. CASE ll > Len(acc.lits)
  <2>1. done = Exec!Failed
    BY <1>1, <1>2, <1>3, ExecuteValue
  <2>2. done.ok = FALSE
    BY <2>1 DEF Exec!Failed
  <2>3. ~(ll <= Len(acc.lits))
    BY <1>1, <1>2, <1>3
  <2>4. Exec!Legal(env, seq, acc) = FALSE
    BY <2>3, Zenon DEF Exec!Legal
  <2> HIDE DEF done
  <2> QED
    BY <2>2, <2>4, Zenon DEF Exec!CopyIsBytewise, done
<1>4. CASE ll <= Len(acc.lits)
  <2> DEFINE pre == SubSeq(acc.lits, 1, ll)
             lit == acc.out \o pre
             far == mo > Len(lit) + H \/ mo > env.window
             dict == IF far THEN Exec!FromDict(env, lit, mo, ml) ELSE [ok |-> TRUE, out |-> lit, left |-> ml]
             hist == Exec!FromHistory(env, dict.out, mo, dict.left)
             all == IF hist.left > 0 THEN Exec!CopyOut(hist.out, mo, hist.left) ELSE hist.out
             room == Exec!Room(env, acc, ll + ml, slack)
             fits == ll + ml + used - env.start <= env.maxBlock
  <2>1. pre \in Seq(S) /\ Len(pre) = ll
    BY <1>1, <1>2, <1>4
  <2>2. lit \in Seq(S) /\ Len(lit) = used + ll
    BY <1>1, <2>1
  <2>3. done = IF ~fits \/ ml > MaxMatch \/ (mo = 0 /\ ml > 0) \/ ~dict.ok
               THEN Exec!Failed
               ELSE [ok |-> TRUE, out |-> all, lits |-> SubSeq(acc.lits, ll + 1, Len(acc.lits)), room |-> room]
    <3>1. done = ExecutedTo(env, seq, slack, acc)
      BY <1>1, <1>2, <1>4, ExecuteValue
    <3>2. (ll + ml + used - env.start > env.maxBlock) = ~fits
      BY <1>1, <1>2, SMTT(30)
    <3> HIDE DEF done
    <3> QED
      BY <3>1, <3>2, Zenon DEF ExecutedTo
  <2> DEFINE near == mo <= Min({used + ll + H, env.window})
             behind == mo \in (used + ll + H + 1)..(used + ll + H + D)
  <2>4. Exec!Legal(env, seq, acc) = (fits /\ ml <= MaxMatch /\ (ml > 0 => mo > 0) /\ (near \/ behind))
    <3>1. (used - env.start + ll + ml <= env.maxBlock) = fits
      BY <1>1, <1>2, SMTT(30)
    <3> HIDE DEF fits
    <3> QED
      BY <1>4, <3>1, Zenon DEF Exec!Legal, Exec!Min, Min
  <2> HIDE DEF done
  <2>5. near = ~far
    <3> DEFINE back == used + ll + H
               window == env.window
    <3>0. back \in Int /\ window \in Int
      BY <1>1, <1>2, SMTT(30)
    <3> HIDE DEF back, window
    <3>1. Min({back, window}) = IF back <= window THEN back ELSE window
      BY <3>0, MinOfTwo
    <3> USE DEF back, window
    <3> HIDE DEF lit
    <3> QED
      BY <1>1, <1>2, <2>2, <3>1, SMTT(30)
  <2>6. far => dict.ok = behind
    <3>1. Exec!FromDict(env, lit, mo, ml).ok = (D - (mo - (Len(lit) + H)) \in 0..(D - 1))
      BY FromDictAccepts
    <3> HIDE DEF lit
    <3>2. (D - (mo - (Len(lit) + H)) \in 0..(D - 1)) = behind
      <4>1. \A d, h, u, l, m \in Nat : (d - (m - ((u + l) + h)) \in 0..(d - 1)) = (m \in (u + l + h + 1)..(u + l + h + d))
        OBVIOUS
      <4>2. (D - (mo - ((used + ll) + H)) \in 0..(D - 1)) = behind
        <5> HIDE DEF ll, mo, used, D, H
        <5> QED
          BY <1>1, <1>2, <4>1
      <4> QED
        BY <2>2, <4>2
    <3>3. far => dict = Exec!FromDict(env, lit, mo, ml)
      OBVIOUS
    <3> HIDE DEF dict, far, behind
    <3> QED
      BY <3>1, <3>2, <3>3
  <2>7. ~far => dict.ok = TRUE
    OBVIOUS
  <2>8. behind => far
    <3> HIDE DEF lit
    <3> QED
      BY <1>1, <1>2, <2>2, SMTT(30)
  <2>9. Exec!Legal(env, seq, acc) => Reached(env, acc.out, pre, mo, ml, far)
    <3>1. SUFFICES ASSUME Exec!Legal(env, seq, acc)
                   PROVE  Reached(env, acc.out, pre, mo, ml, far)
      OBVIOUS
    <3>2. (ml > 0 => mo > 0) /\ (near \/ behind)
      BY <2>4, <3>1
    <3>3. far => behind
      BY <2>5, <3>2
    <3>4. far => mo - (Len(lit) + H) \in 1..D
      <4> HIDE DEF lit, far
      <4> QED
        <5>1. \A d, h, u, l, m \in Nat : m \in (u + l + h + 1)..(u + l + h + d) => m - ((u + l) + h) \in 1..d
          OBVIOUS
        <5>2. behind => mo - ((used + ll) + H) \in 1..D
          <6> HIDE DEF ll, mo, used, D, H
          <6> QED
            BY <1>1, <1>2, <5>1
        <5> QED
          BY <2>2, <3>3, <5>2
    <3>5. ~far => mo <= Len(lit) + H
      <4> HIDE DEF lit
      <4> QED
        BY <1>1, <1>2, <2>2
    <3> HIDE DEF far
    <3>6. WithinReach(S, env, acc.out, pre, mo, ml, far)
      <4>1. far \in BOOLEAN
        BY DEF far
      <4> HIDE DEF pre
      <4> QED
        BY <1>1, <2>1, <3>2, <3>4, <3>5, <4>1 DEF WithinReach
    <3> QED
      BY <3>6, MatchReaches
  <2>10. Exec!Legal(env, seq, acc) =>
           /\ dict.ok
           /\ Len(all) = Len(lit) + ml
           /\ all = Exec!LastOf(byte, Len(lit) + ml)
    BY <2>9, Zenon DEF Reached
  <2>11. fits => used + (ll + ml) <= room
    <3>1. fits => (ll + ml) + used - env.start <= env.maxBlock
      BY <1>1, <1>2
    <3>2. ll + ml \in Nat
      BY <1>1
    <3> QED
      BY <1>1, <1>2, <3>1, <3>2, RoomSuffices, SMTT(30)
  <2>12. (ml > MaxMatch) = ~(ml <= MaxMatch) /\ (mo = 0 /\ ml > 0) = ~(ml > 0 => mo > 0)
    BY <1>1
  <2> HIDE DEF far, near, behind, fits, dict, all, room, byte
  <2>13. done.ok = Exec!Legal(env, seq, acc)
    <3>1. (near \/ behind) = dict.ok
      <4>1. near \in BOOLEAN /\ far \in BOOLEAN /\ behind \in BOOLEAN
        BY DEF near, far, behind
      <4> QED
        BY <2>5, <2>6, <2>7, <2>8, <4>1
    <3>2. CASE Exec!Legal(env, seq, acc)
      BY <2>3, <2>4, <2>12, <3>1, <3>2
    <3>3. CASE ~Exec!Legal(env, seq, acc)
      <4>1. done = Exec!Failed
        BY <2>3, <2>4, <2>12, <3>1, <3>3
      <4>2. done.ok = FALSE
        BY <4>1 DEF Exec!Failed
      <4>3. Exec!Legal(env, seq, acc) \in BOOLEAN
        BY <2>4
      <4> QED
        BY <3>3, <4>2, <4>3
    <3> QED
      BY <3>2, <3>3
  <2>14. Exec!Legal(env, seq, acc) => done.out = all /\ done.room = room
    <3>1. ASSUME Exec!Legal(env, seq, acc)
          PROVE  done.out = all /\ done.room = room
      <4>1. ~(~fits \/ ml > MaxMatch \/ (mo = 0 /\ ml > 0) \/ ~dict.ok)
        BY <2>4, <2>10, <2>12, <3>1
      <4> QED
        BY <2>3, <4>1
    <3> QED
      BY <3>1
  <2>15. Len(lit) + ml = used + ll + ml /\ used + (ll + ml) = used + ll + ml
    BY <1>1, <1>2, <2>2
  <2>16. ASSUME Exec!Legal(env, seq, acc)
         PROVE  done.out = Exec!LastOf(byte, used + ll + ml) /\ Len(done.out) <= done.room
    <3>1. fits
      BY <2>4, <2>16
    <3> QED
      BY <2>10, <2>11, <2>14, <2>15, <2>16, <3>1
  <2> QED
    BY <2>13, <2>16, Zenon DEF Exec!CopyIsBytewise, done, byte
<1> QED
  BY <1>2, <1>1, <1>3, <1>4

-----------------------------------------------------------------------------
(* A function that is defined by recursion on a bound, with the step given *)
(* as a function of what was there and the number: it exists, and its      *)
(* values stay in a set the step stays in.                                 *)
Recurs(f, base, step, N) == f = [n \in 0..N |-> IF n = 0 THEN base ELSE step[<< f[n - 1], n >>]]

LEMMA RecursionExists ==
  ASSUME NEW base, NEW step, NEW N \in Nat
  PROVE  \E f : Recurs(f, base, step, N)
<1> DEFINE T == {m \in Nat : \E f : Recurs(f, base, step, m)}
<1>1. 0 \in T
  <2> DEFINE f == [n \in 0..0 |-> base]
  <2>1. f = [n \in 0..0 |-> IF n = 0 THEN base ELSE step[<< f[n - 1], n >>]]
    <3> \A n \in 0..0 : n = 0
      OBVIOUS
    <3> QED
      OBVIOUS
  <2>2. Recurs(f, base, step, 0)
    BY <2>1 DEF Recurs
  <2> QED
    BY <2>2
<1>2. ASSUME NEW m \in Nat, m \in T
      PROVE  m + 1 \in T
  <2>1. PICK f : Recurs(f, base, step, m)
    BY <1>2
  <2> DEFINE last == step[<< f[m], m + 1 >>]
             g == [n \in 0..(m + 1) |-> IF n <= m THEN f[n] ELSE last]
  <2>2. ASSUME NEW n \in 0..(m + 1)
        PROVE  g[n] = IF n = 0 THEN base ELSE step[<< g[n - 1], n >>]
    <3>1. CASE n = 0
      <4>1. g[n] = f[n]
        BY <3>1
      <4>2. f[n] = base
        BY <2>1, <3>1 DEF Recurs
      <4> QED
        BY <3>1, <4>1, <4>2
    <3>2. CASE n \in 1..m
      <4>1. g[n] = f[n] /\ g[n - 1] = f[n - 1]
        BY <3>2
      <4>2. f[n] = step[<< f[n - 1], n >>]
        <5>1. n \in 0..m /\ n # 0
          BY <3>2
        <5> QED
          BY <2>1, <5>1 DEF Recurs
      <4> HIDE DEF g
      <4> QED
        BY <3>2, <4>1, <4>2
    <3>3. CASE n = m + 1
      <4>1. g[n] = last /\ g[n - 1] = f[m] /\ n # 0
        BY <3>3
      <4> HIDE DEF g
      <4> QED
        BY <3>3, <4>1
    <3> QED
      BY <3>1, <3>2, <3>3
  <2>3. Recurs(g, base, step, m + 1)
    <3>1. g = [n \in 0..(m + 1) |-> g[n]]
      OBVIOUS
    <3> HIDE DEF g
    <3> QED
      BY <2>2, <3>1 DEF Recurs
  <2> QED
    BY <2>3
<1>3. \A m \in Nat : m \in T
  <2> HIDE DEF T
  <2> QED
    BY <1>1, <1>2, SetInduction
<1> QED
  BY <1>3

LEMMA RecursionTyped ==
  ASSUME NEW T, NEW base \in T, NEW step, NEW N \in Nat, NEW f, Recurs(f, base, step, N),
         \A v \in T, n \in 1..N : step[<< v, n >>] \in T
  PROVE  \A n \in 0..N : f[n] \in T
<1> DEFINE U == {n \in Nat : n \in 0..N => f[n] \in T}
<1>1. 0 \in U
  BY DEF Recurs
<1>2. ASSUME NEW n \in Nat, n \in U
      PROVE  n + 1 \in U
  <2>1. SUFFICES ASSUME n + 1 \in 0..N
                 PROVE  f[n + 1] \in T
    OBVIOUS
  <2>2. n \in 0..N /\ n + 1 \in 1..N /\ n + 1 # 0 /\ (n + 1) - 1 = n
    BY <2>1
  <2>3. f[n] \in T
    BY <1>2, <2>2
  <2>4. f[n + 1] = step[<< f[n], n + 1 >>]
    BY <2>1, <2>2 DEF Recurs
  <2> QED
    BY <2>2, <2>3, <2>4
<1>3. \A n \in Nat : n \in U
  <2> HIDE DEF U
  <2> QED
    BY <1>1, <1>2, SetInduction
<1> QED
  BY <1>3

-----------------------------------------------------------------------------
(* Types.  Every frame of an input has a block.                            *)
Arrays == Users \cup {HistoryOf(d) : d \in Decoders} \cup {DstOf(d) : d \in Decoders}

Errors == {"none", "empty", "closed", "header", "window", "dictionary", "block", "size", "checksum"}

AnySlice == [in : Arrays \cup {Nobody}, len : Nat]

SoundFrame == {f \in FrameShape : Len(f.blocks) > 0}

ReaderShape == [initialized : BOOLEAN, frame : Decoders \cup {Nobody}, closed : BOOLEAN]

DecoderShape == [b : AnySlice, ignoreBuffer : Nat, dict : Seq(Nat), dst : Arrays]

CallShape ==
  [op : {"none", "append", "stream"},
   at : {"idle", "flag", "fields", "take", "broken", "header", "blocks"},
   src : Seq(SoundFrame), before : Seq(Nat), rest : Seq(SoundFrame), blocks : Seq(BlockShape),
   d : Decoders \cup {Nobody}, seen : BOOLEAN, saved : AnySlice, out : AnySlice,
   got : Seq(Nat), err : Errors]

Typed ==
  /\ reader \in ReaderShape
  /\ pool \in SUBSET Decoders
  /\ decoder \in [Decoders -> DecoderShape]
  /\ array \in [Arrays -> Seq(Nat)]
  /\ call \in [Users -> CallShape]

(* The shared Reader can be used whenever a call gets to use it: one that  *)
(* is not closed has its frame decoder, and ensureInit only ever runs on a *)
(* closed one, where a call between the flag and the fields does no harm.  *)
Holding == {"header", "blocks"}

Ready ==
  /\ ~reader.closed => reader.initialized /\ reader.frame \in Decoders
  /\ \A u \in Users : call[u].at \in {"flag", "fields"} => reader.closed
  /\ (reader.initialized /\ \A u \in Users : call[u].at # "fields") => reader.frame \in Decoders
  /\ \A u \in Users : call[u].at # "broken"

(* A decoder is in a pool, or one call has it, or the shared Reader does.  *)
Apart ==
  /\ reader.frame \notin pool
  /\ \A u \in Users : (call[u].d \in Decoders) = (call[u].at \in Holding)
  /\ \A u \in Users : call[u].at \in Holding => call[u].d \notin pool /\ call[u].d # reader.frame
  /\ \A u, v \in Users : u # v /\ call[u].at \in Holding => call[u].d # call[v].d

(* A decoder writes to its own arrays, except while AppendDecompress has   *)
(* put the caller's slice in the place of its history.                     *)
Borrowed(d) == \E u \in Users : call[u].d = d /\ call[u].at = "blocks" /\ call[u].op = "append"

OwnArrays ==
  \A d \in Decoders : decoder[d].dst = DstOf(d) /\ (~Borrowed(d) => decoder[d].b.in = HistoryOf(d))

Lending == Typed /\ Ready /\ Apart /\ OwnArrays

(* Where a call is in its input, and what it has returned of it: own is    *)
(* what the array of the caller holds.                                     *)
Remaining(s, n) == SubSeq(s, n + 1, Len(s))

InFrames(c, k) ==
  /\ k \in 0..Len(c.src)
  /\ c.rest = Remaining(c.src, k)
  /\ FramesAlone(c.src)[k] = [err |-> "none", out |-> c.got]

Begun(u, c, own) ==
  /\ c.op # "none" => c.src \in Inputs
  /\ c.op = "append" => own = c.before \o c.got
  /\ c.at \in {"flag", "fields", "take"} => c.op = "append" /\ c.rest = c.src /\ c.got = << >> /\ ~c.seen
  /\ c.op = "append" /\ c.at \in Holding \cup {"idle"} => c.out = Slice(u, Len(own))
  /\ c.at \in Holding => c.op # "none"
  /\ c.at = "header" => \E k \in 0..Len(c.src) : InFrames(c, k) /\ c.seen = (k > 0)
  /\ c.at = "idle" /\ c.op # "none" => [err |-> c.err, out |-> c.got] = InputAlone(c.src)

(* Between the blocks of a frame: h is the decoder, used the array it      *)
(* appends to.                                                             *)
InBlocks(c, k, j) ==
  LET frame == c.src[k + 1]
  IN  /\ k \in 0..(Len(c.src) - 1)
      /\ c.rest = Remaining(c.src, k)
      /\ HeaderError(frame) = "none"
      /\ j \in 0..(Len(frame.blocks) - 1)
      /\ c.blocks = Remaining(frame.blocks, j)
      /\ FramesAlone(c.src)[k].err = "none"
      /\ BlocksAlone(frame)[j].err = "none"
      /\ c.got = FramesAlone(c.src)[k].out \o BlocksAlone(frame)[j].out

HistoryIs(h, used, content) ==
  /\ h.ignoreBuffer <= h.b.len /\ h.b.len <= Len(used)
  /\ SubSeq(used, h.ignoreBuffer + 1, h.b.len) = content

Running(u, c, h, own, hist) ==
  /\ c.seen
  /\ c.saved = Slice(HistoryOf(c.d), 0)
  /\ c.op = "append" => h.b = c.out
  /\ c.op = "stream" => h.b.in = HistoryOf(c.d) /\ h.ignoreBuffer = 0
  /\ \E k, j \in Nat :
       /\ InBlocks(c, k, j)
       /\ h.dict = DictFor(c.src[k + 1], << >>)
       /\ HistoryIs(h, IF c.op = "append" THEN own ELSE hist, BlocksAlone(c.src[k + 1])[j].out)

Exact ==
  \A u \in Users :
    /\ Begun(u, call[u], array[u])
    /\ At(u, "blocks") =>
         Running(u, call[u], decoder[call[u].d], array[u], array[HistoryOf(call[u].d)])

OneShotInv == Lending /\ Exact

-----------------------------------------------------------------------------
(* What the sequences of a block yield are bytes. *)
BlockProgress == [ok : BOOLEAN, out : Seq(Nat), lits : Seq(Nat)]

LEMMA LastOfTyped ==
  ASSUME NEW S, NEW s \in Seq(S), NEW n \in 0..Len(s)
  PROVE  Exec!LastOf(s, n) \in Seq(S)
<1>1. Len(s) \in Nat
  OBVIOUS
<1>2. Len(s) - n + 1 \in 1..(Len(s) + 1)
  BY <1>1
<1>3. SubSeq(s, Len(s) - n + 1, Len(s)) \in Seq(S)
  BY <1>1, <1>2
<1> QED
  BY <1>3 DEF Exec!LastOf

LEMMA OneSequenceTyped ==
  ASSUME NEW env \in Settings(Nat), NEW acc \in BlockProgress, NEW q \in SequenceShape
  PROVE  OneSequence(env, acc, q) \in BlockProgress
<1>1. CASE ~acc.ok \/ ~Exec!Legal(env, q, acc)
  <2>1. OneSequence(env, acc, q) = [acc EXCEPT !.ok = FALSE]
    BY <1>1 DEF OneSequence
  <2> QED
    BY <2>1 DEF BlockProgress
<1>2. CASE acc.ok /\ Exec!Legal(env, q, acc)
  <2> DEFINE dict == env.dict
             hist == env.hist
             out == acc.out
             lits == acc.lits
             ll == q.ll
             ml == q.ml
             mo == q.mo
             pre == SubSeq(lits, 1, ll)
             all == dict \o hist \o out \o pre
             byte == Exec!Bytewise(all, mo, ml)
             n == Len(out) + ll + ml
             back == Len(out) + ll + Len(hist)
  <2>1. /\ dict \in Seq(Nat) /\ hist \in Seq(Nat) /\ out \in Seq(Nat) /\ lits \in Seq(Nat)
        /\ ll \in Nat /\ ml \in Nat /\ mo \in Nat /\ env.window \in Nat
    BY DEF Settings, BlockProgress, SequenceShape
  <2>2. ll <= Len(lits) /\ (ml > 0 => mo > 0)
        /\ (mo <= Exec!Min({back, env.window}) \/ mo \in (back + 1)..(back + Len(dict)))
    BY <1>2, Zenon DEF Exec!Legal
  <2>3. OneSequence(env, acc, q) =
          [[acc EXCEPT !.lits = SubSeq(lits, ll + 1, Len(lits))] EXCEPT !.out = Exec!LastOf(byte, n)]
    <3>1. OneSequence(env, acc, q) =
            [acc EXCEPT !.lits = SubSeq(@, q.ll + 1, Len(@)),
               !.out = Exec!LastOf(Exec!Bytewise(env.dict \o env.hist \o @ \o SubSeq(acc.lits, 1, q.ll), q.mo, q.ml),
                                   Len(@) + q.ll + q.ml)]
      BY <1>2, Zenon DEF OneSequence
    <3>2. acc = [ok |-> acc.ok, out |-> acc.out, lits |-> acc.lits]
      BY DEF BlockProgress
    <3> QED
      BY <3>1, <3>2
  <2> HIDE DEF dict, hist, out, lits, ll, ml, mo
  <2>4. Len(dict) \in Nat /\ Len(hist) \in Nat /\ Len(out) \in Nat /\ Len(lits) \in Nat
    BY <2>1
  <2>5. pre \in Seq(Nat) /\ Len(pre) = ll
    BY <2>1, <2>2, <2>4
  <2>6. Seqs(Nat, dict, hist, out, pre)
    BY <2>1, <2>5 DEF Seqs
  <2>7. Parts(Nat, dict, hist, out \o pre, all)
    BY <2>6, FourParts
  <2> HIDE DEF pre
  <2>8. Len(out \o pre) = Len(out) + ll
    <3>1. \A x, y \in Seq(Nat) : Len(x \o y) = Len(x) + Len(y)
      OBVIOUS
    <3>2. Len(out \o pre) = Len(out) + Len(pre)
      BY <2>1, <2>5, <3>1, Zenon
    <3> QED
      BY <2>5, <3>2
  <2> HIDE DEF all
  <2>9. all \in Seq(Nat) /\ Len(all) = Len(dict) + Len(hist) + (Len(out) + ll)
    BY <2>7, <2>8 DEF Parts
  <2>10. mo <= Len(all)
    <3>1. back \in Int /\ env.window \in Int
      BY <2>1, <2>4
    <3>2. back <= Len(all) /\ back + Len(dict) = Len(all)
      BY <2>1, <2>4, <2>9
    <3> HIDE DEF back
    <3>3. Exec!Min({back, env.window}) = IF back <= env.window THEN back ELSE env.window
      <4>1. Min({back, env.window}) = IF back <= env.window THEN back ELSE env.window
        BY <3>1, MinOfTwo
      <4> QED
        BY <4>1, Zenon DEF Exec!Min, Min
    <3>4. Len(all) \in Nat
      BY <2>9
    <3> QED
      BY <2>1, <2>2, <2>4, <3>1, <3>2, <3>3, <3>4
  <2>11. Copies(Nat, all, mo, ml)
    <3>1. ml > 0 => mo \in 1..Len(all)
      BY <2>1, <2>2, <2>9, <2>10
    <3> QED
      BY <2>1, <2>9, <3>1 DEF Copies
  <2>12. Copied(Nat, all, mo, ml, byte)
    BY <2>11, CopiedBytewise
  <2> HIDE DEF byte
  <2>13. byte \in Seq(Nat) /\ Len(byte) = Len(all) + ml
    BY <2>12 DEF Copied
  <2>14. n \in 0..Len(byte)
    BY <2>1, <2>4, <2>9, <2>13
  <2> HIDE DEF n
  <2>15. Exec!LastOf(byte, n) \in Seq(Nat)
    BY <2>13, <2>14, LastOfTyped
  <2>16. SubSeq(lits, ll + 1, Len(lits)) \in Seq(Nat)
    BY <2>1, <2>2, <2>4
  <2> QED
    BY <2>3, <2>15, <2>16 DEF BlockProgress
<1> QED
  BY <1>1, <1>2

LEMMA ExecutedTyped ==
  ASSUME NEW env \in Settings(Nat), NEW block \in BlockShape
  PROVE  Executed(env, block) \in BlockProgress
<1> DEFINE N == Len(block.seqs)
           base == [ok |-> TRUE, out |-> << >>, lits |-> block.lits]
           step == [p \in BlockProgress \X (1..N) |-> OneSequence(env, p[1], block.seqs[p[2]])]
           after[n \in 0..N] == IF n = 0 THEN base ELSE OneSequence(env, after[n - 1], block.seqs[n])
<1>1. block.lits \in Seq(Nat) /\ block.seqs \in Seq(SequenceShape) /\ N \in Nat
  BY DEF BlockShape
<1>2. base \in BlockProgress
  BY <1>1 DEF BlockProgress
<1>3. ASSUME NEW v \in BlockProgress, NEW n \in 1..N
      PROVE  /\ step[<< v, n >>] = OneSequence(env, v, block.seqs[n])
             /\ step[<< v, n >>] \in BlockProgress
  <2>1. block.seqs[n] \in SequenceShape
    BY <1>1
  <2>2. step[<< v, n >>] = OneSequence(env, v, block.seqs[n])
    OBVIOUS
  <2> QED
    BY <2>1, <2>2, OneSequenceTyped
<1> HIDE DEF base, step, N
<1>4. PICK f : Recurs(f, base, step, N)
  BY <1>1, RecursionExists
<1>5. \A n \in 0..N : f[n] \in BlockProgress
  BY <1>1, <1>2, <1>3, <1>4, RecursionTyped
<1>6. f = [n \in 0..N |-> IF n = 0 THEN base ELSE OneSequence(env, f[n - 1], block.seqs[n])]
  <2>1. ASSUME NEW n \in 0..N, n # 0
        PROVE  step[<< f[n - 1], n >>] = OneSequence(env, f[n - 1], block.seqs[n])
    <3>1. n \in 1..N /\ n - 1 \in 0..N
      BY <1>1, <2>1
    <3> QED
      BY <1>3, <1>5, <3>1
  <2> QED
    BY <1>4, <2>1 DEF Recurs
<1>7. after = [n \in 0..N |-> IF n = 0 THEN base ELSE OneSequence(env, after[n - 1], block.seqs[n])]
  BY <1>6
<1> HIDE DEF after
<1>8. \A n \in 0..N : after[n] \in BlockProgress
  <2> DEFINE T == {n \in Nat : n \in 0..N => after[n] \in BlockProgress}
  <2>1. 0 \in T
    BY <1>1, <1>2, <1>7
  <2>2. ASSUME NEW n \in Nat, n \in T
        PROVE  n + 1 \in T
    <3>1. SUFFICES ASSUME n + 1 \in 0..N
                   PROVE  after[n + 1] \in BlockProgress
      OBVIOUS
    <3>2. n \in 0..N /\ n + 1 \in 1..N /\ n + 1 # 0 /\ (n + 1) - 1 = n
      BY <1>1, <3>1
    <3>3. after[n] \in BlockProgress
      BY <2>2, <3>2
    <3>4. after[n + 1] = OneSequence(env, after[n], block.seqs[n + 1])
      BY <1>7, <3>1, <3>2
    <3>5. block.seqs[n + 1] \in SequenceShape
      BY <1>1, <3>2 DEF N
    <3> QED
      BY <3>3, <3>4, <3>5, OneSequenceTyped
  <2>3. \A n \in Nat : n \in T
    <3> HIDE DEF T
    <3> QED
      BY <2>1, <2>2, SetInduction
  <2> QED
    BY <2>3
<1>9. after[N] \in BlockProgress
  BY <1>1, <1>8
<1>10. Executed(env, block) = after[N]
  BY DEF Executed, after, N, base
<1> QED
  BY <1>9, <1>10

-----------------------------------------------------------------------------
(* What frames stand for: an outcome after each block and each frame, and  *)
(* the first error stays.                                                  *)
Outcome == [err : Errors, out : Seq(Nat)]

LEMMA NothingTyped == Nothing \in Outcome
<1>1. << >> \in Seq(Nat)
  OBVIOUS
<1>2. "none" \in Errors
  BY DEF Errors
<1> QED
  BY <1>1, <1>2 DEF Nothing, Outcome

LEMMA DictForTyped ==
  ASSUME NEW frame, NEW before \in Seq(Nat)
  PROVE  DictFor(frame, before) \in Seq(Nat)
BY OneShotAssumption DEF OneShotAssumption, DictFor

LEMMA BlockOfTyped ==
  ASSUME NEW frame, NEW done \in BlockProgress
  PROVE  BlockOf(frame, done) \in [ok : BOOLEAN, new : Seq(Nat)]
<1>1. done.out \in Seq(Nat) /\ done.lits \in Seq(Nat)
  BY DEF BlockProgress
<1>2. done.out \o done.lits \in Seq(Nat)
  BY <1>1
<1>3. << >> \in Seq(Nat)
  OBVIOUS
<1> QED
  BY <1>2, <1>3 DEF BlockOf

LEMMA SurroundingsTyped ==
  ASSUME NEW frame \in FrameShape, NEW content \in Seq(Nat), NEW before \in Seq(Nat)
  PROVE  Surroundings(frame, content, before) \in Settings(Nat)
BY DEF Surroundings, Settings, FrameShape

LEMMA BlockAloneTyped ==
  ASSUME NEW acc \in Outcome, NEW frame \in FrameShape, NEW block \in BlockShape
  PROVE  /\ BlockAlone(acc, frame, block) \in Outcome
         /\ acc.err # "none" => BlockAlone(acc, frame, block) = acc
<1> DEFINE env == Surroundings(frame, DictFor(frame, << >>), acc.out)
           done == BlockOf(frame, Executed(env, block))
<1>1. acc.out \in Seq(Nat) /\ << >> \in Seq(Nat)
  BY DEF Outcome
<1>2. env \in Settings(Nat)
  BY <1>1, DictForTyped, SurroundingsTyped
<1>3. BlockAlone(acc, frame, block) =
        IF acc.err # "none" THEN acc
        ELSE [err |-> IF done.ok THEN "none" ELSE "block", out |-> acc.out \o done.new]
  BY DEF BlockAlone
<1> HIDE DEF env
<1>4. Executed(env, block) \in BlockProgress
  BY <1>2, ExecutedTyped
<1>5. done \in [ok : BOOLEAN, new : Seq(Nat)]
  BY <1>4, BlockOfTyped
<1> HIDE DEF done
<1>6. acc.out \o done.new \in Seq(Nat)
  BY <1>1, <1>5
<1>7. (IF done.ok THEN "none" ELSE "block") \in Errors
  BY DEF Errors
<1> QED
  BY <1>3, <1>6, <1>7 DEF Outcome

LEMMA BlocksUnfold ==
  ASSUME NEW frame \in FrameShape
  PROVE  LET after == BlocksAlone(frame)
         IN  /\ after[0] = Nothing
             /\ \A n \in 1..Len(frame.blocks) : after[n] = BlockAlone(after[n - 1], frame, frame.blocks[n])
             /\ \A n \in 0..Len(frame.blocks) : after[n] \in Outcome
<1> DEFINE N == Len(frame.blocks)
           step == [p \in Outcome \X (1..N) |-> BlockAlone(p[1], frame, frame.blocks[p[2]])]
           after[n \in 0..N] == IF n = 0 THEN Nothing ELSE BlockAlone(after[n - 1], frame, frame.blocks[n])
<1>1. frame.blocks \in Seq(BlockShape) /\ N \in Nat
  BY DEF FrameShape
<1>2. ASSUME NEW n \in 1..N
      PROVE  frame.blocks[n] \in BlockShape
  BY <1>1
<1>3. ASSUME NEW v \in Outcome, NEW n \in 1..N
      PROVE  /\ step[<< v, n >>] = BlockAlone(v, frame, frame.blocks[n])
             /\ step[<< v, n >>] \in Outcome
  <2>1. frame.blocks[n] \in BlockShape
    BY <1>2
  <2>2. step[<< v, n >>] = BlockAlone(v, frame, frame.blocks[n])
    OBVIOUS
  <2> QED
    BY <2>1, <2>2, BlockAloneTyped
<1> HIDE DEF step, N
<1>4. PICK f : Recurs(f, Nothing, step, N)
  BY <1>1, RecursionExists
<1>5. \A n \in 0..N : f[n] \in Outcome
  BY <1>1, <1>3, <1>4, NothingTyped, RecursionTyped
<1>6. f = [n \in 0..N |-> IF n = 0 THEN Nothing ELSE BlockAlone(f[n - 1], frame, frame.blocks[n])]
  <2>1. ASSUME NEW n \in 0..N, n # 0
        PROVE  step[<< f[n - 1], n >>] = BlockAlone(f[n - 1], frame, frame.blocks[n])
    <3>1. n \in 1..N /\ n - 1 \in 0..N
      BY <1>1, <2>1
    <3> QED
      BY <1>3, <1>5, <3>1
  <2> QED
    BY <1>4, <2>1 DEF Recurs
<1>7. after = [n \in 0..N |-> IF n = 0 THEN Nothing ELSE BlockAlone(after[n - 1], frame, frame.blocks[n])]
  BY <1>6
<1>8. BlocksAlone(frame) = after
  BY DEF BlocksAlone, after, N
<1> HIDE DEF after
<1>9. after[0] = Nothing
  BY <1>1, <1>7
<1>10. ASSUME NEW n \in 1..N
       PROVE  after[n] = BlockAlone(after[n - 1], frame, frame.blocks[n])
  <2>1. n \in 0..N /\ n # 0
    BY <1>1
  <2> QED
    BY <1>7, <2>1
<1>11. \A n \in 0..N : after[n] \in Outcome
  <2> DEFINE T == {n \in Nat : n \in 0..N => after[n] \in Outcome}
  <2>1. 0 \in T
    BY <1>9, NothingTyped
  <2>2. ASSUME NEW n \in Nat, n \in T
        PROVE  n + 1 \in T
    <3>1. SUFFICES ASSUME n + 1 \in 0..N
                   PROVE  after[n + 1] \in Outcome
      OBVIOUS
    <3>2. n \in 0..N /\ n + 1 \in 1..N /\ (n + 1) - 1 = n
      BY <1>1, <3>1
    <3>3. after[n] \in Outcome
      BY <2>2, <3>2
    <3>4. after[n + 1] = BlockAlone(after[n], frame, frame.blocks[n + 1])
      BY <1>10, <3>2
    <3>5. frame.blocks[n + 1] \in BlockShape
      BY <1>2, <3>2
    <3> QED
      BY <3>3, <3>4, <3>5, BlockAloneTyped
  <2>3. \A n \in Nat : n \in T
    <3> HIDE DEF T
    <3> QED
      BY <2>1, <2>2, SetInduction
  <2> QED
    BY <2>3
<1> QED
  BY <1>8, <1>9, <1>10, <1>11 DEF N

LEMMA BlocksSettle ==
  ASSUME NEW frame \in FrameShape, NEW n \in 0..Len(frame.blocks), BlocksAlone(frame)[n].err # "none"
  PROVE  BlocksAlone(frame)[Len(frame.blocks)] = BlocksAlone(frame)[n]
<1> DEFINE N == Len(frame.blocks)
           after == BlocksAlone(frame)
           T == {k \in Nat : n + k \in 0..N => after[n + k] = after[n]}
<1>1. frame.blocks \in Seq(BlockShape) /\ N \in Nat
  BY DEF FrameShape
<1>2. /\ \A m \in 1..N : after[m] = BlockAlone(after[m - 1], frame, frame.blocks[m])
      /\ \A m \in 0..N : after[m] \in Outcome
  BY BlocksUnfold
<1>3. \A m \in 1..N : frame.blocks[m] \in BlockShape
  BY <1>1
<1> HIDE DEF N, after
<1>4. after[n].err # "none" /\ n \in 0..N
  BY DEF after, N
<1>5. 0 \in T
  BY <1>1, <1>4
<1>6. ASSUME NEW k \in Nat, k \in T
      PROVE  k + 1 \in T
  <2>1. SUFFICES ASSUME n + (k + 1) \in 0..N
                 PROVE  after[n + (k + 1)] = after[n]
    OBVIOUS
  <2> DEFINE m == n + (k + 1)
  <2>2. m \in 1..N /\ m - 1 = n + k /\ n + k \in 0..N
    BY <1>1, <1>4, <2>1
  <2> HIDE DEF m
  <2>3. after[m - 1] = after[n]
    BY <1>6, <2>2
  <2>4. after[m] = BlockAlone(after[n], frame, frame.blocks[m])
    BY <1>2, <2>2, <2>3
  <2>5. after[m] = after[n]
    BY <1>2, <1>3, <1>4, <2>2, <2>4, BlockAloneTyped
  <2> QED
    BY <2>5 DEF m
<1>7. \A k \in Nat : k \in T
  <2> HIDE DEF T
  <2> QED
    BY <1>5, <1>6, SetInduction
<1>8. N - n \in Nat /\ n + (N - n) = N
  BY <1>1, <1>4
<1>9. after[N] = after[n]
  <2>1. N - n \in T
    BY <1>7, <1>8
  <2> QED
    BY <1>1, <1>8, <2>1
<1> QED
  BY <1>9 DEF after, N

LEMMA FrameAloneTyped ==
  ASSUME NEW frame \in FrameShape
  PROVE  FrameAlone(frame) \in Outcome
<1> DEFINE content == BlocksAlone(frame)[Len(frame.blocks)]
<1>1. content \in Outcome
  <2>1. Len(frame.blocks) \in Nat
    BY DEF FrameShape
  <2>2. Len(frame.blocks) \in 0..Len(frame.blocks)
    BY <2>1
  <2> QED
    BY <2>2, BlocksUnfold
<1>2. FrameAlone(frame) = IF HeaderError(frame) # "none" THEN [err |-> HeaderError(frame), out |-> << >>]
                          ELSE IF content.err # "none" THEN content
                          ELSE [content EXCEPT !.err = FrameError(frame, Len(content.out))]
  BY DEF FrameAlone
<1>3. HeaderError(frame) \in Errors /\ FrameError(frame, Len(content.out)) \in Errors
  <2> HIDE DEF content
  <2>1. HeaderError(frame) \in Errors
    BY DEF HeaderError, Errors
  <2>2. FrameError(frame, Len(content.out)) \in Errors
    BY DEF FrameError, Errors
  <2> QED
    BY <2>1, <2>2
<1> HIDE DEF content
<1>4. << >> \in Seq(Nat)
  OBVIOUS
<1> QED
  BY <1>1, <1>2, <1>3, <1>4 DEF Outcome

LEMMA JoinedTyped ==
  ASSUME NEW acc \in Outcome, NEW frame \in FrameShape
  PROVE  /\ Joined(acc, frame) \in Outcome
         /\ acc.err # "none" => Joined(acc, frame) = acc
<1>1. FrameAlone(frame) \in Outcome
  BY FrameAloneTyped
<1>2. acc.out \o FrameAlone(frame).out \in Seq(Nat)
  BY <1>1 DEF Outcome
<1> QED
  BY <1>1, <1>2 DEF Joined, Outcome

LEMMA FramesUnfold ==
  ASSUME NEW s \in Seq(FrameShape)
  PROVE  LET after == FramesAlone(s)
         IN  /\ after[0] = Nothing
             /\ \A n \in 1..Len(s) : after[n] = Joined(after[n - 1], s[n])
             /\ \A n \in 0..Len(s) : after[n] \in Outcome
<1> DEFINE N == Len(s)
           step == [p \in Outcome \X (1..N) |-> Joined(p[1], s[p[2]])]
           after[n \in 0..N] == IF n = 0 THEN Nothing ELSE Joined(after[n - 1], s[n])
<1>1. s \in Seq(FrameShape) /\ N \in Nat
  OBVIOUS
<1>2. ASSUME NEW n \in 1..N
      PROVE  s[n] \in FrameShape
  BY <1>1
<1>3. ASSUME NEW v \in Outcome, NEW n \in 1..N
      PROVE  /\ step[<< v, n >>] = Joined(v, s[n])
             /\ step[<< v, n >>] \in Outcome
  <2>1. s[n] \in FrameShape
    BY <1>2
  <2>2. step[<< v, n >>] = Joined(v, s[n])
    OBVIOUS
  <2> QED
    BY <2>1, <2>2, JoinedTyped
<1> HIDE DEF step, N
<1>4. PICK f : Recurs(f, Nothing, step, N)
  BY <1>1, RecursionExists
<1>5. \A n \in 0..N : f[n] \in Outcome
  BY <1>1, <1>3, <1>4, NothingTyped, RecursionTyped
<1>6. f = [n \in 0..N |-> IF n = 0 THEN Nothing ELSE Joined(f[n - 1], s[n])]
  <2>1. ASSUME NEW n \in 0..N, n # 0
        PROVE  step[<< f[n - 1], n >>] = Joined(f[n - 1], s[n])
    <3>1. n \in 1..N /\ n - 1 \in 0..N
      BY <1>1, <2>1
    <3> QED
      BY <1>3, <1>5, <3>1
  <2> QED
    BY <1>4, <2>1 DEF Recurs
<1>7. after = [n \in 0..N |-> IF n = 0 THEN Nothing ELSE Joined(after[n - 1], s[n])]
  BY <1>6
<1>8. FramesAlone(s) = after
  BY DEF FramesAlone, after, N
<1> HIDE DEF after
<1>9. after[0] = Nothing
  BY <1>1, <1>7
<1>10. ASSUME NEW n \in 1..N
       PROVE  after[n] = Joined(after[n - 1], s[n])
  <2>1. n \in 0..N /\ n # 0
    BY <1>1
  <2> QED
    BY <1>7, <2>1
<1>11. \A n \in 0..N : after[n] \in Outcome
  <2> DEFINE T == {n \in Nat : n \in 0..N => after[n] \in Outcome}
  <2>1. 0 \in T
    BY <1>9, NothingTyped
  <2>2. ASSUME NEW n \in Nat, n \in T
        PROVE  n + 1 \in T
    <3>1. SUFFICES ASSUME n + 1 \in 0..N
                   PROVE  after[n + 1] \in Outcome
      OBVIOUS
    <3>2. n \in 0..N /\ n + 1 \in 1..N /\ (n + 1) - 1 = n
      BY <1>1, <3>1
    <3>3. after[n] \in Outcome
      BY <2>2, <3>2
    <3>4. after[n + 1] = Joined(after[n], s[n + 1])
      BY <1>10, <3>2
    <3>5. s[n + 1] \in FrameShape
      BY <1>2, <3>2
    <3> QED
      BY <3>3, <3>4, <3>5, JoinedTyped
  <2>3. \A n \in Nat : n \in T
    <3> HIDE DEF T
    <3> QED
      BY <2>1, <2>2, SetInduction
  <2> QED
    BY <2>3
<1> QED
  BY <1>8, <1>9, <1>10, <1>11 DEF N

LEMMA FramesSettle ==
  ASSUME NEW s \in Seq(FrameShape), NEW n \in 0..Len(s), FramesAlone(s)[n].err # "none"
  PROVE  FramesAlone(s)[Len(s)] = FramesAlone(s)[n]
<1> DEFINE N == Len(s)
           after == FramesAlone(s)
           T == {k \in Nat : n + k \in 0..N => after[n + k] = after[n]}
<1>1. s \in Seq(FrameShape) /\ N \in Nat
  OBVIOUS
<1>2. /\ \A m \in 1..N : after[m] = Joined(after[m - 1], s[m])
      /\ \A m \in 0..N : after[m] \in Outcome
  BY FramesUnfold
<1>3. \A m \in 1..N : s[m] \in FrameShape
  BY <1>1
<1> HIDE DEF N, after
<1>4. after[n].err # "none" /\ n \in 0..N
  BY DEF after, N
<1>5. 0 \in T
  BY <1>1, <1>4
<1>6. ASSUME NEW k \in Nat, k \in T
      PROVE  k + 1 \in T
  <2>1. SUFFICES ASSUME n + (k + 1) \in 0..N
                 PROVE  after[n + (k + 1)] = after[n]
    OBVIOUS
  <2> DEFINE m == n + (k + 1)
  <2>2. m \in 1..N /\ m - 1 = n + k /\ n + k \in 0..N
    BY <1>1, <1>4, <2>1
  <2> HIDE DEF m
  <2>3. after[m - 1] = after[n]
    BY <1>6, <2>2
  <2>4. after[m] = Joined(after[n], s[m])
    BY <1>2, <2>2, <2>3
  <2>5. after[m] = after[n]
    BY <1>2, <1>3, <1>4, <2>2, <2>4, JoinedTyped
  <2> QED
    BY <2>5 DEF m
<1>7. \A k \in Nat : k \in T
  <2> HIDE DEF T
  <2> QED
    BY <1>5, <1>6, SetInduction
<1>8. N - n \in Nat /\ n + (N - n) = N
  BY <1>1, <1>4
<1>9. after[N] = after[n]
  <2>1. N - n \in T
    BY <1>7, <1>8
  <2> QED
    BY <1>1, <1>8, <2>1
<1> QED
  BY <1>9 DEF after, N

-----------------------------------------------------------------------------
(* The arrays are different ones. *)
LEMMA ArraysApart ==
  /\ \A d \in Decoders : HistoryOf(d) \in Arrays /\ DstOf(d) \in Arrays
  /\ \A u \in Users : u \in Arrays
  /\ \A d, e \in Decoders : d # e => HistoryOf(d) # HistoryOf(e) /\ DstOf(d) # DstOf(e)
  /\ \A d, e \in Decoders : HistoryOf(d) # DstOf(e)
  /\ \A u \in Users, d \in Decoders : u # HistoryOf(d) /\ u # DstOf(d)
BY OneShotAssumption DEF OneShotAssumption, Arrays, HistoryOf, DstOf

LEMMA NobodyApart == Nobody \notin Users /\ Nobody \notin Decoders
BY OneShotAssumption DEF OneShotAssumption

LEMMA InputsSound ==
  /\ \A s \in Inputs : s \in Seq(SoundFrame)
  /\ \A c \in Calls : c.src \in Inputs /\ c.dst \in Seq(Nat)
  /\ \A s \in StreamInputs : s \in Inputs
<1>1. /\ Calls \subseteq [dst : Seq(Nat), src : Seq(FrameShape)]
      /\ StreamInputs \subseteq Seq(FrameShape)
      /\ \A s \in Inputs : \A i \in 1..Len(s) : Len(s[i].blocks) > 0
  BY OneShotAssumption DEF OneShotAssumption
<1>2. ASSUME NEW s \in Inputs
      PROVE  s \in Seq(SoundFrame)
  <2>1. s \in Seq(FrameShape)
    BY <1>1 DEF Inputs
  <2>2. \A i \in 1..Len(s) : s[i] \in SoundFrame
    BY <1>1, <2>1 DEF SoundFrame
  <2> QED
    BY <2>1, <2>2
<1> QED
  BY <1>1, <1>2 DEF Inputs

LEMMA NoCallTyped == NoCall \in CallShape
<1>1. << >> \in Seq(SoundFrame) /\ << >> \in Seq(Nat) /\ << >> \in Seq(BlockShape)
  OBVIOUS
<1>2. Slice(Nobody, 0) \in AnySlice
  BY DEF Slice, AnySlice
<1>3. "none" \in Errors
  BY DEF Errors
<1> QED
  BY <1>1, <1>2, <1>3 DEF NoCall, CallShape

LEMMA NewDecoderTyped ==
  ASSUME NEW d \in Decoders
  PROVE  /\ NewDecoder(d) \in DecoderShape
         /\ NewDecoder(d).dst = DstOf(d) /\ NewDecoder(d).b.in = HistoryOf(d)
<1>1. << >> \in Seq(Nat)
  OBVIOUS
<1>2. Slice(HistoryOf(d), 0) \in AnySlice /\ Slice(HistoryOf(d), 0).in = HistoryOf(d)
  BY ArraysApart DEF Slice, AnySlice
<1> QED
  BY <1>1, <1>2, ArraysApart DEF NewDecoder, DecoderShape

LEMMA HistoryResetTyped ==
  ASSUME NEW h \in DecoderShape
  PROVE  /\ HistoryReset(h) \in DecoderShape
         /\ HistoryReset(h).dst = h.dst /\ HistoryReset(h).b = Slice(h.b.in, 0)
         /\ HistoryReset(h).ignoreBuffer = 0 /\ HistoryReset(h).dict = << >>
<1>1. << >> \in Seq(Nat)
  OBVIOUS
<1>2. h.b \in AnySlice
  BY DEF DecoderShape
<1>3. [h.b EXCEPT !.len = 0] = Slice(h.b.in, 0) /\ Slice(h.b.in, 0) \in AnySlice
  BY <1>2 DEF AnySlice, Slice
<1>4. HistoryReset(h) = [b |-> Slice(h.b.in, 0), ignoreBuffer |-> 0, dict |-> << >>, dst |-> h.dst]
  <2>1. h = [b |-> h.b, ignoreBuffer |-> h.ignoreBuffer, dict |-> h.dict, dst |-> h.dst]
    BY DEF DecoderShape
  <2> DEFINE cut == [h.b EXCEPT !.len = 0]
  <2>2. HistoryReset(h) = [h EXCEPT !.b = cut, !.ignoreBuffer = 0, !.dict = << >>]
    BY <2>1 DEF HistoryReset
  <2>3. cut = Slice(h.b.in, 0)
    BY <1>3
  <2> HIDE DEF cut
  <2> QED
    BY <2>1, <2>2, <2>3
<1>5. h.dst \in Arrays
  BY DEF DecoderShape
<1> QED
  BY <1>1, <1>3, <1>4, <1>5 DEF DecoderShape

LEMMA LeftTyped ==
  ASSUME NEW u, NEW h \in DecoderShape
  PROVE  /\ Left(u, h) \in DecoderShape
         /\ Left(u, h).dst = h.dst /\ Left(u, h).b.in = h.b.in
<1>1. Slice(h.b.in, 0).in = h.b.in
  BY DEF Slice
<1> QED
  BY <1>1, HistoryResetTyped DEF Left

LEMMA Forgets ==
  ASSUME NEW mem \in [Arrays -> Seq(Nat)], NEW d \in Decoders
  PROVE  /\ Forget(mem, d) \in [Arrays -> Seq(Nat)]
         /\ \A a \in Arrays : a # HistoryOf(d) /\ a # DstOf(d) => Forget(mem, d)[a] = mem[a]
<1>1. << >> \in Seq(Nat)
  OBVIOUS
<1> QED
  BY <1>1, ArraysApart DEF Forget

-----------------------------------------------------------------------------
(* At the start nobody calls and no decoder is in a pool. *)
LEMMA OneShotStarts ==
  ASSUME ~ZeroValue, OneShotInit
  PROVE  OneShotInv
<1>1. PICK r \in Decoders : reader = [NoReader EXCEPT !.initialized = TRUE, !.frame = r]
  BY DEF OneShotInit
<1>2. reader = [initialized |-> TRUE, frame |-> r, closed |-> FALSE]
  BY <1>1 DEF NoReader
<1>3. /\ pool = {} /\ decoder = [d \in Decoders |-> NewDecoder(d)]
      /\ array = [a \in Arrays |-> << >>] /\ call = [u \in Users |-> NoCall]
  BY DEF OneShotInit, Arrays
<1>4. Typed
  <2>1. << >> \in Seq(Nat)
    OBVIOUS
  <2> QED
    BY <1>2, <1>3, <2>1, NoCallTyped, NewDecoderTyped DEF Typed, ReaderShape
<1>5. \A u \in Users : call[u] = NoCall
  BY <1>3
<1>6. NoCall.at = "idle" /\ NoCall.op = "none" /\ NoCall.d = Nobody
  BY DEF NoCall
<1>7. Ready
  BY <1>2, <1>5, <1>6 DEF Ready
<1>8. Apart
  BY <1>2, <1>3, <1>5, <1>6, NobodyApart DEF Apart, Holding
<1>9. OwnArrays
  BY <1>3, NewDecoderTyped DEF OwnArrays
<1>10. Exact
  BY <1>5, <1>6 DEF Exact, Begun, At, Holding
<1> QED
  BY <1>4, <1>7, <1>8, <1>9, <1>10 DEF OneShotInv, Lending

-----------------------------------------------------------------------------
(* Only the call of one goroutine changes. *)
Steps(u) == call' \in [Users -> CallShape] /\ \A v \in Users : v # u => call'[v] = call[v]

LEMMA StepsTo ==
  ASSUME Typed, NEW u \in Users, NEW c \in CallShape, call' = [call EXCEPT ![u] = c]
  PROVE  Steps(u) /\ call'[u] = c
BY DEF Typed, Steps

(* What keeps a decoder in one place: the call goes on with what it has, ... *)
LEMMA ApartKept ==
  ASSUME Apart, NEW u \in Users, Steps(u), pool' = pool, reader'.frame = reader.frame,
         call'[u].d \in Decoders => call'[u].d = call[u].d,
         (call'[u].d \in Decoders) = (call[u].d \in Decoders),
         (call'[u].at \in Holding) = (call[u].at \in Holding)
  PROVE  Apart'
<1>1. \A v \in Users : /\ (call'[v].at \in Holding) = (call[v].at \in Holding)
                       /\ (call'[v].d \in Decoders) = (call[v].d \in Decoders)
                       /\ call'[v].d \in Decoders => call'[v].d = call[v].d
  BY DEF Steps
<1>2. \A v \in Users : call'[v].at \in Holding => call'[v].d = call[v].d
  BY <1>1 DEF Apart
<1> QED
  BY <1>1, <1>2 DEF Apart

(* ... takes one that nobody has, ... *)
LEMMA ApartTaken ==
  ASSUME Apart, NEW u \in Users, Steps(u), NEW d \in Decoders,
         pool' = pool \ {d}, reader'.frame = reader.frame, d # reader.frame,
         \A v \in Users : call[v].at \in Holding => call[v].d # d,
         call'[u].d = d, call'[u].at \in Holding
  PROVE  Apart'
<1>1. \A v \in Users : v # u => call'[v] = call[v]
  BY DEF Steps
<1> QED
  BY <1>1 DEF Apart

(* ... or gives its own back. *)
LEMMA ApartReturned ==
  ASSUME Apart, NEW u \in Users, Steps(u), call[u].at \in Holding,
         pool' = pool \cup {call[u].d}, reader'.frame = reader.frame,
         call'[u].d \notin Decoders, call'[u].at \notin Holding
  PROVE  Apart'
<1>1. \A v \in Users : v # u => call'[v] = call[v]
  BY DEF Steps
<1> QED
  BY <1>1 DEF Apart

LEMMA OwnArraysKept ==
  ASSUME Apart, OwnArrays, NEW u \in Users, Steps(u), NEW d \in Decoders,
         \A e \in Decoders : e # d => decoder'[e] = decoder[e],
         \A v \in Users : v # u /\ call[v].at \in Holding => call[v].d # d,
         call[u].at = "blocks" => call[u].d = d,
         call'[u].at = "blocks" => call'[u].d = d,
         decoder'[d].dst = DstOf(d),
         \/ decoder'[d].b.in = HistoryOf(d)
         \/ call'[u].at = "blocks" /\ call'[u].op = "append"
  PROVE  OwnArrays'
<1>1. \A v \in Users : v # u => call'[v] = call[v]
  BY DEF Steps
<1>2. ASSUME NEW e \in Decoders, e # d
      PROVE  Borrowed(e)' = Borrowed(e)
  BY <1>1, <1>2 DEF Borrowed
<1>3. ASSUME NEW e \in Decoders
      PROVE  decoder'[e].dst = DstOf(e) /\ (~(Borrowed(e)') => decoder'[e].b.in = HistoryOf(e))
  <2>1. CASE e # d
    BY <1>2, <2>1 DEF OwnArrays
  <2>2. CASE e = d
    BY <2>2 DEF Borrowed
  <2> QED
    BY <2>1, <2>2
<1> QED
  BY <1>3 DEF OwnArrays

(* A decoder that nobody else holds can be taken. *)
LEMMA Gets ==
  ASSUME Lending, NEW d \in Decoders, Get(d)
  PROVE  /\ d # reader.frame
         /\ \A u \in Users : call[u].at \in Holding => call[u].d # d
         /\ pool' = pool \ {d} /\ pool' \in SUBSET Decoders
         /\ decoder' \in [Decoders -> DecoderShape]
         /\ \A e \in Decoders : e # d => decoder'[e] = decoder[e]
         /\ decoder'[d].dst = DstOf(d) /\ decoder'[d].b.in = HistoryOf(d)
<1>1. /\ pool \in SUBSET Decoders /\ decoder \in [Decoders -> DecoderShape]
      /\ pool' = pool \ {d}
      /\ decoder' = IF d \in pool THEN decoder ELSE [decoder EXCEPT ![d] = NewDecoder(d)]
  BY DEF Lending, Typed, Get
<1>2. d # reader.frame /\ \A u \in Users : call[u].at \in Holding => call[u].d # d
  <2>1. CASE d \in pool
    BY <2>1 DEF Lending, Apart
  <2>2. CASE d \notin Lent
    BY <2>2 DEF Lent
  <2> QED
    BY <2>1, <2>2 DEF Get
<1>3. decoder' \in [Decoders -> DecoderShape] /\ \A e \in Decoders : e # d => decoder'[e] = decoder[e]
  BY <1>1, NewDecoderTyped
<1>4. decoder'[d].dst = DstOf(d) /\ decoder'[d].b.in = HistoryOf(d)
  <2>1. CASE d \in pool
    <3>1. ~Borrowed(d)
      BY <1>2 DEF Borrowed, Holding
    <3> QED
      BY <1>1, <2>1, <3>1 DEF Lending, OwnArrays
  <2>2. CASE d \notin pool
    BY <1>1, <2>2, NewDecoderTyped
  <2> QED
    BY <2>1, <2>2
<1> QED
  BY <1>1, <1>2, <1>3, <1>4

LEMMA ReadyKept ==
  ASSUME Ready, NEW u \in Users, Steps(u), reader' = reader,
         call[u].at # "fields", call'[u].at \notin {"flag", "fields", "broken"}
  PROVE  Ready'
<1>1. \A v \in Users : v # u => call'[v] = call[v]
  BY DEF Steps
<1> QED
  BY <1>1 DEF Ready

LEMMA ExactKept ==
  ASSUME Exact, NEW u \in Users, Steps(u),
         \A v \in Users : v # u => array'[v] = array[v],
         \A v \in Users : v # u /\ call[v].at = "blocks" =>
           decoder'[call[v].d] = decoder[call[v].d] /\ array'[HistoryOf(call[v].d)] = array[HistoryOf(call[v].d)],
         Begun(u, call'[u], array'[u]),
         call'[u].at = "blocks" =>
           Running(u, call'[u], decoder'[call'[u].d], array'[u], array'[HistoryOf(call'[u].d)])
  PROVE  Exact'
<1>1. \A v \in Users : v # u => call'[v] = call[v]
  BY DEF Steps
<1>2. ASSUME NEW v \in Users
      PROVE  /\ Begun(v, call'[v], array'[v])
             /\ call'[v].at = "blocks" =>
                  Running(v, call'[v], decoder'[call'[v].d], array'[v], array'[HistoryOf(call'[v].d)])
  <2>1. CASE v = u
    BY <2>1
  <2>2. CASE v # u
    <3>1. call'[v] = call[v] /\ array'[v] = array[v]
      BY <1>1, <2>2
    <3>2. Begun(v, call[v], array[v])
      BY DEF Exact
    <3>3. call[v].at = "blocks" =>
            Running(v, call[v], decoder[call[v].d], array[v], array[HistoryOf(call[v].d)])
      BY DEF Exact, At
    <3> QED
      BY <2>2, <3>1, <3>2, <3>3
  <2> QED
    BY <2>1, <2>2
<1> QED
  BY <1>2, Zenon DEF Exact, At

-----------------------------------------------------------------------------
(* A call begins, finds a closed Reader or makes an uninitialised one      *)
(* ready.                                                                  *)
LEMMA GoesOn ==
  ASSUME NEW c \in CallShape,
         NEW pc \in {"idle", "flag", "fields", "take", "broken", "header", "blocks"}
  PROVE  /\ [c EXCEPT !.at = pc] \in CallShape
         /\ [c EXCEPT !.at = pc].at = pc
         /\ [c EXCEPT !.at = pc].op = c.op /\ [c EXCEPT !.at = pc].d = c.d
         /\ [c EXCEPT !.at = pc].src = c.src /\ [c EXCEPT !.at = pc].rest = c.rest
         /\ [c EXCEPT !.at = pc].before = c.before /\ [c EXCEPT !.at = pc].got = c.got
         /\ [c EXCEPT !.at = pc].seen = c.seen /\ [c EXCEPT !.at = pc].out = c.out
BY DEF CallShape

LEMMA GoSteps ==
  ASSUME Typed, NEW u \in Users,
         NEW pc \in {"idle", "flag", "fields", "take", "broken", "header", "blocks"}, Go(u, pc)
  PROVE  Steps(u) /\ call'[u] = [call[u] EXCEPT !.at = pc] /\ call[u] \in CallShape
<1>1. call \in [Users -> CallShape] /\ call[u] \in CallShape
  BY DEF Typed
<1>2. call' = [call EXCEPT ![u] = [call[u] EXCEPT !.at = pc]]
  BY <1>1 DEF Go
<1>3. [call[u] EXCEPT !.at = pc] \in CallShape
  BY <1>1, GoesOn
<1> HIDE DEF Go
<1> QED
  BY <1>1, <1>2, <1>3, StepsTo

(* Before a decoder is taken a call has returned nothing. *)
LEMMA BegunEarly ==
  ASSUME NEW u, NEW own, NEW c \in CallShape, NEW pc \in {"flag", "fields", "take"},
         Begun(u, c, own), c.at \in {"flag", "fields", "take"}
  PROVE  Begun(u, [c EXCEPT !.at = pc], own)
<1> DEFINE e == [c EXCEPT !.at = pc]
<1>1. /\ e.at = pc /\ e.op = c.op /\ e.src = c.src /\ e.rest = c.rest
      /\ e.before = c.before /\ e.got = c.got /\ e.seen = c.seen /\ e.out = c.out
  BY GoesOn
<1>2. e.at \notin Holding \cup {"idle"} /\ e.at # "header"
  BY <1>1 DEF Holding
<1> HIDE DEF e
<1> QED
  BY <1>1, <1>2 DEF Begun, e

NewAppend(dst, src, pc) ==
  [NoCall EXCEPT !.op = "append", !.before = dst, !.src = src, !.rest = src, !.at = pc]

IsNewAppend(c, dst, src, pc) ==
  /\ c \in CallShape
  /\ c.at = pc /\ c.op = "append" /\ c.d = Nobody /\ c.src = src
  /\ c.rest = src /\ c.got = << >> /\ c.seen = FALSE /\ c.before = dst

LEMMA NewAppendTyped ==
  ASSUME NEW dst, NEW src, NEW pc, dst \in Seq(Nat) /\ src \in Seq(SoundFrame) /\ pc \in {"take", "flag"}
  PROVE  IsNewAppend(NewAppend(dst, src, pc), dst, src, pc)
<1>1. NoCall.d = Nobody /\ NoCall.got = << >> /\ NoCall.seen = FALSE
  BY DEF NoCall
<1> QED
  BY <1>1, NoCallTyped DEF CallShape, NewAppend, IsNewAppend

LEMMA AppendDecompressKeeps ==
  ASSUME OneShotInv, NEW u \in Users, NEW c \in Calls, AppendDecompress(u, c)
  PROVE  OneShotInv'
<1>1. Typed /\ Ready /\ Apart /\ OwnArrays /\ Exact
  BY DEF OneShotInv, Lending
<1> DEFINE pc == IF reader.initialized THEN "take" ELSE "flag"
           e == NewAppend(c.dst, c.src, pc)
<1>2. /\ call' = [call EXCEPT ![u] = e] /\ array' = [array EXCEPT ![u] = c.dst]
      /\ reader' = reader /\ pool' = pool /\ decoder' = decoder /\ call[u].at = "idle"
  <2>1. call' = [call EXCEPT ![u] = e]
    BY Zenon DEF AppendDecompress, NewAppend
  <2> HIDE DEF e
  <2> QED
    BY <2>1 DEF AppendDecompress, Idle, At
<1>3. c.src \in Inputs /\ c.src \in Seq(SoundFrame) /\ c.dst \in Seq(Nat)
  BY InputsSound
<1>4. pc \in {"take", "flag"}
  OBVIOUS
<1>5. /\ e \in CallShape
      /\ e.at = pc /\ e.op = "append" /\ e.d = Nobody /\ e.src = c.src
      /\ e.rest = c.src /\ e.got = << >> /\ e.seen = FALSE /\ e.before = c.dst
  <2> HIDE DEF pc
  <2>1. IsNewAppend(e, c.dst, c.src, pc)
    BY <1>3, <1>4, NewAppendTyped, Zenon
  <2> QED
    BY <2>1, Zenon DEF IsNewAppend
<1> HIDE DEF e
<1>6. Steps(u) /\ call'[u] = e
  BY <1>1, <1>2, <1>5, StepsTo
<1>7. Typed'
  <2>1. array' \in [Arrays -> Seq(Nat)]
    BY <1>1, <1>2, <1>3 DEF Typed
  <2> QED
    BY <1>1, <1>2, <1>6, <2>1 DEF Typed, Steps
<1>8. Ready'
  <2>1. pc = "flag" => reader.closed
    BY <1>1 DEF Ready
  <2>2. \A v \in Users : v # u => call'[v] = call[v]
    BY <1>6 DEF Steps
  <2> HIDE DEF pc
  <2> QED
    BY <1>1, <1>2, <1>4, <1>5, <1>6, <2>1, <2>2 DEF Ready
<1>9. Apart'
  BY <1>1, <1>2, <1>4, <1>5, <1>6, NobodyApart, ApartKept DEF Apart, Holding
<1>10. OwnArrays'
  <2>1. \A d \in Decoders : Borrowed(d)' = Borrowed(d)
    BY <1>2, <1>4, <1>5, <1>6 DEF Borrowed, Steps
  <2> QED
    BY <1>1, <1>2, <2>1 DEF OwnArrays
<1>11. Exact'
  <2>1. array'[u] = c.dst /\ \A a \in Arrays : a # u => array'[a] = array[a]
    BY <1>1, <1>2, ArraysApart DEF Typed
  <2>2. Begun(u, e, c.dst)
    <3>1. c.dst = c.dst \o << >>
      BY <1>3
    <3> QED
      BY <1>3, <1>4, <1>5, <3>1 DEF Begun, Holding
  <2>3. \A v \in Users : v # u => array'[v] = array[v]
    BY <2>1, ArraysApart
  <2>4. \A v \in Users : v # u /\ call[v].at = "blocks" =>
          decoder'[call[v].d] = decoder[call[v].d] /\ array'[HistoryOf(call[v].d)] = array[HistoryOf(call[v].d)]
    <3>1. \A v \in Users : call[v].at = "blocks" => call[v].d \in Decoders
      BY <1>1 DEF Apart, Holding
    <3> QED
      BY <1>2, <2>1, <3>1, ArraysApart
  <2> QED
    BY <1>1, <1>4, <1>5, <1>6, <2>1, <2>2, <2>3, <2>4, ExactKept
<1> QED
  BY <1>7, <1>8, <1>9, <1>10, <1>11 DEF OneShotInv, Lending

LEMMA SetFlagKeeps ==
  ASSUME OneShotInv, NEW u \in Users, SetFlag(u)
  PROVE  OneShotInv'
<1>1. Typed /\ Ready /\ Apart /\ OwnArrays /\ Exact
  BY DEF OneShotInv, Lending
<1>2. /\ call[u].at = "flag" /\ reader' = [reader EXCEPT !.initialized = TRUE] /\ Go(u, "fields")
      /\ pool' = pool /\ decoder' = decoder /\ array' = array
  BY DEF SetFlag, At
<1>3. reader' \in ReaderShape /\ reader'.initialized /\ reader'.frame = reader.frame /\ reader'.closed = reader.closed
  BY <1>1, <1>2 DEF Typed, ReaderShape
<1> DEFINE e == [call[u] EXCEPT !.at = "fields"]
<1>4. Steps(u) /\ call'[u] = e /\ call[u] \in CallShape
  BY <1>1, <1>2, GoSteps
<1>5. e.at = "fields" /\ e.d = call[u].d /\ e.op = call[u].op
  BY <1>4, GoesOn
<1>6. Begun(u, e, array[u])
  BY <1>1, <1>2, <1>4, BegunEarly DEF Exact
<1> HIDE DEF e
<1>7. Typed'
  BY <1>1, <1>2, <1>3, <1>4 DEF Typed, Steps
<1>8. Ready'
  <2>1. reader.closed
    BY <1>1, <1>2 DEF Ready
  <2>2. \A v \in Users : v # u => call'[v] = call[v]
    BY <1>4 DEF Steps
  <2> QED
    BY <1>1, <1>3, <1>4, <1>5, <2>1, <2>2 DEF Ready
<1>9. Apart'
  BY <1>1, <1>2, <1>3, <1>4, <1>5, ApartKept DEF Holding
<1>10. OwnArrays'
  <2>1. \A d \in Decoders : Borrowed(d)' = Borrowed(d)
    BY <1>2, <1>4, <1>5 DEF Borrowed, Steps
  <2> QED
    BY <1>1, <1>2, <2>1 DEF OwnArrays
<1>11. Exact'
  BY <1>1, <1>2, <1>4, <1>5, <1>6, ExactKept
<1> QED
  BY <1>7, <1>8, <1>9, <1>10, <1>11 DEF OneShotInv, Lending

(* What a call leaves alone that holds d. *)
LEMMA OthersUntouched ==
  ASSUME Lending, NEW u \in Users, NEW d \in Decoders,
         \A e \in Decoders : e # d => decoder'[e] = decoder[e],
         \A a \in Arrays : a # u /\ a # HistoryOf(d) /\ a # DstOf(d) => array'[a] = array[a],
         \A v \in Users : v # u /\ call[v].at \in Holding => call[v].d # d
  PROVE  /\ \A v \in Users : v # u => array'[v] = array[v]
         /\ \A v \in Users : v # u /\ call[v].at = "blocks" =>
              decoder'[call[v].d] = decoder[call[v].d] /\ array'[HistoryOf(call[v].d)] = array[HistoryOf(call[v].d)]
<1>1. \A v \in Users : v # u => array'[v] = array[v]
  BY ArraysApart
<1>2. ASSUME NEW v \in Users, v # u, call[v].at = "blocks"
      PROVE  decoder'[call[v].d] = decoder[call[v].d] /\ array'[HistoryOf(call[v].d)] = array[HistoryOf(call[v].d)]
  <2>1. call[v].d \in Decoders /\ call[v].d # d
    BY <1>2 DEF Lending, Apart, Holding
  <2>2. /\ HistoryOf(call[v].d) \in Arrays /\ HistoryOf(call[v].d) # u
        /\ HistoryOf(call[v].d) # HistoryOf(d) /\ HistoryOf(call[v].d) # DstOf(d)
    BY <2>1, ArraysApart
  <2> QED
    BY <2>1, <2>2
<1> QED
  BY <1>1, <1>2

LEMMA SetFieldsKeeps ==
  ASSUME OneShotInv, NEW u \in Users, SetFields(u)
  PROVE  OneShotInv'
<1>1. Lending /\ Typed /\ Ready /\ Apart /\ OwnArrays /\ Exact
  BY DEF OneShotInv, Lending
<1>2. PICK d \in Decoders : Get(d) /\ reader' = [reader EXCEPT !.frame = d]
  BY DEF SetFields
<1>3. call[u].at = "fields" /\ Go(u, "take") /\ array' = array
  BY DEF SetFields, At
<1>4. /\ d # reader.frame
      /\ \A v \in Users : call[v].at \in Holding => call[v].d # d
      /\ pool' = pool \ {d} /\ pool' \in SUBSET Decoders
      /\ decoder' \in [Decoders -> DecoderShape]
      /\ \A e \in Decoders : e # d => decoder'[e] = decoder[e]
      /\ decoder'[d].dst = DstOf(d) /\ decoder'[d].b.in = HistoryOf(d)
  BY <1>1, <1>2, Gets
<1>5. reader' \in ReaderShape /\ reader'.initialized = reader.initialized /\ reader'.frame = d
      /\ reader'.closed = reader.closed
  BY <1>1, <1>2 DEF Typed, ReaderShape
<1> DEFINE e == [call[u] EXCEPT !.at = "take"]
<1>6. Steps(u) /\ call'[u] = e /\ call[u] \in CallShape
  BY <1>1, <1>3, GoSteps
<1>7. e.at = "take" /\ e.d = call[u].d /\ e.op = call[u].op
  BY <1>6, GoesOn
<1>8. Begun(u, e, array[u])
  BY <1>1, <1>3, <1>6, BegunEarly DEF Exact
<1> HIDE DEF e
<1>9. \A v \in Users : v # u => call'[v] = call[v]
  BY <1>6 DEF Steps
<1>10. Typed'
  BY <1>1, <1>3, <1>4, <1>5, <1>6 DEF Typed, Steps
<1>11. Ready'
  BY <1>1, <1>3, <1>5, <1>6, <1>7, <1>9 DEF Ready
<1>12. Apart'
  <2>1. \A v \in Users : call'[v].at \in Holding => call[v].at \in Holding /\ call'[v].d = call[v].d
    BY <1>6, <1>7, <1>9 DEF Holding
  <2>2. \A v \in Users : (call'[v].d \in Decoders) = (call'[v].at \in Holding)
    BY <1>1, <1>3, <1>6, <1>7, <1>9 DEF Apart, Holding
  <2> QED
    BY <1>1, <1>4, <1>5, <2>1, <2>2 DEF Apart
<1>13. OwnArrays'
  BY <1>1, <1>3, <1>4, <1>6, <1>7, OwnArraysKept
<1>14. Exact'
  <2>1. /\ \A v \in Users : v # u => array'[v] = array[v]
        /\ \A v \in Users : v # u /\ call[v].at = "blocks" =>
             decoder'[call[v].d] = decoder[call[v].d] /\ array'[HistoryOf(call[v].d)] = array[HistoryOf(call[v].d)]
    BY <1>1, <1>3, <1>4, OthersUntouched
  <2> QED
    BY <1>1, <1>3, <1>6, <1>7, <1>8, <2>1, ExactKept
<1> QED
  BY <1>10, <1>11, <1>12, <1>13, <1>14 DEF OneShotInv, Lending

LEMMA RefuseClosedKeeps ==
  ASSUME OneShotInv, NEW u \in Users, RefuseClosed(u)
  PROVE  OneShotInv'
<1>1. Lending /\ Typed /\ Ready /\ Apart /\ OwnArrays /\ Exact
  BY DEF OneShotInv, Lending
<1> DEFINE e == [NoCall EXCEPT !.err = "closed"]
<1>2. /\ call[u].at = "take" /\ call' = [call EXCEPT ![u] = e]
      /\ reader' = reader /\ pool' = pool /\ decoder' = decoder /\ array' = array
  BY DEF RefuseClosed, At
<1>3. e \in CallShape /\ e.at = "idle" /\ e.op = "none" /\ e.d = Nobody
  <2>1. "closed" \in Errors
    BY DEF Errors
  <2>2. NoCall.at = "idle" /\ NoCall.op = "none" /\ NoCall.d = Nobody
    BY DEF NoCall
  <2> QED
    BY <2>1, <2>2, NoCallTyped DEF CallShape
<1> HIDE DEF e
<1>4. Steps(u) /\ call'[u] = e
  BY <1>1, <1>2, <1>3, StepsTo
<1>5. Typed'
  BY <1>1, <1>2, <1>4 DEF Typed, Steps
<1>6. Ready'
  BY <1>1, <1>2, <1>3, <1>4, ReadyKept
<1>7. Apart'
  BY <1>1, <1>2, <1>3, <1>4, NobodyApart, ApartKept DEF Apart, Holding
<1>8. OwnArrays'
  <2>1. \A d \in Decoders : Borrowed(d)' = Borrowed(d)
    BY <1>2, <1>3, <1>4 DEF Borrowed, Steps
  <2> QED
    BY <1>1, <1>2, <2>1 DEF OwnArrays
<1>9. Exact'
  <2>1. Begun(u, e, array[u])
    BY <1>3 DEF Begun, Holding
  <2> QED
    BY <1>1, <1>2, <1>3, <1>4, <2>1, ExactKept
<1> QED
  BY <1>5, <1>6, <1>7, <1>8, <1>9 DEF OneShotInv, Lending

(* A call takes a decoder: it stands in front of its first frame. *)
LEMMA TakesDecoder ==
  ASSUME OneShotInv, NEW u \in Users, NEW d \in Decoders, Get(d),
         NEW e \in CallShape, Steps(u), call'[u] = e, reader' = reader, array' = array,
         call[u].at \in {"take", "idle"}, e.at = "header", e.d = d, Begun(u, e, array[u])
  PROVE  OneShotInv'
<1>1. Lending /\ Typed /\ Ready /\ Apart /\ OwnArrays /\ Exact
  BY DEF OneShotInv, Lending
<1>2. /\ d # reader.frame
      /\ \A v \in Users : call[v].at \in Holding => call[v].d # d
      /\ pool' = pool \ {d} /\ pool' \in SUBSET Decoders
      /\ decoder' \in [Decoders -> DecoderShape]
      /\ \A a \in Decoders : a # d => decoder'[a] = decoder[a]
      /\ decoder'[d].dst = DstOf(d) /\ decoder'[d].b.in = HistoryOf(d)
  BY <1>1, Gets
<1>3. Typed'
  BY <1>1, <1>2 DEF Typed, Steps
<1>4. Ready'
  BY <1>1, ReadyKept
<1>5. Apart'
  BY <1>1, <1>2, ApartTaken DEF Holding
<1>6. OwnArrays'
  BY <1>1, <1>2, OwnArraysKept
<1>7. Exact'
  <2>1. /\ \A v \in Users : v # u => array'[v] = array[v]
        /\ \A v \in Users : v # u /\ call[v].at = "blocks" =>
             decoder'[call[v].d] = decoder[call[v].d] /\ array'[HistoryOf(call[v].d)] = array[HistoryOf(call[v].d)]
    BY <1>1, <1>2, OthersUntouched
  <2> QED
    BY <1>1, <2>1, ExactKept
<1> QED
  BY <1>3, <1>4, <1>5, <1>6, <1>7 DEF OneShotInv, Lending

(* Nothing is done of an input at its start. *)
LEMMA FramesBegin ==
  ASSUME NEW c, c.src \in Inputs, c.rest = c.src, c.got = << >>
  PROVE  InFrames(c, 0) /\ 0 \in 0..Len(c.src)
<1>1. c.src \in Seq(SoundFrame) /\ c.src \in Seq(FrameShape)
  <2>1. c.src \in Seq(SoundFrame)
    BY InputsSound
  <2>2. SoundFrame \subseteq FrameShape
    BY DEF SoundFrame
  <2>3. Seq(SoundFrame) \subseteq Seq(FrameShape)
    BY <2>2
  <2> QED
    BY <2>1, <2>3
<1>2. Len(c.src) \in Nat /\ SubSeq(c.src, 0 + 1, Len(c.src)) = c.src
  BY <1>1
<1>3. FramesAlone(c.src)[0] = Nothing
  BY <1>1, FramesUnfold
<1> QED
  BY <1>2, <1>3 DEF InFrames, Remaining, Nothing

LEMMA TakeDecoderKeeps ==
  ASSUME OneShotInv, NEW u \in Users, TakeDecoder(u)
  PROVE  OneShotInv'
<1>1. Lending /\ Typed /\ Ready /\ Apart /\ OwnArrays /\ Exact
  BY DEF OneShotInv, Lending
<1>2. reader.frame \in Decoders /\ reader.frame # Nobody
  BY <1>1, NobodyApart DEF TakeDecoder, Ready
<1>3. PICK d \in Decoders :
        /\ Get(d)
        /\ call' = [call EXCEPT ![u].at = "header", ![u].d = d, ![u].out = Slice(u, Len(call[u].before))]
  BY <1>2 DEF TakeDecoder
<1>4. call[u].at = "take" /\ reader' = reader /\ array' = array
  BY DEF TakeDecoder, At
<1> DEFINE c == call[u]
           out == Slice(u, Len(c.before))
           e == [c EXCEPT !.at = "header", !.d = d, !.out = out]
<1>5. c \in CallShape
  BY <1>1 DEF Typed
<1>6. call' = [call EXCEPT ![u] = e]
  <2>1. call \in [Users -> CallShape]
    BY <1>1 DEF Typed
  <2> HIDE DEF out
  <2> QED
    BY <1>3, <2>1 DEF out
<1>7. out \in AnySlice
  <2>1. c.before \in Seq(Nat)
    BY <1>5 DEF CallShape
  <2>2. Len(c.before) \in Nat
    BY <2>1
  <2> QED
    BY <2>2, ArraysApart DEF Slice, AnySlice
<1> HIDE DEF c, out
<1>8. /\ e \in CallShape /\ e.at = "header" /\ e.d = d /\ e.out = out
      /\ e.op = c.op /\ e.src = c.src /\ e.rest = c.rest /\ e.before = c.before /\ e.got = c.got /\ e.seen = c.seen
  BY <1>5, <1>7 DEF CallShape
<1> HIDE DEF e
<1>9. Steps(u) /\ call'[u] = e
  BY <1>1, <1>6, <1>8, StepsTo
<1>10. /\ c.op = "append" /\ c.src \in Inputs /\ c.rest = c.src /\ c.got = << >> /\ ~c.seen
       /\ array[u] = c.before \o c.got
  <2>1. Begun(u, c, array[u]) /\ c.at = "take"
    BY <1>1, <1>4 DEF Exact, c
  <2> QED
    BY <2>1 DEF Begun
<1>11. Begun(u, e, array[u])
  <2>1. InFrames(e, 0) /\ 0 \in 0..Len(e.src)
    BY <1>8, <1>10, FramesBegin
  <2>2. e.seen = (0 > 0)
    <3>1. e.seen \in BOOLEAN
      BY <1>8 DEF CallShape
    <3> QED
      BY <1>8, <1>10, <3>1
  <2>3. e.out = Slice(u, Len(array[u]))
    <3>1. c.before \in Seq(Nat)
      BY <1>5 DEF CallShape
    <3>2. array[u] = c.before
      BY <1>10, <3>1
    <3> QED
      BY <1>8, <3>2 DEF out
  <2> QED
    BY <1>8, <1>10, <2>1, <2>2, <2>3 DEF Begun, Holding
<1> QED
  BY <1>3, <1>4, <1>8, <1>9, <1>11, TakesDecoder

LEMMA StreamKeeps ==
  ASSUME OneShotInv, NEW u \in Users, NEW s \in StreamInputs, Stream(u, s)
  PROVE  OneShotInv'
<1>1. Lending /\ Typed /\ Ready /\ Apart /\ OwnArrays /\ Exact
  BY DEF OneShotInv, Lending
<1>2. PICK d \in Decoders :
        /\ Get(d)
        /\ call' = [call EXCEPT ![u] = [NoCall EXCEPT !.op = "stream", !.at = "header", !.d = d, !.src = s, !.rest = s]]
  BY DEF Stream
<1>3. call[u].at = "idle" /\ reader' = reader /\ array' = array
  BY DEF Stream, Idle, At
<1>4. s \in Inputs /\ s \in Seq(SoundFrame)
  BY InputsSound
<1> DEFINE e == [NoCall EXCEPT !.op = "stream", !.at = "header", !.d = d, !.src = s, !.rest = s]
<1>5. /\ e \in CallShape /\ e.at = "header" /\ e.d = d /\ e.op = "stream" /\ e.src = s /\ e.rest = s
      /\ e.got = << >> /\ e.seen = FALSE
  <2>1. NoCall.got = << >> /\ NoCall.seen = FALSE
    BY DEF NoCall
  <2> QED
    BY <1>4, <2>1, NoCallTyped DEF CallShape
<1>6. call' = [call EXCEPT ![u] = e]
  BY <1>2
<1> HIDE DEF e
<1>7. Steps(u) /\ call'[u] = e
  BY <1>1, <1>5, <1>6, StepsTo
<1>8. Begun(u, e, array[u])
  <2>1. InFrames(e, 0) /\ 0 \in 0..Len(e.src)
    BY <1>4, <1>5, FramesBegin
  <2>2. e.seen = (0 > 0)
    <3>1. (0 > 0) = FALSE
      OBVIOUS
    <3> QED
      BY <1>5, <3>1, Zenon
  <2> QED
    BY <1>4, <1>5, <2>1, <2>2 DEF Begun, Holding
<1> QED
  BY <1>2, <1>3, <1>5, <1>7, <1>8, TakesDecoder

-----------------------------------------------------------------------------
(* What remains of a sequence behind its first n. *)
LEMMA Remainder ==
  ASSUME NEW S, NEW s \in Seq(S), NEW n \in 0..Len(s)
  PROVE  /\ Remaining(s, n) \in Seq(S) /\ Len(Remaining(s, n)) = Len(s) - n
         /\ (Remaining(s, n) = << >>) = (n = Len(s))
         /\ n < Len(s) => /\ Head(Remaining(s, n)) = s[n + 1]
                          /\ Tail(Remaining(s, n)) = Remaining(s, n + 1)
                          /\ n + 1 \in 1..Len(s) /\ s[n + 1] \in S
<1> DEFINE r == Remaining(s, n)
<1>1. Len(s) \in Nat /\ n \in Nat
  OBVIOUS
<1>2. /\ r \in Seq(S) /\ Len(r) = Len(s) - n
      /\ \A i \in 1..(Len(s) - n) : r[i] = s[n + i]
  <2>1. n + 1 \in 1..(Len(s) + 1) /\ Len(s) \in 0..Len(s) /\ Len(s) - (n + 1) + 1 = Len(s) - n
    BY <1>1
  <2>2. SubSeq(s, n + 1, Len(s)) \in Seq(S) /\ Len(SubSeq(s, n + 1, Len(s))) = Len(s) - n
    <3> DEFINE m == n + 1
               N == Len(s)
    <3>1. m \in 1..(N + 1) /\ N \in (m - 1)..N /\ N - m + 1 = N - n /\ m - 1 <= N /\ m \in Nat
      BY <1>1
    <3> HIDE DEF m
    <3>2. SubSeq(s, m, N) \in Seq(S) /\ Len(SubSeq(s, m, N)) = N - m + 1
      BY <3>1, SubSeqProperties
    <3> QED
      BY <3>1, <3>2 DEF m
  <2>3. ASSUME NEW i \in 1..(Len(s) - n)
        PROVE  SubSeq(s, n + 1, Len(s))[i] = s[n + i]
    <3>1. SubSeq(s, n + 1, Len(s))[i] = s[(n + 1) + i - 1]
      BY <1>1, <2>1
    <3>2. (n + 1) + i - 1 = n + i
      BY <1>1
    <3> QED
      BY <3>1, <3>2
  <2> QED
    BY <2>2, <2>3 DEF Remaining
<1>3. (r = << >>) = (n = Len(s))
  <2>1. (r = << >>) = (Len(r) = 0)
    BY <1>2, EmptySeq
  <2> HIDE DEF r
  <2> QED
    BY <1>1, <1>2, <2>1
<1>4. ASSUME n < Len(s)
      PROVE  Head(r) = s[n + 1] /\ Tail(r) = Remaining(s, n + 1) /\ n + 1 \in 1..Len(s) /\ s[n + 1] \in S
  <2>1. n + 1 \in 1..Len(s) /\ s[n + 1] \in S /\ 1 \in 1..(Len(s) - n)
    BY <1>1, <1>4
  <2> DEFINE t == SubSeq(s, (n + 1) + 1, Len(s))
             u == Tail(r)
  <2>2. (n + 1) + 1 \in 1..(Len(s) + 1) /\ Len(s) - ((n + 1) + 1) + 1 = Len(s) - n - 1
    BY <1>1, <1>4
  <2>3. /\ t \in Seq(S) /\ Len(t) = Len(s) - n - 1
        /\ \A i \in 1..(Len(s) - n - 1) : t[i] = s[(n + 1) + i]
    <3>1. t \in Seq(S) /\ Len(t) = Len(s) - n - 1
      <4> DEFINE m == (n + 1) + 1
                 N == Len(s)
      <4>1. m \in 1..(N + 1) /\ N \in (m - 1)..N /\ N - m + 1 = N - n - 1
        BY <1>1, <2>2
      <4> HIDE DEF m
      <4>2. SubSeq(s, m, N) \in Seq(S) /\ Len(SubSeq(s, m, N)) = N - m + 1
        BY <4>1, SubSeqProperties
      <4> QED
        BY <4>1, <4>2 DEF m
    <3>2. ASSUME NEW i \in 1..(Len(s) - n - 1)
          PROVE  t[i] = s[(n + 1) + i]
      <4>1. t[i] = s[((n + 1) + 1) + i - 1]
        BY <1>1, <2>2
      <4>2. ((n + 1) + 1) + i - 1 = (n + 1) + i
        BY <1>1
      <4> QED
        BY <4>1, <4>2
    <3> QED
      BY <3>1, <3>2
  <2> HIDE DEF r, t
  <2>4. r # << >>
    BY <1>1, <1>2, <1>3, <1>4
  <2>5. /\ u \in Seq(S) /\ Len(u) = Len(s) - n - 1
        /\ \A i \in 1..(Len(s) - n - 1) : u[i] = r[i + 1]
    BY <1>1, <1>2, <2>4
  <2> HIDE DEF u
  <2>6. \A i \in 1..(Len(s) - n - 1) : u[i] = t[i]
    <3>1. ASSUME NEW i \in 1..(Len(s) - n - 1)
          PROVE  u[i] = t[i]
      <4>1. i + 1 \in 1..(Len(s) - n) /\ n + (i + 1) = (n + 1) + i
        BY <1>1
      <4> QED
        BY <1>2, <2>3, <2>5, <4>1
    <3> QED
      BY <3>1
  <2>7. u = t
    BY <1>1, <2>3, <2>5, <2>6, SMTT(30)
  <2>8. Head(r) = s[n + 1]
    BY <1>2, <2>1, <2>4
  <2> QED
    BY <2>1, <2>7, <2>8 DEF u, t, Remaining
<1> QED
  BY <1>2, <1>3, <1>4

(* Inputs are sequences of frames that have blocks. *)
LEMMA InputTyped ==
  ASSUME NEW s \in Inputs
  PROVE  s \in Seq(SoundFrame) /\ s \in Seq(FrameShape)
<1>1. s \in Seq(SoundFrame)
  BY InputsSound
<1>2. SoundFrame \subseteq FrameShape
  BY DEF SoundFrame
<1>3. Seq(SoundFrame) \subseteq Seq(FrameShape)
  BY <1>2
<1> QED
  BY <1>1, <1>3

LEMMA ReturnTyped ==
  ASSUME NEW c \in CallShape, NEW err \in Errors
  PROVE  LET e == [c EXCEPT !.at = "idle", !.err = err, !.d = Nobody, !.seen = FALSE,
                            !.rest = << >>, !.blocks = << >>, !.saved = NoCall.saved]
         IN  /\ e \in CallShape /\ e.at = "idle" /\ e.err = err /\ e.d = Nobody
             /\ e.op = c.op /\ e.src = c.src /\ e.before = c.before /\ e.got = c.got /\ e.out = c.out
<1>1. << >> \in Seq(SoundFrame) /\ << >> \in Seq(BlockShape)
  OBVIOUS
<1>2. NoCall.saved \in AnySlice
  BY NoCallTyped DEF CallShape
<1> DEFINE saved == NoCall.saved
<1> HIDE DEF saved
<1>3. saved \in AnySlice
  BY <1>2 DEF saved
<1>4. LET e == [c EXCEPT !.at = "idle", !.err = err, !.d = Nobody, !.seen = FALSE,
                         !.rest = << >>, !.blocks = << >>, !.saved = saved]
      IN  /\ e \in CallShape /\ e.at = "idle" /\ e.err = err /\ e.d = Nobody
          /\ e.op = c.op /\ e.src = c.src /\ e.before = c.before /\ e.got = c.got /\ e.out = c.out
  BY <1>1, <1>3 DEF CallShape
<1> QED
  BY <1>4, Zenon DEF saved

(* A call returns: what it returns is what its input stands for, and it    *)
(* gives its decoder back as it was made, but for what is reset anyway.    *)
Returning(u, c, err) ==
  /\ call[u].at \in Holding
  /\ c \in CallShape /\ c.d = call[u].d /\ err \in Errors /\ Return(u, c, err)
  /\ reader' = reader
  /\ decoder' \in [Decoders -> DecoderShape] /\ array' \in [Arrays -> Seq(Nat)]
  /\ \A e \in Decoders : e # c.d => decoder'[e] = decoder[e]
  /\ decoder'[c.d].dst = DstOf(c.d) /\ decoder'[c.d].b.in = HistoryOf(c.d)
  /\ \A a \in Arrays : a # u /\ a # HistoryOf(c.d) /\ a # DstOf(c.d) => array'[a] = array[a]
  /\ c.src \in Inputs /\ [err |-> err, out |-> c.got] = InputAlone(c.src)
  /\ c.op = "append" => array'[u] = c.before \o c.got /\ c.out = Slice(u, Len(array'[u]))

LEMMA Returns ==
  ASSUME OneShotInv, NEW u \in Users, NEW c, NEW err, Returning(u, c, err)
  PROVE  OneShotInv'
<1> /\ call[u].at \in Holding
    /\ c \in CallShape /\ c.d = call[u].d /\ err \in Errors /\ Return(u, c, err)
    /\ reader' = reader
    /\ decoder' \in [Decoders -> DecoderShape] /\ array' \in [Arrays -> Seq(Nat)]
    /\ \A e \in Decoders : e # c.d => decoder'[e] = decoder[e]
    /\ decoder'[c.d].dst = DstOf(c.d) /\ decoder'[c.d].b.in = HistoryOf(c.d)
    /\ \A a \in Arrays : a # u /\ a # HistoryOf(c.d) /\ a # DstOf(c.d) => array'[a] = array[a]
    /\ c.src \in Inputs /\ [err |-> err, out |-> c.got] = InputAlone(c.src)
    /\ c.op = "append" => array'[u] = c.before \o c.got /\ c.out = Slice(u, Len(array'[u]))
  BY DEF Returning
<1> DEFINE e == [c EXCEPT !.at = "idle", !.err = err, !.d = Nobody, !.seen = FALSE,
                          !.rest = << >>, !.blocks = << >>, !.saved = NoCall.saved]
           d == c.d
<1>1. Lending /\ Typed /\ Ready /\ Apart /\ OwnArrays /\ Exact
  BY DEF OneShotInv, Lending
<1>2. call' = [call EXCEPT ![u] = e] /\ pool' = pool \cup {d}
  BY DEF Return
<1>3. /\ e \in CallShape /\ e.at = "idle" /\ e.err = err /\ e.d = Nobody
      /\ e.op = c.op /\ e.src = c.src /\ e.before = c.before /\ e.got = c.got /\ e.out = c.out
  BY ReturnTyped
<1> HIDE DEF e
<1>4. Steps(u) /\ call'[u] = e
  BY <1>1, <1>2, <1>3, StepsTo
<1>5. d \in Decoders /\ d \notin pool /\ d # reader.frame /\ d = call[u].d
      /\ \A v \in Users : v # u /\ call[v].at \in Holding => call[v].d # d
  BY <1>1 DEF Apart
<1>6. Typed'
  BY <1>1, <1>2, <1>4, <1>5 DEF Typed, Steps
<1>7. Ready'
  BY <1>1, <1>3, <1>4, ReadyKept DEF Holding
<1>8. Apart'
  BY <1>1, <1>2, <1>3, <1>4, <1>5, NobodyApart, ApartReturned DEF Holding
<1>9. OwnArrays'
  BY <1>1, <1>3, <1>4, <1>5, OwnArraysKept
<1>10. Exact'
  <2>1. /\ \A v \in Users : v # u => array'[v] = array[v]
        /\ \A v \in Users : v # u /\ call[v].at = "blocks" =>
             decoder'[call[v].d] = decoder[call[v].d] /\ array'[HistoryOf(call[v].d)] = array[HistoryOf(call[v].d)]
    BY <1>1, <1>5, OthersUntouched
  <2>2. Begun(u, e, array'[u])
    BY <1>3 DEF Begun, Holding
  <2> QED
    BY <1>1, <1>3, <1>4, <2>1, <2>2, ExactKept
<1> QED
  BY <1>6, <1>7, <1>8, <1>9, <1>10 DEF OneShotInv, Lending

(* What holds of a call in front of a frame or the end of its input. *)
Fronted(u, c, k) ==
  /\ c \in CallShape /\ c.d \in Decoders /\ c.op # "none" /\ c.src \in Inputs
  /\ k \in 0..Len(c.src) /\ InFrames(c, k) /\ c.seen = (k > 0)
  /\ c.op = "append" => array[u] = c.before \o c.got /\ c.out = Slice(u, Len(array[u]))
  /\ decoder[c.d] \in DecoderShape /\ decoder[c.d].dst = DstOf(c.d) /\ decoder[c.d].b.in = HistoryOf(c.d)

LEMMA AtFront ==
  ASSUME OneShotInv, NEW u \in Users, call[u].at = "header"
  PROVE  \E k \in Nat : Fronted(u, call[u], k)
<1> DEFINE c == call[u]
<1>1. Typed /\ Apart /\ OwnArrays /\ Exact
  BY DEF OneShotInv, Lending
<1>2. c \in CallShape /\ c.at = "header" /\ Begun(u, c, array[u]) /\ c.d \in Decoders
  BY <1>1 DEF Typed, Exact, Apart, Holding
<1>3. decoder[c.d] \in DecoderShape /\ decoder[c.d].dst = DstOf(c.d) /\ decoder[c.d].b.in = HistoryOf(c.d)
  <2>1. ~Borrowed(c.d)
    <3>1. \A v \in Users : v # u => call[v].d # c.d \/ call[v].at \notin Holding
      BY <1>1 DEF Apart
    <3> QED
      BY <1>2, <3>1 DEF Borrowed, Holding
  <2> QED
    BY <1>1, <1>2, <2>1 DEF Typed, OwnArrays
<1> HIDE DEF c
<1>4. /\ c.op # "none" /\ c.src \in Inputs
      /\ \E k \in 0..Len(c.src) : InFrames(c, k) /\ c.seen = (k > 0)
      /\ c.op = "append" => array[u] = c.before \o c.got /\ c.out = Slice(u, Len(array[u]))
  BY <1>2 DEF Begun, Holding
<1>5. PICK k \in 0..Len(c.src) : InFrames(c, k) /\ c.seen = (k > 0)
  BY <1>4
<1>6. Fronted(u, c, k)
  BY <1>2, <1>3, <1>4, <1>5 DEF Fronted
<1>7. k \in Nat
  BY <1>5
<1> QED
  BY <1>6, <1>7 DEF c

LEMMA EndOfInputKeeps ==
  ASSUME OneShotInv, NEW u \in Users, EndOfInput(u)
  PROVE  OneShotInv'
<1> DEFINE c == call[u]
           err == IF c.seen THEN "none" ELSE "empty"
<1>1. Lending /\ Typed /\ Ready /\ Apart /\ OwnArrays /\ Exact
  BY DEF OneShotInv, Lending
<1>2. /\ c.at = "header" /\ c.rest = << >> /\ Return(u, c, err)
      /\ decoder' = [decoder EXCEPT ![c.d] = Left(u, decoder[c.d])]
      /\ array' = Forget(array, c.d) /\ reader' = reader
  BY <1>1 DEF EndOfInput, AtHeader, At, Typed
<1>3. PICK k \in Nat : Fronted(u, c, k)
  BY <1>1, <1>2, AtFront
<1> HIDE DEF c
<1>4. /\ c \in CallShape /\ c.d \in Decoders /\ c.op # "none" /\ c.src \in Inputs
      /\ k \in 0..Len(c.src) /\ InFrames(c, k) /\ c.seen = (k > 0)
      /\ c.op = "append" => array[u] = c.before \o c.got /\ c.out = Slice(u, Len(array[u]))
      /\ decoder[c.d] \in DecoderShape /\ decoder[c.d].dst = DstOf(c.d) /\ decoder[c.d].b.in = HistoryOf(c.d)
  BY <1>3 DEF Fronted
<1>5. [err |-> err, out |-> c.got] = InputAlone(c.src)
  <2>1. c.src \in Seq(FrameShape) /\ Len(c.src) \in Nat
    BY <1>4, InputTyped
  <2>2. Remaining(c.src, k) = << >> /\ FramesAlone(c.src)[k] = [err |-> "none", out |-> c.got]
    BY <1>2, <1>4 DEF InFrames
  <2>3. k = Len(c.src)
    BY <1>4, <2>1, <2>2, Remainder
  <2>4. CASE c.src = << >>
    <3>1. k = 0 /\ c.seen = FALSE
      <4>1. k = 0
        BY <2>3, <2>4
      <4>2. (0 > 0) = FALSE
        OBVIOUS
      <4> QED
        BY <1>4, <4>1, <4>2, Zenon
    <3>2. FramesAlone(c.src)[0] = Nothing
      BY <2>1, FramesUnfold
    <3>3. c.got = << >>
      BY <2>2, <3>1, <3>2 DEF Nothing
    <3> QED
      BY <2>4, <3>1, <3>3 DEF InputAlone
  <2>5. CASE c.src # << >>
    <3>1. k > 0
      BY <1>4, <2>1, <2>3, <2>5, EmptySeq
    <3>2. err = "none"
      BY <1>4, <3>1
    <3> HIDE DEF err
    <3> QED
      BY <2>2, <2>3, <2>5, <3>2 DEF InputAlone
  <2> QED
    BY <2>4, <2>5
<1>6. err \in Errors
  BY DEF Errors
<1> HIDE DEF err
<1>7. /\ array' \in [Arrays -> Seq(Nat)]
      /\ \A a \in Arrays : a # HistoryOf(c.d) /\ a # DstOf(c.d) => array'[a] = array[a]
  BY <1>1, <1>2, <1>4, Forgets DEF Typed
<1>8. array'[u] = array[u]
  BY <1>4, <1>7, ArraysApart
<1>9. /\ decoder' \in [Decoders -> DecoderShape]
      /\ \A e \in Decoders : e # c.d => decoder'[e] = decoder[e]
      /\ decoder'[c.d].dst = DstOf(c.d) /\ decoder'[c.d].b.in = HistoryOf(c.d)
  BY <1>1, <1>2, <1>4, LeftTyped DEF Typed
<1>10. call[u].at \in Holding /\ c.d = call[u].d
  BY <1>2 DEF Holding, c
<1> QED
  <2>1. Returning(u, c, err)
    BY <1>2, <1>4, <1>5, <1>6, <1>7, <1>8, <1>9, <1>10 DEF Returning
  <2> QED
    BY <1>1, <2>1, Returns DEF OneShotInv

(* One frame more; its error is the input's. *)
LEMMA NextFrame ==
  ASSUME NEW s \in Inputs, NEW k \in Nat, k < Len(s), FramesAlone(s)[k].err = "none"
  PROVE  LET alone == FrameAlone(s[k + 1])
             next == [err |-> alone.err, out |-> FramesAlone(s)[k].out \o alone.out]
         IN  /\ s[k + 1] \in SoundFrame /\ s[k + 1] \in FrameShape
             /\ FramesAlone(s)[k].out \in Seq(Nat) /\ alone \in Outcome
             /\ FramesAlone(s)[k + 1] = next
             /\ alone.err # "none" => InputAlone(s) = next
<1> DEFINE frame == s[k + 1]
           alone == FrameAlone(frame)
           got == FramesAlone(s)[k].out
           next == [err |-> alone.err, out |-> got \o alone.out]
<1>1. s \in Seq(SoundFrame) /\ s \in Seq(FrameShape) /\ Len(s) \in Nat
  BY InputTyped
<1>2. k + 1 \in 1..Len(s) /\ k \in 0..Len(s) /\ k + 1 \in 0..Len(s) /\ (k + 1) - 1 = k
  BY <1>1
<1>3. frame \in SoundFrame /\ frame \in FrameShape
  BY <1>1, <1>2
<1>4. FramesAlone(s)[k] \in Outcome
  BY <1>1, <1>2, FramesUnfold
<1>5. FramesAlone(s)[k + 1] = Joined(FramesAlone(s)[k], frame)
  BY <1>1, <1>2, FramesUnfold
<1> HIDE DEF frame
<1>6. FramesAlone(s)[k + 1] = next
  BY <1>5 DEF Joined
<1>7. got \in Seq(Nat) /\ alone \in Outcome
  BY <1>3, <1>4, FrameAloneTyped DEF Outcome
<1>8. ASSUME alone.err # "none"
      PROVE  InputAlone(s) = next
  <2>1. FramesAlone(s)[k + 1].err # "none"
    BY <1>6, <1>8
  <2>2. FramesAlone(s)[Len(s)] = FramesAlone(s)[k + 1]
    BY <1>1, <1>2, <2>1, FramesSettle
  <2>3. s # << >>
    BY <1>2
  <2> HIDE DEF next
  <2> QED
    BY <1>6, <2>2, <2>3 DEF InputAlone
<1> QED
  BY <1>3, <1>6, <1>7, <1>8 DEF frame

LEMMA RefuseHeaderKeeps ==
  ASSUME OneShotInv, NEW u \in Users, RefuseHeader(u)
  PROVE  OneShotInv'
<1> DEFINE c == call[u]
           frame == Head(c.rest)
           err == HeaderError(frame)
<1>1. Lending /\ Typed /\ Ready /\ Apart /\ OwnArrays /\ Exact
  BY DEF OneShotInv, Lending
<1>2. /\ c.at = "header" /\ c.rest # << >> /\ err # "none" /\ Return(u, c, err)
      /\ decoder' = [decoder EXCEPT ![c.d] = IF err = "dictionary" THEN HistoryReset(@) ELSE Left(u, @)]
      /\ array' = Forget(array, c.d) /\ reader' = reader
  BY DEF RefuseHeader, AtHeader, At
<1>3. PICK k \in Nat : Fronted(u, c, k)
  BY <1>1, <1>2, AtFront
<1>4. call[u].at \in Holding /\ c.d = call[u].d
  BY <1>2 DEF Holding
<1> HIDE DEF c
<1>5. /\ c \in CallShape /\ c.d \in Decoders /\ c.op # "none" /\ c.src \in Inputs
      /\ k \in 0..Len(c.src) /\ InFrames(c, k)
      /\ c.op = "append" => array[u] = c.before \o c.got /\ c.out = Slice(u, Len(array[u]))
      /\ decoder[c.d] \in DecoderShape /\ decoder[c.d].dst = DstOf(c.d) /\ decoder[c.d].b.in = HistoryOf(c.d)
  BY <1>3 DEF Fronted
<1>6. c.src \in Seq(FrameShape) /\ Len(c.src) \in Nat /\ c.rest = Remaining(c.src, k)
      /\ FramesAlone(c.src)[k] = [err |-> "none", out |-> c.got]
  BY <1>5, InputTyped DEF InFrames
<1>7. k < Len(c.src) /\ frame = c.src[k + 1]
  <2>1. k # Len(c.src)
    BY <1>2, <1>5, <1>6, Remainder
  <2>2. k < Len(c.src)
    BY <1>5, <1>6, <2>1
  <2>3. Head(Remaining(c.src, k)) = c.src[k + 1]
    BY <1>5, <1>6, <2>2, Remainder
  <2>4. frame = Head(Remaining(c.src, k))
    BY <1>6
  <2> HIDE DEF frame
  <2> QED
    BY <2>2, <2>3, <2>4
<1>8. [err |-> err, out |-> c.got] = InputAlone(c.src)
  <2>1. FramesAlone(c.src)[k].err = "none" /\ FramesAlone(c.src)[k].out = c.got
    BY <1>6
  <2>2. FrameAlone(frame) = [err |-> err, out |-> << >>]
    <3> HIDE DEF frame
    <3> QED
      BY <1>2 DEF FrameAlone
  <2>3. c.got \in Seq(Nat) /\ InputAlone(c.src) = [err |-> err, out |-> c.got \o << >>]
    <3> HIDE DEF frame, err
    <3>1. FrameAlone(frame).err # "none"
      BY <1>2, <2>2
    <3>2. InputAlone(c.src) = [err |-> FrameAlone(frame).err, out |-> FramesAlone(c.src)[k].out \o FrameAlone(frame).out]
          /\ FramesAlone(c.src)[k].out \in Seq(Nat)
      BY <1>5, <1>7, <2>1, <3>1, NextFrame
    <3> QED
      BY <2>1, <2>2, <3>2
  <2>4. c.got \o << >> = c.got
    BY <2>3
  <2> QED
    BY <2>3, <2>4
<1>9. err \in Errors
  BY DEF Errors, HeaderError
<1>10. /\ array' \in [Arrays -> Seq(Nat)]
       /\ \A a \in Arrays : a # HistoryOf(c.d) /\ a # DstOf(c.d) => array'[a] = array[a]
  BY <1>1, <1>2, <1>5, Forgets DEF Typed
<1>11. array'[u] = array[u]
  BY <1>5, <1>10, ArraysApart
<1>12. /\ decoder' \in [Decoders -> DecoderShape]
       /\ \A e \in Decoders : e # c.d => decoder'[e] = decoder[e]
       /\ decoder'[c.d].dst = DstOf(c.d) /\ decoder'[c.d].b.in = HistoryOf(c.d)
  <2> DEFINE h == decoder[c.d]
             left == IF err = "dictionary" THEN HistoryReset(h) ELSE Left(u, h)
  <2>1. decoder' = [decoder EXCEPT ![c.d] = left]
    BY <1>1, <1>2, <1>5 DEF Typed
  <2>2. Slice(h.b.in, 0).in = h.b.in
    BY DEF Slice
  <2>3. left \in DecoderShape /\ left.dst = h.dst /\ left.b.in = h.b.in
    <3> HIDE DEF err, h
    <3>1. h \in DecoderShape
      BY <1>5 DEF h
    <3>2. CASE err = "dictionary"
      BY <2>2, <3>1, <3>2, HistoryResetTyped
    <3>3. CASE err # "dictionary"
      BY <3>1, <3>3, LeftTyped
    <3> QED
      BY <3>2, <3>3
  <2> HIDE DEF left
  <2> QED
    BY <1>1, <1>5, <2>1, <2>3 DEF Typed
<1> HIDE DEF err
<1>13. Returning(u, c, err)
  BY <1>2, <1>4, <1>5, <1>8, <1>9, <1>10, <1>11, <1>12 DEF Returning
<1> QED
  BY <1>13, Returns

(* A call goes on with the decoder it has. *)
GoingOn(u, e) ==
  /\ call[u].at \in Holding /\ e \in CallShape /\ e.at \in Holding /\ e.d = call[u].d
  /\ Steps(u) /\ call'[u] = e
  /\ reader' = reader /\ pool' = pool
  /\ decoder' \in [Decoders -> DecoderShape] /\ array' \in [Arrays -> Seq(Nat)]
  /\ \A d \in Decoders : d # e.d => decoder'[d] = decoder[d]
  /\ decoder'[e.d].dst = DstOf(e.d)
  /\ decoder'[e.d].b.in = HistoryOf(e.d) \/ (e.at = "blocks" /\ e.op = "append")
  /\ \A a \in Arrays : a # u /\ a # HistoryOf(e.d) /\ a # DstOf(e.d) => array'[a] = array[a]
  /\ Begun(u, e, array'[u])
  /\ e.at = "blocks" => Running(u, e, decoder'[e.d], array'[u], array'[HistoryOf(e.d)])

LEMMA GoesOnKeeps ==
  ASSUME OneShotInv, NEW u \in Users, NEW e, GoingOn(u, e)
  PROVE  OneShotInv'
<1>1. Lending /\ Typed /\ Ready /\ Apart /\ OwnArrays /\ Exact
  BY DEF OneShotInv, Lending
<1>2. /\ call[u].at \in Holding /\ e \in CallShape /\ e.at \in Holding /\ e.d = call[u].d
      /\ Steps(u) /\ call'[u] = e
      /\ reader' = reader /\ pool' = pool
      /\ decoder' \in [Decoders -> DecoderShape] /\ array' \in [Arrays -> Seq(Nat)]
      /\ \A d \in Decoders : d # e.d => decoder'[d] = decoder[d]
      /\ decoder'[e.d].dst = DstOf(e.d)
      /\ decoder'[e.d].b.in = HistoryOf(e.d) \/ (e.at = "blocks" /\ e.op = "append")
      /\ \A a \in Arrays : a # u /\ a # HistoryOf(e.d) /\ a # DstOf(e.d) => array'[a] = array[a]
      /\ Begun(u, e, array'[u])
      /\ e.at = "blocks" => Running(u, e, decoder'[e.d], array'[u], array'[HistoryOf(e.d)])
  BY DEF GoingOn
<1> DEFINE d == e.d
<1>3. d \in Decoders /\ \A v \in Users : v # u /\ call[v].at \in Holding => call[v].d # d
  BY <1>1, <1>2 DEF Apart
<1>4. Typed'
  BY <1>1, <1>2 DEF Typed, Steps
<1>5. Ready'
  BY <1>1, <1>2, ReadyKept DEF Holding
<1>6. Apart'
  BY <1>1, <1>2, ApartKept
<1>7. OwnArrays'
  <2>1. decoder'[d].b.in = HistoryOf(d) \/ (call'[u].at = "blocks" /\ call'[u].op = "append")
    BY <1>2
  <2> QED
    BY <1>1, <1>2, <1>3, <2>1, OwnArraysKept
<1>8. Exact'
  <2>1. /\ \A v \in Users : v # u => array'[v] = array[v]
        /\ \A v \in Users : v # u /\ call[v].at = "blocks" =>
             decoder'[call[v].d] = decoder[call[v].d] /\ array'[HistoryOf(call[v].d)] = array[HistoryOf(call[v].d)]
    BY <1>1, <1>2, <1>3, OthersUntouched
  <2> QED
    BY <1>1, <1>2, <2>1, ExactKept
<1> QED
  BY <1>4, <1>5, <1>6, <1>7, <1>8 DEF OneShotInv, Lending

LEMMA RunDecoderKeeps ==
  ASSUME OneShotInv, NEW u \in Users, RunDecoder(u)
  PROVE  OneShotInv'
<1> DEFINE c == call[u]
           frame == Head(c.rest)
           reset == HistoryReset(decoder[c.d])
           dict == DictFor(frame, reset.dict)
           h == [reset EXCEPT !.dict = dict]
           lent == IF c.op = "stream" THEN h ELSE [h EXCEPT !.b = c.out, !.ignoreBuffer = c.out.len]
           e == [c EXCEPT !.at = "blocks", !.seen = TRUE, !.blocks = frame.blocks, !.saved = h.b]
<1>1. Lending /\ Typed /\ Ready /\ Apart /\ OwnArrays /\ Exact
  BY DEF OneShotInv, Lending
<1>2. /\ c.at = "header" /\ c.rest # << >> /\ HeaderError(frame) = "none"
      /\ reader' = reader /\ pool' = pool /\ array' = array
  BY DEF RunDecoder, AtHeader, At
<1>3. PICK k \in Nat : Fronted(u, c, k)
  BY <1>1, <1>2, AtFront
<1>4. /\ c \in CallShape /\ c.d \in Decoders /\ c.op # "none" /\ c.src \in Inputs
      /\ k \in 0..Len(c.src) /\ InFrames(c, k)
      /\ c.op = "append" => array[u] = c.before \o c.got /\ c.out = Slice(u, Len(array[u]))
      /\ decoder[c.d] \in DecoderShape /\ decoder[c.d].dst = DstOf(c.d) /\ decoder[c.d].b.in = HistoryOf(c.d)
  BY <1>3 DEF Fronted
<1>5. reset \in DecoderShape /\ reset.dst = DstOf(c.d) /\ reset.b = Slice(HistoryOf(c.d), 0)
      /\ reset.ignoreBuffer = 0 /\ reset.dict = << >>
  BY <1>4, HistoryResetTyped
<1>6. decoder' = [decoder EXCEPT ![c.d] = lent] /\ call' = [call EXCEPT ![u] = e]
  <2>1. call \in [Users -> CallShape] /\ decoder \in [Decoders -> DecoderShape]
    BY <1>1 DEF Typed
  <2>2. h = [reset EXCEPT !.dict = DictFor(frame, @)]
    BY <1>5 DEF DecoderShape
  <2>3. decoder' = [decoder EXCEPT ![c.d] =
              IF c.op = "stream" THEN [reset EXCEPT !.dict = DictFor(frame, @)]
              ELSE [[reset EXCEPT !.dict = DictFor(frame, @)] EXCEPT !.b = c.out, !.ignoreBuffer = c.out.len]]
    BY Zenon DEF RunDecoder
  <2>4. call' = [call EXCEPT ![u].at = "blocks", ![u].seen = TRUE, ![u].blocks = frame.blocks,
                             ![u].saved = [reset EXCEPT !.dict = DictFor(frame, @)].b]
    BY Zenon DEF RunDecoder
  <2>5. decoder' = [decoder EXCEPT ![c.d] = lent]
    <3> HIDE DEF h, reset
    <3> QED
      BY <2>2, <2>3, Zenon
  <2>6. call' = [call EXCEPT ![u] = e]
    <3> DEFINE saved == h.b
    <3>1. saved = [reset EXCEPT !.dict = DictFor(frame, @)].b
      BY <2>2
    <3> HIDE DEF h, reset, frame, saved
    <3>2. call' = [call EXCEPT ![u].at = "blocks", ![u].seen = TRUE, ![u].blocks = frame.blocks, ![u].saved = saved]
      BY <2>4, <3>1, Zenon
    <3>3. call' = [call EXCEPT ![u] = [c EXCEPT !.at = "blocks", !.seen = TRUE, !.blocks = frame.blocks, !.saved = saved]]
      BY <2>1, <3>2
    <3> QED
      BY <3>3 DEF saved
  <2> QED
    BY <2>5, <2>6
<1>7. dict \in Seq(Nat) /\ dict = DictFor(frame, << >>)
  <2>1. dict = DictFor(frame, << >>)
    BY <1>5
  <2>2. << >> \in Seq(Nat)
    OBVIOUS
  <2> HIDE DEF dict, frame
  <2> QED
    BY <2>1, <2>2, DictForTyped
<1> HIDE DEF dict, reset
<1>8. h \in DecoderShape /\ h.dst = DstOf(c.d) /\ h.b = Slice(HistoryOf(c.d), 0) /\ h.ignoreBuffer = 0 /\ h.dict = dict
  BY <1>5, <1>7 DEF DecoderShape
<1> HIDE DEF h
<1>9. c.src \in Seq(SoundFrame) /\ c.src \in Seq(FrameShape) /\ Len(c.src) \in Nat /\ c.rest = Remaining(c.src, k)
      /\ FramesAlone(c.src)[k] = [err |-> "none", out |-> c.got]
  BY <1>4, InputTyped DEF InFrames
<1>10. k < Len(c.src) /\ frame = c.src[k + 1] /\ frame \in SoundFrame
  <2>1. k # Len(c.src)
    BY <1>2, <1>4, <1>9, Remainder
  <2>2. k < Len(c.src)
    BY <1>4, <1>9, <2>1
  <2>3. Head(Remaining(c.src, k)) = c.src[k + 1] /\ c.src[k + 1] \in SoundFrame
    BY <1>4, <1>9, <2>2, Remainder
  <2>4. frame = Head(Remaining(c.src, k))
    BY <1>9
  <2> HIDE DEF frame
  <2> QED
    BY <2>2, <2>3, <2>4
<1> HIDE DEF c, frame
<1>11. frame \in FrameShape /\ frame.blocks \in Seq(BlockShape) /\ Len(frame.blocks) > 0 /\ Len(frame.blocks) \in Nat
  <2>1. frame \in FrameShape /\ Len(frame.blocks) > 0
    BY <1>10 DEF SoundFrame
  <2>2. frame.blocks \in Seq(BlockShape)
    BY <2>1 DEF FrameShape
  <2> QED
    BY <2>1, <2>2
<1>12. /\ e \in CallShape /\ e.at = "blocks" /\ e.seen /\ e.blocks = frame.blocks /\ e.saved = h.b
       /\ e.d = c.d /\ e.op = c.op /\ e.src = c.src /\ e.rest = c.rest /\ e.before = c.before /\ e.got = c.got
       /\ e.out = c.out
  <2>1. h.b \in AnySlice
    BY <1>8 DEF DecoderShape
  <2> QED
    BY <1>4, <1>11, <2>1 DEF CallShape
<1> HIDE DEF e
<1>13. Steps(u) /\ call'[u] = e
  BY <1>1, <1>6, <1>12, StepsTo
<1>14. /\ lent \in DecoderShape /\ lent.dst = DstOf(c.d) /\ lent.dict = dict
       /\ c.op = "append" => lent.b = c.out /\ lent.ignoreBuffer = lent.b.len
       /\ c.op = "stream" => lent.b = Slice(HistoryOf(c.d), 0) /\ lent.ignoreBuffer = 0
  <2>1. CASE c.op = "stream"
    <3>1. lent = h
      BY <2>1
    <3> HIDE DEF lent
    <3> QED
      BY <1>8, <2>1, <3>1
  <2>2. CASE c.op = "append"
    <3>1. c.out \in AnySlice /\ c.out.len \in Nat
      BY <1>4 DEF CallShape, AnySlice
    <3>2. lent = [h EXCEPT !.b = c.out, !.ignoreBuffer = c.out.len]
      BY <2>2
    <3> HIDE DEF lent
    <3> QED
      BY <1>8, <2>2, <3>1, <3>2 DEF DecoderShape
  <2>3. c.op \in {"append", "stream"}
    BY <1>4 DEF CallShape
  <2> QED
    BY <2>1, <2>2, <2>3
<1> HIDE DEF lent
<1>15. /\ decoder' \in [Decoders -> DecoderShape] /\ decoder'[c.d] = lent
       /\ \A d \in Decoders : d # c.d => decoder'[d] = decoder[d]
  BY <1>1, <1>4, <1>6, <1>14 DEF Typed
<1>16. array \in [Arrays -> Seq(Nat)] /\ array[u] \in Seq(Nat) /\ array[HistoryOf(c.d)] \in Seq(Nat)
  BY <1>1, <1>4, ArraysApart DEF Typed
<1>17. Begun(u, e, array[u])
  BY <1>4, <1>12 DEF Begun, Holding
<1>18. Running(u, e, lent, array[u], array[HistoryOf(c.d)])
  <2>1. BlocksAlone(frame)[0] = Nothing
    BY <1>11, BlocksUnfold
  <2>2. InBlocks(e, k, 0)
    <3>1. k \in 0..(Len(c.src) - 1) /\ 0 \in 0..(Len(frame.blocks) - 1)
      BY <1>4, <1>9, <1>10, <1>11
    <3>2. frame.blocks = Remaining(frame.blocks, 0)
      BY <1>11 DEF Remaining
    <3>3. c.got = FramesAlone(c.src)[k].out \o BlocksAlone(frame)[0].out /\ FramesAlone(c.src)[k].err = "none"
          /\ BlocksAlone(frame)[0].err = "none"
      <4>1. c.got \in Seq(Nat)
        BY <1>4 DEF CallShape
      <4>2. c.got = c.got \o << >>
        BY <4>1
      <4> QED
        <5>1. BlocksAlone(frame)[0].out = << >> /\ BlocksAlone(frame)[0].err = "none"
          BY <2>1 DEF Nothing
        <5>2. FramesAlone(c.src)[k].out = c.got /\ FramesAlone(c.src)[k].err = "none"
          BY <1>9
        <5> QED
          BY <4>2, <5>1, <5>2
    <3> QED
      BY <1>2, <1>9, <1>10, <1>12, <3>1, <3>2, <3>3 DEF InBlocks
  <2>3. HistoryIs(lent, IF e.op = "append" THEN array[u] ELSE array[HistoryOf(c.d)], BlocksAlone(frame)[0].out)
    <3> DEFINE used == IF e.op = "append" THEN array[u] ELSE array[HistoryOf(c.d)]
    <3>1. used \in Seq(Nat)
      BY <1>16
    <3>2. lent.ignoreBuffer = lent.b.len /\ lent.b.len \in Nat /\ lent.b.len <= Len(used)
      <4>1. Len(array[u]) \in Nat /\ Len(array[HistoryOf(c.d)]) \in Nat
        BY <1>16
      <4>2. CASE c.op = "append"
        BY <1>4, <1>12, <1>14, <4>1, <4>2 DEF Slice
      <4>3. CASE c.op = "stream"
        BY <1>12, <1>14, <4>1, <4>3 DEF Slice
      <4>4. c.op \in {"append", "stream"}
        BY <1>4 DEF CallShape
      <4> QED
        BY <4>2, <4>3, <4>4
    <3> HIDE DEF used
    <3>3. SubSeq(used, lent.b.len + 1, lent.b.len) = << >>
      BY <3>1, <3>2, SubSeqEmpty
    <3>4. HistoryIs(lent, used, << >>)
      BY <3>1, <3>2, <3>3 DEF HistoryIs
    <3> QED
      BY <2>1, <3>4 DEF Nothing, used
  <2>4. lent.dict = DictFor(e.src[k + 1], << >>) /\ frame = e.src[k + 1]
    BY <1>7, <1>10, <1>12, <1>14
  <2>5. /\ e.seen /\ e.saved = Slice(HistoryOf(e.d), 0)
        /\ e.op = "append" => lent.b = e.out
        /\ e.op = "stream" => lent.b.in = HistoryOf(e.d) /\ lent.ignoreBuffer = 0
    BY <1>8, <1>12, <1>14 DEF Slice
  <2> QED
    BY <2>2, <2>3, <2>4, <2>5 DEF Running
<1>19. lent.b.in = HistoryOf(e.d) \/ (e.at = "blocks" /\ e.op = "append")
  <2>1. c.op \in {"append", "stream"}
    BY <1>4 DEF CallShape
  <2> QED
    BY <1>12, <1>14, <2>1 DEF Slice
<1>20. call[u].at \in Holding /\ e.at \in Holding /\ e.d = call[u].d
  BY <1>2, <1>12 DEF Holding, c
<1>21. GoingOn(u, e)
  BY <1>2, <1>12, <1>13, <1>14, <1>15, <1>16, <1>17, <1>18, <1>19, <1>20 DEF GoingOn
<1> QED
  BY <1>21, GoesOnKeeps

-----------------------------------------------------------------------------
(* The shared Reader is closed and reset while nobody calls. *)
LEMMA AloneKeeps ==
  ASSUME OneShotInv, Alone, array' = array, call' = call,
         reader' \in ReaderShape, pool' \in SUBSET Decoders, decoder' \in [Decoders -> DecoderShape],
         ~reader'.closed => reader'.initialized, reader'.initialized => reader'.frame \in Decoders,
         reader'.frame \notin pool',
         \A d \in Decoders : decoder'[d].dst = DstOf(d) /\ decoder'[d].b.in = HistoryOf(d)
  PROVE  OneShotInv'
<1>1. Typed /\ Ready /\ Apart /\ OwnArrays /\ Exact
  BY DEF OneShotInv, Lending
<1>2. \A u \in Users : call[u].at = "idle" /\ call'[u].at = "idle"
  BY DEF Alone, Idle, At
<1>3. Typed'
  BY <1>1 DEF Typed
<1>4. Ready'
  BY <1>2 DEF Ready
<1>5. Apart'
  BY <1>1, <1>2 DEF Apart, Holding
<1>6. OwnArrays'
  BY DEF OwnArrays
<1>7. Exact'
  BY <1>1, <1>2 DEF Exact, At
<1> QED
  BY <1>3, <1>4, <1>5, <1>6, <1>7 DEF OneShotInv, Lending

LEMMA AloneOwn ==
  ASSUME Lending, Alone, NEW d \in Decoders
  PROVE  decoder[d] \in DecoderShape /\ decoder[d].dst = DstOf(d) /\ decoder[d].b.in = HistoryOf(d)
<1>1. ~Borrowed(d)
  BY DEF Borrowed, Alone, Idle, At
<1> QED
  BY <1>1 DEF Lending, Typed, OwnArrays

LEMMA ResetOwn ==
  ASSUME Lending, Alone, NEW d \in Decoders,
         decoder' = [decoder EXCEPT ![d] = HistoryReset(@)]
  PROVE  /\ decoder' \in [Decoders -> DecoderShape]
         /\ \A e \in Decoders : decoder'[e].dst = DstOf(e) /\ decoder'[e].b.in = HistoryOf(e)
<1>1. decoder \in [Decoders -> DecoderShape]
  BY DEF Lending, Typed
<1>2. \A e \in Decoders : decoder[e] \in DecoderShape /\ decoder[e].dst = DstOf(e) /\ decoder[e].b.in = HistoryOf(e)
  BY AloneOwn
<1> DEFINE reset == HistoryReset(decoder[d])
<1>3. reset \in DecoderShape /\ reset.dst = DstOf(d) /\ reset.b.in = HistoryOf(d)
  <2>1. Slice(decoder[d].b.in, 0).in = decoder[d].b.in
    BY DEF Slice
  <2> QED
    BY <1>2, <2>1, HistoryResetTyped
<1>4. decoder' = [decoder EXCEPT ![d] = reset]
  BY <1>1
<1> HIDE DEF reset
<1> QED
  BY <1>1, <1>2, <1>3, <1>4

LEMMA CloseReaderKeeps ==
  ASSUME OneShotInv, CloseReader
  PROVE  OneShotInv'
<1>1. Lending /\ Typed /\ Ready /\ Apart
  BY DEF OneShotInv, Lending
<1>2. /\ Alone /\ reader.initialized
      /\ decoder' = [decoder EXCEPT ![reader.frame] = HistoryReset(@)]
      /\ pool' = pool \cup {reader.frame} /\ reader' = [NoReader EXCEPT !.closed = TRUE]
      /\ array' = array /\ call' = call
  BY DEF CloseReader
<1>3. reader.frame \in Decoders
  BY <1>1, <1>2 DEF Ready, Alone, Idle, At
<1>4. reader' = [initialized |-> FALSE, frame |-> Nobody, closed |-> TRUE]
  BY <1>2 DEF NoReader
<1>5. reader' \in ReaderShape /\ reader'.initialized = FALSE /\ reader'.frame = Nobody /\ reader'.closed = TRUE
  BY <1>4 DEF ReaderShape
<1>6. pool' \in SUBSET Decoders /\ Nobody \notin pool'
  BY <1>1, <1>2, <1>3, NobodyApart DEF Typed
<1>7. /\ decoder' \in [Decoders -> DecoderShape]
      /\ \A e \in Decoders : decoder'[e].dst = DstOf(e) /\ decoder'[e].b.in = HistoryOf(e)
  BY <1>1, <1>2, <1>3, ResetOwn
<1> QED
  BY <1>2, <1>5, <1>6, <1>7, AloneKeeps

LEMMA ResetReaderKeeps ==
  ASSUME OneShotInv, ResetReader
  PROVE  OneShotInv'
<1>1. Lending /\ Typed /\ Ready /\ Apart
  BY DEF OneShotInv, Lending
<1>2. /\ Alone /\ reader.initialized
      /\ decoder' = [decoder EXCEPT ![reader.frame] = HistoryReset(@)]
      /\ pool' = pool /\ reader' = [reader EXCEPT !.closed = FALSE]
      /\ array' = array /\ call' = call
  BY DEF ResetReader
<1>3. reader.frame \in Decoders
  BY <1>1, <1>2 DEF Ready, Alone, Idle, At
<1>4. reader' \in ReaderShape /\ reader'.initialized /\ reader'.frame = reader.frame
  BY <1>1, <1>2 DEF Typed, ReaderShape
<1>5. pool' \in SUBSET Decoders /\ reader'.frame \notin pool'
  BY <1>1, <1>2, <1>4 DEF Typed, Apart
<1>6. /\ decoder' \in [Decoders -> DecoderShape]
      /\ \A e \in Decoders : decoder'[e].dst = DstOf(e) /\ decoder'[e].b.in = HistoryOf(e)
  BY <1>1, <1>2, <1>3, ResetOwn
<1> QED
  BY <1>2, <1>3, <1>4, <1>5, <1>6, AloneKeeps

LEMMA ResetClosedReaderKeeps ==
  ASSUME OneShotInv, ResetClosedReader
  PROVE  OneShotInv'
<1>1. Lending /\ Typed /\ Ready /\ Apart
  BY DEF OneShotInv, Lending
<1>2. PICK d \in Decoders : Get(d) /\ reader' = [NoReader EXCEPT !.initialized = TRUE, !.frame = d]
  BY DEF ResetClosedReader
<1>3. Alone /\ array' = array /\ call' = call
  BY DEF ResetClosedReader
<1>4. reader' \in ReaderShape /\ reader'.initialized = TRUE /\ reader'.frame = d
  <2>1. reader' = [initialized |-> TRUE, frame |-> d, closed |-> FALSE]
    BY <1>2 DEF NoReader
  <2> QED
    BY <2>1 DEF ReaderShape
<1>5. /\ pool' = pool \ {d} /\ pool' \in SUBSET Decoders
      /\ decoder' \in [Decoders -> DecoderShape]
      /\ \A e \in Decoders : e # d => decoder'[e] = decoder[e]
      /\ decoder'[d].dst = DstOf(d) /\ decoder'[d].b.in = HistoryOf(d)
  BY <1>1, <1>2, Gets
<1>6. \A e \in Decoders : decoder'[e].dst = DstOf(e) /\ decoder'[e].b.in = HistoryOf(e)
  <2>1. \A e \in Decoders : decoder[e].dst = DstOf(e) /\ decoder[e].b.in = HistoryOf(e)
    BY <1>1, <1>3, AloneOwn
  <2> QED
    BY <1>5, <2>1
<1> QED
  BY <1>3, <1>4, <1>5, <1>6, AloneKeeps

-----------------------------------------------------------------------------
(* One block of a frame: what the call and its decoder hold before it. *)
AmidInput(c, k, j) ==
  LET frame == c.src[k + 1]
  IN  /\ k \in Nat /\ j \in Nat /\ k < Len(c.src) /\ j < Len(frame.blocks) /\ Len(c.src) \in Nat
      /\ frame \in FrameShape /\ frame.blocks[j + 1] \in BlockShape /\ frame.blocks \in Seq(BlockShape)
      /\ c.rest = Remaining(c.src, k) /\ Head(c.rest) = frame /\ Tail(c.rest) = Remaining(c.src, k + 1)
      /\ HeaderError(frame) = "none"
      /\ Head(c.blocks) = frame.blocks[j + 1] /\ Tail(c.blocks) = Remaining(frame.blocks, j + 1)
      /\ Len(c.blocks) = Len(frame.blocks) - j
      /\ FramesAlone(c.src)[k].err = "none" /\ FramesAlone(c.src)[k].out \in Seq(Nat)
      /\ BlocksAlone(frame)[j].err = "none" /\ BlocksAlone(frame)[j].out \in Seq(Nat)
      /\ BlocksAlone(frame)[j] \in Outcome
      /\ c.got = FramesAlone(c.src)[k].out \o BlocksAlone(frame)[j].out

AmidHistory(u, c, h, frame, content) ==
  /\ c \in CallShape /\ c.d \in Decoders /\ c.op \in {"append", "stream"} /\ c.src \in Inputs
  /\ c.seen /\ c.saved = Slice(HistoryOf(c.d), 0)
  /\ h \in DecoderShape /\ h.dst = DstOf(c.d) /\ h.dict = DictFor(frame, << >>)
  /\ h.b.in = (IF c.op = "append" THEN u ELSE HistoryOf(c.d))
  /\ h.ignoreBuffer \in Nat /\ h.b.len \in Nat
  /\ h.ignoreBuffer <= h.b.len /\ h.b.len <= Len(array[h.b.in])
  /\ SubSeq(array[h.b.in], h.ignoreBuffer + 1, h.b.len) = content
  /\ c.op = "append" => array[u] = c.before \o c.got /\ h.b = c.out /\ h.b.len = Len(array[u])
  /\ c.op = "stream" => h.ignoreBuffer = 0

LEMMA AmidBlocks ==
  ASSUME OneShotInv, NEW u \in Users, call[u].at = "blocks"
  PROVE  \E k, j \in Nat :
           LET c == call[u]
           IN  /\ AmidInput(c, k, j)
               /\ AmidHistory(u, c, decoder[c.d], c.src[k + 1], BlocksAlone(c.src[k + 1])[j].out)
<1> DEFINE c == call[u]
           h == decoder[c.d]
<1>1. Typed /\ Apart /\ OwnArrays /\ Exact
  BY DEF OneShotInv, Lending
<1>2. /\ c \in CallShape /\ c.at = "blocks" /\ c.d \in Decoders /\ h \in DecoderShape
      /\ h.dst = DstOf(c.d)
      /\ Begun(u, c, array[u]) /\ Running(u, c, h, array[u], array[HistoryOf(c.d)])
  BY <1>1 DEF Typed, Exact, Apart, OwnArrays, Holding, At
<1> HIDE DEF c, h
<1>3. /\ c.op \in {"append", "stream"} /\ c.src \in Inputs
      /\ c.op = "append" => array[u] = c.before \o c.got /\ c.out = Slice(u, Len(array[u]))
  BY <1>2 DEF Begun, Holding, CallShape
<1>4. c.src \in Seq(SoundFrame) /\ c.src \in Seq(FrameShape) /\ Len(c.src) \in Nat
  BY <1>3, InputTyped
<1>5. PICK k, j \in Nat :
        /\ InBlocks(c, k, j)
        /\ h.dict = DictFor(c.src[k + 1], << >>)
        /\ HistoryIs(h, IF c.op = "append" THEN array[u] ELSE array[HistoryOf(c.d)],
                     BlocksAlone(c.src[k + 1])[j].out)
  BY <1>2 DEF Running
<1> DEFINE frame == c.src[k + 1]
           content == BlocksAlone(frame)[j].out
<1>6. AmidInput(c, k, j)
  <2>1. /\ k \in 0..(Len(c.src) - 1)
        /\ c.rest = Remaining(c.src, k)
        /\ HeaderError(frame) = "none"
        /\ j \in 0..(Len(frame.blocks) - 1)
        /\ c.blocks = Remaining(frame.blocks, j)
        /\ FramesAlone(c.src)[k].err = "none"
        /\ BlocksAlone(frame)[j].err = "none"
        /\ c.got = FramesAlone(c.src)[k].out \o BlocksAlone(frame)[j].out
    BY <1>5 DEF InBlocks
  <2>2. k < Len(c.src) /\ k \in 0..Len(c.src)
    BY <1>4, <2>1
  <2>3. Head(c.rest) = frame /\ Tail(c.rest) = Remaining(c.src, k + 1) /\ frame \in SoundFrame
    <3>1. Head(Remaining(c.src, k)) = frame /\ Tail(Remaining(c.src, k)) = Remaining(c.src, k + 1)
          /\ frame \in SoundFrame
      BY <1>4, <2>2, Remainder, SMTT(30)
    <3> HIDE DEF frame
    <3> QED
      BY <2>1, <3>1
  <2> HIDE DEF frame
  <2>4. frame \in FrameShape /\ frame.blocks \in Seq(BlockShape) /\ Len(frame.blocks) \in Nat
    BY <2>3 DEF SoundFrame, FrameShape
  <2>5. j < Len(frame.blocks) /\ j \in 0..Len(frame.blocks)
    BY <2>1, <2>4
  <2>6. /\ Head(c.blocks) = frame.blocks[j + 1] /\ Tail(c.blocks) = Remaining(frame.blocks, j + 1)
        /\ frame.blocks[j + 1] \in BlockShape /\ Len(c.blocks) = Len(frame.blocks) - j
    <3> DEFINE s == frame.blocks
    <3>1. s \in Seq(BlockShape) /\ j \in 0..Len(s) /\ j < Len(s)
      BY <2>4, <2>5
    <3> HIDE DEF s
    <3>2. /\ Head(Remaining(s, j)) = s[j + 1] /\ Tail(Remaining(s, j)) = Remaining(s, j + 1)
          /\ s[j + 1] \in BlockShape /\ Len(Remaining(s, j)) = Len(s) - j
      BY <3>1, Remainder
    <3>3. c.blocks = Remaining(s, j)
      BY <2>1 DEF s
    <3> QED
      BY <3>2, <3>3, Zenon DEF s
  <2>7. BlocksAlone(frame)[j] \in Outcome /\ FramesAlone(c.src)[k] \in Outcome
    BY <1>4, <2>2, <2>4, <2>5, BlocksUnfold, FramesUnfold
  <2>8. BlocksAlone(frame)[j].out \in Seq(Nat) /\ FramesAlone(c.src)[k].out \in Seq(Nat)
    BY <2>7 DEF Outcome
  <2> QED
    BY <1>4, <2>1, <2>2, <2>3, <2>4, <2>5, <2>6, <2>7, <2>8 DEF AmidInput, frame
<1>7. AmidHistory(u, c, h, frame, content)
  <2> HIDE DEF frame, content
  <2>1. /\ c.seen /\ c.saved = Slice(HistoryOf(c.d), 0)
        /\ c.op = "append" => h.b = c.out
        /\ c.op = "stream" => h.b.in = HistoryOf(c.d) /\ h.ignoreBuffer = 0
    BY <1>2 DEF Running
  <2>2. h.ignoreBuffer \in Nat /\ h.b.len \in Nat
    BY <1>2 DEF DecoderShape, AnySlice
  <2>3. h.b.in = (IF c.op = "append" THEN u ELSE HistoryOf(c.d))
        /\ (c.op = "append" => h.b.len = Len(array[u]))
    <3>1. CASE c.op = "append"
      <4>1. h.b = Slice(u, Len(array[u]))
        BY <1>3, <2>1, <3>1
      <4> QED
        BY <3>1, <4>1 DEF Slice
    <3>2. CASE c.op = "stream"
      BY <2>1, <3>2
    <3> QED
      BY <1>3, <3>1, <3>2
  <2>4. HistoryIs(h, array[h.b.in], content)
    BY <1>5, <2>3 DEF frame, content
  <2>5. h.dict = DictFor(frame, << >>)
    BY <1>5 DEF frame
  <2> QED
    BY <1>2, <1>3, <2>1, <2>2, <2>3, <2>4, <2>5 DEF AmidHistory, HistoryIs
<1> QED
  BY <1>6, <1>7 DEF c, h

(* What a slice of a sequence holds does not depend on what lies behind    *)
(* it, and an append goes behind it.                                       *)
PutBehind(S, m, n, i, new) ==
  /\ SubSeq(m, 1, n) \in Seq(S) /\ Len(SubSeq(m, 1, n)) = n
  /\ SubSeq(SubSeq(m, 1, n), i + 1, n) = SubSeq(m, i + 1, n)
  /\ SubSeq(m, 1, n) \o new \in Seq(S) /\ Len(SubSeq(m, 1, n) \o new) = n + Len(new)
  /\ SubSeq(SubSeq(m, 1, n) \o new, i + 1, n + Len(new)) = SubSeq(m, i + 1, n) \o new

LEMMA TailOfPrefix ==
  ASSUME NEW S, NEW m \in Seq(S), NEW n \in 0..Len(m), NEW i \in 0..n, NEW new \in Seq(S)
  PROVE  PutBehind(S, m, n, i, new)
<1> DEFINE p == SubSeq(m, 1, n)
           a == i + 1
           L == n + Len(new)
           w == p \o new
           t == SubSeq(m, a, n)
<1>1. Len(m) \in Nat /\ Len(new) \in Nat /\ n \in Nat /\ i \in Nat /\ n <= Len(m) /\ i <= n
  OBVIOUS
<1>2. p \in Seq(S) /\ Len(p) = n /\ \A x \in 1..n : p[x] = m[x]
  <2>1. \A x \in 1..n : m[x] \in S
    BY <1>1
  <2>2. /\ p \in Seq(S) /\ Len(p) = IF 1 <= n THEN n - 1 + 1 ELSE 0
        /\ \A x \in 1..(n - 1 + 1) : p[x] = m[1 + x - 1]
    BY <1>1, <2>1, SubSeqProperties
  <2> HIDE DEF p
  <2> QED
    BY <1>1, <2>2
<1> HIDE DEF p
<1>3. w \in Seq(S) /\ Len(w) = L /\ \A x \in 1..n : w[x] = m[x]
  <2>1. w \in Seq(S) /\ Len(w) = L
    BY <1>1, <1>2
  <2>2. ASSUME NEW x \in 1..n
        PROVE  w[x] = m[x]
    <3>1. w[x] = p[x]
      BY <1>1, <1>2
    <3> QED
      BY <1>2, <3>1
  <2> QED
    BY <2>1, <2>2
<1>10. \A x \in 1..Len(new) : w[n + x] = new[x]
  BY <1>1, <1>2
<1> HIDE DEF w
<1>4. a \in Int /\ L \in Int /\ a - 1 = i /\ a \in Nat
  BY <1>1
<1>5. /\ t \in Seq(S) /\ Len(t) = n - i
      /\ \A x \in 1..(n - i) : t[x] = m[i + x]
  <2>1. \A x \in a..n : m[x] \in S
    BY <1>1
  <2>2. /\ t \in Seq(S) /\ Len(t) = IF a <= n THEN n - a + 1 ELSE 0
        /\ \A x \in 1..(n - a + 1) : t[x] = m[a + x - 1]
    BY <1>1, <1>4, <2>1, SubSeqProperties
  <2> HIDE DEF t
  <2> QED
    BY <1>1, <2>2
<1>6. LET q == SubSeq(p, a, n)
      IN  q \in Seq(S) /\ Len(q) = n - i /\ \A x \in 1..(n - i) : q[x] = m[i + x]
  <2> DEFINE q == SubSeq(p, a, n)
  <2>1. \A x \in a..n : p[x] \in S
    BY <1>1, <1>2
  <2>2. /\ q \in Seq(S) /\ Len(q) = IF a <= n THEN n - a + 1 ELSE 0
        /\ \A x \in 1..(n - a + 1) : q[x] = p[a + x - 1]
    BY <1>1, <1>4, <2>1, SubSeqProperties
  <2> HIDE DEF q
  <2>3. Len(q) = n - i
    BY <1>1, <2>2
  <2>4. ASSUME NEW x \in 1..(n - i)
        PROVE  q[x] = m[i + x]
    <3>1. x \in 1..(n - a + 1) /\ a + x - 1 = i + x /\ i + x \in 1..n
      BY <1>1
    <3> QED
      BY <1>2, <2>2, <3>1
  <2> QED
    BY <2>2, <2>3, <2>4 DEF q
<1>7. LET q == SubSeq(w, a, L)
      IN  q \in Seq(S) /\ Len(q) = L - i /\ \A x \in 1..(L - i) : q[x] = w[i + x]
  <2> DEFINE q == SubSeq(w, a, L)
  <2>1. \A x \in a..L : w[x] \in S
    BY <1>1, <1>3
  <2>2. /\ q \in Seq(S) /\ Len(q) = IF a <= L THEN L - a + 1 ELSE 0
        /\ \A x \in 1..(L - a + 1) : q[x] = w[a + x - 1]
    BY <1>1, <1>4, <2>1, SubSeqProperties
  <2> HIDE DEF q
  <2>3. Len(q) = L - i
    BY <1>1, <2>2
  <2>4. ASSUME NEW x \in 1..(L - i)
        PROVE  q[x] = w[i + x]
    <3>1. x \in 1..(L - a + 1) /\ a + x - 1 = i + x
      BY <1>1
    <3> QED
      BY <2>2, <3>1
  <2> QED
    BY <2>2, <2>3, <2>4 DEF q
<1>8. SubSeq(p, a, n) = t
  <2> DEFINE q == SubSeq(p, a, n)
  <2>1. q \in Seq(S) /\ Len(q) = n - i /\ \A x \in 1..(n - i) : q[x] = m[i + x]
    BY <1>6
  <2> HIDE DEF q, t
  <2>2. q = t
    BY <1>5, <2>1
  <2> QED
    BY <2>2 DEF q
<1>9. SubSeq(w, a, L) = t \o new
  <2> DEFINE q == SubSeq(w, a, L)
             r == t \o new
  <2>1. q \in Seq(S) /\ Len(q) = L - i /\ \A x \in 1..(L - i) : q[x] = w[i + x]
    BY <1>7
  <2> HIDE DEF q, t
  <2>2. /\ r \in Seq(S) /\ Len(r) = (n - i) + Len(new)
        /\ \A x \in 1..(n - i) : r[x] = t[x]
        /\ \A x \in 1..Len(new) : r[(n - i) + x] = new[x]
    <3> DEFINE e == n - i
    <3>1. t \in Seq(S) /\ Len(t) = e /\ e \in Nat
      BY <1>1, <1>5
    <3> HIDE DEF e
    <3>2. /\ r \in Seq(S) /\ Len(r) = e + Len(new)
          /\ \A x \in 1..e : r[x] = t[x]
          /\ \A x \in 1..Len(new) : r[e + x] = new[x]
      BY <1>1, <3>1, SMTT(30)
    <3> QED
      BY <3>2 DEF e
  <2> HIDE DEF r
  <2>3. ASSUME NEW x \in 1..(L - i)
        PROVE  q[x] = r[x]
    <3>1. q[x] = w[i + x]
      BY <2>1
    <3>2. CASE x <= n - i
      <4>1. x \in 1..(n - i) /\ i + x \in 1..n
        BY <1>1, <3>2
      <4> QED
        BY <1>3, <1>5, <2>2, <3>1, <4>1
    <3>3. CASE x > n - i
      <4> DEFINE y == x - (n - i)
      <4>1. y \in 1..Len(new) /\ (n - i) + y = x /\ n + y = i + x
        BY <1>1, <3>3
      <4> HIDE DEF y
      <4>2. w[n + y] = new[y]
        BY <1>10, <4>1, Zenon
      <4>3. r[(n - i) + y] = new[y]
        BY <2>2, <4>1, Zenon
      <4> QED
        BY <3>1, <4>1, <4>2, <4>3
    <3> QED
      BY <1>1, <3>2, <3>3
  <2>4. Len(q) = Len(r)
    BY <1>1, <2>1, <2>2
  <2>5. q = r
    <3> DEFINE N == L - i
    <3>1. q \in Seq(S) /\ r \in Seq(S) /\ Len(q) = N /\ Len(r) = N /\ \A x \in 1..N : q[x] = r[x]
      BY <2>1, <2>2, <2>3, <2>4, Zenon
    <3> HIDE DEF N
    <3> QED
      BY <3>1
  <2> QED
    BY <2>5 DEF q, r
<1> QED
  BY <1>2, <1>3, <1>8, <1>9 DEF p, w, PutBehind

(* Decoding the block yields what it yields behind the ones before, by     *)
(* itself.                                                                 *)
Yields(frame, j, done) ==
  /\ done \in [ok : BOOLEAN, new : Seq(Nat)]
  /\ ~done.ok => done.new = << >>
  /\ BlocksAlone(frame)[j + 1] = [err |-> IF done.ok THEN "none" ELSE "block",
                                  out |-> BlocksAlone(frame)[j].out \o done.new]

LEMMA BlockDecoded ==
  ASSUME NEW u \in Users, NEW c, NEW h, NEW k, NEW j, AmidInput(c, k, j), array \in [Arrays -> Seq(Nat)],
         AmidHistory(u, c, h, c.src[k + 1], BlocksAlone(c.src[k + 1])[j].out)
  PROVE  LET frame == c.src[k + 1]
             done == Decoded(frame, h, frame.blocks[j + 1])
         IN  Yields(frame, j, done)
<1> DEFINE frame == c.src[k + 1]
           block == frame.blocks[j + 1]
           done == Decoded(frame, h, block)
           acc == BlocksAlone(frame)[j]
           env == Surroundings(frame, h.dict, acc.out)
           result == Executed(env, block)
<1>1. /\ j \in Nat /\ j < Len(frame.blocks) /\ frame \in FrameShape /\ block \in BlockShape
      /\ frame.blocks \in Seq(BlockShape) /\ acc.err = "none" /\ acc.out \in Seq(Nat)
  BY DEF AmidInput
<1>2. /\ h.dict = DictFor(frame, << >>)
      /\ h.ignoreBuffer \in Nat /\ h.b.len \in Nat
      /\ h.b.len <= Len(array[h.b.in])
      /\ SubSeq(array[h.b.in], h.ignoreBuffer + 1, h.b.len) = acc.out
      /\ h.ignoreBuffer <= h.b.len
      /\ h.b.in \in Arrays
  BY ArraysApart DEF AmidHistory
<1>3. BlocksAlone(frame)[j + 1] = BlockAlone(acc, frame, block)
  <2>1. j + 1 \in 1..Len(frame.blocks) /\ (j + 1) - 1 = j
    BY <1>1
  <2> QED
    BY <1>1, <2>1, BlocksUnfold
<1> HIDE DEF frame, block, acc
<1>4. Reachable(h) = acc.out
  <2> DEFINE m == array[h.b.in]
             n == h.b.len
             i == h.ignoreBuffer
  <2>1. m \in Seq(Nat) /\ Len(m) \in Nat
    BY <1>2
  <2>2. Bytes(h.b) = SubSeq(m, 1, n)
    <3>1. Min({n, Len(m)}) = n
      <4>1. n \in Int /\ Len(m) \in Int /\ n <= Len(m)
        BY <1>2, <2>1
      <4> HIDE DEF m, n
      <4> QED
        BY <4>1, MinOfTwo
    <3> QED
      BY <3>1 DEF Bytes
  <2>3. SubSeq(SubSeq(m, 1, n), i + 1, n) = SubSeq(m, i + 1, n)
    <3>1. n \in 0..Len(m) /\ i \in 0..n /\ << >> \in Seq(Nat)
      BY <1>2, <2>1
    <3> HIDE DEF m, n, i
    <3> QED
      BY <2>1, <3>1, TailOfPrefix DEF PutBehind
  <2> QED
    BY <1>2, <2>2, <2>3 DEF Reachable
<1>5. done = BlockOf(frame, result)
  BY <1>4 DEF Decoded
<1>6. BlocksAlone(frame)[j + 1] = [err |-> IF done.ok THEN "none" ELSE "block", out |-> acc.out \o done.new]
  <2> HIDE DEF done
  <2>1. BlockAlone(acc, frame, block) =
          [err |-> IF BlockOf(frame, result).ok THEN "none" ELSE "block", out |-> acc.out \o BlockOf(frame, result).new]
    BY <1>1, <1>2 DEF BlockAlone
  <2> HIDE DEF result
  <2> QED
    BY <1>3, <1>5, <2>1
<1>7. result \in BlockProgress
  <2>1. << >> \in Seq(Nat)
    OBVIOUS
  <2>2. env \in Settings(Nat)
    BY <1>1, <1>2, <2>1, DictForTyped, SurroundingsTyped
  <2> HIDE DEF env
  <2> QED
    BY <1>1, <2>2, ExecutedTyped
<1> HIDE DEF result, done
<1>8. done \in [ok : BOOLEAN, new : Seq(Nat)]
  BY <1>5, <1>7, BlockOfTyped
<1>9. ~done.ok => done.new = << >>
  BY <1>5 DEF BlockOf
<1> QED
  BY <1>6, <1>8, <1>9 DEF done, acc, block, frame, Yields

(* What it yields goes behind the history, and only there is anything that *)
(* a slice shows.                                                          *)
Wrote(w, d, h, new) ==
  LET m == array[h.b.in]
      n == h.b.len + Len(new)
  IN  /\ w \in [Arrays -> Seq(Nat)]
      /\ \A a \in Arrays : a # h.b.in /\ a # DstOf(d) => w[a] = array[a]
      /\ n \in Nat /\ n = Len(w[h.b.in]) /\ h.ignoreBuffer <= n
      /\ w[h.b.in] = SubSeq(m, 1, h.b.len) \o new
      /\ SubSeq(w[h.b.in], h.ignoreBuffer + 1, n) = SubSeq(m, h.ignoreBuffer + 1, h.b.len) \o new
      /\ h.b.len = Len(m) => w[h.b.in] = m \o new

LEMMA BlockWrites ==
  ASSUME NEW u \in Users, NEW c, NEW h, NEW frame, NEW content, AmidHistory(u, c, h, frame, content),
         array \in [Arrays -> Seq(Nat)], NEW block, NEW new \in Seq(Nat)
  PROVE  Wrote(Written(h, block, new), c.d, h, new)
<1> DEFINE d == c.d
           w == Written(h, block, new)
           to == h.b.in
           m == array[to]
           len == h.b.len
           i == h.ignoreBuffer
           n == len + Len(new)
           mem == IF Behind(h, block) \/ block.kind = "raw" THEN array ELSE Extend(array, Slice(h.dst, 0), new)
<1>1. /\ d \in Decoders /\ h.dst = DstOf(d) /\ to \in {u, HistoryOf(d)}
      /\ i \in Nat /\ len \in Nat /\ i <= len /\ len <= Len(m)
  BY DEF AmidHistory
<1>2. to \in Arrays /\ DstOf(d) \in Arrays /\ to # DstOf(d)
  BY <1>1, ArraysApart
<1>3. w = [mem EXCEPT ![to] = SubSeq(mem[to], 1, len) \o new]
  BY DEF Written, Extend
<1> HIDE DEF to, w, len, i, d
<1>4. mem \in [Arrays -> Seq(Nat)] /\ \A a \in Arrays : a # DstOf(d) => mem[a] = array[a]
  <2> DEFINE other == Extend(array, Slice(h.dst, 0), new)
             old == SubSeq(array[DstOf(d)], 1, 0)
  <2>1. Slice(h.dst, 0).in = DstOf(d) /\ Slice(h.dst, 0).len = 0
    BY <1>1 DEF Slice
  <2>2. other = [array EXCEPT ![DstOf(d)] = old \o new]
    BY <1>2, <2>1 DEF Extend
  <2>3. old = << >> /\ << >> \in Seq(Nat)
    BY SubSeqEmpty
  <2> HIDE DEF old
  <2>4. old \o new \in Seq(Nat)
    BY <2>3
  <2> HIDE DEF other
  <2>5. other \in [Arrays -> Seq(Nat)] /\ \A a \in Arrays : a # DstOf(d) => other[a] = array[a]
    BY <1>2, <2>2, <2>4
  <2>6. mem = array \/ mem = other
    BY DEF other
  <2> HIDE DEF mem
  <2> QED
    BY <2>5, <2>6
<1> HIDE DEF mem
<1>5. mem[to] = m /\ m \in Seq(Nat) /\ Len(m) \in Nat /\ len \in 0..Len(m) /\ i \in 0..len
  BY <1>1, <1>2, <1>4
<1> HIDE DEF m
<1>6. /\ SubSeq(m, 1, len) \o new \in Seq(Nat) /\ Len(SubSeq(m, 1, len) \o new) = n
      /\ SubSeq(SubSeq(m, 1, len) \o new, i + 1, n) = SubSeq(m, i + 1, len) \o new
  <2> DEFINE N == Nat
  <2>1. m \in Seq(N) /\ new \in Seq(N) /\ len \in 0..Len(m) /\ i \in 0..len
    BY <1>5
  <2> HIDE DEF N
  <2>2. PutBehind(N, m, len, i, new)
    BY <2>1, TailOfPrefix
  <2> QED
    BY <2>2 DEF N, PutBehind
<1> DEFINE grown == SubSeq(m, 1, len) \o new
<1>7. w = [mem EXCEPT ![to] = grown]
  BY <1>3, <1>5
<1>8. len = Len(m) => grown = m \o new
  <2>1. SubSeq(m, 1, Len(m)) = m
    BY <1>5
  <2> QED
    BY <2>1
<1>9. n \in Nat /\ i <= n
  BY <1>5
<1> HIDE DEF grown, n
<1>10. /\ w \in [Arrays -> Seq(Nat)] /\ w[to] = grown
       /\ \A a \in Arrays : a # to /\ a # DstOf(d) => w[a] = array[a]
  BY <1>2, <1>4, <1>6, <1>7 DEF grown
<1>11. /\ n = Len(w[to]) /\ SubSeq(w[to], i + 1, n) = SubSeq(m, i + 1, len) \o new
  BY <1>6, <1>10 DEF grown
<1> QED
  BY <1>8, <1>9, <1>10, <1>11 DEF Wrote, w, to, m, len, i, n, d, grown

(* Behind the block, whatever comes next. *)
Past(u, c, k, j, ok, new, now, kept, wrote) ==
  LET frame == c.src[k + 1]
      content == BlocksAlone(frame)[j + 1].out
  IN  /\ ok \in BOOLEAN /\ new \in Seq(Nat) /\ (~ok => new = << >>)
      /\ BlocksAlone(frame)[j + 1].err = (IF ok THEN "none" ELSE "block")
      /\ BlocksAlone(frame)[j + 1] \in Outcome
      /\ now \in CallShape /\ now.got = FramesAlone(c.src)[k].out \o content
      /\ now.at = c.at /\ now.op = c.op /\ now.src = c.src /\ now.before = c.before /\ now.rest = c.rest /\ now.blocks = c.blocks
      /\ now.d = c.d /\ now.seen /\ now.saved = Slice(HistoryOf(c.d), 0)
      /\ kept \in DecoderShape /\ kept.dst = DstOf(c.d) /\ kept.dict = DictFor(frame, << >>)
      /\ kept.b.in = (IF c.op = "append" THEN u ELSE HistoryOf(c.d))
      /\ c.op = "stream" => kept.ignoreBuffer = 0
      /\ HistoryIs(kept, wrote[kept.b.in], content) /\ kept.b.len - kept.ignoreBuffer = Len(content)
      /\ wrote \in [Arrays -> Seq(Nat)]
      /\ \A a \in Arrays : a # u /\ a # HistoryOf(c.d) /\ a # DstOf(c.d) => wrote[a] = array[a]
      /\ c.op = "append" => wrote[u] = now.before \o now.got /\ now.out = kept.b
                            /\ kept.b = Slice(u, Len(wrote[u]))

LEMMA KeptTyped ==
  ASSUME NEW c \in CallShape, NEW h \in DecoderShape, NEW new \in Seq(Nat), NEW b \in AnySlice
  PROVE  LET kept == [h EXCEPT !.b = b]
             now == [c EXCEPT !.out = IF c.op = "append" THEN b ELSE @, !.got = @ \o new]
         IN  /\ kept \in DecoderShape /\ kept.b = b
             /\ kept.dst = h.dst /\ kept.dict = h.dict /\ kept.ignoreBuffer = h.ignoreBuffer
             /\ now \in CallShape /\ now.got = c.got \o new
             /\ now.at = c.at /\ now.op = c.op /\ now.src = c.src /\ now.before = c.before /\ now.rest = c.rest /\ now.blocks = c.blocks
             /\ now.d = c.d /\ now.seen = c.seen /\ now.saved = c.saved
             /\ c.op = "append" => now.out = b
<1> DEFINE got == c.got \o new
           out == IF c.op = "append" THEN b ELSE c.out
           now == [c EXCEPT !.out = IF c.op = "append" THEN b ELSE @, !.got = @ \o new]
<1>1. c.got \in Seq(Nat) /\ c.out \in AnySlice
  BY DEF CallShape
<1>2. got \in Seq(Nat) /\ out \in AnySlice
  BY <1>1
<1>3. now = [c EXCEPT !.out = out, !.got = got]
  BY DEF CallShape
<1>4. c.op = "append" => out = b
  OBVIOUS
<1> HIDE DEF got, out, now
<1>5. /\ now \in CallShape /\ now.got = got /\ now.out = out
      /\ now.at = c.at /\ now.op = c.op /\ now.src = c.src /\ now.before = c.before /\ now.rest = c.rest /\ now.blocks = c.blocks
      /\ now.d = c.d /\ now.seen = c.seen /\ now.saved = c.saved
  BY <1>2, <1>3 DEF CallShape
<1>6. LET kept == [h EXCEPT !.b = b]
      IN  /\ kept \in DecoderShape /\ kept.b = b
          /\ kept.dst = h.dst /\ kept.dict = h.dict /\ kept.ignoreBuffer = h.ignoreBuffer
  BY DEF DecoderShape
<1> QED
  BY <1>4, <1>5, <1>6 DEF got, now

LEMMA BytesJoin == \A a, b, c \in Seq(Nat) : (a \o b) \o c = a \o (b \o c)
<1>1. SUFFICES ASSUME NEW a \in Seq(Nat), NEW b \in Seq(Nat), NEW c \in Seq(Nat)
               PROVE  (a \o b) \o c = a \o (b \o c)
  OBVIOUS
<1> QED
  BY ConcatAssociative

LEMMA BlockPast ==
  ASSUME NEW u \in Users, NEW c, NEW h, NEW k, NEW j, AmidInput(c, k, j), array \in [Arrays -> Seq(Nat)],
         AmidHistory(u, c, h, c.src[k + 1], BlocksAlone(c.src[k + 1])[j].out)
  PROVE  LET block == c.src[k + 1].blocks[j + 1]
             done == Decoded(c.src[k + 1], h, block)
             b == Slice(h.b.in, h.b.len + Len(done.new))
         IN  Past(u, c, k, j, done.ok, done.new,
                  [c EXCEPT !.out = IF c.op = "append" THEN b ELSE @, !.got = @ \o done.new],
                  [h EXCEPT !.b = b], Written(h, block, done.new))
<1> DEFINE frame == c.src[k + 1]
           block == frame.blocks[j + 1]
           done == Decoded(frame, h, block)
           ok == done.ok
           new == done.new
           before == BlocksAlone(frame)[j].out
           next == BlocksAlone(frame)[j + 1]
           first == FramesAlone(c.src)[k].out
           content == next.out
           b == Slice(h.b.in, h.b.len + Len(new))
           now == [c EXCEPT !.out = IF c.op = "append" THEN b ELSE @, !.got = @ \o new]
           kept == [h EXCEPT !.b = b]
           wrote == Written(h, block, new)
<1>1. first \in Seq(Nat) /\ before \in Seq(Nat) /\ c.got = first \o before
  BY DEF AmidInput
<1>2. /\ c \in CallShape /\ c.d \in Decoders /\ c.op \in {"append", "stream"}
      /\ c.seen /\ c.saved = Slice(HistoryOf(c.d), 0)
      /\ h \in DecoderShape /\ h.dst = DstOf(c.d) /\ h.dict = DictFor(frame, << >>)
      /\ h.b.in = (IF c.op = "append" THEN u ELSE HistoryOf(c.d))
      /\ h.ignoreBuffer \in Nat /\ h.b.len \in Nat
      /\ h.ignoreBuffer <= h.b.len /\ h.b.len <= Len(array[h.b.in])
      /\ SubSeq(array[h.b.in], h.ignoreBuffer + 1, h.b.len) = before
      /\ c.op = "append" => array[u] = c.before \o c.got /\ h.b = c.out /\ h.b.len = Len(array[u])
      /\ c.op = "stream" => h.ignoreBuffer = 0
  BY DEF AmidHistory
<1>3. /\ done \in [ok : BOOLEAN, new : Seq(Nat)]
      /\ ~done.ok => done.new = << >>
      /\ next = [err |-> IF done.ok THEN "none" ELSE "block", out |-> before \o done.new]
  <2>1. Yields(frame, j, done)
    BY BlockDecoded
  <2> QED
    BY <2>1 DEF Yields
<1> HIDE DEF done, next, before, first, frame
<1>4. /\ ok \in BOOLEAN /\ new \in Seq(Nat) /\ (~ok => new = << >>)
      /\ next.err = (IF ok THEN "none" ELSE "block") /\ content = before \o new
  BY <1>3
<1> HIDE DEF ok, new
<1>5. Wrote(wrote, c.d, h, new)
  BY <1>4, BlockWrites DEF frame, before
<1> HIDE DEF wrote, block
<1>6. /\ wrote \in [Arrays -> Seq(Nat)]
      /\ \A a \in Arrays : a # h.b.in /\ a # DstOf(c.d) => wrote[a] = array[a]
      /\ h.b.len + Len(new) \in Nat /\ h.b.len + Len(new) = Len(wrote[h.b.in])
      /\ h.ignoreBuffer <= h.b.len + Len(new)
      /\ SubSeq(wrote[h.b.in], h.ignoreBuffer + 1, h.b.len + Len(new)) = content
      /\ h.b.len = Len(array[h.b.in]) => wrote[h.b.in] = array[h.b.in] \o new
  BY <1>2, <1>4, <1>5 DEF Wrote
<1>7. b.in = h.b.in /\ b.len = h.b.len + Len(new) /\ b \in AnySlice
  <2>1. h.b.in \in Arrays
    BY <1>2, ArraysApart
  <2> QED
    BY <1>6, <2>1 DEF Slice, AnySlice
<1> HIDE DEF b
<1>8. /\ kept \in DecoderShape /\ kept.b = b
      /\ kept.dst = h.dst /\ kept.dict = h.dict /\ kept.ignoreBuffer = h.ignoreBuffer
      /\ now \in CallShape /\ now.got = c.got \o new
      /\ now.at = c.at /\ now.op = c.op /\ now.src = c.src /\ now.before = c.before /\ now.rest = c.rest /\ now.blocks = c.blocks
      /\ now.d = c.d /\ now.seen = c.seen /\ now.saved = c.saved
      /\ c.op = "append" => now.out = b
  BY <1>2, <1>4, <1>7, KeptTyped
<1> HIDE DEF now, kept
<1>9. now.got = first \o content
  <2>1. (first \o before) \o new = first \o (before \o new)
    BY <1>1, <1>4, BytesJoin
  <2> HIDE DEF content
  <2> QED
    BY <1>1, <1>4, <1>8, <2>1, Zenon
<1>10. next \in Outcome
  <2>1. before \o new \in Seq(Nat) /\ (IF done.ok THEN "none" ELSE "block") \in Errors
    BY <1>1, <1>4 DEF Errors
  <2> QED
    BY <1>3, <1>4, <2>1 DEF Outcome, new
<1>11. HistoryIs(kept, wrote[kept.b.in], content)
  BY <1>6, <1>7, <1>8 DEF HistoryIs
<1>12. kept.b.len - kept.ignoreBuffer = Len(content)
  <2> DEFINE n == h.b.len + Len(new)
             i == h.ignoreBuffer
             m == wrote[h.b.in]
  <2>1. i \in Nat /\ n \in Nat /\ i <= n /\ n = Len(m) /\ m \in Seq(Nat) /\ content = SubSeq(m, i + 1, n)
    <3>1. h.b.in \in Arrays
      BY <1>2, ArraysApart
    <3> QED
      BY <1>2, <1>6, <3>1
  <2>2. kept.b.len = n /\ kept.ignoreBuffer = i
    BY <1>7, <1>8
  <2> HIDE DEF n, i, m, content
  <2>3. Len(SubSeq(m, i + 1, n)) = n - i
    <3>1. i + 1 \in 1..(n + 1) /\ n - (i + 1) + 1 = n - i
      BY <2>1
    <3> QED
      BY <2>1, <3>1
  <2> QED
    BY <2>1, <2>2, <2>3
<1>13. ASSUME c.op = "append"
       PROVE  wrote[u] = now.before \o now.got /\ now.out = kept.b /\ kept.b = Slice(u, Len(wrote[u]))
  <2>1. h.b.in = u /\ h.b.len = Len(array[u]) /\ array[u] = c.before \o c.got
    BY <1>2, <1>13
  <2>2. wrote[u] = array[u] \o new
    BY <1>6, <2>1
  <2>3. c.before \in Seq(Nat) /\ c.got \in Seq(Nat)
    BY <1>2 DEF CallShape
  <2>4. (c.before \o c.got) \o new = c.before \o (c.got \o new)
    BY <1>4, <2>3, BytesJoin
  <2>5. b = Slice(u, Len(wrote[u]))
    BY <1>6, <2>1 DEF b
  <2> QED
    BY <1>8, <1>13, <2>1, <2>2, <2>4, <2>5
<1>14. \A a \in Arrays : a # u /\ a # HistoryOf(c.d) /\ a # DstOf(c.d) => wrote[a] = array[a]
  BY <1>2, <1>6
<1>15. kept.b.in = (IF c.op = "append" THEN u ELSE HistoryOf(c.d)) /\ (c.op = "stream" => kept.ignoreBuffer = 0)
  BY <1>2, <1>7, <1>8
<1>16. Past(u, c, k, j, ok, new, now, kept, wrote)
  BY <1>2, <1>4, <1>6, <1>8, <1>9, <1>10, <1>11, <1>12, <1>13, <1>14, <1>15 DEF Past, frame, next, first
<1> QED
  BY <1>16 DEF ok, new, now, kept, wrote, b, done, frame, block

(* What ends the frame is what ends it by itself. *)
LEMMA FrameOver ==
  ASSUME NEW u, NEW c, NEW k, NEW j, NEW ok, NEW new, NEW now, NEW kept, NEW wrote, NEW err,
         AmidInput(c, k, j), Past(u, c, k, j, ok, new, now, kept, wrote), ~ok \/ Len(c.blocks) = 1,
         err = (IF ~ok THEN "block" ELSE FrameError(c.src[k + 1], kept.b.len - kept.ignoreBuffer))
  PROVE  /\ FrameAlone(c.src[k + 1]) = [err |-> err, out |-> BlocksAlone(c.src[k + 1])[j + 1].out]
         /\ err \in Errors
<1> DEFINE frame == c.src[k + 1]
           after == BlocksAlone(frame)
           content == after[j + 1].out
           N == Len(frame.blocks)
<1>1. /\ j \in Nat /\ j < N /\ frame \in FrameShape /\ frame.blocks \in Seq(BlockShape)
      /\ HeaderError(frame) = "none" /\ Len(c.blocks) = N - j
  BY DEF AmidInput
<1>2. /\ ok \in BOOLEAN /\ after[j + 1].err = (IF ok THEN "none" ELSE "block") /\ after[j + 1] \in Outcome
      /\ kept.b.len - kept.ignoreBuffer = Len(content)
  BY DEF Past
<1>3. N \in Nat /\ j + 1 \in 0..N
  BY <1>1
<1> HIDE DEF frame
<1>4. FrameAlone(frame) = IF after[N].err # "none" THEN after[N]
                          ELSE [after[N] EXCEPT !.err = FrameError(frame, Len(after[N].out))]
  BY <1>1 DEF FrameAlone
<1>5. err \in Errors
  BY DEF Errors, FrameError
<1>6. CASE ~ok
  <2>1. after[N] = after[j + 1] /\ err = "block"
    BY <1>1, <1>2, <1>3, <1>6, BlocksSettle
  <2>2. after[j + 1] = [err |-> "block", out |-> content]
    BY <1>2, <1>6 DEF Outcome
  <2> HIDE DEF after
  <2>3. FrameAlone(frame) = after[j + 1]
    BY <1>2, <1>4, <1>6, <2>1
  <2> QED
    BY <1>5, <2>1, <2>2, <2>3 DEF after, frame
<1>7. CASE ok
  <2>1. N = j + 1
    BY <1>1, <1>3, <1>7
  <2>2. err = FrameError(frame, Len(content))
    BY <1>2, <1>7 DEF frame
  <2> DEFINE last == after[j + 1]
  <2>3. last.err = "none" /\ last \in Outcome /\ content = last.out
    BY <1>2, <1>7
  <2> HIDE DEF last, content
  <2>4. FrameAlone(frame) = [last EXCEPT !.err = FrameError(frame, Len(last.out))]
    BY <1>4, <2>1, <2>3 DEF last
  <2>5. FrameAlone(frame) = [last EXCEPT !.err = err]
    BY <2>2, <2>3, <2>4
  <2>6. FrameAlone(frame) = [err |-> err, out |-> content]
    BY <2>3, <2>5 DEF Outcome
  <2> QED
    BY <1>5, <2>6 DEF frame, content
<1> QED
  BY <1>2, <1>6, <1>7

(* The call that is decoding. *)
LEMMA AmidCall ==
  ASSUME OneShotInv, NEW u \in Users, call[u].at = "blocks"
  PROVE  /\ call[u].d \in Decoders /\ call[u].op \in {"append", "stream"} /\ call[u].src \in Inputs
         /\ call[u] \in CallShape /\ call[u].at \in Holding /\ call \in [Users -> CallShape]
         /\ decoder \in [Decoders -> DecoderShape] /\ array \in [Arrays -> Seq(Nat)]
<1>1. Typed /\ Apart /\ Exact
  BY DEF OneShotInv, Lending
<1>2. call[u] \in CallShape /\ call[u].d \in Decoders /\ Begun(u, call[u], array[u])
  BY <1>1 DEF Typed, Apart, Exact, Holding
<1>3. call[u].op \in {"append", "stream"} /\ call[u].src \in Inputs
  BY <1>2 DEF Begun, CallShape, Holding
<1> QED
  BY <1>1, <1>2, <1>3 DEF Typed, Holding

(* Another block follows. *)
LEMMA NextBlockKeeps ==
  ASSUME OneShotInv, NEW u \in Users, call[u].at = "blocks",
         NEW k, NEW j, NEW ok, NEW new, NEW now, NEW kept, NEW wrote,
         AmidInput(call[u], k, j), Past(u, call[u], k, j, ok, new, now, kept, wrote),
         ok, Len(call[u].blocks) # 1,
         reader' = reader, pool' = pool, array' = wrote,
         decoder' = [decoder EXCEPT ![call[u].d] = kept],
         call' = [call EXCEPT ![u] = [now EXCEPT !.blocks = Tail(@)]]
  PROVE  OneShotInv'
<1> DEFINE c == call[u]
           d == c.d
           frame == c.src[k + 1]
           blocks == Remaining(frame.blocks, j + 1)
           e == [now EXCEPT !.blocks = blocks]
           content == BlocksAlone(frame)[j + 1].out
<1>1. Lending /\ Typed /\ Ready /\ Apart /\ OwnArrays /\ Exact
  BY DEF OneShotInv, Lending
<1>2. /\ d \in Decoders /\ c.op \in {"append", "stream"} /\ c.src \in Inputs /\ c.at = "blocks" /\ c.at \in Holding
      /\ decoder \in [Decoders -> DecoderShape]
  BY AmidCall
<1>3. /\ k \in Nat /\ j \in Nat /\ k < Len(c.src) /\ j < Len(frame.blocks) /\ Len(c.src) \in Nat
      /\ frame.blocks \in Seq(BlockShape)
      /\ c.rest = Remaining(c.src, k) /\ HeaderError(frame) = "none"
      /\ Tail(c.blocks) = blocks /\ Len(c.blocks) = Len(frame.blocks) - j
      /\ FramesAlone(c.src)[k].err = "none"
  BY DEF AmidInput
<1>4. /\ BlocksAlone(frame)[j + 1].err = "none"
      /\ now \in CallShape /\ now.got = FramesAlone(c.src)[k].out \o content
      /\ now.at = c.at /\ now.op = c.op /\ now.src = c.src /\ now.before = c.before /\ now.rest = c.rest
      /\ now.blocks = c.blocks /\ now.d = c.d /\ now.seen /\ now.saved = Slice(HistoryOf(c.d), 0)
      /\ kept \in DecoderShape /\ kept.dst = DstOf(c.d) /\ kept.dict = DictFor(frame, << >>)
      /\ kept.b.in = (IF c.op = "append" THEN u ELSE HistoryOf(c.d))
      /\ c.op = "stream" => kept.ignoreBuffer = 0
      /\ HistoryIs(kept, wrote[kept.b.in], content)
      /\ wrote \in [Arrays -> Seq(Nat)]
      /\ \A a \in Arrays : a # u /\ a # HistoryOf(c.d) /\ a # DstOf(c.d) => wrote[a] = array[a]
      /\ c.op = "append" => wrote[u] = now.before \o now.got /\ now.out = kept.b
                            /\ kept.b = Slice(u, Len(wrote[u]))
  BY DEF Past
<1>5. call' = [call EXCEPT ![u] = e] /\ call[u].d = d
  BY <1>3, <1>4 DEF CallShape
<1>6. Len(frame.blocks) \in Nat /\ j + 1 \in 0..(Len(frame.blocks) - 1) /\ j + 1 \in 0..Len(frame.blocks)
  BY <1>3, SMTT(30)
<1> HIDE DEF frame, c, content
<1>7. blocks \in Seq(BlockShape)
  BY <1>3, <1>6, Remainder
<1> HIDE DEF blocks
<1>8. /\ e \in CallShape /\ e.blocks = blocks /\ e.at = "blocks" /\ e.op = c.op /\ e.src = c.src
      /\ e.before = c.before /\ e.rest = c.rest /\ e.d = d /\ e.seen /\ e.saved = Slice(HistoryOf(d), 0)
      /\ e.got = now.got /\ e.out = now.out
  BY <1>2, <1>4, <1>7 DEF CallShape
<1> HIDE DEF e, d
<1>9. Steps(u) /\ call'[u] = e
  BY <1>1, <1>5, <1>8, StepsTo
<1>10. /\ decoder' \in [Decoders -> DecoderShape] /\ decoder'[d] = kept
       /\ \A x \in Decoders : x # d => decoder'[x] = decoder[x]
  BY <1>2, <1>4, <1>5
<1>11. Begun(u, e, wrote[u])
  BY <1>2, <1>4, <1>8, ZenonT(30) DEF Begun, Holding
<1>12. InBlocks(e, k, j + 1)
  <2>1. k \in 0..(Len(c.src) - 1)
    BY <1>3
  <2> QED
    BY <1>3, <1>4, <1>6, <1>8, <2>1 DEF InBlocks, frame, blocks, content
<1>13. Running(u, e, kept, wrote[u], wrote[HistoryOf(d)])
  <2>1. j + 1 \in Nat /\ k \in Nat
    BY <1>3
  <2>2. HistoryIs(kept, IF e.op = "append" THEN wrote[u] ELSE wrote[HistoryOf(d)], content)
    <3>1. CASE c.op = "append"
      BY <1>4, <1>8, <3>1
    <3>2. CASE c.op = "stream"
      BY <1>4, <1>8, <3>2 DEF d
    <3> QED
      BY <1>2, <3>1, <3>2
  <2>3. kept.dict = DictFor(e.src[k + 1], << >>) /\ content = BlocksAlone(e.src[k + 1])[j + 1].out
    BY <1>4, <1>8 DEF frame, content
  <2>4. /\ e.seen /\ e.saved = Slice(HistoryOf(e.d), 0)
        /\ e.op = "append" => kept.b = e.out
        /\ e.op = "stream" => kept.b.in = HistoryOf(e.d) /\ kept.ignoreBuffer = 0
    BY <1>4, <1>8 DEF d
  <2> HIDE DEF content
  <2> QED
    BY <1>12, <2>1, <2>2, <2>3, <2>4 DEF Running
<1>14. kept.b.in = HistoryOf(d) \/ (e.at = "blocks" /\ e.op = "append")
  BY <1>2, <1>4, <1>8 DEF d
<1>15. call[u].at \in Holding /\ e.at \in Holding /\ e.d = call[u].d
  BY <1>2, <1>8 DEF Holding, c, d
<1>16. GoingOn(u, e)
  <2>1. reader' = reader /\ pool' = pool /\ array' = wrote
    OBVIOUS
  <2>2. e.d = d /\ e \in CallShape /\ kept.dst = DstOf(d)
    BY <1>4, <1>8 DEF d
  <2>3. /\ wrote \in [Arrays -> Seq(Nat)]
        /\ \A a \in Arrays : a # u /\ a # HistoryOf(d) /\ a # DstOf(d) => wrote[a] = array[a]
    BY <1>4 DEF d
  <2> QED
    BY <1>9, <1>10, <1>11, <1>13, <1>14, <1>15, <2>1, <2>2, <2>3, ZenonT(30) DEF GoingOn
<1> QED
  BY <1>16, GoesOnKeeps

(* runDecoder gives the decoder its own history back. *)
Restores(u, d, kept) ==
  /\ d \in Decoders /\ kept \in DecoderShape /\ kept.dst = DstOf(d)
  /\ call[u].op \in {"append", "stream"} /\ call[u].saved = Slice(HistoryOf(d), 0)
  /\ call[u].op = "stream" => kept.b.in = HistoryOf(d)

Own(h, d) == h \in DecoderShape /\ h.dst = DstOf(d) /\ h.b.in = HistoryOf(d)

LEMMA AfterFrameTyped ==
  ASSUME NEW u, NEW d, NEW kept, Restores(u, d, kept)
  PROVE  Own(AfterFrame(u, kept), d)
<1> DEFINE c == call[u]
           after == AfterFrame(u, kept)
<1>1. /\ d \in Decoders /\ kept \in DecoderShape /\ kept.dst = DstOf(d)
      /\ c.op \in {"append", "stream"} /\ c.saved = Slice(HistoryOf(d), 0)
      /\ c.op = "stream" => kept.b.in = HistoryOf(d)
  BY DEF Restores
<1>2. Slice(HistoryOf(d), 0) \in AnySlice /\ Slice(HistoryOf(d), 0).in = HistoryOf(d)
  BY <1>1, ArraysApart DEF Slice, AnySlice
<1>3. CASE c.op = "append"
  <2>1. after = [kept EXCEPT !.b = Slice(HistoryOf(d), 0)]
    BY <1>1, <1>3 DEF AfterFrame
  <2> QED
    BY <1>1, <1>2, <2>1 DEF DecoderShape, Own
<1>4. CASE c.op = "stream"
  <2>1. after = kept
    BY <1>4 DEF AfterFrame
  <2> QED
    BY <1>1, <1>4, <2>1 DEF Own
<1> QED
  BY <1>1, <1>3, <1>4

(* The frame is complete: the next header follows, or the end. *)
LEMMA FrameDoneKeeps ==
  ASSUME OneShotInv, NEW u \in Users, call[u].at = "blocks",
         NEW k, NEW j, NEW ok, NEW new, NEW now, NEW kept, NEW wrote, NEW err,
         AmidInput(call[u], k, j), Past(u, call[u], k, j, ok, new, now, kept, wrote),
         ~ok \/ Len(call[u].blocks) = 1,
         err = (IF ~ok THEN "block" ELSE FrameError(call[u].src[k + 1], kept.b.len - kept.ignoreBuffer)),
         err = "none",
         reader' = reader, pool' = pool, array' = wrote,
         decoder' = [decoder EXCEPT ![call[u].d] = AfterFrame(u, kept)],
         call' = [call EXCEPT ![u] = [now EXCEPT !.at = "header", !.rest = Tail(@), !.blocks = << >>]]
  PROVE  OneShotInv'
<1> DEFINE c == call[u]
           d == c.d
           frame == c.src[k + 1]
           rest == Remaining(c.src, k + 1)
           e == [now EXCEPT !.at = "header", !.rest = rest, !.blocks = << >>]
           content == BlocksAlone(frame)[j + 1].out
           left == AfterFrame(u, kept)
<1>1. Lending /\ Typed /\ Ready /\ Apart /\ OwnArrays /\ Exact
  BY DEF OneShotInv, Lending
<1>2. /\ d \in Decoders /\ c.op \in {"append", "stream"} /\ c.src \in Inputs /\ c.at = "blocks" /\ c.at \in Holding
      /\ decoder \in [Decoders -> DecoderShape]
  BY AmidCall
<1>3. /\ k \in Nat /\ k < Len(c.src) /\ Len(c.src) \in Nat /\ Tail(c.rest) = rest
      /\ FramesAlone(c.src)[k].err = "none"
  BY DEF AmidInput
<1>4. /\ now \in CallShape /\ now.got = FramesAlone(c.src)[k].out \o content
      /\ now.op = c.op /\ now.src = c.src /\ now.before = c.before /\ now.rest = c.rest
      /\ now.d = c.d /\ now.seen /\ now.saved = Slice(HistoryOf(c.d), 0)
      /\ kept \in DecoderShape /\ kept.dst = DstOf(c.d)
      /\ kept.b.in = (IF c.op = "append" THEN u ELSE HistoryOf(c.d))
      /\ wrote \in [Arrays -> Seq(Nat)]
      /\ \A a \in Arrays : a # u /\ a # HistoryOf(c.d) /\ a # DstOf(c.d) => wrote[a] = array[a]
      /\ c.op = "append" => wrote[u] = now.before \o now.got /\ now.out = kept.b
                            /\ kept.b = Slice(u, Len(wrote[u]))
  BY DEF Past
<1>5. call' = [call EXCEPT ![u] = e] /\ call[u].d = d
  BY <1>3, <1>4 DEF CallShape
<1>6. left \in DecoderShape /\ left.dst = DstOf(d) /\ left.b.in = HistoryOf(d)
  <2>1. c.saved = Slice(HistoryOf(d), 0)
    <3>1. Running(u, c, decoder[c.d], array[u], array[HistoryOf(c.d)])
      BY <1>1, <1>2 DEF Exact, At
    <3> QED
      BY <3>1 DEF Running
  <2>2. Restores(u, d, kept)
    BY <1>2, <1>4, <2>1 DEF Restores
  <2>3. Own(left, d)
    BY <2>2, AfterFrameTyped
  <2> HIDE DEF left
  <2> QED
    BY <2>3 DEF Own
<1>7. FrameAlone(frame) = [err |-> "none", out |-> content]
  BY FrameOver
<1>8. FramesAlone(c.src)[k + 1] = [err |-> "none", out |-> now.got]
  <2>1. FramesAlone(c.src)[k + 1] = [err |-> FrameAlone(frame).err,
                                     out |-> FramesAlone(c.src)[k].out \o FrameAlone(frame).out]
    BY <1>2, <1>3, NextFrame
  <2>2. now.got = FramesAlone(c.src)[k].out \o content
    BY <1>4
  <2> HIDE DEF frame, content, c
  <2>3. FrameAlone(frame).err = "none" /\ FrameAlone(frame).out = content
    BY <1>7
  <2> QED
    BY <2>1, <2>2, <2>3, Zenon
<1> HIDE DEF frame, c, content, left
<1>9. rest \in Seq(SoundFrame) /\ << >> \in Seq(BlockShape) /\ k + 1 \in 0..Len(c.src)
  <2>1. c.src \in Seq(SoundFrame) /\ k + 1 \in 0..Len(c.src)
    BY <1>2, <1>3, InputTyped
  <2> QED
    BY <2>1, Remainder
<1> HIDE DEF rest
<1>10. /\ e \in CallShape /\ e.at = "header" /\ e.op = c.op /\ e.src = c.src
       /\ e.before = c.before /\ e.rest = rest /\ e.d = d /\ e.seen
       /\ e.got = now.got /\ e.out = now.out
  BY <1>2, <1>4, <1>9 DEF CallShape
<1> HIDE DEF e, d
<1>11. Steps(u) /\ call'[u] = e
  BY <1>1, <1>5, <1>10, StepsTo
<1>12. /\ decoder' \in [Decoders -> DecoderShape] /\ decoder'[d] = left
       /\ \A x \in Decoders : x # d => decoder'[x] = decoder[x]
  BY <1>2, <1>5, <1>6 DEF left
<1>13. Begun(u, e, wrote[u])
  <2>1. InFrames(e, k + 1)
    BY <1>8, <1>9, <1>10 DEF InFrames, rest
  <2>2. e.seen = (k + 1 > 0)
    <3>1. (k + 1 > 0) = TRUE
      BY <1>3
    <3>2. e.seen \in BOOLEAN
      BY <1>10 DEF CallShape
    <3>3. e.seen = TRUE
      BY <1>10, <3>2
    <3> QED
      BY <3>1, <3>3, Zenon
  <2>3. \E x \in 0..Len(e.src) : InFrames(e, x) /\ e.seen = (x > 0)
    BY <1>9, <1>10, <2>1, <2>2, Zenon
  <2> QED
    BY <1>2, <1>4, <1>10, <2>3, ZenonT(30) DEF Begun, Holding
<1>14. call[u].at \in Holding /\ e.at \in Holding /\ e.d = call[u].d /\ e.at # "blocks"
  BY <1>2, <1>10 DEF Holding, c, d
<1>15. GoingOn(u, e)
  <2>1. reader' = reader /\ pool' = pool /\ array' = wrote
    OBVIOUS
  <2>2. e.d = d /\ e \in CallShape /\ left.dst = DstOf(d) /\ left.b.in = HistoryOf(d)
    BY <1>6, <1>10
  <2>3. /\ wrote \in [Arrays -> Seq(Nat)]
        /\ \A a \in Arrays : a # u /\ a # HistoryOf(d) /\ a # DstOf(d) => wrote[a] = array[a]
    BY <1>4 DEF d
  <2> QED
    BY <1>11, <1>12, <1>13, <1>14, <2>1, <2>2, <2>3, ZenonT(30) DEF GoingOn
<1> QED
  BY <1>15, GoesOnKeeps

(* The frame is damaged: the call returns. *)
LEMMA FrameFailsKeeps ==
  ASSUME OneShotInv, NEW u \in Users, call[u].at = "blocks",
         NEW k, NEW j, NEW ok, NEW new, NEW now, NEW kept, NEW wrote, NEW err,
         AmidInput(call[u], k, j), Past(u, call[u], k, j, ok, new, now, kept, wrote),
         ~ok \/ Len(call[u].blocks) = 1,
         err = (IF ~ok THEN "block" ELSE FrameError(call[u].src[k + 1], kept.b.len - kept.ignoreBuffer)),
         err # "none",
         reader' = reader, array' = Forget(wrote, call[u].d), Return(u, now, err),
         decoder' = [decoder EXCEPT ![call[u].d] = Left(u, AfterFrame(u, kept))]
  PROVE  OneShotInv'
<1> DEFINE c == call[u]
           d == c.d
           frame == c.src[k + 1]
           content == BlocksAlone(frame)[j + 1].out
           after == AfterFrame(u, kept)
           left == Left(u, after)
<1>1. Lending /\ Typed /\ Ready /\ Apart /\ OwnArrays /\ Exact
  BY DEF OneShotInv, Lending
<1>2. /\ d \in Decoders /\ c.op \in {"append", "stream"} /\ c.src \in Inputs /\ c.at = "blocks" /\ c.at \in Holding
      /\ decoder \in [Decoders -> DecoderShape]
  BY AmidCall
<1>3. /\ k \in Nat /\ k < Len(c.src) /\ FramesAlone(c.src)[k].err = "none"
  BY DEF AmidInput
<1>4. /\ now \in CallShape /\ now.got = FramesAlone(c.src)[k].out \o content
      /\ now.op = c.op /\ now.src = c.src /\ now.before = c.before /\ now.d = c.d
      /\ kept \in DecoderShape /\ kept.dst = DstOf(c.d)
      /\ kept.b.in = (IF c.op = "append" THEN u ELSE HistoryOf(c.d))
      /\ wrote \in [Arrays -> Seq(Nat)]
      /\ \A a \in Arrays : a # u /\ a # HistoryOf(c.d) /\ a # DstOf(c.d) => wrote[a] = array[a]
      /\ c.op = "append" => wrote[u] = now.before \o now.got /\ now.out = kept.b
                            /\ kept.b = Slice(u, Len(wrote[u]))
  BY DEF Past
<1>5. left \in DecoderShape /\ left.dst = DstOf(d) /\ left.b.in = HistoryOf(d)
  <2>1. c.saved = Slice(HistoryOf(d), 0)
    <3>1. Running(u, c, decoder[c.d], array[u], array[HistoryOf(c.d)])
      BY <1>1, <1>2 DEF Exact, At
    <3> QED
      BY <3>1 DEF Running
  <2>2. Own(after, d)
    <3>1. Restores(u, d, kept)
      BY <1>2, <1>4, <2>1 DEF Restores
    <3> QED
      BY <3>1, AfterFrameTyped
  <2> HIDE DEF after
  <2>3. after \in DecoderShape /\ after.dst = DstOf(d) /\ after.b.in = HistoryOf(d)
    BY <2>2 DEF Own
  <2> QED
    BY <2>3, LeftTyped
<1>6. FrameAlone(frame) = [err |-> err, out |-> content] /\ err \in Errors
  BY FrameOver
<1>7. InputAlone(c.src) = [err |-> err, out |-> now.got]
  <2>1. FrameAlone(frame).err # "none"
    BY <1>6
  <2>2. InputAlone(c.src) = [err |-> FrameAlone(frame).err,
                             out |-> FramesAlone(c.src)[k].out \o FrameAlone(frame).out]
    BY <1>2, <1>3, <2>1, NextFrame
  <2>3. now.got = FramesAlone(c.src)[k].out \o content
    BY <1>4
  <2> HIDE DEF frame, content, c
  <2>4. FrameAlone(frame).err = err /\ FrameAlone(frame).out = content
    BY <1>6
  <2> QED
    BY <2>2, <2>3, <2>4, Zenon
<1>8. call[u].at \in Holding /\ now.d = call[u].d
  BY <1>2, <1>4
<1>9. decoder' = [decoder EXCEPT ![d] = left] /\ array' = Forget(wrote, d)
  OBVIOUS
<1> HIDE DEF c, d, frame, content, left
<1>10. /\ decoder' \in [Decoders -> DecoderShape] /\ decoder'[d] = left
       /\ \A x \in Decoders : x # d => decoder'[x] = decoder[x]
  BY <1>2, <1>5, <1>9
<1>11. /\ array' \in [Arrays -> Seq(Nat)]
       /\ \A a \in Arrays : a # HistoryOf(d) /\ a # DstOf(d) => array'[a] = wrote[a]
  BY <1>2, <1>4, <1>9, Forgets
<1>12. \A a \in Arrays : a # u /\ a # HistoryOf(d) /\ a # DstOf(d) => array'[a] = array[a]
  BY <1>4, <1>11 DEF d
<1>13. now.op = "append" => array'[u] = now.before \o now.got /\ now.out = Slice(u, Len(array'[u]))
  <2>1. array'[u] = wrote[u]
    BY <1>2, <1>11, ArraysApart
  <2> QED
    BY <1>4, <2>1
<1>14. now.d = d
  BY <1>4 DEF d
<1>15. Returning(u, now, err)
  BY <1>2, <1>4, <1>5, <1>6, <1>7, <1>8, <1>10, <1>11, <1>12, <1>13, <1>14 DEF Returning
<1> QED
  BY <1>15, Returns

LEMMA DecodeBlockKeeps ==
  ASSUME OneShotInv, NEW u \in Users, DecodeBlock(u)
  PROVE  OneShotInv'
<1> DEFINE c == call[u]
           h == decoder[c.d]
           frame == Head(c.rest)
           block == Head(c.blocks)
           done == Decoded(frame, h, block)
           b == Slice(h.b.in, h.b.len + Len(done.new))
           kept == [h EXCEPT !.b = b]
           over == ~done.ok \/ Len(c.blocks) = 1
           err == IF ~done.ok THEN "block" ELSE FrameError(frame, b.len - h.ignoreBuffer)
           now == [c EXCEPT !.out = IF c.op = "append" THEN b ELSE @, !.got = @ \o done.new]
           wrote == Written(h, block, done.new)
<1>1. c.at = "blocks" /\ reader' = reader
  BY DEF DecodeBlock, At
<1>2. array' = IF over /\ err # "none" THEN Forget(wrote, c.d) ELSE wrote
  BY Zenon DEF DecodeBlock
<1>3. \/ /\ ~over
         /\ decoder' = [decoder EXCEPT ![c.d] = kept]
         /\ call' = [call EXCEPT ![u] = [now EXCEPT !.blocks = Tail(@)]]
         /\ pool' = pool
      \/ /\ over /\ err = "none"
         /\ decoder' = [decoder EXCEPT ![c.d] = AfterFrame(u, kept)]
         /\ call' = [call EXCEPT ![u] = [now EXCEPT !.at = "header", !.rest = Tail(@), !.blocks = << >>]]
         /\ pool' = pool
      \/ /\ over /\ err # "none"
         /\ decoder' = [decoder EXCEPT ![c.d] = Left(u, AfterFrame(u, kept))]
         /\ Return(u, now, err)
  BY Zenon DEF DecodeBlock
<1>4. PICK k, j \in Nat :
        /\ AmidInput(c, k, j)
        /\ AmidHistory(u, c, h, c.src[k + 1], BlocksAlone(c.src[k + 1])[j].out)
  BY <1>1, AmidBlocks
<1>5. frame = c.src[k + 1] /\ block = frame.blocks[j + 1]
  BY <1>4 DEF AmidInput
<1>6. array \in [Arrays -> Seq(Nat)] /\ h \in DecoderShape
  BY <1>1, AmidCall
<1>7. Past(u, c, k, j, done.ok, done.new, now, kept, wrote)
  <2> DEFINE frame0 == c.src[k + 1]
             block0 == frame0.blocks[j + 1]
             done0 == Decoded(frame0, h, block0)
             b0 == Slice(h.b.in, h.b.len + Len(done0.new))
  <2>1. Past(u, c, k, j, done0.ok, done0.new,
             [c EXCEPT !.out = IF c.op = "append" THEN b0 ELSE @, !.got = @ \o done0.new],
             [h EXCEPT !.b = b0], Written(h, block0, done0.new))
    BY <1>4, <1>6, BlockPast
  <2>2. frame0 = frame /\ block0 = block
    BY <1>5
  <2> HIDE DEF frame, block, frame0, block0, c, h
  <2>3. done0 = done
    BY <2>2, Zenon
  <2> HIDE DEF done, done0
  <2>4. b0 = b
    BY <2>3, Zenon
  <2> HIDE DEF b, b0
  <2> QED
    BY <2>1, <2>2, <2>3, <2>4, Zenon
<1>8. kept.b.len = b.len /\ kept.ignoreBuffer = h.ignoreBuffer
  <2> HIDE DEF b, h
  <2> QED
    BY <1>6 DEF DecoderShape
<1>9. err = IF ~done.ok THEN "block" ELSE FrameError(c.src[k + 1], kept.b.len - kept.ignoreBuffer)
  <2> HIDE DEF done, frame, b, kept, h
  <2> QED
    BY <1>5, <1>8
<1> HIDE DEF wrote, kept, now, b, done, block, frame, h, err
<1>10. CASE ~over
  <2> DEFINE ok == done.ok
             new == done.new
  <2>1. ok /\ Len(c.blocks) # 1
    BY <1>10
  <2>2. /\ AmidInput(c, k, j) /\ Past(u, c, k, j, ok, new, now, kept, wrote)
        /\ reader' = reader /\ pool' = pool /\ array' = wrote
        /\ decoder' = [decoder EXCEPT ![c.d] = kept]
        /\ call' = [call EXCEPT ![u] = [now EXCEPT !.blocks = Tail(@)]]
    BY <1>1, <1>2, <1>3, <1>4, <1>7, <1>10
  <2> HIDE DEF ok, new
  <2> QED
    BY <1>1, <2>1, <2>2, NextBlockKeeps
<1>11. CASE over /\ err = "none"
  BY <1>1, <1>2, <1>3, <1>4, <1>7, <1>9, <1>11, FrameDoneKeeps
<1>12. CASE over /\ err # "none"
  BY <1>1, <1>2, <1>3, <1>4, <1>7, <1>9, <1>12, FrameFailsKeeps
<1> QED
  BY <1>10, <1>11, <1>12

-----------------------------------------------------------------------------
(* Every step keeps the invariant. *)
LEMMA OneShotKeeps ==
  ASSUME OneShotInv, [OneShotNext]_sharedVars
  PROVE  OneShotInv'
<1>1. ASSUME NEW u \in Users,
             \/ \E c \in Calls : AppendDecompress(u, c)
             \/ \E s \in StreamInputs : Stream(u, s)
             \/ SetFlag(u) \/ SetFields(u) \/ RefuseClosed(u) \/ TakeDecoder(u)
             \/ EndOfInput(u) \/ RefuseHeader(u) \/ RunDecoder(u) \/ DecodeBlock(u)
      PROVE  OneShotInv'
  <2>1. CASE \E c \in Calls : AppendDecompress(u, c)
    BY <2>1, AppendDecompressKeeps
  <2>2. CASE \E s \in StreamInputs : Stream(u, s)
    BY <2>2, StreamKeeps
  <2>3. CASE SetFlag(u)
    BY <2>3, SetFlagKeeps
  <2>4. CASE SetFields(u)
    BY <2>4, SetFieldsKeeps
  <2>5. CASE RefuseClosed(u)
    BY <2>5, RefuseClosedKeeps
  <2>6. CASE TakeDecoder(u)
    BY <2>6, TakeDecoderKeeps
  <2>7. CASE EndOfInput(u)
    BY <2>7, EndOfInputKeeps
  <2>8. CASE RefuseHeader(u)
    BY <2>8, RefuseHeaderKeeps
  <2>9. CASE RunDecoder(u)
    BY <2>9, RunDecoderKeeps
  <2>10. CASE DecodeBlock(u)
    BY <2>10, DecodeBlockKeeps
  <2> QED
    BY <1>1, <2>1, <2>2, <2>3, <2>4, <2>5, <2>6, <2>7, <2>8, <2>9, <2>10
<1>2. CASE CloseReader
  BY <1>2, CloseReaderKeeps
<1>3. CASE ResetReader
  BY <1>3, ResetReaderKeeps
<1>4. CASE ResetClosedReader
  BY <1>4, ResetClosedReaderKeeps
<1>5. CASE UNCHANGED sharedVars
  <2>1. reader' = reader /\ pool' = pool /\ decoder' = decoder /\ array' = array /\ call' = call
    BY <1>5 DEF sharedVars
  <2>2. Lending'
    BY <2>1 DEF OneShotInv, Lending, Typed, Ready, Apart, OwnArrays, Borrowed
  <2>3. Exact'
    BY <2>1 DEF OneShotInv, Exact, At
  <2> QED
    BY <2>2, <2>3 DEF OneShotInv
<1> QED
  BY <1>1, <1>2, <1>3, <1>4, <1>5 DEF OneShotNext

(* A call that is over has returned what its input stands for. *)
LEMMA OverIsExact ==
  ASSUME OneShotInv
  PROVE  OneShotExact
<1>1. Typed /\ Ready /\ Exact
  BY DEF OneShotInv, Lending
<1>2. ASSUME NEW u \in Users, call[u].at = "idle", call[u].op \in {"append", "stream"}
      PROVE  /\ call[u].got = StandsFor[call[u].src].out /\ call[u].err = StandsFor[call[u].src].err
             /\ call[u].op = "append" => Bytes(call[u].out) = call[u].before \o StandsFor[call[u].src].out
  <2> DEFINE c == call[u]
  <2>1. Begun(u, c, array[u]) /\ array[u] \in Seq(Nat)
    BY <1>1, ArraysApart DEF Exact, Typed
  <2>2. c.src \in Inputs /\ [err |-> c.err, out |-> c.got] = InputAlone(c.src)
    BY <1>2, <2>1 DEF Begun
  <2>3. StandsFor[c.src] = InputAlone(c.src)
    BY <2>2 DEF StandsFor
  <2>4. c.got = StandsFor[c.src].out /\ c.err = StandsFor[c.src].err
    BY <2>2, <2>3
  <2>5. ASSUME c.op = "append"
        PROVE  Bytes(c.out) = c.before \o StandsFor[c.src].out
    <3>1. array[u] = c.before \o c.got /\ c.out = Slice(u, Len(array[u]))
      BY <1>2, <2>1, <2>5 DEF Begun, Holding
    <3>2. c.out.in = u /\ c.out.len = Len(array[u]) /\ Len(array[u]) \in Int
      BY <2>1, <3>1 DEF Slice
    <3>3. Min({Len(array[u]), Len(array[u])}) = Len(array[u])
      BY <3>2, MinOfTwo
    <3>4. Bytes(c.out) = SubSeq(array[u], 1, Len(array[u]))
      BY <3>2, <3>3 DEF Bytes
    <3>5. SubSeq(array[u], 1, Len(array[u])) = array[u]
      BY <2>1
    <3> QED
      BY <2>4, <3>1, <3>4, <3>5
  <2> QED
    BY <2>4, <2>5
<1> QED
  BY <1>1, <1>2 DEF OneShotExact, Returned, Idle, At, Ready

(* AppendDecompress and streaming return exactly what their frames stand   *)
(* for, by themselves, whoever else uses the Reader and the pools          *)
(* (reader.go, AppendDecompress: "safe for concurrent use"): for every     *)
(* number of goroutines and decoders, all inputs and dictionaries, of a    *)
(* Reader that NewReader made.                                             *)
THEOREM OneShotIsExact ==
  ASSUME ~ZeroValue
  PROVE  OneShotSpec => []OneShotExact
<1>1. OneShotInit => OneShotInv
  BY OneShotStarts
<1>2. OneShotInv /\ [OneShotNext]_sharedVars => OneShotInv'
  BY OneShotKeeps
<1>3. OneShotInv => OneShotExact
  BY OverIsExact
<1> QED
  BY <1>1, <1>2, <1>3, PTL DEF OneShotSpec

(* What is lent is nobody else's: no two calls have the same decoder, none *)
(* has one that a pool or the shared Reader holds, and no decoder keeps    *)
(* the slice of a caller when runDecoder is done (framedec.go, runDecoder, *)
(* and the Get and Put of reader.go).                                      *)
THEOREM DecodersAreLent ==
  ASSUME ~ZeroValue
  PROVE  OneShotSpec => []Lending
<1>1. OneShotInit => OneShotInv
  BY OneShotStarts
<1>2. OneShotInv /\ [OneShotNext]_sharedVars => OneShotInv'
  BY OneShotKeeps
<1>3. OneShotInv => Lending
  BY DEF OneShotInv
<1> QED
  BY <1>1, <1>2, <1>3, PTL DEF OneShotSpec
=============================================================================
