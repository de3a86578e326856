------------------------- MODULE SessionResumeProofs -------------------------
(***************************************************************************)
(* A resumed page is exact, for every capacity, chunk, screenful, queue    *)
(* and cache limit, and for any number of faults.  What is on its way to   *)
(* the page is a path: every frame leads from one position in the output   *)
(* to the next, the first from where the page stands, the last to where    *)
(* the daemon believes the client to be.                                   *)
(***************************************************************************)
EXTENDS SessionResume, Integers, SequenceTheorems, FiniteSetTheorems, TLAPS

-----------------------------------------------------------------------------
(* Texts.  Everything here speaks of a fixed log.                          *)
Logs == Seq(Seq(Units))

(* Text x is the stretch of epoch e of the log L between two offsets, with *)
(* holes where queries were.                                               *)
Stretch(L, x, e, lo, hi) ==
  /\ e \in 1 .. Len(L) /\ lo \in Nat /\ hi \in Nat /\ lo <= hi /\ hi <= Len(L[e])
  /\ Len(x) = hi - lo
  /\ \A i \in 1 .. Len(x) :
       x[i] = L[e][lo + i] \/ (x[i] = Gone /\ L[e][lo + i] \in Probes)

(* The log M continues L: shells wrote more, or began.                     *)
Continues(M, L) ==
  /\ Len(L) <= Len(M)
  /\ \A e \in 1 .. Len(L) :
       Len(L[e]) <= Len(M[e]) /\ \A i \in 1 .. Len(L[e]) : M[e][i] = L[e][i]

LEMMA LogEntry ==
  ASSUME NEW L \in Logs, NEW e \in 1 .. Len(L)
  PROVE  L[e] \in Seq(Units) /\ Len(L[e]) \in Nat
<1>1. L[e] \in Seq(Units)
  BY ElementOfSeq DEF Logs
<1> QED BY <1>1, LenProperties

LEMMA StretchGrows ==
  ASSUME NEW L \in Logs, NEW M \in Logs, Continues(M, L),
         NEW x, Len(x) \in Nat, NEW e, NEW lo, NEW hi, Stretch(L, x, e, lo, hi)
  PROVE  Stretch(M, x, e, lo, hi)
<1>1. e \in 1 .. Len(L) /\ lo \in Nat /\ hi \in Nat /\ lo <= hi /\ hi <= Len(L[e]) /\ Len(x) = hi - lo
  BY DEF Stretch
<1>2. Len(L) \in Nat /\ Len(M) \in Nat /\ Len(L) <= Len(M)
  BY LenProperties DEF Logs, Continues
<1>3. e \in 1 .. Len(M)
  BY <1>1, <1>2
<1>4. Len(L[e]) \in Nat /\ Len(M[e]) \in Nat
  BY <1>1, <1>3, LogEntry
<1>5. Len(L[e]) <= Len(M[e]) /\ \A i \in 1 .. Len(L[e]) : M[e][i] = L[e][i]
  BY <1>1 DEF Continues
<1>6. hi <= Len(M[e])
  BY <1>1, <1>4, <1>5
<1>7. ASSUME NEW i \in 1 .. Len(x)
      PROVE  x[i] = M[e][lo + i] \/ (x[i] = Gone /\ M[e][lo + i] \in Probes)
  <2>1. lo + i \in 1 .. Len(L[e])
    BY <1>1, <1>4
  <2>2. M[e][lo + i] = L[e][lo + i]
    BY <1>5, <2>1
  <2> QED BY <2>2 DEF Stretch
<1> QED BY <1>1, <1>3, <1>6, <1>7 DEF Stretch

LEMMA StretchJoins ==
  ASSUME NEW L, NEW x \in Seq(Units), NEW y \in Seq(Units), NEW e, NEW lo, NEW mid, NEW hi,
         Stretch(L, x, e, lo, mid), Stretch(L, y, e, mid, hi)
  PROVE  Stretch(L, x \o y, e, lo, hi)
<1>1. /\ e \in 1 .. Len(L) /\ lo \in Nat /\ mid \in Nat /\ hi \in Nat
      /\ lo <= mid /\ mid <= hi /\ hi <= Len(L[e])
      /\ Len(x) = mid - lo /\ Len(y) = hi - mid
  BY DEF Stretch
<1> DEFINE z == x \o y
           P(u, v) == u = v \/ (u = Gone /\ v \in Probes)
<1>2. /\ Len(z) = Len(x) + Len(y)
      /\ \A i \in 1 .. Len(x) + Len(y) : z[i] = IF i <= Len(x) THEN x[i] ELSE y[i - Len(x)]
  BY ConcatProperties
<1>3. \A i \in 1 .. Len(x) : P(x[i], L[e][lo + i])
  BY DEF Stretch
<1>4. \A i \in 1 .. Len(y) : P(y[i], L[e][mid + i])
  BY DEF Stretch
<1> HIDE DEF z, P
<1>5. Len(z) = hi - lo /\ lo <= hi
  BY <1>1, <1>2
<1>6. ASSUME NEW i \in 1 .. Len(z) PROVE P(z[i], L[e][lo + i])
  <2>1. CASE i <= Len(x)
    <3>1. i \in 1 .. Len(x) /\ z[i] = x[i]
      BY <1>1, <1>2, <2>1
    <3> QED BY <1>3, <3>1
  <2>2. CASE ~ i <= Len(x)
    <3>1. i - Len(x) \in 1 .. Len(y) /\ mid + (i - Len(x)) = lo + i /\ z[i] = y[i - Len(x)]
      BY <1>1, <1>2, <2>2
    <3> QED BY <1>4, <3>1
  <2> QED BY <2>1, <2>2
<1>7. Stretch(L, z, e, lo, hi)
  BY <1>1, <1>5, <1>6 DEF Stretch, P
<1> QED BY <1>7 DEF z

LEMMA StretchCut ==
  ASSUME NEW L, NEW x \in Seq(Units), NEW e, NEW lo, NEW hi, Stretch(L, x, e, lo, hi),
         NEW p \in Nat, NEW q \in Nat, p <= q, q <= Len(x)
  PROVE  Stretch(L, SubSeq(x, p + 1, q), e, lo + p, lo + q)
<1>1. /\ e \in 1 .. Len(L) /\ lo \in Nat /\ hi \in Nat
      /\ lo <= hi /\ hi <= Len(L[e]) /\ Len(x) = hi - lo
  BY DEF Stretch
<1> DEFINE z == SubSeq(x, p + 1, q)
           P(u, v) == u = v \/ (u = Gone /\ v \in Probes)
<1>2. \A i \in 1 .. Len(x) : P(x[i], L[e][lo + i])
  BY DEF Stretch
<1>3. \A i \in p + 1 .. q : x[i] \in Units
  <2>1. \A i \in 1 .. Len(x) : x[i] \in Units
    BY ElementOfSeq
  <2>2. Len(x) \in Nat
    BY LenProperties
  <2> QED BY <2>1, <2>2
<1>4. /\ Len(z) = IF p + 1 <= q THEN q - (p + 1) + 1 ELSE 0
      /\ \A i \in 1 .. q - (p + 1) + 1 : z[i] = x[p + 1 + i - 1]
  BY <1>3, SubSeqProperties
<1> HIDE DEF z, P
<1>5. Len(z) = q - p /\ Len(z) = (lo + q) - (lo + p) /\ \A i \in 1 .. Len(z) : z[i] = x[p + i]
  BY <1>1, <1>4
<1>6. ASSUME NEW i \in 1 .. Len(z) PROVE P(z[i], L[e][(lo + p) + i])
  <2>1. p + i \in 1 .. Len(x) /\ lo + (p + i) = (lo + p) + i
    BY <1>1, <1>5
  <2>2. P(x[p + i], L[e][lo + (p + i)])
    BY <1>2, <2>1, Zenon
  <2> QED BY <2>1, <2>2, <1>5
<1>7. lo + p \in Nat /\ lo + q \in Nat /\ lo + p <= lo + q /\ lo + q <= hi
  BY <1>1
<1>8. lo + q <= Len(L[e])
  <2> DEFINE n == Len(L[e])
  <2>1. CASE n \in Int
    BY <1>1, <1>7, <2>1
  <2> QED BY <1>1, <1>7, <2>1
<1>9. Stretch(L, z, e, lo + p, lo + q)
  BY <1>1, <1>5, <1>6, <1>7, <1>8 DEF Stretch, P
<1> QED BY <1>9 DEF z

LEMMA StripText ==
  ASSUME NEW x \in Seq(Units)
  PROVE  /\ Strip(x) \in Seq(Units) /\ Len(Strip(x)) = Len(x)
         /\ \A i \in 1 .. Len(x) : Strip(x)[i] = IF x[i] \in Probes THEN Gone ELSE x[i]
<1>1. DOMAIN x = 1 .. Len(x) /\ Len(x) \in Nat
  BY LenProperties
<1>2. \A i \in 1 .. Len(x) : x[i] \in Units
  BY ElementOfSeq
<1>3. Strip(x) \in [1 .. Len(x) -> Units]
  BY <1>1, <1>2 DEF Strip, Units
<1>4. \A i \in 1 .. Len(x) : Strip(x)[i] = IF x[i] \in Probes THEN Gone ELSE x[i]
  BY <1>1 DEF Strip
<1>5. Strip(x) \in Seq(Units)
  BY <1>1, <1>3, SeqDef
<1>6. Len(Strip(x)) = Len(x)
  BY <1>1, <1>3, <1>5
<1> QED BY <1>4, <1>5, <1>6

LEMMA StretchStrip ==
  ASSUME NEW L, NEW x \in Seq(Units), NEW e, NEW lo, NEW hi, Stretch(L, x, e, lo, hi)
  PROVE  Stretch(L, Strip(x), e, lo, hi)
<1>1. ASSUME NEW i \in 1 .. Len(x)
      PROVE  \/ Strip(x)[i] = L[e][lo + i]
             \/ Strip(x)[i] = Gone /\ L[e][lo + i] \in Probes
  BY StripText DEF Stretch
<1> QED BY <1>1, StripText DEF Stretch

LEMMA StretchOfNothing ==
  ASSUME NEW L \in Logs, NEW e \in 1 .. Len(L), NEW n \in 0 .. Len(L[e])
  PROVE  Stretch(L, <<>>, e, n, n)
<1>1. Len(L[e]) \in Nat
  BY LogEntry
<1>2. Len(<<>>) = 0 /\ n \in Nat /\ n <= Len(L[e]) /\ n - n = 0
  BY <1>1
<1> QED BY <1>2 DEF Stretch

-----------------------------------------------------------------------------
(* Positions.  A mark says where in the output a reader is: the epoch and  *)
(* the offset it has reached, the newest query it may have seen, whether   *)
(* its screen is blank, and whether it was given anything at all.          *)
Mark == [epoch : Nat, at : Nat, asked : Nat, blank : BOOLEAN, seen : BOOLEAN]

(* At most one unit of x is a query, and a newer one than any before.      *)
OneQuery(x, old, new) ==
  /\ \A i \in 1 .. Len(x) : x[i] \in Probes => old < x[i] /\ x[i] <= new
  /\ \A i, j \in 1 .. Len(x) : x[i] \in Probes /\ x[j] \in Probes => i = j

(* Frame f takes a reader from mark a to mark b.  The first half of an     *)
(* envelope is dropped for what comes after it.                            *)
Follows(L, a, f, b) ==
  IF f.part = "head" THEN b = a
  ELSE /\ b.epoch = f.epoch /\ f.offset \in {b.at, None}
       /\ Stretch(L, f.data, f.epoch, b.at - Len(f.data), b.at)
       /\ f.reset \/ (a.epoch = f.epoch /\ a.at = b.at - Len(f.data))
       /\ a.asked <= b.asked /\ OneQuery(f.data, a.asked, b.asked)
       /\ b.blank => f.reset /\ f.data = <<>>

(* The frames P take a reader from a to b.                                 *)
Path(L, a, P, b) ==
  \E K \in [1 .. Len(P) + 1 -> Mark] :
    /\ K[1] = a /\ K[Len(P) + 1] = b
    /\ \A i \in 1 .. Len(P) : Follows(L, K[i], P[i], K[i + 1])
    /\ \A i \in 1 .. Len(P) + 1 : K[i].asked <= b.asked

LEMMA PathEnds ==
  ASSUME NEW L, NEW a, NEW P \in Seq(FrameType), NEW b, Path(L, a, P, b)
  PROVE  a \in Mark /\ b \in Mark /\ a.asked <= b.asked
<1>1. Len(P) \in Nat
  BY LenProperties
<1>2. PICK K \in [1 .. Len(P) + 1 -> Mark] :
        /\ K[1] = a /\ K[Len(P) + 1] = b
        /\ \A i \in 1 .. Len(P) + 1 : K[i].asked <= b.asked
  BY DEF Path
<1>3. 1 \in 1 .. Len(P) + 1 /\ Len(P) + 1 \in 1 .. Len(P) + 1
  BY <1>1
<1> QED BY <1>2, <1>3

LEMMA PathStays ==
  ASSUME NEW L, NEW a \in Mark
  PROVE  Path(L, a, <<>>, a)
<1> DEFINE K == [i \in 1 .. 1 |-> a]
<1>1. Len(<<>>) = 0 /\ 1 .. 0 = {} /\ 0 + 1 = 1
  OBVIOUS
<1>2. a.asked <= a.asked
  BY DEF Mark
<1>3. K \in [1 .. 1 -> Mark] /\ K[1] = a /\ \A i \in 1 .. 1 : K[i] = a
  OBVIOUS
<1> HIDE DEF K
<1> QED BY <1>1, <1>2, <1>3 DEF Path

LEMMA PathOfNothing ==
  ASSUME NEW L, NEW a, NEW b, Path(L, a, <<>>, b)
  PROVE  a = b
<1>1. Len(<<>>) + 1 = 1
  OBVIOUS
<1> QED BY <1>1 DEF Path

LEMMA PathOfOne ==
  ASSUME NEW L, NEW a \in Mark, NEW f, NEW b \in Mark, Follows(L, a, f, b)
  PROVE  Path(L, a, <<f>>, b)
<1> DEFINE K == [i \in 1 .. 2 |-> IF i = 1 THEN a ELSE b]
           P == <<f>>
<1>1. Len(P) = 1 /\ P[1] = f
  OBVIOUS
<1>2. a.asked <= b.asked /\ b.asked <= b.asked
  BY DEF Mark, Follows
<1>3. K \in [1 .. 2 -> Mark] /\ K[1] = a /\ K[2] = b
  OBVIOUS
<1> HIDE DEF K, P
<1>4. \A i \in 1 .. 2 : K[i].asked <= b.asked
  <2>1. \A i \in 1 .. 2 : i = 1 \/ i = 2
    OBVIOUS
  <2> QED BY <1>2, <1>3, <2>1, Zenon
<1>5. \A i \in 1 .. 1 : Follows(L, K[i], P[i], K[i + 1])
  <2>1. \A i \in 1 .. 1 : i = 1 /\ i + 1 = 2
    OBVIOUS
  <2> QED BY <1>1, <1>3, <2>1
<1>6. 1 + 1 = 2
  OBVIOUS
<1>7. Path(L, a, P, b)
  BY <1>1, <1>3, <1>4, <1>5, <1>6 DEF Path
<1> QED BY <1>7 DEF P

LEMMA PathJoins ==
  ASSUME NEW L, NEW a, NEW P \in Seq(FrameType), NEW m, NEW Q \in Seq(FrameType), NEW b,
         Path(L, a, P, m), Path(L, m, Q, b)
  PROVE  Path(L, a, P \o Q, b)
<1> DEFINE p == Len(P)
           q == Len(Q)
           R == P \o Q
<1>1. p \in Nat /\ q \in Nat
  BY LenProperties
<1>2. /\ Len(R) = p + q
      /\ \A i \in 1 .. p + q : R[i] = IF i <= p THEN P[i] ELSE Q[i - p]
  BY ConcatProperties
<1>3. m \in Mark /\ b \in Mark /\ m.asked <= b.asked
  BY PathEnds
<1>4. PICK J \in [1 .. p + 1 -> Mark] :
        /\ J[1] = a /\ J[p + 1] = m
        /\ \A i \in 1 .. p : Follows(L, J[i], P[i], J[i + 1])
        /\ \A i \in 1 .. p + 1 : J[i].asked <= m.asked
  BY DEF Path
<1>5. PICK K \in [1 .. q + 1 -> Mark] :
        /\ K[1] = m /\ K[q + 1] = b
        /\ \A i \in 1 .. q : Follows(L, K[i], Q[i], K[i + 1])
        /\ \A i \in 1 .. q + 1 : K[i].asked <= b.asked
  BY DEF Path
<1> HIDE DEF p, q, R
<1> DEFINE M == [i \in 1 .. (p + q) + 1 |-> IF i <= p THEN J[i] ELSE K[i - p]]
<1>6. /\ \A i \in 1 .. p : i \in 1 .. p + 1 /\ i \in 1 .. (p + q) + 1 /\ i \in 1 .. p + q
      /\ \A i \in 1 .. q + 1 : p + i \in 1 .. (p + q) + 1 /\ ~ (p + i <= p) /\ (p + i) - p = i
      /\ \A i \in 1 .. (p + q) + 1 : i \in 1 .. p \/ (i - p \in 1 .. q + 1 /\ i = p + (i - p))
  BY <1>1
<1>7. \A i \in 1 .. p : M[i] = J[i]
  BY <1>6
<1>8. \A i \in 1 .. q + 1 : M[p + i] = K[i]
  BY <1>6
<1>9. M \in [1 .. (p + q) + 1 -> Mark]
  <2>1. \A i \in 1 .. (p + q) + 1 : (IF i <= p THEN J[i] ELSE K[i - p]) \in Mark
    <3> TAKE i \in 1 .. (p + q) + 1
    <3>1. CASE i \in 1 .. p
      BY <1>6, <3>1
    <3>2. CASE i - p \in 1 .. q + 1 /\ ~ (i \in 1 .. p)
      <4>1. ~ (i <= p)
        BY <1>1, <3>2
      <4> QED BY <3>2, <4>1
    <3> QED BY <1>6, <3>1, <3>2
  <2> QED BY <2>1
<1> HIDE DEF M
<1>10. M[1] = a /\ M[(p + q) + 1] = b
  <2>1. M[(p + q) + 1] = b
    <3>1. p + (q + 1) = (p + q) + 1 /\ q + 1 \in 1 .. q + 1
      BY <1>1
    <3> QED BY <1>5, <1>8, <3>1
  <2>2. CASE p = 0
    <3>1. 1 = p + 1 /\ 1 \in 1 .. q + 1
      BY <1>1, <2>2
    <3>2. M[p + 1] = K[1] /\ J[p + 1] = a
      BY <1>4, <1>8, <3>1
    <3>3. M[1] = a
      BY <1>4, <1>5, <3>1, <3>2
    <3> QED BY <3>3, <2>1
  <2>3. CASE p # 0
    <3>1. 1 \in 1 .. p
      BY <1>1, <2>3
    <3> QED BY <1>4, <1>7, <2>1, <3>1
  <2> QED BY <2>2, <2>3
<1>11. ASSUME NEW i \in 1 .. p + q PROVE Follows(L, M[i], R[i], M[i + 1])
  <2>1. CASE i < p
    <3>1. i \in 1 .. p /\ i + 1 \in 1 .. p /\ i <= p
      BY <1>1, <2>1
    <3> QED BY <1>2, <1>4, <1>7, <3>1
  <2>2. CASE i = p
    <3>1. i \in 1 .. p /\ i <= p /\ i + 1 = p + 1 /\ 1 \in 1 .. q + 1
      BY <1>1, <2>2
    <3>2. M[i + 1] = m
      BY <1>5, <1>8, <3>1
    <3>3. J[i + 1] = m
      BY <1>4, <3>1
    <3> QED BY <1>2, <1>4, <1>7, <3>1, <3>2, <3>3
  <2>3. CASE i > p
    <3> DEFINE k == i - p
    <3>1. /\ k \in 1 .. q /\ k \in 1 .. q + 1 /\ k + 1 \in 1 .. q + 1
          /\ p + k = i /\ p + (k + 1) = i + 1 /\ ~ (i <= p)
      BY <1>1, <2>3
    <3>2. R[i] = Q[k]
      BY <1>2, <3>1
    <3> HIDE DEF k
    <3>3. M[i] = K[k] /\ M[i + 1] = K[k + 1]
      BY <1>8, <3>1
    <3> QED BY <1>5, <3>1, <3>2, <3>3
  <2> QED BY <1>1, <2>1, <2>2, <2>3
<1>12. ASSUME NEW i \in 1 .. (p + q) + 1 PROVE M[i].asked <= b.asked
  <2>1. CASE i \in 1 .. p
    <3>1. J[i] \in Mark /\ J[i].asked <= m.asked /\ M[i] = J[i]
      BY <1>4, <1>6, <1>7, <2>1
    <3>2. J[i].asked \in Nat /\ m.asked \in Nat /\ b.asked \in Nat
      BY <1>3, <3>1 DEF Mark
    <3> QED BY <1>3, <3>1, <3>2
  <2>2. CASE i - p \in 1 .. q + 1 /\ i = p + (i - p)
    <3>1. M[i] = K[i - p]
      BY <1>8, <2>2
    <3> QED BY <1>5, <2>2, <3>1
  <2> QED BY <1>6, <2>1, <2>2
<1>13. Path(L, a, R, b)
  BY <1>2, <1>9, <1>10, <1>11, <1>12 DEF Path
<1> QED BY <1>13 DEF R

LEMMA PathBegins ==
  ASSUME NEW L, NEW a, NEW P \in Seq(FrameType), P # <<>>, NEW b, Path(L, a, P, b)
  PROVE  \E m \in Mark : Follows(L, a, Head(P), m) /\ Path(L, m, Tail(P), b)
<1> DEFINE p == Len(P) - 1
           T == Tail(P)
<1>1. p \in Nat /\ Len(P) = p + 1
  BY EmptySeq
<1>2. Head(P) = P[1] /\ Len(T) = p /\ \A i \in 1 .. p : T[i] = P[i + 1]
  BY HeadTailProperties
<1>3. PICK K \in [1 .. Len(P) + 1 -> Mark] :
        /\ K[1] = a /\ K[Len(P) + 1] = b
        /\ \A i \in 1 .. Len(P) : Follows(L, K[i], P[i], K[i + 1])
        /\ \A i \in 1 .. Len(P) + 1 : K[i].asked <= b.asked
  BY DEF Path
<1> HIDE DEF p, T
<1> DEFINE M == [i \in 1 .. p + 1 |-> K[i + 1]]
<1>4. /\ \A i \in 1 .. p + 1 : i + 1 \in 1 .. (p + 1) + 1
      /\ \A i \in 1 .. p : i + 1 \in 1 .. p + 1 /\ i \in 1 .. p + 1
      /\ 1 \in 1 .. p + 1 /\ p + 1 \in 1 .. p + 1 /\ 1 + 1 = 2
  BY <1>1
<1>5. M \in [1 .. p + 1 -> Mark] /\ M[1] = K[2] /\ M[p + 1] = K[(p + 1) + 1]
  BY <1>1, <1>4
<1>6. \A i \in 1 .. p : M[i] = K[i + 1] /\ M[i + 1] = K[(i + 1) + 1]
  BY <1>4
<1>7. \A i \in 1 .. p + 1 : M[i] = K[i + 1]
  OBVIOUS
<1> HIDE DEF M
<1>8. \A i \in 1 .. p : Follows(L, M[i], T[i], M[i + 1])
  <2> TAKE i \in 1 .. p
  <2>1. Follows(L, K[i + 1], P[i + 1], K[(i + 1) + 1])
    BY <1>1, <1>3, <1>4
  <2> QED BY <1>2, <1>6, <2>1
<1>9. \A i \in 1 .. p + 1 : M[i].asked <= b.asked
  BY <1>1, <1>3, <1>4, <1>7
<1>10. Path(L, M[1], T, b)
  BY <1>1, <1>2, <1>3, <1>5, <1>8, <1>9 DEF Path
<1>11. Follows(L, a, Head(P), M[1]) /\ M[1] \in Mark
  BY <1>1, <1>2, <1>3, <1>4, <1>5
<1> QED BY <1>10, <1>11 DEF T

LEMMA FollowsGrows ==
  ASSUME NEW L \in Logs, NEW M \in Logs, Continues(M, L), NEW a, NEW f \in FrameType, NEW b,
         Follows(L, a, f, b)
  PROVE  Follows(M, a, f, b)
<1>1. CASE f.part = "head"
  BY <1>1 DEF Follows
<1>2. CASE f.part # "head"
  <2>1. Len(f.data) \in Nat
    BY LenProperties DEF FrameType
  <2>2. Stretch(M, f.data, f.epoch, b.at - Len(f.data), b.at)
    BY <1>2, <2>1, StretchGrows DEF Follows
  <2> QED BY <1>2, <2>2, Zenon DEF Follows
<1> QED BY <1>1, <1>2

LEMMA PathGrows ==
  ASSUME NEW L \in Logs, NEW M \in Logs, Continues(M, L), NEW a, NEW P \in Seq(FrameType), NEW b,
         Path(L, a, P, b)
  PROVE  Path(M, a, P, b)
<1>1. PICK K \in [1 .. Len(P) + 1 -> Mark] :
        /\ K[1] = a /\ K[Len(P) + 1] = b
        /\ \A i \in 1 .. Len(P) : Follows(L, K[i], P[i], K[i + 1])
        /\ \A i \in 1 .. Len(P) + 1 : K[i].asked <= b.asked
  BY DEF Path
<1>2. \A i \in 1 .. Len(P) : Follows(M, K[i], P[i], K[i + 1])
  BY <1>1, FollowsGrows, ElementOfSeq
<1> QED BY <1>1, <1>2 DEF Path

-----------------------------------------------------------------------------
(* A replay leads from where the page asked to continue, or from anywhere, *)
(* to the newest output.                                                   *)
Cut(x, i) == IF i = Chunks(x) THEN Len(x) ELSE i * ChunkMax

LEMMA Division ==
  ASSUME NEW n \in Nat, NEW d \in Nat \ {0}
  PROVE  n \div d \in Nat /\ (n \div d) * d <= n /\ n < (n \div d) * d + d
  OBVIOUS

LEMMA Ordered ==
  ASSUME NEW i \in Nat, NEW j \in Nat, i <= j, NEW d \in Nat
  PROVE  i * d \in Nat /\ i * d <= j * d
  OBVIOUS

LEMMA Cuts ==
  ASSUME NEW x \in Seq(Units)
  PROVE  /\ Chunks(x) \in Nat \ {0}
         /\ \A i \in 1 .. Chunks(x) :
              (i - 1) * ChunkMax \in Nat /\ Cut(x, i) \in Nat
              /\ (i - 1) * ChunkMax <= Cut(x, i) /\ Cut(x, i) <= Len(x)
<1> DEFINE n == Len(x)
           d == ChunkMax
           c == Chunks(x)
<1>1. n \in Nat /\ d \in Nat \ {0}
  BY LenProperties, BoundsAreNaturals
<1>2. CASE x = <<>>
  <2>1. c = 1 /\ n = 0
    BY <1>2 DEF Chunks
  <2> HIDE DEF c, d, n
  <2>2. \A i \in 1 .. 1 : i = 1 /\ (i - 1) * d = 0
    BY <1>1
  <2> QED BY <1>1, <2>1, <2>2 DEF Cut, c, d, n
<1>3. CASE x # <<>>
  <2>1. n \in Nat \ {0}
    BY <1>3, EmptySeq
  <2>2. c = (n + d - 1) \div d
    BY <1>3 DEF Chunks
  <2> HIDE DEF c, d, n
  <2>3. n + d - 1 \in Nat
    BY <1>1, <2>1
  <2>4. c \in Nat /\ c * d <= n + d - 1 /\ n + d - 1 < c * d + d
    BY <1>1, <2>2, <2>3, Division
  <2>5. c # 0 /\ c - 1 \in Nat
    <3>1. CASE c = 0
      <4>1. 0 * d = 0
        BY <1>1
      <4> QED BY <1>1, <2>1, <2>4, <3>1, <4>1
    <3> QED BY <2>4, <3>1
  <2>6. (c - 1) * d \in Nat /\ (c - 1) * d <= n
    <3>1. (c - 1) * d = c * d - d /\ c * d \in Nat
      BY <1>1, <2>4
    <3>2. (c - 1) * d \in Nat
      BY <1>1, <2>5
    <3> QED BY <1>1, <2>4, <3>1, <3>2
  <2>7. ASSUME NEW i \in 1 .. c
        PROVE  /\ (i - 1) * d \in Nat /\ Cut(x, i) \in Nat
               /\ (i - 1) * d <= Cut(x, i) /\ Cut(x, i) <= n
    <3>1. i - 1 \in Nat /\ i \in Nat
      BY <2>4
    <3>2. CASE i = c
      <4>1. Cut(x, i) = n
        BY <3>2 DEF Cut, c, n
      <4> QED BY <1>1, <2>6, <3>2, <4>1
    <3>3. CASE i # c
      <4>1. Cut(x, i) = i * d
        BY <3>3 DEF Cut, c, d
      <4>2. i <= c - 1 /\ i - 1 <= i
        BY <2>4, <3>3
      <4>3. i * d \in Nat /\ i * d <= (c - 1) * d
        BY <1>1, <2>5, <3>1, <4>2, Ordered
      <4>4. (i - 1) * d \in Nat /\ (i - 1) * d <= i * d
        BY <1>1, <3>1, <4>2, Ordered
      <4>5. i * d <= n
        BY <1>1, <2>6, <4>3
      <4> QED BY <4>1, <4>3, <4>4, <4>5
    <3> QED BY <3>2, <3>3
  <2> QED BY <2>4, <2>5, <2>7 DEF c, d, n
<1> QED BY <1>2, <1>3

(* The frame of a replay between two cuts.                                 *)
LEMMA ResumePath ==
  ASSUME NEW L \in Logs, NEW r, NEW req \in [epoch : Nat, offset : Nat], NEW a \in Mark,
         r.epoch \in 1 .. Len(L), r.held \in Seq(Units), IsTail(r.held, L[r.epoch]),
         r.offset = Len(L[r.epoch]), Retained(r, req) => a.epoch = req.epoch /\ a.at = req.offset,
         Gone \notin Probes
  PROVE  /\ Resume(r, req) \in Seq(FrameType)
         /\ \A i \in 1 .. Len(Resume(r, req)) : Resume(r, req)[i].part = "whole"
         /\ \E b \in Mark :
              /\ Path(L, a, Resume(r, req), b)
              /\ b.epoch = r.epoch /\ b.at = r.offset /\ b.asked = a.asked /\ b.seen
<1> DEFINE e == r.epoch
           hi == r.offset
           n == Len(r.held)
           valid == Retained(r, req)
           kept == IF valid THEN SubSeq(r.held, req.offset - (hi - n) + 1, n) ELSE r.held
           x == Strip(kept)
           start == IF valid THEN req.offset ELSE hi - n
           c == Chunks(x)
           d == ChunkMax
           R == Resume(r, req)
<1>1. n \in Nat /\ hi \in Nat /\ n <= hi /\ L[e] \in Seq(Units) /\ e \in Nat /\ d \in Nat
  <2>1. L[e] \in Seq(Units) /\ Len(L[e]) \in Nat
    BY LogEntry
  <2>2. Len(L) \in Nat
    BY LenProperties DEF Logs
  <2>3. e \in Nat /\ hi \in Nat
    BY <2>1, <2>2
  <2>4. n \in Nat /\ d \in Nat
    BY LenProperties, BoundsAreNaturals
  <2>5. n <= hi
    BY DEF IsTail
  <2> QED BY <2>1, <2>3, <2>4, <2>5
<1>21. n \in Nat /\ hi \in Nat /\ n <= hi /\ hi = Len(L[e])
  BY <1>1
<1>22. /\ hi - n \in Nat /\ n = hi - (hi - n) /\ hi - n <= hi /\ (hi - n) + n = hi
       /\ hi <= hi
  <2> HIDE DEF hi, n, e
  <2> QED BY <1>21
<1>2. Stretch(L, r.held, e, hi - n, hi)
  <2>1. \A i \in 1 .. n : r.held[i] = L[e][(hi - n) + i]
    BY DEF IsTail
  <2>2. e \in 1 .. Len(L)
    OBVIOUS
  <2>3. n = Len(r.held)
    OBVIOUS
  <2> HIDE DEF hi, n, e
  <2> QED BY <1>21, <1>22, <2>1, <2>2, <2>3 DEF Stretch
<1>3. kept \in Seq(Units) /\ Stretch(L, kept, e, start, hi)
  <2>1. CASE valid
    <3>1. /\ req.offset \in Nat /\ hi - n <= req.offset /\ req.offset <= hi
      BY <2>1 DEF Retained
    <3> DEFINE p == req.offset - (hi - n)
    <3>2. p \in Nat /\ p <= n /\ (hi - n) + p = req.offset /\ (hi - n) + n = hi
      <4> DEFINE o == req.offset
      <4>1. o \in Nat /\ hi - n <= o /\ o <= hi
        BY <3>1
      <4> HIDE DEF hi, n, o
      <4>2. n \in Nat /\ hi \in Nat /\ n <= hi
        BY <1>21
      <4>3. /\ o - (hi - n) \in Nat /\ o - (hi - n) <= n
            /\ (hi - n) + (o - (hi - n)) = o /\ (hi - n) + n = hi
        BY <4>1, <4>2
      <4> QED BY <4>3 DEF o
    <3> HIDE DEF p
    <3>3. Stretch(L, SubSeq(r.held, p + 1, n), e, (hi - n) + p, (hi - n) + n)
      <4>1. n = Len(r.held) /\ n <= n
        BY <1>21
      <4> HIDE DEF e, hi, n
      <4> QED BY <1>2, <1>21, <3>2, <4>1, StretchCut
    <3>4. SubSeq(r.held, p + 1, n) \in Seq(Units)
      <4>1. \A i \in p + 1 .. n : r.held[i] \in Units
        <5>1. \A i \in 1 .. n : r.held[i] \in Units
          BY ElementOfSeq
        <5> QED BY <1>1, <3>2, <5>1
      <4>2. p + 1 \in Int /\ n \in Int
        BY <1>1, <3>2
      <4> QED BY <4>1, <4>2, SubSeqProperties
    <3>5. kept = SubSeq(r.held, p + 1, n) /\ start = req.offset
      BY <2>1 DEF p
    <3> QED BY <3>2, <3>3, <3>4, <3>5
  <2>2. CASE ~ valid
    BY <1>2, <2>2
  <2> QED BY <2>1, <2>2
<1> HIDE DEF kept
<1>4. x \in Seq(Units) /\ Len(x) = Len(kept) /\ Stretch(L, x, e, start, hi)
  BY <1>3, StripText, StretchStrip
<1>5. \A i \in 1 .. Len(x) : x[i] \notin Probes
  BY <1>3, <1>4, StripText
<1>6. /\ c \in Nat \ {0}
      /\ \A i \in 1 .. c :
           (i - 1) * d \in Nat /\ Cut(x, i) \in Nat
           /\ (i - 1) * d <= Cut(x, i) /\ Cut(x, i) <= Len(x)
  BY <1>4, Cuts
<1>7. R = [i \in 1 .. c |-> Frame(r, Cursor(r, x, i), Chunk(x, i), ~valid /\ i = 1)]
  BY DEF Resume, kept
<1> HIDE DEF e, hi, n, valid, x, start, c, d, R
<1>8. start \in Nat /\ Len(x) \in Nat /\ start + Len(x) = hi
  <2>1. start \in Nat /\ Len(x) = hi - start
    BY <1>4 DEF Stretch
  <2>2. Len(x) \in Nat
    BY <1>4, LenProperties
  <2> QED BY <1>21, <2>1, <2>2
<1>9. ASSUME NEW i \in 1 .. c
      PROVE  /\ R[i].epoch = e /\ R[i].part = "whole" /\ R[i].reset = (~valid /\ i = 1)
             /\ R[i].offset = IF i = c THEN hi ELSE None
             /\ R[i].data = SubSeq(x, (i - 1) * d + 1, Cut(x, i))
  BY <1>7 DEF Frame, Cursor, Chunk, Cut, e, hi, d, c
<1>10. ASSUME NEW i \in 1 .. c
       PROVE  /\ SubSeq(x, (i - 1) * d + 1, Cut(x, i)) \in Seq(Units)
              /\ Len(SubSeq(x, (i - 1) * d + 1, Cut(x, i))) = Cut(x, i) - (i - 1) * d
              /\ \A j \in 1 .. Cut(x, i) - (i - 1) * d :
                   SubSeq(x, (i - 1) * d + 1, Cut(x, i))[j] \notin Probes
              /\ Stretch(L, SubSeq(x, (i - 1) * d + 1, Cut(x, i)), e,
                         start + (i - 1) * d, start + Cut(x, i))
  <2> DEFINE p == (i - 1) * d
             q == Cut(x, i)
  <2>1. p \in Nat /\ q \in Nat /\ p <= q /\ q <= Len(x)
    BY <1>6
  <2> HIDE DEF p, q
  <2>2. \A j \in p + 1 .. q : x[j] \in Units
    <3>1. \A j \in 1 .. Len(x) : x[j] \in Units
      BY <1>4, ElementOfSeq
    <3> QED BY <1>8, <2>1, <3>1
  <2>3. /\ SubSeq(x, p + 1, q) \in Seq(Units)
        /\ Len(SubSeq(x, p + 1, q)) = IF p + 1 <= q THEN q - (p + 1) + 1 ELSE 0
        /\ \A j \in 1 .. q - (p + 1) + 1 : SubSeq(x, p + 1, q)[j] = x[p + 1 + j - 1]
    <3> DEFINE m == p + 1
    <3>1. m \in Int /\ q \in Int /\ \A j \in m .. q : x[j] \in Units
      BY <2>1, <2>2
    <3> HIDE DEF m
    <3>2. /\ SubSeq(x, m, q) \in Seq(Units)
          /\ Len(SubSeq(x, m, q)) = IF m <= q THEN q - m + 1 ELSE 0
          /\ \A j \in 1 .. q - m + 1 : SubSeq(x, m, q)[j] = x[m + j - 1]
      BY <3>1, SubSeqProperties
    <3> QED BY <3>2 DEF m
  <2>4. Len(SubSeq(x, p + 1, q)) = q - p
    BY <2>1, <2>3
  <2>5. \A j \in 1 .. q - p : SubSeq(x, p + 1, q)[j] \notin Probes
    <3> TAKE j \in 1 .. q - p
    <3>1. j \in 1 .. q - (p + 1) + 1 /\ p + 1 + j - 1 \in 1 .. Len(x)
      BY <1>8, <2>1
    <3> QED BY <1>5, <2>3, <3>1
  <2>6. Stretch(L, SubSeq(x, p + 1, q), e, start + p, start + q)
    BY <1>4, <2>1, StretchCut
  <2> QED BY <2>3, <2>4, <2>5, <2>6 DEF p, q
<1>11. ASSUME NEW i \in 1 .. c PROVE R[i] \in FrameType
  <2>1. /\ R[i] = [epoch |-> R[i].epoch, offset |-> R[i].offset, data |-> R[i].data,
                   reset |-> R[i].reset, part |-> R[i].part]
    <3>1. R[i] = Frame(r, Cursor(r, x, i), Chunk(x, i), ~ valid /\ i = 1)
      BY <1>7
    <3> QED BY <3>1 DEF Frame
  <2>2. /\ R[i].epoch \in Nat /\ R[i].offset \in Nat \union {None} /\ R[i].data \in Seq(Units)
        /\ R[i].reset \in BOOLEAN /\ R[i].part \in {"whole", "head", "tail"}
    BY <1>1, <1>9, <1>10 DEF e, hi
  <2> QED BY <2>1, <2>2 DEF FrameType
<1>12. R \in Seq(FrameType) /\ Len(R) = c
  <2>1. R \in [1 .. c -> FrameType]
    BY <1>7, <1>11
  <2>2. R \in Seq(FrameType)
    <3>1. c \in Nat
      BY <1>6
    <3> QED BY <2>1, <3>1, SeqDef, Zenon
  <2>3. DOMAIN R = 1 .. c /\ DOMAIN R = 1 .. Len(R) /\ Len(R) \in Nat
    BY <2>1, <2>2, LenProperties
  <2> QED BY <1>6, <2>2, <2>3
<1> DEFINE to(i) == [epoch |-> e, at |-> start + Cut(x, i), asked |-> a.asked,
                     blank |-> FALSE, seen |-> TRUE]
           K == [i \in 1 .. c + 1 |-> IF i = 1 THEN a ELSE to(i - 1)]
<1>13. \A i \in 1 .. c : to(i) \in Mark
  BY <1>1, <1>6, <1>8 DEF Mark, e
<1>14. K \in [1 .. c + 1 -> Mark]
  <2>1. \A i \in 1 .. c + 1 : i # 1 => i - 1 \in 1 .. c
    BY <1>6
  <2> HIDE DEF to
  <2> QED BY <1>13, <2>1
<1>15. K[1] = a /\ \A i \in 1 .. c : K[i + 1] = to(i)
  <2>1. 1 \in 1 .. c + 1 /\ \A i \in 1 .. c : i + 1 \in 1 .. c + 1 /\ i + 1 # 1 /\ (i + 1) - 1 = i
    BY <1>6
  <2> HIDE DEF to
  <2> QED BY <2>1
<1> HIDE DEF K
<1>16. ASSUME NEW i \in 1 .. c PROVE Follows(L, K[i], R[i], K[i + 1])
  <2> DEFINE p == (i - 1) * d
             q == Cut(x, i)
             y == SubSeq(x, p + 1, q)
  <2>1. /\ p \in Nat /\ q \in Nat /\ p <= q /\ Len(y) = q - p /\ Stretch(L, y, e, start + p, start + q)
        /\ \A j \in 1 .. q - p : y[j] \notin Probes
        /\ R[i].epoch = e /\ R[i].part = "whole" /\ R[i].reset = (~valid /\ i = 1)
        /\ R[i].offset = (IF i = c THEN hi ELSE None) /\ R[i].data = y
    BY <1>6, <1>9, <1>10
  <2>2. K[i + 1].epoch = e /\ K[i + 1].at = start + q /\ K[i + 1].asked = a.asked
        /\ K[i + 1].blank = FALSE
    <3>1. K[i + 1] = to(i)
      BY <1>15
    <3> QED BY <3>1
  <2>3. i = c => start + q = hi
    BY <1>8 DEF Cut, c
  <2>4. K[i].asked = a.asked /\ a.asked <= a.asked
    <3>1. i = 1 \/ i - 1 \in 1 .. c
      BY <1>6
    <3>2. i - 1 \in 1 .. c => K[(i - 1) + 1] = to(i - 1) /\ (i - 1) + 1 = i
      BY <1>6, <1>15
    <3> QED BY <1>15, <3>1, <3>2 DEF Mark
  <2>5. ~ R[i].reset => K[i].epoch = e /\ K[i].at = start + p
    <3>1. CASE i = 1 /\ valid
      <4>1. p = 0 /\ start = req.offset /\ e = req.epoch
        <5>1. (1 - 1) * d = 0
          BY <1>1
        <5>2. req.epoch = e
          BY <3>1 DEF valid, Retained, e
        <5> QED BY <3>1, <5>1, <5>2 DEF start
      <4>2. a.epoch = req.epoch /\ a.at = req.offset
        BY <3>1 DEF valid
      <4>3. start + 0 = start
        BY <1>8
      <4> QED BY <1>15, <3>1, <4>1, <4>2, <4>3
    <3>2. CASE i # 1
      <4>1. i - 1 \in 1 .. c /\ (i - 1) + 1 = i /\ i - 1 # c
        BY <1>6, <3>2
      <4>2. K[i] = to(i - 1)
        BY <1>15, <4>1
      <4>3. Cut(x, i - 1) = p
        BY <4>1 DEF Cut, c, d
      <4> QED BY <4>2, <4>3
    <3> QED BY <2>1, <3>1, <3>2
  <2>6. OneQuery(y, K[i].asked, K[i + 1].asked)
    BY <2>1 DEF OneQuery
  <2> HIDE DEF p, q, y
  <2>7. K[i + 1].at - Len(R[i].data) = start + p
    BY <1>8, <2>1, <2>2
  <2> QED BY <2>1, <2>2, <2>3, <2>4, <2>5, <2>6, <2>7 DEF Follows
<1>17. to(c).epoch = e /\ to(c).at = hi /\ to(c).asked = a.asked /\ to(c).seen
  BY <1>8 DEF Cut, c
<1>18. c \in 1 .. c /\ K[c + 1] = to(c)
  BY <1>6, <1>15
<1>19. \A i \in 1 .. c + 1 : K[i].asked <= to(c).asked
  <2> TAKE i \in 1 .. c + 1
  <2>1. i = 1 \/ (i - 1 \in 1 .. c /\ (i - 1) + 1 = i)
    BY <1>6
  <2>2. K[i].asked = a.asked
    <3>1. CASE i = 1
      BY <1>15, <3>1
    <3>2. CASE i - 1 \in 1 .. c /\ (i - 1) + 1 = i
      <4>1. K[(i - 1) + 1] = to(i - 1)
        BY <1>15, <3>2
      <4> QED BY <3>2, <4>1
    <3> QED BY <2>1, <3>1, <3>2
  <2> QED BY <1>17, <2>2 DEF Mark
<1>20. Path(L, a, R, to(c)) /\ to(c) \in Mark
  <2> HIDE DEF to
  <2> QED BY <1>12, <1>13, <1>14, <1>15, <1>16, <1>18, <1>19 DEF Path
<1> HIDE DEF to
<1> QED BY <1>9, <1>12, <1>17, <1>20 DEF R, e, hi

-----------------------------------------------------------------------------
(* The ring holds the end of its epoch's output.                           *)
RingOf(r, L) ==
  /\ L \in Logs /\ L # <<>>
  /\ r = [epoch |-> r.epoch, offset |-> r.offset, held |-> r.held]
  /\ r.epoch = Len(L) /\ r.offset = Len(L[r.epoch])
  /\ r.held \in Seq(Units) /\ Len(r.held) <= Cap /\ IsTail(r.held, L[r.epoch])

LEMMA RingFacts ==
  ASSUME NEW r, NEW L, RingOf(r, L)
  PROVE  /\ L \in Logs /\ Len(L) \in Nat \ {0} /\ r.epoch = Len(L) /\ r.epoch \in 1 .. Len(L)
         /\ r.epoch \in Nat /\ r.offset = Len(L[r.epoch]) /\ r.offset \in Nat
         /\ L[r.epoch] \in Seq(Units)
<1>1. L \in Logs /\ L # <<>> /\ r.epoch = Len(L) /\ r.offset = Len(L[r.epoch])
  BY DEF RingOf
<1>2. Len(L) \in Nat \ {0}
  BY <1>1, EmptySeq DEF Logs
<1>3. r.epoch \in 1 .. Len(L)
  BY <1>1, <1>2
<1>4. L[r.epoch] \in Seq(Units) /\ Len(L[r.epoch]) \in Nat
  BY <1>1, <1>3, LogEntry
<1> QED BY <1>1, <1>2, <1>3, <1>4

LEMMA NewestTail ==
  ASSUME NEW s \in Seq(Units), NEW n \in Nat
  PROVE  /\ Newest(s, n) \in Seq(Units) /\ Len(Newest(s, n)) <= n /\ IsTail(Newest(s, n), s)
         /\ Len(Newest(s, n)) \in Nat
         /\ Newest(s, n) = s \/ Newest(s, n) = SubSeq(s, (Len(s) - Len(Newest(s, n))) + 1, Len(s))
<1> DEFINE m == Len(s)
           z == SubSeq(s, m - n + 1, m)
<1>1. m \in Nat
  BY LenProperties
<1>2. CASE m > n
  <2>1. Newest(s, n) = z
    BY <1>2 DEF Newest
  <2>2. \A i \in m - n + 1 .. m : s[i] \in Units
    <3>1. \A i \in 1 .. m : s[i] \in Units
      BY ElementOfSeq
    <3> HIDE DEF m
    <3> QED BY <1>1, <1>2, <3>1
  <2>3. m - n + 1 \in Int /\ m \in Int
    BY <1>1
  <2>4. /\ z \in Seq(Units) /\ Len(z) = IF m - n + 1 <= m THEN m - (m - n + 1) + 1 ELSE 0
        /\ \A i \in 1 .. m - (m - n + 1) + 1 : z[i] = s[m - n + 1 + i - 1]
    <3> HIDE DEF m
    <3> QED BY <2>2, <2>3, SubSeqProperties
  <2> HIDE DEF m, z
  <2>5. Len(z) = n /\ \A i \in 1 .. n : z[i] = s[m - n + i]
    <3>1. m - (m - n + 1) + 1 = n /\ (m - n + 1 <= m \/ n = 0)
          /\ \A i \in 1 .. n : m - n + 1 + i - 1 = m - n + i
      BY <1>1, <1>2
    <3> QED BY <2>4, <3>1
  <2>6. IsTail(z, s)
    BY <1>1, <1>2, <2>5 DEF IsTail, m
  <2>7. Len(z) \in Nat /\ Len(z) <= n /\ (m - Len(z)) + 1 = m - n + 1
    BY <1>1, <2>5
  <2>8. z = SubSeq(s, (m - Len(z)) + 1, m)
    BY <2>7 DEF z
  <2> QED BY <2>1, <2>4, <2>6, <2>7, <2>8 DEF m
<1>3. CASE ~ m > n
  <2>1. Newest(s, n) = s
    BY <1>3 DEF Newest
  <2>2. IsTail(s, s)
    <3> HIDE DEF m
    <3>1. m <= m /\ \A i \in 1 .. m : (m - m) + i = i
      BY <1>1
    <3> QED BY <3>1 DEF IsTail, m
  <2>3. m <= n
    BY <1>1, <1>3
  <2> QED BY <1>1, <2>1, <2>2, <2>3
<1> QED BY <1>2, <1>3

LEMMA TailOfTail ==
  ASSUME NEW s, NEW t, NEW u, Len(s) \in Nat, Len(t) \in Nat, Len(u) \in Nat,
         IsTail(s, t), IsTail(t, u)
  PROVE  IsTail(s, u)
<1> DEFINE l == Len(s)
           m == Len(t)
           n == Len(u)
<1>1. /\ l <= m /\ \A i \in 1 .. l : s[i] = t[(m - l) + i]
      /\ m <= n /\ \A i \in 1 .. m : t[i] = u[(n - m) + i]
  BY DEF IsTail
<1>2. l \in Nat /\ m \in Nat /\ n \in Nat
  OBVIOUS
<1> HIDE DEF l, m, n
<1>3. l <= n
  BY <1>1, <1>2
<1>4. ASSUME NEW i \in 1 .. l PROVE s[i] = u[(n - l) + i]
  <2>1. (m - l) + i \in 1 .. m /\ (n - m) + ((m - l) + i) = (n - l) + i
    BY <1>1, <1>2
  <2>2. t[(m - l) + i] = u[(n - m) + ((m - l) + i)]
    BY <1>1, <2>1
  <2> QED BY <1>1, <2>1, <2>2
<1> QED BY <1>3, <1>4 DEF IsTail, l, m, n

LEMMA TailJoins ==
  ASSUME NEW s \in Seq(Units), NEW t \in Seq(Units), NEW d \in Seq(Units), IsTail(s, t)
  PROVE  IsTail(s \o d, t \o d)
<1> DEFINE l == Len(s)
           m == Len(t)
           k == Len(d)
           x == s \o d
           y == t \o d
<1>1. l \in Nat /\ m \in Nat /\ k \in Nat
  BY LenProperties
<1>2. l <= m /\ \A i \in 1 .. l : s[i] = t[(m - l) + i]
  BY DEF IsTail
<1>3. /\ Len(x) = l + k /\ \A i \in 1 .. l + k : x[i] = IF i <= l THEN s[i] ELSE d[i - l]
      /\ Len(y) = m + k /\ \A i \in 1 .. m + k : y[i] = IF i <= m THEN t[i] ELSE d[i - m]
  BY ConcatProperties
<1> HIDE DEF l, m, k, x, y
<1>4. ASSUME NEW i \in 1 .. l + k PROVE x[i] = y[((m + k) - (l + k)) + i]
  <2> DEFINE j == ((m + k) - (l + k)) + i
  <2>1. j \in 1 .. m + k /\ j = (m - l) + i
    BY <1>1, <1>2
  <2>2. CASE i <= l
    <3>1. i \in 1 .. l /\ j <= m
      BY <1>1, <1>2, <2>1, <2>2
    <3> QED BY <1>2, <1>3, <2>1, <2>2, <3>1
  <2>3. CASE ~ i <= l
    <3>1. ~ j <= m /\ j - m = i - l
      BY <1>1, <1>2, <2>1, <2>3
    <3> QED BY <1>3, <2>1, <2>3, <3>1
  <2> QED BY <2>2, <2>3
<1>5. l + k <= m + k
  BY <1>1, <1>2
<1>6. IsTail(x, y)
  BY <1>3, <1>4, <1>5 DEF IsTail
<1> QED BY <1>6 DEF x, y

(* What is written is kept, up to the capacity.                            *)
LEMMA HeldTail ==
  ASSUME NEW s \in Seq(Units), NEW t \in Seq(Units), NEW d \in Seq(Units), IsTail(s, t)
  PROVE  /\ Newest(s \o d, Cap) \in Seq(Units) /\ Len(Newest(s \o d, Cap)) <= Cap
         /\ IsTail(Newest(s \o d, Cap), t \o d)
<1>1. Cap \in Nat
  BY BoundsAreNaturals
<1>2. s \o d \in Seq(Units) /\ t \o d \in Seq(Units)
  BY ConcatProperties
<1>3. Len(s \o d) \in Nat /\ Len(t \o d) \in Nat
  BY <1>2, LenProperties
<1>4. IsTail(s \o d, t \o d)
  BY TailJoins
<1>5. /\ Newest(s \o d, Cap) \in Seq(Units) /\ Len(Newest(s \o d, Cap)) <= Cap
      /\ Len(Newest(s \o d, Cap)) \in Nat
      /\ IsTail(Newest(s \o d, Cap), s \o d)
  BY <1>1, <1>2, NewestTail
<1> QED BY <1>3, <1>4, <1>5, TailOfTail

IsRing(r) == r = [epoch |-> r.epoch, offset |-> r.offset, held |-> r.held]

LEMMA Written ==
  ASSUME NEW r, IsRing(r), NEW d
  PROVE  Write(r, d) = [epoch |-> r.epoch, offset |-> r.offset + Len(d),
                        held |-> Newest(r.held \o d, Cap)]
<1> DEFINE e == r.epoch
           h == r.held
           x == r.offset + Len(d)
           y == Newest(r.held \o d, Cap)
<1>1. PICK n : r = [epoch |-> e, offset |-> n, held |-> h]
  BY DEF IsRing
<1>2. Write(r, d) = [r EXCEPT !.offset = x, !.held = y]
  BY DEF Write
<1> HIDE DEF e, h, x, y
<1>3. [r EXCEPT !.offset = x, !.held = y] = [[r EXCEPT !.offset = x] EXCEPT !.held = y]
  BY <1>1
<1>4. [r EXCEPT !.offset = x] = [epoch |-> e, offset |-> x, held |-> h]
  BY <1>1
<1>5. [[epoch |-> e, offset |-> x, held |-> h] EXCEPT !.held = y]
        = [epoch |-> e, offset |-> x, held |-> y]
  OBVIOUS
<1> QED BY <1>2, <1>3, <1>4, <1>5 DEF e, x, y

(* The log M is L with a unit more of epoch e.                             *)
Grown(M, L, e, u) == M = [L EXCEPT ![e] = @ \o <<u>>]

LEMMA WriteKeeps ==
  ASSUME NEW r, NEW L, RingOf(r, L), NEW u \in Units, NEW M, Grown(M, L, r.epoch, u)
  PROVE  /\ RingOf(Write(r, <<u>>), M) /\ Continues(M, L) /\ Len(M) = Len(L)
         /\ Write(r, <<u>>).epoch = r.epoch /\ Write(r, <<u>>).offset = r.offset + 1
         /\ M[r.epoch] = L[r.epoch] \o <<u>> /\ \A e \in 1 .. Len(L) : e # r.epoch => M[e] = L[e]
         /\ M[r.epoch][r.offset + 1] = u
<1> DEFINE e == r.epoch
           n == r.offset
           d == <<u>>
           w == Write(r, d)
           t == L[e]
<1>1. /\ L \in Logs /\ Len(L) \in Nat \ {0} /\ e = Len(L) /\ e \in 1 .. Len(L)
      /\ n = Len(t) /\ n \in Nat /\ t \in Seq(Units)
  BY RingFacts
<1>2. /\ r = [epoch |-> e, offset |-> n, held |-> r.held]
      /\ r.held \in Seq(Units) /\ IsTail(r.held, t)
  BY DEF RingOf
<1>3. d \in Seq(Units) /\ Len(d) = 1 /\ d[1] = u
  OBVIOUS
<1>4. w = [epoch |-> e, offset |-> n + 1, held |-> Newest(r.held \o d, Cap)]
  <2>1. IsRing(r)
    BY <1>2 DEF IsRing
  <2>2. Write(r, d) = [epoch |-> e, offset |-> n + Len(d), held |-> Newest(r.held \o d, Cap)]
    BY <2>1, Written, Zenon
  <2> HIDE DEF e, n, d
  <2> QED BY <1>3, <2>2
<1>5. /\ t \o d \in Seq(Units) /\ Len(t \o d) = n + 1
      /\ \A i \in 1 .. n + 1 : (t \o d)[i] = IF i <= n THEN t[i] ELSE d[i - n]
  BY <1>1, <1>3, ConcatProperties
<1>6. /\ M \in Logs /\ Len(M) = Len(L) /\ M[e] = t \o d
      /\ \A k \in 1 .. Len(L) : k # e => M[k] = L[k]
  <2>1. M = [L EXCEPT ![e] = L[e] \o <<u>>]
    BY DEF Grown
  <2>2. M = [L EXCEPT ![e] = t \o d]
    BY <2>1, Zenon
  <2> DEFINE v == t \o d
  <2>3. L \in Seq(Seq(Units)) /\ e \in 1 .. Len(L) /\ v \in Seq(Units)
    BY <1>1, <1>5 DEF Logs
  <2> HIDE DEF t, e, d, v
  <2>4. /\ [L EXCEPT ![e] = v] \in Seq(Seq(Units)) /\ Len([L EXCEPT ![e] = v]) = Len(L)
        /\ \A k \in 1 .. Len(L) : [L EXCEPT ![e] = v][k] = IF k = e THEN v ELSE L[k]
    BY <2>3, ExceptSeq
  <2>5. M = [L EXCEPT ![e] = v]
    BY <2>2 DEF v
  <2>6. M[e] = v /\ \A k \in 1 .. Len(L) : k # e => M[k] = L[k]
    BY <2>3, <2>4, <2>5
  <2> QED BY <2>4, <2>5, <2>6 DEF Logs, v
<1>7. M # <<>>
  BY <1>1, <1>6
<1>8. (t \o d)[n + 1] = u /\ \A i \in 1 .. n : (t \o d)[i] = t[i]
  <2>1. n + 1 \in 1 .. n + 1 /\ ~ (n + 1 <= n) /\ (n + 1) - n = 1
        /\ \A i \in 1 .. n : i \in 1 .. n + 1 /\ i <= n
    BY <1>1
  <2> QED BY <1>3, <1>5, <2>1
<1>9. /\ Newest(r.held \o d, Cap) \in Seq(Units) /\ Len(Newest(r.held \o d, Cap)) <= Cap
      /\ IsTail(Newest(r.held \o d, Cap), t \o d)
  BY <1>1, <1>2, <1>3, HeldTail
<1> HIDE DEF e, n, d, w, t
<1>10. RingOf(w, M)
  BY <1>1, <1>4, <1>5, <1>6, <1>7, <1>9 DEF RingOf
<1>11. Continues(M, L)
  <2>1. ASSUME NEW k \in 1 .. Len(L)
        PROVE  Len(L[k]) <= Len(M[k]) /\ \A i \in 1 .. Len(L[k]) : M[k][i] = L[k][i]
    <3>1. CASE k = e
      <4>1. L[k] = t /\ M[k] = t \o d
        BY <1>6, <3>1 DEF t
      <4>2. n <= n + 1
        BY <1>1
      <4> QED BY <1>1, <1>5, <1>8, <4>1, <4>2
    <3>2. CASE k # e
      <4>1. M[k] = L[k] /\ Len(L[k]) \in Nat
        BY <1>1, <1>6, <3>2, LogEntry
      <4> QED BY <4>1
    <3> QED BY <3>1, <3>2
  <2>2. Len(L) <= Len(M)
    BY <1>1, <1>6
  <2> QED BY <2>1, <2>2 DEF Continues
<1>12. w.epoch = e /\ w.offset = n + 1
  BY <1>4
<1>13. M[e][n + 1] = u
  BY <1>6, <1>8
<1> QED BY <1>6, <1>10, <1>11, <1>12, <1>13, Zenon DEF e, n, d, w, t

LEMMA AppendContinues ==
  ASSUME NEW L \in Logs, NEW old \in Seq(Units)
  PROVE  /\ Append(L, old) \in Logs /\ Continues(Append(L, old), L)
         /\ Append(L, old) # <<>> /\ Len(Append(L, old)) = Len(L) + 1
         /\ Append(L, old)[Len(L) + 1] = old /\ \A e \in 1 .. Len(L) : Append(L, old)[e] = L[e]
<1>1. /\ Append(L, old) \in Logs /\ Append(L, old) # <<>> /\ Len(Append(L, old)) = Len(L) + 1
      /\ Append(L, old)[Len(L) + 1] = old /\ \A e \in 1 .. Len(L) : Append(L, old)[e] = L[e]
  BY AppendProperties DEF Logs
<1>2. Len(L) \in Nat
  BY LenProperties DEF Logs
<1>3. \A e \in 1 .. Len(L) : Len(L[e]) \in Nat
  BY LogEntry
<1>4. \A e \in 1 .. Len(L) : Len(L[e]) <= Len(Append(L, old)[e])
  BY <1>1, <1>3
<1>5. Continues(Append(L, old), L)
  BY <1>1, <1>2, <1>4 DEF Continues
<1> QED BY <1>1, <1>5

LEMMA EpochBegins ==
  ASSUME NEW L \in Logs, NEW old \in Seq(Units), NEW r,
         r = [epoch |-> Len(L) + 1, offset |-> 0, held |-> <<>>]
  PROVE  /\ RingOf(Write(r, old), Append(L, old)) /\ Write(r, old).epoch = Len(L) + 1
         /\ old = <<>> => RingOf(r, Append(L, old))
<1>1. Len(L) \in Nat /\ Len(old) \in Nat /\ Cap \in Nat
  BY LenProperties, BoundsAreNaturals DEF Logs
<1>2. <<>> \o old = old
  BY ConcatEmptySeq
<1>3. /\ Newest(old, Cap) \in Seq(Units) /\ Len(Newest(old, Cap)) <= Cap
      /\ IsTail(Newest(old, Cap), old)
  BY <1>1, NewestTail
<1>4. Write(r, old) = [epoch |-> Len(L) + 1, offset |-> Len(old), held |-> Newest(old, Cap)]
  <2>3. IsRing(r) /\ r.epoch = Len(L) + 1 /\ r.offset = 0 /\ r.held = <<>>
    BY DEF IsRing
  <2>4. Write(r, old) = [epoch |-> r.epoch, offset |-> r.offset + Len(old),
                         held |-> Newest(r.held \o old, Cap)]
    BY <2>3, Written, Zenon
  <2>1. Write(r, old) = [epoch |-> Len(L) + 1, offset |-> 0 + Len(old),
                         held |-> Newest(<<>> \o old, Cap)]
    BY <2>3, <2>4
  <2>2. 0 + Len(old) = Len(old)
    BY <1>1
  <2> QED BY <1>2, <2>1, <2>2
<1>5. /\ Append(L, old) \in Logs /\ Append(L, old) # <<>> /\ Len(Append(L, old)) = Len(L) + 1
      /\ Append(L, old)[Len(L) + 1] = old
  BY AppendContinues
<1>6. RingOf(Write(r, old), Append(L, old))
  BY <1>3, <1>4, <1>5 DEF RingOf
<1>7. old = <<>> => r = Write(r, old)
  <2>1. Newest(<<>>, Cap) = <<>> /\ Len(<<>>) = 0
    BY <1>1 DEF Newest
  <2> QED BY <1>4, <2>1
<1> QED BY <1>4, <1>6, <1>7

-----------------------------------------------------------------------------
(* The shapes of the variables.                                            *)
ConnTypes ==
  /\ client \in {"none", "pending", "resumed"} /\ clientEpoch \in Nat
  /\ queue \in Seq(FrameType) /\ deadline \in BOOLEAN

PipeTypes ==
  /\ link \in {"down", "ready", "asked", "open", "closing"}
  /\ request \in [epoch : Nat, offset : Nat] /\ wire \in Seq(FrameType)

CacheType(c) == c \in Caches /\ (c # None => Len(c.data) <= Limit)

PageTypes ==
  /\ CacheType(cache) /\ CacheType(stored)
  /\ loading \in {"reading", "late", "done"} /\ first \in BOOLEAN /\ torn \in BOOLEAN
  /\ screen \in Seq(Units) /\ answered \in [Probes -> Nat]

Types == RingOf(ring, log) /\ produced \in Nat /\ ConnTypes /\ PipeTypes /\ PageTypes

LEMMA TypesAreOK == Types => TypeOK
<1> SUFFICES ASSUME Types PROVE TypeOK
  OBVIOUS
<1>1. /\ ring.epoch = Len(log) /\ ring.offset = Len(log[ring.epoch])
      /\ Len(ring.held) <= Cap /\ IsTail(ring.held, log[ring.epoch]) /\ log \in Seq(Seq(Units))
  BY DEF Types, RingOf, Logs
<1>2. ConnTypes /\ PipeTypes /\ PageTypes /\ produced \in Nat
  BY DEF Types
<1> QED BY <1>1, <1>2, Zenon DEF TypeOK, ConnTypes, PipeTypes, PageTypes, CacheType

LEMMA UnitsAre == Nat \subseteq Units /\ Gone \in Units
  BY DEF Units

LEMMA ReplayTypes ==
  ASSUME NEW r, NEW L, RingOf(r, L), NEW req \in [epoch : Nat, offset : Nat]
  PROVE  Resume(r, req) \in Seq(FrameType)
<1> DEFINE a == [epoch |-> req.epoch, at |-> req.offset, asked |-> 0,
                 blank |-> FALSE, seen |-> FALSE]
<1>1. a \in Mark /\ a.epoch = req.epoch /\ a.at = req.offset
  BY DEF Mark
<1> HIDE DEF a
<1>2. /\ L \in Logs /\ r.epoch \in 1 .. Len(L) /\ r.held \in Seq(Units)
      /\ IsTail(r.held, L[r.epoch]) /\ r.offset = Len(L[r.epoch])
  BY RingFacts DEF RingOf
<1> QED BY <1>1, <1>2, ResumePath, ProbesAreUnits

LEMMA FrameTypes ==
  ASSUME NEW r, NEW L, RingOf(r, L), NEW x \in Seq(Units), NEW reset \in BOOLEAN
  PROVE  Frame(r, r.offset, x, reset) \in FrameType
<1>1. r.epoch \in Nat /\ r.offset \in Nat
  BY RingFacts
<1> QED BY <1>1 DEF Frame, FrameType

LEMMA NothingIsRequest == Nothing \in [epoch : Nat, offset : Nat]
  BY DEF Nothing

LEMMA OneFrame == ASSUME NEW f \in FrameType PROVE <<f>> \in Seq(FrameType)
  OBVIOUS

LEMMA LiveTypes ==
  ASSUME NEW r, NEW L, RingOf(r, L), NEW x \in Seq(Units)
  PROVE  LiveFrames(r, x) \in Seq(FrameType)
<1>1. Resume(r, Nothing) \in Seq(FrameType)
  BY ReplayTypes, NothingIsRequest
<1>2. Frame(r, r.offset, x, FALSE) \in FrameType
  BY FrameTypes
<1>3. <<Frame(r, r.offset, x, FALSE)>> \in Seq(FrameType)
  BY <1>2, OneFrame
<1> QED BY <1>1, <1>3 DEF LiveFrames

LEMMA NoFrames == <<>> \in Seq(FrameType)
  OBVIOUS

LEMMA DropTypes ==
  ASSUME PipeTypes, DropClient
  PROVE  ConnTypes' /\ link' \in {"down", "ready", "asked", "open", "closing"}
<1>1. link \in {"down", "ready", "asked", "open", "closing"}
  BY DEF PipeTypes
<1>2. /\ client' = "none" /\ clientEpoch' = 0 /\ queue' = <<>> /\ deadline' = FALSE
      /\ link' = IF client = "none" THEN link ELSE "closing"
  BY DEF DropClient
<1>3. ConnTypes'
  BY <1>2, NoFrames DEF ConnTypes
<1> QED BY <1>1, <1>2, <1>3

LEMMA OutputWrites ==
  ASSUME Types, Output
  PROVE  LET u == produced + 1 IN
         /\ u \in Units /\ ring' = Write(ring, <<u>>)
         /\ Grown(log', log, ring.epoch, u)
         /\ produced' = u /\ produced' \in Nat /\ Broadcast(ring', <<u>>)
<1>1. produced \in Nat
  BY DEF Types
<1>2. produced + 1 \in Units
  BY <1>1, UnitsAre
<1> QED BY <1>1, <1>2 DEF Output, Grown

LEMMA OutputTypes == ASSUME Types, Output PROVE Types'
<1> DEFINE u == produced + 1
<1>1. /\ u \in Units /\ ring' = Write(ring, <<u>>)
      /\ Grown(log', log, ring.epoch, u) /\ produced' \in Nat /\ Broadcast(ring', <<u>>)
  BY OutputWrites
<1> HIDE DEF u
<1>2. RingOf(ring', log')
  BY <1>1, WriteKeeps DEF Types
<1>3. UNCHANGED <<request, wire, page>>
  BY DEF Output
<1>4. ConnTypes /\ PipeTypes /\ PageTypes
  BY DEF Types
<1>5. PageTypes'
  BY <1>3, <1>4 DEF PageTypes, page, CacheType
<1>6. ConnTypes' /\ link' \in {"down", "ready", "asked", "open", "closing"}
  <2>1. CASE UNCHANGED <<conn, link>>
    BY <1>4, <2>1 DEF ConnTypes, PipeTypes, conn
  <2>2. CASE DropClient
    BY <1>4, <2>2, DropTypes
  <2>3. CASE /\ queue' = queue \o LiveFrames(ring', <<u>>) /\ clientEpoch' = ring'.epoch
             /\ UNCHANGED <<client, deadline, link>>
    <3>1. LiveFrames(ring', <<u>>) \in Seq(FrameType)
      <4>1. <<u>> \in Seq(Units)
        BY <1>1
      <4> QED BY <1>2, <4>1, LiveTypes
    <3>2. queue' \in Seq(FrameType)
      BY <1>4, <2>3, <3>1, ConcatProperties DEF ConnTypes
    <3>3. clientEpoch' \in Nat
      BY <1>2, <2>3, RingFacts
    <3> QED BY <1>4, <2>3, <3>2, <3>3 DEF ConnTypes, PipeTypes
  <2> QED BY <1>1, <2>1, <2>2, <2>3, Zenon DEF Broadcast
<1>7. PipeTypes'
  BY <1>3, <1>4, <1>6 DEF PipeTypes
<1> QED BY <1>1, <1>2, <1>5, <1>6, <1>7 DEF Types

LEMMA ShellExitBegins ==
  ASSUME Types, ShellExit
  PROVE  /\ RingOf(ring', log') /\ log' = Append(log, <<>>) /\ ring'.epoch = Len(log) + 1
         /\ ring'.offset = 0 /\ Continues(log', log) /\ UNCHANGED <<produced, conn, pipe, page>>
<1>1. log \in Logs /\ <<>> \in Seq(Units)
  BY RingFacts DEF Types
<1>2. ring' = Cleared /\ log' = Append(log, <<>>) /\ UNCHANGED <<produced, conn, pipe, page>>
  BY DEF ShellExit
<1> QED BY <1>1, <1>2, EpochBegins, AppendContinues DEF Cleared

LEMMA RestartBegins ==
  ASSUME Types, Restart
  PROVE  /\ RingOf(ring', log') /\ \E old \in Seq(Units) : log' = Append(log, old)
         /\ ring'.epoch = Len(log) + 1
         /\ Continues(log', log) /\ DropClient /\ UNCHANGED <<produced, request, wire, page>>
<1>1. log \in Logs /\ ring.held \in Seq(Units)
  BY RingFacts DEF Types, RingOf
<1>2. PICK old \in {<<>>, Append(Strip(ring.held), Banner)} :
        ring' = Write(Cleared, old) /\ log' = Append(log, old)
  BY DEF Restart
<1>3. old \in Seq(Units)
  <2>1. Strip(ring.held) \in Seq(Units) /\ Banner \in Units
    BY <1>1, StripText, UnitsAre DEF Banner
  <2>2. Append(Strip(ring.held), Banner) \in Seq(Units)
    BY <2>1, AppendProperties
  <2>3. <<>> \in Seq(Units)
    OBVIOUS
  <2> QED BY <1>2, <2>2, <2>3
<1>4. DropClient /\ UNCHANGED <<produced, request, wire, page>>
  BY DEF Restart
<1> QED BY <1>1, <1>2, <1>3, <1>4, EpochBegins, AppendContinues DEF Cleared

LEMMA EpochTypes == ASSUME Types, ShellExit \/ Restart PROVE Types'
<1>1. RingOf(ring', log') /\ UNCHANGED <<produced, request, wire, page>>
  <2>1. CASE ShellExit
    BY <2>1, ShellExitBegins DEF pipe
  <2>2. CASE Restart
    BY <2>2, RestartBegins
  <2> QED BY <2>1, <2>2
<1>2. ConnTypes /\ PipeTypes /\ PageTypes /\ produced \in Nat
  BY DEF Types
<1>3. PageTypes'
  BY <1>1, <1>2 DEF PageTypes, page, CacheType
<1>4. ConnTypes' /\ link' \in {"down", "ready", "asked", "open", "closing"}
  <2>1. CASE ShellExit
    BY <1>2, <2>1, ShellExitBegins DEF ConnTypes, PipeTypes, conn, pipe
  <2>2. CASE Restart
    BY <1>2, <2>2, RestartBegins, DropTypes
  <2> QED BY <2>1, <2>2
<1>5. PipeTypes'
  BY <1>1, <1>2, <1>4 DEF PipeTypes
<1> QED BY <1>1, <1>2, <1>3, <1>4, <1>5 DEF Types

LEMMA FrameParts ==
  ASSUME NEW f \in FrameType
  PROVE  /\ f.epoch \in Nat /\ f.offset \in Nat \union {None} /\ f.data \in Seq(Units)
         /\ f.reset \in BOOLEAN /\ f.part \in {"whole", "head", "tail"}
         /\ \A p \in {"whole", "head", "tail"} :
              LET g == [f EXCEPT !.part = p] IN
              /\ g \in FrameType /\ g.part = p /\ g.epoch = f.epoch /\ g.offset = f.offset
              /\ g.data = f.data /\ g.reset = f.reset
  BY DEF FrameType

LEMMA QueueParts ==
  ASSUME NEW q \in Seq(FrameType), q # <<>>
  PROVE  /\ Head(q) \in FrameType /\ Tail(q) \in Seq(FrameType) /\ q = <<Head(q)>> \o Tail(q)
         /\ Len(q) \in Nat /\ Len(Tail(q)) = Len(q) - 1
<1>1. /\ Head(q) \in FrameType /\ Tail(q) \in Seq(FrameType) /\ Len(q) \in Nat
      /\ Len(Tail(q)) = Len(q) - 1 /\ \A i \in 1 .. Len(Tail(q)) : Tail(q)[i] = q[i + 1]
  BY HeadTailProperties, LenProperties
<1>2. Len(q) \in Nat \ {0} /\ Head(q) = q[1]
  BY EmptySeq
<1> DEFINE h == <<Head(q)>>
           t == Tail(q)
           n == Len(q)
<1>3. h \in Seq(FrameType) /\ Len(h) = 1 /\ h[1] = q[1]
  BY <1>1, <1>2
<1> HIDE DEF h, t
<1>4. /\ h \o t \in Seq(FrameType) /\ Len(h \o t) = Len(h) + Len(t)
      /\ \A i \in 1 .. Len(h) + Len(t) : (h \o t)[i] = IF i <= Len(h) THEN h[i] ELSE t[i - Len(h)]
  <2>1. t \in Seq(FrameType)
    BY <1>1 DEF t
  <2> QED BY <1>3, <2>1, ConcatProperties
<1>5. Len(h \o t) = n /\ \A i \in 1 .. n : (h \o t)[i] = IF i <= 1 THEN h[i] ELSE t[i - 1]
  BY <1>1, <1>2, <1>3, <1>4 DEF t
<1>6. \A i \in 1 .. n : (h \o t)[i] = q[i]
  <2> TAKE i \in 1 .. n
  <2> HIDE DEF n
  <2>1. n \in Nat \ {0} /\ Len(t) = n - 1
    BY <1>1, <1>2 DEF n, t
  <2>2. CASE i = 1
    BY <1>3, <1>5, <2>2
  <2>3. CASE i # 1
    <3>1. i - 1 \in 1 .. Len(t) /\ (i - 1) + 1 = i /\ ~ (i <= 1)
      BY <2>1, <2>3
    <3>2. t[i - 1] = q[(i - 1) + 1]
      BY <1>1, <3>1 DEF t
    <3> QED BY <1>5, <3>1, <3>2
  <2> QED BY <2>2, <2>3
<1>7. h \o t = q
  BY <1>4, <1>5, <1>6, SeqEqual
<1> QED BY <1>1, <1>7 DEF h, t

LEMMA HandshakeTypes == ASSUME Types, Connect \/ Ask \/ Accept PROVE Types'
<1> USE DEF Types, ConnTypes, PipeTypes, PageTypes
<1>1. CASE Connect
  BY <1>1, NoFrames DEF Connect, daemon, conn, CacheType
<1>2. CASE Ask
  <2>1. request' \in [epoch : Nat, offset : Nat]
    <3>1. CASE Usable(cache)
      <4>1. cache \in [epoch : Nat, offset : Nat \union {None}, data : Seq(Units)]
            /\ cache.offset # None
        BY <3>1 DEF Usable, CacheType, Caches
      <4> QED BY <1>2, <3>1, <4>1 DEF Ask
    <3>2. CASE ~ Usable(cache)
      BY <1>2, <3>2, NothingIsRequest DEF Ask
    <3> QED BY <3>1, <3>2
  <2> QED BY <1>2, <2>1 DEF Ask, daemon, conn, page, CacheType
<1>3. CASE Accept
  BY <1>3 DEF Accept, daemon, pipe, page, CacheType
<1> QED BY <1>1, <1>2, <1>3

LEMMA ServeTypes == ASSUME Types, ServeRequest PROVE Types'
<1>1. Resume(ring, request) \in Seq(FrameType) /\ ring.epoch \in Nat
  BY ReplayTypes, RingFacts DEF Types, PipeTypes
<1> QED BY <1>1 DEF Types, ConnTypes, PipeTypes, PageTypes, ServeRequest, daemon, page, CacheType

LEMMA FlushTypes == ASSUME Types, NEW half \in BOOLEAN, Flush(half) PROVE Types'
<1>1. /\ queue \in Seq(FrameType) /\ queue # <<>> /\ wire \in Seq(FrameType)
      /\ UNCHANGED <<daemon, client, clientEpoch, link, request, page, faults>>
      /\ deadline \in BOOLEAN
  BY DEF Flush, Types, ConnTypes, PipeTypes
<1>2. Head(queue) \in FrameType /\ Tail(queue) \in Seq(FrameType)
  BY <1>1, QueueParts
<1>3. queue' \in Seq(FrameType) /\ wire' \in Seq(FrameType) /\ deadline' \in BOOLEAN
  <2>1. CASE half
    <3>1. /\ wire' = Append(wire, [Head(queue) EXCEPT !.part = "head"])
          /\ queue' = <<[Head(queue) EXCEPT !.part = "tail"]>> \o Tail(queue)
          /\ deadline' = deadline
      BY <2>1 DEF Flush
    <3>2. /\ [Head(queue) EXCEPT !.part = "head"] \in FrameType
          /\ [Head(queue) EXCEPT !.part = "tail"] \in FrameType
      BY <1>2, FrameParts
    <3>3. <<[Head(queue) EXCEPT !.part = "tail"]>> \in Seq(FrameType)
      BY <3>2, OneFrame
    <3> QED BY <1>1, <1>2, <3>1, <3>2, <3>3, AppendProperties, ConcatProperties
  <2>2. CASE ~ half
    <3>1. /\ wire' = Append(wire, Head(queue)) /\ queue' = Tail(queue)
          /\ deadline' = (deadline /\ Tail(queue) # <<>>)
      BY <2>2 DEF Flush
    <3> QED BY <1>1, <1>2, <3>1, AppendProperties
  <2> QED BY <2>1, <2>2
<1> QED BY <1>1, <1>3 DEF Types, ConnTypes, PipeTypes, PageTypes, daemon, page, CacheType

LEMMA SnapshotTypes == ASSUME Types PROVE Snapshot \in FrameType
<1>1. ring.held \in Seq(Units) /\ Screen \in Nat
  BY BoundsAreNaturals DEF Types, RingOf
<1>2. Newest(Strip(ring.held), Screen) \in Seq(Units)
  BY <1>1, StripText, NewestTail
<1> QED BY <1>2, FrameTypes DEF Snapshot, Types

LEMMA BudgetTypes == ASSUME Types, BudgetOver PROVE Types'
<1>1. <<Snapshot>> \in Seq(FrameType)
  BY SnapshotTypes, OneFrame
<1>2. /\ queue' \in {<<Snapshot>>, queue} /\ deadline' = FALSE
      /\ UNCHANGED <<daemon, client, clientEpoch, pipe, page, faults>>
  BY DEF BudgetOver
<1> QED BY <1>1, <1>2
        DEF Types, ConnTypes, PipeTypes, PageTypes, daemon, pipe, page, CacheType

LEMMA LinkDownTypes ==
  ASSUME Types, LinkDown
  PROVE  ConnTypes' /\ PipeTypes' /\ RingOf(ring', log') /\ produced' \in Nat
  BY NoFrames DEF Types, ConnTypes, PipeTypes, LinkDown, daemon

LEMMA DownTypes == ASSUME Types, Drop \/ Drained PROVE Types'
<1>1. LinkDown /\ UNCHANGED page
  BY DEF Drop, Drained
<1> QED BY <1>1, LinkDownTypes DEF Types, PageTypes, page, CacheType

LEMMA FromCacheType == ASSUME PageTypes PROVE FromCache \in Seq(Units)
<1>1. CASE cache # None
  <2>1. cache.data \in Seq(Units)
    BY <1>1 DEF PageTypes, CacheType, Caches
  <2> QED BY <1>1, <2>1, StripText DEF FromCache
<1>2. CASE cache = None
  BY <1>2 DEF FromCache
<1> QED BY <1>1, <1>2

(* What a page remembers after a frame: nothing, the cache of another      *)
(* epoch, or its text with the frame's behind it.                          *)
LEMMA RememberedIs ==
  ASSUME PageTypes, NEW f \in FrameType
  PROVE  \/ Remembered(f) = None
         \/ /\ ~ f.reset /\ cache # None /\ cache.epoch # f.epoch /\ Remembered(f) = cache
         \/ \E old \in Seq(Units) :
              /\ Remembered(f) = [epoch |-> f.epoch, offset |-> f.offset, data |-> old \o f.data]
              /\ Len(old \o f.data) <= Limit
              /\ IF f.reset THEN old = <<>>
                 ELSE cache # None /\ cache.epoch = f.epoch /\ old = cache.data
<1> DEFINE base == Base(f)
           old == base.data
<1>1. CASE base = None
  BY <1>1 DEF Remembered
<1>2. CASE base # None /\ base.epoch # f.epoch
  <2>1. Remembered(f) = base
    BY <1>2 DEF Remembered
  <2>2. ~ f.reset
    BY <1>2 DEF Base
  <2> QED BY <1>2, <2>1, <2>2 DEF Base
<1>3. CASE base # None /\ base.epoch = f.epoch
  <2>1. f.data \in Seq(Units) /\ Limit \in Nat
    BY FrameParts, BoundsAreNaturals
  <2>2. /\ old \in Seq(Units)
        /\ IF f.reset THEN old = <<>>
           ELSE cache # None /\ cache.epoch = f.epoch /\ old = cache.data
    <3>1. CASE f.reset
      BY <3>1 DEF Base
    <3>2. CASE ~ f.reset
      BY <1>3, <3>2 DEF Base, PageTypes, CacheType, Caches
    <3> QED BY <3>1, <3>2
  <2>3. Remembered(f) = IF Len(old) + Len(f.data) > Limit THEN None
                        ELSE [epoch |-> f.epoch, offset |-> f.offset, data |-> old \o f.data]
    BY <1>3 DEF Remembered
  <2> HIDE DEF old
  <2>4. Len(old \o f.data) = Len(old) + Len(f.data) /\ Len(old) \in Nat /\ Len(f.data) \in Nat
    BY <2>1, <2>2, ConcatProperties, LenProperties
  <2>5. CASE Len(old) + Len(f.data) > Limit
    BY <2>3, <2>5
  <2>6. CASE ~ Len(old) + Len(f.data) > Limit
    <3>1. Len(old \o f.data) <= Limit
      BY <2>1, <2>4, <2>6
    <3> QED BY <2>2, <2>3, <2>6, <3>1
  <2> QED BY <2>5, <2>6
<1> QED BY <1>1, <1>2, <1>3

LEMMA ReceiveTypes == ASSUME Types, Receive PROVE Types'
<1> DEFINE f == Head(wire)
<1>1. ConnTypes /\ PipeTypes /\ PageTypes /\ wire # <<>> /\ wire \in Seq(FrameType)
  BY DEF Types, PipeTypes, Receive
<1>2. f \in FrameType /\ wire' \in Seq(FrameType)
  BY <1>1, QueueParts DEF Receive
<1>3. UNCHANGED <<daemon, conn, link, request, loading, stored, faults>>
  BY DEF Receive
<1>4. ConnTypes' /\ PipeTypes' /\ RingOf(ring', log') /\ produced' \in Nat
  BY <1>1, <1>2, <1>3 DEF Types, ConnTypes, PipeTypes, daemon, conn
<1> HIDE DEF f
<1>5. CASE f.part = "head"
  <2>1. torn' = TRUE /\ UNCHANGED <<first, cache, screen, answered>>
    BY <1>5 DEF Receive, f
  <2> QED BY <1>1, <1>3, <1>4, <2>1 DEF Types, PageTypes, CacheType
<1>6. CASE f.part # "head"
  <2>1. /\ torn' = FALSE /\ first' = FALSE
        /\ screen' = IF first \/ f.reset THEN Painted(f) ELSE screen \o f.data
        /\ answered' = [u \in Probes |-> answered[u] + PutTo(Painted(f), u)]
        /\ cache' = Remembered(f)
    BY <1>6 DEF Receive, f
  <2>2. f.data \in Seq(Units) /\ screen \in Seq(Units)
    BY <1>1, <1>2, FrameParts DEF PageTypes
  <2>3. Painted(f) \in Seq(Units)
    BY <1>1, <2>2, FromCacheType, ConcatProperties DEF Painted
  <2>4. screen' \in Seq(Units)
    BY <2>1, <2>2, <2>3, ConcatProperties
  <2>5. CacheType(cache')
    <3>1. CASE Remembered(f) = None
      BY <2>1, <3>1 DEF CacheType, Caches
    <3>2. CASE Remembered(f) = cache
      BY <1>1, <2>1, <3>2 DEF PageTypes
    <3>3. CASE \E old \in Seq(Units) :
                 /\ Remembered(f) = [epoch |-> f.epoch, offset |-> f.offset, data |-> old \o f.data]
                 /\ Len(old \o f.data) <= Limit
      <4>1. PICK old \in Seq(Units) :
              /\ cache' = [epoch |-> f.epoch, offset |-> f.offset, data |-> old \o f.data]
              /\ Len(old \o f.data) <= Limit
        BY <2>1, <3>3
      <4>2. old \o f.data \in Seq(Units) /\ f.epoch \in Nat /\ f.offset \in Nat \union {None}
        BY <1>2, <2>2, FrameParts, ConcatProperties
      <4> QED BY <4>1, <4>2 DEF CacheType, Caches
    <3> QED BY <1>1, <1>2, <3>1, <3>2, <3>3, RememberedIs
  <2>6. answered' \in [Probes -> Nat]
    <3>1. ASSUME NEW u \in Probes PROVE answered[u] + PutTo(Painted(f), u) \in Nat
      <4> DEFINE p == Painted(f)
      <4>1. DOMAIN p = 1 .. Len(p) /\ Len(p) \in Nat
        BY <2>3, LenProperties
      <4> HIDE DEF p
      <4>2. IsFiniteSet({i \in DOMAIN p : p[i] = u})
        <5>1. IsFiniteSet(1 .. Len(p))
          BY <4>1, FS_Interval
        <5> QED BY <4>1, <5>1, FS_Subset
      <4>3. PutTo(p, u) \in Nat
        BY <4>2, FS_CardinalityType DEF PutTo
      <4>4. answered[u] \in Nat
        BY <1>1 DEF PageTypes
      <4> QED BY <4>3, <4>4 DEF p
    <3> QED BY <2>1, <3>1
  <2> QED BY <1>1, <1>3, <1>4, <2>1, <2>4, <2>5, <2>6 DEF Types, PageTypes
<1> QED BY <1>5, <1>6

LEMMA StorageTypes == ASSUME Types, Save \/ Loaded \/ LoadTimeout PROVE Types'
<1>1. CASE Save
  BY <1>1 DEF Types, ConnTypes, PipeTypes, PageTypes, Save, daemon, conn, pipe, CacheType, Caches
<1>2. CASE Loaded
  BY <1>2 DEF Types, ConnTypes, PipeTypes, PageTypes, Loaded, daemon, conn, pipe, CacheType
<1>3. CASE LoadTimeout
  BY <1>3 DEF Types, ConnTypes, PipeTypes, PageTypes, LoadTimeout, daemon, conn, pipe, CacheType
<1> QED BY <1>1, <1>2, <1>3

LEMMA ReloadTypes == ASSUME Types, Reload PROVE Types'
<1>1. /\ LinkDown /\ cache' = None /\ loading' = "reading" /\ screen' = <<>>
      /\ first' = TRUE /\ torn' = FALSE /\ stored' \in {stored, None} /\ UNCHANGED answered
  BY DEF Reload
<1>2. CacheType(cache') /\ CacheType(stored')
  BY <1>1 DEF CacheType, Caches, Types, PageTypes
<1>3. screen' \in Seq(Units) /\ answered' \in [Probes -> Nat]
  BY <1>1 DEF Types, PageTypes
<1>4. PageTypes'
  BY <1>1, <1>2, <1>3 DEF PageTypes
<1> QED BY <1>1, <1>4, LinkDownTypes DEF Types

LEMMA TypesStep == Types /\ [Next]_vars => Types'
<1> SUFFICES ASSUME Types, [Next]_vars PROVE Types'
  OBVIOUS
<1>1. CASE UNCHANGED vars
  BY <1>1 DEF Types, ConnTypes, PipeTypes, PageTypes, CacheType, vars, daemon, conn, pipe, page
<1>2. CASE Next
  <2>1. ASSUME NEW half \in BOOLEAN, Flush(half) PROVE Types'
    BY <2>1, FlushTypes
  <2> QED BY <1>2, <2>1, OutputTypes, EpochTypes, HandshakeTypes, ServeTypes, BudgetTypes, DownTypes,
             ReceiveTypes, StorageTypes, ReloadTypes, Zenon DEF Next
<1> QED BY <1>1, <1>2

LEMMA TypesInit == Init => Types
<1> SUFFICES ASSUME Init PROVE Types
  OBVIOUS
<1>1. RingOf(ring, log)
  <2>1. /\ ring = [epoch |-> 1, offset |-> 0, held |-> <<>>] /\ log = <<<<>>>>
    BY DEF Init
  <2>2. <<>> \in Seq(Units) /\ Len(<<>>) = 0 /\ Cap \in Nat
    BY BoundsAreNaturals
  <2>3. log \in Logs /\ Len(log) = 1 /\ log[1] = <<>> /\ log # <<>>
    BY <2>1, <2>2 DEF Logs
  <2>4. IsTail(<<>>, <<>>)
    BY <2>2 DEF IsTail
  <2> QED BY <2>1, <2>2, <2>3, <2>4 DEF RingOf
<1>2. ConnTypes /\ PipeTypes
  BY NoFrames, NothingIsRequest DEF Init, ConnTypes, PipeTypes
<1>3. PageTypes
  <2>1. /\ cache = None /\ loading = "done" /\ stored = None
        /\ first = TRUE /\ torn = FALSE /\ screen = <<>> /\ answered = [u \in Probes |-> 0]
    BY DEF Init
  <2>2. CacheType(cache) /\ CacheType(stored)
    BY <2>1 DEF CacheType, Caches
  <2>3. screen \in Seq(Units)
    BY <2>1
  <2>4. answered \in [Probes -> Nat]
    BY <2>1
  <2> QED BY <2>1, <2>2, <2>3, <2>4 DEF PageTypes
<1> QED BY <1>1, <1>2, <1>3 DEF Types, Init

(* For any constants: the variables have their shapes, the ring holds the  *)
(* end of what its shell wrote and no more than its capacity, and neither  *)
(* the page nor its store more than the limit.                             *)
THEOREM TypesHold == Spec => []TypeOK
<1>1. Spec => []Types
  BY TypesInit, TypesStep, PTL DEF Spec
<1> QED BY <1>1, TypesAreOK, PTL

-----------------------------------------------------------------------------
(* The handshake: where nothing can be on its way, and who knows of whom.  *)
Handshake ==
  /\ link \in {"down", "ready", "asked"} => wire = <<>>
  /\ link \in {"ready", "asked"} => first
  /\ client = "pending" => link = "asked"
  /\ client = "resumed" <=> link = "open"
  /\ client # "resumed" => queue = <<>> /\ ~ deadline
  /\ loading = "reading" => first /\ link \in {"down", "ready"}

(* A client was told of the running shell, unless that has written nothing.*)
Told ==
  client = "resumed" =>
    /\ clientEpoch \in 1 .. Len(log)
    /\ clientEpoch # ring.epoch => ring.offset = 0

(* A usable cursor is where its text ends.                                 *)
Honest(c) == Usable(c) => \E lo : Stretch(log, c.data, c.epoch, lo, c.offset)

Shown == \E e, lo, hi : Stretch(log, screen, e, lo, hi)

StandsAt(a) ==
  /\ Stretch(log, screen, a.epoch, a.at - Len(screen), a.at)
  /\ a.blank => screen = <<>>
  /\ cache # None =>
       /\ cache.epoch = a.epoch /\ cache.offset \in {a.at, None}
       /\ Stretch(log, cache.data, a.epoch, a.at - Len(cache.data), a.at)

AsksFrom(a) ==
  /\ a.epoch = request.epoch /\ a.at = request.offset
  /\ request = IF Usable(cache) THEN [epoch |-> cache.epoch, offset |-> cache.offset] ELSE Nothing

(* The page is at mark a: at the end of what it shows, or, before the      *)
(* first frame of a connection, where it asked to continue.                *)
PageAt(a) ==
  /\ \A u \in Probes : answered[u] <= 1 /\ (answered[u] # 0 => u <= a.asked)
  /\ a.seen => ~ first
  /\ ~ first => StandsAt(a)
  /\ first /\ link \in {"asked", "open", "closing"} => AsksFrom(a)

(* The daemon's client is at mark b: at the end of the epoch it was told   *)
(* of, or its screen was cleared for a shell that has written nothing.     *)
DaemonAt(b) ==
  /\ b.asked <= produced
  /\ client = "resumed" =>
       /\ b.seen
       /\ \/ b.epoch = clientEpoch /\ b.at = Len(log[clientEpoch])
          \/ clientEpoch # ring.epoch /\ b.blank

Line(a, m, b) ==
  PageAt(a) /\ Path(log, a, wire, m) /\ Path(log, m, queue, b) /\ DaemonAt(b)

Inv ==
  /\ Types /\ Handshake /\ Told
  /\ Honest(cache) /\ Honest(stored) /\ Shown
  /\ \E a, m, b : Line(a, m, b)

LEMMA LogGrows ==
  ASSUME Types, [Next]_vars
  PROVE  log \in Logs /\ log' \in Logs /\ Continues(log', log)
<1>1. log \in Logs /\ Len(log) \in Nat
  BY RingFacts DEF Types
<1>2. log' \in Logs
  BY TypesStep, RingFacts DEF Types
<1>3. CASE log' = log
  <2>1. \A e \in 1 .. Len(log) : Len(log[e]) \in Nat
    BY <1>1, LogEntry
  <2>2. Continues(log, log)
    BY <1>1, <2>1 DEF Continues
  <2> QED BY <1>1, <1>3, <2>2
<1>4. CASE Output
  BY <1>1, <1>2, <1>4, OutputWrites, WriteKeeps DEF Types
<1>5. CASE ShellExit \/ Restart
  BY <1>1, <1>2, <1>5, ShellExitBegins, RestartBegins
<1>6. log' = log \/ Output \/ ShellExit \/ Restart
  BY DEF Next, vars, daemon, Connect, Ask, Accept, ServeRequest, Flush, BudgetOver, Drop, Drained,
         LinkDown, Receive, Save, Reload, Loaded, LoadTimeout
<1> QED BY <1>3, <1>4, <1>5, <1>6

LEMMA HonestGrows ==
  ASSUME Types, [Next]_vars, NEW c, CacheType(c), Honest(c)
  PROVE  Usable(c) => \E lo : Stretch(log', c.data, c.epoch, lo, c.offset)
<1> SUFFICES ASSUME Usable(c) PROVE \E lo : Stretch(log', c.data, c.epoch, lo, c.offset)
  OBVIOUS
<1>1. PICK lo : Stretch(log, c.data, c.epoch, lo, c.offset)
  BY DEF Honest
<1>2. Len(c.data) \in Nat
  BY LenProperties DEF CacheType, Caches, Usable
<1> QED BY <1>1, <1>2, LogGrows, StretchGrows

LEMMA StandsGrows ==
  ASSUME Types, [Next]_vars, NEW a, StandsAt(a), UNCHANGED <<screen, cache>>
  PROVE  StandsAt(a)'
<1>1. Len(screen) \in Nat
  BY LenProperties DEF Types, PageTypes
<1>2. Stretch(log', screen, a.epoch, a.at - Len(screen), a.at)
  BY <1>1, LogGrows, StretchGrows DEF StandsAt
<1>3. ASSUME cache # None
      PROVE  Stretch(log', cache.data, a.epoch, a.at - Len(cache.data), a.at)
  <2>1. Len(cache.data) \in Nat
    BY <1>3, LenProperties DEF Types, PageTypes, CacheType, Caches
  <2> QED BY <1>3, <2>1, LogGrows, StretchGrows DEF StandsAt
<1> QED BY <1>2, <1>3 DEF StandsAt

LEMMA PageKeeps ==
  ASSUME Types, [Next]_vars, NEW a, PageAt(a),
         UNCHANGED <<answered, first, screen, cache>>,
         link' \in {"asked", "open", "closing"} =>
           link \in {"asked", "open", "closing"} /\ UNCHANGED request
  PROVE  PageAt(a)'
<1>1. ~ first => StandsAt(a)'
  BY StandsGrows DEF PageAt
<1>2. AsksFrom(a) /\ UNCHANGED <<request, cache>> => AsksFrom(a)'
  BY DEF AsksFrom, Usable
<1> QED BY <1>1, <1>2 DEF PageAt

LEMMA LineMarks ==
  ASSUME Types, NEW a, NEW m, NEW b, Line(a, m, b)
  PROVE  /\ a \in Mark /\ m \in Mark /\ b \in Mark /\ a.asked <= m.asked /\ m.asked <= b.asked
         /\ a.asked <= produced /\ m.asked <= produced /\ b.asked <= produced
<1>1. /\ a \in Mark /\ m \in Mark /\ b \in Mark /\ a.asked <= m.asked /\ m.asked <= b.asked
      /\ b.asked <= produced /\ produced \in Nat
  BY PathEnds DEF Line, Types, PipeTypes, ConnTypes, DaemonAt
<1>2. a.asked \in Nat /\ m.asked \in Nat /\ b.asked \in Nat
  BY <1>1 DEF Mark
<1> QED BY <1>1, <1>2

LEMMA PathsGrow ==
  ASSUME Types, [Next]_vars, NEW a, NEW m, NEW b, Line(a, m, b)
  PROVE  Path(log', a, wire, m) /\ Path(log', m, queue, b)
  BY LogGrows, PathGrows DEF Line, Types, PipeTypes, ConnTypes

(* The daemon hangs up, or there was nobody: nothing more is queued.       *)
LEMMA HangsUp ==
  ASSUME Types, Handshake, [Next]_vars, NEW a, NEW m, NEW b, Line(a, m, b),
         DropClient, UNCHANGED <<page, wire, request>>, produced' \in Nat, produced <= produced'
  PROVE  Line(a, m, m)'
<1>1. /\ client' = "none" /\ queue' = <<>>
      /\ link' = IF client = "none" THEN link ELSE "closing"
  BY DEF DropClient
<1>2. link' \in {"asked", "open", "closing"} => link \in {"asked", "open", "closing"}
  BY <1>1 DEF Types, ConnTypes, Handshake
<1>3. PageAt(a)'
  BY <1>2, PageKeeps DEF Line, page
<1>4. m \in Mark /\ m.asked \in Nat /\ m.asked <= produced /\ produced \in Nat
  BY LineMarks DEF Mark, Types
<1>5. DaemonAt(m)'
  BY <1>1, <1>4 DEF DaemonAt
<1>6. Path(log', a, wire', m)
  BY PathsGrow
<1>7. Path(log', m, queue', m)
  BY <1>1, <1>4, PathStays
<1> QED BY <1>3, <1>5, <1>6, <1>7 DEF Line

(* A unit of live output goes on from the end of the epoch.                *)
LEMMA LiveFollows ==
  ASSUME NEW r, NEW L, RingOf(r, L), NEW u \in Nat, NEW w, NEW M, RingOf(w, M),
         w.epoch = r.epoch, w.offset = r.offset + 1, M[r.epoch][r.offset + 1] = u,
         NEW a \in Mark, a.epoch = r.epoch, a.at = r.offset, a.asked < u
  PROVE  LET b == [epoch |-> r.epoch, at |-> r.offset + 1, asked |-> u,
                   blank |-> FALSE, seen |-> TRUE]
         IN  b \in Mark /\ Follows(M, a, Frame(w, w.offset, <<u>>, FALSE), b)
<1> DEFINE e == r.epoch
           n == r.offset
           x == <<u>>
           f == Frame(w, w.offset, x, FALSE)
           b == [epoch |-> e, at |-> n + 1, asked |-> u, blank |-> FALSE, seen |-> TRUE]
<1>2. /\ RingOf(w, M) /\ w.epoch = e /\ w.offset = n + 1 /\ M[e][n + 1] = u
  OBVIOUS
<1>3. e \in Nat /\ n \in Nat
  BY RingFacts
<1>4. w.epoch \in 1 .. Len(M) /\ w.offset = Len(M[w.epoch])
  BY <1>2, RingFacts
<1>5. Len(x) = 1 /\ x[1] = u /\ \A i \in 1 .. 1 : i = 1
  OBVIOUS
<1>6. /\ f.epoch = e /\ f.offset = n + 1 /\ f.data = x /\ f.reset = FALSE /\ f.part = "whole"
  BY <1>2 DEF Frame
<1>7. b.epoch = e /\ b.at = n + 1 /\ b.asked = u /\ b.blank = FALSE /\ b \in Mark
  BY <1>3 DEF Mark
<1> HIDE DEF e, n, x, f, b
<1>8. n + 1 \in Nat /\ n <= n + 1 /\ (n + 1) - n = 1 /\ (n + 1) - 1 = n /\ n + 1 <= n + 1 /\ 1 <= 1
  BY <1>3
<1>9. Stretch(M, x, e, n, n + 1)
  <2>1. e \in 1 .. Len(M) /\ n + 1 <= Len(M[e])
    BY <1>2, <1>4, <1>8
  <2>2. \A i \in 1 .. Len(x) : x[i] = M[e][n + i]
    BY <1>2, <1>5
  <2> QED BY <1>3, <1>5, <1>8, <2>1, <2>2 DEF Stretch
<1>10. OneQuery(x, a.asked, u)
  <2>1. u <= u
    OBVIOUS
  <2> QED BY <1>5, <2>1 DEF OneQuery
<1>11. a.asked <= u
  BY DEF Mark
<1>12. a.epoch = e /\ a.at = n
  BY DEF e, n
<1>13. Follows(M, a, f, b)
  BY <1>5, <1>6, <1>7, <1>8, <1>9, <1>10, <1>11, <1>12 DEF Follows
<1> QED BY <1>7, <1>13 DEF e, n, x, f, b

(* What broadcasting live output does to the connection.                   *)
LEMMA BroadcastIs ==
  ASSUME NEW r, NEW x, Broadcast(r, x)
  PROVE  \/ client \in {"none", "pending"} /\ UNCHANGED <<conn, link>>
         \/ DropClient
         \/ /\ client \notin {"none", "pending"}
            /\ queue' = queue \o LiveFrames(r, x) /\ clientEpoch' = r.epoch
            /\ UNCHANGED <<client, deadline, link>>
  BY DEF Broadcast, Skipped

LEMMA HandshakeStep == ASSUME Types, Handshake, Next PROVE Handshake'
<1> USE DEF Handshake
<1>1. /\ client \in {"none", "pending", "resumed"}
      /\ link \in {"down", "ready", "asked", "open", "closing"}
  BY DEF Types, ConnTypes, PipeTypes
<1>2. ASSUME DropClient, UNCHANGED <<wire, page>> PROVE Handshake'
  BY <1>1, <1>2 DEF DropClient, page
<1>3. ASSUME LinkDown, UNCHANGED page \/ (first' = TRUE /\ loading' = "reading") PROVE Handshake'
  BY <1>3 DEF LinkDown, page
<1>4. CASE Output
  <2>1. UNCHANGED <<wire, page>> /\ \E r, x : Broadcast(r, x)
    BY <1>4 DEF Output
  <2>2. CASE client \in {"none", "pending"} /\ UNCHANGED <<conn, link>>
    BY <2>1, <2>2 DEF conn, page
  <2>3. CASE client \notin {"none", "pending"} /\ UNCHANGED <<client, deadline, link>>
    BY <1>1, <2>1, <2>3 DEF page
  <2> QED BY <1>2, <2>1, <2>2, <2>3, BroadcastIs
<1>5. CASE ShellExit
  BY <1>5 DEF ShellExit, conn, pipe, page
<1>6. CASE Restart
  BY <1>2, <1>6 DEF Restart
<1>7. CASE Connect \/ Ask \/ Accept \/ ServeRequest
  <2>1. CASE Connect
    BY <2>1 DEF Connect, conn
  <2>2. CASE Ask
    BY <2>2 DEF Ask, conn, page
  <2>3. CASE Accept
    BY <2>3 DEF Accept, pipe, page
  <2>4. CASE ServeRequest
    BY <2>4 DEF ServeRequest, page
  <2> QED BY <1>7, <2>1, <2>2, <2>3, <2>4
<1>8. ASSUME NEW half \in BOOLEAN, Flush(half) PROVE Handshake'
  <2>1. queue # <<>> /\ UNCHANGED <<client, link, page>>
    BY <1>8 DEF Flush
  <2> QED BY <1>1, <2>1 DEF page
<1>9. CASE BudgetOver
  BY <1>1, <1>9 DEF BudgetOver, pipe, page
<1>10. CASE Drop \/ Drained \/ Reload
  BY <1>3, <1>10 DEF Drop, Drained, Reload
<1>11. CASE Receive
  <2>1. wire # <<>> /\ UNCHANGED <<conn, link, loading>>
    BY <1>11 DEF Receive
  <2> QED BY <1>1, <2>1 DEF conn
<1>12. CASE Save \/ Loaded \/ LoadTimeout
  BY <1>12 DEF Save, Loaded, LoadTimeout, conn, pipe
<1> QED BY <1>4, <1>5, <1>6, <1>7, <1>8, <1>9, <1>10, <1>11, <1>12, Zenon DEF Next

LEMMA ToldStep == ASSUME Types, Handshake, Told, Next PROVE Told'
<1>1. /\ ring.epoch \in 1 .. Len(log) /\ Len(log) \in Nat
      /\ client \in {"none", "pending", "resumed"}
  BY RingFacts DEF Types, ConnTypes
<1>2. ASSUME client' # "resumed" PROVE Told'
  BY <1>2 DEF Told
<1>3. ASSUME UNCHANGED <<client, clientEpoch, daemon>> PROVE Told'
  BY <1>3 DEF Told, daemon
<1>4. CASE Output
  <2>1. RingOf(ring', log')
    BY <1>4, OutputTypes DEF Types
  <2>2. PICK x : Broadcast(ring', x)
    BY <1>4 DEF Output
  <2>3. CASE client \in {"none", "pending"} /\ UNCHANGED <<conn, link>>
    BY <1>2, <2>3 DEF conn
  <2>4. CASE DropClient
    BY <1>2, <2>4 DEF DropClient
  <2>5. CASE clientEpoch' = ring'.epoch
    BY <2>1, <2>5, RingFacts DEF Told
  <2> QED BY <2>2, <2>3, <2>4, <2>5, BroadcastIs
<1>5. CASE ShellExit
  <2>1. /\ ring'.offset = 0 /\ Continues(log', log) /\ RingOf(ring', log')
        /\ UNCHANGED <<client, clientEpoch>>
    BY <1>5, ShellExitBegins DEF conn
  <2>2. Len(log) <= Len(log') /\ Len(log') \in Nat
    BY <2>1, RingFacts DEF Continues
  <2>3. client = "resumed" => clientEpoch \in 1 .. Len(log')
    BY <1>1, <2>2 DEF Told
  <2> QED BY <2>1, <2>3 DEF Told
<1>6. CASE Restart
  BY <1>2, <1>6 DEF Restart, DropClient
<1>7. CASE Connect \/ Ask \/ Save \/ Receive \/ Loaded \/ LoadTimeout \/ BudgetOver
  BY <1>3, <1>7 DEF Connect, Ask, Save, Receive, Loaded, LoadTimeout, BudgetOver, conn
<1>8. ASSUME NEW half \in BOOLEAN, Flush(half) PROVE Told'
  BY <1>3, <1>8 DEF Flush
<1>9. CASE Accept \/ Drop \/ Drained \/ Reload
  BY <1>2, <1>9 DEF Accept, Drop, Drained, Reload, LinkDown
<1>10. CASE ServeRequest
  BY <1>1, <1>10 DEF ServeRequest, daemon, Told
<1> QED BY <1>4, <1>5, <1>6, <1>7, <1>8, <1>9, <1>10, Zenon DEF Next

LEMMA OutputLine ==
  ASSUME Types, Handshake, NEW a, NEW m, NEW b, Line(a, m, b), Output
  PROVE  \E d, n, c : Line(d, n, c)'
<1> DEFINE u == produced + 1
           x == <<u>>
<1>1. /\ u \in Units /\ ring' = Write(ring, x) /\ Grown(log', log, ring.epoch, u)
      /\ produced' = u /\ produced' \in Nat /\ Broadcast(ring', x)
  BY OutputWrites
<1>2. /\ UNCHANGED <<request, wire, page>> /\ [Next]_vars /\ Types'
      /\ produced \in Nat /\ u \in Nat /\ produced <= u
  BY OutputTypes DEF Output, Next, Types
<1>3. /\ RingOf(ring, log) /\ RingOf(ring', log') /\ ring'.epoch = ring.epoch
      /\ ring'.offset = ring.offset + 1 /\ log'[ring.epoch][ring.offset + 1] = u
  <2> HIDE DEF u
  <2>1. RingOf(ring, log)
    BY DEF Types
  <2>2. /\ RingOf(Write(ring, <<u>>), log') /\ Write(ring, <<u>>).epoch = ring.epoch
        /\ Write(ring, <<u>>).offset = ring.offset + 1 /\ log'[ring.epoch][ring.offset + 1] = u
    BY <1>1, <2>1, WriteKeeps
  <2> QED BY <1>1, <2>1, <2>2
<1>4. b \in Mark /\ b.asked \in Nat /\ b.asked <= produced /\ b.asked <= produced' /\ b.asked < u
  <2>1. b \in Mark /\ b.asked \in Nat /\ b.asked <= produced
    BY LineMarks DEF Mark
  <2> QED BY <1>1, <1>2, <2>1
<1>5. Path(log', a, wire', m) /\ Path(log', m, queue, b)
  BY <1>2, PathsGrow
<1>6. CASE DropClient
  BY <1>1, <1>2, <1>6, HangsUp
<1>7. ASSUME UNCHANGED link PROVE PageAt(a)'
  BY <1>2, <1>7, PageKeeps DEF Line, page
<1>8. CASE client \in {"none", "pending"} /\ UNCHANGED <<conn, link>>
  <2>1. DaemonAt(b)'
    BY <1>4, <1>8 DEF DaemonAt, conn
  <2> QED BY <1>5, <1>7, <1>8, <2>1 DEF Line, conn
<1>9. CASE /\ client \notin {"none", "pending"} /\ UNCHANGED <<client, deadline, link>>
           /\ queue' = queue \o LiveFrames(ring', x) /\ clientEpoch' = ring'.epoch
  <2>1. client = "resumed"
    BY <1>9 DEF Types, ConnTypes
  <2>2. \E c \in Mark : /\ Path(log', b, LiveFrames(ring', x), c) /\ c.asked <= produced' /\ c.seen
                        /\ c.epoch = ring'.epoch /\ c.at = ring'.offset
    <3>1. CASE clientEpoch # ring'.epoch
      <4>1. /\ log' \in Logs /\ ring'.epoch \in 1 .. Len(log') /\ ring'.held \in Seq(Units)
            /\ IsTail(ring'.held, log'[ring'.epoch]) /\ ring'.offset = Len(log'[ring'.epoch])
            /\ ring'.epoch # 0
        BY <1>3, RingFacts DEF RingOf
      <4>2. ~ Retained(ring', Nothing) /\ Nothing \in [epoch : Nat, offset : Nat]
        BY <4>1, NothingIsRequest DEF Retained, Nothing
      <4>3. PICK c \in Mark : /\ Path(log', b, Resume(ring', Nothing), c) /\ c.seen
                              /\ c.epoch = ring'.epoch /\ c.at = ring'.offset /\ c.asked = b.asked
        BY <1>4, <4>1, <4>2, ResumePath, ProbesAreUnits
      <4> QED BY <1>4, <3>1, <4>3 DEF LiveFrames
    <3>2. CASE clientEpoch = ring'.epoch
      <4>1. b.epoch = ring.epoch /\ b.at = ring.offset
        BY <1>3, <2>1, <3>2, RingFacts DEF Line, DaemonAt
      <4> DEFINE c == [epoch |-> ring.epoch, at |-> ring.offset + 1, asked |-> u,
                       blank |-> FALSE, seen |-> TRUE]
                 f == Frame(ring', ring'.offset, x, FALSE)
      <4>2. c \in Mark /\ Follows(log', b, f, c)
        BY <1>2, <1>3, <1>4, <4>1, LiveFollows
      <4>3. LiveFrames(ring', x) = <<f>>
        BY <3>2 DEF LiveFrames
      <4>4. c.seen /\ c.epoch = ring'.epoch /\ c.at = ring'.offset /\ c.asked = u
        BY <1>3
      <4>5. u <= produced'
        BY <1>1, <1>2
      <4> HIDE DEF c, f, u
      <4>6. Path(log', b, <<f>>, c)
        BY <1>4, <4>2, PathOfOne
      <4> QED BY <4>2, <4>3, <4>4, <4>5, <4>6
    <3> QED BY <3>1, <3>2
  <2>3. PICK c \in Mark : /\ Path(log', b, LiveFrames(ring', x), c) /\ c.asked <= produced' /\ c.seen
                          /\ c.epoch = ring'.epoch /\ c.at = ring'.offset
    BY <2>2
  <2>4. queue \in Seq(FrameType) /\ LiveFrames(ring', x) \in Seq(FrameType)
    <3>1. x \in Seq(Units)
      BY <1>1
    <3> QED BY <1>3, <3>1, LiveTypes DEF Types, ConnTypes
  <2>5. Path(log', m, queue', c)
    BY <1>5, <1>9, <2>3, <2>4, PathJoins
  <2>6. DaemonAt(c)'
    BY <1>3, <1>9, <2>3, RingFacts DEF DaemonAt
  <2> QED BY <1>5, <1>7, <1>9, <2>5, <2>6 DEF Line
<1> QED BY <1>1, <1>6, <1>8, <1>9, BroadcastIs

LEMMA EpochLine ==
  ASSUME Types, Handshake, Told, NEW a, NEW m, NEW b, Line(a, m, b), ShellExit \/ Restart
  PROVE  \E d, n, c : Line(d, n, c)'
<1>1. [Next]_vars
  BY DEF Next
<1>2. CASE ShellExit
  <2>1. /\ log' = Append(log, <<>>) /\ ring'.epoch = Len(log) + 1
        /\ UNCHANGED <<produced, conn, pipe, page>>
    BY <1>2, ShellExitBegins
  <2>2. log \in Logs /\ <<>> \in Seq(Units) /\ Len(log) \in Nat
    BY RingFacts DEF Types
  <2>3. DaemonAt(b)'
    <3>1. client = "resumed" => clientEpoch # ring'.epoch /\ log'[clientEpoch] = log[clientEpoch]
      BY <2>1, <2>2, AppendContinues DEF Told
    <3> QED BY <2>1, <3>1 DEF Line, DaemonAt, conn
  <2>4. PageAt(a)'
    BY <1>1, <2>1, PageKeeps DEF Line, page, pipe
  <2>5. Path(log', a, wire', m) /\ Path(log', m, queue', b)
    BY <1>1, <2>1, PathsGrow DEF pipe, conn
  <2> QED BY <2>3, <2>4, <2>5 DEF Line
<1>3. CASE Restart
  <2>1. DropClient /\ UNCHANGED <<produced, request, wire, page>>
    BY <1>3, RestartBegins
  <2>2. produced' \in Nat /\ produced <= produced'
    BY <2>1 DEF Types
  <2> QED BY <1>1, <2>1, <2>2, HangsUp
<1> QED BY <1>2, <1>3

(* Where a page stands that has asked to continue and been given nothing.  *)
From(req, k) ==
  [epoch |-> req.epoch, at |-> req.offset, asked |-> k, blank |-> FALSE, seen |-> FALSE]

LEMMA FromIs ==
  ASSUME NEW req \in [epoch : Nat, offset : Nat], NEW k \in Nat
  PROVE  /\ From(req, k) \in Mark /\ From(req, k).epoch = req.epoch /\ From(req, k).at = req.offset
         /\ From(req, k).asked = k /\ ~ From(req, k).seen
  BY DEF From, Mark

LEMMA AnewLine ==
  ASSUME Types, Next, NEW a, NEW m, NEW b, Line(a, m, b), UNCHANGED <<answered, produced>>,
         first', wire' = <<>>, queue' = <<>>, client' # "resumed",
         link' \in {"asked", "open", "closing"} =>
           request' = IF Usable(cache') THEN [epoch |-> cache'.epoch, offset |-> cache'.offset]
                                        ELSE Nothing
  PROVE  \E d, n, c : Line(d, n, c)'
<1>1. request' \in [epoch : Nat, offset : Nat] /\ a.asked \in Nat /\ a.asked <= produced
  BY TypesStep, LineMarks DEF Types, PipeTypes, Mark
<1>2. PICK d \in Mark : /\ d.epoch = request'.epoch /\ d.at = request'.offset
                        /\ d.asked = a.asked /\ ~ d.seen
  BY <1>1, FromIs
<1>3. PageAt(d)'
  BY <1>2 DEF Line, PageAt, AsksFrom, Usable
<1>4. DaemonAt(d)'
  BY <1>1, <1>2 DEF DaemonAt
<1>5. Path(log', d, <<>>, d)
  BY <1>2, PathStays
<1> QED BY <1>3, <1>4, <1>5 DEF Line

LEMMA HandshakeLine ==
  ASSUME Types, Handshake, NEW a, NEW m, NEW b, Line(a, m, b), Connect \/ Ask \/ Accept \/ Reload
  PROVE  \E d, n, c : Line(d, n, c)'
<1>1. Next
  BY DEF Next
<1>2. CASE Connect
  BY <1>1, <1>2, AnewLine DEF Connect, Handshake, daemon, conn
<1>3. CASE Ask
  <2>1. first' /\ wire' = <<>> /\ queue' = <<>> /\ client' # "resumed" /\ UNCHANGED <<cache, answered, produced>>
    BY <1>3 DEF Ask, Handshake, daemon, conn, page
  <2>2. request' = IF Usable(cache') THEN [epoch |-> cache'.epoch, offset |-> cache'.offset]
                                     ELSE Nothing
    BY <1>3, <2>1 DEF Ask
  <2> QED BY <1>1, <2>1, <2>2, AnewLine
<1>4. CASE Reload
  BY <1>1, <1>4, AnewLine DEF Reload, LinkDown, daemon
<1>5. CASE Accept
  <2>1. /\ UNCHANGED <<queue, pipe, page, produced>> /\ client' = "pending"
    BY <1>5 DEF Accept, daemon
  <2>2. PageAt(a)'
    BY <1>1, <2>1, PageKeeps DEF Line, page, pipe
  <2>3. Path(log', a, wire', m) /\ Path(log', m, queue', b)
    BY <1>1, <2>1, PathsGrow DEF pipe
  <2>4. DaemonAt(b)'
    BY <2>1 DEF Line, DaemonAt
  <2> QED BY <2>2, <2>3, <2>4 DEF Line
<1> QED BY <1>2, <1>3, <1>4, <1>5

LEMMA DownLine ==
  ASSUME Types, NEW a, NEW m, NEW b, Line(a, m, b), Drop \/ Drained
  PROVE  Line(a, a, a)'
<1>1. Next /\ LinkDown /\ UNCHANGED page
  BY DEF Next, Drop, Drained
<1>2. PageAt(a)'
  BY <1>1, PageKeeps DEF Line, page, LinkDown
<1>3. a \in Mark /\ a.asked <= produced
  BY LineMarks
<1>4. Path(log', a, <<>>, a)
  BY <1>3, PathStays
<1>5. wire' = <<>> /\ queue' = <<>>
  BY <1>1 DEF LinkDown
<1>6. DaemonAt(a)'
  BY <1>1, <1>3 DEF DaemonAt, LinkDown, daemon
<1> QED BY <1>2, <1>4, <1>5, <1>6 DEF Line

LEMMA ServeLine ==
  ASSUME Types, Handshake, NEW a, NEW m, NEW b, Line(a, m, b), ServeRequest
  PROVE  \E d, n, c : Line(d, n, c)'
<1>1. /\ Next /\ client = "pending" /\ link = "asked" /\ wire = <<>> /\ queue = <<>> /\ first
      /\ client' = "resumed" /\ clientEpoch' = ring.epoch /\ queue' = Resume(ring, request)
      /\ link' = "open" /\ UNCHANGED <<daemon, request, wire, page>>
  BY DEF Next, ServeRequest, Handshake
<1>2. a \in Mark /\ a.asked <= produced
  BY LineMarks
<1>3. a.epoch = request.epoch /\ a.at = request.offset
  BY <1>1 DEF Line, PageAt, AsksFrom
<1>4. /\ log \in Logs /\ ring.epoch \in 1 .. Len(log) /\ ring.held \in Seq(Units)
      /\ IsTail(ring.held, log[ring.epoch]) /\ ring.offset = Len(log[ring.epoch])
      /\ request \in [epoch : Nat, offset : Nat]
  BY RingFacts DEF Types, RingOf, PipeTypes
<1>5. PICK c \in Mark : /\ Path(log, a, Resume(ring, request), c) /\ c.seen
                        /\ c.epoch = ring.epoch /\ c.at = ring.offset /\ c.asked = a.asked
  BY <1>2, <1>3, <1>4, ResumePath, ProbesAreUnits
<1>6. PageAt(a)'
  BY <1>1, PageKeeps DEF Line, page
<1>7. DaemonAt(c)'
  BY <1>1, <1>2, <1>4, <1>5 DEF DaemonAt, daemon
<1>8. Path(log', a, wire', a)
  BY <1>1, <1>2, PathStays
<1> QED BY <1>1, <1>5, <1>6, <1>7, <1>8 DEF Line, daemon

LEMMA FlushLine ==
  ASSUME Types, NEW a, NEW m, NEW b, Line(a, m, b), NEW half \in BOOLEAN, Flush(half)
  PROVE  \E d, n, c : Line(d, n, c)'
<1> DEFINE f == Head(queue)
           g == [f EXCEPT !.part = "head"]
           h == [f EXCEPT !.part = "tail"]
<1>1. /\ Next /\ queue # <<>> /\ UNCHANGED <<daemon, client, clientEpoch, link, request, page>>
      /\ queue \in Seq(FrameType) /\ wire \in Seq(FrameType)
  BY DEF Next, Flush, Types, ConnTypes, PipeTypes
<1>2. f \in FrameType /\ Tail(queue) \in Seq(FrameType)
  BY <1>1, QueueParts
<1>3. PageAt(a)' /\ DaemonAt(b)'
  <2>1. PageAt(a)'
    BY <1>1, PageKeeps DEF Line, page
  <2> QED BY <1>1, <2>1 DEF Line, DaemonAt, daemon
<1>4. Path(log, a, wire, m) /\ log' = log /\ m \in Mark
  BY <1>1, LineMarks DEF Line, daemon
<1>5. PICK n \in Mark : Follows(log, m, f, n) /\ Path(log, n, Tail(queue), b)
  BY <1>1, PathBegins DEF Line
<1>6. ASSUME NEW x \in FrameType PROVE Append(wire, x) = wire \o <<x>> /\ <<x>> \in Seq(FrameType)
  BY <1>1, <1>6, AppendIsConcat, OneFrame
<1>7. CASE ~ half
  <2>1. wire' = wire \o <<f>> /\ queue' = Tail(queue)
    BY <1>2, <1>6, <1>7 DEF Flush
  <2>2. Path(log, m, <<f>>, n)
    BY <1>4, <1>5, PathOfOne
  <2>3. Path(log, a, wire', n)
    BY <1>1, <1>2, <1>4, <1>6, <2>1, <2>2, PathJoins
  <2> QED BY <1>3, <1>4, <1>5, <2>1, <2>3 DEF Line
<1>8. CASE half
  <2>1. /\ g \in FrameType /\ g.part = "head"
        /\ h \in FrameType /\ h.part = "tail" /\ h.epoch = f.epoch /\ h.offset = f.offset
        /\ h.data = f.data /\ h.reset = f.reset /\ f.part = "whole"
    <3>1. f.part = "whole"
      BY <1>8 DEF Flush
    <3> HIDE DEF f
    <3> QED BY <1>2, <3>1, FrameParts
  <2>2. wire' = wire \o <<g>> /\ queue' = <<h>> \o Tail(queue)
    BY <1>6, <1>8, <2>1 DEF Flush
  <2> HIDE DEF f, g, h
  <2>3. Follows(log, m, g, m)
    BY <2>1 DEF Follows
  <2>4. Follows(log, m, h, n)
    BY <1>5, <2>1, Zenon DEF Follows
  <2>5. Path(log, m, <<g>>, m) /\ Path(log, m, <<h>>, n)
    BY <1>4, <1>5, <2>3, <2>4, PathOfOne
  <2>6. Path(log, a, wire', m) /\ Path(log, m, queue', b)
    BY <1>1, <1>2, <1>4, <1>5, <1>6, <2>1, <2>2, <2>5, PathJoins
  <2> QED BY <1>3, <1>4, <2>6 DEF Line
<1> QED BY <1>7, <1>8

(* The newest screenful leads to the newest output from anywhere.          *)
LEMMA SnapshotFollows ==
  ASSUME Types, NEW a \in Mark, NEW blank \in BOOLEAN, blank => ring.offset = 0
  PROVE  LET b == [epoch |-> ring.epoch, at |-> ring.offset, asked |-> a.asked,
                   blank |-> blank, seen |-> TRUE]
         IN  b \in Mark /\ Follows(log, a, Snapshot, b)
<1> DEFINE e == ring.epoch
           hi == ring.offset
           s == Strip(ring.held)
           x == Newest(s, Screen)
           k == Len(x)
           b == [epoch |-> e, at |-> hi, asked |-> a.asked, blank |-> blank, seen |-> TRUE]
<1>1. /\ e \in 1 .. Len(log) /\ e \in Nat /\ hi \in Nat /\ hi = Len(log[e]) /\ log[e] \in Seq(Units)
      /\ ring.held \in Seq(Units) /\ IsTail(ring.held, log[e])
  BY RingFacts DEF Types, RingOf
<1>2. /\ s \in Seq(Units) /\ Len(s) = Len(ring.held) /\ Len(s) \in Nat
      /\ \A i \in 1 .. Len(s) : s[i] = IF ring.held[i] \in Probes THEN Gone ELSE ring.held[i]
  BY <1>1, StripText, LenProperties
<1>3. x \in Seq(Units) /\ k \in Nat /\ IsTail(x, s)
  BY <1>2, NewestTail, BoundsAreNaturals
<1>4. /\ Snapshot.epoch = e /\ Snapshot.offset = hi /\ Snapshot.data = x /\ Snapshot.reset = TRUE
      /\ Snapshot.part = "whole"
  BY DEF Snapshot, Frame
<1>5. b \in Mark /\ b.epoch = e /\ b.at = hi /\ b.asked = a.asked /\ b.blank = blank
  BY <1>1 DEF Mark
<1> HIDE DEF e, hi, s, x, k, b
<1> DEFINE n == Len(s)
<1>6. /\ n <= hi /\ k <= n
      /\ \A i \in 1 .. n : ring.held[i] = log[e][(hi - n) + i]
      /\ \A i \in 1 .. k : x[i] = s[(n - k) + i]
  BY <1>1, <1>2, <1>3 DEF IsTail, k
<1>7. n \in Nat /\ n <= hi /\ k <= n /\ k \in Nat /\ hi \in Nat
  BY <1>1, <1>2, <1>3, <1>6
<1>8. \A i \in 1 .. n : s[i] = IF ring.held[i] \in Probes THEN Gone ELSE ring.held[i]
  BY <1>2
<1> HIDE DEF n
<1>9. /\ hi - k \in Nat /\ hi - k <= hi /\ hi <= hi /\ k = hi - (hi - k)
      /\ \A i \in 1 .. k : (n - k) + i \in 1 .. n /\ (hi - n) + ((n - k) + i) = (hi - k) + i
  BY <1>7
<1>10. ASSUME NEW i \in 1 .. k
       PROVE  /\ x[i] = log[e][(hi - k) + i] \/ (x[i] = Gone /\ log[e][(hi - k) + i] \in Probes)
              /\ x[i] \notin Probes
  <2> DEFINE j == (n - k) + i
  <2>1. j \in 1 .. n /\ (hi - n) + j = (hi - k) + i
    BY <1>9
  <2>2. x[i] = s[j]
    BY <1>6
  <2> HIDE DEF j
  <2>3. ring.held[j] = log[e][(hi - k) + i]
    BY <1>6, <2>1 DEF n
  <2> QED BY <1>8, <2>1, <2>2, <2>3, ProbesAreUnits
<1>11. Stretch(log, x, e, hi - k, hi)
  BY <1>1, <1>9, <1>10 DEF Stretch, k
<1>12. OneQuery(x, a.asked, b.asked)
  BY <1>10 DEF OneQuery, k
<1>13. blank => x = <<>>
  <2>1. ASSUME blank PROVE x = <<>>
    <3>1. hi = 0
      BY <2>1 DEF hi
    <3>2. k = 0
      BY <1>7, <3>1
    <3> QED BY <1>3, <3>2, EmptySeq DEF k
  <2> QED BY <2>1
<1>14. a.asked <= b.asked
  BY <1>5 DEF Mark
<1>15. Follows(log, a, Snapshot, b)
  BY <1>4, <1>5, <1>11, <1>12, <1>13, <1>14, Zenon DEF Follows, k
<1> QED BY <1>5, <1>15 DEF b, e, hi

LEMMA BudgetLine ==
  ASSUME Types, Handshake, Told, NEW a, NEW m, NEW b, Line(a, m, b), BudgetOver
  PROVE  \E d, n, c : Line(d, n, c)'
<1>1. /\ Next /\ client = "resumed" /\ UNCHANGED <<daemon, client, clientEpoch, pipe, page>>
      /\ queue' \in {<<Snapshot>>, queue}
  BY DEF Next, BudgetOver, Handshake
<1>2. PageAt(a)'
  BY <1>1, PageKeeps DEF Line, page, pipe
<1>3. Path(log', a, wire', m) /\ log' = log
  BY <1>1, PathsGrow DEF pipe, daemon
<1>4. CASE queue' = queue
  BY <1>1, <1>2, <1>3, <1>4 DEF Line, DaemonAt, daemon
<1>5. CASE queue' = <<Snapshot>>
  <2> DEFINE blank == clientEpoch # ring.epoch
  <2>1. m \in Mark /\ m.asked <= produced
    BY LineMarks
  <2>2. \E c \in Mark : /\ Follows(log, m, Snapshot, c) /\ c.seen /\ c.epoch = ring.epoch
                        /\ c.at = ring.offset /\ c.asked = m.asked /\ c.blank = blank
    <3>1. blank \in BOOLEAN /\ (blank => ring.offset = 0)
      BY <1>1 DEF Told
    <3> HIDE DEF blank
    <3> QED BY <2>1, <3>1, SnapshotFollows
  <2>3. PICK c \in Mark : /\ Follows(log, m, Snapshot, c) /\ c.seen /\ c.epoch = ring.epoch
                         /\ c.at = ring.offset /\ c.asked = m.asked /\ c.blank = blank
    BY <2>2
  <2>4. Path(log', m, queue', c)
    BY <1>3, <1>5, <2>1, <2>3, PathOfOne
  <2>5. ring.offset = Len(log[ring.epoch])
    BY RingFacts DEF Types
  <2>6. DaemonAt(c)'
    BY <1>1, <2>1, <2>3, <2>5 DEF DaemonAt, daemon
  <2> QED BY <1>2, <1>3, <2>4, <2>6 DEF Line
<1> QED BY <1>1, <1>4, <1>5

LEMMA StorageLine ==
  ASSUME Types, Handshake, NEW a, NEW m, NEW b, Line(a, m, b), Save \/ Loaded \/ LoadTimeout
  PROVE  Line(a, m, b)'
<1>1. /\ Next /\ UNCHANGED <<daemon, conn, pipe, answered, first, screen>>
  BY DEF Next, Save, Loaded, LoadTimeout
<1>2. PageAt(a)'
  <2>1. CASE cache' = cache
    BY <1>1, <2>1, PageKeeps DEF Line, pipe
  <2>2. CASE cache' # cache
    <3>1. loading = "reading"
      BY <2>2 DEF Save, Loaded, LoadTimeout
    <3>2. first /\ link \in {"down", "ready"}
      BY <3>1 DEF Handshake
    <3> QED BY <1>1, <3>2 DEF Line, PageAt, pipe
  <2> QED BY <2>1, <2>2
<1>3. Path(log', a, wire', m) /\ Path(log', m, queue', b)
  BY <1>1, PathsGrow DEF pipe, conn
<1>4. DaemonAt(b)'
  BY <1>1 DEF Line, DaemonAt, daemon, conn
<1> QED BY <1>2, <1>3, <1>4 DEF Line

-----------------------------------------------------------------------------
(* What the page receives.                                                 *)
LEMMA TextGrows ==
  ASSUME NEW L, NEW x \in Seq(Units), NEW y \in Seq(Units), NEW e, NEW p, NEW q,
         Stretch(L, x, e, p - Len(x), p), Stretch(L, y, e, q - Len(y), q), p = q - Len(y)
  PROVE  Stretch(L, x \o y, e, q - Len(x \o y), q)
<1>1. Stretch(L, x \o y, e, p - Len(x), q)
  BY StretchJoins
<1>2. p \in Nat /\ q \in Nat /\ Len(x \o y) = q - (p - Len(x))
  BY <1>1 DEF Stretch
<1>3. Len(x) \in Nat
  BY LenProperties
<1>4. q - Len(x \o y) = p - Len(x)
  BY <1>2, <1>3
<1> QED BY <1>1, <1>4

LEMMA StretchStart ==
  ASSUME NEW L, NEW x, NEW e, NEW lo, NEW hi, Stretch(L, x, e, lo, hi)
  PROVE  Stretch(L, x, e, hi - Len(x), hi)
<1>1. lo \in Nat /\ hi \in Nat /\ Len(x) = hi - lo
  BY DEF Stretch
<1>2. hi - Len(x) = lo
  BY <1>1
<1> QED BY <1>2

(* A text in which at most one unit is a query puts it once.               *)
LEMMA PutsOnce ==
  ASSUME NEW x \in Seq(Units), NEW lo \in Nat, NEW hi \in Nat, OneQuery(x, lo, hi), NEW u \in Probes
  PROVE  PutTo(x, u) = 0 \/ (PutTo(x, u) = 1 /\ lo < u /\ u <= hi)
<1> DEFINE S == {i \in DOMAIN x : x[i] = u}
<1>1. DOMAIN x = 1 .. Len(x)
  BY LenProperties
<1>2. CASE S = {}
  BY <1>2, FS_EmptySet DEF PutTo
<1>3. CASE S # {}
  <2>1. PICK k \in S : TRUE
    BY <1>3
  <2>2. k \in 1 .. Len(x) /\ x[k] = u
    BY <1>1, <2>1
  <2>3. \A i \in S : i = k
    <3>1. \A i \in S : i \in 1 .. Len(x) /\ x[i] \in Probes
      BY <1>1
    <3>2. \A i, j \in 1 .. Len(x) : x[i] \in Probes /\ x[j] \in Probes => i = j
      BY DEF OneQuery
    <3> HIDE DEF S
    <3> QED BY <2>2, <3>1, <3>2, Zenon
  <2>4. S = {k}
    <3> HIDE DEF S
    <3> QED BY <2>1, <2>3
  <2>5. Cardinality(S) = 1
    BY <2>4, FS_Singleton
  <2>6. lo < u /\ u <= hi
    BY <2>2 DEF OneQuery
  <2> QED BY <2>5, <2>6 DEF PutTo
<1> QED BY <1>2, <1>3

LEMMA OneQueryJoins ==
  ASSUME NEW x \in Seq(Units), NEW y \in Seq(Units), NEW lo, NEW hi,
         \A i \in 1 .. Len(x) : x[i] \notin Probes, OneQuery(y, lo, hi)
  PROVE  OneQuery(x \o y, lo, hi)
<1> DEFINE l == Len(x)
           k == Len(y)
           z == x \o y
<1>1. l \in Nat /\ k \in Nat
  BY LenProperties
<1>2. Len(z) = l + k /\ \A i \in 1 .. l + k : z[i] = IF i <= l THEN x[i] ELSE y[i - l]
  BY ConcatProperties
<1>3. \A i \in 1 .. l : x[i] \notin Probes
  OBVIOUS
<1>4. /\ \A i \in 1 .. k : y[i] \in Probes => lo < y[i] /\ y[i] <= hi
      /\ \A i, j \in 1 .. k : y[i] \in Probes /\ y[j] \in Probes => i = j
  BY DEF OneQuery
<1> HIDE DEF l, k, z
<1>5. ASSUME NEW i \in 1 .. l + k, z[i] \in Probes
      PROVE  i - l \in 1 .. k /\ z[i] = y[i - l]
  <2>1. CASE i <= l
    <3>1. i \in 1 .. l
      BY <1>1, <2>1
    <3> QED BY <1>2, <1>3, <1>5, <2>1, <3>1
  <2>2. CASE ~ (i <= l)
    <3>1. i - l \in 1 .. k
      BY <1>1, <2>2
    <3> QED BY <1>2, <2>2, <3>1
  <2> QED BY <2>1, <2>2
<1>6. ASSUME NEW i \in 1 .. l + k, NEW j \in 1 .. l + k, i - l = j - l PROVE i = j
  BY <1>1, <1>6
<1>7. \A i \in 1 .. l + k : z[i] \in Probes => lo < z[i] /\ z[i] <= hi
  BY <1>4, <1>5
<1>8. ASSUME NEW i \in 1 .. l + k, NEW j \in 1 .. l + k, z[i] \in Probes, z[j] \in Probes
      PROVE  i = j
  <2>1. i - l \in 1 .. k /\ j - l \in 1 .. k /\ y[i - l] \in Probes /\ y[j - l] \in Probes
    BY <1>5, <1>8
  <2>2. i - l = j - l
    BY <1>4, <2>1
  <2> QED BY <1>6, <2>2
<1>9. OneQuery(z, lo, hi)
  BY <1>2, <1>7, <1>8 DEF OneQuery
<1> QED BY <1>9 DEF z

(* Where a frame continues: what the page shows, or reads from its cache,  *)
(* and what it remembers, end where it asked to go on.                     *)
LEMMA ContinuesHere ==
  ASSUME Types, Honest(cache), NEW a, PageAt(a), link \in {"asked", "open", "closing"},
         a.epoch \in Nat \ {0}
  PROVE  LET x == IF first THEN FromCache ELSE screen IN
         /\ x \in Seq(Units) /\ Stretch(log, x, a.epoch, a.at - Len(x), a.at)
         /\ cache # None =>
              cache.epoch = a.epoch /\ Stretch(log, cache.data, a.epoch, a.at - Len(cache.data), a.at)
<1>1. CASE ~ first
  BY <1>1 DEF PageAt, StandsAt, Types, PageTypes
<1>2. CASE first
  <2>1. AsksFrom(a)
    BY <1>2 DEF PageAt
  <2>2. Usable(cache) /\ cache # None /\ cache.epoch = a.epoch /\ cache.offset = a.at
    <3>1. CASE Usable(cache)
      BY <2>1, <3>1 DEF AsksFrom, Usable
    <3>2. CASE ~ Usable(cache)
      BY <2>1, <3>2 DEF AsksFrom, Nothing
    <3> QED BY <3>1, <3>2
  <2>3. PICK lo : Stretch(log, cache.data, a.epoch, lo, a.at)
    BY <2>2 DEF Honest
  <2>4. cache.data \in Seq(Units)
    BY <2>2 DEF Types, PageTypes, CacheType, Caches
  <2>5. FromCache = Strip(cache.data) /\ FromCache \in Seq(Units)
    BY <2>2, <2>4, StripText DEF FromCache
  <2>6. Stretch(log, FromCache, a.epoch, lo, a.at)
    BY <2>3, <2>4, <2>5, StretchStrip
  <2> QED BY <1>2, <2>2, <2>3, <2>5, <2>6, StretchStart
<1> QED BY <1>1, <1>2

LEMMA FromCacheHasNoQuery ==
  ASSUME PageTypes PROVE \A i \in 1 .. Len(FromCache) : FromCache[i] \notin Probes
<1>1. CASE cache # None
  <2>1. cache.data \in Seq(Units)
    BY <1>1 DEF PageTypes, CacheType, Caches
  <2> QED BY <1>1, <2>1, StripText, ProbesAreUnits DEF FromCache
<1>2. CASE cache = None
  <2>1. FromCache = <<>> /\ Len(<<>>) = 0 /\ 1 .. 0 = {}
    BY <1>2 DEF FromCache
  <2> QED BY <2>1
<1> QED BY <1>1, <1>2

(* A frame takes the page from the mark it stands at to the next one.      *)
LEMMA ReceiveMoves ==
  ASSUME Types, Handshake, Honest(cache), NEW a \in Mark, PageAt(a), Receive,
         NEW f \in FrameType, f = Head(wire), f.part # "head", link \in {"open", "closing"},
         NEW c \in Mark, Follows(log, a, f, c)
  PROVE  PageAt(c)' /\ StandsAt(c)'
<1> DEFINE x == IF first THEN FromCache ELSE screen
           y == f.data
<1>1. /\ first' = FALSE /\ cache' = Remembered(f) /\ log' = log
      /\ screen' = IF first \/ f.reset THEN Painted(f) ELSE screen \o f.data
      /\ answered' = [u \in Probes |-> answered[u] + PutTo(Painted(f), u)]
  BY DEF Receive, daemon
<1>2. /\ c.epoch = f.epoch /\ f.offset \in {c.at, None}
      /\ Stretch(log, y, f.epoch, c.at - Len(y), c.at)
      /\ f.reset \/ (a.epoch = f.epoch /\ a.at = c.at - Len(y))
      /\ a.asked <= c.asked /\ OneQuery(y, a.asked, c.asked)
      /\ c.blank => f.reset /\ y = <<>>
  BY DEF Follows
<1>3. y \in Seq(Units) /\ Len(y) \in Nat /\ <<>> \o y = y
  BY FrameParts, LenProperties, ConcatEmptySeq
<1>4. PageTypes /\ f.epoch \in Nat \ {0}
  <2>1. f.epoch \in 1 .. Len(log) /\ Len(log) \in Nat
    BY <1>2, RingFacts DEF Types, Stretch
  <2> QED BY <2>1 DEF Types
<1>5. ASSUME ~ f.reset
      PROVE  /\ x \in Seq(Units) /\ Stretch(log, x, f.epoch, a.at - Len(x), a.at)
             /\ cache # None =>
                  /\ cache.epoch = f.epoch
                  /\ Stretch(log, cache.data, f.epoch, a.at - Len(cache.data), a.at)
  <2>1. a.epoch = f.epoch /\ a.epoch \in Nat \ {0}
    BY <1>2, <1>4, <1>5
  <2> QED BY <2>1, ContinuesHere
<1>6. screen' = IF f.reset THEN y ELSE x \o y
  BY <1>1 DEF Painted
<1> HIDE DEF x, y
<1>7. Stretch(log', screen', c.epoch, c.at - Len(screen'), c.at)
  <2>1. CASE f.reset
    BY <1>1, <1>2, <1>6, <2>1
  <2>2. CASE ~ f.reset
    BY <1>1, <1>2, <1>3, <1>5, <1>6, <2>2, TextGrows
  <2> QED BY <2>1, <2>2
<1>8. c.blank => screen' = <<>>
  BY <1>2, <1>6
<1>9. ASSUME cache' # None
      PROVE  /\ cache'.epoch = c.epoch /\ cache'.offset \in {c.at, None}
             /\ Stretch(log', cache'.data, c.epoch, c.at - Len(cache'.data), c.at)
  <2>1. CASE ~ f.reset /\ cache # None /\ cache.epoch # f.epoch
    BY <1>5, <2>1
  <2>2. CASE \E old \in Seq(Units) :
               /\ cache' = [epoch |-> f.epoch, offset |-> f.offset, data |-> old \o y]
               /\ IF f.reset THEN old = <<>>
                  ELSE cache # None /\ cache.epoch = f.epoch /\ old = cache.data
    <3>1. PICK old \in Seq(Units) :
            /\ cache' = [epoch |-> f.epoch, offset |-> f.offset, data |-> old \o y]
            /\ IF f.reset THEN old = <<>>
               ELSE cache # None /\ cache.epoch = f.epoch /\ old = cache.data
      BY <2>2
    <3>2. cache'.epoch = f.epoch /\ cache'.offset = f.offset /\ cache'.data = old \o y
      BY <3>1
    <3>3. CASE f.reset
      BY <1>1, <1>2, <1>3, <3>1, <3>2, <3>3
    <3>4. CASE ~ f.reset
      <4>1. /\ Stretch(log, old, f.epoch, a.at - Len(old), a.at) /\ a.at = c.at - Len(y)
            /\ Stretch(log, y, f.epoch, c.at - Len(y), c.at)
        BY <1>2, <1>5, <3>1, <3>4
      <4>2. Stretch(log, old \o y, f.epoch, c.at - Len(old \o y), c.at)
        BY <1>3, <3>1, <4>1, TextGrows
      <4> QED BY <1>1, <1>2, <3>2, <4>2
    <3> QED BY <3>3, <3>4
  <2>3. \/ Remembered(f) = None
        \/ ~ f.reset /\ cache # None /\ cache.epoch # f.epoch
        \/ \E old \in Seq(Units) :
             /\ Remembered(f) = [epoch |-> f.epoch, offset |-> f.offset, data |-> old \o y]
             /\ IF f.reset THEN old = <<>>
                ELSE cache # None /\ cache.epoch = f.epoch /\ old = cache.data
    BY <1>4, RememberedIs, Zenon DEF y
  <2> QED BY <1>1, <1>9, <2>1, <2>2, <2>3
<1>10. ASSUME NEW u \in Probes
       PROVE  answered'[u] <= 1 /\ (answered'[u] # 0 => u <= c.asked)
  <2> DEFINE p == Painted(f)
             n == PutTo(p, u)
  <2>1. p \in Seq(Units) /\ OneQuery(p, a.asked, c.asked)
    <3> DEFINE z == IF first /\ ~ f.reset THEN FromCache ELSE <<>>
    <3>1. z \in Seq(Units) /\ \A i \in 1 .. Len(z) : z[i] \notin Probes
      <4>1. <<>> \in Seq(Units) /\ Len(<<>>) = 0 /\ 1 .. 0 = {}
        OBVIOUS
      <4> QED BY <1>4, <4>1, FromCacheType, FromCacheHasNoQuery
    <3>2. p = z \o y
      BY <1>3 DEF Painted, y
    <3> HIDE DEF p, z
    <3> QED BY <1>2, <1>3, <3>1, <3>2, OneQueryJoins, ConcatProperties
  <2>2. a.asked \in Nat /\ c.asked \in Nat
    BY DEF Mark
  <2>3. n = 0 \/ (n = 1 /\ a.asked < u /\ u <= c.asked)
    <3> HIDE DEF p
    <3> QED BY <2>1, <2>2, PutsOnce
  <2>4. answered'[u] = answered[u] + n
    BY <1>1
  <2>5. answered[u] \in Nat /\ answered[u] <= 1 /\ (answered[u] # 0 => u <= a.asked) /\ u \in Nat
    BY <1>4, ProbesAreUnits DEF PageTypes, PageAt
  <2> HIDE DEF n
  <2> QED BY <1>2, <2>2, <2>3, <2>4, <2>5
<1>11. StandsAt(c)'
  BY <1>7, <1>8, <1>9 DEF StandsAt
<1> QED BY <1>1, <1>10, <1>11 DEF PageAt

LEMMA ReceiveLine ==
  ASSUME Types, Handshake, Honest(cache), NEW a, NEW m, NEW b, Line(a, m, b), Receive
  PROVE  \/ UNCHANGED <<cache, screen>> /\ Line(a, m, b)'
         \/ \E c : Line(c, m, b)' /\ StandsAt(c)'
<1> DEFINE f == Head(wire)
<1>1. /\ Next /\ wire # <<>> /\ wire \in Seq(FrameType) /\ wire' = Tail(wire)
      /\ UNCHANGED <<daemon, conn, link, request>>
  BY DEF Next, Receive, Types, PipeTypes
<1>2. link \in {"open", "closing"}
  BY <1>1 DEF Handshake, Types, PipeTypes
<1>3. f \in FrameType /\ a \in Mark
  BY <1>1, QueueParts, LineMarks
<1>4. PICK c \in Mark : Follows(log, a, f, c) /\ Path(log, c, Tail(wire), m)
  BY <1>1, PathBegins DEF Line
<1>5. DaemonAt(b)' /\ Path(log', c, wire', m) /\ Path(log', m, queue', b)
  BY <1>1, <1>4 DEF Line, DaemonAt, daemon, conn
<1>6. CASE f.part = "head"
  <2>1. UNCHANGED <<first, cache, screen, answered>>
    BY <1>6 DEF Receive
  <2>2. c = a
    BY <1>4, <1>6 DEF Follows
  <2>3. PageAt(a)'
    BY <1>1, <2>1, PageKeeps DEF Line
  <2> QED BY <1>5, <2>1, <2>2, <2>3 DEF Line
<1>7. CASE f.part # "head"
  <2> HIDE DEF f
  <2>1. PageAt(a) /\ f = Head(wire)
    BY DEF Line, f
  <2>2. PageAt(c)' /\ StandsAt(c)'
    BY <1>2, <1>3, <1>4, <1>7, <2>1, ReceiveMoves
  <2> QED BY <1>5, <2>2 DEF Line
<1> QED BY <1>6, <1>7

LEMMA StandingIsHonest ==
  ASSUME NEW c, StandsAt(c)'
  PROVE  Honest(cache)' /\ Shown'
<1>1. Shown'
  BY DEF StandsAt, Shown
<1>2. Usable(cache') => cache' # None /\ cache'.offset # None
  BY DEF Usable
<1> QED BY <1>1, <1>2 DEF StandsAt, Honest

LEMMA LineStep ==
  ASSUME Inv, Next
  PROVE  /\ \E a, m, b : Line(a, m, b)'
         /\ Receive => UNCHANGED <<cache, screen>> \/ (Honest(cache)' /\ Shown')
<1>1. Types /\ Handshake /\ Told /\ Honest(cache)
  BY DEF Inv
<1>2. PICK a, m, b : Line(a, m, b)
  BY DEF Inv
<1>3. Receive => \E d, n, c : Line(d, n, c)'
  BY <1>1, <1>2, ReceiveLine
<1>4. ASSUME NEW half \in BOOLEAN, Flush(half) PROVE \E d, n, c : Line(d, n, c)'
  BY <1>1, <1>2, <1>4, FlushLine
<1>5. Output => \E d, n, c : Line(d, n, c)'
  BY <1>1, <1>2, OutputLine
<1>6. ShellExit \/ Restart => \E d, n, c : Line(d, n, c)'
  BY <1>1, <1>2, EpochLine
<1>7. Connect \/ Ask \/ Accept \/ Reload => \E d, n, c : Line(d, n, c)'
  BY <1>1, <1>2, HandshakeLine
<1>8. ServeRequest => \E d, n, c : Line(d, n, c)'
  BY <1>1, <1>2, ServeLine
<1>9. BudgetOver => \E d, n, c : Line(d, n, c)'
  BY <1>1, <1>2, BudgetLine
<1>10. Drop \/ Drained => \E d, n, c : Line(d, n, c)'
  BY <1>1, <1>2, DownLine
<1>11. Save \/ Loaded \/ LoadTimeout => \E d, n, c : Line(d, n, c)'
  BY <1>1, <1>2, StorageLine
<1>12. \E d, n, c : Line(d, n, c)'
  BY <1>3, <1>4, <1>5, <1>6, <1>7, <1>8, <1>9, <1>10, <1>11, Zenon DEF Next
<1>13. Receive => UNCHANGED <<cache, screen>> \/ (Honest(cache)' /\ Shown')
  BY <1>1, <1>2, ReceiveLine, StandingIsHonest
<1> QED BY <1>12, <1>13

LEMMA CacheStep == ASSUME Inv, Next PROVE Honest(cache)' /\ Honest(stored)' /\ Shown'
<1>1. /\ Types /\ CacheType(cache) /\ CacheType(stored) /\ Honest(cache) /\ Honest(stored) /\ Shown
      /\ Len(screen) \in Nat /\ log \in Logs /\ Len(log) \in Nat \ {0}
  BY LenProperties, RingFacts DEF Inv, Types, PageTypes
<1>2. Usable(cache) => \E lo : Stretch(log', cache.data, cache.epoch, lo, cache.offset)
  BY <1>1, HonestGrows
<1>3. Usable(stored) => \E lo : Stretch(log', stored.data, stored.epoch, lo, stored.offset)
  BY <1>1, HonestGrows
<1>4. \E e, lo, hi : Stretch(log', screen, e, lo, hi)
  <2>1. PICK e, lo, hi : Stretch(log, screen, e, lo, hi)
    BY <1>1 DEF Shown
  <2> QED BY <1>1, <2>1, LogGrows, StretchGrows
<1>5. cache' = cache => Honest(cache)'
  BY <1>2 DEF Honest, Usable
<1>6. stored' \in {stored, cache, None} => Honest(stored)'
  BY <1>2, <1>3 DEF Honest, Usable
<1>7. screen' = screen => Shown'
  BY <1>4 DEF Shown
<1>8. CASE Receive
  BY <1>5, <1>6, <1>7, <1>8, LineStep DEF Receive
<1>9. CASE Reload
  <2>1. cache' = None /\ screen' = <<>> /\ stored' \in {stored, None} /\ log' = log
    BY <1>9 DEF Reload, LinkDown, daemon
  <2>2. Stretch(log, <<>>, 1, 0, 0)
    <3>1. 1 \in 1 .. Len(log)
      BY <1>1
    <3>2. 0 \in 0 .. Len(log[1])
      BY <1>1, <3>1, LogEntry
    <3> QED BY <1>1, <3>1, <3>2, StretchOfNothing
  <2>3. Honest(cache)' /\ Shown'
    BY <2>1, <2>2 DEF Honest, Usable, Shown
  <2> QED BY <1>6, <2>1, <2>3
<1>10. CASE Loaded
  <2>1. cache' \in {stored, cache} /\ UNCHANGED <<stored, screen>>
    BY <1>10 DEF Loaded
  <2>2. Honest(cache)'
    BY <1>2, <1>3, <2>1 DEF Honest, Usable
  <2> QED BY <1>6, <1>7, <2>1, <2>2
<1>11. CASE Save
  BY <1>5, <1>6, <1>7, <1>11 DEF Save
<1>12. CASE ~ (Receive \/ Reload \/ Loaded \/ Save)
  <2>1. UNCHANGED <<cache, stored, screen>>
    BY <1>12 DEF Next, page, Output, ShellExit, Restart, Connect, Ask, Accept, ServeRequest, Flush,
           BudgetOver, Drop, Drained, LoadTimeout
  <2> QED BY <1>5, <1>6, <1>7, <2>1
<1> QED BY <1>8, <1>9, <1>10, <1>11, <1>12

LEMMA InvStep == Inv /\ [Next]_vars => Inv'
<1> SUFFICES ASSUME Inv, [Next]_vars PROVE Inv'
  OBVIOUS
<1>1. CASE Next
  <2>1. Types' /\ Handshake' /\ Told'
    BY <1>1, TypesStep, HandshakeStep, ToldStep DEF Inv
  <2>2. Honest(cache)' /\ Honest(stored)' /\ Shown'
    BY <1>1, CacheStep
  <2>3. \E a, m, b : Line(a, m, b)'
    BY <1>1, LineStep
  <2> QED BY <2>1, <2>2, <2>3 DEF Inv
<1>2. CASE UNCHANGED vars
  <2>1. UNCHANGED <<ring, client, clientEpoch, queue, deadline, link, request, wire, cache, loading,
                    stored, first, torn, screen, log, produced, answered, faults>>
    BY <1>2 DEF vars, daemon, conn, pipe, page
  <2>2. PICK a, m, b : Line(a, m, b)
    BY DEF Inv
  <2>3. PageAt(a)' /\ DaemonAt(b)'
    BY <2>1, <2>2 DEF Line, PageAt, DaemonAt, StandsAt, AsksFrom, Usable
  <2>4. Line(a, m, b)'
    BY <2>1, <2>2, <2>3 DEF Line
  <2>5. Honest(cache)' /\ Honest(stored)' /\ Shown'
    BY <2>1 DEF Inv, Honest, Usable, Shown
  <2>6. Types' /\ Handshake' /\ Told'
    BY <2>1, TypesStep DEF Inv, Handshake, Told
  <2> QED BY <2>4, <2>5, <2>6 DEF Inv
<1> QED BY <1>1, <1>2

LEMMA InvInit == Init => Inv
<1> SUFFICES ASSUME Init PROVE Inv
  OBVIOUS
<1>1. Types
  BY TypesInit
<1>2. Handshake /\ Told
  BY DEF Init, Handshake, Told
<1>3. Honest(cache) /\ Honest(stored)
  BY DEF Init, Honest, Usable
<1>4. Shown
  <2>1. log \in Logs /\ 1 \in 1 .. Len(log)
    BY <1>1, RingFacts DEF Types
  <2>2. 0 \in 0 .. Len(log[1])
    BY <2>1, LogEntry
  <2>3. Stretch(log, <<>>, 1, 0, 0)
    BY <2>1, <2>2, StretchOfNothing
  <2> QED BY <2>3 DEF Init, Shown
<1>5. \E a, m, b : Line(a, m, b)
  <2> DEFINE a == From(Nothing, 0)
  <2>1. a \in Mark /\ a.asked = 0 /\ ~ a.seen
    BY NothingIsRequest, FromIs
  <2> HIDE DEF a
  <2>2. PageAt(a)
    BY <2>1 DEF Init, PageAt
  <2>3. DaemonAt(a)
    BY <2>1 DEF Init, DaemonAt
  <2>4. Path(log, a, <<>>, a)
    BY <2>1, PathStays
  <2> QED BY <2>2, <2>3, <2>4 DEF Line, Init
<1> QED BY <1>1, <1>2, <1>3, <1>4, <1>5 DEF Inv

LEMMA StretchShows ==
  ASSUME NEW x, NEW e, NEW lo, NEW hi, Stretch(log, x, e, lo, hi)
  PROVE  /\ Shows(x, e, lo, hi) /\ e \in 1 .. Len(log) /\ hi \in 0 .. Len(log[e]) /\ lo \in 0 .. hi
         /\ Len(x) <= hi /\ lo = hi - Len(x)
<1>1. /\ e \in 1 .. Len(log) /\ lo \in Nat /\ hi \in Nat /\ lo <= hi /\ hi <= Len(log[e])
      /\ Len(x) = hi - lo
  BY DEF Stretch
<1>2. Shows(x, e, lo, hi)
  BY DEF Stretch, Shows
<1>3. lo \in 0 .. hi /\ Len(x) <= hi /\ lo = hi - Len(x)
  BY <1>1
<1>4. hi \in 0 .. Len(log[e])
  <2>1. Len(log[e]) \in Int
    OBVIOUS
  <2> QED BY <1>1, <2>1
<1> QED BY <1>1, <1>2, <1>3, <1>4

LEMMA InvIsExact == Inv => ResumesExactly
<1> SUFFICES ASSUME Inv PROVE ResumesExactly
  OBVIOUS
<1>1. ScreenIsOutput
  <2>1. PICK e, lo, hi : Stretch(log, screen, e, lo, hi)
    BY DEF Inv, Shown
  <2>2. /\ Shows(screen, e, hi - Len(screen), hi) /\ e \in 1 .. Len(log)
        /\ hi \in 0 .. Len(log[e]) /\ Len(screen) <= hi
    BY <2>1, StretchShows
  <2> QED BY <2>2 DEF ScreenIsOutput
<1>2. ASSUME NEW c, Honest(c) PROVE HonestCursor(c)
  <2>1. ASSUME Usable(c) PROVE \E lo \in 0 .. c.offset : Shows(c.data, c.epoch, lo, c.offset)
    BY <1>2, <2>1, StretchShows DEF Honest
  <2> QED BY <2>1 DEF HonestCursor
<1>3. CursorsAreHonest
  BY <1>2 DEF Inv, CursorsAreHonest
<1>4. PICK a, m, b : Line(a, m, b)
  BY DEF Inv
<1>5. ProbesAskedOnce
  BY <1>4 DEF Line, PageAt, ProbesAskedOnce
<1>6. ASSUME link = "open", queue = <<>>, wire = <<>>
      PROVE  LET end == Len(log[clientEpoch]) IN
             Len(screen) <= end /\ Shows(screen, clientEpoch, end - Len(screen), end)
  <2> DEFINE end == Len(log[clientEpoch])
  <2>1. client = "resumed"
    BY <1>6 DEF Inv, Handshake
  <2>2. a = b
    BY <1>4, <1>6, PathOfNothing DEF Line
  <2>3. StandsAt(b)
    BY <1>4, <2>1, <2>2 DEF Line, PageAt, DaemonAt
  <2>4. Stretch(log, screen, clientEpoch, end - Len(screen), end)
    <3>1. CASE b.epoch = clientEpoch /\ b.at = end
      BY <2>3, <3>1 DEF StandsAt
    <3>2. CASE b.blank
      <4>1. log \in Logs /\ clientEpoch \in 1 .. Len(log) /\ screen = <<>>
        BY <2>1, <2>3, <3>2, RingFacts DEF Inv, Told, Types, StandsAt
      <4>2. end \in Nat
        BY <4>1, LogEntry
      <4>3. end \in 0 .. end /\ end - 0 = end /\ Len(<<>>) = 0
        BY <4>2
      <4>4. Stretch(log, <<>>, clientEpoch, end, end)
        BY <4>1, <4>3, StretchOfNothing
      <4> HIDE DEF end
      <4> QED BY <4>1, <4>3, <4>4
    <3> QED BY <1>4, <2>1, <3>1, <3>2 DEF Line, DaemonAt
  <2> QED BY <2>4, StretchShows
<1>7. AttachedIsCurrent
  BY <1>6 DEF AttachedIsCurrent
<1> QED BY <1>1, <1>3, <1>5, <1>7 DEF ResumesExactly

(* For any constants, and however often shells exit, the daemon dies,      *)
(* connections break and pages are loaded: a screen is a stretch of one    *)
(* shell's output and, once nothing is on its way, its end; a cursor in    *)
(* the page or its store is where the text beside it ends; and no query    *)
(* is put to xterm twice.                                                  *)
THEOREM ResumeIsExact == Spec => []ResumesExactly
<1>1. Spec => []Inv
  BY InvInit, InvStep, PTL DEF Spec
<1> QED BY <1>1, InvIsExact, PTL

=============================================================================
