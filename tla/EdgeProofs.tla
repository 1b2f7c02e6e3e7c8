----------------------------- MODULE EdgeProofs -----------------------------
(***************************************************************************)
(* Proofs about Edge for any content, ranges, readers, TTLs, windows and   *)
(* number of faults.  The first part is about data: the fragments of the   *)
(* chunks that GET streams are, put together, the range that was asked     *)
(* for (RangeRead), by induction on the number of chunks.  The second part *)
(* is about the readers: a reader that reads the namespace several times   *)
(* holds only versions that were current since its request began.          *)
(***************************************************************************)
EXTENDS Edge, SequenceTheorems, WellFoundedInduction, TLAPS

(* Induction on the naturals, for a set instead of an operator.            *)
LEMMA SetInduction ==
  ASSUME NEW T, 0 \in T, \A n \in Nat : n \in T => n + 1 \in T
  PROVE  Nat \subseteq T
<1>. DEFINE R == OpToRel(<, Nat)
            U == Nat \ T
<1>. SUFFICES ASSUME U # {} PROVE FALSE
  OBVIOUS
<1>1. IsWellFoundedOn(R, Nat)
  BY NatLessThanWellFounded, Zenon
<1>. HIDE DEF R
<1>2. U \subseteq Nat
  OBVIOUS
<1>3. PICK x \in U : \A y \in U : ~(<<y, x>> \in R)
  BY <1>1, <1>2, WFMin, Zenon
<1>4. x \in Nat /\ x # 0
  OBVIOUS
<1>5. x - 1 \in Nat /\ x - 1 < x /\ (x - 1) + 1 = x
  BY <1>4
<1>6. x - 1 \in U
  BY <1>5
<1>. QED
  BY <1>3, <1>4, <1>5, <1>6 DEF R, OpToRel

(* The recursive function inside FlattenSeq.                               *)
Flattens(f, s, n) == f = [i \in 1..n |-> IF i = 1 THEN s[i] ELSE f[i - 1] \o s[i]]

(* There is such a function, for every number of parts.                    *)
LEMMA FlattensExists ==
  ASSUME NEW s, NEW m \in Nat
  PROVE  \E f : Flattens(f, s, m)
<1>. DEFINE T == {n \in Nat : \E f : Flattens(f, s, n)}
<1>1. 0 \in T
  <2>1. Flattens([i \in 1..0 |-> 0], s, 0)
    BY DEF Flattens
  <2>. QED
    BY <2>1
<1>2. ASSUME NEW n \in Nat, n \in T PROVE n + 1 \in T
  <2>1. PICK f : Flattens(f, s, n)
    BY <1>2
  <2>. DEFINE g == [i \in 1..(n + 1) |-> IF i = 1 THEN s[i] ELSE f[i - 1] \o s[i]]
  <2>2. ASSUME NEW i \in 1..(n + 1), i # 1 PROVE g[i - 1] = f[i - 1]
    <3>1. i - 1 \in 1..n /\ i - 1 \in 1..(n + 1)
      BY <2>2
    <3>. QED
      BY <2>1, <3>1 DEF Flattens
  <2>3. Flattens(g, s, n + 1)
    BY <2>2 DEF Flattens
  <2>. QED
    BY <2>3
<1>. HIDE DEF T
<1>3. m \in T
  BY <1>1, <1>2, SetInduction
<1>. QED
  BY <1>3 DEF T

(* FlattenSeq is the last value of that function.                          *)
LEMMA FlattenUnfold ==
  ASSUME NEW s, Len(s) \in Nat, Len(s) # 0
  PROVE  \E f : Flattens(f, s, Len(s)) /\ FlattenSeq(s) = f[Len(s)]
<1>. DEFINE g == CHOOSE f : Flattens(f, s, Len(s))
<1>1. Flattens(g, s, Len(s))
  BY FlattensExists
<1>2. FlattenSeq(s) = g[Len(s)]
  BY DEF FlattenSeq, Flattens
<1>. QED
  BY <1>1, <1>2

(* The bytes of the first k parts of s.                                    *)
Prefix(s, k) == FlattenSeq(SubSeq(s, 1, k))

(* Nothing flattens to nothing.                                            *)
LEMMA FlattenEmpty == FlattenSeq(<<>>) = <<>>
  BY DEF FlattenSeq

(* The function inside FlattenSeq gives the bytes of each prefix.          *)
LEMMA FlattensSteps ==
  ASSUME NEW s \in Seq(Seq(Nat)), NEW f, NEW m \in Nat, m <= Len(s), Flattens(f, s, m)
  PROVE  \A k \in 1..m : f[k] \in Seq(Nat) /\ f[k] = Prefix(s, k)
<1>. DEFINE cut(k) == SubSeq(s, 1, k)
            Same(n) == \A k \in 1..m : \A g : n <= k /\ Flattens(g, cut(k), k) => g[n] = f[n]
            U == {n \in Nat : n \in 1..m => f[n] \in Seq(Nat) /\ Same(n)}
<1>0. Len(s) \in Nat /\ \A k \in 1..Len(s) : s[k] \in Seq(Nat)
  OBVIOUS
<1>1. \A k \in 1..m : k \in 1..Len(s) /\ k \in Nat /\ k # 0
  BY <1>0
<1>2. \A k \in 1..m : Len(cut(k)) = k /\ \A j \in 1..k : cut(k)[j] = s[j]
  BY <1>0, <1>1
<1>3. \A k \in 1..m : f[k] = IF k = 1 THEN s[k] ELSE f[k - 1] \o s[k]
  BY DEF Flattens
<1>4. ASSUME NEW k \in 1..m, NEW g, Flattens(g, cut(k), k), NEW n \in 1..k
      PROVE  g[n] = IF n = 1 THEN s[n] ELSE g[n - 1] \o s[n]
  <2>1. g[n] = IF n = 1 THEN cut(k)[n] ELSE g[n - 1] \o cut(k)[n]
    BY <1>4 DEF Flattens
  <2>. QED
    BY <1>2, <2>1
<1>. HIDE DEF cut
<1>5. 0 \in U
  OBVIOUS
<1>6. ASSUME NEW n \in Nat, n \in U PROVE n + 1 \in U
  <2>. SUFFICES ASSUME n + 1 \in 1..m PROVE f[n + 1] \in Seq(Nat) /\ Same(n + 1)
    OBVIOUS
  <2>0. s[n + 1] \in Seq(Nat) /\ (n + 1) - 1 = n
    BY <1>0, <1>1
  <2>1. CASE n = 0
    <3>1. f[1] = s[1]
      BY <1>3, <2>1
    <3>2. ASSUME NEW k \in 1..m, NEW g, Flattens(g, cut(k), k) PROVE g[1] = f[1]
      <4>1. 1 \in 1..k
        BY <1>1
      <4>. QED
        BY <1>4, <3>1, <3>2, <4>1
    <3>. QED
      BY <2>0, <2>1, <3>1, <3>2
  <2>2. CASE n # 0
    <3>1. n \in 1..m /\ f[n] \in Seq(Nat) /\ Same(n) /\ n + 1 # 1
      BY <1>6, <2>2
    <3>2. f[n + 1] = f[n] \o s[n + 1]
      BY <1>3, <2>0, <3>1
    <3>3. f[n + 1] \in Seq(Nat)
      BY <2>0, <3>1, <3>2, ConcatProperties
    <3>4. ASSUME NEW k \in 1..m, NEW g, n + 1 <= k, Flattens(g, cut(k), k) PROVE g[n + 1] = f[n + 1]
      <4>1. n + 1 \in 1..k /\ n <= k
        BY <1>1, <3>4
      <4>2. g[n + 1] = IF n + 1 = 1 THEN s[n + 1] ELSE g[(n + 1) - 1] \o s[n + 1]
        BY <1>4, <3>4, <4>1, SMTT(60)
      <4>3. g[n] = f[n]
        BY <3>1, <3>4, <4>1
      <4>. QED
        BY <2>0, <3>1, <3>2, <4>2, <4>3
    <3>. QED
      BY <3>3, <3>4
  <2>. QED
    BY <2>1, <2>2
<1>. HIDE DEF U
<1>7. Nat \subseteq U
  BY <1>5, <1>6, SetInduction
<1>8. ASSUME NEW k \in 1..m PROVE f[k] \in Seq(Nat) /\ f[k] = Prefix(s, k)
  <2>1. f[k] \in Seq(Nat) /\ Same(k)
    BY <1>1, <1>7 DEF U
  <2>2. Len(cut(k)) \in Nat /\ Len(cut(k)) # 0 /\ Len(cut(k)) = k
    BY <1>1, <1>2
  <2>3. PICK g : Flattens(g, cut(k), Len(cut(k))) /\ FlattenSeq(cut(k)) = g[Len(cut(k))]
    BY <2>2, FlattenUnfold, Zenon
  <2>4. g[k] = f[k]
    BY <1>1, <2>1, <2>2, <2>3
  <2>. QED
    BY <2>1, <2>2, <2>3, <2>4 DEF Prefix, cut
<1>. QED
  BY <1>8

(* What FlattenSeq computes, one part at a time.                           *)
LEMMA FlattenPrefix ==
  ASSUME NEW s \in Seq(Seq(Nat))
  PROVE  /\ Prefix(s, 0) = <<>>
         /\ Prefix(s, Len(s)) = FlattenSeq(s)
         /\ \A k \in 0..Len(s) : Prefix(s, k) \in Seq(Nat)
         /\ \A k \in 1..Len(s) : Prefix(s, k) = Prefix(s, k - 1) \o s[k]
<1>0. Len(s) \in Nat /\ \A k \in 1..Len(s) : s[k] \in Seq(Nat)
  OBVIOUS
<1>1. Prefix(s, 0) = <<>>
  <2>1. SubSeq(s, 1, 0) = <<>>
    BY SubSeqEmpty
  <2>. QED
    BY <2>1, FlattenEmpty DEF Prefix
<1>2. SubSeq(s, 1, Len(s)) = s
  BY SubSeqFull
<1>3. PICK f : Flattens(f, s, Len(s))
  BY <1>0, FlattensExists
<1>4. \A k \in 1..Len(s) : f[k] \in Seq(Nat) /\ f[k] = Prefix(s, k)
  BY <1>0, <1>3, FlattensSteps
<1>5. ASSUME NEW k \in 1..Len(s) PROVE Prefix(s, k) = Prefix(s, k - 1) \o s[k]
  <2>1. f[k] = IF k = 1 THEN s[k] ELSE f[k - 1] \o s[k]
    BY <1>3 DEF Flattens
  <2>2. CASE k = 1
    <3>1. <<>> \o s[1] = s[1]
      BY <1>0, <2>2, ConcatEmptySeq
    <3>. QED
      BY <1>1, <1>4, <2>1, <2>2, <3>1
  <2>3. CASE k # 1
    <3>1. k - 1 \in 1..Len(s)
      BY <1>0, <2>3
    <3>. QED
      BY <1>4, <2>1, <2>3, <3>1
  <2>. QED
    BY <2>2, <2>3
<1>6. ASSUME NEW k \in 0..Len(s) PROVE Prefix(s, k) \in Seq(Nat)
  <2>1. CASE k = 0
    BY <1>1, <2>1, EmptySeq
  <2>2. CASE k # 0
    <3>1. k \in 1..Len(s)
      BY <1>0, <2>2
    <3>. QED
      BY <1>4, <3>1
  <2>. QED
    BY <2>1, <2>2
<1>. QED
  BY <1>1, <1>2, <1>5, <1>6 DEF Prefix

(* SubSeq within the bounds of a sequence.                                 *)
LEMMA SubSeqBytes ==
  ASSUME NEW z \in Seq(Nat), NEW m \in Nat, NEW n \in Nat, m >= 1, n <= Len(z)
  PROVE  /\ SubSeq(z, m, n) \in Seq(Nat)
         /\ Len(SubSeq(z, m, n)) = (IF m <= n THEN n - m + 1 ELSE 0)
         /\ \A i \in 1..(n - m + 1) : SubSeq(z, m, n)[i] = z[m + i - 1]
  OBVIOUS

(* The bytes of z from lo to hi, as far as z goes.                         *)
Least(a, b) == IF a < b THEN a ELSE b
Most(a, b) == IF a > b THEN a ELSE b
Cut(z, lo, hi) == SubSeq(z, lo + 1, Least(hi + 1, Len(z)))

(* The fragment of a part y that follows a bytes.                          *)
Piece(a, y, lo, hi) ==
  IF a + Len(y) - 1 < lo \/ a > hi THEN <<>>
  ELSE SubSeq(y, Most(lo, a) - a + 1, Least(hi, a + Len(y) - 1) - a + 1)

(* Where the bytes of the cut come from, a the length of the first part    *)
(* and b of the second.                                                    *)
LEMMA CutPlaces ==
  ASSUME NEW a \in Nat, NEW b \in Nat, NEW lo \in Nat, NEW hi \in Nat, b # 0, lo <= hi
  PROVE  LET u == Least(hi + 1, a)
             t == Least(hi + 1, a + b)
             skip == a + b - 1 < lo \/ a > hi
             from == Most(lo, a) - a + 1
             to == Least(hi, a + b - 1) - a + 1
             lc == IF lo + 1 <= u THEN u - lo ELSE 0
             lp == IF skip THEN 0 ELSE to - from + 1
             ld == IF lo + 1 <= t THEN t - lo ELSE 0
         IN  \A i \in 1..ld :
               /\ lo + i \in 1..(a + b)
               /\ i <= lc => i \in 1..lc /\ lo + i <= a
               /\ ~(i <= lc) => i - lc \in 1..lp /\ ~(lo + i <= a) /\ from + (i - lc) - 1 = (lo + i) - a
  BY DEF Least, Most

(* A cut through two parts is a cut through the first and a fragment of    *)
(* the second.                                                             *)
LEMMA CutConcat ==
  ASSUME NEW x \in Seq(Nat), NEW y \in Seq(Nat), NEW lo \in Nat, NEW hi \in Nat, lo <= hi, y # <<>>
  PROVE  /\ Cut(x \o y, lo, hi) = Cut(x, lo, hi) \o Piece(Len(x), y, lo, hi)
         /\ Piece(Len(x), y, lo, hi) \in Seq(Nat)
<1>. DEFINE z == x \o y
            p == Piece(Len(x), y, lo, hi)
            c == Cut(x, lo, hi)
            d == Cut(z, lo, hi)
<1>1. PICK a \in Nat, b \in Nat : a = Len(x) /\ b = Len(y) /\ b # 0
  BY EmptySeq
<1>2. /\ z \in Seq(Nat) /\ Len(z) = a + b
      /\ \A i \in 1..(a + b) : z[i] = IF i <= a THEN x[i] ELSE y[i - a]
  BY <1>1, ConcatProperties
<1>. DEFINE u == Least(hi + 1, a)
            t == Least(hi + 1, a + b)
            skip == a + b - 1 < lo \/ a > hi
            from == Most(lo, a) - a + 1
            to == Least(hi, a + b - 1) - a + 1
            lc == IF lo + 1 <= u THEN u - lo ELSE 0
            lp == IF skip THEN 0 ELSE to - from + 1
            ld == IF lo + 1 <= t THEN t - lo ELSE 0
<1>3. u \in Nat /\ u <= a /\ t \in Nat /\ t <= a + b
  BY DEF Least
<1>4. /\ c \in Seq(Nat) /\ Len(c) = lc
      /\ \A i \in 1..lc : c[i] = x[lo + i]
  <2>1. c = SubSeq(x, lo + 1, u) /\ u - (lo + 1) + 1 = u - lo
    BY <1>1, <1>3 DEF Cut
  <2>. HIDE DEF u
  <2>2. /\ c \in Seq(Nat) /\ Len(c) = (IF lo + 1 <= u THEN u - (lo + 1) + 1 ELSE 0)
        /\ \A i \in 1..(u - (lo + 1) + 1) : c[i] = x[lo + 1 + i - 1]
    BY <1>1, <1>3, <2>1, SubSeqBytes, SMTT(60)
  <2>3. ASSUME NEW i \in 1..lc PROVE c[i] = x[lo + i]
    <3>1. i \in 1..(u - (lo + 1) + 1) /\ lo + 1 + i - 1 = lo + i
      BY <1>3
    <3>. QED
      BY <2>2, <3>1
  <2>4. Len(c) = lc
    BY <1>3, <2>1, <2>2
  <2>. QED
    BY <2>2, <2>3, <2>4, Zenon
<1>5. /\ d \in Seq(Nat) /\ Len(d) = ld
      /\ \A i \in 1..ld : d[i] = z[lo + i]
  <2>1. d = SubSeq(z, lo + 1, t) /\ t - (lo + 1) + 1 = t - lo
    BY <1>2, <1>3 DEF Cut
  <2>. HIDE DEF t, z, d
  <2>2. /\ d \in Seq(Nat) /\ Len(d) = (IF lo + 1 <= t THEN t - (lo + 1) + 1 ELSE 0)
        /\ \A i \in 1..(t - (lo + 1) + 1) : d[i] = z[lo + 1 + i - 1]
    BY <1>2, <1>3, <2>1, SubSeqBytes, SMTT(60)
  <2>3. ASSUME NEW i \in 1..ld PROVE d[i] = z[lo + i]
    <3>1. i \in 1..(t - (lo + 1) + 1) /\ lo + 1 + i - 1 = lo + i
      BY <1>3
    <3>. QED
      BY <2>2, <3>1
  <2>4. Len(d) = ld
    BY <1>3, <2>1, <2>2
  <2>. QED
    BY <2>2, <2>3, <2>4, Zenon
<1>6. ~skip => from \in Nat /\ from >= 1 /\ to \in Nat /\ to <= b /\ from <= to
  BY <1>1 DEF Least, Most
<1>7. /\ p \in Seq(Nat) /\ Len(p) = lp
      /\ \A i \in 1..lp : p[i] = y[from + i - 1]
  <2>1. CASE skip
    BY <1>1, <2>1, EmptySeq DEF Piece
  <2>2. CASE ~skip
    <3>1. p = SubSeq(y, from, to)
      BY <1>1, <2>2 DEF Piece
    <3>2. from \in Nat /\ from >= 1 /\ to \in Nat /\ to <= Len(y) /\ from <= to /\ lp = to - from + 1
      BY <1>1, <1>6, <2>2
    <3>. HIDE DEF from, to, skip, p
    <3>3. /\ p \in Seq(Nat) /\ Len(p) = (IF from <= to THEN to - from + 1 ELSE 0)
          /\ \A i \in 1..(to - from + 1) : p[i] = y[from + i - 1]
      BY <3>1, <3>2, SubSeqBytes, SMTT(60)
    <3>. QED
      BY <3>2, <3>3
  <2>. QED
    BY <2>1, <2>2
<1>8. lc \in Nat /\ lp \in Nat /\ ld \in Nat /\ ld = lc + lp
  <2>. HIDE DEF p, c, d, z
  <2>1. b # 0
    BY <1>1
  <2>. QED
    BY <2>1 DEF Least, Most
<1>9. ASSUME NEW i \in 1..ld
      PROVE  /\ lo + i \in 1..(a + b)
             /\ i <= lc => i \in 1..lc /\ lo + i <= a
             /\ ~(i <= lc) => i - lc \in 1..lp /\ ~(lo + i <= a) /\ from + (i - lc) - 1 = (lo + i) - a
  BY <1>1, CutPlaces, ZenonT(60)
<1>. HIDE DEF p, c, d, z, lc, lp, ld, from
<1>10. /\ c \o p \in Seq(Nat) /\ Len(c \o p) = lc + lp
       /\ \A i \in 1..(lc + lp) : (c \o p)[i] = IF i <= lc THEN c[i] ELSE p[i - lc]
  <2>1. c \in Seq(Nat) /\ p \in Seq(Nat) /\ Len(c) = lc /\ Len(p) = lp
    BY <1>4, <1>7, Zenon
  <2>2. /\ c \o p \in Seq(Nat) /\ Len(c \o p) = Len(c) + Len(p)
        /\ \A i \in 1..(Len(c) + Len(p)) :
             (c \o p)[i] = IF i <= Len(c) THEN c[i] ELSE p[i - Len(c)]
    BY <2>1, ConcatProperties, Zenon
  <2>. QED
    BY <2>1, <2>2, Zenon
<1>11. ASSUME NEW i \in 1..ld PROVE d[i] = (c \o p)[i]
  <2>1. d[i] = z[lo + i] /\ z[lo + i] = IF lo + i <= a THEN x[lo + i] ELSE y[(lo + i) - a]
    BY <1>2, <1>5, <1>9
  <2>2. (c \o p)[i] = IF i <= lc THEN c[i] ELSE p[i - lc]
    BY <1>8, <1>10
  <2>3. CASE i <= lc
    <3>1. c[i] = x[lo + i] /\ lo + i <= a
      BY <1>4, <1>9, <2>3
    <3>. QED
      BY <2>1, <2>2, <2>3, <3>1
  <2>4. CASE ~(i <= lc)
    <3>1. i - lc \in 1..lp /\ ~(lo + i <= a) /\ from + (i - lc) - 1 = (lo + i) - a
      BY <1>9, <2>4
    <3>2. p[i - lc] = y[from + (i - lc) - 1]
      BY <1>7, <3>1
    <3>. QED
      BY <2>1, <2>2, <2>4, <3>1, <3>2
  <2>. QED
    BY <2>3, <2>4
<1>12. d = c \o p
  BY <1>5, <1>8, <1>10, <1>11, SeqEqual
<1>. QED
  BY <1>7, <1>12 DEF c, d, p, z

-----------------------------------------------------------------------------
(* The bytes a client of version v and range rg is owed.                   *)
Want(v, rg) == IF rg = None THEN Bytes(v) ELSE SubSeq(Bytes(v), rg.start + 1, rg.end + 1)

(* The chunks of a version: at least one, and none is empty.               *)
LEMMA Chunks ==
  ASSUME NEW v \in Versions
  PROVE  /\ Content[v] \in Seq(Seq(Nat)) /\ Len(Content[v]) \in Nat \ {0}
         /\ \A i \in 1..Len(Content[v]) : Content[v][i] \in Seq(Nat) /\ Content[v][i] # <<>>
<1>1. Content[v] \in Seq(Seq(Nat)) /\ Content[v] # <<>> /\ <<>> \notin ToSet(Content[v])
  BY EdgeAssumption DEF Versions
<1>2. Len(Content[v]) \in Nat \ {0} /\ DOMAIN Content[v] = 1..Len(Content[v])
  BY <1>1, EmptySeq, LenProperties
<1>3. \A i \in 1..Len(Content[v]) : Content[v][i] \in ToSet(Content[v])
  BY <1>2 DEF ToSet
<1>4. \A i \in 1..Len(Content[v]) : Content[v][i] \in Seq(Nat)
  BY <1>1, <1>2, LenProperties
<1>. QED
  BY <1>1, <1>2, <1>3, <1>4

(* A version has bytes.                                                    *)
LEMMA SizePositive ==
  ASSUME NEW v \in Versions
  PROVE  Bytes(v) \in Seq(Nat) /\ Size(v) \in Nat \ {0}
<1>. DEFINE c == Content[v]
            n == Len(c)
<1>1. c \in Seq(Seq(Nat)) /\ n \in Nat \ {0} /\ c[n] \in Seq(Nat) /\ c[n] # <<>>
  BY Chunks
<1>2. n - 1 \in 0..n /\ n \in 1..n
  BY <1>1
<1>. HIDE DEF c, n
<1>3. /\ Prefix(c, n - 1) \in Seq(Nat) /\ Prefix(c, n) = Prefix(c, n - 1) \o c[n]
      /\ Prefix(c, n) = FlattenSeq(c)
  BY <1>1, <1>2, FlattenPrefix DEF n
<1>4. Len(c[n]) \in Nat \ {0} /\ Len(Prefix(c, n - 1)) \in Nat
  BY <1>1, <1>3, EmptySeq
<1>5. /\ FlattenSeq(c) \in Seq(Nat)
      /\ Len(FlattenSeq(c)) = Len(Prefix(c, n - 1)) + Len(c[n])
  <2>1. /\ Prefix(c, n - 1) \o c[n] \in Seq(Nat)
        /\ Len(Prefix(c, n - 1) \o c[n]) = Len(Prefix(c, n - 1)) + Len(c[n])
    BY <1>1, <1>3, ConcatProperties, Zenon
  <2>. QED
    BY <1>3, <2>1, Zenon
<1>6. FlattenSeq(c) \in Seq(Nat) /\ Len(FlattenSeq(c)) \in Nat \ {0}
  <2>1. \A i \in Nat, j \in Nat \ {0} : i + j \in Nat \ {0}
    OBVIOUS
  <2>. QED
    BY <1>4, <1>5, <2>1, Zenon
<1>7. FlattenSeq(c) = Bytes(v) /\ Size(v) = Len(Bytes(v))
  BY DEF Bytes, Size, c
<1>. QED
  BY <1>6, <1>7

(* read_chunks: a fragment is what the cut takes of the chunk.             *)
LEMMA FragmentIsPiece ==
  ASSUME NEW v \in Versions, NEW i \in 1..Len(Content[v]), NEW lo \in Nat, NEW hi \in Nat
  PROVE  Fragment(v, i, lo, hi) = Piece(Len(Prefix(Content[v], i - 1)), Content[v][i], lo, hi)
  BY DEF Fragment, Start, Piece, Least, Most, Prefix

(* The fragments of the chunks put together are the cut through the whole. *)
LEMMA FragmentsJoin ==
  ASSUME NEW v \in Versions, NEW lo \in Nat, NEW hi \in Nat, lo <= hi
  PROVE  FlattenSeq([i \in 1..Len(Content[v]) |-> Fragment(v, i, lo, hi)]) = Cut(Bytes(v), lo, hi)
<1>. DEFINE c == Content[v]
            n == Len(c)
            fr == [i \in 1..n |-> Fragment(v, i, lo, hi)]
            T == {k \in Nat : k <= n => Prefix(fr, k) = Cut(Prefix(c, k), lo, hi)}
<1>1. /\ c \in Seq(Seq(Nat)) /\ n \in Nat
      /\ \A i \in 1..n : c[i] \in Seq(Nat) /\ c[i] # <<>>
  BY Chunks
<1>2. /\ Prefix(c, 0) = <<>> /\ Prefix(c, n) = FlattenSeq(c)
      /\ \A k \in 0..n : Prefix(c, k) \in Seq(Nat)
      /\ \A k \in 1..n : Prefix(c, k) = Prefix(c, k - 1) \o c[k]
  BY <1>1, FlattenPrefix
<1>3. \A i \in 1..n : fr[i] = Piece(Len(Prefix(c, i - 1)), c[i], lo, hi)
  BY FragmentIsPiece
<1>. HIDE DEF c, fr
<1>4. ASSUME NEW i \in 1..n
      PROVE  /\ Cut(Prefix(c, i), lo, hi) = Cut(Prefix(c, i - 1), lo, hi) \o fr[i]
             /\ fr[i] \in Seq(Nat)
  <2>1. i - 1 \in 0..n
    BY <1>1
  <2>2. Prefix(c, i - 1) \in Seq(Nat) /\ c[i] \in Seq(Nat) /\ c[i] # <<>>
    BY <1>1, <1>2, <2>1
  <2>3. /\ Cut(Prefix(c, i - 1) \o c[i], lo, hi)
             = Cut(Prefix(c, i - 1), lo, hi) \o Piece(Len(Prefix(c, i - 1)), c[i], lo, hi)
        /\ Piece(Len(Prefix(c, i - 1)), c[i], lo, hi) \in Seq(Nat)
    BY <2>2, CutConcat, Zenon
  <2>. QED
    BY <1>2, <1>3, <2>3
<1>5. fr \in Seq(Seq(Nat)) /\ Len(fr) = n
  <2>1. fr = [i \in 1..n |-> fr[i]]
    BY DEF fr
  <2>2. fr \in [1..n -> Seq(Nat)]
    BY <1>4, <2>1
  <2>3. fr \in Seq(Seq(Nat)) /\ DOMAIN fr = 1..n
    <3>. HIDE DEF n
    <3>1. fr \in UNION {[1..m -> Seq(Nat)] : m \in Nat}
      BY <1>1, <2>2, Zenon
    <3>. QED
      BY <2>2, <3>1, SeqDef, Zenon
  <2>4. Len(fr) = n
    <3>1. Len(fr) \in Nat /\ \A k \in Nat : k \in 1..Len(fr) <=> k \in 1..n
      BY <2>3
    <3>2. n <= Len(fr)
      BY <1>1, <3>1
    <3>3. Len(fr) <= n
      BY <1>1, <3>1
    <3>. QED
      BY <1>1, <3>1, <3>2, <3>3
  <2>. QED
    BY <2>3, <2>4
<1>6. /\ Prefix(fr, 0) = <<>> /\ Prefix(fr, n) = FlattenSeq(fr)
      /\ \A k \in 1..n : Prefix(fr, k) = Prefix(fr, k - 1) \o fr[k]
  BY <1>5, FlattenPrefix
<1>. HIDE DEF n
<1>7. 0 \in T
  <2>1. Cut(<<>>, lo, hi) = <<>>
    BY SubSeqEmpty DEF Cut, Least
  <2>. QED
    BY <1>2, <1>6, <2>1
<1>8. ASSUME NEW k \in Nat, k \in T PROVE k + 1 \in T
  <2>. SUFFICES ASSUME k + 1 <= n PROVE Prefix(fr, k + 1) = Cut(Prefix(c, k + 1), lo, hi)
    OBVIOUS
  <2>1. k + 1 \in 1..n /\ (k + 1) - 1 = k /\ k <= n
    BY <1>1
  <2>2. Prefix(fr, k) = Cut(Prefix(c, k), lo, hi)
    BY <1>8, <2>1
  <2>3. Prefix(fr, k + 1) = Prefix(fr, k) \o fr[k + 1]
    BY <1>6, <2>1
  <2>4. Cut(Prefix(c, k + 1), lo, hi) = Cut(Prefix(c, k), lo, hi) \o fr[k + 1]
    BY <1>4, <2>1
  <2>. QED
    BY <2>2, <2>3, <2>4
<1>. HIDE DEF T
<1>9. n \in T
  BY <1>1, <1>7, <1>8, SetInduction
<1>10. Prefix(fr, n) = Cut(Prefix(c, n), lo, hi)
  BY <1>1, <1>9 DEF T
<1>. QED
  BY <1>2, <1>6, <1>10 DEF fr, n, c, Bytes

(* GET streams exactly the bytes of the range that was asked for, for      *)
(* every division of an object into chunks and every range that fits.      *)
THEOREM RangeRead ==
  ASSUME NEW v \in Versions, NEW rg \in Ranges \cup {None}, RangeFits(v, rg)
  PROVE  Stream(v, rg) = Want(v, rg)
<1>. DEFINE lo == IF rg = None THEN 0 ELSE rg.start
            hi == IF rg = None THEN Size(v) - 1 ELSE rg.end
<1>1. Bytes(v) \in Seq(Nat) /\ Size(v) \in Nat \ {0}
  BY SizePositive
<1>2. lo \in Nat /\ hi \in Nat /\ lo <= hi /\ hi < Size(v)
  BY <1>1, EdgeAssumption DEF RangeFits
<1>3. Stream(v, rg) = FlattenSeq([i \in 1..Len(Content[v]) |-> Fragment(v, i, lo, hi)])
  BY DEF Stream
<1>. HIDE DEF lo, hi
<1>4. Stream(v, rg) = Cut(Bytes(v), lo, hi)
  BY <1>2, <1>3, FragmentsJoin
<1>5. Cut(Bytes(v), lo, hi) = SubSeq(Bytes(v), lo + 1, hi + 1)
  BY <1>1, <1>2 DEF Cut, Least, Size
<1>6. CASE rg = None
  <2>1. lo + 1 = 1 /\ hi + 1 = Len(Bytes(v))
    BY <1>1, <1>6 DEF lo, hi, Size
  <2>2. SubSeq(Bytes(v), 1, Len(Bytes(v))) = Bytes(v)
    BY <1>1, SubSeqFull
  <2>. QED
    BY <1>4, <1>5, <1>6, <2>1, <2>2 DEF Want
<1>7. CASE rg # None
  BY <1>4, <1>5, <1>7 DEF Want, lo, hi
<1>. QED
  BY <1>6, <1>7

-----------------------------------------------------------------------------
(***************************************************************************)
(* The readers.  What a reader holds of the object, its metadata or its    *)
(* body, is the CID it was asked for or was current at some moment since   *)
(* its request began, and the body is the range it was asked for.          *)
(***************************************************************************)
CidRoutes == {"cid", "bound_cid"}
EdgeRoutes == CidRoutes \cup {"key"}
Bound == Versions \cup {None}
Job == [route : Routes \cup {None}, cid : Bound, range : Ranges \cup {None}, if_match : Bound,
        if_none_match : Bound, plain : BOOLEAN]
Got == [now : Nat, head : Bound, body : Bound, data : Seq(Nat)]
Kept == [head : Bound, body : Bound, data : Seq(Nat), expires : Nat, steady : BOOLEAN,
         at : Nat]

TypeInv ==
  /\ current \in Bound /\ clock \in Nat /\ log \in Seq(BOOLEAN)
  /\ cache \in [CacheKeys -> Kept \cup {None}]
  /\ pc \in [Readers -> {"idle", "lookup", "resolve", "head", "body", "plain", "store"}]
  /\ job \in [Readers -> Job] /\ got \in [Readers -> Got]
  /\ since \in [Readers -> SUBSET Bound]

HasBody(r) == pc[r] \in {"plain", "store"}
HasHead(r) == HasBody(r) \/ (pc[r] = "body" /\ job[r].route # "get")

(* A version r may have read.                                              *)
Source(r, v) == IF job[r].route = "cid" THEN v = job[r].cid ELSE v \in since[r]

JobInv(r) ==
  /\ job[r].route \in CidRoutes => job[r].cid \in Versions
  /\ pc[r] \in {"lookup", "store"} => job[r].route \in EdgeRoutes
  /\ pc[r] = "body" => job[r].route \in Routes \ {"head"}
  /\ (job[r].route = "bound_cid" /\ pc[r] \notin {"lookup", "resolve"}) => job[r].cid \in since[r]

GotInv(r) ==
  /\ IF HasHead(r) THEN Source(r, got[r].head) ELSE got[r].head = None
  /\ IF HasBody(r) THEN Source(r, got[r].body) /\ got[r].data = Want(got[r].body, job[r].range)
     ELSE got[r].body = None

ReadInv ==
  \A r \in Readers : /\ GotInv(r)
                     /\ pc[r] # "idle" => current \in since[r] /\ JobInv(r)

(* An entry by CID that was fetched while nothing changed is that version. *)
CacheInv ==
  \A k \in Versions : cache[k] # None /\ cache[k].steady =>
    cache[k].head = k /\ cache[k].body = k /\ cache[k].data = Bytes(k)

Inv == TypeInv /\ ReadInv /\ CacheInv /\ AnswersAgree /\ KeyFresh

(* What the properties ask of an answer a.                                 *)
Agrees(a) ==
  a # None /\ a.steady =>
    /\ a.job.route \in CidRoutes => a.head = a.job.cid
    /\ a.body # None => a.body = a.head /\ a.data = Want(a.body, a.job.range)
Recent(a) ==
  a # None /\ a.job.route \notin CidRoutes => {a.head, a.body} \subseteq a.since \cup {None}
Good(a) == Agrees(a) /\ Recent(a)

(* The two properties are about the last answer.                           *)
LEMMA GoodAnswer == (AnswersAgree /\ KeyFresh) <=> Good(last)
  BY DEF AnswersAgree, KeyFresh, Good, Agrees, Recent, Want, CidRoutes

(* The same, for the state after a step.                                   *)
LEMMA GoodAnswerNext == (AnswersAgree /\ KeyFresh)' <=> Good(last')
  BY DEF AnswersAgree, KeyFresh, Good, Agrees, Recent, Want, CidRoutes

(* A step that answers nothing is good.                                    *)
LEMMA GoodNone == Good(None)
  BY DEF Good, Agrees, Recent

(* An answer made of what the reader read.                                 *)
LEMMA ReplyGood ==
  ASSUME NEW r \in Readers, NEW g, Source(r, g.head),
         g.body = None \/ (Source(r, g.body) /\ g.data = Want(g.body, job[r].range)),
         job[r].route = "bound_cid" => job[r].cid \in since[r]
  PROVE  Good(Reply(r, g, Steady(r)))
<1>. DEFINE a == Reply(r, g, Steady(r))
<1>1. /\ a.head = g.head /\ a.body = g.body /\ a.data = g.data /\ a.steady = (since[r] = {current})
      /\ a.job = job[r] /\ a.since = since[r]
  BY DEF Reply, Steady
<1>. HIDE DEF a
<1>2. Agrees(a)
  <2>. SUFFICES ASSUME a.steady
       PROVE  /\ a.job.route \in CidRoutes => a.head = a.job.cid
              /\ a.body # None => a.body = a.head /\ a.data = Want(a.body, a.job.range)
    BY DEF Agrees
  <2>1. since[r] = {current}
    BY <1>1
  <2>2. g.head = IF job[r].route = "cid" THEN job[r].cid ELSE current
    BY <2>1 DEF Source
  <2>3. g.body # None => g.body = g.head /\ g.data = Want(g.body, job[r].range)
    BY <2>1, <2>2 DEF Source
  <2>4. job[r].route \in CidRoutes => g.head = job[r].cid
    BY <2>1, <2>2 DEF CidRoutes
  <2>. QED
    BY <1>1, <2>3, <2>4
<1>3. job[r].route \notin CidRoutes => g.head \in since[r] /\ g.body \in since[r] \cup {None}
  BY DEF Source, CidRoutes
<1>4. Recent(a)
  BY <1>1, <1>3 DEF Recent
<1>. QED
  BY <1>2, <1>4 DEF Good, a

(* An entry of the cache that was fetched by CID.                          *)
LEMMA HitGood ==
  ASSUME CacheInv, NEW r \in Readers, JobInv(r), pc[r] = "lookup", MayHit(job[r]),
         NEW e, e = cache[CacheKey(job[r])], e # None
  PROVE  Good(Reply(r, e, e.steady))
<1>. DEFINE a == Reply(r, e, e.steady)
<1>1. /\ a.head = e.head /\ a.body = e.body /\ a.data = e.data /\ a.steady = e.steady
      /\ a.job = job[r] /\ a.since = since[r]
  BY DEF Reply
<1>. HIDE DEF a
<1>2. job[r].route \in CidRoutes /\ job[r].cid \in Versions /\ CacheKey(job[r]) = job[r].cid /\ job[r].range = None
  BY DEF JobInv, MayHit, EdgeRoutes, CidRoutes, CacheKey
<1>3. e.steady => e.head = job[r].cid /\ e.body = job[r].cid /\ e.data = Bytes(job[r].cid)
  BY <1>2 DEF CacheInv
<1>4. Agrees(a)
  BY <1>1, <1>2, <1>3 DEF Agrees, Want
<1>5. Recent(a)
  BY <1>1, <1>2 DEF Recent
<1>. QED
  BY <1>4, <1>5 DEF Good, a

(* A step of one reader leaves the others as they were.                    *)
Others(r) ==
  /\ current' = current
  /\ \A q \in Readers \ {r} :
       pc'[q] = pc[q] /\ job'[q] = job[q] /\ got'[q] = got[q] /\ since'[q] = since[q]

(* So a step need only be looked at for the reader that takes it.          *)
LEMMA ReaderStep ==
  ASSUME ReadInv, NEW r \in Readers, Others(r), GotInv(r)',
         pc'[r] # "idle" => current' \in since'[r] /\ JobInv(r)'
  PROVE  ReadInv'
<1>. SUFFICES ASSUME NEW q \in Readers, q # r
     PROVE  GotInv(q)' /\ (pc'[q] # "idle" => current' \in since'[q] /\ JobInv(q)')
  BY DEF ReadInv
<1>1. pc'[q] = pc[q] /\ job'[q] = job[q] /\ got'[q] = got[q] /\ since'[q] = since[q] /\ current' = current
  BY DEF Others
<1>2. GotInv(q) /\ (pc[q] # "idle" => current \in since[q] /\ JobInv(q))
  BY DEF ReadInv
<1>3. GotInv(q)'
  BY <1>1, <1>2 DEF GotInv, HasHead, HasBody, Source, Want, Bytes
<1>4. JobInv(q) => JobInv(q)'
  BY <1>1 DEF JobInv
<1>. QED
  BY <1>1, <1>2, <1>3, <1>4

(* A good answer ends the request.                                         *)
LEMMA AnswerInv ==
  ASSUME Inv, NEW r \in Readers, NEW a, Good(a), Answer(r, a), UNCHANGED <<origin, clock>>,
         cache' \in [CacheKeys -> Kept \cup {None}], CacheInv'
  PROVE  Inv'
<1>. USE DEF Inv
<1>1. Nothing \in Got /\ NoJob \in Job
  BY DEF Nothing, NoJob, Got, Job, Bound
<1>2. TypeInv'
  BY <1>1 DEF TypeInv, Answer, origin
<1>3. /\ Others(r) /\ pc'[r] = "idle" /\ got'[r] = Nothing
  BY DEF TypeInv, Answer, Others, origin
<1>4. Nothing.head = None /\ Nothing.body = None
  BY DEF Nothing
<1>5. GotInv(r)'
  BY <1>3, <1>4 DEF GotInv, HasHead, HasBody
<1>6. ReadInv'
  BY <1>3, <1>5, ReaderStep
<1>7. last' = a
  BY DEF Answer
<1>. QED
  BY <1>2, <1>6, <1>7, GoodAnswerNext

(* An error ends the request too.                                          *)
LEMMA RefuseInv ==
  ASSUME Inv, NEW r \in Readers, Refuse(r)
  PROVE  Inv'
<1>1. Answer(r, None) /\ UNCHANGED <<origin, clock>> /\ cache' = cache
  BY DEF Refuse, edge
<1>2. cache' \in [CacheKeys -> Kept \cup {None}] /\ CacheInv'
  BY <1>1 DEF Inv, TypeInv, CacheInv
<1>. QED
  BY <1>1, <1>2, AnswerInv, GoodNone

(* An answer that leaves the cache alone.                                  *)
LEMMA ReplyInv ==
  ASSUME Inv, NEW r \in Readers, NEW a, Good(a), Answer(r, a), UNCHANGED <<origin, clock, edge>>
  PROVE  Inv'
<1>1. UNCHANGED <<origin, clock>> /\ cache' = cache
  BY DEF edge
<1>2. cache' \in [CacheKeys -> Kept \cup {None}] /\ CacheInv'
  BY <1>1 DEF Inv, TypeInv, CacheInv
<1>. QED
  BY <1>1, <1>2, AnswerInv

(* The other steps of a reader answer nothing and leave the cache alone.   *)
LEMMA QuietInv ==
  ASSUME Inv, NEW r \in Readers, TypeInv', Others(r), cache' = cache, last' = None, GotInv(r)',
         pc'[r] # "idle" => current' \in since'[r] /\ JobInv(r)'
  PROVE  Inv'
<1>1. ReadInv'
  BY ReaderStep DEF Inv
<1>2. CacheInv'
  BY DEF Inv, CacheInv
<1>3. (AnswersAgree /\ KeyFresh)'
  BY GoodAnswerNext, GoodNone
<1>. QED
  BY <1>1, <1>2, <1>3 DEF Inv

(* A request that comes in.                                                *)
LEMMA Requests ==
  ASSUME NEW r \in Readers, RequestByCid(r) \/ RequestByKey(r) \/ RequestS3(r) \/ RequestNative(r)
  PROVE  \E j \in Job : Begin(r, j) /\ (j.route \in CidRoutes => j.cid \in Versions)
<1>. DEFINE Goal == \E j \in Job : Begin(r, j) /\ (j.route \in CidRoutes => j.cid \in Versions)
<1>. HIDE DEF Goal
<1>. SUFFICES Goal
  BY DEF Goal
<1>1. NoJob \in Job
  BY DEF NoJob, Job, Bound
<1>2. ASSUME NEW route \in Routes, NEW q, q = [NoJob EXCEPT !.route = route]
      PROVE  q \in Job /\ q.route = route
  BY <1>1, <1>2 DEF Job
<1>3. ASSUME NEW j \in Job, Begin(r, j), j.route \notin CidRoutes \/ j.cid \in Versions PROVE Goal
  BY <1>3 DEF Goal
<1>4. ASSUME NEW c \in Versions, NEW route \in {"cid", "bound_cid"}, NEW rg \in Ranges \cup {None},
             Begin(r, [NoJob EXCEPT !.route = route, !.cid = c, !.range = rg])
      PROVE  Goal
  <2>. DEFINE q == [NoJob EXCEPT !.route = route]
              p == [q EXCEPT !.cid = c]
              j == [p EXCEPT !.range = rg]
  <2>1. [NoJob EXCEPT !.route = route, !.cid = c, !.range = rg] = j
    OBVIOUS
  <2>2. Begin(r, j)
    BY <1>4, <2>1, Zenon
  <2>3. q \in Job
    BY <1>2 DEF Routes
  <2>. HIDE DEF q
  <2>4. p \in Job /\ p.cid = c
    BY <2>3 DEF Job, Bound
  <2>. HIDE DEF p
  <2>5. j \in Job /\ j.cid = c
    BY <2>4 DEF Job
  <2>. HIDE DEF j
  <2>. QED
    BY <1>3, <2>2, <2>5
<1>5. ASSUME NEW route \in {"key", "s3", "get"}, NEW rg \in Ranges \cup {None},
             Begin(r, [NoJob EXCEPT !.route = route, !.range = rg])
      PROVE  Goal
  <2>. DEFINE q == [NoJob EXCEPT !.route = route]
              j == [q EXCEPT !.range = rg]
  <2>1. Begin(r, j)
    <3>1. [NoJob EXCEPT !.route = route, !.range = rg] = j
      OBVIOUS
    <3>. QED
      BY <1>5, <3>1, Zenon
  <2>2. q \in Job /\ q.route = route
    BY <1>2 DEF Routes
  <2>. HIDE DEF q
  <2>3. j \in Job /\ j.route = route
    BY <2>2 DEF Job
  <2>. HIDE DEF j
  <2>. QED
    BY <1>3, <2>1, <2>3 DEF CidRoutes
<1>6. ASSUME NEW m \in Versions,
             \/ Begin(r, [NoJob EXCEPT !.route = "s3", !.if_match = m])
             \/ Begin(r, [NoJob EXCEPT !.route = "s3", !.if_none_match = m])
             \/ Begin(r, [NoJob EXCEPT !.route = "s3", !.plain = TRUE])
      PROVE  Goal
  <2>. DEFINE q == [NoJob EXCEPT !.route = "s3"]
              i == [q EXCEPT !.if_match = m]
              j == [q EXCEPT !.if_none_match = m]
              k == [q EXCEPT !.plain = TRUE]
  <2>1. Begin(r, i) \/ Begin(r, j) \/ Begin(r, k)
    <3>1. /\ [NoJob EXCEPT !.route = "s3", !.if_match = m] = i
          /\ [NoJob EXCEPT !.route = "s3", !.if_none_match = m] = j
          /\ [NoJob EXCEPT !.route = "s3", !.plain = TRUE] = k
      OBVIOUS
    <3>. QED
      BY <1>6, <3>1, Zenon
  <2>2. q \in Job /\ q.route = "s3"
    BY <1>2 DEF Routes
  <2>. HIDE DEF q
  <2>3. i \in Job /\ j \in Job /\ k \in Job /\ i.route = "s3" /\ j.route = "s3" /\ k.route = "s3"
    BY <2>2 DEF Job, Bound
  <2>. HIDE DEF i, j, k
  <2>. QED
    BY <1>3, <2>1, <2>3 DEF CidRoutes
<1>7. ASSUME Begin(r, [NoJob EXCEPT !.route = "head"]) PROVE Goal
  <2>. DEFINE j == [NoJob EXCEPT !.route = "head"]
  <2>1. j \in Job /\ j.route = "head"
    BY <1>2 DEF Routes
  <2>. HIDE DEF j
  <2>. QED
    BY <1>3, <1>7, <2>1 DEF CidRoutes, j
<1>8. 1 \in Versions
  BY EdgeAssumption, EmptySeq DEF Versions
<1>. QED
  BY <1>4, <1>5, <1>6, <1>7, <1>8 DEF RequestByCid, RequestByKey, RequestS3, RequestNative

(* A new request holds nothing yet.                                        *)
LEMMA BeginInv ==
  ASSUME Inv, NEW r \in Readers, NEW j \in Job, Begin(r, j), j.route \in CidRoutes => j.cid \in Versions
  PROVE  Inv'
<1>. USE DEF Inv
<1>1. /\ current' = current /\ cache' = cache /\ clock' = clock /\ log' = log /\ last' = None /\ got' = got
      /\ pc' = [pc EXCEPT ![r] = IF j.route \in {"cid", "bound_cid", "key"} THEN "lookup"
                                 ELSE IF j.route = "get" THEN "body" ELSE "head"]
      /\ job' = [job EXCEPT ![r] = j] /\ since' = [since EXCEPT ![r] = {current}]
      /\ pc[r] = "idle"
  BY DEF Begin, origin, edge
<1>2. TypeInv'
  BY <1>1 DEF TypeInv
<1>3. Others(r) /\ job'[r] = j /\ since'[r] = {current} /\ got'[r] = got[r]
  BY <1>1 DEF Others, TypeInv
<1>4. /\ pc'[r] \in {"lookup", "body", "head"}
      /\ pc'[r] = "body" => j.route = "get"
      /\ j.route \in EdgeRoutes => pc'[r] = "lookup"
      /\ pc'[r] = "lookup" => j.route \in EdgeRoutes
  BY <1>1 DEF TypeInv, EdgeRoutes, CidRoutes
<1>5. got[r].head = None /\ got[r].body = None
  BY <1>1 DEF ReadInv, GotInv, HasHead, HasBody
<1>6. GotInv(r)'
  BY <1>3, <1>4, <1>5 DEF GotInv, HasHead, HasBody
<1>7. JobInv(r)' /\ current' \in since'[r]
  BY <1>1, <1>3, <1>4 DEF JobInv, EdgeRoutes, CidRoutes, Routes
<1>. QED
  BY <1>1, <1>2, <1>3, <1>6, <1>7, QuietInv

(* The lookup in the cache.                                                *)
LEMMA LookupInv ==
  ASSUME Inv, NEW r \in Readers, Lookup(r)
  PROVE  Inv'
<1>. DEFINE e == cache[CacheKey(job[r])]
            fresh == MayHit(job[r]) /\ e # None /\ e.expires >= clock
<1>1. pc[r] = "lookup" /\ JobInv(r) /\ GotInv(r) /\ current \in since[r]
  BY DEF Lookup, Inv, ReadInv
<1>2. CASE fresh /\ Answer(r, Reply(r, e, e.steady))
  <2>1. Good(Reply(r, e, e.steady))
    BY <1>1, <1>2, HitGood DEF Inv
  <2>2. UNCHANGED <<origin, clock, edge>>
    BY DEF Lookup
  <2>. QED
    BY <1>2, <2>1, <2>2, ReplyInv
<1>3. CASE /\ got' = [got EXCEPT ![r].now = clock]
           /\ Goto(r, IF job[r].route = "bound_cid" THEN "resolve" ELSE "head")
  <2>1. /\ current' = current /\ cache' = cache /\ clock' = clock /\ log' = log /\ last' = None
        /\ job' = job /\ since' = since
        /\ pc' = [pc EXCEPT ![r] = IF job[r].route = "bound_cid" THEN "resolve" ELSE "head"]
    BY <1>3 DEF Lookup, Goto, origin, edge
  <2>2. TypeInv' /\ Others(r)
    BY <1>3, <2>1 DEF Inv, TypeInv, Got, Others
  <2>3. /\ pc'[r] \in {"resolve", "head"}
        /\ job[r].route = "bound_cid" => pc'[r] = "resolve"
        /\ got'[r].head = got[r].head /\ got'[r].body = got[r].body
    BY <1>3, <2>1 DEF Inv, TypeInv, Got
  <2>4. GotInv(r)'
    BY <1>1, <2>3 DEF GotInv, HasHead, HasBody
  <2>5. JobInv(r)' /\ current' \in since'[r]
    BY <1>1, <2>1, <2>3 DEF JobInv
  <2>. QED
    BY <2>1, <2>2, <2>4, <2>5, QuietInv
<1>. QED
  BY <1>2, <1>3 DEF Lookup

(* The check that the key is bound to the CID.                             *)
LEMMA CheckBindingInv ==
  ASSUME Inv, NEW r \in Readers, CheckBinding(r)
  PROVE  Inv'
<1>1. CASE Refuse(r)
  BY <1>1, RefuseInv
<1>2. CASE current = job[r].cid /\ Goto(r, "head") /\ UNCHANGED <<origin, clock, edge, got>>
  <2>1. pc[r] = "resolve" /\ JobInv(r) /\ GotInv(r) /\ current \in since[r]
    BY DEF CheckBinding, Inv, ReadInv
  <2>2. /\ current' = current /\ cache' = cache /\ clock' = clock /\ log' = log /\ last' = None
        /\ job' = job /\ since' = since /\ got' = got /\ pc' = [pc EXCEPT ![r] = "head"]
    BY <1>2 DEF Goto, origin, edge
  <2>3. TypeInv' /\ Others(r) /\ pc'[r] = "head"
    BY <2>2 DEF Inv, TypeInv, Others
  <2>4. GotInv(r)'
    BY <2>1, <2>2, <2>3 DEF GotInv, HasHead, HasBody
  <2>5. JobInv(r)' /\ current' \in since'[r]
    BY <1>2, <2>1, <2>2, <2>3 DEF JobInv
  <2>. QED
    BY <2>2, <2>3, <2>4, <2>5, QuietInv
<1>. QED
  BY <1>1, <1>2 DEF CheckBinding

(* The version a selector resolves to now.                                 *)
LEMMA Resolved ==
  ASSUME Inv, NEW r \in Readers, pc[r] # "idle", SelectorResolution(job[r]) # None
  PROVE  /\ SelectorResolution(job[r]) \in Versions
         /\ Source(r, SelectorResolution(job[r]))
<1>1. JobInv(r) /\ current \in since[r] /\ current \in Bound
  BY DEF Inv, ReadInv, TypeInv
<1>. QED
  BY <1>1 DEF SelectorResolution, Source, JobInv, CidRoutes, Bound

(* HEAD answers with the current version.                                  *)
LEMMA ServiceHeadInv ==
  ASSUME Inv, NEW r \in Readers, ServiceHead(r)
  PROVE  Inv'
<1>1. CASE Refuse(r)
  BY <1>1, RefuseInv
<1>2. CASE /\ current # None
           /\ Answer(r, Reply(r, ManifestOnly(r), Steady(r)))
           /\ UNCHANGED <<origin, clock, edge>>
  <2>. DEFINE g == ManifestOnly(r)
  <2>1. pc[r] = "head" /\ job[r].route = "head" /\ GotInv(r) /\ got[r] \in Got
    BY DEF ServiceHead, Inv, ReadInv, TypeInv
  <2>2. SelectorResolution(job[r]) = current
    BY <2>1 DEF SelectorResolution
  <2>3. g.head = current /\ g.body = got[r].body
    BY <2>1, <2>2 DEF ManifestOnly, Got
  <2>4. got[r].body = None
    BY <2>1 DEF GotInv, HasBody
  <2>5. Source(r, current)
    BY <1>2, <2>1, <2>2, Resolved
  <2>. HIDE DEF g
  <2>6. Good(Reply(r, g, Steady(r)))
    BY <2>1, <2>3, <2>4, <2>5, ReplyGood
  <2>. QED
    BY <1>2, <2>6, ReplyInv DEF g
<1>. QED
  BY <1>1, <1>2 DEF ServiceHead

(* The metadata is read and the request goes on to the body.               *)
LEMMA HeadInv ==
  ASSUME Inv, NEW r \in Readers, pc[r] = "head", job[r].route \in {"key", "s3", "cid", "bound_cid"},
         SelectorResolution(job[r]) # None, got' = [got EXCEPT ![r] = ManifestOnly(r)],
         Goto(r, "body"), UNCHANGED <<origin, clock, edge>>
  PROVE  Inv'
<1>. DEFINE v == SelectorResolution(job[r])
<1>1. JobInv(r) /\ GotInv(r) /\ current \in since[r] /\ got[r] \in Got /\ v \in Versions /\ Source(r, v)
  BY Resolved DEF Inv, ReadInv, TypeInv
<1>. HIDE DEF v
<1>2. /\ ManifestOnly(r) \in Got /\ ManifestOnly(r).head = v /\ ManifestOnly(r).body = got[r].body
  BY <1>1 DEF ManifestOnly, Got, v, Bound
<1>3. /\ current' = current /\ cache' = cache /\ clock' = clock /\ log' = log /\ last' = None
      /\ job' = job /\ since' = since /\ pc' = [pc EXCEPT ![r] = "body"]
  BY DEF Goto, origin, edge
<1>4. TypeInv' /\ Others(r) /\ pc'[r] = "body" /\ got'[r] = ManifestOnly(r)
  BY <1>2, <1>3 DEF Inv, TypeInv, Others
<1>5. got[r].body = None
  BY <1>1 DEF GotInv, HasBody
<1>6. GotInv(r)'
  BY <1>1, <1>2, <1>3, <1>4, <1>5 DEF GotInv, HasHead, HasBody, Source
<1>7. JobInv(r)' /\ current' \in since'[r]
  BY <1>1, <1>3, <1>4 DEF JobInv, Routes
<1>. QED
  BY <1>3, <1>4, <1>6, <1>7, QuietInv

(* head_object and get_object by CID read the metadata first.              *)
LEMMA HeadObjectInv ==
  ASSUME Inv, NEW r \in Readers, HeadObject(r) \/ ReadHead(r)
  PROVE  Inv'
<1>1. CASE Refuse(r)
  BY <1>1, RefuseInv
<1>2. CASE ~Refuse(r)
  <2>1. /\ pc[r] = "head" /\ job[r].route \in {"key", "s3", "cid", "bound_cid"}
        /\ SelectorResolution(job[r]) # None /\ got' = [got EXCEPT ![r] = ManifestOnly(r)]
        /\ Goto(r, "body") /\ UNCHANGED <<origin, clock, edge>>
    BY <1>2 DEF HeadObject, ReadHead, SelectorResolution
  <2>. QED
    BY <2>1, HeadInv
<1>. QED
  BY <1>1, <1>2

(* What a reader holds once the body is read.                              *)
LEMMA BodyRead ==
  ASSUME Inv, NEW r \in Readers, pc[r] = "body", NEW v, v = SelectorResolution(job[r]), v # None,
         RangeFits(v, job[r].range),
         NEW g, g = [got[r] EXCEPT !.head = IF job[r].route = "get" THEN v ELSE @,
                                   !.body = v, !.data = Stream(v, job[r].range)]
  PROVE  /\ g \in Got /\ Source(r, g.head) /\ Source(r, g.body) /\ g.data = Want(g.body, job[r].range)
<1>1. JobInv(r) /\ GotInv(r) /\ got[r] \in Got /\ job[r] \in Job /\ v \in Versions /\ Source(r, v)
  BY Resolved DEF Inv, ReadInv, TypeInv
<1>. DEFINE hd == IF job[r].route = "get" THEN v ELSE got[r].head
            d == Stream(v, job[r].range)
<1>2. Source(r, hd) /\ hd \in Bound
  BY <1>1 DEF GotInv, HasHead, HasBody, Got, Bound
<1>3. job[r].range \in Ranges \cup {None}
  BY <1>1 DEF Job
<1>4. d = Want(v, job[r].range)
  BY <1>1, <1>3, RangeRead
<1>5. d \in Seq(Nat)
  <2>1. Bytes(v) \in Seq(Nat) /\ Size(v) \in Nat \ {0}
    BY <1>1, SizePositive
  <2>2. CASE job[r].range = None
    BY <1>4, <2>1, <2>2 DEF Want
  <2>3. CASE job[r].range # None
    <3>. DEFINE a == job[r].range.start
                b == job[r].range.end
    <3>1. a \in Nat /\ b \in Nat /\ b < Len(Bytes(v))
      BY <1>3, <2>1, <2>3, EdgeAssumption DEF RangeFits, Size
    <3>2. d = SubSeq(Bytes(v), a + 1, b + 1)
      BY <1>4, <2>3 DEF Want
    <3>. HIDE DEF a, b, d
    <3>3. a + 1 \in Nat /\ b + 1 \in Nat /\ a + 1 >= 1 /\ b + 1 <= Len(Bytes(v))
      BY <2>1, <3>1
    <3>. QED
      BY <2>1, <3>2, <3>3, SubSeqBytes
  <2>. QED
    BY <2>2, <2>3
<1>. DEFINE x == [got[r] EXCEPT !.head = hd]
            y == [x EXCEPT !.body = v]
            z == [y EXCEPT !.data = d]
<1>6. g = z
  OBVIOUS
<1>. HIDE DEF hd, d
<1>7. x \in Got /\ x.head = hd
  BY <1>1, <1>2 DEF Got
<1>. HIDE DEF x
<1>8. y \in Got /\ y.head = hd /\ y.body = v
  BY <1>1, <1>7 DEF Got, Bound
<1>. HIDE DEF y
<1>9. z \in Got /\ z.head = hd /\ z.body = v /\ z.data = d
  BY <1>5, <1>8 DEF Got
<1>. HIDE DEF z
<1>10. g \in Got /\ g.head = hd /\ g.body = v /\ g.data = d
  BY <1>6, <1>9, Zenon
<1>. QED
  BY <1>1, <1>2, <1>4, <1>10, Zenon

(* The body is read; the S3 front end and the native GET answer with it.   *)
LEMMA ReadBodyInv ==
  ASSUME Inv, NEW r \in Readers, ReadBody(r)
  PROVE  Inv'
<1>. DEFINE v == SelectorResolution(job[r])
            g == [got[r] EXCEPT !.head = IF job[r].route = "get" THEN v ELSE @,
                                !.body = v, !.data = Stream(v, job[r].range)]
<1>1. CASE Refuse(r)
  BY <1>1, RefuseInv
<1>2. CASE ~Refuse(r)
  <2>1. /\ pc[r] = "body" /\ v # None /\ RangeFits(v, job[r].range) /\ UNCHANGED <<origin, clock, edge>>
        /\ \/ Answer(r, Reply(r, g, Steady(r)))
           \/ /\ job[r].route \in {"get", "s3"} => job[r].plain
              /\ got' = [got EXCEPT ![r] = g]
              /\ Goto(r, IF job[r].plain THEN "plain" ELSE "store")
    BY <1>2, Zenon DEF ReadBody
  <2>2. /\ g \in Got /\ Source(r, g.head) /\ Source(r, g.body) /\ g.data = Want(g.body, job[r].range)
    BY <2>1, BodyRead, Zenon
  <2>3. JobInv(r) /\ current \in since[r] /\ job[r] \in Job
    BY <2>1 DEF Inv, ReadInv, TypeInv
  <2>. HIDE DEF g, v
  <2>4. CASE Answer(r, Reply(r, g, Steady(r)))
    <3>1. job[r].route = "bound_cid" => job[r].cid \in since[r]
      BY <2>1, <2>3 DEF JobInv
    <3>2. Good(Reply(r, g, Steady(r)))
      BY <2>2, <3>1, ReplyGood
    <3>. QED
      BY <2>1, <2>4, <3>2, ReplyInv
  <2>5. CASE /\ job[r].route \in {"get", "s3"} => job[r].plain
             /\ got' = [got EXCEPT ![r] = g]
             /\ Goto(r, IF job[r].plain THEN "plain" ELSE "store")
    <3>0. PICK step \in {"plain", "store"} : /\ Goto(r, step)
                                             /\ step = "store" => job[r].route \notin {"get", "s3"}
      BY <2>5
    <3>1. /\ current' = current /\ cache' = cache /\ clock' = clock /\ log' = log /\ last' = None
          /\ job' = job /\ since' = since /\ pc' = [pc EXCEPT ![r] = step]
      BY <2>1, <3>0 DEF Goto, origin, edge
    <3>2. TypeInv' /\ Others(r) /\ pc'[r] = step /\ got'[r] = g
      BY <2>2, <2>5, <3>1 DEF Inv, TypeInv, Others
    <3>3. GotInv(r)'
      BY <2>2, <3>1, <3>2 DEF GotInv, HasHead, HasBody, Source, Want, Bytes
    <3>4. JobInv(r)'
      <4>1. job[r].route # "head"
        BY <2>1, <2>3 DEF JobInv
      <4>2. step = "store" => job[r].route \in EdgeRoutes
        BY <2>1, <2>3, <3>0, <4>1 DEF JobInv, EdgeRoutes, CidRoutes, Job, Routes
      <4>. QED
        BY <2>1, <2>3, <3>1, <3>2, <4>2 DEF JobInv
    <3>. QED
      BY <2>3, <3>1, <3>2, <3>3, <3>4, QuietInv
  <2>. QED
    BY <2>1, <2>4, <2>5
<1>. QED
  BY <1>1, <1>2

(* The answers made of what was read before.                               *)
LEMMA HeldGood ==
  ASSUME Inv, NEW r \in Readers, HasBody(r)
  PROVE  Good(Reply(r, got[r], Steady(r)))
<1>1. pc[r] \in {"plain", "store"} /\ GotInv(r) /\ JobInv(r)
  BY DEF HasBody, Inv, ReadInv
<1>2. job[r].route = "bound_cid" => job[r].cid \in since[r]
  BY <1>1 DEF JobInv
<1>3. Source(r, got[r].head) /\ Source(r, got[r].body) /\ got[r].data = Want(got[r].body, job[r].range)
  BY <1>1 DEF GotInv, HasHead, HasBody
<1>. QED
  BY <1>2, <1>3, ReplyGood

(* A decrypted answer is the body read before.                             *)
LEMMA DecryptInv ==
  ASSUME Inv, NEW r \in Readers, Decrypt(r)
  PROVE  Inv'
<1>1. HasBody(r)
  BY DEF Decrypt, HasBody
<1>. QED
  BY <1>1, RefuseInv, ReplyInv, HeldGood DEF Decrypt

(* The cache takes a whole body.                                           *)
LEMMA StoreInv ==
  ASSUME Inv, NEW r \in Readers, Store(r)
  PROVE  Inv'
<1>1. pc[r] = "store" /\ HasBody(r) /\ GotInv(r) /\ JobInv(r) /\ job[r] \in Job /\ got[r] \in Got
  BY DEF Store, HasBody, Inv, ReadInv, TypeInv
<1>2. Answer(r, Reply(r, got[r], Steady(r))) /\ UNCHANGED <<origin, clock>>
  BY DEF Store
<1>3. CASE cache' = cache
  BY <1>1, <1>2, <1>3, HeldGood, AnswerInv DEF Inv, TypeInv, CacheInv
<1>4. CASE cache' # cache
  <2>. DEFINE k == CacheKey(job[r])
              e == [head |-> got[r].head, body |-> got[r].body, data |-> got[r].data,
                    expires |-> got[r].now + Ttl(job[r]), steady |-> Steady(r),
                    at |-> Len(log)]
  <2>1. job[r].range = None /\ cache' = [cache EXCEPT ![k] = e]
    BY <1>4 DEF Store, Cacheable
  <2>2. got[r].now + Ttl(job[r]) \in Nat
    BY <1>1, EdgeAssumption DEF Got, Ttl
  <2>3. Steady(r) \in BOOLEAN
    BY DEF Steady
  <2>4. e \in Kept
    BY <1>1, <2>2, <2>3 DEF Kept, Got, Inv, TypeInv
  <2>5. e.head = got[r].head /\ e.body = got[r].body /\ e.data = got[r].data /\ e.steady = Steady(r)
    OBVIOUS
  <2>6. job[r].route \in EdgeRoutes
    BY <1>1 DEF JobInv
  <2>7. k \in CacheKeys /\ (k \in Versions => job[r].route \in CidRoutes /\ job[r].cid = k)
    <3>1. KeyEntry \notin Versions
      BY EdgeAssumption DEF KeyEntry, Versions
    <3>. QED
      BY <1>1, <2>6, <3>1 DEF CacheKey, CacheKeys, EdgeRoutes, CidRoutes, JobInv
  <2>. HIDE DEF e, k
  <2>8. cache' \in [CacheKeys -> Kept \cup {None}]
    BY <2>1, <2>4 DEF Inv, TypeInv
  <2>9. ASSUME k \in Versions, e.steady PROVE e.head = k /\ e.body = k /\ e.data = Bytes(k)
    <3>1. since[r] = {current}
      BY <2>5, <2>9 DEF Steady
    <3>2. Source(r, got[r].head) /\ Source(r, got[r].body) /\ got[r].data = Want(got[r].body, None)
      BY <1>1, <2>1 DEF GotInv, HasHead, HasBody
    <3>3. job[r].route = "bound_cid" => job[r].cid \in since[r]
      BY <1>1 DEF JobInv
    <3>4. got[r].head = k /\ got[r].body = k
      BY <2>7, <2>9, <3>1, <3>2, <3>3 DEF Source, CidRoutes
    <3>. QED
      BY <2>5, <3>2, <3>4 DEF Want
  <2>10. CacheInv'
    <3>. SUFFICES ASSUME NEW j \in Versions, cache'[j] # None, cache'[j].steady
         PROVE  cache'[j].head = j /\ cache'[j].body = j /\ cache'[j].data = Bytes(j)
      BY DEF CacheInv
    <3>1. j \in CacheKeys
      BY DEF CacheKeys
    <3>2. CASE j = k
      BY <2>1, <2>9, <3>1, <3>2 DEF Inv, TypeInv
    <3>3. CASE j # k
      BY <2>1, <3>1, <3>3 DEF Inv, TypeInv, CacheInv
    <3>. QED
      BY <3>2, <3>3
  <2>. QED
    BY <1>1, <1>2, <2>8, <2>10, HeldGood, AnswerInv
<1>. QED
  BY <1>3, <1>4

(* The key is bound or unbound: what a reader holds stays a version that   *)
(* was current since its request began.                                    *)
LEMMA ChangeInv ==
  ASSUME Inv, NEW v \in Bound, NEW mine \in BOOLEAN, Change(v, mine)
  PROVE  Inv'
<1>. USE DEF Inv
<1>1. /\ current' = v /\ clock' = clock /\ cache' = cache /\ last' = None
      /\ pc' = pc /\ job' = job /\ got' = got /\ log' = Append(log, mine)
      /\ since' = [r \in Readers |-> IF pc[r] = "idle" THEN since[r] ELSE since[r] \cup {v}]
  BY DEF Change, edge
<1>2. TypeInv'
  <2>1. log' \in Seq(BOOLEAN)
    BY <1>1, AppendProperties DEF TypeInv
  <2>. QED
    BY <1>1, <2>1 DEF TypeInv
<1>3. ASSUME NEW r \in Readers
      PROVE  GotInv(r)' /\ (pc'[r] # "idle" => current' \in since'[r] /\ JobInv(r)')
  <2>1. GotInv(r) /\ (pc[r] # "idle" => JobInv(r))
    BY DEF ReadInv
  <2>2. since[r] \subseteq since'[r] /\ (pc[r] # "idle" => v \in since'[r])
    BY <1>1
  <2>3. GotInv(r)'
    BY <1>1, <2>1, <2>2 DEF GotInv, HasHead, HasBody, Source, Want, Bytes
  <2>4. JobInv(r) => JobInv(r)'
    BY <1>1, <2>2 DEF JobInv
  <2>. QED
    BY <1>1, <2>1, <2>2, <2>3, <2>4
<1>4. ReadInv'
  BY <1>3 DEF ReadInv
<1>5. CacheInv'
  BY <1>1 DEF CacheInv
<1>6. (AnswersAgree /\ KeyFresh)'
  BY <1>1, GoodAnswerNext, GoodNone
<1>. QED
  BY <1>2, <1>4, <1>5, <1>6

(* The worker and the clock touch no reader, and entries by CID stay.      *)
LEMMA WorkerInv ==
  ASSUME Inv, Worker \/ Tick
  PROVE  Inv'
<1>. USE DEF Inv
<1>1. /\ current' = current /\ clock' \in Nat /\ log' = log /\ last' = None
      /\ pc' = pc /\ job' = job /\ got' = got /\ since' = since
  BY DEF Worker, Poll, PollExpired, Purge, Tick, origin, readers, TypeInv
<1>2. /\ cache' \in [CacheKeys -> Kept \cup {None}]
      /\ \A k \in Versions : cache'[k] = cache[k]
  <2>1. CASE cache' = cache
    BY <2>1 DEF TypeInv
  <2>2. CASE Purge
    <3>1. KeyEntry \notin Versions /\ Versions \subseteq CacheKeys
      BY EdgeAssumption DEF KeyEntry, Versions, CacheKeys
    <3>2. cache' = [k \in CacheKeys |-> IF Invalidates(k) THEN None ELSE cache[k]]
      BY <2>2 DEF Purge
    <3>3. \A k \in Versions : ~Invalidates(k)
      BY <3>1 DEF Invalidates
    <3>. QED
      BY <3>1, <3>2, <3>3 DEF TypeInv
  <2>. QED
    BY <2>1, <2>2 DEF Worker, Poll, PollExpired, Tick, edge
<1>3. TypeInv'
  BY <1>1, <1>2 DEF TypeInv
<1>4. ReadInv'
  BY <1>1 DEF ReadInv, GotInv, JobInv, HasHead, HasBody, Source, Want, Bytes
<1>5. CacheInv'
  BY <1>2 DEF CacheInv
<1>6. (AnswersAgree /\ KeyFresh)'
  BY <1>1, GoodAnswerNext, GoodNone
<1>. QED
  BY <1>3, <1>4, <1>5, <1>6

(* The records of an idle reader.                                          *)
LEMMA NothingTyped == /\ Nothing \in Got /\ Nothing.head = None /\ Nothing.body = None
                      /\ NoJob \in Job
  BY DEF Nothing, NoJob, Got, Job, Bound

(* A restart forgets the cache and the readers.                            *)
LEMMA RestartInv ==
  ASSUME Inv, Restart
  PROVE  Inv'
<1>1. /\ current' = current /\ clock' = clock /\ log' = log /\ last' = None
      /\ cache' = [k \in CacheKeys |-> None]
      /\ pc' = [r \in Readers |-> "idle"] /\ got' = [r \in Readers |-> Nothing]
      /\ job' = [r \in Readers |-> NoJob] /\ since' = [r \in Readers |-> {}]
  BY DEF Restart, origin
<1>2. TypeInv'
  BY <1>1, NothingTyped DEF Inv, TypeInv
<1>3. ReadInv'
  BY <1>1, NothingTyped DEF ReadInv, GotInv, HasHead, HasBody
<1>4. CacheInv'
  BY <1>1 DEF CacheInv, CacheKeys
<1>5. (AnswersAgree /\ KeyFresh)'
  BY <1>1, GoodAnswerNext, GoodNone
<1>. QED
  BY <1>2, <1>3, <1>4, <1>5 DEF Inv

(* The initial states satisfy the inductive invariant.                     *)
LEMMA InitInv == Init => Inv
<1>. SUFFICES ASSUME Init PROVE Inv
  OBVIOUS
<1>1. 1 \in Versions
  BY EdgeAssumption, EmptySeq DEF Versions
<1>2. TypeInv
  BY <1>1, NothingTyped DEF Init, TypeInv, Bound
<1>3. ReadInv
  BY NothingTyped DEF Init, ReadInv, GotInv, HasHead, HasBody
<1>4. CacheInv
  BY DEF Init, CacheInv, CacheKeys
<1>5. AnswersAgree /\ KeyFresh
  BY GoodAnswer, GoodNone DEF Init
<1>. QED
  BY <1>2, <1>3, <1>4, <1>5 DEF Inv

-----------------------------------------------------------------------------
(* Inv is inductive: every reachable state satisfies it.                   *)
THEOREM Invariant == Spec => []Inv
<1>1. Inv /\ [Next]_vars => Inv'
  <2>. SUFFICES ASSUME Inv, [Next]_vars PROVE Inv'
    OBVIOUS
  <2>1. ASSUME NEW r \in Readers, RequestByCid(r) \/ RequestByKey(r) \/ RequestS3(r) \/ RequestNative(r)
        PROVE  Inv'
    BY <2>1, Requests, BeginInv
  <2>2. ASSUME NEW r \in Readers, Read(r) PROVE Inv'
    BY <2>2, LookupInv, CheckBindingInv, ServiceHeadInv, HeadObjectInv, ReadBodyInv, DecryptInv, StoreInv
       DEF Read
  <2>3. CASE Bind \/ Unbind \/ OtherKey
    <3>1. \E v \in Bound : \E mine \in BOOLEAN : Change(v, mine)
      BY <2>3 DEF Bind, Unbind, OtherKey, Bound, Inv, TypeInv
    <3>. QED
      BY <3>1, ChangeInv
  <2>4. CASE Worker \/ Tick
    BY <2>4, WorkerInv
  <2>5. CASE Restart
    BY <2>5, RestartInv
  <2>6. CASE UNCHANGED vars
    BY <2>6 DEF vars, origin, edge, readers, Inv, TypeInv, ReadInv, GotInv, JobInv, HasHead, HasBody, Source,
       Want, Bytes, CacheInv, AnswersAgree, KeyFresh
  <2>. QED
    BY <2>1, <2>2, <2>3, <2>4, <2>5, <2>6 DEF Next
<1>. QED
  BY InitInv, <1>1, PTL DEF Spec

(* On every route and through the cache, an answer fetched while nothing   *)
(* was bound or unbound is of one version, of the CID that was asked for,  *)
(* and its body is the range that was asked for.                           *)
THEOREM AnswersAgreeHolds == Spec => []AnswersAgree
  BY Invariant, PTL DEF Inv

(* An answer on a route by key is of versions that were current while the  *)
(* request was under way.                                                  *)
THEOREM KeyFreshHolds == Spec => []KeyFresh
  BY Invariant, PTL DEF Inv

-----------------------------------------------------------------------------
(***************************************************************************)
(* The worker.  Its cursor is never past the end of the stream, and an     *)
(* entry was stored before the events that are still to come.              *)
(***************************************************************************)
Kept0 == cache[KeyEntry]
PurgeInv ==
  /\ Position \in 0..(Len(log) + 1)
  /\ Kept0 # None => Kept0.at <= Len(log)
  /\ PurgeStillDue

(* A step that leaves the worker, the stream and the entry as they were.   *)
LEMMA PurgeFrame ==
  ASSUME PurgeInv, UNCHANGED <<log, cursor, batch>>, cache'[KeyEntry] = cache[KeyEntry]
  PROVE  PurgeInv'
  BY DEF PurgeInv, PurgeStillDue, Position, Kept0

(* An entry that is stored is behind every event there is.                 *)
LEMMA PurgeStore ==
  ASSUME TypeInv, PurgeInv, NEW r \in Readers, Store(r)
  PROVE  PurgeInv'
<1>1. UNCHANGED <<log, cursor, batch>>
  BY DEF Store, origin
<1>2. CASE cache'[KeyEntry] = cache[KeyEntry]
  BY <1>1, <1>2, PurgeFrame
<1>3. CASE cache'[KeyEntry] # cache[KeyEntry]
  <2>1. KeyEntry \in CacheKeys
    BY DEF CacheKeys
  <2>2. cache'[KeyEntry].at = Len(log)
    BY <1>3, <2>1 DEF Store, TypeInv
  <2>3. DOMAIN log = 1..Len(log) /\ Len(log) \in Nat
    BY DEF TypeInv
  <2>4. Position' = Position /\ Kept0'.at = Len(log)
    BY <1>1, <2>2 DEF Position, Kept0
  <2>5. PurgeStillDue'
    BY <1>1, <2>2, <2>3 DEF PurgeStillDue
  <2>. QED
    BY <1>1, <2>3, <2>4, <2>5 DEF PurgeInv
<1>. QED
  BY <1>2, <1>3

(* A new event is ahead of the worker.                                     *)
LEMMA PurgeChange ==
  ASSUME TypeInv, PurgeInv, NEW v, NEW mine \in BOOLEAN, Change(v, mine)
  PROVE  PurgeInv'
<1>1. log' = Append(log, mine) /\ UNCHANGED <<cache, cursor, batch>>
  BY DEF Change, edge
<1>2. /\ Len(log') = Len(log) + 1 /\ Len(log) \in Nat /\ DOMAIN log' = 1..(Len(log) + 1)
      /\ \A i \in 1..Len(log) : i \in DOMAIN log /\ log'[i] = log[i]
  BY <1>1 DEF TypeInv
<1>3. Position' = Position /\ Kept0' = Kept0
  BY <1>1 DEF Position, Kept0
<1>4. PurgeStillDue'
  <2>. SUFFICES ASSUME Kept0 # None, NEW i \in 1..(Len(log) + 1), log'[i], i > Kept0.at
       PROVE  i >= Position \/ TRUE \in ToSet(batch)
    BY <1>1, <1>2, <1>3 DEF PurgeStillDue, Kept0
  <2>1. CASE i \in 1..Len(log)
    BY <1>2, <2>1 DEF PurgeInv, PurgeStillDue, Kept0
  <2>2. CASE i = Len(log) + 1
    <3>1. Position \in 0..(Len(log) + 1)
      BY DEF PurgeInv
    <3>2. i >= Position
      BY <1>2, <2>2, <3>1
    <3>. QED
      BY <3>2
  <2>3. i \in 1..Len(log) \/ i = Len(log) + 1
    BY <1>2
  <2>. QED
    BY <2>1, <2>2, <2>3
<1>5. Position' \in 0..(Len(log') + 1) /\ (Kept0' # None => Kept0'.at <= Len(log'))
  <2>1. Kept0 # None => Kept0.at \in Nat
    BY DEF TypeInv, Kept, Kept0, CacheKeys
  <2>. QED
    BY <1>2, <1>3, <2>1 DEF PurgeInv
<1>. QED
  BY <1>4, <1>5 DEF PurgeInv

(* A poll takes what it passes into its hands.                             *)
LEMMA PurgePoll ==
  ASSUME TypeInv, PurgeInv, Poll
  PROVE  PurgeInv'
<1>. DEFINE from == IF Position = 0 THEN 1 ELSE Position
            to == IF from + BatchMax <= NextSeq THEN from + BatchMax - 1 ELSE Len(log)
<1>1. /\ batch = <<>> /\ batch' = SubSeq(log, from, to)
      /\ cursor' = IF to < from THEN Position ELSE to + 1
      /\ UNCHANGED <<log, cache>>
  BY DEF Poll, origin
<1>2. /\ Len(log) \in Nat /\ Position \in 0..(Len(log) + 1) /\ BatchMax \in Nat \ {0}
      /\ DOMAIN log = 1..Len(log)
  BY EdgeAssumption DEF TypeInv, PurgeInv
<1>3. from \in 1..(Len(log) + 1) /\ to \in 0..Len(log) /\ from >= Position
  BY <1>2 DEF NextSeq
<1>. HIDE DEF from, to
<1>4. Position' \in 0..(Len(log) + 1) /\ (Position' > Position => Position' = to + 1 /\ from <= to)
  <2>1. Position' \in {0, cursor'}
    BY DEF Position
  <2>2. cursor' = Position \/ (cursor' = to + 1 /\ from <= to)
    BY <1>1, <1>2, <1>3
  <2>. QED
    BY <1>2, <1>3, <2>1, <2>2
<1>5. ASSUME NEW i \in from..to PROVE log[i] \in ToSet(batch')
  <2>1. /\ i - from + 1 \in 1..Len(batch') /\ batch'[i - from + 1] = log[i]
    BY <1>1, <1>2, <1>3 DEF TypeInv
  <2>2. DOMAIN batch' = 1..Len(batch')
    BY <1>1, <1>2, <1>3 DEF TypeInv
  <2>. QED
    BY <2>1, <2>2 DEF ToSet
<1>6. PurgeStillDue'
  <2>. SUFFICES ASSUME Kept0 # None, NEW i \in 1..Len(log), log[i], i > Kept0.at, i < Position'
       PROVE  TRUE \in ToSet(batch')
    <3>1. ASSUME NEW i \in 1..Len(log), ~(i < Position') PROVE i >= Position'
      BY <1>2, <1>4, <3>1
    <3>2. Kept0' = Kept0 /\ DOMAIN log' = 1..Len(log) /\ log' = log
      BY <1>1, <1>2 DEF Kept0
    <3>. QED
      BY <3>1, <3>2 DEF PurgeStillDue, Kept0
  <2>1. TRUE \notin ToSet(batch)
    BY <1>1 DEF ToSet
  <2>2. i >= Position
    BY <1>2, <2>1 DEF PurgeInv, PurgeStillDue, Kept0
  <2>3. i \in from..to
    <3>1. Position' = to + 1 /\ from <= to
      BY <1>2, <1>4, <2>2
    <3>2. i >= from
      BY <1>2, <2>2 DEF from
    <3>. QED
      BY <1>3, <3>1, <3>2
  <2>4. log[i] = TRUE
    BY <1>2 DEF TypeInv
  <2>. QED
    BY <1>5, <2>3, <2>4
<1>. QED
  BY <1>1, <1>4, <1>6 DEF PurgeInv, Kept0

(* An expired cursor goes back to the start.                               *)
LEMMA PurgeExpired ==
  ASSUME TypeInv, PurgeInv, PollExpired
  PROVE  PurgeInv'
<1>1. cursor' = None /\ UNCHANGED <<log, cache, batch>>
  BY DEF PollExpired, origin
<1>2. Position' = 0 /\ Len(log) \in Nat /\ DOMAIN log = 1..Len(log)
  BY <1>1 DEF Position, TypeInv
<1>3. \A i \in DOMAIN log' : i >= Position'
  BY <1>1, <1>2
<1>4. PurgeStillDue'
  BY <1>3 DEF PurgeStillDue
<1>. QED
  BY <1>1, <1>2, <1>4 DEF PurgeInv, Kept0

(* A batch with an event of the key removes the entry.                     *)
LEMMA PurgePurge ==
  ASSUME TypeInv, PurgeInv, Purge
  PROVE  PurgeInv'
<1>1. /\ cache'[KeyEntry] = IF TRUE \in ToSet(batch) THEN None ELSE cache[KeyEntry]
      /\ UNCHANGED <<log, cursor>>
  BY DEF Purge, origin, Invalidates, CacheKeys
<1>2. Position' = Position
  BY <1>1 DEF Position
<1>3. PurgeStillDue'
  BY <1>1, <1>2 DEF PurgeStillDue, PurgeInv
<1>. QED
  BY <1>1, <1>2, <1>3 DEF PurgeInv, Kept0

(* The steps that look at neither the worker nor the entry of the key.     *)
LEMMA PurgeReaders ==
  ASSUME NEW r \in Readers,
         \/ RequestByCid(r) \/ RequestByKey(r) \/ RequestS3(r) \/ RequestNative(r)
         \/ Read(r) /\ ~Store(r)
  PROVE  UNCHANGED <<log, cursor, batch, cache>>
<1>1. ASSUME NEW j, Begin(r, j) PROVE UNCHANGED <<log, cursor, batch, cache>>
  BY <1>1 DEF Begin, origin, edge
<1>2. CASE RequestByCid(r) \/ RequestByKey(r) \/ RequestS3(r) \/ RequestNative(r)
  BY <1>1, <1>2 DEF RequestByCid, RequestByKey, RequestS3, RequestNative
<1>3. CASE Lookup(r) \/ CheckBinding(r) \/ ServiceHead(r) \/ HeadObject(r) \/ ReadHead(r)
  BY <1>3 DEF Lookup, CheckBinding, ServiceHead, HeadObject, ReadHead, Refuse, origin, edge
<1>4. CASE ReadBody(r) \/ Decrypt(r)
  BY <1>4 DEF ReadBody, Decrypt, Refuse, origin, edge
<1>. QED
  BY <1>2, <1>3, <1>4 DEF Read

(* The worker passes no event that the entry of the key has to be purged   *)
(* for, whatever the batch size, the window and the number of restarts.    *)
THEOREM PurgeStillDueHolds == Spec => []PurgeStillDue
<1>1. Init => PurgeInv
  BY DEF Init, PurgeInv, PurgeStillDue, Position, Kept0, CacheKeys
<1>2. TypeInv /\ PurgeInv /\ [Next]_vars => PurgeInv'
  <2>. SUFFICES ASSUME TypeInv, PurgeInv, [Next]_vars PROVE PurgeInv'
    OBVIOUS
  <2>1. ASSUME NEW r \in Readers,
               \/ RequestByCid(r) \/ RequestByKey(r) \/ RequestS3(r) \/ RequestNative(r)
               \/ Read(r)
        PROVE  PurgeInv'
    BY <2>1, PurgeReaders, PurgeFrame, PurgeStore
  <2>2. CASE Bind \/ Unbind \/ OtherKey
    BY <2>2, PurgeChange DEF Bind, Unbind, OtherKey
  <2>3. CASE Worker
    BY <2>3, PurgePoll, PurgeExpired, PurgePurge DEF Worker
  <2>4. CASE Restart
    <3>1. cache'[KeyEntry] = None /\ cursor' = None /\ log' = log /\ Len(log) \in Nat
      BY <2>4 DEF Restart, origin, CacheKeys, TypeInv
    <3>. QED
      BY <3>1 DEF PurgeInv, PurgeStillDue, Position, Kept0
  <2>5. CASE Tick \/ UNCHANGED vars
    BY <2>5, PurgeFrame DEF Tick, vars, origin, edge
  <2>. QED
    BY <2>1, <2>2, <2>3, <2>4, <2>5 DEF Next
<1>3. Spec => []TypeInv
  BY Invariant, PTL DEF Inv
<1>4. PurgeInv => PurgeStillDue
  BY DEF PurgeInv
<1>. QED
  BY <1>1, <1>2, <1>3, <1>4, PTL DEF Spec
=============================================================================
