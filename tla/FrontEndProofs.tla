--------------------------- MODULE FrontEndProofs ---------------------------
(***************************************************************************)
(* Proofs about FrontEnd for any requests, connections, limits and number  *)
(* of slots: what runs was authorized, a body is whole or not used, a GET  *)
(* or HEAD runs nothing that writes, and an answer is one response.        *)
(***************************************************************************)
EXTENDS FrontEnd, SequenceTheorems, FiniteSetTheorems, WellFoundedInduction, TLAPS

Requests == Inputs \cup GatewayInputs \cup EdgeInputs

Steps == {"idle", "first", "queued", "body", "begin", "route", "serve", "stream", "auth",
          "dispatch", "done"}

(* The pieces of an answer.                                                *)
Words == {"RES", "DATA", "END", "ERROR", "EVENT", "GOAWAY",
          "head", "body", "end", "error", "event"}

(* The types of the variables; a context and an operation may be anything. *)
TypeInv ==
  /\ DOMAIN req = Slots /\ DOMAIN ctx = Slots /\ DOMAIN ran = Slots
  /\ pc \in [Slots -> Steps]
  /\ reset \in [Slots -> BOOLEAN]
  /\ taken \in [Slots -> Nat] /\ held \in [Slots -> Nat]
  /\ out \in [Slots -> Seq(Words)]
  /\ queue \in [Conns -> Seq(Slots)] /\ closed \in [Conns -> BOOLEAN]

(* Which front end takes which step.                                       *)
Fronts(step) ==
  CASE step = "first" -> {"native"}
    [] step \in {"queued", "route"} -> {"gateway"}
    [] step = "begin" -> {"cdn"}
    [] step \in {"auth", "dispatch"} -> {"s3", "cdn"}
    [] step \in {"serve", "stream"} -> {"native", "gateway"}
    [] OTHER -> {"native", "gateway", "s3", "cdn"}

(* The context c was made from the genuine credential of this request.     *)
Verified(q, c) ==
  /\ Genuine(q) /\ c.ns = Bound(q).ns /\ c.path = Bound(q).path /\ c.tenant = Bound(q).tenant
  /\ c.ops = Holds(q)

(* Operation v, or content from the cache, may be given to request q.      *)
Cleared(q, v) ==
  v \notin {"info", "bootstrap"} =>
    /\ Genuine(q) /\ Entitled(q, v)
    /\ v \in {"metrics", "logs", "cached"} \/ Confined(q)
    /\ v = "cached" /\ q.cred.kind = "edge" => q.cred.cid = q.path

(* A request in work is one of the inputs, at a step of its front end.     *)
StageInv(r) ==
  /\ pc[r] # "idle" => req[r] \in Requests /\ req[r].front \in Fronts(pc[r])
  /\ pc[r] \notin {"stream", "done"} => ran[r] = None /\ out[r] = <<>>
  /\ pc[r] = "stream" => ran[r] = "subscribe" /\ out[r] # <<>>
  /\ reset[r] => pc[r] # "idle" /\ req[r].front \in {"native", "gateway"}
  /\ ran[r] # None => ran[r] = OpOf(req[r]) \/ ran[r] = "cached"

(* A context is that of the request's own credential.                      *)
VettedInv(r) ==
  /\ pc[r] \in {"idle", "first"} => ctx[r] = None
  /\ pc[r] \in {"body", "serve"} /\ Is(r, "native") /\ ctx[r] # None => Verified(req[r], ctx[r])
  /\ pc[r] \in {"body", "serve"} /\ Is(r, "gateway") => Verified(req[r], ctx[r])
  /\ pc[r] = "dispatch" => Verified(req[r], ctx[r])
  /\ ran[r] # None => Cleared(req[r], ran[r])
  /\ ran[r] # None /\ Is(r, "cdn") => Verified(req[r], ctx[r])

(* The sum of the first k pieces.                                          *)
Sum(p, k) == FoldLeft(LAMBDA a, b : a + b, 0, SubSeq(p, 1, k))

(* What is held is what was read, and nothing that writes runs before the  *)
(* end of the body was seen.                                               *)
BodyInv(r) ==
  /\ pc[r] = "idle" => taken[r] = 0 /\ held[r] = 0
  /\ pc[r] # "idle" =>
       /\ taken[r] <= Len(req[r].pieces)
       /\ held[r] = Sum(req[r].pieces, taken[r])
       /\ held[r] <= BodyLimit(req[r])
       /\ pc[r] \in {"auth", "dispatch"} => taken[r] = Len(req[r].pieces)
       /\ pc[r] = "serve" /\ (Is(r, "native") \/ OpOf(req[r]) \in WithBody) =>
            taken[r] = Len(req[r].pieces)
       /\ ran[r] \in Mutating => taken[r] = Len(req[r].pieces)

HeadCount(o) == Cardinality({i \in DOMAIN o : o[i] \in {"RES", "ERROR", "head", "error"}})

(* The answer o of a request q that is done, after operation v, by a       *)
(* client that gave up or not.                                             *)
Reply(q, v, gaveUp, o) ==
  /\ v # None /\ ~gaveUp => o # <<>>
  /\ o = <<>> => q.front \in {"native", "gateway"}
  /\ o # <<>> /\ ~gaveUp =>
       \/ Last(o) \in {"END", "ERROR", "end"}
       \/ q.front = "native" /\ v \in {"list", "head", "get"}
  /\ v # "subscribe" => HeadCount(o) <= 1

RepliedInv(r) == pc[r] = "done" => Reply(req[r], ran[r], reset[r], out[r])

SlotInv(r) == StageInv(r) /\ VettedInv(r) /\ BodyInv(r) /\ RepliedInv(r)

(* A connection's queue holds its requests in work, each once; all but the *)
(* first wait.                                                             *)
QueueInv ==
  /\ \A c \in Conns : \A i \in 1..Len(queue[c]) :
       /\ pc[queue[c][i]] \notin {"idle", "done"}
       /\ req[queue[c][i]].conn = c /\ Is(queue[c][i], "gateway")
       /\ i # 1 => pc[queue[c][i]] = "queued"
       /\ \A j \in 1..Len(queue[c]) : queue[c][i] = queue[c][j] => i = j
  /\ \A r \in Slots :
       pc[r] \notin {"idle", "done", "queued"} /\ Is(r, "gateway") =>
         queue[req[r].conn] # <<>> /\ Head(queue[req[r].conn]) = r

Inv == TypeInv /\ (\A r \in Slots : SlotInv(r)) /\ QueueInv

-----------------------------------------------------------------------------
(* Data.                                                                   *)

(* Induction on the naturals, for a set instead of an operator.            *)
LEMMA SetInduction ==
  ASSUME NEW T, 0 \in T, \A n \in Nat : n \in T => n + 1 \in T
  PROVE  Nat \subseteq T
<1>. DEFINE R == OpToRel(<, Nat)
            U == Nat \ T
<1>. SUFFICES ASSUME U # {} PROVE FALSE
  OBVIOUS
<1>1. IsWellFoundedOn(R, Nat)
  BY NatLessThanWellFounded, Zenon
<1>. HIDE DEF R
<1>2. PICK x \in U : \A y \in U : ~(<<y, x>> \in R)
  BY <1>1, WFMin, Zenon
<1>3. x \in Nat /\ x # 0
  OBVIOUS
<1>4. x - 1 \in Nat /\ x - 1 < x /\ (x - 1) + 1 = x
  BY <1>3
<1>5. x - 1 \in U
  BY <1>4
<1>. QED
  BY <1>2, <1>3, <1>4, <1>5 DEF R, OpToRel

(* Max and Min of a set of numbers up to n are in it.                      *)
LEMMA MaxMin ==
  ASSUME NEW n \in Nat, NEW S, S \subseteq 1..n, S # {}
  PROVE  /\ Max(S) \in S /\ \A y \in S : Max(S) >= y
         /\ Min(S) \in S /\ \A y \in S : Min(S) <= y
<1>. DEFINE R == OpToRel(<, Nat)
            U == {n - y : y \in S}
<1>1. IsWellFoundedOn(R, Nat)
  BY NatLessThanWellFounded, Zenon
<1>2. S \subseteq Nat /\ U \subseteq Nat /\ U # {}
  OBVIOUS
<1>. HIDE DEF R
<1>3. PICK x \in S : \A y \in S : ~(<<y, x>> \in R)
  BY <1>1, <1>2, WFMin, Zenon
<1>4. PICK z \in U : \A y \in U : ~(<<y, z>> \in R)
  BY <1>1, <1>2, WFMin, Zenon
<1>5. \A y \in S : x <= y
  <2>1. ASSUME NEW y \in S PROVE x <= y
    <3>1. ~(y < x)
      BY <1>2, <1>3 DEF R, OpToRel
    <3>. QED
      BY <1>2, <3>1
  <2>. QED
    BY <2>1
<1>6. PICK m \in S : z = n - m
  BY <1>4
<1>7. \A y \in S : m >= y
  <2>1. ASSUME NEW y \in S PROVE m >= y
    <3>1. ~(n - y < n - m)
      BY <1>2, <1>4, <1>6 DEF R, OpToRel
    <3>. QED
      BY <1>2, <3>1
  <2>. QED
    BY <2>1
<1>. QED
  BY <1>3, <1>5, <1>6, <1>7 DEF Max, Min

(* The recursive function inside FoldLeft, for sums.                       *)
Sums(f, p, n) ==
  f = [s \in SUBSET (1..n) |-> IF s = {} THEN 0 ELSE f[s \ {Max(s)}] + p[Max(s)]]

(* There is such a function, for every number of pieces.                   *)
LEMMA SumsExists ==
  ASSUME NEW p, NEW m \in Nat
  PROVE  \E f : Sums(f, p, m)
<1>. DEFINE T == {n \in Nat : \E f : Sums(f, p, n)}
<1>1. 0 \in T
  <2>1. Sums([s \in SUBSET (1..0) |-> 0], p, 0)
    BY DEF Sums
  <2>. QED
    BY <2>1
<1>2. ASSUME NEW n \in Nat, n \in T PROVE n + 1 \in T
  <2>1. PICK f : Sums(f, p, n)
    BY <1>2
  <2>. DEFINE g == [s \in SUBSET (1..(n + 1)) |->
                     IF s = {} THEN 0 ELSE f[s \ {Max(s)}] + p[Max(s)]]
  <2>2. ASSUME NEW s \in SUBSET (1..(n + 1)), s # {} PROVE g[s \ {Max(s)}] = f[s \ {Max(s)}]
    <3>1. Max(s) \in s /\ \A y \in s : Max(s) >= y
      <4>1. n + 1 \in Nat
        OBVIOUS
      <4>. QED
        BY <2>2, <4>1, MaxMin, Zenon
    <3>2. s \ {Max(s)} \in SUBSET (1..n)
      <4>. DEFINE x == Max(s)
      <4>1. x \in s /\ \A y \in s : x >= y
        BY <3>1
      <4>. HIDE DEF x
      <4>2. ASSUME NEW y \in s, y # x PROVE y \in 1..n
        <5>1. x \in 1..(n + 1) /\ y \in 1..(n + 1) /\ x >= y
          BY <4>1
        <5>. QED
          BY <4>2, <5>1
      <4>3. s \ {x} \in SUBSET (1..n)
        BY <4>2
      <4>. QED
        BY <4>3 DEF x
    <3>3. s \ {Max(s)} \in SUBSET (1..(n + 1))
      OBVIOUS
    <3>. QED
      BY <2>1, <3>2, <3>3 DEF Sums
  <2>3. Sums(g, p, n + 1)
    BY <2>2 DEF Sums
  <2>. QED
    BY <2>3
<1>. HIDE DEF T
<1>3. m \in T
  BY <1>1, <1>2, SetInduction
<1>. QED
  BY <1>3 DEF T

Total(p) == FoldLeft(LAMBDA a, b : a + b, 0, p)

(* FoldLeft is the value of that function for the whole domain.            *)
LEMMA TotalUnfold ==
  ASSUME NEW S, NEW p \in Seq(S)
  PROVE  \E f : Sums(f, p, Len(p)) /\ Total(p) = f[1..Len(p)]
<1>. DEFINE g == CHOOSE f : Sums(f, p, Len(p))
<1>0. Len(p) \in Nat /\ DOMAIN p = 1..Len(p)
  OBVIOUS
<1>1. Sums(g, p, Len(p))
  BY <1>0, SumsExists
<1>2. Total(p) = g[1..Len(p)]
  BY <1>0 DEF Total, FoldLeft, MapThenFoldSet, Sums
<1>. QED
  BY <1>1, <1>2

(* The function inside FoldLeft gives the sum of every prefix.             *)
LEMMA SumsSteps ==
  ASSUME NEW S, NEW p \in Seq(S), NEW f, NEW m \in Nat, m <= Len(p), Sums(f, p, m)
  PROVE  /\ f[1..0] = 0
         /\ \A k \in 1..m : f[1..k] = f[1..(k - 1)] + p[k]
         /\ \A k \in 0..m : f[1..k] = Total(SubSeq(p, 1, k))
<1>. DEFINE cut(k) == SubSeq(p, 1, k)
            U == {n \in Nat : n <= m => \A k \in n..m : \A g :
                     Sums(g, cut(k), k) => g[1..n] = f[1..n]}
<1>0. Len(p) \in Nat
  OBVIOUS
<1>1. \A k \in 0..m : cut(k) \in Seq(S) /\ Len(cut(k)) = k /\ \A j \in 1..k : cut(k)[j] = p[j]
  BY <1>0
<1>2. ASSUME NEW k \in Nat, NEW q, NEW g, Sums(g, q, k), NEW j \in 1..k
      PROVE  g[1..j] = g[1..(j - 1)] + q[j]
  <2>0. j \in Nat /\ 1 \in 1..j /\ \A i \in 1..j : i \in 1..k
    OBVIOUS
  <2>1. 1..j \in SUBSET (1..k) /\ 1..j # {} /\ 1..j \subseteq 1..j /\ j \in Nat
    BY <2>0, Zenon
  <2>2. Max(1..j) \in 1..j /\ \A y \in 1..j : Max(1..j) >= y
    BY <2>1, MaxMin, Zenon
  <2>3. Max(1..j) = j /\ (1..j) \ {j} = 1..(j - 1)
    BY <2>2
  <2>4. g[1..j] = g[(1..j) \ {Max(1..j)}] + q[Max(1..j)]
    BY <1>2, <2>1 DEF Sums
  <2>. QED
    BY <2>3, <2>4
<1>3. ASSUME NEW k \in Nat, NEW q, NEW g, Sums(g, q, k) PROVE g[1..0] = 0
  <2>1. 1..0 = {} /\ {} \in SUBSET (1..k)
    OBVIOUS
  <2>. QED
    BY <1>3, <2>1 DEF Sums
<1>. HIDE DEF cut
<1>4. 0 \in U
  BY <1>3
<1>5. ASSUME NEW n \in Nat, n \in U PROVE n + 1 \in U
  <2>1. ASSUME n + 1 <= m, NEW k \in (n + 1)..m, NEW g, Sums(g, cut(k), k)
        PROVE  g[1..(n + 1)] = f[1..(n + 1)]
    <3>1. n + 1 \in 1..k /\ n + 1 \in 1..m /\ k \in Nat /\ k \in 0..m /\ k \in n..m /\ n <= m
      BY <2>1
    <3>2. (n + 1) - 1 = n
      OBVIOUS
    <3>3. g[1..(n + 1)] = g[1..n] + cut(k)[n + 1]
      BY <1>2, <2>1, <3>1, <3>2
    <3>4. f[1..(n + 1)] = f[1..n] + p[n + 1]
      BY <1>2, <3>1, <3>2
    <3>5. g[1..n] = f[1..n]
      BY <1>5, <2>1, <3>1
    <3>6. cut(k)[n + 1] = p[n + 1]
      BY <1>1, <3>1
    <3>. QED
      BY <3>3, <3>4, <3>5, <3>6
  <2>. QED
    BY <2>1
<1>. HIDE DEF U
<1>6. Nat \subseteq U
  BY <1>4, <1>5, SetInduction
<1>7. ASSUME NEW k \in 0..m PROVE f[1..k] = Total(SubSeq(p, 1, k))
  <2>1. k \in Nat /\ k <= m /\ k \in k..m /\ k \in U
    BY <1>6
  <2>2. PICK g : Sums(g, cut(k), Len(cut(k))) /\ Total(cut(k)) = g[1..Len(cut(k))]
    BY <1>1, TotalUnfold, Zenon
  <2>3. g[1..k] = f[1..k]
    BY <1>1, <2>1, <2>2 DEF U
  <2>. QED
    BY <1>1, <2>2, <2>3 DEF cut
<1>. QED
  BY <1>2, <1>3, <1>7

(* What Sum computes, one piece at a time.                                 *)
LEMMA SumPrefix ==
  ASSUME NEW S, NEW p \in Seq(S)
  PROVE  /\ Sum(p, 0) = 0
         /\ Sum(p, Len(p)) = Total(p)
         /\ \A k \in 1..Len(p) : Sum(p, k) = Sum(p, k - 1) + p[k]
<1>0. Len(p) \in Nat /\ 0 \in 0..Len(p) /\ Len(p) \in 0..Len(p) /\ Len(p) <= Len(p)
  OBVIOUS
<1>1. PICK f : Sums(f, p, Len(p)) /\ Total(p) = f[1..Len(p)]
  BY TotalUnfold
<1>2. \A k : Sum(p, k) = Total(SubSeq(p, 1, k))
  BY DEF Sum, Total
<1>3. /\ f[1..0] = 0
      /\ \A k \in 1..Len(p) : f[1..k] = f[1..(k - 1)] + p[k]
      /\ \A k \in 0..Len(p) : f[1..k] = Sum(p, k)
  BY <1>0, <1>1, <1>2, SumsSteps
<1>4. ASSUME NEW k \in 1..Len(p) PROVE Sum(p, k) = Sum(p, k - 1) + p[k]
  <2>1. k \in 0..Len(p) /\ k - 1 \in 0..Len(p)
    BY <1>0
  <2>. QED
    BY <1>3, <2>1
<1>. QED
  BY <1>0, <1>1, <1>3, <1>4

-----------------------------------------------------------------------------
(* Routes.                                                                 *)

(* A row that leads no GET or HEAD to an operation that writes, and a      *)
(* table of such rows.                                                     *)
SafeRow(row) == row.method \in {"GET", "HEAD"} => row.op \notin Mutating
Safe(table) == \E S : table \in Seq(S) /\ \A row \in S : SafeRow(row)

(* Operations that do not write.                                           *)
Reading == {"list_buckets", "get_bucket_acl", "get_lifecycle_config", "get_website_config",
  "get_replication_status", "get_replication_config", "head_bucket", "list_objects",
  "get_object_acl", "get_object_lock", "head_object", "get_object", "metrics", "logs",
  "subscribe", "bootstrap", "info", "head", "get", "resolve", "list"}

(* A row is safe if its method writes or its operation reads.              *)
LEMMA RowSafe ==
  /\ \A a, h, o : \A m \in {"PUT", "POST", "DELETE"} : SafeRow(Row(m, a, h, o))
  /\ \A a, h : \A o \in Reading, m \in {"GET", "HEAD"} : SafeRow(Row(m, a, h, o))
<1>1. \A o \in Reading : o \notin Mutating
  BY DEF Reading, Mutating, Uploads, BucketMutations, ObjectMutations
<1>. QED
  BY <1>1 DEF Row, SafeRow

(* Safe, by naming a set of rows.                                          *)
LEMMA SafeIntro ==
  ASSUME NEW t, NEW S, t \in Seq(S), \A row \in S : SafeRow(row)
  PROVE  Safe(t)
  BY DEF Safe

(* Two safe tables one after the other are a safe table.                   *)
LEMMA SafeConcat ==
  ASSUME NEW a, NEW b, Safe(a), Safe(b)
  PROVE  Safe(a \o b)
<1>1. PICK S : a \in Seq(S) /\ \A row \in S : SafeRow(row)
  BY DEF Safe
<1>2. PICK T : b \in Seq(T) /\ \A row \in T : SafeRow(row)
  BY DEF Safe
<1>3. a \in Seq(S \cup T) /\ b \in Seq(S \cup T)
  BY <1>1, <1>2
<1>4. a \o b \in Seq(S \cup T)
  BY <1>3, ConcatProperties
<1>. QED
  BY <1>1, <1>2, <1>4 DEF Safe

(* Short tables of safe rows are safe.                                     *)
LEMMA SafeTuples ==
  /\ \A a : (\A row \in {a} : SafeRow(row)) => Safe(<<a>>)
  /\ \A a, b : (\A row \in {a, b} : SafeRow(row)) => Safe(<<a, b>>)
  /\ \A a, b, c : (\A row \in {a, b, c} : SafeRow(row)) => Safe(<<a, b, c>>)
  /\ \A a, b, c, d : (\A row \in {a, b, c, d} : SafeRow(row)) => Safe(<<a, b, c, d>>)
  /\ \A a, b, c, d, e : (\A row \in {a, b, c, d, e} : SafeRow(row)) => Safe(<<a, b, c, d, e>>)
  /\ \A a, b, c, d, e, f : (\A row \in {a, b, c, d, e, f} : SafeRow(row)) => Safe(<<a, b, c, d, e, f>>)
<1>1. ASSUME NEW a, \A row \in {a} : SafeRow(row) PROVE Safe(<<a>>)
  <2>. DEFINE S == {a}
  <2>1. <<a>> \in Seq(S)
    OBVIOUS
  <2>2. \A row \in S : SafeRow(row)
    BY <1>1
  <2>. HIDE DEF S
  <2>. QED
    BY <2>1, <2>2, SafeIntro
<1>2. ASSUME NEW a, NEW b, \A row \in {a, b} : SafeRow(row) PROVE Safe(<<a, b>>)
  <2>. DEFINE S == {a, b}
  <2>1. <<a, b>> \in Seq(S)
    OBVIOUS
  <2>2. \A row \in S : SafeRow(row)
    BY <1>2
  <2>. HIDE DEF S
  <2>. QED
    BY <2>1, <2>2, SafeIntro
<1>3. ASSUME NEW a, NEW b, NEW c, \A row \in {a, b, c} : SafeRow(row) PROVE Safe(<<a, b, c>>)
  <2>. DEFINE S == {a, b, c}
  <2>1. <<a, b, c>> \in Seq(S)
    OBVIOUS
  <2>2. \A row \in S : SafeRow(row)
    BY <1>3
  <2>. HIDE DEF S
  <2>. QED
    BY <2>1, <2>2, SafeIntro
<1>4. ASSUME NEW a, NEW b, NEW c, NEW d, \A row \in {a, b, c, d} : SafeRow(row) PROVE Safe(<<a, b, c, d>>)
  <2>. DEFINE S == {a, b, c, d}
  <2>1. <<a, b, c, d>> \in Seq(S)
    OBVIOUS
  <2>2. \A row \in S : SafeRow(row)
    BY <1>4
  <2>. HIDE DEF S
  <2>. QED
    BY <2>1, <2>2, SafeIntro
<1>5. ASSUME NEW a, NEW b, NEW c, NEW d, NEW e, \A row \in {a, b, c, d, e} : SafeRow(row) PROVE Safe(<<a, b, c, d, e>>)
  <2>. DEFINE S == {a, b, c, d, e}
  <2>1. <<a, b, c, d, e>> \in Seq(S)
    OBVIOUS
  <2>2. \A row \in S : SafeRow(row)
    BY <1>5
  <2>. HIDE DEF S
  <2>. QED
    BY <2>1, <2>2, SafeIntro
<1>6. ASSUME NEW a, NEW b, NEW c, NEW d, NEW e, NEW f, \A row \in {a, b, c, d, e, f} : SafeRow(row) PROVE Safe(<<a, b, c, d, e, f>>)
  <2>. DEFINE S == {a, b, c, d, e, f}
  <2>1. <<a, b, c, d, e, f>> \in Seq(S)
    OBVIOUS
  <2>2. \A row \in S : SafeRow(row)
    BY <1>6
  <2>. HIDE DEF S
  <2>. QED
    BY <2>1, <2>2, SafeIntro
<1>. QED
  BY <1>1, <1>2, <1>3, <1>4, <1>5, <1>6

(* Every row of the three tables is safe.                                  *)
LEMMA TablesSafe == Safe(S3Routes) /\ Safe(CdnRoutes) /\ Safe(GatewayRoutes)
<1>1. \A p, q, d : \A g \in Reading : Safe(ConfigRows(p, g, q, d))
  BY RowSafe, SafeTuples DEF ConfigRows
<1>2. Safe(BucketConfigRoutes)
  <2>1. Safe(<<Row("GET", "root", {}, "list_buckets"),
               Row("GET", "bucket", {"acl"}, "get_bucket_acl"),
               Row("PUT", "bucket", {"acl"}, "put_bucket_acl")>>)
    BY RowSafe, SafeTuples DEF Reading
  <2>2. /\ Safe(ConfigRows("lifecycle", "get_lifecycle_config", "put_lifecycle_config",
                           "delete_lifecycle_config"))
        /\ Safe(ConfigRows("website", "get_website_config", "put_website_config",
                           "delete_website_config"))
    BY <1>1 DEF Reading
  <2>. QED
    BY <2>1, <2>2, SafeConcat DEF BucketConfigRoutes
<1>3. Safe(ReplicationRoutes)
  <2>1. Safe(<<Row("GET", "bucket", {"replication-status"}, "get_replication_status"),
               Row("POST", "bucket", {"replication-run"}, "run_replication_once")>>)
    BY RowSafe, SafeTuples DEF Reading
  <2>2. Safe(ConfigRows("replication", "get_replication_config", "put_replication_config",
                        "delete_replication_config"))
    BY <1>1 DEF Reading
  <2>. QED
    BY <2>1, <2>2, SafeConcat DEF ReplicationRoutes
<1>4. Safe(BucketRoutes)
  BY RowSafe, SafeTuples DEF BucketRoutes, Reading
<1>5. Safe(ObjectConfigRoutes)
  BY RowSafe, SafeTuples DEF ObjectConfigRoutes, Reading
<1>6. Safe(CopyRoute)
  BY RowSafe, SafeTuples DEF CopyRoute, Reading
<1>7. Safe(MultipartRoutes)
  BY RowSafe, SafeTuples DEF MultipartRoutes, Reading
<1>8. Safe(ObjectRoutes)
  BY RowSafe, SafeTuples DEF ObjectRoutes, Reading
<1>9. Safe(<<Row("GET", "metrics", {}, "metrics"), Row("GET", "logs", {}, "logs")>>)
  BY RowSafe, SafeTuples DEF Reading
<1>10. Safe(CdnRoutes)
  BY RowSafe, SafeTuples DEF CdnRoutes, Reading
<1>11. Safe(GatewayOpenRoutes) /\ Safe(GatewayAdminRoutes) /\ Safe(GatewayUploadRoutes)
  BY RowSafe, SafeTuples DEF GatewayOpenRoutes, GatewayAdminRoutes, GatewayUploadRoutes, Reading
<1>12. Safe(GatewayNameRoutes) /\ Safe(GatewayCidRoutes) /\ Safe(GatewayNamespaceRoutes)
  BY RowSafe, SafeTuples DEF GatewayNameRoutes, GatewayCidRoutes, GatewayNamespaceRoutes, Reading
<1>13. Safe(S3Routes)
  BY <1>2, <1>3, <1>4, <1>5, <1>6, <1>7, <1>8, <1>9, SafeConcat DEF S3Routes
<1>14. Safe(GatewayRoutes)
  BY <1>11, <1>12, SafeConcat DEF GatewayRoutes
<1>. QED
  BY <1>10, <1>13, <1>14

(* A table of safe rows leads a GET or HEAD to no operation that writes.   *)
LEMMA RouteSafe ==
  ASSUME NEW table, Safe(table), NEW q, q.method \in {"GET", "HEAD"}
  PROVE  Route(table, q) \notin Mutating
<1>. DEFINE I == {i \in 1..Len(table) : Matches(table[i], q)}
            i == SelectInSeq(table, LAMBDA row : Matches(row, q))
<1>. PICK S : table \in Seq(S) /\ \A row \in S : SafeRow(row)
  BY DEF Safe
<1>0. Len(table) \in Nat /\ I \subseteq 1..Len(table)
  OBVIOUS
<1>1. i = IF I # {} THEN Min(I) ELSE 0
  BY DEF SelectInSeq
<1>2. CASE I = {}
  <2>1. i = 0 /\ "route_not_found" \notin Mutating
    BY <1>1, <1>2 DEF Mutating, Uploads, BucketMutations, ObjectMutations
  <2>. QED
    BY <2>1 DEF Route
<1>3. CASE I # {}
  <2>1. Min(I) \in I
    BY <1>0, <1>3, MaxMin, Zenon
  <2>. HIDE DEF i
  <2>2. i \in 1..Len(table) /\ Matches(table[i], q) /\ i # 0
    BY <1>0, <1>1, <1>3, <2>1
  <2>3. table[i] \in S /\ table[i].method = q.method
    BY <2>2 DEF Matches
  <2>4. table[i].op \notin Mutating
    BY <2>3 DEF SafeRow
  <2>. QED
    BY <2>2, <2>4 DEF Route, i
<1>. QED
  BY <1>2, <1>3

(* A request that reads by its method runs nothing that writes.            *)
LEMMA OpOfSafe ==
  ASSUME NEW q \in Requests, OpOf(q) \in Mutating
  PROVE  q.method \notin {"GET", "HEAD"}
<1>. SUFFICES ASSUME q.method \in {"GET", "HEAD"} PROVE FALSE
  OBVIOUS
<1>1. q.front \in {"gateway", "s3", "cdn"} /\ "method" \in DOMAIN q
  BY InputsAssumption DEF Requests
<1>2. S3Target(q).method = q.method
  BY <1>1 DEF S3Target, ResolveBucketAndKey
<1>3. /\ Route(GatewayRoutes, q) \notin Mutating
      /\ Route(S3Routes, S3Target(q)) \notin Mutating
      /\ Route(CdnRoutes, q) \notin Mutating
  BY <1>2, TablesSafe, RouteSafe
<1>. QED
  BY <1>1, <1>3 DEF OpOf

-----------------------------------------------------------------------------
(* Access.                                                                 *)

(* A verified channel token yields a context of a genuine credential.      *)
LEMMA ChannelVerified ==
  ASSUME NEW q, q.front \in {"native", "gateway"}, VerifyAuth(q.cred, q.conn)
  PROVE  Verified(q, TokenContext(q.cred))
  BY DEF VerifyAuth, VerifyCoseSign1Token, VerifyTlsExporterBinding, Resolve, Verified, Genuine,
         Bound, Holds, TokenContext

(* So does an authenticated S3 request ...                                 *)
LEMMA S3Verified ==
  ASSUME NEW q, q.front \in {"s3", "cdn"}, NEW audited,
         AuthenticateS3(q.cred, q.method, audited) # None
  PROVE  Verified(q, AuthenticateS3(q.cred, q.method, audited))
<1>. DEFINE c == AuthenticateS3(q.cred, q.method, audited)
<1>0. q.cred # None
  BY DEF AuthenticateS3
<1>1. CASE q.cred.kind = "capability" /\ AuthenticateHspCapability(q.cred)
  <2>1. c = TokenContext(q.cred)
    BY <1>0, <1>1 DEF AuthenticateS3
  <2>. QED
    BY <1>0, <1>1, <2>1 DEF AuthenticateHspCapability, VerifyCoseSign1Token, Resolve, Verified,
       Genuine, Bound, Holds, TokenContext
<1>2. CASE q.cred.kind = "sigv4" /\ AuthenticateHeaderSigV4(q.cred)
  <2>1. c = SigV4AuthContext(q.cred, q.method)
    BY <1>0, <1>2 DEF AuthenticateS3
  <2>2. Genuine(q)
    BY <1>0, <1>2 DEF AuthenticateHeaderSigV4, SigV4AccessKey, SigV4Signature, Genuine
  <2>. QED
    BY <1>2, <2>1, <2>2 DEF Verified, Bound, Holds, SigV4AuthContext
<1>3. CASE q.cred.kind = "presigned" /\ AuthenticatePresignedSigV4(q.cred, audited)
  <2>1. c = SigV4AuthContext(q.cred, q.method)
    BY <1>0, <1>3 DEF AuthenticateS3
  <2>2. Genuine(q)
    BY <1>0, <1>3 DEF AuthenticatePresignedSigV4, SigV4AccessKey, SigV4Signature, Genuine
  <2>. QED
    BY <1>3, <2>1, <2>2 DEF Verified, Bound, Holds, SigV4AuthContext
<1>. QED
  BY <1>0, <1>1, <1>2, <1>3 DEF AuthenticateS3

(* ... and an authenticated request of the CDN.                            *)
LEMMA CdnVerified ==
  ASSUME NEW q, q.front = "cdn", NEW audited,
         AuthenticateCdn(q.cred, q.method, audited) # None
  PROVE  Verified(q, AuthenticateCdn(q.cred, q.method, audited))
<1>1. CASE q.cred # None /\ q.cred.kind = "edge"
  BY <1>1 DEF AuthenticateCdn, AuthenticateEdgeToken, DecodeEdgeToken, EnsureEdgeTokenMethod,
     EdgeContext, Verified, Genuine, Bound, Holds
<1>2. CASE ~(q.cred # None /\ q.cred.kind = "edge")
  BY <1>2, S3Verified DEF AuthenticateCdn
<1>. QED
  BY <1>1, <1>2

(* What a context limits its holder to, a target is within.                *)
Within(c, ns, path) ==
  /\ c.ns # None => ns # None /\ IsPrefix(c.ns, ns)
  /\ c.path # None => path # None /\ IsPrefix(c.path, path)

(* InScope of less than the names is within the names.                     *)
LEMMA InScopeWithin ==
  ASSUME NEW c, NEW ns, NEW path
  PROVE  /\ InScope(c, ns, path) => Within(c, ns, path)
         /\ InScope(c, ns, None) => Within(c, ns, path)
         /\ InScope(c, None, None) => Within(c, ns, path)
  BY DEF InScope, SegmentPrefixMatches, Within

(* An operation of the service that is authorized is within the limits.    *)
LEMMA AuthorizeWithin ==
  ASSUME NEW c, NEW op, NEW q, Authorize(c, op, q)
  PROVE  /\ Within(c, q.ns, q.path) /\ c.tenant = q.tenant
         /\ op \in Mutating => op \in WithBody
         /\ op \notin {"metrics", "logs", "cached"}
<1>1. Within(c, q.ns, q.path) /\ c.tenant = q.tenant
  BY InScopeWithin DEF Authorize, MetaNs, MetaPath
<1>2. (op \in Mutating => op \in WithBody) /\ op \notin {"metrics", "logs", "cached"}
  <2>1. ScopesFor(op) # {}
    BY DEF Authorize
  <2>. QED
    BY <2>1 DEF ScopesFor, Mutating, Uploads, BucketMutations, ObjectMutations, WithBody
<1>. QED
  BY <1>1, <1>2

(* Its context has one of the scopes it needs.                             *)
LEMMA AuthorizeScopes ==
  ASSUME NEW c, NEW op, NEW q, Authorize(c, op, q)
  PROVE  /\ op \in Uploads => "write" \in c.ops
         /\ op \in Mutating => c.ops \cap {"write", "bind", "unbind"} # {}
         /\ op \in {"head", "get", "resolve", "list", "subscribe"} => c.ops \cap {"read", op} # {}
<1>1. PICK x : x \in c.ops /\ x \in ScopesFor(op)
  BY DEF Authorize
<1>2. ASSUME op \in Uploads PROVE x = "write"
  BY <1>1, <1>2 DEF ScopesFor, Uploads
<1>3. ASSUME op \in Mutating PROVE x \in {"write", "bind", "unbind"}
  <2>1. op \in WithBody
    BY <1>3, AuthorizeWithin
  <2>. QED
    BY <1>1, <2>1 DEF ScopesFor, WithBody
<1>4. ASSUME op \in {"head", "get", "resolve", "list", "subscribe"} PROVE x \in {"read", op}
  BY <1>1, <1>4 DEF ScopesFor
<1>. QED
  BY <1>1, <1>2, <1>3, <1>4

(* So is an operation of the distribution layer that is permitted.         *)
LEMMA PermitsWithin ==
  ASSUME NEW c, NEW op, NEW q, NEW acl, Permits(c, op, q, acl)
  PROVE  Within(c, q.ns, q.path)
<1>. USE InScopeWithin
<1>1. CASE op = "list_buckets" /\ ReadScopeForOptional(c)
  BY <1>1 DEF ReadScopeForOptional
<1>2. CASE MutationScope(c, q.ns, None) \/ MutationScope(c, q.ns, q.path)
  BY <1>2 DEF MutationScope
<1>3. CASE ReadScope(c, q.ns, None, acl) \/ ReadScope(c, q.ns, q.path, acl)
  BY <1>3 DEF ReadScope
<1>4. CASE UnscopedCidReadScope(c)
  BY <1>4 DEF UnscopedCidReadScope, Within
<1>. QED
  BY <1>1, <1>2, <1>3, <1>4 DEF Permits

(* Its context has a scope that writes if it writes.                       *)
LEMMA PermitsScopes ==
  ASSUME NEW c, NEW op, NEW q, NEW acl, Permits(c, op, q, acl)
  PROVE  /\ op \notin Uploads
         /\ op \in Mutating => c.ops \cap {"write", "bind", "unbind"} # {}
         /\ op \notin {"metrics", "logs", "cached", "head", "get", "resolve", "list", "subscribe"}
<1>1. \/ op = "list_buckets" \/ op \in BucketMutations \/ op \in ObjectMutations
      \/ op \in BucketReads \/ op \in ObjectReads
  BY DEF Permits
<1>2. /\ op \notin Uploads
      /\ op \notin {"metrics", "logs", "cached", "head", "get", "resolve", "list", "subscribe"}
      /\ op \in Mutating => op \in BucketMutations \cup ObjectMutations
  BY <1>1 DEF Mutating, Uploads, BucketMutations, ObjectMutations, BucketReads, ObjectReads
<1>3. ASSUME op \in BucketMutations \cup ObjectMutations
      PROVE  c.ops \cap {"write", "bind", "unbind"} # {}
  <2>1. /\ op # "list_buckets" /\ op \notin BucketReads /\ op \notin ObjectReads
    BY <1>3 DEF BucketMutations, ObjectMutations, BucketReads, ObjectReads
  <2>2. MutationScope(c, q.ns, None) \/ MutationScope(c, q.ns, q.path)
    BY <2>1 DEF Permits
  <2>. QED
    BY <2>2 DEF MutationScope
<1>. QED
  BY <1>2, <1>3

(* Where the operation runs: the names of a request as its front end       *)
(* understands them.                                                       *)
Target(q) ==
  CASE q.front = "s3" -> S3Target(q) [] q.front = "cdn" -> CdnTarget(q) [] OTHER -> q

(* A verified context whose limits hold of the target confines the request *)
(* to its credential.                                                      *)
LEMMA WithinConfined ==
  ASSUME NEW q, NEW c, Verified(q, c), Within(c, Target(q).ns, Target(q).path),
         q.front \in {"native", "gateway"} => c.tenant = q.tenant
  PROVE  Confined(q)
  BY DEF Verified, Within, Confined, Target

-----------------------------------------------------------------------------
(* Answers.                                                                *)

(* The answers of an operation, and the header of a result that turns out  *)
(* to be too long.                                                         *)
Messages == {<<"RES", "DATA", "END">>, <<"head", "body", "end">>, <<"head", "end">>,
             <<"ERROR">>, <<"error", "body", "end">>, <<"RES">>}

(* An answer is made of words, and one word of it begins a response.       *)
LEMMA MessageShape ==
  ASSUME NEW m \in Messages
  PROVE  /\ m \in Seq(Words) /\ m # <<>>
         /\ m # <<"RES">> => Last(m) \in {"END", "ERROR", "end"}
         /\ HeadCount(m) <= 1
<1>1. m \in Seq(Words) /\ m # <<>>
  <2>1. CASE m = <<"RES", "DATA", "END">>
    BY <2>1 DEF Words
  <2>2. CASE m = <<"head", "body", "end">>
    BY <2>2 DEF Words
  <2>3. CASE m = <<"head", "end">>
    BY <2>3 DEF Words
  <2>4. CASE m = <<"ERROR">>
    BY <2>4 DEF Words
  <2>5. CASE m = <<"RES">>
    BY <2>5 DEF Words
  <2>6. CASE m = <<"error", "body", "end">>
    BY <2>6 DEF Words
  <2>. QED
    BY <2>1, <2>2, <2>3, <2>4, <2>5, <2>6 DEF Messages
<1>2. m # <<"RES">> => Last(m) \in {"END", "ERROR", "end"}
  BY SMTT(60) DEF Messages, Last
<1>3. {i \in DOMAIN m : m[i] \in {"RES", "ERROR", "head", "error"}} \subseteq {1}
  <2>1. ASSUME NEW i \in DOMAIN m, m[i] \in {"RES", "ERROR", "head", "error"} PROVE i = 1
    <3>1. CASE m = <<"RES", "DATA", "END">>
      BY <2>1, <3>1
    <3>2. CASE m = <<"head", "body", "end">>
      BY <2>1, <3>2
    <3>3. CASE m = <<"head", "end">>
      BY <2>1, <3>3
    <3>4. CASE m = <<"ERROR">> \/ m = <<"RES">>
      BY <2>1, <3>4
    <3>5. CASE m = <<"error", "body", "end">>
      BY <2>1, <3>5
    <3>. QED
      BY <3>1, <3>2, <3>3, <3>4, <3>5 DEF Messages
  <2>. QED
    BY <2>1
<1>4. IsFiniteSet({1}) /\ Cardinality({1}) = 1
  BY FS_Singleton
<1>5. Cardinality({i \in DOMAIN m : m[i] \in {"RES", "ERROR", "head", "error"}}) <= Cardinality({1})
  BY <1>3, <1>4, FS_Subset, Zenon
<1>. QED
  BY <1>1, <1>2, <1>4, <1>5 DEF HeadCount

(* Nothing is no response.                                                 *)
LEMMA NoHead == HeadCount(<<>>) = 0
<1>1. {i \in DOMAIN <<>> : <<>>[i] \in {"RES", "ERROR", "head", "error"}} = {}
  OBVIOUS
<1>. QED
  BY <1>1, FS_EmptySet DEF HeadCount

(* The first answer of a request is a good one.                            *)
LEMMA ReplyFirst ==
  ASSUME NEW q, NEW v, NEW gaveUp \in BOOLEAN, NEW m \in Messages,
         gaveUp => q.front \in {"native", "gateway"},
         m = <<"RES">> => q.front = "native" /\ v \in {"list", "head", "get"}
  PROVE  Reply(q, v, gaveUp, IF gaveUp THEN <<>> ELSE <<>> \o m)
<1>1. <<>> \o m = m
  <2>1. m \in Seq(Words)
    BY MessageShape
  <2>. QED
    BY <2>1, ConcatEmptySeq
<1>. QED
  BY <1>1, MessageShape, NoHead DEF Reply

(* The end of a subscription that has begun is a good one.                 *)
LEMMA ReplyLast ==
  ASSUME NEW q, NEW gaveUp \in BOOLEAN, NEW o \in Seq(Words), o # <<>>,
         NEW m \in Seq(Words), m # <<>>, Last(m) \in {"END", "ERROR", "end"}
  PROVE  Reply(q, "subscribe", gaveUp, IF gaveUp THEN o ELSE o \o m)
<1>1. /\ o \o m \in Seq(Words) /\ Len(o \o m) = Len(o) + Len(m)
      /\ \A i \in 1..(Len(o) + Len(m)) : (o \o m)[i] = IF i <= Len(o) THEN o[i] ELSE m[i - Len(o)]
  BY ConcatProperties
<1>2. Len(o) \in Nat /\ Len(m) \in Nat /\ Len(o) # 0 /\ Len(m) # 0
  BY EmptySeq
<1>3. o \o m # <<>>
  BY <1>1, <1>2, EmptySeq
<1>4. (o \o m)[Len(o) + Len(m)] = m[Len(m)]
  BY <1>1, <1>2
<1>5. Last(o \o m) = Last(m)
  BY <1>1, <1>4 DEF Last
<1>. QED
  BY <1>3, <1>5 DEF Reply

-----------------------------------------------------------------------------
(* Steps.                                                                  *)

(* Slot r has the connection to itself.                                    *)
InFront(r) ==
  Is(r, "gateway") => queue[req[r].conn] # <<>> /\ Head(queue[req[r].conn]) = r

(* Slot r is done with answer o; the only others it affects are requests   *)
(* that wait behind it.                                                    *)
Ended(r, o) ==
  /\ pc' \in [Slots -> Steps] /\ pc'[r] = "done"
  /\ out' \in [Slots -> Seq(Words)] /\ out'[r] = o
  /\ queue' \in [Conns -> Seq(Slots)] /\ closed' \in [Conns -> BOOLEAN]
  /\ \A s \in Slots \ {r} :
       out'[s] = out[s] /\ (pc'[s] = pc[s] \/ (pc'[s] = "done" /\ pc[s] = "queued"))
  /\ QueueInv'

(* The request is done, and leaves the front of its queue.                 *)
LEMMA FinishEnds ==
  ASSUME TypeInv, QueueInv, NEW r \in Slots, req[r] \in Requests, req' = req,
         NEW m \in Seq(Words), pc[r] \notin {"idle", "done"}, InFront(r), Finish(r, m)
  PROVE  Ended(r, out[r] \o m)
<1>. DEFINE c0 == req[r].conn
<1>0. c0 \in Conns
  BY InputsAssumption DEF Requests
<1>1. pc' = [pc EXCEPT ![r] = "done"] /\ pc \in [Slots -> Steps] /\ "done" \in Steps
  BY DEF Finish, TypeInv, Steps
<1>2. /\ pc' \in [Slots -> Steps] /\ pc'[r] = "done"
      /\ \A s \in Slots \ {r} : pc'[s] = pc[s]
  BY <1>1
<1>3. /\ out' \in [Slots -> Seq(Words)] /\ out'[r] = out[r] \o m
      /\ \A s \in Slots \ {r} : out'[s] = out[s]
  <2>1. out' = [out EXCEPT ![r] = out[r] \o m] /\ out \in [Slots -> Seq(Words)]
    BY DEF Finish, TypeInv
  <2>2. out[r] \o m \in Seq(Words)
    BY <2>1, ConcatProperties
  <2>. QED
    BY <2>1, <2>2
<1>4. closed' \in [Conns -> BOOLEAN]
  BY DEF Finish, TypeInv
<1>5. CASE ~Is(r, "gateway")
  <2>1. queue' = queue /\ queue \in [Conns -> Seq(Slots)]
    BY <1>5 DEF Finish, TypeInv
  <2>2. ASSUME NEW c \in Conns, NEW i \in 1..Len(queue[c])
        PROVE  queue[c][i] \in Slots \ {r}
    BY <1>5, <2>1 DEF QueueInv, Is
  <2>3. ASSUME NEW c \in Conns, NEW i \in 1..Len(queue[c]) PROVE pc'[queue[c][i]] = pc[queue[c][i]]
    BY <1>2, <2>2
  <2>4. ASSUME NEW s \in Slots, pc'[s] \notin {"idle", "done", "queued"}, Is(s, "gateway")
        PROVE  queue[req[s].conn] # <<>> /\ Head(queue[req[s].conn]) = s
    <3>1. pc'[s] = pc[s]
      BY <1>2, <2>4
    <3>. QED
      BY <2>4, <3>1 DEF QueueInv
  <2>5. QueueInv'
    BY <2>1, <2>3, <2>4 DEF QueueInv, Is
  <2>. QED
    BY <1>2, <1>3, <1>4, <2>1, <2>5 DEF Ended
<1>6. CASE Is(r, "gateway")
  <2>. DEFINE q == queue[c0]
  <2>1. queue' = [queue EXCEPT ![c0] = Tail(q)] /\ queue \in [Conns -> Seq(Slots)]
    BY <1>6 DEF Finish, TypeInv
  <2>2. q \in Seq(Slots) /\ q # <<>> /\ q[1] = r /\ 1 \in 1..Len(q) /\ Len(q) \in Nat
    BY <1>0, <1>6, <2>1 DEF InFront
  <2>3. /\ Tail(q) \in Seq(Slots) /\ Len(Tail(q)) = Len(q) - 1
        /\ \A i \in 1..(Len(q) - 1) : Tail(q)[i] = q[i + 1]
    BY <2>2
  <2>4. /\ queue' \in [Conns -> Seq(Slots)]
        /\ queue'[c0] = Tail(q)
        /\ \A c \in Conns \ {c0} : queue'[c] = queue[c]
    BY <1>0, <2>1, <2>3
  <2>5. ASSUME NEW i \in 2..Len(q)
        PROVE  q[i] \in Slots \ {r} /\ pc'[q[i]] = "queued" /\ pc[q[i]] = "queued"
    <3>1. i \in 1..Len(q) /\ i # 1
      BY <2>2
    <3>2. q[i] \in Slots /\ pc[q[i]] = "queued" /\ q[i] # q[1]
      BY <1>0, <2>2, <3>1 DEF QueueInv
    <3>. QED
      BY <1>2, <2>2, <3>2
  <2>6. ASSUME NEW c \in Conns \ {c0}, NEW i \in 1..Len(queue[c])
        PROVE  queue[c][i] \in Slots \ {r}
    BY <2>1 DEF QueueInv
  <2>7. ASSUME NEW c \in Conns, NEW i \in 1..Len(queue'[c])
        PROVE  /\ pc'[queue'[c][i]] \notin {"idle", "done"}
               /\ req[queue'[c][i]].conn = c /\ Is(queue'[c][i], "gateway")
               /\ i # 1 => pc'[queue'[c][i]] = "queued"
               /\ \A j \in 1..Len(queue'[c]) : queue'[c][i] = queue'[c][j] => i = j
    <3>1. CASE c = c0
      <4>1. \A j \in 1..Len(queue'[c]) : j + 1 \in 2..Len(q) /\ j + 1 \in 1..Len(q) /\ queue'[c][j] = q[j + 1]
        <5>1. ASSUME NEW j \in 1..Len(queue'[c])
              PROVE  j \in 1..(Len(q) - 1) /\ queue'[c][j] = Tail(q)[j]
          BY <2>3, <2>4, <3>1
        <5>2. ASSUME NEW j \in 1..(Len(q) - 1) PROVE j + 1 \in 2..Len(q) /\ j + 1 \in 1..Len(q)
          BY <2>2
        <5>. HIDE DEF q
        <5>. QED
          BY <2>3, <5>1, <5>2
      <4>2. pc'[queue'[c][i]] = "queued" /\ req[queue'[c][i]].conn = c /\ Is(queue'[c][i], "gateway")
        <5>1. i + 1 \in 1..Len(queue[c0]) /\ i + 1 \in 2..Len(q) /\ queue'[c][i] = q[i + 1]
          BY <4>1
        <5>2. req[queue[c0][i + 1]].conn = c0 /\ Is(queue[c0][i + 1], "gateway")
          BY <1>0, <5>1 DEF QueueInv
        <5>3. pc'[q[i + 1]] = "queued"
          BY <2>5, <5>1
        <5>. QED
          BY <3>1, <5>1, <5>2, <5>3
      <4>3. ASSUME NEW j \in 1..Len(queue'[c]), queue'[c][i] = queue'[c][j] PROVE i = j
        <5>1. i + 1 \in 1..Len(q) /\ j + 1 \in 1..Len(q) /\ q[i + 1] = q[j + 1]
          BY <4>1, <4>3
        <5>2. i + 1 = j + 1
          BY <1>0, <5>1 DEF QueueInv
        <5>3. i \in Nat /\ j \in Nat
          BY <2>2, <2>3, <2>4, <3>1
        <5>. QED
          BY <5>2, <5>3
      <4>. QED
        BY <4>2, <4>3
    <3>2. CASE c # c0
      <4>1. queue'[c] = queue[c] /\ pc'[queue[c][i]] = pc[queue[c][i]]
        BY <1>2, <2>4, <2>6, <3>2
      <4>. QED
        BY <4>1 DEF QueueInv
    <3>. QED
      BY <3>1, <3>2
  <2>8. ASSUME NEW s \in Slots, pc'[s] \notin {"idle", "done", "queued"}, Is(s, "gateway")
        PROVE  queue'[req[s].conn] # <<>> /\ Head(queue'[req[s].conn]) = s
    <3>1. s # r /\ pc'[s] = pc[s]
      BY <1>2, <2>8
    <3>2. queue[req[s].conn] # <<>> /\ Head(queue[req[s].conn]) = s
      BY <2>8, <3>1 DEF QueueInv
    <3>3. req[s].conn # c0
      BY <1>6, <3>1, <3>2 DEF InFront
    <3>4. queue'[req[s].conn] = queue[req[s].conn]
      BY <2>1, <3>3
    <3>. QED
      BY <3>2, <3>4
  <2>9. QueueInv'
    BY <2>7, <2>8 DEF QueueInv, Is
  <2>. QED
    BY <1>2, <1>3, <1>4, <2>4, <2>9 DEF Ended
<1>. QED
  BY <1>5, <1>6

(* The stream was reset: with it go the requests that wait behind it.      *)
LEMMA AbandonEnds ==
  ASSUME TypeInv, QueueInv, NEW r \in Slots, req[r] \in Requests, req' = req,
         pc[r] \notin {"idle", "done"}, InFront(r), Abandon(r)
  PROVE  Ended(r, out[r])
<1>. DEFINE c0 == req[r].conn
            gone == IF Is(r, "gateway") THEN ToSet(queue[c0]) ELSE {r}
<1>0. c0 \in Conns
  BY InputsAssumption DEF Requests
<1>1. pc' = [s \in Slots |-> IF s \in gone THEN "done" ELSE pc[s]]
  BY DEF Abandon
<1>2. pc \in [Slots -> Steps] /\ "done" \in Steps
  BY DEF TypeInv, Steps
<1>3. out' = out /\ out \in [Slots -> Seq(Words)]
  BY DEF TypeInv, Abandon
<1>4. closed' \in [Conns -> BOOLEAN]
  BY DEF TypeInv, Abandon
<1>5. CASE ~Is(r, "gateway")
  <2>0. gone = {r}
    BY <1>5
  <2>1. queue' = queue /\ queue \in [Conns -> Seq(Slots)]
    BY <1>5 DEF Abandon, TypeInv
  <2>2. /\ pc' \in [Slots -> Steps] /\ pc'[r] = "done"
        /\ \A s \in Slots \ {r} : pc'[s] = pc[s]
    BY <1>1, <1>2, <2>0
  <2>3. ASSUME NEW c \in Conns, NEW i \in 1..Len(queue[c])
        PROVE  queue[c][i] \in Slots \ {r}
    BY <1>5, <2>1 DEF QueueInv, Is
  <2>4. ASSUME NEW c \in Conns, NEW i \in 1..Len(queue[c]) PROVE pc'[queue[c][i]] = pc[queue[c][i]]
    BY <2>2, <2>3
  <2>5. ASSUME NEW s \in Slots, pc'[s] \notin {"idle", "done", "queued"}, Is(s, "gateway")
        PROVE  queue[req[s].conn] # <<>> /\ Head(queue[req[s].conn]) = s
    <3>1. pc'[s] = pc[s]
      BY <2>2, <2>5
    <3>. QED
      BY <2>5, <3>1 DEF QueueInv
  <2>6. QueueInv'
    BY <2>1, <2>4, <2>5 DEF QueueInv, Is
  <2>. QED
    BY <1>3, <1>4, <2>1, <2>2, <2>6 DEF Ended
<1>6. CASE Is(r, "gateway")
  <2>. DEFINE q == queue[c0]
  <2>1. queue' = [queue EXCEPT ![c0] = <<>>] /\ queue \in [Conns -> Seq(Slots)]
    BY <1>6 DEF Abandon, TypeInv
  <2>2. q \in Seq(Slots) /\ q # <<>> /\ q[1] = r /\ 1 \in 1..Len(q) /\ Len(q) \in Nat
    BY <1>0, <1>6, <2>1 DEF InFront
  <2>3. gone = {q[i] : i \in 1..Len(q)}
    BY <1>6, <2>2 DEF ToSet
  <2>. HIDE DEF gone
  <2>4. /\ queue' \in [Conns -> Seq(Slots)] /\ queue'[c0] = <<>>
        /\ \A c \in Conns \ {c0} : queue'[c] = queue[c]
    BY <1>0, <2>1, EmptySeq
  <2>5. ASSUME NEW s \in gone PROVE req[s].conn = c0 /\ (s # r => pc[s] = "queued")
    <3>1. PICK i \in 1..Len(q) : s = q[i]
      BY <2>3
    <3>. QED
      BY <1>0, <2>2, <3>1 DEF QueueInv
  <2>6. pc' \in [Slots -> Steps] /\ \A s \in Slots : pc'[s] = IF s \in gone THEN "done" ELSE pc[s]
    BY <1>1, <1>2
  <2>7. pc'[r] = "done" /\ r \in gone
    BY <2>2, <2>3, <2>6
  <2>8. ASSUME NEW c \in Conns, NEW i \in 1..Len(queue'[c])
        PROVE  c # c0 /\ queue'[c] = queue[c] /\ pc'[queue[c][i]] = pc[queue[c][i]]
    <3>1. c # c0
      BY <2>4
    <3>2. queue'[c] = queue[c]
      BY <2>4, <3>1
    <3>3. queue[c][i] \in Slots /\ req[queue[c][i]].conn = c
      BY <2>1, <3>2 DEF QueueInv
    <3>4. queue[c][i] \notin gone
      BY <2>5, <3>1, <3>3
    <3>. QED
      BY <2>6, <3>1, <3>2, <3>3, <3>4
  <2>9. ASSUME NEW s \in Slots, pc'[s] \notin {"idle", "done", "queued"}, Is(s, "gateway")
        PROVE  queue'[req[s].conn] # <<>> /\ Head(queue'[req[s].conn]) = s
    <3>1. s \notin gone /\ pc'[s] = pc[s]
      BY <2>6, <2>9
    <3>2. queue[req[s].conn] # <<>> /\ Head(queue[req[s].conn]) = s
      BY <2>9, <3>1 DEF QueueInv
    <3>3. req[s].conn # c0
      BY <1>6, <2>7, <3>1, <3>2 DEF InFront
    <3>4. queue'[req[s].conn] = queue[req[s].conn]
      BY <2>1, <3>3
    <3>. QED
      BY <3>2, <3>4
  <2>10. QueueInv'
    BY <2>8, <2>9 DEF QueueInv, Is
  <2>11. \A s \in Slots \ {r} : pc'[s] = pc[s] \/ (pc'[s] = "done" /\ pc[s] = "queued")
    BY <2>5, <2>6
  <2>. QED
    BY <1>3, <1>4, <2>4, <2>6, <2>7, <2>10, <2>11 DEF Ended
<1>. QED
  BY <1>5, <1>6

(* An answer ends the request, written or not.                             *)
LEMMA AnswerEnds ==
  ASSUME TypeInv, QueueInv, NEW r \in Slots, req[r] \in Requests, req' = req,
         NEW m \in Seq(Words), pc[r] \notin {"idle", "done"}, InFront(r), Answer(r, m)
  PROVE  Ended(r, IF reset[r] THEN out[r] ELSE out[r] \o m)
  BY FinishEnds, AbandonEnds DEF Answer

(* A step of the handler leaves the queue as it is.                        *)
LEMMA StepQueue ==
  ASSUME TypeInv, QueueInv, NEW r \in Slots, req' = req, queue' = queue, NEW step \in Steps,
         step \notin {"idle", "done", "queued"}, pc' = [pc EXCEPT ![r] = step],
         pc[r] \notin {"idle", "done"}, InFront(r)
  PROVE  QueueInv'
<1>1. pc'[r] = step /\ \A s \in Slots \ {r} : pc'[s] = pc[s]
  BY DEF TypeInv
<1>2. queue \in [Conns -> Seq(Slots)]
  BY DEF TypeInv
<1>3. ASSUME NEW c \in Conns, NEW i \in 1..Len(queue[c])
      PROVE  /\ pc'[queue[c][i]] \notin {"idle", "done"}
             /\ i # 1 => pc'[queue[c][i]] = "queued"
  <2>1. queue[c][i] \in Slots
    BY <1>2
  <2>2. CASE queue[c][i] # r
    BY <1>1, <2>1, <2>2 DEF QueueInv
  <2>3. CASE queue[c][i] = r
    <3>1. Is(r, "gateway") /\ req[r].conn = c
      BY <2>3 DEF QueueInv
    <3>2. queue[c] \in Seq(Slots) /\ queue[c] # <<>> /\ queue[c][1] = r /\ 1 \in 1..Len(queue[c])
      BY <1>2, <3>1 DEF InFront
    <3>3. i = 1
      BY <2>3, <3>2 DEF QueueInv
    <3>. QED
      BY <1>1, <2>3, <3>3
  <2>. QED
    BY <2>2, <2>3
<1>4. ASSUME NEW s \in Slots, pc'[s] \notin {"idle", "done", "queued"}, Is(s, "gateway")
      PROVE  queue[req[s].conn] # <<>> /\ Head(queue[req[s].conn]) = s
  <2>1. CASE s = r
    BY <1>4, <2>1 DEF InFront
  <2>2. CASE s # r
    BY <1>1, <1>4, <2>2 DEF QueueInv
  <2>. QED
    BY <2>1, <2>2
<1>. QED
  BY <1>3, <1>4 DEF QueueInv, Is

(* A slot that is left alone, or abandoned while it waits, is well.        *)
LEMMA OtherSlot ==
  ASSUME NEW s \in Slots, SlotInv(s), req'[s] = req[s], reset'[s] = reset[s],
         taken'[s] = taken[s], held'[s] = held[s], ctx'[s] = ctx[s], ran'[s] = ran[s],
         out'[s] = out[s],
         pc'[s] = pc[s] \/ (pc'[s] = "done" /\ pc[s] = "queued")
  PROVE  SlotInv(s)'
<1>1. CASE pc'[s] = pc[s]
  <2>1. StageInv(s)'
    BY <1>1 DEF SlotInv, StageInv
  <2>2. VettedInv(s)'
    BY <1>1 DEF SlotInv, VettedInv, Is
  <2>3. BodyInv(s)'
    BY <1>1 DEF SlotInv, BodyInv, Is
  <2>4. RepliedInv(s)'
    BY <1>1 DEF SlotInv, RepliedInv
  <2>. QED
    BY <2>1, <2>2, <2>3, <2>4 DEF SlotInv
<1>2. CASE pc'[s] = "done" /\ pc[s] = "queued"
  <2>0. req[s] \in Requests /\ req[s].front = "gateway" /\ ran[s] = None /\ out[s] = <<>>
    BY <1>2 DEF SlotInv, StageInv, Fronts
  <2>1. StageInv(s)'
    BY <1>2, <2>0, InputsAssumption DEF SlotInv, StageInv, Fronts
  <2>2. VettedInv(s)'
    BY <1>2 DEF SlotInv, VettedInv, Is
  <2>3. BodyInv(s)'
    BY <1>2 DEF SlotInv, BodyInv, Is
  <2>4. RepliedInv(s)'
    BY <1>2, <2>0, NoHead DEF RepliedInv, Reply
  <2>. QED
    BY <2>1, <2>2, <2>3, <2>4 DEF SlotInv
<1>. QED
  BY <1>1, <1>2

(* Slot r alone may get another context or operation.                      *)
OnlySlot(r) ==
  /\ DOMAIN ctx' = Slots /\ DOMAIN ran' = Slots
  /\ \A s \in Slots \ {r} : ctx'[s] = ctx[s] /\ ran'[s] = ran[s]
  /\ req[r].front = "cdn" => ctx'[r] = ctx[r] \/ Verified(req[r], ctx'[r])

(* Operation v may run for the request in slot r now.                      *)
MayRun(r, v) ==
  /\ v = OpOf(req[r]) \/ v = "cached"
  /\ Cleared(req[r], v)
  /\ req[r].front = "cdn" => Verified(req[r], ctx[r])
  /\ v \in Mutating => taken[r] = Len(req[r].pieces)

(* A request that ends with a good answer, and with nothing run that may   *)
(* not, keeps the invariant.                                               *)
LEMMA EndedInv ==
  ASSUME Inv, NEW r \in Slots, pc[r] \notin {"idle", "done"}, NEW o, NEW v, Ended(r, o),
         UNCHANGED <<client, body>>, OnlySlot(r), ran'[r] = v, v = None \/ MayRun(r, v),
         Reply(req[r], v, reset[r], o)
  PROVE  Inv'
<1>0. /\ req' = req /\ reset' = reset /\ taken' = taken /\ held' = held
      /\ SlotInv(r) /\ pc'[r] = "done" /\ out'[r] = o
  BY DEF Inv, client, body, Ended
<1>1. TypeInv'
  BY <1>0 DEF Inv, TypeInv, Ended, OnlySlot
<1>2. SlotInv(r)'
  <2>1. StageInv(r)'
    BY <1>0, InputsAssumption DEF SlotInv, StageInv, Fronts, MayRun, Requests
  <2>2. VettedInv(r)'
    BY <1>0 DEF VettedInv, MayRun, Is, OnlySlot
  <2>3. BodyInv(r)'
    <3>1. v \in Mutating => taken[r] = Len(req[r].pieces)
      BY NoneAssumption DEF MayRun
    <3>. QED
      BY <1>0, <3>1 DEF SlotInv, BodyInv, Is
  <2>4. RepliedInv(r)'
    BY <1>0 DEF RepliedInv
  <2>. QED
    BY <2>1, <2>2, <2>3, <2>4 DEF SlotInv
<1>3. ASSUME NEW s \in Slots \ {r} PROVE SlotInv(s)'
  <2>1. SlotInv(s)
    BY DEF Inv
  <2>2. /\ out'[s] = out[s] /\ ctx'[s] = ctx[s] /\ ran'[s] = ran[s]
        /\ pc'[s] = pc[s] \/ (pc'[s] = "done" /\ pc[s] = "queued")
    BY DEF Ended, OnlySlot
  <2>. QED
    BY <1>0, <2>1, <2>2, OtherSlot
<1>4. QueueInv'
  BY DEF Ended
<1>. QED
  BY <1>1, <1>2, <1>3, <1>4 DEF Inv

(* A request in work that is past the queue has the connection to itself.  *)
LEMMA AtWork ==
  ASSUME Inv, NEW r \in Slots, pc[r] \notin {"idle", "done", "queued"}
  PROVE  InFront(r) /\ req[r] \in Requests /\ reset[r] \in BOOLEAN
  BY DEF Inv, QueueInv, InFront, SlotInv, StageInv, TypeInv

(* One answer, after an operation that may run or after none.              *)
LEMMA AnswerInv ==
  ASSUME Inv, NEW r \in Slots, pc[r] \notin {"idle", "done", "queued", "stream"},
         NEW m \in Messages, NEW v, Answer(r, m),
         UNCHANGED <<client, body>>, OnlySlot(r), ran'[r] = v, v = None \/ MayRun(r, v),
         m = <<"RES">> => req[r].front = "native" /\ v \in {"list", "head", "get"}
  PROVE  Inv'
<1>0. req' = req /\ TypeInv /\ QueueInv
  BY DEF client, Inv
<1>1. InFront(r) /\ req[r] \in Requests /\ reset[r] \in BOOLEAN
  BY AtWork
<1>2. out[r] = <<>> /\ (reset[r] => req[r].front \in {"native", "gateway"})
  BY DEF Inv, SlotInv, StageInv
<1>3. m \in Seq(Words)
  BY MessageShape
<1>4. Ended(r, IF reset[r] THEN <<>> ELSE <<>> \o m)
  BY <1>0, <1>1, <1>2, <1>3, AnswerEnds
<1>5. Reply(req[r], v, reset[r], IF reset[r] THEN <<>> ELSE <<>> \o m)
  BY <1>1, <1>2, ReplyFirst
<1>. QED
  BY <1>4, <1>5, EndedInv

(* The answers of the handlers are messages.                               *)
LEMMA AnswerMessages ==
  ASSUME NEW r \in Slots
  PROVE  /\ Success(r) \in Messages /\ Failed(r) \in Messages /\ Ok(r) \in Messages
         /\ Success(r) # <<"RES">> /\ Failed(r) # <<"RES">> /\ Ok(r) # <<"RES">>
  BY DEF Success, Failed, Ok, HeadOnly, Messages

(* A stream that is ended without an answer, before anything ran.          *)
LEMMA DropInv ==
  ASSUME Inv, NEW r \in Slots, pc[r] \notin {"idle", "done", "stream"}, InFront(r), Drop(r),
         UNCHANGED <<client, body>>, OnlySlot(r), ran'[r] = None,
         req[r].front \in {"native", "gateway"}
  PROVE  Inv'
<1>0. req' = req /\ TypeInv /\ QueueInv /\ req[r] \in Requests /\ out[r] = <<>>
  BY DEF client, Inv, SlotInv, StageInv
<1>1. <<>> \in Seq(Words) /\ <<>> \o <<>> = <<>>
  BY EmptySeq, ConcatEmptySeq
<1>2. Ended(r, out[r] \o <<>>)
  BY <1>0, <1>1, FinishEnds DEF Drop
<1>3. Reply(req[r], None, reset[r], <<>>)
  BY NoHead DEF Reply
<1>. QED
  BY <1>0, <1>1, <1>2, <1>3, EndedInv

(* A refusal.                                                              *)
LEMMA RefuseInv ==
  ASSUME Inv, NEW r \in Slots, pc[r] \notin {"idle", "done", "queued", "stream"},
         Answer(r, Failed(r)), UNCHANGED <<client, body>>, OnlySlot(r), ran'[r] = ran[r]
  PROVE  Inv'
<1>1. ran[r] = None
  BY DEF Inv, SlotInv, StageInv
<1>. QED
  BY <1>1, AnswerMessages, AnswerInv

(* An operation that may run, whatever comes of it.                        *)
LEMMA RunInv ==
  ASSUME Inv, NEW r \in Slots, pc[r] \notin {"idle", "done", "queued", "stream"}, NEW v,
         Run(r, v), UNCHANGED <<client, body, ctx>>, MayRun(r, v)
  PROVE  Inv'
<1>1. OnlySlot(r) /\ ran'[r] = v
  BY DEF Run, OnlySlot, Inv, TypeInv
<1>2. CASE Answer(r, Success(r)) \/ Answer(r, Failed(r))
  BY <1>1, <1>2, AnswerMessages, AnswerInv DEF client, body
<1>3. CASE Oversized(r, v) /\ Answer(r, <<"RES">>)
  <2>1. <<"RES">> \in Messages /\ req[r].front = "native" /\ v \in {"list", "head", "get"}
    BY <1>3 DEF Messages, Oversized, Is
  <2>. QED
    BY <1>1, <1>3, <2>1, AnswerInv DEF client, body
<1>. QED
  BY <1>2, <1>3 DEF Run

(* A handler that goes on to a step with what that step needs.             *)
LEMMA MovedInv ==
  ASSUME Inv, NEW r \in Slots, pc[r] \notin {"idle", "done", "stream"}, InFront(r),
         NEW step \in Steps, step \notin {"idle", "first", "queued", "stream", "done"},
         Goto(r, step), UNCHANGED <<client, body>>, OnlySlot(r), ran'[r] = ran[r],
         req[r].front \in Fronts(step),
         step \in {"body", "serve"} /\ Is(r, "native") /\ ctx'[r] # None => Verified(req[r], ctx'[r]),
         step \in {"body", "serve"} /\ Is(r, "gateway") => Verified(req[r], ctx'[r]),
         step = "dispatch" => Verified(req[r], ctx'[r]),
         step \in {"auth", "dispatch"} => taken[r] = Len(req[r].pieces),
         step = "serve" /\ (Is(r, "native") \/ OpOf(req[r]) \in WithBody) =>
           taken[r] = Len(req[r].pieces)
  PROVE  Inv'
<1>0. /\ req' = req /\ reset' = reset /\ taken' = taken /\ held' = held
      /\ out' = out /\ queue' = queue /\ closed' = closed
      /\ pc' = [pc EXCEPT ![r] = step]
      /\ SlotInv(r) /\ TypeInv /\ QueueInv
  BY DEF Inv, client, body, Goto, conns
<1>1. pc' \in [Slots -> Steps] /\ pc'[r] = step /\ \A s \in Slots \ {r} : pc'[s] = pc[s]
  BY <1>0 DEF TypeInv
<1>2. TypeInv'
  BY <1>0, <1>1 DEF TypeInv, OnlySlot
<1>3. ran[r] = None /\ out[r] = <<>> /\ req[r] \in Requests
  BY <1>0 DEF SlotInv, StageInv
<1>4. SlotInv(r)'
  <2>1. StageInv(r)'
    BY <1>0, <1>1, <1>3 DEF SlotInv, StageInv
  <2>2. VettedInv(r)'
    BY <1>0, <1>1, <1>3 DEF VettedInv, Is
  <2>3. BodyInv(r)'
    <3>1. ran'[r] \notin Mutating
      BY <1>3, NoneAssumption
    <3>. QED
      BY <1>0, <1>1, <3>1 DEF SlotInv, BodyInv, Is
  <2>4. RepliedInv(r)'
    BY <1>1 DEF RepliedInv
  <2>. QED
    BY <2>1, <2>2, <2>3, <2>4 DEF SlotInv
<1>5. ASSUME NEW s \in Slots \ {r} PROVE SlotInv(s)'
  <2>1. SlotInv(s)
    BY DEF Inv
  <2>2. ctx'[s] = ctx[s] /\ ran'[s] = ran[s]
    BY DEF OnlySlot
  <2>. QED
    BY <1>0, <1>1, <2>1, <2>2, OtherSlot
<1>6. QueueInv'
  BY <1>0, StepQueue
<1>. QED
  BY <1>2, <1>4, <1>5, <1>6 DEF Inv

(* hspd: the frames before the body.                                       *)
LEMMA NativeFirstInv ==
  ASSUME Inv, NEW r \in Slots, NativeFirst(r)
  PROVE  Inv'
<1>0. /\ pc[r] = "first" /\ UNCHANGED <<client, body, ran>> /\ InFront(r)
      /\ req[r] \in Requests /\ req[r].front = "native" /\ ctx[r] = None
      /\ TypeInv /\ Is(r, "native") /\ ~Is(r, "gateway")
  BY AtWork DEF NativeFirst, Inv, SlotInv, StageInv, VettedInv, Fronts, Is
<1>1. CASE Answer(r, Failed(r)) /\ UNCHANGED ctx
  <2>1. OnlySlot(r) /\ ran'[r] = ran[r]
    BY <1>0, <1>1 DEF OnlySlot, TypeInv
  <2>. QED
    BY <1>0, <1>1, <2>1, RefuseInv DEF client, body
<1>2. CASE reset[r] /\ Abandon(r) /\ UNCHANGED ctx
  BY <1>1, <1>2 DEF Answer
<1>3. CASE Goto(r, "body") /\ UNCHANGED ctx
  <2>1. OnlySlot(r) /\ ran'[r] = ran[r] /\ ctx'[r] = None
    BY <1>0, <1>3 DEF OnlySlot, TypeInv
  <2>2. "body" \in Steps /\ req[r].front \in Fronts("body")
    BY <1>0 DEF Steps, Fronts
  <2>. QED
    BY <1>0, <1>3, <2>1, <2>2, MovedInv DEF client, body
<1>4. CASE NativeVerify(r)
  <2>1. CASE VerifyAuth(req[r].cred, req[r].conn)
    <3>1. ctx' = [ctx EXCEPT ![r] = TokenContext(req[r].cred)]
      BY <1>4, <2>1 DEF NativeVerify
    <3>2. OnlySlot(r) /\ ran'[r] = ran[r] /\ ctx'[r] = TokenContext(req[r].cred)
      BY <1>0, <3>1 DEF OnlySlot, TypeInv
    <3>3. Verified(req[r], TokenContext(req[r].cred))
      BY <1>0, <2>1, ChannelVerified
    <3>4. CASE Goto(r, "body")
      <4>1. "body" \in Steps /\ req[r].front \in Fronts("body")
        BY <1>0 DEF Steps, Fronts
      <4>. QED
        BY <1>0, <3>2, <3>3, <3>4, <4>1, MovedInv DEF client, body
    <3>5. CASE Answer(r, Failed(r))
      BY <1>0, <3>2, <3>5, RefuseInv DEF client, body
    <3>. QED
      BY <1>4, <2>1, <3>4, <3>5 DEF NativeVerify
  <2>2. CASE ~VerifyAuth(req[r].cred, req[r].conn)
    <3>1. Drop(r) /\ UNCHANGED ctx
      BY <1>4, <2>2 DEF NativeVerify
    <3>2. OnlySlot(r) /\ ran'[r] = None
      BY <1>0, <3>1 DEF OnlySlot, TypeInv, Inv, SlotInv, StageInv
    <3>. QED
      BY <1>0, <3>1, <3>2, DropInv DEF client, body
  <2>. QED
    BY <2>1, <2>2
<1>. QED
  BY <1>1, <1>2, <1>3, <1>4 DEF NativeFirst

(* What happens to a body that is refused or breaks off.                   *)
LEMMA BodyErrorInv ==
  ASSUME Inv, NEW r \in Slots, pc[r] = "body", BodyError(r),
         UNCHANGED <<client, body, ctx, ran>>
  PROVE  Inv'
<1>0. InFront(r) /\ TypeInv
  BY AtWork DEF Inv
<1>1. OnlySlot(r) /\ ran'[r] = ran[r] /\ ran[r] = None
  BY <1>0 DEF OnlySlot, TypeInv, Inv, SlotInv, StageInv
<1>2. CASE Is(r, "native")
  BY <1>0, <1>1, <1>2, DropInv DEF BodyError, Is, client, body
<1>3. CASE ~Is(r, "native")
  BY <1>1, <1>3, RefuseInv DEF BodyError, client, body
<1>. QED
  BY <1>2, <1>3

(* A piece is held, or the body is refused.                                *)
LEMMA ReadPieceInv ==
  ASSUME Inv, NEW r \in Slots, ReadPiece(r)
  PROVE  Inv'
<1>. DEFINE p == req[r].pieces
            k == taken[r]
            piece == p[k + 1]
<1>0. /\ pc[r] = "body" /\ UNCHANGED <<client, ctx, ran>> /\ k < Len(p)
      /\ TypeInv /\ QueueInv /\ SlotInv(r) /\ req[r] \in Requests
  BY DEF ReadPiece, Inv, SlotInv, StageInv
<1>1. CASE BodyError(r) /\ UNCHANGED body
  BY <1>0, <1>1, BodyErrorInv DEF client, body
<1>2. CASE Fits(r, piece) /\ Hold(r, piece)
  <2>1. /\ k \in Nat /\ held[r] \in Nat /\ p \in Seq(Nat \cup {Odd}) /\ k + 1 \in 1..Len(p)
        /\ Len(p) \in Nat
    BY <1>0, InputsAssumption DEF TypeInv, Requests
  <2>2. piece \in Nat /\ held[r] + piece <= BodyLimit(req[r])
    BY <1>2, <2>1 DEF Fits, Readable
  <2>3. /\ held' = [held EXCEPT ![r] = held[r] + piece]
        /\ taken' = [taken EXCEPT ![r] = k + 1]
        /\ UNCHANGED <<pc, out, conns>>
    BY <1>2 DEF Hold
  <2>4. /\ taken' \in [Slots -> Nat] /\ held' \in [Slots -> Nat]
        /\ taken'[r] = k + 1 /\ held'[r] = held[r] + piece
        /\ \A s \in Slots \ {r} : taken'[s] = taken[s] /\ held'[s] = held[s]
    BY <1>0, <2>1, <2>2, <2>3 DEF TypeInv
  <2>5. TypeInv'
    BY <1>0, <2>3, <2>4 DEF TypeInv, client, conns
  <2>6. QueueInv'
    BY <1>0, <2>3 DEF QueueInv, client, conns, Is
  <2>7. /\ held[r] = Sum(p, k) /\ Sum(p, k + 1) = Sum(p, (k + 1) - 1) + p[k + 1]
        /\ (k + 1) - 1 = k
    BY <1>0, <2>1, SumPrefix DEF SlotInv, BodyInv
  <2>8. ran[r] = None
    BY <1>0 DEF SlotInv, StageInv
  <2>9. SlotInv(r)'
    <3>1. StageInv(r)'
      BY <1>0, <2>3 DEF SlotInv, StageInv, client
    <3>2. VettedInv(r)'
      BY <1>0, <2>3 DEF SlotInv, VettedInv, client, Is
    <3>3. BodyInv(r)'
      <4>1. pc'[r] = "body" /\ req'[r] = req[r] /\ ran'[r] \notin Mutating
        BY <1>0, <2>3, <2>8, NoneAssumption DEF client
      <4>2. taken'[r] <= Len(p) /\ held'[r] = Sum(p, taken'[r]) /\ held'[r] <= BodyLimit(req[r])
        BY <2>1, <2>2, <2>4, <2>7
      <4>. QED
        BY <4>1, <4>2 DEF BodyInv
    <3>4. RepliedInv(r)'
      BY <1>0, <2>3 DEF RepliedInv
    <3>. QED
      BY <3>1, <3>2, <3>3, <3>4 DEF SlotInv
  <2>10. ASSUME NEW s \in Slots \ {r} PROVE SlotInv(s)'
    <3>1. SlotInv(s)
      BY DEF Inv
    <3>. QED
      BY <1>0, <2>3, <2>4, <3>1, OtherSlot DEF client
  <2>. QED
    BY <2>5, <2>6, <2>9, <2>10 DEF Inv
<1>. QED
  BY <1>1, <1>2 DEF ReadPiece

(* The body breaks off.                                                    *)
LEMMA BodyBrokenInv ==
  ASSUME Inv, NEW r \in Slots, BodyBroken(r)
  PROVE  Inv'
  BY BodyErrorInv DEF BodyBroken, client, body

(* The whole body was read.                                                *)
LEMMA EndOfBodyInv ==
  ASSUME Inv, NEW r \in Slots, EndOfBody(r)
  PROVE  Inv'
<1>. DEFINE step == IF req[r].front \in {"native", "gateway"} THEN "serve" ELSE "auth"
<1>0. /\ pc[r] = "body" /\ UNCHANGED <<client, body, ctx, ran>> /\ InFront(r)
      /\ taken[r] = Len(req[r].pieces) /\ Goto(r, step) /\ TypeInv
      /\ req[r].front \in {"native", "gateway", "s3", "cdn"} /\ VettedInv(r)
  BY AtWork, InputsAssumption DEF EndOfBody, Inv, Requests, SlotInv
<1>1. OnlySlot(r) /\ ran'[r] = ran[r] /\ ctx'[r] = ctx[r]
  BY <1>0 DEF OnlySlot, TypeInv
<1>2. step \in {"serve", "auth"} /\ step \in Steps /\ req[r].front \in Fronts(step)
  BY <1>0 DEF Steps, Fronts
<1>3. /\ Is(r, "native") /\ ctx[r] # None => Verified(req[r], ctx[r])
      /\ Is(r, "gateway") => Verified(req[r], ctx[r])
  BY <1>0 DEF VettedInv
<1>. HIDE DEF step
<1>. QED
  BY <1>0, <1>1, <1>2, <1>3, MovedInv DEF client, body

(* hsp-gw: the next request of a connection.                               *)
LEMMA GatewayAcceptInv ==
  ASSUME Inv, NEW r \in Slots, GatewayAccept(r)
  PROVE  Inv'
<1>0. /\ pc[r] = "queued" /\ UNCHANGED <<client, body, ctx, ran>> /\ TypeInv
      /\ req[r].front = "gateway" /\ ran[r] = None /\ req[r] \in Requests
      /\ queue[req[r].conn] # <<>> /\ Head(queue[req[r].conn]) = r
  BY DEF GatewayAccept, Inv, SlotInv, StageInv, Fronts
<1>1. OnlySlot(r) /\ ran'[r] = None
  BY <1>0 DEF OnlySlot, TypeInv
<1>2. InFront(r)
  BY <1>0 DEF InFront
<1>3. CASE Drop(r)
  BY <1>0, <1>1, <1>2, <1>3, DropInv DEF client, body
<1>4. CASE Goto(r, "route")
  <2>1. "route" \in Steps /\ req[r].front \in Fronts("route")
    BY <1>0 DEF Steps, Fronts
  <2>. QED
    BY <1>0, <1>1, <1>2, <1>4, <2>1, MovedInv DEF client, body
<1>. QED
  BY <1>3, <1>4 DEF GatewayAccept

(* hsp-gw: the route, and the credential of what needs one.                *)
LEMMA GatewayRouteInv ==
  ASSUME Inv, NEW r \in Slots, GatewayRoute(r)
  PROVE  Inv'
<1>. DEFINE op == OpOf(req[r])
<1>0. /\ pc[r] = "route" /\ UNCHANGED <<client, body>> /\ TypeInv /\ InFront(r)
      /\ req[r].front = "gateway" /\ req[r] \in Requests
      /\ Is(r, "gateway") /\ ~Is(r, "native")
  BY AtWork DEF GatewayRoute, Inv, SlotInv, StageInv, Fronts, Is
<1>1. CASE Refuse(r) /\ UNCHANGED ctx
  <2>1. OnlySlot(r) /\ ran'[r] = ran[r]
    BY <1>0, <1>1 DEF OnlySlot, TypeInv, Refuse
  <2>. QED
    BY <1>0, <1>1, <2>1, RefuseInv DEF Refuse, client, body
<1>2. CASE /\ op \in {"bootstrap", "info"} /\ Answer(r, Success(r))
           /\ ran' = [ran EXCEPT ![r] = op] /\ UNCHANGED ctx
  <2>1. OnlySlot(r) /\ ran'[r] = op
    BY <1>0, <1>2 DEF OnlySlot, TypeInv
  <2>2. MayRun(r, op)
    BY <1>0, <1>2 DEF MayRun, Cleared, Mutating, Uploads, BucketMutations, ObjectMutations
  <2>. QED
    BY <1>0, <1>2, <2>1, <2>2, AnswerMessages, AnswerInv DEF client, body
<1>3. CASE VerifyGatewayAuth(r)
  <2>1. CASE req[r].split /\ VerifyAuth(req[r].cred, req[r].conn)
    <3>. DEFINE step == IF op \in WithBody THEN "body" ELSE "serve"
    <3>1. /\ ctx' = [ctx EXCEPT ![r] = TokenContext(req[r].cred)]
          /\ Goto(r, step) /\ UNCHANGED ran
      BY <1>3, <2>1 DEF VerifyGatewayAuth
    <3>2. OnlySlot(r) /\ ran'[r] = ran[r] /\ ctx'[r] = TokenContext(req[r].cred)
      BY <1>0, <3>1 DEF OnlySlot, TypeInv
    <3>3. Verified(req[r], TokenContext(req[r].cred))
      BY <1>0, <2>1, ChannelVerified
    <3>4. /\ step \in {"body", "serve"} /\ step \in Steps /\ req[r].front \in Fronts(step)
          /\ step = "serve" => OpOf(req[r]) \notin WithBody
      BY <1>0 DEF Steps, Fronts
    <3>. HIDE DEF step
    <3>. QED
      BY <1>0, <3>1, <3>2, <3>3, <3>4, MovedInv DEF client, body
  <2>2. CASE ~(req[r].split /\ VerifyAuth(req[r].cred, req[r].conn))
    BY <1>1, <1>3, <2>2 DEF VerifyGatewayAuth
  <2>. QED
    BY <2>1, <2>2
<1>. QED
  BY <1>1, <1>2, <1>3 DEF GatewayRoute

(* hspd and hsp-gw: what the policy lets through may run.                  *)
LEMMA AuthorizedMayRun ==
  ASSUME Inv, NEW r \in Slots, pc[r] = "serve", Verified(req[r], ctx[r]),
         Authorize(ctx[r], OpOf(req[r]), req[r])
  PROVE  MayRun(r, OpOf(req[r]))
<1>. DEFINE op == OpOf(req[r])
<1>0. req[r].front \in {"native", "gateway"}
  BY DEF Inv, SlotInv, StageInv, Fronts
<1>1. /\ Within(ctx[r], req[r].ns, req[r].path) /\ ctx[r].tenant = req[r].tenant
      /\ op \in Mutating => op \in WithBody
      /\ op \notin {"metrics", "logs", "cached"}
  BY AuthorizeWithin
<1>2. Target(req[r]) = req[r]
  BY <1>0 DEF Target
<1>3. Confined(req[r])
  BY <1>1, <1>2, WithinConfined
<1>4. op \in Mutating => taken[r] = Len(req[r].pieces)
  BY <1>1 DEF Inv, SlotInv, BodyInv
<1>5. Entitled(req[r], op)
  BY <1>1, AuthorizeScopes DEF Verified, Entitled
<1>. QED
  BY <1>0, <1>1, <1>3, <1>4, <1>5 DEF MayRun, Cleared, Verified

(* The two pages a scope of their own protects.                            *)
LEMMA PageMayRun ==
  ASSUME NEW r \in Slots, Verified(req[r], ctx[r]),
         \/ OpOf(req[r]) = "metrics" /\ "admin_metrics_read" \in ctx[r].ops
         \/ OpOf(req[r]) = "logs" /\ "admin_audit_read" \in ctx[r].ops
  PROVE  MayRun(r, OpOf(req[r]))
<1>1. OpOf(req[r]) \in {"metrics", "logs"}
  OBVIOUS
<1>2. /\ OpOf(req[r]) \notin Mutating /\ OpOf(req[r]) \notin Uploads
      /\ OpOf(req[r]) \notin {"head", "get", "resolve", "list", "subscribe", "cached"}
  BY <1>1 DEF Mutating, Uploads, BucketMutations, ObjectMutations
<1>3. Entitled(req[r], OpOf(req[r]))
  BY <1>2 DEF Verified, Entitled
<1>. QED
  BY <1>1, <1>2, <1>3 DEF MayRun, Cleared, Verified

(* hspd and hsp-gw: the operation.                                         *)
LEMMA DispatchInv ==
  ASSUME Inv, NEW r \in Slots, pc[r] = "serve", UNCHANGED <<client, body, ctx>>,
         OpOf(req[r]) # "info" => Verified(req[r], ctx[r]), Dispatch(r, OpOf(req[r]))
  PROVE  Inv'
<1>. DEFINE op == OpOf(req[r])
<1>0. /\ TypeInv /\ InFront(r) /\ req[r] \in Requests /\ SlotInv(r) /\ QueueInv
      /\ req[r].front \in {"native", "gateway"} /\ ran[r] = None /\ out[r] = <<>>
  BY AtWork DEF Inv, SlotInv, StageInv, Fronts
<1>1. CASE Refuse(r)
  <2>1. OnlySlot(r) /\ ran'[r] = ran[r]
    BY <1>0, <1>1 DEF OnlySlot, TypeInv, Refuse
  <2>. QED
    BY <1>1, <2>1, RefuseInv DEF Refuse, client, body
<1>2. CASE op = "info" /\ Answer(r, Success(r)) /\ ran' = [ran EXCEPT ![r] = op]
  <2>1. OnlySlot(r) /\ ran'[r] = op
    BY <1>0, <1>2 DEF OnlySlot, TypeInv
  <2>2. MayRun(r, op)
    BY <1>0, <1>2 DEF MayRun, Cleared, Mutating, Uploads, BucketMutations, ObjectMutations
  <2>. QED
    BY <1>2, <2>1, <2>2, AnswerMessages, AnswerInv DEF client, body
<1>3. CASE /\ \/ op = "metrics" /\ "admin_metrics_read" \in ctx[r].ops
              \/ op = "logs" /\ "admin_audit_read" \in ctx[r].ops
           /\ Run(r, op)
  BY <1>3, PageMayRun, RunInv
<1>4. CASE op # "info" /\ Authorize(ctx[r], op, req[r]) /\ Run(r, op)
  BY <1>4, AuthorizedMayRun, RunInv
<1>5. CASE op = "subscribe" /\ Authorize(ctx[r], op, req[r]) /\ Subscribe(r)
  <2>1. OnlySlot(r) /\ ran'[r] = op /\ MayRun(r, op)
    BY <1>0, <1>5, AuthorizedMayRun DEF OnlySlot, TypeInv, Subscribe
  <2>2. CASE Answer(r, Failed(r))
    BY <2>1, <2>2, AnswerMessages, AnswerInv DEF client, body
  <2>3. CASE /\ ~reset[r] /\ out' = [out EXCEPT ![r] = <<Head(Ok(r))>>]
             /\ pc' = [pc EXCEPT ![r] = "stream"] /\ UNCHANGED conns
    <3>1. Head(Ok(r)) \in Words
      BY DEF Ok, Words
    <3>2. <<Head(Ok(r))>> \in Seq(Words) /\ <<Head(Ok(r))>> # <<>>
      BY <3>1
    <3>3. /\ out' \in [Slots -> Seq(Words)] /\ out'[r] # <<>>
          /\ pc' \in [Slots -> Steps] /\ pc'[r] = "stream" /\ "stream" \in Steps
          /\ \A s \in Slots \ {r} : out'[s] = out[s] /\ pc'[s] = pc[s]
      BY <1>0, <2>3, <3>2 DEF TypeInv, Steps
    <3>4. /\ req' = req /\ reset' = reset /\ taken' = taken /\ held' = held
          /\ queue' = queue /\ closed' = closed /\ ctx' = ctx
      BY <2>3 DEF client, body, conns
    <3>5. TypeInv'
      BY <1>0, <2>1, <3>3, <3>4 DEF TypeInv, OnlySlot
    <3>6. QueueInv'
      BY <1>0, <2>3, <3>3, <3>4, StepQueue
    <3>7. SlotInv(r)'
      <4>1. StageInv(r)'
        BY <1>0, <1>5, <2>1, <3>3, <3>4 DEF SlotInv, StageInv, Fronts
      <4>2. VettedInv(r)'
        BY <1>0, <2>1, <3>3, <3>4 DEF VettedInv, MayRun, Is
      <4>3. BodyInv(r)'
        BY <1>0, <2>1, <3>3, <3>4 DEF SlotInv, BodyInv, MayRun
      <4>4. RepliedInv(r)'
        BY <3>3 DEF RepliedInv
      <4>. QED
        BY <4>1, <4>2, <4>3, <4>4 DEF SlotInv
    <3>8. ASSUME NEW s \in Slots \ {r} PROVE SlotInv(s)'
      <4>1. SlotInv(s) /\ ran'[s] = ran[s]
        BY <2>1 DEF Inv, OnlySlot
      <4>. QED
        BY <3>3, <3>4, <4>1, OtherSlot
    <3>. QED
      BY <3>5, <3>6, <3>7, <3>8 DEF Inv
  <2>. QED
    BY <1>5, <2>2, <2>3 DEF Subscribe
<1>. QED
  BY <1>1, <1>2, <1>3, <1>4, <1>5 DEF Dispatch, RequireScope

(* hspd: a request that needs a context has one.                           *)
LEMMA NativeServeInv ==
  ASSUME Inv, NEW r \in Slots, NativeServe(r)
  PROVE  Inv'
<1>0. /\ pc[r] = "serve" /\ UNCHANGED <<client, body, ctx>> /\ TypeInv /\ InFront(r)
      /\ req[r].front = "native" /\ ran[r] = None /\ OpOf(req[r]) = req[r].op
  BY AtWork DEF NativeServe, Inv, SlotInv, StageInv, Is, OpOf
<1>1. CASE Drop(r) /\ UNCHANGED ran
  <2>1. OnlySlot(r) /\ ran'[r] = None
    BY <1>0, <1>1 DEF OnlySlot, TypeInv
  <2>. QED
    BY <1>0, <1>1, <2>1, DropInv DEF client, body
<1>2. CASE (RequiredAuth(r) \/ req[r].op = "info") /\ Dispatch(r, req[r].op)
  <2>1. OpOf(req[r]) # "info" => Verified(req[r], ctx[r])
    BY <1>0, <1>2 DEF RequiredAuth, Inv, SlotInv, VettedInv, Is
  <2>. QED
    BY <1>0, <1>2, <2>1, DispatchInv
<1>. QED
  BY <1>1, <1>2 DEF NativeServe

(* hsp-gw: the same.                                                       *)
LEMMA GatewayServeInv ==
  ASSUME Inv, NEW r \in Slots, GatewayServe(r)
  PROVE  Inv'
<1>0. /\ pc[r] = "serve" /\ UNCHANGED <<client, body, ctx>> /\ TypeInv
      /\ Verified(req[r], ctx[r])
  BY DEF GatewayServe, Inv, SlotInv, VettedInv
<1>1. CASE Refuse(r)
  <2>1. OnlySlot(r) /\ ran'[r] = ran[r]
    BY <1>0, <1>1 DEF OnlySlot, TypeInv, Refuse
  <2>. QED
    BY <1>0, <1>1, <2>1, RefuseInv DEF Refuse, client, body
<1>2. CASE Dispatch(r, OpOf(req[r]))
  BY <1>0, <1>2, DispatchInv
<1>. QED
  BY <1>1, <1>2 DEF GatewayServe

(* A subscription ends with an answer appended to what it has sent.        *)
LEMMA StreamEndsInv ==
  ASSUME Inv, NEW r \in Slots, pc[r] = "stream", NEW m \in Seq(Words), m # <<>>,
         Last(m) \in {"END", "ERROR", "end"}, Answer(r, m),
         UNCHANGED <<client, body, ctx, ran>>
  PROVE  Inv'
<1>0. /\ TypeInv /\ QueueInv /\ InFront(r) /\ req[r] \in Requests /\ reset[r] \in BOOLEAN
      /\ req' = req /\ ran[r] = "subscribe" /\ out[r] # <<>> /\ out[r] \in Seq(Words)
      /\ VettedInv(r) /\ BodyInv(r) /\ StageInv(r)
  BY AtWork DEF Inv, SlotInv, StageInv, client, TypeInv
<1>1. OnlySlot(r) /\ ran'[r] = "subscribe"
  BY <1>0 DEF OnlySlot, TypeInv
<1>2. Ended(r, IF reset[r] THEN out[r] ELSE out[r] \o m)
  BY <1>0, AnswerEnds
<1>3. Reply(req[r], "subscribe", reset[r], IF reset[r] THEN out[r] ELSE out[r] \o m)
  BY <1>0, ReplyLast
<1>4. "subscribe" = None \/ MayRun(r, "subscribe")
  BY <1>0 DEF MayRun, StageInv, VettedInv, BodyInv, Is
<1>. QED
  BY <1>1, <1>2, <1>3, <1>4, EndedInv DEF client, body

(* One round of a subscription.                                            *)
LEMMA PollInv ==
  ASSUME Inv, NEW r \in Slots, Poll(r)
  PROVE  Inv'
<1>0. /\ pc[r] = "stream" /\ UNCHANGED <<client, body, ctx, ran>> /\ TypeInv /\ QueueInv
      /\ SlotInv(r) /\ InFront(r)
  BY AtWork DEF Poll, Inv
<1>1. /\ Failed(r) \in Seq(Words) /\ Failed(r) # <<>> /\ Last(Failed(r)) \in {"END", "ERROR", "end"}
  BY AnswerMessages, MessageShape
<1>2. /\ StreamEnd(r) \in Seq(Words) /\ StreamEnd(r) # <<>>
      /\ Last(StreamEnd(r)) \in {"END", "ERROR", "end"}
  <2>1. CASE Is(r, "native")
    BY <2>1 DEF StreamEnd, Words, Last
  <2>2. CASE ~Is(r, "native")
    BY <2>2 DEF StreamEnd, Words, Last
  <2>. QED
    BY <2>1, <2>2
<1>3. CASE Answer(r, Failed(r))
  BY <1>0, <1>1, <1>3, StreamEndsInv DEF client, body
<1>4. CASE reset[r] /\ Abandon(r)
  BY <1>3, <1>4 DEF Answer
<1>5. CASE Answer(r, StreamEnd(r))
  BY <1>0, <1>2, <1>5, StreamEndsInv DEF client, body
<1>6. CASE /\ \/ out' = out
              \/ \E w \in Words : out' = [out EXCEPT ![r] = Append(@, w)]
           /\ UNCHANGED <<pc, conns>>
  <2>1. /\ req' = req /\ reset' = reset /\ taken' = taken /\ held' = held /\ pc' = pc
        /\ queue' = queue /\ closed' = closed /\ ctx' = ctx /\ ran' = ran
    BY <1>0, <1>6 DEF client, body, conns
  <2>2. /\ out' \in [Slots -> Seq(Words)] /\ out'[r] # <<>>
        /\ \A s \in Slots \ {r} : out'[s] = out[s]
    <3>1. out \in [Slots -> Seq(Words)] /\ out[r] # <<>>
      BY <1>0 DEF TypeInv, SlotInv, StageInv
    <3>2. \A w \in Words : Append(out[r], w) \in Seq(Words) /\ Append(out[r], w) # <<>>
      BY <3>1
    <3>. QED
      BY <1>6, <3>1, <3>2
  <2>3. TypeInv'
    BY <1>0, <2>1, <2>2 DEF TypeInv
  <2>4. QueueInv'
    BY <1>0, <2>1 DEF QueueInv, Is
  <2>5. SlotInv(r)'
    <3>1. StageInv(r)'
      BY <1>0, <2>1, <2>2 DEF SlotInv, StageInv
    <3>2. VettedInv(r)'
      BY <1>0, <2>1 DEF SlotInv, VettedInv, Is
    <3>3. BodyInv(r)'
      BY <1>0, <2>1 DEF SlotInv, BodyInv, Is
    <3>4. RepliedInv(r)'
      BY <1>0, <2>1 DEF RepliedInv
    <3>. QED
      BY <3>1, <3>2, <3>3, <3>4 DEF SlotInv
  <2>6. ASSUME NEW s \in Slots \ {r} PROVE SlotInv(s)'
    <3>1. SlotInv(s)
      BY DEF Inv
    <3>. QED
      BY <2>1, <2>2, <3>1, OtherSlot
  <2>. QED
    BY <2>3, <2>4, <2>5, <2>6 DEF Inv
<1>7. CASE PollEvent(r)
  <2>1. EventWord(r) \in Words
    BY DEF EventWord, Words
  <2>2. out' = out \/ \E w \in Words : out' = [out EXCEPT ![r] = Append(@, w)]
    BY <1>7, <2>1 DEF PollEvent
  <2>. QED
    BY <1>6, <1>7, <2>2 DEF PollEvent
<1>8. CASE PollIdle(r)
  BY <1>5, <1>6, <1>8 DEF PollIdle
<1>. QED
  BY <1>3, <1>4, <1>7, <1>8 DEF Poll

(* A credential was refused, or its context is kept.                       *)
LEMMA AuthenticatedInv ==
  ASSUME Inv, NEW r \in Slots, pc[r] = "auth", NEW c, Authenticated(r, c),
         UNCHANGED <<client, body>>, c # None => Verified(req[r], c)
  PROVE  Inv'
<1>0. /\ TypeInv /\ InFront(r) /\ req[r].front \in {"s3", "cdn"}
      /\ taken[r] = Len(req[r].pieces)
  BY AtWork DEF Inv, SlotInv, StageInv, BodyInv, Fronts
<1>1. CASE c = None
  <2>1. Refuse(r) /\ UNCHANGED ctx
    BY <1>1 DEF Authenticated
  <2>2. OnlySlot(r) /\ ran'[r] = ran[r]
    BY <1>0, <2>1 DEF OnlySlot, TypeInv, Refuse
  <2>. QED
    BY <2>1, <2>2, RefuseInv DEF Refuse, client, body
<1>2. CASE c # None
  <2>1. ctx' = [ctx EXCEPT ![r] = c] /\ Goto(r, "dispatch") /\ UNCHANGED ran
    BY <1>2 DEF Authenticated
  <2>2. OnlySlot(r) /\ ran'[r] = ran[r] /\ ctx'[r] = c
    BY <1>0, <1>2, <2>1 DEF OnlySlot, TypeInv
  <2>3. "dispatch" \in Steps /\ req[r].front \in Fronts("dispatch")
    BY <1>0 DEF Steps, Fronts
  <2>. QED
    BY <1>0, <1>2, <2>1, <2>2, <2>3, MovedInv DEF client, body
<1>. QED
  BY <1>1, <1>2

(* hsp-s3: the credential.                                                 *)
LEMMA S3HandleInv ==
  ASSUME Inv, NEW r \in Slots, S3Handle(r)
  PROVE  Inv'
<1>1. pc[r] = "auth" /\ req[r].front = "s3" /\ UNCHANGED <<client, body>>
  BY DEF S3Handle, Is
<1>2. PICK audited \in BOOLEAN :
        Authenticated(r, AuthenticateS3(req[r].cred, req[r].method, audited))
  BY DEF S3Handle
<1>. QED
  BY <1>1, <1>2, S3Verified, AuthenticatedInv

(* hsp-cdn: the method, and the credential.                                *)
LEMMA CdnHandleInv ==
  ASSUME Inv, NEW r \in Slots, CdnHandle(r)
  PROVE  Inv'
<1>1. pc[r] = "auth" /\ req[r].front = "cdn" /\ UNCHANGED <<client, body>>
  BY DEF CdnHandle, Is
<1>2. PICK audited \in BOOLEAN :
        Authenticated(r, AuthenticateCdn(req[r].cred, req[r].method, audited))
  BY DEF CdnHandle
<1>. QED
  BY <1>1, <1>2, CdnVerified, AuthenticatedInv

(* hsp-s3 and hsp-cdn: what the distribution layer permits may run.        *)
LEMMA PermittedMayRun ==
  ASSUME Inv, NEW r \in Slots, pc[r] = "dispatch", NEW acl,
         Permits(ctx[r], OpOf(req[r]), Target(req[r]), acl)
  PROVE  MayRun(r, OpOf(req[r]))
<1>1. /\ Verified(req[r], ctx[r]) /\ taken[r] = Len(req[r].pieces)
      /\ req[r].front \in {"s3", "cdn"}
  BY DEF Inv, SlotInv, StageInv, VettedInv, BodyInv, Fronts
<1>2. Within(ctx[r], Target(req[r]).ns, Target(req[r]).path)
  BY PermitsWithin
<1>3. Confined(req[r])
  BY <1>1, <1>2, WithinConfined
<1>4. OpOf(req[r]) \notin {"metrics", "logs", "cached"} /\ Entitled(req[r], OpOf(req[r]))
  BY <1>1, PermitsScopes DEF Verified, Entitled
<1>. QED
  BY <1>1, <1>3, <1>4 DEF MayRun, Cleared, Verified

(* The two pages a scope of their own protects.                            *)
LEMMA RequireScopeInv ==
  ASSUME Inv, NEW r \in Slots, pc[r] = "dispatch", UNCHANGED <<client, body, ctx>>,
         NEW scope, RequireScope(r, scope),
         \/ OpOf(req[r]) = "metrics" /\ scope = "admin_metrics_read"
         \/ OpOf(req[r]) = "logs" /\ scope = "admin_audit_read"
  PROVE  Inv'
<1>1. CASE Refuse(r)
  <2>1. OnlySlot(r) /\ ran'[r] = ran[r]
    BY <1>1 DEF OnlySlot, Inv, TypeInv, Refuse
  <2>. QED
    BY <1>1, <2>1, RefuseInv DEF Refuse, client, body
<1>2. CASE scope \in ctx[r].ops /\ Run(r, OpOf(req[r]))
  <2>0. Verified(req[r], ctx[r])
    BY DEF Inv, SlotInv, VettedInv
  <2>1. MayRun(r, OpOf(req[r]))
    BY <1>2, <2>0, PageMayRun
  <2>. QED
    BY <1>2, <2>1, RunInv
<1>. QED
  BY <1>1, <1>2 DEF RequireScope

(* hsp-s3: the operation.                                                  *)
LEMMA S3DispatchInv ==
  ASSUME Inv, NEW r \in Slots, S3Dispatch(r)
  PROVE  Inv'
<1>. DEFINE op == OpOf(req[r])
<1>0. /\ pc[r] = "dispatch" /\ UNCHANGED <<client, body, ctx>> /\ TypeInv
      /\ Target(req[r]) = S3Target(req[r]) /\ ran[r] = None
  BY DEF S3Dispatch, Is, Target, Inv, SlotInv, StageInv
<1>1. CASE Refuse(r)
  <2>1. OnlySlot(r) /\ ran'[r] = ran[r]
    BY <1>0, <1>1 DEF OnlySlot, TypeInv, Refuse
  <2>. QED
    BY <1>0, <1>1, <2>1, RefuseInv DEF Refuse, client, body
<1>2. CASE \/ op = "metrics" /\ RequireScope(r, "admin_metrics_read")
           \/ op = "logs" /\ RequireScope(r, "admin_audit_read")
  BY <1>0, <1>2, RequireScopeInv
<1>3. CASE op = "delete_objects" /\ DeleteObjects(r)
  <2>1. CASE Permits(ctx[r], "delete_objects", S3Target(req[r]), FALSE)
    <3>1. ran' = [ran EXCEPT ![r] = "delete_objects"] /\ Answer(r, Ok(r))
      BY <1>3, <2>1 DEF DeleteObjects
    <3>2. OnlySlot(r) /\ ran'[r] = op
      BY <1>0, <1>3, <3>1 DEF OnlySlot, TypeInv
    <3>3. MayRun(r, op)
      BY <1>0, <1>3, <2>1, PermittedMayRun
    <3>. QED
      BY <1>0, <3>1, <3>2, <3>3, AnswerMessages, AnswerInv DEF client, body
  <2>2. CASE ~Permits(ctx[r], "delete_objects", S3Target(req[r]), FALSE)
    <3>1. ran' = ran /\ Answer(r, Ok(r))
      BY <1>3, <2>2 DEF DeleteObjects
    <3>2. OnlySlot(r) /\ ran'[r] = None
      BY <1>0, <3>1 DEF OnlySlot, TypeInv
    <3>. QED
      BY <1>0, <3>1, <3>2, AnswerMessages, AnswerInv DEF client, body
  <2>. QED
    BY <2>1, <2>2
<1>4. CASE \E acl \in BOOLEAN :
             IF S3Decodes(req[r], op) /\ Permits(ctx[r], op, S3Target(req[r]), acl)
             THEN Run(r, op) ELSE Refuse(r)
  <2>1. PICK acl \in BOOLEAN :
          IF S3Decodes(req[r], op) /\ Permits(ctx[r], op, S3Target(req[r]), acl)
          THEN Run(r, op) ELSE Refuse(r)
    BY <1>4
  <2>2. CASE Permits(ctx[r], op, S3Target(req[r]), acl) /\ Run(r, op)
    <3>1. MayRun(r, op)
      BY <1>0, <2>2, PermittedMayRun
    <3>. QED
      BY <1>0, <2>2, <3>1, RunInv
  <2>. QED
    BY <1>1, <2>1, <2>2
<1>. QED
  BY <1>1, <1>2, <1>3, <1>4 DEF S3Dispatch

(* hsp-cdn: nothing but GET and HEAD goes on.                              *)
LEMMA CdnBeginInv ==
  ASSUME Inv, NEW r \in Slots, CdnBegin(r)
  PROVE  Inv'
<1>0. /\ pc[r] = "begin" /\ UNCHANGED <<client, body, ctx, ran>> /\ TypeInv /\ InFront(r)
      /\ req[r].front = "cdn" /\ ~Is(r, "native") /\ ~Is(r, "gateway")
  BY AtWork DEF CdnBegin, Inv, SlotInv, StageInv, Fronts, Is
<1>1. OnlySlot(r) /\ ran'[r] = ran[r]
  BY <1>0 DEF OnlySlot, TypeInv
<1>2. CASE Answer(r, Failed(r))
  BY <1>0, <1>1, <1>2, RefuseInv DEF client, body
<1>3. CASE Goto(r, "body")
  <2>1. "body" \in Steps /\ req[r].front \in Fronts("body")
    BY <1>0 DEF Steps, Fronts
  <2>. QED
    BY <1>0, <1>1, <1>3, <2>1, MovedInv DEF client, body
<1>. QED
  BY <1>2, <1>3 DEF CdnBegin

(* hsp-cdn: the operation.                                                 *)
LEMMA CdnDispatchInv ==
  ASSUME Inv, NEW r \in Slots, CdnDispatch(r)
  PROVE  Inv'
<1>. DEFINE op == OpOf(req[r])
<1>0. /\ pc[r] = "dispatch" /\ UNCHANGED <<client, body, ctx>> /\ TypeInv
      /\ Target(req[r]) = CdnTarget(req[r]) /\ ran[r] = None
  BY DEF CdnDispatch, Is, Target, Inv, SlotInv, StageInv
<1>1. CASE Refuse(r)
  <2>1. OnlySlot(r) /\ ran'[r] = ran[r]
    BY <1>0, <1>1 DEF OnlySlot, TypeInv, Refuse
  <2>. QED
    BY <1>0, <1>1, <2>1, RefuseInv DEF Refuse, client, body
<1>2. CASE \/ op = "metrics" /\ RequireScope(r, "admin_metrics_read")
           \/ op = "logs" /\ RequireScope(r, "admin_audit_read")
  BY <1>0, <1>2, RequireScopeInv
<1>3. CASE EdgeScope(req[r]) /\ CacheHit(r)
  <2>1. OnlySlot(r) /\ ran'[r] = "cached" /\ Answer(r, Success(r))
    BY <1>0, <1>3 DEF OnlySlot, TypeInv, CacheHit
  <2>2. Verified(req[r], ctx[r])
    BY <1>0 DEF Inv, SlotInv, VettedInv
  <2>3. "cached" \notin Mutating /\ "cached" \notin Uploads
    BY DEF Mutating, Uploads, BucketMutations, ObjectMutations
  <2>4. Cleared(req[r], "cached")
    BY <1>3, <2>2, <2>3 DEF Cleared, Verified, Entitled, EdgeScope, CacheHit, MayHit
  <2>5. MayRun(r, "cached")
    BY <2>2, <2>3, <2>4 DEF MayRun
  <2>. QED
    BY <1>0, <2>1, <2>5, AnswerMessages, AnswerInv DEF client, body
<1>4. CASE \E acl \in BOOLEAN :
             IF Permits(ctx[r], op, CdnTarget(req[r]), acl) THEN Run(r, op) ELSE Refuse(r)
  <2>1. PICK acl \in BOOLEAN :
          IF Permits(ctx[r], op, CdnTarget(req[r]), acl) THEN Run(r, op) ELSE Refuse(r)
    BY <1>4
  <2>2. CASE Permits(ctx[r], op, CdnTarget(req[r]), acl) /\ Run(r, op)
    <3>1. MayRun(r, op)
      BY <1>0, <2>2, PermittedMayRun
    <3>. QED
      BY <1>0, <2>2, <3>1, RunInv
  <2>. QED
    BY <1>1, <2>1, <2>2
<1>. QED
  BY <1>1, <1>2, <1>3, <1>4 DEF CdnDispatch

(* A client opens a request in a free slot.                                *)
LEMMA OpenInv ==
  ASSUME Inv, NEW r \in Slots, NEW q \in Requests, Open(r, q)
  PROVE  Inv'
<1>. DEFINE step == FirstStep(q.front)
<1>0. /\ pc[r] = "idle" /\ req' = [req EXCEPT ![r] = q] /\ pc' = [pc EXCEPT ![r] = step]
      /\ UNCHANGED <<arrived, reset, body, ctx, ran, out, rounds, closed>>
      /\ TypeInv /\ QueueInv /\ SlotInv(r)
  BY DEF Open, Inv
<1>1. /\ q.front \in {"native", "gateway", "s3", "cdn"} /\ q.conn \in Conns
      /\ q.pieces \in Seq(Nat \cup {Odd}) /\ Len(q.pieces) \in Nat
      /\ ChunkLimit \in Nat /\ JsonLimit \in Nat /\ S3Limit \in Nat
  BY InputsAssumption DEF Requests
<1>2. /\ step \in Steps /\ q.front \in Fronts(step)
      /\ step \in {"first", "queued", "body", "begin"}
      /\ step = "first" <=> q.front = "native"
      /\ step = "queued" <=> q.front = "gateway"
  BY <1>1 DEF FirstStep, Steps, Fronts
<1>. HIDE DEF step
<1>3. /\ DOMAIN req' = Slots /\ req'[r] = q /\ pc' \in [Slots -> Steps] /\ pc'[r] = step
      /\ \A s \in Slots \ {r} : req'[s] = req[s] /\ pc'[s] = pc[s]
      /\ reset' = reset /\ taken' = taken /\ held' = held /\ ctx' = ctx /\ ran' = ran /\ out' = out
      /\ closed' = closed
  BY <1>0, <1>2 DEF TypeInv, body
<1>4. ASSUME NEW c \in Conns, NEW i \in 1..Len(queue[c])
      PROVE  queue[c][i] \in Slots \ {r} /\ queue[c][i] # r
  BY <1>0, SMTT(60) DEF QueueInv, TypeInv
<1>5. queue' \in [Conns -> Seq(Slots)]
  BY <1>0, <1>1 DEF Open, TypeInv
<1>6. TypeInv'
  BY <1>0, <1>3, <1>5 DEF TypeInv
<1>7. SlotInv(r)'
  <2>1. StageInv(r)'
    BY <1>0, <1>2, <1>3 DEF SlotInv, StageInv
  <2>2. VettedInv(r)'
    <3>1. ctx[r] = None /\ ran[r] = None
      BY <1>0 DEF SlotInv, VettedInv, StageInv
    <3>. QED
      BY <1>1, <1>2, <1>3, <3>1 DEF VettedInv, Is
  <2>3. BodyInv(r)'
    <3>1. taken[r] = 0 /\ held[r] = 0 /\ ran[r] \notin Mutating
      BY <1>0, NoneAssumption DEF SlotInv, BodyInv, StageInv
    <3>2. Sum(q.pieces, 0) = 0
      BY <1>1, SumPrefix
    <3>3. BodyLimit(q) \in Nat
      BY <1>1 DEF BodyLimit, NativeBodyLimit
    <3>. QED
      BY <1>1, <1>2, <1>3, <3>1, <3>2, <3>3 DEF BodyInv, Is
  <2>4. RepliedInv(r)'
    BY <1>2, <1>3 DEF RepliedInv
  <2>. QED
    BY <2>1, <2>2, <2>3, <2>4 DEF SlotInv
<1>8. ASSUME NEW s \in Slots \ {r} PROVE SlotInv(s)'
  <2>1. SlotInv(s)
    BY DEF Inv
  <2>. QED
    BY <1>3, <2>1, OtherSlot
<1>9. QueueInv'
  <2>1. ASSUME NEW s \in Slots, pc'[s] \notin {"idle", "done", "queued"}, req'[s].front = "gateway"
        PROVE  queue'[req'[s].conn] # <<>> /\ Head(queue'[req'[s].conn]) = s
    <3>1. s # r
      BY <1>2, <1>3, <2>1
    <3>2. queue[req[s].conn] # <<>> /\ Head(queue[req[s].conn]) = s /\ req'[s] = req[s]
      BY <1>0, <1>3, <2>1, <3>1 DEF QueueInv, Is
    <3>3. CASE q.front # "gateway" \/ req[s].conn # q.conn
      <4>1. queue'[req[s].conn] = queue[req[s].conn]
        BY <1>0, <3>3 DEF Open, TypeInv
      <4>. QED
        BY <3>2, <4>1
    <3>4. CASE q.front = "gateway" /\ req[s].conn = q.conn
      <4>1. queue[q.conn] \in Seq(Slots) /\ queue'[q.conn] = Append(queue[q.conn], r)
        BY <1>0, <1>1, <3>4 DEF Open, TypeInv
      <4>2. Append(queue[q.conn], r) # <<>> /\ Head(Append(queue[q.conn], r)) = Head(queue[q.conn])
        BY <3>2, <3>4, <4>1
      <4>. QED
        BY <3>2, <3>4, <4>1, <4>2
    <3>. QED
      BY <3>3, <3>4
  <2>2. ASSUME NEW c \in Conns, NEW i \in 1..Len(queue'[c])
        PROVE  /\ pc'[queue'[c][i]] \notin {"idle", "done"}
               /\ req'[queue'[c][i]].conn = c /\ req'[queue'[c][i]].front = "gateway"
               /\ i # 1 => pc'[queue'[c][i]] = "queued"
               /\ \A j \in 1..Len(queue'[c]) : queue'[c][i] = queue'[c][j] => i = j
    <3>1. CASE q.front # "gateway" \/ c # q.conn
      <4>1. queue'[c] = queue[c]
        BY <1>0, <3>1 DEF Open, TypeInv
      <4>2. pc'[queue[c][i]] = pc[queue[c][i]] /\ req'[queue[c][i]] = req[queue[c][i]]
        BY <1>3, <1>4, <4>1
      <4>. QED
        BY <1>0, <4>1, <4>2 DEF QueueInv, Is
    <3>2. CASE q.front = "gateway" /\ c = q.conn
      <4>. DEFINE n == Len(queue[c])
      <4>1. queue[c] \in Seq(Slots) /\ queue'[c] = Append(queue[c], r) /\ n \in Nat
        BY <1>0, <1>1, <3>2 DEF Open, TypeInv
      <4>2. /\ Len(queue'[c]) = n + 1 /\ queue'[c][n + 1] = r
            /\ \A j \in 1..n : queue'[c][j] = queue[c][j]
        BY <4>1
      <4>3. \A j \in 1..Len(queue'[c]) : j \in 1..n \/ j = n + 1
        BY <4>1, <4>2
      <4>4. ASSUME NEW j \in 1..n
            PROVE  /\ queue'[c][j] # r
                   /\ pc'[queue'[c][j]] = pc[queue[c][j]] /\ req'[queue'[c][j]] = req[queue[c][j]]
        BY <1>3, <1>4, <4>2
      <4>5. CASE i \in 1..n
        <5>1. \A j \in 1..Len(queue'[c]) : queue'[c][i] = queue'[c][j] => i = j
          BY <1>0, <4>2, <4>3, <4>4, <4>5 DEF QueueInv
        <5>. QED
          BY <1>0, <4>4, <4>5, <5>1, SMTT(60) DEF QueueInv, Is
      <4>6. CASE i = n + 1
        <5>1. \A j \in 1..Len(queue'[c]) : queue'[c][i] = queue'[c][j] => i = j
          BY <4>2, <4>3, <4>4, <4>6
        <5>2. pc'[r] = "queued" /\ req'[r] = q
          BY <1>2, <1>3, <3>2
        <5>. QED
          BY <3>2, <4>2, <4>6, <5>1, <5>2
      <4>. QED
        BY <4>3, <4>5, <4>6
    <3>. QED
      BY <3>1, <3>2
  <2>. QED
    BY <2>1, <2>2 DEF QueueInv, Is
<1>. QED
  BY <1>6, <1>7, <1>8, <1>9 DEF Inv

(* A client sends a piece of its body.                                     *)
LEMMA SendInv ==
  ASSUME Inv, NEW r \in Slots, Send(r)
  PROVE  Inv'
<1>0. UNCHANGED <<req, reset, pc, taken, held, ctx, ran, out, queue, closed>>
  BY DEF Send, body, conns
<1>1. ASSUME NEW s \in Slots PROVE SlotInv(s)'
  <2>1. SlotInv(s)
    BY DEF Inv
  <2>. QED
    BY <1>0, <2>1, OtherSlot
<1>2. TypeInv' /\ QueueInv'
  BY <1>0 DEF Inv, TypeInv, QueueInv, Is
<1>. QED
  BY <1>1, <1>2 DEF Inv

(* A client gives up its stream.                                           *)
LEMMA ResetInv ==
  ASSUME Inv, NEW r \in Slots, Reset(r)
  PROVE  Inv'
<1>0. /\ UNCHANGED <<req, pc, taken, held, ctx, ran, out, queue, closed>>
      /\ reset' = [reset EXCEPT ![r] = TRUE] /\ pc[r] \notin {"idle", "done"}
      /\ req[r].front \in {"native", "gateway"}
      /\ TypeInv /\ QueueInv /\ SlotInv(r)
  BY DEF Reset, Active, body, conns, Is, Inv
<1>1. reset' \in [Slots -> BOOLEAN] /\ reset'[r] = TRUE /\ \A s \in Slots \ {r} : reset'[s] = reset[s]
  BY <1>0 DEF TypeInv
<1>2. TypeInv' /\ QueueInv'
  BY <1>0, <1>1 DEF TypeInv, QueueInv, Is
<1>3. SlotInv(r)'
  <2>1. StageInv(r)'
    BY <1>0 DEF SlotInv, StageInv
  <2>2. VettedInv(r)'
    BY <1>0 DEF SlotInv, VettedInv, Is
  <2>3. BodyInv(r)'
    BY <1>0 DEF SlotInv, BodyInv, Is
  <2>4. RepliedInv(r)'
    BY <1>0 DEF RepliedInv
  <2>. QED
    BY <2>1, <2>2, <2>3, <2>4 DEF SlotInv
<1>4. ASSUME NEW s \in Slots \ {r} PROVE SlotInv(s)'
  <2>1. SlotInv(s)
    BY DEF Inv
  <2>. QED
    BY <1>0, <1>1, <2>1, OtherSlot
<1>. QED
  BY <1>2, <1>3, <1>4 DEF Inv

(* Every step keeps the invariant.                                         *)
LEMMA NextInv ==
  ASSUME Inv, Next
  PROVE  Inv'
<1>1. ASSUME NEW r \in Slots, NEW q \in Inputs \cup GatewayInputs \cup EdgeInputs, Open(r, q) PROVE Inv'
  BY <1>1, OpenInv DEF Requests
<1>2. ASSUME NEW r \in Slots, Server(r) PROVE Inv'
  BY <1>2, NativeFirstInv, NativeServeInv, ReadPieceInv, BodyBrokenInv, EndOfBodyInv,
     GatewayAcceptInv, GatewayRouteInv, GatewayServeInv, PollInv, S3HandleInv, S3DispatchInv,
     CdnBeginInv, CdnHandleInv, CdnDispatchInv DEF Server
<1>. QED
  BY <1>1, <1>2, SendInv, ResetInv DEF Next

(* The initial state has it: no request is in work.                        *)
LEMMA InitInv ==
  ASSUME Init
  PROVE  Inv
<1>1. TypeInv
  BY EmptySeq DEF Init, TypeInv, Steps
<1>2. QueueInv
  <2>1. ASSUME NEW c \in Conns PROVE queue[c] = <<>> /\ 1..Len(queue[c]) = {}
    BY DEF Init
  <2>2. \A r \in Slots : pc[r] = "idle"
    BY DEF Init
  <2>. QED
    BY <2>1, <2>2 DEF QueueInv
<1>3. ASSUME NEW r \in Slots PROVE SlotInv(r)
  <2>1. /\ pc[r] = "idle" /\ ran[r] = None /\ out[r] = <<>> /\ ctx[r] = None
        /\ reset[r] = FALSE /\ taken[r] = 0 /\ held[r] = 0
    BY DEF Init
  <2>. QED
    BY <2>1, NoneAssumption DEF SlotInv, StageInv, VettedInv, BodyInv, RepliedInv
<1>. QED
  BY <1>1, <1>2, <1>3 DEF Inv

(* A stutter keeps it.                                                     *)
LEMMA StutterInv ==
  ASSUME Inv, UNCHANGED vars
  PROVE  Inv'
<1>0. UNCHANGED <<req, reset, pc, taken, held, ctx, ran, out, queue, closed>>
  BY DEF vars, client, body, conns
<1>1. ASSUME NEW s \in Slots PROVE SlotInv(s)'
  <2>1. SlotInv(s)
    BY DEF Inv
  <2>. QED
    BY <1>0, <2>1, OtherSlot
<1>2. TypeInv' /\ QueueInv'
  BY <1>0 DEF Inv, TypeInv, QueueInv, Is
<1>. QED
  BY <1>1, <1>2 DEF Inv

(* The invariant holds of every behaviour: types, the step of each front   *)
(* end, the origin of each context, the bytes of each body, the answer of  *)
(* each finished request and the queue of each gateway connection.         *)
THEOREM Invariant == Spec => []Inv
<1>1. Init => Inv
  BY InitInv
<1>2. Inv /\ [Next]_vars => Inv'
  BY NextInv, StutterInv
<1>. QED
  BY <1>1, <1>2, PTL DEF Spec

-----------------------------------------------------------------------------
(* The cache of the CDN.                                                   *)

(* Slot s has fetched the content of q's CID for q's tenant.               *)
Source(s, q) ==
  /\ ran[s] = "get_object" /\ req[s].path = q.path
  /\ Genuine(req[s]) /\ Bound(req[s]).tenant = Bound(q).tenant

(* What is answered from the cache has a source.                           *)
CachedInv ==
  \A r \in Slots : ran[r] # None /\ ran[r] = "cached" => \E s \in Slots : Source(s, req[r])

(* Slot r alone runs something, and what it runs is not the cache's answer *)
(* unless that was a hit.                                                  *)
Runs(r) ==
  /\ req' = req /\ pc[r] # "done"
  /\ \/ ran' = ran
     \/ \E v : ran' = [ran EXCEPT ![r] = v] /\ (v = "cached" => pc[r] = "dispatch" /\ CacheHit(r))

(* An operation is let through.                                            *)
LEMMA OneRuns ==
  ASSUME NEW r \in Slots, req' = req, pc[r] # "done", NEW v, v # "cached",
         ran' = [ran EXCEPT ![r] = v]
  PROVE  Runs(r)
  BY DEF Runs

(* Run and RequireScope run the operation they are given.                  *)
LEMMA RunRuns ==
  ASSUME NEW r \in Slots, req' = req, pc[r] # "done", NEW op, op # "cached",
         Run(r, op) \/ Refuse(r)
  PROVE  Runs(r)
  BY DEF Run, Refuse, Runs

(* hspd and hsp-gw never answer from a cache.                              *)
LEMMA DispatchRuns ==
  ASSUME NEW r \in Slots, req' = req, pc[r] # "done", NEW op, op = OpOf(req[r]), Dispatch(r, op)
  PROVE  Runs(r)
<1>1. CASE Refuse(r)
  BY <1>1 DEF Refuse, Runs
<1>2. CASE op = "info" /\ ran' = [ran EXCEPT ![r] = op]
  BY <1>2 DEF Runs
<1>3. CASE op \in {"metrics", "logs"} /\ Run(r, op)
  BY <1>3, RunRuns
<1>4. CASE Authorize(ctx[r], op, req[r]) /\ Subscribe(r)
  <2>1. ran' = [ran EXCEPT ![r] = "subscribe"] /\ "subscribe" # "cached"
    BY <1>4 DEF Subscribe
  <2>. QED
    BY <2>1, OneRuns
<1>5. CASE Authorize(ctx[r], op, req[r]) /\ Run(r, op)
  BY <1>5, AuthorizeWithin, RunRuns
<1>. QED
  BY <1>1, <1>2, <1>3, <1>4, <1>5 DEF Dispatch, RequireScope

(* Nor does hsp-s3.                                                        *)
LEMMA S3Runs ==
  ASSUME NEW r \in Slots, S3Dispatch(r)
  PROVE  Runs(r)
<1>. DEFINE op == OpOf(req[r])
<1>0. pc[r] # "done" /\ req' = req
  BY DEF S3Dispatch, client
<1>1. CASE Refuse(r)
  BY <1>0, <1>1 DEF Refuse, Runs
<1>2. CASE op \in {"metrics", "logs"} /\ Run(r, op)
  BY <1>0, <1>2, RunRuns
<1>3. CASE DeleteObjects(r)
  <2>1. ran' = ran \/ ran' = [ran EXCEPT ![r] = "delete_objects"]
    BY <1>3 DEF DeleteObjects
  <2>2. "delete_objects" # "cached"
    OBVIOUS
  <2>3. CASE ran' = ran
    BY <1>0, <2>3 DEF Runs
  <2>. QED
    BY <1>0, <2>1, <2>2, <2>3, OneRuns
<1>4. CASE (\E acl \in BOOLEAN : Permits(ctx[r], op, S3Target(req[r]), acl)) /\ Run(r, op)
  BY <1>0, <1>4, PermitsScopes, RunRuns
<1>. QED
  BY <1>1, <1>2, <1>3, <1>4 DEF S3Dispatch, RequireScope

(* hsp-cdn does so on a hit.                                               *)
LEMMA CdnRuns ==
  ASSUME NEW r \in Slots, CdnDispatch(r)
  PROVE  Runs(r)
<1>. DEFINE op == OpOf(req[r])
<1>0. pc[r] = "dispatch" /\ req' = req
  BY DEF CdnDispatch, client
<1>1. CASE Refuse(r)
  BY <1>0, <1>1 DEF Refuse, Runs
<1>2. CASE op \in {"metrics", "logs"} /\ Run(r, op)
  BY <1>0, <1>2, RunRuns
<1>3. CASE CacheHit(r)
  BY <1>0, <1>3 DEF CacheHit, Runs
<1>4. CASE (\E acl \in BOOLEAN : Permits(ctx[r], op, CdnTarget(req[r]), acl)) /\ Run(r, op)
  BY <1>0, <1>4, PermitsScopes, RunRuns
<1>. QED
  BY <1>1, <1>2, <1>3, <1>4 DEF CdnDispatch, RequireScope

(* Every step of a server.                                                 *)
LEMMA ServerRuns ==
  ASSUME NEW r \in Slots, Server(r)
  PROVE  Runs(r)
<1>1. CASE NativeFirst(r) \/ ReadPiece(r) \/ BodyBroken(r) \/ EndOfBody(r) \/ GatewayAccept(r)
           \/ Poll(r) \/ CdnBegin(r)
  BY <1>1 DEF Runs, NativeFirst, ReadPiece, BodyBroken, EndOfBody, GatewayAccept, Poll, CdnBegin,
     client
<1>2. CASE S3Handle(r) \/ CdnHandle(r)
  BY <1>2 DEF Runs, S3Handle, CdnHandle, Authenticated, Refuse, client
<1>3. CASE GatewayRoute(r)
  <2>1. pc[r] # "done" /\ req' = req
    BY <1>3 DEF GatewayRoute, client
  <2>2. CASE UNCHANGED ran
    BY <2>1, <2>2 DEF Runs
  <2>3. CASE OpOf(req[r]) \in {"bootstrap", "info"} /\ ran' = [ran EXCEPT ![r] = OpOf(req[r])]
    BY <2>1, <2>3 DEF Runs
  <2>. QED
    BY <1>3, <2>2, <2>3 DEF GatewayRoute, VerifyGatewayAuth, Refuse
<1>4. CASE NativeServe(r)
  <2>1. pc[r] # "done" /\ req' = req /\ OpOf(req[r]) = req[r].op
    BY <1>4 DEF NativeServe, client, OpOf, Is
  <2>2. CASE UNCHANGED ran
    BY <2>1, <2>2 DEF Runs
  <2>. QED
    BY <1>4, <2>1, <2>2, DispatchRuns DEF NativeServe
<1>5. CASE GatewayServe(r)
  <2>1. pc[r] # "done" /\ req' = req
    BY <1>5 DEF GatewayServe, client
  <2>2. CASE UNCHANGED ran
    BY <2>1, <2>2 DEF Runs
  <2>. QED
    BY <1>5, <2>1, <2>2, DispatchRuns DEF GatewayServe, Refuse
<1>. QED
  BY <1>1, <1>2, <1>3, <1>4, <1>5, S3Runs, CdnRuns DEF Server

(* Something in the cache was fetched for a credential of its tenant.      *)
LEMMA HitSource ==
  ASSUME Inv, NEW r \in Slots, pc[r] = "dispatch", CacheHit(r)
  PROVE  \E s \in Slots : Source(s, req[r])
<1>1. PICK s \in Slots : Stored(s, ctx[r].tenant, req[r].path)
  BY DEF CacheHit
<1>2. ran[s] = "get_object" /\ ran[s] # None /\ Is(s, "cdn") /\ req[s].path = req[r].path
  BY <1>1, NoneAssumption DEF Stored
<1>3. Verified(req[s], ctx[s]) /\ Verified(req[r], ctx[r])
  BY <1>2 DEF Inv, SlotInv, VettedInv
<1>. QED
  BY <1>1, <1>2, <1>3 DEF Stored, Source, Verified

(* A source stays one.                                                     *)
LEMMA SourceKept ==
  ASSUME Inv, Next, NEW s \in Slots, ran[s] = "get_object"
  PROVE  req'[s] = req[s] /\ ran'[s] = ran[s]
<1>1. pc[s] = "done"
  <2>1. ran[s] # None /\ ran[s] # "subscribe"
    BY NoneAssumption
  <2>. QED
    BY <2>1 DEF Inv, SlotInv, StageInv
<1>2. req'[s] = req[s] /\ ran'[s] = ran[s]
  <2>0. DOMAIN req = Slots /\ DOMAIN ran = Slots
    BY DEF Inv, TypeInv
  <2>1. ASSUME NEW r \in Slots, NEW x, Open(r, x) PROVE req'[s] = req[s] /\ ran'[s] = ran[s]
    BY <1>1, <2>0, <2>1 DEF Open
  <2>2. ASSUME NEW r \in Slots, Send(r) \/ Reset(r) PROVE req'[s] = req[s] /\ ran'[s] = ran[s]
    BY <2>2 DEF Send, Reset
  <2>3. ASSUME NEW r \in Slots, Server(r) PROVE req'[s] = req[s] /\ ran'[s] = ran[s]
    <3>1. Runs(r)
      BY <2>3, ServerRuns
    <3>. QED
      BY <1>1, <2>0, <3>1 DEF Runs
  <2>. QED
    BY <2>1, <2>2, <2>3 DEF Next
<1>. QED
  BY <1>2

(* Every step keeps the sources.                                           *)
LEMMA CachedNext ==
  ASSUME Inv, CachedInv, Next
  PROVE  CachedInv'
<1>0. DOMAIN req = Slots /\ DOMAIN ran = Slots
  BY DEF Inv, TypeInv
<1>1. ASSUME NEW r \in Slots, ran'[r] # None, ran'[r] = "cached"
      PROVE  (\E s \in Slots : Source(s, req[r])) /\ req'[r] = req[r]
  <2>1. CASE ran[r] = ran'[r]
    <3>1. \E s \in Slots : Source(s, req[r])
      BY <1>1, <2>1 DEF CachedInv
    <3>2. pc[r] = "done"
      BY <1>1, <2>1 DEF Inv, SlotInv, StageInv
    <3>3. ASSUME NEW t \in Slots, NEW x, Open(t, x) PROVE req'[r] = req[r]
      BY <1>0, <3>2, <3>3 DEF Open
    <3>4. ASSUME NEW t \in Slots, Send(t) \/ Reset(t) PROVE req'[r] = req[r]
      BY <3>4 DEF Send, Reset
    <3>5. ASSUME NEW t \in Slots, Server(t) PROVE req'[r] = req[r]
      BY <3>5, ServerRuns DEF Runs
    <3>6. req'[r] = req[r]
      BY <3>3, <3>4, <3>5 DEF Next
    <3>. QED
      BY <3>1, <3>6
  <2>2. CASE ran[r] # ran'[r]
    <3>1. PICK t \in Slots : Server(t)
      BY <2>2 DEF Next, Open, Send, Reset
    <3>2. Runs(t)
      BY <3>1, ServerRuns
    <3>3. t = r /\ pc[r] = "dispatch" /\ CacheHit(r) /\ req'[r] = req[r]
      BY <1>0, <1>1, <2>2, <3>2 DEF Runs
    <3>. QED
      BY <3>3, HitSource
  <2>. QED
    BY <2>1, <2>2
<1>2. ASSUME NEW r \in Slots, ran'[r] # None, ran'[r] = "cached"
      PROVE  (\E s \in Slots : Source(s, req[r]))'
  <2>1. PICK s \in Slots : Source(s, req[r])
    BY <1>1, <1>2
  <2>2. req'[s] = req[s] /\ ran'[s] = ran[s] /\ req'[r] = req[r]
    BY <1>1, <1>2, <2>1, SourceKept DEF Source
  <2>3. Source(s, req[r])'
    BY <2>1, <2>2 DEF Source
  <2>. QED
    BY <2>3, Zenon
<1>. QED
  BY <1>2, Zenon DEF CachedInv

-----------------------------------------------------------------------------
(* No operation but INFO and the bootstrap document reaches a service      *)
(* without a genuine credential of its own request or connection, one with *)
(* a scope for the operation, and it stays within that credential's tenant *)
(* and names; content from the CDN's cache goes to a genuine credential of *)
(* the tenant it was fetched for: for any requests, issuers, access keys,  *)
(* connections and orders of frames (handle_request_stream,                *)
(* verify_gateway_auth, authenticate_request, serve_cached_object).        *)
THEOREM OnlyAuthorizedHolds == Spec => []OnlyAuthorized
<1>1. Init => CachedInv
  BY DEF Init, CachedInv
<1>2. Inv /\ CachedInv /\ [Next]_vars => CachedInv'
  <2>1. Inv /\ CachedInv /\ Next => CachedInv'
    BY CachedNext
  <2>2. ASSUME CachedInv, UNCHANGED vars PROVE CachedInv'
    BY <2>2 DEF CachedInv, Source, vars, client
  <2>. QED
    BY <2>1, <2>2
<1>3. Inv /\ CachedInv => OnlyAuthorized
  BY DEF Inv, SlotInv, VettedInv, Cleared, CachedInv, Source, OnlyAuthorized, FetchedFor
<1>. QED
  BY <1>1, <1>2, <1>3, Invariant, PTL DEF Spec

(* No server holds more of a body than the operation's limit, and what     *)
(* writes runs on the whole body or not at all: for any pieces and limits  *)
(* (read_body, read_http_body, to_bytes).                                  *)
THEOREM BodyWholeHolds == Spec => []BodyWhole
<1>1. ASSUME Inv PROVE BodyWhole
  <2>1. ASSUME NEW r \in Slots, pc[r] # "idle"
        PROVE  /\ held[r] <= BodyLimit(req[r])
               /\ ran[r] \in Mutating =>
                    held[r] = FoldLeft(LAMBDA a, b : a + b, 0, req[r].pieces)
    <3>1. /\ req[r] \in Requests /\ held[r] = Sum(req[r].pieces, taken[r])
          /\ held[r] <= BodyLimit(req[r])
          /\ ran[r] \in Mutating => taken[r] = Len(req[r].pieces)
      BY <1>1, <2>1 DEF Inv, SlotInv, StageInv, BodyInv
    <3>2. req[r].pieces \in Seq(Nat \cup {Odd})
      BY <3>1, InputsAssumption DEF Requests
    <3>3. Sum(req[r].pieces, Len(req[r].pieces)) = Total(req[r].pieces)
      BY <3>2, SumPrefix
    <3>. QED
      BY <3>1, <3>3 DEF Total
  <2>. QED
    BY <2>1 DEF BodyWhole
<1>. QED
  BY <1>1, Invariant, PTL

(* A GET or HEAD changes nothing, whatever its parameters, on all three    *)
(* HTTP front ends: proved of the rows of their route tables.              *)
THEOREM SafeMethodsHolds == Spec => []SafeMethods
<1>1. ASSUME Inv, NEW r \in Slots, ran[r] \in Mutating PROVE req[r].method \notin {"GET", "HEAD"}
  <2>1. ran[r] # None
    BY <1>1, NoneAssumption
  <2>2. "cached" \notin Mutating
    BY DEF Mutating, Uploads, BucketMutations, ObjectMutations
  <2>3. req[r] \in Requests /\ ran[r] = OpOf(req[r])
    BY <1>1, <2>1, <2>2 DEF Inv, SlotInv, StageInv
  <2>. QED
    BY <1>1, <2>3, OpOfSafe
<1>2. Inv => SafeMethods
  BY <1>1 DEF SafeMethods
<1>. QED
  BY <1>2, Invariant, PTL

(* An operation that was let through is answered with one response, ended, *)
(* unless its own client gave up; S3 and the CDN answer always: for any    *)
(* number of requests queued on any gateway connections, any of which may  *)
(* be reset (handle_gateway_connection).                                   *)
THEOREM AnsweredOnceHolds == Spec => []AnsweredOnce
<1>1. ASSUME Inv, NEW r \in Slots, pc[r] = "done" PROVE Reply(req[r], ran[r], reset[r], out[r])
  BY <1>1 DEF Inv, SlotInv, RepliedInv
<1>2. Inv => AnsweredOnce
  BY <1>1 DEF AnsweredOnce, Reply, Heads, HeadCount, Oversized, Is
<1>. QED
  BY <1>2, Invariant, PTL
=============================================================================
