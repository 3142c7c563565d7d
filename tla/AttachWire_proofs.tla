-------------------------- MODULE AttachWire_proofs --------------------------
(***************************************************************************)
(* What the wire keeps, for inputs of any number of lines and bytes, any   *)
(* chunks of them and any bounds: the bounds are hard, every line is       *)
(* handled once and in order, none is lost in silence, and the end of      *)
(* stdin cancels nothing.                                                  *)
(***************************************************************************)
EXTENDS AttachWire, WellFoundedInduction, TLAPS

-----------------------------------------------------------------------------
(* Induction, of sets instead of predicates.                               *)

LEMMA Induction ==
  ASSUME NEW S, 0 \in S, \A n \in Nat : n \in S => n + 1 \in S
  PROVE  Nat \subseteq S
  <1> DEFINE T == Nat \ S
  <1>1. \E R : IsWellFoundedOn(R, Nat) /\ \A n \in Nat : <<n, n + 1>> \in R
    <2>1. \A n \in Nat : <<n, n + 1>> \in OpToRel(<, Nat)
      BY DEF OpToRel
    <2> QED  BY <2>1, NatLessThanWellFounded
  <1>2. PICK R : IsWellFoundedOn(R, Nat) /\ \A n \in Nat : <<n, n + 1>> \in R
    BY <1>1
  <1>3. ASSUME T # {} PROVE FALSE
    <2>1. PICK x \in T : \A y \in T : <<y, x>> \notin R
      <3>1. T \subseteq Nat
        OBVIOUS
      <3> HIDE DEF T
      <3> QED  BY <1>2, <1>3, <3>1, WFMin
    <2>2. x \in Nat /\ x # 0 /\ x - 1 \in T /\ x - 1 \in Nat /\ (x - 1) + 1 = x
      OBVIOUS
    <2> HIDE DEF T
    <2> QED  BY <1>2, <2>1, <2>2
  <1> QED  BY <1>3

\* Every recursion along numbers has its function.
Recurs(f, n, S, a, g) == f \in [0..n -> S] /\ f[0] = a /\ \A k \in 1..n : f[k] = g[<<k, f[k - 1]>>]

LEMMA Recursion ==
  \A n \in Nat : \A S, a, g :
    a \in S /\ (\A k \in 1..n, x \in S : g[<<k, x>>] \in S) => \E f : Recurs(f, n, S, a, g)
  <1> SUFFICES ASSUME NEW n \in Nat, NEW S, NEW a \in S, NEW g,
                      \A k \in 1..n, x \in S : g[<<k, x>>] \in S
               PROVE  \E f : Recurs(f, n, S, a, g)
    OBVIOUS
  <1> DEFINE T == {m \in Nat : m <= n => \E f : Recurs(f, m, S, a, g)}
  <1>1. 0 \in T
    <2> DEFINE f == [k \in 0..0 |-> a]
    <2>1. f \in [0..0 -> S] /\ f[0] = a /\ \A k \in 1..0 : f[k] = g[<<k, f[k - 1]>>]
      OBVIOUS
    <2> HIDE DEF f
    <2>2. Recurs(f, 0, S, a, g)
      BY <2>1 DEF Recurs
    <2> QED  BY <2>2
  <1>2. ASSUME NEW m \in Nat, m \in T PROVE m + 1 \in T
    <2> SUFFICES ASSUME m + 1 <= n PROVE \E f : Recurs(f, m + 1, S, a, g)
      OBVIOUS
    <2>1. PICK f \in [0..m -> S] : f[0] = a /\ \A k \in 1..m : f[k] = g[<<k, f[k - 1]>>]
      BY <1>2 DEF Recurs
    <2> DEFINE h == [k \in 0..(m + 1) |-> IF k <= m THEN f[k] ELSE g[<<m + 1, f[m]>>]]
    <2>2. g[<<m + 1, f[m]>>] \in S
      OBVIOUS
    <2>3. h \in [0..(m + 1) -> S] /\ h[0] = a
      BY <2>1, <2>2
    <2>4. ASSUME NEW k \in 1..(m + 1) PROVE h[k] = g[<<k, h[k - 1]>>]
      <3>1. k - 1 \in 0..m /\ h[k - 1] = f[k - 1]
        OBVIOUS
      <3>2. CASE k <= m
        <4>1. h[k] = f[k] /\ k \in 1..m
          BY <3>2
        <4> QED  BY <2>1, <3>1, <4>1
      <3>3. CASE k = m + 1
        <4>1. h[k] = g[<<m + 1, f[m]>>] /\ k - 1 = m
          BY <3>3
        <4> QED  BY <3>1, <3>3, <4>1
      <3> QED  BY <3>2, <3>3
    <2> HIDE DEF h
    <2>5. Recurs(h, m + 1, S, a, g)
      BY <2>3, <2>4 DEF Recurs
    <2> QED  BY <2>5
  <1>3. n \in T
    <2> HIDE DEF T
    <2> QED  BY <1>1, <1>2, Induction
  <1> QED  BY <1>3

\* A set of bounded numbers has its maximum.
LEMMA MaxIs ==
  ASSUME NEW n \in Nat, NEW M \in SUBSET (0..n), M # {}
  PROVE  Max(M) \in M /\ \A y \in M : y <= Max(M)
  <1> DEFINE T == {m \in Nat : \A K \in SUBSET (0..m) : K # {} => \E x \in K : \A y \in K : x >= y}
  <1>1. 0 \in T
    <2> SUFFICES ASSUME NEW K \in SUBSET (0..0), K # {} PROVE \E x \in K : \A y \in K : x >= y
      OBVIOUS
    <2>1. \A y \in K : y = 0
      OBVIOUS
    <2>2. 0 \in K
      BY <2>1
    <2>3. \A y \in K : 0 >= y
      BY <2>1
    <2> QED  BY <2>2, <2>3
  <1>2. ASSUME NEW m \in Nat, m \in T PROVE m + 1 \in T
    <2> SUFFICES ASSUME NEW K \in SUBSET (0..(m + 1)), K # {} PROVE \E x \in K : \A y \in K : x >= y
      OBVIOUS
    <2>1. CASE m + 1 \in K
      BY <2>1
    <2>2. CASE m + 1 \notin K
      <3>1. K \in SUBSET (0..m)
        BY <2>2
      <3> QED  BY <1>2, <3>1
    <2> QED  BY <2>1, <2>2
  <1>3. n \in T
    <2> HIDE DEF T
    <2> QED  BY <1>1, <1>2, Induction
  <1>4. \E x \in M : \A y \in M : x >= y
    BY <1>3
  <1>5. Max(M) \in M /\ \A y \in M : Max(M) >= y
    BY <1>4 DEF Max
  <1> QED  BY <1>5

-----------------------------------------------------------------------------
(* Bytes.                                                                  *)

LEMMA BytesIs ==
  ASSUME NEW S, \A e \in S : e.bytes \in Nat, NEW s \in Seq(S)
  PROVE  /\ Bytes(s)[0] = 0
         /\ \A k \in 1..Len(s) : Bytes(s)[k] = Bytes(s)[k - 1] + s[k].bytes
         /\ \A k \in 0..Len(s) : Bytes(s)[k] \in Nat
  <1>1. PICK n \in Nat : n = Len(s)
    OBVIOUS
  <1>2. \A k \in 1..n : s[k].bytes \in Nat
    BY <1>1
  <1>3. PICK f \in [0..n -> Nat] : f[0] = 0 /\ \A k \in 1..n : f[k] = f[k - 1] + s[k].bytes
    <2> DEFINE g == [p \in (1..n) \X Nat |-> p[2] + s[p[1]].bytes]
    <2>1. \A k \in 1..n, x \in Nat : g[<<k, x>>] = x + s[k].bytes /\ g[<<k, x>>] \in Nat
      BY <1>2
    <2> HIDE DEF g
    <2>2. \E f : Recurs(f, n, Nat, 0, g)
      BY <2>1, Recursion
    <2>3. PICK f \in [0..n -> Nat] : f[0] = 0 /\ \A k \in 1..n : f[k] = g[<<k, f[k - 1]>>]
      BY <2>2 DEF Recurs
    <2>4. \A k \in 1..n : f[k - 1] \in Nat
      OBVIOUS
    <2> QED  BY <2>1, <2>3, <2>4
  <1>4. f = [k \in 0..n |-> IF k = 0 THEN 0 ELSE f[k - 1] + s[k].bytes]
    BY <1>3
  <1>5. Bytes(s) = [k \in 0..n |-> IF k = 0 THEN 0 ELSE Bytes(s)[k - 1] + s[k].bytes]
    BY <1>1, <1>4 DEF Bytes
  <1>6. Bytes(s)[0] = 0 /\ \A k \in 1..n : Bytes(s)[k] = Bytes(s)[k - 1] + s[k].bytes
    <2> DEFINE e == [k \in 0..n |-> IF k = 0 THEN 0 ELSE Bytes(s)[k - 1] + s[k].bytes]
    <2>1. Bytes(s) = e
      BY <1>5
    <2>2. e[0] = 0 /\ \A k \in 1..n : e[k] = Bytes(s)[k - 1] + s[k].bytes
      OBVIOUS
    <2> HIDE DEF e
    <2> QED  BY <2>1, <2>2
  <1>7. \A k \in 0..n : Bytes(s)[k] \in Nat
    <2> DEFINE T == {k \in Nat : k <= n => Bytes(s)[k] \in Nat}
    <2>1. 0 \in T
      BY <1>6
    <2>2. ASSUME NEW k \in Nat, k \in T PROVE k + 1 \in T
      <3> SUFFICES ASSUME k + 1 <= n PROVE Bytes(s)[k + 1] \in Nat
        OBVIOUS
      <3>1. k + 1 \in 1..n /\ (k + 1) - 1 = k /\ Bytes(s)[k] \in Nat
        BY <2>2
      <3>2. Bytes(s)[k + 1] = Bytes(s)[k] + s[k + 1].bytes
        BY <1>6, <3>1
      <3> QED  BY <1>2, <3>1, <3>2
    <2>3. Nat \subseteq T
      <3> HIDE DEF T
      <3> QED  BY <2>1, <2>2, Induction
    <2> QED  BY <2>3
  <1> QED  BY <1>1, <1>6, <1>7

\* The bytes of nothing, of one line, of two sequences.
LEMMA BytesOfNone == BytesOf(<<>>) = 0
  <1>1. <<>> \in Seq([bytes : Nat]) /\ Len(<<>>) = 0
    OBVIOUS
  <1> QED  BY <1>1, BytesIs DEF BytesOf

LEMMA BytesOfConcat ==
  ASSUME NEW S, \A e \in S : e.bytes \in Nat, NEW s \in Seq(S), NEW t \in Seq(S)
  PROVE  BytesOf(s \o t) = BytesOf(s) + BytesOf(t)
  <1>1. PICK m \in Nat : m = Len(s)
    OBVIOUS
  <1>2. PICK n \in Nat : n = Len(t)
    OBVIOUS
  <1> DEFINE u == s \o t
  <1>3. /\ u \in Seq(S) /\ Len(u) = m + n
        /\ \A k \in 1..m : u[k] = s[k]
        /\ \A k \in 1..n : u[m + k] = t[k]
    BY <1>1, <1>2
  <1> HIDE DEF u
  <1>4. /\ Bytes(u)[0] = 0 /\ \A k \in 1..(m + n) : Bytes(u)[k] = Bytes(u)[k - 1] + u[k].bytes
        /\ Bytes(s)[0] = 0 /\ \A k \in 1..m : Bytes(s)[k] = Bytes(s)[k - 1] + s[k].bytes
        /\ Bytes(t)[0] = 0 /\ \A k \in 1..n : Bytes(t)[k] = Bytes(t)[k - 1] + t[k].bytes
        /\ \A k \in 0..n : Bytes(t)[k] \in Nat
        /\ Bytes(s)[m] \in Nat
    <2>1. Bytes(u)[0] = 0 /\ \A k \in 1..(m + n) : Bytes(u)[k] = Bytes(u)[k - 1] + u[k].bytes
      BY <1>3, BytesIs
    <2>2. /\ Bytes(s)[0] = 0 /\ \A k \in 1..m : Bytes(s)[k] = Bytes(s)[k - 1] + s[k].bytes
          /\ \A k \in 0..m : Bytes(s)[k] \in Nat
      BY <1>1, BytesIs
    <2>3. /\ Bytes(t)[0] = 0 /\ \A k \in 1..n : Bytes(t)[k] = Bytes(t)[k - 1] + t[k].bytes
          /\ \A k \in 0..n : Bytes(t)[k] \in Nat
      BY <1>2, BytesIs
    <2> QED  BY <2>1, <2>2, <2>3
  <1>5. \A k \in 1..n : t[k].bytes \in Nat
    BY <1>2
  <1>6. Bytes(u)[m] = Bytes(s)[m]
    <2> DEFINE T == {k \in Nat : k <= m => Bytes(u)[k] = Bytes(s)[k]}
    <2>1. 0 \in T
      BY <1>4
    <2>2. ASSUME NEW k \in Nat, k \in T PROVE k + 1 \in T
      <3> SUFFICES ASSUME k + 1 <= m PROVE Bytes(u)[k + 1] = Bytes(s)[k + 1]
        OBVIOUS
      <3>1. k + 1 \in 1..m /\ k + 1 \in 1..(m + n) /\ (k + 1) - 1 = k /\ Bytes(u)[k] = Bytes(s)[k]
        BY <2>2
      <3> QED  BY <1>3, <1>4, <3>1
    <2>3. Nat \subseteq T
      <3> HIDE DEF T
      <3> QED  BY <2>1, <2>2, Induction
    <2> QED  BY <2>3
  <1>7. Bytes(u)[m + n] = Bytes(s)[m] + Bytes(t)[n]
    <2> DEFINE T == {k \in Nat : k <= n => Bytes(u)[m + k] = Bytes(s)[m] + Bytes(t)[k]}
    <2>1. 0 \in T
      BY <1>4, <1>6
    <2>2. ASSUME NEW k \in Nat, k \in T PROVE k + 1 \in T
      <3> SUFFICES ASSUME k + 1 <= n PROVE Bytes(u)[m + (k + 1)] = Bytes(s)[m] + Bytes(t)[k + 1]
        OBVIOUS
      <3>1. /\ k + 1 \in 1..n /\ m + (k + 1) \in 1..(m + n) /\ (m + (k + 1)) - 1 = m + k /\ (k + 1) - 1 = k
            /\ Bytes(u)[m + k] = Bytes(s)[m] + Bytes(t)[k] /\ k \in 0..n
        BY <2>2
      <3>2. Bytes(u)[m + (k + 1)] = Bytes(u)[m + k] + t[k + 1].bytes
        BY <1>3, <1>4, <3>1
      <3>3. Bytes(t)[k + 1] = Bytes(t)[k] + t[k + 1].bytes
        BY <1>4, <3>1
      <3>4. t[k + 1].bytes \in Nat /\ Bytes(t)[k] \in Nat /\ Bytes(s)[m] \in Nat
        BY <1>4, <1>5, <3>1
      <3> HIDE DEF T
      <3> QED  BY <3>1, <3>2, <3>3, <3>4
    <2>3. Nat \subseteq T
      <3> HIDE DEF T
      <3> QED  BY <2>1, <2>2, Induction
    <2> QED  BY <2>3
  <1> QED  BY <1>1, <1>2, <1>3, <1>7 DEF BytesOf, u

-----------------------------------------------------------------------------
(* Where lines end.                                                        *)

LEMMA EndIs ==
  ASSUME input \in Inputs
  PROVE  /\ Len(input) \in Nat /\ Inputs \subseteq Seq([bytes : Nat, is : Kinds])
         /\ \A k \in Lines : input[k].bytes \in Nat /\ input[k].is \in Kinds
         /\ \A k \in 0..Len(input) : EndOf(k) \in Nat
         /\ EndOf(0) = 0
         /\ \A k \in Lines : EndOf(k) = EndOf(k - 1) + input[k].bytes + 1
  <1>1. Inputs \subseteq Seq([bytes : Nat, is : Kinds])
    BY AttachWireAssumption
  <1>0. PICK R : R = [bytes : Nat, is : Kinds]
    OBVIOUS
  <1>2. input \in Seq(R) /\ Len(input) \in Nat
    <2>1. input \in Seq(R)
      BY <1>0, <1>1
    <2> QED  BY <2>1
  <1>3. \A e \in R : e.bytes \in Nat /\ e.is \in Kinds
    BY <1>0
  <1>4. \A k \in Lines : input[k].bytes \in Nat /\ input[k].is \in Kinds
    <2>1. \A k \in Lines : input[k] \in R
      BY <1>2 DEF Lines
    <2> QED  BY <1>3, <2>1
  <1>5. \A k \in 0..Len(input) : EndOf(k) = k + Bytes(input)[k]
    BY <1>2 DEF EndOf, Ends
  <1>6. /\ Bytes(input)[0] = 0
        /\ \A k \in 1..Len(input) : Bytes(input)[k] = Bytes(input)[k - 1] + input[k].bytes
        /\ \A k \in 0..Len(input) : Bytes(input)[k] \in Nat
    BY <1>2, <1>3, BytesIs
  <1>7. \A k \in 0..Len(input) : EndOf(k) \in Nat
    <2> SUFFICES ASSUME NEW k \in 0..Len(input) PROVE EndOf(k) \in Nat
      OBVIOUS
    <2>1. k \in Nat
      BY <1>2
    <2>2. Bytes(input)[k] \in Nat
      BY <1>6
    <2>3. EndOf(k) = k + Bytes(input)[k]
      BY <1>5
    <2> QED  BY <2>1, <2>2, <2>3
  <1>8. EndOf(0) = 0
    BY <1>2, <1>5, <1>6
  <1>9. ASSUME NEW k \in Lines PROVE EndOf(k) = EndOf(k - 1) + input[k].bytes + 1
    <2>1. k \in 0..Len(input) /\ k - 1 \in 0..Len(input) /\ k \in 1..Len(input)
      BY <1>2 DEF Lines
    <2>2. EndOf(k) = k + Bytes(input)[k] /\ EndOf(k - 1) = (k - 1) + Bytes(input)[k - 1]
      BY <1>5, <2>1
    <2>3. Bytes(input)[k] = Bytes(input)[k - 1] + input[k].bytes /\ Bytes(input)[k - 1] \in Nat
      BY <1>6, <2>1
    <2> QED  BY <1>4, <2>1, <2>2, <2>3
  <1> QED  BY <1>1, <1>2, <1>4, <1>7, <1>8, <1>9

LEMMA EndGrows ==
  ASSUME input \in Inputs, NEW i \in 0..Len(input), NEW j \in i..Len(input)
  PROVE  EndOf(i) <= EndOf(j)
  <1>1. /\ Len(input) \in Nat
        /\ \A k \in 0..Len(input) : EndOf(k) \in Nat
        /\ \A k \in Lines : EndOf(k) = EndOf(k - 1) + input[k].bytes + 1 /\ input[k].bytes \in Nat
    BY EndIs
  <1> DEFINE T == {n \in Nat : i + n <= Len(input) => EndOf(i) <= EndOf(i + n)}
  <1>2. 0 \in T
    BY <1>1
  <1>3. ASSUME NEW n \in Nat, n \in T PROVE n + 1 \in T
    <2> SUFFICES ASSUME i + (n + 1) <= Len(input) PROVE EndOf(i) <= EndOf(i + (n + 1))
      OBVIOUS
    <2>1. EndOf(i) <= EndOf(i + n) /\ (i + (n + 1)) - 1 = i + n
      BY <1>1, <1>3
    <2>2. i + (n + 1) \in Lines /\ i + n \in 0..Len(input)
      BY <1>1 DEF Lines
    <2>3. EndOf(i + (n + 1)) = EndOf(i + n) + input[i + (n + 1)].bytes + 1 /\ input[i + (n + 1)].bytes \in Nat
      BY <1>1, <2>1, <2>2
    <2>4. EndOf(i) \in Nat /\ EndOf(i + n) \in Nat
      BY <1>1, <2>2
    <2> QED  BY <2>1, <2>3, <2>4
  <1>4. j - i \in T
    <2> HIDE DEF T
    <2>1. Nat \subseteq T
      BY <1>2, <1>3, Induction
    <2>2. j - i \in Nat
      BY <1>1
    <2> QED  BY <2>1, <2>2
  <1>5. i + (j - i) = j
    BY <1>1
  <1> QED  BY <1>1, <1>4, <1>5

-----------------------------------------------------------------------------
(* The texts of lines.                                                     *)

Items == [line : Lines, bytes : Nat, is : Kinds]

LEMMA TextIs ==
  ASSUME input \in Inputs, NEW k \in Lines, NEW b \in Nat
  PROVE  Text(k, b) \in Items /\ Text(k, b).line = k /\ (Text(k, b).is = "blank" <=> input[k].is = "blank")
  <1>1. input[k].is \in Kinds
    BY EndIs
  <1>2. (IF b = input[k].bytes \/ input[k].is = "blank" THEN input[k].is ELSE "invalid") \in Kinds
    BY <1>1 DEF Kinds
  <1> QED  BY <1>2 DEF Text, Items

LEMMA PushIs ==
  ASSUME NEW S, NEW s \in Seq(S), NEW t \in S, NEW r \in Seq(S)
  PROVE  /\ Push(s, t) \in Seq(S)
         /\ Push(r \o s, t) = r \o Push(s, t)
  <1>1. Append(r \o s, t) = r \o Append(s, t)
    OBVIOUS
  <1> QED  BY <1>1 DEF Push

LEMMA TextsIs ==
  ASSUME input \in Inputs, NEW from \in Nat \ {0}
  PROVE  /\ \A to \in 0..Len(input) : Texts(from, to) \in Seq(Items)
         /\ \A to \in 0..Len(input) : to < from => Texts(from, to) = <<>>
         /\ \A to \in from..Len(input) :
              Texts(from, to) = Push(Texts(from, to - 1), Text(to, input[to].bytes))
  <1>1. PICK n \in Nat : n = Len(input)
    BY EndIs
  <1>2. \A k \in 1..n : Text(k, input[k].bytes) \in Items
    BY <1>1, EndIs, TextIs DEF Lines
  <1>0. \A k \in 1..n, x \in Seq(Items) : Push(x, Text(k, input[k].bytes)) \in Seq(Items)
    BY <1>2, PushIs
  <1>3. PICK f \in [0..n -> Seq(Items)] :
          \A k \in 0..n : f[k] = IF k < from THEN <<>> ELSE Push(f[k - 1], Text(k, input[k].bytes))
    <2> DEFINE g == [p \in (1..n) \X Seq(Items) |->
                       IF p[1] < from THEN <<>> ELSE Push(p[2], Text(p[1], input[p[1]].bytes))]
    <2>1. \A k \in 1..n, x \in Seq(Items) :
            /\ g[<<k, x>>] = IF k < from THEN <<>> ELSE Push(x, Text(k, input[k].bytes))
            /\ g[<<k, x>>] \in Seq(Items)
      <3>1. <<>> \in Seq(Items)
        OBVIOUS
      <3> QED  BY <1>0, <3>1
    <2> HIDE DEF g
    <2>2. <<>> \in Seq(Items)
      OBVIOUS
    <2>3. \E f : Recurs(f, n, Seq(Items), <<>>, g)
      BY <2>1, <2>2, Recursion
    <2>4. PICK f \in [0..n -> Seq(Items)] : f[0] = <<>> /\ \A k \in 1..n : f[k] = g[<<k, f[k - 1]>>]
      BY <2>3 DEF Recurs
    <2>5. \A k \in 1..n : f[k - 1] \in Seq(Items)
      OBVIOUS
    <2>6. ASSUME NEW k \in 0..n PROVE f[k] = IF k < from THEN <<>> ELSE Push(f[k - 1], Text(k, input[k].bytes))
      <3>1. CASE k = 0
        BY <2>4, <3>1
      <3>2. CASE k # 0
        <4>1. k \in 1..n
          BY <3>2
        <4> QED  BY <2>1, <2>4, <2>5, <4>1
      <3> QED  BY <3>1, <3>2
    <2> QED  BY <2>6
  <1> DEFINE E(F) == [k \in 0..Len(input) |-> IF k < from THEN <<>> ELSE Push(F[k - 1], Text(k, input[k].bytes))]
  <1>4. f = E(f)
    BY <1>1, <1>3
  <1>5. PICK F : F = E(F) /\ \A to : Texts(from, to) = F[to]
    <2>1. PICK F : F = CHOOSE G : G = E(G)
      OBVIOUS
    <2>2. F = E(F)
      <3> HIDE DEF E
      <3> QED  BY <1>4, <2>1
    <2>3. \A to : Texts(from, to) = F[to]
      BY <2>1 DEF Texts
    <2> QED  BY <2>2, <2>3
  <1>6. \A k \in 0..n : F[k] = IF k < from THEN <<>> ELSE Push(F[k - 1], Text(k, input[k].bytes))
    <2> DEFINE e == E(F)
    <2>1. \A k \in 0..n : e[k] = IF k < from THEN <<>> ELSE Push(F[k - 1], Text(k, input[k].bytes))
      BY <1>1
    <2>2. F = e
      BY <1>5
    <2> HIDE DEF e
    <2> QED  BY <2>1, <2>2
  <1>7. \A k \in 0..n : F[k] \in Seq(Items)
    <2> DEFINE T == {k \in Nat : k <= n => F[k] \in Seq(Items)}
    <2>1. 0 \in T
      <3>1. F[0] = <<>> /\ <<>> \in Seq(Items)
        BY <1>6
      <3> QED  BY <3>1
    <2>2. ASSUME NEW k \in Nat, k \in T PROVE k + 1 \in T
      <3> SUFFICES ASSUME k + 1 <= n PROVE F[k + 1] \in Seq(Items)
        OBVIOUS
      <3>1. k + 1 \in 1..n /\ k + 1 \in 0..n /\ (k + 1) - 1 = k /\ F[k] \in Seq(Items)
        BY <2>2
      <3>2. F[k + 1] = IF k + 1 < from THEN <<>> ELSE Push(F[k], Text(k + 1, input[k + 1].bytes))
        BY <1>6, <3>1
      <3>3. Push(F[k], Text(k + 1, input[k + 1].bytes)) \in Seq(Items) /\ <<>> \in Seq(Items)
        <4>1. PICK m \in 1..n : m = k + 1
          BY <3>1
        <4>2. F[k] \in Seq(Items)
          BY <3>1
        <4>3. Push(F[k], Text(m, input[m].bytes)) \in Seq(Items)
          BY <1>0, <4>2
        <4>4. <<>> \in Seq(Items)
          OBVIOUS
        <4> HIDE DEF T
        <4> QED  BY <4>1, <4>3, <4>4
      <3> QED  BY <3>2, <3>3
    <2>3. Nat \subseteq T
      <3> HIDE DEF T
      <3> QED  BY <2>1, <2>2, Induction
    <2> QED  BY <2>3
  <1>8. ASSUME NEW to \in 0..Len(input), to < from PROVE Texts(from, to) = <<>>
    BY <1>1, <1>5, <1>6, <1>8
  <1>9. ASSUME NEW to \in from..Len(input)
        PROVE  Texts(from, to) = Push(Texts(from, to - 1), Text(to, input[to].bytes))
    <2>1. to \in 0..n /\ ~(to < from)
      BY <1>1
    <2> QED  BY <1>5, <1>6, <2>1
  <1> QED  BY <1>1, <1>5, <1>7, <1>8, <1>9

\* What is framed in two parts is what is framed at once.
LEMMA TextsConcat ==
  ASSUME input \in Inputs, NEW i \in 0..Len(input), NEW j \in i..Len(input)
  PROVE  Texts(1, i) \o Texts(i + 1, j) = Texts(1, j)
  <1>1. Len(input) \in Nat /\ i \in Nat /\ i + 1 \in Nat \ {0}
    BY EndIs
  <1>2. \A k \in 1..Len(input) : Text(k, input[k].bytes) \in Items
    BY EndIs, TextIs DEF Lines
  <1>3. /\ \A to \in 0..Len(input) : Texts(1, to) \in Seq(Items)
        /\ \A to \in 1..Len(input) : Texts(1, to) = Push(Texts(1, to - 1), Text(to, input[to].bytes))
    BY TextsIs
  <1>4. /\ \A to \in 0..Len(input) : Texts(i + 1, to) \in Seq(Items)
        /\ Texts(i + 1, i) = <<>>
        /\ \A to \in (i + 1)..Len(input) :
             Texts(i + 1, to) = Push(Texts(i + 1, to - 1), Text(to, input[to].bytes))
    BY <1>1, TextsIs
  <1> DEFINE T == {n \in Nat : i + n <= Len(input) => Texts(1, i) \o Texts(i + 1, i + n) = Texts(1, i + n)}
  <1>5. 0 \in T
    <2>1. Texts(1, i) \o <<>> = Texts(1, i)
      <3>1. Texts(1, i) \in Seq(Items)
        BY <1>3
      <3> QED  BY <3>1
    <2>2. Texts(1, i) \o Texts(i + 1, i) = Texts(1, i)
      BY <1>4, <2>1
    <2>3. i + 0 = i
      BY <1>1
    <2> QED  BY <2>2, <2>3
  <1>6. ASSUME NEW n \in Nat, n \in T PROVE n + 1 \in T
    <2> SUFFICES ASSUME i + (n + 1) <= Len(input)
                 PROVE  Texts(1, i) \o Texts(i + 1, i + (n + 1)) = Texts(1, i + (n + 1))
      OBVIOUS
    <2>1. PICK k \in (i + 1)..Len(input) : k = i + (n + 1)
      BY <1>1
    <2>2. Texts(1, i) \o Texts(i + 1, k - 1) = Texts(1, k - 1)
      BY <1>1, <1>6, <2>1
    <2>3. k - 1 \in 0..Len(input) /\ k \in 1..Len(input)
      BY <1>1, <2>1
    <2>4. PICK t \in Items : t = Text(k, input[k].bytes)
      BY <1>2, <2>3
    <2>5. Texts(1, k) = Push(Texts(1, k - 1), t) /\ Texts(i + 1, k) = Push(Texts(i + 1, k - 1), t)
      BY <1>3, <1>4, <2>1, <2>3, <2>4
    <2>6. Texts(1, i) \in Seq(Items) /\ Texts(i + 1, k - 1) \in Seq(Items)
      BY <1>3, <1>4, <2>3
    <2> HIDE DEF T
    <2>7. Push(Texts(1, i) \o Texts(i + 1, k - 1), t) = Texts(1, i) \o Push(Texts(i + 1, k - 1), t)
      BY <2>6, PushIs
    <2> QED  BY <2>1, <2>2, <2>5, <2>7
  <1>7. j - i \in T
    <2> HIDE DEF T
    <2>1. Nat \subseteq T
      BY <1>5, <1>6, Induction
    <2>2. j - i \in Nat
      BY <1>1
    <2> QED  BY <2>1, <2>2
  <1>8. i + (j - i) = j
    BY <1>1
  <1> QED  BY <1>1, <1>7, <1>8

\* Every line that is not blank is there.
LEMMA TextsHave ==
  ASSUME input \in Inputs, NEW j \in 0..Len(input), NEW i \in 1..j, input[i].is # "blank"
  PROVE  \E n \in DOMAIN Texts(1, j) : Texts(1, j)[n].line = i
  <1>1. Len(input) \in Nat
    BY EndIs
  <1>2. \A k \in 1..Len(input), b \in Nat :
          /\ Text(k, b) \in Items /\ Text(k, b).line = k
          /\ Text(k, b).is = "blank" <=> input[k].is = "blank"
    BY TextIs DEF Lines
  <1>3. \A k \in 1..Len(input) : input[k].bytes \in Nat
    BY EndIs DEF Lines
  <1>4. /\ \A to \in 0..Len(input) : Texts(1, to) \in Seq(Items)
        /\ \A to \in 1..Len(input) : Texts(1, to) = Push(Texts(1, to - 1), Text(to, input[to].bytes))
    BY TextsIs
  <1> DEFINE Has(k) == \E n \in DOMAIN Texts(1, k) : Texts(1, k)[n].line = i
             T == {n \in Nat : i + n <= Len(input) => Has(i + n)}
  <1>5. 0 \in T
    <2>1. i \in 1..Len(input) /\ i - 1 \in 0..Len(input)
      BY <1>1
    <2>2. PICK t \in Items : t = Text(i, input[i].bytes)
      BY <1>2, <1>3, <2>1
    <2>3. t.line = i /\ t.is # "blank"
      BY <1>2, <1>3, <2>1, <2>2
    <2>4. PICK s \in Seq(Items) : s = Texts(1, i - 1)
      BY <1>4, <2>1
    <2>5. Texts(1, i) = Append(s, t)
      BY <1>4, <2>1, <2>2, <2>3, <2>4 DEF Push
    <2>6. Len(s) + 1 \in DOMAIN Append(s, t) /\ Append(s, t)[Len(s) + 1] = t
      OBVIOUS
    <2>7. Has(i)
      BY <2>3, <2>5, <2>6
    <2>8. i + 0 = i
      BY <2>1
    <2> HIDE DEF Has
    <2> QED  BY <2>7, <2>8
  <1>6. ASSUME NEW n \in Nat, n \in T PROVE n + 1 \in T
    <2> SUFFICES ASSUME i + (n + 1) <= Len(input) PROVE Has(i + (n + 1))
      OBVIOUS
    <2>1. PICK k \in 1..Len(input) : k = i + (n + 1)
      BY <1>1
    <2>2. k - 1 \in 0..Len(input) /\ i + n = k - 1
      BY <1>1, <2>1
    <2>3. Has(k - 1)
      <3> HIDE DEF Has
      <3> QED  BY <1>1, <1>6, <2>1, <2>2
    <2>4. PICK s \in Seq(Items) : s = Texts(1, k - 1)
      BY <1>4, <2>2
    <2>5. PICK m \in DOMAIN s : s[m].line = i
      BY <2>3, <2>4
    <2>6. PICK t \in Items : t = Text(k, input[k].bytes)
      BY <1>2, <1>3
    <2>7. Texts(1, k) = s \/ Texts(1, k) = Append(s, t)
      BY <1>4, <2>4, <2>6 DEF Push
    <2>8. m \in DOMAIN Append(s, t) /\ Append(s, t)[m] = s[m]
      OBVIOUS
    <2>9. Has(k)
      BY <2>5, <2>7, <2>8
    <2> HIDE DEF Has
    <2> QED  BY <2>1, <2>9
  <1>7. j - i \in T
    <2> HIDE DEF T
    <2>1. Nat \subseteq T
      BY <1>5, <1>6, Induction
    <2>2. j - i \in Nat
      BY <1>1
    <2> QED  BY <2>1, <2>2
  <1>8. i + (j - i) = j /\ j <= Len(input)
    BY <1>1
  <1> QED  BY <1>1, <1>7, <1>8

\* The bytes of lines.
LEMMA ItemBytes ==
  ASSUME input \in Inputs, NEW s \in Seq(Items)
  PROVE  /\ BytesOf(s) \in Nat
         /\ \A t \in Seq(Items) : BytesOf(s \o t) = BytesOf(s) + BytesOf(t)
         /\ s # <<>> => BytesOf(Tail(s)) <= BytesOf(s)
  <1>1. \A e \in Items : e.bytes \in Nat
    BY DEF Items
  <1>2. ASSUME NEW t \in Seq(Items) PROVE BytesOf(t) \in Nat
    <2>1. Len(t) \in 0..Len(t)
      OBVIOUS
    <2> QED  BY <1>1, <2>1, BytesIs DEF BytesOf
  <1>3. \A r, t \in Seq(Items) : BytesOf(r \o t) = BytesOf(r) + BytesOf(t)
    BY <1>1, BytesOfConcat
  <1>4. ASSUME s # <<>> PROVE BytesOf(Tail(s)) <= BytesOf(s)
    <2>1. <<Head(s)>> \in Seq(Items) /\ Tail(s) \in Seq(Items) /\ <<Head(s)>> \o Tail(s) = s
      BY <1>4
    <2>2. BytesOf(s) = BytesOf(<<Head(s)>>) + BytesOf(Tail(s))
      BY <1>3, <2>1
    <2>3. PICK m \in Nat : m = BytesOf(<<Head(s)>>)
      BY <1>2, <2>1
    <2>4. PICK n \in Nat : n = BytesOf(Tail(s))
      BY <1>2, <2>1
    <2>5. BytesOf(s) = m + n
      BY <2>2, <2>3, <2>4
    <2>6. n <= m + n
      OBVIOUS
    <2> QED  BY <2>4, <2>5, <2>6
  <1> QED  BY <1>2, <1>3, <1>4

-----------------------------------------------------------------------------
(* The invariant.                                                          *)

Types ==
  /\ TypeOK
  /\ queue \in Seq(Items) /\ held \in Seq(Items) /\ handled \in Seq(Items)

Closed == \E n \in DOMAIN handled : handled[n].is = "close"

\* Every framed line is handled, held or queued, in order.
InOrder == handled \o held \o queue = Texts(1, framed)

\* No whole line is left unframed.
Rest == framed < Len(input) => pulled < EndOf(framed + 1)

\* Every line that came, if only in part, is framed.
AllFramed == \A i \in Lines : input[i].is # "blank" /\ EndOf(i - 1) < pulled => i <= framed

\* What the pump keeps: until it settles all is framed in order and within the bounds.
PumpInv ==
  /\ pump # "settled" => InOrder /\ EndOf(framed) <= pulled
  /\ pump = "pulling" => Rest /\ pulled - EndOf(framed) <= MaxLine
  /\ pump = "ending" => Rest
  /\ pump = "holding" => pulled - EndOf(framed) <= MaxLine + MaxChunk
  /\ Len(queue) <= QueueCommands /\ BytesOf(queue) <= QueueBytes

\* What the wire keeps: it ends by a close or by the end of stdin, and by the latter
\* only when the pump has settled and the queue is empty.
WireInv ==
  /\ wire = "handling" <=> held # <<>>
  /\ wire = "closing" => Closed
  /\ disposed => Closed \/ pump = "settled"
  /\ pump = "settled" /\ readError # "bound" => AllFramed \/ Closed
  /\ wire \in {"draining", "closingEof"} \/ (wire \in {"settling", "exited"} /\ ~Closed) =>
        pump = "settled" /\ queue = <<>> /\ (clean => readError = "none")
  /\ wire = "closingEof" => inFlight = {}
  /\ wire \in {"settling", "exited"} => session = "finished"
  /\ wire = "exited" => inFlight = {} /\ tail = "ended" /\ disposed

Inv == Types /\ PumpInv /\ WireInv /\ OnceInOrder

-----------------------------------------------------------------------------
(* What a step of the pump does.                                           *)

LEMMA InputStays ==
  ASSUME input' = input
  PROVE  /\ Lines' = Lines /\ Items' = Items
         /\ \A k : EndOf(k)' = EndOf(k)
         /\ \A k, b : Text(k, b)' = Text(k, b)
         /\ \A f, t : Texts(f, t)' = Texts(f, t)
  BY DEF Lines, Items, EndOf, Text, Texts, Push

LEMMA Takes ==
  ASSUME input \in Inputs, queue \in Seq(Items), NEW t \in Seq(Items), QueueTakes(t),
         Len(queue) <= QueueCommands, BytesOf(queue) <= QueueBytes
  PROVE  /\ queue \o t \in Seq(Items)
         /\ Len(queue \o t) <= QueueCommands /\ BytesOf(queue \o t) <= QueueBytes
  <1>1. CASE t = <<>>
    <2>1. queue \o t = queue
      BY <1>1
    <2> QED  BY <2>1
  <1>2. CASE t # <<>>
    <2>1. Len(queue) + Len(t) <= QueueCommands /\ BytesOf(queue) + BytesOf(t) <= QueueBytes
      BY <1>2 DEF QueueTakes
    <2>2. queue \o t \in Seq(Items) /\ Len(queue \o t) = Len(queue) + Len(t)
      OBVIOUS
    <2>3. BytesOf(queue \o t) = BytesOf(queue) + BytesOf(t)
      BY ItemBytes
    <2> QED  BY <2>1, <2>2, <2>3
  <1> QED  BY <1>1, <1>2

LEMMA Associative ==
  ASSUME NEW S, NEW r \in Seq(S), NEW s \in Seq(S), NEW t \in Seq(S)
  PROVE  (r \o s) \o t = r \o (s \o t)
  OBVIOUS

LEMMA FrameStep ==
  ASSUME Types, PumpInv, pump # "settled", NEW upto \in Nat,
         EndOf(framed) <= upto, upto <= EndOf(Len(input))
  PROVE  LET j == Framable(upto) IN
         /\ j \in framed..Len(input) /\ EndOf(j) \in Nat /\ EndOf(framed) <= EndOf(j) /\ EndOf(j) <= upto
         /\ Texts(framed + 1, j) \in Seq(Items)
         /\ queue \o Texts(framed + 1, j) \in Seq(Items)
         /\ Len(queue \o Texts(framed + 1, j)) <= QueueCommands
         /\ BytesOf(queue \o Texts(framed + 1, j)) <= QueueBytes
         /\ handled \o held \o (queue \o Texts(framed + 1, j)) = Texts(1, j)
         /\ ~Overflows(j, upto) => upto - EndOf(j) <= MaxLine \/ HasLine(j, upto)
         /\ ~HasLine(j, upto) /\ j < Len(input) => upto < EndOf(j + 1)
  <1>0. /\ input \in Inputs /\ Len(input) \in Nat /\ framed \in 0..Len(input)
        /\ queue \in Seq(Items) /\ held \in Seq(Items) /\ handled \in Seq(Items)
        /\ InOrder /\ Len(queue) <= QueueCommands /\ BytesOf(queue) <= QueueBytes
    BY EndIs DEF Types, TypeOK, PumpInv
  <1>1. /\ \A k \in 0..Len(input) : EndOf(k) \in Nat
        /\ \A k \in 0..Len(input) : k >= framed => EndOf(framed) <= EndOf(k)
    <2>1. \A k \in 0..Len(input) : EndOf(k) \in Nat
      BY <1>0, EndIs
    <2>2. ASSUME NEW k \in 0..Len(input), k >= framed PROVE EndOf(framed) <= EndOf(k)
      <3>1. k \in framed..Len(input)
        BY <1>0, <2>2
      <3> QED  BY <1>0, <3>1, EndGrows
    <2> QED  BY <2>1, <2>2
  <1> DEFINE M == {j \in framed..Len(input) :
                     /\ \A i \in (framed + 1)..j : EndOf(i) <= upto /\ input[i].bytes <= MaxLine
                     /\ QueueTakes(Texts(framed + 1, j))}
  <1>2. PICK j : j = Framable(upto)
    OBVIOUS
  <1>3. j \in M
    <2>1. framed \in M
      <3>1. framed \in framed..Len(input) /\ framed + 1 \in Nat \ {0} /\ framed < framed + 1
        BY <1>0
      <3>2. (framed + 1)..framed = {}
        BY <1>0
      <3>3. Texts(framed + 1, framed) = <<>>
        BY <1>0, <3>1, TextsIs
      <3>4. QueueTakes(Texts(framed + 1, framed))
        BY <3>3 DEF QueueTakes
      <3> QED  BY <3>1, <3>2, <3>4
    <2>2. M \in SUBSET (0..Len(input)) /\ M # {}
      BY <1>0, <2>1
    <2>3. j = Max(M)
      BY <1>2 DEF Framable
    <2> HIDE DEF M
    <2> QED  BY <1>0, <2>2, <2>3, MaxIs
  <1>4. /\ j \in framed..Len(input) /\ j \in 0..Len(input)
        /\ \A i \in (framed + 1)..j : EndOf(i) <= upto
        /\ QueueTakes(Texts(framed + 1, j))
    BY <1>0, <1>3
  <1> HIDE DEF M
  <1>5. EndOf(j) \in Nat /\ EndOf(framed) <= EndOf(j) /\ EndOf(j) <= upto
    <2>1. j = framed \/ j \in (framed + 1)..j
      BY <1>0, <1>4
    <2> QED  BY <1>1, <1>4, <2>1
  <1>6. PICK t \in Seq(Items) : t = Texts(framed + 1, j)
    <2>1. framed + 1 \in Nat \ {0}
      BY <1>0
    <2> QED  BY <1>0, <1>4, <2>1, TextsIs
  <1>7. queue \o t \in Seq(Items) /\ Len(queue \o t) <= QueueCommands /\ BytesOf(queue \o t) <= QueueBytes
    BY <1>0, <1>4, <1>6, Takes
  <1>8. handled \o held \o (queue \o t) = Texts(1, j)
    <2>1. PICK h \in Seq(Items) : h = handled \o held
      <3>1. PICK a \in Seq(Items) : a = handled
        BY <1>0
      <3>2. PICK b \in Seq(Items) : b = held
        BY <1>0
      <3>3. a \o b \in Seq(Items)
        OBVIOUS
      <3> QED  BY <3>1, <3>2, <3>3
    <2>2. (h \o queue) \o t = h \o (queue \o t)
      <3>1. PICK q \in Seq(Items) : q = queue
        BY <1>0
      <3>2. (h \o q) \o t = h \o (q \o t)
        BY Associative
      <3> QED  BY <3>1, <3>2
    <2>3. h \o queue = Texts(1, framed)
      BY <1>0, <2>1 DEF InOrder
    <2>4. Texts(1, framed) \o t = Texts(1, j)
      BY <1>0, <1>4, <1>6, TextsConcat
    <2> QED  BY <2>1, <2>2, <2>3, <2>4
  <1>9. ASSUME ~Overflows(j, upto) PROVE upto - EndOf(j) <= MaxLine \/ HasLine(j, upto)
    <2>1. MaxLine \in Nat
      BY AttachWireAssumption
    <2>2. CASE j < Len(input)
      <3>1. j + 1 \in 0..Len(input)
        BY <1>0, <1>4, <2>2
      <3>2. EndOf(j + 1) \in Nat
        BY <1>1, <3>1
      <3> QED  BY <1>5, <1>9, <2>1, <2>2, <3>2 DEF Overflows, HasLine
    <2>3. CASE ~(j < Len(input))
      <3>1. j = Len(input)
        BY <1>0, <1>4, <2>3
      <3> QED  BY <1>5, <2>1, <3>1
    <2> QED  BY <2>2, <2>3
  <1>10. ASSUME ~HasLine(j, upto), j < Len(input) PROVE upto < EndOf(j + 1)
    <2>1. j + 1 \in 0..Len(input)
      BY <1>0, <1>4, <1>10
    <2>2. EndOf(j + 1) \in Nat
      BY <1>1, <2>1
    <2> QED  BY <1>10, <2>2 DEF HasLine
  <1> QED  BY <1>2, <1>4, <1>5, <1>6, <1>7, <1>8, <1>9, <1>10

-----------------------------------------------------------------------------
(* The steps of the pump.                                                  *)

\* What frame and drain leave, whatever woke them.
LEMMA FrameEffect ==
  ASSUME Inv, pump # "settled", NEW upto \in Nat, FrameAndDrain(upto), pulled' = upto,
         EndOf(framed) <= upto, upto <= EndOf(Len(input)), upto - EndOf(framed) <= MaxLine + MaxChunk,
         UNCHANGED <<input, held, handled>>
  PROVE  /\ framed' \in 0..Len(input) /\ pump' \in PumpPlaces /\ readError' \in {readError, "bound"}
         /\ waiters' \subseteq {"pump", "wire"}
         /\ queue' \in Seq(Items)
         /\ PumpInv' /\ InOrder'
         /\ pump' = "settled" => readError' = "bound"
  <1> USE DEF Inv
  <1>0. Types /\ PumpInv /\ input \in Inputs /\ Len(input) \in Nat /\ framed \in 0..Len(input)
    BY EndIs DEF Types, TypeOK
  <1>n. MaxLine \in Nat /\ MaxChunk \in Nat
    BY AttachWireAssumption
  <1>1. PICK j : j = Framable(upto)
    OBVIOUS
  <1>2. PICK t : t = Texts(framed + 1, j)
    OBVIOUS
  <1>3. /\ j \in framed..Len(input) /\ EndOf(j) \in Nat /\ EndOf(framed) <= EndOf(j) /\ EndOf(j) <= upto
        /\ t \in Seq(Items) /\ queue \o t \in Seq(Items)
        /\ Len(queue \o t) <= QueueCommands /\ BytesOf(queue \o t) <= QueueBytes
        /\ handled \o held \o (queue \o t) = Texts(1, j)
        /\ ~Overflows(j, upto) => upto - EndOf(j) <= MaxLine \/ HasLine(j, upto)
        /\ ~HasLine(j, upto) /\ j < Len(input) => upto < EndOf(j + 1)
    BY <1>0, <1>1, <1>2, FrameStep
  <1>4. EndOf(framed) \in Nat /\ upto - EndOf(j) <= MaxLine + MaxChunk
    <2>1. EndOf(framed) \in Nat
      BY <1>0, EndIs
    <2> QED  BY <1>3, <1>n, <2>1
  <1> DEFINE holds == HasLine(j, upto) \/ Full(queue \o t)
  <1>5. /\ framed' = j /\ queue' = queue \o t
        /\ \/ Overflows(j, upto) /\ readError' = "bound" /\ pump' = "settled" /\ waiters' = {}
           \/ /\ ~Overflows(j, upto) /\ readError' = readError
              /\ pump' = (IF holds THEN "holding" ELSE "pulling")
              /\ waiters' = (IF t = <<>> THEN waiters ELSE {}) \cup (IF holds THEN {"pump"} ELSE {})
    BY <1>1, <1>2 DEF FrameAndDrain, KeptFrom, FailClosed, RunEnds, Notify
  <1>6. pump' = "pulling" => ~HasLine(j, upto) /\ ~Overflows(j, upto)
    BY <1>5
  <1>7. /\ pump' \in PumpPlaces /\ pump' # "ending" /\ readError' \in {readError, "bound"}
        /\ pump' = "settled" => readError' = "bound"
    BY <1>5 DEF PumpPlaces
  <1>8. waiters' \subseteq {"pump", "wire"}
    <2>1. waiters \subseteq {"pump", "wire"}
      BY <1>0 DEF Types, TypeOK
    <2> HIDE DEF holds
    <2> QED  BY <1>5, <2>1
  <1>9. InOrder'
    <2>1. Texts(1, framed)' = Texts(1, j)
      BY <1>5, InputStays
    <2>2. handled' \o held' \o queue' = Texts(1, j)
      BY <1>3, <1>5
    <2> QED  BY <2>1, <2>2 DEF InOrder
  <1>10. EndOf(framed)' = EndOf(j) /\ EndOf(framed + 1)' = EndOf(j + 1)
    BY <1>5, InputStays
  <1>11. PumpInv'
    <2>1. (EndOf(framed) <= pulled)'
      BY <1>3, <1>10
    <2>2. pump' = "pulling" => Rest' /\ (pulled - EndOf(framed) <= MaxLine)'
      BY <1>3, <1>5, <1>6, <1>10 DEF Rest
    <2>3. (pulled - EndOf(framed) <= MaxLine + MaxChunk)'
      BY <1>4, <1>10
    <2>4. Len(queue') <= QueueCommands /\ BytesOf(queue') <= QueueBytes
      BY <1>3, <1>5
    <2> HIDE DEF holds
    <2> QED  BY <1>7, <1>9, <2>1, <2>2, <2>3, <2>4 DEF PumpInv
  <1>12. framed' \in 0..Len(input)
    BY <1>0, <1>3, <1>5
  <1> QED  BY <1>3, <1>5, <1>7, <1>8, <1>9, <1>11, <1>12

\* A step of a pump that has not settled keeps what the wire keeps.
LEMMA PumpKeepsWire ==
  ASSUME WireInv, pump # "settled",
         UNCHANGED <<disposed, wire, held, handled, inFlight, session, tail, clean>>,
         pump' = "settled" /\ readError' # "bound" => AllFramed' \/ Closed
  PROVE  WireInv'
  <1>1. Closed' <=> Closed
    BY DEF Closed
  <1>2. ~(wire \in {"draining", "closingEof"} \/ (wire \in {"settling", "exited"} /\ ~Closed))
    BY DEF WireInv
  <1>3. disposed => Closed
    BY DEF WireInv
  <1> QED  BY <1>1, <1>2, <1>3 DEF WireInv

LEMMA FailStep ==
  ASSUME Inv, pump # "settled", FailClosed,
         UNCHANGED <<input, pulled, framed, queue, disposed, hosting>>
  PROVE  Inv'
  <1> USE DEF Inv, hosting
  <1>0. input \in Inputs /\ pump' = "settled" /\ readError' = "bound" /\ waiters' = {}
    BY DEF Types, TypeOK, FailClosed, RunEnds, Notify
  <1>1. Types'
    <2>1. EndOf(Len(input))' = EndOf(Len(input)) /\ Lines' = Lines /\ Items' = Items
      BY InputStays
    <2> QED  BY <1>0, <2>1 DEF Types, TypeOK, PumpPlaces
  <1>2. OnceInOrder'
    <2>1. InOrder
      BY DEF PumpInv
    <2>2. Texts(1, framed)' = Texts(1, framed)
      BY InputStays
    <2> QED  BY <2>1, <2>2 DEF OnceInOrder, InOrder
  <1>3. PumpInv'
    BY <1>0 DEF PumpInv
  <1>4. WireInv'
    BY <1>0, PumpKeepsWire
  <1> QED  BY <1>1, <1>2, <1>3, <1>4

LEMMA PullStep ==
  ASSUME Inv, NEW bytes \in 1..(MaxChunk + 1), Pull(bytes)
  PROVE  Inv'
  <1> USE DEF Inv
  <1>0. /\ input \in Inputs /\ pump = "pulling" /\ pump # "settled" /\ UNCHANGED <<input, disposed, hosting>>
        /\ pulled \in 0..EndOf(Len(input)) /\ framed \in 0..Len(input) /\ Len(input) \in Nat
    BY EndIs DEF Types, TypeOK, Pull, Pulling
  <1>n. MaxLine \in Nat /\ MaxChunk \in Nat
    BY AttachWireAssumption
  <1>1. CASE bytes > MaxChunk
    <2>1. FailClosed /\ UNCHANGED <<pulled, framed, queue>>
      BY <1>1 DEF Pull
    <2> QED  BY <1>0, <2>1, FailStep
  <1>2. CASE ~(bytes > MaxChunk)
    <2>1. /\ pulled' = pulled + bytes /\ FrameAndDrain(pulled + bytes)
          /\ pulled + bytes <= EndOf(Len(input))
      BY <1>2 DEF Pull
    <2>2. EndOf(framed) \in Nat /\ EndOf(Len(input)) \in Nat
      BY <1>0, EndIs
    <2>3. EndOf(framed) <= pulled /\ pulled - EndOf(framed) <= MaxLine
      BY <1>0 DEF PumpInv
    <2>4. PICK upto \in Nat : upto = pulled + bytes
      BY <1>0, <1>n, <2>2
    <2>5. EndOf(framed) <= upto /\ upto - EndOf(framed) <= MaxLine + MaxChunk
      BY <1>0, <1>2, <1>n, <2>2, <2>3, <2>4
    <2>6. /\ framed' \in 0..Len(input) /\ pump' \in PumpPlaces /\ readError' \in {readError, "bound"}
          /\ waiters' \subseteq {"pump", "wire"} /\ queue' \in Seq(Items)
          /\ PumpInv' /\ InOrder' /\ (pump' = "settled" => readError' = "bound")
      BY <1>0, <2>1, <2>4, <2>5, FrameEffect DEF hosting
    <2>7. Types'
      <3>1. EndOf(Len(input))' = EndOf(Len(input)) /\ Lines' = Lines /\ Items' = Items
        BY <1>0, InputStays
      <3>2. pulled' \in 0..EndOf(Len(input))
        BY <2>1, <2>2, <2>4
      <3> QED  BY <1>0, <2>6, <3>1, <3>2 DEF Types, TypeOK, hosting
    <2>8. OnceInOrder'
      BY <2>6 DEF OnceInOrder, InOrder
    <2>9. WireInv'
      BY <1>0, <2>6, PumpKeepsWire DEF hosting
    <2> QED  BY <2>6, <2>7, <2>8, <2>9
  <1> QED  BY <1>1, <1>2

LEMMA PumpWakesStep ==
  ASSUME Inv, PumpWakes
  PROVE  Inv'
  <1> USE DEF Inv
  <1>0. /\ input \in Inputs /\ pump = "holding" /\ pump # "settled"
        /\ UNCHANGED <<input, pulled, disposed, hosting>>
        /\ pulled \in 0..EndOf(Len(input)) /\ framed \in 0..Len(input) /\ Len(input) \in Nat
        /\ EndOf(Len(input)) \in Nat
    BY EndIs DEF Types, TypeOK, PumpWakes
  <1>l. EndOf(Len(input))' = EndOf(Len(input)) /\ Lines' = Lines /\ Items' = Items
    BY <1>0, InputStays
  <1>1. CASE NeedsSpace
    <2>1. waiters' = waiters \cup {"pump"} /\ UNCHANGED <<queue, framed, pump, readError>>
      BY <1>1 DEF PumpWakes
    <2>2. Types'
      BY <1>0, <1>l, <2>1 DEF Types, TypeOK, hosting
    <2>3. Texts(1, framed)' = Texts(1, framed) /\ EndOf(framed)' = EndOf(framed)
      BY <1>0, <2>1, InputStays
    <2>4. InOrder' /\ PumpInv'
      BY <1>0, <2>1, <2>3 DEF PumpInv, InOrder, hosting
    <2>5. OnceInOrder'
      BY <2>4 DEF OnceInOrder, InOrder
    <2>6. WireInv'
      BY <1>0, <2>1, PumpKeepsWire DEF hosting
    <2> QED  BY <2>2, <2>4, <2>5, <2>6
  <1>2. CASE ~NeedsSpace
    <2>1. FrameAndDrain(pulled)
      BY <1>2 DEF PumpWakes
    <2>2. EndOf(framed) <= pulled /\ pulled - EndOf(framed) <= MaxLine + MaxChunk
      BY <1>0 DEF PumpInv
    <2>3. pulled \in Nat /\ pulled <= EndOf(Len(input)) /\ pulled' = pulled
      BY <1>0
    <2>6. /\ framed' \in 0..Len(input) /\ pump' \in PumpPlaces /\ readError' \in {readError, "bound"}
          /\ waiters' \subseteq {"pump", "wire"} /\ queue' \in Seq(Items)
          /\ PumpInv' /\ InOrder' /\ (pump' = "settled" => readError' = "bound")
      BY <1>0, <2>1, <2>2, <2>3, FrameEffect DEF hosting
    <2>7. Types'
      BY <1>0, <1>l, <2>6 DEF Types, TypeOK, hosting
    <2>8. OnceInOrder'
      BY <2>6 DEF OnceInOrder, InOrder
    <2>9. WireInv'
      BY <1>0, <2>6, PumpKeepsWire DEF hosting
    <2> QED  BY <2>6, <2>7, <2>8, <2>9
  <1> QED  BY <1>1, <1>2

LEMMA StdinEndsStep ==
  ASSUME Inv, NEW error \in {"none", "stdin"}, StdinEnds(error)
  PROVE  Inv'
  <1> USE DEF Inv
  <1>0. /\ input \in Inputs /\ pump = "pulling" /\ pump' = "ending" /\ readError' = error
        /\ UNCHANGED <<input, pulled, framed, queue, disposed, waiters, hosting>>
    BY DEF Types, TypeOK, StdinEnds, Pulling
  <1>1. /\ EndOf(Len(input))' = EndOf(Len(input)) /\ Lines' = Lines /\ Items' = Items
        /\ Texts(1, framed)' = Texts(1, framed) /\ EndOf(framed)' = EndOf(framed)
        /\ EndOf(framed + 1)' = EndOf(framed + 1)
    BY <1>0, InputStays
  <1>2. Types'
    BY <1>0, <1>1 DEF Types, TypeOK, PumpPlaces, hosting
  <1>3. InOrder' /\ PumpInv'
    BY <1>0, <1>1 DEF PumpInv, InOrder, Rest, hosting
  <1>4. OnceInOrder'
    BY <1>3 DEF OnceInOrder, InOrder
  <1>5. WireInv'
    BY <1>0, PumpKeepsWire DEF hosting
  <1> QED  BY <1>2, <1>3, <1>4, <1>5

\* The last line, when it has no end.
LEMMA TailIs ==
  ASSUME Types, EndOf(framed) <= pulled, Rest
  PROVE  \/ /\ TailText = <<>>
            /\ AllFramed
         \/ /\ framed < Len(input) /\ pulled - EndOf(framed) \in Nat
            /\ TailText = <<Text(framed + 1, pulled - EndOf(framed))>>
            /\ TailText \in Seq(Items)
            /\ \A i \in Lines : EndOf(i - 1) < pulled => i <= framed + 1
  <1>0. /\ input \in Inputs /\ Len(input) \in Nat /\ framed \in 0..Len(input) /\ pulled \in 0..EndOf(Len(input))
        /\ \A k \in 0..Len(input) : EndOf(k) \in Nat
    BY EndIs DEF Types, TypeOK
  <1>1. ASSUME NEW i \in Lines, EndOf(i - 1) < pulled PROVE i <= framed + 1
    <2> SUFFICES ASSUME i > framed + 1 PROVE FALSE
      BY <1>0 DEF Lines
    <2>1. i \in 1..Len(input) /\ framed < Len(input) /\ framed + 1 \in 0..Len(input)
          /\ i - 1 \in 0..Len(input) /\ i - 1 \in (framed + 1)..Len(input)
      BY <1>0 DEF Lines
    <2>2. EndOf(framed + 1) <= EndOf(i - 1)
      BY <1>0, <2>1, EndGrows
    <2>3. pulled < EndOf(framed + 1)
      BY <2>1 DEF Rest
    <2>4. EndOf(framed + 1) \in Nat /\ EndOf(i - 1) \in Nat /\ pulled \in Int
      BY <1>0, <2>1
    <2> QED  BY <1>1, <2>2, <2>3, <2>4
  <1>2. CASE framed = Len(input)
    <2>1. TailText = <<>>
      BY <1>2 DEF TailText
    <2>2. \A i \in Lines : i <= framed
      BY <1>0, <1>2 DEF Lines
    <2> QED  BY <2>1, <2>2 DEF AllFramed
  <1>3. CASE framed # Len(input) /\ pulled = EndOf(framed)
    <2>1. TailText = <<>>
      BY <1>3 DEF TailText
    <2>2. ASSUME NEW i \in Lines, EndOf(i - 1) < pulled PROVE i <= framed
      <3>1. i <= framed + 1 /\ i \in Nat
        BY <1>0, <1>1, <2>2 DEF Lines
      <3>2. i # framed + 1
        <4>1. (framed + 1) - 1 = framed
          BY <1>0
        <4>2. ~(EndOf(framed) < pulled)
          BY <1>0, <1>3
        <4> QED  BY <2>2, <4>1, <4>2
      <3> QED  BY <1>0, <3>1, <3>2
    <2> QED  BY <2>1, <2>2 DEF AllFramed
  <1>4. CASE framed # Len(input) /\ pulled # EndOf(framed)
    <2>1. framed + 1 \in Lines /\ framed < Len(input)
      BY <1>0, <1>4 DEF Lines
    <2>2. PICK b \in Nat : b = pulled - EndOf(framed)
      BY <1>0
    <2>3. PICK t \in Items : t = Text(framed + 1, b)
      BY <1>0, <2>1, TextIs
    <2>4. t.is = "blank" <=> input[framed + 1].is = "blank"
      BY <1>0, <2>1, <2>3, TextIs
    <2>5. TailText = IF t.is = "blank" THEN <<>> ELSE <<t>>
      BY <1>4, <2>2, <2>3 DEF TailText, Push
    <2>6. CASE t.is = "blank"
      <3>1. \A i \in Lines : input[i].is # "blank" => i # framed + 1
        BY <2>4, <2>6
      <3>2. ASSUME NEW i \in Lines, input[i].is # "blank", EndOf(i - 1) < pulled PROVE i <= framed
        <4>1. i <= framed + 1 /\ i # framed + 1 /\ i \in Nat
          BY <1>0, <1>1, <3>1, <3>2 DEF Lines
        <4> QED  BY <1>0, <4>1
      <3> QED  BY <2>5, <2>6, <3>2 DEF AllFramed
    <2>7. CASE t.is # "blank"
      <3>1. <<t>> \in Seq(Items)
        OBVIOUS
      <3> QED  BY <1>1, <2>1, <2>2, <2>3, <2>5, <2>7, <3>1
    <2> QED  BY <2>6, <2>7
  <1> QED  BY <1>2, <1>3, <1>4

LEMMA PumpEndsStep ==
  ASSUME Inv, PumpEnds
  PROVE  Inv'
  <1> USE DEF Inv
  <1>0. /\ input \in Inputs /\ pump = "ending" /\ pump # "settled" /\ Types
        /\ UNCHANGED <<input, pulled, readError, disposed, hosting>>
        /\ framed \in 0..Len(input) /\ Len(input) \in Nat
        /\ InOrder /\ EndOf(framed) <= pulled /\ Rest
        /\ queue \in Seq(Items) /\ held \in Seq(Items) /\ handled \in Seq(Items)
        /\ Len(queue) <= QueueCommands /\ BytesOf(queue) <= QueueBytes
    BY EndIs DEF Types, TypeOK, PumpEnds, PumpInv
  <1>l. EndOf(Len(input))' = EndOf(Len(input)) /\ Lines' = Lines /\ Items' = Items
    BY <1>0, InputStays
  <1>1. CASE ~QueueTakes(TailText)
    <2>1. waiters' = waiters \cup {"pump"} /\ UNCHANGED <<queue, framed, pump>>
      BY <1>1 DEF PumpEnds
    <2>2. Types'
      BY <1>0, <1>l, <2>1 DEF Types, TypeOK, hosting
    <2>3. Texts(1, framed)' = Texts(1, framed) /\ EndOf(framed)' = EndOf(framed) /\ EndOf(framed + 1)' = EndOf(framed + 1)
      BY <1>0, <2>1, InputStays
    <2>4. InOrder' /\ PumpInv'
      BY <1>0, <2>1, <2>3 DEF PumpInv, InOrder, Rest, hosting
    <2>5. OnceInOrder'
      BY <2>4 DEF OnceInOrder, InOrder
    <2>6. WireInv'
      BY <1>0, <2>1, PumpKeepsWire DEF hosting
    <2> QED  BY <2>2, <2>4, <2>5, <2>6
  <1>2. CASE QueueTakes(TailText)
    <2>1. /\ queue' = queue \o TailText
          /\ framed' = IF TailText = <<>> THEN framed ELSE framed + 1
          /\ pump' = "settled" /\ waiters' = {}
      BY <1>2 DEF PumpEnds, RunEnds, Notify
    <2>2. /\ TailText \in Seq(Items) /\ framed' \in 0..Len(input)
          /\ \/ TailText = <<>> /\ framed' = framed /\ AllFramed
             \/ /\ framed' = framed + 1 /\ TailText = <<Text(framed + 1, pulled - EndOf(framed))>>
                /\ \A i \in Lines : EndOf(i - 1) < pulled => i <= framed + 1
      <3>1. CASE TailText = <<>> /\ AllFramed
        <4>1. <<>> \in Seq(Items)
          OBVIOUS
        <4> QED  BY <1>0, <2>1, <3>1, <4>1
      <3>2. CASE /\ framed < Len(input) /\ TailText = <<Text(framed + 1, pulled - EndOf(framed))>>
                 /\ TailText \in Seq(Items)
                 /\ \A i \in Lines : EndOf(i - 1) < pulled => i <= framed + 1
        <4>1. TailText # <<>>
          BY <3>2
        <4>2. framed' = framed + 1
          BY <2>1, <4>1
        <4> QED  BY <1>0, <3>2, <4>2
      <3> QED  BY <1>0, <3>1, <3>2, TailIs
    <2>3. queue' \in Seq(Items) /\ Len(queue') <= QueueCommands /\ BytesOf(queue') <= QueueBytes
      BY <1>0, <1>2, <2>1, <2>2, Takes
    <2>4. Types'
      BY <1>0, <1>l, <2>1, <2>2, <2>3 DEF Types, TypeOK, PumpPlaces, hosting
    <2>5. PumpInv'
      BY <2>1, <2>3 DEF PumpInv
    <2>6. OnceInOrder'
      <3>1. handled' \o held' \o queue' = Texts(1, framed) \o TailText
        <4>1. PICK h \in Seq(Items) : h = handled \o held
          <5>1. PICK a \in Seq(Items) : a = handled
            BY <1>0
          <5>2. PICK b \in Seq(Items) : b = held
            BY <1>0
          <5>3. a \o b \in Seq(Items)
            OBVIOUS
          <5> QED  BY <5>1, <5>2, <5>3
        <4>2. PICK q \in Seq(Items) : q = queue
          BY <1>0
        <4>3. (h \o q) \o TailText = h \o (q \o TailText)
          <5>1. PICK t \in Seq(Items) : t = TailText
            BY <2>2
          <5>2. (h \o q) \o t = h \o (q \o t)
            BY Associative
          <5> QED  BY <5>1, <5>2
        <4>4. handled' = handled /\ held' = held
          BY <1>0 DEF hosting
        <4> QED  BY <1>0, <2>1, <4>1, <4>2, <4>3, <4>4 DEF InOrder
      <3>2. CASE TailText = <<>> /\ framed' = framed
        <4>1. Texts(1, framed) \in Seq(Items)
          BY <1>0, TextsIs
        <4>2. Texts(1, framed) \o TailText = Texts(1, framed)
          BY <3>2, <4>1
        <4>3. Texts(1, framed)' = Texts(1, framed)
          BY <1>0, <3>2, InputStays
        <4> QED  BY <3>1, <4>2, <4>3 DEF OnceInOrder
      <3>3. CASE framed' = framed + 1 /\ TailText = <<Text(framed + 1, pulled - EndOf(framed))>>
        <4>1. framed' - 1 = framed /\ framed' > 0
          BY <1>0, <3>3
        <4>2. Texts(1, framed - 1)' = Texts(1, framed) /\ EndOf(framed - 1)' = EndOf(framed)
          BY <1>0, <4>1, InputStays
        <4>3. Text(framed, pulled - EndOf(framed - 1))' = Text(framed + 1, pulled - EndOf(framed))
          BY <1>0, <3>3, <4>2, InputStays
        <4> QED  BY <2>1, <3>1, <3>3, <4>1, <4>2, <4>3 DEF OnceInOrder
      <3> QED  BY <2>2, <3>2, <3>3
    <2>7. AllFramed'
      <3>1. \A i : EndOf(i - 1)' = EndOf(i - 1)
        BY <1>0, InputStays
      <3>2. \A i \in Lines : input[i].is # "blank" /\ EndOf(i - 1) < pulled => i <= framed'
        BY <2>2 DEF AllFramed
      <3> QED  BY <1>0, <1>l, <3>1, <3>2 DEF AllFramed
    <2>8. WireInv'
      BY <1>0, <2>7, PumpKeepsWire DEF hosting
    <2> QED  BY <2>4, <2>5, <2>6, <2>8
  <1> QED  BY <1>1, <1>2

LEMMA PumpStopsStep ==
  ASSUME Inv, PumpStops
  PROVE  Inv'
  <1> USE DEF Inv
  <1>0. /\ input \in Inputs /\ pump # "settled" /\ disposed
        /\ pump' = "settled" /\ waiters' = {}
        /\ UNCHANGED <<input, pulled, framed, readError, queue, disposed, hosting>>
    BY DEF Types, TypeOK, PumpStops, RunEnds, Notify
  <1>1. Types'
    <2>1. EndOf(Len(input))' = EndOf(Len(input)) /\ Lines' = Lines /\ Items' = Items
      BY <1>0, InputStays
    <2> QED  BY <1>0, <2>1 DEF Types, TypeOK, PumpPlaces, hosting
  <1>2. OnceInOrder'
    <2>1. InOrder
      BY <1>0 DEF PumpInv
    <2>2. Texts(1, framed)' = Texts(1, framed)
      BY <1>0, InputStays
    <2> QED  BY <1>0, <2>1, <2>2 DEF OnceInOrder, InOrder, hosting
  <1>3. PumpInv'
    BY <1>0 DEF PumpInv
  <1>4. Closed
    BY <1>0 DEF WireInv
  <1>5. WireInv'
    BY <1>0, <1>4, PumpKeepsWire DEF hosting
  <1> QED  BY <1>1, <1>2, <1>3, <1>5

-----------------------------------------------------------------------------
(* The steps of the wire.                                                  *)

\* A step that leaves the pump and the order alone.
LEMMA WireKeeps ==
  ASSUME Types, PumpInv, OnceInOrder, UNCHANGED pumping,
         handled' \o held' \o queue' = handled \o held \o queue,
         Len(queue') <= QueueCommands, BytesOf(queue') <= QueueBytes
  PROVE  PumpInv' /\ OnceInOrder' /\ (AllFramed' <=> AllFramed)
  <1>0. UNCHANGED <<input, pulled, framed, pump, readError>>
    BY DEF pumping
  <1>1. /\ Lines' = Lines /\ \A k : EndOf(k)' = EndOf(k)
        /\ \A k, b : Text(k, b)' = Text(k, b)
        /\ \A f, t : Texts(f, t)' = Texts(f, t)
    BY <1>0, InputStays
  <1>2. /\ EndOf(framed)' = EndOf(framed) /\ EndOf(framed + 1)' = EndOf(framed + 1)
        /\ EndOf(framed - 1)' = EndOf(framed - 1)
        /\ Texts(1, framed)' = Texts(1, framed) /\ Texts(1, framed - 1)' = Texts(1, framed - 1)
    BY <1>0, <1>1
  <1>3. Text(framed, pulled - EndOf(framed - 1))' = Text(framed, pulled - EndOf(framed - 1))
    BY <1>0, <1>1, <1>2
  <1>4. PumpInv'
    BY <1>0, <1>2 DEF PumpInv, InOrder, Rest
  <1>5. OnceInOrder'
    BY <1>0, <1>2, <1>3 DEF OnceInOrder
  <1>6. AllFramed' <=> AllFramed
    BY <1>0, <1>1 DEF AllFramed
  <1> QED  BY <1>4, <1>5, <1>6

LEMMA LaunchedStep ==
  ASSUME Inv, Launched
  PROVE  Inv'
  <1> USE DEF Inv
  <1>0. /\ wire = "launching" /\ UNCHANGED <<pumping, queue, disposed, waiters, held, handled>>
        /\ input \in Inputs /\ input' = input
        /\ \/ wire' = "reading" /\ session' = "open" /\ tail' = "open" /\ inFlight' \in {{}, {AutoTask}} /\ clean' = clean
           \/ wire' = "refused" /\ clean' = FALSE /\ UNCHANGED <<session, tail, inFlight>>
    BY DEF Launched, Types, TypeOK, pumping
  <1>1. PumpInv' /\ OnceInOrder' /\ (AllFramed' <=> AllFramed)
    <2>1. Len(queue') <= QueueCommands /\ BytesOf(queue') <= QueueBytes
      BY <1>0 DEF PumpInv
    <2> QED  BY <1>0, <2>1, WireKeeps
  <1>2. EndOf(Len(input))' = EndOf(Len(input)) /\ Lines' = Lines /\ Items' = Items
    BY <1>0, InputStays
  <1>3. Types'
    BY <1>0, <1>2 DEF Types, TypeOK, WirePlaces, pumping
  <1>4. WireInv'
    BY <1>0, <1>1 DEF WireInv, Closed, pumping
  <1> QED  BY <1>1, <1>3, <1>4

LEMMA ReadsStep ==
  ASSUME Inv, Reads
  PROVE  Inv'
  <1> USE DEF Inv
  <1>0. /\ wire = "reading" /\ UNCHANGED <<pumping, disposed, handled, inFlight, session, tail>>
        /\ input \in Inputs /\ input' = input
        /\ queue \in Seq(Items) /\ held \in Seq(Items) /\ handled \in Seq(Items) /\ held = <<>>
        /\ Len(queue) <= QueueCommands /\ BytesOf(queue) <= QueueBytes
    BY DEF Reads, Types, TypeOK, pumping, WireInv, PumpInv
  <1>2. EndOf(Len(input))' = EndOf(Len(input)) /\ Lines' = Lines /\ Items' = Items
    BY <1>0, InputStays
  <1>3. CASE queue # <<>>
    <2>1. PICK q \in Seq(Items) : q = queue
      BY <1>0
    <2>2. PICK h \in Items, r \in Seq(Items) : h = Head(q) /\ r = Tail(q) /\ q = <<h>> \o r /\ Len(r) <= Len(q)
      <3>1. Head(q) \in Items /\ Tail(q) \in Seq(Items) /\ q = <<Head(q)>> \o Tail(q) /\ Len(Tail(q)) <= Len(q)
        BY <1>3, <2>1
      <3> QED  BY <3>1
    <2>3. wire' = "handling" /\ held' = <<h>> /\ queue' = r /\ waiters' = {} /\ clean' = clean
      BY <1>3, <2>1, <2>2 DEF Reads, Take, Notify
    <2>4. <<h>> \in Seq(Items) /\ <<h>> # <<>> /\ Len(<<h>>) <= 1
      OBVIOUS
    <2>5. BytesOf(r) <= QueueBytes /\ Len(r) <= QueueCommands
      <3>1. BytesOf(r) <= BytesOf(q) /\ BytesOf(r) \in Nat /\ BytesOf(q) \in Nat
        BY <1>0, <1>3, <2>1, <2>2, ItemBytes
      <3>2. Len(r) \in Nat /\ Len(q) \in Nat /\ QueueBytes \in Nat /\ QueueCommands \in Nat
        BY AttachWireAssumption
      <3> QED  BY <1>0, <2>1, <2>2, <3>1, <3>2
    <2>6. handled' \o held' \o queue' = handled \o held \o queue
      <3>1. PICK a \in Seq(Items) : a = handled
        BY <1>0
      <3>2. PICK b \in Seq(Items) : b = <<h>>
        BY <2>4
      <3>3. (a \o b) \o r = a \o (b \o r)
        BY Associative
      <3>4. a \o <<>> = a
        OBVIOUS
      <3> QED  BY <1>0, <2>1, <2>2, <2>3, <3>1, <3>2, <3>3, <3>4
    <2>7. PumpInv' /\ OnceInOrder' /\ (AllFramed' <=> AllFramed)
      BY <1>0, <2>3, <2>5, <2>6, WireKeeps
    <2>8. Types'
      BY <1>0, <1>2, <2>3, <2>4 DEF Types, TypeOK, WirePlaces, pumping
    <2>9. WireInv'
      BY <1>0, <2>3, <2>4, <2>7 DEF WireInv, Closed, pumping
    <2> QED  BY <2>7, <2>8, <2>9
  <1>4. CASE queue = <<>> /\ pump = "settled"
    <2>1. wire' = "draining" /\ clean' = (clean /\ readError = "none") /\ UNCHANGED <<held, queue, waiters>>
      BY <1>4 DEF Reads, Drain
    <2>2. PumpInv' /\ OnceInOrder' /\ (AllFramed' <=> AllFramed)
      BY <1>0, <2>1, WireKeeps
    <2>3. Types'
      <3>1. clean' \in BOOLEAN
        BY <2>1
      <3> QED  BY <1>0, <1>2, <2>1, <3>1 DEF Types, TypeOK, WirePlaces, pumping
    <2>4. clean' => readError = "none"
      BY <2>1
    <2>5. WireInv'
      BY <1>0, <1>4, <2>1, <2>2, <2>4 DEF WireInv, Closed, pumping
    <2> QED  BY <2>2, <2>3, <2>5
  <1>5. CASE queue = <<>> /\ pump # "settled"
    <2>1. waiters' = waiters \cup {"wire"} /\ UNCHANGED <<queue, wire, held, clean>>
      BY <1>5 DEF Reads
    <2>2. PumpInv' /\ OnceInOrder' /\ (AllFramed' <=> AllFramed)
      BY <1>0, <2>1, WireKeeps
    <2>3. Types'
      BY <1>0, <1>2, <2>1 DEF Types, TypeOK, pumping
    <2>4. WireInv'
      BY <1>0, <2>1, <2>2 DEF WireInv, Closed, pumping
    <2> QED  BY <2>2, <2>3, <2>4
  <1> QED  BY <1>3, <1>4, <1>5

LEMMA HandlesStep ==
  ASSUME Inv, Handles
  PROVE  Inv'
  <1> USE DEF Inv
  <1>0. /\ wire = "handling" /\ UNCHANGED <<pumping, queue, disposed, waiters, session, tail>>
        /\ input \in Inputs /\ input' = input
        /\ queue \in Seq(Items) /\ held \in Seq(Items) /\ handled \in Seq(Items)
        /\ held # <<>> /\ Len(held) <= 1
        /\ Len(queue) <= QueueCommands /\ BytesOf(queue) <= QueueBytes
    BY DEF Handles, Types, TypeOK, pumping, WireInv, PumpInv
  <1>1. PICK h \in Items : held = <<h>> /\ held[1] = h
    <2>1. PICK b \in Seq(Items) : b = held
      BY <1>0
    <2>2. b # <<>> /\ Len(b) <= 1
      BY <1>0, <2>1
    <2>3. Len(b) = 1
      <3>1. Len(b) = 0 => b = <<>>
        OBVIOUS
      <3>2. Len(b) \in Nat
        OBVIOUS
      <3>3. Len(b) # 0
        BY <2>2, <3>1, Zenon
      <3>4. Len(b) <= 1
        BY <2>2
      <3> QED  BY <3>2, <3>3, <3>4
    <2>4. b[1] \in Items /\ b = <<b[1]>>
      BY <2>3
    <2> QED  BY <2>1, <2>4
  <1>2. EndOf(Len(input))' = EndOf(Len(input)) /\ Lines' = Lines /\ Items' = Items
    BY <1>0, InputStays
  <1>3. PICK a \in Seq(Items) : a = handled
    BY <1>0
  <1>4. /\ held' = <<>> /\ handled' = Append(a, h)
        /\ wire' = (IF h.is = "close" THEN "closing" ELSE "reading")
        /\ inFlight' = (IF h.is = "command" THEN inFlight \cup {h.line} ELSE inFlight)
        /\ clean' = (clean /\ h.is # "invalid")
    BY <1>1, <1>3 DEF Handles
  <1>5. <<>> \in Seq(Items) /\ Append(a, h) \in Seq(Items)
    OBVIOUS
  <1>6. handled' \o held' \o queue' = handled \o held \o queue
    <2>1. Append(a, h) \o <<>> = Append(a, h) /\ a \o <<h>> = Append(a, h)
      OBVIOUS
    <2> QED  BY <1>0, <1>1, <1>3, <1>4, <2>1
  <1>7. PumpInv' /\ OnceInOrder' /\ (AllFramed' <=> AllFramed)
    BY <1>0, <1>6, WireKeeps
  <1>8. Types'
    <2>1. clean' \in BOOLEAN
      BY <1>4
    <2>2. inFlight' \subseteq Lines \cup {AutoTask}
      <3>1. h.line \in Lines
        BY DEF Items
      <3>2. inFlight \subseteq Lines \cup {AutoTask}
        BY DEF Types, TypeOK
      <3> QED  BY <1>4, <3>1, <3>2
    <2>3. wire' \in WirePlaces /\ Len(held') <= 1
      BY <1>4 DEF WirePlaces
    <2> QED  BY <1>0, <1>2, <1>4, <1>5, <2>1, <2>2, <2>3 DEF Types, TypeOK, pumping
  <1>9. Closed => Closed'
    <2> SUFFICES ASSUME Closed PROVE Closed'
      OBVIOUS
    <2>1. PICK n \in DOMAIN a : a[n].is = "close"
      BY <1>3 DEF Closed
    <2>2. n \in DOMAIN Append(a, h) /\ Append(a, h)[n] = a[n]
      OBVIOUS
    <2> QED  BY <1>4, <2>1, <2>2 DEF Closed
  <1>10. h.is = "close" => Closed'
    <2>1. Len(a) + 1 \in DOMAIN Append(a, h) /\ Append(a, h)[Len(a) + 1] = h
      OBVIOUS
    <2> QED  BY <1>4, <2>1 DEF Closed
  <1>11. WireInv'
    <2>1. UNCHANGED <<pump, readError, disposed, session, tail>>
      BY <1>0 DEF pumping
    <2>2. wire' \in {"closing", "reading"} /\ (wire' = "closing" => Closed')
      BY <1>4, <1>10
    <2>3. disposed => Closed \/ pump = "settled"
      BY DEF WireInv
    <2>4. pump = "settled" /\ readError # "bound" => AllFramed \/ Closed
      BY DEF WireInv
    <2> QED  BY <1>4, <1>7, <1>9, <2>1, <2>2, <2>3, <2>4 DEF WireInv
  <1> QED  BY <1>7, <1>8, <1>11

\* The steps that leave every line where it is.
Rests == UNCHANGED <<pumping, queue, held, handled>>

LEMMA RestsKeeps ==
  ASSUME Inv, Rests
  PROVE  /\ PumpInv' /\ OnceInOrder'
         /\ (AllFramed' <=> AllFramed) /\ (Closed' <=> Closed)
         /\ UNCHANGED <<input, pulled, framed, pump, readError>>
         /\ EndOf(Len(input))' = EndOf(Len(input)) /\ Lines' = Lines /\ Items' = Items
  <1> USE DEF Inv
  <1>1. UNCHANGED pumping /\ UNCHANGED <<input, pulled, framed, pump, readError>> /\ UNCHANGED <<queue, held, handled>>
    BY DEF Rests, pumping
  <1>2. Len(queue') <= QueueCommands /\ BytesOf(queue') <= QueueBytes
    BY <1>1 DEF PumpInv
  <1>3. PumpInv' /\ OnceInOrder' /\ (AllFramed' <=> AllFramed)
    BY <1>1, <1>2, WireKeeps
  <1>4. EndOf(Len(input))' = EndOf(Len(input)) /\ Lines' = Lines /\ Items' = Items
    BY <1>1, InputStays
  <1> QED  BY <1>1, <1>3, <1>4 DEF Closed

LEMMA SettleStep ==
  ASSUME Inv, NEW k \in Lines \cup {AutoTask}, Settle(k)
  PROVE  Inv'
  <1> USE DEF Inv
  <1>1. /\ Rests /\ inFlight' = inFlight \ {k} /\ clean' \in {clean, FALSE}
        /\ UNCHANGED <<disposed, waiters, wire, session, tail>>
    BY DEF Settle, Rests
  <1>2. /\ PumpInv' /\ OnceInOrder'
        /\ (AllFramed' <=> AllFramed) /\ (Closed' <=> Closed)
        /\ UNCHANGED <<input, pulled, framed, pump, readError>> /\ UNCHANGED <<queue, held, handled>>
        /\ EndOf(Len(input))' = EndOf(Len(input)) /\ Lines' = Lines /\ Items' = Items
    BY <1>1, RestsKeeps DEF Rests
  <1>3. clean' \in BOOLEAN /\ (clean' => clean)
    <2>1. clean \in BOOLEAN
      BY DEF Types, TypeOK
    <2>2. clean' = clean \/ clean' = FALSE
      BY <1>1
    <2>3. CASE clean' = FALSE
      BY <2>3
    <2>4. CASE clean' = clean
      BY <2>1, <2>4
    <2> QED  BY <2>2, <2>3, <2>4
  <1>4. Types'
    BY <1>1, <1>2, <1>3 DEF Types, TypeOK
  <1>5. WireInv'
    BY <1>1, <1>2, <1>3 DEF WireInv
  <1> QED  BY <1>2, <1>4, <1>5

LEMMA ClosesAtEofStep ==
  ASSUME Inv, ClosesAtEof
  PROVE  Inv'
  <1> USE DEF Inv
  <1>1. /\ Rests /\ wire = "draining" /\ inFlight = {} /\ wire' = "closingEof"
        /\ UNCHANGED <<disposed, waiters, inFlight, session, tail, clean>>
    BY DEF ClosesAtEof, Rests, Drained
  <1>2. /\ PumpInv' /\ OnceInOrder'
        /\ (AllFramed' <=> AllFramed) /\ (Closed' <=> Closed)
        /\ UNCHANGED <<input, pulled, framed, pump, readError>> /\ UNCHANGED <<queue, held, handled>>
        /\ EndOf(Len(input))' = EndOf(Len(input)) /\ Lines' = Lines /\ Items' = Items
    BY <1>1, RestsKeeps DEF Rests
  <1>4. Types'
    BY <1>1, <1>2 DEF Types, TypeOK, WirePlaces
  <1>5. WireInv'
    BY <1>1, <1>2 DEF WireInv
  <1> QED  BY <1>2, <1>4, <1>5

LEMMA CloseReturnsStep ==
  ASSUME Inv, CloseReturns
  PROVE  Inv'
  <1> USE DEF Inv
  <1>1. /\ Rests /\ wire \in {"closing", "closingEof"} /\ session' = "finished" /\ wire' = "settling"
        /\ clean' \in {clean, FALSE}
        /\ UNCHANGED <<inFlight, tail>>
        /\ IF wire = "closing" THEN disposed' = TRUE /\ waiters' = {} ELSE UNCHANGED <<disposed, waiters>>
    BY DEF CloseReturns, Rests, Notify
  <1>2. /\ PumpInv' /\ OnceInOrder'
        /\ (AllFramed' <=> AllFramed) /\ (Closed' <=> Closed)
        /\ UNCHANGED <<input, pulled, framed, pump, readError>> /\ UNCHANGED <<queue, held, handled>>
        /\ EndOf(Len(input))' = EndOf(Len(input)) /\ Lines' = Lines /\ Items' = Items
    BY <1>1, RestsKeeps DEF Rests
  <1>3. clean' \in BOOLEAN /\ (clean' => clean) /\ disposed' \in BOOLEAN /\ waiters' \subseteq {"pump", "wire"}
    <2>1. clean \in BOOLEAN /\ disposed \in BOOLEAN /\ waiters \subseteq {"pump", "wire"}
      BY DEF Types, TypeOK
    <2>2. clean' = clean \/ clean' = FALSE
      BY <1>1
    <2>3. clean' \in BOOLEAN /\ (clean' => clean)
      <3>1. CASE clean' = FALSE
        BY <3>1
      <3>2. CASE clean' = clean
        BY <2>1, <3>2
      <3> QED  BY <2>2, <3>1, <3>2
    <2>4. disposed' \in BOOLEAN /\ waiters' \subseteq {"pump", "wire"}
      BY <1>1, <2>1
    <2> QED  BY <2>3, <2>4
  <1>4. Types'
    BY <1>1, <1>2, <1>3 DEF Types, TypeOK, WirePlaces
  <1>5. CASE wire = "closing"
    <2>1. Closed /\ wire # "handling"
      BY <1>5 DEF WireInv
    <2>2. WireInv'
      BY <1>1, <1>2, <2>1 DEF WireInv
    <2> QED  BY <1>2, <1>4, <2>2
  <1>6. CASE wire = "closingEof"
    <2>1. UNCHANGED <<disposed, waiters>>
      BY <1>1, <1>6
    <2>2. WireInv'
      BY <1>1, <1>2, <1>3, <1>6, <2>1 DEF WireInv
    <2> QED  BY <1>2, <1>4, <2>2
  <1> QED  BY <1>1, <1>5, <1>6

LEMMA ProviderEndsStep ==
  ASSUME Inv, ProviderEnds
  PROVE  Inv'
  <1> USE DEF Inv
  <1>1. /\ Rests /\ session' = "finished"
        /\ UNCHANGED <<disposed, waiters, wire, inFlight, tail, clean>>
    BY DEF ProviderEnds, Rests
  <1>2. /\ PumpInv' /\ OnceInOrder'
        /\ (AllFramed' <=> AllFramed) /\ (Closed' <=> Closed)
        /\ UNCHANGED <<input, pulled, framed, pump, readError>> /\ UNCHANGED <<queue, held, handled>>
        /\ EndOf(Len(input))' = EndOf(Len(input)) /\ Lines' = Lines /\ Items' = Items
    BY <1>1, RestsKeeps DEF Rests
  <1>4. Types'
    BY <1>1, <1>2 DEF Types, TypeOK
  <1>5. WireInv'
    BY <1>1, <1>2 DEF WireInv
  <1> QED  BY <1>2, <1>4, <1>5

LEMMA TailEndsStep ==
  ASSUME Inv, TailEnds
  PROVE  Inv'
  <1> USE DEF Inv
  <1>1. /\ Rests /\ tail = "open" /\ tail' = "ended" /\ clean' \in {clean, FALSE}
        /\ UNCHANGED <<disposed, waiters, wire, inFlight, session>>
    BY DEF TailEnds, Rests
  <1>2. /\ PumpInv' /\ OnceInOrder'
        /\ (AllFramed' <=> AllFramed) /\ (Closed' <=> Closed)
        /\ UNCHANGED <<input, pulled, framed, pump, readError>> /\ UNCHANGED <<queue, held, handled>>
        /\ EndOf(Len(input))' = EndOf(Len(input)) /\ Lines' = Lines /\ Items' = Items
    BY <1>1, RestsKeeps DEF Rests
  <1>3. clean' \in BOOLEAN /\ (clean' => clean)
    <2>1. clean \in BOOLEAN
      BY DEF Types, TypeOK
    <2>2. clean' = clean \/ clean' = FALSE
      BY <1>1
    <2>3. CASE clean' = FALSE
      BY <2>3
    <2>4. CASE clean' = clean
      BY <2>1, <2>4
    <2> QED  BY <2>2, <2>3, <2>4
  <1>4. Types'
    BY <1>1, <1>2, <1>3 DEF Types, TypeOK
  <1>5. WireInv'
    BY <1>1, <1>2, <1>3 DEF WireInv
  <1> QED  BY <1>2, <1>4, <1>5

LEMMA ExitsStep ==
  ASSUME Inv, Exits
  PROVE  Inv'
  <1> USE DEF Inv
  <1>1. /\ Rests /\ wire = "settling" /\ inFlight = {} /\ tail = "ended"
        /\ wire' = "exited" /\ disposed' = TRUE /\ waiters' = {}
        /\ UNCHANGED <<inFlight, session, tail, clean>>
    BY DEF Exits, Rests, AllSettled, Notify
  <1>2. /\ PumpInv' /\ OnceInOrder'
        /\ (AllFramed' <=> AllFramed) /\ (Closed' <=> Closed)
        /\ UNCHANGED <<input, pulled, framed, pump, readError>> /\ UNCHANGED <<queue, held, handled>>
        /\ EndOf(Len(input))' = EndOf(Len(input)) /\ Lines' = Lines /\ Items' = Items
    BY <1>1, RestsKeeps DEF Rests
  <1>4. Types'
    BY <1>1, <1>2 DEF Types, TypeOK, WirePlaces
  <1>5. WireInv'
    BY <1>1, <1>2 DEF WireInv
  <1> QED  BY <1>2, <1>4, <1>5

-----------------------------------------------------------------------------
(* What holds.                                                             *)

LEMMA Starts == Init => Inv
  <1> SUFFICES ASSUME Init PROVE Inv
    OBVIOUS
  <1>1. /\ input \in Inputs /\ Len(input) \in Nat /\ EndOf(0) = 0
        /\ \A k \in 0..Len(input) : EndOf(k) \in Nat
        /\ \A k \in Lines : EndOf(k) = EndOf(k - 1) + input[k].bytes + 1 /\ input[k].bytes \in Nat
    BY EndIs DEF Init
  <1>2. <<>> \in Seq(Items) /\ Len(<<>>) = 0
    OBVIOUS
  <1>3. Texts(1, 0) = <<>>
    BY <1>1, TextsIs
  <1>4. <<>> \o <<>> \o <<>> = <<>>
    OBVIOUS
  <1>5. InOrder
    BY <1>3, <1>4 DEF Init, InOrder
  <1>6. QueueCommands \in Nat /\ QueueBytes \in Nat /\ MaxLine \in Nat
    BY AttachWireAssumption
  <1>7. Types
    <2>1. 0 \in 0..EndOf(Len(input)) /\ 0 \in 0..Len(input)
      BY <1>1
    <2>2. /\ queue = <<>> /\ held = <<>> /\ handled = <<>> /\ pulled = 0 /\ framed = 0
          /\ disposed \in BOOLEAN /\ clean \in BOOLEAN /\ waiters = {} /\ inFlight = {}
      BY DEF Init
    <2>3. queue \in Seq(Items) /\ held \in Seq(Items) /\ handled \in Seq(Items) /\ Len(held) <= 1
      BY <1>2, <2>2
    <2>4. /\ pump \in PumpPlaces /\ readError \in {"none", "bound", "stdin"} /\ wire \in WirePlaces
          /\ session \in {"none", "open", "finished"} /\ tail \in {"none", "open", "ended"}
      BY DEF Init, PumpPlaces, WirePlaces
    <2> QED  BY <1>1, <2>1, <2>2, <2>3, <2>4 DEF Types, TypeOK
  <1>8. Rest
    <2> SUFFICES ASSUME 0 < Len(input) PROVE 0 < EndOf(0 + 1)
      BY DEF Init, Rest
    <2>1. 1 \in Lines /\ 1 - 1 = 0
      BY <1>1 DEF Lines
    <2> QED  BY <1>1, <2>1
  <1>9. PumpInv
    BY <1>1, <1>2, <1>5, <1>6, <1>8, BytesOfNone DEF Init, PumpInv
  <1>10. WireInv
    BY DEF Init, WireInv
  <1> QED  BY <1>5, <1>7, <1>9, <1>10 DEF Inv, OnceInOrder, InOrder

LEMMA StepKeeps == Inv /\ [Next]_vars => Inv'
  <1> SUFFICES ASSUME Inv, [Next]_vars PROVE Inv'
    OBVIOUS
  <1>1. ASSUME NEW bytes \in 1..(MaxChunk + 1), Pull(bytes) PROVE Inv'
    BY <1>1, PullStep
  <1>2. ASSUME NEW error \in {"none", "stdin"}, StdinEnds(error) PROVE Inv'
    BY <1>2, StdinEndsStep
  <1>3. ASSUME NEW k \in Lines \cup {AutoTask}, Settle(k) PROVE Inv'
    BY <1>3, SettleStep
  <1>4. CASE PumpStep
    BY <1>4, PumpWakesStep, PumpEndsStep, PumpStopsStep DEF PumpStep
  <1>5. CASE WireStep
    BY <1>5, LaunchedStep, ReadsStep, HandlesStep, ClosesAtEofStep, CloseReturnsStep, TailEndsStep, ExitsStep
       DEF WireStep
  <1>6. CASE ProviderEnds
    BY <1>6, ProviderEndsStep
  <1>7. CASE UNCHANGED vars
    <2> USE DEF Inv
    <2>1. Rests /\ UNCHANGED <<disposed, waiters, wire, inFlight, session, tail, clean>>
      BY <1>7 DEF vars, hosting, Rests
    <2>2. /\ PumpInv' /\ OnceInOrder'
          /\ (AllFramed' <=> AllFramed) /\ (Closed' <=> Closed)
          /\ UNCHANGED <<input, pulled, framed, pump, readError>> /\ UNCHANGED <<queue, held, handled>>
          /\ EndOf(Len(input))' = EndOf(Len(input)) /\ Lines' = Lines /\ Items' = Items
      BY <2>1, RestsKeeps DEF Rests
    <2>3. Types'
      BY <2>1, <2>2 DEF Types, TypeOK
    <2>4. WireInv'
      BY <2>1, <2>2 DEF WireInv
    <2> QED  BY <2>2, <2>3, <2>4
  <1> QED  BY <1>1, <1>2, <1>3, <1>4, <1>5, <1>6, <1>7 DEF Next

LEMMA Invariant == Spec => []Inv
  <1> QED  BY Starts, StepKeeps, PTL DEF Spec

LEMMA LinesHandled ==
  ASSUME Inv, wire = "exited", clean, ~Closed,
         NEW i \in Lines, input[i].is # "blank", EndOf(i - 1) < pulled
  PROVE  \E n \in DOMAIN handled : handled[n].line = i
  <1> USE DEF Inv
  <1>1. /\ input \in Inputs /\ Len(input) \in Nat /\ framed \in 0..Len(input)
        /\ i \in Nat /\ i >= 1
    BY EndIs DEF Types, TypeOK, Lines
  <1>2. i <= framed /\ pump = "settled"
    BY DEF WireInv, AllFramed
  <1>3. handled \o held \o queue = handled
    <2>1. queue = <<>> /\ held = <<>>
      BY DEF WireInv
    <2>2. PICK a \in Seq(Items) : a = handled
      BY DEF Types
    <2>3. a \o <<>> \o <<>> = a
      OBVIOUS
    <2> QED  BY <2>1, <2>2, <2>3
  <1>4. CASE handled = Texts(1, framed)
    <2>1. i \in 1..framed
      BY <1>1, <1>2
    <2> QED  BY <1>1, <1>4, <2>1, TextsHave
  <1>5. CASE framed > 0 /\ handled = Texts(1, framed - 1) \o <<Text(framed, pulled - EndOf(framed - 1))>>
    <2>1. PICK t : t = Text(framed, pulled - EndOf(framed - 1)) /\ t.line = framed
      <3>1. \A b : Text(framed, b).line = framed
        BY DEF Text
      <3> QED  BY <3>1
    <2>2. PICK s \in Seq(Items) : s = Texts(1, framed - 1)
      <3>1. framed - 1 \in 0..Len(input)
        BY <1>1, <1>5
      <3> QED  BY <1>1, <3>1, TextsIs
    <2>3. handled = s \o <<t>>
      BY <1>5, <2>1, <2>2
    <2>4. CASE i = framed
      <3>1. Len(s) + 1 \in DOMAIN (s \o <<t>>) /\ (s \o <<t>>)[Len(s) + 1] = t
        OBVIOUS
      <3> QED  BY <2>1, <2>3, <2>4, <3>1
    <2>5. CASE i # framed
      <3>1. framed - 1 \in 0..Len(input) /\ i \in 1..(framed - 1)
        BY <1>1, <1>2, <1>5, <2>5
      <3>2. PICK n \in DOMAIN s : s[n].line = i
        BY <1>1, <2>2, <3>1, TextsHave
      <3>3. n \in DOMAIN (s \o <<t>>) /\ (s \o <<t>>)[n] = s[n]
        OBVIOUS
      <3> QED  BY <2>3, <3>2, <3>3
    <2> QED  BY <2>4, <2>5
  <1> QED  BY <1>3, <1>4, <1>5 DEF OnceInOrder

\* The bounds are hard (attach-io.ts:17-30): whatever a host writes and however it is
\* cut into chunks, the queue stays within both its bounds, a pump that pulls holds one
\* partial line within the bound, and one that holds at most a chunk more.
THEOREM HardBoundsAlways == Spec => []HardBounds
  <1>1. Inv => HardBounds
    <2> SUFFICES ASSUME Inv PROVE HardBounds
      OBVIOUS
    <2>1. pump = "pulling" => ~LineWaits
      <3> SUFFICES ASSUME pump = "pulling", framed < Len(input) PROVE ~(EndOf(framed + 1) <= pulled)
        BY DEF LineWaits, HasLine
      <3>1. pulled < EndOf(framed + 1)
        BY DEF Inv, PumpInv, Rest
      <3>2. input \in Inputs /\ framed + 1 \in 0..Len(input) /\ pulled \in Int
        BY EndIs DEF Inv, Types, TypeOK
      <3>3. EndOf(framed + 1) \in Nat
        BY <3>2, EndIs
      <3> QED  BY <3>1, <3>2, <3>3
    <2> QED  BY <2>1 DEF Inv, Types, PumpInv, HardBounds
  <1> QED  BY <1>1, Invariant, PTL

\* Every line that was framed is handled once and in order, or still queued, and the
\* unterminated rest comes last (runAttachWire, next).
THEOREM OnceInOrderAlways == Spec => []OnceInOrder
  <1>1. Inv => OnceInOrder
    BY DEF Inv
  <1> QED  BY <1>1, Invariant, PTL

\* A wire that exits well by the end of stdin has handled all that it was written.
THEOREM NothingLostSilentlyAlways == Spec => []NothingLostSilently
  <1>1. Inv => NothingLostSilently
    BY LinesHandled DEF NothingLostSilently, Closed
  <1> QED  BY <1>1, Invariant, PTL

\* The end of stdin closes the session over no command, and a wire that exited has
\* nothing left to tell (cli.ts:554-556).
THEOREM EofIsNoCancelAlways == Spec => []EofIsNoCancel
  <1>1. Inv => EofIsNoCancel
    BY DEF Inv, WireInv, EofIsNoCancel
  <1> QED  BY <1>1, Invariant, PTL

=============================================================================
