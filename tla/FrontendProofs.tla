---------------------------- MODULE FrontendProofs ----------------------------
(***************************************************************************)
(* What a program on top of the library does with its command line, with   *)
(* paths and with the differences it shows, for arguments, paths and lines *)
(* of every length.                                                        *)
(***************************************************************************)
EXTENDS Frontend, FiniteSetTheorems, SequenceTheorems, WellFoundedInduction, TLAPS

------------------------------------------------------------------------------
(* Induction, from the least counterexample.                               *)
LEMMA Induction ==
  ASSUME NEW S, 0 \in S, \A n \in Nat : n \in S => n + 1 \in S
  PROVE  Nat \subseteq S
<1> DEFINE T == {n \in Nat : n \notin S}
           Less == OpToRel(<, Nat)
<1>1. SUFFICES ASSUME T # {}
               PROVE  FALSE
  OBVIOUS
<1>2. IsWellFoundedOn(Less, Nat)
  BY NatLessThanWellFounded
<1>3. \A x, y \in Nat : x < y => <<x, y>> \in Less
  BY DEF OpToRel
<1>4. T \subseteq Nat
  OBVIOUS
<1> HIDE DEF Less
<1>5. PICK n \in T : \A y \in T : ~ (<<y, n>> \in Less)
  <2> HIDE DEF T
  <2> QED
    BY <1>1, <1>2, <1>4, WFMin
<1>6. n \in Nat /\ n # 0 /\ n - 1 \in Nat /\ n - 1 < n
  OBVIOUS
<1>7. n - 1 \in T
  BY <1>6, (n - 1) + 1 = n
<1>8. <<n - 1, n>> \in Less
  BY <1>3, <1>6
<1> QED
  BY <1>5, <1>7, <1>8, Zenon

(* The greatest and the least of some positions.                           *)
LEMMA Greatest ==
  ASSUME NEW n \in Nat, NEW t \in SUBSET (1 .. n), t # {}
  PROVE  Max(t) \in t /\ \A y \in t : y <= Max(t)
<1> DEFINE S == {m \in Nat : \A u \in SUBSET (1 .. m) : u # {} => \E x \in u : \A y \in u : x >= y}
<1>1. 0 \in S
  BY 1 .. 0 = {}
<1>2. ASSUME NEW m \in Nat, m \in S
      PROVE  m + 1 \in S
  <2> SUFFICES ASSUME NEW u \in SUBSET (1 .. m + 1), u # {}
               PROVE  \E x \in u : \A y \in u : x >= y
    OBVIOUS
  <2>1. CASE m + 1 \in u
    BY <2>1
  <2>2. CASE m + 1 \notin u
    <3>1. u \in SUBSET (1 .. m)
      BY <2>2
    <3> QED
      BY <1>2, <3>1
  <2> QED
    BY <2>1, <2>2
<1> HIDE DEF S
<1>3. n \in S
  BY <1>1, <1>2, Induction
<1>4. \E x \in t : \A y \in t : x >= y
  BY <1>3 DEF S
<1> QED
  BY <1>4 DEF Max

LEMMA Least ==
  ASSUME NEW n \in Nat, NEW t \in SUBSET (1 .. n), t # {}
  PROVE  Min(t) \in t /\ \A y \in t : Min(t) <= y
<1> DEFINE u == {n + 1 - x : x \in t}
<1>1. u \in SUBSET (1 .. n) /\ u # {}
  <2>1. \A x \in t : x \in Int /\ n + 1 - x \in 1 .. n
    OBVIOUS
  <2> QED
    BY <2>1
<1>2. Max(u) \in u /\ \A y \in u : y <= Max(u)
  <2> HIDE DEF u
  <2> QED
    BY <1>1, Greatest
<1>3. PICK x \in t : Max(u) = n + 1 - x
  BY <1>2
<1>4. \A y \in t : n + 1 - y <= n + 1 - x
  BY <1>2, <1>3
<1>5. \A y \in t : x <= y
  BY <1>4
<1> QED
  BY <1>5 DEF Min

------------------------------------------------------------------------------
(* Folding over a sequence.  FoldLeft takes the positions from the last to *)
(* the first; what it computes for the first k of them is walk[k].         *)

(* The function on sets of positions by which a fold is defined.           *)
IsFold(g, n, base, step) ==
  /\ g[{}] = base
  /\ \A t \in SUBSET (1 .. n) : t # {} => g[t] = step[<<g[t \ {Max(t)}], Max(t)>>]

LEMMA FoldExists ==
  ASSUME NEW V, NEW n \in Nat, NEW base \in V, NEW step \in [V \X (1 .. n) -> V]
  PROVE  \E g \in [SUBSET (1 .. n) -> V] : IsFold(g, n, base, step)
<1> DEFINE S == {m \in Nat : m <= n => \E g \in [SUBSET (1 .. m) -> V] : IsFold(g, m, base, step)}
<1>1. 0 \in S
  <2> DEFINE g == [t \in SUBSET (1 .. 0) |-> base]
  <2>1. g \in [SUBSET (1 .. 0) -> V]
    OBVIOUS
  <2>2. 1 .. 0 = {} /\ g[{}] = base
    OBVIOUS
  <2>3. IsFold(g, 0, base, step)
    BY <2>2 DEF IsFold
  <2> QED
    BY <2>1, <2>3
<1>2. ASSUME NEW m \in Nat, m \in S
      PROVE  m + 1 \in S
  <2> SUFFICES ASSUME m + 1 <= n
               PROVE  \E g \in [SUBSET (1 .. m + 1) -> V] : IsFold(g, m + 1, base, step)
    BY m + 1 \in Nat
  <2>1. m <= n
    OBVIOUS
  <2>2. PICK h \in [SUBSET (1 .. m) -> V] : IsFold(h, m, base, step)
    BY <1>2, <2>1
  <2> DEFINE g == [t \in SUBSET (1 .. m + 1) |->
                     IF m + 1 \in t THEN step[<<h[t \ {m + 1}], m + 1>>] ELSE h[t]]
  <2>3. \A t \in SUBSET (1 .. m + 1) :
          IF m + 1 \in t THEN t \ {m + 1} \in SUBSET (1 .. m) ELSE t \in SUBSET (1 .. m)
    OBVIOUS
  <2>4. ASSUME NEW t \in SUBSET (1 .. m + 1)
        PROVE  g[t] \in V
    <3>1. m + 1 \in 1 .. n
      OBVIOUS
    <3>2. CASE m + 1 \in t
      <4>1. h[t \ {m + 1}] \in V
        BY <2>3, <3>2
      <4>2. <<h[t \ {m + 1}], m + 1>> \in V \X (1 .. n)
        BY <3>1, <4>1
      <4> QED
        BY <3>2, <4>2
    <3>3. CASE m + 1 \notin t
      BY <2>3, <3>3
    <3> QED
      BY <3>2, <3>3
  <2>5. ASSUME NEW t \in SUBSET (1 .. m + 1), t # {}
        PROVE  g[t] = step[<<g[t \ {Max(t)}], Max(t)>>]
    <3>1. CASE m + 1 \in t
      <4>1. Max(t) \in t /\ \A y \in t : y <= Max(t)
        BY <2>5, m + 1 \in Nat, Greatest
      <4>2. Max(t) = m + 1
        <5>1. \A x \in t : x \in Nat /\ x <= m + 1
          OBVIOUS
        <5>2. Max(t) \in Nat /\ Max(t) <= m + 1 /\ m + 1 <= Max(t)
          BY <3>1, <4>1, <5>1
        <5> QED
          BY <5>2
      <4>3. g[t \ {m + 1}] = h[t \ {m + 1}]
        BY <2>3, <3>1
      <4> QED
        BY <3>1, <4>2, <4>3
    <3>2. CASE m + 1 \notin t
      <4>1. t \in SUBSET (1 .. m) /\ t \ {Max(t)} \in SUBSET (1 .. m)
        BY <2>3, <3>2
      <4>2. g[t] = h[t] /\ g[t \ {Max(t)}] = h[t \ {Max(t)}]
        BY <3>2, <4>1
      <4> QED
        BY <2>2, <2>5, <4>1, <4>2 DEF IsFold
    <3> QED
      BY <3>1, <3>2
  <2>6. g[{}] = base
    BY <2>2 DEF IsFold
  <2>7. g \in [SUBSET (1 .. m + 1) -> V]
    BY <2>4
  <2> HIDE DEF g
  <2> QED
    BY <2>5, <2>6, <2>7 DEF IsFold
<1> HIDE DEF S
<1>3. n \in S
  BY <1>1, <1>2, Induction
<1>4. n <= n
  OBVIOUS
<1> QED
  BY <1>3, <1>4 DEF S

(* Any function with that definition, as long as it has values in V, is    *)
(* computed from the first position to the last.                           *)
Computes(g, V, n, base, step) ==
  /\ base \in V /\ step \in [V \X (1 .. n) -> V]
  /\ g[{}] = base
  /\ \A t \in SUBSET (1 .. n) :
       t # {} /\ g[t \ {Max(t)}] \in V => g[t] = step[<<g[t \ {Max(t)}], Max(t)>>]

IsWalk(walk, n, base, step) ==
  walk[0] = base /\ \A k \in 1 .. n : walk[k] = step[<<walk[k - 1], k>>]

LEMMA FoldWalks ==
  ASSUME NEW V, NEW n \in Nat, NEW base, NEW step, NEW g, Computes(g, V, n, base, step)
  PROVE  \E walk \in [0 .. n -> V] : IsWalk(walk, n, base, step) /\ walk[n] = g[1 .. n]
<1>1. base \in V /\ step \in [V \X (1 .. n) -> V]
  BY DEF Computes
<1> DEFINE w(k) == g[1 .. k]
           S == {m \in Nat : m <= n => w(m) \in V}
<1>2. w(0) = base
  BY 1 .. 0 = {} DEF Computes
<1>3. ASSUME NEW k \in 1 .. n, w(k - 1) \in V
      PROVE  w(k) = step[<<w(k - 1), k>>] /\ w(k) \in V
  <2>1. 1 .. k \in SUBSET (1 .. n) /\ 1 .. k # {}
    OBVIOUS
  <2>2. Max(1 .. k) = k
    <3>1. Max(1 .. k) \in 1 .. k /\ \A y \in 1 .. k : y <= Max(1 .. k)
      BY <2>1, Greatest
    <3> QED
      BY <3>1
  <2>3. (1 .. k) \ {k} = 1 .. (k - 1)
    OBVIOUS
  <2>4. w(k) = step[<<w(k - 1), k>>]
    BY <1>3, <2>1, <2>2, <2>3 DEF Computes
  <2>5. <<w(k - 1), k>> \in V \X (1 .. n)
    BY <1>3
  <2> QED
    BY <1>1, <2>4, <2>5
<1>4. 0 \in S
  BY <1>2, <1>1
<1>5. ASSUME NEW m \in Nat, m \in S
      PROVE  m + 1 \in S
  <2>1. m + 1 \in Nat /\ (m + 1) - 1 = m
    OBVIOUS
  <2>2. CASE m + 1 <= n
    <3>1. w(m) \in V /\ m + 1 \in 1 .. n
      BY <1>5, <2>2
    <3> QED
      BY <1>3, <2>1, <3>1
  <2> QED
    BY <2>1, <2>2
<1> HIDE DEF S
<1>6. Nat \subseteq S
  BY <1>4, <1>5, Induction
<1>7. \A k \in 0 .. n : w(k) \in V
  BY <1>6 DEF S
<1> DEFINE walk == [k \in 0 .. n |-> w(k)]
<1>8. walk \in [0 .. n -> V] /\ walk[0] = base /\ walk[n] = g[1 .. n]
  BY <1>2, <1>7
<1>9. ASSUME NEW k \in 1 .. n
      PROVE  walk[k] = step[<<walk[k - 1], k>>]
  <2>1. k - 1 \in 0 .. n /\ k \in 0 .. n
    OBVIOUS
  <2>2. walk[k] = w(k) /\ walk[k - 1] = w(k - 1) /\ w(k - 1) \in V
    BY <1>7, <2>1
  <2> HIDE DEF w, walk
  <2> QED
    BY <1>3, <2>2
<1> HIDE DEF walk
<1> QED
  BY <1>8, <1>9 DEF IsWalk

------------------------------------------------------------------------------
(* Where two sequences part.                                               *)
Part(x, y, n) ==
  /\ n <= Len(x) /\ n <= Len(y)
  /\ \A i \in 1 .. n : x[i] = y[i]
  /\ n = Len(y) \/ (n < Len(x) /\ n < Len(y) /\ x[n + 1] # y[n + 1])

LEMMA Begun ==
  ASSUME NEW S, NEW x \in Seq(S), NEW n \in Nat, n <= Len(x)
  PROVE  /\ SubSeq(x, 1, n) \in Seq(S) /\ Len(SubSeq(x, 1, n)) = n
         /\ \A i \in 1 .. n : SubSeq(x, 1, n)[i] = x[i]
<1>1. Len(x) \in Nat
  OBVIOUS
<1>2. \A i \in 1 .. n : x[i] \in S
  BY <1>1
<1>3. /\ SubSeq(x, 1, n) \in Seq(S) /\ Len(SubSeq(x, 1, n)) = IF 1 <= n THEN n - 1 + 1 ELSE 0
      /\ \A i \in 1 .. n - 1 + 1 : SubSeq(x, 1, n)[i] = x[1 + i - 1]
  BY <1>2, 1 \in Int, n \in Int, SubSeqProperties
<1>4. /\ (IF 1 <= n THEN n - 1 + 1 ELSE 0) = n
      /\ \A i \in 1 .. n : 1 + i - 1 = i /\ i \in 1 .. n - 1 + 1
  OBVIOUS
<1>5. Len(SubSeq(x, 1, n)) = n
  BY <1>3, <1>4
<1>6. \A i \in 1 .. n : SubSeq(x, 1, n)[i] = x[i]
  <2> DEFINE t == SubSeq(x, 1, n)
  <2>1. \A i \in 1 .. n - 1 + 1 : t[i] = x[1 + i - 1]
    BY <1>3
  <2> HIDE DEF t
  <2>2. \A i \in 1 .. n : t[i] = x[i]
    BY <1>4, <2>1
  <2> QED
    BY <2>2 DEF t
<1> QED
  BY <1>3, <1>5, <1>6

LEMMA BegunTwice ==
  ASSUME NEW S, NEW x \in Seq(S), NEW n \in Nat, n <= Len(x)
  PROVE  SubSeq(SubSeq(x, 1, n), 1, n) = SubSeq(x, 1, n)
<1> DEFINE t == SubSeq(x, 1, n)
<1>1. t \in Seq(S) /\ Len(t) = n
  BY Begun
<1> HIDE DEF t
<1>2. SubSeq(t, 1, Len(t)) = t
  BY <1>1, SubSeqFull
<1> QED
  BY <1>1, <1>2 DEF t

LEMMA LongestCommon ==
  ASSUME NEW S, NEW x \in Seq(S), NEW y \in Seq(S), NEW n \in Nat, Part(x, y, n)
  PROVE  Len(LongestCommonPrefix({x, y})) = n
<1>1. Len(x) \in Nat /\ Len(y) \in Nat
  OBVIOUS
<1> DEFINE c == SubSeq(x, 1, n)
           C == CommonPrefixes({x, y})
<1>2. c \in C /\ Len(c) = n
  <2>1. c \in Seq(S) /\ Len(c) = n /\ \A i \in 1 .. n : c[i] = x[i]
    BY Begun DEF Part
  <2>2. SubSeq(c, 1, n) = c
    BY BegunTwice DEF Part
  <2>3. SubSeq(y, 1, n) = c
    <3>1. /\ SubSeq(y, 1, n) \in Seq(S) /\ Len(SubSeq(y, 1, n)) = n
          /\ \A i \in 1 .. n : SubSeq(y, 1, n)[i] = y[i]
      BY Begun DEF Part
    <3>2. \A i \in 1 .. n : c[i] = SubSeq(y, 1, n)[i]
      BY <2>1, <3>1 DEF Part
    <3> HIDE DEF c
    <3> QED
      BY <2>1, <3>1, <3>2, SeqEqual
  <2>4. n \in 0 .. Len(x) /\ n <= Len(x) /\ n <= Len(y)
    BY <1>1 DEF Part
  <2>5. c \in Prefixes(x)
    BY <2>4 DEF Prefixes
  <2>6. IsPrefix(c, x) /\ IsPrefix(c, y)
    <3> HIDE DEF c
    <3>1. SubSeq(x, 1, n) = c
      BY DEF c
    <3> QED
      BY <2>1, <2>2, <2>3, <2>4, <3>1 DEF IsPrefix
  <2> HIDE DEF c
  <2> QED
    BY <2>1, <2>5, <2>6 DEF CommonPrefixes
<1>3. ASSUME NEW d \in C
      PROVE  Len(d) \in Nat /\ Len(d) <= n
  <2>1. PICK z \in {x, y} : d \in Prefixes(z)
    BY DEF CommonPrefixes
  <2>2. PICK l \in 0 .. Len(z) : d = SubSeq(z, 1, l)
    BY <2>1 DEF Prefixes
  <2>3. z \in Seq(S) /\ Len(z) \in Nat /\ l \in Nat /\ l <= Len(z)
    BY <1>1
  <2>4. d \in Seq(S) /\ Len(d) = l
    BY <2>2, <2>3, Begun
  <2>5. /\ l <= Len(x) /\ l <= Len(y)
        /\ SubSeq(x, 1, l) = SubSeq(y, 1, l)
    <3>1. IsPrefix(d, x) /\ IsPrefix(d, y)
      BY DEF CommonPrefixes
    <3> HIDE DEF C
    <3> QED
      BY <2>4, <3>1 DEF IsPrefix
  <2>6. /\ \A i \in 1 .. l : SubSeq(x, 1, l)[i] = x[i]
        /\ \A i \in 1 .. l : SubSeq(y, 1, l)[i] = y[i]
    <3> HIDE DEF C
    <3> QED
      BY <2>3, <2>5, Begun
  <2>7. l <= n
    <3> SUFFICES ASSUME n < l
                 PROVE  FALSE
      BY <2>3
    <3>1. n + 1 \in 1 .. l
      BY <2>3
    <3>2. x[n + 1] = y[n + 1]
      BY <2>5, <2>6, <3>1
    <3>3. n # Len(y)
      BY <1>1, <2>3, <2>5
    <3> QED
      BY <3>2, <3>3 DEF Part
  <2> QED
    BY <2>3, <2>4, <2>7
<1> HIDE DEF c, C
<1>4. \A d \in C : Len(d) <= Len(c)
  BY <1>2, <1>3
<1> DEFINE longest == CHOOSE d \in C : \A other \in C : Len(other) <= Len(d)
<1>5. longest \in C /\ \A other \in C : Len(other) <= Len(longest)
  BY <1>2, <1>4
<1>6. LongestCommonPrefix({x, y}) = longest
  BY DEF LongestCommonPrefix, C
<1> HIDE DEF longest
<1> QED
  BY <1>2, <1>3, <1>5, <1>6

LEMMA PartAfter ==
  ASSUME NEW S, NEW s \in Seq(S), NEW t \in Seq(S), t # <<>>, NEW e \in S, e # t[1]
  PROVE  Part(s \o t, s, Len(s)) /\ Part(s \o t, Append(s, e), Len(s))
<1>1. Len(s) \in Nat /\ Len(t) \in Nat \ {0}
  BY EmptySeq
<1>2. /\ s \o t \in Seq(S) /\ Len(s \o t) = Len(s) + Len(t)
      /\ \A i \in 1 .. Len(s) + Len(t) : (s \o t)[i] = IF i <= Len(s) THEN s[i] ELSE t[i - Len(s)]
  BY ConcatProperties
<1>3. /\ \A i \in 1 .. Len(s) : i \in 1 .. Len(s) + Len(t) /\ i <= Len(s)
      /\ Len(s) + 1 \in 1 .. Len(s) + Len(t) /\ ~(Len(s) + 1 <= Len(s)) /\ (Len(s) + 1) - Len(s) = 1
      /\ Len(s) <= Len(s) + Len(t) /\ Len(s) <= Len(s) /\ Len(s) < Len(s) + Len(t)
      /\ Len(s) < Len(s) + 1 /\ Len(s) <= Len(s) + 1
  BY <1>1
<1>4. /\ Len(Append(s, e)) = Len(s) + 1
      /\ \A i \in 1 .. Len(s) : Append(s, e)[i] = s[i]
      /\ Append(s, e)[Len(s) + 1] = e
  BY AppendProperties
<1>5. (s \o t)[Len(s) + 1] = t[1] /\ \A i \in 1 .. Len(s) : (s \o t)[i] = s[i]
  BY <1>2, <1>3
<1> QED
  BY <1>2, <1>3, <1>4, <1>5 DEF Part

LEMMA AfterConcat ==
  ASSUME NEW S, NEW s \in Seq(S), NEW t \in Seq(S)
  PROVE  SubSeq(s \o t, Len(s) + 1, Len(s \o t)) = t
<1> DEFINE k == Len(s)
           l == Len(t)
           x == s \o t
<1>1. k \in Nat /\ l \in Nat /\ x \in Seq(S) /\ Len(x) = k + l
      /\ \A i \in 1 .. k + l : x[i] = IF i <= k THEN s[i] ELSE t[i - k]
  BY ConcatProperties
<1>2. \A i \in 1 .. l : t[i] \in S
  OBVIOUS
<1> HIDE DEF k, l, x
<1>3. \A i \in k + 1 .. k + l : x[i] \in S /\ x[i] = t[i - k]
  <2> SUFFICES ASSUME NEW i \in k + 1 .. k + l
               PROVE  x[i] \in S /\ x[i] = t[i - k]
    OBVIOUS
  <2>1. i \in 1 .. k + l /\ ~(i <= k) /\ i - k \in 1 .. l
    BY <1>1
  <2> QED
    BY <1>1, <1>2, <2>1
<1> DEFINE a == k + 1
           b == k + l
<1>4. a \in Int /\ b \in Int /\ \A i \in a .. b : x[i] \in S
  BY <1>1, <1>3
<1>5. /\ (IF a <= b THEN b - a + 1 ELSE 0) = l
      /\ \A i \in 1 .. l : i \in 1 .. b - a + 1 /\ a + i - 1 \in k + 1 .. k + l
                           /\ (a + i - 1) - k = i
  BY <1>1
<1> HIDE DEF a, b
<1>6. /\ SubSeq(x, a, b) \in Seq(S) /\ Len(SubSeq(x, a, b)) = IF a <= b THEN b - a + 1 ELSE 0
      /\ \A i \in 1 .. b - a + 1 : SubSeq(x, a, b)[i] = x[a + i - 1]
  BY <1>4, SubSeqProperties
<1> DEFINE u == SubSeq(x, a, b)
<1>7. u \in Seq(S) /\ Len(u) = l /\ \A i \in 1 .. b - a + 1 : u[i] = x[a + i - 1]
  BY <1>5, <1>6
<1> HIDE DEF u
<1>8. \A i \in 1 .. l : u[i] = t[i]
  BY <1>5, <1>7, <1>3
<1>9. u = t
  BY <1>7, <1>8, SeqEqual DEF l
<1> QED
  BY <1>1, <1>9 DEF k, x, a, b, u

------------------------------------------------------------------------------
(* What an absolute path denotes.                                          *)

Enter(at, e) ==
  CASE e \in {"", "."} -> at
    [] e = ".." -> IF at = <<>> THEN at ELSE Front(at)
    [] OTHER -> Append(at, e)

LEMMA SetParts ==
  ASSUME NEW p \in AnyPath, NEW x
  PROVE  [p EXCEPT !.parts = x] = [absolute |-> p.absolute, parts |-> x]
<1>1. p = [absolute |-> p.absolute, parts |-> p.parts]
  BY DEF AnyPath
<1> QED
  BY <1>1

LEMMA Appended ==
  ASSUME NEW S, NEW s \in Seq(S), NEW e \in S
  PROVE  /\ Append(s, e) \in Seq(S) /\ Len(Append(s, e)) = Len(s) + 1
         /\ Append(s, e)[Len(s) + 1] = e
         /\ \A i \in 1 .. Len(s) : Append(s, e)[i] = s[i]
OBVIOUS

LEMMA Fronted ==
  ASSUME NEW S, NEW s \in Seq(S), s # <<>>
  PROVE  /\ Front(s) \in Seq(S) /\ Len(Front(s)) = Len(s) - 1
         /\ \A i \in 1 .. Len(s) - 1 : Front(s)[i] = s[i]
<1>1. Len(s) \in Nat /\ Len(s) > 0
  OBVIOUS
<1>2. \A i \in 1 .. Len(s) - 1 : s[i] \in S
  OBVIOUS
<1> DEFINE l == Len(s) - 1
           f == SubSeq(s, 1, l)
<1>3. l \in Int /\ 1 \in Int
  BY <1>1
<1>4. /\ f \in Seq(S) /\ Len(f) = IF 1 <= l THEN l - 1 + 1 ELSE 0
      /\ \A i \in 1 .. l - 1 + 1 : f[i] = s[1 + i - 1]
  <2> HIDE DEF l
  <2> QED
    BY <1>2, <1>3, SubSeqProperties DEF l
<1>5. \A k \in Nat : /\ (IF 1 <= k THEN k - 1 + 1 ELSE 0) = k
                     /\ \A i \in 1 .. k : 1 + i - 1 = i /\ i \in 1 .. k - 1 + 1
  OBVIOUS
<1>6. l \in Nat
  BY <1>1
<1>7. Len(f) = l /\ \A i \in 1 .. l : f[i] = s[i]
  <2> HIDE DEF l, f
  <2> QED
    BY <1>4, <1>5, <1>6
<1> QED
  BY <1>4, <1>7 DEF Front

LEMMA Prefixed ==
  ASSUME NEW S, NEW s \in Seq(S), NEW k \in Nat, k < Len(s)
  PROVE  SubSeq(s, 1, k + 1) = Append(SubSeq(s, 1, k), s[k + 1]) /\ s[k + 1] \in S
<1>1. Len(s) \in Nat /\ k + 1 \in 1 .. Len(s)
  OBVIOUS
<1>2. s[k + 1] \in S
  BY <1>1
<1>3. SubSeq(s, 1, k + 1) = SubSeq(s, 1, (k + 1) - 1) \o <<s[k + 1]>>
  BY <1>1, SubSeqRecursiveSecond
<1>4. SubSeq(s, 1, k) \in Seq(S)
  <2>1. \A i \in 1 .. k : s[i] \in S
    BY <1>1
  <2> QED
    BY <2>1, SubSeqProperties
<1>5. \A t \in Seq(S), e \in S : t \o <<e>> = Append(t, e)
  OBVIOUS
<1>6. (k + 1) - 1 = k
  OBVIOUS
<1> QED
  BY <1>2, <1>3, <1>4, <1>5, <1>6

LEMMA EnterType ==
  ASSUME NEW at \in Seq(Element), NEW e \in Element
  PROVE  Enter(at, e) \in Seq(Element)
<1>1. Append(at, e) \in Seq(Element)
  BY Appended
<1>2. at # <<>> => Front(at) \in Seq(Element)
  BY Fronted
<1> QED
  BY <1>1, <1>2 DEF Enter

LEMMA DenotesWalk ==
  ASSUME NEW p, NEW n \in Nat, p.parts \in Seq(Element), n = Len(p.parts)
  PROVE  \E walk \in [0 .. n -> Seq(Element)] :
           /\ walk[0] = <<>> /\ walk[n] = Denotes(p)
           /\ \A k \in 1 .. n : walk[k] = Enter(walk[k - 1], p.parts[k])
<1> DEFINE parts == p.parts
           V == Seq(Element)
           step == [x \in V \X (1 .. n) |-> Enter(x[1], parts[x[2]])]
           Fold(g) == g = [t \in SUBSET (1 .. n) |->
                             IF t = {} THEN <<>> ELSE Enter(g[t \ {Max(t)}], parts[Max(t)])]
<1>1. \A at \in V : \A k \in 1 .. n : step[<<at, k>>] = Enter(at, parts[k])
  OBVIOUS
<1>2. step \in [V \X (1 .. n) -> V]
  <2>1. \A x \in V \X (1 .. n) : x[1] \in V /\ parts[x[2]] \in Element
    OBVIOUS
  <2>2. \A x \in V \X (1 .. n) : Enter(x[1], parts[x[2]]) \in V
    BY <2>1, EnterType
  <2> QED
    BY <2>2
<1>3. <<>> \in V
  OBVIOUS
<1>4. DOMAIN parts = 1 .. n
  OBVIOUS
<1>5. Denotes(p) = (CHOOSE g : Fold(g))[1 .. n]
  BY <1>4 DEF Denotes, FoldLeft, MapThenFoldSet, Enter
<1> HIDE DEF step, V
<1>6. \E g : Fold(g)
  <2>1. PICK g \in [SUBSET (1 .. n) -> V] : IsFold(g, n, <<>>, step)
    BY <1>2, <1>3, FoldExists
  <2>2. ASSUME NEW t \in SUBSET (1 .. n)
        PROVE  g[t] = IF t = {} THEN <<>> ELSE Enter(g[t \ {Max(t)}], parts[Max(t)])
    <3>1. CASE t # {}
      <4>1. Max(t) \in 1 .. n /\ t \ {Max(t)} \in SUBSET (1 .. n)
        BY <3>1, Greatest
      <4>2. g[t \ {Max(t)}] \in V
        BY <4>1
      <4>3. g[t] = step[<<g[t \ {Max(t)}], Max(t)>>]
        BY <2>1, <3>1 DEF IsFold
      <4> QED
        BY <1>1, <3>1, <4>1, <4>2, <4>3
    <3> QED
      BY <2>1, <3>1 DEF IsFold
  <2> QED
    BY <2>2
<1> DEFINE it == CHOOSE g : Fold(g)
<1>7. Fold(it)
  BY <1>6
<1> HIDE DEF it
<1>8. it[{}] = <<>>
  BY <1>7
<1>9. \A t \in SUBSET (1 .. n) :
        t # {} /\ it[t \ {Max(t)}] \in V => it[t] = step[<<it[t \ {Max(t)}], Max(t)>>]
  <2> SUFFICES ASSUME NEW t \in SUBSET (1 .. n), t # {}, it[t \ {Max(t)}] \in V
               PROVE  it[t] = step[<<it[t \ {Max(t)}], Max(t)>>]
    OBVIOUS
  <2>1. Max(t) \in 1 .. n
    BY Greatest
  <2>2. it[t] = Enter(it[t \ {Max(t)}], parts[Max(t)])
    BY <1>7
  <2> QED
    BY <1>1, <2>1, <2>2
<1>10. Computes(it, V, n, <<>>, step)
  BY <1>2, <1>3, <1>8, <1>9 DEF Computes
<1> HIDE DEF Fold
<1>11. PICK walk \in [0 .. n -> V] : IsWalk(walk, n, <<>>, step) /\ walk[n] = it[1 .. n]
  BY <1>10, FoldWalks
<1>12. ASSUME NEW k \in 1 .. n
       PROVE  walk[k] = Enter(walk[k - 1], parts[k])
  <2>1. walk[k - 1] \in V
    BY k - 1 \in 0 .. n
  <2> QED
    BY <1>1, <1>11, <2>1 DEF IsWalk
<1> QED
  BY <1>5, <1>11, <1>12 DEF it, V, IsWalk

(* A path of names, which slashes and dots may follow, denotes them.       *)
Trailed(parts, names, m, n) ==
  /\ parts \in Seq(Element) /\ n = Len(parts) /\ m = Len(names) /\ m <= n
  /\ \A i \in 1 .. m : parts[i] = names[i]
  /\ \A i \in m + 1 .. n : parts[i] \in {"", "."}

LEMMA DenotesNames ==
  ASSUME NEW p, NEW names \in Seq(ProperName), NEW m \in Nat, NEW n \in Nat,
         Trailed(p.parts, names, m, n)
  PROVE  Denotes(p) = names
<1> DEFINE top(k) == IF k <= m THEN k ELSE m
<1>1. PICK walk \in [0 .. n -> Seq(Element)] :
        /\ walk[0] = <<>> /\ walk[n] = Denotes(p)
        /\ \A k \in 1 .. n : walk[k] = Enter(walk[k - 1], p.parts[k])
  BY DenotesWalk DEF Trailed
<1>2. m <= n /\ m = Len(names)
  BY DEF Trailed
<1> DEFINE S == {k \in Nat : k <= n => walk[k] = SubSeq(names, 1, top(k))}
<1>3. 0 \in S
  <2>1. SubSeq(names, 1, 0) = <<>> /\ top(0) = 0
    BY SubSeqEmpty
  <2> QED
    BY <1>1, <2>1
<1>4. ASSUME NEW k \in Nat, k \in S
      PROVE  k + 1 \in S
  <2>1. k + 1 \in Nat
    OBVIOUS
  <2> SUFFICES ASSUME k + 1 <= n
               PROVE  walk[k + 1] = SubSeq(names, 1, top(k + 1))
    BY <2>1
  <2>2. k <= n /\ k + 1 \in 1 .. n /\ (k + 1) - 1 = k
    OBVIOUS
  <2>3. walk[k] = SubSeq(names, 1, top(k))
    BY <1>4, <2>2
  <2>4. walk[k + 1] = Enter(SubSeq(names, 1, top(k)), p.parts[k + 1])
    BY <1>1, <2>3, <2>2
  <2>5. CASE k + 1 <= m
    <3>1. k + 1 \in 1 .. m /\ k < Len(names) /\ top(k) = k /\ top(k + 1) = k + 1
      BY <1>2, <2>5
    <3>2. /\ SubSeq(names, 1, k + 1) = Append(SubSeq(names, 1, k), names[k + 1])
          /\ names[k + 1] \in ProperName
      BY <3>1, Prefixed
    <3>3. p.parts[k + 1] = names[k + 1]
      BY <3>1 DEF Trailed
    <3>4. Enter(SubSeq(names, 1, k), names[k + 1]) = Append(SubSeq(names, 1, k), names[k + 1])
      BY <3>2 DEF Enter, ProperName
    <3> QED
      BY <2>4, <3>1, <3>2, <3>3, <3>4
  <2>6. CASE ~(k + 1 <= m)
    <3>1. k + 1 \in m + 1 .. n /\ top(k) = m /\ top(k + 1) = m
      BY <2>2, <2>6
    <3>2. p.parts[k + 1] \in {"", "."}
      BY <3>1 DEF Trailed
    <3> HIDE DEF top
    <3> QED
      BY <2>4, <3>1, <3>2 DEF Enter
  <2> QED
    BY <2>5, <2>6
<1> HIDE DEF S
<1>5. n \in S
  BY <1>3, <1>4, Induction
<1>6. top(n) = m /\ n <= n
  BY <1>2
<1>7. walk[n] = SubSeq(names, 1, m)
  BY <1>5, <1>6 DEF S
<1> QED
  BY <1>2, <1>1, <1>7, SubSeqFull

------------------------------------------------------------------------------
(* Normal forms.                                                           *)

(* One element of a path that is normalised.                               *)
Normalize(names, e, absolute) ==
  CASE e \in {"", "."} -> names
    [] e = ".." /\ names # <<>> /\ Last(names) # ".." -> Front(names)
    [] e = ".." /\ names = <<>> /\ absolute -> names
    [] OTHER -> Append(names, e)

Normalized(p, names) ==
  LET directory == p.parts # <<>> /\ Last(p.parts) \in {"", ".", ".."}
  IN [p EXCEPT !.parts =
        IF names = <<>> THEN IF p.absolute \/ p = Empty THEN <<>> ELSE <<".">>
        ELSE IF directory /\ Last(names) # ".." THEN Append(names, "") ELSE names]

LEMMA NormalizeType ==
  ASSUME NEW names \in Seq(Element), NEW e \in Element, NEW absolute
  PROVE  Normalize(names, e, absolute) \in Seq(Element)
<1>1. Append(names, e) \in Seq(Element)
  BY Appended
<1>2. names # <<>> => Front(names) \in Seq(Element)
  BY Fronted
<1> QED
  BY <1>1, <1>2 DEF Normalize

LEMMA NormalWalk ==
  ASSUME NEW p, NEW n \in Nat, p.parts \in Seq(Element), n = Len(p.parts)
  PROVE  \E walk \in [0 .. n -> Seq(Element)] :
           /\ walk[0] = <<>> /\ LexicallyNormal(p) = Normalized(p, walk[n])
           /\ \A k \in 1 .. n : walk[k] = Normalize(walk[k - 1], p.parts[k], p.absolute)
<1> DEFINE parts == p.parts
           V == Seq(Element)
           step == [x \in V \X (1 .. n) |-> Normalize(x[1], parts[x[2]], p.absolute)]
           Fold(g) == g = [t \in SUBSET (1 .. n) |->
                             IF t = {} THEN <<>>
                             ELSE Normalize(g[t \ {Max(t)}], parts[Max(t)], p.absolute)]
<1>1. \A at \in V : \A k \in 1 .. n : step[<<at, k>>] = Normalize(at, parts[k], p.absolute)
  OBVIOUS
<1>2. step \in [V \X (1 .. n) -> V]
  <2>1. \A x \in V \X (1 .. n) : x[1] \in V /\ parts[x[2]] \in Element
    OBVIOUS
  <2>2. \A x \in V \X (1 .. n) : Normalize(x[1], parts[x[2]], p.absolute) \in V
    BY <2>1, NormalizeType
  <2> QED
    BY <2>2
<1>3. <<>> \in V
  OBVIOUS
<1>4. DOMAIN parts = 1 .. n
  OBVIOUS
<1>5. LexicallyNormal(p) = Normalized(p, (CHOOSE g : Fold(g))[1 .. n])
  BY <1>4 DEF LexicallyNormal, FoldLeft, MapThenFoldSet, Normalize, Normalized
<1> HIDE DEF step, V
<1>6. \E g : Fold(g)
  <2>1. PICK g \in [SUBSET (1 .. n) -> V] : IsFold(g, n, <<>>, step)
    BY <1>2, <1>3, FoldExists
  <2>2. ASSUME NEW t \in SUBSET (1 .. n)
        PROVE  g[t] = IF t = {} THEN <<>>
                      ELSE Normalize(g[t \ {Max(t)}], parts[Max(t)], p.absolute)
    <3>1. CASE t # {}
      <4>1. Max(t) \in 1 .. n /\ t \ {Max(t)} \in SUBSET (1 .. n)
        BY <3>1, Greatest
      <4>2. g[t \ {Max(t)}] \in V
        BY <4>1
      <4>3. g[t] = step[<<g[t \ {Max(t)}], Max(t)>>]
        BY <2>1, <3>1 DEF IsFold
      <4> QED
        BY <1>1, <3>1, <4>1, <4>2, <4>3
    <3> QED
      BY <2>1, <3>1 DEF IsFold
  <2> QED
    BY <2>2
<1> DEFINE it == CHOOSE g : Fold(g)
<1>7. Fold(it)
  BY <1>6
<1> HIDE DEF it
<1>8. it[{}] = <<>>
  BY <1>7
<1>9. \A t \in SUBSET (1 .. n) :
        t # {} /\ it[t \ {Max(t)}] \in V => it[t] = step[<<it[t \ {Max(t)}], Max(t)>>]
  <2> SUFFICES ASSUME NEW t \in SUBSET (1 .. n), t # {}, it[t \ {Max(t)}] \in V
               PROVE  it[t] = step[<<it[t \ {Max(t)}], Max(t)>>]
    OBVIOUS
  <2>1. Max(t) \in 1 .. n
    BY Greatest
  <2>2. it[t] = Normalize(it[t \ {Max(t)}], parts[Max(t)], p.absolute)
    BY <1>7
  <2> QED
    BY <1>1, <2>1, <2>2
<1>10. Computes(it, V, n, <<>>, step)
  BY <1>2, <1>3, <1>8, <1>9 DEF Computes
<1> HIDE DEF Fold
<1>11. PICK walk \in [0 .. n -> V] : IsWalk(walk, n, <<>>, step) /\ walk[n] = it[1 .. n]
  BY <1>10, FoldWalks
<1>12. ASSUME NEW k \in 1 .. n
       PROVE  walk[k] = Normalize(walk[k - 1], parts[k], p.absolute)
  <2>1. walk[k - 1] \in V
    BY k - 1 \in 0 .. n
  <2> QED
    BY <1>1, <1>11, <2>1 DEF IsWalk
<1> QED
  BY <1>5, <1>11, <1>12 DEF it, V, IsWalk

(* A relative path that has left where it started.                         *)
Left(names) == names \in Seq(Element) /\ names # <<>> /\ names[1] = ".."

LEMMA LastOf ==
  ASSUME NEW S, NEW s \in Seq(S), s # <<>>
  PROVE  Last(s) \in S /\ Len(s) \in Nat \ {0} /\ Last(s) = s[Len(s)]
<1>1. Len(s) \in Nat \ {0}
  OBVIOUS
<1> QED
  BY <1>1 DEF Last

LEMMA FrontOfAppended ==
  ASSUME NEW S, NEW s \in Seq(S), NEW e \in S
  PROVE  Append(s, e) # <<>> /\ Last(Append(s, e)) = e /\ Front(Append(s, e)) = s
<1>1. /\ Append(s, e) \in Seq(S) /\ Append(s, e) # <<>> /\ Len(Append(s, e)) = Len(s) + 1
      /\ \A i \in 1 .. Len(s) : Append(s, e)[i] = s[i]
      /\ Append(s, e)[Len(s) + 1] = e
  BY AppendProperties
<1>2. Len(s) \in Nat /\ (Len(s) + 1) - 1 = Len(s)
  OBVIOUS
<1>3. /\ Front(Append(s, e)) \in Seq(S) /\ Len(Front(Append(s, e))) = Len(s)
      /\ \A i \in 1 .. Len(s) : Front(Append(s, e))[i] = Append(s, e)[i]
  <2> DEFINE t == Append(s, e)
  <2>1. t \in Seq(S) /\ t # <<>> /\ Len(t) - 1 = Len(s)
    BY <1>1, <1>2
  <2> HIDE DEF t
  <2>2. /\ Front(t) \in Seq(S) /\ Len(Front(t)) = Len(t) - 1
        /\ \A i \in 1 .. Len(t) - 1 : Front(t)[i] = t[i]
    BY <2>1, Fronted
  <2> QED
    BY <2>1, <2>2 DEF t
<1>4. Front(Append(s, e)) = s
  BY <1>1, <1>3, SeqEqual
<1> QED
  BY <1>1, <1>4 DEF Last

(* Among names, normalising takes a path where it leads; only a relative   *)
(* one may leave, and it does so for good.                                 *)
LEMMA NormalizeStep ==
  ASSUME NEW names \in Seq(ProperName), NEW e \in Element
  PROVE  /\ Normalize(names, e, TRUE) = Enter(names, e)
         /\ Enter(names, e) \in Seq(ProperName)
         /\ Normalize(names, e, FALSE) = Enter(names, e) \/ Left(Normalize(names, e, FALSE))
<1>1. CASE e \in {"", "."}
  BY <1>1 DEF Normalize, Enter
<1>2. CASE e = ".." /\ names # <<>>
  <2>1. Last(names) \in ProperName
    BY <1>2, LastOf
  <2>2. Front(names) \in Seq(ProperName)
    BY <1>2, Fronted
  <2>3. Last(names) # ".."
    BY <2>1 DEF ProperName
  <2> QED
    BY <1>2, <2>2, <2>3 DEF Normalize, Enter
<1>3. CASE e = ".." /\ names = <<>>
  <2>1. Normalize(names, e, TRUE) = names /\ Enter(names, e) = names
    BY <1>3 DEF Normalize, Enter
  <2>2. Normalize(names, e, FALSE) = Append(<<>>, "..")
    BY <1>3 DEF Normalize
  <2>3. Left(Append(<<>>, ".."))
    <3>1. ".." \in Element
      BY DEF Element
    <3>2. <<>> \in Seq(Element) /\ Len(<<>>) = 0
      OBVIOUS
    <3>3. <<>> \in Seq(Element) /\ Len(<<>>) = 0 /\ ".." \in Element
      BY <3>1, <3>2
    <3>4. /\ Append(<<>>, "..") \in Seq(Element) /\ Append(<<>>, "..") # <<>>
          /\ Append(<<>>, "..")[Len(<<>>) + 1] = ".."
      BY <3>3, AppendProperties
    <3>5. 0 + 1 = 1
      OBVIOUS
    <3> QED
      BY <3>3, <3>4, <3>5 DEF Left
  <2> QED
    BY <2>1, <2>2, <2>3
<1>4. CASE e \in ProperName
  <2>1. Append(names, e) \in Seq(ProperName)
    BY <1>4, Appended
  <2> QED
    BY <1>4, <2>1 DEF Normalize, Enter, ProperName
<1> QED
  BY <1>1, <1>2, <1>3, <1>4 DEF Element

LEMMA LeftForGood ==
  ASSUME NEW names, Left(names), NEW e \in Element
  PROVE  Left(Normalize(names, e, FALSE))
<1>1. names \in Seq(Element) /\ names # <<>> /\ names[1] = ".." /\ Len(names) \in Nat \ {0}
  BY LastOf DEF Left
<1>2. CASE e \in {"", "."}
  BY <1>2 DEF Normalize
<1>3. CASE e = ".." /\ Last(names) # ".."
  <2>1. Len(names) # 1
    <3>1. Last(names) = names[Len(names)]
      BY <1>1, LastOf
    <3> QED
      BY <1>1, <1>3, <3>1
  <2>2. /\ Front(names) \in Seq(Element) /\ Len(Front(names)) = Len(names) - 1
        /\ \A i \in 1 .. Len(names) - 1 : Front(names)[i] = names[i]
    BY <1>1, Fronted
  <2>3. \A n \in Nat \ {0} : n # 1 => 1 \in 1 .. n - 1 /\ n - 1 # 0
    OBVIOUS
  <2>4. 1 \in 1 .. Len(names) - 1 /\ Len(names) - 1 # 0
    BY <1>1, <2>1, <2>3, Zenon
  <2>5. Len(<<>>) = 0
    OBVIOUS
  <2>6. Front(names)[1] = ".." /\ Front(names) # <<>>
    BY <1>1, <2>2, <2>4, <2>5, Zenon
  <2>7. Normalize(names, e, FALSE) = Front(names)
    BY <1>1, <1>3 DEF Normalize
  <2> QED
    BY <2>2, <2>6, <2>7 DEF Left
<1>4. CASE e \notin {"", "."} /\ ~(e = ".." /\ Last(names) # "..")
  <2>1. /\ Append(names, e) \in Seq(Element) /\ Append(names, e) # <<>>
        /\ \A i \in 1 .. Len(names) : Append(names, e)[i] = names[i]
    BY <1>1, AppendProperties
  <2>2. Append(names, e)[1] = ".."
    BY <1>1, <2>1
  <2>3. Normalize(names, e, FALSE) = Append(names, e)
    BY <1>1, <1>4 DEF Normalize
  <2> QED
    BY <2>1, <2>2, <2>3 DEF Left
<1> QED
  BY <1>2, <1>3, <1>4

LEMMA One ==
  ASSUME NEW n \in Nat \ {0}
  PROVE  1 \in 1 .. n /\ 1 \in 1 .. n + 1
OBVIOUS

LEMMA LeftGoesUp ==
  ASSUME NEW names, Left(names), NEW p, p.parts = names \/ p.parts = Append(names, "")
  PROVE  GoesUp(p)
<1>1. names \in Seq(Element)
  BY DEF Left
<1>2. Len(names) \in Nat \ {0}
  <2>1. names # <<>>
    BY DEF Left
  <2> QED
    BY <1>1, <2>1, LastOf
<1>3. SUFFICES \E i \in 1 .. Len(p.parts) : p.parts[i] = ".."
  BY DEF GoesUp, Contains
<1>4. 1 \in 1 .. Len(names) /\ 1 \in 1 .. Len(names) + 1
  BY <1>2, One
<1>5. "" \in Element
  BY DEF Element
<1>6. /\ Len(Append(names, "")) = Len(names) + 1
      /\ \A i \in 1 .. Len(names) : Append(names, "")[i] = names[i]
  BY <1>1, <1>5, Appended
<1> QED
  BY <1>4, <1>6 DEF Left

(* The normal form of an absolute path: names, and perhaps a slash.        *)
Canonical(p, names) ==
  /\ p = Absolute(p.parts) /\ names \in Seq(ProperName)
  /\ p.parts = names \/ (names # <<>> /\ p.parts = Append(names, ""))

LEMMA NormalAbsolute ==
  ASSUME NEW p \in AnyPath, p.absolute
  PROVE  Canonical(LexicallyNormal(p), Denotes(p))
<1> DEFINE n == Len(p.parts)
<1>1. p.parts \in Seq(Element) /\ n \in Nat /\ p.absolute = TRUE
  BY DEF AnyPath
<1>2. \A k \in 1 .. n : p.parts[k] \in Element
  BY <1>1
<1> HIDE DEF n
<1>3. PICK at \in [0 .. n -> Seq(Element)] :
        /\ at[0] = <<>> /\ at[n] = Denotes(p)
        /\ \A k \in 1 .. n : at[k] = Enter(at[k - 1], p.parts[k])
  BY <1>1, DenotesWalk DEF n
<1>4. PICK walk \in [0 .. n -> Seq(Element)] :
        /\ walk[0] = <<>> /\ LexicallyNormal(p) = Normalized(p, walk[n])
        /\ \A k \in 1 .. n : walk[k] = Normalize(walk[k - 1], p.parts[k], p.absolute)
  BY <1>1, NormalWalk DEF n
<1> DEFINE S == {k \in Nat : k <= n => walk[k] = at[k] /\ at[k] \in Seq(ProperName)}
<1>5. 0 \in S
  BY <1>3, <1>4, EmptySeq
<1>6. ASSUME NEW k \in Nat, k \in S
      PROVE  k + 1 \in S
  <2>1. k + 1 \in Nat
    OBVIOUS
  <2> SUFFICES ASSUME k + 1 <= n
               PROVE  walk[k + 1] = at[k + 1] /\ at[k + 1] \in Seq(ProperName)
    BY <2>1
  <2>2. k + 1 \in 1 .. n /\ (k + 1) - 1 = k /\ k <= n
    BY <1>1
  <2>3. walk[k] = at[k] /\ at[k] \in Seq(ProperName) /\ p.parts[k + 1] \in Element
    BY <1>2, <1>6, <2>2
  <2>4. /\ walk[k + 1] = Normalize(walk[k], p.parts[k + 1], TRUE)
        /\ at[k + 1] = Enter(at[k], p.parts[k + 1])
    BY <1>1, <1>3, <1>4, <2>2
  <2> QED
    BY <2>3, <2>4, NormalizeStep
<1> HIDE DEF S
<1>7. n \in S
  BY <1>1, <1>5, <1>6, Induction
<1>8. n <= n
  BY <1>1
<1>9. LexicallyNormal(p) = Normalized(p, Denotes(p)) /\ Denotes(p) \in Seq(ProperName)
  BY <1>3, <1>4, <1>7, <1>8 DEF S
<1>10. \A x : [p EXCEPT !.parts = x] = Absolute(x) /\ Absolute(x).parts = x
  BY <1>1, SetParts DEF Absolute
<1> QED
  BY <1>1, <1>9, <1>10 DEF Normalized, Canonical

(* A relative path that stays inside is normalised to the names it leads   *)
(* through.                                                                *)
LEMMA NormalRelative ==
  ASSUME NEW p, p \in AnyPath, ~GoesUp(LexicallyNormal(Relative(p.parts)))
  PROVE  /\ Denotes(p) \in Seq(ProperName)
         /\ \E parts \in {Denotes(p), Append(Denotes(p), ""), Append(Denotes(p), ".")} :
              LexicallyNormal(Relative(p.parts)) = Relative(parts)
<1> DEFINE n == Len(p.parts)
           q == Relative(p.parts)
<1>1. p.parts \in Seq(Element) /\ n \in Nat /\ q.parts = p.parts /\ q.absolute = FALSE
  BY DEF AnyPath, Relative
<1>2. \A k \in 1 .. n : p.parts[k] \in Element
  BY <1>1
<1>3. \A x : [q EXCEPT !.parts = x] = Relative(x) /\ Relative(x).parts = x
  <2>1. q \in AnyPath
    BY <1>1 DEF Relative, AnyPath
  <2> HIDE DEF q
  <2> QED
    BY <1>1, <2>1, SetParts DEF Relative
<1> HIDE DEF n, q
<1>4. PICK at \in [0 .. n -> Seq(Element)] :
        /\ at[0] = <<>> /\ at[n] = Denotes(p)
        /\ \A k \in 1 .. n : at[k] = Enter(at[k - 1], p.parts[k])
  BY <1>1, DenotesWalk DEF n
<1>5. PICK walk \in [0 .. n -> Seq(Element)] :
        /\ walk[0] = <<>> /\ LexicallyNormal(q) = Normalized(q, walk[n])
        /\ \A k \in 1 .. n : walk[k] = Normalize(walk[k - 1], p.parts[k], FALSE)
  BY <1>1, NormalWalk DEF n
<1> DEFINE Inside(k) == walk[k] = at[k] /\ at[k] \in Seq(ProperName)
           S == {k \in Nat : k <= n => Inside(k) \/ Left(walk[k])}
<1>6. 0 \in S
  BY <1>4, <1>5, EmptySeq
<1>7. ASSUME NEW k \in Nat, k \in S
      PROVE  k + 1 \in S
  <2>1. k + 1 \in Nat
    OBVIOUS
  <2> SUFFICES ASSUME k + 1 <= n
               PROVE  Inside(k + 1) \/ Left(walk[k + 1])
    BY <2>1
  <2>2. k + 1 \in 1 .. n /\ (k + 1) - 1 = k /\ k <= n
    BY <1>1
  <2>3. (Inside(k) \/ Left(walk[k])) /\ p.parts[k + 1] \in Element
    BY <1>2, <1>7, <2>2
  <2>4. /\ walk[k + 1] = Normalize(walk[k], p.parts[k + 1], FALSE)
        /\ at[k + 1] = Enter(at[k], p.parts[k + 1])
    BY <1>4, <1>5, <2>2
  <2> QED
    BY <2>3, <2>4, NormalizeStep, LeftForGood
<1> HIDE DEF S
<1>8. n \in S
  BY <1>1, <1>6, <1>7, Induction
<1>9. n <= n
  BY <1>1
<1>10. Inside(n) \/ Left(walk[n])
  BY <1>8, <1>9 DEF S
<1>11. ~Left(walk[n])
  <2> SUFFICES ASSUME Left(walk[n])
               PROVE  GoesUp(LexicallyNormal(q))
    BY DEF q
  <2>1. walk[n] # <<>>
    BY DEF Left
  <2>2. LexicallyNormal(q).parts = walk[n] \/ LexicallyNormal(q).parts = Append(walk[n], "")
    BY <1>5, <1>3, <2>1 DEF Normalized
  <2> QED
    BY <2>2, LeftGoesUp
<1>12. LexicallyNormal(q) = Normalized(q, Denotes(p)) /\ Denotes(p) \in Seq(ProperName)
  BY <1>4, <1>5, <1>10, <1>11
<1>13. <<".">> = Append(<<>>, ".")
  OBVIOUS
<1> QED
  BY <1>12, <1>13, <1>3 DEF Normalized, q
------------------------------------------------------------------------------
(* Places below a root.                                                    *)

LEMMA GrowRight ==
  ASSUME NEW S, NEW s \in Seq(S), NEW t \in Seq(S), NEW e \in S
  PROVE  s \o Append(t, e) = Append(s \o t, e)
<1>1. <<e>> \in Seq(S)
  OBVIOUS
<1>2. s \o t \in Seq(S)
  BY ConcatProperties
<1>3. Append(t, e) = t \o <<e>> /\ Append(s \o t, e) = (s \o t) \o <<e>>
  BY <1>2, AppendIsConcat
<1> QED
  BY <1>1, <1>3, ConcatAssociative

LEMMA NameType ==
  ASSUME NEW names \in Seq(ProperName)
  PROVE  names \in Seq(Element)
BY SeqMonotonic DEF Element

LEMMA CanonicalType ==
  ASSUME NEW p, NEW names, Canonical(p, names)
  PROVE  p \in AnyPath /\ p.absolute = TRUE /\ names \in Seq(Element) /\ p.parts \in Seq(Element)
<1>1. names \in Seq(Element)
  BY NameType DEF Canonical
<1>2. "" \in Element
  BY DEF Element
<1>3. Append(names, "") \in Seq(Element)
  BY <1>1, <1>2, Appended
<1>4. p.parts \in Seq(Element)
  BY <1>1, <1>3 DEF Canonical
<1>5. p = [absolute |-> TRUE, parts |-> p.parts]
  BY DEF Canonical, Absolute
<1>6. [absolute |-> TRUE, parts |-> p.parts] \in AnyPath
  BY <1>4 DEF AnyPath
<1>7. p.absolute = TRUE
  BY <1>5
<1>8. p \in AnyPath
  BY <1>5, <1>6, Zenon
<1> QED
  BY <1>1, <1>4, <1>7, <1>8

(* What follows a slash.                                                   *)
After(names, rel) == IF rel = <<>> /\ names # <<>> THEN <<"">> ELSE rel

LEMMA SlashCanonical ==
  ASSUME NEW p, NEW names, Canonical(p, names), NEW rel
  PROVE  Slash(p, Relative(rel)) = Absolute(names \o After(names, rel))
<1>1. names \in Seq(ProperName) /\ names \in Seq(Element) /\ p \in AnyPath /\ p.absolute = TRUE
  BY CanonicalType DEF Canonical
<1> DEFINE kept == IF p.parts # <<>> /\ Last(p.parts) = "" THEN Front(p.parts) ELSE p.parts
<1>2. kept = names
  <2>1. CASE p.parts = names
    <3>1. p.parts = <<>> \/ Last(p.parts) \in ProperName
      BY <1>1, <2>1, LastOf
    <3> QED
      BY <2>1, <3>1 DEF ProperName
  <2>2. CASE p.parts = Append(names, "")
    <3>1. "" \in Element
      BY DEF Element
    <3>2. Append(names, "") # <<>> /\ Last(Append(names, "")) = "" /\ Front(Append(names, "")) = names
      BY <1>1, <3>1, FrontOfAppended
    <3> QED
      BY <2>2, <3>2
  <2> QED
    BY <2>1, <2>2 DEF Canonical
<1> HIDE DEF kept
<1>3. Slash(p, Relative(rel)) =
        [p EXCEPT !.parts = kept \o (IF Relative(rel) = Empty /\ kept # <<>> THEN <<"">> ELSE rel)]
  BY DEF Slash, kept, Relative
<1>4. Relative(rel) = Empty <=> rel = <<>>
  <2>1. Relative(rel).parts = rel /\ Empty.parts = <<>>
    BY DEF Empty, Relative
  <2> QED
    BY <2>1 DEF Empty
<1>5. Slash(p, Relative(rel)) = [p EXCEPT !.parts = names \o After(names, rel)]
  BY <1>2, <1>3, <1>4 DEF After
<1> QED
  BY <1>1, <1>5, SetParts DEF Absolute

LEMMA SlashType ==
  ASSUME NEW p \in AnyPath, p.absolute, NEW q \in AnyPath
  PROVE  Slash(p, q) \in AnyPath /\ Slash(p, q).absolute = TRUE
<1>1. p.parts \in Seq(Element) /\ q.parts \in Seq(Element) /\ p.absolute = TRUE /\ q.absolute \in BOOLEAN
  BY DEF AnyPath
<1>2. CASE q.absolute
  BY <1>1, <1>2 DEF Slash
<1>3. CASE ~q.absolute
  <2> DEFINE kept == IF p.parts # <<>> /\ Last(p.parts) = "" THEN Front(p.parts) ELSE p.parts
             more == IF q = Empty /\ kept # <<>> THEN <<"">> ELSE q.parts
  <2>1. kept \in Seq(Element)
    BY <1>1, Fronted
  <2>2. more \in Seq(Element)
    <3>1. "" \in Element
      BY DEF Element
    <3>2. \A e \in Element : <<e>> \in Seq(Element)
      OBVIOUS
    <3> QED
      BY <1>1, <3>1, <3>2
  <2>3. Slash(p, q) = [p EXCEPT !.parts = kept \o more]
    BY <1>3 DEF Slash
  <2> HIDE DEF kept, more
  <2>4. kept \o more \in Seq(Element)
    BY <2>1, <2>2, ConcatProperties
  <2>5. Slash(p, q) = [absolute |-> TRUE, parts |-> kept \o more]
    BY <1>1, <2>3, SetParts
  <2> QED
    BY <2>4, <2>5 DEF AnyPath
<1> QED
  BY <1>2, <1>3

LEMMA DenotesAll ==
  ASSUME NEW names \in Seq(ProperName)
  PROVE  Denotes(Absolute(names)) = names
<1>1. Len(names) \in Nat
  OBVIOUS
<1>2. Absolute(names).parts = names
  BY DEF Absolute
<1>3. names \in Seq(Element)
  BY NameType
<1>4. Len(names) + 1 .. Len(names) = {} /\ Len(names) <= Len(names)
  BY <1>1
<1>5. Trailed(names, names, Len(names), Len(names))
  BY <1>3, <1>4 DEF Trailed
<1> QED
  BY <1>1, <1>2, <1>5, DenotesNames

Dot(e) == e \in {"", "."}

LEMMA DotType ==
  ASSUME NEW e, Dot(e)
  PROVE  e \in Element
BY DEF Dot, Element

LEMMA Single ==
  ASSUME NEW S, NEW e \in S
  PROVE  <<e>> = Append(<<>>, e)
OBVIOUS

LEMMA TrailedOne ==
  ASSUME NEW names \in Seq(Element), NEW e, Dot(e)
  PROVE  /\ Trailed(Append(names, e), names, Len(names), Len(names) + 1)
         /\ Len(names) \in Nat /\ Len(names) + 1 \in Nat
<1>1. e \in Element
  BY DotType
<1>2. /\ Append(names, e) \in Seq(Element)
      /\ Len(Append(names, e)) = Len(names) + 1 /\ Append(names, e)[Len(names) + 1] = e
      /\ \A i \in 1 .. Len(names) : Append(names, e)[i] = names[i]
  BY <1>1, Appended
<1>3. \A m \in Nat : m <= m + 1 /\ m + 1 .. m + 1 = {m + 1} /\ m + 1 \in Nat
  OBVIOUS
<1>4. Len(names) \in Nat
  BY LenProperties
<1> QED
  BY <1>2, <1>3, <1>4 DEF Trailed, Dot

LEMMA SlashEnds ==
  ASSUME NEW names \in Seq(Element)
  PROVE  Len(Append(names, "")) = Len(names) + 1 /\ Append(names, "")[Len(names) + 1] = ""
<1>1. "" \in Element
  BY DEF Element
<1>2. \A e \in Element :
        Len(Append(names, e)) = Len(names) + 1 /\ Append(names, e)[Len(names) + 1] = e
  BY Appended
<1> QED
  BY <1>1, <1>2, Zenon

LEMMA DenotesEnded ==
  ASSUME NEW names \in Seq(ProperName), NEW e, Dot(e)
  PROVE  Denotes(Absolute(Append(names, e))) = names
<1>1. Absolute(Append(names, e)).parts = Append(names, e)
  BY DEF Absolute
<1>2. names \in Seq(Element)
  BY NameType
<1> QED
  BY <1>1, <1>2, TrailedOne, DenotesNames

LEMMA CanonicalDenotes ==
  ASSUME NEW p, NEW names, Canonical(p, names)
  PROVE  Denotes(p) = names
<1>1. names \in Seq(ProperName) /\ p = Absolute(p.parts)
  BY DEF Canonical
<1>2. p.parts = names \/ p.parts = Append(names, "")
  BY DEF Canonical
<1> QED
  BY <1>1, <1>2, DenotesAll, DenotesEnded DEF Dot

(* A root: in normal form, and so the names it denotes.                    *)
IsRoot(p) == Canonical(p, Denotes(p))

LEMMA NormalRoot ==
  ASSUME NEW p \in AnyPath, p.absolute
  PROVE  IsRoot(LexicallyNormal(p))
BY NormalAbsolute, CanonicalDenotes DEF IsRoot

LEMMA RootCanonical ==
  ASSUME NEW root \in AnyPath
  PROVE  IsRoot(NormalizeRoot(root))
<1>1. CASE root = Empty
  <2>1. NormalizeRoot(root) = Absolute(<<>>)
    BY <1>1 DEF NormalizeRoot
  <2>2. <<>> \in Seq(ProperName)
    OBVIOUS
  <2>3. Absolute(<<>>).parts = <<>>
    BY DEF Absolute
  <2>4. Canonical(Absolute(<<>>), <<>>)
    BY <2>2, <2>3 DEF Canonical
  <2> QED
    BY <2>1, <2>2, <2>4, DenotesAll DEF IsRoot
<1>2. CASE root # Empty
  <2>1. Cwd \in Seq(Element)
    BY CwdAssumption, NameType
  <2>2. Absolute(Cwd) \in AnyPath /\ Absolute(Cwd).absolute = TRUE
    BY <2>1 DEF Absolute, AnyPath
  <2>3. Slash(Absolute(Cwd), root) \in AnyPath /\ Slash(Absolute(Cwd), root).absolute = TRUE
    BY <2>2, SlashType
  <2> QED
    BY <1>2, <2>3, NormalRoot DEF NormalizeRoot
<1> QED
  BY <1>1, <1>2

LEMMA StagingCanonical ==
  ASSUME NEW root, IsRoot(root), NEW staging \in AnyPath
  PROVE  IsRoot(NormalizeStagingRoot(root, staging))
<1>1. root \in AnyPath /\ root.absolute = TRUE
  BY CanonicalType DEF IsRoot
<1>2. Slash(root, staging) \in AnyPath /\ Slash(root, staging).absolute = TRUE
  BY <1>1, SlashType
<1> QED
  BY <1>2, NormalRoot DEF NormalizeStagingRoot

IsCore(c) == c = [root |-> c.root, staging_root |-> c.staging_root] /\ IsRoot(c.root) /\ IsRoot(c.staging_root)

LEMMA ReconcilerIsCore ==
  ASSUME NEW root \in AnyPath, NEW staging \in AnyPath
  PROVE  IsCore(Reconciler(root, staging))
<1>1. IsRoot(NormalizeRoot(root))
  BY RootCanonical
<1>2. IsRoot(NormalizeStagingRoot(NormalizeRoot(root), staging))
  BY <1>1, StagingCanonical
<1> QED
  BY <1>1, <1>2 DEF Reconciler, IsCore

(* Below a root, the place of an entry.                                    *)
LEMMA SlashEntry ==
  ASSUME NEW p, IsRoot(p), NEW entry \in Seq(ProperName), entry # <<>>
  PROVE  /\ Slash(p, Relative(entry)) = Absolute(Denotes(p) \o entry)
         /\ Denotes(p) \in Seq(ProperName)
         /\ Denotes(Absolute(Denotes(p) \o entry)) = Denotes(p) \o entry
<1>1. After(Denotes(p), entry) = entry
  BY DEF After
<1>2. Slash(p, Relative(entry)) = Absolute(Denotes(p) \o entry)
  BY <1>1, SlashCanonical DEF IsRoot
<1>3. Denotes(p) \in Seq(ProperName)
  BY DEF IsRoot, Canonical
<1>4. Denotes(p) \o entry \in Seq(ProperName)
  BY <1>3, ConcatProperties
<1> QED
  BY <1>2, <1>3, <1>4, DenotesAll

LEMMA NothingUp ==
  ASSUME NEW p, NEW names, Canonical(p, names)
  PROVE  {i \in Len(names) + 1 .. Len(p.parts) : p.parts[i] # ""} = {}
<1>1. names \in Seq(Element) /\ Len(names) \in Nat
  BY CanonicalType, LenProperties
<1>2. CASE p.parts = names
  <2>1. Len(names) + 1 .. Len(names) = {}
    BY <1>1
  <2> QED
    BY <1>2, <2>1
<1>3. CASE p.parts = Append(names, "")
  <2>1. Len(Append(names, "")) = Len(names) + 1 /\ Append(names, "")[Len(names) + 1] = ""
    BY <1>1, SlashEnds
  <2>2. Len(names) + 1 .. Len(names) + 1 = {Len(names) + 1}
    BY <1>1
  <2> QED
    BY <1>3, <2>1, <2>2
<1> QED
  BY <1>2, <1>3 DEF Canonical

LEMMA RelativeBelow ==
  ASSUME NEW p, NEW names, Canonical(p, names), NEW entry \in Seq(ProperName), entry # <<>>
  PROVE  LexicallyRelative(Absolute(names \o entry), p) = Relative(entry)
<1>1. names \in Seq(Element) /\ p.parts \in Seq(Element)
  BY CanonicalType
<1>2. entry \in Seq(Element)
  BY NameType
<1>3. entry[1] \in ProperName
  BY EmptySeq, One, ElementOfSeq
<1>4. "" \in Element /\ "" # entry[1]
  BY <1>3 DEF Element, ProperName
<1> DEFINE whole == names \o entry
<1>5. whole \in Seq(Element)
  BY <1>1, <1>2, ConcatProperties
<1>6. Part(whole, names, Len(names)) /\ Part(whole, Append(names, ""), Len(names))
  BY <1>1, <1>2, <1>4, PartAfter
<1> HIDE DEF whole
<1>7. Part(whole, p.parts, Len(names))
  BY <1>6 DEF Canonical
<1>8. Len(names) \in Nat
  BY <1>1
<1> DEFINE k == Len(LongestCommonPrefix({whole, p.parts}))
           up == {i \in k + 1 .. Len(p.parts) : p.parts[i] # ""}
           rest == SubSeq(whole, k + 1, Len(whole))
<1>9. k = Len(names)
  BY <1>1, <1>5, <1>7, <1>8, LongestCommon
<1> HIDE DEF k
<1>10. rest = entry
  BY <1>1, <1>2, <1>9, AfterConcat DEF whole
<1>11. up = {}
  BY <1>9, NothingUp
<1>12. LexicallyRelative(Absolute(whole), p) =
         Relative(IF up = {} /\ rest \in {<<>>, <<"">>} THEN <<".">>
                  ELSE [i \in 1 .. Cardinality(up) |-> ".."] \o rest)
  BY DEF LexicallyRelative, k, Absolute
<1> HIDE DEF up, rest
<1>13. entry \notin {<<>>, <<"">>}
  <2>1. <<"">>[1] = ""
    OBVIOUS
  <2> QED
    BY <1>4, <2>1
<1>14. [i \in 1 .. Cardinality(up) |-> ".."] \o entry = entry
  <2>1. Cardinality(up) = 0
    BY <1>11, FS_EmptySet
  <2>2. [i \in 1 .. 0 |-> ".."] = <<>>
    OBVIOUS
  <2>3. <<>> \o entry = entry
    BY <1>2, ConcatEmptySeq
  <2> QED
    BY <2>1, <2>2, <2>3
<1> QED
  BY <1>10, <1>12, <1>13, <1>14 DEF whole

(* What validate_mapping() sees of a candidate.                            *)
LEMMA CandidatePlaces ==
  ASSUME NEW c, IsCore(c), NEW entry \in Entry
  PROVE  LET R == Denotes(c.root)
             S == Denotes(c.staging_root)
         IN /\ R \in Seq(ProperName) /\ S \in Seq(ProperName) /\ entry \in Seq(ProperName)
            /\ Candidate(c, entry) = [relative_path |-> Relative(entry),
                                      staged_path |-> Absolute(S \o entry),
                                      installed_path |-> Absolute(R \o entry)]
            /\ Slash(c.root, Relative(entry)) = Absolute(R \o entry)
            /\ Slash(c.staging_root, Relative(entry)) = Absolute(S \o entry)
            /\ Denotes(Absolute(R \o entry)) = R \o entry
            /\ Denotes(Absolute(S \o entry)) = S \o entry
<1>1. entry \in Seq(ProperName) /\ entry # <<>>
  BY ArgumentAssumption
<1>2. IsRoot(c.root) /\ IsRoot(c.staging_root)
  BY DEF IsCore
<1>3. /\ Slash(c.root, Relative(entry)) = Absolute(Denotes(c.root) \o entry)
      /\ Denotes(c.root) \in Seq(ProperName)
      /\ Denotes(Absolute(Denotes(c.root) \o entry)) = Denotes(c.root) \o entry
  BY <1>1, <1>2, SlashEntry
<1>4. /\ Slash(c.staging_root, Relative(entry)) = Absolute(Denotes(c.staging_root) \o entry)
      /\ Denotes(c.staging_root) \in Seq(ProperName)
      /\ Denotes(Absolute(Denotes(c.staging_root) \o entry)) = Denotes(c.staging_root) \o entry
  BY <1>1, <1>2, SlashEntry
<1>5. LexicallyRelative(Slash(c.staging_root, Relative(entry)), c.staging_root) = Relative(entry)
  BY <1>1, <1>2, <1>4, RelativeBelow DEF IsRoot
<1> QED
  BY <1>1, <1>3, <1>4, <1>5 DEF Candidate

LEMMA EntryInside ==
  ASSUME NEW entry \in Entry
  PROVE  ~PathEscaped(Relative(entry))
<1>1. entry \in Seq(ProperName) /\ entry # <<>>
  BY ArgumentAssumption
<1>2. Relative(entry).parts = entry /\ Empty.parts = <<>>
  BY DEF Relative, Empty
<1>3. \A i \in 1 .. Len(entry) : entry[i] \in ProperName
  BY <1>1, ElementOfSeq
<1>4. ~GoesUp(Relative(entry))
  BY <1>2, <1>3 DEF GoesUp, Contains, ProperName
<1>5. Relative(entry) # Empty
  BY <1>1, <1>2
<1> QED
  BY <1>4, <1>5 DEF PathEscaped

LEMMA OwnCandidate ==
  ASSUME NEW c, IsCore(c), NEW entry \in Entry
  PROVE  /\ ValidMapping(c, Candidate(c, entry))
         /\ Denotes(Candidate(c, entry).staged_path) = Denotes(c.staging_root) \o entry
         /\ Denotes(Candidate(c, entry).installed_path) = Denotes(c.root) \o entry
BY CandidatePlaces, EntryInside DEF ValidMapping

LEMMA AbsoluteInjective ==
  ASSUME NEW x, NEW y, Absolute(x) = Absolute(y)
  PROVE  x = y
<1>1. Absolute(x).parts = x /\ Absolute(y).parts = y
  BY DEF Absolute
<1> QED
  BY <1>1

LEMMA ForeignCandidate ==
  ASSUME NEW c, IsCore(c), NEW maker, IsCore(maker), NEW entry \in Entry,
         ValidMapping(c, Candidate(maker, entry))
  PROVE  Denotes(maker.root) = Denotes(c.root) /\ Denotes(maker.staging_root) = Denotes(c.staging_root)
<1> DEFINE R == Denotes(c.root)
           S == Denotes(c.staging_root)
           MR == Denotes(maker.root)
           MS == Denotes(maker.staging_root)
<1>1. /\ R \in Seq(ProperName) /\ S \in Seq(ProperName)
      /\ Slash(c.root, Relative(entry)) = Absolute(R \o entry)
      /\ Slash(c.staging_root, Relative(entry)) = Absolute(S \o entry)
  BY CandidatePlaces
<1>2. /\ MR \in Seq(ProperName) /\ MS \in Seq(ProperName) /\ entry \in Seq(ProperName)
      /\ Candidate(maker, entry) = [relative_path |-> Relative(entry),
                                    staged_path |-> Absolute(MS \o entry),
                                    installed_path |-> Absolute(MR \o entry)]
  BY CandidatePlaces
<1>3. Absolute(MR \o entry) = Absolute(R \o entry) /\ Absolute(MS \o entry) = Absolute(S \o entry)
  BY <1>1, <1>2 DEF ValidMapping
<1> HIDE DEF R, S, MR, MS
<1>4. MR \o entry = R \o entry /\ MS \o entry = S \o entry
  BY <1>3, AbsoluteInjective
<1>5. MR = R /\ MS = S
  BY <1>1, <1>2, <1>4, ConcatSimplifications
<1> QED
  BY <1>5 DEF R, S, MR, MS

LEMMA RelocationPlace ==
  ASSUME NEW c, IsCore(c), NEW destination \in AnyPath, RelocationAllowed(destination)
  PROVE  Denotes(RelocationTarget(c, destination)) = Denotes(c.root) \o Denotes(destination)
<1> DEFINE R == Denotes(c.root)
           D == Denotes(destination)
<1>1. D \in Seq(ProperName)
  BY NormalRelative DEF RelocationAllowed, LogicalPath
<1>2. R \in Seq(ProperName)
  BY DEF IsCore, IsRoot, Canonical
<1> HIDE DEF R, D
<1>3. \A e : Dot(e) => R \o Append(D, e) = Append(R \o D, e)
  <2>1. R \in Seq(Element) /\ D \in Seq(Element)
    BY <1>1, <1>2, NameType
  <2>2. \A e \in Element : R \o Append(D, e) = Append(R \o D, e)
    BY <2>1, GrowRight
  <2> QED
    BY <2>2, DotType
<1> USE DEF D
<1>4. PICK parts \in {D, Append(D, ""), Append(D, ".")} : LogicalPath(destination) = Relative(parts)
  BY NormalRelative DEF RelocationAllowed, LogicalPath
<1>5. Canonical(c.root, R) /\ R \in Seq(ProperName)
  BY DEF IsCore, IsRoot, Canonical, R
<1> HIDE DEF D
<1>6. RelocationTarget(c, destination) = Absolute(R \o After(R, parts))
  BY <1>4, <1>5, SlashCanonical DEF RelocationTarget
<1>7. After(R, parts) \in {D, Append(D, ""), Append(D, ".")}
  <2>1. <<"">> = Append(<<>>, "")
    <3>1. "" \in Element
      BY DEF Element
    <3> QED
      BY <3>1, Single
  <2>2. parts = <<>> => D = <<>>
    <3>1. D \in Seq(Element)
      BY <1>1, NameType
    <3>2. \A e \in Element : Append(D, e) # <<>>
      BY <3>1, AppendProperties
    <3>3. "" \in Element /\ "." \in Element
      BY DEF Element
    <3> QED
      BY <1>4, <3>2, <3>3, Zenon
  <2> QED
    BY <1>4, <2>1, <2>2 DEF After
<1>8. R \o D \in Seq(ProperName)
  BY <1>1, <1>5, ConcatProperties
<1>9. Dot("") /\ Dot(".")
  BY DEF Dot
<1>10. Denotes(Absolute(R \o After(R, parts))) = R \o D
  BY <1>7, <1>8, <1>3, <1>9, DenotesAll, DenotesEnded
<1> QED
  BY <1>6, <1>10 DEF R, D

------------------------------------------------------------------------------
(* What is shown.                                                          *)

(* What a display shows without its styles.                                *)
Byte == (STRING \ Style) \cup Style

Strip(text, b) == IF b \in Style THEN text ELSE Append(text, b)

LEMMA StripType ==
  ASSUME NEW text \in Seq(Byte), NEW b \in Byte
  PROVE  Strip(text, b) \in Seq(Byte)
BY Appended DEF Strip

IsStripping(walk, bytes, n) ==
  /\ walk \in [0 .. n -> Seq(Byte)] /\ walk[0] = <<>>
  /\ \A k \in 1 .. n : walk[k] = Strip(walk[k - 1], bytes[k])

LEMMA UnstyledWalk ==
  ASSUME NEW bytes \in Seq(Byte), NEW n \in Nat, n = Len(bytes)
  PROVE  \E walk : IsStripping(walk, bytes, n) /\ walk[n] = Unstyled(bytes)
<1> DEFINE V == Seq(Byte)
           step == [x \in V \X (1 .. n) |-> Strip(x[1], bytes[x[2]])]
           Fold(g) == g = [t \in SUBSET (1 .. n) |->
                             IF t = {} THEN <<>> ELSE Strip(g[t \ {Max(t)}], bytes[Max(t)])]
<1>1. \A at \in V : \A k \in 1 .. n : step[<<at, k>>] = Strip(at, bytes[k])
  OBVIOUS
<1>2. step \in [V \X (1 .. n) -> V]
  <2>1. \A x \in V \X (1 .. n) : x[1] \in V /\ bytes[x[2]] \in Byte
    OBVIOUS
  <2>2. \A x \in V \X (1 .. n) : Strip(x[1], bytes[x[2]]) \in V
    BY <2>1, StripType
  <2> QED
    BY <2>2
<1>3. <<>> \in V
  OBVIOUS
<1>4. DOMAIN bytes = 1 .. n
  OBVIOUS
<1>5. Unstyled(bytes) = (CHOOSE g : Fold(g))[1 .. n]
  BY <1>4 DEF Unstyled, FoldLeft, MapThenFoldSet, Strip
<1> HIDE DEF step, V
<1>6. \E g : Fold(g)
  <2>1. PICK g \in [SUBSET (1 .. n) -> V] : IsFold(g, n, <<>>, step)
    BY <1>2, <1>3, FoldExists
  <2>2. ASSUME NEW t \in SUBSET (1 .. n)
        PROVE  g[t] = IF t = {} THEN <<>> ELSE Strip(g[t \ {Max(t)}], bytes[Max(t)])
    <3>1. CASE t # {}
      <4>1. Max(t) \in 1 .. n /\ t \ {Max(t)} \in SUBSET (1 .. n)
        BY <3>1, Greatest
      <4>2. g[t \ {Max(t)}] \in V
        BY <4>1
      <4>3. g[t] = step[<<g[t \ {Max(t)}], Max(t)>>]
        BY <2>1, <3>1 DEF IsFold
      <4> QED
        BY <1>1, <3>1, <4>1, <4>2, <4>3
    <3> QED
      BY <2>1, <3>1 DEF IsFold
  <2> QED
    BY <2>2
<1> DEFINE it == CHOOSE g : Fold(g)
<1>7. Fold(it)
  BY <1>6
<1> HIDE DEF it
<1>8. it[{}] = <<>>
  BY <1>7
<1>9. \A t \in SUBSET (1 .. n) :
        t # {} /\ it[t \ {Max(t)}] \in V => it[t] = step[<<it[t \ {Max(t)}], Max(t)>>]
  <2> SUFFICES ASSUME NEW t \in SUBSET (1 .. n), t # {}, it[t \ {Max(t)}] \in V
               PROVE  it[t] = step[<<it[t \ {Max(t)}], Max(t)>>]
    OBVIOUS
  <2>1. Max(t) \in 1 .. n
    BY Greatest
  <2>2. it[t] = Strip(it[t \ {Max(t)}], bytes[Max(t)])
    BY <1>7
  <2> QED
    BY <1>1, <2>1, <2>2
<1>10. Computes(it, V, n, <<>>, step)
  BY <1>2, <1>3, <1>8, <1>9 DEF Computes
<1> HIDE DEF Fold
<1>11. PICK walk \in [0 .. n -> V] : IsWalk(walk, n, <<>>, step) /\ walk[n] = it[1 .. n]
  BY <1>10, FoldWalks
<1>12. ASSUME NEW k \in 1 .. n
       PROVE  walk[k] = Strip(walk[k - 1], bytes[k])
  <2>1. walk[k - 1] \in V
    BY k - 1 \in 0 .. n
  <2> QED
    BY <1>1, <1>11, <2>1 DEF IsWalk
<1>13. IsStripping(walk, bytes, n)
  BY <1>11, <1>12 DEF IsStripping, V, IsWalk
<1> QED
  BY <1>5, <1>11, <1>13 DEF it

LEMMA StripAppended ==
  ASSUME NEW s \in Seq(Byte), NEW text \in Seq(Byte), NEW b \in Byte
  PROVE  Strip(s \o text, b) = s \o Strip(text, b)
<1>1. \A e \in Byte : s \o Append(text, e) = Append(s \o text, e)
  BY GrowRight
<1> QED
  BY <1>1 DEF Strip

(* It is that of its first part and then that of its second.               *)
LEMMA UnstyledConcat ==
  ASSUME NEW s \in Seq(Byte), NEW t \in Seq(Byte)
  PROVE  Unstyled(s \o t) = Unstyled(s) \o Unstyled(t)
<1> DEFINE m == Len(s)
           n == Len(t)
           st == s \o t
<1>1. m \in Nat /\ n \in Nat /\ m + n \in Nat
  BY LenProperties
<1>2. /\ st \in Seq(Byte) /\ Len(st) = m + n
      /\ \A i \in 1 .. m + n : st[i] = IF i <= m THEN s[i] ELSE t[i - m]
  BY ConcatProperties
<1>3. PICK u : IsStripping(u, s, m) /\ u[m] = Unstyled(s)
  BY <1>1, UnstyledWalk
<1>4. PICK v : IsStripping(v, t, n) /\ v[n] = Unstyled(t)
  BY <1>1, UnstyledWalk
<1> HIDE DEF m, n, st
<1>5. PICK w : IsStripping(w, st, m + n) /\ w[m + n] = Unstyled(st)
  BY <1>1, <1>2, UnstyledWalk
<1> DEFINE A == {k \in Nat : k <= m => w[k] = u[k]}
<1>6. 0 \in A
  BY <1>3, <1>5 DEF IsStripping
<1>7. ASSUME NEW k \in Nat, k \in A
      PROVE  k + 1 \in A
  <2>1. k + 1 \in Nat
    OBVIOUS
  <2> SUFFICES ASSUME k + 1 <= m
               PROVE  w[k + 1] = u[k + 1]
    BY <2>1
  <2>2. k + 1 \in 1 .. m /\ k + 1 \in 1 .. m + n /\ (k + 1) - 1 = k /\ k <= m
    BY <1>1
  <2>3. w[k + 1] = Strip(w[k], st[k + 1]) /\ u[k + 1] = Strip(u[k], s[k + 1])
    BY <1>3, <1>5, <2>2 DEF IsStripping
  <2> QED
    BY <1>2, <1>7, <2>2, <2>3
<1> HIDE DEF A
<1>8. m \in A /\ m <= m
  BY <1>1, <1>6, <1>7, Induction
<1>9. w[m] = Unstyled(s)
  BY <1>3, <1>8 DEF A
<1> DEFINE B == {k \in Nat : k <= n => w[m + k] = Unstyled(s) \o v[k]}
<1>10. Unstyled(s) \in Seq(Byte)
  BY <1>1, <1>3 DEF IsStripping
<1>11. 0 \in B
  <2>1. m + 0 = m /\ v[0] = <<>>
    BY <1>1, <1>4 DEF IsStripping
  <2> QED
    BY <1>9, <1>10, <2>1, ConcatEmptySeq
<1>12. ASSUME NEW k \in Nat, k \in B
       PROVE  k + 1 \in B
  <2>1. k + 1 \in Nat
    OBVIOUS
  <2> SUFFICES ASSUME k + 1 <= n
               PROVE  w[m + (k + 1)] = Unstyled(s) \o v[k + 1]
    BY <2>1
  <2>2. /\ k + 1 \in 1 .. n /\ k \in 0 .. n /\ m + (k + 1) \in 1 .. m + n /\ (k + 1) - 1 = k /\ k <= n
        /\ (m + (k + 1)) - 1 = m + k /\ ~(m + (k + 1) <= m) /\ (m + (k + 1)) - m = k + 1
    BY <1>1
  <2>3. w[m + (k + 1)] = Strip(w[m + k], st[m + (k + 1)]) /\ v[k + 1] = Strip(v[k], t[k + 1])
    BY <1>4, <1>5, <2>2 DEF IsStripping
  <2>4. st[m + (k + 1)] = t[k + 1]
    BY <1>2, <2>2
  <2>5. w[m + k] = Unstyled(s) \o v[k]
    BY <1>12, <2>2
  <2>6. v[k] \in Seq(Byte)
    BY <1>4, <2>2 DEF IsStripping
  <2>7. t[k + 1] \in Byte
    BY <2>2, ElementOfSeq DEF n
  <2>8. w[m + (k + 1)] = Strip(Unstyled(s) \o v[k], t[k + 1])
    BY <2>3, <2>4, <2>5
  <2>9. Strip(Unstyled(s) \o v[k], t[k + 1]) = Unstyled(s) \o Strip(v[k], t[k + 1])
    BY <1>10, <2>6, <2>7, StripAppended
  <2> QED
    BY <2>3, <2>8, <2>9
<1> HIDE DEF B
<1>13. n \in B /\ n <= n
  BY <1>1, <1>11, <1>12, Induction
<1> QED
  BY <1>4, <1>5, <1>13 DEF B, st

(* Text has no styles.                                                     *)
LEMMA UnstyledText ==
  ASSUME NEW s \in Seq(STRING \ Style)
  PROVE  Unstyled(s) = s
<1> DEFINE n == Len(s)
<1>1. s \in Seq(Byte) /\ n \in Nat
  BY SeqMonotonic, LenProperties DEF Byte
<1>2. PICK w : IsStripping(w, s, n) /\ w[n] = Unstyled(s)
  BY <1>1, UnstyledWalk
<1> DEFINE S == {k \in Nat : k <= n => w[k] = SubSeq(s, 1, k)}
<1>3. 0 \in S
  BY <1>2, SubSeqEmpty DEF IsStripping
<1>4. ASSUME NEW k \in Nat, k \in S
      PROVE  k + 1 \in S
  <2>1. k + 1 \in Nat
    OBVIOUS
  <2> SUFFICES ASSUME k + 1 <= n
               PROVE  w[k + 1] = SubSeq(s, 1, k + 1)
    BY <2>1
  <2>2. k + 1 \in 1 .. n /\ (k + 1) - 1 = k /\ k <= n /\ k < Len(s)
    BY <1>1
  <2>3. SubSeq(s, 1, k + 1) = Append(SubSeq(s, 1, k), s[k + 1]) /\ s[k + 1] \in STRING \ Style
    BY <2>2, Prefixed
  <2>4. w[k + 1] = Strip(SubSeq(s, 1, k), s[k + 1])
    BY <1>2, <1>4, <2>2 DEF IsStripping
  <2> QED
    BY <2>3, <2>4 DEF Strip
<1> HIDE DEF S
<1>5. n \in S /\ n <= n
  BY <1>1, <1>3, <1>4, Induction
<1> QED
  BY <1>2, <1>5, SubSeqFull DEF S

LEMMA UnstyledStyle ==
  ASSUME NEW b \in Style
  PROVE  <<b>> \in Seq(Byte) /\ Unstyled(<<b>>) = <<>>
<1>1. b \in Byte
  BY DEF Byte
<1>2. <<b>> \in Seq(Byte) /\ Len(<<b>>) = 1 /\ <<b>>[1] = b
  BY <1>1
<1>3. 1 \in Nat /\ 1 \in 1 .. 1 /\ 1 - 1 = 0
  OBVIOUS
<1>4. PICK w : IsStripping(w, <<b>>, 1) /\ w[1] = Unstyled(<<b>>)
  BY <1>2, <1>3, UnstyledWalk
<1> QED
  BY <1>2, <1>3, <1>4 DEF IsStripping, Strip

LEMMA Concatenated ==
  ASSUME NEW S, NEW s \in Seq(S), NEW t \in Seq(S), NEW m \in Nat, NEW n \in Nat,
         m = Len(s), n = Len(t)
  PROVE  /\ s \o t \in Seq(S) /\ Len(s \o t) = m + n
         /\ \A i \in 1 .. m : (s \o t)[i] = s[i]
         /\ \A i \in 1 .. n : (s \o t)[m + i] = t[i]
<1>1. /\ s \o t \in Seq(S) /\ Len(s \o t) = m + n
      /\ \A i \in 1 .. m + n : (s \o t)[i] = IF i <= m THEN s[i] ELSE t[i - m]
  BY ConcatProperties
<1>2. \A i \in 1 .. m : i \in 1 .. m + n /\ i <= m
  OBVIOUS
<1>3. \A i \in 1 .. n : m + i \in 1 .. m + n /\ ~(m + i <= m) /\ (m + i) - m = i
  OBVIOUS
<1> QED
  BY <1>1, <1>2, <1>3

(* A line between styles.                                                  *)
Frame(a, c, b, e) == <<a>> \o c \o <<b>> \o e

IsFrame(S, p, a, b, c, e, k, l) ==
  /\ p \in Seq(S) /\ Len(p) = k + 2 + l
  /\ p[1] = a /\ p[k + 2] = b
  /\ \A i \in 1 .. k : p[i + 1] = c[i]
  /\ \A i \in 1 .. l : p[k + 2 + i] = e[i]

LEMMA Framed ==
  ASSUME NEW S, NEW a \in S, NEW b \in S, NEW c \in Seq(S), NEW e \in Seq(S),
         NEW k \in Nat, NEW l \in Nat, k = Len(c), l = Len(e)
  PROVE  IsFrame(S, Frame(a, c, b, e), a, b, c, e, k, l)
<1> DEFINE u == <<a>> \o c
           v == u \o <<b>>
           w == v \o e
<1>1. <<a>> \in Seq(S) /\ Len(<<a>>) = 1 /\ <<a>>[1] = a
  OBVIOUS
<1>2. <<b>> \in Seq(S) /\ Len(<<b>>) = 1 /\ <<b>>[1] = b
  OBVIOUS
<1>3. PICK p \in Nat, q \in Nat : p = k + 1 /\ q = k + 2
  OBVIOUS
<1>4. 1 \in Nat /\ 1 + k = p /\ p + 1 = q
  BY <1>3
<1>5. /\ u \in Seq(S) /\ Len(u) = 1 + k
      /\ \A i \in 1 .. 1 : u[i] = <<a>>[i]
      /\ \A i \in 1 .. k : u[1 + i] = c[i]
  BY <1>1, <1>4, Concatenated
<1> HIDE DEF u
<1>6. /\ v \in Seq(S) /\ Len(v) = p + 1
      /\ \A i \in 1 .. p : v[i] = u[i]
      /\ \A i \in 1 .. 1 : v[p + i] = <<b>>[i]
  <2>1. Len(u) = p
    BY <1>5, <1>4
  <2> QED
    BY <1>2, <1>5, <1>4, <2>1, Concatenated
<1> HIDE DEF v
<1>7. /\ w \in Seq(S) /\ Len(w) = q + l
      /\ \A i \in 1 .. q : w[i] = v[i]
      /\ \A i \in 1 .. l : w[q + i] = e[i]
  <2>1. q = Len(v) /\ v \in Seq(S)
    BY <1>6, <1>4
  <2>2. \A x \in Seq(S) : q = Len(x) =>
          /\ x \o e \in Seq(S) /\ Len(x \o e) = q + l
          /\ \A i \in 1 .. q : (x \o e)[i] = x[i]
          /\ \A i \in 1 .. l : (x \o e)[q + i] = e[i]
    BY Concatenated
  <2> QED
    BY <2>1, <2>2
<1> HIDE DEF w
<1>8. w[1] = a
  <2>1. 1 \in 1 .. 1 /\ 1 \in 1 .. p /\ 1 \in 1 .. q
    BY <1>3
  <2> QED
    BY <1>1, <1>5, <1>6, <1>7, <2>1
<1>9. w[k + 2] = b
  <2>1. 1 \in 1 .. 1 /\ p + 1 = q /\ q \in 1 .. q
    BY <1>3
  <2> QED
    BY <1>2, <1>3, <1>6, <1>7, <2>1
<1>10. ASSUME NEW i \in 1 .. k
      PROVE  w[i + 1] = c[i]
  <2>1. 1 + i = i + 1 /\ 1 + i \in 1 .. p /\ 1 + i \in 1 .. q
    BY <1>3
  <2>2. w[1 + i] = v[1 + i] /\ v[1 + i] = u[1 + i] /\ u[1 + i] = c[i]
    BY <1>5, <1>6, <1>7, <2>1
  <2> QED
    BY <2>1, <2>2
<1> QED
  BY <1>3, <1>7, <1>8, <1>9, <1>10 DEF Frame, IsFrame, u, v, w

(* A line as it is shown: it ends as it should, and what is styled ends    *)
(* before.                                                                 *)
Tidy(x, n) ==
  /\ x \in Seq(Byte) /\ n = Len(x) /\ n # 0
  /\ \A i \in 1 .. n : x[i] = "lf" <=> i = n
  /\ \A j \in 1 .. n : x[j] = "style" => \E l \in j + 1 .. n - 1 : x[l] = "reset"
  /\ n > 2 => ~(x[n - 1] = "reset" /\ x[n - 2] = "cr")

Cosmetic(bytes) ==
  \A i \in DOMAIN bytes : bytes[i] = "lf" =>
    /\ \A j \in 1 .. i - 1 : bytes[j] = "style" =>
         \E l \in j + 1 .. i - 1 : bytes[l] = "reset"
    /\ ~(i > 2 /\ bytes[i - 1] = "reset" /\ bytes[i - 2] = "cr")

LEMMA TidyTwice ==
  ASSUME NEW x, NEW m \in Nat, Tidy(x, m), NEW y, NEW n \in Nat, Tidy(y, n)
  PROVE  Cosmetic(x \o y)
<1> DEFINE z == x \o y
<1>1. x \in Seq(Byte) /\ y \in Seq(Byte) /\ m = Len(x) /\ n = Len(y)
  BY DEF Tidy
<1>2. /\ z \in Seq(Byte) /\ Len(z) = m + n
      /\ \A i \in 1 .. m + n : z[i] = IF i <= m THEN x[i] ELSE y[i - m]
  BY <1>1, ConcatProperties
<1> HIDE DEF z
<1>3. \A i \in 1 .. m : z[i] = x[i]
  BY <1>2
<1>4. \A i \in m + 1 .. m + n : z[i] = y[i - m] /\ i - m \in 1 .. n
  BY <1>2
<1>5. DOMAIN z = 1 .. m + n
  BY <1>2
<1> SUFFICES ASSUME NEW i \in 1 .. m + n, z[i] = "lf"
             PROVE  /\ \A j \in 1 .. i - 1 : z[j] = "style" =>
                         \E l \in j + 1 .. i - 1 : z[l] = "reset"
                    /\ ~(i > 2 /\ z[i - 1] = "reset" /\ z[i - 2] = "cr")
  BY <1>5 DEF Cosmetic, z
<1>6. i = m \/ i = m + n
  <2>1. CASE i <= m
    <3>1. i \in 1 .. m
      BY <2>1
    <3> QED
      BY <1>3, <3>1 DEF Tidy
  <2>2. CASE ~(i <= m)
    <3>1. i \in m + 1 .. m + n
      BY <2>2
    <3>2. y[i - m] = "lf" /\ i - m \in 1 .. n
      BY <1>4, <3>1
    <3>3. i - m = n
      BY <3>2 DEF Tidy
    <3> QED
      BY <3>1, <3>3
  <2> QED
    BY <2>1, <2>2
<1>7. ASSUME NEW j \in 1 .. i - 1, z[j] = "style"
      PROVE  \E l \in j + 1 .. i - 1 : z[l] = "reset"
  <2>1. CASE j <= m
    <3>1. j \in 1 .. m /\ x[j] = "style"
      BY <1>3, <1>7, <2>1
    <3>2. PICK l \in j + 1 .. m - 1 : x[l] = "reset"
      BY <3>1 DEF Tidy
    <3>3. l \in 1 .. m /\ l \in j + 1 .. i - 1
      BY <1>6, <3>1
    <3> QED
      BY <1>3, <3>2, <3>3
  <2>2. CASE ~(j <= m)
    <3>1. j \in m + 1 .. m + n /\ i = m + n
      BY <1>6, <2>2
    <3>2. j - m \in 1 .. n /\ y[j - m] = "style"
      BY <1>4, <1>7, <3>1
    <3>3. PICK l \in (j - m) + 1 .. n - 1 : y[l] = "reset"
      BY <3>2 DEF Tidy
    <3>4. m + l \in m + 1 .. m + n /\ m + l \in j + 1 .. i - 1 /\ (m + l) - m = l
      BY <3>1, <3>2
    <3>5. z[m + l] = "reset"
      BY <1>4, <3>3, <3>4
    <3> QED
      BY <3>4, <3>5
  <2> QED
    BY <2>1, <2>2
<1>8. ASSUME i > 2, z[i - 1] = "reset", z[i - 2] = "cr"
      PROVE  FALSE
  <2>1. CASE i = m
    <3>1. m - 1 \in 1 .. m /\ m - 2 \in 1 .. m /\ m > 2
      BY <1>8, <2>1
    <3>2. x[m - 1] = "reset" /\ x[m - 2] = "cr"
      BY <1>3, <1>8, <2>1, <3>1
    <3> QED
      BY <3>1, <3>2 DEF Tidy
  <2>2. CASE i = m + n /\ n > 2
    <3>1. /\ i - 1 \in m + 1 .. m + n /\ (i - 1) - m = n - 1
          /\ i - 2 \in m + 1 .. m + n /\ (i - 2) - m = n - 2
      BY <2>2
    <3>2. y[n - 1] = "reset" /\ y[n - 2] = "cr"
      BY <1>4, <1>8, <3>1
    <3> QED
      BY <2>2, <3>2 DEF Tidy
  <2>3. CASE i = m + n /\ ~(n > 2)
    <3>1. z[m] = "lf"
      <4>1. m \in 1 .. m
        BY DEF Tidy
      <4> QED
        BY <1>3, <4>1 DEF Tidy
    <3>2. n = 1 \/ n = 2
      BY <2>3 DEF Tidy
    <3>3. i - 1 = m \/ i - 2 = m
      BY <2>3, <3>2
    <3> QED
      BY <1>8, <3>1, <3>3
  <2> QED
    BY <1>6, <2>1, <2>2, <2>3
<1> QED
  BY <1>7, <1>8

(* A line, and the parts its style goes around.                            *)
LEMMA LineParts ==
  ASSUME NEW line \in Line
  PROVE  \E k \in Nat, l \in {1, 2} :
           /\ Len(line) = k + l /\ LineEnding(line) = l
           /\ line[k + l] = "lf"
           /\ l = 1 /\ k # 0 => line[k] # "cr"
           /\ l = 2 => line[k + 1] = "cr"
           /\ line \in Seq(STRING \ Style) /\ line # <<>>
           /\ \A i \in 1 .. k + l : line[i] = "lf" <=> i = k + l
<1>1. line \in Seq(STRING \ Style) /\ line # <<>>
  BY LineAssumption
<1>2. Len(line) \in Nat \ {0} /\ Last(line) = line[Len(line)] /\ DOMAIN line = 1 .. Len(line)
  BY <1>1, LastOf, LenProperties
<1> DEFINE n == Len(line)
<1> HIDE DEF n
<1>3. n \in Nat \ {0} /\ n \in 1 .. n
  BY <1>2 DEF n
<1>4. \A i \in 1 .. n : line[i] = "lf" <=> i = n
  BY <1>2, LineAssumption DEF n
<1>5. line[n] = "lf"
  BY <1>3, <1>4
<1>6. CASE n > 1 /\ line[n - 1] = "cr"
  <2>1. LineEnding(line) = 2
    BY <1>1, <1>2, <1>5, <1>6 DEF LineEnding, n
  <2>2. n - 2 \in Nat /\ (n - 2) + 2 = n /\ (n - 2) + 1 = n - 1
    BY <1>3, <1>6
  <2> QED
    BY <1>1, <1>4, <1>5, <1>6, <2>1, <2>2 DEF n
<1>7. CASE ~(n > 1 /\ line[n - 1] = "cr")
  <2>1. LineEnding(line) = 1
    BY <1>1, <1>2, <1>5, <1>7 DEF LineEnding, n
  <2>2. n - 1 \in Nat /\ (n - 1) + 1 = n /\ (n - 1 # 0 => n > 1)
    BY <1>3
  <2>3. n - 1 # 0 => line[n - 1] # "cr"
    BY <1>7, <2>2
  <2>4. Len(line) = (n - 1) + 1 /\ line[(n - 1) + 1] = "lf"
    BY <1>5, <2>2 DEF n
  <2>5. \A i \in 1 .. (n - 1) + 1 : line[i] = "lf" <=> i = (n - 1) + 1
    BY <1>4, <2>2
  <2>6. 1 \in {1, 2} /\ 1 # 2
    OBVIOUS
  <2> HIDE DEF n
  <2> QED
    BY <1>1, <2>1, <2>2, <2>3, <2>4, <2>5, <2>6
<1> QED
  BY <1>6, <1>7

LEMMA PlainTidy ==
  ASSUME NEW line \in Line
  PROVE  Tidy(line, Len(line)) /\ Len(line) \in Nat /\ Unstyled(line) = line
<1>1. line \in Seq(STRING \ Style) /\ line # <<>>
  BY LineAssumption
<1>2. line \in Seq(Byte) /\ Len(line) \in Nat \ {0} /\ DOMAIN line = 1 .. Len(line)
  BY <1>1, SeqMonotonic, EmptySeq, LenProperties DEF Byte
<1>3. \A i \in 1 .. Len(line) : line[i] = "lf" <=> i = Len(line)
  BY <1>2, LineAssumption
<1>4. \A i \in 1 .. Len(line) : line[i] \notin Style
  BY <1>1, ElementOfSeq
<1>5. \A i \in 1 .. Len(line) : line[i] # "style" /\ line[i] # "reset"
  BY <1>4 DEF Style
<1>6. Len(line) > 2 => Len(line) - 1 \in 1 .. Len(line)
  BY <1>2
<1> QED
  BY <1>1, <1>2, <1>3, <1>5, <1>6, UnstyledText DEF Tidy

LEMMA SuffixOf ==
  ASSUME NEW S, NEW s \in Seq(S), NEW k \in Nat, NEW l \in Nat \ {0}, Len(s) = k + l
  PROVE  /\ SubSeq(s, 1, k) \in Seq(S) /\ Len(SubSeq(s, 1, k)) = k
         /\ \A i \in 1 .. k : SubSeq(s, 1, k)[i] = s[i]
         /\ SubSeq(s, k + 1, k + l) \in Seq(S) /\ Len(SubSeq(s, k + 1, k + l)) = l
         /\ \A i \in 1 .. l : SubSeq(s, k + 1, k + l)[i] = s[k + i]
         /\ SubSeq(s, 1, k) \o SubSeq(s, k + 1, k + l) = s
<1>1. k <= Len(s)
  OBVIOUS
<1>2. PICK a \in Nat, b \in Nat : a = k + 1 /\ b = k + l
  OBVIOUS
<1>3. \A i \in a .. b : s[i] \in S
  <2>1. a .. b \subseteq 1 .. Len(s)
    BY <1>2
  <2> QED
    BY <2>1, ElementOfSeq
<1>4. a \in Int /\ b \in Int
  OBVIOUS
<1> DEFINE t == SubSeq(s, a, b)
<1>5. /\ t \in Seq(S) /\ Len(t) = IF a <= b THEN b - a + 1 ELSE 0
      /\ \A i \in 1 .. b - a + 1 : t[i] = s[a + i - 1]
  BY <1>3, <1>4, SubSeqProperties
<1> HIDE DEF t
<1>6. Len(t) = l
  BY <1>2, <1>5
<1>7. \A i \in 1 .. l : t[i] = s[k + i]
  <2>1. \A i \in 1 .. l : i \in 1 .. b - a + 1 /\ a + i - 1 = k + i
    BY <1>2
  <2> QED
    BY <1>5, <2>1
<1>8. SubSeq(s, 1, k) \o SubSeq(s, k + 1, Len(s)) = SubSeq(s, 1, Len(s))
  <2>1. 1 \in 1 .. Len(s) + 1 /\ k \in 1 - 1 .. Len(s) /\ Len(s) \in k .. Len(s)
    BY <1>1
  <2> QED
    BY <2>1, ConcatAdjacentSubSeq
<1>9. SubSeq(s, 1, Len(s)) = s
  BY SubSeqFull
<1>10. SubSeq(s, k + 1, k + l) = t
  BY <1>2 DEF t
<1> QED
  BY <1>1, <1>5, <1>6, <1>7, <1>8, <1>9, <1>10, Begun

LEMMA UnstyledFrame ==
  ASSUME NEW c \in Seq(STRING \ Style), NEW e \in Seq(STRING \ Style)
  PROVE  Unstyled(Frame("style", c, "reset", e)) = c \o e
<1>1. c \in Seq(Byte) /\ e \in Seq(Byte)
  BY SeqMonotonic DEF Byte
<1>2. "style" \in Style /\ "reset" \in Style
  BY DEF Style
<1>3. /\ <<"style">> \in Seq(Byte) /\ Unstyled(<<"style">>) = <<>>
      /\ <<"reset">> \in Seq(Byte) /\ Unstyled(<<"reset">>) = <<>>
  BY <1>2, UnstyledStyle
<1>4. Unstyled(c) = c /\ Unstyled(e) = e
  BY UnstyledText
<1> DEFINE s == <<"style">>
           r == <<"reset">>
<1> HIDE DEF s, r
<1>5. s \in Seq(Byte) /\ r \in Seq(Byte) /\ Unstyled(s) = <<>> /\ Unstyled(r) = <<>>
  BY <1>3 DEF s, r
<1>6. Unstyled(s \o c) = c /\ s \o c \in Seq(Byte)
  <2>1. Unstyled(s \o c) = Unstyled(s) \o Unstyled(c)
    BY <1>1, <1>5, UnstyledConcat
  <2> QED
    BY <1>1, <1>4, <1>5, <2>1, ConcatEmptySeq, ConcatProperties
<1>7. Unstyled((s \o c) \o r) = c /\ (s \o c) \o r \in Seq(Byte)
  <2>1. Unstyled((s \o c) \o r) = Unstyled(s \o c) \o Unstyled(r)
    BY <1>5, <1>6, UnstyledConcat
  <2> QED
    BY <1>1, <1>5, <1>6, <2>1, ConcatEmptySeq, ConcatProperties
<1>8. Unstyled(((s \o c) \o r) \o e) = c \o e
  BY <1>1, <1>4, <1>7, UnstyledConcat
<1> QED
  BY <1>8 DEF Frame, s, r

LEMMA StyleFramed ==
  ASSUME NEW c \in Seq(Byte), NEW e \in Seq(Byte), NEW k \in Nat, NEW l \in Nat,
         k = Len(c), l = Len(e)
  PROVE  IsFrame(Byte, Frame("style", c, "reset", e), "style", "reset", c, e, k, l)
<1>1. \A a \in Byte : \A b \in Byte : IsFrame(Byte, Frame(a, c, b, e), a, b, c, e, k, l)
  BY Framed
<1>2. "style" \in Byte /\ "reset" \in Byte
  BY DEF Byte, Style
<1> QED
  BY <1>1, <1>2, Zenon

LEMMA FrameTidy ==
  ASSUME NEW k \in Nat, NEW l \in {1, 2},
         NEW c \in Seq(STRING \ Style), NEW e \in Seq(STRING \ Style), k = Len(c), l = Len(e),
         \A i \in 1 .. k : c[i] # "lf",
         \A i \in 1 .. l : e[i] = "lf" <=> i = l,
         l = 2 => e[1] = "cr",
         l = 1 /\ k # 0 => c[k] # "cr"
  PROVE  Tidy(Frame("style", c, "reset", e), k + 2 + l)
<1> DEFINE p == Frame("style", c, "reset", e)
<1>1. c \in Seq(Byte) /\ e \in Seq(Byte) /\ "style" \in Byte /\ "reset" \in Byte /\ l \in Nat
  BY SeqMonotonic DEF Byte, Style
<1>2. /\ p \in Seq(Byte) /\ Len(p) = k + 2 + l
      /\ p[1] = "style" /\ p[k + 2] = "reset"
      /\ \A i \in 1 .. k : p[i + 1] = c[i]
      /\ \A i \in 1 .. l : p[k + 2 + i] = e[i]
  <2>1. IsFrame(Byte, p, "style", "reset", c, e, k, l)
    BY <1>1, StyleFramed
  <2> HIDE DEF p
  <2> QED
    BY <2>1 DEF IsFrame
<1> HIDE DEF p
<1>3. /\ \A i \in 1 .. k : c[i] \notin Style
      /\ \A i \in 1 .. l : e[i] \notin Style
  BY ElementOfSeq
<1>4. ASSUME NEW i \in 1 .. k + 2 + l
      PROVE  /\ p[i] = "lf" <=> i = k + 2 + l
             /\ p[i] = "style" => i = 1
  <2>1. CASE i = 1
    BY <1>2, <2>1
  <2>2. CASE i = k + 2
    BY <1>2, <2>2
  <2>3. CASE i \in 2 .. k + 1
    <3>1. i - 1 \in 1 .. k /\ (i - 1) + 1 = i
      BY <2>3
    <3>2. p[i] = c[i - 1]
      BY <1>2, <3>1
    <3>3. p[i] # "lf" /\ p[i] # "style"
      BY <1>3, <3>1, <3>2 DEF Style
    <3> QED
      BY <2>3, <3>3
  <2>4. CASE i \in k + 3 .. k + 2 + l
    <3>1. i - k - 2 \in 1 .. l /\ k + 2 + (i - k - 2) = i
      BY <2>4
    <3>2. p[i] = e[i - k - 2]
      BY <1>2, <3>1
    <3>3. p[i] # "style" /\ (p[i] = "lf" <=> i - k - 2 = l)
      BY <1>3, <3>1, <3>2 DEF Style
    <3> QED
      BY <2>4, <3>3
  <2> QED
    BY <2>1, <2>2, <2>3, <2>4
<1>5. k + 2 \in 1 + 1 .. (k + 2 + l) - 1
  OBVIOUS
<1>6. \A j \in 1 .. k + 2 + l : p[j] = "style" => \E i \in j + 1 .. (k + 2 + l) - 1 : p[i] = "reset"
  BY <1>2, <1>4, <1>5
<1>7. ~(p[(k + 2 + l) - 1] = "reset" /\ p[(k + 2 + l) - 2] = "cr")
  <2>1. CASE l = 2
    <3>1. (k + 2 + l) - 1 = k + 2 + 1 /\ 1 \in 1 .. l
      BY <2>1
    <3> QED
      BY <1>2, <2>1, <3>1
  <2>2. CASE l = 1 /\ k # 0
    <3>1. (k + 2 + l) - 2 = k + 1 /\ k \in 1 .. k
      BY <2>2
    <3> QED
      BY <1>2, <2>2, <3>1
  <2>3. CASE l = 1 /\ k = 0
    <3>1. (k + 2 + l) - 2 = 1
      BY <2>3
    <3> QED
      BY <1>2, <3>1
  <2> QED
    BY <2>1, <2>2, <2>3
<1>8. k + 2 + l # 0
  OBVIOUS
<1> QED
  BY <1>2, <1>4, <1>6, <1>7, <1>8 DEF Tidy, p

LEMMA StyledTidy ==
  ASSUME NEW kind, NEW line \in Line
  PROVE  /\ \E n \in Nat : Tidy(Styled(kind, line), n)
         /\ Unstyled(Styled(kind, line)) = line
<1>1. CASE kind = "context"
  BY <1>1, PlainTidy DEF Styled
<1>2. CASE kind # "context"
  <2>1. PICK k \in Nat, l \in {1, 2} :
           /\ Len(line) = k + l /\ LineEnding(line) = l
           /\ line[k + l] = "lf"
           /\ l = 1 /\ k # 0 => line[k] # "cr"
           /\ l = 2 => line[k + 1] = "cr"
           /\ line \in Seq(STRING \ Style) /\ line # <<>>
           /\ \A i \in 1 .. k + l : line[i] = "lf" <=> i = k + l
    BY LineParts
  <2> DEFINE c == SubSeq(line, 1, k)
             e == SubSeq(line, k + 1, k + l)
  <2>2. l \in Nat \ {0} /\ line \in Seq(STRING \ Style) /\ Len(line) = k + l
    BY <2>1
  <2>3. /\ c \in Seq(STRING \ Style) /\ Len(c) = k
        /\ \A i \in 1 .. k : c[i] = line[i]
        /\ e \in Seq(STRING \ Style) /\ Len(e) = l
        /\ \A i \in 1 .. l : e[i] = line[k + i]
        /\ c \o e = line
    BY <2>2, SuffixOf
  <2>4. Styled(kind, line) = Frame("style", c, "reset", e)
    <3>1. (k + l) - l = k
      OBVIOUS
    <3> QED
      BY <1>2, <2>1, <3>1 DEF Styled, Frame
  <2> HIDE DEF c, e
  <2>5. \A i \in 1 .. k : c[i] # "lf"
    <3>1. \A i \in 1 .. k : i \in 1 .. k + l /\ i # k + l
      OBVIOUS
    <3> QED
      BY <2>1, <2>3, <3>1
  <2>6. \A i \in 1 .. l : e[i] = "lf" <=> i = l
    <3>1. \A i \in 1 .. l : k + i \in 1 .. k + l /\ (k + i = k + l <=> i = l)
      OBVIOUS
    <3> QED
      BY <2>1, <2>3, <3>1
  <2>7. l = 2 => e[1] = "cr"
    <3>1. l = 2 => 1 \in 1 .. l
      OBVIOUS
    <3> QED
      BY <2>1, <2>3, <3>1
  <2>8. l = 1 /\ k # 0 => c[k] # "cr"
    <3>1. k # 0 => k \in 1 .. k
      OBVIOUS
    <3> QED
      BY <2>1, <2>3, <3>1
  <2>9. k + 2 + l \in Nat
    OBVIOUS
  <2>10. Tidy(Frame("style", c, "reset", e), k + 2 + l)
    BY <2>3, <2>5, <2>6, <2>7, <2>8, FrameTidy
  <2>11. Unstyled(Frame("style", c, "reset", e)) = line
    BY <2>3, UnstyledFrame
  <2> QED
    BY <2>4, <2>9, <2>10, <2>11
<1> QED
  BY <1>1, <1>2

------------------------------------------------------------------------------
(* What a run does: the command line is parsed option by option, and what  *)
(* the program did last it did to the one reconciler it has.               *)
(* The first c arguments of the command line have been parsed: what is     *)
(* left of them are d operands, and the options were obeyed.               *)
Among(option, c) == {k \in 1 .. c : given[k].option = option}

Latest(value, default, option, c) ==
  \/ Among(option, c) = {} /\ value = default
  \/ \E k \in Among(option, c) : (\A j \in Among(option, c) : j <= k) /\ value = given[k].value

Obeyed(c) ==
  /\ Latest(options.root, Defaults.root, "root", c)
  /\ Latest(options.color, Defaults.color, "color", c)
  /\ options.dry_run <=> Among("dry_run", c) # {}
  /\ \A k \in 1 .. c : given[k].option \in {"root", "color", "dry_run", "operand"}

Cut(c, d) ==
  /\ c <= Len(given) /\ Len(argv) + c = d + Len(given)
  /\ \A i \in 1 .. d : argv[i].option = "operand"
  /\ \A i \in 1 .. Len(given) - c : argv[d + i] = given[c + i]
  /\ Obeyed(c)
  /\ d = 0 => \A k \in 1 .. c : given[k].option # "operand"

Parsed ==
  /\ phase = "options" => \E c \in 0 .. Len(given), d \in 0 .. Len(argv) : Cut(c, d)
  /\ phase = "start" => Cut(Len(given), 0) /\ (options.dry_run \/ world.superuser)

(* What the program did last, it did to the reconciler it has.             *)
Offered(maker, entry) ==
  LET value == Candidate(maker, entry)
  IN [did |-> "offer", maker |-> maker, entry |-> entry, value |-> value,
      accepted |-> ValidMapping(core, value)]

Relocated(destination) ==
  [did |-> "relocate", destination |-> destination, target |-> RelocationTarget(core, destination)]

Shown(r, s) ==
  [did |-> "show", paged |-> UsePager, plain |-> Rendered(<<r, s>>, FALSE),
   bytes |-> Rendered(<<r, s>>, Color)]

Explained ==
  \/ last = Nothing
  \/ \E maker \in Makers, entry \in Entry : last = Offered(maker, entry)
  \/ \E destination \in Destination : RelocationAllowed(destination) /\ last = Relocated(destination)
  \/ \E r, s \in Record : last = Shown(r, s)

Typed ==
  /\ argv \in Seq(Argument) /\ given \in Seq(Argument)
  /\ options \in [root: AnyPath, dry_run: BOOLEAN, color: ColorMode]
  /\ phase \in {"options", "start", "running", "exited"} /\ status \in {0, 1}
  /\ phase # "running" => core = NoCore /\ last = Nothing
  /\ phase = "running" => IsCore(core)

LEMMA ArgumentType ==
  ASSUME NEW a \in Argument
  PROVE  /\ a.option \in {"root", "color", "dry_run", "version", "help", "unknown", "operand"}
         /\ a.option = "root" => a.value \in Root
         /\ a.option = "color" => a.value \in ColorMode \cup {"sometimes"}
BY DEF Argument

(* r is s without its kth element.                                         *)
IsRemoved(S, r, s, n, k) ==
  /\ r \in Seq(S) /\ Len(r) = n - 1
  /\ \A i \in 1 .. k - 1 : r[i] = s[i]
  /\ \A i \in 1 .. n - k : r[k - 1 + i] = s[k + i]

LEMMA Removed ==
  ASSUME NEW S, NEW s \in Seq(S), NEW n \in Nat, n = Len(s), NEW k \in 1 .. n
  PROVE  IsRemoved(S, RemoveAt(s, k), s, n, k)
<1>1. PICK b \in Nat, r \in Nat : b = k - 1 /\ r = n - k
  <2>1. k - 1 \in Nat /\ n - k \in Nat
    OBVIOUS
  <2> QED
    BY <2>1
<1>2. b <= Len(s) /\ n = k + r
  BY <1>1
<1> DEFINE u == SubSeq(s, 1, b)
           v == SubSeq(s, k + 1, n)
<1>3. u \in Seq(S) /\ Len(u) = b /\ \A i \in 1 .. b : u[i] = s[i]
  BY <1>2, Begun
<1>4. v \in Seq(S) /\ Len(v) = r /\ \A i \in 1 .. r : v[i] = s[k + i]
  <2>1. CASE r = 0
    <3>1. n < k + 1 /\ k + 1 \in Int /\ n \in Int
      BY <1>2, <2>1
    <3>2. v = <<>>
      BY <3>1, SubSeqEmpty
    <3>3. 1 .. 0 = {}
      OBVIOUS
    <3> HIDE DEF v
    <3> QED
      BY <2>1, <3>2, <3>3
  <2>2. CASE r # 0
    <3>1. r \in Nat \ {0} /\ Len(s) = k + r /\ k \in Nat
      BY <1>2, <2>2
    <3>2. /\ SubSeq(s, k + 1, k + r) \in Seq(S) /\ Len(SubSeq(s, k + 1, k + r)) = r
          /\ \A i \in 1 .. r : SubSeq(s, k + 1, k + r)[i] = s[k + i]
      BY <3>1, SuffixOf
    <3> QED
      BY <1>2, <3>2
  <2> QED
    BY <2>1, <2>2
<1>5. RemoveAt(s, k) = u \o v
  BY <1>1 DEF RemoveAt
<1> HIDE DEF u, v
<1>6. /\ u \o v \in Seq(S) /\ Len(u \o v) = b + r
      /\ \A i \in 1 .. b : (u \o v)[i] = u[i]
      /\ \A i \in 1 .. r : (u \o v)[b + i] = v[i]
  <2>1. u \in Seq(S) /\ b = Len(u) /\ v \in Seq(S) /\ r = Len(v)
    BY <1>3, <1>4
  <2> QED
    BY <2>1, Concatenated
<1> DEFINE w == u \o v
<1>7. w \in Seq(S) /\ Len(w) = b + r
  BY <1>6
<1>8. (\A i \in 1 .. b : w[i] = s[i]) /\ (\A i \in 1 .. r : w[b + i] = s[k + i])
  BY <1>3, <1>4, <1>6
<1> HIDE DEF w
<1>9. b + r = n - 1
  BY <1>1
<1> QED
  BY <1>1, <1>5, <1>7, <1>8, <1>9 DEF w, IsRemoved

LEMMA ArgumentRemoved ==
  ASSUME NEW args \in Seq(Argument), NEW k \in 1 .. Len(args)
  PROVE  IsRemoved(Argument, RemoveAt(args, k), args, Len(args), k)
<1>1. Len(args) \in Nat
  BY LenProperties
<1>2. \A n \in Nat : n = Len(args) => IsRemoved(Argument, RemoveAt(args, k), args, n, k)
  BY Removed
<1> QED
  BY <1>1, <1>2

(* The option that is parsed next.                                         *)
LEMMA FirstOption ==
  ASSUME NEW args \in Seq(Argument), Options(args) # {}
  PROVE  /\ Min(Options(args)) \in 1 .. Len(args)
         /\ args[Min(Options(args))] \in Argument
         /\ args[Min(Options(args))].option # "operand"
         /\ \A i \in 1 .. Min(Options(args)) - 1 : args[i].option = "operand"
<1> DEFINE k == Min(Options(args))
<1>1. Options(args) \in SUBSET (1 .. Len(args)) /\ Len(args) \in Nat
  BY LenProperties DEF Options
<1>2. k \in Options(args) /\ \A y \in Options(args) : k <= y
  BY <1>1, Least
<1> HIDE DEF k
<1>3. k \in 1 .. Len(args) /\ args[k].option # "operand"
  BY <1>1, <1>2 DEF Options
<1>4. args[k] \in Argument
  BY <1>3, ElementOfSeq
<1>5. \A i \in 1 .. k - 1 : args[i].option = "operand"
  <2> SUFFICES ASSUME NEW i \in 1 .. k - 1, args[i].option # "operand"
               PROVE  FALSE
    OBVIOUS
  <2>1. i \in 1 .. Len(args) /\ i < k /\ i \in Int /\ k \in Int
    BY <1>3
  <2>2. i \in Options(args)
    BY <2>1, LenProperties DEF Options
  <2> QED
    BY <1>2, <2>1, <2>2
<1> QED
  BY <1>3, <1>4, <1>5 DEF k

LEMMA InitTyped == Init => Typed
<1> SUFFICES ASSUME Init
             PROVE  Typed
  OBVIOUS
<1>1. argv \in Seq(Argument)
  <2>1. PICK m \in 0 .. MaxArgs : argv \in [1 .. m -> Argument]
    BY DEF Init, SeqOf
  <2>2. m \in Nat
    BY <2>1, ArgumentAssumption
  <2> QED
    BY <2>1, <2>2, SeqDef
<1>2. Defaults \in [root: AnyPath, dry_run: BOOLEAN, color: ColorMode]
  <2>1. Absolute(<<>>) \in AnyPath
    BY DEF Absolute, AnyPath
  <2> QED
    BY <2>1 DEF Defaults, ColorMode
<1> QED
  BY <1>1, <1>2 DEF Init, Typed

LEMMA ExitTyped ==
  ASSUME Typed, NEW code \in {0, 1}, Exit(code)
  PROVE  Typed'
<1>1. Defaults \in [root: AnyPath, dry_run: BOOLEAN, color: ColorMode]
  <2>1. Absolute(<<>>) \in AnyPath
    BY DEF Absolute, AnyPath
  <2> QED
    BY <2>1 DEF Defaults, ColorMode
<1>2. <<>> \in Seq(Argument)
  OBVIOUS
<1> QED
  BY <1>1, <1>2 DEF Exit, Typed

LEMMA ObeyTyped ==
  ASSUME options \in [root: AnyPath, dry_run: BOOLEAN, color: ColorMode],
         NEW a \in Argument, a.option \in {"root", "color", "dry_run"}, ~Misused(a), Obey(a)
  PROVE  /\ options' \in [root: AnyPath, dry_run: BOOLEAN, color: ColorMode]
         /\ options'.root = IF a.option = "root" THEN a.value ELSE options.root
         /\ options'.color = IF a.option = "color" THEN a.value ELSE options.color
         /\ options'.dry_run = IF a.option = "dry_run" THEN TRUE ELSE options.dry_run
<1>1. CASE a.option = "root"
  <2>1. a.value \in AnyPath
    BY <1>1, ArgumentType, ArgumentAssumption
  <2>2. options' = [options EXCEPT !.root = a.value]
    BY <1>1 DEF Obey
  <2> QED
    BY <1>1, <2>1, <2>2
<1>2. CASE a.option = "color"
  <2>1. a.value \in ColorMode
    BY <1>2 DEF Misused
  <2>2. options' = [options EXCEPT !.color = a.value]
    BY <1>2 DEF Obey
  <2> QED
    BY <1>2, <2>1, <2>2
<1>3. CASE a.option = "dry_run"
  <2>1. options' = [options EXCEPT !.dry_run = TRUE]
    BY <1>3 DEF Obey
  <2> QED
    BY <1>3, <2>1
<1> QED
  BY <1>1, <1>2, <1>3

(* What parsing an option does when it does not end the program.           *)
Continues(k) ==
  /\ k \in 1 .. Len(argv) /\ argv[k] \in Argument
  /\ argv[k].option \in {"root", "color", "dry_run"} /\ ~Misused(argv[k])
  /\ \A i \in 1 .. k - 1 : argv[i].option = "operand"
  /\ Obey(argv[k]) /\ argv' = RemoveAt(argv, k)
  /\ UNCHANGED <<given, world, phase, status, core, last>>

LEMMA ParseCases ==
  ASSUME argv \in Seq(Argument), ParseOption
  PROVE  (\E code \in {0, 1} : Exit(code)) \/ (\E k \in 1 .. Len(argv) : Continues(k))
<1> DEFINE k == Min(Options(argv))
<1>1. /\ k \in 1 .. Len(argv) /\ argv[k] \in Argument /\ argv[k].option # "operand"
      /\ \A i \in 1 .. k - 1 : argv[i].option = "operand"
  BY FirstOption DEF ParseOption
<1>2. \/ Exit(0) \/ Exit(1)
      \/ /\ argv[k].option \notin {"version", "help"} /\ ~Misused(argv[k]) /\ Obey(argv[k])
         /\ argv' = RemoveAt(argv, k) /\ UNCHANGED <<given, world, phase, status, core, last>>
  BY DEF ParseOption
<1> HIDE DEF k
<1>3. argv[k].option \notin {"version", "help"} /\ ~Misused(argv[k]) =>
        argv[k].option \in {"root", "color", "dry_run"}
  BY <1>1, ArgumentType DEF Misused
<1> QED
  BY <1>1, <1>2, <1>3 DEF Continues

LEMMA NextTyped == Typed /\ [Next]_vars => Typed'
<1> SUFFICES ASSUME Typed, [Next]_vars
             PROVE  Typed'
  OBVIOUS
<1>1. CASE ParseOption
  <2>1. CASE \E code \in {0, 1} : Exit(code)
    BY <2>1, ExitTyped
  <2>2. ASSUME NEW k \in 1 .. Len(argv), Continues(k)
        PROVE  Typed'
    <3>1. argv \in Seq(Argument) /\ Len(argv) \in Nat
      BY LenProperties DEF Typed
    <3>2. RemoveAt(argv, k) \in Seq(Argument)
      BY <3>1, ArgumentRemoved DEF IsRemoved
    <3>3. options' \in [root: AnyPath, dry_run: BOOLEAN, color: ColorMode]
      BY <2>2, ObeyTyped DEF Typed, Continues
    <3> QED
      BY <2>2, <3>2, <3>3 DEF Typed, Continues, IsCore
  <2> QED
    BY <1>1, <2>1, <2>2, ParseCases DEF Typed
<1>2. CASE EndOfOptions
  <2>1. CASE Exit(1)
    BY <2>1, ExitTyped
  <2>2. CASE phase' = "start" /\ phase = "options" /\ UNCHANGED <<argv, given, options, world, status, core, last>>
    BY <2>2 DEF Typed
  <2> QED
    BY <1>2, <2>1, <2>2 DEF EndOfOptions
<1>3. ASSUME NEW staging \in Staging, Construct(staging)
      PROVE  Typed'
  <2>1. CASE Exit(1)
    BY <2>1, ExitTyped
  <2>2. CASE ~Exit(1)
    <3>1. /\ phase = "start" /\ phase' = "running" /\ core' = Reconciler(options.root, staging)
          /\ given' = <<>> /\ UNCHANGED <<argv, options, world, status, last>>
      BY <1>3, <2>2 DEF Construct
    <3>2. options.root \in AnyPath /\ staging \in AnyPath
      BY ArgumentAssumption DEF Typed
    <3>3. IsCore(core')
      BY <3>1, <3>2, ReconcilerIsCore
    <3>4. <<>> \in Seq(Argument)
      OBVIOUS
    <3> QED
      BY <3>1, <3>3, <3>4 DEF Typed, IsCore
  <2> QED
    BY <2>1, <2>2
<1>4. ASSUME NEW what, Did(what)
      PROVE  Typed'
  BY <1>4 DEF Did, Typed, IsCore
<1>5. ASSUME NEW maker \in Makers, NEW entry \in Entry, Offer(maker, entry)
      PROVE  Typed'
  BY <1>4, <1>5 DEF Offer
<1>6. ASSUME NEW destination \in Destination, Relocate(destination)
      PROVE  Typed'
  <2>1. CASE Exit(1)
    BY <2>1, ExitTyped
  <2> QED
    BY <1>4, <1>6, <2>1 DEF Relocate
<1>7. ASSUME NEW r \in Record, NEW s \in Record, Show(<<r, s>>)
      PROVE  Typed'
  BY <1>4, <1>7 DEF Show
<1>8. CASE Finish
  BY <1>8, ExitTyped DEF Finish
<1>9. CASE UNCHANGED vars
  BY <1>9 DEF vars, Typed, IsCore
<1> QED
  BY <1>1, <1>2, <1>3, <1>5, <1>6, <1>7, <1>8, <1>9 DEF Next

LEMMA TypedAlways == Spec => []Typed
<1>1. Typed /\ [Next]_vars => Typed'
  BY NextTyped
<1> QED
  BY <1>1, InitTyped, PTL DEF Spec

(* What the options are after one more argument.                           *)
LEMMA LatestKept ==
  ASSUME NEW value, NEW default, NEW option, NEW c \in Nat, NEW p \in Nat, c <= p,
         Latest(value, default, option, c), \A k \in c + 1 .. p : given[k].option # option
  PROVE  Latest(value, default, option, p)
<1>1. Among(option, p) = Among(option, c)
  <2>1. \A k \in 1 .. p : k \in 1 .. c \/ k \in c + 1 .. p
    OBVIOUS
  <2>2. 1 .. c \subseteq 1 .. p
    OBVIOUS
  <2> QED
    BY <2>1, <2>2 DEF Among
<1> QED
  BY <1>1 DEF Latest

LEMMA LatestGiven ==
  ASSUME NEW default, NEW option, NEW p \in Nat \ {0}, given[p].option = option
  PROVE  Latest(given[p].value, default, option, p)
<1>1. p \in Among(option, p) /\ \A j \in Among(option, p) : j <= p
  BY DEF Among
<1> QED
  BY <1>1 DEF Latest

LEMMA ObeyedOneMore ==
  ASSUME Typed, NEW c \in Nat, NEW p \in Nat, c < p, Obeyed(c), given' = given,
         given[p] \in Argument, given[p].option \in {"root", "color", "dry_run"}, ~Misused(given[p]),
         Obey(given[p]), \A k \in c + 1 .. p - 1 : given[k].option = "operand"
  PROVE  Obeyed(p)'
<1> DEFINE a == given[p]
<1>1. /\ options'.root = IF a.option = "root" THEN a.value ELSE options.root
      /\ options'.color = IF a.option = "color" THEN a.value ELSE options.color
      /\ options'.dry_run = IF a.option = "dry_run" THEN TRUE ELSE options.dry_run
      /\ options'.dry_run \in BOOLEAN
  BY ObeyTyped DEF Typed
<1>2. p \in Nat \ {0} /\ c <= p
  OBVIOUS
<1>3. \A k \in c + 1 .. p : k = p \/ k \in c + 1 .. p - 1
  OBVIOUS
<1>4. \A option \in {"root", "color", "dry_run"} : option # a.option =>
        \A k \in c + 1 .. p : given[k].option # option
  BY <1>3
<1>5. \A option \in {"root", "color"} : \A value, default : option # a.option =>
        (Latest(value, default, option, c) => Latest(value, default, option, p))
  BY <1>2, <1>4, LatestKept
<1>6. Latest(options'.root, Defaults.root, "root", p)
  <2>1. CASE a.option = "root"
    BY <1>1, <1>2, <2>1, LatestGiven
  <2>2. CASE a.option # "root"
    BY <1>1, <1>5, <2>2 DEF Obeyed
  <2> QED
    BY <2>1, <2>2
<1>7. Latest(options'.color, Defaults.color, "color", p)
  <2>1. CASE a.option = "color"
    BY <1>1, <1>2, <2>1, LatestGiven
  <2>2. CASE a.option # "color"
    BY <1>1, <1>5, <2>2 DEF Obeyed
  <2> QED
    BY <2>1, <2>2
<1>8. options'.dry_run <=> Among("dry_run", p) # {}
  <2>1. CASE a.option = "dry_run"
    <3>1. p \in Among("dry_run", p)
      BY <1>2, <2>1 DEF Among
    <3> QED
      BY <1>1, <2>1, <3>1
  <2>2. CASE a.option # "dry_run"
    <3>1. Among("dry_run", p) = Among("dry_run", c)
      <4>1. \A k \in 1 .. p : k \in 1 .. c \/ k \in c + 1 .. p
        OBVIOUS
      <4>2. 1 .. c \subseteq 1 .. p
        BY <1>2
      <4> QED
        BY <1>4, <2>2, <4>1, <4>2 DEF Among
    <3>2. options.dry_run <=> Among("dry_run", c) # {}
      BY DEF Obeyed
    <3> QED
      BY <1>1, <2>2, <3>1, <3>2
  <2> QED
    BY <2>1, <2>2
<1>9. \A k \in 1 .. p : given[k].option \in {"root", "color", "dry_run", "operand"}
  <2>1. \A k \in 1 .. p : k \in 1 .. c \/ k \in c + 1 .. p - 1 \/ k = p
    OBVIOUS
  <2> QED
    BY <2>1 DEF Obeyed
<1> QED
  BY <1>6, <1>7, <1>8, <1>9 DEF Obeyed, Latest, Among, Defaults

(* Where parsing stands after one more option.                             *)
LEMMA CutOn ==
  ASSUME Typed, NEW c \in 0 .. Len(given), NEW d \in 0 .. Len(argv), Cut(c, d),
         NEW k \in 1 .. Len(argv), Continues(k)
  PROVE  \E c1 \in 0 .. Len(given'), d1 \in 0 .. Len(argv') : Cut(c1, d1)'
<1> DEFINE n == Len(given)
           m == Len(argv)
<1>1. given \in Seq(Argument) /\ argv \in Seq(Argument) /\ n \in Nat /\ m \in Nat
  BY LenProperties DEF Typed
<1>2. /\ argv[k] \in Argument /\ argv[k].option \in {"root", "color", "dry_run"} /\ ~Misused(argv[k])
      /\ \A i \in 1 .. k - 1 : argv[i].option = "operand"
      /\ Obey(argv[k]) /\ argv' = RemoveAt(argv, k) /\ given' = given
  BY DEF Continues
<1>3. /\ c <= n /\ m + c = d + n
      /\ \A i \in 1 .. d : argv[i].option = "operand"
      /\ \A i \in 1 .. n - c : argv[d + i] = given[c + i]
      /\ Obeyed(c)
      /\ d = 0 => \A i \in 1 .. c : given[i].option # "operand"
  BY DEF Cut
<1>4. /\ argv' \in Seq(Argument) /\ Len(argv') = m - 1
      /\ \A i \in 1 .. k - 1 : argv'[i] = argv[i]
      /\ \A i \in 1 .. m - k : argv'[k - 1 + i] = argv[k + i]
  BY <1>1, <1>2, ArgumentRemoved DEF IsRemoved
<1> HIDE DEF n, m
<1>5. k \in 1 .. m /\ c \in Nat /\ d \in Nat /\ d <= m
  BY <1>1 DEF n, m
<1>6. d < k
  <2> SUFFICES ASSUME k <= d
               PROVE  FALSE
    BY <1>1, <1>5
  <2>1. k \in 1 .. d
    BY <1>5
  <2> QED
    BY <1>2, <1>3, <2>1
<1>7. PICK p \in Nat : p = c + (k - d)
  BY <1>6, <1>5
<1>8. p \in 1 .. n /\ c < p /\ n - p = m - k /\ p \in 0 .. n /\ k - 1 \in 0 .. m - 1
  BY <1>1, <1>3, <1>6, <1>7, <1>5
<1>9. \A i \in c + 1 .. n : given[i] = argv[d + (i - c)]
  <2>1. \A i \in c + 1 .. n : i - c \in 1 .. n - c /\ c + (i - c) = i
    BY <1>1, <1>5
  <2> QED
    BY <1>3, <2>1
<1>10. given[p] = argv[k]
  <2>1. p \in c + 1 .. n /\ d + (p - c) = k
    BY <1>7, <1>8, <1>5
  <2> QED
    BY <1>9, <2>1
<1>11. \A i \in c + 1 .. p - 1 : given[i].option = "operand"
  <2>1. \A i \in c + 1 .. p - 1 : i \in c + 1 .. n /\ d + (i - c) \in 1 .. k - 1
    BY <1>1, <1>7, <1>8, <1>5
  <2> QED
    BY <1>2, <1>9, <2>1
<1>12. Obeyed(p)'
  BY <1>2, <1>3, <1>8, <1>10, <1>11, <1>5, ObeyedOneMore
<1>13. \A i \in 1 .. k - 1 : argv'[i].option = "operand"
  BY <1>2, <1>4
<1>14. \A i \in 1 .. n - p : argv'[(k - 1) + i] = given'[p + i]
  <2>1. \A i \in 1 .. n - p : i \in 1 .. m - k /\ p + i \in c + 1 .. n /\ d + ((p + i) - c) = k + i
    BY <1>1, <1>7, <1>8, <1>5
  <2>2. \A i \in 1 .. n - p : argv'[(k - 1) + i] = argv[k + i]
    BY <1>4, <2>1
  <2>3. \A i \in 1 .. n - p : given[p + i] = argv[k + i]
    BY <1>9, <2>1
  <2> QED
    BY <1>2, <2>2, <2>3
<1>15. k - 1 = 0 => \A i \in 1 .. p : given'[i].option # "operand"
  <2> SUFFICES ASSUME k - 1 = 0, NEW i \in 1 .. p
               PROVE  given[i].option # "operand"
    BY <1>2
  <2>1. d = 0 /\ p = c + 1
    BY <1>6, <1>7, <1>5
  <2>2. i = p \/ i \in 1 .. c
    BY <2>1, <1>5
  <2>3. given[p].option # "operand"
    BY <1>2, <1>10
  <2> QED
    BY <1>3, <2>1, <2>2, <2>3
<1>16. p <= n /\ (m - 1) + p = (k - 1) + n
  BY <1>1, <1>8, <1>5
<1>17. Cut(p, k - 1)'
  <2>1. Len(given') = n /\ Len(argv') = m - 1
    BY <1>2, <1>4 DEF n
  <2> QED
    BY <1>12, <1>13, <1>14, <1>15, <1>16, <2>1 DEF Cut
<1> QED
  BY <1>2, <1>4, <1>8, <1>17 DEF n

LEMMA InitParsed == Init => Parsed
<1> SUFFICES ASSUME Init
             PROVE  Parsed
  OBVIOUS
<1>1. given \in Seq(Argument) /\ argv = given
  BY InitTyped DEF Typed, Init
<1>2. Len(given) \in Nat
  BY <1>1, LenProperties
<1>3. 1 .. 0 = {} /\ \A i \in 1 .. Len(given) - 0 : 0 + i = i
  OBVIOUS
<1>4. Obeyed(0)
  BY <1>3 DEF Init, Obeyed, Latest, Among, Defaults
<1>5. Cut(0, 0)
  BY <1>1, <1>2, <1>3, <1>4 DEF Cut
<1>6. 0 \in 0 .. Len(given) /\ 0 \in 0 .. Len(argv) /\ phase = "options"
  BY <1>1, <1>2 DEF Init
<1> QED
  BY <1>5, <1>6 DEF Parsed

LEMMA StillCut ==
  ASSUME NEW c, NEW d, Cut(c, d), UNCHANGED <<argv, given, options>>
  PROVE  Cut(c, d)'
BY DEF Cut, Obeyed, Latest, Among

LEMMA NextParsed == Typed /\ Parsed /\ [Next]_vars => Parsed'
<1> SUFFICES ASSUME Typed, Parsed, [Next]_vars
             PROVE  Parsed'
  OBVIOUS
<1>1. ASSUME NEW code, Exit(code)
      PROVE  Parsed'
  BY <1>1 DEF Exit, Parsed
<1>2. CASE ParseOption
  <2>1. CASE \E code \in {0, 1} : Exit(code)
    BY <1>1, <2>1
  <2>2. ASSUME NEW k \in 1 .. Len(argv), Continues(k)
        PROVE  Parsed'
    <3>1. phase = "options" /\ phase' = "options"
      BY <1>2, <2>2 DEF ParseOption, Continues
    <3>2. PICK c \in 0 .. Len(given), d \in 0 .. Len(argv) : Cut(c, d)
      BY <3>1 DEF Parsed
    <3>3. \E c1 \in 0 .. Len(given'), d1 \in 0 .. Len(argv') : Cut(c1, d1)'
      BY <2>2, <3>2, CutOn
    <3> QED
      BY <3>1, <3>3 DEF Parsed
  <2> QED
    BY <1>2, <2>1, <2>2, ParseCases DEF Typed
<1>3. CASE EndOfOptions
  <2>1. CASE Exit(1)
    BY <1>1, <2>1
  <2>2. CASE ~Exit(1)
    <3>1. /\ phase = "options" /\ phase' = "start" /\ argv = <<>>
          /\ options.dry_run \/ world.superuser
          /\ UNCHANGED <<argv, given, options, world>>
      BY <1>3, <2>2 DEF EndOfOptions
    <3>2. PICK c \in 0 .. Len(given), d \in 0 .. Len(argv) : Cut(c, d)
      BY <3>1 DEF Parsed
    <3>3. Len(argv) = 0 /\ Len(given) \in Nat
      BY <3>1, LenProperties DEF Typed
    <3>4. d = 0 /\ c = Len(given)
      <4>1. Len(argv) + c = d + Len(given)
        BY <3>2 DEF Cut
      <4> QED
        BY <3>3, <4>1
    <3>5. Cut(Len(given), 0)'
      <4>1. Cut(Len(given), 0)
        BY <3>2, <3>4
      <4>2. Cut(c, d)'
        BY <3>1, <3>2, StillCut
      <4> QED
        BY <3>1, <3>4, <4>2
    <3> QED
      BY <3>1, <3>5 DEF Parsed
  <2> QED
    BY <2>1, <2>2
<1>4. ASSUME NEW staging \in Staging, Construct(staging)
      PROVE  Parsed'
  <2>1. CASE Exit(1)
    BY <1>1, <2>1
  <2>2. CASE phase' = "running"
    BY <2>2 DEF Parsed
  <2> QED
    BY <1>4, <2>1, <2>2 DEF Construct
<1>5. ASSUME NEW what, Did(what)
      PROVE  Parsed'
  BY <1>5 DEF Did, Parsed
<1>6. ASSUME NEW destination \in Destination, Relocate(destination)
      PROVE  Parsed'
  BY <1>1, <1>5, <1>6 DEF Relocate
<1>7. CASE Finish
  BY <1>1, <1>7 DEF Finish
<1>8. CASE UNCHANGED vars
  <2>1. UNCHANGED <<argv, given, options, world, phase>>
    BY <1>8 DEF vars
  <2>2. CASE phase = "options"
    <3>1. PICK c \in 0 .. Len(given), d \in 0 .. Len(argv) : Cut(c, d)
      BY <2>2 DEF Parsed
    <3>2. Cut(c, d)'
      BY <2>1, <3>1, StillCut
    <3> QED
      BY <2>1, <2>2, <3>2 DEF Parsed
  <2>3. CASE phase = "start"
    <3>1. Cut(Len(given), 0) /\ (options.dry_run \/ world.superuser)
      BY <2>3 DEF Parsed
    <3>2. \A c : Cut(c, 0) => Cut(c, 0)'
      BY <2>1, StillCut
    <3> QED
      BY <2>1, <2>3, <3>1, <3>2 DEF Parsed
  <2>4. CASE phase \notin {"options", "start"}
    BY <2>1, <2>4 DEF Parsed
  <2> QED
    BY <2>2, <2>3, <2>4
<1> QED
  BY <1>2, <1>3, <1>4, <1>5, <1>6, <1>7, <1>8 DEF Next, Offer, Show

LEMMA Final ==
  ASSUME NEW value, NEW default, NEW option, NEW c \in Nat, Latest(value, default, option, c)
  PROVE  value = IF Among(option, c) = {} THEN default ELSE given[Max(Among(option, c))].value
<1>1. CASE Among(option, c) = {}
  BY <1>1 DEF Latest
<1>2. CASE Among(option, c) # {}
  <2>1. PICK k \in Among(option, c) : (\A j \in Among(option, c) : j <= k) /\ value = given[k].value
    BY <1>2 DEF Latest
  <2>2. Among(option, c) \in SUBSET (1 .. c)
    BY DEF Among
  <2>3. Max(Among(option, c)) \in Among(option, c) /\ \A j \in Among(option, c) : j <= Max(Among(option, c))
    BY <1>2, <2>2, Greatest
  <2>4. k = Max(Among(option, c))
    <3> DEFINE g == Max(Among(option, c))
    <3>1. g <= k /\ k <= g /\ g \in Int /\ k \in Int
      BY <2>1, <2>2, <2>3
    <3> HIDE DEF g
    <3>2. g = k
      BY <3>1
    <3> QED
      BY <3>2 DEF g
  <2> QED
    BY <1>2, <2>1, <2>4
<1> QED
  BY <1>1, <1>2

LEMMA ParsedObeyed == Typed /\ Parsed => ArgumentsObeyed
<1> SUFFICES ASSUME Typed, Parsed, phase = "start"
             PROVE  LET Given(option) == {k \in DOMAIN given : given[k].option = option}
                        Last1(option) == IF Given(option) = {} THEN Defaults[option]
                                         ELSE given[Max(Given(option))].value
                    IN /\ options.root = Last1("root") /\ options.color = Last1("color")
                       /\ options.dry_run <=> Given("dry_run") # {}
                       /\ \A a \in ToSet(given) : a.option \in {"root", "color", "dry_run"}
                       /\ Given("dry_run") = {} => world.superuser
  BY DEF ArgumentsObeyed
<1> DEFINE n == Len(given)
<1>1. n \in Nat /\ DOMAIN given = 1 .. n
  BY LenProperties DEF Typed
<1>2. Cut(n, 0) /\ (options.dry_run \/ world.superuser)
  BY DEF Parsed
<1> HIDE DEF n
<1>3. Obeyed(n) /\ \A k \in 1 .. n : given[k].option # "operand"
  BY <1>2 DEF Cut
<1>4. \A option : {k \in DOMAIN given : given[k].option = option} = Among(option, n)
  BY <1>1 DEF Among
<1>5. options.root = IF Among("root", n) = {} THEN Defaults.root ELSE given[Max(Among("root", n))].value
  BY <1>1, <1>3, Final DEF Obeyed
<1>6. options.color = IF Among("color", n) = {} THEN Defaults.color ELSE given[Max(Among("color", n))].value
  BY <1>1, <1>3, Final DEF Obeyed
<1>7. \A a \in ToSet(given) : a.option \in {"root", "color", "dry_run"}
  BY <1>1, <1>3 DEF ToSet, Obeyed
<1>8. Defaults["root"] = Defaults.root /\ Defaults["color"] = Defaults.color
  OBVIOUS
<1>9. options.dry_run <=> Among("dry_run", n) # {}
  BY <1>3 DEF Obeyed
<1> QED
  BY <1>2, <1>4, <1>5, <1>6, <1>7, <1>8, <1>9

LEMMA ParsedAlways == Spec => []Parsed
<1>1. Typed /\ Parsed /\ [Next]_vars => Parsed'
  BY NextParsed
<1> QED
  BY <1>1, InitParsed, TypedAlways, PTL DEF Spec

(* The options of a run are those of its command line.                     *)
THEOREM Arguments == Spec => []ArgumentsObeyed
BY TypedAlways, ParsedAlways, ParsedObeyed, PTL

LEMMA InitExplained == Init => Explained
BY DEF Init, Explained

LEMMA NextExplained == Typed /\ Explained /\ [Next]_vars => Explained'
<1> SUFFICES ASSUME Typed, Explained, [Next]_vars
             PROVE  Explained'
  OBVIOUS
<1>1. ASSUME last' = Nothing
      PROVE  Explained'
  BY <1>1 DEF Explained
<1>2. ASSUME NEW code, Exit(code)
      PROVE  Explained'
  BY <1>1, <1>2 DEF Exit
<1>3. ASSUME phase # "running", UNCHANGED last
      PROVE  Explained'
  BY <1>1, <1>3 DEF Typed
<1>4. CASE ParseOption
  <2>1. CASE \E code \in {0, 1} : Exit(code)
    BY <1>2, <2>1
  <2>2. CASE \E k \in 1 .. Len(argv) : Continues(k)
    BY <1>3, <1>4, <2>2 DEF ParseOption, Continues
  <2> QED
    BY <1>4, <2>1, <2>2, ParseCases DEF Typed
<1>5. CASE EndOfOptions
  BY <1>2, <1>3, <1>5 DEF EndOfOptions
<1>6. ASSUME NEW staging \in Staging, Construct(staging)
      PROVE  Explained'
  BY <1>2, <1>3, <1>6 DEF Construct
<1>7. ASSUME NEW maker \in Makers, NEW entry \in Entry, Offer(maker, entry)
      PROVE  Explained'
  <2>1. core' = core /\ last' = Offered(maker, entry)
    BY <1>7 DEF Offer, Did, Offered
  <2>2. last' = Offered(maker, entry)'
    BY <2>1 DEF Offered
  <2> QED
    BY <2>2 DEF Explained
<1>8. ASSUME NEW destination \in Destination, Relocate(destination)
      PROVE  Explained'
  <2>1. CASE RelocationAllowed(destination)
    <3>1. core' = core /\ last' = Relocated(destination)
      BY <1>8, <2>1 DEF Relocate, Did, Relocated
    <3>2. last' = Relocated(destination)'
      BY <3>1 DEF Relocated
    <3> QED
      BY <2>1, <3>2 DEF Explained
  <2>2. CASE ~RelocationAllowed(destination)
    BY <1>2, <1>8, <2>2 DEF Relocate
  <2> QED
    BY <2>1, <2>2
<1>9. ASSUME NEW r \in Record, NEW s \in Record, Show(<<r, s>>)
      PROVE  Explained'
  <2>1. UNCHANGED <<options, world>> /\ last' = Shown(r, s)
    BY <1>9 DEF Show, Did, Shown
  <2>2. UsePager' = UsePager /\ Color' = Color
    BY <2>1 DEF UsePager, Color
  <2>3. last' = Shown(r, s)'
    BY <2>1, <2>2 DEF Shown
  <2> QED
    BY <2>3 DEF Explained
<1>10. CASE Finish
  BY <1>2, <1>10 DEF Finish
<1>11. CASE UNCHANGED vars
  BY <1>11 DEF vars, Explained, Offered, Relocated, Shown, UsePager, Color
<1> QED
  BY <1>4, <1>5, <1>6, <1>7, <1>8, <1>9, <1>10, <1>11 DEF Next

LEMMA ExplainedAlways == Spec => []Explained
<1>1. Typed /\ Explained /\ [Next]_vars => Explained'
  BY NextExplained
<1> QED
  BY <1>1, InitExplained, TypedAlways, PTL DEF Spec

LEMMA MakersAreCores ==
  ASSUME NEW maker \in Makers
  PROVE  IsCore(maker)
BY ReconcilerIsCore, ArgumentAssumption DEF Makers

(* What the program did last tells how.                                    *)
LEMMA Dids ==
  /\ Nothing.did = "nothing"
  /\ \A maker, entry : Offered(maker, entry).did = "offer"
  /\ \A destination : Relocated(destination).did = "relocate"
  /\ \A r, s : Shown(r, s).did = "show"
BY DEF Nothing, Offered, Relocated, Shown

LEMMA HasCore ==
  ASSUME Typed, last.did # "nothing"
  PROVE  IsCore(core)
BY Dids DEF Typed

LEMMA OfferExplained ==
  ASSUME Explained, last.did = "offer"
  PROVE  \E maker \in Makers, entry \in Entry : last = Offered(maker, entry)
BY Dids DEF Explained

LEMMA RelocationExplained ==
  ASSUME Explained, last.did = "relocate"
  PROVE  \E destination \in Destination : RelocationAllowed(destination) /\ last = Relocated(destination)
BY Dids DEF Explained

LEMMA ShowExplained ==
  ASSUME Explained, last.did = "show"
  PROVE  \E r, s \in Record : last = Shown(r, s)
BY Dids DEF Explained

LEMMA ExplainedOwn == Typed /\ Explained => OwnCandidateAccepted
<1> SUFFICES ASSUME Typed, Explained, last.did = "offer", last.maker = core
             PROVE  /\ last.accepted
                    /\ Denotes(last.value.staged_path) = Denotes(core.staging_root) \o last.entry
                    /\ Denotes(last.value.installed_path) = Denotes(core.root) \o last.entry
  BY DEF OwnCandidateAccepted
<1>1. IsCore(core)
  BY HasCore
<1>2. PICK maker \in Makers, entry \in Entry : last = Offered(maker, entry)
  BY OfferExplained
<1>3. /\ last.maker = maker /\ last.entry = entry /\ last.value = Candidate(maker, entry)
      /\ last.accepted = ValidMapping(core, Candidate(maker, entry))
  BY <1>2 DEF Offered
<1> QED
  BY <1>1, <1>3, OwnCandidate

LEMMA ExplainedForeign == Typed /\ Explained => ForeignCandidateRefused
<1> SUFFICES ASSUME Typed, Explained, last.did = "offer", last.accepted
             PROVE  /\ Denotes(last.maker.root) = Denotes(core.root)
                    /\ Denotes(last.maker.staging_root) = Denotes(core.staging_root)
  BY DEF ForeignCandidateRefused
<1>1. IsCore(core)
  BY HasCore
<1>2. PICK maker \in Makers, entry \in Entry : last = Offered(maker, entry)
  BY OfferExplained
<1>3. last.maker = maker /\ last.accepted = ValidMapping(core, Candidate(maker, entry))
  BY <1>2 DEF Offered
<1>4. IsCore(maker)
  BY MakersAreCores
<1> QED
  BY <1>1, <1>3, <1>4, ForeignCandidate

LEMMA ExplainedRelocation == Typed /\ Explained => RelocationInsideRoot
<1> SUFFICES ASSUME Typed, Explained, last.did = "relocate"
             PROVE  Denotes(last.target) = Denotes(core.root) \o Denotes(last.destination)
  BY DEF RelocationInsideRoot
<1>1. IsCore(core)
  BY HasCore
<1>2. PICK destination \in Destination : RelocationAllowed(destination) /\ last = Relocated(destination)
  BY RelocationExplained
<1>3. destination \in AnyPath
  BY ArgumentAssumption
<1>4. Denotes(RelocationTarget(core, destination)) = Denotes(core.root) \o Denotes(destination)
  BY <1>1, <1>2, <1>3, RelocationPlace
<1>5. last.target = RelocationTarget(core, destination) /\ last.destination = destination
  BY <1>2 DEF Relocated
<1> QED
  BY <1>4, <1>5

LEMMA ExplainedPager == Typed /\ Explained => PagerStaysPlain
<1> SUFFICES ASSUME Typed, Explained, last.did = "show", last.paged, options.color # "always"
             PROVE  last.bytes = last.plain
  BY DEF PagerStaysPlain
<1>1. PICK r, s \in Record : last = Shown(r, s)
  BY ShowExplained
<1>2. /\ last.paged = UsePager /\ last.plain = Rendered(<<r, s>>, FALSE)
      /\ last.bytes = Rendered(<<r, s>>, Color)
  BY <1>1 DEF Shown
<1>3. Color = FALSE
  BY <1>2 DEF Color, ColorEnabled
<1> QED
  BY <1>2, <1>3

LEMMA FlattenTwo ==
  ASSUME NEW x, NEW y
  PROVE  FlattenSeq(<<x, y>>) = x \o y
<1> DEFINE z == <<x, y>>
           F(f) == f = [i \in 1 .. 2 |-> IF i = 1 THEN z[i] ELSE f[i - 1] \o z[i]]
           g == [i \in 1 .. 2 |-> IF i = 1 THEN x ELSE x \o y]
           h == CHOOSE f : F(f)
<1>1. Len(z) = 2 /\ z[1] = x /\ z[2] = y
  OBVIOUS
<1>2. FlattenSeq(z) = h[2]
  BY <1>1 DEF FlattenSeq
<1> HIDE DEF z
<1>3. F(g)
  <2>1. \A i \in 1 .. 2 : i = 1 \/ i = 2
    OBVIOUS
  <2> QED
    BY <1>1, <2>1
<1>4. F(h)
  <2> HIDE DEF F, g
  <2> QED
    BY <1>3
<1> HIDE DEF h
<1>5. h[1] = x /\ h[2] = h[1] \o z[2]
  <2>1. 1 \in 1 .. 2 /\ 2 \in 1 .. 2 /\ 2 # 1 /\ 2 - 1 = 1
    OBVIOUS
  <2>2. \A i \in 1 .. 2 : h[i] = IF i = 1 THEN z[i] ELSE h[i - 1] \o z[i]
    BY <1>4
  <2> QED
    BY <1>1, <2>1, <2>2
<1> QED
  BY <1>1, <1>2, <1>5 DEF z

LEMMA RenderedTwo ==
  ASSUME NEW r, NEW s, NEW color \in BOOLEAN
  PROVE  Rendered(<<r, s>>, color) =
           IF color THEN Styled(r.kind, r.line) \o Styled(s.kind, s.line) ELSE r.line \o s.line
<1> DEFINE records == <<r, s>>
           Each(i) == IF color THEN Styled(records[i].kind, records[i].line) ELSE records[i].line
<1>1. DOMAIN records = 1 .. 2 /\ records[1] = r /\ records[2] = s
  OBVIOUS
<1>2. [i \in 1 .. 2 |-> Each(i)] = <<Each(1), Each(2)>>
  OBVIOUS
<1>3. Rendered(records, color) = FlattenSeq(<<Each(1), Each(2)>>)
  BY <1>1, <1>2 DEF Rendered
<1>4. FlattenSeq(<<Each(1), Each(2)>>) = Each(1) \o Each(2)
  <2> HIDE DEF Each
  <2> QED
    BY FlattenTwo
<1> QED
  BY <1>1, <1>3, <1>4

(* A line as it is shown, styled or not.                                   *)
Piece(x, line) == (\E n \in Nat : Tidy(x, n)) /\ Unstyled(x) = line

LEMMA TwoPieces ==
  ASSUME NEW x, NEW y, NEW first, NEW second, Piece(x, first), Piece(y, second)
  PROVE  Unstyled(x \o y) = first \o second /\ Cosmetic(x \o y)
<1>1. x \in Seq(Byte) /\ y \in Seq(Byte)
  BY DEF Piece, Tidy
<1>2. Unstyled(x \o y) = first \o second
  BY <1>1, UnstyledConcat DEF Piece
<1>3. Cosmetic(x \o y)
  BY TidyTwice DEF Piece
<1> QED
  BY <1>2, <1>3

LEMMA ExplainedCosmetic == Explained => ColorIsCosmetic
<1> SUFFICES ASSUME Explained, last.did = "show"
             PROVE  Unstyled(last.bytes) = last.plain /\ Cosmetic(last.bytes)
  BY DEF ColorIsCosmetic, Cosmetic
<1>1. PICK r, s \in Record : last = Shown(r, s)
  BY ShowExplained
<1>2. last.plain = Rendered(<<r, s>>, FALSE) /\ last.bytes = Rendered(<<r, s>>, Color)
  BY <1>1 DEF Shown
<1>3. Color \in BOOLEAN
  BY DEF Color, ColorEnabled
<1>4. r.line \in Line /\ s.line \in Line
  BY DEF Record
<1>5. last.plain = r.line \o s.line
  BY <1>2, RenderedTwo
<1>6. CASE Color
  <2>1. last.bytes = Styled(r.kind, r.line) \o Styled(s.kind, s.line)
    BY <1>2, <1>3, <1>6, RenderedTwo
  <2>2. Piece(Styled(r.kind, r.line), r.line) /\ Piece(Styled(s.kind, s.line), s.line)
    BY <1>4, StyledTidy DEF Piece
  <2> DEFINE x == Styled(r.kind, r.line)
             y == Styled(s.kind, s.line)
  <2> HIDE DEF x, y
  <2>3. Piece(x, r.line) /\ Piece(y, s.line)
    BY <2>2 DEF x, y
  <2>4. Unstyled(x \o y) = r.line \o s.line /\ Cosmetic(x \o y)
    BY <2>3, TwoPieces
  <2>5. last.bytes = x \o y
    BY <2>1 DEF x, y
  <2> QED
    BY <1>5, <2>4, <2>5
<1>7. CASE ~Color
  <2>1. last.bytes = r.line \o s.line
    BY <1>2, <1>3, <1>7, RenderedTwo
  <2>2. Piece(r.line, r.line) /\ Piece(s.line, s.line)
    BY <1>4, PlainTidy DEF Piece
  <2> DEFINE x == r.line
             y == s.line
  <2> HIDE DEF x, y
  <2>3. Piece(x, x) /\ Piece(y, y)
    BY <2>2 DEF x, y
  <2>4. Unstyled(x \o y) = x \o y /\ Cosmetic(x \o y)
    BY <2>3, TwoPieces
  <2>5. last.bytes = x \o y /\ last.plain = x \o y
    BY <1>5, <2>1 DEF x, y
  <2> QED
    BY <2>4, <2>5
<1> QED
  BY <1>6, <1>7

LEMMA CoreIsOne ==
  ASSUME NEW c, IsCore(c)
  PROVE  c # NoCore
<1>1. c.root = Absolute(c.root.parts)
  BY DEF IsCore, IsRoot, Canonical
<1>2. c.root.absolute = TRUE /\ NoCore.root.absolute = FALSE
  BY <1>1 DEF Absolute, NoCore, Empty, Relative
<1> QED
  BY <1>2

LEMMA TypedTypeOK == Typed => TypeOK
BY CoreIsOne DEF Typed, TypeOK

------------------------------------------------------------------------------
(* Every variable has its type, and a reconciler exists just while one is  *)
(* used.                                                                   *)
THEOREM TypeCorrect == Spec => []TypeOK
BY TypedAlways, TypedTypeOK, PTL

(* A reconciler accepts the candidates of its own scan.                    *)
(* (scan, path_escaped, validate_mapping)                                  *)
THEOREM OwnAccepted == Spec => []OwnCandidateAccepted
BY TypedAlways, ExplainedAlways, ExplainedOwn, PTL

(* It refuses those of a reconciler with other roots. (validate_mapping)   *)
THEOREM ForeignRefused == Spec => []ForeignCandidateRefused
BY TypedAlways, ExplainedAlways, ExplainedForeign, PTL

(* A relic is moved to the place the administrator typed below the root.   *)
(* (relocate_relic)                                                        *)
THEOREM RelocationInside == Spec => []RelocationInsideRoot
BY TypedAlways, ExplainedAlways, ExplainedRelocation, PTL

(* Unless color is forced, a pager gets no styles.                         *)
(* (handle_regular, color_enabled)                                         *)
THEOREM PagerPlain == Spec => []PagerStaysPlain
BY TypedAlways, ExplainedAlways, ExplainedPager, PTL

(* Styles add nothing to a difference and change nothing of it.            *)
(* (ansi_unified_sink)                                                     *)
THEOREM ColorCosmetic == Spec => []ColorIsCosmetic
BY ExplainedAlways, ExplainedCosmetic, PTL
==============================================================================
