------------------------------ MODULE Prefixes ------------------------------
(***************************************************************************)
(* Places in a list, and recursion over its prefixes: what the proofs about *)
(* lists of mockups, statements, arguments and tokens have in common.      *)
(***************************************************************************)
EXTENDS Lists, FiniteSetTheorems, SequenceTheorems, TLAPS

(* A set of places in a list has a last one and a first one: of the sets of
   places behind (before) each, one has no smaller one. *)
LEMMA LastPlace ==
  ASSUME NEW n \in Nat, NEW T \in SUBSET (1..n), T # {}
  PROVE  \E i \in T : \A j \in T : j <= i
<1> DEFINE Behind(i) == {j \in T : j > i}
           All == {Behind(i) : i \in T}
<1>1. IsFiniteSet(T) /\ \A t \in T : t \in Int
  <2>1. IsFiniteSet(1..n)
    BY FS_Interval
  <2>2. IsFiniteSet(T)
    BY <2>1, FS_Subset, Zenon
  <2>3. \A t \in T : t \in Int
    OBVIOUS
  <2>4. QED
    BY <2>2, <2>3
<1>2. All \subseteq FiniteSubsetsOf(T) /\ All # {}
  <2>1. \A i \in T : Behind(i) \in SUBSET T /\ IsFiniteSet(Behind(i))
    BY <1>1, FS_Subset
  <2> HIDE DEF Behind
  <2>2. QED
    BY <2>1 DEF FiniteSubsetsOf
<1>3. PICK U \in All : \A V \in All : <<V, U>> \notin StrictSubsetOrdering(T)
  <2>1. IsWellFoundedOn(StrictSubsetOrdering(T), FiniteSubsetsOf(T))
    BY FS_StrictSubsetOrderingWellFounded
  <2> HIDE DEF All
  <2>2. QED
    BY <1>2, <2>1, WFMin
<1>4. PICK i \in T : U = Behind(i)
  BY <1>3
<1>5. SUFFICES ASSUME NEW j \in T, ~(j <= i) PROVE FALSE
  BY <1>4
<1>6. i \in Int /\ j \in Int /\ j > i
  BY <1>1, <1>4, <1>5
<1>7. Behind(j) \subseteq Behind(i) /\ j \in Behind(i) /\ j \notin Behind(j)
  <2>1. \A k \in T : k > j => k > i
    BY <1>1, <1>6
  <2>2. ~(j > j)
    BY <1>6
  <2>3. QED
    BY <1>5, <1>6, <2>1, <2>2
<1>9. Behind(i) \in SUBSET T /\ Behind(j) \in SUBSET T /\ Behind(j) \in All
  BY <1>5
<1>10. <<Behind(j), Behind(i)>> \in StrictSubsetOrdering(T)
  <2> HIDE DEF Behind
  <2>1. QED
    BY <1>7, <1>9 DEF StrictSubsetOrdering
<1>8. QED
  BY <1>3, <1>4, <1>9, <1>10

LEMMA FirstPlace ==
  ASSUME NEW n \in Nat, NEW T \in SUBSET (1..n), T # {}
  PROVE  \E i \in T : \A j \in T : i <= j
<1> DEFINE M == {n + 1 - i : i \in T}
<1>1. M \in SUBSET (1..n) /\ M # {}
  <2>1. \A i \in T : i \in 1..n /\ n + 1 - i \in 1..n
    OBVIOUS
  <2>2. QED
    BY <2>1
<1>2. PICK m \in M : \A k \in M : k <= m
  <2> HIDE DEF M
  <2>1. QED
    BY <1>1, LastPlace
<1>3. PICK i \in T : m = n + 1 - i
  BY <1>2
<1>4. \A j \in T : n + 1 - j <= n + 1 - i
  BY <1>2, <1>3
<1>5. QED
  BY <1>4

(* Induction over the prefixes of a list of length n, for a set of lengths. *)
LEMMA PrefixInduction ==
  ASSUME NEW n \in Nat, NEW S,
         0 \in S, \A k \in 1..n : k - 1 \in S => k \in S
  PROVE  \A k \in 0..n : k \in S
<1> DEFINE T == {k \in 1..n : k \notin S}
<1>1. SUFFICES ASSUME T # {} PROVE FALSE
  OBVIOUS
<1>2. T \in SUBSET (1..n)
  OBVIOUS
<1>3. PICK i \in T : \A j \in T : i <= j
  <2> HIDE DEF T
  <2>1. QED
    BY <1>1, <1>2, FirstPlace
<1>4. i \in 1..n /\ i - 1 \in 0..n /\ i - 1 \notin T
  BY <1>3
<1>5. i - 1 \in S
  BY <1>4
<1>6. QED
  BY <1>3, <1>4, <1>5

(* f takes the value base for the empty prefix of a list of length n, and makes a
   step to each other prefix. *)
Follows(f, n, base, step) ==
  f[0] = base /\ \A k \in 1..n : f[k] = step[k][f[k - 1]]

(* A function of the prefixes of a list is well defined by its value for the
   empty one and a step from each to the next. *)
LEMMA PrefixRecursion ==
  ASSUME NEW n \in Nat, NEW V, NEW base \in V, NEW step \in [1..n -> [V -> V]]
  PROVE  \E f \in [0..n -> V] : Follows(f, n, base, step)
<1> DEFINE Defines(f, m) == /\ f \in [0..m -> V] /\ f[0] = base
                            /\ \A k \in 1..m : f[k] = step[k][f[k - 1]]
           Defined(m) == \E f : Defines(f, m)
           S == {m \in 0..n : Defined(m)}
<1>1. Defined(0)
  <2> DEFINE g == [k \in 0..0 |-> base]
  <2>1. g \in [0..0 -> V] /\ g[0] = base /\ \A k \in 1..0 : g[k] = step[k][g[k - 1]]
    OBVIOUS
  <2> HIDE DEF g
  <2>2. QED
    BY <2>1
<1>2. ASSUME NEW m \in 1..n, Defined(m - 1) PROVE Defined(m)
  <2>1. PICK f : Defines(f, m - 1)
    BY <1>2
  <2> DEFINE g == [k \in 0..m |-> IF k = m THEN step[m][f[m - 1]] ELSE f[k]]
  <2>2. m \in Nat /\ m - 1 \in Nat /\ f[m - 1] \in V
    BY <2>1
  <2>3. step[m][f[m - 1]] \in V
    BY <2>2
  <2>4. \A k \in 0..m : k # m => k \in 0..m - 1 /\ f[k] \in V
    BY <2>1, <2>2
  <2>5. g \in [0..m -> V]
    BY <2>3, <2>4
  <2>6. g[0] = base
    BY <2>1, <2>2
  <2>7. ASSUME NEW k \in 1..m PROVE g[k] = step[k][g[k - 1]]
    <3>1. k \in 0..m /\ k - 1 \in 0..m /\ k - 1 # m
      BY <2>2
    <3>2. g[k - 1] = f[k - 1] /\ g[k] = IF k = m THEN step[m][f[m - 1]] ELSE f[k]
      BY <3>1
    <3>3. k # m => k \in 1..m - 1
      BY <2>2
    <3>4. QED
      BY <2>1, <3>2, <3>3
  <2> HIDE DEF g
  <2>8. Defines(g, m)
    BY <2>5, <2>6, <2>7
  <2>9. QED
    BY <2>8
<1>3. \A m \in 0..n : m \in S
  <2> HIDE DEF Defined
  <2>1. 0 \in S /\ \A m \in 1..n : m - 1 \in S => m \in S
    BY <1>1, <1>2
  <2> HIDE DEF S
  <2>2. QED
    BY <2>1, PrefixInduction
<1>4. Defined(n)
  BY <1>3
<1>5. QED
  BY <1>4 DEF Follows

(* f and g have the same values for the prefixes of a list of length n. *)
Agree(f, g, n) == \A k \in 0..n : f[k] = g[k]

(* Two functions of the prefixes of a list of length n agree if they begin alike
   and go on alike. *)
LEMMA PrefixUnique ==
  ASSUME NEW n \in Nat, NEW f, NEW g,
         f[0] = g[0], \A k \in 1..n : f[k - 1] = g[k - 1] => f[k] = g[k]
  PROVE  Agree(f, g, n)
<1> DEFINE Same == {k \in 0..n : f[k] = g[k]}
<1>1. 0 \in Same
  OBVIOUS
<1>2. ASSUME NEW k \in 1..n, k - 1 \in Same PROVE k \in Same
  BY <1>2
<1>3. \A k \in 0..n : k \in Same
  <2> HIDE DEF Same
  <2>1. QED
    BY <1>1, <1>2, PrefixInduction
<1>4. QED
  BY <1>3 DEF Agree

LEMMA ListOf ==
  ASSUME NEW E, NEW n \in Nat, NEW s \in [1..n -> E]
  PROVE  s \in Seq(E) /\ Len(s) = n
<1>1. s \in Seq(E) /\ DOMAIN s = 1..n
  BY SeqDef
<1>2. Len(s) \in Nat /\ DOMAIN s = 1..Len(s)
  BY <1>1, LenProperties
<1>3. QED
  BY <1>1, <1>2

(* r are the elements of s at the places in I up to n: h says where each was. *)
Picks(h, r, s, I, n) ==
  /\ h \in [1..Len(r) -> 1..n]
  /\ \A k \in 1..Len(r) : h[k] \in I /\ r[k] = s[h[k]]
  /\ \A k, l \in 1..Len(r) : k < l => h[k] < h[l]
  /\ \A i \in 1..n : i \in I => \E k \in 1..Len(r) : h[k] = i

LEMMA PicksNone ==
  ASSUME NEW s, NEW I
  PROVE  Picks(<<>>, <<>>, s, I, 0)
<1>1. Len(<<>>) = 0 /\ <<>> \in [1..0 -> 1..0]
  OBVIOUS
<1>2. QED
  BY <1>1 DEF Picks

LEMMA PicksAnother ==
  ASSUME NEW E, NEW s, NEW I, NEW n \in Nat \ {0}, NEW r \in Seq(E), NEW h,
         Picks(h, r, s, I, n - 1), s[n] \in E, n \in I
  PROVE  \E g : Picks(g, Append(r, s[n]), s, I, n)
<1>1. PICK m, e, q : m = Len(r) /\ m \in Nat /\ e = s[n] /\ e \in E /\ q = Append(r, e)
  BY LenProperties
<1>2. Len(q) = m + 1 /\ (\A k \in 1..m : q[k] = r[k]) /\ q[m + 1] = e
  BY <1>1, AppendProperties
<1> DEFINE g == [k \in 1..m + 1 |-> IF k = m + 1 THEN n ELSE h[k]]
<1>3. /\ h \in [1..m -> 1..n - 1]
      /\ \A k \in 1..m : h[k] \in I /\ r[k] = s[h[k]]
      /\ \A k, l \in 1..m : k < l => h[k] < h[l]
      /\ \A i \in 1..n - 1 : i \in I => \E k \in 1..m : h[k] = i
  BY <1>1 DEF Picks
<1>4. \A k \in 1..m + 1 : k # m + 1 => k \in 1..m
  BY <1>1
<1>5. \A k \in 1..m : h[k] \in 1..n /\ h[k] < n
  BY <1>3
<1>6. g \in [1..m + 1 -> 1..n]
  BY <1>4, <1>5
<1>7. g[m + 1] = n /\ \A k \in 1..m : g[k] = h[k]
  BY <1>1
<1> HIDE DEF g
<1>8. \A k \in 1..m + 1 : g[k] \in I /\ q[k] = s[g[k]]
  BY <1>1, <1>2, <1>3, <1>4, <1>7
<1>9. ASSUME NEW k \in 1..m + 1, NEW l \in 1..m + 1, k < l PROVE g[k] < g[l]
  <2>1. k \in 1..m
    BY <1>1, <1>9
  <2>2. QED
    BY <1>3, <1>4, <1>5, <1>7, <1>9, <2>1
<1>10. ASSUME NEW i \in 1..n, i \in I PROVE \E k \in 1..m + 1 : g[k] = i
  <2>1. CASE i = n
    BY <1>1, <1>7, <2>1
  <2>2. CASE i # n
    <3>1. i \in 1..n - 1
      BY <2>2
    <3>2. PICK k \in 1..m : h[k] = i
      BY <1>3, <1>10, <3>1
    <3>3. k \in 1..m + 1 /\ g[k] = i
      BY <1>1, <1>7, <3>2
    <3>4. QED
      BY <3>3
  <2>3. QED
    BY <2>1, <2>2
<1>11. Picks(g, q, s, I, n)
  BY <1>2, <1>6, <1>8, <1>9, <1>10 DEF Picks
<1>12. QED
  BY <1>1, <1>11

LEMMA PicksTheSame ==
  ASSUME NEW s, NEW I, NEW n \in Nat \ {0}, NEW r, NEW h, Picks(h, r, s, I, n - 1), n \notin I
  PROVE  Picks(h, r, s, I, n)
<1>1. \A i \in 1..n : i \in I => i \in 1..n - 1
  OBVIOUS
<1>2. h \in [1..Len(r) -> 1..n]
  BY DEF Picks
<1>3. QED
  BY <1>1, <1>2 DEF Picks

(* f are the parts of s kept, prefix by prefix. *)
Keeps(f, s, I) ==
  /\ f[0] = <<>>
  /\ \A k \in 1..Len(s) : f[k] = IF k \in I THEN Append(f[k - 1], s[k]) ELSE f[k - 1]

LEMMA KeepAtRuns ==
  ASSUME NEW E, NEW s \in Seq(E), NEW I
  PROVE  \E f \in [0..Len(s) -> Seq(E)] : Keeps(f, s, I) /\ KeepAt(s, I) = f[Len(s)]
<1> DEFINE L == Len(s)
           V == Seq(E)
           Next1(a, k) == IF k \in I THEN Append(a, s[k]) ELSE a
           step == [k \in 1..L |-> [a \in V |-> Next1(a, k)]]
           Body(f) == [n \in 0..L |-> IF n = 0 THEN <<>>
                                      ELSE IF n \in I THEN Append(f[n - 1], s[n]) ELSE f[n - 1]]
<1>1. L \in Nat /\ \A k \in 1..L : s[k] \in E
  BY ElementOfSeq, LenProperties
<1>2. KeepAt(s, I) = (CHOOSE g : g = Body(g))[L]
  BY DEF KeepAt
<1> HIDE DEF L
<1>3. ASSUME NEW k \in 1..L, NEW a \in V PROVE Next1(a, k) \in V
  BY <1>1, AppendProperties
<1>4. PICK f \in [0..L -> V] : Follows(f, L, <<>>, step)
  <2>1. <<>> \in V
    BY EmptySeq
  <2> HIDE DEF V, Next1
  <2>2. step \in [1..L -> [V -> V]]
    BY <1>3
  <2> HIDE DEF step
  <2>3. QED
    BY <1>1, <2>1, <2>2, PrefixRecursion, Zenon
<1>5. f[0] = <<>> /\ \A k \in 1..L : f[k] = step[k][f[k - 1]]
  BY <1>4 DEF Follows
<1>6. ASSUME NEW k \in 1..L
      PROVE  f[k] = Next1(f[k - 1], k)
  <2>1. f[k - 1] \in V
    BY <1>1, <1>4
  <2>2. f[k] = step[k][f[k - 1]]
    BY <1>5
  <2> HIDE DEF V, Next1
  <2>3. QED
    BY <2>1, <2>2
<1>7. (CHOOSE g : g = Body(g)) = f
  <2>1. f = Body(f)
    <3>1. f = [k \in 0..L |-> f[k]]
      BY <1>4
    <3>2. ASSUME NEW k \in 0..L PROVE f[k] = Body(f)[k]
      <4>1. k = 0 \/ k \in 1..L
        BY <1>1
      <4>2. QED
        BY <1>1, <1>5, <1>6, <4>1
    <3>3. QED
      BY <3>1, <3>2
  <2>2. ASSUME NEW g, g = Body(g) PROVE g = f
    <3>1. g[0] = f[0]
      <4>1. 0 \in 0..L
        BY <1>1
      <4>2. g[0] = <<>>
        BY <2>2, <4>1
      <4>3. QED
        BY <1>5, <4>2
    <3>2. ASSUME NEW k \in 1..L, g[k - 1] = f[k - 1] PROVE g[k] = f[k]
      <4>1. k \in 0..L /\ k # 0
        BY <1>1, <3>2
      <4>2. g[k] = Next1(g[k - 1], k)
        BY <2>2, <4>1
      <4> HIDE DEF Next1
      <4>3. QED
        BY <1>6, <3>2, <4>2
    <3>3. Agree(g, f, L)
      BY <1>1, <3>1, <3>2, PrefixUnique
    <3>4. g = [k \in 0..L |-> g[k]] /\ f = [k \in 0..L |-> f[k]]
      BY <1>4, <2>2
    <3>5. QED
      BY <3>3, <3>4 DEF Agree
  <2> HIDE DEF Body
  <2>3. QED
    BY <2>1, <2>2
<1>8. KeepAt(s, I) = f[L]
  <2> HIDE DEF Body
  <2>1. QED
    BY <1>2, <1>7
<1>9. Keeps(f, s, I)
  BY <1>5, <1>6 DEF Keeps, L
<1>10. QED
  BY <1>4, <1>8, <1>9 DEF L

LEMMA KeepAtIs ==
  ASSUME NEW E, NEW s \in Seq(E), NEW I
  PROVE  /\ KeepAt(s, I) \in Seq(E)
         /\ \E h : Picks(h, KeepAt(s, I), s, I, Len(s))
<1>1. PICK L : L = Len(s) /\ L \in Nat /\ \A k \in 1..L : s[k] \in E
  BY ElementOfSeq, LenProperties
<1>4. PICK f \in [0..L -> Seq(E)] : Keeps(f, s, I) /\ KeepAt(s, I) = f[L]
  BY <1>1, KeepAtRuns
<1>5. f[0] = <<>> /\ \A k \in 1..L : f[k] = IF k \in I THEN Append(f[k - 1], s[k]) ELSE f[k - 1]
  BY <1>1, <1>4 DEF Keeps
<1> DEFINE S == {k \in 0..L : \E h : Picks(h, f[k], s, I, k)}
<1>8. 0 \in S
  <2>1. Picks(<<>>, f[0], s, I, 0)
    BY <1>5, PicksNone
  <2>2. 0 \in 0..L
    BY <1>1
  <2>3. QED
    BY <2>1, <2>2
<1>9. ASSUME NEW k \in 1..L, k - 1 \in S PROVE k \in S
  <2>1. PICK h, r : Picks(h, r, s, I, k - 1) /\ r = f[k - 1]
    BY <1>9
  <2>2. k \in Nat \ {0} /\ k \in 0..L /\ s[k] \in E /\ r \in Seq(E)
    BY <1>1, <1>4, <2>1
  <2>3. CASE k \in I
    <3>1. f[k] = Append(r, s[k])
      BY <1>5, <2>1, <2>3
    <3>2. \E g : Picks(g, Append(r, s[k]), s, I, k)
      BY <2>1, <2>2, <2>3, PicksAnother
    <3>3. QED
      BY <2>2, <3>1, <3>2
  <2>4. CASE k \notin I
    <3>1. f[k] = r
      BY <1>5, <2>1, <2>4
    <3>2. Picks(h, r, s, I, k)
      BY <2>1, <2>2, <2>4, PicksTheSame
    <3>3. QED
      BY <2>2, <3>1, <3>2
  <2>5. QED
    BY <2>3, <2>4
<1>10. L \in S
  <2> HIDE DEF S
  <2>1. \A k \in 0..L : k \in S
    BY <1>1, <1>8, <1>9, PrefixInduction
  <2>2. L \in 0..L
    BY <1>1
  <2>3. QED
    BY <2>1, <2>2
<1>11. f[L] = KeepAt(s, I) /\ f[L] \in Seq(E)
  BY <1>1, <1>4
<1>12. QED
  BY <1>1, <1>10, <1>11

(* f are the lists of ss put one behind the other, prefix by prefix. *)
Runs(f, ss) == f[0] = <<>> /\ \A k \in 1..Len(ss) : f[k] = f[k - 1] \o ss[k]

LEMMA FlatIs ==
  ASSUME NEW E, NEW ss \in Seq(Seq(E))
  PROVE  \E f \in [0..Len(ss) -> Seq(E)] : Runs(f, ss) /\ Flat(ss) = f[Len(ss)]
<1> DEFINE L == Len(ss)
           V == Seq(E)
           step == [k \in 1..L |-> [a \in V |-> a \o ss[k]]]
           Body(f) == [n \in 0..L |-> IF n = 0 THEN <<>> ELSE f[n - 1] \o ss[n]]
<1>1. L \in Nat /\ \A k \in 1..L : ss[k] \in V
  BY ElementOfSeq, LenProperties
<1>2. Flat(ss) = (CHOOSE g : g = Body(g))[L]
  BY DEF Flat
<1> HIDE DEF L
<1>3. ASSUME NEW k \in 1..L, NEW a \in V PROVE a \o ss[k] \in V
  BY <1>1, ConcatProperties
<1>4. PICK f \in [0..L -> V] : Follows(f, L, <<>>, step)
  <2>1. <<>> \in V
    BY EmptySeq
  <2> HIDE DEF V
  <2>2. step \in [1..L -> [V -> V]]
    BY <1>3
  <2> HIDE DEF step
  <2>3. QED
    BY <1>1, <2>1, <2>2, PrefixRecursion, Zenon
<1>5. f[0] = <<>> /\ \A k \in 1..L : f[k] = step[k][f[k - 1]]
  BY <1>4 DEF Follows
<1>6. ASSUME NEW k \in 1..L PROVE f[k] = f[k - 1] \o ss[k]
  <2>1. f[k - 1] \in V
    BY <1>1, <1>4
  <2>2. f[k] = step[k][f[k - 1]]
    BY <1>5
  <2> HIDE DEF V
  <2>3. QED
    BY <2>1, <2>2
<1>7. (CHOOSE g : g = Body(g)) = f
  <2>1. f = Body(f)
    <3>1. f = [k \in 0..L |-> f[k]]
      BY <1>4
    <3>2. ASSUME NEW k \in 0..L PROVE f[k] = IF k = 0 THEN <<>> ELSE f[k - 1] \o ss[k]
      <4>1. k = 0 \/ k \in 1..L
        BY <1>1
      <4>2. QED
        BY <1>5, <1>6, <4>1
    <3>3. QED
      BY <3>1, <3>2
  <2>2. ASSUME NEW g, g = Body(g) PROVE g = f
    <3>1. g[0] = f[0]
      <4>1. 0 \in 0..L
        BY <1>1
      <4>2. g[0] = <<>>
        BY <2>2, <4>1
      <4>3. QED
        BY <1>5, <4>2
    <3>2. ASSUME NEW k \in 1..L, g[k - 1] = f[k - 1] PROVE g[k] = f[k]
      <4>1. k \in 0..L /\ k # 0
        BY <1>1, <3>2
      <4>2. g[k] = g[k - 1] \o ss[k]
        BY <2>2, <4>1
      <4>3. QED
        BY <1>6, <3>2, <4>2
    <3>3. Agree(g, f, L)
      BY <1>1, <3>1, <3>2, PrefixUnique
    <3>4. g = [k \in 0..L |-> g[k]] /\ f = [k \in 0..L |-> f[k]]
      BY <1>4, <2>2
    <3>5. QED
      BY <3>3, <3>4 DEF Agree
  <2> HIDE DEF Body
  <2>3. QED
    BY <2>1, <2>2
<1>8. Flat(ss) = f[L]
  <2> HIDE DEF Body
  <2>1. QED
    BY <1>2, <1>7
<1>9. Runs(f, ss)
  BY <1>5, <1>6 DEF Runs, L
<1>10. QED
  BY <1>4, <1>8, <1>9 DEF L

LEMMA FlatType ==
  ASSUME NEW E, NEW ss \in Seq(Seq(E))
  PROVE  Flat(ss) \in Seq(E)
<1>1. Len(ss) \in 0..Len(ss)
  BY LenProperties
<1>2. QED
  BY <1>1, FlatIs

LEMMA FlatEmpty == Flat(<<>>) = <<>>
<1>1. <<>> \in Seq(Seq({})) /\ Len(<<>>) = 0
  OBVIOUS
<1>2. PICK f : Runs(f, <<>>) /\ Flat(<<>>) = f[Len(<<>>)]
  BY <1>1, FlatIs
<1>3. QED
  BY <1>1, <1>2 DEF Runs

LEMMA FlatAppend ==
  ASSUME NEW E, NEW ss \in Seq(Seq(E)), NEW s \in Seq(E)
  PROVE  Flat(Append(ss, s)) = Flat(ss) \o s
<1> DEFINE tt == Append(ss, s)
<1>1. PICK n : n = Len(ss) /\ n \in Nat
  BY LenProperties
<1>2. tt \in Seq(Seq(E)) /\ Len(tt) = n + 1 /\ (\A k \in 1..n : tt[k] = ss[k]) /\ tt[n + 1] = s
  BY <1>1, AppendProperties
<1> HIDE DEF tt
<1>3. PICK f : Runs(f, ss) /\ Flat(ss) = f[n]
  BY <1>1, FlatIs
<1>4. PICK g : Runs(g, tt) /\ Flat(tt) = g[n + 1]
  BY <1>2, FlatIs
<1>5. f[n] = g[n]
  <2>2. \A k \in 1..n : ss[k] = tt[k]
    BY <1>2
  <2>3. f[0] = g[0]
    BY <1>3, <1>4 DEF Runs
  <2>4. ASSUME NEW k \in 1..n, f[k - 1] = g[k - 1] PROVE f[k] = g[k]
    <3>1. k \in 1..Len(ss) /\ k \in 1..Len(tt)
      BY <1>1, <1>2
    <3>2. f[k] = f[k - 1] \o ss[k] /\ g[k] = g[k - 1] \o tt[k]
      BY <1>3, <1>4, <3>1 DEF Runs
    <3>3. QED
      BY <2>2, <2>4, <3>2
  <2>5. Agree(f, g, n)
    BY <1>1, <2>3, <2>4, PrefixUnique
  <2>6. QED
    BY <1>1, <2>5 DEF Agree
<1>6. g[n + 1] = g[n] \o s
  <2>1. PICK k \in 1..Len(tt) : k = n + 1
    BY <1>1, <1>2
  <2>2. g[k] = g[k - 1] \o tt[k]
    BY <1>4 DEF Runs
  <2>3. k - 1 = n
    BY <1>1, <2>1
  <2>4. QED
    BY <1>2, <2>1, <2>2, <2>3
<1>7. QED
  BY <1>3, <1>4, <1>5, <1>6 DEF tt

(* Lists of lists whose members have the same lengths have their elements at
   the same places. *)
Aligned(ss, tt) == Len(tt) = Len(ss) /\ \A i \in 1..Len(ss) : Len(tt[i]) = Len(ss[i])

Alongside(ss, tt) ==
  /\ Len(Flat(tt)) = Len(Flat(ss))
  /\ \A k \in 1..Len(Flat(ss)) :
       \E i \in 1..Len(ss) : \E j \in 1..Len(ss[i]) :
          Flat(ss)[k] = ss[i][j] /\ Flat(tt)[k] = tt[i][j]

LEMMA FlatAligned ==
  ASSUME NEW E, NEW ss \in Seq(Seq(E)), NEW F, NEW tt \in Seq(Seq(F)), Aligned(ss, tt)
  PROVE  Alongside(ss, tt)
<1>0. Len(tt) = Len(ss) /\ \A i \in 1..Len(ss) : Len(tt[i]) = Len(ss[i])
  BY DEF Aligned
<1>1. PICK n : n = Len(ss) /\ n \in Nat
  BY LenProperties
<1>2. PICK f \in [0..n -> Seq(E)] : Runs(f, ss) /\ Flat(ss) = f[n]
  BY <1>1, FlatIs
<1>3. PICK g \in [0..n -> Seq(F)] : Runs(g, tt) /\ Flat(tt) = g[n]
  BY <1>0, <1>1, FlatIs
<1> DEFINE Same(a, b) == /\ Len(b) = Len(a)
                         /\ \A k \in 1..Len(a) :
                              \E i \in 1..n : \E j \in 1..Len(ss[i]) : a[k] = ss[i][j] /\ b[k] = tt[i][j]
           S == {k \in 0..n : Same(f[k], g[k])}
<1>4. 0 \in S
  <2>1. f[0] = <<>> /\ g[0] = <<>> /\ 0 \in 0..n
    BY <1>1, <1>2, <1>3 DEF Runs
  <2>2. Same(<<>>, <<>>)
    OBVIOUS
  <2> HIDE DEF Same
  <2>3. QED
    BY <2>1, <2>2
<1>5. ASSUME NEW k \in 1..n, k - 1 \in S PROVE k \in S
  <2>1. PICK a, b, s, t : a = f[k - 1] /\ b = g[k - 1] /\ s = ss[k] /\ t = tt[k]
    OBVIOUS
  <2>2. a \in Seq(E) /\ s \in Seq(E) /\ b \in Seq(F) /\ t \in Seq(F) /\ Len(t) = Len(s)
    <3>1. k - 1 \in 0..n /\ k \in 1..Len(ss) /\ k \in 1..Len(tt)
      BY <1>0, <1>1
    <3>2. ss[k] \in Seq(E) /\ tt[k] \in Seq(F)
      BY <3>1, ElementOfSeq
    <3>3. QED
      BY <1>0, <2>1, <3>1, <3>2
  <2>3. f[k] = a \o s /\ g[k] = b \o t
    BY <1>0, <1>1, <1>2, <1>3, <2>1 DEF Runs
  <2>4. Same(a, b)
    BY <1>5, <2>1
  <2>5. PICK l, m : l = Len(a) /\ l \in Nat /\ m = Len(s) /\ m \in Nat
    BY <2>2, LenProperties
  <2>6. Len(b) = l /\ Len(t) = m
    BY <2>2, <2>4, <2>5
  <2>7. /\ Len(a \o s) = l + m /\ Len(b \o t) = l + m
        /\ \A q \in 1..l + m : (a \o s)[q] = IF q <= l THEN a[q] ELSE s[q - l]
        /\ \A q \in 1..l + m : (b \o t)[q] = IF q <= l THEN b[q] ELSE t[q - l]
    <3>1. /\ Len(a \o s) = l + m
          /\ \A q \in 1..l + m : (a \o s)[q] = IF q <= l THEN a[q] ELSE s[q - l]
      BY <2>2, <2>5, ConcatProperties
    <3>2. /\ Len(b \o t) = l + m
          /\ \A q \in 1..l + m : (b \o t)[q] = IF q <= l THEN b[q] ELSE t[q - l]
      <4>1. b \in Seq(F) /\ t \in Seq(F)
        BY <2>2
      <4>2. /\ Len(b \o t) = Len(b) + Len(t)
            /\ \A q \in 1..Len(b) + Len(t) : (b \o t)[q] = IF q <= Len(b) THEN b[q] ELSE t[q - Len(b)]
        BY <4>1, ConcatProperties
      <4>3. QED
        BY <2>6, <4>2
    <3>3. QED
      BY <3>1, <3>2
  <2>8. ASSUME NEW q \in 1..l + m
        PROVE  \E i \in 1..n : \E j \in 1..Len(ss[i]) : (a \o s)[q] = ss[i][j] /\ (b \o t)[q] = tt[i][j]
    <3>1. CASE q <= l
      <4>1. q \in 1..l /\ (a \o s)[q] = a[q] /\ (b \o t)[q] = b[q]
        BY <2>5, <2>7, <3>1
      <4>2. QED
        BY <2>4, <2>5, <4>1
    <3>2. CASE ~(q <= l)
      <4>1. q - l \in 1..m /\ (a \o s)[q] = s[q - l] /\ (b \o t)[q] = t[q - l]
        BY <2>5, <2>7, <3>2
      <4>2. q - l \in 1..Len(ss[k]) /\ (a \o s)[q] = ss[k][q - l] /\ (b \o t)[q] = tt[k][q - l]
        BY <2>1, <2>5, <4>1
      <4>3. QED
        BY <4>2
    <3>3. QED
      BY <3>1, <3>2
  <2>9. Same(a \o s, b \o t)
    BY <2>7, <2>8
  <2> HIDE DEF Same
  <2>10. k \in 0..n
    BY <1>1
  <2>11. QED
    BY <2>3, <2>9, <2>10
<1>6. n \in S
  <2> HIDE DEF S
  <2>1. \A k \in 0..n : k \in S
    BY <1>1, <1>4, <1>5, PrefixInduction
  <2>2. QED
    BY <1>1, <2>1
<1>7. QED
  BY <1>1, <1>2, <1>3, <1>6 DEF Alongside

Regroups(a, b, c) == (a \o b) \o c = a \o (b \o c)

LEMMA ConcatRegroups ==
  ASSUME NEW E, NEW a \in Seq(E), NEW b \in Seq(E), NEW c \in Seq(E)
  PROVE  Regroups(a, b, c)
BY ConcatAssociative DEF Regroups

(* x is three lists one behind the other. *)
InThree(x, a, b, c) == x = (a \o b) \o c

LEMMA InThreeGrows ==
  ASSUME NEW E, NEW a \in Seq(E), NEW b \in Seq(E), NEW c \in Seq(E), NEW s \in Seq(E),
         NEW x, InThree(x, a, b, c)
  PROVE  InThree(x \o s, a, b, c \o s)
<1>1. PICK d \in Seq(E) : d = a \o b
  BY ConcatProperties
<1>2. Regroups(d, c, s)
  BY ConcatRegroups
<1>3. QED
  BY <1>1, <1>2 DEF InThree, Regroups

ButOne(ss, tt, i) ==
  i \in 1..Len(ss) /\ Len(tt) = Len(ss) /\ \A j \in 1..Len(ss) : j # i => tt[j] = ss[j]
OfOthers(a, ss, i) ==
  \A k \in 1..Len(a) : \E j \in 1..Len(ss) : j # i /\ \E l \in 1..Len(ss[j]) : a[k] = ss[j][l]
Around(ss, tt, i, A, B) ==
  InThree(Flat(ss), A, ss[i], B) /\ InThree(Flat(tt), A, tt[i], B) /\ OfOthers(A, ss, i) /\ OfOthers(B, ss, i)

(* One of the lists replaced: the rest stays, and is made of the others. *)
LEMMA FlatButOne ==
  ASSUME NEW E, NEW ss \in Seq(Seq(E)), NEW tt \in Seq(Seq(E)), NEW i, ButOne(ss, tt, i)
  PROVE  \E A, B \in Seq(E) : Around(ss, tt, i, A, B)
<1>0. i \in 1..Len(ss) /\ Len(tt) = Len(ss) /\ \A j \in 1..Len(ss) : j # i => tt[j] = ss[j]
  BY DEF ButOne
<1>1. PICK n : n = Len(ss) /\ n \in Nat
  BY LenProperties
<1>2. PICK f \in [0..n -> Seq(E)] : Runs(f, ss) /\ Flat(ss) = f[n]
  BY <1>1, FlatIs
<1>3. PICK g \in [0..n -> Seq(E)] : Runs(g, tt) /\ Flat(tt) = g[n]
  <2>1. n = Len(tt)
    BY <1>0, <1>1
  <2>2. \E g \in [0..Len(tt) -> Seq(E)] : Runs(g, tt) /\ Flat(tt) = g[Len(tt)]
    BY FlatIs
  <2>3. QED
    BY <2>1, <2>2
<1>4. /\ f[0] = <<>> /\ \A k \in 1..n : f[k] = f[k - 1] \o ss[k]
      /\ g[0] = <<>> /\ \A k \in 1..n : g[k] = g[k - 1] \o tt[k]
      /\ i \in 1..n /\ i - 1 \in 0..n
      /\ \A k \in 1..n : ss[k] \in Seq(E) /\ tt[k] \in Seq(E)
  <2>1. f[0] = <<>> /\ \A k \in 1..n : f[k] = f[k - 1] \o ss[k]
    BY <1>1, <1>2 DEF Runs
  <2>2. Len(tt) = n
    BY <1>0, <1>1
  <2>3. g[0] = <<>> /\ \A k \in 1..n : g[k] = g[k - 1] \o tt[k]
    BY <1>3, <2>2 DEF Runs
  <2>4. i \in 1..n /\ i - 1 \in 0..n
    BY <1>0, <1>1
  <2>5. \A k \in 1..n : ss[k] \in Seq(E) /\ tt[k] \in Seq(E)
    BY <1>1, <2>2, ElementOfSeq
  <2>6. QED
    BY <2>1, <2>3, <2>4, <2>5
<1> DEFINE Others(a) == \A k \in 1..Len(a) :
                          \E j \in 1..n : j # i /\ \E l \in 1..Len(ss[j]) : a[k] = ss[j][l]
<1>5. Others(<<>>)
  OBVIOUS
<1>6. ASSUME NEW a \in Seq(E), Others(a), NEW k \in 1..n, k # i PROVE Others(a \o ss[k])
  <2>1. PICK s, l, m : s = ss[k] /\ s \in Seq(E) /\ l = Len(a) /\ m = Len(s) /\ l \in Nat /\ m \in Nat
    BY <1>4, LenProperties
  <2>2. Len(a \o s) = l + m /\ \A q \in 1..l + m : (a \o s)[q] = IF q <= l THEN a[q] ELSE s[q - l]
    BY <2>1, ConcatProperties
  <2>3. ASSUME NEW q \in 1..l + m
        PROVE  \E j \in 1..n : j # i /\ \E r \in 1..Len(ss[j]) : (a \o s)[q] = ss[j][r]
    <3>1. CASE q <= l
      <4>1. q \in 1..l /\ (a \o s)[q] = a[q]
        BY <2>1, <2>2, <3>1
      <4>2. QED
        BY <1>6, <2>1, <4>1
    <3>2. CASE ~(q <= l)
      <4>1. q - l \in 1..m /\ (a \o s)[q] = s[q - l]
        BY <2>1, <2>2, <3>2
      <4>2. q - l \in 1..Len(ss[k]) /\ (a \o s)[q] = ss[k][q - l]
        BY <2>1, <4>1
      <4>3. QED
        BY <1>6, <4>2
    <3>3. QED
      BY <3>1, <3>2
  <2>4. QED
    BY <2>1, <2>2, <2>3
<1>7. \A k \in 0..i - 1 : k \in {q \in 0..n : f[q] = g[q] /\ Others(f[q])}
  <2> DEFINE S == {q \in 0..n : f[q] = g[q] /\ Others(f[q])}
  <2>1. 0 \in S
    BY <1>1, <1>4, <1>5
  <2>2. ASSUME NEW k \in 1..i - 1, k - 1 \in S PROVE k \in S
    <3>1. k \in 1..n /\ k \in 0..n /\ k # i /\ k - 1 \in 0..n
      <4>1. n \in Nat /\ i \in 1..n /\ k \in 1..i - 1
        BY <1>1, <1>4
      <4>2. QED
        BY <4>1
    <3>2. f[k] = f[k - 1] \o ss[k] /\ g[k] = f[k - 1] \o ss[k]
      BY <1>0, <1>1, <1>4, <2>2, <3>1
    <3>3. f[k - 1] \in Seq(E) /\ Others(f[k - 1])
      BY <2>2, <3>1
    <3> HIDE DEF Others
    <3>4. Others(f[k - 1] \o ss[k])
      BY <1>6, <3>1, <3>3
    <3>5. QED
      BY <3>1, <3>2, <3>4
  <2> HIDE DEF S
  <2>3. i - 1 \in Nat
    BY <1>1, <1>4
  <2>4. \A k \in 0..i - 1 : k \in S
    BY <2>1, <2>2, <2>3, PrefixInduction
  <2>5. QED
    BY <2>4 DEF S
<1>8. PICK A : A = f[i - 1] /\ A = g[i - 1] /\ A \in Seq(E) /\ Others(A)
  <2> HIDE DEF Others
  <2>1. i - 1 \in 0..i - 1
    BY <1>1, <1>4
  <2>2. QED
    BY <1>4, <1>7, <2>1
<1> DEFINE Before(k) == \E B \in Seq(E) : /\ InThree(f[k], A, ss[i], B) /\ InThree(g[k], A, tt[i], B)
                                          /\ Others(B)
           S == {q \in 0..n - i : Before(i + q)}
<1>9. 0 \in S
  <2>1. f[i] = A \o ss[i] /\ g[i] = A \o tt[i]
    BY <1>4, <1>8
  <2>2. ss[i] \in Seq(E) /\ tt[i] \in Seq(E)
    BY <1>4
  <2>3. A \o ss[i] = (A \o ss[i]) \o <<>> /\ A \o tt[i] = (A \o tt[i]) \o <<>>
    BY <1>8, <2>2, ConcatProperties, ConcatEmptySeq
  <2>4. <<>> \in Seq(E) /\ i + 0 = i /\ 0 \in 0..n - i
    <3>1. n \in Nat /\ i \in 1..n
      BY <1>1, <1>4
    <3>2. QED
      BY <3>1, EmptySeq
  <2>5. InThree(f[i], A, ss[i], <<>>) /\ InThree(g[i], A, tt[i], <<>>)
    BY <2>1, <2>3 DEF InThree
  <2> HIDE DEF Others
  <2>6. QED
    BY <1>5, <2>4, <2>5
<1>10. ASSUME NEW k \in 1..n - i, k - 1 \in S PROVE k \in S
  <2>1. PICK B \in Seq(E) : /\ InThree(f[i + (k - 1)], A, ss[i], B)
                            /\ InThree(g[i + (k - 1)], A, tt[i], B) /\ Others(B)
    BY <1>10
  <2>2. PICK q \in 1..n : q = i + k /\ q # i /\ q - 1 = i + (k - 1) /\ k \in 0..n - i
    <3>1. n \in Nat /\ i \in 1..n
      BY <1>1, <1>4
    <3>2. QED
      BY <3>1
  <2>3. PICK s : s = ss[q] /\ s = tt[q] /\ s \in Seq(E)
    BY <1>0, <1>1, <1>4, <2>2
  <2>4. f[q] = f[q - 1] \o s /\ g[q] = g[q - 1] \o s
    BY <1>4, <2>3
  <2>5. ss[i] \in Seq(E) /\ tt[i] \in Seq(E) /\ B \o s \in Seq(E)
    BY <1>4, <2>1, <2>3, ConcatProperties
  <2>6. PICK x, y : x = f[q - 1] /\ y = g[q - 1] /\ InThree(x, A, ss[i], B) /\ InThree(y, A, tt[i], B)
    BY <2>1, <2>2
  <2>7. InThree(x \o s, A, ss[i], B \o s) /\ InThree(y \o s, A, tt[i], B \o s)
    BY <1>8, <2>1, <2>3, <2>5, <2>6, InThreeGrows
  <2> HIDE DEF Others
  <2>8. Others(B \o s)
    BY <1>6, <2>1, <2>2, <2>3
  <2>9. InThree(f[q], A, ss[i], B \o s) /\ InThree(g[q], A, tt[i], B \o s)
    BY <2>4, <2>6, <2>7
  <2>10. Before(q)
    BY <2>5, <2>8, <2>9
  <2>11. QED
    BY <2>2, <2>10
<1>11. Before(n)
  <2> HIDE DEF S
  <2>1. n - i \in Nat
    BY <1>1, <1>4
  <2>2. \A k \in 0..n - i : k \in S
    BY <1>9, <1>10, <2>1, PrefixInduction
  <2>3. n - i \in 0..n - i /\ i + (n - i) = n
    BY <1>1, <1>4
  <2> HIDE DEF Before
  <2>4. QED
    BY <2>2, <2>3 DEF S
<1>12. PICK B \in Seq(E) : InThree(Flat(ss), A, ss[i], B) /\ InThree(Flat(tt), A, tt[i], B) /\ Others(B)
  <2> HIDE DEF Others
  <2>1. QED
    BY <1>2, <1>3, <1>11
<1>13. /\ \A k \in 1..Len(A) : \E j \in 1..Len(ss) : j # i /\ \E l \in 1..Len(ss[j]) : A[k] = ss[j][l]
       /\ \A k \in 1..Len(B) : \E j \in 1..Len(ss) : j # i /\ \E l \in 1..Len(ss[j]) : B[k] = ss[j][l]
  <2>1. Others(A) /\ Others(B)
    BY <1>8, <1>12
  <2>2. QED
    BY <1>1, <2>1
<1>14. A \in Seq(E) /\ B \in Seq(E) /\ InThree(Flat(ss), A, ss[i], B) /\ InThree(Flat(tt), A, tt[i], B)
  BY <1>8, <1>12
<1>15. Around(ss, tt, i, A, B)
  BY <1>13, <1>14 DEF Around, OfOthers
<1>16. QED
  BY <1>14, <1>15

(* h numbers the elements of T from 1 to k: there are k. *)
LEMMA Numbered ==
  ASSUME NEW k \in Nat, NEW T, NEW h, \A i \in 1..k : h[i] \in T,
         \A t \in T : \E i \in 1..k : h[i] = t, \A i, j \in 1..k : h[i] = h[j] => i = j
  PROVE  IsFiniteSet(T) /\ Cardinality(T) = k
<1> DEFINE g == [i \in 1..k |-> h[i]]
           back == [t \in T |-> CHOOSE i \in 1..k : h[i] = t]
<1>1. IsFiniteSet(1..k) /\ Cardinality(1..k) = k
  <2>1. IsFiniteSet(1..k) /\ Cardinality(1..k) = IF 1 > k THEN 0 ELSE k - 1 + 1
    BY FS_Interval
  <2>2. QED
    BY <2>1
<1>2. g \in Surjection(1..k, T)
  BY DEF Surjection
<1>3. back \in Surjection(T, 1..k)
  <2>1. \A t \in T : back[t] \in 1..k /\ h[back[t]] = t
    OBVIOUS
  <2>2. back \in [T -> 1..k]
    OBVIOUS
  <2> HIDE DEF back
  <2>3. \A i \in 1..k : back[h[i]] = i
    BY <2>1
  <2>4. QED
    BY <2>2, <2>3 DEF Surjection
<1> HIDE DEF g, back
<1>4. IsFiniteSet(T) /\ Cardinality(T) <= Cardinality(1..k)
  BY <1>1, <1>2, FS_Surjection
<1>5. Cardinality(1..k) <= Cardinality(T)
  BY <1>3, <1>4, FS_Surjection
<1>6. Cardinality(T) \in Nat
  BY <1>4, FS_CardinalityType
<1>7. QED
  BY <1>1, <1>4, <1>5, <1>6

(* The k-th element kept is at the place up to which k places are kept. *)
LEMMA PicksCount ==
  ASSUME NEW h, NEW r, NEW s, NEW I, NEW n \in Nat, Picks(h, r, s, I, n), Len(r) \in Nat
  PROVE  /\ \A k \in 1..Len(r) : Cardinality({q \in 1..h[k] : q \in I}) = k
         /\ Cardinality({q \in 1..n : q \in I}) = Len(r)
<1>1. PICK m : m = Len(r) /\ m \in Nat
  OBVIOUS
<1>2. /\ h \in [1..m -> 1..n]
      /\ \A k \in 1..m : h[k] \in I
      /\ \A k, l \in 1..m : k < l => h[k] < h[l]
      /\ \A i \in 1..n : i \in I => \E k \in 1..m : h[k] = i
  BY <1>1 DEF Picks
<1>3. \A k \in 1..m : h[k] \in 1..n /\ h[k] \in Int
  BY <1>2
<1>4. \A k, l \in 1..m : h[k] = h[l] => k = l
  <2>1. \A k, l \in 1..m : k < l \/ l < k \/ k = l
    BY <1>1
  <2>2. QED
    BY <1>2, <1>3, <2>1
<1>5. \A k, l \in 1..m : h[k] <= h[l] => k <= l
  <2>1. \A k, l \in 1..m : k <= l \/ l < k
    BY <1>1
  <2>2. QED
    BY <1>2, <1>3, <2>1
<1>6. ASSUME NEW k \in 1..m PROVE Cardinality({q \in 1..h[k] : q \in I}) = k
  <2> DEFINE T == {q \in 1..h[k] : q \in I}
  <2>1. ASSUME NEW i \in 1..k PROVE i \in 1..m /\ h[i] \in T
    <3>1. i \in 1..m /\ (i < k \/ i = k)
      BY <1>1
    <3>2. h[i] <= h[k] /\ h[i] \in 1..n /\ h[i] \in I
      BY <1>2, <1>3, <3>1
    <3>3. h[i] \in 1..h[k]
      BY <1>3, <3>2
    <3>4. QED
      BY <3>1, <3>2, <3>3
  <2>2. ASSUME NEW t \in T PROVE \E i \in 1..k : h[i] = t
    <3>1. t \in 1..n /\ t \in I /\ t <= h[k]
      BY <1>3
    <3>2. PICK i \in 1..m : h[i] = t
      BY <1>2, <3>1
    <3>3. i \in 1..k
      BY <1>1, <1>5, <3>1, <3>2
    <3>4. QED
      BY <3>2, <3>3
  <2>3. \A i, j \in 1..k : h[i] = h[j] => i = j
    BY <1>4, <2>1
  <2>4. k \in Nat
    BY <1>1
  <2> HIDE DEF T
  <2>5. Cardinality(T) = k
    BY <2>1, <2>2, <2>3, <2>4, Numbered
  <2>6. QED
    BY <2>5 DEF T
<1>7. Cardinality({q \in 1..n : q \in I}) = m
  <2> DEFINE T == {q \in 1..n : q \in I}
  <2>1. \A i \in 1..m : h[i] \in T
    BY <1>2, <1>3
  <2>2. \A t \in T : \E i \in 1..m : h[i] = t
    BY <1>2
  <2> HIDE DEF T
  <2>3. Cardinality(T) = m
    BY <1>1, <1>4, <2>1, <2>2, Numbered
  <2>4. QED
    BY <2>3 DEF T
<1>8. QED
  BY <1>1, <1>6, <1>7
=============================================================================
