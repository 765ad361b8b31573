------------------------- MODULE InterpreterProofs -------------------------
(***************************************************************************)
(* What the interpreter runs, however long the session: the files that are *)
(* loaded and no others, and no command ends it.                           *)
(***************************************************************************)
EXTENDS Interpreter, Prefixes

(***************************************************************************)
(* Lists of which a part is kept                                           *)
(***************************************************************************)

Occurs(s, e) == \E i \in 1..Len(s) : s[i] = e

(* The elements of S occur at most once each. *)
Distinct(s, S) == \A i, j \in 1..Len(s) : s[i] \in S /\ s[i] = s[j] => i = j

LEMMA PlacesFinite ==
  ASSUME NEW E, NEW s \in Seq(E), NEW e
  PROVE  /\ IsFiniteSet(Places(s, {e})) /\ Count(s, e) \in Nat
         /\ Count(s, e) = 0 <=> ~Occurs(s, e)
<1>1. IsFiniteSet(1..Len(s))
  BY LenProperties, FS_Interval
<1>2. Places(s, {e}) \subseteq 1..Len(s)
  BY DEF Places
<1>3. IsFiniteSet(Places(s, {e}))
  BY <1>1, <1>2, FS_Subset
<1>4. Places(s, {e}) = {} <=> ~Occurs(s, e)
  BY DEF Places, Occurs
<1>5. QED
  BY <1>3, <1>4, FS_CardinalityType, FS_EmptySet DEF Count

(* What is kept of a list: the elements at the places, no element twice that was
   there once, and each element as often as before if all its places are kept. *)
LEMMA KeepAtHas ==
  ASSUME NEW E, NEW s \in Seq(E), NEW I, NEW r, r = KeepAt(s, I)
  PROVE  /\ r \in Seq(E)
         /\ \A e : Occurs(r, e) <=> \E i \in 1..Len(s) : i \in I /\ s[i] = e
         /\ \A S : Distinct(s, S) => Distinct(r, S)
         /\ \A e : (\A i \in 1..Len(s) : s[i] = e => i \in I) => Count(r, e) = Count(s, e)
<1>1. r \in Seq(E) /\ Len(r) \in Nat /\ Len(s) \in Nat
  BY KeepAtIs, LenProperties
<1>2. PICK h : Picks(h, r, s, I, Len(s))
  BY KeepAtIs
<1>3. /\ h \in [1..Len(r) -> 1..Len(s)]
      /\ \A k \in 1..Len(r) : h[k] \in I /\ r[k] = s[h[k]]
      /\ \A k, l \in 1..Len(r) : k < l => h[k] < h[l]
      /\ \A i \in 1..Len(s) : i \in I => \E k \in 1..Len(r) : h[k] = i
  BY <1>2 DEF Picks
<1>4. \A k, l \in 1..Len(r) : h[k] = h[l] => k = l
  <2>1. \A k, l \in 1..Len(r) : k < l \/ l < k \/ k = l
    BY <1>1
  <2>2. \A k \in 1..Len(r) : h[k] \in Int
    BY <1>3
  <2>3. QED
    BY <1>3, <2>1, <2>2
<1>5. ASSUME NEW e PROVE Occurs(r, e) <=> \E i \in 1..Len(s) : i \in I /\ s[i] = e
  <2>1. ASSUME NEW k \in 1..Len(r), r[k] = e PROVE \E i \in 1..Len(s) : i \in I /\ s[i] = e
    <3>1. h[k] \in 1..Len(s) /\ h[k] \in I /\ s[h[k]] = e
      BY <1>3, <2>1
    <3>2. QED
      BY <3>1
  <2>2. ASSUME NEW i \in 1..Len(s), i \in I, s[i] = e PROVE \E k \in 1..Len(r) : r[k] = e
    BY <1>3, <2>2
  <2>3. QED
    BY <2>1, <2>2 DEF Occurs
<1>6. ASSUME NEW S, Distinct(s, S) PROVE Distinct(r, S)
  <2>1. ASSUME NEW k \in 1..Len(r), NEW l \in 1..Len(r), r[k] \in S, r[k] = r[l] PROVE k = l
    <3>1. h[k] \in 1..Len(s) /\ h[l] \in 1..Len(s) /\ s[h[k]] \in S /\ s[h[k]] = s[h[l]]
      BY <1>3, <2>1
    <3>2. h[k] = h[l]
      BY <1>6, <3>1 DEF Distinct
    <3>3. QED
      BY <1>4, <3>2
  <2>2. QED
    BY <2>1 DEF Distinct
<1>7. ASSUME NEW e, \A i \in 1..Len(s) : s[i] = e => i \in I PROVE Count(r, e) = Count(s, e)
  <2> DEFINE A == Places(r, {e})
             B == Places(s, {e})
             g == [k \in A |-> h[k]]
             back == [i \in B |-> CHOOSE k \in A : h[k] = i]
  <2>1. \A k \in A : k \in 1..Len(r) /\ h[k] \in B
    BY <1>3 DEF Places
  <2>2. \A i \in B : \E k \in A : h[k] = i
    BY <1>3, <1>7 DEF Places
  <2>3. IsFiniteSet(A)
    BY <1>1, PlacesFinite
  <2> HIDE DEF A, B
  <2>4. g \in Surjection(A, B)
    BY <2>1, <2>2 DEF Surjection
  <2>5. back \in Surjection(B, A)
    <3>1. \A i \in B : back[i] \in A /\ h[back[i]] = i
      BY <2>2
    <3>2. back \in [B -> A]
      BY <2>2
    <3> HIDE DEF back
    <3>3. \A k \in A : back[h[k]] = k
      BY <1>4, <2>1, <3>1
    <3>4. QED
      BY <2>1, <3>2, <3>3 DEF Surjection
  <2> HIDE DEF g, back
  <2>6. Cardinality(A) = Cardinality(B)
    <3>1. IsFiniteSet(B) /\ Cardinality(B) <= Cardinality(A)
      BY <2>3, <2>4, FS_Surjection
    <3>2. Cardinality(A) <= Cardinality(B)
      BY <2>5, <3>1, FS_Surjection
    <3>3. Cardinality(A) \in Nat /\ Cardinality(B) \in Nat
      BY <2>3, <3>1, FS_CardinalityType
    <3>4. QED
      BY <3>1, <3>2, <3>3
  <2>7. QED
    BY <2>6 DEF Count, A, B
<1>8. QED
  BY <1>1, <1>5, <1>6, <1>7

(* Of a list, the elements in S, and the others. *)
LEMMA KeepSome ==
  ASSUME NEW E, NEW s \in Seq(E), NEW S, NEW r, r = KeepAt(s, Places(s, S))
  PROVE  /\ r \in Seq(E)
         /\ \A e : Occurs(r, e) <=> e \in S /\ Occurs(s, e)
         /\ \A T : Distinct(s, T) => Distinct(r, T)
         /\ \A e \in S : Count(r, e) = Count(s, e)
<1>1. /\ r \in Seq(E)
      /\ \A e : Occurs(r, e) <=> \E i \in 1..Len(s) : i \in Places(s, S) /\ s[i] = e
      /\ \A T : Distinct(s, T) => Distinct(r, T)
      /\ \A e : (\A i \in 1..Len(s) : s[i] = e => i \in Places(s, S)) => Count(r, e) = Count(s, e)
  BY KeepAtHas
<1>2. \A i \in 1..Len(s) : i \in Places(s, S) <=> s[i] \in S
  BY DEF Places
<1>3. QED
  BY <1>1, <1>2 DEF Occurs

LEMMA KeepOthers ==
  ASSUME NEW E, NEW s \in Seq(E), NEW S, NEW r, r = Without(s, S)
  PROVE  /\ r \in Seq(E)
         /\ \A e : Occurs(r, e) <=> e \notin S /\ Occurs(s, e)
         /\ \A T : Distinct(s, T) => Distinct(r, T)
         /\ \A e : e \notin S => Count(r, e) = Count(s, e)
<1> DEFINE I == 1..Len(s) \ Places(s, S)
<1>1. /\ r \in Seq(E)
      /\ \A e : Occurs(r, e) <=> \E i \in 1..Len(s) : i \in I /\ s[i] = e
      /\ \A T : Distinct(s, T) => Distinct(r, T)
      /\ \A e : (\A i \in 1..Len(s) : s[i] = e => i \in I) => Count(r, e) = Count(s, e)
  BY KeepAtHas DEF Without
<1>2. \A i \in 1..Len(s) : i \in I <=> s[i] \notin S
  BY DEF Places
<1> HIDE DEF I
<1>3. \A e : (\E i \in 1..Len(s) : i \in I /\ s[i] = e) <=> e \notin S /\ Occurs(s, e)
  BY <1>2 DEF Occurs
<1>4. \A e : e \notin S => \A i \in 1..Len(s) : s[i] = e => i \in I
  BY <1>2
<1>5. QED
  BY <1>1, <1>3, <1>4

(* A list without the first occurrence of e. *)
LEMMA RemoveOneHas ==
  ASSUME NEW E, NEW s \in Seq(E), NEW e, NEW r, r = RemoveOne(s, e)
  PROVE  /\ r \in Seq(E)
         /\ \A f : Occurs(r, f) => Occurs(s, f)
         /\ \A f : f # e /\ Occurs(s, f) => Occurs(r, f)
         /\ \A T : Distinct(s, T) => Distinct(r, T)
         /\ \A T : Distinct(s, T) /\ e \in T => ~Occurs(r, e)
<1> DEFINE I == {i \in 1..Len(s) : s[i] = e => \E j \in 1..i - 1 : s[j] = e}
<1>1. /\ r \in Seq(E)
      /\ \A f : Occurs(r, f) <=> \E i \in 1..Len(s) : i \in I /\ s[i] = f
      /\ \A T : Distinct(s, T) => Distinct(r, T)
  BY KeepAtHas DEF RemoveOne
<1>2. ASSUME NEW T, Distinct(s, T), e \in T, NEW i \in 1..Len(s), i \in I, s[i] = e PROVE FALSE
  <2>1. PICK j \in 1..i - 1 : s[j] = e
    BY <1>2
  <2>2. j \in 1..Len(s) /\ j # i
    BY LenProperties
  <2>3. QED
    BY <1>2, <2>1, <2>2 DEF Distinct
<1>3. \A i \in 1..Len(s) : s[i] # e => i \in I
  OBVIOUS
<1> HIDE DEF I
<1>4. QED
  BY <1>1, <1>2, <1>3 DEF Occurs

(***************************************************************************)
(* The command line                                                        *)
(***************************************************************************)

Arguments == Files \cup {"jcut", "-p", "db", "--", "-flag"}

(* The program's name is first and nowhere else, something follows that is no
   file, and flags of the compiler are behind -- . *)
LineWhole(argv) ==
  /\ argv[1] = "jcut" /\ Len(argv) >= 2 /\ \A i \in 2..Len(argv) : argv[i] # "jcut"
  /\ \E i \in 2..Len(argv) : argv[i] \in {"--", "-p"}
  /\ \A i \in 1..Len(argv) : argv[i] = "-flag" => \E j \in 1..i - 1 : argv[j] = "--"

(* -p has its value, which is nowhere else, and nothing but flags is behind -- . *)
InPlace(argv) ==
  /\ \A i \in 1..Len(argv) : argv[i] = "-p" => i + 1 <= Len(argv) /\ argv[i + 1] = "db"
  /\ \A i \in 1..Len(argv) : argv[i] = "db" => i > 1 /\ argv[i - 1] = "-p"
  /\ \A i \in 1..Len(argv) : argv[i] = "--" => \A j \in i + 1..Len(argv) : argv[j] = "-flag"

LEMMA FilesAreFiles ==
  \A f \in Files : f \notin {"jcut", "-p", "db", "--", "-flag"}
BY InterpreterAssumption

(* The sources found on the command line are files, or the value of -p when a
   file was put in its place. *)
LEMMA PositionalsAre ==
  ASSUME NEW argv \in Seq(Arguments), LineWhole(argv)
  PROVE  /\ Positionals(argv) \subseteq Files \cup {"db"}
         /\ IsFiniteSet(Positionals(argv))
         /\ \A f \in Positionals(argv) : Occurs(argv, f)
<1> DEFINE T == {j \in OwnArgs(argv) : j > 1 /\ argv[j] # "-p" /\ argv[j - 1] # "-p"}
           g == [j \in T |-> argv[j]]
<1>1. Len(argv) \in Nat /\ \A j \in 1..Len(argv) : argv[j] \in Arguments
  BY LenProperties, ElementOfSeq
<1>2. \A j \in T : j \in 1..Len(argv) /\ argv[j] # "--" /\ (\A k \in 1..j - 1 : argv[k] # "--") /\ j > 1
  BY <1>1 DEF OwnArgs
<1>3. Positionals(argv) = {argv[j] : j \in T}
  BY DEF Positionals
<1>4. \A j \in T : argv[j] # "-p"
  OBVIOUS
<1> HIDE DEF T
<1>5. ASSUME NEW j \in T PROVE argv[j] \in Files \cup {"db"}
  <2>1. argv[j] # "jcut"
    BY <1>1, <1>2 DEF LineWhole
  <2>2. argv[j] # "-flag"
    BY <1>2 DEF LineWhole
  <2>3. QED
    BY <1>1, <1>2, <1>4, <2>1, <2>2 DEF Arguments
<1>6. IsFiniteSet(T)
  <2>1. IsFiniteSet(1..Len(argv))
    BY <1>1, FS_Interval
  <2>2. T \subseteq 1..Len(argv)
    BY <1>2
  <2>3. QED
    BY <2>1, <2>2, FS_Subset
<1>7. g \in Surjection(T, Positionals(argv))
  BY <1>3 DEF Surjection
<1> HIDE DEF g
<1>8. IsFiniteSet(Positionals(argv))
  BY <1>6, <1>7, FS_Surjection
<1>9. QED
  BY <1>2, <1>3, <1>5, <1>8 DEF Occurs

(* With everything in its place, they are the files. *)
LEMMA FilesAreFound ==
  ASSUME NEW argv \in Seq(Arguments), LineWhole(argv), InPlace(argv)
  PROVE  /\ Positionals(argv) \subseteq Files
         /\ \A f \in Files : f \in Positionals(argv) <=> Occurs(argv, f)
<1>1. Len(argv) \in Nat /\ \A j \in 1..Len(argv) : argv[j] \in Arguments
  BY LenProperties, ElementOfSeq
<1>2. "db" \notin Positionals(argv)
  <2>1. ASSUME NEW j \in OwnArgs(argv), j > 1, argv[j - 1] # "-p", argv[j] = "db" PROVE FALSE
    <3>1. j \in 1..Len(argv)
      BY DEF OwnArgs
    <3>2. QED
      BY <2>1, <3>1 DEF InPlace
  <2>2. QED
    BY <2>1 DEF Positionals
<1>3. Positionals(argv) \subseteq Files
  BY <1>2, PositionalsAre
<1>4. ASSUME NEW i \in 1..Len(argv), argv[i] \in Files PROVE argv[i] \in Positionals(argv)
  <2>1. i > 1 /\ argv[i] \notin {"jcut", "-p", "db", "--", "-flag"} /\ i - 1 \in 1..Len(argv)
    <3>1. argv[i] \notin {"jcut", "-p", "db", "--", "-flag"}
      BY <1>4, FilesAreFiles
    <3>2. i # 1
      BY <3>1 DEF LineWhole
    <3>3. QED
      BY <1>1, <3>1, <3>2
  <2>2. argv[i - 1] # "-p"
    <3>1. argv[i - 1] = "-p" => argv[i - 1 + 1] = "db"
      BY <2>1 DEF InPlace
    <3>2. i - 1 + 1 = i
      BY <1>1
    <3>3. QED
      BY <2>1, <3>1, <3>2
  <2>3. \A j \in 1..i : argv[j] # "--"
    <3>1. ASSUME NEW j \in 1..i, argv[j] = "--" PROVE FALSE
      <4>1. j # i
        BY <2>1, <3>1
      <4>2. j \in 1..Len(argv) /\ i \in j + 1..Len(argv)
        BY <1>1, <4>1
      <4>3. argv[i] = "-flag"
        BY <3>1, <4>2 DEF InPlace
      <4>4. QED
        BY <2>1, <4>3
    <3>2. QED
      BY <3>1
  <2>4. i \in OwnArgs(argv)
    BY <2>3 DEF OwnArgs
  <2>5. QED
    BY <2>1, <2>2, <2>4 DEF Positionals
<1>5. QED
  BY <1>3, <1>4, PositionalsAre DEF Occurs

(* The command line of addFileToArgv. *)
LEMMA InsertedIs ==
  ASSUME NEW E, NEW s \in Seq(E), Len(s) >= 2, NEW f \in E,
         NEW r, r = SubSeq(s, 1, Len(s) - 1) \o <<f, s[Len(s)]>>
  PROVE  LET n == Len(s)
         IN  /\ r \in Seq(E) /\ Len(r) = n + 1 /\ n \in Nat
             /\ \A i \in 1..n - 1 : r[i] = s[i]
             /\ r[n] = f /\ r[n + 1] = s[n]
<1>1. PICK n : n = Len(s) /\ n \in Nat /\ n >= 2
  BY LenProperties
<1> DEFINE m == n - 1
<1>2. m \in Nat \ {0} /\ n = m + 1 /\ (\A i \in 1..m : i \in 1..n) /\ n \in 1..n
  BY <1>1
<1> HIDE DEF m
<1>3. s[n] \in E /\ \A i \in 1..m : s[i] \in E
  BY <1>1, <1>2, ElementOfSeq
<1>4. PICK a : a = SubSeq(s, 1, m) /\ a \in Seq(E) /\ Len(a) = m /\ \A i \in 1..m : a[i] = s[i]
  <2>1. /\ SubSeq(s, 1, m) \in Seq(E)
        /\ Len(SubSeq(s, 1, m)) = (IF 1 <= m THEN m - 1 + 1 ELSE 0)
        /\ \A i \in 1..m - 1 + 1 : SubSeq(s, 1, m)[i] = s[1 + i - 1]
    BY <1>2, <1>3, SubSeqProperties
  <2>2. Len(SubSeq(s, 1, m)) = m /\ m - 1 + 1 = m /\ \A i \in 1..m : 1 + i - 1 = i
    BY <1>2, <2>1
  <2>3. QED
    BY <2>1, <2>2
<1>5. PICK e, b : e = s[n] /\ e \in E /\ b = <<f, e>>
  BY <1>3
<1>6. b \in Seq(E) /\ Len(b) = 2 /\ b[1] = f /\ b[2] = e
  BY <1>5
<1>7. /\ a \o b \in Seq(E) /\ Len(a \o b) = m + 2
      /\ \A i \in 1..m + 2 : (a \o b)[i] = IF i <= m THEN a[i] ELSE b[i - m]
  <2>1. /\ a \o b \in Seq(E) /\ Len(a \o b) = Len(a) + Len(b)
        /\ \A i \in 1..Len(a) + Len(b) : (a \o b)[i] = IF i <= Len(a) THEN a[i] ELSE b[i - Len(a)]
    <3>1. a \in Seq(E) /\ b \in Seq(E)
      BY <1>4, <1>6
    <3>2. QED
      BY <3>1, ConcatProperties, Zenon
  <2>2. QED
    BY <1>4, <1>6, <2>1
<1>8. r = a \o b
  BY <1>1, <1>2, <1>4, <1>5
<1>9. \A i \in 1..m : r[i] = s[i]
  <2>1. \A i \in 1..m : i \in 1..m + 2 /\ i <= m
    BY <1>2
  <2>2. QED
    BY <1>4, <1>7, <1>8, <2>1
<1>10. r[n] = f
  <2>1. n \in 1..m + 2 /\ ~(n <= m) /\ n - m = 1
    BY <1>2
  <2>2. QED
    BY <1>6, <1>7, <1>8, <2>1
<1>11. r[n + 1] = s[n]
  <2>1. n + 1 \in 1..m + 2 /\ ~(n + 1 <= m) /\ n + 1 - m = 2
    BY <1>2
  <2>2. PICK k \in 1..m + 2 : k = n + 1
    BY <2>1
  <2>3. r[k] = b[k - m]
    BY <1>7, <1>8, <2>1, <2>2
  <2>4. k - m = 2
    BY <1>2, <2>2
  <2>5. r[k] = s[n]
    BY <1>5, <1>6, <2>3, <2>4
  <2>6. QED
    BY <2>2, <2>5
<1>12. n - 1 = m /\ m + 2 = n + 1
  BY <1>2
<1>13. QED
  BY <1>1, <1>7, <1>8, <1>9, <1>10, <1>11, <1>12

(* Loading a file leaves everything on the command line as it was, if it goes
   before something else than a flag or the value of -p. *)
LEMMA InsertKeepsLine ==
  ASSUME NEW s \in Seq(Arguments), LineWhole(s), NEW f \in Files,
         NEW r, r = SubSeq(s, 1, Len(s) - 1) \o <<f, s[Len(s)]>>
  PROVE  /\ r \in Seq(Arguments) /\ LineWhole(r)
         /\ s[Len(s)] \notin {"-flag", "db"} /\ InPlace(s) => InPlace(r)
         /\ \A e : Occurs(r, e) <=> e = f \/ Occurs(s, e)
         /\ \A S : Distinct(s, S) /\ ~Occurs(s, f) => Distinct(r, S)
<1>1. PICK n : n = Len(s) /\ n \in Nat /\ n >= 2
  BY LenProperties DEF LineWhole
<1>2. f \in Arguments /\ f \notin {"jcut", "-p", "db", "--", "-flag"}
  BY FilesAreFiles DEF Arguments
<1>3. /\ r \in Seq(Arguments) /\ Len(r) = n + 1
      /\ \A i \in 1..n - 1 : r[i] = s[i]
      /\ r[n] = f /\ r[n + 1] = s[n]
  BY <1>1, <1>2, InsertedIs
<1>4. \A i \in 1..n + 1 : i \in 1..n - 1 \/ i = n \/ i = n + 1
  BY <1>1
<1>5. \A i \in 1..n : i \in 1..n - 1 \/ i = n
  BY <1>1
<1>6. \A i \in 1..n - 1 : i \in 1..n /\ i \in 1..n + 1
  BY <1>1
<1>7. n \in 1..n + 1 /\ n + 1 \in 1..n + 1 /\ n \in 1..n /\ 1 \in 1..n - 1
  BY <1>1
<1>8. LineWhole(r)
  <2>1. r[1] = "jcut" /\ Len(r) >= 2
    BY <1>1, <1>3, <1>7 DEF LineWhole
  <2>2. ASSUME NEW i \in 2..Len(r) PROVE r[i] # "jcut"
    <3>1. CASE i \in 1..n - 1
      <4>1. i \in 2..Len(s)
        BY <1>1, <2>2, <3>1
      <4>2. QED
        BY <1>3, <3>1, <4>1 DEF LineWhole
    <3>2. CASE i = n
      BY <1>2, <1>3, <3>2
    <3>3. CASE i = n + 1
      BY <1>1, <1>3, <3>3 DEF LineWhole
    <3>4. QED
      BY <1>1, <1>3, <3>1, <3>2, <3>3
  <2>3. \E i \in 2..Len(r) : r[i] \in {"--", "-p"}
    <3>1. PICK i \in 2..Len(s) : s[i] \in {"--", "-p"}
      BY DEF LineWhole
    <3>2. CASE i \in 1..n - 1
      <4>1. i \in 2..Len(r)
        BY <1>1, <1>3, <3>1, <3>2
      <4>2. QED
        BY <1>3, <3>1, <3>2, <4>1
    <3>3. CASE i = n
      <4>1. n + 1 \in 2..Len(r)
        BY <1>1, <1>3
      <4>2. QED
        BY <1>3, <3>1, <3>3, <4>1
    <3>4. i \in 1..n - 1 \/ i = n
      <4>1. i \in 1..n
        BY <1>1
      <4>2. QED
        BY <1>5, <4>1
    <3>5. QED
      BY <3>2, <3>3, <3>4
  <2>4. ASSUME NEW i \in 1..Len(r), r[i] = "-flag" PROVE \E j \in 1..i - 1 : r[j] = "--"
    <3>1. CASE i \in 1..n - 1
      <4>1. PICK j \in 1..i - 1 : s[j] = "--"
        BY <1>1, <1>3, <1>6, <2>4, <3>1 DEF LineWhole
      <4>2. j \in 1..n - 1
        BY <1>1, <3>1
      <4>3. QED
        BY <1>3, <4>1, <4>2
    <3>2. CASE i = n
      BY <1>2, <1>3, <2>4, <3>2
    <3>3. CASE i = n + 1
      <4>1. PICK j \in 1..n - 1 : s[j] = "--"
        BY <1>1, <1>3, <1>7, <2>4, <3>3 DEF LineWhole
      <4>2. j \in 1..i - 1
        BY <1>1, <3>3
      <4>3. QED
        BY <1>3, <4>1, <4>2
    <3>4. QED
      BY <1>3, <1>4, <3>1, <3>2, <3>3
  <2>5. QED
    BY <2>1, <2>2, <2>3, <2>4 DEF LineWhole
<1>9. ASSUME s[n] \notin {"-flag", "db"}, InPlace(s) PROVE InPlace(r)
  <2>1. ASSUME NEW i \in 1..Len(r), r[i] = "-p" PROVE i + 1 <= Len(r) /\ r[i + 1] = "db"
    <3>1. i # n
      BY <1>2, <1>3, <2>1
    <3>2. i # n + 1
      <4>1. s[n] = "-p" => n + 1 <= n
        BY <1>1, <1>7, <1>9 DEF InPlace
      <4>2. QED
        BY <1>1, <1>3, <2>1, <4>1
    <3>3. i \in 1..n - 1
      BY <1>3, <1>4, <3>1, <3>2
    <3>4. s[i + 1] = "db"
      BY <1>1, <1>3, <1>6, <1>9, <2>1, <3>3 DEF InPlace
    <3>5. i + 1 # n
      BY <1>9, <3>4
    <3>6. i + 1 \in 1..n - 1
      BY <1>1, <3>3, <3>5
    <3>7. QED
      BY <1>1, <1>3, <3>4, <3>6
  <2>2. ASSUME NEW i \in 1..Len(r), r[i] = "db" PROVE i > 1 /\ r[i - 1] = "-p"
    <3>1. i \in 1..n - 1
      BY <1>2, <1>3, <1>4, <1>9, <2>2
    <3>2. i > 1 /\ s[i - 1] = "-p"
      BY <1>1, <1>3, <1>6, <1>9, <2>2, <3>1 DEF InPlace
    <3>3. i - 1 \in 1..n - 1
      BY <1>1, <3>1, <3>2
    <3>4. QED
      BY <1>3, <3>2, <3>3
  <2>3. ASSUME NEW i \in 1..Len(r), r[i] = "--", NEW j \in i + 1..Len(r) PROVE r[j] = "-flag"
    <3>1. CASE i \in 1..n - 1
      <4>1. i \in 1..Len(s) /\ s[i] = "--" /\ n \in i + 1..Len(s)
        BY <1>1, <1>3, <2>3, <3>1
      <4>2. s[n] = "-flag"
        BY <1>9, <4>1 DEF InPlace
      <4>3. QED
        BY <1>9, <4>2
    <3>2. CASE i = n
      BY <1>2, <1>3, <2>3, <3>2
    <3>3. CASE i = n + 1
      BY <1>1, <1>3, <2>3, <3>3
    <3>4. QED
      BY <1>3, <1>4, <3>1, <3>2, <3>3
  <2>4. QED
    BY <2>1, <2>2, <2>3 DEF InPlace
<1>10. ASSUME NEW e PROVE Occurs(r, e) <=> e = f \/ Occurs(s, e)
  <2>1. \A i \in 1..n + 1 : r[i] = e => e = f \/ \E k \in 1..n : s[k] = e
    BY <1>3, <1>4, <1>6, <1>7
  <2>2. \A i \in 1..n : s[i] = e => \E k \in 1..n + 1 : r[k] = e
    BY <1>3, <1>5, <1>6, <1>7
  <2>3. e = f => \E k \in 1..n + 1 : r[k] = e
    BY <1>3, <1>7
  <2>4. QED
    BY <1>1, <1>3, <2>1, <2>2, <2>3 DEF Occurs
<1>11. ASSUME NEW S, Distinct(s, S), ~Occurs(s, f) PROVE Distinct(r, S)
  <2>1. \A i, j \in 1..n : s[i] \in S /\ s[i] = s[j] => i = j
    BY <1>1, <1>11 DEF Distinct
  <2>2. \A i \in 1..n : s[i] # f
    BY <1>1, <1>11 DEF Occurs
  <2>3. ASSUME NEW i \in 1..n + 1, NEW j \in 1..n + 1, r[i] \in S, r[i] = r[j] PROVE i = j
    <3>1. CASE i = n
      BY <1>3, <1>4, <1>6, <1>7, <2>2, <2>3, <3>1
    <3>2. CASE j = n
      BY <1>3, <1>4, <1>6, <1>7, <2>2, <2>3, <3>2
    <3>3. CASE i # n /\ j # n
      <4> DEFINE at(k) == IF k = n + 1 THEN n ELSE k
      <4>1. \A k \in 1..n + 1 : k # n => at(k) \in 1..n /\ r[k] = s[at(k)]
        BY <1>3, <1>4, <1>6, <1>7
      <4>2. at(i) = at(j)
        <5> HIDE DEF at
        <5>1. QED
          BY <2>1, <2>3, <3>3, <4>1
      <4>3. QED
        BY <1>1, <3>3, <4>2
    <3>4. QED
      BY <3>1, <3>2, <3>3
  <2>4. QED
    BY <1>3, <2>3 DEF Distinct
<1>12. QED
  BY <1>1, <1>3, <1>8, <1>9, <1>10, <1>11

(* Unloading files takes nothing else from the command line and leaves the rest
   in its order. *)
LEMMA WithoutKeepsLine ==
  ASSUME NEW s \in Seq(Arguments), LineWhole(s), NEW S \in SUBSET Files,
         NEW r, r = Without(s, S)
  PROVE  LineWhole(r) /\ (InPlace(s) => InPlace(r))
<1>1. PICK n, m : n = Len(s) /\ n \in Nat /\ m = Len(r) /\ m \in Nat
  <2>1. r \in Seq(Arguments)
    BY KeepOthers
  <2>2. QED
    BY <2>1, LenProperties
<1>2. PICK h : Picks(h, r, s, 1..Len(s) \ Places(s, S), Len(s))
  BY KeepAtIs DEF Without
<1>3. /\ h \in [1..m -> 1..n]
      /\ \A k \in 1..m : r[k] = s[h[k]]
      /\ \A k, l \in 1..m : k < l => h[k] < h[l]
      /\ \A i \in 1..n : s[i] \notin S => \E k \in 1..m : h[k] = i
  BY <1>1, <1>2 DEF Picks, Places
<1>4. \A e \in {"jcut", "-p", "db", "--", "-flag"} : e \notin S
  BY FilesAreFiles
<1>5. ASSUME NEW k \in 1..m, NEW l \in 1..m, h[k] < h[l] PROVE k < l
  <2>1. k < l \/ k = l \/ l < k
    BY <1>1
  <2>2. h[k] \in Int /\ h[l] \in Int
    BY <1>3
  <2>3. QED
    BY <1>3, <1>5, <2>1, <2>2
<1>6. ASSUME NEW k \in 1..m, NEW l \in 1..m, h[l] = h[k] + 1 PROVE l = k + 1
  <2>1. h[k] \in Int /\ h[k] < h[l]
    BY <1>3, <1>6
  <2>2. k < l
    BY <1>5, <2>1
  <2>3. ASSUME k + 1 < l PROVE FALSE
    <3>1. PICK q \in 1..m : q = k + 1
      BY <1>1, <2>3
    <3>2. k < q /\ q < l
      BY <1>1, <2>3, <3>1
    <3>3. h[k] < h[q] /\ h[q] < h[l] /\ h[q] \in Int
      BY <1>3, <3>2
    <3>4. QED
      BY <1>6, <2>1, <3>3
  <2>4. QED
    BY <1>1, <2>2, <2>3
<1>7. 1 \in 1..m /\ h[1] = 1 /\ n >= 2
  <2>1. n >= 2 /\ 1 \in 1..n /\ s[1] = "jcut"
    BY <1>1 DEF LineWhole
  <2>2. PICK k \in 1..m : h[k] = 1
    BY <1>3, <1>4, <2>1
  <2>3. 1 \in 1..m
    BY <1>1
  <2>4. k = 1
    <3>1. k # 1 => 1 < k
      BY <1>1
    <3>2. 1 < k => h[1] < h[k]
      BY <1>3, <2>3
    <3>3. h[1] \in 1..n
      BY <1>3, <2>3
    <3>4. QED
      BY <2>2, <3>1, <3>2, <3>3
  <2>5. QED
    BY <2>1, <2>2, <2>3, <2>4
<1>8. LineWhole(r)
  <2>1. r[1] = "jcut"
    BY <1>3, <1>7 DEF LineWhole
  <2>2. ASSUME NEW k \in 2..m PROVE r[k] # "jcut"
    <3>1. k \in 1..m /\ 1 < k
      BY <1>1
    <3>2. h[1] < h[k] /\ h[k] \in 1..n
      BY <1>3, <1>7, <3>1
    <3>3. h[k] \in 2..n
      BY <1>1, <1>7, <3>2
    <3>4. QED
      BY <1>1, <1>3, <3>1, <3>3 DEF LineWhole
  <2>3. \E k \in 2..m : r[k] \in {"--", "-p"}
    <3>1. PICK i \in 2..n : s[i] \in {"--", "-p"}
      BY <1>1 DEF LineWhole
    <3>2. i \in 1..n /\ s[i] \notin S
      BY <1>1, <1>4, <3>1
    <3>3. PICK k \in 1..m : h[k] = i
      BY <1>3, <3>2
    <3>4. k # 1
      BY <1>7, <3>1, <3>3
    <3>5. k \in 2..m
      BY <1>1, <3>4
    <3>6. QED
      BY <1>3, <3>1, <3>3, <3>5
  <2>4. m >= 2
    BY <1>1, <2>3
  <2>5. ASSUME NEW k \in 1..m, r[k] = "-flag" PROVE \E l \in 1..k - 1 : r[l] = "--"
    <3>1. h[k] \in 1..n /\ s[h[k]] = "-flag"
      BY <1>3, <2>5
    <3>2. PICK j \in 1..h[k] - 1 : s[j] = "--"
      BY <1>1, <3>1 DEF LineWhole
    <3>3. j \in 1..n /\ j < h[k] /\ s[j] \notin S
      BY <1>1, <1>4, <3>1, <3>2
    <3>4. PICK l \in 1..m : h[l] = j
      BY <1>3, <3>3
    <3>5. l < k
      BY <1>5, <3>3, <3>4
    <3>6. l \in 1..k - 1
      BY <1>1, <3>5
    <3>7. QED
      BY <1>3, <3>2, <3>4, <3>6
  <2>6. QED
    BY <1>1, <2>1, <2>2, <2>3, <2>4, <2>5 DEF LineWhole
<1>9. ASSUME InPlace(s) PROVE InPlace(r)
  <2>1. ASSUME NEW k \in 1..m, r[k] = "-p" PROVE k + 1 <= m /\ r[k + 1] = "db"
    <3>1. PICK i \in 1..n : i = h[k] /\ s[i] = "-p"
      BY <1>3, <2>1
    <3>2. i + 1 \in 1..n /\ s[i + 1] = "db"
      BY <1>1, <1>9, <3>1 DEF InPlace
    <3>3. s[i + 1] \notin S
      BY <1>4, <3>2
    <3>4. PICK l \in 1..m : h[l] = i + 1
      BY <1>3, <3>2, <3>3
    <3>5. l = k + 1
      BY <1>6, <3>1, <3>4
    <3>6. QED
      BY <1>1, <1>3, <3>2, <3>4, <3>5
  <2>2. ASSUME NEW k \in 1..m, r[k] = "db" PROVE k > 1 /\ r[k - 1] = "-p"
    <3>1. PICK i \in 1..n : i = h[k] /\ s[i] = "db"
      BY <1>3, <2>2
    <3>2. i > 1 /\ s[i - 1] = "-p"
      BY <1>1, <1>9, <3>1 DEF InPlace
    <3>3. PICK j \in 1..n : j = i - 1 /\ s[j] = "-p" /\ i = j + 1
      BY <1>1, <3>2
    <3>4. s[j] \notin S
      BY <1>4, <3>3
    <3>5. PICK l \in 1..m : h[l] = j
      BY <1>3, <3>4
    <3>6. k = l + 1
      BY <1>6, <3>1, <3>3, <3>5
    <3>7. k - 1 = l /\ k > 1
      BY <1>1, <3>6
    <3>8. QED
      BY <1>3, <3>3, <3>5, <3>7
  <2>3. ASSUME NEW k \in 1..m, r[k] = "--", NEW l \in k + 1..m PROVE r[l] = "-flag"
    <3>1. l \in 1..m /\ k < l
      BY <1>1
    <3>2. PICK i \in 1..n, j \in 1..n : i = h[k] /\ j = h[l] /\ i < j /\ s[i] = "--"
      BY <1>3, <2>3, <3>1
    <3>3. j \in i + 1..n
      BY <1>1, <3>2
    <3>4. s[j] = "-flag"
      BY <1>1, <1>9, <3>2, <3>3 DEF InPlace
    <3>5. QED
      BY <1>3, <3>1, <3>2, <3>4
  <2>4. QED
    BY <1>1, <2>1, <2>2, <2>3 DEF InPlace
<1>10. QED
  BY <1>8, <1>9

(***************************************************************************)
(* How often a file is listed                                              *)
(***************************************************************************)

(* An element of which every place in s has a place of its own in r is in r at
   least as often, and once more if r has another place for it. *)
LEMMA CountEmbeds ==
  ASSUME NEW E, NEW s \in Seq(E), NEW r \in Seq(E), NEW e, NEW h,
         \A i \in Places(s, {e}) : h[i] \in Places(r, {e}),
         \A i, j \in Places(s, {e}) : h[i] = h[j] => i = j
  PROVE  /\ Count(s, e) <= Count(r, e)
         /\ \A p \in Places(r, {e}) :
              (\A i \in Places(s, {e}) : h[i] # p) => Count(s, e) + 1 <= Count(r, e)
<1>1. PICK A, B : A = Places(s, {e}) /\ B = Places(r, {e}) /\ IsFiniteSet(A) /\ IsFiniteSet(B)
  BY PlacesFinite
<1> DEFINE Img == {h[i] : i \in A}
           back == [k \in Img |-> CHOOSE i \in A : h[i] = k]
<1>2. Img \in SUBSET B
  BY <1>1
<1>3. \A i \in A : h[i] \in Img
  OBVIOUS
<1>4. \A k \in Img : back[k] \in A /\ h[back[k]] = k
  OBVIOUS
<1>5. back = [k \in Img |-> back[k]]
  OBVIOUS
<1> HIDE DEF back
<1>6. back \in [Img -> A]
  BY <1>4, <1>5
<1>7. \A i \in A : back[h[i]] = i
  BY <1>1, <1>3, <1>4
<1> HIDE DEF Img
<1>8. back \in Surjection(Img, A)
  BY <1>3, <1>6, <1>7 DEF Surjection
<1>9. IsFiniteSet(Img) /\ Cardinality(Img) <= Cardinality(B)
  BY <1>1, <1>2, FS_Subset
<1>10. Cardinality(A) <= Cardinality(Img)
  BY <1>8, <1>9, FS_Surjection
<1>11. Cardinality(A) \in Nat /\ Cardinality(Img) \in Nat /\ Cardinality(B) \in Nat
  BY <1>1, <1>9, FS_CardinalityType
<1>12. ASSUME NEW p \in B, p \notin Img PROVE Cardinality(A) + 1 <= Cardinality(B)
  <2>1. IsFiniteSet(Img \cup {p}) /\ Cardinality(Img \cup {p}) = Cardinality(Img) + 1
    BY <1>9, <1>12, FS_AddElement
  <2>2. Img \cup {p} \in SUBSET B
    BY <1>2, <1>12
  <2>3. Cardinality(Img \cup {p}) <= Cardinality(B)
    BY <1>1, <2>2, FS_Subset
  <2>4. QED
    BY <1>10, <1>11, <2>1, <2>3
<1>13. \A p : (\A i \in A : h[i] # p) => p \notin Img
  BY DEF Img
<1>14. Count(s, e) = Cardinality(A) /\ Count(r, e) = Cardinality(B)
  BY <1>1 DEF Count
<1>15. Cardinality(A) <= Cardinality(B)
  BY <1>9, <1>10, <1>11
<1>16. \A p \in B : (\A i \in A : h[i] # p) => Cardinality(A) + 1 <= Cardinality(B)
  BY <1>12, <1>13
<1>17. QED
  BY <1>1, <1>14, <1>15, <1>16

LEMMA InsertCounts ==
  ASSUME NEW E, NEW s \in Seq(E), Len(s) >= 2, NEW f \in E,
         NEW r, r = SubSeq(s, 1, Len(s) - 1) \o <<f, s[Len(s)]>>
  PROVE  /\ \A e : Count(s, e) <= Count(r, e)
         /\ Count(s, f) + 1 <= Count(r, f)
<1>1. PICK n : n = Len(s) /\ n \in Nat /\ n >= 2
  BY LenProperties
<1>2. /\ r \in Seq(E) /\ Len(r) = n + 1
      /\ \A i \in 1..n - 1 : r[i] = s[i]
      /\ r[n] = f /\ r[n + 1] = s[n]
  BY <1>1, InsertedIs
<1> DEFINE h == [i \in 1..n |-> IF i = n THEN n + 1 ELSE i]
<1>3. \A i \in 1..n : h[i] \in 1..n + 1 /\ h[i] # n
  BY <1>1
<1>4. \A i, j \in 1..n : h[i] = h[j] => i = j
  BY <1>1
<1>5. \A i \in 1..n : r[h[i]] = s[i]
  <2>1. \A i \in 1..n : i = n \/ i \in 1..n - 1
    BY <1>1
  <2>2. QED
    BY <1>2, <2>1
<1> HIDE DEF h
<1>6. ASSUME NEW e
      PROVE  /\ Count(s, e) <= Count(r, e)
             /\ \A p \in Places(r, {e}) :
                  (\A i \in Places(s, {e}) : h[i] # p) => Count(s, e) + 1 <= Count(r, e)
  <2>1. \A i \in Places(s, {e}) : h[i] \in Places(r, {e})
    BY <1>1, <1>2, <1>3, <1>5 DEF Places
  <2>2. \A i, j \in Places(s, {e}) : h[i] = h[j] => i = j
    BY <1>1, <1>4 DEF Places
  <2>3. s \in Seq(E) /\ r \in Seq(E)
    BY <1>2
  <2> HIDE DEF h
  <2>4. QED
    BY <2>1, <2>2, <2>3, CountEmbeds, Zenon
<1>7. n \in Places(r, {f}) /\ \A i \in Places(s, {f}) : h[i] # n
  BY <1>1, <1>2, <1>3 DEF Places
<1>8. QED
  BY <1>6, <1>7

LEMMA AppendCounts ==
  ASSUME NEW E, NEW s \in Seq(E), NEW f \in E
  PROVE  /\ Append(s, f) \in Seq(E)
         /\ \A e : e # f => Count(Append(s, f), e) = Count(s, e)
         /\ Count(Append(s, f), f) = Count(s, f) + 1
<1> DEFINE q == Append(s, f)
<1>1. PICK n : n = Len(s) /\ n \in Nat
  BY LenProperties
<1>2. q \in Seq(E) /\ Len(q) = n + 1 /\ (\A i \in 1..n : q[i] = s[i]) /\ q[n + 1] = f
  BY <1>1, AppendProperties
<1> HIDE DEF q
<1>3. \A i \in 1..n + 1 : i \in 1..n \/ i = n + 1
  BY <1>1
<1>4. (\A i \in 1..n : i \in 1..n + 1) /\ n + 1 \in 1..n + 1 /\ n + 1 \notin 1..n
  BY <1>1
<1>5. ASSUME NEW e, e # f PROVE Count(q, e) = Count(s, e)
  <2>1. Places(q, {e}) = Places(s, {e})
    BY <1>1, <1>2, <1>3, <1>4, <1>5 DEF Places
  <2>2. QED
    BY <2>1 DEF Count
<1>6. Count(q, f) = Count(s, f) + 1
  <2>1. Places(q, {f}) = Places(s, {f}) \cup {n + 1}
    BY <1>1, <1>2, <1>3, <1>4 DEF Places
  <2>2. n + 1 \notin Places(s, {f})
    BY <1>1, <1>4 DEF Places
  <2>3. IsFiniteSet(Places(s, {f}))
    BY PlacesFinite
  <2>4. QED
    BY <2>1, <2>2, <2>3, FS_AddElement DEF Count
<1>7. QED
  BY <1>2, <1>5, <1>6 DEF q

(* What is distinct is there once. *)
LEMMA DistinctCount ==
  ASSUME NEW E, NEW s \in Seq(E), NEW e, Distinct(s, {e})
  PROVE  Count(s, e) <= 1
<1>1. Count(s, e) \in Nat /\ (~Occurs(s, e) => Count(s, e) = 0)
  BY PlacesFinite
<1>2. CASE Occurs(s, e)
  <2>1. PICK i \in 1..Len(s) : s[i] = e
    BY <1>2 DEF Occurs
  <2>2. Places(s, {e}) = {i}
    BY <2>1 DEF Places, Distinct
  <2>3. Cardinality({i}) = 1
    BY FS_Singleton
  <2>4. Count(s, e) = 1
    BY <2>2, <2>3, Zenon DEF Count
  <2>5. QED
    BY <2>4
<1>3. QED
  BY <1>1, <1>2

(***************************************************************************)
(* The sources of a run                                                    *)
(***************************************************************************)

(* The list made of a set has no element twice. *)
LEMMA SeqOfLists ==
  ASSUME NEW S, IsFiniteSet(S), NEW q, q = SeqOf(S)
  PROVE  /\ q \in Seq(S) /\ (\A e : Occurs(q, e) => e \in S)
         /\ \A T : Distinct(q, T)
<1>1. PICK n : n = Cardinality(S) /\ n \in Nat
  BY FS_CardinalityType
<1>2. PICK g : g \in Surjection(1..n, S)
  BY <1>1, FS_CardinalityType DEF ExistsBijection, Bijection
<1>3. g \in [1..n -> S] /\ \A e \in S : \E i \in 1..n : g[i] = e
  BY <1>2 DEF Surjection
<1>4. ASSUME NEW i \in 1..n, NEW j \in 1..n, g[i] = g[j], i # j PROVE FALSE
  <2> DEFINE D == 1..n \ {j}
             k == [l \in D |-> g[l]]
  <2>1. IsFiniteSet(D) /\ Cardinality(D) = n - 1
    <3>1. IsFiniteSet(1..n) /\ Cardinality(1..n) = n
      BY <1>1, FS_Interval
    <3>2. QED
      BY <3>1, FS_RemoveElement
  <2>2. \A e \in S : \E l \in D : g[l] = e
    BY <1>3, <1>4
  <2>3. k \in Surjection(D, S)
    BY <1>3, <2>2 DEF Surjection
  <2> HIDE DEF D, k
  <2>4. Cardinality(S) <= n - 1
    BY <2>1, <2>3, FS_Surjection
  <2>5. QED
    BY <1>1, <2>4
<1>5. \E s \in [1..n -> S] : \A i, j \in 1..n : s[i] = s[j] => i = j
  BY <1>3, <1>4
<1>6. q = CHOOSE s \in [1..n -> S] : \A i, j \in 1..n : s[i] = s[j] => i = j
  BY <1>1 DEF SeqOf
<1>7. q \in [1..n -> S] /\ \A i, j \in 1..n : q[i] = q[j] => i = j
  BY <1>5, <1>6
<1>8. q \in Seq(S) /\ Len(q) = n
  BY <1>1, <1>7
<1>9. QED
  BY <1>7, <1>8 DEF Occurs, Distinct

(* One place in q and at least one in s. *)
LEMMA ListedOnce ==
  ASSUME NEW E, NEW s \in Seq(E), NEW F, NEW q \in Seq(F), NEW e,
         Distinct(q, {e}), Occurs(q, e) => Occurs(s, e)
  PROVE  Count(q, e) <= Count(s, e)
<1>1. Count(q, e) \in Nat /\ Count(q, e) <= 1 /\ (~Occurs(q, e) => Count(q, e) = 0)
  BY PlacesFinite, DistinctCount
<1>2. Count(s, e) \in Nat /\ (Occurs(s, e) => Count(s, e) # 0)
  BY PlacesFinite
<1>3. QED
  BY <1>1, <1>2

(* One list behind the other. *)
LEMMA ConcatHas ==
  ASSUME NEW E, NEW s \in Seq(E), NEW q \in Seq(E)
  PROVE  /\ s \o q \in Seq(E)
         /\ \A e : Occurs(s \o q, e) <=> Occurs(s, e) \/ Occurs(q, e)
         /\ \A S : /\ Distinct(s, S) /\ Distinct(q, S)
                   /\ \A e \in S : ~(Occurs(s, e) /\ Occurs(q, e))
                   => Distinct(s \o q, S)
<1> DEFINE r == s \o q
<1>1. PICK n, m : n = Len(s) /\ n \in Nat /\ m = Len(q) /\ m \in Nat
  BY LenProperties
<1>2. /\ r \in Seq(E) /\ Len(r) = n + m
      /\ \A i \in 1..n + m : r[i] = IF i <= n THEN s[i] ELSE q[i - n]
  BY <1>1, ConcatProperties
<1> HIDE DEF r
<1>3. \A i \in 1..n + m : IF i <= n THEN i \in 1..n ELSE i - n \in 1..m
  BY <1>1
<1>4. \A i \in 1..n : i \in 1..n + m /\ r[i] = s[i]
  <2>1. \A i \in 1..n : i \in 1..n + m /\ i <= n
    BY <1>1
  <2>2. QED
    BY <1>2, <2>1
<1>5. \A i \in 1..m : n + i \in 1..n + m /\ r[n + i] = q[i]
  <2>1. SUFFICES ASSUME NEW i \in 1..m PROVE n + i \in 1..n + m /\ r[n + i] = q[i]
    OBVIOUS
  <2>2. PICK k \in 1..n + m : k = n + i
    BY <1>1
  <2>3. ~(k <= n) /\ k - n = i
    BY <1>1, <2>2
  <2>4. r[k] = q[i]
    BY <1>2, <2>3
  <2>5. QED
    BY <2>2, <2>4
<1>6. ASSUME NEW e PROVE Occurs(r, e) <=> Occurs(s, e) \/ Occurs(q, e)
  <2>1. Occurs(r, e) => Occurs(s, e) \/ Occurs(q, e)
    BY <1>1, <1>2, <1>3 DEF Occurs
  <2>2. Occurs(s, e) => Occurs(r, e)
    BY <1>1, <1>2, <1>4 DEF Occurs
  <2>3. Occurs(q, e) => Occurs(r, e)
    BY <1>1, <1>2, <1>5 DEF Occurs
  <2>4. QED
    BY <2>1, <2>2, <2>3
<1>7. ASSUME NEW S, Distinct(s, S), Distinct(q, S), \A e \in S : ~(Occurs(s, e) /\ Occurs(q, e))
      PROVE  Distinct(r, S)
  <2>1. \A i, j \in 1..n : s[i] \in S /\ s[i] = s[j] => i = j
    BY <1>1, <1>7 DEF Distinct
  <2>2. \A i, j \in 1..m : q[i] \in S /\ q[i] = q[j] => i = j
    BY <1>1, <1>7 DEF Distinct
  <2>3. \A i \in 1..n, j \in 1..m : s[i] \in S => s[i] # q[j]
    BY <1>1, <1>7 DEF Occurs
  <2>4. ASSUME NEW i \in 1..n + m, NEW j \in 1..n + m, r[i] \in S, r[i] = r[j] PROVE i = j
    <3>1. CASE i <= n /\ j <= n
      BY <1>2, <1>3, <2>1, <2>4, <3>1
    <3>2. CASE i <= n /\ ~(j <= n)
      <4>1. i \in 1..n /\ j - n \in 1..m /\ s[i] \in S /\ s[i] = q[j - n]
        BY <1>2, <1>3, <2>4, <3>2
      <4>2. QED
        BY <2>3, <4>1
    <3>3. CASE ~(i <= n) /\ j <= n
      <4>1. j \in 1..n /\ i - n \in 1..m /\ s[j] \in S /\ s[j] = q[i - n]
        BY <1>2, <1>3, <2>4, <3>3
      <4>2. QED
        BY <2>3, <4>1
    <3>4. CASE ~(i <= n) /\ ~(j <= n)
      <4>1. i - n = j - n
        BY <1>2, <1>3, <2>2, <2>4, <3>4
      <4>2. QED
        BY <1>1, <4>1
    <3>5. QED
      BY <3>1, <3>2, <3>3, <3>4
  <2>5. QED
    BY <1>2, <2>4 DEF Distinct
<1>8. QED
  BY <1>2, <1>6, <1>7 DEF r

LEMMA Narrowed ==
  ASSUME NEW E, NEW s \in Seq(E), NEW S, \A e : Occurs(s, e) => e \in S
  PROVE  s \in Seq(S)
<1>1. PICK n : n = Len(s) /\ n \in Nat /\ s \in [1..n -> E]
  BY LenProperties
<1>2. \A i \in 1..n : s[i] \in S
  BY <1>1 DEF Occurs
<1>3. s \in [1..n -> S]
  BY <1>1, <1>2
<1>4. QED
  BY <1>1, <1>3

(***************************************************************************)
(* The inductive invariant                                                 *)
(***************************************************************************)

LinePart == LineWhole(mArgv) /\ (~misplaced => InPlace(mArgv))

(* What is loaded is what the command line lists. *)
LoadedPart == \A f \in Files : f \in loaded <=> Occurs(mArgv, f)

(* What the parser remembers is loaded or has been put on the list of unloaded
   files. *)
ParsedPart ==
  /\ IsFiniteSet(parsed)
  /\ \A f \in parsed \cap Files : f \in loaded \/ Occurs(unloadedFiles, f)
  /\ ~misplaced => parsed \subseteq Files /\ mLoadedFiles \in Seq(Files)

OncePart ==
  ~again => /\ Distinct(mArgv, Files) /\ Distinct(unloadedFiles, Files)
            /\ \A f \in loaded : ~Occurs(unloadedFiles, f)

(* The interpreter's list never has more of a file than the command line. *)
CountPart == \A f \in Files : Count(mLoadedFiles, f) <= Count(mArgv, f)

OptionsPart == buildPathGiven => mOptionsParsed

IInv == /\ TypeOK /\ LinePart /\ LoadedPart /\ ParsedPart /\ OncePart /\ CountPart
        /\ OptionsPart /\ SessionSurvives /\ NothingLeftOver

(* The command lines that jcut starts with. *)
LEMMA FirstLines ==
  ASSUME NEW argv \in NoFiles \cup UNION {WithFile(f) : f \in Files}
  PROVE  /\ argv \in Seq(Arguments) /\ LineWhole(argv) /\ InPlace(argv) /\ Distinct(argv, Files)
         /\ argv \in NoFiles => \A f \in Files : ~Occurs(argv, f)
<1>1. \A f \in Files : f \notin {"jcut", "-p", "db", "--", "-flag"}
  BY FilesAreFiles
<1>2. CASE argv = <<"jcut", "--">>
  <2>1. Len(argv) = 2 /\ argv[1] = "jcut" /\ argv[2] = "--" /\ argv \in Seq(Arguments)
    BY <1>2 DEF Arguments
  <2>2. \A i \in 1..2 : i = 1 \/ i = 2
    OBVIOUS
  <2>3. LineWhole(argv) /\ InPlace(argv)
    BY <2>1, <2>2 DEF LineWhole, InPlace
  <2>4. \A f \in Files : ~Occurs(argv, f)
    BY <1>1, <2>1, <2>2 DEF Occurs
  <2>5. QED
    BY <2>1, <2>3, <2>4 DEF Distinct, Occurs
<1>3. CASE argv = <<"jcut", "-p", "db">>
  <2>1. /\ Len(argv) = 3 /\ argv[1] = "jcut" /\ argv[2] = "-p" /\ argv[3] = "db"
        /\ argv \in Seq(Arguments)
    BY <1>3 DEF Arguments
  <2>2. \A i \in 1..3 : i = 1 \/ i = 2 \/ i = 3
    OBVIOUS
  <2>3. LineWhole(argv) /\ InPlace(argv)
    BY <2>1, <2>2 DEF LineWhole, InPlace
  <2>4. \A f \in Files : ~Occurs(argv, f)
    BY <1>1, <2>1, <2>2 DEF Occurs
  <2>5. QED
    BY <2>1, <2>3, <2>4 DEF Distinct, Occurs
<1>4. ASSUME NEW f \in Files, argv \in WithFile(f)
      PROVE  /\ argv \in Seq(Arguments) /\ LineWhole(argv) /\ InPlace(argv)
             /\ Distinct(argv, Files) /\ Occurs(argv, f)
  <2>1. CASE argv = <<"jcut", f, "--">>
    <3>1. /\ Len(argv) = 3 /\ argv[1] = "jcut" /\ argv[2] = f /\ argv[3] = "--"
          /\ argv \in Seq(Arguments)
      BY <2>1 DEF Arguments
    <3>2. \A i \in 1..3 : i = 1 \/ i = 2 \/ i = 3
      OBVIOUS
    <3>3. LineWhole(argv) /\ InPlace(argv)
      BY <1>1, <3>1, <3>2 DEF LineWhole, InPlace
    <3>4. QED
      BY <1>1, <3>1, <3>2, <3>3 DEF Distinct, Occurs
  <2>2. CASE argv = <<"jcut", f, "--", "-flag">>
    <3>1. /\ Len(argv) = 4 /\ argv[1] = "jcut" /\ argv[2] = f /\ argv[3] = "--"
          /\ argv[4] = "-flag" /\ argv \in Seq(Arguments)
      BY <2>2 DEF Arguments
    <3>2. \A i \in 1..4 : i = 1 \/ i = 2 \/ i = 3 \/ i = 4
      OBVIOUS
    <3>3. LineWhole(argv) /\ InPlace(argv)
      BY <1>1, <3>1, <3>2 DEF LineWhole, InPlace
    <3>4. QED
      BY <1>1, <3>1, <3>2, <3>3 DEF Distinct, Occurs
  <2>3. CASE argv = <<"jcut", "-p", "db", f>>
    <3>1. /\ Len(argv) = 4 /\ argv[1] = "jcut" /\ argv[2] = "-p" /\ argv[3] = "db"
          /\ argv[4] = f /\ argv \in Seq(Arguments)
      BY <2>3 DEF Arguments
    <3>2. \A i \in 1..4 : i = 1 \/ i = 2 \/ i = 3 \/ i = 4
      OBVIOUS
    <3>3. LineWhole(argv) /\ InPlace(argv)
      BY <1>1, <3>1, <3>2 DEF LineWhole, InPlace
    <3>4. QED
      BY <1>1, <3>1, <3>2, <3>3 DEF Distinct, Occurs
  <2>4. QED
    BY <1>4, <2>1, <2>2, <2>3 DEF WithFile
<1>5. QED
  BY <1>2, <1>3, <1>4 DEF NoFiles

LEMMA InitIInv == Init => IInv
<1> SUFFICES ASSUME Init PROVE IInv
  OBVIOUS
<1>1. /\ mArgv \in Seq(Arguments) /\ LineWhole(mArgv) /\ InPlace(mArgv) /\ Distinct(mArgv, Files)
      /\ mArgv \in NoFiles => \A f \in Files : ~Occurs(mArgv, f)
  BY FirstLines DEF Init
<1>2. /\ Positionals(mArgv) \subseteq Files /\ IsFiniteSet(Positionals(mArgv))
      /\ \A f \in Files : f \in Positionals(mArgv) <=> Occurs(mArgv, f)
  BY <1>1, FilesAreFound, PositionalsAre
<1>3. parsed = Positionals(mArgv)
  BY <1>1, <1>2 DEF Init
<1>4. mLoadedFiles = <<>> \/ \E f \in parsed : mLoadedFiles = <<f>>
  <2>1. parsed # {} => (CHOOSE f \in parsed : TRUE) \in parsed
    OBVIOUS
  <2>2. QED
    BY <2>1 DEF Init
<1>5. /\ mLoadedFiles \in Seq(Files)
      /\ \A f : Distinct(mLoadedFiles, {f}) /\ (Occurs(mLoadedFiles, f) => f \in parsed)
  <2>1. CASE mLoadedFiles = <<>>
    <3>1. Len(mLoadedFiles) = 0 /\ mLoadedFiles \in Seq(Files)
      BY <2>1
    <3>2. QED
      BY <3>1 DEF Distinct, Occurs
  <2>2. CASE \E f \in parsed : mLoadedFiles = <<f>>
    <3>1. PICK f \in parsed : mLoadedFiles = <<f>>
      BY <2>2
    <3>2. f \in Files
      BY <1>2, <1>3
    <3>3. mLoadedFiles \in Seq(Files) /\ Len(mLoadedFiles) = 1 /\ mLoadedFiles[1] = f
      BY <3>1, <3>2
    <3>4. \A i \in 1..Len(mLoadedFiles) : i = 1
      BY <3>3
    <3>5. QED
      BY <3>3, <3>4 DEF Distinct, Occurs
  <2>3. QED
    BY <1>4, <2>1, <2>2
<1>6. unloadedFiles = <<>> /\ Len(unloadedFiles) = 0 /\ unloadedFiles \in Seq(Files)
  BY DEF Init
<1>7. \A f : ~Occurs(unloadedFiles, f)
  BY <1>6 DEF Occurs
<1>8. TypeOK
  <2>1. mArgv \in Seq(Files \cup {"jcut", "-p", "db", "--", "-flag"})
    BY <1>1 DEF Arguments
  <2>2. mLoadedFiles \in Seq(Files \cup {"db"})
    BY <1>5
  <2>3. 0 \in 0..MaxLines
    BY InterpreterAssumption
  <2>4. QED
    BY <1>2, <1>3, <1>6, <2>1, <2>2, <2>3 DEF TypeOK, Init
<1>9. LinePart
  BY <1>1 DEF LinePart
<1>10. LoadedPart
  BY <1>2, <1>3 DEF LoadedPart, Init
<1>11. ParsedPart
  <2>1. IsFiniteSet(parsed) /\ parsed \subseteq Files /\ mLoadedFiles \in Seq(Files)
    BY <1>2, <1>3, <1>5
  <2>2. loaded = parsed
    BY DEF Init
  <2>3. QED
    BY <2>1, <2>2 DEF ParsedPart
<1>12. OncePart
  <2>1. Distinct(unloadedFiles, Files)
    BY <1>6 DEF Distinct
  <2>2. QED
    BY <1>1, <1>7, <2>1 DEF OncePart
<1>13. CountPart
  <2>1. ASSUME NEW f \in Files PROVE Count(mLoadedFiles, f) <= Count(mArgv, f)
    <3>1. Distinct(mLoadedFiles, {f}) /\ (Occurs(mLoadedFiles, f) => Occurs(mArgv, f))
      BY <1>2, <1>3, <1>5
    <3>2. QED
      BY <1>1, <1>5, <3>1, ListedOnce
  <2>2. QED
    BY <2>1 DEF CountPart
<1>14. OptionsPart
  BY DEF OptionsPart, Init
<1>15. SessionSurvives /\ NothingLeftOver
  BY DEF SessionSurvives, NothingLeftOver, Init
<1>16. QED
  BY <1>8, <1>9, <1>10, <1>11, <1>12, <1>13, <1>14, <1>15 DEF IInv

LEMMA LoadKeeps ==
  ASSUME IInv, NEW f \in Files, Load(f)
  PROVE  IInv'
<1>1. TypeOK /\ LinePart /\ LoadedPart /\ ParsedPart /\ OncePart /\ CountPart
  BY DEF IInv
<1>2. mArgv \in Seq(Arguments) /\ LineWhole(mArgv) /\ Len(mArgv) >= 2
  BY <1>1 DEF TypeOK, LinePart, Arguments, LineWhole
<1>3. mArgv' = SubSeq(mArgv, 1, Len(mArgv) - 1) \o <<f, mArgv[Len(mArgv)]>>
  BY DEF Load
<1>4. /\ mArgv' \in Seq(Arguments) /\ LineWhole(mArgv')
      /\ mArgv[Len(mArgv)] \notin {"-flag", "db"} /\ InPlace(mArgv) => InPlace(mArgv')
      /\ \A e : Occurs(mArgv', e) <=> e = f \/ Occurs(mArgv, e)
      /\ \A S : Distinct(mArgv, S) /\ ~Occurs(mArgv, f) => Distinct(mArgv', S)
  <2>1. PICK s, r : /\ s = mArgv /\ r = mArgv' /\ s \in Seq(Arguments) /\ LineWhole(s)
                    /\ r = SubSeq(s, 1, Len(s) - 1) \o <<f, s[Len(s)]>>
    BY <1>2, <1>3
  <2>2. /\ r \in Seq(Arguments) /\ LineWhole(r)
        /\ s[Len(s)] \notin {"-flag", "db"} /\ InPlace(s) => InPlace(r)
        /\ \A e : Occurs(r, e) <=> e = f \/ Occurs(s, e)
        /\ \A S : Distinct(s, S) /\ ~Occurs(s, f) => Distinct(r, S)
    BY <2>1, InsertKeepsLine
  <2>3. QED
    BY <2>1, <2>2
<1>5. (\A e : Count(mArgv, e) <= Count(mArgv', e)) /\ Count(mArgv, f) + 1 <= Count(mArgv', f)
  <2>1. f \in Arguments
    BY DEF Arguments
  <2>2. QED
    BY <1>2, <1>3, <2>1, InsertCounts
<1>6. /\ unloadedFiles' \in Seq(Files)
      /\ \A e : Occurs(unloadedFiles', e) => Occurs(unloadedFiles, e)
      /\ \A e : e # f /\ Occurs(unloadedFiles, e) => Occurs(unloadedFiles', e)
      /\ \A T : Distinct(unloadedFiles, T) => Distinct(unloadedFiles', T)
      /\ \A T : Distinct(unloadedFiles, T) /\ f \in T => ~Occurs(unloadedFiles', f)
  <2>1. unloadedFiles' = RemoveOne(unloadedFiles, f) /\ unloadedFiles \in Seq(Files)
    BY <1>1 DEF Load, NoLongerUnloaded, TypeOK
  <2>2. QED
    BY <2>1, RemoveOneHas
<1>7. mLoadedFiles' = Append(mLoadedFiles, f)
  BY DEF Load
<1>8. ASSUME NEW E, mLoadedFiles \in Seq(E), f \in E
      PROVE  /\ mLoadedFiles' \in Seq(E)
             /\ \A e : e # f => Count(mLoadedFiles', e) = Count(mLoadedFiles, e)
             /\ Count(mLoadedFiles', f) = Count(mLoadedFiles, f) + 1
  BY <1>7, <1>8, AppendCounts
<1>9. /\ loaded' = loaded \cup {f} /\ again' = (again \/ f \in loaded)
      /\ misplaced' = (misplaced \/ mArgv[Len(mArgv)] \in {"-flag", "db"})
      /\ session = "on"
      /\ UNCHANGED <<parsed, mOptionsParsed, buildPathGiven, prompt, mInterpreterInput, session>>
  BY DEF Load, parser, input
<1>10. TypeOK'
  <2>1. mArgv' \in Seq(Files \cup {"jcut", "-p", "db", "--", "-flag"})
    BY <1>4 DEF Arguments
  <2>2. mLoadedFiles' \in Seq(Files \cup {"db"})
    BY <1>1, <1>8 DEF TypeOK
  <2>3. QED
    BY <1>1, <1>6, <1>9, <2>1, <2>2 DEF TypeOK
<1>11. LinePart'
  BY <1>1, <1>4, <1>9 DEF LinePart, TypeOK
<1>12. LoadedPart'
  BY <1>1, <1>4, <1>9 DEF LoadedPart
<1>13. ParsedPart'
  <2>1. ~misplaced' => mLoadedFiles' \in Seq(Files)
    BY <1>1, <1>8, <1>9 DEF ParsedPart, TypeOK
  <2>2. QED
    BY <1>1, <1>6, <1>9, <2>1 DEF ParsedPart, TypeOK
<1>14. OncePart'
  <2>1. SUFFICES ASSUME ~again' PROVE /\ Distinct(mArgv', Files) /\ Distinct(unloadedFiles', Files)
                                      /\ \A g \in loaded' : ~Occurs(unloadedFiles', g)
    BY DEF OncePart
  <2>2. ~again /\ f \notin loaded
    BY <1>1, <1>9, <2>1 DEF TypeOK
  <2>3. ~Occurs(mArgv, f)
    BY <1>1, <2>2 DEF LoadedPart
  <2>4. QED
    BY <1>1, <1>4, <1>6, <1>9, <2>2, <2>3 DEF OncePart
<1>15. CountPart'
  <2>1. ASSUME NEW g \in Files PROVE Count(mLoadedFiles', g) <= Count(mArgv', g)
    <3>1. mLoadedFiles \in Seq(Files \cup {"db"}) /\ f \in Files \cup {"db"}
      BY <1>1 DEF TypeOK
    <3>2. Count(mLoadedFiles, g) <= Count(mArgv, g)
      BY <1>1 DEF CountPart
    <3>3. Count(mLoadedFiles, g) \in Nat /\ Count(mArgv, g) \in Nat /\ Count(mArgv', g) \in Nat
      BY <1>2, <1>4, <3>1, PlacesFinite
    <3>4. CASE g = f
      <4>1. Count(mLoadedFiles', g) = Count(mLoadedFiles, g) + 1 /\ Count(mArgv, g) + 1 <= Count(mArgv', g)
        BY <1>5, <1>8, <3>1, <3>4
      <4>2. QED
        BY <3>2, <3>3, <4>1
    <3>5. CASE g # f
      <4>1. Count(mLoadedFiles', g) = Count(mLoadedFiles, g) /\ Count(mArgv, g) <= Count(mArgv', g)
        BY <1>5, <1>8, <3>1, <3>5
      <4>2. QED
        BY <3>2, <3>3, <4>1
    <3>6. QED
      BY <3>4, <3>5
  <2>2. QED
    BY <2>1 DEF CountPart
<1>16. OptionsPart' /\ SessionSurvives' /\ NothingLeftOver'
  BY <1>9 DEF IInv, OptionsPart, SessionSurvives, NothingLeftOver
<1>17. QED
  BY <1>10, <1>11, <1>12, <1>13, <1>14, <1>15, <1>16 DEF IInv

(* The interpreter's list loses every entry of the files that are unloaded: the
   command line lists each as often, so its arguments take out all of them. *)
LEMMA AllEntriesGo ==
  ASSUME NEW E, NEW F, NEW s \in Seq(E), NEW q \in Seq(F), NEW S, NEW r, r = KeepAt(s, Places(s, S)),
         \A e \in S : Count(q, e) <= Count(s, e)
  PROVE  \A i \in Places(q, S) : Cardinality({j \in 1..i : q[j] = q[i]}) <= Count(r, q[i])
<1> DEFINE same(i) == {j \in 1..i : q[j] = q[i]}
<1>1. ASSUME NEW i \in Places(q, S) PROVE Cardinality(same(i)) <= Count(r, q[i])
  <2>1. PICK e \in S : q[i] = e
    BY DEF Places
  <2>2. same(i) \in SUBSET Places(q, {e})
    <3>1. i \in 1..Len(q) /\ Len(q) \in Nat
      BY LenProperties DEF Places
    <3>2. \A j \in 1..i : j \in 1..Len(q)
      BY <3>1
    <3>3. QED
      BY <2>1, <3>2 DEF Places
  <2> HIDE DEF same
  <2>3. IsFiniteSet(Places(q, {e})) /\ Count(q, e) \in Nat
    BY PlacesFinite
  <2>4. IsFiniteSet(same(i)) /\ Cardinality(same(i)) <= Cardinality(Places(q, {e}))
    BY <2>2, <2>3, FS_Subset
  <2>5. Cardinality(same(i)) \in Nat
    BY <2>4, FS_CardinalityType
  <2>6. Cardinality(same(i)) <= Count(q, e)
    BY <2>4 DEF Count
  <2>7. Count(r, e) = Count(s, e) /\ Count(s, e) \in Nat
    <3>1. \A x \in S : Count(r, x) = Count(s, x)
      BY KeepSome
    <3>2. QED
      BY <3>1, PlacesFinite
  <2>8. Count(q, e) <= Count(s, e)
    OBVIOUS
  <2>9. Cardinality(same(i)) <= Count(r, e)
    BY <2>3, <2>5, <2>6, <2>7, <2>8
  <2>10. QED
    BY <2>1, <2>9
<1>2. QED
  BY <1>1

LEMMA UnloadKeeps ==
  ASSUME IInv, NEW S \in Names, Unload(S)
  PROVE  IInv'
<1>1. TypeOK /\ LinePart /\ LoadedPart /\ ParsedPart /\ OncePart /\ CountPart
  BY DEF IInv
<1>2. /\ mArgv \in Seq(Arguments) /\ LineWhole(mArgv) /\ S \in SUBSET Files
      /\ mLoadedFiles \in Seq(Files \cup {"db"}) /\ unloadedFiles \in Seq(Files)
  BY <1>1, InterpreterAssumption DEF TypeOK, LinePart, Arguments
<1>3. PICK removed : removed = KeepAt(mArgv, Places(mArgv, S))
  OBVIOUS
<1>4. /\ mArgv' = Without(mArgv, S)
      /\ unloadedFiles' = unloadedFiles \o removed
      /\ loaded' = loaded \ S /\ session = "on"
      /\ UNCHANGED <<again, misplaced, parsed, mOptionsParsed, buildPathGiven,
                     prompt, mInterpreterInput, session>>
  BY <1>3 DEF Unload, Recorded, parser, input
<1>5. mLoadedFiles' = Without(mLoadedFiles, S)
  <2> DEFINE same(i) == {j \in 1..i : mLoadedFiles[j] = mLoadedFiles[i]}
             gone == {i \in Places(mLoadedFiles, S) :
                        Cardinality(same(i)) <= Count(removed, mLoadedFiles[i])}
  <2>1. \A e \in S : Count(mLoadedFiles, e) <= Count(mArgv, e)
    BY <1>1, <1>2 DEF CountPart
  <2>2. gone = Places(mLoadedFiles, S)
    <3>1. \A i \in Places(mLoadedFiles, S) :
            Cardinality({j \in 1..i : mLoadedFiles[j] = mLoadedFiles[i]})
              <= Count(removed, mLoadedFiles[i])
      BY <1>2, <1>3, <2>1, AllEntriesGo
    <3>2. QED
      BY <3>1
  <2>3. mLoadedFiles' = KeepAt(mLoadedFiles, 1..Len(mLoadedFiles) \ gone)
    BY <1>3 DEF Unload
  <2> HIDE DEF gone
  <2>4. QED
    BY <2>2, <2>3 DEF Without
<1>6. /\ removed \in Seq(Files)
      /\ \A e : Occurs(removed, e) <=> e \in S /\ Occurs(mArgv, e)
      /\ \A T : Distinct(mArgv, T) => Distinct(removed, T)
  <2>1. /\ removed \in Seq(Arguments)
        /\ \A e : Occurs(removed, e) <=> e \in S /\ Occurs(mArgv, e)
        /\ \A T : Distinct(mArgv, T) => Distinct(removed, T)
    BY <1>2, <1>3, KeepSome
  <2>2. \A e : Occurs(removed, e) => e \in Files
    BY <1>2, <2>1
  <2>3. removed \in Seq(Files)
    BY <2>1, <2>2, Narrowed
  <2>4. QED
    BY <2>1, <2>3
<1>7. /\ unloadedFiles' \in Seq(Files)
      /\ \A e : Occurs(unloadedFiles', e) <=> Occurs(unloadedFiles, e) \/ Occurs(removed, e)
      /\ \A T : /\ Distinct(unloadedFiles, T) /\ Distinct(removed, T)
                /\ \A e \in T : ~(Occurs(unloadedFiles, e) /\ Occurs(removed, e))
                => Distinct(unloadedFiles', T)
  BY <1>2, <1>4, <1>6, ConcatHas
<1>8. /\ mArgv' \in Seq(Arguments)
      /\ \A e : Occurs(mArgv', e) <=> e \notin S /\ Occurs(mArgv, e)
      /\ \A T : Distinct(mArgv, T) => Distinct(mArgv', T)
      /\ \A e : e \notin S => Count(mArgv', e) = Count(mArgv, e)
  BY <1>2, <1>4, KeepOthers
<1>9. LineWhole(mArgv') /\ (InPlace(mArgv) => InPlace(mArgv'))
  BY <1>2, <1>4, WithoutKeepsLine
<1>10. ASSUME NEW E, mLoadedFiles \in Seq(E)
       PROVE  /\ mLoadedFiles' \in Seq(E)
              /\ \A e : Occurs(mLoadedFiles', e) <=> e \notin S /\ Occurs(mLoadedFiles, e)
              /\ \A e : e \notin S => Count(mLoadedFiles', e) = Count(mLoadedFiles, e)
  BY <1>5, <1>10, KeepOthers
<1>11. TypeOK'
  <2>1. mArgv' \in Seq(Files \cup {"jcut", "-p", "db", "--", "-flag"})
    BY <1>8 DEF Arguments
  <2>2. mLoadedFiles' \in Seq(Files \cup {"db"})
    BY <1>2, <1>10
  <2>3. QED
    BY <1>1, <1>4, <1>7, <2>1, <2>2 DEF TypeOK
<1>12. LinePart'
  BY <1>1, <1>4, <1>9 DEF LinePart
<1>13. LoadedPart'
  BY <1>1, <1>4, <1>8 DEF LoadedPart
<1>14. ParsedPart'
  <2>1. ~misplaced' => mLoadedFiles' \in Seq(Files)
    BY <1>1, <1>4, <1>10 DEF ParsedPart
  <2>2. ASSUME NEW f \in parsed \cap Files PROVE f \in loaded' \/ Occurs(unloadedFiles', f)
    <3>1. f \in loaded \/ Occurs(unloadedFiles, f)
      BY <1>1 DEF ParsedPart
    <3>2. f \in loaded /\ f \in S => Occurs(removed, f)
      BY <1>1, <1>6 DEF LoadedPart
    <3>3. QED
      BY <1>4, <1>7, <3>1, <3>2
  <2>3. QED
    BY <1>1, <1>4, <2>1, <2>2 DEF ParsedPart
<1>15. OncePart'
  <2>1. SUFFICES ASSUME ~again' PROVE /\ Distinct(mArgv', Files) /\ Distinct(unloadedFiles', Files)
                                      /\ \A g \in loaded' : ~Occurs(unloadedFiles', g)
    BY DEF OncePart
  <2>2. /\ Distinct(mArgv, Files) /\ Distinct(unloadedFiles, Files)
        /\ \A g \in loaded : ~Occurs(unloadedFiles, g)
    BY <1>1, <1>4, <2>1 DEF OncePart
  <2>3. \A g \in Files : Occurs(removed, g) => g \in loaded
    BY <1>1, <1>6 DEF LoadedPart
  <2>4. Distinct(unloadedFiles', Files)
    BY <1>6, <1>7, <2>2, <2>3
  <2>5. \A g \in loaded' : ~Occurs(unloadedFiles', g)
    BY <1>4, <1>6, <1>7, <2>2
  <2>6. QED
    BY <1>8, <2>2, <2>4, <2>5
<1>16. CountPart'
  <2>1. ASSUME NEW g \in Files PROVE Count(mLoadedFiles', g) <= Count(mArgv', g)
    <3>1. CASE g \in S
      <4>1. Count(mLoadedFiles', g) = 0
        BY <1>2, <1>10, <3>1, PlacesFinite
      <4>2. Count(mArgv', g) \in Nat
        BY <1>8, PlacesFinite
      <4>3. QED
        BY <4>1, <4>2
    <3>2. CASE g \notin S
      BY <1>1, <1>2, <1>8, <1>10, <3>2 DEF CountPart
    <3>3. QED
      BY <3>1, <3>2
  <2>2. QED
    BY <2>1 DEF CountPart
<1>17. OptionsPart' /\ SessionSurvives' /\ NothingLeftOver'
  BY <1>4 DEF IInv, OptionsPart, SessionSurvives, NothingLeftOver
<1>18. QED
  BY <1>11, <1>12, <1>13, <1>14, <1>15, <1>16, <1>17 DEF IInv

(* What a run leaves of the invariant, the line it was started with aside. *)
LEMMA RunKeeps ==
  ASSUME IInv, session = "on", mLoadedFiles # <<>>, RunAction
  PROVE  /\ mLoadedFiles' \in Seq(Files \cup {"db"}) /\ parsed' \subseteq Files \cup {"db"}
         /\ mOptionsParsed' \in BOOLEAN /\ buildPathGiven' \in BOOLEAN
         /\ session' \in {"on", "terminated"} /\ UNCHANGED <<mArgv, unloadedFiles, loaded, again, misplaced>>
         /\ ParsedPart' /\ CountPart' /\ OptionsPart' /\ SessionSurvives'
<1>1. TypeOK /\ LinePart /\ LoadedPart /\ ParsedPart /\ CountPart /\ OptionsPart
  BY DEF IInv
<1>2. mArgv \in Seq(Arguments) /\ LineWhole(mArgv) /\ mLoadedFiles \in Seq(Files \cup {"db"})
  BY <1>1 DEF TypeOK, LinePart, Arguments
<1>3. /\ UNCHANGED <<mArgv, unloadedFiles, loaded, again, misplaced>>
      /\ mOptionsParsed' = TRUE /\ parsed' = parsed \cup Positionals(mArgv)
      /\ buildPathGiven' = (buildPathGiven \/ BuildPathPassed)
  BY DEF RunAction
<1>4. /\ Positionals(mArgv) \subseteq Files \cup {"db"} /\ IsFiniteSet(Positionals(mArgv))
      /\ \A f \in Positionals(mArgv) : Occurs(mArgv, f)
      /\ ~misplaced => /\ Positionals(mArgv) \subseteq Files
                       /\ \A f \in Files : f \in Positionals(mArgv) <=> Occurs(mArgv, f)
  <2>1. ~misplaced => InPlace(mArgv)
    BY <1>1 DEF LinePart
  <2>2. QED
    BY <1>2, <2>1, PositionalsAre, FilesAreFound
<1>5. IsFiniteSet(parsed') /\ parsed' \subseteq Files \cup {"db"}
  <2>1. IsFiniteSet(parsed \cup Positionals(mArgv))
    BY <1>1, <1>4, FS_Union DEF ParsedPart
  <2>2. QED
    BY <1>1, <1>3, <1>4, <2>1 DEF TypeOK
<1>6. \A f \in parsed' \cap Files : f \in loaded \/ Occurs(unloadedFiles, f)
  BY <1>1, <1>3, <1>4 DEF ParsedPart, LoadedPart
<1>7. ~misplaced => parsed' \subseteq Files
  BY <1>1, <1>3, <1>4 DEF ParsedPart
<1>8. ~misplaced => ~ParserFails
  <2>1. SUFFICES ASSUME ~misplaced PROVE ~ParserFails
    OBVIOUS
  <2>2. ~(BuildPathPassed /\ buildPathGiven)
    BY <1>1 DEF OptionsPart, BuildPathPassed
  <2>3. Positionals(mArgv) # {}
    <3>1. mLoadedFiles \in Seq(Files)
      BY <1>1, <2>1 DEF ParsedPart
    <3>2. PICK f \in Files : Occurs(mLoadedFiles, f)
      <4>1. Len(mLoadedFiles) >= 1
        BY <3>1, LenProperties, EmptySeq
      <4>2. 1 \in 1..Len(mLoadedFiles) /\ mLoadedFiles[1] \in Files
        BY <3>1, <4>1
      <4>3. QED
        BY <4>2 DEF Occurs
    <3>3. Count(mLoadedFiles, f) # 0 /\ Count(mLoadedFiles, f) \in Nat
      BY <3>1, <3>2, PlacesFinite
    <3>4. Count(mLoadedFiles, f) <= Count(mArgv, f) /\ Count(mArgv, f) \in Nat
      BY <1>1, <1>2, PlacesFinite DEF CountPart
    <3>5. Count(mArgv, f) # 0
      BY <3>3, <3>4
    <3>6. Occurs(mArgv, f)
      BY <1>2, <3>5, PlacesFinite
    <3>7. QED
      BY <1>4, <2>1, <3>6
  <2>4. QED
    BY <2>2, <2>3 DEF ParserFails
<1>9. PICK found : found = Sources(parsed')
  OBVIOUS
<1>10. found \subseteq parsed' /\ \A f \in found : ~Occurs(unloadedFiles, f)
  BY <1>9 DEF Sources, Occurs
<1>11. IsFiniteSet(found)
  BY <1>5, <1>10, FS_Subset
<1>12. CASE ParserFails
  <2>1. session' = "terminated" /\ mLoadedFiles' = mLoadedFiles /\ misplaced /\ misplaced' = misplaced
    BY <1>3, <1>8, <1>12 DEF RunAction
  <2>2. ParsedPart'
    BY <1>3, <1>5, <1>6, <2>1 DEF ParsedPart
  <2>3. CountPart'
    BY <1>1, <1>3, <2>1 DEF CountPart
  <2>4. SessionSurvives' /\ OptionsPart'
    BY <1>3, <2>1 DEF SessionSurvives, OptionsPart
  <2>5. QED
    BY <1>1, <1>2, <1>3, <1>5, <2>1, <2>2, <2>3, <2>4 DEF BuildPathPassed, TypeOK
<1>13. CASE ~ParserFails
  <2>1. session' = "on" /\ mLoadedFiles' = SeqOf(found)
    BY <1>9, <1>13 DEF RunAction
  <2>2. /\ mLoadedFiles' \in Seq(found) /\ (\A e : Occurs(mLoadedFiles', e) => e \in found)
        /\ \A T : Distinct(mLoadedFiles', T)
    BY <1>11, <2>1, SeqOfLists
  <2>3. mLoadedFiles' \in Seq(Files \cup {"db"}) /\ (~misplaced => mLoadedFiles' \in Seq(Files))
    BY <1>5, <1>7, <1>10, <2>2
  <2>4. ParsedPart'
    BY <1>3, <1>5, <1>6, <1>7, <2>3 DEF ParsedPart
  <2>5. CountPart'
    <3>1. ASSUME NEW f \in Files PROVE Count(mLoadedFiles', f) <= Count(mArgv, f)
      <4>1. Occurs(mLoadedFiles', f) => Occurs(mArgv, f)
        BY <1>1, <1>6, <1>10, <2>2 DEF LoadedPart
      <4>2. Distinct(mLoadedFiles', {f})
        BY <2>2
      <4>3. QED
        BY <1>2, <2>2, <4>1, <4>2, ListedOnce
    <3>2. QED
      BY <1>3, <3>1 DEF CountPart
  <2>6. SessionSurvives' /\ OptionsPart'
    BY <1>3, <2>1 DEF SessionSurvives, OptionsPart
  <2>7. QED
    BY <1>1, <1>3, <1>5, <2>1, <2>3, <2>4, <2>5, <2>6 DEF BuildPathPassed, TypeOK
<1>14. QED
  BY <1>12, <1>13

LEMMA StepKeeps == IInv /\ [Next]_vars => IInv'
<1> SUFFICES ASSUME IInv, [Next]_vars PROVE IInv'
  OBVIOUS
<1> DEFINE Lists == LinePart /\ LoadedPart /\ ParsedPart /\ OncePart /\ CountPart /\ OptionsPart
<1>1. TypeOK /\ Lists /\ SessionSurvives /\ NothingLeftOver
  BY DEF IInv
<1>2. ASSUME UNCHANGED <<files, parser>> PROVE Lists'
  BY <1>1, <1>2
     DEF files, parser, LinePart, LoadedPart, ParsedPart, OncePart, CountPart, OptionsPart
<1>3. ASSUME RunAction, session = "on", mLoadedFiles # <<>>,
             prompt' \in {"input", "more"}, mInterpreterInput' \in 0..MaxLines, NothingLeftOver'
      PROVE  IInv'
  <2>1. /\ mLoadedFiles' \in Seq(Files \cup {"db"}) /\ parsed' \subseteq Files \cup {"db"}
        /\ mOptionsParsed' \in BOOLEAN /\ buildPathGiven' \in BOOLEAN
        /\ session' \in {"on", "terminated"}
        /\ UNCHANGED <<mArgv, unloadedFiles, loaded, again, misplaced>>
        /\ ParsedPart' /\ CountPart' /\ OptionsPart' /\ SessionSurvives'
    BY <1>3, RunKeeps
  <2>2. TypeOK'
    BY <1>1, <1>3, <2>1 DEF TypeOK
  <2>3. LinePart' /\ LoadedPart' /\ OncePart'
    BY <1>1, <2>1 DEF LinePart, LoadedPart, OncePart
  <2>4. QED
    BY <1>3, <2>1, <2>2, <2>3 DEF IInv
<1>4. CASE \E f \in Files : Load(f)
  BY <1>4, LoadKeeps
<1>5. CASE \E S \in Names : Unload(S)
  BY <1>5, UnloadKeeps
<1>6. CASE ListFunctions
  <2>1. UNCHANGED <<prompt, mInterpreterInput>> /\ RunAction /\ session = "on" /\ mLoadedFiles # <<>>
    BY <1>6 DEF ListFunctions, input
  <2>2. prompt' \in {"input", "more"} /\ mInterpreterInput' \in 0..MaxLines /\ NothingLeftOver'
    BY <1>1, <2>1 DEF TypeOK, NothingLeftOver
  <2>3. QED
    BY <1>3, <2>1, <2>2
<1>7. CASE TypeMore
  <2>1. mInterpreterInput' \in 0..MaxLines
    BY <1>1, <1>7, InterpreterAssumption DEF TypeMore, TypeOK
  <2>2. UNCHANGED <<files, parser, session>> /\ prompt' = "more"
    BY <1>7 DEF TypeMore
  <2>3. TypeOK' /\ SessionSurvives' /\ NothingLeftOver'
    BY <1>1, <2>1, <2>2 DEF files, parser, TypeOK, SessionSurvives, NothingLeftOver
  <2>4. QED
    BY <1>2, <2>2, <2>3 DEF IInv
<1>8. CASE RefuseTest
  <2>1. /\ UNCHANGED <<files, parser, session>> /\ prompt' = "input" /\ mInterpreterInput' = 0
        /\ 0 \in 0..MaxLines
    BY <1>8, InterpreterAssumption DEF RefuseTest, Complete, InputAfterRefusal
  <2>2. TypeOK' /\ SessionSurvives' /\ NothingLeftOver'
    BY <1>1, <2>1 DEF files, parser, TypeOK, SessionSurvives, NothingLeftOver
  <2>3. QED
    BY <1>2, <2>1, <2>2 DEF IInv
<1>9. CASE RunTest
  <2>1. /\ RunAction /\ session = "on" /\ mLoadedFiles # <<>>
        /\ prompt' = "input" /\ mInterpreterInput' = 0 /\ 0 \in 0..MaxLines
    BY <1>9, InterpreterAssumption DEF RunTest, Complete
  <2>2. NothingLeftOver'
    BY <2>1 DEF NothingLeftOver
  <2>3. QED
    BY <1>3, <2>1, <2>2
<1>10. CASE Exit
  <2>1. UNCHANGED <<files, parser, input>> /\ session' = "exited"
    BY <1>10 DEF Exit
  <2>2. TypeOK' /\ SessionSurvives' /\ NothingLeftOver'
    BY <1>1, <2>1 DEF files, parser, input, TypeOK, SessionSurvives, NothingLeftOver
  <2>3. QED
    BY <1>2, <2>1, <2>2 DEF IInv
<1>11. CASE UNCHANGED vars
  <2>1. UNCHANGED <<files, parser, input, session>>
    BY <1>11 DEF vars
  <2>2. TypeOK' /\ SessionSurvives' /\ NothingLeftOver'
    BY <1>1, <2>1 DEF files, parser, input, TypeOK, SessionSurvives, NothingLeftOver
  <2>3. QED
    BY <1>2, <2>1, <2>2 DEF IInv
<1>12. QED
  BY <1>4, <1>5, <1>6, <1>7, <1>8, <1>9, <1>10, <1>11 DEF Next

LEMMA Invariance == Spec => []IInv
<1>1. Init => IInv
  BY InitIInv
<1>2. IInv /\ [Next]_vars => IInv'
  BY StepKeeps
<1>3. QED
  BY <1>1, <1>2, PTL DEF Spec

(***************************************************************************)
(* Theorems                                                                *)
(***************************************************************************)

(* The variables keep their types: what addFileToArgv, removeFileFromArgv and
   runAction put on each list is a file. *)
THEOREM TypeCorrect == Spec => []TypeOK
<1>1. IInv => TypeOK
  BY DEF IInv
<1>2. QED
  BY <1>1, Invariance, PTL

(* No run takes a file that is not loaded, although the parser never forgets a
   source (runAction): what it remembers and is not loaded is on the list of
   unloaded files. *)
THEOREM OnlyLoadedFilesRun == Spec => []OnlyLoadedRun
<1>1. IInv => OnlyLoadedRun
  <2>1. SUFFICES ASSUME IInv, ~misplaced, NEW f \in WouldRun PROVE f \in loaded
    BY DEF OnlyLoadedRun
  <2>2. /\ mArgv \in Seq(Arguments) /\ LineWhole(mArgv) /\ InPlace(mArgv)
        /\ LoadedPart /\ ParsedPart
    BY <2>1 DEF IInv, TypeOK, LinePart, Arguments
  <2>3. f \in parsed \cup Positionals(mArgv) /\ ~Occurs(unloadedFiles, f)
    BY <2>1 DEF WouldRun, Sources, Occurs
  <2>4. /\ Positionals(mArgv) \subseteq Files
        /\ \A g \in Files : g \in Positionals(mArgv) <=> Occurs(mArgv, g)
    BY <2>2, FilesAreFound
  <2>5. QED
    BY <2>1, <2>2, <2>3, <2>4 DEF LoadedPart, ParsedPart
<1>2. QED
  BY <1>1, Invariance, PTL

(* A run takes every loaded file, unless one was loaded twice or misplaced, or
   the path of one that the parser has seen starts its own (runAction). *)
THEOREM LoadedFilesRun == Spec => []AllLoadedRun
<1>1. IInv => AllLoadedRun
  <2>1. SUFFICES ASSUME IInv, ~again, ~misplaced, NEW f \in loaded,
                        \A g \in parsed \cup loaded : <<g, f>> \notin PathPrefixes
                 PROVE  f \in WouldRun
    BY DEF AllLoadedRun
  <2>2. /\ mArgv \in Seq(Arguments) /\ LineWhole(mArgv) /\ InPlace(mArgv)
        /\ LoadedPart /\ OncePart /\ loaded \subseteq Files
    BY <2>1 DEF IInv, TypeOK, LinePart, Arguments
  <2>3. /\ Positionals(mArgv) \subseteq Files
        /\ \A g \in Files : g \in Positionals(mArgv) <=> Occurs(mArgv, g)
    BY <2>2, FilesAreFound
  <2>4. f \in Positionals(mArgv) /\ Positionals(mArgv) \subseteq loaded
    BY <2>2, <2>3 DEF LoadedPart
  <2>5. ~Occurs(unloadedFiles, f)
    BY <2>1, <2>2 DEF OncePart
  <2>6. QED
    BY <2>1, <2>4, <2>5 DEF WouldRun, Sources, Occurs
<1>2. QED
  BY <1>1, Invariance, PTL

(* Neither a test nor /ls ends the session: the interpreter's list is not empty
   only if the command line has a source (mainLoop, cloneArgv). *)
THEOREM SessionsSurvive == Spec => []SessionSurvives
<1>1. IInv => SessionSurvives
  BY DEF IInv
<1>2. QED
  BY <1>1, Invariance, PTL

(* A test starts from no lines, whether the one before it was run or refused
   (mainLoop). *)
THEOREM InputIsFresh == Spec => []NothingLeftOver
<1>1. IInv => NothingLeftOver
  BY DEF IInv
<1>2. QED
  BY <1>1, Invariance, PTL
=============================================================================
