------------------------ MODULE GlobalBackupProofs ------------------------
(***************************************************************************)
(* What tests and groups assign is undone, and groups keep their state:    *)
(* for any variables, values, nesting and number of statements.            *)
(***************************************************************************)
EXTENDS GlobalBackup, Prefixes

Memory == [Globals -> Values]

(***************************************************************************)
(* Statements                                                              *)
(***************************************************************************)

LEMMA StatementFields ==
  ASSUME NEW s \in Seq(Statement), NEW i \in 1..Len(s)
  PROVE  /\ s[i].op \in {"assign", "call"} /\ s[i].var \in Globals /\ s[i].val \in Values
         /\ Len(s) \in Nat
<1>1. s[i] \in Statement
  BY ElementOfSeq
<1>2. QED
  BY <1>1, LenProperties DEF Statement

(* What the first n statements leave in a variable: what was there, or what the
   last of them that is about it gives. *)
LEMMA AfterIs ==
  ASSUME NEW m \in Memory, NEW s \in Seq(Statement), NEW n \in 0..Len(s)
  PROVE  /\ After(m, s, n) \in Memory
         /\ \A v \in Globals :
              /\ (\A j \in 1..n : s[j].var # v) => After(m, s, n)[v] = m[v]
              /\ \A i \in 1..n : s[i].var = v /\ (\A j \in 1..n : s[j].var = v => j <= i) =>
                   After(m, s, n)[v] = s[i].val
<1>1. Len(s) \in Nat /\ n \in Nat /\ \A i \in 1..n : i \in 1..Len(s)
  BY LenProperties
<1>2. \A v \in Globals : v \in Changed(s, n, {"assign", "call"}) <=> \E i \in 1..n : s[i].var = v
  BY <1>1, StatementFields DEF Changed
<1> DEFINE Latest(v, i) == s[i].var = v /\ \A j \in 1..n : s[j].var = v => j <= i
<1>3. ASSUME NEW v \in Globals
      PROVE  /\ (\A j \in 1..n : s[j].var # v) => After(m, s, n)[v] = m[v]
             /\ \A i \in 1..n : Latest(v, i) => After(m, s, n)[v] = s[i].val
             /\ After(m, s, n)[v] \in Values
  <2>1. CASE \A j \in 1..n : s[j].var # v
    BY <1>2, <2>1 DEF After, Memory
  <2>2. CASE \E j \in 1..n : s[j].var = v
    <3>1. \E i \in 1..n : Latest(v, i)
      <4> DEFINE T == {j \in 1..n : s[j].var = v}
      <4>1. T \in SUBSET (1..n) /\ T # {}
        BY <2>2
      <4> HIDE DEF T
      <4>2. PICK i \in T : \A j \in T : j <= i
        BY <1>1, <4>1, LastPlace
      <4>3. QED
        BY <4>2 DEF T
    <3>2. \A i, j \in 1..n : Latest(v, i) /\ Latest(v, j) => i = j
      BY <1>1
    <3>3. After(m, s, n)[v] = s[CHOOSE i \in 1..n : Latest(v, i)].val
      BY <1>2, <2>2 DEF After
    <3>4. s[CHOOSE i \in 1..n : Latest(v, i)].val \in Values
      <4> DEFINE last == CHOOSE i \in 1..n : Latest(v, i)
      <4>1. last \in 1..n
        BY <3>1
      <4> HIDE DEF last
      <4>2. s[last].val \in Values
        BY <1>1, <4>1, StatementFields
      <4>3. QED
        BY <4>2 DEF last
    <3> HIDE DEF Latest
    <3>5. \A i \in 1..n : Latest(v, i) => (CHOOSE j \in 1..n : Latest(v, j)) = i
      BY <3>2
    <3>6. \A i \in 1..n : Latest(v, i) => s[i].var = v
      BY DEF Latest
    <3>7. QED
      BY <2>2, <3>3, <3>4, <3>5
  <2>3. QED
    BY <2>1, <2>2
<1>4. After(m, s, n) = [v \in Globals |-> After(m, s, n)[v]]
  BY DEF After
<1>5. QED
  BY <1>3, <1>4 DEF Memory

(* The recursion over the statements is well defined, and finds the places of
   the assignments, in order. *)
LEMMA AssignmentsAre ==
  ASSUME NEW s \in Seq(Statement)
  PROVE  LET a == Assignments(s)
         IN  /\ a \in Seq(1..Len(s))
             /\ \A k \in 1..Len(a) : s[a[k]].op = "assign"
             /\ \A i \in 1..Len(s) : s[i].op = "assign" => \E k \in 1..Len(a) : a[k] = i
             /\ \A k, l \in 1..Len(a) : k < l => a[k] < a[l]
<1> DEFINE L == Len(s)
           V == Seq(1..L)
           step == [k \in 1..L |-> [a \in V |->
                                       IF s[k].op = "assign" THEN Append(a, k) ELSE a]]
           Body(f) == [n \in 0..L |-> IF n = 0 THEN <<>>
                                      ELSE IF s[n].op = "assign" THEN Append(f[n - 1], n)
                                           ELSE f[n - 1]]
<1>1. L \in Nat
  BY LenProperties
<1>2. Assignments(s) = (CHOOSE g : g = Body(g))[L]
  BY DEF Assignments
<1> HIDE DEF L
<1>3. PICK f \in [0..L -> V] : Follows(f, L, <<>>, step)
  <2>1. <<>> \in V
    BY EmptySeq
  <2>2. step \in [1..L -> [V -> V]]
    BY AppendProperties
  <2> HIDE DEF V, step
  <2>3. QED
    BY <1>1, <2>1, <2>2, PrefixRecursion, Zenon
<1>4. f[0] = <<>> /\ \A k \in 1..L : f[k] = step[k][f[k - 1]]
  BY <1>3 DEF Follows
<1>5. ASSUME NEW k \in 1..L
      PROVE  f[k - 1] \in V /\ f[k] = IF s[k].op = "assign" THEN Append(f[k - 1], k) ELSE f[k - 1]
  <2>1. f[k - 1] \in V
    BY <1>1, <1>3
  <2>2. f[k] = step[k][f[k - 1]]
    BY <1>4
  <2>3. QED
    BY <2>1, <2>2
<1>6. (CHOOSE g : g = Body(g)) = f
  <2>1. f = Body(f)
    <3>1. f = [k \in 0..L |-> f[k]]
      BY <1>3
    <3>2. ASSUME NEW k \in 0..L PROVE f[k] = Body(f)[k]
      <4>1. k = 0 \/ k \in 1..L
        BY <1>1
      <4>2. QED
        BY <1>1, <1>4, <1>5, <4>1
    <3>3. QED
      BY <3>1, <3>2
  <2>2. ASSUME NEW g, g = Body(g) PROVE g = f
    <3>1. g[0] = f[0]
      BY <1>1, <1>4, <2>2
    <3>2. ASSUME NEW k \in 1..L, g[k - 1] = f[k - 1] PROVE g[k] = f[k]
      <4>1. k \in 0..L /\ k # 0
        BY <1>1, <3>2
      <4>2. g[k] = IF s[k].op = "assign" THEN Append(g[k - 1], k) ELSE g[k - 1]
        BY <2>2, <4>1
      <4>3. QED
        BY <1>5, <3>2, <4>2
    <3>3. Agree(g, f, L)
      BY <1>1, <3>1, <3>2, PrefixUnique
    <3>4. g = [k \in 0..L |-> g[k]] /\ f = [k \in 0..L |-> f[k]]
      BY <1>3, <2>2
    <3>5. QED
      BY <3>3, <3>4 DEF Agree
  <2> HIDE DEF Body
  <2>3. QED
    BY <2>1, <2>2
<1> DEFINE Lists(a, n) == /\ \A k \in 1..Len(a) : a[k] \in 1..n /\ s[a[k]].op = "assign"
                          /\ \A i \in 1..n : s[i].op = "assign" => \E k \in 1..Len(a) : a[k] = i
                          /\ \A k, l \in 1..Len(a) : k < l => a[k] < a[l]
           Listed == {n \in 0..L : Lists(f[n], n)}
<1>7. Lists(f[0], 0)
  BY <1>4
<1>8. ASSUME NEW n \in 1..L, Lists(f[n - 1], n - 1) PROVE Lists(f[n], n)
  <2>1. PICK a : a = f[n - 1]
    OBVIOUS
  <2>2. n \in Nat /\ n - 1 \in Nat /\ a \in V /\ Len(a) \in Nat /\ Lists(a, n - 1)
    <3>1. a \in V /\ Len(a) \in Nat
      BY <1>5, <2>1, LenProperties
    <3>2. Lists(a, n - 1)
      BY <1>8, <2>1, Zenon
    <3>4. n \in Nat /\ n - 1 \in Nat
      BY <1>1
    <3> HIDE DEF Lists, V
    <3>3. QED
      BY <3>1, <3>2, <3>4
  <2>3. CASE s[n].op # "assign"
    <3>1. f[n] = a
      BY <1>5, <2>1, <2>3
    <3>2. Lists(a, n)
      BY <2>2, <2>3
    <3>3. QED
      BY <3>1, <3>2
  <2>4. CASE s[n].op = "assign"
    <3>1. PICK b : b = Append(a, n)
      OBVIOUS
    <3>2. Len(b) = Len(a) + 1 /\ b[Len(a) + 1] = n /\ \A k \in 1..Len(a) : b[k] = a[k]
      BY <2>2, <3>1, AppendProperties
    <3>3. \A k \in 1..Len(b) : k \in 1..Len(a) \/ k = Len(a) + 1
      BY <2>2, <3>2
    <3>4. \A k \in 1..Len(b) : b[k] \in 1..n /\ s[b[k]].op = "assign"
      BY <2>2, <2>4, <3>2, <3>3
    <3>5. ASSUME NEW i \in 1..n, s[i].op = "assign" PROVE \E k \in 1..Len(b) : b[k] = i
      <4>1. CASE i = n
        BY <2>2, <3>2, <4>1
      <4>2. CASE i # n
        <5>1. i \in 1..n - 1
          BY <2>2, <4>2
        <5>2. PICK k \in 1..Len(a) : a[k] = i
          BY <2>2, <3>5, <5>1
        <5>3. k \in 1..Len(b) /\ b[k] = i
          BY <2>2, <3>2, <5>2
        <5>4. QED
          BY <5>3
      <4>3. QED
        BY <4>1, <4>2
    <3>6. ASSUME NEW k \in 1..Len(b), NEW l \in 1..Len(b), k < l PROVE b[k] < b[l]
      <4>1. k \in 1..Len(a) /\ a[k] \in 1..n - 1 /\ b[k] = a[k]
        BY <2>2, <3>2, <3>6
      <4>2. CASE l \in 1..Len(a)
        BY <2>2, <3>2, <3>6, <4>1, <4>2
      <4>3. CASE l = Len(a) + 1
        BY <2>2, <3>2, <4>1, <4>3
      <4>4. QED
        BY <3>3, <4>2, <4>3
    <3>7. f[n] = b
      BY <1>5, <2>1, <2>4, <3>1
    <3>8. QED
      BY <3>4, <3>5, <3>6, <3>7
  <2>5. QED
    BY <2>3, <2>4
<1>9. \A n \in 0..L : n \in Listed
  <2> HIDE DEF Lists
  <2>1. 0 \in Listed /\ \A n \in 1..L : n - 1 \in Listed => n \in Listed
    BY <1>1, <1>7, <1>8
  <2> HIDE DEF Listed
  <2>2. QED
    BY <1>1, <2>1, PrefixInduction
<1>10. L \in 0..L /\ Lists(f[L], L) /\ f[L] \in Seq(1..L)
  BY <1>1, <1>3, <1>9
<1>11. QED
  BY <1>2, <1>6, <1>10 DEF L

(***************************************************************************)
(* Backups                                                                 *)
(***************************************************************************)

LEMMA SavedIs ==
  ASSUME NEW b \in Seq(Backup), NEW v
  PROVE  /\ Len(b) \in Nat /\ \A k \in 1..Len(b) : b[k] \in Backup
         /\ v \in Saved(b) <=> \E k \in 1..Len(b) : b[k].var = v
BY ElementOfSeq, LenProperties DEF Saved

LEMMA SavedGlobals ==
  ASSUME NEW b \in Seq(Backup)
  PROVE  Saved(b) \subseteq Globals
BY SavedIs DEF Backup

(* A saved variable has a backup that was made first. *)
LEMMA FirstBackup ==
  ASSUME NEW b \in Seq(Backup), NEW v \in Saved(b)
  PROVE  \E i \in 1..Len(b) : b[i].var = v /\ \A j \in 1..Len(b) : b[j].var = v => i <= j
<1> DEFINE T == {j \in 1..Len(b) : b[j].var = v}
<1>1. Len(b) \in Nat
  BY LenProperties
<1>2. T \in SUBSET (1..Len(b)) /\ T # {}
  BY SavedIs
<1> HIDE DEF T
<1>3. PICK i \in T : \A j \in T : i <= j
  BY <1>1, <1>2, FirstPlace
<1>4. QED
  BY <1>3 DEF T

LEMMA SavedConcat ==
  ASSUME NEW b \in Seq(Backup), NEW c \in Seq(Backup)
  PROVE  b \o c \in Seq(Backup) /\ Saved(b \o c) = Saved(b) \cup Saved(c)
<1> DEFINE d == b \o c
<1>1. /\ d \in Seq(Backup) /\ Len(d) = Len(b) + Len(c)
      /\ \A k \in 1..Len(b) + Len(c) : d[k] = IF k <= Len(b) THEN b[k] ELSE c[k - Len(b)]
  BY ConcatProperties
<1>2. Len(b) \in Nat /\ Len(c) \in Nat
  BY LenProperties
<1> HIDE DEF d
<1>3. ASSUME NEW v PROVE v \in Saved(d) <=> v \in Saved(b) \cup Saved(c)
  <2>1. ASSUME NEW k \in 1..Len(b), b[k].var = v PROVE v \in Saved(d)
    <3>1. k \in 1..Len(d) /\ d[k] = b[k]
      BY <1>1, <1>2
    <3>2. QED
      BY <1>1, <2>1, <3>1, SavedIs
  <2>2. ASSUME NEW k \in 1..Len(c), c[k].var = v PROVE v \in Saved(d)
    <3>1. k + Len(b) \in 1..Len(d) /\ d[k + Len(b)] = c[k]
      BY <1>1, <1>2
    <3>2. QED
      BY <1>1, <2>2, <3>1, SavedIs
  <2>3. ASSUME NEW k \in 1..Len(d), d[k].var = v PROVE v \in Saved(b) \cup Saved(c)
    <3>1. CASE k <= Len(b)
      <4>1. k \in 1..Len(b) /\ b[k].var = v
        BY <1>1, <1>2, <2>3, <3>1
      <4>2. QED
        BY <4>1, SavedIs
    <3>2. CASE ~(k <= Len(b))
      <4>1. k - Len(b) \in 1..Len(c) /\ c[k - Len(b)].var = v
        BY <1>1, <1>2, <2>3, <3>2
      <4>2. QED
        BY <4>1, SavedIs
    <3>3. QED
      BY <3>1, <3>2
  <2>4. QED
    BY <1>1, <2>1, <2>2, <2>3, SavedIs
<1>4. QED
  BY <1>1, <1>3 DEF d

(* What restoring gives a variable: the value of its first backup. *)
LEMMA RestoreIs ==
  ASSUME NEW p \in Procs, NEW m \in Memory, NEW b \in Seq(Backup)
  PROVE  /\ RestoreGlobalVariables(p, m, b) \in Memory
         /\ \A v \in Globals \ Saved(b) : RestoreGlobalVariables(p, m, b)[v] = m[v]
         /\ \A v \in Globals, i \in 1..Len(b) :
              b[i].var = v /\ (\A j \in 1..Len(b) : b[j].var = v => i <= j) =>
                RestoreGlobalVariables(p, m, b)[v] = b[i].saved[p]
<1> DEFINE Earliest(v, i) == b[i].var = v /\ \A j \in 1..Len(b) : b[j].var = v => i <= j
<1>1. Len(b) \in Nat
  BY LenProperties
<1>2. ASSUME NEW v \in Globals
      PROVE  /\ v \notin Saved(b) => RestoreGlobalVariables(p, m, b)[v] = m[v]
             /\ \A i \in 1..Len(b) : Earliest(v, i) =>
                  RestoreGlobalVariables(p, m, b)[v] = b[i].saved[p]
             /\ RestoreGlobalVariables(p, m, b)[v] \in Values
  <2>1. CASE v \notin Saved(b)
    BY <2>1, SavedIs DEF RestoreGlobalVariables, Memory
  <2>2. CASE v \in Saved(b)
    <3>1. \E i \in 1..Len(b) : Earliest(v, i)
      BY <2>2, FirstBackup
    <3>2. \A i, j \in 1..Len(b) : Earliest(v, i) /\ Earliest(v, j) => i = j
      BY <1>1
    <3>3. RestoreGlobalVariables(p, m, b)[v]
            = b[CHOOSE i \in 1..Len(b) : Earliest(v, i)].saved[p]
      BY <2>2 DEF RestoreGlobalVariables
    <3> HIDE DEF Earliest
    <3>4. \A i \in 1..Len(b) : Earliest(v, i) => (CHOOSE j \in 1..Len(b) : Earliest(v, j)) = i
      BY <3>2
    <3>5. PICK i \in 1..Len(b) : Earliest(v, i)
      BY <3>1
    <3>6. b[i] \in Backup
      BY SavedIs
    <3>7. b[i].saved[p] \in Values
      BY <3>6 DEF Backup
    <3>8. QED
      BY <2>2, <3>3, <3>4, <3>5, <3>7
  <2>3. QED
    BY <2>1, <2>2
<1>3. RestoreGlobalVariables(p, m, b) = [v \in Globals |-> RestoreGlobalVariables(p, m, b)[v]]
  BY DEF RestoreGlobalVariables
<1>4. QED
  BY <1>2, <1>3 DEF Memory

(* What restoring leaves in a variable depends on the memory there only if there
   is no backup of it. *)
LEMMA RestoreAgrees ==
  ASSUME NEW p \in Procs, NEW m \in Memory, NEW n \in Memory, NEW b \in Seq(Backup),
         NEW v \in Globals, v \in Saved(b) \/ m[v] = n[v]
  PROVE  RestoreGlobalVariables(p, m, b)[v] = RestoreGlobalVariables(p, n, b)[v]
<1>1. CASE v \in Saved(b)
  <2>1. PICK i \in 1..Len(b) : b[i].var = v /\ \A j \in 1..Len(b) : b[j].var = v => i <= j
    BY <1>1, FirstBackup
  <2>2. RestoreGlobalVariables(p, m, b)[v] = b[i].saved[p]
    BY <2>1, RestoreIs
  <2>3. RestoreGlobalVariables(p, n, b)[v] = b[i].saved[p]
    BY <2>1, RestoreIs
  <2>4. QED
    BY <2>2, <2>3
<1>2. CASE v \notin Saved(b)
  BY <1>2, RestoreIs
<1>3. QED
  BY <1>1, <1>2

LEMMA ConcatElements ==
  ASSUME NEW b \in Seq(Backup), NEW c \in Seq(Backup), NEW k \in 1..Len(b \o c)
  PROVE  \/ \E i \in 1..Len(b) : (b \o c)[k] = b[i]
         \/ \E i \in 1..Len(c) : (b \o c)[k] = c[i]
<1>1. Len(b) \in Nat /\ Len(c) \in Nat /\ Len(b \o c) = Len(b) + Len(c)
      /\ (b \o c)[k] = IF k <= Len(b) THEN b[k] ELSE c[k - Len(b)]
  BY ConcatProperties, LenProperties
<1>2. CASE k <= Len(b)
  BY <1>1, <1>2
<1>3. CASE ~(k <= Len(b))
  <2>1. k - Len(b) \in 1..Len(c)
    BY <1>1, <1>3
  <2>2. QED
    BY <1>1, <1>3, <2>1
<1>4. QED
  BY <1>2, <1>3

(* Of two lists of backups, restored at once, the first one decides. *)
LEMMA RestoreConcat ==
  ASSUME NEW p \in Procs, NEW m \in Memory, NEW b \in Seq(Backup), NEW c \in Seq(Backup),
         NEW v \in Globals
  PROVE  /\ v \in Saved(b) => \A n \in Memory :
              RestoreGlobalVariables(p, m, b \o c)[v] = RestoreGlobalVariables(p, n, b)[v]
         /\ v \notin Saved(b) =>
              RestoreGlobalVariables(p, m, b \o c)[v] = RestoreGlobalVariables(p, m, c)[v]
<1> DEFINE d == b \o c
<1>1. /\ d \in Seq(Backup) /\ Len(d) = Len(b) + Len(c)
      /\ \A k \in 1..Len(b) + Len(c) : d[k] = IF k <= Len(b) THEN b[k] ELSE c[k - Len(b)]
  BY ConcatProperties
<1>2. Len(b) \in Nat /\ Len(c) \in Nat
  BY LenProperties
<1> HIDE DEF d
<1>3. ASSUME v \in Saved(b), NEW n \in Memory
      PROVE  RestoreGlobalVariables(p, m, d)[v] = RestoreGlobalVariables(p, n, b)[v]
  <2>1. PICK i \in 1..Len(b) : b[i].var = v /\ \A j \in 1..Len(b) : b[j].var = v => i <= j
    BY <1>3, FirstBackup
  <2>2. i \in 1..Len(d) /\ d[i] = b[i]
    BY <1>1, <1>2
  <2>3. \A j \in 1..Len(d) : d[j].var = v => i <= j
    <3> SUFFICES ASSUME NEW j \in 1..Len(d), d[j].var = v, ~(i <= j) PROVE FALSE
      OBVIOUS
    <3>1. j \in 1..Len(b) /\ d[j] = b[j]
      BY <1>1, <1>2
    <3>2. QED
      BY <2>1, <3>1
  <2>4. RestoreGlobalVariables(p, m, d)[v] = b[i].saved[p]
    <3>1. d[i].var = v
      BY <2>1, <2>2
    <3>2. RestoreGlobalVariables(p, m, d)[v] = d[i].saved[p]
      <4>1. d \in Seq(Backup) /\ i \in 1..Len(d)
        BY <1>1, <2>2
      <4>2. QED
        BY <2>3, <3>1, <4>1, RestoreIs
    <3>3. QED
      BY <2>2, <3>2
  <2>5. RestoreGlobalVariables(p, n, b)[v] = b[i].saved[p]
    BY <2>1, RestoreIs
  <2>6. QED
    BY <2>4, <2>5
<1>4. ASSUME v \notin Saved(b)
      PROVE  RestoreGlobalVariables(p, m, d)[v] = RestoreGlobalVariables(p, m, c)[v]
  <2>1. CASE v \notin Saved(c)
    <3>1. v \notin Saved(d)
      BY <1>4, <2>1, SavedConcat DEF d
    <3>2. QED
      BY <1>1, <2>1, <3>1, RestoreIs
  <2>2. CASE v \in Saved(c)
    <3>1. PICK i \in 1..Len(c) : c[i].var = v /\ \A j \in 1..Len(c) : c[j].var = v => i <= j
      BY <2>2, FirstBackup
    <3>2. PICK k \in 1..Len(d) : k = i + Len(b) /\ d[k] = c[i]
      <4>1. i + Len(b) \in 1..Len(d) /\ ~(i + Len(b) <= Len(b)) /\ i + Len(b) - Len(b) = i
        BY <1>1, <1>2
      <4>2. QED
        BY <1>1, <4>1, SMTT(30)
    <3>3. \A j \in 1..Len(d) : d[j].var = v => k <= j
      <4> SUFFICES ASSUME NEW j \in 1..Len(d), d[j].var = v PROVE i + Len(b) <= j
        BY <3>2
      <4>1. ~(j \in 1..Len(b) /\ b[j].var = v)
        BY <1>4, SavedIs
      <4>2. j - Len(b) \in 1..Len(c) /\ c[j - Len(b)].var = v
        BY <1>1, <1>2, <4>1
      <4>3. QED
        BY <1>2, <3>1, <4>2
    <3>4. RestoreGlobalVariables(p, m, d)[v] = c[i].saved[p]
      <4>1. d[k].var = v
        BY <3>1, <3>2
      <4>2. RestoreGlobalVariables(p, m, d)[v] = d[k].saved[p]
        <5>1. d \in Seq(Backup)
          BY <1>1
        <5>2. QED
          BY <3>3, <4>1, <5>1, RestoreIs
      <4>3. QED
        BY <3>2, <4>2
    <3>5. RestoreGlobalVariables(p, m, c)[v] = c[i].saved[p]
      BY <3>1, RestoreIs
    <3>6. QED
      BY <3>4, <3>5
  <2>3. QED
    BY <2>1, <2>2
<1>5. QED
  BY <1>3, <1>4 DEF d

LEMMA MadeByIs ==
  ASSUME NEW p \in Procs, NEW value \in Values
  PROVE  MadeBy(p, value) \in [Procs -> Values] /\ MadeBy(p, value)[p] = value
BY BackupAssumption DEF MadeBy, Procs

(* The backups of the statements s, run in process p from memory m. *)
LEMMA BackupsAre ==
  ASSUME NEW p \in Procs, NEW m \in Memory, NEW s \in Seq(Statement)
  PROVE  LET a == Assignments(s)
             b == Backups(p, m, s)
         IN  /\ b \in Seq(Backup) /\ Len(b) = Len(a)
             /\ \A k \in 1..Len(a) : /\ b[k].var = s[a[k]].var
                                     /\ b[k].saved = MadeBy(p, After(m, s, a[k] - 1)[s[a[k]].var])
             /\ Saved(b) = Assigned(s)
<1> DEFINE a == Assignments(s)
           b == Backups(p, m, s)
           value(k) == After(m, s, a[k] - 1)[s[a[k]].var]
<1>1. Len(s) \in Nat /\ Len(a) \in Nat /\ a \in Seq(1..Len(s))
      /\ \A k \in 1..Len(a) : a[k] \in 1..Len(s)
  BY AssignmentsAre, ElementOfSeq, LenProperties
<1>2. ASSUME NEW k \in 1..Len(a)
      PROVE  s[a[k]].var \in Globals /\ value(k) \in Values /\ MadeBy(p, value(k)) \in [Procs -> Values]
  <2>1. a[k] \in 1..Len(s) /\ a[k] - 1 \in 0..Len(s)
    BY <1>1
  <2>2. s[a[k]].var \in Globals
    BY <2>1, StatementFields
  <2>3. After(m, s, a[k] - 1) \in Memory
    BY <2>1, AfterIs
  <2>4. value(k) \in Values
    BY <2>2, <2>3 DEF Memory
  <2>5. QED
    BY <2>2, <2>4, MadeByIs
<1>3. b = [k \in 1..Len(a) |-> [var |-> s[a[k]].var, saved |-> MadeBy(p, value(k))]]
  BY DEF Backups
<1> HIDE DEF a, b, value
<1>4. \A k \in 1..Len(a) : b[k] \in Backup
  BY <1>2, <1>3 DEF Backup
<1>5. b \in Seq(Backup) /\ Len(b) = Len(a)
  <2>1. b \in [1..Len(a) -> Backup]
    BY <1>3, <1>4
  <2>2. QED
    BY <1>1, <2>1, IsASeq, LenProperties
<1>6. \A k \in 1..Len(a) : b[k].var = s[a[k]].var /\ b[k].saved = MadeBy(p, value(k))
  BY <1>3
<1>7. Saved(b) = Assigned(s)
  <2>1. ASSUME NEW v PROVE v \in Assigned(s) <=> \E i \in 1..Len(s) : s[i].op = "assign" /\ s[i].var = v
    BY DEF Assigned, Changed
  <2>2. ASSUME NEW v, NEW k \in 1..Len(b), b[k].var = v PROVE v \in Assigned(s)
    <3>1. a[k] \in 1..Len(s) /\ s[a[k]].op = "assign" /\ s[a[k]].var = v
      BY <1>1, <1>5, <1>6, <2>2, AssignmentsAre DEF a
    <3>2. QED
      BY <2>1, <3>1
  <2>3. ASSUME NEW v, NEW i \in 1..Len(s), s[i].op = "assign", s[i].var = v PROVE v \in Saved(b)
    <3>1. PICK k \in 1..Len(a) : a[k] = i
      BY <2>3, AssignmentsAre DEF a
    <3>2. k \in 1..Len(b) /\ b[k].var = v
      BY <1>5, <1>6, <2>3, <3>1
    <3>3. QED
      BY <3>2, SavedIs, <1>5
  <2>4. QED
    BY <1>5, <2>1, <2>2, <2>3, SavedIs
<1>8. QED
  BY <1>5, <1>6, <1>7 DEF a, b, value

(* The statements s, followed by the restoring of their backups, leave every
   variable that they only assign, once or several times, as it was. *)
LEMMA OwnUndone ==
  ASSUME NEW p \in Procs, NEW m \in Memory, NEW s \in Seq(Statement),
         NEW v \in Globals \ Called(s)
  PROVE  RestoreGlobalVariables(p, Run(m, s), Backups(p, m, s))[v] = m[v]
<1> DEFINE a == Assignments(s)
           b == Backups(p, m, s)
<1>1. Len(s) \in Nat /\ Len(s) \in 0..Len(s) /\ Len(a) \in Nat
      /\ \A k \in 1..Len(a) : a[k] \in 1..Len(s)
  BY AssignmentsAre, ElementOfSeq, LenProperties
<1>2. \A i \in 1..Len(s) : s[i].var = v => s[i].op = "assign"
  BY StatementFields DEF Called, Changed
<1>3. Run(m, s) \in Memory /\ b \in Seq(Backup) /\ Len(b) = Len(a) /\ Saved(b) = Assigned(s)
  BY <1>1, AfterIs, BackupsAre DEF Run
<1>4. CASE v \notin Assigned(s)
  <2>1. \A i \in 1..Len(s) : s[i].var # v
    BY <1>2, <1>4 DEF Assigned, Changed
  <2>2. Run(m, s)[v] = m[v]
    BY <1>1, <2>1, AfterIs DEF Run
  <2>3. QED
    BY <1>3, <1>4, <2>2, RestoreIs
<1>5. CASE v \in Assigned(s)
  <2>1. PICK k \in 1..Len(b) : b[k].var = v /\ \A j \in 1..Len(b) : b[j].var = v => k <= j
    BY <1>3, <1>5, FirstBackup
  <2>2. k \in 1..Len(a) /\ a[k] \in 1..Len(s) /\ a[k] - 1 \in 0..Len(s) /\ s[a[k]].var = v
        /\ b[k].saved = MadeBy(p, After(m, s, a[k] - 1)[v])
    BY <1>1, <1>3, <2>1, BackupsAre
  <2>3. ASSUME NEW i \in 1..a[k] - 1 PROVE s[i].var # v
    <3>1. i \in 1..Len(s) /\ i < a[k]
      BY <1>1, <2>2
    <3>2. SUFFICES ASSUME s[i].var = v PROVE FALSE
      OBVIOUS
    <3>3. PICK l \in 1..Len(a) : a[l] = i
      BY <1>2, <3>1, <3>2, AssignmentsAre
    <3>4. b[l].var = v /\ l \in 1..Len(b)
      BY <1>3, <3>2, <3>3, BackupsAre
    <3>5. k <= l
      BY <2>1, <3>4
    <3>6. a[k] <= a[l]
      <4>1. k < l => a[k] < a[l]
        BY <2>2, AssignmentsAre
      <4>2. QED
        BY <1>1, <2>2, <3>5, <4>1
    <3>7. QED
      BY <1>1, <2>2, <3>1, <3>3, <3>6
  <2>4. After(m, s, a[k] - 1)[v] = m[v]
    <3>1. PICK n \in 0..Len(s) : n = a[k] - 1
      BY <2>2
    <3>2. \A j \in 1..n : s[j].var # v
      BY <2>3, <3>1
    <3>3. After(m, s, n)[v] = m[v]
      BY <3>2, AfterIs
    <3>4. QED
      BY <3>1, <3>3
  <2>5. b[k].saved[p] = m[v]
    BY <2>2, <2>4, MadeByIs DEF Memory
  <2> HIDE DEF a, b
  <2>6. RestoreGlobalVariables(p, Run(m, s), b)[v] = b[k].saved[p]
    BY <1>3, <2>1, RestoreIs
  <2>7. QED
    BY <2>5, <2>6 DEF b
<1>6. QED
  BY <1>4, <1>5

(* So a list of backups is worth the same before some statements, and after
   them with their backups behind it. *)
LEMMA StatementsUndone ==
  ASSUME NEW p \in Procs, NEW m \in Memory, NEW s \in Seq(Statement), NEW b \in Seq(Backup),
         NEW v \in Globals \ Called(s)
  PROVE  RestoreGlobalVariables(p, Run(m, s), b \o Backups(p, m, s))[v]
           = RestoreGlobalVariables(p, m, b)[v]
<1> DEFINE c == Backups(p, m, s)
<1>1. Run(m, s) \in Memory /\ c \in Seq(Backup)
  <2>1. Len(s) \in 0..Len(s)
    BY LenProperties
  <2>2. QED
    BY <2>1, AfterIs, BackupsAre DEF Run
<1>2. RestoreGlobalVariables(p, Run(m, s), c)[v] = m[v]
  BY OwnUndone
<1> HIDE DEF c
<1>3. RestoreGlobalVariables(p, Run(m, s), b \o c)[v] = RestoreGlobalVariables(p, m, b)[v]
  <2>1. CASE v \in Saved(b)
    BY <1>1, <2>1, RestoreConcat
  <2>2. CASE v \notin Saved(b)
    BY <1>1, <1>2, <2>2, RestoreConcat, RestoreIs
  <2>3. QED
    BY <2>1, <2>2
<1>4. QED
  BY <1>3 DEF c

(***************************************************************************)
(* Types                                                                   *)
(***************************************************************************)

LEMMA StatementsAre ==
  ASSUME NEW s \in Fixtures \cup Mockups
  PROVE  s \in Seq(Statement) /\ (s \in Mockups => Called(s) = {})
<1>1. CASE s \in Fixtures
  <2>1. PICK n \in 0..MaxStatements : s \in [1..n -> Statement]
    BY <1>1 DEF Fixtures
  <2>2. n \in Nat
    BY <2>1, BackupAssumption
  <2>3. s \in Seq(Statement)
    BY <2>1, <2>2, IsASeq
  <2>4. ASSUME s \in Mockups PROVE Called(s) = {}
    <3>1. PICK k \in 0..MaxStatements : s \in [1..k -> [op : {"assign"}, var : Globals, val : Values]]
      BY <2>4 DEF Mockups
    <3>2. k \in Nat /\ Len(s) = k
      BY <3>1, BackupAssumption
    <3>3. \A i \in 1..Len(s) : s[i].op = "assign"
      BY <3>1, <3>2
    <3>4. QED
      BY <3>3 DEF Called, Changed
  <2>5. QED
    BY <2>3, <2>4
<1>2. CASE s \in Mockups
  <2>1. PICK n \in 0..MaxStatements : s \in [1..n -> [op : {"assign"}, var : Globals, val : Values]]
    BY <1>2 DEF Mockups
  <2>2. n \in Nat
    BY <2>1, BackupAssumption
  <2>3. \A i \in 1..n : s[i] \in Statement /\ s[i].op = "assign"
    BY <2>1 DEF Statement
  <2>4. s \in [1..n -> Statement]
    BY <2>1, <2>3
  <2>5. s \in Seq(Statement) /\ Len(s) = n
    BY <2>2, <2>4, IsASeq, LenProperties
  <2>6. QED
    BY <2>3, <2>5 DEF Called, Changed
<1>3. QED
  BY <1>1, <1>2

LEMMA Regrouped ==
  ASSUME NEW b \in Seq(Backup), NEW c \in Seq(Backup), NEW d \in Seq(Backup)
  PROVE  (b \o c) \o d = b \o (c \o d)
<1>1. PICK S : S = Backup
  OBVIOUS
<1>2. b \in Seq(S) /\ c \in Seq(S) /\ d \in Seq(S)
  BY <1>1
<1>3. QED
  BY <1>2, ConcatAssociative

LEMMA ChangedConcat ==
  ASSUME NEW s \in Seq(Statement), NEW t \in Seq(Statement), NEW op
  PROVE  Changed(s \o t, Len(s \o t), {op}) = Changed(s, Len(s), {op}) \cup Changed(t, Len(t), {op})
<1> DEFINE u == s \o t
           By(r) == Changed(r, Len(r), {op})
<1>1. /\ u \in Seq(Statement) /\ Len(u) = Len(s) + Len(t)
      /\ \A k \in 1..Len(s) + Len(t) : u[k] = IF k <= Len(s) THEN s[k] ELSE t[k - Len(s)]
  BY ConcatProperties
<1>2. Len(s) \in Nat /\ Len(t) \in Nat
  BY LenProperties
<1> HIDE DEF u
<1>3. \A r, v : v \in By(r) <=> \E i \in 1..Len(r) : r[i].op = op /\ r[i].var = v
  BY DEF Changed
<1>4. ASSUME NEW v, NEW i \in 1..Len(s), s[i].op = op, s[i].var = v PROVE v \in By(u)
  <2>1. i \in 1..Len(u) /\ u[i] = s[i]
    BY <1>1, <1>2
  <2>2. QED
    BY <1>3, <1>4, <2>1
<1>5. ASSUME NEW v, NEW i \in 1..Len(t), t[i].op = op, t[i].var = v PROVE v \in By(u)
  <2>1. Len(s) + i \in 1..Len(u) /\ ~(Len(s) + i <= Len(s)) /\ Len(s) + i - Len(s) = i
    BY <1>1, <1>2
  <2>2. u[Len(s) + i] = t[i]
    BY <1>1, <2>1
  <2>3. QED
    BY <1>3, <1>5, <2>1, <2>2
<1>6. ASSUME NEW v, NEW i \in 1..Len(u), u[i].op = op, u[i].var = v
      PROVE  v \in By(s) \cup By(t)
  <2>1. CASE i <= Len(s)
    <3>1. i \in 1..Len(s) /\ s[i].op = op /\ s[i].var = v
      BY <1>1, <1>2, <1>6, <2>1
    <3>2. QED
      BY <1>3, <3>1
  <2>2. CASE ~(i <= Len(s))
    <3>1. i - Len(s) \in 1..Len(t) /\ t[i - Len(s)].op = op /\ t[i - Len(s)].var = v
      BY <1>1, <1>2, <1>6, <2>2
    <3>2. QED
      BY <1>3, <3>1
  <2>3. QED
    BY <2>1, <2>2
<1> HIDE DEF By
<1>7. ASSUME NEW v PROVE v \in By(u) <=> v \in By(s) \cup By(t)
  <2>1. ASSUME v \in By(u) PROVE v \in By(s) \cup By(t)
    <3>1. PICK i \in 1..Len(u) : u[i].op = op /\ u[i].var = v
      BY <1>3, <2>1
    <3>2. QED
      BY <1>6, <3>1
  <2>2. ASSUME v \in By(s) PROVE v \in By(u)
    BY <1>3, <1>4, <2>2
  <2>3. ASSUME v \in By(t) PROVE v \in By(u)
    BY <1>3, <1>5, <2>3
  <2>4. QED
    BY <2>1, <2>2, <2>3
<1>8. By(u) = By(s) \cup By(t)
  BY <1>7
<1>9. QED
  BY <1>8 DEF u, By

LEMMA StatementsConcat ==
  ASSUME NEW s \in Seq(Statement), NEW t \in Seq(Statement)
  PROVE  /\ s \o t \in Seq(Statement)
         /\ Called(s \o t) = Called(s) \cup Called(t)
         /\ Assigned(s \o t) = Assigned(s) \cup Assigned(t)
<1>1. s \o t \in Seq(Statement)
  BY ConcatProperties
<1>2. \A op : Changed(s \o t, Len(s \o t), {op}) = Changed(s, Len(s), {op}) \cup Changed(t, Len(t), {op})
  BY ChangedConcat
<1>3. QED
  BY <1>1, <1>2 DEF Called, Assigned

LEMMA RunIs ==
  ASSUME NEW m \in Memory, NEW s \in Seq(Statement)
  PROVE  /\ Run(m, s) \in Memory
         /\ \A v \in Globals \ (Called(s) \cup Assigned(s)) : Run(m, s)[v] = m[v]
         /\ Called(s) \subseteq Globals /\ Assigned(s) \subseteq Globals
<1>1. Len(s) \in 0..Len(s)
  BY LenProperties
<1>2. \A v \in Globals \ (Called(s) \cup Assigned(s)) : \A j \in 1..Len(s) : s[j].var # v
  BY StatementFields DEF Called, Assigned, Changed
<1>3. Called(s) \subseteq Globals /\ Assigned(s) \subseteq Globals
  BY StatementFields DEF Called, Assigned, Changed
<1>4. QED
  BY <1>1, <1>2, <1>3, AfterIs DEF Run

(* Of the variables that no call changes, the statements leave what they give. *)
LEMMA GivenIs ==
  ASSUME NEW m \in Memory, NEW s \in Seq(Statement)
  PROVE  /\ Given(s) \in [Assigned(s) -> Values]
         /\ \A v \in Assigned(s) \ Called(s) : Run(m, s)[v] = Given(s)[v]
<1>1. Len(s) \in Nat /\ Len(s) \in 0..Len(s)
  BY LenProperties
<1> DEFINE Latest(v, i) == /\ s[i].op = "assign" /\ s[i].var = v
                           /\ \A j \in 1..Len(s) : s[j].op = "assign" /\ s[j].var = v => j <= i
           last(v) == CHOOSE i \in 1..Len(s) : Latest(v, i)
<1>2. ASSUME NEW v \in Assigned(s) PROVE last(v) \in 1..Len(s) /\ Latest(v, last(v))
  <2> DEFINE T == {j \in 1..Len(s) : s[j].op = "assign" /\ s[j].var = v}
  <2>1. T \in SUBSET (1..Len(s)) /\ T # {}
    BY DEF Assigned, Changed
  <2> HIDE DEF T
  <2>2. PICK i \in T : \A j \in T : j <= i
    BY <1>1, <2>1, LastPlace
  <2>3. i \in 1..Len(s) /\ Latest(v, i)
    BY <2>2 DEF T
  <2> HIDE DEF Latest
  <2>4. QED
    BY <2>3
<1>3. Given(s) = [v \in Assigned(s) |-> s[last(v)].val]
  BY DEF Given
<1> HIDE DEF last
<1>4. ASSUME NEW v \in Assigned(s) PROVE s[last(v)].val \in Values
  BY <1>2, StatementFields
<1>5. ASSUME NEW v \in Assigned(s) \ Called(s) PROVE Run(m, s)[v] = Given(s)[v]
  <2>1. \A j \in 1..Len(s) : s[j].var = v => s[j].op = "assign"
    BY StatementFields DEF Called, Changed
  <2>2. v \in Globals
    BY RunIs
  <2>3. PICK i \in 1..Len(s) : i = last(v) /\ s[i].var = v /\ \A j \in 1..Len(s) : s[j].var = v => j <= i
    BY <1>2, <2>1
  <2>4. After(m, s, Len(s))[v] = s[i].val
    <3>1. PICK n : n = Len(s) /\ n \in 0..Len(s)
      BY <1>1
    <3>2. \A w \in Globals :
            /\ (\A j \in 1..n : s[j].var # w) => After(m, s, n)[w] = m[w]
            /\ \A k \in 1..n : s[k].var = w /\ (\A j \in 1..n : s[j].var = w => j <= k) =>
                 After(m, s, n)[w] = s[k].val
      BY <3>1, AfterIs, Zenon
    <3>4. After(m, s, n)[v] = s[i].val
      BY <2>2, <2>3, <3>1, <3>2
    <3>3. QED
      BY <3>1, <3>4
  <2>5. QED
    BY <1>3, <2>3, <2>4 DEF Run
<1>6. QED
  BY <1>3, <1>4, <1>5

LEMMA ProcsAre == Runner \in Procs /\ "parent" \in Procs /\ "child" \in Procs
BY DEF Runner, Procs

LEMMA InParentIs ==
  ASSUME NEW m \in Memory
  PROVE  InParent(m) \in [Procs -> Memory] /\ \A p \in Procs : InParent(m)[p] = m
BY DEF InParent

(***************************************************************************)
(* The inductive invariant                                                 *)
(***************************************************************************)

(* The variables as the groups left them: while a test runs in jcut's own
   process, what they were when it started. *)
Outside == IF test = "called" THEN entry ELSE globals["parent"]

(* Nothing that waits to be generated calls a function, a test's backups are
   gone with it, and the parent's memory stays out of a child's test. *)
Housekeeping ==
  /\ Called(mInstructions) = {}
  /\ Len(intact) = Len(groups)
  /\ test # "called" => mBackupTest = <<>>
  /\ test = "called" /\ usingFork => entry = globals["parent"]

(* Whenever the running test restored its backups and those that wait, what it
   need not exempt would be as it was. *)
TestCanRestore ==
  test = "called" =>
    \A v \in Globals \ exempt :
      RestoreGlobalVariables(Runner, globals[Runner], mBackupTest \o mBackupTemp)[v] = entry[v]

(* A backup that waits can do no harm to a group: it holds the initial value, or
   its variable counts as disturbed, when the running test ends at the latest. *)
WaitingHarmless ==
  \A k \in 1..Len(mBackupTemp) :
    \/ mBackupTemp[k].var \in disturbed
    \/ mBackupTemp[k].saved["parent"] = initial
    \/ test = "called" /\ ~usingFork

(* Whenever the backups of the groups were restored, the variables that are not
   disturbed would be as they were defined. *)
GroupsCanRestore ==
  \A v \in Globals \ disturbed :
    RestoreGlobalVariables("parent", Outside, mBackupGroup)[v] = initial

(* IntactGroupsKeepState, also while a test runs. *)
KeptOutside ==
  \A i \in 1..Len(groups) : intact[i] =>
    \A v \in DOMAIN groups[i] \ disturbed :
      (\A j \in i + 1..Len(groups) : v \notin DOMAIN groups[j]) => Outside[v] = groups[i][v]

IInv ==
  /\ TypeOK /\ Housekeeping /\ TestCanRestore /\ WaitingHarmless
  /\ GroupsCanRestore /\ KeptOutside

(***************************************************************************)
(* The steps                                                               *)
(***************************************************************************)

Setups == UNION {[vs -> Values] : vs \in SUBSET Globals}

(* TypeOK of the memories, the groups and the lists. *)
LEMMA TypesAre ==
  ASSUME TypeOK
  PROVE  /\ globals["parent"] \in Memory /\ globals[Runner] \in Memory /\ entry \in Memory
         /\ Outside \in Memory
         /\ groups \in Seq(Setups) /\ intact \in Seq(BOOLEAN) /\ Len(groups) \in Nat
         /\ \A i \in 1..Len(groups) : DOMAIN groups[i] \subseteq Globals
         /\ mInstructions \in Seq(Statement)
         /\ mBackupTemp \in Seq(Backup) /\ mBackupGroup \in Seq(Backup) /\ mBackupTest \in Seq(Backup)
<1>1. globals["parent"] \in Memory /\ globals[Runner] \in Memory /\ entry \in Memory
  BY ProcsAre DEF TypeOK, Memory
<1>2. groups \in Seq(Setups)
  BY DEF TypeOK, Setups
<1>3. ASSUME NEW i \in 1..Len(groups) PROVE DOMAIN groups[i] \subseteq Globals
  <2>1. groups[i] \in Setups
    BY <1>2, ElementOfSeq
  <2>2. QED
    BY <2>1 DEF Setups
<1>4. QED
  BY <1>1, <1>2, <1>3, LenProperties DEF TypeOK, Outside

LEMMA MeetMockupTypes ==
  ASSUME TypeOK, NEW mockup \in Mockups, MeetMockup(mockup)
  PROVE  nMocked' \in 0..MaxMocked
<1>1. Len(mockup) \in Nat
  BY StatementsAre, LenProperties
<1>2. QED
  BY <1>1, BackupAssumption DEF TypeOK, MeetMockup

(* A setup that is opened joins the others. *)
LEMMA OpenGroupSteps ==
  ASSUME TypeOK, Housekeeping, NEW s \in Seq(Statement), OpenGroup(s)
  PROVE  /\ groups' \in Seq(Setups) /\ intact' \in Seq(BOOLEAN)
         /\ phase' \in {"start", "walking", "done"}
         /\ Len(groups') = Len(groups) + 1 /\ Len(intact') = Len(groups')
         /\ \A i \in 1..Len(groups) : groups'[i] = groups[i] /\ intact'[i] = intact[i]
         /\ groups'[Len(groups) + 1] = Given(s) /\ DOMAIN Given(s) = Assigned(s)
         /\ test = "none" /\ test' = "none"
<1> DEFINE given == Given(s)
<1>1. given \in [Assigned(s) -> Values] /\ Assigned(s) \subseteq Globals
  <2>1. [v \in Globals |-> initial] \in Memory
    BY BackupAssumption DEF Memory
  <2>2. QED
    BY <2>1, GivenIs, RunIs
<1>2. groups' = Append(groups, given) /\ intact' = Append(intact, TRUE) /\ phase' = "walking"
      /\ test = "none" /\ test' = test
  BY DEF OpenGroup
<1> HIDE DEF given
<1>3. given \in Setups
  BY <1>1 DEF Setups
<1>4. groups \in Seq(Setups) /\ intact \in Seq(BOOLEAN) /\ Len(intact) = Len(groups)
  BY TypesAre DEF Housekeeping
<1>5. /\ groups' \in Seq(Setups) /\ Len(groups') = Len(groups) + 1
      /\ \A i \in 1..Len(groups) : groups'[i] = groups[i]
      /\ groups'[Len(groups) + 1] = given
  BY <1>2, <1>3, <1>4, AppendProperties
<1>6. /\ intact' \in Seq(BOOLEAN) /\ Len(intact') = Len(groups) + 1
      /\ \A i \in 1..Len(groups) : intact'[i] = intact[i]
  <2>1. /\ Append(intact, TRUE) \in Seq(BOOLEAN)
        /\ Len(Append(intact, TRUE)) = Len(intact) + 1
        /\ \A i \in 1..Len(intact) : Append(intact, TRUE)[i] = intact[i]
    <3>1. PICK B, yes : B = BOOLEAN /\ yes \in B /\ yes = TRUE
      OBVIOUS
    <3>2. intact \in Seq(B)
      BY <1>4, <3>1
    <3>3. /\ Append(intact, yes) \in Seq(B)
          /\ Len(Append(intact, yes)) = Len(intact) + 1
          /\ \A i \in 1..Len(intact) : Append(intact, yes)[i] = intact[i]
      BY <3>1, <3>2, AppendProperties
    <3>4. QED
      BY <3>1, <3>3
  <2>2. QED
    BY <1>2, <1>4, <2>1, Zenon
<1>7. QED
  BY <1>1, <1>2, <1>5, <1>6 DEF given

(* Restoring backups that wait, behind those of the groups, is as good as
   restoring those of the groups. *)
LEMMA WaitingRestores ==
  ASSUME TypeOK, WaitingHarmless, GroupsCanRestore, test # "called",
         NEW v \in Globals \ disturbed
  PROVE  RestoreGlobalVariables("parent", globals["parent"], mBackupGroup \o mBackupTemp)[v] = initial
<1> DEFINE m == globals["parent"]
<1>1. m \in Memory /\ mBackupGroup \in Seq(Backup) /\ mBackupTemp \in Seq(Backup) /\ "parent" \in Procs
  BY TypesAre, ProcsAre
<1>2. RestoreGlobalVariables("parent", m, mBackupGroup)[v] = initial
  BY DEF GroupsCanRestore, Outside
<1> HIDE DEF m
<1>3. CASE v \in Saved(mBackupGroup)
  BY <1>1, <1>2, <1>3, RestoreConcat DEF m
<1>4. CASE v \notin Saved(mBackupGroup)
  <2>1. m[v] = initial
    BY <1>1, <1>2, <1>4, RestoreIs
  <2>2. RestoreGlobalVariables("parent", m, mBackupTemp)[v] = initial
    <3>1. CASE v \notin Saved(mBackupTemp)
      BY <1>1, <2>1, <3>1, RestoreIs
    <3>2. CASE v \in Saved(mBackupTemp)
      <4>1. PICK i \in 1..Len(mBackupTemp) :
              /\ mBackupTemp[i].var = v
              /\ \A j \in 1..Len(mBackupTemp) : mBackupTemp[j].var = v => i <= j
        BY <1>1, <3>2, FirstBackup
      <4>2. mBackupTemp[i].saved["parent"] = initial
        BY <4>1 DEF WaitingHarmless
      <4>3. QED
        BY <1>1, <4>1, <4>2, RestoreIs
    <3>3. QED
      BY <3>1, <3>2
  <2>3. QED
    BY <1>1, <1>4, <2>2, RestoreConcat DEF m
<1>5. QED
  BY <1>3, <1>4

(* The same after statements of the parent, with their backups behind. *)
LEMMA GroupRestores ==
  ASSUME TypeOK, WaitingHarmless, GroupsCanRestore, test # "called",
         NEW s \in Seq(Statement), NEW v \in Globals \ (disturbed \cup Called(s))
  PROVE  LET m == globals["parent"]
             b == mBackupGroup \o TakenOver(Backups("parent", m, s))
         IN  b \in Seq(Backup) /\ RestoreGlobalVariables("parent", Run(m, s), b)[v] = initial
<1> DEFINE m == globals["parent"]
           c == Backups("parent", m, s)
           b == mBackupGroup \o mBackupTemp
<1>1. m \in Memory /\ mBackupGroup \in Seq(Backup) /\ mBackupTemp \in Seq(Backup) /\ "parent" \in Procs
  BY TypesAre, ProcsAre
<1>2. RestoreGlobalVariables("parent", m, b)[v] = initial
  BY WaitingRestores
<1> HIDE DEF m
<1>3. b \in Seq(Backup) /\ c \in Seq(Backup)
  BY <1>1, SavedConcat, BackupsAre
<1>4. mBackupGroup \o TakenOver(c) = b \o c
  <2> HIDE DEF b, c
  <2>1. PICK x, y, z \in Seq(Backup) : x = mBackupGroup /\ y = mBackupTemp /\ z = c
    BY <1>1, <1>3
  <2>3. (x \o y) \o z = x \o (y \o z)
    BY Regrouped
  <2>2. QED
    BY <2>1, <2>3 DEF b, TakenOver
<1> HIDE DEF b
<1>5. RestoreGlobalVariables("parent", Run(m, s), b \o c)[v] = initial
  BY <1>1, <1>2, <1>3, StatementsUndone
<1>6. b \o c \in Seq(Backup)
  BY <1>3, SavedConcat
<1>7. QED
  BY <1>4, <1>5, <1>6 DEF m

LEMMA EnterGroupSteps ==
  ASSUME IInv, EnterGroup
  PROVE  IInv'
<1> DEFINE m == globals["parent"]
<1> USE DEF IInv
<1>1. PICK mockup \in Mockups, g \in Fixtures :
        LET s == mInstructions \o mockup \o g IN
        /\ MeetMockup(mockup) /\ OpenGroup(s)
        /\ globals' = InParent(Run(m, s))
        /\ mBackupGroup' = mBackupGroup \o TakenOver(Backups("parent", m, s))
        /\ mInstructions' = <<>> /\ mBackupTemp' = <<>>
        /\ disturbed' = disturbed \cup Called(s)
  BY DEF EnterGroup
<1> DEFINE s == mInstructions \o mockup \o g
<1>2. m \in Memory /\ "parent" \in Procs /\ mBackupGroup \in Seq(Backup) /\ mBackupTemp \in Seq(Backup)
  BY TypesAre, ProcsAre
<1>3. s \in Seq(Statement)
  BY TypesAre, StatementsAre, StatementsConcat
<1> HIDE DEF m, s
<1>4. Run(m, s) \in Memory /\ Called(s) \subseteq Globals
      /\ \A v \in Globals \ (Called(s) \cup Assigned(s)) : Run(m, s)[v] = m[v]
  BY <1>2, <1>3, RunIs
<1>5. globals' \in [Procs -> Memory] /\ globals'["parent"] = Run(m, s)
  BY <1>1, <1>2, <1>4, InParentIs DEF s
<1>6. disturbed' = disturbed \cup Called(s) /\ OpenGroup(s)
      /\ mBackupGroup' = mBackupGroup \o TakenOver(Backups("parent", m, s))
  BY <1>1 DEF s
<1>7. TypeOK'
  <2>1. mBackupGroup' \in Seq(Backup)
    <3>1. Backups("parent", m, s) \in Seq(Backup)
      BY <1>2, <1>3, BackupsAre
    <3>2. QED
      BY <1>2, <1>6, <3>1, SavedConcat DEF TakenOver
  <2>2. nMocked' \in 0..MaxMocked
    BY <1>1, MeetMockupTypes
  <2>3. groups' \in Seq(Setups) /\ intact' \in Seq(BOOLEAN)
        /\ phase' \in {"start", "walking", "done"} /\ test' = "none"
    BY <1>3, <1>6, OpenGroupSteps
  <2>4. usingFork' \in BOOLEAN /\ mBackupTest' \in Seq(Backup) /\ entry' \in [Globals -> Values]
        /\ exempt' \subseteq Globals
    BY <1>6 DEF OpenGroup, TypeOK
  <2>5. disturbed' \subseteq Globals
    BY <1>4, <1>6 DEF TypeOK
  <2>6. mInstructions' \in Seq(Statement) /\ mBackupTemp' \in Seq(Backup)
    BY <1>1, EmptySeq
  <2>7. QED
    BY <1>5, <2>1, <2>2, <2>3, <2>4, <2>5, <2>6 DEF TypeOK, Memory, Setups
<1>8. Housekeeping'
  <2>1. Called(<<>>) = {}
    BY DEF Called, Changed
  <2>2. Len(intact') = Len(groups') /\ test = "none" /\ test' = "none"
    BY <1>3, <1>6, OpenGroupSteps
  <2>3. mBackupTest' = mBackupTest
    BY <1>6 DEF OpenGroup
  <2>4. QED
    BY <1>1, <2>1, <2>2, <2>3 DEF Housekeeping
<1>9. TestCanRestore'
  BY <1>3, <1>6, OpenGroupSteps DEF TestCanRestore
<1>10. WaitingHarmless'
  BY <1>1 DEF WaitingHarmless
<1>11. Outside = m /\ Outside' = Run(m, s)
  BY <1>3, <1>5, <1>6, OpenGroupSteps DEF Outside, m
<1>12. GroupsCanRestore'
  <2>1. ASSUME NEW v \in Globals \ disturbed'
        PROVE  RestoreGlobalVariables("parent", Outside', mBackupGroup')[v] = initial
    <3>1. v \in Globals \ (disturbed \cup Called(s))
      BY <1>6
    <3>2. test # "called"
      BY <1>3, <1>6, OpenGroupSteps
    <3>3. QED
      BY <1>3, <1>6, <1>11, <3>1, <3>2, GroupRestores DEF m
  <2>2. QED
    BY <2>1 DEF GroupsCanRestore
<1>13. KeptOutside'
  <2>1. ASSUME NEW i \in 1..Len(groups'), intact'[i],
               NEW v \in (DOMAIN groups'[i]) \ disturbed',
               \A j \in i + 1..Len(groups') : v \notin DOMAIN groups'[j]
        PROVE  Outside'[v] = groups'[i][v]
    <3>1. /\ Len(groups) \in Nat /\ Len(groups') = Len(groups) + 1
          /\ \A k \in 1..Len(groups) : groups'[k] = groups[k] /\ intact'[k] = intact[k]
          /\ groups'[Len(groups) + 1] = Given(s) /\ DOMAIN Given(s) = Assigned(s)
      BY <1>3, <1>6, OpenGroupSteps, TypesAre
    <3>2. CASE i = Len(groups) + 1
      <4>1. v \in Assigned(s) \ Called(s)
        BY <1>6, <2>1, <3>1, <3>2
      <4>2. QED
        BY <1>2, <1>3, <1>11, <3>1, <3>2, <4>1, GivenIs
    <3>3. CASE i \in 1..Len(groups)
      <4>1. v \in DOMAIN groups[i] /\ v \notin disturbed /\ v \notin Called(s) /\ v \in Globals
        BY <1>6, <3>1, <3>3, TypesAre
      <4>2. v \notin Assigned(s)
        <5>1. Len(groups) + 1 \in i + 1..Len(groups')
          BY <3>1, <3>3
        <5>2. QED
          BY <2>1, <3>1, <5>1
      <4>3. Run(m, s)[v] = m[v]
        BY <1>4, <4>1, <4>2
      <4>4. \A j \in i + 1..Len(groups) : v \notin DOMAIN groups[j]
        <5>1. ASSUME NEW j \in i + 1..Len(groups) PROVE v \notin DOMAIN groups[j]
          <6>1. j \in i + 1..Len(groups') /\ j \in 1..Len(groups)
            BY <3>1, <3>3
          <6>2. QED
            BY <2>1, <3>1, <6>1
        <5>2. QED
          BY <5>1
      <4>5. Outside[v] = groups[i][v]
        BY <2>1, <3>1, <3>3, <4>1, <4>4 DEF KeptOutside
      <4>6. QED
        BY <1>11, <3>1, <3>3, <4>3, <4>5
    <3>4. QED
      BY <3>1, <3>2, <3>3
  <2>2. QED
    BY <2>1 DEF KeptOutside
<1>14. QED
  BY <1>7, <1>8, <1>9, <1>10, <1>12, <1>13

LEMMA EnterBareGroupSteps ==
  ASSUME IInv, EnterBareGroup
  PROVE  IInv'
<1> USE DEF IInv
<1>1. PICK mockup \in Mockups :
        /\ MeetMockup(mockup) /\ OpenGroup(<<>>)
        /\ mInstructions' = mInstructions \o mockup
        /\ UNCHANGED <<mBackupTemp, mBackupGroup, globals, disturbed>>
  BY DEF EnterBareGroup
<1>2. <<>> \in Seq(Statement) /\ Assigned(<<>>) = {}
  BY EmptySeq DEF Assigned, Changed
<1>3. /\ groups' \in Seq(Setups) /\ intact' \in Seq(BOOLEAN)
      /\ phase' \in {"start", "walking", "done"}
      /\ Len(groups') = Len(groups) + 1 /\ Len(intact') = Len(groups')
      /\ \A i \in 1..Len(groups) : groups'[i] = groups[i] /\ intact'[i] = intact[i]
      /\ DOMAIN groups'[Len(groups) + 1] = {}
      /\ test = "none" /\ test' = "none"
  BY <1>1, <1>2, OpenGroupSteps
<1>4. mInstructions \in Seq(Statement) /\ mockup \in Seq(Statement) /\ Called(mockup) = {}
  BY TypesAre, StatementsAre
<1>5. TypeOK'
  <2>1. nMocked' \in 0..MaxMocked
    BY <1>1, MeetMockupTypes
  <2>2. mInstructions' \in Seq(Statement)
    BY <1>1, <1>4, StatementsConcat
  <2>3. QED
    BY <1>1, <1>3, <2>1, <2>2 DEF TypeOK, OpenGroup, Setups
<1>6. Housekeeping'
  <2>1. Called(mInstructions') = {}
    BY <1>1, <1>4, StatementsConcat DEF Housekeeping
  <2>2. QED
    BY <1>1, <1>3, <2>1 DEF Housekeeping, OpenGroup
<1>7. TestCanRestore'
  BY <1>3 DEF TestCanRestore
<1>8. WaitingHarmless'
  BY <1>1, <1>3 DEF WaitingHarmless
<1>9. Outside' = Outside
  BY <1>1, <1>3 DEF Outside
<1>10. GroupsCanRestore'
  BY <1>1, <1>9 DEF GroupsCanRestore
<1>11. KeptOutside'
  <2>1. ASSUME NEW i \in 1..Len(groups'), intact'[i],
               NEW v \in (DOMAIN groups'[i]) \ disturbed',
               \A j \in i + 1..Len(groups') : v \notin DOMAIN groups'[j]
        PROVE  Outside'[v] = groups'[i][v]
    <3>1. Len(groups) \in Nat /\ i # Len(groups) + 1
      BY <1>3, <2>1, TypesAre
    <3>2. i \in 1..Len(groups) /\ v \in (DOMAIN groups[i]) \ disturbed
      BY <1>1, <1>3, <3>1
    <3>3. \A j \in i + 1..Len(groups) : j \in i + 1..Len(groups') /\ j \in 1..Len(groups)
      BY <1>3, <3>1, <3>2
    <3>4. \A j \in i + 1..Len(groups) : v \notin DOMAIN groups[j]
      BY <1>3, <2>1, <3>3
    <3>5. QED
      BY <1>3, <1>9, <2>1, <3>2, <3>4 DEF KeptOutside
  <2>2. QED
    BY <2>1 DEF KeptOutside
<1>12. QED
  BY <1>5, <1>6, <1>7, <1>8, <1>10, <1>11

(* A group that is closed takes all backups of groups with it. *)
LEMMA CloseGroupSteps ==
  ASSUME TypeOK, CloseGroup
  PROVE  /\ groups' \in Seq(Setups) /\ intact' \in Seq(BOOLEAN)
         /\ phase' \in {"start", "walking", "done"}
         /\ Len(intact') = Len(groups') /\ \A i \in 1..Len(groups') : ~intact'[i]
         /\ test = "none" /\ test' = "none" /\ mBackupGroup' = <<>>
<1>1. groups \in Seq(Setups) /\ Len(groups) \in Nat
  BY TypesAre
<1>2. groups # <<>> /\ groups' = SubSeq(groups, 1, Len(groups) - 1)
      /\ intact' = [i \in 1..Len(groups) - 1 |-> FALSE]
  BY DEF CloseGroup
<1>3. Len(groups) - 1 \in Nat
  BY <1>1, <1>2, EmptySeq
<1>4. groups' \in Seq(Setups) /\ Len(groups') = Len(groups) - 1
  <2>1. \A i \in 1..Len(groups) - 1 : groups[i] \in Setups
    BY <1>1, ElementOfSeq
  <2>2. PICK n \in Nat : n = Len(groups) - 1
    BY <1>3
  <2>3. /\ SubSeq(groups, 1, n) \in Seq(Setups)
        /\ Len(SubSeq(groups, 1, n)) = IF 1 <= n THEN n - 1 + 1 ELSE 0
    BY <2>1, <2>2, SubSeqProperties
  <2>4. QED
    BY <1>2, <2>2, <2>3
<1>5. intact' \in Seq(BOOLEAN) /\ Len(intact') = Len(groups) - 1
      /\ \A i \in 1..Len(groups) - 1 : ~intact'[i]
  <2>1. intact' \in [1..Len(groups) - 1 -> BOOLEAN]
    BY <1>2
  <2>2. intact' \in Seq(BOOLEAN)
    BY <1>3, <2>1, SeqDef
  <2>3. DOMAIN intact' = 1..Len(groups) - 1
    BY <1>2
  <2>4. Len(intact') \in Nat /\ 1..Len(intact') = 1..Len(groups) - 1
    BY <2>2, <2>3, LenProperties
  <2>5. QED
    BY <1>2, <1>3, <2>2, <2>4
<1>6. QED
  BY <1>4, <1>5 DEF CloseGroup, TypeOK

(* Without groups' backups, the groups have restored what they have to. *)
LEMMA NothingToRestore ==
  ASSUME TypeOK', mBackupGroup' = <<>>,
         \A v \in Globals \ disturbed' : Outside'[v] = initial
  PROVE  GroupsCanRestore'
<1>1. PICK m \in Memory : m = Outside'
  BY DEF TypeOK, Outside, Memory, Procs
<1>2. PICK b : b = <<>>
  OBVIOUS
<1>3. b \in Seq(Backup) /\ \A v : v \notin Saved(b)
  BY <1>2, EmptySeq DEF Saved
<1>4. \A v \in Globals : RestoreGlobalVariables("parent", m, b)[v] = m[v]
  BY <1>3, RestoreIs, ProcsAre
<1>5. QED
  BY <1>1, <1>2, <1>4 DEF GroupsCanRestore

LEMMA LeaveGroupSteps ==
  ASSUME IInv, LeaveGroup
  PROVE  IInv'
<1> DEFINE m == globals["parent"]
<1> USE DEF IInv
<1>1. PICK g \in Fixtures :
        LET s == mInstructions \o g IN
        /\ CloseGroup
        /\ globals' = InParent(RestoreGlobalVariables("parent", Run(m, s), BackupsAtTeardown(s)))
        /\ mInstructions' = <<>> /\ mBackupTemp' = <<>>
        /\ disturbed' = disturbed \cup Called(s)
  BY DEF LeaveGroup
<1> DEFINE s == mInstructions \o g
           b == mBackupGroup \o TakenOver(Backups("parent", m, s))
           after == RestoreGlobalVariables("parent", Run(m, s), b)
<1>2. m \in Memory /\ "parent" \in Procs /\ s \in Seq(Statement)
      /\ mBackupGroup \in Seq(Backup) /\ mBackupTemp \in Seq(Backup)
  BY TypesAre, ProcsAre, StatementsAre, StatementsConcat
<1>3. globals' = InParent(after) /\ disturbed' = disturbed \cup Called(s)
  BY <1>1 DEF BackupsAtTeardown
<1>4. test # "called"
  BY <1>1 DEF CloseGroup
<1>5. \A v \in Globals \ (disturbed \cup Called(s)) : after[v] = initial
  <2> HIDE DEF s
  <2>1. QED
    BY <1>2, <1>4, GroupRestores
<1> HIDE DEF s, m
<1>6. b \in Seq(Backup)
  BY <1>2, BackupsAre, SavedConcat DEF TakenOver
<1> HIDE DEF b
<1>7. after \in Memory
  BY <1>2, <1>6, RunIs, RestoreIs
<1> HIDE DEF after
<1>8. globals' \in [Procs -> Memory] /\ globals'["parent"] = after
  BY <1>2, <1>3, <1>7, InParentIs
<1>9. /\ groups' \in Seq(Setups) /\ intact' \in Seq(BOOLEAN)
      /\ phase' \in {"start", "walking", "done"}
      /\ Len(intact') = Len(groups') /\ \A i \in 1..Len(groups') : ~intact'[i]
      /\ test = "none" /\ test' = "none" /\ mBackupGroup' = <<>>
  BY <1>1, CloseGroupSteps
<1>10. TypeOK'
  <2>1. disturbed' \subseteq Globals
    BY <1>2, <1>3, RunIs DEF TypeOK
  <2>2. mInstructions' \in Seq(Statement) /\ mBackupTemp' \in Seq(Backup) /\ mBackupGroup' \in Seq(Backup)
    BY <1>1, <1>9, EmptySeq
  <2>3. QED
    BY <1>1, <1>8, <1>9, <2>1, <2>2 DEF TypeOK, CloseGroup, Memory, Setups
<1>11. Housekeeping'
  <2>1. Called(<<>>) = {}
    BY DEF Called, Changed
  <2>2. QED
    BY <1>1, <1>9, <2>1 DEF Housekeeping, CloseGroup
<1>12. TestCanRestore'
  BY <1>9 DEF TestCanRestore
<1>13. WaitingHarmless'
  BY <1>1 DEF WaitingHarmless
<1>14. GroupsCanRestore'
  <2>1. \A v \in Globals \ disturbed' : Outside'[v] = initial
    BY <1>3, <1>5, <1>8, <1>9 DEF Outside
  <2>2. QED
    BY <1>9, <1>10, <2>1, NothingToRestore
<1>15. KeptOutside'
  BY <1>9 DEF KeptOutside
<1>16. QED
  BY <1>10, <1>11, <1>12, <1>13, <1>14, <1>15

LEMMA CleanUpGroupSteps ==
  ASSUME IInv, CleanUpGroup
  PROVE  IInv'
<1> DEFINE m == globals["parent"]
           s == mInstructions
           c == Backups("parent", m, s)
           after == RestoreGlobalVariables("parent", Run(m, s), mBackupGroup)
<1> USE DEF IInv
<1>1. /\ CloseGroup
      /\ globals' = InParent(after) /\ mInstructions' = <<>>
      /\ mBackupTemp' = mBackupTemp \o c
      /\ disturbed' = disturbed \cup Assigned(s)
  BY DEF CleanUpGroup, TakenOver
<1>2. /\ m \in Memory /\ "parent" \in Procs /\ s \in Seq(Statement)
      /\ mBackupGroup \in Seq(Backup) /\ mBackupTemp \in Seq(Backup)
  BY TypesAre, ProcsAre
<1>3. c \in Seq(Backup) /\ Saved(c) = Assigned(s) /\ Run(m, s) \in Memory /\ Assigned(s) \subseteq Globals
  <2> HIDE DEF m
  <2>1. QED
    BY <1>2, BackupsAre, RunIs
<1>4. Called(s) = {}
  BY DEF Housekeeping
<1>5. /\ groups' \in Seq(Setups) /\ intact' \in Seq(BOOLEAN)
      /\ phase' \in {"start", "walking", "done"}
      /\ Len(intact') = Len(groups') /\ \A i \in 1..Len(groups') : ~intact'[i]
      /\ test = "none" /\ test' = "none" /\ mBackupGroup' = <<>>
  BY <1>1, CloseGroupSteps
<1>6. \A v \in Globals \ disturbed : RestoreGlobalVariables("parent", m, mBackupGroup)[v] = initial
  BY <1>5 DEF GroupsCanRestore, Outside
<1> HIDE DEF m, s, c
<1>7. \A v \in Globals \ (disturbed \cup Assigned(s)) : after[v] = initial
  <2>1. ASSUME NEW v \in Globals \ (disturbed \cup Assigned(s)) PROVE after[v] = initial
    <3>1. Run(m, s)[v] = m[v]
      BY <1>2, <1>4, RunIs
    <3>2. after[v] = RestoreGlobalVariables("parent", m, mBackupGroup)[v]
      BY <1>2, <1>3, <3>1, RestoreAgrees DEF after
    <3>3. QED
      BY <1>6, <3>2
  <2>2. QED
    BY <2>1
<1>8. after \in Memory
  BY <1>2, <1>3, RestoreIs
<1> HIDE DEF after
<1>9. globals' \in [Procs -> Memory] /\ globals'["parent"] = after
  BY <1>1, <1>2, <1>8, InParentIs
<1>10. TypeOK'
  <2>1. disturbed' \subseteq Globals
    BY <1>1, <1>3 DEF TypeOK
  <2>2. mInstructions' \in Seq(Statement) /\ mBackupTemp' \in Seq(Backup) /\ mBackupGroup' \in Seq(Backup)
    BY <1>1, <1>2, <1>3, <1>5, EmptySeq, SavedConcat
  <2>3. QED
    BY <1>1, <1>5, <1>9, <2>1, <2>2 DEF TypeOK, CloseGroup, Memory, Setups
<1>11. Housekeeping'
  <2>1. Called(<<>>) = {}
    BY DEF Called, Changed
  <2>2. QED
    BY <1>1, <1>5, <2>1 DEF Housekeeping, CloseGroup
<1>12. TestCanRestore'
  BY <1>5 DEF TestCanRestore
<1>13. WaitingHarmless'
  <2>1. ASSUME NEW k \in 1..Len(mBackupTemp')
        PROVE  mBackupTemp'[k].var \in disturbed' \/ mBackupTemp'[k].saved["parent"] = initial
    <3>1. CASE \E i \in 1..Len(mBackupTemp) : mBackupTemp'[k] = mBackupTemp[i]
      BY <1>1, <1>5, <3>1 DEF WaitingHarmless
    <3>2. CASE \E i \in 1..Len(c) : mBackupTemp'[k] = c[i]
      <4>1. \A i \in 1..Len(c) : c[i].var \in Saved(c)
        BY DEF Saved
      <4>2. QED
        BY <1>1, <1>3, <3>2, <4>1
    <3>3. QED
      BY <1>1, <1>2, <1>3, <3>1, <3>2, ConcatElements
  <2>2. QED
    BY <2>1 DEF WaitingHarmless
<1>14. GroupsCanRestore'
  <2>1. \A v \in Globals \ disturbed' : Outside'[v] = initial
    BY <1>1, <1>5, <1>7, <1>9 DEF Outside
  <2>2. QED
    BY <1>5, <1>10, <2>1, NothingToRestore
<1>15. KeptOutside'
  BY <1>5 DEF KeptOutside
<1>16. QED
  BY <1>10, <1>11, <1>12, <1>13, <1>14, <1>15

LEMMA LeaveBareGroupSteps ==
  ASSUME IInv, LeaveBareGroup
  PROVE  IInv'
<1> USE DEF IInv
<1>1. CloseGroup /\ UNCHANGED <<mInstructions, mBackupTemp, globals, disturbed>> /\ mBackupGroup = <<>>
  BY DEF LeaveBareGroup, pending
<1>2. /\ groups' \in Seq(Setups) /\ intact' \in Seq(BOOLEAN)
      /\ phase' \in {"start", "walking", "done"}
      /\ Len(intact') = Len(groups') /\ \A i \in 1..Len(groups') : ~intact'[i]
      /\ test = "none" /\ test' = "none" /\ mBackupGroup' = <<>>
  BY <1>1, CloseGroupSteps
<1>3. TypeOK'
  BY <1>1, <1>2 DEF TypeOK, CloseGroup, Setups
<1>4. Housekeeping'
  BY <1>1, <1>2 DEF Housekeeping, CloseGroup
<1>5. TestCanRestore'
  BY <1>2 DEF TestCanRestore
<1>6. WaitingHarmless'
  BY <1>1, <1>2 DEF WaitingHarmless
<1>7. GroupsCanRestore'
  BY <1>1, <1>2 DEF GroupsCanRestore, Outside
<1>8. KeptOutside'
  BY <1>2 DEF KeptOutside
<1>9. QED
  BY <1>3, <1>4, <1>5, <1>6, <1>7, <1>8

(***************************************************************************)
(* Tests                                                                   *)
(***************************************************************************)

LEMMA CallFudIs ==
  ASSUME NEW fud \in CallFud
  PROVE  fud \in Seq(Statement) /\ Assigned(fud) = {} /\ Called(fud) \subseteq Globals
<1>1. CASE fud = <<>>
  BY <1>1, EmptySeq DEF Called, Assigned, Changed
<1>2. CASE fud # <<>>
  <2>1. PICK c \in Statement : c.op = "call" /\ fud = <<c>>
    BY <1>2 DEF CallFud
  <2>2. fud \in Seq(Statement) /\ Len(fud) = 1 /\ fud[1] = c
    BY <2>1
  <2>3. \A i \in 1..Len(fud) : fud[i] = c
    BY <2>2
  <2>4. Assigned(fud) = {}
    BY <2>1, <2>3 DEF Assigned, Changed
  <2>5. Called(fud) \subseteq Globals
    BY <2>2, RunIs, StatementFields DEF Called, Changed
  <2>6. QED
    BY <2>2, <2>4, <2>5
<1>3. QED
  BY <1>1, <1>2

(* A test that starts with the statements s can restore its backups, whichever
   variable the function under test changes: those of s lie behind those that
   wait, which are about exempt variables. *)
LEMMA StartedTestRestores ==
  ASSUME NEW p \in Procs, NEW m \in Memory, NEW s \in Seq(Statement), NEW fud \in CallFud,
         NEW b \in Seq(Backup),
         NEW v \in Globals \ (Called(s \o fud) \cup Saved(b))
  PROVE  RestoreGlobalVariables(p, Run(m, s \o fud), b \o Backups(p, m, s))[v] = m[v]
<1> DEFINE c == Backups(p, m, s)
           n == Run(m, s \o fud)
<1>1. /\ fud \in Seq(Statement) /\ s \o fud \in Seq(Statement)
      /\ Called(s \o fud) = Called(s) \cup Called(fud) /\ Assigned(s \o fud) = Assigned(s)
  <2>1. fud \in Seq(Statement) /\ Assigned(fud) = {}
    BY CallFudIs
  <2>2. /\ s \o fud \in Seq(Statement) /\ Called(s \o fud) = Called(s) \cup Called(fud)
        /\ Assigned(s \o fud) = Assigned(s) \cup Assigned(fud)
    BY <2>1, StatementsConcat
  <2>3. QED
    BY <2>1, <2>2
<1>2. c \in Seq(Backup) /\ Saved(c) = Assigned(s) /\ n \in Memory /\ Run(m, s) \in Memory
  BY <1>1, BackupsAre, RunIs
<1>3. v \notin Assigned(s) => n[v] = m[v]
  BY <1>1, RunIs
<1>4. RestoreGlobalVariables(p, Run(m, s), c)[v] = m[v]
  BY <1>1, OwnUndone
<1> HIDE DEF c, n
<1>5. RestoreGlobalVariables(p, n, b \o c)[v] = RestoreGlobalVariables(p, n, c)[v]
  BY <1>2, RestoreConcat
<1>6. RestoreGlobalVariables(p, n, c)[v] = RestoreGlobalVariables(p, Run(m, s), c)[v]
  <2>1. v \notin Assigned(s) => Run(m, s)[v] = m[v]
    BY <1>1, RunIs
  <2>2. QED
    BY <1>2, <1>3, <2>1, RestoreAgrees
<1>7. QED
  BY <1>4, <1>5, <1>6 DEF c, n

(* What all tests start with: the groups see nothing of it. *)
LEMMA StartTestSteps ==
  ASSUME IInv, NEW s \in Seq(Statement), StartTest(s)
  PROVE  /\ globals' \in [Procs -> Memory] /\ exempt' \subseteq Globals /\ test # "called"
         /\ Runner' = Runner /\ Housekeeping' /\ GroupsCanRestore' /\ KeptOutside'
         /\ Saved(mBackupTemp) \subseteq exempt'
         /\ \A v \in Globals \ exempt' :
              RestoreGlobalVariables(Runner', globals'[Runner'],
                                     mBackupTemp \o Backups(Runner, globals["parent"], s))[v] = entry'[v]
<1> DEFINE m == globals["parent"]
<1> USE DEF IInv
<1>1. PICK fud \in CallFud :
        /\ globals' = [globals EXCEPT ![Runner] = Run(m, s \o fud)]
        /\ exempt' = Called(s \o fud) \cup Saved(mBackupTemp)
  BY DEF StartTest
<1>2. /\ test = "none" /\ test' = "called" /\ entry' = m /\ mInstructions' = <<>>
      /\ UNCHANGED <<usingFork, phase, groups, mBackupGroup, disturbed, intact>>
  BY DEF StartTest
<1>3. m \in Memory /\ Runner \in Procs /\ mBackupTemp \in Seq(Backup)
      /\ globals \in [Procs -> Memory] /\ "parent" \in Procs
  BY TypesAre, ProcsAre DEF TypeOK, Memory
<1>4. Runner' = Runner
  BY <1>2 DEF Runner
<1> HIDE DEF m
<1>5. s \o fud \in Seq(Statement)
  <2>1. fud \in Seq(Statement)
    BY CallFudIs
  <2>2. QED
    BY <2>1, StatementsConcat
<1>6. Run(m, s \o fud) \in Memory /\ Called(s \o fud) \subseteq Globals
  BY <1>3, <1>5, RunIs
<1>7. globals' \in [Procs -> Memory] /\ globals'[Runner] = Run(m, s \o fud)
      /\ (Runner # "parent" => globals'["parent"] = m)
  BY <1>1, <1>3, <1>6 DEF m
<1>8. exempt' \subseteq Globals
  <2>1. Saved(mBackupTemp) \subseteq Globals
    BY <1>3, SavedGlobals
  <2>2. QED
    BY <1>1, <1>6, <2>1
<1>9. Outside = m /\ Outside' = m
  BY <1>2 DEF Outside, m
<1>10. Housekeeping'
  <2>1. Called(<<>>) = {}
    BY DEF Called, Changed
  <2>2. usingFork' => Runner # "parent"
    BY <1>2 DEF Runner
  <2>3. QED
    BY <1>2, <1>7, <2>1, <2>2 DEF Housekeeping
<1>11. GroupsCanRestore' /\ KeptOutside'
  BY <1>2, <1>9 DEF GroupsCanRestore, KeptOutside
<1>12. ASSUME NEW v \in Globals \ exempt'
       PROVE  RestoreGlobalVariables(Runner', globals'[Runner'],
                                     mBackupTemp \o Backups(Runner, m, s))[v] = entry'[v]
  <2>1. v \in Globals \ (Called(s \o fud) \cup Saved(mBackupTemp))
    BY <1>1
  <2>2. RestoreGlobalVariables(Runner, Run(m, s \o fud), mBackupTemp \o Backups(Runner, m, s))[v] = m[v]
    BY <1>3, <2>1, StartedTestRestores
  <2>3. QED
    BY <1>2, <1>4, <1>7, <2>2
<1>13. QED
  BY <1>1, <1>2, <1>4, <1>7, <1>8, <1>10, <1>11, <1>12 DEF m

LEMMA StartTestWithBeforeSteps ==
  ASSUME IInv, StartTestWithBefore
  PROVE  IInv'
<1> DEFINE m == globals["parent"]
<1> USE DEF IInv
<1>1. PICK mockup \in Mockups, g \in Fixtures :
        LET s == mInstructions \o mockup \o g IN
        /\ MeetMockup(mockup) /\ StartTest(s)
        /\ mBackupTest' = TakenOver(Backups(Runner, m, s))
        /\ mBackupTemp' = <<>>
  BY DEF StartTestWithBefore
<1> DEFINE s == mInstructions \o mockup \o g
           c == Backups(Runner, m, s)
<1>2. m \in Memory /\ Runner \in Procs /\ mBackupTemp \in Seq(Backup) /\ s \in Seq(Statement)
  BY TypesAre, ProcsAre, StatementsAre, StatementsConcat
<1>3. StartTest(s) /\ mBackupTest' = mBackupTemp \o c /\ mBackupTemp' = <<>>
  BY <1>1 DEF TakenOver
<1> HIDE DEF s
<1>4. /\ globals' \in [Procs -> Memory] /\ exempt' \subseteq Globals
      /\ Housekeeping' /\ GroupsCanRestore' /\ KeptOutside'
      /\ \A v \in Globals \ exempt' :
           RestoreGlobalVariables(Runner', globals'[Runner'], mBackupTemp \o c)[v] = entry'[v]
  BY <1>2, <1>3, StartTestSteps
<1>5. mBackupTemp \o c \in Seq(Backup)
  <2> HIDE DEF m
  <2>1. QED
    BY <1>2, BackupsAre, SavedConcat
<1> HIDE DEF c
<1>6. TypeOK'
  <2>1. nMocked' \in 0..MaxMocked
    BY <1>1, MeetMockupTypes
  <2>2. mInstructions' \in Seq(Statement) /\ mBackupTemp' \in Seq(Backup)
    BY <1>3, EmptySeq DEF StartTest
  <2>3. entry' = m /\ test' = "called"
    BY <1>3 DEF StartTest
  <2>4. QED
    BY <1>2, <1>3, <1>4, <1>5, <2>1, <2>2, <2>3 DEF TypeOK, StartTest, Memory
<1>7. TestCanRestore'
  <2>1. mBackupTest' \o mBackupTemp' = mBackupTemp \o c
    BY <1>3, <1>5, ConcatEmptySeq
  <2>2. QED
    BY <1>4, <2>1 DEF TestCanRestore
<1>8. WaitingHarmless'
  BY <1>3 DEF WaitingHarmless
<1>9. QED
  BY <1>4, <1>6, <1>7, <1>8

LEMMA StartTestWithoutBeforeSteps ==
  ASSUME IInv, StartTestWithoutBefore
  PROVE  IInv'
<1> DEFINE m == globals["parent"]
<1> USE DEF IInv
<1>1. PICK mockup \in Mockups :
        LET s == mInstructions \o mockup IN
        /\ MeetMockup(mockup) /\ StartTest(s)
        /\ mBackupTemp' = mBackupTemp \o Backups(Runner, m, s)
        /\ UNCHANGED mBackupTest
  BY DEF StartTestWithoutBefore
<1> DEFINE s == mInstructions \o mockup
           c == Backups(Runner, m, s)
<1>2. m \in Memory /\ Runner \in Procs /\ mBackupTemp \in Seq(Backup) /\ s \in Seq(Statement)
  BY TypesAre, ProcsAre, StatementsAre, StatementsConcat
<1>3. StartTest(s) /\ mBackupTemp' = mBackupTemp \o c /\ mBackupTest' = mBackupTest
  BY <1>1
<1> HIDE DEF s
<1>4. /\ globals' \in [Procs -> Memory] /\ exempt' \subseteq Globals /\ test # "called"
      /\ Housekeeping' /\ GroupsCanRestore' /\ KeptOutside'
      /\ \A v \in Globals \ exempt' :
           RestoreGlobalVariables(Runner', globals'[Runner'], mBackupTemp \o c)[v] = entry'[v]
  BY <1>2, <1>3, StartTestSteps
<1>5. c \in Seq(Backup) /\ mBackupTemp \o c \in Seq(Backup)
  <2> HIDE DEF m
  <2>1. QED
    BY <1>2, BackupsAre, SavedConcat
<1>6. TypeOK'
  <2> HIDE DEF c
  <2>1. nMocked' \in 0..MaxMocked
    BY <1>1, MeetMockupTypes
  <2>2. mInstructions' \in Seq(Statement)
    BY <1>3, EmptySeq DEF StartTest
  <2>3. entry' = m /\ test' = "called"
    BY <1>3 DEF StartTest
  <2>4. QED
    BY <1>2, <1>3, <1>4, <1>5, <2>1, <2>2, <2>3 DEF TypeOK, StartTest, Memory
<1>7. TestCanRestore'
  <2> HIDE DEF c
  <2>1. mBackupTest' \o mBackupTemp' = mBackupTemp \o c
    <3>1. mBackupTest' = <<>>
      BY <1>3, <1>4 DEF Housekeeping
    <3>2. QED
      BY <1>3, <1>5, <3>1, ConcatEmptySeq
  <2>2. QED
    BY <1>4, <2>1 DEF TestCanRestore
<1>8. WaitingHarmless'
  <2>1. ASSUME usingFork, NEW j \in 1..Len(c) PROVE c[j].saved["parent"] = initial
    <3>1. Runner = "child"
      BY <2>1 DEF Runner
    <3>2. \E value : c[j].saved = MadeBy(Runner, value)
      <4> HIDE DEF m
      <4>1. QED
        BY <1>2, BackupsAre
    <3>3. QED
      BY <3>1, <3>2 DEF MadeBy, Procs
  <2>2. test' = "called" /\ usingFork' = usingFork /\ disturbed' = disturbed
    BY <1>3 DEF StartTest
  <2> HIDE DEF c
  <2>3. ASSUME NEW k \in 1..Len(mBackupTemp'), usingFork
        PROVE  mBackupTemp'[k].var \in disturbed' \/ mBackupTemp'[k].saved["parent"] = initial
    <3>1. CASE \E i \in 1..Len(mBackupTemp) : mBackupTemp'[k] = mBackupTemp[i]
      BY <1>4, <2>2, <3>1 DEF WaitingHarmless
    <3>2. CASE \E i \in 1..Len(c) : mBackupTemp'[k] = c[i]
      BY <2>1, <2>3, <3>2
    <3>3. QED
      BY <1>2, <1>3, <1>5, <3>1, <3>2, ConcatElements
  <2>4. usingFork \in BOOLEAN
    BY DEF TypeOK
  <2>5. QED
    BY <2>2, <2>3, <2>4 DEF WaitingHarmless
<1>9. QED
  BY <1>4, <1>6, <1>7, <1>8

(* What all tests end with, when the variables they need not exempt are restored:
   the groups see nothing but what counts as disturbed. *)
LEMMA EndTestSteps ==
  ASSUME IInv, NEW s \in Seq(Statement), NEW b \in Seq(Backup), EndTest(s, b),
         exempt' \subseteq Globals,
         \A v \in Globals \ exempt' :
           RestoreGlobalVariables(Runner, Run(globals[Runner], s), b)[v] = entry[v]
  PROVE  /\ globals' \in [Procs -> Memory] /\ entry' \in Memory /\ disturbed' \subseteq Globals
         /\ mBackupTest' \in Seq(Backup) /\ test' = "over"
         /\ Housekeeping' /\ TestCanRestore' /\ GroupsCanRestore' /\ KeptOutside'
         /\ \A v \in Globals \ exempt' : globals'[Runner][v] = entry[v]
<1> DEFINE m == globals[Runner]
           after == RestoreGlobalVariables(Runner, Run(m, s), b)
<1> USE DEF IInv
<1>1. /\ test = "called" /\ test' = "over"
      /\ globals' = [globals EXCEPT ![Runner] = after]
      /\ disturbed' = disturbed \cup IF usingFork THEN {} ELSE exempt'
      /\ mBackupTest' = <<>> /\ entry' = [v \in Globals |-> initial]
      /\ UNCHANGED <<usingFork, phase, nMocked, groups, mInstructions, mBackupGroup, intact>>
  BY DEF EndTest, TestRestores
<1>2. m \in Memory /\ Runner \in Procs /\ globals \in [Procs -> Memory] /\ "parent" \in Procs
  BY TypesAre, ProcsAre DEF TypeOK, Memory
<1>3. \A v \in Globals \ exempt' : after[v] = entry[v]
  OBVIOUS
<1> HIDE DEF m
<1>4. after \in Memory
  BY <1>2, RunIs, RestoreIs
<1> HIDE DEF after
<1>5. globals' \in [Procs -> Memory] /\ globals'[Runner] = after
      /\ (Runner # "parent" => globals'["parent"] = globals["parent"])
  BY <1>1, <1>2, <1>4
<1>6. entry' \in Memory /\ disturbed' \subseteq Globals /\ mBackupTest' \in Seq(Backup)
  BY <1>1, BackupAssumption, EmptySeq DEF Memory, TypeOK
<1>7. Housekeeping'
  BY <1>1 DEF Housekeeping
<1>8. TestCanRestore'
  BY <1>1 DEF TestCanRestore
<1>9. ASSUME NEW v \in Globals \ disturbed' PROVE Outside'[v] = Outside[v]
  <2>1. Outside = entry /\ Outside' = globals'["parent"]
    BY <1>1 DEF Outside
  <2>2. CASE usingFork
    <3>1. Runner # "parent" /\ entry = globals["parent"]
      BY <1>1, <2>2 DEF Runner, Housekeeping
    <3>2. QED
      BY <1>5, <2>1, <3>1
  <2>3. CASE ~usingFork
    BY <1>1, <1>3, <1>5, <2>1, <2>3 DEF Runner
  <2>4. QED
    BY <2>2, <2>3
<1>10. GroupsCanRestore'
  <2>1. ASSUME NEW v \in Globals \ disturbed'
        PROVE  RestoreGlobalVariables("parent", Outside', mBackupGroup')[v] = initial
    <3>1. PICK m1 \in Memory, m2 \in Memory : m1 = Outside /\ m2 = Outside'
      BY <1>1, <1>2, <1>5, TypesAre DEF Outside
    <3>2. mBackupGroup' = mBackupGroup /\ mBackupGroup \in Seq(Backup) /\ m2[v] = m1[v]
      BY <1>1, <1>9, <3>1, TypesAre
    <3>3. RestoreGlobalVariables("parent", m1, mBackupGroup)[v] = initial
      BY <1>1, <3>1 DEF GroupsCanRestore
    <3>4. RestoreGlobalVariables("parent", m2, mBackupGroup)[v]
            = RestoreGlobalVariables("parent", m1, mBackupGroup)[v]
      BY <1>2, <3>1, <3>2, RestoreAgrees
    <3>5. QED
      BY <3>1, <3>2, <3>3, <3>4
  <2>2. QED
    BY <2>1 DEF GroupsCanRestore
<1>11. KeptOutside'
  <2>1. ASSUME NEW i \in 1..Len(groups), intact[i], NEW v \in (DOMAIN groups[i]) \ disturbed',
               \A j \in i + 1..Len(groups) : v \notin DOMAIN groups[j]
        PROVE  Outside'[v] = groups[i][v]
    <3>1. v \in Globals /\ v \notin disturbed
      BY <1>1, <2>1, TypesAre
    <3>2. Outside[v] = groups[i][v]
      BY <2>1, <3>1 DEF KeptOutside
    <3>3. QED
      BY <1>9, <2>1, <3>1, <3>2
  <2>2. QED
    BY <1>1, <2>1 DEF KeptOutside
<1>12. QED
  BY <1>1, <1>3, <1>5, <1>6, <1>7, <1>8, <1>10, <1>11

(* What the statements of after and the backups restored at the end of a test
   leave in the variables the test need not exempt. *)
LEMMA AfterRestores ==
  ASSUME IInv, test = "called", NEW g \in Seq(Statement)
  PROVE  LET m == globals[Runner]
             b == mBackupTest \o TakenOver(Backups(Runner, m, g))
         IN  /\ b \in Seq(Backup)
             /\ \A v \in Globals \ (exempt \cup Called(g)) :
                  RestoreGlobalVariables(Runner, Run(m, g), b)[v] = entry[v]
<1> DEFINE m == globals[Runner]
           c == Backups(Runner, m, g)
           d == mBackupTest \o mBackupTemp
<1> USE DEF IInv
<1>1. m \in Memory /\ Runner \in Procs /\ mBackupTest \in Seq(Backup) /\ mBackupTemp \in Seq(Backup)
  BY TypesAre, ProcsAre
<1>2. \A v \in Globals \ exempt : RestoreGlobalVariables(Runner, m, d)[v] = entry[v]
  BY DEF TestCanRestore
<1> HIDE DEF m
<1>3. c \in Seq(Backup) /\ d \in Seq(Backup)
  BY <1>1, BackupsAre, SavedConcat
<1>4. mBackupTest \o TakenOver(c) = d \o c
  <2> HIDE DEF c, IInv
  <2>1. QED
    BY <1>1, <1>3, Regrouped DEF TakenOver
<1>5. d \o c \in Seq(Backup)
  BY <1>3, SavedConcat
<1> HIDE DEF d
<1>6. ASSUME NEW v \in Globals \ (exempt \cup Called(g))
      PROVE  RestoreGlobalVariables(Runner, Run(m, g), d \o c)[v] = entry[v]
  <2>1. RestoreGlobalVariables(Runner, Run(m, g), d \o c)[v] = RestoreGlobalVariables(Runner, m, d)[v]
    BY <1>1, <1>3, StatementsUndone
  <2>2. QED
    BY <1>2, <2>1
<1>7. QED
  BY <1>4, <1>5, <1>6 DEF m

(* A test with after takes over the backups that wait and its own. *)
LEMMA EndTestWithAfterSteps ==
  ASSUME IInv, EndTestWithAfter
  PROVE  /\ IInv'
         /\ \A v \in Globals \ exempt' : globals'[Runner][v] = entry[v]
<1> DEFINE m == globals[Runner]
<1> USE DEF IInv
<1>1. PICK g \in Fixtures :
        /\ exempt' = exempt \cup Called(g)
        /\ EndTest(g, mBackupTest \o TakenOver(Backups(Runner, m, g)))
        /\ mBackupTemp' = <<>>
  BY DEF EndTestWithAfter
<1> DEFINE b == mBackupTest \o TakenOver(Backups(Runner, m, g))
<1>2. g \in Seq(Statement) /\ test = "called"
  BY <1>1, StatementsAre DEF EndTest
<1>3. b \in Seq(Backup)
      /\ \A v \in Globals \ exempt' : RestoreGlobalVariables(Runner, Run(m, g), b)[v] = entry[v]
  BY <1>1, <1>2, AfterRestores
<1>4. exempt' \subseteq Globals
  <2>1. m \in Memory
    BY TypesAre
  <2>2. Called(g) \subseteq Globals
    BY <1>2, <2>1, RunIs
  <2>3. QED
    BY <1>1, <2>2 DEF TypeOK
<1>5. EndTest(g, b)
  BY <1>1
<1> HIDE DEF b
<1>6. /\ globals' \in [Procs -> Memory] /\ entry' \in Memory /\ disturbed' \subseteq Globals
      /\ mBackupTest' \in Seq(Backup) /\ test' = "over"
      /\ Housekeeping' /\ TestCanRestore' /\ GroupsCanRestore' /\ KeptOutside'
      /\ \A v \in Globals \ exempt' : globals'[Runner][v] = entry[v]
  BY <1>2, <1>3, <1>4, <1>5, EndTestSteps
<1>7. TypeOK'
  <2>1. mBackupTemp' \in Seq(Backup)
    BY <1>1, EmptySeq
  <2>2. QED
    BY <1>4, <1>5, <1>6, <2>1 DEF TypeOK, EndTest, Memory
<1>8. WaitingHarmless'
  BY <1>1 DEF WaitingHarmless
<1>9. QED
  BY <1>6, <1>7, <1>8

(* A test without after leaves the backups that wait, and exempts their variables. *)
LEMMA EndTestWithoutAfterSteps ==
  ASSUME IInv, EndTestWithoutAfter
  PROVE  /\ IInv'
         /\ \A v \in Globals \ exempt' : globals'[Runner][v] = entry[v]
<1> DEFINE m == globals[Runner]
<1> USE DEF IInv
<1>1. /\ exempt' = exempt \cup Saved(mBackupTemp)
      /\ EndTest(<<>>, mBackupTest) /\ mBackupTemp' = mBackupTemp
  BY DEF EndTestWithoutAfter
<1>2. PICK s \in Seq(Statement) : s = <<>> /\ Called(s) = {} /\ Assigned(s) = {}
  <2>1. <<>> \in Seq(Statement) /\ Called(<<>>) = {} /\ Assigned(<<>>) = {}
    BY EmptySeq DEF Called, Assigned, Changed
  <2>2. QED
    BY <2>1
<1>3. m \in Memory /\ Runner \in Procs /\ mBackupTest \in Seq(Backup) /\ mBackupTemp \in Seq(Backup)
  BY TypesAre, ProcsAre
<1>4. test = "called"
  BY <1>1 DEF EndTest
<1>5. \A v \in Globals \ exempt :
        RestoreGlobalVariables(Runner, m, mBackupTest \o mBackupTemp)[v] = entry[v]
  BY <1>4 DEF TestCanRestore
<1>6. EndTest(s, mBackupTest)
  BY <1>1, <1>2
<1> HIDE DEF m
<1>7. exempt' \subseteq Globals
  <2>1. Saved(mBackupTemp) \subseteq Globals
    BY <1>3, SavedGlobals
  <2>2. QED
    BY <1>1, <2>1 DEF TypeOK
<1>8. ASSUME NEW v \in Globals \ exempt'
      PROVE  RestoreGlobalVariables(Runner, Run(m, s), mBackupTest)[v] = entry[v]
  <2>1. v \in Globals \ exempt /\ v \notin Saved(mBackupTemp)
    BY <1>1
  <2>2. Run(m, s) \in Memory /\ Run(m, s)[v] = m[v]
    BY <1>2, <1>3, RunIs
  <2>3. RestoreGlobalVariables(Runner, Run(m, s), mBackupTest)[v]
          = RestoreGlobalVariables(Runner, m, mBackupTest)[v]
    BY <1>3, <2>2, RestoreAgrees
  <2>4. RestoreGlobalVariables(Runner, m, mBackupTest \o mBackupTemp)[v]
          = RestoreGlobalVariables(Runner, m, mBackupTest)[v]
    <3>1. CASE v \in Saved(mBackupTest)
      BY <1>3, <3>1, RestoreConcat
    <3>2. CASE v \notin Saved(mBackupTest)
      <4>1. RestoreGlobalVariables(Runner, m, mBackupTest \o mBackupTemp)[v]
              = RestoreGlobalVariables(Runner, m, mBackupTemp)[v]
        BY <1>3, <3>2, RestoreConcat
      <4>2. RestoreGlobalVariables(Runner, m, mBackupTemp)[v] = m[v]
        BY <1>3, <2>1, RestoreIs
      <4>3. RestoreGlobalVariables(Runner, m, mBackupTest)[v] = m[v]
        BY <1>3, <3>2, RestoreIs
      <4>4. QED
        BY <4>1, <4>2, <4>3
    <3>3. QED
      BY <3>1, <3>2
  <2>5. QED
    BY <1>5, <2>1, <2>3, <2>4
<1>9. /\ globals' \in [Procs -> Memory] /\ entry' \in Memory /\ disturbed' \subseteq Globals
      /\ mBackupTest' \in Seq(Backup) /\ test' = "over"
      /\ Housekeeping' /\ TestCanRestore' /\ GroupsCanRestore' /\ KeptOutside'
      /\ \A v \in Globals \ exempt' : globals'[Runner][v] = entry[v]
  BY <1>3, <1>6, <1>7, <1>8, EndTestSteps DEF m
<1>10. TypeOK'
  BY <1>1, <1>6, <1>7, <1>9 DEF TypeOK, EndTest, Memory
<1>11. WaitingHarmless'
  <2>1. ASSUME NEW k \in 1..Len(mBackupTemp)
        PROVE  mBackupTemp[k].var \in disturbed' \/ mBackupTemp[k].saved["parent"] = initial
    <3>1. disturbed \subseteq disturbed' /\ (~usingFork => exempt' \subseteq disturbed')
      BY <1>6 DEF EndTest
    <3>2. mBackupTemp[k].var \in exempt'
      BY <1>1 DEF Saved
    <3>3. QED
      BY <3>1, <3>2 DEF WaitingHarmless
  <2>2. QED
    BY <1>1, <2>1 DEF WaitingHarmless
<1>12. QED
  BY <1>9, <1>10, <1>11

LEMMA WaitPidSteps ==
  ASSUME IInv, WaitPid
  PROVE  IInv'
<1> DEFINE m == globals["parent"]
           copied(k) == [mBackupTemp[k] EXCEPT !.saved["child"] = mBackupTemp[k].saved["parent"]]
<1> USE DEF IInv
<1>1. /\ test = "over" /\ test' = "none" /\ globals' = InParent(m) /\ exempt' = {}
      /\ mBackupTemp' = [k \in 1..Len(mBackupTemp) |-> copied(k)]
      /\ UNCHANGED <<usingFork, phase, nMocked, groups, mInstructions, mBackupGroup, mBackupTest,
                     entry, disturbed, intact>>
  BY DEF WaitPid
<1>2. m \in Memory /\ "parent" \in Procs /\ mBackupTemp \in Seq(Backup)
  BY TypesAre, ProcsAre
<1>3. globals' \in [Procs -> Memory] /\ globals'["parent"] = m
  BY <1>1, <1>2, InParentIs
<1>4. ASSUME NEW k \in 1..Len(mBackupTemp)
      PROVE  /\ copied(k) \in Backup /\ copied(k).var = mBackupTemp[k].var
             /\ copied(k).saved["parent"] = mBackupTemp[k].saved["parent"]
  <2>1. mBackupTemp[k] \in Backup
    BY <1>2, ElementOfSeq
  <2>2. QED
    BY <2>1 DEF Backup, Procs
<1> HIDE DEF copied
<1>5. mBackupTemp' \in Seq(Backup) /\ Len(mBackupTemp') = Len(mBackupTemp)
  <2>1. mBackupTemp' \in [1..Len(mBackupTemp) -> Backup] /\ Len(mBackupTemp) \in Nat
    BY <1>1, <1>2, <1>4, LenProperties
  <2>2. QED
    BY <2>1, SeqDef
<1>6. TypeOK'
  BY <1>1, <1>3, <1>5 DEF TypeOK, Memory
<1>7. Housekeeping'
  BY <1>1 DEF Housekeeping
<1>8. TestCanRestore'
  BY <1>1 DEF TestCanRestore
<1>9. WaitingHarmless'
  BY <1>1, <1>4, <1>5 DEF WaitingHarmless
<1>10. Outside' = Outside
  BY <1>1, <1>3 DEF Outside
<1>11. GroupsCanRestore' /\ KeptOutside'
  BY <1>1, <1>10 DEF GroupsCanRestore, KeptOutside
<1>12. QED
  BY <1>6, <1>7, <1>8, <1>9, <1>11

(***************************************************************************)
(* Theorems                                                                *)
(***************************************************************************)

LEMMA InitInvariant == Init => IInv
<1> SUFFICES ASSUME Init PROVE IInv
  OBVIOUS
<1> DEFINE m == [v \in Globals |-> initial]
<1>1. m \in Memory /\ "parent" \in Procs
  BY BackupAssumption DEF Memory, Procs
<1>2. /\ groups = <<>> /\ test = "none" /\ mInstructions = <<>> /\ mBackupTemp = <<>>
      /\ mBackupGroup = <<>> /\ mBackupTest = <<>> /\ globals = [p \in Procs |-> m]
      /\ entry = m /\ intact = <<>> /\ disturbed = {}
  BY DEF Init
<1>3. TypeOK
  <2>1. /\ groups \in Seq(Setups) /\ mInstructions \in Seq(Statement) /\ intact \in Seq(BOOLEAN)
        /\ mBackupTemp \in Seq(Backup) /\ mBackupGroup \in Seq(Backup) /\ mBackupTest \in Seq(Backup)
    BY <1>2, EmptySeq
  <2>2. globals \in [Procs -> [Globals -> Values]] /\ entry \in [Globals -> Values]
    BY <1>1, <1>2 DEF Memory
  <2>3. QED
    BY <2>1, <2>2, BackupAssumption DEF TypeOK, Init, Setups
<1>4. Housekeeping
  <2>1. Called(<<>>) = {}
    BY DEF Called, Changed
  <2>2. QED
    BY <1>2, <2>1 DEF Housekeeping
<1>5. TestCanRestore /\ WaitingHarmless /\ KeptOutside
  BY <1>2 DEF TestCanRestore, WaitingHarmless, KeptOutside
<1>6. GroupsCanRestore
  <2>1. PICK b \in Seq(Backup) : b = mBackupGroup /\ \A v : v \notin Saved(b)
    <3>1. mBackupGroup \in Seq(Backup) /\ \A v : v \notin Saved(mBackupGroup)
      BY <1>2, EmptySeq DEF Saved
    <3>2. QED
      BY <3>1
  <2>2. Outside = m
    BY <1>1, <1>2 DEF Outside
  <2>3. \A v \in Globals : m[v] = initial
    OBVIOUS
  <2> HIDE DEF m
  <2>4. \A v \in Globals : RestoreGlobalVariables("parent", m, b)[v] = m[v]
    BY <1>1, <2>1, RestoreIs
  <2>5. QED
    BY <2>1, <2>2, <2>3, <2>4 DEF GroupsCanRestore
<1>7. QED
  BY <1>3, <1>4, <1>5, <1>6 DEF IInv

LEMMA StutterInvariant ==
  ASSUME IInv, UNCHANGED vars
  PROVE  IInv'
<1>1. /\ UNCHANGED <<usingFork, phase, nMocked, groups, mInstructions, mBackupTemp, mBackupGroup>>
      /\ UNCHANGED <<mBackupTest, globals, test, entry, exempt, disturbed, intact>>
  BY DEF vars, pending, history
<1>2. Outside' = Outside /\ Runner' = Runner
  BY <1>1 DEF Outside, Runner
<1>3. TypeOK' /\ Housekeeping'
  BY <1>1 DEF IInv, TypeOK, Housekeeping
<1>4. TestCanRestore' /\ WaitingHarmless' /\ GroupsCanRestore' /\ KeptOutside'
  BY <1>1, <1>2 DEF IInv, TestCanRestore, WaitingHarmless, GroupsCanRestore, KeptOutside
<1>5. QED
  BY <1>3, <1>4 DEF IInv

(* Every step of the generated code keeps the inductive invariant. *)
LEMMA NextInvariant ==
  ASSUME IInv, [Next]_vars
  PROVE  IInv'
<1>1. CASE EnterGroup
  BY <1>1, EnterGroupSteps
<1>2. CASE EnterBareGroup
  BY <1>2, EnterBareGroupSteps
<1>3. CASE LeaveGroup
  BY <1>3, LeaveGroupSteps
<1>4. CASE CleanUpGroup
  BY <1>4, CleanUpGroupSteps
<1>5. CASE LeaveBareGroup
  BY <1>5, LeaveBareGroupSteps
<1>6. CASE StartTestWithBefore
  BY <1>6, StartTestWithBeforeSteps
<1>7. CASE StartTestWithoutBefore
  BY <1>7, StartTestWithoutBeforeSteps
<1>8. CASE EndTestWithAfter
  BY <1>8, EndTestWithAfterSteps
<1>9. CASE EndTestWithoutAfter
  BY <1>9, EndTestWithoutAfterSteps
<1>10. CASE WaitPid
  BY <1>10, WaitPidSteps
<1>11. CASE UNCHANGED vars
  BY <1>11, StutterInvariant
<1>12. QED
  BY <1>1, <1>2, <1>3, <1>4, <1>5, <1>6, <1>7, <1>8, <1>9, <1>10, <1>11 DEF Next

LEMMA Invariance == Spec => []IInv
<1>1. Init => IInv
  BY InitInvariant
<1>2. IInv /\ [Next]_vars => IInv'
  BY NextInvariant
<1>3. QED
  BY <1>1, <1>2, PTL DEF Spec

(* The backups and memories of the generated code keep their types, however
   groups, tests and mockup statements follow each other (TestGeneratorVisitor). *)
THEOREM TypeCorrect == Spec => []TypeOK
<1>1. IInv => TypeOK
  BY DEF IInv
<1>2. QED
  BY <1>1, Invariance, PTL

(* What a test's mockup, before and after assign is undone when the test ends, for
   any number of assignments, of one variable or of several, but for what the
   functions it called changed and for the variables of backups that wait
   (restoreGlobalVariables, VisitTestDefinition). *)
THEOREM TestUndoes == Spec => TestUndoesAssignments
<1> DEFINE Undone == test = "called" /\ test' = "over" =>
                       \A v \in Globals \ exempt' : globals'[Runner][v] = entry[v]
<1>1. ASSUME IInv, [Next]_vars PROVE Undone
  <2>1. SUFFICES ASSUME test = "called", test' = "over"
                 PROVE  \A v \in Globals \ exempt' : globals'[Runner][v] = entry[v]
    OBVIOUS
  <2>2. EndTestWithAfter \/ EndTestWithoutAfter
    <3>1. test' # test
      BY <2>1
    <3>2. ~(OpenGroup(<<>>) \/ CloseGroup) /\ \A s : ~OpenGroup(s) /\ ~StartTest(s)
      BY <2>1 DEF OpenGroup, CloseGroup, StartTest
    <3>3. ~(EnterGroup \/ EnterBareGroup \/ LeaveGroup \/ CleanUpGroup \/ LeaveBareGroup)
      BY <3>2 DEF EnterGroup, EnterBareGroup, LeaveGroup, CleanUpGroup, LeaveBareGroup
    <3>4. ~(StartTestWithBefore \/ StartTestWithoutBefore)
      BY <3>2 DEF StartTestWithBefore, StartTestWithoutBefore
    <3>5. ~WaitPid
      BY <2>1 DEF WaitPid
    <3>6. ~UNCHANGED vars
      BY <3>1 DEF vars
    <3>7. QED
      BY <1>1, <3>3, <3>4, <3>5, <3>6 DEF Next
  <2>3. QED
    BY <1>1, <2>2, EndTestWithAfterSteps, EndTestWithoutAfterSteps
<1>2. IInv /\ [Next]_vars => [Undone]_vars
  BY <1>1
<1>3. QED
  BY <1>2, Invariance, PTL DEF Spec, TestUndoesAssignments

(* When no backup of a group is pending, every variable but the disturbed ones has
   its initial value, over any number of nested groups: whichever group's cleanup
   ran, it restored the earliest backup (VisitTestGroup).  Disturbed are what called
   functions changed, what mockup_all assigned in a cleanup and, without fork, the
   variables of backups that wait around a test. *)
THEOREM GroupsUndo == Spec => []GroupsUndoAssignments
<1>1. ASSUME IInv PROVE GroupsUndoAssignments
  <2> SUFFICES ASSUME test = "none", mBackupGroup = <<>>, NEW v \in Globals \ disturbed
               PROVE  globals["parent"][v] = initial
    BY DEF GroupsUndoAssignments
  <2>1. v \in Globals /\ v \notin Saved(mBackupGroup)
    BY DEF Saved
  <2>2. mBackupGroup \in Seq(Backup) /\ globals["parent"] \in Memory /\ "parent" \in Procs
    BY <1>1, TypesAre, ProcsAre DEF IInv
  <2>3. RestoreGlobalVariables("parent", globals["parent"], mBackupGroup)[v] = globals["parent"][v]
    <3>1. PICK m \in Memory, b \in Seq(Backup) : m = globals["parent"] /\ b = mBackupGroup
      BY <2>2
    <3>2. v \in Globals \ Saved(b)
      BY <2>1, <3>1
    <3>3. RestoreGlobalVariables("parent", m, b)[v] = m[v]
      BY <2>2, <3>2, RestoreIs
    <3>4. QED
      BY <3>1, <3>3
  <2>4. RestoreGlobalVariables("parent", globals["parent"], mBackupGroup)[v] = initial
    BY <1>1 DEF IInv, GroupsCanRestore, Outside
  <2>5. QED
    BY <2>3, <2>4
<1>2. QED
  BY <1>1, Invariance, PTL

(* Until a group inside it is left, a group keeps what its mockup_all and
   before_all set up, whatever its tests assign (VisitTestDefinition, VisitTestGroup). *)
THEOREM IntactKept == Spec => []IntactGroupsKeepState
<1>1. ASSUME IInv PROVE IntactGroupsKeepState
  <2>1. test = "none" => Outside = globals["parent"]
    BY DEF Outside
  <2>2. QED
    BY <1>1, <2>1 DEF IInv, KeptOutside, IntactGroupsKeepState, StateKept
<1>2. QED
  BY <1>1, Invariance, PTL
=============================================================================
