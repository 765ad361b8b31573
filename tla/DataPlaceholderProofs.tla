----------------------- MODULE DataPlaceholderProofs -----------------------
(***************************************************************************)
(* Tests over the rows of a file, for any tests, files and nesting of      *)
(* groups: how a line is taken apart, what a copy is filled with, and that *)
(* the copies of a test end up in its place.                               *)
(***************************************************************************)
EXTENDS DataPlaceholder, Prefixes

TestRecord == [data : {t.data : t \in Tests}, args : Seq(Argument), er : Seq(Argument),
               mockup : BOOLEAN, id : Nat, group : Nat]
TestMember == {t \in TestRecord : t.id > 0 /\ Len(t.er) <= 1}
SubGroup   == {m \in [id : Int] : m.id < 0}
Member     == TestMember \cup SubGroup
GroupRecord == [number : Nat, tests : Seq(TestRecord \cup SubGroup), met : Seq(Member)]

(* What stands for a member of a group: a test that has been expanded and does
   not wait any more has given way to its copies. *)
Readable(t) == \A c \in ToSet(Copies(t)) : Unreadable \notin ToSet(Given(c))
Piece(m, waiting) == IF Expanded(m) /\ m.id \notin waiting THEN Copies(m) ELSE <<m>>
Pieces(met, waiting) == [i \in 1..Len(met) |-> Piece(met[i], waiting)]

Whole(g, waiting) ==
  /\ \A i \in 1..Len(g.met) : Expanded(g.met[i]) => GoodData(g.met[i]) /\ Readable(g.met[i])
  /\ g.tests = Flat(Pieces(g.met, waiting))

(* A null pointer for each open group, the first at the bottom. *)
Zeros(ms, k) == Cardinality({j \in 1..k : ms[j] = 0})
StackMarked(gs, ms) ==
  /\ Zeros(ms, Len(ms)) = Len(gs)
  /\ gs # <<>> => ms # <<>> /\ ms[1] = 0
  /\ gs = <<>> => ms = <<>>

(* Above the null pointer of a group are tests of that group, each once, and
   copies wait for these tests. *)
IsMet(id, met) == \E i \in 1..Len(met) : met[i].id = id /\ Expanded(met[i])
StackedMet(gs, ms, waiting) ==
  /\ \A k \in 1..Len(ms) : ms[k] # 0 =>
       Zeros(ms, k) \in 1..Len(gs) /\ IsMet(ms[k], gs[Zeros(ms, k)].met)
  /\ \A k, l \in 1..Len(ms) : ms[k] = ms[l] /\ ms[k] # 0 => k = l
  /\ \A n : n \in waiting <=> n # 0 /\ \E k \in 1..Len(ms) : ms[k] = n

(* Every test is met once. *)
MetOnce(gs) ==
  \A d, e \in 1..Len(gs) :
    \A i \in 1..Len(gs[d].met), j \in 1..Len(gs[e].met) :
      gs[d].met[i].id > 0 /\ gs[d].met[i].id = gs[e].met[j].id => d = e /\ i = j

(* Every test with placeholders waits, but those that the group being left has
   replaced; what waits are its copies. *)
TestWaits(m, replacements, tests, waits) ==
  /\ m.id <= tests
  /\ Expanded(m) /\ m.id \in DOMAIN replacements => replacements[m.id] = Copies(m)
  /\ Expanded(m) /\ waits => m.id \in DOMAIN replacements
TestsWait(gs, replacements, tests, inGroup) ==
  \A d \in 1..Len(gs) : \A i \in 1..Len(gs[d].met) :
    TestWaits(gs[d].met[i], replacements, tests, inGroup \/ d < Len(gs))

GroupsTyped(gs) == gs \in Seq(GroupRecord) /\ \A d \in 1..Len(gs) : gs[d].number > 0
GroupsWhole(gs, waiting) == \A d \in 1..Len(gs) : Whole(gs[d], waiting)

Walk(gs, ms, replacements, tests, inGroup) ==
  /\ GroupsTyped(gs) /\ ms \in Seq(Nat) /\ tests \in Nat
  /\ replacements = [n \in DOMAIN replacements |-> replacements[n]]
  /\ StackMarked(gs, ms) /\ StackedMet(gs, ms, DOMAIN replacements)
  /\ MetOnce(gs) /\ TestsWait(gs, replacements, tests, inGroup)
  /\ GroupsWhole(gs, DOMAIN replacements)

LeftWhole == left \in GroupRecord /\ Whole(left, {})

Walking ==
  /\ Walk(groups, mTests, mReplacements, nTests, pc = "visiting")
  /\ nGroups \in Nat
  /\ pc = "expanded" <=> groups = <<>>

IInv ==
  /\ pc \in {"visiting", "replacing", "expanded", "refused", "crashed"}
  /\ LeftWhole
  /\ nTests <= MaxTests
  /\ IF pc \in {"refused", "crashed"} THEN TypeOK ELSE Walking

(***************************************************************************)
(* A line and its cells                                                    *)
(***************************************************************************)

LEMMA StartIs ==
  ASSUME NEW n \in Nat, NEW bounds \in SUBSET (0..n + 1), 0 \in bounds, NEW q \in 1..n + 1
  PROVE  /\ Start(bounds, q) \in bounds /\ Start(bounds, q) < q
         /\ \A r \in bounds : r < q => r <= Start(bounds, q)
<1> DEFINE T == {r \in bounds : r \in 1..q - 1}
           First(p) == p \in bounds /\ p < q /\ \A r \in bounds : r < q => r <= p
<1>1. \A r \in bounds : r \in 0..n + 1
  OBVIOUS
<1>2. \A r \in bounds : r < q => r = 0 \/ r \in T
  BY <1>1
<1>3. \E p : First(p)
  <2>1. CASE T = {}
    <3>1. 0 < q /\ \A r \in bounds : r < q => r <= 0
      BY <1>2, <2>1
    <3>2. QED
      BY <3>1
  <2>2. CASE T # {}
    <3>1. T \in SUBSET (1..q - 1) /\ q - 1 \in Nat
      <4>1. q - 1 \in Nat
        OBVIOUS
      <4>2. QED
        BY <4>1
    <3>2. PICK p \in T : \A r \in T : r <= p
      <4> HIDE DEF T
      <4>1. QED
        BY <2>2, <3>1, LastPlace
    <3>3. p \in bounds /\ p < q /\ p >= 0
      BY <3>2
    <3>4. \A r \in bounds : r < q => r <= p
      BY <1>2, <3>2, <3>3
    <3>5. QED
      BY <3>3, <3>4
  <2>3. QED
    BY <2>1, <2>2
<1>4. Start(bounds, q) = CHOOSE p : First(p)
  BY DEF Start
<1> HIDE DEF First
<1>5. First(Start(bounds, q))
  BY <1>3, <1>4
<1>6. QED
  BY <1>5 DEF First

LEMMA OneMore ==
  ASSUME NEW E, NEW s \in Seq(E), NEW a \in Nat, NEW k \in 1..Len(s), 1 <= a, a <= k
  PROVE  SubSeq(s, a, k) = Append(SubSeq(s, a, k - 1), s[k])
<1>1. PICK n : n = Len(s) /\ n \in Nat /\ k \in 1..n /\ a \in 1..n /\ k \in a..n
  BY LenProperties
<1>2. SubSeq(s, a, k) = SubSeq(s, a, k - 1) \o <<s[k]>>
  BY <1>1, SubSeqRecursiveSecond
<1>3. SubSeq(s, a, k - 1) \in Seq(E) /\ s[k] \in E
  BY <1>1, ElementOfSeq, SubSeqProperties
<1>4. QED
  BY <1>2, <1>3, AppendIsConcat

CellRecord(E) == [out : Seq(Seq(E)), item : Seq(E), struct_init : BOOLEAN]

LEMMA ScannedType ==
  ASSUME NEW E, NEW acc \in CellRecord(E), NEW c \in E
  PROVE  Scanned(acc, c) \in CellRecord(E) /\ Kept(acc) \in Seq(Seq(E))
<1>1. acc.out \in Seq(Seq(E)) /\ acc.item \in Seq(E) /\ acc.struct_init \in BOOLEAN
  BY DEF CellRecord
<1>2. Kept(acc) \in Seq(Seq(E))
  BY <1>1, AppendProperties DEF Kept
<1>3. Append(acc.item, c) \in Seq(E) /\ <<>> \in Seq(E)
  BY <1>1, AppendProperties, EmptySeq
<1> DEFINE struct_init == c = "{" \/ (acc.struct_init /\ c # "}")
<1>4. struct_init \in BOOLEAN
  BY <1>1
<1>5. Scanned(acc, c) = IF c = "," /\ ~struct_init
                        THEN [out |-> Kept(acc), item |-> <<>>, struct_init |-> struct_init]
                        ELSE [out |-> acc.out, item |-> Append(acc.item, c), struct_init |-> struct_init]
  BY DEF Scanned
<1> HIDE DEF struct_init
<1>6. /\ [out |-> Kept(acc), item |-> <<>>, struct_init |-> struct_init] \in CellRecord(E)
      /\ [out |-> acc.out, item |-> Append(acc.item, c), struct_init |-> struct_init] \in CellRecord(E)
  BY <1>1, <1>2, <1>3, <1>4 DEF CellRecord
<1>7. QED
  BY <1>2, <1>5, <1>6

(* The scan of a line, character by character. *)
Scans(f, line) == f[0] = NoCells /\ \A k \in 1..Len(line) : f[k] = Scanned(f[k - 1], line[k])

LEMMA SplitRuns ==
  ASSUME NEW E, NEW line \in Seq(E)
  PROVE  \E f \in [0..Len(line) -> CellRecord(E)] : Scans(f, line) /\ split(line) = Kept(f[Len(line)])
<1> DEFINE L == Len(line)
           V == CellRecord(E)
           step == [k \in 1..L |-> [a \in V |-> Scanned(a, line[k])]]
           Body(f) == [n \in 0..L |-> IF n = 0 THEN NoCells ELSE Scanned(f[n - 1], line[n])]
<1>1. L \in Nat /\ \A k \in 1..L : line[k] \in E
  BY ElementOfSeq, LenProperties
<1>2. split(line) = Kept((CHOOSE g : g = Body(g))[L])
  BY DEF split
<1> HIDE DEF L
<1>3. ASSUME NEW k \in 1..L, NEW a \in V PROVE Scanned(a, line[k]) \in V
  BY <1>1, ScannedType
<1>4. PICK f \in [0..L -> V] : Follows(f, L, NoCells, step)
  <2>1. NoCells \in V
    BY EmptySeq DEF NoCells, CellRecord
  <2> HIDE DEF V
  <2>2. step \in [1..L -> [V -> V]]
    BY <1>3
  <2> HIDE DEF step
  <2>3. QED
    BY <1>1, <2>1, <2>2, PrefixRecursion, Zenon
<1>5. f[0] = NoCells /\ \A k \in 1..L : f[k] = step[k][f[k - 1]]
  BY <1>4 DEF Follows
<1>6. ASSUME NEW k \in 1..L PROVE f[k] = Scanned(f[k - 1], line[k])
  <2> HIDE DEF V
  <2>1. f[k - 1] \in V
    BY <1>1, <1>4
  <2>2. f[k] = step[k][f[k - 1]]
    BY <1>5
  <2>3. QED
    BY <2>1, <2>2
<1> HIDE DEF V
<1>7. (CHOOSE g : g = Body(g)) = f
  <2>1. f = Body(f)
    <3>1. f = [k \in 0..L |-> f[k]]
      BY <1>4
    <3>2. ASSUME NEW k \in 0..L PROVE f[k] = IF k = 0 THEN NoCells ELSE Scanned(f[k - 1], line[k])
      <4>1. k = 0 \/ k \in 1..L
        BY <1>1
      <4>2. QED
        BY <1>1, <1>5, <1>6, <4>1
    <3>3. QED
      BY <3>1, <3>2
  <2>2. ASSUME NEW g, g = Body(g) PROVE g = f
    <3>1. g[0] = f[0]
      <4>1. 0 \in 0..L
        BY <1>1
      <4>2. g[0] = NoCells
        BY <2>2, <4>1
      <4>3. QED
        BY <1>5, <4>2
    <3>2. ASSUME NEW k \in 1..L, g[k - 1] = f[k - 1] PROVE g[k] = f[k]
      <4>1. k \in 0..L /\ k # 0
        BY <1>1, <3>2
      <4>2. g[k] = Scanned(g[k - 1], line[k])
        BY <2>2, <4>1
      <4>3. QED
        BY <1>6, <3>2, <4>2
    <3>3. Agree(g, f, L)
      BY <1>1, <3>1, <3>2, PrefixUnique
    <3>4. g = [k \in 0..L |-> g[k]] /\ f = [k \in 0..L |-> f[k]]
      BY <1>4, <2>2
    <3>5. QED
      BY <3>3, <3>4 DEF Agree
  <2> HIDE DEF Body
  <2>3. QED
    BY <2>1, <2>2
<1>8. split(line) = Kept(f[L])
  <2> HIDE DEF Body
  <2>1. QED
    BY <1>2, <1>7
<1>9. Scans(f, line)
  BY <1>5, <1>6 DEF Scans, L
<1>10. QED
  BY <1>4, <1>8, <1>9 DEF L, V

LEMMA BoundsAre ==
  ASSUME NEW line, NEW n \in Nat, n = Len(line)
  PROVE  /\ Bounds(line) \in SUBSET (0..n + 1) /\ 0 \in Bounds(line) /\ n + 1 \in Bounds(line)
         /\ \A p \in 1..n : p \in Bounds(line) <=> line[p] = "," /\ ~Held(line, p)
<1> DEFINE Split == {p \in 1..n : line[p] = "," /\ ~Held(line, p)}
<1>1. Bounds(line) = {0, n + 1} \cup Split
  BY DEF Bounds
<1>2. Split \in SUBSET (1..n)
  OBVIOUS
<1>6. \A p \in 1..n : p # 0 /\ p # n + 1 /\ p \in 0..n + 1
  OBVIOUS
<1>3. 0 \in 0..n + 1 /\ n + 1 \in 0..n + 1
  OBVIOUS
<1>4. \A p \in 1..n : p \in Split <=> line[p] = "," /\ ~Held(line, p)
  OBVIOUS
<1> HIDE DEF Split
<1>5. QED
  BY <1>1, <1>2, <1>3, <1>4, <1>6

(* What a brace holds, character by character. *)
LEMMA HeldNext ==
  ASSUME NEW line, NEW k \in Nat \ {0}
  PROVE  /\ ~Held(line, 0)
         /\ Held(line, k) <=> line[k] = "{" \/ (Held(line, k - 1) /\ line[k] # "}")
<1>1. ~Held(line, 0)
  BY DEF Held
<1>2. ASSUME Held(line, k) PROVE line[k] = "{" \/ (Held(line, k - 1) /\ line[k] # "}")
  <2>1. PICK b \in 1..k : line[b] = "{" /\ \A j \in b..k : line[j] # "}"
    BY <1>2 DEF Held
  <2>2. k \in b..k
    OBVIOUS
  <2>3. CASE b = k
    BY <2>1, <2>3
  <2>4. CASE b # k
    <3>1. b \in 1..k - 1 /\ \A j \in b..k - 1 : j \in b..k
      BY <2>4
    <3>2. Held(line, k - 1)
      BY <2>1, <3>1 DEF Held
    <3>3. QED
      BY <2>1, <2>2, <3>2
  <2>5. QED
    BY <2>3, <2>4
<1>3. ASSUME line[k] = "{" PROVE Held(line, k)
  <2>1. k \in 1..k /\ \A j \in k..k : j = k
    OBVIOUS
  <2>2. QED
    BY <1>3, <2>1 DEF Held
<1>4. ASSUME Held(line, k - 1), line[k] # "}" PROVE Held(line, k)
  <2>1. PICK b \in 1..k - 1 : line[b] = "{" /\ \A j \in b..k - 1 : line[j] # "}"
    BY <1>4 DEF Held
  <2>2. b \in 1..k /\ \A j \in b..k : j = k \/ j \in b..k - 1
    OBVIOUS
  <2>3. QED
    BY <1>4, <2>1, <2>2 DEF Held
<1>5. QED
  BY <1>1, <1>2, <1>3, <1>4

(* Splitting a line gives its cells: what is between two commas that no brace
   holds, if there is anything. *)
THEOREM SplitIsCells ==
  ASSUME NEW E, NEW line \in Seq(E)
  PROVE  split(line) = Cells(line) /\ Cells(line) \in Seq(Seq(E))
<1>1. PICK L : L = Len(line) /\ L \in Nat /\ \A k \in 1..L : line[k] \in E
  BY ElementOfSeq, LenProperties
<1>2. PICK f \in [0..L -> CellRecord(E)] : Scans(f, line) /\ split(line) = Kept(f[L])
  BY <1>1, SplitRuns
<1>3. PICK bounds : bounds = Bounds(line)
  OBVIOUS
<1>4. /\ bounds \in SUBSET (0..L + 1) /\ 0 \in bounds /\ L + 1 \in bounds
      /\ \A p \in 1..L : p \in bounds <=> line[p] = "," /\ ~Held(line, p)
  BY <1>1, <1>3, BoundsAre
<1> DEFINE all == [q \in 1..L + 1 |-> SubSeq(line, Start(bounds, q) + 1, q - 1)]
           I == {q \in bounds \ {0} : all[q] # <<>>}
<1>5. Cells(line) = KeepAt(all, I)
  BY <1>1, <1>3 DEF Cells
<1>6. ASSUME NEW q \in 1..L + 1
      PROVE  /\ Start(bounds, q) \in bounds /\ Start(bounds, q) \in 0..q - 1
             /\ \A r \in bounds : r < q => r <= Start(bounds, q)
             /\ all[q] = SubSeq(line, Start(bounds, q) + 1, q - 1) /\ all[q] \in Seq(E)
  <2>1. /\ Start(bounds, q) \in bounds /\ Start(bounds, q) < q
        /\ \A r \in bounds : r < q => r <= Start(bounds, q)
    BY <1>1, <1>4, StartIs
  <2>2. Start(bounds, q) \in 0..q - 1
    <3>1. Start(bounds, q) \in 0..L + 1
      BY <1>4, <2>1
    <3>2. QED
      BY <1>1, <2>1, <3>1
  <2>3. PICK a : a = Start(bounds, q) /\ a \in 0..q - 1
    BY <2>2
  <2>4. \A i \in a + 1..q - 1 : i \in 1..L
    BY <1>1, <2>3
  <2>5. SubSeq(line, a + 1, q - 1) \in Seq(E)
    <3>1. \A i \in a + 1..q - 1 : line[i] \in E
      BY <1>1, <2>4
    <3>2. a + 1 \in Int /\ q - 1 \in Int
      BY <1>1, <2>3
    <3>3. QED
      BY <3>1, <3>2, SubSeqProperties
  <2>6. QED
    BY <2>1, <2>2, <2>3, <2>5
<1>7. all \in Seq(Seq(E)) /\ Len(all) = L + 1
  <2>1. \A q \in 1..L + 1 : SubSeq(line, Start(bounds, q) + 1, q - 1) \in Seq(E)
    BY <1>6
  <2>2. all \in [1..L + 1 -> Seq(E)] /\ L + 1 \in Nat
    BY <1>1, <2>1
  <2> HIDE DEF all
  <2>3. QED
    BY <2>2, ListOf
<1> HIDE DEF all
<1>8. PICK g \in [0..L + 1 -> Seq(Seq(E))] : Keeps(g, all, I) /\ KeepAt(all, I) = g[L + 1]
  <2> HIDE DEF I
  <2>1. QED
    BY <1>7, KeepAtRuns
<1>9. /\ g[0] = <<>>
      /\ \A q \in 1..L + 1 : g[q] = IF q \in I THEN Append(g[q - 1], all[q]) ELSE g[q - 1]
  BY <1>7, <1>8 DEF Keeps
<1> DEFINE AtPlace(k) == /\ f[k].out = g[k]
                         /\ f[k].item = SubSeq(line, Start(bounds, k + 1) + 1, k)
                         /\ f[k].struct_init <=> Held(line, k)
           S == {k \in 0..L : AtPlace(k)}
(* At a bound the cell that ends there is kept unless it is empty. *)
<1>10. ASSUME NEW q \in 1..L + 1, q \in bounds, NEW acc, acc.out = g[q - 1], acc.item = all[q]
       PROVE  Kept(acc) = g[q]
  <2>1. q # 0 /\ (q \in I <=> all[q] # <<>>)
    BY <1>10
  <2> HIDE DEF I
  <2>2. g[q] = IF all[q] # <<>> THEN Append(g[q - 1], all[q]) ELSE g[q - 1]
    BY <1>9, <2>1
  <2>3. QED
    BY <1>10, <2>2 DEF Kept
<1>11. 0 \in S
  <2>1. f[0] = NoCells /\ 0 \in 0..L
    BY <1>1, <1>2 DEF Scans
  <2>2. PICK q \in 1..L + 1 : q = 1
    BY <1>1
  <2>3. Start(bounds, 0 + 1) = 0
    BY <1>6, <2>2
  <2>4. SubSeq(line, 0 + 1, 0) = <<>>
    BY SubSeqEmpty
  <2>5. ~Held(line, 0)
    <3>1. 1 \in Nat \ {0}
      OBVIOUS
    <3>2. QED
      BY <3>1, HeldNext
  <2>6. f[0].out = g[0] /\ f[0].item = SubSeq(line, Start(bounds, 0 + 1) + 1, 0)
        /\ (f[0].struct_init <=> Held(line, 0))
    BY <1>9, <2>1, <2>3, <2>4, <2>5 DEF NoCells
  <2>7. QED
    BY <2>1, <2>6
<1>12. ASSUME NEW k \in 1..L, k - 1 \in S PROVE k \in S
  <2>1. PICK acc, c : acc = f[k - 1] /\ c = line[k]
    OBVIOUS
  <2>2. /\ acc.out = g[k - 1] /\ acc.item = SubSeq(line, Start(bounds, (k - 1) + 1) + 1, k - 1)
        /\ acc.struct_init <=> Held(line, k - 1)
    BY <1>12, <2>1
  <2>3. (k - 1) + 1 = k /\ k \in 1..L + 1 /\ k + 1 \in 1..L + 1 /\ k \in Nat \ {0} /\ k # L + 1 /\ k \in 0..L
    BY <1>1
  <2>4. acc.item = all[k]
    BY <1>6, <2>2, <2>3
  <2>5. f[k] = Scanned(acc, c)
    BY <1>1, <1>2, <2>1 DEF Scans
  <2> DEFINE held == c = "{" \/ (acc.struct_init /\ c # "}")
  <2>11. f[k] = IF c = "," /\ ~held
                THEN [out |-> Kept(acc), item |-> <<>>, struct_init |-> held]
                ELSE [out |-> acc.out, item |-> Append(acc.item, c), struct_init |-> held]
    BY <2>5 DEF Scanned
  <2> HIDE DEF held
  <2>6. Held(line, k) <=> held
    <3>1. Held(line, k) <=> line[k] = "{" \/ (Held(line, k - 1) /\ line[k] # "}")
      BY <2>3, HeldNext
    <3>2. QED
      BY <2>1, <2>2, <3>1 DEF held
  <2>7. k \in bounds <=> c = "," /\ ~Held(line, k)
    BY <1>4, <2>1
  <2>8. CASE k \in bounds
    <3>1. f[k].out = Kept(acc) /\ f[k].item = <<>> /\ (f[k].struct_init <=> held)
      <4>1. f[k] = [out |-> Kept(acc), item |-> <<>>, struct_init |-> held]
        BY <2>6, <2>7, <2>8, <2>11
      <4>2. f[k].struct_init = held
        BY <4>1
      <4>3. QED
        BY <4>1, <4>2
    <3>2. Kept(acc) = g[k]
      <4> HIDE DEF I
      <4>1. QED
        BY <1>10, <2>2, <2>3, <2>4, <2>8
    <3>3. Start(bounds, k + 1) = k
      <4>1. /\ Start(bounds, k + 1) \in 0..(k + 1) - 1
            /\ \A r \in bounds : r < k + 1 => r <= Start(bounds, k + 1)
        BY <1>6, <2>3
      <4>2. k <= Start(bounds, k + 1)
        BY <2>3, <2>8, <4>1
      <4>3. QED
        BY <2>3, <4>1, <4>2
    <3>4. SubSeq(line, k + 1, k) = <<>>
      BY <2>3, SubSeqEmpty
    <3>5. AtPlace(k)
      BY <2>6, <3>1, <3>2, <3>3, <3>4
    <3> HIDE DEF AtPlace
    <3>6. QED
      BY <2>3, <3>5
  <2>9. CASE k \notin bounds
    <3>1. f[k].out = acc.out /\ f[k].item = Append(acc.item, c) /\ (f[k].struct_init <=> held)
      <4>1. f[k] = [out |-> acc.out, item |-> Append(acc.item, c), struct_init |-> held]
        BY <2>6, <2>7, <2>9, <2>11
      <4>2. f[k].struct_init = held
        BY <4>1
      <4>3. QED
        BY <4>1, <4>2
    <3>2. g[k] = g[k - 1]
      BY <1>9, <2>3, <2>9
    <3>3. Start(bounds, k + 1) = Start(bounds, k)
      <4>1. PICK a, b : a = Start(bounds, k) /\ b = Start(bounds, k + 1)
        OBVIOUS
      <4>2. a \in bounds /\ a \in 0..k - 1 /\ \A r \in bounds : r < k => r <= a
        BY <1>6, <2>3, <4>1
      <4>3. b \in bounds /\ b \in 0..(k + 1) - 1 /\ \A r \in bounds : r < k + 1 => r <= b
        BY <1>6, <2>3, <4>1
      <4>4. b # k /\ b < k /\ a < k + 1
        BY <2>3, <2>9, <4>2, <4>3
      <4>5. b <= a /\ a <= b
        BY <4>2, <4>3, <4>4
      <4>6. QED
        BY <2>3, <4>1, <4>2, <4>3, <4>5
    <3>4. PICK a : a = Start(bounds, k) + 1 /\ a \in Nat /\ 1 <= a /\ a <= k
      <4>1. Start(bounds, k) \in 0..k - 1
        BY <1>6, <2>3
      <4>2. QED
        BY <2>3, <4>1
    <3>5. SubSeq(line, a, k) = Append(SubSeq(line, a, k - 1), line[k])
      BY <1>1, <3>4, OneMore
    <3>6. acc.item = SubSeq(line, a, k - 1)
      BY <2>2, <2>3, <3>4
    <3>7. f[k].item = SubSeq(line, Start(bounds, k + 1) + 1, k)
      BY <2>1, <3>1, <3>3, <3>4, <3>5, <3>6
    <3>8. AtPlace(k)
      BY <2>2, <2>6, <3>1, <3>2, <3>7
    <3> HIDE DEF AtPlace
    <3>9. QED
      BY <2>3, <3>8
  <2>10. QED
    BY <2>8, <2>9
<1>13. AtPlace(L)
  <2> HIDE DEF S
  <2>1. \A k \in 0..L : k \in S
    BY <1>1, <1>11, <1>12, PrefixInduction
  <2>2. L \in 0..L
    BY <1>1
  <2> HIDE DEF AtPlace
  <2>3. QED
    BY <2>1, <2>2 DEF S
<1>14. Kept(f[L]) = g[L + 1]
  <2>1. L + 1 \in 1..L + 1 /\ (L + 1) - 1 = L
    BY <1>1
  <2>2. PICK q \in 1..L + 1 : q = L + 1 /\ q - 1 = L
    BY <2>1
  <2>3. f[L].item = all[q]
    BY <1>6, <1>13, <2>2
  <2>4. f[L].out = g[q - 1] /\ q \in bounds
    BY <1>4, <1>13, <2>2
  <2>5. Kept(f[L]) = g[q]
    <3> HIDE DEF I
    <3>1. QED
      BY <1>10, <2>3, <2>4
  <2>6. QED
    BY <2>2, <2>5
<1>15. g[L + 1] \in Seq(Seq(E))
  BY <1>1, <1>8
<1>16. QED
  <2> HIDE DEF I
  <2>1. QED
    BY <1>2, <1>5, <1>8, <1>14, <1>15

(***************************************************************************)
(* Placeholders and what fills them                                        *)
(***************************************************************************)

(* The place of a placeholder among those of its list is how many there are up
   to it. *)
LEMMA Positions ==
  ASSUME NEW E, NEW as \in Seq(E)
  PROVE  /\ PlaceholdersPos(as) \in Seq(1..Len(as))
         /\ Len(PlaceholdersPos(as)) = PlaceholdersUpTo(as, Len(as))
         /\ \A p \in 1..Len(as) : IsPlaceholder(as[p]) =>
              /\ PlaceholdersUpTo(as, p) \in 1..Len(PlaceholdersPos(as))
              /\ PlaceholdersUpTo(as, p) =
                   CHOOSE j \in DOMAIN PlaceholdersPos(as) : PlaceholdersPos(as)[j] = p
<1>1. PICK n : n = Len(as) /\ n \in Nat
  BY LenProperties
<1> DEFINE s == [p \in 1..n |-> p]
           I == {p \in 1..n : IsPlaceholder(as[p])}
<1>2. PICK pos : pos = PlaceholdersPos(as)
  OBVIOUS
<1>3. pos = KeepAt(s, I)
  BY <1>1, <1>2 DEF PlaceholdersPos
<1>4. s \in Seq(1..n) /\ Len(s) = n /\ \A p \in 1..n : s[p] = p
  <2>1. s \in [1..n -> 1..n]
    OBVIOUS
  <2>2. \A p \in 1..n : s[p] = p
    OBVIOUS
  <2> HIDE DEF s
  <2>3. s \in Seq(1..n) /\ Len(s) = n
    BY <1>1, <2>1, ListOf
  <2>4. QED
    BY <2>2, <2>3
<1> HIDE DEF s, I
<1>5. pos \in Seq(1..n) /\ \E h : Picks(h, pos, s, I, n)
  BY <1>3, <1>4, KeepAtIs
<1>6. PICK h : Picks(h, pos, s, I, n)
  BY <1>5
<1>7. PICK m : m = Len(pos) /\ m \in Nat /\ DOMAIN pos = 1..m
  BY <1>5, LenProperties
<1>8. /\ \A k \in 1..m : h[k] \in I /\ h[k] \in 1..n /\ pos[k] = h[k]
      /\ \A i \in 1..n : i \in I => \E k \in 1..m : h[k] = i
  BY <1>4, <1>6, <1>7 DEF Picks
<1>9. /\ \A k \in 1..m : Cardinality({q \in 1..h[k] : q \in I}) = k
      /\ Cardinality({q \in 1..n : q \in I}) = m
  <2>1. Len(pos) \in Nat /\ n \in Nat
    BY <1>1, <1>7
  <2>2. QED
    BY <1>6, <1>7, <2>1, PicksCount
<1>10. ASSUME NEW p \in 1..n PROVE PlaceholdersUpTo(as, p) = Cardinality({q \in 1..p : q \in I})
  <2>1. {q \in 1..p : q \in I} = {q \in 1..p : IsPlaceholder(as[q])}
    <3>1. ASSUME NEW q \in 1..p PROVE q \in 1..n
      <4>1. n \in Nat /\ p \in 1..n
        BY <1>1
      <4>2. QED
        BY <4>1
    <3>2. \A q \in 1..p : q \in I <=> IsPlaceholder(as[q])
      BY <3>1 DEF I
    <3>3. QED
      BY <3>2
  <2>2. QED
    BY <2>1 DEF PlaceholdersUpTo
<1>11. PlaceholdersUpTo(as, n) = m
  <2>1. {q \in 1..n : q \in I} = {q \in 1..n : IsPlaceholder(as[q])}
    BY DEF I
  <2>2. QED
    BY <1>9, <2>1 DEF PlaceholdersUpTo
<1>12. ASSUME NEW p \in 1..n, IsPlaceholder(as[p])
       PROVE  /\ PlaceholdersUpTo(as, p) \in 1..m
              /\ PlaceholdersUpTo(as, p) = CHOOSE j \in DOMAIN pos : pos[j] = p
  <2>1. PICK k \in 1..m : h[k] = p
    BY <1>8, <1>12 DEF I
  <2>2. PlaceholdersUpTo(as, p) = k
    BY <1>9, <1>10, <2>1
  <2>3. pos[k] = p /\ k \in DOMAIN pos
    BY <1>7, <1>8, <2>1
  <2>4. ASSUME NEW j \in DOMAIN pos, pos[j] = p PROVE j = k
    <3>1. j \in 1..m /\ h[j] = p
      BY <1>7, <1>8, <2>4
    <3>2. j = Cardinality({q \in 1..p : q \in I}) /\ k = Cardinality({q \in 1..p : q \in I})
      BY <1>9, <2>1, <3>1
    <3>3. QED
      BY <3>2
  <2>5. k = CHOOSE j \in DOMAIN pos : pos[j] = p
    BY <2>3, <2>4
  <2>6. QED
    BY <2>2, <2>5
<1>13. QED
  BY <1>1, <1>2, <1>5, <1>7, <1>11, <1>12

LEMMA NoBlanksType ==
  ASSUME NEW E, NEW cell \in Seq(E)
  PROVE  NoBlanks(cell) \in Seq(E)
BY KeepAtIs DEF NoBlanks

(* A cell that can be read gives the beginning of what it holds. *)
LEMMA ReadCellIs ==
  ASSUME NEW cell \in Seq(STRING), NEW isArgument
  PROVE  /\ ReadCell(cell, isArgument) \in Argument
         /\ ReadCell(cell, isArgument) # Unreadable =>
              /\ ReadCell(cell, isArgument).value # <<>>
              /\ IsPrefix(ReadCell(cell, isArgument).value, NoBlanks(cell))
<1>1. PICK w, n : w = NoBlanks(cell) /\ w \in Seq(STRING) /\ n = Len(w) /\ n \in Nat
  BY NoBlanksType, LenProperties
<1>2. Unreadable \in Argument
  BY EmptySeq DEF Unreadable, Argument
<1>3. CASE w = <<>>
  BY <1>1, <1>2, <1>3 DEF ReadCell
<1>4. CASE w # <<>> /\ w[1] \in DOMAIN Texts
  <2>1. n # 0 /\ w[1] \in STRING
    BY <1>1, <1>4, EmptySeq, ElementOfSeq
  <2>2. ReadCell(cell, isArgument) = Constant(w[1])
    BY <1>1, <1>4 DEF ReadCell
  <2>3. PICK c : c = w[1] /\ c \in STRING
    BY <2>1
  <2>4. Constant(c) = [value |-> <<c>>, str |-> <<c>>] /\ <<c>> \in Seq(STRING)
    BY <2>3 DEF Constant
  <2>5. Constant(c) \in Argument /\ Constant(c).value = <<c>>
    BY <2>4 DEF Argument
  <2>6. Len(<<c>>) = 1 /\ <<c>> # <<>>
    OBVIOUS
  <2>7. SubSeq(w, 1, 1) = <<c>>
    <3>1. PICK k \in 1..Len(w) : k = 1
      BY <1>1, <2>1
    <3>2. SubSeq(w, 1, k) = Append(SubSeq(w, 1, k - 1), w[k])
      BY <1>1, <3>1, OneMore
    <3>3. SubSeq(w, 1, k - 1) = <<>>
      BY <3>1, SubSeqEmpty
    <3>4. Append(<<>>, c) = <<c>>
      OBVIOUS
    <3>5. SubSeq(w, 1, k) = Append(<<>>, c)
      BY <2>3, <3>1, <3>2, <3>3
    <3>6. QED
      BY <3>1, <3>4, <3>5
  <2>10. SubSeq(<<c>>, 1, 1) = <<c>>
    BY <2>4, <2>6, SubSeqFull
  <2>8. IsPrefix(<<c>>, w)
    <3>1. Len(<<c>>) <= Len(w)
      BY <1>1, <2>1, <2>6
    <3>2. SubSeq(<<c>>, 1, Len(<<c>>)) = SubSeq(w, 1, Len(<<c>>))
      BY <2>6, <2>7, <2>10
    <3>3. QED
      BY <3>1, <3>2 DEF IsPrefix
  <2>9. QED
    BY <1>1, <2>2, <2>3, <2>5, <2>6, <2>8
<1>5. CASE w # <<>> /\ w[1] \notin DOMAIN Texts
  <2> DEFINE buffer == [value |-> w, str |-> BufferText]
  <2>1. ReadCell(cell, isArgument) = buffer \/ ReadCell(cell, isArgument) = Unreadable
    BY <1>1, <1>5 DEF ReadCell
  <2>2. buffer \in Argument /\ buffer.value = w
    <3>1. w \in Seq(STRING)
      BY <1>1
    <3>2. QED
      BY <3>1 DEF Argument
  <2>3. IsPrefix(w, w)
    BY <1>1 DEF IsPrefix
  <2> HIDE DEF buffer
  <2>4. QED
    BY <1>1, <1>2, <1>5, <2>1, <2>2, <2>3
<1>6. QED
  BY <1>3, <1>4, <1>5

LEMMA CopyArgumentIs ==
  ASSUME NEW a \in Argument
  PROVE  CopyArgument(a) \in Argument /\ CopyArgument(a).value = a.value
<1>1. a.value \in Seq(STRING) /\ a = [value |-> a.value, str |-> a.str]
  BY DEF Argument
<1>2. CASE a.value[1] \in DOMAIN Texts
  <2>1. PICK text : text = Texts[a.value[1]] /\ text \in Seq(STRING)
    BY <1>2, InputAssumption
  <2>2. CopyArgument(a) = [a EXCEPT !.str = text]
    BY <1>2, <2>1 DEF CopyArgument
  <2>3. [a EXCEPT !.str = text] = [value |-> a.value, str |-> text]
    BY <1>1
  <2>4. QED
    BY <1>1, <2>1, <2>2, <2>3 DEF Argument
<1>3. CASE a.value[1] \notin DOMAIN Texts
  BY <1>3 DEF CopyArgument
<1>4. QED
  BY <1>2, <1>3

LEMMA CopyArgumentsIs ==
  ASSUME NEW as \in Seq(Argument)
  PROVE  /\ CopyArguments(as) \in Seq(Argument) /\ Len(CopyArguments(as)) = Len(as)
         /\ \A p \in 1..Len(as) : /\ CopyArguments(as)[p].value = as[p].value
                                  /\ IsPlaceholder(CopyArguments(as)[p]) <=> IsPlaceholder(as[p])
<1>1. PICK n : n = Len(as) /\ n \in Nat /\ DOMAIN as = 1..n
  BY LenProperties
<1> DEFINE c == [p \in 1..n |-> CopyArgument(as[p])]
<1>2. CopyArguments(as) = c
  BY <1>1 DEF CopyArguments
<1>3. \A p \in 1..n : as[p] \in Argument
  BY <1>1, ElementOfSeq
<1>4. c \in [1..n -> Argument]
  BY <1>3, CopyArgumentIs
<1>5. \A p \in 1..n : c[p].value = as[p].value
  BY <1>3, CopyArgumentIs
<1> HIDE DEF c
<1>6. c \in Seq(Argument) /\ Len(c) = n
  BY <1>1, <1>4, ListOf
<1>7. QED
  BY <1>1, <1>2, <1>5, <1>6 DEF IsPlaceholder

LEMMA ZeroOrOne ==
  ASSUME NEW m \in Nat, m <= 1
  PROVE  m \in {0, 1}
OBVIOUS

(* Of the places of a list of n and of at most one more. *)
OneBehind(n, m) ==
  /\ \A p \in 1..n : p \in 1..n + m /\ p <= n /\ p \in 0..n
  /\ \A p \in 0..n : \A q \in 1..p : q \in 1..n
  /\ \A p \in 1..m : /\ p = 1 /\ n + p \in 1..n + m /\ ~(n + p <= n) /\ (n + p) - n = p
                     /\ n + 1 \in 1..n + p /\ n + 1 \notin 1..n
                     /\ \A q \in 1..n : q \in 1..n + p
                     /\ \A q \in 1..n + p : q \in 1..n \/ q = n + 1
  /\ \A p \in 1..n + m : p \in 1..n \/ \E q \in 1..m : p = n + q
  /\ n \in 0..n /\ n + m \in Nat /\ IsFiniteSet(1..n)

LEMMA WithOneMore ==
  ASSUME NEW n \in Nat, NEW m \in {0, 1}
  PROVE  OneBehind(n, m)
<1>1. IsFiniteSet(1..n)
  BY FS_Interval
<1>2. \A p \in 1..n + m : p \in 1..n \/ \E q \in 1..m : p = n + q
  <2>1. CASE m = 0
    BY <2>1
  <2>2. CASE m = 1
    <3>1. 1 \in 1..m
      BY <2>2
    <3>2. \A p \in 1..n + m : p \in 1..n \/ p = n + 1
      BY <2>2
    <3>3. QED
      BY <3>1, <3>2
  <2>3. QED
    BY <2>1, <2>2
<1>3. QED
  BY <1>1, <1>2 DEF OneBehind

LEMMA MemberFields ==
  ASSUME NEW t \in TestMember
  PROVE  /\ t.args \in Seq(Argument) /\ t.er \in Seq(Argument)
         /\ Len(t.er) \in {0, 1} /\ Len(t.er) <= 1
         /\ t.id \in Nat /\ t.id > 0 /\ t.mockup \in BOOLEAN /\ t \in TestRecord
<1>1. /\ t.args \in Seq(Argument) /\ t.er \in Seq(Argument) /\ Len(t.er) <= 1
      /\ t.id \in Nat /\ t.id > 0 /\ t.mockup \in BOOLEAN /\ t \in TestRecord
  BY DEF TestMember, TestRecord
<1>2. Len(t.er) \in {0, 1}
  <2>1. PICK m : m = Len(t.er) /\ m \in Nat
    BY <1>1, LenProperties
  <2>2. m <= 1
    BY <1>1, <2>1
  <2>3. m \in {0, 1}
    BY <2>1, <2>2, ZeroOrOne
  <2>4. QED
    BY <2>1, <2>3
<1>3. QED
  BY <1>1, <1>2

LEMMA CopyTestIs ==
  ASSUME NEW t \in TestMember
  PROVE  /\ CopyTest(t) \in TestMember
         /\ CopyTest(t).id = t.id /\ CopyTest(t).mockup = t.mockup
         /\ CopyTest(t).args = CopyArguments(t.args) /\ CopyTest(t).er = CopyArguments(t.er)
<1>1. PICK as, er : /\ as = CopyArguments(t.args) /\ er = CopyArguments(t.er)
                    /\ as \in Seq(Argument) /\ er \in Seq(Argument) /\ Len(er) <= 1
  BY MemberFields, CopyArgumentsIs
<1>2. CopyTest(t) = [t EXCEPT !.group = 0, !.args = as, !.er = er]
  BY <1>1 DEF CopyTest, NoName
<1>3. t = [data |-> t.data, args |-> t.args, er |-> t.er, mockup |-> t.mockup, id |-> t.id, group |-> t.group]
  BY DEF TestMember, TestRecord
<1>4. CopyTest(t) = [data |-> t.data, args |-> as, er |-> er, mockup |-> t.mockup, id |-> t.id, group |-> 0]
  BY <1>2, <1>3
<1>5. t.data \in {u.data : u \in Tests} /\ t.mockup \in BOOLEAN /\ t.id \in Nat /\ t.id > 0
  BY DEF TestMember, TestRecord
<1>6. QED
  BY <1>1, <1>4, <1>5 DEF TestMember, TestRecord

(* What is counted in the arguments is counted in arguments and expected result. *)
Joined(given, as, er, n, m) ==
  /\ n = Len(as) /\ m = Len(er) /\ n \in Nat /\ m \in {0, 1} /\ DOMAIN as = 1..n /\ DOMAIN er = 1..m
  /\ given \in Seq(Argument) /\ Len(given) = n + m
  /\ \A p \in 1..n : given[p] = as[p] /\ PlaceholdersUpTo(given, p) = PlaceholdersUpTo(as, p)
  /\ \A p \in 1..m : /\ given[n + p] = er[p]
                     /\ IsPlaceholder(er[p]) => PlaceholdersUpTo(given, n + p) = PlaceholdersUpTo(as, n) + 1

LEMMA GivenIs ==
  ASSUME NEW as \in Seq(Argument), NEW er \in Seq(Argument), Len(er) <= 1
  PROVE  \E n, m : Joined(as \o er, as, er, n, m) /\ OneBehind(n, m)
<1>9. PICK n, m : n = Len(as) /\ m = Len(er) /\ n \in Nat /\ m \in Nat /\ DOMAIN as = 1..n /\ DOMAIN er = 1..m
  BY LenProperties
<1>1. n = Len(as) /\ m = Len(er) /\ n \in Nat /\ m \in {0, 1}
  <2>1. m <= 1
    BY <1>9
  <2>2. m \in {0, 1}
    BY <1>9, <2>1, ZeroOrOne
  <2>3. QED
    BY <1>9, <2>2
<1> DEFINE given == as \o er
<1>2. /\ given \in Seq(Argument) /\ Len(given) = n + m
      /\ \A p \in 1..n + m : given[p] = IF p <= n THEN as[p] ELSE er[p - n]
  BY <1>1, ConcatProperties
<1> HIDE DEF given
<1>11. OneBehind(n, m)
  BY <1>1, WithOneMore
<1>3. \A p \in 1..n : given[p] = as[p]
  <2>1. \A p \in 1..n : p \in 1..n + m /\ p <= n
    BY <1>11 DEF OneBehind
  <2>2. QED
    BY <1>2, <2>1
<1>4. ASSUME NEW p \in 0..n
      PROVE  {q \in 1..p : IsPlaceholder(given[q])} = {q \in 1..p : IsPlaceholder(as[q])}
  <2>1. \A q \in 1..p : q \in 1..n
    BY <1>11 DEF OneBehind
  <2>2. \A q \in 1..p : given[q] = as[q]
    BY <1>3, <2>1
  <2>3. QED
    BY <2>2
<1>5. \A p \in 0..n : PlaceholdersUpTo(given, p) = PlaceholdersUpTo(as, p)
  BY <1>4 DEF PlaceholdersUpTo
<1>6. \A p \in 1..n : p \in 0..n
  BY <1>11 DEF OneBehind
<1>7. ASSUME NEW p \in 1..m
      PROVE  p = 1 /\ given[n + p] = er[p] /\ (IsPlaceholder(er[p]) => PlaceholdersUpTo(given, n + p) = PlaceholdersUpTo(as, n) + 1)
  <2>1. p = 1 /\ n + p \in 1..n + m /\ ~(n + p <= n) /\ (n + p) - n = p
    BY <1>11 DEF OneBehind
  <2>2. given[n + p] = er[p]
    BY <1>2, <2>1
  <2>3. ASSUME IsPlaceholder(er[p]) PROVE PlaceholdersUpTo(given, n + p) = PlaceholdersUpTo(as, n) + 1
    <3> DEFINE T == {q \in 1..n : IsPlaceholder(given[q])}
               U == {q \in 1..n + p : IsPlaceholder(given[q])}
    <3>1. \A q \in 1..n + p : q \in 1..n \/ q = n + 1
      BY <1>11 DEF OneBehind
    <3>2. n + 1 \in 1..n + p /\ n + 1 \notin 1..n /\ \A q \in 1..n : q \in 1..n + p
      BY <1>11 DEF OneBehind
    <3>3. IsPlaceholder(given[n + 1])
      BY <2>1, <2>2, <2>3
    <3>4. U = T \cup {n + 1} /\ n + 1 \notin T
      BY <3>1, <3>2, <3>3
    <3>5. IsFiniteSet(T)
      <4>1. IsFiniteSet(1..n) /\ T \in SUBSET (1..n)
        BY <1>11 DEF OneBehind
      <4> HIDE DEF T
      <4>2. QED
        BY <4>1, FS_Subset
    <3>6. PlaceholdersUpTo(as, n) = Cardinality(T) /\ PlaceholdersUpTo(given, n + p) = Cardinality(U)
      <4>1. n \in 0..n
        BY <1>11 DEF OneBehind
      <4>2. PlaceholdersUpTo(as, n) = PlaceholdersUpTo(given, n)
        BY <1>5, <4>1
      <4>3. QED
        BY <4>2 DEF PlaceholdersUpTo
    <3> HIDE DEF T, U
    <3>7. Cardinality(T \cup {n + 1}) = Cardinality(T) + 1
      BY <3>4, <3>5, FS_AddElement
    <3>8. QED
      BY <3>4, <3>6, <3>7
  <2>4. QED
    BY <2>1, <2>2, <2>3
<1>8. Joined(given, as, er, n, m)
  BY <1>1, <1>2, <1>3, <1>5, <1>6, <1>7, <1>9 DEF Joined
<1>12. QED
  BY <1>8, <1>11 DEF given

(* A list filled place by place. *)
LEMMA FillIs ==
  ASSUME NEW as \in Seq(Argument), NEW with,
         \A p \in 1..Len(as) : IsPlaceholder(as[p]) => with[p] \in Argument
  PROVE  LET c == [p \in DOMAIN as |-> IF IsPlaceholder(as[p]) THEN with[p] ELSE as[p]]
         IN  /\ c \in Seq(Argument) /\ Len(c) = Len(as)
             /\ \A p \in 1..Len(as) : c[p] = IF IsPlaceholder(as[p]) THEN with[p] ELSE as[p]
<1>1. PICK n : n = Len(as) /\ n \in Nat /\ DOMAIN as = 1..n
  BY LenProperties
<1> DEFINE c == [p \in 1..n |-> IF IsPlaceholder(as[p]) THEN with[p] ELSE as[p]]
<1>2. \A p \in 1..n : as[p] \in Argument
  BY <1>1, ElementOfSeq
<1>3. \A p \in 1..n : c[p] = IF IsPlaceholder(as[p]) THEN with[p] ELSE as[p]
  OBVIOUS
<1>4. c \in [1..n -> Argument]
  <2> HIDE DEF IsPlaceholder
  <2>1. QED
    BY <1>1, <1>2
<1>5. c \in Seq(Argument) /\ Len(c) = n
  <2> HIDE DEF c
  <2>1. QED
    BY <1>1, <1>4, ListOf
<1>6. QED
  BY <1>1, <1>3, <1>5

(* A test with its placeholders filled: the cell for each is the one with its
   number among them. *)
LEMMA FilledIs ==
  ASSUME NEW t \in TestMember, NEW row \in Seq(Seq(STRING)), PlaceholderCount(t) <= Len(row)
  PROVE  /\ Filled(t, row) \in TestMember
         /\ Filled(t, row).id = t.id /\ Filled(t, row).mockup = t.mockup
         /\ Len(Filled(t, row).args) = Len(t.args) /\ Len(Given(Filled(t, row))) = Len(Given(t))
         /\ \A p \in 1..Len(Given(t)) :
              /\ IsPlaceholder(Given(t)[p]) =>
                   /\ PlaceholdersUpTo(Given(t), p) \in 1..Len(row)
                   /\ \E a : Given(Filled(t, row))[p] = ReadCell(row[PlaceholdersUpTo(Given(t), p)], a)
              /\ ~IsPlaceholder(Given(t)[p]) => Given(Filled(t, row))[p] = Given(t)[p]
<1>1. PICK as, er : as = t.args /\ er = t.er
  OBVIOUS
<1>2. as \in Seq(Argument) /\ er \in Seq(Argument) /\ Len(er) <= 1
  BY <1>1, MemberFields
<1>4. PICK given : given = as \o er /\ given = Given(t)
  BY <1>1 DEF Given
<1>0. PICK n, m : Joined(given, as, er, n, m) /\ OneBehind(n, m)
  BY <1>2, <1>4, GivenIs
<1>3. n = Len(as) /\ m = Len(er) /\ n \in Nat /\ m \in {0, 1} /\ DOMAIN as = 1..n /\ DOMAIN er = 1..m
  BY <1>0 DEF Joined
<1>5. given \in Seq(Argument) /\ Len(given) = n + m
  BY <1>0 DEF Joined
<1>6. ASSUME NEW p \in 1..n + m, IsPlaceholder(given[p])
      PROVE  PlaceholdersUpTo(given, p) \in 1..Len(row) /\ row[PlaceholdersUpTo(given, p)] \in Seq(STRING)
  <2>1. PlaceholdersUpTo(given, p) \in 1..Len(PlaceholdersPos(given))
    BY <1>5, <1>6, Positions
  <2>2. Len(PlaceholdersPos(given)) <= Len(row)
    BY <1>4 DEF PlaceholderCount
  <2>3. PICK a, b, c : /\ a = PlaceholdersUpTo(given, p) /\ b = Len(PlaceholdersPos(given))
                       /\ c = Len(row) /\ c \in Nat
    BY LenProperties
  <2>4. b \in Nat
    BY <1>5, <2>3, Positions, LenProperties
  <2>5. a \in 1..c
    BY <2>1, <2>2, <2>3, <2>4
  <2>6. QED
    BY <2>3, <2>5, ElementOfSeq
<1>7. PICK pos : pos = PlaceholdersPos(as)
  OBVIOUS
<1> DEFINE withA == [p \in 1..n |-> ReadCell(row[CHOOSE j \in DOMAIN pos : pos[j] = p], TRUE)]
           withE == [p \in 1..m |-> ReadCell(row[Len(pos) + 1], FALSE)]
           A == [p \in DOMAIN as |-> IF IsPlaceholder(as[p]) THEN withA[p] ELSE as[p]]
           B == [p \in DOMAIN er |-> IF IsPlaceholder(er[p]) THEN withE[p] ELSE er[p]]
<1>8. \A p \in 1..n : given[p] = as[p] /\ PlaceholdersUpTo(given, p) = PlaceholdersUpTo(as, p)
  BY <1>0 DEF Joined
<1>9. \A p \in 1..m : /\ given[n + p] = er[p]
                      /\ IsPlaceholder(er[p]) => PlaceholdersUpTo(given, n + p) = PlaceholdersUpTo(as, n) + 1
  BY <1>0 DEF Joined
<1>10. ASSUME NEW p \in 1..n, IsPlaceholder(as[p])
       PROVE  withA[p] = ReadCell(row[PlaceholdersUpTo(given, p)], TRUE) /\ withA[p] \in Argument
  <2>1. PlaceholdersUpTo(as, p) = CHOOSE j \in DOMAIN pos : pos[j] = p
    <3>1. PlaceholdersUpTo(as, p) = CHOOSE j \in DOMAIN PlaceholdersPos(as) : PlaceholdersPos(as)[j] = p
      BY <1>2, <1>3, <1>10, Positions
    <3>2. QED
      BY <1>7, <3>1
  <2>2. withA[p] = ReadCell(row[PlaceholdersUpTo(given, p)], TRUE)
    <3>1. PlaceholdersUpTo(given, p) = CHOOSE j \in DOMAIN pos : pos[j] = p
      BY <1>8, <2>1
    <3>2. QED
      BY <3>1
  <2>3. row[PlaceholdersUpTo(given, p)] \in Seq(STRING)
    <3>1. p \in 1..n + m /\ IsPlaceholder(given[p])
      BY <1>0, <1>8, <1>10 DEF OneBehind
    <3>2. QED
      BY <1>6, <3>1
  <2>4. QED
    BY <2>2, <2>3, ReadCellIs
<1>11. ASSUME NEW p \in 1..m, IsPlaceholder(er[p])
       PROVE  withE[p] = ReadCell(row[PlaceholdersUpTo(given, n + p)], FALSE) /\ withE[p] \in Argument
  <2>1. PlaceholdersUpTo(as, n) = Len(pos)
    BY <1>2, <1>3, <1>7, Positions
  <2>2. withE[p] = ReadCell(row[PlaceholdersUpTo(given, n + p)], FALSE)
    <3>1. PlaceholdersUpTo(given, n + p) = Len(pos) + 1
      BY <1>9, <1>11, <2>1
    <3>2. QED
      BY <3>1
  <2>3. row[PlaceholdersUpTo(given, n + p)] \in Seq(STRING)
    <3>1. PICK q \in 1..n + m : q = n + p
      BY <1>0 DEF OneBehind
    <3>2. IsPlaceholder(given[q])
      BY <1>9, <1>11, <3>1
    <3>3. QED
      BY <1>6, <3>1, <3>2
  <2>4. QED
    BY <2>2, <2>3, ReadCellIs
<1> HIDE DEF withA, withE
<1>12. /\ A \in Seq(Argument) /\ Len(A) = n
       /\ \A p \in 1..n : A[p] = IF IsPlaceholder(as[p]) THEN withA[p] ELSE as[p]
  <2>1. \A p \in 1..Len(as) : IsPlaceholder(as[p]) => withA[p] \in Argument
    BY <1>3, <1>10
  <2>2. QED
    BY <1>2, <1>3, <2>1, FillIs
<1>13. /\ B \in Seq(Argument) /\ Len(B) = m
       /\ \A p \in 1..m : B[p] = IF IsPlaceholder(er[p]) THEN withE[p] ELSE er[p]
  <2>1. \A p \in 1..Len(er) : IsPlaceholder(er[p]) => withE[p] \in Argument
    BY <1>3, <1>11
  <2>2. QED
    BY <1>2, <1>3, <2>1, FillIs
<1>14. Filled(t, row) = [t EXCEPT !.args = A, !.er = B]
  <2>1. A = [p \in DOMAIN as |-> IF IsPlaceholder(as[p])
               THEN ReadCell(row[CHOOSE j \in DOMAIN pos : pos[j] = p], TRUE) ELSE as[p]]
    <3>1. \A p \in DOMAIN as : withA[p] = ReadCell(row[CHOOSE j \in DOMAIN pos : pos[j] = p], TRUE)
      BY <1>3 DEF withA
    <3>2. QED
      BY <3>1
  <2>2. B = [p \in DOMAIN er |-> IF IsPlaceholder(er[p])
               THEN ReadCell(row[Len(pos) + 1], FALSE) ELSE er[p]]
    <3>1. \A p \in DOMAIN er : withE[p] = ReadCell(row[Len(pos) + 1], FALSE)
      BY <1>3 DEF withE
    <3>2. QED
      BY <3>1
  <2> HIDE DEF A, B
  <2>3. QED
    BY <1>1, <1>7, <2>1, <2>2 DEF Filled
<1> HIDE DEF A, B
<1>15. /\ Filled(t, row) \in TestMember /\ Filled(t, row).id = t.id /\ Filled(t, row).mockup = t.mockup
       /\ Filled(t, row).args = A /\ Filled(t, row).er = B
  <2>1. t = [data |-> t.data, args |-> t.args, er |-> t.er, mockup |-> t.mockup, id |-> t.id, group |-> t.group]
    BY DEF TestMember, TestRecord
  <2>2. Filled(t, row) = [data |-> t.data, args |-> A, er |-> B, mockup |-> t.mockup, id |-> t.id, group |-> t.group]
    BY <1>14, <2>1
  <2>3. t.data \in {u.data : u \in Tests} /\ t.mockup \in BOOLEAN /\ t.id \in Nat /\ t.id > 0 /\ t.group \in Nat
    BY DEF TestMember, TestRecord
  <2>4. Len(B) <= 1
    BY <1>2, <1>3, <1>13
  <2>5. QED
    BY <1>12, <1>13, <2>2, <2>3, <2>4 DEF TestMember, TestRecord
<1>16. PICK got : got = A \o B /\ got = Given(Filled(t, row))
  BY <1>15 DEF Given
<1>17. /\ Len(got) = n + m
       /\ \A p \in 1..n : got[p] = A[p]
       /\ \A p \in 1..m : got[n + p] = B[p]
  <2>1. Len(B) <= 1
    BY <1>2, <1>3, <1>13
  <2>2. PICK k, l : Joined(got, A, B, k, l)
    BY <1>12, <1>13, <1>16, <2>1, GivenIs
  <2>3. k = n /\ l = m
    BY <1>12, <1>13, <2>2 DEF Joined
  <2>4. QED
    BY <2>2, <2>3 DEF Joined
<1>18. ASSUME NEW p \in 1..n
       PROVE  /\ IsPlaceholder(given[p]) => got[p] = ReadCell(row[PlaceholdersUpTo(given, p)], TRUE)
              /\ ~IsPlaceholder(given[p]) => got[p] = given[p]
  BY <1>8, <1>10, <1>12, <1>17
<1>19. ASSUME NEW p \in 1..m
       PROVE  /\ IsPlaceholder(given[n + p]) => got[n + p] = ReadCell(row[PlaceholdersUpTo(given, n + p)], FALSE)
              /\ ~IsPlaceholder(given[n + p]) => got[n + p] = given[n + p]
  BY <1>9, <1>11, <1>13, <1>17
<1>20. ASSUME NEW p \in 1..n + m
       PROVE  /\ IsPlaceholder(given[p]) => \E a : got[p] = ReadCell(row[PlaceholdersUpTo(given, p)], a)
              /\ ~IsPlaceholder(given[p]) => got[p] = given[p]
  <2>1. p \in 1..n \/ \E q \in 1..m : p = n + q
    BY <1>0 DEF OneBehind
  <2>2. CASE p \in 1..n
    BY <1>18, <2>2
  <2>3. CASE \E q \in 1..m : p = n + q
    <3>1. PICK q \in 1..m : p = n + q
      BY <2>3
    <3>2. QED
      BY <1>19, <3>1
  <2>4. QED
    BY <2>1, <2>2, <2>3
<1>21. ASSUME NEW p \in 1..Len(given)
       PROVE  /\ IsPlaceholder(given[p]) =>
                   /\ PlaceholdersUpTo(given, p) \in 1..Len(row)
                   /\ \E a : got[p] = ReadCell(row[PlaceholdersUpTo(given, p)], a)
              /\ ~IsPlaceholder(given[p]) => got[p] = given[p]
  BY <1>5, <1>6, <1>20
<1>22. Len(Filled(t, row).args) = Len(t.args) /\ Len(got) = Len(given)
  BY <1>1, <1>3, <1>5, <1>12, <1>15, <1>17
<1>23. QED
  BY <1>4, <1>15, <1>16, <1>21, <1>22

(* A copy has the values and the placeholders of its test. *)
LEMMA CopyGiven ==
  ASSUME NEW t \in TestMember
  PROVE  /\ Given(t) \in Seq(Argument) /\ Given(CopyTest(t)) \in Seq(Argument)
         /\ Len(Given(CopyTest(t))) = Len(Given(t))
         /\ PlaceholderCount(CopyTest(t)) = PlaceholderCount(t)
         /\ \A p \in 1..Len(Given(t)) :
              /\ Given(CopyTest(t))[p].value = Given(t)[p].value
              /\ IsPlaceholder(Given(CopyTest(t))[p]) <=> IsPlaceholder(Given(t)[p])
              /\ PlaceholdersUpTo(Given(CopyTest(t)), p) = PlaceholdersUpTo(Given(t), p)
<1>1. PICK as, er, bs, fs : /\ as = t.args /\ er = t.er /\ bs = CopyArguments(as) /\ fs = CopyArguments(er)
  OBVIOUS
<1>2. as \in Seq(Argument) /\ er \in Seq(Argument) /\ Len(er) <= 1
  BY <1>1, MemberFields
<1>3. /\ bs \in Seq(Argument) /\ Len(bs) = Len(as)
      /\ \A p \in 1..Len(as) : bs[p].value = as[p].value /\ (IsPlaceholder(bs[p]) <=> IsPlaceholder(as[p]))
  BY <1>1, <1>2, CopyArgumentsIs
<1>4. /\ fs \in Seq(Argument) /\ Len(fs) = Len(er)
      /\ \A p \in 1..Len(er) : fs[p].value = er[p].value /\ (IsPlaceholder(fs[p]) <=> IsPlaceholder(er[p]))
  BY <1>1, <1>2, CopyArgumentsIs
<1>5. PICK given : given = as \o er /\ given = Given(t)
  BY <1>1 DEF Given
<1>6. PICK got : got = bs \o fs /\ got = Given(CopyTest(t))
  BY <1>1, CopyTestIs DEF Given
<1>7. PICK n, m : Joined(given, as, er, n, m) /\ OneBehind(n, m)
  BY <1>2, <1>5, GivenIs
<1>8. PICK k, l : Joined(got, bs, fs, k, l)
  <2>1. Len(fs) <= 1
    BY <1>2, <1>4
  <2>2. QED
    BY <1>3, <1>4, <1>6, <2>1, GivenIs
<1>9. k = n /\ l = m
  BY <1>3, <1>4, <1>7, <1>8 DEF Joined
<1>10. /\ n = Len(as) /\ m = Len(er) /\ n \in Nat /\ m \in {0, 1}
       /\ given \in Seq(Argument) /\ Len(given) = n + m
       /\ got \in Seq(Argument) /\ Len(got) = n + m
  BY <1>7, <1>8, <1>9 DEF Joined
<1>11. ASSUME NEW p \in 1..n + m
       PROVE  got[p].value = given[p].value /\ (IsPlaceholder(got[p]) <=> IsPlaceholder(given[p]))
  <2>1. p \in 1..n \/ \E q \in 1..m : p = n + q
    BY <1>7 DEF OneBehind
  <2>2. CASE p \in 1..n
    <3>1. got[p] = bs[p] /\ given[p] = as[p]
      BY <1>7, <1>8, <1>9, <2>2 DEF Joined
    <3>2. QED
      BY <1>3, <1>10, <2>2, <3>1
  <2>3. CASE \E q \in 1..m : p = n + q
    <3>1. PICK q \in 1..m : p = n + q
      BY <2>3
    <3>2. got[p] = fs[q] /\ given[p] = er[q]
      BY <1>7, <1>8, <1>9, <3>1 DEF Joined
    <3>3. QED
      BY <1>4, <1>10, <3>1, <3>2
  <2>4. QED
    BY <2>1, <2>2, <2>3
<1>12. PICK N : N = n + m /\ N \in Nat /\ Len(given) = N /\ Len(got) = N
  <2>1. n + m \in Nat
    BY <1>7 DEF OneBehind
  <2>2. QED
    BY <1>10, <2>1
<1>13. \A p \in 0..N : PlaceholdersUpTo(got, p) = PlaceholdersUpTo(given, p)
  <2>1. ASSUME NEW p \in 0..N
        PROVE  {q \in 1..p : IsPlaceholder(got[q])} = {q \in 1..p : IsPlaceholder(given[q])}
    <3>1. \A q \in 1..p : q \in 1..N
      BY <1>12
    <3>2. \A q \in 1..p : IsPlaceholder(got[q]) <=> IsPlaceholder(given[q])
      BY <1>11, <1>12, <3>1
    <3>3. QED
      BY <3>2
  <2>2. QED
    BY <2>1 DEF PlaceholdersUpTo
<1>14. PlaceholderCount(CopyTest(t)) = PlaceholderCount(t)
  <2>1. PlaceholderCount(t) = PlaceholdersUpTo(given, N)
    BY <1>5, <1>10, <1>12, Positions DEF PlaceholderCount
  <2>2. PlaceholderCount(CopyTest(t)) = PlaceholdersUpTo(got, N)
    BY <1>6, <1>10, <1>12, Positions DEF PlaceholderCount
  <2>3. N \in 0..N
    BY <1>12
  <2>4. QED
    BY <1>13, <2>1, <2>2, <2>3
<1>15. ASSUME NEW p \in 1..N
       PROVE  /\ got[p].value = given[p].value
              /\ IsPlaceholder(got[p]) <=> IsPlaceholder(given[p])
              /\ PlaceholdersUpTo(got, p) = PlaceholdersUpTo(given, p)
  <2>1. p \in 0..N
    BY <1>12
  <2>2. QED
    BY <1>11, <1>12, <1>13, <2>1
<1>16. QED
  BY <1>5, <1>6, <1>10, <1>12, <1>14, <1>15

(* What a copy is filled with can be read, so it is its test over the row. *)
LEMMA CopyIsRow ==
  ASSUME NEW t \in TestMember, NEW row \in Seq(Seq(STRING)), PlaceholderCount(t) <= Len(row)
  PROVE  LET c == Filled(CopyTest(t), row)
         IN  /\ c \in TestMember /\ c.id = t.id
             /\ Unreadable \notin ToSet(Given(c)) => IsRowOf(c, t, row)
<1>1. PICK u : u = CopyTest(t) /\ u \in TestMember /\ u.id = t.id /\ u.mockup = t.mockup
  BY CopyTestIs
<1>2. PICK given, copy : given = Given(t) /\ copy = Given(u)
  OBVIOUS
<1>3. /\ given \in Seq(Argument) /\ copy \in Seq(Argument)
      /\ Len(copy) = Len(given) /\ PlaceholderCount(u) = PlaceholderCount(t)
      /\ \A p \in 1..Len(given) :
           /\ copy[p].value = given[p].value
           /\ IsPlaceholder(copy[p]) <=> IsPlaceholder(given[p])
           /\ PlaceholdersUpTo(copy, p) = PlaceholdersUpTo(given, p)
  BY <1>1, <1>2, CopyGiven
<1>4. PICK c, got : c = Filled(u, row) /\ got = Given(c)
  OBVIOUS
<1>5. PlaceholderCount(u) <= Len(row)
  BY <1>3
<1>6. /\ c \in TestMember /\ c.id = u.id /\ c.mockup = u.mockup
      /\ Len(c.args) = Len(u.args) /\ Len(got) = Len(copy)
      /\ \A p \in 1..Len(copy) :
           /\ IsPlaceholder(copy[p]) =>
                /\ PlaceholdersUpTo(copy, p) \in 1..Len(row)
                /\ \E a : got[p] = ReadCell(row[PlaceholdersUpTo(copy, p)], a)
           /\ ~IsPlaceholder(copy[p]) => got[p] = copy[p]
  BY <1>1, <1>2, <1>4, <1>5, FilledIs
<1>7. Len(c.args) = Len(t.args)
  <2>1. Len(u.args) = Len(t.args)
    BY <1>1, CopyTestIs, CopyArgumentsIs, MemberFields
  <2>2. QED
    BY <1>6, <2>1
<1>8. got \in Seq(Argument)
  BY <1>4, <1>6, CopyGiven
<1>9. DOMAIN given = 1..Len(given) /\ DOMAIN got = 1..Len(given)
  BY <1>3, <1>6, <1>8, LenProperties
<1>10. ASSUME Unreadable \notin ToSet(got), NEW p \in DOMAIN given
       PROVE  /\ IsPlaceholder(given[p]) =>
                   got[p].value # <<>> /\ IsPrefix(got[p].value, NoBlanks(row[PlaceholdersUpTo(given, p)]))
              /\ ~IsPlaceholder(given[p]) => got[p].value = given[p].value
  <2>1. p \in 1..Len(copy) /\ p \in 1..Len(given) /\ p \in DOMAIN got
    BY <1>3, <1>9
  <2>2. CASE IsPlaceholder(given[p])
    <3>1. PICK q : q = PlaceholdersUpTo(given, p) /\ q \in 1..Len(row) /\ \E a : got[p] = ReadCell(row[q], a)
      BY <1>3, <1>6, <2>1, <2>2
    <3>2. PICK a : got[p] = ReadCell(row[q], a)
      BY <3>1
    <3>3. PICK cell : cell = row[q] /\ cell \in Seq(STRING)
      BY <3>1, ElementOfSeq
    <3>4. got[p] # Unreadable
      BY <1>10, <2>1 DEF ToSet
    <3>5. got[p].value # <<>> /\ IsPrefix(got[p].value, NoBlanks(cell))
      BY <3>2, <3>3, <3>4, ReadCellIs
    <3>6. QED
      BY <2>2, <3>1, <3>3, <3>5
  <2>3. CASE ~IsPlaceholder(given[p])
    BY <1>3, <1>6, <2>1, <2>3
  <2>4. QED
    BY <2>2, <2>3
<1>11. ASSUME Unreadable \notin ToSet(got) PROVE IsRowOf(c, t, row)
  <2>1. \A p \in DOMAIN given :
          IF IsPlaceholder(given[p])
          THEN got[p].value # <<>> /\ IsPrefix(got[p].value, NoBlanks(row[PlaceholdersUpTo(given, p)]))
          ELSE got[p].value = given[p].value
    BY <1>10, <1>11
  <2>2. c.id = t.id /\ c.mockup = t.mockup /\ Len(got) = Len(given)
    BY <1>1, <1>3, <1>6
  <2>3. QED
    BY <1>2, <1>4, <1>7, <2>1, <2>2 DEF IsRowOf
<1>12. QED
  BY <1>1, <1>4, <1>6, <1>11

(* The rows of a file with cells in its first line: the cells of each line that
   has some. *)
RowsOf(lines) ==
  LET cells == [i \in 1..Len(lines) |-> Cells(lines[i])]
  IN  KeepAt(cells, {i \in 1..Len(lines) : cells[i] # <<>>})

LEMMA MatrixIs ==
  ASSUME NEW E, NEW lines \in Seq(Seq(E))
  PROVE  /\ Matrix(lines) \in Seq(Seq(Seq(E)))
         /\ Matrix(lines)[1] # <<>> => Matrix(lines) = RowsOf(lines)
<1>1. PICK n : n = Len(lines) /\ n \in Nat /\ \A i \in 1..n : lines[i] \in Seq(E)
  BY ElementOfSeq, LenProperties
<1> DEFINE rows == [i \in 1..n |-> split(lines[i])]
           J == {i \in 1..n : i = 1 \/ rows[i] # <<>>}
           I == {i \in 1..n : rows[i] # <<>>}
<1>2. rows = [i \in 1..n |-> Cells(lines[i])]
  <2>1. \A i \in 1..n : split(lines[i]) = Cells(lines[i])
    BY <1>1, SplitIsCells
  <2>2. QED
    BY <2>1
<1>3. rows \in Seq(Seq(Seq(E))) /\ Len(rows) = n
  <2>1. rows \in [1..n -> Seq(Seq(E))]
    BY <1>1, SplitIsCells
  <2> HIDE DEF rows
  <2>2. QED
    BY <1>1, <2>1, ListOf
<1>4. RowsOf(lines) = KeepAt(rows, I)
  BY <1>1, <1>2 DEF RowsOf
<1>5. Matrix(lines) = IF lines = <<>> THEN <<<<>>>> ELSE KeepAt(rows, J)
  BY <1>1 DEF Matrix
<1> HIDE DEF rows
<1>6. CASE lines = <<>>
  <2>1. PICK none : none = <<>> /\ none \in Seq(Seq(E))
    BY EmptySeq
  <2>2. <<none>> \in Seq(Seq(Seq(E))) /\ <<none>>[1] = none
    BY <2>1
  <2>3. QED
    BY <1>5, <1>6, <2>1, <2>2
<1>7. CASE lines # <<>>
  <2>1. PICK M : M = Matrix(lines) /\ M = KeepAt(rows, J)
    BY <1>5, <1>7
  <2>2. M \in Seq(Seq(Seq(E))) /\ \E h : Picks(h, M, rows, J, n)
    <3> HIDE DEF J
    <3>1. QED
      BY <1>3, <2>1, KeepAtIs
  <2>3. ASSUME M[1] # <<>> PROVE J = I
    <3>1. PICK h : Picks(h, M, rows, J, n)
      BY <2>2
    <3>2. PICK m : m = Len(M) /\ m \in Nat
      BY <2>2, LenProperties
    <3>3. /\ h \in [1..m -> 1..n]
          /\ \A k \in 1..m : M[k] = rows[h[k]]
          /\ \A k, l \in 1..m : k < l => h[k] < h[l]
          /\ \A i \in 1..n : i \in J => \E k \in 1..m : h[k] = i
      BY <3>1, <3>2 DEF Picks
    <3>4. n # 0
      BY <1>1, <1>7, EmptySeq
    <3>5. 1 \in 1..n /\ 1 \in J
      BY <1>1, <3>4
    <3>6. PICK k \in 1..m : h[k] = 1
      BY <3>3, <3>5
    <3>7. k = 1
      <4>1. 1 \in 1..m /\ k \in 1..m
        BY <3>2
      <4>2. h[1] \in 1..n
        BY <3>3, <4>1
      <4>3. ~(1 < k)
        BY <3>3, <3>6, <4>1, <4>2
      <4>4. QED
        BY <3>2, <4>1, <4>3
    <3>8. rows[1] # <<>>
      BY <2>3, <3>3, <3>6, <3>7
    <3>9. QED
      BY <3>8
  <2>4. QED
    BY <1>4, <2>1, <2>2, <2>3
<1>8. QED
  BY <1>6, <1>7

LEMMA SomePlaceholder ==
  ASSUME NEW t \in TestMember, HasPlaceholders(t)
  PROVE  PlaceholderCount(t) \in Nat /\ PlaceholderCount(t) >= 1
<1>1. PICK given : given = Given(t) /\ given \in Seq(Argument)
  BY CopyGiven
<1>2. PICK p \in 1..Len(given) : IsPlaceholder(given[p])
  BY <1>1 DEF HasPlaceholders
<1>3. PICK q, n : /\ q = PlaceholdersUpTo(given, p) /\ n = Len(PlaceholdersPos(given)) /\ q \in 1..n /\ n \in Nat
  BY <1>1, <1>2, Positions, LenProperties
<1>4. n >= 1
  BY <1>3
<1>5. QED
  BY <1>1, <1>3, <1>4 DEF PlaceholderCount

RowRecord == [of : TestMember, cells : Seq(Seq(STRING))]

(* The copies of a test are one for each row, with the id of the test; if every
   cell that is needed could be read, each is the test over its row. *)
LEMMA CopiesAre ==
  ASSUME NEW t \in TestMember, HasPlaceholders(t), GoodData(t)
  PROVE  /\ Copies(t) \in Seq(TestMember) /\ Wanted(t) \in Seq(RowRecord)
         /\ Len(Wanted(t)) = Len(Copies(t))
         /\ \A i \in 1..Len(Copies(t)) :
              /\ Copies(t)[i].id = t.id
              /\ Wanted(t)[i].of = t
              /\ Readable(t) => IsRowOf(Copies(t)[i], t, Wanted(t)[i].cells)
<1>1. PICK lines, M : /\ lines = Files[t.data] /\ lines \in Seq(Seq(STRING))
                      /\ M = Matrix(lines) /\ M \in Seq(Seq(Seq(STRING)))
  BY InputAssumption, MatrixIs DEF GoodData
<1>2. PICK n : n = Len(M) /\ n \in Nat /\ DOMAIN M = 1..n
  BY <1>1, LenProperties
<1>3. \A i \in 1..n : M[i] \in Seq(Seq(STRING)) /\ Len(M[i]) \in Nat
  BY <1>1, <1>2, ElementOfSeq, LenProperties
<1>4. ~ColumnMismatch(M) /\ PlaceholderCount(t) <= Len(M[1])
  BY <1>1 DEF GoodData
<1>5. ASSUME NEW i \in 1..n PROVE Len(M[i]) = Len(M[1])
  BY <1>2, <1>4 DEF ColumnMismatch
<1>6. M = RowsOf(lines)
  <2>1. PICK k : k = PlaceholderCount(t) /\ k \in Nat /\ k >= 1
    BY SomePlaceholder
  <2>2. M[1] # <<>>
    <3>1. SUFFICES ASSUME M[1] = <<>> PROVE FALSE
      OBVIOUS
    <3>2. Len(M[1]) = 0
      BY <3>1, EmptySeq
    <3>3. k <= 0
      BY <1>4, <2>1, <3>2
    <3>4. QED
      BY <2>1, <3>3
  <2>3. QED
    BY <1>1, <2>2, MatrixIs
<1>7. PICK copies : copies = Copies(t) /\ copies = [i \in 1..n |-> Filled(CopyTest(t), M[i])]
  BY <1>1, <1>2 DEF Copies
<1>8. ASSUME NEW i \in 1..n
      PROVE  /\ copies[i] = Filled(CopyTest(t), M[i]) /\ copies[i] \in TestMember /\ copies[i].id = t.id
             /\ Unreadable \notin ToSet(Given(copies[i])) => IsRowOf(copies[i], t, M[i])
  <2>1. PICK row : row = M[i] /\ row \in Seq(Seq(STRING)) /\ PlaceholderCount(t) <= Len(row)
    BY <1>3, <1>4, <1>5
  <2>2. copies[i] = Filled(CopyTest(t), row)
    BY <1>7, <2>1
  <2>3. QED
    BY <2>1, <2>2, CopyIsRow
<1>9. copies \in Seq(TestMember) /\ Len(copies) = n
  <2>1. copies \in [1..n -> TestMember]
    BY <1>7, <1>8
  <2>2. QED
    BY <1>2, <2>1, ListOf
<1> DEFINE wanted == [i \in 1..n |-> [of |-> t, cells |-> M[i]]]
<1>10. Wanted(t) = wanted
  <2>1. Expanded(t)
    BY MemberFields DEF Expanded
  <2>2. Wanted(t) = [i \in 1..Len(RowsOf(lines)) |-> [of |-> t, cells |-> RowsOf(lines)[i]]]
    BY <1>1, <2>1 DEF Wanted, RowsOf
  <2>3. QED
    BY <1>2, <1>6, <2>2
<1>11. wanted \in Seq(RowRecord) /\ Len(wanted) = n
  <2>1. wanted \in [1..n -> RowRecord]
    BY <1>3 DEF RowRecord
  <2> HIDE DEF wanted
  <2>2. QED
    BY <1>2, <2>1, ListOf
<1>12. \A i \in 1..n : wanted[i].of = t /\ wanted[i].cells = M[i]
  OBVIOUS
<1> HIDE DEF wanted
<1>13. ASSUME Readable(t), NEW i \in 1..n PROVE IsRowOf(copies[i], t, M[i])
  <2>1. copies[i] \in ToSet(copies)
    BY <1>9, LenProperties DEF ToSet
  <2>2. Unreadable \notin ToSet(Given(copies[i]))
    BY <1>7, <1>13, <2>1 DEF Readable
  <2>3. QED
    BY <1>8, <2>2
<1>14. QED
  BY <1>7, <1>8, <1>9, <1>10, <1>11, <1>12, <1>13

(***************************************************************************)
(* What a group holds                                                      *)
(***************************************************************************)

Held1 == TestRecord \cup SubGroup

LEMMA MemberIs ==
  ASSUME NEW m \in Member
  PROVE  m.id \in Int /\ m \in Held1 /\ (m.id > 0 => m \in TestMember) /\ m.id # 0
<1>1. ASSUME m \in TestMember PROVE m.id \in Int /\ m.id > 0 /\ m \in Held1 /\ m.id # 0
  <2>1. PICK n : n = m.id /\ n \in Nat /\ n > 0
    BY <1>1, MemberFields
  <2>2. n \in Int /\ n # 0
    BY <2>1
  <2>3. QED
    BY <1>1, <2>1, <2>2, MemberFields DEF Held1
<1>2. ASSUME m \in SubGroup PROVE m.id \in Int /\ ~(m.id > 0) /\ m \in Held1 /\ m.id # 0
  <2>1. PICK n : n = m.id /\ n \in Int /\ n < 0
    BY <1>2 DEF SubGroup
  <2>2. ~(n > 0) /\ n # 0
    BY <2>1
  <2>3. QED
    BY <1>2, <2>1, <2>2 DEF Held1
<1>3. QED
  BY <1>1, <1>2 DEF Member

LEMMA ExpandedIs ==
  ASSUME NEW m \in Member, Expanded(m)
  PROVE  m \in TestMember /\ HasPlaceholders(m)
BY MemberIs DEF Expanded

Good(met) == \A i \in 1..Len(met) : Expanded(met[i]) => GoodData(met[i])

LEMMA PieceIs ==
  ASSUME NEW m \in Member, NEW waiting, Expanded(m) => GoodData(m)
  PROVE  /\ Piece(m, waiting) \in Seq(Held1)
         /\ \A j \in 1..Len(Piece(m, waiting)) : Piece(m, waiting)[j].id = m.id
<1>1. CASE Expanded(m) /\ m.id \notin waiting
  <2>1. Piece(m, waiting) = Copies(m)
    BY <1>1 DEF Piece
  <2>2. Copies(m) \in Seq(TestMember) /\ \A j \in 1..Len(Copies(m)) : Copies(m)[j].id = m.id
    BY <1>1, ExpandedIs, CopiesAre
  <2>3. Copies(m) \in Seq(Held1)
    <3>1. PICK s, n : s = Copies(m) /\ s \in Seq(TestMember) /\ n = Len(s) /\ n \in Nat /\ s \in [1..n -> TestMember]
      BY <2>2, LenProperties
    <3>2. \A i \in 1..n : s[i] \in Held1
      BY <3>1, MemberFields DEF Held1
    <3>3. s \in [1..n -> Held1]
      BY <3>1, <3>2
    <3>4. QED
      BY <3>1, <3>3, ListOf
  <2>4. QED
    BY <2>1, <2>2, <2>3
<1>2. CASE ~(Expanded(m) /\ m.id \notin waiting)
  <2>1. Piece(m, waiting) = <<m>>
    BY <1>2 DEF Piece
  <2>2. <<m>> \in Seq(Held1) /\ Len(<<m>>) = 1 /\ <<m>>[1] = m
    BY MemberIs
  <2>3. \A j \in 1..Len(<<m>>) : j = 1
    BY <2>2
  <2>4. QED
    BY <2>1, <2>2, <2>3
<1>3. QED
  BY <1>1, <1>2

LEMMA PiecesAre ==
  ASSUME NEW met \in Seq(Member), NEW waiting, Good(met)
  PROVE  /\ Pieces(met, waiting) \in Seq(Seq(Held1)) /\ Len(Pieces(met, waiting)) = Len(met)
         /\ \A i \in 1..Len(met) : Pieces(met, waiting)[i] = Piece(met[i], waiting)
         /\ Flat(Pieces(met, waiting)) \in Seq(Held1)
<1>1. PICK n : n = Len(met) /\ n \in Nat /\ \A i \in 1..n : met[i] \in Member
  BY ElementOfSeq, LenProperties
<1>2. PICK ss : ss = Pieces(met, waiting)
  OBVIOUS
<1>3. ss = [i \in 1..n |-> Piece(met[i], waiting)]
  BY <1>1, <1>2 DEF Pieces
<1>4. \A i \in 1..n : Piece(met[i], waiting) \in Seq(Held1)
  BY <1>1, PieceIs DEF Good
<1>5. ss \in [1..n -> Seq(Held1)]
  BY <1>3, <1>4
<1>6. ss \in Seq(Seq(Held1)) /\ Len(ss) = n
  BY <1>1, <1>5, ListOf
<1>7. Flat(ss) \in Seq(Held1)
  BY <1>6, FlatType
<1>8. QED
  BY <1>1, <1>2, <1>3, <1>6, <1>7

(* A group left whole holds for each of its tests with placeholders the test
   over each row, in its place. *)
LEMMA RowsFollow ==
  ASSUME LeftWhole
  PROVE  RowsBecomeTests
<1>1. PICK met : met = left.met /\ met \in Seq(Member)
  BY DEF LeftWhole, GroupRecord
<1>2. PICK n : n = Len(met) /\ n \in Nat /\ \A i \in 1..n : met[i] \in Member
  BY <1>1, ElementOfSeq, LenProperties
<1>3. \A i \in 1..n : Expanded(met[i]) => GoodData(met[i]) /\ Readable(met[i])
  BY <1>1, <1>2 DEF LeftWhole, Whole
<1>4. Good(met)
  BY <1>2, <1>3 DEF Good
<1>5. PICK ss : ss = Pieces(met, {})
  OBVIOUS
<1>6. /\ ss \in Seq(Seq(Held1)) /\ Len(ss) = n
      /\ \A i \in 1..n : ss[i] = Piece(met[i], {})
  BY <1>1, <1>2, <1>4, <1>5, PiecesAre
<1>7. left.tests = Flat(ss)
  BY <1>1, <1>5 DEF LeftWhole, Whole
<1> DEFINE F == [of : Member, cells : Seq(Seq(STRING))]
<1>8. PICK tt : tt = [i \in 1..n |-> Wanted(met[i])]
  OBVIOUS
<1>9. ASSUME NEW i \in 1..n
      PROVE  /\ tt[i] \in Seq(F) /\ Len(tt[i]) = Len(ss[i])
             /\ \A j \in 1..Len(ss[i]) :
                  IF Expanded(tt[i][j].of) THEN IsRowOf(ss[i][j], tt[i][j].of, tt[i][j].cells)
                  ELSE ss[i][j] = tt[i][j].of
  <2>1. PICK m : m = met[i] /\ m \in Member /\ tt[i] = Wanted(m) /\ ss[i] = Piece(m, {})
    BY <1>2, <1>6, <1>8
  <2>2. CASE Expanded(m)
    <3>1. m \in TestMember /\ HasPlaceholders(m) /\ GoodData(m) /\ Readable(m)
      BY <1>3, <2>1, <2>2, ExpandedIs
    <3>2. ss[i] = Copies(m)
      BY <2>1, <2>2 DEF Piece
    <3>3. PICK want, copies : want = Wanted(m) /\ copies = Copies(m)
      OBVIOUS
    <3>4. /\ want \in Seq(RowRecord) /\ Len(want) = Len(copies)
          /\ \A j \in 1..Len(copies) : want[j].of = m /\ IsRowOf(copies[j], m, want[j].cells)
      BY <3>1, <3>3, CopiesAre
    <3>5. want \in Seq(F)
      <4>1. PICK k : k = Len(want) /\ k \in Nat /\ want \in [1..k -> RowRecord]
        BY <3>4, LenProperties
      <4>2. \A j \in 1..k : want[j] \in F
        BY <4>1 DEF RowRecord, Member
      <4>3. want \in [1..k -> F]
        BY <4>1, <4>2
      <4> HIDE DEF F
      <4>4. QED
        BY <4>1, <4>3, ListOf
    <3> HIDE DEF F
    <3>6. QED
      BY <2>1, <2>2, <3>2, <3>3, <3>4, <3>5
  <2>3. CASE ~Expanded(m)
    <3>1. PICK r : r = [of |-> m, cells |-> <<>>] /\ r \in F /\ r.of = m
      <4>1. <<>> \in Seq(Seq(STRING))
        BY EmptySeq
      <4>2. [of |-> m, cells |-> <<>>] \in F
        BY <2>1, <4>1
      <4> HIDE DEF F
      <4>3. QED
        BY <4>2
    <3> HIDE DEF F
    <3>2. tt[i] = <<r>> /\ ss[i] = <<m>>
      BY <2>1, <2>3, <3>1 DEF Wanted, Piece
    <3>3. <<r>> \in Seq(F) /\ Len(<<r>>) = 1 /\ <<r>>[1] = r /\ Len(<<m>>) = 1 /\ <<m>>[1] = m
      BY <3>1
    <3>4. \A j \in 1..Len(<<m>>) : j = 1
      BY <3>3
    <3>5. QED
      BY <2>3, <3>1, <3>2, <3>3, <3>4
  <2>4. QED
    BY <2>2, <2>3
<1> HIDE DEF F
<1>10. tt \in Seq(Seq(F)) /\ Len(tt) = n
  <2>1. \A i \in 1..n : tt[i] \in Seq(F)
    BY <1>9
  <2>2. tt \in [1..n -> Seq(F)]
    BY <1>8, <2>1
  <2>3. QED
    BY <1>2, <2>2, ListOf
<1>11. /\ Len(Flat(tt)) = Len(Flat(ss))
       /\ \A k \in 1..Len(Flat(ss)) :
            \E i \in 1..n : \E j \in 1..Len(ss[i]) : Flat(ss)[k] = ss[i][j] /\ Flat(tt)[k] = tt[i][j]
  <2>1. Aligned(ss, tt)
    BY <1>6, <1>9, <1>10 DEF Aligned
  <2>2. Alongside(ss, tt)
    BY <1>6, <1>10, <2>1, FlatAligned
  <2>3. QED
    BY <1>6, <2>2 DEF Alongside
<1>12. ASSUME NEW k \in 1..Len(Flat(tt))
       PROVE  IF Expanded(Flat(tt)[k].of)
              THEN IsRowOf(Flat(ss)[k], Flat(tt)[k].of, Flat(tt)[k].cells)
              ELSE Flat(ss)[k] = Flat(tt)[k].of
  <2>0. PICK i \in 1..n : \E j \in 1..Len(ss[i]) : Flat(ss)[k] = ss[i][j] /\ Flat(tt)[k] = tt[i][j]
    BY <1>11
  <2>1. PICK j \in 1..Len(ss[i]) : Flat(ss)[k] = ss[i][j] /\ Flat(tt)[k] = tt[i][j]
    BY <2>0
  <2>2. PICK c, w : c = ss[i][j] /\ w = tt[i][j]
    OBVIOUS
  <2>3. IF Expanded(w.of) THEN IsRowOf(c, w.of, w.cells) ELSE c = w.of
    BY <1>9, <2>2
  <2>4. Flat(ss)[k] = c /\ Flat(tt)[k] = w
    BY <2>1, <2>2
  <2>5. QED
    BY <2>3, <2>4
<1>13. Flat([i \in 1..Len(left.met) |-> Wanted(left.met[i])]) = Flat(tt)
  BY <1>1, <1>2, <1>8
<1>14. QED
  BY <1>7, <1>11, <1>12, <1>13 DEF RowsBecomeTests

(***************************************************************************)
(* The stack                                                               *)
(***************************************************************************)

LEMMA ZerosAre ==
  ASSUME NEW ms, NEW k \in Nat
  PROVE  /\ Zeros(ms, k) \in Nat /\ Zeros(ms, 0) = 0
         /\ Zeros(ms, k + 1) = IF ms[k + 1] = 0 THEN Zeros(ms, k) + 1 ELSE Zeros(ms, k)
<1> DEFINE T(n) == {j \in 1..n : ms[j] = 0}
<1>1. T(0) = {} /\ Zeros(ms, 0) = 0
  <2>1. T(0) = {}
    OBVIOUS
  <2>2. QED
    BY <2>1, FS_EmptySet DEF Zeros
<1>2. IsFiniteSet(T(k))
  <2>1. IsFiniteSet(1..k) /\ T(k) \in SUBSET (1..k)
    BY FS_Interval
  <2> HIDE DEF T
  <2>2. QED
    BY <2>1, FS_Subset
<1>3. T(k + 1) = IF ms[k + 1] = 0 THEN T(k) \cup {k + 1} ELSE T(k)
  <2>1. \A j : j \in 1..k + 1 <=> j \in 1..k \/ j = k + 1
    OBVIOUS
  <2>2. QED
    BY <2>1
<1>4. k + 1 \notin T(k)
  OBVIOUS
<1>5. Zeros(ms, k) = Cardinality(T(k)) /\ Zeros(ms, k + 1) = Cardinality(T(k + 1))
  BY DEF Zeros
<1> HIDE DEF T
<1>6. Cardinality(T(k)) \in Nat /\ Cardinality(T(k) \cup {k + 1}) = Cardinality(T(k)) + 1
  BY <1>2, <1>4, FS_CardinalityType, FS_AddElement
<1>7. QED
  BY <1>1, <1>3, <1>5, <1>6

(* The null pointers up to a place depend on the stack up to it. *)
LEMMA ZerosSame ==
  ASSUME NEW ms, NEW ns, NEW k \in Nat, \A j \in 1..k : ms[j] = ns[j]
  PROVE  Zeros(ms, k) = Zeros(ns, k)
<1>1. {j \in 1..k : ms[j] = 0} = {j \in 1..k : ns[j] = 0}
  OBVIOUS
<1>2. QED
  BY <1>1 DEF Zeros

LEMMA ZerosGrow ==
  ASSUME NEW ms, NEW k \in Nat, NEW l \in Nat, k <= l
  PROVE  Zeros(ms, k) <= Zeros(ms, l)
<1> DEFINE T(n) == {j \in 1..n : ms[j] = 0}
<1>1. IsFiniteSet(T(l)) /\ T(k) \in SUBSET T(l)
  <2>1. IsFiniteSet(1..l) /\ T(l) \in SUBSET (1..l)
    BY FS_Interval
  <2>2. T(k) \in SUBSET T(l)
    OBVIOUS
  <2> HIDE DEF T
  <2>3. QED
    BY <2>1, <2>2, FS_Subset
<1>2. Zeros(ms, k) = Cardinality(T(k)) /\ Zeros(ms, l) = Cardinality(T(l))
  BY DEF Zeros
<1> HIDE DEF T
<1>3. QED
  BY <1>1, <1>2, FS_Subset

LEMMA CountIsZeros ==
  ASSUME NEW ms
  PROVE  Count(ms, 0) = Zeros(ms, Len(ms))
<1>1. Places(ms, {0}) = {j \in 1..Len(ms) : ms[j] = 0}
  BY DEF Places
<1>2. QED
  BY <1>1 DEF Count, Zeros

(* Something pushed on the stack. *)
Pushed(ms, x, ns, n) ==
  /\ n \in Nat /\ Len(ms) = n /\ ns \in Seq(Nat) /\ Len(ns) = n + 1
  /\ \A k \in 1..n : k \in 1..n + 1 /\ ns[k] = ms[k] /\ Zeros(ns, k) = Zeros(ms, k)
  /\ n + 1 \in 1..n + 1 /\ ns[n + 1] = x
  /\ \A k \in 1..n + 1 : k \in 1..n \/ k = n + 1
  /\ n + 1 \notin 1..n
  /\ Zeros(ns, n + 1) = IF x = 0 THEN Zeros(ms, n) + 1 ELSE Zeros(ms, n)

LEMMA PushIs ==
  ASSUME NEW ms \in Seq(Nat), NEW x \in Nat
  PROVE  \E n : Pushed(ms, x, Append(ms, x), n)
<1>1. PICK n : n = Len(ms) /\ n \in Nat
  BY LenProperties
<1>2. PICK ns : ns = Append(ms, x)
  OBVIOUS
<1>3. /\ ns \in Seq(Nat) /\ Len(ns) = n + 1
      /\ \A k \in 1..n : ns[k] = ms[k]
      /\ ns[n + 1] = x
  BY <1>1, <1>2, AppendProperties
<1>4. \A k \in 1..n : Zeros(ns, k) = Zeros(ms, k)
  <2>1. \A k \in 1..n : k \in Nat /\ \A j \in 1..k : j \in 1..n
    BY <1>1
  <2>2. QED
    BY <1>3, <2>1, ZerosSame
<1>5. Zeros(ns, n) = Zeros(ms, n)
  BY <1>1, <1>3, ZerosSame
<1>6. Zeros(ns, n + 1) = IF x = 0 THEN Zeros(ms, n) + 1 ELSE Zeros(ms, n)
  <2>1. Zeros(ns, n + 1) = IF ns[n + 1] = 0 THEN Zeros(ns, n) + 1 ELSE Zeros(ns, n)
    BY <1>1, ZerosAre
  <2>2. QED
    BY <1>3, <1>5, <2>1
<1>7. n + 1 \in 1..n + 1 /\ n + 1 \notin 1..n /\ \A k \in 1..n : k \in 1..n + 1
  BY <1>1
<1>8. \A k \in 1..n + 1 : k \in 1..n \/ k = n + 1
  BY <1>1
<1>9. QED
  BY <1>1, <1>2, <1>3, <1>4, <1>6, <1>7, <1>8 DEF Pushed

(* A list without its last element. *)
Shorter(s, t, n) ==
  /\ n \in Nat /\ Len(s) = n + 1 /\ Len(t) = n
  /\ Last(s) = s[n + 1]
  /\ \A k \in 1..n : k \in 1..n + 1 /\ t[k] = s[k]
  /\ n + 1 \in 1..n + 1 /\ n + 1 \notin 1..n
  /\ \A k \in 1..n + 1 : k \in 1..n \/ k = n + 1

LEMMA FrontIs ==
  ASSUME NEW E, NEW s \in Seq(E), s # <<>>
  PROVE  Front(s) \in Seq(E) /\ Last(s) \in E /\ \E n : Shorter(s, Front(s), n)
<1>1. PICK n \in Nat : Len(s) = n + 1
  <2>1. PICK k : k = Len(s) /\ k \in Nat
    BY LenProperties
  <2>2. k # 0
    BY <2>1, EmptySeq
  <2>3. k - 1 \in Nat /\ k = (k - 1) + 1
    BY <2>1, <2>2
  <2>4. QED
    BY <2>1, <2>3
<1>2. PICK t : t = Front(s)
  OBVIOUS
<1>3. t = SubSeq(s, 1, n) /\ Last(s) = s[n + 1]
  <2>1. (n + 1) - 1 = n
    OBVIOUS
  <2>2. QED
    BY <1>1, <1>2, <2>1 DEF Front, Last
<1>4. /\ n + 1 \in 1..n + 1 /\ n + 1 \notin 1..n /\ \A k \in 1..n : k \in 1..n + 1
      /\ \A k \in 1..n + 1 : k \in 1..n \/ k = n + 1
  OBVIOUS
<1>5. \A k \in 1..n + 1 : s[k] \in E
  BY <1>1, ElementOfSeq
<1>6. t \in Seq(E) /\ Len(t) = n /\ \A k \in 1..n : t[k] = s[k]
  <2>1. 1 \in Int /\ n \in Int /\ \A k \in 1..n : s[k] \in E
    BY <1>4, <1>5
  <2>2. t \in Seq(E) /\ Len(t) = IF 1 <= n THEN n - 1 + 1 ELSE 0
    BY <1>3, <2>1, SubSeqProperties
  <2>3. \A k \in 1..n - 1 + 1 : t[k] = s[1 + k - 1]
    BY <1>3, <2>1, SubSeqProperties
  <2>4. n - 1 + 1 = n /\ (~(1 <= n) => n = 0) /\ \A k \in 1..n : 1 + k - 1 = k
    OBVIOUS
  <2>5. QED
    BY <2>2, <2>3, <2>4
<1>7. Shorter(s, t, n)
  BY <1>1, <1>3, <1>4, <1>6 DEF Shorter
<1>8. QED
  BY <1>2, <1>3, <1>4, <1>5, <1>6, <1>7

LEMMA PopIs ==
  ASSUME NEW ms \in Seq(Nat), ms # <<>>
  PROVE  /\ Front(ms) \in Seq(Nat) /\ Last(ms) \in Nat
         /\ \E n : Pushed(Front(ms), Last(ms), ms, n)
<1>1. PICK ns, x : ns = Front(ms) /\ x = Last(ms) /\ ns \in Seq(Nat) /\ x \in Nat
  BY FrontIs
<1>2. PICK n : Shorter(ms, ns, n)
  BY <1>1, FrontIs
<1>3. /\ n \in Nat /\ Len(ms) = n + 1 /\ Len(ns) = n /\ x = ms[n + 1]
      /\ \A k \in 1..n : k \in 1..n + 1 /\ ms[k] = ns[k]
      /\ n + 1 \in 1..n + 1 /\ n + 1 \notin 1..n
      /\ \A k \in 1..n + 1 : k \in 1..n \/ k = n + 1
  BY <1>1, <1>2 DEF Shorter
<1>4. ASSUME NEW k \in Nat, k <= n PROVE Zeros(ms, k) = Zeros(ns, k)
  <2>1. \A j \in 1..k : j \in 1..n
    BY <1>3, <1>4
  <2>2. \A j \in 1..k : ms[j] = ns[j]
    BY <1>3, <2>1
  <2>3. QED
    BY <2>2, ZerosSame
<1>5. Zeros(ms, n + 1) = IF x = 0 THEN Zeros(ns, n) + 1 ELSE Zeros(ns, n)
  <2>1. Zeros(ms, n) = Zeros(ns, n)
    BY <1>3, <1>4
  <2>2. Zeros(ms, n + 1) = IF ms[n + 1] = 0 THEN Zeros(ms, n) + 1 ELSE Zeros(ms, n)
    BY <1>3, ZerosAre
  <2>3. QED
    BY <1>3, <2>1, <2>2
<1>6. \A k \in 1..n : Zeros(ms, k) = Zeros(ns, k)
  BY <1>3, <1>4
<1>7. Pushed(ns, x, ms, n)
  BY <1>3, <1>5, <1>6 DEF Pushed
<1>8. QED
  BY <1>1, <1>7

(***************************************************************************)
(* A group and its members                                                 *)
(***************************************************************************)

(* The same tests wait. *)
SameWait(met, waiting, others) ==
  \A i \in 1..Len(met) : Expanded(met[i]) => (met[i].id \in waiting <=> met[i].id \in others)

LEMMA WholeSame ==
  ASSUME NEW g, NEW waiting, NEW others, Whole(g, waiting), SameWait(g.met, waiting, others)
  PROVE  Whole(g, others)
<1>1. PICK met, n : met = g.met /\ n = Len(met)
  OBVIOUS
<1>2. \A i \in 1..n : Piece(met[i], waiting) = Piece(met[i], others)
  BY <1>1 DEF SameWait, Piece
<1>3. Pieces(met, waiting) = Pieces(met, others)
  BY <1>1, <1>2 DEF Pieces
<1>4. QED
  BY <1>1, <1>3 DEF Whole

LEMMA GroupFields ==
  ASSUME NEW g \in GroupRecord
  PROVE  /\ g.number \in Nat /\ g.tests \in Seq(Held1) /\ g.met \in Seq(Member)
         /\ g = [number |-> g.number, tests |-> g.tests, met |-> g.met]
BY DEF GroupRecord, Held1

(* A group that a member has joined. *)
JoinedGroup(g, m, h, k) ==
  /\ h \in GroupRecord /\ h.number = g.number
  /\ k \in Nat /\ Len(g.met) = k /\ Len(h.met) = k + 1
  /\ h.met = Append(g.met, m) /\ h.tests = Append(g.tests, m)
  /\ \A i \in 1..k : i \in 1..k + 1 /\ h.met[i] = g.met[i]
  /\ k + 1 \in 1..k + 1 /\ k + 1 \notin 1..k /\ h.met[k + 1] = m
  /\ \A i \in 1..k + 1 : i \in 1..k \/ i = k + 1

LEMMA JoinedGroupIs ==
  ASSUME NEW g \in GroupRecord, NEW m \in Member
  PROVE  \E k : JoinedGroup(g, m, [number |-> g.number, tests |-> Append(g.tests, m), met |-> Append(g.met, m)], k)
<1>1. PICK met, tests, number : /\ met = g.met /\ tests = g.tests /\ number = g.number
                                /\ met \in Seq(Member) /\ tests \in Seq(Held1) /\ number \in Nat
  BY GroupFields
<1>2. PICK k : k = Len(met) /\ k \in Nat
  BY <1>1, LenProperties
<1>3. PICK more : more = Append(met, m)
  OBVIOUS
<1>4. /\ more \in Seq(Member) /\ Len(more) = k + 1
      /\ \A i \in 1..k : more[i] = met[i]
      /\ more[k + 1] = m
  BY <1>1, <1>2, <1>3, AppendProperties
<1>5. Append(tests, m) \in Seq(Held1)
  BY <1>1, MemberIs, AppendProperties
<1>6. /\ \A i \in 1..k : i \in 1..k + 1
      /\ k + 1 \in 1..k + 1 /\ k + 1 \notin 1..k
      /\ \A i \in 1..k + 1 : i \in 1..k \/ i = k + 1
  BY <1>2
<1>7. PICK h : h = [number |-> number, tests |-> Append(tests, m), met |-> more]
  OBVIOUS
<1>8. h \in GroupRecord
  BY <1>1, <1>4, <1>5, <1>7 DEF GroupRecord, Held1
<1>9. h.number = number /\ h.tests = Append(tests, m) /\ h.met = more
  BY <1>7
<1>10. JoinedGroup(g, m, h, k)
  BY <1>1, <1>2, <1>3, <1>4, <1>6, <1>8, <1>9 DEF JoinedGroup
<1>11. QED
  BY <1>1, <1>3, <1>7, <1>10

(* A member that has not been replaced joins a whole group. *)
LEMMA JoinedWhole ==
  ASSUME NEW g \in GroupRecord, NEW m \in Member, NEW h, NEW k, JoinedGroup(g, m, h, k),
         NEW waiting, NEW others, Whole(g, waiting), SameWait(g.met, waiting, others),
         Expanded(m) => GoodData(m) /\ Readable(m) /\ m.id \in others
  PROVE  Whole(h, others)
<1>1. PICK met, more : met = g.met /\ more = h.met /\ met \in Seq(Member) /\ more \in Seq(Member)
  BY GroupFields DEF JoinedGroup
<1>2. /\ k \in Nat /\ Len(met) = k /\ Len(more) = k + 1
      /\ h.tests = Append(g.tests, m)
      /\ \A i \in 1..k : more[i] = met[i]
      /\ more[k + 1] = m
      /\ \A i \in 1..k + 1 : i \in 1..k \/ i = k + 1
  BY <1>1 DEF JoinedGroup
<1>3. Whole(g, others)
  BY WholeSame
<1>4. \A i \in 1..k : Expanded(met[i]) => GoodData(met[i]) /\ Readable(met[i])
  BY <1>1, <1>2, <1>3 DEF Whole
<1>5. \A i \in 1..k + 1 : Expanded(more[i]) => GoodData(more[i]) /\ Readable(more[i])
  BY <1>2, <1>4
<1>6. Good(met)
  BY <1>2, <1>4 DEF Good
<1>7. PICK ss, tt : ss = Pieces(met, others) /\ tt = Pieces(more, others)
  OBVIOUS
<1>8. ss \in Seq(Seq(Held1)) /\ Len(ss) = k /\ \A i \in 1..k : ss[i] = Piece(met[i], others)
  BY <1>1, <1>2, <1>6, <1>7, PiecesAre
<1>9. PICK last : last = <<m>> /\ last \in Seq(Held1)
  <2>1. m \in Held1
    BY MemberIs
  <2>2. <<m>> \in Seq(Held1)
    BY <2>1
  <2>3. QED
    BY <2>2
<1>10. tt = Append(ss, last)
  <2>1. PICK uu : uu = Append(ss, last)
    OBVIOUS
  <2>2. /\ uu \in Seq(Seq(Held1)) /\ Len(uu) = k + 1
        /\ \A i \in 1..k : uu[i] = ss[i]
        /\ uu[k + 1] = last
    BY <1>8, <1>9, <2>1, AppendProperties
  <2>3. tt = [i \in 1..k + 1 |-> Piece(more[i], others)]
    BY <1>2, <1>7 DEF Pieces
  <2>4. Piece(more[k + 1], others) = last
    BY <1>2, <1>9 DEF Piece
  <2>5. \A i \in 1..k + 1 : tt[i] = uu[i]
    BY <1>2, <1>8, <2>2, <2>3, <2>4
  <2>6. uu = [i \in 1..k + 1 |-> uu[i]]
    BY <2>2, LenProperties
  <2>7. QED
    BY <2>1, <2>3, <2>5, <2>6
<1>11. Flat(tt) = Flat(ss) \o last
  BY <1>8, <1>9, <1>10, FlatAppend
<1>12. g.tests = Flat(ss)
  BY <1>1, <1>3, <1>7 DEF Whole
<1>13. Append(g.tests, m) = g.tests \o last
  <2>1. g.tests \in Seq(Held1) /\ m \in Held1
    BY GroupFields, MemberIs
  <2>2. QED
    BY <1>9, <2>1, AppendIsConcat
<1>14. h.tests = Flat(tt)
  BY <1>2, <1>11, <1>12, <1>13
<1>15. QED
  BY <1>1, <1>2, <1>5, <1>7, <1>14 DEF Whole

(* Groups, the innermost of which a member has joined. *)
JoinedGroups(gs, m, hs, n) ==
  /\ n \in Nat /\ n \in 1..n /\ Len(gs) = n /\ Len(hs) = n
  /\ GroupsTyped(hs)
  /\ \A d \in 1..n : d # n => hs[d] = gs[d]
  /\ \E k : JoinedGroup(gs[n], m, hs[n], k)

LEMMA SomeGroup ==
  ASSUME NEW gs, GroupsTyped(gs), gs # <<>>
  PROVE  \E n : n \in Nat /\ n # 0 /\ n \in 1..n /\ Len(gs) = n /\ gs[n] \in GroupRecord
<1>1. PICK n : n = Len(gs) /\ n \in Nat
  BY LenProperties DEF GroupsTyped
<1>2. n # 0
  BY <1>1, EmptySeq DEF GroupsTyped
<1>3. n \in 1..n
  BY <1>1, <1>2
<1>4. gs[n] \in GroupRecord
  BY <1>1, <1>3, ElementOfSeq DEF GroupsTyped
<1>5. QED
  BY <1>1, <1>2, <1>3, <1>4

LEMMA JoinedGroupsIs ==
  ASSUME NEW gs, GroupsTyped(gs), gs # <<>>, NEW m \in Member
  PROVE  \E n : JoinedGroups(gs, m, InGroup(gs, m), n)
<1>1. PICK n : n \in Nat /\ n \in 1..n /\ Len(gs) = n /\ gs[n] \in GroupRecord
  BY SomeGroup
<1>2. PICK g : g = gs[n] /\ g \in GroupRecord
  BY <1>1
<1>3. PICK h : h = [number |-> g.number, tests |-> Append(g.tests, m), met |-> Append(g.met, m)]
  OBVIOUS
<1>4. PICK k : JoinedGroup(g, m, h, k)
  BY <1>2, <1>3, JoinedGroupIs
<1>5. h \in GroupRecord /\ h.number = g.number
  BY <1>4 DEF JoinedGroup
<1>6. PICK hs : hs = InGroup(gs, m)
  OBVIOUS
<1>7. gs \in [1..n -> GroupRecord] /\ \A d \in 1..n : gs[d].number > 0
  BY <1>1, LenProperties DEF GroupsTyped
<1>8. hs = [gs EXCEPT ![n] = h]
  <2>1. g = [number |-> g.number, tests |-> g.tests, met |-> g.met]
    BY <1>2, GroupFields
  <2>2. hs = [gs EXCEPT ![n] = [[g EXCEPT !.tests = Append(@, m)] EXCEPT !.met = Append(@, m)]]
    BY <1>1, <1>2, <1>6, <1>7 DEF InGroup
  <2>3. [[g EXCEPT !.tests = Append(@, m)] EXCEPT !.met = Append(@, m)] = h
    <3>1. PICK a, b, c : a = g.number /\ b = g.tests /\ c = g.met /\ g = [number |-> a, tests |-> b, met |-> c]
      BY <2>1
    <3>2. PICK f : f = [g EXCEPT !.tests = Append(@, m)]
      OBVIOUS
    <3>3. f = [number |-> a, tests |-> Append(b, m), met |-> c]
      BY <3>1, <3>2
    <3>4. [f EXCEPT !.met = Append(@, m)] = [number |-> a, tests |-> Append(b, m), met |-> Append(c, m)]
      <4>1. PICK x, y : x = Append(b, m) /\ y = Append(c, m)
        OBVIOUS
      <4>2. f = [number |-> a, tests |-> x, met |-> c]
        BY <3>3, <4>1
      <4>3. f.met = c
        BY <4>2
      <4>4. [f EXCEPT !.met = Append(@, m)] = [f EXCEPT !.met = y]
        BY <4>1, <4>3
      <4>5. [f EXCEPT !.met = y] = [number |-> a, tests |-> x, met |-> y]
        BY <4>2
      <4>6. QED
        BY <4>1, <4>4, <4>5
    <3>5. QED
      BY <1>3, <3>1, <3>2, <3>4
  <2>4. QED
    BY <2>2, <2>3
<1>9. hs \in [1..n -> GroupRecord] /\ hs[n] = h /\ \A d \in 1..n : d # n => hs[d] = gs[d]
  BY <1>1, <1>5, <1>7, <1>8
<1>10. hs \in Seq(GroupRecord) /\ Len(hs) = n
  BY <1>1, <1>9, ListOf
<1>11. \A d \in 1..n : hs[d].number > 0
  <2>1. h.number > 0
    BY <1>1, <1>2, <1>5, <1>7
  <2>2. QED
    BY <1>7, <1>9, <2>1
<1>12. GroupsTyped(hs)
  BY <1>10, <1>11 DEF GroupsTyped
<1>13. QED
  BY <1>1, <1>2, <1>4, <1>6, <1>9, <1>10, <1>12 DEF JoinedGroups

(* A member of the groups is one there was, or the one that has joined. *)
IsOld(gs, hs, d, i) == i \in 1..Len(gs[d].met) /\ hs[d].met[i] = gs[d].met[i]
IsNew(m, hs, n, k, d, i) == d = n /\ i = k + 1 /\ hs[d].met[i] = m

LEMMA JoinedMembers ==
  ASSUME NEW gs, NEW m, NEW hs, NEW n, JoinedGroups(gs, m, hs, n)
  PROVE  \E k :
           /\ k + 1 \in 1..Len(hs[n].met) /\ hs[n].met[k + 1] = m
           /\ \A d \in 1..n : \A i \in 1..Len(hs[d].met) : IsOld(gs, hs, d, i) \/ IsNew(m, hs, n, k, d, i)
           /\ \A d \in 1..n : \A i \in 1..Len(gs[d].met) : i \in 1..Len(hs[d].met) /\ hs[d].met[i] = gs[d].met[i]
<1>1. PICK k : JoinedGroup(gs[n], m, hs[n], k)
  BY DEF JoinedGroups
<1>2. /\ Len(gs[n].met) = k /\ Len(hs[n].met) = k + 1
      /\ \A i \in 1..k : i \in 1..k + 1 /\ hs[n].met[i] = gs[n].met[i]
      /\ k + 1 \in 1..k + 1 /\ hs[n].met[k + 1] = m
      /\ \A i \in 1..k + 1 : i \in 1..k \/ i = k + 1
  BY <1>1 DEF JoinedGroup
<1>3. \A d \in 1..n : d # n => hs[d] = gs[d]
  BY DEF JoinedGroups
<1>4. ASSUME NEW d \in 1..n
      PROVE  /\ \A i \in 1..Len(hs[d].met) : IsOld(gs, hs, d, i) \/ IsNew(m, hs, n, k, d, i)
             /\ \A i \in 1..Len(gs[d].met) : i \in 1..Len(hs[d].met) /\ hs[d].met[i] = gs[d].met[i]
  <2>1. CASE d = n
    BY <1>2, <2>1 DEF IsOld, IsNew
  <2>2. CASE d # n
    BY <1>3, <2>2 DEF IsOld
  <2>3. QED
    BY <2>1, <2>2
<1>5. QED
  BY <1>2, <1>4

LEMMA MetOnceIs ==
  ASSUME NEW gs, MetOnce(gs), NEW d \in 1..Len(gs), NEW e \in 1..Len(gs),
         NEW i \in 1..Len(gs[d].met), NEW j \in 1..Len(gs[e].met),
         gs[d].met[i].id > 0, gs[d].met[i].id = gs[e].met[j].id
  PROVE  d = e /\ i = j
BY DEF MetOnce

LEMMA JoinedOnce ==
  ASSUME NEW gs, NEW m, NEW hs, NEW n, JoinedGroups(gs, m, hs, n), MetOnce(gs),
         m.id > 0 => \A d \in 1..n : \A i \in 1..Len(gs[d].met) : gs[d].met[i].id # m.id
  PROVE  MetOnce(hs)
<1>1. Len(gs) = n /\ Len(hs) = n
  BY DEF JoinedGroups
<1>2. PICK k : \A d \in 1..n : \A i \in 1..Len(hs[d].met) : IsOld(gs, hs, d, i) \/ IsNew(m, hs, n, k, d, i)
  BY JoinedMembers
<1>3. ASSUME NEW d \in 1..n, NEW e \in 1..n, NEW i \in 1..Len(hs[d].met), NEW j \in 1..Len(hs[e].met),
             hs[d].met[i].id > 0, hs[d].met[i].id = hs[e].met[j].id
      PROVE  d = e /\ i = j
  <2>1. CASE IsOld(gs, hs, d, i) /\ IsOld(gs, hs, e, j)
    <3>1. /\ d \in 1..Len(gs) /\ e \in 1..Len(gs)
          /\ i \in 1..Len(gs[d].met) /\ j \in 1..Len(gs[e].met)
          /\ hs[d].met[i] = gs[d].met[i] /\ hs[e].met[j] = gs[e].met[j]
      BY <1>1, <1>3, <2>1 DEF IsOld
    <3>2. gs[d].met[i].id > 0 /\ gs[d].met[i].id = gs[e].met[j].id
      BY <1>3, <3>1
    <3>3. QED
      BY <3>1, <3>2, MetOnceIs
  <2>2. CASE IsNew(m, hs, n, k, d, i) /\ IsOld(gs, hs, e, j)
    BY <1>3, <2>2 DEF IsOld, IsNew
  <2>3. CASE IsOld(gs, hs, d, i) /\ IsNew(m, hs, n, k, e, j)
    BY <1>3, <2>3 DEF IsOld, IsNew
  <2>4. CASE IsNew(m, hs, n, k, d, i) /\ IsNew(m, hs, n, k, e, j)
    BY <2>4 DEF IsNew
  <2>5. QED
    BY <1>2, <2>1, <2>2, <2>3, <2>4
<1>4. QED
  BY <1>1, <1>3 DEF MetOnce

LEMMA JoinedWait ==
  ASSUME NEW gs, NEW m, NEW hs, NEW n, JoinedGroups(gs, m, hs, n),
         NEW reps, NEW tests, NEW inGroup, TestsWait(gs, reps, tests, inGroup),
         TestWaits(m, reps, tests, inGroup \/ n < n)
  PROVE  TestsWait(hs, reps, tests, inGroup)
<1>1. Len(gs) = n /\ Len(hs) = n
  BY DEF JoinedGroups
<1>2. PICK k : \A d \in 1..n : \A i \in 1..Len(hs[d].met) : IsOld(gs, hs, d, i) \/ IsNew(m, hs, n, k, d, i)
  BY JoinedMembers
<1>3. ASSUME NEW d \in 1..n, NEW i \in 1..Len(hs[d].met)
      PROVE  TestWaits(hs[d].met[i], reps, tests, inGroup \/ d < n)
  <2>1. CASE IsOld(gs, hs, d, i)
    <3>1. i \in 1..Len(gs[d].met) /\ hs[d].met[i] = gs[d].met[i]
      BY <2>1 DEF IsOld
    <3>2. TestWaits(gs[d].met[i], reps, tests, inGroup \/ d < n)
      BY <1>1, <3>1 DEF TestsWait
    <3>3. QED
      BY <3>1, <3>2
  <2>2. CASE IsNew(m, hs, n, k, d, i)
    BY <2>2 DEF IsNew
  <2>3. QED
    BY <1>2, <2>1, <2>2
<1>4. QED
  BY <1>1, <1>3 DEF TestsWait

LEMMA JoinedMet ==
  ASSUME NEW gs, NEW m, NEW hs, NEW n, JoinedGroups(gs, m, hs, n)
  PROVE  /\ \A id : \A e \in 1..n : IsMet(id, gs[e].met) => IsMet(id, hs[e].met)
         /\ Expanded(m) => IsMet(m.id, hs[n].met)
<1>1. PICK k :
        /\ k + 1 \in 1..Len(hs[n].met) /\ hs[n].met[k + 1] = m
        /\ \A d \in 1..n : \A i \in 1..Len(gs[d].met) : i \in 1..Len(hs[d].met) /\ hs[d].met[i] = gs[d].met[i]
  BY JoinedMembers
<1>2. ASSUME NEW id, NEW e \in 1..n, IsMet(id, gs[e].met) PROVE IsMet(id, hs[e].met)
  <2>1. PICK i \in 1..Len(gs[e].met) : gs[e].met[i].id = id /\ Expanded(gs[e].met[i])
    BY <1>2 DEF IsMet
  <2>2. i \in 1..Len(hs[e].met) /\ hs[e].met[i] = gs[e].met[i]
    BY <1>1
  <2>3. QED
    BY <2>1, <2>2 DEF IsMet
<1>3. ASSUME Expanded(m) PROVE IsMet(m.id, hs[n].met)
  BY <1>1, <1>3 DEF IsMet
<1>4. QED
  BY <1>2, <1>3

LEMMA JoinedAllWhole ==
  ASSUME NEW gs, GroupsTyped(gs), NEW m \in Member, NEW hs, NEW n, JoinedGroups(gs, m, hs, n),
         NEW waiting, NEW others, GroupsWhole(gs, waiting),
         \A d \in 1..n : SameWait(gs[d].met, waiting, others),
         Expanded(m) => GoodData(m) /\ Readable(m) /\ m.id \in others
  PROVE  GroupsWhole(hs, others)
<1>1. n \in 1..n /\ Len(gs) = n /\ Len(hs) = n /\ \A d \in 1..n : d # n => hs[d] = gs[d]
  BY DEF JoinedGroups
<1>2. PICK k : JoinedGroup(gs[n], m, hs[n], k)
  BY DEF JoinedGroups
<1>3. gs[n] \in GroupRecord
  BY <1>1, ElementOfSeq DEF GroupsTyped
<1>4. \A d \in 1..n : Whole(gs[d], waiting)
  BY <1>1 DEF GroupsWhole
<1>5. Whole(hs[n], others)
  <2>1. PICK g, h : g = gs[n] /\ h = hs[n]
    OBVIOUS
  <2>2. g \in GroupRecord /\ JoinedGroup(g, m, h, k) /\ Whole(g, waiting) /\ SameWait(g.met, waiting, others)
    BY <1>1, <1>2, <1>3, <1>4, <2>1
  <2>3. Whole(h, others)
    BY <2>2, JoinedWhole
  <2>4. QED
    BY <2>1, <2>3
<1>6. ASSUME NEW d \in 1..n, d # n PROVE Whole(hs[d], others)
  <2>1. Whole(gs[d], others)
    BY <1>4, WholeSame
  <2>2. QED
    BY <1>1, <1>6, <2>1
<1>7. QED
  BY <1>1, <1>5, <1>6 DEF GroupsWhole

(***************************************************************************)
(* The walk                                                                *)
(***************************************************************************)

LEMMA MetAre ==
  ASSUME NEW gs, GroupsTyped(gs), NEW d \in 1..Len(gs)
  PROVE  gs[d] \in GroupRecord /\ \A i \in 1..Len(gs[d].met) : gs[d].met[i] \in Member
<1>1. gs[d] \in GroupRecord
  BY ElementOfSeq DEF GroupsTyped
<1>2. PICK met : met = gs[d].met /\ met \in Seq(Member)
  BY <1>1, GroupFields
<1>3. \A i \in 1..Len(met) : met[i] \in Member
  BY <1>2, ElementOfSeq
<1>4. QED
  BY <1>1, <1>2, <1>3

(* Tests are numbered as they are met. *)
LEMMA MetBefore ==
  ASSUME NEW gs, GroupsTyped(gs), NEW reps, NEW tests \in Nat, NEW inGroup, TestsWait(gs, reps, tests, inGroup),
         NEW more \in Nat, tests <= more
  PROVE  /\ TestsWait(gs, reps, more, inGroup)
         /\ \A id \in Int : id > tests =>
              \A d \in 1..Len(gs) : \A i \in 1..Len(gs[d].met) : gs[d].met[i].id # id
<1>1. ASSUME NEW d \in 1..Len(gs), NEW i \in 1..Len(gs[d].met)
      PROVE  gs[d].met[i].id \in Int /\ gs[d].met[i].id <= tests
  <2>1. gs[d].met[i] \in Member
    BY MetAre
  <2>2. gs[d].met[i].id <= tests
    BY DEF TestsWait, TestWaits
  <2>3. QED
    BY <2>1, <2>2, MemberIs
<1>2. ASSUME NEW d \in 1..Len(gs), NEW i \in 1..Len(gs[d].met)
      PROVE  TestWaits(gs[d].met[i], reps, more, inGroup \/ d < Len(gs))
  <2>1. TestWaits(gs[d].met[i], reps, tests, inGroup \/ d < Len(gs))
    BY DEF TestsWait
  <2>2. PICK m : m = gs[d].met[i]
    OBVIOUS
  <2>3. m.id <= more
    <3>1. PICK id : id = m.id /\ id \in Int /\ id <= tests
      BY <1>1, <2>2
    <3>2. id <= more
      BY <3>1
    <3>3. QED
      BY <3>1, <3>2
  <2>4. QED
    BY <2>1, <2>2, <2>3 DEF TestWaits
<1>3. ASSUME NEW id \in Int, id > tests, NEW d \in 1..Len(gs), NEW i \in 1..Len(gs[d].met)
      PROVE  gs[d].met[i].id # id
  <2>1. PICK other : other = gs[d].met[i].id /\ other \in Int /\ other <= tests
    BY <1>1
  <2>2. other # id
    BY <1>3, <2>1
  <2>3. QED
    BY <2>1, <2>2
<1>4. QED
  BY <1>2, <1>3 DEF TestsWait

LEMMA WalkFields ==
  ASSUME NEW gs, NEW ms, NEW reps, NEW tests, NEW inGroup, Walk(gs, ms, reps, tests, inGroup)
  PROVE  /\ GroupsTyped(gs) /\ ms \in Seq(Nat) /\ tests \in Nat
         /\ reps = [n \in DOMAIN reps |-> reps[n]]
         /\ StackMarked(gs, ms) /\ StackedMet(gs, ms, DOMAIN reps)
         /\ MetOnce(gs) /\ TestsWait(gs, reps, tests, inGroup)
         /\ GroupsWhole(gs, DOMAIN reps)
BY DEF Walk

(* A member without placeholders joins the innermost group. *)
LEMMA MemberWalks ==
  ASSUME NEW gs, NEW ms, NEW reps, NEW tests, Walk(gs, ms, reps, tests, TRUE), gs # <<>>,
         NEW m \in Member, ~Expanded(m), NEW more \in Nat, tests <= more, m.id <= more,
         m.id > 0 => m.id > tests
  PROVE  Walk(InGroup(gs, m), ms, reps, more, TRUE)
<1>1. /\ GroupsTyped(gs) /\ ms \in Seq(Nat) /\ tests \in Nat
      /\ reps = [n \in DOMAIN reps |-> reps[n]]
      /\ StackMarked(gs, ms) /\ StackedMet(gs, ms, DOMAIN reps)
      /\ MetOnce(gs) /\ TestsWait(gs, reps, tests, TRUE)
      /\ GroupsWhole(gs, DOMAIN reps)
  BY WalkFields
<1>2. PICK hs, n : hs = InGroup(gs, m) /\ JoinedGroups(gs, m, hs, n)
  BY <1>1, JoinedGroupsIs
<1>3. n \in Nat /\ n \in 1..n /\ Len(gs) = n /\ Len(hs) = n /\ GroupsTyped(hs)
  BY <1>2 DEF JoinedGroups
<1>4. TestsWait(hs, reps, more, TRUE)
  <2>1. TestsWait(gs, reps, more, TRUE)
    BY <1>1, MetBefore
  <2>2. TestWaits(m, reps, more, TRUE \/ n < n)
    BY DEF TestWaits
  <2>3. QED
    BY <1>2, <2>1, <2>2, JoinedWait
<1>5. MetOnce(hs)
  <2>1. m.id > 0 => \A d \in 1..n : \A i \in 1..Len(gs[d].met) : gs[d].met[i].id # m.id
    <3>1. m.id \in Int
      BY MemberIs
    <3>2. \A id \in Int : id > tests =>
            \A d \in 1..Len(gs) : \A i \in 1..Len(gs[d].met) : gs[d].met[i].id # id
      BY <1>1, MetBefore
    <3>3. QED
      BY <1>3, <3>1, <3>2
  <2>2. QED
    BY <1>1, <1>2, <2>1, JoinedOnce
<1>6. GroupsWhole(hs, DOMAIN reps)
  <2>1. \A d \in 1..n : SameWait(gs[d].met, DOMAIN reps, DOMAIN reps)
    BY DEF SameWait
  <2>2. QED
    BY <1>1, <1>2, <2>1, JoinedAllWhole
<1>7. StackMarked(hs, ms)
  <2>1. hs # <<>>
    <3>1. n # 0
      BY <1>3
    <3>2. Len(hs) # 0
      BY <1>3, <3>1
    <3>3. QED
      BY <3>2, EmptySeq
  <2>2. QED
    BY <1>1, <1>3, <2>1 DEF StackMarked
<1>8. StackedMet(hs, ms, DOMAIN reps)
  <2>1. \A id : \A e \in 1..n : IsMet(id, gs[e].met) => IsMet(id, hs[e].met)
    BY <1>2, JoinedMet
  <2>2. ASSUME NEW k \in 1..Len(ms), ms[k] # 0
        PROVE  Zeros(ms, k) \in 1..Len(hs) /\ IsMet(ms[k], hs[Zeros(ms, k)].met)
    <3>1. Zeros(ms, k) \in 1..n /\ IsMet(ms[k], gs[Zeros(ms, k)].met)
      BY <1>1, <1>3, <2>2 DEF StackedMet
    <3>2. QED
      BY <1>3, <2>1, <3>1
  <2>3. QED
    BY <1>1, <2>2 DEF StackedMet
<1>9. QED
  BY <1>1, <1>2, <1>3, <1>4, <1>5, <1>6, <1>7, <1>8 DEF Walk

(* What is on the stack was met. *)
LEMMA StackBefore ==
  ASSUME NEW gs, NEW ms, NEW reps, NEW tests, NEW inGroup, Walk(gs, ms, reps, tests, inGroup),
         NEW id \in Int, id > tests
  PROVE  \A k \in 1..Len(ms) : ms[k] # id
<1>1. GroupsTyped(gs) /\ tests \in Nat /\ StackedMet(gs, ms, DOMAIN reps) /\ TestsWait(gs, reps, tests, inGroup)
  BY WalkFields
<1>2. \A d \in 1..Len(gs) : \A i \in 1..Len(gs[d].met) : gs[d].met[i].id # id
  <2>1. tests <= tests
    BY <1>1
  <2>2. QED
    BY <1>1, <2>1, MetBefore
<1>3. id # 0
  BY <1>1
<1>4. ASSUME NEW k \in 1..Len(ms), ms[k] = id PROVE FALSE
  <2>1. Zeros(ms, k) \in 1..Len(gs) /\ IsMet(id, gs[Zeros(ms, k)].met)
    BY <1>1, <1>3, <1>4 DEF StackedMet
  <2>2. QED
    BY <1>2, <2>1 DEF IsMet
<1>5. QED
  BY <1>4

(* The copies of one more test. *)
Grown(reps, id, copies, more) ==
  more = [n \in DOMAIN reps \cup {id} |-> IF n = id THEN copies ELSE reps[n]]

(* A test with placeholders joins the innermost group, and its copies wait. *)
LEMMA ExpandWalks ==
  ASSUME NEW gs, NEW ms, NEW reps, NEW tests, Walk(gs, ms, reps, tests, TRUE), gs # <<>>,
         NEW m \in TestMember, Expanded(m), GoodData(m), Readable(m), NEW id, id = tests + 1, m.id = id,
         NEW more, Grown(reps, id, Copies(m), more)
  PROVE  Walk(InGroup(gs, m), Append(ms, id), more, id, TRUE)
<1>1. /\ GroupsTyped(gs) /\ ms \in Seq(Nat) /\ tests \in Nat
      /\ StackMarked(gs, ms) /\ StackedMet(gs, ms, DOMAIN reps)
      /\ MetOnce(gs) /\ TestsWait(gs, reps, tests, TRUE)
      /\ GroupsWhole(gs, DOMAIN reps)
  BY WalkFields
<1>2. id \in Nat /\ id \in Int /\ id # 0 /\ id > tests /\ tests <= id /\ m \in Member
  BY <1>1 DEF Member
<1>3. PICK hs, n : hs = InGroup(gs, m) /\ JoinedGroups(gs, m, hs, n)
  BY <1>1, <1>2, JoinedGroupsIs
<1>4. n \in Nat /\ n \in 1..n /\ Len(gs) = n /\ Len(hs) = n /\ GroupsTyped(hs)
  BY <1>3 DEF JoinedGroups
<1>5. PICK ns, N : ns = Append(ms, id) /\ Pushed(ms, id, ns, N)
  BY <1>1, <1>2, PushIs
<1>6. /\ N \in Nat /\ Len(ms) = N /\ ns \in Seq(Nat) /\ Len(ns) = N + 1
      /\ \A k \in 1..N : k \in 1..N + 1 /\ ns[k] = ms[k] /\ Zeros(ns, k) = Zeros(ms, k)
      /\ N + 1 \in 1..N + 1 /\ ns[N + 1] = id
      /\ \A k \in 1..N + 1 : k \in 1..N \/ k = N + 1
      /\ Zeros(ns, N + 1) = Zeros(ms, N)
  BY <1>2, <1>5 DEF Pushed
<1>7. \A d \in 1..n : \A i \in 1..Len(gs[d].met) : gs[d].met[i].id # id
  BY <1>1, <1>2, <1>4, MetBefore
<1>8. \A k \in 1..N : ms[k] # id
  <2>1. \A k \in 1..Len(ms) : ms[k] # id
    BY <1>2, StackBefore
  <2>2. QED
    BY <1>6, <2>1
<1>9. /\ DOMAIN more = DOMAIN reps \cup {id}
      /\ more = [k \in DOMAIN more |-> more[k]]
      /\ more[id] = Copies(m)
      /\ \A k \in DOMAIN reps : k # id => more[k] = reps[k]
  BY DEF Grown
<1>10. TestsWait(hs, more, id, TRUE)
  <2>1. ASSUME NEW d \in 1..n, NEW i \in 1..Len(gs[d].met)
        PROVE  TestWaits(gs[d].met[i], more, id, TRUE \/ d < n)
    <3>1. TestWaits(gs[d].met[i], reps, id, TRUE \/ d < n)
      <4>1. TestsWait(gs, reps, id, TRUE)
        BY <1>1, <1>2, MetBefore
      <4>2. QED
        BY <1>4, <4>1 DEF TestsWait
    <3>2. gs[d].met[i].id # id
      BY <1>7
    <3>3. QED
      BY <1>9, <3>1, <3>2 DEF TestWaits
  <2>2. TestsWait(gs, more, id, TRUE)
    BY <1>4, <2>1 DEF TestsWait
  <2>3. TestWaits(m, more, id, TRUE \/ n < n)
    BY <1>2, <1>9 DEF TestWaits
  <2>4. QED
    BY <1>3, <2>2, <2>3, JoinedWait
<1>11. MetOnce(hs)
  <2>1. m.id > 0 => \A d \in 1..n : \A i \in 1..Len(gs[d].met) : gs[d].met[i].id # m.id
    BY <1>7
  <2>2. QED
    BY <1>1, <1>3, <2>1, JoinedOnce
<1>12. GroupsWhole(hs, DOMAIN more)
  <2>1. \A d \in 1..n : SameWait(gs[d].met, DOMAIN reps, DOMAIN more)
    BY <1>7, <1>9 DEF SameWait
  <2>2. m.id \in DOMAIN more
    BY <1>9
  <2>3. QED
    BY <1>1, <1>2, <1>3, <2>1, <2>2, JoinedAllWhole
<1>13. StackMarked(hs, ns)
  <2>1. Zeros(ms, N) = n /\ ms # <<>> /\ ms[1] = 0
    BY <1>1, <1>4, <1>6 DEF StackMarked
  <2>2. N # 0
    BY <1>1, <1>6, <2>1, EmptySeq
  <2>3. 1 \in 1..N /\ N + 1 # 0 /\ n # 0
    BY <1>4, <1>6, <2>2
  <2>4. ns # <<>> /\ hs # <<>>
    BY <1>4, <1>6, <2>3, EmptySeq
  <2>5. ns[1] = 0
    BY <1>6, <2>1, <2>3
  <2>6. QED
    BY <1>4, <1>6, <2>1, <2>4, <2>5 DEF StackMarked
<1>14. StackedMet(hs, ns, DOMAIN more)
  <2>1. /\ \A x : \A e \in 1..n : IsMet(x, gs[e].met) => IsMet(x, hs[e].met)
        /\ IsMet(id, hs[n].met)
    BY <1>3, JoinedMet
  <2>2. ASSUME NEW k \in 1..N + 1, ns[k] # 0
        PROVE  Zeros(ns, k) \in 1..n /\ IsMet(ns[k], hs[Zeros(ns, k)].met)
    <3>1. CASE k \in 1..N
      <4>1. Zeros(ms, k) \in 1..n /\ IsMet(ms[k], gs[Zeros(ms, k)].met)
        BY <1>1, <1>4, <1>6, <2>2, <3>1 DEF StackedMet
      <4>2. QED
        BY <1>6, <2>1, <3>1, <4>1
    <3>2. CASE k = N + 1
      <4>1. Zeros(ns, k) = n
        BY <1>1, <1>4, <1>6, <3>2 DEF StackMarked
      <4>2. QED
        BY <1>4, <1>6, <2>1, <3>2, <4>1
    <3>3. QED
      BY <1>6, <3>1, <3>2
  <2>3. ASSUME NEW k \in 1..N + 1, NEW l \in 1..N + 1, ns[k] = ns[l], ns[k] # 0
        PROVE  k = l
    <3>1. CASE k \in 1..N /\ l \in 1..N
      BY <1>1, <1>6, <2>3, <3>1 DEF StackedMet
    <3>2. CASE k = N + 1 /\ l \in 1..N
      BY <1>6, <1>8, <2>3, <3>2
    <3>3. CASE k \in 1..N /\ l = N + 1
      BY <1>6, <1>8, <2>3, <3>3
    <3>4. QED
      BY <1>6, <3>1, <3>2, <3>3
  <2>4. ASSUME NEW x
        PROVE  x \in DOMAIN more <=> x # 0 /\ \E k \in 1..N + 1 : ns[k] = x
    <3>1. x \in DOMAIN reps <=> x # 0 /\ \E k \in 1..N : ms[k] = x
      BY <1>1, <1>6 DEF StackedMet
    <3>2. (\E k \in 1..N + 1 : ns[k] = x) <=> (\E k \in 1..N : ms[k] = x) \/ x = id
      BY <1>6
    <3>3. QED
      BY <1>2, <1>9, <3>1, <3>2
  <2>5. QED
    BY <1>4, <1>6, <2>2, <2>3, <2>4 DEF StackedMet
<1>15. QED
  BY <1>2, <1>3, <1>4, <1>5, <1>6, <1>9, <1>10, <1>11, <1>12, <1>13, <1>14 DEF Walk

LEMMA NewGroupIs ==
  ASSUME NEW num \in Nat, NEW waiting
  PROVE  /\ Group(num) \in GroupRecord /\ Group(num).number = num
         /\ Len(Group(num).met) = 0 /\ Whole(Group(num), waiting)
<1>1. PICK none : none = <<>> /\ Len(none) = 0 /\ none \in Seq(Held1) /\ none \in Seq(Member)
  BY EmptySeq
<1>2. Group(num) = [number |-> num, tests |-> none, met |-> none]
  BY <1>1 DEF Group
<1>3. Group(num) \in GroupRecord
  BY <1>1, <1>2 DEF GroupRecord, Held1
<1>4. Group(num).number = num /\ Group(num).tests = none /\ Group(num).met = none
  BY <1>2
<1>5. Pieces(none, waiting) = <<>>
  <2>1. PICK ss : ss = Pieces(none, waiting)
    OBVIOUS
  <2>2. ss = [i \in 1..0 |-> Piece(none[i], waiting)]
    BY <1>1, <2>1 DEF Pieces
  <2>3. ss \in [1..0 -> Seq(Held1)]
    <3>1. \A i \in 1..0 : FALSE
      OBVIOUS
    <3>2. QED
      BY <2>2, <3>1
  <2>4. ss \in Seq(Seq(Held1)) /\ Len(ss) = 0
    <3>1. 0 \in Nat
      OBVIOUS
    <3>2. QED
      BY <2>3, <3>1, ListOf
  <2>5. QED
    BY <2>1, <2>4, EmptySeq
<1>6. \A i \in 1..Len(none) : FALSE
  BY <1>1
<1>7. Whole(Group(num), waiting)
  BY <1>1, <1>4, <1>5, <1>6, FlatEmpty DEF Whole
<1>8. QED
  BY <1>1, <1>3, <1>4, <1>7

(* A group is entered. *)
LEMMA EnterWalks ==
  ASSUME NEW gs, NEW ms, NEW reps, NEW tests, Walk(gs, ms, reps, tests, TRUE), NEW num \in Nat, num > 0
  PROVE  Walk(Append(gs, Group(num)), Append(ms, 0), reps, tests, TRUE)
<1>1. /\ GroupsTyped(gs) /\ ms \in Seq(Nat) /\ tests \in Nat
      /\ reps = [n \in DOMAIN reps |-> reps[n]]
      /\ StackMarked(gs, ms) /\ StackedMet(gs, ms, DOMAIN reps)
      /\ MetOnce(gs) /\ TestsWait(gs, reps, tests, TRUE)
      /\ GroupsWhole(gs, DOMAIN reps)
  BY WalkFields
<1>2. PICK g : /\ g = Group(num) /\ g \in GroupRecord /\ g.number = num
               /\ Len(g.met) = 0 /\ Whole(g, DOMAIN reps)
  BY NewGroupIs
<1>3. PICK n : n = Len(gs) /\ n \in Nat
  BY <1>1, LenProperties DEF GroupsTyped
<1>4. PICK hs : hs = Append(gs, g)
  OBVIOUS
<1>5. /\ hs \in Seq(GroupRecord) /\ Len(hs) = n + 1
      /\ \A d \in 1..n : hs[d] = gs[d]
      /\ hs[n + 1] = g
  BY <1>1, <1>2, <1>3, <1>4, AppendProperties DEF GroupsTyped
<1>6. /\ \A d \in 1..n + 1 : d \in 1..n \/ d = n + 1
      /\ n + 1 # 0 /\ n + 1 \in 1..n + 1 /\ \A d \in 1..n : d \in 1..n + 1
  BY <1>3
<1>7. \A i \in 1..Len(g.met) : FALSE
  BY <1>2
<1>8. GroupsTyped(hs)
  <2>1. \A d \in 1..n : hs[d].number > 0
    BY <1>1, <1>3, <1>5 DEF GroupsTyped
  <2>2. hs[n + 1].number > 0
    BY <1>2, <1>5
  <2>3. QED
    BY <1>5, <1>6, <2>1, <2>2 DEF GroupsTyped
<1>9. PICK ns, N : ns = Append(ms, 0) /\ Pushed(ms, 0, ns, N)
  <2>1. 0 \in Nat
    OBVIOUS
  <2>2. QED
    BY <1>1, <2>1, PushIs
<1>10. /\ N \in Nat /\ Len(ms) = N /\ ns \in Seq(Nat) /\ Len(ns) = N + 1
       /\ \A k \in 1..N : k \in 1..N + 1 /\ ns[k] = ms[k] /\ Zeros(ns, k) = Zeros(ms, k)
       /\ N + 1 \in 1..N + 1 /\ ns[N + 1] = 0
       /\ \A k \in 1..N + 1 : k \in 1..N \/ k = N + 1
       /\ Zeros(ns, N + 1) = Zeros(ms, N) + 1
  BY <1>9 DEF Pushed
<1>11. TestsWait(hs, reps, tests, TRUE)
  <2>1. ASSUME NEW d \in 1..n + 1, NEW i \in 1..Len(hs[d].met)
        PROVE  TestWaits(hs[d].met[i], reps, tests, TRUE \/ d < n + 1)
    <3>1. d \in 1..n /\ hs[d] = gs[d]
      BY <1>5, <1>6, <1>7
    <3>2. TestWaits(gs[d].met[i], reps, tests, TRUE \/ d < n)
      BY <1>1, <1>3, <3>1 DEF TestsWait
    <3>3. QED
      BY <3>1, <3>2 DEF TestWaits
  <2>2. QED
    BY <1>5, <2>1 DEF TestsWait
<1>12. MetOnce(hs)
  <2>1. ASSUME NEW d \in 1..n + 1, NEW i \in 1..Len(hs[d].met) PROVE d \in 1..n /\ hs[d] = gs[d]
    BY <1>5, <1>6, <1>7
  <2>2. ASSUME NEW d \in 1..n + 1, NEW e \in 1..n + 1,
               NEW i \in 1..Len(hs[d].met), NEW j \in 1..Len(hs[e].met),
               hs[d].met[i].id > 0, hs[d].met[i].id = hs[e].met[j].id
        PROVE  d = e /\ i = j
    <3>1. d \in 1..n /\ hs[d] = gs[d] /\ e \in 1..n /\ hs[e] = gs[e]
      BY <2>1
    <3>2. QED
      BY <1>1, <1>3, <2>2, <3>1 DEF MetOnce
  <2>3. QED
    BY <1>5, <2>2 DEF MetOnce
<1>13. GroupsWhole(hs, DOMAIN reps)
  BY <1>1, <1>2, <1>3, <1>5, <1>6 DEF GroupsWhole
<1>14. StackMarked(hs, ns)
  <2>1. Zeros(ms, N) = n
    BY <1>1, <1>3, <1>10 DEF StackMarked
  <2>2. hs # <<>> /\ ns # <<>>
    <3>1. N + 1 # 0
      BY <1>10
    <3>2. QED
      BY <1>5, <1>6, <1>10, <3>1, EmptySeq
  <2>3. ns[1] = 0
    <3>1. CASE N = 0
      BY <1>10, <3>1
    <3>2. CASE N # 0
      <4>1. 1 \in 1..N /\ ms # <<>>
        BY <1>10, <3>2, EmptySeq
      <4>2. ms[1] = 0
        BY <1>1, <4>1 DEF StackMarked
      <4>3. QED
        BY <1>10, <4>1, <4>2
    <3>3. QED
      BY <3>1, <3>2
  <2>4. QED
    BY <1>5, <1>10, <2>1, <2>2, <2>3 DEF StackMarked
<1>15. StackedMet(hs, ns, DOMAIN reps)
  <2>1. ASSUME NEW k \in 1..N + 1, ns[k] # 0
        PROVE  Zeros(ns, k) \in 1..n + 1 /\ IsMet(ns[k], hs[Zeros(ns, k)].met)
    <3>1. k \in 1..N /\ ms[k] # 0
      BY <1>10, <2>1
    <3>2. Zeros(ms, k) \in 1..n /\ IsMet(ms[k], gs[Zeros(ms, k)].met)
      BY <1>1, <1>3, <1>10, <3>1 DEF StackedMet
    <3>3. QED
      BY <1>5, <1>6, <1>10, <3>1, <3>2
  <2>2. ASSUME NEW k \in 1..N + 1, NEW l \in 1..N + 1, ns[k] = ns[l], ns[k] # 0
        PROVE  k = l
    <3>1. k \in 1..N /\ l \in 1..N
      BY <1>10, <2>2
    <3>2. QED
      BY <1>1, <1>10, <2>2, <3>1 DEF StackedMet
  <2>3. ASSUME NEW x
        PROVE  x \in DOMAIN reps <=> x # 0 /\ \E k \in 1..N + 1 : ns[k] = x
    <3>1. x \in DOMAIN reps <=> x # 0 /\ \E k \in 1..N : ms[k] = x
      BY <1>1, <1>10 DEF StackedMet
    <3>2. (\E k \in 1..N + 1 : ns[k] = x) <=> (\E k \in 1..N : ms[k] = x) \/ x = 0
      BY <1>10
    <3>3. QED
      BY <3>1, <3>2
  <2>4. QED
    BY <1>5, <1>10, <2>1, <2>2, <2>3 DEF StackedMet
<1>16. QED
  BY <1>1, <1>2, <1>4, <1>8, <1>9, <1>10, <1>11, <1>12, <1>13, <1>14, <1>15 DEF Walk

LEMMA LeaveWalks ==
  ASSUME NEW gs, NEW ms, NEW reps, NEW tests, NEW inGroup, Walk(gs, ms, reps, tests, inGroup)
  PROVE  Walk(gs, ms, reps, tests, FALSE)
<1>1. /\ GroupsTyped(gs) /\ ms \in Seq(Nat) /\ tests \in Nat
      /\ reps = [n \in DOMAIN reps |-> reps[n]]
      /\ StackMarked(gs, ms) /\ StackedMet(gs, ms, DOMAIN reps)
      /\ MetOnce(gs) /\ TestsWait(gs, reps, tests, inGroup)
      /\ GroupsWhole(gs, DOMAIN reps)
  BY WalkFields
<1>2. TestsWait(gs, reps, tests, FALSE)
  BY <1>1 DEF TestsWait, TestWaits
<1>3. QED
  BY <1>1, <1>2 DEF Walk

LEMMA StackNotEmpty ==
  ASSUME NEW gs, NEW ms, NEW reps, NEW tests, NEW inGroup, Walk(gs, ms, reps, tests, inGroup), gs # <<>>
  PROVE  ms # <<>> /\ ms \in Seq(Nat) /\ gs \in Seq(GroupRecord)
BY DEF Walk, StackMarked, GroupsTyped

(* On the stack below its top null pointer is no test of the group to be left. *)
LEMMA DoneWalks ==
  ASSUME NEW gs, NEW ms, NEW reps, NEW tests, NEW inGroup, Walk(gs, ms, reps, tests, inGroup),
         gs # <<>>, Last(ms) = 0
  PROVE  /\ Last(gs) \in GroupRecord /\ Last(gs).number > 0 /\ Whole(Last(gs), {})
         /\ Walk(Front(gs), Front(ms), reps, tests, TRUE)
         /\ Front(gs) = <<>> <=> Len(gs) = 1
<1>1. /\ GroupsTyped(gs) /\ ms \in Seq(Nat) /\ tests \in Nat
      /\ reps = [n \in DOMAIN reps |-> reps[n]]
      /\ StackMarked(gs, ms) /\ StackedMet(gs, ms, DOMAIN reps)
      /\ MetOnce(gs) /\ TestsWait(gs, reps, tests, inGroup)
      /\ GroupsWhole(gs, DOMAIN reps)
  BY WalkFields
<1>2. PICK hs, g : hs = Front(gs) /\ g = Last(gs) /\ hs \in Seq(GroupRecord) /\ g \in GroupRecord
  BY <1>1, FrontIs DEF GroupsTyped
<1>3. PICK n : Shorter(gs, hs, n)
  BY <1>1, <1>2, FrontIs DEF GroupsTyped
<1>4. /\ n \in Nat /\ Len(gs) = n + 1 /\ Len(hs) = n /\ g = gs[n + 1]
      /\ \A d \in 1..n : d \in 1..n + 1 /\ hs[d] = gs[d]
      /\ n + 1 \in 1..n + 1 /\ n + 1 \notin 1..n
  BY <1>2, <1>3 DEF Shorter
<1>5. PICK ns : ns = Front(ms) /\ ns \in Seq(Nat)
  BY StackNotEmpty, PopIs
<1>6. PICK N : Pushed(ns, 0, ms, N)
  BY <1>5, StackNotEmpty, PopIs
<1>7. /\ N \in Nat /\ Len(ns) = N /\ Len(ms) = N + 1
      /\ \A k \in 1..N : k \in 1..N + 1 /\ ms[k] = ns[k] /\ Zeros(ms, k) = Zeros(ns, k)
      /\ N + 1 \in 1..N + 1 /\ ms[N + 1] = 0
      /\ \A k \in 1..N + 1 : k \in 1..N \/ k = N + 1
      /\ Zeros(ms, N + 1) = Zeros(ns, N) + 1
  BY <1>6 DEF Pushed
<1>8. Zeros(ns, N) = n
  <2>1. Zeros(ms, N + 1) = n + 1
    BY <1>1, <1>4, <1>7 DEF StackMarked
  <2>2. PICK z : z = Zeros(ns, N) /\ z \in Nat /\ z + 1 = n + 1
    BY <1>7, <2>1, ZerosAre
  <2>3. z = n
    BY <1>4, <2>2
  <2>4. QED
    BY <2>2, <2>3
<1>9. ASSUME NEW k \in 1..N, ns[k] # 0
      PROVE  Zeros(ns, k) \in 1..n /\ IsMet(ns[k], gs[Zeros(ns, k)].met)
  <2>1. Zeros(ns, k) \in 1..n + 1 /\ IsMet(ns[k], gs[Zeros(ns, k)].met)
    BY <1>1, <1>4, <1>7, <1>9 DEF StackedMet
  <2>2. Zeros(ns, k) <= n
    <3>1. k \in Nat /\ k <= N
      BY <1>7
    <3>2. Zeros(ns, k) <= Zeros(ns, N)
      BY <1>7, <3>1, ZerosGrow
    <3>3. QED
      BY <1>8, <3>2
  <2>3. PICK z : z = Zeros(ns, k) /\ z \in 1..n + 1 /\ z <= n
    BY <2>1, <2>2
  <2>4. z \in 1..n
    BY <1>4, <2>3
  <2>5. QED
    BY <2>1, <2>3, <2>4
<1>10. ASSUME NEW x
       PROVE  x \in DOMAIN reps <=> x # 0 /\ \E k \in 1..N : ns[k] = x
  <2>1. x \in DOMAIN reps <=> x # 0 /\ \E k \in 1..N + 1 : ms[k] = x
    BY <1>1, <1>7 DEF StackedMet
  <2>2. (\E k \in 1..N + 1 : ms[k] = x) <=> (\E k \in 1..N : ns[k] = x) \/ x = 0
    BY <1>7
  <2>3. QED
    BY <2>1, <2>2
<1>11. StackMarked(hs, ns)
  <2>1. (N = 0 <=> ns = <<>>) /\ (n = 0 <=> hs = <<>>)
    BY <1>2, <1>4, <1>5, <1>7, EmptySeq
  <2>2. N = 0 => n = 0
    BY <1>8, ZerosAre
  <2>3. ms[1] = 0
    BY <1>1 DEF StackMarked
  <2>4. N # 0 => ns[1] = 0 /\ n # 0
    <3>1. SUFFICES ASSUME N # 0 PROVE ns[1] = 0 /\ n # 0
      OBVIOUS
    <3>2. 1 \in 1..N /\ 1 \in Nat /\ 1 <= N /\ 0 \in Nat
      BY <1>7, <3>1
    <3>3. ns[1] = 0
      BY <1>7, <2>3, <3>2
    <3>4. Zeros(ns, 0 + 1) = 0 + 1
      BY <3>2, <3>3, ZerosAre
    <3>5. Zeros(ns, 1) = 1
      BY <3>4
    <3>6. 1 <= n
      BY <1>7, <1>8, <3>2, <3>5, ZerosGrow
    <3>7. QED
      BY <1>4, <3>3, <3>6
  <2>5. QED
    BY <1>4, <1>7, <1>8, <2>1, <2>2, <2>4 DEF StackMarked
<1>12. StackedMet(hs, ns, DOMAIN reps)
  <2>1. ASSUME NEW k \in 1..N, ns[k] # 0
        PROVE  Zeros(ns, k) \in 1..n /\ IsMet(ns[k], hs[Zeros(ns, k)].met)
    BY <1>4, <1>9, <2>1
  <2>2. ASSUME NEW k \in 1..N, NEW l \in 1..N, ns[k] = ns[l], ns[k] # 0 PROVE k = l
    BY <1>1, <1>7, <2>2 DEF StackedMet
  <2>3. QED
    BY <1>4, <1>7, <1>10, <2>1, <2>2 DEF StackedMet
<1>13. TestsWait(hs, reps, tests, TRUE)
  <2>1. ASSUME NEW d \in 1..n, NEW i \in 1..Len(hs[d].met)
        PROVE  TestWaits(hs[d].met[i], reps, tests, TRUE \/ d < n)
    <3>1. TestWaits(gs[d].met[i], reps, tests, inGroup \/ d < n + 1)
      BY <1>1, <1>4 DEF TestsWait
    <3>2. d < n + 1
      BY <1>4
    <3>3. QED
      BY <1>4, <3>1, <3>2 DEF TestWaits
  <2>2. QED
    BY <1>4, <2>1 DEF TestsWait
<1>14. MetOnce(hs) /\ GroupsWhole(hs, DOMAIN reps) /\ GroupsTyped(hs)
  <2>1. MetOnce(hs)
    <3>1. ASSUME NEW d \in 1..n, NEW e \in 1..n,
                 NEW i \in 1..Len(hs[d].met), NEW j \in 1..Len(hs[e].met),
                 hs[d].met[i].id > 0, hs[d].met[i].id = hs[e].met[j].id
          PROVE  d = e /\ i = j
      <4>1. d \in 1..Len(gs) /\ e \in 1..Len(gs) /\ hs[d] = gs[d] /\ hs[e] = gs[e]
        BY <1>4
      <4>2. /\ i \in 1..Len(gs[d].met) /\ j \in 1..Len(gs[e].met)
            /\ gs[d].met[i].id > 0 /\ gs[d].met[i].id = gs[e].met[j].id
        BY <3>1, <4>1
      <4>3. QED
        BY <1>1, <4>1, <4>2, MetOnceIs
    <3>2. QED
      BY <1>4, <3>1 DEF MetOnce
  <2>2. GroupsWhole(hs, DOMAIN reps)
    BY <1>1, <1>4 DEF GroupsWhole
  <2>3. GroupsTyped(hs)
    BY <1>1, <1>2, <1>4 DEF GroupsTyped
  <2>4. QED
    BY <2>1, <2>2, <2>3
<1>15. Walk(hs, ns, reps, tests, TRUE)
  BY <1>1, <1>5, <1>11, <1>12, <1>13, <1>14 DEF Walk
<1>16. Whole(g, {})
  <2>1. Whole(g, DOMAIN reps)
    BY <1>1, <1>4 DEF GroupsWhole
  <2>2. ASSUME NEW i \in 1..Len(g.met), Expanded(g.met[i]), g.met[i].id \in DOMAIN reps PROVE FALSE
    <3>1. PICK k \in 1..N : ns[k] = g.met[i].id /\ ns[k] # 0
      BY <1>10, <2>2
    <3>2. PICK z \in 1..n : IsMet(ns[k], gs[z].met)
      BY <1>9, <3>1
    <3>3. PICK j \in 1..Len(gs[z].met) : gs[z].met[j].id = ns[k]
      BY <3>2 DEF IsMet
    <3>4. g.met[i].id > 0
      BY <2>2 DEF Expanded
    <3>5. /\ n + 1 \in 1..Len(gs) /\ z \in 1..Len(gs)
          /\ i \in 1..Len(gs[n + 1].met) /\ gs[n + 1].met[i].id > 0
          /\ gs[n + 1].met[i].id = gs[z].met[j].id
      BY <1>4, <2>2, <3>1, <3>3, <3>4
    <3>x. z = n + 1
      BY <1>1, <3>5, MetOnceIs
    <3>6. QED
      BY <1>4, <3>x
  <2>3. SameWait(g.met, DOMAIN reps, {})
    BY <2>2 DEF SameWait
  <2>4. QED
    BY <2>1, <2>3, WholeSame
<1>17. g.number > 0
  BY <1>1, <1>4 DEF GroupsTyped
<1>18. hs = <<>> <=> Len(gs) = 1
  <2>1. n = 0 <=> hs = <<>>
    BY <1>2, <1>4, EmptySeq
  <2>2. n = 0 <=> n + 1 = 1
    BY <1>4
  <2>3. QED
    BY <1>4, <2>1, <2>2
<1>19. QED
  BY <1>2, <1>5, <1>15, <1>16, <1>17, <1>18

(* A list with one element between two others. *)
Between(T, A, m, B, a, b) ==
  /\ a \in Nat /\ b \in Nat /\ Len(A) = a /\ Len(B) = b /\ Len(T) = (a + 1) + b
  /\ \A k \in 1..a : k \in 1..(a + 1) + b /\ T[k] = A[k]
  /\ a + 1 \in 1..(a + 1) + b /\ T[a + 1] = m
  /\ \A k \in 1..b : (a + 1) + k \in 1..(a + 1) + b /\ T[(a + 1) + k] = B[k]
  /\ \A k \in 1..(a + 1) + b : k \in 1..a \/ k = a + 1 \/ \E l \in 1..b : k = (a + 1) + l

LEMMA SumPlaces ==
  ASSUME NEW a \in Nat, NEW b \in Nat
  PROVE  /\ \A k \in 1..a : k \in 1..a + 1 /\ k \in 1..(a + 1) + b /\ k <= a + 1 /\ k <= a
         /\ a + 1 \in 1..(a + 1) + b /\ a + 1 <= a + 1 /\ ~(a + 1 <= a) /\ a + 1 - a = 1
         /\ a + 1 \in Nat /\ a + 1 \in 1..a + 1 /\ (a + 1) + b \in Nat
         /\ \A k \in 1..b : /\ (a + 1) + k \in 1..(a + 1) + b /\ ~((a + 1) + k <= a + 1)
                            /\ ((a + 1) + k) - (a + 1) = k
         /\ \A k \in 1..(a + 1) + b : k \in 1..a \/ k = a + 1 \/ \E l \in 1..b : k = (a + 1) + l
<1>1. ASSUME NEW k \in 1..(a + 1) + b, ~(k \in 1..a), k # a + 1 PROVE \E l \in 1..b : k = (a + 1) + l
  <2>1. k - (a + 1) \in 1..b /\ k = (a + 1) + (k - (a + 1))
    BY <1>1
  <2>2. QED
    BY <2>1
<1>2. QED
  BY <1>1

LEMMA BetweenIs ==
  ASSUME NEW E, NEW A \in Seq(E), NEW m \in E, NEW B \in Seq(E), NEW T, InThree(T, A, <<m>>, B)
  PROVE  T \in Seq(E) /\ \E a, b : Between(T, A, m, B, a, b)
<1>1. PICK a, b : a = Len(A) /\ b = Len(B) /\ a \in Nat /\ b \in Nat
  BY LenProperties
<1>2. PICK one : one = <<m>> /\ one \in Seq(E) /\ Len(one) = 1 /\ one[1] = m
  <2>1. <<m>> \in Seq(E) /\ Len(<<m>>) = 1 /\ <<m>>[1] = m
    OBVIOUS
  <2>2. QED
    BY <2>1
<1>3. PICK C : C = A \o one
  OBVIOUS
<1>4. /\ C \in Seq(E) /\ Len(C) = a + 1
      /\ \A k \in 1..a + 1 : C[k] = IF k <= a THEN A[k] ELSE one[k - a]
  BY <1>1, <1>2, <1>3, ConcatProperties
<1>5. T = C \o B
  BY <1>2, <1>3 DEF InThree
<1>6. /\ T \in Seq(E) /\ Len(T) = (a + 1) + b
      /\ \A k \in 1..(a + 1) + b : T[k] = IF k <= a + 1 THEN C[k] ELSE B[k - (a + 1)]
  <2>1. /\ C \o B \in Seq(E) /\ Len(C \o B) = Len(C) + Len(B)
        /\ \A k \in 1..Len(C) + Len(B) : (C \o B)[k] = IF k <= Len(C) THEN C[k] ELSE B[k - Len(C)]
    BY <1>4, ConcatProperties
  <2>2. QED
    BY <1>1, <1>4, <1>5, <2>1
<1>7. \A k \in 1..a : T[k] = A[k]
  BY <1>1, <1>4, <1>6, SumPlaces
<1>8. T[a + 1] = m
  <2>1. C[a + 1] = m
    BY <1>1, <1>2, <1>4, SumPlaces
  <2>2. QED
    BY <1>1, <1>6, <2>1, SumPlaces
<1>9. /\ \A k \in 1..a : k \in 1..(a + 1) + b
      /\ a + 1 \in 1..(a + 1) + b
      /\ \A k \in 1..(a + 1) + b : k \in 1..a \/ k = a + 1 \/ \E l \in 1..b : k = (a + 1) + l
  <2>1. a \in Nat /\ b \in Nat
    BY <1>1
  <2>2. \A k \in 1..a : k \in 1..(a + 1) + b
    BY <2>1, SumPlaces
  <2>3. a + 1 \in 1..(a + 1) + b
    BY <2>1, SumPlaces
  <2>4. \A k \in 1..(a + 1) + b : k \in 1..a \/ k = a + 1 \/ \E l \in 1..b : k = (a + 1) + l
    BY <2>1, SumPlaces
  <2>5. QED
    BY <2>2, <2>3, <2>4
<1>10. ASSUME NEW k \in 1..b PROVE (a + 1) + k \in 1..(a + 1) + b /\ T[(a + 1) + k] = B[k]
  <2>1. PICK q : q = (a + 1) + k
    OBVIOUS
  <2>2. q \in 1..(a + 1) + b /\ ~(q <= a + 1) /\ q - (a + 1) = k
    BY <1>1, <2>1, SumPlaces
  <2>3. T[q] = B[k]
    BY <1>6, <2>2
  <2>4. QED
    BY <2>1, <2>2, <2>3
<1>11. Between(T, A, m, B, a, b)
  BY <1>1, <1>6, <1>7, <1>8, <1>9, <1>10 DEF Between
<1>12. QED
  BY <1>6, <1>11

(* The copies take the place of the one element with their id. *)
LEMMA ReplacedIs ==
  ASSUME NEW E, NEW A \in Seq(E), NEW m \in E, NEW B \in Seq(E), NEW T, InThree(T, A, <<m>>, B),
         NEW copies, NEW id, m.id = id,
         \A k \in 1..Len(A) : A[k].id # id, \A k \in 1..Len(B) : B[k].id # id
  PROVE  InThree(Replaced(T, id, copies), A, copies, B)
<1>1. T \in Seq(E)
  BY BetweenIs
<1>2. PICK a, b : Between(T, A, m, B, a, b)
  BY BetweenIs
<1>3. /\ a \in Nat /\ b \in Nat /\ Len(A) = a /\ Len(B) = b /\ Len(T) = (a + 1) + b
      /\ \A k \in 1..a : k \in 1..(a + 1) + b /\ T[k] = A[k]
      /\ a + 1 \in 1..(a + 1) + b /\ T[a + 1] = m
      /\ \A k \in 1..b : (a + 1) + k \in 1..(a + 1) + b /\ T[(a + 1) + k] = B[k]
      /\ \A k \in 1..(a + 1) + b : k \in 1..a \/ k = a + 1 \/ \E l \in 1..b : k = (a + 1) + l
  BY <1>2 DEF Between
<1>4. DOMAIN T = 1..(a + 1) + b
  BY <1>1, <1>3, LenProperties
<1>5. ASSUME NEW k \in 1..(a + 1) + b, T[k].id = id PROVE k = a + 1
  <2>1. k \notin 1..a
    BY <1>3, <1>5
  <2>2. ~\E l \in 1..b : k = (a + 1) + l
    BY <1>3, <1>5
  <2>3. QED
    BY <1>3, <2>1, <2>2
<1>6. IndexOf(T, id) = a + 1
  <2>1. a + 1 \in DOMAIN T /\ T[a + 1].id = id
    BY <1>3, <1>4
  <2>2. \A k \in DOMAIN T : T[k].id = id => k = a + 1
    BY <1>4, <1>5
  <2>3. PICK p : p = a + 1
    OBVIOUS
  <2>4. p \in DOMAIN T /\ T[p].id = id /\ \A k \in DOMAIN T : T[k].id = id => k = p
    BY <2>1, <2>2, <2>3
  <2>5. QED
    BY <2>3, <2>4 DEF IndexOf
<1>7. \A k \in 1..(a + 1) + b : T[k] \in E
  BY <1>1, <1>3, ElementOfSeq
<1>8. SubSeq(T, 1, (a + 1) - 1) = A
  <2>1. PICK S : S = SubSeq(T, 1, a)
    OBVIOUS
  <2>2. 1 \in Int /\ a \in Int /\ \A k \in 1..a : T[k] \in E
    BY <1>3, <1>7
  <2>3. S \in Seq(E) /\ Len(S) = IF 1 <= a THEN a - 1 + 1 ELSE 0
    BY <2>1, <2>2, SubSeqProperties
  <2>4. \A k \in 1..a - 1 + 1 : S[k] = T[1 + k - 1]
    BY <2>1, <2>2, SubSeqProperties
  <2>5. a - 1 + 1 = a /\ (~(1 <= a) => a = 0) /\ (\A k \in 1..a : 1 + k - 1 = k) /\ (a + 1) - 1 = a
    BY <1>3
  <2>6. Len(S) = a /\ \A k \in 1..a : S[k] = A[k]
    BY <1>3, <2>3, <2>4, <2>5
  <2>7. S = A
    BY <1>3, <2>3, <2>6, SeqEqual
  <2>8. QED
    BY <2>1, <2>5, <2>7
<1>9. SubSeq(T, (a + 1) + 1, (a + 1) + b) = B
  <2>1. PICK c, d : c = (a + 1) + 1 /\ d = (a + 1) + b /\ c \in Int /\ d \in Int
    BY <1>3
  <2>2. PICK S : S = SubSeq(T, c, d)
    OBVIOUS
  <2>3. \A k \in c..d : k \in 1..(a + 1) + b
    BY <1>3, <2>1
  <2>4. \A k \in c..d : T[k] \in E
    BY <1>7, <2>3
  <2>5. S \in Seq(E) /\ Len(S) = IF c <= d THEN d - c + 1 ELSE 0
    BY <2>1, <2>2, <2>4, SubSeqProperties
  <2>6. \A k \in 1..d - c + 1 : S[k] = T[c + k - 1]
    <3>1. \A k \in 1..d - c + 1 : SubSeq(T, c, d)[k] = T[c + k - 1]
      <4>1. c \in Int /\ d \in Int
        BY <2>1
      <4>2. QED
        BY <2>4, <4>1, SubSeqProperties
    <3>2. QED
      BY <2>2, <3>1
  <2>7. d - c + 1 = b /\ (~(c <= d) => b = 0) /\ \A k \in 1..b : c + k - 1 = (a + 1) + k
    <3>1. a \in Nat /\ b \in Nat
      BY <1>3
    <3>2. QED
      BY <2>1, <3>1
  <2>8. Len(S) = b /\ \A k \in 1..b : S[k] = B[k]
    <3>1. Len(S) = b
      BY <2>5, <2>7
    <3>2. ASSUME NEW k \in 1..b PROVE S[k] = B[k]
      <4>1. k \in 1..d - c + 1 /\ c + k - 1 = (a + 1) + k
        BY <2>7
      <4>2. S[k] = T[(a + 1) + k]
        BY <2>6, <4>1
      <4>3. QED
        BY <1>3, <4>2
    <3>3. QED
      BY <3>1, <3>2
  <2>9. S = B
    BY <1>3, <2>5, <2>8, SeqEqual
  <2>10. QED
    BY <2>1, <2>2, <2>9
<1>10. Replaced(T, id, copies) = (A \o copies) \o B
  BY <1>3, <1>6, <1>8, <1>9 DEF Replaced
<1>11. QED
  BY <1>10 DEF InThree

(* Only the test at place i of a list has the id, and no other test begins or
   ceases to wait. *)
OnlyOne(met, i, id, waiting, others) ==
  /\ i \in 1..Len(met) /\ met[i].id = id /\ Expanded(met[i])
  /\ id \in waiting /\ id \notin others
  /\ \A j \in 1..Len(met) : j # i => met[j].id # id
  /\ \A x : x # id => (x \in waiting <=> x \in others)

(* A test of a whole group gives way to its copies. *)
LEMMA ReplacedPieces ==
  ASSUME NEW g \in GroupRecord, NEW i, NEW id, NEW waiting, NEW others,
         Whole(g, waiting), OnlyOne(g.met, i, id, waiting, others)
  PROVE  /\ Replaced(g.tests, id, Copies(g.met[i])) = Flat(Pieces(g.met, others))
         /\ Flat(Pieces(g.met, others)) \in Seq(Held1)
<1>1. PICK met, m, n : met = g.met /\ m = met[i] /\ met \in Seq(Member) /\ n = Len(met) /\ n \in Nat
  BY GroupFields, LenProperties
<1>2. /\ i \in 1..n /\ m.id = id /\ Expanded(m) /\ id \in waiting /\ id \notin others
      /\ \A j \in 1..n : j # i => met[j].id # id
      /\ \A x : x # id => (x \in waiting <=> x \in others)
  BY <1>1 DEF OnlyOne
<1>3. /\ \A j \in 1..n : met[j] \in Member
      /\ \A j \in 1..n : Expanded(met[j]) => GoodData(met[j])
  BY <1>1, ElementOfSeq DEF Whole
<1>4. Good(met)
  BY <1>1, <1>3 DEF Good
<1>5. PICK ss, tt : ss = Pieces(met, waiting) /\ tt = Pieces(met, others)
  OBVIOUS
<1>6. ss \in Seq(Seq(Held1)) /\ Len(ss) = n /\ \A j \in 1..n : ss[j] = Piece(met[j], waiting)
  BY <1>1, <1>4, <1>5, PiecesAre
<1>7. /\ tt \in Seq(Seq(Held1)) /\ Len(tt) = n /\ Flat(tt) \in Seq(Held1)
      /\ \A j \in 1..n : tt[j] = Piece(met[j], others)
  BY <1>1, <1>4, <1>5, PiecesAre
<1>8. ss[i] = <<m>> /\ tt[i] = Copies(m)
  BY <1>1, <1>2, <1>6, <1>7 DEF Piece
<1>9. \A j \in 1..n : j # i => tt[j] = ss[j]
  BY <1>2, <1>6, <1>7 DEF Piece
<1>10. PICK A, B : A \in Seq(Held1) /\ B \in Seq(Held1) /\ Around(ss, tt, i, A, B)
  <2>1. ButOne(ss, tt, i)
    BY <1>2, <1>6, <1>7, <1>9 DEF ButOne
  <2>2. QED
    BY <1>6, <1>7, <2>1, FlatButOne
<1>11. ASSUME NEW j \in 1..n, j # i, NEW l \in 1..Len(ss[j]) PROVE ss[j][l].id # id
  <2>1. PICK other : other = met[j] /\ other \in Member /\ (Expanded(other) => GoodData(other))
                     /\ other.id # id /\ ss[j] = Piece(other, waiting)
    BY <1>2, <1>3, <1>6, <1>11
  <2>2. \A q \in 1..Len(Piece(other, waiting)) : Piece(other, waiting)[q].id = other.id
    BY <2>1, PieceIs
  <2>3. QED
    BY <2>1, <2>2
<1>12. /\ \A k \in 1..Len(A) : A[k].id # id
       /\ \A k \in 1..Len(B) : B[k].id # id
  <2>1. ASSUME NEW k \in 1..Len(A) PROVE A[k].id # id
    <3>1. PICK j \in 1..n : j # i /\ \E l \in 1..Len(ss[j]) : A[k] = ss[j][l]
      BY <1>6, <1>10 DEF Around, OfOthers
    <3>2. QED
      BY <1>11, <3>1
  <2>2. ASSUME NEW k \in 1..Len(B) PROVE B[k].id # id
    <3>1. PICK j \in 1..n : j # i /\ \E l \in 1..Len(ss[j]) : B[k] = ss[j][l]
      BY <1>6, <1>10 DEF Around, OfOthers
    <3>2. QED
      BY <1>11, <3>1
  <2>3. QED
    BY <2>1, <2>2
<1>13. PICK T, copies : T = Flat(ss) /\ T = g.tests /\ copies = Copies(m)
  BY <1>1, <1>5 DEF Whole
<1>14. m \in Held1
  BY <1>1, <1>2, <1>3, MemberIs
<1>15. InThree(Replaced(T, id, copies), A, copies, B)
  <2>1. InThree(T, A, <<m>>, B)
    BY <1>8, <1>10, <1>13 DEF Around
  <2>2. QED
    BY <1>2, <1>10, <1>12, <1>14, <2>1, ReplacedIs
<1>16. InThree(Flat(tt), A, copies, B)
  BY <1>8, <1>10, <1>13 DEF Around
<1>17. Replaced(T, id, copies) = Flat(tt)
  BY <1>15, <1>16 DEF InThree
<1>18. QED
  BY <1>1, <1>5, <1>7, <1>13, <1>17

(* A test on the stack was met in the group whose null pointer is below it, and
   its copies wait. *)
WaitsIn(g, reps, x) ==
  /\ g \in GroupRecord
  /\ \E i \in 1..Len(g.met) : g.met[i].id = x /\ Expanded(g.met[i]) /\ reps[x] = Copies(g.met[i])

LEMMA WaitingTest ==
  ASSUME NEW gs, NEW ms, NEW reps, NEW tests, NEW inGroup, Walk(gs, ms, reps, tests, inGroup),
         NEW k \in 1..Len(ms), ms[k] # 0
  PROVE  /\ Zeros(ms, k) \in 1..Len(gs) /\ ms[k] \in DOMAIN reps
         /\ WaitsIn(gs[Zeros(ms, k)], reps, ms[k])
<1> DEFINE x == ms[k]
           d == Zeros(ms, k)
<1>1. GroupsTyped(gs) /\ StackedMet(gs, ms, DOMAIN reps) /\ TestsWait(gs, reps, tests, inGroup)
  BY WalkFields
<1>2. d \in 1..Len(gs) /\ IsMet(x, gs[d].met)
  BY <1>1 DEF StackedMet
<1>3. PICK i \in 1..Len(gs[d].met) : gs[d].met[i].id = x /\ Expanded(gs[d].met[i])
  BY <1>2 DEF IsMet
<1>4. x \in DOMAIN reps
  BY <1>1 DEF StackedMet
<1>5. reps[x] = Copies(gs[d].met[i])
  BY <1>1, <1>2, <1>3, <1>4 DEF TestsWait, TestWaits
<1>6. gs[d] \in GroupRecord
  BY <1>1, <1>2, MetAre
<1>7. QED
  BY <1>2, <1>3, <1>4, <1>5, <1>6 DEF WaitsIn

(* The copies of one test less. *)
Shrunk(reps, id, less) == less = [n \in DOMAIN reps \ {id} |-> reps[n]]

(* The innermost groups, one with other tests. *)
Rewritten(gs, T, hs, n) ==
  /\ n \in Nat /\ n # 0 /\ n \in 1..n /\ Len(gs) = n /\ Len(hs) = n /\ GroupsTyped(hs)
  /\ \A d \in 1..n : hs[d].met = gs[d].met /\ (d # n => hs[d] = gs[d])
  /\ hs[n].tests = T

LEMMA RewrittenIs ==
  ASSUME NEW gs, GroupsTyped(gs), gs # <<>>, NEW x, NEW copies, NEW T \in Seq(Held1),
         T = Replaced(gs[Len(gs)].tests, x, copies)
  PROVE  \E n : Rewritten(gs, T, [gs EXCEPT ![Len(gs)].tests = Replaced(@, x, copies)], n)
<1>1. PICK n : n \in Nat /\ n # 0 /\ n \in 1..n /\ Len(gs) = n /\ gs[n] \in GroupRecord
  BY SomeGroup
<1>2. PICK g : g = gs[n] /\ g \in GroupRecord /\ T = Replaced(g.tests, x, copies)
  BY <1>1
<1>3. PICK a, b, c : /\ a = g.number /\ b = g.tests /\ c = g.met
                     /\ a \in Nat /\ c \in Seq(Member)
                     /\ g = [number |-> a, tests |-> b, met |-> c]
  <2>1. /\ g.number \in Nat /\ g.met \in Seq(Member)
        /\ g = [number |-> g.number, tests |-> g.tests, met |-> g.met]
    BY <1>2, GroupFields
  <2>2. QED
    BY <2>1
<1>4. PICK h : h = [number |-> a, tests |-> T, met |-> c]
  OBVIOUS
<1>5. h \in GroupRecord /\ h.number = a /\ h.tests = T /\ h.met = c
  BY <1>3, <1>4 DEF GroupRecord, Held1
<1>6. PICK hs : hs = [gs EXCEPT ![Len(gs)].tests = Replaced(@, x, copies)]
  OBVIOUS
<1>7. gs \in [1..n -> GroupRecord] /\ \A d \in 1..n : gs[d].number > 0
  BY <1>1, LenProperties DEF GroupsTyped
<1>8. hs = [gs EXCEPT ![n] = h]
  <2>1. hs = [gs EXCEPT ![n] = [g EXCEPT !.tests = Replaced(@, x, copies)]]
    BY <1>1, <1>2, <1>6, <1>7
  <2>2. [g EXCEPT !.tests = Replaced(@, x, copies)] = [g EXCEPT !.tests = T]
    BY <1>2
  <2>3. [g EXCEPT !.tests = T] = h
    BY <1>3, <1>4
  <2>4. QED
    BY <2>1, <2>2, <2>3
<1>9. hs \in [1..n -> GroupRecord] /\ hs[n] = h /\ \A d \in 1..n : d # n => hs[d] = gs[d]
  BY <1>1, <1>5, <1>7, <1>8
<1>10. hs \in Seq(GroupRecord) /\ Len(hs) = n
  BY <1>1, <1>9, ListOf
<1>11. \A d \in 1..n : hs[d].number > 0
  <2>1. h.number > 0
    BY <1>1, <1>2, <1>3, <1>5, <1>7
  <2>2. QED
    BY <1>7, <1>9, <2>1
<1>12. \A d \in 1..n : hs[d].met = gs[d].met
  BY <1>2, <1>3, <1>5, <1>9
<1>13. GroupsTyped(hs)
  BY <1>10, <1>11 DEF GroupsTyped
<1>14. Rewritten(gs, T, hs, n)
  BY <1>1, <1>5, <1>9, <1>10, <1>12, <1>13 DEF Rewritten
<1>15. QED
  BY <1>6, <1>14

(* The copies take the place of the test on top of the stack. *)
LEMMA ReplaceWalks ==
  ASSUME NEW gs, NEW ms, NEW reps, NEW tests, Walk(gs, ms, reps, tests, FALSE), gs # <<>>,
         NEW x, x = Last(ms), x # 0, NEW less, Shrunk(reps, x, less)
  PROVE  Walk([gs EXCEPT ![Len(gs)].tests = Replaced(@, x, reps[x])], Front(ms), less, tests, FALSE)
<1>1. /\ GroupsTyped(gs) /\ ms \in Seq(Nat) /\ tests \in Nat
      /\ StackMarked(gs, ms) /\ StackedMet(gs, ms, DOMAIN reps)
      /\ MetOnce(gs) /\ TestsWait(gs, reps, tests, FALSE)
      /\ GroupsWhole(gs, DOMAIN reps)
  BY WalkFields
<1>2. PICK n : n \in Nat /\ n # 0 /\ n \in 1..n /\ Len(gs) = n
  BY <1>1, SomeGroup
<1>3. PICK ns : ns = Front(ms) /\ ns \in Seq(Nat)
  BY StackNotEmpty, PopIs
<1>4. PICK N : Pushed(ns, x, ms, N)
  BY <1>3, StackNotEmpty, PopIs
<1>5. /\ N \in Nat /\ Len(ns) = N /\ Len(ms) = N + 1
      /\ \A k \in 1..N : k \in 1..N + 1 /\ ms[k] = ns[k] /\ Zeros(ms, k) = Zeros(ns, k)
      /\ N + 1 \in 1..N + 1 /\ N + 1 \notin 1..N /\ ms[N + 1] = x
      /\ \A k \in 1..N + 1 : k \in 1..N \/ k = N + 1
      /\ Zeros(ms, N + 1) = Zeros(ns, N)
  BY <1>4 DEF Pushed
<1>6. Zeros(ms, N + 1) = n /\ Zeros(ns, N) = n
  BY <1>1, <1>2, <1>5 DEF StackMarked
<1>7. PICK g : g = gs[n] /\ g \in GroupRecord
  BY <1>2, <1>1, MetAre
<1>8. PICK i \in 1..Len(g.met) : g.met[i].id = x /\ Expanded(g.met[i]) /\ reps[x] = Copies(g.met[i])
  <2>1. PICK k \in 1..Len(ms) : x = ms[k] /\ n = Zeros(ms, k)
    BY <1>5, <1>6
  <2>2. WaitsIn(gs[Zeros(ms, k)], reps, ms[k])
    BY <2>1, WaitingTest
  <2>3. WaitsIn(g, reps, x)
    BY <1>7, <2>1, <2>2
  <2>4. QED
    BY <2>3 DEF WaitsIn
<1>9. x \in DOMAIN reps
  BY <1>1, <1>5 DEF StackedMet
<1>10. /\ DOMAIN less = DOMAIN reps \ {x} /\ less = [k \in DOMAIN less |-> less[k]]
       /\ \A k \in DOMAIN less : less[k] = reps[k]
  BY DEF Shrunk
<1>11. \A d \in 1..n : \A j \in 1..Len(gs[d].met) : gs[d].met[j].id = x => d = n /\ j = i
  <2>1. n \in 1..Len(gs) /\ i \in 1..Len(gs[n].met) /\ gs[n].met[i].id = x /\ x > 0
    BY <1>2, <1>7, <1>8 DEF Expanded
  <2>2. ASSUME NEW d \in 1..Len(gs), NEW j \in 1..Len(gs[d].met), gs[d].met[j].id = x
        PROVE  d = n /\ j = i
    <3>1. gs[d].met[j].id > 0 /\ gs[d].met[j].id = gs[n].met[i].id
      BY <2>1, <2>2
    <3>2. QED
      BY <1>1, <2>1, <3>1, MetOnceIs
  <2>3. QED
    BY <1>2, <2>2
<1>12. OnlyOne(g.met, i, x, DOMAIN reps, DOMAIN less)
  BY <1>2, <1>7, <1>8, <1>9, <1>10, <1>11 DEF OnlyOne
<1>13. Whole(g, DOMAIN reps)
  BY <1>1, <1>2, <1>7 DEF GroupsWhole
<1>14. PICK T : T = Replaced(g.tests, x, reps[x]) /\ T = Flat(Pieces(g.met, DOMAIN less)) /\ T \in Seq(Held1)
  <2>1. PICK S : S = Flat(Pieces(g.met, DOMAIN less))
    OBVIOUS
  <2>2. Replaced(g.tests, x, Copies(g.met[i])) = Flat(Pieces(g.met, DOMAIN less))
    BY <1>7, <1>12, <1>13, ReplacedPieces
  <2>3. Flat(Pieces(g.met, DOMAIN less)) \in Seq(Held1)
    BY <1>7, <1>12, <1>13, ReplacedPieces
  <2>4. Replaced(g.tests, x, reps[x]) = S
    BY <1>8, <2>1, <2>2
  <2>5. QED
    BY <2>1, <2>3, <2>4
<1>15. PICK hs : hs = [gs EXCEPT ![Len(gs)].tests = Replaced(@, x, reps[x])]
  OBVIOUS
<1>16. Rewritten(gs, T, hs, n)
  <2>1. T = Replaced(gs[Len(gs)].tests, x, reps[x])
    BY <1>2, <1>7, <1>14
  <2>2. PICK m : Rewritten(gs, T, hs, m)
    BY <1>1, <1>14, <1>15, <2>1, RewrittenIs
  <2>3. m = n
    BY <1>2, <2>2 DEF Rewritten
  <2>4. QED
    BY <2>2, <2>3
<1>17. /\ Len(hs) = n /\ GroupsTyped(hs)
       /\ \A d \in 1..n : hs[d].met = gs[d].met /\ (d # n => hs[d] = gs[d])
       /\ hs[n].tests = T
  BY <1>16 DEF Rewritten
<1>18. GroupsWhole(hs, DOMAIN less)
  <2>1. Whole(hs[n], DOMAIN less)
    BY <1>2, <1>7, <1>13, <1>14, <1>17 DEF Whole
  <2>2. ASSUME NEW d \in 1..n, d # n PROVE Whole(hs[d], DOMAIN less)
    <3>1. Whole(gs[d], DOMAIN reps)
      BY <1>1, <1>2 DEF GroupsWhole
    <3>2. SameWait(gs[d].met, DOMAIN reps, DOMAIN less)
      BY <1>10, <1>11, <2>2 DEF SameWait
    <3>3. Whole(gs[d], DOMAIN less)
      BY <3>1, <3>2, WholeSame
    <3>4. QED
      BY <1>17, <2>2, <3>3
  <2>3. QED
    BY <1>17, <2>1, <2>2 DEF GroupsWhole
<1>19. MetOnce(hs)
  <2>1. ASSUME NEW d \in 1..n, NEW e \in 1..n,
               NEW j \in 1..Len(hs[d].met), NEW k \in 1..Len(hs[e].met),
               hs[d].met[j].id > 0, hs[d].met[j].id = hs[e].met[k].id
        PROVE  d = e /\ j = k
    <3>1. /\ d \in 1..Len(gs) /\ e \in 1..Len(gs)
          /\ hs[d].met = gs[d].met /\ hs[e].met = gs[e].met
      BY <1>2, <1>17
    <3>2. /\ j \in 1..Len(gs[d].met) /\ k \in 1..Len(gs[e].met)
          /\ gs[d].met[j].id > 0 /\ gs[d].met[j].id = gs[e].met[k].id
      BY <2>1, <3>1
    <3>3. QED
      BY <1>1, <3>1, <3>2, MetOnceIs
  <2>2. Len(hs) = n
    BY <1>17
  <2>3. QED
    BY <2>1, <2>2 DEF MetOnce
<1>20. TestsWait(hs, less, tests, FALSE)
  <2>1. ASSUME NEW d \in 1..n, NEW j \in 1..Len(gs[d].met)
        PROVE  TestWaits(gs[d].met[j], less, tests, FALSE \/ d < n)
    <3>1. TestWaits(gs[d].met[j], reps, tests, FALSE \/ d < n)
      BY <1>1, <1>2 DEF TestsWait
    <3>2. d < n => gs[d].met[j].id # x
      <4>1. d < n => d # n
        BY <1>2
      <4>2. QED
        BY <1>11, <4>1
    <3>3. QED
      BY <1>10, <3>1, <3>2 DEF TestWaits
  <2>2. QED
    BY <1>17, <2>1 DEF TestsWait
<1>21. StackMarked(hs, ns)
  <2>1. N # 0
    BY <1>2, <1>6, ZerosAre
  <2>2. 1 \in 1..N /\ hs # <<>> /\ ns # <<>>
    BY <1>2, <1>5, <1>17, <2>1, EmptySeq
  <2>3. ns[1] = 0
    BY <1>1, <1>2, <1>5, <2>2, EmptySeq DEF StackMarked
  <2>4. QED
    BY <1>5, <1>6, <1>17, <2>2, <2>3 DEF StackMarked
<1>22. StackedMet(hs, ns, DOMAIN less)
  <2>1. ASSUME NEW k \in 1..N, ns[k] # 0
        PROVE  Zeros(ns, k) \in 1..n /\ IsMet(ns[k], hs[Zeros(ns, k)].met)
    <3>1. Zeros(ns, k) \in 1..n /\ IsMet(ns[k], gs[Zeros(ns, k)].met)
      BY <1>1, <1>2, <1>5, <2>1 DEF StackedMet
    <3>2. QED
      BY <1>17, <3>1
  <2>2. ASSUME NEW k \in 1..N, NEW l \in 1..N, ns[k] = ns[l], ns[k] # 0 PROVE k = l
    BY <1>1, <1>5, <2>2 DEF StackedMet
  <2>3. ASSUME NEW y PROVE y \in DOMAIN less <=> y # 0 /\ \E k \in 1..N : ns[k] = y
    <3>1. y \in DOMAIN reps <=> y # 0 /\ \E k \in 1..N + 1 : ms[k] = y
      BY <1>1, <1>5 DEF StackedMet
    <3>2. (\E k \in 1..N + 1 : ms[k] = y) <=> (\E k \in 1..N : ns[k] = y) \/ y = x
      BY <1>5
    <3>3. \A k \in 1..N : ns[k] # x
      <4>1. \A k \in 1..N + 1 : ms[k] = x => k = N + 1
        BY <1>1, <1>5 DEF StackedMet
      <4>2. QED
        BY <1>5, <4>1
    <3>4. QED
      BY <1>10, <3>1, <3>2, <3>3
  <2>4. QED
    BY <1>5, <1>17, <2>1, <2>2, <2>3 DEF StackedMet
<1>23. QED
  BY <1>1, <1>3, <1>10, <1>15, <1>17, <1>18, <1>19, <1>20, <1>21, <1>22 DEF Walk

(***************************************************************************)
(* The stack and the groups                                                *)
(***************************************************************************)

StackTyped(gs, ms, reps) ==
  /\ Count(ms, 0) = Len(gs) /\ (gs # <<>> => ms[1] = 0)
  /\ \A k \in DOMAIN ms :
       ms[k] # 0 => \E i \in DOMAIN gs[Zeros(ms, k)].tests : gs[Zeros(ms, k)].tests[i].id = ms[k]
  /\ DOMAIN reps = ToSet(ms) \ {0}

(* A test that waits is still in its group. *)
LEMMA HeldTest ==
  ASSUME NEW g \in GroupRecord, NEW waiting, Whole(g, waiting),
         NEW i \in 1..Len(g.met), NEW x, g.met[i].id = x, x \in waiting
  PROVE  \E q \in DOMAIN g.tests : g.tests[q].id = x
<1>1. PICK met, m, n : met = g.met /\ m = met[i] /\ met \in Seq(Member) /\ n = Len(met) /\ n \in Nat
  BY GroupFields, LenProperties
<1>2. i \in 1..n /\ m.id = x /\ \A j \in 1..n : met[j] \in Member
  BY <1>1, ElementOfSeq
<1>3. Good(met)
  BY <1>1 DEF Whole, Good
<1>4. PICK ss : ss = Pieces(met, waiting)
  OBVIOUS
<1>5. ss \in Seq(Seq(Held1)) /\ Len(ss) = n /\ \A j \in 1..n : ss[j] = Piece(met[j], waiting)
  BY <1>1, <1>3, <1>4, PiecesAre
<1>6. ss[i] = <<m>>
  BY <1>1, <1>2, <1>5 DEF Piece
<1>7. PICK A, B : A \in Seq(Held1) /\ B \in Seq(Held1) /\ Around(ss, ss, i, A, B)
  <2>1. ButOne(ss, ss, i)
    BY <1>2, <1>5 DEF ButOne
  <2>2. QED
    BY <1>5, <2>1, FlatButOne
<1>8. m \in Held1
  BY <1>1, <1>2, MemberIs
<1>9. PICK T : T = Flat(ss) /\ T = g.tests
  BY <1>1, <1>4 DEF Whole
<1>10. InThree(T, A, <<m>>, B)
  BY <1>6, <1>7, <1>9 DEF Around
<1>11. T \in Seq(Held1)
  BY <1>7, <1>8, <1>10, BetweenIs
<1>12. PICK a, b : Between(T, A, m, B, a, b)
  BY <1>7, <1>8, <1>10, BetweenIs
<1>13. a + 1 \in 1..Len(T) /\ T[a + 1] = m
  BY <1>12 DEF Between
<1>14. DOMAIN T = 1..Len(T)
  BY <1>11, LenProperties
<1>15. PICK q \in DOMAIN T : T[q].id = x
  BY <1>2, <1>13, <1>14
<1>16. QED
  BY <1>9, <1>15

LEMMA StackedTest ==
  ASSUME NEW gs, NEW ms, NEW reps, NEW tests, NEW inGroup, Walk(gs, ms, reps, tests, inGroup),
         NEW k \in 1..Len(ms), ms[k] # 0
  PROVE  \E i \in DOMAIN gs[Zeros(ms, k)].tests : gs[Zeros(ms, k)].tests[i].id = ms[k]
<1>1. PICK d, x : d = Zeros(ms, k) /\ x = ms[k]
  OBVIOUS
<1>2. d \in 1..Len(gs) /\ x \in DOMAIN reps /\ WaitsIn(gs[d], reps, x)
  BY <1>1, WaitingTest
<1>3. PICK g : g = gs[d] /\ g \in GroupRecord
  BY <1>2 DEF WaitsIn
<1>4. PICK i \in 1..Len(g.met) : g.met[i].id = x
  BY <1>2, <1>3 DEF WaitsIn
<1>5. Whole(g, DOMAIN reps)
  BY <1>2, <1>3, WalkFields DEF GroupsWhole
<1>6. \E q \in DOMAIN g.tests : g.tests[q].id = x
  BY <1>2, <1>3, <1>4, <1>5, HeldTest
<1>7. QED
  BY <1>1, <1>3, <1>6

LEMMA WalkIsTyped ==
  ASSUME NEW gs, NEW ms, NEW reps, NEW tests, NEW inGroup, Walk(gs, ms, reps, tests, inGroup)
  PROVE  StackTyped(gs, ms, reps)
<1>1. ms \in Seq(Nat) /\ StackMarked(gs, ms) /\ StackedMet(gs, ms, DOMAIN reps)
  BY WalkFields
<1>2. Count(ms, 0) = Len(gs)
  BY <1>1, CountIsZeros DEF StackMarked
<1>3. DOMAIN ms = 1..Len(ms)
  BY <1>1, LenProperties
<1>4. DOMAIN reps = ToSet(ms) \ {0}
  <2>1. \A n : n \in ToSet(ms) <=> \E k \in 1..Len(ms) : ms[k] = n
    BY <1>3 DEF ToSet
  <2>2. \A n : n \in DOMAIN reps <=> n # 0 /\ \E k \in 1..Len(ms) : ms[k] = n
    BY <1>1 DEF StackedMet
  <2>3. QED
    BY <2>1, <2>2
<1>5. gs # <<>> => ms[1] = 0
  BY <1>1 DEF StackMarked
<1>6. ASSUME NEW k \in DOMAIN ms, ms[k] # 0
      PROVE  \E i \in DOMAIN gs[Zeros(ms, k)].tests : gs[Zeros(ms, k)].tests[i].id = ms[k]
  BY <1>3, <1>6, StackedTest
<1>7. QED
  BY <1>2, <1>4, <1>5, <1>6 DEF StackTyped

(* A test that stops the walk has joined its group. *)
LEMMA JoinTyped ==
  ASSUME NEW gs, NEW ms, NEW reps, NEW tests, NEW inGroup, Walk(gs, ms, reps, tests, inGroup), gs # <<>>,
         NEW m \in Member
  PROVE  StackTyped(InGroup(gs, m), ms, reps)
<1>1. GroupsTyped(gs) /\ ms \in Seq(Nat)
  BY WalkFields
<1>2. PICK hs, n : hs = InGroup(gs, m) /\ JoinedGroups(gs, m, hs, n)
  BY <1>1, JoinedGroupsIs
<1>3. /\ n \in Nat /\ n \in 1..n /\ Len(gs) = n /\ Len(hs) = n
      /\ \A d \in 1..n : d # n => hs[d] = gs[d]
  BY <1>2 DEF JoinedGroups
<1>4. PICK g, h : g = gs[n] /\ h = hs[n] /\ g \in GroupRecord /\ h.tests = Append(g.tests, m)
  BY <1>1, <1>2, <1>3, MetAre DEF JoinedGroups, JoinedGroup
<1>5. StackTyped(gs, ms, reps)
  BY WalkIsTyped
<1>6. DOMAIN ms = 1..Len(ms)
  BY <1>1, LenProperties
<1>7. ASSUME NEW k \in DOMAIN ms, ms[k] # 0
      PROVE  \E i \in DOMAIN hs[Zeros(ms, k)].tests : hs[Zeros(ms, k)].tests[i].id = ms[k]
  <2>1. PICK d, x : d = Zeros(ms, k) /\ x = ms[k]
    OBVIOUS
  <2>2. d \in 1..n
    BY <1>3, <1>6, <1>7, <2>1, WaitingTest
  <2>3. PICK i \in DOMAIN gs[d].tests : gs[d].tests[i].id = x
    BY <1>5, <1>7, <2>1 DEF StackTyped
  <2>4. CASE d # n
    BY <1>3, <2>1, <2>2, <2>3, <2>4
  <2>5. CASE d = n
    <3>1. PICK s, t, l : s = g.tests /\ t = h.tests /\ s \in Seq(Held1) /\ l = Len(s) /\ l \in Nat
      BY <1>4, GroupFields, LenProperties
    <3>2. t \in Seq(Held1) /\ Len(t) = l + 1 /\ \A j \in 1..l : t[j] = s[j]
      BY <1>4, <3>1, MemberIs, AppendProperties
    <3>3. DOMAIN s = 1..l /\ DOMAIN t = 1..l + 1
      BY <3>1, <3>2, LenProperties
    <3>4. i \in 1..l /\ s[i].id = x
      BY <1>4, <2>3, <2>5, <3>1, <3>3
    <3>5. i \in 1..l + 1
      BY <3>1, <3>4
    <3>6. i \in DOMAIN t /\ t[i].id = x
      BY <3>2, <3>3, <3>4, <3>5
    <3>7. QED
      BY <1>4, <2>1, <2>5, <3>1, <3>6
  <2>6. QED
    BY <2>4, <2>5
<1>8. hs # <<>>
  <2>1. n # 0
    BY <1>3
  <2>2. QED
    BY <1>3, <2>1, EmptySeq
<1>9. gs # <<>> /\ Count(ms, 0) = Len(hs) /\ ms[1] = 0 /\ DOMAIN reps = ToSet(ms) \ {0}
  BY <1>3, <1>5 DEF StackTyped
<1>10. QED
  BY <1>2, <1>7, <1>9 DEF StackTyped

LEMMA NoneWait ==
  ASSUME NEW gs, NEW ms, NEW reps, NEW tests, NEW inGroup, Walk(gs, ms, reps, tests, inGroup), gs = <<>>
  PROVE  reps = <<>>
<1>1. reps = [n \in DOMAIN reps |-> reps[n]] /\ StackMarked(gs, ms) /\ StackedMet(gs, ms, DOMAIN reps)
  BY WalkFields
<1>2. Len(ms) = 0
  BY <1>1, EmptySeq DEF StackMarked
<1>3. \A k \in 1..Len(ms) : FALSE
  BY <1>2
<1>4. DOMAIN reps = {}
  BY <1>1, <1>3 DEF StackedMet
<1>5. 1..0 = {} /\ 0 \in Nat
  OBVIOUS
<1>6. reps \in [1..0 -> Nat]
  BY <1>1, <1>4, <1>5
<1>7. reps \in Seq(Nat) /\ Len(reps) = 0
  BY <1>5, <1>6, ListOf
<1>8. QED
  BY <1>7, EmptySeq

LEMMA StackTypeOK ==
  ASSUME StackTyped(groups, mTests, mReplacements), nTests <= MaxTests,
         pc \in {"visiting", "replacing", "expanded", "refused", "crashed"},
         pc = "expanded" => mReplacements = <<>>
  PROVE  TypeOK
<1>1. \A k : Depth(k) = Zeros(mTests, k)
  BY DEF Depth, Zeros
<1>2. QED
  BY <1>1 DEF TypeOK, StackTyped

(* The invariant is what the type says, and more. *)
LEMMA IInvIsTyped ==
  ASSUME IInv
  PROVE  TypeOK
<1>1. CASE pc \in {"refused", "crashed"}
  BY <1>1 DEF IInv
<1>2. CASE pc \notin {"refused", "crashed"}
  <2>1. /\ Walk(groups, mTests, mReplacements, nTests, pc = "visiting")
        /\ (pc = "expanded" => groups = <<>>) /\ nTests <= MaxTests
        /\ pc \in {"visiting", "replacing", "expanded", "refused", "crashed"}
    BY <1>2 DEF IInv, Walking
  <2>2. StackTyped(groups, mTests, mReplacements)
    BY <2>1, WalkIsTyped
  <2>3. groups = <<>> => mReplacements = <<>>
    BY <2>1, NoneWait
  <2>4. QED
    BY <2>1, <2>2, <2>3, StackTypeOK
<1>3. QED
  BY <1>1, <1>2

(***************************************************************************)
(* The steps                                                               *)
(***************************************************************************)

LEMMA Visiting ==
  ASSUME IInv, pc \in {"visiting", "replacing"}
  PROVE  /\ Walk(groups, mTests, mReplacements, nTests, pc = "visiting") /\ groups # <<>>
         /\ nTests \in Nat /\ nGroups \in Nat /\ nTests <= MaxTests
<1>1. Walk(groups, mTests, mReplacements, nTests, pc = "visiting") /\ nGroups \in Nat /\ groups # <<>>
  BY DEF IInv, Walking
<1>2. nTests \in Nat
  BY <1>1, WalkFields
<1>3. QED
  BY <1>1, <1>2 DEF IInv

LEMMA WalkingIs ==
  ASSUME LeftWhole', Walk(groups', mTests', mReplacements', nTests', pc' = "visiting"),
         nGroups' \in Nat, nTests' <= MaxTests, pc' \in {"visiting", "replacing", "expanded"},
         pc' = "expanded" <=> groups' = <<>>
  PROVE  IInv'
BY DEF IInv, Walking

LEMMA LeftSame ==
  ASSUME LeftWhole, left' = left
  PROVE  LeftWhole'
BY DEF LeftWhole

LEMMA ParsedIs ==
  ASSUME IInv, pc = "visiting", NEW t \in Tests, NEW m, m = Parsed(t)
  PROVE  m \in TestMember /\ m \in Member /\ m.id = nTests + 1
<1>1. groups \in Seq(GroupRecord) /\ groups # <<>> /\ nTests \in Nat
  BY Visiting, StackNotEmpty
<1>2. PICK number : number = Last(groups).number /\ number \in Nat
  BY <1>1, FrontIs, GroupFields
<1>3. PICK id : id = nTests + 1 /\ id \in Nat /\ id > 0
  BY <1>1
<1>4. /\ t.data \in {u.data : u \in Tests} /\ t.args \in Seq(Argument) /\ t.er \in Seq(Argument)
      /\ t.mockup \in BOOLEAN /\ Len(t.er) <= 1
  BY InputAssumption
<1>5. m = [data |-> t.data, args |-> t.args, er |-> t.er, mockup |-> t.mockup,
           id |-> id, group |-> number]
  BY <1>2, <1>3 DEF Parsed
<1>6. m \in TestRecord /\ m.id = id /\ m.er = t.er
  BY <1>2, <1>3, <1>4, <1>5 DEF TestRecord
<1>7. QED
  BY <1>3, <1>4, <1>6 DEF TestMember, Member

LEMMA MeetIs ==
  ASSUME IInv, NEW t \in Tests, NEW m, m = Parsed(t), MeetTest(m)
  PROVE  /\ pc = "visiting" /\ m \in TestMember /\ m \in Member /\ m.id = nTests + 1
         /\ groups # <<>> /\ groups' = InGroup(groups, m) /\ LeftWhole'
         /\ nTests \in Nat /\ nTests' = nTests + 1 /\ nTests' \in Nat /\ nTests' <= MaxTests
         /\ nGroups' \in Nat /\ groups' # <<>>
         /\ Walk(groups, mTests, mReplacements, nTests, TRUE)
<1>1. pc = "visiting" /\ groups' = InGroup(groups, m) /\ nTests' = nTests + 1 /\ nTests < MaxTests
  BY DEF MeetTest
<1>2. m \in TestMember /\ m \in Member /\ m.id = nTests + 1
  BY <1>1, ParsedIs
<1>3. Walk(groups, mTests, mReplacements, nTests, TRUE)
  <2>1. Walk(groups, mTests, mReplacements, nTests, pc = "visiting")
    BY <1>1, Visiting
  <2>2. (pc = "visiting") = TRUE
    BY <1>1
  <2>3. QED
    BY <2>1, <2>2
<1>4. groups # <<>> /\ nTests \in Nat /\ nGroups \in Nat
  BY <1>1, Visiting
<1>5. nTests' \in Nat /\ nTests' <= MaxTests
  BY <1>1, <1>4, BoundsAssumption
<1>6. LeftWhole' /\ nGroups' \in Nat
  BY <1>4, LeftSame DEF MeetTest, IInv
<1>7. groups' # <<>>
  <2>1. GroupsTyped(groups)
    BY <1>3, WalkFields
  <2>2. PICK hs, n : hs = InGroup(groups, m) /\ JoinedGroups(groups, m, hs, n)
    BY <1>2, <1>4, <2>1, JoinedGroupsIs
  <2>3. n \in 1..n /\ Len(hs) = n
    BY <2>2 DEF JoinedGroups
  <2>4. hs # <<>>
    <3>1. n # 0
      BY <2>3
    <3>2. QED
      BY <2>3, <3>1, EmptySeq
  <2>5. QED
    BY <1>1, <2>2, <2>4
<1>8. QED
  BY <1>1, <1>2, <1>3, <1>4, <1>5, <1>6, <1>7

LEMMA KeepIInv ==
  ASSUME IInv, NEW t \in Tests, KeepTest(Parsed(t))
  PROVE  IInv'
<1>1. PICK m : m = Parsed(t)
  OBVIOUS
<1>2. /\ MeetTest(m) /\ ~HasPlaceholders(m) /\ pc' = pc
      /\ mTests' = mTests /\ mReplacements' = mReplacements
  BY <1>1 DEF KeepTest
<1>3. /\ pc = "visiting" /\ m \in Member /\ m.id = nTests + 1
      /\ groups # <<>> /\ groups' = InGroup(groups, m) /\ LeftWhole'
      /\ nTests \in Nat /\ nTests' = nTests + 1 /\ nTests' \in Nat /\ nTests' <= MaxTests
      /\ nGroups' \in Nat /\ groups' # <<>>
      /\ Walk(groups, mTests, mReplacements, nTests, TRUE)
  BY <1>1, <1>2, MeetIs
<1>4. Walk(InGroup(groups, m), mTests, mReplacements, nTests', TRUE)
  <2>1. ~Expanded(m)
    BY <1>2 DEF Expanded
  <2>2. PICK tests, more : tests = nTests /\ more = nTests' /\ tests \in Nat /\ more = tests + 1
    BY <1>3
  <2>3. more \in Nat /\ tests <= more /\ m.id <= more /\ m.id > tests
    <3>1. more \in Nat /\ tests <= more /\ more > tests /\ more <= more
      BY <2>2
    <3>2. QED
      BY <1>3, <2>2, <3>1
  <2>4. Walk(groups, mTests, mReplacements, tests, TRUE)
    BY <1>3, <2>2
  <2>5. Walk(InGroup(groups, m), mTests, mReplacements, more, TRUE)
    BY <1>3, <2>1, <2>3, <2>4, MemberWalks
  <2>6. QED
    BY <2>2, <2>5
<1>5. Walk(groups', mTests', mReplacements', nTests', pc' = "visiting")
  BY <1>2, <1>3, <1>4
<1>6. QED
  BY <1>2, <1>3, <1>5, WalkingIs

(* A test that stops the walk. *)
LEMMA StopIInv ==
  ASSUME IInv, NEW t \in Tests, MeetTest(Parsed(t)), pc' \in {"refused", "crashed"},
         mTests' = mTests, mReplacements' = mReplacements
  PROVE  IInv'
<1>1. PICK m : m = Parsed(t) /\ MeetTest(m)
  OBVIOUS
<1>2. /\ m \in Member /\ groups # <<>> /\ groups' = InGroup(groups, m) /\ LeftWhole'
      /\ nTests' <= MaxTests /\ groups' # <<>>
      /\ Walk(groups, mTests, mReplacements, nTests, TRUE)
  BY <1>1, MeetIs
<1>3. StackTyped(groups', mTests', mReplacements')
  <2>1. StackTyped(InGroup(groups, m), mTests, mReplacements)
    BY <1>2, JoinTyped
  <2>2. QED
    BY <1>2, <2>1
<1>4. TypeOK'
  <2>1. \A k : Depth(k)' = Zeros(mTests', k)
    BY DEF Depth, Zeros
  <2>2. QED
    BY <1>2, <1>3, <2>1 DEF TypeOK, StackTyped
<1>5. QED
  BY <1>2, <1>4 DEF IInv

LEMMA ExpandIInv ==
  ASSUME IInv, NEW t \in Tests, ExpandTest(Parsed(t))
  PROVE  IInv'
<1>1. PICK m : m = Parsed(t)
  OBVIOUS
<1>2. /\ MeetTest(m) /\ HasPlaceholders(m) /\ GoodData(m)
      /\ IF \E c \in ToSet(Copies(m)) : Unreadable \in ToSet(Given(c))
         THEN pc' = "refused" /\ UNCHANGED <<mTests, mReplacements>>
         ELSE /\ mReplacements' = [n \in DOMAIN mReplacements \cup {m.id} |->
                                     IF n = m.id THEN Copies(m) ELSE mReplacements[n]]
              /\ mTests' = Append(mTests, m.id) /\ UNCHANGED pc
  BY <1>1 DEF ExpandTest
<1>3. CASE \E c \in ToSet(Copies(m)) : Unreadable \in ToSet(Given(c))
  BY <1>1, <1>2, <1>3, StopIInv
<1>4. CASE ~\E c \in ToSet(Copies(m)) : Unreadable \in ToSet(Given(c))
  <2>1. /\ pc = "visiting" /\ m \in TestMember /\ m.id = nTests + 1
        /\ groups # <<>> /\ groups' = InGroup(groups, m) /\ LeftWhole'
        /\ nTests \in Nat /\ nTests' = nTests + 1 /\ nTests' \in Nat /\ nTests' <= MaxTests
        /\ nGroups' \in Nat /\ groups' # <<>>
        /\ Walk(groups, mTests, mReplacements, nTests, TRUE)
    BY <1>1, <1>2, MeetIs
  <2>2. PICK tests, id : tests = nTests /\ id = m.id /\ id = tests + 1
    BY <2>1
  <2>3. Grown(mReplacements, id, Copies(m), mReplacements') /\ pc' = pc /\ mTests' = Append(mTests, id)
    BY <1>2, <1>4, <2>2 DEF Grown
  <2>4. Readable(m)
    BY <1>4 DEF Readable
  <2>5. Expanded(m)
    BY <1>2, <2>1 DEF Expanded, TestMember
  <2>6. Walk(groups, mTests, mReplacements, tests, TRUE)
    BY <2>1, <2>2
  <2>7. Walk(InGroup(groups, m), Append(mTests, id), mReplacements', id, TRUE)
    BY <1>2, <2>1, <2>2, <2>3, <2>4, <2>5, <2>6, ExpandWalks
  <2>8. Walk(groups', mTests', mReplacements', nTests', pc' = "visiting")
    BY <2>1, <2>2, <2>3, <2>7
  <2>9. QED
    BY <2>1, <2>3, <2>8, WalkingIs
<1>5. QED
  BY <1>3, <1>4

LEMMA EnterIInv ==
  ASSUME IInv, EnterGroup
  PROVE  IInv'
<1>1. /\ pc = "visiting" /\ pc' = pc /\ nTests' = nTests /\ mReplacements' = mReplacements /\ left' = left
      /\ groups' = Append(groups, Group(nGroups + 1)) /\ nGroups' = nGroups + 1
      /\ mTests' = Append(mTests, 0)
  BY DEF EnterGroup
<1>2. /\ Walk(groups, mTests, mReplacements, nTests, pc = "visiting") /\ nGroups \in Nat
      /\ nTests <= MaxTests
  BY <1>1, Visiting
<1>3. PICK num : num = nGroups + 1 /\ num \in Nat /\ num > 0
  BY <1>2
<1>4. Walk(groups, mTests, mReplacements, nTests, TRUE)
  <2>1. (pc = "visiting") = TRUE
    BY <1>1
  <2>2. QED
    BY <1>2, <2>1
<1>5. Walk(Append(groups, Group(num)), Append(mTests, 0), mReplacements, nTests, TRUE)
  BY <1>3, <1>4, EnterWalks
<1>6. Walk(groups', mTests', mReplacements', nTests', pc' = "visiting")
  BY <1>1, <1>3, <1>5
<1>7. groups' # <<>>
  <2>1. GroupsTyped(groups) /\ Group(num) \in GroupRecord
    BY <1>3, <1>4, WalkFields, NewGroupIs
  <2>2. PICK n : n = Len(groups) /\ n \in Nat /\ Len(groups') = n + 1 /\ groups' \in Seq(GroupRecord)
    BY <1>1, <1>3, <2>1, AppendProperties, LenProperties DEF GroupsTyped
  <2>3. n + 1 # 0
    BY <2>2
  <2>4. QED
    BY <2>2, <2>3, EmptySeq
<1>8. LeftWhole'
  BY <1>1, LeftSame DEF IInv
<1>9. QED
  BY <1>1, <1>2, <1>3, <1>6, <1>7, <1>8, WalkingIs

LEMMA LeaveIInv ==
  ASSUME IInv, LeaveGroup
  PROVE  IInv'
<1>1. /\ pc = "visiting" /\ pc' = "replacing" /\ nTests' = nTests /\ mReplacements' = mReplacements
      /\ left' = left /\ groups' = groups /\ nGroups' = nGroups /\ mTests' = mTests
  BY DEF LeaveGroup
<1>2. /\ Walk(groups, mTests, mReplacements, nTests, pc = "visiting") /\ nGroups \in Nat
      /\ nTests <= MaxTests /\ groups # <<>>
  BY <1>1, Visiting
<1>3. Walk(groups, mTests, mReplacements, nTests, FALSE)
  BY <1>2, LeaveWalks
<1>4. Walk(groups', mTests', mReplacements', nTests', pc' = "visiting")
  <2>1. (pc' = "visiting") = FALSE
    BY <1>1
  <2>2. QED
    BY <1>1, <1>3, <2>1
<1>5. LeftWhole'
  BY <1>1, LeftSame DEF IInv
<1>6. QED
  BY <1>1, <1>2, <1>4, <1>5, WalkingIs

LEMMA ReplaceIInv ==
  ASSUME IInv, ReplaceTest
  PROVE  IInv'
<1>1. PICK x : x = Last(mTests) /\ x # 0
  BY DEF ReplaceTest
<1>2. /\ pc = "replacing" /\ pc' = pc /\ nTests' = nTests /\ nGroups' = nGroups /\ left' = left
      /\ groups' = [groups EXCEPT ![Len(groups)].tests = Replaced(@, x, mReplacements[x])]
      /\ Shrunk(mReplacements, x, mReplacements') /\ mTests' = Front(mTests)
  BY <1>1 DEF ReplaceTest, Shrunk
<1>3. /\ Walk(groups, mTests, mReplacements, nTests, pc = "visiting") /\ nGroups \in Nat
      /\ nTests <= MaxTests /\ groups # <<>>
  BY <1>2, Visiting
<1>4. (pc = "visiting") = FALSE
  BY <1>2
<1>5. Walk(groups, mTests, mReplacements, nTests, FALSE)
  BY <1>3, <1>4
<1>6. Walk([groups EXCEPT ![Len(groups)].tests = Replaced(@, x, mReplacements[x])],
           Front(mTests), mReplacements', nTests, FALSE)
  BY <1>1, <1>2, <1>3, <1>5, ReplaceWalks
<1>7. Walk(groups', mTests', mReplacements', nTests', pc' = "visiting")
  BY <1>2, <1>4, <1>6
<1>8. groups' # <<>>
  <2>1. PICK n : n # 0 /\ Len(groups) = n /\ groups \in Seq(GroupRecord)
    BY <1>3, <1>5, SomeGroup, WalkFields DEF GroupsTyped
  <2>2. DOMAIN groups' = DOMAIN groups
    BY <1>2
  <2>3. DOMAIN groups # {}
    BY <1>3, <2>1, EmptySeq
  <2>4. QED
    BY <2>2, <2>3, EmptySeq
<1>9. LeftWhole'
  BY <1>2, LeftSame DEF IInv
<1>10. QED
  BY <1>2, <1>3, <1>7, <1>8, <1>9, WalkingIs

LEMMA DoneIInv ==
  ASSUME IInv, GroupDone
  PROVE  IInv'
<1>1. /\ pc = "replacing" /\ Last(mTests) = 0 /\ mTests' = Front(mTests) /\ left' = Last(groups)
      /\ nTests' = nTests /\ nGroups' = nGroups /\ mReplacements' = mReplacements
      /\ pc' = IF Len(groups) = 1 THEN "expanded" ELSE "visiting"
      /\ groups' = IF Front(groups) = <<>> THEN <<>>
                   ELSE InGroup(Front(groups), [id |-> -Last(groups).number])
  BY DEF GroupDone
<1>2. /\ Walk(groups, mTests, mReplacements, nTests, pc = "visiting") /\ nGroups \in Nat
      /\ nTests <= MaxTests /\ nTests \in Nat /\ groups # <<>>
  BY <1>1, Visiting
<1>3. /\ Last(groups) \in GroupRecord /\ Last(groups).number > 0 /\ Whole(Last(groups), {})
      /\ Walk(Front(groups), Front(mTests), mReplacements, nTests, TRUE)
      /\ Front(groups) = <<>> <=> Len(groups) = 1
  BY <1>1, <1>2, DoneWalks
<1>4. LeftWhole'
  BY <1>1, <1>3 DEF LeftWhole
<1>5. CASE Front(groups) = <<>>
  <2>1. pc' = "expanded" /\ groups' = <<>>
    BY <1>1, <1>3, <1>5
  <2>2. Walk(groups', mTests', mReplacements', nTests', TRUE)
    BY <1>1, <1>3, <1>5, <2>1
  <2>3. Walk(groups', mTests', mReplacements', nTests', FALSE)
    BY <2>2, LeaveWalks
  <2>4. (pc' = "visiting") = FALSE
    BY <2>1
  <2>5. Walk(groups', mTests', mReplacements', nTests', pc' = "visiting")
    BY <2>3, <2>4
  <2>6. QED
    BY <1>1, <1>2, <1>4, <2>1, <2>5, WalkingIs
<1>6. CASE Front(groups) # <<>>
  <2>1. PICK gs, m : gs = Front(groups) /\ m = [id |-> -Last(groups).number]
    OBVIOUS
  <2>2. pc' = "visiting" /\ groups' = InGroup(gs, m)
    BY <1>1, <1>3, <1>6, <2>1
  <2>3. PICK id : id = m.id /\ id \in Int /\ id < 0 /\ m \in SubGroup
    <3>1. PICK number : number = Last(groups).number /\ number \in Nat /\ number > 0
      BY <1>3, GroupFields
    <3>2. -number \in Int /\ -number < 0 /\ m = [id |-> -number]
      BY <2>1, <3>1
    <3>3. QED
      BY <3>2 DEF SubGroup
  <2>4. m \in Member /\ ~Expanded(m)
    <3>1. ~(id > 0)
      BY <2>3
    <3>2. QED
      BY <2>3, <3>1 DEF Member, Expanded
  <2>5. PICK tests : tests = nTests /\ tests \in Nat /\ tests <= tests
    BY <1>2
  <2>6. m.id <= tests /\ (m.id > 0 => m.id > tests)
    BY <2>3, <2>5
  <2>7. Walk(gs, Front(mTests), mReplacements, tests, TRUE)
    BY <1>3, <2>1, <2>5
  <2>8. Walk(InGroup(gs, m), Front(mTests), mReplacements, tests, TRUE)
    BY <1>6, <2>1, <2>4, <2>5, <2>6, <2>7, MemberWalks
  <2>9. Walk(groups', mTests', mReplacements', nTests', TRUE)
    BY <1>1, <2>2, <2>5, <2>8
  <2>10. (pc' = "visiting") = TRUE
    BY <2>2
  <2>11. Walk(groups', mTests', mReplacements', nTests', pc' = "visiting")
    BY <2>9, <2>10
  <2>12. groups' # <<>>
    <3>1. GroupsTyped(gs)
      BY <2>7, WalkFields
    <3>2. PICK hs, n : hs = InGroup(gs, m) /\ JoinedGroups(gs, m, hs, n)
      BY <1>6, <2>1, <2>4, <3>1, JoinedGroupsIs
    <3>3. n \in 1..n /\ Len(hs) = n
      BY <3>2 DEF JoinedGroups
    <3>4. n # 0
      BY <3>3
    <3>5. QED
      BY <2>2, <3>2, <3>3, <3>4, EmptySeq
  <2>13. QED
    BY <1>1, <1>2, <1>4, <2>2, <2>11, <2>12, WalkingIs
<1>7. QED
  BY <1>5, <1>6

LEMMA InitIInv ==
  ASSUME Init
  PROVE  IInv
<1>1. /\ pc = "visiting" /\ nTests = 0 /\ nGroups = 1 /\ groups = <<Group(1)>> /\ mTests = <<0>>
      /\ mReplacements = <<>> /\ left = Group(0)
  BY DEF Init
<1>2. LeftWhole
  <2>1. 0 \in Nat
    OBVIOUS
  <2>2. QED
    BY <1>1, <2>1, NewGroupIs DEF LeftWhole
<1>3. PICK none : /\ none = <<>> /\ Len(none) = 0 /\ DOMAIN none = {}
                  /\ none \in Seq(GroupRecord) /\ none \in Seq(Nat)
  <2>1. PICK none : none = <<>> /\ Len(none) = 0 /\ none \in Seq(GroupRecord) /\ none \in Seq(Nat)
    BY EmptySeq
  <2>2. DOMAIN none = 1..0
    BY <2>1, LenProperties
  <2>3. 1..0 = {}
    OBVIOUS
  <2>4. QED
    BY <2>1, <2>2, <2>3
<1>4. \A k \in 1..Len(none) : FALSE
  BY <1>3
<1>5. Walk(none, none, none, 0, TRUE)
  <2>1. GroupsTyped(none) /\ MetOnce(none) /\ TestsWait(none, none, 0, TRUE) /\ GroupsWhole(none, DOMAIN none)
    BY <1>3, <1>4 DEF GroupsTyped, MetOnce, TestsWait, GroupsWhole
  <2>2. StackMarked(none, none)
    <3>1. 0 \in Nat
      OBVIOUS
    <3>2. Zeros(none, 0) = 0
      BY <3>1, ZerosAre
    <3>3. QED
      BY <1>3, <3>2 DEF StackMarked
  <2>3. StackedMet(none, none, DOMAIN none)
    BY <1>3, <1>4 DEF StackedMet
  <2>4. none = [n \in DOMAIN none |-> none[n]] /\ 0 \in Nat
    BY <1>3, LenProperties
  <2>5. QED
    BY <1>3, <2>1, <2>2, <2>3, <2>4 DEF Walk
<1>6. Walk(Append(none, Group(1)), Append(none, 0), none, 0, TRUE)
  <2>1. 1 \in Nat /\ 1 > 0
    OBVIOUS
  <2>2. QED
    BY <1>5, <2>1, EnterWalks
<1>7. Append(none, Group(1)) = groups /\ Append(none, 0) = mTests /\ none = mReplacements
  BY <1>1, <1>3
<1>8. Walk(groups, mTests, mReplacements, nTests, pc = "visiting")
  <2>1. (pc = "visiting") = TRUE
    BY <1>1
  <2>2. QED
    BY <1>1, <1>6, <1>7, <2>1
<1>9. groups # <<>> /\ nGroups \in Nat
  BY <1>1
<1>10. nTests <= MaxTests
  BY <1>1, BoundsAssumption
<1>11. QED
  BY <1>1, <1>2, <1>8, <1>9, <1>10 DEF IInv, Walking

LEMMA StutterIInv ==
  ASSUME IInv, UNCHANGED vars
  PROVE  IInv'
BY DEF IInv, Walking, LeftWhole, TypeOK, Depth, vars

(* What is on the stack waits for its group, and every group is the list of what
   it met, with copies for what waits no more: whatever is met, entered, left
   and replaced, in any order. *)
THEOREM Invariance == Spec => []IInv
<1>1. Init => IInv
  BY InitIInv
<1>2. ASSUME IInv, [Next]_vars PROVE IInv'
  <2>1. CASE EnterGroup
    BY <1>2, <2>1, EnterIInv
  <2>2. ASSUME NEW t \in Tests, Visit(Parsed(t)) PROVE IInv'
    <3>1. CASE KeepTest(Parsed(t))
      BY <1>2, <3>1, KeepIInv
    <3>2. CASE RefuseTest(Parsed(t))
      <4>1. /\ MeetTest(Parsed(t)) /\ pc' \in {"refused", "crashed"}
            /\ mTests' = mTests /\ mReplacements' = mReplacements
        BY <3>2 DEF RefuseTest
      <4>2. QED
        BY <1>2, <4>1, StopIInv
    <3>3. CASE CopyMockup(Parsed(t))
      <4>1. /\ MeetTest(Parsed(t)) /\ pc' \in {"refused", "crashed"}
            /\ mTests' = mTests /\ mReplacements' = mReplacements
        BY <3>3 DEF CopyMockup
      <4>2. QED
        BY <1>2, <4>1, StopIInv
    <3>4. CASE ExpandTest(Parsed(t))
      BY <1>2, <3>4, ExpandIInv
    <3>5. QED
      BY <2>2, <3>1, <3>2, <3>3, <3>4 DEF Visit
  <2>3. CASE LeaveGroup
    BY <1>2, <2>3, LeaveIInv
  <2>4. CASE ReplaceTest
    BY <1>2, <2>4, ReplaceIInv
  <2>5. CASE GroupDone
    BY <1>2, <2>5, DoneIInv
  <2>6. CASE UNCHANGED vars
    BY <1>2, <2>6, StutterIInv
  <2>7. QED
    BY <1>2, <2>1, <2>2, <2>3, <2>4, <2>5, <2>6 DEF Next
<1>3. QED
  BY <1>1, <1>2, PTL DEF Spec

(* There is a null pointer for every open group, what is above it on the stack
   are tests of that group, and copies wait for exactly the tests on the stack:
   VisitTestGroup's loop ends, for any tests, data and nesting of the groups. *)
THEOREM TypeCorrect == Spec => []TypeOK
<1>1. IInv => TypeOK
  BY IInvIsTyped
<1>2. QED
  BY <1>1, Invariance, PTL

(* When a group is left, each of its tests with placeholders has given way, in
   its place, to one test for each line of its file that has a cell, filled from
   the left to the right: whatever is in the files and however the groups nest. *)
THEOREM RowsAreTests == Spec => []RowsBecomeTests
<1>1. IInv => RowsBecomeTests
  BY RowsFollow DEF IInv
<1>2. QED
  BY <1>1, Invariance, PTL
=============================================================================
