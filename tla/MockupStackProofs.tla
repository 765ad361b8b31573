------------------------- MODULE MockupStackProofs -------------------------
(***************************************************************************)
(* The frames of mockups for any functions, replacements, nesting and      *)
(* lists: types, which groups the frames belong to, and what tests leave   *)
(* alone.                                                                  *)
(***************************************************************************)
EXTENDS MockupStack, Prefixes

(***************************************************************************)
(* Lists of mockups                                                        *)
(***************************************************************************)

(* What a test or a group lists is a sequence of mockups. *)
LEMMA ListsAreSequences ==
  ASSUME NEW l \in Lists
  PROVE  l \in Seq(Mockup)
<1>1. PICK n \in 0..MaxMocks : l \in [1..n -> Mockup]
  BY DEF Lists
<1>2. QED
  BY <1>1, MockupAssumption

LEMMA PlainHasNoMockups == Plain \in Fixtures /\ Plain.list = <<>> /\ <<>> \in Lists
<1>1. <<>> \in [1..0 -> Mockup]
  OBVIOUS
<1>2. 0 \in 0..MaxMocks
  BY MockupAssumption
<1>3. QED
  BY <1>1, <1>2 DEF Plain, Fixtures, Lists

LEMMA FixtureType ==
  ASSUME NEW g \in Fixtures
  PROVE  g.mocks \in BOOLEAN /\ g.list \in Lists /\ g.list \in Seq(Mockup)
         /\ (~g.mocks => g.list = <<>>)
<1>1. CASE g \in [mocks : {TRUE}, list : Lists]
  BY <1>1, ListsAreSequences
<1>2. CASE g = Plain
  BY <1>2, PlainHasNoMockups, ListsAreSequences DEF Plain
<1>3. QED
  BY <1>1, <1>2 DEF Fixtures

Pointers == [Funs -> Bodies \cup {original}]

(* Running the mockups of a list, in either order, sets pointers to bodies. *)
LEMMA RunMockupsType ==
  ASSUME NEW p \in Pointers, NEW l \in Seq(Mockup)
  PROVE  /\ RunMockups(p, l) \in Pointers
         /\ \A f \in Mocked(l) : RunMockups(p, l)[f] \in Bodies
         /\ Mocked(l) \subseteq Funs
<1>1. Len(l) \in Nat /\ \A i \in 1..Len(l) : l[i] \in Mockup
  BY ElementOfSeq, LenProperties
<1>2. Mocked(l) \subseteq Funs
  BY <1>1 DEF Mocked, Mockup
<1>3. ASSUME NEW f \in Mocked(l) PROVE RunMockups(p, l)[f] \in Bodies
  <2> DEFINE T == {i \in 1..Len(l) : l[i].fn = f}
  <2>1. T \in SUBSET (1..Len(l)) /\ T # {}
    BY DEF Mocked
  <2>2. \E i \in T : \A j \in T : j <= i
    <3> HIDE DEF T
    <3>1. QED
      BY <1>1, <2>1, LastPlace
  <2>3. \E i \in 1..Len(l) : l[i].fn = f /\ \A j \in 1..Len(l) : l[j].fn = f => j <= i
    BY <2>2
  <2>4. QED
    BY <1>1, <1>2, <1>3, <2>3 DEF RunMockups, Mockup
<1>4. ASSUME NEW f \in Funs PROVE RunMockups(p, l)[f] \in Bodies \cup {original}
  <2>1. CASE f \in Mocked(l)
    BY <1>3, <2>1
  <2>2. CASE f \notin Mocked(l)
    BY <2>2 DEF RunMockups, Pointers
  <2>3. QED
    BY <2>1, <2>2
<1>5. RunMockups(p, l) \in Pointers
  BY <1>4 DEF RunMockups, Pointers
<1>6. QED
  BY <1>2, <1>3, <1>5

LEMMA RerunType ==
  ASSUME NEW p \in Pointers, NEW s \in Seq(Seq(Mockup))
  PROVE  RerunNearest(p, s) \in Pointers
<1>1. CASE s = <<>>
  BY <1>1 DEF RerunNearest
<1>2. CASE s # <<>>
  <2> DEFINE l == LastOf(s)
  <2>1. Len(s) \in 1..Len(s) /\ l \in Seq(Mockup)
    <3>1. Len(s) \in Nat \ {0}
      BY <1>2, EmptySeq
    <3>2. QED
      BY <3>1, ElementOfSeq DEF LastOf
  <2>2. Len(l) \in Nat /\ \A i \in 1..Len(l) : l[i] \in Mockup
    <3> HIDE DEF l
    <3>1. QED
      BY <2>1, ElementOfSeq, LenProperties
  <2>3. ASSUME NEW f \in Funs PROVE RerunNearest(p, s)[f] \in Bodies \cup {original}
    <3>1. CASE f \in Mocked(l)
      <4> DEFINE T == {i \in 1..Len(l) : l[i].fn = f}
      <4>1. T \in SUBSET (1..Len(l)) /\ T # {}
        BY <3>1 DEF Mocked
      <4>2. \E i \in T : \A j \in T : i <= j
        <5> HIDE DEF T
        <5>1. QED
          BY <2>2, <4>1, FirstPlace
      <4>3. \E i \in 1..Len(l) : l[i].fn = f /\ \A j \in 1..Len(l) : l[j].fn = f => i <= j
        BY <4>2
      <4>4. QED
        BY <1>2, <2>2, <3>1, <4>3 DEF RerunNearest, Mockup
    <3>2. CASE f \notin Mocked(l)
      BY <1>2, <3>2 DEF RerunNearest, Pointers
    <3>3. QED
      BY <3>1, <3>2
  <2>4. QED
    BY <1>2, <2>3 DEF RerunNearest, Pointers
<1>3. QED
  BY <1>1, <1>2

LEMMA OriginalsType ==
  ASSUME NEW p \in Pointers, NEW l
  PROVE  RunOriginals(p, l) \in Pointers
BY DEF RunOriginals, Pointers

LEMMA FrontType ==
  ASSUME NEW S, NEW s \in Seq(S), s # <<>>
  PROVE  /\ FrontOf(s) \in Seq(S)
         /\ Len(s) \in Nat \ {0} /\ Len(FrontOf(s)) = Len(s) - 1
         /\ \A i \in 1..Len(s) - 1 : FrontOf(s)[i] = s[i]
         /\ LastOf(s) \in S /\ LastOf(s) = s[Len(s)]
<1>1. Len(s) \in Nat \ {0} /\ \A i \in 1..Len(s) : s[i] \in S
  BY EmptySeq, ElementOfSeq
<1>2. /\ FrontOf(s) \in Seq(S)
      /\ Len(FrontOf(s)) = IF 1 <= Len(s) - 1 THEN Len(s) - 1 - 1 + 1 ELSE 0
      /\ \A i \in 1..Len(s) - 1 - 1 + 1 : FrontOf(s)[i] = s[1 + i - 1]
  <2>1. 1 \in Int /\ Len(s) - 1 \in Int /\ \A i \in 1..Len(s) - 1 : s[i] \in S
    BY <1>1
  <2> DEFINE n == Len(s) - 1
  <2>2. /\ SubSeq(s, 1, n) \in Seq(S)
        /\ Len(SubSeq(s, 1, n)) = IF 1 <= n THEN n - 1 + 1 ELSE 0
        /\ \A i \in 1..n - 1 + 1 : SubSeq(s, 1, n)[i] = s[1 + i - 1]
    <3> HIDE DEF n
    <3>1. n \in Int /\ \A i \in 1..n : s[i] \in S
      BY <2>1 DEF n
    <3>2. QED
      BY <3>1, SubSeqProperties
  <2>3. QED
    BY <2>2 DEF FrontOf
<1>3. LastOf(s) \in S /\ LastOf(s) = s[Len(s)]
  BY <1>1 DEF LastOf
<1>4. Len(FrontOf(s)) = Len(s) - 1
  <2>1. CASE 1 <= Len(s) - 1
    BY <1>1, <1>2, <2>1
  <2>2. CASE ~(1 <= Len(s) - 1)
    <3>1. Len(s) = 1
      BY <1>1, <2>2, SMTT(30)
    <3>2. QED
      BY <1>2, <2>2, <3>1
  <2>3. QED
    BY <2>1, <2>2
<1>5. ASSUME NEW i \in 1..Len(s) - 1 PROVE FrontOf(s)[i] = s[i]
  <2>1. i \in 1..Len(s) - 1 - 1 + 1 /\ 1 + i - 1 = i
    BY <1>1
  <2>2. QED
    BY <1>2, <2>1
<1>6. QED
  BY <1>1, <1>2, <1>3, <1>4, <1>5

-----------------------------------------------------------------------------
(***************************************************************************)
(* Types                                                                   *)
(***************************************************************************)

LEMMA InitType == Init => TypeOK
<1>1. SUFFICES ASSUME Init PROVE TypeOK
  OBVIOUS
<1>2. groups \in Seq(Fixtures) /\ mMockupRevert \in Seq(Seq(Mockup))
  BY <1>1, EmptySeq DEF Init
<1>3. fp \in [Procs -> [Funs -> Bodies \cup {original}]]
  BY <1>1 DEF Init, InitialPointers
<1>4. test \in [mocks : BOOLEAN, list : Lists, running : BOOLEAN]
  BY <1>1, PlainHasNoMockups DEF Init, NoTest
<1>5. QED
  BY <1>1, <1>2, <1>3, <1>4 DEF Init, TypeOK

LEMMA NextType == TypeOK /\ [Next]_vars => TypeOK'
<1>1. SUFFICES ASSUME TypeOK, [Next]_vars PROVE TypeOK'
  OBVIOUS
<1>2. /\ usingFork \in BOOLEAN /\ groups \in Seq(Fixtures) /\ mMockupRevert \in Seq(Seq(Mockup))
      /\ fp \in [Procs -> Pointers]
      /\ test \in [mocks : BOOLEAN, list : Lists, running : BOOLEAN]
  BY <1>1 DEF TypeOK, Pointers
<1>3. fp["parent"] \in Pointers /\ fp[Runner] \in Pointers /\ Runner \in Procs
  BY <1>2 DEF Procs, Runner
<1>4. CASE EnterMockingGroup
  <2>1. PICK l \in Lists :
          /\ groups' = Append(groups, [mocks |-> TRUE, list |-> l])
          /\ mMockupRevert' = PushFrame(l)
          /\ fp' = [fp EXCEPT !["parent"] = RunMockups(fp["parent"], l)]
    BY <1>4 DEF EnterMockingGroup
  <2>2. l \in Seq(Mockup) /\ [mocks |-> TRUE, list |-> l] \in Fixtures
    BY ListsAreSequences DEF Fixtures
  <2>3. groups' \in Seq(Fixtures) /\ mMockupRevert' \in Seq(Seq(Mockup))
    BY <1>2, <2>1, <2>2, AppendProperties DEF PushFrame
  <2>4. fp' \in [Procs -> Pointers]
    BY <1>2, <1>3, <2>1, <2>2, RunMockupsType
  <2>5. QED
    BY <1>2, <1>4, <2>3, <2>4 DEF EnterMockingGroup, TypeOK, Pointers
<1>5. CASE EnterPlainGroup
  <2>1. groups' \in Seq(Fixtures)
    BY <1>2, <1>5, PlainHasNoMockups, AppendProperties DEF EnterPlainGroup
  <2>2. QED
    BY <1>2, <1>5, <2>1 DEF EnterPlainGroup, TypeOK, Pointers
<1>6. CASE LeaveMockingGroup
  <2>1. groups' \in Seq(Fixtures)
    BY <1>2, <1>6, FrontType DEF LeaveMockingGroup
  <2>2. mMockupRevert' \in Seq(Seq(Mockup))
    <3>1. CASE mMockupRevert = <<>>
      <4>1. mMockupRevert' = SubSeq(mMockupRevert, 1, -1)
        BY <1>6, <3>1 DEF LeaveMockingGroup, FrontOf
      <4>2. QED
        BY <4>1, SubSeqEmpty, EmptySeq
    <3>2. CASE mMockupRevert # <<>>
      BY <1>2, <1>6, <3>2, FrontType DEF LeaveMockingGroup
    <3>3. QED
      BY <3>1, <3>2
  <2>3. Revert(mMockupRevert', LastOf(groups).list) \in Pointers
    BY <1>3, <2>2, RerunType, OriginalsType DEF Revert
  <2>4. fp' \in [Procs -> Pointers]
    BY <1>2, <1>6, <2>3 DEF LeaveMockingGroup
  <2>5. QED
    BY <1>2, <1>6, <2>1, <2>2, <2>4 DEF LeaveMockingGroup, TypeOK, Pointers
<1>7. CASE LeavePlainGroup
  <2>1. groups' \in Seq(Fixtures)
    BY <1>2, <1>7, FrontType DEF LeavePlainGroup
  <2>2. QED
    BY <1>2, <1>7, <2>1 DEF LeavePlainGroup, TypeOK, Pointers
<1>8. CASE StartTest
  <2>1. PICK m \in Fixtures :
          /\ test' = [mocks |-> m.mocks, list |-> m.list, running |-> TRUE]
          /\ fp' = [fp EXCEPT ![Runner] = RunMockups(fp["parent"], m.list)]
    BY <1>8 DEF StartTest, TestPointers
  <2>2. m.mocks \in BOOLEAN /\ m.list \in Lists /\ m.list \in Seq(Mockup)
    BY FixtureType
  <2>3. fp' \in [Procs -> Pointers]
    BY <1>2, <1>3, <2>1, <2>2, RunMockupsType
  <2>4. test' \in [mocks : BOOLEAN, list : Lists, running : BOOLEAN]
    BY <2>1, <2>2
  <2>5. QED
    BY <1>2, <1>8, <2>3, <2>4 DEF StartTest, TypeOK, Pointers
<1>9. CASE EndTest
  <2>1. AfterTest(fp[Runner]) \in Pointers
    BY <1>2, <1>3, OriginalsType, RerunType DEF AfterTest
  <2>2. fp' \in [Procs -> Pointers]
    BY <1>2, <1>9, <2>1 DEF EndTest
  <2>3. test' \in [mocks : BOOLEAN, list : Lists, running : BOOLEAN]
    BY <1>9, PlainHasNoMockups DEF EndTest, NoTest
  <2>4. QED
    BY <1>2, <1>9, <2>2, <2>3 DEF EndTest, TypeOK, Pointers
<1>10. CASE UNCHANGED vars
  BY <1>1, <1>10 DEF vars, TypeOK
<1>11. QED
  BY <1>1, <1>4, <1>5, <1>6, <1>7, <1>8, <1>9, <1>10 DEF Next

(* Pointers hold the function or a replacement and the stack holds lists of
   mockups, whatever the files mock and however deep they nest. *)
THEOREM MockupTypes == Spec => []TypeOK
BY InitType, NextType, PTL DEF Spec

-----------------------------------------------------------------------------
(***************************************************************************)
(* Isolation                                                               *)
(***************************************************************************)

(* With fork, the steps of a test change the pointers of its own process
   only. *)
LEMMA TestStepIsolated ==
  ASSUME TypeOK, [Next]_vars, usingFork, test.running \/ test'.running
  PROVE  fp'["parent"] = fp["parent"]
<1>1. Runner = "child" /\ "parent" # "child" /\ DOMAIN fp = Procs
  BY DEF Runner, TypeOK
<1>2. CASE test.running
  <2>1. EndTest \/ UNCHANGED vars
    BY <1>2 DEF Next, EnterMockingGroup, EnterPlainGroup, LeaveMockingGroup,
      LeavePlainGroup, StartTest
  <2>2. CASE EndTest
    BY <1>1, <2>2 DEF EndTest
  <2>3. CASE UNCHANGED vars
    BY <2>3 DEF vars
  <2>4. QED
    BY <2>1, <2>2, <2>3
<1>3. CASE ~test.running
  <2>1. test' # test
    BY <1>3
  <2>2. StartTest
    BY <1>3, <2>1 DEF Next, EnterMockingGroup, EnterPlainGroup, LeaveMockingGroup,
      LeavePlainGroup, EndTest, vars
  <2>3. QED
    BY <1>1, <2>2 DEF StartTest
<1>4. QED
  BY <1>2, <1>3

(* With fork, no test changes what the groups' process calls. *)
THEOREM TestsAreIsolated == Spec => TestsLeaveGroupsAlone
<1>1. TypeOK /\ [Next]_vars =>
        [usingFork /\ (test.running \/ test'.running) => fp'["parent"] = fp["parent"]]_vars
  BY TestStepIsolated
<1>2. QED
  BY <1>1, MockupTypes, PTL DEF Spec, TestsLeaveGroupsAlone
-----------------------------------------------------------------------------
(***************************************************************************)
(* Frames and groups                                                       *)
(***************************************************************************)

(* The frames are those of the mocking groups, in order. *)
Placed(frames, gs, place) ==
  /\ place \in [1..Len(frames) -> 1..Len(gs)]
  /\ \A i, j \in 1..Len(frames) : i < j => place[i] < place[j]
  /\ \A k \in 1..Len(gs) : gs[k].mocks <=> \E i \in 1..Len(frames) : place[i] = k
  /\ \A i \in 1..Len(frames) : frames[i] = gs[place[i]].list

Match(frames, gs) == \E place : Placed(frames, gs, place)

LEMMA MatchIsFrames == FramesAreOpenGroups <=> Match(mMockupRevert, groups)
BY DEF FramesAreOpenGroups, Match, Placed

(* A group with a mockup_all is entered. *)
LEMMA MatchPush ==
  ASSUME NEW frames \in Seq(Seq(Mockup)), NEW gs \in Seq(Fixtures), Match(frames, gs),
         NEW l \in Seq(Mockup), NEW g \in Fixtures, g.mocks, g.list = l
  PROVE  Match(Append(frames, l), Append(gs, g))
<1>n. PICK n \in Nat : n = Len(frames)
  BY LenProperties
<1>1. PICK k \in Nat : k = Len(gs)
  BY LenProperties
<1>2. /\ Len(Append(frames, l)) = n + 1 /\ Len(Append(gs, g)) = k + 1
      /\ \A i \in 1..n : Append(frames, l)[i] = frames[i]
      /\ \A i \in 1..k : Append(gs, g)[i] = gs[i]
      /\ Append(frames, l)[n + 1] = l /\ Append(gs, g)[k + 1] = g
  BY <1>n, <1>1, AppendProperties
<1>3. PICK place : Placed(frames, gs, place)
  BY DEF Match
<1>p. /\ place \in [1..n -> 1..k]
      /\ \A i, j \in 1..n : i < j => place[i] < place[j]
      /\ \A q \in 1..k : gs[q].mocks <=> \E i \in 1..n : place[i] = q
      /\ \A i \in 1..n : frames[i] = gs[place[i]].list
  BY <1>n, <1>1, <1>3 DEF Placed
<1> DEFINE longer == [i \in 1..n + 1 |-> IF i = n + 1 THEN k + 1 ELSE place[i]]
<1>4. ASSUME NEW i \in 1..n PROVE place[i] \in 1..k /\ longer[i] = place[i]
  <2>1. i # n + 1 /\ i \in 1..n + 1
    OBVIOUS
  <2>2. QED
    BY <1>p, <2>1
<1>5. longer[n + 1] = k + 1
  OBVIOUS
<1>m. \A i \in 1..n + 1 : i \in 1..n \/ i = n + 1
  OBVIOUS
<1> HIDE DEF longer
<1>6. longer \in [1..n + 1 -> 1..k + 1]
  <2>1. \A i \in 1..n + 1 : longer[i] \in 1..k + 1
    BY <1>4, <1>5, <1>m
  <2>2. QED
    BY <2>1 DEF longer
<1>7. ASSUME NEW i \in 1..n + 1, NEW j \in 1..n + 1, i < j PROVE longer[i] < longer[j]
  <2>1. i \in 1..n
    BY <1>7
  <2>2. CASE j = n + 1
    <3>1. place[i] \in 1..k
      BY <1>4, <2>1
    <3>2. QED
      BY <1>4, <1>5, <2>1, <2>2, <3>1
  <2>3. CASE j \in 1..n
    BY <1>p, <1>4, <1>7, <2>1, <2>3
  <2>4. QED
    BY <1>m, <2>2, <2>3
<1>8. ASSUME NEW q \in 1..k + 1
      PROVE  Append(gs, g)[q].mocks <=> \E i \in 1..n + 1 : longer[i] = q
  <2>1. CASE q = k + 1
    <3>1. Append(gs, g)[q].mocks
      BY <1>2, <2>1
    <3>2. n + 1 \in 1..n + 1 /\ longer[n + 1] = q
      BY <1>5, <2>1
    <3>3. \E i \in 1..n + 1 : longer[i] = q
      BY <3>2, Zenon
    <3>4. QED
      BY <3>1, <3>3, Zenon
  <2>2. CASE q \in 1..k
    <3>1. Append(gs, g)[q].mocks <=> \E i \in 1..n : place[i] = q
      BY <1>2, <1>p, <2>2
    <3>2. longer[n + 1] # q
      BY <1>5, <2>2
    <3>3. 1..n \subseteq 1..n + 1
      OBVIOUS
    <3>4. QED
      BY <1>4, <1>m, <3>1, <3>2, <3>3
  <2>3. q = k + 1 \/ q \in 1..k
    OBVIOUS
  <2>4. QED
    BY <2>1, <2>2, <2>3, Zenon
<1>9. ASSUME NEW i \in 1..n + 1
      PROVE  Append(frames, l)[i] = Append(gs, g)[longer[i]].list
  <2>1. CASE i = n + 1
    BY <1>2, <1>5, <2>1
  <2>2. CASE i \in 1..n
    <3>1. place[i] \in 1..k /\ longer[i] = place[i]
      BY <1>4, <2>2
    <3>2. Append(gs, g)[longer[i]] = gs[place[i]]
      BY <1>2, <3>1
    <3>3. QED
      BY <1>2, <1>p, <2>2, <3>2
  <2>3. QED
    BY <1>m, <2>1, <2>2
<1>10. Placed(Append(frames, l), Append(gs, g), longer)
  BY <1>2, <1>6, <1>7, <1>8, <1>9 DEF Placed
<1>11. QED
  BY <1>10 DEF Match

(* A group without one is entered. *)
LEMMA MatchPlain ==
  ASSUME NEW frames, NEW gs \in Seq(Fixtures), Len(frames) \in Nat, Match(frames, gs),
         NEW g \in Fixtures, ~g.mocks
  PROVE  Match(frames, Append(gs, g))
<1> DEFINE k == Len(gs)
<1>1. k \in Nat
  BY LenProperties
<1>2. /\ Len(Append(gs, g)) = k + 1 /\ Append(gs, g)[k + 1] = g
      /\ \A i \in 1..k : Append(gs, g)[i] = gs[i]
  BY AppendProperties
<1>3. PICK place : Placed(frames, gs, place)
  BY DEF Match
<1>4. \A i \in 1..Len(frames) : place[i] \in 1..k /\ place[i] # k + 1
  BY <1>1, <1>3 DEF Placed
<1>5. place \in [1..Len(frames) -> 1..k + 1]
  BY <1>1, <1>3 DEF Placed
<1>6. ASSUME NEW q \in 1..k + 1
      PROVE  Append(gs, g)[q].mocks <=> \E i \in 1..Len(frames) : place[i] = q
  <2>1. CASE q = k + 1
    BY <1>2, <1>4, <2>1
  <2>2. CASE q \in 1..k
    BY <1>2, <1>3, <2>2 DEF Placed
  <2>3. QED
    BY <1>1, <2>1, <2>2
<1>7. Placed(frames, Append(gs, g), place)
  <2> HIDE DEF k
  <2>1. QED
    BY <1>2, <1>3, <1>4, <1>5, <1>6 DEF Placed
<1>8. QED
  BY <1>7 DEF Match

(* A group with a mockup_all is left: the nearest frame is its own. *)
LEMMA MatchPop ==
  ASSUME NEW frames \in Seq(Seq(Mockup)), NEW gs \in Seq(Fixtures), Match(frames, gs),
         gs # <<>>, LastOf(gs).mocks
  PROVE  /\ frames # <<>> /\ LastOf(frames) = LastOf(gs).list
         /\ Match(FrontOf(frames), FrontOf(gs))
<1>n. PICK n \in Nat : n = Len(frames)
  BY LenProperties
<1>k. PICK k \in Nat \ {0} : k = Len(gs)
  BY EmptySeq
<1>1. /\ LastOf(gs) = gs[k] /\ Len(FrontOf(gs)) = k - 1
      /\ \A i \in 1..k - 1 : FrontOf(gs)[i] = gs[i]
  BY <1>k, FrontType
<1>3. PICK place : Placed(frames, gs, place)
  BY DEF Match
<1>p. /\ place \in [1..n -> 1..k]
      /\ \A i, j \in 1..n : i < j => place[i] < place[j]
      /\ \A q \in 1..k : gs[q].mocks <=> \E i \in 1..n : place[i] = q
      /\ \A i \in 1..n : frames[i] = gs[place[i]].list
  BY <1>n, <1>k, <1>3 DEF Placed
<1>q. k \in 1..k
  OBVIOUS
<1>4. PICK i \in 1..n : place[i] = k
  <2>1. gs[k].mocks
    BY <1>1, Zenon
  <2>2. QED
    BY <1>p, <1>q, <2>1, Zenon
<1>5. i = n
  <2>1. SUFFICES ASSUME i < n PROVE FALSE
    BY <1>4
  <2>2. n \in 1..n /\ place[n] \in 1..k /\ place[i] < place[n]
    BY <1>p, <2>1
  <2>3. QED
    BY <1>4, <2>2
<1>6. n \in 1..n /\ n \in Nat \ {0} /\ place[n] = k
  BY <1>4, <1>5
<1>7. frames # <<>>
  BY <1>6, <1>n, EmptySeq
<1>8. /\ LastOf(frames) = frames[n] /\ Len(FrontOf(frames)) = n - 1
      /\ \A j \in 1..n - 1 : FrontOf(frames)[j] = frames[j]
  BY <1>n, <1>7, FrontType
<1>9. LastOf(frames) = LastOf(gs).list
  BY <1>1, <1>p, <1>6, <1>8, SMTT(30)
<1> DEFINE shorter == [j \in 1..n - 1 |-> place[j]]
<1>10. ASSUME NEW j \in 1..n - 1
       PROVE  j \in 1..n /\ shorter[j] = place[j] /\ place[j] \in 1..k - 1
  <2>1. j \in 1..n /\ j < n /\ shorter[j] = place[j]
    BY <1>6
  <2>2. place[j] \in 1..k /\ place[j] < place[n]
    BY <1>p, <1>6, <2>1
  <2>3. QED
    BY <1>6, <2>1, <2>2
<1>11. shorter \in [1..n - 1 -> 1..k - 1]
  BY <1>10
<1> HIDE DEF shorter
<1>12. \A j, m \in 1..n - 1 : j < m => shorter[j] < shorter[m]
  BY <1>p, <1>10
<1>13. ASSUME NEW q \in 1..k - 1
       PROVE  FrontOf(gs)[q].mocks <=> \E j \in 1..n - 1 : shorter[j] = q
  <2>1. FrontOf(gs)[q] = gs[q] /\ q \in 1..k /\ q # k
    BY <1>1
  <2>2. gs[q].mocks <=> \E j \in 1..n : place[j] = q
    BY <1>p, <2>1
  <2>3. \A j \in 1..n : place[j] = q => j \in 1..n - 1
    BY <1>6, <2>1
  <2>4. (\E j \in 1..n : place[j] = q) <=> \E j \in 1..n - 1 : shorter[j] = q
    BY <1>10, <2>3
  <2>5. QED
    BY <2>1, <2>2, <2>4
<1>14. ASSUME NEW j \in 1..n - 1 PROVE FrontOf(frames)[j] = FrontOf(gs)[shorter[j]].list
  <2>1. FrontOf(frames)[j] = gs[place[j]].list
    BY <1>p, <1>8, <1>10
  <2>2. FrontOf(gs)[shorter[j]] = gs[place[j]]
    BY <1>1, <1>10
  <2>3. QED
    BY <2>1, <2>2
<1>15. Placed(FrontOf(frames), FrontOf(gs), shorter)
  BY <1>1, <1>8, <1>11, <1>12, <1>13, <1>14 DEF Placed
<1>16. QED
  BY <1>7, <1>9, <1>15 DEF Match

(* A group without one is left. *)
LEMMA MatchPlainPop ==
  ASSUME NEW frames, NEW gs \in Seq(Fixtures), Len(frames) \in Nat, Match(frames, gs),
         gs # <<>>, ~LastOf(gs).mocks
  PROVE  Match(frames, FrontOf(gs))
<1>k. PICK k \in Nat \ {0} : k = Len(gs)
  BY EmptySeq
<1>1. /\ LastOf(gs) = gs[k] /\ Len(FrontOf(gs)) = k - 1
      /\ \A i \in 1..k - 1 : FrontOf(gs)[i] = gs[i]
  BY <1>k, FrontType
<1>3. PICK place : Placed(frames, gs, place)
  BY DEF Match
<1>p. /\ place \in [1..Len(frames) -> 1..k]
      /\ \A q \in 1..k : gs[q].mocks <=> \E i \in 1..Len(frames) : place[i] = q
  BY <1>k, <1>3 DEF Placed
<1>4. ASSUME NEW i \in 1..Len(frames) PROVE place[i] \in 1..k - 1
  <2>1. place[i] \in 1..k /\ place[i] # k
    BY <1>1, <1>p
  <2>2. QED
    BY <2>1
<1>5. place \in [1..Len(frames) -> 1..k - 1]
  BY <1>p, <1>4
<1>6. ASSUME NEW q \in 1..k - 1
      PROVE  FrontOf(gs)[q].mocks <=> \E i \in 1..Len(frames) : place[i] = q
  <2>1. FrontOf(gs)[q] = gs[q] /\ q \in 1..k
    BY <1>1
  <2>2. QED
    BY <1>p, <2>1
<1>7. ASSUME NEW i \in 1..Len(frames) PROVE frames[i] = FrontOf(gs)[place[i]].list
  BY <1>1, <1>3, <1>4 DEF Placed
<1>8. Placed(frames, FrontOf(gs), place)
  BY <1>1, <1>3, <1>5, <1>6, <1>7 DEF Placed
<1>9. QED
  BY <1>8 DEF Match

(* What the nearest frame is. *)
LEMMA TopFrame ==
  ASSUME NEW frames \in Seq(Seq(Mockup)), NEW gs \in Seq(Fixtures), Match(frames, gs)
  PROVE  /\ frames = <<>> => \A q \in 1..Len(gs) : ~gs[q].mocks
         /\ frames # <<>> =>
              \E k \in 1..Len(gs) :
                /\ gs[k].mocks /\ gs[k].list = LastOf(frames)
                /\ \A q \in k + 1..Len(gs) : ~gs[q].mocks
<1>n. PICK n \in Nat : n = Len(frames)
  BY LenProperties
<1>k. Len(gs) \in Nat
  BY LenProperties
<1>3. PICK place : Placed(frames, gs, place)
  BY DEF Match
<1>p. /\ place \in [1..n -> 1..Len(gs)]
      /\ \A i, j \in 1..n : i < j => place[i] < place[j]
      /\ \A q \in 1..Len(gs) : gs[q].mocks <=> \E i \in 1..n : place[i] = q
      /\ \A i \in 1..n : frames[i] = gs[place[i]].list
  BY <1>n, <1>3 DEF Placed
<1>1. CASE frames = <<>>
  <2>1. n = 0
    BY <1>1, <1>n
  <2>2. QED
    BY <1>1, <1>p, <2>1
<1>2. CASE frames # <<>>
  <2>1. n \in 1..n /\ n \in Nat \ {0} /\ LastOf(frames) = frames[n]
    BY <1>2, <1>n, EmptySeq DEF LastOf
  <2>2. place[n] \in 1..Len(gs) /\ gs[place[n]].mocks /\ gs[place[n]].list = LastOf(frames)
    BY <1>p, <2>1
  <2>3. ASSUME NEW q \in place[n] + 1..Len(gs), gs[q].mocks PROVE FALSE
    <3>1. q \in 1..Len(gs) /\ q > place[n]
      BY <1>k, <2>2
    <3>2. PICK i \in 1..n : place[i] = q
      BY <1>p, <2>3, <3>1
    <3>3. CASE i = n
      BY <2>2, <3>1, <3>2, <3>3
    <3>4. CASE i < n
      <4>1. place[i] < place[n]
        BY <1>p, <2>1, <3>4
      <4>2. QED
        BY <2>2, <3>1, <3>2, <4>1
    <3>5. QED
      BY <3>3, <3>4
  <2>4. QED
    BY <1>2, <2>2, <2>3
<1>4. QED
  BY <1>1, <1>2

LEMMA NextMatch ==
  ASSUME TypeOK, Match(mMockupRevert, groups), [Next]_vars
  PROVE  Match(mMockupRevert, groups)'
<1>1. groups \in Seq(Fixtures) /\ mMockupRevert \in Seq(Seq(Mockup)) /\ Len(mMockupRevert) \in Nat
  BY LenProperties DEF TypeOK
<1>2. CASE EnterMockingGroup
  <2>1. PICK l \in Lists :
          /\ groups' = Append(groups, [mocks |-> TRUE, list |-> l])
          /\ mMockupRevert' = Append(mMockupRevert, l)
    BY <1>2 DEF EnterMockingGroup, PushFrame
  <2> DEFINE g == [mocks |-> TRUE, list |-> l]
  <2>2. l \in Seq(Mockup) /\ g \in Fixtures /\ g.mocks /\ g.list = l
    BY ListsAreSequences DEF Fixtures
  <2> HIDE DEF g
  <2>3. Match(Append(mMockupRevert, l), Append(groups, g))
    BY <1>1, <2>2, MatchPush
  <2>4. QED
    BY <2>1, <2>3 DEF g
<1>3. CASE EnterPlainGroup
  <2>1. groups' = Append(groups, Plain) /\ mMockupRevert' = mMockupRevert
    BY <1>3 DEF EnterPlainGroup
  <2>2. Plain \in Fixtures /\ ~Plain.mocks
    BY PlainHasNoMockups DEF Plain
  <2>3. QED
    BY <1>1, <2>1, <2>2, MatchPlain
<1>4. CASE LeaveMockingGroup
  BY <1>1, <1>4, MatchPop DEF LeaveMockingGroup
<1>5. CASE LeavePlainGroup
  BY <1>1, <1>5, MatchPlainPop DEF LeavePlainGroup
<1>6. CASE StartTest \/ EndTest \/ UNCHANGED vars
  BY <1>6 DEF StartTest, EndTest, vars
<1>7. QED
  BY <1>2, <1>3, <1>4, <1>5, <1>6 DEF Next

LEMMA InitMatch == Init => Match(mMockupRevert, groups)
<1>1. SUFFICES ASSUME Init PROVE Match(mMockupRevert, groups)
  OBVIOUS
<1>2. Len(mMockupRevert) = 0 /\ Len(groups) = 0
  BY <1>1 DEF Init
<1>3. Placed(mMockupRevert, groups, <<>>)
  <2>1. <<>> \in [1..0 -> 1..0]
    OBVIOUS
  <2>2. 1..0 = {}
    OBVIOUS
  <2>3. QED
    BY <1>2, <2>1, <2>2 DEF Placed
<1>4. QED
  BY <1>3 DEF Match

(* The code pops one frame for each mocking group it leaves and keeps no other
   record: the frames are those of the open groups for any nesting. *)
THEOREM FramesFollowGroups == Spec => []FramesAreOpenGroups
<1>1. Match(mMockupRevert, groups) /\ TypeOK /\ [Next]_vars => Match(mMockupRevert, groups)'
  BY NextMatch
<1>2. Spec => []Match(mMockupRevert, groups)
  BY <1>1, InitMatch, MockupTypes, PTL DEF Spec
<1>3. QED
  BY <1>2, MatchIsFrames, PTL

(***************************************************************************)
(* For the files Narrowing describes, MockupStack implements MockupScope:  *)
(* pushing, popping and re-running frames and storing originals back puts  *)
(* in every pointer the mockup of the test, else of the innermost group    *)
(* that mocks the function, else the function.                             *)
(***************************************************************************)

(* Where the scopes of the groups gs send a call to f. *)
ScopesOf(gs) == [i \in 1..Len(gs) |-> AsFunction(gs[i].list)]
Seen(gs, f) == Scope!Innermost(ScopesOf(gs), f)
SeenFrom(gs) == [f \in Funs |-> Seen(gs, f)]

LEMMA AsFunctionType ==
  ASSUME NEW l \in Seq(Mockup)
  PROVE  /\ AsFunction(l) \in Scope!PartialFuns
         /\ DOMAIN AsFunction(l) = Mocked(l) /\ Mocked(l) \subseteq Funs
<1>1. [g \in Funs |-> original] \in Pointers
  BY DEF Pointers
<1>2. /\ Mocked(l) \subseteq Funs
      /\ \A f \in Mocked(l) : RunMockups([g \in Funs |-> original], l)[f] \in Bodies
  BY <1>1, RunMockupsType
<1>3. AsFunction(l) \in [Mocked(l) -> Bodies]
  BY <1>2 DEF AsFunction
<1>4. QED
  BY <1>2, <1>3 DEF Scope!PartialFuns

(* What a mockup stores does not depend on what the pointer held. *)
LEMMA RunMockupsIs ==
  ASSUME NEW p, NEW l \in Seq(Mockup), NEW f \in Funs
  PROVE  RunMockups(p, l)[f] = IF f \in Mocked(l) THEN AsFunction(l)[f] ELSE p[f]
<1>1. CASE f \in Mocked(l)
  BY <1>1 DEF RunMockups, AsFunction
<1>2. CASE f \notin Mocked(l)
  BY <1>2 DEF RunMockups
<1>3. QED
  BY <1>1, <1>2

(* Run again, a frame that mocks each function once stores the same. *)
LEMMA RerunIs ==
  ASSUME NEW p, NEW s \in Seq(Seq(Mockup)), s # <<>>, Distinct(LastOf(s)), NEW f \in Funs
  PROVE  RerunNearest(p, s)[f] =
           IF f \in Mocked(LastOf(s)) THEN AsFunction(LastOf(s))[f] ELSE p[f]
<1>1. LastOf(s) \in Seq(Mockup)
  BY FrontType
<1>2. PICK l \in Seq(Mockup) : l = LastOf(s)
  BY <1>1
<1>3. CASE f \in Mocked(l)
  <2>1. PICK i \in 1..Len(l) : l[i].fn = f
    BY <1>3 DEF Mocked
  <2>2. \A j \in 1..Len(l) : l[j].fn = f <=> j = i
    BY <1>2, <2>1 DEF Distinct
  <2>3. Len(l) \in Nat /\ i \in Nat /\ i <= i
    BY <2>1, LenProperties
  <2>4. (CHOOSE k \in 1..Len(l) : l[k].fn = f /\ \A j \in 1..Len(l) : l[j].fn = f => k <= j) = i
    BY <2>1, <2>2, <2>3
  <2>5. (CHOOSE k \in 1..Len(l) : l[k].fn = f /\ \A j \in 1..Len(l) : l[j].fn = f => j <= k) = i
    BY <2>1, <2>2, <2>3
  <2>6. RerunNearest(p, s)[f] = l[i].body
    BY <1>2, <1>3, <2>4 DEF RerunNearest
  <2>7. AsFunction(l)[f] = l[i].body
    BY <1>3, <2>5 DEF AsFunction, RunMockups
  <2>8. QED
    BY <1>2, <1>3, <2>6, <2>7
<1>4. CASE f \notin Mocked(l)
  BY <1>2, <1>4 DEF RerunNearest
<1>5. QED
  BY <1>2, <1>3, <1>4

-----------------------------------------------------------------------------
(***************************************************************************)
(* The innermost scope                                                     *)
(***************************************************************************)

LEMMA GroupLists ==
  ASSUME NEW gs \in Seq(Fixtures)
  PROVE  /\ Len(gs) \in Nat
         /\ \A i \in 1..Len(gs) :
              /\ gs[i].list \in Seq(Mockup)
              /\ ~gs[i].mocks => Mocked(gs[i].list) = {}
              /\ ScopesOf(gs)[i] = AsFunction(gs[i].list)
              /\ DOMAIN ScopesOf(gs)[i] = Mocked(gs[i].list)
         /\ Len(ScopesOf(gs)) = Len(gs)
<1>1. Len(gs) \in Nat
  BY LenProperties
<1>2. ASSUME NEW i \in 1..Len(gs)
      PROVE  /\ gs[i].list \in Seq(Mockup)
             /\ ~gs[i].mocks => Mocked(gs[i].list) = {}
             /\ ScopesOf(gs)[i] = AsFunction(gs[i].list)
             /\ DOMAIN ScopesOf(gs)[i] = Mocked(gs[i].list)
  <2>1. gs[i] \in Fixtures
    BY ElementOfSeq
  <2>2. gs[i].list \in Seq(Mockup) /\ (~gs[i].mocks => gs[i].list = <<>>)
    BY <2>1, FixtureType
  <2>3. Mocked(<<>>) = {}
    BY DEF Mocked
  <2>4. ScopesOf(gs)[i] = AsFunction(gs[i].list)
    BY DEF ScopesOf
  <2>5. QED
    BY <2>2, <2>3, <2>4, AsFunctionType
<1>3. Len(ScopesOf(gs)) = Len(gs)
  BY <1>1 DEF ScopesOf
<1>4. QED
  BY <1>1, <1>2, <1>3

LEMMA SeenIs ==
  ASSUME NEW gs \in Seq(Fixtures), NEW f, NEW k \in 1..Len(gs), f \in Mocked(gs[k].list),
         \A j \in k + 1..Len(gs) : f \notin Mocked(gs[j].list)
  PROVE  Seen(gs, f) = AsFunction(gs[k].list)[f]
<1> DEFINE mocking == {i \in 1..Len(ScopesOf(gs)) : f \in DOMAIN ScopesOf(gs)[i]}
<1>1. mocking = {i \in 1..Len(gs) : f \in Mocked(gs[i].list)}
  BY GroupLists
<1>2. k \in mocking /\ Len(gs) \in Nat
  BY <1>1, GroupLists
<1>3. ASSUME NEW j \in mocking PROVE j <= k
  BY <1>1, <1>2, <1>3
<1>4. \A i \in mocking : (\A j \in mocking : j <= i) => i = k
  <2>1. \A i \in mocking : i \in Int
    BY <1>1, <1>2
  <2> HIDE DEF mocking
  <2>2. QED
    BY <1>2, <1>3, <2>1
<1>5. (CHOOSE i \in mocking : \A j \in mocking : j <= i) = k
  <2> HIDE DEF mocking
  <2>1. QED
    BY <1>2, <1>3, <1>4
<1>6. Seen(gs, f) = ScopesOf(gs)[CHOOSE i \in mocking : \A j \in mocking : j <= i][f]
  BY <1>2 DEF Seen, Scope!Innermost
<1>7. QED
  BY <1>5, <1>6, GroupLists

LEMMA SeenNone ==
  ASSUME NEW gs \in Seq(Fixtures), NEW f, \A j \in 1..Len(gs) : f \notin Mocked(gs[j].list)
  PROVE  Seen(gs, f) = original
<1>1. {i \in 1..Len(ScopesOf(gs)) : f \in DOMAIN ScopesOf(gs)[i]} = {}
  BY GroupLists
<1>2. QED
  BY <1>1 DEF Seen, Scope!Innermost

(* One more group hides what it mocks and nothing else. *)
LEMMA SeenStep ==
  ASSUME NEW gs \in Seq(Fixtures), NEW hs \in Seq(Fixtures), NEW f,
         Len(hs) = Len(gs) + 1, \A i \in 1..Len(gs) : hs[i] = gs[i]
  PROVE  Seen(hs, f) = IF f \in Mocked(hs[Len(hs)].list)
                       THEN AsFunction(hs[Len(hs)].list)[f] ELSE Seen(gs, f)
<1>n. PICK n \in Nat : n = Len(gs) /\ Len(hs) = n + 1
  BY GroupLists
<1>1. CASE f \in Mocked(hs[Len(hs)].list)
  <2>1. n + 1 \in 1..Len(hs) /\ n + 1 + 1..Len(hs) = {}
    BY <1>n
  <2>2. QED
    BY <1>1, <1>n, <2>1, SeenIs
<1>2. CASE f \notin Mocked(hs[Len(hs)].list)
  <2> DEFINE T == {i \in 1..n : f \in Mocked(gs[i].list)}
  <2>1. CASE T = {}
    <3>1. \A j \in 1..Len(gs) : f \notin Mocked(gs[j].list)
      BY <1>n, <2>1
    <3>2. \A j \in 1..Len(hs) : f \notin Mocked(hs[j].list)
      BY <1>2, <1>n, <3>1
    <3>3. QED
      BY <1>2, <3>1, <3>2, SeenNone
  <2>2. CASE T # {}
    <3>1. T \in SUBSET (1..n)
      OBVIOUS
    <3>2. PICK k \in T : \A j \in T : j <= k
      <4> HIDE DEF T
      <4>1. QED
        BY <2>2, <3>1, LastPlace
    <3>3. k \in 1..Len(gs) /\ k \in 1..Len(hs) /\ f \in Mocked(gs[k].list) /\ hs[k] = gs[k]
      BY <1>n, <3>2
    <3>4. \A j \in k + 1..Len(gs) : f \notin Mocked(gs[j].list)
      BY <1>n, <3>2
    <3>5. ASSUME NEW j \in k + 1..Len(hs) PROVE f \notin Mocked(hs[j].list)
      <4>1. j = n + 1 \/ (j \in k + 1..Len(gs) /\ j \in 1..Len(gs))
        BY <1>n, <3>3
      <4>2. QED
        BY <1>2, <1>n, <3>4, <4>1
    <3>6. Seen(gs, f) = AsFunction(gs[k].list)[f]
      BY <3>3, <3>4, SeenIs
    <3>7. Seen(hs, f) = AsFunction(hs[k].list)[f]
      BY <3>3, <3>5, SeenIs
    <3>8. QED
      BY <1>2, <3>3, <3>6, <3>7
  <2>3. QED
    BY <2>1, <2>2
<1>3. QED
  BY <1>1, <1>2

(* What the nearest frame mocks is seen, and the function itself when no frame
   mocks it. *)
LEMMA SeenFrames ==
  ASSUME NEW frames \in Seq(Seq(Mockup)), NEW gs \in Seq(Fixtures), Match(frames, gs), NEW f
  PROVE  /\ frames # <<>> /\ f \in Mocked(LastOf(frames)) =>
              Seen(gs, f) = AsFunction(LastOf(frames))[f]
         /\ (\A i \in 1..Len(frames) : f \notin Mocked(frames[i])) => Seen(gs, f) = original
<1>1. ASSUME frames # <<>>, f \in Mocked(LastOf(frames))
      PROVE  Seen(gs, f) = AsFunction(LastOf(frames))[f]
  <2>1. PICK k \in 1..Len(gs) :
          /\ gs[k].mocks /\ gs[k].list = LastOf(frames)
          /\ \A q \in k + 1..Len(gs) : ~gs[q].mocks
    BY <1>1, TopFrame
  <2>2. \A q \in k + 1..Len(gs) : q \in 1..Len(gs)
    BY GroupLists
  <2>3. \A q \in k + 1..Len(gs) : f \notin Mocked(gs[q].list)
    BY <2>1, <2>2, GroupLists
  <2>4. f \in Mocked(gs[k].list)
    BY <1>1, <2>1
  <2>5. Seen(gs, f) = AsFunction(gs[k].list)[f]
    BY <2>3, <2>4, SeenIs
  <2>6. QED
    BY <2>1, <2>5
<1>2. ASSUME \A i \in 1..Len(frames) : f \notin Mocked(frames[i])
      PROVE  Seen(gs, f) = original
  <2>1. PICK place : Placed(frames, gs, place)
    BY DEF Match
  <2>2. ASSUME NEW q \in 1..Len(gs) PROVE f \notin Mocked(gs[q].list)
    <3>1. CASE gs[q].mocks
      <4>1. PICK i \in 1..Len(frames) : place[i] = q
        BY <2>1, <3>1 DEF Placed
      <4>2. frames[i] = gs[q].list
        BY <2>1, <4>1 DEF Placed
      <4>3. QED
        BY <1>2, <4>1, <4>2
    <3>2. CASE ~gs[q].mocks
      BY <3>2, GroupLists
    <3>3. QED
      BY <3>1, <3>2
  <2>3. QED
    BY <2>2, SeenNone
<1>3. QED
  BY <1>1, <1>2

-----------------------------------------------------------------------------
(***************************************************************************)
(* The invariant                                                           *)
(***************************************************************************)

(* Between tests every pointer of the groups' process holds what is seen from
   the open groups; inline, a running test may hide it. *)
PointersSeen ==
  \A f \in Funs : \/ fp["parent"][f] = Seen(groups, f)
                  \/ test.running /\ ~usingFork /\ f \in Mocked(test.list)

NarrowInv ==
  /\ TypeOK /\ Match(mMockupRevert, groups) /\ Narrowing
  /\ test.mocks \/ test.list = <<>>
  /\ PointersSeen

LEMMA VisibleIsSeen == Scope!Visible(Scopes) = SeenFrom(groups)
BY DEF Scope!Visible, Scopes, ScopesOf, Seen, SeenFrom

(* An empty list mocks nothing. *)
LEMMA NothingMocked == AsFunction(<<>>) = Scope!NoMockups
<1>1. Mocked(<<>>) = {}
  BY DEF Mocked
<1>2. QED
  BY <1>1 DEF AsFunction, Scope!NoMockups

(* What is seen in the parent when no test hides it. *)
LEMMA Settled ==
  ASSUME NarrowInv, ~test.running \/ usingFork
  PROVE  fp["parent"] = SeenFrom(groups)
<1>1. fp["parent"] \in Pointers
  BY DEF NarrowInv, TypeOK, Pointers, Procs
<1>2. \A f \in Funs : fp["parent"][f] = Seen(groups, f)
  BY DEF NarrowInv, PointersSeen
<1>3. QED
  BY <1>1, <1>2 DEF Pointers, SeenFrom

(* The pointers after a mocking group is entered. *)
LEMMA EnterSeen ==
  ASSUME NEW gs \in Seq(Fixtures), NEW g \in Fixtures
  PROVE  /\ RunMockups(SeenFrom(gs), g.list) = SeenFrom(Append(gs, g))
         /\ Mocked(g.list) = {} => SeenFrom(gs) = SeenFrom(Append(gs, g))
         /\ ScopesOf(Append(gs, g)) = Append(ScopesOf(gs), AsFunction(g.list))
<1> DEFINE p == SeenFrom(gs)
<1>l. PICK l \in Seq(Mockup) : l = g.list
  BY FixtureType
<1> DEFINE hs == Append(gs, g)
<1>1. /\ hs \in Seq(Fixtures) /\ Len(hs) = Len(gs) + 1 /\ hs[Len(gs) + 1] = g
      /\ \A i \in 1..Len(gs) : hs[i] = gs[i]
  BY AppendProperties
<1> HIDE DEF hs
<1>2. ASSUME NEW f \in Funs
      PROVE  Seen(hs, f) = IF f \in Mocked(l) THEN AsFunction(l)[f] ELSE Seen(gs, f)
  BY <1>1, <1>l, SeenStep
<1>3. ASSUME NEW f \in Funs PROVE RunMockups(p, l)[f] = Seen(hs, f)
  BY <1>2, RunMockupsIs DEF SeenFrom
<1>4. RunMockups(p, l) = SeenFrom(hs)
  BY <1>3 DEF RunMockups, SeenFrom
<1>5. Mocked(l) = {} => p = SeenFrom(hs)
  BY <1>2 DEF SeenFrom
<1>6. ScopesOf(hs) = Append(ScopesOf(gs), AsFunction(l))
  <2>1. \A ks \in Seq(Fixtures) : ScopesOf(ks) \in Seq(Scope!PartialFuns)
                                  /\ Len(ScopesOf(ks)) = Len(ks)
    <3>1. SUFFICES ASSUME NEW ks \in Seq(Fixtures)
                   PROVE  ScopesOf(ks) \in Seq(Scope!PartialFuns) /\ Len(ScopesOf(ks)) = Len(ks)
      OBVIOUS
    <3>2. \A i \in 1..Len(ks) : AsFunction(ks[i].list) \in Scope!PartialFuns
      BY GroupLists, AsFunctionType
    <3>3. Len(ks) \in Nat
      BY GroupLists
    <3>4. QED
      BY <3>2, <3>3 DEF ScopesOf
  <2>2. AsFunction(l) \in Scope!PartialFuns
    BY AsFunctionType
  <2>3. /\ Append(ScopesOf(gs), AsFunction(l)) \in Seq(Scope!PartialFuns)
        /\ Len(Append(ScopesOf(gs), AsFunction(l))) = Len(gs) + 1
        /\ \A i \in 1..Len(gs) : Append(ScopesOf(gs), AsFunction(l))[i] = ScopesOf(gs)[i]
        /\ Append(ScopesOf(gs), AsFunction(l))[Len(gs) + 1] = AsFunction(l)
    BY <2>1, <2>2, AppendProperties
  <2>4. ScopesOf(hs) \in Seq(Scope!PartialFuns) /\ Len(ScopesOf(hs)) = Len(gs) + 1
    BY <1>1, <2>1
  <2>5. ASSUME NEW i \in 1..Len(gs) + 1
        PROVE  ScopesOf(hs)[i] = Append(ScopesOf(gs), AsFunction(l))[i]
    <3>1. ScopesOf(hs)[i] = AsFunction(hs[i].list)
      BY <1>1 DEF ScopesOf
    <3>2. CASE i = Len(gs) + 1
      BY <1>1, <1>l, <2>3, <3>1, <3>2
    <3>3. CASE i \in 1..Len(gs)
      <4>1. ScopesOf(gs)[i] = AsFunction(gs[i].list)
        BY <3>3 DEF ScopesOf
      <4>2. QED
        BY <1>1, <2>3, <3>1, <3>3, <4>1
    <3>4. i = Len(gs) + 1 \/ i \in 1..Len(gs)
      <4>1. Len(gs) \in Nat
        BY GroupLists
      <4>2. QED
        BY <4>1
    <3>5. QED
      BY <3>2, <3>3, <3>4
  <2>6. QED
    BY <2>3, <2>4, <2>5, SeqEqual
<1>7. QED
  BY <1>l, <1>4, <1>5, <1>6 DEF hs

(* The pointers after a mocking group is left: the nearest frame runs again,
   or the originals come back if it was the last one. *)
LEMMA LeaveSeen ==
  ASSUME NEW p, NEW frames \in Seq(Seq(Mockup)), NEW gs \in Seq(Fixtures),
         Match(frames, gs), gs # <<>>, LastOf(gs).mocks,
         \A i \in 1..Len(frames) : Distinct(frames[i]),
         \A i \in 1..Len(frames) - 1 : Mocked(frames[i + 1]) \subseteq Mocked(frames[i]),
         p = SeenFrom(gs),
         NEW f \in Funs
  PROVE  (IF FrontOf(frames) = <<>> THEN RunOriginals(p, LastOf(gs).list)
                                    ELSE RerunNearest(p, FrontOf(frames)))[f]
           = Seen(FrontOf(gs), f)
<1> DEFINE fs == FrontOf(frames)
           hs == FrontOf(gs)
           l  == LastOf(gs).list
<1>1. frames # <<>> /\ LastOf(frames) = l /\ Match(fs, hs)
  BY MatchPop
<1>2. fs \in Seq(Seq(Mockup)) /\ hs \in Seq(Fixtures)
  BY <1>1, FrontType
<1>n. PICK n \in Nat \ {0} : n = Len(frames)
  BY <1>1, EmptySeq
<1>3. frames[n] = l /\ Len(fs) = n - 1 /\ \A i \in 1..n - 1 : fs[i] = frames[i]
  BY <1>1, <1>n, FrontType
<1>4. Seen(gs, f) = IF f \in Mocked(l) THEN AsFunction(l)[f] ELSE Seen(hs, f)
  <2>1. /\ Len(gs) = Len(hs) + 1 /\ gs[Len(gs)] = LastOf(gs)
        /\ \A i \in 1..Len(hs) : gs[i] = hs[i]
    <3>1. /\ Len(gs) \in Nat \ {0} /\ Len(hs) = Len(gs) - 1 /\ gs[Len(gs)] = LastOf(gs)
          /\ \A i \in 1..Len(gs) - 1 : hs[i] = gs[i]
      BY FrontType
    <3>2. QED
      BY <3>1
  <2>2. QED
    BY <1>2, <2>1, SeenStep
<1>5. CASE fs = <<>>
  <2>1. Seen(hs, f) = original
    <3>1. \A i \in 1..Len(fs) : f \notin Mocked(fs[i])
      BY <1>5
    <3>2. QED
      BY <1>1, <1>2, <3>1, SeenFrames
  <2>2. RunOriginals(p, l)[f] = IF f \in Mocked(l) THEN original ELSE Seen(gs, f)
    BY DEF RunOriginals, SeenFrom
  <2>3. QED
    BY <1>4, <1>5, <2>1, <2>2
<1>6. CASE fs # <<>>
  <2>1. n - 1 \in 1..n - 1 /\ n - 1 \in 1..n /\ LastOf(fs) = frames[n - 1]
    <3>1. Len(fs) \in Nat \ {0} /\ LastOf(fs) = fs[Len(fs)]
      BY <1>2, <1>6, FrontType
    <3>2. QED
      BY <1>3, <3>1
  <2>2. Distinct(LastOf(fs))
    BY <1>n, <2>1
  <2>3. Mocked(l) \subseteq Mocked(LastOf(fs))
    <3>1. n - 1 + 1 = n
      OBVIOUS
    <3>2. Mocked(frames[n - 1 + 1]) \subseteq Mocked(frames[n - 1])
      BY <1>n, <2>1
    <3>3. QED
      BY <1>3, <2>1, <3>1, <3>2
  <2>4. RerunNearest(p, fs)[f] =
          IF f \in Mocked(LastOf(fs)) THEN AsFunction(LastOf(fs))[f] ELSE p[f]
    BY <1>2, <1>6, <2>2, RerunIs
  <2>5. f \in Mocked(LastOf(fs)) => Seen(hs, f) = AsFunction(LastOf(fs))[f]
    BY <1>1, <1>2, <1>6, SeenFrames
  <2>6. f \notin Mocked(LastOf(fs)) => p[f] = Seen(hs, f)
    BY <1>4, <2>3 DEF SeenFrom
  <2>7. QED
    BY <1>6, <2>4, <2>5, <2>6
<1>7. QED
  BY <1>5, <1>6

(* The pointers of the process of a test after its opposite steps, where they
   are the ones all tests share. *)
LEMMA EndSeen ==
  ASSUME NarrowInv, test.running, ~usingFork, NEW f \in Funs
  PROVE  AfterTest(fp["parent"])[f] = Seen(groups, f)
<1> DEFINE p == fp["parent"]
           s == mMockupRevert
<1>1. s \in Seq(Seq(Mockup)) /\ groups \in Seq(Fixtures) /\ Match(s, groups)
  BY DEF NarrowInv, TypeOK
<1>2. p[f] = Seen(groups, f) \/ f \in Mocked(test.list)
  BY DEF NarrowInv, PointersSeen
<1>3. CASE ~test.mocks
  <2>1. Mocked(test.list) = {}
    BY <1>3 DEF NarrowInv, Mocked
  <2>2. QED
    BY <1>2, <1>3, <2>1 DEF AfterTest
<1>4. CASE test.mocks
  <2> DEFINE q == RunOriginals(p, test.list)
  <2>1. q[f] = IF f \in Mocked(test.list) THEN original ELSE p[f]
    BY DEF RunOriginals
  <2>2. AfterTest(p) = RerunNearest(q, s)
    BY <1>4 DEF AfterTest
  <2>3. CASE s = <<>>
    <3>1. Seen(groups, f) = original
      <4>1. \A i \in 1..Len(s) : f \notin Mocked(s[i])
        BY <2>3
      <4>2. QED
        BY <1>1, <4>1, SeenFrames
    <3>2. RerunNearest(q, s) = q
      BY <2>3 DEF RerunNearest
    <3>3. QED
      BY <1>2, <2>1, <2>2, <3>1, <3>2
  <2>4. CASE s # <<>>
    <3>1. Len(s) \in 1..Len(s) /\ LastOf(s) = s[Len(s)]
      BY <1>1, <2>4, EmptySeq DEF LastOf
    <3>2. Distinct(LastOf(s))
      BY <3>1 DEF NarrowInv, Narrowing
    <3>3. RerunNearest(q, s)[f] =
            IF f \in Mocked(LastOf(s)) THEN AsFunction(LastOf(s))[f] ELSE q[f]
      <4> HIDE DEF q
      <4>1. QED
        BY <1>1, <2>4, <3>2, RerunIs
    <3>4. CASE f \in Mocked(LastOf(s))
      BY <1>1, <2>2, <2>4, <3>3, <3>4, SeenFrames
    <3>5. CASE f \notin Mocked(LastOf(s)) /\ f \in Mocked(test.list)
      <4>1. \A i \in 1..Len(s) : f \notin Mocked(s[i])
        BY <3>5 DEF NarrowInv, Narrowing
      <4>2. Seen(groups, f) = original
        BY <1>1, <4>1, SeenFrames
      <4>3. QED
        BY <2>1, <2>2, <3>3, <3>5, <4>2
    <3>6. CASE f \notin Mocked(LastOf(s)) /\ f \notin Mocked(test.list)
      BY <1>2, <2>1, <2>2, <3>3, <3>6
    <3>7. QED
      BY <3>4, <3>5, <3>6
  <2>5. QED
    BY <2>3, <2>4
<1>5. QED
  BY <1>3, <1>4

-----------------------------------------------------------------------------
(***************************************************************************)
(* The steps                                                               *)
(***************************************************************************)

Callee == fp[IF test.running THEN Runner ELSE "parent"]

(* Entering and leaving groups: no test runs, and the parent holds what is
   seen from the groups that are open after the step. *)
LEMMA GroupStep ==
  ASSUME NarrowInv, ~test.running, test' = test, usingFork' = usingFork,
         fp'["parent"] = SeenFrom(groups')
  PROVE  PointersSeen' /\ Callee' = Scope!Visible(Scopes')
<1>1. PointersSeen'
  BY DEF PointersSeen, SeenFrom
<1>2. Callee' = fp'["parent"]
  BY DEF Callee
<1>3. Scope!Visible(Scopes') = SeenFrom(groups')
  BY DEF Scope!Visible, Scopes, ScopesOf, Seen, SeenFrom
<1>4. QED
  BY <1>1, <1>2, <1>3

LEMMA EnterGroupNarrow ==
  ASSUME NarrowInv, EnterMockingGroup \/ EnterPlainGroup
  PROVE  PointersSeen' /\ Scope!Open
<1>1. groups \in Seq(Fixtures) /\ fp \in [Procs -> Pointers]
  BY DEF NarrowInv, TypeOK, Pointers
<1>2. ~test.running /\ test' = test /\ usingFork' = usingFork
  BY DEF EnterMockingGroup, EnterPlainGroup
<1>3. fp["parent"] = SeenFrom(groups)
  BY <1>2, Settled
<1>4. PICK g \in Fixtures :
        /\ groups' = Append(groups, g)
        /\ \/ fp'["parent"] = RunMockups(fp["parent"], g.list)
           \/ Mocked(g.list) = {} /\ fp'["parent"] = fp["parent"]
  <2>1. CASE EnterMockingGroup
    <3>1. PICK l \in Lists :
            /\ groups' = Append(groups, [mocks |-> TRUE, list |-> l])
            /\ fp' = [fp EXCEPT !["parent"] = RunMockups(fp["parent"], l)]
      BY <2>1 DEF EnterMockingGroup
    <3>2. [mocks |-> TRUE, list |-> l] \in Fixtures
      BY DEF Fixtures
    <3>3. fp'["parent"] = RunMockups(fp["parent"], l)
      BY <1>1, <3>1 DEF Procs
    <3>4. QED
      BY <3>1, <3>2, <3>3
  <2>2. CASE EnterPlainGroup
    <3>1. Plain \in Fixtures /\ Mocked(Plain.list) = {}
      BY PlainHasNoMockups DEF Mocked
    <3>2. QED
      BY <2>2, <3>1 DEF EnterPlainGroup
  <2>3. QED
    BY <2>1, <2>2
<1>5. g.list \in Seq(Mockup)
  BY FixtureType
<1>6. /\ fp'["parent"] = SeenFrom(groups')
      /\ Scopes' = Append(Scopes, AsFunction(g.list))
  <2>2. /\ RunMockups(SeenFrom(groups), g.list) = SeenFrom(Append(groups, g))
        /\ Mocked(g.list) = {} => SeenFrom(groups) = SeenFrom(Append(groups, g))
        /\ ScopesOf(Append(groups, g)) = Append(ScopesOf(groups), AsFunction(g.list))
    BY <1>1, EnterSeen
  <2>3. Scopes = ScopesOf(groups) /\ Scopes' = ScopesOf(groups')
    BY DEF Scopes, ScopesOf
  <2>4. QED
    BY <1>3, <1>4, <2>2, <2>3
<1>7. AsFunction(g.list) \in Scope!PartialFuns
  BY <1>5, AsFunctionType
<1>8. PointersSeen' /\ Callee' = Scope!Visible(Scopes')
  BY <1>2, <1>6, GroupStep
<1>9. QED
  BY <1>2, <1>6, <1>7, <1>8 DEF Scope!Open, Callee

LEMMA LeaveGroupNarrow ==
  ASSUME NarrowInv, LeaveMockingGroup \/ LeavePlainGroup
  PROVE  PointersSeen' /\ Scope!Close
<1>1. /\ groups \in Seq(Fixtures) /\ fp \in [Procs -> Pointers]
      /\ mMockupRevert \in Seq(Seq(Mockup)) /\ Match(mMockupRevert, groups)
  BY DEF NarrowInv, TypeOK, Pointers
<1>2. /\ ~test.running /\ test' = test /\ usingFork' = usingFork
      /\ groups # <<>> /\ groups' = FrontOf(groups)
  BY DEF LeaveMockingGroup, LeavePlainGroup
<1>3. fp["parent"] = SeenFrom(groups)
  BY <1>2, Settled
<1>4. /\ Len(groups) \in Nat \ {0} /\ Len(groups') = Len(groups) - 1
      /\ \A i \in 1..Len(groups) - 1 : groups'[i] = groups[i]
      /\ LastOf(groups) = groups[Len(groups)] /\ groups' \in Seq(Fixtures)
  BY <1>1, <1>2, FrontType
<1>5. fp'["parent"] = SeenFrom(groups')
  <2>1. CASE LeaveMockingGroup
    <3> DEFINE p == fp["parent"]
               new == IF FrontOf(mMockupRevert) = <<>> THEN RunOriginals(p, LastOf(groups).list)
                      ELSE RerunNearest(p, FrontOf(mMockupRevert))
    <3>1. fp'["parent"] = new /\ LastOf(groups).mocks
      BY <1>1, <2>1 DEF LeaveMockingGroup, Revert, Procs
    <3>2. /\ \A i \in 1..Len(mMockupRevert) : Distinct(mMockupRevert[i])
          /\ \A i \in 1..Len(mMockupRevert) - 1 :
               Mocked(mMockupRevert[i + 1]) \subseteq Mocked(mMockupRevert[i])
      BY DEF NarrowInv, Narrowing
    <3>3. p = SeenFrom(groups)
      BY <1>3
    <3>4. ASSUME NEW f \in Funs PROVE new[f] = Seen(FrontOf(groups), f)
      <4> HIDE DEF p
      <4>1. QED
        BY <1>1, <1>2, <3>1, <3>2, <3>3, LeaveSeen
    <3>5. new = [f \in Funs |-> new[f]]
      <4>1. FrontOf(mMockupRevert) # <<>> =>
              RerunNearest(p, FrontOf(mMockupRevert)) \in Pointers
        BY <1>1, MatchPop, FrontType, RerunType, <1>2, <3>1 DEF Procs
      <4>2. RunOriginals(p, LastOf(groups).list) \in Pointers
        BY <1>1, OriginalsType DEF Procs
      <4>3. QED
        BY <4>1, <4>2 DEF Pointers
    <3>6. QED
      <4> HIDE DEF new
      <4>1. QED
        BY <1>2, <3>1, <3>4, <3>5 DEF SeenFrom
  <2>2. CASE LeavePlainGroup
    <3>1. Mocked(LastOf(groups).list) = {}
      <4>1. Len(groups) \in 1..Len(groups) /\ ~groups[Len(groups)].mocks
        BY <1>4, <2>2 DEF LeavePlainGroup
      <4>2. QED
        BY <1>1, <1>4, <4>1, GroupLists
    <3>2. \A f \in Funs : Seen(groups, f) = Seen(groups', f)
      <4>1. /\ Len(groups) = Len(groups') + 1
            /\ \A i \in 1..Len(groups') : groups[i] = groups'[i]
        BY <1>4
      <4>2. QED
        BY <1>1, <1>4, <3>1, <4>1, SeenStep
    <3>3. fp'["parent"] = fp["parent"]
      BY <2>2 DEF LeavePlainGroup
    <3>4. QED
      BY <1>3, <3>2, <3>3 DEF SeenFrom
  <2>3. QED
    BY <2>1, <2>2
<1>6. /\ Scopes # <<>>
      /\ Scopes' = SubSeq(Scopes, 1, Len(Scopes) - 1)
  <2>1. /\ Scopes = [i \in 1..Len(groups) |-> AsFunction(groups[i].list)]
        /\ Scopes' = [i \in 1..Len(groups) - 1 |-> AsFunction(groups'[i].list)]
        /\ Len(Scopes) = Len(groups)
    BY <1>4 DEF Scopes
  <2>2. SubSeq(Scopes, 1, Len(Scopes) - 1) = [i \in 1..Len(groups) - 1 |-> Scopes[i]]
    BY <1>4, <2>1
  <2>3. \A i \in 1..Len(groups) - 1 : Scopes[i] = AsFunction(groups'[i].list)
    BY <1>4, <2>1
  <2>4. QED
    BY <1>4, <2>1, <2>2, <2>3
<1>7. PointersSeen' /\ Callee' = Scope!Visible(Scopes')
  BY <1>2, <1>5, GroupStep
<1>8. QED
  BY <1>2, <1>6, <1>7 DEF Scope!Close, Callee

LEMMA StartTestNarrow ==
  ASSUME NarrowInv, StartTest
  PROVE  PointersSeen' /\ Scope!StartTest /\ (test'.mocks \/ test'.list = <<>>)
<1>1. fp \in [Procs -> Pointers] /\ Runner \in Procs /\ ~test.running
  BY DEF NarrowInv, TypeOK, Pointers, Procs, Runner, StartTest
<1>2. PICK m \in Fixtures :
        /\ test' = [mocks |-> m.mocks, list |-> m.list, running |-> TRUE]
        /\ fp' = [fp EXCEPT ![Runner] = RunMockups(fp["parent"], m.list)]
  BY DEF StartTest, TestPointers
<1>3. /\ test'.running /\ test'.list = m.list /\ test'.mocks = m.mocks
      /\ usingFork' = usingFork /\ groups' = groups
  BY <1>2 DEF StartTest
<1>4. m.list \in Seq(Mockup) /\ (~m.mocks => m.list = <<>>)
  BY FixtureType
<1>5. fp["parent"] = SeenFrom(groups)
  BY <1>1, Settled
<1>6. \A f \in Funs : RunMockups(fp["parent"], m.list)[f] =
        IF f \in Mocked(m.list) THEN AsFunction(m.list)[f] ELSE Seen(groups, f)
  <2>1. ASSUME NEW f \in Funs, NEW p, NEW l \in Seq(Mockup)
        PROVE  RunMockups(p, l)[f] = IF f \in Mocked(l) THEN AsFunction(l)[f] ELSE p[f]
    BY RunMockupsIs
  <2>2. \A f \in Funs : RunMockups(fp["parent"], m.list)[f] =
          IF f \in Mocked(m.list) THEN AsFunction(m.list)[f] ELSE fp["parent"][f]
    BY <1>4, <2>1
  <2>3. \A f \in Funs : fp["parent"][f] = Seen(groups, f)
    BY <1>5 DEF SeenFrom
  <2>4. QED
    BY <2>2, <2>3
<1>7. PointersSeen'
  <2>1. CASE usingFork
    <3>1. fp'["parent"] = fp["parent"]
      BY <1>1, <1>2, <2>1 DEF Runner
    <3>2. QED
      BY <1>3, <1>5, <3>1 DEF PointersSeen, SeenFrom
  <2>2. CASE ~usingFork
    <3>1. fp'["parent"] = RunMockups(fp["parent"], m.list)
      BY <1>1, <1>2, <2>2 DEF Runner
    <3>2. QED
      BY <1>3, <1>6, <2>2, <3>1 DEF PointersSeen
  <2>3. QED
    BY <2>1, <2>2
<1>8. Callee' = Scope!Overlay(Scope!Visible(Scopes), AsFunction(m.list))
  <2>1. Callee' = RunMockups(fp["parent"], m.list)
    BY <1>1, <1>2, <1>3 DEF Callee, Runner
  <2>2. DOMAIN AsFunction(m.list) = Mocked(m.list)
    BY <1>4, AsFunctionType
  <2>3. Scope!Visible(Scopes) = SeenFrom(groups)
    BY VisibleIsSeen
  <2>4. \A f \in Funs :
          RunMockups(fp["parent"], m.list)[f]
            = IF f \in DOMAIN AsFunction(m.list) THEN AsFunction(m.list)[f]
              ELSE Scope!Visible(Scopes)[f]
    BY <1>6, <2>2, <2>3 DEF SeenFrom
  <2>5. RunMockups(fp["parent"], m.list)
          = [f \in Funs |-> RunMockups(fp["parent"], m.list)[f]]
    BY DEF RunMockups
  <2>6. QED
    BY <2>1, <2>4, <2>5 DEF Scope!Overlay
<1>9. AsFunction(m.list) \in Scope!PartialFuns
  BY <1>4, AsFunctionType
<1>10. Scopes' = Scopes
  BY <1>3 DEF Scopes
<1>11. Scope!StartTest
  BY <1>1, <1>3, <1>8, <1>9, <1>10 DEF Scope!StartTest, Callee
<1>12. QED
  BY <1>3, <1>4, <1>7, <1>11

LEMMA EndTestNarrow ==
  ASSUME NarrowInv, EndTest
  PROVE  PointersSeen' /\ Scope!EndTest
<1>1. fp \in [Procs -> Pointers] /\ Runner \in Procs
  BY DEF NarrowInv, TypeOK, Pointers, Procs, Runner
<1>2. /\ test.running /\ ~test'.running /\ usingFork' = usingFork /\ groups' = groups
      /\ fp' = [fp EXCEPT ![Runner] = AfterTest(fp[Runner])]
  BY DEF EndTest, NoTest
<1>3. fp'["parent"] = SeenFrom(groups)
  <2>1. CASE usingFork
    <3>1. fp'["parent"] = fp["parent"]
      BY <1>1, <1>2, <2>1 DEF Runner
    <3>2. QED
      BY <2>1, <3>1, Settled
  <2>2. CASE ~usingFork
    <3>1. fp'["parent"] = AfterTest(fp["parent"])
      BY <1>1, <1>2, <2>2 DEF Runner
    <3>2. \A f \in Funs : AfterTest(fp["parent"])[f] = Seen(groups, f)
      BY <1>2, <2>2, EndSeen
    <3>3. AfterTest(fp["parent"]) \in Pointers
      <4>1. fp["parent"] \in Pointers /\ mMockupRevert \in Seq(Seq(Mockup))
        BY <1>1 DEF NarrowInv, TypeOK, Procs
      <4>2. QED
        BY <4>1, OriginalsType, RerunType DEF AfterTest
    <3>4. QED
      BY <3>1, <3>2, <3>3 DEF Pointers, SeenFrom
  <2>3. QED
    BY <2>1, <2>2
<1>4. PointersSeen'
  BY <1>2, <1>3 DEF PointersSeen, SeenFrom
<1>5. Callee' = fp'["parent"]
  BY <1>2 DEF Callee
<1>6. Scopes' = Scopes
  BY <1>2 DEF Scopes
<1>7. Scope!Visible(Scopes) = SeenFrom(groups)
  BY VisibleIsSeen
<1>8. AsFunction(test'.list) = Scope!NoMockups
  BY NothingMocked DEF EndTest, NoTest
<1>9. QED
  BY <1>2, <1>3, <1>4, <1>5, <1>6, <1>7, <1>8 DEF Scope!EndTest, Callee

LEMMA NextNarrow ==
  ASSUME NarrowInv, [Next /\ Narrowing']_vars
  PROVE  NarrowInv' /\ [Scope!ScopeNext]_(Scope!scopeVars)
<1>1. TypeOK' /\ Match(mMockupRevert, groups)'
  BY NextType, NextMatch DEF NarrowInv
<1>2. CASE UNCHANGED vars
  <2>1. Scopes' = Scopes /\ Callee' = Callee /\ test' = test
    BY <1>2 DEF vars, Scopes, Callee, Runner
  <2>2. PointersSeen' /\ Narrowing' /\ (test.mocks \/ test.list = <<>>)'
    BY <1>2 DEF vars, NarrowInv, PointersSeen, Narrowing
  <2>3. QED
    BY <1>1, <2>1, <2>2 DEF NarrowInv, Scope!scopeVars, Callee
<1>3. CASE Next /\ Narrowing'
  <2>1. CASE EnterMockingGroup \/ EnterPlainGroup
    <3>1. test' = test
      BY <2>1 DEF EnterMockingGroup, EnterPlainGroup
    <3>2. QED
      BY <1>1, <1>3, <2>1, <3>1, EnterGroupNarrow DEF NarrowInv, Scope!ScopeNext
  <2>2. CASE LeaveMockingGroup \/ LeavePlainGroup
    <3>1. test' = test
      BY <2>2 DEF LeaveMockingGroup, LeavePlainGroup
    <3>2. QED
      BY <1>1, <1>3, <2>2, <3>1, LeaveGroupNarrow DEF NarrowInv, Scope!ScopeNext
  <2>3. CASE StartTest
    BY <1>1, <1>3, <2>3, StartTestNarrow DEF NarrowInv, Scope!ScopeNext
  <2>4. CASE EndTest
    <3>1. test'.list = <<>>
      BY <2>4 DEF EndTest, NoTest
    <3>2. QED
      BY <1>1, <1>3, <2>4, <3>1, EndTestNarrow DEF NarrowInv, Scope!ScopeNext
  <2>5. QED
    BY <1>3, <2>1, <2>2, <2>3, <2>4 DEF Next
<1>4. QED
  BY <1>2, <1>3

LEMMA InitNarrow == Init => NarrowInv /\ Scope!ScopeInit
<1>1. SUFFICES ASSUME Init PROVE NarrowInv /\ Scope!ScopeInit
  OBVIOUS
<1>2. groups = <<>> /\ mMockupRevert = <<>> /\ test = NoTest
  BY <1>1 DEF Init
<1>3. fp["parent"] = [f \in Funs |-> original]
  BY <1>1 DEF Init, InitialPointers, Procs
<1>4. TypeOK
  BY <1>1, InitType
<1>5. Match(mMockupRevert, groups)
  BY <1>1, InitMatch
<1>6. Narrowing
  BY <1>2 DEF Narrowing, NoTest
<1>7. PointersSeen
  <2>1. \A f \in Funs : Seen(groups, f) = original
    <3>1. groups \in Seq(Fixtures) /\ Len(groups) = 0
      BY <1>2, EmptySeq
    <3>2. 1..0 = {}
      OBVIOUS
    <3>3. QED
      BY <3>1, <3>2, SeenNone
  <2>2. QED
    BY <1>3, <2>1 DEF PointersSeen
<1>8. NarrowInv
  BY <1>2, <1>4, <1>5, <1>6, <1>7 DEF NarrowInv, NoTest
<1>9. Scopes = <<>> /\ Callee = [f \in Funs |-> original]
  BY <1>2, <1>3 DEF Scopes, Callee, NoTest
<1>10. QED
  BY <1>2, <1>8, <1>9, NothingMocked DEF Scope!ScopeInit, Callee, NoTest

(* Whatever is mocked, however deep the groups nest and whether tests fork or
   not: in a file that narrows, every call of a test goes to the mockup the test
   lists for the function, and every other call where the scopes of the open
   groups send it. *)
THEOREM NarrowingImplementsScope == NarrowSpec => ImplementsScope
<1>1. Init => NarrowInv /\ Scope!ScopeInit
  BY InitNarrow
<1>2. NarrowInv /\ [Next /\ Narrowing']_vars => NarrowInv' /\ [Scope!ScopeNext]_(Scope!scopeVars)
  BY NextNarrow
<1>3. QED
  BY <1>1, <1>2, PTL DEF NarrowSpec, ImplementsScope, Scope!ScopeSpec
=============================================================================
