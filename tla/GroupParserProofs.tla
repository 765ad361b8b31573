------------------------- MODULE GroupParserProofs -------------------------
(***************************************************************************)
(* Who owns the nodes of the tree, for files of any length: each is deleted *)
(* once, a finished tree has all that is left, and an error leaks only      *)
(* what was unfinished.                                                    *)
(***************************************************************************)
EXTENDS GroupParser, Prefixes

(***************************************************************************)
(* Places in the tree                                                      *)
(***************************************************************************)

OpenCall == [at : Seq(Nat), kids : Nat, named : BOOLEAN]

(* Each open group is the member that the call around it is parsing. *)
Nested(F) ==
  \A i \in 1..Len(F) :
    /\ Len(F[i].at) = i - 1
    /\ \A j \in 1..i - 1 : F[i].at[j] = F[j].kids + 1

(* p is a place in a member that open call i has finished. *)
MemberOf(F, p, i) ==
  /\ i <= Len(p) /\ p[i] \in 1..F[i].kids
  /\ \A j \in 1..i - 1 : p[j] = F[j].kids + 1

(* What follows the way to the member being parsed has not been finished. *)
LEMMA NotMember ==
  ASSUME NEW F, NEW p, NEW m \in Nat,
         \A j \in 1..m : F[j].kids \in Nat /\ p[j] = F[j].kids + 1
  PROVE  \A j \in 1..m : ~MemberOf(F, p, j)
BY DEF MemberOf

LEMMA CallFields ==
  ASSUME NEW F \in Seq(OpenCall)
  PROVE  /\ Len(F) \in Nat
         /\ \A i \in 1..Len(F) : /\ F[i] \in OpenCall /\ F[i].at \in Seq(Nat) /\ Len(F[i].at) \in Nat
                                 /\ F[i].kids \in Nat /\ F[i].named \in BOOLEAN
<1>1. \A i \in 1..Len(F) : F[i] \in OpenCall
  BY ElementOfSeq
<1>2. \A i \in 1..Len(F) : F[i].at \in Seq(Nat) /\ F[i].kids \in Nat /\ F[i].named \in BOOLEAN
  BY <1>1 DEF OpenCall
<1>3. Len(F) \in Nat /\ \A i \in 1..Len(F) : Len(F[i].at) \in Nat
  BY <1>2, LenProperties
<1>4. QED
  BY <1>1, <1>2, <1>3

(* The place of the member that the innermost call parses. *)
LEMMA NextPlace ==
  ASSUME NEW F \in Seq(OpenCall), F # <<>>, Nested(F)
  PROVE  LET d == Len(F)
             q == Append(F[d].at, F[d].kids + 1)
         IN  /\ d \in Nat \ {0} /\ F[d].at \in Seq(Nat) /\ F[d].kids \in Nat
             /\ q \in Seq(Nat) /\ Len(q) = d
             /\ \A j \in 1..d : q[j] = F[j].kids + 1
<1>1. PICK d : d = Len(F) /\ d \in Nat \ {0}
  BY EmptySeq, LenProperties
<1>2. PICK p, k : p = F[d].at /\ p \in Seq(Nat) /\ k = F[d].kids + 1 /\ F[d].kids \in Nat /\ k \in Nat
  <2>1. F[d].at \in Seq(Nat) /\ F[d].kids \in Nat
    BY <1>1, CallFields
  <2>2. F[d].kids + 1 \in Nat
    BY <2>1
  <2>3. QED
    BY <2>1, <2>2
<1>3. Len(p) = d - 1 /\ \A j \in 1..d - 1 : p[j] = F[j].kids + 1
  BY <1>1, <1>2 DEF Nested
<1>4. /\ Append(p, k) \in Seq(Nat) /\ Len(Append(p, k)) = d
      /\ \A j \in 1..d - 1 : Append(p, k)[j] = p[j]
      /\ Append(p, k)[d] = k
  BY <1>1, <1>2, <1>3, AppendProperties
<1>5. \A j \in 1..d : Append(p, k)[j] = F[j].kids + 1
  <2>1. \A j \in 1..d : j = d \/ j \in 1..d - 1
    BY <1>1
  <2>2. QED
    BY <1>2, <1>3, <1>4, <2>1
<1>6. QED
  BY <1>1, <1>2, <1>4, <1>5

LEMMA PrefixIs ==
  ASSUME NEW p \in Seq(Nat), NEW q \in Seq(Nat)
  PROVE  IsPrefix(q, p) <=> Len(q) <= Len(p) /\ \A j \in 1..Len(q) : p[j] = q[j]
<1>1. Len(p) \in Nat /\ Len(q) \in Nat
  BY LenProperties
<1>2. CASE ~(Len(q) <= Len(p))
  BY <1>2 DEF IsPrefix
<1>3. CASE Len(q) <= Len(p)
  <2> DEFINE m == Len(q)
             a == SubSeq(q, 1, m)
             b == SubSeq(p, 1, m)
  <2>1. \A j \in 1..m : q[j] \in Nat /\ p[j] \in Nat
    <3>1. \A j \in 1..m : j \in 1..Len(p)
      BY <1>1, <1>3
    <3>2. QED
      BY <3>1, ElementOfSeq
  <2>2. PICK n \in Nat : n = m
    BY <1>1
  <2>3. /\ SubSeq(q, 1, n) \in Seq(Nat) /\ SubSeq(p, 1, n) \in Seq(Nat)
        /\ Len(SubSeq(q, 1, n)) = (IF 1 <= n THEN n - 1 + 1 ELSE 0)
        /\ Len(SubSeq(p, 1, n)) = (IF 1 <= n THEN n - 1 + 1 ELSE 0)
        /\ \A j \in 1..n - 1 + 1 : SubSeq(q, 1, n)[j] = q[1 + j - 1]
        /\ \A j \in 1..n - 1 + 1 : SubSeq(p, 1, n)[j] = p[1 + j - 1]
    BY <2>1, <2>2, SubSeqProperties
  <2>4. /\ a \in Seq(Nat) /\ b \in Seq(Nat) /\ Len(a) = n /\ Len(b) = n
        /\ \A j \in 1..n : a[j] = q[j] /\ b[j] = p[j]
    BY <2>2, <2>3
  <2>5. IsPrefix(q, p) <=> a = b
    BY <1>3 DEF IsPrefix
  <2> HIDE DEF a, b
  <2>6. a = b <=> \A j \in 1..n : p[j] = q[j]
    BY <2>4, SeqEqual
  <2>7. QED
    BY <1>3, <2>2, <2>5, <2>6
<1>4. QED
  BY <1>2, <1>3

(***************************************************************************)
(* Calls that are opened, left and given another member                    *)
(***************************************************************************)

(* PushedIs: the innermost call of F has one more member. *)
LEMMA PushedIs ==
  ASSUME NEW F \in Seq(OpenCall), F # <<>>
  PROVE  LET d == Len(F)
         IN  /\ Pushed(F) \in Seq(OpenCall) /\ Len(Pushed(F)) = d /\ d \in Nat \ {0}
             /\ \A i \in 1..d : /\ Pushed(F)[i].at = F[i].at
                               /\ Pushed(F)[i].kids = IF i = d THEN F[i].kids + 1 ELSE F[i].kids
<1>1. PICK d : d = Len(F) /\ d \in Nat \ {0}
  BY EmptySeq, LenProperties
<1> DEFINE last == [F[d] EXCEPT !.kids = F[d].kids + 1]
           G == [F EXCEPT ![d] = last]
<1>2. F[d] \in OpenCall /\ F[d].kids \in Nat
  BY <1>1, CallFields
<1>3. last \in OpenCall /\ last.at = F[d].at /\ last.kids = F[d].kids + 1
  <2>1. PICK c \in OpenCall, k \in Nat : c = F[d] /\ k = F[d].kids + 1
    BY <1>2
  <2>2. LET e == [c EXCEPT !.kids = k] IN e \in OpenCall /\ e.at = c.at /\ e.kids = k
    BY DEF OpenCall
  <2>3. QED
    BY <2>1, <2>2
<1>4. Pushed(F) = G
  BY <1>1 DEF Pushed
<1> HIDE DEF last
<1>5. /\ G \in Seq(OpenCall) /\ Len(G) = d
      /\ \A i \in 1..d : G[i] = IF i = d THEN last ELSE F[i]
  BY <1>1, <1>3, ExceptSeq
<1> HIDE DEF G
<1>6. QED
  BY <1>1, <1>3, <1>4, <1>5

LEMMA OuterIs ==
  ASSUME NEW F \in Seq(OpenCall), Len(F) > 1
  PROVE  LET d == Len(F)
             G == SubSeq(F, 1, d - 1)
         IN  /\ G \in Seq(OpenCall) /\ Len(G) = d - 1 /\ d - 1 \in Nat \ {0} /\ G # <<>>
             /\ \A i \in 1..d - 1 : G[i] = F[i]
<1>1. PICK n : n = Len(F) - 1 /\ n \in Nat \ {0}
  BY LenProperties
<1>2. \A i \in 1..n : F[i] \in OpenCall
  <2>1. \A i \in 1..n : i \in 1..Len(F)
    BY <1>1
  <2>2. QED
    BY <2>1, CallFields
<1>3. /\ SubSeq(F, 1, n) \in Seq(OpenCall)
      /\ Len(SubSeq(F, 1, n)) = (IF 1 <= n THEN n - 1 + 1 ELSE 0)
      /\ \A i \in 1..n - 1 + 1 : SubSeq(F, 1, n)[i] = F[1 + i - 1]
  BY <1>1, <1>2, SubSeqProperties
<1>4. SubSeq(F, 1, n) \in Seq(OpenCall) /\ Len(SubSeq(F, 1, n)) = n
      /\ \A i \in 1..n : SubSeq(F, 1, n)[i] = F[i]
  BY <1>1, <1>3
<1>5. SubSeq(F, 1, n) # <<>>
  BY <1>1, <1>4, EmptySeq
<1>6. QED
  BY <1>1, <1>4, <1>5

(* A member more: what the innermost call has finished grows by the member it
   was parsing. *)
LEMMA PushedNested ==
  ASSUME NEW F \in Seq(OpenCall), F # <<>>, Nested(F)
  PROVE  LET d == Len(F)
         IN  /\ Nested(Pushed(F))
             /\ \A p \in Seq(Nat) : \A i \in 1..d :
                  MemberOf(F, p, i) => MemberOf(Pushed(F), p, i)
             /\ \A p \in Seq(Nat) : \A i \in 1..d :
                  MemberOf(Pushed(F), p, i) =>
                    \/ MemberOf(F, p, i)
                    \/ i = d /\ Len(p) >= d /\ \A j \in 1..d : p[j] = F[j].kids + 1
             /\ \A p \in Seq(Nat) :
                  Len(p) >= d /\ (\A j \in 1..d : p[j] = F[j].kids + 1) => MemberOf(Pushed(F), p, d)
<1>1. PICK d : d = Len(F) /\ d \in Nat \ {0}
  BY PushedIs
<1>2. PICK G : /\ G = Pushed(F) /\ Len(G) = d
               /\ \A i \in 1..d : /\ G[i].at = F[i].at
                                 /\ G[i].kids = IF i = d THEN F[i].kids + 1 ELSE F[i].kids
  BY <1>1, PushedIs
<1>3. \A i \in 1..d : F[i].kids \in Nat
  BY <1>1, CallFields
<1>4. \A i \in 1..d : \A j \in 1..i - 1 : j \in 1..d /\ j # d /\ G[j].kids = F[j].kids
  BY <1>1, <1>2
<1>5. Nested(G)
  <2>1. ASSUME NEW i \in 1..d
        PROVE  Len(G[i].at) = i - 1 /\ \A j \in 1..i - 1 : G[i].at[j] = G[j].kids + 1
    <3>1. Len(F[i].at) = i - 1 /\ \A j \in 1..i - 1 : F[i].at[j] = F[j].kids + 1
      BY <1>1 DEF Nested
    <3>2. QED
      BY <1>2, <1>4, <3>1
  <2>2. QED
    BY <1>2, <2>1 DEF Nested
<1>6. ASSUME NEW p \in Seq(Nat), NEW i \in 1..d
      PROVE  /\ MemberOf(F, p, i) => MemberOf(G, p, i)
             /\ MemberOf(G, p, i) =>
                   \/ MemberOf(F, p, i)
                   \/ i = d /\ Len(p) >= d /\ \A j \in 1..d : p[j] = F[j].kids + 1
  <2>1. Len(p) \in Nat
    BY LenProperties
  <2>2. (\A j \in 1..i - 1 : p[j] = F[j].kids + 1) <=> (\A j \in 1..i - 1 : p[j] = G[j].kids + 1)
    BY <1>4
  <2>3. i # d => G[i].kids = F[i].kids
    BY <1>2
  <2>4. i = d => G[i].kids = F[i].kids + 1
    BY <1>2
  <2> DEFINE k == F[i].kids
             l == G[i].kids
             e == p[i]
  <2>8. k \in Nat /\ (l = k \/ l = k + 1) /\ (i # d => l = k) /\ (i = d => l = k + 1)
    BY <1>3, <2>3, <2>4
  <2> HIDE DEF k, l, e
  <2>9. e \in 1..k => e \in 1..l
    BY <2>8
  <2>10. e \in 1..l /\ e \notin 1..k => e = k + 1 /\ i = d
    BY <2>8
  <2>5. MemberOf(F, p, i) => MemberOf(G, p, i)
    BY <2>2, <2>9 DEF MemberOf, k, l, e
  <2>6. ASSUME MemberOf(G, p, i), ~MemberOf(F, p, i)
        PROVE  i = d /\ Len(p) >= d /\ \A j \in 1..d : p[j] = F[j].kids + 1
    <3>1. i <= Len(p) /\ p[i] \in 1..G[i].kids /\ \A j \in 1..i - 1 : p[j] = F[j].kids + 1
      BY <2>2, <2>6 DEF MemberOf
    <3>2. p[i] \notin 1..F[i].kids
      BY <2>6, <3>1 DEF MemberOf
    <3>3. i = d /\ p[i] = F[i].kids + 1
      BY <2>10, <3>1, <3>2 DEF k, l, e
    <3>4. \A j \in 1..d : j = d \/ j \in 1..i - 1
      BY <1>1, <3>3
    <3>5. QED
      BY <1>1, <2>1, <3>1, <3>3, <3>4
  <2>7. QED
    BY <2>5, <2>6
<1>7. ASSUME NEW p \in Seq(Nat), Len(p) >= d, \A j \in 1..d : p[j] = F[j].kids + 1
      PROVE  MemberOf(G, p, d)
  <2>1. Len(p) \in Nat /\ d \in 1..d /\ p[d] = F[d].kids + 1 /\ G[d].kids = F[d].kids + 1
    BY <1>1, <1>2, <1>7, LenProperties
  <2>2. \A j \in 1..d - 1 : p[j] = G[j].kids + 1
    <3>1. \A j \in 1..d - 1 : j \in 1..d
      BY <1>1
    <3>2. QED
      BY <1>4, <1>7, <2>1, <3>1
  <2>3. p[d] \in 1..G[d].kids
    BY <1>3, <2>1
  <2>4. QED
    BY <1>1, <1>7, <2>1, <2>2, <2>3 DEF MemberOf
<1>8. QED
  BY <1>1, <1>2, <1>5, <1>6, <1>7

(***************************************************************************)
(* What is deleted                                                         *)
(***************************************************************************)

Placed(M) == \A n \in M : n.at \in Seq(Nat)

GroupSetups == {"mockup_all", "before_all"}

(* What the catch of call i deletes. *)
LEMMA CaughtInIs ==
  ASSUME NEW F \in Seq(OpenCall), Nested(F), NEW M, Placed(M), NEW i \in 1..Len(F), NEW n \in M
  PROVE  n \in CaughtIn(M, F[i]) <=>
           \/ n.at = F[i].at /\ n.part \in GroupSetups
           \/ n.part # "given" /\ MemberOf(F, n.at, i)
<1>1. PICK t, kids, p : /\ t = F[i].at /\ t \in Seq(Nat) /\ kids = F[i].kids /\ kids \in Nat
                        /\ p = n.at /\ p \in Seq(Nat)
  BY CallFields DEF Placed
<1>2. Len(t) = i - 1 /\ (\A j \in 1..i - 1 : t[j] = F[j].kids + 1) /\ i \in Nat \ {0} /\ Len(p) \in Nat
  BY <1>1, LenProperties DEF Nested
<1>3. ASSUME NEW k \in 1..kids
      PROVE  IsPrefix(Append(t, k), p) <=>
               i <= Len(p) /\ p[i] = k /\ \A j \in 1..i - 1 : p[j] = F[j].kids + 1
  <2>1. PICK q : q = Append(t, k)
    OBVIOUS
  <2>2. q \in Seq(Nat) /\ Len(q) = i /\ (\A j \in 1..i - 1 : q[j] = t[j]) /\ q[i] = k
    <3>1. k \in Nat
      BY <1>1
    <3>2. /\ Append(t, k) \in Seq(Nat) /\ Len(Append(t, k)) = Len(t) + 1
          /\ \A j \in 1..Len(t) : Append(t, k)[j] = t[j]
          /\ Append(t, k)[Len(t) + 1] = k
      BY <1>1, <3>1, AppendProperties
    <3>3. Len(t) + 1 = i
      BY <1>2
    <3>4. QED
      BY <1>2, <2>1, <3>2, <3>3
  <2>3. IsPrefix(q, p) <=> Len(q) <= Len(p) /\ \A j \in 1..Len(q) : p[j] = q[j]
    BY <1>1, <2>2, PrefixIs
  <2>4. (\A j \in 1..i : p[j] = q[j]) <=> p[i] = k /\ \A j \in 1..i - 1 : p[j] = F[j].kids + 1
    <3>1. \A j \in 1..i : j = i \/ j \in 1..i - 1
      BY <1>2
    <3>2. i \in 1..i /\ \A j \in 1..i - 1 : j \in 1..i
      BY <1>2
    <3>3. QED
      BY <1>2, <2>2, <3>1, <3>2
  <2>5. QED
    BY <2>1, <2>2, <2>3, <2>4
<1>4. (\E k \in 1..kids : IsPrefix(Append(t, k), p)) <=> MemberOf(F, p, i)
  BY <1>1, <1>3 DEF MemberOf
<1>5. n \in CaughtIn(M, F[i]) <=>
        \/ p = t /\ n.part \in GroupSetups
        \/ n.part # "given" /\ \E k \in 1..kids : IsPrefix(Append(t, k), p)
  BY <1>1 DEF CaughtIn, Owned, GroupSetups
<1>6. QED
  BY <1>1, <1>4, <1>5

(* The copies that the catches delete, whatever the calls. *)
LEMMA CaughtBag ==
  ASSUME NEW F \in Seq(OpenCall), NEW M
  PROVE  /\ DOMAIN Caught(M, F) \subseteq M
         /\ \A n \in M : n \in DOMAIN Caught(M, F) <=> \E i \in 1..Len(F) : n \in CaughtIn(M, F[i])
         /\ \A n \in DOMAIN Caught(M, F) :
              LET by == {i \in 1..Len(F) : n \in CaughtIn(M, F[i])}
              IN  /\ Caught(M, F)[n] = Cardinality(by) /\ Cardinality(by) \in Nat \ {0}
                  /\ \A i \in by : by = {i} => Cardinality(by) = 1
<1> DEFINE by(n) == {i \in 1..Len(F) : n \in CaughtIn(M, F[i])}
<1>1. Caught(M, F) = [n \in {m \in M : by(m) # {}} |-> Cardinality(by(n))]
  BY DEF Caught
<1>2. ASSUME NEW n \in M, by(n) # {}
      PROVE  /\ Cardinality(by(n)) \in Nat \ {0}
             /\ \A i \in by(n) : by(n) = {i} => Cardinality(by(n)) = 1
  <2>1. IsFiniteSet(1..Len(F))
    BY CallFields, FS_Interval
  <2>2. by(n) \subseteq 1..Len(F)
    OBVIOUS
  <2> HIDE DEF by
  <2>3. IsFiniteSet(by(n))
    BY <2>1, <2>2, FS_Subset
  <2>4. Cardinality(by(n)) \in Nat /\ Cardinality(by(n)) # 0
    BY <1>2, <2>3, FS_CardinalityType, FS_EmptySet
  <2>5. \A i : Cardinality({i}) = 1
    BY FS_Singleton
  <2>6. QED
    BY <2>4, <2>5
<1>3. \A n \in M : by(n) # {} <=> \E i \in 1..Len(F) : n \in CaughtIn(M, F[i])
  OBVIOUS
<1>4. \A n : by(n) = {i \in 1..Len(F) : n \in CaughtIn(M, F[i])}
  OBVIOUS
<1> HIDE DEF by
<1>5. DOMAIN Caught(M, F) = {m \in M : by(m) # {}}
      /\ \A n \in DOMAIN Caught(M, F) : Caught(M, F)[n] = Cardinality(by(n))
  BY <1>1
<1>6. ASSUME NEW n \in DOMAIN Caught(M, F)
      PROVE  /\ Caught(M, F)[n] = Cardinality(by(n)) /\ Cardinality(by(n)) \in Nat \ {0}
             /\ \A i \in by(n) : by(n) = {i} => Cardinality(by(n)) = 1
  BY <1>2, <1>5
<1>7. QED
  BY <1>3, <1>4, <1>5, <1>6

(* No two catches delete the same node: what call i has finished and what an
   inner call holds part at the member call i is parsing. *)
LEMMA CaughtOnce ==
  ASSUME NEW F \in Seq(OpenCall), Nested(F), NEW M, Placed(M)
  PROVE  /\ DOMAIN Caught(M, F) \subseteq M
         /\ \A n \in DOMAIN Caught(M, F) : Caught(M, F)[n] = 1 /\ n.part # "given"
         /\ \A n \in M : \A i \in 1..Len(F) :
              \/ n.at = F[i].at /\ n.part \in GroupSetups
              \/ n.part # "given" /\ MemberOf(F, n.at, i)
              => n \in DOMAIN Caught(M, F)
<1> DEFINE In(n, i) == \/ n.at = F[i].at /\ n.part \in GroupSetups
                       \/ n.part # "given" /\ MemberOf(F, n.at, i)
<1>1. \A n \in M : \A i \in 1..Len(F) : n \in CaughtIn(M, F[i]) <=> In(n, i)
  BY CaughtInIs
<1>2. ASSUME NEW n \in M, NEW i \in 1..Len(F), NEW j \in 1..Len(F), i < j, In(n, i), In(n, j)
      PROVE  FALSE
  <2>1. n.at \in Seq(Nat) /\ Len(n.at) \in Nat /\ Len(F) \in Nat /\ F[i].kids \in Nat
    BY LenProperties, CallFields DEF Placed
  <2>2. i \in 1..j - 1
    BY <1>2, <2>1
  <2>3. n.at[i] = F[i].kids + 1 /\ j - 1 <= Len(n.at)
    <3>1. CASE n.at = F[j].at
      BY <2>2, <3>1 DEF Nested
    <3>2. CASE MemberOf(F, n.at, j)
      BY <2>1, <2>2, <3>2 DEF MemberOf
    <3>3. QED
      BY <1>2, <3>1, <3>2
  <2>4. CASE n.at = F[i].at
    <3>1. Len(n.at) = i - 1
      BY <2>4 DEF Nested
    <3>2. QED
      BY <2>2, <2>3, <3>1
  <2>5. CASE MemberOf(F, n.at, i)
    BY <2>1, <2>3, <2>5 DEF MemberOf
  <2>6. QED
    BY <1>2, <2>4, <2>5
<1> HIDE DEF In
<1>3. ASSUME NEW n \in M, NEW i \in 1..Len(F), NEW j \in 1..Len(F), In(n, i), In(n, j)
      PROVE  i = j
  <2>1. i = j \/ i < j \/ j < i
    BY CallFields
  <2>2. QED
    BY <1>2, <1>3, <2>1
<1>4. ASSUME NEW n \in DOMAIN Caught(M, F)
      PROVE  n \in M /\ Caught(M, F)[n] = 1 /\ n.part # "given"
  <2> DEFINE by == {i \in 1..Len(F) : n \in CaughtIn(M, F[i])}
  <2>1. n \in M
    BY CaughtBag
  <2>2. PICK i \in 1..Len(F) : n \in CaughtIn(M, F[i])
    BY <2>1, CaughtBag
  <2>3. In(n, i)
    BY <1>1, <2>1, <2>2
  <2>4. by = {i}
    BY <1>1, <1>3, <2>1, <2>2, <2>3
  <2>5. Caught(M, F)[n] = Cardinality(by) /\ \A k \in by : by = {k} => Cardinality(by) = 1
    BY CaughtBag
  <2> HIDE DEF by
  <2>6. Caught(M, F)[n] = 1
    BY <2>4, <2>5
  <2>7. n.part # "given"
    BY <2>3 DEF In, GroupSetups
  <2>8. QED
    BY <2>1, <2>6, <2>7
<1>5. ASSUME NEW n \in M, NEW i \in 1..Len(F), In(n, i) PROVE n \in DOMAIN Caught(M, F)
  <2>1. n \in CaughtIn(M, F[i])
    BY <1>1, <1>5
  <2>2. QED
    BY <2>1, CaughtBag
<1>6. QED
  BY <1>4, <1>5 DEF In

(* Bags that hold nodes once. *)
LEMMA BagsIs ==
  ASSUME NEW A, NEW B
  PROVE  /\ DOMAIN (A (+) B) = DOMAIN A \cup DOMAIN B
         /\ \A n \in DOMAIN A \cup DOMAIN B :
              (A (+) B)[n] = (IF n \in DOMAIN A THEN A[n] ELSE 0) + (IF n \in DOMAIN B THEN B[n] ELSE 0)
BY DEF (+)

LEMMA SetBag ==
  ASSUME NEW S
  PROVE  DOMAIN SetToBag(S) = S /\ \A n \in S : SetToBag(S)[n] = 1
BY DEF SetToBag

LEMMA BagSum ==
  ASSUME NEW A, NEW B, IsABag(A), IsABag(B)
  PROVE  IsABag(A (+) B) /\ BagToSet(A (+) B) = BagToSet(A) \cup BagToSet(B)
<1>1. \A n \in DOMAIN A : A[n] \in Nat /\ A[n] > 0
  BY DEF IsABag
<1>2. \A n \in DOMAIN B : B[n] \in Nat /\ B[n] > 0
  BY DEF IsABag
<1>3. \A n \in DOMAIN A \cup DOMAIN B :
        LET k == (IF n \in DOMAIN A THEN A[n] ELSE 0) + (IF n \in DOMAIN B THEN B[n] ELSE 0)
        IN  k \in Nat /\ k > 0
  BY <1>1, <1>2
<1>4. A (+) B \in [DOMAIN A \cup DOMAIN B -> {k \in Nat : k > 0}]
  BY <1>3 DEF (+)
<1>5. DOMAIN (A (+) B) = DOMAIN A \cup DOMAIN B
  BY BagsIs
<1>6. QED
  BY <1>4, <1>5 DEF IsABag, BagToSet

LEMMA SetToBagIsABag ==
  ASSUME NEW S
  PROVE  IsABag(SetToBag(S)) /\ BagToSet(SetToBag(S)) = S
BY DEF IsABag, SetToBag, BagToSet

(* One more node in a bag of nodes. *)
LEMMA OneMore ==
  ASSUME NEW S, NEW n, n \notin S
  PROVE  SetToBag(S) (+) SetToBag({n}) = SetToBag(S \cup {n})
BY DEF (+), SetToBag

LEMMA CaughtIsABag ==
  ASSUME NEW F \in Seq(OpenCall), NEW M
  PROVE  IsABag(Caught(M, F)) /\ BagToSet(Caught(M, F)) \subseteq M
<1>1. Caught(M, F) = [n \in DOMAIN Caught(M, F) |-> Caught(M, F)[n]]
  BY DEF Caught
<1>2. ASSUME NEW n \in DOMAIN Caught(M, F) PROVE Caught(M, F)[n] \in Nat \ {0}
  <2> DEFINE by == {i \in 1..Len(F) : n \in CaughtIn(M, F[i])}
  <2>1. Caught(M, F)[n] = Cardinality(by) /\ Cardinality(by) \in Nat \ {0}
    BY CaughtBag
  <2>2. QED
    BY <2>1
<1>3. QED
  BY <1>1, <1>2, CaughtBag DEF IsABag, BagToSet

(***************************************************************************)
(* The inductive invariant                                                 *)
(***************************************************************************)

Running == pc \notin Ends

WithBody == (GroupParts \cup TestParts) \ {"data", "function"}

(* A brace is open only in a part that has one. *)
ControlPart ==
  /\ body => pc \in WithBody \cup {"pastEnd"}
  /\ pc = "pastEnd" => body /\ cur = "eof"

NestedPart == Running => Nested(frames)

(* The nodes of a group that is open. *)
Begun(n) ==
  \E i \in 1..Len(frames) :
    /\ n.at = frames[i].at
    /\ \/ n.part \in {"name", "given"} \cup GroupSetups
       \/ pc = "end" /\ i = Len(frames) /\ n.part = "after_all"

(* Every node is of a finished member, of an open group or of the test that is
   being parsed. *)
NodesPart ==
  Running =>
    \A n \in made :
      \/ \E i \in 1..Len(frames) : MemberOf(frames, n.at, i)
      \/ Begun(n)
      \/ pc \in TestParts /\ n.at = NextKid /\ n.part \in TestParts

(* Every open group has its name. *)
NamesPart == Running => \A i \in 1..Len(frames) : Node(frames[i].at, "name") \in made

(* The groups and tests around a node, from a finished member on, have been
   constructed. *)
Whole(M, F) ==
  \A n \in M : \A j \in 1..Len(F) : MemberOf(F, n.at, j) =>
    \A i \in j..Len(n.at) : \E part \in {"group", "test"} : Node(SubSeq(n.at, 1, i), part) \in M

WholePart == Running => Whole(made, frames)

GivenOf(M) == {n \in M : n.part = "given"}

(* Until an error, the names that were given to groups are all that is deleted. *)
DeletedPart == pc \notin {"error", "unclosed"} => deleted = SetToBag(GivenOf(made))

IInv ==
  /\ TypeOK /\ ControlPart /\ NestedPart /\ NodesPart /\ NamesPart /\ WholePart /\ DeletedPart
  /\ DeletedOnce /\ TreeIsWhole /\ LeaksAreUnfinished

(***************************************************************************)
(* Facts about a state and a step                                          *)
(***************************************************************************)

PcAll == DOMAIN Following \cup {"tests", "end"} \cup Ends

LEMMA PcIs ==
  /\ DOMAIN Following = GroupParts \cup TestParts
  /\ \A part \in GroupParts \cup TestParts : part \notin Ends \cup {"tests", "end"}
  /\ Following.mockup_all = "before_all" /\ Following.before_all = "tests"
  /\ Following.after_all = "end" /\ Following.data = "mockup" /\ Following.mockup = "before"
  /\ Following.before = "function" /\ Following.function = "after" /\ Following.after = "tests"
BY DEF Following, GroupParts, TestParts, Ends

LEMMA RunningFacts ==
  ASSUME IInv, Running
  PROVE  /\ frames \in Seq(OpenCall) /\ frames # <<>> /\ Nested(frames) /\ Placed(made)
         /\ Len(frames) \in Nat \ {0}
         /\ Top = frames[Len(frames)] /\ Top \in OpenCall
         /\ Top.at \in Seq(Nat) /\ Top.kids \in Nat /\ Len(Top.at) = Len(frames) - 1
         /\ NextKid \in Seq(Nat) /\ Len(NextKid) = Len(frames)
         /\ \A j \in 1..Len(frames) : NextKid[j] = frames[j].kids + 1
<1>1. frames \in Seq(OpenCall) /\ frames # <<>> /\ Placed(made)
  BY DEF IInv, TypeOK, OpenCall, Placed
<1>2. Nested(frames)
  BY DEF IInv, NestedPart
<1>3. PICK d : d = Len(frames) /\ d \in Nat \ {0}
  BY <1>1, EmptySeq, LenProperties
<1>4. Top = frames[d] /\ Top \in OpenCall /\ Top.at \in Seq(Nat) /\ Top.kids \in Nat
  BY <1>1, <1>3, CallFields DEF Top
<1>5. Len(Top.at) = d - 1
  BY <1>2, <1>3, <1>4 DEF Nested
<1>6. LET q == Append(frames[d].at, frames[d].kids + 1)
      IN  q \in Seq(Nat) /\ Len(q) = d /\ \A j \in 1..d : q[j] = frames[j].kids + 1
  BY <1>1, <1>2, <1>3, NextPlace
<1>7. NextKid = Append(frames[d].at, frames[d].kids + 1)
  BY <1>4 DEF NextKid
<1>8. QED
  BY <1>1, <1>2, <1>3, <1>4, <1>5, <1>6, <1>7

(* The member that is being parsed, and the groups around it, are not finished,
   and none of its nodes belongs to a group. *)
LEMMA NextIsOpen ==
  ASSUME IInv, Running
  PROVE  /\ \A i \in 1..Len(frames) : ~MemberOf(frames, NextKid, i)
         /\ \A i \in 1..Len(frames) : NextKid # frames[i].at
         /\ \A k \in 1..Len(frames) : \A i \in 1..Len(frames) : ~MemberOf(frames, frames[k].at, i)
<1>1. PICK q, d : q = NextKid /\ d = Len(frames)
  OBVIOUS
<1>2. /\ q \in Seq(Nat) /\ Len(q) = d /\ d \in Nat \ {0} /\ (\A j \in 1..d : q[j] = frames[j].kids + 1)
      /\ frames \in Seq(OpenCall) /\ Nested(frames)
  BY <1>1, RunningFacts
<1>3. \A j \in 1..d : frames[j].kids \in Nat
  BY <1>1, <1>2, CallFields
<1>4. \A i \in 1..d : ~MemberOf(frames, q, i)
  BY <1>2, <1>3, NotMember
<1>5. \A i \in 1..d : q # frames[i].at
  <2>1. \A i \in 1..d : Len(frames[i].at) = i - 1
    BY <1>1, <1>2 DEF Nested
  <2>2. QED
    BY <1>2, <2>1
<1>6. ASSUME NEW k \in 1..d, NEW i \in 1..d, MemberOf(frames, frames[k].at, i) PROVE FALSE
  <2>1. Len(frames[k].at) = k - 1 /\ \A j \in 1..k - 1 : frames[k].at[j] = frames[j].kids + 1
    BY <1>1, <1>2 DEF Nested
  <2>2. i <= k - 1 /\ frames[k].at[i] \in 1..frames[i].kids
    BY <1>6, <2>1 DEF MemberOf
  <2>3. i \in 1..k - 1
    BY <1>2, <2>2
  <2>4. QED
    BY <1>3, <2>1, <2>2, <2>3
<1>7. QED
  BY <1>1, <1>4, <1>5, <1>6

LEMMA TokenTypes ==
  ASSUME TypeOK, NEW n \in 0..5, NextToken(n)
  PROVE  cur' \in Tokens \cup {"eof"} /\ left' \in 0..MaxTokens
<1>1. MaxTokens \in Nat /\ left \in 0..MaxTokens
  BY ParserAssumption DEF TypeOK
<1>2. cur' \in Tokens \cup {"eof"}
  BY DEF NextToken
<1>3. CASE cur' = "eof"
  BY <1>1, <1>2, <1>3 DEF NextToken
<1>4. CASE cur' # "eof"
  BY <1>1, <1>2, <1>4 DEF NextToken
<1>5. QED
  BY <1>3, <1>4

LEMMA OnceInSet ==
  ASSUME NEW D, NEW S, D = SetToBag(S)
  PROVE  \A n \in BagToSet(D) : D[n] = 1
BY DEF SetToBag, BagToSet

(* No step loses a name, and the calls that stay open have theirs. *)
LEMMA NamesStay ==
  ASSUME IInv, Running, made \subseteq made',
         \A i \in 1..Len(frames') :
           \/ i \in 1..Len(frames) /\ frames'[i].at = frames[i].at
           \/ Node(frames'[i].at, "name") \in made'
  PROVE  NamesPart'
BY DEF IInv, NamesPart

(* A step that goes on needs the first parts only. *)
LEMMA GoesOn ==
  ASSUME TypeOK', ControlPart', NestedPart', NodesPart', NamesPart', WholePart', DeletedPart',
         pc' \notin {"error", "unclosed", "done"}
  PROVE  IInv'
<1>1. deleted' = SetToBag(GivenOf(made'))
  BY DEF DeletedPart
<1>2. DeletedOnce'
  BY <1>1, OnceInSet DEF DeletedOnce
<1>3. TreeIsWhole' /\ LeaksAreUnfinished'
  BY DEF TreeIsWhole, LeaksAreUnfinished
<1>4. QED
  BY <1>2, <1>3 DEF IInv

(***************************************************************************)
(* The steps                                                               *)
(***************************************************************************)

TreeSame == frames' = frames /\ made' = made /\ deleted' = deleted

LEMMA QuietStep ==
  ASSUME IInv, Running, TreeSame, TypeOK', ControlPart', pc' \notin Ends,
         pc \in TestParts => pc' \in TestParts, pc = "end" => pc' = "end"
  PROVE  IInv'
<1>1. NextKid' = NextKid /\ Running'
  BY DEF TreeSame, NextKid, Top, Running
<1>2. NestedPart'
  BY DEF IInv, NestedPart, Nested, TreeSame
<1>3. NodesPart'
  <2>1. ASSUME NEW n \in made
        PROVE  \/ \E i \in 1..Len(frames) : MemberOf(frames, n.at, i)
               \/ Begun(n)'
               \/ pc' \in TestParts /\ n.at = NextKid /\ n.part \in TestParts
    <3>1. \/ \E i \in 1..Len(frames) : MemberOf(frames, n.at, i)
          \/ Begun(n)
          \/ pc \in TestParts /\ n.at = NextKid /\ n.part \in TestParts
      BY DEF IInv, NodesPart
    <3>2. Begun(n) => Begun(n)'
      BY DEF Begun, TreeSame
    <3>3. QED
      BY <3>1, <3>2
  <2>2. QED
    BY <1>1, <2>1 DEF NodesPart, TreeSame
<1>4. WholePart'
  <2>1. Whole(made, frames)
    BY DEF IInv, WholePart
  <2>2. made' = made /\ frames' = frames
    BY DEF TreeSame
  <2>3. QED
    BY <2>1, <2>2 DEF WholePart
<1>5. DeletedPart'
  <2>1. pc \notin {"error", "unclosed"}
    BY DEF Running, Ends
  <2>2. deleted = SetToBag(GivenOf(made))
    BY <2>1 DEF IInv, DeletedPart
  <2>3. QED
    BY <2>2 DEF DeletedPart, TreeSame
<1>6. pc' \notin {"error", "unclosed", "done"} /\ NamesPart'
  BY NamesStay DEF Ends, TreeSame
<1>7. QED
  BY <1>2, <1>3, <1>4, <1>5, <1>6, GoesOn

(* The parser goes where the model ends. *)
LEMMA LostStep ==
  ASSUME IInv, Running, TreeSame, TypeOK', ControlPart', pc' \in {"staleName", "pastEnd"}
  PROVE  IInv'
<1>1. ~Running' /\ pc' \notin {"error", "unclosed", "done"}
  BY DEF Running, Ends
<1>2. NestedPart' /\ NodesPart' /\ NamesPart' /\ WholePart'
  BY <1>1 DEF NestedPart, NodesPart, NamesPart, WholePart
<1>3. DeletedPart'
  <2>1. pc \notin {"error", "unclosed"}
    BY DEF Running, Ends
  <2>2. deleted = SetToBag(GivenOf(made))
    BY <2>1 DEF IInv, DeletedPart
  <2>3. QED
    BY <2>2 DEF DeletedPart, TreeSame
<1>4. QED
  BY <1>1, <1>2, <1>3, GoesOn

(* The nodes that are left when every open call has caught: of the groups that
   were open their names, of the test that was parsed its parts. *)
LEMMA LeftOver ==
  ASSUME IInv, Running, pc # "end", NEW n \in made, n.part # "given",
         n \notin DOMAIN Caught(made, frames)
  PROVE  \/ n.part = "name" /\ \E i \in 1..Len(frames) : n.at = frames[i].at
         \/ n.part \in TestParts /\ n.at = NextKid
<1>1. \A i \in 1..Len(frames) :
        ~MemberOf(frames, n.at, i) /\ ~(n.at = frames[i].at /\ n.part \in GroupSetups)
  BY RunningFacts, CaughtOnce
<1>2. \/ Begun(n)
      \/ pc \in TestParts /\ n.at = NextKid /\ n.part \in TestParts
  BY <1>1 DEF IInv, NodesPart
<1>3. QED
  BY <1>1, <1>2 DEF Begun

LEMMA ThrowStep ==
  ASSUME IInv, Running, pc # "end", Throw
  PROVE  IInv'
<1> DEFINE C == Caught(made, frames)
           S == GivenOf(made)
<1>1. /\ pc' = "error" /\ body' = FALSE /\ frames' = frames /\ made' = made
      /\ cur' = cur /\ left' = left /\ deleted' = deleted (+) C
  BY DEF Throw
<1>2. deleted = SetToBag(S)
  <2>1. pc \notin {"error", "unclosed"}
    BY DEF Running, Ends
  <2>2. QED
    BY <2>1 DEF IInv, DeletedPart
<1>3. /\ DOMAIN C \subseteq made /\ \A n \in DOMAIN C : C[n] = 1 /\ n.part # "given"
  BY RunningFacts, CaughtOnce
<1>4. IsABag(C) /\ BagToSet(C) \subseteq made
  BY RunningFacts, CaughtIsABag
<1>5. DOMAIN deleted = S /\ \A n \in S : deleted[n] = 1
  BY <1>2, SetBag
<1>6. DOMAIN deleted' = S \cup DOMAIN C
      /\ \A n \in S \cup DOMAIN C :
           deleted'[n] = (IF n \in S THEN deleted[n] ELSE 0) + (IF n \in DOMAIN C THEN C[n] ELSE 0)
  BY <1>1, <1>5, BagsIs
<1>7. TypeOK'
  <2>1. IsABag(deleted') /\ BagToSet(deleted') = BagToSet(deleted) \cup BagToSet(C)
    BY <1>1, <1>4, BagSum DEF IInv, TypeOK
  <2>2. pc' \in Ends /\ body' \in BOOLEAN
    BY <1>1 DEF Ends
  <2>3. BagToSet(deleted') \subseteq made
    BY <1>4, <2>1 DEF IInv, TypeOK
  <2>4. QED
    BY <1>1, <2>1, <2>2, <2>3 DEF IInv, TypeOK
<1>8. DeletedOnce'
  <2> HIDE DEF C
  <2>1. \A n \in S : n.part = "given"
    BY DEF GivenOf
  <2>2. ASSUME NEW n \in S \cup DOMAIN C PROVE deleted'[n] = 1
    BY <1>3, <1>5, <1>6, <2>1
  <2>3. QED
    BY <1>6, <2>2 DEF DeletedOnce, BagToSet
<1>9. LeaksAreUnfinished'
  <2>1. ASSUME NEW n \in made \ DOMAIN deleted'
        PROVE  \/ n.part = "name" /\ \E i \in 1..Len(frames) : n.at = frames[i].at
               \/ n.part \in TestParts /\ n.at = NextKid
    <3>1. n.part # "given" /\ n \notin DOMAIN C
      BY <1>6, <2>1 DEF GivenOf
    <3>2. QED
      BY <2>1, <3>1, LeftOver
  <2>2. Live' = made \ DOMAIN deleted' /\ NextKid' = NextKid
    BY <1>1 DEF Live, BagToSet, NextKid, Top
  <2>3. QED
    BY <1>1, <2>1, <2>2 DEF LeaksAreUnfinished
<1>10. /\ ControlPart' /\ NestedPart' /\ NodesPart' /\ NamesPart' /\ WholePart' /\ DeletedPart'
       /\ TreeIsWhole'
  BY <1>1 DEF ControlPart, NestedPart, NodesPart, NamesPart, WholePart, DeletedPart, TreeIsWhole,
                 Running, Ends
<1>11. QED
  BY <1>7, <1>8, <1>9, <1>10 DEF IInv

LEMMA NodeFields ==
  ASSUME NEW p, NEW part
  PROVE  Node(p, part).at = p /\ Node(p, part).part = part
BY DEF Node

(* The part that is done has a place: its group's or its test's. *)
LEMMA BuiltIs ==
  ASSUME IInv, Running, pc \in GroupParts \cup TestParts, NEW nodes, nodes = {} \/ nodes = Built,
         NEW n \in nodes
  PROVE  /\ n.at \in Seq(Nat) /\ n.part = pc /\ n.part \in Parts /\ n.part # "given"
         /\ pc \in GroupParts => n.at = frames[Len(frames)].at
         /\ pc \in TestParts => n.at = NextKid
<1>1. n = Node(IF pc \in GroupParts THEN Top.at ELSE NextKid, pc)
  BY DEF Built
<1>2. pc \in TestParts => pc \notin GroupParts
  BY DEF GroupParts, TestParts
<1>3. pc # "given" /\ pc \in Parts
  BY DEF GroupParts, TestParts, Parts
<1>4. n.at = (IF pc \in GroupParts THEN Top.at ELSE NextKid) /\ n.part = pc
  BY <1>1, NodeFields
<1>5. Top.at \in Seq(Nat) /\ NextKid \in Seq(Nat) /\ Top.at = frames[Len(frames)].at
  BY RunningFacts
<1>6. QED
  BY <1>2, <1>3, <1>4, <1>5

(* Nodes whose places are open and that were not given change nothing of what
   is whole or deleted. *)
LEMMA OpenNodesAdded ==
  ASSUME IInv, Running, NEW nodes,
         \A n \in nodes : n.part # "given" /\ \A i \in 1..Len(frames) : ~MemberOf(frames, n.at, i)
  PROVE  Whole(made \cup nodes, frames) /\ GivenOf(made \cup nodes) = GivenOf(made)
<1>1. Whole(made, frames)
  BY DEF IInv, WholePart
<1>2. QED
  BY <1>1 DEF Whole, GivenOf

LEMMA DeletedNow ==
  ASSUME IInv, Running
  PROVE  deleted = SetToBag(GivenOf(made)) /\ IsABag(deleted)
<1>1. pc \notin {"error", "unclosed"}
  BY DEF Running, Ends
<1>2. QED
  BY <1>1 DEF IInv, DeletedPart, TypeOK

LEMMA PartStep ==
  ASSUME IInv, Running, pc \in (GroupParts \cup TestParts) \ {"after"},
         NEW nodes, nodes = {} \/ nodes = Built, PartDone(nodes),
         cur' \in Tokens \cup {"eof"}, left' \in 0..MaxTokens
  PROVE  IInv'
<1>1. /\ body' = FALSE /\ pc' = Following[pc] /\ frames' = frames /\ deleted' = deleted
      /\ made' = made \cup nodes
  BY DEF PartDone
<1>2. /\ pc \in {"mockup_all", "before_all"} => pc' \in {"before_all", "tests"}
      /\ pc = "after_all" => pc' = "end"
      /\ pc \in TestParts => pc' \in TestParts
  BY <1>1, PcIs DEF TestParts
<1>3. pc' \in PcAll \ Ends
  BY <1>1, PcIs DEF PcAll, GroupParts, TestParts, Ends
<1>4. \A n \in nodes :
        /\ n.at \in Seq(Nat) /\ n.part = pc /\ n.part \in Parts /\ n.part # "given"
        /\ pc \in GroupParts => n.at = frames[Len(frames)].at
        /\ pc \in TestParts => n.at = NextKid
  BY BuiltIs
<1>5. TypeOK'
  BY <1>1, <1>3, <1>4 DEF IInv, TypeOK, PcAll
<1>6. ControlPart'
  BY <1>1, <1>3 DEF ControlPart, Ends
<1>7. Running' /\ NextKid' = NextKid /\ pc' \notin {"error", "unclosed", "done"}
  BY <1>1, <1>3 DEF Running, NextKid, Top, Ends
<1>8. NestedPart' /\ NamesPart'
  BY <1>1, NamesStay DEF IInv, NestedPart, Nested
<1>9. NodesPart'
  <2>1. Len(frames) \in 1..Len(frames) /\ pc # "end"
    BY RunningFacts, PcIs
  <2>2. ASSUME NEW n \in made
        PROVE  \/ \E i \in 1..Len(frames) : MemberOf(frames, n.at, i)
               \/ Begun(n)'
               \/ pc' \in TestParts /\ n.at = NextKid /\ n.part \in TestParts
    <3>1. \/ \E i \in 1..Len(frames) : MemberOf(frames, n.at, i)
          \/ Begun(n)
          \/ pc \in TestParts /\ n.at = NextKid /\ n.part \in TestParts
      BY DEF IInv, NodesPart
    <3>2. Begun(n) => Begun(n)'
      BY <1>1, <2>1 DEF Begun
    <3>3. QED
      BY <1>2, <3>1, <3>2
  <2>3. ASSUME NEW n \in nodes
        PROVE  \/ Begun(n)'
               \/ pc' \in TestParts /\ n.at = NextKid /\ n.part \in TestParts
    <3>1. CASE pc \in GroupParts
      <4>1. pc \in GroupSetups \/ pc = "after_all"
        BY <3>1 DEF GroupParts, GroupSetups
      <4>2. n.part \in GroupSetups \/ (pc' = "end" /\ n.part = "after_all")
        BY <1>2, <1>4, <4>1
      <4>3. QED
        BY <1>1, <1>4, <2>1, <3>1, <4>2 DEF Begun
    <3>2. CASE pc \in TestParts
      BY <1>2, <1>4, <3>2
    <3>3. QED
      BY <3>1, <3>2
  <2>4. QED
    BY <1>1, <1>7, <2>2, <2>3 DEF NodesPart
<1>10. Whole(made \cup nodes, frames) /\ GivenOf(made \cup nodes) = GivenOf(made)
  <2>1. Len(frames) \in 1..Len(frames)
    BY RunningFacts
  <2>2. ASSUME NEW n \in nodes
        PROVE  n.part # "given" /\ \A i \in 1..Len(frames) : ~MemberOf(frames, n.at, i)
    <3>1. n.at = frames[Len(frames)].at \/ n.at = NextKid
      BY <1>4
    <3>2. QED
      BY <1>4, <2>1, <3>1, NextIsOpen
  <2>3. QED
    BY <2>2, OpenNodesAdded
<1>11. WholePart' /\ DeletedPart'
  <2>1. deleted = SetToBag(GivenOf(made))
    BY DeletedNow
  <2>2. QED
    BY <1>1, <1>10, <2>1 DEF WholePart, DeletedPart
<1>12. QED
  BY <1>5, <1>6, <1>7, <1>8, <1>9, <1>11, GoesOn

(* A finished member more: it is whole if its own node is there and the places
   inside it have theirs. *)
LEMMA WholeGrows ==
  ASSUME NEW F \in Seq(OpenCall), F # <<>>, Nested(F), NEW M, NEW N, M \subseteq N, Placed(N),
         Whole(M, F),
         NEW q \in Seq(Nat), Len(q) = Len(F), \A j \in 1..Len(F) : q[j] = F[j].kids + 1,
         NEW part \in {"group", "test"}, Node(q, part) \in N,
         \A n \in N \ M : ~\E i \in 1..Len(F) : MemberOf(F, n.at, i),
         \A n \in N : Len(n.at) > Len(F) /\ (\A j \in 1..Len(F) : n.at[j] = q[j]) =>
                        \A i \in Len(F) + 1..Len(n.at) :
                          \E k \in {"group", "test"} : Node(SubSeq(n.at, 1, i), k) \in N
  PROVE  Whole(N, Pushed(F))
<1>1. PICK d : d = Len(F) /\ d \in Nat \ {0}
  BY PushedIs
<1>2. Len(Pushed(F)) = d
  BY <1>1, PushedIs
<1>3. ASSUME NEW n \in N, NEW j \in 1..d, MemberOf(Pushed(F), n.at, j), NEW i \in j..Len(n.at)
      PROVE  \E k \in {"group", "test"} : Node(SubSeq(n.at, 1, i), k) \in N
  <2>1. n.at \in Seq(Nat) /\ Len(n.at) \in Nat
    BY LenProperties DEF Placed
  <2>2. CASE MemberOf(F, n.at, j)
    <3>1. n \in M
      BY <1>1, <2>2
    <3>2. QED
      BY <1>1, <2>2, <3>1 DEF Whole
  <2>3. CASE ~MemberOf(F, n.at, j)
    <3>1. j = d /\ Len(n.at) >= d /\ \A l \in 1..d : n.at[l] = q[l]
      <4>1. \/ MemberOf(F, n.at, j)
            \/ j = d /\ Len(n.at) >= d /\ \A l \in 1..d : n.at[l] = F[l].kids + 1
        BY <1>1, <1>3, <2>1, PushedNested
      <4>2. QED
        BY <1>1, <2>3, <4>1
    <3>2. CASE i = d
      <4>1. \A l \in 1..d : n.at[l] \in Nat
        <5>1. \A l \in 1..d : l \in 1..Len(n.at)
          BY <1>1, <2>1, <3>1
        <5>2. QED
          BY <2>1, <5>1, ElementOfSeq
      <4>2. /\ SubSeq(n.at, 1, d) \in Seq(Nat)
            /\ Len(SubSeq(n.at, 1, d)) = (IF 1 <= d THEN d - 1 + 1 ELSE 0)
            /\ \A l \in 1..d - 1 + 1 : SubSeq(n.at, 1, d)[l] = n.at[1 + l - 1]
        BY <1>1, <4>1, SubSeqProperties
      <4>3. Len(SubSeq(n.at, 1, d)) = d /\ \A l \in 1..d : SubSeq(n.at, 1, d)[l] = q[l]
        BY <1>1, <3>1, <4>2
      <4>4. SubSeq(n.at, 1, d) = q
        BY <1>1, <4>2, <4>3, SeqEqual
      <4>5. QED
        BY <3>2, <4>4
    <3>3. CASE i # d
      <4>1. i \in d + 1..Len(n.at) /\ Len(n.at) > d
        BY <1>1, <2>1, <3>1, <3>3
      <4>2. QED
        BY <1>1, <3>1, <4>1
    <3>4. QED
      BY <3>2, <3>3
  <2>4. QED
    BY <2>2, <2>3
<1>4. QED
  BY <1>2, <1>3 DEF Whole

(* A node on the way to the member being parsed, and beyond it, is none of the
   test's nor of an open group's. *)
LEMMA NothingBeyond ==
  ASSUME IInv, Running, NEW n \in made, Len(n.at) > Len(frames),
         \A j \in 1..Len(frames) : n.at[j] = NextKid[j]
  PROVE  FALSE
<1>1. \A i \in 1..Len(frames) : ~MemberOf(frames, n.at, i)
  <2>1. \A j \in 1..Len(frames) : frames[j].kids \in Nat /\ n.at[j] = frames[j].kids + 1
    BY RunningFacts, CallFields
  <2>2. QED
    BY <2>1, RunningFacts, NotMember
<1>2. ~Begun(n)
  <2>1. \A i \in 1..Len(frames) : Len(frames[i].at) = i - 1
    BY RunningFacts DEF Nested
  <2>2. ASSUME NEW i \in 1..Len(frames), n.at = frames[i].at PROVE FALSE
    <3>1. Len(frames) \in Nat /\ Len(n.at) = i - 1 /\ i <= Len(frames)
      BY <2>1, <2>2, RunningFacts
    <3>2. QED
      BY <3>1
  <2>3. QED
    BY <2>2 DEF Begun
<1>3. n.at # NextKid
  BY RunningFacts
<1>4. QED
  BY <1>1, <1>2, <1>3 DEF IInv, NodesPart

LEMMA PartsOpen ==
  ASSUME IInv, Running, pc = "after", NEW nodes, nodes = {} \/ nodes = Built,
         NEW n \in nodes \cup {Node(NextKid, "test")}
  PROVE  n.at = NextKid /\ n.at \in Seq(Nat) /\ n.part \in Parts /\ n.part # "given"
<1>1. CASE n \in nodes
  BY <1>1, BuiltIs DEF TestParts, GroupParts
<1>2. CASE n = Node(NextKid, "test")
  BY <1>2, NodeFields, RunningFacts DEF Parts
<1>3. QED
  BY <1>1, <1>2

(* The test is constructed and pushed. *)
LEMMA AfterStep ==
  ASSUME IInv, Running, pc = "after", NEW nodes, nodes = {} \/ nodes = Built, PartDone(nodes),
         cur' \in Tokens \cup {"eof"}, left' \in 0..MaxTokens
  PROVE  IInv'
<1> DEFINE new == nodes \cup {Node(NextKid, "test")}
           d == Len(frames)
<1>1. /\ body' = FALSE /\ pc' = "tests" /\ frames' = Pushed(frames) /\ deleted' = deleted
      /\ made' = made \cup new
  BY PcIs DEF PartDone
<1>2. \A n \in new : n.at = NextKid /\ n.at \in Seq(Nat) /\ n.part \in Parts /\ n.part # "given"
  BY PartsOpen
<1>3. /\ frames' \in Seq(OpenCall) /\ Len(frames') = d /\ d \in Nat \ {0}
      /\ \A i \in 1..d : frames'[i].at = frames[i].at
  BY <1>1, RunningFacts, PushedIs
<1>4. /\ Nested(frames')
      /\ \A p \in Seq(Nat) : \A i \in 1..d : MemberOf(frames, p, i) => MemberOf(frames', p, i)
      /\ MemberOf(frames', NextKid, d)
  BY <1>1, RunningFacts, PushedNested
<1>5. Node(NextKid, "test") \in new
  OBVIOUS
<1> HIDE DEF new
<1>6. pc' \notin Ends /\ pc' \notin {"error", "unclosed", "done"}
  BY <1>1 DEF Ends
<1>7. TypeOK'
  <2>1. \A n \in made \cup new : n.at \in Seq(Nat) /\ n.part \in Parts
    BY <1>2 DEF IInv, TypeOK
  <2>2. frames' \in Seq([at : Seq(Nat), kids : Nat, named : BOOLEAN]) /\ frames' # <<>>
    BY <1>3, EmptySeq DEF OpenCall
  <2>3. IsABag(deleted) /\ BagToSet(deleted) \subseteq made \cup new
    BY DEF IInv, TypeOK
  <2>4. QED
    BY <1>1, <2>1, <2>2, <2>3 DEF TypeOK
<1>8. ControlPart' /\ NestedPart' /\ NamesPart'
  <2>1. NamesPart'
    BY <1>1, <1>3, NamesStay
  <2>2. QED
    BY <1>1, <1>4, <2>1 DEF ControlPart, NestedPart
<1>9. NodesPart'
  <2>1. ASSUME NEW n \in made
        PROVE  (\E i \in 1..d : MemberOf(frames', n.at, i)) \/ Begun(n)'
    <3>1. CASE \E i \in 1..d : MemberOf(frames, n.at, i)
      <4>1. n.at \in Seq(Nat)
        BY DEF IInv, TypeOK
      <4>2. QED
        BY <1>4, <3>1, <4>1
    <3>2. CASE Begun(n)
      BY <1>3, <3>2 DEF Begun
    <3>3. CASE n.at = NextKid
      BY <1>3, <1>4, <3>3
    <3>4. QED
      BY <3>1, <3>2, <3>3 DEF IInv, NodesPart
  <2>2. \A n \in new : MemberOf(frames', n.at, d)
    BY <1>2, <1>4
  <2>3. QED
    BY <1>1, <1>3, <2>1, <2>2 DEF NodesPart
<1>10. Whole(made \cup new, Pushed(frames))
  <2>1. Placed(made \cup new)
    BY <1>2, RunningFacts DEF Placed
  <2>2. \A n \in (made \cup new) \ made : ~\E i \in 1..d : MemberOf(frames, n.at, i)
    BY <1>2, NextIsOpen
  <2>3. \A n \in made \cup new : ~(Len(n.at) > d /\ \A j \in 1..d : n.at[j] = NextKid[j])
    BY <1>2, RunningFacts, NothingBeyond
  <2>4. Whole(made, frames)
    BY DEF IInv, WholePart
  <2>5. PICK M, q : M = made \cup new /\ q = NextKid
    OBVIOUS
  <2>6. /\ frames \in Seq(OpenCall) /\ frames # <<>> /\ Nested(frames)
        /\ q \in Seq(Nat) /\ Len(q) = d /\ \A j \in 1..d : q[j] = frames[j].kids + 1
    BY <2>5, RunningFacts
  <2>7. made \subseteq M /\ Placed(M) /\ Node(q, "test") \in M
    BY <1>5, <2>1, <2>5
  <2>8. \A n \in M : Len(n.at) > d /\ (\A j \in 1..d : n.at[j] = q[j]) =>
                        \A i \in d + 1..Len(n.at) :
                          \E k \in {"group", "test"} : Node(SubSeq(n.at, 1, i), k) \in M
    BY <2>3, <2>5
  <2>9. \A n \in M \ made : ~\E i \in 1..d : MemberOf(frames, n.at, i)
    BY <2>2, <2>5
  <2>10. Whole(M, Pushed(frames))
    BY <2>4, <2>6, <2>7, <2>8, <2>9, WholeGrows
  <2>11. QED
    BY <2>5, <2>10
<1>11. WholePart' /\ DeletedPart'
  <2>1. GivenOf(made \cup new) = GivenOf(made)
    BY <1>2 DEF GivenOf
  <2>2. deleted = SetToBag(GivenOf(made))
    BY DeletedNow
  <2>3. QED
    BY <1>1, <1>10, <2>1, <2>2 DEF WholePart, DeletedPart
<1>12. QED
  BY <1>6, <1>7, <1>8, <1>9, <1>11, GoesOn

(* A call more: the group at q, the member that the innermost call of F is
   parsing, is opened. *)
LEMMA EnteredIs ==
  ASSUME NEW F \in Seq(OpenCall), F # <<>>, NEW q \in Seq(Nat)
  PROVE  LET d == Len(F)
             G == Append([F EXCEPT ![d].named = TRUE], Frame(q))
         IN  /\ G \in Seq(OpenCall) /\ Len(G) = d + 1 /\ d \in Nat \ {0}
             /\ \A i \in 1..d : G[i].at = F[i].at /\ G[i].kids = F[i].kids
             /\ G[d + 1].at = q /\ G[d + 1].kids = 0
<1>1. PICK d : d = Len(F) /\ d \in Nat \ {0}
  BY EmptySeq, LenProperties
<1> DEFINE last == [F[d] EXCEPT !.named = TRUE]
           E == [F EXCEPT ![d] = last]
           G == Append(E, Frame(q))
<1>2. last \in OpenCall /\ last.at = F[d].at /\ last.kids = F[d].kids
  <2>1. PICK c \in OpenCall : c = F[d]
    BY <1>1, CallFields
  <2>2. LET e == [c EXCEPT !.named = TRUE] IN e \in OpenCall /\ e.at = c.at /\ e.kids = c.kids
    BY DEF OpenCall
  <2>3. QED
    BY <2>1, <2>2
<1> HIDE DEF last
<1>3. /\ E \in Seq(OpenCall) /\ Len(E) = d
      /\ \A i \in 1..d : E[i] = IF i = d THEN last ELSE F[i]
  BY <1>1, <1>2, ExceptSeq
<1>4. Frame(q) \in OpenCall /\ Frame(q).at = q /\ Frame(q).kids = 0
  BY DEF Frame, OpenCall
<1> HIDE DEF E
<1>5. /\ G \in Seq(OpenCall) /\ Len(G) = d + 1
      /\ (\A i \in 1..d : G[i] = E[i]) /\ G[d + 1] = Frame(q)
  BY <1>3, <1>4, AppendProperties
<1> HIDE DEF G
<1>6. \A i \in 1..d : G[i].at = F[i].at /\ G[i].kids = F[i].kids
  BY <1>2, <1>3, <1>5
<1>7. G[d + 1].at = q /\ G[d + 1].kids = 0
  BY <1>4, <1>5
<1>8. G = Append([F EXCEPT ![Len(F)].named = TRUE], Frame(q))
  BY <1>1 DEF G, E, last
<1>9. QED
  BY <1>1, <1>5, <1>6, <1>7, <1>8

(* A call that has just begun has finished nothing. *)
LEMMA EnteredNested ==
  ASSUME NEW F \in Seq(OpenCall), NEW d \in Nat, d = Len(F), Nested(F),
         NEW G \in Seq(OpenCall), Len(G) = d + 1,
         \A i \in 1..d : G[i].at = F[i].at /\ G[i].kids = F[i].kids,
         G[d + 1].kids = 0, Len(G[d + 1].at) = d, \A j \in 1..d : G[d + 1].at[j] = F[j].kids + 1
  PROVE  /\ Nested(G)
         /\ \A p \in Seq(Nat) : \A i \in 1..d : MemberOf(G, p, i) <=> MemberOf(F, p, i)
         /\ \A p \in Seq(Nat) : ~MemberOf(G, p, d + 1)
<1>1. \A i \in 1..d : \A j \in 1..i - 1 : j \in 1..d
  OBVIOUS
<1>2. ASSUME NEW i \in 1..d + 1
      PROVE  Len(G[i].at) = i - 1 /\ \A j \in 1..i - 1 : G[i].at[j] = G[j].kids + 1
  <2>1. CASE i \in 1..d
    <3>1. Len(F[i].at) = i - 1 /\ \A j \in 1..i - 1 : F[i].at[j] = F[j].kids + 1
      BY <2>1 DEF Nested
    <3>2. QED
      BY <1>1, <2>1, <3>1
  <2>2. CASE i = d + 1
    <3>1. i - 1 = d
      BY <2>2
    <3>2. QED
      BY <2>2, <3>1
  <2>3. QED
    BY <2>1, <2>2
<1>3. Nested(G)
  BY <1>2 DEF Nested
<1>4. ASSUME NEW p \in Seq(Nat), NEW i \in 1..d PROVE MemberOf(G, p, i) <=> MemberOf(F, p, i)
  <2>1. G[i].kids = F[i].kids /\ \A j \in 1..i - 1 : G[j].kids = F[j].kids
    BY <1>1
  <2>2. QED
    BY <2>1 DEF MemberOf
<1>5. ASSUME NEW p \in Seq(Nat) PROVE ~MemberOf(G, p, d + 1)
  BY DEF MemberOf
<1>6. QED
  BY <1>3, <1>4, <1>5

(* At the members of a group nothing of the next one is there. *)
LEMMA NextIsNew ==
  ASSUME IInv, pc = "tests"
  PROVE  Running /\ \A n \in made : n.at # NextKid
<1>1. Running
  BY DEF Running, Ends
<1>2. ~(pc \in TestParts)
  BY DEF TestParts
<1>3. ASSUME NEW n \in made, n.at = NextKid PROVE FALSE
  <2>1. (\E i \in 1..Len(frames) : MemberOf(frames, n.at, i)) \/ Begun(n)
    BY <1>1, <1>2 DEF IInv, NodesPart
  <2>2. QED
    BY <1>1, <1>3, <2>1, NextIsOpen DEF Begun
<1>4. QED
  BY <1>1, <1>3

LEMMA EnterGroupStep ==
  ASSUME IInv, pc = "tests", NEW n0 \in 0..5, EnterGroup(n0)
  PROVE  IInv'
<1> DEFINE d == Len(frames)
           given == Node(NextKid, "given")
           new == {given, Node(NextKid, "name")}
<1>1. /\ made' = made \cup new /\ deleted' = deleted (+) SetToBag({given})
      /\ frames' = Append([frames EXCEPT ![d].named = TRUE], Frame(NextKid))
      /\ pc' = "mockup_all" /\ body' = body /\ NextToken(n0)
  BY DEF EnterGroup, GivenDeleted
<1>2. Running /\ ~body
  BY DEF IInv, ControlPart, WithBody, GroupParts, TestParts, Running, Ends
<1>3. /\ frames' \in Seq(OpenCall) /\ Len(frames') = d + 1 /\ d \in Nat \ {0}
      /\ \A i \in 1..d : frames'[i].at = frames[i].at /\ frames'[i].kids = frames[i].kids
      /\ frames'[d + 1].at = NextKid /\ frames'[d + 1].kids = 0
  <2>1. PICK F, q : /\ F = frames /\ q = NextKid
                    /\ F \in Seq(OpenCall) /\ F # <<>> /\ q \in Seq(Nat)
    BY <1>2, RunningFacts
  <2>2. PICK G : G = Append([F EXCEPT ![Len(F)].named = TRUE], Frame(q))
    OBVIOUS
  <2>3. /\ G \in Seq(OpenCall) /\ Len(G) = Len(F) + 1 /\ Len(F) \in Nat \ {0}
        /\ \A i \in 1..Len(F) : G[i].at = F[i].at /\ G[i].kids = F[i].kids
        /\ G[Len(F) + 1].at = q /\ G[Len(F) + 1].kids = 0
    BY <2>1, <2>2, EnteredIs
  <2>4. frames' = G
    BY <1>1, <2>1, <2>2
  <2>5. QED
    BY <2>1, <2>3, <2>4
<1>4. /\ Nested(frames')
      /\ \A p \in Seq(Nat) : \A i \in 1..d : MemberOf(frames', p, i) <=> MemberOf(frames, p, i)
      /\ \A p \in Seq(Nat) : ~MemberOf(frames', p, d + 1)
  <2>1. Nested(frames) /\ frames \in Seq(OpenCall) /\ Len(NextKid) = d
        /\ \A j \in 1..d : NextKid[j] = frames[j].kids + 1
    BY <1>2, RunningFacts
  <2>2. PICK F, G, e : F = frames /\ G = frames' /\ e = d
    OBVIOUS
  <2>3. QED
    <3>1. /\ F \in Seq(OpenCall) /\ e \in Nat /\ e = Len(F) /\ Nested(F)
          /\ G \in Seq(OpenCall) /\ Len(G) = e + 1
      BY <1>3, <2>1, <2>2
    <3>2. /\ \A i \in 1..e : G[i].at = F[i].at /\ G[i].kids = F[i].kids
          /\ G[e + 1].kids = 0 /\ G[e + 1].at = NextKid
      BY <1>3, <2>2
    <3>3. Len(G[e + 1].at) = e /\ \A j \in 1..e : G[e + 1].at[j] = F[j].kids + 1
      BY <2>1, <2>2, <3>2
    <3>4. /\ Nested(G)
          /\ \A p \in Seq(Nat) : \A i \in 1..e : MemberOf(G, p, i) <=> MemberOf(F, p, i)
          /\ \A p \in Seq(Nat) : ~MemberOf(G, p, e + 1)
      BY <3>1, <3>2, <3>3, EnteredNested
    <3>5. QED
      BY <2>2, <3>4
<1>5. /\ \A n \in new : n.at = NextKid /\ n.at \in Seq(Nat) /\ n.part \in Parts \cap {"name", "given"}
      /\ given.at = NextKid /\ given.part = "given" /\ given \in new
      /\ \A n \in new : n.part = "given" => n = given
  BY <1>2, NodeFields, RunningFacts DEF Parts
<1>6. given \notin made
  BY <1>5, NextIsNew
<1> HIDE DEF new, given
<1>7. pc' \notin Ends /\ pc' \notin {"error", "unclosed", "done"} /\ pc' \in DOMAIN Following
  BY <1>1, PcIs DEF Ends, GroupParts
<1>8. TypeOK'
  <2>1. \A n \in made \cup new : n.at \in Seq(Nat) /\ n.part \in Parts
    BY <1>5 DEF IInv, TypeOK
  <2>2. frames' \in Seq([at : Seq(Nat), kids : Nat, named : BOOLEAN]) /\ frames' # <<>>
    BY <1>3, EmptySeq DEF OpenCall
  <2>3. IsABag(deleted') /\ BagToSet(deleted') \subseteq made \cup new
    <3>1. IsABag(deleted) /\ BagToSet(deleted) \subseteq made
      BY DEF IInv, TypeOK
    <3>2. IsABag(SetToBag({given})) /\ BagToSet(SetToBag({given})) = {given}
      BY SetToBagIsABag
    <3>3. IsABag(deleted') /\ BagToSet(deleted') = BagToSet(deleted) \cup {given}
      BY <1>1, <3>1, <3>2, BagSum
    <3>4. QED
      BY <1>5, <3>1, <3>3
  <2>4. cur' \in Tokens \cup {"eof"} /\ left' \in 0..MaxTokens
    BY <1>1, TokenTypes DEF IInv
  <2>5. body' \in BOOLEAN
    BY <1>1 DEF IInv, TypeOK
  <2>6. QED
    BY <1>1, <1>7, <2>1, <2>2, <2>3, <2>4, <2>5 DEF TypeOK
<1>9. ControlPart' /\ NestedPart' /\ NamesPart'
  <2>1. Node(NextKid, "name") \in made'
    BY <1>1 DEF new
  <2>2. \A i \in 1..d + 1 : i \in 1..d \/ i = d + 1
    BY <1>3
  <2>3. NamesPart'
    BY <1>1, <1>2, <1>3, <2>1, <2>2, NamesStay
  <2>4. QED
    BY <1>1, <1>2, <1>4, <2>3 DEF ControlPart, NestedPart
<1>10. NodesPart'
  <2>1. ASSUME NEW n \in made
        PROVE  (\E i \in 1..d + 1 : MemberOf(frames', n.at, i)) \/ Begun(n)'
    <3>1. CASE \E i \in 1..d : MemberOf(frames, n.at, i)
      <4>1. n.at \in Seq(Nat)
        BY DEF IInv, TypeOK
      <4>2. PICK i \in 1..d : MemberOf(frames, n.at, i)
        BY <3>1
      <4>3. i \in 1..d + 1
        BY <1>3
      <4>4. QED
        BY <1>4, <4>1, <4>2, <4>3
    <3>2. CASE Begun(n)
      <4>1. PICK i \in 1..d : n.at = frames[i].at /\ n.part \in {"name", "given"} \cup GroupSetups
        BY <3>2 DEF Begun
      <4>2. i \in 1..Len(frames') /\ n.at = frames'[i].at
        BY <1>3, <4>1
      <4>3. QED
        BY <4>1, <4>2 DEF Begun
    <3>3. ~(pc \in TestParts)
      BY DEF TestParts
    <3>4. QED
      BY <1>2, <3>1, <3>2, <3>3 DEF IInv, NodesPart
  <2>2. ASSUME NEW n \in new PROVE Begun(n)'
    <3>1. d + 1 \in 1..Len(frames') /\ n.at = frames'[d + 1].at
      BY <1>3, <1>5
    <3>2. n.part \in {"name", "given"} \cup GroupSetups
      BY <1>5
    <3>3. QED
      BY <3>1, <3>2 DEF Begun
  <2>3. QED
    BY <1>1, <1>3, <2>1, <2>2 DEF NodesPart
<1>11. Whole(made', frames')
  <2>1. ASSUME NEW n \in made', NEW j \in 1..d + 1, MemberOf(frames', n.at, j), NEW i \in j..Len(n.at)
        PROVE  \E part \in {"group", "test"} : Node(SubSeq(n.at, 1, i), part) \in made'
    <3>1. n.at \in Seq(Nat)
      BY <1>8, <2>1 DEF TypeOK
    <3>2. j \in 1..d
      <4>1. j # d + 1
        BY <1>4, <2>1, <3>1
      <4>2. QED
        BY <1>3, <4>1
    <3>3. MemberOf(frames, n.at, j)
      BY <1>4, <2>1, <3>1, <3>2
    <3>4. n \in made
      BY <1>1, <1>2, <1>5, <3>2, <3>3, NextIsOpen
    <3>5. Whole(made, frames)
      BY <1>2 DEF IInv, WholePart
    <3>6. \E part \in {"group", "test"} : Node(SubSeq(n.at, 1, i), part) \in made
      BY <3>2, <3>3, <3>4, <3>5 DEF Whole
    <3>7. QED
      BY <1>1, <3>6
  <2>2. QED
    BY <1>3, <2>1 DEF Whole
<1>12. DeletedPart'
  <2>1. GivenOf(made') = GivenOf(made) \cup {given}
    BY <1>1, <1>5 DEF GivenOf
  <2>2. deleted = SetToBag(GivenOf(made))
    BY <1>2, DeletedNow
  <2>3. given \notin GivenOf(made)
    BY <1>6 DEF GivenOf
  <2>4. SetToBag(GivenOf(made)) (+) SetToBag({given}) = SetToBag(GivenOf(made) \cup {given})
    BY <2>3, OneMore
  <2>5. QED
    BY <1>1, <2>1, <2>2, <2>4 DEF DeletedPart
<1>13. QED
  BY <1>7, <1>8, <1>9, <1>10, <1>11, <1>12, GoesOn DEF WholePart

LEMMA GroupWithoutBraceStep ==
  ASSUME IInv, GroupWithoutBrace
  PROVE  IInv'
<1> DEFINE C == Caught(made, frames)
           given == Node(NextKid, "given")
           S == GivenOf(made) \cup {given}
<1>1. /\ pc = "tests" /\ pc' = "error" /\ body' = body /\ frames' = frames
      /\ made' = made \cup {given}
      /\ cur' = cur /\ left' = left /\ deleted' = (deleted (+) SetToBag({given})) (+) C
  BY DEF GroupWithoutBrace
<1>2. Running /\ ~body /\ pc # "end"
  BY <1>1 DEF IInv, ControlPart, WithBody, GroupParts, TestParts, Running, Ends
<1>3. given.at = NextKid /\ given.at \in Seq(Nat) /\ given.part = "given" /\ given.part \in Parts
  BY <1>2, NodeFields, RunningFacts DEF Parts
<1>4. given \notin made
  BY <1>1, <1>3, NextIsNew
<1>5. DOMAIN C \subseteq made /\ \A n \in DOMAIN C : C[n] = 1 /\ n.part # "given"
  BY <1>2, RunningFacts, CaughtOnce
<1>6. IsABag(C) /\ BagToSet(C) \subseteq made
  BY <1>2, RunningFacts, CaughtIsABag
<1> HIDE DEF C, given
<1>7. deleted (+) SetToBag({given}) = SetToBag(S)
  <2>1. given \notin GivenOf(made)
    BY <1>4 DEF GivenOf
  <2>2. QED
    BY <1>2, <2>1, DeletedNow, OneMore
<1>8. S \subseteq made' /\ \A n \in S : n.part = "given"
  BY <1>1, <1>3 DEF GivenOf
<1>9. GivenOf(made') = S
  BY <1>1, <1>3 DEF GivenOf
<1> HIDE DEF S
<1>10. deleted' = SetToBag(S) (+) C
  BY <1>1, <1>7
<1>11. DOMAIN deleted' = S \cup DOMAIN C
       /\ \A n \in S \cup DOMAIN C :
            deleted'[n] = (IF n \in S THEN 1 ELSE 0) + (IF n \in DOMAIN C THEN C[n] ELSE 0)
  <2>1. PICK B : B = SetToBag(S) /\ DOMAIN B = S /\ \A n \in S : B[n] = 1
    BY SetBag
  <2>2. /\ DOMAIN (B (+) C) = S \cup DOMAIN C
        /\ \A n \in S \cup DOMAIN C :
             (B (+) C)[n] = (IF n \in S THEN B[n] ELSE 0) + (IF n \in DOMAIN C THEN C[n] ELSE 0)
    BY <2>1, BagsIs
  <2>3. deleted' = B (+) C
    BY <1>10, <2>1
  <2>4. QED
    BY <2>1, <2>2, <2>3
<1>12. TypeOK'
  <2>1. IsABag(deleted') /\ BagToSet(deleted') = S \cup BagToSet(C)
    BY <1>6, <1>10, SetToBagIsABag, BagSum
  <2>2. BagToSet(deleted') \subseteq made'
    BY <1>1, <1>6, <1>8, <2>1
  <2>3. \A n \in made' : n.at \in Seq(Nat) /\ n.part \in Parts
    BY <1>1, <1>3 DEF IInv, TypeOK
  <2>4. pc' \in Ends
    BY <1>1 DEF Ends
  <2>5. QED
    BY <1>1, <2>1, <2>2, <2>3, <2>4 DEF IInv, TypeOK
<1>13. DeletedOnce'
  <2>1. ASSUME NEW n \in S \cup DOMAIN C PROVE deleted'[n] = 1
    BY <1>5, <1>8, <1>11, <2>1
  <2>2. QED
    BY <1>11, <2>1 DEF DeletedOnce, BagToSet
<1>14. LeaksAreUnfinished'
  <2>1. ASSUME NEW n \in made' \ DOMAIN deleted'
        PROVE  \/ n.part = "name" /\ \E i \in 1..Len(frames) : n.at = frames[i].at
               \/ n.part \in TestParts /\ n.at = NextKid
    <3>1. n \notin S /\ n \notin DOMAIN C
      BY <1>11, <2>1
    <3>2. n.part # "given" /\ n \in made
      BY <1>1, <1>3, <1>9, <2>1, <3>1 DEF GivenOf
    <3>3. QED
      BY <1>2, <3>1, <3>2, LeftOver DEF C
  <2>2. Live' = made' \ DOMAIN deleted' /\ NextKid' = NextKid
    BY <1>1 DEF Live, BagToSet, NextKid, Top
  <2>3. QED
    BY <1>1, <2>1, <2>2 DEF LeaksAreUnfinished
<1>15. /\ ControlPart' /\ NestedPart' /\ NodesPart' /\ NamesPart' /\ WholePart' /\ DeletedPart'
       /\ TreeIsWhole'
  BY <1>1, <1>2 DEF ControlPart, NestedPart, NodesPart, NamesPart, WholePart, DeletedPart, TreeIsWhole,
                 Running, Ends
<1>16. QED
  BY <1>12, <1>13, <1>14, <1>15 DEF IInv

(* A call less: the group it was parsing is the member that the one around it
   is parsing. *)
LEMMA OuterNested ==
  ASSUME NEW F \in Seq(OpenCall), NEW e \in Nat \ {0}, Len(F) = e + 1, Nested(F),
         NEW O \in Seq(OpenCall), Len(O) = e, \A i \in 1..e : O[i] = F[i]
  PROVE  /\ Nested(O)
         /\ \A p \in Seq(Nat) : \A i \in 1..e : MemberOf(O, p, i) <=> MemberOf(F, p, i)
         /\ Len(F[e + 1].at) = e /\ \A j \in 1..e : F[e + 1].at[j] = O[j].kids + 1
<1>1. \A i \in 1..e : \A j \in 1..i - 1 : j \in 1..e
  OBVIOUS
<1>2. \A i \in 1..e + 1 : Len(F[i].at) = i - 1 /\ \A j \in 1..i - 1 : F[i].at[j] = F[j].kids + 1
  BY DEF Nested
<1>3. ASSUME NEW i \in 1..e
      PROVE  Len(O[i].at) = i - 1 /\ \A j \in 1..i - 1 : O[i].at[j] = O[j].kids + 1
  <2>1. i \in 1..e + 1
    OBVIOUS
  <2>2. QED
    BY <1>1, <1>2, <2>1
<1>4. Nested(O)
  BY <1>3 DEF Nested
<1>5. ASSUME NEW p \in Seq(Nat), NEW i \in 1..e PROVE MemberOf(O, p, i) <=> MemberOf(F, p, i)
  <2>1. O[i].kids = F[i].kids /\ \A j \in 1..i - 1 : O[j].kids = F[j].kids
    BY <1>1
  <2>2. QED
    BY <2>1 DEF MemberOf
<1>6. Len(F[e + 1].at) = e /\ \A j \in 1..e : F[e + 1].at[j] = O[j].kids + 1
  <2>1. e + 1 \in 1..e + 1 /\ e + 1 - 1 = e
    OBVIOUS
  <2>2. QED
    BY <1>2, <2>1
<1>7. QED
  BY <1>4, <1>5, <1>6

(* O are the calls that are left when the innermost one returns, G the same with
   the group it parsed, at q, among the members. *)
Returned(O, G, e, q) ==
  /\ e \in Nat \ {0} /\ Len(frames) = e + 1 /\ q = frames[e + 1].at
  /\ q \in Seq(Nat) /\ Len(q) = e /\ \A j \in 1..e : q[j] = O[j].kids + 1 /\ O[j] = frames[j]
  /\ O \in Seq(OpenCall) /\ O # <<>> /\ Len(O) = e /\ Nested(O)
  /\ \A p \in Seq(Nat) : \A i \in 1..e : MemberOf(O, p, i) <=> MemberOf(frames, p, i)
  /\ G \in Seq(OpenCall) /\ G # <<>> /\ Len(G) = e /\ Nested(G)
  /\ \A i \in 1..e : G[i].at = frames[i].at
  /\ \A p \in Seq(Nat) : \A i \in 1..e : MemberOf(frames, p, i) => MemberOf(G, p, i)
  /\ \A p \in Seq(Nat) :
       Len(p) >= e /\ (\A j \in 1..e : p[j] = q[j]) => MemberOf(G, p, e)

(* The calls when the innermost one returns its group at q. *)
LEMMA ReturnFacts ==
  ASSUME IInv, Running, Len(frames) > 1,
         NEW O, O = Outer, NEW G, G = Pushed(O), NEW e, e = Len(frames) - 1, NEW q, q = Top.at
  PROVE  Returned(O, G, e, q)
<1>1. /\ e \in Nat \ {0} /\ Len(frames) = e + 1 /\ q = frames[e + 1].at /\ q \in Seq(Nat)
      /\ frames \in Seq(OpenCall) /\ Nested(frames)
  <2>1. Len(frames) \in Nat \ {0} /\ Top = frames[Len(frames)] /\ Top.at \in Seq(Nat)
        /\ frames \in Seq(OpenCall) /\ Nested(frames)
    BY RunningFacts
  <2>2. e \in Nat \ {0} /\ Len(frames) = e + 1
    BY <2>1
  <2>3. QED
    BY <2>1, <2>2
<1>2. PICK F : F = frames
  OBVIOUS
<1>3. O = SubSeq(F, 1, Len(F) - 1)
  BY <1>2 DEF Outer
<1>4. O \in Seq(OpenCall) /\ Len(O) = e /\ O # <<>> /\ \A i \in 1..e : O[i] = F[i]
  BY <1>1, <1>2, <1>3, OuterIs
<1>5. /\ Nested(O)
      /\ \A p \in Seq(Nat) : \A i \in 1..e : MemberOf(O, p, i) <=> MemberOf(F, p, i)
      /\ Len(F[e + 1].at) = e /\ \A j \in 1..e : F[e + 1].at[j] = O[j].kids + 1
  <2>1. /\ F \in Seq(OpenCall) /\ Nested(F) /\ e \in Nat \ {0} /\ Len(F) = e + 1
        /\ O \in Seq(OpenCall) /\ Len(O) = e /\ \A i \in 1..e : O[i] = F[i]
    BY <1>1, <1>2, <1>4
  <2>2. QED
    BY <2>1, OuterNested
<1>6. G \in Seq(OpenCall) /\ Len(G) = e /\ \A i \in 1..e : G[i].at = O[i].at
  BY <1>4, PushedIs
<1>7. G # <<>>
  BY <1>1, <1>6, EmptySeq
<1>8. /\ Nested(G)
      /\ \A p \in Seq(Nat) : \A i \in 1..e : MemberOf(O, p, i) => MemberOf(G, p, i)
      /\ \A p \in Seq(Nat) :
           Len(p) >= e /\ (\A j \in 1..e : p[j] = O[j].kids + 1) => MemberOf(G, p, e)
  <2>1. PICK H : H = Pushed(O) /\ H = G
    OBVIOUS
  <2>2. /\ Nested(Pushed(O))
        /\ \A p \in Seq(Nat) : \A i \in 1..Len(O) : MemberOf(O, p, i) => MemberOf(Pushed(O), p, i)
        /\ \A p \in Seq(Nat) :
             Len(p) >= Len(O) /\ (\A j \in 1..Len(O) : p[j] = O[j].kids + 1) =>
               MemberOf(Pushed(O), p, Len(O))
    BY <1>4, <1>5, PushedNested
  <2>3. QED
    BY <1>4, <2>2
<1>9. \A j \in 1..e : q[j] = O[j].kids + 1
  BY <1>1, <1>2, <1>5
<1>10. QED
  BY <1>1, <1>2, <1>4, <1>5, <1>6, <1>7, <1>8, <1>9 DEF Returned

LEMMA LeaveGroupStep ==
  ASSUME IInv, Running, LeaveGroup
  PROVE  IInv'
<1> DEFINE d == Len(frames)
<1>1. PICK O, G, e, q, own :
        O = Outer /\ G = Pushed(O) /\ e = d - 1 /\ q = Top.at /\ own = Node(q, "group")
  OBVIOUS
<1>2. /\ pc \in {"end", "tests"} /\ d > 1 /\ NextToken(1)
      /\ made' = made \cup {own} /\ frames' = G /\ pc' = "tests" /\ body' = body /\ deleted' = deleted
  BY <1>1 DEF LeaveGroup, EndOfGroup
<1>3. /\ e \in Nat \ {0} /\ d = e + 1 /\ q = frames[e + 1].at
      /\ q \in Seq(Nat) /\ Len(q) = e /\ \A j \in 1..e : q[j] = O[j].kids + 1 /\ O[j] = frames[j]
      /\ O \in Seq(OpenCall) /\ O # <<>> /\ Len(O) = e /\ Nested(O)
      /\ \A p \in Seq(Nat) : \A i \in 1..e : MemberOf(O, p, i) <=> MemberOf(frames, p, i)
      /\ G \in Seq(OpenCall) /\ G # <<>> /\ Len(G) = e /\ Nested(G)
      /\ \A i \in 1..e : G[i].at = frames[i].at
      /\ \A p \in Seq(Nat) : \A i \in 1..e : MemberOf(frames, p, i) => MemberOf(G, p, i)
      /\ \A p \in Seq(Nat) :
           Len(p) >= e /\ (\A j \in 1..e : p[j] = q[j]) => MemberOf(G, p, e)
  <2>1. Len(frames) > 1 /\ e = Len(frames) - 1
    BY <1>1, <1>2
  <2>2. Returned(O, G, e, q)
    BY <1>1, <2>1, ReturnFacts
  <2>3. QED
    BY <1>1, <2>2 DEF Returned
<1>4. own.at = q /\ own.part = "group" /\ own.part \in Parts
  BY <1>1, NodeFields DEF Parts
<1>5. ~body /\ pc \notin TestParts
  BY <1>2 DEF IInv, ControlPart, WithBody, GroupParts, TestParts
<1>6. TypeOK'
  <2>1. \A n \in made' : n.at \in Seq(Nat) /\ n.part \in Parts
    BY <1>2, <1>3, <1>4 DEF IInv, TypeOK
  <2>2. frames' \in Seq([at : Seq(Nat), kids : Nat, named : BOOLEAN]) /\ frames' # <<>>
    BY <1>2, <1>3 DEF OpenCall
  <2>3. cur' \in Tokens \cup {"eof"} /\ left' \in 0..MaxTokens
    BY <1>2, TokenTypes DEF IInv
  <2>4. IsABag(deleted) /\ BagToSet(deleted) \subseteq made'
    BY <1>2 DEF IInv, TypeOK
  <2>5. body' \in BOOLEAN /\ pc' \in DOMAIN Following \cup {"tests", "end"} \cup Ends
    BY <1>2 DEF IInv, TypeOK
  <2>6. IsABag(deleted') /\ BagToSet(deleted') \subseteq made'
    BY <1>2, <2>4
  <2>7. QED
    BY <2>1, <2>2, <2>3, <2>5, <2>6 DEF TypeOK
<1>7. ControlPart' /\ NestedPart' /\ NamesPart'
  <2>1. \A i \in 1..e : i \in 1..d
    BY <1>3
  <2>2. NamesPart'
    BY <1>2, <1>3, <2>1, NamesStay
  <2>3. QED
    BY <1>2, <1>3, <1>5, <2>2 DEF ControlPart, NestedPart
<1>8. \A n \in made : \/ \E i \in 1..d : MemberOf(frames, n.at, i)
                      \/ Begun(n)
  BY <1>5 DEF IInv, NodesPart
<1>9. \A n \in made : n.at \in Seq(Nat) /\ Len(n.at) \in Nat
  BY LenProperties DEF IInv, TypeOK
<1>10. \A j \in 1..e : q[j] = frames[j].kids + 1 /\ frames[j].kids \in Nat
  <2>1. \A j \in 1..e : O[j].kids \in Nat
    BY <1>3, CallFields
  <2>2. QED
    BY <1>3, <2>1
<1>10a. e \in 1..e /\ \A i \in 1..d : i = e + 1 \/ i \in 1..e
  <2>1. e \in Nat \ {0} /\ d = e + 1
    BY <1>3
  <2>2. QED
    BY <2>1
<1>11. NodesPart'
  <2>1. MemberOf(G, own.at, e)
    <3>1. \A p \in Seq(Nat) : Len(p) >= e /\ (\A j \in 1..e : p[j] = q[j]) => MemberOf(G, p, e)
      BY <1>3
    <3>2. e \in Nat /\ q \in Seq(Nat) /\ Len(q) = e
      BY <1>3
    <3>3. MemberOf(G, q, e)
      BY <3>1, <3>2
    <3>4. QED
      BY <1>4, <3>3
  <2>2. ASSUME NEW n \in made
        PROVE  (\E i \in 1..e : MemberOf(G, n.at, i)) \/ Begun(n)'
    <3>1. ASSUME NEW i \in 1..d, MemberOf(frames, n.at, i)
          PROVE  \E k \in 1..e : MemberOf(G, n.at, k)
      <4>1. CASE i \in 1..e
        BY <1>3, <1>9, <3>1, <4>1
      <4>2. CASE i = e + 1
        <5>1. Len(n.at) >= e /\ \A j \in 1..e : n.at[j] = frames[j].kids + 1
          BY <1>3, <1>9, <3>1, <4>2 DEF MemberOf
        <5>2. MemberOf(G, n.at, e)
          <6>1. PICK p \in Seq(Nat) : p = n.at
            BY <1>9
          <6>2. Len(p) >= e /\ \A j \in 1..e : p[j] = q[j]
            BY <1>10, <5>1, <6>1
          <6>3. \A t \in Seq(Nat) : Len(t) >= e /\ (\A j \in 1..e : t[j] = q[j]) => MemberOf(G, t, e)
            BY <1>3
          <6>4. MemberOf(G, p, e)
            BY <6>2, <6>3
          <6>5. QED
            BY <6>1, <6>4
        <5>3. QED
          BY <1>10a, <5>2
      <4>3. QED
        BY <1>10a, <3>1, <4>1, <4>2
    <3>2. ASSUME Begun(n) PROVE (\E i \in 1..e : MemberOf(G, n.at, i)) \/ Begun(n)'
      <4>1. PICK i \in 1..d : /\ n.at = frames[i].at
                              /\ \/ n.part \in {"name", "given"} \cup GroupSetups
                                 \/ pc = "end" /\ i = d /\ n.part = "after_all"
        BY <3>2 DEF Begun
      <4>2. CASE i = e + 1
        <5>1. MemberOf(G, n.at, e)
          BY <1>3, <2>1, <1>4, <4>1, <4>2
        <5>2. QED
          BY <1>10a, <5>1
      <4>3. CASE i \in 1..e
        <5>1. n.part \in {"name", "given"} \cup GroupSetups
          BY <1>3, <4>1, <4>3
        <5>2. n.at = frames'[i].at /\ i \in 1..Len(frames')
          BY <1>2, <1>3, <4>1, <4>3
        <5>3. QED
          BY <5>1, <5>2 DEF Begun
      <4>4. QED
        BY <1>10a, <4>2, <4>3
    <3>3. QED
      BY <1>8, <3>1, <3>2
  <2>3. QED
    BY <1>2, <1>3, <2>2, <2>1 DEF NodesPart
<1>12. Whole(made', G)
  <2>1. Placed(made')
    BY <1>2, <1>3, <1>4, <1>9 DEF Placed
  <2>2. ASSUME NEW i \in 1..e PROVE ~MemberOf(O, q, i)
    BY <1>3, <1>10, NotMember DEF MemberOf
  <2>3. \A n \in made' \ made : ~\E i \in 1..e : MemberOf(O, n.at, i)
    BY <1>2, <1>4, <2>2
  <2>4. Whole(made, frames)
    BY DEF IInv, WholePart
  <2>5. Whole(made, O)
    <3>1. \A n \in made : \A i \in 1..e : MemberOf(O, n.at, i) => MemberOf(frames, n.at, i) /\ i \in 1..d
      BY <1>3, <1>9
    <3>2. QED
      BY <1>3, <2>4, <3>1 DEF Whole
  <2>6. ASSUME NEW n \in made', Len(n.at) > e, \A j \in 1..e : n.at[j] = q[j], NEW i \in e + 1..Len(n.at)
        PROVE  \E part \in {"group", "test"} : Node(SubSeq(n.at, 1, i), part) \in made'
    <3>1. n \in made
      BY <1>2, <1>3, <1>4, <2>6
    <3>2. ~Begun(n)
      <4>1. ASSUME NEW k \in 1..d, n.at = frames[k].at PROVE FALSE
        <5>1. Len(frames[k].at) = k - 1
          BY RunningFacts DEF Nested
        <5>2. QED
          BY <1>3, <2>6, <4>1, <5>1
      <4>2. QED
        BY <4>1 DEF Begun
    <3>3. PICK k \in 1..d : MemberOf(frames, n.at, k)
      BY <1>8, <3>1, <3>2
    <3>4. k = d
      <4>1. CASE k \in 1..e
        <5>1. n.at[k] = frames[k].kids + 1 /\ frames[k].kids \in Nat
          BY <1>10, <2>6, <4>1
        <5>2. QED
          BY <3>3, <5>1 DEF MemberOf
      <4>2. QED
        BY <1>3, <4>1
    <3>5. i \in k..Len(n.at)
      BY <1>3, <3>4
    <3>6. \E part \in {"group", "test"} : Node(SubSeq(n.at, 1, i), part) \in made
      BY <2>4, <3>1, <3>3, <3>5 DEF Whole
    <3>7. QED
      BY <1>2, <3>6
  <2>7. PICK M : M = made'
    OBVIOUS
  <2>8. made \subseteq M /\ Node(q, "group") \in M /\ Placed(M)
    BY <1>1, <1>2, <2>1, <2>7
  <2>9. /\ \A n \in M \ made : ~\E i \in 1..Len(O) : MemberOf(O, n.at, i)
        /\ \A n \in M : Len(n.at) > Len(O) /\ (\A j \in 1..Len(O) : n.at[j] = q[j]) =>
                          \A i \in Len(O) + 1..Len(n.at) :
                            \E k \in {"group", "test"} : Node(SubSeq(n.at, 1, i), k) \in M
    BY <1>3, <2>3, <2>6, <2>7
  <2>10. q \in Seq(Nat) /\ Len(q) = Len(O) /\ \A j \in 1..Len(O) : q[j] = O[j].kids + 1
    BY <1>3
  <2>11. Whole(M, Pushed(O))
    <3>1. O \in Seq(OpenCall) /\ O # <<>> /\ Nested(O) /\ q \in Seq(Nat)
      BY <1>3
    <3>2. QED
      BY <2>5, <2>8, <2>9, <2>10, <3>1, WholeGrows
  <2>12. QED
    BY <1>1, <2>7, <2>11
<1>13. WholePart' /\ DeletedPart'
  <2>1. GivenOf(made') = GivenOf(made)
    BY <1>2, <1>4 DEF GivenOf
  <2>2. deleted = SetToBag(GivenOf(made))
    BY DeletedNow
  <2>3. QED
    BY <1>2, <1>12, <2>1, <2>2 DEF WholePart, DeletedPart
<1>14. pc' \notin {"error", "unclosed", "done"}
  BY <1>2
<1>15. QED
  BY <1>6, <1>7, <1>11, <1>13, <1>14, GoesOn

LEMMA UnclosedGroupStep ==
  ASSUME IInv, Running, UnclosedGroup
  PROVE  IInv'
<1>1. PICK O, G, e, q, own :
        /\ O = Outer /\ G = Pushed(O) /\ e = Len(frames) - 1 /\ q = Top.at /\ own = Node(q, "group")
  OBVIOUS
<1>2. PICK A, B, C : /\ A = SetToBag({Node(q, "name")}) /\ B = SetToBag(Owned(made', q))
                     /\ C = Caught(made', G)
  OBVIOUS
<1>3. /\ pc \in {"end", "tests"} /\ Len(frames) > 1 /\ made' = made \cup {own} /\ frames' = G
      /\ pc' = "unclosed" /\ body' = body /\ cur' = cur /\ left' = left
      /\ deleted' = ((deleted (+) A) (+) B) (+) C
  BY <1>1, <1>2 DEF UnclosedGroup, EndOfGroup
<1>4. /\ e \in Nat \ {0} /\ Len(frames) = e + 1 /\ q = frames[e + 1].at /\ q \in Seq(Nat)
      /\ G \in Seq(OpenCall) /\ G # <<>>
  <2>1. Len(frames) > 1 /\ e = Len(frames) - 1
    BY <1>1, <1>3
  <2>2. Returned(O, G, e, q)
    BY <1>1, <2>1, ReturnFacts
  <2>3. QED
    BY <2>2 DEF Returned
<1>5. own.at = q /\ own.part \in Parts
  BY <1>1, NodeFields DEF Parts
<1>6. \A n \in made' : n.at \in Seq(Nat) /\ n.part \in Parts
  BY <1>3, <1>4, <1>5 DEF IInv, TypeOK
<1>7. IsABag(deleted') /\ BagToSet(deleted') \subseteq made'
  <2>1. IsABag(deleted) /\ BagToSet(deleted) \subseteq made'
    BY <1>3 DEF IInv, TypeOK
  <2>2. IsABag(A) /\ BagToSet(A) \subseteq made'
    <3>1. Node(q, "name") \in made
      BY <1>4 DEF IInv, NamesPart
    <3>2. QED
      BY <1>2, <1>3, <3>1, SetToBagIsABag
  <2>3. IsABag(B) /\ BagToSet(B) \subseteq made'
    <3>1. Owned(made', q) \subseteq made'
      BY DEF Owned
    <3>2. QED
      BY <1>2, <3>1, SetToBagIsABag
  <2>4. IsABag(C) /\ BagToSet(C) \subseteq made'
    BY <1>2, <1>4, CaughtIsABag
  <2>5. IsABag(deleted (+) A) /\ BagToSet(deleted (+) A) \subseteq made'
    BY <2>1, <2>2, BagSum
  <2>6. IsABag((deleted (+) A) (+) B) /\ BagToSet((deleted (+) A) (+) B) \subseteq made'
    BY <2>3, <2>5, BagSum
  <2>7. IsABag(((deleted (+) A) (+) B) (+) C) /\ BagToSet(((deleted (+) A) (+) B) (+) C) \subseteq made'
    BY <2>4, <2>6, BagSum
  <2>8. QED
    BY <1>3, <2>7
<1>8. TypeOK'
  <2>1. frames' \in Seq([at : Seq(Nat), kids : Nat, named : BOOLEAN]) /\ frames' # <<>>
    BY <1>3, <1>4 DEF OpenCall
  <2>2. pc' \in Ends
    BY <1>3 DEF Ends
  <2>3. /\ cur' \in Tokens \cup {"eof"} /\ left' \in 0..MaxTokens /\ body' \in BOOLEAN
    BY <1>3 DEF IInv, TypeOK
  <2>4. QED
    BY <1>6, <1>7, <2>1, <2>2, <2>3 DEF TypeOK
<1>9. /\ NestedPart' /\ NodesPart' /\ NamesPart' /\ WholePart' /\ DeletedPart'
      /\ DeletedOnce' /\ TreeIsWhole' /\ LeaksAreUnfinished'
  BY <1>3 DEF NestedPart, NodesPart, NamesPart, WholePart, DeletedPart, DeletedOnce, TreeIsWhole,
              LeaksAreUnfinished, Running, Ends
<1>10. ControlPart'
  BY <1>3 DEF IInv, ControlPart, WithBody, GroupParts, TestParts
<1>11. QED
  BY <1>8, <1>9, <1>10 DEF IInv

(* What is left of a whole file. *)
LEMMA EndFileStep ==
  ASSUME IInv, Running, EndFile
  PROVE  IInv'
<1> DEFINE root == Node(<<>>, "group")
<1>1. /\ pc \in {"end", "tests"} /\ Len(frames) = 1 /\ made' = made \cup {root} /\ pc' = "done"
      /\ cur' = cur /\ left' = left /\ body' = body /\ frames' = frames /\ deleted' = deleted
  BY DEF EndFile, EndOfGroup
<1>2. root.at = <<>> /\ root.part = "group" /\ root.part \in Parts /\ <<>> \in Seq(Nat) /\ Len(<<>>) = 0
  BY NodeFields, EmptySeq DEF Parts
<1> HIDE DEF root
<1>3. \A n \in made' : n.at \in Seq(Nat) /\ n.part \in Parts /\ Len(n.at) \in Nat
  BY <1>1, <1>2, LenProperties DEF IInv, TypeOK
<1>4. deleted' = SetToBag(GivenOf(made'))
  <2>1. GivenOf(made') = GivenOf(made)
    BY <1>1, <1>2 DEF GivenOf
  <2>2. QED
    BY <1>1, <2>1, DeletedNow
<1>5. Live' = {n \in made' : n.part # "given"}
  <2>1. BagToSet(deleted') = GivenOf(made')
    BY <1>4, SetToBagIsABag
  <2>2. Live' = made' \ BagToSet(deleted')
    BY DEF Live
  <2>3. QED
    BY <2>1, <2>2 DEF GivenOf
<1>6. Live' = Owned(made', <<>>)
  <2>1. \A n \in made' : IsPrefix(<<>>, n.at)
    <3>1. ASSUME NEW n \in made' PROVE IsPrefix(<<>>, n.at)
      <4>1. n.at \in Seq(Nat) /\ Len(<<>>) <= Len(n.at) /\ \A j \in 1..Len(<<>>) : FALSE
        BY <1>2, <1>3
      <4>2. QED
        BY <1>2, <4>1, PrefixIs
    <3>2. QED
      BY <3>1
  <2>2. QED
    BY <1>5, <2>1 DEF Owned
<1>7. ASSUME NEW n \in Live', NEW i \in 0..Len(n.at)
      PROVE  \E part \in {"group", "test"} : Node(SubSeq(n.at, 1, i), part) \in Live'
  <2>1. n \in made' /\ n.at \in Seq(Nat) /\ Len(n.at) \in Nat
    BY <1>3, <1>5
  <2>2. CASE i = 0
    <3>1. SubSeq(n.at, 1, 0) \in Seq(Nat) /\ Len(SubSeq(n.at, 1, 0)) = 0
      <4>1. \A j \in 1..0 : n.at[j] \in Nat
        OBVIOUS
      <4>2. PICK z : z = 0
        OBVIOUS
      <4>3. /\ SubSeq(n.at, 1, z) \in Seq(Nat)
            /\ Len(SubSeq(n.at, 1, z)) = (IF 1 <= z THEN z - 1 + 1 ELSE 0)
        BY <4>1, <4>2, SubSeqProperties
      <4>4. QED
        BY <4>2, <4>3
    <3>2. SubSeq(n.at, 1, i) = <<>>
      BY <2>2, <3>1, EmptySeq
    <3>3. root \in Live'
      BY <1>1, <1>2, <1>5
    <3>4. QED
      BY <3>2, <3>3 DEF root
  <2>3. CASE i # 0
    <3>1. Len(n.at) > 0 /\ i \in 1..Len(n.at)
      BY <2>1, <2>3
    <3>2. n \in made
      BY <1>1, <1>2, <2>1, <3>1
    <3>3. ~(pc \in TestParts)
      BY <1>1 DEF TestParts
    <3>4. ~Begun(n)
      <4>1. Len(frames[1].at) = 0
        BY <1>1, RunningFacts DEF Nested
      <4>2. QED
        BY <1>1, <3>1, <4>1 DEF Begun
    <3>5. MemberOf(frames, n.at, 1)
      BY <1>1, <3>2, <3>3, <3>4 DEF IInv, NodesPart
    <3>6. PICK part \in {"group", "test"} : Node(SubSeq(n.at, 1, i), part) \in made
      <4>1. Whole(made, frames)
        BY DEF IInv, WholePart
      <4>2. QED
        BY <1>1, <3>1, <3>2, <3>5, <4>1 DEF Whole
    <3>7. Node(SubSeq(n.at, 1, i), part).part # "given"
      BY <3>6, NodeFields
    <3>8. QED
      BY <1>1, <1>5, <3>6, <3>7
  <2>4. QED
    BY <2>2, <2>3
<1>8. TreeIsWhole'
  <2>1. \A n \in Live' : \A i \in 0..Len(n.at) :
          \E part \in {"group", "test"} : Node(SubSeq(n.at, 1, i), part) \in Live'
    BY <1>7
  <2>2. QED
    BY <1>6, <2>1 DEF TreeIsWhole
<1>9. DeletedOnce' /\ DeletedPart'
  BY <1>4, OnceInSet DEF DeletedOnce, DeletedPart
<1>10. NestedPart' /\ NodesPart' /\ NamesPart' /\ WholePart' /\ LeaksAreUnfinished'
  BY <1>1 DEF NestedPart, NodesPart, NamesPart, WholePart, LeaksAreUnfinished, Running, Ends
<1>11. ControlPart'
  BY <1>1 DEF IInv, ControlPart, WithBody, GroupParts, TestParts
<1>12. TypeOK'
  <2>1. pc' \in Ends
    BY <1>1 DEF Ends
  <2>2. IsABag(deleted') /\ BagToSet(deleted') \subseteq made'
    BY <1>1 DEF IInv, TypeOK
  <2>3. QED
    BY <1>1, <1>3, <2>1, <2>2 DEF IInv, TypeOK
<1>13. QED
  BY <1>8, <1>9, <1>10, <1>11, <1>12 DEF IInv

(* A part reads on, inside its braces or into them. *)
LEMMA ReadStep ==
  ASSUME IInv, Running, pc \in WithBody, TreeSame, pc' = pc, body' = TRUE, NEW k \in 0..5, NextToken(k)
  PROVE  IInv'
<1>1. cur' \in Tokens \cup {"eof"} /\ left' \in 0..MaxTokens
  BY TokenTypes DEF IInv
<1>2. TypeOK'
  BY <1>1 DEF IInv, TypeOK, TreeSame
<1>3. ControlPart' /\ pc' \notin Ends
  BY DEF ControlPart, Running, Ends
<1>4. QED
  BY <1>2, <1>3, QuietStep

LEMMA DoneStep ==
  ASSUME IInv, Running, pc \in GroupParts \cup TestParts, NEW nodes, nodes = {} \/ nodes = Built,
         PartDone(nodes), cur' \in Tokens \cup {"eof"}, left' \in 0..MaxTokens
  PROVE  IInv'
BY PartStep, AfterStep

(* The parser turns to another part of the group, without reading. *)
LEMMA TurnStep ==
  ASSUME IInv, pc = "tests", pc' \in {"data", "after_all"},
         UNCHANGED <<cur, left, body, frames, made, deleted>>
  PROVE  IInv'
<1>1. Running /\ ~body /\ pc \notin TestParts
  BY DEF IInv, ControlPart, WithBody, GroupParts, TestParts, Running, Ends
<1>2. TreeSame /\ pc' \notin Ends /\ pc' \in DOMAIN Following
  BY PcIs DEF TreeSame, Ends, GroupParts, TestParts
<1>3. TypeOK'
  BY <1>2 DEF IInv, TypeOK
<1>4. ControlPart'
  BY <1>1, <1>2 DEF ControlPart, Ends
<1>5. QED
  BY <1>1, <1>2, <1>3, <1>4, QuietStep

(* The parser is lost, without reading. *)
LEMMA GetLost ==
  ASSUME IInv, Running, UNCHANGED <<cur, left, body, frames, made, deleted>>,
         \/ pc' = "staleName" /\ ~body
         \/ pc' = "pastEnd" /\ body /\ cur = "eof"
  PROVE  IInv'
<1>1. TreeSame /\ pc' \in Ends /\ pc' \in {"staleName", "pastEnd"}
  BY DEF TreeSame, Ends
<1>2. TypeOK'
  BY <1>1 DEF IInv, TypeOK
<1>3. ControlPart'
  BY DEF ControlPart
<1>4. QED
  BY <1>1, <1>2, <1>3, LostStep

(* Where parsing has ended, nothing changes. *)
LEMMA EndsStay ==
  ASSUME IInv, ~Running, Next
  PROVE  UNCHANGED vars
<1>1. pc \in Ends /\ pc \notin GroupParts \cup TestParts \cup {"tests", "end"}
  BY DEF Running, Ends, GroupParts, TestParts
<1>2. body => pc = "pastEnd" /\ cur = "eof"
  BY <1>1 DEF IInv, ControlPart, WithBody
<1>3. "eof" \notin Statements \cup {";", "}"}
  BY DEF Statements
<1>4. ~SkipPart /\ ~OpenPart /\ ~ParseTestData /\ ~ParseTestFunction
  BY <1>1 DEF SkipPart, OpenPart, ParseTestData, ParseTestFunction, GroupParts, TestParts
<1>5. ~ParseTestDefinition /\ ~ParseGroupTeardown /\ ~NamedGroup /\ ~UnnamedGroup
      /\ ~GroupWithoutBrace /\ ~UnnamedSibling
  BY <1>1 DEF ParseTestDefinition, ParseGroupTeardown, NamedGroup, UnnamedGroup, GroupWithoutBrace,
              UnnamedSibling
<1>6. ~LeaveGroup /\ ~UnclosedGroup /\ ~EndFile
  BY <1>1 DEF LeaveGroup, UnclosedGroup, EndFile, EndOfGroup
<1>7. ~ParseStatement /\ ~EmptyStatement /\ ~NoStatement /\ ~ClosePart
  BY <1>2, <1>3 DEF ParseStatement, EmptyStatement, NoStatement, ClosePart
<1>8. PeekPastEnd
  BY <1>4, <1>5, <1>6, <1>7 DEF Next
<1>9. QED
  BY <1>2, <1>8 DEF PeekPastEnd, vars

(***************************************************************************)
(* The invariant holds                                                     *)
(***************************************************************************)

LEMMA InitInvariant ==
  ASSUME Init PROVE IInv
<1> DEFINE root == Frame(<<>>)
           name == Node(<<>>, "name")
<1>1. /\ cur \in Tokens \cup {"eof"} /\ left = (IF cur = "eof" THEN 0 ELSE MaxTokens)
      /\ pc = "mockup_all" /\ body = FALSE /\ frames = <<root>> /\ made = {name} /\ deleted = EmptyBag
  BY DEF Init
<1>2. <<>> \in Seq(Nat) /\ Len(<<>>) = 0
  BY EmptySeq
<1>3. root \in OpenCall /\ root.at = <<>> /\ root.kids = 0
  BY <1>2 DEF Frame, OpenCall
<1>4. name.at = <<>> /\ name.part = "name" /\ name.part \in Parts
  BY NodeFields DEF Parts
<1>5. EmptyBag = SetToBag({}) /\ IsABag(EmptyBag) /\ BagToSet(EmptyBag) = {}
  BY SetToBagIsABag DEF EmptyBag
<1> HIDE DEF root, name
<1>6. <<root>> \in Seq(OpenCall) /\ Len(<<root>>) = 1 /\ <<root>>[1] = root /\ <<root>> # <<>>
  BY <1>3
<1>7. TypeOK
  <2>1. left \in 0..MaxTokens
    BY <1>1, ParserAssumption
  <2>2. pc \in DOMAIN Following
    BY <1>1, PcIs DEF GroupParts
  <2>3. \A n \in made : n.at \in Seq(Nat) /\ n.part \in Parts
    BY <1>1, <1>2, <1>4
  <2>4. frames \in Seq([at : Seq(Nat), kids : Nat, named : BOOLEAN]) /\ frames # <<>>
    BY <1>1, <1>6 DEF OpenCall
  <2>5. QED
    BY <1>1, <1>5, <2>1, <2>2, <2>3, <2>4 DEF TypeOK
<1>8. NestedPart
  BY <1>1, <1>2, <1>3, <1>6 DEF NestedPart, Nested
<1>9. NodesPart
  BY <1>1, <1>3, <1>4, <1>6 DEF NodesPart, Begun
<1>10. NamesPart
  <2>1. \A i \in 1..Len(frames) : frames[i] = root
    BY <1>1, <1>6
  <2>2. QED
    BY <1>1, <1>3, <2>1 DEF NamesPart, name
<1>11. WholePart
  <2>1. ASSUME NEW n \in made, NEW j \in 1..Len(frames) PROVE ~MemberOf(frames, n.at, j)
    BY <1>1, <1>2, <1>4, <1>6 DEF MemberOf
  <2>2. QED
    BY <2>1 DEF WholePart, Whole
<1>12. DeletedPart
  <2>1. GivenOf(made) = {}
    BY <1>1, <1>4 DEF GivenOf
  <2>2. QED
    BY <1>1, <1>5, <2>1 DEF DeletedPart
<1>13. DeletedOnce /\ TreeIsWhole /\ LeaksAreUnfinished /\ ControlPart
  BY <1>1, <1>5 DEF DeletedOnce, TreeIsWhole, LeaksAreUnfinished, ControlPart
<1>14. QED
  BY <1>7, <1>8, <1>9, <1>10, <1>11, <1>12, <1>13 DEF IInv

LEMMA RunningInvariant ==
  ASSUME IInv, Running, Next PROVE IInv'
<1>1. body => pc \in WithBody
  BY DEF IInv, ControlPart, Running, Ends
<1>2. \A part \in GroupParts \cup TestParts : part # "end"
  BY PcIs
<1>3. WithBody \subseteq GroupParts \cup TestParts
  BY DEF WithBody
<1>4. cur \in Tokens \cup {"eof"} /\ left \in 0..MaxTokens
  BY DEF IInv, TypeOK
<1>5. \A k \in 0..5 : NextToken(k) => cur' \in Tokens \cup {"eof"} /\ left' \in 0..MaxTokens
  BY TokenTypes DEF IInv
<1>6. pc = "tests" => pc # "end" /\ ~body
  BY <1>1 DEF WithBody, GroupParts, TestParts
<1>7. CASE SkipPart
  <2>1. /\ pc \in GroupParts \cup TestParts /\ PartDone({})
        /\ cur' \in Tokens \cup {"eof"} /\ left' \in 0..MaxTokens
    BY <1>4, <1>7 DEF SkipPart
  <2>2. QED
    BY <2>1, DoneStep
<1>8. CASE OpenPart
  <2>1. pc \in WithBody /\ pc # "end"
    BY <1>2, <1>8 DEF OpenPart, WithBody
  <2>2. CASE Throw
    BY <2>1, <2>2, ThrowStep
  <2>3. CASE ~Throw
    <3>1. NextToken(2) /\ body' = TRUE /\ pc' = pc /\ TreeSame
      BY <1>8, <2>3 DEF OpenPart, TreeSame
    <3>2. QED
      BY <2>1, <3>1, ReadStep
  <2>4. QED
    BY <2>2, <2>3
<1>9. CASE ParseStatement
  <2>1. body /\ pc \in WithBody /\ pc # "end"
    BY <1>1, <1>2, <1>3, <1>9 DEF ParseStatement
  <2>2. CASE Throw
    BY <2>1, <2>2, ThrowStep
  <2>3. CASE ~Throw
    <3>1. (NextToken(2) \/ NextToken(1)) /\ body' = body /\ pc' = pc /\ TreeSame
      BY <1>9, <2>3 DEF ParseStatement, TreeSame
    <3>2. body' = TRUE
      BY <2>1, <3>1 DEF IInv, TypeOK
    <3>3. QED
      BY <2>1, <3>1, <3>2, ReadStep
  <2>4. QED
    BY <2>2, <2>3
<1>10. CASE EmptyStatement
  <2>1. body /\ pc \in WithBody /\ NextToken(1) /\ body' = body /\ pc' = pc /\ TreeSame
    BY <1>1, <1>10 DEF EmptyStatement, AfterSemicolon, TreeSame
  <2>2. body' = TRUE
    BY <2>1 DEF IInv, TypeOK
  <2>3. QED
    BY <2>1, <2>2, ReadStep
<1>11. CASE NoStatement
  BY <1>1, <1>2, <1>3, <1>11, ThrowStep DEF NoStatement
<1>12. CASE PeekPastEnd
  BY <1>12, GetLost DEF PeekPastEnd
<1>13. CASE ClosePart
  <2>1. pc \in GroupParts \cup TestParts /\ NextToken(1) /\ PartDone(Built)
    BY <1>1, <1>3, <1>13 DEF ClosePart
  <2>2. QED
    BY <1>5, <2>1, DoneStep
<1>14. CASE ParseTestData
  <2>1. pc \in GroupParts \cup TestParts /\ (Throw \/ (NextToken(5) /\ PartDone(Built)))
    BY <1>14 DEF ParseTestData, TestParts
  <2>2. QED
    BY <1>2, <1>5, <2>1, ThrowStep, DoneStep
<1>15. CASE ParseTestFunction
  <2>1. pc \in GroupParts \cup TestParts /\ (Throw \/ (NextToken(2) /\ PartDone(Built)))
    BY <1>15 DEF ParseTestFunction, TestParts
  <2>2. QED
    BY <1>2, <1>5, <2>1, ThrowStep, DoneStep
<1>16. CASE ParseTestDefinition
  BY <1>16, TurnStep DEF ParseTestDefinition
<1>17. CASE ParseGroupTeardown
  <2>1. CASE Throw
    BY <1>6, <1>17, <2>1, ThrowStep DEF ParseGroupTeardown
  <2>2. CASE ~Throw
    BY <1>17, <2>2, TurnStep DEF ParseGroupTeardown
  <2>3. QED
    BY <2>1, <2>2
<1>18. CASE NamedGroup
  BY <1>18, EnterGroupStep DEF NamedGroup
<1>19. CASE UnnamedGroup
  BY <1>19, EnterGroupStep DEF UnnamedGroup
<1>20. CASE GroupWithoutBrace
  BY <1>20, GroupWithoutBraceStep
<1>21. CASE UnnamedSibling
  BY <1>6, <1>21, GetLost DEF UnnamedSibling
<1>22. CASE LeaveGroup
  BY <1>22, LeaveGroupStep
<1>23. CASE UnclosedGroup
  BY <1>23, UnclosedGroupStep
<1>24. CASE EndFile
  BY <1>24, EndFileStep
<1>25. QED
  BY <1>7, <1>8, <1>9, <1>10, <1>11, <1>12, <1>13, <1>14, <1>15, <1>16, <1>17, <1>18, <1>19, <1>20,
     <1>21, <1>22, <1>23, <1>24 DEF Next

LEMMA StutterInvariant ==
  ASSUME IInv, UNCHANGED vars PROVE IInv'
<1>1. /\ cur' = cur /\ left' = left /\ pc' = pc /\ body' = body /\ frames' = frames
      /\ made' = made /\ deleted' = deleted
  BY DEF vars
<1>2. TypeOK' /\ ControlPart' /\ NestedPart' /\ WholePart' /\ DeletedPart' /\ NamesPart'
  BY <1>1 DEF IInv, TypeOK, ControlPart, NestedPart, WholePart, DeletedPart, NamesPart, Running
<1>3. NodesPart'
  BY <1>1 DEF IInv, NodesPart, Begun, NextKid, Top, Running
<1>4. DeletedOnce' /\ TreeIsWhole' /\ LeaksAreUnfinished'
  BY <1>1 DEF IInv, DeletedOnce, TreeIsWhole, LeaksAreUnfinished, Live, NextKid, Top
<1>5. QED
  BY <1>2, <1>3, <1>4 DEF IInv

LEMMA NextInvariant ==
  ASSUME IInv, [Next]_vars PROVE IInv'
<1>1. CASE Running /\ Next
  BY <1>1, RunningInvariant
<1>2. CASE ~Running /\ Next
  BY <1>2, EndsStay, StutterInvariant
<1>3. CASE UNCHANGED vars
  BY <1>3, StutterInvariant
<1>4. QED
  BY <1>1, <1>2, <1>3

LEMMA Invariance == Spec => []IInv
<1>1. Spec => Init /\ [][Next]_vars
  BY PTL DEF Spec
<1>2. Init => IInv
  BY InitInvariant
<1>3. IInv /\ [Next]_vars => IInv'
  BY NextInvariant
<1>4. QED
  BY <1>1, <1>2, <1>3, PTL

(***************************************************************************)
(* What the parser guarantees                                              *)
(***************************************************************************)

(* The variables keep their types, and only nodes that exist are deleted,
   for files of any length. *)
THEOREM TypeCorrect == Spec => []TypeOK
<1>1. IInv => TypeOK
  BY DEF IInv
<1>2. QED
  BY <1>1, Invariance, PTL

(* Whatever is wrong with a file, no node is deleted twice while the parser
   gives up, but for a group that lacks its closing brace: the catches of the
   nested calls of ParseTestGroup never delete the same node. *)
THEOREM NodesDeletedOnce == Spec => []DeletedOnce
<1>1. IInv => DeletedOnce
  BY DEF IInv
<1>2. QED
  BY <1>1, Invariance, PTL

(* ParseTestFile returns a tree that owns every node there is, each under
   constructed groups and tests up to the root. *)
THEOREM FinishedTreeIsWhole == Spec => []TreeIsWhole
<1>1. IInv => TreeIsWhole
  BY DEF IInv
<1>2. QED
  BY <1>1, Invariance, PTL

(* What an exception leaks is the names of the groups that were open and the
   parts of the test that was being parsed. *)
THEOREM ErrorsLeakUnfinished == Spec => []LeaksAreUnfinished
<1>1. IInv => LeaksAreUnfinished
  BY DEF IInv
<1>2. QED
  BY <1>1, Invariance, PTL

=============================================================================
