-------------------------- MODULE LineEditorProofs --------------------------
(***************************************************************************)
(* The editor at work, for any characters, buffer, history, keys and       *)
(* completions: the line stays a C string, and what the user killed,       *)
(* browsed past, searched for or saved is there again.                     *)
(***************************************************************************)
EXTENDS LineEditor, Prefixes

(***************************************************************************)
(* The functions that change the line, for a buffer of any size: they stay *)
(* inside it, keep the zeros behind the line, and a kill is undone by a    *)
(* yank.                                                                   *)
(***************************************************************************)

LEMMA LowerIs ==
  ASSUME NEW a \in Int, NEW b \in Int
  PROVE  /\ Lower(a, b) \in Int /\ Lower(a, b) <= a /\ Lower(a, b) <= b
         /\ Lower(a, b) \in {a, b} /\ (a <= b => Lower(a, b) = a)
BY DEF Lower

LEMMA LineFields ==
  ASSUME NEW c \in Line
  PROVE  /\ c.buf \in [0..BufMax - 1 -> Chars \cup {Zero}]
         /\ c.len \in 0..BufMax - 1 /\ c.pos \in 0..BufMax - 1
         /\ c.capture \in Seq(Chars \cup {Zero})
         /\ c.len \in Nat /\ c.pos \in Nat /\ BufMax \in Nat
BY LineBufferAssumption DEF Line

(* Replacing the line: longer text is cut to the buffer, its last place left
   for the zero. *)
THEOREM SetCurrentTerminates ==
  ASSUME NEW c \in Line, NEW s \in Seq(Chars \cup {Zero})
  PROVE  SetCurrent(c, s) \in Line /\ Terminated(SetCurrent(c, s))
<1> DEFINE n == Lower(Len(s), BufMax - 1)
           d == SetCurrent(c, s)
<1>1. /\ n \in 0..BufMax - 1 /\ n <= Len(s)
      /\ \A i \in 1..Len(s) : s[i] \in Chars \cup {Zero}
  BY LineBufferAssumption DEF Lower
<1>2. /\ d.buf = [i \in 0..BufMax - 1 |-> IF i < n THEN s[i + 1] ELSE Zero]
      /\ d.len = n /\ d.pos = n /\ d.capture = c.capture
  BY DEF SetCurrent, Line
<1> HIDE DEF n
<1>3. d.buf \in [0..BufMax - 1 -> Chars \cup {Zero}]
  <2>1. ASSUME NEW i \in 0..BufMax - 1, i < n PROVE s[i + 1] \in Chars \cup {Zero}
    <3>1. i + 1 \in 1..Len(s)
      BY <1>1, <2>1, LineBufferAssumption
    <3>2. QED
      BY <1>1, <3>1
  <2>2. QED
    BY <1>2, <2>1
<1>4. d \in Line
  <2> DEFINE b == [i \in 0..BufMax - 1 |-> IF i < n THEN s[i + 1] ELSE Zero]
  <2>1. d = [c EXCEPT !.buf = b, !.len = n, !.pos = n]
    BY DEF SetCurrent, n
  <2>2. b \in [0..BufMax - 1 -> Chars \cup {Zero}]
    BY <1>2, <1>3
  <2> HIDE DEF b, d
  <2>3. QED
    BY <1>1, <2>1, <2>2 DEF Line
<1>5. Terminated(d)
  BY <1>1, <1>2, LineBufferAssumption DEF Terminated
<1>6. QED
  BY <1>4, <1>5

(* Cutting n characters of the line. *)
LEMMA CutIs ==
  ASSUME NEW c \in Line, NEW p \in Int, NEW n \in Int, p >= 0, n >= 0, p + n <= c.len
  PROVE  /\ Cut(c, p, n).buf = [i \in 0..BufMax - 1 |->
                IF i \in p..c.len THEN c.buf[Lower(i + n, c.len)] ELSE c.buf[i]]
         /\ Cut(c, p, n).len = c.len - n
         /\ Cut(c, p, n).pos = IF c.pos <= p THEN c.pos ELSE IF c.pos - n < p THEN p ELSE c.pos - n
         /\ Cut(c, p, n).capture = c.capture
BY DEF Cut, Line

(* remove_char and remove_chars take the zero with what is behind them. *)
THEOREM CutTerminates ==
  ASSUME NEW c \in Line, Terminated(c), NEW p \in Int, NEW n \in Int,
         p >= 0, n >= 0, p + n <= c.len
  PROVE  Terminated(Cut(c, p, n))
<1> DEFINE d == Cut(c, p, n)
<1>1. c.len \in Nat /\ c.pos \in Nat /\ c.pos <= c.len /\ BufMax \in Nat /\ c.len < BufMax
  BY LineFields DEF Terminated
<1>2. d.len = c.len - n
  BY CutIs
<1>3. d.pos <= d.len
  <2>1. d.pos = IF c.pos <= p THEN c.pos ELSE IF c.pos - n < p THEN p ELSE c.pos - n
    BY CutIs
  <2> HIDE DEF d
  <2>2. QED
    BY <1>1, <1>2, <2>1
<1>4. ASSUME NEW i \in 0..BufMax - 1, i >= d.len PROVE d.buf[i] = Zero
  <2>1. d.buf[i] = IF i \in p..c.len THEN c.buf[Lower(i + n, c.len)] ELSE c.buf[i]
    <3>1. d.buf = [k \in 0..BufMax - 1 |->
                     IF k \in p..c.len THEN c.buf[Lower(k + n, c.len)] ELSE c.buf[k]]
      BY CutIs
    <3> HIDE DEF d
    <3>2. QED
      BY <3>1
  <2>2. CASE i \in p..c.len
    <3>1. Lower(i + n, c.len) = c.len
      BY <1>1, <1>2, <1>4, <2>2 DEF Lower
    <3>2. c.buf[c.len] = Zero
      BY <1>1 DEF Terminated
    <3>3. QED
      BY <2>1, <2>2, <3>1, <3>2
  <2>3. CASE i \notin p..c.len
    <3>1. i >= c.len
      BY <1>1, <1>2, <1>4, <2>3
    <3>2. c.buf[i] = Zero
      BY <3>1 DEF Terminated
    <3>3. QED
      BY <2>1, <2>3, <3>2
  <2>4. QED
    BY <2>2, <2>3
<1>5. QED
  BY <1>3, <1>4 DEF Terminated

(* What is inserted. *)
LEMMA InsertIs ==
  ASSUME NEW c \in Line, NEW p \in 0..c.len, NEW s
  PROVE  /\ InsertChars(c, p, s).buf = [i \in 0..BufMax - 1 |->
                IF i \in p..p + Fitting(c, s) - 1 THEN s[i - p + 1]
                ELSE IF i \in p + Fitting(c, s)..c.len + Fitting(c, s) - 1
                     THEN c.buf[i - Fitting(c, s)] ELSE c.buf[i]]
         /\ InsertChars(c, p, s).len = c.len + Fitting(c, s)
         /\ InsertChars(c, p, s).pos = IF c.pos >= p THEN c.pos + Fitting(c, s) ELSE c.pos
BY DEF InsertChars, Line

LEMMA FittingIs ==
  ASSUME NEW c \in Line, NEW s \in Seq(Chars \cup {Zero})
  PROVE  /\ Fitting(c, s) \in Nat /\ Fitting(c, s) <= Len(s)
         /\ Fitting(c, s) > 0 => c.len + Fitting(c, s) <= BufMax - 2
BY LineFields DEF Fitting, HasRoom, Lower

(* insert_char does not move the zero: the ones behind it take its place, and
   has_room keeps two of them. *)
THEOREM InsertTerminates ==
  ASSUME NEW c \in Line, Terminated(c), NEW p \in Int, NEW s \in Seq(Chars \cup {Zero})
  PROVE  Terminated(InsertChars(c, p, s)) /\ InsertChars(c, p, s).len \in 0..BufMax - 1
<1>1. c.len \in Nat /\ c.pos \in Nat /\ c.pos <= c.len /\ BufMax \in Nat /\ c.len < BufMax
  BY LineFields DEF Terminated
<1>2. CASE p \notin 0..c.len
  BY <1>1, <1>2 DEF InsertChars
<1>3. CASE p \in 0..c.len
  <2> DEFINE d == InsertChars(c, p, s)
             k == Fitting(c, s)
  <2>1. k \in Nat /\ c.len + k <= BufMax - 1
    <3>1. k \in Nat /\ (k > 0 => c.len + k <= BufMax - 2)
      BY FittingIs
    <3> HIDE DEF k
    <3>2. QED
      BY <1>1, <3>1
  <2>2. /\ d.buf = [i \in 0..BufMax - 1 |->
                      IF i \in p..p + k - 1 THEN s[i - p + 1]
                      ELSE IF i \in p + k..c.len + k - 1 THEN c.buf[i - k] ELSE c.buf[i]]
        /\ d.len = c.len + k
        /\ d.pos = IF c.pos >= p THEN c.pos + k ELSE c.pos
    BY <1>3, InsertIs
  <2> HIDE DEF d, k
  <2>3. d.pos <= d.len
    BY <1>1, <2>1, <2>2
  <2>4. ASSUME NEW i \in 0..BufMax - 1, i >= d.len PROVE d.buf[i] = Zero
    <3>1. i \notin p..p + k - 1 /\ i \notin p + k..c.len + k - 1 /\ i >= c.len
      BY <1>1, <1>3, <2>1, <2>2, <2>4
    <3>2. d.buf[i] = c.buf[i]
      BY <2>2, <3>1
    <3>3. QED
      BY <3>1, <3>2 DEF Terminated
  <2>5. Terminated(d) /\ d.len \in 0..BufMax - 1
    BY <1>1, <2>1, <2>2, <2>3, <2>4 DEF Terminated
  <2>6. QED
    BY <2>5 DEF d
<1>4. QED
  BY <1>2, <1>3

(* A text without a zero is read to its end. *)
LEMMA UpToZeroOfText ==
  ASSUME NEW S, NEW s \in Seq(S), \A i \in 1..Len(s) : s[i] # Zero
  PROVE  UpToZero(s) = s
<1> DEFINE Ends(n) == (\A i \in 1..n : s[i] # Zero) /\ (n < Len(s) => s[n + 1] = Zero)
           end == CHOOSE n \in 0..Len(s) : Ends(n)
<1>1. Len(s) \in Nat
  BY LenProperties
<1>2. Ends(Len(s)) /\ Len(s) \in 0..Len(s)
  BY <1>1
<1>3. \A n \in 0..Len(s) : Ends(n) => n = Len(s)
  <2>1. ASSUME NEW n \in 0..Len(s), n < Len(s), Ends(n) PROVE FALSE
    <3>1. n + 1 \in 1..Len(s)
      BY <1>1, <2>1
    <3>2. QED
      BY <2>1, <3>1
  <2> HIDE DEF Ends
  <2>2. QED
    BY <1>1, <2>1
<1>4. end = Len(s)
  <2> HIDE DEF Ends
  <2>1. QED
    BY <1>2, <1>3
<1>5. UpToZero(s) = SubSeq(s, 1, end)
  BY DEF UpToZero
<1> HIDE DEF end
<1>6. QED
  BY <1>4, <1>5

(* A kill that ends or begins at the cursor and a yank right after it leave the
   line as it was, in a buffer of any size, unless what is killed holds a NUL. *)
THEOREM KillThenYank ==
  ASSUME NEW c \in Line, c.len < BufMax - 1,
         NEW from \in 0..c.len, NEW to \in 0..c.len, from < to,
         c.pos \in {from, to}, TextIn(c, from, to)
  PROVE  Yanked(RemoveChars(c, from, to - from)).buf = c.buf
<1> DEFINE n == to - from
           killed == RemoveChars(c, from, n)
           yanked == Yanked(killed)
<1>1. c.len \in Nat /\ c.pos \in Nat /\ BufMax \in Nat /\ from \in Nat /\ to \in Nat
  BY LineFields
<1>2. n \in Nat \ {0} /\ from + n = to /\ to <= c.len
  BY <1>1
<1> HIDE DEF n
<1> DEFINE text == [i \in 1..n |-> c.buf[from + i - 1]]
<1>3. text \in Seq(Chars \cup {Zero}) /\ Len(text) = n
  <2>1. \A i \in 1..n : c.buf[from + i - 1] \in Chars \cup {Zero}
    BY <1>1, <1>2, LineFields
  <2>2. QED
    BY <1>2, <2>1
<1>4. Capture(c, from, n) = [c EXCEPT !.capture = text]
  BY <1>1, <1>2 DEF Capture
<1> HIDE DEF text
<1>5. /\ [c EXCEPT !.capture = text] \in Line
      /\ [c EXCEPT !.capture = text].buf = c.buf
      /\ [c EXCEPT !.capture = text].len = c.len
      /\ [c EXCEPT !.capture = text].pos = c.pos
      /\ [c EXCEPT !.capture = text].capture = text
  BY <1>3 DEF Line
<1>6. killed = Cut([c EXCEPT !.capture = text], from, n)
  BY <1>4 DEF RemoveChars
<1>7. /\ killed.buf = [i \in 0..BufMax - 1 |->
                         IF i \in from..c.len THEN c.buf[Lower(i + n, c.len)] ELSE c.buf[i]]
      /\ killed.len = c.len - n /\ killed.pos = from /\ killed.capture = text
  <2> DEFINE e == [c EXCEPT !.capture = text]
  <2>1. e \in Line /\ e.buf = c.buf /\ e.len = c.len /\ e.pos = c.pos /\ e.capture = text
        /\ killed = Cut(e, from, n)
    BY <1>5, <1>6
  <2> HIDE DEF e, killed
  <2>2. /\ killed.buf = [i \in 0..BufMax - 1 |->
                           IF i \in from..e.len THEN e.buf[Lower(i + n, e.len)] ELSE e.buf[i]]
        /\ killed.len = e.len - n
        /\ killed.pos = IF e.pos <= from THEN e.pos ELSE IF e.pos - n < from THEN from ELSE e.pos - n
        /\ killed.capture = e.capture
    BY <1>1, <1>2, <2>1, CutIs, SMTT(30)
  <2>3. killed.buf = [i \in 0..BufMax - 1 |->
                        IF i \in from..c.len THEN c.buf[Lower(i + n, c.len)] ELSE c.buf[i]]
    BY <2>1, <2>2
  <2>4. killed.len = c.len - n /\ killed.capture = text
    BY <2>1, <2>2
  <2>5. killed.pos = from
    BY <1>1, <1>2, <2>1, <2>2
  <2>6. QED
    BY <2>3, <2>4, <2>5
<1>8. killed \in Line
  <2>1. \A i \in 0..BufMax - 1 :
          (IF i \in from..c.len THEN c.buf[Lower(i + n, c.len)] ELSE c.buf[i]) \in Chars \cup {Zero}
    <3>1. ASSUME NEW i \in 0..BufMax - 1, i \in from..c.len
          PROVE  c.buf[Lower(i + n, c.len)] \in Chars \cup {Zero}
      <4>1. PICK l, L : l = c.len /\ l \in 0..BufMax - 1 /\ L = BufMax /\ L \in Nat /\ i \in 0..l
        BY <1>1, <3>1, LineFields
      <4>2. PICK p : p = Lower(i + n, l) /\ p \in {i + n, l} /\ p <= l /\ p \in Int
        <5>1. PICK k : k = i + n /\ k \in Int /\ l \in Int
          BY <1>2, <4>1
        <5>2. Lower(k, l) \in {k, l} /\ Lower(k, l) <= l /\ Lower(k, l) \in Int
          BY <5>1, LowerIs
        <5>3. QED
          BY <5>1, <5>2
      <4>3. p \in 0..L - 1
        BY <1>2, <4>1, <4>2
      <4>4. QED
        BY <4>1, <4>2, <4>3, LineFields
    <3>2. \A i \in 0..BufMax - 1 : c.buf[i] \in Chars \cup {Zero}
      BY LineFields
    <3>3. QED
      BY <3>1, <3>2
  <2>2. killed = [buf |-> killed.buf, len |-> killed.len, pos |-> killed.pos,
                  capture |-> killed.capture]
    BY <1>5, <1>6 DEF Cut, Line
  <2> HIDE DEF killed
  <2>3. killed.buf \in [0..BufMax - 1 -> Chars \cup {Zero}]
    BY <1>7, <2>1
  <2>4. killed.len \in 0..BufMax - 1 /\ killed.pos \in 0..BufMax - 1
    BY <1>1, <1>2, <1>7, LineFields
  <2>5. QED
    BY <1>3, <1>7, <2>2, <2>3, <2>4 DEF Line
<1> HIDE DEF killed
<1>9. Fitting(killed, text) = n
  BY <1>1, <1>2, <1>3, <1>7, SMTT(30) DEF Fitting, HasRoom, Lower
<1>t. UpToZero(text) = text
  <2>1. \A i \in 1..n : c.buf[from + i - 1] # Zero
    BY <1>1, <1>2 DEF TextIn
  <2>2. \A i \in 1..Len(text) : text[i] # Zero
    BY <1>3, <2>1 DEF text
  <2>3. QED
    BY <1>3, <2>2, UpToZeroOfText
<1>l. killed.len = c.len - n
  BY <1>7
<1>10. /\ yanked.buf = [i \in 0..BufMax - 1 |-> yanked.buf[i]]
       /\ \A i \in 0..BufMax - 1 : yanked.buf[i] =
            IF i \in from..from + n - 1 THEN text[i - from + 1]
            ELSE IF i \in from + n..killed.len + n - 1 THEN killed.buf[i - n] ELSE killed.buf[i]
  <2>1. from \in 0..killed.len /\ killed.len + n = c.len
    BY <1>1, <1>2, <1>7
  <2>2. yanked = InsertChars(killed, from, text)
    BY <1>7, <1>t DEF Yanked
  <2> HIDE DEF yanked
  <2>3. yanked.buf = [i \in 0..BufMax - 1 |->
           IF i \in from..from + n - 1 THEN text[i - from + 1]
           ELSE IF i \in from + n..killed.len + n - 1 THEN killed.buf[i - n] ELSE killed.buf[i]]
    BY <1>8, <1>9, <2>1, <2>2, InsertIs
  <2>4. yanked.buf = [i \in 0..BufMax - 1 |-> yanked.buf[i]]
    BY <2>3
  <2>5. \A i \in 0..BufMax - 1 : yanked.buf[i] =
            IF i \in from..from + n - 1 THEN text[i - from + 1]
            ELSE IF i \in from + n..killed.len + n - 1 THEN killed.buf[i - n] ELSE killed.buf[i]
    BY <2>3
  <2>6. QED
    BY <2>4, <2>5
<1>11. ASSUME NEW i \in 0..BufMax - 1 PROVE yanked.buf[i] = c.buf[i]
  <2> HIDE DEF yanked
  <2>1. CASE i \in from..from + n - 1
    <3>1. i - from + 1 \in 1..n /\ from + (i - from + 1) - 1 = i
      BY <1>1, <1>2, <2>1
    <3>2. text[i - from + 1] = c.buf[i]
      BY <3>1 DEF text
    <3>3. QED
      BY <1>10, <2>1, <3>2
  <2>2. CASE i \in from + n..killed.len + n - 1
    <3>1. i - n \in 0..BufMax - 1 /\ i - n \in from..c.len /\ Lower(i - n + n, c.len) = i
      BY <1>1, <1>2, <1>l, <2>2 DEF Lower
    <3>2. killed.buf[i - n] = c.buf[i]
      BY <1>7, <3>1
    <3>3. i \notin from..from + n - 1
      BY <1>1, <1>2, <1>l, <2>2
    <3>4. QED
      BY <1>10, <2>2, <3>2, <3>3
  <2>3. CASE i \notin from..from + n - 1 /\ i \notin from + n..killed.len + n - 1
    <3>1. i \in from..c.len => Lower(i + n, c.len) = i
      BY <1>1, <1>2, <1>l, <2>3 DEF Lower
    <3>2. killed.buf[i] = c.buf[i]
      BY <1>7, <3>1
    <3>3. QED
      BY <1>10, <2>3, <3>2
  <2>4. QED
    BY <2>1, <2>2, <2>3
<1>12. yanked.buf = c.buf
  <2> HIDE DEF yanked
  <2>1. c.buf \in [0..BufMax - 1 -> Chars \cup {Zero}]
    BY LineFields
  <2>2. QED
    BY <1>10, <1>11, <2>1
<1>13. QED
  BY <1>12 DEF n, killed, yanked

(***************************************************************************)
(* The editor                                                              *)
(***************************************************************************)

Bytes == Chars \cup {Zero}

(* A line that the editor may be left with. *)
Sound(c) == c \in Line /\ Terminated(c)

(***************************************************************************)
(* Operations on the line                                                  *)
(***************************************************************************)

LEMMA SoundFields ==
  ASSUME NEW c, Sound(c)
  PROVE  /\ c \in Line /\ c.len \in Nat /\ c.pos \in Nat /\ c.pos <= c.len
         /\ BufMax \in Nat /\ BufMax >= 3 /\ c.len < BufMax /\ c.len \in 0..BufMax - 1
         /\ c.buf \in [0..BufMax - 1 -> Bytes] /\ c.capture \in Seq(Bytes)
         /\ \A i \in 0..BufMax - 1 : i >= c.len => c.buf[i] = Zero
BY LineFields, LineBufferAssumption DEF Sound, Terminated, Bytes

LEMMA CutSound ==
  ASSUME NEW c, Sound(c), NEW p \in Int, NEW n \in Int, p >= 0, n >= 0, p + n <= c.len
  PROVE  Sound(Cut(c, p, n)) /\ Cut(c, p, n).len = c.len - n /\ Cut(c, p, n).capture = c.capture
<1> DEFINE b == [i \in 0..BufMax - 1 |->
                   IF i \in p..c.len THEN c.buf[Lower(i + n, c.len)] ELSE c.buf[i]]
           q == IF c.pos <= p THEN c.pos ELSE IF c.pos - n < p THEN p ELSE c.pos - n
<1>1. c \in Line /\ c.len \in Nat /\ c.pos \in Nat /\ BufMax \in Nat /\ c.len < BufMax
      /\ c.buf \in [0..BufMax - 1 -> Bytes] /\ Terminated(c) /\ c.pos <= c.len
  BY SoundFields DEF Sound
<1>2. b \in [0..BufMax - 1 -> Bytes]
  <2>1. \A i \in 0..BufMax - 1 : i \in p..c.len => Lower(i + n, c.len) \in 0..BufMax - 1
    BY <1>1 DEF Lower
  <2>2. QED
    BY <1>1, <2>1
<1>3. c.len - n \in 0..BufMax - 1 /\ q \in 0..BufMax - 1
  <2>1. c.len - n \in 0..BufMax - 1
    BY <1>1
  <2>2. CASE c.pos <= p
    BY <1>1, <2>1, <2>2
  <2>3. CASE ~(c.pos <= p) /\ c.pos - n < p
    BY <1>1, <2>1, <2>3
  <2>4. CASE ~(c.pos <= p) /\ ~(c.pos - n < p)
    BY <1>1, <2>1, <2>4
  <2>5. QED
    BY <2>1, <2>2, <2>3, <2>4
<1>4. Cut(c, p, n) = [c EXCEPT !.buf = b, !.len = c.len - n, !.pos = q]
  BY DEF Cut
<1> HIDE DEF b, q
<1>5. Cut(c, p, n) \in Line
  BY <1>1, <1>2, <1>3, <1>4 DEF Line, Bytes
<1>6. Terminated(Cut(c, p, n))
  BY <1>1, CutTerminates
<1>7. Cut(c, p, n).len = c.len - n /\ Cut(c, p, n).capture = c.capture
  BY <1>1, <1>4 DEF Line
<1>8. QED
  BY <1>5, <1>6, <1>7 DEF Sound

LEMMA RemoveCharSound ==
  ASSUME NEW c, Sound(c), NEW p \in Int
  PROVE  Sound(RemoveChar(c, p))
<1>1. c.len \in Nat
  BY SoundFields
<1>2. CASE p \in 0..c.len - 1
  <2>1. p >= 0 /\ 1 >= 0 /\ p + 1 <= c.len
    BY <1>1, <1>2
  <2>2. QED
    BY <1>2, <2>1, CutSound DEF RemoveChar
<1>3. CASE p \notin 0..c.len - 1
  BY <1>3 DEF RemoveChar
<1>4. QED
  BY <1>2, <1>3

LEMMA CaptureSound ==
  ASSUME NEW c, Sound(c), NEW p \in Int, NEW n \in Int
  PROVE  Sound(Capture(c, p, n)) /\ Capture(c, p, n).len = c.len /\ Capture(c, p, n).pos = c.pos
<1> DEFINE text == [i \in 1..n |-> c.buf[p + i - 1]]
<1>1. c \in Line /\ c.len \in Nat /\ BufMax \in Nat /\ c.len < BufMax /\ Terminated(c)
      /\ c.buf \in [0..BufMax - 1 -> Bytes]
  BY SoundFields DEF Sound
<1>2. CASE p >= 0 /\ n > 0 /\ p + n - 1 < c.len
  <2>1. \A i \in 1..n : p + i - 1 \in 0..BufMax - 1
    BY <1>1, <1>2
  <2>2. text \in [1..n -> Bytes] /\ n \in Nat
    BY <1>1, <1>2, <2>1
  <2>3. text \in Seq(Bytes)
    BY <2>2, SeqDef
  <2>4. Capture(c, p, n) = [c EXCEPT !.capture = text]
    BY <1>2 DEF Capture
  <2> HIDE DEF text
  <2>5. QED
    BY <1>1, <2>3, <2>4 DEF Sound, Line, Terminated, Bytes
<1>3. CASE ~(p >= 0 /\ n > 0 /\ p + n - 1 < c.len)
  BY <1>3 DEF Capture
<1>4. QED
  BY <1>2, <1>3

LEMMA RemoveCharsSound ==
  ASSUME NEW c, Sound(c), NEW p \in Int, NEW n \in Int, p >= 0, n >= 0, p + n <= c.len
  PROVE  Sound(RemoveChars(c, p, n))
BY CaptureSound, CutSound DEF RemoveChars

LEMMA InsertSound ==
  ASSUME NEW c, Sound(c), NEW p \in Int, NEW s \in Seq(Bytes)
  PROVE  Sound(InsertChars(c, p, s))
<1>1. c \in Line /\ c.len \in Nat /\ c.pos \in Nat /\ BufMax \in Nat /\ c.len < BufMax
      /\ c.buf \in [0..BufMax - 1 -> Bytes] /\ Terminated(c) /\ c.pos <= c.len
      /\ c.capture \in Seq(Bytes)
  BY SoundFields DEF Sound
<1>2. CASE p \notin 0..c.len
  BY <1>2 DEF InsertChars
<1>3. CASE p \in 0..c.len
  <2> DEFINE k == Fitting(c, s)
             b == [i \in 0..BufMax - 1 |->
                     IF i \in p..p + k - 1 THEN s[i - p + 1]
                     ELSE IF i \in p + k..c.len + k - 1 THEN c.buf[i - k] ELSE c.buf[i]]
             q == IF c.pos >= p THEN c.pos + k ELSE c.pos
  <2>1. k \in Nat /\ k <= Len(s) /\ (k > 0 => c.len + k <= BufMax - 2)
    BY <1>1, FittingIs DEF Bytes
  <2>2. InsertChars(c, p, s) = [c EXCEPT !.buf = b, !.len = c.len + k, !.pos = q]
    BY <1>3 DEF InsertChars
  <2>3. Terminated(InsertChars(c, p, s))
    BY <1>1, InsertTerminates DEF Bytes
  <2> HIDE DEF k
  <2>4. ASSUME NEW i \in 0..BufMax - 1 PROVE b[i] \in Bytes
    <3>1. CASE i \in p..p + k - 1
      <4>1. i - p + 1 \in 1..Len(s)
        <5>1. c.len \in Nat /\ p \in 0..c.len /\ k \in Nat /\ k <= Len(s) /\ Len(s) \in Nat
          BY <1>1, <1>3, <2>1, LenProperties
        <5>2. p \in Nat
          BY <5>1
        <5>3. i - p + 1 >= 1 /\ i - p + 1 <= k /\ i - p + 1 \in Int
          BY <3>1, <5>1, <5>2
        <5>4. QED
          BY <5>1, <5>3
      <4>2. s[i - p + 1] \in Bytes
        BY <4>1, ElementOfSeq
      <4>3. QED
        BY <3>1, <4>2
    <3>2. CASE i \notin p..p + k - 1 /\ i \in p + k..c.len + k - 1
      <4>1. i - k \in 0..BufMax - 1
        <5>1. c.len \in Nat /\ BufMax \in Nat /\ p \in 0..c.len /\ k \in Nat
          BY <1>1, <1>3, <2>1
        <5>2. k > 0 => c.len + k <= BufMax - 2
          BY <2>1
        <5>3. QED
          BY <1>1, <3>2, <5>1, <5>2
      <4>2. QED
        BY <1>1, <3>2, <4>1
    <3>3. CASE i \notin p..p + k - 1 /\ i \notin p + k..c.len + k - 1
      BY <1>1, <3>3
    <3>4. QED
      BY <3>1, <3>2, <3>3
  <2>5. b \in [0..BufMax - 1 -> Bytes]
    BY <2>4
  <2>6. c.len + k \in 0..BufMax - 1 /\ q \in 0..BufMax - 1
    BY <1>1, <1>3, <2>1, SMTT(30)
  <2> HIDE DEF b, q
  <2>7. [c EXCEPT !.buf = b, !.len = c.len + k, !.pos = q] \in Line
    BY <1>1, <2>5, <2>6 DEF Line, Bytes
  <2>8. QED
    BY <2>2, <2>3, <2>7 DEF Sound
<1>4. QED
  BY <1>2, <1>3

LEMMA InsertCharSound ==
  ASSUME NEW c, Sound(c), NEW p \in Int, NEW ch \in Bytes
  PROVE  Sound(InsertChar(c, p, ch))
<1>1. <<ch>> \in Seq(Bytes)
  OBVIOUS
<1>2. QED
  BY <1>1, InsertSound DEF InsertChar

LEMMA SetCurrentSound ==
  ASSUME NEW c, Sound(c), NEW s \in Seq(Chars)
  PROVE  Sound(SetCurrent(c, s))
<1>1. s \in Seq(Bytes)
  BY SeqMonotonic DEF Bytes
<1>2. QED
  BY <1>1, SetCurrentTerminates DEF Sound, Bytes

LEMMA EmptyLineSound == Sound(EmptyLine)
<1>1. <<>> \in Seq(Bytes)
  BY EmptySeq
<1>2. QED
  BY <1>1, LineBufferAssumption DEF Sound, EmptyLine, Line, Terminated, Bytes

LEMMA PosSound ==
  ASSUME NEW c, Sound(c), NEW p \in 0..c.len
  PROVE  Sound([c EXCEPT !.pos = p])
<1>1. p \in 0..BufMax - 1
  BY SoundFields
<1>2. QED
  BY <1>1, SoundFields DEF Sound, Line, Terminated

(* The text of a line is what comes before its first zero. *)
LEMMA CStringIs ==
  ASSUME NEW c, Sound(c)
  PROVE  /\ CString(c) \in Seq(Chars) /\ Len(CString(c)) \in 0..BufMax - 1
         /\ \A i \in 1..Len(CString(c)) : CString(c)[i] = c.buf[i - 1]
         /\ c.buf[Len(CString(c))] = Zero
<1> DEFINE Ends(n) == c.buf[n] = Zero /\ \A i \in 0..n - 1 : c.buf[i] # Zero
           end == CHOOSE n \in 0..BufMax - 1 : Ends(n)
<1>1. c.len \in 0..BufMax - 1 /\ c.buf[c.len] = Zero /\ c.buf \in [0..BufMax - 1 -> Bytes]
      /\ BufMax \in Nat /\ BufMax >= 3
  BY SoundFields
<1>2. \E n \in 0..BufMax - 1 : Ends(n)
  <2> DEFINE T == {i \in 1..BufMax : c.buf[i - 1] = Zero}
  <2>1. T \in SUBSET (1..BufMax) /\ c.len + 1 \in T
    BY <1>1
  <2> HIDE DEF T
  <2>2. PICK t \in T : \A j \in T : t <= j
    BY <1>1, <2>1, FirstPlace
  <2>3. t \in 1..BufMax /\ c.buf[t - 1] = Zero /\ \A i \in 1..BufMax : c.buf[i - 1] = Zero => t <= i
    BY <2>2 DEF T
  <2>4. \A i \in 0..t - 2 : i + 1 \in 1..BufMax /\ i + 1 - 1 = i /\ ~(t <= i + 1)
    BY <1>1, <2>3
  <2>5. \A i \in 0..t - 2 : c.buf[i] # Zero
    BY <2>3, <2>4
  <2>6. t - 1 \in 0..BufMax - 1 /\ t - 1 - 1 = t - 2
    BY <1>1, <2>3
  <2>7. Ends(t - 1)
    BY <2>3, <2>5, <2>6
  <2> HIDE DEF Ends
  <2>8. QED
    BY <2>6, <2>7
<1>3. end \in 0..BufMax - 1 /\ Ends(end)
  <2> HIDE DEF Ends
  <2>1. QED
    BY <1>2
<1>4. CString(c) = [i \in 1..end |-> c.buf[i - 1]]
  BY DEF CString
<1> HIDE DEF end
<1>5. \A i \in 1..end : c.buf[i - 1] \in Chars
  <2>1. \A n \in 0..BufMax - 1 : \A i \in 1..n : i - 1 \in 0..BufMax - 1 /\ i - 1 \in 0..n - 1
    BY <1>1
  <2>2. QED
    BY <1>1, <1>3, <2>1 DEF Bytes
<1>6. CString(c) \in [1..end -> Chars] /\ end \in Nat
  BY <1>1, <1>3, <1>4, <1>5
<1>7. CString(c) \in Seq(Chars) /\ Len(CString(c)) = end
  BY <1>6, SeqDef, LenProperties
<1>8. QED
  BY <1>3, <1>4, <1>7

(* Text without a zero is the whole of its line. *)
LEMMA TextOfLine ==
  ASSUME NEW c, Sound(c), IsText(c)
  PROVE  Len(CString(c)) = c.len
<1>1. Len(CString(c)) \in 0..BufMax - 1 /\ c.buf[Len(CString(c))] = Zero
      /\ \A i \in 1..Len(CString(c)) : CString(c)[i] = c.buf[i - 1]
      /\ CString(c) \in Seq(Chars)
  BY CStringIs
<1>2. c.len \in Nat /\ BufMax \in Nat /\ c.len \in 0..BufMax - 1 /\ c.buf[c.len] = Zero
  BY SoundFields
<1>3. ~(Len(CString(c)) \in 0..c.len - 1)
  BY <1>1 DEF IsText, TextIn
<1>4. ~(c.len + 1 \in 1..Len(CString(c)))
  <2>1. c.len + 1 \in 1..Len(CString(c)) => CString(c)[c.len + 1] = Zero
    BY <1>1, <1>2
  <2>2. c.len + 1 \in 1..Len(CString(c)) => CString(c)[c.len + 1] \in Chars
    BY <1>1, ElementOfSeq
  <2>3. QED
    BY <2>1, <2>2, LineBufferAssumption
<1>5. QED
  BY <1>1, <1>2, <1>3, <1>4

(* The text does not depend on the cursor. *)
LEMMA TextIsBuf ==
  ASSUME NEW c, Sound(c), NEW p
  PROVE  CString([c EXCEPT !.pos = p]) = CString(c)
<1>1. [c EXCEPT !.pos = p].buf = c.buf
  BY DEF Sound, Line
<1>2. QED
  BY <1>1 DEF CString

(* A line filled with text that fits reads as that text. *)
LEMMA TextOfSetCurrent ==
  ASSUME NEW c, Sound(c), NEW s \in Seq(Chars), Len(s) < BufMax
  PROVE  /\ CString(SetCurrent(c, s)) = s
         /\ SetCurrent(c, s).len = Len(s)
<1> DEFINE d == SetCurrent(c, s)
<1>1. Len(s) \in Nat /\ BufMax \in Nat /\ Len(s) \in 0..BufMax - 1
  BY LenProperties, LineBufferAssumption
<1>2. d.buf = [i \in 0..BufMax - 1 |-> IF i < Len(s) THEN s[i + 1] ELSE Zero] /\ d.len = Len(s)
      /\ d \in Line
  <2>1. Lower(Len(s), BufMax - 1) = Len(s)
    BY <1>1, LineBufferAssumption DEF Lower
  <2>2. d \in Line
    BY SetCurrentSound DEF Sound
  <2>3. QED
    BY <2>1, <2>2 DEF SetCurrent, Sound, Line
<1> HIDE DEF d
<1>3. Sound(d)
  BY SetCurrentSound DEF d
<1>4. ASSUME NEW i \in 0..Len(s) - 1 PROVE d.buf[i] = s[i + 1] /\ s[i + 1] \in Chars /\ d.buf[i] # Zero
  <2>1. i + 1 \in 1..Len(s) /\ i \in 0..BufMax - 1 /\ i < Len(s)
    BY <1>1
  <2>2. s[i + 1] \in Chars
    BY <2>1, ElementOfSeq
  <2>3. QED
    BY <1>2, <2>1, <2>2, LineBufferAssumption
<1>5. CString(d) = s
  <2>1. Len(CString(d)) = Len(s)
    BY <1>2, <1>3, <1>4, TextOfLine DEF IsText, TextIn
  <2>2. CString(d) \in Seq(Chars) /\ \A i \in 1..Len(s) : CString(d)[i] = d.buf[i - 1]
    BY <1>3, <2>1, CStringIs
  <2>3. \A i \in 1..Len(s) : i - 1 \in 0..Len(s) - 1 /\ i - 1 + 1 = i
    BY <1>1
  <2>4. \A i \in 1..Len(s) : CString(d)[i] = s[i]
    BY <1>4, <2>2, <2>3
  <2>5. QED
    BY <2>1, <2>2, <2>4, SeqEqual
<1>6. QED
  BY <1>2, <1>5 DEF d

LEMMA FrontIs ==
  ASSUME NEW S, NEW s \in Seq(S), s # <<>>
  PROVE  /\ Front(s) \in Seq(S) /\ Len(Front(s)) = Len(s) - 1 /\ Len(s) \in Nat \ {0}
         /\ \A i \in 1..Len(s) - 1 : Front(s)[i] = s[i]
         /\ Last(s) = s[Len(s)] /\ Last(s) \in S
<1>1. PICK n \in Nat : n = Len(s) - 1
  BY EmptySeq
<1>2. \A i \in 1..n : s[i] \in S
  BY <1>1, ElementOfSeq, LenProperties
<1>3. /\ SubSeq(s, 1, n) \in Seq(S)
      /\ Len(SubSeq(s, 1, n)) = IF 1 <= n THEN n - 1 + 1 ELSE 0
      /\ \A i \in 1..n - 1 + 1 : SubSeq(s, 1, n)[i] = s[1 + i - 1]
  BY <1>2, SubSeqProperties
<1>4. Len(s) \in 1..Len(s) /\ Len(s) \in Nat \ {0}
  BY EmptySeq
<1>5. s[Len(s)] \in S
  BY <1>4, ElementOfSeq
<1>6. QED
  BY <1>1, <1>3, <1>4, <1>5 DEF Front, Last

(***************************************************************************)
(* The history and its file                                                *)
(***************************************************************************)

(* The text of an entry fits the buffer. *)
Entry == {s \in Seq(Chars) : Len(s) < BufMax}

LEMMA EntryIs ==
  ASSUME NEW s \in Entry
  PROVE  s \in Seq(Chars) /\ Len(s) \in Nat /\ Len(s) < BufMax
BY LenProperties DEF Entry

LEMMA HistoryAddIs ==
  ASSUME NEW h \in Seq(Entry), Len(h) <= HistoryMax, NEW line \in Entry
  PROVE  /\ HistoryAdd(h, line) \in Seq(Entry) /\ HistoryAdd(h, line) # <<>>
         /\ Len(HistoryAdd(h, line)) <= HistoryMax
         /\ HistoryAdd(h, line)[Len(HistoryAdd(h, line))] = line
<1> DEFINE kept == IF Len(h) = HistoryMax THEN Tail(h) ELSE h
<1>1. Len(h) \in Nat /\ HistoryMax \in Nat \ {0}
  BY LenProperties, LineEditorAssumption
<1>2. kept \in Seq(Entry) /\ Len(kept) \in Nat /\ Len(kept) + 1 <= HistoryMax
  <2>1. CASE Len(h) = HistoryMax
    <3>1. h # <<>>
      BY <1>1, <2>1
    <3>2. Tail(h) \in Seq(Entry) /\ Len(Tail(h)) = Len(h) - 1
      BY <3>1, HeadTailProperties
    <3>3. QED
      BY <1>1, <2>1, <3>2
  <2>2. CASE Len(h) # HistoryMax
    BY <1>1, <2>2
  <2>3. QED
    BY <2>1, <2>2
<1>3. HistoryAdd(h, line) = IF h # <<>> /\ h[Len(h)] = line THEN h ELSE Append(kept, line)
  BY DEF HistoryAdd, Last
<1> HIDE DEF kept
<1>4. CASE h # <<>> /\ h[Len(h)] = line
  BY <1>3, <1>4
<1>5. CASE ~(h # <<>> /\ h[Len(h)] = line)
  <2>1. HistoryAdd(h, line) = Append(kept, line)
    BY <1>3, <1>5
  <2>2. /\ Append(kept, line) \in Seq(Entry) /\ Append(kept, line) # <<>>
        /\ Len(Append(kept, line)) = Len(kept) + 1
        /\ Append(kept, line)[Len(kept) + 1] = line
    BY <1>2, AppendProperties
  <2>3. QED
    BY <1>2, <2>1, <2>2
<1>6. QED
  BY <1>4, <1>5

LEMMA EscapedIs ==
  ASSUME NEW ch \in Chars
  PROVE  /\ Escaped(ch) \in Seq(Chars) /\ Len(Escaped(ch)) \in {1, 2}
         /\ ch = "\\" => Escaped(ch) = <<"\\", "\\">>
         /\ ch = "nl" => Escaped(ch) = <<"\\", "n">>
         /\ ch = "cr" => Escaped(ch) = <<"\\", "r">>
         /\ ch \notin {"\\", "nl", "cr"} => Escaped(ch) = <<ch>>
<1>1. "\\" \in Chars /\ "n" \in Chars /\ ("cr" \in Chars => "r" \in Chars)
  BY LineEditorAssumption
<1>2. ASSUME NEW x \in Chars, NEW y \in Chars
      PROVE  <<x, y>> \in Seq(Chars) /\ Len(<<x, y>>) = 2 /\ <<x>> \in Seq(Chars) /\ Len(<<x>>) = 1
  OBVIOUS
<1>3. CASE ch = "\\"
  <2>1. Escaped(ch) = <<"\\", "\\">>
    BY <1>3 DEF Escaped
  <2>2. <<"\\", "\\">> \in Seq(Chars) /\ Len(<<"\\", "\\">>) = 2
    BY <1>1, <1>2
  <2>3. QED
    BY <1>3, <2>1, <2>2
<1>4. CASE ch = "nl"
  <2>1. Escaped(ch) = <<"\\", "n">>
    BY <1>4 DEF Escaped
  <2>2. <<"\\", "n">> \in Seq(Chars) /\ Len(<<"\\", "n">>) = 2
    BY <1>1, <1>2
  <2>3. QED
    BY <1>4, <2>1, <2>2
<1>5. CASE ch = "cr"
  <2>1. Escaped(ch) = <<"\\", "r">>
    BY <1>5 DEF Escaped
  <2>2. <<"\\", "r">> \in Seq(Chars) /\ Len(<<"\\", "r">>) = 2
    BY <1>1, <1>2, <1>5
  <2>3. QED
    BY <1>5, <2>1, <2>2
<1>6. CASE ch \notin {"\\", "nl", "cr"}
  <2>1. Escaped(ch) = <<ch>>
    BY <1>6 DEF Escaped
  <2>2. QED
    BY <1>2, <1>6, <2>1
<1>7. QED
  BY <1>3, <1>4, <1>5, <1>6

(* out has the encodings of the prefixes of a line. *)
Encodes(out, line) ==
  /\ out \in [0..Len(line) -> Seq(Chars)] /\ out[0] = <<>>
  /\ \A k \in 1..Len(line) : out[k] = out[k - 1] \o Escaped(line[k])
  /\ Encode(line) = out[Len(line)]

LEMMA EncodeIs ==
  ASSUME NEW line \in Seq(Chars)
  PROVE  \E out : Encodes(out, line)
<1> DEFINE L == Len(line)
           V == Seq(Chars)
           step == [k \in 1..L |-> [a \in V |-> a \o Escaped(line[k])]]
           Body(f) == [n \in 0..L |-> IF n = 0 THEN <<>> ELSE f[n - 1] \o Escaped(line[n])]
<1>1. L \in Nat
  BY LenProperties
<1>2. Encode(line) = (CHOOSE g : g = Body(g))[L]
  BY DEF Encode
<1>3. \A k \in 1..L : Escaped(line[k]) \in V
  BY ElementOfSeq, EscapedIs
<1> HIDE DEF L
<1>4. PICK f \in [0..L -> V] : Follows(f, L, <<>>, step)
  <2>1. <<>> \in V
    BY EmptySeq
  <2>2. step \in [1..L -> [V -> V]]
    BY <1>3, ConcatProperties
  <2> HIDE DEF V, step
  <2>3. QED
    BY <1>1, <2>1, <2>2, PrefixRecursion, Zenon
<1>5. f[0] = <<>> /\ \A k \in 1..L : f[k] = step[k][f[k - 1]]
  BY <1>4 DEF Follows
<1>6. ASSUME NEW k \in 1..L
      PROVE  f[k] = f[k - 1] \o Escaped(line[k])
  <2>1. f[k - 1] \in V
    BY <1>1, <1>4
  <2>2. f[k] = step[k][f[k - 1]]
    BY <1>5
  <2>3. QED
    BY <2>1, <2>2
<1>7. (CHOOSE g : g = Body(g)) = f
  <2>1. f = Body(f)
    <3>1. f = [k \in 0..L |-> f[k]]
      BY <1>4
    <3>2. ASSUME NEW k \in 0..L PROVE f[k] = Body(f)[k]
      <4>1. k = 0 \/ k \in 1..L
        BY <1>1
      <4>2. QED
        BY <1>1, <1>5, <1>6, <4>1
    <3>3. QED
      BY <3>1, <3>2
  <2>2. ASSUME NEW g, g = Body(g) PROVE g = f
    <3>1. g[0] = f[0]
      <4>1. 0 \in 0..L
        BY <1>1
      <4>2. g[0] = <<>>
        BY <2>2, <4>1
      <4>3. QED
        BY <1>5, <4>2
    <3>2. ASSUME NEW k \in 1..L, g[k - 1] = f[k - 1] PROVE g[k] = f[k]
      <4>1. k \in 0..L /\ k # 0
        BY <1>1, <3>2
      <4>2. g[k] = g[k - 1] \o Escaped(line[k])
        BY <2>2, <4>1
      <4>3. QED
        BY <1>6, <3>2, <4>2
    <3>3. Agree(g, f, L)
      BY <1>1, <3>1, <3>2, PrefixUnique
    <3>4. g = [k \in 0..L |-> g[k]] /\ f = [k \in 0..L |-> f[k]]
      BY <1>4, <2>2
    <3>5. QED
      BY <3>3, <3>4 DEF Agree
  <2> HIDE DEF Body
  <2>3. QED
    BY <2>1, <2>2
<1>8. Encodes(f, line)
  BY <1>2, <1>4, <1>5, <1>6, <1>7 DEF Encodes, L
<1>9. QED
  BY <1>8

DecodeState == [escaped : BOOLEAN, text : Seq(Chars)]

DecodedText(end) ==
  IF ~end.escaped /\ end.text # <<>> /\ Last(end.text) \in {"nl", "cr"}
  THEN Front(end.text) ELSE end.text

(* state has what the decoding loop keeps of the prefixes of a piece. *)
Decodes(state, piece) ==
  /\ state \in [0..Len(piece) -> DecodeState]
  /\ state[0] = [escaped |-> FALSE, text |-> <<>>]
  /\ \A k \in 1..Len(piece) : state[k] = DecodeChar(state[k - 1], piece[k])
  /\ Decode(piece) = DecodedText(state[Len(piece)])

(* One character of a piece adds at most one to the text. *)
LEMMA DecodeCharIs ==
  ASSUME NEW s \in DecodeState, NEW ch \in Chars
  PROVE  /\ DecodeChar(s, ch) \in DecodeState
         /\ Len(s.text) \in Nat /\ Len(DecodeChar(s, ch).text) <= Len(s.text) + 1
<1>1. s.escaped \in BOOLEAN /\ s.text \in Seq(Chars) /\ Len(s.text) \in Nat
  BY LenProperties DEF DecodeState
<1> DEFINE meant == IF ch = "n" THEN "nl" ELSE IF ch = "r" THEN "cr" ELSE ch
<1>2. meant \in Chars
  BY LineEditorAssumption
<1> HIDE DEF meant
<1>3. Append(s.text, meant) \in Seq(Chars) /\ Len(Append(s.text, meant)) = Len(s.text) + 1
  BY <1>1, <1>2, AppendProperties
<1>4. Append(s.text, ch) \in Seq(Chars) /\ Len(Append(s.text, ch)) = Len(s.text) + 1
  BY <1>1, AppendProperties
<1>5. CASE s.escaped
  <2>1. DecodeChar(s, ch) = [escaped |-> FALSE, text |-> Append(s.text, meant)]
    BY <1>5 DEF DecodeChar, meant
  <2>2. QED
    BY <1>1, <1>3, <2>1 DEF DecodeState
<1>6. CASE ~s.escaped /\ ch = "\\"
  <2>1. DecodeChar(s, ch) = [s EXCEPT !.escaped = TRUE]
    BY <1>6 DEF DecodeChar
  <2>2. [s EXCEPT !.escaped = TRUE] \in DecodeState /\ [s EXCEPT !.escaped = TRUE].text = s.text
    BY DEF DecodeState
  <2>3. QED
    BY <1>1, <2>1, <2>2
<1>7. CASE ~s.escaped /\ ch # "\\"
  <2>1. DecodeChar(s, ch) = [s EXCEPT !.text = Append(s.text, ch)]
    BY <1>7 DEF DecodeChar
  <2>2. PICK t \in Seq(Chars) : t = Append(s.text, ch)
    BY <1>4
  <2>3. [s EXCEPT !.text = t] \in DecodeState /\ [s EXCEPT !.text = t].text = t
    BY DEF DecodeState
  <2>4. QED
    BY <1>1, <1>4, <2>1, <2>2, <2>3
<1>8. QED
  BY <1>5, <1>6, <1>7

LEMMA DecodeIs ==
  ASSUME NEW piece \in Seq(Chars)
  PROVE  \E state : Decodes(state, piece)
<1> DEFINE L == Len(piece)
           start == [escaped |-> FALSE, text |-> <<>>]
           step == [k \in 1..L |-> [a \in DecodeState |-> DecodeChar(a, piece[k])]]
           Body(f) == [n \in 0..L |-> IF n = 0 THEN start ELSE DecodeChar(f[n - 1], piece[n])]
<1>1. L \in Nat
  BY LenProperties
<1>2. Decode(piece) = DecodedText((CHOOSE g : g = Body(g))[L])
  BY DEF Decode, DecodedText
<1>3. \A k \in 1..L : piece[k] \in Chars
  BY ElementOfSeq
<1> HIDE DEF L
<1>4. PICK f \in [0..L -> DecodeState] : Follows(f, L, start, step)
  <2>1. start \in DecodeState
    BY EmptySeq DEF DecodeState
  <2>2. step \in [1..L -> [DecodeState -> DecodeState]]
    BY <1>3, DecodeCharIs
  <2> HIDE DEF start, step
  <2>3. QED
    BY <1>1, <2>1, <2>2, PrefixRecursion, Zenon
<1>5. f[0] = start /\ \A k \in 1..L : f[k] = step[k][f[k - 1]]
  BY <1>4 DEF Follows
<1>6. ASSUME NEW k \in 1..L
      PROVE  f[k] = DecodeChar(f[k - 1], piece[k])
  <2>1. f[k - 1] \in DecodeState
    BY <1>1, <1>4
  <2>2. f[k] = step[k][f[k - 1]]
    BY <1>5
  <2>3. QED
    BY <2>1, <2>2
<1> HIDE DEF start
<1>7. (CHOOSE g : g = Body(g)) = f
  <2>1. f = Body(f)
    <3>1. f = [k \in 0..L |-> f[k]]
      BY <1>4
    <3>2. ASSUME NEW k \in 0..L PROVE f[k] = Body(f)[k]
      <4>1. k = 0 \/ k \in 1..L
        BY <1>1
      <4>2. QED
        BY <1>1, <1>5, <1>6, <4>1
    <3>3. QED
      BY <3>1, <3>2
  <2>2. ASSUME NEW g, g = Body(g) PROVE g = f
    <3>1. g[0] = f[0]
      BY <1>1, <1>5, <2>2
    <3>2. ASSUME NEW k \in 1..L, g[k - 1] = f[k - 1] PROVE g[k] = f[k]
      <4>1. k \in 0..L /\ k # 0
        BY <1>1, <3>2
      <4>2. g[k] = DecodeChar(g[k - 1], piece[k])
        BY <2>2, <4>1
      <4>3. QED
        BY <1>6, <3>2, <4>2
    <3>3. Agree(g, f, L)
      BY <1>1, <3>1, <3>2, PrefixUnique
    <3>4. g = [k \in 0..L |-> g[k]] /\ f = [k \in 0..L |-> f[k]]
      BY <1>4, <2>2
    <3>5. QED
      BY <3>3, <3>4 DEF Agree
  <2> HIDE DEF Body
  <2>3. QED
    BY <2>1, <2>2
<1>8. Decodes(f, piece)
  BY <1>2, <1>4, <1>5, <1>6, <1>7 DEF Decodes, L, start
<1>9. QED
  BY <1>8

(* What is decoded is no longer than the piece. *)
LEMMA DecodeFits ==
  ASSUME NEW piece \in Entry
  PROVE  Decode(piece) \in Entry
<1>1. piece \in Seq(Chars) /\ Len(piece) \in Nat /\ Len(piece) < BufMax
  BY EntryIs
<1>2. PICK state : Decodes(state, piece)
  BY <1>1, DecodeIs
<1> DEFINE Short == {k \in 0..Len(piece) : Len(state[k].text) <= k}
<1>3. 0 \in Short
  BY <1>1, <1>2, EmptySeq DEF Decodes
<1>4. ASSUME NEW k \in 1..Len(piece), k - 1 \in Short PROVE k \in Short
  <2>1. state[k - 1] \in DecodeState /\ piece[k] \in Chars /\ state[k] = DecodeChar(state[k - 1], piece[k])
        /\ k \in 0..Len(piece) /\ state[k] \in DecodeState
    BY <1>1, <1>2, ElementOfSeq DEF Decodes
  <2>2. Len(state[k].text) <= Len(state[k - 1].text) + 1 /\ Len(state[k - 1].text) \in Nat
        /\ Len(state[k].text) \in Nat
    BY <2>1, DecodeCharIs, LenProperties DEF DecodeState
  <2>3. QED
    BY <1>4, <2>1, <2>2
<1>5. Len(piece) \in Short
  <2> HIDE DEF Short
  <2>1. \A k \in 0..Len(piece) : k \in Short
    BY <1>1, <1>3, <1>4, PrefixInduction
  <2>2. QED
    BY <1>1, <2>1
<1>6. PICK end \in DecodeState : end = state[Len(piece)] /\ Decode(piece) = DecodedText(end)
  BY <1>1, <1>2 DEF Decodes
<1>7. end.text \in Seq(Chars) /\ Len(end.text) \in Nat /\ Len(end.text) < BufMax
  BY <1>1, <1>5, <1>6, LenProperties, LineBufferAssumption DEF DecodeState
<1>8. end.text # <<>> => Front(end.text) \in Seq(Chars) /\ Len(Front(end.text)) = Len(end.text) - 1
  BY <1>7, FrontIs
<1>9. Decode(piece) \in Seq(Chars) /\ Len(Decode(piece)) < BufMax
  BY <1>6, <1>7, <1>8, LineBufferAssumption DEF DecodedText
<1>10. QED
  BY <1>9 DEF Entry

(* fgets reads at most as many characters as fit the buffer. *)
LEMMA PiecesIs ==
  ASSUME NEW bytes \in Seq(Chars)
  PROVE  Pieces(bytes) \in Seq(Entry)
<1> DEFINE b == BufMax - 1
           N == (Len(bytes) + BufMax - 2) \div b
           piece(k) == SubSeq(bytes, (k - 1) * b + 1, Lower(k * b, Len(bytes)))
<1>1. BufMax \in Nat /\ BufMax >= 3 /\ Len(bytes) \in Nat
  BY LineBufferAssumption, LenProperties
<1>2. b \in Nat \ {0} /\ Len(bytes) + BufMax - 2 \in Nat /\ b + 1 = BufMax
  BY <1>1
<1>3. Pieces(bytes) = [k \in 1..N |-> piece(k)]
  BY DEF Pieces
<1> HIDE DEF b
<1>4. N \in Nat
  BY <1>2
<1>5. ASSUME NEW k \in 1..N PROVE piece(k) \in Entry
  <2>1. PICK from \in Nat : from = (k - 1) * b
    BY <1>2, <1>4
  <2>2. PICK to \in Nat : to = k * b
    BY <1>2, <1>4
  <2>3. to - from = b
    BY <1>2, <1>4, <2>1, <2>2
  <2>4. PICK end \in Nat : end = Lower(to, Len(bytes))
    BY <1>1 DEF Lower
  <2>5. end <= to /\ end <= Len(bytes)
    BY <1>1, <2>4, LowerIs
  <2>6. \A i \in from + 1..end : bytes[i] \in Chars
    BY <1>1, <2>5, ElementOfSeq
  <2>7. SubSeq(bytes, from + 1, end) \in Seq(Chars)
        /\ Len(SubSeq(bytes, from + 1, end)) = IF from + 1 <= end THEN end - (from + 1) + 1 ELSE 0
    BY <2>6, SubSeqProperties
  <2>8. Len(SubSeq(bytes, from + 1, end)) < BufMax
    BY <1>1, <1>2, <2>3, <2>5, <2>7
  <2>9. QED
    BY <2>1, <2>2, <2>4, <2>7, <2>8 DEF Entry
<1> HIDE DEF N, piece
<1>6. [k \in 1..N |-> piece(k)] \in [1..N -> Entry]
  BY <1>5
<1>7. QED
  BY <1>3, <1>4, <1>6, SeqDef

(* A line that fits the buffer is read at once. *)
LEMMA OnePiece ==
  ASSUME NEW bytes \in Seq(Chars), bytes # <<>>, Len(bytes) < BufMax
  PROVE  Pieces(bytes) = <<bytes>>
<1> DEFINE b == BufMax - 1
           N == (Len(bytes) + BufMax - 2) \div b
<1>1. BufMax \in Nat /\ BufMax >= 3 /\ Len(bytes) \in Nat \ {0}
  BY LineBufferAssumption, LenProperties, EmptySeq
<1>2. b \in Nat \ {0} /\ Len(bytes) + BufMax - 2 \in Nat
      /\ b <= Len(bytes) + BufMax - 2 /\ Len(bytes) + BufMax - 2 < 2 * b
  BY <1>1
<1>3. PICK a \in Nat : a = Len(bytes) + BufMax - 2
  BY <1>2
<1>4. N = 1
  <2>1. b \in Nat \ {0} /\ b <= a /\ a < 2 * b
    BY <1>2, <1>3
  <2> HIDE DEF b
  <2>2. a \div b = 1
    BY <2>1
  <2>3. QED
    BY <1>3, <2>2
<1>5. Pieces(bytes) = [k \in 1..1 |-> SubSeq(bytes, (k - 1) * b + 1, Lower(k * b, Len(bytes)))]
  BY <1>4 DEF Pieces
<1>6. SubSeq(bytes, (1 - 1) * b + 1, Lower(1 * b, Len(bytes))) = bytes
  <2>1. (1 - 1) * b + 1 = 1 /\ 1 * b = b /\ Lower(b, Len(bytes)) = Len(bytes)
    BY <1>1 DEF Lower
  <2>2. \A i \in 1..Len(bytes) : bytes[i] \in Chars
    BY ElementOfSeq
  <2>3. PICK n \in Nat : n = Len(bytes)
    BY <1>1
  <2>4. SubSeq(bytes, 1, n) \in Seq(Chars) /\ Len(SubSeq(bytes, 1, n)) = n
        /\ \A i \in 1..n : SubSeq(bytes, 1, n)[i] = bytes[1 + i - 1]
    <3>1. /\ SubSeq(bytes, 1, n) \in Seq(Chars)
          /\ Len(SubSeq(bytes, 1, n)) = IF 1 <= n THEN n - 1 + 1 ELSE 0
          /\ \A i \in 1..n - 1 + 1 : SubSeq(bytes, 1, n)[i] = bytes[1 + i - 1]
      BY <2>2, <2>3, SubSeqProperties
    <3>2. QED
      BY <1>1, <2>3, <3>1
  <2>5. SubSeq(bytes, 1, n) = bytes
    BY <2>3, <2>4, SeqEqual
  <2>6. QED
    BY <2>1, <2>3, <2>5
<1>7. Pieces(bytes) = [k \in 1..1 |-> bytes]
  <2> HIDE DEF b
  <2>1. QED
    BY <1>5, <1>6
<1>8. QED
  BY <1>7

(* A history: its entries fit the buffer, and it is not over-full. *)
Histories == {h \in Seq(Entry) : Len(h) <= HistoryMax}

LEMMA HistoriesIs ==
  ASSUME NEW h \in Histories
  PROVE  h \in Seq(Entry) /\ Len(h) \in Nat /\ Len(h) <= HistoryMax
BY LenProperties DEF Histories

LEMMA NoHistory == <<>> \in Histories
<1>1. HistoryMax \in Nat
  BY LineEditorAssumption
<1>2. <<>> \in Seq(Entry) /\ Len(<<>>) = 0
  BY EmptySeq
<1>3. QED
  BY <1>1, <1>2 DEF Histories

LEMMA AddKeeps ==
  ASSUME NEW h \in Histories, NEW line \in Entry
  PROVE  HistoryAdd(h, line) \in Histories
BY HistoriesIs, HistoryAddIs DEF Histories

(* got has what is loaded of the prefixes of the pieces of a line. *)
LoadsPieces(got, h, line) ==
  LET pieces == Pieces(Append(Encode(line), "nl"))
  IN  /\ got \in [0..Len(pieces) -> Histories] /\ got[0] = h
      /\ \A k \in 1..Len(pieces) : got[k] = HistoryAdd(got[k - 1], Decode(pieces[k]))
      /\ LoadLine(h, line) = got[Len(pieces)]

LEMMA EncodedTyped ==
  ASSUME NEW line \in Seq(Chars)
  PROVE  /\ Encode(line) \in Seq(Chars) /\ Len(Encode(line)) \in Nat
         /\ Append(Encode(line), "nl") \in Seq(Chars) /\ Append(Encode(line), "nl") # <<>>
         /\ Len(Append(Encode(line), "nl")) = Len(Encode(line)) + 1
         /\ \A i \in 1..Len(Encode(line)) : Append(Encode(line), "nl")[i] = Encode(line)[i]
         /\ Append(Encode(line), "nl")[Len(Encode(line)) + 1] = "nl"
<1>1. Encode(line) \in Seq(Chars)
  <2>1. PICK out : Encodes(out, line)
    BY EncodeIs
  <2>2. Len(line) \in 0..Len(line)
    BY LenProperties
  <2>3. QED
    BY <2>1, <2>2 DEF Encodes
<1>2. "nl" \in Chars
  BY LineEditorAssumption
<1>3. QED
  BY <1>1, <1>2, AppendProperties, LenProperties

LEMMA LoadLineIs ==
  ASSUME NEW h \in Histories, NEW line \in Seq(Chars)
  PROVE  \E got : LoadsPieces(got, h, line)
<1> DEFINE pieces == Pieces(Append(Encode(line), "nl"))
           L == Len(pieces)
           step == [k \in 1..L |-> [a \in Histories |-> HistoryAdd(a, Decode(pieces[k]))]]
           Body(f) == [n \in 0..L |-> IF n = 0 THEN h ELSE HistoryAdd(f[n - 1], Decode(pieces[n]))]
<1>1. pieces \in Seq(Entry) /\ L \in Nat
  BY EncodedTyped, PiecesIs, LenProperties
<1>2. LoadLine(h, line) = (CHOOSE g : g = Body(g))[L]
  BY DEF LoadLine
<1> HIDE DEF pieces
<1>3. \A k \in 1..L : Decode(pieces[k]) \in Entry
  BY <1>1, ElementOfSeq, DecodeFits
<1> HIDE DEF L
<1>4. PICK f \in [0..L -> Histories] : Follows(f, L, h, step)
  <2>1. step \in [1..L -> [Histories -> Histories]]
    BY <1>3, AddKeeps
  <2> HIDE DEF step
  <2>2. QED
    BY <1>1, <2>1, PrefixRecursion, Zenon
<1>5. f[0] = h /\ \A k \in 1..L : f[k] = step[k][f[k - 1]]
  BY <1>4 DEF Follows
<1>6. ASSUME NEW k \in 1..L
      PROVE  f[k] = HistoryAdd(f[k - 1], Decode(pieces[k]))
  <2>1. f[k - 1] \in Histories
    BY <1>1, <1>4
  <2>2. f[k] = step[k][f[k - 1]]
    BY <1>5
  <2>3. QED
    BY <2>1, <2>2
<1>7. (CHOOSE g : g = Body(g)) = f
  <2>1. f = Body(f)
    <3>1. f = [k \in 0..L |-> f[k]]
      BY <1>4
    <3>2. ASSUME NEW k \in 0..L PROVE f[k] = Body(f)[k]
      <4>1. k = 0 \/ k \in 1..L
        BY <1>1
      <4>2. QED
        BY <1>1, <1>5, <1>6, <4>1
    <3>3. QED
      BY <3>1, <3>2
  <2>2. ASSUME NEW g, g = Body(g) PROVE g = f
    <3>1. g[0] = f[0]
      BY <1>1, <1>5, <2>2
    <3>2. ASSUME NEW k \in 1..L, g[k - 1] = f[k - 1] PROVE g[k] = f[k]
      <4>1. k \in 0..L /\ k # 0
        BY <1>1, <3>2
      <4>2. g[k] = HistoryAdd(g[k - 1], Decode(pieces[k]))
        BY <2>2, <4>1
      <4>3. QED
        BY <1>6, <3>2, <4>2
    <3>3. Agree(g, f, L)
      BY <1>1, <3>1, <3>2, PrefixUnique
    <3>4. g = [k \in 0..L |-> g[k]] /\ f = [k \in 0..L |-> f[k]]
      BY <1>4, <2>2
    <3>5. QED
      BY <3>3, <3>4 DEF Agree
  <2> HIDE DEF Body
  <2>3. QED
    BY <2>1, <2>2
<1>8. LoadsPieces(f, h, line)
  BY <1>2, <1>4, <1>5, <1>6, <1>7 DEF LoadsPieces, L, pieces
<1>9. QED
  BY <1>8

LEMMA LoadLineKeeps ==
  ASSUME NEW h \in Histories, NEW line \in Seq(Chars)
  PROVE  LoadLine(h, line) \in Histories
<1>1. PICK got : LoadsPieces(got, h, line)
  BY LoadLineIs
<1>2. Len(Pieces(Append(Encode(line), "nl"))) \in Nat
  BY EncodedTyped, PiecesIs, LenProperties
<1>3. QED
  BY <1>1, <1>2 DEF LoadsPieces

(* got has what is loaded of the prefixes of the lines of a file. *)
LoadsLines(got, lines) ==
  /\ got \in [0..Len(lines) -> Histories] /\ got[0] = <<>>
  /\ \A k \in 1..Len(lines) : got[k] = LoadLine(got[k - 1], lines[k])
  /\ HistoryLoad(lines) = got[Len(lines)]

LEMMA HistoryLoadIs ==
  ASSUME NEW lines \in Histories
  PROVE  \E got : LoadsLines(got, lines)
<1> DEFINE L == Len(lines)
           step == [k \in 1..L |-> [a \in Histories |-> LoadLine(a, lines[k])]]
           Body(f) == [n \in 0..L |-> IF n = 0 THEN <<>> ELSE LoadLine(f[n - 1], lines[n])]
<1>1. L \in Nat
  BY HistoriesIs
<1>2. HistoryLoad(lines) = (CHOOSE g : g = Body(g))[L]
  BY DEF HistoryLoad
<1>3. \A k \in 1..L : lines[k] \in Seq(Chars)
  BY HistoriesIs, ElementOfSeq, EntryIs
<1> HIDE DEF L
<1>4. PICK f \in [0..L -> Histories] : Follows(f, L, <<>>, step)
  <2>1. <<>> \in Histories
    BY NoHistory
  <2>2. step \in [1..L -> [Histories -> Histories]]
    BY <1>3, LoadLineKeeps
  <2> HIDE DEF step
  <2>3. QED
    BY <1>1, <2>1, <2>2, PrefixRecursion, Zenon
<1>5. f[0] = <<>> /\ \A k \in 1..L : f[k] = step[k][f[k - 1]]
  BY <1>4 DEF Follows
<1>6. ASSUME NEW k \in 1..L
      PROVE  f[k] = LoadLine(f[k - 1], lines[k])
  <2>1. f[k - 1] \in Histories
    BY <1>1, <1>4
  <2>2. f[k] = step[k][f[k - 1]]
    BY <1>5
  <2>3. QED
    BY <2>1, <2>2
<1>7. (CHOOSE g : g = Body(g)) = f
  <2>1. f = Body(f)
    <3>1. f = [k \in 0..L |-> f[k]]
      BY <1>4
    <3>2. ASSUME NEW k \in 0..L PROVE f[k] = Body(f)[k]
      <4>1. k = 0 \/ k \in 1..L
        BY <1>1
      <4>2. QED
        BY <1>1, <1>5, <1>6, <4>1
    <3>3. QED
      BY <3>1, <3>2
  <2>2. ASSUME NEW g, g = Body(g) PROVE g = f
    <3>1. g[0] = f[0]
      <4>1. 0 \in 0..L
        BY <1>1
      <4>2. g[0] = <<>>
        BY <2>2, <4>1
      <4>3. QED
        BY <1>5, <4>2
    <3>2. ASSUME NEW k \in 1..L, g[k - 1] = f[k - 1] PROVE g[k] = f[k]
      <4>1. k \in 0..L /\ k # 0
        BY <1>1, <3>2
      <4>2. g[k] = LoadLine(g[k - 1], lines[k])
        BY <2>2, <4>1
      <4>3. QED
        BY <1>6, <3>2, <4>2
    <3>3. Agree(g, f, L)
      BY <1>1, <3>1, <3>2, PrefixUnique
    <3>4. g = [k \in 0..L |-> g[k]] /\ f = [k \in 0..L |-> f[k]]
      BY <1>4, <2>2
    <3>5. QED
      BY <3>3, <3>4 DEF Agree
  <2> HIDE DEF Body
  <2>3. QED
    BY <2>1, <2>2
<1>8. LoadsLines(f, lines)
  BY <1>2, <1>4, <1>5, <1>6, <1>7 DEF LoadsLines, L
<1>9. QED
  BY <1>8

LEMMA HistoryLoadKeeps ==
  ASSUME NEW lines \in Histories
  PROVE  HistoryLoad(lines) \in Histories
<1>1. PICK got : LoadsLines(got, lines)
  BY HistoryLoadIs
<1>2. Len(lines) \in 0..Len(lines)
  BY HistoriesIs
<1>3. QED
  BY <1>1, <1>2 DEF LoadsLines

(***************************************************************************)
(* The keys                                                                *)
(***************************************************************************)

LEMMA WordStartIs ==
  ASSUME NEW c, Sound(c)
  PROVE  WordStart(c) \in 0..c.pos
<1> DEFINE stops == {i \in 1..c.pos : /\ c.buf[i - 1] = " "
                                      /\ \E j \in {i_1 \in 0..c.pos - 1 : c.buf[i_1] # " "} : j >= i}
<1>1. c.pos \in Nat
  BY SoundFields
<1>2. WordStart(c) = IF \E i \in stops : TRUE
                     THEN CHOOSE i \in stops : \A j \in stops : j <= i ELSE 0
  BY DEF WordStart
<1>3. stops \in SUBSET (1..c.pos)
  OBVIOUS
<1> HIDE DEF stops
<1>4. CASE \E i \in stops : TRUE
  <2>1. stops # {}
    BY <1>4
  <2>2. \E i \in stops : \A j \in stops : j <= i
    BY <1>1, <1>3, <2>1, LastPlace
  <2>3. (CHOOSE i \in stops : \A j \in stops : j <= i) \in stops
    BY <2>2
  <2>4. WordStart(c) = CHOOSE i \in stops : \A j \in stops : j <= i
    BY <1>2, <1>4, Zenon
  <2>5. WordStart(c) \in 1..c.pos
    BY <1>3, <2>3, <2>4
  <2>6. QED
    BY <1>1, <2>5
<1>5. CASE ~\E i \in stops : TRUE
  BY <1>1, <1>2, <1>5
<1>6. QED
  BY <1>4, <1>5

LEMMA UpToZeroTyped ==
  ASSUME NEW s \in Seq(Bytes)
  PROVE  UpToZero(s) \in Seq(Bytes)
<1> DEFINE Ends(n) == (\A i \in 1..n : s[i] # Zero) /\ (n < Len(s) => s[n + 1] = Zero)
           end == CHOOSE n \in 0..Len(s) : Ends(n)
           T == {i \in 1..Len(s) : s[i] = Zero}
<1>1. Len(s) \in Nat
  BY LenProperties
<1>2. \E n \in 0..Len(s) : Ends(n)
  <2>1. CASE T = {}
    <3>1. Ends(Len(s)) /\ Len(s) \in 0..Len(s)
      BY <1>1, <2>1
    <3> HIDE DEF Ends
    <3>2. QED
      BY <3>1
  <2>2. CASE T # {}
    <3>1. T \in SUBSET (1..Len(s))
      OBVIOUS
    <3> HIDE DEF T
    <3>2. PICK t \in T : \A j \in T : t <= j
      BY <1>1, <2>2, <3>1, FirstPlace
    <3>3. t \in 1..Len(s) /\ s[t] = Zero /\ \A i \in 1..Len(s) : s[i] = Zero => t <= i
      BY <3>2 DEF T
    <3>4. \A i \in 1..t - 1 : i \in 1..Len(s) /\ ~(t <= i)
      BY <1>1, <3>3
    <3>5. t - 1 \in 0..Len(s) /\ t - 1 + 1 = t
      BY <1>1, <3>3
    <3>6. Ends(t - 1)
      BY <3>3, <3>4, <3>5
    <3> HIDE DEF Ends
    <3>7. QED
      BY <3>5, <3>6
  <2>3. QED
    BY <2>1, <2>2
<1>3. end \in 0..Len(s)
  <2> HIDE DEF Ends
  <2>1. QED
    BY <1>2
<1>4. UpToZero(s) = SubSeq(s, 1, end)
  BY DEF UpToZero
<1> HIDE DEF end
<1>5. \A i \in 1..end : s[i] \in Bytes
  BY <1>1, <1>3, ElementOfSeq
<1>6. end \in Int
  BY <1>1, <1>3
<1>7. SubSeq(s, 1, end) \in Seq(Bytes)
  BY <1>5, <1>6, SubSeqProperties
<1>8. QED
  BY <1>4, <1>7

LEMMA TransposedSound ==
  ASSUME NEW c, Sound(c)
  PROVE  Sound(Transposed(c))
<1> DEFINE at == c.pos - (IF c.pos = c.len THEN 1 ELSE 0)
<1>1. c.pos \in Nat /\ c.len \in Nat /\ c.pos <= c.len /\ at \in Int
  BY SoundFields
<1>2. GetChar(c, at) \in Bytes
  BY <1>1, SoundFields DEF GetChar, Bytes
<1> HIDE DEF at
<1>3. Sound(RemoveChar(c, at)) /\ RemoveChar(c, at).pos - 1 \in Int
  <2>1. Sound(RemoveChar(c, at))
    BY <1>1, RemoveCharSound
  <2>2. RemoveChar(c, at).pos \in Nat
    BY <2>1, SoundFields
  <2>3. QED
    BY <2>1, <2>2
<1>4. Sound(InsertChar(RemoveChar(c, at), RemoveChar(c, at).pos - 1, GetChar(c, at)))
  BY <1>2, <1>3, InsertCharSound
<1>5. QED
  BY <1>4 DEF Transposed, at

(* The entries and the line that history_navigation leaves. *)
LEMMA NavigatedKeeps ==
  ASSUME NEW h \in Histories, h # <<>>, NEW index \in 0..Len(h) - 1, NEW c, Sound(c), NEW dir \in Int
  PROVE  /\ Navigated(h, index, c, dir).history \in Histories
         /\ Len(Navigated(h, index, c, dir).history) = Len(h)
         /\ Navigated(h, index, c, dir).index \in 0..Len(h) - 1
         /\ Sound(Navigated(h, index, c, dir).line)
         /\ \A i \in 1..Len(h) \ {Len(h) - index} : Navigated(h, index, c, dir).history[i] = h[i]
<1> DEFINE n == index + dir
           i == IF n < 0 THEN 0 ELSE Lower(n, Len(h) - 1)
           saved == SaveShown(h, index, c)
           moved == IF i = n THEN SetCurrent(c, saved[Len(h) - i]) ELSE c
<1>1. h \in Seq(Entry) /\ Len(h) \in Nat \ {0} /\ Len(h) <= HistoryMax /\ n \in Int
  BY HistoriesIs, EmptySeq
<1>2. CString(c) \in Entry
  BY CStringIs, LineBufferAssumption DEF Entry
<1>3. saved \in Seq(Entry) /\ Len(saved) = Len(h) /\ \A j \in 1..Len(h) \ {Len(h) - index} : saved[j] = h[j]
  <2>1. saved = [h EXCEPT ![Len(h) - index] = CString(c)]
    BY DEF SaveShown
  <2>2. PICK m \in Nat : m = Len(h)
    BY <1>1
  <2>3. h \in [1..m -> Entry] /\ \A j \in 1..m : h[j] \in Entry
    BY <1>1, <2>2, LenProperties, ElementOfSeq
  <2>4. PICK text \in Entry : text = CString(c)
    BY <1>2
  <2>5. saved \in [1..m -> Entry] /\ \A j \in 1..m \ {Len(h) - index} : saved[j] = h[j]
    BY <2>1, <2>2, <2>3, <2>4
  <2> HIDE DEF saved
  <2>6. QED
    BY <2>2, <2>5, SeqDef, LenProperties
<1>4. i \in 0..Len(h) - 1
  BY <1>1 DEF Lower
<1> HIDE DEF n, i, saved
<1>5. saved[Len(h) - i] \in Seq(Chars)
  <2>1. Len(h) - i \in 1..Len(saved)
    BY <1>1, <1>3, <1>4
  <2>2. QED
    BY <1>3, <2>1, ElementOfSeq, EntryIs
<1>6. Sound(moved)
  BY <1>5, SetCurrentSound
<1> HIDE DEF moved
<1>7. Navigated(h, index, c, dir) = IF Len(h) <= 1 THEN [history |-> h, index |-> index, line |-> c]
                                    ELSE [history |-> saved, index |-> i, line |-> moved]
  BY DEF Navigated, n, i, saved, moved
<1>8. CASE Len(h) <= 1
  BY <1>1, <1>7, <1>8
<1>9. CASE ~(Len(h) <= 1)
  <2>1. Navigated(h, index, c, dir) = [history |-> saved, index |-> i, line |-> moved]
    BY <1>7, <1>9
  <2>2. QED
    BY <1>1, <1>3, <1>4, <1>6, <2>1 DEF Histories
<1>10. QED
  BY <1>8, <1>9

(***************************************************************************)
(* The inductive invariant                                                 *)
(***************************************************************************)

Modes == {"idle", "closed", "edit", "search", "complete", "verbatim"}
Editing == mode \notin {"idle", "closed"}

(* The line ends in zeros, and whatever is in the history or its file fits the
   buffer: no line that is shown is cut. *)
LinePart == Sound(current)
HistoryPart == history \in Histories /\ file \in Histories

(* At the prompt there is at least the scratch entry, and an entry is shown. *)
ModePart ==
  /\ mode \in Modes
  /\ mode \in {"idle", "closed"} => history_index = 0
  /\ mode = "closed" => history = <<>>
  /\ Editing => history # <<>> /\ history_index \in 0..Len(history) - 1

(* The locals of a search, whose text the line contains. *)
SearchPart ==
  /\ rbuf \in Seq(Chars) /\ Len(rbuf) <= SearchLimit /\ searchpos \in -1..Len(history) /\ choice \in Nat
  /\ mode # "search" => rbuf = <<>> /\ searchpos = -1
  /\ mode = "search" => Occurs(rbuf, Text) # {}

UserPart == keys \in Keyboards /\ terminal \in BOOLEAN

IInv == LinePart /\ HistoryPart /\ ModePart /\ SearchPart /\ UserPart

LEMMA LimitIs == SearchLimit \in Nat /\ Len(<<>>) <= SearchLimit
<1>1. SearchSize \in Nat \ {0} /\ SearchSlack \in Nat
  BY LineEditorAssumption, Zenon
<1>2. Len(<<>>) = 0
  BY EmptySeq
<1>3. QED
  BY <1>1, <1>2 DEF SearchLimit

(* The editor begins with an empty line, an empty history and an empty file. *)
THEOREM InvInit == Init => IInv
<1> SUFFICES ASSUME Init PROVE IInv
  OBVIOUS
<1>1. LinePart
  BY EmptyLineSound DEF Init, LinePart
<1>2. HistoryPart
  BY NoHistory DEF Init, HistoryPart
<1>3. ModePart
  BY DEF Init, ModePart, Modes, Editing
<1>4. SearchPart
  <2>1. <<>> \in Seq(Chars) /\ Len(<<>>) = 0
    BY EmptySeq
  <2>2. QED
    BY <2>1, LimitIs DEF Init, SearchPart
<1>5. UserPart
  BY DEF Init, UserPart
<1>6. QED
  BY <1>1, <1>2, <1>3, <1>4, <1>5 DEF IInv

(* A key that changes the line, and the end of a search. *)
LEMMA EditedKeeps ==
  ASSUME IInv, Editing, NEW d, Sound(d), Edited(d)
  PROVE  IInv'
<1>1. LinePart'
  BY DEF Edited, LinePart
<1>2. HistoryPart'
  BY DEF IInv, HistoryPart, Edited
<1>3. ModePart'
  BY DEF IInv, ModePart, Edited, Editing, Modes
<1>4. SearchPart'
  <2>1. <<>> \in Seq(Chars) /\ Len(history) \in Nat
    BY EmptySeq, HistoriesIs DEF IInv, HistoryPart
  <2>2. rbuf' = <<>> /\ searchpos' = -1 /\ choice' = 0 /\ history' = history /\ mode' = "edit"
    BY DEF Edited, Forget
  <2>3. QED
    BY <2>1, <2>2, LimitIs DEF SearchPart
<1>5. UserPart'
  BY DEF IInv, UserPart, Edited
<1>6. QED
  BY <1>1, <1>2, <1>3, <1>4, <1>5 DEF IInv

LEMMA ReturnedKeeps ==
  ASSUME IInv, NEW h \in Histories, NEW line \in Entry, Returned(h, line)
  PROVE  IInv'
<1>1. LinePart'
  BY EmptyLineSound DEF Returned, LinePart
<1>2. HistoryPart'
  <2>1. HistoryAdd(h, line) \in Histories
    BY AddKeeps
  <2>2. history' \in Histories
    BY <2>1 DEF Returned
  <2>3. file' \in Histories
    BY <2>2 DEF Returned, IInv, HistoryPart
  <2>4. QED
    BY <2>2, <2>3 DEF HistoryPart
<1>3. ModePart'
  BY DEF ModePart, Returned, Editing, Modes
<1>4. SearchPart'
  <2>1. PICK g \in Histories : g = history'
    BY <1>2 DEF HistoryPart
  <2>2. <<>> \in Seq(Chars) /\ Len(history') \in Nat
    BY <2>1, EmptySeq, HistoriesIs
  <2>3. rbuf' = <<>> /\ searchpos' = -1 /\ choice' = 0 /\ mode' = "idle"
    BY DEF Returned, Forget
  <2>4. QED
    BY <2>2, <2>3, LimitIs DEF SearchPart
<1>5. UserPart'
  BY DEF IInv, UserPart, Returned
<1>6. QED
  BY <1>1, <1>2, <1>3, <1>4, <1>5 DEF IInv

LEMMA CloseKeeps ==
  ASSUME IInv, Close
  PROVE  IInv'
<1>1. LinePart'
  BY EmptyLineSound DEF Close, LinePart
<1>2. HistoryPart'
  BY NoHistory DEF IInv, HistoryPart, Close
<1>3. ModePart'
  BY DEF ModePart, Close, Editing, Modes
<1>4. SearchPart'
  <2>1. <<>> \in Seq(Chars) /\ Len(<<>>) = 0
    BY EmptySeq
  <2>2. rbuf' = <<>> /\ searchpos' = -1 /\ choice' = 0 /\ mode' = "closed" /\ history' = <<>>
    BY DEF Close, Forget
  <2>3. QED
    BY <2>1, <2>2, LimitIs DEF SearchPart
<1>5. UserPart'
  BY DEF IInv, UserPart, Close
<1>6. QED
  BY <1>1, <1>2, <1>3, <1>4, <1>5 DEF IInv

(* What linenoiseEdit begins with. *)
LEMMA PromptKeeps ==
  ASSUME IInv, Prompt
  PROVE  IInv'
<1>1. <<>> \in Entry
  BY EmptySeq, LineBufferAssumption DEF Entry
<1>2. /\ HistoryAdd(history, <<>>) \in Seq(Entry) /\ HistoryAdd(history, <<>>) # <<>>
      /\ Len(HistoryAdd(history, <<>>)) \in Nat \ {0} /\ Len(HistoryAdd(history, <<>>)) <= HistoryMax
  <2>1. history \in Seq(Entry) /\ Len(history) <= HistoryMax
    BY HistoriesIs DEF IInv, HistoryPart
  <2>2. PICK h \in Seq(Entry) : h = HistoryAdd(history, <<>>) /\ h # <<>> /\ Len(h) <= HistoryMax
    BY <1>1, <2>1, HistoryAddIs
  <2>3. QED
    BY <2>2, EmptySeq
<1>3. LinePart'
  <2>1. <<>> \in Seq(Chars)
    BY EmptySeq
  <2>2. Sound(SetCurrent(EmptyLine, <<>>))
    BY <2>1, EmptyLineSound, SetCurrentSound
  <2>3. QED
    BY <2>2 DEF Prompt, LinePart
<1>4. HistoryPart'
  BY <1>2 DEF IInv, HistoryPart, Prompt, Histories
<1>5. ModePart'
  BY <1>2 DEF IInv, ModePart, Prompt, Editing, Modes
<1>6. SearchPart'
  BY <1>2 DEF IInv, SearchPart, Prompt, searching
<1>7. UserPart'
  BY DEF IInv, UserPart, Prompt
<1>8. QED
  BY <1>3, <1>4, <1>5, <1>6, <1>7 DEF IInv

LEMMA RestartKeeps ==
  ASSUME IInv, Restart
  PROVE  IInv'
<1>1. HistoryLoad(file) \in Histories
  BY HistoryLoadKeeps DEF IInv, HistoryPart
<1>2. HistoryPart'
  BY <1>1 DEF IInv, HistoryPart, Restart
<1>3. LinePart'
  BY DEF IInv, LinePart, Restart
<1>4. ModePart'
  BY DEF IInv, ModePart, Restart, Editing, Modes
<1>5. SearchPart'
  <2>1. Len(HistoryLoad(file)) \in Nat
    BY <1>1, HistoriesIs
  <2>2. rbuf = <<>> /\ searchpos = -1 /\ rbuf \in Seq(Chars) /\ choice \in Nat /\ Len(rbuf) <= SearchLimit
    BY DEF IInv, SearchPart, Restart
  <2>3. QED
    BY <2>1, <2>2 DEF SearchPart, Restart, searching
<1>6. UserPart'
  BY DEF IInv, UserPart, Restart
<1>7. QED
  BY <1>2, <1>3, <1>4, <1>5, <1>6 DEF IInv

LEMMA PlainEntry ==
  ASSUME NEW line \in BoundedSeq(Typed, Lower(MaxPlain, BufMax - 1))
  PROVE  line \in Entry
<1>1. Lower(MaxPlain, BufMax - 1) \in Nat /\ Lower(MaxPlain, BufMax - 1) < BufMax
      /\ BufMax \in Nat
  <2>1. BufMax \in Nat /\ BufMax >= 3 /\ MaxPlain \in Nat
    BY LineEditorAssumption, LineBufferAssumption
  <2>2. QED
    BY <2>1 DEF Lower
<1>2. PICK n \in 0..Lower(MaxPlain, BufMax - 1) : line \in [1..n -> Typed]
  BY DEF BoundedSeq, SeqOf
<1>3. n \in Nat /\ n < BufMax
  BY <1>1, <1>2
<1>4. line \in [1..n -> Chars]
  BY <1>2 DEF Typed
<1>5. line \in Seq(Chars) /\ Len(line) = n
  BY <1>3, <1>4, SeqDef, LenProperties
<1>6. QED
  BY <1>3, <1>5 DEF Entry

LEMMA PlainLineKeeps ==
  ASSUME IInv, PlainLine
  PROVE  IInv'
<1>1. PICK line \in BoundedSeq(Typed, Lower(MaxPlain, BufMax - 1)) : Returned(history, line)
  BY DEF PlainLine
<1>2. line \in Entry
  BY <1>1, PlainEntry
<1>3. history \in Histories
  BY DEF IInv, HistoryPart
<1>4. QED
  BY <1>1, <1>2, <1>3, ReturnedKeeps

(***************************************************************************)
(* Text that occurs in a line                                              *)
(***************************************************************************)

LEMMA FirstOfIs ==
  ASSUME NEW n \in Nat, NEW S \in SUBSET (0..n), S # {}
  PROVE  FirstOf(S) \in S /\ LastOf(S) \in S
<1> DEFINE T == {i + 1 : i \in S}
<1>0. PICK m \in Nat : m = n + 1
  OBVIOUS
<1>1. T \in SUBSET (1..m) /\ T # {}
  <2>1. \A i \in S : i + 1 \in 1..m
    BY <1>0
  <2>2. QED
    BY <2>1
<1>2. \A i \in S : i \in Int
  OBVIOUS
<1>3. \E i \in S : \A j \in S : i <= j
  <2>1. PICK t \in T : \A u \in T : t <= u
    <3> HIDE DEF T
    <3>1. QED
      BY <1>1, FirstPlace
  <2>2. PICK i \in S : t = i + 1
    BY <2>1
  <2>3. \A j \in S : j + 1 \in T
    OBVIOUS
  <2>4. \A j \in S : i <= j
    <3>1. \A j \in S : t <= j + 1
      BY <2>1, <2>3
    <3> HIDE DEF T
    <3>2. QED
      BY <1>2, <2>2, <3>1
  <2>5. QED
    BY <2>4
<1>4. \E i \in S : \A j \in S : j <= i
  <2>1. PICK t \in T : \A u \in T : u <= t
    <3> HIDE DEF T
    <3>1. QED
      BY <1>1, LastPlace
  <2>2. PICK i \in S : t = i + 1
    BY <2>1
  <2>3. \A j \in S : j + 1 \in T
    OBVIOUS
  <2>4. \A j \in S : j <= i
    <3>1. \A j \in S : j + 1 <= t
      BY <2>1, <2>3
    <3> HIDE DEF T
    <3>2. QED
      BY <1>2, <2>2, <3>1
  <2>5. QED
    BY <2>4
<1>5. QED
  BY <1>3, <1>4 DEF FirstOf, LastOf

LEMMA OccursEmpty ==
  ASSUME NEW line \in Seq(Chars)
  PROVE  Occurs(<<>>, line) # {}
<1>1. Len(line) \in Nat /\ Len(<<>>) = 0
  BY LenProperties, EmptySeq
<1>2. SubSeq(line, 0 + 1, 0 + 0) = <<>>
  BY SubSeqEmpty
<1>3. 0 \in Occurs(<<>>, line)
  BY <1>1, <1>2 DEF Occurs
<1>4. QED
  BY <1>3

(* Where the text occurs, the text without its last character does. *)
LEMMA OccursFront ==
  ASSUME NEW line \in Seq(Chars), NEW s \in Seq(Chars), s # <<>>, Occurs(s, line) # {}
  PROVE  Occurs(Front(s), line) # {}
<1>1. PICK n \in Nat : Len(s) = n + 1
  <2>1. Len(s) \in Nat \ {0}
    BY FrontIs
  <2>2. Len(s) - 1 \in Nat /\ Len(s) = Len(s) - 1 + 1
    BY <2>1
  <2>3. QED
    BY <2>2
<1>2. PICK i \in 0..Len(line) - (n + 1) : SubSeq(line, i + 1, i + (n + 1)) = s
  BY <1>1 DEF Occurs
<1>3. Len(line) \in Nat /\ i \in Nat /\ i + (n + 1) <= Len(line)
  BY <1>1, LenProperties
<1>4. \A j \in i + 1..i + (n + 1) : line[j] \in Chars
  BY <1>1, <1>3, ElementOfSeq
<1>5. PICK m \in Nat : m = i + 1
  BY <1>3
<1>6. \A j \in 1..n + 1 : s[j] = line[m + j - 1]
  <2>1. PICK e \in Nat : e = i + (n + 1)
    BY <1>1, <1>3
  <2>2. \A j \in 1..e - m + 1 : SubSeq(line, m, e)[j] = line[m + j - 1]
    BY <1>4, <1>5, <2>1, SubSeqProperties
  <2>3. e - m + 1 = n + 1
    BY <1>1, <1>3, <1>5, <2>1
  <2>4. QED
    BY <1>2, <1>5, <2>1, <2>2, <2>3
<1>7. PICK e \in Nat : e = i + n
  BY <1>1, <1>3
<1>8. /\ SubSeq(line, m, e) \in Seq(Chars)
      /\ Len(SubSeq(line, m, e)) = IF m <= e THEN e - m + 1 ELSE 0
      /\ \A j \in 1..e - m + 1 : SubSeq(line, m, e)[j] = line[m + j - 1]
  <2>1. \A j \in m..e : line[j] \in Chars
    BY <1>1, <1>3, <1>4, <1>5, <1>7
  <2>2. SubSeq(line, m, e) \in Seq(Chars)
    BY <2>1, SubSeqProperties
  <2>3. Len(SubSeq(line, m, e)) = IF m <= e THEN e - m + 1 ELSE 0
    BY <2>1, SubSeqProperties
  <2>4. \A j \in 1..e - m + 1 : SubSeq(line, m, e)[j] = line[m + j - 1]
    BY <2>1, SubSeqProperties
  <2>5. QED
    BY <2>2, <2>3, <2>4
<1>9. e - m + 1 = n /\ Len(SubSeq(line, m, e)) = n
  BY <1>1, <1>3, <1>5, <1>7, <1>8
<1>10. /\ Front(s) \in Seq(Chars) /\ Len(Front(s)) = n
       /\ \A j \in 1..n : Front(s)[j] = s[j]
  <2>1. Front(s) \in Seq(Chars) /\ Len(Front(s)) = Len(s) - 1
        /\ \A j \in 1..Len(s) - 1 : Front(s)[j] = s[j]
    BY FrontIs
  <2>2. Len(s) - 1 = n
    BY <1>1
  <2>3. QED
    BY <2>1, <2>2
<1>11. SubSeq(line, m, e) = Front(s)
  <2>1. \A j \in 1..n : SubSeq(line, m, e)[j] = Front(s)[j]
    BY <1>1, <1>6, <1>8, <1>9, <1>10
  <2>2. QED
    BY <1>8, <1>9, <1>10, <2>1, SeqEqual
<1>12. i \in 0..Len(line) - n
  BY <1>1, <1>3
<1>13. i \in Occurs(Front(s), line)
  BY <1>5, <1>7, <1>10, <1>11, <1>12 DEF Occurs
<1>14. QED
  BY <1>13

(* The cursor of a match is inside its line. *)
LEMMA MatchInside ==
  ASSUME NEW line \in Seq(Chars), NEW s \in Seq(Chars), Occurs(s, line) # {}
  PROVE  FirstOf(Occurs(s, line)) \in 0..Len(line)
<1>1. Len(line) \in Nat /\ Len(s) \in Nat
  BY LenProperties
<1>2. Occurs(s, line) \in SUBSET (0..Len(line))
  BY <1>1 DEF Occurs
<1>3. FirstOf(Occurs(s, line)) \in Occurs(s, line)
  <2>1. PICK O \in SUBSET (0..Len(line)) : O = Occurs(s, line)
    BY <1>2
  <2>2. QED
    BY <1>1, <2>1, FirstOfIs
<1>4. QED
  BY <1>2, <1>3

(***************************************************************************)
(* Each step keeps the invariant                                           *)
(***************************************************************************)

LEMMA PoppedKeeps ==
  ASSUME NEW h \in Histories, h # <<>>
  PROVE  Front(h) \in Histories
<1>1. h \in Seq(Entry) /\ Len(h) \in Nat /\ Len(h) <= HistoryMax /\ HistoryMax \in Nat
  BY HistoriesIs, LineEditorAssumption
<1>2. Front(h) \in Seq(Entry) /\ Len(Front(h)) = Len(h) - 1
  BY <1>1, FrontIs
<1>3. QED
  BY <1>1, <1>2 DEF Histories

LEMMA CStringEntry ==
  ASSUME NEW c, Sound(c)
  PROVE  CString(c) \in Entry /\ CString(c) \in Seq(Chars)
BY CStringIs, LineBufferAssumption DEF Entry

LEMMA NavigateKeeps ==
  ASSUME IInv, Editing, NEW k, NEW c, Sound(c), Navigate(k, c)
  PROVE  IInv'
<1>1. history \in Histories /\ history # <<>> /\ history_index \in 0..Len(history) - 1 /\ Len(history) \in Nat
  BY HistoriesIs DEF IInv, HistoryPart, ModePart
<1>2. PICK dir \in Int :
        /\ history' = Navigated(history, history_index, c, dir).history
        /\ history_index' = Navigated(history, history_index, c, dir).index
        /\ current' = Navigated(history, history_index, c, dir).line
        /\ mode' = "edit" /\ Forget /\ UNCHANGED <<file, terminal, keys>>
  BY <1>1 DEF Navigate
<1>3. /\ history' \in Histories /\ Len(history') = Len(history)
      /\ history_index' \in 0..Len(history) - 1 /\ Sound(current')
  BY <1>1, <1>2, NavigatedKeeps
<1>4. LinePart'
  BY <1>3 DEF LinePart
<1>5. HistoryPart'
  BY <1>2, <1>3 DEF IInv, HistoryPart
<1>6. ModePart'
  <2>1. history' # <<>>
    <3>1. history' = <<>> => Len(history') = 0
      BY EmptySeq
    <3>2. Len(history) # 0
      BY <1>1
    <3>3. QED
      BY <1>3, <3>1, <3>2
  <2>2. QED
    BY <1>2, <1>3, <2>1 DEF ModePart, Editing, Modes
<1>7. SearchPart'
  <2>1. <<>> \in Seq(Chars)
    BY EmptySeq
  <2>2. QED
    BY <1>1, <1>2, <1>3, <2>1, LimitIs DEF SearchPart, Forget
<1>8. UserPart'
  BY <1>2 DEF IInv, UserPart
<1>9. QED
  BY <1>4, <1>5, <1>6, <1>7, <1>8 DEF IInv

LEMMA QuoteKeeps ==
  ASSUME IInv, Editing, NEW k, NEW c, Sound(c), Quote(k, c)
  PROVE  IInv'
<1>1. LinePart'
  <2>1. "ctrl-V" \in Bytes /\ c.pos \in Int
    <3>1. "ctrl-V" \in Chars
      BY LineEditorAssumption
    <3>2. c.pos \in Nat
      BY SoundFields
    <3>3. QED
      BY <3>1, <3>2 DEF Bytes
  <2>2. Sound(InsertChar(c, c.pos, "ctrl-V"))
    BY <2>1, InsertCharSound
  <2>3. QED
    BY <2>2 DEF LinePart, Quote
<1>2. HistoryPart'
  BY DEF IInv, HistoryPart, Quote
<1>3. ModePart'
  BY DEF IInv, ModePart, Quote, Editing, Modes
<1>4. SearchPart'
  <2>1. <<>> \in Seq(Chars) /\ Len(history) \in Nat
    BY EmptySeq, HistoriesIs DEF IInv, HistoryPart
  <2>2. rbuf' = <<>> /\ searchpos' = -1 /\ choice' = 0 /\ history' = history /\ mode' # "search"
    BY DEF Quote, Forget
  <2>3. QED
    BY <2>1, <2>2, LimitIs DEF SearchPart
<1>5. UserPart'
  BY DEF IInv, UserPart, Quote
<1>6. QED
  BY <1>1, <1>2, <1>3, <1>4, <1>5 DEF IInv

LEMMA StartSearchKeeps ==
  ASSUME IInv, Editing, NEW k, NEW c, Sound(c), StartSearch(k, c)
  PROVE  IInv'
<1>1. LinePart'
  BY DEF LinePart, StartSearch
<1>2. HistoryPart'
  BY DEF IInv, HistoryPart, StartSearch
<1>3. ModePart'
  BY DEF IInv, ModePart, StartSearch, Editing, Modes
<1>4. SearchPart'
  <2>1. <<>> \in Seq(Chars) /\ Len(history) \in Nat
    BY EmptySeq, HistoriesIs DEF IInv, HistoryPart
  <2>2. Occurs(<<>>, CString(c)) # {}
    BY CStringEntry, OccursEmpty
  <2>3. Text' = CString(c) /\ rbuf' = <<>> /\ choice' = 0 /\ history' = history
        /\ searchpos' = Len(history) - 1 /\ mode' = "search"
    BY DEF StartSearch, Text
  <2>4. Occurs(rbuf', Text') # {}
    BY <2>2, <2>3
  <2>5. QED
    BY <2>1, <2>3, <2>4, LimitIs DEF SearchPart
<1>5. UserPart'
  BY DEF IInv, UserPart, StartSearch
<1>6. QED
  BY <1>1, <1>2, <1>3, <1>4, <1>5 DEF IInv

(* The switch of linenoiseEdit, with any line. *)
LEMMA ProcessCharKeeps ==
  ASSUME IInv, Editing, NEW k, NEW c, Sound(c), ProcessChar(k, c)
  PROVE  IInv'
<1>1. /\ c.pos \in Nat /\ c.len \in Nat /\ c.pos <= c.len /\ c.pos - 1 \in Int
      /\ c.capture \in Seq(Bytes) /\ c.len - c.pos \in Nat
  BY SoundFields
<1>2. CASE Enter(k, c)
  <2>1. Front(history) \in Histories
    BY PoppedKeeps DEF IInv, HistoryPart, ModePart
  <2>2. CString(c) \in Entry
    BY CStringEntry
  <2>3. Returned(Front(history), CString(c))
    BY <1>2 DEF Enter, ScratchPopped
  <2>4. QED
    BY <2>1, <2>2, <2>3, ReturnedKeeps
<1>3. CASE Interrupt(k) \/ EndOfFile(k, c)
  BY <1>3, CloseKeeps DEF Interrupt, EndOfFile
<1>4. CASE Backspace(k, c)
  <2>1. Sound(RemoveChar(c, c.pos - 1))
    BY <1>1, RemoveCharSound
  <2>2. QED
    BY <1>4, <2>1, EditedKeeps DEF Backspace
<1>5. CASE Delete(k, c)
  <2>1. Sound(RemoveChar(c, c.pos))
    BY <1>1, RemoveCharSound
  <2>2. QED
    BY <1>5, <2>1, EditedKeeps DEF Delete
<1>6. CASE KillWord(k, c)
  <2>1. PICK from \in Nat : from = WordStart(c) /\ from <= c.pos
    BY <1>1, WordStartIs
  <2>2. c.pos - from \in Int /\ c.pos - from >= 0 /\ from + (c.pos - from) <= c.len
    BY <1>1, <2>1
  <2>3. Sound(RemoveChars(c, from, c.pos - from))
    BY <2>1, <2>2, RemoveCharsSound
  <2>4. QED
    BY <1>6, <2>1, <2>3, EditedKeeps DEF KillWord
<1>7. CASE KillToStart(k, c)
  <2>1. Sound(RemoveChars(c, 0, c.pos))
    BY <1>1, RemoveCharsSound
  <2>2. QED
    BY <1>7, <2>1, EditedKeeps DEF KillToStart
<1>8. CASE KillToEnd(k, c)
  <2>1. c.pos + (c.len - c.pos) <= c.len
    BY <1>1
  <2>2. Sound(RemoveChars(c, c.pos, c.len - c.pos))
    BY <1>1, <2>1, RemoveCharsSound
  <2>3. QED
    BY <1>8, <2>2, EditedKeeps DEF KillToEnd
<1>9. CASE Yank(k, c)
  <2>1. UpToZero(c.capture) \in Seq(Bytes)
    BY <1>1, UpToZeroTyped
  <2>2. Sound(Yanked(c))
    BY <1>1, <2>1, InsertSound DEF Yanked
  <2>3. QED
    BY <1>9, <2>2, EditedKeeps DEF Yank
<1>10. CASE Transpose(k, c)
  <2>1. Sound(Transposed(c))
    BY TransposedSound
  <2>2. QED
    BY <1>10, <2>1, EditedKeeps DEF Transpose
<1>11. CASE Quote(k, c)
  BY <1>11, QuoteKeeps
<1>12. CASE Move(k, c)
  <2>1. PICK p \in 0..c.len : Edited([c EXCEPT !.pos = p])
    <3>1. (IF c.pos > 0 THEN c.pos - 1 ELSE 0) \in 0..c.len /\ Lower(c.pos + 1, c.len) \in 0..c.len
          /\ 0 \in 0..c.len /\ c.len \in 0..c.len
      BY <1>1 DEF Lower
    <3>2. QED
      BY <1>12, <3>1 DEF Move
  <2>2. Sound([c EXCEPT !.pos = p])
    BY PosSound
  <2>3. QED
    BY <2>1, <2>2, EditedKeeps
<1>13. CASE Navigate(k, c)
  BY <1>13, NavigateKeeps
<1>14. CASE StartSearch(k, c)
  BY <1>14, StartSearchKeeps
<1>15. CASE TypeChar(k, c)
  <2>1. k \in Bytes
    <3>1. "tab" \in Chars
      BY LineEditorAssumption
    <3>2. QED
      BY <1>15, <3>1 DEF TypeChar, Typed, Bytes
  <2>2. Sound(InsertChar(c, c.pos, k))
    BY <1>1, <2>1, InsertCharSound
  <2>3. QED
    BY <1>15, <2>2, EditedKeeps DEF TypeChar
<1>16. CASE Ignore(k, c)
  BY <1>16, EditedKeeps DEF Ignore
<1>17. QED
  BY <1>2, <1>3, <1>4, <1>5, <1>6, <1>7, <1>8, <1>9, <1>10, <1>11, <1>12, <1>13, <1>14,
     <1>15, <1>16 DEF ProcessChar

LEMMA CompletedTyped ==
  ASSUME IInv
  PROVE  Completed \in Seq(Seq(Chars))
<1>1. Text \in Seq(Chars)
  BY CStringEntry DEF IInv, LinePart, Text
<1>2. CASE Text = <<>>
  BY <1>2, EmptySeq DEF Completed
<1>3. CASE Text # <<>>
  <2>1. Len(Text) \in Nat \ {0}
    BY <1>1, <1>3, FrontIs
  <2>2. 1 \in 1..Len(Text)
    BY <2>1
  <2>3. Text[1] \in Chars
    BY <1>1, <2>2, ElementOfSeq
  <2>4. Completions \in [Chars -> Seq(Seq(Chars))]
    BY LineEditorAssumption
  <2>5. QED
    BY <1>3, <2>3, <2>4 DEF Completed
<1>4. QED
  BY <1>2, <1>3

(* What tab goes through. *)
LEMMA CompletionKeeps ==
  ASSUME IInv, StartCompletion \/ NextCompletion
  PROVE  IInv'
<1>1. PICK offered \in Seq(Seq(Chars)) : offered = Completed
  BY CompletedTyped
<1>2. mode' \in {"edit", "complete"} /\ mode \in {"edit", "complete"} /\ choice' \in Nat
      /\ UNCHANGED <<current, history, history_index, rbuf, searchpos, file, terminal, keys>>
  <2>1. CASE StartCompletion
    BY <2>1 DEF StartCompletion
  <2>2. CASE NextCompletion
    <3>1. Len(offered) + 1 \in Nat \ {0} /\ choice \in Nat
      BY LenProperties DEF IInv, SearchPart
    <3>2. (choice + 1) % (Len(offered) + 1) \in Nat
      BY <3>1
    <3>3. QED
      BY <1>1, <2>2, <3>2 DEF NextCompletion
  <2>3. QED
    BY <2>1, <2>2
<1>3. LinePart' /\ HistoryPart' /\ UserPart'
  BY <1>2 DEF IInv, LinePart, HistoryPart, UserPart
<1>4. ModePart'
  BY <1>2 DEF IInv, ModePart, Editing, Modes
<1>5. SearchPart'
  BY <1>2 DEF IInv, SearchPart
<1>6. QED
  BY <1>3, <1>4, <1>5 DEF IInv

(* The key that leaves a completion is processed with the line or with what was
   offered. *)
LEMMA LeftWith ==
  ASSUME IInv, LeaveCompletion
  PROVE  \E k, c : Sound(c) /\ ProcessChar(k, c)
<1>1. PICK k \in keys : ProcessChar(k, current) \/ ProcessChar(k, Taken)
  BY DEF LeaveCompletion
<1>2. Sound(current)
  BY DEF IInv, LinePart
<1>3. CASE choice < Len(Completed)
  <2>1. Completed \in Seq(Seq(Chars))
    BY CompletedTyped
  <2>2. choice + 1 \in 1..Len(Completed)
    <3>1. choice \in Nat /\ choice < Len(Completed)
      BY <1>3 DEF IInv, SearchPart
    <3>2. Len(Completed) \in Nat
      BY <2>1, LenProperties
    <3>3. QED
      BY <3>1, <3>2
  <2>3. Completed[choice + 1] \in Seq(Chars)
    BY <2>1, <2>2, ElementOfSeq
  <2>4. Sound(SetCurrent(current, Completed[choice + 1]))
    BY <1>2, <2>3, SetCurrentSound
  <2>5. Sound(Taken)
    BY <1>3, <2>4 DEF Taken
  <2>6. QED
    BY <1>1, <1>2, <2>5
<1>4. CASE ~(choice < Len(Completed))
  <2>1. Sound(Taken)
    BY <1>2, <1>4 DEF Taken
  <2>2. QED
    BY <1>1, <1>2, <2>1
<1>5. QED
  BY <1>3, <1>4

LEMMA LeaveCompletionKeeps ==
  ASSUME IInv, LeaveCompletion
  PROVE  IInv'
<1>1. PICK k, c : Sound(c) /\ ProcessChar(k, c)
  BY LeftWith
<1>2. Editing
  BY DEF LeaveCompletion, Editing
<1>3. QED
  BY <1>1, <1>2, ProcessCharKeeps

(* The character after ctrl-V. *)
LEMMA QuotedCharKeeps ==
  ASSUME IInv, QuotedChar
  PROVE  IInv'
<1>1. Editing /\ Sound(current)
  BY DEF QuotedChar, IInv, Editing, LinePart
<1>2. current.pos - 1 \in Int
  BY <1>1, SoundFields
<1>3. PICK c : c = RemoveChar(current, current.pos - 1)
  OBVIOUS
<1>4. Sound(c)
  BY <1>1, <1>2, <1>3, RemoveCharSound
<1>5. CASE Edited(c)
  BY <1>1, <1>4, <1>5, EditedKeeps
<1>6. CASE \E ch \in Verbatim : Edited(InsertChar(c, c.pos, ch))
  <2>1. PICK ch \in Verbatim : Edited(InsertChar(c, c.pos, ch))
    BY <1>6
  <2>2. ch \in Bytes
    BY LineEditorAssumption DEF Bytes
  <2>3. c.pos \in Int
    BY <1>4, SoundFields
  <2>4. Sound(InsertChar(c, c.pos, ch))
    BY <1>4, <2>2, <2>3, InsertCharSound
  <2>5. QED
    BY <1>1, <2>1, <2>4, EditedKeeps
<1>7. QED
  BY <1>3, <1>5, <1>6 DEF QuotedChar

LEMMA LineReturnedKeeps ==
  ASSUME IInv, Returned(history, Text)
  PROVE  IInv'
<1>1. Text \in Entry /\ history \in Histories
  BY CStringEntry DEF IInv, LinePart, HistoryPart, Text
<1>2. QED
  BY <1>1, ReturnedKeeps

(***************************************************************************)
(* Reverse search                                                          *)
(***************************************************************************)

LEMMA SearchKeeps ==
  ASSUME IInv, mode = "search", NEW s \in Seq(Chars), NEW from \in Int, NEW dir \in {-1, 1},
         NEW skipsame \in BOOLEAN, from \in -1..Len(history),
         dir = -1 => from <= Len(history) - 1, dir = 1 => from >= 0, Len(s) <= SearchLimit,
         Search(s, from, dir, skipsame)
  PROVE  IInv'
<1> DEFINE hits == Hits(s, from, dir, skipsame)
           hit == IF dir = -1 THEN LastOf(hits) ELSE FirstOf(hits)
           shown == SetCurrent(current, history[hit + 1])
           outside == from \notin 0..Len(history) - 1
<1>1. /\ history \in Histories /\ Sound(current) /\ rbuf \in Seq(Chars) /\ Occurs(rbuf, Text) # {}
      /\ searchpos \in -1..Len(history) /\ choice \in Nat /\ history # <<>>
      /\ history_index \in 0..Len(history) - 1 /\ file \in Histories /\ keys \in Keyboards
      /\ terminal \in BOOLEAN
  BY DEF IInv, LinePart, HistoryPart, ModePart, SearchPart, UserPart, Editing
<1>2. history \in Seq(Entry) /\ Len(history) \in Nat
  BY <1>1, HistoriesIs
<1>3. /\ rbuf' = SearchedFor(s, hits # {})
      /\ hits = {} \/ outside =>
           current' = current /\ searchpos' \in {from, -1, Len(history)}
      /\ ~(hits = {} \/ outside) =>
           /\ current' = [shown EXCEPT !.pos = FirstOf(Occurs(s, history[hit + 1]))]
           /\ searchpos' = hit
      /\ UNCHANGED <<mode, history, history_index, choice, file, terminal, keys>>
  BY DEF Search
<1>l. Len(rbuf') <= SearchLimit
  <2>1. Len(rbuf) <= SearchLimit
    BY DEF IInv, SearchPart
  <2>2. rbuf' = s \/ rbuf' = rbuf
    BY <1>3 DEF SearchedFor
  <2>3. QED
    BY <2>1, <2>2
<1>4. rbuf' \in Seq(Chars)
  BY <1>1, <1>3 DEF SearchedFor
<1>5. hits \in SUBSET (0..Len(history) - 1)
  BY DEF Hits
<1>6. outside => hits = {}
  BY <1>2, <1>5 DEF Hits
<1>7. hits # {} => hit \in hits
  <2>1. ASSUME hits # {} PROVE FirstOf(hits) \in hits /\ LastOf(hits) \in hits
    <3>1. PICK n \in Nat : n = Len(history)
      BY <1>2
    <3>2. PICK S \in SUBSET (0..n) : S = hits
      BY <1>5, <3>1
    <3>3. FirstOf(S) \in S /\ LastOf(S) \in S
      BY <2>1, <3>2, FirstOfIs
    <3>4. QED
      BY <3>2, <3>3
  <2> HIDE DEF hits
  <2>2. QED
    BY <2>1
<1>8. \A i \in hits : Occurs(s, history[i + 1]) # {} /\ i + 1 \in 1..Len(history)
  BY <1>2 DEF Hits
<1> HIDE DEF hits, outside
<1>9. CASE hits = {} \/ outside
  <2>1. hits = {} /\ current' = current /\ searchpos' \in {from, -1, Len(history)} /\ rbuf' = rbuf
    BY <1>3, <1>6, <1>9 DEF SearchedFor
  <2>2. Text' = Text
    BY <2>1 DEF Text
  <2>3. SearchPart'
    BY <1>1, <1>2, <1>3, <2>1, <2>2, <1>l DEF SearchPart
  <2>4. LinePart' /\ HistoryPart' /\ UserPart'
    BY <1>1, <1>3, <2>1 DEF LinePart, HistoryPart, UserPart
  <2>5. ModePart'
    BY <1>1, <1>3 DEF ModePart, Editing, Modes
  <2>6. QED
    BY <2>3, <2>4, <2>5 DEF IInv
<1>10. CASE ~(hits = {} \/ outside)
  <2>1. hit \in hits /\ rbuf' = s /\ searchpos' = hit
    BY <1>3, <1>7, <1>10 DEF SearchedFor
  <2> HIDE DEF hit
  <2>2. PICK line \in Seq(Chars) : line = history[hit + 1] /\ Len(line) < BufMax
    BY <1>2, <1>8, <2>1, ElementOfSeq, EntryIs
  <2>3. Occurs(s, line) # {}
    BY <1>8, <2>1, <2>2
  <2>4. PICK p \in 0..Len(line) : p = FirstOf(Occurs(s, line))
    BY <2>3, MatchInside
  <2>5. current' = [SetCurrent(current, line) EXCEPT !.pos = p]
    BY <1>3, <1>10, <2>2, <2>4
  <2>6. SetCurrent(current, line).len = Len(line) /\ CString(current') = line
    <3>1. SetCurrent(current, line).len = Len(line)
      BY <1>1, <2>2, TextOfSetCurrent
    <3>2. CString([SetCurrent(current, line) EXCEPT !.pos = p]) = line
      <4>1. CString(SetCurrent(current, line)) = line /\ Sound(SetCurrent(current, line))
        BY <1>1, <2>2, TextOfSetCurrent, SetCurrentSound
      <4>2. PICK d : d = SetCurrent(current, line)
        OBVIOUS
      <4>3. CString([d EXCEPT !.pos = p]) = CString(d)
        BY <4>1, <4>2, TextIsBuf
      <4>4. QED
        BY <4>1, <4>2, <4>3, Zenon
    <3>3. QED
      BY <2>5, <3>1, <3>2, Zenon
  <2>7. Sound(current')
    <3>1. Sound(SetCurrent(current, line))
      BY <1>1, SetCurrentSound
    <3>2. PICK d : d = SetCurrent(current, line)
      OBVIOUS
    <3>3. Sound(d) /\ p \in 0..d.len
      BY <2>6, <3>1, <3>2
    <3>4. Sound([d EXCEPT !.pos = p])
      BY <3>3, PosSound
    <3>5. QED
      BY <2>5, <3>2, <3>4
  <2>8. Text' = line
    BY <2>6 DEF Text
  <2>9. SearchPart'
    <3>1. Occurs(rbuf', Text') # {}
      BY <2>1, <2>3, <2>8
    <3>2. searchpos' \in -1..Len(history)
      BY <1>2, <1>5, <2>1
    <3>3. mode' = "search" /\ history' = history /\ choice' \in Nat
      BY <1>1, <1>3
    <3>4. QED
      BY <1>4, <3>1, <3>2, <3>3, <1>l DEF SearchPart
  <2>10. LinePart' /\ HistoryPart' /\ UserPart'
    BY <1>1, <1>3, <2>7 DEF LinePart, HistoryPart, UserPart
  <2>11. ModePart'
    BY <1>1, <1>3 DEF ModePart, Editing, Modes
  <2>12. QED
    BY <2>9, <2>10, <2>11 DEF IInv
<1>11. QED
  BY <1>9, <1>10

LEMMA SearchKeyKeeps ==
  ASSUME IInv, SearchKey
  PROVE  IInv'
<1>1. /\ mode = "search" /\ history \in Histories /\ rbuf \in Seq(Chars)
      /\ searchpos \in -1..Len(history) /\ history # <<>>
  BY DEF SearchKey, IInv, HistoryPart, ModePart, SearchPart, Editing
<1>2. Len(history) \in Nat \ {0}
  BY <1>1, HistoriesIs, FrontIs
<1>l. Len(rbuf) <= SearchLimit
  BY DEF IInv, SearchPart
<1>3. CASE /\ Len(rbuf) < SearchLimit
           /\ \E ch \in Typed \cap keys : Search(Append(rbuf, ch), Len(history) - 1, -1, FALSE)
  <2>1. PICK ch \in Chars : Search(Append(rbuf, ch), Len(history) - 1, -1, FALSE)
    BY <1>3 DEF Typed
  <2>2. PICK s \in Seq(Chars) : s = Append(rbuf, ch) /\ Len(s) = Len(rbuf) + 1
    BY <1>1, AppendProperties
  <2>l. Len(s) <= SearchLimit
    <3>1. Len(rbuf) \in Nat /\ SearchLimit \in Nat
      BY <1>1, LenProperties, LimitIs
    <3>2. QED
      BY <1>3, <2>2, <3>1
  <2>3. PICK from \in Int : from = Len(history) - 1
    <3>1. Len(history) - 1 \in Int
      BY <1>2
    <3>2. QED
      BY <3>1
  <2>4. PICK dir \in {-1, 1}, same \in BOOLEAN : dir = -1 /\ same = FALSE
    OBVIOUS
  <2>5. Search(s, from, dir, same)
    BY <2>1, <2>2, <2>3, <2>4, Zenon
  <2>6. from \in -1..Len(history) /\ from <= Len(history) - 1 /\ dir # 1
    BY <1>2, <2>3, <2>4
  <2>7. QED
    BY <1>1, <2>5, <2>6, <2>l, SearchKeeps
<1>4. CASE Search(rbuf, IF searchpos > 0 THEN searchpos - 1 ELSE searchpos, -1, TRUE)
  <2>1. PICK from \in Int : from = IF searchpos > 0 THEN searchpos - 1 ELSE searchpos
    BY <1>1, <1>2
  <2>2. from \in -1..Len(history) /\ from <= Len(history) - 1
    BY <1>1, <1>2, <2>1
  <2>3. PICK dir \in {-1, 1}, same \in BOOLEAN : dir = -1 /\ same = TRUE
    OBVIOUS
  <2>4. Search(rbuf, from, dir, same)
    BY <1>4, <2>1, <2>3, Zenon
  <2>5. dir # 1
    BY <2>3
  <2>6. QED
    BY <1>1, <1>l, <2>2, <2>4, <2>5, SearchKeeps
<1>5. CASE Search(rbuf, Lower(searchpos + 1, Len(history)), 1, TRUE)
  <2>1. PICK from \in Int : from = Lower(searchpos + 1, Len(history))
    BY <1>1, <1>2 DEF Lower
  <2>2. from \in -1..Len(history) /\ from >= 0
    BY <1>1, <1>2, <2>1 DEF Lower
  <2>3. PICK dir \in {-1, 1}, same \in BOOLEAN : dir = 1 /\ same = TRUE
    OBVIOUS
  <2>4. Search(rbuf, from, dir, same)
    BY <1>5, <2>1, <2>3, Zenon
  <2>5. dir # -1
    BY <2>3
  <2>6. QED
    BY <1>1, <1>l, <2>2, <2>4, <2>5, SearchKeeps
<1>6. CASE /\ rbuf' = IF rbuf = <<>> THEN <<>> ELSE Front(rbuf)
           /\ UNCHANGED <<mode, current, history, history_index, searchpos, choice, file, terminal, keys>>
  <2>1. Text \in Seq(Chars) /\ Occurs(rbuf, Text) # {}
    BY <1>1, CStringEntry DEF IInv, LinePart, SearchPart, Text
  <2>l. Len(rbuf') <= SearchLimit
    <3>1. CASE rbuf = <<>>
      BY <1>6, <1>l, <3>1
    <3>2. CASE rbuf # <<>>
      <4>1. rbuf' = Front(rbuf) /\ Len(Front(rbuf)) = Len(rbuf) - 1 /\ Len(rbuf) \in Nat
        BY <1>1, <1>6, <3>2, FrontIs, LenProperties
      <4>2. SearchLimit \in Nat
        BY LimitIs
      <4>3. QED
        BY <1>l, <4>1, <4>2
    <3>3. QED
      BY <3>1, <3>2
  <2>2. rbuf' \in Seq(Chars) /\ Occurs(rbuf', Text) # {}
    <3>1. CASE rbuf = <<>>
      BY <1>1, <1>6, <2>1, <3>1
    <3>2. CASE rbuf # <<>>
      <4>1. rbuf' = Front(rbuf)
        BY <1>6, <3>2
      <4>2. Front(rbuf) \in Seq(Chars)
        BY <1>1, <3>2, FrontIs
      <4>3. PICK line \in Seq(Chars) : line = Text
        BY <2>1
      <4>4. Occurs(Front(rbuf), line) # {}
        BY <1>1, <2>1, <3>2, <4>3, OccursFront
      <4>5. QED
        BY <4>1, <4>2, <4>3, <4>4
    <3>3. QED
      BY <3>1, <3>2
  <2>3. Text' = Text
    BY <1>6 DEF Text
  <2>4. SearchPart'
    BY <1>1, <1>6, <2>l, <2>2, <2>3 DEF IInv, SearchPart
  <2>5. LinePart' /\ HistoryPart' /\ UserPart'
    BY <1>6 DEF IInv, LinePart, HistoryPart, UserPart
  <2>6. ModePart'
    BY <1>6 DEF IInv, ModePart, Editing, Modes
  <2>7. QED
    BY <2>4, <2>5, <2>6 DEF IInv
<1>7. CASE Close
  BY <1>7, CloseKeeps
<1>8. CASE UNCHANGED vars
  <2>1. Text' = Text
    BY <1>8 DEF vars, Text
  <2>2. LinePart' /\ HistoryPart' /\ UserPart' /\ ModePart' /\ SearchPart'
    BY <1>8, <2>1 DEF vars, IInv, LinePart, HistoryPart, UserPart, ModePart, SearchPart, Editing, Modes
  <2>3. QED
    BY <2>2 DEF IInv
<1>9. QED
  BY <1>3, <1>4, <1>5, <1>6, <1>7, <1>8 DEF SearchKey, SearchChar

LEMMA EndOfSearchKeeps ==
  ASSUME IInv, StopSearch \/ LeaveSearch
  PROVE  IInv'
<1>1. Editing /\ Sound(current)
  BY DEF StopSearch, LeaveSearch, IInv, Editing, LinePart
<1>2. CASE StopSearch
  <2>1. <<>> \in Seq(Chars)
    BY EmptySeq
  <2>2. Sound(SetCurrent(current, <<>>))
    BY <1>1, <2>1, SetCurrentSound
  <2>3. QED
    BY <1>1, <1>2, <2>2, EditedKeeps DEF StopSearch
<1>3. CASE LeaveSearch
  <2>1. CASE \E k \in keys \cup Escapes : ProcessChar(k, current)
    BY <1>1, <2>1, ProcessCharKeeps
  <2>2. CASE Returned(history, Text)
    BY <2>2, LineReturnedKeeps
  <2>3. QED
    BY <1>3, <2>1, <2>2 DEF LeaveSearch
<1>4. QED
  BY <1>2, <1>3

(***************************************************************************)
(* The theorems                                                            *)
(***************************************************************************)

(* No key, no way out of the editor and no new process breaks the invariant. *)
THEOREM InvStep == IInv /\ [Next]_vars => IInv'
<1> SUFFICES ASSUME IInv, [Next]_vars PROVE IInv'
  OBVIOUS
<1>1. CASE Prompt \/ PlainLine \/ Restart
  BY <1>1, PromptKeeps, PlainLineKeeps, RestartKeeps
<1>2. CASE Exit
  BY <1>2, CloseKeeps DEF Exit
<1>3. CASE EditKey
  <2>1. PICK k \in keys : ProcessChar(k, current)
    BY <1>3 DEF EditKey
  <2>2. Editing /\ Sound(current)
    BY <1>3 DEF EditKey, IInv, Editing, LinePart
  <2>3. QED
    BY <2>1, <2>2, ProcessCharKeeps
<1>4. CASE StartCompletion \/ NextCompletion \/ LeaveCompletion
  BY <1>4, CompletionKeeps, LeaveCompletionKeeps
<1>5. CASE QuotedChar \/ SearchKey \/ StopSearch \/ LeaveSearch
  BY <1>5, QuotedCharKeeps, SearchKeyKeeps, EndOfSearchKeeps
<1>6. CASE ReadFails
  BY <1>6, LineReturnedKeeps DEF ReadFails
<1>7. CASE UNCHANGED vars
  <2>1. LinePart' /\ HistoryPart' /\ UserPart'
    BY <1>7 DEF vars, IInv, LinePart, HistoryPart, UserPart
  <2>2. ModePart'
    BY <1>7 DEF vars, IInv, ModePart, Editing, Modes
  <2>3. Text' = Text
    BY <1>7 DEF vars, Text
  <2>4. SearchPart'
    BY <1>7, <2>3 DEF vars, IInv, SearchPart
  <2>5. QED
    BY <2>1, <2>2, <2>4 DEF IInv
<1>8. QED
  BY <1>1, <1>2, <1>3, <1>4, <1>5, <1>6, <1>7 DEF Next

(* The line and everything in the history and its file fit the buffer. *)
THEOREM Invariant == Spec => []IInv
BY InvInit, InvStep, PTL DEF Spec

(* The fields of struct current, the history and the locals of a search and of a
   completion are in their ranges. *)
THEOREM TypeCorrect == Spec => []TypeOK
<1>1. IInv => TypeOK
  <2> SUFFICES ASSUME IInv PROVE TypeOK
    OBVIOUS
  <2>1. current \in Line
    BY DEF IInv, LinePart, Sound
  <2>2. ASSUME NEW h \in Histories PROVE h \in Seq(Seq(Chars)) /\ Len(h) <= HistoryMax
    <3>1. Entry \subseteq Seq(Chars)
      BY DEF Entry
    <3>2. h \in Seq(Entry) /\ Len(h) <= HistoryMax
      BY HistoriesIs
    <3> HIDE DEF Entry
    <3>3. QED
      BY <3>1, <3>2, SeqMonotonic
  <2>3. /\ history \in Seq(Seq(Chars)) /\ Len(history) <= HistoryMax
        /\ file \in Seq(Seq(Chars))
    BY <2>2 DEF IInv, HistoryPart
  <2>4. QED
    BY <2>1, <2>3 DEF IInv, ModePart, SearchPart, UserPart, TypeOK, Modes, Editing
<1>2. QED
  BY <1>1, Invariant, PTL

(* The line being edited ends in a zero, though insert_char does not move it. *)
THEOREM AlwaysTerminated == Spec => []LineIsTerminated
<1>1. IInv => LineIsTerminated
  BY DEF IInv, LinePart, Sound, LineIsTerminated
<1>2. QED
  BY <1>1, Invariant, PTL

(* In a reverse search the line contains the text searched for. *)
THEOREM MatchShown == Spec => []SearchShowsMatch
<1>1. IInv => SearchShowsMatch
  BY DEF IInv, SearchPart, SearchShowsMatch
<1>2. QED
  BY <1>1, Invariant, PTL

(* Of a line that has room, each of the three kills takes a part that begins or
   ends at the cursor; KillThenYank says the rest. *)
THEOREM YankRestores == Spec => []KillYankRestores
<1>1. ASSUME IInv, mode = "edit", current.len < BufMax - 1,
             NEW k \in {<<WordStart(current), current.pos>>, <<0, current.pos>>,
                        <<current.pos, current.len>>},
             k[1] < k[2], TextIn(current, k[1], k[2])
      PROVE  Yanked(RemoveChars(current, k[1], k[2] - k[1])).buf = current.buf
  <2>1. Sound(current)
    BY <1>1 DEF IInv, LinePart
  <2>2. /\ current \in Line /\ current.pos \in 0..current.len /\ current.len \in 0..current.len
        /\ 0 \in 0..current.len /\ WordStart(current) \in 0..current.len
    BY <2>1, SoundFields, WordStartIs
  <2>3. PICK from \in 0..current.len, to \in 0..current.len :
          k[1] = from /\ k[2] = to /\ current.pos \in {from, to}
    BY <1>1, <2>2
  <2>4. QED
    BY <1>1, <2>2, <2>3, KillThenYank
<1>2. IInv => KillYankRestores
  BY <1>1 DEF KillYankRestores
<1>3. QED
  BY <1>2, Invariant, PTL

(***************************************************************************)
(* The display: what refreshLine draws stays inside the window and shows   *)
(* the line up to the cursor, whatever was left out at the front, and the  *)
(* shortcuts for the last character draw what it would on a line whose     *)
(* columns leave room for it.                                              *)
(***************************************************************************)

(* Control characters, counted along a line. *)
LEMMA ControlsAre ==
  ASSUME NEW s, NEW k \in Nat
  PROVE  /\ Controls(s, k) \in Nat /\ Controls(s, 0) = 0
         /\ Controls(s, k + 1) = IF s[k + 1] \in Control THEN Controls(s, k) + 1 ELSE Controls(s, k)
<1> DEFINE T(n) == {j \in 1..n : s[j] \in Control}
<1>1. T(0) = {} /\ Controls(s, 0) = 0
  <2>1. T(0) = {}
    OBVIOUS
  <2>2. QED
    BY <2>1, FS_EmptySet DEF Controls
<1>2. IsFiniteSet(T(k))
  <2>1. IsFiniteSet(1..k) /\ T(k) \in SUBSET (1..k)
    BY FS_Interval
  <2> HIDE DEF T
  <2>2. QED
    BY <2>1, FS_Subset
<1>3. T(k + 1) = IF s[k + 1] \in Control THEN T(k) \cup {k + 1} ELSE T(k)
  <2>1. \A j : j \in 1..k + 1 <=> j \in 1..k \/ j = k + 1
    OBVIOUS
  <2>2. QED
    BY <2>1
<1>4. k + 1 \notin T(k)
  OBVIOUS
<1>5. Controls(s, k) = Cardinality(T(k)) /\ Controls(s, k + 1) = Cardinality(T(k + 1))
  BY DEF Controls
<1> HIDE DEF T
<1>6. Cardinality(T(k)) \in Nat /\ Cardinality(T(k) \cup {k + 1}) = Cardinality(T(k)) + 1
  BY <1>2, <1>4, FS_CardinalityType, FS_AddElement
<1>7. QED
  BY <1>1, <1>3, <1>5, <1>6

LEMMA ControlsSame ==
  ASSUME NEW s, NEW t, NEW k \in Nat, \A j \in 1..k : s[j] = t[j]
  PROVE  Controls(s, k) = Controls(t, k)
<1>1. {j \in 1..k : s[j] \in Control} = {j \in 1..k : t[j] \in Control}
  OBVIOUS
<1>2. QED
  BY <1>1 DEF Controls

LEMMA ControlsGrow ==
  ASSUME NEW s, NEW k \in Nat, NEW l \in Nat, k <= l
  PROVE  Controls(s, k) <= Controls(s, l)
<1> DEFINE T(n) == {j \in 1..n : s[j] \in Control}
<1>1. IsFiniteSet(T(l)) /\ T(k) \in SUBSET T(l)
  <2>1. IsFiniteSet(1..l) /\ T(l) \in SUBSET (1..l)
    BY FS_Interval
  <2>2. T(k) \in SUBSET T(l)
    OBVIOUS
  <2> HIDE DEF T
  <2>3. QED
    BY <2>1, <2>2, FS_Subset
<1>2. Controls(s, k) = Cardinality(T(k)) /\ Controls(s, l) = Cardinality(T(l))
  BY DEF Controls
<1> HIDE DEF T
<1>3. QED
  BY <1>1, <1>2, FS_Subset

(* A part of a line is counted apart. *)
Behind(s, t, k, n) == k \in Nat /\ n \in Nat /\ \A i \in 1..n : t[i] = s[k + i]

LEMMA ControlsBehind ==
  ASSUME NEW s, NEW t, NEW k, NEW n, Behind(s, t, k, n)
  PROVE  Controls(s, k + n) = Controls(s, k) + Controls(t, n)
<1> DEFINE Sum(j) == Controls(s, k + j) = Controls(s, k) + Controls(t, j)
           S == {j \in 0..n : Sum(j)}
<1>0. k \in Nat /\ n \in Nat /\ \A i \in 1..n : t[i] = s[k + i]
  BY DEF Behind
<1>1. Sum(0)
  <2>1. Controls(t, 0) = 0 /\ Controls(s, k) \in Nat
    BY <1>0, ControlsAre
  <2>2. k + 0 = k
    BY <1>0
  <2>3. QED
    BY <2>1, <2>2
<1>2. ASSUME NEW j \in 1..n, Sum(j - 1) PROVE Sum(j)
  <2>1. PICK i \in Nat : i = j - 1 /\ j = i + 1 /\ k + j = (k + i) + 1 /\ k + i \in Nat
    BY <1>0, <1>2
  <2>2. t[i + 1] = s[(k + i) + 1]
    BY <1>0, <1>2, <2>1
  <2>3. /\ Controls(t, i + 1) = IF t[i + 1] \in Control THEN Controls(t, i) + 1 ELSE Controls(t, i)
        /\ Controls(s, (k + i) + 1) = IF s[(k + i) + 1] \in Control THEN Controls(s, k + i) + 1
                                                                   ELSE Controls(s, k + i)
        /\ Controls(t, i) \in Nat /\ Controls(s, k) \in Nat
    BY <1>0, <2>1, ControlsAre
  <2>4. Controls(s, k + i) = Controls(s, k) + Controls(t, i)
    BY <1>2, <2>1
  <2>5. Controls(s, (k + i) + 1) = Controls(s, k) + Controls(t, i + 1)
    BY <2>2, <2>3, <2>4
  <2>6. QED
    BY <2>1, <2>5
<1>3. 0 \in S /\ \A j \in 1..n : j - 1 \in S => j \in S
  <2>1. 0 \in 0..n /\ \A j \in 1..n : j \in 0..n
    BY <1>0
  <2> HIDE DEF Sum
  <2>2. QED
    BY <1>1, <1>2, <2>1
<1>4. \A j \in 0..n : j \in S
  <2> HIDE DEF S
  <2>1. QED
    BY <1>0, <1>3, PrefixInduction
<1>5. n \in 0..n
  BY <1>0
<1>6. QED
  BY <1>4, <1>5

(* The part of a line between two places. *)
LEMMA PartIs ==
  ASSUME NEW E, NEW s \in Seq(E), NEW k \in Nat, NEW q \in Nat, k <= q, q <= Len(s)
  PROVE  /\ SubSeq(s, k + 1, q) \in Seq(E) /\ Len(SubSeq(s, k + 1, q)) = q - k
         /\ \A i \in 1..q - k : SubSeq(s, k + 1, q)[i] = s[k + i]
<1>1. PICK b \in Nat : b = k + 1
  OBVIOUS
<1>2. \A i \in b..q : i \in 1..Len(s)
  BY <1>1, LenProperties
<1>3. \A i \in b..q : s[i] \in E
  BY <1>2, ElementOfSeq
<1>4. /\ SubSeq(s, b, q) \in Seq(E)
      /\ Len(SubSeq(s, b, q)) = IF b <= q THEN q - b + 1 ELSE 0
  BY <1>3, SubSeqProperties
<1>5. \A i \in 1..q - b + 1 : SubSeq(s, b, q)[i] = s[b + i - 1]
  BY <1>3, SubSeqProperties
<1>6. q - b + 1 = q - k /\ (~(b <= q) => q - k = 0) /\ \A i \in 1..q - k : b + i - 1 = k + i
  BY <1>1
<1>7. Len(SubSeq(s, b, q)) = q - k
  BY <1>4, <1>6
<1>8. \A i \in 1..q - k : SubSeq(s, b, q)[i] = s[k + i]
  BY <1>5, <1>6
<1>9. QED
  BY <1>1, <1>4, <1>7, <1>8

(* What is shown is a beginning of the line. *)
ShowsFirst(t, m) ==
  /\ Cardinality(Shown(t)) = m
  /\ \A i \in 1..Len(t) : i <= m <=> PromptCols + i - 1 + Controls(t, i) < Cols

LEMMA ShownIs ==
  ASSUME NEW E, NEW t \in Seq(E)
  PROVE  \E m \in 0..Len(t) : ShowsFirst(t, m)
<1> DEFINE In(i) == PromptCols + i - 1 + Controls(t, i) < Cols
<1>1. PICK n \in Nat : n = Len(t)
  BY LenProperties
<1>2. Shown(t) = {i \in 1..n : In(i)}
  BY <1>1 DEF Shown
<1>3. ASSUME NEW i \in 1..n, NEW j \in 1..n, i <= j, In(j) PROVE In(i)
  <2>1. i \in Nat /\ j \in Nat
    BY <1>1
  <2>2. Controls(t, i) <= Controls(t, j) /\ Controls(t, i) \in Nat /\ Controls(t, j) \in Nat
    BY <1>3, <2>1, ControlsGrow, ControlsAre
  <2>3. QED
    BY <1>3, <2>1, <2>2, LineDisplayAssumption
<1>4. PICK m \in 0..n : \A i \in 1..n : i <= m <=> In(i)
  <2> HIDE DEF In
  <2> DEFINE T == {i \in 1..n : In(i)}
  <2>1. CASE T = {}
    <3>1. 0 \in 0..n /\ \A i \in 1..n : ~(i <= 0)
      OBVIOUS
    <3>2. \A i \in 1..n : ~In(i)
      BY <2>1
    <3>3. QED
      BY <3>1, <3>2
  <2>2. CASE T # {}
    <3>1. T \in SUBSET (1..n)
      OBVIOUS
    <3>2. PICK m \in T : \A j \in T : j <= m
      <4> HIDE DEF T
      <4>1. QED
        BY <2>2, <3>1, LastPlace
    <3>3. m \in 1..n /\ In(m) /\ \A i \in 1..n : In(i) => i <= m
      BY <3>2
    <3>4. \A i \in 1..n : i <= m => In(i)
      BY <1>3, <3>3
    <3>5. m \in 0..n
      BY <3>3
    <3>6. QED
      BY <3>3, <3>4, <3>5
  <2>3. QED
    BY <2>1, <2>2
<1> HIDE DEF In
<1>5. Shown(t) = 1..m
  <2>1. \A i \in 1..n : i <= m <=> i \in 1..m
    OBVIOUS
  <2>2. \A i \in 1..m : i \in 1..n
    OBVIOUS
  <2>3. QED
    BY <1>2, <1>4, <2>1, <2>2
<1>6. Cardinality(Shown(t)) = m
  <2>1. Cardinality(1..m) = IF 1 > m THEN 0 ELSE m - 1 + 1
    BY FS_Interval
  <2>2. QED
    BY <1>5, <2>1
<1>7. QED
  BY <1>1, <1>4, <1>6 DEF ShowsFirst, In

(* The cells of a line, character by character. *)
CellOf(ch) == IF ch \in Control THEN <<"^", ch>> ELSE <<ch>>
CellLists(s) == [i \in 1..Len(s) |-> CellOf(s[i])]
CellRun(f, s) == f[0] = <<>> /\ \A k \in 1..Len(s) : f[k] = f[k - 1] \o CellOf(s[k])

LEMMA CellOfIs ==
  ASSUME NEW E, NEW ch \in E
  PROVE  /\ CellOf(ch) \in Seq(E \cup {"^"}) /\ Len(CellOf(ch)) = IF ch \in Control THEN 2 ELSE 1
         /\ ch \notin Control => CellOf(ch)[1] = ch
<1>1. CASE ch \in Control
  <2>1. CellOf(ch) = <<"^", ch>>
    BY <1>1 DEF CellOf
  <2>2. <<"^", ch>> \in Seq(E \cup {"^"}) /\ Len(<<"^", ch>>) = 2
    OBVIOUS
  <2>3. QED
    BY <1>1, <2>1, <2>2
<1>2. CASE ch \notin Control
  <2>1. CellOf(ch) = <<ch>>
    BY <1>2 DEF CellOf
  <2>2. <<ch>> \in Seq(E \cup {"^"}) /\ Len(<<ch>>) = 1 /\ <<ch>>[1] = ch
    OBVIOUS
  <2>3. QED
    BY <1>2, <2>1, <2>2
<1>3. QED
  BY <1>1, <1>2

LEMMA CellListsAre ==
  ASSUME NEW E, NEW s \in Seq(E)
  PROVE  /\ CellLists(s) \in Seq(Seq(E \cup {"^"})) /\ Len(CellLists(s)) = Len(s)
         /\ \A k \in 1..Len(s) : CellLists(s)[k] = CellOf(s[k])
         /\ Cells(s) = Flat(CellLists(s))
<1>1. PICK n \in Nat : n = Len(s)
  BY LenProperties
<1>2. PICK V : V = Seq(E \cup {"^"})
  OBVIOUS
<1>3. \A i \in 1..n : CellOf(s[i]) \in V
  BY <1>1, <1>2, ElementOfSeq, CellOfIs
<1>4. CellLists(s) \in [1..n -> V] /\ \A k \in 1..n : CellLists(s)[k] = CellOf(s[k])
  BY <1>1, <1>3 DEF CellLists
<1>5. CellLists(s) \in Seq(V) /\ Len(CellLists(s)) = n
  BY <1>4, ListOf
<1>6. Cells(s) = Flat(CellLists(s))
  BY DEF Cells, CellLists, CellOf
<1>7. QED
  BY <1>1, <1>2, <1>4, <1>5, <1>6

LEMMA CellsRun ==
  ASSUME NEW E, NEW s \in Seq(E)
  PROVE  \E f \in [0..Len(s) -> Seq(E \cup {"^"})] : CellRun(f, s) /\ Cells(s) = f[Len(s)]
<1>1. PICK V, n : V = Seq(E \cup {"^"}) /\ n = Len(s)
  OBVIOUS
<1>2. PICK ss : ss = CellLists(s)
  OBVIOUS
<1>3. ss \in Seq(V) /\ Len(ss) = n /\ (\A k \in 1..n : ss[k] = CellOf(s[k])) /\ Cells(s) = Flat(ss)
  BY <1>1, <1>2, CellListsAre
<1>4. \E f \in [0..Len(ss) -> V] : Runs(f, ss) /\ Flat(ss) = f[Len(ss)]
  BY <1>1, <1>3, FlatIs
<1>5. PICK f \in [0..n -> V] : Runs(f, ss) /\ Flat(ss) = f[n]
  BY <1>3, <1>4
<1>6. f[0] = <<>> /\ \A k \in 1..n : f[k] = f[k - 1] \o ss[k]
  BY <1>3, <1>5 DEF Runs
<1>7. CellRun(f, s)
  BY <1>1, <1>3, <1>6 DEF CellRun
<1>8. QED
  BY <1>1, <1>3, <1>5, <1>7

(* The cells of a beginning of the line. *)
Opens(t, s, p) == p \in Nat /\ p <= Len(s) /\ Len(t) = p /\ \A i \in 1..p : t[i] = s[i]

LEMMA CellsOfFirst ==
  ASSUME NEW E, NEW s \in Seq(E), NEW t \in Seq(E), NEW p, Opens(t, s, p), NEW f, CellRun(f, s)
  PROVE  Cells(t) = f[p]
<1>0. p \in Nat /\ p <= Len(s) /\ Len(t) = p /\ \A i \in 1..p : t[i] = s[i]
  BY DEF Opens
<1>1. PICK g : CellRun(g, t) /\ Cells(t) = g[Len(t)]
  BY CellsRun
<1>2. g[0] = <<>> /\ \A k \in 1..p : g[k] = g[k - 1] \o CellOf(t[k])
  BY <1>0, <1>1 DEF CellRun
<1>3. f[0] = <<>> /\ \A k \in 1..p : f[k] = f[k - 1] \o CellOf(s[k])
  <2>1. \A k \in 1..p : k \in 1..Len(s)
    BY <1>0, LenProperties
  <2>2. QED
    BY <2>1 DEF CellRun
<1> DEFINE S == {k \in 0..p : f[k] = g[k]}
<1>4. 0 \in S
  BY <1>0, <1>2, <1>3
<1>5. ASSUME NEW k \in 1..p, k - 1 \in S PROVE k \in S
  <2>1. k \in 0..p /\ f[k - 1] = g[k - 1]
    BY <1>0, <1>5
  <2>2. f[k] = f[k - 1] \o CellOf(s[k]) /\ g[k] = g[k - 1] \o CellOf(t[k]) /\ t[k] = s[k]
    BY <1>0, <1>2, <1>3
  <2>3. QED
    BY <2>1, <2>2
<1>6. \A k \in 0..p : k \in S
  <2> HIDE DEF S
  <2>1. QED
    BY <1>0, <1>4, <1>5, PrefixInduction
<1>7. p \in S
  BY <1>0, <1>6
<1>8. QED
  BY <1>0, <1>1, <1>7

LEMMA CellsWidth ==
  ASSUME NEW E, NEW s \in Seq(E), NEW f \in [0..Len(s) -> Seq(E \cup {"^"})], CellRun(f, s)
  PROVE  \A k \in 0..Len(s) : Len(f[k]) = Width(s, k)
<1>1. PICK n \in Nat : n = Len(s)
  BY LenProperties
<1>2. PICK V : V = E \cup {"^"} /\ f \in [0..n -> Seq(V)]
  BY <1>1
<1>3. f[0] = <<>> /\ \A k \in 1..n : f[k] = f[k - 1] \o CellOf(s[k])
  BY <1>1 DEF CellRun
<1>4. \A k \in 1..n : s[k] \in E
  BY <1>1, ElementOfSeq
<1> DEFINE S == {k \in 0..n : Len(f[k]) = Width(s, k)}
<1>5. 0 \in S
  <2>1. Controls(s, 0) = 0 /\ Len(f[0]) = 0
    BY <1>3, ControlsAre
  <2>2. QED
    BY <2>1 DEF Width
<1>6. ASSUME NEW k \in 1..n, k - 1 \in S PROVE k \in S
  <2>1. PICK i \in Nat : i = k - 1 /\ k = i + 1 /\ i \in 0..n
    BY <1>6
  <2>2. PICK c \in Seq(V) : c = CellOf(s[k]) /\ Len(c) = IF s[k] \in Control THEN 2 ELSE 1
    BY <1>2, <1>4, CellOfIs
  <2>3. PICK a \in Seq(V) : a = f[i]
    BY <1>2, <2>1
  <2>4. Len(a) = i + Controls(s, i) /\ Controls(s, i) \in Nat
    BY <1>6, <2>1, <2>3, ControlsAre DEF Width
  <2>5. Len(a \o c) = Len(a) + Len(c)
    BY <2>2, <2>3, ConcatProperties
  <2>6. Controls(s, i + 1) = IF s[i + 1] \in Control THEN Controls(s, i) + 1 ELSE Controls(s, i)
    BY <2>1, ControlsAre
  <2>7. Len(a \o c) = k + Controls(s, k)
    BY <2>1, <2>2, <2>4, <2>5, <2>6
  <2>8. f[k] = a \o c
    BY <1>3, <2>1, <2>2, <2>3
  <2>9. k \in 0..n
    OBVIOUS
  <2>10. QED
    BY <2>7, <2>8, <2>9 DEF Width
<1>7. \A k \in 0..n : k \in S
  <2> HIDE DEF S
  <2>1. QED
    BY <1>5, <1>6, PrefixInduction
<1>8. QED
  BY <1>1, <1>7

(* a begins with b. *)
BeginsWith(a, b) == Len(b) <= Len(a) /\ \A i \in 1..Len(b) : a[i] = b[i]

LEMMA BeginsOn ==
  ASSUME NEW V, NEW a \in Seq(V), NEW b \in Seq(V), NEW c \in Seq(V), BeginsWith(a, b)
  PROVE  BeginsWith(a \o c, b)
<1>1. PICK l, m, n \in Nat : l = Len(a) /\ m = Len(b) /\ n = Len(c)
  BY LenProperties
<1>2. m <= l /\ \A i \in 1..m : a[i] = b[i]
  BY <1>1 DEF BeginsWith
<1>3. Len(a \o c) = l + n /\ \A i \in 1..l + n : (a \o c)[i] = IF i <= l THEN a[i] ELSE c[i - l]
  BY <1>1, ConcatProperties
<1>4. m <= l + n /\ \A i \in 1..m : i \in 1..l + n /\ i <= l
  BY <1>2
<1>5. \A i \in 1..m : (a \o c)[i] = b[i]
  BY <1>2, <1>3, <1>4
<1>6. QED
  BY <1>1, <1>3, <1>4, <1>5 DEF BeginsWith

LEMMA CellsBegin ==
  ASSUME NEW E, NEW s \in Seq(E), NEW f \in [0..Len(s) -> Seq(E \cup {"^"})], CellRun(f, s),
         NEW p \in 0..Len(s)
  PROVE  BeginsWith(f[Len(s)], f[p])
<1>1. PICK n \in Nat : n = Len(s)
  BY LenProperties
<1>2. PICK V : V = E \cup {"^"} /\ f \in [0..n -> Seq(V)]
  BY <1>1
<1>3. \A k \in 1..n : f[k] = f[k - 1] \o CellOf(s[k])
  BY <1>1 DEF CellRun
<1>4. \A k \in 1..n : CellOf(s[k]) \in Seq(V)
  BY <1>1, <1>2, ElementOfSeq, CellOfIs
<1> DEFINE S == {k \in 0..n : p <= k => BeginsWith(f[k], f[p])}
<1>5. BeginsWith(f[p], f[p])
  <2>1. Len(f[p]) \in Nat
    BY <1>1, <1>2, LenProperties
  <2>2. QED
    BY <2>1 DEF BeginsWith
<1>6. 0 \in S
  <2>1. p <= 0 => p = 0
    BY <1>1
  <2>2. QED
    BY <1>1, <1>5, <2>1
<1>7. ASSUME NEW k \in 1..n, k - 1 \in S PROVE k \in S
  <2>1. p <= k => p = k \/ p <= k - 1
    BY <1>1
  <2>2. CASE p <= k - 1
    <3>0. k - 1 \in 0..n
      OBVIOUS
    <3>a. f[k - 1] \in Seq(V) /\ CellOf(s[k]) \in Seq(V)
      BY <1>2, <1>4, <3>0
    <3>1. PICK a \in Seq(V), c \in Seq(V) : a = f[k - 1] /\ c = CellOf(s[k]) /\ f[k] = a \o c
      BY <1>3, <3>a
    <3>2. PICK b \in Seq(V) : b = f[p]
      BY <1>1, <1>2
    <3>3. BeginsWith(a, b)
      BY <1>7, <2>2, <3>1, <3>2
    <3>4. BeginsWith(a \o c, b)
      BY <3>3, BeginsOn
    <3>5. QED
      BY <3>1, <3>2, <3>4
  <2>3. QED
    BY <1>5, <2>1, <2>2
<1>8. \A k \in 0..n : k \in S
  <2> HIDE DEF S
  <2>1. QED
    BY <1>6, <1>7, PrefixInduction
<1>9. n \in 0..n /\ p <= n
  BY <1>1
<1>10. QED
  BY <1>1, <1>8, <1>9

(* A printable character at the end is one cell more. *)
LEMMA CellsAppend ==
  ASSUME NEW E, NEW s \in Seq(E), NEW ch \in E, ch \notin Control
  PROVE  /\ Cells(s) \in Seq(E \cup {"^"}) /\ Len(Cells(s)) = Width(s, Len(s))
         /\ Cells(Append(s, ch)) = Append(Cells(s), ch)
         /\ Width(Append(s, ch), Len(s) + 1) = Width(s, Len(s)) + 1
<1>1. PICK n \in Nat : n = Len(s)
  BY LenProperties
<1>2. PICK V : V = E \cup {"^"}
  OBVIOUS
<1>3. PICK a : a = Append(s, ch)
  OBVIOUS
<1>4. a \in Seq(E) /\ Len(a) = n + 1 /\ (\A i \in 1..n : a[i] = s[i]) /\ a[n + 1] = ch
  BY <1>1, <1>3, AppendProperties
<1>5. PICK f \in [0..n + 1 -> Seq(V)] : CellRun(f, a) /\ Cells(a) = f[n + 1]
  BY <1>2, <1>4, CellsRun
<1>6. Cells(s) = f[n]
  <2>1. Opens(s, a, n)
    BY <1>1, <1>4 DEF Opens
  <2>2. QED
    BY <1>4, <1>5, <2>1, CellsOfFirst
<1>7. f[n + 1] = f[n] \o CellOf(a[n + 1])
  <2>1. n + 1 \in 1..n + 1 /\ n + 1 - 1 = n
    OBVIOUS
  <2>2. \A k \in 1..n + 1 : f[k] = f[k - 1] \o CellOf(a[k])
    BY <1>4, <1>5 DEF CellRun
  <2>3. f[n + 1] = f[n + 1 - 1] \o CellOf(a[n + 1])
    BY <2>1, <2>2
  <2>4. QED
    BY <2>1, <2>3
<1>8. PICK c \in Seq(V) : c = f[n] /\ c = Cells(s)
  <2>1. n \in 0..n + 1
    OBVIOUS
  <2>2. QED
    BY <1>5, <1>6, <2>1
<1>9. Cells(a) = Append(c, ch)
  <2>1. CellOf(ch) = <<ch>>
    BY DEF CellOf
  <2>2. ch \in V
    BY <1>2
  <2>3. Cells(a) = c \o <<ch>>
    BY <1>4, <1>5, <1>7, <1>8, <2>1
  <2>4. c \o <<ch>> = Append(c, ch)
    BY <2>2, AppendIsConcat
  <2>5. QED
    BY <2>3, <2>4
<1>10. Controls(a, n + 1) = Controls(s, n) /\ Controls(s, n) \in Nat
  <2>1. Controls(a, n) = Controls(s, n)
    BY <1>4, ControlsSame
  <2>2. Controls(a, n + 1) = IF a[n + 1] \in Control THEN Controls(a, n) + 1 ELSE Controls(a, n)
    BY ControlsAre
  <2>3. Controls(s, n) \in Nat
    BY ControlsAre
  <2>4. QED
    BY <1>4, <2>1, <2>2, <2>3
<1>11. Width(a, n + 1) = Width(s, n) + 1
  BY <1>10 DEF Width
<1>12. Len(c) = Width(s, n)
  <2>1. \A k \in 0..Len(a) : Len(f[k]) = Width(a, k)
    <3>1. f \in [0..Len(a) -> Seq(E \cup {"^"})]
      BY <1>2, <1>4, <1>5
    <3>2. QED
      BY <1>4, <1>5, <3>1, CellsWidth
  <2>2. n \in 0..Len(a)
    BY <1>4
  <2>3. Width(a, n) = Width(s, n)
    <3>1. Controls(a, n) = Controls(s, n)
      BY <1>4, ControlsSame
    <3>2. QED
      BY <3>1 DEF Width
  <2>4. QED
    BY <1>8, <2>1, <2>2, <2>3
<1>13. QED
  BY <1>1, <1>2, <1>3, <1>8, <1>9, <1>11, <1>12

(* A row: the prompt and cells behind it. *)
RowOf(r, c) ==
  /\ Len(r) = PromptCols + Len(c)
  /\ \A i \in 1..PromptCols : r[i] = ">"
  /\ \A i \in 1..Len(c) : r[PromptCols + i] = c[i]

LEMMA RowIs ==
  ASSUME NEW V, NEW c \in Seq(V)
  PROVE  PromptCells \o c \in Seq(V \cup {">"}) /\ RowOf(PromptCells \o c, c)
<1>1. PICK n, m \in Nat : n = PromptCols /\ m = Len(c)
  BY LineDisplayAssumption, LenProperties
<1>2. PICK R : R = V \cup {">"}
  OBVIOUS
<1>3. PromptCells \in Seq(R) /\ Len(PromptCells) = n /\ \A i \in 1..n : PromptCells[i] = ">"
  <2>1. PromptCells \in [1..n -> R] /\ \A i \in 1..n : PromptCells[i] = ">"
    BY <1>1, <1>2 DEF PromptCells
  <2>2. QED
    BY <2>1, ListOf
<1>4. c \in Seq(R)
  <2>1. c \in [1..m -> R]
    BY <1>1, <1>2, LenProperties
  <2>2. QED
    BY <2>1, ListOf
<1>5. PICK r : r = PromptCells \o c
  OBVIOUS
<1>6. /\ r \in Seq(R) /\ Len(r) = n + m
      /\ \A i \in 1..n + m : r[i] = IF i <= n THEN PromptCells[i] ELSE c[i - n]
  <2>1. /\ PromptCells \o c \in Seq(R) /\ Len(PromptCells \o c) = Len(PromptCells) + Len(c)
        /\ \A i \in 1..Len(PromptCells) + Len(c) :
             (PromptCells \o c)[i] = IF i <= Len(PromptCells) THEN PromptCells[i] ELSE c[i - Len(PromptCells)]
    BY <1>3, <1>4, ConcatProperties
  <2>2. Len(PromptCells) = n /\ Len(c) = m
    BY <1>1, <1>3
  <2>3. QED
    BY <1>5, <2>1, <2>2
<1>7. ASSUME NEW i \in 1..n PROVE r[i] = ">"
  <2>1. i \in 1..n + m /\ i <= n
    OBVIOUS
  <2>2. QED
    BY <1>3, <1>6, <2>1
<1>8. ASSUME NEW i \in 1..m PROVE r[n + i] = c[i]
  <2>1. n + i \in 1..n + m /\ ~(n + i <= n) /\ n + i - n = i
    OBVIOUS
  <2>2. QED
    BY <1>6, <2>1
<1>9. RowOf(r, c)
  BY <1>1, <1>6, <1>7, <1>8 DEF RowOf
<1>10. QED
  BY <1>2, <1>5, <1>6, <1>9

LEMMA RowsEqual ==
  ASSUME NEW R, NEW q \in Seq(R), NEW r \in Seq(R), NEW c, Len(c) \in Nat, RowOf(q, c), RowOf(r, c)
  PROVE  q = r
<1>1. PICK n, m \in Nat : n = PromptCols /\ m = Len(c)
  BY LineDisplayAssumption
<1>2. /\ Len(q) = n + m /\ Len(r) = n + m
      /\ \A i \in 1..n : q[i] = r[i] /\ \A j \in 1..m : q[n + j] = r[n + j]
  BY <1>1 DEF RowOf
<1>3. ASSUME NEW i \in 1..n + m PROVE q[i] = r[i]
  <2>1. CASE i <= n
    <3>1. i \in 1..n
      BY <2>1
    <3>2. QED
      BY <1>1, <3>1 DEF RowOf
  <2>2. CASE ~(i <= n)
    <3>1. i - n \in 1..m /\ n + (i - n) = i
      BY <2>2
    <3>2. q[n + (i - n)] = r[n + (i - n)]
      BY <1>1, <3>1 DEF RowOf
    <3>3. QED
      BY <3>1, <3>2
  <2>3. QED
    BY <2>1, <2>2
<1>4. QED
  BY <1>2, <1>3, SeqEqual

(* A beginning of a row. *)
LEMMA RowBegins ==
  ASSUME NEW V, NEW c \in Seq(V), NEW b \in Seq(V), BeginsWith(c, b)
  PROVE  SubSeq(PromptCells \o c, 1, PromptCols + Len(b)) = PromptCells \o b
<1>1. PICK n, m, l \in Nat : n = PromptCols /\ m = Len(c) /\ l = Len(b)
  BY LineDisplayAssumption, LenProperties
<1>2. l <= m /\ \A i \in 1..l : i \in 1..m /\ c[i] = b[i]
  BY <1>1 DEF BeginsWith
<1>3. PICK R : R = V \cup {">"}
  OBVIOUS
<1>4. PICK r \in Seq(R) : r = PromptCells \o c /\ RowOf(r, c)
  BY <1>3, RowIs
<1>5. Len(r) = n + m /\ (\A i \in 1..n : r[i] = ">") /\ \A i \in 1..m : r[n + i] = c[i]
  BY <1>1, <1>4 DEF RowOf
<1>6. PICK q : q = SubSeq(r, 0 + 1, n + l)
  OBVIOUS
<1>7. q \in Seq(R) /\ Len(q) = (n + l) - 0 /\ \A i \in 1..(n + l) - 0 : q[i] = r[0 + i]
  <2>1. n + l \in Nat /\ 0 <= n + l /\ n + l <= Len(r)
    BY <1>2, <1>5
  <2>2. QED
    BY <1>6, <2>1, PartIs
<1>8. Len(q) = n + l /\ \A i \in 1..n + l : q[i] = r[i]
  <2>1. (n + l) - 0 = n + l /\ \A i \in 1..n + l : 0 + i = i
    OBVIOUS
  <2>2. QED
    BY <1>7, <2>1
<1>9. \A i \in 1..n : q[i] = ">"
  <2>1. \A i \in 1..n : i \in 1..n + l
    OBVIOUS
  <2>2. QED
    BY <1>5, <1>8, <2>1
<1>10. \A i \in 1..l : q[n + i] = b[i]
  <2>1. \A i \in 1..l : n + i \in 1..n + l
    OBVIOUS
  <2>2. QED
    BY <1>2, <1>5, <1>8, <2>1
<1>11. RowOf(q, b)
  BY <1>1, <1>8, <1>9, <1>10 DEF RowOf
<1>12. PICK p \in Seq(R) : p = PromptCells \o b /\ RowOf(p, b)
  BY <1>3, RowIs
<1>13. q = p
  BY <1>1, <1>7, <1>11, <1>12, RowsEqual
<1>14. 0 + 1 = 1
  OBVIOUS
<1>15. QED
  BY <1>1, <1>4, <1>6, <1>12, <1>13, <1>14

LEMMA MinOfTwo ==
  ASSUME NEW a \in Int, NEW b \in Int
  PROVE  Min({a, b}) = IF a < b THEN a ELSE b
<1>1. PICK c : c = IF a < b THEN a ELSE b
  OBVIOUS
<1>2. c \in {a, b} /\ \A y \in {a, b} : c <= y
  BY <1>1
<1>3. \A x \in {a, b} : (\A y \in {a, b} : x <= y) => x = c
  BY <1>1
<1>4. (CHOOSE x \in {a, b} : \A y \in {a, b} : x <= y) = c
  BY <1>2, <1>3
<1>5. QED
  BY <1>1, <1>4 DEF Min

(* As many characters go as make room, but none from the cursor on. *)
Strips(s, p, k) ==
  /\ k \in 0..p /\ Stripped(s, p) = k
  /\ k = p \/ Needed(s, p) - Width(s, k) < Cols
  /\ \A j \in 0..p : Needed(s, p) - Width(s, j) < Cols => k <= j

LEMMA StrippedIs ==
  ASSUME NEW s, NEW p \in Nat
  PROVE  \E k : Strips(s, p, k)
<1> DEFINE fits == {k \in 0..p : Needed(s, p) - Width(s, k) < Cols}
<1>1. Stripped(s, p) = IF fits = {} THEN p ELSE Min(fits)
  BY DEF Stripped
<1>2. CASE fits = {}
  <2>1. p \in 0..p /\ Stripped(s, p) = p
    BY <1>1, <1>2
  <2>2. \A j \in 0..p : ~(Needed(s, p) - Width(s, j) < Cols)
    BY <1>2
  <2>3. Strips(s, p, p)
    BY <2>1, <2>2 DEF Strips
  <2>4. QED
    BY <2>3
<1>3. CASE fits # {}
  <2>1. \A k \in fits : k \in 0..p
    OBVIOUS
  <2>2. PICK k \in fits : \A j \in fits : k <= j
    <3> HIDE DEF fits
    <3>1. CASE 0 \in fits
      <4>1. \A j \in fits : 0 <= j
        BY <2>1
      <4>2. QED
        BY <3>1, <4>1
    <3>2. CASE 0 \notin fits
      <4>1. fits \in SUBSET (1..p)
        BY <2>1, <3>2
      <4>2. QED
        BY <1>3, <4>1, FirstPlace
    <3>3. QED
      BY <3>1, <3>2
  <2>3. Min(fits) \in fits /\ \A j \in fits : Min(fits) <= j
    <3> HIDE DEF fits
    <3>1. QED
      BY <2>2 DEF Min
  <2>4. Stripped(s, p) \in fits /\ \A j \in fits : Stripped(s, p) <= j
    BY <1>1, <1>3, <2>3
  <2>5. /\ Stripped(s, p) \in 0..p /\ Needed(s, p) - Width(s, Stripped(s, p)) < Cols
        /\ \A j \in 0..p : Needed(s, p) - Width(s, j) < Cols => Stripped(s, p) <= j
    BY <2>4
  <2>6. PICK n : n = Stripped(s, p)
    OBVIOUS
  <2>7. /\ n \in 0..p /\ Needed(s, p) - Width(s, n) < Cols
        /\ \A j \in 0..p : Needed(s, p) - Width(s, j) < Cols => n <= j
    BY <2>5, <2>6
  <2>8. Strips(s, p, n)
    BY <2>6, <2>7 DEF Strips
  <2>9. QED
    BY <2>8
<1>4. QED
  BY <1>2, <1>3

(* There is room for what is between the characters left out and the cursor. *)
LEMMA RoomToCursor ==
  ASSUME NEW E, NEW s \in Seq(E), NEW p \in Nat, NEW k \in Nat, NEW t,
         p <= Len(s), k <= p, k = p \/ Needed(s, p) - Width(s, k) < Cols,
         \A i \in 1..p - k : t[i] = s[k + i]
  PROVE  PromptCols + (p - k) + Controls(t, p - k) < Cols
<1>1. PICK n \in Nat : n = Len(s)
  BY LenProperties
<1>2. PICK j \in Nat : j = p - k /\ k + j = p
  OBVIOUS
<1>3. CASE k = p
  <2>1. j = 0 /\ Controls(t, 0) = 0
    BY <1>2, <1>3, ControlsAre
  <2>2. QED
    BY <1>2, <2>1, LineDisplayAssumption
<1>4. CASE k # p
  <2>1. PICK q \in Nat : q = Min({p + 1, n}) /\ p <= q
    <3>1. Min({p + 1, n}) = IF p + 1 < n THEN p + 1 ELSE n
      BY MinOfTwo
    <3>2. QED
      BY <1>1, <3>1
  <2>2. Controls(s, p) <= Controls(s, q)
    BY <2>1, ControlsGrow
  <2>3. Controls(s, p) = Controls(s, k) + Controls(t, j)
    <3>1. Behind(s, t, k, j)
      BY <1>2 DEF Behind
    <3>2. Controls(s, k + j) = Controls(s, k) + Controls(t, j)
      BY <3>1, ControlsBehind
    <3>3. QED
      BY <1>2, <3>2
  <2>4. PICK a, b, c, d \in Nat :
          a = Controls(s, p) /\ b = Controls(s, q) /\ c = Controls(s, k) /\ d = Controls(t, j)
    BY <2>1, ControlsAre
  <2>5. (PromptCols + n + b) - (k + c) < Cols
    BY <1>1, <1>4, <2>1, <2>4 DEF Needed, Width
  <2>6. a <= b /\ a = c + d
    BY <2>2, <2>3, <2>4
  <2>7. PromptCols + j + d < Cols
    <3>1. PromptCols \in Nat /\ Cols \in Nat /\ p <= n
      BY <1>1, LineDisplayAssumption
    <3>2. QED
      BY <1>2, <2>5, <2>6, <3>1
  <2>8. QED
    BY <1>2, <2>4, <2>7
<1>5. QED
  BY <1>3, <1>4

(* What is drawn of a line is inside the window, whatever was left out. *)
LEMMA DrawsInside ==
  ASSUME NEW E, NEW s \in Seq(E), NEW p \in 0..Len(s)
  PROVE  DrawnInside(s, p)
<1>1. PICK n \in Nat : n = Len(s) /\ p \in Nat /\ p <= n
  BY LenProperties
<1>2. PICK k \in 0..p : Stripped(s, p) = k /\ (k = p \/ Needed(s, p) - Width(s, k) < Cols)
  <2>1. PICK k : Strips(s, p, k)
    BY <1>1, StrippedIs
  <2>2. k \in 0..p /\ Stripped(s, p) = k /\ (k = p \/ Needed(s, p) - Width(s, k) < Cols)
    BY <2>1 DEF Strips
  <2>3. QED
    BY <2>2
<1>3. k \in Nat /\ k <= p /\ k <= n
  BY <1>1, <1>2
<1>4. PICK t : t = SubSeq(s, k + 1, n)
  OBVIOUS
<1>5. PICK l \in Nat : l = n - k /\ p - k <= l /\ p - k \in Nat
  <2>1. n - k \in Nat /\ p - k \in Nat /\ p - k <= n - k
    <3>1. n \in Nat /\ p \in Nat /\ k \in Nat /\ p <= n /\ k <= p
      BY <1>1, <1>3
    <3>2. QED
      BY <3>1
  <2>2. QED
    BY <2>1
<1>6. t \in Seq(E) /\ Len(t) = l /\ \A i \in 1..l : t[i] = s[k + i]
  BY <1>1, <1>3, <1>4, <1>5, PartIs
<1>7. PICK j \in Nat : j = p - k /\ j <= l
  BY <1>5
<1>8. PromptCols + j + Controls(t, j) < Cols
  <2>1. \A i \in 1..j : t[i] = s[k + i]
    BY <1>6, <1>7
  <2>2. QED
    BY <1>1, <1>2, <1>3, <1>7, <2>1, RoomToCursor
<1>9. PICK m \in 0..l : ShowsFirst(t, m)
  BY <1>6, ShownIs
<1>10. m \in Nat /\ m <= l /\ Cardinality(Shown(t)) = m
       /\ \A i \in 1..l : i <= m <=> PromptCols + i - 1 + Controls(t, i) < Cols
  BY <1>6, <1>9 DEF ShowsFirst
<1>11. j <= m
  <2>1. CASE j = 0
    BY <1>10, <2>1
  <2>2. CASE j # 0
    <3>1. j \in 1..l
      BY <1>7, <2>2
    <3>2. Controls(t, j) \in Nat /\ PromptCols \in Nat /\ Cols \in Nat
      BY ControlsAre, LineDisplayAssumption
    <3>3. PromptCols + j - 1 + Controls(t, j) < Cols
      BY <1>8, <3>2
    <3>4. QED
      BY <1>10, <3>1, <3>3
  <2>3. QED
    BY <2>1, <2>2
<1>12. PICK u : u = SubSeq(t, 0 + 1, m)
  OBVIOUS
<1>13. u \in Seq(E) /\ Len(u) = m /\ \A i \in 1..m : u[i] = t[i]
  <2>1. 0 <= m /\ m <= Len(t)
    BY <1>6, <1>10
  <2>2. u \in Seq(E) /\ Len(u) = m - 0 /\ \A i \in 1..m - 0 : u[i] = t[0 + i]
    BY <1>6, <1>10, <1>12, <2>1, PartIs
  <2>3. m - 0 = m /\ \A i \in 1..m : 0 + i = i
    BY <1>10
  <2>4. QED
    BY <2>2, <2>3
<1>14. PICK b : b = SubSeq(s, k + 1, p)
  OBVIOUS
<1>15. b \in Seq(E) /\ Len(b) = j /\ \A i \in 1..j : b[i] = u[i]
  <2>1. b \in Seq(E) /\ Len(b) = p - k /\ \A i \in 1..p - k : b[i] = s[k + i]
    BY <1>1, <1>3, <1>14, PartIs
  <2>2. \A i \in 1..j : i \in 1..l /\ i \in 1..m
    BY <1>7, <1>10, <1>11
  <2>3. QED
    BY <1>6, <1>7, <1>13, <2>1, <2>2
<1>16. PICK V : V = E \cup {"^"}
  OBVIOUS
<1>17. PICK f \in [0..m -> Seq(V)] : CellRun(f, u) /\ Cells(u) = f[m]
  BY <1>13, <1>16, CellsRun
<1>18. Cells(b) = f[j]
  <2>1. Opens(b, u, j)
    BY <1>7, <1>11, <1>13, <1>15 DEF Opens
  <2>2. b \in Seq(E) /\ u \in Seq(E) /\ CellRun(f, u)
    BY <1>13, <1>15, <1>17
  <2>3. QED
    BY <2>1, <2>2, CellsOfFirst
<1>19. j \in 0..m /\ m \in 0..m
  BY <1>7, <1>10, <1>11
<1>20. PICK c \in Seq(V), d \in Seq(V) : c = Cells(u) /\ d = Cells(b) /\ c = f[m] /\ d = f[j]
  BY <1>17, <1>18, <1>19
<1>21. BeginsWith(c, d)
  <2>1. f \in [0..Len(u) -> Seq(E \cup {"^"})] /\ j \in 0..Len(u) /\ m = Len(u)
    BY <1>13, <1>16, <1>17, <1>19
  <2>2. BeginsWith(f[Len(u)], f[j])
    BY <1>13, <1>17, <2>1, CellsBegin
  <2>3. QED
    BY <1>20, <2>1, <2>2
<1>22. Len(c) = m + Controls(t, m) /\ Len(d) = j + Controls(t, j)
  <2>1. f \in [0..Len(u) -> Seq(E \cup {"^"})] /\ m = Len(u)
    BY <1>13, <1>16, <1>17
  <2>2. \A i \in 0..m : Len(f[i]) = Width(u, i)
    BY <1>13, <1>17, <2>1, CellsWidth
  <2>3. Controls(u, m) = Controls(t, m)
    BY <1>10, <1>13, ControlsSame
  <2>4. Controls(u, j) = Controls(t, j)
    <3>1. \A i \in 1..j : u[i] = t[i]
      BY <1>10, <1>11, <1>13
    <3>2. QED
      BY <3>1, ControlsSame
  <2>5. QED
    BY <1>19, <1>20, <2>2, <2>3, <2>4 DEF Width
<1>23. PICK r : r = Refreshed(s, p)
  OBVIOUS
<1>24. r.row = PromptCells \o c /\ r.cursor = PromptCols + Len(d)
  <2>1. r.row = PromptCells \o c /\ r.cursor = PromptCols + p - k + Controls(t, Min({p - k, m}))
    <3>1. u = SubSeq(t, 1, m)
      BY <1>12
    <3>2. QED
      BY <1>1, <1>2, <1>4, <1>10, <1>20, <1>23, <3>1 DEF Refreshed
  <2>2. Min({p - k, m}) = j
    <3>1. Min({j, m}) = IF j < m THEN j ELSE m
      BY <1>10, MinOfTwo
    <3>2. j \in Nat /\ m \in Nat /\ j <= m
      BY <1>7, <1>10, <1>11
    <3>3. Min({j, m}) = j
      BY <3>1, <3>2
    <3>4. QED
      BY <1>7, <3>3
  <2>3. PromptCols + p - k = PromptCols + j /\ Controls(t, j) \in Nat
    BY <1>1, <1>3, <1>7, ControlsAre, LineDisplayAssumption
  <2>4. PromptCols + j + Controls(t, j) = PromptCols + (j + Controls(t, j))
    BY <2>3, LineDisplayAssumption
  <2>5. QED
    BY <1>22, <2>1, <2>2, <2>3, <2>4
<1>25. r.cursor < Cols
  <2>1. Controls(t, j) \in Nat
    BY ControlsAre
  <2>2. QED
    BY <1>8, <1>22, <1>24, <2>1, LineDisplayAssumption
<1>26. Len(r.row) <= Cols
  <2>1. Len(r.row) = PromptCols + (m + Controls(t, m))
    BY <1>20, <1>22, <1>24, RowIs DEF RowOf
  <2>2. CASE m = 0
    <3>1. Controls(t, 0) = 0
      BY ControlsAre
    <3>2. QED
      BY <2>1, <2>2, <3>1, LineDisplayAssumption
  <2>3. CASE m # 0
    <3>1. m \in 1..l /\ m <= m
      BY <1>10, <2>3
    <3>2. PromptCols + m - 1 + Controls(t, m) < Cols
      BY <1>10, <3>1
    <3>3. Controls(t, m) \in Nat /\ PromptCols \in Nat /\ Cols \in Nat
      BY <1>10, ControlsAre, LineDisplayAssumption
    <3>4. QED
      BY <1>10, <2>1, <3>2, <3>3
  <2>4. QED
    BY <2>2, <2>3
<1>27. SubSeq(r.row, 1, r.cursor) = PromptCells \o Cells(b)
  <2>1. SubSeq(PromptCells \o c, 1, PromptCols + Len(d)) = PromptCells \o d
    BY <1>21, RowBegins
  <2>2. QED
    BY <1>20, <1>24, <2>1
<1>28. QED
  BY <1>2, <1>14, <1>23, <1>25, <1>26, <1>27 DEF DrawnInside

(* A line that fits, with the second columns of its control characters, is drawn
   whole. *)
LEMMA WholeRefreshed ==
  ASSUME NEW E, NEW s \in Seq(E), NEW n, n = Len(s), PromptCols + Width(s, n) < Cols
  PROVE  Refreshed(s, n) = [row |-> PromptCells \o Cells(s), cursor |-> PromptCols + Width(s, n)]
<1>1. n \in Nat /\ PromptCols \in Nat /\ Cols \in Nat
  BY LenProperties, LineDisplayAssumption
<1>c. PICK c \in Nat : c = Controls(s, n) /\ Width(s, n) = n + c
  BY <1>1, ControlsAre DEF Width
<1>x. PICK k : Strips(s, n, k)
  BY <1>1, StrippedIs
<1>2. /\ k \in 0..n /\ Stripped(s, n) = k
      /\ \A j \in 0..n : Needed(s, n) - Width(s, j) < Cols => k <= j
  BY <1>x DEF Strips
<1>3. k = 0
  <2>1. Min({n + 1, n}) = n
    <3>1. Min({n + 1, n}) = IF n + 1 < n THEN n + 1 ELSE n
      BY <1>1, MinOfTwo
    <3>2. QED
      BY <1>1, <3>1
  <2>2. Needed(s, n) = PromptCols + n + c
    BY <1>c, <2>1 DEF Needed
  <2>3. Width(s, 0) = 0 + 0
    BY ControlsAre DEF Width
  <2>4. Needed(s, n) - Width(s, 0) < Cols
    BY <1>1, <1>c, <2>2, <2>3
  <2>5. 0 \in 0..n
    BY <1>1
  <2>6. k <= 0
    BY <1>2, <2>4, <2>5
  <2>7. QED
    BY <1>1, <1>2, <2>6
<1>4. PICK t : t = SubSeq(s, k + 1, n)
  OBVIOUS
<1>5. t = SubSeq(s, 0 + 1, n) /\ SubSeq(s, 0 + 1, n) = SubSeq(s, 1, n)
  BY <1>3, <1>4
<1>6. SubSeq(s, 0 + 1, n) = s
  <2>1. PICK u : u = SubSeq(s, 0 + 1, n)
    OBVIOUS
  <2>2. u \in Seq(E) /\ Len(u) = n - 0 /\ \A i \in 1..n - 0 : u[i] = s[0 + i]
    <3>1. 0 <= n /\ n <= Len(s)
      BY <1>1
    <3>2. QED
      BY <1>1, <2>1, <3>1, PartIs
  <2>3. n - 0 = n /\ \A i \in 1..n : 0 + i = i
    BY <1>1
  <2>4. Len(u) = Len(s) /\ \A i \in 1..Len(u) : u[i] = s[i]
    BY <2>2, <2>3
  <2>5. u = s
    BY <2>2, <2>4, SeqEqual
  <2>6. QED
    BY <2>1, <2>5
<1>7. PICK m \in 0..n : ShowsFirst(s, m)
  BY ShownIs
<1>8. Cardinality(Shown(s)) = m /\ \A i \in 1..n : i <= m <=> PromptCols + i - 1 + Controls(s, i) < Cols
  BY <1>7 DEF ShowsFirst
<1>9. m = n
  <2>1. CASE n = 0
    BY <1>7, <2>1
  <2>2. CASE n # 0
    <3>0. PromptCols + n - 1 + c < Cols
      BY <1>1, <1>c
    <3>1. n \in 1..n /\ PromptCols + n - 1 + Controls(s, n) < Cols
      BY <1>1, <1>c, <2>2, <3>0
    <3>2. n <= m
      BY <1>8, <3>1
    <3>3. QED
      BY <1>1, <1>7, <3>2
  <2>3. QED
    BY <2>1, <2>2
<1>10. Min({n - k, n}) = n
  <2>1. n - k = n
    BY <1>1, <1>3
  <2>2. Min({n, n}) = IF n < n THEN n ELSE n
    BY <1>1, MinOfTwo
  <2>3. QED
    BY <2>1, <2>2
<1>12. t = s
  BY <1>5, <1>6
<1>13. Refreshed(s, n) = [row |-> PromptCells \o Cells(SubSeq(t, 1, n)),
                         cursor |-> PromptCols + n - k + Controls(t, n)]
  BY <1>2, <1>4, <1>8, <1>9, <1>10, <1>12 DEF Refreshed
<1>14. SubSeq(t, 1, n) = s
  BY <1>5, <1>6, <1>12
<1>15. PromptCols + n - k + Controls(t, n) = PromptCols + Width(s, n)
  BY <1>1, <1>3, <1>c, <1>12
<1>16. QED
  BY <1>13, <1>14, <1>15

(* A cell more at the end of the row. *)
LEMMA RowAppend ==
  ASSUME NEW V, NEW c \in Seq(V), NEW ch \in V
  PROVE  Append(PromptCells \o c, ch) = PromptCells \o Append(c, ch)
<1>1. PICK n, p \in Nat : n = Len(c) /\ p = PromptCols
  BY LenProperties, LineDisplayAssumption
<1>2. PICK a : a = Append(c, ch)
  OBVIOUS
<1>3. a \in Seq(V) /\ Len(a) = n + 1 /\ (\A i \in 1..n : a[i] = c[i]) /\ a[n + 1] = ch
  BY <1>1, <1>2, AppendProperties
<1>8. PICK R : R = V \cup {">"}
  OBVIOUS
<1>9. PICK r \in Seq(R) : r = PromptCells \o c /\ RowOf(r, c)
  BY <1>8, RowIs
<1>11. Len(r) = p + n /\ (\A i \in 1..p : r[i] = ">") /\ \A i \in 1..n : r[p + i] = c[i]
  BY <1>1, <1>9 DEF RowOf
<1>12. PICK q : q = Append(r, ch)
  OBVIOUS
<1>13. q \in Seq(R) /\ Len(q) = (p + n) + 1 /\ (\A i \in 1..p + n : q[i] = r[i]) /\ q[(p + n) + 1] = ch
  <2>1. ch \in R
    BY <1>8
  <2>2. QED
    BY <1>9, <1>11, <1>12, <2>1, AppendProperties
<1>14. RowOf(q, a)
  <2>1. Len(q) = p + Len(a)
    BY <1>3, <1>13
  <2>2. ASSUME NEW i \in 1..p PROVE q[i] = ">"
    <3>1. i \in 1..p + n
      OBVIOUS
    <3>2. QED
      BY <1>11, <1>13, <3>1
  <2>3. ASSUME NEW i \in 1..n + 1 PROVE q[p + i] = a[i]
    <3>1. CASE i \in 1..n
      <4>1. p + i \in 1..p + n
        BY <3>1
      <4>2. QED
        BY <1>3, <1>11, <1>13, <3>1, <4>1
    <3>2. CASE i = n + 1
      <4>1. p + i = (p + n) + 1
        BY <3>2
      <4>2. QED
        BY <1>3, <1>13, <3>2, <4>1
    <3>3. i \in 1..n \/ i = n + 1
      OBVIOUS
    <3>4. QED
      BY <3>1, <3>2, <3>3
  <2>4. QED
    BY <1>1, <1>3, <2>1, <2>2, <2>3 DEF RowOf
<1>15. PICK b \in Seq(R) : b = PromptCells \o a /\ RowOf(b, a)
  BY <1>3, <1>8, RowIs
<1>16. q = b
  <2>1. Len(a) \in Nat
    BY <1>3
  <2>2. QED
    BY <1>13, <1>14, <1>15, <2>1, RowsEqual
<1>17. QED
  BY <1>2, <1>9, <1>12, <1>15, <1>16

(* A printable character written or blanked at the end of a line that fits, with
   it, into the window: the terminal is as after a refresh. *)
LEMMA ShortcutsDraw ==
  ASSUME NEW E, NEW s \in Seq(E), NEW ch \in E, ch \notin Control,
         PromptCols + (Width(s, Len(s)) + 1) < Cols
  PROVE  /\ Written(Refreshed(s, Len(s)), ch) = Refreshed(Append(s, ch), Len(s) + 1)
         /\ Blanked(Refreshed(Append(s, ch), Len(s) + 1)) = Refreshed(s, Len(s))
<1>1. PICK n \in Nat : n = Len(s)
  BY LenProperties
<1>2. PICK V : V = E \cup {"^"}
  OBVIOUS
<1>3. PICK c \in Seq(V) : c = Cells(s) /\ Len(c) = Width(s, n)
  BY <1>1, <1>2, CellsAppend
<1>w. PICK w \in Nat : w = Len(c) /\ w = Width(s, n)
  BY <1>3, LenProperties
<1>4. PICK p \in Nat, l \in Nat : p = PromptCols /\ l = Cols /\ p + (w + 1) < l
  BY <1>1, <1>w, LineDisplayAssumption
<1>5. PICK a \in Seq(E) : /\ a = Append(s, ch) /\ Len(a) = n + 1
                          /\ Cells(a) = Append(c, ch) /\ Width(a, n + 1) = w + 1
  <2>1. Append(s, ch) \in Seq(E) /\ Len(Append(s, ch)) = n + 1
    BY <1>1, AppendProperties
  <2>2. /\ Cells(Append(s, ch)) = Append(Cells(s), ch)
        /\ Width(Append(s, ch), Len(s) + 1) = Width(s, Len(s)) + 1
    BY CellsAppend
  <2>3. Cells(Append(s, ch)) = Append(c, ch) /\ Width(Append(s, ch), n + 1) = w + 1
    BY <1>1, <1>3, <1>w, <2>2
  <2>4. QED
    BY <2>1, <2>3
<1>6. ch \in V
  BY <1>2
<1>7. PICK q : q = PromptCells \o c
  OBVIOUS
<1>8. Refreshed(s, n) = [row |-> q, cursor |-> p + w]
  <2>1. PromptCols + Width(s, n) < Cols
    BY <1>3, <1>w, <1>4
  <2>2. Refreshed(s, n) = [row |-> PromptCells \o Cells(s), cursor |-> PromptCols + Width(s, n)]
    BY <1>1, <2>1, WholeRefreshed
  <2>3. QED
    BY <1>3, <1>w, <1>4, <1>7, <2>2
<1>9. Refreshed(a, n + 1) = [row |-> Append(q, ch), cursor |-> p + (w + 1)]
  <2>1. PromptCols + Width(a, n + 1) < Cols
    BY <1>4, <1>5
  <2>2. Refreshed(a, n + 1) = [row |-> PromptCells \o Cells(a), cursor |-> PromptCols + Width(a, n + 1)]
    BY <1>5, <2>1, WholeRefreshed
  <2>3. PromptCells \o Cells(a) = Append(q, ch)
    BY <1>5, <1>6, <1>7, RowAppend
  <2>4. QED
    BY <1>4, <1>5, <2>2, <2>3
<1>10. SubSeq(q, 1, p + w) = q
  <2>1. BeginsWith(c, c)
    BY <1>3, <1>w, <1>4 DEF BeginsWith
  <2>2. QED
    BY <1>3, <1>w, <1>4, <1>7, <2>1, RowBegins
<1>11. SubSeq(Append(q, ch), 1, p + w) = q
  <2>0. /\ Append(c, ch) \in Seq(V) /\ Len(Append(c, ch)) = Len(c) + 1
        /\ \A i \in 1..Len(c) : Append(c, ch)[i] = c[i]
    BY <1>6, AppendProperties
  <2>1. PICK d \in Seq(V) : d = Append(c, ch) /\ Len(d) = w + 1 /\ \A i \in 1..w : d[i] = c[i]
    BY <1>w, <2>0
  <2>2. BeginsWith(d, c)
    BY <1>3, <1>w, <1>4, <2>1 DEF BeginsWith
  <2>3. SubSeq(PromptCells \o d, 1, PromptCols + Len(c)) = PromptCells \o c
    BY <2>2, RowBegins
  <2>4. Append(q, ch) = PromptCells \o d
    BY <1>6, <1>7, <2>1, RowAppend
  <2>5. QED
    BY <1>3, <1>w, <1>4, <1>7, <2>3, <2>4
<1>12. p + w + 1 = p + (w + 1) /\ p + (w + 1) - 1 = p + w
  BY <1>4
<1>13. Written(Refreshed(s, n), ch) = Refreshed(a, n + 1)
  <2>1. PICK r : r = Refreshed(s, n)
    OBVIOUS
  <2>2. r.row = q /\ r.cursor = p + w
    BY <1>8, <2>1
  <2>3. Written(r, ch) = [row |-> Append(q, ch), cursor |-> p + w + 1]
    BY <1>10, <2>2 DEF Written
  <2>4. QED
    BY <1>9, <1>12, <2>1, <2>3
<1>14. Blanked(Refreshed(a, n + 1)) = Refreshed(s, n)
  <2>1. PICK r : r = Refreshed(a, n + 1)
    OBVIOUS
  <2>2. r.row = Append(q, ch) /\ r.cursor = p + (w + 1)
    BY <1>9, <2>1
  <2>3. r.cursor - 1 = p + w
    BY <1>4, <1>12, <2>2
  <2>4. Blanked(r) = [row |-> q, cursor |-> p + w]
    BY <1>11, <2>2, <2>3 DEF Blanked
  <2>5. QED
    BY <1>8, <2>1, <2>4
<1>15. QED
  BY <1>1, <1>5, <1>13, <1>14

(* The shortcuts for the last character leave what a refresh would. *)
LEMMA ShortcutsHold ==
  ASSUME NEW E, NEW s \in Seq(E), NEW ch \in E
  PROVE  ShortcutsAgree(s, ch)
<1>1. PICK n \in Nat : n = Len(s)
  BY LenProperties
<1>2. SUFFICES ASSUME NoScrolling(s), Controls(s, n) = 0 \/ PromptCols + Width(s, n) < Cols - 1
               PROVE  /\ ch \notin Control =>
                           Written(Refreshed(s, n), ch) = Refreshed(Append(s, ch), n + 1)
                      /\ s # <<>> /\ Last(s) \notin Control =>
                           Blanked(Refreshed(s, n)) = Refreshed(Front(s), n - 1)
  BY <1>1 DEF ShortcutsAgree
<1>3. PICK p \in Nat, l \in Nat, w \in Nat :
        p = PromptCols /\ l = Cols /\ w = Width(s, n) /\ p + w < l - 1
  <2>1. Controls(s, n) \in Nat /\ PromptCols \in Nat /\ Cols \in Nat
    BY ControlsAre, LineDisplayAssumption
  <2>2. CASE Controls(s, n) = 0
    <3>1. PromptCols + n < Cols - 1
      BY <1>1, <1>2 DEF NoScrolling
    <3>2. Width(s, n) = n
      BY <2>2 DEF Width
    <3>3. QED
      BY <2>1, <3>1, <3>2
  <2>3. CASE PromptCols + Width(s, n) < Cols - 1
    <3>1. Width(s, n) \in Nat
      BY <2>1 DEF Width
    <3>2. QED
      BY <2>1, <2>3, <3>1
  <2>4. QED
    BY <1>2, <2>2, <2>3
<1>4. ASSUME ch \notin Control
      PROVE  Written(Refreshed(s, n), ch) = Refreshed(Append(s, ch), n + 1)
  <2>1. p + (w + 1) < l
    BY <1>3
  <2>2. PromptCols + (Width(s, Len(s)) + 1) < Cols
    BY <1>1, <1>3, <2>1
  <2>3. QED
    BY <1>1, <1>4, <2>2, ShortcutsDraw
<1>5. ASSUME s # <<>>, Last(s) \notin Control
      PROVE  Blanked(Refreshed(s, n)) = Refreshed(Front(s), n - 1)
  <2>1. PICK b \in Seq(E), m \in Nat : b = Front(s) /\ Len(b) = m /\ n = m + 1 /\ m = n - 1
                                       /\ \A i \in 1..m : b[i] = s[i]
    <3>1. n # 0
      BY <1>1, <1>5, EmptySeq
    <3>2. n - 1 \in Nat /\ n = (n - 1) + 1
      BY <1>1, <3>1
    <3>3. Front(s) \in Seq(E) /\ Len(Front(s)) = n - 1 /\ \A i \in 1..n - 1 : Front(s)[i] = s[i]
      BY <1>1, <1>5, FrontIs
    <3>4. QED
      BY <3>2, <3>3
  <2>2. PICK x \in E : x = Last(s) /\ x = s[n] /\ x \notin Control
    <3>1. n \in 1..n /\ Last(s) = s[n]
      BY <1>1, <2>1 DEF Last
    <3>2. s[n] \in E
      BY <1>1, <3>1, ElementOfSeq
    <3>3. QED
      BY <1>5, <3>1, <3>2
  <2>3. Append(b, x) = s
    <3>0. /\ Append(b, x) \in Seq(E) /\ Len(Append(b, x)) = Len(b) + 1
          /\ \A i \in 1..Len(b) : Append(b, x)[i] = b[i]
          /\ Append(b, x)[Len(b) + 1] = x
      BY AppendProperties
    <3>1. PICK a \in Seq(E) : /\ a = Append(b, x) /\ Len(a) = m + 1
                              /\ (\A i \in 1..m : a[i] = b[i]) /\ a[m + 1] = x
      BY <2>1, <3>0
    <3>2. ASSUME NEW i \in 1..m + 1 PROVE a[i] = s[i]
      <4>1. i \in 1..m \/ i = m + 1
        OBVIOUS
      <4>2. QED
        BY <2>1, <2>2, <3>1, <4>1
    <3>3. Len(a) = Len(s) /\ \A i \in 1..Len(a) : a[i] = s[i]
      BY <1>1, <2>1, <3>1, <3>2
    <3>4. a = s
      BY <3>1, <3>3, SeqEqual
    <3>5. QED
      BY <3>1, <3>4
  <2>4. PICK v \in Nat : v = Width(b, m) /\ w = v + 1
    <3>0. Width(Append(b, x), Len(b) + 1) = Width(b, Len(b)) + 1
      BY <2>2, CellsAppend
    <3>1. Width(s, n) = Width(b, m) + 1
      BY <2>1, <2>3, <3>0
    <3>2. Controls(b, m) \in Nat
      BY <2>1, ControlsAre
    <3>3. Width(b, m) \in Nat
      BY <2>1, <3>2 DEF Width
    <3>4. QED
      BY <1>3, <3>1, <3>3
  <2>5. PromptCols + (Width(b, Len(b)) + 1) < Cols
    BY <1>3, <2>1, <2>4
  <2>6. Blanked(Refreshed(Append(b, x), Len(b) + 1)) = Refreshed(b, Len(b))
    BY <2>2, <2>5, ShortcutsDraw
  <2>7. QED
    BY <2>1, <2>3, <2>6
<1>6. QED
  BY <1>4, <1>5

(* For any window that is wider than the prompt and any line, a refresh draws
   inside the window with the cursor on its character; and a shortcut leaves what
   it would, unless control characters fill the window (ShortcutsAgree). *)
THEOREM DisplayAlways == Spec => []DisplayShowsLine
<1> DEFINE s == Characters
<1>1. ASSUME IInv PROVE s \in Seq(Bytes) /\ current.pos \in 0..Len(s)
  <2>1. Sound(current)
    BY <1>1 DEF IInv, LinePart
  <2>2. PICK n \in Nat : n = current.len /\ n <= BufMax - 1 /\ BufMax \in Nat
    BY <2>1, SoundFields
  <2>3. \A i \in 1..n : i - 1 \in 0..BufMax - 1
    BY <2>2
  <2>4. \A i \in 1..n : current.buf[i - 1] \in Bytes
    BY <2>1, <2>3, SoundFields
  <2>5. s \in [1..n -> Bytes]
    BY <2>2, <2>4 DEF Characters
  <2>6. s \in Seq(Bytes) /\ Len(s) = n
    BY <2>5, ListOf
  <2>7. current.pos \in 0..n
    BY <2>1, <2>2, SoundFields
  <2>8. QED
    BY <2>6, <2>7
<1>2. ASSUME IInv PROVE DrawnInside(s, current.pos) /\ \A ch \in Chars : ShortcutsAgree(s, ch)
  <2>1. s \in Seq(Bytes) /\ current.pos \in 0..Len(s)
    BY <1>1, <1>2
  <2> HIDE DEF s
  <2>2. DrawnInside(s, current.pos)
    BY <2>1, DrawsInside
  <2>3. ASSUME NEW ch \in Chars PROVE ShortcutsAgree(s, ch)
    <3>1. ch \in Bytes
      BY DEF Bytes
    <3>2. QED
      BY <2>1, <3>1, ShortcutsHold
  <2>4. QED
    BY <2>2, <2>3
<1>3. IInv => DisplayShowsLine
  BY <1>2 DEF DisplayShowsLine
<1>4. QED
  BY <1>3, Invariant, PTL

(***************************************************************************)
(* Browsing                                                                *)
(***************************************************************************)

(* A line that is filled with the text of another looks like it. *)
LEMMA SetBack ==
  ASSUME NEW c, Sound(c), IsText(c), NEW d, Sound(d)
  PROVE  SetCurrent(d, CString(c)).buf = c.buf
<1> DEFINE s == CString(c)
<1>1. s \in Seq(Chars) /\ Len(s) = c.len /\ \A i \in 1..Len(s) : s[i] = c.buf[i - 1]
  BY CStringIs, TextOfLine
<1>2. /\ c.len \in Nat /\ BufMax \in Nat /\ c.len \in 0..BufMax - 1 /\ c.len < BufMax
      /\ c.buf \in [0..BufMax - 1 -> Bytes] /\ \A i \in 0..BufMax - 1 : i >= c.len => c.buf[i] = Zero
  BY SoundFields
<1>3. Lower(Len(s), BufMax - 1) = c.len
  BY <1>1, <1>2 DEF Lower
<1>4. SetCurrent(d, s).buf = [i \in 0..BufMax - 1 |-> IF i < c.len THEN s[i + 1] ELSE Zero]
  BY <1>3 DEF SetCurrent, Sound, Line
<1> HIDE DEF s
<1>5. ASSUME NEW i \in 0..BufMax - 1
      PROVE  (IF i < c.len THEN s[i + 1] ELSE Zero) = c.buf[i]
  <2>1. CASE i < c.len
    <3>1. i + 1 \in 1..Len(s) /\ i + 1 - 1 = i
      BY <1>1, <1>2, <2>1
    <3>2. s[i + 1] = c.buf[i + 1 - 1]
      BY <1>1, <3>1
    <3>3. QED
      BY <2>1, <3>1, <3>2
  <2>2. CASE ~(i < c.len)
    BY <1>2, <2>2
  <2>3. QED
    BY <2>1, <2>2
<1>6. SetCurrent(d, s).buf = c.buf
  BY <1>2, <1>4, <1>5
<1>7. QED
  BY <1>6 DEF s

(* A step to another entry shows it, and leaves the text of the line behind. *)
LEMMA NavigatedIs ==
  ASSUME NEW h \in Histories, NEW index \in 0..Len(h) - 1, NEW c, Sound(c), NEW dir \in {1, -1},
         Navigated(h, index, c, dir).index # index
  PROVE  /\ index + dir \in 0..Len(h) - 1 /\ Len(h) > 1
         /\ Navigated(h, index, c, dir) =
              [history |-> [h EXCEPT ![Len(h) - index] = CString(c)], index |-> index + dir,
               line |-> SetCurrent(c, h[Len(h) - (index + dir)])]
<1> DEFINE n == index + dir
           i == IF n < 0 THEN 0 ELSE Lower(n, Len(h) - 1)
           saved == SaveShown(h, index, c)
           moved == IF i = n THEN SetCurrent(c, saved[Len(h) - i]) ELSE c
<1>1. Len(h) \in Nat /\ n \in Int /\ index \in Nat /\ h \in Seq(Entry)
  BY HistoriesIs
<1>2. Navigated(h, index, c, dir) = IF Len(h) <= 1 THEN [history |-> h, index |-> index, line |-> c]
                                    ELSE [history |-> saved, index |-> i, line |-> moved]
  BY DEF Navigated
<1> HIDE DEF saved, moved, i
<1>3. Len(h) > 1 /\ Navigated(h, index, c, dir) = [history |-> saved, index |-> i, line |-> moved]
      /\ i # index
  <2>1. ~(Len(h) <= 1)
    BY <1>2
  <2>2. Navigated(h, index, c, dir) = [history |-> saved, index |-> i, line |-> moved]
    BY <1>2, <2>1
  <2>3. i # index
    BY <2>2
  <2>4. QED
    BY <1>1, <2>1, <2>2, <2>3
<1>4. i = n /\ n \in 0..Len(h) - 1 /\ n # index
  <2>1. (n < 0 => i = 0) /\ (~(n < 0) => i = Lower(n, Len(h) - 1))
    BY DEF i
  <2>2. ~(n < 0)
    BY <1>1, <1>3, <2>1
  <2>3. n <= Len(h) - 1
    BY <1>1, <1>3, <2>1, <2>2 DEF Lower
  <2>4. QED
    BY <1>1, <1>3, <2>1, <2>2, <2>3 DEF Lower
<1>5. saved = [h EXCEPT ![Len(h) - index] = CString(c)]
  BY DEF saved, SaveShown
<1>6. saved[Len(h) - n] = h[Len(h) - n]
  <2>1. Len(h) - n \in 1..Len(h) /\ Len(h) - n # Len(h) - index
    BY <1>1, <1>4
  <2>2. DOMAIN h = 1..Len(h)
    BY <1>1, LenProperties
  <2>3. QED
    BY <1>5, <2>1, <2>2
<1>7. moved = SetCurrent(c, h[Len(h) - n])
  BY <1>4, <1>6 DEF moved
<1>8. QED
  BY <1>3, <1>4, <1>5, <1>7

(* The entry that is stepped to fits the line, by the invariant: were it cut, the
   cut text would be left in its place. *)
THEOREM BrowsingIsHarmless == Spec => []BrowsingKeepsLine
<1>1. ASSUME IInv, mode = "edit", IsText(current), NEW dir \in {1, -1}, NEW away,
             away = Navigated(history, history_index, current, dir), away.index # history_index,
             NEW back, back = Navigated(away.history, away.index, away.line, -dir)
      PROVE  back.index = history_index /\ back.line.buf = current.buf
  <2>1. /\ history \in Histories /\ history_index \in 0..Len(history) - 1 /\ Sound(current)
        /\ history # <<>>
    BY <1>1 DEF IInv, HistoryPart, LinePart, ModePart, Editing
  <2>2. PICK m \in Nat : m = Len(history) /\ history \in Seq(Entry)
    BY <2>1, HistoriesIs
  <2>3. PICK n \in 0..m - 1 : n = history_index + dir /\ n # history_index
    <3>1. Navigated(history, history_index, current, dir).index # history_index
      BY <1>1
    <3>2. history_index + dir \in 0..Len(history) - 1
      BY <2>1, <3>1, NavigatedIs
    <3>3. history_index + dir # history_index
      BY <2>1, <2>2
    <3>4. QED
      BY <2>2, <3>2, <3>3
  <2>4. /\ away.history = [history EXCEPT ![m - history_index] = CString(current)]
        /\ away.index = n /\ away.line = SetCurrent(current, history[m - n])
    <3>1. away = [history |-> [history EXCEPT ![m - history_index] = CString(current)],
                  index |-> n, line |-> SetCurrent(current, history[m - n])]
      BY <1>1, <2>1, <2>2, <2>3, NavigatedIs
    <3>2. QED
      BY <3>1
  <2>5. PICK h \in Histories : h = away.history /\ Len(h) = m /\ h # <<>>
    <3>1. /\ Navigated(history, history_index, current, dir).history \in Histories
          /\ Len(Navigated(history, history_index, current, dir).history) = Len(history)
      <4>1. dir \in Int
        OBVIOUS
      <4>2. QED
        BY <2>1, <4>1, NavigatedKeeps
    <3>2. history # <<>> /\ Len(history) \in Nat \ {0}
      BY <2>1, <2>2, EmptySeq
    <3>3. PICK h \in Histories : h = Navigated(history, history_index, current, dir).history
                                 /\ Len(h) = m
      BY <2>2, <3>1
    <3>4. h # <<>>
      BY <2>2, <3>2, <3>3, EmptySeq
    <3>5. QED
      BY <1>1, <3>3, <3>4
  <2>6. PICK line \in Seq(Chars) : line = history[m - n] /\ Len(line) < BufMax
    <3>1. m - n \in 1..Len(history)
      BY <2>2
    <3>2. QED
      BY <2>2, <3>1, ElementOfSeq, EntryIs
  <2>7. PICK d : d = away.line /\ Sound(d)
    BY <2>1, <2>4, <2>6, SetCurrentSound
  <2>8. PICK e \in {1, -1} : e = -dir
    OBVIOUS
  <2>9. back = Navigated(h, n, d, e)
    BY <1>1, <2>4, <2>5, <2>7, <2>8
  <2>10. n + e = history_index /\ history_index \in 0..m - 1 /\ m > 1
    BY <2>1, <2>2, <2>3, <2>8
  <2>11. back = [history |-> SaveShown(h, n, d), index |-> history_index,
                 line |-> SetCurrent(d, SaveShown(h, n, d)[m - history_index])]
    <3>1. (IF n + e < 0 THEN 0 ELSE Lower(n + e, m - 1)) = history_index /\ ~(m <= 1)
      BY <2>2, <2>10 DEF Lower
    <3>2. QED
      BY <2>5, <2>9, <2>10, <3>1 DEF Navigated
  <2>12. SaveShown(h, n, d)[m - history_index] = CString(current)
    <3>1. m - history_index # m - n /\ m - history_index \in 1..m /\ m - n \in 1..m
      BY <2>1, <2>2, <2>3, <2>10
    <3>2. DOMAIN h = 1..m /\ DOMAIN history = 1..m
      BY <2>2, <2>5, LenProperties, HistoriesIs
    <3>3. SaveShown(h, n, d)[m - history_index] = h[m - history_index]
      BY <2>5, <3>1, <3>2 DEF SaveShown
    <3>4. QED
      BY <2>4, <2>5, <3>1, <3>2, <3>3
  <2>13. SetCurrent(d, CString(current)).buf = current.buf
    BY <1>1, <2>1, <2>7, SetBack
  <2>14. QED
    BY <2>11, <2>12, <2>13
<1>2. IInv => BrowsingKeepsLine
  BY <1>1 DEF BrowsingKeepsLine
<1>3. QED
  BY <1>2, Invariant, PTL

(***************************************************************************)
(* The file gives back the lines                                           *)
(***************************************************************************)

PrefixOf(s, t) == Len(s) <= Len(t) /\ \A i \in 1..Len(s) : t[i] = s[i]

(* The encoding of a line begins with the encodings of its prefixes. *)
LEMMA EncodedPrefix ==
  ASSUME NEW line \in Seq(Chars), NEW out, Encodes(out, line), NEW k \in 0..Len(line)
  PROVE  PrefixOf(out[k], Encode(line))
<1> DEFINE L == Len(line)
           S == {m \in 0..L : \A j \in 0..m : PrefixOf(out[j], out[m])}
<1>1. L \in Nat
  BY LenProperties
<1>2. /\ out \in [0..L -> Seq(Chars)] /\ \A m \in 1..L : out[m] = out[m - 1] \o Escaped(line[m])
      /\ Encode(line) = out[L]
  BY DEF Encodes
<1> HIDE DEF L
<1>3. \A m \in 0..L : Len(out[m]) \in Nat
  BY <1>2, LenProperties
<1>4. 0 \in S
  <2>1. PrefixOf(out[0], out[0])
    BY <1>1, <1>3 DEF PrefixOf
  <2>2. QED
    BY <1>1, <2>1
<1>5. ASSUME NEW m \in 1..L, m - 1 \in S PROVE m \in S
  <2>1. PICK a \in Seq(Chars), b \in Seq(Chars) : a = out[m - 1] /\ b = Escaped(line[m])
    <3>1. line[m] \in Chars
      BY ElementOfSeq DEF L
    <3>2. m - 1 \in 0..L
      BY <1>1
    <3>3. QED
      BY <1>2, <3>1, <3>2, EscapedIs
  <2>2. out[m] = a \o b /\ Len(a) \in Nat /\ Len(b) \in Nat
    BY <1>2, <2>1, LenProperties
  <2>3. Len(out[m]) = Len(a) + Len(b) /\ \A i \in 1..Len(a) : out[m][i] = a[i]
    <3>1. Len(a \o b) = Len(a) + Len(b) /\ \A i \in 1..Len(a) + Len(b) :
            (a \o b)[i] = IF i <= Len(a) THEN a[i] ELSE b[i - Len(a)]
      BY ConcatProperties
    <3>2. QED
      BY <2>2, <3>1
  <2>4. ASSUME NEW j \in 0..m PROVE PrefixOf(out[j], out[m])
    <3>1. CASE j = m
      BY <1>1, <1>3, <3>1 DEF PrefixOf
    <3>2. CASE j # m
      <4>1. j \in 0..m - 1 /\ j \in 0..L
        BY <1>1, <3>2
      <4>2. PrefixOf(out[j], a) /\ Len(out[j]) \in Nat
        BY <1>3, <1>5, <2>1, <4>1
      <4>3. QED
        BY <2>2, <2>3, <4>2 DEF PrefixOf
    <3>3. QED
      BY <3>1, <3>2
  <2>5. QED
    BY <1>1, <2>4
<1>6. L \in S
  <2> HIDE DEF S
  <2>1. \A m \in 0..L : m \in S
    BY <1>1, <1>4, <1>5, PrefixInduction
  <2>2. QED
    BY <1>1, <2>1
<1>7. QED
  BY <1>2, <1>6 DEF L

(* The decoding loop takes the encoding of a character for the character. *)
LEMMA DecodeEscaped ==
  ASSUME NEW text \in Seq(Chars), NEW ch \in Chars, NEW s, s = [escaped |-> FALSE, text |-> text]
  PROVE  LET read == [escaped |-> FALSE, text |-> Append(text, ch)]
             e == Escaped(ch)
         IN  /\ Len(e) = 1 => DecodeChar(s, e[1]) = read
             /\ Len(e) = 2 => DecodeChar(DecodeChar(s, e[1]), e[2]) = read
<1>1. CASE ch \notin {"\\", "nl", "cr"}
  <2>1. Escaped(ch) = <<ch>>
    BY <1>1, EscapedIs
  <2>2. DecodeChar(s, ch) = [escaped |-> FALSE, text |-> Append(text, ch)]
    BY <1>1 DEF DecodeChar
  <2>3. QED
    BY <2>1, <2>2
<1>2. ASSUME NEW x, DecodeChar([escaped |-> TRUE, text |-> text], x) =
                      [escaped |-> FALSE, text |-> Append(text, ch)],
             Escaped(ch) = <<"\\", x>>
      PROVE  DecodeChar(DecodeChar(s, Escaped(ch)[1]), Escaped(ch)[2])
               = [escaped |-> FALSE, text |-> Append(text, ch)] /\ Len(Escaped(ch)) = 2
  <2>1. DecodeChar(s, "\\") = [escaped |-> TRUE, text |-> text]
    BY DEF DecodeChar
  <2>2. Escaped(ch)[1] = "\\" /\ Escaped(ch)[2] = x /\ Len(Escaped(ch)) = 2
    BY <1>2
  <2>3. QED
    BY <1>2, <2>1, <2>2
<1>3. CASE ch = "\\"
  <2>1. Escaped(ch) = <<"\\", "\\">>
    BY <1>3, EscapedIs
  <2>2. DecodeChar([escaped |-> TRUE, text |-> text], "\\") = [escaped |-> FALSE, text |-> Append(text, ch)]
    BY <1>3 DEF DecodeChar
  <2>3. /\ DecodeChar(DecodeChar(s, Escaped(ch)[1]), Escaped(ch)[2])
             = [escaped |-> FALSE, text |-> Append(text, ch)]
        /\ Len(Escaped(ch)) = 2
    BY <1>2, <2>1, <2>2, Zenon
  <2>4. QED
    BY <2>3
<1>4. CASE ch = "nl"
  <2>1. Escaped(ch) = <<"\\", "n">>
    BY <1>4, EscapedIs
  <2>2. DecodeChar([escaped |-> TRUE, text |-> text], "n") = [escaped |-> FALSE, text |-> Append(text, ch)]
    BY <1>4 DEF DecodeChar
  <2>3. /\ DecodeChar(DecodeChar(s, Escaped(ch)[1]), Escaped(ch)[2])
             = [escaped |-> FALSE, text |-> Append(text, ch)]
        /\ Len(Escaped(ch)) = 2
    BY <1>2, <2>1, <2>2, Zenon
  <2>4. QED
    BY <2>3
<1>5. CASE ch = "cr"
  <2>1. Escaped(ch) = <<"\\", "r">>
    BY <1>5, EscapedIs
  <2>2. DecodeChar([escaped |-> TRUE, text |-> text], "r") = [escaped |-> FALSE, text |-> Append(text, ch)]
    BY <1>5 DEF DecodeChar
  <2>3. /\ DecodeChar(DecodeChar(s, Escaped(ch)[1]), Escaped(ch)[2])
             = [escaped |-> FALSE, text |-> Append(text, ch)]
        /\ Len(Escaped(ch)) = 2
    BY <1>2, <2>1, <2>2, Zenon
  <2>4. QED
    BY <2>3
<1>6. QED
  BY <1>1, <1>3, <1>4, <1>5

LEMMA PrefixGrows ==
  ASSUME NEW line \in Seq(Chars), NEW k \in 1..Len(line)
  PROVE  /\ SubSeq(line, 1, k - 1) \in Seq(Chars) /\ line[k] \in Chars
         /\ SubSeq(line, 1, k) = Append(SubSeq(line, 1, k - 1), line[k])
<1>1. Len(line) \in Nat /\ line[k] \in Chars /\ \A i \in 1..Len(line) : line[i] \in Chars
  BY ElementOfSeq, LenProperties
<1>2. PICK n \in Nat : n = k - 1
  BY <1>1
<1>3. /\ SubSeq(line, 1, n) \in Seq(Chars)
      /\ Len(SubSeq(line, 1, n)) = IF 1 <= n THEN n - 1 + 1 ELSE 0
      /\ \A i \in 1..n - 1 + 1 : SubSeq(line, 1, n)[i] = line[1 + i - 1]
  <2>1. \A i \in 1..n : line[i] \in Chars
    BY <1>1, <1>2
  <2>2. QED
    BY <2>1, SubSeqProperties
<1>4. /\ SubSeq(line, 1, k) \in Seq(Chars)
      /\ Len(SubSeq(line, 1, k)) = IF 1 <= k THEN k - 1 + 1 ELSE 0
      /\ \A i \in 1..k - 1 + 1 : SubSeq(line, 1, k)[i] = line[1 + i - 1]
  <2>1. \A i \in 1..k : line[i] \in Chars
    BY <1>1
  <2>2. k \in Int
    BY <1>1
  <2>3. QED
    BY <2>1, <2>2, SubSeqProperties
<1>5. PICK a \in Seq(Chars) : a = SubSeq(line, 1, n) /\ Len(a) = n /\ \A i \in 1..n : a[i] = line[i]
  <2>1. n - 1 + 1 = n /\ \A i \in 1..n : 1 + i - 1 = i
    BY <1>1
  <2>2. Len(SubSeq(line, 1, n)) = n
    BY <1>1, <1>3
  <2>3. \A i \in 1..n : SubSeq(line, 1, n)[i] = line[i]
    BY <1>3, <2>1
  <2>4. QED
    BY <1>3, <2>2, <2>3
<1>6. PICK b \in Seq(Chars) : b = SubSeq(line, 1, k) /\ Len(b) = k /\ \A i \in 1..k : b[i] = line[i]
  <2>1. k - 1 + 1 = k /\ \A i \in 1..k : 1 + i - 1 = i
    BY <1>1
  <2>2. Len(SubSeq(line, 1, k)) = k
    BY <1>1, <1>4
  <2>3. \A i \in 1..k : SubSeq(line, 1, k)[i] = line[i]
    BY <1>4, <2>1
  <2>4. QED
    BY <1>4, <2>2, <2>3
<1>7. /\ Append(a, line[k]) \in Seq(Chars) /\ Len(Append(a, line[k])) = n + 1
      /\ \A i \in 1..n : Append(a, line[k])[i] = a[i]
      /\ Append(a, line[k])[n + 1] = line[k]
  BY <1>1, <1>5, AppendProperties
<1>8. \A i \in 1..k : b[i] = Append(a, line[k])[i]
  <2>1. \A i \in 1..k : i \in 1..n \/ i = n + 1
    BY <1>1, <1>2
  <2>2. n + 1 = k
    BY <1>1, <1>2
  <2>3. QED
    BY <1>5, <1>6, <1>7, <2>1, <2>2
<1>9. b = Append(a, line[k])
  BY <1>1, <1>2, <1>6, <1>7, <1>8, SeqEqual
<1>10. QED
  BY <1>1, <1>2, <1>5, <1>6, <1>9

(* linenoiseHistoryLoad decodes what linenoiseHistorySave encodes. *)
THEOREM DecodesEncoded ==
  ASSUME NEW line \in Seq(Chars)
  PROVE  Decode(Append(Encode(line), "nl")) = line
<1> DEFINE L == Len(line)
           P == Append(Encode(line), "nl")
           E == Len(Encode(line))
<1>1. L \in Nat /\ P \in Seq(Chars) /\ Len(P) = E + 1 /\ E \in Nat /\ P[E + 1] = "nl"
      /\ \A i \in 1..E : P[i] = Encode(line)[i]
  BY LenProperties, EncodedTyped
<1>2. PICK out : Encodes(out, line)
  BY EncodeIs
<1>3. /\ out \in [0..L -> Seq(Chars)] /\ \A m \in 1..L : out[m] = out[m - 1] \o Escaped(line[m])
      /\ Encode(line) = out[L] /\ out[0] = <<>>
  BY <1>2 DEF Encodes
<1>4. PICK state : Decodes(state, P)
  BY <1>1, DecodeIs
<1>5. ASSUME NEW k \in 0..L
      PROVE  Len(out[k]) \in 0..E /\ \A i \in 1..Len(out[k]) : P[i] = out[k][i] /\ i \in 1..E
  <2>1. PrefixOf(out[k], Encode(line)) /\ Len(out[k]) \in Nat
    BY <1>2, <1>3, EncodedPrefix, LenProperties
  <2>2. QED
    BY <1>1, <2>1 DEF PrefixOf
<1> HIDE DEF L, P, E
<1> DEFINE Read(k) == [escaped |-> FALSE, text |-> SubSeq(line, 1, k)]
           S == {k \in 0..L : state[Len(out[k])] = Read(k)}
<1>6. 0 \in S
  <2>1. Len(out[0]) = 0 /\ SubSeq(line, 1, 0) = <<>>
    BY <1>3, EmptySeq, SubSeqEmpty
  <2>2. state[0] = [escaped |-> FALSE, text |-> <<>>]
    BY <1>4 DEF Decodes
  <2>3. state[Len(out[0])] = Read(0)
    BY <2>1, <2>2
  <2> HIDE DEF Read
  <2>4. QED
    BY <1>1, <2>3
<1>7. ASSUME NEW k \in 1..L, k - 1 \in S PROVE k \in S
  <2>1. k \in 0..L /\ k - 1 \in 0..L
    BY <1>1
  <2>2. PICK m \in 0..E : m = Len(out[k - 1]) /\ state[m] = Read(k - 1)
    BY <1>5, <1>7, <2>1
  <2>3. /\ SubSeq(line, 1, k - 1) \in Seq(Chars) /\ line[k] \in Chars
        /\ Read(k) = [escaped |-> FALSE, text |-> Append(SubSeq(line, 1, k - 1), line[k])]
    BY PrefixGrows DEF L
  <2>4. PICK e \in Seq(Chars) : e = Escaped(line[k]) /\ Len(e) \in {1, 2}
    BY <2>3, EscapedIs
  <2>5. /\ Len(out[k]) = m + Len(e)
        /\ \A i \in 1..Len(e) : out[k][m + i] = e[i]
    <3>1. PICK a \in Seq(Chars) : a = out[k - 1] /\ Len(a) = m
      BY <1>3, <2>1, <2>2
    <3>2. out[k] = a \o e
      BY <1>3, <2>4, <3>1
    <3>3. /\ Len(a \o e) = Len(a) + Len(e)
          /\ \A i \in 1..Len(a) + Len(e) : (a \o e)[i] = IF i <= Len(a) THEN a[i] ELSE e[i - Len(a)]
      BY ConcatProperties
    <3>4. \A i \in 1..Len(e) : /\ m + i \in 1..m + Len(e) /\ ~(m + i <= m) /\ m + i - m = i
      BY <1>1, <2>4
    <3>5. Len(out[k]) = m + Len(e)
      BY <3>1, <3>2, <3>3
    <3>6. ASSUME NEW i \in 1..Len(e) PROVE out[k][m + i] = e[i]
      <4>1. PICK j : j = m + i
        OBVIOUS
      <4>2. j \in 1..Len(a) + Len(e) /\ ~(j <= Len(a)) /\ j - Len(a) = i
        BY <3>1, <3>4, <4>1
      <4>3. (a \o e)[j] = e[j - Len(a)]
        BY <3>3, <4>2
      <4>4. QED
        BY <3>2, <4>1, <4>2, <4>3
    <3>7. QED
      BY <3>5, <3>6
  <2>6. \A i \in 1..Len(e) : P[m + i] = e[i] /\ m + i \in 1..E
    <3>1. \A i \in 1..Len(e) : m + i \in 1..Len(out[k])
      BY <1>1, <2>4, <2>5
    <3>2. QED
      BY <1>5, <2>1, <2>5, <3>1
  <2>7. \A i \in 1..E : state[i] = DecodeChar(state[i - 1], P[i])
    BY <1>1, <1>4 DEF Decodes
  <2>8. /\ Len(e) = 1 => DecodeChar(Read(k - 1), e[1]) = Read(k)
        /\ Len(e) = 2 => DecodeChar(DecodeChar(Read(k - 1), e[1]), e[2]) = Read(k)
    <3>1. PICK text, ch, s : /\ text \in Seq(Chars) /\ text = SubSeq(line, 1, k - 1)
                             /\ ch \in Chars /\ ch = line[k]
                             /\ s = [escaped |-> FALSE, text |-> text]
      BY <2>3
    <3>2. LET read == [escaped |-> FALSE, text |-> Append(text, ch)]
              ee == Escaped(ch)
          IN  /\ Len(ee) = 1 => DecodeChar(s, ee[1]) = read
              /\ Len(ee) = 2 => DecodeChar(DecodeChar(s, ee[1]), ee[2]) = read
      BY <3>1, DecodeEscaped
    <3>3. s = Read(k - 1) /\ Read(k) = [escaped |-> FALSE, text |-> Append(text, ch)] /\ e = Escaped(ch)
      BY <2>3, <2>4, <3>1
    <3> HIDE DEF Read
    <3>4. QED
      BY <3>2, <3>3
  <2> HIDE DEF Read
  <2>9. CASE Len(e) = 1
    <3>1. 1 \in 1..Len(e) /\ m + 1 - 1 = m
      BY <1>1, <2>9
    <3>2. state[m + 1] = DecodeChar(state[m], e[1])
      BY <2>6, <2>7, <3>1
    <3>3. state[Len(out[k])] = Read(k)
      BY <2>2, <2>5, <2>8, <2>9, <3>2
    <3>4. QED
      BY <2>1, <3>3
  <2>10. CASE Len(e) = 2
    <3>1. 1 \in 1..Len(e) /\ 2 \in 1..Len(e) /\ m + 1 - 1 = m /\ m + 2 - 1 = m + 1
      BY <1>1, <2>10
    <3>2. state[m + 1] = DecodeChar(state[m], e[1]) /\ state[m + 2] = DecodeChar(state[m + 1], e[2])
      BY <2>6, <2>7, <3>1
    <3>3. state[Len(out[k])] = Read(k)
      BY <2>2, <2>5, <2>8, <2>10, <3>2
    <3>4. QED
      BY <2>1, <3>3
  <2>11. QED
    BY <2>4, <2>9, <2>10
<1>8. L \in S
  <2> HIDE DEF S
  <2>1. \A k \in 0..L : k \in S
    BY <1>1, <1>6, <1>7, PrefixInduction
  <2>2. QED
    BY <1>1, <2>1
<1>9. state[E] = [escaped |-> FALSE, text |-> line]
  <2>1. SubSeq(line, 1, L) = line
    <3>1. \A i \in 1..L : line[i] \in Chars
      BY ElementOfSeq DEF L
    <3>2. /\ SubSeq(line, 1, L) \in Seq(Chars)
          /\ Len(SubSeq(line, 1, L)) = IF 1 <= L THEN L - 1 + 1 ELSE 0
          /\ \A i \in 1..L - 1 + 1 : SubSeq(line, 1, L)[i] = line[1 + i - 1]
      BY <1>1, <3>1, SubSeqProperties
    <3>3. Len(SubSeq(line, 1, L)) = Len(line) /\ \A i \in 1..Len(line) : SubSeq(line, 1, L)[i] = line[i]
      BY <1>1, <3>2 DEF L
    <3>4. QED
      BY <3>2, <3>3, SeqEqual
  <2>2. Len(out[L]) = E
    BY <1>3 DEF E
  <2>3. QED
    BY <1>8, <2>1, <2>2
<1>10. "nl" \in Chars
  BY LineEditorAssumption
<1>11. PICK end : end = Append(line, "nl") /\ end \in Seq(Chars) /\ end # <<>>
                  /\ Len(end) = Len(line) + 1 /\ end[Len(line) + 1] = "nl"
                  /\ \A i \in 1..Len(line) : end[i] = line[i]
  <2>1. PICK nl \in Chars : nl = "nl"
    BY <1>10
  <2>2. /\ Append(line, nl) \in Seq(Chars) /\ Append(line, nl) # <<>>
        /\ Len(Append(line, nl)) = Len(line) + 1 /\ Append(line, nl)[Len(line) + 1] = nl
        /\ \A i \in 1..Len(line) : Append(line, nl)[i] = line[i]
    BY AppendProperties
  <2>3. QED
    BY <2>1, <2>2, Zenon
<1>12. state[E + 1] = [escaped |-> FALSE, text |-> end]
  <2>1. E + 1 \in 1..Len(P) /\ E + 1 - 1 = E
    BY <1>1
  <2>2. state[E + 1] = DecodeChar(state[E], "nl")
    BY <1>1, <1>4, <2>1 DEF Decodes
  <2>3. DecodeChar([escaped |-> FALSE, text |-> line], "nl") = [escaped |-> FALSE, text |-> Append(line, "nl")]
    BY DEF DecodeChar
  <2>4. QED
    BY <1>9, <1>11, <2>2, <2>3, Zenon
<1>13. Last(end) = "nl" /\ Front(end) = line
  <2>1. /\ Front(end) \in Seq(Chars) /\ Len(Front(end)) = Len(end) - 1
        /\ \A i \in 1..Len(end) - 1 : Front(end)[i] = end[i]
        /\ Last(end) = end[Len(end)]
    BY <1>11, FrontIs
  <2>2. Len(line) \in Nat
    BY LenProperties
  <2>3. Len(Front(end)) = Len(line) /\ \A i \in 1..Len(line) : Front(end)[i] = line[i]
    BY <1>11, <2>1, <2>2
  <2>4. Front(end) = line
    BY <2>1, <2>2, <2>3, SeqEqual
  <2>5. QED
    BY <1>11, <2>1, <2>4
<1>14. Decode(P) = DecodedText(state[E + 1])
  BY <1>1, <1>4 DEF Decodes
<1>15. QED
  BY <1>11, <1>12, <1>13, <1>14 DEF DecodedText, P

(* A saved line that fits the buffer is loaded as it was. *)
LEMMA LoadFits ==
  ASSUME NEW h \in Histories, NEW line \in Seq(Chars), Len(Encode(line)) < BufMax - 1
  PROVE  LoadLine(h, line) = HistoryAdd(h, line)
<1>1. PICK P \in Seq(Chars) : /\ P = Append(Encode(line), "nl") /\ P # <<>>
                              /\ Len(P) = Len(Encode(line)) + 1
  BY EncodedTyped
<1>2. Len(P) < BufMax
  BY <1>1, EncodedTyped, LineBufferAssumption
<1>3. Pieces(P) = <<P>>
  BY <1>1, <1>2, OnePiece
<1>4. PICK got : LoadsPieces(got, h, line)
  BY LoadLineIs
<1>5. Len(<<P>>) = 1 /\ <<P>>[1] = P /\ 1 \in 1..1 /\ 1 - 1 = 0
  OBVIOUS
<1>6. got[0] = h /\ LoadLine(h, line) = got[Len(Pieces(P))]
      /\ \A k \in 1..Len(Pieces(P)) : got[k] = HistoryAdd(got[k - 1], Decode(Pieces(P)[k]))
  BY <1>1, <1>4 DEF LoadsPieces
<1>7. Decode(P) = line
  BY <1>1, DecodesEncoded
<1>8. LoadLine(h, line) = got[1]
  BY <1>3, <1>5, <1>6
<1>9. got[1] = HistoryAdd(got[1 - 1], Decode(Pieces(P)[1]))
  BY <1>3, <1>5, <1>6
<1>10. QED
  BY <1>3, <1>5, <1>6, <1>7, <1>8, <1>9

(* kept has the prefixes of h without repeats. *)
KeepsLines(kept, h) ==
  /\ kept \in [0..Len(h) -> Seq(Entry)] /\ kept[0] = <<>>
  /\ \A k \in 1..Len(h) : kept[k] = IF k > 1 /\ h[k] = h[k - 1] THEN kept[k - 1]
                                    ELSE Append(kept[k - 1], h[k])
  /\ Lines!NoRepeats(h) = kept[Len(h)]

LEMMA NoRepeatsIs ==
  ASSUME NEW h \in Seq(Entry)
  PROVE  \E kept : KeepsLines(kept, h)
<1> DEFINE L == Len(h)
           V == Seq(Entry)
           Next1(a, k) == IF k > 1 /\ h[k] = h[k - 1] THEN a ELSE Append(a, h[k])
           step == [k \in 1..L |-> [a \in V |-> Next1(a, k)]]
           Body(f) == [n \in 0..L |-> IF n = 0 THEN <<>>
                                      ELSE IF n > 1 /\ h[n] = h[n - 1] THEN f[n - 1]
                                      ELSE Append(f[n - 1], h[n])]
<1>1. L \in Nat /\ \A k \in 1..L : h[k] \in Entry
  BY ElementOfSeq, LenProperties
<1>2. Lines!NoRepeats(h) = (CHOOSE g : g = Body(g))[L]
  BY DEF Lines!NoRepeats
<1> HIDE DEF L
<1>3. ASSUME NEW k \in 1..L, NEW a \in V PROVE Next1(a, k) \in V
  BY <1>1, AppendProperties
<1>4. PICK f \in [0..L -> V] : Follows(f, L, <<>>, step)
  <2>1. <<>> \in V
    BY EmptySeq
  <2> HIDE DEF V, Next1
  <2>2. step \in [1..L -> [V -> V]]
    BY <1>3
  <2> HIDE DEF step
  <2>3. QED
    BY <1>1, <2>1, <2>2, PrefixRecursion, Zenon
<1>5. f[0] = <<>> /\ \A k \in 1..L : f[k] = step[k][f[k - 1]]
  BY <1>4 DEF Follows
<1>6. ASSUME NEW k \in 1..L
      PROVE  f[k] = Next1(f[k - 1], k)
  <2>1. f[k - 1] \in V
    BY <1>1, <1>4
  <2>2. f[k] = step[k][f[k - 1]]
    BY <1>5
  <2> HIDE DEF V, Next1
  <2>3. QED
    BY <2>1, <2>2
<1>7. (CHOOSE g : g = Body(g)) = f
  <2>1. f = Body(f)
    <3>1. f = [k \in 0..L |-> f[k]]
      BY <1>4
    <3>2. ASSUME NEW k \in 0..L PROVE f[k] = Body(f)[k]
      <4>1. k = 0 \/ k \in 1..L
        BY <1>1
      <4>2. QED
        BY <1>1, <1>5, <1>6, <4>1
    <3>3. QED
      BY <3>1, <3>2
  <2>2. ASSUME NEW g, g = Body(g) PROVE g = f
    <3>1. g[0] = f[0]
      <4>1. 0 \in 0..L
        BY <1>1
      <4>2. g[0] = <<>>
        BY <2>2, <4>1
      <4>3. QED
        BY <1>5, <4>2
    <3>2. ASSUME NEW k \in 1..L, g[k - 1] = f[k - 1] PROVE g[k] = f[k]
      <4>1. k \in 0..L /\ k # 0
        BY <1>1, <3>2
      <4>2. g[k] = Next1(g[k - 1], k)
        BY <2>2, <4>1
      <4> HIDE DEF Next1
      <4>3. QED
        BY <1>6, <3>2, <4>2
    <3>3. Agree(g, f, L)
      BY <1>1, <3>1, <3>2, PrefixUnique
    <3>4. g = [k \in 0..L |-> g[k]] /\ f = [k \in 0..L |-> f[k]]
      BY <1>4, <2>2
    <3>5. QED
      BY <3>3, <3>4 DEF Agree
  <2> HIDE DEF Body
  <2>3. QED
    BY <2>1, <2>2
<1>8. KeepsLines(f, h)
  BY <1>2, <1>4, <1>5, <1>6, <1>7 DEF KeepsLines, L
<1>9. QED
  BY <1>8

(* The lines of a file that fit the buffer are loaded as they were, and none is
   given up for another: there are no more of them than a history holds. *)
THEOREM LoadsWhatFits ==
  ASSUME NEW lines \in Histories,
         \A i \in 1..Len(lines) : Len(Encode(lines[i])) < BufMax - 1
  PROVE  HistoryLoad(lines) = Lines!NoRepeats(lines)
<1> DEFINE L == Len(lines)
<1>1. lines \in Seq(Entry) /\ L \in Nat /\ L <= HistoryMax /\ HistoryMax \in Nat
  BY HistoriesIs, LineEditorAssumption
<1>2. PICK got : LoadsLines(got, lines)
  BY HistoryLoadIs
<1>3. PICK kept : KeepsLines(kept, lines)
  BY <1>1, NoRepeatsIs
<1> DEFINE S == {k \in 0..L : /\ got[k] = kept[k] /\ Len(got[k]) <= k
                              /\ k > 0 => got[k] # <<>> /\ Last(got[k]) = lines[k]}
<1>4. 0 \in S
  <2>1. got[0] = <<>> /\ kept[0] = <<>> /\ Len(<<>>) = 0
    BY <1>2, <1>3, EmptySeq DEF LoadsLines, KeepsLines
  <2>2. QED
    BY <1>1, <2>1
<1>5. ASSUME NEW k \in 1..L, k - 1 \in S PROVE k \in S
  <2>1. k \in 0..L /\ k - 1 \in 0..L /\ k <= HistoryMax
    BY <1>1
  <2>2. PICK h \in Histories : h = got[k - 1]
    BY <1>2, <2>1 DEF LoadsLines
  <2>3. PICK line \in Entry : line = lines[k]
    BY <1>1, ElementOfSeq
  <2>4. h \in Seq(Entry) /\ Len(h) \in Nat /\ Len(h) <= k - 1
    BY <1>5, <2>2, HistoriesIs
  <2>5. got[k] = HistoryAdd(h, line)
    <3>1. got[k] = LoadLine(h, line)
      BY <1>2, <2>2, <2>3 DEF LoadsLines
    <3>2. Len(Encode(line)) < BufMax - 1
      BY <2>3
    <3>3. QED
      BY <2>3, <3>1, <3>2, EntryIs, LoadFits
  <2>6. kept[k] = IF k > 1 /\ line = lines[k - 1] THEN h ELSE Append(h, line)
    BY <1>3, <1>5, <2>2, <2>3 DEF KeepsLines
  <2>7. HistoryAdd(h, line) = IF h # <<>> /\ Last(h) = line THEN h ELSE Append(h, line)
    <3>1. Len(h) # HistoryMax
      BY <1>1, <2>1, <2>4
    <3>2. QED
      BY <3>1 DEF HistoryAdd
  <2>8. (h # <<>> /\ Last(h) = line) <=> (k > 1 /\ line = lines[k - 1])
    <3>1. CASE k = 1
      <4>1. got[0] = <<>>
        BY <1>2 DEF LoadsLines
      <4>2. QED
        BY <2>2, <3>1, <4>1
    <3>2. CASE k # 1
      <4>1. k > 1 /\ k - 1 > 0
        BY <1>1, <3>2
      <4>2. h # <<>> /\ Last(h) = lines[k - 1]
        BY <1>5, <2>2, <4>1
      <4>3. QED
        BY <4>1, <4>2
    <3>3. QED
      BY <3>1, <3>2
  <2>9. got[k] = kept[k]
    BY <2>5, <2>6, <2>7, <2>8
  <2>10. Len(got[k]) <= k /\ got[k] # <<>> /\ Last(got[k]) = line
    <3>1. CASE h # <<>> /\ Last(h) = line
      BY <1>1, <2>4, <2>5, <2>7, <3>1
    <3>2. CASE ~(h # <<>> /\ Last(h) = line)
      <4>1. got[k] = Append(h, line)
        BY <2>5, <2>7, <3>2
      <4>2. /\ Append(h, line) # <<>> /\ Len(Append(h, line)) = Len(h) + 1
            /\ Append(h, line)[Len(h) + 1] = line
        BY <2>4, AppendProperties
      <4>3. Last(Append(h, line)) = line
        BY <4>2 DEF Last
      <4>4. QED
        BY <1>1, <2>4, <4>1, <4>2, <4>3
    <3>3. QED
      BY <3>1, <3>2
  <2>11. QED
    BY <2>1, <2>3, <2>9, <2>10
<1>6. L \in S
  <2> HIDE DEF S
  <2>1. \A k \in 0..L : k \in S
    <3> HIDE DEF L
    <3>1. QED
      BY <1>1, <1>4, <1>5, PrefixInduction
  <2>2. QED
    BY <1>1, <2>1
<1>7. HistoryLoad(lines) = got[L] /\ Lines!NoRepeats(lines) = kept[L]
  BY <1>2, <1>3 DEF LoadsLines, KeepsLines
<1>8. QED
  BY <1>6, <1>7

(* What jcut-history.txt gives back after any session. *)
THEOREM HistoryReadsBack == Spec => []SavedHistoryReadsBack
<1>1. IInv => SavedHistoryReadsBack
  BY LoadsWhatFits DEF IInv, HistoryPart, SavedHistoryReadsBack, LinesFit
<1>2. QED
  BY <1>1, Invariant, PTL

(***************************************************************************)
(* The history as its user sees it                                         *)
(***************************************************************************)

(* A step is one that LineHistory allows. *)
Allowed == [Lines!Next]_<<Remembered, file>>

LEMMA StutterAllowed ==
  ASSUME Remembered' = Remembered, file' = file
  PROVE  Allowed
BY DEF Allowed

LEMMA EditedAllowed ==
  ASSUME Editing, NEW d, Edited(d)
  PROVE  Allowed
<1>1. Remembered' = Remembered /\ file' = file
  BY DEF Edited, Editing, Remembered
<1>2. QED
  BY <1>1, StutterAllowed

LEMMA CloseAllowed ==
  ASSUME Close
  PROVE  Allowed
<1>1. Remembered' = <<>> /\ file' = file
  BY DEF Close, Remembered
<1>2. Lines!Leave
  BY <1>1 DEF Lines!Leave
<1>3. QED
  BY <1>2 DEF Allowed, Lines!Next

(* A line that comes back becomes the last one, unless it repeats it. *)
LEMMA ReturnedAllowed ==
  ASSUME NEW line \in Entry, NEW h \in Histories, Remembered = h, Returned(h, line)
  PROVE  Allowed
<1>1. CASE line = <<>>
  <2>1. Remembered' = Remembered /\ file' = file
    BY <1>1 DEF Returned, Remembered
  <2>2. QED
    BY <2>1, StutterAllowed
<1>2. CASE line # <<>>
  <2>1. PICK g : g = HistoryAdd(h, line)
    OBVIOUS
  <2>2. Remembered' = g /\ file' = g
    BY <1>2, <2>1 DEF Returned, Remembered
  <2>3. h \in Seq(Entry) /\ Len(h) \in Nat /\ Len(h) <= HistoryMax
    BY HistoriesIs
  <2>4. g # <<>> /\ g[Len(g)] = line
    BY <2>1, <2>3, HistoryAddIs
  <2>5. g # h => g = Append(IF Len(h) = HistoryMax THEN Tail(h) ELSE h, line)
    BY <2>1 DEF HistoryAdd
  <2>7. Lines!Enter
    <3>1. Lines!Last(g) = line
      BY <2>4 DEF Lines!Last
    <3>2. Remembered' # <<>> /\ file' = Remembered'
      BY <2>2, <2>4
    <3>3. Remembered' # Remembered =>
            Remembered' = Append(IF Len(Remembered) = HistoryMax THEN Tail(Remembered) ELSE Remembered,
                                 Lines!Last(Remembered'))
      BY <2>2, <2>5, <3>1
    <3>4. QED
      BY <3>2, <3>3 DEF Lines!Enter
  <2>8. QED
    BY <2>7 DEF Allowed, Lines!Next
<1>3. QED
  BY <1>1, <1>2

LEMMA FrontOfAppend ==
  ASSUME NEW h \in Seq(Entry), NEW line \in Entry
  PROVE  Front(Append(h, line)) = h
<1>1. PICK g \in Seq(Entry) : /\ g = Append(h, line) /\ g # <<>> /\ Len(g) = Len(h) + 1
                              /\ \A i \in 1..Len(h) : g[i] = h[i]
  <2>1. /\ Append(h, line) \in Seq(Entry) /\ Append(h, line) # <<>>
        /\ Len(Append(h, line)) = Len(h) + 1 /\ \A i \in 1..Len(h) : Append(h, line)[i] = h[i]
    BY AppendProperties
  <2>2. QED
    BY <2>1, Zenon
<1>2. Len(h) \in Nat
  BY LenProperties
<1>3. /\ Front(g) \in Seq(Entry) /\ Len(Front(g)) = Len(g) - 1
      /\ \A i \in 1..Len(g) - 1 : Front(g)[i] = g[i]
  BY <1>1, FrontIs
<1>4. Len(Front(g)) = Len(h) /\ \A i \in 1..Len(h) : Front(g)[i] = h[i]
  BY <1>1, <1>2, <1>3
<1>5. Front(g) = h
  BY <1>3, <1>4, SeqEqual
<1>6. QED
  BY <1>1, <1>5

(* The scratch entry takes the place of an empty last line, or that of the oldest
   line of a full history. *)
LEMMA PromptAllowed ==
  ASSUME IInv, Prompt
  PROVE  Allowed
<1>1. history \in Seq(Entry) /\ Len(history) \in Nat /\ Len(history) <= HistoryMax
  BY HistoriesIs DEF IInv, HistoryPart
<1>2. /\ Remembered = history /\ Remembered' = Front(HistoryAdd(history, <<>>)) /\ file' = file
  BY DEF Prompt, Remembered
<1>3. PICK empty \in Entry : empty = <<>>
  <2>1. <<>> \in Seq(Chars) /\ Len(<<>>) < BufMax
    BY EmptySeq, LineBufferAssumption
  <2>2. <<>> \in Entry
    BY <2>1 DEF Entry
  <2>3. QED
    BY <2>2, Zenon
<1>4. CASE history # <<>> /\ Last(history) = <<>>
  <2>1. HistoryAdd(history, <<>>) = history
    BY <1>4 DEF HistoryAdd
  <2>2. Lines!DropEmpty
    BY <1>2, <1>4, <2>1 DEF Lines!DropEmpty, Lines!Last, Lines!Front, Last, Front
  <2>3. QED
    BY <2>2 DEF Allowed, Lines!Next
<1>5. CASE ~(history # <<>> /\ Last(history) = <<>>) /\ Len(history) = HistoryMax
  <2>1. HistoryAdd(history, <<>>) = Append(Tail(history), <<>>)
    BY <1>5 DEF HistoryAdd
  <2>2. history # <<>>
    <3>1. HistoryMax \in Nat \ {0}
      BY LineEditorAssumption
    <3>2. QED
      BY <1>5, <3>1, EmptySeq
  <2>3. Tail(history) \in Seq(Entry)
    BY <1>1, <2>2, HeadTailProperties
  <2>4. Remembered' = Tail(history)
    BY <1>2, <1>3, <2>1, <2>3, FrontOfAppend
  <2>5. Lines!Forget
    BY <1>2, <1>5, <2>4 DEF Lines!Forget
  <2>6. QED
    BY <2>5 DEF Allowed, Lines!Next
<1>6. CASE ~(history # <<>> /\ Last(history) = <<>>) /\ Len(history) # HistoryMax
  <2>1. HistoryAdd(history, <<>>) = Append(history, <<>>)
    BY <1>6 DEF HistoryAdd
  <2>2. Remembered' = history
    BY <1>1, <1>2, <1>3, <2>1, FrontOfAppend
  <2>3. QED
    BY <1>2, <2>2, StutterAllowed
<1>7. QED
  BY <1>4, <1>5, <1>6

(* Browsing writes the line into the entry that was shown, and into no other. *)
LEMMA NavigateAllowed ==
  ASSUME IInv, Editing, NEW k, NEW c, Sound(c), Navigate(k, c)
  PROVE  Allowed
<1>1. history \in Histories /\ history # <<>> /\ history_index \in 0..Len(history) - 1
  BY DEF IInv, HistoryPart, ModePart
<1>2. PICK m \in Nat : m = Len(history)
  BY <1>1, HistoriesIs
<1>3. PICK dir \in Int : /\ history' = Navigated(history, history_index, c, dir).history
                         /\ mode' = "edit" /\ file' = file
  BY <1>1, <1>2 DEF Navigate
<1>4. PICK h \in Histories : /\ h = Navigated(history, history_index, c, dir).history /\ Len(h) = m
                             /\ \A i \in 1..m \ {m - history_index} : h[i] = history[i]
  <2>1. LET moved == Navigated(history, history_index, c, dir)
        IN  /\ moved.history \in Histories /\ Len(moved.history) = Len(history)
            /\ \A i \in 1..Len(history) \ {Len(history) - history_index} : moved.history[i] = history[i]
    BY <1>1, NavigatedKeeps
  <2>2. PICK g : g = Navigated(history, history_index, c, dir).history
    OBVIOUS
  <2>3. QED
    BY <1>2, <2>1, <2>2
<1>5. /\ Remembered = Front(history) /\ Remembered' = Front(h)
  BY <1>3, <1>4 DEF Remembered, Editing
<1>6. h # <<>> /\ h \in Seq(Entry) /\ history \in Seq(Entry) /\ m # 0
  <2>1. Len(history) # 0
    BY <1>1, HistoriesIs, EmptySeq
  <2>2. QED
    BY <1>1, <1>2, <1>4, <2>1, HistoriesIs, EmptySeq
<1>7. /\ Front(history) \in Seq(Entry) /\ Len(Front(history)) = m - 1
      /\ \A i \in 1..m - 1 : Front(history)[i] = history[i]
  BY <1>1, <1>2, <1>6, FrontIs
<1>8. /\ Front(h) \in Seq(Entry) /\ Len(Front(h)) = m - 1
      /\ \A i \in 1..m - 1 : Front(h)[i] = h[i]
  <2>1. Len(h) = m
    BY <1>4
  <2>2. /\ Front(h) \in Seq(Entry) /\ Len(Front(h)) = Len(h) - 1
        /\ \A i \in 1..Len(h) - 1 : Front(h)[i] = h[i]
    BY <1>6, FrontIs
  <2>3. QED
    BY <2>1, <2>2
<1>9. \A i \in 1..m - 1 : i # m - history_index => Front(h)[i] = Front(history)[i]
  BY <1>4, <1>7, <1>8
<1>10. CASE history_index = 0
  <2>1. \A i \in 1..m - 1 : i # m - history_index
    BY <1>10
  <2>2. Front(h) = Front(history)
    BY <1>7, <1>8, <1>9, <2>1, SeqEqual
  <2>3. QED
    BY <1>3, <1>5, <2>2, StutterAllowed
<1>11. CASE history_index # 0
  <2>1. PICK j \in 1..m - 1 : j = m - history_index
    <3>1. history_index \in 1..m - 1
      BY <1>1, <1>2, <1>11
    <3>2. m - history_index \in 1..m - 1
      BY <3>1
    <3>3. QED
      BY <3>2, Zenon
  <2>2. Lines!Rewrite(j)
    BY <1>3, <1>5, <1>7, <1>8, <1>9, <2>1 DEF Lines!Rewrite
  <2>3. j \in 1..Len(Remembered)
    BY <1>5, <1>7
  <2>4. QED
    BY <2>2, <2>3 DEF Allowed, Lines!Next
<1>12. QED
  BY <1>10, <1>11

LEMMA ProcessCharAllowed ==
  ASSUME IInv, Editing, NEW k, NEW c, Sound(c), ProcessChar(k, c)
  PROVE  Allowed
<1>1. CASE Enter(k, c)
  <2>1. Front(history) \in Histories
    BY PoppedKeeps DEF IInv, HistoryPart, ModePart
  <2>2. CString(c) \in Entry
    BY CStringEntry
  <2>3. Remembered = Front(history)
    BY DEF Remembered, Editing
  <2>4. Returned(Front(history), CString(c))
    BY <1>1 DEF Enter, ScratchPopped
  <2>5. QED
    BY <2>1, <2>2, <2>3, <2>4, ReturnedAllowed
<1>2. CASE Interrupt(k) \/ EndOfFile(k, c)
  BY <1>2, CloseAllowed DEF Interrupt, EndOfFile
<1>3. CASE \E d : Edited(d)
  BY <1>3, EditedAllowed
<1>4. CASE Navigate(k, c)
  BY <1>4, NavigateAllowed
<1>5. CASE Quote(k, c) \/ StartSearch(k, c)
  <2>1. Remembered' = Remembered /\ file' = file
    BY <1>5 DEF Quote, StartSearch, Editing, Remembered
  <2>2. QED
    BY <2>1, StutterAllowed
<1>6. QED
  <2> USE <1>3
  <2>1. CASE Backspace(k, c) \/ Delete(k, c)
    BY <2>1 DEF Backspace, Delete
  <2>2. CASE KillWord(k, c) \/ KillToStart(k, c) \/ KillToEnd(k, c) \/ Yank(k, c)
    BY <2>2 DEF KillWord, KillToStart, KillToEnd, Yank
  <2>3. CASE Transpose(k, c) \/ TypeChar(k, c) \/ Ignore(k, c)
    BY <2>3 DEF Transpose, TypeChar, Ignore
  <2>4. CASE Move(k, c)
    BY <2>4 DEF Move
  <2>5. QED
    BY <1>1, <1>2, <1>4, <1>5, <2>1, <2>2, <2>3, <2>4 DEF ProcessChar

(* Only a new process reads the file. *)
LEMMA RestartAllowed ==
  ASSUME IInv, LinesFit, Restart
  PROVE  Allowed
<1>1. Remembered = <<>> /\ Remembered' = HistoryLoad(file) /\ file' = file
  BY DEF IInv, ModePart, Restart, Remembered
<1>2. HistoryLoad(file) = Lines!NoRepeats(file)
  BY LoadsWhatFits DEF IInv, HistoryPart, LinesFit
<1>3. Lines!Restart
  BY <1>1, <1>2 DEF Lines!Restart
<1>4. QED
  BY <1>3 DEF Allowed, Lines!Next

LEMMA OthersAllowed ==
  ASSUME IInv, keys \cap {"late", "eof"} = {},
         \/ PlainLine \/ Exit \/ EditKey \/ LeaveCompletion \/ QuotedChar \/ SearchKey
         \/ StartCompletion \/ NextCompletion \/ StopSearch \/ LeaveSearch \/ ReadFails
  PROVE  Allowed
<1>1. CASE PlainLine
  <2>1. PICK line \in BoundedSeq(Typed, Lower(MaxPlain, BufMax - 1)) : Returned(history, line)
    BY <1>1 DEF PlainLine
  <2>2. line \in Entry
    BY <2>1, PlainEntry
  <2>3. history \in Histories /\ Remembered = history
    BY <1>1 DEF IInv, HistoryPart, PlainLine, Remembered
  <2>4. QED
    BY <2>1, <2>2, <2>3, ReturnedAllowed
<1>2. CASE Exit
  BY <1>2, CloseAllowed DEF Exit
<1>3. ASSUME Editing, NEW k, ProcessChar(k, current) PROVE Allowed
  BY <1>3, ProcessCharAllowed DEF IInv, LinePart
<1>4. CASE EditKey
  BY <1>3, <1>4 DEF EditKey, Editing
<1>5. CASE LeaveCompletion
  <2>1. Editing
    BY <1>5 DEF LeaveCompletion, Editing
  <2>2. PICK k, c : Sound(c) /\ ProcessChar(k, c)
    BY <1>5, LeftWith
  <2>3. QED
    BY <2>1, <2>2, ProcessCharAllowed
<1>6. CASE QuotedChar \/ StopSearch
  <2>1. Editing /\ \E d : Edited(d)
    BY <1>6 DEF QuotedChar, StopSearch, Editing
  <2>2. QED
    BY <2>1, EditedAllowed
<1>7. CASE (SearchKey /\ ~Close) \/ StartCompletion \/ NextCompletion
  <2>1. Remembered' = Remembered /\ file' = file
    <3>1. CASE SearchKey /\ ~Close
      <4>1. mode = "search" /\ UNCHANGED <<mode, history, file>>
        BY <1>7, <3>1 DEF SearchKey, SearchChar, Search, vars
      <4>2. QED
        BY <4>1 DEF Remembered
    <3>2. CASE StartCompletion \/ NextCompletion
      BY <3>2 DEF StartCompletion, NextCompletion, Remembered
    <3>3. QED
      BY <1>7, <3>1, <3>2
  <2>2. QED
    BY <2>1, StutterAllowed
<1>8. CASE LeaveSearch
  <2>1. Editing
    BY <1>8 DEF LeaveSearch, Editing
  <2>2. \E k : ProcessChar(k, current)
    <3>1. "late" \notin keys
      OBVIOUS
    <3>2. QED
      BY <1>8, <3>1 DEF LeaveSearch
  <2>3. QED
    BY <1>3, <2>1, <2>2
<1>9. CASE ReadFails
  BY <1>9 DEF ReadFails
<1>10. CASE Close
  BY <1>10, CloseAllowed
<1>11. QED
  BY <1>1, <1>2, <1>4, <1>5, <1>6, <1>7, <1>8, <1>9, <1>10

(* Whatever the user does, every step is one of LineHistory, but for keys that
   come late and reads that fail. *)
THEOREM HistoryIsKept == Spec => KeepsHistory
<1>1. ASSUME IInv, [Next]_vars, keys \cap {"late", "eof"} = {}, LinesFit
      PROVE  Allowed
  <2>1. CASE Next
    BY <1>1, <2>1, PromptAllowed, RestartAllowed, OthersAllowed DEF Next
  <2>2. CASE UNCHANGED vars
    <3>1. Remembered' = Remembered /\ file' = file
      BY <2>2 DEF vars, Remembered
    <3>2. QED
      BY <3>1, StutterAllowed
  <2>3. QED
    BY <1>1, <2>1, <2>2
<1>2. IInv /\ [Next]_vars =>
        [keys \cap {"late", "eof"} = {} /\ LinesFit => [Lines!Next]_<<Remembered, file>>]_vars
  BY <1>1 DEF Allowed
<1>3. QED
  BY <1>2, Invariant, PTL DEF Spec, KeepsHistory
=============================================================================
