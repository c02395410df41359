-------------------------- MODULE SessionStreamProofs --------------------------
(***************************************************************************)
(* The stream of the selected session: what it shows is what the Runtime   *)
(* streams (StreamIsInStep), and no words leave the transcript (RowsStay). *)
(*                                                                         *)
(* The argument.  The events that wait in the wire of the current stream   *)
(* have consecutive numbers and each follows from the one before it        *)
(* (IsChain).  They go on from a point (q, t): the first is not beyond     *)
(* q + 1, the one numbered q left t being streamed (GoesOn), and while     *)
(* the connection is open they end at what is streamed now (LeadsTo).      *)
(* Before the snapshot is answered that point is the present, then the     *)
(* snapshot, then the last event applied: connecting, answering, applying  *)
(* and losing the rest of the wire each keep it.  The other half is that   *)
(* only the row of the message being streamed has its id (ViewOK).         *)
(*                                                                         *)
(* The rows are folds over sequences, which the first part makes available *)
(* to induction: a set of natural numbers has a least element (WFMin), so  *)
(* a set with 0 and every successor has them all.                          *)
(***************************************************************************)
EXTENDS SessionStream, SequenceTheorems, WellFoundedInduction, TLAPS

------------------------------------------------------------------------------
(* Induction, and what a fold is *)

Smaller == OpToRel(<, Nat)

LEMMA SmallerIs == \A m, n \in Nat : <<m, n>> \in Smaller <=> m < n
BY DEF Smaller, OpToRel

\* A set of numbers has a least one.
LEMMA LeastExists ==
  ASSUME NEW S \in SUBSET Nat, S # {}
  PROVE  \E n \in S : \A m \in S : n <= m
<1>1. IsWellFoundedOn(Smaller, Nat) BY NatLessThanWellFounded DEF Smaller
<1>2. \E n \in S : \A m \in S : ~(<<m, n>> \in Smaller) BY <1>1, WFMin
<1>3. \A m, n \in S : ~(<<m, n>> \in Smaller) => n <= m BY SmallerIs
<1> QED BY <1>2, <1>3

\* Induction, over a set in place of a predicate
LEMMA Inductive ==
  ASSUME NEW S, 0 \in S, \A n \in Nat : n \in S => n + 1 \in S
  PROVE  Nat \subseteq S
<1> SUFFICES ASSUME Nat \ S # {} PROVE FALSE OBVIOUS
<1>1. PICK n \in Nat \ S : \A m \in Nat \ S : n <= m BY LeastExists
<1>2. n # 0 /\ n - 1 \in Nat /\ n - 1 \notin Nat \ S BY <1>1
<1> QED BY <1>2

LEMMA MaxOfUpTo ==
  ASSUME NEW n \in Nat, NEW z \in SUBSET (1 .. n + 1), n + 1 \in z
  PROVE  Max(z) = n + 1
<1>1. \A y \in z : n + 1 >= y OBVIOUS
<1>2. ASSUME NEW x \in z, \A y \in z : x >= y PROVE x = n + 1 BY <1>2
<1> QED BY <1>1, <1>2 DEF Max

LEMMA MaxIsThere ==
  ASSUME NEW n \in Nat, NEW z \in SUBSET (1 .. n), z # {}
  PROVE  Max(z) \in z /\ \A y \in z : y <= Max(z)
<1> DEFINE below == {n - y : y \in z}
<1>1. PICK b \in below : \A c \in below : b <= c
  <2>1. \A y \in z : n - y \in Nat OBVIOUS
  <2>2. below \in SUBSET Nat /\ below # {} BY <2>1
  <2> HIDE DEF below
  <2> QED BY <2>2, LeastExists
<1>2. PICK x \in z : b = n - x BY <1>1
<1>3. \A y \in z : x >= y
  <2> SUFFICES ASSUME NEW y \in z PROVE x >= y OBVIOUS
  <2>1. n - y \in below OBVIOUS
  <2>2. n - x <= n - y BY <1>1, <1>2, <2>1
  <2> QED BY <2>2
<1> QED BY <1>3 DEF Max

\* What FoldLeft computes is there: a value for each set of the indices.
FoldOf(g, n, base, step) ==
  \A z \in SUBSET (1 .. n) : g[z] = IF z = {} THEN base ELSE step[<<g[z \ {Max(z)}], Max(z)>>]

LEMMA FoldExists ==
  ASSUME NEW S, NEW base \in S, NEW n \in Nat, NEW step \in [S \X (1 .. n) -> S]
  PROVE  \E g \in [SUBSET (1 .. n) -> S] : FoldOf(g, n, base, step)
<1> DEFINE Exists(m) == m <= n => \E g \in [SUBSET (1 .. m) -> S] : FoldOf(g, m, base, step)
<1> DEFINE Done == {m \in Nat : Exists(m)}
<1>1. Exists(0)
  <2> DEFINE g == [z \in SUBSET (1 .. 0) |-> base]
  <2>1. g \in [SUBSET (1 .. 0) -> S] OBVIOUS
  <2>2. \A z \in SUBSET (1 .. 0) : z = {} OBVIOUS
  <2>3. FoldOf(g, 0, base, step) BY <2>2 DEF FoldOf
  <2> QED BY <2>1, <2>3
<1>2. ASSUME NEW m \in Nat, Exists(m) PROVE Exists(m + 1)
  <2> SUFFICES ASSUME m + 1 <= n PROVE \E g \in [SUBSET (1 .. m + 1) -> S] : FoldOf(g, m + 1, base, step)
    OBVIOUS
  <2>1. PICK g \in [SUBSET (1 .. m) -> S] : FoldOf(g, m, base, step)
    <3>1. m <= n OBVIOUS
    <3> QED BY <1>2, <3>1
  <2> DEFINE h == [z \in SUBSET (1 .. m + 1) |->
                     IF m + 1 \in z THEN step[<<g[z \ {m + 1}], m + 1>>] ELSE g[z]]
  <2>2. ASSUME NEW z \in SUBSET (1 .. m + 1)
        PROVE  /\ z \ {m + 1} \in SUBSET (1 .. m)
               /\ m + 1 \notin z => z \in SUBSET (1 .. m)
    OBVIOUS
  <2>3. h \in [SUBSET (1 .. m + 1) -> S]
    <3>1. ASSUME NEW z \in SUBSET (1 .. m + 1) PROVE h[z] \in S
      <4>1. g[z \ {m + 1}] \in S BY <2>2
      <4>2. m + 1 \in 1 .. n OBVIOUS
      <4>3. step[<<g[z \ {m + 1}], m + 1>>] \in S BY <4>1, <4>2
      <4>4. m + 1 \notin z => g[z] \in S BY <2>2
      <4> QED BY <4>3, <4>4
    <3> QED BY <3>1
  <2>4. ASSUME NEW z \in SUBSET (1 .. m + 1)
        PROVE  h[z] = IF z = {} THEN base ELSE step[<<h[z \ {Max(z)}], Max(z)>>]
    <3>1. CASE m + 1 \in z
      <4>1. Max(z) = m + 1 BY <3>1, MaxOfUpTo
      <4>2. h[z \ {m + 1}] = g[z \ {m + 1}] BY <2>2
      <4>3. h[z] = step[<<g[z \ {m + 1}], m + 1>>] BY <3>1
      <4> QED BY <3>1, <4>1, <4>2, <4>3
    <3>2. CASE m + 1 \notin z
      <4>1. z \in SUBSET (1 .. m) BY <2>2, <3>2
      <4>2. g[z] = IF z = {} THEN base ELSE step[<<g[z \ {Max(z)}], Max(z)>>] BY <4>1, <2>1 DEF FoldOf
      <4>3. h[z] = g[z] BY <3>2
      <4>4. h[z \ {Max(z)}] = g[z \ {Max(z)}] BY <3>2
      <4> HIDE DEF h
      <4> QED BY <4>2, <4>3, <4>4
    <3> QED BY <3>1, <3>2
  <2>5. FoldOf(h, m + 1, base, step)
    <3> HIDE DEF h
    <3> QED BY <2>4 DEF FoldOf
  <2> QED BY <2>3, <2>5
<1>3. n \in Done
  <2> HIDE DEF Exists
  <2>1. 0 \in Done /\ \A m \in Nat : m \in Done => m + 1 \in Done BY <1>1, <1>2
  <2> HIDE DEF Done
  <2> QED BY <2>1, Inductive
<1>4. Exists(n)
  <2> HIDE DEF Exists
  <2> QED BY <1>3
<1>5. n <= n OBVIOUS
<1> QED BY <1>4, <1>5

\* The prefixes of a sequence are the sets that FoldLeft comes along.
LEMMA AlongPrefixes ==
  ASSUME NEW n \in Nat, NEW i \in 1 .. n
  PROVE  1 .. i \in SUBSET (1 .. n) /\ 1 .. i # {} /\ Max(1 .. i) = i /\ (1 .. i) \ {i} = 1 .. i - 1
<1>1. i - 1 \in Nat /\ 1 .. i \in SUBSET (1 .. (i - 1) + 1) /\ (i - 1) + 1 \in 1 .. i OBVIOUS
<1>2. Max(1 .. i) = (i - 1) + 1 BY <1>1, MaxOfUpTo
<1>3. (1 .. i) \ {i} = 1 .. i - 1 OBVIOUS
<1>4. i \in 1 .. i /\ 1 .. i \in SUBSET (1 .. n) OBVIOUS
<1> QED BY <1>2, <1>3, <1>4

------------------------------------------------------------------------------
(* The rows *)

Rows == Seq(Row)
Kept(row, m) == row.id = "own" \/ row.id # m.id
Drops(f, rows, m) ==
  f = [z \in SUBSET (DOMAIN rows) |->
         IF z = {} THEN <<>>
         ELSE IF Kept(rows[Max(z)], m) THEN Append(f[z \ {Max(z)}], rows[Max(z)]) ELSE f[z \ {Max(z)}]]

\* Without is the value of some function that computes it.
LEMMA WithoutIsFold ==
  ASSUME NEW rows \in Rows, NEW m
  PROVE  \E f : Drops(f, rows, m) /\ Without(rows, m) = f[1 .. Len(rows)]
<1> DEFINE n == Len(rows)
           step == [p \in Rows \X (1 .. n) |-> IF Kept(rows[p[2]], m) THEN Append(p[1], rows[p[2]]) ELSE p[1]]
<1>1. n \in Nat /\ DOMAIN rows = 1 .. n /\ <<>> \in Rows BY DEF Rows
<1>2. step \in [Rows \X (1 .. n) -> Rows]
  <2>1. ASSUME NEW p \in Rows \X (1 .. n) PROVE p[1] \in Rows /\ Append(p[1], rows[p[2]]) \in Rows
    BY AppendProperties DEF Rows
  <2> QED BY <2>1
<1>3. PICK g \in [SUBSET (1 .. n) -> Rows] : FoldOf(g, n, <<>>, step)
  <2> HIDE DEF n, step
  <2> QED BY <1>1, <1>2, FoldExists
<1>4. ASSUME NEW z \in SUBSET (1 .. n), z # {} PROVE Max(z) \in 1 .. n /\ g[z \ {Max(z)}] \in Rows
  <2>1. Max(z) \in 1 .. n
    <3> HIDE DEF n
    <3> QED BY <1>1, <1>4, MaxIsThere
  <2> QED BY <1>3, <2>1
<1>5. Drops(g, rows, m)
  <2>1. ASSUME NEW z \in SUBSET (1 .. n)
        PROVE  g[z] = IF z = {} THEN <<>>
                      ELSE IF Kept(rows[Max(z)], m) THEN Append(g[z \ {Max(z)}], rows[Max(z)]) ELSE g[z \ {Max(z)}]
    <3>1. g[z] = IF z = {} THEN <<>> ELSE step[<<g[z \ {Max(z)}], Max(z)>>]
      <4> HIDE DEF step
      <4> QED BY <1>3 DEF FoldOf
    <3> QED BY <3>1, <1>4
  <2> HIDE DEF n, step
  <2> QED BY <2>1, <1>1 DEF Drops
<1>6. Without(rows, m) = (CHOOSE f : Drops(f, rows, m))[DOMAIN rows]
  BY DEF Without, FoldLeft, MapThenFoldSet, Drops, Kept
<1> QED BY <1>1, <1>5, <1>6

\* What is dropped and what stays
LEMMA WithoutKeeps ==
  ASSUME NEW rows \in Rows, NEW m
  PROVE  /\ Without(rows, m) \in Rows
         /\ \A i \in DOMAIN rows : Kept(rows[i], m) => \E j \in DOMAIN Without(rows, m) : Without(rows, m)[j] = rows[i]
         /\ \A j \in DOMAIN Without(rows, m) : Kept(Without(rows, m)[j], m) /\ \E i \in DOMAIN rows : Without(rows, m)[j] = rows[i]
<1> DEFINE n == Len(rows)
<1>1. n \in Nat /\ DOMAIN rows = 1 .. n /\ <<>> \in Rows BY DEF Rows
<1>2. PICK f : Drops(f, rows, m) /\ Without(rows, m) = f[1 .. n] BY WithoutIsFold
<1> DEFINE Faithful(kept, i) ==
             /\ kept \in Rows
             /\ \A k \in 1 .. i : Kept(rows[k], m) => \E j \in DOMAIN kept : kept[j] = rows[k]
             /\ \A j \in DOMAIN kept : Kept(kept[j], m) /\ \E k \in 1 .. i : kept[j] = rows[k]
           So(i) == i <= n => Faithful(f[1 .. i], i)
           All == {i \in Nat : So(i)}
<1> HIDE DEF n
<1>3. f[1 .. 0] = <<>>
  <2>1. 1 .. 0 = {} /\ 1 .. 0 \in SUBSET (1 .. n) OBVIOUS
  <2> QED BY <1>1, <1>2, <2>1 DEF Drops
<1>4. So(0) BY <1>1, <1>3
<1>5. ASSUME NEW i \in Nat, So(i) PROVE So(i + 1)
  <2> SUFFICES ASSUME i + 1 <= n PROVE Faithful(f[1 .. i + 1], i + 1) OBVIOUS
  <2>1. i + 1 \in 1 .. n /\ i <= n /\ (i + 1) - 1 = i BY <1>1
  <2>2. /\ 1 .. i + 1 \in SUBSET (1 .. n) /\ 1 .. i + 1 # {}
        /\ Max(1 .. i + 1) = i + 1 /\ (1 .. i + 1) \ {i + 1} = 1 .. i
    BY <2>1, <1>1, AlongPrefixes
  <2>3. f[1 .. i + 1] = IF Kept(rows[i + 1], m) THEN Append(f[1 .. i], rows[i + 1]) ELSE f[1 .. i]
    BY <1>1, <1>2, <2>2 DEF Drops
  <2>4. Faithful(f[1 .. i], i) BY <1>5, <2>1
  <2>5. rows[i + 1] \in Row BY <1>1, <2>1 DEF Rows
  <2>6. CASE Kept(rows[i + 1], m)
    <3> DEFINE kept == f[1 .. i]  new == Append(kept, rows[i + 1])
    <3>1. /\ new \in Rows /\ DOMAIN new = 1 .. Len(kept) + 1 /\ DOMAIN kept = 1 .. Len(kept) /\ Len(kept) \in Nat
          /\ new[Len(kept) + 1] = rows[i + 1] /\ \A j \in 1 .. Len(kept) : new[j] = kept[j]
      BY <2>4, <2>5 DEF Rows
    <3>2. f[1 .. i + 1] = new BY <2>3, <2>6
    <3>3. Faithful(new, i + 1)
      <4> HIDE DEF new, kept
      <4>1. ASSUME NEW k \in 1 .. i + 1, Kept(rows[k], m) PROVE \E j \in DOMAIN new : new[j] = rows[k]
        <5>1. CASE k = i + 1 BY <3>1, <5>1
        <5>2. CASE k \in 1 .. i
          <6>1. PICK j \in DOMAIN kept : kept[j] = rows[k] BY <2>4, <4>1, <5>2 DEF kept
          <6> QED BY <3>1, <6>1
        <5> QED BY <5>1, <5>2
      <4>2. ASSUME NEW j \in DOMAIN new PROVE Kept(new[j], m) /\ \E k \in 1 .. i + 1 : new[j] = rows[k]
        <5>1. CASE j = Len(kept) + 1 BY <3>1, <2>6, <5>1
        <5>2. CASE j \in 1 .. Len(kept)
          <6>1. new[j] = kept[j] /\ j \in DOMAIN kept BY <3>1, <5>2
          <6>2. Kept(kept[j], m) /\ \E k \in 1 .. i : kept[j] = rows[k] BY <2>4, <6>1 DEF kept
          <6> QED BY <6>1, <6>2
        <5> QED BY <3>1, <5>1, <5>2
      <4> QED BY <3>1, <4>1, <4>2
    <3> QED BY <3>2, <3>3
  <2>7. CASE ~Kept(rows[i + 1], m)
    <3>1. f[1 .. i + 1] = f[1 .. i] BY <2>3, <2>7
    <3>2. \A k \in 1 .. i + 1 : Kept(rows[k], m) => k \in 1 .. i BY <2>7
    <3> QED BY <3>1, <3>2, <2>4
  <2> QED BY <2>6, <2>7
<1>6. n \in All
  <2> HIDE DEF So
  <2>1. 0 \in All /\ \A i \in Nat : i \in All => i + 1 \in All BY <1>4, <1>5
  <2> HIDE DEF All
  <2> QED BY <1>1, <2>1, Inductive
<1>7. Faithful(f[1 .. n], n) BY <1>1, <1>6
<1> QED BY <1>1, <1>2, <1>7

Shows(rows, text) == \E i \in DOMAIN rows : rows[i].text = text
Says(rows, text) == \E i \in DOMAIN rows : Words(rows[i].text) = Words(text)
Merges(f, page) ==
  f = [z \in SUBSET (DOMAIN transcript) |->
         IF z = {} THEN OnlyLoaded(page)
         ELSE IF Says(f[z \ {Max(z)}], transcript[Max(z)].text) THEN f[z \ {Max(z)}]
              ELSE Append(f[z \ {Max(z)}], transcript[Max(z)])]

Texts == Seq(Text \ {<<>>})

LEMMA LoadedRows ==
  ASSUME NEW page \in Texts
  PROVE  OnlyLoaded(page) \in Rows /\ \A j \in DOMAIN OnlyLoaded(page) : OnlyLoaded(page)[j].id = "own"
<1> DEFINE r(i) == [id |-> "own", text |-> page[i]]
<1>1. ASSUME NEW i \in DOMAIN page PROVE r(i) \in Row
  <2>1. page[i] \in Text \ {<<>>} BY DEF Texts
  <2> QED BY <2>1 DEF Row
<1>2. Len(page) \in Nat /\ DOMAIN page = 1 .. Len(page) BY DEF Texts
<1>3. OnlyLoaded(page) = [i \in 1 .. Len(page) |-> r(i)] BY <1>2 DEF OnlyLoaded
<1> HIDE DEF r
<1>4. OnlyLoaded(page) \in Rows BY <1>1, <1>2, <1>3 DEF Rows
<1>5. \A j \in DOMAIN OnlyLoaded(page) : OnlyLoaded(page)[j] = r(j) BY <1>2, <1>3
<1> QED BY <1>4, <1>5 DEF r

LEMMA MergedIsFold ==
  ASSUME transcript \in Rows, NEW page \in Texts
  PROVE  \E f : Merges(f, page) /\ Merged(page) = f[1 .. Len(transcript)]
<1> DEFINE n == Len(transcript)
           step == [p \in Rows \X (1 .. n) |-> IF Says(p[1], transcript[p[2]].text) THEN p[1] ELSE Append(p[1], transcript[p[2]])]
<1>1. n \in Nat /\ DOMAIN transcript = 1 .. n /\ OnlyLoaded(page) \in Rows BY LoadedRows DEF Rows
<1>2. step \in [Rows \X (1 .. n) -> Rows]
  <2>1. ASSUME NEW p \in Rows \X (1 .. n) PROVE p[1] \in Rows /\ Append(p[1], transcript[p[2]]) \in Rows
    BY AppendProperties DEF Rows
  <2> QED BY <2>1
<1>3. PICK g \in [SUBSET (1 .. n) -> Rows] : FoldOf(g, n, OnlyLoaded(page), step)
  <2> HIDE DEF n, step
  <2> QED BY <1>1, <1>2, FoldExists
<1>4. ASSUME NEW z \in SUBSET (1 .. n), z # {} PROVE Max(z) \in 1 .. n /\ g[z \ {Max(z)}] \in Rows
  <2>1. Max(z) \in 1 .. n
    <3> HIDE DEF n
    <3> QED BY <1>1, <1>4, MaxIsThere
  <2> QED BY <1>3, <2>1
<1>5. Merges(g, page)
  <2>1. ASSUME NEW z \in SUBSET (1 .. n)
        PROVE  g[z] = IF z = {} THEN OnlyLoaded(page)
                      ELSE IF Says(g[z \ {Max(z)}], transcript[Max(z)].text) THEN g[z \ {Max(z)}]
                           ELSE Append(g[z \ {Max(z)}], transcript[Max(z)])
    <3>1. g[z] = IF z = {} THEN OnlyLoaded(page) ELSE step[<<g[z \ {Max(z)}], Max(z)>>]
      <4> HIDE DEF step
      <4> QED BY <1>3 DEF FoldOf
    <3> QED BY <3>1, <1>4
  <2> HIDE DEF n, step
  <2> QED BY <2>1, <1>1 DEF Merges
<1>6. Merged(page) = (CHOOSE f : Merges(f, page))[DOMAIN transcript]
  BY DEF Merged, FoldLeft, MapThenFoldSet, Merges, Says
<1> QED BY <1>1, <1>5, <1>6

\* A merge says everything, and what it adds are rows of the transcript.
LEMMA MergedSays ==
  ASSUME transcript \in Rows, NEW page \in Texts
  PROVE  /\ Merged(page) \in Rows
         /\ \A i \in DOMAIN transcript : Says(Merged(page), transcript[i].text)
         /\ \A j \in DOMAIN Merged(page) : Merged(page)[j].id = "own" \/ \E i \in DOMAIN transcript : Merged(page)[j] = transcript[i]
<1> DEFINE n == Len(transcript)
<1>1. n \in Nat /\ DOMAIN transcript = 1 .. n BY DEF Rows
<1>2. PICK f : Merges(f, page) /\ Merged(page) = f[1 .. n] BY MergedIsFold
<1> DEFINE Faithful(rows, i) ==
             /\ rows \in Rows
             /\ \A k \in 1 .. i : Says(rows, transcript[k].text)
             /\ \A j \in DOMAIN rows : rows[j].id = "own" \/ \E k \in 1 .. i : rows[j] = transcript[k]
           So(i) == i <= n => Faithful(f[1 .. i], i)
           All == {i \in Nat : So(i)}
<1> HIDE DEF n
<1>3. f[1 .. 0] = OnlyLoaded(page)
  <2>1. 1 .. 0 = {} /\ 1 .. 0 \in SUBSET (1 .. n) OBVIOUS
  <2> QED BY <1>1, <1>2, <2>1 DEF Merges
<1>4. So(0) BY <1>1, <1>3, LoadedRows
<1>5. ASSUME NEW i \in Nat, So(i) PROVE So(i + 1)
  <2> SUFFICES ASSUME i + 1 <= n PROVE Faithful(f[1 .. i + 1], i + 1) OBVIOUS
  <2>1. i + 1 \in 1 .. n /\ i <= n /\ (i + 1) - 1 = i BY <1>1
  <2>2. /\ 1 .. i + 1 \in SUBSET (1 .. n) /\ 1 .. i + 1 # {}
        /\ Max(1 .. i + 1) = i + 1 /\ (1 .. i + 1) \ {i + 1} = 1 .. i
    BY <2>1, <1>1, AlongPrefixes
  <2>3. f[1 .. i + 1] = IF Says(f[1 .. i], transcript[i + 1].text) THEN f[1 .. i] ELSE Append(f[1 .. i], transcript[i + 1])
    BY <1>1, <1>2, <2>2 DEF Merges
  <2>4. Faithful(f[1 .. i], i) BY <1>5, <2>1
  <2>5. transcript[i + 1] \in Row BY <1>1, <2>1 DEF Rows
  <2>6. CASE ~Says(f[1 .. i], transcript[i + 1].text)
    <3> DEFINE rows == f[1 .. i]  new == Append(rows, transcript[i + 1])
    <3>1. /\ new \in Rows /\ DOMAIN new = 1 .. Len(rows) + 1 /\ DOMAIN rows = 1 .. Len(rows) /\ Len(rows) \in Nat
          /\ new[Len(rows) + 1] = transcript[i + 1] /\ \A j \in 1 .. Len(rows) : new[j] = rows[j]
      BY <2>4, <2>5 DEF Rows
    <3>2. f[1 .. i + 1] = new BY <2>3, <2>6
    <3>3. Faithful(new, i + 1)
      <4> HIDE DEF new, rows
      <4>1. ASSUME NEW k \in 1 .. i + 1 PROVE Says(new, transcript[k].text)
        <5>1. CASE k = i + 1 BY <3>1, <5>1 DEF Says
        <5>2. CASE k \in 1 .. i
          <6>1. PICK j \in DOMAIN rows : Words(rows[j].text) = Words(transcript[k].text) BY <2>4, <4>1, <5>2 DEF rows, Says
          <6> QED BY <3>1, <6>1 DEF Says
        <5> QED BY <5>1, <5>2
      <4>2. ASSUME NEW j \in DOMAIN new PROVE new[j].id = "own" \/ \E k \in 1 .. i + 1 : new[j] = transcript[k]
        <5>1. CASE j = Len(rows) + 1 BY <3>1, <5>1
        <5>2. CASE j \in 1 .. Len(rows)
          <6>1. new[j] = rows[j] /\ j \in DOMAIN rows BY <3>1, <5>2
          <6>2. rows[j].id = "own" \/ \E k \in 1 .. i : rows[j] = transcript[k] BY <2>4, <6>1 DEF rows
          <6> QED BY <6>1, <6>2
        <5> QED BY <3>1, <5>1, <5>2
      <4> QED BY <3>1, <4>1, <4>2
    <3> QED BY <3>2, <3>3
  <2>7. CASE Says(f[1 .. i], transcript[i + 1].text)
    <3>1. f[1 .. i + 1] = f[1 .. i] BY <2>3, <2>7
    <3>2. \A k \in 1 .. i + 1 : k = i + 1 \/ k \in 1 .. i OBVIOUS
    <3> QED BY <3>1, <3>2, <2>4, <2>7
  <2> QED BY <2>6, <2>7
<1>6. n \in All
  <2> HIDE DEF So
  <2>1. 0 \in All /\ \A i \in Nat : i \in All => i + 1 \in All BY <1>4, <1>5
  <2> HIDE DEF All
  <2> QED BY <1>1, <2>1, Inductive
<1>7. Faithful(f[1 .. n], n) BY <1>1, <1>6
<1> QED BY <1>1, <1>2, <1>7

------------------------------------------------------------------------------
(* The invariant *)

NonEmpty == Text \ {<<>>}

\* What is streamed after e, if t is streamed before it
Follows(t, e) == IF e.kind = "assistant.delta" THEN e.after = t \o e.text ELSE e.after = <<>>

\* The events of a wire are those of the session one after the other.
IsChain(wire) ==
  /\ \A i \in DOMAIN wire : wire[i].seq = wire[1].seq + (i - 1)
  /\ \A i \in DOMAIN wire : i + 1 \in DOMAIN wire => Follows(wire[i].after, wire[i + 1])

\* They go on from the event q, after which t is streamed; earlier ones may come first.
GoesOn(wire, q, t) ==
  /\ wire # <<>> => wire[1].seq <= q + 1
  /\ \A i \in DOMAIN wire : /\ wire[i].seq = q => wire[i].after = t
                            /\ wire[i].seq = q + 1 => Follows(t, wire[i])

\* They lead to what is streamed now, q and t without any.
LeadsTo(wire, q, t, s) ==
  /\ wire = <<>> => q = seq[s] /\ t = partial[s]
  /\ wire # <<>> => wire[Len(wire)].seq = seq[s] /\ wire[Len(wire)].after = partial[s]
  /\ q <= seq[s]

WireOK(x) ==
  /\ x.at = "connecting" => x.wire = <<>> /\ ~x.open
  /\ IsChain(x.wire)
  /\ x.at = "asking" =>
       /\ \A i \in DOMAIN x.wire : /\ x.wire[i].seq <= seq[x.session]
                                   /\ x.wire[i].seq = seq[x.session] => x.wire[i].after = partial[x.session]
       /\ x.open => LeadsTo(x.wire, seq[x.session], partial[x.session], x.session)
  /\ x.at = "answered" =>
       /\ GoesOn(x.wire, x.seq, x.partial)
       /\ x.open => LeadsTo(x.wire, x.seq, x.partial, x.session)
  /\ x.at = "streaming" =>
       /\ GoesOn(x.wire, lastSeq, expected)
       /\ x.open => LeadsTo(x.wire, lastSeq, expected, x.session)

StreamOK(x) ==
  /\ x \in Stream
  /\ \A i \in DOMAIN x.wire : x.wire[i].text # <<>>
  /\ x.current => x.session = selected /\ WireOK(x)

StreamsOK ==
  /\ \A x \in streams : StreamOK(x)
  /\ \A x, y \in streams : x.current /\ y.current => x = y

DaemonOK ==
  /\ history \in [Sessions -> Texts] /\ partial \in [Sessions -> Text]
  /\ begun \in 0 .. MaxMessages /\ pieces \in 0 .. MaxPieces /\ seq \in [Sessions -> Nat]
  /\ \A s \in Sessions : Len(partial[s]) <= pieces

\* The row of the message that is streamed is the only one under its id.
ViewOK ==
  /\ transcript \in Rows /\ live \in Row \cup {<<>>} /\ lastSeq \in Nat /\ expected \in Text
  /\ live # <<>> =>
       /\ live.id # "own"
       /\ \A i \in DOMAIN transcript : transcript[i].id = live.id => transcript[i].text = live.text

Request == [session : Sessions, page : Texts \cup {None}]
LoadsOK == loads \subseteq Request

AppOK ==
  /\ selected \in Sessions \cup {None}
  /\ runtimeState \in {"disconnected", "connecting", "connected", "failed"}
  /\ recovery \in BOOLEAN /\ loadFailed \in BOOLEAN
  /\ opens \in 0 .. MaxOpens /\ faults \in 0 .. MaxFaults

StreamInv == DaemonOK /\ StreamsOK /\ ViewOK /\ LoadsOK /\ AppOK /\ StreamIsInStep

LEMMA RowsAreRecords == \A r \in Row : r # <<>> /\ r.id \in {"own", "streaming-assistant", "snapshot"} /\ r.text \in Text /\ r.text # <<>>
<1> SUFFICES ASSUME NEW r \in Row PROVE r # <<>> /\ r.id \in {"own", "streaming-assistant", "snapshot"} /\ r.text \in Text /\ r.text # <<>>
  OBVIOUS
<1>1. DOMAIN r = {"id", "text"} /\ "id" \in DOMAIN r BY DEF Row
<1>2. DOMAIN <<>> = {} OBVIOUS
<1>3. r # <<>> BY <1>1, <1>2
<1> QED BY <1>3 DEF Row

LEMMA StreamFields ==
  ASSUME NEW x \in Stream
  PROVE  /\ x.current \in BOOLEAN /\ x.session \in Sessions /\ x.open \in BOOLEAN /\ x.wire \in Seq(Event) /\ x.seq \in Nat /\ x.partial \in Text
         /\ x.at \in {"connecting", "asking", "answered", "streaming"}
BY DEF Stream

LEMMA EventFields == \A e \in Event : e.seq \in Nat /\ e.kind \in {"assistant.delta", "message.end"} /\ e.text \in Text /\ e.after \in Text
BY DEF Event

\* What is there of a wire after a part of it was lost: it is a chain that goes on the same way.
LEMMA CutWire ==
  ASSUME NEW wire \in Seq(Event), NEW n \in 0 .. Len(wire)
  PROVE  LET cut == SubSeq(wire, 1, n) IN
         /\ cut \in Seq(Event) /\ Len(cut) = n
         /\ \A i \in DOMAIN cut : i \in DOMAIN wire /\ cut[i] = wire[i]
         /\ IsChain(wire) => IsChain(cut)
         /\ \A q, t : GoesOn(wire, q, t) => GoesOn(cut, q, t)
<1> DEFINE cut == SubSeq(wire, 1, n)
<1>1. Len(wire) \in Nat /\ DOMAIN wire = 1 .. Len(wire) OBVIOUS
<1>2. \A i \in 1 .. n : wire[i] \in Event BY <1>1
<1>3. cut \in Seq(Event) /\ Len(cut) = n /\ \A i \in 1 .. n : cut[i] = wire[i]
  BY <1>2, SubSeqProperties
<1>4. DOMAIN cut = 1 .. n BY <1>3
<1> HIDE DEF cut
<1>5. \A i \in DOMAIN cut : i \in DOMAIN wire /\ cut[i] = wire[i] BY <1>1, <1>3, <1>4
<1>6. IsChain(wire) => IsChain(cut)
  <2>1. DOMAIN cut # {} => 1 \in DOMAIN cut BY <1>4
  <2> QED BY <1>5, <2>1 DEF IsChain
<1>7. \A q, t : GoesOn(wire, q, t) => GoesOn(cut, q, t)
  <2>1. cut # <<>> => 1 \in DOMAIN cut /\ wire # <<>> BY <1>3, <1>4, EmptySeq
  <2> QED BY <1>5, <2>1 DEF GoesOn
<1> QED BY <1>3, <1>5, <1>6, <1>7 DEF cut

\* What is left of a wire after its first event.
LEMMA TailWire ==
  ASSUME NEW wire \in Seq(Event), wire # <<>>
  PROVE  /\ Tail(wire) \in Seq(Event) /\ Len(Tail(wire)) = Len(wire) - 1 /\ Len(wire) \in Nat \ {0}
         /\ Head(wire) = wire[1] /\ wire[1] \in Event
         /\ DOMAIN wire = 1 .. Len(wire) /\ DOMAIN Tail(wire) = 1 .. Len(wire) - 1
         /\ \A i \in DOMAIN Tail(wire) : i + 1 \in DOMAIN wire /\ Tail(wire)[i] = wire[i + 1]
         /\ IsChain(wire) => IsChain(Tail(wire))
<1>1. /\ Tail(wire) \in Seq(Event) /\ Len(Tail(wire)) = Len(wire) - 1 /\ Len(wire) \in Nat \ {0}
      /\ Head(wire) = wire[1] /\ wire[1] \in Event
      /\ DOMAIN wire = 1 .. Len(wire) /\ DOMAIN Tail(wire) = 1 .. Len(wire) - 1
  BY HeadTailProperties, EmptySeq
<1>2. \A i \in DOMAIN Tail(wire) : i + 1 \in DOMAIN wire /\ Tail(wire)[i] = wire[i + 1]
  BY <1>1, HeadTailProperties
<1>3. ASSUME IsChain(wire) PROVE IsChain(Tail(wire))
  <2>1. ASSUME NEW i \in DOMAIN Tail(wire) PROVE Tail(wire)[i].seq = Tail(wire)[1].seq + (i - 1)
    <3>1. i \in Nat /\ 1 \in DOMAIN Tail(wire) BY <1>1
    <3>2. wire[i + 1].seq = wire[1].seq + i /\ wire[2].seq = wire[1].seq + 1
      <4>1. i + 1 \in DOMAIN wire /\ 1 + 1 \in DOMAIN wire BY <1>2, <3>1, <2>1
      <4>2. wire[i + 1].seq = wire[1].seq + ((i + 1) - 1) /\ wire[2].seq = wire[1].seq + (2 - 1)
        BY <1>3, <4>1 DEF IsChain
      <4> QED BY <3>1, <4>2
    <3>3. wire[1].seq \in Nat BY <1>1, EventFields
    <3>4. Tail(wire)[1] = wire[2] /\ Tail(wire)[i] = wire[i + 1] BY <1>2, <3>1
    <3>5. PICK first \in Nat : first = wire[1].seq BY <3>3
    <3>6. Tail(wire)[i].seq = first + i /\ Tail(wire)[1].seq = first + 1 BY ONLY <3>2, <3>4, <3>5
    <3>7. first + i = (first + 1) + (i - 1) BY ONLY <3>1, <3>5
    <3> QED BY ONLY <3>6, <3>7
  <2>2. ASSUME NEW i \in DOMAIN Tail(wire), i + 1 \in DOMAIN Tail(wire)
        PROVE  Follows(Tail(wire)[i].after, Tail(wire)[i + 1])
    <3>1. Follows(wire[i + 1].after, wire[i + 1 + 1]) BY <1>2, <1>3, <2>2 DEF IsChain
    <3> QED BY <1>2, <2>2, <3>1
  <2> QED BY <2>1, <2>2 DEF IsChain
<1> QED BY <1>1, <1>2, <1>3

\* A step that leaves the events, what is known of them and the selection alone leaves streams as they are.
LEMMA StreamStays ==
  ASSUME NEW x, StreamOK(x), UNCHANGED <<seq, partial>>, x.current => UNCHANGED <<selected, lastSeq, expected>>
  PROVE  StreamOK(x)'
BY DEF StreamOK, WireOK, LeadsTo

LEMMA OpenedOK ==
  ASSUME NEW s \in Sessions, selected' = s
  PROVE  StreamOK(Opened(s))' /\ Opened(s).current /\ Opened(s).at = "connecting"
<1>1. Opened(s) \in Stream
  <2>1. <<>> \in Seq(Event) /\ <<>> \in Text BY DEF Text
  <2> QED BY <2>1 DEF Opened, Stream
<1>2. IsChain(<<>>) BY DEF IsChain
<1> QED BY <1>1, <1>2 DEF Opened, StreamOK, WireOK

\* The streams that startSessionEventStream() and systemWillSleep() leave are not current.
LEMMA CancelledOK ==
  ASSUME StreamsOK, NEW y \in Cancelled
  PROVE  StreamOK(y)' /\ ~y.current
<1>1. PICK x \in streams :
        /\ x.at = "answered" \/ (x.at = "streaming" /\ x.wire # <<>>)
        /\ y = [x EXCEPT !.current = FALSE, !.open = FALSE,
                         !.wire = IF x.at = "answered" THEN <<>> ELSE SubSeq(@, 1, 1)]
  BY DEF Cancelled
<1>2. x \in Stream /\ \A i \in DOMAIN x.wire : x.wire[i].text # <<>> BY DEF StreamsOK, StreamOK
<1> DEFINE wire == IF x.at = "answered" THEN <<>> ELSE SubSeq(x.wire, 1, 1)
<1>3. wire \in Seq(Event) /\ \A i \in DOMAIN wire : wire[i].text # <<>>
  <2>1. CASE x.at = "answered" BY <2>1
  <2>2. CASE x.at # "answered"
    <3>1. 1 \in 0 .. Len(x.wire) /\ x.wire \in Seq(Event) BY <1>1, <1>2, <2>2, EmptySeq, StreamFields
    <3> QED BY <1>2, <2>2, <3>1, CutWire
  <2> QED BY <2>1, <2>2
<1>4. y = [x EXCEPT !.current = FALSE, !.open = FALSE, !.wire = wire] BY <1>1
<1> HIDE DEF wire
<1>5. y \in Stream /\ y.wire = wire /\ ~y.current BY <1>2, <1>3, <1>4 DEF Stream
<1> QED BY <1>3, <1>5 DEF StreamOK

LEMMA StartedOK ==
  ASSUME StreamsOK, NEW s \in Sessions, selected' = s, StartsStream(s)
  PROVE  StreamsOK' /\ ~Streaming' /\ lastSeq' = 0 /\ live' = <<>> /\ expected' = <<>>
<1>1. streams' = Cancelled \cup {Opened(s)} /\ lastSeq' = 0 /\ live' = <<>> /\ expected' = <<>> BY DEF StartsStream
<1>2. \A y \in streams' : StreamOK(y)' /\ (y.current => y = Opened(s)) BY <1>1, OpenedOK, CancelledOK
<1>3. ~Streaming' BY <1>2, OpenedOK DEF Streaming, Current
<1> QED BY <1>1, <1>2, <1>3 DEF StreamsOK

\* One stream is replaced by another that is all right and current only if it was.
LEMMA BecomesOK ==
  ASSUME StreamsOK, NEW x \in streams, NEW y, streams' = (streams \ {x}) \cup {y}, StreamOK(y)', y.current => x.current,
         UNCHANGED <<seq, partial, selected>>, x.current \/ UNCHANGED <<lastSeq, expected>>
  PROVE  StreamsOK'
<1>1. \A z \in streams \ {x} : StreamOK(z) /\ (z.current => ~x.current) BY DEF StreamsOK
<1>2. \A z \in streams \ {x} : StreamOK(z)' BY <1>1, StreamStays
<1> QED BY <1>1, <1>2 DEF StreamsOK

\* The same, but that none takes its place.
LEMMA LeavesOK ==
  ASSUME StreamsOK, NEW x \in streams, streams' = streams \ {x}, UNCHANGED <<seq, partial, selected, lastSeq, expected>>
  PROVE  StreamsOK'
<1>1. \A z \in streams \ {x} : StreamOK(z)' BY StreamStays DEF StreamsOK
<1> QED BY <1>1 DEF StreamsOK

LEMMA StreamsStay ==
  ASSUME StreamsOK, UNCHANGED <<streams, seq, partial, selected, lastSeq, expected>>
  PROVE  StreamsOK'
<1>1. \A z \in streams : StreamOK(z)' BY StreamStays DEF StreamsOK
<1> QED BY <1>1 DEF StreamsOK

LEMMA InStepStays ==
  ASSUME StreamIsInStep, UNCHANGED <<live, expected>>, Streaming' => Streaming
  PROVE  StreamIsInStep'
BY DEF StreamIsInStep

\* A wire with the event that is published
LEMMA LongerWire ==
  ASSUME DaemonOK, NEW s \in Sessions, NEW wire \in Seq(Event), NEW e \in Event,
         e.seq = seq[s] + 1, seq' = [seq EXCEPT ![s] = @ + 1], partial' = [partial EXCEPT ![s] = e.after],
         Follows(partial[s], e), IsChain(wire), NEW q \in Nat, NEW t, LeadsTo(wire, q, t, s)
  PROVE  /\ Append(wire, e) \in Seq(Event) /\ IsChain(Append(wire, e)) /\ LeadsTo(Append(wire, e), q, t, s)'
         /\ \A i \in DOMAIN Append(wire, e) : Append(wire, e)[i] = e \/ (i \in DOMAIN wire /\ Append(wire, e)[i] = wire[i])
         /\ GoesOn(wire, q, t) => GoesOn(Append(wire, e), q, t)
<1> DEFINE n == Len(wire)  new == Append(wire, e)
<1>1. /\ n \in Nat /\ DOMAIN wire = 1 .. n /\ new \in Seq(Event) /\ Len(new) = n + 1 /\ DOMAIN new = 1 .. n + 1
      /\ new[n + 1] = e /\ new # <<>> /\ \A i \in 1 .. n : new[i] = wire[i]
  BY AppendProperties
<1>2. \A i \in 1 .. n : wire[i] \in Event /\ wire[i].seq \in Nat BY <1>1, EventFields
<1>3. seq[s] \in Nat /\ seq'[s] = seq[s] + 1 /\ partial'[s] = e.after BY DEF DaemonOK
<1>4. n = 0 <=> wire = <<>> BY <1>1, EmptySeq
<1>5. n > 0 => wire[n].seq = seq[s] /\ wire[n].after = partial[s] BY <1>1, <1>4 DEF LeadsTo
<1>6. n > 0 => wire[n].seq = wire[1].seq + (n - 1) BY <1>1 DEF IsChain
<1> HIDE DEF n, new
<1>7. IsChain(new)
  <2>1. ASSUME NEW i \in DOMAIN new PROVE new[i].seq = new[1].seq + (i - 1)
    <3>1. CASE i = n + 1 /\ n = 0 BY <1>1, <3>1, <1>3
    <3>2. CASE i = n + 1 /\ n > 0
      <4>1. 1 \in 1 .. n /\ n \in 1 .. n BY <1>1, <3>2
      <4>2. new[1] = wire[1] /\ wire[1].seq \in Nat BY <1>1, <1>2, <4>1
      <4>3. new[i].seq = seq[s] + 1 BY <1>1, <3>2
      <4> QED BY <1>1, <1>3, <1>5, <1>6, <3>2, <4>2, <4>3
    <3>3. CASE i \in 1 .. n
      <4>1. 1 \in 1 .. n BY <1>1, <3>3
      <4>2. wire[i].seq = wire[1].seq + (i - 1) BY <1>1, <3>3 DEF IsChain
      <4> QED BY <1>1, <3>3, <4>1, <4>2
    <3> QED BY <1>1, <2>1, <3>1, <3>2, <3>3
  <2>2. ASSUME NEW i \in DOMAIN new, i + 1 \in DOMAIN new PROVE Follows(new[i].after, new[i + 1])
    <3>1. i \in 1 .. n BY <1>1, <2>2
    <3>2. CASE i = n BY <1>1, <1>5, <3>1, <3>2
    <3>3. CASE i # n
      <4>1. i + 1 \in 1 .. n BY <1>1, <3>1, <3>3
      <4>2. Follows(wire[i].after, wire[i + 1]) BY <1>1, <3>1, <4>1 DEF IsChain
      <4> QED BY <1>1, <3>1, <4>1, <4>2
    <3> QED BY <3>2, <3>3
  <2> QED BY <2>1, <2>2 DEF IsChain
<1>8. LeadsTo(new, q, t, s)' BY <1>1, <1>3 DEF LeadsTo
<1>9. ASSUME GoesOn(wire, q, t) PROVE GoesOn(new, q, t)
  <2>1. new[1].seq <= q + 1
    <3>1. CASE n = 0 BY <1>1, <1>3, <1>4, <3>1 DEF LeadsTo
    <3>2. CASE n > 0
      <4>1. 1 \in 1 .. n BY <1>1, <3>2
      <4> QED BY <1>1, <1>4, <1>9, <3>2, <4>1 DEF GoesOn
    <3> QED BY <1>1, <3>1, <3>2
  <2>2. q <= seq[s] BY DEF LeadsTo
  <2>3. e.seq = q + 1 => t = partial[s]
    <3>1. CASE n = 0 BY <1>4, <3>1 DEF LeadsTo
    <3>2. CASE n > 0 /\ e.seq = q + 1
      <4>1. n \in DOMAIN wire /\ wire[n].seq = q BY <1>1, <1>3, <1>5, <3>2
      <4> QED BY <1>5, <1>9, <3>2, <4>1 DEF GoesOn
    <3> QED BY <1>1, <3>1, <3>2
  <2>4. ASSUME NEW i \in DOMAIN new
        PROVE  (new[i].seq = q => new[i].after = t) /\ (new[i].seq = q + 1 => Follows(t, new[i]))
    <3>1. CASE i = n + 1 BY <1>1, <1>3, <2>2, <2>3, <3>1
    <3>2. CASE i \in 1 .. n
      <4>1. new[i] = wire[i] /\ i \in DOMAIN wire BY <1>1, <3>2
      <4> QED BY <4>1, <1>9 DEF GoesOn
    <3> QED BY <1>1, <2>4, <3>1, <3>2
  <2> QED BY <2>1, <2>4 DEF GoesOn
<1>10. \A i \in DOMAIN new : new[i] = e \/ (i \in DOMAIN wire /\ new[i] = wire[i])
  <2> SUFFICES ASSUME NEW i \in DOMAIN new PROVE new[i] = e \/ (i \in DOMAIN wire /\ new[i] = wire[i]) OBVIOUS
  <2>1. i = n + 1 \/ i \in 1 .. n BY <1>1
  <2> QED BY <1>1, <2>1
<1> QED BY <1>1, <1>7, <1>8, <1>9, <1>10 DEF new

LEMMA PublishedOK ==
  ASSUME StreamsOK, DaemonOK, ViewOK, NEW s \in Sessions, NEW kind \in {"assistant.delta", "message.end"},
         NEW text \in Text, NEW after \in Text, text # <<>>, Publish(s, kind, text, after),
         IF kind = "assistant.delta" THEN after = partial[s] \o text ELSE after = <<>>
  PROVE  StreamsOK' /\ (Streaming' => Streaming) /\ UNCHANGED <<view, loads, app, selected, loadFailed, counts>>
<1>1. PICK e : e = [seq |-> seq[s] + 1, kind |-> kind, text |-> text, after |-> after] OBVIOUS
<1> DEFINE sent(x) == IF x.session = s /\ x.open THEN [x EXCEPT !.wire = Append(@, e)] ELSE x
<1>2. /\ seq' = [seq EXCEPT ![s] = @ + 1] /\ partial' = [partial EXCEPT ![s] = after]
      /\ streams' = {sent(x) : x \in streams}
      /\ UNCHANGED <<view, loads, app, selected, loadFailed, counts>>
  BY <1>1 DEF Publish
<1>3. /\ e \in Event /\ e.seq = seq[s] + 1 /\ e.after = after /\ e.text # <<>> /\ Follows(partial[s], e)
      /\ partial' = [partial EXCEPT ![s] = e.after]
  BY <1>1, <1>2 DEF DaemonOK, Event, Follows
<1>4. /\ seq[s] \in Nat /\ seq'[s] = seq[s] + 1 /\ \A z \in Sessions : z # s => seq'[z] = seq[z] /\ partial'[z] = partial[z]
      /\ partial'[s] = e.after /\ \A z \in Sessions : seq[z] \in Nat
  BY <1>2, <1>3 DEF DaemonOK
<1>5. lastSeq' = lastSeq /\ expected' = expected /\ selected' = selected BY <1>2 DEF view
<1>6. ASSUME NEW x \in streams, x.session = s, x.open, NEW y, y = sent(x)
      PROVE  StreamOK(y)' /\ y.current = x.current /\ y.at = x.at
  <2>1. /\ x \in Stream /\ (\A i \in DOMAIN x.wire : x.wire[i].text # <<>>)
        /\ (x.current => x.session = selected /\ WireOK(x))
    BY DEF StreamsOK, StreamOK
  <2>2. x.wire \in Seq(Event) /\ x.seq \in Nat /\ \A i \in DOMAIN x.wire : x.wire[i] \in Event /\ x.wire[i].seq \in Nat
    BY <2>1, StreamFields, EventFields
  <2>3. PICK wire : wire = Append(x.wire, e) OBVIOUS
  <2>4. /\ wire \in Seq(Event) /\ wire # <<>> /\ Len(wire) \in DOMAIN wire /\ wire[Len(wire)] = e
        /\ \A i \in DOMAIN wire : wire[i] = e \/ (i \in DOMAIN x.wire /\ wire[i] = x.wire[i])
    BY <1>3, <2>2, <2>3, AppendProperties
  <2>5. y = [x EXCEPT !.wire = wire] BY <1>6, <2>3
  <2>6. /\ y \in Stream /\ y.wire = wire /\ y.session = s /\ y.current = x.current /\ y.at = x.at /\ y.open = x.open
        /\ y.seq = x.seq /\ y.partial = x.partial
    BY <1>6, <2>1, <2>4, <2>5 DEF Stream
  <2>7. \A i \in DOMAIN wire : wire[i].text # <<>> BY <1>3, <2>1, <2>4
  <2>8. ASSUME x.current PROVE WireOK(y)'
    <3>1. WireOK(x) /\ x.at # "connecting" /\ IsChain(x.wire) BY <1>6, <2>1, <2>8 DEF WireOK
    <3>2. CASE x.at = "asking"
      <4>1. LeadsTo(x.wire, seq[s], partial[s], s) BY <1>6, <3>1, <3>2 DEF WireOK
      <4>2. IsChain(wire) BY <1>2, <1>3, <1>4, <2>2, <2>3, <3>1, <4>1, LongerWire
      <4>3. ASSUME NEW i \in DOMAIN wire
            PROVE  wire[i].seq <= seq'[s] /\ (wire[i].seq = seq'[s] => wire[i].after = partial'[s])
        <5>1. CASE wire[i] = e BY <1>3, <1>4, <5>1
        <5>2. CASE i \in DOMAIN x.wire /\ wire[i] = x.wire[i]
          <6>1. x.wire[i].seq <= seq[x.session] BY <3>1, <3>2, <5>2 DEF WireOK
          <6> QED BY <1>4, <1>6, <2>2, <5>2, <6>1
        <5> QED BY <2>4, <5>1, <5>2
      <4>4. wire[Len(wire)].seq = seq'[s] /\ wire[Len(wire)].after = partial'[s] /\ seq'[s] <= seq'[s] BY <1>3, <1>4, <2>4
      <4> QED BY <2>4, <2>6, <3>2, <4>2, <4>3, <4>4 DEF WireOK, LeadsTo
    <3>3. CASE x.at = "answered"
      <4>1. LeadsTo(x.wire, x.seq, x.partial, s) /\ GoesOn(x.wire, x.seq, x.partial) BY <1>6, <3>1, <3>3 DEF WireOK
      <4>2. IsChain(wire) /\ LeadsTo(wire, x.seq, x.partial, s)' /\ GoesOn(wire, x.seq, x.partial)
        BY <1>2, <1>3, <2>2, <2>3, <3>1, <4>1, LongerWire
      <4> QED BY <2>6, <3>3, <4>2 DEF WireOK
    <3>4. CASE x.at = "streaming"
      <4>0. PICK q \in Nat : q = lastSeq BY DEF ViewOK
      <4>5. PICK t : t = expected OBVIOUS
      <4>1. LeadsTo(x.wire, q, t, s) /\ GoesOn(x.wire, q, t) BY <1>6, <3>1, <3>4, <4>0, <4>5 DEF WireOK
      <4>2. IsChain(wire) /\ LeadsTo(wire, q, t, s)' /\ GoesOn(wire, q, t)
        BY <1>2, <1>3, <2>2, <2>3, <3>1, <4>1, LongerWire
      <4>3. lastSeq' = q /\ expected' = t BY <1>5, <4>0, <4>5
      <4> QED BY <2>6, <3>4, <4>2, <4>3 DEF WireOK, LeadsTo
    <3> QED BY <2>1, <3>1, <3>2, <3>3, <3>4, StreamFields
  <2>9. x.current => y.session = selected' BY <1>5, <2>1, <2>6, <1>6
  <2> QED BY <2>6, <2>7, <2>8, <2>9 DEF StreamOK
<1>7. ASSUME NEW x \in streams, ~(x.session = s /\ x.open) PROVE StreamOK(x)'
  <2>1. /\ x \in Stream /\ (\A i \in DOMAIN x.wire : x.wire[i].text # <<>>)
        /\ (x.current => x.session = selected /\ WireOK(x))
    BY DEF StreamsOK, StreamOK
  <2>2. x.session \in Sessions /\ x.wire \in Seq(Event) /\ \A i \in DOMAIN x.wire : x.wire[i].seq \in Nat
    BY <2>1, StreamFields, EventFields
  <2>3. ASSUME x.current PROVE WireOK(x)'
    <3>1. WireOK(x) BY <2>1, <2>3
    <3>2. CASE x.session # s BY <1>4, <1>5, <2>2, <3>1, <3>2 DEF WireOK, LeadsTo
    <3>3. CASE x.session = s /\ ~x.open
      <4>1. x.at = "asking" => \A i \in DOMAIN x.wire : x.wire[i].seq <= seq[x.session] BY <3>1 DEF WireOK
      <4>2. x.at = "asking" => \A i \in DOMAIN x.wire : x.wire[i].seq <= seq'[x.session] /\ x.wire[i].seq # seq'[x.session]
        BY <1>4, <2>2, <3>3, <4>1
      <4> QED BY <1>5, <3>1, <3>3, <4>2 DEF WireOK
    <3> QED BY <1>7, <3>2, <3>3
  <2> QED BY <1>5, <2>1, <2>3 DEF StreamOK
<1>8. ASSUME NEW y \in streams' PROVE \E x \in streams : y = sent(x) /\ StreamOK(y)' /\ y.current = x.current /\ y.at = x.at
  <2>1. PICK x \in streams : y = sent(x) BY <1>2
  <2>2. CASE x.session = s /\ x.open
    <3>1. StreamOK(y)' /\ y.current = x.current /\ y.at = x.at
      <4> HIDE DEF sent
      <4> QED BY <1>6, <2>1, <2>2
    <3> QED BY <2>1, <3>1
  <2>3. CASE ~(x.session = s /\ x.open)
    <3>1. y = x BY <2>1, <2>3
    <3> QED BY <1>7, <2>1, <2>3, <3>1
  <2> QED BY <2>2, <2>3
<1> HIDE DEF sent
<1>9. ASSUME NEW y \in streams', NEW z \in streams', y.current, z.current PROVE y = z
  <2>1. PICK u \in streams : y = sent(u) /\ y.current = u.current BY <1>8
  <2>2. PICK v \in streams : z = sent(v) /\ z.current = v.current BY <1>8
  <2> QED BY <1>9, <2>1, <2>2 DEF StreamsOK
<1>10. Streaming' => Streaming BY <1>8 DEF Streaming, Current
<1> QED BY <1>2, <1>8, <1>9, <1>10 DEF StreamsOK

\* What synchronizeStreamingMessage() leaves: m is the only row under its id, and every
\* other row that does not have this id is there.
LEMMA SynchronizedOK ==
  ASSUME NEW rows \in Rows, NEW m \in Row \cup {<<>>}, m # <<>> => m.id # "own"
  PROVE  /\ Synchronized(rows, m) \in Rows
         /\ m # <<>> => \A i \in DOMAIN Synchronized(rows, m) : Synchronized(rows, m)[i].id = m.id => Synchronized(rows, m)[i].text = m.text
         /\ \A i \in DOMAIN rows : (m = <<>> \/ rows[i].id # m.id) => Shows(Synchronized(rows, m), rows[i].text)
         /\ m # <<>> => Shows(Synchronized(rows, m), m.text)
<1>1. CASE m = <<>> BY <1>1 DEF Synchronized, Shows
<1>2. CASE m # <<>>
  <2>1. m \in Row BY <1>2
  <2>2. PICK kept : kept = Without(rows, m) OBVIOUS
  <2>3. /\ kept \in Rows
        /\ \A i \in DOMAIN rows : Kept(rows[i], m) => \E j \in DOMAIN kept : kept[j] = rows[i]
        /\ \A j \in DOMAIN kept : Kept(kept[j], m)
    BY <2>2, WithoutKeeps
  <2>4. PICK new : new = Append(kept, m) OBVIOUS
  <2>5. Synchronized(rows, m) = new BY <1>2, <2>2, <2>4 DEF Synchronized
  <2>6. /\ new \in Rows /\ DOMAIN new = 1 .. Len(kept) + 1 /\ DOMAIN kept = 1 .. Len(kept) /\ Len(kept) \in Nat
        /\ new[Len(kept) + 1] = m /\ \A j \in 1 .. Len(kept) : new[j] = kept[j]
    BY <2>1, <2>3, <2>4, AppendProperties DEF Rows
  <2>7. ASSUME NEW i \in DOMAIN new, new[i].id = m.id PROVE new[i].text = m.text
    <3>1. CASE i = Len(kept) + 1 BY <2>6, <3>1
    <3>2. CASE i \in 1 .. Len(kept)
      <4>1. Kept(kept[i], m) /\ kept[i].id = m.id BY <2>3, <2>6, <2>7, <3>2
      <4> QED BY <1>2, <4>1 DEF Kept
    <3> QED BY <2>6, <2>7, <3>1, <3>2
  <2>8. ASSUME NEW i \in DOMAIN rows, rows[i].id # m.id PROVE Shows(new, rows[i].text)
    <3>1. PICK j \in DOMAIN kept : kept[j] = rows[i] BY <2>3, <2>8 DEF Kept
    <3>2. j \in DOMAIN new /\ new[j].text = rows[i].text BY <2>6, <3>1
    <3> QED BY <3>2 DEF Shows
  <2>9. Shows(new, m.text)
    <3>1. Len(kept) + 1 \in DOMAIN new BY <2>6
    <3> QED BY <2>6, <3>1 DEF Shows
  <2> QED BY <1>2, <2>5, <2>6, <2>7, <2>8, <2>9
<1> QED BY <1>1, <1>2

LEMMA SettledOK ==
  ASSUME NEW rows \in Rows
  PROVE  /\ Settled(rows) \in Rows /\ DOMAIN Settled(rows) = DOMAIN rows
         /\ \A i \in DOMAIN rows : Settled(rows)[i].text = rows[i].text /\ (rows[i].id = "own" => Settled(rows)[i].id = "own")
         /\ \A i \in DOMAIN rows : Settled(rows)[i].id # "snapshot"
<1> DEFINE r(i) == IF rows[i].id = "snapshot" THEN [rows[i] EXCEPT !.id = "own"] ELSE rows[i]
<1>1. ASSUME NEW i \in DOMAIN rows
      PROVE r(i) \in Row /\ r(i).text = rows[i].text /\ (rows[i].id = "own" => r(i).id = "own") /\ r(i).id # "snapshot"
  <2>1. rows[i] \in Row BY DEF Rows
  <2> QED BY <2>1 DEF Row
<1>2. Len(rows) \in Nat /\ DOMAIN rows = 1 .. Len(rows) BY DEF Rows
<1>3. Settled(rows) = [i \in 1 .. Len(rows) |-> r(i)] BY <1>2 DEF Settled
<1> HIDE DEF r
<1>4. Settled(rows) \in Rows /\ DOMAIN Settled(rows) = DOMAIN rows BY <1>1, <1>2, <1>3 DEF Rows
<1> QED BY <1>1, <1>2, <1>3, <1>4

------------------------------------------------------------------------------
(* The Runtime's steps *)

LEMMA DeltaOK ==
  ASSUME StreamInv, NEW s \in Sessions, Delta(s)
  PROVE  StreamInv' /\ transcript' = transcript
<1> USE DEF StreamInv
<1>1. partial[s] \in Text /\ Len(partial[s]) <= pieces /\ Len(partial[s]) \in Nat /\ pieces \in Nat /\ pieces < MaxPieces /\ pieces' = pieces + 1
  BY DEF DaemonOK, Delta, Text
<1>2. PICK piece : piece = (IF partial[s] = <<>> THEN <<begun', 1>> ELSE <<partial[s][1][1], Len(partial[s]) + 1>>) OBVIOUS
<1>3. begun' \in 0 .. MaxMessages /\ (partial[s] = <<>> => begun' \in 1 .. MaxMessages)
  BY StreamBounds DEF DaemonOK, Delta
<1>4. piece \in Piece
  <2>1. CASE partial[s] = <<>>
    <3>1. 1 \in 1 .. MaxPieces BY StreamBounds
    <3> QED BY <1>2, <1>3, <2>1, <3>1 DEF Piece
  <2>2. CASE partial[s] # <<>>
    <3>1. partial[s][1] \in Piece BY <1>1, <2>2, EmptySeq DEF Text
    <3>2. partial[s][1][1] \in 1 .. MaxMessages BY <3>1 DEF Piece
    <3>3. Len(partial[s]) + 1 \in 1 .. MaxPieces BY <1>1, StreamBounds
    <3> QED BY <1>2, <2>2, <3>2, <3>3 DEF Piece
  <2> QED BY <2>1, <2>2
<1>5. PICK after : after = Append(partial[s], piece) OBVIOUS
<1>6. after \in Text /\ Len(after) = Len(partial[s]) + 1 /\ <<piece>> \in Text /\ <<piece>> # <<>>
  BY <1>1, <1>4, <1>5, AppendProperties DEF Text
<1>7. after = partial[s] \o <<piece>> BY <1>1, <1>4, <1>5, AppendIsConcat DEF Text
<1>8. Publish(s, "assistant.delta", <<piece>>, after) /\ UNCHANGED history BY <1>2, <1>5 DEF Delta
<1>9. StreamsOK' /\ (Streaming' => Streaming) /\ UNCHANGED <<view, loads, app, selected, loadFailed, counts>>
  BY <1>6, <1>7, <1>8, PublishedOK
<1>10. DaemonOK'
  <2>1. partial' = [partial EXCEPT ![s] = after] /\ seq' = [seq EXCEPT ![s] = @ + 1] BY <1>8 DEF Publish
  <2>2. partial' \in [Sessions -> Text] /\ seq' \in [Sessions -> Nat] BY <1>6, <2>1 DEF DaemonOK
  <2>3. pieces' \in 0 .. MaxPieces BY <1>1, StreamBounds
  <2>4. \A z \in Sessions : Len(partial'[z]) <= pieces'
    <3> SUFFICES ASSUME NEW z \in Sessions PROVE Len(partial'[z]) <= pieces' OBVIOUS
    <3>1. CASE z = s BY <1>1, <1>6, <2>1, <3>1 DEF DaemonOK
    <3>2. CASE z # s
      <4>1. partial'[z] = partial[z] /\ Len(partial[z]) <= pieces /\ Len(partial[z]) \in Nat BY <2>1, <3>2 DEF DaemonOK, Text
      <4> QED BY <1>1, <4>1
    <3> QED BY <3>1, <3>2
  <2> QED BY <1>3, <1>8, <2>2, <2>3, <2>4 DEF DaemonOK
<1>11. ViewOK' /\ LoadsOK' /\ AppOK' /\ StreamIsInStep' /\ transcript' = transcript
  BY <1>9, InStepStays DEF ViewOK, LoadsOK, AppOK, view, app, counts
<1> QED BY <1>9, <1>10, <1>11

LEMMA MessageEndsOK ==
  ASSUME StreamInv, NEW s \in Sessions, MessageEnds(s)
  PROVE  StreamInv' /\ transcript' = transcript
<1> USE DEF StreamInv
<1>1. partial[s] \in Text \ {<<>>} /\ <<>> \in Text BY DEF DaemonOK, MessageEnds, Text
<1>2. Publish(s, "message.end", partial[s], <<>>) /\ UNCHANGED <<begun, pieces>> /\ history' = [history EXCEPT ![s] = Append(@, partial[s])]
  BY DEF MessageEnds
<1>3. PICK text : text = partial[s] OBVIOUS
<1>4. Publish(s, "message.end", text, <<>>) /\ text \in Text /\ text # <<>> BY <1>1, <1>2, <1>3
<1>5. StreamsOK' /\ (Streaming' => Streaming) /\ UNCHANGED <<view, loads, app, selected, loadFailed, counts>>
  BY <1>1, <1>4, PublishedOK
<1>6. DaemonOK'
  <2>1. partial' = [partial EXCEPT ![s] = <<>>] /\ seq' = [seq EXCEPT ![s] = @ + 1] BY <1>2 DEF Publish
  <2>2. partial' \in [Sessions -> Text] /\ seq' \in [Sessions -> Nat] BY <1>1, <2>1 DEF DaemonOK
  <2>3. \A z \in Sessions : Len(partial'[z]) <= pieces
    <3>1. Len(<<>>) = 0 /\ pieces \in Nat BY DEF DaemonOK
    <3> QED BY <2>1, <3>1 DEF DaemonOK
  <2>4. history' \in [Sessions -> Texts]
    <3>1. Append(history[s], partial[s]) \in Texts BY <1>1, AppendProperties DEF DaemonOK, Texts
    <3> QED BY <1>2, <3>1 DEF DaemonOK
  <2> QED BY <1>2, <2>2, <2>3, <2>4 DEF DaemonOK
<1>7. ViewOK' /\ LoadsOK' /\ AppOK' /\ StreamIsInStep' /\ transcript' = transcript
  BY <1>5, InStepStays DEF ViewOK, LoadsOK, AppOK, view, app, counts
<1> QED BY <1>5, <1>6, <1>7

\* A step of the app, or a fault of it, that leaves the Runtime alone.
LEMMA DaemonStays ==
  ASSUME DaemonOK, UNCHANGED daemon
  PROVE  DaemonOK' /\ UNCHANGED <<seq, partial>>
BY DEF DaemonOK, daemon

LEMMA AnswersSnapshotOK ==
  ASSUME StreamInv, NEW x \in streams, AnswersSnapshot(x)
  PROVE  StreamInv' /\ transcript' = transcript
<1> USE DEF StreamInv
<1>1. PICK q \in Nat, t \in Text : q = seq[x.session] /\ t = partial[x.session]
  <2>1. x.session \in Sessions BY DEF StreamsOK, StreamOK, Stream
  <2> QED BY <2>1 DEF DaemonOK
<1>2. PICK y : y = [x EXCEPT !.at = "answered", !.seq = q, !.partial = t] OBVIOUS
<1>3. x.at = "asking" /\ streams' = (streams \ {x}) \cup {y} /\ UNCHANGED <<daemon, selected, loads, view, app, loadFailed, counts>>
  BY <1>1, <1>2 DEF AnswersSnapshot, Becomes
<1>4. x \in Stream /\ (\A i \in DOMAIN x.wire : x.wire[i].text # <<>>) /\ (x.current => x.session = selected /\ WireOK(x))
  BY DEF StreamsOK, StreamOK
<1>5. /\ y \in Stream /\ y.wire = x.wire /\ y.current = x.current /\ y.session = x.session /\ y.open = x.open
      /\ y.at = "answered" /\ y.seq = q /\ y.partial = t
  BY <1>2, <1>4 DEF Stream
<1>6. DaemonOK' /\ UNCHANGED <<seq, partial>> BY <1>3, DaemonStays
<1>7. x.wire \in Seq(Event) /\ \A i \in DOMAIN x.wire : x.wire[i].seq \in Nat BY <1>4, StreamFields, EventFields
<1>8. ASSUME x.current PROVE WireOK(y)'
  <2>1. WireOK(x) BY <1>4, <1>8
  <2>2. IsChain(x.wire) /\ (x.open => LeadsTo(x.wire, q, t, x.session)) BY <1>1, <1>3, <2>1 DEF WireOK
  <2>3. \A i \in DOMAIN x.wire : x.wire[i].seq <= q /\ (x.wire[i].seq = q => x.wire[i].after = t) BY <1>1, <1>3, <2>1 DEF WireOK
  <2>4. GoesOn(x.wire, q, t)
    <3>1. \A i \in DOMAIN x.wire : x.wire[i].seq # q + 1 BY <1>7, <2>3
    <3>2. x.wire # <<>> => 1 \in DOMAIN x.wire BY <1>7, EmptySeq
    <3>3. x.wire # <<>> => x.wire[1].seq <= q + 1 BY <1>7, <2>3, <3>2
    <3> QED BY <2>3, <3>1, <3>3 DEF GoesOn
  <2>5. x.open => LeadsTo(x.wire, q, t, x.session)' BY <1>6, <2>2 DEF LeadsTo
  <2> QED BY <1>5, <2>2, <2>4, <2>5 DEF WireOK
<1>9. StreamOK(y)' BY <1>3, <1>4, <1>5, <1>8 DEF StreamOK
<1>10. StreamsOK' BY <1>3, <1>5, <1>6, <1>9, BecomesOK DEF view
<1>11. Streaming' => Streaming BY <1>3, <1>5 DEF Streaming, Current
<1>12. ViewOK' /\ LoadsOK' /\ AppOK' /\ StreamIsInStep' /\ transcript' = transcript
  BY <1>3, <1>11, InStepStays DEF ViewOK, LoadsOK, AppOK, view, app, counts
<1> QED BY <1>6, <1>10, <1>12

LEMMA AnswersLoadOK ==
  ASSUME StreamInv, NEW l \in loads, AnswersLoad(l)
  PROVE  StreamInv' /\ transcript' = transcript
<1> USE DEF StreamInv
<1>1. UNCHANGED <<daemon, selected, streams, view, app, loadFailed, counts>> BY DEF AnswersLoad
<1>2. DaemonOK' /\ UNCHANGED <<seq, partial>> BY <1>1, DaemonStays
<1>3. StreamsOK' BY <1>1, <1>2, StreamsStay DEF view
<1>4. LoadsOK'
  <2>1. PICK k : k = [l EXCEPT !.page = history[l.session]] /\ loads' = (loads \ {l}) \cup {k} BY DEF AnswersLoad
  <2>2. l \in Request /\ history[l.session] \in Texts BY DEF LoadsOK, DaemonOK, Request
  <2>3. k \in Request BY <2>1, <2>2 DEF Request
  <2> QED BY <2>1, <2>3 DEF LoadsOK
<1>5. ViewOK' /\ AppOK' /\ StreamIsInStep' /\ transcript' = transcript
  BY <1>1, InStepStays DEF ViewOK, AppOK, view, app, counts, Streaming
<1> QED BY <1>2, <1>3, <1>4, <1>5

------------------------------------------------------------------------------
(* The app's steps *)

LEMMA SelectOK ==
  ASSUME StreamInv, NEW s \in Sessions, Select(s)
  PROVE  StreamInv' /\ opens' # opens
<1> USE DEF StreamInv
<1>1. /\ selected' = s /\ transcript' = <<>> /\ loads' = loads \cup {Load(s)} /\ StartsStream(s)
      /\ opens < MaxOpens /\ opens' = opens + 1 /\ UNCHANGED <<daemon, app, loadFailed, faults>>
  BY DEF Select
<1>2. DaemonOK' BY <1>1, DaemonStays
<1>3. StreamsOK' /\ ~Streaming' /\ lastSeq' = 0 /\ live' = <<>> /\ expected' = <<>> BY <1>1, StartedOK
<1>4. ViewOK' /\ StreamIsInStep'
  <2>1. <<>> \in Rows /\ <<>> \in Text BY DEF Rows, Text
  <2> QED BY <1>1, <1>3, <2>1 DEF ViewOK, StreamIsInStep
<1>5. LoadsOK' BY <1>1 DEF LoadsOK, Load, Request
<1>6. AppOK' /\ opens' # opens BY <1>1, StreamBounds DEF AppOK, app
<1> QED BY <1>2, <1>3, <1>4, <1>5, <1>6

LEMMA RefreshEndsOK ==
  ASSUME StreamInv, RefreshEnds
  PROVE  StreamInv' /\ transcript' = transcript
<1> USE DEF StreamInv
<1>1. PICK s \in Sessions : s = selected' BY DEF RefreshEnds, AppOK
<1>2. /\ loads' = loads \cup {Load(s)} /\ StartsStream(s) /\ runtimeState' = "connected"
      /\ UNCHANGED <<daemon, transcript, recovery, loadFailed, counts>>
  BY <1>1 DEF RefreshEnds, StartsStream
<1>3. DaemonOK' BY <1>2, DaemonStays
<1>4. StreamsOK' /\ ~Streaming' /\ lastSeq' = 0 /\ live' = <<>> /\ expected' = <<>> BY <1>1, <1>2, StartedOK
<1>5. ViewOK' /\ StreamIsInStep'
  <2>1. <<>> \in Text BY DEF Text
  <2> QED BY <1>2, <1>4, <2>1 DEF ViewOK, StreamIsInStep
<1>6. LoadsOK' BY <1>2 DEF LoadsOK, Load, Request
<1>7. AppOK' BY <1>1, <1>2 DEF AppOK, counts
<1> QED BY <1>2, <1>3, <1>4, <1>5, <1>6, <1>7

LEMMA ConnectsOK ==
  ASSUME StreamInv, NEW x \in streams, Connects(x)
  PROVE  StreamInv' /\ transcript' = transcript
<1> USE DEF StreamInv
<1>1. PICK y : y = [x EXCEPT !.at = "asking", !.open = TRUE] OBVIOUS
<1>2. x.at = "connecting" /\ streams' = (streams \ {x}) \cup {y} /\ UNCHANGED <<daemon, selected, loads, view, app, loadFailed, counts>>
  BY <1>1 DEF Connects, Becomes
<1>3. x \in Stream /\ (\A i \in DOMAIN x.wire : x.wire[i].text # <<>>) /\ (x.current => x.session = selected /\ WireOK(x))
  BY DEF StreamsOK, StreamOK
<1>4. y \in Stream /\ y.wire = x.wire /\ y.current = x.current /\ y.session = x.session /\ y.at = "asking"
  BY <1>1, <1>3 DEF Stream
<1>5. DaemonOK' /\ UNCHANGED <<seq, partial>> BY <1>2, DaemonStays
<1>6. ASSUME x.current PROVE WireOK(y)'
  <2>1. x.wire = <<>> BY <1>2, <1>3, <1>6 DEF WireOK
  <2>2. seq'[x.session] <= seq'[x.session]
    <3>1. seq'[x.session] \in Nat BY <1>3, <1>5, StreamFields DEF DaemonOK
    <3> QED BY <3>1
  <2> QED BY <1>4, <2>1, <2>2 DEF WireOK, IsChain, LeadsTo
<1>7. StreamOK(y)' BY <1>2, <1>3, <1>4, <1>6 DEF StreamOK
<1>8. StreamsOK' BY <1>2, <1>4, <1>5, <1>7, BecomesOK DEF view
<1>9. Streaming' => Streaming BY <1>2, <1>4 DEF Streaming, Current
<1>10. ViewOK' /\ LoadsOK' /\ AppOK' /\ StreamIsInStep' /\ transcript' = transcript
  BY <1>2, <1>9, InStepStays DEF ViewOK, LoadsOK, AppOK, view, app, counts
<1> QED BY <1>5, <1>8, <1>10

LEMMA SnapshotReturnsOK ==
  ASSUME StreamInv, NEW x \in streams, SnapshotReturns(x)
  PROVE  StreamInv' /\ \A i \in DOMAIN transcript : transcript[i].id = "own" => Shows(transcript', transcript[i].text)
<1> USE DEF StreamInv
<1>1. x.at = "answered" /\ UNCHANGED <<daemon, selected, app, loadFailed, counts>> BY DEF SnapshotReturns
<1>2. DaemonOK' /\ UNCHANGED <<seq, partial>> BY <1>1, DaemonStays
<1>3. AppOK' BY <1>1 DEF AppOK, app, counts
<1>4. x \in Stream /\ (\A i \in DOMAIN x.wire : x.wire[i].text # <<>>) /\ (x.current => x.session = selected /\ WireOK(x))
  BY DEF StreamsOK, StreamOK
<1>5. CASE x.current
  <2>1. PICK y : y = [x EXCEPT !.at = "streaming", !.seq = 0, !.partial = <<>>] OBVIOUS
  <2>2. /\ streams' = (streams \ {x}) \cup {y}
        /\ loads' = (IF x.seq < lastSeq THEN loads \cup {Load(selected)} ELSE loads)
        /\ lastSeq' = x.seq /\ live' = RowOf(x.partial) /\ expected' = x.partial
        /\ transcript' = Synchronized(Settled(transcript), live')
    BY <1>5, <2>1 DEF SnapshotReturns, IsCurrent, Current, Becomes
  <2>3. x.seq \in Nat /\ x.partial \in Text /\ <<>> \in Text /\ selected \in Sessions BY <1>4, <1>5, StreamFields DEF Text
  <2>4. y \in Stream /\ y.wire = x.wire /\ y.current = x.current /\ y.session = x.session /\ y.open = x.open /\ y.at = "streaming"
    BY <1>4, <2>1, <2>3 DEF Stream
  <2>5. WireOK(y)'
    <3>1. /\ IsChain(x.wire) /\ GoesOn(x.wire, x.seq, x.partial)
          /\ x.open => LeadsTo(x.wire, x.seq, x.partial, x.session)
      BY <1>1, <1>4, <1>5 DEF WireOK
    <3>2. x.open => LeadsTo(x.wire, x.seq, x.partial, x.session)' BY <1>2, <3>1 DEF LeadsTo
    <3> QED BY <2>2, <2>4, <3>1, <3>2 DEF WireOK, LeadsTo
  <2>6. StreamOK(y)' BY <1>1, <1>4, <2>4, <2>5 DEF StreamOK
  <2>7. StreamsOK' BY <1>1, <1>2, <1>5, <2>2, <2>6, BecomesOK
  <2>8. live' \in Row \cup {<<>>} /\ (live' # <<>> => live'.id = "snapshot" /\ live'.text = x.partial) /\ (live' = <<>> => x.partial = <<>>)
    <3>1. CASE x.partial = <<>> BY <2>2, <3>1 DEF RowOf
    <3>2. CASE x.partial # <<>>
      <4>1. live' = [id |-> "snapshot", text |-> x.partial] BY <2>2, <3>2 DEF RowOf
      <4>2. live' \in Row BY <2>3, <3>2, <4>1 DEF Row
      <4> QED BY <4>1, <4>2, RowsAreRecords
    <3> QED BY <3>1, <3>2
  <2>9. PICK m : m = live' OBVIOUS
  <2>10. PICK rows : rows = Settled(transcript) OBVIOUS
  <2>11. /\ rows \in Rows /\ DOMAIN rows = DOMAIN transcript /\ \A i \in DOMAIN transcript : rows[i].text = transcript[i].text
         /\ \A i \in DOMAIN transcript : rows[i].id # "snapshot"
    BY <2>10, SettledOK DEF ViewOK
  <2>12. /\ Synchronized(rows, m) \in Rows
         /\ m # <<>> => \A i \in DOMAIN Synchronized(rows, m) : Synchronized(rows, m)[i].id = m.id => Synchronized(rows, m)[i].text = m.text
         /\ \A i \in DOMAIN rows : (m = <<>> \/ rows[i].id # m.id) => Shows(Synchronized(rows, m), rows[i].text)
    BY <2>8, <2>9, <2>11, SynchronizedOK
  <2>13. transcript' = Synchronized(rows, m) BY <2>2, <2>9, <2>10
  <2>14. ViewOK' BY <2>2, <2>3, <2>8, <2>9, <2>12, <2>13 DEF ViewOK
  <2>15. StreamIsInStep' BY <2>2, <2>8 DEF StreamIsInStep
  <2>16. LoadsOK' BY <2>2, <2>3 DEF LoadsOK, Load, Request
  <2>17. \A i \in DOMAIN transcript : Shows(transcript', transcript[i].text)
    <3>1. \A i \in DOMAIN transcript : Shows(transcript', rows[i].text) BY <2>8, <2>9, <2>11, <2>12, <2>13
    <3> QED BY <2>11, <3>1
  <2> QED BY <1>2, <1>3, <2>7, <2>14, <2>15, <2>16, <2>17
<1>6. CASE ~x.current
  <2>1. streams' = streams \ {x} /\ UNCHANGED <<loads, view>> BY <1>6 DEF SnapshotReturns, IsCurrent, Current
  <2>2. StreamsOK' BY <1>1, <1>2, <2>1, LeavesOK DEF view
  <2>3. Streaming' => Streaming BY <2>1 DEF Streaming
  <2>4. ViewOK' /\ LoadsOK' /\ StreamIsInStep' /\ transcript' = transcript
    BY <2>1, <2>3, InStepStays DEF ViewOK, LoadsOK, view
  <2> QED BY <1>2, <1>3, <2>2, <2>4 DEF Shows
<1> QED BY <1>5, <1>6

\* The event that arrives first, if it is applied, is the next one; either way what is
\* left goes on from the last one that was applied.
LEMMA FirstOfWire ==
  ASSUME NEW wire \in Seq(Event), wire # <<>>, IsChain(wire), NEW q \in Nat, NEW t, GoesOn(wire, q, t),
         NEW s \in Sessions, seq[s] \in Nat
  PROVE  LET e == Head(wire) IN
         /\ e.seq > q => /\ e.seq = q + 1 /\ Follows(t, e)
                         /\ GoesOn(Tail(wire), e.seq, e.after)
                         /\ LeadsTo(wire, q, t, s) => LeadsTo(Tail(wire), e.seq, e.after, s)
         /\ ~(e.seq > q) => /\ GoesOn(Tail(wire), q, t)
                            /\ LeadsTo(wire, q, t, s) => LeadsTo(Tail(wire), q, t, s)
<1> DEFINE n == Len(wire)  e == Head(wire)  rest == Tail(wire)
<1>1. /\ rest \in Seq(Event) /\ Len(rest) = n - 1 /\ n \in Nat \ {0} /\ e = wire[1] /\ e \in Event
      /\ DOMAIN wire = 1 .. n /\ DOMAIN rest = 1 .. n - 1
      /\ \A i \in DOMAIN rest : i + 1 \in DOMAIN wire /\ rest[i] = wire[i + 1]
  BY TailWire
<1>2. rest = <<>> <=> n = 1 BY <1>1, EmptySeq
<1>3. \A i \in 1 .. n : wire[i].seq \in Nat /\ wire[i].seq = e.seq + (i - 1)
  <2>1. \A i \in 1 .. n : wire[i] \in Event BY <1>1
  <2>2. \A i \in 1 .. n : wire[i].seq = e.seq + (i - 1) BY <1>1 DEF IsChain
  <2> QED BY <2>1, <2>2, EventFields
<1>4. e.seq \in Nat /\ e.seq <= q + 1 BY <1>1, EventFields DEF GoesOn
<1>5. rest # <<>> => rest[1].seq = e.seq + 1 /\ rest[1] = wire[2] /\ Follows(e.after, wire[2])
  <2> SUFFICES ASSUME rest # <<>> PROVE rest[1].seq = e.seq + 1 /\ rest[1] = wire[2] /\ Follows(e.after, wire[2]) OBVIOUS
  <2>1. 1 \in DOMAIN rest /\ 1 \in DOMAIN wire /\ 1 + 1 \in DOMAIN wire /\ rest[1] = wire[1 + 1] BY <1>1, <1>2
  <2>2. Follows(wire[1].after, wire[1 + 1]) BY <2>1 DEF IsChain
  <2>3. wire[2].seq = e.seq + (2 - 1) BY <1>1, <1>3, <2>1
  <2> QED BY <1>1, <1>4, <2>1, <2>2, <2>3
<1>6. rest # <<>> => rest[Len(rest)] = wire[n]
  <2> SUFFICES ASSUME rest # <<>> PROVE rest[Len(rest)] = wire[n] OBVIOUS
  <2>1. n - 1 \in DOMAIN rest /\ (n - 1) + 1 = n BY <1>1, <1>2
  <2> QED BY <1>1, <2>1
<1> HIDE DEF n, e, rest
<1>7. ASSUME e.seq > q
      PROVE  /\ e.seq = q + 1 /\ Follows(t, e) /\ GoesOn(rest, e.seq, e.after)
             /\ LeadsTo(wire, q, t, s) => LeadsTo(rest, e.seq, e.after, s)
  <2>1. e.seq = q + 1 BY <1>4, <1>7
  <2>2. Follows(t, e) BY <1>1, <2>1 DEF GoesOn
  <2>3. ASSUME NEW i \in DOMAIN rest PROVE rest[i].seq # e.seq /\ (rest[i].seq = e.seq + 1 => Follows(e.after, rest[i]))
    <3>1. i \in 1 .. n - 1 /\ i + 1 \in 1 .. n /\ rest[i] = wire[i + 1] BY <1>1
    <3>2. rest[i].seq = e.seq + ((i + 1) - 1) BY <1>3, <3>1
    <3>3. rest[i].seq = e.seq + i /\ n \in Nat BY <1>1, <3>1, <3>2
    <3>4. rest # <<>> BY <1>1, <1>2, <3>1
    <3>5. CASE i = 1 BY <1>4, <1>5, <3>3, <3>4, <3>5
    <3>6. CASE i > 1 BY <1>4, <3>1, <3>3, <3>6
    <3> QED BY <3>1, <3>5, <3>6
  <2>4. GoesOn(rest, e.seq, e.after) BY <1>4, <1>5, <2>3 DEF GoesOn
  <2>5. ASSUME LeadsTo(wire, q, t, s) PROVE LeadsTo(rest, e.seq, e.after, s)
    <3>1. wire[n].seq = seq[s] /\ wire[n].after = partial[s] BY <2>5 DEF LeadsTo, n
    <3>2. n \in 1 .. n /\ wire[n].seq = e.seq + (n - 1) BY <1>1, <1>3
    <3>3. e.seq <= seq[s] BY <1>1, <1>4, <3>1, <3>2
    <3> QED BY <1>1, <1>2, <1>6, <3>1, <3>3 DEF LeadsTo
  <2> QED BY <2>1, <2>2, <2>4, <2>5
<1>8. ASSUME ~(e.seq > q)
      PROVE  GoesOn(rest, q, t) /\ (LeadsTo(wire, q, t, s) => LeadsTo(rest, q, t, s))
  <2>1. e.seq <= q BY <1>4, <1>8
  <2>2. \A i \in DOMAIN rest : (rest[i].seq = q => rest[i].after = t) /\ (rest[i].seq = q + 1 => Follows(t, rest[i]))
    BY <1>1 DEF GoesOn
  <2>3. rest # <<>> => rest[1].seq <= q + 1 BY <1>4, <1>5, <2>1
  <2>4. GoesOn(rest, q, t) BY <2>2, <2>3 DEF GoesOn
  <2>5. ASSUME LeadsTo(wire, q, t, s) PROVE LeadsTo(rest, q, t, s)
    <3>1. wire[n].seq = seq[s] /\ wire[n].after = partial[s] /\ q <= seq[s] BY <2>5 DEF LeadsTo, n
    <3>2. CASE n = 1
      <4>1. e.seq = q /\ e.seq = seq[s] /\ e.after = partial[s] BY <1>1, <1>4, <2>1, <3>1, <3>2
      <4>2. e.after = t BY <1>1, <3>2, <4>1 DEF GoesOn
      <4> QED BY <1>2, <3>1, <3>2, <4>1, <4>2 DEF LeadsTo
    <3>3. CASE n # 1 BY <1>1, <1>2, <1>6, <3>1, <3>3 DEF LeadsTo
    <3> QED BY <3>2, <3>3
  <2> QED BY <2>4, <2>5
<1> QED BY <1>7, <1>8 DEF e, rest

LEMMA EventArrivesOK ==
  ASSUME StreamInv, NEW x \in streams, EventArrives(x)
  PROVE  StreamInv' /\ \A i \in DOMAIN transcript : transcript[i].id = "own" => Shows(transcript', transcript[i].text)
<1> USE DEF StreamInv
<1>1. x.at = "streaming" /\ x.wire # <<>> /\ UNCHANGED <<daemon, selected, loads, app, loadFailed, counts>> BY DEF EventArrives
<1>2. DaemonOK' /\ UNCHANGED <<seq, partial>> BY <1>1, DaemonStays
<1>3. AppOK' /\ LoadsOK' BY <1>1 DEF AppOK, LoadsOK, app, counts
<1>4. x \in Stream /\ (\A i \in DOMAIN x.wire : x.wire[i].text # <<>>) /\ (x.current => x.session = selected /\ WireOK(x))
  BY DEF StreamsOK, StreamOK
<1>5. CASE ~x.current
  <2>1. streams' = streams \ {x} /\ UNCHANGED view BY <1>5 DEF EventArrives, IsCurrent, Current
  <2>2. StreamsOK' BY <1>1, <1>2, <2>1, LeavesOK DEF view
  <2>3. Streaming' => Streaming BY <2>1 DEF Streaming
  <2>4. ViewOK' /\ StreamIsInStep' /\ transcript' = transcript BY <2>1, <2>3, InStepStays DEF ViewOK, view
  <2> QED BY <1>2, <1>3, <2>2, <2>4 DEF Shows
<1>6. CASE x.current
  <2>1. PICK rest : rest = Tail(x.wire) OBVIOUS
  <2>2. PICK e : e = Head(x.wire) OBVIOUS
  <2>3. PICK y : y = [x EXCEPT !.wire = rest] OBVIOUS
  <2>4. /\ streams' = (streams \ {x}) \cup {y}
        /\ IF ~Applies(e) THEN UNCHANGED view
           ELSE /\ lastSeq' = e.seq /\ expected' = e.after
                /\ \/ /\ e.kind = "assistant.delta"
                      /\ live' = Extended(e.text)
                      /\ transcript' = Synchronized(transcript, live')
                   \/ /\ e.kind = "message.end"
                      /\ transcript' = Append(transcript, [id |-> "own", text |-> e.text])
                      /\ live' = <<>>
    BY <1>6, <2>1, <2>2, <2>3 DEF EventArrives, IsCurrent, Current, Becomes
  <2>5. x.wire \in Seq(Event) /\ x.session \in Sessions /\ x.session = selected BY <1>4, <1>6, StreamFields
  <2>6. /\ rest \in Seq(Event) /\ e \in Event /\ IsChain(x.wire) /\ IsChain(rest)
        /\ \A i \in DOMAIN rest : rest[i].text # <<>>
        /\ e.text # <<>>
    <3>1. IsChain(x.wire) BY <1>4, <1>6 DEF WireOK
    <3>2. 1 \in DOMAIN x.wire /\ e = x.wire[1] BY <1>1, <2>2, <2>5, TailWire
    <3> QED BY <1>1, <1>4, <2>1, <2>2, <2>5, <3>1, <3>2, TailWire
  <2>7. e.seq \in Nat /\ e.kind \in {"assistant.delta", "message.end"} /\ e.text \in Text /\ e.after \in Text BY <2>6, EventFields
  <2>8. y \in Stream /\ y.wire = rest /\ y.current = x.current /\ y.session = x.session /\ y.open = x.open /\ y.at = "streaming"
    BY <1>1, <1>4, <2>3, <2>6 DEF Stream
  <2>9. PICK q \in Nat, t \in Text : q = lastSeq /\ t = expected BY DEF ViewOK
  <2>10. GoesOn(x.wire, q, t) /\ (x.open => LeadsTo(x.wire, q, t, x.session)) BY <1>1, <1>4, <1>6, <2>9 DEF WireOK
  <2>11. seq[x.session] \in Nat BY <2>5 DEF DaemonOK
  <2>12. /\ e.seq > q => /\ e.seq = q + 1 /\ Follows(t, e)
                         /\ GoesOn(rest, e.seq, e.after)
                         /\ x.open => LeadsTo(rest, e.seq, e.after, x.session)
         /\ ~(e.seq > q) => GoesOn(rest, q, t) /\ (x.open => LeadsTo(rest, q, t, x.session))
    BY <1>1, <2>1, <2>2, <2>5, <2>6, <2>10, <2>11, FirstOfWire
  <2>13. \A z, u : LeadsTo(rest, z, u, x.session) => LeadsTo(rest, z, u, x.session)' BY <1>2 DEF LeadsTo
  <2>14. Streaming' => Streaming BY <1>1, <1>6 DEF Streaming, Current
  <2>15. CASE ~Applies(e)
    <3>1. UNCHANGED view BY <2>4, <2>15
    <3>2. lastSeq' = q /\ expected' = t BY <2>9, <3>1 DEF view
    <3>3. WireOK(y)'
      <4>1. GoesOn(rest, q, t) /\ (x.open => LeadsTo(rest, q, t, x.session)') BY <2>9, <2>12, <2>13, <2>15 DEF Applies
      <4> QED BY <2>6, <2>8, <3>2, <4>1 DEF WireOK, LeadsTo
    <3>4. StreamOK(y)' BY <1>1, <2>5, <2>6, <2>8, <3>3 DEF StreamOK
    <3>5. StreamsOK' BY <1>1, <1>2, <1>6, <2>4, <3>4, BecomesOK
    <3>6. ViewOK' /\ StreamIsInStep' /\ transcript' = transcript BY <2>14, <3>1, InStepStays DEF ViewOK, view
    <3> QED BY <1>2, <1>3, <3>5, <3>6 DEF Shows
  <2>16. CASE Applies(e)
    <3>1. /\ lastSeq' = e.seq /\ expected' = e.after
          /\ e.kind = "assistant.delta" => live' = Extended(e.text) /\ transcript' = Synchronized(transcript, live')
          /\ e.kind = "message.end" => transcript' = Append(transcript, [id |-> "own", text |-> e.text]) /\ live' = <<>>
      BY <2>4, <2>16
    <3>2. e.seq > q BY <2>9, <2>16 DEF Applies
    <3>3. WireOK(y)'
      <4>1. GoesOn(rest, e.seq, e.after) /\ (x.open => LeadsTo(rest, e.seq, e.after, x.session)') BY <2>12, <2>13, <3>2
      <4> QED BY <2>6, <2>8, <3>1, <4>1 DEF WireOK, LeadsTo
    <3>4. StreamOK(y)' BY <1>1, <2>5, <2>6, <2>8, <3>3 DEF StreamOK
    <3>5. StreamsOK' BY <1>1, <1>2, <1>6, <2>4, <3>4, BecomesOK
    <3>6. Follows(t, e) BY <2>12, <3>2
    <3>7. (IF live = <<>> THEN t = <<>> ELSE live.text = t) BY <1>1, <1>6, <2>9 DEF StreamIsInStep, Streaming, Current
    <3>8. CASE e.kind = "assistant.delta"
      <4>1. e.after = t \o e.text /\ t \o e.text \in Text /\ t \o e.text # <<>>
        <5>1. t \o e.text \in Text /\ Len(t \o e.text) = Len(t) + Len(e.text) BY <2>7, ConcatProperties DEF Text
        <5>2. Len(e.text) # 0 /\ Len(e.text) \in Nat /\ Len(t) \in Nat BY <2>6, <2>7, EmptySeq DEF Text
        <5>3. Len(t \o e.text) # 0 BY <5>1, <5>2
        <5> QED BY <3>6, <3>8, <5>1, <5>3, EmptySeq DEF Follows
      <4>2. live' \in Row /\ live'.id # "own" /\ live'.text = e.after /\ (live # <<>> => live'.id = live.id) /\ (live = <<>> => live'.id = "streaming-assistant")
        <5>1. CASE live = <<>>
          <6>1. t \o e.text = e.text BY <2>7, <3>7, <5>1, ConcatEmptySeq DEF Text
          <6>2. live' = [id |-> "streaming-assistant", text |-> e.text] BY <3>1, <3>8, <5>1 DEF Extended
          <6> QED BY <2>6, <2>7, <4>1, <5>1, <6>1, <6>2 DEF Row
        <5>2. CASE live # <<>>
          <6>1. live \in Row /\ live.id # "own" /\ live.text = t BY <3>7, <5>2 DEF ViewOK
          <6>2. live' = [live EXCEPT !.text = t \o e.text] BY <3>1, <3>8, <5>2, <6>1 DEF Extended
          <6> QED BY <4>1, <5>2, <6>1, <6>2 DEF Row
        <5> QED BY <5>1, <5>2
      <4>3. PICK m : m = live' OBVIOUS
      <4>4. PICK rows : rows = transcript OBVIOUS
      <4>5. m # <<>> BY <4>2, <4>3, RowsAreRecords
      <4>6. /\ Synchronized(rows, m) \in Rows
            /\ \A i \in DOMAIN Synchronized(rows, m) : Synchronized(rows, m)[i].id = m.id => Synchronized(rows, m)[i].text = m.text
            /\ \A i \in DOMAIN rows : rows[i].id # m.id => Shows(Synchronized(rows, m), rows[i].text)
        <5>1. rows \in Rows BY <4>4 DEF ViewOK
        <5> QED BY <4>2, <4>3, <4>5, <5>1, SynchronizedOK
      <4>7. transcript' = Synchronized(rows, m) BY <3>1, <3>8, <4>3, <4>4
      <4>8. ViewOK' BY <2>7, <3>1, <4>2, <4>3, <4>6, <4>7 DEF ViewOK
      <4>9. StreamIsInStep' BY <3>1, <4>2, <4>3, <4>5 DEF StreamIsInStep
      <4>10. \A i \in DOMAIN transcript : transcript[i].id = "own" => Shows(transcript', transcript[i].text)
        BY <4>2, <4>3, <4>4, <4>6, <4>7
      <4> QED BY <1>2, <1>3, <3>5, <4>8, <4>9, <4>10
    <3>9. CASE e.kind = "message.end"
      <4>1. e.after = <<>> BY <3>6, <3>9 DEF Follows
      <4>2. PICK row : row = [id |-> "own", text |-> e.text] OBVIOUS
      <4>3. row \in Row /\ transcript \in Rows BY <2>6, <2>7, <4>2 DEF Row, ViewOK
      <4>4. /\ transcript' \in Rows /\ DOMAIN transcript' = 1 .. Len(transcript) + 1 /\ DOMAIN transcript = 1 .. Len(transcript)
            /\ Len(transcript) \in Nat /\ \A i \in 1 .. Len(transcript) : transcript'[i] = transcript[i]
        BY <3>1, <3>9, <4>2, <4>3, AppendProperties DEF Rows
      <4>5. ViewOK' BY <2>7, <3>1, <3>9, <4>4 DEF ViewOK
      <4>6. StreamIsInStep' BY <3>1, <3>9, <4>1 DEF StreamIsInStep
      <4>7. ASSUME NEW i \in DOMAIN transcript PROVE Shows(transcript', transcript[i].text)
        <5>1. i \in DOMAIN transcript' /\ transcript'[i] = transcript[i] BY <4>4
        <5> QED BY <5>1 DEF Shows
      <4> QED BY <1>2, <1>3, <3>5, <4>5, <4>6, <4>7
    <3> QED BY <2>7, <3>8, <3>9
  <2> QED BY <2>15, <2>16
<1> QED BY <1>5, <1>6

\* The stream's task opens another one of the same session.
LEMMA TriedAgain ==
  ASSUME StreamsOK, NEW x \in streams, x.current, x.at # "answered", streams' = (streams \ {x}) \cup TriesAgain(x),
         UNCHANGED <<seq, partial, selected, view>>, StreamIsInStep
  PROVE  StreamsOK' /\ StreamIsInStep'
<1>1. PICK y : y = Opened(x.session) OBVIOUS
<1>2. x \in Stream /\ x.session = selected' /\ selected' \in Sessions /\ x.session \in Sessions
  BY StreamFields DEF StreamsOK, StreamOK
<1>3. StreamOK(y)' /\ y.current /\ y.at = "connecting" BY <1>1, <1>2, OpenedOK
<1>4. streams' = (streams \ {x}) \cup {y} BY <1>1 DEF TriesAgain
<1>5. StreamsOK' BY <1>3, <1>4, BecomesOK DEF view
<1>6. ~Streaming'
  <2>1. ASSUME NEW z \in streams', z.current PROVE z = y BY <1>3, <1>4, <2>1 DEF StreamsOK
  <2> QED BY <1>3, <2>1 DEF Streaming, Current
<1> QED BY <1>5, <1>6 DEF StreamIsInStep

LEMMA StreamFailsOK ==
  ASSUME StreamInv, NEW x \in streams, StreamFails(x)
  PROVE  StreamInv' /\ transcript' = transcript
<1> USE DEF StreamInv
<1>1. /\ x.at = "streaming" /\ x.current /\ streams' = (streams \ {x}) \cup TriesAgain(x) /\ recovery' = Recovers
      /\ UNCHANGED <<daemon, selected, loads, view, runtimeState, loadFailed, counts>>
  BY DEF StreamFails, IsCurrent, Current
<1>2. DaemonOK' /\ UNCHANGED <<seq, partial>> BY <1>1, DaemonStays
<1>3. StreamsOK' /\ StreamIsInStep' BY <1>1, <1>2, TriedAgain
<1>4. ViewOK' /\ LoadsOK' /\ transcript' = transcript BY <1>1 DEF ViewOK, LoadsOK, view
<1>5. AppOK' BY <1>1 DEF AppOK, counts, Recovers
<1> QED BY <1>2, <1>3, <1>4, <1>5

\* A connection lost what came after the first n events.
LEMMA CutStreamOK ==
  ASSUME StreamsOK, NEW x \in streams, NEW n \in 0 .. Len(x.wire), NEW y, y = [x EXCEPT !.open = FALSE, !.wire = SubSeq(@, 1, n)],
         UNCHANGED <<seq, partial, selected, lastSeq, expected>>, x.open
  PROVE  StreamOK(y)' /\ y.current = x.current /\ y.at = x.at
<1>1. x \in Stream /\ (\A i \in DOMAIN x.wire : x.wire[i].text # <<>>) /\ (x.current => x.session = selected /\ WireOK(x))
  BY DEF StreamsOK, StreamOK
<1>2. PICK cut : cut = SubSeq(x.wire, 1, n) OBVIOUS
<1>3. /\ cut \in Seq(Event)
      /\ \A i \in DOMAIN cut : i \in DOMAIN x.wire /\ cut[i] = x.wire[i]
      /\ IsChain(x.wire) => IsChain(cut)
      /\ \A q, t : GoesOn(x.wire, q, t) => GoesOn(cut, q, t)
  BY <1>1, <1>2, StreamFields, CutWire
<1>4. y = [x EXCEPT !.open = FALSE, !.wire = cut] BY <1>2
<1>5. /\ y \in Stream /\ y.wire = cut /\ y.current = x.current /\ y.session = x.session /\ y.at = x.at /\ ~y.open
      /\ y.seq = x.seq /\ y.partial = x.partial
  BY <1>1, <1>3, <1>4 DEF Stream
<1>6. ASSUME x.current PROVE WireOK(y)'
  <2>1. WireOK(x) /\ x.at # "connecting" BY <1>1, <1>6 DEF WireOK
  <2>2. IsChain(cut) BY <1>3, <2>1 DEF WireOK
  <2>3. x.at = "asking" => \A i \in DOMAIN cut : cut[i].seq <= seq'[x.session] /\ (cut[i].seq = seq'[x.session] => cut[i].after = partial'[x.session])
    BY <1>3, <2>1 DEF WireOK
  <2>4. x.at = "answered" => GoesOn(cut, x.seq, x.partial) BY <1>3, <2>1 DEF WireOK
  <2>5. x.at = "streaming" => GoesOn(cut, lastSeq', expected') BY <1>3, <2>1 DEF WireOK
  <2> QED BY <1>5, <2>1, <2>2, <2>3, <2>4, <2>5 DEF WireOK
<1>7. \A i \in DOMAIN cut : cut[i].text # <<>> BY <1>1, <1>3
<1> QED BY <1>1, <1>5, <1>6, <1>7 DEF StreamOK

LEMMA BreaksOK ==
  ASSUME StreamInv, NEW x \in streams, Breaks(x)
  PROVE  StreamInv' /\ transcript' = transcript
<1> USE DEF StreamInv
<1>1. /\ UNCHANGED <<daemon, selected, loads, view, runtimeState, loadFailed, opens>>
      /\ faults < MaxFaults /\ faults' = faults + 1
      /\ recovery' \in BOOLEAN
  BY DEF Breaks, Fault, Recovers, AppOK
<1>2. DaemonOK' /\ UNCHANGED <<seq, partial>> BY <1>1, DaemonStays
<1>3. ViewOK' /\ LoadsOK' /\ transcript' = transcript BY <1>1 DEF ViewOK, LoadsOK, view
<1>4. AppOK' BY <1>1, StreamBounds DEF AppOK
<1>5. StreamsOK' /\ StreamIsInStep'
  <2>1. CASE x.open /\ \E n \in 0..Len(x.wire) : Becomes(x, [x EXCEPT !.open = FALSE, !.wire = SubSeq(@, 1, n)])
    <3>1. PICK n \in 0 .. Len(x.wire) : Becomes(x, [x EXCEPT !.open = FALSE, !.wire = SubSeq(@, 1, n)]) BY <2>1
    <3>2. PICK y : y = [x EXCEPT !.open = FALSE, !.wire = SubSeq(@, 1, n)] OBVIOUS
    <3>3. streams' = (streams \ {x}) \cup {y} BY <3>1, <3>2 DEF Becomes
    <3>4. UNCHANGED <<lastSeq, expected, live>> BY <1>1 DEF view
    <3>5. StreamOK(y)' /\ y.current = x.current /\ y.at = x.at BY <1>1, <1>2, <2>1, <3>2, <3>4, CutStreamOK
    <3>6. StreamsOK' BY <1>1, <1>2, <3>3, <3>4, <3>5, BecomesOK
    <3>7. Streaming' => Streaming BY <3>3, <3>5 DEF Streaming, Current
    <3> QED BY <3>4, <3>6, <3>7, InStepStays
  <2>2. CASE x.at \in {"connecting", "asking"} /\ x.current /\ streams' = (streams \ {x}) \cup TriesAgain(x)
    BY <1>1, <1>2, <2>2, TriedAgain
  <2> QED BY <2>1, <2>2 DEF Breaks, IsCurrent, Current
<1> QED BY <1>2, <1>3, <1>4, <1>5

LEMMA LoadReturnsOK ==
  ASSUME StreamInv, NEW l \in loads, LoadReturns(l)
  PROVE  StreamInv' /\ HistoryReturns /\ \A i \in DOMAIN transcript : Says(transcript', transcript[i].text)
<1> USE DEF StreamInv
<1>1. /\ l.page \in Texts /\ loads' = loads \ {l}
      /\ transcript' = Synchronized(Merged(l.page), live)
      /\ UNCHANGED <<daemon, selected, streams, live, lastSeq, expected, app, loadFailed, counts>>
  BY DEF LoadReturns, LoadsOK, Request
<1>2. DaemonOK' /\ UNCHANGED <<seq, partial>> BY <1>1, DaemonStays
<1>3. StreamsOK' BY <1>1, <1>2, StreamsStay
<1>4. LoadsOK' /\ AppOK' BY <1>1 DEF LoadsOK, AppOK, app, counts
<1>5. StreamIsInStep' BY <1>1, InStepStays DEF Streaming
<1>6. PICK rows : rows = Merged(l.page) OBVIOUS
<1>7. PICK m : m = live OBVIOUS
<1>8. /\ rows \in Rows /\ \A i \in DOMAIN transcript : Says(rows, transcript[i].text)
      /\ \A j \in DOMAIN rows : rows[j].id = "own" \/ \E i \in DOMAIN transcript : rows[j] = transcript[i]
  BY <1>1, <1>6, MergedSays DEF ViewOK
<1>9. m \in Row \cup {<<>>} /\ (m # <<>> => m.id # "own") BY <1>7 DEF ViewOK
<1>10. /\ Synchronized(rows, m) \in Rows
       /\ m # <<>> => \A i \in DOMAIN Synchronized(rows, m) : Synchronized(rows, m)[i].id = m.id => Synchronized(rows, m)[i].text = m.text
       /\ \A i \in DOMAIN rows : (m = <<>> \/ rows[i].id # m.id) => Shows(Synchronized(rows, m), rows[i].text)
       /\ m # <<>> => Shows(Synchronized(rows, m), m.text)
  BY <1>8, <1>9, SynchronizedOK
<1>11. transcript' = Synchronized(rows, m) /\ live' = m BY <1>1, <1>6, <1>7
<1>12. ViewOK' BY <1>1, <1>9, <1>10, <1>11 DEF ViewOK
<1>13. ASSUME NEW i \in DOMAIN transcript PROVE Says(transcript', transcript[i].text)
  <2>1. PICK j \in DOMAIN rows : Words(rows[j].text) = Words(transcript[i].text) BY <1>8 DEF Says
  <2>2. Shows(transcript', rows[j].text)
    <3>1. CASE m = <<>> \/ rows[j].id # m.id BY <1>10, <1>11, <3>1
    <3>2. CASE m # <<>> /\ rows[j].id = m.id
      <4>1. PICK k \in DOMAIN transcript : rows[j] = transcript[k] BY <1>8, <1>9, <3>2
      <4>2. rows[j].text = m.text BY <1>7, <3>2, <4>1 DEF ViewOK
      <4> QED BY <1>10, <1>11, <3>2, <4>2
    <3> QED BY <3>1, <3>2
  <2> QED BY <2>1, <2>2 DEF Shows, Says
<1>14. HistoryReturns
  BY <1>1 DEF HistoryReturns, LoadReturns
<1> QED BY <1>2, <1>3, <1>4, <1>5, <1>12, <1>13, <1>14

LEMMA ReconnectOK ==
  ASSUME StreamInv, Reconnect \/ RecoveryBegins \/ RefreshFails \/ Wake \/ UNCHANGED vars
  PROVE  StreamInv' /\ transcript' = transcript
<1> USE DEF StreamInv
<1>1. UNCHANGED <<daemon, selected, streams, loads, view, loadFailed>>
  BY DEF Reconnect, RecoveryBegins, RefreshFails, Wake, vars
<1>2. DaemonOK' /\ UNCHANGED <<seq, partial>> BY <1>1, DaemonStays
<1>3. StreamsOK' BY <1>1, <1>2, StreamsStay DEF view
<1>4. ViewOK' /\ LoadsOK' /\ StreamIsInStep' /\ transcript' = transcript BY <1>1, InStepStays DEF ViewOK, LoadsOK, view, Streaming
<1>5. AppOK'
  <2>1. opens' \in 0 .. MaxOpens BY StreamBounds DEF AppOK, Reconnect, RecoveryBegins, RefreshFails, Wake, vars, counts
  <2>2. faults' \in 0 .. MaxFaults BY StreamBounds DEF AppOK, Reconnect, RecoveryBegins, RefreshFails, Wake, vars, counts, Fault
  <2>3. runtimeState' \in {"disconnected", "connecting", "connected", "failed"} /\ recovery' \in BOOLEAN
    BY DEF AppOK, Reconnect, RecoveryBegins, RefreshFails, Wake, vars, app
  <2> QED BY <1>1, <2>1, <2>2, <2>3 DEF AppOK
<1> QED BY <1>2, <1>3, <1>4, <1>5

LEMMA SleepOK ==
  ASSUME StreamInv, Sleep
  PROVE  StreamInv' /\ transcript' = transcript
<1> USE DEF StreamInv
<1>1. /\ UNCHANGED <<daemon, selected, loads, view, loadFailed, opens>> /\ streams' = Cancelled
      /\ faults < MaxFaults /\ faults' = faults + 1 /\ runtimeState' = "disconnected" /\ recovery' = FALSE
  BY DEF Sleep, Fault
<1>2. DaemonOK' BY <1>1, DaemonStays
<1>3. \A y \in streams' : StreamOK(y)' /\ ~y.current BY <1>1, CancelledOK
<1>4. ~Streaming' BY <1>3 DEF Streaming, Current
<1>5. StreamsOK' BY <1>3 DEF StreamsOK
<1>6. ViewOK' /\ LoadsOK' /\ StreamIsInStep' /\ transcript' = transcript BY <1>1, <1>4 DEF ViewOK, LoadsOK, view, StreamIsInStep
<1>7. AppOK'
  <2>1. faults' \in 0 .. MaxFaults BY <1>1, StreamBounds DEF AppOK
  <2>2. runtimeState' \in {"disconnected", "connecting", "connected", "failed"} /\ recovery' \in BOOLEAN BY <1>1
  <2> QED BY <1>1, <2>1, <2>2 DEF AppOK
<1> QED BY <1>2, <1>5, <1>6, <1>7

LEMMA RestartOK ==
  ASSUME StreamInv, Restart
  PROVE  StreamInv' /\ transcript' = transcript
<1> USE DEF StreamInv
<1> DEFINE asking == {x \in streams : x.at = "asking"}
<1>1. /\ seq' = [s \in Sessions |-> 0] /\ partial' = [s \in Sessions |-> <<>>]
      /\ streams' = {[x EXCEPT !.open = FALSE] : x \in streams \ asking}
                      \cup UNION {TriesAgain(x) : x \in {y \in asking : IsCurrent(y)}}
      /\ recovery' \in BOOLEAN /\ loads' \subseteq loads /\ loadFailed' \in BOOLEAN
      /\ faults < MaxFaults /\ faults' = faults + 1
      /\ UNCHANGED <<history, begun, pieces, selected, view, runtimeState, opens>>
  BY DEF Restart, Fault, Recovers, AppOK
<1>2. DaemonOK'
  <2>1. <<>> \in Text /\ Len(<<>>) = 0 /\ pieces \in Nat BY DEF Text, DaemonOK
  <2> QED BY <1>1, <2>1 DEF DaemonOK
<1>3. AppOK' /\ LoadsOK' /\ ViewOK' /\ transcript' = transcript BY <1>1, StreamBounds DEF AppOK, LoadsOK, ViewOK, view
<1>4. ASSUME NEW y \in streams'
      PROVE  /\ StreamOK(y)'
             /\ \E x \in streams : /\ y.current => x.current
                                   /\ \/ y = [x EXCEPT !.open = FALSE] /\ x.at = y.at /\ x.at # "asking"
                                      \/ y = Opened(x.session) /\ y.at = "connecting" /\ x.at = "asking"
  <2>1. CASE \E x \in streams \ asking : y = [x EXCEPT !.open = FALSE]
    <3>1. PICK x \in streams \ asking : y = [x EXCEPT !.open = FALSE] BY <2>1
    <3>2. x \in Stream /\ (\A i \in DOMAIN x.wire : x.wire[i].text # <<>>) /\ (x.current => x.session = selected /\ WireOK(x)) /\ x.at # "asking"
      BY <3>1 DEF StreamsOK, StreamOK
    <3>3. /\ y \in Stream /\ y.wire = x.wire /\ y.current = x.current /\ y.session = x.session /\ y.at = x.at /\ ~y.open
          /\ y.seq = x.seq /\ y.partial = x.partial
      BY <3>1, <3>2 DEF Stream
    <3>4. x.current => WireOK(y)' BY <1>1, <3>2, <3>3 DEF WireOK, view
    <3>5. StreamOK(y)' BY <1>1, <3>2, <3>3, <3>4 DEF StreamOK
    <3> QED BY <3>1, <3>2, <3>3, <3>5
  <2>2. CASE \E x \in asking : x.current /\ y = Opened(x.session)
    <3>1. PICK x \in asking : x.current /\ y = Opened(x.session) BY <2>2
    <3>2. x \in Stream /\ x.session = selected /\ x.session \in Sessions BY <3>1, StreamFields DEF StreamsOK, StreamOK
    <3>3. StreamOK(y)' /\ y.at = "connecting" BY <1>1, <3>1, <3>2, OpenedOK
    <3> QED BY <3>1, <3>3
  <2> QED BY <1>1, <2>1, <2>2 DEF TriesAgain, IsCurrent, Current
<1> HIDE DEF asking
<1>5. ASSUME NEW y \in streams', NEW z \in streams', y.current, z.current PROVE y = z
  <2>1. PICK u \in streams : u.current /\ \/ y = [u EXCEPT !.open = FALSE] /\ u.at # "asking"
                                          \/ y = Opened(u.session) /\ u.at = "asking"
    BY <1>4, <1>5
  <2>2. PICK v \in streams : v.current /\ \/ z = [v EXCEPT !.open = FALSE] /\ v.at # "asking"
                                          \/ z = Opened(v.session) /\ v.at = "asking"
    BY <1>4, <1>5
  <2>3. u = v BY <2>1, <2>2 DEF StreamsOK
  <2> QED BY <2>1, <2>2, <2>3
<1>6. StreamsOK' BY <1>4, <1>5 DEF StreamsOK
<1>7. Streaming' => Streaming
  <2> SUFFICES ASSUME Streaming' PROVE Streaming OBVIOUS
  <2>1. PICK y \in streams' : y.current /\ y.at = "streaming" BY DEF Streaming, Current
  <2>2. PICK x \in streams : x.current /\ x.at = y.at BY <1>4, <2>1
  <2> QED BY <2>1, <2>2 DEF Streaming, Current
<1>8. StreamIsInStep' BY <1>1, <1>7, InStepStays DEF view
<1> QED BY <1>2, <1>3, <1>6, <1>8

LEMMA InitOK == Init => StreamInv
<1> SUFFICES ASSUME Init PROVE StreamInv OBVIOUS
<1> USE DEF Init
<1>1. <<>> \in Text /\ <<>> \in Rows /\ <<>> \in Texts /\ Len(<<>>) = 0 BY DEF Text, Rows, Texts
<1>2. DaemonOK BY <1>1, StreamBounds DEF DaemonOK
<1>3. StreamsOK /\ ViewOK /\ LoadsOK BY <1>1 DEF StreamsOK, ViewOK, LoadsOK
<1>4. opens \in 0 .. MaxOpens /\ faults \in 0 .. MaxFaults BY StreamBounds
<1>5. runtimeState \in {"disconnected", "connecting", "connected", "failed"} /\ recovery \in BOOLEAN /\ loadFailed \in BOOLEAN OBVIOUS
<1>6. AppOK /\ StreamIsInStep BY <1>4, <1>5 DEF AppOK, StreamIsInStep
<1> QED BY <1>2, <1>3, <1>6 DEF StreamInv

\* A row stays as it is, or returning history takes it for another of the same words.
Stays(i) ==
  \/ Shows(transcript', transcript[i].text)
  \/ HistoryReturns /\ Says(transcript', transcript[i].text)

LEMMA StepOK ==
  ASSUME StreamInv, [Next]_vars
  PROVE  /\ StreamInv'
         /\ opens' = opens => \A i \in DOMAIN transcript : transcript[i].id = "own" => Stays(i)
<1>1. (transcript' = transcript) => \A i \in DOMAIN transcript : Stays(i) BY DEF Shows, Stays
<1>2. CASE \E s \in Sessions : Delta(s) \/ MessageEnds(s) \/ Select(s)
  BY <1>1, <1>2, DeltaOK, MessageEndsOK, SelectOK DEF Stays
<1>3. CASE \E x \in streams : StreamStep(x) \/ Breaks(x)
  BY <1>1, <1>3, ConnectsOK, AnswersSnapshotOK, SnapshotReturnsOK, EventArrivesOK, StreamFailsOK, BreaksOK DEF StreamStep, Stays
<1>4. CASE \E l \in loads : AnswersLoad(l) \/ LoadReturns(l) BY <1>1, <1>4, AnswersLoadOK, LoadReturnsOK DEF Stays
<1>5. CASE Reconnect \/ RecoveryBegins \/ RefreshFails \/ Wake \/ UNCHANGED vars BY <1>1, <1>5, ReconnectOK
<1>6. CASE RefreshEnds \/ Restart \/ Sleep BY <1>1, <1>6, RefreshEndsOK, RestartOK, SleepOK
<1> QED BY <1>2, <1>3, <1>4, <1>5, <1>6 DEF Next

LEMMA AlwaysInv == Spec => []StreamInv
<1>1. StreamInv /\ [Next]_vars => StreamInv' BY StepOK
<1> QED BY <1>1, InitOK, PTL DEF Spec

------------------------------------------------------------------------------
(* The theorems *)

\* The app's and the Runtime's state is what it is said to be: no counter passes its bound, and
\* no row of the transcript is without text.
THEOREM SessionStreamTypeOK == Spec => []TypeOK
<1>1. StreamInv => TypeOK
  <2> SUFFICES ASSUME StreamInv PROVE TypeOK OBVIOUS
  <2> USE DEF StreamInv
  <2>1. \A page \in Texts : page \in Seq(Text) BY DEF Texts
  <2>2. history \in [Sessions -> Seq(Text)] BY <2>1 DEF DaemonOK
  <2>3. \A x \in streams : x \in Stream BY DEF StreamsOK, StreamOK
  <2>4. \A l \in loads : l.session \in Sessions /\ (l.page = None \/ l.page \in Seq(Text)) BY <2>1 DEF LoadsOK, Request
  <2> QED BY <2>2, <2>3, <2>4 DEF TypeOK, DaemonOK, ViewOK, AppOK, Rows
<1> QED BY <1>1, AlwaysInv, PTL

\* Snapshot and events join: whatever was sent before the snapshot, whichever streams came before,
\* and wherever connections break or the Runtime restarts, the message shown as being streamed is
\* the one that was streamed when the Runtime sent the last event applied (applySessionEvent()).
THEOREM StreamStaysInStep == Spec => []StreamIsInStep
<1>1. StreamInv => StreamIsInStep BY DEF StreamInv
<1> QED BY <1>1, AlwaysInv, PTL

\* No words leave the transcript before a session is selected, whatever the strings of the texts
\* are: no row does in synchronizeStreamingMessage() and at events, and mergeLoadedMessages()
\* drops one only for another of the same words, however late the history was read.
THEOREM RowsStayShown == Spec => RowsStay
<1>1. StreamInv /\ [Next]_vars
        => [opens' = opens =>
              \A i \in DOMAIN transcript : transcript[i].id = "own" =>
                \/ \E j \in DOMAIN transcript' : transcript'[j].text = transcript[i].text
                \/ /\ HistoryReturns
                   /\ \E j \in DOMAIN transcript' : Words(transcript'[j].text) = Words(transcript[i].text)]_vars
  BY StepOK DEF Stays, Shows, Says
<1> QED BY <1>1, AlwaysInv, PTL DEF Spec, RowsStay
=============================================================================
