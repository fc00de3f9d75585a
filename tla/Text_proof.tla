------------------------------- MODULE Text_proof -------------------------------
(***************************************************************************)
(* Proofs about Text.  The texts that requests are made of are read as     *)
(* they were written, whatever they consist of and however long they are.  *)
(*                                                                         *)
(* What a loop of the code makes of a text is a recursion over its places: *)
(* it has one solution, since each place leads closer to the end, and what *)
(* was written is where the pieces of the text lie.  Induction is over a   *)
(* set of naturals (NatsInSet).                                            *)
(***************************************************************************)
EXTENDS Text, SequenceTheorems, WellFoundedInduction, TLAPS

(* Recursion and pieces of texts.                                          *)

(* Induction over the naturals, for a set in place of a predicate.         *)
LEMMA NatsInSet ==
    ASSUME NEW S, 0 \in S, \A n \in Nat : n \in S => n + 1 \in S
    PROVE  Nat \subseteq S
<1> DEFINE T == Nat \ S
<1>1. SUFFICES ASSUME T # {} PROVE FALSE
  OBVIOUS
<1>2. PICK x \in T : \A y \in T : ~ (<<y, x>> \in OpToRel(<, Nat))
  <2>1. T \subseteq Nat
    OBVIOUS
  <2> HIDE DEF T
  <2> QED BY <1>1, <2>1, NatLessThanWellFounded, WFMin
<1>3. \A y \in T : ~(y < x)
  BY <1>2 DEF OpToRel
<1>4. x # 0 /\ x - 1 \in Nat
  OBVIOUS
<1>5. x - 1 \in S
  BY <1>3, <1>4
<1> QED BY <1>4, <1>5

(* A recursion over D: a place in stop has its value in last, any other    *)
(* makes its value, by step, of that of the place next.                    *)
WellFounded(D, V, stop, last, next, step) ==
    /\ last \in [D -> V] /\ next \in [D -> D] /\ step \in [D -> [V -> V]]
    /\ \E M \in Nat : \E rank \in [D -> 0 .. M] :
          \A i \in D \ stop : rank[next[i]] < rank[i]

Solution(g, D, V, stop, last, next, step) ==
    /\ g \in [D -> V]
    /\ \A i \in D : g[i] = IF i \in stop THEN last[i] ELSE step[i][g[next[i]]]

(* A function that follows it at least where the values are in V.          *)
Follows(f, D, V, stop, last, next, step) ==
    /\ f = [i \in D |-> f[i]]
    /\ \A i \in D \cap stop : f[i] = last[i]
    /\ \A i \in D \ stop : f[next[i]] \in V => f[i] = step[i][f[next[i]]]

(* Such a recursion has a solution: one that is right up to a rank is so   *)
(* up to the next.                                                         *)
LEMMA Solved ==
    ASSUME NEW D, NEW V, NEW stop, NEW last, NEW next, NEW step,
           WellFounded(D, V, stop, last, next, step)
    PROVE  \E g : Solution(g, D, V, stop, last, next, step)
<1>a. PICK M \in Nat : \E rank \in [D -> 0 .. M] : \A i \in D \ stop : rank[next[i]] < rank[i]
  BY DEF WellFounded
<1>0. PICK rank \in [D -> 0 .. M] : \A i \in D \ stop : rank[next[i]] < rank[i]
  BY <1>a
<1> USE DEF WellFounded
<1> DEFINE Right(g, n) == \A i \in D : rank[i] < n =>
               g[i] = IF i \in stop THEN last[i] ELSE step[i][g[next[i]]]
           S == {n \in Nat : \E g \in [D -> V] : Right(g, n)}
<1>1. 0 \in S
  <2>1. Right(last, 0)
    BY <1>0
  <2> QED BY <2>1
<1>2. ASSUME NEW n \in Nat, n \in S PROVE n + 1 \in S
  <2>1. PICK g \in [D -> V] : Right(g, n)
    BY <1>2
  <2> DEFINE h == [i \in D |-> IF rank[i] < n THEN g[i]
                               ELSE IF i \in stop THEN last[i] ELSE step[i][g[next[i]]]]
  <2>2. h \in [D -> V]
    OBVIOUS
  <2>3. ASSUME NEW i \in D, rank[i] < n + 1
        PROVE  h[i] = IF i \in stop THEN last[i] ELSE step[i][h[next[i]]]
    <3>1. i \notin stop => h[next[i]] = g[next[i]]
      BY <1>0, <2>3
    <3> QED BY <1>0, <2>1, <2>3, <3>1
  <2>4. Right(h, n + 1)
    BY <2>3
  <2> HIDE DEF Right
  <2> QED BY <2>2, <2>4
<1>3. M + 1 \in S
  <2> HIDE DEF S
  <2> QED BY <1>1, <1>2, NatsInSet
<1>4. PICK g \in [D -> V] : Right(g, M + 1)
  BY <1>3
<1>5. Solution(g, D, V, stop, last, next, step)
  BY <1>0, <1>4 DEF Solution
<1> QED BY <1>5

(* It has one solution only.                                               *)
LEMMA OneSolution ==
    ASSUME NEW D, NEW V, NEW stop, NEW last, NEW next, NEW step, NEW f, NEW g,
           WellFounded(D, V, stop, last, next, step),
           Solution(g, D, V, stop, last, next, step),
           Follows(f, D, V, stop, last, next, step)
    PROVE  f = g
<1>a. PICK M \in Nat : \E rank \in [D -> 0 .. M] : \A i \in D \ stop : rank[next[i]] < rank[i]
  BY DEF WellFounded
<1>0. PICK rank \in [D -> 0 .. M] : \A i \in D \ stop : rank[next[i]] < rank[i]
  BY <1>a
<1> USE DEF WellFounded
<1> DEFINE E == {n \in Nat : \A i \in D : rank[i] < n => f[i] = g[i]}
<1>1. 0 \in E
  BY <1>0
<1>2. ASSUME NEW n \in Nat, n \in E PROVE n + 1 \in E
  <2>1. ASSUME NEW i \in D, rank[i] < n + 1 PROVE f[i] = g[i]
    <3>1. CASE i \in stop
      BY <3>1 DEF Solution, Follows
    <3>2. CASE i \notin stop
      <4>1. rank[next[i]] < n /\ next[i] \in D
        BY <1>0, <2>1, <3>2
      <4>2. f[next[i]] = g[next[i]] /\ g[next[i]] \in V
        BY <1>2, <4>1 DEF Solution
      <4>3. g[i] = step[i][g[next[i]]]
        BY <3>2 DEF Solution
      <4>4. f[i] = step[i][f[next[i]]]
        BY <3>2, <4>2 DEF Follows
      <4> QED BY <4>2, <4>3, <4>4
    <3> QED BY <3>1, <3>2
  <2> QED BY <2>1
<1>3. M + 1 \in E
  <2> HIDE DEF E
  <2> QED BY <1>1, <1>2, NatsInSet
<1>4. \A i \in D : f[i] = g[i]
  BY <1>0, <1>3
<1>5. f = [i \in D |-> f[i]] /\ g = [i \in D |-> g[i]]
  BY DEF Follows, Solution
<1> QED BY <1>4, <1>5

(* What FlattenSeq() of the library makes, piece by piece.                 *)
LEMMA FlattenUnfolds ==
    ASSUME NEW C, NEW seqs \in Seq(Seq(C)), Len(seqs) > 0
    PROVE  \E f \in [1 .. Len(seqs) -> Seq(C)] :
              /\ Seqs!FlattenSeq(seqs) = f[Len(seqs)]
              /\ \A i \in 1 .. Len(seqs) : f[i] = IF i = 1 THEN seqs[i] ELSE f[i-1] \o seqs[i]
<1> DEFINE D == 1 .. Len(seqs)
           last == [i \in D |-> seqs[1]]
           next == [i \in D |-> IF i = 1 THEN 1 ELSE i - 1]
           step == [i \in D |-> [x \in Seq(C) |-> x \o seqs[i]]]
           rank == [i \in D |-> i]
           flatten == CHOOSE f : f = [i \in D |-> IF i = 1 THEN seqs[i] ELSE f[i-1] \o seqs[i]]
<1>0. WellFounded(D, Seq(C), {1}, last, next, step)
  <2>1. last \in [D -> Seq(C)] /\ next \in [D -> D]
    OBVIOUS
  <2>2. step \in [D -> [Seq(C) -> Seq(C)]]
    <3>1. \A i \in D : [x \in Seq(C) |-> x \o seqs[i]] \in [Seq(C) -> Seq(C)]
      OBVIOUS
    <3> QED BY <3>1
  <2>3. Len(seqs) \in Nat /\ rank \in [D -> 0 .. Len(seqs)]
        /\ \A i \in D \ {1} : rank[next[i]] < rank[i]
    OBVIOUS
  <2> HIDE DEF last, next, step, D, rank
  <2> QED BY <2>1, <2>2, <2>3 DEF WellFounded
<1>1. PICK g : Solution(g, D, Seq(C), {1}, last, next, step)
  <2> HIDE DEF last, next, step, D
  <2> QED BY <1>0, Solved
<1>2. g \in [D -> Seq(C)] /\ \A i \in D : g[i] = IF i = 1 THEN seqs[i] ELSE g[i-1] \o seqs[i]
  <2>1. /\ g \in [D -> Seq(C)]
        /\ \A i \in D : g[i] = IF i \in {1} THEN last[i] ELSE step[i][g[next[i]]]
    BY <1>1 DEF Solution
  <2>2. ASSUME NEW i \in D, i # 1 PROVE g[i] = g[i-1] \o seqs[i]
    <3>0. next[i] = i - 1 /\ i - 1 \in D
      BY <2>2
    <3>1. g[i-1] \in Seq(C)
      BY <2>1, <3>0
    <3>2. step[i][g[i-1]] = g[i-1] \o seqs[i]
      BY <3>1
    <3> QED BY <2>1, <2>2, <3>0, <3>2
  <2>3. 1 \in D => g[1] = seqs[1]
    BY <2>1
  <2> QED BY <2>1, <2>2, <2>3
<1>3. g = [i \in D |-> IF i = 1 THEN seqs[i] ELSE g[i-1] \o seqs[i]]
  <2>1. g = [i \in D |-> g[i]]
    BY <1>2
  <2> QED BY <1>2, <2>1
<1>4. flatten = [i \in D |-> IF i = 1 THEN seqs[i] ELSE flatten[i-1] \o seqs[i]]
  BY <1>3, Zenon
<1>5. flatten = g
  <2> HIDE DEF flatten
  <2>1. ASSUME NEW i \in D, i # 1, flatten[next[i]] \in Seq(C)
        PROVE  flatten[i] = step[i][flatten[next[i]]]
    BY <1>4, <2>1
  <2>2. Follows(flatten, D, Seq(C), {1}, last, next, step)
    BY <1>4, <2>1 DEF Follows
  <2> HIDE DEF last, next, step, D
  <2> QED BY <1>0, <1>1, <2>2, OneSolution
<1>6. Seqs!FlattenSeq(seqs) = flatten[Len(seqs)]
  BY DEF Seqs!FlattenSeq
<1> HIDE DEF flatten
<1> QED BY <1>2, <1>5, <1>6

(* The characters of two texts that are put together.                      *)
LEMMA Joint ==
    ASSUME NEW C, NEW s \in Seq(C), NEW t \in Seq(C)
    PROVE  /\ s \o t \in Seq(C) /\ Len(s \o t) = Len(s) + Len(t)
           /\ \A k \in 1 .. Len(s) : (s \o t)[k] = s[k]
           /\ \A k \in 1 .. Len(t) : (s \o t)[Len(s) + k] = t[k]
<1>1. Len(s) \in Nat /\ Len(t) \in Nat
  OBVIOUS
<1>2. ASSUME NEW k \in 1 .. Len(s) PROVE (s \o t)[k] = s[k]
  <2>1. k \in 1 .. Len(s) + Len(t) /\ k <= Len(s)
    BY <1>1
  <2> QED BY <2>1, ConcatProperties
<1>3. ASSUME NEW k \in 1 .. Len(t) PROVE (s \o t)[Len(s) + k] = t[k]
  <2>1. Len(s) + k \in 1 .. Len(s) + Len(t) /\ ~(Len(s) + k <= Len(s)) /\ Len(s) + k - Len(s) = k
    BY <1>1
  <2>2. (s \o t)[Len(s) + k] = t[Len(s) + k - Len(s)]
    BY <2>1, ConcatProperties
  <2> QED BY <2>1, <2>2
<1> QED BY <1>2, <1>3, ConcatProperties

(* The pieces s[1] to s[n] make up the whole, one behind the other: off[i] *)
(* is the place of the end of the i-th.                                    *)
PiecesOf(whole, s, n, off) ==
    /\ off \in [0 .. n -> Nat] /\ off[0] = 0 /\ off[n] = Len(whole)
    /\ \A i \in 1 .. n : off[i] = off[i - 1] + Len(s[i])
    /\ \A i \in 1 .. n : \A k \in 1 .. Len(s[i]) :
          off[i - 1] + k \in 1 .. Len(whole) /\ whole[off[i - 1] + k] = s[i][k]

(* PiecesOf that are put one behind the other: each is in the whole, behind  *)
(* those before it.                                                        *)
LEMMA PiecesLaid ==
    ASSUME NEW C, NEW n \in Nat \ {0}, NEW s \in [1 .. n -> Seq(C)],
           NEW f \in [1 .. n -> Seq(C)],
           \A i \in 1 .. n : f[i] = IF i = 1 THEN s[i] ELSE f[i-1] \o s[i]
    PROVE  \E off : PiecesOf(f[n], s, n, off)
<1> DEFINE off == [i \in 0 .. n |-> IF i = 0 THEN 0 ELSE Len(f[i])]
           Placed(m) == m <= n => \A i \in 1 .. m : \A k \in 1 .. Len(s[i]) :
               off[i - 1] + k \in 1 .. off[m] /\ f[m][off[i - 1] + k] = s[i][k]
           S == {m \in Nat : Placed(m)}
<1>1. /\ off \in [0 .. n -> Nat] /\ off[0] = 0
      /\ \A i \in 1 .. n : off[i] = Len(f[i])
  <2>1. \A i \in 1 .. n : Len(f[i]) \in Nat
    OBVIOUS
  <2> QED BY <2>1
<1>2. ASSUME NEW i \in 1 .. n
      PROVE  /\ off[i] = off[i - 1] + Len(s[i])
             /\ \A k \in 1 .. off[i - 1] : f[i][k] = f[i - 1][k]
             /\ \A k \in 1 .. Len(s[i]) : f[i][off[i - 1] + k] = s[i][k]
  <2>0. s[i] \in Seq(C)
    OBVIOUS
  <2>1. CASE i = 1
    <3>1. f[i] = s[i] /\ off[i - 1] = 0 /\ off[i] = Len(s[i])
      BY <1>1, <2>1
    <3> HIDE DEF off
    <3> QED BY <2>0, <3>1
  <2>2. CASE i # 1
    <3>1. i - 1 \in 1 .. n
      BY <2>2
    <3>2. f[i - 1] \in Seq(C) /\ f[i] = f[i - 1] \o s[i]
      BY <2>2, <3>1
    <3>3. off[i - 1] = Len(f[i - 1]) /\ off[i] = Len(f[i])
      BY <1>1, <3>1
    <3> HIDE DEF off
    <3>4. /\ Len(f[i]) = Len(f[i - 1]) + Len(s[i])
          /\ \A k \in 1 .. Len(f[i - 1]) : f[i][k] = f[i - 1][k]
          /\ \A k \in 1 .. Len(s[i]) : f[i][Len(f[i - 1]) + k] = s[i][k]
      <4>1. PICK x, y : x = f[i - 1] /\ y = s[i]
        OBVIOUS
      <4>2. x \in Seq(C) /\ y \in Seq(C) /\ f[i] = x \o y
        BY <2>0, <3>2, <4>1
      <4>3. /\ Len(x \o y) = Len(x) + Len(y)
            /\ \A k \in 1 .. Len(x) : (x \o y)[k] = x[k]
            /\ \A k \in 1 .. Len(y) : (x \o y)[Len(x) + k] = y[k]
        BY <4>2, Joint
      <4> QED BY <4>1, <4>2, <4>3
    <3> QED BY <3>3, <3>4
  <2> QED BY <2>1, <2>2
<1> HIDE DEF off
<1>3. 0 \in S
  OBVIOUS
<1>4. ASSUME NEW m \in Nat, m \in S PROVE m + 1 \in S
  <2>1. ASSUME m + 1 <= n, NEW i \in 1 .. m + 1, NEW k \in 1 .. Len(s[i])
        PROVE  off[i - 1] + k \in 1 .. off[m + 1] /\ f[m + 1][off[i - 1] + k] = s[i][k]
    <3>1. m + 1 \in 1 .. n /\ m \in 0 .. n /\ i \in 1 .. n /\ i - 1 \in 0 .. n
      BY <2>1
    <3>2. s[i] \in Seq(C) /\ s[m + 1] \in Seq(C)
      BY <3>1
    <3>3. /\ Len(s[i]) \in Nat /\ Len(s[m + 1]) \in Nat /\ k \in Nat
          /\ off[m] \in Nat /\ off[m + 1] \in Nat /\ off[i - 1] \in Nat
      BY <1>1, <3>1, <3>2
    <3>4. off[m + 1] = off[m] + Len(s[m + 1])
      BY <1>2, <3>1
    <3>5. CASE i = m + 1
      BY <1>2, <2>1, <3>1, <3>3, <3>4, <3>5
    <3>6. CASE i # m + 1
      <4>1. off[i - 1] + k \in 1 .. off[m] /\ f[m][off[i - 1] + k] = s[i][k]
        BY <1>4, <2>1, <3>6
      <4>2. f[m + 1][off[i - 1] + k] = f[m][off[i - 1] + k]
        <5>1. m = (m + 1) - 1
          OBVIOUS
        <5>2. \A j \in 1 .. off[(m + 1) - 1] : f[m + 1][j] = f[(m + 1) - 1][j]
          BY <1>2, <3>1
        <5> QED BY <4>1, <5>1, <5>2
      <4>3. off[i - 1] + k \in 1 .. off[m + 1]
        <5>1. off[i - 1] + k <= off[m] /\ off[i - 1] + k \in Nat /\ 1 <= off[i - 1] + k
          BY <3>3, <4>1
        <5>2. off[m] <= off[m + 1]
          BY <3>3, <3>4
        <5> QED BY <3>3, <5>1, <5>2
      <4> QED BY <4>1, <4>2, <4>3
    <3> QED BY <3>5, <3>6
  <2> QED BY <2>1
<1>5. n \in S
  <2> HIDE DEF S
  <2> QED BY <1>3, <1>4, NatsInSet
<1>6. \A i \in 1 .. n : \A k \in 1 .. Len(s[i]) :
         off[i - 1] + k \in 1 .. off[n] /\ f[n][off[i - 1] + k] = s[i][k]
  <2>1. Placed(n)
    BY <1>5
  <2> QED BY <2>1
<1>7. off[n] = Len(f[n])
  BY <1>1
<1>8. PiecesOf(f[n], s, n, off)
  BY <1>1, <1>2, <1>6, <1>7 DEF PiecesOf
<1> QED BY <1>8

(* A flattened sequence of texts is these texts, one behind the other.     *)
LEMMA Flattened ==
    ASSUME NEW C, NEW seqs \in Seq(Seq(C))
    PROVE  /\ Seqs!FlattenSeq(seqs) \in Seq(C)
           /\ \E off : PiecesOf(Seqs!FlattenSeq(seqs), seqs, Len(seqs), off)
<1>1. CASE Len(seqs) = 0
  <2>1. Seqs!FlattenSeq(seqs) = <<>> /\ seqs = <<>>
    BY <1>1 DEF Seqs!FlattenSeq
  <2> DEFINE off == [i \in 0 .. 0 |-> 0]
  <2>2. PiecesOf(<<>>, <<>>, 0, off)
    BY DEF PiecesOf
  <2> HIDE DEF off
  <2>3. PiecesOf(Seqs!FlattenSeq(seqs), seqs, Len(seqs), off)
    BY <1>1, <2>1, <2>2
  <2> QED BY <2>1, <2>3
<1>2. CASE Len(seqs) > 0
  <2>1. Len(seqs) \in Nat \ {0} /\ seqs \in [1 .. Len(seqs) -> Seq(C)]
    BY <1>2
  <2>2. PICK f \in [1 .. Len(seqs) -> Seq(C)] :
          /\ Seqs!FlattenSeq(seqs) = f[Len(seqs)]
          /\ \A i \in 1 .. Len(seqs) : f[i] = IF i = 1 THEN seqs[i] ELSE f[i-1] \o seqs[i]
    BY <1>2, FlattenUnfolds
  <2>3. \E off : PiecesOf(f[Len(seqs)], seqs, Len(seqs), off)
    BY <2>1, <2>2, PiecesLaid
  <2>4. f[Len(seqs)] \in Seq(C)
    BY <2>1, <2>2
  <2> QED BY <2>2, <2>3, <2>4
<1> QED
  <2>1. Len(seqs) \in Nat
    OBVIOUS
  <2> QED BY <1>1, <1>2, <2>1

-----------------------------------------------------------------------------
(* A command for the guest: json_escape() (src/util.c:203-225).            *)

(* A walk through a text to the right, that puts what it makes of each     *)
(* place before what it makes of the rest.                                 *)
Walk(g, N, stop, last, next, made) ==
    g = [i \in 1 .. N |-> IF i \in stop THEN last[i] ELSE made[i] \o g[next[i]]]

(* A walk has values, and they are texts.                                  *)
LEMMA Walks ==
    ASSUME NEW N \in Nat, NEW W, NEW stop, NEW last \in [1 .. N -> Seq(W)],
           NEW next \in [1 .. N -> 1 .. N], NEW made \in [1 .. N -> Seq(W)],
           \A i \in (1 .. N) \ stop : i < next[i]
    PROVE  /\ \E g : Walk(g, N, stop, last, next, made)
           /\ \A g : Walk(g, N, stop, last, next, made) => g \in [1 .. N -> Seq(W)]
<1> DEFINE D == 1 .. N
           V == Seq(W)
           step == [i \in D |-> [x \in V |-> made[i] \o x]]
<1>1. WellFounded(D, V, stop, last, next, step)
  <2>1. step \in [D -> [V -> V]]
    <3>1. \A i \in D : [x \in V |-> made[i] \o x] \in [V -> V]
      OBVIOUS
    <3> QED BY <3>1
  <2> DEFINE rank == [i \in D |-> N - i]
  <2>2. rank \in [D -> 0 .. N] /\ \A i \in D \ stop : rank[next[i]] < rank[i]
    OBVIOUS
  <2> HIDE DEF step, rank
  <2> QED BY <2>1, <2>2 DEF WellFounded
<1>2. ASSUME NEW i \in D, NEW x \in V PROVE step[i][x] = made[i] \o x
  OBVIOUS
<1> HIDE DEF step
<1>3. PICK g : Solution(g, D, V, stop, last, next, step)
  <2> HIDE DEF D, V
  <2> QED BY <1>1, Solved
<1>4. Walk(g, N, stop, last, next, made)
  <2>1. g \in [D -> V]
    BY <1>3 DEF Solution
  <2>2. ASSUME NEW i \in D
        PROVE  g[i] = IF i \in stop THEN last[i] ELSE made[i] \o g[next[i]]
    <3>1. g[next[i]] \in V
      BY <2>1
    <3> QED BY <1>2, <1>3, <3>1 DEF Solution
  <2> QED BY <2>1, <2>2 DEF Walk
<1>5. ASSUME NEW h, Walk(h, N, stop, last, next, made) PROVE h \in [D -> V]
  <2>1. h = [i \in D |-> IF i \in stop THEN last[i] ELSE made[i] \o h[next[i]]]
    BY <1>5 DEF Walk
  <2>2. Follows(h, D, V, stop, last, next, step)
    BY <1>2, <2>1 DEF Follows
  <2>3. h = g
    <3> HIDE DEF D, V
    <3> QED BY <1>1, <1>3, <2>2, OneSolution
  <2> QED BY <1>3, <2>3 DEF Solution
<1> QED BY <1>4, <1>5

(* What the agent reads from each place on.                                *)
JsonReading(g, text) ==
    \A i \in 1 .. Len(text) :
        /\ text[i] = "quote" /\ i = Len(text) => g[i] = <<>>
        /\ text[i] = "backslash" /\ i < Len(text) =>
              g[i] = <<Unescaped(text[i + 1])>> \o g[i + 2]
        /\ text[i] \notin {"newline", "return", "tab", "quote", "backslash"} =>
              g[i] = <<text[i]>> \o g[i + 1]

(* JsonRead() is such a walk.                                              *)
LEMMA JsonReadWalks ==
    ASSUME NEW C, NEW text \in Seq(C)
    PROVE  \E g : JsonReading(g, text) /\ JsonRead(text) = g[1]
<1> DEFINE W == C \cup {"invalid", "newline", "return", "tab"}
           L == Len(text)
           D == 1 .. L + 2
           reading(f, i) ==
             IF i > Len(text) \/ text[i] \in {"newline", "return", "tab"} THEN <<"invalid">>
             ELSE IF text[i] = "quote" THEN IF i = Len(text) THEN <<>> ELSE <<"invalid">>
             ELSE IF text[i] = "backslash"
                 THEN IF i = Len(text) THEN <<"invalid">>
                      ELSE <<Unescaped(text[i + 1])>> \o f[i + 2]
             ELSE <<text[i]>> \o f[i + 1]
           escape(i) == text[i] = "backslash"
           stop == {i \in D : \/ i > L \/ text[i] \in {"newline", "return", "tab", "quote"}
                              \/ escape(i) /\ i = L}
           last == [i \in D |-> IF i = L /\ text[i] = "quote" THEN <<>> ELSE <<"invalid">>]
           next == [i \in D |-> IF i \in stop THEN i ELSE IF escape(i) THEN i + 2 ELSE i + 1]
           made == [i \in D |-> IF i \in stop THEN <<>> ELSE
                                IF escape(i) THEN <<Unescaped(text[i + 1])>> ELSE <<text[i]>>]
           from == CHOOSE f : f = [i \in D |-> reading(f, i)]
<1>0. L \in Nat /\ \A i \in 1 .. L : text[i] \in C
  OBVIOUS
<1> HIDE DEF L
<1>s. \A c \in W : <<c>> \in Seq(W)
  <2> HIDE DEF W
  <2> QED OBVIOUS
<1>1. last \in [D -> Seq(W)]
  <2>1. <<>> \in Seq(W) /\ <<"invalid">> \in Seq(W)
    BY <1>s
  <2> HIDE DEF W
  <2> QED BY <2>1
<1>2. next \in [D -> D] /\ \A i \in D \ stop : i < next[i]
  BY <1>0
<1>3. made \in [D -> Seq(W)]
  <2>1. ASSUME NEW i \in D, i \notin stop PROVE made[i] \in Seq(W)
    <3>1. i \in 1 .. L /\ (escape(i) => i + 1 \in 1 .. L)
      BY <1>0, <2>1
    <3>2. text[i] \in W /\ (escape(i) => Unescaped(text[i + 1]) \in W)
      BY <1>0, <3>1 DEF Unescaped
    <3> HIDE DEF W
    <3> QED BY <1>s, <2>1, <3>2
  <2>2. ASSUME NEW i \in D, i \in stop PROVE made[i] \in Seq(W)
    <3> HIDE DEF W
    <3> QED BY <2>2
  <2>3. made = [i \in D |-> made[i]]
    OBVIOUS
  <2> HIDE DEF made, W
  <2> QED BY <2>1, <2>2, <2>3
<1>4. ASSUME NEW f, NEW i \in D
      PROVE  reading(f, i) = IF i \in stop THEN last[i] ELSE made[i] \o f[next[i]]
  BY <1>0 DEF L
<1>5. \A f : Walk(f, L + 2, stop, last, next, made) <=> f = [i \in D |-> reading(f, i)]
  <2> HIDE DEF stop, last, next, made, reading
  <2> QED BY <1>4 DEF Walk
<1>6. from = [i \in D |-> reading(from, i)] /\ from \in [D -> Seq(W)]
  <2>0. L + 2 \in Nat
    BY <1>0
  <2>1. \E g : Walk(g, L + 2, stop, last, next, made)
    <3> HIDE DEF stop, last, next, made, reading, W
    <3> QED BY <1>0, <1>1, <1>2, <1>3, <2>0, Walks
  <2>2. \A g : Walk(g, L + 2, stop, last, next, made) => g \in [D -> Seq(W)]
    <3> HIDE DEF stop, last, next, made, reading, W
    <3> QED BY <1>0, <1>1, <1>2, <1>3, <2>0, Walks
  <2> HIDE DEF stop, last, next, made, reading, W
  <2>3. \E f : f = [i \in D |-> reading(f, i)]
    BY <1>5, <2>1
  <2>4. from = [i \in D |-> reading(from, i)]
    BY <2>3, Zenon
  <2> QED BY <1>5, <2>2, <2>4
<1>7. JsonRead(text) = from[1]
  BY DEF JsonRead, L
<1>8. \A i \in 1 .. L : from[i] = reading(from, i)
  <2>1. \A i \in 1 .. L : i \in D
    BY <1>0
  <2> HIDE DEF D, reading, from
  <2> QED BY <1>6, <2>1
<1> HIDE DEF from
<1>9. JsonReading(from, text)
  <2> SUFFICES ASSUME NEW i \in 1 .. Len(text)
               PROVE
        /\ text[i] = "quote" /\ i = Len(text) => from[i] = <<>>
        /\ text[i] = "backslash" /\ i < Len(text) =>
              from[i] = <<Unescaped(text[i + 1])>> \o from[i + 2]
        /\ text[i] \notin {"newline", "return", "tab", "quote", "backslash"} =>
              from[i] = <<text[i]>> \o from[i + 1]
    BY DEF JsonReading
  <2>1. from[i] = reading(from, i) /\ ~(i > Len(text)) /\ (i < Len(text) => i # Len(text))
    BY <1>0, <1>8 DEF L
  <2> QED BY <2>1, Zenon
<1> QED BY <1>7, <1>9

(* What json_escape() makes of a character: itself, or a backslash and     *)
(* what means the character behind it.                                     *)
LEMMA JsonCharKept ==
    ASSUME NEW c
    PROVE  \/ /\ c \notin {"newline", "return", "tab", "quote", "backslash"}
              /\ JsonChar(c) = <<c>>
           \/ \E d \in {c, "n", "r", "t"} :
                 JsonChar(c) = <<"backslash", d>> /\ Unescaped(d) = c
BY DEF JsonChar, Unescaped

(* Each character is read from the place of its piece.                     *)
ReadsOn(text, off, g) ==
    \A i \in 1 .. Len(text) : g[off[i - 1] + 1] = <<text[i]>> \o g[off[i] + 1]

(* A text is read as it was written if each of its characters is, from the *)
(* place of its piece on.                                                  *)
LEMMA ReadBack ==
    ASSUME NEW C, NEW text \in Seq(C), NEW whole, NEW pieces, NEW off, NEW g,
           PiecesOf(whole, pieces, Len(text), off),
           g[Len(whole) + 1] = <<>>, ReadsOn(text, off, g)
    PROVE  g[1] = text
<1> USE DEF ReadsOn
<1> DEFINE n == Len(text)
           Read(m) == m <= n => g[off[n - m] + 1] = SubSeq(text, n - m + 1, n)
           S == {m \in Nat : Read(m)}
<1>0. n \in Nat
  OBVIOUS
<1>1. off[0] = 0 /\ off[n] = Len(whole)
  BY DEF PiecesOf
<1>2. 0 \in S
  <2>1. SubSeq(text, n + 1, n) = <<>> /\ n - 0 = n
    BY <1>0, SubSeqEmpty
  <2> QED BY <1>1, <2>1
<1>3. ASSUME NEW m \in Nat, m \in S PROVE m + 1 \in S
  <2> SUFFICES ASSUME m + 1 <= n
               PROVE  g[off[n - (m + 1)] + 1] = SubSeq(text, n - (m + 1) + 1, n)
    BY <1>0
  <2> DEFINE i == n - m
  <2>1. i \in 1 .. n /\ n - (m + 1) = i - 1 /\ n - (m + 1) + 1 = i
    BY <1>0
  <2>2. g[off[i] + 1] = SubSeq(text, i + 1, n)
    <3>1. Read(m) /\ m <= n
      BY <1>0, <1>3
    <3> QED BY <3>1
  <2>3. SubSeq(text, i, n) = <<text[i]>> \o SubSeq(text, i + 1, n)
    BY <1>0, <2>1, SubSeqRecursiveFirst
  <2> HIDE DEF i
  <2> QED BY <2>1, <2>2, <2>3
<1>4. n \in S
  <2> HIDE DEF S
  <2> QED BY <1>0, <1>2, <1>3, NatsInSet
<1>5. g[off[0] + 1] = SubSeq(text, 1, n)
  BY <1>0, <1>4
<1>6. SubSeq(text, 1, n) = text
  BY SubSeqFull
<1> QED BY <1>1, <1>5, <1>6

(* A command comes to the shell of the guest as it was.                    *)
THEOREM EscapeRead ==
    ASSUME NEW C, NEW text \in Seq(C)
    PROVE  JsonRead(Append(JsonEscape(text), "quote")) = text
<1> DEFINE B == C \cup {"quote", "backslash", "n", "r", "t"}
           pieces == [i \in 1 .. Len(text) |-> JsonChar(text[i])]
           whole == JsonEscape(text)
           message == Append(whole, "quote")
<1>1. Len(text) \in Nat /\ DOMAIN text = 1 .. Len(text) /\ \A i \in 1 .. Len(text) : text[i] \in C
  OBVIOUS
<1>2. /\ pieces \in Seq(Seq(B)) /\ Len(pieces) = Len(text)
      /\ \A i \in 1 .. Len(text) : pieces[i] = JsonChar(text[i])
  <2>1. ASSUME NEW c \in C PROVE JsonChar(c) \in Seq(B)
    <3>1. \A x, y \in B : <<x>> \in Seq(B) /\ <<x, y>> \in Seq(B)
      <4> HIDE DEF B
      <4> QED OBVIOUS
    <3>2. {c, "backslash", "n", "r", "t"} \subseteq B
      OBVIOUS
    <3> HIDE DEF B
    <3> QED BY <3>1, <3>2, JsonCharKept
  <2> HIDE DEF B
  <2> QED BY <1>1, <2>1
<1>3. whole = Seqs!FlattenSeq(pieces)
  BY <1>1 DEF JsonEscape
<1>4. whole \in Seq(B) /\ \E off : PiecesOf(whole, pieces, Len(text), off)
  <2> HIDE DEF pieces, whole, B
  <2> QED BY <1>2, <1>3, Flattened
<1>5. PICK off : PiecesOf(whole, pieces, Len(text), off)
  BY <1>4
<1> HIDE DEF pieces, whole
<1>6. message \in Seq(B) /\ Len(message) = Len(whole) + 1 /\ Len(whole) \in Nat
      /\ message[Len(whole) + 1] = "quote" /\ \A k \in 1 .. Len(whole) : message[k] = whole[k]
  <2>1. "quote" \in B
    OBVIOUS
  <2> HIDE DEF B
  <2> QED BY <1>4, <2>1
<1> HIDE DEF message
<1>7. PICK g : JsonReading(g, message) /\ JsonRead(message) = g[1]
  <2> HIDE DEF B
  <2> QED BY <1>6, JsonReadWalks
<1>8. g[Len(whole) + 1] = <<>>
  <2>1. Len(message) \in 1 .. Len(message) /\ message[Len(message)] = "quote"
    BY <1>6
  <2> QED BY <1>6, <1>7, <2>1 DEF JsonReading
<1>9. ASSUME NEW i \in 1 .. Len(text) PROVE g[off[i - 1] + 1] = <<text[i]>> \o g[off[i] + 1]
  <2> DEFINE at == off[i - 1] + 1
  <2>1. /\ off[i] = off[i - 1] + Len(pieces[i]) /\ off[i - 1] \in Nat
        /\ \A k \in 1 .. Len(pieces[i]) :
              off[i - 1] + k \in 1 .. Len(whole) /\ whole[off[i - 1] + k] = pieces[i][k]
    <3>1. i - 1 \in 0 .. Len(text)
      BY <1>1
    <3> QED BY <1>5, <3>1 DEF PiecesOf
  <2>2. CASE /\ text[i] \notin {"newline", "return", "tab", "quote", "backslash"}
             /\ pieces[i] = <<text[i]>>
    <3>1. Len(pieces[i]) = 1 /\ pieces[i][1] = text[i]
      BY <2>2
    <3>2. at \in 1 .. Len(message) /\ message[at] = text[i] /\ off[i] + 1 = at + 1
      BY <1>6, <2>1, <3>1
    <3> QED BY <1>7, <2>2, <3>2 DEF JsonReading
  <2>3. ASSUME NEW d, pieces[i] = <<"backslash", d>>, Unescaped(d) = text[i]
        PROVE  g[at] = <<text[i]>> \o g[off[i] + 1]
    <3>1. Len(pieces[i]) = 2 /\ pieces[i][1] = "backslash" /\ pieces[i][2] = d
      BY <2>3
    <3>2. /\ at \in 1 .. Len(message) /\ at < Len(message) /\ off[i] + 1 = at + 2
          /\ message[at] = "backslash" /\ message[at + 1] = d
      <4>1. 1 \in 1 .. Len(pieces[i]) /\ 2 \in 1 .. Len(pieces[i])
        BY <3>1
      <4>2. /\ at \in 1 .. Len(whole) /\ at + 1 \in 1 .. Len(whole)
            /\ whole[at] = "backslash" /\ whole[at + 1] = d
        BY <2>1, <3>1, <4>1
      <4> QED BY <1>6, <2>1, <3>1, <4>2
    <3> QED BY <1>7, <2>3, <3>2 DEF JsonReading
  <2> QED BY <1>2, <2>2, <2>3, JsonCharKept
<1>10. g[1] = text
  <2>1. ReadsOn(text, off, g)
    BY <1>9 DEF ReadsOn
  <2> QED BY <1>5, <1>8, <2>1, ReadBack
<1> QED BY <1>7, <1>10 DEF message, whole

-----------------------------------------------------------------------------
(* Forms: url_decode() (src/util.c:96-125).                                *)

(* What a browser makes of a character: "+", itself, or an escape, which   *)
(* stands for it.                                                          *)
LEMMA FormCharKept ==
    ASSUME NEW c, NEW plus \in BOOLEAN
    PROVE  \/ c = " " /\ FormChar(c, plus) = <<"+">>
           \/ c \notin {"%", "&", "+", "=", " "} /\ FormChar(c, plus) = <<c>>
           \/ \E x, y \in HexDigits :
                 FormChar(c, plus) = <<"%", x, y>> /\ CharOf(<<x, y>>) = c
<1>1. ASSUME c \in Escaped
      PROVE  /\ HexOf(c) = <<HexOf(c)[1], HexOf(c)[2]>>
             /\ HexOf(c)[1] \in HexDigits /\ HexOf(c)[2] \in HexDigits
             /\ CharOf(<<HexOf(c)[1], HexOf(c)[2]>>) = c
  <2>1. /\ HexOf(c) = <<HexOf(c)[1], HexOf(c)[2]>>
        /\ HexOf(c)[1] \in HexDigits /\ HexOf(c)[2] \in HexDigits
    BY <1>1 DEF HexOf, Escaped, HexDigits
  <2>2. \A d \in Escaped : HexOf(d)[2] = HexOf(c)[2] => d = c
    BY <1>1 DEF HexOf, Escaped
  <2>3. {d \in Escaped : HexOf(d) = HexOf(c)} = {c}
    BY <1>1, <2>2
  <2>4. (CHOOSE d \in {c} : TRUE) = c
    OBVIOUS
  <2>5. CharOf(HexOf(c)) = c
    BY <2>3, <2>4 DEF CharOf
  <2> QED BY <2>1, <2>5
<1>2. CASE c \notin Escaped
  <2>1. c \notin {"%", "&", "+", "=", " "}
    BY <1>2 DEF Escaped
  <2>2. FormChar(c, plus) = <<c>>
    BY <1>2, <2>1 DEF FormChar
  <2> QED BY <2>1, <2>2
<1>3. CASE c = " " /\ plus
  <2>1. " " \in Escaped
    BY DEF Escaped
  <2>2. FormChar(c, plus) = <<"+">>
    BY <1>3, <2>1 DEF FormChar
  <2> QED BY <1>3, <2>2
<1>4. CASE c \in Escaped /\ ~(c = " " /\ plus)
  <2>1. FormChar(c, plus) = <<"%", HexOf(c)[1], HexOf(c)[2]>>
    BY <1>4, Zenon DEF FormChar
  <2> QED BY <1>1, <1>4, <2>1
<1> QED BY <1>2, <1>3, <1>4

(* What url_decode() makes of the text from each place on.                 *)
UrlDecoding(g, text) ==
    /\ g[Len(text) + 1] = <<>>
    /\ \A i \in 1 .. Len(text) :
        /\ /\ text[i] = "%" /\ i + 2 <= Len(text)
           /\ {text[i + 1], text[i + 2]} \subseteq HexDigits
           => g[i] = <<CharOf(<<text[i + 1], text[i + 2]>>)>> \o g[i + 3]
        /\ text[i] # "%" => g[i] = <<IF text[i] = "+" THEN " " ELSE text[i]>> \o g[i + 1]

(* UrlDecode() is such a walk.                                             *)
LEMMA UrlDecodeWalks ==
    ASSUME NEW C, NEW text \in Seq(C)
    PROVE  \E g : UrlDecoding(g, text) /\ UrlDecode(text) = g[1]
<1> DEFINE W == C \cup {" ", "other"} \cup Escaped
           L == Len(text)
           D == 1 .. L + 3
           escape(i) == /\ text[i] = "%" /\ i + 2 <= Len(text)
                        /\ {text[i + 1], text[i + 2]} \subseteq HexDigits
           reading(f, i) ==
             IF i > Len(text) THEN <<>>
             ELSE IF text[i] = "%" /\ i + 2 <= Len(text)
                    /\ {text[i + 1], text[i + 2]} \subseteq HexDigits
                 THEN <<CharOf(<<text[i + 1], text[i + 2]>>)>> \o f[i + 3]
             ELSE <<IF text[i] = "+" THEN " " ELSE text[i]>> \o f[i + 1]
           stop == {i \in D : i > L}
           last == [i \in D |-> <<>>]
           next == [i \in D |-> IF i > L THEN i ELSE IF escape(i) THEN i + 3 ELSE i + 1]
           made == [i \in D |-> IF i > L THEN <<>> ELSE
                                IF escape(i) THEN <<CharOf(<<text[i + 1], text[i + 2]>>)>>
                                ELSE <<IF text[i] = "+" THEN " " ELSE text[i]>>]
           from == CHOOSE f : f = [i \in D |-> reading(f, i)]
<1>0. L \in Nat /\ \A i \in 1 .. L : text[i] \in C
  OBVIOUS
<1> HIDE DEF L
<1>s. \A c \in W : <<c>> \in Seq(W)
  <2> HIDE DEF W
  <2> QED OBVIOUS
<1>1. last \in [D -> Seq(W)]
  <2> HIDE DEF W
  <2> QED OBVIOUS
<1>2. next \in [D -> D] /\ \A i \in D \ stop : i < next[i]
  <2>1. \A i \in D : i <= L => i + 1 \in D
    BY <1>0
  <2>2. \A i \in D : i <= L /\ escape(i) => i + 3 \in D
    BY <1>0 DEF L
  <2> HIDE DEF escape
  <2> QED BY <1>0, <2>1, <2>2
<1>3. made \in [D -> Seq(W)]
  <2>1. \A x : CharOf(x) \in W
    BY DEF CharOf
  <2>2. ASSUME NEW i \in D, i <= L
        PROVE  (IF text[i] = "+" THEN " " ELSE text[i]) \in W
    <3>1. i \in 1 .. L
      BY <1>0, <2>2
    <3> QED BY <1>0, <3>1
  <2> HIDE DEF W
  <2>3. ASSUME NEW i \in D PROVE made[i] \in Seq(W)
    <3>0. i \in Int
      BY <1>0
    <3>1. CASE i > L
      <4>1. made[i] = <<>>
        BY <3>1, Zenon
      <4> HIDE DEF made
      <4> QED BY <4>1
    <3>2. CASE i <= L
      <4>1. \/ made[i] = <<CharOf(<<text[i + 1], text[i + 2]>>)>>
            \/ made[i] = <<IF text[i] = "+" THEN " " ELSE text[i]>>
        <5> ~(i > L)
          BY <1>0, <3>0, <3>2
        <5> HIDE DEF escape
        <5> QED BY Zenon
      <4> HIDE DEF made
      <4> QED BY <1>s, <2>1, <2>2, <3>2, <4>1
    <3> HIDE DEF made
    <3> QED BY <1>0, <3>0, <3>1, <3>2
  <2>4. made = [i \in D |-> made[i]]
    OBVIOUS
  <2> HIDE DEF made
  <2> QED BY <2>3, <2>4
<1>4. ASSUME NEW f, NEW i \in D
      PROVE  reading(f, i) = IF i \in stop THEN last[i] ELSE made[i] \o f[next[i]]
  BY <1>0 DEF L
<1>5. \A f : Walk(f, L + 3, stop, last, next, made) <=> f = [i \in D |-> reading(f, i)]
  <2> HIDE DEF stop, last, next, made, reading
  <2> QED BY <1>4 DEF Walk
<1>6. from = [i \in D |-> reading(from, i)]
  <2>0. L + 3 \in Nat /\ \A i \in D \ stop : i < next[i]
    BY <1>0, <1>2
  <2>1. \E g : Walk(g, L + 3, stop, last, next, made)
    <3> HIDE DEF stop, last, next, made, reading, W
    <3> QED BY <1>0, <1>1, <1>2, <1>3, <2>0, Walks
  <2> HIDE DEF stop, last, next, made, reading
  <2>2. \E f : f = [i \in D |-> reading(f, i)]
    BY <1>5, <2>1
  <2> QED BY <2>2, Zenon
<1>7. UrlDecode(text) = from[1]
  BY DEF UrlDecode, L
<1>8. \A i \in 1 .. L + 1 : from[i] = reading(from, i)
  <2>1. \A i \in 1 .. L + 1 : i \in D
    BY <1>0
  <2> HIDE DEF D, reading, from
  <2> QED BY <1>6, <2>1
<1> HIDE DEF from
<1>9. UrlDecoding(from, text)
  <2>0. from[Len(text) + 1] = <<>>
    <3>1. Len(text) + 1 \in 1 .. L + 1 /\ Len(text) + 1 > Len(text)
      BY <1>0 DEF L
    <3>2. from[Len(text) + 1] = reading(from, Len(text) + 1)
      BY <1>8, <3>1
    <3> QED BY <3>1, <3>2, Zenon
  <2>1. ASSUME NEW i \in 1 .. Len(text)
        PROVE /\ /\ text[i] = "%" /\ i + 2 <= Len(text)
                 /\ {text[i + 1], text[i + 2]} \subseteq HexDigits
                 => from[i] = <<CharOf(<<text[i + 1], text[i + 2]>>)>> \o from[i + 3]
              /\ text[i] # "%" => from[i] = <<IF text[i] = "+" THEN " " ELSE text[i]>> \o from[i + 1]
    <3>0. i \in 1 .. L + 1 /\ ~(i > Len(text))
      BY <1>0, <2>1 DEF L
    <3>1. from[i] = reading(from, i) /\ ~(i > Len(text))
      BY <1>8, <3>0, Zenon
    <3> QED BY <3>1, Zenon
  <2> QED BY <2>0, <2>1 DEF UrlDecoding
<1> QED BY <1>7, <1>9

(* Each place of the whole is one of a piece.                              *)
LEMMA Covered ==
    ASSUME NEW n \in Nat, NEW s, NEW whole, NEW off, PiecesOf(whole, s, n, off),
           \A i \in 1 .. n : Len(s[i]) \in Nat,
           NEW k \in 1 .. Len(whole)
    PROVE  \E i \in 1 .. n : \E j \in 1 .. Len(s[i]) : k = off[i - 1] + j
<1> DEFINE Within(m) == m <= n /\ k <= off[m] =>
               \E i \in 1 .. n : \E j \in 1 .. Len(s[i]) : k = off[i - 1] + j
           S == {m \in Nat : Within(m)}
<1>1. 0 \in S
  BY DEF PiecesOf
<1>2. ASSUME NEW m \in Nat, m \in S PROVE m + 1 \in S
  <2>1. SUFFICES ASSUME m + 1 <= n, k <= off[m + 1], k > off[m]
                 PROVE  \E i \in 1 .. n : \E j \in 1 .. Len(s[i]) : k = off[i - 1] + j
    <3>1. m <= n => off[m] \in Nat
      BY DEF PiecesOf
    <3> QED BY <1>2, <3>1
  <2>2. m + 1 \in 1 .. n /\ (m + 1) - 1 = m
    BY <2>1
  <2>3. off[m] \in Nat /\ off[m + 1] = off[m] + Len(s[m + 1]) /\ Len(s[m + 1]) \in Nat
    BY <2>2 DEF PiecesOf
  <2>4. k - off[m] \in 1 .. Len(s[m + 1]) /\ k = off[m] + (k - off[m])
    BY <2>1, <2>3
  <2> QED BY <2>2, <2>4
<1>3. n \in S
  <2> HIDE DEF S
  <2> QED BY <1>1, <1>2, NatsInSet
<1>4. n <= n /\ k <= off[n]
  BY DEF PiecesOf
<1> QED BY <1>3, <1>4

(* A form is read as the user wrote it, whatever the characters, and what  *)
(* goes out has none that ends a value.                                    *)
LEMMA EncodedRead ==
    ASSUME NEW C, NEW text \in Seq(C), NEW plus \in BOOLEAN
    PROVE  /\ UrlDecode(Encoded(text, plus)) = text
           /\ Encoded(text, plus) \in Seq(C \cup {"%", "+"} \cup HexDigits)
           /\ \A k \in 1 .. Len(Encoded(text, plus)) : Encoded(text, plus)[k] \notin {"&", "="}
<1> DEFINE B == C \cup {"%", "+"} \cup HexDigits
           pieces == [i \in 1 .. Len(text) |-> FormChar(text[i], plus)]
           whole == Encoded(text, plus)
<1>1. Len(text) \in Nat /\ DOMAIN text = 1 .. Len(text) /\ \A i \in 1 .. Len(text) : text[i] \in C
  OBVIOUS
<1>2. /\ pieces \in Seq(Seq(B)) /\ Len(pieces) = Len(text)
      /\ \A i \in 1 .. Len(text) : pieces[i] = FormChar(text[i], plus)
  <2>1. ASSUME NEW c \in C PROVE FormChar(c, plus) \in Seq(B)
    <3>1. \A x, y, z \in B : <<x>> \in Seq(B) /\ <<x, y, z>> \in Seq(B)
      <4> HIDE DEF B
      <4> QED OBVIOUS
    <3>2. c \in B /\ "%" \in B /\ "+" \in B /\ HexDigits \subseteq B
      OBVIOUS
    <3>3. \/ FormChar(c, plus) = <<"+">>
          \/ FormChar(c, plus) = <<c>>
          \/ \E x, y \in HexDigits : FormChar(c, plus) = <<"%", x, y>>
      BY FormCharKept, Zenon
    <3> HIDE DEF B
    <3>4. CASE \E x, y \in HexDigits : FormChar(c, plus) = <<"%", x, y>>
      <4>1. PICK x, y \in HexDigits : FormChar(c, plus) = <<"%", x, y>>
        BY <3>4
      <4>2. x \in B /\ y \in B
        BY <3>2
      <4> QED BY <3>1, <3>2, <4>1, <4>2
    <3> QED BY <3>1, <3>2, <3>3, <3>4
  <2> HIDE DEF B
  <2> QED BY <1>1, <2>1
<1>3. whole = Seqs!FlattenSeq(pieces)
  BY <1>1 DEF Encoded
<1>4. whole \in Seq(B) /\ \E off : PiecesOf(whole, pieces, Len(text), off)
  <2> HIDE DEF pieces, whole, B
  <2> QED BY <1>2, <1>3, Flattened
<1>5. PICK off : PiecesOf(whole, pieces, Len(text), off)
  BY <1>4
<1> HIDE DEF pieces, whole
<1>6. ASSUME NEW i \in 1 .. Len(text)
      PROVE  \/ text[i] = " " /\ pieces[i] = <<"+">>
             \/ text[i] \notin {"%", "&", "+", "=", " "} /\ pieces[i] = <<text[i]>>
             \/ \E x, y \in HexDigits : pieces[i] = <<"%", x, y>> /\ CharOf(<<x, y>>) = text[i]
  <2>1. pieces[i] = FormChar(text[i], plus)
    BY <1>2
  <2>2. \/ text[i] = " " /\ FormChar(text[i], plus) = <<"+">>
        \/ text[i] \notin {"%", "&", "+", "=", " "} /\ FormChar(text[i], plus) = <<text[i]>>
        \/ \E x, y \in HexDigits :
              FormChar(text[i], plus) = <<"%", x, y>> /\ CharOf(<<x, y>>) = text[i]
    BY FormCharKept
  <2> QED BY <2>1, <2>2, Zenon
<1>7. PICK g : UrlDecoding(g, whole) /\ UrlDecode(whole) = g[1]
  <2> HIDE DEF B
  <2> QED BY <1>4, UrlDecodeWalks
<1>8. g[Len(whole) + 1] = <<>>
  BY <1>7 DEF UrlDecoding
<1>9. ASSUME NEW i \in 1 .. Len(text) PROVE g[off[i - 1] + 1] = <<text[i]>> \o g[off[i] + 1]
  <2> DEFINE at == off[i - 1] + 1
  <2>1. /\ off[i] = off[i - 1] + Len(pieces[i]) /\ off[i - 1] \in Nat
        /\ \A k \in 1 .. Len(pieces[i]) :
              off[i - 1] + k \in 1 .. Len(whole) /\ whole[off[i - 1] + k] = pieces[i][k]
    <3>1. i - 1 \in 0 .. Len(text)
      BY <1>1
    <3> QED BY <1>5, <3>1 DEF PiecesOf
  <2>2. ASSUME NEW x, pieces[i] = <<x>>, x # "%", (IF x = "+" THEN " " ELSE x) = text[i]
        PROVE  g[at] = <<text[i]>> \o g[off[i] + 1]
    <3>0. pieces[i] = <<x>>
      BY <2>2
    <3>1. Len(pieces[i]) = 1 /\ pieces[i][1] = x
      BY <3>0
    <3>2. at \in 1 .. Len(whole) /\ whole[at] = x /\ off[i] + 1 = at + 1
      BY <2>1, <3>1
    <3>3. g[at] = <<IF x = "+" THEN " " ELSE x>> \o g[at + 1]
      BY <1>7, <2>2, <3>2 DEF UrlDecoding
    <3> QED BY <2>2, <3>2, <3>3
  <2>3. ASSUME NEW x \in HexDigits, NEW y \in HexDigits,
               pieces[i] = <<"%", x, y>>, CharOf(<<x, y>>) = text[i]
        PROVE  g[at] = <<text[i]>> \o g[off[i] + 1]
    <3>1. Len(pieces[i]) = 3 /\ pieces[i][1] = "%" /\ pieces[i][2] = x /\ pieces[i][3] = y
      BY <2>3
    <3>2. 1 \in 1 .. Len(pieces[i]) /\ 2 \in 1 .. Len(pieces[i]) /\ 3 \in 1 .. Len(pieces[i])
      BY <3>1
    <3>3. /\ at \in 1 .. Len(whole) /\ at + 2 \in 1 .. Len(whole) /\ off[i] + 1 = at + 3
          /\ whole[at] = "%" /\ whole[at + 1] = x /\ whole[at + 2] = y
      <4>1. /\ off[i - 1] + 1 \in 1 .. Len(whole) /\ whole[off[i - 1] + 1] = "%"
            /\ off[i - 1] + 2 \in 1 .. Len(whole) /\ whole[off[i - 1] + 2] = x
            /\ off[i - 1] + 3 \in 1 .. Len(whole) /\ whole[off[i - 1] + 3] = y
        BY <2>1, <3>1, <3>2
      <4>2. at + 1 = off[i - 1] + 2 /\ at + 2 = off[i - 1] + 3
        BY <2>1
      <4>3. off[i] + 1 = at + 3
        BY <2>1, <3>1
      <4> HIDE DEF whole, pieces, B
      <4> QED BY <4>1, <4>2, <4>3
    <3>4. Len(whole) \in Nat
      BY <1>4
    <3>5. at + 2 <= Len(whole) /\ {whole[at + 1], whole[at + 2]} \subseteq HexDigits
      BY <3>3, <3>4
    <3>6. g[at] = <<CharOf(<<whole[at + 1], whole[at + 2]>>)>> \o g[at + 3]
      <4> HIDE DEF at
      <4> QED BY <1>7, <3>3, <3>5 DEF UrlDecoding
    <3> QED BY <2>3, <3>3, <3>6
  <2>4. CASE text[i] = " " /\ pieces[i] = <<"+">>
    <3>1. (IF "+" = "+" THEN " " ELSE "+") = text[i] /\ "+" # "%"
      BY <2>4
    <3> QED BY <2>2, <2>4, <3>1
  <2>5. CASE text[i] \notin {"%", "&", "+", "=", " "} /\ pieces[i] = <<text[i]>>
    <3>1. (IF text[i] = "+" THEN " " ELSE text[i]) = text[i] /\ text[i] # "%"
      BY <2>5
    <3> QED BY <2>2, <2>5, <3>1
  <2> QED BY <1>6, <2>3, <2>4, <2>5
<1>10. UrlDecode(whole) = text
  <2>1. g[1] = text
    <3>1. ReadsOn(text, off, g)
      BY <1>9 DEF ReadsOn
    <3> QED BY <1>5, <1>8, <3>1, ReadBack
  <2> QED BY <1>7, <2>1
<1>11. ASSUME NEW k \in 1 .. Len(whole) PROVE whole[k] \notin {"&", "="}
  <2>0. PICK i \in 1 .. Len(text) : \E j \in 1 .. Len(pieces[i]) : k = off[i - 1] + j
    <3>1. \A i \in 1 .. Len(text) : Len(pieces[i]) \in Nat
      BY <1>2
    <3>2. Len(text) \in Nat
      BY <1>1
    <3> HIDE DEF pieces, whole, B
    <3> QED BY <1>5, <3>1, <3>2, Covered
  <2>1. PICK j \in 1 .. Len(pieces[i]) : k = off[i - 1] + j
    BY <2>0
  <2>2. whole[k] = pieces[i][j]
    BY <1>5, <2>1 DEF PiecesOf
  <2>3. pieces[i][j] \notin {"&", "="}
    <3>1. \/ pieces[i] = <<"+">>
          \/ text[i] \notin {"%", "&", "+", "=", " "} /\ pieces[i] = <<text[i]>>
          \/ \E x, y \in HexDigits : pieces[i] = <<"%", x, y>>
      BY <1>6, Zenon
    <3>2. ASSUME NEW x, pieces[i] = <<x>>, x \notin {"&", "="}
          PROVE  pieces[i][j] \notin {"&", "="}
      <4>1. Len(pieces[i]) = 1 /\ pieces[i][1] = x
        BY <3>2
      <4>2. j = 1
        BY <4>1
      <4> QED BY <3>2, <4>1, <4>2
    <3>3. ASSUME NEW x \in HexDigits, NEW y \in HexDigits, pieces[i] = <<"%", x, y>>
          PROVE  pieces[i][j] \notin {"&", "="}
      <4>1. Len(pieces[i]) = 3 /\ pieces[i][1] = "%" /\ pieces[i][2] = x /\ pieces[i][3] = y
        BY <3>3
      <4>2. j \in {1, 2, 3}
        BY <4>1
      <4> QED BY <4>1, <4>2 DEF HexDigits
    <3>4. CASE pieces[i] = <<"+">>
      BY <3>2, <3>4
    <3>5. CASE text[i] \notin {"%", "&", "+", "=", " "} /\ pieces[i] = <<text[i]>>
      BY <3>2, <3>5
    <3> QED BY <3>1, <3>3, <3>4, <3>5
  <2> QED BY <2>2, <2>3
<1> QED BY <1>4, <1>10, <1>11 DEF whole

-----------------------------------------------------------------------------
(* Paths: path_segment() (src/util.c:127-160).                             *)

(* The first of a set of places is the least one.                          *)
LEMMA FirstIsLeast ==
    ASSUME NEW S \in SUBSET Nat, NEW other
    PROVE  /\ S = {} => First(S, other) = other
           /\ S # {} => First(S, other) \in S /\ \A q \in S : First(S, other) <= q
           /\ \A p \in S : (\A q \in S : p <= q) => First(S, other) = p
<1>1. S = {} => First(S, other) = other
  BY DEF First
<1>2. ASSUME S # {} PROVE First(S, other) \in S /\ \A q \in S : First(S, other) <= q
  <2>1. PICK x \in S : \A y \in S : ~ (<<y, x>> \in OpToRel(<, Nat))
    BY <1>2, NatLessThanWellFounded, WFMin
  <2>2. ASSUME NEW y \in S PROVE x <= y
    <3>1. x \in Nat /\ y \in Nat
      OBVIOUS
    <3>2. ~(y < x)
      BY <2>1, <3>1 DEF OpToRel
    <3> QED BY <3>1, <3>2
  <2>3. First(S, other) = CHOOSE p \in S : \A q \in S : p <= q
    BY <1>2 DEF First
  <2>4. \E p \in S : \A q \in S : p <= q
    BY <2>2
  <2> QED BY <2>3, <2>4, Zenon
<1>3. ASSUME NEW p \in S, \A q \in S : p <= q PROVE First(S, other) = p
  <2>1. First(S, other) \in S /\ First(S, other) <= p
    BY <1>2
  <2>2. p <= First(S, other)
    BY <1>3, <2>1
  <2>3. p \in Nat /\ First(S, other) \in Nat
    BY <2>1
  <2> QED BY <2>1, <2>2, <2>3
<1> QED BY <1>1, <1>2, <1>3

(* Where a segment that begins at p ends.                                  *)
SegmentEnd(url, p) == First({q \in p .. Len(url) : url[q] = "/"}, Len(url) + 1)

(* The first segments of a path that begins with a "/".                    *)
LEMMA PathSegmentWalks ==
    ASSUME NEW C, NEW url \in Seq(C), NEW index \in Nat
    PROVE  \E begin :
              /\ begin[0] = IF url # <<>> /\ url[1] = "/" THEN 2 ELSE 1
              /\ \A k \in 1 .. index : begin[k] = SegmentEnd(url, begin[k - 1]) + 1
              /\ PathSegment(url, index) =
                    IF begin[index] > Len(url) \/ SegmentEnd(url, begin[index]) = begin[index]
                    THEN TextNull
                    ELSE SubSeq(url, begin[index], SegmentEnd(url, begin[index]) - 1)
<1> DEFINE D == 0 .. index
           reading(f, k) == IF k > 0 THEN SegmentEnd(url, f[k - 1]) + 1
                         ELSE IF url # <<>> /\ url[1] = "/" THEN 2 ELSE 1
           last == [k \in D |-> IF url # <<>> /\ url[1] = "/" THEN 2 ELSE 1]
           next == [k \in D |-> IF k > 0 THEN k - 1 ELSE 0]
           step == [k \in D |-> [x \in Nat |-> SegmentEnd(url, x) + 1]]
           rank == [k \in D |-> k]
           begin == CHOOSE f : f = [k \in D |-> reading(f, k)]
<1>1. WellFounded(D, Nat, {0}, last, next, step)
  <2>1. last \in [D -> Nat] /\ next \in [D -> D]
    OBVIOUS
  <2>2. ASSUME NEW x \in Nat PROVE SegmentEnd(url, x) + 1 \in Nat
    <3> DEFINE S == {q \in x .. Len(url) : url[q] = "/"}
    <3>1. S \in SUBSET Nat /\ Len(url) + 1 \in Nat
      OBVIOUS
    <3> HIDE DEF S
    <3>2. First(S, Len(url) + 1) \in Nat
      <4>1. S = {} => First(S, Len(url) + 1) = Len(url) + 1
        BY DEF First
      <4>2. S # {} => First(S, Len(url) + 1) \in S
        BY <3>1, FirstIsLeast
      <4> QED BY <3>1, <4>1, <4>2
    <3> QED BY <3>2 DEF SegmentEnd, S
  <2>3. step \in [D -> [Nat -> Nat]]
    <3>1. [x \in Nat |-> SegmentEnd(url, x) + 1] \in [Nat -> Nat]
      BY <2>2
    <3> QED BY <3>1
  <2>4. rank \in [D -> 0 .. index] /\ \A k \in D \ {0} : rank[next[k]] < rank[k]
    OBVIOUS
  <2> HIDE DEF last, next, step, D, rank
  <2> QED BY <2>1, <2>3, <2>4 DEF WellFounded
<1>2. PICK g : Solution(g, D, Nat, {0}, last, next, step)
  <2> HIDE DEF last, next, step, D
  <2> QED BY <1>1, Solved
<1>3. ASSUME NEW k \in D, k # 0, NEW x \in Nat
      PROVE  next[k] = k - 1 /\ step[k][x] = SegmentEnd(url, x) + 1
  BY <1>3
<1>4. g = [k \in D |-> reading(g, k)]
  <2>1. g \in [D -> Nat] /\ g[0] = last[0]
    BY <1>2 DEF Solution
  <2>2. ASSUME NEW k \in D, k # 0 PROVE g[k] = reading(g, k)
    <3>1. k - 1 \in D /\ k > 0
      BY <2>2
    <3>2. g[k] = step[k][g[next[k]]] /\ g[k - 1] \in Nat
      BY <1>2, <2>1, <2>2, <3>1 DEF Solution
    <3>3. g[k] = SegmentEnd(url, g[k - 1]) + 1
      BY <1>3, <2>2, <3>2
    <3> QED BY <3>1, <3>3
  <2>3. g[0] = reading(g, 0)
    BY <2>1
  <2>4. \A k \in D : g[k] = reading(g, k)
    BY <2>2, <2>3
  <2> HIDE DEF reading, D
  <2> QED BY <2>1, <2>4
<1>5. begin = [k \in D |-> reading(begin, k)]
  <2> HIDE DEF reading
  <2> QED BY <1>4, Zenon
<1>6. PathSegment(url, index) =
         IF begin[index] > Len(url) \/ SegmentEnd(url, begin[index]) = begin[index]
         THEN TextNull
         ELSE SubSeq(url, begin[index], SegmentEnd(url, begin[index]) - 1)
  BY DEF PathSegment, SegmentEnd
<1> HIDE DEF begin
<1>7. begin[0] = (IF url # <<>> /\ url[1] = "/" THEN 2 ELSE 1)
      /\ \A k \in 1 .. index : begin[k] = SegmentEnd(url, begin[k - 1]) + 1
  <2>1. \A k \in D : begin[k] = reading(begin, k)
    <3> HIDE DEF reading, D
    <3> QED BY <1>5
  <2>2. 0 \in D /\ \A k \in 1 .. index : k \in D /\ k > 0
    OBVIOUS
  <2> HIDE DEF D
  <2> QED BY <2>1, <2>2
<1> QED BY <1>6, <1>7

(* Two texts that are flattened.                                           *)
LEMMA FlattenTwo ==
    ASSUME NEW C, NEW a \in Seq(C), NEW b \in Seq(C)
    PROVE  Seqs!FlattenSeq(<<a, b>>) = a \o b
<1> DEFINE s == <<a, b>>
<1>1. s \in Seq(Seq(C)) /\ Len(s) = 2 /\ s[1] = a /\ s[2] = b
  OBVIOUS
<1> HIDE DEF s
<1>2. PICK f \in [1 .. Len(s) -> Seq(C)] :
         /\ Seqs!FlattenSeq(s) = f[Len(s)]
         /\ \A i \in 1 .. Len(s) : f[i] = IF i = 1 THEN s[i] ELSE f[i-1] \o s[i]
  <2>1. Len(s) > 0
    BY <1>1
  <2> QED BY <1>1, <2>1, FlattenUnfolds
<1>3. f[1] = a /\ f[2] = f[1] \o b
  <2>1. 1 \in 1 .. Len(s) /\ 2 \in 1 .. Len(s) /\ 2 - 1 = 1
    BY <1>1
  <2>2. f[1] = s[1]
    BY <1>2, <2>1
  <2>3. f[2] = f[2 - 1] \o s[2]
    <3>1. 2 # 1
      OBVIOUS
    <3> QED BY <1>2, <2>1, <3>1, Zenon
  <2> QED BY <1>1, <2>1, <2>2, <2>3
<1> QED BY <1>1, <1>2, <1>3 DEF s

(* A part of a text that has the characters of another one is this one.    *)
LEMMA PartIs ==
    ASSUME NEW C, NEW part \in Seq(C), NEW whole, NEW p \in Nat, NEW e \in Int,
           e = p + Len(part) - 1,
           \A k \in 1 .. Len(part) : whole[p - 1 + k] = part[k]
    PROVE  SubSeq(whole, p, e) = part
<1>1. Len(part) \in Nat /\ \A k \in 1 .. Len(part) : part[k] \in C
  OBVIOUS
<1>2. \A i \in p .. e : whole[i] \in C
  <2> TAKE i \in p .. e
  <2>1. i - p + 1 \in 1 .. Len(part) /\ p - 1 + (i - p + 1) = i
    BY <1>1
  <2> QED BY <1>1, <2>1
<1>3. /\ SubSeq(whole, p, e) \in Seq(C)
      /\ Len(SubSeq(whole, p, e)) = Len(part)
      /\ \A i \in 1 .. e - p + 1 : SubSeq(whole, p, e)[i] = whole[p + i - 1]
  <2>1. /\ SubSeq(whole, p, e) \in Seq(C)
        /\ Len(SubSeq(whole, p, e)) = IF p <= e THEN e - p + 1 ELSE 0
        /\ \A i \in 1 .. e - p + 1 : SubSeq(whole, p, e)[i] = whole[p + i - 1]
    BY <1>2, SubSeqProperties
  <2> QED BY <1>1, <2>1
<1>4. \A i \in 1 .. Len(part) : SubSeq(whole, p, e)[i] = part[i]
  <2> TAKE i \in 1 .. Len(part)
  <2>1. i \in 1 .. e - p + 1 /\ p + i - 1 = p - 1 + i
    BY <1>1
  <2> QED BY <1>3, <2>1
<1> QED BY <1>3, <1>4, SeqEqual

Unmarked(text, mark, p, e) == \A q \in p .. e - 1 : text[q] # mark

(* The place behind a part of a text is that of the first mark in it, if   *)
(* there is none in the part and one at that place.                        *)
LEMMA FirstMark ==
    ASSUME NEW text, Len(text) \in Nat, NEW mark, NEW p \in Nat, NEW e \in Nat, p <= e,
           Unmarked(text, mark, p, e),
           e = Len(text) + 1 \/ (e <= Len(text) /\ text[e] = mark)
    PROVE  First({q \in p .. Len(text) : text[q] = mark}, Len(text) + 1) = e
<1> DEFINE S == {q \in p .. Len(text) : text[q] = mark}
<1>1. S \in SUBSET Nat
  OBVIOUS
<1>2. \A q \in S : q >= e
  BY DEF Unmarked
<1>3. CASE e = Len(text) + 1
  <2>1. S = {}
    BY <1>2, <1>3
  <2> QED BY <1>3, <2>1 DEF First
<1>4. CASE e <= Len(text) /\ text[e] = mark
  <2>1. e \in S /\ \A q \in S : e <= q
    BY <1>2, <1>4
  <2> HIDE DEF S
  <2>2. \A p1 \in S : (\A q \in S : p1 <= q) => First(S, Len(text) + 1) = p1
    BY <1>1, FirstIsLeast
  <2> QED BY <2>1, <2>2 DEF S
<1> QED BY <1>3, <1>4

(* The segments of a path are the texts that were joined, in their places, *)
(* and there is none behind the last.                                      *)
THEOREM AllSegments ==
    ASSUME NEW C, NEW segs \in Seq(Seq(C)),
           \A i \in 1 .. Len(segs) :
               segs[i] # <<>> /\ \A k \in 1 .. Len(segs[i]) : segs[i][k] # "/"
    PROVE  /\ Joined(segs) \in Seq(C \cup {"/"})
           /\ \A i \in 1 .. Len(segs) : PathSegment(Joined(segs), i - 1) = segs[i]
           /\ PathSegment(Joined(segs), Len(segs)) = TextNull
<1> DEFINE B == C \cup {"/"}
           n == Len(segs)
           url == Joined(segs)
           pieces == [i \in DOMAIN segs |-> <<"/">> \o segs[i]]
<1>1. n \in Nat /\ \A i \in 1 .. n : segs[i] \in Seq(B) /\ Len(segs[i]) \in Nat \ {0}
  OBVIOUS
<1>2. ASSUME NEW i \in 1 .. n
      PROVE  /\ pieces[i] \in Seq(B) /\ Len(pieces[i]) = 1 + Len(segs[i])
             /\ pieces[i][1] = "/"
             /\ \A k \in 1 .. Len(segs[i]) : pieces[i][1 + k] = segs[i][k]
  <2>1. <<"/">> \in Seq(B) /\ Len(<<"/">>) = 1 /\ <<"/">>[1] = "/" /\ 1 \in 1 .. 1
    OBVIOUS
  <2>2. pieces[i] = <<"/">> \o segs[i]
    OBVIOUS
  <2> HIDE DEF B, pieces
  <2> QED BY <1>1, <2>1, <2>2, Joint
<1>3. pieces \in Seq(Seq(B)) /\ Len(pieces) = n
  <2>1. DOMAIN pieces = 1 .. n
    OBVIOUS
  <2>2. \A i \in 1 .. n : pieces[i] \in Seq(B)
    BY <1>2
  <2>3. pieces = [i \in 1 .. n |-> pieces[i]]
    OBVIOUS
  <2> HIDE DEF pieces, n, B
  <2> QED BY <1>1, <2>1, <2>2, <2>3
<1>4. url = Seqs!FlattenSeq(pieces)
  BY DEF Joined
<1> HIDE DEF n, url, pieces, B
<1>5. url \in Seq(B)
  BY <1>3, <1>4, Flattened
<1>6. PICK off : PiecesOf(url, pieces, n, off)
  BY <1>3, <1>4, Flattened
<1>7. off \in [0 .. n -> Nat] /\ off[0] = 0 /\ off[n] = Len(url) /\ Len(url) \in Nat
  BY <1>5, <1>6 DEF PiecesOf
<1>8. ASSUME NEW i \in 1 .. n, NEW a, NEW b, NEW l,
             a = off[i - 1], b = off[i], l = Len(segs[i])
      PROVE  /\ a \in Nat /\ b \in Nat /\ l \in Nat \ {0}
             /\ b = a + 1 + l /\ b <= Len(url)
             /\ url[a + 1] = "/"
             /\ \A k \in 1 .. l : url[a + 1 + k] = segs[i][k]
  <2>1. i - 1 \in 0 .. n /\ i \in 0 .. n
    BY <1>1
  <2>2. a \in Nat /\ b \in Nat /\ l \in Nat \ {0}
    BY <1>1, <1>7, <1>8, <2>1
  <2>3. Len(pieces[i]) = 1 + l /\ b = a + Len(pieces[i])
    BY <1>2, <1>6, <1>8 DEF PiecesOf
  <2>4. \A k \in 1 .. 1 + l : a + k \in 1 .. Len(url) /\ url[a + k] = pieces[i][k]
    BY <1>6, <1>8, <2>3 DEF PiecesOf
  <2>5. /\ 1 \in 1 .. 1 + l /\ 1 + l \in 1 .. 1 + l
        /\ \A k \in 1 .. l : 1 + k \in 1 .. 1 + l /\ a + (1 + k) = a + 1 + k
    BY <2>2
  <2>6. url[a + 1] = "/" /\ a + (1 + l) \in 1 .. Len(url)
    BY <1>2, <2>4, <2>5
  <2>7. b = a + 1 + l /\ b <= Len(url)
    BY <1>7, <2>2, <2>3, <2>6
  <2>8. ASSUME NEW k \in 1 .. l PROVE url[a + 1 + k] = segs[i][k]
    <3>1. url[a + (1 + k)] = pieces[i][1 + k] /\ a + (1 + k) = a + 1 + k
      BY <2>4, <2>5
    <3>2. pieces[i][1 + k] = segs[i][k]
      BY <1>2, <1>8
    <3> QED BY <3>1, <3>2
  <2> QED BY <2>2, <2>6, <2>7, <2>8
<1>9. ASSUME NEW i \in 1 .. n, NEW a, NEW b, a = off[i - 1], b = off[i]
      PROVE  SegmentEnd(url, a + 2) = b + 1
  <2>1. PICK l : l = Len(segs[i])
    OBVIOUS
  <2>2. /\ a \in Nat /\ b \in Nat /\ l \in Nat \ {0} /\ b = a + 1 + l /\ b <= Len(url)
        /\ \A k \in 1 .. l : url[a + 1 + k] = segs[i][k]
    BY <1>8, <1>9, <2>1
  <2>3. a + 2 \in Nat /\ b + 1 \in Nat /\ a + 2 <= b + 1
    BY <2>2
  <2>4. Unmarked(url, "/", a + 2, b + 1)
    <3> USE DEF Unmarked
    <3> TAKE q \in a + 2 .. (b + 1) - 1
    <3>1. q - (a + 1) \in 1 .. l /\ a + 1 + (q - (a + 1)) = q
      BY <2>2
    <3>2. url[q] = segs[i][q - (a + 1)]
      BY <2>2, <3>1
    <3> QED BY <2>1, <3>1, <3>2 DEF n
  <2>5. b + 1 = Len(url) + 1 \/ (b + 1 <= Len(url) /\ url[b + 1] = "/")
    <3>1. CASE i = n
      BY <1>7, <1>9, <3>1
    <3>2. CASE i # n
      <4>1. i + 1 \in 1 .. n /\ (i + 1) - 1 = i
        BY <1>1, <3>2
      <4>2. PICK c, m : c = off[i + 1] /\ m = Len(segs[i + 1])
        OBVIOUS
      <4>3. b = off[(i + 1) - 1]
        BY <1>9, <4>1
      <4>4. c \in Nat /\ m \in Nat \ {0} /\ c = b + 1 + m /\ c <= Len(url) /\ url[b + 1] = "/"
        BY <1>8, <4>1, <4>2, <4>3
      <4> QED BY <1>7, <2>2, <4>4
    <3> QED BY <3>1, <3>2
  <2> QED BY <1>7, <2>3, <2>4, <2>5, FirstMark DEF SegmentEnd
<1>10. ASSUME NEW index \in 0 .. n, NEW a, a = off[index]
       PROVE  \E begin :
                 /\ n > 0 => begin = a + 2
                 /\ n = 0 => begin = 1
                 /\ PathSegment(url, index) =
                       IF begin > Len(url) \/ SegmentEnd(url, begin) = begin THEN TextNull
                       ELSE SubSeq(url, begin, SegmentEnd(url, begin) - 1)
  <2>1. PICK begin :
              /\ begin[0] = IF url # <<>> /\ url[1] = "/" THEN 2 ELSE 1
              /\ \A k \in 1 .. index : begin[k] = SegmentEnd(url, begin[k - 1]) + 1
              /\ PathSegment(url, index) =
                    IF begin[index] > Len(url) \/ SegmentEnd(url, begin[index]) = begin[index]
                    THEN TextNull
                    ELSE SubSeq(url, begin[index], SegmentEnd(url, begin[index]) - 1)
    <3>1. index \in Nat
      BY <1>1
    <3> QED BY <1>5, <3>1, PathSegmentWalks
  <2>2. CASE n = 0
    <3>1. index = 0 /\ Len(url) = 0
      BY <1>7, <2>2
    <3>2. url = <<>>
      BY <1>5, <3>1
    <3> QED BY <2>1, <2>2, <3>1, <3>2
  <2>3. CASE n > 0
    <3> DEFINE S == {k \in Nat : k <= index => begin[k] = off[k] + 2}
    <3>1. 0 \in S
      <4>1. 1 \in 1 .. n /\ 0 = off[1 - 1]
        BY <1>1, <1>7, <2>3
      <4>2. url[0 + 1] = "/" /\ off[1] = 0 + 1 + Len(segs[1]) /\ Len(segs[1]) \in Nat \ {0}
              /\ off[1] <= Len(url)
        <5>1. PICK b, l : b = off[1] /\ l = Len(segs[1])
          OBVIOUS
        <5>2. url[0 + 1] = "/" /\ b = 0 + 1 + l /\ l \in Nat \ {0} /\ b <= Len(url)
          BY <1>8, <4>1, <5>1
        <5> QED BY <5>1, <5>2
      <4>3. url[1] = "/" /\ Len(url) > 0
        BY <1>7, <4>2
      <4>4. url # <<>>
        BY <4>3
      <4> QED BY <1>7, <2>1, <4>3, <4>4
    <3>2. ASSUME NEW k \in Nat, k \in S PROVE k + 1 \in S
      <4> SUFFICES ASSUME k + 1 <= index PROVE begin[k + 1] = off[k + 1] + 2
        OBVIOUS
      <4>1. k + 1 \in 1 .. index /\ k + 1 \in 1 .. n /\ (k + 1) - 1 = k /\ k <= index
        BY <1>1
      <4>2. PICK c, d : c = off[k] /\ d = off[k + 1]
        OBVIOUS
      <4>3. begin[k] = c + 2
        BY <3>2, <4>1, <4>2
      <4>4. c = off[(k + 1) - 1]
        BY <4>1, <4>2
      <4>5. SegmentEnd(url, c + 2) = d + 1
        BY <1>9, <4>1, <4>2, <4>4
      <4>6. begin[k + 1] = SegmentEnd(url, begin[k]) + 1
        BY <2>1, <4>1
      <4>7. d \in Nat
        BY <1>8, <4>1, <4>2, <4>4
      <4>8. begin[k + 1] = d + 2
        BY <4>3, <4>5, <4>6, <4>7
      <4> QED BY <4>2, <4>8
    <3>3. index \in S
      <4>1. index \in Nat
        BY <1>1
      <4> HIDE DEF S
      <4> QED BY <3>1, <3>2, <4>1, NatsInSet
    <3>4. begin[index] = a + 2
      <4>1. index <= index
        BY <1>1
      <4>2. begin[index] = off[index] + 2
        BY <3>3, <4>1
      <4> QED BY <1>10, <4>2
    <3> QED BY <2>1, <2>3, <3>4
  <2> QED BY <1>1, <2>2, <2>3
<1>11. ASSUME NEW i \in 1 .. n PROVE PathSegment(url, i - 1) = segs[i]
  <2>1. i - 1 \in 0 .. n /\ n > 0
    BY <1>1
  <2>2. PICK a, b, l : a = off[i - 1] /\ b = off[i] /\ l = Len(segs[i])
    OBVIOUS
  <2>3. /\ a \in Nat /\ b \in Nat /\ l \in Nat \ {0} /\ b = a + 1 + l /\ b <= Len(url)
        /\ \A k \in 1 .. l : url[a + 1 + k] = segs[i][k]
    BY <1>8, <2>2
  <2>4. SegmentEnd(url, a + 2) = b + 1
    BY <1>9, <2>2
  <2>5. PathSegment(url, i - 1) =
           IF a + 2 > Len(url) \/ SegmentEnd(url, a + 2) = a + 2 THEN TextNull
           ELSE SubSeq(url, a + 2, SegmentEnd(url, a + 2) - 1)
    BY <1>10, <2>1, <2>2
  <2>6. ~(a + 2 > Len(url)) /\ b + 1 # a + 2 /\ (b + 1) - 1 = b
    BY <1>7, <2>3
  <2>7. SubSeq(url, a + 2, b) = segs[i]
    <3>1. a + 2 \in Nat /\ b \in Int /\ b = (a + 2) + l - 1
      BY <2>3
    <3>2. \A k \in 1 .. l : url[(a + 2) - 1 + k] = segs[i][k]
      <4> TAKE k \in 1 .. l
      <4>1. (a + 2) - 1 + k = a + 1 + k
        BY <2>3
      <4> QED BY <2>3, <4>1
    <3>3. segs[i] \in Seq(B) /\ l = Len(segs[i])
      BY <1>1, <2>2
    <3> HIDE DEF B
    <3>4. \A part \in Seq(B), p \in Nat, m \in Int :
             (m = p + Len(part) - 1 /\ \A k \in 1 .. Len(part) : url[p - 1 + k] = part[k])
                => SubSeq(url, p, m) = part
      BY PartIs
    <3>5. b = (a + 2) + Len(segs[i]) - 1
      BY <3>1, <3>3
    <3>6. \A k \in 1 .. Len(segs[i]) : url[(a + 2) - 1 + k] = segs[i][k]
      BY <3>2, <3>3
    <3> QED BY <3>1, <3>3, <3>4, <3>5, <3>6
  <2> QED BY <2>4, <2>5, <2>6, <2>7
<1>12. PathSegment(url, n) = TextNull
  <2>1. n \in 0 .. n
    BY <1>1
  <2>2. PICK begin :
           /\ n > 0 => begin = off[n] + 2
           /\ n = 0 => begin = 1
           /\ PathSegment(url, n) =
                 IF begin > Len(url) \/ SegmentEnd(url, begin) = begin THEN TextNull
                 ELSE SubSeq(url, begin, SegmentEnd(url, begin) - 1)
    BY <1>10, <2>1
  <2>3. begin > Len(url)
    BY <1>1, <1>7, <2>2
  <2> QED BY <2>2, <2>3
<1> QED BY <1>5, <1>11, <1>12 DEF n, url, B

-----------------------------------------------------------------------------
(* Forms: form_value() (src/routes.c:149-171).                             *)

(* Where a key of one character is in a form, where it is a key there, and *)
(* the value that begins at a place.                                       *)
Places(form, k, p) == {q \in p .. Len(form) : form[q] = k}
IsKey(form, q) ==
    /\ q = 1 \/ form[q - 1] = "&"
    /\ q + 1 <= Len(form) /\ form[q + 1] = "="
ValueAt(form, v) ==
    SubSeq(form, v, First(Places(form, "&", v), Len(form) + 1) - 1)

(* One round of the loop of form_value(), from the place p on.             *)
FormRound(f, form, k, p) ==
    IF Places(form, k, p) = {} THEN TextNull
    ELSE IF IsKey(form, First(Places(form, k, p), 0))
         THEN UrlDecode(ValueAt(form, First(Places(form, k, p), 0) + 2))
         ELSE f[First(Places(form, k, p), 0) + 1]

(* What form_value() makes of a form, round by round.                      *)
LEMMA FormValueWalks ==
    ASSUME NEW C, NEW form \in Seq(C), NEW k
    PROVE  \E g : /\ FormValue(form, <<k>>) = g[1]
                  /\ \A p \in 1 .. Len(form) + 1 : g[p] = FormRound(g, form, k, p)
<1> DEFINE L == Len(form)
           D == 1 .. L + 1
           at(p) == First(Places(form, k, p), 0)
           stop == {p \in D : Places(form, k, p) = {} \/ IsKey(form, at(p))}
           last == [p \in D |-> IF Places(form, k, p) = {} THEN TextNull
                                ELSE UrlDecode(ValueAt(form, at(p) + 2))]
           V == {last[p] : p \in D}
           next == [p \in D |-> IF p \in stop THEN p ELSE at(p) + 1]
           step == [p \in D |-> [x \in V |-> x]]
           rank == [p \in D |-> L + 1 - p]
           found(p) == {q \in p .. Len(form) - Len(<<k>>) + 1 :
                          SubSeq(form, q, q + Len(<<k>>) - 1) = <<k>>}
           isKey(q) == /\ q = 1 \/ form[q - 1] = "&"
                       /\ q + Len(<<k>>) <= Len(form) /\ form[q + Len(<<k>>)] = "="
           round(f, p) == IF found(p) = {} THEN TextNull
                          ELSE LET q == First(found(p), 0)
                               IN  IF isKey(q) THEN UrlDecode(ValueAt(form, q + Len(<<k>>) + 1))
                                   ELSE f[q + Len(<<k>>)]
           search == CHOOSE f : f = [p \in D |-> round(f, p)]
<1>0. L \in Nat
  OBVIOUS
<1>1. ASSUME NEW p \in D, p \notin stop
      PROVE  at(p) \in p .. L /\ next[p] = at(p) + 1
  <2>1. Places(form, k, p) \in SUBSET Nat
    BY DEF Places
  <2>2. at(p) \in Places(form, k, p)
    BY <1>1, <2>1, FirstIsLeast
  <2>3. at(p) \in p .. L
    BY <2>2 DEF Places
  <2> HIDE DEF at, stop
  <2> QED BY <1>1, <2>3
<1>2. WellFounded(D, V, stop, last, next, step)
  <2>1. last \in [D -> V]
    <3>1. last = [p \in D |-> last[p]]
      OBVIOUS
    <3> HIDE DEF last
    <3> QED BY <3>1
  <2>2. next \in [D -> D] /\ rank \in [D -> 0 .. L]
        /\ \A p \in D \ stop : rank[next[p]] < rank[p]
    <3>1. \A p \in D \ stop : at(p) + 1 \in D /\ at(p) + 1 > p /\ next[p] = at(p) + 1
      <4> HIDE DEF stop, at, next
      <4> QED BY <1>0, <1>1
    <3> HIDE DEF stop, at
    <3> QED BY <1>0, <3>1
  <2>3. step \in [D -> [V -> V]]
    <3> HIDE DEF V
    <3>1. [x \in V |-> x] \in [V -> V]
      OBVIOUS
    <3> QED BY <3>1
  <2> HIDE DEF last, next, step, D, V, rank, stop
  <2> QED BY <1>0, <2>1, <2>2, <2>3 DEF WellFounded
<1>3. PICK g : Solution(g, D, V, stop, last, next, step)
  <2> HIDE DEF last, next, step, D, V, stop
  <2> QED BY <1>2, Solved
<1>4. ASSUME NEW p \in D PROVE g[p] = FormRound(g, form, k, p)
  <2>1. g \in [D -> V] /\ g[p] = IF p \in stop THEN last[p] ELSE step[p][g[next[p]]]
    BY <1>3 DEF Solution
  <2>2. CASE p \in stop
    <3>1. g[p] = last[p]
      BY <2>1, <2>2
    <3> QED BY <2>2, <3>1 DEF FormRound
  <2>3. CASE p \notin stop
    <3>1. next[p] \in D /\ next[p] = at(p) + 1
      <4> HIDE DEF next, at, stop
      <4> QED BY <1>0, <1>1, <2>3
    <3>2. g[next[p]] \in V
      <4> HIDE DEF next, V
      <4> QED BY <2>1, <3>1
    <3>3. g[p] = g[next[p]]
      <4> HIDE DEF next, V, stop, last
      <4> QED BY <2>1, <2>3, <3>2
    <3>4. Places(form, k, p) # {} /\ ~IsKey(form, at(p))
      BY <2>3
    <3>5. g[p] = g[at(p) + 1]
      <4> HIDE DEF next, at
      <4> QED BY <3>1, <3>3
    <3> QED BY <3>4, <3>5 DEF FormRound
  <2> QED BY <2>2, <2>3
<1>5. g = [p \in D |-> FormRound(g, form, k, p)]
  <2>1. g = [p \in D |-> g[p]]
    BY <1>3 DEF Solution
  <2> HIDE DEF D
  <2> QED BY <1>4, <2>1
<1>6. ASSUME NEW f, NEW p \in D PROVE round(f, p) = FormRound(f, form, k, p)
  <2>1. Len(<<k>>) = 1
    OBVIOUS
  <2>2. found(p) = Places(form, k, p)
    <3>1. p \in Nat /\ p >= 1 /\ Len(form) - Len(<<k>>) + 1 = Len(form)
      BY <1>0, <2>1
    <3>2. ASSUME NEW q \in p .. Len(form)
          PROVE  SubSeq(form, q, q + Len(<<k>>) - 1) = <<k>> <=> form[q] = k
      <4>1. q + Len(<<k>>) - 1 = q /\ q \in 1 .. Len(form)
        BY <2>1, <3>1
      <4>2. SubSeq(form, q, q) = <<form[q]>>
        <5>1. <<form[q]>> \in Seq({form[q]}) /\ Len(<<form[q]>>) = 1 /\ <<form[q]>>[1] = form[q]
          OBVIOUS
        <5>2. \A j \in 1 .. Len(<<form[q]>>) : form[q - 1 + j] = <<form[q]>>[j]
          BY <4>1, <5>1
        <5>3. q \in Nat /\ q \in Int /\ q = q + Len(<<form[q]>>) - 1
          BY <4>1, <5>1
        <5> QED BY <5>1, <5>2, <5>3, PartIs
      <4> QED BY <4>1, <4>2
    <3> QED BY <3>1, <3>2 DEF Places
  <2>3. \A q \in Nat : q + Len(<<k>>) + 1 = q + 2
    BY <2>1
  <2>4. Places(form, k, p) # {} => at(p) \in Nat
    <3>1. Places(form, k, p) \in SUBSET Nat
      BY DEF Places
    <3> QED BY <3>1, FirstIsLeast
  <2> HIDE DEF found
  <2> QED BY <2>1, <2>2, <2>3, <2>4 DEF FormRound, IsKey
<1>7. search = [p \in D |-> round(search, p)]
  <2>1. g = [p \in D |-> round(g, p)]
    <3> HIDE DEF round, D
    <3> QED BY <1>5, <1>6
  <2> HIDE DEF round
  <2> QED BY <2>1, Zenon
<1>8. FormValue(form, <<k>>) = search[1]
  BY DEF FormValue, ValueAt, Places
<1> HIDE DEF search
<1>9. \A p \in 1 .. Len(form) + 1 : search[p] = FormRound(search, form, k, p)
  <2> HIDE DEF FormRound, round
  <2> QED BY <1>6, <1>7
<1> QED BY <1>8, <1>9

(* The value of a key is that behind the first place where it is one.      *)
LEMMA KeyFound ==
    ASSUME NEW C, NEW form \in Seq(C), NEW K \in 1 .. Len(form), IsKey(form, K),
           \A q \in 1 .. K - 1 : form[q] = form[K] => ~IsKey(form, q)
    PROVE  FormValue(form, <<form[K]>>) = UrlDecode(ValueAt(form, K + 2))
<1> DEFINE k == form[K]
           value == UrlDecode(ValueAt(form, K + 2))
<1>0. Len(form) \in Nat /\ K \in Nat
  OBVIOUS
<1>1. PICK g : /\ FormValue(form, <<k>>) = g[1]
               /\ \A p \in 1 .. Len(form) + 1 : g[p] = FormRound(g, form, k, p)
  BY FormValueWalks
<1> DEFINE S == {m \in Nat : \A p \in 1 .. K : K - p < m => g[p] = value}
<1>2. 0 \in S
  OBVIOUS
<1>3. ASSUME NEW m \in Nat, m \in S PROVE m + 1 \in S
  <2>1. ASSUME NEW p \in 1 .. K, K - p < m + 1 PROVE g[p] = value
    <3> DEFINE q == First(Places(form, k, p), 0)
    <3>1. K \in Places(form, k, p) /\ Places(form, k, p) \in SUBSET Nat
      BY DEF Places
    <3>2. q \in Places(form, k, p) /\ q <= K
      BY <3>1, FirstIsLeast
    <3>3. q \in p .. K /\ form[q] = k /\ q \in Nat
      BY <3>2 DEF Places
    <3>4. g[p] = IF IsKey(form, q) THEN UrlDecode(ValueAt(form, q + 2)) ELSE g[q + 1]
      <4>1. p \in 1 .. Len(form) + 1
        BY <1>0
      <4>2. g[p] = FormRound(g, form, k, p) /\ Places(form, k, p) # {}
        BY <1>1, <3>1, <4>1
      <4> QED BY <4>2 DEF FormRound
    <3> HIDE DEF q, value, k
    <3>5. CASE q = K
      BY <3>4, <3>5 DEF value
    <3>6. CASE q # K
      <4>1. ~IsKey(form, q)
        <5>1. q \in 1 .. K - 1
          BY <1>0, <3>3, <3>6
        <5> QED BY <3>3, <5>1 DEF k
      <4>2. q + 1 \in 1 .. K /\ K - (q + 1) < m
        BY <1>0, <2>1, <3>3, <3>6
      <4>3. g[q + 1] = value
        BY <1>3, <4>2
      <4> QED BY <3>4, <4>1, <4>3
    <3> QED BY <3>5, <3>6
  <2> HIDE DEF value
  <2> QED BY <2>1
<1>4. K \in S
  <2> HIDE DEF S
  <2> QED BY <1>0, <1>2, <1>3, NatsInSet
<1>5. 1 \in 1 .. K /\ K - 1 < K
  BY <1>0
<1> QED BY <1>1, <1>4, <1>5

(* A name that is nowhere a key has no value.                              *)
LEMMA NoKeyFound ==
    ASSUME NEW C, NEW form \in Seq(C), NEW k,
           \A q \in 1 .. Len(form) : form[q] = k => ~IsKey(form, q)
    PROVE  FormValue(form, <<k>>) = TextNull
<1> DEFINE N == Len(form) + 1
<1>0. N \in Nat /\ N > 0 /\ Len(form) = N - 1
  OBVIOUS
<1>1. PICK g : /\ FormValue(form, <<k>>) = g[1]
               /\ \A p \in 1 .. N : g[p] = FormRound(g, form, k, p)
  BY FormValueWalks
<1> DEFINE S == {m \in Nat : \A p \in 1 .. N : N - p < m => g[p] = TextNull}
<1> HIDE DEF N
<1>2. 0 \in S
  BY <1>0
<1>3. ASSUME NEW m \in Nat, m \in S PROVE m + 1 \in S
  <2>1. ASSUME NEW p \in 1 .. N, N - p < m + 1 PROVE g[p] = TextNull
    <3> DEFINE q == First(Places(form, k, p), 0)
    <3>1. Places(form, k, p) \in SUBSET Nat
      BY DEF Places
    <3>2. CASE Places(form, k, p) = {}
      BY <1>1, <3>2 DEF FormRound
    <3>3. CASE Places(form, k, p) # {}
      <4>1. q \in Places(form, k, p)
        BY <3>1, <3>3, FirstIsLeast
      <4>2. q \in p .. N - 1 /\ form[q] = k /\ q \in Nat
        BY <1>0, <4>1 DEF Places
      <4>3. ~IsKey(form, q)
        <5>1. q \in 1 .. Len(form)
          BY <1>0, <4>2
        <5> HIDE DEF q
        <5> QED BY <4>2, <5>1
      <4>4. g[p] = g[q + 1]
        BY <1>1, <3>3, <4>3 DEF FormRound
      <4> HIDE DEF q
      <4>5. q + 1 \in 1 .. N /\ N - (q + 1) < m
        BY <1>0, <2>1, <4>2
      <4> QED BY <1>3, <4>4, <4>5
    <3> QED BY <3>2, <3>3
  <2> QED BY <2>1
<1>4. N \in S
  <2> HIDE DEF S
  <2> QED BY <1>0, <1>2, <1>3, NatsInSet
<1>5. 1 \in 1 .. N /\ N - 1 < N
  BY <1>0
<1> QED BY <1>1, <1>4, <1>5

(* Where everything is in a form of two fields, with the values V and W.   *)
TwoLaid(form, k1, V, k2, W) ==
    /\ \E B : form \in Seq(B) /\ V \in Seq(B) /\ W \in Seq(B)
    /\ Len(form) = Len(V) + Len(W) + 5
    /\ form[1] = k1 /\ form[2] = "=" /\ \A j \in 1 .. Len(V) : form[2 + j] = V[j]
    /\ form[Len(V) + 3] = "&" /\ form[Len(V) + 4] = k2 /\ form[Len(V) + 5] = "="
    /\ \A j \in 1 .. Len(W) : form[Len(V) + 5 + j] = W[j]

(* The reading of a form of two fields has everything in its place.           *)
LEMMA TwoFieldsLaid ==
    ASSUME NEW C, NEW v \in Seq(C), NEW w \in Seq(C), NEW k1, NEW k2, NEW plus \in BOOLEAN
    PROVE  TwoLaid(Body(<<[key |-> <<k1>>, value |-> v], [key |-> <<k2>>, value |-> w]>>, plus),
                 k1, Encoded(v, plus), k2, Encoded(w, plus))
<1> DEFINE B == C \cup {"%", "+"} \cup HexDigits \cup {k1, k2, "&", "="}
           V == Encoded(v, plus)
           W == Encoded(w, plus)
           fields == <<[key |-> <<k1>>, value |-> v], [key |-> <<k2>>, value |-> w]>>
           form == Body(fields, plus)
           x == <<>> \o <<k1>> \o <<"=">>
           y == <<"&">> \o <<k2>> \o <<"=">>
           a == x \o V
           b == y \o W
<1>1. V \in Seq(B) /\ W \in Seq(B)
  <2>1. V \in Seq(C \cup {"%", "+"} \cup HexDigits) /\ W \in Seq(C \cup {"%", "+"} \cup HexDigits)
    BY EncodedRead
  <2>2. C \cup {"%", "+"} \cup HexDigits \subseteq B
    OBVIOUS
  <2> HIDE DEF B
  <2> QED BY <2>1, <2>2
<1>2. form = a \o b
  <2>1. Seqs!FlattenSeq(<<a, b>>) = a \o b
    <3>1. k1 \in B /\ k2 \in B /\ "&" \in B /\ "=" \in B
      OBVIOUS
    <3>2. a \in Seq(B) /\ b \in Seq(B)
      <4> HIDE DEF B
      <4> QED BY <1>1, <3>1
    <3> HIDE DEF a, b, B
    <3> QED BY <3>2, FlattenTwo
  <2>2. form = Seqs!FlattenSeq([i \in DOMAIN fields |->
               (IF i = 1 THEN <<>> ELSE <<"&">>) \o fields[i].key
                   \o <<"=">> \o Encoded(fields[i].value, plus)])
    <3>1. form = Body(fields, plus)
      OBVIOUS
    <3> HIDE DEF fields
    <3> QED BY <3>1 DEF Body
  <2>3. [i \in DOMAIN fields |-> (IF i = 1 THEN <<>> ELSE <<"&">>) \o fields[i].key
                   \o <<"=">> \o Encoded(fields[i].value, plus)] = <<a, b>>
    <3>1. DOMAIN fields = 1 .. 2 /\ fields[1].key = <<k1>> /\ fields[1].value = v
          /\ fields[2].key = <<k2>> /\ fields[2].value = w
      OBVIOUS
    <3> HIDE DEF fields
    <3> DEFINE field(i) == (IF i = 1 THEN <<>> ELSE <<"&">>) \o fields[i].key
                              \o <<"=">> \o Encoded(fields[i].value, plus)
    <3>2. field(1) = a
      BY <3>1
    <3>3. field(2) = b
      BY <3>1
    <3> HIDE DEF field, a, b
    <3>4. [i \in DOMAIN fields |-> field(i)] = <<a, b>>
      BY <3>1, <3>2, <3>3
    <3> QED BY <3>4 DEF field
  <2> HIDE DEF a, b, fields
  <2> QED BY <2>1, <2>2, <2>3
<1>3. /\ x \in Seq(B) /\ Len(x) = 2 /\ x[1] = k1 /\ x[2] = "="
      /\ y \in Seq(B) /\ Len(y) = 3 /\ y[1] = "&" /\ y[2] = k2 /\ y[3] = "="
  <2>1. k1 \in B /\ k2 \in B /\ "&" \in B /\ "=" \in B
    OBVIOUS
  <2> HIDE DEF B
  <2> QED BY <2>1
<1> HIDE DEF B, V, W, fields, form, x, y
<1>4. /\ a \in Seq(B) /\ Len(a) = 2 + Len(V) /\ a[1] = k1 /\ a[2] = "="
      /\ \A j \in 1 .. Len(V) : a[2 + j] = V[j]
  <2>1. /\ a \in Seq(B) /\ Len(a) = Len(x) + Len(V)
        /\ \A j \in 1 .. Len(x) : a[j] = x[j]
        /\ \A j \in 1 .. Len(V) : a[Len(x) + j] = V[j]
    <3>1. x \in Seq(B) /\ V \in Seq(B)
      BY <1>1, <1>3
    <3> QED BY <3>1, Joint
  <2> HIDE DEF a
  <2> QED BY <1>1, <1>3, <2>1
<1>5. /\ b \in Seq(B) /\ Len(b) = 3 + Len(W) /\ b[1] = "&" /\ b[2] = k2 /\ b[3] = "="
      /\ \A j \in 1 .. Len(W) : b[3 + j] = W[j]
  <2>1. /\ b \in Seq(B) /\ Len(b) = Len(y) + Len(W)
        /\ \A j \in 1 .. Len(y) : b[j] = y[j]
        /\ \A j \in 1 .. Len(W) : b[Len(y) + j] = W[j]
    <3>1. y \in Seq(B) /\ W \in Seq(B)
      BY <1>1, <1>3
    <3> QED BY <3>1, Joint
  <2> HIDE DEF b
  <2> QED BY <1>1, <1>3, <2>1
<1> HIDE DEF a, b
<1>6. /\ form \in Seq(B) /\ Len(form) = Len(a) + Len(b)
      /\ \A j \in 1 .. Len(a) : form[j] = a[j]
      /\ \A j \in 1 .. Len(b) : form[Len(a) + j] = b[j]
  <2>1. a \in Seq(B) /\ b \in Seq(B)
    BY <1>4, <1>5
  <2>2. /\ a \o b \in Seq(B) /\ Len(a \o b) = Len(a) + Len(b)
        /\ \A j \in 1 .. Len(a) : (a \o b)[j] = a[j]
        /\ \A j \in 1 .. Len(b) : (a \o b)[Len(a) + j] = b[j]
    BY <2>1, Joint
  <2> QED BY <1>2, <2>2, Zenon
<1>7. Len(V) \in Nat /\ Len(W) \in Nat
  BY <1>1
<1>8. /\ form[1] = k1 /\ form[2] = "="
      /\ \A j \in 1 .. Len(V) : form[2 + j] = V[j]
  BY <1>4, <1>6, <1>7
<1>9. /\ form[Len(V) + 3] = "&" /\ form[Len(V) + 4] = k2 /\ form[Len(V) + 5] = "="
      /\ \A j \in 1 .. Len(W) : form[Len(V) + 5 + j] = W[j]
  <2>1. \A j \in 1 .. 3 + Len(W) : form[2 + Len(V) + j] = b[j]
    BY <1>4, <1>5, <1>6
  <2>2. form[2 + Len(V) + 1] = "&" /\ form[2 + Len(V) + 2] = k2 /\ form[2 + Len(V) + 3] = "="
    BY <1>5, <1>7, <2>1
  <2>3. ASSUME NEW j \in 1 .. Len(W) PROVE form[Len(V) + 5 + j] = W[j]
    <3>1. 3 + j \in 1 .. 3 + Len(W) /\ 2 + Len(V) + (3 + j) = Len(V) + 5 + j
      BY <1>7
    <3> QED BY <1>5, <2>1, <3>1
  <2> QED BY <1>7, <2>2, <2>3
<1>10. Len(form) = Len(V) + Len(W) + 5
  BY <1>4, <1>5, <1>6, <1>7
<1>11. TwoLaid(form, k1, V, k2, W)
  BY <1>1, <1>6, <1>8, <1>9, <1>10 DEF TwoLaid
<1> QED BY <1>11 DEF form, fields, V, W

(* None of the characters is the mark.                                     *)
Without(text, mark) == \A j \in 1 .. Len(text) : text[j] # mark

(* What is read of a form with two keys.                                   *)
FieldsRead(form, k1, v, k2, w) ==
    /\ FormValue(form, <<k1>>) = v
    /\ FormValue(form, <<k2>>) = w
    /\ \A k : k # k1 /\ k # k2 => FormValue(form, <<k>>) = TextNull

(* The values of the two keys, and of one that is not in the form.         *)
LEMMA TwoValues ==
    ASSUME NEW form, NEW V, NEW W, NEW k1, NEW k2, TwoLaid(form, k1, V, k2, W),
           k1 # "&", k2 # "&", k1 # k2,
           Without(V, "&"), Without(W, "&")
    PROVE  FieldsRead(form, k1, UrlDecode(V), k2, UrlDecode(W))
<1> DEFINE L == Len(form)
           m == Len(V)
           n == Len(W)
<1>1. PICK B : form \in Seq(B) /\ V \in Seq(B) /\ W \in Seq(B)
  BY DEF TwoLaid
<1>2. L \in Nat /\ m \in Nat /\ n \in Nat /\ L = m + n + 5
  BY <1>1 DEF TwoLaid
<1>3. /\ form[1] = k1 /\ form[2] = "=" /\ \A j \in 1 .. m : form[2 + j] = V[j]
      /\ form[m + 3] = "&" /\ form[m + 4] = k2 /\ form[m + 5] = "="
      /\ \A j \in 1 .. n : form[m + 5 + j] = W[j]
  BY DEF TwoLaid
<1>4. ASSUME NEW q \in 1 .. L, form[q] = "&" PROVE q = m + 3
  <2>1. q # 1 /\ q # 2 /\ q # m + 4 /\ q # m + 5
    BY <1>3, <1>4
  <2>2. CASE q \in 3 .. m + 2
    <3>1. q - 2 \in 1 .. m /\ 2 + (q - 2) = q
      BY <1>2, <2>2
    <3> QED BY <1>3, <1>4, <3>1 DEF m, Without
  <2>3. CASE q \in m + 6 .. L
    <3>1. q - (m + 5) \in 1 .. n /\ m + 5 + (q - (m + 5)) = q
      BY <1>2, <2>3
    <3> QED BY <1>3, <1>4, <3>1 DEF n, Without
  <2> HIDE DEF m, n, L
  <2> QED BY <1>2, <2>1, <2>2, <2>3
<1>5. ASSUME NEW q \in 1 .. L PROVE IsKey(form, q) <=> q \in {1, m + 4}
  <2>1. CASE IsKey(form, q)
    <3>1. q = 1 \/ form[q - 1] = "&"
      BY <2>1 DEF IsKey
    <3>2. q # 1 => q - 1 \in 1 .. L
      BY <1>2
    <3>3. q # 1 => q - 1 = m + 3
      BY <1>4, <3>1, <3>2
    <3> HIDE DEF m, n, L
    <3> QED BY <1>2, <2>1, <3>3
  <2>2. CASE q = 1
    <3>1. IsKey(form, 1)
      <4>1. 1 + 1 = 2 /\ 2 <= L
        BY <1>2
      <4> QED BY <1>3, <4>1 DEF IsKey
    <3> QED BY <2>2, <3>1
  <2>3. CASE q = m + 4
    <3>1. q + 1 = m + 5 /\ q - 1 = m + 3 /\ q + 1 <= L
      BY <1>2, <2>3
    <3>2. form[q - 1] = "&" /\ form[q + 1] = "="
      <4> HIDE DEF m
      <4> QED BY <1>3, <3>1
    <3> QED BY <3>1, <3>2 DEF IsKey
  <2> QED BY <2>1, <2>2, <2>3
<1> HIDE DEF m, n, L
<1>6. FormValue(form, <<k1>>) = UrlDecode(V)
  <2>1. 1 \in 1 .. L /\ IsKey(form, 1)
    BY <1>2, <1>5
  <2>2. FormValue(form, <<form[1]>>) = UrlDecode(ValueAt(form, 1 + 2))
    <3>1. \A q \in 1 .. 1 - 1 : form[q] = form[1] => ~IsKey(form, q)
      OBVIOUS
    <3> QED BY <1>1, <2>1, <3>1, KeyFound DEF L
  <2>3. First(Places(form, "&", 3), L + 1) = m + 3
    <3>1. Places(form, "&", 3) = {m + 3}
      <4>1. m + 3 \in 3 .. L /\ 3 .. L \subseteq 1 .. L
        BY <1>2
      <4> QED BY <1>3, <1>4, <4>1 DEF Places, L
    <3>2. {m + 3} \in SUBSET Nat /\ m + 3 \in {m + 3} /\ \A q \in {m + 3} : m + 3 <= q
      BY <1>2
    <3>3. First({m + 3}, L + 1) = m + 3
      BY <3>2, FirstIsLeast
    <3> QED BY <3>1, <3>3
  <2>4. ASSUME NEW e \in Nat, e = m + 3 PROVE SubSeq(form, 3, e - 1) = V
    <3>1. 3 \in Nat /\ e - 1 \in Int /\ e - 1 = 3 + Len(V) - 1
      BY <1>2, <2>4 DEF m
    <3>2. \A j \in 1 .. Len(V) : form[3 - 1 + j] = V[j]
      BY <1>3 DEF m
    <3> QED BY <1>1, <3>1, <3>2, PartIs
  <2>5. ValueAt(form, 3) = V
    <3>1. ValueAt(form, 3) = SubSeq(form, 3, First(Places(form, "&", 3), L + 1) - 1)
      BY DEF ValueAt, L
    <3>2. m + 3 \in Nat
      BY <1>2
    <3> QED BY <2>3, <2>4, <3>1, <3>2
  <2>6. 1 + 2 = 3 /\ form[1] = k1
    BY <1>3
  <2> QED BY <2>2, <2>5, <2>6
<1>7. FormValue(form, <<k2>>) = UrlDecode(W)
  <2>1. ASSUME NEW K \in 1 .. L, K = m + 4 PROVE FormValue(form, <<k2>>) = UrlDecode(W)
    <3>1. IsKey(form, K) /\ form[K] = k2
      BY <1>3, <1>5, <2>1
    <3>2. \A q \in 1 .. K - 1 : form[q] = form[K] => ~IsKey(form, q)
      <4> SUFFICES ASSUME NEW q \in 1 .. K - 1, form[q] = form[K], IsKey(form, q) PROVE FALSE
        OBVIOUS
      <4>1. q \in 1 .. L /\ q # K
        BY <1>2
      <4>2. q = 1
        BY <1>5, <2>1, <4>1
      <4> QED BY <1>3, <3>1, <4>2
    <3>3. FormValue(form, <<form[K]>>) = UrlDecode(ValueAt(form, K + 2))
      BY <1>1, <3>1, <3>2, KeyFound DEF L
    <3>4. First(Places(form, "&", K + 2), L + 1) = L + 1
      <4>1. \A e \in K + 2 .. L : e \in 1 .. L /\ e # m + 3
        BY <1>2, <2>1
      <4>2. Places(form, "&", K + 2) = {}
        BY <1>4, <4>1 DEF Places, L
      <4> QED BY <4>2 DEF First
    <3>5. SubSeq(form, K + 2, L + 1 - 1) = W
      <4>1. ASSUME NEW p \in Nat, p = K + 2, NEW e \in Int, e = L + 1 - 1
            PROVE  SubSeq(form, p, e) = W
        <5>1. e = p + Len(W) - 1
          BY <1>2, <2>1, <4>1 DEF n
        <5>2. ASSUME NEW j \in 1 .. Len(W) PROVE form[p - 1 + j] = W[j]
          <6>1. p - 1 + j = m + 5 + j
            BY <1>2, <2>1, <4>1
          <6> QED BY <1>3, <6>1 DEF n
        <5> QED BY <1>1, <5>1, <5>2, PartIs
      <4>2. K + 2 \in Nat /\ L + 1 - 1 \in Int
        BY <1>2
      <4> QED BY <4>1, <4>2
    <3>6. ValueAt(form, K + 2) = W
      BY <3>4, <3>5 DEF ValueAt, L
    <3> QED BY <3>1, <3>3, <3>6
  <2>2. m + 4 \in 1 .. L
    BY <1>2
  <2> QED BY <2>1, <2>2
<1>8. ASSUME NEW k, k # k1, k # k2 PROVE FormValue(form, <<k>>) = TextNull
  <2>1. \A q \in 1 .. L : form[q] = k => ~IsKey(form, q)
    BY <1>3, <1>5, <1>8
  <2> QED BY <1>1, <2>1, NoKeyFound DEF L
<1> QED BY <1>6, <1>7, <1>8 DEF FieldsRead

(* A form of two fields is read as the user wrote it, whatever is in it.   *)
THEOREM TwoFieldsRead ==
    ASSUME NEW C, NEW v \in Seq(C), NEW w \in Seq(C), NEW k1, NEW k2, NEW plus \in BOOLEAN,
           k1 # "&", k2 # "&", k1 # k2
    PROVE  FieldsRead(Body(<<[key |-> <<k1>>, value |-> v], [key |-> <<k2>>, value |-> w]>>, plus),
                      k1, v, k2, w)
<1> DEFINE V == Encoded(v, plus)
           W == Encoded(w, plus)
           form == Body(<<[key |-> <<k1>>, value |-> v], [key |-> <<k2>>, value |-> w]>>, plus)
<1>1. TwoLaid(form, k1, V, k2, W)
  BY TwoFieldsLaid
<1>2. Without(V, "&") /\ Without(W, "&")
  BY EncodedRead DEF Without
<1>3. UrlDecode(V) = v /\ UrlDecode(W) = w
  BY EncodedRead
<1> HIDE DEF V, W, form
<1>4. FieldsRead(form, k1, UrlDecode(V), k2, UrlDecode(W))
  BY <1>1, <1>2, TwoValues
<1> QED BY <1>3, <1>4 DEF form

(* Texts up to a length are sequences.                                     *)
LEMMA TextsAreSeqs ==
    ASSUME NEW chars, NEW n \in Nat, NEW text \in TextsOf(chars, n)
    PROVE  text \in Seq(chars) /\ Len(text) <= n
BY DEF TextsOf

(* A segment has its place in the path, and there is none after the last.  *)
LEMMA PathsAreSplit == PathsSplit
<1> SUFFICES ASSUME NEW s \in TextsOf({"a", "%", "+"}, 2) \ {<<>>},
                    NEW t \in {<<"a">>, <<"%", "a">>},
                    NEW url \in {Joined(<<s, t>>), Joined(<<t, s>>)}
             PROVE  /\ {PathSegment(url, 0), PathSegment(url, 1)} = {s, t}
                    /\ PathSegment(url, 2) = TextNull
  BY DEF PathsSplit
<1> DEFINE C == {"a", "%", "+"}
<1>1. s \in Seq(C) /\ t \in Seq(C) /\ s # <<>> /\ t # <<>>
  <2>1. s \in Seq(C)
    <3>1. s \in TextsOf(C, 2)
      OBVIOUS
    <3> HIDE DEF C
    <3> QED BY <3>1, TextsAreSeqs
  <2>2. t \in Seq(C) /\ t # <<>>
    <3>1. "a" \in C /\ "%" \in C
      OBVIOUS
    <3>2. \A x, y \in C : <<x>> \in Seq(C) /\ <<x>> # <<>> /\ <<x, y>> \in Seq(C) /\ <<x, y>> # <<>>
      <4> HIDE DEF C
      <4> QED OBVIOUS
    <3> HIDE DEF C
    <3> QED BY <3>1, <3>2
  <2>3. s # <<>>
    OBVIOUS
  <2> HIDE DEF C
  <2> QED BY <2>1, <2>2, <2>3
<1>2. \A text \in Seq(C) : \A k \in 1 .. Len(text) : text[k] # "/"
  <2>1. "/" \notin C
    OBVIOUS
  <2> HIDE DEF C
  <2> QED BY <2>1
<1> HIDE DEF C
<1>3. ASSUME NEW x \in Seq(C), NEW y \in Seq(C), x # <<>>, y # <<>>, url = Joined(<<x, y>>)
      PROVE  /\ PathSegment(url, 0) = x /\ PathSegment(url, 1) = y
             /\ PathSegment(url, 2) = TextNull
  <2>1. PICK segs : segs = <<x, y>>
    OBVIOUS
  <2>2. /\ segs \in Seq(Seq(C)) /\ Len(segs) = 2 /\ segs[1] = x /\ segs[2] = y
        /\ 1 \in 1 .. 2 /\ 2 \in 1 .. 2 /\ 1 - 1 = 0 /\ 2 - 1 = 1
        /\ \A i \in 1 .. 2 : i = 1 \/ i = 2
    BY <2>1
  <2>3. /\ \A i \in 1 .. Len(segs) : PathSegment(Joined(segs), i - 1) = segs[i]
        /\ PathSegment(Joined(segs), Len(segs)) = TextNull
    BY <1>2, <1>3, <2>2, AllSegments
  <2> QED BY <1>3, <2>1, <2>2, <2>3
<1>4. CASE url = Joined(<<s, t>>)
  BY <1>1, <1>3, <1>4
<1>5. CASE url = Joined(<<t, s>>)
  BY <1>1, <1>3, <1>5
<1> QED BY <1>4, <1>5

(* The fields of a form are read as they were written, in either order.    *)
LEMMA FormsAreKept == FormsKept
<1> SUFFICES ASSUME NEW v \in TextsOf(FormChars, MaxText), NEW w \in TextsOf(FormChars, 1)
             PROVE  LET n == [key |-> <<"n">>, value |-> v]
                        d == [key |-> <<"d">>, value |-> w]
                    IN  \A form \in {Body(f, plus) : f \in {<<n, d>>, <<d, n>>}, plus \in BOOLEAN} :
                            /\ FormValue(form, <<"n">>) = v
                            /\ FormValue(form, <<"d">>) = w
                            /\ FormValue(form, <<"t">>) = TextNull
  BY DEF FormsKept
<1> DEFINE n == [key |-> <<"n">>, value |-> v]
           d == [key |-> <<"d">>, value |-> w]
<1>1. v \in Seq(FormChars) /\ w \in Seq(FormChars)
  BY TextsAreSeqs, TextAssumption
<1>2. ASSUME NEW plus \in BOOLEAN
      PROVE  /\ FieldsRead(Body(<<n, d>>, plus), "n", v, "d", w)
             /\ FieldsRead(Body(<<d, n>>, plus), "d", w, "n", v)
  BY <1>1, TwoFieldsRead
<1>3. ASSUME NEW form,
             FieldsRead(form, "n", v, "d", w) \/ FieldsRead(form, "d", w, "n", v)
      PROVE  /\ FormValue(form, <<"n">>) = v
             /\ FormValue(form, <<"d">>) = w
             /\ FormValue(form, <<"t">>) = TextNull
  BY <1>3 DEF FieldsRead
<1> HIDE DEF n, d
<1>4. ASSUME NEW form \in {Body(f, plus) : f \in {<<n, d>>, <<d, n>>}, plus \in BOOLEAN}
      PROVE  FieldsRead(form, "n", v, "d", w) \/ FieldsRead(form, "d", w, "n", v)
  BY <1>2
<1> QED BY <1>3, <1>4 DEF n, d

(* A command comes to the guest as it was.                                 *)
LEMMA CommandsAreKept == CommandsKept
BY TextsAreSeqs, EscapeRead, TextAssumption DEF CommandsKept

-----------------------------------------------------------------------------
(* Output of the guest: base64_decode() (src/util.c:162-198).              *)

(* A digit that is shifted into buf, and the byte that is taken from it.   *)
Shifted(x, d, y) == y = (x * 64 + d) % 16384
ByteAt(y, z, b) == b = (y \div 2 ^ z) % 256

InBuf(x) == x \in 0 .. 16383
IsByte(b) == b \in 0 .. 255

(* The digits of a group, and the bits of a byte that wait in buf for the  *)
(* next digit.                                                             *)
Digit1(a, d) == d = a \div 4
Digit2(a, b, d) == d = (a % 4) * 16 + (b \div 16)
Digit3(b, c, d) == d = (b % 16) * 4 + (c \div 64)
Digit4(c, d) == d = c % 64
Waits6(x, a) == x % 64 = a \div 4
Waits4(x, b) == x % 16 = b \div 16
Waits2(x, c) == x % 4 = c \div 64

(* The digits that three bytes make.                                       *)
Word(a, b, c) == (a * 256 + b) * 256 + c

LEMMA DigitsOfBytes ==
    ASSUME NEW a, IsByte(a), NEW b, IsByte(b), NEW c, IsByte(c)
    PROVE  /\ Digit1(a, Word(a, b, c) \div 262144)
           /\ Digit2(a, b, (Word(a, b, c) \div 4096) % 64)
           /\ Digit3(b, c, (Word(a, b, c) \div 64) % 64)
           /\ Digit4(c, Word(a, b, c) % 64)
<1>1. ASSUME NEW w, w = Word(a, b, c)
      PROVE  /\ w \in Int
             /\ w \div 262144 = a \div 4
             /\ (w \div 4096) % 64 = (a % 4) * 16 + (b \div 16)
             /\ (w \div 64) % 64 = (b % 16) * 4 + (c \div 64)
             /\ w % 64 = c % 64
  BY <1>1, SMTT(60) DEF IsByte, Word
<1> QED BY <1>1 DEF Digit1, Digit2, Digit3, Digit4

(* What waits in buf after each digit, and the byte that is taken from it. *)
LEMMA FirstDigit ==
    ASSUME NEW x, InBuf(x), NEW a, IsByte(a), NEW d, Digit1(a, d), NEW y, Shifted(x, d, y)
    PROVE  Waits6(y, a)
BY SMTT(60) DEF InBuf, IsByte, Shifted, Digit1, Waits6

LEMMA SecondDigit ==
    ASSUME NEW x, InBuf(x), NEW a, IsByte(a), Waits6(x, a), NEW b, IsByte(b),
           NEW d, Digit2(a, b, d), NEW y, Shifted(x, d, y)
    PROVE  ByteAt(y, 4, a) /\ Waits4(y, b)
<1>1. PICK r \in 0 .. 15 : r = b \div 16
  BY DEF InBuf, IsByte
<1> QED BY <1>1, SMTT(60) DEF InBuf, IsByte, Shifted, ByteAt, Digit2, Waits6, Waits4

LEMMA ThirdDigit ==
    ASSUME NEW x, InBuf(x), NEW b, IsByte(b), Waits4(x, b), NEW c, IsByte(c),
           NEW d, Digit3(b, c, d), NEW y, Shifted(x, d, y)
    PROVE  ByteAt(y, 2, b) /\ Waits2(y, c)
<1>1. PICK r \in 0 .. 3 : r = c \div 64
  BY DEF InBuf, IsByte
<1> QED BY <1>1, SMTT(60) DEF InBuf, IsByte, Shifted, ByteAt, Digit3, Waits4, Waits2

LEMMA FourthDigit ==
    ASSUME NEW x, InBuf(x), NEW c, IsByte(c), Waits2(x, c), NEW d, Digit4(c, d),
           NEW y, Shifted(x, d, y)
    PROVE  ByteAt(y, 0, c)
<1>1. y = (x * 64 + (c % 64)) % 16384 /\ y \in Int
  BY DEF Shifted, Digit4, InBuf, IsByte
<1>2. y % 256 = (x * 64 + (c % 64)) % 256
  BY <1>1 DEF InBuf, IsByte
<1>3. (x * 64 + (c % 64)) % 256 = (x % 4) * 64 + (c % 64)
  BY DEF InBuf, IsByte
<1>4. c = (c \div 64) * 64 + (c % 64)
  BY DEF InBuf, IsByte
<1>5. y % 256 = c
  BY <1>2, <1>3, <1>4 DEF Waits2, InBuf, IsByte
<1>6. (y \div 2 ^ 0) % 256 = y % 256
  <2>1. \A z \in Int : (z \div 1) % 256 = z % 256
    OBVIOUS
  <2>2. 2 ^ 0 = 1
    OBVIOUS
  <2>3. (y \div 1) % 256 = y % 256
    BY <1>1, <2>1
  <2> QED BY <2>2, <2>3
<1> QED BY <1>5, <1>6, Zenon DEF ByteAt

(* A variable of a loop, after each of its n rounds.                       *)
LoopOf(n, V, a, step) == n \in Nat /\ a \in V /\ step \in [1 .. n -> [V -> V]]
ValuesOf(g, n, V, a, step) ==
    /\ g \in [0 .. n -> V]
    /\ g[0] = a
    /\ \A i \in 1 .. n : g[i] = step[i][g[i - 1]]

(* A variable of a loop has values.                                        *)
LEMMA LoopHasValues ==
    ASSUME NEW n, NEW V, NEW a, NEW step, LoopOf(n, V, a, step)
    PROVE  \E g : ValuesOf(g, n, V, a, step)
<1>0. n \in Nat /\ a \in V /\ step \in [1 .. n -> [V -> V]]
  BY DEF LoopOf
<1> DEFINE D == 0 .. n
           last == [i \in D |-> a]
           next == [i \in D |-> IF i = 0 THEN 0 ELSE i - 1]
           all == [i \in D |-> IF i = 0 THEN [x \in V |-> x] ELSE step[i]]
           rank == [i \in D |-> i]
<1>1. WellFounded(D, V, {0}, last, next, all)
  <2>1. last \in [D -> V] /\ next \in [D -> D]
    BY <1>0
  <2>2. all \in [D -> [V -> V]]
    <3>1. [x \in V |-> x] \in [V -> V]
      OBVIOUS
    <3>2. \A i \in D : i # 0 => i \in 1 .. n
      BY <1>0
    <3> QED BY <1>0, <3>1, <3>2
  <2>3. rank \in [D -> 0 .. n] /\ \A i \in D \ {0} : rank[next[i]] < rank[i]
    BY <1>0
  <2> HIDE DEF last, next, all, D, rank
  <2> QED BY <1>0, <2>1, <2>2, <2>3 DEF WellFounded
<1>2. PICK g : Solution(g, D, V, {0}, last, next, all)
  <2> HIDE DEF last, next, all, D
  <2> QED BY <1>0, <1>1, Solved
<1>3. g \in [D -> V]
  BY <1>2 DEF Solution
<1>4. g[0] = a
  BY <1>0, <1>2 DEF Solution
<1>5. ASSUME NEW i \in 1 .. n PROVE g[i] = step[i][g[i - 1]]
  <2>1. i \in D /\ i \notin {0} /\ next[i] = i - 1 /\ all[i] = step[i]
    BY <1>0
  <2> HIDE DEF D, next, all, last
  <2> QED BY <1>2, <2>1 DEF Solution
<1> QED BY <1>3, <1>4, <1>5 DEF ValuesOf

(* The rounds of base64_decode().                                          *)
Round(digits, bits, buf, out, i, h) ==
    /\ digits[i] = Pad => bits[i] = bits[h] /\ buf[i] = buf[h] /\ out[i] = out[h]
    /\ digits[i] # Pad =>
          /\ bits[i] = (bits[h] + 6) % 8
          /\ Shifted(buf[h], digits[i], buf[i])
          /\ bits[h] + 6 < 8 => out[i] = out[h]
          /\ ~(bits[h] + 6 < 8) =>
                \E b : ByteAt(buf[i], bits[i], b) /\ out[i] = Append(out[h], b)

Rounds(digits, bits, buf, out) ==
    /\ bits[0] = 0 /\ buf[0] = 0 /\ out[0] = <<>>
    /\ \A i \in 1 .. Len(digits) : Round(digits, bits, buf, out, i, i - 1)

(* The variables of base64_decode() have these values.                     *)
LEMMA Base64DecodeLoops ==
    ASSUME NEW digits \in Seq(0 .. 64)
    PROVE  \E bits, buf, out :
              Rounds(digits, bits, buf, out) /\ Base64Decode(digits) = out[Len(digits)]
<1>1. Len(digits) \in Nat /\ \A i \in 1 .. Len(digits) : digits[i] \in 0 .. 64
  BY ElementOfSeq, LenProperties
<1> DEFINE L == Len(digits)
           bitsOf(f, i) == IF i = 0 THEN 0
                           ELSE IF digits[i] = Pad THEN f[i - 1]
                           ELSE (f[i - 1] + 6) % 8
           bits == CHOOSE f : f = [i \in 0 .. Len(digits) |-> bitsOf(f, i)]
           bufOf(f, i) == IF i = 0 THEN 0
                          ELSE IF digits[i] = Pad THEN f[i - 1]
                          ELSE (f[i - 1] * 64 + digits[i]) % 16384
           buf == CHOOSE f : f = [i \in 0 .. Len(digits) |-> bufOf(f, i)]
           outOf(f, i) == IF i = 0 THEN <<>>
                          ELSE IF digits[i] = Pad \/ bits[i - 1] + 6 < 8 THEN f[i - 1]
                          ELSE Append(f[i - 1], (buf[i] \div 2 ^ bits[i]) % 256)
           out == CHOOSE f : f = [i \in 0 .. Len(digits) |-> outOf(f, i)]
<1>2. bits = [i \in 0 .. L |-> bitsOf(bits, i)]
  <2> HIDE DEF bits, buf, out
  <2> DEFINE step == [i \in 1 .. L |-> [x \in Int |-> IF digits[i] = Pad THEN x ELSE (x + 6) % 8]]
  <2>1. step \in [1 .. L -> [Int -> Int]]
    <3>1. \A x \in Int : (x + 6) % 8 \in Int
      OBVIOUS
    <3> QED BY <3>1
  <2>2. \A i \in 1 .. L, x \in Int : step[i][x] = IF digits[i] = Pad THEN x ELSE (x + 6) % 8
    OBVIOUS
  <2>3. L \in Nat /\ LoopOf(L, Int, 0, step)
    BY <1>1, <2>1 DEF LoopOf
  <2> HIDE DEF step, L, bitsOf, bufOf, outOf
  <2>4. PICK g : ValuesOf(g, L, Int, 0, step)
    BY <2>3, LoopHasValues
  <2>5. g \in [0 .. L -> Int] /\ g[0] = 0 /\ \A i \in 1 .. L : g[i] = step[i][g[i - 1]]
    BY <2>4 DEF ValuesOf
  <2>6. ASSUME NEW i \in 0 .. L PROVE g[i] = bitsOf(g, i)
    <3>1. CASE i = 0
      BY <2>5, <3>1 DEF bitsOf
    <3>2. CASE i # 0
      <4>1. i \in 1 .. L /\ i - 1 \in 0 .. L /\ g[i - 1] \in Int
        BY <2>3, <2>5, <3>2
      <4>2. g[i] = IF digits[i] = Pad THEN g[i - 1] ELSE (g[i - 1] + 6) % 8
        BY <2>2, <2>5, <4>1
      <4> QED BY <3>2, <4>2 DEF bitsOf
    <3> QED BY <3>1, <3>2
  <2>7. g = [i \in 0 .. L |-> bitsOf(g, i)]
    BY <2>5, <2>6
  <2> QED BY <2>7, Zenon DEF L, bits
<1>3. buf = [i \in 0 .. L |-> bufOf(buf, i)]
  <2> HIDE DEF bits, buf, out
  <2> DEFINE with(x, i) == (x * 64 + digits[i]) % 16384
             step == [i \in 1 .. L |-> [x \in Int |-> IF digits[i] = Pad THEN x ELSE with(x, i)]]
  <2>1. step \in [1 .. L -> [Int -> Int]]
    <3>1. \A i \in 1 .. L, x \in Int : with(x, i) \in Int
      <4>1. \A x \in Int, d \in 0 .. 64 : (x * 64 + d) % 16384 \in Int
        OBVIOUS
      <4> QED BY <1>1, <4>1
    <3> HIDE DEF with
    <3> QED BY <3>1
  <2> HIDE DEF with
  <2>2. \A i \in 1 .. L, x \in Int : step[i][x] = IF digits[i] = Pad THEN x ELSE with(x, i)
    OBVIOUS
  <2>3. L \in Nat /\ LoopOf(L, Int, 0, step)
    BY <1>1, <2>1 DEF LoopOf
  <2> HIDE DEF step, L, bitsOf, bufOf, outOf
  <2>4. PICK g : ValuesOf(g, L, Int, 0, step)
    BY <2>3, LoopHasValues
  <2>5. g \in [0 .. L -> Int] /\ g[0] = 0 /\ \A i \in 1 .. L : g[i] = step[i][g[i - 1]]
    BY <2>4 DEF ValuesOf
  <2>6. ASSUME NEW i \in 0 .. L PROVE g[i] = bufOf(g, i)
    <3>1. CASE i = 0
      BY <2>5, <3>1 DEF bufOf
    <3>2. CASE i # 0
      <4>1. i \in 1 .. L /\ i - 1 \in 0 .. L /\ g[i - 1] \in Int
        BY <2>3, <2>5, <3>2
      <4>2. g[i] = step[i][g[i - 1]]
        BY <2>5, <4>1
      <4>3. \A x \in Int : step[i][x] = IF digits[i] = Pad THEN x ELSE with(x, i)
        BY <2>2, <4>1
      <4>4. step[i][g[i - 1]] = IF digits[i] = Pad THEN g[i - 1] ELSE with(g[i - 1], i)
        BY <4>1, <4>3, Zenon
      <4>5. bufOf(g, i) = IF digits[i] = Pad THEN g[i - 1] ELSE with(g[i - 1], i)
        BY <3>2 DEF bufOf, with
      <4> QED BY <4>2, <4>4, <4>5
    <3> QED BY <3>1, <3>2
  <2>7. g = [i \in 0 .. L |-> bufOf(g, i)]
    BY <2>5, <2>6
  <2> QED BY <2>7, Zenon DEF L, buf
<1>4. out = [i \in 0 .. L |-> outOf(out, i)]
  <2> HIDE DEF bits, buf, out
  <2> DEFINE byte(i) == (buf[i] \div 2 ^ bits[i]) % 256
             W == {byte(i) : i \in 1 .. L}
             skipped(i) == digits[i] = Pad \/ bits[i - 1] + 6 < 8
             step == [i \in 1 .. L |-> [x \in Seq(W) |->
                        IF skipped(i) THEN x ELSE Append(x, byte(i))]]
  <2>a. \A i \in 1 .. L : byte(i) \in W
    OBVIOUS
  <2> HIDE DEF byte, W, skipped
  <2>1. step \in [1 .. L -> [Seq(W) -> Seq(W)]]
    <3>1. \A i \in 1 .. L, x \in Seq(W) : Append(x, byte(i)) \in Seq(W)
      BY <2>a, AppendProperties
    <3> QED BY <3>1
  <2>2. \A i \in 1 .. L, x \in Seq(W) : step[i][x] = IF skipped(i) THEN x ELSE Append(x, byte(i))
    OBVIOUS
  <2>3. L \in Nat /\ LoopOf(L, Seq(W), <<>>, step)
    <3>1. <<>> \in Seq(W)
      OBVIOUS
    <3> QED BY <1>1, <2>1, <3>1 DEF LoopOf
  <2> HIDE DEF step, L, bitsOf, bufOf, outOf
  <2>4. PICK g : ValuesOf(g, L, Seq(W), <<>>, step)
    BY <2>3, LoopHasValues
  <2>5. g \in [0 .. L -> Seq(W)] /\ g[0] = <<>> /\ \A i \in 1 .. L : g[i] = step[i][g[i - 1]]
    BY <2>4 DEF ValuesOf
  <2>6. ASSUME NEW i \in 0 .. L PROVE g[i] = outOf(g, i)
    <3>1. CASE i = 0
      BY <2>5, <3>1 DEF outOf
    <3>2. CASE i # 0
      <4>1. i \in 1 .. L /\ i - 1 \in 0 .. L /\ g[i - 1] \in Seq(W)
        BY <2>3, <2>5, <3>2
      <4>2. g[i] = step[i][g[i - 1]]
        BY <2>5, <4>1
      <4>3. step[i][g[i - 1]] = IF skipped(i) THEN g[i - 1] ELSE Append(g[i - 1], byte(i))
        BY <2>2, <4>1, Zenon
      <4> QED BY <3>2, <4>2, <4>3, Zenon DEF outOf, skipped, byte
    <3> QED BY <3>1, <3>2
  <2>7. g = [i \in 0 .. L |-> outOf(g, i)]
    BY <2>5, <2>6
  <2> QED BY <2>7, Zenon DEF L, out
<1>5. Base64Decode(digits) = out[L]
  BY DEF Base64Decode
<1>6. Rounds(digits, bits, buf, out)
  <2> HIDE DEF bits, buf, out
  <2>1. bits[0] = 0 /\ buf[0] = 0 /\ out[0] = <<>>
    <3>1. 0 \in 0 .. L
      BY <1>1
    <3>2. bits[0] = bitsOf(bits, 0) /\ buf[0] = bufOf(buf, 0) /\ out[0] = outOf(out, 0)
      <4> HIDE DEF bitsOf, bufOf, outOf
      <4> QED BY <1>2, <1>3, <1>4, <3>1, Zenon
    <3> QED BY <3>2
  <2>2. ASSUME NEW i \in 1 .. L
        PROVE  bits[i] = bitsOf(bits, i) /\ buf[i] = bufOf(buf, i) /\ out[i] = outOf(out, i)
    <3>1. i \in 0 .. L
      BY <1>1
    <3> HIDE DEF bitsOf, bufOf, outOf
    <3> QED BY <1>2, <1>3, <1>4, <3>1, Zenon
  <2>3. ASSUME NEW i \in 1 .. L PROVE i # 0
    OBVIOUS
  <2>4. ASSUME NEW i \in 1 .. L, digits[i] = Pad
        PROVE  bits[i] = bits[i - 1] /\ buf[i] = buf[i - 1] /\ out[i] = out[i - 1]
    BY <2>2, <2>3, <2>4
  <2>5. ASSUME NEW i \in 1 .. L, digits[i] # Pad
        PROVE  /\ bits[i] = (bits[i - 1] + 6) % 8
               /\ buf[i] = (buf[i - 1] * 64 + digits[i]) % 16384
               /\ bits[i - 1] + 6 < 8 => out[i] = out[i - 1]
               /\ ~(bits[i - 1] + 6 < 8) =>
                     out[i] = Append(out[i - 1], (buf[i] \div 2 ^ bits[i]) % 256)
    <3>1. bits[i] = bitsOf(bits, i) /\ buf[i] = bufOf(buf, i) /\ out[i] = outOf(out, i)
      BY <2>2
    <3>2. i # 0 /\ digits[i] # Pad
      BY <2>3, <2>5
    <3>3. bitsOf(bits, i) = (bits[i - 1] + 6) % 8
      BY <3>2
    <3>4. bufOf(buf, i) = (buf[i - 1] * 64 + digits[i]) % 16384
      BY <3>2
    <3>5. ASSUME bits[i - 1] + 6 < 8 PROVE outOf(out, i) = out[i - 1]
      BY <3>2, <3>5
    <3>6. ASSUME ~(bits[i - 1] + 6 < 8)
          PROVE  outOf(out, i) = Append(out[i - 1], (buf[i] \div 2 ^ bits[i]) % 256)
      BY <3>2, <3>6
    <3> HIDE DEF bitsOf, bufOf, outOf
    <3> QED BY <3>1, <3>3, <3>4, <3>5, <3>6
  <2> HIDE DEF bitsOf, bufOf, outOf
  <2>6. ASSUME NEW i \in 1 .. L PROVE Round(digits, bits, buf, out, i, i - 1)
    <3>1. ASSUME digits[i] = Pad
          PROVE  bits[i] = bits[i - 1] /\ buf[i] = buf[i - 1] /\ out[i] = out[i - 1]
      BY <2>4, <3>1
    <3>2. ASSUME digits[i] # Pad
          PROVE  /\ bits[i] = (bits[i - 1] + 6) % 8
                 /\ Shifted(buf[i - 1], digits[i], buf[i])
                 /\ bits[i - 1] + 6 < 8 => out[i] = out[i - 1]
                 /\ ~(bits[i - 1] + 6 < 8) =>
                       \E b : ByteAt(buf[i], bits[i], b) /\ out[i] = Append(out[i - 1], b)
      BY <2>5, <3>2 DEF Shifted, ByteAt
    <3> QED BY <3>1, <3>2 DEF Round
  <2> QED BY <2>1, <2>6, Zenon DEF Rounds
<1> HIDE DEF bits, buf, out
<1> QED BY <1>5, <1>6

(* The variables after digit i, and a digit that comes next.               *)
At(bits, buf, out, i, z, x, o) == bits[i] = z /\ buf[i] = x /\ InBuf(x) /\ out[i] = o
Digit(digits, i, d) == i \in 1 .. Len(digits) /\ digits[i] = d /\ d \in 0 .. 63

(* One round: a digit, and a "=".                                          *)
LEMMA OneRound ==
    ASSUME NEW digits, NEW bits, NEW buf, NEW out, Rounds(digits, bits, buf, out),
           NEW i, NEW h, h = i - 1, NEW d, Digit(digits, i, d),
           NEW z, NEW x, NEW o, At(bits, buf, out, h, z, x, o),
           NEW y, Shifted(x, d, y), NEW w, w = (z + 6) % 8,
           NEW b, ByteAt(y, w, b)
    PROVE  /\ z + 6 < 8 => At(bits, buf, out, i, w, y, o)
           /\ ~(z + 6 < 8) => At(bits, buf, out, i, w, y, Append(o, b))
<1>1. InBuf(x) /\ bits[h] = z /\ buf[h] = x /\ out[h] = o
  BY DEF At
<1>2. i \in 1 .. Len(digits) /\ digits[i] = d /\ d \in 0 .. 63 /\ digits[i] # Pad
  BY DEF Pad, Digit
<1>3. Round(digits, bits, buf, out, i, h)
  BY <1>2 DEF Rounds
<1>4. bits[i] = w
  BY <1>1, <1>2, <1>3 DEF Round
<1>5. buf[i] = y
  BY <1>1, <1>2, <1>3 DEF Round, Shifted
<1>6. InBuf(y)
  BY <1>1, <1>2 DEF Shifted, InBuf
<1>7. ASSUME z + 6 < 8 PROVE out[i] = o
  BY <1>1, <1>2, <1>3, <1>7 DEF Round
<1>8. ASSUME ~(z + 6 < 8) PROVE out[i] = Append(o, b)
  <2>1. PICK c : ByteAt(y, w, c) /\ out[i] = Append(o, c)
    BY <1>1, <1>2, <1>3, <1>4, <1>5, <1>8 DEF Round
  <2> QED BY <2>1, Zenon DEF ByteAt
<1> QED BY <1>4, <1>5, <1>6, <1>7, <1>8 DEF At

(* So of four digits.                                                      *)
LEMMA FirstRound ==
    ASSUME NEW digits, NEW bits, NEW buf, NEW out, Rounds(digits, bits, buf, out),
           NEW i, NEW h, h = i - 1, NEW d, Digit(digits, i, d),
           NEW x, NEW o, At(bits, buf, out, h, 0, x, o), NEW y, Shifted(x, d, y)
    PROVE  At(bits, buf, out, i, 6, y, o)
<1>1. 6 = (0 + 6) % 8 /\ 0 + 6 < 8
  OBVIOUS
<1>2. PICK b : ByteAt(y, 6, b)
  BY DEF ByteAt
<1> QED BY <1>1, <1>2, OneRound

LEMMA SecondRound ==
    ASSUME NEW digits, NEW bits, NEW buf, NEW out, Rounds(digits, bits, buf, out),
           NEW i, NEW h, h = i - 1, NEW d, Digit(digits, i, d),
           NEW x, NEW o, At(bits, buf, out, h, 6, x, o), NEW y, Shifted(x, d, y),
           NEW b, ByteAt(y, 4, b)
    PROVE  At(bits, buf, out, i, 4, y, Append(o, b))
<1>1. 4 = (6 + 6) % 8 /\ ~(6 + 6 < 8)
  OBVIOUS
<1> QED BY <1>1, OneRound

LEMMA ThirdRound ==
    ASSUME NEW digits, NEW bits, NEW buf, NEW out, Rounds(digits, bits, buf, out),
           NEW i, NEW h, h = i - 1, NEW d, Digit(digits, i, d),
           NEW x, NEW o, At(bits, buf, out, h, 4, x, o), NEW y, Shifted(x, d, y),
           NEW b, ByteAt(y, 2, b)
    PROVE  At(bits, buf, out, i, 2, y, Append(o, b))
<1>1. 2 = (4 + 6) % 8 /\ ~(4 + 6 < 8)
  OBVIOUS
<1> QED BY <1>1, OneRound

LEMMA FourthRound ==
    ASSUME NEW digits, NEW bits, NEW buf, NEW out, Rounds(digits, bits, buf, out),
           NEW i, NEW h, h = i - 1, NEW d, Digit(digits, i, d),
           NEW x, NEW o, At(bits, buf, out, h, 2, x, o), NEW y, Shifted(x, d, y),
           NEW b, ByteAt(y, 0, b)
    PROVE  At(bits, buf, out, i, 0, y, Append(o, b))
<1>1. 0 = (2 + 6) % 8 /\ ~(2 + 6 < 8)
  OBVIOUS
<1> QED BY <1>1, OneRound

(* A "=" changes nothing.                                                  *)
LEMMA PadRound ==
    ASSUME NEW digits, NEW bits, NEW buf, NEW out, Rounds(digits, bits, buf, out),
           NEW i \in 1 .. Len(digits), NEW h, h = i - 1,
           NEW z, NEW x, NEW o, At(bits, buf, out, h, z, x, o), digits[i] = Pad
    PROVE  At(bits, buf, out, i, z, x, o)
<1>1. Round(digits, bits, buf, out, i, h)
  BY DEF Rounds
<1> QED BY <1>1 DEF At, Round

(* The digits of a group, in turn.                                         *)
LEMMA FirstByte ==
    ASSUME NEW digits, NEW bits, NEW buf, NEW out, Rounds(digits, bits, buf, out),
           NEW h \in Nat, NEW i \in Nat, h = i - 1, NEW j \in Nat, i = j - 1,
           NEW a, IsByte(a), NEW b, IsByte(b),
           NEW d, Digit1(a, d), Digit(digits, i, d),
           NEW e, Digit2(a, b, e), Digit(digits, j, e),
           NEW x, NEW o, At(bits, buf, out, h, 0, x, o)
    PROVE  \E y : At(bits, buf, out, j, 4, y, Append(o, a)) /\ Waits4(y, b)
<1>1. InBuf(x)
  BY DEF At
<1>2. PICK y : Shifted(x, d, y)
  BY DEF Shifted
<1>3. At(bits, buf, out, i, 6, y, o)
  BY <1>2, FirstRound
<1>4. InBuf(y)
  BY <1>3 DEF At
<1>5. Waits6(y, a)
  BY <1>1, <1>2, FirstDigit
<1>6. PICK w : Shifted(y, e, w)
  BY DEF Shifted
<1>7. ByteAt(w, 4, a) /\ Waits4(w, b)
  BY <1>4, <1>5, <1>6, SecondDigit
<1>8. At(bits, buf, out, j, 4, w, Append(o, a))
  BY <1>3, <1>6, <1>7, SecondRound
<1> QED BY <1>7, <1>8

LEMMA SecondByte ==
    ASSUME NEW digits, NEW bits, NEW buf, NEW out, Rounds(digits, bits, buf, out),
           NEW h \in Nat, NEW i \in Nat, h = i - 1,
           NEW b, IsByte(b), NEW c, IsByte(c),
           NEW d, Digit3(b, c, d), Digit(digits, i, d),
           NEW x, NEW o, At(bits, buf, out, h, 4, x, o), Waits4(x, b)
    PROVE  \E y : At(bits, buf, out, i, 2, y, Append(o, b)) /\ Waits2(y, c)
<1>1. InBuf(x)
  BY DEF At
<1>2. PICK y : Shifted(x, d, y)
  BY DEF Shifted
<1>3. ByteAt(y, 2, b) /\ Waits2(y, c)
  BY <1>1, <1>2, ThirdDigit
<1>4. At(bits, buf, out, i, 2, y, Append(o, b))
  BY <1>2, <1>3, ThirdRound
<1> QED BY <1>3, <1>4

LEMMA ThirdByte ==
    ASSUME NEW digits, NEW bits, NEW buf, NEW out, Rounds(digits, bits, buf, out),
           NEW h \in Nat, NEW i \in Nat, h = i - 1,
           NEW c, IsByte(c), NEW d, Digit4(c, d), Digit(digits, i, d),
           NEW x, NEW o, At(bits, buf, out, h, 2, x, o), Waits2(x, c)
    PROVE  \E y : At(bits, buf, out, i, 0, y, Append(o, c))
<1>1. InBuf(x)
  BY DEF At
<1>2. PICK y : Shifted(x, d, y)
  BY DEF Shifted
<1>3. ByteAt(y, 0, c)
  BY <1>1, <1>2, FourthDigit
<1>4. At(bits, buf, out, i, 0, y, Append(o, c))
  BY <1>2, <1>3, FourthRound
<1> QED BY <1>4

ByteOf(o, i) == IF i <= Len(o) THEN o[i] ELSE 0

(* The four digits behind p stand for the bytes of o behind q.             *)
GroupIn(digits, p, o, q) ==
    LET a == ByteOf(o, q + 1)
        b == ByteOf(o, q + 2)
        c == ByteOf(o, q + 3)
    IN  /\ Digit1(a, digits[p + 1])
        /\ Digit2(a, b, digits[p + 2])
        /\ IF q + 2 <= Len(o) THEN Digit3(b, c, digits[p + 3]) ELSE digits[p + 3] = Pad
        /\ IF q + 3 <= Len(o) THEN Digit4(c, digits[p + 4]) ELSE digits[p + 4] = Pad

(* Digits are less than 64.                                                *)
LEMMA DigitRange ==
    ASSUME NEW a, IsByte(a), NEW b, IsByte(b), NEW d
    PROVE  /\ Digit1(a, d) => d \in 0 .. 63
           /\ Digit2(a, b, d) => d \in 0 .. 63
           /\ Digit3(a, b, d) => d \in 0 .. 63
           /\ Digit4(a, d) => d \in 0 .. 63
<1>1. Digit1(a, d) => d \in 0 .. 63
  BY DEF IsByte, Digit1
<1>2. Digit2(a, b, d) => d \in 0 .. 63
  <2>1. a % 4 \in 0 .. 3 /\ b \div 16 \in 0 .. 15
    BY DEF IsByte
  <2> QED BY <2>1 DEF Digit2
<1>3. Digit3(a, b, d) => d \in 0 .. 63
  <2>1. a % 16 \in 0 .. 15 /\ b \div 64 \in 0 .. 3
    BY DEF IsByte
  <2> QED BY <2>1 DEF Digit3
<1>4. Digit4(a, d) => d \in 0 .. 63
  BY DEF IsByte, Digit4
<1> QED BY <1>1, <1>2, <1>3, <1>4

(* What stands for a byte, in the output or behind it, is one.             *)
LEMMA BytesOf ==
    ASSUME NEW o \in Seq(0 .. 255), NEW i \in Nat \ {0}
    PROVE  IsByte(ByteOf(o, i))
BY ElementOfSeq, LenProperties DEF IsByte, ByteOf

(* One more of the first characters.                                       *)
LEMMA SubSeqGrows ==
    ASSUME NEW S, NEW o \in Seq(S), NEW q \in Nat, NEW r \in Nat, r = q + 1, r <= Len(o)
    PROVE  SubSeq(o, 1, r) = Append(SubSeq(o, 1, q), o[r])
OBVIOUS

(* A group is decoded into the bytes it stands for.                        *)
LEMMA GroupDecoded ==
    ASSUME NEW o \in Seq(0 .. 255), NEW digits, NEW bits, NEW buf, NEW out,
           Rounds(digits, bits, buf, out), Len(digits) \in Nat,
           NEW p \in Nat, NEW q \in Nat, q < Len(o), GroupIn(digits, p, o, q),
           NEW i \in Nat, i = p + 1, NEW j \in Nat, j = p + 2,
           NEW k \in Nat, k = p + 3, NEW l \in Nat, l = p + 4, l <= Len(digits),
           NEW x, At(bits, buf, out, p, 0, x, SubSeq(o, 1, q))
    PROVE  /\ q + 3 <= Len(o) => \E y : At(bits, buf, out, l, 0, y, SubSeq(o, 1, q + 3))
           /\ ~(q + 3 <= Len(o)) => out[l] = o
<1> DEFINE a == ByteOf(o, q + 1)
           b == ByteOf(o, q + 2)
           c == ByteOf(o, q + 3)
<1>1. /\ Digit1(a, digits[i]) /\ Digit2(a, b, digits[j])
      /\ IF q + 2 <= Len(o) THEN Digit3(b, c, digits[k]) ELSE digits[k] = Pad
      /\ IF q + 3 <= Len(o) THEN Digit4(c, digits[l]) ELSE digits[l] = Pad
  BY Zenon DEF GroupIn
<1>2. IsByte(a) /\ IsByte(b) /\ IsByte(c)
  <2>1. q + 1 \in Nat \ {0} /\ q + 2 \in Nat \ {0} /\ q + 3 \in Nat \ {0}
    OBVIOUS
  <2> QED BY <2>1, BytesOf
<1>3. Len(o) \in Nat /\ a = o[q + 1] /\ (q + 2 <= Len(o) => b = o[q + 2])
      /\ (q + 3 <= Len(o) => c = o[q + 3])
  BY DEF ByteOf
<1>4. p = i - 1 /\ i = j - 1 /\ j = k - 1 /\ k = l - 1 /\ {i, j, k, l} \subseteq 1 .. Len(digits)
  OBVIOUS
<1>5. SubSeq(o, 1, q + 1) = Append(SubSeq(o, 1, q), a)
  <2>1. q + 1 \in Nat /\ q + 1 <= Len(o)
    BY <1>3
  <2> HIDE DEF a
  <2> QED BY <1>3, <2>1, SubSeqGrows
<1>6. SubSeq(o, 1, Len(o)) = o
  OBVIOUS
<1> HIDE DEF a, b, c
<1>7. PICK y : At(bits, buf, out, j, 4, y, SubSeq(o, 1, q + 1)) /\ Waits4(y, b)
  <2>1. digits[i] \in 0 .. 63 /\ digits[j] \in 0 .. 63
    BY <1>1, <1>2, DigitRange
  <2>2. Digit(digits, i, digits[i]) /\ Digit(digits, j, digits[j])
    BY <1>4, <2>1 DEF Digit
  <2>3. \E y : At(bits, buf, out, j, 4, y, Append(SubSeq(o, 1, q), a)) /\ Waits4(y, b)
    <3>1. PICK d, e : d = digits[i] /\ e = digits[j]
      OBVIOUS
    <3>2. Digit1(a, d) /\ Digit2(a, b, e) /\ Digit(digits, i, d) /\ Digit(digits, j, e)
      BY <1>1, <2>2, <3>1
    <3>3. PICK s : s = SubSeq(o, 1, q)
      OBVIOUS
    <3>4. At(bits, buf, out, p, 0, x, s) /\ p = i - 1 /\ i = j - 1
      BY <1>4, <3>3
    <3>5. \E y : At(bits, buf, out, j, 4, y, Append(s, a)) /\ Waits4(y, b)
      BY <1>2, <3>2, <3>4, FirstByte
    <3> QED BY <3>3, <3>5
  <2> QED BY <1>5, <2>3
<1>8. CASE ~(q + 2 <= Len(o))
  <2>1. digits[k] = Pad /\ digits[l] = Pad /\ q + 1 = Len(o)
    BY <1>1, <1>3, <1>8
  <2>2. At(bits, buf, out, k, 4, y, SubSeq(o, 1, q + 1))
    BY <1>4, <1>7, <2>1, PadRound
  <2>3. At(bits, buf, out, l, 4, y, SubSeq(o, 1, q + 1))
    BY <1>4, <2>1, <2>2, PadRound
  <2>4. out[l] = o
    BY <1>6, <2>1, <2>3 DEF At
  <2>5. ~(q + 3 <= Len(o))
    BY <1>3, <2>1
  <2> QED BY <2>4, <2>5
<1>9. ASSUME q + 2 <= Len(o)
      PROVE  \E z : At(bits, buf, out, k, 2, z, SubSeq(o, 1, q + 2)) /\ Waits2(z, c)
  <2>1. Digit3(b, c, digits[k]) /\ Digit(digits, k, digits[k])
    BY <1>1, <1>2, <1>4, <1>9, DigitRange DEF Digit
  <2>2. SubSeq(o, 1, q + 2) = Append(SubSeq(o, 1, q + 1), b)
    <3>1. q + 1 \in Nat /\ q + 2 \in Nat /\ q + 2 = (q + 1) + 1
      OBVIOUS
    <3> QED BY <1>3, <1>9, <3>1, SubSeqGrows
  <2>3. j \in Nat /\ k \in Nat /\ j = k - 1
    BY <1>4
  <2>4. \E z : At(bits, buf, out, k, 2, z, Append(SubSeq(o, 1, q + 1), b)) /\ Waits2(z, c)
    BY <1>2, <1>7, <2>1, <2>3, SecondByte
  <2> QED BY <2>2, <2>4
<1>10. CASE q + 2 <= Len(o) /\ ~(q + 3 <= Len(o))
  <2>1. digits[l] = Pad /\ q + 2 = Len(o)
    BY <1>1, <1>3, <1>10
  <2>2. PICK z : At(bits, buf, out, k, 2, z, SubSeq(o, 1, q + 2))
    BY <1>9, <1>10
  <2>3. At(bits, buf, out, l, 2, z, SubSeq(o, 1, q + 2))
    BY <1>4, <2>1, <2>2, PadRound
  <2>4. out[l] = o
    BY <1>6, <2>1, <2>3 DEF At
  <2> QED BY <1>10, <2>4
<1>11. CASE q + 3 <= Len(o)
  <2>1. Digit4(c, digits[l]) /\ Digit(digits, l, digits[l])
    BY <1>1, <1>2, <1>4, <1>11, DigitRange DEF Digit
  <2>2. SubSeq(o, 1, q + 3) = Append(SubSeq(o, 1, q + 2), c)
    <3>1. q + 2 \in Nat /\ q + 3 \in Nat /\ q + 3 = (q + 2) + 1
      OBVIOUS
    <3> QED BY <1>3, <1>11, <3>1, SubSeqGrows
  <2>3. PICK z : At(bits, buf, out, k, 2, z, SubSeq(o, 1, q + 2)) /\ Waits2(z, c)
    BY <1>3, <1>9, <1>11
  <2>4. \E w : At(bits, buf, out, l, 0, w, SubSeq(o, 1, q + 3))
    BY <1>2, <1>4, <2>1, <2>2, <2>3, ThirdByte
  <2> QED BY <1>11, <2>4
<1>12. (q + 3 <= Len(o) => q + 2 <= Len(o))
  BY <1>3
<1> QED BY <1>8, <1>10, <1>11, <1>12

(* Four digits of three bytes, of which the last may be none.              *)
ThirdOf(b, c, d, i, n) == IF i <= n THEN Digit3(b, c, d) ELSE d = Pad
FourthOf(c, d, i, n) == IF i <= n THEN Digit4(c, d) ELSE d = Pad
FourOf(t, a, b, c, i, j, n) ==
    Digit1(a, t[1]) /\ Digit2(a, b, t[2]) /\ ThirdOf(b, c, t[3], i, n) /\ FourthOf(c, t[4], j, n)

(* Such four digits are a group.                                           *)
LEMMA FourDigits ==
    ASSUME NEW a, IsByte(a), NEW b, IsByte(b), NEW c, IsByte(c), NEW i, NEW j, NEW n,
           NEW d, Digit1(a, d), NEW e, Digit2(a, b, e),
           NEW f, ThirdOf(b, c, f, i, n), NEW g, FourthOf(c, g, j, n)
    PROVE  /\ <<d, e, f, g>> \in Seq(0 .. 64) /\ Len(<<d, e, f, g>>) = 4
           /\ FourOf(<<d, e, f, g>>, a, b, c, i, j, n)
<1>1. d \in 0 .. 64 /\ e \in 0 .. 64 /\ f \in 0 .. 64 /\ g \in 0 .. 64
  <2>1. d \in 0 .. 63 /\ e \in 0 .. 63
    BY DigitRange
  <2>2. f \in 0 .. 63 \/ f = Pad
    BY DigitRange DEF ThirdOf
  <2>3. g \in 0 .. 63 \/ g = Pad
    BY DigitRange DEF FourthOf
  <2> QED BY <2>1, <2>2, <2>3 DEF Pad
<1>2. \A w, x, y, z \in 0 .. 64 : <<w, x, y, z>> \in Seq(0 .. 64)
  OBVIOUS
<1> DEFINE t == <<d, e, f, g>>
<1>3. t[1] = d /\ t[2] = e /\ t[3] = f /\ t[4] = g /\ Len(t) = 4
  OBVIOUS
<1>4. t \in Seq(0 .. 64)
  BY <1>1, <1>2
<1> HIDE DEF t
<1>5. FourOf(t, a, b, c, i, j, n)
  BY <1>3, Zenon DEF FourOf
<1> QED BY <1>3, <1>4, <1>5 DEF t

(* What the agent sends.                                                   *)
LEMMA GroupsSent ==
    ASSUME NEW o \in Seq(0 .. 255), NEW J, J = (Len(o) + 2) \div 3
    PROVE  /\ Base64(o) \in Seq(0 .. 64)
           /\ Len(Base64(o)) = 4 * J
           /\ \A g \in Nat : g < J => GroupIn(Base64(o), 4 * g, o, 3 * g)
<1>1. Len(o) \in Nat /\ J \in Nat
  OBVIOUS
<1> DEFINE byte(i) == IF i <= Len(o) THEN o[i] ELSE 0
           group(g) ==
               LET word == (byte(3 * g - 2) * 256 + byte(3 * g - 1)) * 256 + byte(3 * g)
               IN  <<word \div 262144, (word \div 4096) % 64,
                     IF 3 * g - 1 <= Len(o) THEN (word \div 64) % 64 ELSE Pad,
                     IF 3 * g <= Len(o) THEN word % 64 ELSE Pad>>
           groups == [g \in 1 .. (Len(o) + 2) \div 3 |-> group(g)]
           whole == Base64(o)
<1>2. whole = Seqs!FlattenSeq(groups)
  BY DEF Base64
<1>3. \A g : byte(g) = ByteOf(o, g)
  BY DEF ByteOf
<1> HIDE DEF byte, group, whole
<1>4. ASSUME NEW g \in 1 .. J
      PROVE  /\ group(g) \in Seq(0 .. 64) /\ Len(group(g)) = 4
             /\ FourOf(group(g), byte(3 * g - 2), byte(3 * g - 1), byte(3 * g),
                       3 * g - 1, 3 * g, Len(o))
  <2> DEFINE a == byte(3 * g - 2)
             b == byte(3 * g - 1)
             c == byte(3 * g)
             i == 3 * g - 1
             j == 3 * g
             word == Word(a, b, c)
             d == word \div 262144
             e == (word \div 4096) % 64
             f == IF i <= Len(o) THEN (word \div 64) % 64 ELSE Pad
             h == IF j <= Len(o) THEN word % 64 ELSE Pad
  <2>1. group(g) = <<d, e, f, h>>
    BY DEF Word, group
  <2>2. IsByte(a) /\ IsByte(b) /\ IsByte(c)
    <3>1. 3 * g - 2 \in Nat \ {0} /\ 3 * g - 1 \in Nat \ {0} /\ 3 * g \in Nat \ {0}
      BY <1>1
    <3> QED BY <1>3, <3>1, BytesOf
  <2> HIDE DEF a, b, c
  <2>4. Digit1(a, d) /\ Digit2(a, b, e) /\ Digit3(b, c, (word \div 64) % 64) /\ Digit4(c, word % 64)
    BY <2>2, DigitsOfBytes
  <2>5. ThirdOf(b, c, f, i, Len(o)) /\ FourthOf(c, h, j, Len(o))
    <3> HIDE DEF word, i, j
    <3> QED BY <2>4 DEF ThirdOf, FourthOf
  <2>6. Digit1(a, d) /\ Digit2(a, b, e)
    BY <2>4
  <2> HIDE DEF d, e, f, h, i, j
  <2>7. <<d, e, f, h>> \in Seq(0 .. 64) /\ Len(<<d, e, f, h>>) = 4
        /\ FourOf(<<d, e, f, h>>, a, b, c, i, j, Len(o))
    BY <2>2, <2>5, <2>6, FourDigits
  <2> QED BY <2>1, <2>7, Zenon DEF a, b, c, i, j
<1>5. groups \in Seq(Seq(0 .. 64)) /\ Len(groups) = J /\ \A g \in 1 .. J : groups[g] = group(g)
  BY <1>1, <1>4
<1> HIDE DEF groups
<1>6. whole \in Seq(0 .. 64) /\ \E off : PiecesOf(whole, groups, J, off)
  BY <1>2, <1>5, Flattened
<1>7. PICK off : PiecesOf(whole, groups, J, off)
  BY <1>6
<1>8. ASSUME NEW g \in 0 .. J PROVE off[g] = 4 * g
  <2> DEFINE S == {j \in Nat : j <= J => off[j] = 4 * j}
  <2>1. 0 \in S
    BY <1>7 DEF PiecesOf
  <2>2. ASSUME NEW j \in Nat, j \in S PROVE j + 1 \in S
    <3>1. SUFFICES ASSUME j + 1 <= J PROVE off[j + 1] = 4 * (j + 1)
      OBVIOUS
    <3>2. off[j] = 4 * j /\ j + 1 \in 1 .. J
      BY <1>1, <2>2, <3>1
    <3>3. off[j + 1] = off[(j + 1) - 1] + Len(groups[j + 1])
      BY <1>7, <3>2 DEF PiecesOf
    <3>4. Len(groups[j + 1]) = 4
      BY <1>4, <1>5, <3>2
    <3> QED BY <3>2, <3>3, <3>4
  <2> HIDE DEF S
  <2>3. Nat \subseteq S
    BY <2>1, <2>2, NatsInSet
  <2>4. g \in S /\ g <= J
    BY <1>1, <2>3
  <2> QED BY <2>4 DEF S
<1>9. Len(whole) = 4 * J
  <2>1. off[J] = 4 * J
    BY <1>1, <1>8
  <2> QED BY <1>7, <2>1 DEF PiecesOf
<1>10. ASSUME NEW g \in Nat, g < J PROVE GroupIn(whole, 4 * g, o, 3 * g)
  <2>1. g + 1 \in 1 .. J /\ off[(g + 1) - 1] = 4 * g
    BY <1>1, <1>8, <1>10
  <2>2. PICK t : t = groups[g + 1]
    OBVIOUS
  <2>3. \A k \in 1 .. 4 : whole[4 * g + k] = t[k]
    BY <1>4, <1>5, <1>7, <2>1, <2>2 DEF PiecesOf
  <2>4. FourOf(t, byte(3 * (g + 1) - 2), byte(3 * (g + 1) - 1), byte(3 * (g + 1)),
               3 * (g + 1) - 1, 3 * (g + 1), Len(o))
    BY <1>4, <1>5, <2>1, <2>2
  <2>5. 3 * (g + 1) - 2 = 3 * g + 1 /\ 3 * (g + 1) - 1 = 3 * g + 2 /\ 3 * (g + 1) = 3 * g + 3
    OBVIOUS
  <2>6. FourOf(t, ByteOf(o, 3 * g + 1), ByteOf(o, 3 * g + 2), ByteOf(o, 3 * g + 3),
               3 * g + 2, 3 * g + 3, Len(o))
    BY <1>3, <2>4, <2>5
  <2>7. /\ whole[4 * g + 1] = t[1] /\ whole[4 * g + 2] = t[2]
        /\ whole[4 * g + 3] = t[3] /\ whole[4 * g + 4] = t[4]
    BY <2>3
  <2> QED BY <2>6, <2>7 DEF GroupIn, FourOf, ThirdOf, FourthOf
<1> QED BY <1>6, <1>9, <1>10 DEF whole

(* The output of the guest is read as it was written, whatever its length, *)
(* and fits into what base64_decode() has allocated.                       *)
THEOREM OutputRead ==
    ASSUME NEW o \in Seq(0 .. 255)
    PROVE  Base64Decode(Base64(o)) = o /\ Len(o) < Base64Alloc(Base64(o))
<1> DEFINE n == Len(o)
           J == (n + 2) \div 3
           digits == Base64(o)
<1>1. n \in Nat /\ J \in Nat /\ 3 * J >= n /\ 3 * J <= n + 2
  OBVIOUS
<1>2. /\ digits \in Seq(0 .. 64) /\ Len(digits) = 4 * J
      /\ \A g \in Nat : g < J => GroupIn(digits, 4 * g, o, 3 * g)
  BY GroupsSent
<1> HIDE DEF J, digits
<1>3. PICK bits, buf, out :
        Rounds(digits, bits, buf, out) /\ Base64Decode(digits) = out[Len(digits)]
  BY <1>2, Base64DecodeLoops
<1> DEFINE Good(j) == IF 3 * j <= n THEN \E x : At(bits, buf, out, 4 * j, 0, x, SubSeq(o, 1, 3 * j))
                      ELSE out[4 * j] = o
           S == {j \in Nat : j <= J => Good(j)}
<1>4. 0 \in S
  <2>1. bits[0] = 0 /\ buf[0] = 0 /\ out[0] = <<>>
    BY <1>3 DEF Rounds
  <2>2. SubSeq(o, 1, 0) = <<>> /\ InBuf(0)
    BY DEF InBuf
  <2>3. At(bits, buf, out, 0, 0, 0, SubSeq(o, 1, 0))
    BY <2>1, <2>2 DEF At
  <2>4. 3 * 0 = 0 /\ 4 * 0 = 0 /\ 0 <= n
    BY <1>1
  <2> QED BY <2>3, <2>4
<1>5. ASSUME NEW j \in Nat, j \in S PROVE j + 1 \in S
  <2>1. SUFFICES ASSUME j + 1 <= J PROVE Good(j + 1)
    OBVIOUS
  <2>2. j < J /\ 3 * j < n
    BY <1>1, <2>1
  <2>3. PICK x : At(bits, buf, out, 4 * j, 0, x, SubSeq(o, 1, 3 * j))
    BY <1>1, <1>5, <2>2
  <2>4. GroupIn(digits, 4 * j, o, 3 * j)
    BY <1>2, <2>2
  <2>5. PICK p \in Nat, q \in Nat, h \in Nat, i \in Nat, k \in Nat, l \in Nat :
            /\ p = 4 * j /\ q = 3 * j /\ h = p + 1 /\ i = p + 2 /\ k = p + 3 /\ l = p + 4
    OBVIOUS
  <2>6. l <= Len(digits) /\ Len(digits) \in Nat /\ q < Len(o)
    BY <1>1, <1>2, <2>1, <2>2, <2>5
  <2>7. At(bits, buf, out, p, 0, x, SubSeq(o, 1, q)) /\ GroupIn(digits, p, o, q)
    BY <2>3, <2>4, <2>5
  <2>8. /\ q + 3 <= Len(o) => \E y : At(bits, buf, out, l, 0, y, SubSeq(o, 1, q + 3))
        /\ ~(q + 3 <= Len(o)) => out[l] = o
    BY <1>3, <2>5, <2>6, <2>7, GroupDecoded
  <2>9. q + 3 = 3 * (j + 1) /\ l = 4 * (j + 1)
    BY <2>5
  <2> QED BY <2>8, <2>9
<1> HIDE DEF S, Good
<1>6. Nat \subseteq S
  BY <1>4, <1>5, NatsInSet
<1>7. Good(J)
  BY <1>1, <1>6 DEF S
<1>8. out[4 * J] = o
  <2>1. CASE 3 * J <= n
    <3>1. 3 * J = n /\ SubSeq(o, 1, n) = o
      BY <1>1, <2>1
    <3> QED BY <1>7, <2>1, <3>1 DEF Good, At
  <2>2. CASE ~(3 * J <= n)
    BY <1>7, <2>2 DEF Good
  <2> QED BY <2>1, <2>2
<1>9. n < Base64Alloc(digits)
  BY <1>1, <1>2 DEF Base64Alloc
<1> QED BY <1>2, <1>3, <1>8, <1>9 DEF digits

(* The output of the guest comes back as it was, within the buffer.        *)
LEMMA OutputIsKept == OutputKept
<1>1. ASSUME NEW o \in TextsOf(Bytes, MaxText) PROVE o \in Seq(0 .. 255)
  <2>1. PICK k \in 0 .. MaxText : o \in [1 .. k -> Bytes]
    BY DEF TextsOf
  <2>2. k \in Nat /\ o \in [1 .. k -> 0 .. 255]
    <3>1. k \in Nat /\ \A b \in Bytes : b \in 0 .. 255
      BY TextAssumption
    <3>2. \A i \in 1 .. k : o[i] \in 0 .. 255
      BY <2>1, <3>1
    <3> QED BY <2>1, <3>1, <3>2
  <2> QED BY <2>2
<1> QED BY <1>1, OutputRead DEF OutputKept
=============================================================================
