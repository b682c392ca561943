-------------------------- MODULE TracklistProofs ---------------------------
(***************************************************************************)
(* Theorems of Tracklist for every length limit, every set of positions    *)
(* and batch sizes, and every bound of the model; first facts about the    *)
(* sequence operators of TracklistOps and about the methods.               *)
(***************************************************************************)
EXTENDS Tracklist, SeqLemmas

-----------------------------------------------------------------------------
(* Without. *)

\* The right-hand side of the recursive function in Without, and its step.
Kept(seq, S, k) ==
    [i \in 0 .. Len(seq) |->
        IF i = 0 THEN << >>
        ELSE IF seq[i] \in S THEN k[i - 1]
        ELSE Append(k[i - 1], seq[i])]

KeepStep(seq, S, k, i) ==
    IF i = 0 THEN << >>
    ELSE IF seq[i] \in S THEN k[i - 1]
    ELSE Append(k[i - 1], seq[i])

\* The recursive function in Without exists.
LEMMA KeptExists ==
    ASSUME NEW X, NEW seq \in Seq(X), NEW S
    PROVE  \E k : k = Kept(seq, S, k)
<1>. DEFINE Upto(n) == \E k \in [0 .. n -> Seq(X)] :
                           \A i \in 0 .. n : k[i] = KeepStep(seq, S, k, i)
            T == {n \in Nat : n <= Len(seq) => Upto(n)}
<1>0. Len(seq) \in Nat
  OBVIOUS
<1>1. 0 \in T
  <2>. DEFINE k == [i \in 0 .. 0 |-> << >>]
  <2>1. k \in [0 .. 0 -> Seq(X)]
    OBVIOUS
  <2>2. \A i \in 0 .. 0 : k[i] = KeepStep(seq, S, k, i)
    BY DEF KeepStep
  <2>. HIDE DEF k
  <2>. QED BY <2>1, <2>2
<1>2. ASSUME NEW n \in Nat, n \in T PROVE n + 1 \in T
  <2>0. n + 1 \in Nat
    OBVIOUS
  <2>1. SUFFICES ASSUME n + 1 <= Len(seq) PROVE Upto(n + 1)
    BY <2>0, Zenon
  <2>2. n <= Len(seq)
    BY <2>1, <1>0
  <2>3. PICK k \in [0 .. n -> Seq(X)] : \A i \in 0 .. n : k[i] = KeepStep(seq, S, k, i)
    BY <1>2, <2>2
  <2>4. n + 1 \in 1 .. Len(seq) /\ seq[n + 1] \in X /\ k[n] \in Seq(X)
    BY <2>1, <1>0, <2>3
  <2>. DEFINE next == IF seq[n + 1] \in S THEN k[n] ELSE Append(k[n], seq[n + 1])
              k2 == [i \in 0 .. n + 1 |-> IF i = n + 1 THEN next ELSE k[i]]
  <2>5. next \in Seq(X)
    BY <2>4
  <2>6. k2 \in [0 .. n + 1 -> Seq(X)]
    BY <2>5, <2>3
  <2>7. \A i \in 0 .. n + 1 : k2[i] = KeepStep(seq, S, k2, i)
    <3>. TAKE i \in 0 .. n + 1
    <3>1. CASE i = n + 1
      <4>1. k2[i] = next /\ k2[i - 1] = k[n] /\ i # 0
        BY <3>1
      <4>. QED BY <4>1, <3>1 DEF KeepStep
    <3>2. CASE i # n + 1
      <4>1. i \in 0 .. n /\ k2[i] = k[i] /\ (i # 0 => i - 1 \in 0 .. n /\ k2[i - 1] = k[i - 1])
        BY <3>2
      <4>. QED BY <4>1, <2>3 DEF KeepStep
    <3>. QED BY <3>1, <3>2
  <2>. HIDE DEF k2
  <2>. QED BY <2>6, <2>7
<1>. HIDE DEF T
<1>3. Len(seq) \in T
  BY <1>0, <1>1, <1>2, NatSetInduction
<1>4. PICK k \in [0 .. Len(seq) -> Seq(X)] :
         \A i \in 0 .. Len(seq) : k[i] = KeepStep(seq, S, k, i)
  BY <1>3, <1>0 DEF T
<1>5. k = Kept(seq, S, k)
  BY <1>4 DEF KeepStep, Kept
<1>. QED BY <1>5

LEMMA AppendRange ==
    ASSUME NEW X, NEW s \in Seq(X), NEW x \in X
    PROVE  /\ Range(Append(s, x)) = Range(s) \union {x}
           /\ NoDuplicates(s) /\ x \notin Range(s) => NoDuplicates(Append(s, x))
<1>. DEFINE t == Append(s, x)
<1>1. /\ t \in Seq(X) /\ Len(t) = Len(s) + 1 /\ Len(s) \in Nat
      /\ DOMAIN s = 1 .. Len(s) /\ DOMAIN t = 1 .. Len(s) + 1
      /\ \A i \in 1 .. Len(s) : t[i] = s[i]
      /\ t[Len(s) + 1] = x
  BY AppendProperties, LenProperties
<1>. HIDE DEF t
<1>2. Range(t) = Range(s) \union {x}
  BY <1>1 DEF Range
<1>3. ASSUME NoDuplicates(s), x \notin Range(s) PROVE NoDuplicates(t)
  BY <1>1, <1>3 DEF NoDuplicates, Range
<1>. QED BY <1>2, <1>3 DEF t

\* What filtering keeps, that it keeps nothing twice, and its type.
LEMMA WithoutProperties ==
    ASSUME NEW X, NEW seq \in Seq(X), NEW S
    PROVE  /\ Without(seq, S) \in Seq(X)
           /\ Range(Without(seq, S)) = Range(seq) \ S
           /\ NoDuplicates(seq) => NoDuplicates(Without(seq, S))
<1>. DEFINE kept == CHOOSE k : k = Kept(seq, S, k)
            First(n) == {seq[i] : i \in 1 .. n}
            Good(n) == /\ kept[n] \in Seq(X)
                       /\ Range(kept[n]) = First(n) \ S
                       /\ NoDuplicates(seq) => NoDuplicates(kept[n])
            T == {n \in Nat : n <= Len(seq) => Good(n)}
<1>0. \E k : k = Kept(seq, S, k)
  BY KeptExists
<1>1. kept = Kept(seq, S, kept)
  BY <1>0, Zenon
<1>2. Without(seq, S) = kept[Len(seq)]
  BY Zenon DEF Without, Kept
<1>3. Len(seq) \in Nat /\ DOMAIN seq = 1 .. Len(seq)
  OBVIOUS
<1>. HIDE DEF kept
<1>4. 0 \in T
  <2>1. kept[0] = << >>
    BY <1>1, <1>3 DEF Kept
  <2>2. << >> \in Seq(X) /\ Range(<< >>) = {} /\ NoDuplicates(<< >>)
    BY DEF Range, NoDuplicates
  <2>3. First(0) = {}
    OBVIOUS
  <2>. QED BY <2>1, <2>2, <2>3
<1>5. ASSUME NEW n \in Nat, n \in T PROVE n + 1 \in T
  <2>. SUFFICES ASSUME n + 1 <= Len(seq) PROVE Good(n + 1)
    OBVIOUS
  <2>1. Good(n) /\ n + 1 \in 1 .. Len(seq) /\ n + 1 # 0
    BY <1>3, <1>5
  <2>2. kept[n + 1] = IF seq[n + 1] \in S THEN kept[n] ELSE Append(kept[n], seq[n + 1])
    <3>1. n + 1 \in 0 .. Len(seq) /\ (n + 1) - 1 = n
      BY <1>3, <2>1
    <3>. QED BY <1>1, <2>1, <3>1 DEF Kept
  <2>3. First(n + 1) = First(n) \union {seq[n + 1]}
    OBVIOUS
  <2>4. seq[n + 1] \in X
    BY <2>1
  <2>5. NoDuplicates(seq) => seq[n + 1] \notin First(n)
    BY <2>1, <1>3 DEF NoDuplicates
  <2>. HIDE DEF First
  <2>6. CASE seq[n + 1] \in S
    BY <2>1, <2>2, <2>3, <2>6
  <2>7. CASE seq[n + 1] \notin S
    <3>1. /\ Range(Append(kept[n], seq[n + 1])) = Range(kept[n]) \union {seq[n + 1]}
          /\ NoDuplicates(kept[n]) /\ seq[n + 1] \notin Range(kept[n])
                => NoDuplicates(Append(kept[n], seq[n + 1]))
          /\ Append(kept[n], seq[n + 1]) \in Seq(X)
      BY <2>1, <2>4, AppendRange, AppendProperties
    <3>. QED BY <3>1, <2>1, <2>2, <2>3, <2>5, <2>7
  <2>. QED BY <2>6, <2>7
<1>. HIDE DEF T
<1>6. Len(seq) \in T
  BY <1>3, <1>4, <1>5, NatSetInduction
<1>7. Good(Len(seq))
  BY <1>6, <1>3 DEF T
<1>8. First(Len(seq)) = Range(seq)
  BY <1>3 DEF Range
<1>. QED BY <1>2, <1>7, <1>8

-----------------------------------------------------------------------------
(* Shuffles and InsertBlock. *)

\* A shuffled sequence has the same elements, each as often.
LEMMA ShufflesProperties ==
    ASSUME NEW X, NEW seq \in Seq(X), NEW s \in Shuffles(seq)
    PROVE  /\ s \in Seq(X) /\ Len(s) = Len(seq)
           /\ Range(s) = Range(seq)
           /\ NoDuplicates(seq) => NoDuplicates(s)
<1>1. PICK p \in Bijection(DOMAIN seq, DOMAIN seq) : s = [i \in DOMAIN seq |-> seq[p[i]]]
  BY DEF Shuffles
<1>2. /\ p \in [DOMAIN seq -> DOMAIN seq]
      /\ \A i, j \in DOMAIN seq : p[i] = p[j] => i = j
      /\ \A j \in DOMAIN seq : \E i \in DOMAIN seq : p[i] = j
  BY DEF Bijection, Injection, Surjection, IsInjective
<1>3. DOMAIN seq = 1 .. Len(seq) /\ Len(seq) \in Nat
  OBVIOUS
<1>4. \A i \in 1 .. Len(seq) : seq[p[i]] \in X
  BY <1>2, <1>3
<1>5. s \in Seq(X) /\ Len(s) = Len(seq) /\ DOMAIN s = DOMAIN seq
  BY <1>1, <1>3, <1>4
<1>6. Range(s) = Range(seq)
  BY <1>1, <1>2, <1>5 DEF Range
<1>7. NoDuplicates(seq) => NoDuplicates(s)
  BY <1>1, <1>2, <1>5 DEF NoDuplicates
<1>. QED BY <1>5, <1>6, <1>7

LEMMA ConcatNoDuplicates ==
    ASSUME NEW X, NEW s \in Seq(X), NEW t \in Seq(X)
    PROVE  /\ s \o t \in Seq(X)
           /\ Range(s \o t) = Range(s) \union Range(t)
           /\ NoDuplicates(s) /\ NoDuplicates(t) /\ Range(s) \intersect Range(t) = {}
                => NoDuplicates(s \o t)
<1>. DEFINE c == s \o t
<1>1. /\ c \in Seq(X) /\ Len(c) = Len(s) + Len(t)
      /\ \A i \in 1 .. Len(s) + Len(t) :
            c[i] = IF i <= Len(s) THEN s[i] ELSE t[i - Len(s)]
  BY ConcatProperties
<1>2. /\ Len(s) \in Nat /\ Len(t) \in Nat
      /\ DOMAIN s = 1 .. Len(s) /\ DOMAIN t = 1 .. Len(t)
      /\ DOMAIN c = 1 .. Len(s) + Len(t)
  BY <1>1, LenProperties
<1>. HIDE DEF c
<1>3. Range(c) = Range(s) \union Range(t)
  <2>1. ASSUME NEW x \in Range(s) PROVE x \in Range(c)
    BY <1>1, <1>2 DEF Range
  <2>2. ASSUME NEW x \in Range(t) PROVE x \in Range(c)
    <3>1. PICK j \in 1 .. Len(t) : x = t[j]
      BY <1>2 DEF Range
    <3>2. /\ j + Len(s) \in 1 .. Len(s) + Len(t) /\ ~(j + Len(s) <= Len(s))
          /\ (j + Len(s)) - Len(s) = j
      BY <1>2
    <3>3. c[j + Len(s)] = t[(j + Len(s)) - Len(s)]
      BY <1>1, <3>2, Zenon
    <3>. QED BY <1>2, <3>1, <3>2, <3>3 DEF Range
  <2>3. ASSUME NEW x \in Range(c) PROVE x \in Range(s) \union Range(t)
    <3>1. PICK j \in 1 .. Len(s) + Len(t) : x = c[j]
      BY <1>2 DEF Range
    <3>2. CASE j <= Len(s)
      BY <1>1, <1>2, <3>1, <3>2 DEF Range
    <3>3. CASE ~(j <= Len(s))
      <4>1. j - Len(s) \in 1 .. Len(t) /\ x = t[j - Len(s)]
        BY <1>1, <1>2, <3>1, <3>3
      <4>. QED BY <1>2, <4>1 DEF Range
    <3>. QED BY <3>2, <3>3
  <2>. QED BY <2>1, <2>2, <2>3
<1>4. ASSUME NoDuplicates(s), NoDuplicates(t), Range(s) \intersect Range(t) = {}
      PROVE  NoDuplicates(c)
  <2>. SUFFICES ASSUME NEW i \in 1 .. Len(s) + Len(t), NEW j \in 1 .. Len(s) + Len(t),
                       c[i] = c[j]
                PROVE  i = j
    BY <1>2 DEF NoDuplicates
  <2>1. CASE i <= Len(s) /\ j <= Len(s)
    <3>1. i \in 1 .. Len(s) /\ j \in 1 .. Len(s)
      BY <1>2, <2>1
    <3>2. c[i] = s[i] /\ c[j] = s[j]
      BY <1>1, <2>1, Zenon
    <3>. QED BY <1>2, <3>2, <1>4, <3>1 DEF NoDuplicates
  <2>2. CASE ~(i <= Len(s)) /\ ~(j <= Len(s))
    <3>1. i - Len(s) \in 1 .. Len(t) /\ j - Len(s) \in 1 .. Len(t)
      BY <1>2, <2>2
    <3>2. i - Len(s) = j - Len(s)
      BY <1>1, <1>2, <1>4, <2>2, <3>1 DEF NoDuplicates
    <3>. QED BY <1>2, <3>2
  <2>3. ASSUME NEW a \in 1 .. Len(s) + Len(t), NEW b \in 1 .. Len(s) + Len(t),
               a <= Len(s), ~(b <= Len(s)), c[a] = c[b]
        PROVE  FALSE
    <3>1. b - Len(s) \in 1 .. Len(t)
      BY <1>2, <2>3
    <3>2. c[a] = s[a] /\ c[b] = t[b - Len(s)]
      BY <1>1, <2>3, Zenon
    <3>3. a \in DOMAIN s /\ b - Len(s) \in DOMAIN t
      BY <1>2, <2>3, <3>1
    <3>4. s[a] \in Range(s) /\ t[b - Len(s)] \in Range(t)
      BY <3>3, Zenon DEF Range
    <3>. QED BY <1>4, <2>3, <3>2, <3>4
  <2>. QED BY <2>1, <2>2, <2>3
<1>. QED BY <1>1, <1>3, <1>4 DEF c

\* A slice holds elements of the sequence, each once if the sequence does.
LEMMA SliceProperties ==
    ASSUME NEW X, NEW seq \in Seq(X),
           NEW m \in 1 .. Len(seq) + 1, NEW n \in 0 .. Len(seq)
    PROVE  /\ SubSeq(seq, m, n) \in Seq(X)
           /\ Range(SubSeq(seq, m, n)) = {seq[i] : i \in m .. n}
           /\ NoDuplicates(seq) => NoDuplicates(SubSeq(seq, m, n))
<1>. DEFINE q == SubSeq(seq, m, n)
<1>0. Len(seq) \in Nat /\ DOMAIN seq = 1 .. Len(seq)
  OBVIOUS
<1>1. \A i \in m .. n : i \in 1 .. Len(seq) /\ seq[i] \in X
  BY <1>0
<1>2. /\ q \in Seq(X)
      /\ Len(q) = IF m <= n THEN n - m + 1 ELSE 0
      /\ \A i \in 1 .. n - m + 1 : q[i] = seq[m + i - 1]
  BY <1>1, SubSeqProperties
<1>3. DOMAIN q = 1 .. n - m + 1
  BY <1>0, <1>2
<1>. HIDE DEF q
<1>4. Range(q) = {seq[i] : i \in m .. n}
  <2>1. ASSUME NEW i \in m .. n PROVE seq[i] \in Range(q)
    <3>1. i - m + 1 \in 1 .. n - m + 1 /\ m + (i - m + 1) - 1 = i
      BY <1>0
    <3>. QED BY <3>1, <1>2, <1>3 DEF Range
  <2>2. ASSUME NEW x \in Range(q) PROVE \E i \in m .. n : x = seq[i]
    <3>1. PICK j \in 1 .. n - m + 1 : x = q[j]
      BY <1>3 DEF Range
    <3>2. m + j - 1 \in m .. n
      BY <1>0
    <3>. QED BY <3>1, <3>2, <1>2
  <2>. QED BY <2>1, <2>2
<1>5. ASSUME NoDuplicates(seq) PROVE NoDuplicates(q)
  <2>. SUFFICES ASSUME NEW i \in 1 .. n - m + 1, NEW j \in 1 .. n - m + 1, q[i] = q[j]
                PROVE  i = j
    BY <1>3 DEF NoDuplicates
  <2>1. m + i - 1 \in 1 .. Len(seq) /\ m + j - 1 \in 1 .. Len(seq)
    BY <1>0
  <2>2. m + i - 1 = m + j - 1
    BY <1>0, <1>2, <1>5, <2>1 DEF NoDuplicates
  <2>. QED BY <2>2, <1>0
<1>. QED BY <1>2, <1>4, <1>5 DEF q

\* Two slices that do not overlap share no element.
LEMMA SlicesDisjoint ==
    ASSUME NEW X, NEW seq \in Seq(X), NoDuplicates(seq),
           NEW a \in 1 .. Len(seq) + 1, NEW b \in 0 .. Len(seq),
           NEW c \in 1 .. Len(seq) + 1, NEW d \in 0 .. Len(seq), b < c
    PROVE  Range(SubSeq(seq, a, b)) \intersect Range(SubSeq(seq, c, d)) = {}
<1>1. /\ Range(SubSeq(seq, a, b)) = {seq[i] : i \in a .. b}
      /\ Range(SubSeq(seq, c, d)) = {seq[i] : i \in c .. d}
  BY SliceProperties
<1>2. ASSUME NEW i \in a .. b, NEW j \in c .. d, seq[i] = seq[j] PROVE FALSE
  <2>1. i \in DOMAIN seq /\ j \in DOMAIN seq /\ i # j
    OBVIOUS
  <2>. QED BY <1>2, <2>1 DEF NoDuplicates
<1>. QED BY <1>1, <1>2

LEMMA InsertBlockProperties ==
    ASSUME NEW X, NEW seq \in Seq(X), NEW block \in Seq(X), NEW pos \in Nat
    PROVE  /\ InsertBlock(seq, pos, block) \in Seq(X)
           /\ Range(InsertBlock(seq, pos, block)) = Range(seq) \union Range(block)
           /\ NoDuplicates(seq) /\ NoDuplicates(block)
                 /\ Range(seq) \intersect Range(block) = {}
                => NoDuplicates(InsertBlock(seq, pos, block))
<1>. DEFINE at == IF pos < Len(seq) THEN pos ELSE Len(seq)
            left == SubSeq(seq, 1, at)
            right == SubSeq(seq, at + 1, Len(seq))
<1>1. at \in 0 .. Len(seq) /\ Len(seq) \in Nat /\ DOMAIN seq = 1 .. Len(seq)
  OBVIOUS
<1>2. InsertBlock(seq, pos, block) = (left \o block) \o right
  BY DEF InsertBlock
<1>. HIDE DEF at
<1>3. /\ left \in Seq(X) /\ Range(left) = {seq[i] : i \in 1 .. at}
      /\ right \in Seq(X) /\ Range(right) = {seq[i] : i \in at + 1 .. Len(seq)}
      /\ NoDuplicates(seq) => NoDuplicates(left) /\ NoDuplicates(right)
  <2>1. /\ 1 \in 1 .. Len(seq) + 1 /\ at + 1 \in 1 .. Len(seq) + 1
        /\ Len(seq) \in 0 .. Len(seq)
    BY <1>1
  <2>2. /\ left \in Seq(X) /\ Range(left) = {seq[i] : i \in 1 .. at}
        /\ NoDuplicates(seq) => NoDuplicates(left)
    BY <1>1, <2>1, SliceProperties, Zenon
  <2>3. /\ right \in Seq(X) /\ Range(right) = {seq[i] : i \in at + 1 .. Len(seq)}
        /\ NoDuplicates(seq) => NoDuplicates(right)
    BY <2>1, SliceProperties, Zenon
  <2>. QED BY <2>2, <2>3
<1>4. NoDuplicates(seq) => Range(left) \intersect Range(right) = {}
  BY <1>1, SlicesDisjoint
<1>. HIDE DEF left, right
<1>5. Range(left) \union Range(right) = Range(seq)
  <2>1. \A i \in DOMAIN seq : i \in 1 .. at \/ i \in at + 1 .. Len(seq)
    BY <1>1
  <2>2. \A i : i \in 1 .. at \/ i \in at + 1 .. Len(seq) => i \in DOMAIN seq
    BY <1>1
  <2>3. Range(seq) = {seq[i] : i \in DOMAIN seq}
    BY DEF Range
  <2>. QED BY <1>3, <2>1, <2>2, <2>3
<1>6. /\ left \o block \in Seq(X)
      /\ Range(left \o block) = Range(left) \union Range(block)
      /\ NoDuplicates(left) /\ NoDuplicates(block) /\ Range(left) \intersect Range(block) = {}
            => NoDuplicates(left \o block)
  BY <1>3, ConcatNoDuplicates
<1>7. /\ (left \o block) \o right \in Seq(X)
      /\ Range((left \o block) \o right) = Range(left \o block) \union Range(right)
      /\ NoDuplicates(left \o block) /\ NoDuplicates(right)
            /\ Range(left \o block) \intersect Range(right) = {}
            => NoDuplicates((left \o block) \o right)
  BY <1>3, <1>6, ConcatNoDuplicates
<1>. QED BY <1>2, <1>3, <1>4, <1>5, <1>6, <1>7

-----------------------------------------------------------------------------
(* The methods of the controller. *)

\* What every method keeps of the tracklist itself, and of the random order.
TracksInv(t) ==
    /\ t \in TracklistType
    /\ NoDuplicates(t.tracks)
    /\ \A x \in Range(t.tracks) : x < t.nextTlid

OrderInv(t) ==
    /\ Range(t.shuffled) \subseteq Range(t.tracks)
    /\ NoDuplicates(t.shuffled)

TracklistInv(t) == TracksInv(t) /\ OrderInv(t)

\* A method that keeps the TLIDs handed out, and adds no track.
Keeps(t, u) ==
    /\ Range(u.tracks) \subseteq Range(t.tracks)
    /\ u.nextTlid = t.nextTlid

LEMMA IncreaseVersionInv ==
    ASSUME NEW t, TracksInv(t), NEW u \in IncreaseVersion(t)
    PROVE  TracklistInv(u) /\ Keeps(t, u)
<1>1. PICK s \in IF t.random THEN Shuffles(t.tracks) ELSE {<< >>} :
         u = [t EXCEPT !.version = @ + 1, !.shuffled = s]
  BY DEF IncreaseVersion
<1>2. t.tracks \in Seq(Tlid) /\ t \in TracklistType
  BY DEF TracksInv, TracklistType
<1>3. s \in Seq(Tlid) /\ Range(s) \subseteq Range(t.tracks) /\ NoDuplicates(s)
  <2>1. CASE t.random
    BY <1>1, <1>2, <2>1, ShufflesProperties DEF TracksInv
  <2>2. CASE ~t.random
    BY <1>1, <2>2 DEF Range, NoDuplicates
  <2>. QED BY <2>1, <2>2
<1>4. t.version + 1 \in Nat
  BY <1>2 DEF TracklistType
<1>5. u \in TracklistType /\ u.tracks = t.tracks /\ u.nextTlid = t.nextTlid /\ u.shuffled = s
  BY <1>1, <1>2, <1>3, <1>4 DEF TracklistType
<1>. QED BY <1>3, <1>5 DEF TracksInv, OrderInv, TracklistInv, Keeps

\* add() appends new TLIDs only, and leaves the random order alone.
LEMMA AddTracksInv ==
    ASSUME NEW t, TracksInv(t), NEW n \in Nat, NEW pos \in Nat \union {None}
    PROVE  LET u == AddTracks(t, n, pos)
           IN  /\ TracksInv(u)
               /\ u.shuffled = t.shuffled
               /\ Range(t.tracks) \subseteq Range(u.tracks)
               /\ u.nextTlid >= t.nextTlid
               /\ \A x \in Range(u.tracks) \ Range(t.tracks) : x >= t.nextTlid
<1>. DEFINE k == IF n <= AddRoom(t) THEN n ELSE AddRoom(t)
            block == [i \in 1 .. k |-> t.nextTlid + i - 1]
            at == IF pos = None THEN Len(t.tracks) ELSE pos
            tracks == InsertBlock(t.tracks, at, block)
            u == AddTracks(t, n, pos)
<1>1. t \in TracklistType /\ t.tracks \in Seq(Tlid) /\ t.nextTlid \in Tlid /\ Len(t.tracks) \in Nat
  BY DEF TracksInv, TracklistType
<1>2. k \in Nat /\ at \in Nat
  BY <1>1, MaxLengthAssumption, NoneAssumption DEF AddRoom
<1>3. u = [t EXCEPT !.tracks = tracks, !.nextTlid = @ + k]
  BY DEF AddTracks
<1>. HIDE DEF k, at
<1>4. block \in Seq(Tlid) /\ DOMAIN block = 1 .. k
  BY <1>1, <1>2 DEF Tlid
<1>5. \A x \in Range(block) : x >= t.nextTlid /\ x < t.nextTlid + k
  BY <1>1, <1>2, <1>4 DEF Range, Tlid
<1>6. NoDuplicates(block)
  BY <1>1, <1>2 DEF NoDuplicates, Tlid
<1>. HIDE DEF block
<1>7. \A x \in Range(t.tracks) : x \in Nat /\ x < t.nextTlid
  BY <1>1 DEF TracksInv, Range, Tlid
<1>8. Range(t.tracks) \intersect Range(block) = {}
  <2>. SUFFICES ASSUME NEW x \in Range(t.tracks), x \in Range(block) PROVE FALSE
    OBVIOUS
  <2>. QED BY <1>1, <1>5, <1>7 DEF Tlid
<1>9. /\ tracks \in Seq(Tlid) /\ NoDuplicates(tracks)
      /\ Range(tracks) = Range(t.tracks) \union Range(block)
  <2>1. NoDuplicates(t.tracks)
    BY DEF TracksInv
  <2>2. /\ tracks \in Seq(Tlid)
        /\ Range(tracks) = Range(t.tracks) \union Range(block)
        /\ NoDuplicates(t.tracks) /\ NoDuplicates(block)
              /\ Range(t.tracks) \intersect Range(block) = {}
             => NoDuplicates(tracks)
    BY <1>1, <1>2, <1>4, InsertBlockProperties, Zenon
  <2>. QED BY <2>1, <2>2, <1>6, <1>8
<1>. HIDE DEF tracks
<1>10. \A x \in Range(tracks) : x < t.nextTlid + k
  BY <1>1, <1>2, <1>5, <1>7, <1>9 DEF Tlid
<1>11. /\ u \in TracklistType /\ u.tracks = tracks /\ u.nextTlid = t.nextTlid + k
       /\ u.shuffled = t.shuffled
  <2>1. t.nextTlid + k \in Tlid
    BY <1>1, <1>2 DEF Tlid
  <2>. QED BY <1>1, <1>3, <1>9, <2>1 DEF TracklistType
<1>. HIDE DEF u
<1>12. TracksInv(u)
  BY <1>9, <1>10, <1>11 DEF TracksInv
<1>13. \A x \in Range(tracks) \ Range(t.tracks) : x >= t.nextTlid
  BY <1>5, <1>9
<1>14. u.nextTlid >= t.nextTlid
  BY <1>1, <1>2, <1>11 DEF Tlid
<1>. QED BY <1>9, <1>11, <1>12, <1>13, <1>14 DEF u

\* The three slices of a tracklist that move() and shuffle() put together.
LEMMA SlicesOfTracks ==
    ASSUME NEW t, TracksInv(t),
           NEW a \in 0 .. Len(t.tracks), NEW b \in 0 .. Len(t.tracks), a <= b
    PROVE  LET n == Len(t.tracks)
               left == SubSeq(t.tracks, 1, a)
               middle == SubSeq(t.tracks, a + 1, b)
               right == SubSeq(t.tracks, b + 1, n)
           IN  /\ left \in Seq(Tlid) /\ middle \in Seq(Tlid) /\ right \in Seq(Tlid)
               /\ NoDuplicates(left) /\ NoDuplicates(middle) /\ NoDuplicates(right)
               /\ Range(left) \intersect Range(middle) = {}
               /\ Range(left) \intersect Range(right) = {}
               /\ Range(middle) \intersect Range(right) = {}
               /\ Range(left) \union Range(middle) \union Range(right) \subseteq Range(t.tracks)
<1>. DEFINE q == t.tracks
            n == Len(q)
            left == SubSeq(q, 1, a)
            middle == SubSeq(q, a + 1, b)
            right == SubSeq(q, b + 1, n)
<1>1. q \in Seq(Tlid) /\ n \in Nat /\ NoDuplicates(q) /\ DOMAIN q = 1 .. n
  BY DEF TracksInv, TracklistType
<1>. HIDE DEF q
<1>2. /\ 1 \in 1 .. n + 1 /\ a + 1 \in 1 .. n + 1 /\ b + 1 \in 1 .. n + 1
      /\ a \in 0 .. n /\ b \in 0 .. n /\ n \in 0 .. n
      /\ a < a + 1 /\ a < b + 1 /\ b < b + 1
  BY <1>1 DEF q
<1>3. /\ left \in Seq(Tlid) /\ middle \in Seq(Tlid) /\ right \in Seq(Tlid)
      /\ NoDuplicates(left) /\ NoDuplicates(middle) /\ NoDuplicates(right)
      /\ Range(left) = {q[i] : i \in 1 .. a}
      /\ Range(middle) = {q[i] : i \in a + 1 .. b}
      /\ Range(right) = {q[i] : i \in b + 1 .. n}
  <2>1. left \in Seq(Tlid) /\ NoDuplicates(left) /\ Range(left) = {q[i] : i \in 1 .. a}
    BY <1>1, <1>2, SliceProperties
  <2>2. middle \in Seq(Tlid) /\ NoDuplicates(middle) /\ Range(middle) = {q[i] : i \in a + 1 .. b}
    BY <1>1, <1>2, SliceProperties
  <2>3. right \in Seq(Tlid) /\ NoDuplicates(right) /\ Range(right) = {q[i] : i \in b + 1 .. n}
    BY <1>1, <1>2, SliceProperties
  <2>. QED BY <2>1, <2>2, <2>3
<1>4. /\ Range(left) \intersect Range(middle) = {}
      /\ Range(left) \intersect Range(right) = {}
      /\ Range(middle) \intersect Range(right) = {}
  BY <1>1, <1>2, SlicesDisjoint
<1>. HIDE DEF left, middle, right
<1>5. \A i : i \in 1 .. a \/ i \in a + 1 .. b \/ i \in b + 1 .. n => i \in DOMAIN q
  BY <1>1, <1>2
<1>6. Range(left) \union Range(middle) \union Range(right) \subseteq Range(q)
  BY <1>3, <1>5 DEF Range
<1>. QED BY <1>3, <1>4, <1>6 DEF q, left, middle, right, n

\* Cutting a middle slice out and putting tracks with the same elements
\* somewhere in the rest.
LEMMA MoveTracksInv ==
    ASSUME NEW t, TracksInv(t), NEW start \in Nat, NEW end \in Nat, NEW to \in Nat,
           CanMove(t, start, end, to)
    PROVE  TracksInv(MoveTracks(t, start, end, to)) /\ Keeps(t, MoveTracks(t, start, end, to))
<1>. DEFINE n == Len(t.tracks)
            left == SubSeq(t.tracks, 1, start)
            middle == SubSeq(t.tracks, start + 1, end)
            right == SubSeq(t.tracks, end + 1, n)
            rest == left \o right
            tracks == InsertBlock(rest, to, middle)
            u == MoveTracks(t, start, end, to)
<1>1. t \in TracklistType /\ n \in Nat
  BY DEF TracksInv, TracklistType
<1>2. start \in 0 .. n /\ end \in 0 .. n /\ start <= end
  BY <1>1 DEF CanMove
<1>3. /\ left \in Seq(Tlid) /\ middle \in Seq(Tlid) /\ right \in Seq(Tlid)
      /\ NoDuplicates(left) /\ NoDuplicates(middle) /\ NoDuplicates(right)
      /\ Range(left) \intersect Range(middle) = {}
      /\ Range(left) \intersect Range(right) = {}
      /\ Range(middle) \intersect Range(right) = {}
      /\ Range(left) \union Range(middle) \union Range(right) \subseteq Range(t.tracks)
  BY <1>2, SlicesOfTracks
<1>4. u = [t EXCEPT !.tracks = tracks]
  BY DEF MoveTracks
<1>. HIDE DEF left, middle, right
<1>5. /\ rest \in Seq(Tlid) /\ NoDuplicates(rest)
      /\ Range(rest) = Range(left) \union Range(right)
  BY <1>3, ConcatNoDuplicates
<1>. HIDE DEF rest
<1>6. Range(rest) \intersect Range(middle) = {}
  BY <1>3, <1>5
<1>7. /\ tracks \in Seq(Tlid)
      /\ Range(tracks) = Range(rest) \union Range(middle)
      /\ NoDuplicates(rest) /\ NoDuplicates(middle) /\ Range(rest) \intersect Range(middle) = {}
            => NoDuplicates(tracks)
  BY <1>3, <1>5, InsertBlockProperties, Zenon
<1>. HIDE DEF tracks
<1>8. /\ u \in TracklistType /\ u.tracks = tracks /\ u.nextTlid = t.nextTlid
  BY <1>1, <1>4, <1>7 DEF TracklistType
<1>9. Range(tracks) \subseteq Range(t.tracks) /\ NoDuplicates(tracks)
  BY <1>3, <1>5, <1>6, <1>7
<1>. QED BY <1>8, <1>9 DEF TracksInv, Keeps

LEMMA ShuffleTracksInv ==
    ASSUME NEW t, TracksInv(t), NEW start \in Nat \union {None}, NEW end \in Nat \union {None},
           CanShuffle(t, start, end), NEW u \in ShuffleTracks(t, start, end)
    PROVE  TracksInv(u) /\ Keeps(t, u)
<1>. DEFINE n == Len(t.tracks)
            from  == IF start = None THEN 0 ELSE IF start < n THEN start ELSE n
            upto  == IF end = None THEN n ELSE end
            after == IF end \in {None, 0} THEN n ELSE end
            left == SubSeq(t.tracks, 1, from)
            slice == SubSeq(t.tracks, from + 1, upto)
            right == SubSeq(t.tracks, after + 1, n)
<1>1. t \in TracklistType /\ n \in Nat /\ NoDuplicates(t.tracks) /\ t.tracks \in Seq(Tlid)
  BY DEF TracksInv, TracklistType
<1>2. /\ from \in 0 .. n /\ upto \in 0 .. n /\ after \in 0 .. n
      /\ from <= after /\ upto <= after
  BY <1>1, NoneAssumption DEF CanShuffle
<1>3. PICK s \in Shuffles(slice) : u = [t EXCEPT !.tracks = (left \o s) \o right]
  BY DEF ShuffleTracks
<1>. HIDE DEF from, upto, after
<1>4. /\ from + 1 \in 1 .. n + 1 /\ after + 1 \in 1 .. n + 1 /\ 1 \in 1 .. n + 1 /\ n \in 0 .. n
      /\ from < from + 1 /\ upto < after + 1 /\ from < after + 1
  BY <1>1, <1>2
<1>5. /\ left \in Seq(Tlid) /\ NoDuplicates(left) /\ Range(left) = {t.tracks[i] : i \in 1 .. from}
      /\ slice \in Seq(Tlid) /\ NoDuplicates(slice)
      /\ Range(slice) = {t.tracks[i] : i \in from + 1 .. upto}
      /\ right \in Seq(Tlid) /\ NoDuplicates(right)
      /\ Range(right) = {t.tracks[i] : i \in after + 1 .. n}
  <2>1. /\ left \in Seq(Tlid) /\ NoDuplicates(left)
        /\ Range(left) = {t.tracks[i] : i \in 1 .. from}
    BY <1>1, <1>2, <1>4, SliceProperties
  <2>2. /\ slice \in Seq(Tlid) /\ NoDuplicates(slice)
        /\ Range(slice) = {t.tracks[i] : i \in from + 1 .. upto}
    BY <1>1, <1>2, <1>4, SliceProperties
  <2>3. /\ right \in Seq(Tlid) /\ NoDuplicates(right)
        /\ Range(right) = {t.tracks[i] : i \in after + 1 .. n}
    BY <1>1, <1>2, <1>4, SliceProperties
  <2>. QED BY <2>1, <2>2, <2>3
<1>6. /\ Range(left) \intersect Range(slice) = {}
      /\ Range(left) \intersect Range(right) = {}
      /\ Range(slice) \intersect Range(right) = {}
  BY <1>1, <1>2, <1>4, SlicesDisjoint
<1>7. Range(left) \union Range(slice) \union Range(right) \subseteq Range(t.tracks)
  <2>1. DOMAIN t.tracks = 1 .. n
    BY <1>1
  <2>2. \A i : i \in 1 .. from \/ i \in from + 1 .. upto \/ i \in after + 1 .. n
                  => i \in DOMAIN t.tracks
    BY <1>1, <1>2, <2>1
  <2>. QED BY <1>5, <2>2 DEF Range
<1>. HIDE DEF left, slice, right
<1>8. s \in Seq(Tlid) /\ NoDuplicates(s) /\ Range(s) = Range(slice)
  BY <1>3, <1>5, ShufflesProperties
<1>9. /\ left \o s \in Seq(Tlid) /\ Range(left \o s) = Range(left) \union Range(s)
      /\ NoDuplicates(left \o s)
  <2>1. Range(left) \intersect Range(s) = {}
    BY <1>6, <1>8
  <2>2. left \in Seq(Tlid) /\ s \in Seq(Tlid) /\ NoDuplicates(left) /\ NoDuplicates(s)
    BY <1>5, <1>8
  <2>. QED BY <2>1, <2>2, ConcatNoDuplicates
<1>. DEFINE tracks == (left \o s) \o right
<1>10. Range(left \o s) \intersect Range(right) = {}
  BY <1>6, <1>8, <1>9
<1>11. /\ tracks \in Seq(Tlid) /\ Range(tracks) = Range(left \o s) \union Range(right)
       /\ NoDuplicates(tracks)
  <2>1. left \o s \in Seq(Tlid) /\ right \in Seq(Tlid) /\ NoDuplicates(right)
    BY <1>5, <1>9
  <2>2. NoDuplicates(left \o s)
    BY <1>9
  <2>. HIDE DEF tracks
  <2>. DEFINE ls == left \o s
  <2>3. ls \in Seq(Tlid) /\ NoDuplicates(ls) /\ Range(ls) \intersect Range(right) = {}
    BY <2>1, <2>2, <1>10
  <2>. HIDE DEF ls
  <2>4. /\ ls \o right \in Seq(Tlid)
        /\ Range(ls \o right) = Range(ls) \union Range(right)
        /\ NoDuplicates(ls \o right)
    BY <2>1, <2>3, ConcatNoDuplicates
  <2>. QED BY <2>4 DEF tracks, ls
<1>. HIDE DEF tracks
<1>12. u \in TracklistType /\ u.tracks = tracks /\ u.nextTlid = t.nextTlid
  <2>1. u = [t EXCEPT !.tracks = tracks]
    BY <1>3 DEF tracks
  <2>. QED BY <2>1, <1>1, <1>11 DEF TracklistType
<1>13. Range(tracks) \subseteq Range(t.tracks)
  BY <1>7, <1>8, <1>9, <1>11
<1>. QED BY <1>11, <1>12, <1>13 DEF TracksInv, Keeps

LEMMA RemoveFromShuffledInv ==
    ASSUME NEW t, t \in TracklistType, NEW R
    PROVE  LET u == RemoveFromShuffled(t, R)
           IN  /\ u \in TracklistType
               /\ u.tracks = t.tracks /\ u.nextTlid = t.nextTlid
               /\ Range(u.shuffled) = Range(t.shuffled) \ R
               /\ NoDuplicates(t.shuffled) => NoDuplicates(u.shuffled)
<1>. DEFINE w == Without(t.shuffled, R)
<1>1. t.shuffled \in Seq(Tlid)
  BY DEF TracklistType
<1>2. /\ w \in Seq(Tlid) /\ Range(w) = Range(t.shuffled) \ R
      /\ NoDuplicates(t.shuffled) => NoDuplicates(w)
  BY <1>1, WithoutProperties
<1>3. RemoveFromShuffled(t, R) = [t EXCEPT !.shuffled = w]
  BY DEF RemoveFromShuffled
<1>. HIDE DEF w
<1>. QED BY <1>2, <1>3 DEF TracklistType

LEMMA RemoveTracksInv ==
    ASSUME NEW t, TracksInv(t), NEW R
    PROVE  LET u == RemoveTracks(t, R)
           IN  /\ TracksInv(u) /\ Keeps(t, u)
               /\ OrderInv(t) => OrderInv(u)
<1>. DEFINE w == Without(t.tracks, R)
            v == [t EXCEPT !.tracks = w]
            u == RemoveFromShuffled(v, R)
<1>1. t \in TracklistType /\ t.tracks \in Seq(Tlid) /\ NoDuplicates(t.tracks)
  BY DEF TracksInv, TracklistType
<1>2. w \in Seq(Tlid) /\ Range(w) = Range(t.tracks) \ R /\ NoDuplicates(w)
  BY <1>1, WithoutProperties
<1>. HIDE DEF w
<1>3. /\ v \in TracklistType /\ v.tracks = w /\ v.nextTlid = t.nextTlid
      /\ v.shuffled = t.shuffled
  BY <1>1, <1>2 DEF TracklistType
<1>4. RemoveTracks(t, R) = u
  BY DEF RemoveTracks, w
<1>. HIDE DEF v
<1>5. /\ u \in TracklistType /\ u.tracks = w /\ u.nextTlid = t.nextTlid
      /\ Range(u.shuffled) = Range(t.shuffled) \ R
      /\ NoDuplicates(t.shuffled) => NoDuplicates(u.shuffled)
  BY <1>3, RemoveFromShuffledInv
<1>. HIDE DEF u
<1>6. \A x \in Range(w) : x < t.nextTlid
  BY <1>2 DEF TracksInv
<1>. QED BY <1>2, <1>4, <1>5, <1>6 DEF TracksInv, OrderInv, Keeps

LEMMA MarkPlayingInv ==
    ASSUME NEW t, TracklistInv(t), NEW tlid
    PROVE  TracklistInv(MarkPlaying(t, tlid)) /\ Keeps(t, MarkPlaying(t, tlid))
<1>. DEFINE u == RemoveFromShuffled(t, {tlid})
<1>1. t \in TracklistType
  BY DEF TracklistInv, TracksInv
<1>2. MarkPlaying(t, tlid) \in {t, u}
  BY DEF MarkPlaying
<1>3. /\ u \in TracklistType /\ u.tracks = t.tracks /\ u.nextTlid = t.nextTlid
      /\ Range(u.shuffled) = Range(t.shuffled) \ {tlid}
      /\ NoDuplicates(t.shuffled) => NoDuplicates(u.shuffled)
  BY <1>1, RemoveFromShuffledInv
<1>. HIDE DEF u
<1>. QED BY <1>2, <1>3 DEF TracklistInv, TracksInv, OrderInv, Keeps

LEMMA MarkUnplayableInv ==
    ASSUME NEW t, TracklistInv(t), NEW tlid \in Tlid
    PROVE  TracklistInv(MarkUnplayable(t, tlid)) /\ Keeps(t, MarkUnplayable(t, tlid))
<1>. DEFINE marked == [t EXCEPT !.unplayable = @ \union {tlid}]
<1>1. t \in TracklistType
  BY DEF TracklistInv, TracksInv
<1>2. /\ marked \in TracklistType /\ marked.tracks = t.tracks
      /\ marked.nextTlid = t.nextTlid /\ marked.shuffled = t.shuffled
  BY <1>1 DEF TracklistType
<1>3. MarkUnplayable(t, tlid) \in {t, marked, RemoveFromShuffled(marked, {tlid})}
  BY DEF MarkUnplayable
<1>. HIDE DEF marked
<1>. QED BY <1>2, <1>3, RemoveFromShuffledInv DEF TracklistInv, TracksInv, OrderInv, Keeps

\* The random order drawn anew, or cut at its front, is again an order of
\* tracks of the tracklist.
LEMMA NewOrderInv ==
    ASSUME NEW t, TracksInv(t), NEW s \in Seq(Tlid),
           NoDuplicates(s), Range(s) \subseteq Range(t.tracks)
    PROVE  LET u == [t EXCEPT !.shuffled = s] IN TracklistInv(u) /\ Keeps(t, u)
<1>. DEFINE u == [t EXCEPT !.shuffled = s]
<1>1. u \in TracklistType /\ u.tracks = t.tracks /\ u.nextTlid = t.nextTlid /\ u.shuffled = s
  BY DEF TracksInv, TracklistType
<1>. HIDE DEF u
<1>2. TracklistInv(u) /\ Keeps(t, u)
  BY <1>1 DEF TracksInv, TracklistInv, OrderInv, Keeps
<1>. QED BY <1>2 DEF u

LEMMA EmptyOrder == << >> \in Seq(Tlid) /\ NoDuplicates(<< >>) /\ Range(<< >>) = {}
  BY DEF NoDuplicates, Range

LEMMA ShuffledTracks ==
    ASSUME NEW t, TracksInv(t), NEW s \in Shuffles(t.tracks)
    PROVE  s \in Seq(Tlid) /\ NoDuplicates(s) /\ Range(s) = Range(t.tracks)
<1>1. t.tracks \in Seq(Tlid) /\ NoDuplicates(t.tracks)
  BY DEF TracksInv, TracklistType
<1>. QED BY <1>1, ShufflesProperties

LEMMA NextTlInv ==
    ASSUME NEW t, TracklistInv(t), NEW ref, NEW cur, NEW r \in NextTl(t, ref, cur)
    PROVE  TracklistInv(r.tl) /\ Keeps(t, r.tl)
<1>1. \/ r.tl = t
      \/ \E s \in Shuffles(t.tracks) : r.tl = [t EXCEPT !.shuffled = s]
  BY DEF NextTl
<1>2. CASE r.tl = t
  BY <1>2 DEF Keeps
<1>3. ASSUME NEW s \in Shuffles(t.tracks), r.tl = [t EXCEPT !.shuffled = s]
      PROVE  TracklistInv(r.tl) /\ Keeps(t, r.tl)
  <2>1. TracksInv(t)
    BY DEF TracklistInv
  <2>2. s \in Seq(Tlid) /\ NoDuplicates(s) /\ Range(s) \subseteq Range(t.tracks)
    BY <2>1, ShuffledTracks
  <2>3. TracklistInv([t EXCEPT !.shuffled = s]) /\ Keeps(t, [t EXCEPT !.shuffled = s])
    BY <2>1, <2>2, NewOrderInv
  <2>. QED BY <1>3, <2>3
<1>. QED BY <1>1, <1>2, <1>3

LEMMA EotTlInv ==
    ASSUME NEW t, TracklistInv(t), NEW ref, NEW cur, NEW r \in EotTl(t, ref, cur)
    PROVE  TracklistInv(r.tl) /\ Keeps(t, r.tl)
<1>1. r.tl = t \/ r \in NextTl(t, ref, cur)
  BY DEF EotTl
<1>. QED BY <1>1, NextTlInv DEF Keeps

LEMMA NextRemainingInv ==
    ASSUME NEW t, TracklistInv(t), NEW cur, NEW R, NEW r \in NextRemaining(t, cur, R)
    PROVE  TracklistInv(r.tl) /\ Keeps(t, r.tl) /\ r.tl.tracks = t.tracks
<1>. DEFINE Left(s) == {j \in DOMAIN s : s[j] \notin R}
            Cut(s) == [t EXCEPT !.shuffled = SubSeq(s, Min(Left(s)), Len(s))]
            Good(u) == TracklistInv(u) /\ Keeps(t, u) /\ u.tracks = t.tracks
<1>0. TracksInv(t) /\ t \in TracklistType
  BY DEF TracklistInv, TracksInv
<1>1. \/ r.tl = t
      \/ r.tl = [t EXCEPT !.shuffled = << >>]
      \/ ~(Range(t.shuffled) \subseteq R) /\ r.tl = Cut(t.shuffled)
      \/ ~(Range(t.tracks) \subseteq R) /\ \E s \in Shuffles(t.tracks) : r.tl = Cut(s)
  <2>. DEFINE Draw(s) == [tl |-> Cut(s), track |-> s[Min(Left(s))]]
              Gone == [tl |-> [t EXCEPT !.shuffled = << >>], track |-> None]
  <2>1. CASE Range(t.tracks) \subseteq R
    <3>1. r = Gone
      BY <2>1 DEF NextRemaining
    <3>. QED BY <3>1
  <2>2. CASE ~t.random /\ ~(Range(t.tracks) \subseteq R)
    <3>1. \E x : r = [tl |-> t, track |-> x]
      BY <2>2, Zenon DEF NextRemaining
    <3>. QED BY <3>1
  <2>3. CASE t.random /\ ~(Range(t.tracks) \subseteq R) /\ ~(Range(t.shuffled) \subseteq R)
    <3>1. r = Draw(t.shuffled)
      BY <2>3, Zenon DEF NextRemaining
    <3>. QED BY <2>3, <3>1
  <2>4. CASE t.random /\ ~(Range(t.tracks) \subseteq R) /\ Range(t.shuffled) \subseteq R
    <3>1. r \in IF t.repeat THEN {Draw(s) : s \in Shuffles(t.tracks)} ELSE {Gone}
      BY <2>4 DEF NextRemaining
    <3>3. Gone.tl = [t EXCEPT !.shuffled = << >>] /\ \A s : Draw(s).tl = Cut(s)
      OBVIOUS
    <3>. HIDE DEF Draw, Gone, Cut
    <3>2. r = Gone \/ \E s \in Shuffles(t.tracks) : r = Draw(s)
      BY <3>1, Zenon
    <3>. QED BY <2>4, <3>2, <3>3, Zenon
  <2>. QED BY <2>1, <2>2, <2>3, <2>4
<1>2. ASSUME NEW s \in Seq(Tlid), NoDuplicates(s), Range(s) \subseteq Range(t.tracks),
             ~(Range(s) \subseteq R)
      PROVE  Good(Cut(s))
  <2>. DEFINE k == Min(Left(s))
              q == SubSeq(s, k, Len(s))
  <2>1. Len(s) \in Nat /\ DOMAIN s = 1 .. Len(s)
    OBVIOUS
  <2>2. Left(s) \subseteq Nat /\ Left(s) # {}
    BY <1>2, <2>1 DEF Range
  <2>3. k \in Left(s)
    BY <2>2, LeastExists, Zenon DEF Min
  <2>. HIDE DEF k
  <2>4. k \in 1 .. Len(s) + 1 /\ Len(s) \in 0 .. Len(s) /\ k \in 1 .. Len(s)
    BY <2>1, <2>3
  <2>5. q \in Seq(Tlid) /\ NoDuplicates(q) /\ Range(q) = {s[i] : i \in k .. Len(s)}
    BY <1>2, <2>4, SliceProperties
  <2>6. Range(q) \subseteq Range(t.tracks)
    <3>1. \A i \in k .. Len(s) : s[i] \in Range(s)
      BY <2>1, <2>4 DEF Range
    <3>. QED BY <3>1, <2>5, <1>2
  <2>. HIDE DEF q
  <2>7. TracklistInv([t EXCEPT !.shuffled = q]) /\ Keeps(t, [t EXCEPT !.shuffled = q])
    BY <1>0, <2>5, <2>6, NewOrderInv
  <2>8. [t EXCEPT !.shuffled = q].tracks = t.tracks
    BY <1>0 DEF TracklistType
  <2>. QED BY <2>7, <2>8 DEF q, k
<1>3. Good(t)
  BY DEF Keeps
<1>4. Good([t EXCEPT !.shuffled = << >>])
  BY <1>0, EmptyOrder, NewOrderInv DEF TracklistType
<1>5. ~(Range(t.shuffled) \subseteq R) => Good(Cut(t.shuffled))
  <2>1. /\ t.shuffled \in Seq(Tlid) /\ NoDuplicates(t.shuffled)
        /\ Range(t.shuffled) \subseteq Range(t.tracks)
    BY <1>0 DEF TracklistInv, OrderInv, TracklistType
  <2>. QED BY <2>1, <1>2, Zenon
<1>6. ASSUME NEW s \in Shuffles(t.tracks), ~(Range(t.tracks) \subseteq R)
      PROVE  Good(Cut(s))
  <2>1. s \in Seq(Tlid) /\ NoDuplicates(s) /\ Range(s) = Range(t.tracks)
    BY <1>0, ShuffledTracks
  <2>2. Range(s) \subseteq Range(t.tracks) /\ ~(Range(s) \subseteq R)
    BY <2>1, <1>6
  <2>. QED BY <2>1, <2>2, <1>2, Zenon
<1>. HIDE DEF Good, Cut
<1>7. Good(r.tl)
  BY <1>1, <1>3, <1>4, <1>5, <1>6
<1>. QED BY <1>7 DEF Good

LEMMA SetOptionInv ==
    ASSUME NEW t, TracklistInv(t), NEW option \in Options, NEW value \in BOOLEAN
    PROVE  TracklistInv(SetOption(t, option, value)) /\ Keeps(t, SetOption(t, option, value))
<1>. DEFINE u == SetOption(t, option, value)
<1>0. t \in TracklistType
  BY DEF TracklistInv, TracksInv
<1>1. u \in { [t EXCEPT !.consume = value], [t EXCEPT !.repeat = value],
              [t EXCEPT !.single = value] }
  BY DEF SetOption, Options
<1>2. /\ u \in TracklistType /\ u.tracks = t.tracks /\ u.nextTlid = t.nextTlid
      /\ u.shuffled = t.shuffled
  BY <1>0, <1>1 DEF TracklistType
<1>. HIDE DEF u
<1>3. TracklistInv(u) /\ Keeps(t, u)
  BY <1>2 DEF TracklistInv, TracksInv, OrderInv, Keeps
<1>. QED BY <1>3 DEF u

LEMMA SetRandomInv ==
    ASSUME NEW t, TracklistInv(t), NEW value \in BOOLEAN, NEW u \in SetRandom(t, value)
    PROVE  TracklistInv(u) /\ Keeps(t, u)
<1>0. t \in TracklistType /\ TracksInv(t)
  BY DEF TracklistInv, TracksInv
<1>1. PICK s \in IF value THEN Shuffles(t.tracks) ELSE {t.shuffled} :
         u = [t EXCEPT !.random = value, !.shuffled = s]
  BY DEF SetRandom
<1>2. s \in Seq(Tlid) /\ Range(s) \subseteq Range(t.tracks) /\ NoDuplicates(s)
  <2>1. CASE value
    BY <1>0, <1>1, <2>1, ShuffledTracks
  <2>2. CASE ~value
    BY <1>0, <1>1, <2>2 DEF TracklistInv, OrderInv, TracklistType
  <2>. QED BY <2>1, <2>2
<1>3. /\ u \in TracklistType /\ u.tracks = t.tracks /\ u.nextTlid = t.nextTlid
      /\ u.shuffled = s
  BY <1>0, <1>1, <1>2 DEF TracklistType
<1>. QED BY <1>2, <1>3 DEF TracklistInv, TracksInv, OrderInv, Keeps
-----------------------------------------------------------------------------
(* The controller. *)

\* The inductive invariant.  A stored tracklist is the tracklist of an earlier
\* process, so it has to keep the same promises for the next start.
StoredInv ==
    stored # None =>
        /\ stored \in StoredType
        /\ NoDuplicates(stored.tracks)
        /\ \A x \in Range(stored.tracks) : x < stored.nextTlid

IInv ==
    /\ TypeOK
    /\ TracklistInv(tl)
    /\ StoredInv

\* What a step does to the TLIDs within the life of a process.
NewTlidsOnly ==
    /\ tl'.nextTlid >= tl.nextTlid
    /\ \A x \in Range(tl'.tracks) \ Range(tl.tracks) : x >= tl.nextTlid

LEMMA InitialTracklist == TracklistInv(InitTracklist)
<1>1. InitTracklist \in TracklistType
  BY DEF InitTracklist, TracklistType, Tlid
<1>2. /\ InitTracklist.tracks = << >> /\ InitTracklist.shuffled = << >>
  BY DEF InitTracklist
<1>. QED BY <1>1, <1>2, EmptyOrder DEF TracklistInv, TracksInv, OrderInv, NoDuplicates, Range

LEMMA InitIInv == Init => IInv
<1>. SUFFICES ASSUME Init PROVE IInv
  OBVIOUS
<1>0. InitTracklist \in TracklistType
  BY InitialTracklist DEF TracklistInv, TracksInv
<1>1. TracklistInv(tl) /\ tl \in TracklistType
  BY <1>0, InitialTracklist DEF Init
<1>2. TypeOK
  BY <1>1, EmptyOrder DEF Init, TypeOK, TlidOrNone
<1>. QED BY <1>1, <1>2 DEF Init, IInv, StoredInv

\* What is left to show of a step that does not write the state file.
LEMMA StepInv ==
    ASSUME IInv, TracklistInv(tl'), current' \in TlidOrNone, calls' \in Nat,
           running' \in BOOLEAN, stored' \in {stored, None},
           announced' \in Seq(Tlid), dealt' \subseteq Tlid
    PROVE  IInv'
<1>1. TypeOK'
  BY DEF IInv, TypeOK, TracklistInv, TracksInv
<1>2. StoredInv'
  BY DEF IInv, StoredInv
<1>. QED BY <1>1, <1>2 DEF IInv

\* Every way into _increase_version.
LEMMA AnnounceInv ==
    ASSUME IInv, NEW t, TracksInv(t), Announce(t)
    PROVE  /\ TracklistInv(tl') /\ Keeps(t, tl')
           /\ current' \in TlidOrNone
           /\ announced' \in Seq(Tlid) /\ dealt' \subseteq Tlid
<1>1. TracklistInv(tl') /\ Keeps(t, tl')
  BY IncreaseVersionInv DEF Announce
<1>2. current' \in TlidOrNone /\ announced' \in Seq(Tlid) /\ dealt' \subseteq Tlid
  BY DEF Announce, IInv, TypeOK, TlidOrNone, TracksInv, TracklistType
<1>. QED BY <1>1, <1>2

LEMMA KeepsNewTlidsOnly ==
    ASSUME IInv, NEW t, Keeps(tl, t), Keeps(t, tl')
    PROVE  NewTlidsOnly
<1>1. tl.nextTlid \in Nat
  BY DEF IInv, TypeOK, TracklistType, Tlid
<1>. QED BY <1>1 DEF Keeps, NewTlidsOnly

-----------------------------------------------------------------------------
(* Start and end of the process. *)

LEMMA SetupInv ==
    ASSUME IInv, SetupFresh \/ SetupStored
    PROVE  IInv'
<1>1. CASE SetupFresh
  <2>1. /\ TracklistInv(tl') /\ current' \in TlidOrNone /\ calls' \in Nat
        /\ running' \in BOOLEAN /\ stored' = stored
        /\ announced' \in Seq(Tlid) /\ dealt' \subseteq Tlid
    BY <1>1 DEF SetupFresh, IInv, TypeOK
  <2>. QED BY <2>1, StepInv
<1>2. CASE SetupStored
  <2>. DEFINE t == LoadTracklist(tl, stored)
  <2>1. TracksInv(t)
    <3>1. /\ stored \in StoredType /\ tl \in TracklistType
          /\ NoDuplicates(stored.tracks)
          /\ \A x \in Range(stored.tracks) : x < stored.nextTlid
      BY <1>2 DEF SetupStored, IInv, StoredInv, TypeOK
    <3>2. /\ t \in TracklistType /\ t.tracks = stored.tracks
          /\ t.nextTlid = IF stored.nextTlid > tl.nextTlid THEN stored.nextTlid ELSE tl.nextTlid
      BY <3>1 DEF LoadTracklist, StoredType, TracklistType
    <3>. HIDE DEF t
    <3>3. stored.nextTlid \in Nat /\ tl.nextTlid \in Nat /\ stored.tracks \in Seq(Tlid)
      BY <3>1 DEF StoredType, TracklistType, Tlid
    <3>4. \A x \in Range(stored.tracks) : x \in Nat
      BY <3>3 DEF Range, Tlid
    <3>5. \A x \in Range(stored.tracks) : x < t.nextTlid
      BY <3>1, <3>2, <3>3, <3>4
    <3>. QED BY <3>1, <3>2, <3>5 DEF TracksInv
  <2>2. Announce(t) /\ calls' = calls /\ running' = TRUE /\ stored' = None
    BY <1>2 DEF SetupStored
  <2>. HIDE DEF t
  <2>3. /\ TracklistInv(tl') /\ current' \in TlidOrNone
        /\ announced' \in Seq(Tlid) /\ dealt' \subseteq Tlid
    BY <2>1, <2>2, AnnounceInv
  <2>4. calls' \in Nat
    BY <2>2 DEF IInv, TypeOK
  <2>. QED BY <2>2, <2>3, <2>4, StepInv
<1>. QED BY <1>1, <1>2

LEMMA EndInv ==
    ASSUME IInv, Shutdown \/ Crash
    PROVE  IInv' /\ ~running'
<1>1. TypeOK' /\ TracklistInv(tl)' /\ ~running'
  <2>1. /\ tl' = InitTracklist /\ current' = None /\ calls' = 0 /\ running' = FALSE
        /\ announced' = << >> /\ dealt' = {}
    BY DEF Shutdown, Crash, Reset
  <2>2. stored' \in StoredType \union {None}
    BY DEF Shutdown, Crash, IInv, TypeOK, SaveTracklist, StoredType, TracklistType
  <2>3. TracklistInv(tl')
    BY <2>1, InitialTracklist
  <2>4. tl' \in TracklistType
    BY <2>3 DEF TracklistInv, TracksInv
  <2>5. TypeOK'
    BY <2>1, <2>2, <2>4, EmptyOrder DEF TypeOK, TlidOrNone
  <2>. QED BY <2>1, <2>3, <2>5
<1>2. StoredInv'
  <2>1. CASE Crash
    BY <2>1 DEF Crash, IInv, StoredInv
  <2>2. CASE Shutdown
    <3>1. /\ stored' = SaveTracklist(tl) /\ stored' \in StoredType
          /\ stored'.tracks = tl.tracks /\ stored'.nextTlid = tl.nextTlid
      BY <2>2 DEF Shutdown, IInv, TypeOK, SaveTracklist, StoredType, TracklistType
    <3>2. NoDuplicates(tl.tracks) /\ \A x \in Range(tl.tracks) : x < tl.nextTlid
      BY DEF IInv, TracklistInv, TracksInv
    <3>. QED BY <3>1, <3>2 DEF StoredInv
  <2>. QED BY <2>1, <2>2
<1>. QED BY <1>1, <1>2 DEF IInv

-----------------------------------------------------------------------------
(* Calls of clients. *)

LEMMA AddInv ==
    ASSUME IInv, NEW n \in BatchSizes, NEW pos \in Positions \union {None}, Add(n, pos)
    PROVE  IInv' /\ NewTlidsOnly
<1>. DEFINE t == AddTracks(tl, n, pos)
<1>1. n \in Nat /\ pos \in Nat \union {None}
  BY PositionsAssumption, BatchAssumption
<1>2. TracklistInv(tl) /\ TracksInv(tl) /\ OrderInv(tl)
  BY DEF IInv, TracklistInv
<1>3. /\ TracksInv(t) /\ t.shuffled = tl.shuffled
      /\ Range(tl.tracks) \subseteq Range(t.tracks)
      /\ t.nextTlid >= tl.nextTlid
      /\ \A x \in Range(t.tracks) \ Range(tl.tracks) : x >= tl.nextTlid
  BY <1>1, <1>2, AddTracksInv
<1>0. tl.nextTlid \in Nat
  BY DEF IInv, TypeOK, TracklistType, Tlid
<1>4. running' = running /\ calls' = calls /\ stored' = stored
  BY DEF Add
<1>5. \/ tl' \in {tl, t} /\ UNCHANGED <<current, announced, dealt>>
      \/ Announce(t)
  BY DEF Add
<1>. HIDE DEF t
<1>6. TracklistInv(tl) /\ TracklistInv(t)
  BY <1>2, <1>3 DEF TracklistInv, OrderInv
<1>7. running' \in BOOLEAN /\ calls' \in Nat
  BY <1>4 DEF IInv, TypeOK
<1>8. CASE tl' \in {tl, t} /\ UNCHANGED <<current, announced, dealt>>
  <2>1. TracklistInv(tl')
    BY <1>6, <1>8
  <2>2. current' \in TlidOrNone /\ announced' \in Seq(Tlid) /\ dealt' \subseteq Tlid
    BY <1>8 DEF IInv, TypeOK
  <2>3. IInv'
    BY <1>4, <1>7, <2>1, <2>2, StepInv
  <2>. QED BY <1>0, <1>3, <1>8, <2>3 DEF NewTlidsOnly
<1>9. CASE Announce(t)
  <2>1. /\ TracklistInv(tl') /\ Keeps(t, tl')
        /\ current' \in TlidOrNone
        /\ announced' \in Seq(Tlid) /\ dealt' \subseteq Tlid
    BY <1>3, <1>9, AnnounceInv
  <2>2. IInv'
    BY <1>4, <1>7, <2>1, StepInv
  <2>. QED BY <1>3, <2>1, <2>2 DEF NewTlidsOnly, Keeps
<1>. QED BY <1>5, <1>8, <1>9

\* The calls that announce a list with no track the old one did not have.
LEMMA AnnounceFewerInv ==
    ASSUME IInv, NEW t, TracksInv(t), Keeps(tl, t), Announce(t),
           calls' \in Nat, running' = running, stored' = stored
    PROVE  IInv' /\ NewTlidsOnly
<1>1. /\ TracklistInv(tl') /\ Keeps(t, tl')
      /\ current' \in TlidOrNone
      /\ announced' \in Seq(Tlid) /\ dealt' \subseteq Tlid
  BY AnnounceInv
<1>2. running' \in BOOLEAN
  BY DEF IInv, TypeOK
<1>3. IInv'
  BY <1>1, <1>2, StepInv
<1>. QED BY <1>1, <1>3, KeepsNewTlidsOnly

LEMMA ClearInv ==
    ASSUME IInv, Clear
    PROVE  IInv' /\ NewTlidsOnly
<1>. DEFINE t == [tl EXCEPT !.tracks = << >>]
<1>1. tl \in TracklistType /\ calls \in Nat
  BY DEF IInv, TypeOK
<1>2. t \in TracklistType /\ t.tracks = << >> /\ t.nextTlid = tl.nextTlid
  BY <1>1, EmptyOrder DEF TracklistType
<1>3. Announce(t) /\ calls' = calls /\ running' = running /\ stored' = stored
  BY DEF Clear
<1>. HIDE DEF t
<1>4. TracksInv(t) /\ Keeps(tl, t)
  BY <1>2, EmptyOrder DEF TracksInv, Keeps
<1>. QED BY <1>1, <1>3, <1>4, AnnounceFewerInv

LEMMA MoveInv ==
    ASSUME IInv, NEW start \in Positions, NEW end \in Positions, NEW to \in Positions,
           Move(start, end, to)
    PROVE  IInv' /\ NewTlidsOnly
<1>. DEFINE last == IF start = end THEN end + 1 ELSE end
            t == MoveTracks(tl, start, last, to)
<1>1. start \in Nat /\ last \in Nat /\ to \in Nat
  BY PositionsAssumption
<1>2. /\ CanMove(tl, start, last, to) /\ Announce(t)
      /\ calls' = calls /\ running' = running /\ stored' = stored
  BY DEF Move
<1>. HIDE DEF last
<1>3. TracksInv(t) /\ Keeps(tl, t)
  BY <1>1, <1>2, MoveTracksInv DEF IInv, TracklistInv
<1>. HIDE DEF t
<1>4. calls' \in Nat
  BY <1>2 DEF IInv, TypeOK
<1>. QED BY <1>2, <1>3, <1>4, AnnounceFewerInv

LEMMA ShuffleInv ==
    ASSUME IInv, NEW start \in Positions \union {None}, NEW end \in Positions \union {None},
           Shuffle(start, end)
    PROVE  IInv' /\ NewTlidsOnly
<1>1. start \in Nat \union {None} /\ end \in Nat \union {None}
  BY PositionsAssumption
<1>2. PICK t \in ShuffleTracks(tl, start, end) : Announce(t)
  BY DEF Shuffle
<1>3. /\ CanShuffle(tl, start, end)
      /\ calls' = calls /\ running' = running /\ stored' = stored
  BY DEF Shuffle
<1>4. TracksInv(tl)
  BY DEF IInv, TracklistInv
<1>5. TracksInv(t) /\ Keeps(tl, t)
  BY <1>1, <1>3, <1>4, ShuffleTracksInv
<1>6. calls' \in Nat
  BY <1>3 DEF IInv, TypeOK
<1>. QED BY <1>2, <1>3, <1>5, <1>6, AnnounceFewerInv

\* remove(), also when playback calls it: it announces the shorter list, or
\* waits for playback with the tracks gone from the list and the order.
LEMMA RemoveInv ==
    ASSUME IInv, NEW t, TracklistInv(t), Keeps(tl, t), NEW R, Remove(t, R)
    PROVE  IInv' /\ NewTlidsOnly
<1>1. running' = running /\ stored' = stored /\ calls \in Nat
  BY DEF Remove, IInv, TypeOK
<1>2. CASE current \in R /\ ~(Range(t.tracks) \subseteq R)
  <2>1. PICK r \in NextRemaining(t, current, R) : tl' = RemoveTracks(r.tl, R)
    BY <1>2 DEF Remove
  <2>2. /\ dealt' = (IF Range(tl'.shuffled) \subseteq Range(tl.shuffled) THEN dealt ELSE {})
        /\ calls' = calls + 1 /\ current' = current /\ announced' = announced
    BY <1>2 DEF Remove
  <2>3. TracklistInv(r.tl) /\ Keeps(t, r.tl)
    BY NextRemainingInv
  <2>4. TracklistInv(tl') /\ Keeps(r.tl, tl')
    BY <2>1, <2>3, RemoveTracksInv DEF TracklistInv
  <2>5. /\ current' \in TlidOrNone /\ announced' \in Seq(Tlid) /\ dealt' \subseteq Tlid
        /\ calls' \in Nat /\ running' \in BOOLEAN
    BY <1>1, <2>2 DEF IInv, TypeOK
  <2>6. IInv'
    BY <1>1, <2>4, <2>5, StepInv
  <2>7. Keeps(tl, r.tl)
    BY <2>3 DEF Keeps
  <2>. QED BY <2>4, <2>6, <2>7, KeepsNewTlidsOnly
<1>3. CASE ~(current \in R /\ ~(Range(t.tracks) \subseteq R))
  <2>. DEFINE u == RemoveTracks(t, R)
  <2>1. Announce(u) /\ calls' = calls
    BY <1>3, Zenon DEF Remove
  <2>2. TracksInv(u) /\ Keeps(t, u)
    BY RemoveTracksInv DEF TracklistInv
  <2>. HIDE DEF u
  <2>3. Keeps(tl, u)
    BY <2>2 DEF Keeps
  <2>. QED BY <1>1, <2>1, <2>2, <2>3, AnnounceFewerInv
<1>. QED BY <1>2, <1>3

LEMMA ClientRemoveInv ==
    ASSUME IInv, ClientRemove
    PROVE  IInv' /\ NewTlidsOnly
<1>1. PICK R \in SUBSET Range(tl.tracks) : Remove(tl, R)
  BY DEF ClientRemove
<1>2. TracklistInv(tl) /\ Keeps(tl, tl)
  BY DEF IInv, Keeps
<1>. QED BY <1>1, <1>2, RemoveInv

\* The steps that change the fields other than tracks and nextTlid.
LEMMA FieldsInv ==
    ASSUME IInv, TracklistInv(tl'), Keeps(tl, tl'), dealt' \subseteq Tlid,
           current' \in TlidOrNone,
           UNCHANGED <<calls, running, stored, announced>>
    PROVE  IInv' /\ NewTlidsOnly
<1>1. calls' \in Nat /\ running' \in BOOLEAN /\ stored' = stored /\ announced' \in Seq(Tlid)
  BY DEF IInv, TypeOK
<1>2. IInv'
  BY <1>1, StepInv
<1>3. Keeps(tl, tl)
  BY DEF Keeps
<1>. QED BY <1>2, <1>3, KeepsNewTlidsOnly

LEMMA ModesInv ==
    ASSUME IInv, ChangeOption \/ ChangeRandom
    PROVE  IInv' /\ NewTlidsOnly
<1>0. TracklistInv(tl)
  BY DEF IInv
<1>1. CASE ChangeOption
  <2>1. PICK option \in Options, value \in BOOLEAN : tl' = SetOption(tl, option, value)
    BY <1>1, OptionsAssumption DEF ChangeOption
  <2>2. TracklistInv(tl') /\ Keeps(tl, tl')
    BY <1>0, <2>1, SetOptionInv
  <2>3. /\ dealt' \subseteq Tlid /\ current' \in TlidOrNone
        /\ UNCHANGED <<calls, running, stored, announced>>
    BY <1>1 DEF ChangeOption, IInv, TypeOK
  <2>. QED BY <2>2, <2>3, FieldsInv
<1>2. CASE ChangeRandom
  <2>1. PICK value \in BOOLEAN : tl' \in SetRandom(tl, value) /\ dealt' \in {dealt, {}}
    BY <1>2 DEF ChangeRandom
  <2>2. TracklistInv(tl') /\ Keeps(tl, tl')
    BY <1>0, <2>1, SetRandomInv
  <2>3. /\ dealt' \subseteq Tlid /\ current' \in TlidOrNone
        /\ UNCHANGED <<calls, running, stored, announced>>
    BY <1>2, <2>1 DEF ChangeRandom, IInv, TypeOK
  <2>. QED BY <2>2, <2>3, FieldsInv
<1>. QED BY <1>1, <1>2

-----------------------------------------------------------------------------
(* Calls of playback. *)

LEMMA PeekInv ==
    ASSUME IInv, PeekNext \/ PeekEot
    PROVE  IInv' /\ NewTlidsOnly
<1>0. TracklistInv(tl)
  BY DEF IInv
<1>1. /\ \E ref : \E r \in NextTl(tl, ref, current) \union EotTl(tl, ref, current) : tl' = r.tl
      /\ dealt' \in {dealt, {}}
      /\ UNCHANGED <<current, calls, running, stored, announced>>
  BY DEF PeekNext, PeekEot, Peek
<1>2. TracklistInv(tl') /\ Keeps(tl, tl')
  BY <1>0, <1>1, NextTlInv, EotTlInv
<1>3. dealt' \subseteq Tlid /\ current' \in TlidOrNone
  BY <1>1 DEF IInv, TypeOK
<1>. QED BY <1>1, <1>2, <1>3, FieldsInv

LEMMA SetCurrentInv ==
    ASSUME IInv, SetCurrent
    PROVE  IInv' /\ NewTlidsOnly
<1>1. TracklistInv(tl') /\ Keeps(tl, tl') /\ dealt' \subseteq Tlid
  BY DEF IInv, TypeOK, SetCurrent, Keeps
<1>2. current' \in TlidOrNone
  BY BoundsAssumption DEF SetCurrent, TlidOrNone, Tlid
<1>. QED BY <1>1, <1>2, FieldsInv DEF SetCurrent

LEMMA MarkInv ==
    ASSUME IInv, MarkTrackPlaying \/ MarkTrackUnplayable
    PROVE  IInv' /\ NewTlidsOnly
<1>0. TracklistInv(tl)
  BY DEF IInv
<1>1. PICK tlid \in 1 .. MaxTlid :
        /\ tl' \in {MarkPlaying(tl, tlid), MarkUnplayable(tl, tlid)}
        /\ dealt' \in {dealt, dealt \union {tlid}}
        /\ UNCHANGED <<current, calls, running, stored, announced>>
  BY DEF MarkTrackPlaying, MarkTrackUnplayable, Mark
<1>2. tlid \in Tlid
  BY BoundsAssumption DEF Tlid
<1>3. TracklistInv(tl') /\ Keeps(tl, tl')
  BY <1>0, <1>1, <1>2, MarkPlayingInv, MarkUnplayableInv
<1>4. dealt' \subseteq Tlid /\ current' \in TlidOrNone
  BY <1>1, <1>2 DEF IInv, TypeOK
<1>. QED BY <1>1, <1>3, <1>4, FieldsInv

LEMMA PlayedInv ==
    ASSUME IInv, MarkPlayed
    PROVE  IInv' /\ NewTlidsOnly
<1>1. PICK tlid \in Range(tl.tracks) : Remove(tl, {tlid})
  BY DEF MarkPlayed
<1>2. TracklistInv(tl) /\ Keeps(tl, tl)
  BY DEF IInv, Keeps
<1>. QED BY <1>1, <1>2, RemoveInv

LEMMA RemoveUnplayableInv ==
    ASSUME IInv, RemoveUnplayable
    PROVE  IInv' /\ NewTlidsOnly
<1>. DEFINE t == [tl EXCEPT !.unplayable = {}]
<1>1. tl \in TracklistType /\ TracklistInv(tl)
  BY DEF IInv, TypeOK
<1>2. /\ t \in TracklistType /\ t.tracks = tl.tracks /\ t.nextTlid = tl.nextTlid
      /\ t.shuffled = tl.shuffled
  BY <1>1 DEF TracklistType
<1>3. \/ Remove(t, tl.unplayable \intersect Range(tl.tracks))
      \/ tl' = t /\ UNCHANGED <<current, calls, running, stored, announced, dealt>>
  BY DEF RemoveUnplayable
<1>. HIDE DEF t
<1>4. TracklistInv(t) /\ Keeps(tl, t)
  BY <1>1, <1>2 DEF TracklistInv, TracksInv, OrderInv, Keeps
<1>5. CASE Remove(t, tl.unplayable \intersect Range(tl.tracks))
  BY <1>4, <1>5, RemoveInv
<1>6. CASE tl' = t /\ UNCHANGED <<current, calls, running, stored, announced, dealt>>
  <2>1. dealt' \subseteq Tlid /\ current' \in TlidOrNone
    BY <1>6 DEF IInv, TypeOK
  <2>. QED BY <1>4, <1>6, <2>1, FieldsInv
<1>. QED BY <1>3, <1>5, <1>6

LEMMA RemoveReturnsInv ==
    ASSUME IInv, RemoveReturns
    PROVE  IInv' /\ NewTlidsOnly
<1>1. /\ Announce(tl) /\ calls' = calls - 1 /\ calls > 0
      /\ running' = running /\ stored' = stored
  BY DEF RemoveReturns
<1>2. TracksInv(tl) /\ Keeps(tl, tl) /\ calls' \in Nat
  BY <1>1 DEF IInv, TypeOK, TracklistInv, Keeps
<1>. QED BY <1>1, <1>2, AnnounceFewerInv

-----------------------------------------------------------------------------
(* The theorems. *)

LEMMA NextInv ==
    ASSUME IInv, [Next]_vars
    PROVE  IInv' /\ (running /\ running' => NewTlidsOnly)
<1>1. CASE SetupFresh \/ SetupStored
  BY <1>1, SetupInv DEF SetupFresh, SetupStored
<1>2. CASE Shutdown \/ Crash
  BY <1>2, EndInv
<1>3. ASSUME NEW n \in BatchSizes, NEW pos \in Positions \union {None}, Add(n, pos)
      PROVE  IInv' /\ NewTlidsOnly
  BY <1>3, AddInv
<1>4. CASE Clear
  BY <1>4, ClearInv
<1>5. ASSUME NEW start \in Positions, NEW end \in Positions, NEW to \in Positions,
             Move(start, end, to)
      PROVE  IInv' /\ NewTlidsOnly
  BY <1>5, MoveInv
<1>6. ASSUME NEW start \in Positions \union {None}, NEW end \in Positions \union {None},
             Shuffle(start, end)
      PROVE  IInv' /\ NewTlidsOnly
  BY <1>6, ShuffleInv
<1>7. CASE ClientRemove
  BY <1>7, ClientRemoveInv
<1>8. CASE ChangeOption \/ ChangeRandom
  BY <1>8, ModesInv
<1>9. CASE PeekNext \/ PeekEot
  BY <1>9, PeekInv
<1>10. CASE SetCurrent
  BY <1>10, SetCurrentInv
<1>11. CASE MarkTrackPlaying \/ MarkTrackUnplayable
  BY <1>11, MarkInv
<1>12. CASE MarkPlayed
  BY <1>12, PlayedInv
<1>13. CASE RemoveUnplayable
  BY <1>13, RemoveUnplayableInv
<1>14. CASE RemoveReturns
  BY <1>14, RemoveReturnsInv
<1>15. CASE UNCHANGED vars
  <2>1. /\ TracklistInv(tl') /\ Keeps(tl, tl') /\ dealt' \subseteq Tlid
        /\ current' \in TlidOrNone /\ UNCHANGED <<calls, running, stored, announced>>
    BY <1>15 DEF vars, IInv, TypeOK, Keeps
  <2>. QED BY <2>1, FieldsInv
<1>. QED BY <1>1, <1>2, <1>3, <1>4, <1>5, <1>6, <1>7, <1>8, <1>9, <1>10, <1>11,
            <1>12, <1>13, <1>14, <1>15 DEF Next

LEMMA Invariant == Spec => []IInv
<1>1. IInv /\ [Next]_vars => IInv'
  BY NextInv
<1>. QED BY InitIInv, <1>1, PTL DEF Spec

\* Every field keeps its type whatever clients and playback do, over crashes
\* and restarts: in particular tracks and shuffled stay lists of TLIDs and
\* version and next_tlid never fall below their start.
THEOREM TypeCorrect == Spec => []TypeOK
<1>1. IInv => TypeOK
  BY DEF IInv
<1>. QED BY Invariant, <1>1, PTL

\* index(), filter() and play(tlid) find at most one entry: no tracklist, nor
\* saved tracklist, has a TLID twice or one that is still to be handed out.
THEOREM UniqueTlids == Spec => []TlidsUnique
<1>1. IInv => TlidsUnique
  BY DEF IInv, TlidsUnique, StoredInv, TracklistInv, TracksInv, Range
<1>. QED BY Invariant, <1>1, PTL

\* The random order is made of tracks of the tracklist, each at most once, at
\* every point where playback reads it.
THEOREM RandomOrderWithinTracklist == Spec => []ShuffledWithinTracklist
<1>1. IInv => ShuffledWithinTracklist
  BY DEF IInv, ShuffledWithinTracklist, TracklistInv, OrderInv
<1>. QED BY Invariant, <1>1, PTL

\* While the process lives, a TLID that left the tracklist stays away.
THEOREM NoTlidComesBack == Spec => TlidsNeverReused
<1>1. IInv /\ [Next]_vars =>
         [running /\ running' =>
             /\ tl'.nextTlid >= tl.nextTlid
             /\ \A t \in Range(tl'.tracks) \ Range(tl.tracks) : t >= tl.nextTlid]_vars
  BY NextInv DEF NewTlidsOnly
<1>. QED BY Invariant, <1>1, PTL DEF Spec, TlidsNeverReused

\* Pressing next and then previous comes back to the track it left, for every
\* tracklist and every current track.
THEOREM PreviousAfterNext == Spec => []PreviousUndoesNext
<1>1. IInv => PreviousUndoesNext
  <2>. SUFFICES ASSUME IInv, ~(tl.repeat \/ tl.consume \/ tl.random),
                       NEW t \in Range(tl.tracks), NEW r \in NextTl(tl, t, current),
                       r.track # None, NEW q \in PreviousTl(tl, r.track, current)
                PROVE  q.track = t
    BY DEF PreviousUndoesNext
  <2>. DEFINE n == Len(tl.tracks)
              i == Index(tl.tracks, t)
  <2>1. /\ tl.tracks \in Seq(Tlid) /\ NoDuplicates(tl.tracks)
        /\ DOMAIN tl.tracks = 1 .. n /\ n \in Nat /\ t \in Tlid
    BY DEF IInv, TracklistInv, TracksInv, TracklistType, Range
  <2>2. i \in 1 .. n /\ tl.tracks[i] = t
    <3>1. \E j \in DOMAIN tl.tracks : tl.tracks[j] = t
      BY DEF Range
    <3>. QED BY <2>1, <3>1, Zenon DEF Index
  <2>. HIDE DEF i
  <2>3. Reference(t, current) = t /\ Reference(r.track, current) = r.track
    BY <2>1, NoneAssumption DEF Reference, Tlid
  <2>4. i + 1 <= n /\ r.track = tl.tracks[i + 1]
    BY <2>1, <2>2, <2>3 DEF NextTl, i
  <2>5. Index(tl.tracks, r.track) = i + 1
    <3>1. i + 1 \in DOMAIN tl.tracks
      BY <2>1, <2>2, <2>4
    <3>2. \A j \in DOMAIN tl.tracks : tl.tracks[j] = r.track => j = i + 1
      BY <3>1, <2>1, <2>4 DEF NoDuplicates
    <3>. QED BY <3>1, <3>2, <2>4, Zenon DEF Index
  <2>6. (i + 1) - 1 = i /\ ~(i + 1 \in {0, 1})
    BY <2>1, <2>2
  <2>7. q.track = tl.tracks[(i + 1) - 1]
    BY <2>3, <2>5, <2>6 DEF PreviousTl
  <2>. QED BY <2>2, <2>6, <2>7
<1>. QED BY Invariant, <1>1, PTL
=============================================================================
