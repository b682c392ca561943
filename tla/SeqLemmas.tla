------------------------------- MODULE SeqLemmas -------------------------------
(***************************************************************************)
(* Facts about sequences, and the induction over the naturals they need.   *)
(***************************************************************************)
EXTENDS SeqOps, SequenceTheorems, WellFoundedInduction, TLAPS

(***************************************************************************)
(* Induction over the naturals, with the predicate as a set: what is       *)
(* needed of recursive functions without an operator parameter.            *)
(***************************************************************************)
LEMMA NatSetInduction ==
    ASSUME NEW T, 0 \in T, \A n \in Nat : n \in T => n + 1 \in T
    PROVE  \A n \in Nat : n \in T
<1>. DEFINE U == Nat \ T
            R == {ss \in Nat \X Nat : ss[1] < ss[2]}
<1>0. IsWellFoundedOn(R, Nat)
  BY NatLessThanWellFounded, Zenon DEF OpToRel
<1>1. SUFFICES ASSUME U # {} PROVE FALSE
  OBVIOUS
<1>2. PICK x \in U : \A y \in U : ~(<<y, x>> \in R)
  BY <1>0, <1>1, WFMin
<1>3. x \in Nat /\ x # 0 /\ x - 1 \in Nat
  OBVIOUS
<1>4. x - 1 \in T
  <2>1. <<x - 1, x>> \in R
    BY <1>3
  <2>2. x - 1 \notin U
    BY <1>2, <2>1, Zenon
  <2>. QED BY <2>2, <1>3
<1>5. (x - 1) + 1 \in T
  BY <1>3, <1>4
<1>. QED BY <1>3, <1>5

\* Some naturals have a least one.
LEMMA LeastExists ==
    ASSUME NEW J, J \subseteq Nat, J # {}
    PROVE  \E j \in J : \A k \in J : j <= k
<1>. DEFINE R == {ss \in Nat \X Nat : ss[1] < ss[2]}
<1>0. IsWellFoundedOn(R, Nat)
  BY NatLessThanWellFounded, Zenon DEF OpToRel
<1>1. PICK j \in J : \A k \in J : ~(<<k, j>> \in R)
  BY <1>0, WFMin
<1>2. ASSUME NEW k \in J PROVE j <= k
  <2>1. k \in Nat /\ j \in Nat /\ ~(<<k, j>> \in R)
    BY <1>1, Zenon
  <2>. QED BY <2>1
<1>. QED BY <1>2

\* The same for sequences.
\* Induction for sequences.
LEMMA SeqSetInduction ==
    ASSUME NEW X, NEW T, << >> \in T,
           \A s \in Seq(X), e \in X : s \in T => Append(s, e) \in T
    PROVE  \A s \in Seq(X) : s \in T
<1>. DEFINE L == {n \in Nat : \A s \in Seq(X) : Len(s) = n => s \in T}
<1>1. 0 \in L
  <2>1. \A s \in Seq(X) : Len(s) = 0 => s = << >>
    BY EmptySeq
  <2>. QED BY <2>1
<1>2. ASSUME NEW n \in Nat, n \in L PROVE n + 1 \in L
  <2>1. ASSUME NEW s \in Seq(X), Len(s) = n + 1 PROVE s \in T
    <3>1. s # << >>
      BY <2>1, EmptySeq
    <3>2. PICK front \in Seq(X), e \in X : s = Append(front, e)
      BY <3>1, SequenceEmptyOrAppend
    <3>3. Len(front) = n
      BY <2>1, <3>2, AppendProperties, LenProperties
    <3>. QED BY <1>2, <3>2, <3>3
  <2>. QED BY <2>1
<1>. HIDE DEF L
<1>3. \A n \in Nat : n \in L
  BY <1>1, <1>2, NatSetInduction
<1>. QED BY <1>3, LenProperties DEF L

-----------------------------------------------------------------------------
(* Chosen. *)

\* The recursive function in Chosen, and its step.
ChooseStep(seq, S, c, i) ==
    IF i = 0 THEN << >>
    ELSE IF seq[i] \in S THEN Append(c[i - 1], seq[i])
    ELSE c[i - 1]

Choosing(seq, S, c) ==
    [i \in 0 .. Len(seq) |->
        IF i = 0 THEN << >>
        ELSE IF seq[i] \in S THEN Append(c[i - 1], seq[i])
        ELSE c[i - 1]]

LEMMA ChoosingExists ==
    ASSUME NEW X, NEW seq \in Seq(X), NEW S
    PROVE  \E c \in [0 .. Len(seq) -> Seq(X)] : c = Choosing(seq, S, c)
<1>. DEFINE Upto(n) == \E c \in [0 .. n -> Seq(X)] :
                           \A i \in 0 .. n : c[i] = ChooseStep(seq, S, c, i)
            T == {n \in Nat : n <= Len(seq) => Upto(n)}
<1>0. Len(seq) \in Nat
  OBVIOUS
<1>1. 0 \in T
  <2>. DEFINE c == [i \in 0 .. 0 |-> << >>]
  <2>1. c \in [0 .. 0 -> Seq(X)]
    OBVIOUS
  <2>2. \A i \in 0 .. 0 : c[i] = ChooseStep(seq, S, c, i)
    BY DEF ChooseStep
  <2>. HIDE DEF c
  <2>. QED BY <2>1, <2>2
<1>2. ASSUME NEW n \in Nat, n \in T PROVE n + 1 \in T
  <2>0. n + 1 \in Nat
    OBVIOUS
  <2>1. SUFFICES ASSUME n + 1 <= Len(seq) PROVE Upto(n + 1)
    BY <2>0, Zenon
  <2>2. n <= Len(seq)
    BY <2>1, <1>0
  <2>3. PICK c \in [0 .. n -> Seq(X)] : \A i \in 0 .. n : c[i] = ChooseStep(seq, S, c, i)
    BY <1>2, <2>2
  <2>4. n + 1 \in 1 .. Len(seq) /\ seq[n + 1] \in X /\ c[n] \in Seq(X)
    BY <2>1, <1>0, <2>3
  <2>. DEFINE next == IF seq[n + 1] \in S THEN Append(c[n], seq[n + 1]) ELSE c[n]
              c2 == [i \in 0 .. n + 1 |-> IF i = n + 1 THEN next ELSE c[i]]
  <2>5. next \in Seq(X)
    BY <2>4
  <2>6. c2 \in [0 .. n + 1 -> Seq(X)]
    BY <2>5, <2>3
  <2>7. \A i \in 0 .. n + 1 : c2[i] = ChooseStep(seq, S, c2, i)
    <3>. TAKE i \in 0 .. n + 1
    <3>1. CASE i = n + 1
      <4>1. c2[i] = next /\ c2[i - 1] = c[n] /\ i # 0
        BY <3>1
      <4>. QED BY <4>1, <3>1 DEF ChooseStep
    <3>2. CASE i # n + 1
      <4>1. i \in 0 .. n /\ c2[i] = c[i] /\ (i # 0 => i - 1 \in 0 .. n /\ c2[i - 1] = c[i - 1])
        BY <3>2
      <4>. QED BY <4>1, <2>3 DEF ChooseStep
    <3>. QED BY <3>1, <3>2
  <2>. HIDE DEF c2
  <2>. QED BY <2>6, <2>7
<1>. HIDE DEF T
<1>3. Len(seq) \in T
  BY <1>0, <1>1, <1>2, NatSetInduction
<1>4. PICK c \in [0 .. Len(seq) -> Seq(X)] :
         \A i \in 0 .. Len(seq) : c[i] = ChooseStep(seq, S, c, i)
  BY <1>3, <1>0 DEF T
<1>5. c = Choosing(seq, S, c)
  BY <1>4 DEF ChooseStep, Choosing
<1>. QED BY <1>4, <1>5

\* c[i] is what is chosen of the first i elements.
Chooses(c, seq, S) ==
    /\ Chosen(seq, S) = c[Len(seq)]
    /\ c[0] = << >>
    /\ \A i \in 1 .. Len(seq) :
          c[i] = IF seq[i] \in S THEN Append(c[i - 1], seq[i]) ELSE c[i - 1]

LEMMA ChosenIs ==
    ASSUME NEW X, NEW seq \in Seq(X), NEW S
    PROVE  \E c \in [0 .. Len(seq) -> Seq(X)] : Chooses(c, seq, S)
<1>. DEFINE chosen == CHOOSE c : c = Choosing(seq, S, c)
<1>1. chosen = Choosing(seq, S, chosen)
  BY ChoosingExists, Zenon
<1>2. Chosen(seq, S) = chosen[Len(seq)]
  BY Zenon DEF Chosen, Choosing
<1>. HIDE DEF chosen
<1>3. Len(seq) \in Nat
  OBVIOUS
<1>4. /\ chosen[0] = << >>
      /\ \A i \in 1 .. Len(seq) :
            chosen[i] = IF seq[i] \in S THEN Append(chosen[i - 1], seq[i]) ELSE chosen[i - 1]
  <2>1. \A i \in 0 .. Len(seq) : chosen[i] = Choosing(seq, S, chosen)[i]
    BY <1>1, Zenon
  <2>2. \A i \in 0 .. Len(seq) :
           chosen[i] = IF i = 0 THEN << >>
                       ELSE IF seq[i] \in S THEN Append(chosen[i - 1], seq[i])
                       ELSE chosen[i - 1]
    BY <2>1 DEF Choosing
  <2>3. 0 \in 0 .. Len(seq) /\ \A i \in 1 .. Len(seq) : i \in 0 .. Len(seq) /\ i # 0
    BY <1>3
  <2>. QED BY <2>2, <2>3
<1>5. chosen \in [0 .. Len(seq) -> Seq(X)]
  <2>. DEFINE T == {n \in Nat : n <= Len(seq) => chosen[n] \in Seq(X)}
  <2>0. << >> \in Seq(X)
    OBVIOUS
  <2>1. 0 \in T
    BY <1>4, <2>0
  <2>2. ASSUME NEW n \in Nat, n \in T PROVE n + 1 \in T
    <3>1. SUFFICES ASSUME n + 1 <= Len(seq) PROVE chosen[n + 1] \in Seq(X)
      OBVIOUS
    <3>2. /\ n + 1 \in 1 .. Len(seq) /\ (n + 1) - 1 = n /\ seq[n + 1] \in X
          /\ chosen[n] \in Seq(X)
      BY <1>3, <2>2, <3>1
    <3>3. Append(chosen[n], seq[n + 1]) \in Seq(X)
      BY <3>2
    <3>. QED BY <1>4, <3>2, <3>3
  <2>. HIDE DEF T
  <2>3. \A n \in Nat : n \in T
    BY <2>1, <2>2, NatSetInduction
  <2>4. \A n \in 0 .. Len(seq) : chosen[n] \in Seq(X)
    BY <1>3, <2>3 DEF T
  <2>5. \E f : chosen = [i \in 0 .. Len(seq) |-> f[i]]
    BY <1>1 DEF Choosing
  <2>. QED BY <2>4, <2>5
<1>. QED BY <1>2, <1>4, <1>5 DEF Chooses

LEMMA ChosenType ==
    ASSUME NEW X, NEW seq \in Seq(X), NEW S
    PROVE  Chosen(seq, S) \in Seq(X) /\ Chosen(<< >>, S) = << >>
<1>1. Chosen(seq, S) \in Seq(X)
  <2>1. Len(seq) \in 0 .. Len(seq)
    OBVIOUS
  <2>. QED BY <2>1, ChosenIs DEF Chooses
<1>2. << >> \in Seq(X) /\ Len(<< >>) = 0
  OBVIOUS
<1>3. Chosen(<< >>, S) = << >>
  <2>1. PICK c : Chooses(c, << >>, S)
    BY <1>2, ChosenIs
  <2>. QED BY <1>2, <2>1 DEF Chooses
<1>. QED BY <1>1, <1>3

LEMMA ChosenOfAppend ==
    ASSUME NEW X, NEW seq \in Seq(X), NEW x \in X, NEW S
    PROVE  Chosen(Append(seq, x), S) =
              IF x \in S THEN Append(Chosen(seq, S), x) ELSE Chosen(seq, S)
<1>. DEFINE more == Append(seq, x)
<1>1. /\ more \in Seq(X) /\ Len(more) = Len(seq) + 1 /\ Len(seq) \in Nat
      /\ \A i \in 1 .. Len(seq) : more[i] = seq[i]
      /\ more[Len(seq) + 1] = x
  BY AppendProperties
<1>. HIDE DEF more
<1>2. PICK c \in [0 .. Len(seq) -> Seq(X)] : Chooses(c, seq, S)
  BY ChosenIs
<1>3. PICK d \in [0 .. Len(more) -> Seq(X)] : Chooses(d, more, S)
  BY <1>1, ChosenIs
<1>. DEFINE T == {n \in Nat : n <= Len(seq) => c[n] = d[n]}
<1>4. 0 \in T
  BY <1>2, <1>3 DEF Chooses
<1>5. ASSUME NEW n \in Nat, n \in T PROVE n + 1 \in T
  <2>1. SUFFICES ASSUME n + 1 <= Len(seq) PROVE c[n + 1] = d[n + 1]
    OBVIOUS
  <2>2. /\ n + 1 \in 1 .. Len(seq) /\ n + 1 \in 1 .. Len(more) /\ (n + 1) - 1 = n
        /\ more[n + 1] = seq[n + 1] /\ c[n] = d[n]
    BY <1>1, <1>5, <2>1
  <2>. QED BY <1>2, <1>3, <2>2 DEF Chooses
<1>. HIDE DEF T
<1>6. c[Len(seq)] = d[Len(seq)]
  <2>1. Len(seq) \in T
    BY <1>1, <1>4, <1>5, NatSetInduction
  <2>. QED BY <1>1, <2>1 DEF T
<1>7. Len(more) \in 1 .. Len(more) /\ Len(more) - 1 = Len(seq) /\ more[Len(more)] = x
  BY <1>1
<1>. QED BY <1>2, <1>3, <1>6, <1>7 DEF more, Chooses

\* Concatenation, for facts that are cited with it closed.
Joined(s, t) == s \o t

LEMMA AppendToJoined ==
    \A X : \A s, t \in Seq(X), e \in X : Append(Joined(s, t), e) = Joined(s, Append(t, e))
BY DEF Joined

LEMMA ChosenOfConcat ==
    ASSUME NEW X, NEW seq \in Seq(X), NEW more \in Seq(X), NEW S
    PROVE  Chosen(seq \o more, S) = Chosen(seq, S) \o Chosen(more, S)
<1>. DEFINE T == {s \in Seq(X) : Chosen(seq \o s, S) = Chosen(seq, S) \o Chosen(s, S)}
<1>1. << >> \in T
  <2>1. << >> \in Seq(X) /\ seq \o << >> = seq
    BY ConcatEmptySeq
  <2>2. Chosen(<< >>, S) = << >> /\ Chosen(seq, S) \in Seq(X)
    BY ChosenType
  <2>. QED BY <2>1, <2>2, ConcatEmptySeq
<1>2. ASSUME NEW s \in Seq(X), NEW e \in X, s \in T PROVE Append(s, e) \in T
  <2>0. seq \in Seq(X) /\ s \in Seq(X) /\ e \in X
    OBVIOUS
  <2>1. Append(s, e) \in Seq(X) /\ seq \o s \in Seq(X)
    BY <2>0, AppendProperties, ConcatProperties
  <2>2. seq \o Append(s, e) = Append(seq \o s, e)
    <3>1. Append(Joined(seq, s), e) = Joined(seq, Append(s, e))
      BY <2>0, AppendToJoined
    <3>. QED BY <3>1 DEF Joined
  <2>3. /\ Chosen(seq \o Append(s, e), S) = IF e \in S THEN Append(Chosen(seq \o s, S), e)
                                            ELSE Chosen(seq \o s, S)
        /\ Chosen(Append(s, e), S) = IF e \in S THEN Append(Chosen(s, S), e) ELSE Chosen(s, S)
    <3>. DEFINE joined == seq \o s
    <3>1. joined \in Seq(X) /\ seq \o Append(s, e) = Append(joined, e)
      BY <2>1, <2>2
    <3>. HIDE DEF joined
    <3>2. Chosen(Append(joined, e), S) = IF e \in S THEN Append(Chosen(joined, S), e)
                                         ELSE Chosen(joined, S)
      BY <2>0, <3>1, ChosenOfAppend
    <3>3. Chosen(Append(s, e), S) = IF e \in S THEN Append(Chosen(s, S), e) ELSE Chosen(s, S)
      BY <2>0, ChosenOfAppend
    <3>. QED BY <3>1, <3>2, <3>3 DEF joined
  <2>4. Chosen(seq, S) \in Seq(X) /\ Chosen(s, S) \in Seq(X)
    BY ChosenType
  <2>5. Append(Chosen(seq, S) \o Chosen(s, S), e) = Chosen(seq, S) \o Append(Chosen(s, S), e)
    <3>1. Append(Joined(Chosen(seq, S), Chosen(s, S)), e)
             = Joined(Chosen(seq, S), Append(Chosen(s, S), e))
      BY <2>0, <2>4, AppendToJoined
    <3>. QED BY <3>1 DEF Joined
  <2>. QED BY <1>2, <2>1, <2>3, <2>5
<1>. HIDE DEF T
<1>3. more \in T
  BY <1>1, <1>2, SeqSetInduction
<1>. QED BY <1>3 DEF T

LEMMA ChosenOfOne ==
    ASSUME NEW x, NEW S
    PROVE  Chosen(<<x>>, S) = IF x \in S THEN <<x>> ELSE << >>
<1>1. x \in {x} /\ << >> \in Seq({x}) /\ <<x>> = Append(<< >>, x)
  OBVIOUS
<1>2. Chosen(<< >>, S) = << >>
  BY <1>1, ChosenType
<1>3. Chosen(Append(<< >>, x), S)
         = IF x \in S THEN Append(Chosen(<< >>, S), x) ELSE Chosen(<< >>, S)
  BY <1>1, ChosenOfAppend
<1>. QED BY <1>1, <1>2, <1>3, Zenon

LEMMA ConcatOfShort ==
    ASSUME NEW x, NEW y
    PROVE  /\ << >> \o << >> = << >> /\ << >> \o <<x>> = <<x>> /\ <<x>> \o << >> = <<x>>
           /\ <<x>> \o <<y>> = <<x, y>> /\ <<x>> # << >> /\ <<x, y>> # << >>
<1>. DEFINE first == <<x>>
<1>1. /\ first \in Seq({x, y}) /\ << >> \in Seq({x, y}) /\ <<x, y>> = Append(first, y)
      /\ first # << >> /\ <<x, y>> # << >>
  OBVIOUS
<1>. HIDE DEF first
<1>2. << >> \o << >> = << >> /\ << >> \o first = first /\ first \o << >> = first
  BY <1>1, ConcatEmptySeq
<1>3. Append(first, y) = first \o <<y>>
  BY <1>1, AppendIsConcat
<1>. QED BY <1>1, <1>2, <1>3 DEF first

LEMMA ChosenOfTwo ==
    ASSUME NEW x, NEW y, NEW S
    PROVE  Chosen(<<x, y>>, S) = Chosen(<<x>>, S) \o Chosen(<<y>>, S)
<1>. DEFINE first == <<x>>
            second == <<y>>
<1>1. first \in Seq({x, y}) /\ second \in Seq({x, y})
  OBVIOUS
<1>2. <<x, y>> = first \o second
  BY ConcatOfShort
<1>. HIDE DEF first, second
<1>3. Chosen(first \o second, S) = Chosen(first, S) \o Chosen(second, S)
  BY <1>1, ChosenOfConcat
<1>. QED BY <1>2, <1>3, Zenon DEF first, second

\* What the first of a sequence adds.
LEMMA ChosenOfTail ==
    ASSUME NEW X, NEW seq \in Seq(X), seq # << >>, NEW S
    PROVE  /\ Head(seq) \notin S => Chosen(seq, S) = Chosen(Tail(seq), S)
           /\ Head(seq) \in S =>
                 /\ Chosen(seq, S) # << >>
                 /\ Head(Chosen(seq, S)) = Head(seq)
                 /\ Tail(Chosen(seq, S)) = Chosen(Tail(seq), S)
<1>. DEFINE first == <<Head(seq)>>
            tail == Tail(seq)
            rest == Chosen(tail, S)
<1>1. Head(seq) \in X /\ tail \in Seq(X) /\ first \in Seq(X) /\ seq = first \o tail
  BY HeadTailProperties, ConcatProperties
<1>2. Chosen(first, S) = IF Head(seq) \in S THEN first ELSE << >>
  BY ChosenOfOne
<1>. HIDE DEF first, tail
<1>3. Chosen(seq, S) = Chosen(first, S) \o rest /\ rest \in Seq(X)
  <2>1. Chosen(first \o tail, S) = Chosen(first, S) \o Chosen(tail, S)
    BY <1>1, ChosenOfConcat
  <2>2. Chosen(tail, S) \in Seq(X)
    BY <1>1, ChosenType
  <2>. QED BY <1>1, <2>1, <2>2, Zenon
<1>. HIDE DEF rest
<1>4. << >> \o rest = rest
  BY <1>3, ConcatEmptySeq
<1>5. first \o rest # << >> /\ Head(first \o rest) = Head(seq) /\ Tail(first \o rest) = rest
  BY <1>1, <1>3 DEF first
<1>. QED BY <1>2, <1>3, <1>4, <1>5 DEF rest, tail
=============================================================================
