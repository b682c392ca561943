------------------------------ MODULE ConfigProofs ------------------------------
(***************************************************************************)
(* Proofs about the start of the process: whatever the configuration files *)
(* and the extensions hold, what is started has the values that count for  *)
(* it, all of them valid, and what has errors is off.                      *)
(***************************************************************************)
EXTENDS App, SeqLemmas

-----------------------------------------------------------------------------
(* The last of a sequence that is in a set. *)

IsLastIn(seq, H, x) ==
    \E i \in 1 .. Len(seq) :
        /\ seq[i] = x /\ x \in H
        /\ \A j \in 1 .. Len(seq) : j > i => seq[j] \notin H

\* Nothing of it is.
AreOutOf(seq, H) == \A i \in 1 .. Len(seq) : seq[i] \notin H

LEMMA LastOfAppend ==
    ASSUME NEW X, NEW seq \in Seq(X), NEW e \in X, NEW H, NEW x
    PROVE  IsLastIn(Append(seq, e), H, x) <=> IF e \in H THEN x = e ELSE IsLastIn(seq, H, x)
<1>. DEFINE more == Append(seq, e)
            n == Len(seq)
<1>1. /\ Len(more) = n + 1 /\ n \in Nat /\ more[n + 1] = e
      /\ \A i \in 1 .. n : more[i] = seq[i]
  BY AppendProperties
<1>. HIDE DEF more, n
<1>2. 1 .. n + 1 = (1 .. n) \union {n + 1} /\ \A i \in 1 .. n : n + 1 > i /\ ~(i > n + 1)
  BY <1>1
<1>3. CASE e \in H
  <2>1. ASSUME IsLastIn(more, H, x) PROVE x = e
    <3>1. PICK i \in 1 .. n + 1 : more[i] = x /\ \A j \in 1 .. n + 1 : j > i => more[j] \notin H
      BY <1>1, <2>1 DEF IsLastIn
    <3>2. i = n + 1
      BY <1>1, <1>2, <1>3, <3>1
    <3>. QED BY <1>1, <3>1, <3>2
  <2>2. ASSUME x = e PROVE IsLastIn(more, H, x)
    <3>1. n + 1 \in 1 .. n + 1 /\ \A j \in 1 .. n + 1 : ~(j > n + 1)
      BY <1>1
    <3>. QED BY <1>1, <1>3, <2>2, <3>1 DEF IsLastIn
  <2>. QED BY <1>3, <2>1, <2>2 DEF more
<1>4. CASE e \notin H
  <2>1. ASSUME IsLastIn(more, H, x) PROVE IsLastIn(seq, H, x)
    <3>1. PICK i \in 1 .. n + 1 : /\ more[i] = x /\ x \in H
                                  /\ \A j \in 1 .. n + 1 : j > i => more[j] \notin H
      BY <1>1, <2>1 DEF IsLastIn
    <3>2. i \in 1 .. n
      BY <1>1, <1>2, <1>4, <3>1
    <3>3. \A j \in 1 .. n : j \in 1 .. n + 1
      BY <1>2
    <3>. QED BY <1>1, <3>1, <3>2, <3>3 DEF IsLastIn, n
  <2>2. ASSUME IsLastIn(seq, H, x) PROVE IsLastIn(more, H, x)
    <3>1. PICK i \in 1 .. n : /\ seq[i] = x /\ x \in H
                              /\ \A j \in 1 .. n : j > i => seq[j] \notin H
      BY <2>2 DEF IsLastIn, n
    <3>2. \A j \in 1 .. n + 1 : j > i => more[j] \notin H
      BY <1>1, <1>2, <1>4, <3>1
    <3>3. i \in 1 .. n + 1
      BY <1>2
    <3>. QED BY <1>1, <3>1, <3>2, <3>3 DEF IsLastIn
  <2>. QED BY <1>4, <2>1, <2>2 DEF more
<1>. QED BY <1>3, <1>4

LEMMA NoneLastInEmpty ==
    ASSUME NEW H, NEW x
    PROVE  ~IsLastIn(<< >>, H, x)
<1>1. Len(<< >>) = 0 /\ 1 .. 0 = {}
  OBVIOUS
<1>. QED BY <1>1 DEF IsLastIn

\* What is chosen has the same last one.
LEMMA LastOfChosen ==
    ASSUME NEW X, NEW seq \in Seq(X), NEW S, NEW H, NEW x
    PROVE  IsLastIn(Chosen(seq, S), H, x) <=> IsLastIn(seq, H \intersect S, x)
<1>. DEFINE J == H \intersect S
            T == {s \in Seq(X) : IsLastIn(Chosen(s, S), H, x) <=> IsLastIn(s, J, x)}
<1>1. << >> \in T
  <2>1. << >> \in Seq(X)
    OBVIOUS
  <2>2. Chosen(<< >>, S) = << >>
    BY <2>1, ChosenType
  <2>3. ~IsLastIn(<< >>, H, x) /\ ~IsLastIn(<< >>, J, x)
    BY NoneLastInEmpty
  <2>. QED BY <2>1, <2>2, <2>3
<1>2. ASSUME NEW s \in Seq(X), NEW e \in X, s \in T PROVE Append(s, e) \in T
  <2>. DEFINE c == Chosen(s, S)
              d == Chosen(Append(s, e), S)
  <2>1. c \in Seq(X) /\ d = (IF e \in S THEN Append(c, e) ELSE c)
    BY ChosenType, ChosenOfAppend
  <2>2. IsLastIn(c, H, x) <=> IsLastIn(s, J, x)
    BY <1>2
  <2>3. IsLastIn(Append(s, e), J, x) <=> IF e \in J THEN x = e ELSE IsLastIn(s, J, x)
    BY LastOfAppend
  <2>. HIDE DEF c, d
  <2>4. IsLastIn(Append(c, e), H, x) <=> IF e \in H THEN x = e ELSE IsLastIn(c, H, x)
    BY <2>1, LastOfAppend
  <2>5. IsLastIn(d, H, x) <=> IsLastIn(Append(s, e), J, x)
    <3>1. CASE e \in S
      BY <2>1, <2>2, <2>3, <2>4, <3>1
    <3>2. CASE e \notin S
      BY <2>1, <2>2, <2>3, <3>2
    <3>. QED BY <3>1, <3>2
  <2>6. Append(s, e) \in Seq(X)
    BY AppendProperties
  <2>. QED BY <2>5, <2>6 DEF d
<1>. HIDE DEF T
<1>3. seq \in T
  BY <1>1, <1>2, SeqSetInduction
<1>. QED BY <1>3 DEF T

LEMMA LastOfConcat ==
    ASSUME NEW X, NEW a \in Seq(X), NEW b \in Seq(X), NEW H, NEW x
    PROVE  IsLastIn(Joined(a, b), H, x)
              <=> IsLastIn(b, H, x) \/ (AreOutOf(b, H) /\ IsLastIn(a, H, x))
<1>. DEFINE c == Joined(a, b)
            n == Len(a)
            m == Len(b)
<1>1. /\ n \in Nat /\ m \in Nat /\ Len(c) = n + m
      /\ \A i \in 1 .. n + m : c[i] = IF i <= n THEN a[i] ELSE b[i - n]
  BY ConcatProperties DEF Joined
<1>. HIDE DEF c, n, m
<1>2. /\ \A i \in 1 .. n : i \in 1 .. n + m /\ c[i] = a[i]
      /\ \A i \in 1 .. m : n + i \in 1 .. n + m /\ c[n + i] = b[i]
      /\ \A i \in 1 .. n + m : i \in 1 .. n \/ (i - n \in 1 .. m /\ i = n + (i - n))
  BY <1>1
<1>3. ASSUME IsLastIn(b, H, x) PROVE IsLastIn(c, H, x)
  <2>1. PICK i \in 1 .. m : /\ b[i] = x /\ x \in H
                            /\ \A j \in 1 .. m : j > i => b[j] \notin H
    BY <1>3 DEF IsLastIn, m
  <2>2. ASSUME NEW j \in 1 .. n + m, j > n + i PROVE c[j] \notin H
    <3>1. j - n \in 1 .. m /\ j - n > i /\ c[j] = b[j - n]
      BY <1>1, <2>2
    <3>. QED BY <2>1, <3>1
  <2>3. n + i \in 1 .. n + m /\ c[n + i] = x
    BY <1>2, <2>1
  <2>. QED BY <1>1, <2>1, <2>2, <2>3 DEF IsLastIn
<1>4. ASSUME AreOutOf(b, H), IsLastIn(a, H, x) PROVE IsLastIn(c, H, x)
  <2>1. PICK i \in 1 .. n : /\ a[i] = x /\ x \in H
                            /\ \A j \in 1 .. n : j > i => a[j] \notin H
    BY <1>4 DEF IsLastIn, n
  <2>2. ASSUME NEW j \in 1 .. n + m, j > i PROVE c[j] \notin H
    <3>1. CASE j \in 1 .. n
      BY <1>2, <2>1, <2>2, <3>1
    <3>2. CASE j - n \in 1 .. m /\ j = n + (j - n)
      BY <1>2, <1>4, <3>2 DEF AreOutOf, m
    <3>. QED BY <1>2, <3>1, <3>2
  <2>. QED BY <1>1, <1>2, <2>1, <2>2 DEF IsLastIn
<1>5. ASSUME IsLastIn(c, H, x) PROVE IsLastIn(b, H, x) \/ (AreOutOf(b, H) /\ IsLastIn(a, H, x))
  <2>1. PICK k \in 1 .. n + m : /\ c[k] = x /\ x \in H
                                /\ \A j \in 1 .. n + m : j > k => c[j] \notin H
    BY <1>1, <1>5 DEF IsLastIn
  <2>2. CASE k \in 1 .. n
    <3>1. ASSUME NEW i \in 1 .. m PROVE b[i] \notin H
      <4>1. n + i > k
        BY <1>1, <2>2
      <4>. QED BY <1>2, <2>1, <4>1
    <3>2. \A j \in 1 .. n : j > k => a[j] \notin H
      BY <1>2, <2>1
    <3>. QED BY <1>2, <2>1, <2>2, <3>1, <3>2 DEF IsLastIn, AreOutOf, n, m
  <2>3. CASE k - n \in 1 .. m /\ k = n + (k - n)
    <3>1. ASSUME NEW j \in 1 .. m, j > k - n PROVE b[j] \notin H
      <4>1. n + j > k
        BY <1>1, <2>1, <3>1
      <4>. QED BY <1>2, <2>1, <4>1
    <3>2. b[k - n] = x
      BY <1>2, <2>1, <2>3
    <3>. QED BY <2>1, <2>3, <3>1, <3>2 DEF IsLastIn, m
  <2>. QED BY <1>2, <2>2, <2>3
<1>. QED BY <1>3, <1>4, <1>5 DEF c

LEMMA LastOfOne ==
    ASSUME NEW e, NEW H, NEW x
    PROVE  /\ IsLastIn(<<e>>, H, x) <=> e \in H /\ x = e
           /\ AreOutOf(<<e>>, H) <=> e \notin H
<1>. DEFINE one == <<e>>
<1>1. Len(one) = 1 /\ one[1] = e
  OBVIOUS
<1>. HIDE DEF one
<1>2. 1 .. 1 = {1} /\ ~(1 > 1)
  OBVIOUS
<1>. QED BY <1>1, <1>2 DEF IsLastIn, AreOutOf, one
\* Something is the last one, if anything is there.
LEMMA OutOrLast ==
    ASSUME NEW X, NEW seq \in Seq(X), NEW H
    PROVE  AreOutOf(seq, H) \/ \E x : IsLastIn(seq, H, x)
<1>. DEFINE T == {s \in Seq(X) : AreOutOf(s, H) \/ \E x : IsLastIn(s, H, x)}
<1>1. << >> \in T
  <2>1. << >> \in Seq(X) /\ Len(<< >>) = 0 /\ 1 .. 0 = {}
    OBVIOUS
  <2>2. AreOutOf(<< >>, H)
    BY <2>1 DEF AreOutOf
  <2>. QED BY <2>1, <2>2
<1>2. ASSUME NEW s \in Seq(X), NEW e \in X, s \in T PROVE Append(s, e) \in T
  <2>. DEFINE more == Append(s, e)
  <2>1. \A x : IsLastIn(more, H, x) <=> IF e \in H THEN x = e ELSE IsLastIn(s, H, x)
    BY LastOfAppend
  <2>2. /\ more \in Seq(X) /\ Len(more) = Len(s) + 1 /\ Len(s) \in Nat
        /\ more[Len(s) + 1] = e /\ \A i \in 1 .. Len(s) : more[i] = s[i]
    BY AppendProperties
  <2>. HIDE DEF more
  <2>3. CASE e \in H
    <3>1. IsLastIn(more, H, e)
      BY <2>1, <2>3
    <3>. QED BY <2>2, <3>1 DEF more
  <2>4. CASE e \notin H /\ AreOutOf(s, H)
    <3>1. AreOutOf(more, H)
      BY <2>2, <2>4 DEF AreOutOf
    <3>. QED BY <2>2, <3>1 DEF more
  <2>5. CASE e \notin H /\ ~AreOutOf(s, H)
    <3>1. PICK x : IsLastIn(s, H, x)
      BY <1>2, <2>5
    <3>2. IsLastIn(more, H, x)
      BY <2>1, <2>5, <3>1
    <3>. QED BY <2>2, <3>2 DEF more
  <2>. QED BY <2>3, <2>4, <2>5
<1>. HIDE DEF T
<1>3. seq \in T
  BY <1>1, <1>2, SeqSetInduction
<1>. QED BY <1>3 DEF T

-----------------------------------------------------------------------------
(* Which text counts. *)

\* The sources in X that have a text for the key.
Having(X, s, key) == {source \in X : s \in DOMAIN source /\ key \in DOMAIN source[s]}

LEMMA RawText ==
    ASSUME NEW X, NEW sources \in Seq(X), NEW s, NEW key \in DOMAIN RawSection(sources, s)
    PROVE  \E source : /\ IsLastIn(sources, Having(X, s, key), source)
                       /\ RawSection(sources, s)[key] = source[s][key]
<1>. DEFINE H == Having(X, s, key)
            Has(i) == s \in DOMAIN sources[i] /\ key \in DOMAIN sources[i][s]
            IsLastWith(i) == Has(i) /\ \A j \in i + 1 .. Len(sources) :
                                          s \in DOMAIN sources[j] => key \notin DOMAIN sources[j][s]
            last == LastWith(sources, s, key)
<1>1. Len(sources) \in Nat /\ DOMAIN sources = 1 .. Len(sources)
  BY LenProperties
<1>2. \A i \in 1 .. Len(sources) : sources[i] \in H <=> Has(i)
  <2>1. \A i \in 1 .. Len(sources) : sources[i] \in X
    OBVIOUS
  <2>. QED BY <2>1 DEF Having
<1>3. PICK i \in 1 .. Len(sources) : Has(i)
  <2>1. key \in UNION {IF s \in DOMAIN sources[i] THEN DOMAIN sources[i][s] ELSE {}
                          : i \in 1 .. Len(sources)}
    BY DEF RawSection
  <2>. QED BY <2>1
<1>4. PICK x : IsLastIn(sources, H, x)
  <2>1. ~AreOutOf(sources, H)
    BY <1>2, <1>3 DEF AreOutOf
  <2>. QED BY <2>1, OutOrLast
<1>5. \E k \in 1 .. Len(sources) : IsLastWith(k)
  <2>1. PICK k \in 1 .. Len(sources) :
           sources[k] \in H /\ \A j \in 1 .. Len(sources) : j > k => sources[j] \notin H
    BY <1>4 DEF IsLastIn
  <2>2. \A j \in k + 1 .. Len(sources) : j \in 1 .. Len(sources) /\ j > k
    BY <1>1
  <2>. QED BY <1>2, <2>1, <2>2
<1>6. last \in 1 .. Len(sources) /\ IsLastWith(last)
  BY <1>5, Zenon DEF LastWith
<1>7. \A j \in 1 .. Len(sources) : j > last => sources[j] \notin H
  <2>1. \A j \in 1 .. Len(sources) : j > last => j \in last + 1 .. Len(sources)
    BY <1>1, <1>6
  <2>. QED BY <1>2, <1>6, <2>1
<1>8. IsLastIn(sources, H, sources[last])
  BY <1>2, <1>6, <1>7 DEF IsLastIn
<1>9. RawSection(sources, s)[key] = sources[last][s][key]
  BY Zenon DEF RawSection
<1>. QED BY <1>8, <1>9
\* Of all the sources, in the terms of the property.
LEMMA TextCounts ==
    ASSUME setting \in Settings, NEW s, NEW key \in DOMAIN RawSection(AllSources, s)
    PROVE  TextOf(s, key, RawSection(AllSources, s)[key])
<1>. DEFINE files == setting.files
            over == setting.overrides
            own == [e \in Loaded(setting.flaws) |-> Extensions[e].defaults]
            X == {Defaults, own, over} \union Range(files)
            S == ToSet(files) \ {None}
            H == Having(X, s, key)
            one == <<Defaults>>
            two == <<own>>
            mid == Chosen(files, S)
            top == IF over = None THEN << >> ELSE <<over>>
            low == Joined(one, two)
            most == Joined(low, mid)
            Has(source) == s \in DOMAIN source /\ key \in DOMAIN source[s]
            text == RawSection(AllSources, s)[key]
            having == {i \in DOMAIN files : files[i] # None /\ Has(files[i])}
<1>1. files \in Seq(X)
  <2>1. files \in Seq(Range(files))
    BY SettingsAssumption
  <2>2. Range(files) \subseteq X
    OBVIOUS
  <2>. HIDE DEF X, files
  <2>. QED BY <2>1, <2>2, SeqMonotonic
<1>2. /\ one \in Seq(X) /\ two \in Seq(X) /\ top \in Seq(X) /\ Len(files) \in Nat
      /\ DOMAIN files = 1 .. Len(files) /\ \A i \in 1 .. Len(files) : files[i] \in X
  <2>1. {Defaults, own, over} \subseteq X
    OBVIOUS
  <2>. HIDE DEF X, files, own, over
  <2>. QED BY <1>1, <2>1
<1>3. mid \in Seq(X)
  <2>. HIDE DEF X, S, files
  <2>. QED BY <1>1, ChosenType
<1>4. AllSources = Joined(most, top)
  <2>1. <<Defaults, own>> = low
    BY ConcatOfShort DEF Joined
  <2>2. AllSources = <<Defaults, own>> \o mid \o top
    BY DEF AllSources, Sources
  <2>. HIDE DEF low, mid, top, own
  <2>3. AllSources = Joined(Joined(<<Defaults, own>>, mid), top)
    BY <2>2 DEF Joined
  <2>. QED BY <2>1, <2>3
<1>5. \A source \in X : source \in H <=> Has(source)
  <2>. HIDE DEF X
  <2>. QED BY DEF Having
<1>6. Defaults \in X /\ own \in X /\ over \in X
  OBVIOUS
<1>7. \A i \in 1 .. Len(files) : files[i] \in S <=> files[i] # None
  BY <1>2 DEF ToSet
<1>. HIDE DEF X, S, H, one, two, mid, top, files
<1>8. low \in Seq(X) /\ most \in Seq(X) /\ Joined(most, top) \in Seq(X)
  BY <1>2, <1>3, ConcatProperties DEF Joined
<1>. HIDE DEF low, most
<1>9. PICK x : IsLastIn(AllSources, H, x) /\ text = x[s][key]
  BY <1>4, <1>8, RawText DEF H
<1>. HIDE DEF text
<1>10. IsLastIn(top, H, x) \/ (AreOutOf(top, H) /\ IsLastIn(most, H, x))
  BY <1>2, <1>4, <1>8, <1>9, LastOfConcat
<1>11. CASE IsLastIn(top, H, x)
  <2>1. over # None
    BY <1>11, NoneLastInEmpty DEF top
  <2>2. x = over /\ over \in H
    BY <1>11, <2>1, LastOfOne DEF top
  <2>. QED BY <1>5, <1>6, <1>9, <2>1, <2>2 DEF TextOf, text
<1>12. CASE AreOutOf(top, H) /\ IsLastIn(most, H, x)
  <2>1. ~(over # None /\ Has(over))
    BY <1>5, <1>6, <1>12, LastOfOne DEF top
  <2>2. IsLastIn(mid, H, x) \/ (AreOutOf(mid, H) /\ IsLastIn(low, H, x))
    BY <1>3, <1>8, <1>12, LastOfConcat DEF most
  <2>3. \A y : IsLastIn(mid, H, y) <=> IsLastIn(files, H \intersect S, y)
    BY <1>1, LastOfChosen DEF mid
  <2>4. \A i \in 1 .. Len(files) : files[i] \in H \intersect S <=> i \in having
    BY <1>2, <1>5, <1>7
  <2>5. CASE IsLastIn(mid, H, x)
    <3>1. PICK i \in 1 .. Len(files) :
             /\ files[i] = x /\ x \in H \intersect S
             /\ \A j \in 1 .. Len(files) : j > i => files[j] \notin H \intersect S
      BY <2>3, <2>5 DEF IsLastIn
    <3>2. i \in having /\ files[i][s][key] = text
      BY <1>9, <2>4, <3>1
    <3>3. \A j \in having : j <= i
      <4>1. having \subseteq 1 .. Len(files) /\ i \in Int
        BY <1>2
      <4>2. \A j \in 1 .. Len(files) : j > i => j \notin having
        BY <2>4, <3>1
      <4>. QED BY <4>1, <4>2
    <3>4. having # {}
      BY <3>2
    <3>. QED BY <2>1, <3>2, <3>3, <3>4 DEF TextOf, text, files
  <2>6. CASE AreOutOf(mid, H) /\ IsLastIn(low, H, x)
    <3>1. having = {}
      <4>1. \A y : ~IsLastIn(mid, H, y)
        BY <2>6 DEF AreOutOf, IsLastIn
      <4>2. AreOutOf(files, H \intersect S)
        BY <1>1, <2>3, <4>1, OutOrLast
      <4>3. having \subseteq 1 .. Len(files)
        BY <1>2
      <4>. QED BY <2>4, <4>2, <4>3 DEF AreOutOf
    <3>2. IsLastIn(two, H, x) \/ IsLastIn(one, H, x)
      BY <1>2, <2>6, LastOfConcat DEF low
    <3>3. CASE IsLastIn(two, H, x)
      <4>1. x = own /\ Has(own)
        BY <1>5, <1>6, <3>3, LastOfOne DEF two
      <4>2. s \in DOMAIN Extensions /\ own[s] = Extensions[s].defaults
        BY <4>1 DEF Loaded
      <4>3. s \notin DOMAIN Defaults
        BY <4>2, ExtensionsAssumption
      <4>. QED BY <1>9, <2>1, <3>1, <4>1, <4>2, <4>3 DEF TextOf, text, files
    <3>4. CASE IsLastIn(one, H, x)
      <4>1. x = Defaults /\ Has(Defaults)
        BY <1>5, <1>6, <3>4, LastOfOne DEF one
      <4>. QED BY <1>9, <2>1, <3>1, <4>1 DEF TextOf, text, files
    <3>. QED BY <3>2, <3>3, <3>4
  <2>. QED BY <2>2, <2>5, <2>6
<1>. QED BY <1>10, <1>11, <1>12

-----------------------------------------------------------------------------
(* What the launcher makes of it. *)

\* What the process goes on with, if it does not end.
IsConfigured ==
    LET config == Validate(AllSchemas, AllSources)
        errors == Errors(AllSchemas, AllSources)
        statuses == ExtensionStatuses(setting.flaws, config, errors)
    IN  /\ conf = [config |-> Disable(config, statuses), statuses |-> statuses,
                   errors |-> errors]
        /\ ~Exits(statuses, errors)

\* A section without errors has valid values for texts of its own.
LEMMA NoErrorsAreValid ==
    ASSUME NEW schema, NEW raw, KeyErrors(schema, raw) = {},
           NEW key \in DOMAIN Validated(schema, raw)
    PROVE  /\ key \in DOMAIN raw
           /\ Validated(schema, raw)[key] = Deserialize(TypeOf(schema, key), raw[key])
           /\ Validated(schema, raw)[key] # Invalid
<1>1. key \in Keys(schema, raw) /\ ~IsDeprecated(schema, key)
  BY DEF Validated
<1>2. key \notin KeyErrors(schema, raw)
  OBVIOUS
<1>3. key \in DOMAIN raw /\ Deserialize(TypeOf(schema, key), raw[key]) # Invalid
  BY <1>1, <1>2, Zenon DEF KeyErrors
<1>4. Validated(schema, raw)[key] = Deserialize(TypeOf(schema, key), raw[key])
  BY <1>1, <1>2, Zenon DEF Validated
<1>. QED BY <1>3, <1>4

LEMMA ConfiguredFacts ==
    ASSUME IsConfigured
    PROVE  /\ DOMAIN conf.config = DOMAIN AllSchemas
           /\ DOMAIN conf.statuses = DOMAIN Extensions
           /\ DOMAIN AllSchemas = DOMAIN AppSchemas \union Loaded(setting.flaws)
           /\ \A s \in DOMAIN AllSchemas : conf.errors[s] = KeyErrors(AllSchemas[s], RawSection(AllSources, s))
           /\ \A s \in DOMAIN AllSchemas :
                 s \notin DOMAIN Extensions \ Enabled(conf.statuses)
                    => conf.config[s] = Validated(AllSchemas[s], RawSection(AllSources, s))
           /\ \A e \in DOMAIN Extensions :
                 IsEnabled(e) => /\ e \in Loaded(setting.flaws) /\ conf.errors[e] = {}
                                 /\ setting.flaws[e] # "environment"
<1>. DEFINE config == Validate(AllSchemas, AllSources)
            errors == Errors(AllSchemas, AllSources)
            statuses == ExtensionStatuses(setting.flaws, config, errors)
<1>1. /\ conf.config = Disable(config, statuses) /\ conf.statuses = statuses
      /\ conf.errors = errors
  BY DEF IsConfigured
<1>2. /\ DOMAIN config = DOMAIN AllSchemas /\ DOMAIN errors = DOMAIN AllSchemas
      /\ \A s \in DOMAIN AllSchemas :
            /\ config[s] = Validated(AllSchemas[s], RawSection(AllSources, s))
            /\ errors[s] = KeyErrors(AllSchemas[s], RawSection(AllSources, s))
  BY DEF Validate, Errors
<1>3. DOMAIN AllSchemas = DOMAIN AppSchemas \union Loaded(setting.flaws)
  BY DEF AllSchemas, Schemas
<1>. HIDE DEF config, errors
<1>4. DOMAIN statuses = DOMAIN Extensions
  BY DEF ExtensionStatuses
<1>5. ASSUME NEW e \in DOMAIN Extensions, IsEnabled(e)
      PROVE  e \in Loaded(setting.flaws) /\ errors[e] = {} /\ setting.flaws[e] # "environment"
  <2>1. statuses[e] = "enabled"
    BY <1>1, <1>5 DEF IsEnabled, Enabled
  <2>2. statuses[e] = IF e \in Loaded(setting.flaws)
                      THEN Status(setting.flaws[e], config[e], errors[e])
                      ELSE "stopped_by_load_error"
    BY DEF ExtensionStatuses
  <2>. HIDE DEF statuses
  <2>3. e \in Loaded(setting.flaws) /\ Status(setting.flaws[e], config[e], errors[e]) = "enabled"
    BY <2>1, <2>2
  <2>. QED BY <2>3 DEF Status
<1>. HIDE DEF statuses
<1>6. /\ DOMAIN conf.config = DOMAIN config
      /\ \A s \in DOMAIN config :
            s \notin DOMAIN statuses \ Enabled(statuses) => conf.config[s] = config[s]
  BY <1>1 DEF Disable
<1>. QED BY <1>1, <1>2, <1>3, <1>4, <1>5, <1>6
\* What is on has values that are valid and count, and what is not has FALSE
\* for `enabled`.
LEMMA ConfiguredIsSound ==
    ASSUME setting \in Settings, IsConfigured
    PROVE  /\ \A s \in DOMAIN AppSchemas \union Enabled(conf.statuses) :
                /\ conf.errors[s] = {}
                /\ \A key \in DOMAIN conf.config[s] :
                      \E text \in {RawSection(AllSources, s)[key]} :
                          /\ TextOf(s, key, text)
                          /\ conf.config[s][key] = Deserialize(TypeOf(AllSchemas[s], key), text)
                          /\ conf.config[s][key] # Invalid
           /\ \A e \in DOMAIN Extensions :
                 IF IsEnabled(e) THEN setting.flaws[e] = "none"
                 ELSE e \in DOMAIN conf.config => conf.config[e]["enabled"] = Bool(FALSE)
<1>1. ASSUME NEW s \in DOMAIN AppSchemas \union Enabled(conf.statuses)
      PROVE  /\ s \in DOMAIN AllSchemas /\ conf.errors[s] = {}
             /\ s \notin DOMAIN Extensions \ Enabled(conf.statuses)
  <2>1. CASE s \in Enabled(conf.statuses)
    <3>1. s \in DOMAIN Extensions /\ IsEnabled(s)
      BY <2>1, ConfiguredFacts DEF Enabled, IsEnabled
    <3>. QED BY <2>1, <3>1, ConfiguredFacts
  <2>2. CASE s \in DOMAIN AppSchemas
    <3>1. s \notin DOMAIN Extensions
      BY <2>2, ExtensionsAssumption
    <3>2. conf.errors[s] = {}
      BY <2>2 DEF IsConfigured, Exits
    <3>. QED BY <2>2, <3>1, <3>2, ConfiguredFacts
  <2>. QED BY <2>1, <2>2
<1>2. ASSUME NEW s \in DOMAIN AppSchemas \union Enabled(conf.statuses),
             NEW key \in DOMAIN conf.config[s]
      PROVE  \E text \in {RawSection(AllSources, s)[key]} :
                /\ TextOf(s, key, text)
                /\ conf.config[s][key] = Deserialize(TypeOf(AllSchemas[s], key), text)
                /\ conf.config[s][key] # Invalid
  <2>. DEFINE schema == AllSchemas[s]
              raw == RawSection(AllSources, s)
  <2>1. KeyErrors(schema, raw) = {} /\ conf.config[s] = Validated(schema, raw)
    BY <1>1, ConfiguredFacts
  <2>. HIDE DEF schema, raw
  <2>2. /\ key \in DOMAIN raw /\ conf.config[s][key] = Deserialize(TypeOf(schema, key), raw[key])
        /\ conf.config[s][key] # Invalid
    BY <2>1, NoErrorsAreValid
  <2>3. TextOf(s, key, raw[key])
    BY <2>2, TextCounts DEF raw
  <2>. QED BY <2>2, <2>3 DEF raw, schema
<1>3. ASSUME NEW e \in DOMAIN Extensions, IsEnabled(e)
      PROVE  setting.flaws[e] = "none"
  <2>1. e \in Loaded(setting.flaws) /\ setting.flaws[e] # "environment"
    BY <1>3, ConfiguredFacts
  <2>2. setting.flaws[e] \notin LoadFlaws /\ setting.flaws[e] \in Flaws
    BY <2>1, SettingsAssumption DEF Loaded, Range
  <2>. QED BY <2>1, <2>2 DEF Flaws
<1>4. ASSUME NEW e \in DOMAIN Extensions, ~IsEnabled(e), e \in DOMAIN conf.config
      PROVE  conf.config[e]["enabled"] = Bool(FALSE)
  <2>. DEFINE config == Validate(AllSchemas, AllSources)
              statuses == conf.statuses
              schema == AllSchemas[e]
              raw == RawSection(AllSources, e)
  <2>1. e \in DOMAIN AllSchemas /\ e \in DOMAIN statuses \ Enabled(statuses)
    BY <1>4, ConfiguredFacts DEF IsEnabled
  <2>2. conf.config = Disable(config, statuses)
    BY DEF IsConfigured
  <2>3. DOMAIN config = DOMAIN AllSchemas /\ config[e] = Validated(schema, raw)
    BY <2>1 DEF Validate
  <2>. HIDE DEF config, statuses
  <2>4. conf.config[e] = [config[e] EXCEPT !["enabled"] = Bool(FALSE)]
    BY <2>1, <2>2, <2>3 DEF Disable
  <2>5. schema = Extensions[e].schema
    BY <1>4, <2>1, ExtensionsAssumption DEF AllSchemas, Schemas
  <2>. HIDE DEF schema, raw
  <2>6. "enabled" \in DOMAIN Validated(schema, raw)
    <3>1. "enabled" \in Keys(schema, raw) /\ ~IsDeprecated(schema, "enabled")
      BY <2>5, ExtensionsAssumption DEF Keys, IsDeprecated, TypeOf
    <3>. QED BY <3>1 DEF Validated
  <2>7. \E f, D : Validated(schema, raw) = [key \in D |-> f[key]]
    BY DEF Validated
  <2>. QED BY <2>3, <2>4, <2>6
<1>. QED BY <1>1, <1>2, <1>3, <1>4

-----------------------------------------------------------------------------
(* Nobody of an extension that is off is started. *)

OnlyEnabled ==
    \A e \in DOMAIN Extensions \intersect Actors : status[e] = "none" \/ IsEnabled(e)

ConfInv ==
    /\ setting \in Settings
    /\ "at" \in DOMAIN main
    /\ DOMAIN status = Actors
    /\ main.at = "config" => \A a \in Actors : status[a] = "none"
    /\ main.at = "mixer" => IsConfigured
    /\ OnlyEnabled

LEMMA InitGivesConfInv == Init => ConfInv
BY DEF Init, ConfInv, OnlyEnabled, ActorsInit, ServerInit

\* Who is not started is not started by an actor.
SomeStatus(s) ==
    /\ DOMAIN s = Actors
    /\ \A a \in Actors : status[a] = "none" => s[a] = "none"

\* A step that leaves the configuration and starts nobody.
LEMMA SameConf ==
    ASSUME ConfInv, UNCHANGED appVars, "at" \in DOMAIN main', SomeStatus(status'),
           main'.at = "config" => main.at = "config",
           main'.at = "mixer" => main.at = "mixer"
    PROVE  ConfInv'
<1>1. IsConfigured' = IsConfigured
  BY DEF IsConfigured, AllSchemas, AllSources, appVars
<1>2. OnlyEnabled'
  BY DEF ConfInv, OnlyEnabled, SomeStatus, IsEnabled, appVars
<1>. QED BY <1>1, <1>2 DEF ConfInv, SomeStatus, appVars

\* Where the main thread goes.
LEMMA GoesTo ==
    ASSUME ConfInv, NEW at
    PROVE  "at" \in DOMAIN Go(at) /\ Go(at).at = at
BY DEF ConfInv, Go

\* The status of one that is there.
LEMMA OneStatus ==
    ASSUME ConfInv, NEW a \in Actors, status[a] # "none", NEW s
    PROVE  SomeStatus([status EXCEPT ![a] = s])
BY DEF ConfInv, SomeStatus

LEMMA AnyStatus ==
    ASSUME ConfInv
    PROVE  SomeStatus(status)
BY DEF ConfInv, SomeStatus

LEMMA StoppedStatus ==
    ASSUME ConfInv, NEW a \in Actors, NEW type, Handles(a, type), Stops(a)
    PROVE  SomeStatus(status')
BY OneStatus DEF Handles, Stops

LEMMA ConfigureKeeps ==
    ASSUME ConfInv, Configure
    PROVE  ConfInv'
<1>1. main.at = "config" /\ UNCHANGED <<status, setting>>
  BY DEF Configure, actorVars
<1>2. main' = Go("ended") \/ (main' = Go("mixer") /\ IsConfigured')
  <2>. DEFINE config == Validate(AllSchemas, AllSources)
              errors == Errors(AllSchemas, AllSources)
              statuses == ExtensionStatuses(setting.flaws, config, errors)
  <2>1. /\ conf' = [config |-> Disable(config, statuses), statuses |-> statuses,
                    errors |-> errors]
        /\ main' = IF Exits(statuses, errors) \/ ~FindsMixer(config, statuses)
                   THEN Go("ended") ELSE Go("mixer")
    BY DEF Configure
  <2>2. AllSchemas' = AllSchemas /\ AllSources' = AllSources
    BY <1>1 DEF AllSchemas, AllSources
  <2>3. CASE main' = Go("ended")
    BY <2>3
  <2>4. CASE main' # Go("ended")
    <3>1. ~Exits(statuses, errors) /\ main' = Go("mixer")
      BY <2>1, <2>4
    <3>2. IsConfigured'
      BY <1>1, <2>1, <2>2, <3>1 DEF IsConfigured
    <3>. QED BY <3>1, <3>2
  <2>. QED BY <2>3, <2>4
<1>3. "at" \in DOMAIN main' /\ main'.at \in {"ended", "mixer"} /\ (main'.at = "mixer" => IsConfigured')
  BY <1>2, GoesTo
<1>4. OnlyEnabled'
  BY <1>1 DEF ConfInv, OnlyEnabled
<1>. QED BY <1>1, <1>3, <1>4 DEF ConfInv
\* A step of the main thread that starts who is on, or who is of no extension.
LEMMA StartsSome ==
    ASSUME ConfInv, UNCHANGED appVars, NEW at, at \notin {"config", "mixer"},
           "at" \in DOMAIN main', main'.at = at, DOMAIN status' = Actors,
           \A e \in DOMAIN Extensions \intersect Actors :
              status'[e] = status[e] \/ IsEnabled(e)
    PROVE  ConfInv'
<1>1. OnlyEnabled'
  BY DEF ConfInv, OnlyEnabled, IsEnabled, appVars
<1>. QED BY <1>1 DEF ConfInv, appVars

LEMMA MainStartsKeeps ==
    ASSUME ConfInv, MainStarts
    PROVE  ConfInv'
<1>. USE DEF MainStarts
<1>0. UNCHANGED appVars
  OBVIOUS
<1>1. \A e \in DOMAIN Extensions : e \notin {"mixer", "audio", "core"}
  BY SettingsAssumption
<1>2. DOMAIN status = Actors
  BY DEF ConfInv
<1>3. CASE StartMixer(HasMixer, conf.config["audio"]["mixer_volume"], setting.fails)
  <2>1. /\ \E m, f : main' = [Go("audio") EXCEPT !.mixer = m, !.failed = f]
        /\ \E s : status' = [status EXCEPT !["mixer"] = s]
    BY <1>3, Zenon DEF StartMixer
  <2>2. "at" \in DOMAIN main' /\ main'.at = "audio"
    BY <2>1, GoesTo
  <2>. QED BY <1>0, <1>1, <1>2, <2>1, <2>2, StartsSome
<1>4. CASE StartAudio
  <2>1. "at" \in DOMAIN main' /\ main'.at = "backends"
    BY <1>4, GoesTo DEF StartAudio
  <2>. QED BY <1>0, <1>1, <1>2, <1>4, <2>1, StartsSome DEF StartAudio
<1>5. CASE StartBackends(Enabled(conf.statuses) \intersect Backends, setting.fails, setting.dies)
  <2>1. /\ \E b, f : main' = [Go("core") EXCEPT !.backends = b, !.failed = f]
        /\ DOMAIN status' = Actors
        /\ \A a \in Actors : a \notin Enabled(conf.statuses) => status'[a] = status[a]
    BY <1>5 DEF StartBackends
  <2>2. "at" \in DOMAIN main' /\ main'.at = "core"
    BY <2>1, GoesTo
  <2>. QED BY <1>0, <2>1, <2>2, StartsSome DEF IsEnabled
<1>6. CASE StartCore(setting.schemes)
  <2>1. /\ main' = Go("stop_frontends") \/ main' = Go("setup")
        /\ status' = status \/ \E s : status' = [status EXCEPT !["core"] = s]
    BY <1>6 DEF StartCore, actorVars
  <2>2. "at" \in DOMAIN main' /\ main'.at \in {"stop_frontends", "setup"}
    BY <2>1, GoesTo
  <2>. QED BY <1>0, <1>1, <1>2, <2>1, <2>2, StartsSome
<1>7. CASE CoreSetUp
  <2>1. (\E c : main' = [Go("frontends") EXCEPT !.core = c]) /\ status' = status
    BY <1>7 DEF CoreSetUp
  <2>2. "at" \in DOMAIN main' /\ main'.at = "frontends"
    BY <2>1, GoesTo
  <2>. QED BY <1>0, <1>2, <2>1, <2>2, StartsSome
<1>8. CASE StartFrontends(IsEnabled("http"), setting.fails)
  <2>1. /\ \E f : main' = [Go("loop") EXCEPT !.failed = f]
        /\ \E s : status' = [status EXCEPT !["http"] = IF IsEnabled("http") THEN s ELSE @]
    BY <1>8 DEF StartFrontends
  <2>2. "at" \in DOMAIN main' /\ main'.at = "loop"
    BY <2>1, GoesTo
  <2>3. DOMAIN status' = Actors /\ \A a \in Actors : status'[a] = status[a] \/ IsEnabled(a)
    BY <1>2, <2>1
  <2>. QED BY <1>0, <2>2, <2>3, StartsSome
<1>. QED BY <1>3, <1>4, <1>5, <1>6, <1>7, <1>8

LEMMA MainStopsKeeps ==
    ASSUME ConfInv, MainStops, UNCHANGED appVars
    PROVE  ConfInv'
<1>1. ASSUME NEW actors, NEW next, next \notin {"config", "mixer"}, StopActors(actors, next)
      PROVE  /\ status' = status /\ "at" \in DOMAIN main'
             /\ main'.at \in {main.at, next}
  <2>1. (\E asked : main' = [main EXCEPT !.asked = asked]) \/ main' = Go(next)
    BY <1>1 DEF StopActors
  <2>2. status' = status
    BY <1>1 DEF StopActors
  <2>. QED BY <2>1, <2>2, GoesTo DEF ConfInv
<1>2. ASSUME Teardown
      PROVE  /\ status' = status /\ "at" \in DOMAIN main'
             /\ main'.at \in {main.at, "stop_core"}
  <2>1. (\E asked : main' = [main EXCEPT !.asked = asked]) \/ main' = Go("stop_core")
    BY <1>2 DEF Teardown
  <2>2. status' = status
    BY <1>2 DEF Teardown
  <2>. QED BY <2>1, <2>2, GoesTo DEF ConfInv
<1>3. /\ status' = status /\ "at" \in DOMAIN main'
      /\ main'.at = main.at \/ main'.at \notin {"config", "mixer"}
  <2>1. CASE StopFrontends
    BY <1>1, <2>1 DEF StopFrontends
  <2>2. CASE Teardown
    BY <1>2, <2>2
  <2>3. CASE StopCore
    BY <1>1, <2>3 DEF StopCore
  <2>4. CASE StopBackends
    BY <1>1, <2>4 DEF StopBackends
  <2>5. CASE StopAudio
    BY <1>1, <2>5 DEF StopAudio
  <2>6. CASE StopMixer
    BY <1>1, <2>6 DEF StopMixer
  <2>7. CASE StopRemaining
    BY <1>1, <2>7 DEF StopRemaining
  <2>. QED BY <2>1, <2>2, <2>3, <2>4, <2>5, <2>6, <2>7 DEF MainStops
<1>. QED BY <1>3, AnyStatus, SameConf

\* An interrupt.
LEMMA InterruptedAt ==
    ASSUME ConfInv
    PROVE  /\ "at" \in DOMAIN Interrupted
           /\ Interrupted.at = main.at \/ Interrupted.at \notin {"config", "mixer"}
<1>1. \/ Interrupted = main \/ Interrupted = Go("ended") \/ Interrupted = Go("stop_frontends")
      \/ Interrupted = Go("aborted")
  BY DEF Interrupted
<1>. QED BY <1>1, GoesTo DEF ConfInv

LEMMA SignalsKeep ==
    ASSUME ConfInv, Signals, UNCHANGED appVars
    PROVE  ConfInv'
<1>1. CASE Interrupt
  <2>1. main' = Interrupted /\ status' = status
    BY <1>1 DEF Interrupt
  <2>. QED BY <2>1, InterruptedAt, AnyStatus, SameConf
<1>2. CASE Terminate
  <2>1. main' = Go("stop_frontends") /\ status' = status
    BY <1>2 DEF Terminate, actorVars
  <2>. QED BY <2>1, GoesTo, AnyStatus, SameConf
<1>. QED BY <1>1, <1>2 DEF Signals

LEMMA ActorsKeep ==
    ASSUME ConfInv, AudioThread \/ MixerThread \/ CoreThread \/ BackendThread \/ HttpThread
    PROVE  ConfInv'
<1>1. UNCHANGED appVars
  BY DEF AudioThread, MixerThread, CoreThread, BackendThread, HttpThread
<1>2. {"mixer", "audio", "core", "http"} \union Backends \subseteq Actors
  BY DEF Actors
<1>3. ASSUME AudioThread
      PROVE  /\ SomeStatus(status') /\ "at" \in DOMAIN main'
             /\ main'.at = main.at \/ main'.at \notin {"config", "mixer"}
  <2>1. CASE AudioFails
    <3>1. /\ status["audio"] = "starting" /\ main' = Interrupted
          /\ status' = [status EXCEPT !["audio"] = "running"]
      BY <2>1 DEF AudioFails
    <3>. QED BY <1>2, <3>1, OneStatus, InterruptedAt
  <2>2. CASE AudioStartsWell
    <3>1. /\ status["audio"] = "starting" /\ main' = main
          /\ status' = [status EXCEPT !["audio"] = "running"]
      BY <2>2 DEF AudioStartsWell, AudioStarts, serverVars
    <3>. QED BY <1>2, <3>1, OneStatus DEF ConfInv
  <2>3. CASE AudioActs(main.mixer) /\ UNCHANGED serverVars
    <3>1. main' = main
      BY <2>3 DEF serverVars
    <3>2. status' = status \/ (Handles("audio", "stop") /\ Stops("audio"))
      BY <2>3 DEF AudioActs, AudioSets, AudioGets, AudioSetsUri, AudioStops
    <3>. QED BY <1>2, <3>1, <3>2, AnyStatus, StoppedStatus DEF ConfInv
  <2>. QED BY <1>3, <2>1, <2>2, <2>3 DEF AudioThread
<1>4. ASSUME MixerThread PROVE SomeStatus(status') /\ main' = main
  <2>1. status' = status \/ (Handles("mixer", "stop") /\ Stops("mixer"))
    BY <1>4 DEF MixerThread, MixerActs, MixerSetup, MixerSet, MixerGet, MixerGets, MixerTells,
                MixerTeardown, MixerStops
  <2>2. main' = main
    BY <1>4 DEF MixerThread, serverVars
  <2>. QED BY <1>2, <2>1, <2>2, AnyStatus, StoppedStatus
<1>5. ASSUME CoreThread PROVE SomeStatus(status') /\ main' = main
  <2>1. status' = status \/ (Handles("core", "stop") /\ Stops("core"))
    BY <1>5 DEF CoreThread, CoreActs, CoreLoads, CoreAsks, CoreGets, CoreFinishes, CoreRefuses,
                CoreForwards, CoreStops, actorVars
  <2>2. main' = main
    BY <1>5 DEF CoreThread, serverVars
  <2>. QED BY <1>2, <2>1, <2>2, AnyStatus, StoppedStatus
<1>6. ASSUME BackendThread PROVE SomeStatus(status') /\ main' = main
  <2>1. PICK b \in Backends : BackendStops(b)
    BY <1>6 DEF BackendThread
  <2>2. Handles(b, "stop") /\ Stops(b) /\ main' = main
    BY <2>1 DEF BackendStops, serverVars
  <2>. QED BY <1>2, <2>2, StoppedStatus
<1>7. ASSUME HttpThread PROVE SomeStatus(status') /\ main' = main
  <2>1. main' = main
    BY <1>7 DEF HttpThread, serverVars
  <2>2. CASE HttpStarts
    BY <1>2, <2>1, <2>2, OneStatus DEF HttpStarts
  <2>3. CASE HttpHearsEvent
    BY <2>1, <2>3, AnyStatus DEF HttpHearsEvent
  <2>4. CASE HttpStops
    BY <1>2, <2>1, <2>4, StoppedStatus DEF HttpStops
  <2>. QED BY <1>7, <2>2, <2>3, <2>4 DEF HttpThread, HttpActs
<1>8. /\ SomeStatus(status') /\ "at" \in DOMAIN main'
      /\ main'.at = main.at \/ main'.at \notin {"config", "mixer"}
  BY <1>3, <1>4, <1>5, <1>6, <1>7 DEF ConfInv
<1>. QED BY <1>1, <1>8, SameConf

\* The web server, its clients, and a process that is over.
LEMMA WebKeeps ==
    ASSUME ConfInv, WebThread \/ ClientsAct \/ Over \/ UNCHANGED vars
    PROVE  ConfInv'
<1>1. UNCHANGED <<main, appVars>>
  BY DEF WebThread, ClientsAct, Over, vars, serverVars
<1>2. status' = status
  <2>1. CASE WebThread
    BY <2>1 DEF WebThread, WebActs, WebServes, WebCallsBack, WebRefuses, WebAsks, WebGets,
                WebBreaks, WebReplies, actorVars
  <2>2. CASE ClientsAct
    BY <2>2 DEF ClientsAct, ClientActs, WebOpens, WebCloses, WebReceives, WebGetsPost, actorVars
  <2>. QED BY <2>1, <2>2 DEF Over, vars, actorVars
<1>. QED BY <1>1, <1>2, AnyStatus, SameConf DEF ConfInv

LEMMA NextKeepsConfInv ==
    ASSUME ConfInv, [Next]_vars
    PROVE  ConfInv'
<1>1. CASE Configure
  BY <1>1, ConfigureKeeps
<1>2. CASE MainActs
  BY <1>2, MainStartsKeeps, MainStopsKeeps DEF MainActs
<1>3. CASE Signals /\ UNCHANGED <<mixerVars, coreVars, httpVars, appVars>>
  BY <1>3, SignalsKeep
<1>4. CASE AudioThread \/ MixerThread \/ CoreThread \/ BackendThread \/ HttpThread
  BY <1>4, ActorsKeep
<1>5. CASE WebThread \/ ClientsAct \/ Over \/ UNCHANGED vars
  BY <1>5, WebKeeps
<1>. QED BY <1>1, <1>2, <1>3, <1>4, <1>5 DEF Next

(***************************************************************************)
(* For any configuration files, command line, extensions and flaws of them:*)
(* what the server starts with is valid, comes from the text that counts,  *)
(* and no actor of an extension that is off is ever started                *)
(* (_app/cli.py, _app/config.py, _app/extensions.py, _commands/server.py). *)
(***************************************************************************)
THEOREM AppSetUpIsSound == Spec => []SetUpIsSound
<1>1. ConfInv => SetUpIsSound
  <2>. SUFFICES ASSUME ConfInv PROVE SetUpIsSound
    OBVIOUS
  <2>1. ASSUME main.at = "mixer"
        PROVE  IsConfigured /\ setting \in Settings
    BY <2>1 DEF ConfInv
  <2>2. \A e \in DOMAIN Extensions \intersect Actors : ~IsEnabled(e) => status[e] = "none"
    BY DEF ConfInv, OnlyEnabled
  <2>. QED BY <2>1, <2>2, ConfiguredIsSound DEF SetUpIsSound
<1>2. ConfInv /\ [Next]_vars => ConfInv'
  BY NextKeepsConfInv
<1>. QED BY <1>1, <1>2, InitGivesConfInv, PTL DEF Spec
=============================================================================
