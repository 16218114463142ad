------------------------------ MODULE Setup_proofs ------------------------------
(***************************************************************************)
(* Proofs about Setup, for every build, every length of the fields, all    *)
(* keys and every number of edits: the settings believed to be stored are  *)
(* the next run's, the field edited is a line of LineEditor, the interval  *)
(* on the screen is the one that is used, the frames waited for are that   *)
(* interval's, and the server reads the registration back as it was meant. *)
(***************************************************************************)
EXTENDS Setup, FiniteSetTheorems, SequenceTheorems, WellFoundedInduction, TLAPS

Characters == UNION {Keys[f] : f \in Settings}
Strings == Seq(Characters)
Stages == {"start", "menu", "edit", "apply", "launched", "registered", "exited"}

TypeOK ==
  /\ target \in Targets /\ pc \in Stages /\ field \in Fields /\ i \in Int
  /\ fetch_interval_ms \in 10 .. 1000
  /\ store \in [Settings -> Strings] /\ kept \in [Settings -> Strings \cup {Unknown}]
  /\ loaded \subseteq Fields

\* The arrays of the fields, of which get_info.c gives the sizes.
ArraysOK == DOMAIN buf = Settings /\ \A f \in Settings : DOMAIN buf[f] = 0 .. Lengths[f]

-----------------------------------------------------------------------------
(* The inductive invariant.                                                *)

\* An array holds a string of n characters.
Holds(b, n) == b[n] = NUL /\ \A k \in 0 .. n - 1 : b[k] \in Characters

\* title_edit ends the string at its index.
TitleAt(b) == i \in 0 .. LastPlace /\ Holds(b, i)

\* get_line has nothing but terminators behind its index; in the last place the
\* index stays where the character is.
LineAt(b) ==
  /\ i \in 0 .. LastPlace
  /\ \A k \in 0 .. i - 1 : b[k] \in Characters
  /\ \A k \in i + 1 .. Lengths[field] : b[k] = NUL
  /\ b[i] = NUL \/ (i = LastPlace /\ b[i] \in Characters)

Edited ==
  /\ pc = "edit" => IF target.title THEN TitleAt(buf[field]) ELSE LineAt(buf[field])
  /\ pc \in {"edit", "apply"} => field \notin loaded
  /\ pc = "apply" => \E n \in 0 .. Lengths[field] : Holds(buf[field], n)

\* What is stored fits into its field, and is what the user believes.
StoredOK ==
  \A f \in Settings :
    /\ Len(store[f]) <= Lengths[f]
    /\ kept[f] # Unknown => store[f] = kept[f]

IntervalStored == kept["interval"] \in {<<>>, Unknown} \/ ValidInterval(kept["interval"])

\* What was read is what is used, until it is edited.
Loaded ==
  \A f \in loaded : kept[f] # Unknown =>
    IF f = "interval"
    THEN fetch_interval_ms = IF kept[f] = <<>> THEN Default ELSE Number(Numeral(kept[f]))
    ELSE Text(buf[f]) = kept[f]

IInv == TypeOK /\ ArraysOK /\ Edited /\ StoredOK /\ IntervalStored /\ Loaded
-----------------------------------------------------------------------------
(* Induction over data: what a recursive function computes.                *)

\* Natural numbers have a least one among them.
LEMMA LeastOfNaturals ==
  ASSUME NEW S \in SUBSET Nat, S # {}
  PROVE  \E d \in S : \A e \in S : d <= e
<1>1. PICK T : T = {0 .. n : n \in S}
  OBVIOUS
<1>2. ASSUME NEW n \in S PROVE 0 .. n \in FiniteSubsetsOf(Nat)
  BY FS_Interval DEF FiniteSubsetsOf
<1>3. PICK R : R = StrictSubsetOrdering(Nat)
  OBVIOUS
<1>4. PICK F : F = FiniteSubsetsOf(Nat)
  OBVIOUS
<1>5. IsWellFoundedOn(R, F)
  BY <1>3, <1>4, FS_StrictSubsetOrderingWellFounded
<1>6. T \subseteq F /\ T # {}
  BY <1>1, <1>2, <1>4
<1>7. \E x \in T : \A y \in T : ~(<<y, x>> \in R)
  BY ONLY <1>5, <1>6, WFMin
<1>8. PICK d \in S : \A y \in T : ~(<<y, 0 .. d>> \in R)
  BY <1>1, <1>7
<1>9. ASSUME NEW e \in S, e < d PROVE FALSE
  <2>1. e \in Nat /\ d \in Nat
    OBVIOUS
  <2>2. d \in 0 .. d /\ d \notin 0 .. e
    BY <1>9, <2>1
  <2>3. 0 .. e \subseteq 0 .. d /\ 0 .. e # 0 .. d
    BY <1>9, <2>1, <2>2
  <2>4. 0 .. e \in SUBSET Nat /\ 0 .. d \in SUBSET Nat
    OBVIOUS
  <2>5. <<0 .. e, 0 .. d>> \in StrictSubsetOrdering(Nat)
    BY <2>3, <2>4 DEF StrictSubsetOrdering
  <2> QED
    BY <1>1, <1>3, <1>8, <2>5
<1> QED
  BY <1>9

\* What holds of 0 and with each number of the next holds of all.
LEMMA Induction ==
  ASSUME NEW n \in Nat, NEW T, 0 \in T, \A k \in 0 .. n - 1 : k \in T => k + 1 \in T
  PROVE  \A k \in 0 .. n : k \in T
<1>1. PICK S : S = {k \in 0 .. n : k \notin T}
  OBVIOUS
<1>2. ASSUME S # {} PROVE FALSE
  <2>1. S \in SUBSET Nat
    BY <1>1
  <2>2. PICK d \in S : \A e \in S : d <= e
    BY ONLY <1>2, <2>1, LeastOfNaturals
  <2>3. d \in 0 .. n /\ d \notin T /\ d # 0
    BY <1>1
  <2>4. d - 1 \in 0 .. n - 1 /\ d - 1 \notin S /\ d - 1 + 1 = d
    BY <2>2, <2>3
  <2> QED
    BY <1>1, <2>3, <2>4
<1> QED
  BY <1>1, <1>2

\* The steps of a recursive function with values in S, and their results from b on.
Steps(n, S, b, step) == n \in Nat /\ b \in S /\ step \in [1 .. n -> [S -> S]]
Results(g, n, S, b, step) ==
  g \in [0 .. n -> S] /\ g[0] = b /\ \A k \in 1 .. n : g[k] = step[k][g[k - 1]]

\* A function that is defined by steps from the one before exists.
LEMMA Recursion ==
  ASSUME NEW n, NEW S, NEW b, NEW step, Steps(n, S, b, step)
  PROVE  \E g : Results(g, n, S, b, step)
<1> USE DEF Steps, Results
<1> DEFINE Good(g, m) == g[0] = b /\ \A k \in 1 .. m : g[k] = step[k][g[k - 1]]
<1>1. PICK T : T = {m \in 0 .. n : \E g \in [0 .. m -> S] : Good(g, m)}
  OBVIOUS
<1>2. 0 \in T
  <2>1. PICK g : g = [k \in 0 .. 0 |-> b]
    OBVIOUS
  <2>2. g \in [0 .. 0 -> S] /\ Good(g, 0)
    BY <2>1
  <2> QED
    BY <1>1, <2>2
<1>3. ASSUME NEW m \in 0 .. n - 1, m \in T PROVE m + 1 \in T
  <2>1. PICK g \in [0 .. m -> S] : Good(g, m)
    BY <1>1, <1>3
  <2>2. PICK h : h = [k \in 0 .. m + 1 |-> IF k = m + 1 THEN step[m + 1][g[m]] ELSE g[k]]
    OBVIOUS
  <2>3. g[m] \in S /\ step[m + 1] \in [S -> S]
    OBVIOUS
  <2>4. h \in [0 .. m + 1 -> S]
    BY <2>2, <2>3
  <2>5. h[0] = b
    BY <2>1, <2>2
  <2>6. ASSUME NEW k \in 1 .. m + 1 PROVE h[k] = step[k][h[k - 1]]
    <3>1. k - 1 \in 0 .. m /\ h[k - 1] = g[k - 1]
      BY <2>2
    <3>2. CASE k = m + 1
      BY <2>2, <3>1, <3>2
    <3>3. CASE k # m + 1
      <4>1. k \in 1 .. m /\ h[k] = g[k]
        BY <2>2, <3>3
      <4> QED
        BY <2>1, <3>1, <4>1
    <3> QED
      BY <3>2, <3>3
  <2>7. Good(h, m + 1)
    BY <2>5, <2>6
  <2>8. m + 1 \in 0 .. n
    OBVIOUS
  <2> HIDE DEF Good
  <2> QED
    BY <1>1, <2>4, <2>7, <2>8
<1>4. \A k \in 0 .. n : k \in T
  <2>1. \A m \in 0 .. n - 1 : m \in T => m + 1 \in T
    BY <1>3
  <2> QED
    BY ONLY <1>2, <2>1, n \in Nat, Induction
<1>5. n \in T
  BY <1>4
<1> QED
  BY <1>1, <1>5

-----------------------------------------------------------------------------
(* Numbers and their figures.                                              *)

\* What is left of a number, figure after figure.
Left(v, base) == CHOOSE l : l = [k \in 0 .. 10 |-> IF k = 0 THEN v ELSE l[k - 1] \div base]

\* A number is divided into a figure and the rest.
LEMMA Division ==
  ASSUME NEW v \in Nat, NEW base \in Nat \ {0}
  PROVE  /\ v \div base \in Nat /\ v % base \in 0 .. base - 1
         /\ v % base = v - base * (v \div base)
OBVIOUS

\* Each step divides what the one before has left.
LEMMA LeftIs ==
  ASSUME NEW v \in Nat, NEW base \in Nat \ {0}
  PROVE  /\ Left(v, base) \in [0 .. 10 -> Nat] /\ Left(v, base)[0] = v
         /\ \A k \in 1 .. 10 : Left(v, base)[k] = Left(v, base)[k - 1] \div base
<1>1. PICK step : step = [k \in 1 .. 10 |-> [x \in Nat |-> x \div base]]
  OBVIOUS
<1>2. step \in [1 .. 10 -> [Nat -> Nat]]
  BY <1>1, Division
<1>3. PICK g \in [0 .. 10 -> Nat] : g[0] = v /\ \A k \in 1 .. 10 : g[k] = step[k][g[k - 1]]
  <2>1. PICK n \in Nat : n = 10
    OBVIOUS
  <2>2. PICK S, b : S = Nat /\ b = v
    OBVIOUS
  <2>3. Steps(n, S, b, step)
    BY <1>2, <2>1, <2>2 DEF Steps
  <2>4. \E g : Results(g, n, S, b, step)
    BY ONLY <2>3, Recursion
  <2> QED
    BY <2>1, <2>2, <2>4 DEF Results
<1>4. \A k \in 1 .. 10 : g[k - 1] \in Nat /\ g[k] = g[k - 1] \div base
  <2>1. \A k \in 1 .. 10 : g[k - 1] \in Nat
    BY <1>3
  <2> QED
    BY <1>1, <1>3, <2>1
<1>5. g = [k \in 0 .. 10 |-> IF k = 0 THEN v ELSE g[k - 1] \div base]
  <2>1. PICK h : h = [k \in 0 .. 10 |-> IF k = 0 THEN v ELSE g[k - 1] \div base]
    OBVIOUS
  <2>2. \A k \in 0 .. 10 : g[k] = h[k]
    BY <1>3, <1>4, <2>1
  <2> QED
    BY <2>1, <2>2
<1>6. Left(v, base) = [k \in 0 .. 10 |-> IF k = 0 THEN v ELSE Left(v, base)[k - 1] \div base]
  BY <1>5 DEF Left
<1>7. PICK l : l = Left(v, base)
  OBVIOUS
<1>8. l = [k \in 0 .. 10 |-> IF k = 0 THEN v ELSE l[k - 1] \div base]
  BY <1>6, <1>7
<1>9. DOMAIN l = 0 .. 10 /\ l[0] = v /\ \A k \in 1 .. 10 : l[k] = l[k - 1] \div base
  BY <1>8
<1>10. \A k \in 0 .. 10 : l[k] \in Nat
  <2>1. PICK T : T = {k \in 0 .. 10 : l[k] \in Nat}
    OBVIOUS
  <2>2. 0 \in T
    BY <1>9, <2>1
  <2>3. \A k \in 0 .. 10 - 1 : k \in T => k + 1 \in T
    <3> SUFFICES ASSUME NEW k \in 0 .. 9, l[k] \in Nat PROVE l[k + 1] \in Nat
      BY <2>1
    <3>1. k + 1 \in 1 .. 10 /\ k + 1 - 1 = k
      OBVIOUS
    <3>2. l[k + 1] = l[k] \div base
      BY <1>9, <3>1
    <3> QED
      BY <3>2, Division
  <2>4. \A k \in 0 .. 10 : k \in T
    BY ONLY <2>2, <2>3, 10 \in Nat, Induction
  <2> QED
    BY <2>1, <2>4
<1>11. l \in [0 .. 10 -> Nat]
  BY <1>8, <1>9, <1>10
<1> QED
  BY <1>7, <1>9, <1>11

\* Once nothing is left, nothing is left.
LEMMA NothingLeft ==
  ASSUME NEW v \in Nat, NEW base \in Nat \ {0}, NEW m \in 0 .. 10, Left(v, base)[m] = 0
  PROVE  \A k \in m .. 10 : Left(v, base)[k] = 0
<1>1. PICK l \in [0 .. 10 -> Nat] : l = Left(v, base)
  BY LeftIs
<1>2. \A k \in 1 .. 10 : l[k] = l[k - 1] \div base
  BY ONLY <1>1, LeftIs, v \in Nat, base \in Nat \ {0}
<1>3. PICK T : T = {k \in 0 .. 10 - m : l[m + k] = 0}
  OBVIOUS
<1>4. 0 \in T
  BY <1>1, <1>3
<1>5. \A k \in 0 .. (10 - m) - 1 : k \in T => k + 1 \in T
  <2> SUFFICES ASSUME NEW k \in 0 .. (10 - m) - 1, l[m + k] = 0 PROVE k + 1 \in T
    BY <1>3
  <2>1. m + k + 1 \in 1 .. 10 /\ m + k + 1 - 1 = m + k /\ m + (k + 1) = m + k + 1
        /\ k + 1 \in 0 .. 10 - m
    OBVIOUS
  <2>2. l[m + k + 1] = 0 \div base
    BY <1>2, <2>1
  <2>3. 0 \div base = 0
    OBVIOUS
  <2> QED
    BY <1>3, <2>1, <2>2, <2>3
<1>6. 10 - m \in Nat
  OBVIOUS
<1>7. \A k \in 0 .. 10 - m : k \in T
  BY ONLY <1>4, <1>5, <1>6, Induction
<1>8. ASSUME NEW k \in m .. 10 PROVE l[k] = 0
  <2>1. k - m \in 0 .. 10 - m /\ m + (k - m) = k
    OBVIOUS
  <2>2. l[m + (k - m)] = 0
    BY <1>3, <1>7, <2>1
  <2> QED
    BY <2>1, <2>2
<1> QED
  BY <1>1, <1>8

\* An interval has four figures at most, a number of two bytes has five.
LEMMA LeftSmall ==
  ASSUME NEW v \in Nat, NEW base \in Nat \ {0}, base \in {10, 16}
  PROVE  /\ v <= 1000 => Left(v, base)[4] = 0
         /\ v < 256 * 256 => Left(v, base)[5] = 0
<1>1. PICK l \in [0 .. 10 -> Nat] : l = Left(v, base)
  BY LeftIs
<1>2. l[0] = v /\ l[1] = l[0] \div base /\ l[2] = l[1] \div base /\ l[3] = l[2] \div base
      /\ l[4] = l[3] \div base /\ l[5] = l[4] \div base
  <2>1. \A k \in 1 .. 10 : l[k] = l[k - 1] \div base
    BY ONLY <1>1, LeftIs, v \in Nat, base \in Nat \ {0}
  <2>2. l[0] = v
    BY <1>1, LeftIs
  <2> QED
    BY <2>1, <2>2
<1>3. ASSUME NEW x \in Nat PROVE x \div base \in Nat /\ 10 * (x \div base) <= x
  <2>1. PICK q \in Nat : q = x \div base
    BY Division
  <2>2. base * q <= x
    BY Division, <2>1
  <2>3. base = 10 \/ base = 16
    OBVIOUS
  <2>4. 10 * q <= x
    BY <2>2, <2>3
  <2> QED
    BY <2>1, <2>4
<1>4. \A k \in 0 .. 10 : l[k] \in Nat
  BY <1>1
<1>5. 10 * l[1] <= v /\ 10 * l[2] <= l[1] /\ 10 * l[3] <= l[2] /\ 10 * l[4] <= l[3]
      /\ 10 * l[5] <= l[4]
  BY <1>2, <1>3, <1>4
<1>6. l[1] \in Nat /\ l[2] \in Nat /\ l[3] \in Nat /\ l[4] \in Nat /\ l[5] \in Nat
  BY <1>4
<1> QED
  BY <1>1, <1>5, <1>6

\* The figures of a base, no two of them the same.
AreFigures(figures, base) ==
  /\ Len(figures) = base /\ DOMAIN figures = 1 .. base
  /\ \A a, b \in 1 .. base : figures[a] = figures[b] => a = b

\* A number has m figures at most.
Enough(v, base, m) == m \in 1 .. 10 /\ Left(v, base)[m] = 0

\* A number is written with n figures: those of what is left.
Written(n, v, figures, base) ==
  /\ Left(v, base)[n] = 0
  /\ Figures(v, figures) = [k \in 1 .. n |-> figures[(Left(v, base)[n - k] % base) + 1]]

\* What is written of a number: the figures of what is left, m at most.
LEMMA FiguresAre ==
  ASSUME NEW v \in Nat, NEW figures, NEW base \in Nat \ {0}, AreFigures(figures, base),
         NEW m, Enough(v, base, m)
  PROVE  \E n \in 1 .. m : Written(n, v, figures, base)
<1> DEFINE l == Left(v, base)
           n == CHOOSE n \in 1 .. 10 : l[n] = 0 /\ (n = 1 \/ l[n - 1] # 0)
<1>1. Figures(v, figures) = [k \in 1 .. n |-> figures[(l[n - k] % base) + 1]]
  <2>1. base = Len(figures)
    BY DEF AreFigures
  <2>2. Figures(v, figures) =
          LET left == Left(v, Len(figures))
              places == CHOOSE d \in 1 .. 10 : left[d] = 0 /\ (d = 1 \/ left[d - 1] # 0)
          IN  [k \in 1 .. places |-> figures[(left[places - k] % Len(figures)) + 1]]
    BY DEF Figures, Left
  <2> QED
    BY ONLY <2>1, <2>2
<1>2. l \in [0 .. 10 -> Nat] /\ l[m] = 0 /\ \A k \in m .. 10 : l[k] = 0
  <2>1. m \in 0 .. 10 /\ Left(v, base)[m] = 0
    BY DEF Enough
  <2>2. l \in [0 .. 10 -> Nat]
    BY LeftIs
  <2>3. \A k \in m .. 10 : l[k] = 0
    BY <2>1, NothingLeft
  <2> QED
    BY <2>1, <2>2, <2>3
<1> HIDE DEF l
<1>0. m \in 1 .. 10
  BY DEF Enough
<1>3. \E d \in 1 .. 10 : l[d] = 0 /\ (d = 1 \/ l[d - 1] # 0)
  <2>1. PICK S : S = {k \in 1 .. 10 : l[k] = 0}
    OBVIOUS
  <2>2. m \in S
    BY <1>0, <1>2, <2>1
  <2>3. S \in SUBSET Nat /\ S # {}
    BY <2>1, <2>2
  <2>4. PICK d \in S : \A e \in S : d <= e
    BY ONLY <2>3, LeastOfNaturals
  <2>5. d \in 1 .. 10 /\ l[d] = 0
    BY <2>1
  <2>6. d - 1 \notin S
    BY <2>4, <2>5
  <2>7. d = 1 \/ l[d - 1] # 0
    BY <2>1, <2>5, <2>6
  <2> QED
    BY <2>5, <2>7
<1>4. n \in 1 .. 10 /\ l[n] = 0 /\ (n = 1 \/ l[n - 1] # 0)
  BY <1>3
<1> HIDE DEF n
<1>5. n \in 1 .. m
  <2> SUFFICES ASSUME m < n PROVE FALSE
    BY <1>0, <1>4
  <2>1. n - 1 \in m .. 10 /\ n # 1
    BY <1>0, <1>4
  <2>2. l[n - 1] = 0
    BY <1>2, <2>1
  <2> QED
    BY <1>4, <2>1, <2>2
<1> QED
  BY <1>1, <1>4, <1>5 DEF l, Written

\* What a figure stands for.
Of(figures, c) == (CHOOSE f \in DOMAIN figures : figures[f] = c) - 1

\* The figure at a place is worth one less.
LEMMA OfFigure ==
  ASSUME NEW figures, NEW base \in Nat \ {0}, AreFigures(figures, base), NEW a \in 1 .. base
  PROVE  Of(figures, figures[a]) = a - 1
<1>1. DOMAIN figures = 1 .. base
  BY DEF AreFigures
<1>2. PICK f : f = CHOOSE g \in DOMAIN figures : figures[g] = figures[a]
  OBVIOUS
<1>3. f \in DOMAIN figures /\ figures[f] = figures[a]
  BY <1>1, <1>2
<1>4. f = a
  BY <1>1, <1>3 DEF AreFigures
<1> QED
  BY <1>2, <1>4 DEF Of

\* Reading the figures of a number gives the number (strtoul, atoi).
LEMMA ValueOfFigures ==
  ASSUME NEW v \in Nat, NEW figures, NEW base \in Nat \ {0}, AreFigures(figures, base),
         NEW m, Enough(v, base, m)
  PROVE  /\ Value(Figures(v, figures), figures) = v
         /\ \E n \in 1 .. m : Figures(v, figures) \in [1 .. n -> Range(figures)]
<1>0. m \in 1 .. 10
  BY DEF Enough
<1>2. PICK l \in [0 .. 10 -> Nat] : l = Left(v, base)
  BY LeftIs
<1>3. l[0] = v /\ \A k \in 1 .. 10 : l[k] = l[k - 1] \div base
  BY <1>2, LeftIs
<1>4. PICK n \in 1 .. m :
        l[n] = 0 /\ Figures(v, figures) = [k \in 1 .. n |-> figures[(l[n - k] % base) + 1]]
  <2>1. PICK n \in 1 .. m : Written(n, v, figures, base)
    BY FiguresAre
  <2> QED
    BY <1>2, <2>1 DEF Written
<1>5. PICK text : text = Figures(v, figures)
  OBVIOUS
<1>6. \A k \in 1 .. n : l[n - k] \in Nat /\ (l[n - k] % base) + 1 \in 1 .. base
  <2> SUFFICES ASSUME NEW k \in 1 .. n
               PROVE  l[n - k] \in Nat /\ (l[n - k] % base) + 1 \in 1 .. base
    OBVIOUS
  <2>1. n - k \in 0 .. 10
    BY <1>0
  <2>2. PICK x \in Nat : x = l[n - k]
    BY <2>1
  <2>3. x % base \in 0 .. base - 1
    BY Division
  <2> QED
    BY <2>2, <2>3
<1>7. text \in [1 .. n -> Range(figures)] /\ Len(text) = n
  <2>1. \A f \in 1 .. base : figures[f] \in Range(figures)
    BY DEF Range, AreFigures
  <2>2. \A k \in 1 .. n : figures[(l[n - k] % base) + 1] \in Range(figures)
    BY <1>6, <2>1
  <2>3. text \in [1 .. n -> Range(figures)]
    BY <1>4, <1>5, <2>2
  <2> QED
    BY <2>3
<1>8. \A k \in 1 .. n : Of(figures, text[k]) = l[n - k] % base
  <2> SUFFICES ASSUME NEW k \in 1 .. n PROVE Of(figures, text[k]) = l[n - k] % base
    OBVIOUS
  <2>1. PICK a : a = (l[n - k] % base) + 1
    OBVIOUS
  <2>2. a \in 1 .. base /\ text[k] = figures[a]
    BY <1>4, <1>5, <1>6, <2>1
  <2>3. Of(figures, figures[a]) = a - 1
    BY <2>2, OfFigure
  <2>4. PICK x \in Nat : x = l[n - k]
    BY <1>6
  <2>5. x % base \in Int
    BY Division
  <2>6. a - 1 = x % base
    BY <2>1, <2>4, <2>5
  <2> QED
    BY <2>2, <2>3, <2>4, <2>6
<1>9. PICK value : value = [k \in 0 .. n |-> l[n - k]]
  OBVIOUS
<1>10. value = [k \in 0 .. n |-> IF k = 0 THEN 0 ELSE base * value[k - 1] + Of(figures, text[k])]
  <2>1. PICK h : h = [k \in 0 .. n |-> IF k = 0 THEN 0
                                       ELSE base * value[k - 1] + Of(figures, text[k])]
    OBVIOUS
  <2>2. ASSUME NEW k \in 0 .. n PROVE value[k] = h[k]
    <3>1. CASE k = 0
      BY <1>4, <1>9, <2>1, <3>1
    <3>2. CASE k # 0
      <4>1. k \in 1 .. n /\ k - 1 \in 0 .. n /\ n - k \in 0 .. 10 /\ n - k + 1 \in 1 .. 10
            /\ n - k + 1 - 1 = n - k /\ n - (k - 1) = n - k + 1
        BY <1>0, <3>2
      <4>2. PICK x \in Nat : x = l[n - k]
        BY <4>1
      <4>3. l[n - k + 1] = x \div base
        BY <1>3, <4>1, <4>2
      <4>4. value[k] = x /\ value[k - 1] = x \div base
        BY <1>9, <4>1, <4>2, <4>3
      <4>5. h[k] = base * value[k - 1] + Of(figures, text[k])
        BY <2>1, <3>2
      <4>6. PICK q \in Nat : q = x \div base
        BY Division
      <4>11. PICK rest \in 0 .. base - 1 : rest = x % base
        BY Division
      <4>7. rest = x - base * q
        BY <4>6, <4>11, Division
      <4>8. Of(figures, text[k]) = rest
        BY <1>8, <4>1, <4>2, <4>11
      <4>9. h[k] = base * q + rest
        BY <4>4, <4>5, <4>6, <4>8
      <4>10. base * q + rest = x
        BY <4>7
      <4> QED
        BY <4>4, <4>9, <4>10
    <3> QED
      BY <3>1, <3>2
  <2> QED
    BY <1>9, <2>1, <2>2
<1>11. PICK read : read = CHOOSE g : g = [k \in 0 .. n |->
                       IF k = 0 THEN 0 ELSE base * g[k - 1] + Of(figures, text[k])]
  OBVIOUS
<1>12. read = [k \in 0 .. n |-> IF k = 0 THEN 0 ELSE base * read[k - 1] + Of(figures, text[k])]
  BY <1>10, <1>11
<1> DEFINE Then(x, c) == base * x + Of(figures, c)
<1>a. /\ read = [k \in 0 .. n |-> IF k = 0 THEN 0 ELSE Then(read[k - 1], text[k])]
      /\ value = [k \in 0 .. n |-> IF k = 0 THEN 0 ELSE Then(value[k - 1], text[k])]
  BY <1>10, <1>12
<1> HIDE DEF Then
<1>b. read[0] = 0 /\ \A k \in 1 .. n : read[k] = Then(read[k - 1], text[k])
  <2>1. 0 \in 0 .. n /\ \A k \in 1 .. n : k \in 0 .. n /\ k # 0
    OBVIOUS
  <2> QED
    BY ONLY <1>a, <2>1, Zenon
<1>c. value[0] = 0 /\ \A k \in 1 .. n : value[k] = Then(value[k - 1], text[k])
  <2>1. 0 \in 0 .. n /\ \A k \in 1 .. n : k \in 0 .. n /\ k # 0
    OBVIOUS
  <2> QED
    BY ONLY <1>a, <2>1, Zenon
<1>13. \A k \in 0 .. n : read[k] = value[k]
  <2>1. PICK T : T = {k \in 0 .. n : read[k] = value[k]}
    OBVIOUS
  <2>2. 0 \in T
    BY <1>b, <1>c, <2>1
  <2>3. ASSUME NEW k \in 0 .. n - 1, k \in T PROVE k + 1 \in T
    <3>1. PICK j \in 1 .. n : j = k + 1
      OBVIOUS
    <3>2. j - 1 = k /\ read[k] = value[k]
      BY <2>1, <2>3, <3>1
    <3>3. read[j] = value[j]
      BY <1>b, <1>c, <3>2
    <3> QED
      BY <2>1, <3>1, <3>3
  <2>4. n \in Nat
    OBVIOUS
  <2>5. \A k \in 0 .. n - 1 : k \in T => k + 1 \in T
    BY <2>3
  <2>6. \A k \in 0 .. n : k \in T
    BY ONLY <2>2, <2>4, <2>5, Induction
  <2> QED
    BY <2>1, <2>6
<1>14. Value(text, figures) = read[n]
  BY <1>7, <1>11 DEF Value, Of, AreFigures
<1>15. read[n] = v
  <2>1. value[n] = l[n - n] /\ n - n = 0
    BY <1>9
  <2> QED
    BY <1>3, <1>13, <2>1
<1> QED
  BY <1>5, <1>7, <1>14, <1>15

\* The decimal and the hexadecimal figures.
LEMMA Decimal ==
  AreFigures(Digits, 10) /\ Space \notin Range(Digits) /\ NUL \notin Range(Digits)
  /\ Comma \notin Range(Digits)
<1>1. PICK d : d = Digits
  OBVIOUS
<1>2. Len(d) = 10 /\ DOMAIN d = 1 .. 10
  BY <1>1 DEF Digits
<1>3. /\ d[1] = "0" /\ d[2] = "1" /\ d[3] = "2" /\ d[4] = "3" /\ d[5] = "4"
      /\ d[6] = "5" /\ d[7] = "6" /\ d[8] = "7" /\ d[9] = "8" /\ d[10] = "9"
  BY <1>1 DEF Digits
<1>4. \A a \in 1 .. 10 : a = 1 \/ a = 2 \/ a = 3 \/ a = 4 \/ a = 5 \/ a = 6 \/ a = 7 \/ a = 8
                         \/ a = 9 \/ a = 10
  OBVIOUS
<1>5. \A a, b \in 1 .. 10 : d[a] = d[b] => a = b
  BY <1>3, <1>4
<1>6. \A a \in 1 .. 10 : d[a] # Space /\ d[a] # NUL /\ d[a] # Comma
  <2>1. \A c \in {"0", "1", "2", "3", "4", "5", "6", "7", "8", "9"} :
          c # Space /\ c # NUL /\ c # Comma
    BY Zenon DEF Space, Comma, NUL
  <2> QED
    BY <1>3, <1>4, <2>1
<1> QED
  BY <1>1, <1>2, <1>5, <1>6 DEF AreFigures, Range

\* The hexadecimal digits are figures.
LEMMA Hexadecimal == AreFigures(HexDigits, 16) /\ Comma \notin Range(HexDigits)
<1>1. PICK d : d = HexDigits
  OBVIOUS
<1>2. Len(d) = 16 /\ DOMAIN d = 1 .. 16
  BY <1>1 DEF HexDigits
<1>3. /\ d[1] = "0" /\ d[2] = "1" /\ d[3] = "2" /\ d[4] = "3" /\ d[5] = "4"
      /\ d[6] = "5" /\ d[7] = "6" /\ d[8] = "7" /\ d[9] = "8" /\ d[10] = "9"
      /\ d[11] = "A" /\ d[12] = "B" /\ d[13] = "C" /\ d[14] = "D" /\ d[15] = "E" /\ d[16] = "F"
  BY <1>1 DEF HexDigits
<1>4. \A a \in 1 .. 16 : a = 1 \/ a = 2 \/ a = 3 \/ a = 4 \/ a = 5 \/ a = 6 \/ a = 7 \/ a = 8
                         \/ a = 9 \/ a = 10 \/ a = 11 \/ a = 12 \/ a = 13 \/ a = 14 \/ a = 15
                         \/ a = 16
  OBVIOUS
<1>5. \A a, b \in 1 .. 16 : d[a] = d[b] => a = b
  BY <1>3, <1>4
<1>6. \A a \in 1 .. 16 : d[a] # Comma
  <2>1. \A c \in {"0", "1", "2", "3", "4", "5", "6", "7", "8", "9",
                    "A", "B", "C", "D", "E", "F"} : c # Comma
    BY Zenon DEF Comma
  <2> QED
    BY <1>3, <1>4, <2>1
<1> QED
  BY <1>1, <1>2, <1>5, <1>6 DEF AreFigures, Range

\* A number of two bytes is read back from its decimal figures.
LEMMA NumberOfItoa ==
  ASSUME NEW v \in Nat, v < 256 * 256
  PROVE  Number(itoa(v)) = v /\ \E n \in 1 .. 5 : itoa(v) \in [1 .. n -> Range(Digits)]
<1>1. PICK base \in Nat \ {0} : base = 10
  OBVIOUS
<1>2. base \in {10, 16} /\ 5 \in 1 .. 10
  BY <1>1
<1>3. Enough(v, base, 5)
  BY <1>2, LeftSmall DEF Enough
<1>4. AreFigures(Digits, base)
  BY <1>1, Decimal
<1> QED
  BY <1>3, <1>4, ValueOfFigures DEF Number, itoa

\* And from its hexadecimal ones.
LEMMA ValueOfHex ==
  ASSUME NEW v \in Nat, v < 256 * 256
  PROVE  /\ Value(Figures(v, HexDigits), HexDigits) = v
         /\ \E n \in 1 .. 5 : Figures(v, HexDigits) \in [1 .. n -> Range(HexDigits)]
<1>1. PICK base \in Nat \ {0} : base = 16
  OBVIOUS
<1>2. base \in {10, 16} /\ 5 \in 1 .. 10
  BY <1>1
<1>3. Enough(v, base, 5)
  BY <1>2, LeftSmall DEF Enough
<1>4. AreFigures(HexDigits, base)
  BY <1>1, Hexadecimal
<1> QED
  BY <1>3, <1>4, ValueOfFigures

\* What is shown of an interval is one that parse_fetch_interval reads, the same.
LEMMA IntervalText ==
  ASSUME NEW v \in 10 .. 1000
  PROVE  /\ ValidInterval(itoa(v)) /\ Number(Numeral(itoa(v))) = v
         /\ \E n \in 1 .. 4 : itoa(v) \in [1 .. n -> Range(Digits)]
<1>1. PICK base \in Nat \ {0} : base = 10
  OBVIOUS
<1>2. Value(itoa(v), Digits) = v /\ \E n \in 1 .. 4 : itoa(v) \in [1 .. n -> Range(Digits)]
  <2>1. base \in {10, 16} /\ 4 \in 1 .. 10 /\ v \in Nat /\ v <= 1000
    BY <1>1
  <2>2. Enough(v, base, 4)
    BY <2>1, LeftSmall DEF Enough
  <2>3. AreFigures(Digits, base)
    BY <1>1, Decimal
  <2> QED
    BY <2>1, <2>2, <2>3, ValueOfFigures DEF itoa
<1>3. PICK n \in 1 .. 4 : itoa(v) \in [1 .. n -> Range(Digits)]
  BY <1>2
<1>9. PICK text \in [1 .. n -> Range(Digits)] : text = itoa(v)
  BY <1>3
<1>4. text[1] # Space /\ Len(text) = n /\ text \in Seq(Range(Digits))
  <2>1. text[1] \in Range(Digits)
    OBVIOUS
  <2> QED
    BY <2>1, Decimal
<1>5. {k \in 1 .. Len(text) : \A m \in 1 .. k : text[m] = Space} = {}
  BY <1>4
<1>6. Numeral(text) = SubSeq(text, 1, n)
  <2>1. Cardinality({k \in 1 .. Len(text) : \A m \in 1 .. k : text[m] = Space}) = 0
    BY ONLY <1>5, FS_EmptySet
  <2>2. Numeral(text) = SubSeq(text, 0 + 1, Len(text))
    BY <2>1, Zenon DEF Numeral
  <2> QED
    BY <1>4, <2>2
<1>7. SubSeq(text, 1, n) = text
  BY <1>4
<1>8. text # <<>> /\ Range(text) \subseteq Range(Digits)
  BY <1>4 DEF Range
<1> QED
  <2>1. Numeral(text) = text /\ Number(text) = v
    BY <1>2, <1>6, <1>7, <1>9 DEF Number
  <2>2. Number(Numeral(text)) \in 10 .. 1000
    BY <2>1
  <2>3. ValidInterval(text)
    BY ONLY <1>8, <2>1, <2>2 DEF ValidInterval
  <2> QED
    BY <1>2, <1>9, <2>1, <2>3

-----------------------------------------------------------------------------
(* The fields that are read at the commas of a line.                       *)

Lists(X) == Seq(Seq(X)) \ {<<>>}

\* What one more character makes of the fields read.
NextFields(fields, c) ==
  IF c = Comma THEN Append(fields, <<>>)
  ELSE [fields EXCEPT ![Len(fields)] = Append(@, c)]

Reads(text) ==
  CHOOSE read : read = [k \in 0 .. Len(text) |->
    IF k = 0 THEN << <<>> >> ELSE NextFields(read[k - 1], text[k])]

\* A character more leaves a list of fields.
LEMMA NextIsList ==
  ASSUME NEW X, NEW fields \in Lists(X), NEW c \in X
  PROVE  NextFields(fields, c) \in Lists(X)
<1>1. fields \in Seq(Seq(X)) /\ Len(fields) \in 1 .. Len(fields) /\ Len(fields) \in Nat
  BY DEF Lists
<1>2. CASE c = Comma
  <2>1. <<>> \in Seq(X)
    OBVIOUS
  <2>2. Append(fields, <<>>) \in Seq(Seq(X)) /\ Len(Append(fields, <<>>)) = Len(fields) + 1
    BY <1>1, <2>1
  <2> QED
    BY <1>1, <1>2, <2>2 DEF NextFields, Lists
<1>3. CASE c # Comma
  <2>1. PICK n \in Nat : n = Len(fields) /\ n \in 1 .. n
    BY <1>1
  <2>2. fields \in [1 .. n -> Seq(X)]
    BY <1>1, <2>1
  <2>3. Append(fields[n], c) \in Seq(X)
    BY <2>1, <2>2
  <2>4. PICK next : next = [fields EXCEPT ![n] = Append(fields[n], c)]
    OBVIOUS
  <2>5. next \in [1 .. n -> Seq(X)]
    BY <2>2, <2>3, <2>4
  <2>6. next \in Seq(Seq(X)) /\ Len(next) = n
    BY <2>5
  <2>7. next # <<>>
    BY <2>1, <2>6
  <2>8. NextFields(fields, c) = next
    BY <1>3, <2>1, <2>4 DEF NextFields
  <2> QED
    BY <2>6, <2>7, <2>8 DEF Lists
<1> QED
  BY <1>2, <1>3

\* The fields read of the first k characters.
LEMMA ReadIs ==
  ASSUME NEW X, NEW text \in Seq(X)
  PROVE  /\ Reads(text) \in [0 .. Len(text) -> Lists(X)] /\ Reads(text)[0] = << <<>> >>
         /\ \A k \in 1 .. Len(text) : Reads(text)[k] = NextFields(Reads(text)[k - 1], text[k])
<1>1. PICK n \in Nat : n = Len(text)
  OBVIOUS
<1>2. \A k \in 1 .. n : text[k] \in X
  BY <1>1
<1>3. PICK step : step = [k \in 1 .. n |-> [x \in Lists(X) |-> NextFields(x, text[k])]]
  OBVIOUS
<1>4. << <<>> >> \in Lists(X)
  <2>1. <<>> \in Seq(X)
    OBVIOUS
  <2>2. << <<>> >> \in Seq(Seq(X)) /\ Len(<< <<>> >>) = 1
    BY <2>1
  <2> QED
    BY <2>2 DEF Lists
<1>5. Steps(n, Lists(X), << <<>> >>, step)
  <2>1. \A k \in 1 .. n : \A x \in Lists(X) : NextFields(x, text[k]) \in Lists(X)
    BY <1>2, NextIsList
  <2> QED
    BY <1>3, <1>4, <2>1 DEF Steps
<1>6. PICK g : Results(g, n, Lists(X), << <<>> >>, step)
  BY <1>5, Recursion
<1> DEFINE Is(r) == r = [k \in 0 .. n |-> IF k = 0 THEN << <<>> >> ELSE NextFields(r[k - 1], text[k])]
<1>7. Is(g)
  <2>1. g \in [0 .. n -> Lists(X)] /\ g[0] = << <<>> >>
        /\ \A k \in 1 .. n : g[k] = step[k][g[k - 1]]
    BY <1>6 DEF Results
  <2>2. \A k \in 1 .. n : k - 1 \in 0 .. n
    OBVIOUS
  <2>3. \A k \in 1 .. n : g[k] = NextFields(g[k - 1], text[k])
    BY <1>3, <2>1, <2>2
  <2>4. PICK h : h = [k \in 0 .. n |-> IF k = 0 THEN << <<>> >> ELSE NextFields(g[k - 1], text[k])]
    OBVIOUS
  <2>5. \A k \in 0 .. n : k = 0 \/ k \in 1 .. n
    OBVIOUS
  <2>6. \A k \in 0 .. n : g[k] = h[k]
    BY <2>1, <2>3, <2>4, <2>5
  <2>7. g = h
    BY <2>1, <2>4, <2>6
  <2> QED
    BY <2>4, <2>7
<1>8. Is(CHOOSE r : Is(r))
  BY <1>7
<1>9. PICK r : r = Reads(text) /\ Is(r)
  BY <1>1, <1>8 DEF Reads
<1>10. r[0] = << <<>> >> /\ \A k \in 1 .. n : r[k] = NextFields(r[k - 1], text[k])
  <2>1. 0 \in 0 .. n /\ \A k \in 1 .. n : k \in 0 .. n /\ k # 0
    OBVIOUS
  <2> QED
    BY <1>9, <2>1
<1> HIDE DEF Is
<1>11. \A k \in 0 .. n : r[k] \in Lists(X)
  <2>1. PICK T : T = {k \in 0 .. n : r[k] \in Lists(X)}
    OBVIOUS
  <2>2. 0 \in T
    BY <1>4, <1>10, <2>1
  <2>3. \A k \in 0 .. n - 1 : k \in T => k + 1 \in T
    <3> SUFFICES ASSUME NEW k \in 0 .. n - 1, r[k] \in Lists(X) PROVE k + 1 \in T
      BY <2>1
    <3>1. PICK j \in 1 .. n : j = k + 1
      OBVIOUS
    <3>2. j - 1 = k
      BY <3>1
    <3>3. r[j] = NextFields(r[k], text[j])
      BY <1>10, <3>2
    <3>4. r[j] \in Lists(X)
      BY <1>2, <3>3, NextIsList
    <3> QED
      BY <2>1, <3>1, <3>4
  <2>4. \A k \in 0 .. n : k \in T
    BY ONLY n \in Nat, <2>2, <2>3, Induction
  <2> QED
    BY <2>1, <2>4
<1>12. r \in [0 .. n -> Lists(X)]
  BY <1>9, <1>11 DEF Is
<1> QED
  BY <1>1, <1>9, <1>10, <1>12

\* What is read at the end, and of nothing.
LEMMA FieldsAre ==
  ASSUME NEW X, NEW s \in Seq(X)
  PROVE  FieldsOf(s) = Reads(s)[Len(s)] /\ FieldsOf(s) \in Lists(X)
<1>1. FieldsOf(s) = Reads(s)[Len(s)]
  BY DEF FieldsOf, Reads, NextFields
<1>2. Len(s) \in 0 .. Len(s)
  OBVIOUS
<1>3. Reads(s) \in [0 .. Len(s) -> Lists(X)]
  BY ReadIs
<1> QED
  BY <1>1, <1>2, <1>3

\* An empty text has one field, and that is empty.
LEMMA FieldsOfEmpty == FieldsOf(<<>>) = << <<>> >>
<1>1. PICK X, s : X = {} /\ s = <<>>
  OBVIOUS
<1>2. s \in Seq(X) /\ Len(s) = 0
  BY <1>1
<1>3. Reads(s)[0] = << <<>> >>
  BY <1>2, ReadIs
<1>4. FieldsOf(s) = Reads(s)[Len(s)]
  BY <1>2, FieldsAre
<1> QED
  BY <1>1, <1>2, <1>3, <1>4

\* What was read is not read again with a character more.
LEMMA FieldsOfAppend ==
  ASSUME NEW X, NEW s \in Seq(X), NEW c \in X
  PROVE  FieldsOf(Append(s, c)) = NextFields(FieldsOf(s), c)
<1>1. PICK n \in Nat : n = Len(s)
  OBVIOUS
<1>2. PICK t \in Seq(X) : t = Append(s, c)
  <2>1. Append(s, c) \in Seq(X)
    OBVIOUS
  <2> QED
    BY <2>1
<1>3. Len(t) = n + 1 /\ t[n + 1] = c /\ \A k \in 1 .. n : t[k] = s[k]
  BY <1>1, <1>2
<1>4. PICK r : r = Reads(s)
  OBVIOUS
<1>5. PICK q : q = Reads(t)
  OBVIOUS
<1>6. r[0] = << <<>> >> /\ \A k \in 1 .. n : r[k] = NextFields(r[k - 1], s[k])
  BY <1>1, <1>4, ReadIs
<1>7. q[0] = << <<>> >> /\ \A k \in 1 .. n + 1 : q[k] = NextFields(q[k - 1], t[k])
  <2>1. Reads(t)[0] = << <<>> >>
        /\ \A k \in 1 .. Len(t) : Reads(t)[k] = NextFields(Reads(t)[k - 1], t[k])
    BY ReadIs
  <2> QED
    BY <1>3, <1>5, <2>1
<1>8. \A k \in 0 .. n : q[k] = r[k]
  <2>1. PICK T : T = {k \in 0 .. n : q[k] = r[k]}
    OBVIOUS
  <2>2. 0 \in T
    BY <1>6, <1>7, <2>1
  <2>3. \A k \in 0 .. n - 1 : k \in T => k + 1 \in T
    <3> SUFFICES ASSUME NEW k \in 0 .. n - 1, q[k] = r[k] PROVE k + 1 \in T
      BY <2>1
    <3>1. PICK j \in 1 .. n : j = k + 1
      OBVIOUS
    <3>2. j - 1 = k /\ j \in 1 .. n + 1
      BY <3>1
    <3>3. r[j] = NextFields(r[k], s[j]) /\ q[j] = NextFields(q[k], t[j]) /\ t[j] = s[j]
      BY <1>3, <1>6, <1>7, <3>2
    <3> QED
      BY <2>1, <3>1, <3>3
  <2>4. \A k \in 0 .. n : k \in T
    BY ONLY n \in Nat, <2>2, <2>3, Induction
  <2> QED
    BY <2>1, <2>4
<1>9. q[n + 1] = NextFields(q[n], c) /\ q[n] = r[n]
  <2>1. n + 1 \in 1 .. n + 1 /\ n + 1 - 1 = n /\ n \in 0 .. n
    OBVIOUS
  <2> QED
    BY <1>3, <1>7, <1>8, <2>1
<1>10. FieldsOf(s) = r[n] /\ FieldsOf(t) = q[n + 1]
  BY <1>1, <1>3, <1>4, <1>5, FieldsAre
<1> QED
  BY <1>2, <1>9, <1>10

\* The last field goes on with a word.
Extend(fields, w) == [fields EXCEPT ![Len(fields)] = @ \o w]

\* It changes nothing else.
LEMMA ExtendIs ==
  ASSUME NEW X, NEW fields \in Lists(X), NEW w \in Seq(X)
  PROVE  /\ Len(fields) \in Nat \ {0} /\ Len(Extend(fields, w)) = Len(fields)
         /\ Extend(fields, w) \in [1 .. Len(fields) -> Seq(X)]
         /\ Extend(fields, w)[Len(fields)] = fields[Len(fields)] \o w
         /\ fields[Len(fields)] \in Seq(X)
         /\ \A k \in 1 .. Len(fields) - 1 : Extend(fields, w)[k] = fields[k]
<1>1. fields \in Seq(Seq(X)) /\ fields # <<>>
  BY DEF Lists
<1>2. PICK n \in Nat : n = Len(fields)
  BY <1>1
<1>3. n # 0
  BY <1>1, <1>2, EmptySeq
<1>4. fields \in [1 .. n -> Seq(X)] /\ n \in 1 .. n
  BY <1>1, <1>2, <1>3
<1>5. fields[n] \in Seq(X)
  BY <1>4
<1>6. PICK e : e = [fields EXCEPT ![n] = fields[n] \o w]
  OBVIOUS
<1>7. fields[n] \o w \in Seq(X)
  BY <1>5
<1>8. e \in [1 .. n -> Seq(X)] /\ e[n] = fields[n] \o w /\ \A k \in 1 .. n - 1 : e[k] = fields[k]
  BY <1>4, <1>6, <1>7
<1>9. Len(e) = n
  BY <1>8
<1>10. Extend(fields, w) = e
  BY <1>2, <1>6 DEF Extend
<1> QED
  BY <1>2, <1>3, <1>5, <1>8, <1>9, <1>10

\* A character more in the last field.
LEMMA NextOfExtend ==
  ASSUME NEW X, NEW fields \in Lists(X), NEW u \in Seq(X), NEW c \in X, c # Comma
  PROVE  NextFields(Extend(fields, u), c) = Extend(fields, Append(u, c))
<1>1. PICK n \in Nat : n = Len(fields)
  BY DEF Lists
<1>2. PICK e : e = Extend(fields, u)
  OBVIOUS
<1>3. PICK w \in Seq(X) : w = Append(u, c)
  <2>1. Append(u, c) \in Seq(X)
    OBVIOUS
  <2> QED
    BY <2>1
<1>4. PICK d : d = Extend(fields, w)
  OBVIOUS
<1>5. PICK last \in Seq(X) : last = fields[n]
  BY <1>1, ExtendIs
<1>6. /\ n # 0 /\ Len(e) = n /\ DOMAIN e = 1 .. n /\ e[n] = last \o u
      /\ \A k \in 1 .. n - 1 : e[k] = fields[k]
  <2>1. /\ Len(fields) # 0 /\ Len(e) = Len(fields) /\ e \in [1 .. Len(fields) -> Seq(X)]
        /\ e[Len(fields)] = fields[Len(fields)] \o u
        /\ \A k \in 1 .. Len(fields) - 1 : e[k] = fields[k]
    BY <1>2, ExtendIs
  <2>2. DOMAIN e = 1 .. Len(fields)
    BY <2>1
  <2> QED
    BY ONLY <1>1, <1>5, <2>1, <2>2
<1>7. /\ DOMAIN d = 1 .. n /\ d[n] = last \o w /\ \A k \in 1 .. n - 1 : d[k] = fields[k]
      /\ d \in [1 .. n -> Seq(X)]
  BY <1>1, <1>4, <1>5, ExtendIs
<1>8. last \o w = Append(last \o u, c)
  BY <1>3
<1>9. NextFields(e, c) = [e EXCEPT ![n] = Append(e[n], c)]
  BY <1>6 DEF NextFields
<1>10. PICK h : h = [e EXCEPT ![n] = Append(e[n], c)]
  OBVIOUS
<1>11. DOMAIN h = 1 .. n /\ h[n] = last \o w /\ \A k \in 1 .. n - 1 : h[k] = fields[k]
  BY <1>6, <1>8, <1>10
<1>12. h = d
  <2>1. \A k \in 1 .. n : h[k] = d[k]
    <3>1. \A k \in 1 .. n : k = n \/ k \in 1 .. n - 1
      OBVIOUS
    <3> QED
      BY <1>7, <1>11, <3>1
  <2>2. h = [k \in 1 .. n |-> h[k]] /\ d = [k \in 1 .. n |-> d[k]]
    BY <1>6, <1>7, <1>10
  <2> QED
    BY <2>1, <2>2
<1> QED
  BY <1>2, <1>3, <1>4, <1>9, <1>10, <1>12

\* The empty word adds nothing.
LEMMA ExtendNothing ==
  ASSUME NEW X, NEW fields \in Lists(X)
  PROVE  Extend(fields, <<>>) = fields
<1>1. PICK n \in Nat : n = Len(fields) /\ n # 0
  <2>1. <<>> \in Seq(X)
    OBVIOUS
  <2> QED
    BY <2>1, ExtendIs
<1>2. fields \in [1 .. n -> Seq(X)]
  BY <1>1 DEF Lists
<1>3. fields[n] \o <<>> = fields[n]
  <2>1. fields[n] \in Seq(X)
    BY <1>1, <1>2
  <2> QED
    BY <2>1
<1>4. Extend(fields, <<>>) = [fields EXCEPT ![n] = fields[n]]
  BY <1>1, <1>3 DEF Extend
<1> QED
  BY <1>2, <1>4

\* A word without a comma goes on with the last field.
LEMMA FieldsOfWord ==
  ASSUME NEW X, NEW s \in Seq(X), NEW w \in Seq(X), \A k \in 1 .. Len(w) : w[k] # Comma
  PROVE  FieldsOf(s \o w) = Extend(FieldsOf(s), w)
<1>1. PICK n \in Nat : n = Len(w)
  OBVIOUS
<1>2. PICK F \in Lists(X) : F = FieldsOf(s)
  BY FieldsAre
<1>3. PICK T : T = {k \in 0 .. n : FieldsOf(s \o SubSeq(w, 1, k)) = Extend(F, SubSeq(w, 1, k))}
  OBVIOUS
<1>4. 0 \in T
  <2>1. SubSeq(w, 1, 0) = <<>> /\ s \o <<>> = s
    OBVIOUS
  <2>2. FieldsOf(s \o SubSeq(w, 1, 0)) = F /\ Extend(F, SubSeq(w, 1, 0)) = F
    BY <1>2, <2>1, ExtendNothing
  <2> QED
    BY <1>3, <2>2
<1>5. \A k \in 0 .. n - 1 : k \in T => k + 1 \in T
  <2> SUFFICES ASSUME NEW k \in 0 .. n - 1,
                      FieldsOf(s \o SubSeq(w, 1, k)) = Extend(F, SubSeq(w, 1, k))
               PROVE  k + 1 \in T
    BY <1>3
  <2>1. PICK u \in Seq(X) : u = SubSeq(w, 1, k)
    <3>1. SubSeq(w, 1, k) \in Seq(X)
      BY <1>1
    <3> QED
      BY <3>1
  <2>2. PICK c \in X : c = w[k + 1] /\ c # Comma
    BY <1>1
  <2>3. SubSeq(w, 1, k + 1) = Append(u, c)
    <3>1. Len(SubSeq(w, 1, k + 1)) = k + 1 /\ Len(u) = k
      BY <1>1, <2>1
    <3> QED
      BY <1>1, <2>1, <2>2, <3>1
  <2>4. s \o Append(u, c) = Append(s \o u, c)
    OBVIOUS
  <2>5. PICK v \in Seq(X) : v = s \o u
    <3>1. s \o u \in Seq(X)
      OBVIOUS
    <3> QED
      BY <3>1
  <2>6. FieldsOf(Append(v, c)) = NextFields(FieldsOf(v), c)
    BY FieldsOfAppend
  <2>7. FieldsOf(v) = Extend(F, u)
    BY <2>1, <2>5
  <2>8. NextFields(Extend(F, u), c) = Extend(F, Append(u, c))
    BY <2>2, NextOfExtend
  <2>9. FieldsOf(s \o SubSeq(w, 1, k + 1)) = Extend(F, SubSeq(w, 1, k + 1))
    BY <2>3, <2>4, <2>5, <2>6, <2>7, <2>8
  <2>10. k + 1 \in 0 .. n
    OBVIOUS
  <2> QED
    BY <1>3, <2>9, <2>10
<1>6. \A k \in 0 .. n : k \in T
  BY ONLY n \in Nat, <1>4, <1>5, Induction
<1>7. n \in 0 .. n /\ SubSeq(w, 1, n) = w
  BY <1>1
<1>8. FieldsOf(s \o SubSeq(w, 1, n)) = Extend(F, SubSeq(w, 1, n))
  BY <1>3, <1>6, <1>7
<1> QED
  BY <1>2, <1>7, <1>8

\* A comma and a word are the next field.
LEMMA FieldsOfNext ==
  ASSUME NEW X, Comma \in X, NEW s \in Seq(X),
         NEW w \in Seq(X), \A k \in 1 .. Len(w) : w[k] # Comma
  PROVE  FieldsOf((s \o <<Comma>>) \o w) = Append(FieldsOf(s), w)
<1>1. PICK F \in Lists(X) : F = FieldsOf(s)
  BY FieldsAre
<1>2. PICK t \in Seq(X) : t = s \o <<Comma>>
  <2>1. s \o <<Comma>> \in Seq(X)
    OBVIOUS
  <2> QED
    BY <2>1
<1>3. t = Append(s, Comma)
  BY <1>2
<1>4. FieldsOf(t) = NextFields(F, Comma)
  BY <1>1, <1>3, FieldsOfAppend
<1>5. PICK G : G = Append(F, <<>>)
  OBVIOUS
<1>6. FieldsOf(t) = G
  BY <1>4, <1>5 DEF NextFields
<1>7. G \in Lists(X)
  BY <1>6, FieldsAre
<1>8. FieldsOf(t \o w) = Extend(G, w)
  BY <1>6, FieldsOfWord
<1>9. Extend(G, w) = Append(F, w)
  <2>1. PICK n \in Nat : n = Len(F) /\ F \in [1 .. n -> Seq(X)]
    BY DEF Lists
  <2>2. F \in Seq(Seq(X)) /\ <<>> \in Seq(X)
    BY DEF Lists
  <2>3. Len(G) = n + 1 /\ G[n + 1] = <<>> /\ \A k \in 1 .. n : G[k] = F[k]
    BY <1>5, <2>1, <2>2
  <2>4. PICK e : e = Extend(G, w)
    OBVIOUS
  <2>5. e \in [1 .. n + 1 -> Seq(X)] /\ e[n + 1] = <<>> \o w
        /\ \A k \in 1 .. n + 1 - 1 : e[k] = G[k]
    <3>1. /\ Extend(G, w) \in [1 .. Len(G) -> Seq(X)]
          /\ Extend(G, w)[Len(G)] = G[Len(G)] \o w
          /\ \A k \in 1 .. Len(G) - 1 : Extend(G, w)[k] = G[k]
      BY ONLY <1>7, w \in Seq(X), ExtendIs
    <3> QED
      BY ONLY <2>3, <2>4, <3>1
  <2>6. <<>> \o w = w
    OBVIOUS
  <2>7. PICK a : a = Append(F, w)
    OBVIOUS
  <2>8. a \in [1 .. n + 1 -> Seq(X)] /\ a[n + 1] = w /\ \A k \in 1 .. n : a[k] = F[k]
    <3>1. a \in Seq(Seq(X)) /\ Len(a) = n + 1
      BY <2>1, <2>2, <2>7
    <3>2. a[n + 1] = w /\ \A k \in 1 .. n : a[k] = F[k]
      BY <2>1, <2>2, <2>7
    <3> QED
      BY <3>1, <3>2
  <2>9. \A k \in 1 .. n + 1 : k = n + 1 \/ k \in 1 .. n
    OBVIOUS
  <2>10. \A k \in 1 .. n + 1 : e[k] = a[k]
    BY <2>3, <2>5, <2>6, <2>8, <2>9
  <2>11. e = a
    BY <2>5, <2>8, <2>10
  <2> QED
    BY <2>4, <2>7, <2>11
<1> QED
  BY <1>1, <1>2, <1>8, <1>9

\* A word without a comma is one field.
LEMMA FieldsOfOne ==
  ASSUME NEW X, NEW w \in Seq(X), \A k \in 1 .. Len(w) : w[k] # Comma
  PROVE  FieldsOf(w) = <<w>>
<1>1. PICK s \in Seq(X) : s = <<>>
  <2>1. <<>> \in Seq(X)
    OBVIOUS
  <2> QED
    BY <2>1
<1>2. FieldsOf(s \o w) = Extend(FieldsOf(s), w)
  BY FieldsOfWord
<1>3. FieldsOf(s) = << <<>> >> /\ s \o w = w
  BY <1>1, FieldsOfEmpty
<1>4. Extend(<< <<>> >>, w) = << <<>> \o w >>
  BY DEF Extend
<1>5. <<>> \o w = w
  OBVIOUS
<1> QED
  BY <1>2, <1>3, <1>4, <1>5

-----------------------------------------------------------------------------
(* The line of a registration.                                             *)

\* The name and the first k numbers.
Line(name) ==
  CHOOSE line : line = [k \in 0 .. Len(Numbers) |->
    IF k = 0 THEN name ELSE line[k - 1] \o <<Comma>> \o itoa(Numbers[k])]

\* A number of the registration is a word of digits, and read back.
LEMMA NumberText ==
  ASSUME NEW X, Range(Digits) \subseteq X, NEW k \in 1 .. Len(Numbers)
  PROVE  /\ itoa(Numbers[k]) \in Seq(X) /\ Number(itoa(Numbers[k])) = Numbers[k]
         /\ \A d \in 1 .. Len(itoa(Numbers[k])) : itoa(Numbers[k])[d] # Comma
<1>1. PICK v \in Nat : v = Numbers[k] /\ v < 256 * 256
  <2>1. Numbers[k] \in Nat /\ Numbers[k] < 128 * 256
    BY CsvAssumption
  <2> QED
    BY <2>1
<1>2. PICK text : text = itoa(v)
  OBVIOUS
<1>3. Number(text) = v /\ \E n \in 1 .. 5 : text \in [1 .. n -> Range(Digits)]
  BY <1>1, <1>2, NumberOfItoa
<1>4. PICK n \in 1 .. 5 : text \in [1 .. n -> Range(Digits)]
  BY <1>3
<1>5. Len(text) = n /\ \A d \in 1 .. n : text[d] \in Range(Digits)
  BY <1>4
<1>6. text \in [1 .. n -> X] /\ n \in Nat
  BY <1>4
<1>7. text \in Seq(X)
  BY <1>6
<1>8. \A d \in 1 .. n : text[d] # Comma
  BY <1>5, Decimal
<1> QED
  BY <1>1, <1>2, <1>3, <1>5, <1>7, <1>8

\* Each number is written behind what was written before.
LEMMA LineIs ==
  ASSUME NEW X, Range(Digits) \subseteq X, Comma \in X, NEW name \in Seq(X)
  PROVE  /\ Line(name) \in [0 .. Len(Numbers) -> Seq(X)] /\ Line(name)[0] = name
         /\ \A k \in 1 .. Len(Numbers) :
              Line(name)[k] = Line(name)[k - 1] \o <<Comma>> \o itoa(Numbers[k])
<1>1. PICK n \in Nat : n = Len(Numbers)
  BY CsvAssumption
<1>2. PICK word : word = [k \in 1 .. n |-> itoa(Numbers[k])]
  OBVIOUS
<1>3. \A k \in 1 .. n : word[k] \in Seq(X)
  BY <1>1, <1>2, NumberText
<1>4. ASSUME NEW x \in Seq(X), NEW k \in 1 .. n
      PROVE  x \o <<Comma>> \o word[k] \in Seq(X)
  <2>1. PICK w \in Seq(X) : w = word[k]
    BY <1>3
  <2>2. PICK y \in Seq(X) : y = x \o <<Comma>>
    <3>1. x \o <<Comma>> \in Seq(X)
      OBVIOUS
    <3> QED
      BY <3>1
  <2>3. y \o w \in Seq(X)
    OBVIOUS
  <2> QED
    BY <2>1, <2>2, <2>3
<1>5. PICK step : step = [k \in 1 .. n |-> [x \in Seq(X) |-> x \o <<Comma>> \o word[k]]]
  OBVIOUS
<1>6. Steps(n, Seq(X), name, step)
  BY <1>4, <1>5 DEF Steps
<1>7. PICK g : Results(g, n, Seq(X), name, step)
  BY <1>6, Recursion
<1> DEFINE Is(r) == r = [k \in 0 .. n |-> IF k = 0 THEN name
                                           ELSE r[k - 1] \o <<Comma>> \o itoa(Numbers[k])]
<1>8. Is(g)
  <2>1. g \in [0 .. n -> Seq(X)] /\ g[0] = name
        /\ \A k \in 1 .. n : g[k] = step[k][g[k - 1]]
    BY <1>7 DEF Results
  <2>2. \A k \in 1 .. n : k - 1 \in 0 .. n
    OBVIOUS
  <2>3. \A k \in 1 .. n : g[k] = g[k - 1] \o <<Comma>> \o itoa(Numbers[k])
    BY <1>2, <1>5, <2>1, <2>2
  <2>4. PICK h : h = [k \in 0 .. n |-> IF k = 0 THEN name
                                        ELSE g[k - 1] \o <<Comma>> \o itoa(Numbers[k])]
    OBVIOUS
  <2>5. \A k \in 0 .. n : k = 0 \/ k \in 1 .. n
    OBVIOUS
  <2>6. \A k \in 0 .. n : g[k] = h[k]
    BY <2>1, <2>3, <2>4, <2>5
  <2>7. g = h
    BY <2>1, <2>4, <2>6
  <2> QED
    BY <2>4, <2>7
<1>9. Is(CHOOSE r : Is(r))
  BY <1>8
<1>10. PICK r : r = Line(name) /\ Is(r)
  BY <1>1, <1>9 DEF Line
<1>11. r[0] = name /\ \A k \in 1 .. n : r[k] = r[k - 1] \o <<Comma>> \o itoa(Numbers[k])
  <2>1. 0 \in 0 .. n /\ \A k \in 1 .. n : k \in 0 .. n /\ k # 0
    OBVIOUS
  <2> QED
    BY <1>10, <2>1
<1> HIDE DEF Is
<1>12. \A k \in 0 .. n : r[k] \in Seq(X)
  <2>1. PICK T : T = {k \in 0 .. n : r[k] \in Seq(X)}
    OBVIOUS
  <2>2. 0 \in T
    BY <1>11, <2>1
  <2>3. \A k \in 0 .. n - 1 : k \in T => k + 1 \in T
    <3> SUFFICES ASSUME NEW k \in 0 .. n - 1, r[k] \in Seq(X) PROVE k + 1 \in T
      BY <2>1
    <3>1. PICK j \in 1 .. n : j = k + 1
      OBVIOUS
    <3>2. j - 1 = k
      BY <3>1
    <3>3. r[j] = r[k] \o <<Comma>> \o word[j]
      BY <1>2, <1>11, <3>2
    <3>4. r[j] \in Seq(X)
      BY <1>4, <3>3
    <3> QED
      BY <2>1, <3>1, <3>4
  <2>4. \A k \in 0 .. n : k \in T
    BY ONLY n \in Nat, <2>2, <2>3, Induction
  <2> QED
    BY <2>1, <2>4
<1>13. r \in [0 .. n -> Seq(X)]
  BY <1>10, <1>12 DEF Is
<1> QED
  BY <1>1, <1>10, <1>11, <1>13

\* The name and the first k numbers as fields.
LineFields(name, k) == [j \in 1 .. k + 1 |-> IF j = 1 THEN name ELSE itoa(Numbers[j - 1])]

\* They are what is read of the line.
LEMMA LineRead ==
  ASSUME NEW X, Range(Digits) \subseteq X, Comma \in X,
         NEW name \in Seq(X), \A k \in 1 .. Len(name) : name[k] # Comma
  PROVE  FieldsOf(Line(name)[Len(Numbers)]) = LineFields(name, Len(Numbers))
<1>1. PICK n \in Nat : n = Len(Numbers)
  BY CsvAssumption
<1>2. PICK r : r = Line(name)
  OBVIOUS
<1>3. /\ r \in [0 .. n -> Seq(X)] /\ r[0] = name
      /\ \A k \in 1 .. n : r[k] = r[k - 1] \o <<Comma>> \o itoa(Numbers[k])
  BY <1>1, <1>2, LineIs
<1>4. PICK T : T = {k \in 0 .. n : FieldsOf(r[k]) = LineFields(name, k)}
  OBVIOUS
<1>5. 0 \in T
  <2>1. FieldsOf(name) = <<name>>
    BY FieldsOfOne
  <2>2. PICK one : one = LineFields(name, 0)
    OBVIOUS
  <2>3. one = [j \in 1 .. 1 |-> name]
    BY <2>2 DEF LineFields
  <2>4. one = <<name>>
    BY <2>3
  <2> QED
    BY <1>3, <1>4, <2>1, <2>2, <2>4
<1>6. \A k \in 0 .. n - 1 : k \in T => k + 1 \in T
  <2> SUFFICES ASSUME NEW k \in 0 .. n - 1, FieldsOf(r[k]) = LineFields(name, k)
               PROVE  k + 1 \in T
    BY <1>4
  <2>1. PICK j \in 1 .. n : j = k + 1 /\ j - 1 = k
    OBVIOUS
  <2>2. PICK s \in Seq(X) : s = r[k]
    BY <1>3
  <2>3. PICK w \in Seq(X) : w = itoa(Numbers[j]) /\ \A d \in 1 .. Len(w) : w[d] # Comma
    BY <1>1, NumberText
  <2>4. r[j] = s \o <<Comma>> \o w
    BY <1>3, <2>1, <2>2, <2>3
  <2>5. FieldsOf(r[j]) = Append(LineFields(name, k), w)
    BY <2>2, <2>3, <2>4, FieldsOfNext
  <2>6. Append(LineFields(name, k), w) = LineFields(name, j)
    <3>1. PICK F : F = LineFields(name, k)
      OBVIOUS
    <3>2. PICK G : G = LineFields(name, j)
      OBVIOUS
    <3>3. F \in Seq(Seq(X))
      BY <2>2, <3>1, FieldsAre DEF Lists
    <3>4. F = [d \in 1 .. j |-> IF d = 1 THEN name ELSE itoa(Numbers[d - 1])]
      BY <2>1, <3>1 DEF LineFields
    <3>5. G = [d \in 1 .. j + 1 |-> IF d = 1 THEN name ELSE itoa(Numbers[d - 1])]
      BY <3>2 DEF LineFields
    <3>6. Len(F) = j
      BY <3>3, <3>4
    <3>7. PICK A : A = Append(F, w)
      OBVIOUS
    <3>11. A \in Seq(Seq(X)) /\ Len(A) = j + 1
      BY <3>3, <3>6, <3>7
    <3>12. A[j + 1] = w /\ \A d \in 1 .. j : A[d] = F[d]
      BY <3>3, <3>6, <3>7
    <3>13. A = [d \in 1 .. j + 1 |-> A[d]]
      BY <3>11
    <3>8. \A d \in 1 .. j + 1 : A[d] = IF d = j + 1 THEN w ELSE F[d]
      BY <3>12
    <3>9. \A d \in 1 .. j + 1 : A[d] = G[d]
      <4> SUFFICES ASSUME NEW d \in 1 .. j + 1 PROVE A[d] = G[d]
        OBVIOUS
      <4>1. CASE d = j + 1
        <5>1. d # 1 /\ d - 1 = j
          BY <4>1
        <5> QED
          BY <2>3, <3>5, <3>8, <4>1, <5>1
      <4>2. CASE d # j + 1
        <5>1. d \in 1 .. j
          BY <4>2
        <5> QED
          BY <3>4, <3>5, <3>8, <4>2, <5>1
      <4> QED
        BY <4>1, <4>2
    <3>10. A = G
      BY <3>5, <3>9, <3>13
    <3> QED
      BY <3>1, <3>2, <3>7, <3>10
  <2> QED
    BY <1>4, <2>1, <2>5, <2>6
<1>7. \A k \in 0 .. n : k \in T
  BY ONLY n \in Nat, <1>5, <1>6, Induction
<1>8. n \in T
  BY <1>7
<1> QED
  BY <1>1, <1>2, <1>4, <1>8

\* What is written behind a name does not depend on it.
LEMMA LineLength ==
  ASSUME NEW X, Range(Digits) \subseteq X, Comma \in X, NEW a \in Seq(X), NEW b \in Seq(X)
  PROVE  Len(Line(a)[Len(Numbers)]) - Len(a) = Len(Line(b)[Len(Numbers)]) - Len(b)
<1>1. PICK n \in Nat : n = Len(Numbers)
  BY CsvAssumption
<1>2. PICK r \in [0 .. n -> Seq(X)] : r = Line(a)
  BY <1>1, LineIs
<1>3. PICK q \in [0 .. n -> Seq(X)] : q = Line(b)
  BY <1>1, LineIs
<1>4. r[0] = a /\ \A k \in 1 .. n : r[k] = r[k - 1] \o <<Comma>> \o itoa(Numbers[k])
  BY <1>1, <1>2, LineIs
<1>5. q[0] = b /\ \A k \in 1 .. n : q[k] = q[k - 1] \o <<Comma>> \o itoa(Numbers[k])
  BY <1>1, <1>3, LineIs
<1>6. PICK T : T = {k \in 0 .. n : Len(r[k]) - Len(a) = Len(q[k]) - Len(b)}
  OBVIOUS
<1>7. 0 \in T
  <2>1. Len(a) \in Nat /\ Len(b) \in Nat
    OBVIOUS
  <2> QED
    BY <1>4, <1>5, <1>6, <2>1
<1>8. \A k \in 0 .. n - 1 : k \in T => k + 1 \in T
  <2> SUFFICES ASSUME NEW k \in 0 .. n - 1, Len(r[k]) - Len(a) = Len(q[k]) - Len(b)
               PROVE  k + 1 \in T
    BY <1>6
  <2>1. PICK j \in 1 .. n : j = k + 1 /\ j - 1 = k
    OBVIOUS
  <2>2. PICK s \in Seq(X) : s = r[k]
    BY <1>2
  <2>3. PICK t \in Seq(X) : t = q[k]
    BY <1>3
  <2>4. PICK w \in Seq(X) : w = itoa(Numbers[j])
    BY <1>1, NumberText
  <2>5. r[j] = s \o <<Comma>> \o w /\ q[j] = t \o <<Comma>> \o w
    BY <1>4, <1>5, <2>1, <2>2, <2>3, <2>4
  <2>6. Len(r[j]) = Len(s) + 1 + Len(w) /\ Len(q[j]) = Len(t) + 1 + Len(w)
    BY <2>5
  <2>7. Len(s) \in Nat /\ Len(t) \in Nat /\ Len(w) \in Nat /\ Len(a) \in Nat /\ Len(b) \in Nat
    OBVIOUS
  <2>9. Len(s) - Len(a) = Len(t) - Len(b)
    BY <2>2, <2>3
  <2>8. Len(r[j]) - Len(a) = Len(q[j]) - Len(b)
    <3>1. PICK la \in Nat, lb \in Nat, ls \in Nat, lt \in Nat, lw \in Nat :
            la = Len(a) /\ lb = Len(b) /\ ls = Len(s) /\ lt = Len(t) /\ lw = Len(w)
      BY <2>7
    <3>2. ls - la = lt - lb
      BY <2>9, <3>1
    <3>3. ls + 1 + lw - la = lt + 1 + lw - lb
      BY ONLY <3>2, la \in Nat, lb \in Nat, ls \in Nat, lt \in Nat, lw \in Nat
    <3> QED
      BY ONLY <2>6, <3>1, <3>3
  <2> QED
    BY <1>6, <2>1, <2>8
<1>9. \A k \in 0 .. n : k \in T
  BY ONLY n \in Nat, <1>7, <1>8, Induction
<1>10. n \in T
  BY <1>9
<1> QED
  BY <1>1, <1>2, <1>3, <1>6, <1>10

\* The letters of a registration, those of the name included.
AlphabetOK(X) == Range(Digits) \subseteq X /\ Range(HexDigits) \subseteq X /\ {"x", Comma} \subseteq X

\* The capabilities are a word of hexadecimal figures, and read back.
LEMMA HexText ==
  ASSUME NEW X, AlphabetOK(X), NEW caps \in Nat, caps < 256 * 256
  PROVE  /\ Hex(caps) \in Seq(X) /\ \A d \in 1 .. Len(Hex(caps)) : Hex(caps)[d] # Comma
         /\ SubSeq(Hex(caps), 1, 2) = <<"0", "x">>
         /\ Value(SubSeq(Hex(caps), 3, Len(Hex(caps))), HexDigits) = caps
<1>1. PICK text : text = Figures(caps, HexDigits)
  OBVIOUS
<1>2. Value(text, HexDigits) = caps /\ \E n \in 1 .. 5 : text \in [1 .. n -> Range(HexDigits)]
  BY <1>1, ValueOfHex
<1>3. PICK n \in 1 .. 5 : text \in [1 .. n -> Range(HexDigits)]
  BY <1>2
<1>4. n \in Nat /\ Len(text) = n /\ \A d \in 1 .. n : text[d] \in Range(HexDigits)
  BY <1>3
<1>5. PICK w \in Seq(Range(HexDigits)) : w = text
  <2>1. text \in Seq(Range(HexDigits))
    BY <1>3, <1>4
  <2> QED
    BY <2>1
<1>6. PICK z, x : z = "0" /\ x = "x"
  OBVIOUS
<1>7. z \in X /\ x \in X /\ z # Comma /\ x # Comma
  <2>1. z = HexDigits[1] /\ 1 \in DOMAIN HexDigits
    BY <1>6 DEF HexDigits
  <2>2. z \in Range(HexDigits)
    BY <2>1 DEF Range
  <2>3. "x" # Comma
    BY Zenon DEF Comma
  <2> QED
    BY <1>6, <2>2, <2>3, Hexadecimal DEF AlphabetOK
<1>8. w \in Seq(X) /\ \A d \in 1 .. n : w[d] # Comma
  <2>1. \A d \in 1 .. n : w[d] \in X
    BY <1>4, <1>5 DEF AlphabetOK
  <2>2. w \in [1 .. n -> X]
    BY <1>3, <1>5, <2>1
  <2> QED
    BY <1>4, <1>5, <2>2, Hexadecimal
<1>9. PICK h : h = <<z, x>> \o w
  OBVIOUS
<1>10. /\ h \in Seq(X) /\ Len(h) = n + 2 /\ h[1] = z /\ h[2] = x
       /\ \A d \in 3 .. n + 2 : h[d] = w[d - 2]
  BY <1>4, <1>5, <1>7, <1>8, <1>9
<1>11. \A d \in 1 .. n + 2 : h[d] # Comma
  <2>1. \A d \in 1 .. n + 2 : d = 1 \/ d = 2 \/ (d \in 3 .. n + 2 /\ d - 2 \in 1 .. n)
    OBVIOUS
  <2> QED
    BY <1>7, <1>8, <1>10, <2>1
<1>12. SubSeq(h, 1, 2) = <<z, x>>
  <2>1. PICK u : u = SubSeq(h, 1, 2)
    OBVIOUS
  <2>2. u \in Seq(X) /\ Len(u) = 2
    BY <1>4, <1>10, <2>1
  <2>3. u[1] = z /\ u[2] = x
    BY <1>4, <1>10, <2>1
  <2>4. PICK v : v = <<z, x>>
    OBVIOUS
  <2>5. v \in Seq(X) /\ Len(v) = 2 /\ v[1] = z /\ v[2] = x
    BY <1>7, <2>4
  <2>6. u = [d \in 1 .. 2 |-> u[d]] /\ v = [d \in 1 .. 2 |-> v[d]]
    BY <2>2, <2>5
  <2>7. \A d \in 1 .. 2 : u[d] = v[d]
    BY <2>3, <2>5
  <2> QED
    BY <2>1, <2>4, <2>6, <2>7
<1>13. SubSeq(h, 3, n + 2) = w
  <2>1. PICK u : u = SubSeq(h, 3, n + 2)
    OBVIOUS
  <2>2. u \in Seq(X) /\ Len(u) = n
    BY <1>4, <1>10, <2>1
  <2>3. \A d \in 1 .. n : u[d] = w[d]
    <3>1. \A d \in 1 .. n : d + 2 \in 3 .. n + 2 /\ d + 2 - 2 = d
      OBVIOUS
    <3>2. \A d \in 1 .. n : u[d] = h[d + 2]
      BY <1>4, <1>10, <2>1, <2>2
    <3> QED
      BY <1>10, <3>1, <3>2
  <2>4. Len(w) = n
    BY <1>4, <1>5
  <2> QED
    <3>1. u = [d \in 1 .. n |-> u[d]] /\ w = [d \in 1 .. n |-> w[d]]
      BY <1>8, <2>2, <2>4
    <3> QED
      BY <2>1, <2>3, <3>1
<1>14. Hex(caps) = h
  BY <1>1, <1>5, <1>6, <1>9 DEF Hex
<1> QED
  BY <1>2, <1>5, <1>6, <1>10, <1>11, <1>12, <1>13, <1>14

\* All numbers are written.
LEMMA LineEnd ==
  ASSUME NEW X, AlphabetOK(X), NEW name \in Seq(X)
  PROVE  Line(name)[Len(Numbers)] \in Seq(X)
<1>1. Range(Digits) \subseteq X /\ Comma \in X
  BY DEF AlphabetOK
<1>2. Line(name) \in [0 .. Len(Numbers) -> Seq(X)]
  BY <1>1, LineIs
<1>3. Len(Numbers) \in 0 .. Len(Numbers)
  BY CsvAssumption
<1> QED
  BY <1>2, <1>3

\* The line, with the capabilities behind it where there are any.
LEMMA CsvIs ==
  ASSUME NEW X, AlphabetOK(X), NEW name \in Seq(X), NEW caps \in Nat, caps < 256 * 256
  PROVE  /\ Csv(name, caps) \in Seq(X)
         /\ caps = 0 => Csv(name, caps) = Line(name)[Len(Numbers)]
         /\ caps # 0 => Csv(name, caps) = Line(name)[Len(Numbers)] \o <<Comma>> \o Hex(caps)
<1>1. PICK n \in Nat : n = Len(Numbers)
  BY CsvAssumption
<1>2. PICK line \in Seq(X) : line = Line(name)[n]
  BY <1>1, LineEnd
<1>3. Csv(name, caps) = line \o IF caps = 0 THEN <<>> ELSE <<Comma>> \o Hex(caps)
  BY <1>1, <1>2 DEF Csv, Line
<1>4. CASE caps = 0
  <2>1. line \o <<>> = line
    OBVIOUS
  <2> QED
    BY <1>1, <1>2, <1>3, <1>4, <2>1
<1>5. CASE caps # 0
  <2>1. PICK h \in Seq(X) : h = Hex(caps)
    BY HexText
  <2>2. Csv(name, caps) = line \o (<<Comma>> \o h)
    BY <1>3, <1>5, <2>1
  <2>3. PICK c \in Seq(X) : c = <<Comma>>
    <3>1. <<Comma>> \in Seq(X)
      BY DEF AlphabetOK
    <3> QED
      BY <3>1
  <2>4. line \o (c \o h) = (line \o c) \o h /\ (line \o c) \o h \in Seq(X)
    OBVIOUS
  <2> QED
    BY <1>1, <1>2, <1>5, <2>1, <2>2, <2>3, <2>4
<1> QED
  BY <1>4, <1>5

\* What is read of it.
ReadBack(fields, name, caps) ==
  /\ fields[1] = name
  /\ \A k \in 1 .. Len(Numbers) : Number(fields[k + 1]) = Numbers[k]
  /\ Len(fields) = Len(Numbers) + 1 + (IF caps = 0 THEN 0 ELSE 1)
  /\ caps # 0 =>
       /\ SubSeq(fields[Len(Numbers) + 2], 1, 2) = <<"0", "x">>
       /\ Value(SubSeq(fields[Len(Numbers) + 2], 3, Len(fields[Len(Numbers) + 2])), HexDigits) = caps

\* A name without a comma is registered as it is, with every number.
LEMMA CsvRead ==
  ASSUME NEW X, AlphabetOK(X), NEW name \in Seq(X), \A k \in 1 .. Len(name) : name[k] # Comma,
         NEW caps \in Nat, caps < 256 * 256
  PROVE  ReadBack(FieldsOf(Csv(name, caps)), name, caps)
<1>1. PICK n \in Nat : n = Len(Numbers)
  BY CsvAssumption
<1>2. PICK line \in Seq(X) : line = Line(name)[n]
  BY <1>1, LineEnd
<1>3. PICK F : F = LineFields(name, n)
  OBVIOUS
<1>4. FieldsOf(line) = F
  BY <1>1, <1>2, <1>3, LineRead DEF AlphabetOK
<1>5. F \in Seq(Seq(X))
  BY <1>4, FieldsAre DEF Lists
<1>6. F = [j \in 1 .. n + 1 |-> IF j = 1 THEN name ELSE itoa(Numbers[j - 1])]
  BY <1>3 DEF LineFields
<1>7. Len(F) = n + 1 /\ F[1] = name
  BY <1>5, <1>6
<1>8. \A k \in 1 .. n : Number(F[k + 1]) = Numbers[k]
  <2> SUFFICES ASSUME NEW k \in 1 .. n PROVE Number(F[k + 1]) = Numbers[k]
    OBVIOUS
  <2>1. k + 1 \in 1 .. n + 1 /\ k + 1 # 1 /\ k + 1 - 1 = k
    OBVIOUS
  <2>2. F[k + 1] = itoa(Numbers[k])
    BY <1>6, <2>1
  <2> QED
    BY <1>1, <2>2, NumberText DEF AlphabetOK
<1>9. CASE caps = 0
  <2>1. FieldsOf(Csv(name, caps)) = F
    BY <1>1, <1>2, <1>4, <1>9, CsvIs
  <2> QED
    BY <1>1, <1>7, <1>8, <1>9, <2>1 DEF ReadBack
<1>10. CASE caps # 0
  <2>1. PICK h \in Seq(X) : h = Hex(caps)
    BY HexText
  <2>2. /\ \A d \in 1 .. Len(h) : h[d] # Comma
        /\ SubSeq(h, 1, 2) = <<"0", "x">> /\ Value(SubSeq(h, 3, Len(h)), HexDigits) = caps
    BY <2>1, HexText
  <2>3. Csv(name, caps) = line \o <<Comma>> \o h
    BY <1>1, <1>2, <1>10, <2>1, CsvIs
  <2>4. PICK G : G = Append(F, h)
    OBVIOUS
  <2>5. FieldsOf(Csv(name, caps)) = G
    BY <1>4, <2>2, <2>3, <2>4, FieldsOfNext DEF AlphabetOK
  <2>6. Len(G) = n + 2 /\ G[n + 2] = h /\ \A k \in 1 .. n + 1 : G[k] = F[k]
    BY <1>5, <1>7, <2>4
  <2>7. G[1] = name /\ \A k \in 1 .. n : Number(G[k + 1]) = Numbers[k]
    BY <1>7, <1>8, <2>6
  <2> QED
    BY <1>1, <1>10, <2>2, <2>5, <2>6, <2>7 DEF ReadBack
<1> QED
  BY <1>9, <1>10

\* The longer the name, the longer the line.
LEMMA CsvLength ==
  ASSUME NEW X, AlphabetOK(X), NEW a \in Seq(X), NEW b \in Seq(X), Len(a) <= Len(b),
         NEW caps \in Nat, caps < 256 * 256
  PROVE  Len(Csv(a, caps)) <= Len(Csv(b, caps))
<1>1. PICK n \in Nat : n = Len(Numbers)
  BY CsvAssumption
<1>3. PICK p \in Seq(X) : p = Line(a)[n]
  BY <1>1, LineEnd
<1>4. PICK q \in Seq(X) : q = Line(b)[n]
  BY <1>1, LineEnd
<1>5. Len(p) - Len(a) = Len(q) - Len(b)
  BY <1>1, <1>3, <1>4, LineLength DEF AlphabetOK
<1>6. Len(p) \in Nat /\ Len(q) \in Nat /\ Len(a) \in Nat /\ Len(b) \in Nat
  OBVIOUS
<1>7. Len(p) <= Len(q)
  BY <1>5, <1>6
<1>8. CASE caps = 0
  BY <1>1, <1>3, <1>4, <1>7, <1>8, CsvIs
<1>9. CASE caps # 0
  <2>1. PICK h \in Seq(X) : h = Hex(caps)
    BY HexText
  <2>2. Csv(a, caps) = p \o <<Comma>> \o h /\ Csv(b, caps) = q \o <<Comma>> \o h
    BY <1>1, <1>3, <1>4, <1>9, <2>1, CsvIs
  <2>3. Comma \in X
    BY DEF AlphabetOK
  <2>4. Len(Csv(a, caps)) = Len(p) + 1 + Len(h) /\ Len(Csv(b, caps)) = Len(q) + 1 + Len(h)
    BY <2>2, <2>3
  <2>5. PICK lp \in Nat, lq \in Nat, lh \in Nat : lp = Len(p) /\ lq = Len(q) /\ lh = Len(h)
    OBVIOUS
  <2>6. lp + 1 + lh <= lq + 1 + lh
    BY <1>7, <2>5
  <2> QED
    BY ONLY <2>4, <2>5, <2>6
<1> QED
  BY <1>8, <1>9

-----------------------------------------------------------------------------
(* Strings in arrays.                                                      *)

USE TargetAssumption, LengthAssumption, KeyAssumption, FrameAssumption

\* The first n characters of an array.
Word(b, n) == [k \in 1 .. n |-> b[k - 1]]

\* A terminator is no character.
LEMMA NotNul ==
  ASSUME NEW c \in Characters
  PROVE  c # NUL
BY KeyAssumption DEF Characters

\* A field has room for a character and more (the LEN constants).
LEMMA LengthFacts ==
  ASSUME NEW f \in Settings
  PROVE  Lengths[f] \in Nat /\ Lengths[f] >= 2
<1>1. Lengths[f] \in Nat \ {0, 1}
  BY LengthAssumption
<1> QED
  BY <1>1

\* strlen and strcpy of an array that is terminated after n characters.
LEMMA TextOf ==
  ASSUME NEW L \in Nat, NEW b, DOMAIN b = 0 .. L, NEW n \in 0 .. L,
         b[n] = NUL, \A k \in 0 .. n - 1 : b[k] # NUL
  PROVE  Text(b) = Word(b, n)
<1> DEFINE S == {k \in DOMAIN b : \A m \in 0 .. k : b[m] # NUL}
<1>1. S = 0 .. n - 1
  <2>1. \A k \in 0 .. n - 1 : k \in S
    OBVIOUS
  <2>2. \A k \in S : k < n
    OBVIOUS
  <2> QED
    BY <2>1, <2>2
<1>2. Cardinality(0 .. n - 1) = n
  <2>1. 0 \in Int /\ n - 1 \in Int
    OBVIOUS
  <2>2. Cardinality(0 .. n - 1) = IF 0 > n - 1 THEN 0 ELSE n - 1 - 0 + 1
    BY <2>1, FS_Interval
  <2> QED
    BY <2>2
<1> QED
  BY <1>1, <1>2 DEF Text, Word

\* The same of an array that holds n characters.
LEMMA TextIs ==
  ASSUME NEW L \in Nat, NEW b, DOMAIN b = 0 .. L, NEW n \in 0 .. L, Holds(b, n)
  PROVE  Text(b) = Word(b, n) /\ Text(b) \in Strings /\ Len(Text(b)) = n
<1>1. b[n] = NUL /\ \A k \in 0 .. n - 1 : b[k] # NUL
  BY NotNul DEF Holds
<1>2. Text(b) = Word(b, n)
  BY <1>1, TextOf
<1>3. \A k \in 1 .. n : b[k - 1] \in Characters
  BY DEF Holds
<1>4. Word(b, n) \in Strings /\ Len(Word(b, n)) = n
  <2>1. Word(b, n) \in [1 .. n -> Characters]
    BY <1>3 DEF Word
  <2> QED
    BY <2>1 DEF Strings
<1> QED
  BY <1>2, <1>4

\* An array that holds nothing but a terminator is the empty string.
LEMMA TextEmpty ==
  ASSUME NEW f \in Settings
  PROVE  /\ DOMAIN Blank(f) = 0 .. Lengths[f] /\ Holds(Blank(f), 0)
         /\ \A k \in 0 .. Lengths[f] : Blank(f)[k] = NUL
         /\ Text(Blank(f)) = <<>>
<1>1. DOMAIN Blank(f) = 0 .. Lengths[f] /\ Lengths[f] \in Nat
      /\ \A k \in 0 .. Lengths[f] : Blank(f)[k] = NUL
  BY LengthFacts DEF Blank
<1>2. Holds(Blank(f), 0)
  BY <1>1 DEF Holds
<1>3. Text(Blank(f)) \in Strings /\ Len(Text(Blank(f))) = 0
  <2> DEFINE b == Blank(f)
  <2> HIDE DEF b
  <2>1. DOMAIN b = 0 .. Lengths[f] /\ Holds(b, 0) /\ 0 \in 0 .. Lengths[f] /\ Lengths[f] \in Nat
    BY <1>1, <1>2 DEF b
  <2>2. Text(b) \in Strings /\ Len(Text(b)) = 0
    BY <2>1, TextIs
  <2> QED
    BY <2>2 DEF b
<1>4. Text(Blank(f)) = <<>>
  BY <1>3, EmptySeq DEF Strings
<1> QED
  BY <1>1, <1>2, <1>4

\* What is put into an array is what it holds then.
LEMMA TextPut ==
  ASSUME NEW f \in Settings, NEW b, DOMAIN b = 0 .. Lengths[f],
         NEW s \in Strings, Len(s) <= Lengths[f]
  PROVE  DOMAIN Put(b, s) = 0 .. Lengths[f] /\ Text(Put(b, s)) = s
<1> DEFINE n == Len(s)
           p == Put(b, s)
<1>1. Lengths[f] \in Nat /\ n \in 0 .. Lengths[f]
  BY LengthFacts DEF Strings
<1>2. DOMAIN p = 0 .. Lengths[f]
  BY DEF Put
<1>3. p[n] = NUL
  BY <1>1 DEF Put
<1>4. \A k \in 0 .. n - 1 : p[k] = s[k + 1]
  BY <1>1 DEF Put
<1>5. \A k \in 0 .. n - 1 : s[k + 1] \in Characters
  BY <1>1 DEF Strings
<1>6. Holds(p, n)
  BY <1>3, <1>4, <1>5 DEF Holds
<1>7. Text(p) = Word(p, n)
  <2> HIDE DEF n, p
  <2> QED
    BY <1>1, <1>2, <1>6, TextIs
<1>8. Word(p, n) = s
  <2>1. \A k \in 1 .. n : Word(p, n)[k] = s[k]
    BY <1>1, <1>4 DEF Word
  <2>2. Word(p, n) = [k \in 1 .. n |-> s[k]]
    BY <2>1 DEF Word
  <2>3. s = [k \in 1 .. n |-> s[k]]
    BY DEF Strings
  <2> QED
    BY <2>2, <2>3
<1> QED
  BY <1>2, <1>7, <1>8

\* So is any text without a terminator.
LEMMA TextPutAny ==
  ASSUME NEW f \in Settings, NEW b, DOMAIN b = 0 .. Lengths[f],
         NEW X, NUL \notin X, NEW n \in 0 .. Lengths[f], NEW s \in [1 .. n -> X]
  PROVE  Text(Put(b, s)) = s
<1> DEFINE p == Put(b, s)
<1>1. Lengths[f] \in Nat /\ n \in Nat
  BY LengthFacts
<1>2. Len(s) = n
  BY <1>1
<1>3. DOMAIN p = 0 .. Lengths[f]
  BY DEF Put
<1>4. p[n] = NUL /\ \A k \in 0 .. n - 1 : p[k] = s[k + 1]
  BY <1>1, <1>2 DEF Put
<1>5. \A k \in 0 .. n - 1 : s[k + 1] # NUL
  <2>1. \A k \in 0 .. n - 1 : k + 1 \in 1 .. n
    BY <1>1
  <2> QED
    BY <2>1
<1>6. Text(p) = Word(p, n)
  <2> HIDE DEF p
  <2> QED
    BY <1>1, <1>3, <1>4, <1>5, TextOf
<1>7. Word(p, n) = s
  <2>1. \A k \in 1 .. n : Word(p, n)[k] = s[k]
    BY <1>1, <1>4 DEF Word
  <2> QED
    BY <2>1 DEF Word
<1> QED
  BY <1>6, <1>7

\* The text of an array with a terminator in it is shorter than the array, and
\* without terminators.
LEMMA TextFits ==
  ASSUME NEW L \in Nat, NEW b, DOMAIN b = 0 .. L, \E k \in 0 .. L : b[k] = NUL
  PROVE  \E n \in 0 .. L : Text(b) = Word(b, n)
<1>1. PICK S : S = {k \in 0 .. L : b[k] = NUL}
  OBVIOUS
<1>2. S \in SUBSET Nat /\ S # {}
  BY <1>1
<1>3. PICK n \in S : \A e \in S : n <= e
  BY ONLY <1>2, LeastOfNaturals
<1>4. n \in 0 .. L /\ b[n] = NUL
  BY <1>1
<1>5. ASSUME NEW k \in 0 .. n - 1 PROVE b[k] # NUL
  <2>1. k \notin S
    BY <1>3, <1>4
  <2> QED
    BY <1>1, <1>4, <2>1
<1> QED
  BY <1>4, <1>5, TextOf

\* The beginning of a text that a failing write may leave, and a read returns.
LEMMA PrefixFacts ==
  ASSUME NEW s \in Strings, NEW n \in Nat
  PROVE  /\ Prefix(s, n) \in Strings /\ Len(Prefix(s, n)) <= Len(s) /\ Len(Prefix(s, n)) <= n
         /\ Len(s) <= n => Prefix(s, n) = s
<1>1. Len(s) \in Nat
  BY DEF Strings
<1>2. CASE Len(s) <= n
  BY <1>1, <1>2 DEF Prefix
<1>3. CASE ~(Len(s) <= n)
  <2>1. Prefix(s, n) = SubSeq(s, 1, n)
    BY <1>3 DEF Prefix
  <2>2. SubSeq(s, 1, n) \in Strings /\ Len(SubSeq(s, 1, n)) = n
    BY <1>1, <1>3 DEF Strings
  <2> QED
    BY <1>1, <1>3, <2>1, <2>2
<1> QED
  BY <1>2, <1>3

\* parse_fetch_interval refuses the empty string.
LEMMA EmptyIsNoInterval == ~ValidInterval(<<>>)
<1>1. {k \in 1 .. Len(<<>>) : \A m \in 1 .. k : <<>>[m] = Space} = {}
  OBVIOUS
<1>2. Cardinality({}) = 0
  BY FS_EmptySet
<1>3. Numeral(<<>>) = SubSeq(<<>>, 1, 0)
  BY <1>1, <1>2 DEF Numeral
<1>4. SubSeq(<<>>, 1, 0) = <<>>
  OBVIOUS
<1> QED
  BY <1>3, <1>4 DEF ValidInterval

\* An interval that parse_fetch_interval accepts is within the limits.
LEMMA IntervalRange ==
  ASSUME NEW text, ValidInterval(text)
  PROVE  Number(Numeral(text)) \in 10 .. 1000
BY ZenonT(30) DEF ValidInterval

\* bwc_fetch_pace_frames rounds up, and its byte does not cut off: the frames
\* last the interval at least, by less than a frame.
LEMMA FramesAreCeiling ==
  ASSUME NEW ms \in 10 .. 1000
  PROVE  ms <= Frames(ms) * FrameMs /\ Frames(ms) * FrameMs < ms + FrameMs
<1> DEFINE q == (ms + FrameMs - 1) \div FrameMs
<1>1. PICK F \in Nat \ {0} : F = FrameMs
  OBVIOUS
<1>2. q \in Int /\ F * q <= ms + F - 1 /\ ms + F - 1 < F * q + F
  BY <1>1
<1>3. 1000 <= 255 * F
  BY <1>1
<1>4. q <= 255
  <2> HIDE DEF q
  <2>1. SUFFICES ASSUME q >= 256 PROVE FALSE
    BY <1>2
  <2>2. F * (q - 256) >= 0
    BY <1>2, <2>1
  <2>3. F * (q - 256) = F * q - 256 * F
    BY <1>2
  <2> QED
    BY <1>2, <1>3, <2>2, <2>3
<1>5. Frames(ms) = q
  BY <1>4 DEF Frames
<1>6. q * F = F * q /\ F * q \in Int
  <2> HIDE DEF q
  <2> QED
    BY <1>2
<1>7. Frames(ms) * FrameMs = F * q
  BY <1>1, <1>5, <1>6
<1> HIDE DEF q
<1> QED
  BY <1>1, <1>2, <1>6, <1>7

-----------------------------------------------------------------------------
(* The editors.                                                            *)

\* A word is a string of its length.
LEMMA WordFacts ==
  ASSUME NEW b, NEW n \in Nat, \A k \in 0 .. n - 1 : b[k] \in Characters
  PROVE  Word(b, n) \in Strings /\ Len(Word(b, n)) = n /\ DOMAIN Word(b, n) = 1 .. n
<1>1. \A k \in 1 .. n : b[k - 1] \in Characters
  OBVIOUS
<1>2. Word(b, n) \in [1 .. n -> Characters]
  BY <1>1 DEF Word
<1> QED
  BY <1>2 DEF Strings

\* A word that a character is added to.
LEMMA WordLonger ==
  ASSUME NEW b, NEW d, NEW n \in Nat, \A k \in 0 .. n - 1 : b[k] \in Characters,
         \A k \in 0 .. n - 1 : d[k] = b[k]
  PROVE  Word(d, n + 1) = Append(Word(b, n), d[n])
<1> DEFINE w == Word(b, n)
           v == Word(d, n + 1)
<1>1. w \in Strings /\ Len(w) = n
  BY WordFacts
<1>2. v = [k \in 1 .. n + 1 |-> d[k - 1]]
  BY DEF Word
<1>3. \A k \in 1 .. n : w[k] = d[k - 1]
  BY DEF Word
<1> HIDE DEF w, v
<1>4. Append(w, d[n]) = [k \in 1 .. n + 1 |-> IF k = n + 1 THEN d[n] ELSE w[k]]
  BY <1>1 DEF Strings
<1>5. v = [k \in 1 .. n + 1 |-> IF k = n + 1 THEN d[n] ELSE w[k]]
  BY <1>2, <1>3
<1> QED
  BY <1>4, <1>5 DEF w, v

\* A word that its last character is taken from.
LEMMA WordShorter ==
  ASSUME NEW b, NEW d, NEW n \in Nat, \A k \in 0 .. n : b[k] \in Characters,
         \A k \in 0 .. n - 1 : d[k] = b[k]
  PROVE  Word(d, n) = Front(Word(b, n + 1))
<1> DEFINE w == Word(b, n + 1)
           v == Word(d, n)
<1>1. w \in Strings /\ Len(w) = n + 1
  <2>1. \A k \in 0 .. n + 1 - 1 : b[k] \in Characters
    OBVIOUS
  <2> QED
    BY <2>1, WordFacts
<1>2. v = [k \in 1 .. n |-> d[k - 1]]
  BY DEF Word
<1>3. \A k \in 1 .. n : w[k] = d[k - 1]
  BY DEF Word
<1> HIDE DEF w, v
<1>4. Front(w) = SubSeq(w, 1, n)
  BY <1>1 DEF Front
<1>5. SubSeq(w, 1, n) = [k \in 1 .. n |-> w[k]]
  BY <1>1 DEF Strings
<1>6. v = [k \in 1 .. n |-> w[k]]
  BY <1>2, <1>3
<1> QED
  BY <1>4, <1>5, <1>6 DEF w, v

\* What the line editors hold: the string, and how long it is.
LengthOfLine(b) == IF i = LastPlace /\ b[i] # NUL THEN i + 1 ELSE i

\* At every moment of an edit the array holds a string of that length (get_line,
\* title_edit): its places are characters and a terminator follows them.
LEMMA LineHolds ==
  ASSUME field \in Settings, i \in Int, DOMAIN buf[field] = 0 .. Lengths[field],
         LineAt(buf[field])
  PROVE  LengthOfLine(buf[field]) \in 0 .. Lengths[field]
         /\ Holds(buf[field], LengthOfLine(buf[field]))
<1> DEFINE b == buf[field]
           L == Lengths[field]
<1>1. L \in Nat /\ L >= 2 /\ LastPlace = L - 1
  BY LengthFacts DEF LastPlace
<1>2. /\ i \in 0 .. L - 1 /\ \A k \in 0 .. i - 1 : b[k] \in Characters
      /\ \A k \in i + 1 .. L : b[k] = NUL
      /\ b[i] = NUL \/ (i = L - 1 /\ b[i] \in Characters)
  BY <1>1 DEF LineAt
<1> HIDE DEF b, L
<1>3. CASE i = LastPlace /\ b[i] # NUL
  <2>1. LengthOfLine(b) = i + 1 /\ i + 1 = L /\ b[i] \in Characters
    BY <1>1, <1>2, <1>3 DEF LengthOfLine
  <2>2. b[i + 1] = NUL /\ i + 1 \in 0 .. L
    BY <1>1, <1>2, <2>1
  <2>3. \A k \in 0 .. i : b[k] \in Characters
    BY <1>1, <1>2, <2>1
  <2>4. Holds(b, i + 1)
    BY <1>1, <1>2, <2>2, <2>3 DEF Holds
  <2> QED
    BY <2>1, <2>2, <2>4 DEF b, L
<1>4. CASE ~(i = LastPlace /\ b[i] # NUL)
  <2>1. LengthOfLine(b) = i /\ b[i] = NUL
    BY <1>1, <1>2, <1>4 DEF LengthOfLine
  <2>2. Holds(b, i) /\ i \in 0 .. L
    BY <1>1, <1>2, <2>1 DEF Holds
  <2> QED
    BY <2>1, <2>2 DEF b, L
<1> QED
  BY <1>3, <1>4

\* One character typed into a line, at its index.
LEMMA TypeInLineStep ==
  ASSUME TypeOK, ArraysOK, Edited, NEW c \in Characters, TypeInLine(c)
  PROVE  /\ ArraysOK' /\ LineAt(buf[field])' /\ i' \in Int
         /\ IF Len(Text(buf[field])) < Lengths[field]
            THEN Text(buf[field])' = Append(Text(buf[field]), c)
            ELSE /\ Len(Text(buf[field])) = Lengths[field]
                 /\ Text(buf[field])' = Append(Front(Text(buf[field])), c)
<1> DEFINE b == buf[field]
           d == buf'[field]
           L == Lengths[field]
           n == LengthOfLine(b)
<1>1. /\ field \in Settings /\ i \in Int /\ field' = field /\ L \in Nat /\ L >= 2
      /\ DOMAIN b = 0 .. L /\ LastPlace = L - 1
  BY LengthFacts DEF TypeOK, Fields, TypeInLine, Edit, LastPlace, ArraysOK
<1>2. LineAt(b)
  BY DEF Edited, TypeInLine
<1>3. /\ i \in 0 .. L - 1 /\ \A k \in 0 .. i - 1 : b[k] \in Characters
      /\ \A k \in i + 1 .. L : b[k] = NUL
      /\ b[i] = NUL \/ (i = L - 1 /\ b[i] \in Characters)
  BY <1>1, <1>2 DEF LineAt
<1>4. i' = IF i < L - 1 THEN i + 1 ELSE i
  BY <1>1 DEF TypeInLine, Edit
<1>5. buf' = [buf EXCEPT ![field][i] = c]
  BY DEF TypeInLine, Edit
<1>6. /\ ArraysOK' /\ d[i] = c /\ \A k \in 0 .. L : k # i => d[k] = b[k]
  <2>1. i \in 0 .. Lengths[field] /\ field \in Settings
    BY <1>1, <1>3
  <2> HIDE DEF b, d, L, n
  <2>2. PICK f \in Settings : f = field
    BY <2>1
  <2>3. PICK at \in 0 .. Lengths[f] : at = i
    BY <2>1, <2>2
  <2>4. buf' = [buf EXCEPT ![f][at] = c]
    BY <1>5, <2>2, <2>3
  <2>5. /\ ArraysOK' /\ buf'[f][at] = c
        /\ \A k \in 0 .. Lengths[f] : k # at => buf'[f][k] = buf[f][k]
    BY <2>4 DEF ArraysOK
  <2> QED
    BY <2>2, <2>3, <2>5 DEF b, d, L
<1>7. DOMAIN d = 0 .. L
  BY <1>1, <1>6 DEF ArraysOK
<1> HIDE DEF b, d, L
<1>8. i' \in 0 .. L - 1 /\ \A k \in 0 .. i' - 1 : d[k] \in Characters
  <2>1. L \in Nat /\ i' \in 0 .. L - 1 /\ i' - 1 <= i
    BY <1>1, <1>3, <1>4
  <2>2. ASSUME NEW k \in 0 .. i' - 1 PROVE d[k] \in Characters
    <3>1. k \in 0 .. L /\ (k = i \/ k \in 0 .. i - 1)
      <4>1. i \in Nat /\ i <= L - 1 /\ i' \in Nat
        BY <1>3, <2>1
      <4>2. k \in Nat /\ k <= i
        BY <2>1, <4>1
      <4> QED
        BY <2>1, <4>1, <4>2
    <3>2. CASE k = i
      BY <1>6, <3>2
    <3>3. CASE k # i
      BY <1>3, <1>6, <3>1, <3>3
    <3> QED
      BY <3>2, <3>3
  <2> QED
    BY <2>1, <2>2
<1>9. \A k \in i' + 1 .. L : d[k] = NUL
  BY <1>1, <1>3, <1>4, <1>6
<1>10. d[i'] = NUL \/ (i' = L - 1 /\ d[i'] \in Characters)
  BY <1>1, <1>3, <1>4, <1>6
<1>11. LineAt(buf[field])'
  BY <1>1, <1>8, <1>9, <1>10 DEF LineAt, LastPlace, d, L
<1>12. n \in 0 .. L /\ Text(b) = Word(b, n) /\ Text(b) \in Strings /\ Len(Text(b)) = n
  <2>1. n \in 0 .. L /\ Holds(b, n)
    BY <1>1, <1>2, LineHolds DEF ArraysOK, b, L
  <2> HIDE DEF n
  <2> QED
    BY <1>1, <2>1, TextIs
<1>13. /\ LengthOfLine(buf[field])' = i + 1 /\ Text(d) = Word(d, i + 1)
  <2>1. LengthOfLine(buf[field])' = i + 1
    <3>1. LengthOfLine(buf[field])' = IF i' = L - 1 /\ d[i'] # NUL THEN i' + 1 ELSE i'
      BY <1>1 DEF LengthOfLine, LastPlace, d, L
    <3>2. c # NUL
      BY NotNul
    <3> QED
      BY <1>1, <1>3, <1>4, <1>6, <3>1, <3>2
  <2>2. Holds(d, i + 1) /\ i + 1 \in 0 .. L
    <3>1. d[i + 1] = NUL /\ i + 1 \in 0 .. L
      BY <1>1, <1>3, <1>6
    <3>2. \A k \in 0 .. i : d[k] \in Characters
      BY <1>1, <1>3, <1>6
    <3> QED
      BY <1>1, <1>3, <3>1, <3>2 DEF Holds
  <2> QED
    BY <1>1, <1>7, <2>1, <2>2, TextIs
<1>14. CASE b[i] = NUL
  <2>1. n = i
    BY <1>14 DEF LengthOfLine, b
  <2>2. n < L
    BY <1>1, <1>3, <2>1
  <2>3. Word(d, i + 1) = Append(Word(b, i), c)
    BY <1>1, <1>3, <1>6 DEF Word
  <2> QED
    BY <1>1, <1>6, <1>4, <1>3, <1>11, <1>12, <1>13, <2>1, <2>2, <2>3 DEF b, d, L
<1>15. CASE b[i] # NUL
  <2>1. n = i + 1 /\ n = L /\ i = L - 1
    BY <1>1, <1>3, <1>15 DEF LengthOfLine, b
  <2>2. Front(Word(b, n)) = Word(b, i)
    BY <1>1, <1>3, <2>1 DEF Word, Front
  <2>3. Word(d, i + 1) = Append(Word(b, i), c)
    BY <1>1, <1>3, <1>6 DEF Word
  <2> QED
    BY <1>1, <1>6, <1>4, <1>3, <1>11, <1>12, <1>13, <2>1, <2>2, <2>3 DEF b, d, L
<1> QED
  BY <1>14, <1>15

\* A character erased from a line: the one in the last place, or the one before
\* the index.
LEMMA EraseInLineStep ==
  ASSUME TypeOK, ArraysOK, Edited, EraseInLine
  PROVE  /\ ArraysOK' /\ LineAt(buf[field])' /\ i' \in Int
         /\ Text(buf[field]) # <<>> /\ Text(buf[field])' = Front(Text(buf[field]))
<1> DEFINE b == buf[field]
           d == buf'[field]
           L == Lengths[field]
           n == LengthOfLine(b)
<1>1. /\ field \in Settings /\ i \in Int /\ L \in Nat /\ L >= 2 /\ i # 0
      /\ DOMAIN b = 0 .. L /\ LastPlace = L - 1
  BY LengthFacts DEF TypeOK, Fields, EraseInLine, LastPlace, ArraysOK
<1>2. LineAt(b)
  BY DEF Edited, EraseInLine
<1>3. /\ i \in 0 .. L - 1 /\ \A k \in 0 .. i - 1 : b[k] \in Characters
      /\ \A k \in i + 1 .. L : b[k] = NUL
      /\ b[i] = NUL \/ (i = L - 1 /\ b[i] \in Characters)
  BY <1>1, <1>2 DEF LineAt
<1>4. n \in 0 .. L /\ Text(b) = Word(b, n) /\ Text(b) \in Strings /\ Len(Text(b)) = n
  <2>1. n \in 0 .. L /\ Holds(b, n)
    BY <1>1, <1>2, LineHolds DEF ArraysOK, b, L
  <2> HIDE DEF n
  <2> QED
    BY <1>1, <2>1, TextIs
<1>5. n \in 1 .. L /\ (b[i] # NUL => i = L - 1 /\ n = L) /\ (b[i] = NUL => n = i)
  BY <1>1, <1>3, <1>4 DEF LengthOfLine, b
<1>6. /\ buf' = [buf EXCEPT ![field][n - 1] = NUL] /\ i' = n - 1 /\ field' = field
  BY <1>1, <1>3, <1>5 DEF EraseInLine, Edit
<1>7. /\ ArraysOK' /\ DOMAIN d = 0 .. L /\ d[n - 1] = NUL
      /\ \A k \in 0 .. L : k # n - 1 => d[k] = b[k]
  <2> HIDE DEF n
  <2> QED
    BY <1>1, <1>5, <1>6 DEF ArraysOK
<1> HIDE DEF b, d, L, n
<1>8. \A k \in 0 .. n - 2 : d[k] \in Characters
  BY <1>1, <1>3, <1>5, <1>7
<1>9. \A k \in n .. L : d[k] = NUL
  BY <1>1, <1>3, <1>5, <1>7
<1>10. LineAt(buf[field])'
  <2>1. n - 1 \in 0 .. L - 1
    BY <1>1, <1>5
  <2> QED
    BY <1>1, <1>5, <1>6, <1>7, <1>8, <1>9, <2>1 DEF LineAt, LastPlace, d, L
<1>11. Text(d) = Word(d, n - 1)
  <2>1. n - 1 \in 0 .. L /\ Holds(d, n - 1)
    BY <1>1, <1>5, <1>7, <1>8 DEF Holds
  <2> QED
    BY <1>1, <1>7, <2>1, TextIs
<1>12. Word(d, n - 1) = Front(Word(b, n))
  <2>1. PICK m \in Nat : m = n - 1
    BY <1>1, <1>5
  <2>2. n = m + 1 /\ \A k \in 0 .. m - 1 : d[k] = b[k]
    BY <1>1, <1>5, <1>7, <2>1
  <2>3. \A k \in 0 .. m : b[k] \in Characters
    BY <1>1, <1>3, <1>5, <2>1
  <2>4. Word(d, m) = Front(Word(b, m + 1))
    BY <2>2, <2>3, WordShorter
  <2> QED
    BY <2>1, <2>2, <2>4
<1>13. Text(b) # <<>>
  BY <1>4, <1>5
<1> QED
  BY <1>1, <1>4, <1>5, <1>6, <1>7, <1>10, <1>11, <1>12, <1>13 DEF b, d

\* A character typed into title_edit's line: room for it is left.
LEMMA TypeInTitleStep ==
  ASSUME TypeOK, ArraysOK, Edited, NEW c \in Characters, TypeInTitle(c)
  PROVE  /\ ArraysOK' /\ TitleAt(buf[field])' /\ i' \in Int
         /\ Len(Text(buf[field])) < LastPlace
         /\ Text(buf[field])' = Append(Text(buf[field]), c)
<1> DEFINE b == buf[field]
           d == buf'[field]
           L == Lengths[field]
<1>1. /\ field \in Settings /\ i \in Int /\ L \in Nat /\ L >= 2 /\ field' = field
      /\ DOMAIN b = 0 .. L /\ LastPlace = L - 1 /\ i' = i + 1 /\ i < L - 1
  BY LengthFacts DEF TypeOK, Fields, TypeInTitle, LastPlace, ArraysOK
<1>2. i \in 0 .. L - 1 /\ Holds(b, i)
  BY <1>1 DEF Edited, TypeInTitle, TitleAt
<1>3. buf' = [buf EXCEPT ![field][i] = c, ![field][i + 1] = NUL]
  BY DEF TypeInTitle
<1>4. /\ ArraysOK' /\ DOMAIN d = 0 .. L /\ d[i] = c /\ d[i + 1] = NUL
      /\ \A k \in 0 .. L : k # i /\ k # i + 1 => d[k] = b[k]
  BY <1>1, <1>2, <1>3 DEF ArraysOK
<1>5. Text(b) = Word(b, i) /\ Text(b) \in Strings /\ Len(Text(b)) = i
  <2> HIDE DEF b, L
  <2>1. i \in 0 .. L
    BY <1>1, <1>2
  <2> QED
    BY <1>1, <1>2, <2>1, TextIs
<1> HIDE DEF b, d, L
<1>6. i + 1 \in 0 .. L /\ Holds(d, i + 1)
  <2>1. \A k \in 0 .. i : d[k] \in Characters
    BY <1>1, <1>2, <1>4 DEF Holds
  <2> QED
    BY <1>1, <1>2, <1>4, <2>1 DEF Holds
<1>7. Text(d) = Word(d, i + 1)
  BY <1>1, <1>4, <1>6, TextIs
<1>8. Word(d, i + 1) = Append(Word(b, i), c)
  <2>1. PICK m \in Nat : m = i
    BY <1>1, <1>2
  <2>2. \A k \in 0 .. m - 1 : d[k] = b[k]
    BY <1>1, <1>2, <1>4, <2>1
  <2>3. \A k \in 0 .. m - 1 : b[k] \in Characters
    BY <1>2, <2>1 DEF Holds
  <2>4. Word(d, m + 1) = Append(Word(b, m), d[m])
    BY ONLY <2>2, <2>3, m \in Nat, WordLonger
  <2> QED
    BY <1>4, <2>1, <2>4
<1>9. TitleAt(buf[field])'
  <2>1. i + 1 \in 0 .. L - 1
    BY <1>1, <1>2
  <2> QED
    BY <1>1, <1>6, <2>1 DEF TitleAt, LastPlace, Holds, d, L
<1> QED
  BY <1>1, <1>2, <1>4, <1>5, <1>7, <1>8, <1>9 DEF b, d

\* A character erased from title_edit's line.
LEMMA EraseInTitleStep ==
  ASSUME TypeOK, ArraysOK, Edited, EraseInTitle
  PROVE  /\ ArraysOK' /\ TitleAt(buf[field])' /\ i' \in Int
         /\ Text(buf[field]) # <<>> /\ Text(buf[field])' = Front(Text(buf[field]))
<1> DEFINE b == buf[field]
           d == buf'[field]
           L == Lengths[field]
<1>1. /\ field \in Settings /\ i \in Int /\ L \in Nat /\ L >= 2 /\ field' = field
      /\ DOMAIN b = 0 .. L /\ LastPlace = L - 1 /\ i' = i - 1 /\ i # 0
  BY LengthFacts DEF TypeOK, Fields, EraseInTitle, Edit, LastPlace, ArraysOK
<1>2. i \in 0 .. L - 1 /\ Holds(b, i)
  BY <1>1 DEF Edited, EraseInTitle, TitleAt
<1>3. buf' = [buf EXCEPT ![field][i - 1] = NUL]
  BY DEF EraseInTitle, Edit
<1>4. /\ ArraysOK' /\ DOMAIN d = 0 .. L /\ d[i - 1] = NUL
      /\ \A k \in 0 .. L : k # i - 1 => d[k] = b[k]
  BY <1>1, <1>2, <1>3 DEF ArraysOK
<1>5. Text(b) = Word(b, i) /\ Text(b) \in Strings /\ Len(Text(b)) = i
  <2> HIDE DEF b, L
  <2>1. i \in 0 .. L
    BY <1>1, <1>2
  <2> QED
    BY <1>1, <1>2, <2>1, TextIs
<1> HIDE DEF b, d, L
<1>6. i - 1 \in 0 .. L /\ Holds(d, i - 1)
  BY <1>1, <1>2, <1>4 DEF Holds
<1>7. Text(d) = Word(d, i - 1)
  BY <1>1, <1>4, <1>6, TextIs
<1>8. Word(d, i - 1) = Front(Word(b, i))
  BY <1>1, <1>2, <1>4 DEF Word, Front
<1>9. TitleAt(buf[field])'
  <2>1. i - 1 \in 0 .. L - 1
    BY <1>1, <1>2
  <2> QED
    BY <1>1, <1>6, <2>1 DEF TitleAt, LastPlace, Holds, d, L
<1>10. Text(b) # <<>>
  BY <1>1, <1>2, <1>5
<1> QED
  BY <1>1, <1>4, <1>5, <1>7, <1>8, <1>9, <1>10 DEF b, d

-----------------------------------------------------------------------------
(* The settings.                                                           *)

\* appstore_write_setting, whatever becomes of the write: what the user believes
\* to be stored is.
LEMMA WriteSettingStep ==
  ASSUME TypeOK, StoredOK, IntervalStored, NEW text \in Strings, Len(text) <= Lengths[field],
         field = "interval" => ValidInterval(text), WriteSetting(text)
  PROVE  /\ store' \in [Settings -> Strings] /\ kept' \in [Settings -> Strings \cup {Unknown}]
         /\ StoredOK' /\ IntervalStored'
         /\ \A f \in Settings : f # field => kept'[f] = kept[f]
<1>1. field \in Settings /\ store \in [Settings -> Strings]
      /\ kept \in [Settings -> Strings \cup {Unknown}]
  BY DEF TypeOK, Fields
<1>2. Len(text) \in Nat /\ \A f \in Settings : Lengths[f] \in Nat
  BY LengthFacts DEF Strings
<1>3. /\ \A f \in Settings : f # field => store'[f] = store[f] /\ kept'[f] = kept[f]
      /\ store'[field] \in Strings /\ Len(store'[field]) <= Lengths[field]
      /\ kept'[field] \in {text, Unknown} /\ (kept'[field] # Unknown => store'[field] = kept'[field])
      /\ store' \in [Settings -> Strings] /\ kept' \in [Settings -> Strings \cup {Unknown}]
  <2>1. CASE store' = [store EXCEPT ![field] = text] /\ kept' = [kept EXCEPT ![field] = text]
    BY <1>1, <2>1
  <2>2. CASE kept' = [kept EXCEPT ![field] = Unknown]
    <3>1. /\ kept'[field] = Unknown /\ kept' \in [Settings -> Strings \cup {Unknown}]
          /\ \A f \in Settings : f # field => kept'[f] = kept[f]
      BY <1>1, <2>2
    <3>2. CASE \E n \in 0 .. Len(text) - 1 : store' = [store EXCEPT ![field] = Prefix(text, n)]
      <4>1. PICK n \in 0 .. Len(text) - 1 : store' = [store EXCEPT ![field] = Prefix(text, n)]
        BY <3>2
      <4>2. n \in Nat
        OBVIOUS
      <4>3. Prefix(text, n) \in Strings /\ Len(Prefix(text, n)) <= Len(text)
        BY <4>2, PrefixFacts
      <4>4. Len(Prefix(text, n)) \in Nat
        BY <4>3 DEF Strings
      <4>5. Len(Prefix(text, n)) <= Lengths[field]
        BY <1>1, <1>2, <4>3, <4>4
      <4> QED
        BY <1>1, <3>1, <4>1, <4>3, <4>5
    <3>3. CASE store' = store
      BY <1>1, <3>1, <3>3 DEF StoredOK
    <3>4. CASE store' = [store EXCEPT ![field] = text]
      BY <1>1, <3>1, <3>4
    <3> QED
      BY <2>2, <3>2, <3>3, <3>4 DEF WriteSetting
  <2> QED
    BY <2>1, <2>2 DEF WriteSetting
<1>4. StoredOK'
  BY <1>1, <1>3 DEF StoredOK
<1>5. IntervalStored'
  <2>1. CASE field = "interval"
    BY <1>3, <2>1 DEF IntervalStored
  <2>2. CASE field # "interval"
    <3>1. kept'["interval"] = kept["interval"]
      BY <1>3, <2>2 DEF Settings
    <3> QED
      BY <3>1 DEF IntervalStored
  <2> QED
    BY <2>1, <2>2
<1> QED
  BY <1>3, <1>4, <1>5

\* The string that was edited: what get_info stores.
LEMMA EditedText ==
  ASSUME TypeOK, ArraysOK, Edited, pc = "apply"
  PROVE  Text(buf[field]) \in Strings /\ Len(Text(buf[field])) <= Lengths[field]
<1>1. field \in Settings /\ Lengths[field] \in Nat
  BY LengthFacts DEF TypeOK, Fields
<1> DEFINE b == buf[field]
           L == Lengths[field]
<1>2. DOMAIN b = 0 .. L
  BY <1>1 DEF ArraysOK
<1>3. PICK n \in 0 .. L : Holds(b, n)
  BY DEF Edited
<1> HIDE DEF b, L
<1>4. Text(b) \in Strings /\ Len(Text(b)) = n
  BY <1>1, <1>2, <1>3, TextIs DEF L
<1> QED
  BY <1>1, <1>3, <1>4 DEF b, L

-----------------------------------------------------------------------------
(* The steps.                                                              *)

\* What stays true while neither the storage nor what was read is touched.
LEMMA StorageStays ==
  ASSUME IInv, UNCHANGED <<target, fetch_interval_ms, store, kept, loaded>>,
         \A f \in loaded : buf'[f] = buf[f]
  PROVE  /\ (target \in Targets)' /\ (fetch_interval_ms \in 10 .. 1000)'
         /\ (store \in [Settings -> Strings])' /\ (kept \in [Settings -> Strings \cup {Unknown}])'
         /\ (loaded \subseteq Fields)' /\ StoredOK' /\ IntervalStored' /\ Loaded'
<1>1. StoredOK' /\ IntervalStored'
  BY DEF IInv, StoredOK, IntervalStored
<1>2. Loaded'
  <2>1. Loaded
    BY DEF IInv
  <2> QED
    BY <2>1 DEF Loaded
<1>3. Fields' = Fields
  BY DEF Fields
<1> QED
  BY <1>1, <1>2, <1>3 DEF IInv, TypeOK

\* get_info's loop is left alone by what happens in other places of the program.
LEMMA OtherStep ==
  ASSUME IInv, UNCHANGED <<target, buf, fetch_interval_ms, store, kept, loaded, field, i>>,
         pc' \in {"menu", "launched", "registered", "exited"}
  PROVE  IInv'
<1>1. TypeOK'
  BY StorageStays DEF IInv, TypeOK, Fields, Stages
<1>2. ArraysOK'
  BY DEF IInv, ArraysOK
<1>3. Edited'
  BY DEF Edited
<1> QED
  BY <1>1, <1>2, <1>3, StorageStays DEF IInv

\* The menu's letters.
LEMMA ChooseInv ==
  ASSUME IInv, NEW f \in Fields, Choose(f)
  PROVE  IInv'
<1>1. /\ pc' = "edit" /\ field' = f /\ i' = 0 /\ buf' = [buf EXCEPT ![f] = Blank(f)]
      /\ loaded' = loaded \ {f}
      /\ UNCHANGED <<target, fetch_interval_ms, store, kept>>
  BY DEF Choose
<1>2. f \in Settings /\ Fields' = Fields
  BY <1>1 DEF Fields
<1>3. TypeOK'
  BY <1>1, <1>2 DEF IInv, TypeOK, Stages
<1>4. ArraysOK'
  BY <1>1, <1>2, TextEmpty DEF IInv, ArraysOK
<1>5. buf'[f] = Blank(f) /\ \A g \in Settings : g # f => buf'[g] = buf[g]
  BY <1>1, <1>2 DEF IInv, ArraysOK
<1>6. Edited'
  <2>1. Lengths[f] \in Nat /\ Lengths[f] >= 2
    BY <1>2, LengthFacts
  <2>2. 0 \in 0 .. Lengths[f] - 1
    BY <2>1
  <2>3. /\ Holds(Blank(f), 0) /\ \A k \in 0 .. Lengths[f] : Blank(f)[k] = NUL
    BY <1>2, TextEmpty
  <2>4. TitleAt(buf[field])'
    BY <1>1, <1>5, <2>2, <2>3 DEF TitleAt, LastPlace, Holds
  <2>5. LineAt(buf[field])'
    BY <1>1, <1>5, <2>1, <2>2, <2>3 DEF LineAt, LastPlace
  <2> QED
    BY <1>1, <2>4, <2>5 DEF Edited
<1>7. StoredOK' /\ IntervalStored'
  BY <1>1 DEF IInv, StoredOK, IntervalStored
<1>8. Loaded'
  <2>1. \A g \in loaded' : g \in loaded /\ buf'[g] = buf[g]
    BY <1>1, <1>5 DEF IInv, TypeOK, Fields
  <2>2. Loaded
    BY DEF IInv
  <2> QED
    BY <1>1, <2>1, <2>2 DEF Loaded
<1> QED
  BY <1>3, <1>4, <1>6, <1>7, <1>8 DEF IInv

\* A character typed or erased.
LEMMA EditorInv ==
  ASSUME IInv, \/ \E c \in Keys[field] : TypeInLine(c) \/ TypeInTitle(c)
               \/ EraseInLine \/ EraseInTitle
  PROVE  IInv'
<1>1. TypeOK /\ ArraysOK /\ Edited /\ field \in Settings
  BY DEF IInv, TypeOK, Fields
<1>2. \A c \in Keys[field] : c \in Characters
  BY <1>1 DEF Characters
<1>3. /\ pc = "edit" /\ pc' = pc /\ UNCHANGED <<target, fetch_interval_ms, store, kept, loaded, field>>
  BY DEF TypeInLine, TypeInTitle, EraseInLine, EraseInTitle, Edit, history
<1>4. \A f \in Settings : f # field => buf'[f] = buf[f]
  BY <1>1 DEF ArraysOK, TypeInLine, TypeInTitle, EraseInLine, EraseInTitle, Edit
<1>5. field \notin loaded /\ loaded \subseteq Settings
  BY <1>1, <1>3 DEF Edited, TypeOK, Fields
<1>6. ArraysOK' /\ i' \in Int /\ (IF target.title THEN TitleAt(buf[field])' ELSE LineAt(buf[field])')
  <2>1. ASSUME NEW c \in Keys[field], TypeInLine(c)
        PROVE  ArraysOK' /\ i' \in Int /\ ~target.title /\ LineAt(buf[field])'
    BY <1>1, <1>2, <2>1, TypeInLineStep DEF TypeInLine
  <2>2. ASSUME NEW c \in Keys[field], TypeInTitle(c)
        PROVE  ArraysOK' /\ i' \in Int /\ target.title /\ TitleAt(buf[field])'
    BY <1>1, <1>2, <2>2, TypeInTitleStep DEF TypeInTitle
  <2>3. CASE EraseInLine
    BY <1>1, <2>3, EraseInLineStep DEF EraseInLine
  <2>4. CASE EraseInTitle
    BY <1>1, <2>4, EraseInTitleStep DEF EraseInTitle
  <2> QED
    BY <2>1, <2>2, <2>3, <2>4
<1>7. TypeOK'
  BY <1>1, <1>3, <1>6 DEF TypeOK, Fields
<1>8. Edited'
  BY <1>3, <1>5, <1>6 DEF Edited
<1>9. \A f \in loaded : buf'[f] = buf[f]
  BY <1>4, <1>5
<1> QED
  BY <1>3, <1>6, <1>7, <1>8, <1>9, StorageStays DEF IInv

\* Enter: what was edited is a string of the array's.
LEMMA EnterInv ==
  ASSUME IInv, Enter
  PROVE  IInv'
<1>1. /\ pc = "edit" /\ pc' = "apply"
      /\ UNCHANGED <<target, buf, fetch_interval_ms, store, kept, loaded, field, i>>
  BY DEF Enter, settings, history
<1>2. TypeOK /\ ArraysOK /\ Edited /\ field \in Settings /\ i \in Int
  BY DEF IInv, TypeOK, Fields
<1>3. TypeOK'
  BY <1>1, <1>2, StorageStays DEF IInv, TypeOK, Fields, Stages
<1>4. ArraysOK'
  BY <1>1, <1>2 DEF ArraysOK
<1>5. \E n \in 0 .. Lengths[field] : Holds(buf[field], n)
  <2>1. CASE target.title
    <3>1. i \in 0 .. LastPlace /\ Holds(buf[field], i)
      BY <1>1, <1>2, <2>1 DEF Edited, TitleAt
    <3>2. i \in 0 .. Lengths[field]
      BY <1>2, <3>1, LengthFacts DEF LastPlace
    <3> QED
      BY <3>1, <3>2
  <2>2. CASE ~target.title
    <3>1. LineAt(buf[field]) /\ DOMAIN buf[field] = 0 .. Lengths[field]
      BY <1>1, <1>2, <2>2 DEF Edited, ArraysOK
    <3> QED
      BY <1>2, <3>1, LineHolds
  <2> QED
    BY <2>1, <2>2
<1>6. Edited'
  BY <1>1, <1>2, <1>5 DEF Edited, Holds
<1> QED
  BY <1>1, <1>3, <1>4, <1>6, StorageStays DEF IInv

\* An endpoint or a name is stored.
LEMMA ApplyTextInv ==
  ASSUME IInv, ApplyText
  PROVE  IInv'
<1>1. /\ pc = "apply" /\ pc' = "menu" /\ field # "interval" /\ WriteSetting(Text(buf[field]))
      /\ UNCHANGED <<target, buf, fetch_interval_ms, loaded, field, i>>
  BY DEF ApplyText, settings
<1>2. TypeOK /\ ArraysOK /\ Edited /\ StoredOK /\ IntervalStored /\ Loaded
  BY DEF IInv
<1>3. PICK text \in Strings : text = Text(buf[field]) /\ Len(text) <= Lengths[field]
  BY <1>1, <1>2, EditedText
<1>4. /\ store' \in [Settings -> Strings] /\ kept' \in [Settings -> Strings \cup {Unknown}]
      /\ StoredOK' /\ IntervalStored'
      /\ \A f \in Settings : f # field => kept'[f] = kept[f]
  BY <1>1, <1>2, <1>3, WriteSettingStep
<1>5. TypeOK'
  BY <1>1, <1>2, <1>4 DEF TypeOK, Fields, Stages
<1>6. ArraysOK' /\ Edited'
  BY <1>1, <1>2 DEF ArraysOK, Edited
<1>7. Loaded'
  <2>1. \A f \in loaded : f # field /\ f \in Settings
    BY <1>1, <1>2 DEF Edited, TypeOK, Fields
  <2>2. \A f \in loaded : kept'[f] = kept[f]
    BY <1>4, <2>1
  <2> QED
    BY <1>1, <1>2, <2>2 DEF Loaded
<1> QED
  BY <1>4, <1>5, <1>6, <1>7 DEF IInv

\* A fetch interval is taken and stored, or refused.
LEMMA ApplyIntervalInv ==
  ASSUME IInv, ApplyInterval
  PROVE  IInv'
<1>1. /\ pc = "apply" /\ pc' = "menu" /\ field = "interval"
      /\ buf' = [buf EXCEPT !["interval"] = Put(@, itoa(fetch_interval_ms'))]
      /\ UNCHANGED <<target, loaded, field, i>>
  BY DEF ApplyInterval, ShowInterval
<1>2. TypeOK /\ ArraysOK /\ Edited /\ StoredOK /\ IntervalStored /\ Loaded
  BY DEF IInv
<1>3. PICK text \in Strings : text = Text(buf[field]) /\ Len(text) <= Lengths[field]
  BY <1>1, <1>2, EditedText
<1>4. \/ /\ ValidInterval(text) /\ fetch_interval_ms' = Number(Numeral(text))
         /\ WriteSetting(text)
      \/ UNCHANGED <<fetch_interval_ms, store, kept>>
  BY <1>1, <1>3 DEF ApplyInterval
<1>5. fetch_interval_ms' \in 10 .. 1000
  <2>1. CASE ValidInterval(text) /\ fetch_interval_ms' = Number(Numeral(text))
    BY <2>1, IntervalRange
  <2>2. CASE UNCHANGED fetch_interval_ms
    BY <1>2, <2>2 DEF TypeOK
  <2> QED
    BY <1>4, <2>1, <2>2
<1>6. /\ store' \in [Settings -> Strings] /\ kept' \in [Settings -> Strings \cup {Unknown}]
      /\ StoredOK' /\ IntervalStored'
      /\ \A f \in Settings : f # field => kept'[f] = kept[f]
  <2>1. CASE ValidInterval(text) /\ WriteSetting(text)
    BY <1>1, <1>2, <1>3, <2>1, WriteSettingStep
  <2>2. CASE UNCHANGED <<store, kept>>
    BY <1>2, <2>2 DEF TypeOK, StoredOK, IntervalStored
  <2> QED
    BY <1>4, <2>1, <2>2
<1>7. TypeOK'
  BY <1>1, <1>2, <1>5, <1>6 DEF TypeOK, Fields, Stages
<1>8. ArraysOK' /\ \A f \in Settings : f # "interval" => buf'[f] = buf[f]
  <2>1. DOMAIN Put(buf["interval"], itoa(fetch_interval_ms')) = DOMAIN buf["interval"]
    BY DEF Put
  <2> QED
    BY <1>1, <1>2, <2>1 DEF ArraysOK
<1>9. Edited'
  BY <1>1 DEF Edited
<1>10. Loaded'
  <2>1. \A f \in loaded : f # "interval" /\ f \in Settings
    BY <1>1, <1>2 DEF Edited, TypeOK, Fields
  <2>2. \A f \in loaded : kept'[f] = kept[f] /\ buf'[f] = buf[f]
    BY <1>1, <1>6, <1>8, <2>1
  <2> QED
    BY <1>1, <1>2, <2>1, <2>2 DEF Loaded
<1> QED
  BY <1>6, <1>7, <1>8, <1>9, <1>10 DEF IInv

\* get_info up to its loop: what is read is what was believed to be stored.
LEMMA WelcomeScreenInv ==
  ASSUME IInv, WelcomeScreen
  PROVE  IInv'
<1>1. PICK failing \in SUBSET Fields :
        LET read == [f \in Settings |-> IF f \in failing THEN <<>> ELSE Stored(f)]
        IN  /\ buf' = [f \in Settings |->
                         IF f \in Fields THEN Put(Blank(f), Shown(f, read[f])) ELSE buf[f]]
            /\ \/ target.pacing /\ StartInterval(read["interval"])
               \/ ~target.pacing /\ UNCHANGED fetch_interval_ms
            /\ loaded' = Fields \ failing
  BY DEF WelcomeScreen
<1>2. pc' = "menu" /\ UNCHANGED <<target, store, field, i, kept>>
  BY DEF WelcomeScreen
<1> DEFINE read == [f \in Settings |-> IF f \in failing THEN <<>> ELSE Stored(f)]
<1>3. TypeOK /\ ArraysOK /\ StoredOK /\ IntervalStored /\ Fields \subseteq Settings
      /\ Fields' = Fields
  BY <1>2 DEF IInv, Fields
<1>4. \A f \in Settings : Stored(f) = store[f] /\ store[f] \in Strings
  <2> SUFFICES ASSUME NEW f \in Settings PROVE Stored(f) = store[f] /\ store[f] \in Strings
    OBVIOUS
  <2>1. store[f] \in Strings /\ Len(store[f]) <= Lengths[f] /\ Lengths[f] \in Nat
    BY <1>3, LengthFacts DEF TypeOK, StoredOK
  <2>2. PICK s \in Strings : s = store[f]
    BY <2>1
  <2>3. PICK n \in Nat : n = Lengths[f]
    BY <2>1
  <2>4. Prefix(s, n) = s
    BY <2>1, <2>2, <2>3, PrefixFacts
  <2> QED
    BY <2>1, <2>2, <2>3, <2>4 DEF Stored
<1>5. \A f \in Settings \ failing : read[f] = store[f]
  BY <1>4
<1>6. /\ buf' = [f \in Settings |->
                   IF f \in Fields THEN Put(Blank(f), Shown(f, read[f])) ELSE buf[f]]
      /\ \/ target.pacing /\ StartInterval(read["interval"])
         \/ ~target.pacing /\ UNCHANGED fetch_interval_ms
      /\ loaded' = Fields \ failing
  BY <1>1
<1> HIDE DEF read
<1>7. ArraysOK'
  <2>1. \A f \in Settings : DOMAIN Put(Blank(f), Shown(f, read[f])) = 0 .. Lengths[f]
    BY DEF Put, Blank
  <2> QED
    BY <1>3, <1>6, <2>1 DEF ArraysOK
<1>8. fetch_interval_ms' \in 10 .. 1000
  <2>1. CASE ~target.pacing /\ UNCHANGED fetch_interval_ms
    BY <1>3, <2>1 DEF TypeOK
  <2>2. CASE target.pacing /\ StartInterval(read["interval"])
    <3>1. PICK text : text = read["interval"]
      OBVIOUS
    <3>2. fetch_interval_ms' = IF ValidInterval(text) THEN Number(Numeral(text)) ELSE Default
      BY <2>2, <3>1 DEF StartInterval
    <3>3. CASE ValidInterval(text)
      BY <3>2, <3>3, IntervalRange
    <3>4. CASE ~ValidInterval(text)
      BY <3>2, <3>4 DEF Default
    <3> QED
      BY <3>3, <3>4
  <2> QED
    BY <1>6, <2>1, <2>2
<1>9. TypeOK'
  BY <1>2, <1>3, <1>6, <1>8 DEF TypeOK, Stages
<1>10. Edited'
  BY <1>2 DEF Edited
<1>11. StoredOK' /\ IntervalStored'
  BY <1>2, <1>3 DEF StoredOK, IntervalStored
<1>12. Loaded'
  <2> SUFFICES ASSUME NEW f \in Fields \ failing, kept[f] # Unknown
               PROVE  IF f = "interval"
                      THEN fetch_interval_ms' = IF kept[f] = <<>> THEN Default
                                                ELSE Number(Numeral(kept[f]))
                      ELSE Text(buf'[f]) = kept[f]
    BY <1>2, <1>6 DEF Loaded
  <2>1. f \in Settings /\ read[f] = kept[f] /\ read[f] \in Strings /\ Len(read[f]) <= Lengths[f]
    BY <1>3, <1>4, <1>5 DEF StoredOK
  <2>2. CASE f = "interval"
    <3>1. target.pacing
      BY <2>2 DEF Fields
    <3>2. StartInterval(kept["interval"])
      BY <1>6, <2>1, <2>2, <3>1
    <3>3. kept["interval"] = <<>> \/ ValidInterval(kept["interval"])
      BY <1>3, <2>2 DEF IntervalStored
    <3> QED
      BY <2>2, <3>2, <3>3, EmptyIsNoInterval DEF StartInterval
  <2>3. CASE f # "interval"
    <3>1. Shown(f, read[f]) = read[f]
      BY <2>3 DEF Shown
    <3>2. buf'[f] = Put(Blank(f), read[f])
      BY <1>6, <2>1, <3>1
    <3>3. DOMAIN Blank(f) = 0 .. Lengths[f]
      BY <2>1, TextEmpty
    <3>4. PICK s \in Strings : s = read[f]
      BY <2>1
    <3>5. Text(Put(Blank(f), s)) = s
      BY <2>1, <3>3, <3>4, TextPut
    <3> QED
      BY <2>1, <2>3, <3>2, <3>4, <3>5
  <2> QED
    BY <2>2, <2>3
<1> QED
  BY <1>7, <1>9, <1>10, <1>11, <1>12 DEF IInv

\* The program is started again.
LEMMA RestartInv ==
  ASSUME IInv, Restart
  PROVE  IInv'
<1>1. pc' = "start" /\ loaded' = {} /\ UNCHANGED <<target, store, field, i, kept>>
  BY DEF Restart
<1>2. \/ UNCHANGED <<buf, fetch_interval_ms>>
      \/ buf' = [f \in Settings |-> Blank(f)] /\ fetch_interval_ms' = Default
  BY DEF Restart, settings
<1>3. TypeOK'
  BY <1>1, <1>2 DEF IInv, TypeOK, Fields, Default, Stages
<1>4. ArraysOK'
  BY <1>2, TextEmpty DEF IInv, ArraysOK
<1>5. Edited' /\ Loaded'
  BY <1>1 DEF Edited, Loaded
<1>6. StoredOK' /\ IntervalStored'
  BY <1>1 DEF IInv, StoredOK, IntervalStored
<1> QED
  BY <1>3, <1>4, <1>5, <1>6 DEF IInv

\* The invariant of the set-up holds in every behaviour, over any number of runs
\* of the program and of failing reads and writes.
THEOREM SetupInvariant == Spec => []IInv
<1>1. Init => IInv
  <2> SUFFICES ASSUME Init PROVE IInv
    OBVIOUS
  <2>1. TypeOK
    <3>1. <<>> \in Strings
      BY DEF Strings
    <3> QED
      BY <3>1 DEF Init, TypeOK, Stages, Fields, Settings, Default
  <2>2. ArraysOK
    BY TextEmpty DEF Init, ArraysOK
  <2>3. Edited /\ Loaded
    BY DEF Init, Edited, Loaded
  <2>4. StoredOK /\ IntervalStored
    <3>1. \A f \in Settings : store[f] = <<>> /\ kept[f] = <<>> /\ Lengths[f] \in Nat
      BY LengthFacts DEF Init
    <3>2. Len(<<>>) = 0
      OBVIOUS
    <3> QED
      BY <3>1, <3>2 DEF StoredOK, IntervalStored, Settings
  <2> QED
    BY <2>1, <2>2, <2>3, <2>4 DEF IInv
<1>2. IInv /\ [Next]_vars => IInv'
  <2> SUFFICES ASSUME IInv, [Next]_vars PROVE IInv'
    OBVIOUS
  <2>1. CASE WelcomeScreen
    BY <2>1, WelcomeScreenInv
  <2>2. CASE \E f \in Fields : Choose(f)
    BY <2>2, ChooseInv
  <2>3. CASE \/ \E c \in Keys[field] : TypeInLine(c) \/ TypeInTitle(c)
             \/ EraseInLine \/ EraseInTitle
    BY <2>3, EditorInv
  <2>4. CASE Enter
    BY <2>4, EnterInv
  <2>5. CASE ApplyText
    BY <2>5, ApplyTextInv
  <2>6. CASE ApplyInterval
    BY <2>6, ApplyIntervalInv
  <2>7. CASE Launch \/ Register
    <3>1. UNCHANGED <<target, buf, fetch_interval_ms, store, kept, loaded, field, i>>
      BY <2>7 DEF Launch, Register, settings, history
    <3>2. pc' \in {"menu", "launched", "registered", "exited"}
      BY <2>7 DEF Launch, Register
    <3> QED
      BY <3>1, <3>2, OtherStep
  <2>8. CASE Restart
    BY <2>8, RestartInv
  <2>9. CASE UNCHANGED vars
    <3>1. UNCHANGED <<target, buf, fetch_interval_ms, store, kept, loaded, field, i, pc>>
      BY <2>9 DEF vars, settings, history
    <3>2. TypeOK'
      BY <3>1, StorageStays DEF IInv, TypeOK, Fields
    <3>3. ArraysOK' /\ Edited'
      BY <3>1 DEF IInv, ArraysOK, Edited, TitleAt, LineAt, LastPlace, Holds
    <3> QED
      BY <3>1, <3>2, <3>3, StorageStays DEF IInv
  <2> QED
    BY <2>1, <2>2, <2>3, <2>4, <2>5, <2>6, <2>7, <2>8, <2>9 DEF Next
<1> QED
  BY <1>1, <1>2, PTL DEF Spec

\* A setting whose storing was not reported as failed is the one the next run
\* starts with (get_info, appstore_settings.c).
THEOREM SettingsAreKept == Spec => []SettingsKept
<1>1. IInv => SettingsKept
  BY DEF IInv, Loaded, SettingsKept
<1> QED
  BY <1>1, SetupInvariant, PTL

\* The frames of a valid interval.
LEMMA IsPaced ==
  ASSUME NEW ms \in 10 .. 1000
  PROVE  Paced(ms)
<1>1. ms <= Frames(ms) * FrameMs /\ Frames(ms) * FrameMs < ms + FrameMs
  BY FramesAreCeiling
<1> QED
  BY ONLY <1>1 DEF Paced

\* Whatever interval is set, read or refused, the loop's frames are a rate
\* ceiling for it (bwc_fetch_pace_frames, parse_fetch_interval), in every state,
\* and not only while the menu shows it.
THEOREM IntervalIsPaced == Spec => []Paced(fetch_interval_ms)
<1>1. IInv => Paced(fetch_interval_ms)
  <2> SUFFICES ASSUME IInv PROVE Paced(fetch_interval_ms)
    OBVIOUS
  <2>1. PICK ms \in 10 .. 1000 : ms = fetch_interval_ms
    BY DEF IInv, TypeOK
  <2>2. Paced(ms)
    BY IsPaced
  <2> QED
    BY <2>1, <2>2
<1> QED
  BY <1>1, SetupInvariant, PTL

-----------------------------------------------------------------------------
(* What the welcome screen shows of the interval.                          *)

ShownOK ==
  LET shown == Text(buf["interval"])
  IN  shown # <<>> => ValidInterval(shown) /\ Number(Numeral(shown)) = fetch_interval_ms

\* The interval's field shows the interval in use, but while it is edited.
IntervalShown ==
  target.pacing /\ (pc = "menu" \/ (pc \in {"edit", "apply"} /\ field # "interval")) => ShownOK

\* The field shows an interval.
Shows(b, v) == ValidInterval(Text(b)) /\ Number(Numeral(Text(b))) = v

\* What itoa writes into the field is what the field shows.
LEMMA ShowFigures ==
  ASSUME NEW b, DOMAIN b = 0 .. Lengths["interval"], NEW v, v \in 10 .. 1000
  PROVE  Shows(Put(b, itoa(v)), v)
<1>1. PICK n \in 1 .. 4 : itoa(v) \in [1 .. n -> Range(Digits)]
  BY IntervalText
<1>2. "interval" \in Settings /\ n \in 0 .. Lengths["interval"]
  BY LengthAssumption DEF Settings
<1>3. NUL \notin Range(Digits)
  BY Decimal
<1>4. Text(Put(b, itoa(v))) = itoa(v)
  BY ONLY DOMAIN b = 0 .. Lengths["interval"], <1>1, <1>2, <1>3, TextPutAny
<1>5. ValidInterval(itoa(v)) /\ Number(Numeral(itoa(v))) = v
  BY IntervalText
<1> QED
  BY <1>4, <1>5 DEF Shows

\* get_info shows the stored interval it uses, or the default.
LEMMA WelcomeScreenShows ==
  ASSUME IInv, WelcomeScreen, target.pacing
  PROVE  ShownOK'
<1> DEFINE f == "interval"
<1>1. PICK failing \in SUBSET Fields :
        LET read == [g \in Settings |-> IF g \in failing THEN <<>> ELSE Stored(g)]
        IN  /\ buf' = [g \in Settings |->
                         IF g \in Fields THEN Put(Blank(g), Shown(g, read[g])) ELSE buf[g]]
            /\ \/ target.pacing /\ StartInterval(read["interval"])
               \/ ~target.pacing /\ UNCHANGED fetch_interval_ms
  BY DEF WelcomeScreen
<1>2. f \in Settings /\ f \in Fields /\ DOMAIN Blank(f) = 0 .. Lengths[f]
  BY TextEmpty DEF Fields, Settings
<1>3. PICK text : text = IF f \in failing THEN <<>> ELSE Stored(f)
  OBVIOUS
<1>4. StartInterval(text) /\ buf'[f] = Put(Blank(f), Shown(f, text))
  BY <1>1, <1>2, <1>3
<1>5. text \in Strings /\ Len(text) <= Lengths[f]
  <2>1. Lengths[f] \in Nat
    BY <1>2, LengthFacts
  <2>2. CASE f \in failing
    BY <1>3, <2>1, <2>2 DEF Strings
  <2>3. CASE f \notin failing
    <3>1. store[f] \in Strings
      BY <1>2 DEF IInv, TypeOK
    <3> QED
      BY <1>3, <2>1, <2>3, <3>1, PrefixFacts DEF Stored
  <2> QED
    BY <2>2, <2>3
<1>6. CASE text = <<>> \/ ValidInterval(text)
  <2>1. Shown(f, text) = text
    BY <1>6 DEF Shown
  <2>2. Text(buf'[f]) = text
    BY <1>2, <1>4, <1>5, <2>1, TextPut
  <2>3. ValidInterval(text) => fetch_interval_ms' = Number(Numeral(text))
    BY <1>4 DEF StartInterval
  <2> QED
    BY <1>6, <2>2, <2>3 DEF ShownOK
<1>7. CASE text # <<>> /\ ~ValidInterval(text)
  <2>1. Shown(f, text) = itoa(Default) /\ fetch_interval_ms' = Default
    BY <1>4, <1>7 DEF Shown, StartInterval
  <2>2. PICK v \in 10 .. 1000 : v = Default
    BY DEF Default
  <2>3. PICK b : b = Blank(f)
    OBVIOUS
  <2>4. DOMAIN b = 0 .. Lengths["interval"] /\ buf'["interval"] = Put(b, itoa(v))
    BY <1>2, <1>4, <2>1, <2>2, <2>3
  <2>5. Shows(Put(b, itoa(v)), v)
    BY ONLY v \in 10 .. 1000, <2>4, ShowFigures
  <2> QED
    BY <2>1, <2>2, <2>4, <2>5 DEF ShownOK, Shows
<1> QED
  BY <1>6, <1>7

\* After an edit the interval in use is put back into the field.
LEMMA ApplyIntervalShows ==
  ASSUME IInv, ApplyInterval, IInv'
  PROVE  ShownOK'
<1>1. buf' = [buf EXCEPT !["interval"] = Put(@, itoa(fetch_interval_ms'))]
  BY DEF ApplyInterval, ShowInterval
<1>2. "interval" \in Settings /\ "interval" \in DOMAIN buf
      /\ DOMAIN buf["interval"] = 0 .. Lengths["interval"]
  BY DEF IInv, ArraysOK, Settings
<1>3. PICK v \in 10 .. 1000 : v = fetch_interval_ms'
  BY DEF IInv, TypeOK
<1>4. PICK b : b = buf["interval"]
  OBVIOUS
<1>5. DOMAIN b = 0 .. Lengths["interval"] /\ buf'["interval"] = Put(b, itoa(v))
  BY <1>1, <1>2, <1>3, <1>4
<1>6. Shows(Put(b, itoa(v)), v)
  BY ONLY v \in 10 .. 1000, <1>5, ShowFigures
<1> QED
  BY <1>3, <1>5, <1>6 DEF ShownOK, Shows

\* Whatever was stored, edited, refused or not written, the interval on the
\* welcome screen is valid and the one the fetches are paced by (get_info,
\* show_fetch_interval, bwc_fetch_pace_frames).
THEOREM ShownIntervalIsUsed == Spec => []ShownIsUsed
<1>1. Init => IntervalShown
  BY DEF Init, IntervalShown
<1>2. IInv /\ IInv' /\ IntervalShown /\ [Next]_vars => IntervalShown'
  <2> SUFFICES ASSUME IInv, IInv', IntervalShown, [Next]_vars,
                      target'.pacing,
                      pc' = "menu" \/ (pc' \in {"edit", "apply"} /\ field' # "interval")
               PROVE  ShownOK'
    BY DEF IntervalShown
  <2>0. ASSUME buf'["interval"] = buf["interval"], UNCHANGED fetch_interval_ms, ShownOK
        PROVE  ShownOK'
    BY <2>0 DEF ShownOK
  <2>1. CASE WelcomeScreen
    <3>1. target.pacing
      BY <2>1 DEF WelcomeScreen
    <3> QED
      BY <2>1, <3>1, WelcomeScreenShows
  <2>2. CASE \E f \in Fields : Choose(f)
    <3>1. PICK f \in Fields : Choose(f)
      BY <2>2
    <3>2. f # "interval" /\ pc = "menu" /\ target.pacing
      BY <3>1 DEF Choose
    <3>3. UNCHANGED fetch_interval_ms /\ buf' = [buf EXCEPT ![f] = Blank(f)]
      BY <3>1 DEF Choose
    <3> QED
      BY <2>0, <3>2, <3>3 DEF IntervalShown
  <2>3. CASE \/ \E c \in Keys[field] : TypeInLine(c) \/ TypeInTitle(c)
             \/ EraseInLine \/ EraseInTitle
    <3>1. pc = "edit" /\ UNCHANGED <<target, pc, field, fetch_interval_ms>>
      BY <2>3 DEF TypeInLine, TypeInTitle, EraseInLine, EraseInTitle, Edit
    <3>2. \E b : buf' = [buf EXCEPT ![field] = b]
      BY <2>3 DEF TypeInLine, TypeInTitle, EraseInLine, EraseInTitle, Edit
    <3>3. field # "interval"
      BY <3>1
    <3>4. buf'["interval"] = buf["interval"]
      BY <3>2, <3>3
    <3> QED
      BY <2>0, <3>1, <3>3, <3>4 DEF IntervalShown
  <2>4. CASE Enter \/ ApplyText
    <3>1. UNCHANGED <<target, buf, fetch_interval_ms, field>> /\ pc \in {"edit", "apply"}
      BY <2>4 DEF Enter, ApplyText, settings
    <3>2. field # "interval"
      BY <2>4, <3>1 DEF Enter, ApplyText
    <3> QED
      BY <2>0, <3>1, <3>2 DEF IntervalShown
  <2>5. CASE ApplyInterval
    BY <2>5, ApplyIntervalShows
  <2>6. CASE Launch \/ Register \/ Restart
    BY <2>6 DEF Launch, Register, Restart
  <2>7. CASE UNCHANGED vars
    <3>1. UNCHANGED <<target, buf, fetch_interval_ms, field, pc>>
      BY <2>7 DEF vars, settings
    <3> QED
      BY <2>0, <3>1 DEF IntervalShown
  <2> QED
    BY <2>1, <2>2, <2>3, <2>4, <2>5, <2>6, <2>7 DEF Next
<1>3. IInv /\ IntervalShown => ShownIsUsed
  <2> SUFFICES ASSUME IInv, IntervalShown, target.pacing, pc = "menu",
                      Text(buf["interval"]) # <<>>
               PROVE  /\ ValidInterval(Text(buf["interval"]))
                      /\ Number(Numeral(Text(buf["interval"]))) = fetch_interval_ms
                      /\ Paced(fetch_interval_ms)
    BY DEF ShownIsUsed
  <2>1. PICK ms \in 10 .. 1000 : ms = fetch_interval_ms
    BY DEF IInv, TypeOK
  <2>2. Paced(ms)
    BY IsPaced
  <2> QED
    BY <2>1, <2>2 DEF IntervalShown, ShownOK
<1> QED
  BY <1>1, <1>2, <1>3, SetupInvariant, PTL DEF Spec

-----------------------------------------------------------------------------
(* What is registered.                                                     *)

\* Every field has a terminator.
Terminated == \A f \in Settings : \E n \in 0 .. Lengths[f] : buf[f][n] = NUL

\* What went through csv_writer fitted.
Sent == pc = "registered" /\ target.pacing => Fits(Registration)

\* A text that fits is put with its terminator.
LEMMA PutTerminated ==
  ASSUME NEW L \in Nat, NEW b, DOMAIN b = 0 .. L, NEW X, NEW text \in Seq(X), Len(text) <= L
  PROVE  \E n \in 0 .. L : Put(b, text)[n] = NUL
<1>1. PICK n \in 0 .. L : n = Len(text)
  OBVIOUS
<1>2. Put(b, text)[n] = NUL
  BY <1>1 DEF Put
<1> QED
  BY <1>2

\* An interval fits into its field.
LEMMA PutFigures ==
  ASSUME NEW b, DOMAIN b = 0 .. Lengths["interval"], NEW v, v \in 10 .. 1000
  PROVE  \E n \in 0 .. Lengths["interval"] : Put(b, itoa(v))[n] = NUL
<1>1. PICK n \in 1 .. 4 : itoa(v) \in [1 .. n -> Range(Digits)]
  BY IntervalText
<1>2. PICK L \in Nat : L = Lengths["interval"] /\ 4 <= L
  BY LengthAssumption DEF Settings
<1>3. PICK text \in Seq(Range(Digits)) : text = itoa(v) /\ Len(text) = n
  <2>1. PICK text : text = itoa(v)
    OBVIOUS
  <2>2. text \in [1 .. n -> Range(Digits)] /\ n \in Nat
    BY <1>1, <2>1
  <2>3. text \in Seq(Range(Digits)) /\ Len(text) = n
    BY <2>2
  <2> QED
    BY <2>1, <2>3
<1>4. Len(text) <= L
  BY <1>2, <1>3
<1>5. \E k \in 0 .. L : Put(b, text)[k] = NUL
  BY <1>2, <1>4, PutTerminated
<1> QED
  BY <1>2, <1>3, <1>5

\* get_info's fields have theirs.
LEMMA WelcomeScreenTerminates ==
  ASSUME IInv, Terminated, WelcomeScreen
  PROVE  Terminated'
<1>1. PICK failing \in SUBSET Fields :
        LET read == [g \in Settings |-> IF g \in failing THEN <<>> ELSE Stored(g)]
        IN  buf' = [g \in Settings |->
                      IF g \in Fields THEN Put(Blank(g), Shown(g, read[g])) ELSE buf[g]]
  BY DEF WelcomeScreen
<1> SUFFICES ASSUME NEW f \in Settings PROVE \E n \in 0 .. Lengths[f] : buf'[f][n] = NUL
  BY DEF Terminated
<1>2. PICK text : text = IF f \in failing THEN <<>> ELSE Stored(f)
  OBVIOUS
<1>3. CASE f \notin Fields
  <2>1. buf'[f] = buf[f]
    BY <1>1, <1>3
  <2> QED
    BY <2>1 DEF Terminated
<1>4. CASE f \in Fields
  <2>1. buf'[f] = Put(Blank(f), Shown(f, text))
    BY <1>1, <1>2, <1>4
  <2>2. PICK L \in Nat : L = Lengths[f]
    BY LengthFacts
  <2>3. PICK b : b = Blank(f) /\ DOMAIN b = 0 .. L
    BY <2>2, TextEmpty
  <2>4. text \in Strings /\ Len(text) <= L
    <3>1. CASE f \in failing
      BY <1>2, <2>2, <3>1 DEF Strings
    <3>2. CASE f \notin failing
      <4>1. store[f] \in Strings
        BY DEF IInv, TypeOK
      <4> QED
        BY <1>2, <2>2, <3>2, <4>1, PrefixFacts DEF Stored
    <3> QED
      BY <3>1, <3>2
  <2>5. CASE Shown(f, text) = text
    <3>1. \E n \in 0 .. L : Put(b, text)[n] = NUL
      BY <2>3, <2>4, PutTerminated DEF Strings
    <3> QED
      BY <2>1, <2>2, <2>3, <2>5, <3>1
  <2>6. CASE f = "interval" /\ Shown(f, text) = itoa(Default)
    <3>1. PICK v : v = Default /\ v \in 10 .. 1000
      BY DEF Default
    <3>2. DOMAIN b = 0 .. Lengths["interval"]
      BY <2>2, <2>3, <2>6
    <3>3. \E n \in 0 .. Lengths["interval"] : Put(b, itoa(v))[n] = NUL
      BY <3>1, <3>2, PutFigures
    <3> QED
      BY <2>1, <2>3, <2>6, <3>1, <3>3
  <2> QED
    BY <2>5, <2>6 DEF Shown
<1> QED
  BY <1>3, <1>4

\* No step takes a field's terminator away.
LEMMA TerminatedStep ==
  ASSUME IInv, IInv', Terminated, [Next]_vars
  PROVE  Terminated'
<1>1. CASE WelcomeScreen
  BY <1>1, WelcomeScreenTerminates
<1>2. CASE \E f \in Fields : Choose(f)
  <2>1. PICK g \in Settings : buf' = [buf EXCEPT ![g] = Blank(g)]
    BY <1>2 DEF Choose, Fields
  <2>2. Lengths[g] \in Nat /\ Blank(g)[0] = NUL
    BY LengthFacts, TextEmpty
  <2>3. DOMAIN buf = Settings
    BY DEF IInv, ArraysOK
  <2>4. \A f \in Settings : buf'[f] = IF f = g THEN Blank(g) ELSE buf[f]
    BY ONLY <2>1, <2>3
  <2>5. 0 \in 0 .. Lengths[g]
    BY ONLY <2>2
  <2> QED
    BY ONLY Terminated, <2>2, <2>4, <2>5, Zenon DEF Terminated
<1>3. CASE \/ \E c \in Keys[field] : TypeInLine(c) \/ TypeInTitle(c)
           \/ EraseInLine \/ EraseInTitle
  <2>1. pc' = "edit" /\ UNCHANGED <<target, field>> /\ field \in Settings
    BY <1>3 DEF TypeInLine, TypeInTitle, EraseInLine, EraseInTitle, Edit, IInv, TypeOK, Fields
  <2>2. \E b : buf' = [buf EXCEPT ![field] = b]
    BY <1>3 DEF TypeInLine, TypeInTitle, EraseInLine, EraseInTitle, Edit
  <2>3. PICK L \in Nat : L = Lengths[field] /\ L >= 2
    BY <2>1, LengthFacts
  <2>4. \E n \in 0 .. L : buf'[field][n] = NUL
    <3>1. IF target.title THEN TitleAt(buf[field])' ELSE LineAt(buf[field])'
      BY <2>1 DEF IInv, Edited
    <3>2. CASE target.title
      <4>1. i' \in 0 .. L - 1 /\ buf'[field][i'] = NUL
        BY <2>1, <2>3, <3>1, <3>2 DEF TitleAt, Holds, LastPlace
      <4> QED
        BY <4>1
    <3>3. CASE ~target.title
      <4>1. PICK last : last = i'
        OBVIOUS
      <4>2. last \in 0 .. L - 1 /\ \A k \in last + 1 .. L : buf'[field][k] = NUL
        BY <2>1, <2>3, <3>1, <3>3, <4>1 DEF LineAt, LastPlace
      <4>3. L \in last + 1 .. L /\ L \in 0 .. L
        BY ONLY <4>2, <2>3
      <4> QED
        BY <4>2, <4>3
    <3> QED
      BY <3>2, <3>3
  <2> QED
    BY <2>1, <2>2, <2>3, <2>4 DEF Terminated
<1>4. CASE ApplyInterval
  <2>1. buf' = [buf EXCEPT !["interval"] = Put(@, itoa(fetch_interval_ms'))]
    BY <1>4 DEF ApplyInterval, ShowInterval
  <2>2. DOMAIN buf = Settings /\ "interval" \in Settings
        /\ DOMAIN buf["interval"] = 0 .. Lengths["interval"]
    BY DEF IInv, ArraysOK, Settings
  <2>3. PICK v : v = fetch_interval_ms' /\ v \in 10 .. 1000
    BY DEF IInv, TypeOK
  <2>4. PICK b : b = buf["interval"]
    OBVIOUS
  <2>5. \E n \in 0 .. Lengths["interval"] : Put(b, itoa(v))[n] = NUL
    <3>1. DOMAIN b = 0 .. Lengths["interval"]
      BY <2>2, <2>4
    <3> QED
      BY ONLY <3>1, <2>3, PutFigures
  <2>6. \A f \in Settings : buf'[f] = IF f = "interval" THEN Put(b, itoa(v)) ELSE buf[f]
    BY <2>1, <2>2, <2>3, <2>4
  <2> QED
    BY <2>5, <2>6 DEF Terminated
<1>5. CASE Restart
  <2>1. \/ UNCHANGED buf
        \/ buf' = [f \in Settings |-> Blank(f)]
    BY <1>5 DEF Restart, settings
  <2>2. \A f \in Settings : Lengths[f] \in Nat /\ Blank(f)[0] = NUL
    BY LengthFacts, TextEmpty
  <2> QED
    BY <2>1, <2>2 DEF Terminated
<1>6. CASE Enter \/ ApplyText \/ Launch \/ Register \/ UNCHANGED vars
  <2>1. UNCHANGED buf
    BY <1>6 DEF Enter, ApplyText, Launch, Register, vars, settings
  <2> QED
    BY <2>1 DEF Terminated
<1> QED
  BY <1>1, <1>2, <1>3, <1>4, <1>5, <1>6 DEF Next

\* What send_client_data sends on is the line it built.
LEMMA SentStep ==
  ASSUME Sent, [Next]_vars
  PROVE  Sent'
<1>1. CASE Register
  BY <1>1 DEF Register, Sent, Registration, settings
<1>2. CASE UNCHANGED vars
  BY <1>2 DEF Sent, Registration, vars, settings
<1>3. CASE Next /\ ~Register
  <2>1. pc' # "registered"
    BY <1>3 DEF Next, WelcomeScreen, Choose, TypeInLine, TypeInTitle, EraseInLine, EraseInTitle,
                Edit, Enter, ApplyText, ApplyInterval, Launch, Restart
  <2> QED
    BY <2>1 DEF Sent
<1> QED
  BY <1>1, <1>2, <1>3

\* What is registered is what the server reads at the commas: the name as it was
\* typed, every number and the capabilities; and all of it was in the buffer, for
\* every name without a comma and all numbers of two bytes (send_client_data,
\* bwc_build_add_client_csv).
THEOREM RegistrationIsRead == Spec => []RegistrationRead
<1>1. Init => Terminated /\ Sent
  <2>1. ASSUME Init PROVE Terminated
    <3>1. \A f \in Settings : buf[f] = Blank(f) /\ Lengths[f] \in Nat /\ Blank(f)[0] = NUL
      BY <2>1, LengthFacts, TextEmpty DEF Init
    <3> QED
      BY <3>1 DEF Terminated
  <2> QED
    BY <2>1 DEF Init, Sent
<1>2. IInv /\ IInv' /\ Terminated /\ Sent /\ [Next]_vars => Terminated' /\ Sent'
  BY TerminatedStep, SentStep
<1>3. IInv /\ Terminated /\ Sent => RegistrationRead
  <2> SUFFICES ASSUME IInv, Terminated, Sent, pc = "registered"
               PROVE  /\ Len(Registration) + 1 <= CsvSize
                      /\ \/ Comma \in Range(Text(buf["name"]))
                         \/ ReadBack(FieldsOf(Registration), Text(buf["name"]), target.caps)
    BY DEF RegistrationRead, ReadBack
  <2>1. PICK L \in Nat : L = Lengths["name"]
    BY LengthFacts DEF Settings
  <2>2. PICK b : b = buf["name"] /\ DOMAIN b = 0 .. L /\ \E k \in 0 .. L : b[k] = NUL
    BY <2>1 DEF IInv, ArraysOK, Terminated, Settings
  <2>3. PICK n \in 0 .. L : Text(b) = Word(b, n)
    BY <2>2, TextFits
  <2>4. PICK name : name = Text(b)
    OBVIOUS
  <2>5. n \in Nat /\ DOMAIN name = 1 .. n /\ name = [k \in 1 .. n |-> name[k]]
    BY <2>3, <2>4 DEF Word
  <2>6. PICK X : X = Range(name) \cup Range(Digits) \cup Range(HexDigits) \cup {"x", Comma, "a"}
    OBVIOUS
  <2>7. AlphabetOK(X) /\ "a" \in X /\ Range(name) \subseteq X
    BY <2>6 DEF AlphabetOK
  <2>8. name \in Seq(X) /\ Len(name) = n
    <3>1. \A k \in 1 .. n : name[k] \in X
      BY <2>5, <2>7 DEF Range
    <3>2. name \in [1 .. n -> X]
      BY <2>5, <3>1
    <3> QED
      BY <2>5, <3>2
  <2>9. PICK caps \in Nat : caps = target.caps /\ caps < 256 * 256
    <3>1. target \in Targets
      BY DEF IInv, TypeOK
    <3> QED
      BY <3>1
  <2>10. Registration = Csv(name, caps)
    BY <2>2, <2>4, <2>9 DEF Registration
  <2>11. PICK line \in Seq(X) : line = Csv(name, caps)
    BY <2>7, <2>8, <2>9, CsvIs
  <2>12. Len(line) < CsvSize
    <3>1. CASE target.pacing
      BY <2>10, <2>11, <3>1 DEF Sent, Fits
    <3>2. CASE ~target.pacing
      <4>1. PICK long : long = [k \in 1 .. L |-> "a"]
        OBVIOUS
      <4>2. long \in [1 .. L -> X]
        BY <2>7, <4>1
      <4>3. long \in Seq(X) /\ Len(long) = L
        BY <4>2
      <4>4. Len(name) <= Len(long)
        BY <2>8, <4>3
      <4>5. Len(Csv(name, caps)) <= Len(Csv(long, caps))
        BY <2>7, <2>8, <2>9, <4>3, <4>4, CsvLength
      <4>6. Len(Csv(long, caps)) < CsvSize
        <5>1. target \in Targets
          BY DEF IInv, TypeOK
        <5> QED
          BY <2>1, <2>9, <3>2, <4>1, <5>1, LegacyAssumption
      <4>7. PICK all \in Seq(X) : all = Csv(long, caps)
        BY <2>7, <2>9, <4>3, CsvIs
      <4>8. CsvSize \in Nat
        BY CsvAssumption
      <4> QED
        BY <2>11, <4>5, <4>6, <4>7, <4>8
    <3> QED
      BY <3>1, <3>2
  <2>13. Len(line) + 1 <= CsvSize
    BY <2>12, CsvAssumption
  <2>14. ASSUME Comma \notin Range(name) PROVE ReadBack(FieldsOf(line), name, caps)
    <3>1. \A k \in 1 .. Len(name) : name[k] # Comma
      BY <2>5, <2>8, <2>14 DEF Range
    <3> QED
      BY <2>7, <2>8, <2>9, <2>11, <3>1, CsvRead
  <2> QED
    BY <2>2, <2>4, <2>9, <2>10, <2>11, <2>13, <2>14
<1> QED
  BY <1>1, <1>2, <1>3, SetupInvariant, PTL DEF Spec

-----------------------------------------------------------------------------
(* The field edited is a line.                                             *)

\* A step outside of the editors is none of the line's.
LEMMA ElsewhereStep ==
  ASSUME pc # "edit", pc' # "edit"
  PROVE  Editor!Next
BY DEF Editor!Next, Editor!Elsewhere

\* A step of the editors is one of the line: typing, at the last place too, and
\* erasing.
LEMMA EditorStep ==
  ASSUME IInv, \/ \E c \in Keys[field] : TypeInLine(c) \/ TypeInTitle(c)
               \/ EraseInLine \/ EraseInTitle
  PROVE  Editor!Next
<1>1. TypeOK /\ ArraysOK /\ Edited /\ field \in Settings
  BY DEF IInv, TypeOK, Fields
<1>2. \A c \in Keys[field] : c \in Characters
  BY <1>1 DEF Characters
<1>3. pc = "edit" /\ pc' = "edit" /\ UNCHANGED <<target, field>>
  BY DEF TypeInLine, TypeInTitle, EraseInLine, EraseInTitle, Edit
<1>4. UNCHANGED Editor!editor
  <2>1. (pc = "edit")' = (pc = "edit") /\ (~target.title)' = ~target.title
    BY <1>3
  <2>2. UNCHANGED (IF target.title THEN LastPlace ELSE Lengths[field])
    BY <1>3 DEF LastPlace
  <2> QED
    BY ONLY <2>1, <2>2 DEF Editor!editor
<1>f. \A s : Editor!Front(s) = Front(s)
  BY DEF Editor!Front, Front
<1>5. ASSUME NEW c \in Keys[field], TypeInLine(c) PROVE Editor!Next
  <2>1. c \in Characters /\ ~target.title
    BY <1>2, <1>5 DEF TypeInLine
  <2>2. IF Len(Text(buf[field])) < Lengths[field]
        THEN Text(buf[field])' = Append(Text(buf[field]), c)
        ELSE /\ Len(Text(buf[field])) = Lengths[field]
             /\ Text(buf[field])' = Append(Front(Text(buf[field])), c)
    BY <1>1, <1>5, <2>1, TypeInLineStep
  <2>3. Editor!Type(c)
    BY <1>3, <1>4, <1>f, <2>1, <2>2 DEF Editor!Type
  <2> QED
    BY <2>1, <2>3 DEF Editor!Next, Characters
<1>6. ASSUME NEW c \in Keys[field], TypeInTitle(c) PROVE Editor!Next
  <2>1. c \in Characters /\ target.title
    BY <1>2, <1>6 DEF TypeInTitle
  <2>2. Len(Text(buf[field])) < LastPlace /\ Text(buf[field])' = Append(Text(buf[field]), c)
    BY <1>1, <1>6, <2>1, TypeInTitleStep
  <2>3. Editor!Type(c)
    BY <1>3, <1>4, <1>f, <2>1, <2>2 DEF Editor!Type
  <2> QED
    BY <2>1, <2>3 DEF Editor!Next, Characters
<1>7. CASE EraseInLine \/ EraseInTitle
  <2>1. Text(buf[field]) # <<>> /\ Text(buf[field])' = Front(Text(buf[field]))
    BY <1>1, <1>7, EraseInLineStep, EraseInTitleStep
  <2>2. Editor!Erase
    BY <1>3, <1>4, <1>f, <2>1 DEF Editor!Erase
  <2> QED
    BY <2>2 DEF Editor!Next
<1> QED
  BY <1>5, <1>6, <1>7

\* The line editors on their array implement LineEditor: what get_line and
\* title_edit leave in the field is what was typed and not erased.
THEOREM FieldIsALine == Spec => IsLine
<1>1. Init => Editor!Init
  BY DEF Init, Editor!Init
<1>2. IInv /\ [Next]_vars => [Editor!Next]_(Editor!vars)
  <2> SUFFICES ASSUME IInv, [Next]_vars PROVE Editor!Next \/ UNCHANGED Editor!vars
    OBVIOUS
  <2>1. CASE \E f \in Fields : Choose(f)
    <3>1. PICK f \in Fields : Choose(f)
      BY <2>1
    <3>2. /\ pc = "menu" /\ pc' = "edit" /\ field' = f
          /\ buf' = [buf EXCEPT ![f] = Blank(f)]
      BY <3>1 DEF Choose
    <3>3. f \in Settings
      BY DEF Fields
    <3>4. buf'[field'] = Blank(f)
      BY <3>2, <3>3 DEF IInv, ArraysOK
    <3>5. Text(buf'[field']) = <<>>
      BY <3>3, <3>4, TextEmpty
    <3> QED
      BY <3>2, <3>5 DEF Editor!Next, Editor!Open
  <2>2. CASE \/ \E c \in Keys[field] : TypeInLine(c) \/ TypeInTitle(c)
             \/ EraseInLine \/ EraseInTitle
    BY <2>2, EditorStep
  <2>3. CASE Enter
    <3>1. pc = "edit" /\ pc' = "apply" /\ UNCHANGED <<buf, field>>
      BY <2>3 DEF Enter, settings
    <3>2. Text(buf[field])' = Text(buf[field])
      BY <3>1
    <3> QED
      BY <3>1, <3>2 DEF Editor!Next, Editor!Enter
  <2>4. CASE WelcomeScreen \/ ApplyText \/ ApplyInterval \/ Launch \/ Register \/ Restart
    <3>1. pc # "edit" /\ pc' # "edit"
      BY <2>4 DEF WelcomeScreen, ApplyText, ApplyInterval, Launch, Register, Restart
    <3> QED
      BY <3>1, ElsewhereStep
  <2>5. CASE UNCHANGED vars
    BY <2>5 DEF vars, settings, Editor!vars, LastPlace
  <2> QED
    BY <2>1, <2>2, <2>3, <2>4, <2>5 DEF Next
<1> QED
  BY <1>1, <1>2, SetupInvariant, PTL DEF Spec, IsLine, Editor!Spec
=============================================================================
