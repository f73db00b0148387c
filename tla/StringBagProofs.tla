---------------------------- MODULE StringBagProofs ----------------------------
(***************************************************************************)
(* Proofs about the string bag, for texts of any length: which of them are *)
(* read past their end, and that cutting a text in place finds the lines   *)
(* and words of the reference definition.                                  *)
(***************************************************************************)
EXTENDS StringBag, FiniteSetTheorems, SequenceTheorems, WellFoundedInduction,
        TLAPS

-----------------------------------------------------------------------------
(* Sets of numbers in ascending order                                      *)

LEMMA LeastOf ==
  ASSUME NEW S \in SUBSET Nat, S # {}
  PROVE  \E m \in S : \A x \in S : m <= x
<1> DEFINE R == OpToRel(<, Nat)
<1>1. PICK m \in S : \A x \in S : ~(<<x, m>> \in R)
  <2>1. IsWellFoundedOn(R, Nat)
    BY NatLessThanWellFounded
  <2> HIDE DEF R
  <2> QED
    BY <2>1, WFMin
<1>2. \A x \in S : m <= x
  <2> SUFFICES ASSUME NEW x \in S, ~(m <= x)
               PROVE  FALSE
    OBVIOUS
  <2>1. x \in Nat /\ m \in Nat /\ x < m
    OBVIOUS
  <2>2. <<x, m>> \in R
    BY <2>1 DEF OpToRel
  <2> QED
    BY <1>1, <2>2
<1> QED
  BY <1>2

\* The number of elements below grows with the element.
Below(S, p) == {r \in S : r < p}

LEMMA BelowGrows ==
  ASSUME NEW S \in SUBSET Nat, IsFiniteSet(S), NEW p \in S, NEW q \in Nat, p < q
  PROVE  /\ Cardinality(Below(S, p)) \in Nat /\ Cardinality(Below(S, q)) \in Nat
         /\ Cardinality(Below(S, p)) < Cardinality(Below(S, q))
<1>1. IsFiniteSet(Below(S, p)) /\ IsFiniteSet(Below(S, q))
  BY FS_Subset DEF Below
<1>2. Cardinality(Below(S, p)) \in Nat /\ Cardinality(Below(S, q)) \in Nat
  BY <1>1, FS_CardinalityType
<1>3. p \notin Below(S, p) /\ (Below(S, p) \cup {p}) \in SUBSET Below(S, q)
  <2>1. p \in Nat /\ \A r \in S : r \in Nat
    OBVIOUS
  <2>2. \A r \in S : r < p => r < q
    BY <2>1
  <2>3. ~(p < p)
    BY <2>1
  <2> QED
    BY <2>2, <2>3 DEF Below
<1>4. Cardinality(Below(S, p) \cup {p}) = Cardinality(Below(S, p)) + 1
  BY <1>1, <1>3, FS_AddElement
<1>5. Cardinality(Below(S, p) \cup {p}) <= Cardinality(Below(S, q))
  BY <1>1, <1>3, FS_Subset
<1> QED
  BY <1>2, <1>4, <1>5

\* For every k up to their number, one of them has k - 1 below it.
LEMMA EveryRank ==
  ASSUME NEW S \in SUBSET Nat, IsFiniteSet(S), NEW k \in 1 .. Cardinality(S)
  PROVE  \E q \in S : Cardinality(Below(S, q)) = k - 1
<1> DEFINE N == Cardinality(S)
           Bad == {j \in 1 .. N : \A q \in S : Cardinality(Below(S, q)) # j - 1}
<1> SUFFICES ASSUME Bad # {}
             PROVE  FALSE
  OBVIOUS
<1>1. N \in Nat
  BY FS_CardinalityType
<1>2. PICK m \in Bad : \A j \in Bad : m <= j
  <2>1. Bad \in SUBSET Nat
    OBVIOUS
  <2> HIDE DEF Bad
  <2> QED
    BY <2>1, LeastOf
<1>3. m \in 1 .. N /\ m \in Nat /\ \A q \in S : Cardinality(Below(S, q)) # m - 1
  BY <1>1
<1>4. CASE m = 1
  <2>1. S # {}
    BY <1>1, <1>3, FS_EmptySet
  <2>2. PICK q \in S : \A x \in S : q <= x
    BY <2>1, LeastOf
  <2>3. Below(S, q) = {}
    <3>1. \A x \in S : ~(x < q)
      <4>1. q \in Nat /\ \A x \in S : x \in Nat
        OBVIOUS
      <4> QED
        BY <2>2, <4>1
    <3> QED
      BY <3>1 DEF Below
  <2>4. Cardinality(Below(S, q)) = 0
    BY <2>3, FS_EmptySet
  <2> QED
    BY <1>3, <1>4, <2>4
<1>5. CASE m # 1
  <2>1. m - 1 \in 1 .. N /\ m - 1 \notin Bad
    BY <1>1, <1>2, <1>3, <1>5
  <2>2. PICK q \in S : Cardinality(Below(S, q)) = (m - 1) - 1
    BY <2>1
  <2> DEFINE B == Below(S, q)
             A == {r \in S : r > q}
  <2>3. IsFiniteSet(B) /\ q \notin B
    BY FS_Subset DEF Below
  <2>4. Cardinality(B \cup {q}) = m - 1
    <3>1. Cardinality(B \cup {q}) = Cardinality(B) + 1
      BY <2>3, FS_AddElement
    <3> QED
      BY <1>3, <2>2, <3>1
  <2>5. A # {}
    <3> SUFFICES ASSUME A = {}
                 PROVE  FALSE
      OBVIOUS
    <3>1. \A r \in S : r < q \/ r = q
      <4>1. q \in Nat /\ \A r \in S : r \in Nat
        OBVIOUS
      <4>2. \A r \in S : ~(r > q)
        OBVIOUS
      <4> QED
        BY <4>1, <4>2
    <3>2. S = B \cup {q}
      BY <3>1 DEF Below
    <3> QED
      BY <1>1, <1>3, <2>4, <3>2
  <2>6. PICK r \in A : \A x \in A : r <= x
    <3>1. A \in SUBSET Nat
      OBVIOUS
    <3> HIDE DEF A
    <3> QED
      BY <2>5, <3>1, LeastOf
  <2>7. Below(S, r) = B \cup {q}
    <3>1. q \in Nat /\ r \in S /\ r > q /\ \A x \in S : x \in Nat
      BY <2>6
    <3>2. \A x \in S : x > q => r <= x
      BY <2>6
    <3>3. \A x \in S : x < r <=> x < q \/ x = q
      BY <3>1, <3>2
    <3> QED
      BY <3>3 DEF Below
  <2> QED
    BY <1>3, <2>4, <2>6, <2>7
<1> QED
  BY <1>4, <1>5

\* The k-th of them has k - 1 below it, and it is the only one.
LEMMA InOrderRank ==
  ASSUME NEW S \in SUBSET Nat, IsFiniteSet(S), NEW k \in 1 .. Cardinality(S)
  PROVE  /\ InOrder(S)[k] \in S
         /\ Cardinality(Below(S, InOrder(S)[k])) = k - 1
         /\ \A p \in S : Cardinality(Below(S, p)) = k - 1 => InOrder(S)[k] = p
<1> DEFINE Q == {q \in S : Cardinality({r \in S : r < q}) = k - 1}
<1>1. InOrder(S)[k] = CHOOSE p \in Q : TRUE
  BY DEF InOrder
<1>2. Q # {}
  <2>1. PICK q \in S : Cardinality(Below(S, q)) = k - 1
    BY EveryRank
  <2> QED
    BY <2>1 DEF Below
<1>3. InOrder(S)[k] \in Q
  <2> HIDE DEF Q
  <2> QED
    BY <1>1, <1>2
<1>4. InOrder(S)[k] \in S /\ Cardinality(Below(S, InOrder(S)[k])) = k - 1
  BY <1>3 DEF Below
<1>5. ASSUME NEW p \in S, Cardinality(Below(S, p)) = k - 1
      PROVE  InOrder(S)[k] = p
  <2> DEFINE o == InOrder(S)[k]
  <2>1. o \in S /\ Cardinality(Below(S, o)) = Cardinality(Below(S, p))
    BY <1>4, <1>5
  <2> HIDE DEF o
  <2>2. ~(o < p) /\ ~(p < o)
    BY <2>1, BelowGrows
  <2>3. o = p
    BY <2>1, <2>2
  <2> QED
    BY <2>3 DEF o
<1> QED
  BY <1>4, <1>5

\* They ascend, and nothing of the set is between two of them or below the first.
LEMMA InOrderGaps ==
  ASSUME NEW S \in SUBSET Nat, IsFiniteSet(S), NEW k \in 1 .. Cardinality(S)
  PROVE  /\ k = 1 => \A q \in S : InOrder(S)[k] <= q
         /\ k # 1 => /\ InOrder(S)[k - 1] \in S /\ InOrder(S)[k - 1] < InOrder(S)[k]
                     /\ \A q \in S : InOrder(S)[k - 1] < q => InOrder(S)[k] <= q
<1> DEFINE o == InOrder(S)[k]
           u == InOrder(S)[k - 1]
           c(q) == Cardinality(Below(S, q))
<1>1. o \in S /\ c(o) = k - 1
  BY InOrderRank
<1>2. k # 1 => u \in S /\ c(u) = (k - 1) - 1
  <2> SUFFICES ASSUME k # 1
               PROVE  u \in S /\ c(u) = (k - 1) - 1
    OBVIOUS
  <2>1. Cardinality(S) \in Nat
    BY FS_CardinalityType
  <2>2. k - 1 \in 1 .. Cardinality(S)
    BY <2>1
  <2> QED
    BY <2>2, InOrderRank
<1>3. \A p, q \in S : p < q => c(p) \in Nat /\ c(q) \in Nat /\ c(p) < c(q)
  BY BelowGrows
<1>4. k \in Nat /\ \A q \in S : c(q) \in Nat
  <2>1. \A q \in S : IsFiniteSet(Below(S, q))
    BY FS_Subset DEF Below
  <2> QED
    BY <2>1, FS_CardinalityType
<1> HIDE DEF o, u, c
<1>5. k = 1 => \A q \in S : o <= q
  BY <1>1, <1>3, <1>4
<1>6. \A q \in S : q \in Nat
  OBVIOUS
<1>7. ASSUME k # 1
      PROVE  u < o /\ \A q \in S : u < q => o <= q
  <2>1. u \in S /\ o \in S /\ c(u) = (k - 1) - 1 /\ c(o) = k - 1
    BY <1>1, <1>2, <1>7
  <2>2. ~(o < u) /\ o # u
    BY <1>3, <1>4, <2>1
  <2>3. \A q \in S : u < q /\ q < o => FALSE
    BY <1>3, <1>4, <2>1
  <2> QED
    BY <1>6, <2>1, <2>2, <2>3
<1> QED
  BY <1>2, <1>5, <1>6, <1>7 DEF o, u

\* A number above all others comes last.
LEMMA InOrderAdd ==
  ASSUME NEW S \in SUBSET Nat, IsFiniteSet(S), NEW x \in Nat, \A y \in S : y < x
  PROVE  /\ Cardinality(S \cup {x}) = Cardinality(S) + 1
         /\ IsFiniteSet(S \cup {x}) /\ (S \cup {x}) \in SUBSET Nat
         /\ \A k \in 1 .. Cardinality(S) : InOrder(S \cup {x})[k] = InOrder(S)[k]
         /\ InOrder(S \cup {x})[Cardinality(S) + 1] = x
<1> DEFINE T == S \cup {x}
           N == Cardinality(S)
<1>1. x \notin S /\ N \in Nat
  BY FS_CardinalityType
<1>2. Cardinality(T) = N + 1 /\ IsFiniteSet(T) /\ T \in SUBSET Nat
  BY <1>1, FS_AddElement
<1>3. \A p \in S : Below(T, p) = Below(S, p)
  <2>1. \A p \in S : p \in Nat /\ ~(x < p)
    OBVIOUS
  <2> QED
    BY <2>1 DEF Below
<1>4. Below(T, x) = S
  <2>1. \A y \in S : y < x
    OBVIOUS
  <2>2. ~(x < x)
    OBVIOUS
  <2> QED
    BY <2>1, <2>2 DEF Below
<1>5. x \in T /\ S \subseteq T
  OBVIOUS
<1> HIDE DEF T
<1>6. ASSUME NEW k \in 1 .. N
      PROVE  InOrder(T)[k] = InOrder(S)[k]
  <2>1. InOrder(S)[k] \in S /\ Cardinality(Below(S, InOrder(S)[k])) = k - 1
    BY <1>6, InOrderRank
  <2>2. k \in 1 .. Cardinality(T)
    BY <1>1, <1>2
  <2>3. InOrder(S)[k] \in T /\ Cardinality(Below(T, InOrder(S)[k])) = k - 1
    BY <1>3, <1>5, <2>1
  <2> DEFINE o == InOrder(S)[k]
  <2> HIDE DEF o
  <2>4. o \in T /\ Cardinality(Below(T, o)) = k - 1
    BY <2>3 DEF o
  <2>5. InOrder(T)[k] = o
    BY <1>2, <2>2, <2>4, InOrderRank
  <2> QED
    BY <2>5 DEF o
<1>7. InOrder(T)[N + 1] = x
  <2>1. N + 1 \in 1 .. Cardinality(T) /\ Cardinality(Below(T, x)) = (N + 1) - 1
    BY <1>1, <1>2, <1>4
  <2> QED
    BY <1>2, <1>5, <2>1, InOrderRank
<1> QED
  BY <1>2, <1>6, <1>7 DEF T

-----------------------------------------------------------------------------
(* The scanner                                                             *)

\* A place where the copy is cut: the end of a line, or a space that is not
\* the last character of one.
CutAt(p) ==
  \/ p \in Breaks(text)
  \/ text[p] = "sp" /\ p + 1 \notin Breaks(text)

\* The copy is cut behind the scanner and untouched before it.
CopyInv ==
  /\ text \in Seq(Char)
  /\ dup \in Seq(Char \cup {"nul"}) /\ Len(dup) = Len(text)
  /\ i \in 1 .. Len(text) + 1
  /\ \A p \in 1 .. Len(text) :
       dup[p] = IF p < i /\ CutAt(p) THEN "nul" ELSE text[p]

\* The lines that have ended, where they end and where the line after begins.
Past == {p \in Breaks(text) : p < i}
Ends == InOrder(Past)
Begin(k) == IF k = 1 THEN 1 ELSE Ends[k - 1] + 2
Start == Begin(Cardinality(Past) + 1)

\* The words that have ended since, and where one of a line begins.
Cuts == {p \in Start .. i - 1 : CutAt(p)}
WordStart(b, S, w) == IF w = 1 THEN b ELSE InOrder(S)[w - 1] + 1

\* The scanner is in the line that begins at Start, at the word that begins
\* at a; no empty line is behind it.
LineInv ==
  pc = "scan" =>
    /\ Start <= i
    /\ Start = 1 \/ Start - 2 \in Breaks(text)
    /\ \A p \in Breaks(text) : p < Start \/ i <= p
    /\ \A e \in EmptyLines(text) : i <= e
    /\ words \in Seq(Nat) /\ Len(words) = Cardinality(Cuts)
    /\ \A w \in 1 .. Len(words) : words[w] = WordStart(Start, Cuts, w)
    /\ a = WordStart(Start, Cuts, Cardinality(Cuts) + 1)

\* Where a line from b to e is cut.
CutsOf(b, e) == {p \in b .. (e - 2) : text[p] = "sp"} \cup {e}

\* The lines that have ended hold where their words begin; the last, when it
\* has ended the text, is empty and holds NULL.
LinesInv ==
  pc \in {"scan", "bag"} =>
    /\ lines \in Seq(Seq(Nat)) /\ Len(lines) = Cardinality(Past)
    /\ \A k \in 1 .. Len(lines) :
         IF pc = "bag" /\ k = Len(lines)
           THEN lines[k] = <<0>> /\ Begin(k) = Ends[k]
           ELSE LET S == CutsOf(Begin(k), Ends[k])
                IN /\ Begin(k) < Ends[k]
                   /\ Len(lines[k]) = Cardinality(S)
                   /\ \A w \in 1 .. Len(lines[k]) :
                        lines[k][w] = WordStart(Begin(k), S, w)

\* The text has ended with its first empty line.
BagInv ==
  pc = "bag" => /\ i - 2 \in EmptyLines(text)
                /\ \A e \in EmptyLines(text) : i - 2 <= e

ScanInv ==
  /\ pc \in {"scan", "bag", "dump", "done", "crash", "overread"}
  /\ CopyInv /\ LineInv /\ LinesInv /\ BagInv

LEMMA BreaksOf ==
  ASSUME CopyInv
  PROVE  /\ Len(text) \in Nat /\ DOMAIN text = 1 .. Len(text) /\ DOMAIN dup = 1 .. Len(text)
         /\ i \in Nat
         /\ Breaks(text) \in SUBSET Nat /\ IsFiniteSet(Breaks(text))
         /\ \A p \in Breaks(text) : /\ p \in 1 .. Len(text) - 1
                                    /\ text[p] = "cr" /\ text[p + 1] = "lf"
         /\ Past \in SUBSET Nat /\ IsFiniteSet(Past) /\ Cardinality(Past) \in Nat
         /\ Start \in Nat
         /\ Cuts \in SUBSET Nat /\ IsFiniteSet(Cuts) /\ Cardinality(Cuts) \in Nat
<1>1. /\ Len(text) \in Nat /\ DOMAIN text = 1 .. Len(text) /\ DOMAIN dup = 1 .. Len(text)
      /\ i \in Nat
  BY LenProperties DEF CopyInv
<1>2. \A p \in Breaks(text) : /\ p \in 1 .. Len(text) - 1
                              /\ text[p] = "cr" /\ text[p + 1] = "lf"
  BY DEF Breaks
<1>3. Breaks(text) \in SUBSET (1 .. Len(text)) /\ Past \in SUBSET (1 .. Len(text))
  BY <1>1, <1>2 DEF Past
<1>4. IsFiniteSet(1 .. Len(text))
  <2>1. 1 \in Int /\ Len(text) \in Int
    BY <1>1
  <2> QED
    BY <2>1, FS_Interval
<1>5. IsFiniteSet(Breaks(text)) /\ IsFiniteSet(Past)
  BY <1>3, <1>4, FS_Subset
<1>6. Cardinality(Past) \in Nat
  BY <1>5, FS_CardinalityType
<1>7. Start \in Nat
  <2>1. CASE Cardinality(Past) = 0
    BY <2>1 DEF Start, Begin
  <2>2. CASE Cardinality(Past) # 0
    <3>1. Past \in SUBSET Nat /\ Cardinality(Past) \in 1 .. Cardinality(Past)
      BY <1>3, <1>6, <2>2
    <3>2. InOrder(Past)[Cardinality(Past)] \in Past
      BY <1>5, <3>1, InOrderRank
    <3> DEFINE m == InOrder(Past)[Cardinality(Past)]
    <3>3. Start = m + 2
      <4>1. Cardinality(Past) + 1 # 1 /\ (Cardinality(Past) + 1) - 1 = Cardinality(Past)
        BY <1>6, <2>2
      <4> QED
        BY <4>1 DEF Start, Begin, Ends
    <3>4. m \in Nat
      BY <3>1, <3>2
    <3> HIDE DEF m
    <3> QED
      BY <3>3, <3>4
  <2> QED
    BY <2>1, <2>2
<1>8. Cuts \in SUBSET (0 .. i - 1) /\ IsFiniteSet(0 .. i - 1)
  <2>1. 0 \in Int /\ i - 1 \in Int
    BY <1>1
  <2>2. \A p \in Start .. i - 1 : p \in 0 .. i - 1
    BY <1>1, <1>7
  <2>3. Cuts \in SUBSET (0 .. i - 1)
    BY <2>2 DEF Cuts
  <2> QED
    BY <2>1, <2>3, FS_Interval
<1>9. IsFiniteSet(Cuts) /\ Cuts \in SUBSET Nat
  <2>1. IsFiniteSet(Cuts)
    BY <1>8, FS_Subset
  <2>2. \A p \in 0 .. i - 1 : p \in Nat
    BY <1>1
  <2> QED
    BY <1>8, <2>1, <2>2
<1>10. Cardinality(Cuts) \in Nat
  BY <1>9, FS_CardinalityType
<1> QED
  BY <1>1, <1>2, <1>3, <1>5, <1>6, <1>7, <1>9, <1>10

\* What the code sees at the scanner is what the text has there.
LEMMA SeenAtScanner ==
  ASSUME CopyInv, ~ReadsPastEnd
  PROVE  /\ i \in 1 .. Len(text) /\ dup[i] = text[i]
         /\ IsBreak(i) <=> i \in Breaks(text)
         /\ IsBreak(i + 1) <=> i + 1 \in Breaks(text)
<1>1. Len(text) \in Nat /\ i \in Nat
  BY BreaksOf
<1>2. i \in 1 .. Len(text)
  BY <1>1 DEF ReadsPastEnd, In, CopyInv
<1>3. \A p \in 1 .. Len(text) : p >= i => dup[p] = text[p]
  BY <1>1 DEF CopyInv
<1>4. \A p \in {i, i + 1} : IsBreak(p) <=> p \in Breaks(text)
  <2> SUFFICES ASSUME NEW p \in {i, i + 1}
               PROVE  IsBreak(p) <=> p \in Breaks(text)
    OBVIOUS
  <2>1. p \in Nat /\ p >= i /\ p >= 1
    BY <1>1, <1>2
  <2>2. CASE p + 1 <= Len(text)
    <3>1. dup[p] = text[p] /\ dup[p + 1] = text[p + 1] /\ p \in 1 .. Len(text) - 1
      BY <1>1, <1>3, <2>1, <2>2
    <3> QED
      BY <2>2, <3>1 DEF IsBreak, In, Breaks, CopyInv
  <2>3. CASE ~(p + 1 <= Len(text))
    <3>1. p \notin 1 .. Len(text) - 1
      BY <1>1, <2>1, <2>3
    <3> QED
      BY <2>3, <3>1 DEF IsBreak, In, Breaks, CopyInv
  <2> QED
    BY <2>2, <2>3
<1> QED
  BY <1>2, <1>3, <1>4, <1>1

\* Cutting a place behind the scanner, as it moves on.
LEMMA CopyMoves ==
  ASSUME CopyInv, NEW n \in {1, 2}, i' = i + n, text' = text,
         i + n <= Len(text) + 1,
         CutAt(i) => dup' = [dup EXCEPT ![i] = "nul"],
         ~CutAt(i) => dup' = dup,
         n = 2 => ~CutAt(i + 1)
  PROVE  CopyInv'
<1>1. Len(text) \in Nat /\ i \in Nat /\ i \in 1 .. Len(text) /\ DOMAIN dup = 1 .. Len(text)
  BY BreaksOf DEF CopyInv
<1>2. i' \in 1 .. Len(text) + 1
  BY <1>1
<1>3. /\ dup' \in Seq(Char \cup {"nul"}) /\ Len(dup') = Len(text)
      /\ \A p \in 1 .. Len(text) :
           dup'[p] = IF p = i /\ CutAt(i) THEN "nul" ELSE dup[p]
  <2>1. CASE CutAt(i)
    <3> DEFINE K == Char \cup {"nul"}
               nul == "nul"
    <3>1. /\ dup \in Seq(K) /\ Len(dup) = Len(text)
          /\ nul \in K /\ i \in 1 .. Len(dup)
          /\ dup' = [dup EXCEPT ![i] = nul]
      BY <1>1, <2>1 DEF CopyInv
    <3> HIDE DEF K, nul
    <3>2. /\ dup' \in Seq(K) /\ Len(dup') = Len(dup)
          /\ \A p \in 1 .. Len(dup) : dup'[p] = IF p = i THEN nul ELSE dup[p]
      BY ONLY <3>1, ExceptSeq
    <3> QED
      BY <2>1, <3>1, <3>2 DEF K, nul
  <2>2. CASE ~CutAt(i)
    BY <2>2 DEF CopyInv
  <2> QED
    BY <2>1, <2>2
<1>4. \A p \in 1 .. Len(text) : CutAt(p)' <=> CutAt(p)
  BY DEF CutAt, Breaks
<1>5. \A p \in 1 .. Len(text) :
        (p < i' /\ CutAt(p)) <=> (p < i /\ CutAt(p)) \/ (p = i /\ CutAt(i))
  <2> SUFFICES ASSUME NEW p \in 1 .. Len(text)
               PROVE  (p < i' /\ CutAt(p)) <=> (p < i /\ CutAt(p)) \/ (p = i /\ CutAt(i))
    OBVIOUS
  <2>1. p < i' <=> p < i \/ p = i \/ (n = 2 /\ p = i + 1)
    BY <1>1
  <2>2. p = i => i < i'
    BY <1>1
  <2> QED
    BY <2>1, <2>2
<1>6. \A p \in 1 .. Len(text) :
        dup'[p] = IF p < i' /\ CutAt(p)' THEN "nul" ELSE text[p]
  BY <1>3, <1>4, <1>5 DEF CopyInv
<1> QED
  BY <1>2, <1>3, <1>6 DEF CopyInv

\* The lines that have ended stay while the scanner passes no break.
LEMMA PastKept ==
  ASSUME CopyInv, text' = text, i' = i + 1, i \notin Breaks(text)
  PROVE  /\ Past' = Past /\ Ends' = Ends /\ Start' = Start
         /\ \A k : Begin(k)' = Begin(k)
         /\ \A p : CutAt(p)' <=> CutAt(p)
         /\ Breaks(text)' = Breaks(text) /\ EmptyLines(text)' = EmptyLines(text)
         /\ \A b, e : CutsOf(b, e)' = CutsOf(b, e)
<1>1. Breaks(text)' = Breaks(text) /\ EmptyLines(text)' = EmptyLines(text)
  BY DEF Breaks, EmptyLines
<1>2. \A p \in Breaks(text) : p \in Nat /\ p # i /\ i \in Nat
  BY BreaksOf
<1>3. \A p \in Breaks(text) : p < i + 1 <=> p < i
  BY <1>2
<1>4. Past' = Past
  BY <1>1, <1>3 DEF Past
<1>5. Ends' = Ends
  BY <1>4 DEF Ends
<1>6. Start' = Start /\ \A k : Begin(k)' = Begin(k)
  BY <1>4, <1>5 DEF Begin, Start
<1>7. \A p : CutAt(p)' <=> CutAt(p)
  BY <1>1 DEF CutAt
<1>8. \A b, e : CutsOf(b, e)' = CutsOf(b, e)
  BY DEF CutsOf
<1> QED
  BY <1>1, <1>4, <1>5, <1>6, <1>7, <1>8

\* The lines of the bag stay with it.
LEMMA LinesKept ==
  ASSUME LinesInv, pc \in {"scan", "bag"}, pc' = pc, lines' = lines, Past' = Past,
         Ends' = Ends, \A k : Begin(k)' = Begin(k),
         \A b, e : CutsOf(b, e)' = CutsOf(b, e)
  PROVE  LinesInv'
BY DEF LinesInv, WordStart

LEMMA AdvanceInv ==
  ASSUME ScanInv, Advance
  PROVE  ScanInv'
<1>1. /\ pc = "scan" /\ pc' = pc /\ ~ReadsPastEnd /\ i' = i + 1
      /\ UNCHANGED <<text, dup, a, words, lines>>
  BY DEF Advance
<1>2. CopyInv /\ LineInv /\ LinesInv
  BY DEF ScanInv
<1>3. /\ i \in 1 .. Len(text) /\ dup[i] = text[i]
      /\ IsBreak(i) <=> i \in Breaks(text)
      /\ IsBreak(i + 1) <=> i + 1 \in Breaks(text)
  BY <1>1, <1>2, SeenAtScanner
<1>4. i \notin Breaks(text) /\ ~CutAt(i)
  BY <1>3 DEF Advance, CutAt
<1>5. CopyInv'
  <2>1. i + 1 <= Len(text) + 1
    BY <1>2, <1>3, BreaksOf
  <2> QED
    BY <1>1, <1>2, <1>4, <2>1, CopyMoves
<1>6. /\ Past' = Past /\ Ends' = Ends /\ Start' = Start
      /\ \A k : Begin(k)' = Begin(k)
      /\ \A p : CutAt(p)' <=> CutAt(p)
      /\ Breaks(text)' = Breaks(text) /\ EmptyLines(text)' = EmptyLines(text)
      /\ \A b, e : CutsOf(b, e)' = CutsOf(b, e)
  BY <1>1, <1>2, <1>4, PastKept
<1>7. /\ i \in Nat /\ Start \in Nat
      /\ Breaks(text) \in SUBSET Nat /\ EmptyLines(text) \in SUBSET Nat
  BY <1>2, BreaksOf DEF EmptyLines
<1>8. Cuts' = Cuts
  <2>1. \A p : p \in Start .. (i + 1) - 1 /\ p # i <=> p \in Start .. i - 1
    BY <1>7
  <2> QED
    BY <1>1, <1>4, <1>6, <2>1 DEF Cuts
<1>9. LineInv'
  <2>1. Start <= i + 1
    BY <1>1, <1>2, <1>7 DEF LineInv
  <2>2. \A p \in Breaks(text) : p < Start \/ i + 1 <= p
    BY <1>1, <1>2, <1>4, <1>7 DEF LineInv
  <2>3. \A e \in EmptyLines(text) : i + 1 <= e
    <3>1. \A e \in EmptyLines(text) : i <= e /\ e # i /\ e \in Nat
      BY <1>1, <1>2, <1>4, <1>7 DEF LineInv, EmptyLines
    <3> QED
      BY <1>7, <3>1
  <2> QED
    BY <1>1, <1>2, <1>6, <1>8, <2>1, <2>2, <2>3 DEF LineInv, WordStart
<1>10. LinesInv'
  BY <1>1, <1>2, <1>6, LinesKept
<1> QED
  BY <1>1, <1>5, <1>9, <1>10 DEF ScanInv, BagInv

\* A cut behind all others leaves the words before it where they begin.
LEMMA WordStartsGrow ==
  ASSUME NEW S \in SUBSET Nat, IsFiniteSet(S), NEW x \in Nat, \A y \in S : y < x,
         NEW b \in Nat
  PROVE  /\ \A w \in 1 .. Cardinality(S) + 1 :
              WordStart(b, S \cup {x}, w) = WordStart(b, S, w) /\ WordStart(b, S, w) \in Nat
         /\ WordStart(b, S \cup {x}, Cardinality(S) + 2) = x + 1
<1>1. Cardinality(S) \in Nat
  BY FS_CardinalityType
<1>2. /\ \A k \in 1 .. Cardinality(S) : InOrder(S \cup {x})[k] = InOrder(S)[k]
      /\ InOrder(S \cup {x})[Cardinality(S) + 1] = x
  BY InOrderAdd
<1>3. ASSUME NEW w \in 1 .. Cardinality(S) + 1
      PROVE  WordStart(b, S \cup {x}, w) = WordStart(b, S, w) /\ WordStart(b, S, w) \in Nat
  <2>1. CASE w = 1
    BY <2>1 DEF WordStart
  <2>2. CASE w # 1
    <3>1. w - 1 \in 1 .. Cardinality(S)
      BY <1>1, <2>2
    <3>2. InOrder(S)[w - 1] \in S
      BY <3>1, InOrderRank
    <3> DEFINE o == InOrder(S)[w - 1]
    <3>3. o + 1 \in Nat
      <4>1. o \in Nat
        BY <3>2
      <4> HIDE DEF o
      <4> QED
        BY <4>1
    <3> QED
      BY <1>2, <2>2, <3>1, <3>3 DEF WordStart
  <2> QED
    BY <2>1, <2>2
<1>4. WordStart(b, S \cup {x}, Cardinality(S) + 2) = x + 1
  <2>1. Cardinality(S) + 2 # 1 /\ (Cardinality(S) + 2) - 1 = Cardinality(S) + 1
    BY <1>1
  <2> QED
    BY <1>2, <2>1 DEF WordStart
<1> QED
  BY <1>3, <1>4

LEMMA EndWordInv ==
  ASSUME ScanInv, EndWord
  PROVE  ScanInv'
<1>1. /\ pc = "scan" /\ pc' = pc /\ ~ReadsPastEnd /\ i' = i + 1 /\ a' = i + 1
      /\ dup' = [dup EXCEPT ![i] = "nul"] /\ words' = Append(words, a)
      /\ UNCHANGED <<text, lines>>
  BY DEF EndWord
<1>2. CopyInv /\ LineInv /\ LinesInv
  BY DEF ScanInv
<1>3. /\ i \in 1 .. Len(text) /\ dup[i] = text[i]
      /\ IsBreak(i + 1) <=> i + 1 \in Breaks(text)
  BY <1>1, <1>2, SeenAtScanner
<1>4. i \notin Breaks(text) /\ CutAt(i)
  BY <1>3 DEF EndWord, CutAt, Breaks
<1>5. CopyInv'
  <2>1. i + 1 <= Len(text) + 1
    BY <1>2, <1>3, BreaksOf
  <2> QED
    BY <1>1, <1>2, <1>4, <2>1, CopyMoves
<1>6. /\ Past' = Past /\ Ends' = Ends /\ Start' = Start
      /\ \A k : Begin(k)' = Begin(k)
      /\ \A p : CutAt(p)' <=> CutAt(p)
      /\ Breaks(text)' = Breaks(text) /\ EmptyLines(text)' = EmptyLines(text)
      /\ \A b, e : CutsOf(b, e)' = CutsOf(b, e)
  BY <1>1, <1>2, <1>4, PastKept
<1>7. /\ i \in Nat /\ Start \in Nat
      /\ Breaks(text) \in SUBSET Nat /\ EmptyLines(text) \in SUBSET Nat
      /\ Cuts \in SUBSET Nat /\ IsFiniteSet(Cuts) /\ Cardinality(Cuts) \in Nat
  BY <1>2, BreaksOf DEF EmptyLines
<1>8. Cuts' = Cuts \cup {i} /\ \A p \in Cuts : p < i
  <2>1. Start <= i
    BY <1>1, <1>2 DEF LineInv
  <2>2. \A p : p \in Start .. (i + 1) - 1 <=> p \in Start .. i - 1 \/ p = i
    BY <1>7, <2>1
  <2>3. \A p \in Start .. i - 1 : p < i
    BY <1>7
  <2> QED
    BY <1>1, <1>4, <1>6, <2>2, <2>3 DEF Cuts
<1> DEFINE C == Cuts
           N == Cardinality(C)
           D == C \cup {i}
<1>9. /\ \A w \in 1 .. N + 1 :
           WordStart(Start, D, w) = WordStart(Start, C, w) /\ WordStart(Start, C, w) \in Nat
      /\ WordStart(Start, D, N + 2) = i + 1
      /\ Cardinality(D) = N + 1
  <2>1. C \in SUBSET Nat /\ IsFiniteSet(C) /\ \A p \in C : p < i
    BY <1>7, <1>8
  <2> HIDE DEF C
  <2> QED
    BY <1>7, <2>1, WordStartsGrow, InOrderAdd
<1>10. /\ words \in Seq(Nat) /\ Len(words) = N
       /\ \A w \in 1 .. Len(words) : words[w] = WordStart(Start, C, w)
       /\ a = WordStart(Start, C, N + 1)
  BY <1>1, <1>2 DEF LineInv
<1>11. N \in Nat /\ N + 1 \in 1 .. N + 1
  BY <1>7
<1>12. Cuts' = D
  BY <1>8
<1> HIDE DEF C, N, D
<1>13. /\ words' \in Seq(Nat) /\ Len(words') = N + 1
       /\ \A w \in 1 .. N : words'[w] = words[w]
       /\ words'[N + 1] = a
  <2>1. a \in Nat
    BY <1>9, <1>10, <1>11
  <2> QED
    BY <1>1, <1>10, <2>1, AppendProperties
<1>14. \A w \in 1 .. N + 1 : words'[w] = WordStart(Start, D, w)
  <2> SUFFICES ASSUME NEW w \in 1 .. N + 1
               PROVE  words'[w] = WordStart(Start, D, w)
    OBVIOUS
  <2>1. w \in 1 .. N \/ w = N + 1
    BY <1>11
  <2> QED
    BY <1>9, <1>10, <1>13, <2>1
<1>15. a' = WordStart(Start, D, (N + 1) + 1)
  <2>1. (N + 1) + 1 = N + 2
    BY <1>11
  <2> QED
    BY <1>1, <1>9, <2>1
<1>16. LineInv'
  <2>1. Start <= i + 1
    BY <1>1, <1>2, <1>7 DEF LineInv
  <2>2. \A p \in Breaks(text) : p < Start \/ i + 1 <= p
    BY <1>1, <1>2, <1>4, <1>7 DEF LineInv
  <2>3. \A e \in EmptyLines(text) : i + 1 <= e
    <3>1. \A e \in EmptyLines(text) : i <= e /\ e # i /\ e \in Nat
      BY <1>1, <1>2, <1>4, <1>7 DEF LineInv, EmptyLines
    <3> QED
      BY <1>7, <3>1
  <2>4. Start = 1 \/ Start - 2 \in Breaks(text)
    BY <1>1, <1>2 DEF LineInv
  <2>5. /\ words' \in Seq(Nat) /\ Len(words') = Cardinality(Cuts')
        /\ \A w \in 1 .. Len(words') : words'[w] = WordStart(Start', Cuts', w)
        /\ a' = WordStart(Start', Cuts', Cardinality(Cuts') + 1)
    BY <1>6, <1>9, <1>12, <1>13, <1>14, <1>15
  <2> QED
    BY <1>1, <1>6, <2>1, <2>2, <2>3, <2>4, <2>5 DEF LineInv, WordStart
<1>17. LinesInv'
  BY <1>1, <1>2, <1>6, LinesKept
<1> QED
  BY <1>1, <1>5, <1>16, <1>17 DEF ScanInv, BagInv

\* The line that ends at the scanner is added to those behind it.
LEMMA PastGrows ==
  ASSUME CopyInv, text' = text, i' = i + 2, i \in Breaks(text)
  PROVE  /\ i + 1 \notin Breaks(text) /\ ~CutAt(i + 1) /\ CutAt(i)
         /\ i + 2 <= Len(text) + 1
         /\ Cardinality(Past') = Cardinality(Past) + 1
         /\ \A k \in 1 .. Cardinality(Past) : Ends'[k] = Ends[k]
         /\ Ends'[Cardinality(Past) + 1] = i
         /\ \A k \in 1 .. Cardinality(Past) + 1 : Begin(k)' = Begin(k)
         /\ Start' = i + 2
         /\ Breaks(text)' = Breaks(text) /\ EmptyLines(text)' = EmptyLines(text)
         /\ \A b, e : CutsOf(b, e)' = CutsOf(b, e)
<1> DEFINE P == Past
           M == Cardinality(P)
<1>1. /\ Len(text) \in Nat /\ i \in Nat /\ i \in 1 .. Len(text) - 1
      /\ text[i] = "cr" /\ text[i + 1] = "lf"
      /\ P \in SUBSET Nat /\ IsFiniteSet(P) /\ M \in Nat
      /\ Breaks(text) \in SUBSET Nat
  BY BreaksOf
<1>2. i + 1 \notin Breaks(text) /\ ~CutAt(i + 1) /\ CutAt(i) /\ i + 2 <= Len(text) + 1
  BY <1>1 DEF Breaks, CutAt
<1>3. Breaks(text)' = Breaks(text) /\ EmptyLines(text)' = EmptyLines(text)
  BY DEF Breaks, EmptyLines
<1>4. \A b, e : CutsOf(b, e)' = CutsOf(b, e)
  BY DEF CutsOf
<1>5. Past' = P \cup {i} /\ \A p \in P : p < i
  <2>1. \A p \in Breaks(text) : p \in Nat /\ p # i + 1
    BY <1>1, <1>2
  <2>2. \A p \in Breaks(text) : p < i + 2 <=> p < i \/ p = i
    BY <1>1, <2>1
  <2> QED
    BY <1>3, <2>2 DEF Past
<1>6. Ends' = InOrder(P \cup {i}) /\ Ends = InOrder(P)
  BY <1>5 DEF Ends
<1>7. M = Cardinality(Past)
  OBVIOUS
<1> HIDE DEF P
<1>8. /\ Cardinality(P \cup {i}) = M + 1
      /\ \A k \in 1 .. M : Ends'[k] = Ends[k]
      /\ Ends'[M + 1] = i
  BY <1>1, <1>5, <1>6, InOrderAdd
<1>9. ASSUME NEW k \in 1 .. M + 1
      PROVE  Begin(k)' = Begin(k)
  <2>1. k # 1 => k - 1 \in 1 .. M
    BY <1>1
  <2> QED
    BY <1>8, <2>1 DEF Begin
<1>10. Start' = i + 2
  <2>1. (M + 1) + 1 # 1 /\ ((M + 1) + 1) - 1 = M + 1
    BY <1>1
  <2>2. Start' = Ends'[M + 1] + 2
    BY <1>5, <1>8, <2>1 DEF Start, Begin
  <2> QED
    BY <1>8, <2>2
<1> QED
  BY <1>2, <1>3, <1>4, <1>5, <1>7, <1>8, <1>9, <1>10

\* What the scanner knows of the line that ends where it is: its cuts, and
\* whether it is empty.
LEMMA LineAtBreak ==
  ASSUME ScanInv, pc = "scan", i \in Breaks(text)
  PROVE  /\ CutsOf(Start, i) = Cuts \cup {i} /\ \A p \in Cuts : p < i
         /\ a = i <=> Start = i
         /\ a = i => Cuts = {}
         /\ i \in EmptyLines(text) <=> Start = i
<1>1. CopyInv /\ LineInv
  BY DEF ScanInv
<1>2. /\ i \in Nat /\ Start \in Nat /\ Len(text) \in Nat
      /\ \A p \in Breaks(text) : /\ p \in Nat /\ p >= 1 /\ p <= Len(text) - 1
                                 /\ text[p] = "cr" /\ text[p + 1] = "lf"
      /\ Cuts \in SUBSET Nat /\ IsFiniteSet(Cuts) /\ Cardinality(Cuts) \in Nat
  BY <1>1, BreaksOf
<1>3. /\ Start <= i /\ (Start = 1 \/ Start - 2 \in Breaks(text))
      /\ \A p \in Breaks(text) : p < Start \/ i <= p
      /\ a = WordStart(Start, Cuts, Cardinality(Cuts) + 1)
  BY <1>1 DEF LineInv
<1>4. \A p \in Cuts : p \in Start .. i - 2 /\ text[p] = "sp"
  <2> SUFFICES ASSUME NEW p \in Cuts
               PROVE  p \in Start .. i - 2 /\ text[p] = "sp"
    OBVIOUS
  <2>1. p \in Start .. i - 1 /\ CutAt(p)
    BY DEF Cuts
  <2>2. p \notin Breaks(text)
    BY <1>2, <1>3, <2>1
  <2>3. text[p] = "sp" /\ p + 1 \notin Breaks(text)
    BY <2>1, <2>2 DEF CutAt
  <2>4. p + 1 # i
    BY <2>3
  <2> QED
    BY <1>2, <2>1, <2>3, <2>4
<1>5. \A p \in Start .. i - 2 : text[p] = "sp" => p \in Cuts
  <2> SUFFICES ASSUME NEW p \in Start .. i - 2, text[p] = "sp"
               PROVE  p \in Cuts
    OBVIOUS
  <2>1. p \in Start .. i - 1 /\ Start <= p + 1 /\ ~(i <= p + 1) /\ ~(p + 1 < Start)
    BY <1>2
  <2>2. p + 1 \notin Breaks(text)
    BY <1>3, <2>1
  <2> QED
    BY <2>1, <2>2 DEF Cuts, CutAt
<1>6. CutsOf(Start, i) = Cuts \cup {i} /\ \A p \in Cuts : p < i
  <2>1. \A p \in Cuts : p < i
    BY <1>2, <1>4
  <2> QED
    BY <1>4, <1>5, <2>1 DEF CutsOf
<1>7. Cuts = {} => a = Start
  BY <1>3, FS_EmptySet DEF WordStart
<1>8. Cuts # {} => a # i /\ Start # i
  <2> SUFFICES ASSUME Cuts # {}
               PROVE  a # i /\ Start # i
    OBVIOUS
  <2> DEFINE N == Cardinality(Cuts)
             o == InOrder(Cuts)[N]
  <2>1. N \in Nat /\ N # 0
    BY <1>2, FS_EmptySet
  <2>2. o \in Cuts
    <3>1. N \in 1 .. Cardinality(Cuts)
      BY <2>1
    <3> QED
      BY <1>2, <3>1, InOrderRank
  <2>3. a = o + 1
    <3>1. N + 1 # 1 /\ (N + 1) - 1 = N
      BY <2>1
    <3> QED
      BY <1>3, <3>1 DEF WordStart
  <2> HIDE DEF o, N
  <2>4. o \in Start .. i - 2
    BY <1>4, <2>2
  <2> QED
    BY <1>2, <2>3, <2>4
<1>9. Start = i => i \in EmptyLines(text)
  BY <1>3 DEF EmptyLines
<1>10. Start # i => i \notin EmptyLines(text)
  <2> SUFFICES ASSUME Start # i, i \in EmptyLines(text)
               PROVE  FALSE
    OBVIOUS
  <2>1. Start < i /\ Start >= 1
    <3>1. Start < i
      BY <1>2, <1>3
    <3>2. Start - 2 \in Breaks(text) => Start >= 1
      BY <1>2
    <3> QED
      BY <1>2, <1>3, <3>1, <3>2
  <2>2. i # 1
    BY <1>2, <2>1
  <2>3. i - 2 \in Breaks(text)
    BY <2>2 DEF EmptyLines
  <2>4. i - 2 < Start
    BY <1>2, <1>3, <2>3
  <2>5. Start = i - 1 /\ Start - 2 = i - 3
    BY <1>2, <2>1, <2>4
  <2>6. i - 2 >= 1 /\ Start # 1
    BY <1>2, <2>3, <2>5
  <2>7. i - 3 \in Breaks(text)
    BY <1>3, <2>5, <2>6
  <2>8. (i - 3) + 1 = i - 2
    BY <1>2
  <2>9. text[i - 2] = "lf" /\ text[i - 2] = "cr"
    BY <1>2, <2>3, <2>7, <2>8
  <2> QED
    BY <2>9
<1> QED
  BY <1>6, <1>7, <1>8, <1>9, <1>10

LEMMA EndLineInv ==
  ASSUME ScanInv, EndLine
  PROVE  ScanInv'
<1> DEFINE C == Cuts
           N == Cardinality(C)
           M == Cardinality(Past)
           L == Append(words, IF a = i THEN 0 ELSE a)
<1>1. /\ pc = "scan" /\ pc' = (IF a = i THEN "bag" ELSE "scan") /\ ~ReadsPastEnd
      /\ i' = i + 2 /\ a' = i + 2 /\ words' = <<>> /\ lines' = Append(lines, L)
      /\ dup' = [dup EXCEPT ![i] = "nul"] /\ text' = text
  BY DEF EndLine
<1>2. CopyInv /\ LineInv /\ LinesInv
  BY DEF ScanInv
<1>3. i \in Breaks(text)
  BY <1>1, <1>2, SeenAtScanner DEF EndLine
<1>4. /\ i \in Nat /\ Start \in Nat /\ M \in Nat
      /\ \A p \in Breaks(text) : p \in Nat
      /\ C \in SUBSET Nat /\ IsFiniteSet(C) /\ N \in Nat
  BY <1>2, BreaksOf
<1>5. /\ i + 1 \notin Breaks(text) /\ ~CutAt(i + 1) /\ CutAt(i)
      /\ i + 2 <= Len(text) + 1
      /\ Cardinality(Past') = M + 1
      /\ \A k \in 1 .. M : Ends'[k] = Ends[k]
      /\ Ends'[M + 1] = i
      /\ \A k \in 1 .. M + 1 : Begin(k)' = Begin(k)
      /\ Start' = i + 2
      /\ Breaks(text)' = Breaks(text) /\ EmptyLines(text)' = EmptyLines(text)
      /\ \A b, e : CutsOf(b, e)' = CutsOf(b, e)
  BY <1>1, <1>2, <1>3, PastGrows
<1>6. /\ CutsOf(Start, i) = C \cup {i} /\ \A p \in C : p < i
      /\ a = i <=> Start = i
      /\ a = i => C = {}
      /\ i \in EmptyLines(text) <=> Start = i
  BY <1>1, <1>3, LineAtBreak
<1>7. CopyInv'
  BY <1>1, <1>2, <1>5, CopyMoves
<1>8. /\ Start <= i
      /\ Start = Begin(M + 1)
      /\ words \in Seq(Nat) /\ Len(words) = N
      /\ \A w \in 1 .. Len(words) : words[w] = WordStart(Start, C, w)
      /\ a = WordStart(Start, C, N + 1)
      /\ \A e \in EmptyLines(text) : i <= e
  BY <1>1, <1>2 DEF LineInv, Start
<1>9. Cuts' = {}
  <2>1. \A p : p \notin i + 2 .. (i + 2) - 1
    BY <1>4
  <2> QED
    BY <1>1, <1>5, <2>1 DEF Cuts
<1>10. LineInv'
  <2>1. \A p \in Breaks(text) : p < i + 2 \/ i + 2 <= p
    BY <1>4
  <2>2. \A e \in EmptyLines(text) : Start # i => i + 2 <= e
    <3>1. \A e \in EmptyLines(text) : e \in Nat /\ i <= e /\ e # i + 1
      BY <1>4, <1>5, <1>8 DEF EmptyLines
    <3>2. \A e \in EmptyLines(text) : Start # i => e # i
      BY <1>6
    <3> QED
      BY <1>4, <3>1, <3>2
  <2>3. Start' = 1 \/ Start' - 2 \in Breaks(text)
    <3>1. (i + 2) - 2 = i
      BY <1>4
    <3> QED
      BY <1>3, <1>5, <3>1
  <2>4. Cardinality(Cuts') = 0 /\ Len(words') = 0 /\ words' \in Seq(Nat)
    BY <1>1, <1>9, FS_EmptySet
  <2>5. i + 2 <= i + 2
    BY <1>4
  <2>6. pc' = "scan" => Start # i
    BY <1>1, <1>6
  <2>7. \A w \in 1 .. Len(words') : words'[w] = WordStart(Start', Cuts', w)
    BY <2>4
  <2>8. a' = WordStart(Start', Cuts', Cardinality(Cuts') + 1)
    BY <1>1, <1>5, <2>4 DEF WordStart
  <2> QED
    BY <1>1, <1>5, <2>1, <2>2, <2>3, <2>4, <2>5, <2>6, <2>7, <2>8 DEF LineInv, WordStart
<1> HIDE DEF C, N, M
<1>11. L \in Seq(Nat)
  <2>1. a \in Nat
    <3>1. N + 1 \in 1 .. N + 1
      BY <1>4
    <3>2. N = Cardinality(C)
      BY DEF N
    <3> QED
      BY <1>4, <1>6, <1>8, <3>1, <3>2, WordStartsGrow
  <2> QED
    BY <1>8, <2>1, AppendProperties
<1>12. /\ Len(L) = N + 1
       /\ \A w \in 1 .. N : L[w] = words[w]
       /\ L[N + 1] = IF a = i THEN 0 ELSE a
  <2>1. a \in Nat \cup {a} /\ words \in Seq(Nat \cup {a})
    BY <1>8
  <2> QED
    BY <1>8, <2>1, AppendProperties
<1>13. lines \in Seq(Seq(Nat)) /\ Len(lines) = M
  BY <1>1, <1>2 DEF LinesInv, M
<1> HIDE DEF L
<1>14. /\ lines' \in Seq(Seq(Nat)) /\ Len(lines') = M + 1
       /\ \A k \in 1 .. M : lines'[k] = lines[k]
       /\ lines'[M + 1] = L
  BY <1>1, <1>11, <1>13, AppendProperties
<1>15. ASSUME a # i
       PROVE  /\ Start < i /\ Len(L) = Cardinality(C \cup {i})
              /\ \A w \in 1 .. Len(L) : L[w] = WordStart(Start, C \cup {i}, w)
  <2>1. Start < i
    BY <1>4, <1>6, <1>8, <1>15
  <2>2. N = Cardinality(C)
    BY DEF N
  <2>3. /\ Cardinality(C \cup {i}) = N + 1
        /\ \A w \in 1 .. N + 1 : WordStart(Start, C \cup {i}, w) = WordStart(Start, C, w)
    <3>1. C \in SUBSET Nat /\ IsFiniteSet(C) /\ i \in Nat /\ Start \in Nat
      BY <1>4
    <3>2. \A p \in C : p < i
      BY <1>6
    <3>3. Cardinality(C \cup {i}) = N + 1
      BY <2>2, <3>1, <3>2, InOrderAdd
    <3>4. \A w \in 1 .. N + 1 : WordStart(Start, C \cup {i}, w) = WordStart(Start, C, w)
      BY <2>2, <3>1, <3>2, WordStartsGrow
    <3> QED
      BY <3>3, <3>4
  <2>4. \A w \in 1 .. N + 1 : w \in 1 .. N \/ w = N + 1
    BY <1>4
  <2>5. \A w \in 1 .. N + 1 : L[w] = WordStart(Start, C, w)
    BY <1>8, <1>12, <1>15, <2>4
  <2> QED
    BY <1>12, <2>1, <2>3, <2>5
<1>16. a = i => L = <<0>> /\ Start = i
  <2> SUFFICES ASSUME a = i
               PROVE  L = <<0>> /\ Start = i
    OBVIOUS
  <2>1. N = 0
    BY <1>6, FS_EmptySet DEF N
  <2>2. words = <<>>
    BY <1>8, <2>1
  <2> QED
    BY <1>6, <2>2 DEF L
<1>17. LinesInv'
  <2>1. Len(lines') = Cardinality(Past')
    BY <1>5, <1>14
  <2>2. ASSUME NEW k \in 1 .. Len(lines')
        PROVE  IF pc' = "bag" /\ k = Len(lines')
                 THEN lines'[k] = <<0>> /\ Begin(k)' = Ends'[k]
                 ELSE /\ Begin(k)' < Ends'[k]
                      /\ Len(lines'[k]) = Cardinality(CutsOf(Begin(k)', Ends'[k]))
                      /\ \A w \in 1 .. Len(lines'[k]) :
                           lines'[k][w] =
                             WordStart(Begin(k)', CutsOf(Begin(k)', Ends'[k]), w)
    <3>1. k \in 1 .. M \/ k = M + 1
      BY <1>4, <1>14
    <3>2. CASE k \in 1 .. M
      <4>1. k # Len(lines') /\ k \in 1 .. M + 1
        BY <1>4, <1>14, <3>2
      <4>2. /\ Begin(k) < Ends[k]
            /\ Len(lines[k]) = Cardinality(CutsOf(Begin(k), Ends[k]))
            /\ \A w \in 1 .. Len(lines[k]) :
                 lines[k][w] = WordStart(Begin(k), CutsOf(Begin(k), Ends[k]), w)
        BY <1>1, <1>2, <1>13, <3>2 DEF LinesInv
      <4> QED
        BY <1>5, <1>14, <3>2, <4>1, <4>2
    <3>3. CASE k = M + 1
      <4>1. k = Len(lines') /\ k \in 1 .. M + 1
        BY <1>4, <1>14, <3>3
      <4>2. Begin(k)' = Start /\ Ends'[k] = i /\ lines'[k] = L
        BY <1>5, <1>8, <1>14, <3>3, <4>1
      <4>3. CASE a = i
        BY <1>1, <1>16, <4>1, <4>2, <4>3
      <4>4. CASE a # i
        BY <1>1, <1>6, <1>15, <4>2, <4>4
      <4> QED
        BY <4>3, <4>4
    <3> QED
      BY <3>1, <3>2, <3>3
  <2>3. \A S, b, w : WordStart(b, S, w)' = WordStart(b, S, w)
    BY DEF WordStart
  <2> QED
    BY <1>5, <1>14, <2>1, <2>2, <2>3 DEF LinesInv
<1>18. BagInv'
  <2>1. (i + 2) - 2 = i
    BY <1>4
  <2>2. pc' = "bag" => i \in EmptyLines(text)
    BY <1>1, <1>6
  <2> QED
    BY <1>1, <1>5, <1>8, <2>1, <2>2 DEF BagInv
<1>19. pc' \in {"scan", "bag"}
  BY <1>1
<1> QED
  BY <1>7, <1>10, <1>17, <1>18, <1>19 DEF ScanInv

-----------------------------------------------------------------------------
(* The inductive invariant                                                 *)

ParserInv == ScanInv /\ OverreadsWithoutEmptyLine

LEMMA InitScan ==
  ASSUME Init
  PROVE  ScanInv
<1>1. /\ text \in Text /\ dup = text /\ i = 1 /\ a = 1 /\ words = <<>> /\ lines = <<>>
      /\ pc = "scan"
  BY DEF Init
<1>2. text \in Seq(Char)
  BY <1>1, SeqDef, MaxTextAssumption DEF Text
<1>3. Len(text) \in Nat
  BY <1>2, LenProperties
<1>4. CopyInv
  <2>1. text \in Seq(Char \cup {"nul"})
    BY <1>2, SeqDef
  <2>2. \A p \in 1 .. Len(text) : ~(p < 1)
    BY <1>3
  <2>3. 1 \in 1 .. Len(text) + 1
    BY <1>3
  <2> QED
    BY <1>1, <1>2, <2>1, <2>2, <2>3 DEF CopyInv
<1>5. \A p \in Breaks(text) : p \in Nat /\ p >= 1
  BY <1>3 DEF Breaks
<1>6. Past = {}
  <2>1. \A p \in Breaks(text) : ~(p < 1)
    BY <1>5
  <2> QED
    BY <1>1, <2>1 DEF Past
<1>7. Start = 1
  BY <1>6, FS_EmptySet DEF Start, Begin
<1>8. Cuts = {}
  <2>1. \A p : p \notin 1 .. 1 - 1
    OBVIOUS
  <2> QED
    BY <1>1, <1>7, <2>1 DEF Cuts
<1>9. LineInv
  <2>1. \A p \in Breaks(text) : 1 <= p
    BY <1>5
  <2>2. \A e \in EmptyLines(text) : 1 <= e
    BY <2>1 DEF EmptyLines
  <2>3. Cardinality(Cuts) = 0 /\ Len(words) = 0 /\ words \in Seq(Nat)
    BY <1>1, <1>8, FS_EmptySet
  <2>4. a = WordStart(Start, Cuts, Cardinality(Cuts) + 1)
    BY <1>1, <1>7, <2>3 DEF WordStart
  <2> QED
    BY <1>1, <1>7, <2>1, <2>2, <2>3, <2>4 DEF LineInv
<1>10. LinesInv
  <2>1. Len(lines) = 0 /\ Cardinality(Past) = 0 /\ lines \in Seq(Seq(Nat))
    BY <1>1, <1>6, FS_EmptySet
  <2> QED
    BY <2>1 DEF LinesInv
<1> QED
  BY <1>1, <1>4, <1>9, <1>10 DEF ScanInv, BagInv

\* Behind the scanner there is no empty line, and one ahead of it keeps the
\* lookahead within the copy.
LEMMA EmptyLineStopsParser ==
  ASSUME CopyInv, LineInv, pc = "scan", ReadsPastEnd
  PROVE  EmptyLines(text) = {}
<1> SUFFICES ASSUME NEW e \in EmptyLines(text)
             PROVE  FALSE
  OBVIOUS
<1>1. /\ e \in 1 .. Len(text) - 1 /\ text[e] = "cr" /\ i \in Nat /\ Len(text) \in Nat
  BY BreaksOf DEF EmptyLines
<1>2. i <= e
  BY DEF LineInv
<1>3. \A p \in 1 .. Len(text) : p >= i => dup[p] = text[p]
  BY <1>1 DEF CopyInv
<1>4. i \in 1 .. Len(text) /\ i + 1 \in 1 .. Len(text) /\ Len(dup) = Len(text)
  BY <1>1, <1>2 DEF CopyInv
<1>5. dup[i] = text[i] /\ In(i) /\ In(i + 1)
  <2>1. i >= i /\ i <= Len(text) /\ i + 1 <= Len(text)
    BY <1>1, <1>4
  <2> QED
    BY <1>3, <1>4, <2>1 DEF In
<1>6. text[i] = "sp" /\ ~In(i + 2)
  BY <1>5 DEF ReadsPastEnd
<1>7. e # i
  BY <1>1, <1>6
<1>8. i + 2 <= Len(text)
  BY <1>1, <1>2, <1>7
<1> QED
  BY <1>4, <1>6, <1>8 DEF In

\* Beyond the scan only the control point, the line and the buffer move.
LEMMA ScanStays ==
  ASSUME ScanInv, UNCHANGED <<text, dup, i, a, words, lines>>,
         \/ pc' = pc
         \/ pc' \in {"dump", "done", "crash", "overread"}
  PROVE  ScanInv'
<1>1. /\ Past' = Past /\ Ends' = Ends /\ Breaks(text)' = Breaks(text)
      /\ EmptyLines(text)' = EmptyLines(text)
  BY DEF Past, Ends, Breaks, EmptyLines
<1>2. Start' = Start /\ Cuts' = Cuts /\ \A k : Begin(k)' = Begin(k)
  BY <1>1 DEF Start, Begin, Cuts, CutAt
<1>3. CopyInv'
  BY <1>1 DEF ScanInv, CopyInv, CutAt
<1>4. LineInv'
  BY <1>1, <1>2 DEF ScanInv, LineInv, WordStart
<1>5. LinesInv'
  <2>1. \A b, e : CutsOf(b, e)' = CutsOf(b, e)
    BY DEF CutsOf
  <2>2. CASE pc \in {"scan", "bag"} /\ pc' = pc
    BY <1>1, <1>2, <2>1, <2>2, LinesKept DEF ScanInv
  <2>3. CASE ~(pc \in {"scan", "bag"} /\ pc' = pc)
    BY <2>3 DEF LinesInv
  <2> QED
    BY <2>2, <2>3
<1>6. BagInv'
  BY <1>1 DEF ScanInv, BagInv
<1> QED
  BY <1>3, <1>4, <1>5, <1>6 DEF ScanInv

LEMMA BagStep ==
  ASSUME ParserInv, [Next]_vars
  PROVE  ParserInv'
<1>1. ScanInv /\ OverreadsWithoutEmptyLine
  BY DEF ParserInv
<1>2. CASE EndWord
  <2>1. ScanInv'
    BY <1>1, <1>2, EndWordInv
  <2> QED
    BY <1>2, <2>1 DEF ParserInv, OverreadsWithoutEmptyLine, EndWord
<1>3. CASE EndLine
  <2>1. ScanInv'
    BY <1>1, <1>3, EndLineInv
  <2>2. pc' \in {"scan", "bag"}
    BY <1>3 DEF EndLine
  <2> QED
    BY <2>1, <2>2 DEF ParserInv, OverreadsWithoutEmptyLine, ScanInv, BagInv
<1>4. CASE Advance
  <2>1. ScanInv'
    BY <1>1, <1>4, AdvanceInv
  <2> QED
    BY <1>4, <2>1 DEF ParserInv, OverreadsWithoutEmptyLine, Advance
<1>5. CASE Overread
  <2>1. EmptyLines(text) = {}
    BY <1>1, <1>5, EmptyLineStopsParser DEF ScanInv, Overread
  <2>2. EmptyLines(text)' = EmptyLines(text) /\ pc' = "overread"
    BY <1>5 DEF Overread, EmptyLines, Breaks
  <2>3. ScanInv'
    BY <1>1, <1>5, ScanStays DEF Overread, scanVars
  <2> QED
    BY <2>1, <2>2, <2>3 DEF ParserInv, OverreadsWithoutEmptyLine
<1>6. CASE UseBag
  <2>1. ScanInv' /\ pc' \in {"dump", "done"}
    BY <1>1, <1>6, ScanStays DEF UseBag, scanVars
  <2> QED
    BY <2>1 DEF ParserInv, OverreadsWithoutEmptyLine
<1>7. CASE DumpWord
  <2>1. ScanInv' /\ pc' \in {"dump", "crash"}
    BY <1>1, <1>7, ScanStays DEF DumpWord, scanVars
  <2> QED
    BY <2>1 DEF ParserInv, OverreadsWithoutEmptyLine
<1>8. CASE DumpEmptyLine
  <2>1. ScanInv' /\ pc' = "crash"
    BY <1>1, <1>8, ScanStays DEF DumpEmptyLine, scanVars
  <2> QED
    BY <2>1 DEF ParserInv, OverreadsWithoutEmptyLine
<1>9. CASE UNCHANGED vars
  <2>1. ScanInv' /\ pc' = pc /\ text' = text
    BY <1>1, <1>9, ScanStays DEF vars, scanVars
  <2> QED
    BY <1>1, <2>1 DEF ParserInv, OverreadsWithoutEmptyLine, EmptyLines, Breaks
<1> QED
  BY <1>2, <1>3, <1>4, <1>5, <1>6, <1>7, <1>8, <1>9 DEF Next, Done

\* Through every parse the copy is cut at exactly the ends of lines and words
\* behind the scanner, and the bag holds what begins after each cut.
THEOREM BagInvariant == Spec => []ParserInv
<1>1. Init => ParserInv
  BY InitScan DEF ParserInv, OverreadsWithoutEmptyLine, Init
<1>2. ParserInv /\ [Next]_vars => ParserInv'
  BY BagStep
<1> QED
  BY <1>1, <1>2, PTL DEF Spec

\* zt_create_line_tokens() reads past its copy of exactly the texts without an
\* empty line, whatever their length.
THEOREM OverreadsExactly == Spec => []OverreadsWithoutEmptyLine
<1>1. ParserInv => OverreadsWithoutEmptyLine
  BY DEF ParserInv
<1> QED
  BY <1>1, BagInvariant, PTL

-----------------------------------------------------------------------------
(* The bag and the reference definition                                    *)

LEMMA InOrderLen ==
  ASSUME NEW S \in SUBSET Nat, IsFiniteSet(S)
  PROVE  Len(InOrder(S)) = Cardinality(S)
<1> DEFINE N == Cardinality(S)
           o == InOrder(S)
<1>1. N \in Nat
  BY FS_CardinalityType
<1>2. DOMAIN o = 1 .. N /\ o = [k \in 1 .. N |-> o[k]]
  <2> DEFINE f(k) == CHOOSE p \in {q \in S : Cardinality({r \in S : r < q}) = k - 1} : TRUE
  <2>1. o = [k \in 1 .. N |-> f(k)]
    BY DEF InOrder
  <2> HIDE DEF f, o, N
  <2> QED
    BY <2>1
<1>3. \A k \in 1 .. N : o[k] \in S
  BY InOrderRank
<1> HIDE DEF N, o
<1>4. o \in [1 .. N -> S]
  BY <1>2, <1>3
<1>5. o \in Seq(S)
  BY <1>1, <1>4, SeqDef
<1>6. Len(o) \in Nat /\ DOMAIN o = 1 .. Len(o)
  BY <1>5, LenProperties
<1>7. Len(o) = N
  <2> DEFINE L == Len(o)
  <2>1. L \in Nat /\ \A j : j \in 1 .. L <=> j \in 1 .. N
    BY <1>2, <1>6
  <2> HIDE DEF L
  <2>2. L > 0 => L \in 1 .. N
    BY <2>1
  <2>3. N > 0 => N \in 1 .. L
    BY <1>1, <2>1
  <2>4. L = N
    BY <1>1, <2>1, <2>2, <2>3
  <2> QED
    BY <2>4 DEF L
<1> QED
  BY <1>7 DEF N, o

\* The bag ends with the first empty line of the text.
LEMMA LinesOfBag ==
  ASSUME ScanInv, pc = "bag"
  PROVE  /\ LineEnds(text) = Ends /\ Len(Ends) = Cardinality(Past)
         /\ \A k : LineStart(text, k) = Begin(k)
<1>1. CopyInv /\ i - 2 \in EmptyLines(text) /\ \A e \in EmptyLines(text) : i - 2 <= e
  BY DEF ScanInv, BagInv
<1>2. /\ i \in Nat /\ EmptyLines(text) \in SUBSET Nat /\ i - 2 \in Breaks(text)
      /\ \A p \in Breaks(text) : /\ p \in 1 .. Len(text) - 1
                                 /\ text[p] = "cr" /\ text[p + 1] = "lf"
      /\ Past \in SUBSET Nat /\ IsFiniteSet(Past) /\ Len(text) \in Nat
  BY <1>1, BreaksOf DEF EmptyLines
<1>3. i - 1 \notin Breaks(text)
  <2>1. (i - 2) + 1 = i - 1
    BY <1>2
  <2> QED
    BY <1>2, <2>1
<1>4. \A p \in Breaks(text) : p < i <=> (\A e \in EmptyLines(text) : p <= e)
  <2> SUFFICES ASSUME NEW p \in Breaks(text)
               PROVE  p < i <=> (\A e \in EmptyLines(text) : p <= e)
    OBVIOUS
  <2>1. p \in Nat /\ p # i - 1 /\ \A e \in EmptyLines(text) : e \in Nat /\ i - 2 <= e
    BY <1>1, <1>2, <1>3
  <2>2. p < i => p <= i - 2
    BY <1>2, <2>1
  <2>3. p <= i - 2 => p < i
    BY <1>2, <2>1
  <2> QED
    BY <1>1, <1>2, <2>1, <2>2, <2>3
<1>5. {p \in Breaks(text) : \A e \in EmptyLines(text) : p <= e} = Past
  BY <1>4 DEF Past
<1>6. LineEnds(text) = Ends
  BY <1>5 DEF LineEnds, Ends
<1> QED
  BY <1>2, <1>6, InOrderLen DEF Ends, LineStart, Begin

\* No other line ends between where a line begins and where it ends.
LEMMA LineWithin ==
  ASSUME CopyInv, NEW k \in 1 .. Cardinality(Past)
  PROVE  /\ Ends[k] \in Past /\ Begin(k) \in Nat /\ Begin(k) >= 1
         /\ \A q \in Breaks(text) : Begin(k) <= q => Ends[k] <= q
<1> DEFINE P == Past
           o == InOrder(P)[k]
           u == InOrder(P)[k - 1]
<1>1. /\ P \in SUBSET Nat /\ IsFiniteSet(P) /\ i \in Nat
      /\ \A p \in Breaks(text) : p \in Nat
  BY BreaksOf
<1>2. /\ o \in P
      /\ k = 1 => \A q \in P : o <= q
      /\ k # 1 => u \in P /\ \A q \in P : u < q => o <= q
  <2> HIDE DEF P
  <2>1. k \in 1 .. Cardinality(P)
    BY DEF P
  <2> QED
    BY <1>1, <2>1, InOrderRank, InOrderGaps
<1>3. Ends[k] = o /\ Begin(k) = IF k = 1 THEN 1 ELSE u + 2
  BY DEF Ends, Begin
<1>4. \A q \in Breaks(text) : q \in P \/ i <= q
  BY <1>1 DEF Past
<1>5. \A q \in P : q < i /\ q \in Nat
  BY <1>1 DEF Past
<1> HIDE DEF P, o, u
<1>6. CASE k = 1
  <2>1. Begin(k) = 1
    BY <1>3, <1>6
  <2>2. \A q \in Breaks(text) : o <= q
    BY <1>1, <1>2, <1>4, <1>5, <1>6
  <2> QED
    BY <1>2, <1>3, <2>1, <2>2 DEF P
<1>7. CASE k # 1
  <2>1. Begin(k) = u + 2 /\ u \in Nat
    BY <1>2, <1>3, <1>5, <1>7
  <2>2. \A q \in Breaks(text) : u + 2 <= q => o <= q
    BY <1>1, <1>2, <1>4, <1>5, <1>7, <2>1
  <2> QED
    BY <1>2, <1>3, <2>1, <2>2 DEF P
<1> QED
  BY <1>6, <1>7

\* Before the end of a line nothing but its cuts is NUL: where word w begins,
\* the first NUL is the w-th cut.
LEMMA WordFound ==
  ASSUME CopyInv, NEW b \in Nat, b >= 1, NEW e \in Past, b < e,
         \A q \in Breaks(text) : b <= q => e <= q,
         NEW w \in 1 .. Cardinality(CutsOf(b, e))
  PROVE  LET S == CutsOf(b, e)
             s == WordStart(b, S, w)
         IN s # 0 /\ WordAt(s) = SubSeq(text, s, InOrder(S)[w] - 1)
<1> DEFINE S == CutsOf(b, e)
           s == WordStart(b, S, w)
           o == InOrder(S)[w]
           u == InOrder(S)[w - 1]
<1>1. /\ i \in Nat /\ Len(text) \in Nat /\ e \in Nat /\ e < i /\ e \in Breaks(text)
      /\ e \in 1 .. Len(text) - 1 /\ \A q \in Breaks(text) : q \in Nat
  BY BreaksOf DEF Past
<1>2. S \in SUBSET (b .. e) /\ IsFiniteSet(b .. e) /\ b .. e \in SUBSET Nat
  <2>1. b \in Int /\ e \in Int
    BY <1>1
  <2>2. \A p \in b .. e - 2 : p \in b .. e
    BY <1>1
  <2>3. e \in b .. e
    BY <1>1
  <2>4. \A p \in b .. e : p \in Nat
    BY <1>1
  <2> QED
    BY <2>1, <2>2, <2>3, <2>4, FS_Interval DEF CutsOf
<1>3. S \in SUBSET Nat /\ IsFiniteSet(S)
  BY <1>2, FS_Subset
<1>4. /\ o \in S
      /\ w = 1 => \A q \in S : o <= q
      /\ w # 1 => u \in S /\ u < o /\ \A q \in S : u < q => o <= q
  <2> HIDE DEF S
  <2>1. w \in 1 .. Cardinality(S)
    BY DEF S
  <2> QED
    BY <1>3, <2>1, InOrderRank, InOrderGaps
<1>5. s = IF w = 1 THEN b ELSE u + 1
  BY DEF WordStart
\* Which places from b on are cut.
<1>6. \A q \in b .. e : CutAt(q) <=> q \in S
  <2> SUFFICES ASSUME NEW q \in b .. e
               PROVE  CutAt(q) <=> q \in S
    OBVIOUS
  <2>1. q \in Nat /\ q \in Breaks(text) => q = e
    BY <1>1
  <2>2. q + 1 \in Breaks(text) => q + 1 >= e
    BY <1>1, <2>1
  <2>3. CASE q = e
    BY <1>1, <2>3 DEF CutAt, CutsOf
  <2>4. CASE q = e - 1
    <3>1. q # e /\ q + 1 = e /\ q \notin b .. e - 2
      BY <1>1, <2>4
    <3> QED
      BY <1>1, <2>1, <3>1 DEF CutAt, CutsOf
  <2>5. CASE q < e - 1
    <3>1. q # e /\ q \in b .. e - 2 /\ ~(q + 1 >= e)
      BY <1>1, <2>5
    <3> QED
      BY <2>1, <2>2, <3>1 DEF CutAt, CutsOf
  <2> QED
    BY <1>1, <2>3, <2>4, <2>5
<1>7. o \in b .. e /\ (w # 1 => u \in b .. e)
  BY <1>2, <1>4
<1> HIDE DEF S, s, o, u
<1>8. s \in Nat /\ b <= s /\ s <= o /\ s >= 1
  BY <1>1, <1>4, <1>5, <1>7
<1>9. \A q \in s .. o - 1 : q \notin S
  <2> SUFFICES ASSUME NEW q \in s .. o - 1, q \in S
               PROVE  FALSE
    OBVIOUS
  <2>1. q \in Nat /\ ~(o <= q) /\ (w # 1 => u < q)
    BY <1>1, <1>5, <1>7, <1>8
  <2> QED
    BY <1>4, <2>1
<1>10. \A q \in s .. o - 1 :
         q \in 1 .. Len(text) /\ dup[q] = text[q] /\ text[q] \in Char /\ dup[q] # "nul"
  <2> SUFFICES ASSUME NEW q \in s .. o - 1
               PROVE  q \in 1 .. Len(text) /\ dup[q] = text[q] /\ text[q] \in Char
                      /\ dup[q] # "nul"
    OBVIOUS
  <2>1. q \in 1 .. Len(text) /\ q \in b .. e
    BY <1>1, <1>7, <1>8
  <2>2. ~CutAt(q)
    BY <1>6, <1>9, <2>1
  <2>3. dup[q] = text[q]
    BY <2>1, <2>2 DEF CopyInv
  <2>4. text[q] \in Char
    BY <2>1, LenProperties DEF CopyInv
  <2> QED
    BY <2>1, <2>3, <2>4 DEF Char
<1>11. o \in 1 .. Len(text) /\ dup[o] = "nul" /\ Len(dup) = Len(text)
  <2>1. CutAt(o)
    BY <1>4, <1>6, <1>7
  <2>2. o \in 1 .. Len(text) /\ o < i
    BY <1>1, <1>7
  <2> QED
    BY <2>1, <2>2 DEF CopyInv
<1>12. WordAt(s) = SubSeq(dup, s, o - 1)
  <2> DEFINE IsEnd(p) == dup[p] = "nul" /\ \A k \in s .. (p - 1) : dup[k] # "nul"
             end == CHOOSE p \in s .. Len(dup) : IsEnd(p)
  <2>1. o \in s .. Len(dup) /\ IsEnd(o)
    BY <1>1, <1>7, <1>8, <1>10, <1>11
  <2>2. \A p \in s .. Len(dup) : IsEnd(p) => p = o
    <3> SUFFICES ASSUME NEW p \in s .. Len(dup), IsEnd(p)
                 PROVE  p = o
      OBVIOUS
    <3>1. p \in Nat /\ o \in Nat /\ s <= p
      BY <1>1, <1>7, <1>8, <1>11
    <3>2. p < o => p \in s .. o - 1
      BY <1>8, <3>1
    <3>3. o < p => o \in s .. p - 1
      BY <1>8, <3>1
    <3>4. ~(p < o)
      BY <1>10, <3>2
    <3>5. ~(o < p)
      BY <1>11, <3>3
    <3> QED
      BY <3>1, <3>4, <3>5
  <2>3. WordAt(s) = SubSeq(dup, s, end - 1)
    BY DEF WordAt
  <2> HIDE DEF IsEnd
  <2>4. end = o
    BY <2>1, <2>2
  <2> HIDE DEF end
  <2> QED
    BY <2>3, <2>4
<1>13. SubSeq(dup, s, o - 1) = SubSeq(text, s, o - 1)
  <2> DEFINE n == o - 1
             x == SubSeq(dup, s, n)
             y == SubSeq(text, s, n)
  <2>1. s \in Int /\ n \in Int
    BY <1>1, <1>7, <1>8
  <2>2. \A q \in s .. n : dup[q] = text[q] /\ text[q] \in Char /\ dup[q] \in Char
    BY <1>10
  <2> HIDE DEF n
  <2>3. /\ x \in Seq(Char) /\ Len(x) = (IF s <= n THEN n - s + 1 ELSE 0)
        /\ \A j \in 1 .. n - s + 1 : x[j] = dup[s + j - 1]
    BY <2>1, <2>2, SubSeqProperties
  <2>4. /\ y \in Seq(Char) /\ Len(y) = (IF s <= n THEN n - s + 1 ELSE 0)
        /\ \A j \in 1 .. n - s + 1 : y[j] = text[s + j - 1]
    BY <2>1, <2>2, SubSeqProperties
  <2> HIDE DEF x, y
  <2>5. \A j \in 1 .. Len(x) : x[j] = y[j]
    <3> SUFFICES ASSUME NEW j \in 1 .. Len(x)
                 PROVE  x[j] = y[j]
      OBVIOUS
    <3>1. j \in 1 .. n - s + 1
      BY <2>1, <2>3
    <3>2. s + j - 1 \in s .. n
      BY <2>1, <3>1
    <3> QED
      BY <2>2, <2>3, <2>4, <3>1, <3>2
  <2>6. x = y
    BY <2>3, <2>4, <2>5, SeqEqual
  <2> QED
    BY <2>6 DEF x, y, n
<1>14. s # 0
  BY <1>8
<1> QED
  BY <1>12, <1>13, <1>14 DEF S, s, o

\* The words of an empty line: a single one, with nothing in it.
LEMMA EmptyLineWords ==
  ASSUME NEW t, NEW b \in Nat
  PROVE  WordsOf(t, b, b) = <<<<>>>>
<1> DEFINE S == {p \in b .. (b - 2) : t[p] = "sp"} \cup {b}
           cuts == InOrder(S)
<1>1. S = {b}
  <2>1. \A p : p \notin b .. (b - 2)
    OBVIOUS
  <2> QED
    BY <2>1
<1>2. S \in SUBSET Nat /\ IsFiniteSet(S) /\ Cardinality(S) = 1
  BY <1>1, FS_Singleton
<1>3. Len(cuts) = 1 /\ cuts[1] = b
  <2> HIDE DEF S
  <2>1. 1 \in 1 .. Cardinality(S)
    BY <1>2
  <2>2. Len(cuts) = 1 /\ cuts[1] \in S
    BY <1>2, <2>1, InOrderLen, InOrderRank
  <2> QED
    BY <1>1, <2>2
<1> DEFINE word(k) == SubSeq(t, IF k = 1 THEN b ELSE cuts[k - 1] + 1, cuts[k] - 1)
<1>4. WordsOf(t, b, b) = [k \in 1 .. Len(cuts) |-> word(k)]
  BY DEF WordsOf
<1>5. word(1) = <<>>
  <2>1. word(1) = SubSeq(t, b, b - 1)
    BY <1>3
  <2>2. b \in Int /\ b - 1 \in Int /\ b - 1 < b
    OBVIOUS
  <2> HIDE DEF word
  <2> QED
    BY <2>1, <2>2, SubSeqEmpty
<1> HIDE DEF cuts, word
<1>6. WordsOf(t, b, b) = [k \in 1 .. 1 |-> word(k)]
  BY <1>3, <1>4
<1>7. [k \in 1 .. 1 |-> word(k)] = <<word(1)>>
  BY IsASeq
<1> QED
  BY <1>5, <1>6, <1>7

\* Each line of the bag is the line of the reference.
LEMMA LineOfBag ==
  ASSUME ScanInv, pc = "bag", NEW k \in 1 .. Len(lines)
  PROVE  /\ [w \in 1 .. Len(lines[k]) |->
               IF lines[k][w] = 0 THEN <<>> ELSE WordAt(lines[k][w])]
              = WordsOf(text, Begin(k), Ends[k])
         /\ lines[k][1] = 0 <=> k = Len(lines)
<1> DEFINE b == Begin(k)
           e == Ends[k]
           S == CutsOf(b, e)
<1>1. CopyInv /\ LinesInv
  BY DEF ScanInv
<1>2. k \in 1 .. Cardinality(Past)
  BY <1>1 DEF LinesInv
<1>3. /\ e \in Past /\ b \in Nat /\ b >= 1
      /\ \A q \in Breaks(text) : b <= q => e <= q
  BY <1>1, <1>2, LineWithin
<1>4. e \in Nat
  BY <1>1, <1>3, BreaksOf
<1>5. CASE k = Len(lines)
  <2>1. lines[k] = <<0>> /\ b = e
    BY <1>1, <1>5 DEF LinesInv
  <2>2. [w \in 1 .. Len(lines[k]) |->
           IF lines[k][w] = 0 THEN <<>> ELSE WordAt(lines[k][w])] = <<<<>>>>
    <3> DEFINE f(w) == IF lines[k][w] = 0 THEN <<>> ELSE WordAt(lines[k][w])
    <3>1. Len(lines[k]) = 1 /\ f(1) = <<>>
      BY <2>1
    <3> HIDE DEF f
    <3>2. [w \in 1 .. 1 |-> f(w)] = <<f(1)>>
      OBVIOUS
    <3>3. [w \in 1 .. Len(lines[k]) |-> f(w)] = <<<<>>>>
      BY <3>1, <3>2
    <3> QED
      BY <3>3 DEF f
  <2>3. WordsOf(text, b, e) = <<<<>>>>
    BY <1>3, <2>1, EmptyLineWords
  <2>4. lines[k][1] = 0
    BY <2>1
  <2> QED
    BY <1>5, <2>2, <2>3, <2>4
<1>6. CASE k # Len(lines)
  <2>1. /\ b < e /\ Len(lines[k]) = Cardinality(S)
        /\ \A w \in 1 .. Len(lines[k]) : lines[k][w] = WordStart(b, S, w)
    BY <1>1, <1>6 DEF LinesInv
  <2>2. S \in SUBSET Nat /\ IsFiniteSet(S) /\ e \in S
    <3>1. (b .. e - 2) \cup {e} \in SUBSET Nat
      <4>1. \A p \in b .. e - 2 : p \in Nat
        BY <1>3, <1>4
      <4> QED
        BY <1>4, <4>1
    <3>2. IsFiniteSet(b .. e - 2)
      <4>1. b \in Int /\ e - 2 \in Int
        BY <1>3, <1>4
      <4> QED
        BY <4>1, FS_Interval
    <3>3. IsFiniteSet((b .. e - 2) \cup {e})
      BY <3>2, FS_AddElement
    <3>4. S \in SUBSET ((b .. e - 2) \cup {e}) /\ e \in S
      BY DEF CutsOf
    <3> HIDE DEF S
    <3> QED
      BY <3>1, <3>3, <3>4, FS_Subset
  <2>3. Cardinality(S) \in Nat /\ Cardinality(S) # 0
    <3> HIDE DEF S
    <3> QED
      BY <2>2, FS_CardinalityType, FS_EmptySet
  <2> DEFINE cuts == InOrder(S)
             word(w) == SubSeq(text, IF w = 1 THEN b ELSE cuts[w - 1] + 1, cuts[w] - 1)
             read(w) == IF lines[k][w] = 0 THEN <<>> ELSE WordAt(lines[k][w])
  <2>4. WordsOf(text, b, e) = [w \in 1 .. Len(cuts) |-> word(w)]
    BY DEF WordsOf, CutsOf
  <2>5. Len(cuts) = Cardinality(S)
    <3> HIDE DEF S
    <3> QED
      BY <2>2, InOrderLen
  <2>6. \A w \in 1 .. Cardinality(S) : read(w) = word(w)
    <3> SUFFICES ASSUME NEW w \in 1 .. Cardinality(S)
                 PROVE  read(w) = word(w)
      OBVIOUS
    <3> DEFINE s == WordStart(b, S, w)
    <3>1. s # 0 /\ WordAt(s) = SubSeq(text, s, InOrder(S)[w] - 1)
      <4> HIDE DEF b, e
      <4> QED
        BY <1>1, <1>3, <2>1, WordFound
    <3>2. lines[k][w] = s
      BY <2>1
    <3>3. s = IF w = 1 THEN b ELSE cuts[w - 1] + 1
      BY DEF WordStart
    <3> HIDE DEF s, S, b, e
    <3>4. read(w) = SubSeq(text, s, cuts[w] - 1)
      BY <3>1, <3>2
    <3> QED
      BY <3>3, <3>4
  <2> HIDE DEF cuts, word, read
  <2>7. [w \in 1 .. Len(lines[k]) |-> read(w)] = WordsOf(text, b, e)
    BY <2>1, <2>4, <2>5, <2>6
  <2>8. lines[k][1] # 0
    <3>1. 1 \in 1 .. Len(lines[k])
      BY <2>1, <2>3
    <3>2. lines[k][1] = b
      BY <2>1, <3>1 DEF WordStart
    <3> HIDE DEF b
    <3> QED
      BY <1>3, <3>2
  <2> QED
    BY <1>6, <2>7, <2>8 DEF read
<1> QED
  BY <1>5, <1>6

LEMMA BagIsReference ==
  ASSUME ScanInv
  PROVE  SplitsAsReference
<1> SUFFICES ASSUME pc = "bag"
             PROVE  /\ BagWords = Reference(text)
                    /\ \A k \in 1 .. Len(lines) : lines[k][1] = 0 <=> k = Len(lines)
  BY DEF SplitsAsReference
<1>1. /\ LineEnds(text) = Ends /\ Len(Ends) = Cardinality(Past)
      /\ \A k : LineStart(text, k) = Begin(k)
  BY LinesOfBag
<1>2. Len(lines) = Cardinality(Past)
  BY DEF ScanInv, LinesInv
<1> DEFINE bagLine(k) == [w \in 1 .. Len(lines[k]) |->
                          IF lines[k][w] = 0 THEN <<>> ELSE WordAt(lines[k][w])]
           ref(k) == WordsOf(text, Begin(k), Ends[k])
<1>3. \A k \in 1 .. Len(lines) : bagLine(k) = ref(k) /\ (lines[k][1] = 0 <=> k = Len(lines))
  BY LineOfBag
<1>4. BagWords = [k \in 1 .. Len(lines) |-> bagLine(k)]
  BY DEF BagWords
<1>5. Reference(text) = [k \in 1 .. Len(Ends) |-> ref(k)]
  BY <1>1 DEF Reference
<1> HIDE DEF bagLine, ref
<1>6. BagWords = Reference(text)
  BY <1>1, <1>2, <1>3, <1>4, <1>5
<1> QED
  BY <1>3, <1>6

\* ztl_string_bag_create() finds the lines and words of the reference
\* definition in a text of any length, and only the last line starts with NULL.
THEOREM SplitsEveryText == Spec => []SplitsAsReference
<1>1. ParserInv => SplitsAsReference
  BY BagIsReference DEF ParserInv
<1> QED
  BY <1>1, BagInvariant, PTL

=============================================================================
