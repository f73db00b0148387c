---------------------------- MODULE DissectorProofs ----------------------------
(***************************************************************************)
(* Proofs about the SSDP dissector, for messages of any length over any    *)
(* texts: what the search for a class does to a URN, which lines of a      *)
(* message it changes, what is reported of them, and what can bring the    *)
(* plugin down.                                                            *)
(***************************************************************************)
EXTENDS SsdpDissector, FiniteSetTheorems, SequenceTheorems,
        WellFoundedInduction, TLAPS

Token == Word \cup {":", "$"}

-----------------------------------------------------------------------------
(* Greatest elements and last positions                                    *)

\* A set of numbers with a bound has a greatest element.
LEMMA MaxOf ==
  ASSUME NEW n \in Nat, NEW S \in SUBSET (0 .. n), S # {}
  PROVE  Max(S) \in S /\ \A x \in S : x <= Max(S)
<1> DEFINE T == {k \in 0 .. n : n - k \in S}
           R == OpToRel(<, Nat)
<1>1. PICK k \in T : \A j \in T : ~(<<j, k>> \in R)
  <2>1. T \subseteq Nat
    OBVIOUS
  <2>2. T # {}
    <3>1. PICK x \in S : TRUE
      OBVIOUS
    <3>2. x \in 0 .. n
      OBVIOUS
    <3>3. n - x \in 0 .. n /\ n - (n - x) = x
      BY <3>2
    <3> QED
      BY <3>3
  <2>3. IsWellFoundedOn(R, Nat)
    BY NatLessThanWellFounded
  <2> HIDE DEF R, T
  <2> QED
    BY <2>1, <2>2, <2>3, WFMin
<1>2. \A j \in T : ~(j < k)
  <2> SUFFICES ASSUME NEW j \in T, j < k
               PROVE  FALSE
    OBVIOUS
  <2>1. j \in Nat /\ k \in Nat
    OBVIOUS
  <2>2. <<j, k>> \in R
    BY <2>1 DEF OpToRel
  <2> QED
    BY <1>1, <2>2
<1>3. n - k \in S /\ \A x \in S : n - k >= x
  <2> SUFFICES ASSUME NEW x \in S
               PROVE  n - k >= x
    OBVIOUS
  <2>1. x \in 0 .. n
    OBVIOUS
  <2>2. n - x \in 0 .. n /\ n - (n - x) = x
    BY <2>1
  <2>3. n - x \in T
    BY <2>2
  <2> QED
    BY <1>2, <2>1, <2>3
<1> HIDE DEF T
<1>4. Max(S) \in S /\ \A x \in S : Max(S) >= x
  BY <1>3 DEF Max
<1> QED
  BY <1>4

\* The greatest element is known by its place.
LEMMA MaxIs ==
  ASSUME NEW n \in Nat, NEW S \in SUBSET (0 .. n),
         NEW m \in S, \A x \in S : x <= m
  PROVE  Max(S) = m
<1>1. Max(S) \in S /\ \A x \in S : x <= Max(S)
  BY MaxOf
<1> DEFINE M == Max(S)
<1>2. M \in S /\ \A x \in S : x <= M
  BY <1>1
<1> HIDE DEF M
<1>3. M <= m /\ m <= M
  BY <1>2
<1>4. M \in Int /\ m \in Int
  BY <1>2
<1>5. M = m
  BY <1>3, <1>4
<1> QED
  BY <1>5 DEF M

\* strrchr(): no place, or the last one.
LEMMA LastPlaceOf ==
  ASSUME NEW char, NEW t \in Seq(Token)
  PROVE  /\ LastOf(char, t) \in 0 .. Len(t)
         /\ LastOf(char, t) = 0 => \A p \in 1 .. Len(t) : t[p] # char
         /\ LastOf(char, t) # 0 =>
              /\ t[LastOf(char, t)] = char
              /\ \A p \in 1 .. Len(t) : t[p] = char => p <= LastOf(char, t)
<1> DEFINE P == {0} \cup {p \in DOMAIN t : t[p] = char}
<1>1. Len(t) \in Nat /\ DOMAIN t = 1 .. Len(t)
  BY LenProperties
<1>2. P \in SUBSET (0 .. Len(t)) /\ P # {}
  BY <1>1
<1>3. Max(P) \in P /\ \A x \in P : x <= Max(P)
  <2> HIDE DEF P
  <2> QED
    BY <1>1, <1>2, MaxOf
<1>4. LastOf(char, t) = Max(P)
  BY DEF LastOf
<1> QED
  BY <1>1, <1>2, <1>3, <1>4

-----------------------------------------------------------------------------
(* The search for a class                                                  *)

\* The colons of a text, and the last of them.
LEMMA ColonsOf ==
  ASSUME NEW t \in Seq(Token)
  PROVE  /\ Colons(t) \in SUBSET (0 .. Len(t)) /\ IsFiniteSet(Colons(t))
         /\ Cardinality(Colons(t)) \in Nat
         /\ LastOf(":", t) = 0 => Colons(t) = {}
         /\ LastOf(":", t) # 0 =>
              LastOf(":", t) \in Colons(t) /\ Max(Colons(t)) = LastOf(":", t)
<1>1. Len(t) \in Nat /\ DOMAIN t = 1 .. Len(t)
  BY LenProperties
<1>2. Colons(t) \in SUBSET (0 .. Len(t))
  BY <1>1 DEF Colons
<1>3. IsFiniteSet(0 .. Len(t))
  <2>1. 0 \in Int /\ Len(t) \in Int
    BY <1>1
  <2> QED
    BY <2>1, FS_Interval
<1>4. IsFiniteSet(Colons(t))
  BY <1>2, <1>3, FS_Subset
<1>5. Cardinality(Colons(t)) \in Nat
  BY <1>4, FS_CardinalityType
<1>6. LastOf(":", t) = 0 => Colons(t) = {}
  BY <1>1, LastPlaceOf DEF Colons
<1>7. ASSUME LastOf(":", t) # 0
      PROVE  LastOf(":", t) \in Colons(t) /\ Max(Colons(t)) = LastOf(":", t)
  <2> DEFINE L == LastOf(":", t)
             C == Colons(t)
  <2>1. L \in C /\ \A p \in C : p <= L
    BY <1>1, <1>7, LastPlaceOf DEF Colons
  <2>2. C \in SUBSET (0 .. Len(t))
    BY <1>2
  <2> HIDE DEF L, C
  <2>3. Max(C) = L
    BY <1>1, <2>1, <2>2, MaxIs
  <2> QED
    BY <2>1, <2>3 DEF L, C
<1> QED
  BY <1>2, <1>4, <1>5, <1>6, <1>7

\* What stands behind a place and holds a separator is not the missing value.
LEMMA NotNull ==
  ASSUME NEW t \in Seq(Token), NEW s \in Nat, NEW p \in 1 .. Len(t), s < p,
         t[p] \in {":", "$"}
  PROVE  SubSeq(t, s + 1, Len(t)) # NULL
<1> SUFFICES ASSUME SubSeq(t, s + 1, Len(t)) = NULL
             PROVE  FALSE
  OBVIOUS
<1>1. Len(t) \in Nat /\ DOMAIN t = 1 .. Len(t)
  BY LenProperties
<1>2. \A i \in s + 1 .. Len(t) : t[i] \in Token
  BY <1>1, ElementOfSeq
<1> DEFINE r == SubSeq(t, s + 1, Len(t))
<1>3. /\ Len(r) = IF s + 1 <= Len(t) THEN Len(t) - (s + 1) + 1 ELSE 0
      /\ \A i \in 1 .. Len(t) - (s + 1) + 1 : r[i] = t[s + 1 + i - 1]
  <2>1. s + 1 \in Int /\ Len(t) \in Int
    BY <1>1
  <2> QED
    BY <1>2, <2>1, SubSeqProperties
<1>4. Len(r) = 1 /\ r[1] = "NULL"
  <2>1. r = NULL
    OBVIOUS
  <2>2. Len(NULL) = 1 /\ NULL[1] = "NULL"
    BY DEF NULL
  <2> HIDE DEF r
  <2> QED
    BY <2>1, <2>2
<1> HIDE DEF r
<1>5. s + 1 = Len(t) /\ p = s + 1
  <2>1. s + 1 <= Len(t)
    BY <1>1
  <2>2. Len(t) - (s + 1) + 1 = 1
    BY <1>3, <1>4, <2>1
  <2> DEFINE n == Len(t)
  <2>3. n \in Nat /\ n - (s + 1) + 1 = 1
    BY <1>1, <2>2
  <2> HIDE DEF n
  <2>4. n = s + 1
    BY <2>3
  <2>5. Len(t) = s + 1
    BY <2>4 DEF n
  <2> QED
    BY <2>5
<1>6. r[1] = t[p]
  <2>1. 1 \in 1 .. Len(t) - (s + 1) + 1 /\ s + 1 + 1 - 1 = p
    BY <1>1, <1>5
  <2> QED
    BY <1>3, <2>1
<1> QED
  BY <1>4, <1>6

\* A URN that is cut has a class exactly when the definition gives it one, the
\* same one unless the URN is spoilt, and it is restored unless it is spoilt.
LEMMA ClassCut ==
  ASSUME NEW u \in Seq(Token)
  PROVE  /\ ssdp_shorten_urn_class(u).urn # u <=> Spoilt(u)
         /\ ssdp_shorten_urn_class(u).class # NULL <=> ClassOf(u) # NULL
         /\ ~Spoilt(u) => ssdp_shorten_urn_class(u).class = ClassOf(u)
<1> DEFINE L == LastOf(":", u)
           cut == [u EXCEPT ![L] = "$"]
           S == LastOf(":", cut)
           D == LastOf("$", cut)
           back == [cut EXCEPT ![D] = ":"]
           r == ssdp_shorten_urn_class(u)
           C == Colons(u)
<1>1. Len(u) \in Nat /\ DOMAIN u = 1 .. Len(u)
  BY LenProperties
<1>2. /\ L = 0 => r = [class |-> NULL, urn |-> u]
      /\ L # 0 /\ S = 0 => r = [class |-> NULL, urn |-> cut]
      /\ L # 0 /\ S # 0 =>
           r = [class |-> SubSeq(back, S + 1, Len(back)), urn |-> back]
  BY DEF ssdp_shorten_urn_class
<1>3. /\ C \in SUBSET (0 .. Len(u)) /\ IsFiniteSet(C) /\ Cardinality(C) \in Nat
      /\ L = 0 => C = {}
      /\ L # 0 => L \in C /\ Max(C) = L
  BY ColonsOf
<1>4. Spoilt(u) <=> \/ Cardinality(C) = 1
                    \/ C # {} /\ \E p \in 1 .. Len(u) : p > Max(C) /\ u[p] = "$"
  BY <1>1 DEF Spoilt
<1>5. ClassOf(u) = IF Cardinality(C) < 2 THEN NULL
                   ELSE SubSeq(u, Max(C \ {Max(C)}) + 1, Len(u))
  BY DEF ClassOf
<1>6. \A p : p \in C <=> p \in 1 .. Len(u) /\ u[p] = ":"
  BY <1>1 DEF Colons
<1>7. L # 0 => L \in 1 .. Len(u)
  BY <1>3, <1>6
<1>8. L # 0 => /\ cut \in Seq(Token) /\ Len(cut) = Len(u)
               /\ \A p \in 1 .. Len(u) : cut[p] = IF p = L THEN "$" ELSE u[p]
  <2> SUFFICES ASSUME L # 0
               PROVE  /\ cut \in Seq(Token) /\ Len(cut) = Len(u)
                      /\ \A p \in 1 .. Len(u) : cut[p] = IF p = L THEN "$" ELSE u[p]
    OBVIOUS
  <2>1. L \in 1 .. Len(u)
    BY <1>7
  <2>2. "$" \in Token
    BY DEF Token
  <2> HIDE DEF L
  <2> QED
    BY <2>1, <2>2, ExceptSeq
<1> HIDE DEF L, C, r
<1>9. CASE L = 0
  <2>1. C = {} /\ Cardinality(C) = 0 /\ r = [class |-> NULL, urn |-> u]
    BY <1>2, <1>3, <1>9, FS_EmptySet
  <2> QED
    BY <1>4, <1>5, <2>1 DEF r
<1>10. CASE L # 0
  <2>1. /\ S \in 0 .. Len(u) /\ D \in 0 .. Len(u)
        /\ S = 0 => \A p \in 1 .. Len(u) : cut[p] # ":"
        /\ S # 0 => cut[S] = ":" /\ \A p \in 1 .. Len(u) : cut[p] = ":" => p <= S
        /\ D = 0 => \A p \in 1 .. Len(u) : cut[p] # "$"
        /\ D # 0 => cut[D] = "$" /\ \A p \in 1 .. Len(u) : cut[p] = "$" => p <= D
    <3> HIDE DEF cut
    <3> QED
      BY <1>8, <1>10, LastPlaceOf
  <2> DEFINE c == cut
  <2> HIDE DEF c, S, D
  <2>2. /\ L \in 1 .. Len(u) /\ L \in C /\ u[L] = ":" /\ Max(C) = L
        /\ \A p \in 1 .. Len(u) : c[p] = IF p = L THEN "$" ELSE u[p]
        /\ c \in Seq(Token) /\ Len(c) = Len(u)
    BY <1>3, <1>6, <1>7, <1>8, <1>10 DEF c
  <2>3. CASE S = 0
    <3>1. \A p \in C : p = L
      BY <1>6, <2>1, <2>2, <2>3 DEF c
    <3>2. C = {L}
      BY <2>2, <3>1
    <3>3. Cardinality(C) = 1
      BY <3>2, FS_Singleton
    <3>4. r = [class |-> NULL, urn |-> c]
      BY <1>2, <1>10, <2>3 DEF c
    <3>5. c # u
      BY <2>2
    <3> QED
      BY <1>4, <1>5, <3>3, <3>4, <3>5 DEF r
  <2>4. CASE S # 0
    <3>1. S \in 1 .. Len(u) /\ S # L /\ S \in C
      BY <1>6, <2>1, <2>2, <2>4 DEF c
    <3>2. S < L
      <4>1. S <= L
        <5>1. \A x \in C : x <= Max(C)
          BY <1>1, <1>3, <2>2, MaxOf
        <5> QED
          BY <2>2, <3>1, <5>1
      <4> QED
        BY <2>2, <3>1, <4>1
    <3>3. Max(C \ {L}) = S
      <4>1. S \in C \ {L} /\ (C \ {L}) \in SUBSET (0 .. Len(u))
        BY <1>3, <3>1
      <4>2. \A p \in C \ {L} : p <= S
        BY <1>6, <2>1, <2>2, <2>4 DEF c
      <4> DEFINE T == C \ {L}
      <4> HIDE DEF T
      <4>3. S \in T /\ T \in SUBSET (0 .. Len(u)) /\ \A p \in T : p <= S
        BY <4>1, <4>2 DEF T
      <4>4. Max(T) = S
        BY <1>1, <4>3, MaxIs
      <4> QED
        BY <4>4 DEF T
    <3>4. Cardinality(C) # 0 /\ Cardinality(C) # 1
      <4>1. C # {} /\ ~\E x : C = {x}
        BY <2>2, <3>1
      <4> QED
        BY <1>3, <4>1, FS_EmptySet, FS_Singleton
    <3>5. ClassOf(u) = SubSeq(u, S + 1, Len(u))
      <4>1. ~(Cardinality(C) < 2)
        BY <1>3, <3>4
      <4>2. C \ {Max(C)} = C \ {L}
        BY <2>2
      <4> QED
        BY <1>5, <3>3, <4>1, <4>2
    <3>6. D \in 1 .. Len(u) /\ L <= D /\ c[D] = "$"
      BY <2>1, <2>2 DEF c
    <3>7. /\ back \in Seq(Token) /\ Len(back) = Len(u)
          /\ \A p \in 1 .. Len(u) : back[p] = IF p = D THEN ":" ELSE c[p]
      <4> HIDE DEF cut
      <4> QED
        BY <2>2, <3>6, ExceptSeq DEF c
    <3> DEFINE b == back
    <3>8. r = [class |-> SubSeq(b, S + 1, Len(u)), urn |-> b]
      BY <1>2, <1>10, <2>4, <3>7
    <3>9. /\ b \in Seq(Token) /\ Len(b) = Len(u)
          /\ \A p \in 1 .. Len(u) : b[p] = IF p = D THEN ":" ELSE c[p]
      BY <3>7
    <3> HIDE DEF b
    <3>10. D = L => b = u
      <4> SUFFICES ASSUME D = L
                   PROVE  b = u
        OBVIOUS
      <4>1. \A p \in 1 .. Len(u) : b[p] = u[p]
        BY <2>2, <3>9
      <4> QED
        BY <3>9, <4>1, SeqEqual
    <3>11. D # L => b # u
      BY <2>2, <3>9
    <3>12. Spoilt(u) <=> D # L
      <4>1. D # L => u[D] = "$" /\ D > L
        BY <2>2, <3>6
      <4>2. \A p \in 1 .. Len(u) : p > L /\ u[p] = "$" => D # L
        <5> SUFFICES ASSUME NEW p \in 1 .. Len(u), p > L, u[p] = "$"
                     PROVE  D # L
          OBVIOUS
        <5>1. c[p] = "$"
          BY <2>2
        <5>2. p <= D
          BY <2>1, <3>6, <5>1 DEF c
        <5> QED
          BY <2>2, <3>6, <5>2
      <4> QED
        BY <1>4, <2>2, <3>4, <3>6, <4>1, <4>2
    <3>13. SubSeq(u, S + 1, Len(u)) # NULL
      <4>1. S \in Nat /\ L \in 1 .. Len(u) /\ S < L /\ u[L] \in {":", "$"}
        BY <2>2, <3>1, <3>2
      <4> QED
        BY <4>1, NotNull
    <3>14. SubSeq(b, S + 1, Len(u)) # NULL
      <4>1. S \in Nat /\ L \in 1 .. Len(b) /\ S < L /\ b[L] \in {":", "$"}
        BY <2>2, <3>1, <3>2, <3>9
      <4>2. SubSeq(b, S + 1, Len(b)) # NULL
        BY <3>9, <4>1, NotNull
      <4> QED
        BY <3>9, <4>2
    <3> QED
      <4>1. r.urn = b /\ r.class = SubSeq(b, S + 1, Len(u))
        BY <3>8
      <4>2. ~Spoilt(u) => r.class = ClassOf(u)
        BY <3>5, <3>10, <3>12, <4>1
      <4>3. r.urn # u <=> Spoilt(u)
        BY <3>10, <3>11, <3>12, <4>1
      <4>4. r.class # NULL /\ ClassOf(u) # NULL
        BY <3>5, <3>13, <3>14, <4>1
      <4> QED
        BY <4>2, <4>3, <4>4 DEF r
  <2> QED
    BY <2>3, <2>4
<1> QED
  BY <1>9, <1>10

-----------------------------------------------------------------------------
(* The lines of a message                                                  *)

\* The loop is at a line or behind the last.
MessageTypes ==
  /\ kind \in Kind
  /\ lines \in Seq(Line)
  /\ line_num \in 1 .. Len(lines) + 1
  /\ pc \in {"loop", "done", "crash"}

\* The lines whose class has been taken.
Taken(n) == n \in Classified /\ (n < line_num \/ pc = "done")

\* Every text is as it was received, or as the search for its class left it.
TextNow ==
  text = [n \in 1 .. Len(lines) |->
            IF Taken(n) THEN ssdp_shorten_urn_class(lines[n].value).urn
            ELSE lines[n].value]

\* A search has no target before the line it is at.
NoTargetYet ==
  (kind = "M-SEARCH" /\ pc = "loop") => \A n \in With({"ST:"}) : n >= line_num

LinesInv == MessageTypes /\ TextNow /\ NoTargetYet

\* What is read at a line is what was received.
LEMMA ValueReceived ==
  ASSUME LinesInv, pc = "loop", line_num <= Len(lines)
  PROVE  /\ line_num \in 1 .. Len(lines) /\ DOMAIN lines = 1 .. Len(lines)
         /\ Len(lines) \in Nat
         /\ lines[line_num] \in Line
         /\ Value = lines[line_num].value
<1>1. Len(lines) \in Nat /\ DOMAIN lines = 1 .. Len(lines)
  BY LenProperties DEF LinesInv, MessageTypes
<1>2. line_num \in 1 .. Len(lines)
  BY <1>1 DEF LinesInv, MessageTypes
<1>3. lines[line_num] \in Line
  BY <1>2, ElementOfSeq DEF LinesInv, MessageTypes
<1>4. ~Taken(line_num)
  BY <1>2 DEF Taken
<1> QED
  BY <1>1, <1>2, <1>3, <1>4 DEF LinesInv, TextNow, Value

\* The four things a step can do: pass a line that is not cut, cut a line,
\* end the program, or return.
Pass ==
  /\ line_num \in 1 .. Len(lines) /\ line_num \notin Classified
  /\ line_num' = line_num + 1 /\ pc' = "loop" /\ text' = text
  /\ kind = "M-SEARCH" => line_num \notin With({"ST:"})
Cut ==
  /\ line_num \in Classified
  /\ text' = [text EXCEPT ![line_num] =
                ssdp_shorten_urn_class(lines[line_num].value).urn]
  /\ \/ kind # "M-SEARCH" /\ line_num' = line_num + 1 /\ pc' = "loop"
     \/ kind = "M-SEARCH" /\ line_num' = line_num /\ pc' = "done"
End == line_num' = line_num /\ pc' = "crash" /\ text' = text
Return ==
  /\ line_num' = line_num /\ pc' = "done" /\ text' = text
  /\ \A n \in Classified : n < line_num

LEMMA SearchSteps ==
  ASSUME LinesInv, pc = "loop", kind = "M-SEARCH", ssdp_subproc_search
  PROVE  Pass \/ Cut \/ End \/ Return
<1>1. Len(lines) \in Nat /\ DOMAIN lines = 1 .. Len(lines) /\ line_num \in Nat
  BY LenProperties DEF LinesInv, MessageTypes
<1>2. CASE SearchTarget
  <2>1. /\ line_num \in 1 .. Len(lines) /\ lines[line_num].head = "ST:"
        /\ Value = lines[line_num].value
    BY <1>1, <1>2, ValueReceived DEF SearchTarget, AtLine
  <2>2. CASE Value = NULL
    BY <1>2, <2>2 DEF SearchTarget, Crash, End
  <2>3. CASE Value # NULL
    <3>1. line_num \in With({"ST:"})
      BY <1>1, <2>1, <2>3 DEF With
    <3>2. line_num \in Classified
      BY <1>1, <2>1, <3>1 DEF LinesInv, NoTargetYet, Classified
    <3>3. /\ text' = [text EXCEPT ![line_num] = ssdp_shorten_urn_class(Value).urn]
          /\ line_num' = line_num /\ pc' = "done"
      BY <1>2, <2>3 DEF SearchTarget, Classify
    <3> QED
      BY <2>1, <3>2, <3>3 DEF Cut
  <2> QED
    BY <2>2, <2>3
<1>3. CASE SearchOther
  <2>1. /\ line_num \in 1 .. Len(lines) /\ lines[line_num].head # "ST:"
        /\ line_num' = line_num + 1 /\ pc' = "loop" /\ text' = text
    BY <1>1, <1>3, ValueReceived DEF SearchOther, AtLine, NextLine
  <2>2. line_num \notin With({"ST:"}) /\ line_num \notin Classified
    BY <2>1 DEF With, Classified
  <2> QED
    BY <2>1, <2>2 DEF Pass
<1>4. CASE SearchEnds
  <2>1. line_num > Len(lines) /\ pc' = "done" /\ line_num' = line_num /\ text' = text
    BY <1>4 DEF SearchEnds
  <2>2. \A n \in Classified : n < line_num
    BY <1>1, <2>1 DEF Classified
  <2> QED
    BY <2>1, <2>2 DEF Return
<1> QED
  BY <1>2, <1>3, <1>4 DEF ssdp_subproc_search

LEMMA NotifySteps ==
  ASSUME LinesInv, pc = "loop", kind = "NOTIFY", ssdp_subproc_notify
  PROVE  Pass \/ Cut \/ End \/ Return
<1>1. Len(lines) \in Nat /\ DOMAIN lines = 1 .. Len(lines) /\ line_num \in Nat
  BY LenProperties DEF LinesInv, MessageTypes
<1>2. CASE NotifyType
  <2>1. /\ line_num \in 1 .. Len(lines) /\ lines[line_num].head = "NT:"
        /\ Value = lines[line_num].value /\ Value # NULL
    BY <1>1, <1>2, ValueReceived DEF NotifyType, AtLine
  <2>2. line_num \in Classified
    BY <1>1, <2>1 DEF With, Classified
  <2>3. /\ text' = [text EXCEPT ![line_num] = ssdp_shorten_urn_class(Value).urn]
        /\ line_num' = line_num + 1 /\ pc' = "loop"
    BY <1>2 DEF NotifyType, Classify, NextLine
  <2> QED
    BY <2>1, <2>2, <2>3 DEF Cut
<1>3. CASE NotifyState /\ Value = NULL
  BY <1>3 DEF NotifyState, Crash, End
<1>4. CASE (NotifyState /\ Value # NULL) \/ LocationLine \/ NotifyOther
  <2>1. /\ line_num <= Len(lines)
        /\ lines[line_num].head # "NT:" \/ Value = NULL
        /\ line_num' = line_num + 1 /\ pc' = "loop" /\ text' = text
    BY <1>4 DEF NotifyState, LocationLine, NotifyOther, AtLine, NextLine
  <2>2. line_num \in 1 .. Len(lines) /\ Value = lines[line_num].value
    BY <2>1, ValueReceived
  <2>3. line_num \notin Classified
    BY <2>1, <2>2 DEF With, Classified
  <2> QED
    BY <2>1, <2>2, <2>3 DEF Pass
<1>5. CASE NotifyEnds
  <2>1. line_num > Len(lines) /\ pc' = "done" /\ line_num' = line_num /\ text' = text
    BY <1>5 DEF NotifyEnds
  <2>2. \A n \in Classified : n < line_num
    BY <1>1, <2>1 DEF Classified
  <2> QED
    BY <2>1, <2>2 DEF Return
<1> QED
  BY <1>2, <1>3, <1>4, <1>5 DEF ssdp_subproc_notify

LEMMA ResponseSteps ==
  ASSUME LinesInv, pc = "loop", kind \in {"HTTP/1.1", "bare"}, ssdp_subproc_response
  PROVE  Pass \/ Cut \/ End \/ Return
<1>1. Len(lines) \in Nat /\ DOMAIN lines = 1 .. Len(lines) /\ line_num \in Nat
  BY LenProperties DEF LinesInv, MessageTypes
<1>2. CASE ResponseUrn
  <2>1. /\ line_num \in 1 .. Len(lines) /\ lines[line_num].head \in {"ST:", "USN:"}
        /\ Value = lines[line_num].value
    BY <1>1, <1>2, ValueReceived DEF ResponseUrn, AtLine
  <2>2. CASE Value = NULL
    BY <1>2, <2>2 DEF ResponseUrn, Crash, End
  <2>3. CASE Value # NULL
    <3>1. line_num \in Classified
      BY <1>1, <2>1, <2>3 DEF With, Classified
    <3>2. /\ text' = [text EXCEPT ![line_num] = ssdp_shorten_urn_class(Value).urn]
          /\ line_num' = line_num + 1 /\ pc' = "loop"
      BY <1>2, <2>3 DEF ResponseUrn, Classify, NextLine
    <3> QED
      BY <2>1, <3>1, <3>2 DEF Cut
  <2> QED
    BY <2>2, <2>3
<1>3. CASE ResponseStatus \/ LocationLine \/ ResponseOther
  <2>1. /\ line_num <= Len(lines)
        /\ lines[line_num].head \notin {"ST:", "USN:"}
        /\ line_num' = line_num + 1 /\ pc' = "loop" /\ text' = text
    BY <1>3 DEF ResponseStatus, LocationLine, ResponseOther, AtLine, NextLine
  <2>2. line_num \in 1 .. Len(lines)
    BY <2>1, ValueReceived
  <2>3. line_num \notin Classified
    BY <2>1 DEF With, Classified
  <2> QED
    BY <2>1, <2>2, <2>3 DEF Pass
<1>4. CASE ResponseEnds
  <2>1. /\ line_num > Len(lines) /\ pc' \in {"done", "crash"}
        /\ line_num' = line_num /\ text' = text
    BY <1>4 DEF ResponseEnds
  <2>2. \A n \in Classified : n < line_num
    BY <1>1, <2>1 DEF Classified
  <2> QED
    BY <2>1, <2>2 DEF Return, End
<1> QED
  BY <1>2, <1>3, <1>4 DEF ssdp_subproc_response

LEMMA MessageSteps ==
  ASSUME LinesInv, ssdp_process
  PROVE  pc = "loop" /\ kind' = kind /\ lines' = lines /\ (Pass \/ Cut \/ End \/ Return)
<1>1. pc = "loop" /\ kind' = kind /\ lines' = lines
  BY DEF ssdp_process
<1>2. CASE kind = "empty" /\ Crash
  BY <1>1, <1>2 DEF Crash, End
<1>3. CASE kind = "other" /\ pc' = "done" /\ line_num' = line_num /\ text' = text
  <2>1. Classified = {}
    BY <1>3 DEF Classified
  <2> QED
    BY <1>1, <1>3, <2>1 DEF Return
<1> QED
  BY <1>1, <1>2, <1>3, SearchSteps, NotifySteps, ResponseSteps DEF ssdp_process

LEMMA LinesNextInv ==
  ASSUME LinesInv, [Next]_vars
  PROVE  LinesInv'
<1>1. Len(lines) \in Nat /\ DOMAIN lines = 1 .. Len(lines) /\ line_num \in Nat
  BY LenProperties DEF LinesInv, MessageTypes
<1>2. CASE UNCHANGED vars
  BY <1>2 DEF vars, LinesInv, MessageTypes, TextNow, Taken, NoTargetYet, Classified, With
<1>3. CASE ssdp_process
  <2>1. /\ pc = "loop" /\ kind' = kind /\ lines' = lines
        /\ Pass \/ Cut \/ End \/ Return
    BY <1>3, MessageSteps
  <2>2. Classified' = Classified
    BY <2>1 DEF Classified, With
  <2>3. With({"ST:"})' = With({"ST:"})
    BY <2>1 DEF With
  <2>4. \A n : Taken(n) <=> n \in Classified /\ n < line_num
    BY <2>1 DEF Taken
  <2>5. CASE Pass
    <3>1. MessageTypes'
      BY <1>1, <2>1, <2>5 DEF LinesInv, MessageTypes, Pass
    <3>2. \A n \in 1 .. Len(lines) : Taken(n)' <=> Taken(n)
      BY <1>1, <2>2, <2>4, <2>5 DEF Taken, Pass
    <3>3. TextNow'
      BY <2>1, <2>5, <3>2 DEF LinesInv, TextNow, Pass
    <3>4. NoTargetYet'
      <4>1. \A n \in With({"ST:"}) : n \in 1 .. Len(lines)
        BY <1>1 DEF With
      <4> QED
        BY <1>1, <2>1, <2>3, <2>5, <4>1 DEF LinesInv, NoTargetYet, Pass
    <3> QED
      BY <3>1, <3>3, <3>4 DEF LinesInv
  <2>6. CASE Cut
    <3>1. line_num \in 1 .. Len(lines)
      BY <1>1, <2>6 DEF Cut, Classified
    <3>2. MessageTypes'
      BY <1>1, <2>1, <2>6, <3>1 DEF LinesInv, MessageTypes, Cut
    <3>3. \A n \in 1 .. Len(lines) : Taken(n)' <=> Taken(n) \/ n = line_num
      <4>1. CASE kind # "M-SEARCH"
        BY <1>1, <2>2, <2>4, <2>6, <4>1 DEF Taken, Cut
      <4>2. CASE kind = "M-SEARCH"
        <5>1. \A n \in Classified : n = line_num
          <6> SUFFICES ASSUME NEW n \in Classified
                       PROVE  n = line_num
            OBVIOUS
          <6>1. n \in Nat /\ n <= line_num /\ line_num <= n
            BY <1>1, <2>6, <4>2 DEF Cut, Classified, With
          <6> QED
            BY <1>1, <6>1
        <5> QED
          BY <2>2, <2>4, <2>6, <4>2, <5>1 DEF Taken, Cut
      <4> QED
        BY <4>1, <4>2
    <3>4. TextNow'
      <4> DEFINE c(n) == ssdp_shorten_urn_class(lines[n].value).urn
      <4>1. /\ text' = [text EXCEPT ![line_num] = c(line_num)]
            /\ text = [n \in 1 .. Len(lines) |-> IF Taken(n) THEN c(n) ELSE lines[n].value]
        BY <2>6 DEF Cut, LinesInv, TextNow
      <4> HIDE DEF c
      <4>2. text' = [n \in 1 .. Len(lines) |->
                       IF Taken(n) \/ n = line_num THEN c(n) ELSE lines[n].value]
        BY <3>1, <4>1
      <4>3. text' = [n \in 1 .. Len(lines) |-> IF Taken(n)' THEN c(n) ELSE lines[n].value]
        BY <3>3, <4>2
      <4> QED
        BY <2>1, <4>3 DEF c, TextNow
    <3>5. NoTargetYet'
      BY <2>1, <2>6 DEF NoTargetYet, Cut
    <3> QED
      BY <3>2, <3>4, <3>5 DEF LinesInv
  <2>7. CASE End \/ Return
    <3>1. MessageTypes'
      BY <2>1, <2>7 DEF LinesInv, MessageTypes, End, Return
    <3>2. \A n : Taken(n)' <=> Taken(n)
      BY <2>2, <2>4, <2>7 DEF Taken, End, Return
    <3>3. text' = text /\ pc' # "loop"
      BY <2>7 DEF End, Return
    <3>4. TextNow'
      BY <2>1, <3>2, <3>3 DEF LinesInv, TextNow
    <3> QED
      BY <3>1, <3>3, <3>4 DEF LinesInv, NoTargetYet
  <2> QED
    BY <2>1, <2>5, <2>6, <2>7
<1> QED
  BY <1>2, <1>3 DEF Next, Done

\* The messages the code starts with.
LEMMA LinesInit ==
  ASSUME Init
  PROVE  LinesInv
<1>1. PICK m \in 0 .. MaxLines : lines \in [1 .. m -> Line]
  BY DEF Init, BoundedSeq, SeqOf
<1>2. lines \in Seq(Line)
  <2>1. m \in Nat
    BY MaxLinesAssumption
  <2> QED
    BY <1>1, <2>1, SeqDef
<1>3. Len(lines) \in Nat /\ DOMAIN lines = 1 .. Len(lines)
  BY <1>2, LenProperties
<1>4. \A n \in 1 .. Len(lines) : ~Taken(n)
  BY <1>3 DEF Init, Taken
<1>5. MessageTypes
  BY <1>2, <1>3 DEF Init, MessageTypes
<1>6. TextNow
  BY <1>3, <1>4 DEF Init, TextNow
<1>7. NoTargetYet
  BY <1>3 DEF Init, NoTargetYet, With
<1> QED
  BY <1>5, <1>6, <1>7 DEF LinesInv

\* Every message is read line by line; what has been read is cut, the rest is
\* as it was received.
THEOREM DissectorInvariant == Spec => []LinesInv
<1>1. Init => LinesInv
  BY LinesInit
<1>2. LinesInv /\ [Next]_vars => LinesInv'
  BY LinesNextInv
<1> QED
  BY <1>1, <1>2, PTL DEF Spec

\* The search for a class changes a message exactly where a URN is spoilt, in
\* messages of any length over any texts.
THEOREM CutsOnlySpoilt == Spec => []ChangesOnlySpoilt
<1>1. LinesInv => ChangesOnlySpoilt
  <2> SUFFICES ASSUME LinesInv, pc = "done", NEW n \in DOMAIN lines
               PROVE  text[n] # lines[n].value <=> n \in Classified /\ Spoilt(lines[n].value)
    BY DEF ChangesOnlySpoilt
  <2>1. n \in 1 .. Len(lines) /\ lines[n] \in Line
    BY LenProperties, ElementOfSeq DEF LinesInv, MessageTypes
  <2>2. text[n] = IF n \in Classified THEN ssdp_shorten_urn_class(lines[n].value).urn
                  ELSE lines[n].value
    BY <2>1 DEF LinesInv, TextNow, Taken
  <2>3. n \in Classified => lines[n].value \in Seq(Token)
    <3>1. n \in Classified => lines[n].value # NULL
      BY DEF Classified, With
    <3> QED
      BY <2>1, <3>1, TextAssumption DEF Line, Token
  <2>4. n \in Classified =>
          (ssdp_shorten_urn_class(lines[n].value).urn # lines[n].value
             <=> Spoilt(lines[n].value))
    BY <2>3, ClassCut
  <2> QED
    BY <2>2, <2>4
<1> QED
  BY <1>1, DissectorInvariant, PTL

-----------------------------------------------------------------------------
(* The last line of a header                                               *)

\* What has been found in the lines of a header before line k: the second word
\* of the last of them, or what was there first.
HeadsIn(ls, head) == {n \in DOMAIN ls : ls[n].head = head}

FoundBefore(ls, k, head, found, first) ==
  /\ (\A n \in HeadsIn(ls, head) : n >= k) => found = first
  /\ \A n \in HeadsIn(ls, head) :
       n < k /\ (\A m \in HeadsIn(ls, head) : m < k => m <= n) => found = ls[n].value

\* A line of that header replaces it, another one does not.
LEMMA FoundGrows ==
  ASSUME NEW ls \in Seq(Line), NEW k \in 1 .. Len(ls), NEW head, NEW first, NEW old, NEW new,
         FoundBefore(ls, k, head, old, first),
         \/ ls[k].head = head /\ new = ls[k].value
         \/ ls[k].head # head /\ new = old
  PROVE  FoundBefore(ls, k + 1, head, new, first)
<1> DEFINE H == HeadsIn(ls, head)
<1>1. Len(ls) \in Nat /\ DOMAIN ls = 1 .. Len(ls)
  BY LenProperties
<1>2. k \in Nat /\ \A n \in H : n \in Nat
  BY <1>1 DEF HeadsIn
<1>3. k \in H <=> ls[k].head = head
  BY <1>1 DEF HeadsIn
<1>4. /\ (\A n \in H : n >= k) => old = first
      /\ \A n \in H : n < k /\ (\A m \in H : m < k => m <= n) => old = ls[n].value
  BY DEF FoundBefore
<1> HIDE DEF H
<1>5. \A n \in H : n < k + 1 <=> n < k \/ n = k
  BY <1>2
<1>6. CASE k \notin H /\ new = old
  <2>1. \A n \in H : /\ n < k + 1 <=> n < k
                     /\ n >= k + 1 <=> n >= k
    BY <1>2, <1>6
  <2>2. /\ (\A n \in H : n >= k + 1) => new = first
        /\ \A n \in H :
             n < k + 1 /\ (\A m \in H : m < k + 1 => m <= n) => new = ls[n].value
    BY <1>4, <1>6, <2>1
  <2> QED
    BY <2>2 DEF FoundBefore, H
<1>7. CASE k \in H /\ new = ls[k].value
  <2>1. ~\A n \in H : n >= k + 1
    BY <1>2, <1>7
  <2>2. ASSUME NEW n \in H, n < k + 1, \A m \in H : m < k + 1 => m <= n
        PROVE  n = k
    BY <1>2, <1>7, <2>2
  <2>3. /\ (\A n \in H : n >= k + 1) => new = first
        /\ \A n \in H :
             n < k + 1 /\ (\A m \in H : m < k + 1 => m <= n) => new = ls[n].value
    BY <1>7, <2>1, <2>2
  <2> QED
    BY <2>3 DEF FoundBefore, H
<1> QED
  BY <1>3, <1>6, <1>7

\* Behind the last line it is what the definition says.
LEMMA FoundAtEnd ==
  ASSUME LinesInv, line_num > Len(lines), NEW head, NEW first, NEW found,
         FoundBefore(lines, line_num, head, found, first)
  PROVE  found = LastOfHead(head, first)
<1> DEFINE H == HeadsIn(lines, head)
           last == Max(H)
<1>1. /\ Len(lines) \in Nat /\ DOMAIN lines = 1 .. Len(lines) /\ line_num \in Nat
  BY LenProperties DEF LinesInv, MessageTypes
<1>2. H \in SUBSET (0 .. Len(lines)) /\ \A n \in H : n < line_num
  BY <1>1 DEF HeadsIn
<1>3. /\ (\A n \in H : n >= line_num) => found = first
      /\ \A n \in H : n < line_num /\ (\A m \in H : m < line_num => m <= n)
                        => found = lines[n].value
  BY DEF FoundBefore
<1>4. LastOfHead(head, first) = IF H = {} THEN first ELSE lines[last].value
  BY DEF LastOfHead, HeadsIn
<1> HIDE DEF H
<1>5. H # {} => last \in H /\ \A m \in H : m <= last
  BY <1>1, <1>2, MaxOf
<1> QED
  BY <1>2, <1>3, <1>4, <1>5

-----------------------------------------------------------------------------
(* What is reported                                                        *)

\* The lines of a header that have been read with their value.
Read(heads) == {n \in With(heads) : n < line_num}
LastRead(heads, n) == n \in Read(heads) /\ \A m \in Read(heads) : m <= n

\* The type and the class are those of the last such line, as it was received.
UrnRead(heads) ==
  /\ Read(heads) = {} => class = NULL /\ type = [name |-> "NULL", line |-> 0]
  /\ \A n \in 1 .. Len(lines) :
       LastRead(heads, n) =>
         /\ class = ssdp_shorten_urn_class(lines[n].value).class
         /\ type = [name |-> ssdp_shorten_urn_type(lines[n].value), line |-> n]

\* So is the state.
StateRead ==
  /\ Read({"NTS:"}) = {} => state = "NULL"
  /\ \A n \in 1 .. Len(lines) :
       LastRead({"NTS:"}, n) => state = StateOf(lines[n].value)

\* The location and the code are those of the last line, with a value or
\* without.
LocationRead == FoundBefore(lines, line_num, "LOCATION:", location, NULL)
StatusRead == FoundBefore(lines, line_num, "HTTP/1.1", retcode, FirstCode)

\* Each ST: has its place in what is printed.
Place(n) == Cardinality({m \in With({"ST:"}) : m <= n})
FoundPrinted ==
  \A n \in Read({"ST:"}) :
    /\ Place(n) \in 1 .. Len(out)
    /\ out[Place(n)].what = "FOUND" /\ Describes(out[Place(n)], lines[n].value)

\* A notification is described by what has been read of it.
NotifyRead ==
  (kind = "NOTIFY" /\ pc = "loop") =>
    /\ out = <<>>
    /\ UrnRead({"NT:"})
    /\ StateRead
    /\ LocationRead

\* So is a response; a line is printed for each ST:, and nothing is queued yet.
ResponseRead ==
  (kind \in {"HTTP/1.1", "bare"} /\ pc = "loop") =>
    /\ \E R : out \in Seq(R)
    /\ Len(out) = Cardinality(Read({"ST:"}))
    /\ FoundPrinted
    /\ UrnRead({"ST:", "USN:"})
    /\ LocationRead
    /\ StatusRead
    /\ xml_q = <<>>

\* A search prints when it returns.
SearchRead == (kind = "M-SEARCH" /\ pc = "loop") => out = <<>>

ReportsInv ==
  /\ SearchRead /\ NotifyRead /\ ResponseRead
  /\ ReportsAsReference /\ CrashOnlyWithoutValue

\* The lines read are in the message; passing one adds it if it is one of them.
LEMMA ReadLines ==
  ASSUME LinesInv, NEW heads
  PROVE  /\ With(heads) \in SUBSET (1 .. Len(lines)) /\ IsFiniteSet(With(heads))
         /\ Read(heads) \in SUBSET (1 .. Len(lines)) /\ IsFiniteSet(Read(heads))
         /\ line_num > Len(lines) => Read(heads) = With(heads)
<1>1. Len(lines) \in Nat /\ DOMAIN lines = 1 .. Len(lines) /\ line_num \in Nat
  BY LenProperties DEF LinesInv, MessageTypes
<1>2. IsFiniteSet(1 .. Len(lines))
  <2>1. 1 \in Int /\ Len(lines) \in Int
    BY <1>1
  <2> QED
    BY <2>1, FS_Interval
<1>3. With(heads) \in SUBSET (1 .. Len(lines)) /\ Read(heads) \in SUBSET (1 .. Len(lines))
  BY <1>1 DEF With, Read
<1>4. line_num > Len(lines) => Read(heads) = With(heads)
  BY <1>1, <1>3 DEF Read
<1> QED
  BY <1>2, <1>3, <1>4, FS_Subset

LEMMA ReadGrows ==
  ASSUME LinesInv, NEW heads, lines' = lines, line_num' = line_num + 1,
         line_num \in 1 .. Len(lines)
  PROVE  /\ line_num \in With(heads) => Read(heads)' = Read(heads) \cup {line_num}
         /\ line_num \notin With(heads) => Read(heads)' = Read(heads)
         /\ \A n \in Read(heads) : n < line_num
<1>1. With(heads)' = With(heads)
  BY DEF With
<1>2. With(heads) \in SUBSET (1 .. Len(lines)) /\ Len(lines) \in Nat /\ line_num \in Nat
  BY ReadLines, LenProperties DEF LinesInv, MessageTypes
<1>3. \A n \in With(heads) : n < line_num + 1 <=> n < line_num \/ n = line_num
  BY <1>2
<1> QED
  BY <1>1, <1>3 DEF Read

\* The line just read is the last.
LEMMA LastReadGrows ==
  ASSUME LinesInv, NEW heads, lines' = lines, line_num' = line_num + 1,
         line_num \in 1 .. Len(lines), line_num \in With(heads)
  PROVE  /\ Read(heads)' # {}
         /\ \A n \in 1 .. Len(lines) : LastRead(heads, n)' => n = line_num
<1>1. Read(heads)' = Read(heads) \cup {line_num} /\ \A n \in Read(heads) : n < line_num
  BY ReadGrows
<1>2. ASSUME NEW n \in 1 .. Len(lines), LastRead(heads, n)'
      PROVE  n = line_num
  <2>1. n \in Read(heads) \cup {line_num} /\ line_num <= n
    BY <1>1, <1>2 DEF LastRead
  <2> QED
    BY <1>1, <2>1
<1> QED
  BY <1>1, <1>2

\* Taking type and class of a line that counts, and passing one that does not,
\* keep them those of the last line read.
LEMMA UrnReadGrows ==
  ASSUME LinesInv, NEW heads, UrnRead(heads), lines' = lines,
         line_num' = line_num + 1, line_num \in 1 .. Len(lines),
         \/ /\ line_num \in With(heads)
            /\ class' = ssdp_shorten_urn_class(lines[line_num].value).class
            /\ type' = [name |-> ssdp_shorten_urn_type(lines[line_num].value),
                        line |-> line_num]
         \/ line_num \notin With(heads) /\ class' = class /\ type' = type
  PROVE  UrnRead(heads)'
<1>1. CASE line_num \notin With(heads) /\ class' = class /\ type' = type
  <2>1. Read(heads)' = Read(heads)
    BY <1>1, ReadGrows
  <2> QED
    BY <1>1, <2>1 DEF UrnRead, LastRead
<1>2. CASE line_num \in With(heads)
  <2>1. /\ Read(heads)' # {}
        /\ \A n \in 1 .. Len(lines) : LastRead(heads, n)' => n = line_num
    BY <1>2, LastReadGrows
  <2> QED
    BY <1>2, <2>1 DEF UrnRead
<1> QED
  BY <1>1, <1>2

LEMMA StateReadGrows ==
  ASSUME LinesInv, StateRead, lines' = lines,
         line_num' = line_num + 1, line_num \in 1 .. Len(lines),
         \/ line_num \in With({"NTS:"}) /\ state' = StateOf(lines[line_num].value)
         \/ line_num \notin With({"NTS:"}) /\ state' = state
  PROVE  StateRead'
<1>1. CASE line_num \notin With({"NTS:"}) /\ state' = state
  <2>1. Read({"NTS:"})' = Read({"NTS:"})
    BY <1>1, ReadGrows
  <2> QED
    BY <1>1, <2>1 DEF StateRead, LastRead
<1>2. CASE line_num \in With({"NTS:"}) /\ state' = StateOf(lines[line_num].value)
  <2>1. /\ Read({"NTS:"})' # {}
        /\ \A n \in 1 .. Len(lines) : LastRead({"NTS:"}, n)' => n = line_num
    BY <1>2, LastReadGrows
  <2> QED
    BY <1>2, <2>1 DEF StateRead
<1> QED
  BY <1>1, <1>2

\* The text of a header that is not spoilt is what was received, at any time.
LEMMA TextKept ==
  ASSUME LinesInv, NEW n \in 1 .. Len(lines), lines[n].value # NULL
  PROVE  /\ lines[n].value \in Seq(Token)
         /\ ~Spoilt(lines[n].value) => text[n] = lines[n].value
<1>1. lines[n].value \in Seq(Token)
  <2>1. lines[n] \in Line
    BY ElementOfSeq DEF LinesInv, MessageTypes
  <2> QED
    BY <2>1, TextAssumption DEF Line, Token
<1>2. text[n] = IF Taken(n) THEN ssdp_shorten_urn_class(lines[n].value).urn
                ELSE lines[n].value
  BY DEF LinesInv, TextNow
<1> QED
  BY <1>1, <1>2, ClassCut

\* At the end the last line read is the last there is.
LEMMA LastIsRead ==
  ASSUME LinesInv, NEW heads, line_num > Len(lines), With(heads) # {}
  PROVE  \E n \in 1 .. Len(lines) :
           /\ LastRead(heads, n) /\ LastValue(heads) = lines[n].value
           /\ lines[n].value # NULL
<1> DEFINE W == With(heads)
           n == Max(W)
<1>1. /\ W \in SUBSET (1 .. Len(lines)) /\ Read(heads) = W
      /\ Len(lines) \in Nat /\ DOMAIN lines = 1 .. Len(lines)
  BY ReadLines, LenProperties DEF LinesInv, MessageTypes
<1>2. n \in W /\ \A m \in W : m <= n
  <2>1. W # {}
    OBVIOUS
  <2> HIDE DEF W
  <2>2. W \in SUBSET (0 .. Len(lines))
    BY <1>1
  <2> QED
    BY <1>1, <2>1, <2>2, MaxOf
<1>3. LastRead(heads, n) /\ n \in 1 .. Len(lines)
  BY <1>1, <1>2 DEF LastRead
<1>4. lines[n].value # NULL
  BY <1>2 DEF With
<1>5. LastValue(heads) = lines[n].value
  BY DEF LastValue
<1> HIDE DEF n
<1> QED
  BY <1>3, <1>4, <1>5

LEMMA UrnAtEnd ==
  ASSUME LinesInv, NEW heads, UrnRead(heads), line_num > Len(lines)
  PROVE  /\ With(heads) # {} =>
              /\ class # NULL <=> ClassOf(LastValue(heads)) # NULL
              /\ type.name # "NULL"
              /\ ~Spoilt(LastValue(heads)) =>
                   /\ class = ClassOf(LastValue(heads))
                   /\ TypeText(type, text) = TypeOf(LastValue(heads))
         /\ With(heads) = {} =>
              class = NULL /\ type.name = "NULL" /\ TypeText(type, text) = NULL
<1>1. ASSUME With(heads) = {}
      PROVE  class = NULL /\ type.name = "NULL" /\ TypeText(type, text) = NULL
  <2>1. class = NULL /\ type = [name |-> "NULL", line |-> 0]
    BY <1>1, ReadLines DEF UrnRead
  <2> QED
    BY <2>1 DEF TypeText, NULL
<1>2. ASSUME With(heads) # {}
      PROVE  /\ class # NULL <=> ClassOf(LastValue(heads)) # NULL
             /\ type.name # "NULL"
             /\ ~Spoilt(LastValue(heads)) =>
                  /\ class = ClassOf(LastValue(heads))
                  /\ TypeText(type, text) = TypeOf(LastValue(heads))
  <2>1. PICK n \in 1 .. Len(lines) :
          /\ LastRead(heads, n) /\ LastValue(heads) = lines[n].value
          /\ lines[n].value # NULL
    BY <1>2, LastIsRead
  <2> DEFINE v == lines[n].value
  <2>2. /\ class = ssdp_shorten_urn_class(v).class
        /\ type = [name |-> ssdp_shorten_urn_type(v), line |-> n]
    BY <2>1 DEF UrnRead
  <2>3. v \in Seq(Token) /\ (~Spoilt(v) => text[n] = v)
    BY <2>1, TextKept
  <2> HIDE DEF v
  <2>4. /\ class # NULL <=> ClassOf(v) # NULL
        /\ ~Spoilt(v) => class = ClassOf(v)
    BY <2>2, <2>3, ClassCut
  <2>5. type.name # "NULL"
    BY <2>2 DEF ssdp_shorten_urn_type
  <2>6. ~Spoilt(v) => TypeText(type, text) = TypeOf(v)
    BY <2>2, <2>3 DEF TypeText, TypeOf
  <2> QED
    BY <2>1, <2>4, <2>5, <2>6 DEF v
<1> QED
  BY <1>1, <1>2

LEMMA StateAtEnd ==
  ASSUME LinesInv, StateRead, line_num > Len(lines)
  PROVE  /\ With({"NTS:"}) = {} => state = "NULL"
         /\ With({"NTS:"}) # {} => state # "NULL" /\ state = StateOf(LastValue({"NTS:"}))
<1>1. With({"NTS:"}) = {} => state = "NULL"
  BY ReadLines DEF StateRead
<1>2. ASSUME With({"NTS:"}) # {}
      PROVE  state # "NULL" /\ state = StateOf(LastValue({"NTS:"}))
  <2>1. state = StateOf(LastValue({"NTS:"}))
    BY <1>2, LastIsRead DEF StateRead
  <2> QED
    BY <2>1 DEF StateOf
<1> QED
  BY <1>1, <1>2

\* What is printed when a URN has just been cut.
LEMMA DescribesCut ==
  ASSUME NEW v \in Seq(Token), NEW n, NEW texts, NEW t, NEW report,
         texts[n] = ssdp_shorten_urn_class(v).urn,
         \/ t = [name |-> ssdp_shorten_urn_type(v), line |-> n]
         \/ t = [name |-> ssdp_shorten_urn_type(texts[n]), line |-> n],
         report.type = TypeText(t, texts),
         report.class = ssdp_shorten_urn_class(v).class
  PROVE  Describes(report, v)
<1> SUFFICES ASSUME ~Spoilt(v)
             PROVE  report.type = TypeOf(v) /\ report.class = ClassOf(v)
  BY DEF Describes
<1>1. texts[n] = v /\ report.class = ClassOf(v)
  BY ClassCut
<1> QED
  BY <1>1 DEF TypeText, TypeOf

LEMMA SearchNextInv ==
  ASSUME LinesInv, SearchRead, pc = "loop", kind = "M-SEARCH", kind' = kind,
         lines' = lines, ssdp_subproc_search
  PROVE  /\ SearchRead' /\ SearchAsReference'
         /\ pc' = "crash" =>
              \E n \in DOMAIN lines : lines[n].value = NULL /\ lines[n].head = "ST:"
<1>1. Len(lines) \in Nat /\ DOMAIN lines = 1 .. Len(lines) /\ line_num \in Nat
  BY LenProperties DEF LinesInv, MessageTypes
<1>2. out = <<>> /\ \A n \in With({"ST:"}) : n >= line_num
  BY DEF SearchRead, LinesInv, NoTargetYet
<1>3. Classified' = Classified
  BY DEF Classified, With
<1>4. CASE SearchTarget
  <2>1. /\ line_num \in 1 .. Len(lines) /\ lines[line_num].head = "ST:"
        /\ Value = lines[line_num].value
    BY <1>1, <1>4, ValueReceived DEF SearchTarget, AtLine
  <2>2. CASE Value = NULL
    BY <1>1, <1>4, <2>1, <2>2 DEF SearchTarget, Crash, SearchRead, SearchAsReference
  <2>3. CASE Value # NULL
    <3> DEFINE v == lines[line_num].value
               report == [what |-> "M-SEARCH", type |-> TypeText(type', text'),
                          class |-> class', at |-> NULL]
    <3>1. line_num \in With({"ST:"})
      BY <1>1, <2>1, <2>3 DEF With
    <3>2. Classified = {line_num}
      <4>1. \A n \in Classified : n \in Nat /\ n <= line_num /\ line_num <= n
        BY <1>1, <1>2, <3>1 DEF Classified, With
      <4>2. \A n \in Classified : n = line_num
        BY <1>1, <4>1
      <4>3. line_num \in Classified
        BY <1>1, <1>2, <2>1, <3>1 DEF Classified
      <4> QED
        BY <4>2, <4>3
    <3>3. /\ class' = ssdp_shorten_urn_class(v).class
          /\ text' = [text EXCEPT ![line_num] = ssdp_shorten_urn_class(v).urn]
          /\ \/ type' = [name |-> ssdp_shorten_urn_type(v), line |-> line_num]
             \/ type' = [name |-> ssdp_shorten_urn_type(text'[line_num]), line |-> line_num]
          /\ out' = Append(out, report) /\ pc' = "done"
      BY <1>4, <2>1, <2>3 DEF SearchTarget, Classify, TypeOfLine, ztprint
    <3>4. text'[line_num] = ssdp_shorten_urn_class(v).urn
      BY <2>1, <3>3 DEF LinesInv, TextNow
    <3>5. v \in Seq(Token)
      BY <2>1, <2>3, TextKept
    <3>6. report.type = TypeText(type', text') /\ report.class = ssdp_shorten_urn_class(v).class
          /\ report.what = "M-SEARCH"
      BY <3>3
    <3>7. out' = <<report>>
      BY <1>2, <3>3
    <3> HIDE DEF v, report
    <3>8. Describes(report, v)
      BY <3>3, <3>4, <3>5, <3>6, DescribesCut
    <3>9. Len(out') = 1 /\ out'[1] = report
      BY <3>7
    <3>10. \A n \in Classified : Describes(out'[1], lines[n].value)
      BY <3>2, <3>8, <3>9 DEF v
    <3>11. out'[1].what = "M-SEARCH"
      BY <3>6, <3>9
    <3>12. SearchAsReference'
      BY <1>3, <3>2, <3>9, <3>10, <3>11 DEF SearchAsReference, Describes
    <3> QED
      BY <3>3, <3>12 DEF SearchRead
  <2> QED
    BY <2>2, <2>3
<1>5. CASE SearchOther
  BY <1>2, <1>5 DEF SearchOther, NextLine, SearchRead, SearchAsReference
<1>6. CASE SearchEnds
  <2>1. line_num > Len(lines) /\ pc' = "done" /\ out' = <<>>
    BY <1>2, <1>6 DEF SearchEnds
  <2>2. Classified = {}
    BY <1>1, <1>2, <2>1 DEF Classified, With
  <2> QED
    BY <1>3, <2>1, <2>2 DEF SearchRead, SearchAsReference
<1> QED
  BY <1>4, <1>5, <1>6 DEF ssdp_subproc_search

LEMMA NotifyNextInv ==
  ASSUME LinesInv, NotifyRead, pc = "loop", kind = "NOTIFY", kind' = kind,
         lines' = lines, ssdp_subproc_notify
  PROVE  /\ NotifyRead' /\ NotifyAsReference'
         /\ pc' = "crash" =>
              \E n \in DOMAIN lines : lines[n].value = NULL /\ lines[n].head = "NTS:"
<1> DEFINE NT == {"NT:"}
           NTS == {"NTS:"}
<1>1. out = <<>> /\ UrnRead(NT) /\ StateRead /\ LocationRead
  BY DEF NotifyRead
<1>2. /\ Len(lines) \in Nat /\ DOMAIN lines = 1 .. Len(lines) /\ line_num \in Nat
      /\ line_num \in 1 .. Len(lines) \/ line_num > Len(lines)
      /\ lines \in Seq(Line)
  BY LenProperties DEF LinesInv, MessageTypes
<1>3. line_num \in 1 .. Len(lines) => Value = lines[line_num].value
  BY <1>2, ValueReceived
<1>4. \A heads : line_num \in 1 .. Len(lines) =>
        (line_num \in With(heads) <=> lines[line_num].head \in heads /\ Value # NULL)
  BY <1>2, <1>3 DEF With
<1>5. ASSUME line_num \in 1 .. Len(lines), line_num' = line_num + 1,
             \/ lines[line_num].head = "LOCATION:" /\ location' = lines[line_num].value
             \/ lines[line_num].head # "LOCATION:" /\ location' = location
      PROVE  LocationRead'
  BY <1>1, <1>2, <1>5, FoundGrows DEF LocationRead
<1> HIDE DEF NT, NTS
<1>6. CASE NotifyType
  <2>1. /\ line_num \in 1 .. Len(lines) /\ lines[line_num].head = "NT:" /\ Value # NULL
        /\ state' = state /\ location' = location /\ out' = out
        /\ line_num' = line_num + 1 /\ pc' = "loop"
    BY <1>2, <1>6 DEF NotifyType, AtLine, NextLine
  <2>2. /\ class' = ssdp_shorten_urn_class(lines[line_num].value).class
        /\ type' = [name |-> ssdp_shorten_urn_type(lines[line_num].value), line |-> line_num]
    BY <1>3, <1>6, <2>1 DEF NotifyType, TypeOfLine, Classify
  <2>3. line_num \in With(NT) /\ line_num \notin With(NTS)
    BY <1>4, <2>1 DEF NT, NTS
  <2>4. UrnRead(NT)'
    BY <1>1, <2>1, <2>2, <2>3, UrnReadGrows
  <2>5. StateRead'
    BY <1>1, <2>1, <2>3, StateReadGrows DEF NTS
  <2>6. LocationRead'
    BY <1>5, <2>1
  <2> QED
    BY <1>1, <2>1, <2>4, <2>5, <2>6 DEF NotifyRead, NotifyAsReference, NT
<1>7. CASE NotifyState
  <2>1. line_num \in 1 .. Len(lines) /\ lines[line_num].head = "NTS:"
    BY <1>2, <1>7 DEF NotifyState, AtLine
  <2>2. CASE Value = NULL
    BY <1>2, <1>3, <1>7, <2>1, <2>2 DEF NotifyState, Crash, NotifyRead, NotifyAsReference
  <2>3. CASE Value # NULL
    <3>1. /\ state' = StateOf(lines[line_num].value)
          /\ type' = type /\ class' = class /\ location' = location /\ out' = out
          /\ line_num' = line_num + 1 /\ pc' = "loop"
      BY <1>3, <1>7, <2>1, <2>3 DEF NotifyState, NextLine
    <3>2. line_num \notin With(NT) /\ line_num \in With(NTS)
      BY <1>4, <2>1, <2>3 DEF NT, NTS
    <3>3. UrnRead(NT)'
      BY <1>1, <2>1, <3>1, <3>2, UrnReadGrows
    <3>4. StateRead'
      BY <1>1, <2>1, <3>1, <3>2, StateReadGrows DEF NTS
    <3>5. LocationRead'
      BY <1>5, <2>1, <3>1
    <3> QED
      BY <1>1, <3>1, <3>3, <3>4, <3>5 DEF NotifyRead, NotifyAsReference, NT
  <2> QED
    BY <2>2, <2>3
<1>8. CASE LocationLine \/ NotifyOther
  <2>1. /\ line_num \in 1 .. Len(lines)
        /\ lines[line_num].head \notin {"NT:", "NTS:"} \/ Value = NULL
        /\ lines[line_num].head # "NTS:"
        /\ type' = type /\ class' = class /\ state' = state /\ out' = out
        /\ line_num' = line_num + 1 /\ pc' = "loop"
    BY <1>2, <1>8 DEF LocationLine, NotifyOther, AtLine, NextLine, foundVars
  <2>2. line_num \notin With(NT) /\ line_num \notin With(NTS)
    BY <1>4, <2>1 DEF NT, NTS
  <2>3. UrnRead(NT)'
    BY <1>1, <2>1, <2>2, UrnReadGrows
  <2>4. StateRead'
    BY <1>1, <2>1, <2>2, StateReadGrows DEF NTS
  <2>5. \/ lines[line_num].head = "LOCATION:" /\ location' = lines[line_num].value
        \/ lines[line_num].head # "LOCATION:" /\ location' = location
    BY <1>3, <1>8, <2>1 DEF LocationLine, NotifyOther, AtLine, foundVars
  <2>6. LocationRead'
    BY <1>5, <2>1, <2>5
  <2> QED
    BY <1>1, <2>1, <2>3, <2>4, <2>6 DEF NotifyRead, NotifyAsReference, NT
<1>9. CASE NotifyEnds
  <2>1. line_num > Len(lines) /\ pc' = "done"
    BY <1>9 DEF NotifyEnds
  <2> DEFINE nt == LastValue(NT)
             nts == LastValue(NTS)
             shown == type.name # "NULL" /\ class # NULL /\ state # "NULL"
             report == IF shown
                         THEN [what |-> state, type |-> TypeText(type, text),
                               class |-> class, at |-> location]
                         ELSE [what |-> "WHOA"]
             complete == With(NT) # {} /\ With(NTS) # {} /\ ClassOf(nt) # NULL
  <2>2. /\ With(NT) # {} =>
              /\ class # NULL <=> ClassOf(nt) # NULL
              /\ type.name # "NULL"
              /\ ~Spoilt(nt) => class = ClassOf(nt) /\ TypeText(type, text) = TypeOf(nt)
        /\ With(NT) = {} => class = NULL
    BY <1>1, <2>1, UrnAtEnd
  <2>3. /\ With(NTS) = {} => state = "NULL"
        /\ With(NTS) # {} => state # "NULL" /\ state = StateOf(nts)
    BY <1>1, <2>1, StateAtEnd DEF NTS
  <2>4. location = LastLocation
    BY <1>1, <2>1, FoundAtEnd DEF LocationRead, LastLocation
  <2>5. out' = <<report>>
    BY <1>1, <1>9 DEF NotifyEnds, ztprint
  <2>6. shown <=> complete
    BY <2>2, <2>3
  <2>7. /\ shown => /\ report.what = state /\ report.at = location
                    /\ report.class = class /\ report.type = TypeText(type, text)
        /\ ~shown => report.what = "WHOA"
    OBVIOUS
  <2>8. /\ With(NT)' = With(NT) /\ With(NTS)' = With(NTS)
        /\ LastValue(NT)' = nt /\ LastValue(NTS)' = nts /\ LastLocation' = LastLocation
    BY DEF With, LastValue, LastLocation, LastOfHead
  <2> HIDE DEF report, shown, nt, nts
  <2>9. Len(out') = 1 /\ out'[1] = report
    BY <2>5
  <2>10. complete => Describes(report, nt)
    BY <2>2, <2>6, <2>7 DEF Describes
  <2>11. /\ report.what = IF complete THEN StateOf(nts) ELSE "WHOA"
         /\ complete => report.at = LastLocation
    BY <2>3, <2>4, <2>6, <2>7
  <2>12. NotifyAsReference'
    BY <2>8, <2>9, <2>10, <2>11 DEF NotifyAsReference, NT, NTS, Describes
  <2> QED
    BY <2>1, <2>12 DEF NotifyRead
<1> QED
  BY <1>6, <1>7, <1>8, <1>9 DEF ssdp_subproc_notify

\* A line that is printed for an ST: gets the next place.
LEMMA FoundPrintedGrows ==
  ASSUME LinesInv, FoundPrinted, lines' = lines, line_num' = line_num + 1,
         line_num \in 1 .. Len(lines),
         Len(out) = Cardinality(Read({"ST:"})),
         NEW R, out \in Seq(R),
         \/ line_num \notin With({"ST:"}) /\ out' = out
         \/ /\ line_num \in With({"ST:"})
            /\ \E r : /\ out' = Append(out, r) /\ r.what = "FOUND"
                      /\ Describes(r, lines[line_num].value)
  PROVE  /\ FoundPrinted'
         /\ Len(out') = Cardinality(Read({"ST:"})')
         /\ \E Q : out' \in Seq(Q)
<1> DEFINE ST == {"ST:"}
<1>1. /\ With(ST) \in SUBSET (1 .. Len(lines)) /\ IsFiniteSet(With(ST))
      /\ Read(ST) \in SUBSET (1 .. Len(lines)) /\ IsFiniteSet(Read(ST))
      /\ line_num \in Nat /\ Len(lines) \in Nat
  BY ReadLines, LenProperties DEF LinesInv, MessageTypes
<1>2. With(ST)' = With(ST) /\ \A n : Place(n)' = Place(n)
  BY DEF With, Place
<1>3. Cardinality(Read(ST)) \in Nat /\ Len(out) \in Nat
  BY <1>1, FS_CardinalityType
<1>4. \A n \in Read(ST) :
        /\ Place(n) \in 1 .. Len(out)
        /\ out[Place(n)].what = "FOUND" /\ Describes(out[Place(n)], lines[n].value)
  BY DEF FoundPrinted
<1>5. CASE line_num \notin With(ST) /\ out' = out
  <2>1. Read(ST)' = Read(ST)
    BY <1>5, ReadGrows
  <2>2. FoundPrinted'
    BY <1>2, <1>4, <1>5, <2>1 DEF FoundPrinted, Describes
  <2> QED
    BY <1>5, <2>1, <2>2
<1>6. ASSUME line_num \in With(ST), NEW r, out' = Append(out, r), r.what = "FOUND",
             Describes(r, lines[line_num].value)
      PROVE  /\ FoundPrinted'
             /\ Len(out') = Cardinality(Read(ST)')
             /\ \E Q : out' \in Seq(Q)
  <2>1. Read(ST)' = Read(ST) \cup {line_num} /\ \A n \in Read(ST) : n < line_num
    BY <1>6, ReadGrows
  <2>2. Cardinality(Read(ST)') = Cardinality(Read(ST)) + 1
    <3> DEFINE S == Read(ST)
    <3>1. IsFiniteSet(S) /\ line_num \notin S /\ Read(ST)' = S \cup {line_num}
      BY <1>1, <2>1
    <3> HIDE DEF S
    <3>2. Cardinality(S \cup {line_num}) = Cardinality(S) + 1
      BY <3>1, FS_AddElement
    <3>3. Cardinality(Read(ST)') = Cardinality(S) + 1
      BY <3>1, <3>2
    <3> QED
      BY <3>3 DEF S
  <2>3. out \in Seq(R \cup {r})
    BY SeqMonotonic
  <2>4. /\ out' \in Seq(R \cup {r})
        /\ Len(out') = Len(out) + 1
        /\ out'[Len(out) + 1] = r
        /\ \A i \in 1 .. Len(out) : out'[i] = out[i]
    BY <1>6, <2>3, AppendProperties
  <2>5. Place(line_num) = Len(out) + 1
    <3>1. {m \in With(ST) : m <= line_num} = Read(ST) \cup {line_num}
      BY <1>1, <1>6 DEF Read
    <3> QED
      BY <2>1, <2>2, <3>1 DEF Place
  <2>6. \A n \in Read(ST) \cup {line_num} :
          /\ Place(n) \in 1 .. Len(out')
          /\ out'[Place(n)].what = "FOUND" /\ Describes(out'[Place(n)], lines[n].value)
    <3> SUFFICES ASSUME NEW n \in Read(ST) \cup {line_num}
                 PROVE  /\ Place(n) \in 1 .. Len(out')
                        /\ out'[Place(n)].what = "FOUND"
                        /\ Describes(out'[Place(n)], lines[n].value)
      OBVIOUS
    <3>1. CASE n = line_num
      <4>1. Place(n) = Len(out) + 1 /\ out'[Place(n)] = r
        BY <2>4, <2>5, <3>1
      <4>2. Place(n) \in 1 .. Len(out')
        BY <1>3, <2>4, <4>1
      <4> QED
        BY <1>6, <3>1, <4>1, <4>2
    <3>2. CASE n \in Read(ST)
      <4>1. /\ Place(n) \in 1 .. Len(out)
            /\ out[Place(n)].what = "FOUND" /\ Describes(out[Place(n)], lines[n].value)
        BY <1>4, <3>2
      <4>2. out'[Place(n)] = out[Place(n)]
        BY <2>4, <4>1
      <4>3. Place(n) \in 1 .. Len(out')
        BY <1>3, <2>4, <4>1
      <4> QED
        BY <4>1, <4>2, <4>3
    <3> QED
      BY <3>1, <3>2
  <2>7. FoundPrinted'
    BY <1>2, <2>1, <2>6 DEF FoundPrinted, Describes
  <2> QED
    BY <2>2, <2>4, <2>7
<1> QED
  BY <1>5, <1>6

LEMMA ResponseNextInv ==
  ASSUME LinesInv, ResponseRead, pc = "loop", kind \in {"HTTP/1.1", "bare"}, kind' = kind,
         lines' = lines, ssdp_subproc_response
  PROVE  /\ ResponseRead' /\ ResponseAsReference'
         /\ pc' = "crash" =>
              \/ LastOfHead("HTTP/1.1", FirstCode) = NULL
              \/ \E n \in DOMAIN lines :
                   lines[n].value = NULL /\ lines[n].head \in {"ST:", "USN:"}
<1> DEFINE ST == {"ST:"}
           URN == {"ST:", "USN:"}
<1>1. /\ xml_q = <<>> /\ UrnRead(URN) /\ LocationRead /\ StatusRead /\ FoundPrinted
      /\ Len(out) = Cardinality(Read(ST))
      /\ \E R : out \in Seq(R)
  BY DEF ResponseRead
<1>2. /\ Len(lines) \in Nat /\ DOMAIN lines = 1 .. Len(lines) /\ line_num \in Nat
      /\ line_num \in 1 .. Len(lines) \/ line_num > Len(lines)
      /\ lines \in Seq(Line)
  BY LenProperties DEF LinesInv, MessageTypes
<1>3. line_num \in 1 .. Len(lines) => Value = lines[line_num].value
  BY <1>2, ValueReceived
<1>4. \A heads : line_num \in 1 .. Len(lines) =>
        (line_num \in With(heads) <=> lines[line_num].head \in heads /\ Value # NULL)
  BY <1>2, <1>3 DEF With
<1>5. PICK R : out \in Seq(R)
  BY <1>1
<1>6. ASSUME line_num \in 1 .. Len(lines), line_num' = line_num + 1,
             \/ lines[line_num].head = "LOCATION:" /\ location' = lines[line_num].value
             \/ lines[line_num].head # "LOCATION:" /\ location' = location,
             \/ lines[line_num].head = "HTTP/1.1" /\ retcode' = lines[line_num].value
             \/ lines[line_num].head # "HTTP/1.1" /\ retcode' = retcode
      PROVE  LocationRead' /\ StatusRead'
  <2>1. LocationRead'
    BY <1>1, <1>2, <1>6, FoundGrows DEF LocationRead
  <2>2. FirstCode' = FirstCode
    BY DEF FirstCode
  <2>3. StatusRead'
    BY <1>1, <1>2, <1>6, <2>2, FoundGrows DEF StatusRead
  <2> QED
    BY <2>1, <2>3
<1> HIDE DEF ST, URN
<1>7. CASE ResponseUrn
  <2>1. line_num \in 1 .. Len(lines) /\ lines[line_num].head \in {"ST:", "USN:"}
    BY <1>2, <1>7 DEF ResponseUrn, AtLine
  <2>2. CASE Value = NULL
    BY <1>2, <1>3, <1>7, <2>1, <2>2 DEF ResponseUrn, Crash, ResponseRead, ResponseAsReference
  <2>3. CASE Value # NULL
    <3> DEFINE v == lines[line_num].value
    <3>1. /\ line_num' = line_num + 1 /\ pc' = "loop"
          /\ class' = ssdp_shorten_urn_class(v).class
          /\ type' = [name |-> ssdp_shorten_urn_type(v), line |-> line_num]
          /\ text' = [text EXCEPT ![line_num] = ssdp_shorten_urn_class(v).urn]
          /\ location' = location /\ retcode' = retcode /\ xml_q' = xml_q
      BY <1>3, <1>7, <2>1, <2>3 DEF ResponseUrn, Classify, TypeOfLine, NextLine
    <3>2. line_num \in With(URN) /\ (line_num \in With(ST) <=> lines[line_num].head = "ST:")
      BY <1>4, <2>1, <2>3 DEF ST, URN
    <3>3. UrnRead(URN)'
      BY <1>1, <2>1, <3>1, <3>2, UrnReadGrows
    <3>4. LocationRead' /\ StatusRead'
      BY <1>6, <2>1, <3>1
    <3>5. \/ line_num \notin With(ST) /\ out' = out
          \/ /\ line_num \in With(ST)
             /\ \E r : /\ out' = Append(out, r) /\ r.what = "FOUND"
                       /\ Describes(r, lines[line_num].value)
      <4>1. CASE lines[line_num].head = "ST:"
        <5> DEFINE r == [what |-> "FOUND", type |-> TypeText(type', text'),
                         class |-> class', at |-> NULL]
        <5>1. out' = Append(out, r)
          BY <1>7, <2>1, <2>3, <4>1 DEF ResponseUrn, AtLine, ztprint
        <5>2. /\ r.what = "FOUND" /\ r.type = TypeText(type', text')
              /\ r.class = ssdp_shorten_urn_class(v).class
          BY <3>1
        <5>3. text'[line_num] = ssdp_shorten_urn_class(v).urn
          BY <2>1, <3>1 DEF LinesInv, TextNow
        <5>4. v \in Seq(Token)
          BY <1>3, <2>1, <2>3, TextKept
        <5> HIDE DEF r, v
        <5>5. Describes(r, v)
          BY <3>1, <5>2, <5>3, <5>4, DescribesCut
        <5> QED
          BY <3>2, <4>1, <5>1, <5>2, <5>5 DEF v
      <4>2. CASE lines[line_num].head # "ST:"
        BY <1>7, <2>1, <2>3, <3>2, <4>2 DEF ResponseUrn, AtLine
      <4> QED
        BY <4>1, <4>2
    <3>6. FoundPrinted' /\ Len(out') = Cardinality(Read(ST)') /\ \E Q : out' \in Seq(Q)
      BY <1>1, <1>5, <2>1, <3>1, <3>5, FoundPrintedGrows DEF ST
    <3> QED
      BY <1>1, <3>1, <3>3, <3>4, <3>6 DEF ResponseRead, ResponseAsReference, ST, URN
  <2> QED
    BY <2>2, <2>3
<1>8. CASE ResponseStatus \/ LocationLine \/ ResponseOther
  <2>1. /\ line_num \in 1 .. Len(lines) /\ lines[line_num].head \notin {"ST:", "USN:"}
        /\ type' = type /\ class' = class /\ out' = out /\ xml_q' = xml_q
        /\ line_num' = line_num + 1 /\ pc' = "loop"
    BY <1>2, <1>8 DEF ResponseStatus, LocationLine, ResponseOther, AtLine, NextLine, foundVars
  <2>2. line_num \notin With(ST) /\ line_num \notin With(URN)
    BY <1>4, <2>1 DEF ST, URN
  <2>3. UrnRead(URN)'
    BY <1>1, <2>1, <2>2, UrnReadGrows
  <2>4. FoundPrinted' /\ Len(out') = Cardinality(Read(ST)') /\ \E Q : out' \in Seq(Q)
    BY <1>1, <1>5, <2>1, <2>2, FoundPrintedGrows DEF ST
  <2>5. \/ lines[line_num].head = "LOCATION:" /\ location' = lines[line_num].value
        \/ lines[line_num].head # "LOCATION:" /\ location' = location
    BY <1>3, <1>8, <2>1 DEF ResponseStatus, LocationLine, ResponseOther, AtLine, foundVars
  <2>6. \/ lines[line_num].head = "HTTP/1.1" /\ retcode' = lines[line_num].value
        \/ lines[line_num].head # "HTTP/1.1" /\ retcode' = retcode
    BY <1>3, <1>8, <2>1 DEF ResponseStatus, LocationLine, ResponseOther, AtLine, foundVars
  <2>7. LocationRead' /\ StatusRead'
    BY <1>6, <2>1, <2>5, <2>6
  <2> QED
    BY <1>1, <2>1, <2>3, <2>4, <2>7 DEF ResponseRead, ResponseAsReference, ST, URN
<1>9. CASE ResponseEnds
  <2>1. line_num > Len(lines) /\ pc' # "loop"
    BY <1>9 DEF ResponseEnds
  <2>2. location = LastLocation
    BY <1>1, <2>1, FoundAtEnd DEF LocationRead, LastLocation
  <2>3. retcode = LastOfHead("HTTP/1.1", FirstCode)
    BY <1>1, <2>1, FoundAtEnd DEF StatusRead
  <2>4. CASE pc' = "crash"
    BY <1>9, <2>3, <2>4 DEF ResponseEnds, ResponseRead, ResponseAsReference
  <2>5. CASE pc' = "done"
    <3> DEFINE report == [what |-> "RESPONSE", code |-> retcode,
                          type |-> TypeText(type, text), class |-> class, at |-> location]
               n0 == Len(out)
               urn == LastValue(URN)
    <3>1. /\ out' = Append(out, report)
          /\ xml_q' = IF location = NULL THEN <<>> ELSE <<location>>
      BY <1>1, <1>9, <2>5 DEF ResponseEnds
    <3>2. Read(ST) = With(ST) /\ n0 = Cardinality(With(ST)) /\ n0 \in Nat
      BY <1>1, <1>5, <2>1, ReadLines, LenProperties
    <3>3. /\ report.what = "RESPONSE" /\ report.code = retcode /\ report.at = location
          /\ report.type = TypeText(type, text) /\ report.class = class
      OBVIOUS
    <3>4. /\ With(URN) # {} /\ ~Spoilt(urn) =>
               class = ClassOf(urn) /\ TypeText(type, text) = TypeOf(urn)
          /\ With(URN) = {} => class = NULL /\ TypeText(type, text) = NULL
      BY <1>1, <2>1, UrnAtEnd
    <3>5. \A n \in With(ST) :
            /\ Place(n) \in 1 .. n0
            /\ out[Place(n)].what = "FOUND" /\ Describes(out[Place(n)], lines[n].value)
      BY <1>1, <3>2 DEF FoundPrinted, ST
    <3>6. /\ With(ST)' = With(ST) /\ With(URN)' = With(URN) /\ LastValue(URN)' = urn
          /\ LastLocation' = LastLocation
          /\ LastOfHead("HTTP/1.1", FirstCode)' = LastOfHead("HTTP/1.1", FirstCode)
      BY DEF With, LastValue, LastLocation, LastOfHead, FirstCode
    <3> HIDE DEF report, n0, urn
    <3>7. /\ Len(out') = n0 + 1 /\ out'[n0 + 1] = report
          /\ \A i \in 1 .. n0 : out'[i] = out[i]
      <4>1. out \in Seq(R \cup {report})
        BY <1>5, SeqMonotonic
      <4> QED
        BY <3>1, <4>1, AppendProperties DEF n0
    <3>8. Last(out') = report
      BY <3>7 DEF Last
    <3>9. \A n \in With(ST) :
            out'[Place(n)].what = "FOUND" /\ Describes(out'[Place(n)], lines[n].value)
      BY <3>5, <3>7
    <3>10. IF With(URN) = {} THEN report.type = NULL /\ report.class = NULL
           ELSE Describes(report, urn)
      BY <3>3, <3>4 DEF Describes
    <3>11. /\ Len(out') = Cardinality(With(ST)') + 1
           /\ \A n \in With(ST)' :
                LET p == Cardinality({m \in With(ST)' : m <= n})
                IN out'[p].what = "FOUND" /\ Describes(out'[p], lines'[n].value)
      BY <3>2, <3>6, <3>7, <3>9 DEF Place, ST
    <3>12. /\ Last(out').what = "RESPONSE" /\ Last(out').at = LastLocation'
           /\ Last(out').code = LastOfHead("HTTP/1.1", FirstCode)'
           /\ IF With(URN)' = {} THEN Last(out').type = NULL /\ Last(out').class = NULL
              ELSE Describes(Last(out'), LastValue(URN)')
           /\ xml_q' = IF LastLocation' = NULL THEN <<>> ELSE <<LastLocation'>>
      BY <2>2, <2>3, <3>1, <3>3, <3>6, <3>8, <3>10
    <3>13. ResponseAsReference'
      BY <3>11, <3>12 DEF ResponseAsReference, ST, URN, Describes
    <3> QED
      BY <2>5, <3>13 DEF ResponseRead
  <2> QED
    BY <1>9, <2>4, <2>5 DEF ResponseEnds
<1> QED
  BY <1>7, <1>8, <1>9 DEF ssdp_subproc_response

LEMMA ReportsNextInv ==
  ASSUME LinesInv, ReportsInv, [Next]_vars
  PROVE  ReportsInv'
<1> USE DEF ReportsInv, ReportsAsReference
<1>1. CASE UNCHANGED vars
  <2>1. UNCHANGED <<kind, lines, text, line_num, type, class, state, location, retcode,
                    xml_q, out, pc>>
    BY <1>1 DEF vars, foundVars
  <2>2. /\ \A heads : With(heads)' = With(heads) /\ Read(heads)' = Read(heads)
        /\ \A heads : LastValue(heads)' = LastValue(heads)
        /\ Classified' = Classified /\ FirstCode' = FirstCode
        /\ \A head, first : LastOfHead(head, first)' = LastOfHead(head, first)
    BY <2>1 DEF With, Read, LastValue, Classified, FirstCode, LastOfHead
  <2>3. SearchRead' /\ NotifyRead' /\ ResponseRead'
    BY <2>1, <2>2 DEF SearchRead, NotifyRead, ResponseRead, UrnRead, LastRead, StateRead,
       LocationRead, StatusRead, FoundPrinted, Place, Describes
  <2>4. SearchAsReference' /\ NotifyAsReference'
    BY <2>1, <2>2 DEF SearchAsReference, NotifyAsReference, LastLocation, Describes
  <2>5. ResponseAsReference'
    BY <2>1 DEF ResponseAsReference, LastLocation, LastOfHead, FirstCode, With, LastValue,
       Describes
  <2>6. CrashOnlyWithoutValue'
    BY <2>1 DEF CrashOnlyWithoutValue, LastOfHead, FirstCode
  <2> QED
    BY <2>3, <2>4, <2>5, <2>6
<1>2. CASE ssdp_process
  <2>1. pc = "loop" /\ kind' = kind /\ lines' = lines
    BY <1>2 DEF ssdp_process
  <2>2. LastOfHead("HTTP/1.1", FirstCode)' = LastOfHead("HTTP/1.1", FirstCode)
    BY <2>1 DEF LastOfHead, FirstCode
  <2>3. CASE kind = "M-SEARCH"
    BY <1>2, <2>1, <2>3, SearchNextInv
       DEF ssdp_process, NotifyRead, ResponseRead, NotifyAsReference, ResponseAsReference,
           CrashOnlyWithoutValue
  <2>4. CASE kind = "NOTIFY"
    BY <1>2, <2>1, <2>4, NotifyNextInv
       DEF ssdp_process, SearchRead, ResponseRead, SearchAsReference, ResponseAsReference,
           CrashOnlyWithoutValue
  <2>5. CASE kind \in {"HTTP/1.1", "bare"}
    BY <1>2, <2>1, <2>2, <2>5, ResponseNextInv
       DEF ssdp_process, SearchRead, NotifyRead, SearchAsReference, NotifyAsReference,
           CrashOnlyWithoutValue
  <2>6. CASE kind \notin {"M-SEARCH", "NOTIFY", "HTTP/1.1", "bare"}
    <3>1. SearchRead' /\ NotifyRead' /\ ResponseRead' /\ ReportsAsReference'
      BY <2>1, <2>6 DEF SearchRead, NotifyRead, ResponseRead, SearchAsReference,
         NotifyAsReference, ResponseAsReference
    <3>2. pc' = "crash" => kind = "empty"
      BY <1>2, <2>6 DEF ssdp_process
    <3> QED
      BY <2>1, <3>1, <3>2 DEF CrashOnlyWithoutValue
  <2> QED
    BY <2>3, <2>4, <2>5, <2>6
<1> QED
  BY <1>1, <1>2 DEF Next, Done

LEMMA ReportsInit ==
  ASSUME Init, LinesInv
  PROVE  ReportsInv
<1>1. /\ line_num = 1 /\ pc = "loop" /\ class = NULL /\ location = NULL
      /\ retcode = FirstCode /\ state = "NULL" /\ type = [name |-> "NULL", line |-> 0]
      /\ out = <<>> /\ xml_q = <<>>
  BY DEF Init
<1>2. /\ Len(lines) \in Nat /\ DOMAIN lines = 1 .. Len(lines)
  BY LenProperties DEF LinesInv, MessageTypes
<1>3. \A heads : Read(heads) = {}
  BY <1>1, <1>2 DEF Read, With
<1>4. \A heads : UrnRead(heads)
  BY <1>1, <1>3 DEF UrnRead, LastRead
<1>5. StateRead /\ FoundPrinted
  BY <1>1, <1>3 DEF StateRead, LastRead, FoundPrinted
<1>6. LocationRead /\ StatusRead
  <2>1. \A head : \A n \in HeadsIn(lines, head) : n \in Nat /\ n >= 1 /\ ~(n < 1)
    BY <1>2 DEF HeadsIn
  <2> QED
    BY <1>1, <2>1 DEF LocationRead, StatusRead, FoundBefore
<1>7. out \in Seq({}) /\ Len(out) = Cardinality(Read({"ST:"}))
  <2>1. Cardinality({}) = 0
    BY FS_EmptySet
  <2>2. Read({"ST:"}) = {}
    BY <1>3
  <2>3. Cardinality(Read({"ST:"})) = 0
    BY <2>1, <2>2
  <2>4. out \in Seq({}) /\ Len(out) = 0
    BY <1>1
  <2> QED
    BY <2>3, <2>4
<1> QED
  BY <1>1, <1>4, <1>5, <1>6, <1>7
     DEF ReportsInv, SearchRead, NotifyRead, ResponseRead, ReportsAsReference,
         SearchAsReference, NotifyAsReference, ResponseAsReference, CrashOnlyWithoutValue

\* What has been found of a message is what its lines say, at every line.
THEOREM ReportsInvariant == Spec => []ReportsInv
<1>1. Init /\ LinesInv => ReportsInv
  BY ReportsInit
<1>2. LinesInv /\ ReportsInv /\ [Next]_vars => ReportsInv'
  BY ReportsNextInv
<1> QED
  BY <1>1, <1>2, DissectorInvariant, PTL DEF Spec

\* What the plugin prints and queues is what the lines of the message say, in
\* whatever order and number they come: the state, the type, the class, the
\* location and the code that is printed, each ST: of a response, and the
\* location that is queued.
THEOREM ReportsWhatLinesSay == Spec => []ReportsAsReference
<1>1. ReportsInv => ReportsAsReference
  BY DEF ReportsInv
<1> QED
  BY <1>1, ReportsInvariant, PTL

\* What ends the plugin is in the message: it is empty, a header that is not
\* tested has no value, or it is a response whose last status line, wherever
\* that stands, is a single word.
THEOREM CrashesAreExplained == Spec => []CrashOnlyWithoutValue
<1>1. ReportsInv => CrashOnlyWithoutValue
  BY DEF ReportsInv
<1> QED
  BY <1>1, ReportsInvariant, PTL
=============================================================================
