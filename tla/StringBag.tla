------------------------------ MODULE StringBag ------------------------------
(***************************************************************************)
(* ztl_string_bag_create() of zt-utils.c splits a text in place: lines end *)
(* with CR LF, words with a space, and an empty line ends the text.        *)
(* ztl_string_bag_dump() then prints the bag.                              *)
(***************************************************************************)
EXTENDS Naturals, Sequences, FiniteSets

CONSTANTS
  MaxText,      \* bound on the length of a text
  LineBuffer    \* size of line_buffer in ztl_string_bag_dump(), 512

ASSUME MaxTextAssumption == MaxText \in Nat
ASSUME LineBufferAssumption == LineBuffer \in Nat

\* What the code tells apart: space, CR, LF and the rest.
Char == {"sp", "cr", "lf", "x"}
Text == UNION {[1 .. n -> Char] : n \in 0 .. MaxText}

\* Positions of the CR of each CR LF.
Breaks(t) == {p \in 1 .. (Len(t) - 1) : t[p] = "cr" /\ t[p + 1] = "lf"}

\* The position of an empty line: a break at the start or right after one.
EmptyLines(t) == {p \in Breaks(t) : p = 1 \/ p - 2 \in Breaks(t)}

VARIABLES
  text,    \* the payload
  dup,     \* its copy, in which "nul" replaces what ends a word
  i, a,    \* the scanner and the start of the current word
  words,   \* where the words of the current line start, 0 for NULL
  lines,   \* the lines so far, each a sequence of such words
  pc,      \* control point: scan, bag, dump, done, crash or overread
  line,    \* line ztl_string_bag_dump() is at; it never gets past one
  used     \* characters in its line_buffer

scanVars == <<dup, i, a, words, lines>>
vars == <<text, scanVars, pc, line, used>>

\* The payload of a packet may be anything.
Init ==
  /\ text \in Text
  /\ dup = text
  /\ i = 1
  /\ a = 1
  /\ words = <<>>
  /\ lines = <<>>
  /\ pc = "scan"
  /\ line = 1
  /\ used = 0

\* The parser is not told the length of the copy.
In(p) == p <= Len(dup)
IsBreak(p) == dup[p] = "cr" /\ In(p + 1) /\ dup[p + 1] = "lf"

\* The tests of zt_create_line_tokens() look one and two characters ahead.
ReadsPastEnd ==
  In(i) => /\ dup[i] \in {"sp", "cr"}
           /\ In(i + 1) => dup[i] = "sp" /\ dup[i + 1] = "cr" /\ ~In(i + 2)

\* Fault: a space ends a word even right before the end of the line.
EndWordBeforeBreak ==
  /\ pc = "scan" /\ ~ReadsPastEnd
  /\ dup[i] = "sp"
  /\ dup' = [dup EXCEPT ![i] = "nul"]
  /\ words' = Append(words, a)
  /\ i' = i + 1
  /\ a' = i + 1
  /\ UNCHANGED <<text, lines, pc, line, used>>

\* A space ends a word unless the line ends right after it.
EndWord ==
  /\ pc = "scan" /\ ~ReadsPastEnd
  /\ dup[i] = "sp" /\ ~IsBreak(i + 1)
  /\ dup' = [dup EXCEPT ![i] = "nul"]
  /\ words' = Append(words, a)
  /\ i' = i + 1
  /\ a' = i + 1
  /\ UNCHANGED <<text, lines, pc, line, used>>

\* A line that ends with the given words left over and next word.
EndLineWith(left, start) ==
  /\ pc = "scan" /\ ~ReadsPastEnd
  /\ IsBreak(i)
  /\ dup' = [dup EXCEPT ![i] = "nul"]
  /\ lines' = Append(lines, Append(words, IF a = i THEN 0 ELSE a))
  /\ words' = left
  /\ pc' = IF a = i THEN "bag" ELSE "scan"
  /\ i' = i + 2
  /\ a' = start
  /\ UNCHANGED <<text, line, used>>

\* Fault: the words of a line are those of the lines before it as well.
EndLineKeepsWords == EndLineWith(Append(words, a), i + 2)

\* Fault: the next line starts with the LF.
EndLineAtLf == EndLineWith(<<>>, i + 1)

\* A CR LF ends the line; when it ends an empty one it ends the text.
EndLine ==
  /\ pc = "scan" /\ ~ReadsPastEnd
  /\ IsBreak(i)
  /\ dup' = [dup EXCEPT ![i] = "nul"]
  /\ lines' = Append(lines, Append(words, IF a = i THEN 0 ELSE a))
  /\ words' = <<>>
  /\ pc' = IF a = i THEN "bag" ELSE "scan"
  /\ i' = i + 2
  /\ a' = i + 2
  /\ UNCHANGED <<text, line, used>>

Advance ==
  /\ pc = "scan" /\ ~ReadsPastEnd
  /\ ~(dup[i] = "sp" /\ ~IsBreak(i + 1))
  /\ ~IsBreak(i)
  /\ i' = i + 1
  /\ UNCHANGED <<text, dup, a, words, lines, pc, line, used>>

Overread ==
  /\ pc = "scan" /\ ReadsPastEnd
  /\ pc' = "overread"
  /\ UNCHANGED <<text, scanVars, line, used>>

\* The callers look the bag up and destroy it, or dump it first.
UseBag ==
  /\ pc = "bag"
  /\ pc' \in {"dump", "done"}
  /\ UNCHANGED <<text, scanVars, line, used>>

\* The string a word pointer leads to, up to its NUL.
WordAt(p) ==
  LET end == CHOOSE e \in p .. Len(dup) :
               dup[e] = "nul" /\ \A k \in p .. (e - 1) : dup[k] # "nul"
  IN SubSeq(dup, p, end - 1)

\* The loop over the words of a line tests and copies *(bag+i)[j], but j
\* stays 0: the first word is added until line_buffer overflows.
DumpWord ==
  /\ pc = "dump"
  /\ lines[line][1] # 0
  /\ LET after == used + Len(WordAt(lines[line][1])) + 2
     IN /\ used' = IF after < LineBuffer THEN after ELSE used
        /\ pc' = IF after < LineBuffer THEN "dump" ELSE "crash"
  /\ UNCHANGED <<text, scanVars, line>>

\* A line without a first word leaves line_buffer empty: strrchr() finds no
\* comma and its NULL result is written through.
DumpEmptyLine ==
  /\ pc = "dump"
  /\ lines[line][1] = 0
  /\ pc' = "crash"
  /\ UNCHANGED <<text, scanVars, line, used>>

Done == pc \in {"done", "crash", "overread"} /\ UNCHANGED vars

Next ==
  \/ EndWord \/ EndLine \/ Advance \/ Overread
  \/ UseBag \/ DumpWord \/ DumpEmptyLine \/ Done

Spec == Init /\ [][Next]_vars /\ WF_vars(Next)

-----------------------------------------------------------------------------
(* Properties                                                              *)

\* The numbers of a set in ascending order: the k-th has k - 1 others below it.
InOrder(S) ==
  [k \in 1 .. Cardinality(S) |->
     CHOOSE p \in {q \in S : Cardinality({r \in S : r < q}) = k - 1} : TRUE]

\* Reference definition.  The breaks up to the first empty line end the
\* lines; line k starts after break k-1.
LineEnds(t) ==
  InOrder({p \in Breaks(t) : \A e \in EmptyLines(t) : p <= e})
LineStart(t, k) == IF k = 1 THEN 1 ELSE LineEnds(t)[k - 1] + 2

\* The words of the line from b to just before its break at e: it is cut at
\* every space but one at its very end.
WordsOf(t, b, e) ==
  LET cuts == InOrder({p \in b .. (e - 2) : t[p] = "sp"} \cup {e})
  IN [k \in 1 .. Len(cuts) |->
        SubSeq(t, IF k = 1 THEN b ELSE cuts[k - 1] + 1, cuts[k] - 1)]

Reference(t) ==
  [k \in 1 .. Len(LineEnds(t)) |->
     WordsOf(t, LineStart(t, k), LineEnds(t)[k])]

\* The words of the bag as strings; NULL reads as no word at all, which the
\* reference writes as one empty word.
BagWords ==
  [k \in 1 .. Len(lines) |->
     [w \in 1 .. Len(lines[k]) |->
        IF lines[k][w] = 0 THEN <<>> ELSE WordAt(lines[k][w])]]

\* The bag holds the words of the text, line by line, up to the first empty
\* line: the cuts made in place never change a word cut before.  Only the last
\* line starts with NULL, which is what the dissectors' loops stop at; an
\* empty first word is not NULL.
SplitsAsReference ==
  pc = "bag" =>
    /\ BagWords = Reference(text)
    /\ \A k \in 1 .. Len(lines) : lines[k][1] = 0 <=> k = Len(lines)

\* The parser has no other end than an empty line.  It reads past its copy
\* of exactly those texts that have none: with one, not even its two
\* characters of lookahead leave the copy.
OverreadsWithoutEmptyLine ==
  /\ pc = "overread" => EmptyLines(text) = {}
  /\ pc = "bag" => EmptyLines(text) # {}

\* zt-utils.c:149 calls the dump a "Utility function to display text dump of
\* entire string bag": it gets to the end of the bag.
DumpCompletes == pc = "dump" ~> (line > Len(lines))
=============================================================================
