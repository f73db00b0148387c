----------------------------- MODULE SsdpDissector -----------------------------
(***************************************************************************)
(* ssdp_process() of ssdp.c with the two functions of ssdp-util.c that cut *)
(* a URN into its type and its class: one message, line by line, and what  *)
(* is printed about it.                                                    *)
(*                                                                         *)
(* A line is its first and its second word; a line of a single word has    *)
(* NULL for the second, behind which the bag's array ends.  A text is a    *)
(* sequence of tokens: ":" and "$" are the characters the code looks for,  *)
(* the other tokens are words without them.  The empty line that ends the  *)
(* bag is left out.                                                        *)
(***************************************************************************)
EXTENDS Naturals, SequencesExt

CONSTANTS
  Word,       \* words that texts are made of
  Text,       \* values of header lines
  MaxLines    \* bound on the lines after the first

ASSUME MaxLinesAssumption == MaxLines \in Nat

ROOT == <<"upnp", ":", "rootdevice">>
DEVICE == <<"urn", ":", "schemas-upnp-org", ":", "device", ":">>
SERVICE == <<"urn", ":", "schemas-upnp-org", ":", "service", ":">>
ALIVE == <<"ssdp", ":", "alive">>
BYEBYE == <<"ssdp", ":", "byebye">>

NULL == <<"NULL">>

ASSUME TextAssumption ==
  /\ Text \subseteq Seq(Word \cup {":", "$"})
  /\ NULL \notin Text

\* The first line: its first word; "empty" when it is the line that ends the
\* bag, "bare" when nothing follows the HTTP version.
Kind == {"M-SEARCH", "NOTIFY", "HTTP/1.1", "bare", "other", "empty"}

Line == [head : {"HTTP/1.1", "ST:", "NT:", "NTS:", "USN:", "LOCATION:", "other"},
         value : Text \cup {NULL}]

-----------------------------------------------------------------------------
(* ssdp-util.c                                                             *)

\* strrchr(), 0 for NULL.
LastOf(char, text) == Max({0} \cup {p \in DOMAIN text : text[p] = char})

\* strstr() finds part.
Occurs(part, text) ==
  \E p \in DOMAIN text : IsPrefix(part, SubSeq(text, p, Len(text)))

\* The name of a type, or "urn" when the function returns its argument.
ssdp_shorten_urn_type(urn) ==
  IF urn = ROOT THEN "UPnp-RootDevice"
  ELSE IF Occurs(DEVICE, urn) THEN "U-PnP Device"
  ELSE IF Occurs(SERVICE, urn) THEN "U-PnP Service"
  ELSE "urn"

\* Fault: the ':' that was overwritten is not put back.
ssdp_shorten_urn_classKeepsDollar(urn) ==
  LET cut == [urn EXCEPT ![LastOf(":", urn)] = "$"]
      start == LastOf(":", cut)
  IN IF LastOf(":", urn) = 0 THEN [class |-> NULL, urn |-> urn]
     ELSE IF start = 0 THEN [class |-> NULL, urn |-> cut]
     ELSE [class |-> SubSeq(cut, start + 1, Len(cut)), urn |-> cut]

\* The class, and what becomes of the text it points into: the last ':' is
\* overwritten to find the one before it, then the last '$' becomes a ':'.
ssdp_shorten_urn_class(urn) ==
  LET cut == [urn EXCEPT ![LastOf(":", urn)] = "$"]
      start == LastOf(":", cut)
      back == [cut EXCEPT ![LastOf("$", cut)] = ":"]
  IN IF LastOf(":", urn) = 0 THEN [class |-> NULL, urn |-> urn]
     ELSE IF start = 0 THEN [class |-> NULL, urn |-> cut]
     ELSE [class |-> SubSeq(back, start + 1, Len(back)), urn |-> back]

-----------------------------------------------------------------------------
(* ssdp.c                                                                  *)

VARIABLES
  kind,      \* the first line
  lines,     \* the other lines as they were received
  text,      \* their second words as they are now
  line_num,  \* the line the loop is at
  type,      \* name of the type, and the line it points into
  class,     \* what the last call of ssdp_shorten_urn_class() returned
  state,     \* of a notification, "NULL" before an NTS line
  location,  \* the location, NULL before one is found
  retcode,   \* of a response, the second word of its last status line; NULL
             \* when retstatus was read past the end of that line
  xml_q,     \* what the message puts on the XML thread's queue
  out,       \* what is printed
  pc         \* "loop", "done" or "crash"

foundVars == <<type, class, state, location, retcode>>
vars == <<kind, lines, text, line_num, foundVars, xml_q, out, pc>>

\* What a response's loop has found when it is through with the first line.
FirstCode == IF kind = "HTTP/1.1" THEN <<"200">> ELSE NULL

Init ==
  /\ kind \in Kind
  /\ lines \in BoundedSeq(Line, MaxLines)
  /\ text = [n \in DOMAIN lines |-> lines[n].value]
  /\ line_num = 1
  /\ type = [name |-> "NULL", line |-> 0]
  /\ class = NULL
  /\ state = "NULL"
  /\ location = NULL
  /\ retcode = FirstCode
  /\ xml_q = <<>>
  /\ out = <<>>
  /\ pc = "loop"

AtLine(head) == line_num <= Len(lines) /\ lines[line_num].head = head
Value == text[line_num]
NextLine == line_num' = line_num + 1 /\ pc' = "loop"

\* A type that is not one of the names is the text itself, as it is by now.
TypeText(t, texts) == IF t.name = "urn" THEN texts[t.line] ELSE <<t.name>>

ztprint(what, t, c, l, texts) ==
  out' = Append(out, [what |-> what, type |-> TypeText(t, texts), class |-> c, at |-> l])

\* A function that reads a NULL text ends the program.
Crash == pc' = "crash" /\ UNCHANGED <<line_num, text, foundVars, xml_q, out>>

Classify ==
  LET r == ssdp_shorten_urn_class(Value)
  IN class' = r.class /\ text' = [text EXCEPT ![line_num] = r.urn]

TypeOfLine(urn) == type' = [name |-> ssdp_shorten_urn_type(urn), line |-> line_num]

\* The two calls are arguments of one ztprint(): either may come first.
SearchTarget ==
  /\ AtLine("ST:")
  /\ IF Value = NULL THEN Crash
     ELSE /\ Classify
          /\ TypeOfLine(Value) \/ TypeOfLine(text'[line_num])
          /\ ztprint("M-SEARCH", type', class', NULL, text')
          /\ pc' = "done"
          /\ UNCHANGED <<line_num, state, location, retcode, xml_q>>

SearchOther ==
  /\ line_num <= Len(lines) /\ ~AtLine("ST:")
  /\ NextLine
  /\ UNCHANGED <<text, foundVars, xml_q, out>>

SearchEnds ==
  /\ line_num > Len(lines)
  /\ pc' = "done"
  /\ UNCHANGED <<line_num, text, foundVars, xml_q, out>>

ssdp_subproc_search == SearchTarget \/ SearchOther \/ SearchEnds

\* Fault: the value is not tested.
NotifyTypeUnguarded ==
  /\ AtLine("NT:")
  /\ IF Value = NULL THEN Crash
     ELSE /\ TypeOfLine(Value)
          /\ Classify
          /\ NextLine
          /\ UNCHANGED <<state, location, retcode, xml_q, out>>

\* An NT: without a value is skipped.
NotifyType ==
  /\ AtLine("NT:") /\ Value # NULL
  /\ TypeOfLine(Value)
  /\ Classify
  /\ NextLine
  /\ UNCHANGED <<state, location, retcode, xml_q, out>>

StateOf(nts) == IF nts = ALIVE THEN "UP" ELSE IF nts = BYEBYE THEN "DOWN" ELSE "???"

NotifyState ==
  /\ AtLine("NTS:")
  /\ IF Value = NULL THEN Crash
     ELSE /\ state' = StateOf(Value)
          /\ NextLine
          /\ UNCHANGED <<text, type, class, location, retcode, xml_q, out>>

\* Fault: the first location is kept.
LocationLineKeepsFirst ==
  /\ AtLine("LOCATION:")
  /\ location' = IF location = NULL THEN Value ELSE location
  /\ NextLine
  /\ UNCHANGED <<text, type, class, state, retcode, xml_q, out>>

LocationLine ==
  /\ AtLine("LOCATION:")
  /\ location' = Value
  /\ NextLine
  /\ UNCHANGED <<text, type, class, state, retcode, xml_q, out>>

NotifyOther ==
  /\ \/ AtLine("HTTP/1.1") \/ AtLine("ST:") \/ AtLine("USN:") \/ AtLine("other")
     \/ AtLine("NT:") /\ Value = NULL
  /\ NextLine
  /\ UNCHANGED <<text, foundVars, xml_q, out>>

\* Fault: a notification without a state is reported, too.
NotifyEndsStateless ==
  /\ line_num > Len(lines)
  /\ IF type.name # "NULL" /\ class # NULL
       THEN ztprint(state, type, class, location, text)
       ELSE out' = Append(out, [what |-> "WHOA"])
  /\ pc' = "done"
  /\ UNCHANGED <<line_num, text, foundVars, xml_q>>

NotifyEnds ==
  /\ line_num > Len(lines)
  /\ IF type.name # "NULL" /\ class # NULL /\ state # "NULL"
       THEN ztprint(state, type, class, location, text)
       ELSE out' = Append(out, [what |-> "WHOA"])
  /\ pc' = "done"
  /\ UNCHANGED <<line_num, text, foundVars, xml_q>>

ssdp_subproc_notify ==
  NotifyType \/ NotifyState \/ LocationLine \/ NotifyOther \/ NotifyEnds

\* ST: and USN: are not tested for a value.
ResponseUrn ==
  /\ AtLine("ST:") \/ AtLine("USN:")
  /\ IF Value = NULL THEN Crash
     ELSE /\ TypeOfLine(Value)
          /\ Classify
          /\ NextLine
          /\ IF AtLine("ST:") THEN ztprint("FOUND", type', class', NULL, text')
             ELSE UNCHANGED out
          /\ UNCHANGED <<state, location, retcode, xml_q>>

\* Any line may be a status line.  Its third word, retstatus, is read whether
\* the line goes that far or not.
ResponseStatus ==
  /\ AtLine("HTTP/1.1")
  /\ retcode' = Value
  /\ NextLine
  /\ UNCHANGED <<text, type, class, state, location, xml_q, out>>

ResponseOther ==
  /\ AtLine("NT:") \/ AtLine("NTS:") \/ AtLine("other")
  /\ NextLine
  /\ UNCHANGED <<text, foundVars, xml_q, out>>

\* The status that is printed is line[2], past the end of a line of one word:
\* printing it may end the program.
ResponseEnds ==
  /\ line_num > Len(lines)
  /\ xml_q' = IF location = NULL THEN xml_q ELSE Append(xml_q, location)
  /\ \/ /\ pc' = "done"
        /\ out' = Append(out, [what |-> "RESPONSE", code |-> retcode,
                               type |-> TypeText(type, text), class |-> class,
                               at |-> location])
     \/ retcode = NULL /\ pc' = "crash" /\ UNCHANGED out
  /\ UNCHANGED <<line_num, text, foundVars>>

ssdp_subproc_response ==
  ResponseUrn \/ ResponseStatus \/ LocationLine \/ ResponseOther \/ ResponseEnds

\* A bag that starts with its last line has no first word to compare.
ssdp_process ==
  /\ pc = "loop"
  /\ \/ kind = "empty" /\ Crash
     \/ kind = "other" /\ pc' = "done" /\ UNCHANGED <<line_num, text, foundVars, xml_q, out>>
     \/ kind = "M-SEARCH" /\ ssdp_subproc_search
     \/ kind = "NOTIFY" /\ ssdp_subproc_notify
     \/ kind \in {"HTTP/1.1", "bare"} /\ ssdp_subproc_response
  /\ UNCHANGED <<kind, lines>>

\* The function has returned, or the program is dead.
Done == pc # "loop" /\ UNCHANGED vars

Next == ssdp_process \/ Done

Spec == Init /\ [][Next]_vars

-----------------------------------------------------------------------------
(* Properties                                                              *)

Colons(t) == {p \in DOMAIN t : t[p] = ":"}

\* The texts that do not survive the search for their class: the ones with a
\* single ':', and the ones with a '$' behind the last.
Spoilt(t) ==
  \/ Cardinality(Colons(t)) = 1
  \/ Colons(t) # {} /\ \E p \in DOMAIN t : p > Max(Colons(t)) /\ t[p] = "$"

\* Reference definition of the class: what follows the last colon but one.
ClassOf(t) ==
  LET last == Max(Colons(t))
  IN IF Cardinality(Colons(t)) < 2 THEN NULL
     ELSE SubSeq(t, Max(Colons(t) \ {last}) + 1, Len(t))

\* The lines of a header that have a value, the last of them and its value.
With(heads) == {n \in DOMAIN lines : lines[n].head \in heads /\ lines[n].value # NULL}
LastValue(heads) == lines[Max(With(heads))].value

\* The lines of which the message's kind makes the code take the class.
Classified ==
  {n \in DOMAIN lines :
     \/ kind = "M-SEARCH" /\ n \in With({"ST:"}) /\ \A m \in With({"ST:"}) : n <= m
     \/ kind = "NOTIFY" /\ n \in With({"NT:"})
     \/ kind \in {"HTTP/1.1", "bare"} /\ n \in With({"ST:", "USN:"})}

\* Cutting URNs in place changes the message exactly where its text is
\* malformed; no other line is touched, whatever stands before or after it.
ChangesOnlySpoilt ==
  pc = "done" =>
    \A n \in DOMAIN lines :
      text[n] # lines[n].value <=> n \in Classified /\ Spoilt(lines[n].value)

\* Reference definition of the type: its name, or the text that has none.
TypeOf(t) == IF ssdp_shorten_urn_type(t) = "urn" THEN t ELSE <<ssdp_shorten_urn_type(t)>>

\* What is printed says of a text that survives what the definitions say.
Describes(report, t) ==
  ~Spoilt(t) => report.type = TypeOf(t) /\ report.class = ClassOf(t)

\* The value of the last line of a header, NULL when that line has none.
LastOfHead(head, first) ==
  LET at == {n \in DOMAIN lines : lines[n].head = head}
  IN IF at = {} THEN first ELSE lines[Max(at)].value

LastLocation == LastOfHead("LOCATION:", NULL)

\* A search is reported with its first ST:, or not at all.
SearchAsReference ==
  (kind = "M-SEARCH" /\ pc = "done") =>
    IF Classified = {} THEN out = <<>>
    ELSE /\ Len(out) = 1 /\ out[1].what = "M-SEARCH"
         /\ \A n \in Classified : Describes(out[1], lines[n].value)

\* A notification is reported exactly when its last NT: has two colons and
\* there is an NTS:, and then with the state of the last NTS:, the type and the
\* class of that NT:, and the location of the last LOCATION:, which is none
\* if that line has no value.  (A root device's, with one colon, never is.)
NotifyAsReference ==
  (kind = "NOTIFY" /\ pc = "done") =>
    LET complete == /\ With({"NT:"}) # {} /\ With({"NTS:"}) # {}
                    /\ ClassOf(LastValue({"NT:"})) # NULL
    IN /\ Len(out) = 1
       /\ out[1].what = IF complete THEN StateOf(LastValue({"NTS:"})) ELSE "WHOA"
       /\ complete => Describes(out[1], LastValue({"NT:"})) /\ out[1].at = LastLocation

\* A response reports each ST: in its place and then itself, with the code of
\* its last status line, the type and the class of its last ST: or USN:, and
\* the location of its last LOCATION:.  That location goes to the XML thread,
\* unless the line has no value.
ResponseAsReference ==
  (kind \in {"HTTP/1.1", "bare"} /\ pc = "done") =>
    LET targets == With({"ST:"})
        place(n) == Cardinality({m \in targets : m <= n})
        last == Last(out)
    IN /\ Len(out) = Cardinality(targets) + 1
       /\ \A n \in targets :
            out[place(n)].what = "FOUND" /\ Describes(out[place(n)], lines[n].value)
       /\ last.what = "RESPONSE" /\ last.at = LastLocation
       /\ last.code = LastOfHead("HTTP/1.1", FirstCode)
       /\ IF With({"ST:", "USN:"}) = {} THEN last.type = NULL /\ last.class = NULL
          ELSE Describes(last, LastValue({"ST:", "USN:"}))
       /\ xml_q = IF LastLocation = NULL THEN <<>> ELSE <<LastLocation>>

\* What the plugin reports and queues is what the lines of the message say, in
\* whatever order and number they come: of a search the first, of the other
\* messages the last of each kind.  Only of the type and the class of a spoilt
\* text this says nothing.
ReportsAsReference == SearchAsReference /\ NotifyAsReference /\ ResponseAsReference

\* What can bring the plugin down: an empty message; a header without its value
\* of a kind the code does not test; and a response whose last status line,
\* which may be any of its lines, is a single word.
CrashOnlyWithoutValue ==
  pc = "crash" =>
    \/ kind = "empty"
    \/ kind \in {"HTTP/1.1", "bare"} /\ LastOfHead("HTTP/1.1", FirstCode) = NULL
    \/ \E n \in DOMAIN lines :
         /\ lines[n].value = NULL
         /\ \/ kind = "M-SEARCH" /\ lines[n].head = "ST:"
            \/ kind = "NOTIFY" /\ lines[n].head = "NTS:"
            \/ kind \in {"HTTP/1.1", "bare"} /\ lines[n].head \in {"ST:", "USN:"}
=============================================================================
