----------------------------- MODULE XmlRetrieval -----------------------------
(***************************************************************************)
(* The XML thread of the SSDP plugin in its own steps: ssdp_retrieve_xml() *)
(* downloads each queued location into one file and                        *)
(* execute_xpath_expression() parses that file.  Every call may fail, and  *)
(* what has been taken by then has to be given back.  Module SsdpPair has  *)
(* the thread that queues the locations.                                   *)
(***************************************************************************)
EXTENDS Integers, Sequences

CONSTANT MaxNodes   \* bound on the nodes an expression selects

ASSUME MaxNodesAssumption == MaxNodes \in Nat

\* What the thread opens or allocates; "list" is the copy of the namespaces.
Resource == {"outfile", "curl", "doc", "context", "list", "object"}

\* How much of a description has been written.
Extent == {"nothing", "part", "all"}

VARIABLES
  xml_q,       \* GAsyncQueue of locations
  tried,       \* locations the thread is done with (history)
  xmlPc, url,  \* control point of the thread, the location it works on
  held,        \* the resources it has
  buffered,    \* what the download has written to the stream
  disk,        \* whose description the file on disk has how much of
  doc,         \* whose description has been parsed, 0 for none
  nodes        \* selected nodes that are not printed yet

workVars == <<held, buffered, disk, doc, nodes>>
xmlVars == <<tried, xmlPc, url, workVars>>

\* The file may be one of an earlier run of the program, 0.
XmlInit ==
  /\ xml_q = <<>>
  /\ tried = <<>>
  /\ xmlPc = "pop"
  /\ url = 0
  /\ held = {}
  /\ buffered = "nothing"
  /\ disk \in [of : {0}, extent : {"nothing", "all"}]
  /\ doc = 0
  /\ nodes = 0

XmlGoto(label) == xmlPc' = label /\ UNCHANGED <<xml_q, tried, url>>

\* Back to the head of the loop.
NextLocation ==
  /\ xmlPc' = "pop"
  /\ tried' = Append(tried, url)
  /\ url' = 0
  /\ UNCHANGED xml_q

-----------------------------------------------------------------------------
(* ssdp_retrieve_xml()                                                     *)

PopLocation ==
  /\ xmlPc = "pop"
  /\ xml_q # <<>>
  /\ url' = Head(xml_q)
  /\ xml_q' = Tail(xml_q)
  /\ xmlPc' = "open"
  /\ UNCHANGED <<tried, workVars>>

\* fopen(outname, "w") truncates the file, or fails and leaves it as it is.
OpenFile ==
  /\ xmlPc = "open"
  /\ \/ /\ held' = held \cup {"outfile"}
        /\ disk' = [of |-> url, extent |-> "nothing"]
        /\ XmlGoto("init")
     \/ NextLocation /\ UNCHANGED <<held, disk>>
  /\ buffered' = "nothing"
  /\ UNCHANGED <<doc, nodes>>

\* curl_easy_init() may return NULL, with which every later call fails.
InitCurl ==
  /\ xmlPc = "init"
  /\ held' \in {held, held \cup {"curl"}}
  /\ XmlGoto("perform")
  /\ UNCHANGED <<buffered, disk, doc, nodes>>

\* curl_easy_perform() waits for the device, without a limit.
Downloading == xmlPc = "perform" /\ "curl" \in held

\* A failed download is reported; what it wrote is in the stream.
Perform ==
  /\ xmlPc = "perform"
  /\ buffered' \in IF "curl" \in held THEN Extent ELSE {"nothing"}
  /\ held' = held \ {"curl"}
  /\ XmlGoto("close")
  /\ UNCHANGED <<disk, doc, nodes>>

\* Fault: the stream is never closed, and its buffer not written.
CloseFileForgotten ==
  /\ xmlPc = "close"
  /\ XmlGoto("parse")
  /\ UNCHANGED workVars

\* fclose() writes what is buffered.
CloseFile ==
  /\ xmlPc = "close"
  /\ disk' = [disk EXCEPT !.extent = buffered]
  /\ held' = held \ {"outfile"}
  /\ XmlGoto("parse")
  /\ UNCHANGED <<buffered, doc, nodes>>

-----------------------------------------------------------------------------
(* execute_xpath_expression()                                              *)

\* Fault: what does not parse is downloaded again.
ParseFileRetries ==
  /\ xmlPc = "parse"
  /\ \/ /\ disk.extent = "all"
        /\ doc' = disk.of
        /\ held' = held \cup {"doc"}
        /\ XmlGoto("context")
     \/ XmlGoto("open") /\ UNCHANGED <<doc, held>>
  /\ UNCHANGED <<buffered, disk, nodes>>

\* Only a whole document may parse.
ParseFile ==
  /\ xmlPc = "parse"
  /\ \/ /\ disk.extent = "all"
        /\ doc' = disk.of
        /\ held' = held \cup {"doc"}
        /\ XmlGoto("context")
     \/ NextLocation /\ UNCHANGED <<doc, held>>
  /\ UNCHANGED <<buffered, disk, nodes>>

\* A call that takes one more resource, or gives back those of freed and
\* returns -1.
Take(label, resource, next, freed) ==
  /\ xmlPc = label
  /\ \/ /\ held' = held \cup {resource}
        /\ XmlGoto(next)
        /\ UNCHANGED doc
     \/ /\ held' = held \ freed
        /\ doc' = 0
        /\ NextLocation
  /\ UNCHANGED <<buffered, disk, nodes>>

NewContext == Take("context", "context", "duplicate", {"doc"})

DupNamespaces == Take("duplicate", "list", "register", {"context", "doc"})

\* Fault: a namespace that cannot be registered leaves the list behind.
RegisterNamespacesLeaks ==
  /\ xmlPc = "register"
  /\ \/ held' = held \ {"list"} /\ XmlGoto("evaluate") /\ UNCHANGED doc
     \/ held' = held \ {"context", "doc"} /\ doc' = 0 /\ NextLocation
  /\ UNCHANGED <<buffered, disk, nodes>>

\* The one namespace the program passes is registered, or that fails; the
\* list is freed in both cases, by register_namespaces() itself.
RegisterNamespaces ==
  /\ xmlPc = "register"
  /\ \/ held' = held \ {"list"} /\ XmlGoto("evaluate") /\ UNCHANGED doc
     \/ held' = held \ {"list", "context", "doc"} /\ doc' = 0 /\ NextLocation
  /\ UNCHANGED <<buffered, disk, nodes>>

Evaluate == Take("evaluate", "object", "result", {"context", "doc"})

\* print_xpath_nodes(): the heading with the number of nodes, then each.
PrintHeading ==
  /\ xmlPc = "result"
  /\ nodes' \in 0 .. MaxNodes
  /\ XmlGoto("nodes")
  /\ UNCHANGED <<held, buffered, disk, doc>>

PrintNode ==
  /\ xmlPc = "nodes"
  /\ nodes > 0
  /\ nodes' = nodes - 1
  /\ XmlGoto("nodes")
  /\ UNCHANGED <<held, buffered, disk, doc>>

Cleanup ==
  /\ xmlPc = "nodes"
  /\ nodes = 0
  /\ held' = held \ {"object", "context", "doc"}
  /\ doc' = 0
  /\ NextLocation
  /\ UNCHANGED <<buffered, disk, nodes>>

RetrieveXml ==
  \/ PopLocation \/ OpenFile \/ InitCurl \/ Perform \/ CloseFile
  \/ ParseFile \/ NewContext \/ DupNamespaces \/ RegisterNamespaces \/ Evaluate
  \/ PrintHeading \/ PrintNode \/ Cleanup

-----------------------------------------------------------------------------
(* Properties                                                              *)

XmlTypeOK ==
  /\ xmlPc \in {"pop", "open", "init", "perform", "close", "parse", "context",
                "duplicate", "register", "evaluate", "result", "nodes"}
  /\ {url, doc} \subseteq Nat
  /\ held \subseteq Resource
  /\ buffered \in Extent
  /\ disk \in [of : Nat, extent : Extent]
  /\ nodes \in 0 .. MaxNodes

\* Whichever call fails, the thread waits for its next location with nothing
\* in its hands and nothing left to print; and no object or context outlives
\* the document it points into.
NothingLeftBehind ==
  /\ xmlPc = "pop" => held = {} /\ nodes = 0 /\ doc = 0
  /\ held \cap {"object", "context"} # {} => "doc" \in held
  /\ "object" \in held => "context" \in held

\* The file is read after it has been closed, and what is parsed is the
\* description of the location at hand: not the one before it, nor one an
\* earlier run has left on disk.
OwnDescription ==
  /\ xmlPc \in {"parse", "context"} => held \cap {"outfile", "curl"} = {}
  /\ doc # 0 => doc = url /\ disk = [of |-> url, extent |-> "all"]
  /\ xmlPc = "parse" => disk.of = url
=============================================================================
