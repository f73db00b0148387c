------------------------------ MODULE PluginCore ------------------------------
(***************************************************************************)
(* The plugin loader of plugin-core.c: load_plugins() walks the directory, *)
(* load_plugin_file() opens, initialises and registers one file, and       *)
(* unload_plugins() closes and frees every registered plugin.  All of it   *)
(* runs on the main thread.                                                *)
(***************************************************************************)
EXTENDS Naturals, Sequences

CONSTANT NFiles   \* entries scandir() returns, without "." and ".."

ASSUME NFilesAssumption == NFiles \in Nat

\* A directory entry is its position in the alphasort() order.
File == 1 .. NFiles

\* What init_plugin() returns; "absent" when the file does not define it or
\* no file has got that far.
InitResult == {"absent", "negative", "zero", "positive"}

VARIABLES
  loadPc,         \* control point of the loader
  entry,          \* i, the entry load_plugins() is at
  plugin_list,    \* _g_plugin_list, from its head
  current,        \* position of unload_plugins() in the list
  opened,         \* files with a dlopen() handle not yet dlclose()d
  allocated,      \* files whose zt_plugin node is malloc()ed and not freed
  pi_list_mutex,  \* TRUE while the mutex is held
  success_loads,
  failed_loads,
  init_ret        \* what init_plugin() of the file being loaded returned

loaderVars == <<loadPc, entry, plugin_list, current, opened, allocated,
                pi_list_mutex, success_loads, failed_loads, init_ret>>

LoaderInit ==
  /\ loadPc = "start"
  /\ entry = 1
  /\ plugin_list = <<>>
  /\ current = 1
  /\ opened = {}
  /\ allocated = {}
  /\ pi_list_mutex = FALSE
  /\ success_loads = 0
  /\ failed_loads = 0
  /\ init_ret = "absent"

-----------------------------------------------------------------------------
(* load_plugins() and load_plugin_file()                                   *)

\* getcwd() or scandir() may fail, which ends the program.
ScanDir ==
  /\ loadPc = "start"
  /\ loadPc' \in {"scan", "exit1"}
  /\ UNCHANGED <<entry, plugin_list, current, opened, allocated,
                 pi_list_mutex, success_loads, failed_loads, init_ret>>

\* A name that does not end in ".so".
SkipEntry ==
  /\ loadPc = "scan"
  /\ entry <= NFiles
  /\ entry' = entry + 1
  /\ UNCHANGED <<loadPc, plugin_list, current, opened, allocated,
                 pi_list_mutex, success_loads, failed_loads, init_ret>>

LockList ==
  /\ loadPc = "scan"
  /\ entry <= NFiles
  /\ ~pi_list_mutex
  /\ pi_list_mutex' = TRUE
  /\ loadPc' = "dlopen"
  /\ UNCHANGED <<entry, plugin_list, current, opened, allocated,
                 success_loads, failed_loads, init_ret>>

\* "return -1": unlock, count the failure, go on with the next entry.
GiveUpEntry ==
  /\ pi_list_mutex' = FALSE
  /\ failed_loads' = failed_loads + 1
  /\ entry' = entry + 1
  /\ loadPc' = "scan"
  /\ init_ret' = "absent"
  /\ UNCHANGED <<plugin_list, current, success_loads>>

\* Fault: the early return after a failed dlopen() forgets the mutex.
DlOpenKeepsLock ==
  /\ loadPc = "dlopen"
  /\ \/ /\ opened' = opened \cup {entry}
        /\ loadPc' = "init"
        /\ UNCHANGED <<entry, failed_loads>>
     \/ /\ failed_loads' = failed_loads + 1
        /\ entry' = entry + 1
        /\ loadPc' = "scan"
        /\ UNCHANGED opened
  /\ UNCHANGED <<plugin_list, current, allocated, pi_list_mutex, success_loads, init_ret>>

DlOpen ==
  /\ loadPc = "dlopen"
  /\ \/ /\ opened' = opened \cup {entry}
        /\ loadPc' = "init"
        /\ UNCHANGED <<entry, plugin_list, current, pi_list_mutex,
                       success_loads, failed_loads, init_ret>>
     \/ /\ GiveUpEntry
        /\ UNCHANGED opened
  /\ UNCHANGED allocated

\* The routine runs if the file defines one.
CallInit ==
  /\ loadPc = "init"
  /\ init_ret' \in InitResult
  /\ loadPc' = "tested"
  /\ UNCHANGED <<entry, plugin_list, current, opened, allocated,
                 pi_list_mutex, success_loads, failed_loads>>

\* Only a negative result rejects the plugin.
TestInit ==
  /\ loadPc = "tested"
  /\ \/ /\ init_ret = "negative"
        /\ opened' = opened \ {entry}
        /\ GiveUpEntry
     \/ /\ init_ret # "negative"
        /\ loadPc' = "alloc"
        /\ UNCHANGED <<entry, plugin_list, current, opened, pi_list_mutex,
                       success_loads, failed_loads, init_ret>>
  /\ UNCHANGED allocated

\* malloc() of the list node; its failure ends the program.
AllocNode ==
  /\ loadPc = "alloc"
  /\ \/ /\ allocated' = allocated \cup {entry}
        /\ loadPc' = "manifest"
        /\ UNCHANGED pi_list_mutex
     \/ /\ loadPc' = "exit1"
        /\ pi_list_mutex' = FALSE
        /\ UNCHANGED allocated
  /\ UNCHANGED <<entry, plugin_list, current, opened, success_loads,
                 failed_loads, init_ret>>

\* Registering the file, with the list and the open handles it leads to.
RegisterAs(list, handles) ==
  /\ plugin_list' = list
  /\ opened' = handles
  /\ success_loads' = success_loads + 1
  /\ pi_list_mutex' = FALSE
  /\ entry' = entry + 1
  /\ loadPc' = "scan"
  /\ init_ret' = "absent"
  /\ UNCHANGED <<current, allocated, failed_loads>>

\* Fault: a file without a manifest stays open.
ResolveManifestKeepsHandle ==
  /\ loadPc = "manifest"
  /\ \/ RegisterAs(Append(plugin_list, entry), opened)
     \/ GiveUpEntry /\ allocated' = allocated \ {entry} /\ UNCHANGED opened

\* Fault: the handle is closed once its symbols are resolved.
ResolveManifestClosesHandle ==
  /\ loadPc = "manifest"
  /\ \/ RegisterAs(Append(plugin_list, entry), opened \ {entry})
     \/ /\ GiveUpEntry
        /\ allocated' = allocated \ {entry}
        /\ opened' = opened \ {entry}

\* Fault: the new node becomes the head of the list.
ResolveManifestPrepends ==
  /\ loadPc = "manifest"
  /\ \/ RegisterAs(<<entry>> \o plugin_list, opened)
     \/ /\ GiveUpEntry
        /\ allocated' = allocated \ {entry}
        /\ opened' = opened \ {entry}

\* With a manifest the node goes to the tail of the list, without one the
\* handle is closed and the node freed.
ResolveManifest ==
  /\ loadPc = "manifest"
  /\ \/ /\ plugin_list' = Append(plugin_list, entry)
        /\ success_loads' = success_loads + 1
        /\ pi_list_mutex' = FALSE
        /\ entry' = entry + 1
        /\ loadPc' = "scan"
        /\ init_ret' = "absent"
        /\ UNCHANGED <<current, opened, allocated, failed_loads>>
     \/ /\ opened' = opened \ {entry}
        /\ allocated' = allocated \ {entry}
        /\ GiveUpEntry

\* Fault: the program gives up only when no file was tried at all.
FinishScanIgnoresFailures ==
  /\ loadPc = "scan"
  /\ entry > NFiles
  /\ loadPc' = IF success_loads + failed_loads = 0 THEN "exit1" ELSE "ready"
  /\ UNCHANGED <<entry, plugin_list, current, opened, allocated,
                 pi_list_mutex, success_loads, failed_loads, init_ret>>

\* With no plugin loaded the program exits.
FinishScan ==
  /\ loadPc = "scan"
  /\ entry > NFiles
  /\ loadPc' = IF success_loads = 0 THEN "exit1" ELSE "ready"
  /\ UNCHANGED <<entry, plugin_list, current, opened, allocated,
                 pi_list_mutex, success_loads, failed_loads, init_ret>>

LoadPlugins ==
  \/ ScanDir \/ SkipEntry \/ LockList \/ DlOpen \/ CallInit \/ TestInit
  \/ AllocNode \/ ResolveManifest \/ FinishScan

-----------------------------------------------------------------------------
(* unload_plugins()                                                        *)

\* The do-while reads the head node before it tests it: an empty list is a
\* NULL dereference.
BeginUnload ==
  /\ loadPc = "ready"
  /\ ~pi_list_mutex
  /\ pi_list_mutex' = TRUE
  /\ loadPc' = IF plugin_list = <<>> THEN "crash" ELSE "unload"
  /\ UNCHANGED <<entry, plugin_list, current, opened, allocated,
                 success_loads, failed_loads, init_ret>>

\* _g_plugin_list itself is left pointing at the freed nodes.
UnloadOne ==
  /\ loadPc = "unload"
  /\ opened' = opened \ {plugin_list[current]}
  /\ allocated' = allocated \ {plugin_list[current]}
  /\ current' = current + 1
  /\ loadPc' = IF current = Len(plugin_list) THEN "unloaded" ELSE "unload"
  /\ pi_list_mutex' = (current # Len(plugin_list))
  /\ UNCHANGED <<entry, plugin_list, success_loads, failed_loads, init_ret>>

UnloadPlugins == BeginUnload \/ UnloadOne

\* main() has returned from load_plugins() and from unload_plugins(), or
\* the program has ended: nothing is left to do.
LoaderDone ==
  /\ loadPc \in {"unloaded", "exit1"}
  /\ UNCHANGED loaderVars

LoaderNext == LoadPlugins \/ UnloadPlugins \/ LoaderDone

LoaderSpec == LoaderInit /\ [][LoaderNext]_loaderVars

-----------------------------------------------------------------------------
(* Properties                                                              *)

LoaderTypeOK ==
  /\ loadPc \in {"start", "scan", "dlopen", "init", "tested", "alloc",
                 "manifest", "ready", "unload", "unloaded", "exit1"}
  /\ entry \in 1 .. (NFiles + 1)
  /\ plugin_list \in Seq(File)
  /\ current \in 1 .. (Len(plugin_list) + 1)
  /\ opened \subseteq File
  /\ allocated \subseteq File
  /\ pi_list_mutex \in BOOLEAN
  /\ success_loads \in Nat
  /\ failed_loads \in Nat
  /\ init_ret \in InitResult

\* Files whose node is in the list at or after position k.
ListedFrom(k) == {plugin_list[j] : j \in {j \in DOMAIN plugin_list : j >= k}}

\* The file load_plugin_file() has opened, or allocated a node for, and has
\* not decided on yet.
InFlight(points) == IF loadPc \in points THEN {entry} ELSE {}

\* Every failure path gives back what it took: the open handles and the
\* allocated nodes are those of the listed plugins that are not unloaded
\* yet, plus those of the one file being loaded.  (exit(1) leaves that one's
\* handle open.)
HandlesOwned ==
  /\ loadPc # "exit1" =>
       opened = ListedFrom(current) \cup InFlight({"init", "tested", "alloc", "manifest"})
  /\ allocated = ListedFrom(current) \cup InFlight({"manifest"})

\* The list follows the directory order, lists no file twice and no file
\* that has not been tried, and the counters printed at the end tell how
\* many of the tried files are in it.
ListAccounted ==
  /\ \A i, j \in DOMAIN plugin_list : i < j => plugin_list[i] < plugin_list[j]
  /\ \A i \in DOMAIN plugin_list : plugin_list[i] < entry
  /\ success_loads = Len(plugin_list)
  /\ success_loads + failed_loads < entry

\* pi_list_mutex is held exactly inside load_plugin_file() and
\* unload_plugins(): no return path forgets it, which would block the load
\* of the next file for ever.
MutexBalanced ==
  pi_list_mutex <=> loadPc \in
    {"dlopen", "init", "tested", "alloc", "manifest", "unload"}

\* unload_plugins() is only reached with a non-empty list, which its
\* do-while relies on.
UnloadFindsPlugin ==
  loadPc \in {"ready", "unload", "unloaded"} => plugin_list # <<>>

\* Whatever fails while files are loaded, the loader owns just what the list
\* and the file in hand need, has left its mutex for the next file, and never
\* starts to unload an empty list.
LoaderSafe == HandlesOwned /\ MutexBalanced /\ UnloadFindsPlugin
=============================================================================
