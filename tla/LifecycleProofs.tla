---------------------------- MODULE LifecycleProofs ----------------------------
(***************************************************************************)
(* Proofs about the plugin loader, for any number of directory entries,    *)
(* and about the life of the process, for any number of commands.          *)
(***************************************************************************)
EXTENDS Lifecycle, TLAPS

-----------------------------------------------------------------------------
(* The plugin loader                                                       *)

\* Control points between g_mutex_lock() and the decision on one file.
Loading == {"dlopen", "init", "tested", "alloc", "manifest"}

\* What the control point says of the two loop variables.
PhaseInv ==
  /\ loadPc \notin {"unload", "unloaded"} => current = 1
  /\ loadPc \in Loading => entry \in File
  /\ loadPc = "unload" => current <= Len(plugin_list)

\* LoaderTypeOK in two parts: the mutex, and the rest.
MutexTypeOK == pi_list_mutex \in BOOLEAN

DataTypeOK ==
  /\ loadPc \in {"start", "scan", "dlopen", "init", "tested", "alloc",
                 "manifest", "ready", "unload", "unloaded", "exit1"}
  /\ entry \in 1 .. (NFiles + 1)
  /\ plugin_list \in Seq(File)
  /\ current \in 1 .. (Len(plugin_list) + 1)
  /\ opened \subseteq File
  /\ allocated \subseteq File
  /\ success_loads \in Nat
  /\ failed_loads \in Nat
  /\ init_ret \in InitResult

LoaderInv ==
  /\ DataTypeOK
  /\ MutexTypeOK
  /\ PhaseInv
  /\ HandlesOwned
  /\ ListAccounted
  /\ MutexBalanced
  /\ UnloadFindsPlugin

-----------------------------------------------------------------------------
(* Lists                                                                   *)

\* Appending at the tail adds one file to those listed from the head on.
LEMMA ListedAppend ==
  ASSUME plugin_list \in Seq(File), NEW f \in File,
         plugin_list' = Append(plugin_list, f), current' = current, current = 1
  PROVE  ListedFrom(current)' = ListedFrom(current) \cup {f}
<1> DEFINE n == Len(plugin_list)
<1>1. /\ n \in Nat
      /\ DOMAIN plugin_list = 1 .. n
      /\ DOMAIN plugin_list' = 1 .. (n + 1)
      /\ \A i \in 1 .. n : plugin_list'[i] = plugin_list[i]
      /\ plugin_list'[n + 1] = f
  OBVIOUS
<1>2. ListedFrom(current) = {plugin_list[i] : i \in 1 .. n}
  BY <1>1 DEF ListedFrom
<1>3. ListedFrom(current)' = {plugin_list'[i] : i \in 1 .. (n + 1)}
  BY <1>1 DEF ListedFrom
<1> QED
  BY <1>1, <1>2, <1>3

\* In a list that never repeats a file, the files after position current are
\* those from it on without the one at it.
LEMMA ListedTail ==
  ASSUME plugin_list \in Seq(File), current \in DOMAIN plugin_list,
         plugin_list' = plugin_list, current' = current + 1,
         \A i, j \in DOMAIN plugin_list : i < j => plugin_list[i] < plugin_list[j]
  PROVE  ListedFrom(current)' = ListedFrom(current) \ {plugin_list[current]}
<1>1. /\ Len(plugin_list) \in Nat
      /\ DOMAIN plugin_list = 1 .. Len(plugin_list)
      /\ \A i \in DOMAIN plugin_list : plugin_list[i] \in Nat
  BY NFilesAssumption DEF File
<1>2. \A i \in DOMAIN plugin_list : i # current => plugin_list[i] # plugin_list[current]
  <2> SUFFICES ASSUME NEW i \in DOMAIN plugin_list, i # current
               PROVE  plugin_list[i] # plugin_list[current]
    OBVIOUS
  <2>1. CASE i < current
    BY <1>1, <2>1
  <2>2. CASE current < i
    BY <1>1, <2>2
  <2> QED
    BY <1>1, <2>1, <2>2
<1>3. \A i \in DOMAIN plugin_list : i >= current + 1 <=> i >= current /\ i # current
  BY <1>1
<1> QED
  BY <1>2, <1>3 DEF ListedFrom

\* An unloaded plugin leaves the list for good: no file is listed past its end.
LEMMA ListedPastEnd ==
  ASSUME plugin_list \in Seq(File), current = Len(plugin_list) + 1
  PROVE  ListedFrom(current) = {}
BY DEF ListedFrom

-----------------------------------------------------------------------------
(* The invariant                                                           *)

\* Before the first entry nothing is open, allocated, listed or locked.
LEMMA LoaderInitInv == LoaderInit => LoaderInv
<1> SUFFICES ASSUME LoaderInit
             PROVE  LoaderInv
  OBVIOUS
<1>1. DataTypeOK
  BY NFilesAssumption DEF LoaderInit, DataTypeOK, InitResult
<1>2. ListedFrom(current) = {}
  BY DEF LoaderInit, ListedFrom
<1>3. HandlesOwned
  BY <1>2 DEF LoaderInit, HandlesOwned, InFlight
<1>4. ListAccounted
  BY DEF LoaderInit, ListAccounted
<1>5. PhaseInv /\ MutexTypeOK /\ MutexBalanced /\ UnloadFindsPlugin
  BY DEF LoaderInit, PhaseInv, Loading, MutexTypeOK, MutexBalanced, UnloadFindsPlugin
<1> QED
  BY <1>1, <1>3, <1>4, <1>5 DEF LoaderInv

\* Every step of the loader and the unloader keeps the invariant.
LEMMA LoaderNextInv == LoaderInv /\ [LoaderNext]_loaderVars => LoaderInv'
<1> SUFFICES ASSUME LoaderInv, [LoaderNext]_loaderVars
             PROVE  LoaderInv'
  OBVIOUS
<1> USE NFilesAssumption
<1>t. DataTypeOK /\ PhaseInv /\ ListAccounted
  BY DEF LoaderInv
<1>u. entry \notin ListedFrom(current)
  BY <1>t DEF ListedFrom, ListAccounted, DataTypeOK, File
<1>1. CASE ScanDir
  <2>1. UNCHANGED <<plugin_list, current>>
    BY <1>1 DEF ScanDir
  <2>2. ListedFrom(current)' = ListedFrom(current)
    BY <2>1 DEF ListedFrom
  <2>3. DataTypeOK' /\ PhaseInv'
    BY <1>1, <1>t, <2>1 DEF ScanDir, DataTypeOK, PhaseInv, Loading, File, InitResult
  <2>4. HandlesOwned'
    BY <1>1, <1>t, <1>u, <2>2 DEF ScanDir, LoaderInv, HandlesOwned, InFlight, DataTypeOK
  <2>5. ListAccounted'
    BY <1>1, <1>t, <2>1 DEF ScanDir, ListAccounted, DataTypeOK, File
  <2>6. MutexTypeOK' /\ MutexBalanced'
    BY <1>1, <1>t DEF ScanDir, LoaderInv, MutexTypeOK, MutexBalanced, DataTypeOK
  <2>7. UnloadFindsPlugin'
    BY <1>1, <1>t, <2>1 DEF ScanDir, LoaderInv, UnloadFindsPlugin, ListAccounted, DataTypeOK
  <2> QED
    BY <2>3, <2>4, <2>5, <2>6, <2>7 DEF LoaderInv
<1>2. CASE SkipEntry
  <2>1. UNCHANGED <<plugin_list, current>>
    BY <1>2 DEF SkipEntry
  <2>2. ListedFrom(current)' = ListedFrom(current)
    BY <2>1 DEF ListedFrom
  <2>3. DataTypeOK' /\ PhaseInv'
    BY <1>2, <1>t, <2>1 DEF SkipEntry, DataTypeOK, PhaseInv, Loading, File, InitResult
  <2>4. HandlesOwned'
    BY <1>2, <1>t, <1>u, <2>2 DEF SkipEntry, LoaderInv, HandlesOwned, InFlight, DataTypeOK
  <2>5. ListAccounted'
    BY <1>2, <1>t, <2>1 DEF SkipEntry, ListAccounted, DataTypeOK, File
  <2>6. MutexTypeOK' /\ MutexBalanced'
    BY <1>2, <1>t DEF SkipEntry, LoaderInv, MutexTypeOK, MutexBalanced, DataTypeOK
  <2>7. UnloadFindsPlugin'
    BY <1>2, <1>t, <2>1 DEF SkipEntry, LoaderInv, UnloadFindsPlugin, ListAccounted, DataTypeOK
  <2> QED
    BY <2>3, <2>4, <2>5, <2>6, <2>7 DEF LoaderInv
<1>3. CASE LockList
  <2>1. UNCHANGED <<plugin_list, current>>
    BY <1>3 DEF LockList
  <2>2. ListedFrom(current)' = ListedFrom(current)
    BY <2>1 DEF ListedFrom
  <2>3. DataTypeOK' /\ PhaseInv'
    BY <1>3, <1>t, <2>1 DEF LockList, DataTypeOK, PhaseInv, Loading, File, InitResult
  <2>4. HandlesOwned'
    BY <1>3, <1>t, <1>u, <2>2 DEF LockList, LoaderInv, HandlesOwned, InFlight, DataTypeOK
  <2>5. ListAccounted'
    BY <1>3, <1>t, <2>1 DEF LockList, ListAccounted, DataTypeOK, File
  <2>6. MutexTypeOK' /\ MutexBalanced'
    BY <1>3, <1>t DEF LockList, LoaderInv, MutexTypeOK, MutexBalanced, DataTypeOK
  <2>7. UnloadFindsPlugin'
    BY <1>3, <1>t, <2>1 DEF LockList, LoaderInv, UnloadFindsPlugin, ListAccounted, DataTypeOK
  <2> QED
    BY <2>3, <2>4, <2>5, <2>6, <2>7 DEF LoaderInv
<1>4. CASE DlOpen
  <2>1. UNCHANGED <<plugin_list, current>>
    BY <1>4 DEF DlOpen, GiveUpEntry
  <2>2. ListedFrom(current)' = ListedFrom(current)
    BY <2>1 DEF ListedFrom
  <2>3. DataTypeOK' /\ PhaseInv'
    <3>1. CASE GiveUpEntry
      <4>1. /\ entry \in File
            /\ entry' = entry + 1
            /\ failed_loads' = failed_loads + 1
            /\ loadPc' = "scan" /\ init_ret' = "absent"
            /\ UNCHANGED <<plugin_list, current, success_loads, allocated>>
        BY <1>4, <1>t, <3>1 DEF DlOpen, GiveUpEntry, PhaseInv, Loading
      <4>2. opened' \subseteq File
        BY <1>4, <1>t, <4>1 DEF DlOpen, DataTypeOK
      <4>3. current = 1
        BY <1>4, <1>t DEF DlOpen, PhaseInv
      <4> QED
        BY <1>t, <4>1, <4>2, <4>3 DEF DataTypeOK, PhaseInv, Loading, File, InitResult
    <3>2. CASE ~GiveUpEntry
      BY <1>4, <1>t, <2>1, <3>2 DEF DlOpen, DataTypeOK, PhaseInv, Loading, File, InitResult
    <3> QED
      BY <3>1, <3>2
  <2>4. HandlesOwned'
    BY <1>4, <1>t, <1>u, <2>2 DEF DlOpen, GiveUpEntry, LoaderInv, HandlesOwned, InFlight, DataTypeOK
  <2>5. ListAccounted'
    BY <1>4, <1>t, <2>1 DEF DlOpen, GiveUpEntry, ListAccounted, DataTypeOK, File
  <2>6. MutexTypeOK' /\ MutexBalanced'
    BY <1>4, <1>t DEF DlOpen, GiveUpEntry, LoaderInv, MutexTypeOK, MutexBalanced, DataTypeOK
  <2>7. UnloadFindsPlugin'
    BY <1>4, <1>t, <2>1 DEF DlOpen, GiveUpEntry, LoaderInv, UnloadFindsPlugin, ListAccounted, DataTypeOK
  <2> QED
    BY <2>3, <2>4, <2>5, <2>6, <2>7 DEF LoaderInv
<1>5. CASE CallInit
  <2>1. UNCHANGED <<plugin_list, current>>
    BY <1>5 DEF CallInit
  <2>2. ListedFrom(current)' = ListedFrom(current)
    BY <2>1 DEF ListedFrom
  <2>3. DataTypeOK' /\ PhaseInv'
    BY <1>5, <1>t, <2>1 DEF CallInit, DataTypeOK, PhaseInv, Loading, File, InitResult
  <2>4. HandlesOwned'
    BY <1>5, <1>t, <1>u, <2>2 DEF CallInit, LoaderInv, HandlesOwned, InFlight, DataTypeOK
  <2>5. ListAccounted'
    BY <1>5, <1>t, <2>1 DEF CallInit, ListAccounted, DataTypeOK, File
  <2>6. MutexTypeOK' /\ MutexBalanced'
    BY <1>5, <1>t DEF CallInit, LoaderInv, MutexTypeOK, MutexBalanced, DataTypeOK
  <2>7. UnloadFindsPlugin'
    BY <1>5, <1>t, <2>1 DEF CallInit, LoaderInv, UnloadFindsPlugin, ListAccounted, DataTypeOK
  <2> QED
    BY <2>3, <2>4, <2>5, <2>6, <2>7 DEF LoaderInv
<1>6. CASE TestInit
  <2>1. UNCHANGED <<plugin_list, current>>
    BY <1>6 DEF TestInit, GiveUpEntry
  <2>2. ListedFrom(current)' = ListedFrom(current)
    BY <2>1 DEF ListedFrom
  <2>3. DataTypeOK' /\ PhaseInv'
    <3>1. CASE GiveUpEntry
      <4>1. /\ entry \in File
            /\ entry' = entry + 1
            /\ failed_loads' = failed_loads + 1
            /\ loadPc' = "scan" /\ init_ret' = "absent"
            /\ UNCHANGED <<plugin_list, current, success_loads, allocated>>
        BY <1>6, <1>t, <3>1 DEF TestInit, GiveUpEntry, PhaseInv, Loading
      <4>2. opened' \subseteq File
        BY <1>6, <1>t, <4>1 DEF TestInit, DataTypeOK
      <4>3. current = 1
        BY <1>6, <1>t DEF TestInit, PhaseInv
      <4> QED
        BY <1>t, <4>1, <4>2, <4>3 DEF DataTypeOK, PhaseInv, Loading, File, InitResult
    <3>2. CASE ~GiveUpEntry
      BY <1>6, <1>t, <2>1, <3>2 DEF TestInit, DataTypeOK, PhaseInv, Loading, File, InitResult
    <3> QED
      BY <3>1, <3>2
  <2>4. HandlesOwned'
    BY <1>6, <1>t, <1>u, <2>2 DEF TestInit, GiveUpEntry, LoaderInv, HandlesOwned, InFlight, DataTypeOK
  <2>5. ListAccounted'
    BY <1>6, <1>t, <2>1 DEF TestInit, GiveUpEntry, ListAccounted, DataTypeOK, File
  <2>6. MutexTypeOK' /\ MutexBalanced'
    BY <1>6, <1>t DEF TestInit, GiveUpEntry, LoaderInv, MutexTypeOK, MutexBalanced, DataTypeOK
  <2>7. UnloadFindsPlugin'
    BY <1>6, <1>t, <2>1 DEF TestInit, GiveUpEntry, LoaderInv, UnloadFindsPlugin, ListAccounted, DataTypeOK
  <2> QED
    BY <2>3, <2>4, <2>5, <2>6, <2>7 DEF LoaderInv
<1>7. CASE AllocNode
  <2>1. UNCHANGED <<plugin_list, current>>
    BY <1>7 DEF AllocNode
  <2>2. ListedFrom(current)' = ListedFrom(current)
    BY <2>1 DEF ListedFrom
  <2>3. DataTypeOK' /\ PhaseInv'
    BY <1>7, <1>t, <2>1 DEF AllocNode, DataTypeOK, PhaseInv, Loading, File, InitResult
  <2>4. HandlesOwned'
    BY <1>7, <1>t, <1>u, <2>2 DEF AllocNode, LoaderInv, HandlesOwned, InFlight, DataTypeOK
  <2>5. ListAccounted'
    BY <1>7, <1>t, <2>1 DEF AllocNode, ListAccounted, DataTypeOK, File
  <2>6. MutexTypeOK' /\ MutexBalanced'
    BY <1>7, <1>t DEF AllocNode, LoaderInv, MutexTypeOK, MutexBalanced, DataTypeOK
  <2>7. UnloadFindsPlugin'
    BY <1>7, <1>t, <2>1 DEF AllocNode, LoaderInv, UnloadFindsPlugin, ListAccounted, DataTypeOK
  <2> QED
    BY <2>3, <2>4, <2>5, <2>6, <2>7 DEF LoaderInv
<1>8. CASE ResolveManifest
  <2>1. CASE plugin_list' = Append(plugin_list, entry) /\ allocated' = allocated
    <3>1. /\ entry \in File
          /\ current = 1
          /\ loadPc = "manifest" /\ loadPc' = "scan"
          /\ UNCHANGED <<current, opened, allocated, failed_loads>>
          /\ success_loads' = success_loads + 1
          /\ entry' = entry + 1
          /\ pi_list_mutex' = FALSE
          /\ init_ret' = "absent"
      BY <1>8, <1>t, <2>1 DEF ResolveManifest, GiveUpEntry, PhaseInv, Loading, DataTypeOK
    <3>2. /\ Len(plugin_list') = Len(plugin_list) + 1
          /\ plugin_list' \in Seq(File)
          /\ \A k \in DOMAIN plugin_list : plugin_list'[k] = plugin_list[k]
          /\ plugin_list'[Len(plugin_list) + 1] = entry
          /\ DOMAIN plugin_list' = DOMAIN plugin_list \cup {Len(plugin_list) + 1}
          /\ \A k \in DOMAIN plugin_list : k < Len(plugin_list) + 1
      BY <1>t, <2>1, <3>1 DEF DataTypeOK
    <3>3. DataTypeOK' /\ PhaseInv'
      BY <1>t, <3>1, <3>2 DEF DataTypeOK, PhaseInv, Loading, File, InitResult
    <3>4. HandlesOwned'
      <4>1. ListedFrom(current)' = ListedFrom(current) \cup {entry}
        BY <1>t, <2>1, <3>1, ListedAppend DEF DataTypeOK
      <4> QED
        BY <3>1, <4>1 DEF LoaderInv, HandlesOwned, InFlight
    <3>5. ListAccounted'
      <4>1. \A j, k \in DOMAIN plugin_list' : j < k => plugin_list'[j] < plugin_list'[k]
        BY <1>t, <3>2 DEF ListAccounted, DataTypeOK
      <4>2. \A k \in DOMAIN plugin_list' : plugin_list'[k] < entry'
        BY <1>t, <3>1, <3>2 DEF ListAccounted, DataTypeOK, File
      <4>3. success_loads' = Len(plugin_list') /\ success_loads' + failed_loads' < entry'
        BY <1>t, <3>1, <3>2 DEF ListAccounted, DataTypeOK, File
      <4> QED
        BY <4>1, <4>2, <4>3 DEF ListAccounted
    <3>6. MutexTypeOK' /\ MutexBalanced' /\ UnloadFindsPlugin'
      BY <3>1 DEF MutexTypeOK, MutexBalanced, UnloadFindsPlugin
    <3> QED
      BY <3>3, <3>4, <3>5, <3>6 DEF LoaderInv
  <2>2. CASE /\ opened' = opened \ {entry}
             /\ allocated' = allocated \ {entry}
             /\ GiveUpEntry
    <3>1. UNCHANGED <<plugin_list, current>> /\ loadPc = "manifest"
      BY <1>8, <2>2 DEF ResolveManifest, GiveUpEntry
    <3>2. ListedFrom(current)' = ListedFrom(current) /\ entry \notin ListedFrom(current)
      BY <1>t, <3>1 DEF ListedFrom, ListAccounted, DataTypeOK, File
    <3>3. DataTypeOK' /\ PhaseInv'
      BY <1>t, <2>2, <3>1 DEF GiveUpEntry, DataTypeOK, PhaseInv, Loading, File, InitResult
    <3>4. HandlesOwned'
      BY <2>2, <3>1, <3>2 DEF GiveUpEntry, LoaderInv, HandlesOwned, InFlight
    <3>5. ListAccounted'
      BY <1>t, <2>2, <3>1 DEF GiveUpEntry, ListAccounted, DataTypeOK, File
    <3>6. MutexTypeOK' /\ MutexBalanced' /\ UnloadFindsPlugin'
      BY <2>2 DEF GiveUpEntry, MutexTypeOK, MutexBalanced, UnloadFindsPlugin
    <3> QED
      BY <3>3, <3>4, <3>5, <3>6 DEF LoaderInv
  <2> QED
    BY <1>8, <2>1, <2>2 DEF ResolveManifest
<1>9. CASE FinishScan
  <2>1. UNCHANGED <<plugin_list, current>>
    BY <1>9 DEF FinishScan
  <2>2. ListedFrom(current)' = ListedFrom(current)
    BY <2>1 DEF ListedFrom
  <2>3. DataTypeOK' /\ PhaseInv'
    BY <1>9, <1>t, <2>1 DEF FinishScan, DataTypeOK, PhaseInv, Loading, File, InitResult
  <2>4. HandlesOwned'
    BY <1>9, <1>t, <1>u, <2>2 DEF FinishScan, LoaderInv, HandlesOwned, InFlight, DataTypeOK
  <2>5. ListAccounted'
    BY <1>9, <1>t, <2>1 DEF FinishScan, ListAccounted, DataTypeOK, File
  <2>6. MutexTypeOK' /\ MutexBalanced'
    BY <1>9, <1>t DEF FinishScan, LoaderInv, MutexTypeOK, MutexBalanced, DataTypeOK
  <2>7. UnloadFindsPlugin'
    BY <1>9, <1>t, <2>1 DEF FinishScan, LoaderInv, UnloadFindsPlugin, ListAccounted, DataTypeOK
  <2> QED
    BY <2>3, <2>4, <2>5, <2>6, <2>7 DEF LoaderInv
<1>10. CASE BeginUnload
  <2>1. UNCHANGED <<plugin_list, current>>
    BY <1>10 DEF BeginUnload
  <2>2. ListedFrom(current)' = ListedFrom(current)
    BY <2>1 DEF ListedFrom
  <2>3. DataTypeOK' /\ PhaseInv'
    <3>1. plugin_list # <<>>
      BY <1>10 DEF BeginUnload, LoaderInv, UnloadFindsPlugin
    <3> QED
      BY <1>10, <1>t, <2>1, <3>1 DEF BeginUnload, DataTypeOK, PhaseInv, Loading
  <2>4. HandlesOwned'
    BY <1>10, <1>t, <1>u, <2>2 DEF BeginUnload, LoaderInv, HandlesOwned, InFlight, DataTypeOK
  <2>5. ListAccounted'
    BY <1>10, <1>t, <2>1 DEF BeginUnload, ListAccounted, DataTypeOK, File
  <2>6. MutexTypeOK' /\ MutexBalanced'
    BY <1>10, <1>t DEF BeginUnload, LoaderInv, MutexTypeOK, MutexBalanced, DataTypeOK, UnloadFindsPlugin
  <2>7. UnloadFindsPlugin'
    BY <1>10, <1>t, <2>1 DEF BeginUnload, LoaderInv, UnloadFindsPlugin, ListAccounted, DataTypeOK
  <2> QED
    BY <2>3, <2>4, <2>5, <2>6, <2>7 DEF LoaderInv
<1>11. CASE UnloadOne
  <2>1. /\ current \in DOMAIN plugin_list
        /\ loadPc = "unload"
        /\ UNCHANGED <<entry, plugin_list, success_loads, failed_loads, init_ret>>
        /\ current' = current + 1
        /\ loadPc' = IF current = Len(plugin_list) THEN "unloaded" ELSE "unload"
        /\ pi_list_mutex' = (current # Len(plugin_list))
        /\ opened' = opened \ {plugin_list[current]}
        /\ allocated' = allocated \ {plugin_list[current]}
    BY <1>11, <1>t DEF UnloadOne, PhaseInv, DataTypeOK
  <2>2. ListedFrom(current)' = ListedFrom(current) \ {plugin_list[current]}
    BY <1>t, <2>1, ListedTail DEF DataTypeOK, ListAccounted
  <2>3. DataTypeOK' /\ PhaseInv'
    BY <1>t, <2>1 DEF DataTypeOK, PhaseInv, Loading
  <2>4. HandlesOwned'
    BY <2>1, <2>2 DEF LoaderInv, HandlesOwned, InFlight
  <2>5. ListAccounted'
    BY <1>t, <2>1 DEF ListAccounted
  <2>6. MutexTypeOK' /\ MutexBalanced' /\ UnloadFindsPlugin'
    BY <2>1 DEF LoaderInv, MutexTypeOK, MutexBalanced, UnloadFindsPlugin
  <2> QED
    BY <2>3, <2>4, <2>5, <2>6 DEF LoaderInv
<1>12. CASE LoaderDone \/ UNCHANGED loaderVars
  BY <1>12 DEF LoaderDone, loaderVars, LoaderInv, DataTypeOK, MutexTypeOK, PhaseInv, HandlesOwned,
     ListAccounted, MutexBalanced, UnloadFindsPlugin, ListedFrom, InFlight
<1> QED
  BY <1>1, <1>2, <1>3, <1>4, <1>5, <1>6, <1>7, <1>8, <1>9, <1>10, <1>11, <1>12
     DEF LoaderNext, LoadPlugins, UnloadPlugins

\* The inductive invariant holds in every reachable state.
THEOREM LoaderInvariant == LoaderSpec => []LoaderInv
BY LoaderInitInv, LoaderNextInv, PTL DEF LoaderSpec

\* What the inductive invariant says of the properties.
LEMMA LoaderInvImplies ==
  LoaderInv => LoaderTypeOK /\ HandlesOwned /\ ListAccounted /\ MutexBalanced /\ UnloadFindsPlugin
<1>1. LoaderInv => LoaderTypeOK
  BY DEF LoaderInv, DataTypeOK, MutexTypeOK, LoaderTypeOK
<1> QED
  BY <1>1 DEF LoaderInv

\* Every variable of the loader keeps to its type, however many entries the
\* directory has; in particular no run crashes.
THEOREM LoaderTypeCorrect == LoaderSpec => []LoaderTypeOK
BY LoaderInvImplies, LoaderInvariant, PTL

\* Whatever fails while a file is loaded, its handle and its node are given
\* back: the loader owns exactly what the listed plugins and the file in
\* hand need.
THEOREM HandlesAreOwned == LoaderSpec => []HandlesOwned
BY LoaderInvImplies, LoaderInvariant, PTL

\* The list is in directory order without duplicates, and the counters the
\* program prints agree with it.
THEOREM ListIsAccounted == LoaderSpec => []ListAccounted
BY LoaderInvImplies, LoaderInvariant, PTL

\* pi_list_mutex is taken exactly at the control points between g_mutex_lock()
\* and its matching unlock, on every path.
THEOREM MutexIsBalanced == LoaderSpec => []MutexBalanced
BY LoaderInvImplies, LoaderInvariant, PTL

\* unload_plugins(), which reads the head of the list before it tests it, is
\* only ever entered with a plugin in the list.
THEOREM UnloadAlwaysFinds == LoaderSpec => []UnloadFindsPlugin
BY LoaderInvImplies, LoaderInvariant, PTL

-----------------------------------------------------------------------------
(* The life of the process                                                 *)

\* The files in the plugin list.
Listed == {plugin_list[i] : i \in DOMAIN plugin_list}

\* TypeOK without the loader and in two parts, the Boolean variables apart.
LifeFlagsOK == uiOn \in BOOLEAN /\ headLost \in BOOLEAN /\ faulted \in BOOLEAN

LifeDataOK ==
  /\ mainPc \in {"load", "pairs", "framework", "bind", "loop", "unload", "return"}
  /\ paired \in 0 .. Len(plugin_list)
  /\ cap \in [File -> ThreadState]
  /\ proc \in [File -> ThreadState]
  /\ bound \subseteq Key
  /\ master_q \in Seq([from : Sender, cmd : Cmd])
  /\ handled \in Seq([from : Sender, cmd : Cmd])
  /\ walk \in 0 .. (Len(plugin_list) + 1)
  /\ ended \in {"no", "return", "exit1", "crash"}

\* Where the loader stands at each control point of main().
PhaseLink ==
  /\ mainPc = "load" => loadPc \notin {"ready", "unload", "unloaded"}
  /\ mainPc \in {"pairs", "framework", "bind", "loop"} => loadPc = "ready"
  /\ mainPc = "unload" => loadPc \in {"ready", "unload"}
  /\ mainPc = "return" => loadPc = "unloaded"

\* While the plugins are being loaded there is one thread.
AloneWhileLoading ==
  mainPc = "load" =>
    /\ paired = 0
    /\ \A p \in File : cap[p] = "none" /\ proc[p] = "none"
    /\ master_q = <<>>

\* The interface is up from zt_load_framework() on, and it alone walks the
\* list.
UILink ==
  /\ uiOn => mainPc \in {"bind", "loop", "unload", "return"}
  /\ walk # 0 => uiOn

\* Threads belong to listed plugins, are started in list order, and all of
\* them before main() goes on.
ThreadInv ==
  /\ \A p \in File : proc[p] # "none" => cap[p] # "none"
  /\ \A p \in File : cap[p] # "none" => p \in Listed
  /\ \A i \in 1 .. paired : proc[plugin_list[i]] # "none"
  /\ mainPc \notin {"load", "pairs"} => paired = Len(plugin_list)

\* Queued commands come from plugins in the list or from the interface.
SenderInv == \A i \in DOMAIN master_q : master_q[i].from \in Listed \cup {UI}

\* main() has left its loop exactly when it has handled a final command,
\* which is then the last one it handled.
FinalInv ==
  /\ \A i \in DOMAIN handled : handled[i].cmd \in Final => i = Len(handled)
  /\ mainPc \in {"unload", "return"} <=> \E i \in DOMAIN handled : handled[i].cmd \in Final

FaultInv == faulted => ~Serving

LifeInv ==
  /\ LoaderInv
  /\ LifeFlagsOK
  /\ LifeDataOK
  /\ PhaseLink
  /\ AloneWhileLoading
  /\ UILink
  /\ ThreadInv
  /\ SenderInv
  /\ FinalInv
  /\ FaultInv

-----------------------------------------------------------------------------
(* The loader inside the process                                           *)

\* Every step of the process is a step of the loader or leaves it alone.
LEMMA LoaderStep == [Next]_vars => [LoaderNext]_loaderVars
BY DEF Next, vars, MainStep, ThreadStep, Load, StartCapture, StartProcess,
   PressEnter, LoadFramework, BindKey, HandleCommand, Unload, Return, PluginCall,
   Call, ThreadEnds, RunUnmapped, PressQuit, OpenPluginList, ListNode, PickPlugin,
   PressTest, Ended, LoaderNext

\* After loading, the plugin list does not change any more.
LEMMA ListKept ==
  ASSUME [Next]_vars, mainPc # "load"
  PROVE  plugin_list' = plugin_list
BY DEF Next, vars, loaderVars, MainStep, ThreadStep, Load, StartCapture, StartProcess,
   PressEnter, LoadFramework, BindKey, HandleCommand, Unload, UnloadPlugins,
   BeginUnload, UnloadOne, Return, PluginCall, Call, ThreadEnds, RunUnmapped,
   PressQuit, OpenPluginList, ListNode, PickPlugin, PressTest, Ended

\* Until the unloading starts, exactly the listed plugins are open and have a
\* node.
LEMMA ReadyOwns ==
  ASSUME LoaderInv, loadPc = "ready"
  PROVE  opened = Listed /\ allocated = Listed
<1>1. current = 1 /\ plugin_list \in Seq(File)
  BY DEF LoaderInv, PhaseInv, DataTypeOK
<1>2. ListedFrom(current) = Listed
  BY <1>1 DEF ListedFrom, Listed
<1> QED
  BY <1>2 DEF LoaderInv, HandlesOwned, InFlight

-----------------------------------------------------------------------------
(* The invariant, one part at a time                                       *)

\* The program starts with one thread and nothing loaded.
LEMMA LifeInitInv == Init => LifeInv
<1> SUFFICES ASSUME Init
             PROVE  LifeInv
  OBVIOUS
<1>1. LoaderInv
  BY LoaderInitInv DEF Init
<1>2. plugin_list = <<>> /\ Listed = {}
  BY DEF Init, LoaderInit, Listed
<1>3. LifeFlagsOK /\ UILink /\ FaultInv
  BY DEF Init, LifeFlagsOK, UILink, FaultInv
<1>4. LifeDataOK
  BY <1>2 DEF Init, LifeDataOK, ThreadState
<1>5. PhaseLink /\ AloneWhileLoading
  BY DEF Init, LoaderInit, PhaseLink, AloneWhileLoading
<1>6. ThreadInv /\ SenderInv /\ FinalInv
  BY <1>2 DEF Init, ThreadInv, SenderInv, FinalInv
<1> QED
  BY <1>1, <1>3, <1>4, <1>5, <1>6 DEF LifeInv

\* The Boolean variables stay Boolean.
LEMMA FlagsStep ==
  ASSUME LifeFlagsOK, [Next]_vars
  PROVE  LifeFlagsOK'
BY DEF LifeFlagsOK, Next, vars, threadVars, MainStep, ThreadStep, Load, StartCapture,
   StartProcess, PressEnter, LoadFramework, BindKey, HandleCommand, Unload, Return,
   PluginCall, Call, ThreadEnds, RunUnmapped, PressQuit, OpenPluginList, ListNode,
   ReadNode, PickPlugin, PressTest, Ended

\* main() and the loader keep in step.
LEMMA PhaseStep ==
  ASSUME LifeInv, [Next]_vars
  PROVE  PhaseLink'
<1>1. CASE Load
  BY <1>1, LoaderStep DEF Load, LifeInv, LoaderInv, DataTypeOK, PhaseLink, LoadPlugins,
     ScanDir, SkipEntry, LockList, DlOpen, GiveUpEntry, CallInit, TestInit, AllocNode,
     ResolveManifest, FinishScan
<1>2. CASE Unload /\ ~headLost
  BY <1>2 DEF Unload, LifeInv, PhaseLink, UnloadPlugins, BeginUnload, UnloadOne,
     LoaderInv, UnloadFindsPlugin
<1>3. CASE Unload /\ headLost
  BY <1>3 DEF Unload, LifeInv, PhaseLink, loaderVars
<1>4. CASE UNCHANGED loaderVars
  BY <1>4 DEF LifeInv, PhaseLink, loaderVars, Next, vars, MainStep, ThreadStep, Load,
     StartCapture, StartProcess, PressEnter, LoadFramework, BindKey, HandleCommand,
     Unload, Return, PluginCall, Call, ThreadEnds, RunUnmapped, PressQuit,
     OpenPluginList, ListNode, PickPlugin, PressTest, Ended
<1> QED
  BY <1>1, <1>2, <1>3, <1>4 DEF Next, vars, MainStep, ThreadStep, StartCapture, StartProcess,
     PressEnter, LoadFramework, BindKey, HandleCommand, Return, PluginCall, Call,
     ThreadEnds, RunUnmapped, PressQuit, OpenPluginList, ListNode, PickPlugin,
     PressTest, Ended

\* While main() is loading plugins nothing else moves.
LEMMA AloneStep ==
  ASSUME LifeInv, [Next]_vars, mainPc = "load"
  PROVE  Load \/ UNCHANGED vars
<1>1. /\ \A p \in File : cap[p] = "none" /\ proc[p] = "none"
      /\ ~uiOn /\ walk = 0
  BY DEF LifeInv, AloneWhileLoading, UILink
<1>2. 0 \notin DOMAIN plugin_list
  BY DEF LifeInv, LoaderInv, DataTypeOK
<1> QED
  BY <1>1, <1>2 DEF Next, MainStep, ThreadStep, StartCapture,
     StartProcess, PressEnter, LoadFramework, BindKey, HandleCommand, Unload, Return,
     PluginCall, ThreadEnds, RunUnmapped, PressQuit, OpenPluginList, ListNode,
     PickPlugin, PressTest, Ended

\* After loading, a step that is not one of the unloader leaves the loader alone.
LEMMA LoaderKept ==
  ASSUME [Next]_vars, mainPc \notin {"load", "unload"}
  PROVE  UNCHANGED loaderVars
BY DEF loaderVars, Next, vars, MainStep, ThreadStep, Load, StartCapture,
     StartProcess, PressEnter, LoadFramework, BindKey, HandleCommand, Unload, Return,
     PluginCall, Call, ThreadEnds, RunUnmapped, PressQuit, OpenPluginList, ListNode,
     ReadNode, PickPlugin, PressTest, Ended

\* The loader's invariant holds of the loader inside the process.
LEMMA LoaderPart ==
  ASSUME LifeInv, [Next]_vars
  PROVE  LoaderInv'
BY LoaderStep, LoaderNextInv DEF LifeInv

\* master_q and the history change only by a call and by the main loop.
LEMMA QueueStep ==
  ASSUME [Next]_vars
  PROVE  \/ HandleCommand
         \/ UNCHANGED queueVars
         \/ \E s \in Sender, c \in Cmd : Call(s, c)
<1>1. \A p \in File : PluginCall(p) => \E s \in Sender, c \in Cmd : Call(s, c)
  BY DEF PluginCall, Sender
<1>2. PressQuit => \E s \in Sender, c \in Cmd : Call(s, c)
  BY DEF PressQuit, Sender, Cmd
<1> QED
  BY <1>1, <1>2 DEF queueVars, Next, vars, MainStep, ThreadStep, Load, StartCapture,
     StartProcess, PressEnter, LoadFramework, BindKey, Unload, Return, ThreadEnds,
     RunUnmapped, OpenPluginList, ListNode, PickPlugin, PressTest, Ended

\* The rest of the variables keep to their types.
LEMMA DataStep ==
  ASSUME LifeInv, [Next]_vars
  PROVE  LifeDataOK'
<1>t. LifeDataOK /\ plugin_list \in Seq(File) /\ plugin_list' \in Seq(File)
  BY LoaderPart DEF LifeInv, LoaderInv, DataTypeOK
<1>1. CASE mainPc = "load"
  <2>1. UNCHANGED <<paired, cap, proc, bound, walk, master_q, handled>>
    BY <1>1, AloneStep DEF Load, threadVars, queueVars, vars
  <2>2. paired = 0 /\ walk = 0
    BY <1>1 DEF LifeInv, AloneWhileLoading, UILink
  <2>3. /\ mainPc' \in {"load", "pairs"}
        /\ ended' \in {"no", "return", "exit1", "crash"}
    BY <1>1, <1>t, AloneStep DEF Load, vars, LifeDataOK
  <2> QED
    BY <1>t, <2>1, <2>2, <2>3 DEF LifeDataOK
<1>2. CASE mainPc # "load"
  <2>1. plugin_list' = plugin_list
    BY <1>2, ListKept
  <2>2. paired' \in 0 .. Len(plugin_list)
    <3>1. StartProcess \/ paired' = paired
      BY DEF threadVars, Next, vars, MainStep, ThreadStep, Load, StartCapture,
     StartProcess, PressEnter, LoadFramework, BindKey, HandleCommand, Unload, Return,
     PluginCall, Call, ThreadEnds, RunUnmapped, PressQuit, OpenPluginList, ListNode,
     ReadNode, PickPlugin, PressTest, Ended
    <3> QED
      BY <1>t, <3>1 DEF StartProcess, LifeDataOK
  <2>3. walk' \in 0 .. (Len(plugin_list) + 1)
    <3>1. ListNode \/ walk' \in {walk, 0, 1, Len(plugin_list) + 1}
      BY DEF threadVars, Next, vars, MainStep, ThreadStep, Load, StartCapture,
     StartProcess, PressEnter, LoadFramework, BindKey, HandleCommand, Unload, Return,
     PluginCall, Call, ThreadEnds, RunUnmapped, PressQuit, OpenPluginList, ListNode,
     ReadNode, PickPlugin, PressTest, Ended
    <3> QED
      BY <1>t, <3>1 DEF ListNode, LifeDataOK
  <2>4. cap' \in [File -> ThreadState] /\ proc' \in [File -> ThreadState]
    BY <1>t DEF LifeDataOK, ThreadState, threadVars, Next, vars, MainStep, ThreadStep, Load, StartCapture,
     StartProcess, PressEnter, LoadFramework, BindKey, HandleCommand, Unload, Return,
     PluginCall, Call, ThreadEnds, RunUnmapped, PressQuit, OpenPluginList, ListNode,
     ReadNode, PickPlugin, PressTest, Ended
  <2>5. bound' \subseteq Key
    BY <1>t DEF LifeDataOK, Key, threadVars, Next, vars, MainStep, ThreadStep, Load, StartCapture,
     StartProcess, PressEnter, LoadFramework, BindKey, HandleCommand, Unload, Return,
     PluginCall, Call, ThreadEnds, RunUnmapped, PressQuit, OpenPluginList, ListNode,
     ReadNode, PickPlugin, PressTest, Ended
  <2>6. master_q' \in Seq([from : Sender, cmd : Cmd]) /\ handled' \in Seq([from : Sender, cmd : Cmd])
    <3>1. CASE HandleCommand
      <4> DEFINE M == [from : Sender, cmd : Cmd]
      <4>1. master_q \in Seq(M) /\ handled \in Seq(M)
        BY <1>t DEF LifeDataOK
      <4>2. /\ master_q # <<>>
            /\ master_q' = Tail(master_q)
            /\ handled' = Append(handled, Head(master_q))
        BY <3>1 DEF HandleCommand
      <4> HIDE DEF M
      <4>3. master_q' \in Seq(M) /\ handled' \in Seq(M)
        BY <4>1, <4>2
      <4> QED
        BY <4>3 DEF M
    <3>2. CASE UNCHANGED queueVars
      BY <1>t, <3>2 DEF queueVars, LifeDataOK
    <3>3. CASE \E s \in Sender, c \in Cmd : Call(s, c)
      BY <1>t, <3>3 DEF Call, LifeDataOK
    <3> QED
      BY <3>1, <3>2, <3>3, QueueStep
  <2>7. /\ mainPc' \in {"load", "pairs", "framework", "bind", "loop", "unload", "return"}
        /\ ended' \in {"no", "return", "exit1", "crash"}
    BY <1>t DEF LifeDataOK, Next, vars, MainStep, ThreadStep, Load, StartCapture,
     StartProcess, PressEnter, LoadFramework, BindKey, HandleCommand, Unload, Return,
     PluginCall, Call, ThreadEnds, RunUnmapped, PressQuit, OpenPluginList, ListNode,
     ReadNode, PickPlugin, PressTest, Ended
  <2> QED
    BY <2>1, <2>2, <2>3, <2>4, <2>5, <2>6, <2>7 DEF LifeDataOK
<1> QED
  BY <1>1, <1>2

\* No thread, no command and no interface appears while plugins are loaded,
\* and only the interface walks the list.
LEMMA AloneUIStep ==
  ASSUME LifeInv, [Next]_vars
  PROVE  AloneWhileLoading' /\ UILink'
<1>1. CASE mainPc = "load"
  BY <1>1, AloneStep DEF Load, threadVars, queueVars, vars, LifeInv,
     AloneWhileLoading, UILink
<1>2. CASE mainPc # "load"
  <2>1. mainPc' # "load"
    BY <1>2 DEF LifeInv, LifeDataOK, Next, vars, MainStep, ThreadStep, Load, StartCapture,
     StartProcess, PressEnter, LoadFramework, BindKey, HandleCommand, Unload, Return,
     PluginCall, Call, ThreadEnds, RunUnmapped, PressQuit, OpenPluginList, ListNode,
     ReadNode, PickPlugin, PressTest, Ended
  <2>2. uiOn' => mainPc' \in {"bind", "loop", "unload", "return"}
    BY <1>2 DEF LifeInv, UILink, threadVars, Next, vars, MainStep, ThreadStep, Load, StartCapture,
     StartProcess, PressEnter, LoadFramework, BindKey, HandleCommand, Unload, Return,
     PluginCall, Call, ThreadEnds, RunUnmapped, PressQuit, OpenPluginList, ListNode,
     ReadNode, PickPlugin, PressTest, Ended
  <2>3. 0 \notin DOMAIN plugin_list
    BY DEF LifeInv, LoaderInv, DataTypeOK
  <2>4. walk' # 0 => walk # 0 \/ uiOn
    BY <2>3 DEF threadVars, Next, vars, MainStep, ThreadStep, Load, StartCapture,
     StartProcess, PressEnter, LoadFramework, BindKey, HandleCommand, Unload, Return,
     PluginCall, Call, ThreadEnds, RunUnmapped, PressQuit, OpenPluginList, ListNode,
     ReadNode, PickPlugin, PressTest, Ended
  <2>5. uiOn => uiOn'
    BY DEF threadVars, Next, vars, MainStep, ThreadStep, Load, StartCapture,
     StartProcess, PressEnter, LoadFramework, BindKey, HandleCommand, Unload, Return,
     PluginCall, Call, ThreadEnds, RunUnmapped, PressQuit, OpenPluginList, ListNode,
     ReadNode, PickPlugin, PressTest, Ended
  <2>6. UILink'
    BY <2>2, <2>4, <2>5 DEF LifeInv, UILink
  <2> QED
    BY <2>1, <2>6 DEF AloneWhileLoading
<1> QED
  BY <1>1, <1>2

\* A step changes the states of the threads in one of four ways.
LEMMA ThreadMoves ==
  ASSUME [Next]_vars
  PROVE  \/ UNCHANGED <<cap, proc, paired>>
         \/ StartCapture
         \/ StartProcess
         \/ \E p \in File : ThreadEnds(p)
BY DEF threadVars, Next, vars, MainStep, ThreadStep, Load, StartCapture,
   StartProcess, PressEnter, LoadFramework, BindKey, HandleCommand, Unload, Return,
   PluginCall, Call, RunUnmapped, PressQuit, OpenPluginList, ListNode,
   PickPlugin, PressTest, Ended

\* Threads stay those of listed plugins, paired in list order.
LEMMA ThreadStepInv ==
  ASSUME LifeInv, [Next]_vars
  PROVE  ThreadInv'
<1>1. CASE mainPc = "load"
  <2>1. UNCHANGED <<paired, cap, proc>> /\ mainPc' \in {"load", "pairs"}
    BY <1>1, AloneStep DEF Load, threadVars, vars
  <2> QED
    BY <1>1, <2>1 DEF LifeInv, AloneWhileLoading, ThreadInv
<1>2. CASE mainPc # "load"
  <2>1. plugin_list' = plugin_list /\ Listed' = Listed
    BY <1>2, ListKept DEF Listed
  <2>2. /\ plugin_list \in Seq(File)
        /\ paired \in Nat
        /\ cap \in [File -> ThreadState]
        /\ proc \in [File -> ThreadState]
        /\ ThreadInv
    BY DEF LifeInv, LoaderInv, DataTypeOK, LifeDataOK
  <2>3. mainPc' \notin {"load", "pairs"} =>
          mainPc \notin {"load", "pairs"} \/ PressEnter
    BY <1>2 DEF Next, vars, MainStep, ThreadStep, Load, StartCapture,
     StartProcess, PressEnter, LoadFramework, BindKey, HandleCommand, Unload, Return,
     PluginCall, Call, ThreadEnds, RunUnmapped, PressQuit, OpenPluginList, ListNode,
     ReadNode, PickPlugin, PressTest, Ended
  <2>4. CASE UNCHANGED <<cap, proc, paired>>
    <3>1. mainPc' \notin {"load", "pairs"} => paired' = Len(plugin_list')
      BY <2>1, <2>2, <2>3, <2>4 DEF ThreadInv, PressEnter
    <3> QED
      BY <2>1, <2>2, <2>4, <3>1 DEF ThreadInv
  <2>5. CASE StartCapture
    <3>1. /\ mainPc' = "pairs"
          /\ UNCHANGED <<proc, paired>>
          /\ plugin_list[paired + 1] \in Listed
          /\ \/ UNCHANGED cap
             \/ cap' = [cap EXCEPT ![plugin_list[paired + 1]] = "running"]
      BY <2>2, <2>5 DEF StartCapture, Listed
    <3> QED
      BY <2>1, <2>2, <3>1 DEF ThreadInv, Listed
  <2>6. CASE StartProcess
    <3> DEFINE f == plugin_list[paired + 1]
    <3>1. /\ mainPc' = "pairs"
          /\ UNCHANGED cap
          /\ cap[f] # "none"
          /\ f \in File
          /\ proc' = [proc EXCEPT ![f] = "running"]
          /\ paired' = paired + 1
      BY <2>2, <2>6 DEF StartProcess
    <3>2. \A i \in 1 .. paired' : proc'[plugin_list[i]] # "none"
      <4>1. \A i \in 1 .. paired : proc[plugin_list[i]] # "none" /\ plugin_list[i] \in File
        BY <2>2, <2>6 DEF ThreadInv, StartProcess
      <4> QED
        BY <2>2, <3>1, <4>1
    <3>3. \A p \in File : proc'[p] # "none" => cap'[p] # "none"
      BY <2>2, <3>1 DEF ThreadInv
    <3> QED
      BY <2>1, <2>2, <3>1, <3>2, <3>3 DEF ThreadInv
  <2>7. CASE \E p \in File : ThreadEnds(p)
    <3>1. /\ UNCHANGED <<mainPc, paired>>
          /\ \A p \in File : (cap'[p] = "none") <=> (cap[p] = "none")
          /\ \A p \in File : (proc'[p] = "none") <=> (proc[p] = "none")
      BY <2>2, <2>7 DEF ThreadEnds
    <3>2. paired <= Len(plugin_list)
      BY DEF LifeInv, LifeDataOK
    <3>3. \A i \in 1 .. paired : plugin_list[i] \in File
      BY <2>2, <3>2
    <3> QED
      BY <2>1, <2>2, <3>1, <3>3 DEF ThreadInv
  <2> QED
    BY <2>4, <2>5, <2>6, <2>7, ThreadMoves
<1> QED
  BY <1>1, <1>2

\* Only the interface and plugins with a thread call the master.
LEMMA SenderStep ==
  ASSUME LifeInv, [Next]_vars
  PROVE  SenderInv'
<1> DEFINE M == [from : Sender, cmd : Cmd]
<1>t. master_q \in Seq(M) /\ SenderInv
  BY DEF LifeInv, LifeDataOK
<1> HIDE DEF M
<1>1. CASE mainPc = "load"
  <2>1. master_q' = <<>>
    BY <1>1, AloneStep DEF Load, queueVars, vars, LifeInv, AloneWhileLoading
  <2> QED
    BY <2>1 DEF SenderInv
<1>2. CASE mainPc # "load"
  <2>1. Listed' = Listed
    BY <1>2, ListKept DEF Listed
  <2>2. CASE HandleCommand
    <3>1. master_q # <<>> /\ master_q' = Tail(master_q)
      BY <2>2 DEF HandleCommand
    <3>2. \A i \in DOMAIN master_q' : i + 1 \in DOMAIN master_q /\ master_q'[i] = master_q[i + 1]
      BY <1>t, <3>1
    <3> QED
      BY <1>t, <2>1, <3>2 DEF SenderInv
  <2>3. CASE \E p \in File : PluginCall(p)
    <3>1. PICK p \in File : PluginCall(p)
      BY <2>3
    <3>2. p \in Listed
      BY <3>1 DEF PluginCall, LifeInv, ThreadInv
    <3>3. PICK c \in Cmd : master_q' = Append(master_q, [from |-> p, cmd |-> c])
      BY <3>1 DEF PluginCall, Call
    <3>4. \A i \in DOMAIN master_q' :
            \/ i \in DOMAIN master_q /\ master_q'[i] = master_q[i]
            \/ master_q'[i] = [from |-> p, cmd |-> c]
      BY <1>t, <3>3
    <3> QED
      BY <1>t, <2>1, <3>2, <3>4 DEF SenderInv
  <2>4. CASE PressQuit
    <3>1. master_q' = Append(master_q, [from |-> UI, cmd |-> "MC_EXIT"])
      BY <2>4 DEF PressQuit, Call
    <3>2. \A i \in DOMAIN master_q' :
            \/ i \in DOMAIN master_q /\ master_q'[i] = master_q[i]
            \/ master_q'[i] = [from |-> UI, cmd |-> "MC_EXIT"]
      BY <1>t, <3>1
    <3> QED
      BY <1>t, <2>1, <3>2 DEF SenderInv
  <2>5. CASE UNCHANGED master_q
    BY <1>t, <2>1, <2>5 DEF SenderInv
  <2> QED
    BY <2>2, <2>3, <2>4, <2>5 DEF queueVars, Next, vars, MainStep, ThreadStep, Load,
       StartCapture, StartProcess, PressEnter, LoadFramework, BindKey, Unload, Return,
       ThreadEnds, RunUnmapped, OpenPluginList, ListNode, PickPlugin, PressTest, Ended
<1> QED
  BY <1>1, <1>2

\* Except for the main loop, a step neither opens nor closes the receiving
\* side of the channel.
LEMMA OpenKept ==
  ASSUME LifeInv, [Next]_vars, ~HandleCommand
  PROVE  /\ handled' = handled
         /\ mainPc' \in {"unload", "return"} <=> mainPc \in {"unload", "return"}
<1>1. handled' = handled
  BY QueueStep DEF queueVars, Call
<1>2. mainPc' \in {"unload", "return"} <=> mainPc \in {"unload", "return"}
  BY DEF Next, vars, MainStep, ThreadStep, Load, StartCapture, StartProcess, PressEnter,
     LoadFramework, BindKey, Unload, Return, PluginCall, Call, ThreadEnds, RunUnmapped,
     PressQuit, OpenPluginList, ListNode, PickPlugin, PressTest, Ended
<1> QED
  BY <1>1, <1>2

\* The main loop stops at the first final command.
LEMMA FinalStep ==
  ASSUME LifeInv, [Next]_vars
  PROVE  FinalInv'
<1> DEFINE M == [from : Sender, cmd : Cmd]
<1>t. handled \in Seq(M) /\ FinalInv
  BY DEF LifeInv, LifeDataOK
<1> HIDE DEF M
<1>1. CASE HandleCommand
  <2>1. /\ mainPc = "loop"
        /\ handled' = Append(handled, Head(master_q))
        /\ mainPc' = IF Head(master_q).cmd \in Final THEN "unload" ELSE "loop"
    BY <1>1 DEF HandleCommand
  <2>2. \A i \in DOMAIN handled : handled[i].cmd \notin Final
    BY <1>t, <2>1 DEF FinalInv
  <2>3. /\ Len(handled) + 1 = Len(handled')
        /\ Len(handled') \in DOMAIN handled'
        /\ handled'[Len(handled')] = Head(master_q)
        /\ \A i \in DOMAIN handled' : i # Len(handled') =>
              i \in DOMAIN handled /\ handled'[i] = handled[i]
    BY <1>t, <2>1
  <2> QED
    BY <2>1, <2>2, <2>3 DEF FinalInv
<1>2. CASE ~HandleCommand
  BY <1>t, <1>2, OpenKept DEF FinalInv
<1> QED
  BY <1>1, <1>2

\* Before the unloading starts, the code a thread runs is mapped and the
\* nodes of the list are allocated.
LEMMA ServingOwns ==
  ASSUME LifeInv, Serving
  PROVE  /\ \A p \in File : (cap[p] = "running" \/ proc[p] = "running") => p \in opened
         /\ \A i \in DOMAIN plugin_list : plugin_list[i] \in allocated
         /\ \A i \in DOMAIN master_q : master_q[i].from \in opened \cup {UI}
<1>1. CASE mainPc = "load"
  <2>1. ListedFrom(current) \subseteq allocated
    <3>1. HandlesOwned
      BY DEF LifeInv, LoaderInv
    <3> QED
      BY <3>1 DEF HandlesOwned, InFlight
  <2>2. current = 1 /\ plugin_list \in Seq(File)
    BY <1>1 DEF LifeInv, PhaseLink, LoaderInv, PhaseInv, DataTypeOK
  <2>3. \A i \in DOMAIN plugin_list : plugin_list[i] \in ListedFrom(current)
    BY <2>2 DEF ListedFrom
  <2> QED
    BY <1>1, <2>1, <2>3 DEF LifeInv, AloneWhileLoading
<1>2. CASE mainPc # "load"
  <2>1. opened = Listed /\ allocated = Listed
    BY <1>2, ReadyOwns DEF LifeInv, PhaseLink, Serving
  <2> QED
    BY <2>1 DEF LifeInv, ThreadInv, SenderInv, Listed
<1> QED
  BY <1>1, <1>2

\* No thread touches what is gone before the unloading has started.
LEMMA FaultStep ==
  ASSUME LifeInv, [Next]_vars
  PROVE  FaultInv'
<1>1. CASE Serving
  <2>1. \A p \in File : ~RunUnmapped(p)
    BY <1>1, ServingOwns DEF RunUnmapped
  <2>2. \A i \in DOMAIN plugin_list : ReadNode(plugin_list[i]) => faulted' = faulted
    BY <1>1, ServingOwns DEF ReadNode
  <2>3. faulted' = faulted
    BY <2>1, <2>2 DEF Next, vars, MainStep, ThreadStep, Load, StartCapture, StartProcess,
       PressEnter, LoadFramework, BindKey, HandleCommand, Unload, Return, PluginCall, Call,
       ThreadEnds, PressQuit, OpenPluginList, ListNode, PickPlugin, PressTest, Ended
  <2> QED
    BY <1>1, <2>3 DEF LifeInv, FaultInv
<1>2. CASE ~Serving
  <2>1. ~Serving'
    BY <1>2 DEF LifeInv, LifeDataOK, Serving, Next, vars, MainStep, ThreadStep, Load,
       StartCapture, StartProcess, PressEnter, LoadFramework, BindKey, HandleCommand,
       Unload, Return, PluginCall, Call, ThreadEnds, RunUnmapped, PressQuit,
       OpenPluginList, ListNode, PickPlugin, PressTest, Ended
  <2> QED
    BY <2>1 DEF FaultInv
<1> QED
  BY <1>1, <1>2

\* Every step of the process keeps the invariant.
LEMMA LifeNextInv == LifeInv /\ [Next]_vars => LifeInv'
<1> SUFFICES ASSUME LifeInv, [Next]_vars
             PROVE  LifeInv'
  OBVIOUS
<1>1. LoaderInv' /\ LifeFlagsOK'
  BY LoaderPart, FlagsStep DEF LifeInv
<1>2. LifeDataOK' /\ PhaseLink' /\ AloneWhileLoading' /\ UILink'
  BY DataStep, PhaseStep, AloneUIStep
<1>3. ThreadInv' /\ SenderInv' /\ FinalInv' /\ FaultInv'
  BY ThreadStepInv, SenderStep, FinalStep, FaultStep
<1> QED
  BY <1>1, <1>2, <1>3 DEF LifeInv

-----------------------------------------------------------------------------
(* The theorems                                                            *)

\* The inductive invariant holds in every reachable state of the process.
THEOREM LifeInvariant == Spec => []LifeInv
BY LifeInitInv, LifeNextInv, PTL DEF Spec

\* Every variable keeps to its type, for any number of files and commands.
THEOREM TypeCorrect == Spec => []TypeOK
<1>1. LifeInv => TypeOK
  BY DEF LifeInv, LoaderInv, DataTypeOK, MutexTypeOK, LoaderTypeOK, LifeFlagsOK,
     LifeDataOK, TypeOK
<1> QED
  BY <1>1, LifeInvariant, PTL

\* Up to the end of zt_main_loop() no thread, queued command or walk over the
\* plugin list refers to anything unloaded or freed.
THEOREM NothingDanglesWhileServing == Spec => []ServingSafe
<1>1. LifeInv => ServingSafe
  <2> SUFFICES ASSUME LifeInv, Serving
               PROVE  /\ \A p \in File : (cap[p] = "running" \/ proc[p] = "running") => p \in opened
                      /\ \A i \in DOMAIN master_q : master_q[i].from \in opened \cup {UI}
                      /\ \A i \in DOMAIN plugin_list : plugin_list[i] \in allocated
                      /\ ~faulted
    BY DEF ServingSafe
  <2>1. ~faulted
    BY DEF LifeInv, FaultInv
  <2> QED
    BY <2>1, ServingOwns
<1> QED
  BY <1>1, LifeInvariant, PTL

\* What the loader keeps it keeps in the process, beside all other threads:
\* handles, nodes, list, mutex and a list that is never empty at unloading.
THEOREM LoaderKeptInProcess ==
  Spec => [](LoaderTypeOK /\ LoaderSafe /\ ListAccounted)
<1>1. LifeInv => LoaderTypeOK /\ LoaderSafe /\ ListAccounted
  BY LoaderInvImplies DEF LifeInv, LoaderSafe
<1> QED
  BY <1>1, LifeInvariant, PTL

\* A use of freed memory or unmapped code, which the missing
\* unload_thread_pairs() allows, needs a handled MC_EXIT or MC_KILL_ALL.
THEOREM FaultsOnlyInShutdown == Spec => []FaultOnlyAfterFinal
<1>1. LifeInv => FaultOnlyAfterFinal
  BY DEF LifeInv, FaultInv, LifeDataOK, Serving, FinalInv, FaultOnlyAfterFinal
<1> QED
  BY <1>1, LifeInvariant, PTL

\* The interface comes up only after every loaded plugin has both threads.
THEOREM ThreadsBeforeUI == Spec => []PairsBeforeUI
<1>1. LifeInv => PairsBeforeUI
  <2> SUFFICES ASSUME LifeInv
               PROVE  PairsBeforeUI
    OBVIOUS
  <2>1. \A p \in File : proc[p] # "none" => cap[p] # "none"
    BY DEF LifeInv, ThreadInv
  <2>2. \A p \in File : cap[p] # "none" => \E i \in DOMAIN plugin_list : plugin_list[i] = p
    BY DEF LifeInv, ThreadInv, Listed
  <2>3. ASSUME uiOn
        PROVE  plugin_list # <<>> /\ \A i \in DOMAIN plugin_list : proc[plugin_list[i]] # "none"
    <3>1. mainPc \in {"bind", "loop", "unload", "return"}
      BY <2>3 DEF LifeInv, UILink
    <3>2. paired = Len(plugin_list) /\ plugin_list \in Seq(File)
      BY <3>1 DEF LifeInv, ThreadInv, LoaderInv, DataTypeOK
    <3>3. plugin_list # <<>>
      BY <3>1 DEF LifeInv, PhaseLink, LoaderInv, UnloadFindsPlugin, ListAccounted, PhaseInv, DataTypeOK
    <3> QED
      BY <3>2, <3>3 DEF LifeInv, ThreadInv
  <2> QED
    BY <2>1, <2>2, <2>3 DEF PairsBeforeUI
<1> QED
  BY <1>1, LifeInvariant, PTL

\* The last handled command, and no other, is the one that ends the loop.
THEOREM FinalIsLast == Spec => []LastIsFinal
<1>1. LifeInv => LastIsFinal
  BY DEF LifeInv, FinalInv, LastIsFinal, Channel!LastIsFinal
<1> QED
  BY <1>1, LifeInvariant, PTL

\* master_q, the history and the control point of main() implement the
\* command channel: a call is a Send, a turn of the main loop is a Handle,
\* and no other step is visible.
THEOREM ChannelImplemented == Spec => ImplementsChannel
<1>1. Init => Channel!Init
  BY DEF Init, Channel!Init
<1>2. LifeInv /\ [Next]_vars => [Channel!Next]_Channel!vars
  <2> SUFFICES ASSUME LifeInv, [Next]_vars
               PROVE  [Channel!Next]_Channel!vars
    OBVIOUS
  <2>1. CASE HandleCommand
    <3>1. /\ mainPc = "loop"
          /\ master_q # <<>>
          /\ master_q' = Tail(master_q)
          /\ handled' = Append(handled, Head(master_q))
          /\ mainPc' = IF Head(master_q).cmd \in Final THEN "unload" ELSE "loop"
      BY <2>1 DEF HandleCommand
    <3>2. Channel!Handle
      BY <3>1 DEF Channel!Handle
    <3> QED
      BY <3>2 DEF Channel!Next
  <2>2. CASE ~HandleCommand
    <3>1. /\ handled' = handled
          /\ (mainPc' \notin {"unload", "return"}) = (mainPc \notin {"unload", "return"})
      BY <2>2, OpenKept
    <3>2. CASE UNCHANGED queueVars
      BY <3>1, <3>2 DEF queueVars, Channel!vars
    <3>3. CASE \E s \in Sender, c \in Cmd : Call(s, c)
      <4>1. \E m \in Channel!Message : master_q' = Append(master_q, m)
        BY <3>3 DEF Call, Channel!Message
      <4>2. Channel!Send
        BY <3>1, <4>1 DEF Channel!Send
      <4> QED
        BY <4>2 DEF Channel!Next
    <3> QED
      BY <2>2, <3>2, <3>3, QueueStep
  <2> QED
    BY <2>1, <2>2
<1> QED
  BY <1>1, <1>2, LifeInvariant, PTL DEF Spec, ImplementsChannel, Channel!Spec
=============================================================================
