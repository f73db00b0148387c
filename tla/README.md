# Verification of ztsniff

ztsniff is a packet sniffer in C: a core that loads plugins (`.so` files), runs
a capture thread and a processing thread for each, loads a user interface
("I/O framework", again a `.so`) and then sleeps on a command queue until
somebody asks it to stop.  This directory holds TLA+ modules translated from
that code, TLC configurations that check them on small instances, and TLAPS
proofs about most of it for every size of the instance.

    tlc -workers 2 -config MCLifecycle.cfg MCLifecycle     # one run
    tlapm LifecycleProofs.tla                               # one proof module

`PROJECT.json` lists the runs, the theorems, which lines of the source each
definition stands for, and the hazards the properties were chosen for.

## 1. The system

| part | state it keeps | operations |
|---|---|---|
| plugin loader, `plugin-core.c` | `_g_plugin_list`, `pi_list_mutex`, one `dlopen()` handle and one node per plugin | `load_plugins`, `load_plugin_file`, `unload_plugins` |
| core, `ztsniff.c` | thread pairs, `_g_key_bindings`, `master_q` | `main`, `zt_main_loop`, `ztl_call_master`, `ztc_sockaddr_toa` |
| pcap setup, `plugin-core.c`, `pcapwrap.c` | one pcap session and one compiled filter per plugin | `zt_setup_pcap`, `open_pcap_session`, `set_session_filter` |
| output streams, `zt-io.c` | queues `Stdout`, `Stderr` | `ztprint`, `zterror` |
| framework loader, `zt-io.c` | `fwork` | `zt_load_framework`, `_zt_fix_weak_syms` |
| ncurses framework, `frameworks/ncurses*.c` | `curses_mutex`, panels, focus | `Stdout_Handler`, `Stderr_Handler`, `Input_Handler`, list windows, dialogs |
| built-in commands, `zt-builtin.c` | none of its own | `ztc_show_plugins`, `ztc_show_interfaces`, `ztc_manage_plugins`, `ztc_manage_interfaces` |
| SSDP plugin, `plugins/ssdp.c`, `ssdp-xml.c` | packet queue, packet copies, `xml_thread`, `xml_q`, the file `ssdp_xml`, timeout | `capture`, `process`, `ssdp_process`, `ssdp_retrieve_xml` |
| mDNS plugin, `plugins/mdns.c` | packet queue, timeout | `capture`, `process` |
| string bag, `zt-utils.c` | a text cut in place and arrays into it | `ztl_string_bag_create`, `_destroy`, `_dump` |
| SSDP helpers, `plugins/ssdp-util.c` | none of its own | `ssdp_shorten_urn_type`, `ssdp_shorten_urn_class`, `ssdp_send_discover`, `ssdp_build_udp_from_buffer` |
| stdio framework, `frameworks/stdio.c` | none | `Stdout_Handler`, `Stderr_Handler` |
| `zt-config.c`, a window stub, a plugin template | constant | not modelled, see section 8 |

How the parts interact:

* **Main thread to plugins.** `main()` loads the plugins, then starts two
  threads per plugin that share a `GAsyncQueue`.  It waits for Enter, loads the
  framework, binds the keys, serves `master_q`, unloads the plugins and returns.
  No thread is ever joined or stopped.
* **Threads to the main thread.** Any thread calls `ztl_call_master()`, which
  queues a command on `master_q`: the SSDP plugin does on every timeout, the
  input thread when `q` is pressed.
* **Any thread to the screen.** `ztprint()` and `zterror()` queue a message; one
  thread per stream displays it under `curses_mutex`.  The input thread holds
  the same mutex for as long as a menu or a dialog is up.  Only
  `ztf_dialog_vcat()` writes without it, into a dialog that is not shown yet.
* **Input thread to the core.** Bound keys run commands on the input thread;
  `ztc_show_plugins()` walks the plugin list there without its mutex.
* **Capture thread to process thread to XML thread.** SSDP copies the packet,
  splits its text, and queues a pointer into that text for a third thread.
  mDNS queues a pointer into libpcap's own buffer.

What is hard to test in this: the shutdown with all threads running; what is
still mapped or allocated when a thread, a queue or a menu refers to it; the
many failure paths of loading one file; a mutex held while waiting for a key;
order and loss on five queues; lifetimes of pointers that cross threads; a
timeout that is doubled for days; and a parser that is not told the length of
its input.  `PROJECT.json` lists these hazards line by line with the properties
that cover them.

For each part, correctness means:

* loader: every failure path gives back what it took; the list and the counters
  agree; unloading is only reached with something to unload.
* core: nothing a thread, a queued command or a menu refers to is gone before
  the main loop has ended; commands are a FIFO channel that stops at the first
  final command; an exit request is honoured.
* setup of the pairs: nobody captures unfiltered, a failure closes what it
  leaves, each process thread gets its own plugin's packets.
* framework loader: a complete framework loads; an incomplete one ends the
  program before it is used, as far as the loader can see it.
* streams and framework: each message appears once and in order, those written
  before there was a framework included; windows are modal; the mutex always
  comes back and the keyboard with it.
* SSDP: packet copies are freed exactly once, a queued location is still
  readable, descriptions are fetched at most once each, in order, never mixed
  up, and in the end if downloads end; what is reported about a message is what its last matching lines say; whatever
  call fails, nothing stays open or allocated.
* mDNS: one message per packet, and the packet's own bytes in it (they are not).
* timeouts: between the minimum and the maximum the header gives (they are not).
* string bag: the words of the text, up to the first empty line.

## 2. Modules

| module | models | state and actions |
|---|---|---|
| `PluginCore` | `plugin-core.c` | `loadPc` and `entry` are the position in `load_plugins()` and `load_plugin_file()`; `plugin_list`, `opened`, `allocated`, `pi_list_mutex` are the list, the open handles, the live nodes and the mutex. One action per call that can fail (`ScanDir`, `DlOpen`, `CallInit`, `AllocNode`, ...), `BeginUnload` and `UnloadOne` for the unload loop. A file is its position in the sorted directory. |
| `CommandChannel` | what `master_q` promises | abstract: `Send`, `Handle`, stops at a command in `Final` |
| `Lifecycle` | `ztsniff.c` with the threads it starts | extends `PluginCore`; `mainPc` is the position in `main()`, `cap` and `proc` the threads of each plugin, `walk` the node `ztc_show_plugins()` is at, `faulted` records a use of something freed or unmapped |
| `MessageStream` | what `ztprint()` and `zterror()` promise | abstract: `Write`, `Display` |
| `NcursesUI` | `zt-io.c`, `frameworks/ncurses*.c`, `zt-builtin.c` | `handPc`, `inHand` per display thread; `inputPc`, `window`, `item`, `visible`, `result` for the input thread; `curses_mutex` names its holder. One action per lock, unlock, key and loop turn, and one (`VcatDialog`) per write that takes no lock |
| `PairSetup` | the loop of `main()` over the plugins, `zt_setup_pcap()`, `pcapwrap.c`, `zt_capture_stub()` | `ztp` and `pc` are the position in the loop and in what it calls; `session`, `program`, `cap_args`, `proc_args`, `pairs` what it has built; `Capture` and `Process` the threads that run meanwhile |
| `FrameworkLoader` | the rest of `main()`, `zt_load_framework()`, `ztprint()`, the handlers of `ncurses.c` | extends `PairSetup`; a framework is the set of symbols its file defines; one action per lookup, call and thread; `sent`, `queue`, `inHand`, `shown` follow the messages; `modal` says that a window keeps the screen from the display threads |
| `XmlRetrieval` | `ssdp-xml.c` | `xmlPc` is the position in `ssdp_retrieve_xml()` and `execute_xpath_expression()`; `held` what is open or allocated, `disk` and `doc` whose description is in the file and in memory |
| `SsdpPair` | `ssdp.c`, `ztl_string_bag_destroy()` | extends `XmlRetrieval`; the sets of packet copies, texts and bags that are allocated; `procPc` the position of the process thread |
| `SsdpDissector` | `ssdp_process()` and its three functions, the URN functions of `ssdp-util.c` | a message is a sequence of lines; `text` is what cutting in place has made of their values, `location`, `type`, `class`, `state`, `retcode` are the variables of the code; one action per kind of line |
| `Boredom` | the timeouts of `ssdp.c` and `mdns.c` | abstract for SSDP: 32-bit arithmetic in units of 128 microseconds (every value is a multiple of 128), one action per timeout or message |
| `Timeouts` | a timeout of `ssdp.c` with `ssdp_send_discover()`, beside those of `mdns.c` | one action per call that can fail; `held` is the packet and the socket, `called` what the main thread has been sent |
| `MdnsPair` | `mdns.c` and libpcap's buffer | `slot` says which packets each slot of the buffer has bytes of; libpcap's side (`Receive`, the slots) is external, modelled from what `pcap_loop()` guarantees: a packet stays put until its callback returns |
| `StringBag` | `zt-utils.c` | the scanner's pointers `i` and `a`, the text with the NULs written so far, words and lines as positions; then the dump |
| `LifecycleProofs` (with the loader), `StartupProofs`, `NcursesProofs`, `SsdpProofs`, `DissectorProofs`, `TimeoutsProofs`, `MdnsProofs`, `StringBagProofs` | | the theorems of section 6 |
| `MC*` | | values of the constants for TLC |

`Lifecycle` composes the loader (by `EXTENDS`: `Load` and `Unload` are the
loader's actions under the control of `main()`), the threads and the command
loop; it is shown to implement `CommandChannel`.  `NcursesUI` composes streams,
framework and commands and is shown to implement `MessageStream`.
`FrameworkLoader` composes the setup of the pairs, the loading of the framework
and the streams in one run of `main()`: packets are captured, processed and
reported while the framework is not there yet; packets and messages are each
shown to implement `MessageStream`.  `SsdpPair` composes the three threads of
the SSDP plugin.  `Timeouts` is shown to implement `Boredom`: a timeout with all
its probing is one step there.  The plugins meet the rest only through
`ztl_call_master()` and `ztprint()`.  `Lifecycle` and `FrameworkLoader` both go
through `main()`: the first in coarse steps up to the unloading and with the
commands, the second in fine steps and with the messages.

Operators whose comment starts with "Fault:" are not part of the model.  Each is
an action or a helper with one plausible mistake in it; put in the place of the
operator below it, it makes the property that `PROJECT.json` names fail.  They
show that every property can tell the code from a broken version of it.

Undefined behaviour is a choice: a read of a freed node may go unnoticed or end
the process (`ReadNode`), so may reading past a text (`CreateBag`), and a plugin's
`init_plugin()` may return anything, since the shipped ones are `void`
functions called through a pointer to a function that returns `int`.  A NULL
dereference, and an execution of unmapped code, end the process.

## 3. What the runs show

| run | bounds | what it shows |
|---|---|---|
| `lifecycle`: `MCLifecycle` | 2 files, 2 commands | the loader's `LoaderSafe` (`HandlesOwned`, `MutexBalanced`, `UnloadFindsPlugin`) and `ListAccounted` in the whole process; `ServingSafe`, `FaultOnlyAfterFinal`, `PairsBeforeUI`, the refinement `ImplementsChannel`, liveness `ExitHonoured` |
| `lifecycle_unload`: `MCLifecycleUnload` | same | fails: the head of the plugin list is cleared before the plugins are unloaded |
| `startup`: `MCFrameworkLoader` | 2 plugins, 2 packets, 17 frameworks | `SessionsAccounted` (nobody captures unfiltered, failures close their session), `OnlyPartialCrash`, the refinement `ImplementsStream`, order and liveness of packets in `PacketsDelivered`, of messages, once windows stay closed, in `BufferedOutputShown` |
| `ncurses_ui`: `MCNcursesUI` | 2 plugins, 1 interface, 2 messages, 4 keys | `ScreenOwned`, `ModalWindow`, the refinement `ImplementsStream`, liveness `InputResponds`, `MessagesDisplayed` |
| `ssdp_pair`: `MCSsdpPair` | 3 packets of 8 kinds, 2 XPath nodes | `PacketsOwned`, `LocationAlive`, `LocationsInOrder` (with one XML thread), `NothingLeftBehind`, `OwnDescription`, liveness `LocationTried` (if downloads end) |
| `ssdp_dissector`: `MCSsdpDissector` | messages of up to 2 header lines, 22 texts of a value | `ChangesOnlySpoilt`, `ReportsAsReference`, `CrashOnlyWithoutValue` |
| `timeouts`: `MCTimeouts` | real timeouts; 80 mDNS timeouts are counted | `ProbeReleases`, `ToldOfTimeouts`, `OverflowsLate`, the refinement `ImplementsBoredom`, liveness `SsdpRecovers` |
| `timeouts_ssdp_range`: `MCTimeoutsRange` | same | fails: the SSDP timeout leaves its range |
| `mdns_pair`: `MCMdnsPair` | 2 slots, 5 packets | `OneMessagePerPacket`, `ReadsNoOlderPacket`, liveness `MessagePrinted` |
| `mdns_pair_stale`: `MCMdnsPairStale` | same | fails: another packet is printed than was queued |
| `string_bag`: `MCStringBag` | all texts of up to 7 characters over 4 classes | `SplitsAsReference`, `OverreadsWithoutEmptyLine` |
| `string_bag_dump`: `MCStringBagDump` | same, a line buffer of 8 | fails: the dump never ends |

Why the bounds are enough.  *Lifecycle*: a file interacts with the others only
through the list, the counters and the mutex it leaves behind; with two, each
can succeed or fail before and after one of the other sort, one can fail while
the other runs, and one can be unloaded while the other is not; two commands are
the final one and one before or after it.  The proofs cover any number of both.
*FrameworkLoader*: with two plugins one pair captures and processes while the
other is set up or fails; two packets may be of one pair, which gives them an
order, or of both.  The frameworks are the two of the repository, each one that
lacks a single symbol of a complete one, and `stdio` with the routine it lacks.
*NcursesUI*: four keys go through menu, plugin list, dialog and out of it, the
deepest nesting the commands have; two messages are one in hand and one waiting.
*SsdpPair*: with three packets one location is being retrieved, one waits and a
third packet is dissected.  *SsdpDissector*: the functions keep one value of each
kind from line to line, so that a second line is what it takes to replace or mix
them up; a status line may be one of them, with its code or without.  The texts
have every relation between the last `:`, the last `$` and the
substrings searched for.  *Timeouts*: nothing is cut, the SSDP counter is
periodic and `MaxQuiet` is past the doubling after which the mDNS timeout is
zero for good.  *MdnsPair*: a slot is rewritten twice while a pointer into it
waits.  *StringBag*: seven characters hold two lines before the empty one, one
line of several words, and every way to end without an empty line.

`CHECK_DEADLOCK` is on everywhere.  Where the program may stop or idle, the
module has an explicit action for it (`Ended`, `Idle`, `Done`) whose guard
says when, so that TLC still reports a thread stuck anywhere else.

## 4. Disagreements between the code and its comments

Four have a run that fails on them:

1. **`zt-io.c:77`** clears `sizeof(zt_framework)` bytes at the address of the
   pointer `fwork`.  What lies behind it depends on the build; with the layout
   gcc gives the objects of the Makefile it is `pi_list_mutex` and
   `_g_plugin_list`, so that `unload_plugins()` starts with `NULL`.
   (`PluginsReachable`)
2. **`plugins/ssdp.c:208`** doubles the timeout even at the maximum:
   `1800000000 << 1` is negative as an `int`, the test of line 210 misses it,
   and the thread probes the network without waiting.  Doubling goes on every
   five timeouts until the value is large enough again to be capped
   (`SsdpRecovers`).  (`SsdpWaitInRange`)
3. **`plugins/mdns.c:89`** queues a pointer into libpcap's buffer.
   (`PrintsQueuedPacket`)
4. **`zt-utils.c:171`** never advances `j`; pressing `t` overflows
   `line_buffer`.  (`DumpCompletes`)

The others were met while modelling.  The models do what the code does, and
where a property says how far the effect goes it is named:

* `plugin-core.c:85` and `zt-io.c:100` refuse a plugin and a framework when
  their initialisation is negative; both comments say "non-zero".
* `plugins/mdns.c:41` doubles without a limit and overflows after 33 timeouts in
  a row, a little over three hours of silence; after 75 the timeout is zero until
  a packet comes (`OverflowsLate`).  The message says that mDNS "will come
  back later".
* `zt-io.c:88` demands a shutdown routine, which nothing calls; `stdio.c:4-8`
  does not list it among what "ALL FRAMEWORKS MUST SUPPLY" and has none, so that
  the repository's own stdio framework is refused.
* `zt-io.c:58` looks up three of eight weak symbols and goes on whatever it finds
  (`OnlyPartialCrash`); its comment says they are "properly resolved".
* `ztsniff.c:194` leaves `self` of the thread arguments unset, "Passed in by core"
  according to `zt-plugin.h:31`.
* `ztsniff.c:318` gives `inet_ntop()` no buffer for an IPv6 address, and
  `zt-builtin.c:104` calls the function without a declaration, which cuts its
  pointer where pointers are wider than `int` (outcomes of `ScanInterface`).
* `plugins/ssdp-util.c:153` puts the `:` back at the last `$`, which is not always
  the one it put in (`ChangesOnlySpoilt`).
* `plugins/ssdp.c:76` tests for a valid type what is never `NULL`
  (`NotifyAsReference`).
* `plugins/ssdp-util.c:49` leaves the header out of the UDP length.

The shutdown of `ztsniff.c:247-248`, with `unload_thread_pairs()` commented out,
is not on this list because nothing in the repository promises otherwise.
`FaultOnlyAfterFinal` says exactly how far its damage goes: threads run freed or
unmapped memory only after a command has ended the main loop.

## 5. Fairness

Only weak fairness, and only of what the scheduler or a blocking queue gives:

* `Lifecycle`: the main thread runs when it is not blocked (`MainStep`).  The
  user is not obliged to press Enter, which is why `ExitHonoured` starts when
  the interface is up.
* `NcursesUI`: each display thread and the input thread run when they can.  A
  thread that waits for `curses_mutex` is only guaranteed to get it when it
  stays free: `GMutex` is not fair.  The numbers of keys and of messages are
  bounded, so nobody can take it for ever; with an endless stream of messages
  the code gives no such promise.  The user is not obliged to close a window,
  so `MessagesDisplayed` assumes it.
* `SsdpPair`, `MdnsPair`: the threads go on while their queue has something.  A
  download need not end: `ssdp-xml.c:58-59` sets no timeout, and a device that
  sends nothing keeps `curl_easy_perform()`, and the only XML thread, for ever.
  `LocationTried` therefore assumes that no download lasts for ever, which the
  code does nothing to ensure; without it only its safety half holds
  (`LocationsInOrder`).
* `Timeouts`: on a quiet network a wait ends in a timeout, and the probe goes on.
* `FrameworkLoader`: the main thread runs but where it waits for Enter and for
  commands, the process threads while their queue has something, the display
  threads while they have a message and no window is up: both print under
  `curses_mutex` (`ncurses.c:143`, `169`).  `BufferedOutputShown` starts when Enter
  has been pressed and assumes that the user closes the last window for good;
  with windows opened again and again a display thread might miss the mutex each
  time, and with one left up it never gets it.
* `SsdpDissector`: none, it only has safety properties.
* `StringBag`: the loops run.

Nothing is assumed of packets, plugins that send commands, or keys; what two
properties assume of downloads and of windows stands in their formulas.

## 6. What is proved

With TLAPS, for every value of the constants.  The assumptions are those the
modules state: the numbers of files, commands, packets, XPath nodes, messages,
lines, characters and keys are natural, there is at least one plugin in
`PairSetup` and one slot in libpcap's buffer in `MdnsPair`, at most 32
interfaces in `NcursesUI` (where the scan of `zt-builtin.c:102` stops), `UI` is
not a file, a framework is a set of symbols, a text of `SsdpDissector` is a
sequence of words, colons and dollars and never the missing value, and
`Timeouts` counts at least the 33 timeouts in a row that its claim about the mDNS
timeout is about.

Every safety property of the passing runs is stated by a theorem, the refinements
included.

**The loader** (in `LifecycleProofs`).  The properties are not inductive as they
stand.  `LoaderInv` adds to them what links the control point to the data: which
points can only be reached with a valid `entry`, that `current` has not passed
the end of the list while unloading, that the list is ascending and below
`entry` (so that the file being loaded is not listed, and giving up on it
removes nothing of another plugin), and that outside unloading `current` is 1.
`LoaderInvariant` proves it action by action; `LoaderTypeCorrect`,
`HandlesAreOwned`, `ListIsAccounted`, `MutexIsBalanced` and `UnloadAlwaysFinds`
follow.  Unloading
one plugin removes its handle from `opened`, which equals dropping one position
of the list only because no file is listed twice: this is why `ListAccounted` is
part of the invariant behind `HandlesOwned`.

**The process** (`LifecycleProofs`).  Every step of `Lifecycle` is a step of the
loader or leaves its variables alone (`LoaderStep`), so `LoaderInv` carries
over (`LoaderKeptInProcess`).  `LifeInv` adds: in which phase of `main()` the loader is in which state;
that no thread, command or walk exists while plugins are loaded; that threads
belong to listed plugins and are paired in list order; that only the interface
and plugins with a process thread have sent commands; that the history of
handled commands ends with the final one exactly when the loop has ended; and
that nothing has faulted before.  From it follow `TypeCorrect`,
`NothingDanglesWhileServing`, `FaultsOnlyInShutdown`, `ThreadsBeforeUI` and
`FinalIsLast` (no run checks that one by itself: `ImplementsChannel` contains
it).  `ChannelImplemented` is the refinement: initial states map to
initial states, `Call` to `Send`, `HandleCommand` to `Handle`, everything else
to a stutter.

**The start** (`StartupProofs`).  `SessionInv` accounts for the sessions: one is
open exactly for the plugins whose capture thread runs and for the one `main()`
has in hand (`SessionInHand`), and the capture threads hold filtered sessions
of plugins that are set up or nearly so.  The property alone is not inductive,
since it does not tell at which point of the loop a session lacks its filter.
The steps of the framework loader and of the other threads leave all of it alone
(`SessionsKept`); `SessionsAreAccounted` follows.  `FrameworkInv` says what has
been found in the framework, what is mapped and which handlers run at each point
of the loading; `OnlyPartialFrameworksCrash` follows.  `MessagesKeepOrder` is the
refinement of `MessageStream`: a message in the hands of a display thread is
still waiting there, so taking it from its queue is a stutter.
`ThreadsInv` says that the threads of a plugin that run have the plugin's own queue,
`PacketsInv` that what is in that queue or has been processed from it is the plugin's
own.  From these (`DeliveryInvariant`) follows `PacketsKeepOrder`, the part of
`PacketsDelivered` that is not liveness: the packets of each plugin, with its two
threads, implement `MessageStream`.  The bound on all packets counts a set of
them (`AllCaptured`), which leaves room for one more wherever it holds
(`RoomForOne`).  With the types of the messages, of the windows and of the loader's own variables
(`StreamInv`, `RestInv`), `TypeCorrect` covers every variable.

**The screen** (`NcursesProofs`).  `ScreenOwned` ties `curses_mutex` to the control
points of all three threads: it is held exactly by the one that refreshes the
screen.  The input thread also writes into a new dialog without it
(`VcatDialog`); the property says that no window is on the screen then.  To be
inductive it needs the types of what the
input thread works on (`InputTypes`) and that the cursor of a menu stays inside it
and a menu of commands never returns a value (`MenuAt`): otherwise what follows a
menu need not be a window.  `WindowsAreModal` follows: a panel is visible only
while the input thread holds the mutex, and displaying needs it.  With the types
of the messages (`StreamInv`) and the bounds (`BoundsInv`) it gives `TypeCorrect`.
`MessagesKeepOrder` is the refinement of `MessageStream`, whatever windows open in
between.

**The SSDP plugin** (`SsdpProofs`).  `HeldAt` says what is open or allocated at each
point of a retrieval, `DocumentAt` whose description is on disk and in memory;
from them follow `NothingIsLeftBehind` and `DescriptionsAreOwn`.  `PacketsQueued`
adds that the queued packets are different from each other, from the one in
process and from those to come, and that copies exist for just these: without it
a free could hit a copy that is still queued.  `ProcessAt` says what the process
thread has made of its packet, `LocationsKept` that the locations of both queues
lie in texts that are allocated.  `PairInvariant` proves them together, thread by
thread; `PacketsAreOwned`, `LocationsStayAlive` and `PairTypeCorrect` follow.
`LocationsKeepOrder` is about sequences: `OrderInv` says that the locations tried, at
hand and queued, one after the other, ascend and are those of the packets
dissected so far.  A retrieval only moves a location along this sequence, a
dissected message appends to it; that it then still ascends needs the order of the
packets that wait (`PacketsInOrder`).

**A message** (`DissectorProofs`).  `TextNow` tells every text of the message, at
every line: as it was received, or, where the class has been taken, what
`ssdp_shorten_urn_class()` left.  `ClassCut` is the lemma about that function: two
uses of `strrchr()`, one of them on a text cut by the other, find the class that
lies between the last two separators, and the writes are undone unless the
text has a single colon or a dollar behind the last; it rests on the place of the
last separator (`LastPlaceOf`, `ColonsOf`), for texts of any length.
`CutsOnlySpoilt` follows.  `NotifyRead` and `ResponseRead` relate the variables to
the lines read so far: class and type (`UrnRead`), state (`StateRead`), location
(`LocationRead`) and status code (`StatusRead`) are those of the last matching line
before `line_num`; a `LOCATION:` or status line without a value counts, an `NT:` without one
does not.  `FoundPrinted` says the same of what a response has printed
on the way, one `FOUND` for each `ST:` line before `line_num` (`FoundBefore`).
Passing a line that counts makes it the last one (`UrnReadGrows`,
`StateReadGrows`, `FoundGrows`), and behind the last line this is what the reference
definition says (`UrnAtEnd`, `StateAtEnd`, `FoundAtEnd`): `ReportsWhatLinesSay`.
A printed type may be a pointer into a line that was cut after the type was
taken; `DescribesCut` relates what it shows to the line as received.
`CrashesAreExplained` needs `TextNow`, as a text is tested for NULL after it may have
been cut, and `StatusRead`, as the end of a response prints what the last status
line, at the top or further down, left behind.

**The timeouts** (`TimeoutsProofs`).  `HeldAt` says what a probe has allocated and opened at
each of its points, `ToldAt` what the main thread has been sent; with the values
the SSDP timeout takes they are inductive (`ProbeInvariant`).
`ReleasesWhatItHolds` and `TellsOfTimeouts` follow, and `SsdpTakesTenValues`: the climb,
the maximum and its two doublings in 32 bits, both negative, and never zero, from which
doubling would not get away.  For mDNS `MdnsClimb` is the table of the eleven
values on the way, by the quiet time that leads to each (`MdnsInvariant`);
`OverflowsAreLate` follows from the two.  `ProbesImplementBoredom` is the refinement:
the step that ends a probe is the timeout of `Boredom`, the others are stutters.

**The mDNS plugin** (`MdnsProofs`).  `PointersQueued` says that printed, in hand and
queued are together the packets delivered, in order, each with the slot it came
in; `SlotsRenewed` that nothing in a slot is older than the last packet
delivered from it.  Together they are inductive (`MdnsInvariant`);
`MessagesMatchPackets` and `ReadsAreNotOlder` follow.  `StaleOnlyWhenLapped` tells how
far the finding of `mdns_pair_stale` reaches: a message is its own packet as long as
libpcap has not begun to write a packet that is a whole buffer later.

**The string bag** (`StringBagProofs`).  `CopyInv` gives the copy character by
character: NUL at the cuts behind the scanner, the text everywhere else.
`LineInv` says that the line in work begins behind the last break and that its words
begin behind the cuts since; `LinesInv` says the same of each line in the bag.
The step that ends a line rests on `LineAtBreak`: the pointer of the current
word is at the scanner exactly when the line is empty.  The reference counts words
and lines with `InOrder`, whose lemmas (`InOrderGaps`, `InOrderAdd`) are proved by
taking a least counterexample.  `SplitsEveryText` follows: from where a word
begins the first NUL is the next cut (`WordFound`), although the text goes on being cut
behind it.  `OverreadsExactly` is the other half: with an empty line ahead the
lookahead stays in the copy (`EmptyLineStopsParser`).

Only model-checked: all liveness (temporal reasoning under fairness is out of
this prover's reach), that is `ExitHonoured`, `InputResponds`, `MessagesDisplayed`,
`BufferedOutputShown`, `LocationTried`, `SsdpRecovers`, `MessagePrinted` and the
liveness in `PacketsDelivered`.

## 7. Simplifications

* A plugin of `Lifecycle` is any plugin: its process thread may send any
  command at any time while its code is mapped and may end.  Crashes that
  plugins cause by themselves are in `SsdpPair`, not in `Lifecycle`.
* Key bindings are present or absent; an insertion is atomic.
* A window of `NcursesUI` is always created: a failing `malloc()`, which the code
  answers by returning early or by a NULL dereference, is left out.
* After `q` in a menu or dialog the drivers (`ncurses.c:225-254`) return no
  value; the callers then see the key code, which selects nothing.
* In `SsdpPair` a packet is one of the kinds the code can tell apart.  The texts
  are never freed, as in the code.
* In `FrameworkLoader` a weak symbol the framework lacks is an address of 0 that
  only the commands of `zt-builtin.c` call (`UseWidget`); what the handlers do under
  `curses_mutex` is one step there and in its own steps in `NcursesUI`, and a window
  is up or not.  The handlers of `stdio.c` print without a lock; they never run,
  since `zt-io.c:88` refuses that framework, and are not modelled.  Messages
  are written by the process threads.  `Return` stands for the unloading and the
  return of `main()`, which `Lifecycle` has in its own steps.
* `XmlRetrieval` registers one pair of namespaces; more are more of the same call.
* In `Timeouts` the datagram of a probe is there or not; its bytes do not matter to
  any property.

## 8. Not modelled, and the plan

Not modelled: `zt-config.c` (an array nobody reads),
`frameworks/ncurses-gen-window.c` (a stub), `plugins/skeleton.c` (a template),
`calc_ip_offset_for_link()` and `ztl_line_tokens_next()` (called by nobody),
colours, geometry and terminal initialisation of curses, the bytes of packets
and datagrams, and the build files.  The memory that menus leak (`zt-builtin.c:78`), a lookup of a key during an
insertion (`zt-io.c:126`) and the length of a payload (`ssdp.c:268`) are listed as
hazards without a property: each is below what the models tell apart.  So is
what curses calls without the mutex do to curses' own data
(`ncurses-dialog.c:19`): `ScreenOwned` only says that they do not reach the screen.

What is left to prove tells more than the runs ask:

1. `Lifecycle`: that the head of the list is lost in `zt_load_framework()` and nowhere
   else, which is how far the finding of `lifecycle_unload` reaches.
2. `StringBag`: that the dump of a bag only ever ends in the fault of
   `DumpCompletes`, after the number of words its buffer holds.
3. `MessageStream` and `CommandChannel` by themselves: that what is shown or handled
   is a beginning of what has been sent.  The refinements then carry it over to
   every stream and to the command queue.
