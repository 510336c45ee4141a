------------------------------- MODULE FileMap -------------------------------
(* The file map: which stretches of memory map which files.  ts_mmap enters a
   node into two search trees, one by start address and one by the POINTER to
   the file's name, and into openFileArray; ts_munmap and ts_close take it out
   again, each searching one of the trees with the comparator of the other.
   ts_memcpy looks the source of a copy up by address, ts_read by name.

   A tree is the sequence of its cells in order; its shape is not kept: a
   search takes any path that a red-black tree of the size allows.  Mapped
   areas are MapLen addresses long and begin at offset 0 of their file.      *)
EXTENDS PoolOps, FiniteSets

CONSTANTS
    Files,
    Fds,                        \* descriptors
    Names,                      \* addresses malloc gives to names, in order
    CallerPath,                 \* the path ts_openat was called with: also one
    Starts,                     \* addresses mmap may return
    MapLen,                     \* addresses in a mapping
    MAP_FAILED,                 \* what it returns instead: above every address
    MAX_FILE_NUM,               \* entries of openFileArray
    FILEMAPTREENODEPOOLSIZE,    \* nodes, and entries of FD2PATH
    NameTreeBound,              \* no mmap with more nodes in the name tree
    None                        \* no file, no cell, no name: NULL

ASSUME NamesAssumption == Names \cup {CallerPath} \subseteq Nat /\ CallerPath \notin Names
ASSUME StartsAssumption ==
    /\ MapLen \in Nat \ {0} /\ MAP_FAILED \in Nat /\ Starts \subseteq Nat
    /\ \A s \in Starts : s + MapLen < MAP_FAILED
\* The kernel maps no address twice.
ASSUME AreasAssumption ==
    \A s, t \in Starts : s < t => s + MapLen <= t
ASSUME SizesAssumption ==
    {MAX_FILE_NUM, FILEMAPTREENODEPOOLSIZE} \subseteq Nat \ {0} /\ Fds \subseteq Nat

Cells == 0..(FILEMAPTREENODEPOOLSIZE - 1)

ASSUME NoneAssumption == None \notin Files \cup Names \cup {CallerPath} \cup Cells

VARIABLES
    fdFile,             \* the kernel's: file of each descriptor, or None
    kernelMap,          \* the kernel's: file of each mapped area
    FD2PATH,            \* slot -> name, or None
    heap,               \* names malloc gave out and free has not taken back
    nodes,              \* cell -> its content: start, fileName, fd
    nodePool,           \* free cells
    fileMapTree,        \* cells in order of start
    fileMapNameTree,    \* cells in order of fileName when they were entered
    openFileArray,      \* slot -> cell, or None
    rec,                \* one record of a copy: its fileName, the true source
    stopped,            \* why the process ended, or ""
    history             \* ghost: orderly, crowded, shared (see below)

library == <<FD2PATH, heap, nodes, nodePool, fileMapTree, fileMapNameTree,
             openFileArray>>
vars == <<fdFile, kernelMap, library, rec, stopped, history>>

slotOf(fd) == fd % MAX_FILE_NUM
GETPATH(fd) == FD2PATH[fd % FILEMAPTREENODEPOOLSIZE]

Init ==
    /\ fdFile = [fd \in Fds |-> None]
    /\ kernelMap = [s \in {} |-> None]
    /\ FD2PATH = [i \in Cells |-> None]
    /\ heap = {}
    /\ nodes = [c \in Cells |-> [start |-> 0, fileName |-> None, fd |-> 0]]
    /\ nodePool = NewPool(FILEMAPTREENODEPOOLSIZE)
    /\ fileMapTree = <<>>
    /\ fileMapNameTree = <<>>
    /\ openFileArray = [i \in 0..(MAX_FILE_NUM - 1) |-> None]
    /\ rec = None
    /\ stopped = ""
    /\ history = [orderly |-> TRUE, crowded |-> FALSE, shared |-> FALSE]

Running == stopped = ""

-----------------------------------------------------------------------------
(* Searching a tree.                                                         *)

Sign(a, b) == IF a < b THEN -1 ELSE IF a > b THEN 1 ELSE 0

tailOf(node) == IF node.start = MAP_FAILED THEN MapLen - 1 ELSE node.start + MapLen
addressOf(name) == IF name = None THEN -1 ELSE name

\* Mutation of fileMapTreeInsDelCompare: equal starts are not equal.
InsDelCompareLess(a, b) == IF a.start <= b.start THEN -1 ELSE 1

fileMapTreeInsDelCompare(a, b) == Sign(a.start, b.start)
fileMapNameTreeInsDelCompare(a, b) == Sign(addressOf(a.fileName), addressOf(b.fileName))

\* Mutation of fileMapTreeSearchCompare: its answers are swapped.
SearchCompareSwapped(start, tail, b) ==
    IF start > b.start /\ start > tailOf(b) THEN -1
    ELSE IF start < b.start /\ tail < b.start THEN 1
    ELSE 0

\* a is [start, tail]: both ends count, here and in b.
fileMapTreeSearchCompare(start, tail, b) ==
    IF start > b.start /\ start > tailOf(b) THEN 1
    ELSE IF start < b.start /\ tail < b.start THEN -1
    ELSE 0

(* May a red-black tree have a root with l nodes on its left and r on its
   right?  (Exactly so for fewer than eight nodes in all; of more, every shape
   such a tree has and some that it has not.)                                *)
Balanced(l, r) == (l <= 1 /\ r <= 1) \/ (l >= 1 /\ r >= 1)

(* Where a search may end in a tree whose i-th node compares as cmp[i]: at a
   node (hit), or at the place where tsearch would enter one.                *)
Ends(cmp) ==
    LET n == Len(cmp)
        From[range \in (1..(n + 1)) \X (0..n)] ==
          LET lo == range[1]
              hi == range[2]
          IN  IF lo > hi THEN {[at |-> lo, hit |-> FALSE]}
              ELSE UNION {IF cmp[m] = 0 THEN {[at |-> m, hit |-> TRUE]}
                          ELSE IF cmp[m] < 0 THEN From[<<lo, m - 1>>]
                          ELSE From[<<m + 1, hi>>]
                            : m \in {i \in lo..hi : Balanced(i - lo, hi - i)}}
    IN  From[<<1, n>>]

ByStart(tree, key) ==
    Ends([i \in 1..Len(tree) |-> fileMapTreeInsDelCompare(key, nodes[tree[i]])])
ByName(tree, content, key) ==
    Ends([i \in 1..Len(tree) |-> fileMapNameTreeInsDelCompare(key, content[tree[i]])])
ByRange(tree, start, tail) ==
    Ends([i \in 1..Len(tree) |-> fileMapTreeSearchCompare(start, tail, nodes[tree[i]])])

\* Mutation of Enter: a node is entered beside its equal.
EnterAgain(tree, e, c) ==
    SubSeq(tree, 1, e.at - 1) \o <<c>> \o SubSeq(tree, e.at, Len(tree))

\* Mutation of Delete: tdelete is left out.
DeleteNothing(tree, e) == tree

\* tsearch and tdelete, given where the search ended.
Enter(tree, e, c) ==
    IF e.hit THEN tree
    ELSE SubSeq(tree, 1, e.at - 1) \o <<c>> \o SubSeq(tree, e.at, Len(tree))
Delete(tree, e) ==
    IF e.hit THEN SubSeq(tree, 1, e.at - 1) \o SubSeq(tree, e.at + 1, Len(tree))
    ELSE tree

-----------------------------------------------------------------------------
(* Opening files.  ts_open and ts_fopen keep the string realpath returned, at
   any address malloc has free; Names bounds how many of them are kept.      *)

Mallocable == Names \ heap

Opens(fd, file) ==
    /\ Running
    /\ fdFile[fd] = None
    /\ fdFile' = [fdFile EXCEPT ![fd] = file]
    /\ UNCHANGED <<kernelMap, nodes, nodePool, fileMapTree, fileMapNameTree,
                   openFileArray, rec, stopped>>

\* Mutation of STOREPATH: the modulus is left out.
STOREPATHBeyond(fd, name) ==
    FD2PATH' = [i \in Cells \cup {fd} |-> IF i = fd THEN name ELSE FD2PATH[i]]

STOREPATH(fd, name) ==
    FD2PATH' = [FD2PATH EXCEPT ![fd % FILEMAPTREENODEPOOLSIZE] = name]

ts_open(fd, file) ==
    /\ Opens(fd, file)
    /\ \E name \in Mallocable :
          /\ STOREPATH(fd, name)
          /\ heap' = heap \cup {name}
    /\ UNCHANGED history

\* An empty file: the path of the slot's last file stays.
ts_fopenEmpty(fd, file) ==
    /\ Opens(fd, file)
    /\ UNCHANGED <<FD2PATH, heap, history>>

\* The caller's own string is kept.
ts_openat(fd, file) ==
    /\ Opens(fd, file)
    /\ STOREPATH(fd, CallerPath)
    /\ UNCHANGED <<heap, history>>

-----------------------------------------------------------------------------
(* Mapping.                                                                  *)

InOrder(tree, content) ==
    \A i, j \in 1..Len(tree) :
        i < j => content[tree[i]].start < content[tree[j]].start

(* The kernel's answer to mmap: a free area, or MAP_FAILED.                  *)
KernelMaps(fd, ret) ==
    \/ /\ ret \in Starts \ DOMAIN kernelMap
       /\ kernelMap' = [s \in DOMAIN kernelMap \cup {ret} |->
                          IF s = ret THEN fdFile[fd] ELSE kernelMap[s]]
    \/ ret = MAP_FAILED /\ UNCHANGED kernelMap

\* GETPATH is NULL, or no node is free: strncmp and the assertion fail.
MapStops(fd, ret) ==
    /\ stopped' = IF GETPATH(fd) = None THEN "null" ELSE "pool"
    /\ UNCHANGED <<library, history>>

Register(fd, ret) ==
    LET c     == Top(nodePool)
        node  == [start |-> ret, fileName |-> GETPATH(fd), fd |-> fd]
    IN  /\ nodes' = [nodes EXCEPT ![c] = node]
        /\ nodePool' = Pop(nodePool)
        /\ openFileArray' = [openFileArray EXCEPT ![slotOf(fd)] = c]
        /\ \E e \in ByStart(fileMapTree, node) : fileMapTree' = Enter(fileMapTree, e, c)
        /\ \E e \in ByName(fileMapNameTree, nodes', node) :
              fileMapNameTree' = Enter(fileMapNameTree, e, c)
        /\ history' =
             [history EXCEPT
                !.orderly = @ /\ ret # MAP_FAILED /\ InOrder(fileMapNameTree', nodes'),
                !.crowded = @ \/ ret = MAP_FAILED
                              \/ \E i \in 1..Len(fileMapTree) :
                                   slotOf(nodes[fileMapTree[i]].fd) = slotOf(fd),
                !.shared = @ \/ node.fileName \notin heap \cup {CallerPath}
                             \/ \E i \in 1..Len(fileMapTree) :
                                  nodes[fileMapTree[i]].fileName = node.fileName]
        /\ UNCHANGED <<FD2PATH, heap, stopped>>

ts_mmap(fd, ret) ==
    /\ Running
    /\ fdFile[fd] # None
    /\ Len(fileMapNameTree) < NameTreeBound
    /\ KernelMaps(fd, ret)
    /\ IF GETPATH(fd) = None \/ nodePool.idx = 0 THEN MapStops(fd, ret)
       ELSE Register(fd, ret)
    /\ UNCHANGED <<fdFile, rec>>

-----------------------------------------------------------------------------
(* Unmapping and closing.                                                    *)

(* free(name): of a string that is not allocated, the process aborts; of the
   caller's, it aborts unless that happened to come from malloc.             *)
Free(name) ==
    \/ /\ name \in heap \cup {CallerPath}
       /\ heap' = heap \ {name}
       /\ UNCHANGED stopped
    \/ /\ name \notin heap
       /\ stopped' = "free"
       /\ UNCHANGED heap

\* Mutation of Drop: the entry of openFileArray stays.
DropKeepsEntry(c) ==
    /\ nodePool' = Push(nodePool, c)
    /\ UNCHANGED openFileArray

\* Mutation of Drop: the entry with the number of the node is cleared.
DropEntryOfNode(c) ==
    /\ openFileArray' = [openFileArray EXCEPT ![slotOf(c)] = None]
    /\ nodePool' = Push(nodePool, c)

Drop(c) ==
    /\ openFileArray' = [openFileArray EXCEPT ![slotOf(nodes[c].fd)] = None]
    /\ nodePool' = Push(nodePool, c)

(* The area at start goes.  The name tree is searched by start address.      *)
ts_munmap(start) ==
    /\ Running
    /\ start \in DOMAIN kernelMap
    /\ kernelMap' = [s \in DOMAIN kernelMap \ {start} |-> kernelMap[s]]
    /\ LET key == [start |-> start]
       IN  \E found \in ByStart(fileMapTree, key) :
             IF found.hit
             THEN LET c == fileMapTree[found.at]
                  IN  /\ Drop(c)
                      /\ fileMapTree' = Delete(fileMapTree, found)
                      /\ \E e \in ByStart(fileMapNameTree, key) :
                            fileMapNameTree' = Delete(fileMapNameTree, e)
                      /\ Free(nodes[c].fileName)
             ELSE UNCHANGED <<openFileArray, nodePool, fileMapTree,
                              fileMapNameTree, heap, stopped>>
    /\ UNCHANGED <<fdFile, FD2PATH, nodes, rec, history>>

(* The address tree is searched by name.  The area stays mapped, the name
   allocated and in FD2PATH.                                                 *)
ts_close(fd) ==
    /\ Running
    /\ fdFile[fd] # None
    /\ fdFile' = [fdFile EXCEPT ![fd] = None]
    /\ LET key == [fileName |-> GETPATH(fd)]
       IN  \E found \in IF key.fileName = None THEN {[at |-> 1, hit |-> FALSE]}
                        ELSE ByName(fileMapTree, nodes, key) :
             IF found.hit
             THEN /\ Drop(fileMapTree[found.at])
                  /\ fileMapTree' = Delete(fileMapTree, found)
                  /\ \E e \in ByName(fileMapNameTree, nodes, key) :
                        fileMapNameTree' = Delete(fileMapNameTree, e)
             ELSE UNCHANGED <<openFileArray, nodePool, fileMapTree, fileMapNameTree>>
    /\ UNCHANGED <<kernelMap, FD2PATH, heap, nodes, rec, stopped, history>>

-----------------------------------------------------------------------------
(* Copying out of mapped files.                                              *)

Addresses == UNION {s..(s + MapLen) : s \in Starts}
fileAt(a) ==
    LET areas == {s \in DOMAIN kernelMap : a \in s..(s + MapLen - 1)}
    IN  IF areas = {} THEN None ELSE kernelMap[CHOOSE s \in areas : TRUE]

\* The mappings the lookup of ts_memcpy may find for a byte at src.
FoundFor(src) ==
    {IF e.hit THEN fileMapTree[e.at] ELSE None : e \in ByRange(fileMapTree, src, src + 1)}

(* One byte is copied from src.  A record with the name of the mapping found
   is inserted, for the byte that came from whatever is at src.              *)
ts_memcpy(src) ==
    /\ Running
    /\ fileAt(src) # None
    /\ \E c \in FoundFor(src) \ {None} :
          rec' = [fileName |-> nodes[c].fileName, file |-> fileAt(src)]
    /\ UNCHANGED <<fdFile, kernelMap, library, stopped, history>>

\* Mutation of leftBehind: what is left of the file, not of the mapping.
leftInFile(pos) == MapLen + 1 - pos

\* tail - copyBegin, as a number that may be negative.
leftBehind(pos) == MapLen - pos

(* What a read of nbytes at position pos copies, and so what its record is
   made for, through the mapping c.  A length below zero is a large one for
   MIN.                                                                      *)
copyLen(pos, nbytes) ==
    IF leftBehind(pos) < 0 \/ leftBehind(pos) > nbytes THEN nbytes ELSE leftBehind(pos)
copyBegin(c, pos) == nodes[c].start + pos
BytesRead(c, pos, nbytes) ==
    copyBegin(c, pos)..(copyBegin(c, pos) + copyLen(pos, nbytes) - 1)

(* The read through the mapping c, found by name.  The record is made with the
   node in openFileArray, if there is one.                                   *)
ReadFrom(c, fd, pos, nbytes) ==
    LET fmNode == openFileArray[slotOf(fd)]
    IN  IF \E a \in BytesRead(c, pos, nbytes) : fileAt(a) = None
        THEN stopped' = "segv" /\ UNCHANGED rec
        ELSE /\ rec' = IF fmNode = None \/ copyLen(pos, nbytes) = 0 THEN rec
                       ELSE [fileName |-> nodes[fmNode].fileName,
                             file     |-> fileAt(copyBegin(c, pos))]
             /\ UNCHANGED stopped

(* The key of the search is a node taken from the pool and given back: its
   name is written into the cell, and the search may meet that cell.         *)
KeyWritten(fd) == [nodes EXCEPT ![Top(nodePool)].fileName = GETPATH(fd)]
FoundByName(fd) ==
    LET content == KeyWritten(fd)
    IN  {IF e.hit THEN fileMapNameTree[e.at] ELSE None :
           e \in ByName(fileMapNameTree, content, content[Top(nodePool)])}

ts_read(fd, pos, nbytes) ==
    /\ Running
    /\ fdFile[fd] # None
    /\ IF nodePool.idx = 0
       THEN stopped' = "pool" /\ UNCHANGED <<nodes, rec>>
       ELSE /\ nodes' = KeyWritten(fd)
            /\ \E c \in FoundByName(fd) :
                 IF c # None THEN ReadFrom(c, fd, pos, nbytes)
                 ELSE stopped' = "exit" /\ UNCHANGED rec
    /\ UNCHANGED <<fdFile, kernelMap, FD2PATH, heap, nodePool, fileMapTree,
                   fileMapNameTree, openFileArray, history>>

(* A step of the model checker need not tell apart states that differ only in
   which cells of the pool are used, in the content of cells nothing refers
   to, or in rec, which no action reads.                                     *)
Referred ==
    LET free == [i \in 1..nodePool.idx |-> nodePool.ptr[i - 1]]
        open == [i \in 1..MAX_FILE_NUM |-> openFileArray[i - 1]]
    IN  <<free, fileMapTree, fileMapNameTree, open>>

View ==
    LET all   == Referred[1] \o Referred[2] \o Referred[3] \o Referred[4]
        first(c) == CHOOSE i \in 1..Len(all) :
                        all[i] = c /\ \A j \in 1..(i - 1) : all[j] # c
        inUse == {all[i] : i \in (nodePool.idx + 1)..Len(all)}
    IN  IF stopped # "" THEN <<stopped, history>>
        ELSE
        <<fdFile, kernelMap, FD2PATH, heap, history,
          [k \in 1..4 |-> [i \in 1..Len(Referred[k]) |->
              IF Referred[k][i] = None THEN 0 ELSE first(Referred[k][i])]],
          [i \in 1..Len(all) |-> IF all[i] \in inUse \ {None} THEN nodes[all[i]] ELSE None]>>

Next ==
    \/ \E fd \in Fds, file \in Files :
          ts_open(fd, file) \/ ts_fopenEmpty(fd, file) \/ ts_openat(fd, file)
    \/ \E fd \in Fds, ret \in Starts \cup {MAP_FAILED} : ts_mmap(fd, ret)
    \/ \E start \in Starts : ts_munmap(start)
    \/ \E fd \in Fds : ts_close(fd)
    \/ \E src \in Addresses : ts_memcpy(src)
    \/ \E fd \in Fds, pos \in 0..(MapLen + 1), n \in 1..MapLen : ts_read(fd, pos, n)

Spec == Init /\ [][Next]_vars

-----------------------------------------------------------------------------
(* Properties.                                                               *)

CellsIn(tree) == {tree[i] : i \in 1..Len(tree)}

TypeOK ==
    /\ fdFile \in [Fds -> Files \cup {None}]
    /\ DOMAIN kernelMap \subseteq Starts
    /\ FD2PATH \in [Cells -> Names \cup {CallerPath, None}]
    /\ heap \subseteq Names
    /\ IsPool(nodePool) /\ FreeCells(nodePool) \subseteq Cells
    /\ CellsIn(fileMapTree) \cup CellsIn(fileMapNameTree) \subseteq Cells
    /\ DOMAIN openFileArray = 0..(MAX_FILE_NUM - 1)

(* ts_close searches the address tree with the comparator of names, and both
   it and ts_munmap withdraw the node they found: the address tree stays in
   order, no withdrawn node is in it, and each of its nodes whose mmap did not
   fail is an area that is mapped.                                           *)
AddressTreeLive ==
    /\ InOrder(fileMapTree, nodes)
    /\ CellsIn(fileMapTree) \cap FreeCells(nodePool) = {}
    /\ \A i, j \in 0..(nodePool.idx - 1) :
          nodePool.ptr[i] = nodePool.ptr[j] => i = j
    /\ \A c \in CellsIn(fileMapTree) :
          nodes[c].start \in DOMAIN kernelMap \cup {MAP_FAILED}

(* The sweep and ts_read follow openFileArray: an entry is never a node that
   was withdrawn, though mappings share entries (awn.c:486, 1919).           *)
EntriesLive ==
    \A i \in DOMAIN openFileArray :
        openFileArray[i] # None =>
            /\ openFileArray[i] \notin FreeCells(nodePool)
            /\ slotOf(nodes[openFileArray[i]].fd) = i

(* What the sweep takes an entry for: as long as no two mappings have shared
   one, an entry is there exactly while a mapping of its descriptor is in the
   address tree (the openFileArray of RecTree).                              *)
EntryMeansMapped ==
    ~history.crowded =>
        \A i \in DOMAIN openFileArray :
            openFileArray[i] # None
              <=> \E c \in CellsIn(fileMapTree) : slotOf(nodes[c].fd) = i

(* ts_munmap searches the name tree by address.  As long as the order of names
   has been the order of addresses, and no mmap failed, it takes the right
   node out: no withdrawn node is found by name.                             *)
NameTreeLive ==
    history.orderly => CellsIn(fileMapNameTree) \subseteq CellsIn(fileMapTree)

(* Under the same condition, whichever mappings came and went, a read at a
   position up to the end of the file finds a mapping that is there, and the
   bytes its record is made for lie within it (awn.c:1571, 1589-1593).  Behind
   the end nbytes are copied from wherever that is.                          *)
ReadsStayMapped ==
    Running /\ history.orderly /\ nodePool.idx > 0 =>
        \A fd \in {f \in Fds : fdFile[f] # None} : \A c \in FoundByName(fd) \ {None} :
            LET start == nodes[c].start
            IN  /\ start \in DOMAIN kernelMap
                /\ \A pos \in 0..MapLen, n \in 1..MapLen :
                      BytesRead(c, pos, n) \subseteq start..(start + MapLen - 1)

(* ts_munmap frees the name of the mapping.  The name of a mapping is allocated
   as long as no mapping was made of a file that had one already, or whose
   name an earlier ts_munmap has freed.                                      *)
NamesAllocated ==
    ~history.shared =>
        \A c \in CellsIn(fileMapTree) : nodes[c].fileName \in heap \cup {CallerPath}

(* The comparator of ts_memcpy's lookup takes areas that touch for areas that
   overlap.  A byte of a registered mapping is looked up successfully, and
   what is found holds it or touches it.                                     *)
LookupTouches ==
    \A c \in CellsIn(fileMapTree), src \in Addresses :
        src \in nodes[c].start..(tailOf(nodes[c]) - 1) =>
            \A d \in FoundFor(src) :
                d # None /\ src \in (nodes[d].start - 1)..tailOf(nodes[d])

(* tree.c:252: the name tree is "used in cmpWrite to find the source file by
   the file name in the record": what a record's name finds there is a mapping
   of the file the bytes came from.                                          *)
SourceFound ==
    rec # None =>
        \A e \in ByName(fileMapNameTree, nodes, rec) :
            e.hit => LET node == nodes[fileMapNameTree[e.at]]
                     IN  node.start \in DOMAIN kernelMap
                           => kernelMap[node.start] = rec.file
=============================================================================
