------------------------------ MODULE VeDmaBuf ------------------------------
(***************************************************************************)
(* The DMA buffers of cedar_ve.c.  A client passes the descriptor of a      *)
(* buffer to IOCTL_MAP_DMA_BUF (or the older IOCTL_GET_IOMMU_ADDR): the     *)
(* driver takes a reference, attaches to the buffer, maps it for the engine *)
(* and remembers all three in a list; IOCTL_UNMAP_DMA_BUF (or               *)
(* IOCTL_FREE_IOMMU_ADDR) finds the entry by descriptor, process and file,  *)
(* and undoes them.  Nothing is undone when a file is released: the call of *)
(* unmap_dma_buf_addr in cedardev_release is commented out.                 *)
(*                                                                         *)
(* Each step of the mapping is an action, because other processes close     *)
(* descriptors of the same buffer in between; what happens under lock_mem   *)
(* is one action.                                                           *)
(***************************************************************************)
EXTENDS Integers, SequencesExt

CONSTANTS
  Processes,  \* the client processes
  FilpOf,     \* the open file of a process, which forked processes share
  Fds,        \* the descriptor numbers of each process
  Bufs,       \* the DMA buffers
  MaxMaps,    \* bound: how often a client maps one descriptor
  MaxEntries, \* bound: the length of the list
  NoBuf       \* a descriptor that is closed

ASSUME VeDmaBufAssumption == /\ DOMAIN FilpOf = Processes
                             /\ IsFiniteSet(Processes)
                             /\ IsFiniteSet(Fds) /\ Fds \subseteq Nat
                             /\ MaxMaps \in Nat /\ MaxEntries \in Nat
                             /\ NoBuf \notin Bufs

VARIABLES
  fds,         \* fds[c][n]: the buffer that descriptor n of process c names
  file_count,  \* file_count[b]: the references to buffer b
  freed,       \* the buffers whose last reference has been dropped
  attached,    \* attached[b]: how many attachments b has
  mapped,      \* mapped[b]: how many of them are mapped
  mem_list,    \* cedar_devp->list
  bMemDevAttachFlag,
  map_pc,      \* map_pc[c]: where process c is, see MapLocation
  map_fd,      \* map_fd[c]: the descriptor that c has passed, or -1
  map_buf,     \* map_buf[c]: buf_info->dma_buf of the call of c
  told,        \* told[c][n]: how many mappings of n c knows of
  strays       \* history: the processes that have lost sight of a mapping

dmaVars == <<fds, file_count, freed, attached, mapped, mem_list,
             bMemDevAttachFlag, map_pc, map_fd, map_buf, told, strays>>

\* About to take the reference, to attach, to map, to list, to answer.
MapLocation == {"user", "get", "attach", "map", "add", "answer", "gone"}

MapGo(c, from, to) == /\ map_pc[c] = from
                      /\ map_pc' = [map_pc EXCEPT ![c] = to]

DmaInit ==
  /\ fds = [c \in Processes |-> [n \in Fds |-> NoBuf]]
  /\ file_count = [b \in Bufs |-> 0]
  /\ freed = {}
  /\ attached = [b \in Bufs |-> 0]
  /\ mapped = [b \in Bufs |-> 0]
  /\ mem_list = <<>>
  /\ bMemDevAttachFlag = FALSE
  /\ map_pc = [c \in Processes |-> "user"]
  /\ map_fd = [c \in Processes |-> -1]
  /\ map_buf = [c \in Processes |-> NoBuf]
  /\ told = [c \in Processes |-> [n \in Fds |-> 0]]
  /\ strays = {}

ListVars == <<mem_list, bMemDevAttachFlag>>
CallVars == <<map_pc, map_fd, map_buf>>
ClientVars == <<fds, told, strays>>

\* fput n times; the last reference frees the buffer.
PutRefs(n) == /\ file_count' = [b \in Bufs |-> file_count[b] - n[b]]
              /\ freed' = freed \cup {b \in Bufs : n[b] > 0 /\ n[b] = file_count[b]}

One(b) == [x \in Bufs |-> IF x = b THEN 1 ELSE 0]

PutRef(b) == PutRefs(One(b))

GetRef(b) == /\ file_count' = [file_count EXCEPT ![b] = @ + 1]
             /\ UNCHANGED freed

-----------------------------------------------------------------------------
(* What processes do with their descriptors.                                *)

\* A buffer is allocated, or arrives from another process.
Import(c, n, b) ==
  /\ map_pc[c] = "user"
  /\ fds[c][n] = NoBuf
  /\ b \notin freed
  /\ fds' = [fds EXCEPT ![c][n] = b]
  /\ GetRef(b)
  /\ UNCHANGED <<attached, mapped, ListVars, CallVars, told, strays>>

\* A client that closes a mapped descriptor can unmap it no more.
CloseFd(c, n) ==
  /\ map_pc[c] = "user"
  /\ fds[c][n] # NoBuf
  /\ PutRef(fds[c][n])
  /\ fds' = [fds EXCEPT ![c][n] = NoBuf]
  /\ told' = [told EXCEPT ![c][n] = 0]
  /\ strays' = IF told[c][n] > 0 THEN strays \cup {c} ELSE strays
  /\ UNCHANGED <<attached, mapped, ListVars, CallVars>>

\* All descriptors are closed; the release of the file leaves the list alone.
DmaDie(c) ==
  /\ map_pc[c] = "user"
  /\ PutRefs([b \in Bufs |-> Cardinality({n \in Fds : fds[c][n] = b})])
  /\ fds' = [fds EXCEPT ![c] = [n \in Fds |-> NoBuf]]
  /\ told' = [told EXCEPT ![c] = [n \in Fds |-> 0]]
  /\ map_pc' = [map_pc EXCEPT ![c] = "gone"]
  /\ UNCHANGED <<attached, mapped, ListVars, map_fd, map_buf, strays>>

-----------------------------------------------------------------------------
(* Mapping.                                                                 *)

\* The flag is set before the argument is fetched, also when that fails.
MapDmaBuf(c, n) ==
  /\ MapGo(c, "user", "get")
  /\ told[c][n] < MaxMaps
  /\ Len(mem_list) + Cardinality({d \in Processes : map_buf[d] # NoBuf}) < MaxEntries
  /\ bMemDevAttachFlag' = TRUE
  /\ map_fd' = [map_fd EXCEPT ![c] = n]
  /\ UNCHANGED <<file_count, freed, attached, mapped, mem_list, map_buf, ClientVars>>

MapRefused(c) ==
  /\ map_pc[c] = "user"
  /\ bMemDevAttachFlag' = TRUE
  /\ UNCHANGED <<file_count, freed, attached, mapped, mem_list, CallVars, ClientVars>>

MapGet(c) ==
  LET b == fds[c][map_fd[c]] IN
  /\ MapGo(c, "get", "attach")
  /\ b # NoBuf
  /\ GetRef(b)
  /\ map_buf' = [map_buf EXCEPT ![c] = b]
  /\ UNCHANGED <<attached, mapped, ListVars, map_fd, ClientVars>>

\* The call returns -EFAULT.
MapReturns(c, from) == /\ MapGo(c, from, "user")
                       /\ map_fd' = [map_fd EXCEPT ![c] = -1]
                       /\ map_buf' = [map_buf EXCEPT ![c] = NoBuf]
                       /\ UNCHANGED <<ListVars, ClientVars>>

\* The descriptor names no buffer, or there is no memory for the entry.
MapGetFails(c) ==
  /\ MapReturns(c, "get")
  /\ UNCHANGED <<file_count, freed, attached, mapped>>

MapAttach(c) ==
  /\ MapGo(c, "attach", "map")
  /\ attached' = [attached EXCEPT ![map_buf[c]] = @ + 1]
  /\ UNCHANGED <<file_count, freed, mapped, ListVars, map_fd, map_buf, ClientVars>>

\* Faulty variant: returns without the label BUF_PUT.
MapAttachFailsKeeps(c) == /\ MapReturns(c, "attach")
                          /\ UNCHANGED <<file_count, freed, attached, mapped>>

\* Label BUF_PUT.
MapAttachFails(c) ==
  /\ MapReturns(c, "attach")
  /\ PutRef(map_buf[c])
  /\ UNCHANGED <<attached, mapped>>

MapMap(c) ==
  /\ MapGo(c, "map", "add")
  /\ mapped' = [mapped EXCEPT ![map_buf[c]] = @ + 1]
  /\ UNCHANGED <<file_count, freed, attached, ListVars, map_fd, map_buf, ClientVars>>

\* Faulty variant: goes to BUF_PUT and skips the detach.
MapMapFailsAttached(c) ==
  /\ MapReturns(c, "map")
  /\ PutRef(map_buf[c])
  /\ UNCHANGED <<attached, mapped>>

\* Label BUF_DETATCH.
MapMapFails(c) ==
  /\ MapReturns(c, "map")
  /\ attached' = [attached EXCEPT ![map_buf[c]] = @ - 1]
  /\ PutRef(map_buf[c])
  /\ UNCHANGED mapped

\* Under lock_mem.
MapAdd(c) ==
  /\ MapGo(c, "add", "answer")
  /\ mem_list' = Append(mem_list, [fd |-> map_fd[c], buf |-> map_buf[c],
                                   p_id |-> c, filp |-> FilpOf[c]])
  /\ map_buf' = [map_buf EXCEPT ![c] = NoBuf]
  /\ UNCHANGED <<file_count, freed, attached, mapped, bMemDevAttachFlag, map_fd,
                 ClientVars>>

MapAnswer(c) ==
  /\ MapGo(c, "answer", "user")
  /\ told' = [told EXCEPT ![c][map_fd[c]] = @ + 1]
  /\ map_fd' = [map_fd EXCEPT ![c] = -1]
  /\ UNCHANGED <<file_count, freed, attached, mapped, ListVars, map_buf, fds, strays>>

\* copy_to_user fails: the client gets -EFAULT, the entry stays.
MapAnswerFails(c) ==
  /\ MapGo(c, "answer", "user")
  /\ strays' = strays \cup {c}
  /\ map_fd' = [map_fd EXCEPT ![c] = -1]
  /\ UNCHANGED <<file_count, freed, attached, mapped, ListVars, map_buf, fds, told>>

-----------------------------------------------------------------------------
(* Unmapping, all of it under lock_mem.                                     *)

\* Faulty variant: an entry is known by its descriptor and file alone.
MatchesAnyProcess(e, c, n) == e.fd = n /\ e.filp = FilpOf[c]

Matches(e, c, n) == e.fd = n /\ e.p_id = c /\ e.filp = FilpOf[c]

\* The place of the first entry that matches, or 0.
EntryOf(c, n) == SelectInSeq(mem_list, LAMBDA e : Matches(e, c, n))

\* The entry is unmapped, detached, put and removed.  When none matches, or no
\* buffer has ever been mapped, the call does nothing and returns 0.
UnmapDmaBuf(c, n) ==
  LET i == EntryOf(c, n) IN
  /\ map_pc[c] = "user"
  /\ bMemDevAttachFlag
  /\ i # 0
  /\ mapped' = [mapped EXCEPT ![mem_list[i].buf] = @ - 1]
  /\ attached' = [attached EXCEPT ![mem_list[i].buf] = @ - 1]
  /\ PutRef(mem_list[i].buf)
  /\ mem_list' = RemoveAt(mem_list, i)
  /\ told' = [told EXCEPT ![c][n] = IF @ > 0 THEN @ - 1 ELSE 0]
  /\ UNCHANGED <<bMemDevAttachFlag, CallVars, fds, strays>>

-----------------------------------------------------------------------------
DmaProcess(c) ==
  \/ \E n \in Fds : \/ \E b \in Bufs : Import(c, n, b)
                    \/ CloseFd(c, n) \/ MapDmaBuf(c, n) \/ UnmapDmaBuf(c, n)
  \/ DmaDie(c)
  \/ MapRefused(c) \/ MapGet(c) \/ MapGetFails(c) \/ MapAttach(c)
  \/ MapAttachFails(c) \/ MapMap(c) \/ MapMapFails(c) \/ MapAdd(c)
  \/ MapAnswer(c) \/ MapAnswerFails(c)

DmaNext == \E c \in Processes : DmaProcess(c)

DmaSpec == DmaInit /\ [][DmaNext]_dmaVars

-----------------------------------------------------------------------------
(* Properties.                                                              *)

Calls(b, pcs) == Cardinality({c \in Processes : map_buf[c] = b /\ map_pc[c] \in pcs})

Entries(b) == Cardinality({i \in DOMAIN mem_list : mem_list[i].buf = b})

Descriptors(b) == Cardinality({d \in Processes \X Fds : fds[d[1]][d[2]] = b})

\* Every reference, attachment and mapping of a buffer belongs to a descriptor,
\* a list entry or a call that is still under way, whichever step of a mapping
\* fails and whoever else closes the buffer: each is given back exactly once,
\* and a buffer that the engine may use is never freed.
EveryRefAccounted ==
  \A b \in Bufs :
    /\ mapped[b] = Entries(b) + Calls(b, {"add"})
    /\ attached[b] = mapped[b] + Calls(b, {"map"})
    /\ file_count[b] = attached[b] + Calls(b, {"attach"}) + Descriptors(b)
    /\ mapped[b] > 0 => b \notin freed

\* The list agrees with what a client knows: for each descriptor as many
\* entries as mappings it was told of, all of the buffer that the descriptor
\* names, so that an unmap releases the right buffer.  Outside are clients
\* that closed a mapped descriptor, or whose answer was lost: their entries
\* are found again under a number that names another buffer by then.
ClientsKnowTheirs ==
  \A c \in Processes \ strays, n \in Fds :
    LET mine == {i \in DOMAIN mem_list :
                   mem_list[i].p_id = c /\ mem_list[i].fd = n}
    IN  map_pc[c] = "user" =>
          /\ Cardinality(mine) = told[c][n]
          /\ \A i \in mine : mem_list[i].buf = fds[c][n]

\* The list as seen from outside: how often a process has mapped a buffer as n.
Mappings == [h \in Processes \X Fds \X Bufs |->
  Cardinality({i \in DOMAIN mem_list : /\ mem_list[i].p_id = h[1]
                                       /\ mem_list[i].fd = h[2]
                                       /\ mem_list[i].buf = h[3]})]

\* The ioctls implement the abstract service: the three counts of a buffer, put
\* back step by step on every way out, amount to its being freed exactly when
\* nobody refers to it any more.
BufferService == INSTANCE VeBufferService
                   WITH names <- fds, pins <- map_buf, maps <- Mappings

ImplementsBufferService == BufferService!Spec
=============================================================================
