----------------------------- MODULE VeDebugInfo -----------------------------
(***************************************************************************)
(* The table debug_info of cedar_ve.c.  A codec thread stores a text about  *)
(* itself in a slot found by its (pid, tid) with IOCTL_PROC_INFO_COPY,      *)
(* gives the slot back with IOCTL_PROC_INFO_STOP, and the sysfs file        *)
(* ve_info shows all slots.                                                 *)
(*                                                                         *)
(* lock_debug_info protects the table, but not debug_info_cur_index: a COPY *)
(* resets it before it takes the mutex.  A call is therefore cut before the *)
(* mutex and between the search, which sets the index, and its use.         *)
(***************************************************************************)
EXTENDS Integers, FiniteSetsExt

CONSTANTS
  Callers,     \* the threads, each its own (pid, tid)
  MaxSlots,    \* MAX_VE_DEBUG_INFO_NUM
  Lengths,     \* the lengths of texts
  PageSize,    \* how much ve_info_show may write
  Buffers,     \* what vmalloc may return
  NoCaller,    \* a slot that is empty (pid = tid = 0); a mutex that is free
  Shower,      \* the thread that reads ve_info
  NoBuffer     \* NULL

ASSUME VeDebugInfoAssumption ==
  /\ MaxSlots \in Nat
  /\ Lengths \subseteq Nat \ {0}
  /\ PageSize \in Nat
  /\ NoCaller \notin Callers
  /\ Shower \notin Callers \cup {NoCaller}
  /\ NoBuffer \notin Buffers

Slots == 0 .. MaxSlots - 1

VARIABLES
  lock_debug_info,       \* the owner of the mutex
  debug_info_cur_index,
  head_info,             \* head_info[i]: [key, length] of slot i
  slot_data,             \* slot_data[i]: the pointer of slot i
  vsize,                 \* vsize[b]: the size of a buffer, 0 when not allocated
  debug_pc,              \* debug_pc[t]: "user", "lock", "found" or "gone"
  debug_head,            \* debug_head[t]: the length of t's text
  debug_slot,            \* debug_slot[t]: the slot t's search has found, or -1
  mishaps                \* history: see Mishaps

debugVars == <<lock_debug_info, debug_info_cur_index, head_info, slot_data,
               vsize, debug_pc, debug_head, debug_slot, mishaps>>

(***************************************************************************)
(* What the code has no answer to, and the properties therefore exclude:    *)
(* "index", a COPY that met an index which is not that of its search;       *)
(* "vmalloc", no memory for the text; "copy", a text that cannot be read.   *)
(***************************************************************************)
Mishaps == {"index", "vmalloc", "copy"}

Empty == [key |-> NoCaller, length |-> 0]

DebugInit ==
  /\ lock_debug_info = NoCaller
  /\ debug_info_cur_index = 0
  /\ head_info = [i \in Slots |-> Empty]
  /\ slot_data = [i \in Slots |-> NoBuffer]
  /\ vsize = [b \in Buffers |-> 0]
  /\ debug_pc = [t \in Callers |-> "user"]
  /\ debug_head = [t \in Callers |-> 0]
  /\ debug_slot = [t \in Callers |-> -1]
  /\ mishaps = {}

TableVars == <<head_info, slot_data, vsize>>

DebugGo(t, from, to) == /\ debug_pc[t] = from
                        /\ debug_pc' = [debug_pc EXCEPT ![t] = to]

SlotsOf(k) == {i \in Slots : head_info[i].key = k}

-----------------------------------------------------------------------------
(* IOCTL_PROC_INFO_COPY.                                                    *)

\* The index is reset; then the head of the text is fetched, or cannot be.
DebugCopy(t, n) ==
  /\ DebugGo(t, "user", "lock")
  /\ debug_info_cur_index' = -1
  /\ debug_head' = [debug_head EXCEPT ![t] = n]
  /\ UNCHANGED <<lock_debug_info, TableVars, debug_slot, mishaps>>

DebugCopyRefused(t) ==
  /\ debug_pc[t] = "user"
  /\ debug_info_cur_index' = -1
  /\ UNCHANGED <<lock_debug_info, TableVars, debug_pc, debug_head, debug_slot,
                 mishaps>>

\* The slot of t, or else an empty one.
SlotFor(t) == IF SlotsOf(t) # {} THEN SlotsOf(t) ELSE SlotsOf(NoCaller)

DebugFind(t) ==
  /\ DebugGo(t, "lock", "found")
  /\ lock_debug_info = NoCaller
  /\ lock_debug_info' = t
  /\ UNCHANGED <<slot_data, vsize, debug_head, mishaps>>

\* Faulty variant: searches without the mutex.
DebugClaimUnlocked(t) ==
  /\ SlotFor(t) # {}
  /\ LET i == Min(SlotFor(t)) IN
       /\ DebugGo(t, "lock", "found")
       /\ lock_debug_info' = t
       /\ debug_info_cur_index' = i
       /\ debug_slot' = [debug_slot EXCEPT ![t] = i]
       /\ head_info' = [head_info EXCEPT ![i] = [key |-> t, length |-> debug_head[t]]]
       /\ UNCHANGED <<slot_data, vsize, debug_head, mishaps>>

DebugClaim(t) ==
  /\ DebugFind(t)
  /\ SlotFor(t) # {}
  /\ LET i == Min(SlotFor(t)) IN
       /\ debug_info_cur_index' = i
       /\ debug_slot' = [debug_slot EXCEPT ![t] = i]
       /\ head_info' = [head_info EXCEPT ![i] = [key |-> t, length |-> debug_head[t]]]

\* The table is full: the index stays what it is, and the call goes on.
DebugOverflow(t) ==
  /\ DebugFind(t)
  /\ SlotFor(t) = {}
  /\ debug_slot' = [debug_slot EXCEPT ![t] = -1]
  /\ UNCHANGED <<debug_info_cur_index, head_info>>

\* The index the call goes on with.  The build may load it again, or still have the
\* value that the search has just stored.
IndexOf(t) == {debug_info_cur_index} \cup ({debug_slot[t]} \ {-1})

DebugReturn(t) == /\ DebugGo(t, "found", "user")
                  /\ lock_debug_info' = NoCaller
                  /\ debug_head' = [debug_head EXCEPT ![t] = 0]
                  /\ debug_slot' = [debug_slot EXCEPT ![t] = -1]
                  /\ UNCHANGED <<debug_info_cur_index, head_info>>

\* The index is negative: -EFAULT, with the slot that was found left as it is.
DebugInvalid(t) ==
  /\ DebugReturn(t)
  /\ \E i \in IndexOf(t) : i < 0
  /\ mishaps' = mishaps \cup (IF debug_slot[t] # -1 THEN {"index"} ELSE {})
  /\ UNCHANGED <<slot_data, vsize>>

\* vsize after vfree(p), for NULL too.
Vfree(p) == [b \in Buffers |-> IF b = p THEN 0 ELSE vsize[b]]

IndexMishap(t, i) == IF i # debug_slot[t] THEN {"index"} ELSE {}

\* Faulty variant: the text that was there before is not freed.
DebugStoreKeepsOld(t) ==
  /\ DebugReturn(t)
  /\ \E i \in IndexOf(t) \cap Slots, b \in Buffers :
        /\ vsize[b] = 0
        /\ vsize' = [vsize EXCEPT ![b] = head_info[i].length]
        /\ slot_data' = [slot_data EXCEPT ![i] = b]
        /\ mishaps' = mishaps \cup IndexMishap(t, i)

\* The old text is freed, a buffer of the new length allocated and filled.
DebugStore(t) ==
  /\ DebugReturn(t)
  /\ \E i \in IndexOf(t) \cap Slots, b \in Buffers :
        /\ Vfree(slot_data[i])[b] = 0
        /\ vsize' = [Vfree(slot_data[i]) EXCEPT ![b] = head_info[i].length]
        /\ slot_data' = [slot_data EXCEPT ![i] = b]
        /\ mishaps' = mishaps \cup IndexMishap(t, i)

DebugNoMemory(t) ==
  /\ DebugReturn(t)
  /\ \E i \in IndexOf(t) \cap Slots :
        /\ vsize' = Vfree(slot_data[i])
        /\ slot_data' = [slot_data EXCEPT ![i] = NoBuffer]
        /\ mishaps' = mishaps \cup IndexMishap(t, i) \cup {"vmalloc"}

\* The bytes cannot be fetched: the buffer is freed, the pointer stays.
DebugStoreFails(t) ==
  /\ DebugReturn(t)
  /\ \E i \in IndexOf(t) \cap Slots, b \in Buffers :
        /\ Vfree(slot_data[i])[b] = 0
        /\ vsize' = Vfree(slot_data[i])
        /\ slot_data' = [slot_data EXCEPT ![i] = b]
        /\ mishaps' = mishaps \cup IndexMishap(t, i) \cup {"copy"}

-----------------------------------------------------------------------------
(* IOCTL_PROC_INFO_STOP, ve_info_show, and the end of a thread.             *)

\* One section under the mutex, on the thread's own key; nothing is done when
\* it has no slot.
DebugStop(t) ==
  /\ debug_pc[t] = "user"
  /\ lock_debug_info = NoCaller
  /\ SlotsOf(t) # {}
  /\ LET i == Min(SlotsOf(t)) IN
       /\ vsize' = Vfree(slot_data[i])
       /\ slot_data' = [slot_data EXCEPT ![i] = NoBuffer]
       /\ head_info' = [head_info EXCEPT ![i] = Empty]
  /\ UNCHANGED <<lock_debug_info, debug_info_cur_index, debug_pc, debug_head,
                 debug_slot, mishaps>>

\* A thread ends.  Its slot stays.
DebugExit(t) ==
  /\ DebugGo(t, "user", "gone")
  /\ UNCHANGED <<lock_debug_info, debug_info_cur_index, TableVars, debug_head,
                 debug_slot, mishaps>>

\* What the slots up to i announce together.
TotalTo(i) == MapThenSumSet(LAMBDA j : head_info[j].length, 0 .. i)

\* The slots ve_info_show copies: the loop ends at the first that does not fit.
Shown == {i \in Slots : head_info[i].key # NoCaller /\ TotalTo(i) <= PageSize}

Readable(i) == /\ slot_data[i] # NoBuffer
               /\ vsize[slot_data[i]] >= head_info[i].length

\* A slot without the bytes it announces is read: the thread is killed in the
\* kernel, in possession of the mutex.  A ve_info_show that goes well takes the
\* mutex, changes nothing and gives it back.
DebugShowFaults ==
  /\ lock_debug_info = NoCaller
  /\ \E i \in Shown : ~Readable(i)
  /\ lock_debug_info' = Shower
  /\ UNCHANGED <<debug_info_cur_index, TableVars, debug_pc, debug_head,
                 debug_slot, mishaps>>

-----------------------------------------------------------------------------
DebugCaller(t) ==
  \/ \E n \in Lengths : DebugCopy(t, n)
  \/ DebugCopyRefused(t) \/ DebugClaim(t) \/ DebugOverflow(t)
  \/ DebugInvalid(t) \/ DebugStore(t) \/ DebugNoMemory(t) \/ DebugStoreFails(t)
  \/ DebugStop(t) \/ DebugExit(t)

DebugNext == (\E t \in Callers : DebugCaller(t)) \/ DebugShowFaults

DebugSpec == DebugInit /\ [][DebugNext]_debugVars

-----------------------------------------------------------------------------
(* Properties.                                                              *)

DebugTypeOK ==
  /\ lock_debug_info \in Callers \cup {Shower, NoCaller}
  /\ debug_info_cur_index \in Slots \cup {-1, 0}
  /\ head_info \in [Slots -> [key : Callers \cup {NoCaller}, length : Lengths \cup {0}]]
  /\ slot_data \in [Slots -> Buffers \cup {NoBuffer}]
  /\ vsize \in [Buffers -> Lengths \cup {0}]
  /\ debug_pc \in [Callers -> {"user", "lock", "found", "gone"}]
  /\ debug_head \in [Callers -> Lengths \cup {0}]
  /\ debug_slot \in [Callers -> Slots \cup {-1}]
  /\ mishaps \subseteq Mishaps

\* COPY searches by (pid, tid) before it takes an empty slot, so a thread
\* never has two slots, whatever fails and however calls interleave.
OneSlotPerThread == \A t \in Callers : Cardinality(SlotsOf(t)) <= 1

\* Every text is freed once and none is leaked: the allocated buffers are
\* exactly those of the slots, one each, and an empty slot has none, unless a
\* text could not be read (its pointer dangles) or was stored under another
\* thread's index.
TextsOwned ==
  mishaps \cap {"copy", "index"} = {} =>
    /\ {b \in Buffers : vsize[b] # 0} = {slot_data[i] : i \in Slots} \ {NoBuffer}
    /\ \A i, j \in Slots :
          slot_data[i] = slot_data[j] /\ slot_data[i] # NoBuffer => i = j
    /\ \A i \in Slots : head_info[i] = Empty => slot_data[i] = NoBuffer

\* ve_info_show never reads memory that a slot does not have, and so never
\* leaves lock_debug_info locked for ever, unless one of the mishaps has
\* come first.
ShowSurvives == lock_debug_info = Shower => mishaps # {}

\* All three: each thread has at most one slot, each slot its own text, and each
\* text that is shown is there.
TextsSafe == OneSlotPerThread /\ TextsOwned /\ ShowSurvives

\* As long as the table is not full, a text is stored in the slot of its own
\* thread, although debug_info_cur_index is shared and reset by others.
FoundInOwnSlot ==
  [][\A i \in Slots, t \in Callers :
        debug_pc[t] = "found" /\ debug_slot[t] # -1 /\ slot_data'[i] # slot_data[i]
          => head_info[i].key = t]_debugVars
=============================================================================
