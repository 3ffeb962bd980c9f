--------------------------- MODULE VeClientProofs ---------------------------
(***************************************************************************)
(* Theorems about what cedar_ve.c keeps of its clients: the process        *)
(* information (VeProcInfo), the debug information of a decoder             *)
(* (VeDebugInfo) and the case load (VeLoad); for any clients, any sizes of   *)
(* the tables and any contents.                                             *)
(***************************************************************************)
EXTENDS VeProcInfo, VeDebugInfo, VeLoad, WellFoundedInduction, FunctionTheorems,
        FiniteSetTheorems, TLAPS

\* Any non-empty set of natural numbers has a first one: the entry that a
\* search through a table takes.
LEMMA FirstOfNat ==
  ASSUME NEW S, S \subseteq Nat, S # {}
  PROVE  Min(S) \in S
<1> DEFINE Less == {ss \in Nat \X Nat : ss[1] < ss[2]}
<1>2. IsWellFoundedOn(Less, Nat)
  BY NatLessThanWellFounded DEF OpToRel
<1>3. \A i, j \in Nat : i < j => <<i, j>> \in Less
  OBVIOUS
<1> HIDE DEF Less
<1>4. PICK n \in S : \A m \in S : ~(<<m, n>> \in Less)
  BY <1>2, WFMin
<1>5. \A m \in S : n <= m
  <2>1. ASSUME NEW m \in S, m < n PROVE FALSE
    BY <1>3, <1>4, <2>1
  <2> QED BY <1>4, <2>1
<1> QED BY <1>5 DEF Min

-----------------------------------------------------------------------------
(* VeProcInfo.                                                              *)

\* Client c has announced a text: its SET has succeeded, its COPY has not ended.
Midway(c) == proc_pc[c] \in {"between", "copy", "oops"}

\* The channel of a text that is announced is one, and has its length.
AnnouncedWell ==
  \A c \in Clients : Midway(c) =>
    /\ ChannelOf[c] \in Channels
    /\ proc_len[ChannelOf[c]] = proc_text[c]

\* The buffer a COPY needs is there, unless another client has the channel too.
BufferThere ==
  \A c \in Clients : Midway(c) /\ ~proc_buf[ChannelOf[c]] =>
    \E d \in Clients \ {c} : ChannelOf[d] = ChannelOf[c]

\* ChannelsWhole, with "somebody is writing" made as narrow as it has to be.
WholeButMidway ==
  \A i \in Channels : proc_buf[i] /\ proc_len[i] # proc_data[i] =>
    i \in torn \/ \E c \in Clients : Midway(c) /\ ChannelOf[c] = i

ProcInv == /\ ProcTypeOK /\ OneWriter /\ LockHasOwner /\ AnnouncedWell
           /\ BufferThere /\ WholeButMidway /\ OnlySharersFault

LEMMA ProcInvInit == ProcInit => ProcInv
BY VeProcInfoAssumption
DEF ProcInit, ProcInv, ProcTypeOK, OneWriter, LockHasOwner, AnnouncedWell,
    BufferThere, WholeButMidway, OnlySharersFault, Midway, Writing, Channels, ProcLocation

\* COPY works on its client's channel.
LEMMA CopyChannel ==
  ASSUME ProcInv, NEW c \in Clients, proc_pc[c] = "copy"
  PROVE  cur_channel_id = ChannelOf[c] /\ cur_channel_id \in Channels
BY DEF ProcInv, OneWriter, AnnouncedWell, Midway, Writing

\* The variables stay in their ranges: cur_channel_id and the channels of texts that
\* broke off by AnnouncedWell.
LEMMA ProcTypeStep ==
  ASSUME ProcInv, [ProcNext]_procVars
  PROVE  ProcTypeOK'
<1> USE VeProcInfoAssumption DEF ProcInv, ProcTypeOK, OneWriter, AnnouncedWell, Midway, Writing, ProcGo, BufferVars,
        ReaderVars, Channels, ProcLocation
<1>1. ASSUME NEW c \in Clients, ProcOpen(c) PROVE ProcTypeOK'
  BY <1>1 DEF ProcOpen
<1>2. ASSUME NEW c \in Clients, NEW x \in Texts, ProcSet(c, x) PROVE ProcTypeOK'
  BY <1>2 DEF ProcSet
<1>3. ASSUME NEW c \in Clients, ProcLock(c) PROVE ProcTypeOK'
  BY <1>3 DEF ProcLock
<1>4. ASSUME NEW c \in Clients, ProcSetFails(c) PROVE ProcTypeOK'
  BY <1>4 DEF ProcSetFails
<1>5. ASSUME NEW c \in Clients, ProcSetDone(c) PROVE ProcTypeOK'
  BY <1>5 DEF ProcSetDone
<1>6. ASSUME NEW c \in Clients, ProcCopy(c) PROVE ProcTypeOK'
  BY <1>6 DEF ProcCopy
<1>7. ASSUME NEW c \in Clients, ProcCopyDone(c) PROVE ProcTypeOK'
  BY <1>7 DEF ProcCopyDone, ProcCopyEnds
<1>8. ASSUME NEW c \in Clients, ProcCopyFails(c) PROVE ProcTypeOK'
  <2>0. proc_pc[c] = "copy"
    BY ONLY <1>8 DEF ProcCopyFails, ProcCopyEnds, ProcGo
  <2>1. cur_channel_id \in Channels
    BY CopyChannel, <2>0
  <2>2. torn' \subseteq Channels
    BY <1>8, <2>1 DEF ProcCopyFails
  <2>3. proc_data' \in [Channels -> Texts \cup {NoText}]
    BY <1>8, <2>1 DEF ProcCopyFails
  <2> QED BY <1>8, <2>2, <2>3 DEF ProcCopyFails, ProcCopyEnds
<1>9. ASSUME NEW c \in Clients, ProcCopyNull(c) PROVE ProcTypeOK'
  BY <1>9 DEF ProcCopyNull
<1>10. ASSUME NEW c \in Clients, ProcStop(c) PROVE ProcTypeOK'
  BY <1>10 DEF ProcStop
<1>11. ASSUME NEW c \in Clients, ProcDie(c) PROVE ProcTypeOK'
  <2>1. torn' \subseteq Channels
    BY <1>11 DEF ProcDie
  <2>2. lock_proc' \in Clients \cup {Reader, NoClient}
    BY <1>11 DEF ProcDie, ProcRelease
  <2>3. proc_pc' \in [Clients -> ProcLocation] /\ proc_text' \in [Clients -> Texts \cup {NoText}]
    BY <1>11 DEF ProcDie
  <2>4. /\ proc_flag' \subseteq Clients
        /\ UNCHANGED <<cur_channel_id, proc_len, proc_buf, proc_data, reader, reader_i, shown>>
    BY <1>11 DEF ProcDie
  <2> QED BY <2>1, <2>2, <2>3, <2>4
<1>12. CASE ProcReader
  <2>1. CASE ReaderOpen BY <2>1 DEF ReaderOpen
  <2>2. CASE ReaderLock BY <2>2 DEF ReaderLock
  <2>3. CASE ReaderCollect BY <2>3 DEF ReaderCollect
  <2>4. CASE ReaderUnlock BY <2>4 DEF ReaderUnlock
  <2>5. CASE ReaderClose BY <2>5 DEF ReaderClose
  <2> QED BY <1>12, <2>1, <2>2, <2>3, <2>4, <2>5 DEF ProcReader
<1>13. CASE UNCHANGED procVars
  BY <1>13 DEF procVars
<1> QED
  BY <1>1, <1>2, <1>3, <1>4, <1>5, <1>6, <1>7, <1>8, <1>9, <1>10, <1>11, <1>12, <1>13
  DEF ProcNext, ProcClient, ProcCall

\* The section keeps its only client, and its mutex an owner.
LEMMA SectionStep ==
  ASSUME ProcTypeOK, OneWriter, LockHasOwner, [ProcNext]_procVars
  PROVE  (OneWriter /\ LockHasOwner)'
<1> USE VeProcInfoAssumption DEF ProcTypeOK, OneWriter, LockHasOwner, Writing, ProcGo, BufferVars, ReaderVars,
        Channels, ProcLocation
<1>1. ASSUME NEW c \in Clients, ProcOpen(c) PROVE (OneWriter /\ LockHasOwner)'
  BY <1>1 DEF ProcOpen
<1>2. ASSUME NEW c \in Clients, NEW x \in Texts, ProcSet(c, x) PROVE (OneWriter /\ LockHasOwner)'
  BY <1>2 DEF ProcSet
<1>3. ASSUME NEW c \in Clients, ProcLock(c) PROVE (OneWriter /\ LockHasOwner)'
  BY <1>3 DEF ProcLock
<1>4. ASSUME NEW c \in Clients, ProcSetFails(c) PROVE (OneWriter /\ LockHasOwner)'
  BY <1>4 DEF ProcSetFails
<1>5. ASSUME NEW c \in Clients, ProcSetDone(c) PROVE (OneWriter /\ LockHasOwner)'
  BY <1>5 DEF ProcSetDone
<1>6. ASSUME NEW c \in Clients, ProcCopy(c) PROVE (OneWriter /\ LockHasOwner)'
  BY <1>6 DEF ProcCopy
<1>7. ASSUME NEW c \in Clients, ProcCopyDone(c) PROVE (OneWriter /\ LockHasOwner)'
  BY <1>7 DEF ProcCopyDone, ProcCopyEnds
<1>8. ASSUME NEW c \in Clients, ProcCopyFails(c) PROVE (OneWriter /\ LockHasOwner)'
  BY <1>8 DEF ProcCopyFails, ProcCopyEnds
<1>9. ASSUME NEW c \in Clients, ProcCopyNull(c) PROVE (OneWriter /\ LockHasOwner)'
  BY <1>9 DEF ProcCopyNull
<1>10. ASSUME NEW c \in Clients, ProcStop(c) PROVE (OneWriter /\ LockHasOwner)'
  BY <1>10 DEF ProcStop
<1>11. ASSUME NEW c \in Clients, ProcDie(c) PROVE (OneWriter /\ LockHasOwner)'
  BY <1>11 DEF ProcDie, ProcRelease
<1>12. CASE ProcReader
  BY <1>12 DEF ProcReader, ReaderOpen, ReaderLock, ReaderCollect, ReaderUnlock, ReaderClose
<1>13. CASE UNCHANGED procVars
  BY <1>13 DEF procVars
<1> QED
  BY <1>1, <1>2, <1>3, <1>4, <1>5, <1>6, <1>7, <1>8, <1>9, <1>10, <1>11, <1>12, <1>13
  DEF ProcNext, ProcClient, ProcCall

\* Announced texts keep their length and their buffer.
LEMMA BufferStep ==
  ASSUME ProcInv, [ProcNext]_procVars
  PROVE  (AnnouncedWell /\ BufferThere /\ OnlySharersFault)'
<1> USE VeProcInfoAssumption DEF ProcInv, ProcTypeOK, OneWriter, AnnouncedWell, BufferThere, OnlySharersFault,
        Midway, Writing, ProcGo, BufferVars, ReaderVars, Channels, ProcLocation
<1>1. ASSUME NEW c \in Clients, ProcOpen(c) PROVE (AnnouncedWell /\ BufferThere /\ OnlySharersFault)'
  BY <1>1 DEF ProcOpen
<1>2. ASSUME NEW c \in Clients, NEW x \in Texts, ProcSet(c, x) PROVE (AnnouncedWell /\ BufferThere /\ OnlySharersFault)'
  BY <1>2 DEF ProcSet
<1>3. ASSUME NEW c \in Clients, ProcLock(c) PROVE (AnnouncedWell /\ BufferThere /\ OnlySharersFault)'
  BY <1>3 DEF ProcLock
<1>4. ASSUME NEW c \in Clients, ProcSetFails(c) PROVE (AnnouncedWell /\ BufferThere /\ OnlySharersFault)'
  BY <1>4 DEF ProcSetFails
<1>5. ASSUME NEW c \in Clients, ProcSetDone(c) PROVE (AnnouncedWell /\ BufferThere /\ OnlySharersFault)'
  BY <1>5 DEF ProcSetDone
<1>6. ASSUME NEW c \in Clients, ProcCopy(c) PROVE (AnnouncedWell /\ BufferThere /\ OnlySharersFault)'
  BY <1>6 DEF ProcCopy
<1>7. ASSUME NEW c \in Clients, ProcCopyDone(c) PROVE (AnnouncedWell /\ BufferThere /\ OnlySharersFault)'
  BY <1>7 DEF ProcCopyDone, ProcCopyEnds
<1>8. ASSUME NEW c \in Clients, ProcCopyFails(c) PROVE (AnnouncedWell /\ BufferThere /\ OnlySharersFault)'
  BY <1>8 DEF ProcCopyFails, ProcCopyEnds
<1>9. ASSUME NEW c \in Clients, ProcCopyNull(c) PROVE (AnnouncedWell /\ BufferThere /\ OnlySharersFault)'
  BY <1>9 DEF ProcCopyNull
<1>10. ASSUME NEW c \in Clients, ProcStop(c) PROVE (AnnouncedWell /\ BufferThere /\ OnlySharersFault)'
  BY <1>10 DEF ProcStop
<1>11. ASSUME NEW c \in Clients, ProcDie(c) PROVE (AnnouncedWell /\ BufferThere /\ OnlySharersFault)'
  BY <1>11 DEF ProcDie, ProcRelease
<1>12. CASE ProcReader
  BY <1>12 DEF ProcReader, ReaderOpen, ReaderLock, ReaderCollect, ReaderUnlock, ReaderClose
<1>13. CASE UNCHANGED procVars
  BY <1>13 DEF procVars
<1> QED
  BY <1>1, <1>2, <1>3, <1>4, <1>5, <1>6, <1>7, <1>8, <1>9, <1>10, <1>11, <1>12, <1>13
  DEF ProcNext, ProcClient, ProcCall

\* Shown channels stay whole.
LEMMA WholeStep ==
  ASSUME ProcInv, [ProcNext]_procVars
  PROVE  WholeButMidway'
<1> USE VeProcInfoAssumption DEF ProcInv, ProcTypeOK, OneWriter, AnnouncedWell, WholeButMidway,
        Midway, Writing, ProcGo, BufferVars, ReaderVars, Channels, ProcLocation
<1>1. ASSUME NEW c \in Clients, ProcOpen(c) PROVE WholeButMidway'
  BY <1>1 DEF ProcOpen
<1>2. ASSUME NEW c \in Clients, NEW x \in Texts, ProcSet(c, x) PROVE WholeButMidway'
  BY <1>2 DEF ProcSet
<1>3. ASSUME NEW c \in Clients, ProcLock(c) PROVE WholeButMidway'
  BY <1>3 DEF ProcLock
<1>4. ASSUME NEW c \in Clients, ProcSetFails(c) PROVE WholeButMidway'
  BY <1>4 DEF ProcSetFails
<1>5. ASSUME NEW c \in Clients, ProcSetDone(c) PROVE WholeButMidway'
  BY <1>5 DEF ProcSetDone
<1>6. ASSUME NEW c \in Clients, ProcCopy(c) PROVE WholeButMidway'
  BY <1>6 DEF ProcCopy
<1>7. ASSUME NEW c \in Clients, ProcCopyDone(c) PROVE WholeButMidway'
  <2>1. /\ cur_channel_id = ChannelOf[c] /\ cur_channel_id \in Channels
        /\ proc_len[cur_channel_id] = proc_text[c]
        /\ \A d \in Clients : Midway(d) => d = c
    BY <1>7 DEF ProcCopyDone, ProcCopyEnds
  <2>2. /\ proc_len' = proc_len /\ proc_buf' = proc_buf
        /\ proc_data'[cur_channel_id] = proc_len[cur_channel_id]
        /\ \A i \in Channels \ {cur_channel_id} :
              proc_data'[i] = proc_data[i] /\ (i \in torn => i \in torn')
    BY <1>7, <2>1 DEF ProcCopyDone, ProcCopyEnds
  <2> QED BY <2>1, <2>2
<1>8. ASSUME NEW c \in Clients, ProcCopyFails(c) PROVE WholeButMidway'
  BY <1>8 DEF ProcCopyFails, ProcCopyEnds
<1>9. ASSUME NEW c \in Clients, ProcCopyNull(c) PROVE WholeButMidway'
  BY <1>9 DEF ProcCopyNull
<1>10. ASSUME NEW c \in Clients, ProcStop(c) PROVE WholeButMidway'
  BY <1>10 DEF ProcStop
<1>11. ASSUME NEW c \in Clients, ProcDie(c) PROVE WholeButMidway'
  BY <1>11 DEF ProcDie, ProcRelease
<1>12. CASE ProcReader
  BY <1>12 DEF ProcReader, ReaderOpen, ReaderLock, ReaderCollect, ReaderUnlock, ReaderClose
<1>13. CASE UNCHANGED procVars
  BY <1>13 DEF procVars
<1> QED
  BY <1>1, <1>2, <1>3, <1>4, <1>5, <1>6, <1>7, <1>8, <1>9, <1>10, <1>11, <1>12, <1>13
  DEF ProcNext, ProcClient, ProcCall

LEMMA ProcInvariance == ProcSpec => []ProcInv
<1>1. ProcInv /\ [ProcNext]_procVars => ProcInv'
  BY ProcTypeStep, SectionStep, BufferStep, WholeStep DEF ProcInv
<1> QED BY ProcInvInit, <1>1, PTL DEF ProcSpec

\* At most one client is between SET's mutex_lock and COPY's mutex_unlock, it
\* owns lock_proc, and cur_channel_id is its channel.
THEOREM OnlyOneWriter == ProcSpec => []OneWriter
<1>1. ProcInv => OneWriter BY DEF ProcInv
<1> QED BY ProcInvariance, <1>1, PTL

\* A COPY writes to NULL, and loses lock_proc, only on a channel with two clients.
THEOREM FaultsAreShared == ProcSpec => []OnlySharersFault
<1>1. ProcInv => OnlySharersFault BY DEF ProcInv
<1> QED BY ProcInvariance, <1>1, PTL

\* Outside the section every channel that is shown has the text it announces.
THEOREM Whole == ProcSpec => []ChannelsWhole
<1>1. ProcInv => ChannelsWhole
  BY DEF ProcInv, WholeButMidway, ChannelsWhole, Midway, Writing
<1> QED BY ProcInvariance, <1>1, PTL

\* ve_debugfs_open collects whole texts, unless the publication of one broke off.
THEOREM ReadsWhole == ProcSpec => ReaderSeesWhole
<1>1. ASSUME ProcInv, [ProcNext]_procVars
      PROVE  [\A e \in shown' \ shown : e.len = e.data \/ e.channel \in torn]_procVars
  <2>1. CASE ReaderCollect
    <3>1. lock_proc = Reader
      BY <1>1, <2>1 DEF ReaderCollect, ProcInv, LockHasOwner
    <3>2. \A c \in Clients : ~Midway(c)
      BY <1>1, <3>1, VeProcInfoAssumption DEF ProcInv, OneWriter, Writing, Midway
    <3>3. proc_buf[reader_i] => proc_len[reader_i] = proc_data[reader_i] \/ reader_i \in torn
      BY <1>1, <2>1, <3>2 DEF ReaderCollect, ProcInv, WholeButMidway
    <3> QED BY <2>1, <3>3 DEF ReaderCollect
  <2>2. CASE ~ReaderCollect
    BY <1>1, <2>2 DEF ProcNext, ProcClient, ProcCall, ProcReader, ProcOpen, ProcSet, ProcLock,
      ProcSetFails, ProcSetDone, ProcCopy, ProcCopyDone, ProcCopyFails, ProcCopyEnds,
      ProcCopyNull, ProcStop, ProcDie, ReaderOpen, ReaderLock, ReaderUnlock, ReaderClose,
      ReaderVars, procVars
  <2> QED BY <2>1, <2>2
<1> QED BY ProcInvariance, <1>1, PTL DEF ProcSpec, ReaderSeesWhole

-----------------------------------------------------------------------------
(* VeDebugInfo.                                                             *)

\* Who is between search and use has the mutex.
FoundLocked == \A t \in Callers : debug_pc[t] = "found" <=> lock_debug_info = t

\* The slot that a search has found is its thread's, and debug_info_cur_index
\* either still names it or has been reset.
FoundOwn ==
  \A t \in Callers : debug_pc[t] = "found" /\ debug_slot[t] # -1 =>
    /\ head_info[debug_slot[t]].key = t
    /\ debug_info_cur_index \in {-1, debug_slot[t]}

\* No two slots have one owner.
KeysDiffer ==
  \A i, j \in Slots :
    head_info[i].key = head_info[j].key /\ head_info[i].key # NoCaller => i = j

\* A slot with an owner announces a text, and so does a call that will store one.
LengthsGiven ==
  /\ \A i \in Slots : IF head_info[i].key = NoCaller THEN head_info[i] = Empty
                                                    ELSE head_info[i].length \in Lengths
  /\ \A t \in Callers : debug_pc[t] \in {"lock", "found"} => debug_head[t] \in Lengths

\* The conjuncts of TextsOwned, without their excuse.
Owned ==
  /\ {b \in Buffers : vsize[b] # 0} = {slot_data[i] : i \in Slots} \ {NoBuffer}
  /\ \A i, j \in Slots : slot_data[i] = slot_data[j] /\ slot_data[i] # NoBuffer => i = j
  /\ \A i \in Slots : head_info[i] = Empty => slot_data[i] = NoBuffer

\* Every slot with an owner has the bytes it announces, but for the slot of the
\* call that is under way.
OthersReadable ==
  \A i \in Slots : head_info[i].key # NoCaller =>
    \/ Readable(i)
    \/ \E t \in Callers : debug_pc[t] = "found" /\ debug_slot[t] = i

SearchInv == DebugTypeOK /\ FoundLocked /\ FoundOwn /\ KeysDiffer /\ LengthsGiven

TextInv == /\ mishaps \cap {"copy", "index"} = {} => Owned
           /\ mishaps = {} => OthersReadable
           /\ ShowSurvives

\* So does any non-empty set of slots.
LEMMA FirstSlot ==
  ASSUME NEW S, S \subseteq Slots, S # {}
  PROVE  Min(S) \in S
<1>1. S \subseteq Nat BY VeDebugInfoAssumption DEF Slots
<1> QED BY <1>1, FirstOfNat

\* The slot of a search: the thread's own if it has one, else an empty one.
LEMMA SearchFinds ==
  ASSUME NEW t \in Callers, SlotFor(t) # {}
  PROVE  LET i == Min(SlotFor(t)) IN
         /\ i \in Slots
         /\ head_info[i].key = t \/ (head_info[i].key = NoCaller /\ SlotsOf(t) = {})
<1>1. SlotFor(t) \subseteq Slots BY DEF SlotFor, SlotsOf
<1>2. Min(SlotFor(t)) \in SlotFor(t) BY <1>1, FirstSlot
<1> QED BY <1>2 DEF SlotFor, SlotsOf

LEMMA DebugInvInit == DebugInit => SearchInv /\ TextInv
<1> SUFFICES ASSUME DebugInit PROVE SearchInv /\ TextInv
  OBVIOUS
<1> USE VeDebugInfoAssumption DEF DebugInit, Slots
<1>1. head_info \in [Slots -> [key : Callers \cup {NoCaller}, length : Lengths \cup {0}]]
  BY DEF Empty
<1>2. DebugTypeOK BY <1>1 DEF DebugTypeOK
<1>3. FoundLocked /\ FoundOwn /\ KeysDiffer /\ LengthsGiven
  BY DEF FoundLocked, FoundOwn, KeysDiffer, LengthsGiven, Empty
<1>4. TextInv BY DEF TextInv, Owned, OthersReadable, ShowSurvives, Empty
<1> QED BY <1>2, <1>3, <1>4 DEF SearchInv

\* Freeing leaves vsize typed.
LEMMA VfreeTyped ==
  ASSUME DebugTypeOK, NEW p
  PROVE  Vfree(p) \in [Buffers -> Lengths \cup {0}]
BY DEF DebugTypeOK, Vfree

\* A store at a slot leaves the types alone.
LEMMA StoreTyped ==
  ASSUME SearchInv, NEW t \in Callers, NEW i \in Slots, head_info[i].length \in Lengths \cup {0},
         DebugReturn(t), lock_debug_info = t,
         NEW q \in Buffers \cup {NoBuffer}, slot_data' = [slot_data EXCEPT ![i] = q],
         \/ vsize' = Vfree(slot_data[i])
         \/ \E b \in Buffers : vsize' = [Vfree(slot_data[i]) EXCEPT ![b] = head_info[i].length],
         mishaps' \subseteq Mishaps
  PROVE  DebugTypeOK'
<1>1. DebugTypeOK BY DEF SearchInv
<1>2. vsize' \in [Buffers -> Lengths \cup {0}]
  <2>1. Vfree(slot_data[i]) \in [Buffers -> Lengths \cup {0}] BY <1>1, VfreeTyped
  <2>2. CASE vsize' = Vfree(slot_data[i]) BY <2>1, <2>2
  <2>3. CASE \E b \in Buffers : vsize' = [Vfree(slot_data[i]) EXCEPT ![b] = head_info[i].length]
    BY ONLY <2>1, <2>3, head_info[i].length \in Lengths \cup {0}
  <2> QED BY <2>2, <2>3
<1>3. slot_data' \in [Slots -> Buffers \cup {NoBuffer}] BY <1>1 DEF DebugTypeOK
<1>4. /\ lock_debug_info' = NoCaller /\ UNCHANGED <<debug_info_cur_index, head_info>>
      /\ debug_pc' = [debug_pc EXCEPT ![t] = "user"]
      /\ debug_head' = [debug_head EXCEPT ![t] = 0]
      /\ debug_slot' = [debug_slot EXCEPT ![t] = -1]
  BY DEF DebugReturn, DebugGo
<1> QED BY <1>1, <1>2, <1>3, <1>4 DEF DebugTypeOK

\* The variables stay in their ranges.
LEMMA DebugTypeStep ==
  ASSUME SearchInv, [DebugNext]_debugVars
  PROVE  DebugTypeOK'
<1> USE VeDebugInfoAssumption DEF SearchInv, DebugTypeOK, LengthsGiven, FoundLocked, DebugGo, TableVars, Slots
<1>1. ASSUME NEW t \in Callers, NEW n \in Lengths, DebugCopy(t, n) PROVE DebugTypeOK'
  BY <1>1 DEF DebugCopy
<1>2. ASSUME NEW t \in Callers, DebugCopyRefused(t) PROVE DebugTypeOK'
  BY <1>2 DEF DebugCopyRefused
<1>3. ASSUME NEW t \in Callers, DebugClaim(t) PROVE DebugTypeOK'
  <2> DEFINE i == Min(SlotFor(t))
  <2>1. i \in Slots BY <1>3, SearchFinds DEF DebugClaim
  <2>2. debug_head[t] \in Lengths BY <1>3 DEF DebugClaim, DebugFind
  <2>3. head_info' \in [Slots -> [key : Callers \cup {NoCaller}, length : Lengths \cup {0}]]
    <3>1. head_info' = [head_info EXCEPT ![i] = [key |-> t, length |-> debug_head[t]]]
      BY <1>3 DEF DebugClaim
    <3> HIDE DEF i
    <3> QED BY <2>2, <3>1
  <2>4. debug_slot' \in [Callers -> Slots \cup {-1}] /\ debug_info_cur_index' \in Slots
    <3>1. debug_slot' = [debug_slot EXCEPT ![t] = i] /\ debug_info_cur_index' = i
      BY <1>3 DEF DebugClaim
    <3> HIDE DEF i
    <3> QED BY <2>1, <3>1
  <2>5. debug_pc' \in [Callers -> {"user", "lock", "found", "gone"}] /\ lock_debug_info' \in Callers
    BY <1>3 DEF DebugClaim, DebugFind
  <2>6. UNCHANGED <<slot_data, vsize, debug_head, mishaps>>
    BY <1>3 DEF DebugClaim, DebugFind
  <2> QED BY <2>3, <2>4, <2>5, <2>6
<1>4. ASSUME NEW t \in Callers, DebugOverflow(t) PROVE DebugTypeOK'
  BY <1>4 DEF DebugOverflow, DebugFind
<1>5. ASSUME NEW t \in Callers, DebugInvalid(t) PROVE DebugTypeOK'
  <2>1. mishaps' \subseteq Mishaps BY <1>5 DEF DebugInvalid, Mishaps
  <2> QED BY <1>5, <2>1 DEF DebugInvalid, DebugReturn
<1>6. ASSUME NEW t \in Callers, DebugStore(t) PROVE DebugTypeOK'
  <2>1. lock_debug_info = t BY <1>6 DEF DebugStore, DebugReturn, FoundLocked
  <2>2. PICK i \in Slots : \E b \in Buffers :
         /\ vsize' = [Vfree(slot_data[i]) EXCEPT ![b] = head_info[i].length]
         /\ slot_data' = [slot_data EXCEPT ![i] = b]
         /\ mishaps' = mishaps \cup IndexMishap(t, i)
    BY <1>6 DEF DebugStore, DebugReturn
  <2>3. head_info[i].length \in Lengths \cup {0} OBVIOUS
  <2>4. DebugReturn(t) BY <1>6 DEF DebugStore
  <2>5. mishaps' \subseteq Mishaps BY <2>2 DEF IndexMishap, Mishaps
  <2> QED BY <2>1, <2>2, <2>3, <2>4, <2>5, StoreTyped
<1>7. ASSUME NEW t \in Callers, DebugNoMemory(t) PROVE DebugTypeOK'
  <2>1. lock_debug_info = t BY <1>7 DEF DebugNoMemory, DebugReturn, FoundLocked
  <2>2. PICK i \in Slots : 
         /\ vsize' = Vfree(slot_data[i])
         /\ slot_data' = [slot_data EXCEPT ![i] = NoBuffer]
         /\ mishaps' = mishaps \cup IndexMishap(t, i) \cup {"vmalloc"}
    BY <1>7 DEF DebugNoMemory, DebugReturn
  <2>3. head_info[i].length \in Lengths \cup {0} OBVIOUS
  <2>4. DebugReturn(t) BY <1>7 DEF DebugNoMemory
  <2>5. mishaps' \subseteq Mishaps BY <2>2 DEF IndexMishap, Mishaps
  <2> QED BY <2>1, <2>2, <2>3, <2>4, <2>5, StoreTyped
<1>8. ASSUME NEW t \in Callers, DebugStoreFails(t) PROVE DebugTypeOK'
  <2>1. lock_debug_info = t BY <1>8 DEF DebugStoreFails, DebugReturn, FoundLocked
  <2>2. PICK i \in Slots : \E b \in Buffers :
         /\ vsize' = Vfree(slot_data[i])
         /\ slot_data' = [slot_data EXCEPT ![i] = b]
         /\ mishaps' = mishaps \cup IndexMishap(t, i) \cup {"copy"}
    BY <1>8 DEF DebugStoreFails, DebugReturn
  <2>3. head_info[i].length \in Lengths \cup {0} OBVIOUS
  <2>4. DebugReturn(t) BY <1>8 DEF DebugStoreFails
  <2>5. mishaps' \subseteq Mishaps BY <2>2 DEF IndexMishap, Mishaps
  <2> QED BY <2>1, <2>2, <2>3, <2>4, <2>5, StoreTyped
<1>9. ASSUME NEW t \in Callers, DebugStop(t) PROVE DebugTypeOK'
  <2> DEFINE i == Min(SlotsOf(t))
  <2>1. slot_data' = [slot_data EXCEPT ![i] = NoBuffer] /\ head_info' = [head_info EXCEPT ![i] = Empty]
    BY <1>9 DEF DebugStop
  <2>2. vsize' \in [Buffers -> Lengths \cup {0}] BY <1>9, VfreeTyped DEF DebugStop
  <2> HIDE DEF i
  <2>3. slot_data' \in [Slots -> Buffers \cup {NoBuffer}] BY <2>1
  <2>4. head_info' \in [Slots -> [key : Callers \cup {NoCaller}, length : Lengths \cup {0}]]
    BY <2>1 DEF Empty
  <2> QED BY <1>9, <2>2, <2>3, <2>4 DEF DebugStop
<1>10. ASSUME NEW t \in Callers, DebugExit(t) PROVE DebugTypeOK'
  BY <1>10 DEF DebugExit
<1>11. CASE DebugShowFaults
  BY <1>11 DEF DebugShowFaults
<1>12. CASE UNCHANGED debugVars
  BY <1>12 DEF debugVars
<1> QED
  BY <1>1, <1>2, <1>3, <1>4, <1>5, <1>6, <1>7, <1>8, <1>9, <1>10, <1>11, <1>12
  DEF DebugNext, DebugCaller

\* A search keeps its slot, and slots their owners.
LEMMA SearchStep ==
  ASSUME SearchInv, [DebugNext]_debugVars
  PROVE  (FoundLocked /\ FoundOwn /\ KeysDiffer /\ LengthsGiven)'
<1> USE VeDebugInfoAssumption DEF SearchInv, DebugTypeOK, FoundLocked, FoundOwn, KeysDiffer, LengthsGiven,
        Empty, DebugGo, TableVars, Slots
<1>1. ASSUME NEW t \in Callers, NEW n \in Lengths, DebugCopy(t, n) PROVE (FoundLocked /\ FoundOwn /\ KeysDiffer /\ LengthsGiven)'
  BY <1>1 DEF DebugCopy
<1>2. ASSUME NEW t \in Callers, DebugCopyRefused(t) PROVE (FoundLocked /\ FoundOwn /\ KeysDiffer /\ LengthsGiven)'
  BY <1>2 DEF DebugCopyRefused
<1>3. ASSUME NEW t \in Callers, DebugClaim(t) PROVE (FoundLocked /\ FoundOwn /\ KeysDiffer /\ LengthsGiven)'
  <2> DEFINE i == Min(SlotFor(t))
  <2>1. i \in Slots /\ (head_info[i].key = t \/ (head_info[i].key = NoCaller /\ SlotsOf(t) = {}))
    BY <1>3, SearchFinds DEF DebugClaim
  <2>2. /\ head_info' = [head_info EXCEPT ![i] = [key |-> t, length |-> debug_head[t]]]
        /\ debug_slot' = [debug_slot EXCEPT ![t] = i] /\ debug_info_cur_index' = i
    BY <1>3 DEF DebugClaim
  <2>3. /\ debug_pc[t] = "lock" /\ debug_pc' = [debug_pc EXCEPT ![t] = "found"]
        /\ lock_debug_info = NoCaller /\ lock_debug_info' = t /\ debug_head' = debug_head
    BY <1>3 DEF DebugClaim, DebugFind
  <2> HIDE DEF i
  <2>4. head_info'[i].key = t /\ \A j \in Slots \ {i} : head_info'[j] = head_info[j]
    BY <2>1, <2>2
  <2>5. \A j \in Slots \ {i} : head_info[j].key # t
    BY <2>1 DEF SlotsOf
  <2>6. KeysDiffer' BY <2>4, <2>5
  <2>7. FoundLocked' BY <2>3
  <2>8. FoundOwn'
    <3>1. \A u \in Callers \ {t} : debug_pc'[u] # "found" BY <2>3
    <3> QED BY <2>1, <2>2, <2>3, <2>4, <3>1
  <2>9. LengthsGiven'
    <3>1. head_info'[i].length \in Lengths BY <2>1, <2>2, <2>3
    <3> QED BY <2>1, <2>3, <2>4, <3>1
  <2> QED BY <2>6, <2>7, <2>8, <2>9
<1>4. ASSUME NEW t \in Callers, DebugOverflow(t) PROVE (FoundLocked /\ FoundOwn /\ KeysDiffer /\ LengthsGiven)'
  BY <1>4 DEF DebugOverflow, DebugFind
<1>5. ASSUME NEW t \in Callers, DebugInvalid(t) PROVE (FoundLocked /\ FoundOwn /\ KeysDiffer /\ LengthsGiven)'
  BY <1>5 DEF DebugInvalid, DebugReturn
<1>6. ASSUME NEW t \in Callers, DebugStore(t) PROVE (FoundLocked /\ FoundOwn /\ KeysDiffer /\ LengthsGiven)'
  BY <1>6 DEF DebugStore, DebugReturn
<1>7. ASSUME NEW t \in Callers, DebugNoMemory(t) PROVE (FoundLocked /\ FoundOwn /\ KeysDiffer /\ LengthsGiven)'
  BY <1>7 DEF DebugNoMemory, DebugReturn
<1>8. ASSUME NEW t \in Callers, DebugStoreFails(t) PROVE (FoundLocked /\ FoundOwn /\ KeysDiffer /\ LengthsGiven)'
  BY <1>8 DEF DebugStoreFails, DebugReturn
<1>9. ASSUME NEW t \in Callers, DebugStop(t) PROVE (FoundLocked /\ FoundOwn /\ KeysDiffer /\ LengthsGiven)'
  BY <1>9 DEF DebugStop
<1>10. ASSUME NEW t \in Callers, DebugExit(t) PROVE (FoundLocked /\ FoundOwn /\ KeysDiffer /\ LengthsGiven)'
  BY <1>10 DEF DebugExit
<1>11. CASE DebugShowFaults
  BY <1>11 DEF DebugShowFaults
<1>12. CASE UNCHANGED debugVars
  BY <1>12 DEF debugVars
<1> QED
  BY <1>1, <1>2, <1>3, <1>4, <1>5, <1>6, <1>7, <1>8, <1>9, <1>10, <1>11, <1>12
  DEF DebugNext, DebugCaller

\* Freeing the text of slot i leaves the texts of the other slots.
LEMMA FreeOne ==
  ASSUME DebugTypeOK, Owned, NEW i \in Slots
  PROVE  /\ {b \in Buffers : Vfree(slot_data[i])[b] # 0}
               = {slot_data[j] : j \in Slots \ {i}} \ {NoBuffer}
         /\ \A j \in Slots \ {i} : slot_data[j] # NoBuffer =>
               Vfree(slot_data[i])[slot_data[j]] = vsize[slot_data[j]]
<1> USE VeDebugInfoAssumption DEF DebugTypeOK, Owned
<1>1. \A b \in Buffers : Vfree(slot_data[i])[b] = IF b = slot_data[i] THEN 0 ELSE vsize[b]
  BY DEF Vfree
<1>2. \A j \in Slots \ {i} : slot_data[j] # NoBuffer => slot_data[j] \in Buffers \ {slot_data[i]}
  OBVIOUS
<1>3. ASSUME NEW b \in Buffers, Vfree(slot_data[i])[b] # 0
      PROVE  b \in {slot_data[j] : j \in Slots \ {i}} \ {NoBuffer}
  BY <1>1, <1>3
<1>4. ASSUME NEW j \in Slots \ {i}, slot_data[j] # NoBuffer
      PROVE  Vfree(slot_data[i])[slot_data[j]] = vsize[slot_data[j]] /\ vsize[slot_data[j]] # 0
  <2>1. slot_data[j] \in {b \in Buffers : vsize[b] # 0}
    BY <1>4
  <2> QED BY <1>1, <1>2, <1>4, <2>1
<1> QED BY <1>2, <1>3, <1>4

\* A slot whose text is freed, and which gets no other.
LEMMA OwnedNothing ==
  ASSUME DebugTypeOK, Owned, NEW i \in Slots,
         vsize' = Vfree(slot_data[i]), slot_data' = [slot_data EXCEPT ![i] = NoBuffer],
         \A j \in Slots \ {i} : head_info'[j] = head_info[j]
  PROVE  Owned'
<1>1. slot_data'[i] = NoBuffer /\ \A j \in Slots \ {i} : slot_data'[j] = slot_data[j]
  BY DEF DebugTypeOK
<1>2. {slot_data'[j] : j \in Slots} \ {NoBuffer} = {slot_data[j] : j \in Slots \ {i}} \ {NoBuffer}
  BY <1>1
<1>3. {b \in Buffers : vsize'[b] # 0} = {slot_data'[j] : j \in Slots} \ {NoBuffer}
  BY <1>2, FreeOne
<1>4. \A j, k \in Slots : slot_data'[j] = slot_data'[k] /\ slot_data'[j] # NoBuffer => j = k
  BY <1>1 DEF Owned
<1>5. \A j \in Slots : head_info'[j] = Empty => slot_data'[j] = NoBuffer
  BY <1>1 DEF Owned
<1> QED BY <1>3, <1>4, <1>5 DEF Owned, Empty

\* A slot whose text is freed, and which gets another in a free buffer.
LEMMA OwnedAnother ==
  ASSUME DebugTypeOK, Owned, NEW i \in Slots, NEW b \in Buffers, Vfree(slot_data[i])[b] = 0,
         NEW n \in Nat \ {0},
         vsize' = [Vfree(slot_data[i]) EXCEPT ![b] = n], slot_data' = [slot_data EXCEPT ![i] = b],
         UNCHANGED head_info, head_info[i] # Empty
  PROVE  Owned'
<1>0. b # NoBuffer BY VeDebugInfoAssumption
<1>1. slot_data'[i] = b /\ \A j \in Slots \ {i} : slot_data'[j] = slot_data[j]
  BY DEF DebugTypeOK
<1>2. {slot_data'[j] : j \in Slots} \ {NoBuffer}
        = ({slot_data[j] : j \in Slots \ {i}} \ {NoBuffer}) \cup {b}
  BY <1>0, <1>1
<1>3. {c \in Buffers : vsize'[c] # 0} = {c \in Buffers : Vfree(slot_data[i])[c] # 0} \cup {b}
  <2>1. vsize'[b] = n /\ \A c \in Buffers \ {b} : vsize'[c] = Vfree(slot_data[i])[c]
    BY DEF Vfree
  <2>2. n # 0 OBVIOUS
  <2> QED BY <2>1, <2>2
<1>4. {c \in Buffers : vsize'[c] # 0} = {slot_data'[j] : j \in Slots} \ {NoBuffer}
  BY <1>2, <1>3, FreeOne
<1>5. \A j \in Slots \ {i} : slot_data[j] # b
  <2>1. b \notin {slot_data[j] : j \in Slots \ {i}} \ {NoBuffer}
    BY FreeOne
  <2> QED BY <1>0, <2>1
<1>6. \A j, k \in Slots : slot_data'[j] = slot_data'[k] /\ slot_data'[j] # NoBuffer => j = k
  BY <1>1, <1>5 DEF Owned
<1>7. \A j \in Slots : head_info'[j] = Empty => slot_data'[j] = NoBuffer
  BY <1>1 DEF Owned
<1> QED BY <1>4, <1>6, <1>7 DEF Owned, Empty

\* When the mutex is free, no slot is excused from being readable.
LEMMA AllReadable ==
  ASSUME SearchInv, OthersReadable, \A t \in Callers : lock_debug_info = t => debug_slot[t] = -1
  PROVE  \A i \in Slots : head_info[i].key # NoCaller => Readable(i)
BY DEF SearchInv, FoundLocked, OthersReadable, Slots

\* Slots keep their texts.
LEMMA TextStep ==
  ASSUME SearchInv, TextInv, [DebugNext]_debugVars
  PROVE  TextInv'
<1> USE VeDebugInfoAssumption DEF SearchInv, TextInv, DebugTypeOK, DebugGo, TableVars, Slots
<1>0. \A n \in Lengths : n \in Nat /\ n # 0 OBVIOUS
<1>1. ASSUME NEW t \in Callers, NEW n \in Lengths, DebugCopy(t, n) PROVE TextInv'
  <2>1. /\ UNCHANGED <<head_info, slot_data, vsize, debug_slot, lock_debug_info, mishaps>>
        /\ \A u \in Callers : debug_pc'[u] = "found" <=> debug_pc[u] = "found"
    BY <1>1 DEF DebugCopy
  <2> QED BY <2>1 DEF Owned, OthersReadable, ShowSurvives, Readable
<1>2. ASSUME NEW t \in Callers, DebugCopyRefused(t) PROVE TextInv'
  <2>1. /\ UNCHANGED <<head_info, slot_data, vsize, debug_slot, lock_debug_info, mishaps>>
        /\ \A u \in Callers : debug_pc'[u] = "found" <=> debug_pc[u] = "found"
    BY <1>2 DEF DebugCopyRefused
  <2> QED BY <2>1 DEF Owned, OthersReadable, ShowSurvives, Readable
<1>3. ASSUME NEW t \in Callers, DebugClaim(t) PROVE TextInv'
  <2> DEFINE i == Min(SlotFor(t))
  <2>1. i \in Slots BY <1>3, SearchFinds DEF DebugClaim
  <2>2. /\ head_info' = [head_info EXCEPT ![i] = [key |-> t, length |-> debug_head[t]]]
        /\ debug_slot' = [debug_slot EXCEPT ![t] = i]
    BY <1>3 DEF DebugClaim
  <2>3. /\ debug_pc' = [debug_pc EXCEPT ![t] = "found"]
        /\ lock_debug_info = NoCaller /\ lock_debug_info' = t
        /\ slot_data' = slot_data /\ vsize' = vsize /\ mishaps' = mishaps
    BY <1>3 DEF DebugClaim, DebugFind
  <2> HIDE DEF i
  <2>4. head_info'[i].key = t /\ \A j \in Slots \ {i} : head_info'[j] = head_info[j]
    BY <2>1, <2>2
  <2>5. t # NoCaller /\ t # Shower OBVIOUS
  <2>a. \A j \in Slots : head_info'[j] = Empty => head_info[j] = Empty
    <3>1. Empty.key # t BY <2>5 DEF Empty
    <3>2. head_info'[i] # Empty BY ONLY <2>4, <3>1
    <3> QED BY ONLY <2>4, <3>2
  <2>6. Owned => Owned' BY ONLY <2>3, <2>a DEF Owned
  <2>7. debug_pc'[t] = "found" /\ debug_slot'[t] = i BY <2>2, <2>3
  <2>8. ASSUME mishaps = {} PROVE OthersReadable'
    <3>1. \A j \in Slots : head_info[j].key # NoCaller => Readable(j)
      BY <2>3, <2>8, AllReadable
    <3>2. \A j \in Slots \ {i} : Readable(j) => Readable(j)'
      BY <2>3, <2>4 DEF Readable
    <3> QED BY <2>4, <2>7, <3>1, <3>2 DEF OthersReadable
  <2>9. ShowSurvives' BY <2>3, <2>5 DEF ShowSurvives
  <2> QED BY <2>3, <2>6, <2>8, <2>9
<1>4. ASSUME NEW t \in Callers, DebugOverflow(t) PROVE TextInv'
  <2>1. /\ lock_debug_info = NoCaller /\ lock_debug_info' = t
        /\ UNCHANGED <<head_info, slot_data, vsize, mishaps>>
    BY <1>4 DEF DebugOverflow, DebugFind
  <2>2. Owned => Owned' BY <2>1 DEF Owned
  <2>3. ASSUME mishaps = {} PROVE OthersReadable'
    <3>1. \A j \in Slots : head_info[j].key # NoCaller => Readable(j)
      BY <2>1, <2>3, AllReadable
    <3> QED BY <2>1, <3>1 DEF OthersReadable, Readable
  <2>4. ShowSurvives' BY <2>1 DEF ShowSurvives
  <2> QED BY <2>1, <2>2, <2>3, <2>4
<1>5. ASSUME NEW t \in Callers, DebugInvalid(t) PROVE TextInv'
  <2>1. /\ lock_debug_info = t /\ lock_debug_info' = NoCaller
        /\ UNCHANGED <<head_info, slot_data, vsize>>
    BY <1>5 DEF DebugInvalid, DebugReturn, FoundLocked
  <2>2. mishaps \subseteq mishaps' /\ (mishaps' = {} => debug_slot[t] = -1)
    BY <1>5 DEF DebugInvalid
  <2>3. Owned => Owned' BY <2>1 DEF Owned
  <2>4. ASSUME mishaps' = {} PROVE OthersReadable'
    <3>1. mishaps = {} /\ debug_slot[t] = -1 BY <2>2, <2>4
    <3>2. \A j \in Slots : head_info[j].key # NoCaller => Readable(j)
      BY <2>1, <3>1, AllReadable
    <3> QED BY <2>1, <3>2 DEF OthersReadable, Readable
  <2>5. ShowSurvives' BY <2>1 DEF ShowSurvives
  <2> QED BY <2>2, <2>3, <2>4, <2>5
<1>6. ASSUME NEW t \in Callers, DebugStore(t) PROVE TextInv'
  <2>1. debug_pc[t] = "found" /\ lock_debug_info = t /\ lock_debug_info' = NoCaller
        /\ UNCHANGED head_info
    BY <1>6 DEF DebugStore, DebugReturn, FoundLocked
  <2>2. PICK i \in Slots, b \in Buffers :
          /\ Vfree(slot_data[i])[b] = 0
          /\ vsize' = [Vfree(slot_data[i]) EXCEPT ![b] = head_info[i].length]
          /\ slot_data' = [slot_data EXCEPT ![i] = b]
          /\ mishaps' = mishaps \cup IndexMishap(t, i)
    BY <1>6 DEF DebugStore
  <2>3. ShowSurvives' BY <2>1 DEF ShowSurvives
  <2>4. CASE i # debug_slot[t]
    BY <2>2, <2>3, <2>4 DEF IndexMishap
  <2>5. CASE i = debug_slot[t]
    <3>1. mishaps' = mishaps BY <2>2, <2>5 DEF IndexMishap
    <3>2. head_info[i].key = t
      BY <2>1, <2>5 DEF FoundOwn
    <3>a. head_info[i].key # NoCaller BY <3>2
    <3>b. head_info[i].length \in Lengths BY <3>a DEF LengthsGiven
    <3>3. head_info[i].length \in Nat \ {0} /\ head_info[i] # Empty
      <4>1. head_info[i].length \in Nat \ {0} BY ONLY <1>0, <3>b
      <4>2. head_info[i] # Empty BY ONLY <3>a DEF Empty
      <4> QED BY <4>1, <4>2
    <3>4. Owned => Owned'
      <4> HIDE DEF Owned
      <4> QED BY <2>1, <2>2, <3>3, OwnedAnother
    <3>5. ASSUME mishaps = {}, Owned PROVE OthersReadable'
      <4>1. \A j \in Slots \ {i} : head_info[j].key # NoCaller => Readable(j)
        BY <2>1, <2>5, <3>5 DEF OthersReadable, FoundLocked
      <4>2. slot_data'[i] = b /\ \A j \in Slots \ {i} : slot_data'[j] = slot_data[j]
        BY <2>2
      <4>3. vsize'[b] = head_info[i].length
        BY <2>2 DEF Vfree
      <4>4. Readable(i)'
        BY <2>1, <3>3, <4>2, <4>3 DEF Readable
      <4>5. ASSUME NEW j \in Slots \ {i}, Readable(j), head_info[j].key # NoCaller PROVE Readable(j)'
        <5>1. Vfree(slot_data[i])[slot_data[j]] = vsize[slot_data[j]]
              /\ slot_data[j] \in Buffers
          BY <3>5, <4>5, FreeOne DEF Readable
        <5>2. head_info[j].length \in Nat \ {0} BY <4>5 DEF LengthsGiven
        <5>a. vsize[slot_data[j]] \in Lengths \cup {0}
          BY <5>1
        <5>3. vsize[slot_data[j]] \in Nat
          <6>1. CASE vsize[slot_data[j]] \in Lengths BY ONLY <1>0, <6>1
          <6>2. CASE vsize[slot_data[j]] \in {0} BY ONLY <6>2
          <6> QED BY <5>a, <6>1, <6>2
        <5>4. slot_data[j] # b
          BY <2>2, <4>5, <5>1, <5>2, <5>3 DEF Readable
        <5>5. vsize'[slot_data[j]] = vsize[slot_data[j]]
          BY <2>2, <5>1, <5>4 DEF Vfree
        <5> QED BY <2>1, <4>2, <4>5, <5>5 DEF Readable
      <4> QED BY <2>1, <4>1, <4>4, <4>5 DEF OthersReadable
    <3> QED BY <2>3, <3>1, <3>4, <3>5
  <2> QED BY <2>4, <2>5
<1>7. ASSUME NEW t \in Callers, DebugNoMemory(t) PROVE TextInv'
  <2>1. lock_debug_info' = NoCaller /\ UNCHANGED head_info
    BY <1>7 DEF DebugNoMemory, DebugReturn
  <2>2. PICK i \in Slots :
          /\ vsize' = Vfree(slot_data[i])
          /\ slot_data' = [slot_data EXCEPT ![i] = NoBuffer]
          /\ mishaps' = mishaps \cup IndexMishap(t, i) \cup {"vmalloc"}
    BY <1>7 DEF DebugNoMemory
  <2>3. ShowSurvives' BY <2>1 DEF ShowSurvives
  <2>4. Owned => Owned'
    <3> HIDE DEF Owned
    <3> QED BY <2>1, <2>2, OwnedNothing
  <2> QED BY <2>2, <2>3, <2>4
<1>8. ASSUME NEW t \in Callers, DebugStoreFails(t) PROVE TextInv'
  <2>1. lock_debug_info' = NoCaller BY <1>8 DEF DebugStoreFails, DebugReturn
  <2>2. "copy" \in mishaps' BY <1>8 DEF DebugStoreFails
  <2> QED BY <2>1, <2>2 DEF ShowSurvives
<1>9. ASSUME NEW t \in Callers, DebugStop(t) PROVE TextInv'
  <2> DEFINE i == Min(SlotsOf(t))
  <2>0. SlotsOf(t) # {} /\ SlotsOf(t) \subseteq Slots
    BY ONLY <1>9 DEF DebugStop, SlotsOf
  <2>a. i \in SlotsOf(t) BY <2>0, FirstSlot
  <2>1. i \in Slots /\ head_info[i].key = t
    BY ONLY <2>a DEF SlotsOf
  <2>2. /\ vsize' = Vfree(slot_data[i]) /\ slot_data' = [slot_data EXCEPT ![i] = NoBuffer]
        /\ head_info' = [head_info EXCEPT ![i] = Empty]
        /\ lock_debug_info = NoCaller /\ lock_debug_info' = NoCaller /\ mishaps' = mishaps
    BY <1>9 DEF DebugStop
  <2> HIDE DEF i
  <2>3. head_info'[i] = Empty /\ \A j \in Slots \ {i} : head_info'[j] = head_info[j]
    BY <2>1, <2>2
  <2>4. Owned => Owned'
    <3> HIDE DEF Owned
    <3> QED BY <2>1, <2>2, <2>3, OwnedNothing
  <2>5. ASSUME mishaps = {}, Owned PROVE OthersReadable'
    <3>1. \A j \in Slots : head_info[j].key # NoCaller => Readable(j)
      BY <2>2, <2>5, AllReadable
    <3>2. ASSUME NEW j \in Slots \ {i}, Readable(j) PROVE Readable(j)'
      <4>1. vsize'[slot_data[j]] = vsize[slot_data[j]]
        BY <2>1, <2>2, <2>5, <3>2, FreeOne DEF Readable
      <4>2. slot_data'[j] = slot_data[j] BY <2>2
      <4> QED BY <2>3, <3>2, <4>1, <4>2 DEF Readable
    <3>3. head_info'[i].key = NoCaller BY <2>3 DEF Empty
    <3> QED BY <2>3, <3>1, <3>2, <3>3 DEF OthersReadable
  <2>6. ShowSurvives' BY <2>2 DEF ShowSurvives
  <2> QED BY <2>2, <2>4, <2>5, <2>6
<1>10. ASSUME NEW t \in Callers, DebugExit(t) PROVE TextInv'
  <2>1. /\ UNCHANGED <<head_info, slot_data, vsize, debug_slot, lock_debug_info, mishaps>>
        /\ \A u \in Callers : debug_pc'[u] = "found" <=> debug_pc[u] = "found"
    BY <1>10 DEF DebugExit
  <2> QED BY <2>1 DEF Owned, OthersReadable, ShowSurvives, Readable
<1>11. CASE DebugShowFaults
  <2>1. /\ lock_debug_info = NoCaller
        /\ UNCHANGED <<head_info, slot_data, vsize, debug_pc, debug_slot, mishaps>>
    BY <1>11 DEF DebugShowFaults
  <2>2. PICK j \in Slots : head_info[j].key # NoCaller /\ ~Readable(j)
    BY <1>11 DEF DebugShowFaults, Shown
  <2>3. mishaps # {}
    BY <2>1, <2>2, AllReadable
  <2> QED BY <2>1, <2>3 DEF Owned, ShowSurvives
<1>12. CASE UNCHANGED debugVars
  <2>1. /\ UNCHANGED <<head_info, slot_data, vsize, debug_slot, lock_debug_info, mishaps>>
        /\ \A u \in Callers : debug_pc'[u] = "found" <=> debug_pc[u] = "found"
    BY <1>12 DEF debugVars
  <2> QED BY <2>1 DEF Owned, OthersReadable, ShowSurvives, Readable
<1> QED
  BY <1>1, <1>2, <1>3, <1>4, <1>5, <1>6, <1>7, <1>8, <1>9, <1>10, <1>11, <1>12
  DEF DebugNext, DebugCaller

LEMMA DebugInvariance == DebugSpec => [](SearchInv /\ TextInv)
<1>1. SearchInv /\ TextInv /\ [DebugNext]_debugVars => (SearchInv /\ TextInv)'
  BY DebugTypeStep, SearchStep, TextStep DEF SearchInv
<1> QED BY DebugInvInit, <1>1, PTL DEF DebugSpec

\* Each thread has at most one slot, each slot its own text, and ve_info_show
\* reads no text that is not there: unless a text could not be fetched or
\* allocated, or debug_info_cur_index was another thread's.
THEOREM TextsAreSafe == DebugSpec => []TextsSafe
<1>1. ASSUME SearchInv, TextInv PROVE TextsSafe
  <2>1. OneSlotPerThread
    <3> SUFFICES ASSUME NEW t \in Callers PROVE Cardinality(SlotsOf(t)) <= 1
      BY DEF OneSlotPerThread
    <3>1. \A i, j \in SlotsOf(t) : i = j
      BY <1>1, VeDebugInfoAssumption DEF SlotsOf, SearchInv, KeysDiffer
    <3>2. CASE SlotsOf(t) = {}
      <4>1. Cardinality(SlotsOf(t)) = 0 BY <3>2, FS_EmptySet
      <4> QED BY <4>1
    <3>3. CASE SlotsOf(t) # {}
      <4>1. PICK i \in SlotsOf(t) : SlotsOf(t) = {i} BY <3>1, <3>3
      <4>2. Cardinality(SlotsOf(t)) = 1 BY <4>1, FS_Singleton
      <4> QED BY <4>2
    <3> QED BY <3>2, <3>3
  <2>2. TextsOwned BY <1>1 DEF TextInv, Owned, TextsOwned
  <2>3. ShowSurvives BY <1>1 DEF TextInv
  <2> QED BY <2>1, <2>2, <2>3 DEF TextsSafe
<1> QED BY DebugInvariance, <1>1, PTL

\* A text goes to the slot of its own thread, although the index is shared.
THEOREM StoredInOwnSlot == DebugSpec => FoundInOwnSlot
<1>1. ASSUME SearchInv, [DebugNext]_debugVars
      PROVE  [\A i \in Slots, t \in Callers :
                debug_pc[t] = "found" /\ debug_slot[t] # -1 /\ slot_data'[i] # slot_data[i]
                  => head_info[i].key = t]_debugVars
  <2> SUFFICES ASSUME NEW i \in Slots, NEW t \in Callers, debug_pc[t] = "found",
                      debug_slot[t] # -1, slot_data'[i] # slot_data[i]
               PROVE  head_info[i].key = t
    OBVIOUS
  <2> USE DEF SearchInv, DebugTypeOK
  <2>1. lock_debug_info = t /\ t # NoCaller BY <1>1, VeDebugInfoAssumption DEF FoundLocked
  <2>2. ASSUME NEW u \in Callers, NEW j \in IndexOf(u) \cap Slots, DebugReturn(u),
               NEW q, slot_data' = [slot_data EXCEPT ![j] = q]
        PROVE  head_info[i].key = t
    <3>1. u = t BY <1>1, <2>1, <2>2 DEF DebugReturn, DebugGo, FoundLocked
    <3>2. j = i BY <1>1, <2>2
    <3>3. j = debug_slot[t]
      BY <1>1, <3>1, <2>2 DEF IndexOf, FoundOwn, Slots
    <3> QED BY <1>1, <3>2, <3>3 DEF FoundOwn
  <2>3. CASE \E u \in Callers : DebugStore(u)
    BY <2>2, <2>3 DEF DebugStore
  <2>4. CASE \E u \in Callers : DebugNoMemory(u)
    BY <2>2, <2>4 DEF DebugNoMemory
  <2>5. CASE \E u \in Callers : DebugStoreFails(u)
    BY <2>2, <2>5 DEF DebugStoreFails
  <2>6. slot_data' = slot_data \/ (\E u \in Callers : DebugStore(u) \/ DebugNoMemory(u) \/ DebugStoreFails(u))
    BY <1>1, <2>1 DEF DebugNext, DebugCaller, DebugCopy, DebugCopyRefused, DebugClaim, DebugFind,
      DebugOverflow, DebugInvalid, DebugStop, DebugExit, DebugShowFaults, TableVars, debugVars
  <2> QED BY <2>3, <2>4, <2>5, <2>6
<1> QED BY DebugInvariance, <1>1, PTL DEF DebugSpec, FoundInOwnSlot

-----------------------------------------------------------------------------
(* The inductive invariant of VeLoad.                                       *)

LoadTypeOK ==
  /\ load_infos \in [LoadEntries -> Announcements \cup {NoLoad}]
  /\ load_pc \in [LoadFiles -> {"closed", "user", "sum", "gone"}]
  /\ load_i \in [LoadFiles -> 1 .. MaxLoads + 1]
  /\ load_fix \subseteq {f \in LoadFiles : load_pc[f] = "sum" /\ load_i[f] \in LoadEntries}
  /\ announced \in [LoadFiles -> SUBSET Announcements]
  /\ DOMAIN load_sum = LoadFiles

\* A channel has one entry and one announcement.
OnePerChannel ==
  /\ \A i, j \in Used : /\ load_infos[i].file = load_infos[j].file
                        /\ load_infos[i].channel = load_infos[j].channel
                        => i = j
  /\ \A f \in LoadFiles :
       /\ IsFiniteSet(announced[f])
       /\ \A x \in announced[f] : x.file = f
       /\ \A x, y \in announced[f] : x.channel = y.channel => x = y

\* Every entry is what its file has announced, and the other way round while
\* the file is there; but for the default rate.
EntriesAnnounced ==
  \A f \in LoadFiles :
    /\ \A i \in EntriesOf(f) : \E x \in announced[f] : WithRate(x) = WithRate(load_infos[i])
    /\ load_pc[f] # "gone" =>
         \A x \in announced[f] : \E i \in EntriesOf(f) : WithRate(x) = WithRate(load_infos[i])

\* The entries below n, as a summation without interruption collects them.
SumBelow(n) == {[at |-> i, info |-> WithRate(load_infos[i])] : i \in {j \in Used : j < n}}

\* A call that has seen no other change has collected what is in the table.
SumsRight ==
  \A f \in undisturbed \cap LoadFiles :
    load_pc[f] = "sum" => /\ load_sum[f] = SumBelow(load_i[f])
                          /\ f \in load_fix => load_i[f] \in Used

LoadInv == /\ LoadTypeOK /\ OnePerChannel
           /\ ~overwritten => EntriesAnnounced /\ SumsRight
           /\ RateFits

\* WithRate leaves the rest of an announcement.
LEMMA WithRateIs ==
  ASSUME NEW x \in Announcements
  PROVE  /\ WithRate(x) \in Announcements
         /\ WithRate(x).file = x.file /\ WithRate(x).channel = x.channel
         /\ WithRate([x EXCEPT !.rate = DefaultRate]) = [x EXCEPT !.rate = DefaultRate]
         /\ [x EXCEPT !.rate = DefaultRate] \in Announcements
         /\ x.rate \in {0, DefaultRate} => WithRate(x) = [x EXCEPT !.rate = DefaultRate]
         /\ x.rate # 0 => WithRate(x) = x
BY DEF Announcements, WithRate

\* The entry of an update or a removal: the channel's own, or else an unused one.
LEMMA EntryForIs ==
  ASSUME LoadTypeOK, OnePerChannel, NEW f \in LoadFiles, NEW ch \in LoadChannels, EntryFor(f, ch) # {}
  PROVE  LET e == Min(EntryFor(f, ch)) IN
         /\ e \in LoadEntries
         /\ e \in Used => load_infos[e].file = f /\ load_infos[e].channel = ch
         /\ \A i \in EntriesOf(f) \ {e} : load_infos[i].channel # ch
<1> DEFINE own == {i \in EntriesOf(f) : load_infos[i].channel = ch}
           e == Min(EntryFor(f, ch))
<1>1. EntryFor(f, ch) \subseteq Nat BY VeLoadAssumption DEF EntryFor, EntriesOf, Used, LoadEntries
<1>2. e \in EntryFor(f, ch) BY <1>1, FirstOfNat
<1>3. EntryFor(f, ch) = IF own # {} THEN own ELSE LoadEntries \ Used BY DEF EntryFor
<1> HIDE DEF e
<1>4. CASE own # {}
  <2>1. e \in own BY <1>2, <1>3, <1>4
  <2>2. \A i \in own : i = e BY <2>1 DEF OnePerChannel, EntriesOf
  <2> QED BY <2>1, <2>2 DEF EntriesOf, Used, e
<1>5. CASE own = {}
  BY <1>2, <1>3, <1>5 DEF e
<1> QED BY <1>4, <1>5

LEMMA LoadInvInit == LoadInit => LoadInv
<1> SUFFICES ASSUME LoadInit PROVE LoadInv
  OBVIOUS
<1>1. Used = {} BY DEF LoadInit, Used
<1>2. LoadTypeOK BY VeLoadAssumption DEF LoadInit, LoadTypeOK
<1>3. OnePerChannel BY <1>1, FS_EmptySet DEF LoadInit, OnePerChannel
<1>4. EntriesAnnounced BY <1>1 DEF LoadInit, EntriesAnnounced, EntriesOf
<1>5. SumsRight BY DEF LoadInit, SumsRight
<1>6. RateFits BY DEF LoadInit, RateFits
<1> QED BY <1>2, <1>3, <1>4, <1>5, <1>6 DEF LoadInv

-----------------------------------------------------------------------------
(* The type invariant.                                                      *)

LEMMA ForgetTyped ==
  ASSUME LoadTypeOK, NEW f \in LoadFiles, NEW ch
  PROVE  Forget(f, ch) \in SUBSET Announcements
BY DEF LoadTypeOK, Forget

LEMMA BeginsTyped ==
  ASSUME LoadTypeOK, NEW f \in LoadFiles, LoadBegins(f),
         load_infos' \in [LoadEntries -> Announcements \cup {NoLoad}],
         announced' \in [LoadFiles -> SUBSET Announcements]
  PROVE  LoadTypeOK'
<1>1. load_pc' \in [LoadFiles -> {"closed", "user", "sum", "gone"}]
  BY DEF LoadTypeOK, LoadBegins, LoadGo
<1>2. 1 \in 1 .. MaxLoads + 1 BY VeLoadAssumption
<1>3. load_i' \in [LoadFiles -> 1 .. MaxLoads + 1]
  BY <1>2 DEF LoadTypeOK, LoadBegins
<1>4. load_fix' \subseteq {g \in LoadFiles : load_pc'[g] = "sum" /\ load_i'[g] \in LoadEntries}
  BY DEF LoadTypeOK, LoadBegins, LoadGo
<1>5. DOMAIN load_sum' = LoadFiles
  BY DEF LoadTypeOK, LoadBegins
<1> QED BY <1>1, <1>3, <1>4, <1>5 DEF LoadTypeOK, LoadEntries

LEMMA UpdateTyped ==
  ASSUME LoadTypeOK, OnePerChannel, NEW f \in LoadFiles, NEW ch \in LoadChannels,
         NEW m \in Decoders \cup Encoders, NEW p \in Pixels, NEW r \in Rates,
         LoadUpdate(f, ch, m, p, r)
  PROVE  LoadTypeOK'
<1> DEFINE info == [file |-> f, channel |-> ch, format |-> m, pixels |-> p, rate |-> r]
<1>1. info \in Announcements BY DEF Announcements
<1>2. /\ LoadBegins(f)
      /\ load_infos' = [load_infos EXCEPT ![Min(EntryFor(f, ch))] = info]
      /\ announced' = [announced EXCEPT ![f] = Forget(f, ch) \cup {info}]
  BY DEF LoadUpdate
<1> HIDE DEF info
<1>3. load_infos' \in [LoadEntries -> Announcements \cup {NoLoad}]
  BY <1>1, <1>2 DEF LoadTypeOK
<1>4. Forget(f, ch) \cup {info} \in SUBSET Announcements
  BY <1>1, ForgetTyped
<1>5. announced' \in [LoadFiles -> SUBSET Announcements]
  BY <1>2, <1>4 DEF LoadTypeOK
<1> QED BY <1>2, <1>3, <1>5, BeginsTyped

LEMMA RemoveTyped ==
  ASSUME LoadTypeOK, NEW f \in LoadFiles, NEW ch \in LoadChannels, LoadRemove(f, ch)
  PROVE  LoadTypeOK'
<1>2. /\ LoadBegins(f)
      /\ load_infos' = [load_infos EXCEPT ![Min(EntryFor(f, ch))] = NoLoad]
      /\ announced' = [announced EXCEPT ![f] = Forget(f, ch)]
  BY DEF LoadRemove
<1>3. load_infos' \in [LoadEntries -> Announcements \cup {NoLoad}]
  BY <1>2 DEF LoadTypeOK
<1>5. announced' \in [LoadFiles -> SUBSET Announcements]
  BY <1>2, ForgetTyped DEF LoadTypeOK
<1> QED BY <1>2, <1>3, <1>5, BeginsTyped

\* The steps that change neither what is announced nor an entry but for its rate.
Adjusts(f) == LoadSeesNoRate(f) \/ LoadStoreRate(f) \/ LoadAdd(f)
Finishes(f) == LoadUnchanged(f) \/ LoadSetup(f) \/ LoadSetupFails(f)
Lives(f) == \/ \E freq \in UserFreqs : SetVeFreq(f, freq)
            \/ LoadOpen(f) \/ LoadReleaseInterrupted(f)

LEMMA StoredTyped ==
  ASSUME LoadTypeOK, NEW f \in LoadFiles, LoadStoreRate(f)
  PROVE  load_infos' \in [LoadEntries -> Announcements \cup {NoLoad}]
<1> DEFINE i == load_i[f]
<1>1. load_infos' = IF i \in Used THEN [load_infos EXCEPT ![i].rate = DefaultRate]
                                  ELSE load_infos
  BY DEF LoadStoreRate
<1>2. CASE i \in Used
  <2>1. load_infos[i] \in Announcements BY <1>2 DEF LoadTypeOK, Used
  <2>2. PICK x \in Announcements : x = load_infos[i] BY <2>1
  <2>3. [x EXCEPT !.rate = DefaultRate] \in Announcements BY WithRateIs
  <2>4. load_infos' = [load_infos EXCEPT ![i] = [x EXCEPT !.rate = DefaultRate]]
    BY <1>1, <1>2, <2>2
  <2> QED BY <2>3, <2>4 DEF LoadTypeOK
<1>3. CASE i \notin Used
  BY <1>1, <1>3 DEF LoadTypeOK
<1> QED BY <1>2, <1>3

LEMMA AdjustsTyped ==
  ASSUME LoadTypeOK, NEW f \in LoadFiles, Adjusts(f)
  PROVE  LoadTypeOK'
<1>1. CASE LoadSeesNoRate(f)
  BY <1>1 DEF LoadSeesNoRate, LoadTypeOK, FreqVars, Used
<1> DEFINE Typed == /\ load_infos' \in [LoadEntries -> Announcements \cup {NoLoad}]
                    /\ load_fix' \subseteq load_fix \ {f}
                    /\ load_i[f] \in LoadEntries
                    /\ load_i' = [load_i EXCEPT ![f] = @ + 1]
                    /\ load_pc' = load_pc /\ announced' = announced
                    /\ DOMAIN load_sum' = LoadFiles
<1>2. CASE LoadStoreRate(f)
  <2>1. Typed
    BY <1>2, StoredTyped DEF LoadStoreRate, LoadAdds, LoadTypeOK, FreqVars
  <2> QED BY <2>1, VeLoadAssumption DEF LoadTypeOK, LoadEntries
<1>3. CASE LoadAdd(f)
  <2>1. Typed
    BY <1>3 DEF LoadAdd, LoadAdds, LoadTypeOK, FreqVars
  <2> QED BY <2>1, VeLoadAssumption DEF LoadTypeOK, LoadEntries
<1> QED BY <1>1, <1>2, <1>3 DEF Adjusts

LEMMA FinishesTyped ==
  ASSUME LoadTypeOK, NEW f \in LoadFiles, Finishes(f)
  PROVE  LoadTypeOK'
<1>1. LoadEnds(f) BY DEF Finishes, LoadUnchanged, LoadSetup, LoadSetupFails
<1>2. 1 \in 1 .. MaxLoads + 1 BY VeLoadAssumption
<1> QED BY <1>1, <1>2 DEF LoadEnds, LoadGo, LoadTypeOK

LEMMA LivesTyped ==
  ASSUME LoadTypeOK, NEW f \in LoadFiles, Lives(f)
  PROVE  LoadTypeOK'
BY DEF Lives, SetVeFreq, LoadOpen, LoadReleaseInterrupted, LoadGone, LoadGo, LoadTypeOK,
       SumVars, FreqVars

LEMMA ReleaseTyped ==
  ASSUME LoadTypeOK, NEW f \in LoadFiles, LoadRelease(f)
  PROVE  LoadTypeOK'
<1>1. load_infos' \in [LoadEntries -> Announcements \cup {NoLoad}]
  BY DEF LoadRelease, LoadTypeOK
<1>2. announced' \in [LoadFiles -> SUBSET Announcements]
  BY DEF LoadRelease, LoadTypeOK
<1>3. /\ load_pc' \in [LoadFiles -> {"closed", "user", "sum", "gone"}]
      /\ load_fix' \subseteq {g \in LoadFiles : load_pc'[g] = "sum" /\ load_i'[g] \in LoadEntries}
      /\ load_i' = load_i /\ load_sum' = load_sum
  BY DEF LoadRelease, LoadGone, LoadGo, LoadTypeOK, SumVars
<1> QED BY <1>1, <1>2, <1>3 DEF LoadTypeOK, LoadEntries

-----------------------------------------------------------------------------
(* The steps that announce nothing: every entry stays with its channel, and  *)
(* a step after which no default rate has hit another announcement leaves    *)
(* what the entries amount to.                                               *)

KeysKept == /\ Used' = Used /\ announced' = announced
            /\ \A i \in Used : /\ load_infos'[i].file = load_infos[i].file
                               /\ load_infos'[i].channel = load_infos[i].channel

RatesKept == \A i \in Used : WithRate(load_infos[i])' = WithRate(load_infos[i])

LEMMA SameKept ==
  ASSUME load_infos' = load_infos, announced' = announced
  PROVE  KeysKept /\ RatesKept
BY DEF KeysKept, RatesKept, Used, WithRate

LEMMA StoreKept ==
  ASSUME LoadTypeOK, NEW f \in LoadFiles, LoadStoreRate(f)
  PROVE  /\ KeysKept
         /\ ~overwritten' => ~overwritten /\ RatesKept
<1> DEFINE i == load_i[f]
<1>1. /\ load_infos' = IF i \in Used THEN [load_infos EXCEPT ![i].rate = DefaultRate]
                                     ELSE load_infos
      /\ announced' = announced
      /\ overwritten' <=> (overwritten \/ (i \in Used /\ load_infos[i].rate \notin {0, DefaultRate}))
  BY DEF LoadStoreRate, LoadAdds
<1>2. CASE i \in Used
  <2>1. load_infos[i] \in Announcements BY <1>2 DEF LoadTypeOK, Used
  <2>2. PICK x \in Announcements : x = load_infos[i] BY <2>1
  <2> DEFINE y == [x EXCEPT !.rate = DefaultRate]
  <2>3. /\ y \in Announcements /\ WithRate(y) = y
        /\ x.rate \in {0, DefaultRate} => WithRate(x) = y
    BY WithRateIs
  <2>4. y.file = x.file /\ y.channel = x.channel
    BY DEF Announcements
  <2> HIDE DEF y
  <2>5. load_infos' = [load_infos EXCEPT ![i] = y]
    BY <1>1, <1>2, <2>2 DEF y
  <2>6. y # NoLoad BY <2>3, VeLoadAssumption
  <2>7. Used' = Used
    BY <1>2, <2>5, <2>6 DEF Used, LoadTypeOK
  <2>8. KeysKept
    BY <1>1, <2>2, <2>4, <2>5, <2>7 DEF KeysKept, Used, LoadTypeOK
  <2>9. ASSUME ~overwritten' PROVE ~overwritten /\ RatesKept
    <3>1. ~overwritten /\ x.rate \in {0, DefaultRate} BY <1>1, <1>2, <2>2, <2>9
    <3>2. WithRate(x) = y BY <2>3, <3>1
    <3>3. \A j \in Used : load_infos'[j] = IF j = i THEN y ELSE load_infos[j]
      BY <2>5 DEF Used, LoadTypeOK
    <3>4. \A j \in Used : WithRate(load_infos'[j]) = WithRate(load_infos[j])
      BY <2>2, <2>3, <3>2, <3>3
    <3> QED BY <3>1, <3>4 DEF RatesKept, WithRate
  <2> QED BY <2>8, <2>9
<1>3. CASE i \notin Used
  BY <1>1, <1>3, SameKept
<1> QED BY <1>2, <1>3

LEMMA QuietKept ==
  ASSUME LoadTypeOK, NEW f \in LoadFiles, Adjusts(f) \/ Finishes(f) \/ Lives(f)
  PROVE  /\ KeysKept
         /\ ~overwritten' => ~overwritten /\ RatesKept
<1>1. CASE LoadStoreRate(f)
  BY <1>1, StoreKept
<1>2. CASE ~LoadStoreRate(f)
  <2>1. load_infos' = load_infos /\ announced' = announced /\ overwritten' = overwritten
    BY <1>2 DEF Adjusts, Finishes, Lives, LoadSeesNoRate, LoadAdd, LoadAdds, LoadUnchanged,
                LoadSetup, LoadSetupFails, LoadEnds, SetVeFreq, LoadOpen, LoadReleaseInterrupted,
                LoadGone
  <2> QED BY <2>1, SameKept
<1> QED BY <1>1, <1>2

LEMMA KeptOnePerChannel ==
  ASSUME OnePerChannel, KeysKept
  PROVE  OnePerChannel'
<1>1. \A i, j \in Used' : /\ load_infos'[i].file = load_infos'[j].file
                          /\ load_infos'[i].channel = load_infos'[j].channel
                          => i = j
  BY DEF OnePerChannel, KeysKept
<1> QED BY <1>1 DEF OnePerChannel, KeysKept

LEMMA KeptEntries ==
  ASSUME KeysKept, NEW f
  PROVE  EntriesOf(f)' = EntriesOf(f)
BY DEF KeysKept, EntriesOf

LEMMA KeptAnnounced ==
  ASSUME EntriesAnnounced, KeysKept, RatesKept,
         \A f \in LoadFiles : load_pc'[f] # "gone" => load_pc[f] # "gone"
  PROVE  EntriesAnnounced'
<1>1. \A f : EntriesOf(f)' = EntriesOf(f) BY KeptEntries
<1>2. \A f : \A i \in EntriesOf(f) : WithRate(load_infos'[i]) = WithRate(load_infos[i])
  BY DEF RatesKept, EntriesOf, WithRate
<1>3. announced' = announced BY DEF KeysKept
<1> SUFFICES ASSUME NEW f \in LoadFiles
             PROVE  /\ \A i \in EntriesOf(f)' : \E x \in announced'[f] : WithRate(x) = WithRate(load_infos'[i])
                    /\ load_pc'[f] # "gone" =>
                         \A x \in announced'[f] : \E i \in EntriesOf(f)' : WithRate(x) = WithRate(load_infos'[i])
  BY DEF EntriesAnnounced
<1> QED BY <1>1, <1>2, <1>3 DEF EntriesAnnounced

LEMMA KeptBelow ==
  ASSUME KeysKept, RatesKept, NEW n
  PROVE  SumBelow(n)' = SumBelow(n)
<1>1. \A i \in Used : WithRate(load_infos'[i]) = WithRate(load_infos[i])
  BY DEF RatesKept, WithRate
<1> QED BY <1>1 DEF SumBelow, KeysKept

\* A step of a file leaves the summation of the others.
LEMMA OthersSums ==
  ASSUME LoadTypeOK, ~overwritten, SumsRight, KeysKept, RatesKept, NEW f \in LoadFiles,
         undisturbed' \subseteq undisturbed,
         \A g \in LoadFiles \ {f} : /\ load_pc'[g] = load_pc[g] /\ load_i'[g] = load_i[g]
                                    /\ load_sum'[g] = load_sum[g]
                                    /\ g \in load_fix' => g \in load_fix,
         f \in undisturbed' /\ load_pc'[f] = "sum" =>
            load_sum'[f] = SumBelow(load_i'[f]) /\ (f \in load_fix' => load_i'[f] \in Used)
  PROVE  SumsRight'
<1>1. \A n : SumBelow(n)' = SumBelow(n) BY KeptBelow
<1>2. Used' = Used BY DEF KeysKept
<1> SUFFICES ASSUME NEW g \in undisturbed' \cap LoadFiles, load_pc'[g] = "sum"
             PROVE  /\ load_sum'[g] = SumBelow(load_i'[g])
                    /\ g \in load_fix' => load_i'[g] \in Used
  <2>1. \A g : SumBelow(load_i[g])' = SumBelow(load_i'[g])
    <3>1. \A g, n : n = load_i'[g] => SumBelow(n)' = SumBelow(load_i[g])'
      BY DEF SumBelow
    <3> QED BY <1>1 DEF SumBelow
  <2> QED BY <1>2, <2>1 DEF SumsRight
<1>3. CASE g = f BY <1>3
<1>4. CASE g # f BY <1>4 DEF SumsRight
<1> QED BY <1>3, <1>4

\* What a summation collects at entry n.
LEMMA NextBelow ==
  ASSUME LoadTypeOK, NEW n \in LoadEntries
  PROVE  SumBelow(n + 1) = SumBelow(n) \cup
           (IF n \in Used THEN {[at |-> n, info |-> WithRate(load_infos[n])]} ELSE {})
<1>1. {j \in Used : j < n + 1} = {j \in Used : j < n} \cup (IF n \in Used THEN {n} ELSE {})
  BY VeLoadAssumption DEF Used, LoadEntries
<1> QED BY <1>1 DEF SumBelow

LEMMA SeesNoRateSums ==
  ASSUME LoadInv, ~overwritten, NEW f \in LoadFiles, LoadSeesNoRate(f), KeysKept, RatesKept
  PROVE  SumsRight'
<1>1. /\ load_fix' = load_fix \cup {f} /\ load_i[f] \in Used
      /\ load_pc' = load_pc /\ load_i' = load_i /\ load_sum' = load_sum
      /\ undisturbed' = undisturbed
  BY DEF LoadSeesNoRate
<1>2. f \in undisturbed /\ load_pc[f] = "sum" => load_sum[f] = SumBelow(load_i[f])
  BY DEF LoadInv, SumsRight
<1>3. LoadTypeOK /\ SumsRight BY DEF LoadInv
<1> QED BY ONLY <1>1, <1>2, <1>3, ~overwritten, KeysKept, RatesKept, OthersSums, f \in LoadFiles

LEMMA StoreRateSums ==
  ASSUME LoadInv, ~overwritten, NEW f \in LoadFiles, LoadStoreRate(f), KeysKept, RatesKept
  PROVE  SumsRight'
<1> DEFINE i == load_i[f]
<1>1. /\ load_pc[f] = "sum" /\ i \in LoadEntries /\ f \in load_fix /\ load_fix' = load_fix \ {f}
      /\ load_pc' = load_pc /\ load_i' = [load_i EXCEPT ![f] = i + 1]
      /\ undisturbed' = undisturbed
      /\ load_sum' = [load_sum EXCEPT ![f] = @ \cup
            IF i \in Used THEN Added(f, load_infos') ELSE {[at |-> i, info |-> Cleared]}]
      /\ load_infos' = IF i \in Used THEN [load_infos EXCEPT ![i].rate = DefaultRate]
                                     ELSE load_infos
  BY DEF LoadStoreRate, LoadAdds
<1>2. LoadTypeOK /\ SumsRight BY DEF LoadInv
<1>3. ASSUME f \in undisturbed
      PROVE  load_sum'[f] = SumBelow(i + 1)
  <2>1. load_sum[f] = SumBelow(i) /\ i \in Used
    BY <1>1, <1>2, <1>3 DEF SumsRight
  <2>2. load_infos[i] \in Announcements BY <2>1, <1>2 DEF LoadTypeOK, Used
  <2>3. PICK x \in Announcements : x = load_infos[i] BY <2>2
  <2> DEFINE y == [x EXCEPT !.rate = DefaultRate]
  <2>4. y \in Announcements /\ WithRate(y) = y BY WithRateIs
  <2>5. load_infos'[i] = y BY <1>1, <1>2, <2>1, <2>3 DEF LoadTypeOK
  <2> HIDE DEF y
  <2>6. y # NoLoad BY <2>4, VeLoadAssumption
  <2>7. Added(f, load_infos') = {[at |-> i, info |-> y]}
    BY <2>5, <2>6 DEF Added
  <2>8. WithRate(load_infos[i]) = y
    <3>1. WithRate(load_infos'[i]) = WithRate(load_infos[i])
      BY <2>1 DEF RatesKept, WithRate
    <3> QED BY <3>1, <2>4, <2>5
  <2>9. SumBelow(i + 1) = SumBelow(i) \cup {[at |-> i, info |-> y]}
    BY <1>1, <1>2, <2>1, <2>8, NextBelow
  <2>10. load_sum'[f] = load_sum[f] \cup {[at |-> i, info |-> y]}
    BY <1>1, <1>2, <2>1, <2>7 DEF LoadTypeOK
  <2> QED BY <2>1, <2>9, <2>10
<1>4. load_i'[f] = i + 1 BY <1>1, <1>2 DEF LoadTypeOK
<1>5. \A g \in LoadFiles \ {f} : /\ load_pc'[g] = load_pc[g] /\ load_i'[g] = load_i[g]
                                 /\ load_sum'[g] = load_sum[g]
                                 /\ g \in load_fix' => g \in load_fix
  BY <1>1, <1>2 DEF LoadTypeOK
<1>6. f \notin load_fix' BY <1>1
<1>7. f \in undisturbed' => load_sum'[f] = SumBelow(load_i'[f]) BY <1>1, <1>3, <1>4
<1>8. undisturbed' \subseteq undisturbed BY <1>1
<1> QED BY ONLY <1>8, <1>2, <1>5, <1>6, <1>7, ~overwritten, KeysKept, RatesKept, OthersSums, f \in LoadFiles

LEMMA AddSums ==
  ASSUME LoadInv, ~overwritten, NEW f \in LoadFiles, LoadAdd(f), KeysKept, RatesKept
  PROVE  SumsRight'
<1> DEFINE i == load_i[f]
<1>1. /\ load_pc[f] = "sum" /\ i \in LoadEntries /\ f \notin load_fix /\ load_fix' = load_fix
      /\ load_pc' = load_pc /\ load_i' = [load_i EXCEPT ![f] = i + 1]
      /\ undisturbed' = undisturbed
      /\ load_sum' = [load_sum EXCEPT ![f] = @ \cup Added(f, load_infos)]
      /\ i \in Used => load_infos[i].rate # 0
  BY DEF LoadAdd, LoadAdds
<1>2. LoadTypeOK /\ SumsRight BY DEF LoadInv
<1>3. Added(f, load_infos) = IF i \in Used THEN {[at |-> i, info |-> WithRate(load_infos[i])]} ELSE {}
  BY <1>1 DEF Added, Used, WithRate
<1>4. load_i'[f] = i + 1 BY <1>1, <1>2 DEF LoadTypeOK
<1>5. \A g \in LoadFiles \ {f} : /\ load_pc'[g] = load_pc[g] /\ load_i'[g] = load_i[g]
                                 /\ load_sum'[g] = load_sum[g]
                                 /\ g \in load_fix' => g \in load_fix
  BY <1>1, <1>2 DEF LoadTypeOK
<1>6. f \notin load_fix' BY <1>1
<1>7. ASSUME f \in undisturbed' PROVE load_sum'[f] = SumBelow(load_i'[f])
  <2>1. load_sum[f] = SumBelow(i) BY <1>1, <1>2, <1>7 DEF SumsRight
  <2>2. load_sum'[f] = load_sum[f] \cup Added(f, load_infos) BY <1>1, <1>2 DEF LoadTypeOK
  <2> QED BY <1>1, <1>2, <1>3, <1>4, <2>1, <2>2, NextBelow
<1>8. undisturbed' \subseteq undisturbed BY <1>1
<1> QED BY ONLY <1>8, <1>2, <1>5, <1>6, <1>7, ~overwritten, KeysKept, RatesKept, OthersSums, f \in LoadFiles

LEMMA QuietSums ==
  ASSUME LoadInv, ~overwritten, NEW f \in LoadFiles, Finishes(f) \/ Lives(f), KeysKept, RatesKept
  PROVE  SumsRight'
<1>1. LoadTypeOK /\ SumsRight BY DEF LoadInv
<1>2. CASE Finishes(f)
  <2>1. LoadEnds(f) BY <1>2 DEF Finishes, LoadUnchanged, LoadSetup, LoadSetupFails
  <2>2. /\ load_pc'[f] = "user" /\ undisturbed' \subseteq undisturbed
        /\ \A g \in LoadFiles \ {f} : /\ load_pc'[g] = load_pc[g] /\ load_i'[g] = load_i[g]
                                      /\ load_sum'[g] = load_sum[g]
                                      /\ g \in load_fix' => g \in load_fix
    BY <2>1, <1>1 DEF LoadEnds, LoadGo, LoadTypeOK
  <2>3. load_pc'[f] # "sum" BY <2>2
  <2> QED BY ONLY <1>1, <2>2, <2>3, ~overwritten, KeysKept, RatesKept, OthersSums, f \in LoadFiles
<1>3. CASE \E freq \in UserFreqs : SetVeFreq(f, freq)
  <2>1. undisturbed' = {} BY <1>3 DEF SetVeFreq
  <2> QED BY <2>1 DEF SumsRight
<1>4. CASE LoadOpen(f) \/ LoadReleaseInterrupted(f)
  <2>2. /\ load_pc'[f] # "sum" /\ undisturbed' \subseteq undisturbed
        /\ \A g \in LoadFiles \ {f} : /\ load_pc'[g] = load_pc[g] /\ load_i'[g] = load_i[g]
                                      /\ load_sum'[g] = load_sum[g]
                                      /\ g \in load_fix' => g \in load_fix
    BY <1>4, <1>1 DEF LoadOpen, LoadReleaseInterrupted, LoadGone, LoadGo, SumVars, LoadTypeOK
  <2> QED BY ONLY <1>1, <2>2, ~overwritten, KeysKept, RatesKept, OthersSums, f \in LoadFiles
<1> QED BY <1>2, <1>3, <1>4 DEF Lives

-----------------------------------------------------------------------------
(* The frequency.                                                           *)

FullSum == {[at |-> i, info |-> WithRate(load_infos[i])] : i \in Used}

LEMMA RateFitsIs == RateFits <=> (settled /\ ~overwritten => ve_rate = WantedFreq(FullSum))
BY DEF RateFits, FullSum

\* At its end a summation without interruption has collected every entry.
LEMMA WholeSum ==
  ASSUME LoadTypeOK, NEW n \in 1 .. MaxLoads + 1, n \notin LoadEntries
  PROVE  SumBelow(n) = FullSum
<1>1. \A i \in Used : i < n BY VeLoadAssumption DEF LoadEntries, Used
<1> QED BY <1>1 DEF SumBelow, FullSum

LEMMA KeptFullSum ==
  ASSUME KeysKept, RatesKept
  PROVE  FullSum' = FullSum
<1>1. \A i \in Used : WithRate(load_infos'[i]) = WithRate(load_infos[i])
  BY DEF RatesKept, WithRate
<1> QED BY <1>1 DEF FullSum, KeysKept

LEMMA KeptFits ==
  ASSUME RateFits, KeysKept, RatesKept, ~overwritten,
         ve_rate' = ve_rate, user_setting_ve_freq' = user_setting_ve_freq, settled' => settled
  PROVE  RateFits'
<1>1. FullSum' = FullSum BY KeptFullSum
<1>2. settled' => ve_rate = WantedFreq(FullSum) BY RateFitsIs
<1>3. (settled' => ve_rate' = WantedFreq(FullSum)') => RateFits'
  BY DEF RateFits, FullSum
<1>4. WantedFreq(FullSum)' = WantedFreq(FullSum)
  BY <1>1 DEF WantedFreq
<1> QED BY <1>2, <1>3, <1>4

LEMMA SetupFits ==
  ASSUME LoadInv, ~overwritten, NEW f \in LoadFiles, LoadSetup(f), KeysKept, RatesKept
  PROVE  RateFits'
<1>1. /\ load_pc[f] = "sum" /\ load_i[f] \notin LoadEntries
      /\ ve_rate' = WantedFreq(load_sum[f]) /\ settled' = (f \in undisturbed)
      /\ user_setting_ve_freq' = user_setting_ve_freq
  BY DEF LoadSetup, LoadEnds, LoadGo
<1>2. LoadTypeOK /\ SumsRight BY DEF LoadInv
<1>3. (settled' => ve_rate' = WantedFreq(FullSum)') => RateFits'
  BY DEF RateFits, FullSum
<1>4. ASSUME f \in undisturbed PROVE load_sum[f] = FullSum
  <2>1. load_sum[f] = SumBelow(load_i[f]) BY <1>1, <1>2, <1>4 DEF SumsRight
  <2>2. load_i[f] \in 1 .. MaxLoads + 1 BY <1>2 DEF LoadTypeOK
  <2> QED BY <1>1, <1>2, <2>1, <2>2, WholeSum
<1>5. FullSum' = FullSum BY KeptFullSum
<1>6. WantedFreq(FullSum)' = WantedFreq(FullSum)
  BY <1>1, <1>5 DEF WantedFreq
<1>7. settled' => ve_rate' = WantedFreq(FullSum)' BY <1>1, <1>4, <1>6
<1> QED BY <1>3, <1>7

\* The steps that announce nothing.
LEMMA QuietStep ==
  ASSUME LoadInv, NEW f \in LoadFiles, Adjusts(f) \/ Finishes(f) \/ Lives(f)
  PROVE  LoadInv'
<1>1. LoadTypeOK /\ OnePerChannel /\ RateFits BY DEF LoadInv
<1>2. LoadTypeOK' BY <1>1, AdjustsTyped, FinishesTyped, LivesTyped
<1>3. KeysKept /\ (~overwritten' => ~overwritten /\ RatesKept) BY <1>1, QuietKept
<1>4. OnePerChannel' BY <1>1, <1>3, KeptOnePerChannel
<1>5. ASSUME ~overwritten' PROVE EntriesAnnounced' /\ SumsRight'
  <2>1. ~overwritten /\ RatesKept BY <1>3, <1>5
  <2>2. EntriesAnnounced /\ SumsRight BY <2>1 DEF LoadInv
  <2>3. \A g \in LoadFiles : load_pc'[g] # "gone" => load_pc[g] # "gone"
    BY <1>1 DEF LoadTypeOK, Adjusts, Finishes, Lives, LoadSeesNoRate, LoadStoreRate, LoadAdd,
                LoadAdds, LoadUnchanged, LoadSetup, LoadSetupFails, LoadEnds, SetVeFreq, LoadOpen,
                LoadReleaseInterrupted, LoadGone, LoadGo
  <2>4. EntriesAnnounced' BY <1>3, <2>1, <2>2, <2>3, KeptAnnounced
  <2>5. SumsRight'
    BY <1>3, <2>1, SeesNoRateSums, StoreRateSums, AddSums, QuietSums DEF Adjusts
  <2> QED BY <2>4, <2>5
<1>6. RateFits'
  <2>1. CASE overwritten' BY <2>1 DEF RateFits
  <2>2. CASE ~overwritten'
    <3>1. ~overwritten /\ RatesKept BY <1>3, <2>2
    <3>2. CASE LoadSetup(f)
      BY <1>3, <3>1, <3>2, SetupFits
    <3>3. CASE LoadSetupFails(f) \/ \E freq \in UserFreqs : SetVeFreq(f, freq)
      <4>1. settled' = FALSE BY <3>3 DEF LoadSetupFails, SetVeFreq
      <4> QED BY <4>1 DEF RateFits
    <3>4. CASE Adjusts(f) \/ LoadUnchanged(f) \/ LoadOpen(f) \/ LoadReleaseInterrupted(f)
      <4>1. /\ ve_rate' = ve_rate /\ user_setting_ve_freq' = user_setting_ve_freq
            /\ settled' = settled
        BY <3>4 DEF Adjusts, LoadSeesNoRate, LoadStoreRate, LoadAdd, LoadAdds, LoadUnchanged,
                    LoadEnds, LoadOpen, LoadReleaseInterrupted, LoadGone, FreqVars
      <4> QED BY ONLY <1>1, <1>3, <3>1, <4>1, KeptFits
    <3> QED BY <3>2, <3>3, <3>4 DEF Finishes, Lives
  <2> QED BY <2>1, <2>2
<1> QED BY <1>2, <1>4, <1>5, <1>6 DEF LoadInv

-----------------------------------------------------------------------------
(* The steps that announce, and the release.                                *)

\* A call that starts its summation leaves the rest to the table it has written.
LEMMA BeginsStep ==
  ASSUME LoadInv, NEW f \in LoadFiles, LoadBegins(f),
         LoadTypeOK', OnePerChannel', ~overwritten => EntriesAnnounced'
  PROVE  LoadInv'
<1>1. LoadTypeOK BY DEF LoadInv
<1>2. /\ load_pc[f] = "user" /\ load_i'[f] = 1 /\ load_sum'[f] = {} /\ undisturbed' = {f}
      /\ settled' = FALSE /\ load_fix' = load_fix /\ overwritten' = overwritten
  BY <1>1 DEF LoadBegins, LoadGo, LoadTypeOK
<1>3. f \notin load_fix' BY <1>1, <1>2 DEF LoadTypeOK
<1>4. SumsRight'
  <2>1. \A j \in Used' : ~(j < 1) BY VeLoadAssumption DEF Used, LoadEntries
  <2>2. SumBelow(load_i[f])' = {} BY <1>2, <2>1 DEF SumBelow
  <2> QED BY <1>2, <1>3, <2>2 DEF SumsRight
<1>5. RateFits' BY <1>2 DEF RateFits
<1> QED BY <1>2, <1>4, <1>5 DEF LoadInv

LEMMA ForgetIs ==
  ASSUME OnePerChannel, NEW f \in LoadFiles, NEW ch
  PROVE  /\ IsFiniteSet(Forget(f, ch))
         /\ Forget(f, ch) \subseteq announced[f]
         /\ \A x \in announced[f] : x \in Forget(f, ch) <=> x.channel # ch
<1>1. IsFiniteSet(announced[f]) BY DEF OnePerChannel
<1>2. Forget(f, ch) \subseteq announced[f] BY DEF Forget
<1> QED BY <1>1, <1>2, FS_Subset DEF Forget

LEMMA UpdateStep ==
  ASSUME LoadInv, NEW f \in LoadFiles, NEW ch \in LoadChannels,
         NEW m \in Decoders \cup Encoders, NEW p \in Pixels, NEW r \in Rates,
         LoadUpdate(f, ch, m, p, r)
  PROVE  LoadInv'
<1> DEFINE info == [file |-> f, channel |-> ch, format |-> m, pixels |-> p, rate |-> r]
           e == Min(EntryFor(f, ch))
<1>1. LoadTypeOK /\ OnePerChannel BY DEF LoadInv
<1>2. /\ LoadBegins(f) /\ EntryFor(f, ch) # {}
      /\ load_infos' = [load_infos EXCEPT ![e] = info]
      /\ announced' = [announced EXCEPT ![f] = Forget(f, ch) \cup {info}]
  BY DEF LoadUpdate
<1>3. info \in Announcements /\ info.file = f /\ info.channel = ch BY DEF Announcements
<1>4. info # NoLoad BY <1>3, VeLoadAssumption
<1>5. /\ e \in LoadEntries
      /\ e \in Used => load_infos[e].file = f /\ load_infos[e].channel = ch
      /\ \A i \in EntriesOf(f) \ {e} : load_infos[i].channel # ch
  BY <1>1, <1>2, EntryForIs
<1> HIDE DEF e, info
<1>6. LoadTypeOK' BY <1>1, UpdateTyped
<1>7. /\ Used' = Used \cup {e}
      /\ load_infos'[e] = info
      /\ \A i \in Used \ {e} : load_infos'[i] = load_infos[i]
  BY <1>1, <1>2, <1>4, <1>5 DEF LoadTypeOK, Used
<1>8. /\ announced'[f] = Forget(f, ch) \cup {info}
      /\ \A g \in LoadFiles \ {f} : announced'[g] = announced[g]
  BY <1>1, <1>2 DEF LoadTypeOK
<1>9. OnePerChannel'
  <2>1. \A i \in Used \ {e} : ~(load_infos[i].file = f /\ load_infos[i].channel = ch)
    BY <1>5 DEF EntriesOf
  <2>2. \A i, j \in Used' : /\ load_infos'[i].file = load_infos'[j].file
                            /\ load_infos'[i].channel = load_infos'[j].channel
                            => i = j
    BY <1>1, <1>3, <1>7, <2>1 DEF OnePerChannel
  <2>3. /\ IsFiniteSet(announced'[f])
        /\ \A x \in announced'[f] : x.file = f
        /\ \A x, y \in announced'[f] : x.channel = y.channel => x = y
    <3>1. IsFiniteSet(Forget(f, ch) \cup {info})
      BY <1>1, ForgetIs, FS_AddElement
    <3> QED BY <1>1, <1>3, <1>8, <3>1, ForgetIs DEF OnePerChannel
  <2>4. \A g \in LoadFiles \ {f} :
           /\ IsFiniteSet(announced'[g])
           /\ \A x \in announced'[g] : x.file = g
           /\ \A x, y \in announced'[g] : x.channel = y.channel => x = y
    BY <1>1, <1>8 DEF OnePerChannel
  <2> QED BY <2>2, <2>3, <2>4 DEF OnePerChannel
<1>10. ASSUME ~overwritten PROVE EntriesAnnounced'
  <2>1. EntriesAnnounced BY <1>10 DEF LoadInv
  <2>2. \A g \in LoadFiles : EntriesOf(g)' = IF g = f THEN EntriesOf(g) \cup {e} ELSE EntriesOf(g)
    BY <1>3, <1>5, <1>7 DEF EntriesOf
  <2>3. \A g : \A i \in EntriesOf(g) \ {e} : load_infos'[i] = load_infos[i]
    BY <1>7 DEF EntriesOf
  <2>4. \A g \in LoadFiles \ {f} : e \notin EntriesOf(g) BY <1>5 DEF EntriesOf
  <2>5. \A i \in EntriesOf(f) \cup {e} : \E x \in announced'[f] : WithRate(x) = WithRate(load_infos'[i])
    <3>1. ASSUME NEW i \in EntriesOf(f), i # e
          PROVE  \E x \in announced'[f] : WithRate(x) = WithRate(load_infos'[i])
      <4>1. PICK x \in announced[f] : WithRate(x) = WithRate(load_infos[i])
        BY <2>1 DEF EntriesAnnounced
      <4>2. load_infos[i] \in Announcements /\ x \in Announcements
        BY <1>1 DEF EntriesOf, Used, LoadTypeOK
      <4>3. x.channel = load_infos[i].channel
        BY <4>1, <4>2, WithRateIs
      <4>4. x.channel # ch BY <1>5, <3>1, <4>3
      <4>5. x \in announced'[f] BY <1>1, <1>8, <4>4, ForgetIs
      <4> QED BY <2>3, <3>1, <4>1, <4>5
    <3>2. info \in announced'[f] BY <1>8
    <3> QED BY <1>7, <3>1, <3>2
  <2>6. \A x \in announced'[f] : \E i \in EntriesOf(f) \cup {e} : WithRate(x) = WithRate(load_infos'[i])
    <3>1. ASSUME NEW x \in Forget(f, ch)
          PROVE  \E i \in EntriesOf(f) \cup {e} : WithRate(x) = WithRate(load_infos'[i])
      <4>1. x \in announced[f] /\ x.channel # ch BY <1>1, ForgetIs
      <4>2. load_pc[f] # "gone" BY <1>2 DEF LoadBegins, LoadGo
      <4>3. PICK i \in EntriesOf(f) : WithRate(x) = WithRate(load_infos[i])
        BY <2>1, <4>1, <4>2 DEF EntriesAnnounced
      <4>4. load_infos[i] \in Announcements /\ x \in Announcements
        BY <1>1, <4>1 DEF EntriesOf, Used, LoadTypeOK
      <4>5. x.channel = load_infos[i].channel
        BY <4>3, <4>4, WithRateIs
      <4>6. i # e BY <1>5, <4>1, <4>5 DEF EntriesOf
      <4> QED BY <2>3, <4>3, <4>6
    <3> QED BY <1>7, <1>8, <3>1
  <2>7. \A g \in LoadFiles : load_pc'[g] # "gone" => load_pc[g] # "gone"
    BY <1>1, <1>2 DEF LoadBegins, LoadGo, LoadTypeOK
  <2>8. ASSUME NEW g \in LoadFiles \ {f}
        PROVE  /\ \A i \in EntriesOf(g) : \E x \in announced'[g] : WithRate(x) = WithRate(load_infos'[i])
               /\ load_pc'[g] # "gone" =>
                    \A x \in announced'[g] : \E i \in EntriesOf(g) : WithRate(x) = WithRate(load_infos'[i])
    <3>1. \A i \in EntriesOf(g) : load_infos'[i] = load_infos[i] BY <2>3, <2>4
    <3> QED BY <1>8, <2>1, <2>7, <3>1 DEF EntriesAnnounced
  <2>9. ASSUME NEW g \in LoadFiles
        PROVE  /\ \A i \in EntriesOf(g)' : \E x \in announced'[g] : WithRate(x) = WithRate(load_infos'[i])
               /\ load_pc'[g] # "gone" =>
                    \A x \in announced'[g] : \E i \in EntriesOf(g)' : WithRate(x) = WithRate(load_infos'[i])
    <3>1. CASE g = f BY <2>2, <2>5, <2>6, <3>1
    <3>2. CASE g # f BY <2>2, <2>8, <3>2
    <3> QED BY <3>1, <3>2
  <2> QED BY <2>9 DEF EntriesAnnounced
<1> QED BY <1>2, <1>6, <1>9, <1>10, BeginsStep

LEMMA RemoveStep ==
  ASSUME LoadInv, NEW f \in LoadFiles, NEW ch \in LoadChannels, LoadRemove(f, ch)
  PROVE  LoadInv'
<1> DEFINE e == Min(EntryFor(f, ch))
<1>1. LoadTypeOK /\ OnePerChannel BY DEF LoadInv
<1>2. /\ LoadBegins(f) /\ EntryFor(f, ch) # {}
      /\ load_infos' = [load_infos EXCEPT ![e] = NoLoad]
      /\ announced' = [announced EXCEPT ![f] = Forget(f, ch)]
  BY DEF LoadRemove
<1>3. /\ e \in LoadEntries
      /\ e \in Used => load_infos[e].file = f /\ load_infos[e].channel = ch
      /\ \A i \in EntriesOf(f) \ {e} : load_infos[i].channel # ch
  BY <1>1, <1>2, EntryForIs
<1> HIDE DEF e
<1>4. LoadTypeOK' BY <1>1, RemoveTyped
<1>5. /\ Used' = Used \ {e}
      /\ \A i \in Used \ {e} : load_infos'[i] = load_infos[i]
  BY <1>1, <1>2, <1>3 DEF LoadTypeOK, Used
<1>6. /\ announced'[f] = Forget(f, ch)
      /\ \A g \in LoadFiles \ {f} : announced'[g] = announced[g]
  BY <1>1, <1>2 DEF LoadTypeOK
<1>7. OnePerChannel'
  <2>1. \A i, j \in Used' : /\ load_infos'[i].file = load_infos'[j].file
                            /\ load_infos'[i].channel = load_infos'[j].channel
                            => i = j
    BY <1>1, <1>5 DEF OnePerChannel
  <2>2. \A g \in LoadFiles : IsFiniteSet(announced'[g]) /\ announced'[g] \subseteq announced[g]
    BY <1>1, <1>6, ForgetIs DEF OnePerChannel
  <2> QED BY <1>1, <2>1, <2>2 DEF OnePerChannel
<1>8. ASSUME ~overwritten PROVE EntriesAnnounced'
  <2>1. EntriesAnnounced BY <1>8 DEF LoadInv
  <2>2. \A g \in LoadFiles : EntriesOf(g)' = EntriesOf(g) \ {e}
    BY <1>5 DEF EntriesOf
  <2>3. \A g : \A i \in EntriesOf(g) \ {e} : load_infos'[i] = load_infos[i]
    BY <1>5 DEF EntriesOf
  <2>4. \A g \in LoadFiles \ {f} : e \notin EntriesOf(g) BY <1>3 DEF EntriesOf
  <2>5. \A g \in LoadFiles : load_pc'[g] # "gone" => load_pc[g] # "gone"
    BY <1>1, <1>2 DEF LoadBegins, LoadGo, LoadTypeOK
  <2>6. \A i \in EntriesOf(f) \ {e} : \E x \in announced'[f] : WithRate(x) = WithRate(load_infos'[i])
    <3> TAKE i \in EntriesOf(f) \ {e}
    <3>1. PICK x \in announced[f] : WithRate(x) = WithRate(load_infos[i])
      BY <2>1 DEF EntriesAnnounced
    <3>2. load_infos[i] \in Announcements /\ x \in Announcements
      BY <1>1 DEF EntriesOf, Used, LoadTypeOK
    <3>3. x.channel = load_infos[i].channel
      BY <3>1, <3>2, WithRateIs
    <3>4. x \in announced'[f] BY <1>1, <1>3, <1>6, <3>3, ForgetIs
    <3> QED BY <2>3, <3>1, <3>4
  <2>7. \A x \in announced'[f] : \E i \in EntriesOf(f) \ {e} : WithRate(x) = WithRate(load_infos'[i])
    <3> TAKE x \in announced'[f]
    <3>1. x \in announced[f] /\ x.channel # ch BY <1>1, <1>6, ForgetIs
    <3>2. load_pc[f] # "gone" BY <1>2 DEF LoadBegins, LoadGo
    <3>3. PICK i \in EntriesOf(f) : WithRate(x) = WithRate(load_infos[i])
      BY <2>1, <3>1, <3>2 DEF EntriesAnnounced
    <3>4. load_infos[i] \in Announcements /\ x \in Announcements
      BY <1>1, <3>1 DEF EntriesOf, Used, LoadTypeOK
    <3>5. x.channel = load_infos[i].channel
      BY <3>3, <3>4, WithRateIs
    <3>6. i # e BY <1>3, <3>1, <3>5 DEF EntriesOf
    <3> QED BY <2>3, <3>3, <3>6
  <2>8. ASSUME NEW g \in LoadFiles
        PROVE  /\ \A i \in EntriesOf(g)' : \E x \in announced'[g] : WithRate(x) = WithRate(load_infos'[i])
               /\ load_pc'[g] # "gone" =>
                    \A x \in announced'[g] : \E i \in EntriesOf(g)' : WithRate(x) = WithRate(load_infos'[i])
    <3>1. CASE g = f BY <2>2, <2>6, <2>7, <3>1
    <3>2. CASE g # f
      <4>1. EntriesOf(g)' = EntriesOf(g) /\ \A i \in EntriesOf(g) : load_infos'[i] = load_infos[i]
        BY <2>2, <2>3, <2>4, <3>2
      <4> QED BY <1>6, <2>1, <2>5, <3>2, <4>1 DEF EntriesAnnounced
    <3> QED BY <3>1, <3>2
  <2> QED BY <2>8 DEF EntriesAnnounced
<1> QED BY <1>2, <1>4, <1>7, <1>8, BeginsStep

\* The table is full.
LEMMA FullStep ==
  ASSUME LoadInv, NEW f \in LoadFiles, NEW ch \in LoadChannels, LoadFull(f, ch)
  PROVE  LoadInv'
<1>1. LoadTypeOK /\ OnePerChannel BY DEF LoadInv
<1>2. LoadBegins(f) /\ load_infos' = load_infos /\ announced' = announced BY DEF LoadFull
<1>3. KeysKept /\ RatesKept BY <1>2, SameKept
<1>4. LoadTypeOK' BY <1>1, <1>2, BeginsTyped DEF LoadTypeOK
<1>5. \A g \in LoadFiles : load_pc'[g] # "gone" => load_pc[g] # "gone"
  BY <1>1, <1>2 DEF LoadBegins, LoadGo, LoadTypeOK
<1>6. ~overwritten => EntriesAnnounced'
  BY <1>3, <1>5, KeptAnnounced DEF LoadInv
<1> QED BY <1>1, <1>2, <1>3, <1>4, <1>6, KeptOnePerChannel, BeginsStep

LEMMA AtMostOne ==
  ASSUME NEW S, IsFiniteSet(S), Cardinality(S) <= 1
  PROVE  \A x, y \in S : x = y
<1>1. Cardinality(S) \in Nat BY FS_CardinalityType
<1>2. CASE Cardinality(S) = 0 BY <1>2, FS_EmptySet
<1>3. CASE Cardinality(S) = 1
  <2>1. \E z : S = {z} BY <1>3, FS_Singleton
  <2> QED BY <2>1
<1> QED BY <1>1, <1>2, <1>3

LEMMA ReleaseStep ==
  ASSUME LoadInv, NEW f \in LoadFiles, LoadRelease(f)
  PROVE  LoadInv'
<1> DEFINE e == Min(EntriesOf(f))
<1>1. LoadTypeOK /\ OnePerChannel BY DEF LoadInv
<1>2. /\ load_infos' = [i \in LoadEntries |->
            IF EntriesOf(f) # {} /\ i = e THEN NoLoad ELSE load_infos[i]]
      /\ announced' = IF Cardinality(announced[f]) <= 1
                      THEN [announced EXCEPT ![f] = {}] ELSE announced
      /\ undisturbed' = {} /\ settled' = FALSE /\ overwritten' = overwritten
      /\ load_pc' = [load_pc EXCEPT ![f] = "gone"]
  BY DEF LoadRelease, ReleaseAmong, LoadGone, LoadGo
<1>3. EntriesOf(f) # {} => e \in EntriesOf(f)
  <2>1. EntriesOf(f) \subseteq Nat BY VeLoadAssumption DEF EntriesOf, Used, LoadEntries
  <2> QED BY <2>1, FirstOfNat
<1> HIDE DEF e
<1>4. LoadTypeOK' BY <1>1, ReleaseTyped
<1>5. /\ Used' = Used \ (IF EntriesOf(f) # {} THEN {e} ELSE {})
      /\ \A i \in Used' : load_infos'[i] = load_infos[i]
  BY <1>1, <1>2, <1>3 DEF LoadTypeOK, Used
<1>6. \A g \in LoadFiles : /\ announced'[g] = announced[g] \/ (announced'[g] = {} /\ g = f)
                           /\ announced'[g] \subseteq announced[g]
  BY <1>1, <1>2 DEF LoadTypeOK
<1>7. OnePerChannel'
  <2>1. \A i, j \in Used' : /\ load_infos'[i].file = load_infos'[j].file
                            /\ load_infos'[i].channel = load_infos'[j].channel
                            => i = j
    BY <1>1, <1>5 DEF OnePerChannel
  <2>2. \A g \in LoadFiles : IsFiniteSet(announced'[g])
    BY <1>1, <1>6, FS_EmptySet DEF OnePerChannel
  <2> QED BY <1>1, <1>6, <2>1, <2>2 DEF OnePerChannel
<1>8. ASSUME ~overwritten PROVE EntriesAnnounced'
  <2>1. EntriesAnnounced BY <1>8 DEF LoadInv
  <2>2. \A g : \A i \in EntriesOf(g)' : i \in EntriesOf(g) /\ load_infos'[i] = load_infos[i]
    BY <1>5 DEF EntriesOf
  <2>3. ASSUME NEW g \in LoadFiles \ {f}
        PROVE  EntriesOf(g)' = EntriesOf(g)
    <3>1. EntriesOf(f) # {} => e \notin EntriesOf(g) BY <1>3 DEF EntriesOf
    <3> QED BY <1>5, <3>1 DEF EntriesOf
  <2>4. ASSUME announced'[f] # announced[f]
        PROVE  EntriesOf(f)' = {}
    <3>1. IsFiniteSet(announced[f]) /\ Cardinality(announced[f]) <= 1
      BY <1>1, <1>2, <2>4 DEF OnePerChannel
    <3>2. ASSUME NEW i \in EntriesOf(f), NEW j \in EntriesOf(f)
          PROVE  i = j
      <4>1. PICK x \in announced[f] : WithRate(x) = WithRate(load_infos[i])
        BY <2>1 DEF EntriesAnnounced
      <4>2. PICK y \in announced[f] : WithRate(y) = WithRate(load_infos[j])
        BY <2>1 DEF EntriesAnnounced
      <4>3. x = y BY <3>1, AtMostOne
      <4>4. load_infos[i] \in Announcements /\ load_infos[j] \in Announcements
        BY <1>1 DEF EntriesOf, Used, LoadTypeOK
      <4>5. /\ WithRate(load_infos[i]).channel = load_infos[i].channel
            /\ WithRate(load_infos[j]).channel = load_infos[j].channel
        BY <4>4, WithRateIs
      <4>6. load_infos[i].channel = load_infos[j].channel
        BY <4>1, <4>2, <4>3, <4>5
      <4> QED BY <1>1, <4>6 DEF OnePerChannel, EntriesOf
    <3>3. \A i \in EntriesOf(f)' : i \in EntriesOf(f) /\ i # e
      BY <1>5, <2>2 DEF EntriesOf
    <3>4. \A i \in EntriesOf(f)' : FALSE BY <1>3, <3>2, <3>3
    <3> QED BY <3>4
  <2>5. ASSUME NEW g \in LoadFiles
        PROVE  /\ \A i \in EntriesOf(g)' : \E x \in announced'[g] : WithRate(x) = WithRate(load_infos'[i])
               /\ load_pc'[g] # "gone" =>
                    \A x \in announced'[g] : \E i \in EntriesOf(g)' : WithRate(x) = WithRate(load_infos'[i])
    <3>1. CASE g = f
      <4>1. load_pc'[f] = "gone" BY <1>1, <1>2 DEF LoadTypeOK
      <4>2. CASE announced'[f] # announced[f]
        BY <2>4, <3>1, <4>1, <4>2
      <4>3. CASE announced'[f] = announced[f]
        BY <2>1, <2>2, <3>1, <4>1, <4>3 DEF EntriesAnnounced
      <4> QED BY <4>2, <4>3
    <3>2. CASE g # f
      <4>1. EntriesOf(g)' = EntriesOf(g) /\ \A i \in EntriesOf(g) : load_infos'[i] = load_infos[i]
        BY <2>2, <2>3, <3>2
      <4>2. announced'[g] = announced[g] BY <1>6, <3>2
      <4>3. load_pc'[g] = load_pc[g] BY <1>1, <1>2, <3>2 DEF LoadTypeOK
      <4> QED BY <2>1, <4>1, <4>2, <4>3 DEF EntriesAnnounced
    <3> QED BY <3>1, <3>2
  <2> QED BY <2>5 DEF EntriesAnnounced
<1>9. SumsRight' BY <1>2 DEF SumsRight
<1>10. RateFits' BY <1>2 DEF RateFits
<1> QED BY <1>2, <1>4, <1>7, <1>8, <1>9, <1>10 DEF LoadInv

-----------------------------------------------------------------------------
(* The results about VeLoad.                                                *)

\* Every step of load_infos, load_pc and the summations keeps the invariant.
LEMMA LoadInvStep == LoadInv /\ [LoadNext]_loadVars => LoadInv'
<1> SUFFICES ASSUME LoadInv, [LoadNext]_loadVars PROVE LoadInv'
  OBVIOUS
<1>1. CASE UNCHANGED loadVars
  <2>1. /\ load_infos' = load_infos /\ announced' = announced /\ overwritten' = overwritten
        /\ ve_rate' = ve_rate /\ user_setting_ve_freq' = user_setting_ve_freq
        /\ load_pc' = load_pc /\ load_i' = load_i /\ load_sum' = load_sum /\ load_fix' = load_fix
        /\ undisturbed' = undisturbed /\ settled' = settled
    BY <1>1 DEF loadVars
  <2>2. LoadTypeOK /\ OnePerChannel BY DEF LoadInv
  <2>3. KeysKept /\ RatesKept BY <2>1, SameKept
  <2>4. LoadTypeOK' BY <2>1, <2>2 DEF LoadTypeOK
  <2>5. OnePerChannel' BY <2>2, <2>3, KeptOnePerChannel
  <2>6. EntriesAnnounced => EntriesAnnounced' BY <2>1, <2>3, KeptAnnounced
  <2>7. SumsRight => SumsRight' BY <2>1 DEF SumsRight, SumBelow, Used, WithRate
  <2>8. RateFits' BY <2>1, <2>2, <2>3, KeptFits DEF LoadInv, RateFits
  <2> QED BY <2>1, <2>4, <2>5, <2>6, <2>7, <2>8 DEF LoadInv
<1>2. ASSUME NEW f \in LoadFiles, LoadFile(f)
      PROVE  LoadInv'
  <2>1. ASSUME NEW ch \in LoadChannels, NEW m \in Decoders \cup Encoders, NEW p \in Pixels,
               NEW r \in Rates, LoadUpdate(f, ch, m, p, r)
        PROVE  LoadInv'
    BY <2>1, UpdateStep
  <2>2. ASSUME NEW ch \in LoadChannels, LoadRemove(f, ch) \/ LoadFull(f, ch)
        PROVE  LoadInv'
    BY <2>2, RemoveStep, FullStep
  <2>3. CASE Adjusts(f) \/ Finishes(f) \/ Lives(f)
    BY <2>3, QuietStep
  <2>4. CASE LoadRelease(f)
    BY <2>4, ReleaseStep
  <2> QED BY <1>2, <2>1, <2>2, <2>3, <2>4 DEF LoadFile, Adjusts, Finishes, Lives
<1> QED BY <1>1, <1>2 DEF LoadNext

\* The inductive invariant of the case load of cedar_ve.c.
THEOREM LoadInvariance == LoadSpec => []LoadInv
<1>1. LoadInit => LoadInv BY LoadInvInit
<1>2. LoadInv /\ [LoadNext]_loadVars => LoadInv' BY LoadInvStep
<1> QED BY <1>1, <1>2, PTL DEF LoadSpec

\* Entries of a file have different channels, so what they amount to differs.
LEMMA EntriesDiffer ==
  ASSUME LoadTypeOK, OnePerChannel, NEW f \in LoadFiles
  PROVE  Cardinality({WithRate(load_infos[i]) : i \in EntriesOf(f)}) = Cardinality(EntriesOf(f))
<1> DEFINE S == EntriesOf(f)
           T == {WithRate(load_infos[i]) : i \in S}
           g == [i \in S |-> WithRate(load_infos[i])]
<1>1. IsFiniteSet(S)
  <2>1. IsFiniteSet(1 .. MaxLoads) BY VeLoadAssumption, FS_Interval
  <2>2. S \subseteq 1 .. MaxLoads BY DEF EntriesOf, Used, LoadEntries
  <2> QED BY <2>1, <2>2, FS_Subset
<1>2. ASSUME NEW i \in S, NEW j \in S, g[i] = g[j] PROVE i = j
  <2>1. load_infos[i] \in Announcements /\ load_infos[j] \in Announcements
    BY DEF EntriesOf, Used, LoadTypeOK
  <2>2. /\ WithRate(load_infos[i]).channel = load_infos[i].channel
        /\ WithRate(load_infos[j]).channel = load_infos[j].channel
    BY <2>1, WithRateIs
  <2>3. load_infos[i].channel = load_infos[j].channel BY <1>2, <2>2
  <2> QED BY <2>3 DEF OnePerChannel, EntriesOf
<1>3. g \in Bijection(S, T)
  <2>1. g \in [S -> T] /\ \A t \in T : \E s \in S : g[s] = t OBVIOUS
  <2>2. \A i, j \in S : g[i] = g[j] => i = j BY <1>2
  <2> HIDE DEF g, S, T
  <2> QED BY ONLY <2>1, <2>2, Fun_IsBij
<1>4. Cardinality(T) = Cardinality(S)
  BY <1>1, <1>3, FS_Bijection DEF ExistsBijection
<1> QED BY <1>4

\* The table of the case loads is what the clients have announced, for any
\* number of files and channels: update_case_load_param_sun55iw3 and the removal.
THEOREM LoadsAnnounced == LoadSpec => []LoadsAsAnnounced
<1>1. LoadInv => LoadsAsAnnounced
  <2> SUFFICES ASSUME LoadInv, ~overwritten, NEW f \in LoadFiles
               PROVE  LET mine == {WithRate(load_infos[i]) : i \in EntriesOf(f)}
                          told == {WithRate(x) : x \in announced[f]}
                      IN  /\ Cardinality(mine) = Cardinality(EntriesOf(f))
                          /\ mine \subseteq told
                          /\ load_pc[f] # "gone" => mine = told
    BY DEF LoadsAsAnnounced
  <2>1. LoadTypeOK /\ OnePerChannel /\ EntriesAnnounced BY DEF LoadInv
  <2> QED BY <2>1, EntriesDiffer DEF EntriesAnnounced
<1> QED BY <1>1, LoadInvariance, PTL

\* The frequency that adjust_ve_freq_by_case_load_sun55iw3 sets without the
\* spinlock is that of the loads in the table, whatever ran in between.
THEOREM FrequencyFits == LoadSpec => []RateFits
<1>1. LoadInv => RateFits BY DEF LoadInv
<1> QED BY <1>1, LoadInvariance, PTL
=============================================================================
