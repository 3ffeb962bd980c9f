----------------------------- MODULE VeProcInfo -----------------------------
(***************************************************************************)
(* The process information of cedar_ve.c.  A codec publishes a text about   *)
(* itself on a channel with two ioctls: SET_PROC_INFO announces its length  *)
(* and returns to user space with lock_proc held, COPY_PROC_INFO brings the *)
(* bytes and unlocks.  STOP_PROC_INFO withdraws the channel without the     *)
(* lock.  The debugfs file "ve" shows all channels, and the release of a    *)
(* client's file unlocks what the client left locked.                       *)
(*                                                                         *)
(* Clients are processes with a file of their own that call as the codec    *)
(* library does: COPY after a successful SET, STOP between texts.           *)
(***************************************************************************)
EXTENDS Integers

CONSTANTS
  Clients,      \* the processes that publish
  MaxChannel,   \* VE_DEBUGFS_MAX_CHANNEL
  ChannelOf,    \* the channel a client publishes on, MaxChannel for a bad one
  Texts,        \* the texts, as far as one can be told from another
  NoText,       \* what is in a buffer before the first text
  Reader,       \* the process that reads the debugfs file
  NoClient      \* the owner of lock_proc when it is free

ASSUME VeProcInfoAssumption ==
  /\ MaxChannel \in Nat
  /\ ChannelOf \in [Clients -> 0 .. MaxChannel]
  /\ NoText \notin Texts
  /\ Reader \notin Clients
  /\ NoClient \notin Clients \cup {Reader}

Channels == 0 .. MaxChannel - 1

VARIABLES
  lock_proc,      \* the owner of the mutex
  proc_flag,      \* the clients whose lock_flags has VE_LOCK_PROC_INFO
  cur_channel_id,
  proc_len,       \* proc_len[i]: the text whose length channel i announces
  proc_buf,       \* proc_buf[i]: whether the pointer of channel i is not NULL
  proc_data,      \* proc_data[i]: the text whose bytes are in the buffer of i
  proc_pc,        \* proc_pc[c]: where client c is, see ProcLocation
  proc_text,      \* proc_text[c]: the text c is publishing
  reader,         \* "closed", "wait" (for the mutex), "loop" or "open"
  reader_i,       \* the channel the reader's loop is at
  shown,          \* what the reader has collected
  torn            \* history: channels whose last SET was not followed by a whole COPY

procVars == <<lock_proc, proc_flag, cur_channel_id, proc_len, proc_buf,
              proc_data, proc_pc, proc_text, reader, reader_i, shown, torn>>

(***************************************************************************)
(* "set" waits for the mutex, "head" has it and is fetching the argument,   *)
(* "between" is in user space between a successful SET and its COPY, "copy" *)
(* has cleared the flag, "oops" has written to address 0 in the kernel and  *)
(* was killed on the spot.                                                  *)
(***************************************************************************)
ProcLocation == {"closed", "user", "set", "head", "between", "copy", "oops"}

ProcGo(c, from, to) == /\ proc_pc[c] = from
                       /\ proc_pc' = [proc_pc EXCEPT ![c] = to]

ProcInit ==
  /\ lock_proc = NoClient
  /\ proc_flag = {}
  /\ cur_channel_id = 0
  /\ proc_len = [i \in Channels |-> NoText]
  /\ proc_buf = [i \in Channels |-> FALSE]
  /\ proc_data = [i \in Channels |-> NoText]
  /\ proc_pc = [c \in Clients |-> "closed"]
  /\ proc_text = [c \in Clients |-> NoText]
  /\ reader = "closed"
  /\ reader_i = 0
  /\ shown = {}
  /\ torn = {}

ReaderVars == <<reader, reader_i, shown>>
BufferVars == <<cur_channel_id, proc_len, proc_buf, proc_data, torn>>

-----------------------------------------------------------------------------
(* Clients.                                                                 *)

ProcOpen(c) ==
  /\ ProcGo(c, "closed", "user")
  /\ UNCHANGED <<lock_proc, proc_flag, BufferVars, proc_text, ReaderVars>>

ProcSet(c, x) ==
  /\ ProcGo(c, "user", "set")
  /\ proc_text' = [proc_text EXCEPT ![c] = x]
  /\ UNCHANGED <<lock_proc, proc_flag, BufferVars, ReaderVars>>

\* Faulty variant: no mutual exclusion.
ProcLockAnyway(c) ==
  /\ ProcGo(c, "set", "head")
  /\ lock_proc' = c
  /\ UNCHANGED <<proc_flag, BufferVars, proc_text, ReaderVars>>

ProcLock(c) ==
  /\ ProcGo(c, "set", "head")
  /\ lock_proc = NoClient
  /\ lock_proc' = c
  /\ UNCHANGED <<proc_flag, BufferVars, proc_text, ReaderVars>>

\* Faulty variant: an error return that keeps the mutex.
ProcSetFailsLocked(c) ==
  /\ ProcGo(c, "head", "user")
  /\ proc_text' = [proc_text EXCEPT ![c] = NoText]
  /\ UNCHANGED <<lock_proc, proc_flag, BufferVars, ReaderVars>>

\* The argument cannot be read, which may always happen, or names no channel.
ProcSetFails(c) ==
  /\ ProcGo(c, "head", "user")
  /\ lock_proc' = NoClient
  /\ proc_text' = [proc_text EXCEPT ![c] = NoText]
  /\ UNCHANGED <<proc_flag, BufferVars, ReaderVars>>

\* Returns 0 with lock_proc held.
ProcSetDone(c) ==
  LET i == ChannelOf[c] IN
  /\ i \in Channels
  /\ ProcGo(c, "head", "between")
  /\ proc_flag' = proc_flag \cup {c}
  /\ cur_channel_id' = i
  /\ proc_len' = [proc_len EXCEPT ![i] = proc_text[c]]
  /\ proc_buf' = [proc_buf EXCEPT ![i] = TRUE]
  /\ UNCHANGED <<lock_proc, proc_data, proc_text, ReaderVars, torn>>

ProcCopy(c) ==
  /\ ProcGo(c, "between", "copy")
  /\ proc_flag' = proc_flag \ {c}
  /\ UNCHANGED <<lock_proc, BufferVars, proc_text, ReaderVars>>

ProcCopyEnds(c) == /\ ProcGo(c, "copy", "user")
                   /\ proc_buf[cur_channel_id]
                   /\ lock_proc' = NoClient
                   /\ proc_text' = [proc_text EXCEPT ![c] = NoText]
                   /\ UNCHANGED <<proc_flag, cur_channel_id, proc_len, proc_buf,
                                  ReaderVars>>

ProcCopyDone(c) ==
  /\ ProcCopyEnds(c)
  /\ proc_data' = [proc_data EXCEPT ![cur_channel_id] = proc_text[c]]
  /\ torn' = torn \ {cur_channel_id}

\* copy_from_user stops half-way.
ProcCopyFails(c) ==
  /\ ProcCopyEnds(c)
  /\ proc_data' = [proc_data EXCEPT ![cur_channel_id] = NoText]
  /\ torn' = torn \cup {cur_channel_id}

\* The buffer pointer is NULL.  The process dies in the kernel: its file is
\* released, but the flag is gone already, so nobody unlocks lock_proc.
ProcCopyNull(c) ==
  /\ ProcGo(c, "copy", "oops")
  /\ ~proc_buf[cur_channel_id]
  /\ UNCHANGED <<lock_proc, proc_flag, BufferVars, proc_text, ReaderVars>>

\* proc_buf[arg] = NULL, with no lock and whoever uses the channel.
ProcStop(c) ==
  LET i == ChannelOf[c] IN
  /\ i \in Channels
  /\ proc_pc[c] = "user"
  /\ proc_buf' = [proc_buf EXCEPT ![i] = FALSE]
  /\ UNCHANGED <<lock_proc, proc_flag, cur_channel_id, proc_len, proc_data,
                 proc_pc, proc_text, ReaderVars, torn>>

\* cedardev_release unlocks lock_proc for a file whose flag is set.
ProcRelease(c) == IF c \in proc_flag THEN lock_proc' = NoClient
                                     ELSE UNCHANGED lock_proc

\* The client exits or is killed: between calls, as nothing in them can be interrupted.
ProcDie(c) ==
  /\ proc_pc[c] \in {"user", "between"}
  /\ ProcRelease(c)
  /\ torn' = IF proc_pc[c] = "between" THEN torn \cup {ChannelOf[c]} ELSE torn
  /\ proc_flag' = proc_flag \ {c}
  /\ proc_pc' = [proc_pc EXCEPT ![c] = "closed"]
  /\ proc_text' = [proc_text EXCEPT ![c] = NoText]
  /\ UNCHANGED <<cur_channel_id, proc_len, proc_buf, proc_data, ReaderVars>>

-----------------------------------------------------------------------------
(* The reader of the debugfs file.                                          *)

\* ve_debugfs_open with its allocation done (a failure returns before any step).
ReaderOpen == /\ reader = "closed"
              /\ reader' = "wait"
              /\ UNCHANGED <<lock_proc, proc_flag, BufferVars, proc_pc,
                             proc_text, reader_i, shown>>

\* Faulty variant: collects without lock_proc.
ReaderNoLock == /\ reader = "wait"
                /\ reader' = "loop"
                /\ reader_i' = 0
                /\ shown' = {}
                /\ UNCHANGED <<lock_proc, proc_flag, BufferVars, proc_pc, proc_text>>

ReaderLock == /\ reader = "wait"
              /\ lock_proc = NoClient
              /\ lock_proc' = Reader
              /\ reader' = "loop"
              /\ reader_i' = 0
              /\ shown' = {}
              /\ UNCHANGED <<proc_flag, BufferVars, proc_pc, proc_text>>

\* One turn of the loop; the pointer is loaded once.
ReaderCollect ==
  /\ reader = "loop"
  /\ reader_i \in Channels
  /\ reader_i' = reader_i + 1
  /\ shown' = IF proc_buf[reader_i]
              THEN shown \cup {[channel |-> reader_i, len |-> proc_len[reader_i],
                                data |-> proc_data[reader_i]]}
              ELSE shown
  /\ UNCHANGED <<lock_proc, proc_flag, BufferVars, proc_pc, proc_text, reader>>

ReaderUnlock == /\ reader = "loop"
                /\ reader_i = MaxChannel
                /\ lock_proc' = NoClient
                /\ reader' = "open"
                /\ UNCHANGED <<proc_flag, BufferVars, proc_pc, proc_text,
                               reader_i, shown>>

\* ve_debugfs_read answers from pVeProc; ve_debugfs_release frees it.
ReaderClose == /\ reader = "open"
               /\ reader' = "closed"
               /\ reader_i' = 0
               /\ shown' = {}
               /\ UNCHANGED <<lock_proc, proc_flag, BufferVars, proc_pc, proc_text>>

-----------------------------------------------------------------------------
ProcCall(c) == \/ ProcSetFails(c) \/ ProcSetDone(c)
               \/ ProcCopyDone(c) \/ ProcCopyFails(c) \/ ProcCopyNull(c)

ProcLeavesBetween(c) == ProcCopy(c) \/ (proc_pc[c] = "between" /\ ProcDie(c))

ProcClient(c) == \/ ProcOpen(c) \/ \E x \in Texts : ProcSet(c, x)
                 \/ ProcLock(c) \/ ProcCall(c) \/ ProcCopy(c)
                 \/ ProcStop(c) \/ ProcDie(c)

ProcReader == \/ ReaderOpen \/ ReaderLock \/ ReaderCollect \/ ReaderUnlock
              \/ ReaderClose

ProcNext == (\E c \in Clients : ProcClient(c)) \/ ProcReader

ProcSpec == ProcInit /\ [][ProcNext]_procVars

(***************************************************************************)
(* A call that has what it waits for goes on.  The kernel's mutex is handed *)
(* over in turn, so a waiter gets it if it is free again and again.  A      *)
(* client between SET and COPY calls COPY or dies in the end: the one       *)
(* promise the driver needs from user space.                                *)
(***************************************************************************)
ProcFairness ==
  /\ \A c \in Clients : /\ WF_procVars(ProcCall(c))
                        /\ WF_procVars(ProcLeavesBetween(c))
                        /\ SF_procVars(ProcLock(c))
  /\ SF_procVars(ReaderLock)
  /\ WF_procVars(ReaderCollect \/ ReaderUnlock)

-----------------------------------------------------------------------------
(* Properties.                                                              *)

ProcTypeOK ==
  /\ lock_proc \in Clients \cup {Reader, NoClient}
  /\ proc_flag \subseteq Clients
  /\ cur_channel_id \in Nat
  /\ proc_len \in [Channels -> Texts \cup {NoText}]
  /\ proc_buf \in [Channels -> BOOLEAN]
  /\ proc_data \in [Channels -> Texts \cup {NoText}]
  /\ proc_pc \in [Clients -> ProcLocation]
  /\ proc_text \in [Clients -> Texts \cup {NoText}]
  /\ reader \in {"closed", "wait", "loop", "open"}
  /\ reader_i \in 0 .. MaxChannel
  /\ shown \subseteq [channel : Channels, len : Texts \cup {NoText},
                      data : Texts \cup {NoText}]
  /\ torn \subseteq Channels

\* The clients that are inside the section that begins with SET's mutex_lock
\* and ends with COPY's mutex_unlock, those killed in it included.
Writing == {c \in Clients : proc_pc[c] \in {"head", "between", "copy", "oops"}}

\* The section spans two ioctls, and the second does not check who calls it:
\* it takes the channel from cur_channel_id and unlocks.  Still at most one
\* client is in it, it owns lock_proc, and cur_channel_id is its channel
\* until its text is copied.
OneWriter ==
  \A c \in Writing :
     /\ lock_proc = c
     /\ Writing = {c}
     /\ proc_pc[c] # "head" => cur_channel_id = ChannelOf[c]

\* lock_proc always has an owner that will give it back: a client in the
\* section, whose flag makes its death unlock too, or the reader in its loop.
\* Only a client killed in the kernel keeps it.
LockHasOwner ==
  /\ lock_proc \in Clients => lock_proc \in Writing
  /\ lock_proc = Reader <=> reader = "loop"
  /\ proc_flag = {c \in Clients : proc_pc[c] = "between"}

\* Outside the section each channel that is shown has the bytes of the text
\* whose length it announces, unless its last publication broke off.
ChannelsWhole ==
  \A i \in Channels : proc_buf[i] /\ proc_len[i] # proc_data[i] =>
     i \in torn \/ \E c \in Writing : ChannelOf[c] = i

\* A text that is collected by the reader of the debugfs file is whole: the
\* announced length is the one of the bytes, unless a client died between SET
\* and COPY, or its COPY failed, and nothing was published since.
ReaderSeesWhole ==
  [][\A e \in shown' \ shown : e.len = e.data \/ e.channel \in torn]_procVars

\* STOP takes no lock.  It can make a COPY write to NULL, and lose lock_proc
\* for good, only when the channel is shared with another client.
OnlySharersFault ==
  \A c \in Clients : proc_pc[c] = "oops" =>
     \E d \in Clients \ {c} : ChannelOf[d] = ChannelOf[c]

\* Whoever waits for lock_proc, the reader or a client, gets it although the
\* mutex is held in user space: the section ends by COPY or by death, unless
\* its client was killed in the kernel.
ProcWaitEnds ==
  LET Lost == \E c \in Clients : proc_pc[c] = "oops" IN
  /\ reader = "wait" ~> reader # "wait" \/ Lost
  /\ \A c \in Clients : proc_pc[c] = "set" ~> proc_pc[c] # "set" \/ Lost
=============================================================================
