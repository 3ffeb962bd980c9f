------------------------------- MODULE VeLock -------------------------------
(***************************************************************************)
(* IOCTL_GET_LOCK and IOCTL_RELEASE_LOCK of cedar_ve.c: the mutexes that   *)
(* user space takes on parts of the video engine, the per-file record      *)
(* lock_flags of what a file holds, and cedardev_release, which gives back *)
(* what a dead client left locked.                                         *)
(*                                                                         *)
(* Several threads may share one open file, and their calls interleave     *)
(* between the steps below: each step is one mutex operation or one        *)
(* section under lock_flag_io.  A lock type is a set of bits, so that      *)
(*   flags & type, flags |= type, flags &= ~type                           *)
(* are intersection, union and difference.  A type of exactly one bit of   *)
(* Locks is valid; all others take the "invalid lock type" branch.         *)
(***************************************************************************)
EXTENDS Naturals

CONSTANTS
  Threads,    \* the client threads, of any number of processes
  Files,      \* the open files (one struct ve_info each)
  FileOf,     \* the file a thread makes its calls on
  Locks,      \* VE_LOCK_VDEC, VE_LOCK_VENC, VE_LOCK_JDEC, ..._00_REG, ..._04_REG
  LockTypes,  \* the lock types the clients pass
  Rank,       \* the order in which clients nest the locks
  Polite,     \* TRUE: a client only releases what it was granted
  NoThread    \* the owner of a free mutex

ASSUME VeLockAssumption == /\ FileOf \in [Threads -> Files]
                           /\ LockTypes \subseteq SUBSET Locks
                           /\ Rank \in [Locks -> Nat]
                           /\ Polite \in BOOLEAN
                           /\ NoThread \notin Threads

VARIABLES
  mutex,       \* mutex[l]: the thread that owns the kernel mutex of l
  lock_flags,  \* lock_flags[f]: info->lock_flags of file f
  filp,        \* filp[f]: "closed", "open", or "killed" (its process aborts)
  pc,          \* pc[t]: where thread t is, see Location
  lock_type,   \* lock_type[t]: the argument of t's call
  holds        \* holds[t]: what t was told it holds (the client's view)

vars == <<mutex, lock_flags, filp, pc, lock_type, holds>>

Valid(ty) == \E l \in Locks : ty = {l}

ThreadsOf(f) == {t \in Threads : FileOf[t] = f}

(***************************************************************************)
(* A thread without the file is at "none"; between calls it is at "user";  *)
(* "get" waits in mutex_lock and "getflag" is about to set the flag;       *)
(* "relflag" has passed the check of RELEASE_LOCK and "relunlock" has      *)
(* cleared the flag.  "gone" is a thread that died or closed its           *)
(* descriptor while the file still has other users or is being released.   *)
(***************************************************************************)
Location == {"none", "user", "get", "getflag", "relflag", "relunlock", "gone"}

Attached(t) == pc[t] \notin {"none", "gone"}

Go(t, from, to) == /\ pc[t] = from
                   /\ pc' = [pc EXCEPT ![t] = to]

Init == /\ mutex = [l \in Locks |-> NoThread]
        /\ lock_flags = [f \in Files |-> {}]
        /\ filp = [f \in Files |-> "closed"]
        /\ pc = [t \in Threads |-> "none"]
        /\ lock_type = [t \in Threads |-> {}]
        /\ holds = [t \in Threads |-> {}]

-----------------------------------------------------------------------------
(* Opening, sharing and losing the file.                                   *)

\* cedardev_open: a fresh struct ve_info with no flag set.
Open(t) == /\ filp[FileOf[t]] = "closed"
           /\ Go(t, "none", "user")
           /\ filp' = [filp EXCEPT ![FileOf[t]] = "open"]
           /\ lock_flags' = [lock_flags EXCEPT ![FileOf[t]] = {}]
           /\ UNCHANGED <<mutex, lock_type, holds>>

\* A new thread, or a forked process, gets the file of an existing user.
Share(t) == /\ filp[FileOf[t]] = "open"
            /\ \E u \in ThreadsOf(FileOf[t]) : pc[u] = "user"
            /\ Go(t, "none", "user")
            /\ UNCHANGED <<mutex, lock_flags, filp, lock_type, holds>>

\* t dies or closes its descriptor: only between calls, since a call keeps a
\* reference to the file and mutex_lock cannot be interrupted.
Exit(t) == /\ Go(t, "user", "gone")
           /\ holds' = [holds EXCEPT ![t] = {}]
           /\ UNCHANGED <<mutex, lock_flags, filp, lock_type>>

\* The process that uses f is aborted: its threads can start no other call.
Kill(f) == /\ filp[f] = "open"
           /\ \E t \in ThreadsOf(f) : Attached(t)
           /\ filp' = [filp EXCEPT ![f] = "killed"]
           /\ UNCHANGED <<mutex, lock_flags, pc, lock_type, holds>>

-----------------------------------------------------------------------------
(* IOCTL_GET_LOCK.                                                         *)

\* Clients nest locks in one order and never ask for one they have.
AsksInOrder(t, ty) ==
  /\ ty \cap holds[t] = {}
  /\ \A l \in ty, h \in holds[t] : Rank[h] < Rank[l]

GetLock(t, ty) == /\ filp[FileOf[t]] = "open"
                  /\ AsksInOrder(t, ty)
                  /\ Go(t, "user", "get")
                  /\ lock_type' = [lock_type EXCEPT ![t] = ty]
                  /\ UNCHANGED <<mutex, lock_flags, filp, holds>>

\* Faulty variant: the result of the mutex is ignored.
MutexLockNoWait(t) ==
  /\ Go(t, "get", "getflag")
  /\ mutex' = [l \in Locks |-> IF l \in lock_type[t] THEN t ELSE mutex[l]]
  /\ UNCHANGED <<lock_flags, filp, lock_type, holds>>

MutexLock(t) ==
  /\ Go(t, "get", "getflag")
  /\ IF Valid(lock_type[t])
     THEN \E l \in lock_type[t] : /\ mutex[l] = NoThread
                                  /\ mutex' = [mutex EXCEPT ![l] = t]
     ELSE UNCHANGED mutex
  /\ UNCHANGED <<lock_flags, filp, lock_type, holds>>

\* Faulty variant: "=" for "|=" forgets an outer lock.
SetFlagOnly(t) ==
  /\ Go(t, "getflag", "user")
  /\ lock_flags' = [lock_flags EXCEPT ![FileOf[t]] = lock_type[t]]
  /\ holds' = [holds EXCEPT ![t] = @ \cup lock_type[t]]
  /\ UNCHANGED <<mutex, filp, lock_type>>

\* The call returns 0 whatever the type was, so the client counts it as held.
SetFlag(t) ==
  /\ Go(t, "getflag", "user")
  /\ lock_flags' = [lock_flags EXCEPT ![FileOf[t]] = @ \cup lock_type[t]]
  /\ holds' = [holds EXCEPT ![t] = @ \cup lock_type[t]]
  /\ UNCHANGED <<mutex, filp, lock_type>>

-----------------------------------------------------------------------------
(* IOCTL_RELEASE_LOCK.  The check reads lock_flags without lock_flag_io.   *)

MayRelease(t, ty) == Polite => ty # {} /\ ty \subseteq holds[t]

\* Faulty variant: without the "Not lock?" check.
CheckNothing(t, ty) ==
  /\ filp[FileOf[t]] = "open"
  /\ MayRelease(t, ty)
  /\ Go(t, "user", "relflag")
  /\ lock_type' = [lock_type EXCEPT ![t] = ty]
  /\ holds' = [holds EXCEPT ![t] = @ \ ty]
  /\ UNCHANGED <<mutex, lock_flags, filp>>

CheckFlag(t, ty) ==
  /\ filp[FileOf[t]] = "open"
  /\ MayRelease(t, ty)
  /\ lock_flags[FileOf[t]] \cap ty # {}
  /\ Go(t, "user", "relflag")
  /\ lock_type' = [lock_type EXCEPT ![t] = ty]
  /\ holds' = [holds EXCEPT ![t] = @ \ ty]
  /\ UNCHANGED <<mutex, lock_flags, filp>>

\* "Not lock?": the call returns -1 and changes nothing.
RefuseRelease(t, ty) ==
  /\ filp[FileOf[t]] = "open"
  /\ MayRelease(t, ty)
  /\ lock_flags[FileOf[t]] \cap ty = {}
  /\ pc[t] = "user"
  /\ holds' = [holds EXCEPT ![t] = @ \ ty]
  /\ UNCHANGED <<mutex, lock_flags, filp, pc, lock_type>>

\* Faulty variant: all flags go.
ClearAllFlags(t) ==
  /\ Go(t, "relflag", "relunlock")
  /\ lock_flags' = [lock_flags EXCEPT ![FileOf[t]] = {}]
  /\ UNCHANGED <<mutex, filp, lock_type, holds>>

ClearFlag(t) ==
  /\ Go(t, "relflag", "relunlock")
  /\ lock_flags' = [lock_flags EXCEPT ![FileOf[t]] = @ \ lock_type[t]]
  /\ UNCHANGED <<mutex, filp, lock_type, holds>>

\* mutex_unlock frees the mutex whoever owns it.
MutexUnlock(t) ==
  /\ Go(t, "relunlock", "user")
  /\ mutex' = [l \in Locks |-> IF Valid(lock_type[t]) /\ l \in lock_type[t]
                               THEN NoThread ELSE mutex[l]]
  /\ UNCHANGED <<lock_flags, filp, lock_type, holds>>

-----------------------------------------------------------------------------
(* cedardev_release, run when the last reference to the file is dropped.   *)

Unreferenced(f) == /\ filp[f] # "closed"
                   /\ \A t \in ThreadsOf(f) : ~Attached(t)

\* Faulty variant: the mutexes are unlocked but the flags stay.
ReleaseKeepsFlags(f) ==
  /\ Unreferenced(f)
  /\ \E l \in lock_flags[f] : mutex' = [mutex EXCEPT ![l] = NoThread]
  /\ UNCHANGED <<lock_flags, filp, pc, lock_type, holds>>

\* "release lost-lock...": one mutex_unlock for each flag that is still set.
\* Nobody else can see the flags of f any more, so taking them away one by
\* one stands for the final lock_flags = 0.
ReleaseLostLock(f) ==
  /\ Unreferenced(f)
  /\ \E l \in lock_flags[f] :
       /\ mutex' = [mutex EXCEPT ![l] = NoThread]
       /\ lock_flags' = [lock_flags EXCEPT ![f] = @ \ {l}]
  /\ UNCHANGED <<filp, pc, lock_type, holds>>

\* Faulty variant: the file is freed without looking at its flags.
ReleaseAnyway(f) ==
  /\ Unreferenced(f)
  /\ filp' = [filp EXCEPT ![f] = "closed"]
  /\ pc' = [t \in Threads |-> IF FileOf[t] = f THEN "none" ELSE pc[t]]
  /\ UNCHANGED <<mutex, lock_flags, lock_type, holds>>

ReleaseDone(f) ==
  /\ Unreferenced(f)
  /\ lock_flags[f] = {}
  /\ filp' = [filp EXCEPT ![f] = "closed"]
  /\ pc' = [t \in Threads |-> IF FileOf[t] = f THEN "none" ELSE pc[t]]
  /\ UNCHANGED <<mutex, lock_flags, lock_type, holds>>

-----------------------------------------------------------------------------
Client(t) == \/ Open(t) \/ Share(t) \/ Exit(t)
             \/ \E ty \in LockTypes : \/ GetLock(t, ty)
                                      \/ CheckFlag(t, ty)
                                      \/ RefuseRelease(t, ty)

Kernel(t) == MutexLock(t) \/ SetFlag(t) \/ ClearFlag(t) \/ MutexUnlock(t)

CedardevRelease(f) == ReleaseLostLock(f) \/ ReleaseDone(f)

Next == \/ \E t \in Threads : Client(t) \/ Kernel(t)
        \/ \E f \in Files : Kill(f) \/ CedardevRelease(f)

Spec == Init /\ [][Next]_vars

(***************************************************************************)
(* The kernel keeps running its own code; a mutex is handed to a waiter    *)
(* that keeps asking (strong fairness); an aborted thread reaches do_exit; *)
(* and no client keeps a lock for ever.                                    *)
(***************************************************************************)
KernelFairness ==
  /\ \A t \in Threads : /\ WF_vars(SetFlag(t) \/ ClearFlag(t) \/ MutexUnlock(t))
                        /\ SF_vars(MutexLock(t))
                        /\ WF_vars(filp[FileOf[t]] = "killed" /\ Exit(t))
  /\ \A f \in Files : WF_vars(CedardevRelease(f))

ClientFairness ==
  \A t \in Threads, ty \in LockTypes : SF_vars(ty \subseteq holds[t] /\ CheckFlag(t, ty))

FairSpec == Spec /\ KernelFairness /\ ClientFairness

-----------------------------------------------------------------------------
(* Properties.                                                             *)

\* Every variable stays in its range.
TypeOK == /\ mutex \in [Locks -> Threads \cup {NoThread}]
          /\ lock_flags \in [Files -> SUBSET Locks]
          /\ filp \in [Files -> {"closed", "open", "killed"}]
          /\ pc \in [Threads -> Location]
          /\ lock_type \in [Threads -> SUBSET Locks]
          /\ holds \in [Threads -> SUBSET Locks]

\* What the lock ioctls are for: two threads are never both told that they
\* hold the same part of the engine, whether they share a file or not and
\* whatever files were aborted before.
MutualExclusion ==
  \A t, u \in Threads : t # u => holds[t] \cap holds[u] = {}

\* A mutex that is taken can always be found again by cedardev_release: its
\* owner is inside an ioctl that will set the flag or unlock it, or the flag
\* is set in the file the owner used.
LockAccounted ==
  \A l \in Locks : mutex[l] # NoThread =>
    LET t == mutex[l]
    IN  \/ l \in lock_flags[FileOf[t]]
        \/ pc[t] \in {"getflag", "relunlock"} /\ lock_type[t] = {l}

\* cedardev_release and RELEASE_LOCK unlock what lock_flags says, so a flag
\* must never be set for a mutex that is free or owned through another file.
FlagOwned ==
  \A f \in Files : \A l \in lock_flags[f] : mutex[l] \in ThreadsOf(f)

\* When a file is closed, whatever its threads did before they died, none of
\* them owns a mutex any more.
ClosedHoldsNothing ==
  \A l \in Locks : mutex[l] # NoThread => filp[FileOf[mutex[l]]] # "closed"

\* What a thread was told it holds, it does own, and the file remembers it.
HoldsOwned ==
  \A t \in Threads : \A l \in holds[t] :
    mutex[l] = t /\ l \in lock_flags[FileOf[t]] /\ Attached(t)

\* Inside a call the mutex and the flag change one after the other: the flag
\* is set last when locking, and cleared first when unlocking.
CallOrder ==
  \A t \in Threads :
    /\ pc[t] \in {"get", "getflag", "relflag", "relunlock"} => Valid(lock_type[t])
    /\ \A l \in lock_type[t] :
         /\ pc[t] \in {"get", "getflag", "relflag", "relunlock"} => l \notin holds[t]
         /\ pc[t] = "relflag" => mutex[l] = t /\ l \in lock_flags[FileOf[t]]
         /\ pc[t] \in {"getflag", "relunlock"} =>
              mutex[l] = t /\ l \notin lock_flags[FileOf[t]]

\* Threads of a closed file, and threads that never had the file, own nothing.
FileLife ==
  /\ \A t \in Threads : filp[FileOf[t]] = "closed" => pc[t] = "none"
  /\ \A l \in Locks : mutex[l] # NoThread => pc[mutex[l]] # "none"

\* The inductive invariant of clients that use the locks as intended, or that
\* have a file for each thread (SoundUse in VeLockProofs).
Inv == /\ TypeOK /\ LockAccounted /\ FlagOwned
       /\ HoldsOwned /\ CallOrder /\ FileLife

\* The intended use: one valid lock per call, and only the grantee releases.
PoliteUse == Polite /\ \A ty \in LockTypes : Valid(ty)

\* A client that gives back what it was granted never gets "Not lock?".
ReleaseNeverRefused ==
  [][\A t \in Threads, ty \in LockTypes : ~RefuseRelease(t, ty)]_vars

\* "Not lock?" rejects a release of a lock that the file does not hold: a
\* release that passes the check unlocks a mutex owned through that file.
ReleaseUnlocksOwn ==
  [][\A t \in Threads : MutexUnlock(t) =>
       \A l \in lock_type[t] : mutex[l] \in ThreadsOf(FileOf[t])]_vars

\* "release lost-lock...": the file of an aborted process is always released
\* in the end, and by then it owns no lock (NothingLost in VeLockProofs).
LostLocksReturn ==
  \A f \in Files : filp[f] = "killed" ~> filp[f] = "closed"

\* The ioctls implement the abstract lock service: a mutex changes hands only
\* by a grant, by its holder's release, or after its holder has gone.
Service == INSTANCE VeLockService
             WITH holder <- mutex, clients <- {t \in Threads : Attached(t)}

ImplementsService == Service!Spec
=============================================================================
