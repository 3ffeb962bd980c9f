---------------------------- MODULE VeLockProofs ----------------------------
(***************************************************************************)
(* Theorems about VeLock, for any number of threads, files and locks.      *)
(***************************************************************************)
EXTENDS VeLock, TLAPS

\* Every variable keeps its type, for clients of any manners (IOCTL_GET_LOCK,
\* IOCTL_RELEASE_LOCK, cedardev_open and cedardev_release).
THEOREM TypeCorrect == Spec => []TypeOK
<1>1. Init => TypeOK
  BY DEF Init, TypeOK, Location
<1>2. TypeOK /\ [Next]_vars => TypeOK'
  <2> SUFFICES ASSUME TypeOK, [Next]_vars PROVE TypeOK'
    OBVIOUS
  <2> USE VeLockAssumption DEF TypeOK, Location, Go
  <2>1. ASSUME NEW t \in Threads, Client(t) PROVE TypeOK'
    <3>1. CASE Open(t) \/ Share(t) \/ Exit(t)
      BY <3>1 DEF Open, Share, Exit
    <3>2. ASSUME NEW ty \in LockTypes, GetLock(t, ty) PROVE TypeOK'
      BY <3>2 DEF GetLock
    <3>3. ASSUME NEW ty \in LockTypes, CheckFlag(t, ty) PROVE TypeOK'
      BY <3>3 DEF CheckFlag
    <3>4. ASSUME NEW ty \in LockTypes, RefuseRelease(t, ty) PROVE TypeOK'
      BY <3>4 DEF RefuseRelease
    <3> QED BY <2>1, <3>1, <3>2, <3>3, <3>4 DEF Client
  <2>2. ASSUME NEW t \in Threads, Kernel(t) PROVE TypeOK'
    <3>1. CASE MutexLock(t)
      BY <3>1 DEF MutexLock
    <3>2. CASE SetFlag(t)
      BY <3>2 DEF SetFlag
    <3>3. CASE ClearFlag(t)
      BY <3>3 DEF ClearFlag
    <3>4. CASE MutexUnlock(t)
      BY <3>4 DEF MutexUnlock
    <3> QED BY <2>2, <3>1, <3>2, <3>3, <3>4 DEF Kernel
  <2>3. ASSUME NEW f \in Files, Kill(f) PROVE TypeOK'
    BY <2>3 DEF Kill
  <2>4. ASSUME NEW f \in Files, CedardevRelease(f) PROVE TypeOK'
    BY <2>4 DEF CedardevRelease, ReleaseLostLock, ReleaseDone
  <2>5. CASE UNCHANGED vars
    BY <2>5 DEF vars
  <2> QED BY <2>1, <2>2, <2>3, <2>4, <2>5 DEF Next
<1> QED BY <1>1, <1>2, PTL DEF Spec

-----------------------------------------------------------------------------

\* Clients without manners have a file for each thread.
OwnFiles == /\ \A ty \in LockTypes : Valid(ty)
            /\ \A t, u \in Threads : FileOf[t] = FileOf[u] => t = u

\* The results hold for either kind of client.
SoundUse == PoliteUse \/ OwnFiles

LEMMA InvInit == Init => Inv
BY VeLockAssumption DEF Init, Inv, TypeOK, Location, LockAccounted, FlagOwned, HoldsOwned,
       CallOrder, FileLife

LEMMA InvStep == ASSUME SoundUse, Inv, [Next]_vars, TypeOK'
                 PROVE  Inv'
<1> USE VeLockAssumption DEF Inv, TypeOK, Location, LockAccounted, FlagOwned, HoldsOwned, CallOrder,
        FileLife, ThreadsOf, Attached, Valid, Go
<1>1. ASSUME NEW t \in Threads, Open(t) PROVE Inv'
  BY <1>1 DEF Open
<1>2. ASSUME NEW t \in Threads, Share(t) PROVE Inv'
  BY <1>2 DEF Share
<1>3. ASSUME NEW t \in Threads, Exit(t) PROVE Inv'
  BY <1>3 DEF Exit
<1>4. ASSUME NEW f \in Files, Kill(f) PROVE Inv'
  <2>1. TypeOK' /\ LockAccounted' /\ FlagOwned' /\ HoldsOwned' /\ CallOrder'
    BY <1>4 DEF Kill
  <2>2. \A g \in Files : filp'[g] = "closed" => filp[g] = "closed"
    BY <1>4 DEF Kill
  <2>3. FileLife'
    BY <1>4, <2>2 DEF Kill
  <2> QED BY <2>1, <2>3
<1>5. ASSUME NEW t \in Threads, NEW ty \in LockTypes, GetLock(t, ty) PROVE Inv'
  BY <1>5 DEF GetLock, AsksInOrder, SoundUse, PoliteUse, OwnFiles
<1>6. ASSUME NEW t \in Threads, MutexLock(t) PROVE Inv'
  <2>1. PICK l \in Locks : /\ lock_type[t] = {l} /\ mutex[l] = NoThread
                            /\ mutex' = [mutex EXCEPT ![l] = t]
    BY <1>6 DEF MutexLock
  <2>2. /\ pc[t] = "get" /\ pc' = [pc EXCEPT ![t] = "getflag"]
        /\ UNCHANGED <<lock_flags, filp, lock_type, holds>>
    BY <1>6 DEF MutexLock
  <2>3. \A f \in Files : l \notin lock_flags[f]
    BY <2>1
  <2>4. LockAccounted'
    BY <2>1, <2>2
  <2>5. FlagOwned' /\ HoldsOwned'
    BY <2>1, <2>2, <2>3
  <2>6. CallOrder'
    BY <2>1, <2>2, <2>3
  <2>7. FileLife'
    BY <2>1, <2>2
  <2> QED BY <2>4, <2>5, <2>6, <2>7
<1>7. ASSUME NEW t \in Threads, SetFlag(t) PROVE Inv'
  BY <1>7 DEF SetFlag
<1>8. ASSUME NEW t \in Threads, NEW ty \in LockTypes, CheckFlag(t, ty) PROVE Inv'
  <2>1. Valid(ty)
    BY DEF SoundUse, PoliteUse, OwnFiles
  <2>2. \A l \in ty : mutex[l] = t /\ l \in lock_flags[FileOf[t]]
    <3>1. CASE PoliteUse
      BY <1>8, <3>1 DEF CheckFlag, MayRelease, PoliteUse
    <3>2. CASE OwnFiles
      BY <1>8, <2>1, <3>2 DEF CheckFlag, OwnFiles
    <3> QED BY <3>1, <3>2 DEF SoundUse
  <2> QED BY <1>8, <2>1, <2>2 DEF CheckFlag
<1>9. ASSUME NEW t \in Threads, NEW ty \in LockTypes, RefuseRelease(t, ty) PROVE Inv'
  BY <1>9 DEF RefuseRelease
<1>10. ASSUME NEW t \in Threads, ClearFlag(t) PROVE Inv'
  BY <1>10 DEF ClearFlag
<1>11. ASSUME NEW t \in Threads, MutexUnlock(t) PROVE Inv'
  BY <1>11 DEF MutexUnlock
<1>12. ASSUME NEW f \in Files, ReleaseLostLock(f) PROVE Inv'
  BY <1>12 DEF ReleaseLostLock, Unreferenced
<1>13. ASSUME NEW f \in Files, ReleaseDone(f) PROVE Inv'
  BY <1>13 DEF ReleaseDone, Unreferenced
<1>14. CASE UNCHANGED vars
  BY <1>14 DEF vars
<1> QED BY <1>1, <1>2, <1>3, <1>4, <1>5, <1>6, <1>7, <1>8, <1>9, <1>10, <1>11, <1>12,
           <1>13, <1>14 DEF Next, Client, Kernel, CedardevRelease

LEMMA InvAlways == ASSUME SoundUse PROVE Spec => []Inv
<1>1. Inv /\ TypeOK' /\ [Next]_vars => Inv'
  BY InvStep
<1> QED BY <1>1, InvInit, TypeCorrect, PTL DEF Spec

\* Two threads are never both told that they hold the same lock, in any
\* interleaving of the ioctls and cedardev_release.
THEOREM Exclusion == ASSUME SoundUse PROVE Spec => []MutualExclusion
<1>1. Inv => MutualExclusion
  BY DEF Inv, HoldsOwned, MutualExclusion, TypeOK
<1> QED BY <1>1, InvAlways, PTL

\* cedardev_release and IOCTL_RELEASE_LOCK only ever find flags of mutexes
\* that are owned through their file, and no taken mutex is without a flag.
THEOREM Accounting ==
  ASSUME SoundUse PROVE Spec => [](LockAccounted /\ FlagOwned)
<1>1. Inv => LockAccounted /\ FlagOwned
  BY DEF Inv
<1> QED BY <1>1, InvAlways, PTL

\* No thread of a closed file owns a mutex: cedardev_release left none.
THEOREM NothingLost == ASSUME SoundUse PROVE Spec => []ClosedHoldsNothing
<1>1. Inv => ClosedHoldsNothing
  BY VeLockAssumption DEF Inv, FileLife, ClosedHoldsNothing, TypeOK
<1> QED BY <1>1, InvAlways, PTL

\* A release that passes the check unlocks a mutex of its own file, also for
\* clients that release what they do not hold.
THEOREM OwnUnlocked == ASSUME SoundUse PROVE Spec => ReleaseUnlocksOwn
<1>1. Inv /\ [Next]_vars =>
        [\A t \in Threads : MutexUnlock(t) =>
           \A l \in lock_type[t] : mutex[l] \in ThreadsOf(FileOf[t])]_vars
  BY DEF Inv, TypeOK, CallOrder, MutexUnlock, Go, ThreadsOf
<1> QED BY <1>1, InvAlways, PTL DEF Spec, ReleaseUnlocksOwn

\* A client that releases what it was granted is never told "Not lock?".
THEOREM NeverRefused == ASSUME PoliteUse PROVE Spec => ReleaseNeverRefused
<1>1. Inv /\ [Next]_vars =>
        [\A t \in Threads, ty \in LockTypes : ~RefuseRelease(t, ty)]_vars
  BY DEF Inv, HoldsOwned, RefuseRelease, MayRelease, PoliteUse
<1>2. SoundUse
  BY DEF SoundUse
<1> QED BY <1>1, <1>2, InvAlways, PTL DEF Spec, ReleaseNeverRefused

-----------------------------------------------------------------------------
(* The ioctls implement the abstract lock service.                         *)

LEMMA ServiceInit == Init => Service!Init
BY DEF Init, Service!Init, Attached

\* Every step is a step of the service or changes nothing it can see.
LEMMA ServiceStep == ASSUME SoundUse, Inv, [Next]_vars
                     PROVE  [Service!Next]_(Service!vars)
<1> DEFINE clients == {u \in Threads : Attached(u)}
<1> USE VeLockAssumption DEF Inv, TypeOK, Location, Go, Attached, Service!vars
<1>1. ASSUME NEW t \in Threads, Open(t) \/ Share(t) PROVE Service!Join(t)
  <2>1. pc[t] = "none" /\ pc' = [pc EXCEPT ![t] = "user"] /\ UNCHANGED mutex
    BY <1>1 DEF Open, Share
  <2>2. \A l \in Locks : mutex[l] # t
    BY <2>1 DEF FileLife
  <2>3. clients' = clients \cup {t}
    BY <2>1
  <2> QED BY <2>1, <2>2, <2>3 DEF Service!Join
<1>2. ASSUME NEW t \in Threads, Exit(t) PROVE Service!Leave(t)
  <2>1. clients' = clients \ {t}
    BY <1>2 DEF Exit
  <2> QED BY <1>2, <2>1 DEF Exit, Service!Leave
<1>3. ASSUME NEW t \in Threads, MutexLock(t)
      PROVE  \E l \in Locks : Service!Grant(t, l)
  <2>1. clients' = clients /\ t \in clients
    BY <1>3 DEF MutexLock
  <2>2. Valid(lock_type[t])
    BY <1>3 DEF MutexLock, CallOrder
  <2> QED BY <1>3, <2>1, <2>2 DEF MutexLock, Service!Grant
<1>4. ASSUME NEW t \in Threads, MutexUnlock(t)
      PROVE  \E l \in Locks : Service!Return(t, l)
  <2>1. clients' = clients /\ t \in clients
    BY <1>4 DEF MutexUnlock
  <2>2. PICK l \in Locks : lock_type[t] = {l}
    BY <1>4 DEF MutexUnlock, CallOrder, Valid
  <2>3. mutex[l] = t
    BY <1>4, <2>2 DEF MutexUnlock, CallOrder
  <2>4. mutex' = [mutex EXCEPT ![l] = NoThread]
    BY <1>4, <2>2 DEF MutexUnlock, Valid
  <2> QED BY <2>1, <2>3, <2>4 DEF Service!Return
<1>5. ASSUME NEW f \in Files, ReleaseLostLock(f)
      PROVE  \E l \in Locks : Service!Reclaim(l)
  <2>1. PICK l \in lock_flags[f] : mutex' = [mutex EXCEPT ![l] = NoThread]
    BY <1>5 DEF ReleaseLostLock
  <2>2. l \in Locks /\ mutex[l] \notin clients
    BY <1>5, <2>1 DEF ReleaseLostLock, Unreferenced, FlagOwned, ThreadsOf
  <2> QED BY <1>5, <2>1, <2>2 DEF ReleaseLostLock, Service!Reclaim
<1>6. ASSUME NEW t \in Threads, NEW ty \in LockTypes,
             GetLock(t, ty) \/ CheckFlag(t, ty) \/ RefuseRelease(t, ty)
      PROVE  UNCHANGED <<mutex, clients>>
  BY <1>6 DEF GetLock, CheckFlag, RefuseRelease
<1>7. ASSUME NEW t \in Threads, SetFlag(t) \/ ClearFlag(t)
      PROVE  UNCHANGED <<mutex, clients>>
  BY <1>7 DEF SetFlag, ClearFlag
<1>8. ASSUME NEW f \in Files, Kill(f) PROVE UNCHANGED <<mutex, clients>>
  BY <1>8 DEF Kill
<1>9. ASSUME NEW f \in Files, ReleaseDone(f) PROVE UNCHANGED <<mutex, clients>>
  BY <1>9 DEF ReleaseDone, Unreferenced, ThreadsOf
<1>10. CASE UNCHANGED vars
  BY <1>10 DEF vars
<1> QED BY <1>1, <1>2, <1>3, <1>4, <1>5, <1>6, <1>7, <1>8, <1>9, <1>10
        DEF Next, Client, Kernel, CedardevRelease, Service!Next

\* For clients that use the locks as intended, a lock is lent to one client
\* at a time and is only taken back from a client that has gone.
THEOREM Refinement == ASSUME SoundUse PROVE Spec => ImplementsService
<1>1. Inv /\ [Next]_vars => [Service!Next]_(Service!vars)
  BY ServiceStep
<1> QED BY <1>1, ServiceInit, InvAlways, PTL DEF Spec, ImplementsService, Service!Spec
=============================================================================
