----------------------------- MODULE Semaphore -----------------------------
(***************************************************************************)
(* The Semaphore of semaphore/semaphore.h.  acquire tests and takes a      *)
(* permission under the mutex; release gives one back under the mutex and  *)
(* notifies when it has released it, so that another thread may take the   *)
(* permission before the one that is woken.  Any thread may release, also  *)
(* one that has acquired nothing.  available() only reads and is left out. *)
(***************************************************************************)
EXTENDS ProgramThreads

CONSTANT Permissions   \* a semaphore has no more than these at first

ASSUME PermissionsAssumption == Permissions \in Nat

VARIABLES avail,       \* the permissions that can be acquired
          initial,     \* history: avail when the semaphore was constructed,
          acquired,    \*   how many were acquired
          released     \*   and how many released since

semVars == <<avail, initial, acquired, released>>

\* Constructed with a number of permissions, or as a copy of a semaphore some
\* of whose permissions are in use.
SemInit ==
  /\ initial \in IF program = "semaphore" THEN 0..Permissions ELSE {0}
  /\ avail = initial
  /\ acquired = 0 /\ released = 0

CallSemaphore(t) ==
  /\ Call(t, "acquire") \/ Call(t, "release")
  /\ UNCHANGED semVars

LockAcquire(t) == Lock(t, "m", "acquire", "test") /\ UNCHANGED semVars

\* The predicate of wait holds,
CanTake(t) == avail > 0 /\ Move(t, "test", "take") /\ UNCHANGED semVars

\* or the thread blocks until it is notified and has the mutex again.
WaitForOne(t) == avail = 0 /\ Sleep(t, "m", "test") /\ UNCHANGED semVars

\* avail--
Take(t) ==
  /\ Move(t, "take", "leave")
  /\ avail' = avail - 1
  /\ acquired' = acquired + 1
  /\ UNCHANGED <<initial, released>>

LeaveAcquire(t) == Unlock(t, {"m"}, "leave", "idle") /\ UNCHANGED semVars

LockRelease(t) == Lock(t, "m", "release", "give") /\ UNCHANGED semVars

\* avail++
Give(t) ==
  /\ Move(t, "give", "unlock")
  /\ avail' = avail + 1
  /\ released' = released + 1
  /\ UNCHANGED <<initial, acquired>>

UnlockRelease(t) == Unlock(t, {"m"}, "unlock", "notify") /\ UNCHANGED semVars

\* Mutant: release does not notify.
NotifyNobody(t) == Move(t, "notify", "idle") /\ UNCHANGED semVars

\* Mutant: the thread that is woken takes without testing again.
WokenTakes(t) == NotifyOne(t, "notify", "idle", "take") /\ UNCHANGED semVars

\* cv.notify_one(), without the mutex
NotifyAcquirer(t) == NotifyOne(t, "notify", "idle", "acquire") /\ UNCHANGED semVars

SemSpurious(t) == WakesUp(t, "acquire") /\ UNCHANGED semVars

SemStep(t) ==
  \/ LockAcquire(t) \/ CanTake(t) \/ WaitForOne(t) \/ Take(t) \/ LeaveAcquire(t)
  \/ LockRelease(t) \/ Give(t) \/ UnlockRelease(t) \/ NotifyAcquirer(t)
-----------------------------------------------------------------------------
(* Properties.                                                             *)

\* Never are more permissions acquired than there were and were released,
\* whoever gets ahead of the thread that release wakes.
PermitsKept == acquired <= initial + released

\* Nobody sleeps beside a permission in the end.
AcquirersServed == Asleep = {} \/ avail = 0
=============================================================================
