------------------------------ MODULE RWMutex ------------------------------
(***************************************************************************)
(* Go's sync.RWMutex as the scheduler uses it (Scheduler.exclusiveMutex):  *)
(* writer preference and hand-over to the readers that queued behind a     *)
(* writer.  This is the runtime library, not code of the repository.       *)
(***************************************************************************)

CONSTANTS Workers,   \* goroutines that use the lock
          None       \* "no worker"

VARIABLES writer,    \* the worker inside Lock..Unlock that announced itself, or None
          readers,   \* workers holding a read lock
          blocked    \* workers whose RLock waits for the announced writer

mutexVars == <<writer, readers, blocked>>

MutexTypeOK == /\ writer \in Workers \cup {None}
               /\ readers \in SUBSET Workers
               /\ blocked \in SUBSET Workers

MutexInit == writer = None /\ readers = {} /\ blocked = {}

-----------------------------------------------------------------------------
\* Mutant: a reader does not care whether a writer is there.
RLockAlways(w) == readers' = readers \cup {w} /\ UNCHANGED <<writer, blocked>>

\* RLock: a reader gets in at once unless a writer has announced itself.
RLock(w) == /\ IF writer = None
                 THEN readers' = readers \cup {w} /\ blocked' = blocked
                 ELSE blocked' = blocked \cup {w} /\ readers' = readers
            /\ UNCHANGED writer

\* Lock, first half: writers exclude one another, then turn new readers away.
Announce(w) == /\ writer = None
               /\ writer' = w
               /\ UNCHANGED <<readers, blocked>>

\* Lock, second half: the writer waits for the readers it found.
LockHeld(w)  == writer = w /\ readers = {}
RLockHeld(w) == w \in readers

RUnlock(w) == readers' = readers \ {w} /\ UNCHANGED <<writer, blocked>>

\* Unlock hands the lock to every reader that queued behind the writer.
Unlock(w) == /\ writer' = None
             /\ readers' = readers \cup blocked
             /\ blocked' = {}
=============================================================================
