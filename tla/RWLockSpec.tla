----------------------------- MODULE RWLockSpec -----------------------------
(***************************************************************************)
(* What a reader-writer lock promises: at any time either several readers  *)
(* hold it or one writer does.                                             *)
(***************************************************************************)
CONSTANT Threads

VARIABLES readers,      \* the threads that hold the lock to read
          writers       \* the threads that hold it to write

lockVars == <<readers, writers>>

LockInit == readers = {} /\ writers = {}

AcquireRead(t) == /\ writers = {}
                  /\ t \notin readers
                  /\ readers' = readers \union {t}
                  /\ UNCHANGED writers

ReleaseRead(t) == /\ t \in readers
                  /\ readers' = readers \ {t}
                  /\ UNCHANGED writers

AcquireWrite(t) == /\ readers = {} /\ writers = {}
                   /\ writers' = {t}
                   /\ UNCHANGED readers

ReleaseWrite(t) == /\ t \in writers
                   /\ writers' = writers \ {t}
                   /\ UNCHANGED readers

LockNext == \E t \in Threads : \/ AcquireRead(t) \/ ReleaseRead(t)
                               \/ AcquireWrite(t) \/ ReleaseWrite(t)

LockSpec == LockInit /\ [][LockNext]_lockVars
=============================================================================
