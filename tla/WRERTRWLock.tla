---------------------------- MODULE WRERTRWLock -----------------------------
(***************************************************************************)
(* WRERTSpinRWLock (YCSB-C/wrert/wrert_rwlock.h): the spinning lock that   *)
(* guards each directory, segment and bucket of the concurrent tree.  One  *)
(* 32-bit word holds the writer flag and the number of readers; one action *)
(* is one atomic operation on it.                                          *)
(***************************************************************************)
EXTENDS Integers, FiniteSets

CONSTANT Clients     \* the threads that call

READER_MASK == 2147483647       \* the readers are counted in 31 bits

ASSUME ClientsAssumption == IsFiniteSet(Clients) /\ Cardinality(Clients) <= READER_MASK

VARIABLES state,    \* state_: the flag and the count
          pc,       \* where each thread is
          cur       \* the word a thread has loaded and compares with

rwVars == <<state, pc, cur>>

Word == [writer : BOOLEAN, readers : 0..Cardinality(Clients)]
Free == [writer |-> FALSE, readers |-> 0]

RWInit == /\ state = Free
          /\ pc = [t \in Clients |-> "idle"]
          /\ cur = [t \in Clients |-> Free]

Goto(t, l) == pc' = [pc EXCEPT ![t] = l]

-----------------------------------------------------------------------------
(* read_lock, read_unlock.                                                 *)

CallReadLock(t) == /\ pc[t] = "idle"
                   /\ Goto(t, "read_load")
                   /\ UNCHANGED <<state, cur>>

\* While a writer holds or awaits the lock the reader only spins.  (Slip: the
\* flag is not looked at.)
ReadLoad_NoFlagTest(t) == /\ pc[t] = "read_load"
                          /\ cur' = [cur EXCEPT ![t] = state]
                          /\ Goto(t, "read_cas")
                          /\ UNCHANGED state
ReadLoad(t) == /\ pc[t] = "read_load"
               /\ ~state.writer
               /\ cur' = [cur EXCEPT ![t] = state]
               /\ Goto(t, "read_cas")
               /\ UNCHANGED state

\* The whole word is compared: a writer's flag set since the load makes it
\* fail.
ReadCas(t) == /\ pc[t] = "read_cas"
              /\ state = cur[t]
              /\ state' = [state EXCEPT !.readers = @ + 1]
              /\ Goto(t, "reading")
              /\ UNCHANGED cur

\* The word has changed, or the weak compare fails spuriously.
ReadCasFails(t) == /\ pc[t] = "read_cas"
                   /\ Goto(t, "read_load")
                   /\ UNCHANGED <<state, cur>>

\* (Slip: the count is left alone.)
ReadUnlock_Leaks(t) == /\ pc[t] = "reading"
                       /\ Goto(t, "idle")
                       /\ UNCHANGED <<state, cur>>
ReadUnlock(t) == /\ pc[t] = "reading"
                 /\ state' = [state EXCEPT !.readers = @ - 1]
                 /\ Goto(t, "idle")
                 /\ UNCHANGED cur

-----------------------------------------------------------------------------
(* write_lock, write_unlock.                                               *)

CallWriteLock(t) == /\ pc[t] = "idle"
                    /\ Goto(t, "write_load")
                    /\ UNCHANGED <<state, cur>>

WriteLoad(t) == /\ pc[t] = "write_load"
                /\ ~state.writer
                /\ Goto(t, "write_or")
                /\ UNCHANGED <<state, cur>>

\* fetch_or: the thread that sets the flag is the writer; one that finds it
\* set starts over.  (Slip: the previous word is not looked at.)
WriteOr_Unchecked(t) == /\ pc[t] = "write_or"
                        /\ state' = [state EXCEPT !.writer = TRUE]
                        /\ Goto(t, "write_wait")
                        /\ UNCHANGED cur
WriteOr(t) == /\ pc[t] = "write_or"
              /\ state' = [state EXCEPT !.writer = TRUE]
              /\ Goto(t, IF state.writer THEN "write_load" ELSE "write_wait")
              /\ UNCHANGED cur

\* The readers that were there first leave.  (Slip: no wait.)
WriteWait_None(t) == /\ pc[t] = "write_wait"
                     /\ Goto(t, "writing")
                     /\ UNCHANGED <<state, cur>>
WriteWait(t) == /\ pc[t] = "write_wait"
                /\ state.readers = 0
                /\ Goto(t, "writing")
                /\ UNCHANGED <<state, cur>>

\* (Slip: fetch_sub of 1, as in read_unlock.)
WriteUnlock_Sub(t) == /\ pc[t] = "writing"
                      /\ state' = [writer |-> FALSE, readers |-> READER_MASK]
                      /\ Goto(t, "idle")
                      /\ UNCHANGED cur
WriteUnlock(t) == /\ pc[t] = "writing"
                  /\ state' = [state EXCEPT !.writer = FALSE]
                  /\ Goto(t, "idle")
                  /\ UNCHANGED cur

-----------------------------------------------------------------------------
RWStep(t) == \/ ReadLoad(t) \/ ReadCas(t) \/ ReadCasFails(t) \/ ReadUnlock(t)
             \/ WriteLoad(t) \/ WriteOr(t) \/ WriteWait(t) \/ WriteUnlock(t)

RWNext == \E t \in Clients : CallReadLock(t) \/ CallWriteLock(t) \/ RWStep(t)

RWSpec == RWInit /\ [][RWNext]_rwVars

\* A thread inside a call or a critical section keeps running; whether it
\* calls again is its own choice.
FairRWSpec == RWSpec /\ \A t \in Clients : WF_rwVars(RWStep(t))

-----------------------------------------------------------------------------
Labels == {"idle", "read_load", "read_cas", "reading",
           "write_load", "write_or", "write_wait", "writing"}

Reading == {t \in Clients : pc[t] = "reading"}
Writing == {t \in Clients : pc[t] = "writing"}
FlagOwners == {t \in Clients : pc[t] \in {"write_wait", "writing"}}

RWTypeOK == /\ state \in Word
            /\ pc \in [Clients -> Labels]
            /\ cur \in [Clients -> Word]

\* The word tells the truth: the flag is set exactly while some thread has
\* set it and not yet cleared it, and the count is the number of readers, so
\* no read_unlock ever borrows from the flag.
WordExact == /\ state.writer <=> FlagOwners # {}
             /\ state.readers = Cardinality(Reading)

\* One thread at a time owns the flag, and while a writer is inside, nobody
\* else is.
Exclusion == /\ \A t, u \in FlagOwners : t = u
             /\ Writing # {} => Reading = {}

\* The lock is a reader-writer lock.
RW == INSTANCE RWLockSpec WITH Threads <- Clients, readers <- Reading, writers <- Writing
ImplementsLock == RW!LockSpec

\* A writer that has set the flag gets the lock: no later reader overtakes it.
WriterEnters == \A t \in Clients : (pc[t] = "write_wait") ~> (pc[t] = "writing")
=============================================================================
