------------------------- MODULE WRERTRWLockProofs --------------------------
(***************************************************************************)
(* Proofs about WRERTRWLock, for every finite set of threads.              *)
(***************************************************************************)
EXTENDS WRERTRWLock, FiniteSetTheorems, TLAPS

\* The inductive invariant: what the word says and who is inside; a reader
\* about to compare-and-swap has loaded a word without the flag.
LockInv == /\ RWTypeOK
           /\ WordExact
           /\ Exclusion
           /\ \A t \in Clients : pc[t] = "read_cas" => ~cur[t].writer

-----------------------------------------------------------------------------
\* The readers are finitely many, at most all the threads; one more or one
\* less changes their number by one.
LEMMA ReadersCounted ==
  /\ IsFiniteSet(Reading) /\ Cardinality(Reading) \in 0..Cardinality(Clients)
  /\ \A t \in Clients \ Reading : Cardinality(Reading \union {t}) = Cardinality(Reading) + 1
  /\ \A t \in Reading : Cardinality(Reading \ {t}) = Cardinality(Reading) - 1
<1>1. Reading \in SUBSET Clients
  BY DEF Reading
<1>2. IsFiniteSet(Reading) /\ Cardinality(Reading) <= Cardinality(Clients)
  BY <1>1, FS_Subset, ClientsAssumption
<1>3. Cardinality(Reading) \in Nat /\ Cardinality(Clients) \in Nat
  BY <1>2, FS_CardinalityType, ClientsAssumption
<1>4. \A t \in Clients \ Reading : Cardinality(Reading \union {t}) = Cardinality(Reading) + 1
  BY <1>2, FS_AddElement
<1>5. \A t \in Reading : Cardinality(Reading \ {t}) = Cardinality(Reading) - 1
  BY <1>2, FS_RemoveElement
<1>6. QED
  BY <1>2, <1>3, <1>4, <1>5

\* The invariant holds at first.
LEMMA LockStarts == RWInit => LockInv
<1> SUFFICES ASSUME RWInit PROVE LockInv
  OBVIOUS
<1>1. Reading = {} /\ Writing = {} /\ FlagOwners = {}
  BY DEF RWInit, Reading, Writing, FlagOwners
<1>2. Cardinality({}) = 0 /\ Cardinality(Clients) \in Nat
  BY FS_EmptySet, FS_CardinalityType, ClientsAssumption
<1>3. RWTypeOK
  BY <1>2 DEF RWInit, RWTypeOK, Word, Free, Labels
<1>4. QED
  BY <1>1, <1>2, <1>3 DEF RWInit, LockInv, WordExact, Exclusion, Free

\* A step that moves thread t and changes neither the word nor who reads or
\* owns the flag keeps the invariant.
LEMMA Bystanders ==
  ASSUME LockInv, NEW t \in Clients, UNCHANGED state,
         Reading' = Reading, FlagOwners' = FlagOwners, Writing' = Writing, RWTypeOK',
         \A u \in Clients : pc'[u] = "read_cas" => ~cur'[u].writer
  PROVE  LockInv'
BY DEF LockInv, WordExact, Exclusion

\* The steps of a reader keep it.
LEMMA ReadSteps ==
  ASSUME LockInv, NEW t \in Clients,
         CallReadLock(t) \/ ReadLoad(t) \/ ReadCas(t) \/ ReadCasFails(t) \/ ReadUnlock(t)
  PROVE  LockInv'
<1>1. CASE CallReadLock(t)
  <2>1. RWTypeOK'
    BY <1>1 DEF LockInv, RWTypeOK, CallReadLock, Goto, Labels
  <2>2. Reading' = Reading /\ FlagOwners' = FlagOwners /\ Writing' = Writing
    BY <1>1 DEF LockInv, RWTypeOK, CallReadLock, Goto, Reading, FlagOwners, Writing
  <2>3. \A u \in Clients : pc'[u] = "read_cas" => ~cur'[u].writer
    BY <1>1 DEF LockInv, RWTypeOK, CallReadLock, Goto
  <2>4. QED
    BY <1>1, <2>1, <2>2, <2>3, Bystanders DEF CallReadLock
<1>2. CASE ReadLoad(t)
  <2>1. RWTypeOK'
    BY <1>2 DEF LockInv, RWTypeOK, ReadLoad, Goto, Labels
  <2>2. Reading' = Reading /\ FlagOwners' = FlagOwners /\ Writing' = Writing
    BY <1>2 DEF LockInv, RWTypeOK, ReadLoad, Goto, Reading, FlagOwners, Writing
  <2>3. \A u \in Clients : pc'[u] = "read_cas" => ~cur'[u].writer
    BY <1>2 DEF LockInv, RWTypeOK, ReadLoad, Goto
  <2>4. QED
    BY <1>2, <2>1, <2>2, <2>3, Bystanders DEF ReadLoad
<1>3. CASE ReadCas(t)
  <2>1. ~state.writer /\ FlagOwners = {} /\ Writing = {} /\ t \in Clients \ Reading
    BY <1>3 DEF LockInv, ReadCas, WordExact, FlagOwners, Writing, Reading
  <2>2. Reading' = Reading \union {t} /\ FlagOwners' = {} /\ Writing' = {}
    BY <1>3, <2>1 DEF LockInv, RWTypeOK, ReadCas, Goto, Reading, FlagOwners, Writing
  <2>3. state'.readers = state.readers + 1 /\ state'.writer = FALSE
        /\ state' \in [writer : BOOLEAN, readers : Int]
    BY <1>3, <2>1, ReadersCounted DEF LockInv, RWTypeOK, Word, ReadCas
  <2>4. state'.readers = Cardinality(Reading')
    BY <2>1, <2>2, <2>3, ReadersCounted DEF LockInv, WordExact
  <2>5. Cardinality(Reading') \in 0..Cardinality(Clients)
    <3>1. Reading' \in SUBSET Clients
      BY DEF Reading
    <3>2. IsFiniteSet(Reading') /\ Cardinality(Reading') <= Cardinality(Clients)
      BY <3>1, FS_Subset, ClientsAssumption
    <3>3. QED
      BY <3>2, FS_CardinalityType, ClientsAssumption
  <2>6. RWTypeOK'
    BY <1>3, <2>3, <2>4, <2>5 DEF LockInv, RWTypeOK, Word, ReadCas, Goto, Labels
  <2>7. \A u \in Clients : pc'[u] = "read_cas" => ~cur'[u].writer
    BY <1>3 DEF LockInv, RWTypeOK, ReadCas, Goto
  <2>8. QED
    BY <2>2, <2>3, <2>4, <2>6, <2>7 DEF LockInv, WordExact, Exclusion
<1>4. CASE ReadCasFails(t)
  <2>1. RWTypeOK'
    BY <1>4 DEF LockInv, RWTypeOK, ReadCasFails, Goto, Labels
  <2>2. Reading' = Reading /\ FlagOwners' = FlagOwners /\ Writing' = Writing
    BY <1>4 DEF LockInv, RWTypeOK, ReadCasFails, Goto, Reading, FlagOwners, Writing
  <2>3. \A u \in Clients : pc'[u] = "read_cas" => ~cur'[u].writer
    BY <1>4 DEF LockInv, RWTypeOK, ReadCasFails, Goto
  <2>4. QED
    BY <1>4, <2>1, <2>2, <2>3, Bystanders DEF ReadCasFails
<1>5. CASE ReadUnlock(t)
  <2>1. t \in Reading
    BY <1>5 DEF ReadUnlock, Reading
  <2>2. Reading' = Reading \ {t} /\ FlagOwners' = FlagOwners /\ Writing' = Writing
    BY <1>5 DEF LockInv, RWTypeOK, ReadUnlock, Goto, Reading, FlagOwners, Writing
  <2>3. state'.readers = state.readers - 1 /\ state'.writer = state.writer
        /\ state' \in [writer : BOOLEAN, readers : Int]
    BY <1>5, ReadersCounted DEF LockInv, RWTypeOK, Word, ReadUnlock
  <2>4. state'.readers = Cardinality(Reading')
    BY <2>1, <2>2, <2>3, ReadersCounted DEF LockInv, WordExact
  <2>5. Cardinality(Reading') \in 0..Cardinality(Clients)
    <3>1. Reading' \in SUBSET Clients
      BY DEF Reading
    <3>2. IsFiniteSet(Reading') /\ Cardinality(Reading') <= Cardinality(Clients)
      BY <3>1, FS_Subset, ClientsAssumption
    <3>3. QED
      BY <3>2, FS_CardinalityType, ClientsAssumption
  <2>6. RWTypeOK'
    BY <1>5, <2>3, <2>4, <2>5 DEF LockInv, RWTypeOK, Word, ReadUnlock, Goto, Labels
  <2>7. \A u \in Clients : pc'[u] = "read_cas" => ~cur'[u].writer
    BY <1>5 DEF LockInv, RWTypeOK, ReadUnlock, Goto
  <2>8. QED
    BY <2>2, <2>3, <2>4, <2>6, <2>7 DEF LockInv, WordExact, Exclusion
<1>6. QED
  BY <1>1, <1>2, <1>3, <1>4, <1>5

\* So do those of a writer.
LEMMA WriteSteps ==
  ASSUME LockInv, NEW t \in Clients,
         CallWriteLock(t) \/ WriteLoad(t) \/ WriteOr(t) \/ WriteWait(t) \/ WriteUnlock(t)
  PROVE  LockInv'
<1>0. \A u \in Clients : pc'[u] = "read_cas" => ~cur'[u].writer
  BY DEF LockInv, RWTypeOK, CallWriteLock, WriteLoad, WriteOr, WriteWait, WriteUnlock, Goto
<1>1. RWTypeOK'
  BY DEF LockInv, RWTypeOK, CallWriteLock, WriteLoad, WriteOr, WriteWait, WriteUnlock, Goto, Labels, Word
<1>2. Reading' = Reading
  BY DEF LockInv, RWTypeOK, CallWriteLock, WriteLoad, WriteOr, WriteWait, WriteUnlock, Goto, Reading
<1>3. CASE CallWriteLock(t) \/ WriteLoad(t)
  <2>1. FlagOwners' = FlagOwners /\ Writing' = Writing /\ UNCHANGED state
    BY <1>3 DEF LockInv, RWTypeOK, CallWriteLock, WriteLoad, Goto, FlagOwners, Writing
  <2>2. QED
    BY <1>0, <1>1, <1>2, <2>1, Bystanders
<1>4. CASE WriteOr(t) /\ state.writer
  <2>1. FlagOwners' = FlagOwners /\ Writing' = Writing
    BY <1>4 DEF LockInv, RWTypeOK, WriteOr, Goto, FlagOwners, Writing
  <2>2. state' = state
    BY <1>4 DEF LockInv, RWTypeOK, Word, WriteOr
  <2>3. QED
    BY <1>0, <1>1, <1>2, <2>1, <2>2, Bystanders
<1>5. CASE WriteOr(t) /\ ~state.writer
  <2>1. FlagOwners = {} /\ Writing = {}
    BY <1>5 DEF LockInv, WordExact, FlagOwners, Writing
  <2>2. FlagOwners' = {t} /\ Writing' = {}
    BY <1>5, <2>1 DEF LockInv, RWTypeOK, WriteOr, Goto, FlagOwners, Writing
  <2>3. state'.writer = TRUE /\ state'.readers = state.readers
    BY <1>5 DEF LockInv, RWTypeOK, Word, WriteOr
  <2>4. QED
    BY <1>0, <1>1, <1>2, <2>2, <2>3 DEF LockInv, WordExact, Exclusion
<1>6. CASE WriteWait(t)
  <2>1. FlagOwners' = FlagOwners
    BY <1>6 DEF LockInv, RWTypeOK, WriteWait, Goto, FlagOwners
  <2>2. Reading = {}
    <3>1. Cardinality(Reading) = 0
      BY <1>6 DEF LockInv, WordExact, WriteWait
    <3>2. QED
      BY <3>1, ReadersCounted, FS_EmptySet
  <2>3. QED
    BY <1>0, <1>1, <1>2, <1>6, <2>1, <2>2 DEF LockInv, WordExact, Exclusion, WriteWait
<1>7. CASE WriteUnlock(t)
  <2>1. FlagOwners = {t}
    BY <1>7 DEF LockInv, Exclusion, FlagOwners, WriteUnlock
  <2>2. FlagOwners' = {} /\ Writing' = {}
    BY <1>7, <2>1 DEF LockInv, RWTypeOK, WriteUnlock, Goto, FlagOwners, Writing
  <2>3. state'.writer = FALSE /\ state'.readers = state.readers
    BY <1>7 DEF LockInv, RWTypeOK, Word, WriteUnlock
  <2>4. QED
    BY <1>0, <1>1, <1>2, <2>2, <2>3 DEF LockInv, WordExact, Exclusion
<1>8. QED
  BY <1>3, <1>4, <1>5, <1>6, <1>7

\* So it always holds.
LEMMA LockInvariant == RWSpec => []LockInv
<1>1. LockInv /\ [RWNext]_rwVars => LockInv'
  <2> SUFFICES ASSUME LockInv, [RWNext]_rwVars PROVE LockInv'
    OBVIOUS
  <2>1. CASE UNCHANGED rwVars
    BY <2>1 DEF rwVars, LockInv, RWTypeOK, WordExact, Exclusion, Reading, Writing, FlagOwners
  <2>2. CASE RWNext
    BY <2>2, ReadSteps, WriteSteps DEF RWNext, RWStep
  <2>3. QED
    BY <2>1, <2>2
<1>2. QED
  BY <1>1, LockStarts, PTL DEF RWSpec

\* However many threads spin on the lock, the flag says whether a writer owns
\* it, the count is the number of readers inside, and it stays within the
\* number of threads, so it never reaches the flag's bit.
THEOREM WordStaysExact == RWSpec => [](RWTypeOK /\ WordExact)
<1>1. LockInv => RWTypeOK /\ WordExact
  BY DEF LockInv
<1>2. QED
  BY <1>1, LockInvariant, PTL

\* At most one thread owns the writer flag, and no reader is inside with a
\* writer.
THEOREM MutualExclusion == RWSpec => []Exclusion
<1>1. LockInv => Exclusion
  BY DEF LockInv
<1>2. QED
  BY <1>1, LockInvariant, PTL

\* Every step of the spinning lock is a step of the abstract lock or none.
THEOREM LockRefines == RWSpec => ImplementsLock
<1>1. RWInit => RW!LockInit
  BY DEF RWInit, RW!LockInit, Reading, Writing
<1>2. LockInv /\ [RWNext]_rwVars => [RW!LockNext]_RW!lockVars
  <2> SUFFICES ASSUME LockInv, [RWNext]_rwVars PROVE [RW!LockNext]_RW!lockVars
    OBVIOUS
  <2>1. CASE UNCHANGED rwVars
    BY <2>1 DEF rwVars, RW!lockVars, Reading, Writing
  <2>2. ASSUME NEW t \in Clients, ReadCas(t)
        PROVE  RW!AcquireRead(t)
    <3>1. Writing = {} /\ t \notin Reading
      BY <2>2 DEF LockInv, ReadCas, WordExact, FlagOwners, Writing, Reading
    <3>2. Reading' = Reading \union {t} /\ Writing' = Writing
      BY <2>2 DEF LockInv, RWTypeOK, ReadCas, Goto, Reading, Writing
    <3>3. QED
      BY <3>1, <3>2 DEF RW!AcquireRead
  <2>3. ASSUME NEW t \in Clients, ReadUnlock(t)
        PROVE  RW!ReleaseRead(t)
    <3>1. t \in Reading /\ Reading' = Reading \ {t} /\ Writing' = Writing
      BY <2>3 DEF LockInv, RWTypeOK, ReadUnlock, Goto, Reading, Writing
    <3>2. QED
      BY <3>1 DEF RW!ReleaseRead
  <2>4. ASSUME NEW t \in Clients, WriteWait(t)
        PROVE  RW!AcquireWrite(t)
    <3>1. Reading = {}
      <4>1. Cardinality(Reading) = 0
        BY <2>4 DEF LockInv, WordExact, WriteWait
      <4>2. QED
        BY <4>1, ReadersCounted, FS_EmptySet
    <3>2. FlagOwners = {t}
      BY <2>4 DEF LockInv, Exclusion, FlagOwners, WriteWait
    <3>3. Writing = {}
      BY <2>4, <3>2 DEF WriteWait, Writing, FlagOwners
    <3>4. Writing' = {t} /\ Reading' = Reading
      BY <2>4, <3>3 DEF LockInv, RWTypeOK, WriteWait, Goto, Writing, Reading
    <3>5. QED
      BY <3>1, <3>3, <3>4 DEF RW!AcquireWrite
  <2>5. ASSUME NEW t \in Clients, WriteUnlock(t)
        PROVE  RW!ReleaseWrite(t)
    <3>1. t \in Writing /\ Writing' = Writing \ {t} /\ Reading' = Reading
      BY <2>5 DEF LockInv, RWTypeOK, WriteUnlock, Goto, Writing, Reading
    <3>2. QED
      BY <3>1 DEF RW!ReleaseWrite
  <2>6. ASSUME NEW t \in Clients,
               \/ CallReadLock(t) \/ CallWriteLock(t) \/ ReadLoad(t)
               \/ ReadCasFails(t) \/ WriteLoad(t) \/ WriteOr(t)
        PROVE  UNCHANGED RW!lockVars
    BY <2>6 DEF LockInv, RWTypeOK, CallReadLock, CallWriteLock, ReadLoad, ReadCasFails,
                WriteLoad, WriteOr, Goto, Reading, Writing, RW!lockVars
  <2>7. QED
    BY <2>1, <2>2, <2>3, <2>4, <2>5, <2>6 DEF RWNext, RWStep, RW!LockNext
<1>3. QED
  BY <1>1, <1>2, LockInvariant, PTL DEF RWSpec, ImplementsLock, RW!LockSpec
=============================================================================
