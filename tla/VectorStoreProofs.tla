------------------------- MODULE VectorStoreProofs -------------------------
(***************************************************************************)
(* Proofs about VectorStore, for every set of events and any number of     *)
(* faults.                                                                 *)
(***************************************************************************)
EXTENDS VectorStore, SequenceTheorems, TLAPS

\* While the process runs, the names and vectors in memory are those of all
\* events ever added.
MemoryWhole ==
    /\ phase = "down" => ids = <<>> /\ index = <<>>
    /\ ~badStart /\ phase # "down" => ids = index /\ Names(index) = added

\* Between additions the files of a completed save are those of memory, and once
\* the process is down they say what memory said.
FilesWhole ==
    ~badStart /\ ~interrupted =>
        /\ phase = "ready" => Loaded(indexFile) = index /\ Loaded(mapFile) = ids
        /\ phase = "down" => /\ Loaded(mapFile) = Loaded(indexFile)
                             /\ Names(Loaded(indexFile)) = added
        /\ phase \in {"ready", "down"} => indexFile # Unreadable

\* addVector writes the index before the mapping.
IndexFirst == phase = "map" => indexFile = index

StoreInv ==
    /\ TypeOK
    /\ MemoryWhole
    /\ FilesWhole
    /\ IndexFirst
    /\ MappingNeedsIndex

-----------------------------------------------------------------------------
\* The one fact about sequences: appending a vector adds its event.
LEMMA NamesAppend ==
  ASSUME NEW s \in Seq(Events), NEW e \in Events
  PROVE  Append(s, e) \in Seq(Events) /\ Names(Append(s, e)) = Names(s) \union {e}
  <1>1. /\ Append(s, e) \in Seq(Events)
        /\ Len(Append(s, e)) = Len(s) + 1
        /\ Append(s, e)[Len(s) + 1] = e
        /\ \A i \in 1..Len(s) : Append(s, e)[i] = s[i]
    BY AppendProperties
  <1>2. Len(s) \in Nat /\ 1..(Len(s) + 1) = 1..Len(s) \union {Len(s) + 1}
    OBVIOUS
  <1> QED BY <1>1, <1>2 DEF Names

LEMMA NamesEmpty == <<>> \in Seq(Events) /\ Names(<<>>) = {}
  BY DEF Names

\* A saved sequence is read back as it is.
LEMMA LoadedSaved ==
  /\ \A s \in Seq(Events) : Loaded(s) = s /\ s # Missing /\ s # Unreadable
  /\ Loaded(Missing) = <<>>
  BY VectorStoreAssumption DEF Loaded

LEMMA LoadedType == \A f \in File : Loaded(f) \in Seq(Events)
  BY DEF File, Loaded

LEMMA StoreInvInit == Init => StoreInv
  <1> SUFFICES ASSUME Init
               PROVE  StoreInv
    OBVIOUS
  <1>1. TypeOK
    BY NamesEmpty DEF Init, TypeOK, File
  <1>2. MemoryWhole /\ IndexFirst /\ MappingNeedsIndex
    BY DEF Init, MemoryWhole, IndexFirst, MappingNeedsIndex
  <1>3. FilesWhole
    BY NamesEmpty, LoadedSaved, VectorStoreAssumption DEF Init, FilesWhole
  <1> QED BY <1>1, <1>2, <1>3 DEF StoreInv

LEMMA StoreInvNext == StoreInv /\ [Next]_vars => StoreInv'
  <1> SUFFICES ASSUME StoreInv, [Next]_vars
               PROVE  StoreInv'
    OBVIOUS
  <1> USE VectorStoreAssumption
      DEF StoreInv, MemoryWhole, FilesWhole, IndexFirst, MappingNeedsIndex, memory, files, history
  <1>1. CASE InitVectorStore
    <2>1. Loaded(indexFile) \in Seq(Events) /\ Loaded(mapFile) \in Seq(Events)
      BY LoadedType DEF TypeOK
    <2> QED BY <1>1, <2>1, NamesEmpty DEF InitVectorStore, TypeOK
  <1>2. ASSUME NEW e \in Events, AddVector(e)
        PROVE  StoreInv'
    BY <1>2, NamesAppend DEF AddVector, TypeOK
  <1>3. CASE WriteIndex
    BY <1>3, LoadedSaved DEF WriteIndex, TypeOK, File
  <1>4. CASE WriteMap
    BY <1>4, LoadedSaved DEF WriteMap, TypeOK, File
  <1>5. CASE SaveFails
    BY <1>5 DEF SaveFails, Fault, CutShort, TypeOK, File
  <1>6. CASE Crash
    <2>1. TypeOK' /\ IndexFirst' /\ MappingNeedsIndex' /\ MemoryWhole'
      BY <1>6, NamesEmpty DEF Crash, Fault, CutShort, TypeOK, File
    <2>2. CASE phase = "ready"
      <3>1. UNCHANGED <<files, badStart, added>> /\ (interrupted => interrupted')
        BY <1>6, <2>2 DEF Crash, CutShort
      <3> QED BY <1>6, <2>1, <2>2, <3>1 DEF Crash
    <2>3. CASE phase \in {"index", "map"}
      BY <1>6, <2>1, <2>3 DEF Crash
    <2> QED BY <1>6, <2>1, <2>2, <2>3 DEF Crash, TypeOK
  <1>7. CASE UNCHANGED vars
    BY <1>7 DEF vars, TypeOK
  <1> QED BY <1>1, <1>2, <1>3, <1>4, <1>5, <1>6, <1>7 DEF Next

\* TypeOK is an invariant of VectorStore, for all values of its constants.
THEOREM VectorStoreTypeCorrect == Spec => []TypeOK
  <1>1. StoreInv => TypeOK
    BY DEF StoreInv
  <1> QED BY <1>1, StoreInvInit, StoreInvNext, PTL DEF Spec

\* Names are never mixed up unless the store was loaded after an interrupted save.
THEOREM Named == Spec => []NamedUnlessBadStart
  <1>1. StoreInv => NamedUnlessBadStart
    BY DEF StoreInv, MemoryWhole, NamedUnlessBadStart
  <1> QED BY <1>1, StoreInvInit, StoreInvNext, PTL DEF Spec

\* Nothing that was added is lost unless the store was loaded after an interrupted save.
THEOREM Found == Spec => []FoundUnlessBadStart
  <1>1. StoreInv => FoundUnlessBadStart
    BY DEF StoreInv, MemoryWhole, FoundUnlessBadStart
  <1> QED BY <1>1, StoreInvInit, StoreInvNext, PTL DEF Spec

\* However saves fail and the process ends, there is no mapping without an index.
THEOREM IndexBeforeMapping == Spec => []MappingNeedsIndex
  <1>1. StoreInv => MappingNeedsIndex
    BY DEF StoreInv
  <1> QED BY <1>1, StoreInvInit, StoreInvNext, PTL DEF Spec

=============================================================================
