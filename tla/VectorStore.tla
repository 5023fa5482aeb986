---------------------------- MODULE VectorStore ----------------------------
(***************************************************************************)
(* The FAISS store: an index of vectors that knows positions only, the     *)
(* mapping from positions to event ids, and the two files they are saved   *)
(* in, one after the other, on every addition.  An addition and its two    *)
(* saves are one synchronous stretch: only a failing write or the end of   *)
(* the process falls between them.                                         *)
(*                                                                         *)
(* A vector is named by the event whose text it embeds.  Left out are      *)
(* vectors of the wrong dimension, which are rejected before anything      *)
(* changes, an index file of another dimension, and remove, which changes  *)
(* nothing.                                                                *)
(***************************************************************************)
EXTENDS Naturals, Sequences

CONSTANTS
    Events,     \* event ids
    Missing,    \* a file that does not exist
    Unreadable, \* a file that was cut short while it was written
    MaxFaults   \* bound on the writes that fail and the crashes

ASSUME VectorStoreAssumption ==
    /\ {Missing, Unreadable} \intersect Seq(Events) = {}
    /\ Missing # Unreadable
    /\ MaxFaults \in Nat

VARIABLES
    index,          \* index[i]: the event embedded by the vector at position i
    ids,            \* ids[i]: the name the mapping has for position i
    phase,          \* "down", "ready", or the file that addVector is writing
    indexFile,      \* the saved index
    mapFile,        \* the saved mapping
    added,          \* the events whose addVector has begun
    interrupted,    \* the last save wrote only one of the files, or part of one
    badStart,       \* the store was loaded after an interrupted save
    faults          \* failures and crashes so far

memory == <<index, ids>>
files == <<indexFile, mapFile>>
history == <<added, interrupted, badStart, faults>>
vars == <<memory, phase, files, history>>

Names(s) == {s[i] : i \in 1..Len(s)}

Init ==
    /\ index = <<>>
    /\ ids = <<>>
    /\ phase = "down"
    /\ indexFile = Missing
    /\ mapFile = Missing
    /\ added = {}
    /\ interrupted = FALSE
    /\ badStart = FALSE
    /\ faults = 0

-----------------------------------------------------------------------------
\* Mutant of Loaded: a file that cannot be read is not caught.
LoadedUncaught(file) == IF file = Missing THEN <<>> ELSE file

\* What a file that is not there or cannot be read counts as.
Loaded(file) == IF file \in {Missing, Unreadable} THEN <<>> ELSE file

\* initVectorStore: an index that cannot be read also empties the mapping, one
\* that does not exist leaves it.
InitVectorStore ==
    /\ phase = "down"
    /\ phase' = "ready"
    /\ index' = Loaded(indexFile)
    /\ ids' = IF indexFile = Unreadable THEN <<>> ELSE Loaded(mapFile)
    /\ badStart' = (badStart \/ interrupted)
    /\ UNCHANGED <<files, added, interrupted, faults>>

\* addVector, called once for each event, adds to the index and to the mapping
\* and saves both.
AddVector(e) ==
    /\ phase = "ready"
    /\ e \notin added
    /\ added' = added \union {e}
    /\ index' = Append(index, e)
    /\ ids' = Append(ids, e)
    /\ phase' = "index"
    /\ UNCHANGED <<files, interrupted, badStart, faults>>

\* Mutant of WriteIndex: an index file that is there is not written again.
WriteIndexOnce ==
    /\ phase = "index"
    /\ indexFile' = IF indexFile = Missing THEN index ELSE indexFile
    /\ phase' = "map"
    /\ UNCHANGED <<memory, mapFile, history>>

WriteIndex ==
    /\ phase = "index"
    /\ indexFile' = index
    /\ phase' = "map"
    /\ UNCHANGED <<memory, mapFile, history>>

\* Mutant of WriteMap: the mapping is only saved for the first vector.
WriteMapOnce ==
    /\ phase = "map"
    /\ mapFile' = IF mapFile = Missing THEN ids ELSE mapFile
    /\ phase' = "ready"
    /\ interrupted' = FALSE
    /\ UNCHANGED <<memory, indexFile, added, badStart, faults>>

WriteMap ==
    /\ phase = "map"
    /\ mapFile' = ids
    /\ phase' = "ready"
    /\ interrupted' = FALSE
    /\ UNCHANGED <<memory, indexFile, added, badStart, faults>>

Fault ==
    /\ faults < MaxFaults
    /\ faults' = faults + 1

\* The file being written is left as it was or cut short.
CutShort ==
    /\ indexFile' \in IF phase = "index" THEN {indexFile, Unreadable} ELSE {indexFile}
    /\ mapFile' \in IF phase = "map" THEN {mapFile, Unreadable} ELSE {mapFile}

\* Mutant of SaveFails: the mapping is written although writing the index failed.
SaveFailsMapWritten ==
    /\ phase \in {"index", "map"}
    /\ Fault
    /\ indexFile' = indexFile
    /\ mapFile' = ids
    /\ phase' = "ready"
    /\ interrupted' = TRUE
    /\ UNCHANGED <<memory, added, badStart>>

\* A write throws: saveIndex logs it and skips the rest.
SaveFails ==
    /\ phase \in {"index", "map"}
    /\ Fault
    /\ CutShort
    /\ phase' = "ready"
    /\ interrupted' = TRUE
    /\ UNCHANGED <<memory, added, badStart>>

\* The process ends, at any point.
Crash ==
    /\ phase # "down"
    /\ Fault
    /\ CutShort
    /\ phase' = "down"
    /\ index' = <<>>
    /\ ids' = <<>>
    /\ interrupted' = (interrupted \/ phase \in {"index", "map"})
    /\ UNCHANGED <<added, badStart>>

-----------------------------------------------------------------------------
Next ==
    \/ InitVectorStore
    \/ \E e \in Events : AddVector(e)
    \/ WriteIndex
    \/ WriteMap
    \/ SaveFails
    \/ Crash

Spec == Init /\ [][Next]_vars

-----------------------------------------------------------------------------
(* Properties. *)

File == Seq(Events) \union {Missing, Unreadable}

TypeOK ==
    /\ index \in Seq(Events)
    /\ ids \in Seq(Events)
    /\ phase \in {"down", "ready", "index", "map"}
    /\ indexFile \in File
    /\ mapFile \in File
    /\ added \subseteq Events
    /\ interrupted \in BOOLEAN
    /\ badStart \in BOOLEAN
    /\ faults \in Nat

\* "Maps FAISS internal ID (index) to our string ID" (vector/faiss.ts:21): search
\* reports every vector under the name of its event, in a process that was not
\* started on the files of an interrupted save.  Failing writes alone, however many,
\* and crashes outside a save never mix names up; an interrupted save does.
NamedUnlessBadStart == ~badStart => ids = index

\* Such a process finds every event that was ever added, over any number of
\* restarts, also when earlier saves failed and later ones made good for them.
FoundUnlessBadStart ==
    ~badStart /\ phase # "down" => Names(index) = added

\* A mapping without an index would name the vectors of a fresh index after old
\* events, which initVectorStore does not guard against: it never arises.
MappingNeedsIndex == indexFile = Missing => mapFile = Missing

=============================================================================
