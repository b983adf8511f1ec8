------------------------------ MODULE EventPersist ------------------------------
(***************************************************************************)
(* The event log that is kept in memory and written to a file from time to *)
(* time (EventStore in packages/core/src/analytics/persist.rs).            *)
(*                                                                         *)
(* flush_to_disk opens the file, which empties it, then takes the read     *)
(* lock and writes one line per event.  Nothing keeps two flushes apart,   *)
(* a write may fail, and the process may end at any moment.  What a write  *)
(* call has written stays written.  Loading may fail as well: a file that  *)
(* cannot be opened gives an empty memory, and a read error ends the load. *)
(***************************************************************************)
EXTENDS Integers, Sequences, FiniteSets, Selections

CONSTANTS
  Flushers,    \* threads that call flush_to_disk
  MaxEvents    \* bound: events recorded over all

ASSUME PersistAssumption == MaxEvents \in Nat

VARIABLES
  up,          \* whether the process runs
  events,      \* its vector of events; events are numbered as they are recorded
  recorded,    \* history: the number of the latest event
  file,        \* the contents of the file, see Cell
  offset,      \* offset[f]: cells that flusher f has passed, or None
  saving,      \* history: the events at the latest truncation of the file
  intact,      \* history: no flush has failed or been cut off since ...
  alone,       \* history: ... and none has overlapped with another
  complete     \* history: the latest load kept every line of the file, or the file
               \* has been truncated since

vars == <<up, events, recorded, file, offset, saving, intact, alone, complete>>

None == -1
Cut(kind) == [cell |-> kind, event |-> 0]

\* A line is two cells, as writeln! writes them: the text of an event, and the
\* line feed.  A text that was written in part is "torn", or "garbled" if the
\* part ends within a character; what lies between the end of a file and the
\* offset of a write is a "hole" of NUL bytes.
Cell ==
  [cell : {"text"}, event : 1 .. MaxEvents] \cup
  {Cut(kind) : kind \in {"feed", "torn", "garbled", "hole"}}

Text(event) == [cell |-> "text", event |-> event]

\* Mutant: the file is opened in append mode.
WriteAtEnd(contents, at, cell) == Append(contents, cell)

\* A write that begins at the cell `at'.  A part of a text that is there already
\* changes nothing.
WriteAt(contents, at, cell) ==
  [i \in 1 .. (IF at > Len(contents) THEN at ELSE Len(contents)) |->
     IF i < at \/ i > at
       THEN IF i > Len(contents) THEN Cut("hole") ELSE contents[i]
     ELSE IF cell.cell \in {"torn", "garbled"} /\ i <= Len(contents) /\ contents[i].cell = "text"
       THEN contents[i]
     ELSE cell]

\* The line that the text at i is all of.
IsLine(contents, i) ==
  /\ contents[i].cell = "text"
  /\ i = 1 \/ contents[i - 1].cell = "feed"
  /\ i = Len(contents) \/ contents[i + 1].cell = "feed"

\* The lines that a load without errors keeps: reading ends at the first line that
\* is not UTF-8, and lines that are no events are skipped.
Lines(contents) ==
  {i \in 1 .. Len(contents) :
     IsLine(contents, i) /\ \A j \in 1 .. i : contents[j].cell # "garbled"}

\* The events of the lines up to a position, where a read error ends the load.
LoadedUpTo(contents, read) ==
  Selection([i \in 1 .. Len(contents) |-> contents[i].event],
            {i \in Lines(contents) : i <= read})

Loaded(contents) == LoadedUpTo(contents, Len(contents))

-----------------------------------------------------------------------------

Idle(f) == offset[f] = None
Flushing == {f \in Flushers : ~Idle(f)}

\* The read lock is held from the first event to the last.
Locked == \E f \in Flushers : offset[f] > 0

\* The first start: there is no file, or an empty one.
Init ==
  /\ up = TRUE
  /\ events = <<>>
  /\ recorded = 0
  /\ file = <<>>
  /\ offset = [f \in Flushers |-> None]
  /\ saving = <<>>
  /\ intact = TRUE
  /\ alone = TRUE
  /\ complete = TRUE

Record ==
  /\ up
  /\ ~Locked
  /\ recorded < MaxEvents
  /\ recorded' = recorded + 1
  /\ events' = Append(events, recorded + 1)
  /\ UNCHANGED <<up, file, offset, saving, intact, alone, complete>>

\* A file that cannot be opened leaves everything as it is, and needs no step.
Open(f) ==
  /\ up
  /\ Idle(f)
  /\ file' = <<>>
  /\ offset' = [offset EXCEPT ![f] = 0]
  /\ saving' = events
  /\ intact' = (Flushing = {} \/ intact)
  /\ alone' = (Flushing = {})
  /\ complete' = TRUE
  /\ UNCHANGED <<up, events, recorded>>

\* Mutant: the latest event first.
NextCellLatest(f) ==
  IF offset[f] % 2 = 0 THEN Text(events[Len(events) - offset[f] \div 2]) ELSE Cut("feed")

NextCell(f) ==
  IF offset[f] % 2 = 0 THEN Text(events[offset[f] \div 2 + 1]) ELSE Cut("feed")

\* Mutant: write! instead of writeln!.
WriteNoFeeds(f) ==
  /\ offset[f] \in 0 .. 2 * Len(events) - 1
  /\ file' = WriteAt(file, offset[f] \div 2 + 1, Text(events[offset[f] \div 2 + 1]))
  /\ offset' = [offset EXCEPT ![f] = @ + 2]
  /\ UNCHANGED <<up, events, recorded, saving, intact, alone, complete>>

Write(f) ==
  /\ offset[f] \in 0 .. 2 * Len(events) - 1
  /\ file' = WriteAt(file, offset[f] + 1, NextCell(f))
  /\ offset' = [offset EXCEPT ![f] = @ + 1]
  /\ UNCHANGED <<up, events, recorded, saving, intact, alone, complete>>

\* A write that fails, perhaps after a part: flush_to_disk returns the error.
WriteFails(f) ==
  /\ offset[f] \in 0 .. 2 * Len(events) - 1
  /\ \/ UNCHANGED file
     \/ /\ offset[f] % 2 = 0
        /\ \E part \in {"torn", "garbled"} :
             file' = WriteAt(file, offset[f] + 1, Cut(part))
  /\ offset' = [offset EXCEPT ![f] = None]
  /\ intact' = FALSE
  /\ UNCHANGED <<up, events, recorded, saving, alone, complete>>

\* Mutant: the last event is left for the next flush.
FinishEarly(f) ==
  /\ offset[f] >= 2 * Len(events) - 2
  /\ offset' = [offset EXCEPT ![f] = None]
  /\ UNCHANGED <<up, events, recorded, file, saving, intact, alone, complete>>

Finish(f) ==
  /\ offset[f] = 2 * Len(events)
  /\ offset' = [offset EXCEPT ![f] = None]
  /\ UNCHANGED <<up, events, recorded, file, saving, intact, alone, complete>>

\* The process ends, perhaps within a write.
Crash ==
  /\ up
  /\ up' = FALSE
  /\ \/ UNCHANGED file
     \/ \E f \in Flushers, part \in {"torn", "garbled"} :
          /\ offset[f] \in 0 .. 2 * Len(events) - 1
          /\ offset[f] % 2 = 0
          /\ file' = WriteAt(file, offset[f] + 1, Cut(part))
  /\ events' = <<>>
  /\ offset' = [f \in Flushers |-> None]
  /\ intact' = (intact /\ Flushing = {})
  /\ UNCHANGED <<recorded, saving, alone, complete>>

\* load_default, load_from_path.  Nothing is read of a file that cannot be opened,
\* and reading may end at any line with an error; the process runs all the same.
Restart ==
  /\ ~up
  /\ up' = TRUE
  /\ \E read \in 0 .. Len(file) : events' = LoadedUpTo(file, read)
  /\ complete' = (events' = Loaded(file))
  /\ UNCHANGED <<recorded, file, offset, saving, intact, alone>>

FlushStep(f) == Open(f) \/ Write(f) \/ WriteFails(f) \/ Finish(f)

Next ==
  \/ Record
  \/ \E f \in Flushers : FlushStep(f)
  \/ Crash
  \/ Restart

Spec == Init /\ [][Next]_vars

-----------------------------------------------------------------------------
(* Properties *)

\* Type invariant: texts and line feeds alternate, and no flush runs beyond the
\* events or outlives the process.
TypeOK ==
  /\ up \in BOOLEAN
  /\ recorded \in 0 .. MaxEvents
  /\ events \in Seq(1 .. recorded)
  /\ saving \in Seq(1 .. recorded)
  /\ file \in Seq(Cell)
  /\ \A i \in DOMAIN file : file[i].cell \in (IF i % 2 = 0 THEN {"feed", "hole"}
                                                ELSE {"text", "torn", "garbled", "hole"})
  /\ offset \in [Flushers -> {None} \cup 0 .. 2 * Len(events)]
  /\ ~up => events = <<>> /\ Flushing = {}
  /\ intact \in BOOLEAN
  /\ alone \in BOOLEAN
  /\ complete \in BOOLEAN

Precedes(s, t) == Len(s) <= Len(t) /\ s = SubSeq(t, 1, Len(s))

\* However often flushes overlap, fail or are cut off, and the process starts
\* again from what it can read of what they left, the memory holds events that
\* were recorded, each once and in the order of recording.
EventsInOrder ==
  \A i, j \in 1 .. Len(events) : i < j => events[i] < events[j]

\* When no flush is under way and none failed or was cut off since the file was
\* truncated, the file holds all events of the latest truncation: overlapping
\* flushes empty the file under each other, but the last one makes it whole,
\* and it stays so through crashes and starts, until the next flush.
FinishedFlushesSurvive ==
  Flushing = {} /\ intact => Precedes(saving, Loaded(file))

\* A flush that fails or is cut off, with no other beside it, costs the file the
\* latest of the events it had to save and none from the middle.  Nor does the
\* file hold what the memory lacks, unless the load had an error: after a load
\* that failed or was cut short the memory is short of lines of the file, and the
\* next flush loses these, because it truncates the file.
OnlyATailIsLost ==
  alone =>
    /\ up /\ complete => Precedes(Loaded(file), events)
    /\ Precedes(Loaded(file), saving) \/ Precedes(saving, Loaded(file))
=============================================================================
