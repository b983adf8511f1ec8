--------------------------- MODULE EventPersistProofs ---------------------------
(***************************************************************************)
(* What flushes, failed writes and crashes leave of the event log, for any *)
(* number of flushers and events.                                          *)
(***************************************************************************)
EXTENDS EventPersist, FiniteSetTheorems, FunctionTheorems, SequenceTheorems, TLAPS

\* Line n begins at cell 2n - 1.
LineAt(n) == 2 * n - 1

IsText(i) == i \in 1 .. Len(file) /\ file[i].cell = "text"

\* Only events that were recorded are written, and the texts of a file have the
\* order of recording.
TextsInOrder ==
  /\ \A i \in 1 .. Len(file) : IsText(i) => file[i].event \in 1 .. recorded
  /\ \A i, j \in 1 .. Len(file) : i < j /\ IsText(i) /\ IsText(j) => file[i].event < file[j].event

\* While a flush is under way, the file holds nothing but lines of the memory,
\* and the memory still begins with what it held when the file was truncated.
FlushedFromMemory ==
  Flushing # {} =>
    /\ \A n \in Nat \ {0} :
         IsText(LineAt(n)) => n <= Len(events) /\ file[LineAt(n)].event = events[n]
    /\ Len(saving) <= Len(events) /\ \A n \in 1 .. Len(saving) : saving[n] = events[n]

\* The first m cells are as they should be.
Whole(m) ==
  /\ m <= Len(file)
  /\ \A i \in 1 .. m : file[i].cell = IF i % 2 = 1 THEN "text" ELSE "feed"

OrderInv == TypeOK /\ TextsInOrder /\ FlushedFromMemory /\ EventsInOrder

\* A flusher that writes what the latest truncation has to save is under way, or
\* all of it has been written; when nobody writes any more, it is in the file.
SavedInv ==
  intact =>
    /\ Flushing # {} =>
         \E m \in Nat : Whole(m) /\ (m >= 2 * Len(saving) \/ \E f \in Flushing : offset[f] <= m)
    /\ Flushing = {} =>
         Whole(2 * Len(saving)) /\ \A n \in 1 .. Len(saving) : file[LineAt(n)].event = saving[n]

\* The file is whole up to a cell m, and after it at most torn.
EndsAt(m) ==
  /\ Whole(m)
  /\ \/ Len(file) = m
     \/ Len(file) = m + 1 /\ m % 2 = 0 /\ file[m + 1].cell \in {"torn", "garbled"}

\* The texts that a lone flush leaves are the first of what it had to save.
TextsMatch ==
  \A n \in Nat \ {0} : IsText(LineAt(n)) =>
    /\ n <= Len(saving) => file[LineAt(n)].event = saving[n]
    /\ up /\ complete => n <= Len(events) /\ file[LineAt(n)].event = events[n]

\* Lone flushes leave the file whole up to where they came.
TailInv ==
  alone =>
    /\ \A f, g \in Flushing : f = g
    /\ \E m \in Nat : EndsAt(m) /\ \A f \in Flushing : offset[f] = m /\ Len(file) = m
    /\ TextsMatch


-----------------------------------------------------------------------------
(* Selections *)

\* Places count the members of a set of positions, in their order.
LEMMA PlaceIsMonotone ==
  ASSUME NEW I, IsFiniteSet(I), I \subseteq Nat
  PROVE  /\ Cardinality(I) \in Nat
         /\ \A i \in I : Place(I, i) \in 1 .. Cardinality(I)
         /\ \A i, k \in I : i < k => Place(I, i) < Place(I, k)
<1> DEFINE upTo(i) == {j \in I : j <= i}
<1>1. Cardinality(I) \in Nat
  BY FS_CardinalityType
<1>2. ASSUME NEW i \in I
      PROVE  /\ IsFiniteSet(upTo(i)) /\ i \in upTo(i)
             /\ Cardinality(upTo(i)) \in Nat \ {0} /\ Cardinality(upTo(i)) <= Cardinality(I)
  <2>1. upTo(i) \subseteq I /\ i \in upTo(i)
    OBVIOUS
  <2>2. IsFiniteSet(upTo(i)) /\ Cardinality(upTo(i)) <= Cardinality(I)
    BY <2>1, FS_Subset
  <2>3. Cardinality(upTo(i)) \in Nat /\ Cardinality(upTo(i)) # 0
    BY <2>1, <2>2, FS_CardinalityType, FS_EmptySet
  <2> QED
    BY <2>1, <2>2, <2>3
<1>3. ASSUME NEW i \in I, NEW k \in I, i < k
      PROVE  Cardinality(upTo(i)) < Cardinality(upTo(k))
  <2>1. upTo(i) \subseteq upTo(k) /\ k \in upTo(k) /\ k \notin upTo(i)
    <3>1. \A j \in I : j <= i => j <= k
      BY <1>3
    <3>2. ~(k <= i) /\ k <= k
      BY <1>3
    <3> QED
      BY <3>1, <3>2
  <2>2. Cardinality(upTo(i)) <= Cardinality(upTo(k)) /\ Cardinality(upTo(i)) # Cardinality(upTo(k))
    BY <1>2, <2>1, FS_Subset
  <2> QED
    BY <1>2, <2>2
<1>4. \A i : Place(I, i) = Cardinality(upTo(i))
  BY DEF Place
<1> HIDE DEF upTo
<1> QED
  BY <1>1, <1>2, <1>3, <1>4

\* Nth is the inverse of Place: every place up to the number of members is taken,
\* because no two members share one.
LEMMA NthProperties ==
  ASSUME NEW I, IsFiniteSet(I), I \subseteq Nat
  PROVE  /\ \A n \in 1 .. Cardinality(I) : Nth(I, n) \in I /\ Place(I, Nth(I, n)) = n
         /\ \A i \in I : Nth(I, Place(I, i)) = i
         /\ \A m, n \in 1 .. Cardinality(I) : m < n => Nth(I, m) < Nth(I, n)
<1> DEFINE f == [i \in I |-> Place(I, i)]
           T == 1 .. Cardinality(I)
<1>1. /\ Cardinality(I) \in Nat
      /\ \A i \in I : Place(I, i) \in T
      /\ \A i, k \in I : i < k => Place(I, i) < Place(I, k)
  BY PlaceIsMonotone
<1>2. \A i, k \in I : Place(I, i) = Place(I, k) => i = k
  BY <1>1
<1>3. IsFiniteSet(T) /\ Cardinality(T) = Cardinality(I)
  BY <1>1, FS_Interval
<1>4. f \in [I -> T] /\ \A i, k \in I : f[i] = f[k] => i = k
  BY <1>1, <1>2
<1> HIDE DEF T
<1>5. f \in Surjection(I, T)
  <2>1. f \in Injection(I, T)
    BY <1>4, Fun_IsInj
  <2> HIDE DEF f
  <2> QED
    BY <1>3, <2>1, FS_Injection
<1>6. \A n \in T : \E i \in I : Place(I, i) = n
  BY <1>5 DEF Surjection
<1>7. \A n \in T : Nth(I, n) \in I /\ Place(I, Nth(I, n)) = n
  BY <1>6 DEF Nth
<1>8. \A i \in I : Nth(I, Place(I, i)) = i
  BY <1>1, <1>2, <1>7
<1>9. ASSUME NEW m \in T, NEW n \in T, m < n PROVE Nth(I, m) < Nth(I, n)
  <2> DEFINE a == Nth(I, m)
             b == Nth(I, n)
  <2>1. a \in I /\ b \in I /\ a \in Nat /\ b \in Nat /\ Place(I, a) = m /\ Place(I, b) = n
    BY <1>7
  <2>2. m \in Nat /\ n \in Nat
    BY <1>1 DEF T
  <2> HIDE DEF a, b
  <2>3. ~(b < a) /\ b # a
    BY <1>1, <1>9, <2>1, <2>2
  <2>4. a < b
    BY <2>1, <2>3
  <2> QED
    BY <2>4 DEF a, b
<1> QED
  BY <1>7, <1>8, <1>9 DEF T

-----------------------------------------------------------------------------
(* Loading *)

LEMMA FunctionIsSeq ==
  ASSUME NEW S, NEW n \in Nat, NEW f \in [1 .. n -> S]
  PROVE  f \in Seq(S) /\ Len(f) = n
<1>1. f \in Seq(S)
  BY SeqDef
<1>2. DOMAIN f = 1 .. Len(f) /\ Len(f) \in Nat /\ DOMAIN f = 1 .. n
  BY <1>1, LenProperties
<1> QED
  BY <1>1, <1>2

\* The lines of the file up to a position, where a read error ends the load.
LinesUpTo(read) == {i \in Lines(file) : i <= read}

\* What is loaded are the texts of lines, from the first to the last that is read.
LEMMA LoadedUpToProperties ==
  ASSUME NEW S, NEW read, file \in Seq(Cell),
         \A i \in 1 .. Len(file) : IsText(i) => file[i].event \in S
  PROVE  /\ IsFiniteSet(LinesUpTo(read)) /\ LinesUpTo(read) \subseteq 1 .. Len(file)
         /\ LinesUpTo(read) \subseteq Nat /\ \A i \in LinesUpTo(read) : IsText(i)
         /\ LoadedUpTo(file, read) \in Seq(S) /\ Len(LoadedUpTo(file, read)) \in Nat
         /\ Len(LoadedUpTo(file, read)) = Cardinality(LinesUpTo(read))
         /\ \A n \in 1 .. Len(LoadedUpTo(file, read)) :
              /\ Nth(LinesUpTo(read), n) \in LinesUpTo(read)
              /\ LoadedUpTo(file, read)[n] = file[Nth(LinesUpTo(read), n)].event
<1> DEFINE I == LinesUpTo(read)
           loaded == LoadedUpTo(file, read)
<1>1. Len(file) \in Nat
  BY LenProperties
<1>2. I \subseteq 1 .. Len(file) /\ \A i \in I : IsText(i)
  BY DEF LinesUpTo, Lines, IsLine, IsText
<1>3. IsFiniteSet(I) /\ I \subseteq Nat /\ Cardinality(I) \in Nat
  <2>1. IsFiniteSet(1 .. Len(file)) /\ 1 .. Len(file) \subseteq Nat
    BY <1>1, FS_Interval
  <2>2. IsFiniteSet(I)
    BY <1>2, <2>1, FS_Subset
  <2> QED
    BY <1>2, <2>1, <2>2, FS_CardinalityType
<1>4. \A n \in 1 .. Cardinality(I) : Nth(I, n) \in I
  BY <1>3, NthProperties
<1>5. loaded = [n \in 1 .. Cardinality(I) |-> [i \in 1 .. Len(file) |-> file[i].event][Nth(I, n)]]
  BY DEF LoadedUpTo, Selection, LinesUpTo
<1> HIDE DEF I, loaded
<1>6. \A n \in 1 .. Cardinality(I) : loaded[n] = file[Nth(I, n)].event /\ file[Nth(I, n)].event \in S
  BY <1>2, <1>4, <1>5
<1>7. loaded \in [1 .. Cardinality(I) -> S]
  BY <1>5, <1>6
<1>8. loaded \in Seq(S) /\ Len(loaded) = Cardinality(I)
  BY <1>3, <1>7, FunctionIsSeq
<1> QED
  BY <1>2, <1>3, <1>4, <1>6, <1>8 DEF I, loaded

\* A load without errors reads all lines.
LEMMA LoadedProperties ==
  ASSUME NEW S, file \in Seq(Cell), \A i \in 1 .. Len(file) : IsText(i) => file[i].event \in S
  PROVE  /\ IsFiniteSet(Lines(file)) /\ Lines(file) \subseteq 1 .. Len(file) /\ Lines(file) \subseteq Nat
         /\ \A i \in Lines(file) : IsText(i)
         /\ Loaded(file) \in Seq(S) /\ Len(Loaded(file)) = Cardinality(Lines(file))
         /\ Len(Loaded(file)) \in Nat
         /\ \A n \in 1 .. Len(Loaded(file)) :
              /\ Nth(Lines(file), n) \in Lines(file)
              /\ Loaded(file)[n] = file[Nth(Lines(file), n)].event
<1> DEFINE read == Len(file)
<1>1. LinesUpTo(read) = Lines(file)
  BY LenProperties DEF LinesUpTo, Lines
<1>2. Loaded(file) = LoadedUpTo(file, read)
  BY DEF Loaded
<1> HIDE DEF read
<1> QED
  BY <1>1, <1>2, LoadedUpToProperties

\* The texts of a file that is whole so far are loaded first.
LEMMA LoadedStarts ==
  ASSUME TypeOK, NEW n \in Nat, \A l \in 1 .. n : LineAt(l) \in Lines(file)
  PROVE  /\ n <= Len(Loaded(file))
         /\ \A l \in 1 .. n : Loaded(file)[l] = file[LineAt(l)].event
         /\ (\A i \in Lines(file) : i <= LineAt(n)) => Len(Loaded(file)) = n
<1> DEFINE I == Lines(file)
<1>1. /\ IsFiniteSet(I) /\ I \subseteq Nat /\ Cardinality(I) \in Nat
      /\ Len(Loaded(file)) = Cardinality(I)
      /\ \A l \in 1 .. Cardinality(I) : Loaded(file)[l] = file[Nth(I, l)].event
      /\ \A i \in I : i \in 1 .. Len(file) /\ file[i].cell = "text"
  <2>1. \A i \in 1 .. Len(file) : IsText(i) => file[i].event \in {file[j].event : j \in 1 .. Len(file)}
    OBVIOUS
  <2>2. file \in Seq(Cell)
    BY DEF TypeOK
  <2> QED
    BY <2>1, <2>2, LoadedProperties DEF IsText
<1>2. ASSUME NEW i \in I PROVE \E l \in Nat \ {0} : i = LineAt(l)
  <2>1. i % 2 # 0 /\ i \in Nat
    <3>1. i \in DOMAIN file /\ file[i].cell = "text"
      BY <1>1, LenProperties DEF TypeOK
    <3> QED
      BY <1>1, <3>1 DEF TypeOK
  <2>2. \E k \in Nat : i = 2 * k + 1
    BY <2>1
  <2>3. PICK k \in Nat : i = 2 * k + 1
    BY <2>2
  <2>4. k + 1 \in Nat \ {0} /\ i = LineAt(k + 1)
    BY <2>3 DEF LineAt
  <2> QED
    BY <2>4
<1> HIDE DEF I
<1>3. ASSUME NEW l \in 1 .. n PROVE Place(I, LineAt(l)) = l
  <2> DEFINE J == {j \in I : j <= LineAt(l)}
             f == [k \in 1 .. l |-> LineAt(k)]
  <2>1. \A k \in 1 .. l : LineAt(k) \in J
    <3>1. \A k \in 1 .. l : k \in 1 .. n /\ LineAt(k) <= LineAt(l)
      BY DEF LineAt
    <3> QED
      BY <3>1 DEF I
  <2>2. ASSUME NEW j \in J PROVE \E k \in 1 .. l : j = LineAt(k)
    <3>1. PICK k \in Nat \ {0} : j = LineAt(k)
      BY <1>2
    <3>2. k <= l
      BY <3>1 DEF LineAt
    <3> QED
      BY <3>1, <3>2
  <2>3. f \in [1 .. l -> J]
    BY <2>1
  <2>4. \A k, m \in 1 .. l : f[k] = f[m] => k = m
    BY DEF LineAt
  <2>5. \A j \in J : \E k \in 1 .. l : f[k] = j
    BY <2>2
  <2> HIDE DEF J, f
  <2>6. f \in Injection(1 .. l, J) /\ f \in Surjection(1 .. l, J)
    BY <2>3, <2>4, <2>5, Fun_IsInj, Fun_IsSurj
  <2>7. IsFiniteSet(1 .. l) /\ Cardinality(1 .. l) = l
    BY FS_Interval
  <2>8. Cardinality(J) = Cardinality(1 .. l)
    BY <2>6, <2>7, FS_Surjection
  <2> QED
    BY <2>7, <2>8 DEF Place, J
<1>4. ASSUME NEW l \in 1 .. n
      PROVE  l \in 1 .. Cardinality(I) /\ Nth(I, l) = LineAt(l)
  <2>1. LineAt(l) \in I /\ Place(I, LineAt(l)) = l
    BY <1>3 DEF I
  <2>2. \A i \in I : Place(I, i) \in 1 .. Cardinality(I)
    BY <1>1, PlaceIsMonotone
  <2>3. \A i \in I : Nth(I, Place(I, i)) = i
    BY <1>1, NthProperties
  <2> QED
    BY <2>1, <2>2, <2>3
<1>5. n <= Cardinality(I)
  <2>1. CASE n = 0
    BY <1>1, <2>1
  <2>2. CASE n # 0
    BY <1>1, <1>4, <2>2
  <2> QED
    BY <2>1, <2>2
<1>6. ASSUME \A i \in I : i <= LineAt(n) PROVE Cardinality(I) = n
  <2>1. CASE n = 0
    <3>1. I = {}
      BY <1>2, <1>6, <2>1 DEF LineAt
    <3> QED
      BY <2>1, <3>1, FS_EmptySet
  <2>2. CASE n # 0
    <3>1. {j \in I : j <= LineAt(n)} = I
      BY <1>6
    <3> QED
      BY <1>3, <2>2, <3>1 DEF Place
  <2> QED
    BY <2>1, <2>2
<1> QED
  BY <1>1, <1>4, <1>5, <1>6 DEF I

-----------------------------------------------------------------------------
(* Writing *)

\* A part of a text that is there already.
Keeps(at, cell) ==
  cell.cell \in {"torn", "garbled"} /\ at <= Len(file) /\ file[at].cell = "text"

\* A write changes one cell, and fills what lies between the end of the file and
\* that cell with holes.
LEMMA WrittenFile ==
  ASSUME file \in Seq(Cell), NEW at \in Nat \ {0}, NEW cell \in Cell, file' = WriteAt(file, at, cell)
  PROVE  /\ file' \in Seq(Cell) /\ Len(file) \in Nat /\ Len(file') \in Nat
         /\ Len(file') = IF at > Len(file) THEN at ELSE Len(file)
         /\ \A i \in 1 .. Len(file) : i # at => file'[i] = file[i]
         /\ \A i \in Len(file) + 1 .. Len(file') : i # at => file'[i] = Cut("hole")
         /\ file'[at] = IF Keeps(at, cell) THEN file[at] ELSE cell
<1> DEFINE len == IF at > Len(file) THEN at ELSE Len(file)
           c(i) == IF i < at \/ i > at
                     THEN IF i > Len(file) THEN Cut("hole") ELSE file[i]
                   ELSE IF /\ cell.cell \in {"torn", "garbled"} /\ i <= Len(file)
                           /\ file[i].cell = "text"
                     THEN file[i]
                   ELSE cell
           f == [i \in 1 .. len |-> c(i)]
<1>1. Len(file) \in Nat /\ len \in Nat /\ at \in 1 .. len /\ Len(file) <= len
  BY LenProperties
<1>2. file' = f
  BY DEF WriteAt
<1>3. Cut("hole") \in Cell
  BY DEF Cell
<1>4. ASSUME NEW i \in 1 .. len
      PROVE  /\ c(i) \in Cell
             /\ i # at => c(i) = IF i > Len(file) THEN Cut("hole") ELSE file[i]
  <2>1. i <= Len(file) => file[i] \in Cell
    BY <1>1, ElementOfSeq
  <2>2. i \in Nat /\ (i # at => i < at \/ i > at)
    BY <1>1
  <2> QED
    BY <1>3, <2>1, <2>2
<1>5. c(at) = IF Keeps(at, cell) THEN file[at] ELSE cell
  BY DEF Keeps
<1> HIDE DEF c
<1>6. f \in [1 .. len -> Cell] /\ \A i \in 1 .. len : f[i] = c(i)
  BY <1>4
<1> HIDE DEF f
<1>7. f \in Seq(Cell) /\ Len(f) = len
  BY <1>1, <1>6, FunctionIsSeq
<1>8. \A i \in 1 .. Len(file) : i # at => file'[i] = file[i]
  <2>1. \A i \in 1 .. Len(file) : i \in 1 .. len /\ ~(i > Len(file))
    BY <1>1
  <2> QED
    BY <1>2, <1>4, <1>6, <2>1
<1>9. \A i \in Len(file) + 1 .. len : i # at => file'[i] = Cut("hole")
  <2>1. \A i \in Len(file) + 1 .. len : i \in 1 .. len /\ i > Len(file)
    BY <1>1
  <2> QED
    BY <1>2, <1>4, <1>6, <2>1
<1> QED
  BY <1>1, <1>2, <1>5, <1>6, <1>7, <1>8, <1>9

InFlush(f) == offset[f] \in 0 .. 2 * Len(events) - 1

\* What a flusher writes in a step: the next cell, or a part of a text.
Writes(f, cell) ==
  /\ InFlush(f)
  /\ file' = WriteAt(file, offset[f] + 1, cell)
  /\ \/ cell = NextCell(f)
     \/ offset[f] % 2 = 0 /\ cell \in {Cut("torn"), Cut("garbled")}

\* A flusher that writes is at line n, and at its text or at its line feed.
LEMMA CellWritten ==
  ASSUME TypeOK, NEW f \in Flushers, InFlush(f)
  PROVE  /\ f \in Flushing /\ offset[f] \in Nat
         /\ \E n \in 1 .. Len(events) :
              \/ /\ offset[f] + 1 = LineAt(n) /\ offset[f] % 2 = 0
                 /\ NextCell(f) = Text(events[n]) /\ Text(events[n]) \in Cell
              \/ /\ offset[f] = LineAt(n) /\ offset[f] % 2 = 1
                 /\ NextCell(f) = Cut("feed")
<1>1. events \in Seq(1 .. recorded) /\ recorded \in 0 .. MaxEvents /\ Len(events) \in Nat
  BY LenProperties DEF TypeOK
<1> DEFINE o == offset[f]
<1>2. o \in Nat /\ o <= 2 * Len(events) - 1
  BY <1>1 DEF InFlush
<1>3. f \in Flushing
  BY <1>2 DEF Flushing, Idle, None
<1>4. NextCell(f) = IF o % 2 = 0 THEN Text(events[o \div 2 + 1]) ELSE Cut("feed")
  BY DEF NextCell
<1> HIDE DEF o
<1>5. /\ o % 2 = 0 => o \div 2 + 1 \in 1 .. Len(events) /\ o + 1 = LineAt(o \div 2 + 1)
      /\ o % 2 # 0 => o \div 2 + 1 \in 1 .. Len(events) /\ o = LineAt(o \div 2 + 1) /\ o % 2 = 1
  BY <1>1, <1>2 DEF LineAt
<1>6. \A n \in 1 .. Len(events) : Text(events[n]) \in Cell
  <2>1. \A n \in 1 .. Len(events) : events[n] \in 1 .. MaxEvents
    BY <1>1, PersistAssumption
  <2> QED
    BY <2>1 DEF Text, Cell
<1> QED
  BY <1>2, <1>3, <1>4, <1>5, <1>6 DEF o

\* Whatever a flusher writes, the cells keep their kinds, and a text that appears
\* is that of the event whose line it is.
LEMMA WriteKeepsTexts ==
  ASSUME OrderInv, NEW f \in Flushers, NEW cell, Writes(f, cell)
  PROVE  /\ file' \in Seq(Cell)
         /\ \A i \in DOMAIN file' : file'[i].cell \in
              (IF i % 2 = 0 THEN {"feed", "hole"} ELSE {"text", "torn", "garbled", "hole"})
         /\ \A n \in Nat \ {0} :
              IsText(LineAt(n))' => n <= Len(events) /\ file'[LineAt(n)].event = events[n]
         /\ UNCHANGED recorded => TextsInOrder'
<1> DEFINE at == offset[f] + 1
<1>1. /\ TypeOK /\ file \in Seq(Cell) /\ events \in Seq(1 .. recorded) /\ Len(events) \in Nat
      /\ Len(file) \in Nat /\ DOMAIN file = 1 .. Len(file)
  BY LenProperties DEF OrderInv, TypeOK
<1>2. f \in Flushing /\ offset[f] \in Nat
  BY <1>1, CellWritten DEF Writes
<1>3. /\ cell \in Cell
      /\ at % 2 = 0 => cell.cell = "feed"
      /\ at % 2 # 0 => cell.cell \in {"text", "torn", "garbled"}
      /\ cell.cell = "text" => \E n \in 1 .. Len(events) : at = LineAt(n) /\ cell.event = events[n]
  <2>1. CASE cell = NextCell(f)
    <3>1. PICK n \in 1 .. Len(events) :
              \/ /\ offset[f] + 1 = LineAt(n) /\ offset[f] % 2 = 0
                 /\ NextCell(f) = Text(events[n]) /\ Text(events[n]) \in Cell
              \/ /\ offset[f] = LineAt(n) /\ offset[f] % 2 = 1
                 /\ NextCell(f) = Cut("feed")
      BY <1>1, CellWritten DEF Writes
    <3>2. CASE offset[f] + 1 = LineAt(n) /\ cell = Text(events[n]) /\ Text(events[n]) \in Cell
      BY <3>2 DEF LineAt, Text
    <3>3. CASE offset[f] = LineAt(n) /\ cell = Cut("feed")
      BY <3>3 DEF LineAt, Cut, Cell
    <3> QED
      BY <2>1, <3>1, <3>2, <3>3
  <2>2. CASE offset[f] % 2 = 0 /\ cell \in {Cut("torn"), Cut("garbled")}
    BY <1>2, <2>2 DEF Cut, Cell
  <2> QED
    BY <2>1, <2>2 DEF Writes
<1>4. at \in Nat \ {0} /\ file' = WriteAt(file, at, cell)
  BY <1>2 DEF Writes
<1> HIDE DEF at
<1>5. /\ file' \in Seq(Cell) /\ Len(file') \in Nat /\ DOMAIN file' = 1 .. Len(file')
      /\ Len(file') = IF at > Len(file) THEN at ELSE Len(file)
      /\ \A i \in 1 .. Len(file) : i # at => file'[i] = file[i]
      /\ \A i \in Len(file) + 1 .. Len(file') : i # at => file'[i] = Cut("hole")
      /\ file'[at] = IF Keeps(at, cell) THEN file[at] ELSE cell
  BY <1>1, <1>3, <1>4, WrittenFile, LenProperties
<1>6. \A i \in 1 .. Len(file') :
        i = at \/ (i \in 1 .. Len(file) /\ i # at) \/ (i \in Len(file) + 1 .. Len(file') /\ i # at)
  BY <1>1, <1>5
<1>7. ASSUME NEW i \in DOMAIN file'
      PROVE  file'[i].cell \in
               (IF i % 2 = 0 THEN {"feed", "hole"} ELSE {"text", "torn", "garbled", "hole"})
  <2>1. CASE i \in 1 .. Len(file) /\ file'[i] = file[i]
    BY <1>1, <2>1 DEF TypeOK
  <2>2. CASE file'[i] = Cut("hole")
    BY <2>2 DEF Cut
  <2>3. CASE i = at /\ file'[at] = cell
    BY <1>3, <2>3
  <2> QED
    BY <1>4, <1>5, <1>6, <2>1, <2>2, <2>3 DEF Keeps
<1>8. ASSUME NEW i \in 1 .. Len(file'), IsText(i)'
      PROVE  \/ IsText(i) /\ file'[i] = file[i]
             \/ \E n \in 1 .. Len(events) : i = LineAt(n) /\ file'[i].event = events[n]
  <2>1. file'[i].cell = "text"
    BY <1>8 DEF IsText
  <2>2. CASE i \in 1 .. Len(file) /\ file'[i] = file[i]
    BY <2>1, <2>2 DEF IsText
  <2>3. CASE file'[i] = Cut("hole")
    BY <2>1, <2>3 DEF Cut
  <2>4. CASE i = at /\ file'[at] = cell
    BY <1>3, <2>1, <2>4
  <2> QED
    BY <1>4, <1>5, <1>6, <2>2, <2>3, <2>4 DEF Keeps
<1>9. ASSUME NEW n \in Nat \ {0}, IsText(LineAt(n))'
      PROVE  n <= Len(events) /\ file'[LineAt(n)].event = events[n]
  <2>1. CASE IsText(LineAt(n)) /\ file'[LineAt(n)] = file[LineAt(n)]
    BY <1>2, <2>1 DEF OrderInv, FlushedFromMemory
  <2>2. CASE \E m \in 1 .. Len(events) : LineAt(n) = LineAt(m) /\ file'[LineAt(n)].event = events[m]
    <3>1. PICK m \in 1 .. Len(events) : LineAt(n) = LineAt(m) /\ file'[LineAt(n)].event = events[m]
      BY <2>2
    <3>2. m = n
      BY <3>1 DEF LineAt
    <3> QED
      BY <1>1, <3>1, <3>2
  <2>3. LineAt(n) \in 1 .. Len(file')
    BY <1>9 DEF IsText
  <2> QED
    BY <1>8, <1>9, <2>1, <2>2, <2>3
<1>10. ASSUME NEW i \in 1 .. Len(file'), IsText(i)'
       PROVE  \E n \in 1 .. Len(events) : i = LineAt(n) /\ file'[i].event = events[n]
  <2>1. \E n \in Nat \ {0} : i = LineAt(n)
    <3>1. i % 2 # 0 /\ i \in Nat
      BY <1>5, <1>7, <1>10 DEF IsText
    <3>2. PICK k \in Nat : i = 2 * k + 1
      BY <3>1
    <3>3. k + 1 \in Nat \ {0} /\ i = LineAt(k + 1)
      BY <3>2 DEF LineAt
    <3> QED
      BY <3>3
  <2>2. PICK n \in Nat \ {0} : i = LineAt(n)
    BY <2>1
  <2> QED
    BY <1>1, <1>9, <1>10, <2>2
<1>11. ASSUME UNCHANGED recorded PROVE TextsInOrder'
  <2>1. \A i \in 1 .. Len(file') : IsText(i)' => file'[i].event \in 1 .. recorded
    BY <1>1, <1>10, ElementOfSeq
  <2>2. ASSUME NEW i \in 1 .. Len(file'), NEW j \in 1 .. Len(file'), i < j, IsText(i)', IsText(j)'
        PROVE  file'[i].event < file'[j].event
    <3>1. PICK n \in 1 .. Len(events) : i = LineAt(n) /\ file'[i].event = events[n]
      BY <1>10, <2>2
    <3>2. PICK m \in 1 .. Len(events) : j = LineAt(m) /\ file'[j].event = events[m]
      BY <1>10, <2>2
    <3>3. n < m
      BY <1>1, <2>2, <3>1, <3>2 DEF LineAt
    <3> QED
      BY <3>1, <3>2, <3>3 DEF OrderInv, EventsInOrder
  <2> QED
    BY <1>11, <2>1, <2>2 DEF TextsInOrder
<1> QED
  BY <1>5, <1>7, <1>9, <1>11

-----------------------------------------------------------------------------
(* The order of events *)

\* A flusher goes on, stops, or begins.
LEMMA OffsetType ==
  ASSUME TypeOK, NEW f \in Flushers, NEW o \in {None} \cup 0 .. 2 * Len(events),
         offset' = [offset EXCEPT ![f] = o]
  PROVE  /\ offset' \in [Flushers -> {None} \cup 0 .. 2 * Len(events)]
         /\ \A g \in Flushers \ {f} : offset'[g] = offset[g]
         /\ offset'[f] = o
         /\ Flushing' = IF o = None THEN Flushing \ {f} ELSE Flushing \cup {f}
<1>1. /\ offset' \in [Flushers -> {None} \cup 0 .. 2 * Len(events)]
      /\ \A g \in Flushers \ {f} : offset'[g] = offset[g]
      /\ offset'[f] = o
  BY DEF TypeOK
<1> QED
  BY <1>1 DEF Flushing, Idle

LEMMA InitOrder == Init => OrderInv
<1> SUFFICES ASSUME Init PROVE OrderInv
  OBVIOUS
<1>1. /\ up = TRUE /\ events = <<>> /\ recorded = 0 /\ file = <<>> /\ saving = <<>>
      /\ intact = TRUE /\ alone = TRUE /\ complete = TRUE /\ offset = [f \in Flushers |-> None]
      /\ \A S : <<>> \in Seq(S) /\ Len(<<>>) = 0
      /\ DOMAIN <<>> = {}
  BY EmptySeq DEF Init
<1>2. Flushing = {}
  BY <1>1 DEF Flushing, Idle
<1>3. TypeOK
  BY <1>1, <1>2, PersistAssumption DEF TypeOK
<1> QED
  BY <1>1, <1>2, <1>3 DEF OrderInv, TextsInOrder, FlushedFromMemory, EventsInOrder

\* A new event comes last, while nobody writes.
LEMMA RecordKeepsOrder == ASSUME OrderInv, Record PROVE OrderInv'
<1>1. /\ up /\ ~Locked /\ recorded < MaxEvents /\ recorded' = recorded + 1
      /\ events' = Append(events, recorded + 1)
      /\ UNCHANGED <<up, file, offset, saving, intact, alone, complete>>
  BY DEF Record
<1>2. /\ TypeOK /\ recorded \in Nat /\ MaxEvents \in Nat /\ events \in Seq(1 .. recorded) /\ Len(events) \in Nat
      /\ recorded + 1 \in 0 .. MaxEvents
  BY <1>1, PersistAssumption, LenProperties DEF OrderInv, TypeOK
<1>3. \A S, T : S = 1 .. recorded /\ T = 1 .. recorded + 1 => S \subseteq T /\ recorded + 1 \in T
  BY <1>2
<1>4. events \in Seq(1 .. recorded + 1) /\ saving \in Seq(1 .. recorded + 1)
  BY <1>2, <1>3, SeqMonotonic DEF TypeOK
<1>5. /\ events' \in Seq(1 .. recorded + 1) /\ Len(events') = Len(events) + 1
      /\ \A n \in 1 .. Len(events) : events'[n] = events[n]
      /\ events'[Len(events) + 1] = recorded + 1
  BY <1>1, <1>2, <1>4, AppendProperties
<1>6. offset \in [Flushers -> {None} \cup 0 .. 2 * Len(events')] /\ Flushing' = Flushing
  <2>1. 0 .. 2 * Len(events) \subseteq 0 .. 2 * Len(events')
    BY <1>2, <1>5
  <2> QED
    BY <1>1, <1>2, <2>1 DEF TypeOK, Flushing, Idle
<1>7. TypeOK'
  BY <1>1, <1>2, <1>4, <1>5, <1>6 DEF TypeOK
<1>8. TextsInOrder'
  <2>1. \A i : IsText(i)' <=> IsText(i)
    BY <1>1 DEF IsText
  <2> QED
    BY <1>1, <1>2, <2>1 DEF OrderInv, TextsInOrder
<1>9. FlushedFromMemory'
  <2> SUFFICES ASSUME Flushing # {}
               PROVE  /\ \A n \in Nat \ {0} : IsText(LineAt(n)) =>
                           n <= Len(events') /\ file[LineAt(n)].event = events'[n]
                      /\ Len(saving) <= Len(events') /\ \A n \in 1 .. Len(saving) : saving[n] = events'[n]
    BY <1>1, <1>6 DEF FlushedFromMemory, IsText
  <2>1. \A n \in Nat \ {0} : IsText(LineAt(n)) => n \in 1 .. Len(events) /\ file[LineAt(n)].event = events[n]
    BY <1>2 DEF OrderInv, FlushedFromMemory
  <2>2. Len(saving) \in Nat
    BY <1>2, LenProperties DEF TypeOK
  <2>3. \A n \in 1 .. Len(saving) : n \in 1 .. Len(events) /\ saving[n] = events[n]
    BY <1>2, <2>2 DEF OrderInv, FlushedFromMemory
  <2>4. Len(saving) <= Len(events)
    BY DEF OrderInv, FlushedFromMemory
  <2> QED
    BY <1>2, <1>5, <2>1, <2>2, <2>3, <2>4
<1>10. EventsInOrder'
  <2> SUFFICES ASSUME NEW i \in 1 .. Len(events'), NEW j \in 1 .. Len(events'), i < j
               PROVE  events'[i] < events'[j]
    BY DEF EventsInOrder
  <2>1. i \in 1 .. Len(events) /\ (j \in 1 .. Len(events) \/ j = Len(events) + 1)
    <3>1. Len(events') = Len(events) + 1 /\ Len(events) \in Nat
      BY <1>2, <1>5
    <3> QED
      BY <3>1
  <2>2. events[i] \in 1 .. recorded
    BY <1>2, <2>1, ElementOfSeq
  <2>3. CASE j \in 1 .. Len(events)
    BY <1>5, <2>1, <2>3 DEF OrderInv, EventsInOrder
  <2>4. CASE j = Len(events) + 1
    BY <1>2, <1>5, <2>1, <2>2, <2>4
  <2> QED
    BY <2>1, <2>3, <2>4
<1> QED
  BY <1>7, <1>8, <1>9, <1>10 DEF OrderInv

\* Truncation leaves nothing that could be out of order.
LEMMA OpenKeepsOrder == ASSUME OrderInv, NEW f \in Flushers, Open(f) PROVE OrderInv'
<1>1. /\ up /\ file' = <<>> /\ offset' = [offset EXCEPT ![f] = 0] /\ saving' = events
      /\ intact' = (Flushing = {} \/ intact) /\ alone' = (Flushing = {})
      /\ complete' = TRUE /\ UNCHANGED <<up, events, recorded>>
  BY DEF Open
<1>2. TypeOK /\ Len(events) \in Nat
  BY LenProperties DEF OrderInv, TypeOK
<1>3. /\ <<>> \in Seq(Cell) /\ Len(<<>>) = 0 /\ DOMAIN <<>> = {}
  BY EmptySeq
<1>4. offset' \in [Flushers -> {None} \cup 0 .. 2 * Len(events)]
  <2>1. 0 \in {None} \cup 0 .. 2 * Len(events)
    BY <1>2
  <2> QED
    BY <1>1, <1>2, <2>1, OffsetType
<1>5. TypeOK'
  BY <1>1, <1>2, <1>3, <1>4 DEF TypeOK
<1>6. \A i : ~IsText(i)'
  BY <1>1, <1>3 DEF IsText
<1>7. FlushedFromMemory' /\ TextsInOrder'
  BY <1>1, <1>2, <1>3, <1>6 DEF FlushedFromMemory, TextsInOrder
<1> QED
  BY <1>1, <1>5, <1>7 DEF OrderInv, EventsInOrder

\* A flusher writes, fails, or is done.
LEMMA FlushKeepsOrder ==
  ASSUME OrderInv, NEW f \in Flushers, Write(f) \/ WriteFails(f) \/ Finish(f)
  PROVE  OrderInv'
<1>1. /\ UNCHANGED <<up, events, recorded, saving, alone, complete>> /\ intact' \in BOOLEAN
      /\ UNCHANGED file \/ \E cell : Writes(f, cell)
      /\ \E o \in {None} \cup 0 .. 2 * Len(events) : offset' = [offset EXCEPT ![f] = o]
      /\ f \in Flushing
  <2>1. TypeOK /\ Len(events) \in Nat
    BY LenProperties DEF OrderInv, TypeOK
  <2>2. CASE Write(f)
    <3>1. offset[f] + 1 \in 0 .. 2 * Len(events)
      BY <2>1, <2>2 DEF Write
    <3> QED
      BY <2>1, <2>2, <3>1, CellWritten DEF Write, Writes, InFlush, TypeOK
  <2>3. CASE WriteFails(f)
    BY <2>1, <2>3, CellWritten DEF WriteFails, Writes, InFlush
  <2>4. CASE Finish(f)
    <3>1. offset[f] # None
      BY <2>1, <2>4 DEF Finish, None
    <3> QED
      BY <2>1, <2>4, <3>1 DEF Finish, TypeOK, Flushing, Idle
  <2> QED
    BY <2>2, <2>3, <2>4
<1>2. TypeOK
  BY DEF OrderInv
<1>3. PICK o \in {None} \cup 0 .. 2 * Len(events) : offset' = [offset EXCEPT ![f] = o]
  BY <1>1
<1>4. offset' \in [Flushers -> {None} \cup 0 .. 2 * Len(events)] /\ Flushing' \subseteq Flushing \cup {f}
  BY <1>2, <1>3, OffsetType
<1>5. up
  BY <1>1, <1>2 DEF TypeOK
<1>6. /\ file' \in Seq(Cell)
      /\ \A i \in DOMAIN file' : file'[i].cell \in
           (IF i % 2 = 0 THEN {"feed", "hole"} ELSE {"text", "torn", "garbled", "hole"})
      /\ \A n \in Nat \ {0} :
           IsText(LineAt(n))' => n <= Len(events) /\ file'[LineAt(n)].event = events[n]
      /\ TextsInOrder'
  <2>1. CASE UNCHANGED file
    <3>1. \A i : IsText(i)' <=> IsText(i)
      BY <2>1 DEF IsText
    <3> QED
      BY <1>1, <1>2, <2>1, <3>1 DEF OrderInv, TypeOK, TextsInOrder, FlushedFromMemory
  <2>2. CASE \E cell : Writes(f, cell)
    BY <1>1, <2>2, WriteKeepsTexts
  <2> QED
    BY <1>1, <2>1, <2>2
<1>7. TypeOK'
  BY <1>1, <1>2, <1>4, <1>5, <1>6 DEF TypeOK
<1>8. FlushedFromMemory'
  BY <1>1, <1>6 DEF OrderInv, FlushedFromMemory
<1> QED
  BY <1>1, <1>6, <1>7, <1>8 DEF OrderInv, EventsInOrder

\* The process ends, and leaves the file as it is or torn.
LEMMA CrashKeepsOrder == ASSUME OrderInv, Crash PROVE OrderInv'
<1>1. /\ up' = FALSE /\ events' = <<>> /\ offset' = [f \in Flushers |-> None]
      /\ intact' = (intact /\ Flushing = {})
      /\ UNCHANGED <<recorded, saving, alone, complete>>
      /\ UNCHANGED file \/ \E f \in Flushers : \E cell : Writes(f, cell)
  BY DEF Crash, Writes, InFlush
<1>2. TypeOK
  BY DEF OrderInv
<1>3. /\ file' \in Seq(Cell)
      /\ \A i \in DOMAIN file' : file'[i].cell \in
           (IF i % 2 = 0 THEN {"feed", "hole"} ELSE {"text", "torn", "garbled", "hole"})
      /\ TextsInOrder'
  <2>1. CASE UNCHANGED file
    <3>1. \A i : IsText(i)' <=> IsText(i)
      BY <2>1 DEF IsText
    <3> QED
      BY <1>1, <1>2, <2>1, <3>1 DEF OrderInv, TypeOK, TextsInOrder
  <2>2. CASE \E f \in Flushers : \E cell : Writes(f, cell)
    BY <1>1, <2>2, WriteKeepsTexts
  <2> QED
    BY <1>1, <2>1, <2>2
<1>4. \A S : <<>> \in Seq(S) /\ Len(<<>>) = 0
  BY EmptySeq
<1>5. Flushing' = {}
  BY <1>1 DEF Flushing, Idle
<1>6. TypeOK'
  BY <1>1, <1>2, <1>3, <1>4, <1>5 DEF TypeOK
<1> QED
  BY <1>1, <1>3, <1>4, <1>5, <1>6 DEF OrderInv, FlushedFromMemory, EventsInOrder

\* What is loaded has the order of the texts in the file, however much it is.
LEMMA RestartKeepsOrder == ASSUME OrderInv, Restart PROVE OrderInv'
<1>0. PICK read : events' = LoadedUpTo(file, read)
  BY DEF Restart
<1>1. /\ ~up /\ up' = TRUE /\ complete' \in BOOLEAN
      /\ UNCHANGED <<recorded, file, offset, saving, intact, alone>>
  BY DEF Restart
<1>2. TypeOK /\ Flushing = {}
  BY <1>1 DEF OrderInv, TypeOK
<1> DEFINE I == LinesUpTo(read)
<1>3. /\ IsFiniteSet(I) /\ I \subseteq 1 .. Len(file) /\ I \subseteq Nat
      /\ \A i \in I : IsText(i)
      /\ events' \in Seq(1 .. recorded) /\ Len(events') = Cardinality(I) /\ Len(events') \in Nat
      /\ \A n \in 1 .. Len(events') : Nth(I, n) \in I /\ events'[n] = file[Nth(I, n)].event
  BY <1>0, <1>1, <1>2, LoadedUpToProperties DEF OrderInv, TypeOK, TextsInOrder
<1>4. \A m, n \in 1 .. Cardinality(I) : m < n => Nth(I, m) < Nth(I, n)
  BY <1>3, NthProperties
<1> HIDE DEF I
<1>5. \A f \in Flushers : offset[f] = None
  BY <1>2 DEF Flushing, Idle
<1>6. offset \in [Flushers -> {None} \cup 0 .. 2 * Len(events')] /\ Flushing' = {}
  BY <1>1, <1>2, <1>5 DEF TypeOK, Flushing, Idle
<1>7. TypeOK'
  BY <1>1, <1>2, <1>3, <1>6 DEF TypeOK
<1>8. TextsInOrder'
  <2>1. \A i : IsText(i)' <=> IsText(i)
    BY <1>1 DEF IsText
  <2> QED
    BY <1>1, <2>1 DEF OrderInv, TextsInOrder
<1>9. EventsInOrder'
  <2> SUFFICES ASSUME NEW m \in 1 .. Len(events'), NEW n \in 1 .. Len(events'), m < n
               PROVE  events'[m] < events'[n]
    BY DEF EventsInOrder
  <2>1. /\ Nth(I, m) \in 1 .. Len(file) /\ Nth(I, n) \in 1 .. Len(file) /\ Nth(I, m) < Nth(I, n)
        /\ IsText(Nth(I, m)) /\ IsText(Nth(I, n))
    BY <1>3, <1>4
  <2> QED
    BY <1>3, <2>1 DEF OrderInv, TextsInOrder
<1> QED
  BY <1>6, <1>7, <1>8, <1>9 DEF OrderInv, FlushedFromMemory

LEMMA NextOrder == OrderInv /\ [Next]_vars => OrderInv'
<1> SUFFICES ASSUME OrderInv, [Next]_vars PROVE OrderInv'
  OBVIOUS
<1>1. CASE UNCHANGED vars
  BY <1>1 DEF vars, OrderInv, TypeOK, TextsInOrder, FlushedFromMemory, EventsInOrder, Flushing, Idle, IsText
<1> QED
  BY <1>1, RecordKeepsOrder, OpenKeepsOrder, FlushKeepsOrder, CrashKeepsOrder, RestartKeepsOrder
  DEF Next, FlushStep

\* What the other proofs build on.
LEMMA OrderInvAlways == Spec => []OrderInv
  BY InitOrder, NextOrder, PTL DEF Spec

\* No flush runs beyond the events or outlives the process, and the file keeps
\* its lines (flush_to_disk).
THEOREM PersistTypeCorrect == Spec => []TypeOK
<1>1. OrderInv => TypeOK
  BY DEF OrderInv
<1> QED
  BY <1>1, OrderInvAlways, PTL

\* Whatever overlapping, failed and interrupted flushes leave, and however much of
\* it is read, what is loaded from it are recorded events, each once and in order
\* (load_from_path).
THEOREM MemoryKeepsOrder == Spec => []EventsInOrder
<1>1. OrderInv => EventsInOrder
  BY DEF OrderInv
<1> QED
  BY <1>1, OrderInvAlways, PTL

-----------------------------------------------------------------------------
(* What is saved *)

\* What happens to the file besides truncation: nothing, or a write by a flusher.
\* What is whole stays whole, and the next cell prolongs what ends before it.
LEMMA WriteKeepsWhole ==
  ASSUME TypeOK, NEW f \in Flushers, NEW cell, Writes(f, cell)
  PROVE  /\ \A m \in Nat : Whole(m) => Whole(m)'
         /\ \A m \in Nat : cell = NextCell(f) /\ Whole(m) /\ m = offset[f] => Whole(m + 1)'
         /\ Len(file) \in Nat
         /\ Len(file') = IF offset[f] + 1 > Len(file) THEN offset[f] + 1 ELSE Len(file)
         /\ Len(file') = Len(file) + 1 => file'[Len(file) + 1] = cell
<1> DEFINE at == offset[f] + 1
<1>1. /\ file \in Seq(Cell) /\ f \in Flushing /\ offset[f] \in Nat /\ InFlush(f)
      /\ file' = WriteAt(file, at, cell)
  BY CellWritten DEF Writes, TypeOK
<1>2. PICK n \in 1 .. Len(events) :
         \/ /\ offset[f] + 1 = LineAt(n) /\ offset[f] % 2 = 0
            /\ NextCell(f) = Text(events[n]) /\ Text(events[n]) \in Cell
         \/ /\ offset[f] = LineAt(n) /\ offset[f] % 2 = 1
            /\ NextCell(f) = Cut("feed")
  BY <1>1, CellWritten
<1>3. /\ cell \in Cell
      /\ at % 2 = 1 => cell.cell \in {"text", "torn", "garbled"}
      /\ at % 2 # 1 => cell.cell = "feed"
      /\ cell = NextCell(f) => cell.cell = IF at % 2 = 1 THEN "text" ELSE "feed"
  <2>1. at % 2 = IF offset[f] % 2 = 0 THEN 1 ELSE 0
    BY <1>1
  <2>2. NextCell(f) \in Cell /\ NextCell(f).cell = IF at % 2 = 1 THEN "text" ELSE "feed"
    BY <1>2, <2>1 DEF Text, Cut, Cell
  <2>3. cell \in {Cut("torn"), Cut("garbled")} => cell \in Cell /\ cell.cell \in {"torn", "garbled"}
    BY DEF Cut, Cell
  <2> QED
    BY <2>1, <2>2, <2>3 DEF Writes
<1>4. at \in Nat \ {0} /\ at = offset[f] + 1
  BY <1>1
<1> HIDE DEF at
<1>5. /\ file' \in Seq(Cell) /\ Len(file) \in Nat /\ Len(file') \in Nat
      /\ Len(file') = IF at > Len(file) THEN at ELSE Len(file)
      /\ \A i \in 1 .. Len(file) : i # at => file'[i] = file[i]
      /\ file'[at] = IF Keeps(at, cell) THEN file[at] ELSE cell
  BY <1>1, <1>3, <1>4, WrittenFile
<1>6. ASSUME NEW m \in Nat, Whole(m) PROVE Whole(m)'
  <2> SUFFICES ASSUME NEW i \in 1 .. m
               PROVE  file'[i].cell = IF i % 2 = 1 THEN "text" ELSE "feed"
    BY <1>4, <1>5, <1>6 DEF Whole
  <2>1. i \in 1 .. Len(file) /\ file[i].cell = IF i % 2 = 1 THEN "text" ELSE "feed"
    <3>1. m <= Len(file) /\ file[i].cell = IF i % 2 = 1 THEN "text" ELSE "feed"
      BY <1>6 DEF Whole
    <3>2. Len(file) \in Nat
      BY <1>5
    <3> QED
      BY <3>1, <3>2
  <2>2. CASE i # at
    BY <1>5, <2>1, <2>2
  <2>3. CASE i = at
    <3>1. cell \notin {Cut("torn"), Cut("garbled")} => cell = NextCell(f)
      BY DEF Writes
    <3>2. CASE cell = NextCell(f)
      BY <1>3, <1>5, <2>1, <2>3, <3>2 DEF Keeps
    <3>3. CASE cell \in {Cut("torn"), Cut("garbled")}
      <4>1. at % 2 = 1 /\ cell.cell \in {"torn", "garbled"}
        BY <1>3, <3>3 DEF Cut
      <4> QED
        BY <1>5, <2>1, <2>3, <4>1 DEF Keeps
    <3> QED
      BY <3>1, <3>2, <3>3
  <2> QED
    BY <2>2, <2>3
<1>7. ASSUME NEW m \in Nat, cell = NextCell(f), Whole(m), m = offset[f] PROVE Whole(m + 1)'
  <2>1. Whole(m)' /\ at = m + 1
    BY <1>4, <1>6, <1>7
  <2>2. file'[at].cell = IF at % 2 = 1 THEN "text" ELSE "feed"
    BY <1>3, <1>5, <1>7 DEF Keeps
  <2>3. at <= Len(file')
    BY <1>4, <1>5
  <2>4. ASSUME NEW i \in 1 .. m + 1
        PROVE  file'[i].cell = IF i % 2 = 1 THEN "text" ELSE "feed"
    <3>1. CASE i = at
      BY <2>2, <3>1
    <3>2. CASE i # at
      <4>1. i \in 1 .. m
        BY <2>1, <3>2
      <4> QED
        BY <2>1, <4>1 DEF Whole
    <3> QED
      BY <3>1, <3>2
  <2> QED
    BY <2>1, <2>3, <2>4 DEF Whole
<1>8. ASSUME Len(file') = Len(file) + 1 PROVE file'[Len(file) + 1] = cell
  BY <1>4, <1>5, <1>8 DEF Keeps
<1> QED
  BY <1>4, <1>5, <1>6, <1>7, <1>8

\* Of a flusher that goes on the offset tells how far it is.
LEMMA WriteMoves ==
  ASSUME TypeOK, NEW f \in Flushers, Write(f)
  PROVE  /\ Writes(f, NextCell(f)) /\ f \in Flushing
         /\ Flushing' = Flushing /\ offset[f] \in Nat /\ offset'[f] = offset[f] + 1
         /\ \A g \in Flushing \ {f} : offset'[g] = offset[g]
<1>1. InFlush(f) /\ Len(events) \in Nat /\ offset' = [offset EXCEPT ![f] = @ + 1]
  BY LenProperties DEF Write, InFlush, TypeOK
<1>2. offset[f] + 1 \in 0 .. 2 * Len(events) /\ offset[f] + 1 # None
  BY <1>1 DEF InFlush, None
<1>3. f \in Flushing /\ offset[f] \in Nat
  BY <1>1, CellWritten
<1>4. /\ \A g \in Flushers \ {f} : offset'[g] = offset[g]
      /\ offset'[f] = offset[f] + 1 /\ Flushing' = Flushing \cup {f}
  BY <1>1, <1>2, OffsetType
<1> QED
  BY <1>1, <1>3, <1>4 DEF Write, Writes, Flushing

\* A flusher that stops leaves the others.
LEMMA StopMoves ==
  ASSUME TypeOK, NEW f \in Flushers, WriteFails(f) \/ Finish(f)
  PROVE  /\ f \in Flushing /\ Flushing' = Flushing \ {f}
         /\ \A g \in Flushing' : offset'[g] = offset[g]
<1>1. Len(events) \in Nat /\ offset' = [offset EXCEPT ![f] = None]
  BY LenProperties DEF WriteFails, Finish, TypeOK
<1>2. None \in {None} \cup 0 .. 2 * Len(events)
  OBVIOUS
<1>3. /\ \A g \in Flushers \ {f} : offset'[g] = offset[g]
      /\ Flushing' = Flushing \ {f}
  BY <1>1, <1>2, OffsetType
<1>4. offset[f] # None
  BY <1>1 DEF WriteFails, Finish, None
<1> QED
  BY <1>3, <1>4 DEF Flushing, Idle

\* What is whole and covers the lines to be saved holds what is to be saved.
LEMMA WholeIsSaved ==
  ASSUME OrderInv, Flushing # {}, NEW m \in Nat, Whole(m), m >= 2 * Len(saving)
  PROVE  Whole(2 * Len(saving)) /\ \A n \in 1 .. Len(saving) : file[LineAt(n)].event = saving[n]
<1>1. Len(saving) \in Nat /\ Len(file) \in Nat
  BY LenProperties DEF OrderInv, TypeOK
<1>2. m <= Len(file) /\ \A i \in 1 .. m : file[i].cell = IF i % 2 = 1 THEN "text" ELSE "feed"
  BY DEF Whole
<1>3. Whole(2 * Len(saving))
  <2>1. 2 * Len(saving) <= Len(file) /\ \A i \in 1 .. 2 * Len(saving) : i \in 1 .. m
    BY <1>1, <1>2
  <2> QED
    BY <1>2, <2>1 DEF Whole
<1>4. ASSUME NEW n \in 1 .. Len(saving) PROVE file[LineAt(n)].event = saving[n]
  <2>1. LineAt(n) \in 1 .. m /\ LineAt(n) \in 1 .. Len(file) /\ LineAt(n) % 2 = 1 /\ n \in Nat \ {0}
    BY <1>1, <1>2 DEF LineAt
  <2>2. IsText(LineAt(n))
    BY <1>2, <2>1 DEF IsText
  <2> QED
    BY <2>1, <2>2 DEF OrderInv, FlushedFromMemory
<1> QED
  BY <1>3, <1>4

LEMMA NextSaved == OrderInv /\ SavedInv /\ [Next]_vars => SavedInv'
<1> SUFFICES ASSUME OrderInv, SavedInv, [Next]_vars PROVE SavedInv'
  OBVIOUS
<1>1. TypeOK /\ Len(saving) \in Nat /\ Len(events) \in Nat /\ Len(file) \in Nat
  BY LenProperties DEF OrderInv, TypeOK
<1>2. ASSUME UNCHANGED <<file, saving, Flushing, intact>>, \A f \in Flushing : offset'[f] = offset[f]
      PROVE  SavedInv'
  <2>1. \A m : Whole(m)' <=> Whole(m)
    BY <1>2 DEF Whole
  <2>2. Whole(2 * Len(saving))' <=> Whole(2 * Len(saving))
    BY <1>2 DEF Whole
  <2> QED
    BY <1>2, <2>1, <2>2 DEF SavedInv
<1>3. CASE Record \/ Restart \/ UNCHANGED vars
  BY <1>2, <1>3 DEF Record, Restart, vars, Flushing, Idle
<1>4. ASSUME NEW f \in Flushers, Open(f) PROVE SavedInv'
  <2>1. 0 \in {None} \cup 0 .. 2 * Len(events) /\ 0 # None
    BY <1>1 DEF None
  <2>2. Flushing' # {} /\ f \in Flushing' /\ offset'[f] = 0
    BY <1>1, <1>4, <2>1, OffsetType DEF Open
  <2>3. Whole(0)'
    BY <1>4, EmptySeq DEF Open, Whole
  <2> QED
    BY <2>2, <2>3 DEF SavedInv
<1>5. ASSUME NEW f \in Flushers, Write(f), intact PROVE SavedInv'
  <2>1. /\ Writes(f, NextCell(f)) /\ f \in Flushing
        /\ Flushing' = Flushing /\ offset[f] \in Nat /\ offset'[f] = offset[f] + 1
        /\ \A g \in Flushing \ {f} : offset'[g] = offset[g]
    BY <1>1, <1>5, WriteMoves
  <2>2. /\ \A m \in Nat : Whole(m) => Whole(m)'
        /\ \A m \in Nat : Whole(m) /\ m = offset[f] => Whole(m + 1)'
    BY <1>1, <2>1, WriteKeepsWhole
  <2>3. UNCHANGED saving
    BY <1>5 DEF Write
  <2>4. PICK m \in Nat : Whole(m) /\ (m >= 2 * Len(saving) \/ \E g \in Flushing : offset[g] <= m)
    BY <1>5, <2>1 DEF SavedInv
  <2>5. \E l \in Nat : Whole(l)' /\ (l >= 2 * Len(saving) \/ \E g \in Flushing : offset'[g] <= l)
    <3>1. CASE m >= 2 * Len(saving)
      BY <2>2, <2>4, <3>1
    <3>2. CASE \E g \in Flushing : offset[g] <= m
      <4>1. PICK g \in Flushing : offset[g] <= m
        BY <3>2
      <4>2. CASE g # f
        BY <2>1, <2>2, <2>4, <4>1, <4>2
      <4>3. CASE g = f /\ offset[f] < m
        <5>1. offset'[f] <= m
          BY <2>1, <4>3
        <5> QED
          BY <2>1, <2>2, <2>4, <5>1
      <4>4. CASE g = f /\ offset[f] = m
        <5>1. Whole(m + 1)' /\ m + 1 \in Nat /\ offset'[f] <= m + 1
          BY <2>1, <2>2, <2>4, <4>4
        <5> QED
          BY <2>1, <5>1
      <4>5. g = f => offset[f] < m \/ offset[f] = m
        BY <2>1, <4>1
      <4> QED
        BY <4>2, <4>3, <4>4, <4>5
    <3> QED
      BY <2>4, <3>1, <3>2
  <2> QED
    BY <2>1, <2>3, <2>5 DEF SavedInv
<1>6. ASSUME NEW f \in Flushers, Finish(f), intact PROVE SavedInv'
  <2>1. /\ f \in Flushing /\ Flushing' = Flushing \ {f}
        /\ \A g \in Flushing' : offset'[g] = offset[g]
    BY <1>1, <1>6, StopMoves
  <2>2. offset[f] = 2 * Len(events) /\ UNCHANGED <<file, saving>>
    BY <1>6 DEF Finish
  <2>3. PICK m \in Nat : Whole(m) /\ (m >= 2 * Len(saving) \/ \E g \in Flushing : offset[g] <= m)
    BY <1>6, <2>1 DEF SavedInv
  <2>4. \A l : Whole(l)' <=> Whole(l)
    BY <2>2 DEF Whole
  <2>5. CASE m >= 2 * Len(saving)
    <3>1. Whole(2 * Len(saving)) /\ \A n \in 1 .. Len(saving) : file[LineAt(n)].event = saving[n]
      BY <2>1, <2>3, <2>5, WholeIsSaved
    <3>2. Whole(2 * Len(saving))'
      BY <2>2, <3>1 DEF Whole
    <3> QED
      BY <2>2, <2>3, <2>4, <2>5, <3>1, <3>2 DEF SavedInv
  <2>6. CASE ~(m >= 2 * Len(saving))
    <3>1. PICK g \in Flushing : offset[g] <= m
      BY <2>3, <2>6
    <3>2. g # f
      <4>1. Len(saving) <= Len(events)
        BY <2>1 DEF OrderInv, FlushedFromMemory
      <4> QED
        BY <1>1, <2>2, <2>6, <3>1, <4>1
    <3>3. g \in Flushing' /\ offset'[g] <= m
      BY <2>1, <3>1, <3>2
    <3> QED
      BY <2>2, <2>3, <2>4, <3>3 DEF SavedInv
  <2> QED
    BY <2>5, <2>6
<1>7. ASSUME NEW f \in Flushers, WriteFails(f) PROVE SavedInv'
  BY <1>7 DEF WriteFails, SavedInv
<1>8. ASSUME NEW f \in Flushers, Write(f) \/ Finish(f), ~intact PROVE SavedInv'
  BY <1>8 DEF Write, Finish, SavedInv
<1>9. CASE Crash
  <2>1. Flushing' = {}
    BY <1>9 DEF Crash, Flushing, Idle
  <2>2. ASSUME Flushing = {} PROVE UNCHANGED <<file, Flushing>>
    <3>1. \A f \in Flushers : ~InFlush(f)
      BY <1>1, <2>2, CellWritten
    <3> QED
      BY <1>9, <2>1, <2>2, <3>1 DEF Crash, InFlush
  <2>3. intact' = (intact /\ Flushing = {}) /\ UNCHANGED saving
    BY <1>9 DEF Crash
  <2>4. CASE Flushing = {} /\ intact
    BY <1>2, <2>2, <2>3, <2>4, <2>1
  <2>5. CASE ~(Flushing = {} /\ intact)
    BY <2>3, <2>5 DEF SavedInv
  <2> QED
    BY <2>4, <2>5
<1> QED
  BY <1>3, <1>4, <1>5, <1>6, <1>7, <1>8, <1>9 DEF Next, FlushStep

LEMMA PrecedesByElements ==
  ASSUME NEW S, NEW s \in Seq(S), NEW t \in Seq(S), Len(s) <= Len(t),
         \A n \in 1 .. Len(s) : s[n] = t[n]
  PROVE  Precedes(s, t)
<1> DEFINE u == SubSeq(t, 1, Len(s))
<1>1. Len(s) \in Nat /\ Len(t) \in Nat /\ \A n \in 1 .. Len(s) : n \in 1 .. Len(t) /\ t[n] \in S
  BY LenProperties, ElementOfSeq
<1>2. /\ u \in Seq(S)
      /\ Len(u) = IF 1 <= Len(s) THEN Len(s) - 1 + 1 ELSE 0
      /\ \A i \in 1 .. Len(s) - 1 + 1 : u[i] = t[1 + i - 1]
  <2>1. 1 \in Int /\ Len(s) \in Int
    BY <1>1
  <2> QED
    BY <1>1, <2>1, SubSeqProperties
<1> HIDE DEF u
<1>3. Len(s) - 1 + 1 = Len(s) /\ (IF 1 <= Len(s) THEN Len(s) - 1 + 1 ELSE 0) = Len(s)
  BY <1>1
<1>4. \A i \in 1 .. Len(s) : u[i] = t[i]
  <2>1. \A i \in 1 .. Len(s) : 1 + i - 1 = i
    BY <1>1
  <2> QED
    BY <1>2, <1>3, <2>1
<1>5. u = s
  BY <1>2, <1>3, <1>4, SeqEqual
<1> QED
  BY <1>5 DEF Precedes, u

\* The lines of what is whole, where the last may lack its line feed at the end
\* of the file.
LEMMA WholeLines ==
  ASSUME TypeOK, NEW m \in Nat, Whole(m), NEW l \in Nat \ {0},
         LineAt(l) < m \/ (LineAt(l) = m /\ Len(file) = m)
  PROVE  LineAt(l) \in Lines(file) /\ IsText(LineAt(l))
<1> DEFINE i == LineAt(l)
<1>1. i \in Nat \ {0} /\ i % 2 = 1 /\ i <= m /\ (i # 1 => i - 1 \in 1 .. m /\ (i - 1) % 2 = 0)
      /\ (i + 1) % 2 = 0
  BY DEF LineAt
<1>2. Len(file) \in Nat
  BY LenProperties DEF TypeOK
<1> HIDE DEF i
<1>3. m <= Len(file) /\ \A j \in 1 .. m : file[j].cell = IF j % 2 = 1 THEN "text" ELSE "feed"
  BY DEF Whole
<1>4. i \in 1 .. Len(file) /\ file[i].cell = "text"
  BY <1>1, <1>2, <1>3
<1>5. \A j \in 1 .. i : file[j].cell # "garbled"
  BY <1>1, <1>3
<1>6. i = 1 \/ file[i - 1].cell = "feed"
  BY <1>1, <1>3
<1>7. i = Len(file) \/ file[i + 1].cell = "feed"
  BY <1>1, <1>3 DEF i
<1> QED
  BY <1>4, <1>5, <1>6, <1>7 DEF Lines, IsLine, IsText, i

LEMMA SavedIsLoaded == OrderInv /\ SavedInv => FinishedFlushesSurvive
<1> SUFFICES ASSUME OrderInv, SavedInv, Flushing = {}, intact
             PROVE  Precedes(saving, Loaded(file))
  BY DEF FinishedFlushesSurvive
<1> DEFINE n == Len(saving)
<1>1. TypeOK /\ saving \in Seq(1 .. recorded) /\ n \in Nat /\ file \in Seq(Cell)
  BY LenProperties DEF OrderInv, TypeOK
<1>2. Whole(2 * n) /\ \A l \in 1 .. n : file[LineAt(l)].event = saving[l]
  BY DEF SavedInv
<1> HIDE DEF n
<1>3. \A l \in 1 .. n : LineAt(l) \in Lines(file)
  <2>1. \A l \in 1 .. n : l \in Nat \ {0} /\ LineAt(l) < 2 * n
    BY <1>1 DEF LineAt
  <2>2. 2 * n \in Nat
    BY <1>1
  <2> QED
    BY <1>1, <1>2, <2>1, <2>2, WholeLines, LenProperties DEF LineAt
<1>4. n <= Len(Loaded(file)) /\ \A l \in 1 .. n : Loaded(file)[l] = file[LineAt(l)].event
  BY <1>1, <1>3, LoadedStarts
<1>5. Loaded(file) \in Seq(1 .. recorded)
  BY <1>1, LoadedProperties DEF OrderInv, TextsInOrder
<1> QED
  BY <1>1, <1>2, <1>4, <1>5, PrecedesByElements DEF n

\* Flushes that overlap and empty the file under each other end with a file that
\* holds all events of the latest truncation, unless one fails or is cut off
\* (flush_to_disk, load_from_path).
THEOREM FlushesSurvive == Spec => []FinishedFlushesSurvive
<1>1. Init => SavedInv
  <2> SUFFICES ASSUME Init PROVE SavedInv
    OBVIOUS
  <2>1. Flushing = {} /\ Len(saving) = 0 /\ Len(file) = 0
    BY EmptySeq DEF Init, Flushing, Idle
  <2>2. Whole(2 * Len(saving))
    BY <2>1 DEF Whole
  <2> QED
    BY <2>1, <2>2 DEF SavedInv
<1> QED
  BY <1>1, NextSaved, SavedIsLoaded, OrderInvAlways, PTL DEF Spec

-----------------------------------------------------------------------------
(* What is lost *)

\* A file that ends so holds the lines up to there and no others.
LEMMA EndIsLoaded ==
  ASSUME TypeOK, NEW m \in Nat, EndsAt(m)
  PROVE  \E n \in Nat :
           /\ Len(Loaded(file)) = n
           /\ \A l \in Nat \ {0} : IsText(LineAt(l)) <=> l \in 1 .. n
           /\ \A l \in 1 .. n : Loaded(file)[l] = file[LineAt(l)].event
<1>1. Len(file) \in Nat /\ DOMAIN file = 1 .. Len(file)
  BY LenProperties DEF TypeOK
<1>2. /\ Whole(m)
      /\ \/ Len(file) = m
         \/ Len(file) = m + 1 /\ m % 2 = 0 /\ file[m + 1].cell \in {"torn", "garbled"}
  BY DEF EndsAt
<1>3. PICK n \in Nat : m = 2 * n \/ m = 2 * n - 1
  <2>1. (m + 1) \div 2 \in Nat /\ (m = 2 * ((m + 1) \div 2) \/ m = 2 * ((m + 1) \div 2) - 1)
    OBVIOUS
  <2> QED
    BY <2>1
<1>4. ASSUME NEW l \in 1 .. n PROVE LineAt(l) \in Lines(file) /\ IsText(LineAt(l))
  <2>1. l \in Nat \ {0} /\ (LineAt(l) < m \/ (LineAt(l) = m /\ m % 2 # 0))
    BY <1>3 DEF LineAt
  <2>2. m % 2 # 0 => Len(file) = m
    BY <1>2
  <2> QED
    BY <1>2, <2>1, <2>2, WholeLines
<1>5. ASSUME NEW i, IsText(i) PROVE i <= LineAt(n)
  <2>1. i \in 1 .. Len(file) /\ file[i].cell = "text"
    BY <1>5 DEF IsText
  <2>2. i % 2 # 0
    BY <1>1, <2>1 DEF TypeOK
  <2>3. i <= m
    <3>1. CASE Len(file) = m
      BY <2>1, <3>1
    <3>2. CASE Len(file) = m + 1 /\ file[m + 1].cell # "text"
      <4>1. i \in 1 .. m + 1 /\ i # m + 1
        BY <2>1, <3>2
      <4> QED
        BY <4>1
    <3>3. file[m + 1].cell \in {"torn", "garbled"} => file[m + 1].cell # "text"
      OBVIOUS
    <3> QED
      BY <1>2, <3>1, <3>2, <3>3
  <2> QED
    BY <1>1, <1>3, <2>1, <2>2, <2>3 DEF LineAt
<1>6. \A i \in Lines(file) : i <= LineAt(n)
  BY <1>5 DEF Lines, IsLine, IsText
<1>7. Len(Loaded(file)) = n /\ \A l \in 1 .. n : Loaded(file)[l] = file[LineAt(l)].event
  BY <1>4, <1>6, LoadedStarts
<1>8. ASSUME NEW l \in Nat \ {0}, IsText(LineAt(l)) PROVE l \in 1 .. n
  <2>1. LineAt(l) <= LineAt(n)
    BY <1>5, <1>8
  <2> QED
    BY <2>1 DEF LineAt
<1> QED
  BY <1>4, <1>7, <1>8

\* Whatever a flusher writes matches the memory, and so what it has to save.
LEMMA WriteMatches ==
  ASSUME OrderInv, NEW f \in Flushers, NEW cell, Writes(f, cell), UNCHANGED saving,
         up' => UNCHANGED events
  PROVE  TextsMatch'
<1>1. f \in Flushing /\ TypeOK
  BY CellWritten DEF Writes, OrderInv
<1>2. \A n \in Nat \ {0} :
        IsText(LineAt(n))' => n <= Len(events) /\ file'[LineAt(n)].event = events[n]
  BY WriteKeepsTexts
<1>3. Len(saving) \in Nat /\ \A n \in 1 .. Len(saving) : saving[n] = events[n]
  BY <1>1, LenProperties DEF OrderInv, FlushedFromMemory, TypeOK
<1>4. \A n \in Nat \ {0} : n <= Len(saving) => n \in 1 .. Len(saving)
  BY <1>3
<1> QED
  BY <1>2, <1>3, <1>4 DEF TextsMatch

\* After a write of a lone flusher the file is whole up to there, or torn there.
LEMMA LoneWriteEnds ==
  ASSUME TypeOK, NEW f \in Flushers, NEW cell, Writes(f, cell),
         NEW m \in Nat, EndsAt(m), offset[f] = m, Len(file) = m
  PROVE  \/ cell = NextCell(f) /\ EndsAt(m + 1)' /\ Len(file') = m + 1
         \/ cell # NextCell(f) /\ EndsAt(m)'
<1>1. Whole(m)
  BY DEF EndsAt
<1>2. /\ Whole(m)' /\ (cell = NextCell(f) => Whole(m + 1)')
      /\ Len(file') = m + 1 /\ file'[m + 1] = cell
  <2>1. m + 1 > Len(file)
    OBVIOUS
  <2> QED
    BY <1>1, <2>1, WriteKeepsWhole
<1>3. CASE cell = NextCell(f)
  BY <1>2, <1>3 DEF EndsAt
<1>4. CASE cell # NextCell(f)
  <2>1. m % 2 = 0 /\ cell.cell \in {"torn", "garbled"}
    BY <1>4 DEF Writes, Cut
  <2> QED
    BY <1>2, <1>4, <2>1 DEF EndsAt
<1> QED
  BY <1>3, <1>4

LEMMA NextTail == OrderInv /\ TailInv /\ [Next]_vars => TailInv'
<1> SUFFICES ASSUME OrderInv, TailInv, [Next]_vars, alone' PROVE TailInv'
  BY DEF TailInv
<1>1. TypeOK /\ Len(saving) \in Nat /\ Len(events) \in Nat /\ Len(file) \in Nat
  BY LenProperties DEF OrderInv, TypeOK
<1>2. TailInv' <=>
        /\ \A f, g \in Flushing' : f = g
        /\ \E m \in Nat : EndsAt(m)' /\ \A f \in Flushing' : offset'[f] = m /\ Len(file') = m
        /\ TextsMatch'
  BY DEF TailInv
<1>3. alone => /\ \A f, g \in Flushing : f = g
               /\ \E m \in Nat : EndsAt(m) /\ \A f \in Flushing : offset[f] = m /\ Len(file) = m
               /\ TextsMatch
  BY DEF TailInv
<1>4. ASSUME alone, UNCHANGED file, Flushing' \subseteq Flushing,
             \A f \in Flushing' : offset'[f] = offset[f], TextsMatch'
      PROVE  TailInv'
  <2>1. \A m : EndsAt(m)' <=> EndsAt(m)
    BY <1>4 DEF EndsAt, Whole
  <2> QED
    BY <1>2, <1>3, <1>4, <2>1
<1>5. CASE Record
  <2>1. /\ UNCHANGED <<up, file, offset, saving, alone, complete>> /\ events' = Append(events, recorded + 1)
    BY <1>5 DEF Record
  <2>2. Len(events') = Len(events) + 1 /\ \A n \in 1 .. Len(events) : events'[n] = events[n]
    <3>1. events \in Seq(Nat) /\ recorded + 1 \in Nat
      <4>1. events \in Seq(1 .. recorded) /\ recorded \in Nat /\ 1 .. recorded \subseteq Nat
        BY <1>1, PersistAssumption DEF TypeOK
      <4> QED
        BY <4>1, SeqMonotonic
    <3> QED
      BY <2>1, <3>1, AppendProperties
  <2>3. TextsMatch'
    <3>1. \A n \in Nat \ {0} : n <= Len(events) => n <= Len(events') /\ events'[n] = events[n]
      BY <1>1, <2>2
    <3> QED
      BY <1>3, <2>1, <3>1 DEF TextsMatch, IsText
  <2> QED
    BY <1>4, <2>1, <2>3 DEF Flushing, Idle
<1>6. CASE UNCHANGED vars
  <2>1. TextsMatch'
    BY <1>3, <1>6 DEF vars, TextsMatch, IsText
  <2> QED
    BY <1>4, <1>6, <2>1 DEF vars, Flushing, Idle
<1>7. ASSUME NEW f \in Flushers, Open(f) PROVE TailInv'
  <2>1. /\ file' = <<>> /\ offset' = [offset EXCEPT ![f] = 0] /\ Flushing = {}
    BY <1>7 DEF Open
  <2>2. 0 \in {None} \cup 0 .. 2 * Len(events) /\ 0 # None
    BY <1>1 DEF None
  <2>3. Flushing' = {f} /\ offset'[f] = 0
    BY <1>1, <2>1, <2>2, OffsetType
  <2>4. Len(file') = 0
    BY <2>1, EmptySeq
  <2>5. EndsAt(0)'
    BY <2>4 DEF EndsAt, Whole
  <2>6. TextsMatch'
    BY <2>4 DEF TextsMatch, IsText
  <2> QED
    BY <1>2, <2>3, <2>4, <2>5, <2>6
<1>8. ASSUME NEW f \in Flushers, Write(f) PROVE TailInv'
  <2>1. /\ Writes(f, NextCell(f)) /\ f \in Flushing
        /\ Flushing' = Flushing /\ offset[f] \in Nat /\ offset'[f] = offset[f] + 1
    BY <1>1, <1>8, WriteMoves
  <2>2. UNCHANGED <<up, events, saving, alone>>
    BY <1>8 DEF Write
  <2>3. \A g \in Flushing : g = f
    BY <1>3, <2>1, <2>2
  <2>4. PICK m \in Nat : EndsAt(m) /\ offset[f] = m /\ Len(file) = m
    BY <1>3, <2>1, <2>2
  <2>5. EndsAt(m + 1)' /\ Len(file') = m + 1 /\ m + 1 \in Nat
    BY <1>1, <2>1, <2>4, LoneWriteEnds
  <2>6. TextsMatch'
    BY <2>1, <2>2, WriteMatches
  <2>7. offset'[f] = m + 1
    BY <2>1, <2>4
  <2> QED
    BY <1>2, <2>1, <2>3, <2>5, <2>6, <2>7
<1>9. ASSUME NEW f \in Flushers, WriteFails(f) \/ Finish(f) PROVE TailInv'
  <2>1. /\ f \in Flushing /\ Flushing' = Flushing \ {f}
        /\ \A g \in Flushing' : offset'[g] = offset[g]
    BY <1>1, <1>9, StopMoves
  <2>2. /\ UNCHANGED <<up, events, saving, alone, complete>>
        /\ \/ UNCHANGED file
           \/ \E cell : Writes(f, cell) /\ cell \in {Cut("torn"), Cut("garbled")}
    BY <1>9 DEF WriteFails, Finish, Writes, InFlush
  <2>3. Flushing' = {}
    BY <1>3, <2>1, <2>2
  <2>4. CASE UNCHANGED file
    <3>1. TextsMatch'
      BY <1>3, <2>2, <2>4 DEF TextsMatch, IsText
    <3> QED
      BY <1>4, <2>1, <2>2, <2>4, <3>1
  <2>5. CASE \E cell : Writes(f, cell) /\ cell \in {Cut("torn"), Cut("garbled")}
    <3>1. PICK cell : Writes(f, cell)
      BY <2>5
    <3>2. PICK m \in Nat : EndsAt(m) /\ offset[f] = m /\ Len(file) = m
      BY <1>3, <2>1, <2>2
    <3>3. \E l \in Nat : EndsAt(l)'
      <4>1. m + 1 \in Nat
        OBVIOUS
      <4> QED
        BY <1>1, <3>1, <3>2, <4>1, LoneWriteEnds
    <3>4. TextsMatch'
      BY <2>2, <3>1, WriteMatches
    <3> QED
      BY <1>2, <2>3, <3>3, <3>4
  <2> QED
    BY <2>2, <2>4, <2>5
<1>10. CASE Crash
  <2>1. Flushing' = {} /\ up' = FALSE /\ UNCHANGED <<saving, alone>>
    BY <1>10 DEF Crash, Flushing, Idle
  <2>2. UNCHANGED file \/ \E f \in Flushers : \E cell : Writes(f, cell)
    BY <1>10 DEF Crash, Writes, InFlush
  <2>3. CASE UNCHANGED file
    <3>1. TextsMatch'
      BY <1>3, <2>1, <2>3 DEF TextsMatch, IsText
    <3> QED
      BY <1>4, <2>1, <2>3, <3>1
  <2>4. CASE \E f \in Flushers : \E cell : Writes(f, cell)
    <3>1. PICK f \in Flushers : \E cell : Writes(f, cell)
      BY <2>4
    <3>2. PICK cell : Writes(f, cell)
      BY <3>1
    <3>3. f \in Flushing
      BY <1>1, <3>2, CellWritten DEF Writes
    <3>4. PICK m \in Nat : EndsAt(m) /\ offset[f] = m /\ Len(file) = m
      BY <1>3, <2>1, <3>3
    <3>5. \E l \in Nat : EndsAt(l)'
      <4>1. m + 1 \in Nat
        OBVIOUS
      <4> QED
        BY <1>1, <3>2, <3>4, <4>1, LoneWriteEnds
    <3>6. TextsMatch'
      BY <2>1, <3>2, WriteMatches
    <3> QED
      BY <1>2, <2>1, <3>5, <3>6
  <2> QED
    BY <2>2, <2>3, <2>4
<1>11. CASE Restart
  <2>1. (complete' => events' = Loaded(file)) /\ UNCHANGED <<file, offset, saving, alone>>
    BY <1>11 DEF Restart
  <2>2. PICK m \in Nat : EndsAt(m)
    BY <1>3, <2>1
  <2>3. ASSUME NEW n \in Nat \ {0}, IsText(LineAt(n))
        PROVE  n <= Len(Loaded(file)) /\ Loaded(file)[n] = file[LineAt(n)].event
    BY <1>1, <2>2, <2>3, EndIsLoaded
  <2>4. TextsMatch'
    BY <1>3, <2>1, <2>3 DEF TextsMatch, IsText
  <2> QED
    BY <1>4, <2>1, <2>4 DEF Flushing, Idle
<1> QED
  BY <1>5, <1>6, <1>7, <1>8, <1>9, <1>10, <1>11 DEF Next, FlushStep

\* What can be loaded of a file with matching texts up to its end is a first part
\* of what was to be saved, and of a memory that no load cut short.
LEMMA TailIsLost == OrderInv /\ TailInv => OnlyATailIsLost
<1> SUFFICES ASSUME OrderInv, TailInv, alone
             PROVE  /\ up /\ complete => Precedes(Loaded(file), events)
                    /\ Precedes(Loaded(file), saving) \/ Precedes(saving, Loaded(file))
  BY DEF OnlyATailIsLost
<1> DEFINE loaded == Loaded(file)
<1>1. /\ TypeOK /\ loaded \in Seq(1 .. recorded) /\ Len(loaded) \in Nat
      /\ events \in Seq(1 .. recorded) /\ Len(events) \in Nat
      /\ saving \in Seq(1 .. recorded) /\ Len(saving) \in Nat
  BY LoadedProperties, LenProperties DEF OrderInv, TypeOK, TextsInOrder
<1>2. PICK m \in Nat : EndsAt(m)
  BY DEF TailInv
<1>3. \A n \in 1 .. Len(loaded) : n \in Nat \ {0} /\ IsText(LineAt(n)) /\ loaded[n] = file[LineAt(n)].event
  BY <1>1, <1>2, EndIsLoaded
<1> HIDE DEF loaded
<1>4. TextsMatch
  BY DEF TailInv
<1>5. up /\ complete => Precedes(loaded, events)
  <2>1. ASSUME up, complete, NEW n \in 1 .. Len(loaded) PROVE n <= Len(events) /\ loaded[n] = events[n]
    BY <1>3, <1>4, <2>1 DEF TextsMatch
  <2>2. up /\ complete => Len(loaded) <= Len(events)
    BY <1>1, <2>1
  <2> QED
    BY <1>1, <2>1, <2>2, PrecedesByElements
<1>6. \A n \in 1 .. Len(loaded) : n <= Len(saving) => loaded[n] = saving[n]
  BY <1>3, <1>4 DEF TextsMatch
<1>7. ASSUME Len(loaded) <= Len(saving) PROVE Precedes(loaded, saving)
  BY <1>1, <1>6, <1>7, PrecedesByElements
<1>8. ASSUME Len(saving) <= Len(loaded) PROVE Precedes(saving, loaded)
  <2>1. \A n \in 1 .. Len(saving) : saving[n] = loaded[n]
    BY <1>1, <1>6, <1>8
  <2> QED
    BY <1>1, <1>8, <2>1, PrecedesByElements
<1> QED
  BY <1>1, <1>5, <1>7, <1>8 DEF loaded

\* A flush that fails or is cut off with no other beside it costs the file the
\* latest events only, at whatever write it happens, and the file holds nothing
\* that the memory lacks unless the latest load had an error (flush_to_disk,
\* load_from_path).
THEOREM LosesOnlyATail == Spec => []OnlyATailIsLost
<1>1. Init => TailInv
  <2> SUFFICES ASSUME Init PROVE TailInv
    OBVIOUS
  <2>1. Flushing = {} /\ Len(file) = 0
    BY EmptySeq DEF Init, Flushing, Idle
  <2>2. EndsAt(0) /\ TextsMatch
    BY <2>1 DEF EndsAt, Whole, TextsMatch, IsText
  <2> QED
    BY <2>1, <2>2 DEF TailInv
<1> QED
  BY <1>1, NextTail, TailIsLost, OrderInvAlways, PTL DEF Spec
=============================================================================
