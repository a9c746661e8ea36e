---------------------------- MODULE JournalProofs ----------------------------
(***************************************************************************)
(* Proofs about AuditJournal, for any number of rows, sizes, renamed files *)
(* and faults: what a scan finds after appends, tears and renames, which   *)
(* depends on where an append goes and not on what the sink counts; and    *)
(* how large the file gets, which depends on what the sink counts.         *)
(***************************************************************************)
EXTENDS AuditJournal, FiniteSetTheorems, TLAPS

-----------------------------------------------------------------------------
(* One append.                                                             *)

LEMMA LeftIsOneChunk ==
  ASSUME NEW row \in Row, NEW bytes \in Nat \ {0}, NEW kept \in 1..Cost(bytes)
  PROVE  \E chunk \in Chunk :
           /\ Left(row, bytes, kept) = <<chunk>>
           /\ chunk.row = row /\ chunk.bytes = kept
           /\ chunk.part = "line" <=> kept = Cost(bytes)
<1> DEFINE part  == IF kept = Cost(bytes) THEN "line" ELSE IF kept = bytes THEN "event" ELSE "piece"
           chunk == [row |-> row, bytes |-> kept, part |-> part]
<1>1. kept \in Nat /\ kept # 0
  BY DEF Cost
<1>2. Left(row, bytes, kept) = <<chunk>>
  BY <1>1 DEF Left
<1>3. part \in {"line", "event", "piece"} /\ (part = "line" <=> kept = Cost(bytes))
  OBVIOUS
<1>4. chunk \in Chunk /\ chunk.row = row /\ chunk.bytes = kept /\ chunk.part = part
  <2> HIDE DEF part
  <2> QED
    BY <1>1, <1>3 DEF Chunk
<1>5. QED
  BY <1>2, <1>3, <1>4

LEMMA LeftNothing ==
  ASSUME NEW row, NEW bytes
  PROVE  Left(row, bytes, 0) = <<>>
BY DEF Left

-----------------------------------------------------------------------------
(* What a scan makes of a file that gets one more chunk.                   *)

LEMMA Appended ==
  ASSUME NEW file \in Seq(Chunk), NEW chunk \in Chunk
  PROVE  LET longer == file \o <<chunk>> IN
         /\ longer \in Seq(Chunk)
         /\ Len(longer) = Len(file) + 1
         /\ longer[Len(file) + 1] = chunk
         /\ \A i \in 1..Len(file) : longer[i] = file[i]
         /\ DOMAIN longer = 1..(Len(file) + 1)
         /\ Torn(longer) <=> chunk.part # "line"
BY DEF Torn, Last

\* The line ends stay, the new one is added.
LEMMA LineEndsOfAppended ==
  ASSUME NEW file \in Seq(Chunk), NEW chunk \in Chunk
  PROVE  /\ LineEnds(file \o <<chunk>>) =
              LineEnds(file) \cup (IF chunk.part = "line" THEN {Len(file) + 1} ELSE {})
         /\ LineEnds(file) \subseteq 1..Len(file)
BY Appended DEF LineEnds

\* The last position of a file is a line end, or the file is torn or empty.
LEMMA TornAtTheEnd ==
  ASSUME NEW file \in Seq(Chunk)
  PROVE  Torn(file) <=> file # <<>> /\ Len(file) \notin LineEnds(file)
BY DEF Torn, Last, LineEnds

LEMMA ParsesOfAppended ==
  ASSUME NEW file \in Seq(Chunk), NEW chunk \in Chunk
  PROVE  /\ \A i \in LineEnds(file) : Parses(file \o <<chunk>>, i) <=> Parses(file, i)
         /\ Parses(file \o <<chunk>>, Len(file) + 1) <=> ~Torn(file)
<1> DEFINE longer == file \o <<chunk>>
<1>1. /\ LineEnds(longer) \cap 1..Len(file) = LineEnds(file)
      /\ LineEnds(file) \subseteq 1..Len(file) /\ Len(file) \in Nat
  BY LineEndsOfAppended
<1>2. file = <<>> <=> Len(file) = 0
  OBVIOUS
<1> HIDE DEF longer
<1>3. ASSUME NEW i \in LineEnds(file)
      PROVE  Parses(longer, i) <=> Parses(file, i)
  <2>1. i \in 1..Len(file) /\ (i = 1 \/ i - 1 \in 1..Len(file))
    BY <1>1
  <2>2. QED
    BY <1>1, <2>1 DEF Parses
<1>4. Parses(longer, Len(file) + 1) <=> ~Torn(file)
  <2>1. Len(file) + 1 = 1 <=> file = <<>>
    BY <1>1, <1>2
  <2>2. Len(file) + 1 - 1 = Len(file)
    BY <1>1
  <2>3. file # <<>> => (Len(file) \in LineEnds(longer) <=> Len(file) \in LineEnds(file))
    BY <1>1, <1>2
  <2>4. QED
    BY <2>1, <2>2, <2>3, TornAtTheEnd DEF Parses
<1>5. QED
  BY <1>3, <1>4 DEF longer

\* A file that grows keeps the rows that a scan confirmed, and a line that is
\* not appended behind a tear is confirmed.
LEMMA ConfirmedGrows ==
  ASSUME NEW file \in Seq(Chunk), NEW chunk \in Chunk
  PROVE  /\ Confirmed(file) \subseteq Confirmed(file \o <<chunk>>)
         /\ chunk.part = "line" /\ ~Torn(file) => chunk.row \in Confirmed(file \o <<chunk>>)
<1> DEFINE longer == file \o <<chunk>>
<1>1. /\ \A i \in LineEnds(file) : longer[i] = file[i] /\ i \in LineEnds(longer)
      /\ longer[Len(file) + 1] = chunk
      /\ chunk.part = "line" => Len(file) + 1 \in LineEnds(longer)
  BY Appended, LineEndsOfAppended
<1>2. /\ \A i \in LineEnds(file) : Parses(longer, i) <=> Parses(file, i)
      /\ Parses(longer, Len(file) + 1) <=> ~Torn(file)
  BY ParsesOfAppended
<1> HIDE DEF longer
<1>3. QED
  BY <1>1, <1>2 DEF Confirmed, longer

\* What a scan keeps out grows by a tear, and by nothing else.
LEMMA IsolatedGrows ==
  ASSUME NEW file \in Seq(Chunk), NEW chunk \in Chunk
  PROVE  /\ Isolated(file) \in Nat /\ Isolated(file \o <<chunk>>) \in Nat
         /\ chunk.part = "line" => Isolated(file \o <<chunk>>) = Isolated(file)
         /\ Isolated(file \o <<chunk>>) <= Isolated(file) + 1
<1> DEFINE longer == file \o <<chunk>>
           Bad(f) == {i \in LineEnds(f) : ~Parses(f, i)}
<1>1. IsFiniteSet(Bad(file)) /\ Cardinality(Bad(file)) \in Nat /\ Len(file) + 1 \notin Bad(file)
  <2>1. Bad(file) \subseteq 1..Len(file)
    BY LineEndsOfAppended
  <2>2. IsFiniteSet(1..Len(file))
    BY FS_Interval
  <2>3. QED
    BY <2>1, <2>2, FS_Subset, FS_CardinalityType
<1>2. Bad(longer) = Bad(file) \cup (IF chunk.part = "line" /\ Torn(file) THEN {Len(file) + 1} ELSE {})
  BY LineEndsOfAppended, ParsesOfAppended
<1>3. Torn(longer) <=> chunk.part # "line"
  BY Appended
<1>4. /\ Isolated(file) = Cardinality(Bad(file)) + (IF Torn(file) THEN 1 ELSE 0)
      /\ Isolated(longer) = Cardinality(Bad(longer)) + (IF Torn(longer) THEN 1 ELSE 0)
  BY DEF Isolated
<1> HIDE DEF Bad, longer
<1>5. Cardinality(Bad(longer)) =
        Cardinality(Bad(file)) + (IF chunk.part = "line" /\ Torn(file) THEN 1 ELSE 0)
  <2>1. CASE chunk.part = "line" /\ Torn(file)
    <3>1. Bad(longer) = Bad(file) \cup {Len(file) + 1}
      BY <1>2, <2>1
    <3>2. Cardinality(Bad(file) \cup {Len(file) + 1}) = Cardinality(Bad(file)) + 1
      BY <1>1, FS_AddElement
    <3>3. QED
      BY <2>1, <3>1, <3>2
  <2>2. CASE ~(chunk.part = "line" /\ Torn(file))
    <3>1. Bad(longer) = Bad(file)
      BY <1>2, <2>2
    <3>2. QED
      BY <1>1, <2>2, <3>1
  <2>3. QED
    BY <2>1, <2>2
<1>6. QED
  BY <1>1, <1>3, <1>4, <1>5 DEF longer

LEMMA IsolatedIsNat ==
  ASSUME NEW file \in Seq(Chunk)
  PROVE  Isolated(file) \in Nat
<1> DEFINE Bad == {i \in LineEnds(file) : ~Parses(file, i)}
<1>1. IsFiniteSet(1..Len(file)) /\ Bad \subseteq 1..Len(file)
  BY FS_Interval DEF LineEnds
<1>2. Cardinality(Bad) \in Nat
  BY <1>1, FS_Subset, FS_CardinalityType
<1>3. Isolated(file) = Cardinality(Bad) + (IF Torn(file) THEN 1 ELSE 0)
  BY DEF Isolated
<1> HIDE DEF Bad
<1>4. QED
  BY <1>2, <1>3

LEMMA OfTheEmptyFile ==
  /\ <<>> \in Seq(Chunk) /\ ~Torn(<<>>) /\ Confirmed(<<>>) = {} /\ Isolated(<<>>) = 0
<1>1. <<>> \in Seq(Chunk)
  OBVIOUS
<1>2. LineEnds(<<>>) = {}
  BY DEF LineEnds
<1>3. ~Torn(<<>>)
  BY DEF Torn
<1>4. {i \in LineEnds(<<>>) : ~Parses(<<>>, i)} = {}
  BY <1>2
<1>5. Isolated(<<>>) = 0
  BY <1>3, <1>4, FS_EmptySet DEF Isolated
<1>6. QED
  BY <1>1, <1>2, <1>3, <1>5 DEF Confirmed

-----------------------------------------------------------------------------
(* The steps.                                                              *)

Tears == IF Torn(disk) THEN 1 ELSE 0

\* Every tear has hidden one row at most, or is still at the end of the file.
IInv ==
  /\ disk \in Seq(Chunk) /\ emitted \in Nat /\ torn \in Nat
  /\ IsFiniteSet(hidden)
  /\ ToldIsFound
  /\ Cardinality(hidden) + Tears <= torn
  /\ Isolated(disk) <= torn

LEMMA InitIInv == Init => IInv
<1> SUFFICES ASSUME Init PROVE IInv
  OBVIOUS
<1>1. disk \in Seq(Chunk) /\ ~Torn(disk) /\ Isolated(disk) = 0
  BY OfTheEmptyFile DEF Init
<1>2. IsFiniteSet(hidden) /\ Cardinality(hidden) = 0
  BY FS_EmptySet DEF Init
<1>3. emitted = 0 /\ torn = 0 /\ ToldIsFound
  BY DEF Init, ToldIsFound
<1>4. Cardinality(hidden) + Tears <= torn
  BY <1>1, <1>2, <1>3 DEF Tears
<1>5. QED
  BY <1>1, <1>2, <1>3, <1>4 DEF IInv

\* The renamed files stay, except the one of this millisecond.
OthersStay == \A t \in DOMAIN old : t \in DOMAIN old' /\ (t # now => old'[t] = old[t])

\* Making room moves rows and loses only those of a file that is replaced.
LEMMA RoomMade ==
  ASSUME IInv, NEW bytes, NEW start, NEW base, NEW failures, MakeRoom(bytes, start, base, failures)
  PROVE  /\ start = disk \/ start = <<>>
         /\ start \in Seq(Chunk)
         /\ Confirmed(disk) \cup OldRows \subseteq Confirmed(start) \cup OldRows' \cup replaced'
         /\ replaced \subseteq replaced'
         /\ Confirmed(disk) \subseteq Confirmed(start) \cup OldRows'
         /\ OthersStay
<1>1. CASE start = disk /\ UNCHANGED <<old, replaced>>
  BY <1>1 DEF IInv, OldRows, OthersStay
<1>2. CASE start = <<>> /\ Rename
  <2>1. DOMAIN old' = DOMAIN old \cup {now}
    BY <1>2 DEF Rename
  <2>2. old'[now] = disk
    BY <1>2 DEF Rename
  <2>3. \A t \in DOMAIN old : t # now => old'[t] = old[t]
    BY <1>2 DEF Rename
  <2>4. \A t \in DOMAIN old : t = now => Confirmed(old[t]) \subseteq replaced'
    BY <1>2 DEF Rename
  <2>5. Confirmed(disk) \subseteq OldRows'
    BY <2>1, <2>2 DEF OldRows
  <2>6. OldRows \subseteq OldRows' \cup replaced'
    BY <2>1, <2>3, <2>4 DEF OldRows
  <2>7. OthersStay
    BY <2>1, <2>3 DEF OthersStay
  <2>8. QED
    BY <1>2, <2>5, <2>6, <2>7, OfTheEmptyFile DEF Rename
<1>3. QED
  BY <1>1, <1>2 DEF MakeRoom

\* What an append leaves behind `start`.
LEMMA AppendKeeps ==
  ASSUME IInv, NEW start, start = disk \/ start = <<>>, start \in Seq(Chunk),
         NEW row \in Row, NEW bytes \in Nat \ {0}, NEW kept \in 0..Cost(bytes),
         disk' = start \o Left(row, bytes, kept)
  PROVE  /\ disk' \in Seq(Chunk)
         /\ Confirmed(start) \subseteq Confirmed(disk')
         /\ kept = 0 => Torn(disk') = Torn(start) /\ Isolated(disk') <= torn
         /\ kept = Cost(bytes) => /\ ~Torn(disk') /\ Isolated(disk') <= torn
                                  /\ ~Torn(start) => row \in Confirmed(disk')
         /\ Isolated(disk') <= torn + 1
         /\ Torn(start) => Torn(disk)
<1>1. Isolated(start) \in Nat /\ Isolated(start) <= torn /\ (Torn(start) => Torn(disk)) /\ torn \in Nat
  <2>1. Isolated(start) \in Nat
    BY IsolatedIsNat
  <2>2. CASE start = disk
    BY <2>1, <2>2 DEF IInv
  <2>3. CASE start = <<>>
    BY <2>1, <2>3, OfTheEmptyFile DEF IInv
  <2>4. QED
    BY <2>2, <2>3
<1>2. CASE kept = 0
  <2>1. disk' = start
    BY <1>2, LeftNothing
  <2>2. kept # Cost(bytes)
    BY <1>2 DEF Cost
  <2>3. QED
    BY <1>1, <2>1, <2>2
<1>3. CASE kept # 0
  <2>1. kept \in 1..Cost(bytes)
    BY <1>3 DEF Cost
  <2>2. PICK chunk \in Chunk : /\ Left(row, bytes, kept) = <<chunk>>
                               /\ chunk.row = row /\ (chunk.part = "line" <=> kept = Cost(bytes))
    BY <2>1, LeftIsOneChunk
  <2>3. disk' = start \o <<chunk>>
    BY <2>2
  <2>4. disk' \in Seq(Chunk) /\ (Torn(disk') <=> chunk.part # "line")
    BY <2>3, Appended
  <2>5. /\ Isolated(disk') \in Nat
        /\ chunk.part = "line" => Isolated(disk') = Isolated(start)
        /\ Isolated(disk') <= Isolated(start) + 1
    BY <2>3, IsolatedGrows
  <2>6. /\ Confirmed(start) \subseteq Confirmed(disk')
        /\ chunk.part = "line" /\ ~Torn(start) => chunk.row \in Confirmed(disk')
    BY <2>3, ConfirmedGrows
  <2>7. QED
    BY <1>1, <1>3, <2>2, <2>4, <2>5, <2>6
<1>4. QED
  BY <1>2, <1>3

LEMMA LandingKeeps ==
  ASSUME IInv, NEW bytes \in Nat \ {0}, NEW start, NEW base, NEW failures,
         emitted' \in Row, MakeRoom(bytes, start, base, failures), Lands(bytes, start, base)
  PROVE  /\ disk' \in Seq(Chunk) /\ torn' \in Nat
         /\ IsFiniteSet(hidden') /\ ToldIsFound'
         /\ Cardinality(hidden') + Tears' <= torn' /\ Isolated(disk') <= torn'
         /\ Confirmed(disk) \subseteq Confirmed(disk') \cup OldRows' /\ OthersStay
<1>1. /\ start = disk \/ start = <<>>
      /\ start \in Seq(Chunk) /\ replaced \subseteq replaced'
      /\ Confirmed(disk) \cup OldRows \subseteq Confirmed(start) \cup OldRows' \cup replaced'
      /\ Confirmed(disk) \subseteq Confirmed(start) \cup OldRows' /\ OthersStay
  BY RoomMade
<1>2. /\ disk' = start \o Left(emitted', bytes, Cost(bytes))
      /\ told' = told \cup {emitted'} /\ torn' = torn
      /\ hidden' = IF Torn(start) THEN hidden \cup {emitted'} ELSE hidden
  BY DEF Lands
<1>3. Cost(bytes) \in 0..Cost(bytes) /\ Cost(bytes) # 0
  BY DEF Cost
<1>4. /\ disk' \in Seq(Chunk) /\ Confirmed(start) \subseteq Confirmed(disk')
      /\ ~Torn(disk') /\ Isolated(disk') <= torn /\ (Torn(start) => Torn(disk))
      /\ ~Torn(start) => emitted' \in Confirmed(disk')
  BY <1>1, <1>2, <1>3, AppendKeeps
<1>5. IsFiniteSet(hidden') /\ Cardinality(hidden') + Tears' <= torn'
  <2>1. /\ IsFiniteSet(hidden) /\ Cardinality(hidden) \in Nat /\ torn \in Nat
        /\ Cardinality(hidden) + Tears <= torn
    BY FS_CardinalityType DEF IInv
  <2>2. Tears' = 0
    BY <1>4 DEF Tears
  <2>3. CASE Torn(start)
    <3>1. Tears = 1 /\ hidden' = hidden \cup {emitted'}
      BY <1>2, <1>4, <2>3 DEF Tears
    <3>2. IsFiniteSet(hidden') /\ Cardinality(hidden') <= Cardinality(hidden) + 1 /\ Cardinality(hidden') \in Nat
      <4>1. CASE emitted' \in hidden
        <5>1. hidden' = hidden
          BY <3>1, <4>1
        <5>2. QED
          BY <2>1, <5>1
      <4>2. CASE emitted' \notin hidden
        BY <2>1, <3>1, <4>2, FS_AddElement
      <4>3. QED
        BY <4>1, <4>2
    <3>3. QED
      BY <1>2, <2>1, <2>2, <3>1, <3>2
  <2>4. CASE ~Torn(start)
    <3>1. hidden' = hidden /\ torn' = torn
      BY <1>2, <2>4
    <3>2. Tears \in {0, 1} /\ Cardinality(hidden') = Cardinality(hidden)
      BY <3>1 DEF Tears
    <3>3. Cardinality(hidden) + 0 <= torn
      BY <2>1, <3>2
    <3>4. QED
      BY <2>1, <2>2, <3>1, <3>2, <3>3
  <2>5. QED
    BY <2>3, <2>4
<1>6. ToldIsFound'
  BY <1>1, <1>2, <1>4 DEF IInv, ToldIsFound
<1>7. QED
  BY <1>1, <1>2, <1>4, <1>5, <1>6 DEF IInv

LEMMA BreakingKeeps ==
  ASSUME IInv, NEW bytes \in Nat \ {0}, NEW start, NEW base, NEW failures,
         emitted' \in Row, MakeRoom(bytes, start, base, failures), Breaks(bytes, start)
  PROVE  /\ disk' \in Seq(Chunk) /\ torn' \in Nat
         /\ IsFiniteSet(hidden') /\ ToldIsFound'
         /\ Cardinality(hidden') + Tears' <= torn' /\ Isolated(disk') <= torn'
         /\ Confirmed(disk) \subseteq Confirmed(disk') \cup OldRows' /\ OthersStay
<1>1. /\ start = disk \/ start = <<>>
      /\ start \in Seq(Chunk) /\ replaced \subseteq replaced'
      /\ Confirmed(disk) \cup OldRows \subseteq Confirmed(start) \cup OldRows' \cup replaced'
      /\ Confirmed(disk) \subseteq Confirmed(start) \cup OldRows' /\ OthersStay
  BY RoomMade
<1>2. PICK kept \in 0..bytes : /\ disk' = start \o Left(emitted', bytes, kept)
                               /\ torn' = IF kept = 0 THEN torn ELSE torn + 1
  BY DEF Breaks
<1>3. kept \in 0..Cost(bytes)
  BY DEF Cost
<1>4. /\ disk' \in Seq(Chunk) /\ Confirmed(start) \subseteq Confirmed(disk')
      /\ kept = 0 => Torn(disk') = Torn(start) /\ Isolated(disk') <= torn
      /\ Isolated(disk') <= torn + 1 /\ (Torn(start) => Torn(disk))
  BY <1>1, <1>2, <1>3, AppendKeeps
<1>5. torn \in Nat /\ torn' \in Nat /\ told' = told /\ hidden' = hidden /\ Isolated(disk') <= torn'
  BY <1>2, <1>4 DEF Breaks, IInv
<1>6. IsFiniteSet(hidden') /\ Cardinality(hidden') + Tears' <= torn'
  <2>1. IsFiniteSet(hidden) /\ Cardinality(hidden) \in Nat /\ Cardinality(hidden) + Tears <= torn
    BY FS_CardinalityType DEF IInv
  <2>2. Tears \in {0, 1} /\ Tears' \in {0, 1} /\ (kept = 0 => Tears' <= Tears)
    BY <1>4 DEF Tears
  <2>3. QED
    BY <1>2, <1>5, <2>1, <2>2
<1>7. ToldIsFound'
  BY <1>1, <1>4, <1>5 DEF IInv, ToldIsFound
<1>8. QED
  BY <1>1, <1>4, <1>5, <1>6, <1>7

\* One step, and what it leaves of the rows that were confirmed.
LEMMA Step ==
  ASSUME IInv, [Next]_vars
  PROVE  IInv' /\ Confirmed(disk) \subseteq Confirmed(disk') \cup OldRows' /\ OthersStay
<1>1. CASE disk' = disk /\ UNCHANGED <<old, told, hidden, replaced, torn>> /\ emitted' \in Nat
  BY <1>1 DEF IInv, ToldIsFound, Tears, OldRows, OthersStay
<1>2. ASSUME Emit, NEW bytes \in Bytes, Write(bytes)
      PROVE  IInv' /\ Confirmed(disk) \subseteq Confirmed(disk') \cup OldRows' /\ OthersStay
  <2>1. bytes \in Nat \ {0} /\ emitted' \in Nat /\ emitted' \in Row
    BY <1>2, AuditJournalAssumption DEF Emit, IInv, Row
  <2>2. PICK start \in {disk, <<>>}, base \in {Counted, 0}, failures \in 0..1 :
          /\ MakeRoom(bytes, start, base, failures)
          /\ Lands(bytes, start, base) \/ Breaks(bytes, start)
    BY <1>2 DEF Write
  <2>3. QED
    BY <2>1, <2>2, LandingKeeps, BreakingKeeps DEF IInv
<1>3. CASE Emit
  <2>1. emitted' \in Nat
    BY <1>3 DEF Emit, IInv
  <2>2. PICK bytes \in Bytes : Write(bytes) \/ Refuse(bytes)
    BY <1>3 DEF Emit
  <2>3. QED
    BY <1>1, <1>2, <1>3, <2>1, <2>2 DEF Refuse
<1>4. CASE Restart \/ Tick \/ UNCHANGED vars
  BY <1>1, <1>4 DEF Restart, Tick, vars, IInv
<1>5. QED
  BY <1>3, <1>4 DEF Next

LEMMA Invariance == Spec => []IInv
  BY InitIInv, Step, PTL DEF Spec

\* A row reported as written is found by a scan, unless it went behind a tear
\* or its file was replaced within a millisecond: for any number of rows,
\* faults, restarts and rotations (jey-plugin.ts fileLineSink, audit.ts).
THEOREM ToldRowsAreFound == Spec => []ToldIsFound
<1>1. IInv => ToldIsFound
  BY DEF IInv
<1>2. QED
  BY <1>1, Invariance, PTL

\* As many rows as tears are hidden at most, and a scan keeps out as many
\* lines of the file at most.
THEOREM TearsHideOneEach == Spec => []TearHidesOne
<1>1. IInv => TearHidesOne
  <2>1. SUFFICES ASSUME IInv PROVE TearHidesOne
    OBVIOUS
  <2>2. Cardinality(hidden) \in Nat /\ Tears \in {0, 1} /\ torn \in Nat
    BY <2>1, FS_CardinalityType DEF IInv, Tears
  <2>3. QED
    BY <2>1, <2>2 DEF IInv, TearHidesOne
<1>2. QED
  BY <1>1, Invariance, PTL

\* A row that a scan has confirmed in the file stays or is moved with its file,
\* and a renamed file is left alone but for a rename of the same millisecond.
THEOREM ConfirmedRowsStay == Spec => ConfirmedStays
<1>1. IInv /\ [Next]_vars =>
        [/\ Confirmed(disk) \subseteq Confirmed(disk)' \cup OldRows'
         /\ \A t \in DOMAIN old : t \in DOMAIN old' /\ (t # now => old'[t] = old[t])]_vars
  <2>1. Confirmed(disk)' = Confirmed(disk')
    BY DEF Confirmed, LineEnds, Parses
  <2>2. QED
    BY <2>1, Step DEF OthersStay
<1>2. QED
  BY <1>1, Invariance, PTL DEF ConfirmedStays, Spec

-----------------------------------------------------------------------------
(* The size of a file.                                                     *)

Places(file) == UNION {{i} \X (1..file[i].bytes) : i \in DOMAIN file}

LEMMA OneTo ==
  ASSUME NEW n \in Nat
  PROVE  IsFiniteSet(1..n) /\ Cardinality(1..n) = n
<1>1. /\ IsFiniteSet(1..n)
      /\ Cardinality(1..n) = IF 1 > n THEN 0 ELSE n - 1 + 1
  BY FS_Interval
<1>2. QED
  BY <1>1

LEMMA PlacesAreFinite ==
  ASSUME NEW file \in Seq(Chunk)
  PROVE  IsFiniteSet(Places(file)) /\ Size(file) = Cardinality(Places(file)) /\ Size(file) \in Nat
<1> DEFINE Of(i)  == {i} \X (1..file[i].bytes)
           Family == {Of(i) : i \in DOMAIN file}
           of     == [i \in DOMAIN file |-> Of(i)]
<1>1. DOMAIN file = 1..Len(file) /\ Len(file) \in Nat /\ \A i \in DOMAIN file : file[i].bytes \in Nat
  <2>1. DOMAIN file = 1..Len(file) /\ Len(file) \in Nat /\ \A i \in DOMAIN file : file[i] \in Chunk
    OBVIOUS
  <2>2. QED
    BY <2>1 DEF Chunk
<1>2. \A i \in DOMAIN file : IsFiniteSet(Of(i))
  <2>1. SUFFICES ASSUME NEW i \in DOMAIN file PROVE IsFiniteSet(Of(i))
    OBVIOUS
  <2>2. IsFiniteSet(1..file[i].bytes)
    <3>1. file[i].bytes \in Nat
      BY <1>1
    <3>2. QED
      BY <3>1, OneTo
  <2>3. IsFiniteSet({i})
    BY FS_Singleton
  <2>4. QED
    BY <2>2, <2>3, FS_Product
<1>3. IsFiniteSet(DOMAIN file)
  BY <1>1, FS_Interval
<1>4. of \in Surjection(DOMAIN file, Family)
  <2> HIDE DEF Of
  <2> QED
    BY DEF Surjection
<1>5. IsFiniteSet(Family)
  <2> HIDE DEF of, Family
  <2> QED
    BY <1>3, <1>4, FS_Surjection
<1>6. IsFiniteSet(UNION Family)
  <2>1. \A T \in Family : IsFiniteSet(T)
    <3> HIDE DEF Of
    <3> QED
      BY <1>2
  <2> HIDE DEF Family
  <2> QED
    BY <1>5, <2>1, FS_UNION
<1>7. Size(file) = Cardinality(Places(file)) /\ Places(file) = UNION Family
  BY DEF Size, Places
<1>8. QED
  <2> HIDE DEF Family
  <2> QED
    BY <1>6, <1>7, FS_CardinalityType

LEMMA SizeOfTheEmptyFile == Size(<<>>) = 0
<1>1. Places(<<>>) = {}
  BY DEF Places
<1>2. QED
  BY <1>1, FS_EmptySet DEF Size, Places

\* A file that gets one more chunk grows by the bytes of the chunk.
LEMMA SizeOfAppended ==
  ASSUME NEW file \in Seq(Chunk), NEW chunk \in Chunk
  PROVE  Size(file \o <<chunk>>) = Size(file) + chunk.bytes
<1> DEFINE longer == file \o <<chunk>>
           end    == Len(file) + 1
           Fresh  == {end} \X (1..chunk.bytes)
<1>1. /\ longer \in Seq(Chunk) /\ longer[end] = chunk
      /\ \A i \in 1..Len(file) : longer[i] = file[i]
      /\ DOMAIN longer = 1..end /\ DOMAIN file = 1..Len(file)
      /\ end \in Nat /\ end \notin 1..Len(file) /\ 1..end = 1..Len(file) \cup {end}
  BY Appended
<1>2. chunk.bytes \in Nat
  BY DEF Chunk
<1>3. IsFiniteSet(Fresh) /\ Cardinality(Fresh) = chunk.bytes
  <2>1. IsFiniteSet({end}) /\ Cardinality({end}) = 1
    BY FS_Singleton
  <2>2. IsFiniteSet(1..chunk.bytes) /\ Cardinality(1..chunk.bytes) = chunk.bytes
    BY <1>2, OneTo
  <2>3. IsFiniteSet(Fresh) /\ Cardinality(Fresh) = 1 * Cardinality(1..chunk.bytes)
    <3> HIDE DEF end
    <3> QED
      BY <2>1, <2>2, FS_Product
  <2> HIDE DEF Fresh
  <2>4. QED
    BY <1>2, <2>2, <2>3
<1> HIDE DEF longer, end
<1>4. Places(longer) = Places(file) \cup Fresh
  BY <1>1 DEF Places
<1>5. Places(file) \cap Fresh = {}
  BY <1>1 DEF Places
<1>6. IsFiniteSet(Places(file)) /\ Size(file) = Cardinality(Places(file)) /\ Size(file) \in Nat
  BY PlacesAreFinite
<1>7. Size(longer) = Cardinality(Places(longer))
  BY <1>1, PlacesAreFinite
<1> HIDE DEF Fresh
<1>8. Cardinality(Places(file) \cup Fresh) =
        Cardinality(Places(file)) + Cardinality(Fresh) - Cardinality(Places(file) \cap Fresh)
  BY <1>3, <1>6, FS_Union
<1>9. Cardinality(Places(file) \cap Fresh) = 0
  BY <1>5, FS_EmptySet
<1>10. Size(longer) = Size(file) + chunk.bytes - 0
  BY <1>3, <1>4, <1>6, <1>7, <1>8, <1>9
<1>11. QED
  BY <1>2, <1>6, <1>10 DEF longer

\* An append of `kept` bytes makes the file that much larger.
LEMMA SizeAfterAppend ==
  ASSUME NEW file \in Seq(Chunk), NEW row \in Row, NEW bytes \in Nat \ {0}, NEW kept \in 0..Cost(bytes)
  PROVE  Size(file \o Left(row, bytes, kept)) = Size(file) + kept
<1>1. CASE kept = 0
  <2>1. file \o Left(row, bytes, kept) = file
    BY <1>1, LeftNothing
  <2>2. Size(file) \in Nat
    BY PlacesAreFinite
  <2>3. Size(file) + kept = Size(file)
    BY <1>1, <2>2
  <2>4. QED
    BY <2>1, <2>3
<1>2. CASE kept # 0
  <2>1. kept \in 1..Cost(bytes)
    BY <1>2 DEF Cost
  <2>2. PICK chunk \in Chunk : Left(row, bytes, kept) = <<chunk>> /\ chunk.bytes = kept
    BY <2>1, LeftIsOneChunk
  <2>3. QED
    BY <2>2, SizeOfAppended
<1>3. QED
  BY <1>1, <1>2

\* A file that held nothing holds one chunk after the append.
LEMMA OneChunk ==
  ASSUME NEW row \in Row, NEW bytes \in Nat \ {0}
  PROVE  Len(<<>> \o Left(row, bytes, Cost(bytes))) = 1
<1>1. Cost(bytes) \in 1..Cost(bytes)
  BY DEF Cost
<1>2. PICK chunk \in Chunk : Left(row, bytes, Cost(bytes)) = <<chunk>>
  BY <1>1, LeftIsOneChunk
<1>3. QED
  BY <1>2

\* Within the limit, or one byte over it with a single line.
Fits(file) ==
  \/ Size(file) <= MaxFileBytes
  \/ Len(file) = 1 /\ Size(file) = MaxFileBytes + 1

\* Until an append or a rename fails, a count that is not zero is the size of
\* the file: after a crash or a restart it is zero and the file is measured.
Metered ==
  /\ known \in Nat /\ failed \in Nat
  /\ failed = 0 => Fits(disk) /\ (known # 0 => known = Size(disk))

\* Behind `start` there is room for the line, or nothing is there; and `base` is
\* the size of start.
LEMMA RoomIsEnough ==
  ASSUME IInv, Metered, NEW bytes \in Nat \ {0}, bytes <= MaxLineBytes,
         NEW start, NEW base, NEW failures \in 0..1, MakeRoom(bytes, start, base, failures)
  PROVE  /\ base \in Nat
         /\ failed + failures = 0 =>
              base = Size(start) /\ (Size(start) + Cost(bytes) <= MaxFileBytes \/ start = <<>>)
<1>1. Size(disk) \in Nat /\ Counted \in Nat /\ MaxFileBytes \in Nat
  BY PlacesAreFinite, AuditJournalAssumption DEF IInv, Metered, Counted
<1>2. failed = 0 => Counted = Size(disk)
  BY DEF Metered, Counted
<1>3. Cost(bytes) = bytes + 1 /\ Cost(bytes) \in Nat /\ failed \in Nat
  BY DEF Cost, Metered
<1>4. CASE ~Full(bytes) /\ start = disk /\ base = Counted
  <2>1. Counted + Cost(bytes) <= MaxFileBytes
    BY <1>1, <1>3, <1>4 DEF Full
  <2>2. QED
    BY <1>1, <1>2, <1>3, <1>4, <2>1
<1>5. CASE start = <<>> /\ base = 0
  BY <1>5, SizeOfTheEmptyFile
<1>6. CASE base = 0 /\ failures = 1
  BY <1>3, <1>6
<1>7. QED
  BY <1>4, <1>5, <1>6 DEF MakeRoom

LEMMA WriteKeepsMetered ==
  ASSUME IInv, Metered, NEW bytes \in Nat \ {0}, emitted' \in Row, Write(bytes)
  PROVE  Metered'
<1>1. PICK start \in {disk, <<>>}, base \in {Counted, 0}, failures \in 0..1 :
        /\ MakeRoom(bytes, start, base, failures)
        /\ \/ Lands(bytes, start, base) /\ failed' = failed + failures
           \/ Breaks(bytes, start) /\ known' = base /\ failed' = failed + failures + 1
           \/ Breaks(bytes, start) /\ known' = 0 /\ failed' = failed + failures
  BY DEF Write
<1>2. /\ base \in Nat
      /\ failed + failures = 0 =>
           base = Size(start) /\ (Size(start) + Cost(bytes) <= MaxFileBytes \/ start = <<>>)
  BY <1>1, RoomIsEnough DEF Write
<1>3. start \in Seq(Chunk) /\ Size(start) \in Nat /\ (start = <<>> => Size(start) = 0)
  BY <1>1, RoomMade, PlacesAreFinite, SizeOfTheEmptyFile
<1>4. /\ Cost(bytes) = bytes + 1 /\ Cost(bytes) \in Nat /\ bytes <= MaxFileBytes
      /\ failed \in Nat /\ failures \in 0..1 /\ MaxFileBytes \in Nat
  BY AuditJournalAssumption DEF Cost, Metered, Write, MaxLineBytes
<1>5. CASE Lands(bytes, start, base) /\ failed' = failed + failures
  <2>1. disk' = start \o Left(emitted', bytes, Cost(bytes)) /\ known' = base + Cost(bytes)
    BY <1>5 DEF Lands
  <2>2. Cost(bytes) \in 0..Cost(bytes)
    BY <1>4
  <2>3. Size(disk') = Size(start) + Cost(bytes)
    BY <1>3, <2>1, <2>2, SizeAfterAppend
  <2>4. known' \in Nat /\ failed' \in Nat
    BY <1>2, <1>4, <1>5, <2>1
  <2>5. start = <<>> => Len(disk') = 1
    BY <2>1, OneChunk
  <2>6. failed' = 0 => known' = Size(disk')
    BY <1>2, <1>3, <1>4, <1>5, <2>1, <2>3
  <2>7. ASSUME failed' = 0 PROVE Fits(disk')
    <3>1. CASE Size(start) + Cost(bytes) <= MaxFileBytes
      BY <2>3, <3>1 DEF Fits
    <3>2. CASE start = <<>>
      <4>1. Size(disk') = bytes + 1 /\ Len(disk') = 1
        BY <1>3, <1>4, <2>3, <2>5, <3>2
      <4>2. QED
        BY <1>4, <4>1 DEF Fits
    <3>3. QED
      BY <1>2, <1>4, <1>5, <2>7, <3>1, <3>2
  <2>8. QED
    BY <2>4, <2>6, <2>7 DEF Metered, Size, Fits
<1>6. CASE Breaks(bytes, start) /\ known' = base /\ failed' = failed + failures + 1
  <2>1. known' \in Nat /\ failed' \in Nat /\ failed' # 0
    BY <1>2, <1>4, <1>6
  <2>2. QED
    BY <2>1 DEF Metered
<1>7. CASE Breaks(bytes, start) /\ known' = 0 /\ failed' = failed + failures
  <2>1. PICK kept \in 0..bytes : disk' = start \o Left(emitted', bytes, kept)
    BY <1>7 DEF Breaks
  <2>2. kept \in 0..Cost(bytes) /\ kept <= bytes /\ kept \in Nat
    BY <1>4
  <2>3. Size(disk') = Size(start) + kept
    BY <1>3, <2>1, <2>2, SizeAfterAppend
  <2>4. known' = 0 /\ failed' \in Nat
    BY <1>4, <1>7
  <2>5. failed' = 0 => Size(start) + Cost(bytes) <= MaxFileBytes \/ start = <<>>
    BY <1>2, <1>4, <1>7
  <2>6. failed' = 0 => Size(disk') <= MaxFileBytes
    BY <1>3, <1>4, <2>2, <2>3, <2>5
  <2>7. QED
    BY <2>4, <2>6 DEF Metered, Size, Fits
<1>8. QED
  BY <1>1, <1>5, <1>6, <1>7

LEMMA MeteredInvariance == Spec => []Metered
<1>1. Init => Metered
  <2>1. SUFFICES ASSUME Init PROVE Metered
    OBVIOUS
  <2>2. disk = <<>> /\ known = 0 /\ failed = 0 /\ MaxFileBytes \in Nat
    BY <2>1, AuditJournalAssumption DEF Init
  <2>3. QED
    BY <2>2, SizeOfTheEmptyFile DEF Metered, Fits
<1>2. IInv /\ Metered /\ [Next]_vars => Metered'
  <2>1. SUFFICES ASSUME IInv, Metered, [Next]_vars PROVE Metered'
    OBVIOUS
  <2>2. CASE disk' = disk /\ failed' = failed /\ known' \in {known, 0}
    BY <2>1, <2>2 DEF Metered, Size, Fits
  <2>3. CASE Emit
    <3>1. emitted' \in Row
      BY <2>1, <2>3, AuditJournalAssumption DEF Emit, IInv, Row
    <3>2. PICK bytes \in Bytes : Write(bytes) \/ Refuse(bytes)
      BY <2>3 DEF Emit
    <3>3. CASE Write(bytes)
      BY <2>1, <3>1, <3>2, <3>3, WriteKeepsMetered, AuditJournalAssumption
    <3>4. CASE Refuse(bytes)
      BY <2>2, <3>4 DEF Refuse
    <3>5. QED
      BY <3>2, <3>3, <3>4
  <2>4. CASE Restart \/ Tick \/ UNCHANGED vars
    BY <2>2, <2>4 DEF Restart, Tick, vars
  <2>5. QED
    BY <2>1, <2>3, <2>4 DEF Next
<1>3. QED
  BY <1>1, <1>2, Invariance, PTL DEF Spec

\* The file is never larger than maxFileBytes, or one byte larger with a single
\* line in it, over any number of appends, renames, crashes and restarts, as
\* long as no append and no rename fails (jey-plugin.ts fileLineSink: `known` is
\* zero after a start and the file is measured).
THEOREM FileStaysBounded == Spec => []FileBounded
<1>1. Metered => FileBounded
  BY DEF Metered, FileBounded, Fits
<1>2. QED
  BY <1>1, MeteredInvariance, PTL

=============================================================================
