---------------------------- MODULE AuditJournal ----------------------------
(***************************************************************************)
(* The audit journal (packages/core/src/audit.ts) on the file sink of the  *)
(* DSH plugin (adapter-dsh, fileLineSink): one row per emit(), appended as *)
(* a line, the file renamed when it is full, and scanJournal reading a     *)
(* file back.  The process may die in an append, an append may fail half   *)
(* way, and a rename may fail.                                             *)
(*                                                                         *)
(* A file is the sequence of what single appends left in it.  The journal  *)
(* also counts events and asks its sink to rotate(); neither sink of the   *)
(* plugin has that method, so the count changes nothing here.              *)
(***************************************************************************)
EXTENDS Naturals, Sequences, FiniteSets, SequencesExt

CONSTANTS
  Rows,         \* bound: how many events are emitted
  Bytes,        \* sizes of a serialised event
  MaxFileBytes, \* FileSinkOptions.maxFileBytes
  Clock,        \* bound: the milliseconds that pass
  MaxFaults     \* bound: crashes, failed appends and failed renames

ASSUME AuditJournalAssumption ==
  /\ Rows \in Nat /\ Clock \in Nat /\ MaxFaults \in Nat
  /\ Bytes \subseteq Nat \ {0} /\ MaxFileBytes \in Nat

VARIABLES
  disk,      \* the file at options.path
  old,       \* time stamp -> the file that was renamed then
  now,       \* Date.now()
  known,     \* the sink's idea of the size of the file
  emitted,   \* how many events were given to emit()
  told,      \* the rows whose emit() returned written: true
  hidden,    \* rows appended behind a tear
  replaced,  \* rows of a renamed file that another one replaced
  torn,      \* how many tears were left
  failed     \* how many appends and renames failed

vars == <<disk, old, now, known, emitted, told, hidden, replaced, torn, failed>>

Stamp == 0..Clock
Row == 1..Rows

\* What one append left: the line, the event without its newline, or a piece.
Chunk == [row : Row, bytes : Nat, part : {"line", "event", "piece"}]

\* The plugin gives its journal the limit of its file sink.
MaxLineBytes == MaxFileBytes

Cost(bytes) == bytes + 1
Left(row, bytes, kept) ==
  IF kept = 0 THEN <<>>
  ELSE <<[row |-> row, bytes |-> kept,
          part |-> IF kept = Cost(bytes) THEN "line" ELSE IF kept = bytes THEN "event" ELSE "piece"]>>

\* The lengths of the chunks, added up: as many as the file has bytes.
Size(file) == Cardinality(UNION {{i} \X (1..file[i].bytes) : i \in DOMAIN file})
Torn(file) == file # <<>> /\ Last(file).part # "line"

-----------------------------------------------------------------------------
(* scanJournal.                                                            *)

LineEnds(file) == {i \in DOMAIN file : file[i].part = "line"}

\* The line that ends at i holds one event and nothing else: parseAuditLine
\* accepts it.
Parses(file, i) == i = 1 \/ i - 1 \in LineEnds(file)

Confirmed(file) == {file[i].row : i \in {j \in LineEnds(file) : Parses(file, j)}}

Isolated(file) ==
  Cardinality({i \in LineEnds(file) : ~Parses(file, i)}) + IF Torn(file) THEN 1 ELSE 0

OldRows == UNION {Confirmed(old[t]) : t \in DOMAIN old}

-----------------------------------------------------------------------------

Init ==
  /\ disk = <<>> /\ old = <<>> /\ now = 0
  /\ known = 0 /\ emitted = 0
  /\ told = {} /\ hidden = {} /\ replaced = {}
  /\ torn = 0 /\ failed = 0

\* [mutant] the file is not looked at after a restart
CountedHere == known

Counted == IF known = 0 THEN Size(disk) ELSE known
Full(bytes) == Counted + Cost(bytes) > MaxFileBytes

\* [mutant] the file is emptied instead
Truncate == UNCHANGED <<old, replaced>>

\* renameSync: a file of the same millisecond is replaced.
Rename ==
  /\ old' = [t \in DOMAIN old \cup {now} |-> IF t = now THEN disk ELSE old[t]]
  /\ replaced' = replaced \cup (IF now \in DOMAIN old THEN Confirmed(old[now]) ELSE {})

\* The first half of writeLine: the append goes behind `start`, and the sink
\* counts from `base`.  One line that alone is too long for the file is told
\* to make room where there may be no file yet.
MakeRoom(bytes, start, base, failures) ==
  \/ /\ ~Full(bytes)
     /\ start = disk /\ base = Counted /\ failures = 0
     /\ UNCHANGED <<old, replaced>>
  \/ /\ Full(bytes)
     /\ start = <<>> /\ base = 0 /\ failures = 0
     /\ Rename
  \/ /\ Full(bytes) /\ disk = <<>>
     /\ start = disk /\ base = 0 /\ failures = 0
     /\ UNCHANGED <<old, replaced>>
  \/ /\ Full(bytes)
     /\ start = disk /\ base = 0 /\ failures = 1
     /\ UNCHANGED <<old, replaced>>

\* [mutant] the newline is left to the next line
LandsOpen(bytes, start, base) ==
  /\ disk' = start \o Left(emitted', bytes, bytes)
  /\ known' = base + Cost(bytes)
  /\ told' = told \cup {emitted'}
  /\ hidden' = IF Torn(start) THEN hidden \cup {emitted'} ELSE hidden
  /\ UNCHANGED torn

\* appendFileSync writes the line, and emit() returns written: true.
Lands(bytes, start, base) ==
  /\ disk' = start \o Left(emitted', bytes, Cost(bytes))
  /\ known' = base + Cost(bytes)
  /\ told' = told \cup {emitted'}
  /\ hidden' = IF Torn(start) THEN hidden \cup {emitted'} ELSE hidden
  /\ UNCHANGED torn

\* [mutant] the error of the append is swallowed
BreaksSilently(bytes, start) ==
  /\ \E kept \in 0..bytes :
       /\ disk' = start \o Left(emitted', bytes, kept)
       /\ torn' = IF kept = 0 THEN torn ELSE torn + 1
  /\ told' = told \cup {emitted'}
  /\ UNCHANGED hidden

\* It writes less than the line: it throws and emit() returns sink-failed, or
\* the process dies and starts again.
Breaks(bytes, start) ==
  /\ \E kept \in 0..bytes :
       /\ disk' = start \o Left(emitted', bytes, kept)
       /\ torn' = IF kept = 0 THEN torn ELSE torn + 1
  /\ UNCHANGED <<told, hidden>>

Write(bytes) ==
  /\ bytes <= MaxLineBytes
  /\ \E start \in {disk, <<>>}, base \in {Counted, 0}, failures \in 0..1 :
       /\ MakeRoom(bytes, start, base, failures)
       /\ \/ Lands(bytes, start, base) /\ failed' = failed + failures
          \/ Breaks(bytes, start) /\ known' = base /\ failed' = failed + failures + 1
          \/ Breaks(bytes, start) /\ known' = 0 /\ failed' = failed + failures

\* The event is not of the declared shape, or its line is too long.
Refuse(bytes) == UNCHANGED <<disk, old, known, told, hidden, replaced, torn, failed>>

Emit ==
  /\ emitted < Rows /\ emitted' = emitted + 1
  /\ \E bytes \in Bytes : Write(bytes) \/ Refuse(bytes)
  /\ torn' + failed' <= MaxFaults
  /\ UNCHANGED now

\* The process ends between two events and is started again.
Restart ==
  /\ known # 0 /\ known' = 0
  /\ UNCHANGED <<disk, old, now, emitted, told, hidden, replaced, torn, failed>>

Tick ==
  /\ now < Clock /\ now' = now + 1
  /\ UNCHANGED <<disk, old, known, emitted, told, hidden, replaced, torn, failed>>

Next == Emit \/ Restart \/ Tick

Spec == Init /\ [][Next]_vars

-----------------------------------------------------------------------------
(* Properties.                                                             *)

TypeOK ==
  /\ disk \in Seq(Chunk)
  /\ DOMAIN old \subseteq Stamp /\ \A t \in DOMAIN old : old[t] \in Seq(Chunk)
  /\ now \in Stamp /\ known \in Nat /\ emitted \in 0..Rows
  /\ told \subseteq Row /\ hidden \subseteq told /\ replaced \subseteq told
  /\ torn \in Nat /\ failed \in Nat

\* A row that emit() reported as written is found by a scan of the file or of
\* a renamed one.  Two things take it away and nothing else: it was appended
\* behind a tear, or its file was replaced by another of the same millisecond.
ToldIsFound == told \ (hidden \cup replaced) \subseteq Confirmed(disk) \cup OldRows

\* A tear costs the line it is in: it hides at most one row that was reported
\* as written, and a scan keeps at most one line out for it.
TearHidesOne == Cardinality(hidden) <= torn /\ Isolated(disk) <= torn

\* The file stays within maxFileBytes over crashes and restarts, unless an
\* append or a rename failed in between.  One byte over is possible, for a file
\* of one line: the limit of a line is that of the file (jey-plugin.ts:308) and
\* leaves its newline out.
FileBounded ==
  failed = 0 => \/ Size(disk) <= MaxFileBytes
                \/ Len(disk) = 1 /\ Size(disk) = MaxFileBytes + 1

\* What a scan confirmed once, it confirms later, whatever fails meanwhile: a
\* row of the file stays or is moved with its file, and a renamed file is left
\* alone -- except by another rename in its own millisecond, which replaces it
\* and all its rows, although AuditJournal "never rewrites what an earlier line
\* already confirmed" (audit.ts:251).
ConfirmedStays ==
  [][/\ Confirmed(disk) \subseteq Confirmed(disk)' \cup OldRows'
     /\ \A t \in DOMAIN old : t \in DOMAIN old' /\ (t # now => old'[t] = old[t])]_vars
=============================================================================
