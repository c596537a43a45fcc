----------------------------- MODULE Scrollback -----------------------------
(***************************************************************************)
(* FileTerminalOutputStore (apps/desktop/src/main/terminal/scrollback.ts)  *)
(* for one terminal: a file of records that every append extends and may   *)
(* compact, a second file with the byte cursors of the records, a cached   *)
(* next sequence, and the chain of promises that runs one task at a time.  *)
(*                                                                         *)
(* A task is a chain of awaited file operations; each may fail (Faults)    *)
(* and the process may die between any two of them.  A chunk of data is    *)
(* known by the task that appends it and by its length in bytes.           *)
(***************************************************************************)
EXTENDS Integers, Sequences, FiniteSets

LOCAL INSTANCE SequencesExt
LOCAL INSTANCE FiniteSetsExt
LOCAL INSTANCE TLC

CONSTANTS
    Lengths,        \* lengths in bytes of the data that is appended
    ByteLimit,      \* byteLimit
    InlineCursors,  \* byteLimit >= 1024: records carry their own cursors
    Faults,         \* file operations that may fail
    MaxTasks,       \* bound: calls of the store
    MaxQueued,      \* bound: calls that have not settled
    MaxCrashes      \* bound: deaths of the process

FaultKinds == {"append", "cursors", "compaction", "retain"}

ASSUME ScrollbackAssumption ==
    /\ Lengths \subseteq Nat \ {0}
    /\ ByteLimit \in Nat \ {0}
    /\ InlineCursors \in BOOLEAN
    /\ Faults \subseteq FaultKinds
    /\ MaxTasks \in Nat /\ MaxQueued \in Nat /\ MaxCrashes \in Nat

VARIABLES
    file,           \* the complete records of <id>.jsonl
    torn,           \* whether an unterminated record follows them
    cursors,        \* <id>.cursor.json: sequence -> cursors
    nextSequence,   \* the cached sequence of nextSequences, or NotCached
    issued,         \* how many calls were made; a task is the number of one
    tasks,          \* the tasks that have not settled
    queueTail,      \* the task queues holds for the terminal, or NoTask
    resolved,       \* the tasks that resolved
    placed,         \* where in the stream of all output a task's data lies
    crashes

vars == <<file, torn, cursors, nextSequence, issued, tasks, queueTail,
          resolved, placed, crashes>>

Absent == -1        \* an undefined cursor
NotCached == 0
NoTask == 0
Framing == 1        \* bytes of an encoded record besides its data

-----------------------------------------------------------------------------
(* Records *)

Cursors == [start : Nat, end : Nat]

Records == [sequence : Nat \ {0}, task : 1..MaxTasks, length : Lengths,
            start : Nat \cup {Absent}, end : Nat \cup {Absent}]

\* encodeRecord: what of a record goes to the file.
Encoded(r) ==
    IF InlineCursors THEN r ELSE [r EXCEPT !.start = Absent, !.end = Absent]

Size(records) == FoldLeft(LAMBDA n, r : n + r.length + Framing, 0, records)

\* A mutant: cursors are counted from the first record there is.
Rebased(records) ==
    LET ends[i \in 0..Len(records)] ==
            IF i = 0 THEN 0 ELSE ends[i - 1] + records[i].length
    IN  [i \in DOMAIN records |->
            [records[i] EXCEPT !.start = ends[i - 1], !.end = ends[i]]]

\* normalizeCursors: a record without cursors follows the one before it.
Normalized(records) ==
    LET ends[i \in 0..Len(records)] ==
            IF i = 0 THEN 0
            ELSE IF records[i].end # Absent THEN records[i].end
            ELSE ends[i - 1] + records[i].length
    IN  [i \in DOMAIN records |->
            [records[i] EXCEPT !.start = IF @ # Absent THEN @ ELSE ends[i - 1],
                               !.end = ends[i]]]

\* readRecordsWithPersistedCursors
WithPersisted(records) ==
    [i \in DOMAIN records |->
        IF records[i].sequence \in DOMAIN cursors
        THEN [records[i] EXCEPT !.start = cursors[records[i].sequence].start,
                                !.end = cursors[records[i].sequence].end]
        ELSE records[i]]

\* What persistCursors writes; of two records with one sequence a reader
\* keeps the later.
CursorsOf(records) ==
    LET normal == Normalized(records)
        latest(s) == CHOOSE i \in DOMAIN normal :
            /\ normal[i].sequence = s
            /\ \A j \in DOMAIN normal : normal[j].sequence = s => j <= i
    IN  [s \in {normal[i].sequence : i \in DOMAIN normal} |->
            [start |-> normal[latest(s)].start, end |-> normal[latest(s)].end]]

HighestSequence(records) ==
    FoldLeft(LAMBDA n, r : IF r.sequence > n THEN r.sequence ELSE n, 0,
             records)

LowWatermark == (3 * ByteLimit) \div 4

\* The newest records compact() keeps: as many as the low watermark has room
\* for, and the newest in any case.
Retained(records) ==
    LET last == Len(records)
        fits == {k \in 1..last :
                    \/ k = last
                    \/ Size(SubSeq(records, k, last)) <= LowWatermark}
        first == CHOOSE k \in fits : \A j \in fits : k <= j
    IN  SubSeq(records, first, last)

-----------------------------------------------------------------------------
(* The queue *)

Working == {"append", "cursors", "compact", "retain"}

Init ==
    /\ file = <<>>
    /\ torn = FALSE
    /\ cursors = [s \in {} |-> [start |-> 0, end |-> 0]]
    /\ nextSequence = NotCached
    /\ issued = 0
    /\ tasks = [t \in {} |-> 0]
    /\ queueTail = NoTask
    /\ resolved = {}
    /\ placed = [t \in {} |-> [start |-> 0, end |-> 0]]
    /\ crashes = 0

Enqueue(kind, length) ==
    LET task == issued + 1 IN
    /\ issued < MaxTasks
    /\ Cardinality(DOMAIN tasks) < MaxQueued
    /\ issued' = task
    /\ tasks' = (task :> [kind |-> kind, length |-> length,
                          previous |-> queueTail, at |-> "queued",
                          records |-> <<>>]) @@ tasks
    /\ queueTail' = task
    /\ UNCHANGED <<file, torn, cursors, nextSequence, resolved, placed,
                   crashes>>

\* A mutant: a task runs only after one that succeeded.
TurnAfterSuccess(t) ==
    /\ tasks[t].at = "queued"
    /\ tasks[t].previous \in resolved \cup {NoTask}

\* previous.catch(() => undefined).then(task)
Turn(t) ==
    /\ tasks[t].at = "queued"
    /\ tasks[t].previous \notin DOMAIN tasks

Goes(t, at) ==
    /\ tasks' = [tasks EXCEPT ![t].at = at]
    /\ UNCHANGED <<queueTail, resolved>>

\* A task that settles takes itself out of queues if it is still the tail.
Leaves(t) == queueTail' = IF queueTail = t THEN NoTask ELSE queueTail

Settles(t, outcome) ==
    /\ tasks' = [u \in DOMAIN tasks \ {t} |-> tasks[u]]
    /\ resolved' = IF outcome = "resolved" THEN resolved \cup {t} ELSE resolved
    /\ Leaves(t)

-----------------------------------------------------------------------------
(* append *)

\* The sequence and the cursors of the record, from what the files hold; an
\* unterminated tail is truncated on the way.
AppendStarts(t) ==
    LET sequence == IF nextSequence # NotCached THEN nextSequence
                    ELSE HighestSequence(file) + 1
        records == Normalized(WithPersisted(file))
        latest == IF records = <<>> THEN 0 ELSE records[Len(records)].end
        record == [sequence |-> sequence, task |-> t,
                   length |-> tasks[t].length,
                   start |-> latest, end |-> latest + tasks[t].length]
    IN  /\ tasks[t].kind = "append" /\ Turn(t)
        /\ torn' = FALSE
        /\ nextSequence' = sequence
        /\ \/ /\ Size(<<record>>) > ByteLimit       \* RangeError
              /\ Settles(t, "rejected")
           \/ /\ Size(<<record>>) <= ByteLimit
              /\ tasks' = [tasks EXCEPT ![t].at = "append",
                                        ![t].records = Append(records, record)]
              /\ UNCHANGED <<queueTail, resolved>>
        /\ UNCHANGED <<file, cursors, placed, issued, crashes>>

\* appendFile
RecordAppended(t) ==
    LET record == tasks[t].records[Len(tasks[t].records)] IN
    /\ tasks[t].at = "append"
    /\ file' = Append(file, Encoded(record))
    /\ placed' = (t :> [start |-> record.start, end |-> record.end]) @@ placed
    /\ Goes(t, "cursors")
    /\ UNCHANGED <<torn, cursors, nextSequence, issued, crashes>>

\* appendFile fails, perhaps after a part of the record.
RecordNotAppended(t) ==
    /\ "append" \in Faults
    /\ tasks[t].at = "append"
    /\ torn' \in BOOLEAN
    /\ Settles(t, "rejected")
    /\ UNCHANGED <<file, cursors, nextSequence, placed, issued, crashes>>

\* A mutant: the cached sequence is not advanced.
SequenceKept(t) == nextSequence

SequenceAfter(t) == tasks[t].records[Len(tasks[t].records)].sequence + 1

\* persistCursors replaced the cursor file; the sequence is taken, and the
\* size of the file decides whether it is compacted.
CursorsPersisted(t) ==
    /\ tasks[t].at = "cursors"
    /\ cursors' = CursorsOf(tasks[t].records)
    /\ nextSequence' = SequenceAfter(t)
    /\ \/ Size(file) <= ByteLimit /\ Settles(t, "resolved")
       \/ Size(file) > ByteLimit /\ Goes(t, "compact")
    /\ UNCHANGED <<file, torn, placed, issued, crashes>>

\* persistCursors fails, the first time or after the compaction: the append
\* rejects, its record stays in the file.
CursorsNotPersisted(t) ==
    /\ tasks[t].at \in {"cursors", "retain"} \cap Faults
    /\ Settles(t, "rejected")
    /\ UNCHANGED <<file, torn, cursors, nextSequence, placed, issued, crashes>>

\* compact: the newest records are written to a file that replaces the other.
Compacted(t) ==
    LET retained == Retained(WithPersisted(file)) IN
    /\ tasks[t].at = "compact"
    /\ file' = [i \in DOMAIN retained |-> Encoded(retained[i])]
    /\ tasks' = [tasks EXCEPT ![t].at = "retain", ![t].records = retained]
    /\ UNCHANGED <<torn, cursors, nextSequence, issued, queueTail, resolved,
                   placed, crashes>>

NotCompacted(t) ==
    /\ "compaction" \in Faults
    /\ tasks[t].at = "compact"
    /\ Settles(t, "rejected")
    /\ UNCHANGED <<file, torn, cursors, nextSequence, placed, issued, crashes>>

RetainedPersisted(t) ==
    /\ tasks[t].at = "retain"
    /\ cursors' = CursorsOf(tasks[t].records)
    /\ Settles(t, "resolved")
    /\ UNCHANGED <<file, torn, nextSequence, placed, issued, crashes>>

-----------------------------------------------------------------------------
(* Reading *)

\* readAfter and readFromCursor truncate an unterminated tail and resolve.
Reads(t) ==
    /\ tasks[t].kind = "read" /\ Turn(t)
    /\ torn' = FALSE
    /\ Settles(t, "resolved")
    /\ UNCHANGED <<file, cursors, nextSequence, placed, issued, crashes>>

Least(a, b) == IF a < b THEN a ELSE b

\* What is read of one record: from the cursor on, in the room that is left.
Piece(r, from, room) ==
    LET skip == IF from > r.start THEN from - r.start ELSE 0
        length == Least(r.length - Least(skip, r.length), room)
    IN  [task |-> r.task, offset |-> skip, start |-> r.start + skip,
         end |-> r.start + skip + length]

ReadFromCursor(after, maxBytes) ==
    LET records == Normalized(WithPersisted(file))
        earliest == IF records = <<>> THEN 0 ELSE records[1].start
        latest == IF records = <<>> THEN earliest
                  ELSE records[Len(records)].end
        from == IF after < earliest THEN earliest ELSE after
        Read(acc, r) ==
            LET piece == Piece(r, from, maxBytes - acc.used)
                length == piece.end - piece.start
            IN  IF r.end <= from \/ acc.full THEN acc
                ELSE IF acc.used >= maxBytes THEN [acc EXCEPT !.full = TRUE]
                ELSE [chunks |-> Append(acc.chunks, piece),
                      used |-> acc.used + length,
                      full |-> piece.offset + length < r.length]
        nothing == [chunks |-> <<>>, used |-> 0, full |-> FALSE]
    IN  [chunks |-> FoldLeft(Read, nothing, records).chunks,
         earliest |-> earliest, latest |-> latest,
         truncated |-> after < earliest]

-----------------------------------------------------------------------------
\* The process dies; a record being appended may be there in part.
Crash ==
    /\ crashes < MaxCrashes
    /\ crashes' = crashes + 1
    /\ torn' \in IF \E t \in DOMAIN tasks : tasks[t].at = "append"
                THEN BOOLEAN ELSE {torn}
    /\ nextSequence' = NotCached
    /\ queueTail' = NoTask
    /\ tasks' = [t \in {} |-> 0]
    /\ UNCHANGED <<file, cursors, issued, resolved, placed>>

Runs(t) ==
    \/ AppendStarts(t)
    \/ RecordAppended(t)
    \/ RecordNotAppended(t)
    \/ CursorsPersisted(t)
    \/ CursorsNotPersisted(t)
    \/ Compacted(t)
    \/ NotCompacted(t)
    \/ RetainedPersisted(t)
    \/ Reads(t)

Next ==
    \/ \E length \in Lengths : Enqueue("append", length)
    \/ Enqueue("read", 0)
    \/ \E t \in DOMAIN tasks : Runs(t)
    \/ Crash

Spec == Init /\ [][Next]_vars

\* Promises of file operations settle.
Fairness == \A t \in 1..MaxTasks : WF_vars(t \in DOMAIN tasks /\ Runs(t))

FairSpec == Spec /\ Fairness

-----------------------------------------------------------------------------
(* Properties *)

Tasks == [kind : {"append", "read"}, length : Lengths \cup {0},
          previous : 0..MaxTasks, at : {"queued"} \cup Working,
          records : Seq(Records)]

\* The state keeps its shape, and a tail of the queue has not settled.
TypeOK ==
    /\ file \in Seq(Records)
    /\ torn \in BOOLEAN
    /\ DOMAIN cursors \subseteq Nat
    /\ \A s \in DOMAIN cursors : cursors[s] \in Cursors
    /\ nextSequence \in Nat
    /\ issued \in 0..MaxTasks
    /\ DOMAIN tasks \subseteq 1..issued
    /\ \A t \in DOMAIN tasks : tasks[t] \in Tasks
    /\ queueTail \in DOMAIN tasks \cup {NoTask}
    /\ resolved \subseteq 1..issued
    /\ DOMAIN placed \subseteq 1..issued
    /\ \A t \in DOMAIN placed : placed[t] \in Cursors
    /\ crashes \in 0..MaxCrashes

Busy == \E t \in DOMAIN tasks : tasks[t].at \in Working

\* Operations of one terminal are serialized: two tasks never interleave.
OneTaskAtATime ==
    \A t, u \in DOMAIN tasks :
        tasks[t].at \in Working /\ tasks[u].at \in Working => t = u

\* "replays monotonically sequenced chunks": sequences increase along the
\* file, and in the order of the calls, so that a sequence never names two
\* chunks; across compactions, failed appends, crashes and torn tails.
SequencesIncrease ==
    \A i, j \in DOMAIN file :
        i < j => /\ file[i].sequence < file[j].sequence
                 /\ file[i].task < file[j].task

\* Two tasks never interleave, and what they leave in the file is as if they
\* ran in the order of the calls, also over failures and crashes (enqueue).
TasksAreSerial == OneTaskAtATime /\ SequencesIncrease

\* One past the last byte that was ever appended.
StreamEnd ==
    FoldSet(LAMBDA t, n : IF placed[t].end > n THEN placed[t].end ELSE n, 0,
            DOMAIN placed)

\* The byte at a position of the stream: a task and an offset in its data.
StreamByte(p) ==
    LET t == CHOOSE u \in DOMAIN placed :
                placed[u].start <= p /\ p < placed[u].end
    IN  <<t, p - placed[t].start>>

Bytes(chunks) ==
    FoldLeft(LAMBDA bytes, c : bytes \o
                 [k \in 1..(c.end - c.start) |-> <<c.task, c.offset + k - 1>>],
             <<>>, chunks)

\* "Compaction may delete old chunks but never rebases later cursors": a
\* cursor names the same byte for ever.  Whatever was compacted, torn or
\* lost in a crash, a read from any cursor gives the bytes of the stream from
\* there (or from the earliest byte kept, and says so) up to the byte limit
\* of the read, with nothing of the newest missing.
ReadsTheStream ==
    ~Busy =>
        \A after \in 0..(StreamEnd + 1), maxBytes \in 1..(StreamEnd + 1) :
            LET result == ReadFromCursor(after, maxBytes)
                from == IF result.truncated THEN result.earliest ELSE after
                n == IF from < StreamEnd THEN Least(maxBytes, StreamEnd - from)
                     ELSE 0
            IN  /\ Bytes(result.chunks)
                      = [k \in 1..n |-> StreamByte(from + k - 1)]
                /\ result.latest = StreamEnd
                /\ result.chunks # <<>> => result.chunks[1].start = from

\* An append that resolves leaves a file within its limit, also when an
\* earlier compaction failed or died.
AppendLeavesRoom ==
    [][\A t \in resolved' \ resolved :
          tasks[t].kind = "append" => Size(file') <= ByteLimit]_vars

\* A failed task does not hold up those behind it.
QueueServes ==
    \A t \in 1..MaxTasks : t \in DOMAIN tasks ~> t \notin DOMAIN tasks

\* Whatever fails before it, every call settles, and an append that resolves
\* has brought the file under its limit (enqueue, compact).
CallsSettle == AppendLeavesRoom /\ QueueServes
=============================================================================
