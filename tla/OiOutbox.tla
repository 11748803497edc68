------------------------------ MODULE OiOutbox ------------------------------
(***************************************************************************)
(* DeferredOiSnapshotStore (packages/db/src/deferred-persistence.ts): rows *)
(* wait in a file, the outbox, until a flush hands them to Postgres.  The  *)
(* flush sets the file aside under another name and puts it back in front  *)
(* of the rows written since when it fails; so does the next start, when   *)
(* it died.  loadWindow() (with readOiWindow of oi-window.ts) merges both  *)
(* files with what Postgres has.                                           *)
(*                                                                         *)
(* Rows are numbered as they are written, and a row's number is its time.  *)
(* dispose() is left out: a process that stops is one that crashes while   *)
(* nothing is half done, after one more flush if it is so configured.      *)
(***************************************************************************)
EXTENDS Integers, Sequences, FiniteSets

CONSTANTS
    MaxRow,      \* bound: rows ever written
    MaxPending,  \* maxPendingRows
    Slack,       \* by how much the outbox may exceed it: floor(max * OI_TRIM_SLACK_RATIO)
    FlushRows,   \* OI_FLUSH_BATCH_ROWS
    Cutoffs,     \* bound: what prune() is called with
    Mishaps      \* bound: crashes, calls of the disk and calls of the database that fail

ASSUME OiOutboxAssumption ==
    /\ MaxRow \in Nat /\ Cutoffs \subseteq 1 .. MaxRow /\ MaxPending \in Nat \ {0} /\ Slack \in Nat
    /\ FlushRows \in Nat \ {0} /\ Mishaps \in Nat

VARIABLES
    up,           \* the process runs
    cache,        \* the file at cachePath
    aside,        \* the file at flushingPath
    pendingRows, flushingRows,
    pruneBefore,  \* 0 for null
    flush,        \* the flush under way
    stored,       \* rows in Postgres
    pruned,       \* the latest cutoff Postgres has deleted up to
    written,      \* the last row a writeMany was given
    acked,        \* rows whose writeMany resolved
    trimmed,      \* rows dropped because the outbox was full
    wrecked,      \* rows whose file or line was destroyed by a disk that failed
    reader,       \* the loadWindow under way
    mishaps       \* so far

diskVars == <<cache, aside>>
memoryVars == <<up, pendingRows, flushingRows, pruneBefore, flush>>
databaseVars == <<stored, pruned>>
outboxVars == <<diskVars, memoryVars, databaseVars, written, acked, trimmed, wrecked, reader, mishaps>>

Rows == 1 .. MaxRow
Garbage == 0   \* a line that is no row: one that was cut short, and what was written behind it

NoFile == [there |-> FALSE, lines |-> <<>>, cut |-> FALSE]
File(lines, cut) == [there |-> TRUE, lines |-> lines, cut |-> cut]

NoFlush == [at |-> "idle", unread |-> <<>>, batch |-> {}, prune |-> 0]
NoReader == [at |-> "idle", owed |-> {}, got |-> {}, moved |-> FALSE]

OBTypeOK ==
    /\ up \in BOOLEAN
    /\ \A f \in {cache, aside} :
          /\ f.there \in BOOLEAN /\ f.cut \in BOOLEAN
          /\ f.lines \in Seq(Rows \cup {Garbage})
          /\ f.lines # <<>> => f.there
          /\ f.cut => f.lines # <<>> /\ f.lines[Len(f.lines)] = Garbage
    /\ pendingRows \in Nat /\ flushingRows \in Nat
    /\ pruneBefore \in 0 .. MaxRow
    /\ flush.at \in {"idle", "writing", "pruning", "stuck"} /\ flush.batch \subseteq Rows
    /\ flush.unread \in Seq(Rows \cup {Garbage}) /\ flush.prune \in 0 .. MaxRow
    /\ stored \subseteq Rows /\ pruned \in 0 .. MaxRow
    /\ written \in 0 .. MaxRow
    /\ acked \subseteq Rows /\ trimmed \subseteq Rows /\ wrecked \subseteq Rows
    /\ reader.at \in {"idle", "cache", "aside", "remote", "done"}
    /\ reader.owed \subseteq Rows /\ reader.got \subseteq Rows /\ reader.moved \in BOOLEAN
    /\ mishaps \in 0 .. Mishaps

OBInit ==
    /\ up = TRUE
    /\ cache = NoFile /\ aside = NoFile
    /\ pendingRows = 0 /\ flushingRows = 0
    /\ pruneBefore = 0
    /\ flush = NoFlush
    /\ stored = {} /\ pruned = 0
    /\ written = 0
    /\ acked = {} /\ trimmed = {} /\ wrecked = {}
    /\ reader = NoReader
    /\ mishaps = 0

Mishap == mishaps < Mishaps /\ mishaps' = mishaps + 1

-----------------------------------------------------------------------------
(* Files.                                                                  *)

RowsIn(lines) == {lines[i] : i \in DOMAIN lines} \ {Garbage}

\* Lines appended to a file, the last one cut short or not.  The first becomes
\* part of a line that was cut short before.
Behind(f, lines, cut) ==
    IF lines = <<>> THEN [f EXCEPT !.there = TRUE]
    ELSE File(f.lines \o (IF f.cut THEN Tail(lines) ELSE lines), cut)

\* The row that is lost when lines are appended to a file.
JoinedTo(f, lines) == IF f.cut /\ lines # <<>> THEN {lines[1]} \ {Garbage} ELSE {}

\* What an append that fails has written of the lines: some of them, and
\* perhaps a piece of the next.
PartsOf(lines) ==
    {[lines |-> SubSeq(lines, 1, n), cut |-> FALSE] : n \in 0 .. Len(lines)}
    \cup {[lines |-> SubSeq(lines, 1, n) \o <<Garbage>>, cut |-> TRUE] : n \in 0 .. Len(lines) - 1}

\* dropLeadingLines()
WithoutLeading(f, n) ==
    [f EXCEPT !.lines = SubSeq(f.lines, n + 1, Len(f.lines)), !.cut = f.cut /\ n < Len(f.lines)]

-----------------------------------------------------------------------------
(* Writing.                                                                *)

\* The rows of the next writeMany.
NextRows(n) == [i \in 1 .. n |-> written + i]

\* The outbox is cut back to its limit.
Overflows(rows) == rows > MaxPending + Slack

WriteMany(n) ==
    LET rows == NextRows(n)
        longer == Behind(cache, rows, FALSE)
        total == pendingRows + n
        kept == IF Overflows(total) THEN WithoutLeading(longer, total - MaxPending) ELSE longer
    IN  /\ up /\ written + n <= MaxRow
        /\ written' = written + n
        /\ acked' = acked \cup RowsIn(rows)
        /\ cache' = kept
        /\ pendingRows' = IF Overflows(total) THEN MaxPending ELSE total
        /\ trimmed' = trimmed \cup (RowsIn(longer.lines) \ RowsIn(kept.lines))
        /\ wrecked' = wrecked \cup JoinedTo(cache, rows)
        /\ UNCHANGED <<up, aside, flushingRows, pruneBefore, flush, databaseVars, reader, mishaps>>

\* The disk is full: the append throws half-way, or the copy that trims does.
WriteFails(n) ==
    /\ up /\ written + n <= MaxRow /\ Mishap
    /\ written' = written + n
    /\ \/ \E part \in PartsOf(NextRows(n)) :
             /\ cache' = Behind(cache, part.lines, part.cut)
             /\ wrecked' = wrecked \cup JoinedTo(cache, part.lines)
             /\ UNCHANGED pendingRows
       \/ /\ Overflows(pendingRows + n)
          /\ cache' = Behind(cache, NextRows(n), FALSE)
          /\ wrecked' = wrecked \cup JoinedTo(cache, NextRows(n))
          /\ pendingRows' = pendingRows + n
    /\ UNCHANGED <<up, aside, flushingRows, pruneBefore, flush, databaseVars, acked, trimmed, reader>>

\* prune(): the latest cutoff waits for the next flush.
Prune(before) ==
    /\ up /\ before > pruneBefore /\ before <= written
    /\ pruneBefore' = before
    /\ UNCHANGED <<diskVars, up, pendingRows, flushingRows, flush, databaseVars,
                   written, acked, trimmed, wrecked, reader, mishaps>>

-----------------------------------------------------------------------------
(* Flushing.                                                               *)

\* Mutant of MayFlush: a flush does not look whether another is under way.
MayFlushTwice == pendingRows > 0 \/ pruneBefore > 0

MayFlush == flush.at = "idle" /\ (pendingRows > 0 \/ pruneBefore > 0)

\* A flush failed and its rows could not be put back.
Stranded == flush.at = "idle" /\ flushingRows > 0

\* How many of the lines are rows.
RowLines(lines) == Cardinality({i \in DOMAIN lines : lines[i] # Garbage})

\* readJsonLineBatches(): the next batch of rows, or what is left; then the prune.
ReadOn(lines, prune) ==
    \E n \in 0 .. Len(lines) :
       LET read == SubSeq(lines, 1, n) IN
       /\ \/ n > 0 /\ lines[n] # Garbage /\ RowLines(read) = FlushRows
          \/ n = Len(lines) /\ RowLines(read) < FlushRows
       /\ flush' = [at |-> IF RowsIn(read) = {} THEN "pruning" ELSE "writing",
                    unread |-> SubSeq(lines, n + 1, Len(lines)), batch |-> RowsIn(read), prune |-> prune]

\* The file is renamed over whatever an earlier flush left behind.
FlushBegins ==
    /\ up /\ MayFlush
    /\ pruneBefore' = 0
    /\ flushingRows' = pendingRows
    /\ pendingRows' = 0
    /\ IF cache.there
       THEN /\ aside' = cache /\ cache' = NoFile
            /\ wrecked' = wrecked \cup (IF Stranded THEN RowsIn(aside.lines) ELSE {})
       ELSE UNCHANGED <<diskVars, wrecked>>
    /\ ReadOn(aside'.lines, pruneBefore)
    /\ UNCHANGED <<up, databaseVars, written, acked, trimmed, reader, mishaps>>

\* The rename throws: this.flushing stays set, and nothing is flushed any more.
RenameFails ==
    /\ up /\ MayFlush /\ cache.there /\ Mishap
    /\ pruneBefore' = 0
    /\ flush' = [NoFlush EXCEPT !.at = "stuck"]
    /\ UNCHANGED <<diskVars, up, pendingRows, flushingRows, databaseVars,
                   written, acked, trimmed, wrecked, reader>>

BatchStored ==
    /\ up /\ flush.at = "writing"
    /\ stored' = stored \cup flush.batch
    /\ ReadOn(flush.unread, flush.prune)
    /\ UNCHANGED <<diskVars, up, pendingRows, flushingRows, pruneBefore, pruned,
                   written, acked, trimmed, wrecked, reader, mishaps>>

\* The prune, where one was asked for, then the end.
FlushEnds ==
    /\ up /\ flush.at = "pruning"
    /\ stored' = {r \in stored : r >= flush.prune}
    /\ pruned' = IF flush.prune > pruned THEN flush.prune ELSE pruned
    /\ aside' = NoFile
    /\ flushingRows' = 0
    /\ flush' = NoFlush
    /\ UNCHANGED <<cache, up, pendingRows, pruneBefore, written, acked, trimmed, wrecked, reader, mishaps>>

\* Mutant of PutBack: what was written since is not put behind.
PutBackAlone == aside

\* restoreInterruptedFlush(): the rows written since go behind those set aside,
\* and the whole takes the place of the outbox.
PutBack == IF cache.there THEN Behind(aside, cache.lines, cache.cut) ELSE aside

\* A reader between the two files misses the rows that move from one to the other.
ReaderMissesMove ==
    reader' = IF reader.at = "aside" THEN [reader EXCEPT !.moved = TRUE] ELSE reader

\* The database fails after some rows of the batch, or in the prune.
FlushFails ==
    /\ up /\ flush.at \in {"writing", "pruning"} /\ Mishap
    /\ \E done \in SUBSET flush.batch : stored' = stored \cup done
    /\ pruneBefore' = IF flush.prune > pruneBefore THEN flush.prune ELSE pruneBefore
    /\ flush' = NoFlush
    /\ cache' = IF aside.there THEN PutBack ELSE cache
    /\ aside' = NoFile
    /\ pendingRows' = pendingRows + flushingRows
    /\ flushingRows' = 0
    /\ wrecked' = wrecked \cup JoinedTo(aside, cache.lines)
    /\ ReaderMissesMove
    /\ UNCHANGED <<up, pruned, written, acked, trimmed>>

\* So does the disk while the rows are put back: the error of the copy takes the
\* place of the other one, and the counts stay as they are.
FlushFailsForGood ==
    /\ up /\ flush.at \in {"writing", "pruning"} /\ aside.there /\ cache.there
    /\ mishaps + 1 < Mishaps /\ mishaps' = mishaps + 2
    /\ \E done \in SUBSET flush.batch : stored' = stored \cup done
    /\ pruneBefore' = IF flush.prune > pruneBefore THEN flush.prune ELSE pruneBefore
    /\ flush' = NoFlush
    /\ \E part \in PartsOf(cache.lines) : aside' = Behind(aside, part.lines, part.cut)
    /\ UNCHANGED <<cache, up, pendingRows, flushingRows, pruned, written, acked, trimmed, wrecked, reader>>

-----------------------------------------------------------------------------
(* Crash and restart.                                                      *)

Crash ==
    /\ up /\ Mishap
    /\ up' = FALSE
    /\ pendingRows' = 0 /\ flushingRows' = 0 /\ pruneBefore' = 0
    /\ flush' = NoFlush
    /\ reader' = NoReader
    \* the database may have heard the batch, or some of it
    /\ \E done \in SUBSET flush.batch : stored' = stored \cup done
    /\ UNCHANGED <<diskVars, pruned, written, acked, trimmed, wrecked>>

\* Mutant of CountLines: a start counts nothing as waiting.
CountNothing(f) == 0

CountLines(f) == Len(f.lines)

\* The constructor: an interrupted flush is put back, and the lines are counted.
Reopen ==
    /\ ~up
    /\ up' = TRUE
    /\ cache' = IF aside.there THEN PutBack ELSE cache
    /\ aside' = NoFile
    /\ pendingRows' = CountLines(cache')
    /\ wrecked' = wrecked \cup JoinedTo(aside, cache.lines)
    /\ UNCHANGED <<flushingRows, pruneBefore, flush, databaseVars, written, acked, trimmed, reader, mishaps>>

\* It dies, or its copy fails, before the rename.
ReopenFails ==
    /\ ~up /\ aside.there /\ cache.there /\ Mishap
    /\ \E part \in PartsOf(cache.lines) : aside' = Behind(aside, part.lines, part.cut)
    /\ UNCHANGED <<cache, memoryVars, databaseVars, written, acked, trimmed, wrecked, reader>>

-----------------------------------------------------------------------------
(* loadWindow(), by one reader at a time.                                  *)

OnDisk == RowsIn(cache.lines) \cup RowsIn(aside.lines)

\* What a window owes its reader: every row acknowledged by now that the store still has.
ReadBegins ==
    /\ up /\ reader.at = "idle"
    /\ reader' = [NoReader EXCEPT !.at = "cache", !.owed = acked \cap (OnDisk \cup stored)]

\* A file is read as it is when it is opened: renamed or removed since, it can still be read.
ReadCache ==
    /\ reader.at = "cache"
    /\ reader' = [reader EXCEPT !.at = "aside", !.got = RowsIn(cache.lines)]

ReadAside ==
    /\ reader.at = "aside"
    /\ reader' = [reader EXCEPT !.at = "remote", !.got = @ \cup RowsIn(aside.lines)]

ReadRemote ==
    /\ reader.at = "remote"
    /\ reader' = [reader EXCEPT !.at = "done", !.got = @ \cup stored]

ReadReturns ==
    /\ reader.at = "done"
    /\ reader' = NoReader

\* Mutant of LoadWindow: Postgres is asked before the files are read.
LoadWindowRemoteFirst ==
    \/ ReadBegins \/ ReadReturns
    \/ reader.at = "cache" /\ reader' = [reader EXCEPT !.at = "aside", !.got = stored]
    \/ reader.at = "aside" /\ reader' = [reader EXCEPT !.at = "remote", !.got = @ \cup RowsIn(cache.lines)]
    \/ reader.at = "remote" /\ reader' = [reader EXCEPT !.at = "done", !.got = @ \cup RowsIn(aside.lines)]

LoadWindow == ReadBegins \/ ReadCache \/ ReadAside \/ ReadRemote \/ ReadReturns

Read ==
    /\ LoadWindow
    /\ UNCHANGED <<diskVars, memoryVars, databaseVars, written, acked, trimmed, wrecked, mishaps>>

-----------------------------------------------------------------------------
OBNext ==
    \/ \E n \in 1 .. 2 : WriteMany(n) \/ WriteFails(n)
    \/ \E before \in Cutoffs : Prune(before)
    \/ FlushBegins
    \/ RenameFails
    \/ BatchStored
    \/ FlushEnds
    \/ FlushFails
    \/ FlushFailsForGood
    \/ Crash
    \/ Reopen
    \/ ReopenFails
    \/ Read

OBSpec == OBInit /\ [][OBNext]_outboxVars

\* The interval fires, the database answers, and a process that died is started again.
OBFairness ==
    /\ WF_outboxVars(FlushBegins)
    /\ WF_outboxVars(BatchStored \/ FlushEnds)
    /\ WF_outboxVars(Reopen)

OBFairSpec == OBSpec /\ OBFairness

-----------------------------------------------------------------------------
(* Properties.                                                             *)

\* Every row whose write was acknowledged is in Postgres or in one of the two
\* files, through failing flushes, crashes and interrupted restarts; unless it
\* was trimmed from a full outbox or fell to Postgres' prune.  A disk that fails
\* destroys rows in two ways: what is appended to a line that was cut short
\* becomes part of it, and a flush whose rows could not be put back has its file
\* overwritten by the next one (line 634).
WrittenIsKept ==
    \A r \in acked \ (trimmed \cup wrecked) : r \in OnDisk \cup stored \/ r < pruned

\* A window holds every row that was acknowledged when it was asked for, though
\* flushes begin, end and fail under it: the files are read before Postgres, the
\* outbox before the file that is set aside.  Not so when a flush fails between
\* the two files: its rows move to the one already read.
WindowIsWhole ==
    reader.at = "done" /\ ~reader.moved =>
        reader.owed \subseteq reader.got \cup trimmed \cup wrecked \cup {r \in Rows : r < pruned}

\* Acknowledged rows reach Postgres: the rows being finitely many here, there
\* comes a time when each is there, or lost as WrittenIsKept allows; unless they
\* wait in a file no flush will look at, or for a flush that cannot begin.
WrittenIsStored ==
    []<>(\/ Stranded \/ flush.at = "stuck"
         \/ \A r \in acked : r \in stored \cup trimmed \cup wrecked \/ r < pruned)
=============================================================================
