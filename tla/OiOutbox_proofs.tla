--------------------------- MODULE OiOutbox_proofs ---------------------------
(***************************************************************************)
(* No acknowledged row is lost (WrittenIsKept) and no window misses one    *)
(* (WindowIsWhole), for any number of rows, crashes, failing disks and     *)
(* failing databases, and any limit and batch size.                        *)
(***************************************************************************)
EXTENDS OiOutbox, SequenceTheorems, TLAPS

Lines == Seq(Rows \cup {Garbage})

Files == {f \in [there : BOOLEAN, lines : Lines, cut : BOOLEAN] : ~f.there => f.lines = <<>>}

Flushes == [at : {"idle", "writing", "pruning", "stuck"}, unread : Lines, batch : SUBSET Rows, prune : Nat]

\* A row that needs no file: Postgres has it, or it is lost as WrittenIsKept allows.
Safe(r) == r \in stored \cup trimmed \cup wrecked \/ r < pruned

Shapes ==
    /\ up \in BOOLEAN
    /\ cache \in Files /\ aside \in Files
    /\ pendingRows \in Nat /\ flushingRows \in Nat /\ pruneBefore \in Nat
    /\ flush \in Flushes
    /\ stored \subseteq Rows /\ pruned \in Nat
    /\ written \in Nat
    /\ acked \subseteq 1 .. written /\ written <= MaxRow

\* Each acknowledged row is in a file, or needs none.
Kept == \A r \in acked : Safe(r) \/ r \in RowsIn(cache.lines) \cup RowsIn(aside.lines)

\* A flush has stored what it has read of its file and does not hold.
FlushedOrUnread ==
    up /\ flush.at \in {"writing", "pruning"} =>
        /\ RowsIn(aside.lines) \subseteq stored \cup flush.batch \cup RowsIn(flush.unread)
        /\ flush.at = "pruning" => flush.batch = {} /\ RowsIn(flush.unread) = {}

\* A count of nothing tells the truth of the acknowledged rows of its file ...
NothingPending == up /\ pendingRows = 0 => \A r \in acked \cap RowsIn(cache.lines) : Safe(r)
NothingFlushing ==
    up /\ flushingRows = 0 => \A r \in acked \cap RowsIn(aside.lines) : Safe(r) \/ r \in RowsIn(cache.lines)

\* ... and a file left behind by a flush has a file of newer rows beside it.
LeftBehind == up /\ flush.at = "idle" /\ aside.there => cache.there

\* Nothing is flushed while the process is down.
DownIsIdle == ~up => flush.at = "idle"

IInv == Shapes /\ Kept /\ FlushedOrUnread /\ NothingPending /\ NothingFlushing /\ LeftBehind /\ DownIsIdle

-----------------------------------------------------------------------------
(* Files and their rows.                                                   *)

LEMMA RowsOfConcat ==
    ASSUME NEW s \in Lines, NEW t \in Lines
    PROVE  s \o t \in Lines /\ RowsIn(s \o t) = RowsIn(s) \cup RowsIn(t)
<1>1. /\ s \o t \in Lines
      /\ Len(s \o t) = Len(s) + Len(t)
      /\ \A i \in 1 .. Len(s) : (s \o t)[i] = s[i]
      /\ \A i \in 1 .. Len(t) : (s \o t)[Len(s) + i] = t[i]
    BY DEF Lines
<1>2. Len(s) \in Nat /\ Len(t) \in Nat /\ DOMAIN s = 1 .. Len(s) /\ DOMAIN t = 1 .. Len(t)
      /\ DOMAIN (s \o t) = 1 .. Len(s) + Len(t)
    BY <1>1 DEF Lines
<1>3. ASSUME NEW x \in RowsIn(s \o t) PROVE x \in RowsIn(s) \cup RowsIn(t)
    <2>1. PICK i \in 1 .. Len(s) + Len(t) : x = (s \o t)[i] /\ x # Garbage
        BY <1>2, <1>3 DEF RowsIn
    <2>2. CASE i \in 1 .. Len(s)
        BY <1>1, <1>2, <2>1, <2>2 DEF RowsIn
    <2>3. CASE i \notin 1 .. Len(s)
        <3>1. i - Len(s) \in 1 .. Len(t) /\ i = Len(s) + (i - Len(s))
            BY <1>2, <2>1, <2>3
        <3>2. x = t[i - Len(s)]
            BY <1>1, <2>1, <3>1
        <3> QED
            BY <1>2, <2>1, <3>1, <3>2 DEF RowsIn
    <2> QED
        BY <2>2, <2>3
<1>4. ASSUME NEW x \in RowsIn(s) PROVE x \in RowsIn(s \o t)
    <2>1. PICK i \in 1 .. Len(s) : x = s[i] /\ x # Garbage
        BY <1>2, <1>4 DEF RowsIn
    <2> QED
        BY <1>1, <1>2, <2>1 DEF RowsIn
<1>5. ASSUME NEW x \in RowsIn(t) PROVE x \in RowsIn(s \o t)
    <2>1. PICK i \in 1 .. Len(t) : x = t[i] /\ x # Garbage
        BY <1>2, <1>5 DEF RowsIn
    <2>2. Len(s) + i \in 1 .. Len(s) + Len(t) /\ x = (s \o t)[Len(s) + i]
        BY <1>1, <1>2, <2>1
    <2> QED
        BY <1>2, <2>1, <2>2 DEF RowsIn
<1> QED
    BY <1>1, <1>3, <1>4, <1>5

LEMMA RowsOfPiece ==
    ASSUME NEW s \in Lines, NEW m \in Nat, m > 0, NEW n \in 0 .. Len(s)
    PROVE  SubSeq(s, m, n) \in Lines /\ RowsIn(SubSeq(s, m, n)) \subseteq RowsIn(s)
<1>1. /\ Len(s) \in Nat /\ DOMAIN s = 1 .. Len(s)
      /\ \A i \in 1 .. Len(s) : s[i] \in Rows \cup {Garbage}
    BY DEF Lines
<1>2. CASE n < m
    <2>1. SubSeq(s, m, n) = <<>>
        BY <1>1, <1>2
    <2>2. SubSeq(s, m, n) \in Lines /\ DOMAIN SubSeq(s, m, n) = {}
        BY <2>1 DEF Lines
    <2> QED
        BY <2>2 DEF RowsIn
<1>3. CASE ~(n < m)
    <2>1. /\ SubSeq(s, m, n) = [i \in 1 .. (n - m + 1) |-> s[m + i - 1]]
          /\ n - m + 1 \in Nat
        BY <1>1, <1>3
    <2>2. \A i \in 1 .. (n - m + 1) : m + i - 1 \in 1 .. Len(s)
        BY <1>1, <1>3
    <2>3. SubSeq(s, m, n) \in Lines
        BY <1>1, <2>1, <2>2 DEF Lines
    <2> QED
        BY <1>1, <2>1, <2>2, <2>3 DEF RowsIn
<1> QED
    BY <1>2, <1>3

LEMMA RowsOfBothPieces ==
    ASSUME NEW s \in Lines, NEW n \in 0 .. Len(s)
    PROVE  RowsIn(s) \subseteq RowsIn(SubSeq(s, 1, n)) \cup RowsIn(SubSeq(s, n + 1, Len(s)))
<1>1. Len(s) \in Nat /\ DOMAIN s = 1 .. Len(s)
    BY DEF Lines
<1>2. SUFFICES ASSUME NEW i \in 1 .. Len(s), s[i] # Garbage
               PROVE  s[i] \in RowsIn(SubSeq(s, 1, n)) \cup RowsIn(SubSeq(s, n + 1, Len(s)))
    BY <1>1 DEF RowsIn
<1>3. CASE i <= n
    <2>1. i \in DOMAIN SubSeq(s, 1, n) /\ SubSeq(s, 1, n)[i] = s[i]
        BY <1>1, <1>3 DEF Lines
    <2> QED
        BY <1>2, <2>1 DEF RowsIn
<1>4. CASE i > n
    <2>1. i - n \in DOMAIN SubSeq(s, n + 1, Len(s)) /\ SubSeq(s, n + 1, Len(s))[i - n] = s[i]
        BY <1>1, <1>4 DEF Lines
    <2> QED
        BY <1>2, <2>1 DEF RowsIn
<1> QED
    BY <1>1, <1>3, <1>4

LEMMA RowsOfTail ==
    ASSUME NEW s \in Lines, s # <<>>
    PROVE  /\ Tail(s) \in Lines
           /\ RowsIn(Tail(s)) \subseteq RowsIn(s)
           /\ RowsIn(s) \subseteq RowsIn(Tail(s)) \cup ({s[1]} \ {Garbage})
<1>1. Len(s) \in Nat /\ Len(s) > 0 /\ DOMAIN s = 1 .. Len(s)
    BY DEF Lines
<1>2. /\ Tail(s) \in Lines
      /\ Len(Tail(s)) = Len(s) - 1
      /\ \A i \in 1 .. Len(s) - 1 : Tail(s)[i] = s[i + 1]
      /\ DOMAIN Tail(s) = 1 .. Len(s) - 1
    BY <1>1 DEF Lines
<1>3. ASSUME NEW x \in RowsIn(Tail(s)) PROVE x \in RowsIn(s)
    <2>1. PICK i \in 1 .. Len(s) - 1 : x = Tail(s)[i] /\ x # Garbage
        BY <1>2, <1>3 DEF RowsIn
    <2>2. i + 1 \in 1 .. Len(s) /\ x = s[i + 1]
        BY <1>1, <1>2, <2>1
    <2> QED
        BY <1>1, <2>1, <2>2 DEF RowsIn
<1>4. ASSUME NEW x \in RowsIn(s) PROVE x \in RowsIn(Tail(s)) \cup ({s[1]} \ {Garbage})
    <2>1. PICK i \in 1 .. Len(s) : x = s[i] /\ x # Garbage
        BY <1>1, <1>4 DEF RowsIn
    <2>2. CASE i = 1
        BY <2>1, <2>2
    <2>3. CASE i # 1
        <3>1. i - 1 \in 1 .. Len(s) - 1 /\ x = Tail(s)[i - 1]
            BY <1>1, <1>2, <2>1, <2>3
        <3> QED
            BY <1>2, <2>1, <3>1 DEF RowsIn
    <2> QED
        BY <2>2, <2>3
<1> QED
    BY <1>2, <1>3, <1>4

\* What appending does to a file: nothing that was there is lost, and of the new
\* lines at most the one joined to a line cut short.
LEMMA RowsBehind ==
    ASSUME NEW f \in Files, NEW lines \in Lines, NEW cut \in BOOLEAN
    PROVE  /\ Behind(f, lines, cut) \in Files
           /\ Behind(f, lines, cut).there
           /\ RowsIn(f.lines) \subseteq RowsIn(Behind(f, lines, cut).lines)
           /\ RowsIn(lines) \subseteq RowsIn(Behind(f, lines, cut).lines) \cup JoinedTo(f, lines)
           /\ RowsIn(Behind(f, lines, cut).lines) \subseteq RowsIn(f.lines) \cup RowsIn(lines)
<1>1. CASE lines = <<>>
    <2>1. Behind(f, lines, cut) = [f EXCEPT !.there = TRUE]
        BY <1>1 DEF Behind
    <2>2. /\ Behind(f, lines, cut) \in Files
          /\ Behind(f, lines, cut).there
          /\ Behind(f, lines, cut).lines = f.lines
        BY <2>1 DEF Files
    <2>3. RowsIn(lines) = {}
        BY <1>1 DEF RowsIn
    <2> QED
        BY <2>2, <2>3
<1>2. CASE lines # <<>>
    <2> DEFINE more == IF f.cut THEN Tail(lines) ELSE lines
    <2>1. /\ more \in Lines
          /\ RowsIn(more) \subseteq RowsIn(lines)
          /\ RowsIn(lines) \subseteq RowsIn(more) \cup JoinedTo(f, lines)
        BY <1>2, RowsOfTail DEF JoinedTo
    <2>2. Behind(f, lines, cut) = [there |-> TRUE, lines |-> f.lines \o more, cut |-> cut]
        BY <1>2 DEF Behind, File
    <2>3. f.lines \in Lines
        BY DEF Files
    <2> HIDE DEF more
    <2>4. f.lines \o more \in Lines /\ RowsIn(f.lines \o more) = RowsIn(f.lines) \cup RowsIn(more)
        BY <2>1, <2>3, RowsOfConcat
    <2> QED
        BY <2>1, <2>2, <2>4 DEF Files
<1> QED
    BY <1>1, <1>2

LEMMA RowsOfParts ==
    ASSUME NEW lines \in Lines, NEW part \in PartsOf(lines)
    PROVE  part.lines \in Lines /\ part.cut \in BOOLEAN /\ RowsIn(part.lines) \subseteq RowsIn(lines)
<1>1. CASE \E n \in 0 .. Len(lines) : part = [lines |-> SubSeq(lines, 1, n), cut |-> FALSE]
    BY <1>1, RowsOfPiece
<1>2. CASE \E n \in 0 .. Len(lines) - 1 : part = [lines |-> SubSeq(lines, 1, n) \o <<Garbage>>, cut |-> TRUE]
    <2>1. PICK n \in 0 .. Len(lines) - 1 : part = [lines |-> SubSeq(lines, 1, n) \o <<Garbage>>, cut |-> TRUE]
        BY <1>2
    <2>2. n \in 0 .. Len(lines)
        BY DEF Lines
    <2>3. SubSeq(lines, 1, n) \in Lines /\ RowsIn(SubSeq(lines, 1, n)) \subseteq RowsIn(lines)
        BY <2>2, RowsOfPiece
    <2>4. <<Garbage>> \in Lines /\ RowsIn(<<Garbage>>) = {}
        BY DEF Lines, RowsIn
    <2> QED
        BY <2>1, <2>3, <2>4, RowsOfConcat
<1> QED
    BY <1>1, <1>2 DEF PartsOf

LEMMA NoFileIsFile == NoFile \in Files /\ RowsIn(NoFile.lines) = {} /\ ~NoFile.there
BY DEF NoFile, Files, Lines, RowsIn

LEMMA RowsWithoutLeading ==
    ASSUME NEW f \in Files, f.there, NEW n \in Nat
    PROVE  WithoutLeading(f, n) \in Files
<1>1. SubSeq(f.lines, n + 1, Len(f.lines)) \in Lines
    BY RowsOfPiece DEF Files, Lines
<1> QED
    BY <1>1 DEF WithoutLeading, Files

LEMMA NextRowsAreNew ==
    ASSUME Shapes, NEW n \in 1 .. 2, written + n <= MaxRow
    PROVE  NextRows(n) \in Lines /\ RowsIn(NextRows(n)) = written + 1 .. written + n
<1>1. /\ NextRows(n) \in Seq(written + 1 .. written + n)
      /\ DOMAIN NextRows(n) = 1 .. n
      /\ \A i \in 1 .. n : NextRows(n)[i] = written + i
    BY DEF NextRows, Shapes
<1>2. \A x \in written + 1 .. written + n : x \in Rows /\ x # Garbage
    BY OiOutboxAssumption DEF Shapes, Rows, Garbage
<1>3. NextRows(n) \in Lines
    <2>1. \A i \in 1 .. n : written + i \in Rows \cup {Garbage}
        BY <1>2 DEF Shapes
    <2> QED
        BY <2>1 DEF NextRows, Lines
<1>4. ASSUME NEW x \in written + 1 .. written + n PROVE x \in RowsIn(NextRows(n))
    <2>1. x - written \in 1 .. n /\ x = NextRows(n)[x - written]
        BY <1>1 DEF Shapes
    <2> QED
        BY <1>1, <1>2, <2>1 DEF RowsIn
<1>5. ASSUME NEW x \in RowsIn(NextRows(n)) PROVE x \in written + 1 .. written + n
    <2>1. PICK i \in 1 .. n : x = NextRows(n)[i]
        BY <1>1, <1>5 DEF RowsIn
    <2> QED
        BY <1>1, <2>1 DEF Shapes
<1> QED
    BY <1>3, <1>4, <1>5

\* What a flush has read is in its batch, the rest is unread; without a batch
\* there is no rest.
LEMMA NothingIsSkipped ==
    ASSUME NEW lines \in Lines, NEW prune \in Nat, ReadOn(lines, prune)
    PROVE  /\ flush' \in Flushes
           /\ flush'.at \in {"writing", "pruning"}
           /\ RowsIn(lines) \subseteq flush'.batch \cup RowsIn(flush'.unread)
           /\ flush'.at = "pruning" => flush'.batch = {} /\ RowsIn(flush'.unread) = {}
<1>1. PICK n \in 0 .. Len(lines) :
         /\ (n > 0 /\ lines[n] # Garbage) \/ n = Len(lines)
         /\ flush' = [at |-> IF RowsIn(SubSeq(lines, 1, n)) = {} THEN "pruning" ELSE "writing",
                      unread |-> SubSeq(lines, n + 1, Len(lines)), batch |-> RowsIn(SubSeq(lines, 1, n)), prune |-> prune]
    BY DEF ReadOn
<1>2. Len(lines) \in Nat /\ n \in Nat
    BY <1>1 DEF Lines
<1>3. /\ SubSeq(lines, 1, n) \in Lines
      /\ SubSeq(lines, n + 1, Len(lines)) \in Lines
    BY <1>1, <1>2, RowsOfPiece
<1>4. RowsIn(SubSeq(lines, 1, n)) \subseteq Rows
    <2>1. \A i \in DOMAIN SubSeq(lines, 1, n) : SubSeq(lines, 1, n)[i] \in Rows \cup {Garbage}
        BY <1>3 DEF Lines
    <2> QED
        BY <2>1 DEF RowsIn
<1>5. RowsIn(lines) \subseteq RowsIn(SubSeq(lines, 1, n)) \cup RowsIn(SubSeq(lines, n + 1, Len(lines)))
    BY <1>1, RowsOfBothPieces
<1>6. ASSUME RowsIn(SubSeq(lines, 1, n)) = {} PROVE RowsIn(SubSeq(lines, n + 1, Len(lines))) = {}
    <2>1. CASE n > 0 /\ lines[n] # Garbage
        <3>1. n \in DOMAIN SubSeq(lines, 1, n) /\ SubSeq(lines, 1, n)[n] = lines[n]
            BY <1>1, <1>2, <2>1 DEF Lines
        <3>2. lines[n] \in RowsIn(SubSeq(lines, 1, n))
            BY <2>1, <3>1 DEF RowsIn
        <3> QED
            BY <1>6, <3>2
    <2>2. CASE n = Len(lines)
        <3>1. SubSeq(lines, n + 1, Len(lines)) = <<>>
            BY <1>2, <2>2 DEF Lines
        <3> QED
            BY <3>1 DEF RowsIn
    <2> QED
        BY <1>1, <2>1, <2>2
<1>7. CASE RowsIn(SubSeq(lines, 1, n)) = {}
    <2>1. flush' = [at |-> "pruning", unread |-> SubSeq(lines, n + 1, Len(lines)),
                    batch |-> RowsIn(SubSeq(lines, 1, n)), prune |-> prune]
        BY <1>1, <1>7
    <2> QED
        BY <1>3, <1>4, <1>5, <1>6, <1>7, <2>1 DEF Flushes
<1>8. CASE RowsIn(SubSeq(lines, 1, n)) # {}
    <2>1. flush' = [at |-> "writing", unread |-> SubSeq(lines, n + 1, Len(lines)),
                    batch |-> RowsIn(SubSeq(lines, 1, n)), prune |-> prune]
        BY <1>1, <1>8
    <2> QED
        BY <1>3, <1>4, <1>5, <2>1 DEF Flushes
<1> QED
    BY <1>7, <1>8

-----------------------------------------------------------------------------
(* The steps.                                                              *)

\* What is safe stays safe.
LEMMA SafeStaysSafe ==
    ASSUME stored \subseteq Rows, pruned \in Nat, pruned' \in Nat, pruned <= pruned',
           \A r \in stored : r \in stored' \/ r < pruned',
           trimmed \subseteq trimmed', wrecked \subseteq wrecked',
           NEW r \in Nat, Safe(r)
    PROVE  Safe(r)'
BY DEF Safe

LEMMA AckedAreRows == Shapes => acked \subseteq Rows /\ acked \subseteq Nat
BY OiOutboxAssumption DEF Shapes, Rows

LEMMA NoFlushIsFlush == NoFlush \in Flushes
<1>1. <<>> \in Lines
    BY DEF Lines
<1> QED
    BY <1>1 DEF NoFlush, Flushes

LEMMA InitHolds == OBInit => IInv
<1> SUFFICES ASSUME OBInit PROVE IInv
    OBVIOUS
<1>2. Shapes
    BY NoFlushIsFlush, NoFileIsFile, OiOutboxAssumption DEF OBInit, Shapes
<1> QED
    BY <1>2, NoFileIsFile DEF OBInit, IInv, Kept, FlushedOrUnread, NothingPending, NothingFlushing, LeftBehind, DownIsIdle, NoFlush

LEMMA WriteManyKeeps ==
    ASSUME IInv, NEW n \in 1 .. 2, WriteMany(n)
    PROVE  IInv'
<1> DEFINE rows == NextRows(n)
           longer == Behind(cache, rows, FALSE)
           total == pendingRows + n
           kept == IF Overflows(total) THEN WithoutLeading(longer, total - MaxPending) ELSE longer
<1>1. rows \in Lines /\ RowsIn(rows) = written + 1 .. written + n
    BY NextRowsAreNew DEF WriteMany, IInv
<1>2. /\ longer \in Files /\ longer.there
      /\ RowsIn(cache.lines) \subseteq RowsIn(longer.lines)
      /\ RowsIn(rows) \subseteq RowsIn(longer.lines) \cup JoinedTo(cache, rows)
    BY <1>1, RowsBehind DEF IInv, Shapes
<1>3. total \in Nat /\ total > 0 /\ (Overflows(total) => total - MaxPending \in Nat)
    BY OiOutboxAssumption DEF Overflows, IInv, Shapes
<1>4. kept \in Files
    BY <1>2, <1>3, RowsWithoutLeading
<1>5. kept.there
    BY <1>2 DEF WithoutLeading, Files
<1>6. /\ written' = written + n /\ written + n <= MaxRow
      /\ acked' = acked \cup RowsIn(rows)
      /\ cache' = kept
      /\ pendingRows' = IF Overflows(total) THEN MaxPending ELSE total
      /\ trimmed' = trimmed \cup (RowsIn(longer.lines) \ RowsIn(kept.lines))
      /\ wrecked' = wrecked \cup JoinedTo(cache, rows)
      /\ UNCHANGED <<up, aside, flushingRows, pruneBefore, flush, databaseVars>>
    BY DEF WriteMany
<1> HIDE DEF rows, longer, total, kept
<1>7. Shapes'
    <2>1. pendingRows' \in Nat
        BY <1>3, <1>6, OiOutboxAssumption
    <2>2. acked' \subseteq 1 .. written' /\ written' \in Nat /\ written' <= MaxRow
        BY <1>1, <1>6 DEF IInv, Shapes
    <2> QED
        BY <1>4, <1>6, <2>1, <2>2 DEF IInv, Shapes, databaseVars
<1>8. \A r \in Nat : Safe(r) => Safe(r)'
    BY <1>6, SafeStaysSafe DEF IInv, Shapes, databaseVars
<1>9. \A r \in RowsIn(cache.lines) \cup RowsIn(rows) : r \in RowsIn(cache'.lines) \/ Safe(r)'
    BY <1>2, <1>6 DEF Safe
<1>10. Kept'
    BY <1>6, <1>8, <1>9, AckedAreRows DEF IInv, Kept
<1>11. NothingFlushing'
    BY <1>6, <1>8, <1>9, AckedAreRows DEF IInv, NothingFlushing
<1>12. NothingPending'
    BY <1>3, <1>6, OiOutboxAssumption DEF NothingPending
<1>13. FlushedOrUnread'
    BY <1>6 DEF IInv, FlushedOrUnread, databaseVars
<1>14. LeftBehind' /\ DownIsIdle'
    BY <1>5, <1>6 DEF LeftBehind, DownIsIdle, IInv
<1> QED
    BY <1>7, <1>10, <1>11, <1>12, <1>13, <1>14 DEF IInv

LEMMA WriteFailsKeeps ==
    ASSUME IInv, NEW n \in 1 .. 2, WriteFails(n)
    PROVE  IInv'
<1>1. NextRows(n) \in Lines /\ RowsIn(NextRows(n)) = written + 1 .. written + n
    BY NextRowsAreNew DEF WriteFails, IInv
<1>2. PICK lines \in Lines, cut \in BOOLEAN :
         /\ RowsIn(lines) \subseteq RowsIn(NextRows(n))
         /\ cache' = Behind(cache, lines, cut)
         /\ wrecked' = wrecked \cup JoinedTo(cache, lines)
         /\ pendingRows' \in {pendingRows, pendingRows + n}
    <2>1. CASE \E part \in PartsOf(NextRows(n)) :
                  /\ cache' = Behind(cache, part.lines, part.cut)
                  /\ wrecked' = wrecked \cup JoinedTo(cache, part.lines)
                  /\ UNCHANGED pendingRows
        BY <1>1, <2>1, RowsOfParts
    <2>2. CASE /\ cache' = Behind(cache, NextRows(n), FALSE)
               /\ wrecked' = wrecked \cup JoinedTo(cache, NextRows(n))
               /\ pendingRows' = pendingRows + n
        BY <1>1, <2>2
    <2> QED
        BY <2>1, <2>2 DEF WriteFails
<1>3. /\ cache' \in Files /\ cache'.there
      /\ RowsIn(cache.lines) \subseteq RowsIn(cache'.lines)
      /\ RowsIn(cache'.lines) \subseteq RowsIn(cache.lines) \cup RowsIn(lines)
    BY <1>2, RowsBehind DEF IInv, Shapes
<1>4. /\ written' = written + n /\ written + n <= MaxRow
      /\ UNCHANGED <<up, aside, flushingRows, pruneBefore, flush, databaseVars, acked, trimmed>>
    BY DEF WriteFails
<1>5. Shapes'
    BY <1>2, <1>3, <1>4 DEF IInv, Shapes, databaseVars
<1>6. \A r \in Nat : Safe(r) => Safe(r)'
    BY <1>2, <1>4, SafeStaysSafe DEF IInv, Shapes, databaseVars
<1>7. Kept'
    BY <1>3, <1>4, <1>6, AckedAreRows DEF IInv, Kept
<1>8. NothingFlushing'
    BY <1>3, <1>4, <1>6, AckedAreRows DEF IInv, NothingFlushing
<1>9. NothingPending'
    <2>1. SUFFICES ASSUME up', pendingRows' = 0, NEW r \in acked \cap RowsIn(cache'.lines) PROVE Safe(r)'
        BY <1>4 DEF NothingPending
    <2>2. r \notin RowsIn(lines)
        BY <1>1, <1>2, <2>1 DEF IInv, Shapes
    <2>3. up /\ pendingRows = 0
        BY <1>2, <1>4, <2>1 DEF IInv, Shapes
    <2> QED
        BY <1>3, <1>6, <2>1, <2>2, <2>3, AckedAreRows DEF IInv, NothingPending
<1>10. FlushedOrUnread'
    BY <1>4 DEF IInv, FlushedOrUnread, databaseVars
<1>11. LeftBehind' /\ DownIsIdle'
    BY <1>3, <1>4 DEF LeftBehind, DownIsIdle, IInv
<1> QED
    BY <1>5, <1>7, <1>8, <1>9, <1>10, <1>11 DEF IInv

LEMMA PruneKeeps ==
    ASSUME IInv, NEW before \in Cutoffs, Prune(before)
    PROVE  IInv'
<1>1. /\ pruneBefore' = before /\ before \in Nat
      /\ UNCHANGED <<cache, aside, up, pendingRows, flushingRows, flush, stored, pruned,
                     written, acked, trimmed, wrecked>>
    BY OiOutboxAssumption DEF Prune, diskVars, databaseVars
<1> QED
    BY <1>1 DEF IInv, Shapes, Kept, Safe, FlushedOrUnread, NothingPending, NothingFlushing, LeftBehind, DownIsIdle

\* The rows of the file that is overwritten are recorded as wrecked, or there
\* are none that need it.
LEMMA FlushBeginsKeeps ==
    ASSUME IInv, FlushBegins
    PROVE  IInv'
<1>1. /\ up /\ flush.at = "idle"
      /\ pruneBefore' = 0 /\ flushingRows' = pendingRows /\ pendingRows' = 0
      /\ UNCHANGED <<up, stored, pruned, written, acked, trimmed>>
    BY DEF FlushBegins, MayFlush, databaseVars
<1>2. CASE cache.there
    <2>1. /\ aside' = cache /\ cache' = NoFile
          /\ wrecked' = wrecked \cup (IF Stranded THEN RowsIn(aside.lines) ELSE {})
        BY <1>2 DEF FlushBegins
    <2>2. aside'.lines \in Lines /\ pruneBefore \in Nat /\ ReadOn(aside'.lines, pruneBefore)
        BY <2>1 DEF FlushBegins, IInv, Shapes, Files
    <2>3. /\ flush' \in Flushes
          /\ flush'.at \in {"writing", "pruning"}
          /\ RowsIn(aside'.lines) \subseteq flush'.batch \cup RowsIn(flush'.unread)
          /\ flush'.at = "pruning" => flush'.batch = {} /\ RowsIn(flush'.unread) = {}
        BY <2>2, NothingIsSkipped
    <2>4. Shapes'
        BY <1>1, <2>1, <2>3, NoFileIsFile DEF IInv, Shapes
    <2>5. \A r \in Nat : Safe(r) => Safe(r)'
        BY <1>1, <2>1 DEF Safe
    <2>6. Kept'
        <3>1. SUFFICES ASSUME NEW r \in acked, ~Safe(r)'
                       PROVE  r \in RowsIn(cache.lines)
            BY <1>1, <2>1 DEF Kept
        <3>2. ~Safe(r)
            BY <2>5, <3>1, AckedAreRows DEF IInv
        <3>3. CASE r \in RowsIn(aside.lines)
            <4>1. ~Stranded
                BY <2>1, <3>1, <3>3 DEF Safe
            <4>2. flushingRows = 0
                BY <1>1, <4>1 DEF Stranded, IInv, Shapes
            <4> QED
                BY <1>1, <3>1, <3>2, <3>3, <4>2 DEF IInv, NothingFlushing
        <3>4. CASE r \notin RowsIn(aside.lines)
            BY <3>1, <3>2, <3>4 DEF IInv, Kept
        <3> QED
            BY <3>3, <3>4
    <2>7. NothingPending'
        BY <2>1, NoFileIsFile DEF NothingPending
    <2>8. NothingFlushing'
        BY <1>1, <2>1, <2>5, AckedAreRows DEF IInv, NothingPending, NothingFlushing
    <2>9. FlushedOrUnread' /\ LeftBehind' /\ DownIsIdle'
        BY <1>1, <2>3 DEF FlushedOrUnread, LeftBehind, DownIsIdle
    <2> QED
        BY <2>4, <2>6, <2>7, <2>8, <2>9 DEF IInv
<1>3. CASE ~cache.there
    <2>1. UNCHANGED <<cache, aside, wrecked>>
        BY <1>3 DEF FlushBegins, diskVars
    <2>2. ~aside.there
        BY <1>1, <1>3 DEF IInv, LeftBehind
    <2>3. RowsIn(cache.lines) = {} /\ RowsIn(aside.lines) = {}
        BY <1>3, <2>2 DEF IInv, Shapes, Files, RowsIn
    <2>4. aside'.lines \in Lines /\ pruneBefore \in Nat /\ ReadOn(aside'.lines, pruneBefore)
        BY <2>1 DEF FlushBegins, IInv, Shapes, Files
    <2>5. /\ flush' \in Flushes
          /\ flush'.at \in {"writing", "pruning"}
          /\ flush'.at = "pruning" => flush'.batch = {} /\ RowsIn(flush'.unread) = {}
        BY <2>4, NothingIsSkipped
    <2>6. Shapes'
        BY <1>1, <2>1, <2>5 DEF IInv, Shapes
    <2>7. Kept'
        BY <1>1, <2>1 DEF IInv, Kept, Safe
    <2>8. NothingPending' /\ NothingFlushing'
        BY <2>1, <2>3 DEF NothingPending, NothingFlushing
    <2>9. FlushedOrUnread' /\ LeftBehind' /\ DownIsIdle'
        BY <1>1, <2>1, <2>3, <2>5 DEF FlushedOrUnread, LeftBehind, DownIsIdle
    <2> QED
        BY <2>6, <2>7, <2>8, <2>9 DEF IInv
<1> QED
    BY <1>2, <1>3

LEMMA RenameFailsKeeps ==
    ASSUME IInv, RenameFails
    PROVE  IInv'
<1>1. /\ up /\ pruneBefore' = 0
      /\ flush' \in Flushes /\ flush'.at = "stuck"
      /\ UNCHANGED <<cache, aside, up, pendingRows, flushingRows, stored, pruned,
                     written, acked, trimmed, wrecked>>
    BY NoFlushIsFlush DEF RenameFails, NoFlush, Flushes, diskVars, databaseVars
<1> QED
    BY <1>1 DEF IInv, Shapes, Kept, Safe, FlushedOrUnread, NothingPending, NothingFlushing, LeftBehind, DownIsIdle

LEMMA BatchStoredKeeps ==
    ASSUME IInv, BatchStored
    PROVE  IInv'
<1>1. /\ up /\ flush.at = "writing"
      /\ stored' = stored \cup flush.batch
      /\ ReadOn(flush.unread, flush.prune)
      /\ UNCHANGED <<cache, aside, up, pendingRows, flushingRows, pruneBefore, pruned,
                     written, acked, trimmed, wrecked>>
    BY DEF BatchStored, diskVars
<1>2. flush.unread \in Lines /\ flush.prune \in Nat /\ flush.batch \subseteq Rows
    BY DEF IInv, Shapes, Flushes
<1>3. /\ flush' \in Flushes
      /\ flush'.at \in {"writing", "pruning"}
      /\ RowsIn(flush.unread) \subseteq flush'.batch \cup RowsIn(flush'.unread)
      /\ flush'.at = "pruning" => flush'.batch = {} /\ RowsIn(flush'.unread) = {}
    BY <1>1, <1>2, NothingIsSkipped
<1>4. Shapes'
    BY <1>1, <1>2, <1>3 DEF IInv, Shapes
<1>5. \A r \in Nat : Safe(r) => Safe(r)'
    BY <1>1 DEF Safe
<1>6. Kept' /\ NothingPending' /\ NothingFlushing'
    BY <1>1, <1>5, AckedAreRows DEF IInv, Kept, NothingPending, NothingFlushing
<1>7. FlushedOrUnread'
    BY <1>1, <1>3 DEF IInv, FlushedOrUnread
<1>8. LeftBehind' /\ DownIsIdle'
    BY <1>1, <1>3 DEF LeftBehind, DownIsIdle
<1> QED
    BY <1>4, <1>6, <1>7, <1>8 DEF IInv

\* The file goes when Postgres has all its rows, and what the prune deletes is old.
LEMMA FlushEndsKeeps ==
    ASSUME IInv, FlushEnds
    PROVE  IInv'
<1>1. /\ up /\ flush.at = "pruning"
      /\ stored' = {r \in stored : r >= flush.prune}
      /\ pruned' = IF flush.prune > pruned THEN flush.prune ELSE pruned
      /\ aside' = NoFile /\ flushingRows' = 0 /\ flush' = NoFlush
      /\ UNCHANGED <<cache, up, pendingRows, pruneBefore, written, acked, trimmed, wrecked>>
    BY DEF FlushEnds
<1>2. flush.prune \in Nat /\ pruned \in Nat /\ stored \subseteq Nat
    BY OiOutboxAssumption DEF IInv, Shapes, Flushes, Rows
<1>3. pruned' \in Nat /\ pruned' >= pruned /\ pruned' >= flush.prune
    BY <1>1, <1>2
<1>4. Shapes'
    BY <1>1, <1>3, NoFileIsFile, NoFlushIsFlush DEF IInv, Shapes
<1>5. \A r \in Nat : Safe(r) => Safe(r)'
    BY <1>1, <1>2, <1>3 DEF Safe
<1>6. RowsIn(aside.lines) \subseteq stored
    BY <1>1 DEF IInv, FlushedOrUnread
<1>7. \A r \in RowsIn(aside.lines) : Safe(r)'
    BY <1>2, <1>5, <1>6 DEF Safe
<1>8. Kept'
    BY <1>1, <1>5, <1>7, AckedAreRows DEF IInv, Kept
<1>9. NothingPending'
    BY <1>1, <1>5, AckedAreRows DEF IInv, NothingPending
<1>10. NothingFlushing' /\ FlushedOrUnread' /\ LeftBehind' /\ DownIsIdle'
    BY <1>1, NoFileIsFile DEF NothingFlushing, FlushedOrUnread, LeftBehind, DownIsIdle, NoFlush
<1> QED
    BY <1>4, <1>8, <1>9, <1>10 DEF IInv

\* The outbox with the interrupted flush put back in front of it.
Restored == IF aside.there THEN PutBack ELSE cache

LEMMA RowsRestored ==
    ASSUME Shapes
    PROVE  /\ Restored \in Files
           /\ RowsIn(aside.lines) \subseteq RowsIn(Restored.lines)
           /\ RowsIn(cache.lines) \subseteq RowsIn(Restored.lines) \cup JoinedTo(aside, cache.lines)
           /\ RowsIn(Restored.lines) \subseteq RowsIn(aside.lines) \cup RowsIn(cache.lines)
<1>1. CASE ~aside.there
    <2>1. Restored = cache /\ RowsIn(aside.lines) = {}
        BY <1>1 DEF Restored, Shapes, Files, RowsIn
    <2> QED
        BY <2>1 DEF Shapes
<1>2. CASE aside.there /\ ~cache.there
    <2>1. Restored = aside /\ RowsIn(cache.lines) = {}
        BY <1>2 DEF Restored, PutBack, Shapes, Files, RowsIn
    <2> QED
        BY <2>1 DEF Shapes
<1>3. CASE aside.there /\ cache.there
    <2>1. Restored = Behind(aside, cache.lines, cache.cut)
        BY <1>3 DEF Restored, PutBack
    <2>2. aside \in Files /\ cache.lines \in Lines /\ cache.cut \in BOOLEAN
        BY DEF Shapes, Files
    <2> QED
        BY <2>1, <2>2, RowsBehind
<1> QED
    BY <1>1, <1>2, <1>3

\* Rows that are put back count as pending with those that were.
LEMMA FlushFailsKeeps ==
    ASSUME IInv, FlushFails
    PROVE  IInv'
<1>1. /\ up
      /\ cache' = Restored /\ aside' = NoFile
      /\ pendingRows' = pendingRows + flushingRows /\ flushingRows' = 0
      /\ pruneBefore' = IF flush.prune > pruneBefore THEN flush.prune ELSE pruneBefore
      /\ flush' = NoFlush
      /\ wrecked' = wrecked \cup JoinedTo(aside, cache.lines)
      /\ UNCHANGED <<up, pruned, written, acked, trimmed>>
    BY DEF FlushFails, Restored
<1>2. PICK done \in SUBSET flush.batch : stored' = stored \cup done
    BY DEF FlushFails
<1>3. /\ Restored \in Files
      /\ RowsIn(aside.lines) \subseteq RowsIn(Restored.lines)
      /\ RowsIn(cache.lines) \subseteq RowsIn(Restored.lines) \cup JoinedTo(aside, cache.lines)
      /\ RowsIn(Restored.lines) \subseteq RowsIn(aside.lines) \cup RowsIn(cache.lines)
    BY RowsRestored DEF IInv
<1>4. /\ pendingRows \in Nat /\ flushingRows \in Nat /\ pruneBefore \in Nat
      /\ flush.prune \in Nat /\ flush.batch \subseteq Rows
    BY DEF IInv, Shapes, Flushes
<1>5. Shapes'
    BY <1>1, <1>2, <1>3, <1>4, NoFileIsFile, NoFlushIsFlush DEF IInv, Shapes
<1>6. \A r \in Nat : Safe(r) => Safe(r)'
    BY <1>1, <1>2 DEF Safe
<1>7. \A r \in RowsIn(cache.lines) \cup RowsIn(aside.lines) : r \in RowsIn(cache'.lines) \/ Safe(r)'
    BY <1>1, <1>3 DEF Safe
<1>8. Kept'
    BY <1>1, <1>6, <1>7, AckedAreRows DEF IInv, Kept
<1>9. NothingPending'
    <2>1. SUFFICES ASSUME pendingRows' = 0, NEW r \in acked \cap RowsIn(Restored.lines) PROVE Safe(r)'
        BY <1>1 DEF NothingPending
    <2>2. pendingRows = 0 /\ flushingRows = 0
        BY <1>1, <1>4, <2>1
    <2>3. Safe(r)
        BY <1>1, <1>3, <2>2 DEF IInv, NothingPending, NothingFlushing
    <2> QED
        BY <1>6, <2>3, AckedAreRows DEF IInv
<1>10. NothingFlushing' /\ FlushedOrUnread' /\ LeftBehind' /\ DownIsIdle'
    BY <1>1, NoFileIsFile DEF NothingFlushing, FlushedOrUnread, LeftBehind, DownIsIdle, NoFlush
<1> QED
    BY <1>5, <1>8, <1>9, <1>10 DEF IInv

\* A copy that fails half-way adds rows of the outbox, which keeps them, to the
\* file set aside.
LEMMA RowsHalfBack ==
    ASSUME Shapes, NEW part \in PartsOf(cache.lines)
    PROVE  /\ Behind(aside, part.lines, part.cut) \in Files
           /\ RowsIn(aside.lines) \subseteq RowsIn(Behind(aside, part.lines, part.cut).lines)
           /\ RowsIn(Behind(aside, part.lines, part.cut).lines) \subseteq RowsIn(aside.lines) \cup RowsIn(cache.lines)
<1>1. aside \in Files /\ cache.lines \in Lines
    BY DEF Shapes, Files
<1>2. part.lines \in Lines /\ part.cut \in BOOLEAN /\ RowsIn(part.lines) \subseteq RowsIn(cache.lines)
    BY <1>1, RowsOfParts
<1> QED
    BY <1>1, <1>2, RowsBehind

LEMMA FlushFailsForGoodKeeps ==
    ASSUME IInv, FlushFailsForGood
    PROVE  IInv'
<1>1. /\ up /\ cache.there
      /\ pruneBefore' = IF flush.prune > pruneBefore THEN flush.prune ELSE pruneBefore
      /\ flush' = NoFlush
      /\ UNCHANGED <<cache, up, pendingRows, flushingRows, pruned, written, acked, trimmed, wrecked>>
    BY DEF FlushFailsForGood
<1>2. PICK done \in SUBSET flush.batch : stored' = stored \cup done
    BY DEF FlushFailsForGood
<1>3. /\ aside' \in Files
      /\ RowsIn(aside.lines) \subseteq RowsIn(aside'.lines)
      /\ RowsIn(aside'.lines) \subseteq RowsIn(aside.lines) \cup RowsIn(cache.lines)
    BY RowsHalfBack DEF FlushFailsForGood, IInv
<1>4. pruneBefore \in Nat /\ flush.prune \in Nat /\ flush.batch \subseteq Rows
    BY DEF IInv, Shapes, Flushes
<1>5. Shapes'
    BY <1>1, <1>2, <1>3, <1>4, NoFlushIsFlush DEF IInv, Shapes
<1>6. \A r \in Nat : Safe(r) => Safe(r)'
    BY <1>1, <1>2 DEF Safe
<1>7. Kept' /\ NothingPending' /\ NothingFlushing'
    BY <1>1, <1>3, <1>6, AckedAreRows DEF IInv, Kept, NothingPending, NothingFlushing
<1>8. FlushedOrUnread' /\ LeftBehind' /\ DownIsIdle'
    BY <1>1 DEF FlushedOrUnread, LeftBehind, DownIsIdle, NoFlush
<1> QED
    BY <1>5, <1>7, <1>8 DEF IInv

\* The files survive what the memory does not.
LEMMA CrashKeeps ==
    ASSUME IInv, Crash
    PROVE  IInv'
<1>1. /\ up' = FALSE /\ pendingRows' = 0 /\ flushingRows' = 0 /\ pruneBefore' = 0
      /\ flush' = NoFlush
      /\ UNCHANGED <<cache, aside, pruned, written, acked, trimmed, wrecked>>
    BY DEF Crash, diskVars
<1>2. PICK done \in SUBSET flush.batch : stored' = stored \cup done
    BY DEF Crash
<1>3. flush.batch \subseteq Rows
    BY DEF IInv, Shapes, Flushes
<1>4. Shapes'
    BY <1>1, <1>2, <1>3, NoFlushIsFlush DEF IInv, Shapes
<1>5. Kept'
    BY <1>1, <1>2 DEF IInv, Kept, Safe
<1>6. FlushedOrUnread' /\ NothingPending' /\ NothingFlushing' /\ LeftBehind' /\ DownIsIdle'
    BY <1>1 DEF FlushedOrUnread, NothingPending, NothingFlushing, LeftBehind, DownIsIdle, NoFlush
<1> QED
    BY <1>4, <1>5, <1>6 DEF IInv

\* A start that counts no lines has none.
LEMMA ReopenKeeps ==
    ASSUME IInv, Reopen
    PROVE  IInv'
<1>1. /\ ~up /\ up' = TRUE
      /\ cache' = Restored /\ aside' = NoFile
      /\ pendingRows' = Len(cache'.lines)
      /\ wrecked' = wrecked \cup JoinedTo(aside, cache.lines)
      /\ UNCHANGED <<flushingRows, pruneBefore, flush, stored, pruned, written, acked, trimmed>>
    BY DEF Reopen, CountLines, Restored, databaseVars
<1>2. /\ Restored \in Files
      /\ RowsIn(aside.lines) \subseteq RowsIn(Restored.lines)
      /\ RowsIn(cache.lines) \subseteq RowsIn(Restored.lines) \cup JoinedTo(aside, cache.lines)
    BY RowsRestored DEF IInv
<1>3. pendingRows' \in Nat /\ (pendingRows' = 0 => RowsIn(cache'.lines) = {})
    BY <1>1, <1>2 DEF Files, Lines, RowsIn
<1>4. Shapes'
    BY <1>1, <1>2, <1>3, NoFileIsFile DEF IInv, Shapes
<1>5. \A r \in Nat : Safe(r) => Safe(r)'
    BY <1>1 DEF Safe
<1>6. \A r \in RowsIn(cache.lines) \cup RowsIn(aside.lines) : r \in RowsIn(cache'.lines) \/ Safe(r)'
    BY <1>1, <1>2 DEF Safe
<1>7. Kept'
    BY <1>1, <1>5, <1>6, AckedAreRows DEF IInv, Kept
<1>8. NothingPending'
    BY <1>3 DEF NothingPending
<1>9. flush'.at = "idle"
    BY <1>1 DEF IInv, DownIsIdle
<1>10. NothingFlushing' /\ FlushedOrUnread' /\ LeftBehind' /\ DownIsIdle'
    BY <1>1, <1>9, NoFileIsFile DEF NothingFlushing, FlushedOrUnread, LeftBehind, DownIsIdle
<1> QED
    BY <1>4, <1>7, <1>8, <1>10 DEF IInv

LEMMA ReopenFailsKeeps ==
    ASSUME IInv, ReopenFails
    PROVE  IInv'
<1>1. /\ ~up
      /\ UNCHANGED <<cache, up, pendingRows, flushingRows, pruneBefore, flush, stored, pruned,
                     written, acked, trimmed, wrecked>>
    BY DEF ReopenFails, memoryVars, databaseVars
<1>2. aside' \in Files /\ RowsIn(aside.lines) \subseteq RowsIn(aside'.lines)
    BY RowsHalfBack DEF ReopenFails, IInv
<1>3. Shapes'
    BY <1>1, <1>2 DEF IInv, Shapes
<1>4. Kept'
    BY <1>1, <1>2 DEF IInv, Kept, Safe
<1>5. FlushedOrUnread' /\ NothingPending' /\ NothingFlushing' /\ LeftBehind' /\ DownIsIdle'
    BY <1>1 DEF IInv, FlushedOrUnread, NothingPending, NothingFlushing, LeftBehind, DownIsIdle
<1> QED
    BY <1>3, <1>4, <1>5 DEF IInv

\* A reader changes nothing but itself.
LEMMA StillKeeps ==
    ASSUME IInv, UNCHANGED <<diskVars, memoryVars, databaseVars, written, acked, trimmed, wrecked>>
    PROVE  IInv'
BY DEF diskVars, memoryVars, databaseVars,
       IInv, Shapes, Kept, Safe, FlushedOrUnread, NothingPending, NothingFlushing, LeftBehind, DownIsIdle

LEMMA StepsKeep == IInv /\ [OBNext]_outboxVars => IInv'
<1> SUFFICES ASSUME IInv, [OBNext]_outboxVars PROVE IInv'
    OBVIOUS
<1>1. ASSUME NEW n \in 1 .. 2, WriteMany(n) \/ WriteFails(n) PROVE IInv'
    BY <1>1, WriteManyKeeps, WriteFailsKeeps
<1>2. ASSUME NEW before \in Cutoffs, Prune(before) PROVE IInv'
    BY <1>2, PruneKeeps
<1>3. CASE FlushBegins
    BY <1>3, FlushBeginsKeeps
<1>4. CASE RenameFails
    BY <1>4, RenameFailsKeeps
<1>5. CASE BatchStored
    BY <1>5, BatchStoredKeeps
<1>6. CASE FlushEnds
    BY <1>6, FlushEndsKeeps
<1>7. CASE FlushFails
    BY <1>7, FlushFailsKeeps
<1>8. CASE FlushFailsForGood
    BY <1>8, FlushFailsForGoodKeeps
<1>9. CASE Crash
    BY <1>9, CrashKeeps
<1>10. CASE Reopen
    BY <1>10, ReopenKeeps
<1>11. CASE ReopenFails
    BY <1>11, ReopenFailsKeeps
<1>12. CASE Read \/ UNCHANGED outboxVars
    BY <1>12, StillKeeps DEF Read, outboxVars
<1> QED
    BY <1>1, <1>2, <1>3, <1>4, <1>5, <1>6, <1>7, <1>8, <1>9, <1>10, <1>11, <1>12 DEF OBNext

LEMMA InvariantSuffices == IInv => WrittenIsKept
BY DEF IInv, Kept, Safe, WrittenIsKept, OnDisk

\* Every row whose writeMany resolved is in Postgres or in a file, or was trimmed,
\* pruned or wrecked as WrittenIsKept says (deferred-persistence.ts:566-662).
THEOREM AcknowledgedIsKept == OBSpec => []WrittenIsKept
BY InitHolds, StepsKeep, InvariantSuffices, PTL DEF OBSpec

-----------------------------------------------------------------------------
(* The reader.                                                             *)

\* What the window under way owes and has not read yet is where it will still look.
WindowSoFar ==
    /\ reader \in [at : {"idle", "cache", "aside", "remote", "done"}, owed : SUBSET Rows, got : SUBSET Rows, moved : BOOLEAN]
    /\ reader.at # "idle" => up
    /\ reader.owed \subseteq acked
    /\ reader.at = "aside" /\ ~reader.moved =>
          \A r \in reader.owed : Safe(r) \/ r \in reader.got \cup RowsIn(aside.lines)
    /\ reader.at = "remote" /\ ~reader.moved => \A r \in reader.owed : Safe(r) \/ r \in reader.got
    /\ reader.at = "done" /\ ~reader.moved =>
          \A r \in reader.owed : r \in reader.got \cup trimmed \cup wrecked \/ r < pruned

\* What a step never takes back.
Grows ==
    /\ acked \subseteq acked' /\ trimmed \subseteq trimmed' /\ wrecked \subseteq wrecked'
    /\ pruned <= pruned'
    /\ \A r \in stored : r \in stored' \/ r < pruned'

LEMMA WindowUndisturbed ==
    ASSUME IInv, IInv', WindowSoFar, Grows, UNCHANGED <<reader, up>>,
           \A r \in acked \cap RowsIn(aside.lines) : Safe(r)' \/ r \in RowsIn(aside'.lines)
    PROVE  WindowSoFar'
<1>1. stored \subseteq Rows /\ pruned \in Nat /\ pruned' \in Nat
    BY DEF IInv, Shapes
<1>2. \A r \in Nat : Safe(r) => Safe(r)'
    BY <1>1, SafeStaysSafe DEF Grows
<1>3. reader.owed \subseteq Nat
    BY AckedAreRows DEF IInv, WindowSoFar
<1>4. reader'.at = "aside" /\ ~reader'.moved =>
         \A r \in reader'.owed : Safe(r)' \/ r \in reader'.got \cup RowsIn(aside'.lines)
    BY <1>2, <1>3 DEF WindowSoFar
<1>5. reader'.at = "remote" /\ ~reader'.moved => \A r \in reader'.owed : Safe(r)' \/ r \in reader'.got
    BY <1>2, <1>3 DEF WindowSoFar
<1>6. reader'.at = "done" /\ ~reader'.moved =>
         \A r \in reader'.owed : r \in reader'.got \cup trimmed' \cup wrecked' \/ r < pruned'
    BY <1>1, <1>3 DEF WindowSoFar, Grows
<1> QED
    BY <1>4, <1>5, <1>6 DEF WindowSoFar, Grows

\* Of the rows set aside, those that are overwritten by the next flush are in the
\* file that takes their place, or need none.
LEMMA FlushBeginsKeepsWindow ==
    ASSUME IInv, IInv', WindowSoFar, FlushBegins
    PROVE  WindowSoFar'
<1>1. Grows /\ UNCHANGED <<reader, up>> /\ flush.at = "idle" /\ up
    BY DEF FlushBegins, Grows, databaseVars, IInv, Shapes, MayFlush
<1>2. ASSUME NEW r \in acked \cap RowsIn(aside.lines) PROVE Safe(r)' \/ r \in RowsIn(aside'.lines)
    <2>1. CASE cache.there /\ Stranded
        BY <1>2, <2>1 DEF FlushBegins, Safe
    <2>2. CASE cache.there /\ ~Stranded
        <3>1. flushingRows = 0
            BY <1>1, <2>2 DEF Stranded, IInv, Shapes
        <3>2. Safe(r) \/ r \in RowsIn(cache.lines)
            BY <1>1, <1>2, <3>1 DEF IInv, NothingFlushing
        <3>3. Safe(r) => Safe(r)'
            BY <1>1 DEF FlushBegins, databaseVars, Safe, Grows
        <3> QED
            BY <2>2, <3>2, <3>3 DEF FlushBegins
    <2>3. CASE ~cache.there
        BY <1>2, <2>3 DEF FlushBegins, diskVars
    <2> QED
        BY <2>1, <2>2, <2>3
<1> QED
    BY <1>1, <1>2, WindowUndisturbed

LEMMA FlushEndsKeepsWindow ==
    ASSUME IInv, IInv', WindowSoFar, FlushEnds
    PROVE  WindowSoFar'
<1>1. /\ up /\ flush.at = "pruning"
      /\ stored' = {r \in stored : r >= flush.prune}
      /\ pruned' = IF flush.prune > pruned THEN flush.prune ELSE pruned
      /\ UNCHANGED <<up, acked, trimmed, wrecked, reader>>
    BY DEF FlushEnds
<1>2. flush.prune \in Nat /\ pruned \in Nat /\ stored \subseteq Nat
    BY OiOutboxAssumption DEF IInv, Shapes, Flushes, Rows
<1>3. \A r \in stored : r \in stored' \/ r < pruned'
    BY <1>1, <1>2
<1>4. Grows
    BY <1>1, <1>2, <1>3 DEF Grows
<1>5. RowsIn(aside.lines) \subseteq stored
    BY <1>1 DEF IInv, FlushedOrUnread
<1>6. \A r \in acked \cap RowsIn(aside.lines) : Safe(r)'
    BY <1>3, <1>5 DEF Safe
<1> QED
    BY <1>1, <1>4, <1>6, WindowUndisturbed

\* A window caught between the two files is marked as such.
LEMMA FlushFailsKeepsWindow ==
    ASSUME IInv, IInv', WindowSoFar, FlushFails
    PROVE  WindowSoFar'
<1>1. Grows /\ UNCHANGED <<up, acked>>
    BY DEF FlushFails, Grows, IInv, Shapes
<1>2. CASE reader.at = "aside"
    <2>1. /\ reader' = [reader EXCEPT !.moved = TRUE]
          /\ up
        BY <1>2 DEF FlushFails, ReaderMissesMove
    <2> QED
        BY <1>1, <1>2, <2>1 DEF WindowSoFar
<1>3. CASE reader.at # "aside"
    <2>1. UNCHANGED <<reader, up>>
        BY <1>1, <1>3 DEF FlushFails, ReaderMissesMove
    <2>2. stored \subseteq Rows /\ pruned \in Nat /\ pruned' \in Nat
        BY DEF IInv, Shapes
    <2>3. \A r \in Nat : Safe(r) => Safe(r)'
        BY <1>1, <2>2, SafeStaysSafe DEF Grows
    <2>4. reader.owed \subseteq Nat
        BY AckedAreRows DEF IInv, WindowSoFar
    <2>5. reader'.at = "remote" /\ ~reader'.moved => \A r \in reader'.owed : Safe(r)' \/ r \in reader'.got
        BY <2>1, <2>3, <2>4 DEF WindowSoFar
    <2>6. reader'.at = "done" /\ ~reader'.moved =>
             \A r \in reader'.owed : r \in reader'.got \cup trimmed' \cup wrecked' \/ r < pruned'
        BY <1>1, <2>1, <2>2, <2>4 DEF WindowSoFar, Grows
    <2> QED
        BY <1>1, <1>3, <2>1, <2>5, <2>6 DEF WindowSoFar
<1> QED
    BY <1>2, <1>3

LEMMA FlushFailsForGoodKeepsWindow ==
    ASSUME IInv, IInv', WindowSoFar, FlushFailsForGood
    PROVE  WindowSoFar'
<1>1. Grows /\ UNCHANGED <<reader, up>>
    BY DEF FlushFailsForGood, Grows, IInv, Shapes
<1>2. RowsIn(aside.lines) \subseteq RowsIn(aside'.lines)
    BY RowsHalfBack DEF FlushFailsForGood, IInv
<1> QED
    BY <1>1, <1>2, WindowUndisturbed

\* Nothing is read while the process is down.
LEMMA DownReadsNothing ==
    ASSUME WindowSoFar, Crash \/ Reopen \/ ReopenFails
    PROVE  WindowSoFar'
<1>1. reader'.at = "idle" /\ reader'.owed \subseteq acked'
      /\ reader' \in [at : {"idle", "cache", "aside", "remote", "done"}, owed : SUBSET Rows, got : SUBSET Rows, moved : BOOLEAN]
    <2>1. CASE Crash
        BY <2>1 DEF Crash, NoReader
    <2>2. CASE Reopen \/ ReopenFails
        BY <2>2 DEF Reopen, ReopenFails, WindowSoFar
    <2> QED
        BY <2>1, <2>2
<1> QED
    BY <1>1 DEF WindowSoFar

\* The order of the reads: the outbox, the file set aside, Postgres.
LEMMA ReadKeepsWindow ==
    ASSUME IInv, WindowSoFar, Read
    PROVE  WindowSoFar'
<1>1. UNCHANGED <<cache, aside, up, stored, pruned, acked, trimmed, wrecked>>
    BY DEF Read, diskVars, memoryVars, databaseVars
<1>2. RowsIn(cache.lines) \subseteq Rows /\ RowsIn(aside.lines) \subseteq Rows /\ stored \subseteq Rows
    BY DEF IInv, Shapes, Files, Lines, RowsIn
<1>3. \A r \in acked : Safe(r) \/ r \in RowsIn(cache.lines) \cup RowsIn(aside.lines)
    BY DEF IInv, Kept
<1>4. \A r : Safe(r) <=> Safe(r)'
    BY <1>1 DEF Safe
<1>5. CASE ReadBegins
    <2>1. /\ up
          /\ reader' = [at |-> "cache", owed |-> acked \cap (OnDisk \cup stored), got |-> {}, moved |-> FALSE]
        BY <1>5 DEF ReadBegins, NoReader
    <2>2. acked \subseteq Rows
        BY AckedAreRows DEF IInv
    <2> QED
        BY <1>1, <2>1, <2>2 DEF WindowSoFar
<1>6. CASE ReadCache
    <2>1. /\ reader.at = "cache"
          /\ reader' = [reader EXCEPT !.at = "aside", !.got = RowsIn(cache.lines)]
        BY <1>6 DEF ReadCache
    <2>2. /\ reader' \in [at : {"aside"}, owed : SUBSET Rows, got : SUBSET Rows, moved : BOOLEAN]
          /\ reader'.owed = reader.owed /\ reader'.got = RowsIn(cache.lines)
        BY <1>2, <2>1 DEF WindowSoFar
    <2> QED
        BY <1>1, <1>3, <1>4, <2>1, <2>2 DEF WindowSoFar
<1>7. CASE ReadAside
    <2>1. /\ reader.at = "aside"
          /\ reader' = [reader EXCEPT !.at = "remote", !.got = reader.got \cup RowsIn(aside.lines)]
        BY <1>7 DEF ReadAside
    <2>2. /\ reader' \in [at : {"remote"}, owed : SUBSET Rows, got : SUBSET Rows, moved : BOOLEAN]
          /\ reader'.owed = reader.owed /\ reader'.got = reader.got \cup RowsIn(aside.lines)
          /\ reader'.moved = reader.moved
        BY <1>2, <2>1 DEF WindowSoFar
    <2> QED
        BY <1>1, <1>4, <2>1, <2>2 DEF WindowSoFar
<1>8. CASE ReadRemote
    <2>1. /\ reader.at = "remote"
          /\ reader' = [reader EXCEPT !.at = "done", !.got = reader.got \cup stored]
        BY <1>8 DEF ReadRemote
    <2>2. /\ reader' \in [at : {"done"}, owed : SUBSET Rows, got : SUBSET Rows, moved : BOOLEAN]
          /\ reader'.owed = reader.owed /\ reader'.got = reader.got \cup stored
          /\ reader'.moved = reader.moved
        BY <1>2, <2>1 DEF WindowSoFar
    <2> QED
        BY <1>1, <2>1, <2>2 DEF WindowSoFar, Safe
<1>9. CASE ReadReturns
    BY <1>9 DEF ReadReturns, NoReader, WindowSoFar
<1> QED
    BY <1>5, <1>6, <1>7, <1>8, <1>9 DEF Read, LoadWindow

\* Writing, pruning and storing leave the file that is set aside alone.
LEMMA AsideAloneKeepsWindow ==
    ASSUME IInv, IInv', WindowSoFar,
           \/ \E n \in 1 .. 2 : WriteMany(n) \/ WriteFails(n)
           \/ \E before \in Cutoffs : Prune(before)
           \/ RenameFails \/ BatchStored
    PROVE  WindowSoFar'
<1>1. UNCHANGED <<reader, up, aside, pruned>>
    BY DEF WriteMany, WriteFails, Prune, RenameFails, BatchStored, diskVars, databaseVars
<1>2. acked \subseteq acked' /\ trimmed \subseteq trimmed' /\ wrecked \subseteq wrecked' /\ stored \subseteq stored'
    BY DEF WriteMany, WriteFails, Prune, RenameFails, BatchStored, databaseVars
<1>3. Grows
    BY <1>1, <1>2 DEF Grows, IInv, Shapes
<1> QED
    BY <1>1, <1>3, WindowUndisturbed

LEMMA StepsKeepWindow == IInv /\ IInv' /\ WindowSoFar /\ [OBNext]_outboxVars => WindowSoFar'
<1> SUFFICES ASSUME IInv, IInv', WindowSoFar, [OBNext]_outboxVars PROVE WindowSoFar'
    OBVIOUS
<1>1. CASE UNCHANGED outboxVars
    <2>1. UNCHANGED <<reader, up, aside, stored, pruned, acked, trimmed, wrecked>>
        BY <1>1 DEF outboxVars, diskVars, memoryVars, databaseVars
    <2> QED
        BY <2>1 DEF WindowSoFar, Safe
<1> QED
    BY <1>1, AsideAloneKeepsWindow, FlushBeginsKeepsWindow, FlushEndsKeepsWindow, FlushFailsKeepsWindow,
       FlushFailsForGoodKeepsWindow, DownReadsNothing, ReadKeepsWindow DEF OBNext

LEMMA InitWindow == OBInit => WindowSoFar
BY DEF OBInit, NoReader, WindowSoFar

LEMMA WholeAtTheEnd == IInv /\ WindowSoFar => WindowIsWhole
<1> SUFFICES ASSUME IInv, WindowSoFar, reader.at = "done", ~reader.moved, NEW r \in reader.owed
             PROVE  r \in reader.got \cup trimmed \cup wrecked \cup {x \in Rows : x < pruned}
    BY DEF WindowIsWhole
<1>1. r \in Rows
    BY AckedAreRows DEF IInv, WindowSoFar
<1> QED
    BY <1>1 DEF WindowSoFar

\* A window misses no row that was acknowledged when it was asked for, whatever
\* flushes under it, save one whose flush fails between its two files
\* (deferred-persistence.ts:601-607).
THEOREM WindowsAreWhole == OBSpec => []WindowIsWhole
BY InitHolds, StepsKeep, InitWindow, StepsKeepWindow, WholeAtTheEnd, PTL DEF OBSpec

-----------------------------------------------------------------------------
(* Types.                                                                  *)

\* A file whose last line was cut short ends in the piece.
Marked(f) == f.cut => f.lines # <<>> /\ f.lines[Len(f.lines)] = Garbage

\* What the invariants above do not need to know.
Cuts == Marked(cache) /\ Marked(aside)
Bounds ==
    /\ pruneBefore <= MaxRow /\ flush.prune <= MaxRow /\ pruned <= MaxRow
    /\ mishaps \in 0 .. Mishaps
Losses == trimmed \subseteq Rows /\ wrecked \subseteq Rows

LEMMA LinesHoldRows ==
    ASSUME NEW lines \in Lines
    PROVE  RowsIn(lines) \subseteq Rows /\ \A f : JoinedTo(f, lines) \subseteq Rows
<1>1. Len(lines) \in Nat /\ DOMAIN lines = 1 .. Len(lines)
      /\ \A i \in 1 .. Len(lines) : lines[i] \in Rows \cup {Garbage}
    BY DEF Lines
<1>2. RowsIn(lines) \subseteq Rows
    BY <1>1 DEF RowsIn
<1>3. ASSUME NEW f PROVE JoinedTo(f, lines) \subseteq Rows
    <2>1. CASE lines = <<>>
        BY <2>1 DEF JoinedTo
    <2>2. CASE lines # <<>>
        <3>1. 1 \in 1 .. Len(lines)
            BY <2>2 DEF Lines
        <3> QED
            BY <1>1, <3>1 DEF JoinedTo
    <2> QED
        BY <2>1, <2>2
<1> QED
    BY <1>2, <1>3

\* The last element of a sequence put behind another, and of what follows the first.
LEMMA LastOfConcat ==
    ASSUME NEW T, NEW s \in Seq(T), NEW t \in Seq(T), t # <<>>
    PROVE  s \o t # <<>> /\ (s \o t)[Len(s \o t)] = t[Len(t)]
<1>1. Len(s) \in Nat /\ Len(t) \in Nat /\ Len(t) > 0
    OBVIOUS
<1>2. Len(s \o t) = Len(s) + Len(t)
    OBVIOUS
<1>3. \A i \in 1 .. Len(t) : (s \o t)[Len(s) + i] = t[i]
    OBVIOUS
<1>4. (s \o t)[Len(s) + Len(t)] = t[Len(t)]
    BY <1>1, <1>3
<1>5. s \o t # <<>>
    BY <1>1, <1>2
<1> QED
    BY <1>2, <1>4, <1>5

LEMMA LastOfRest ==
    ASSUME NEW T, NEW s \in Seq(T), NEW n \in Nat, n < Len(s)
    PROVE  /\ SubSeq(s, n + 1, Len(s)) # <<>>
           /\ SubSeq(s, n + 1, Len(s))[Len(SubSeq(s, n + 1, Len(s)))] = s[Len(s)]
<1>1. Len(s) \in Nat /\ Len(s) - n \in Nat /\ Len(s) - n > 0
    OBVIOUS
<1>2. Len(SubSeq(s, n + 1, Len(s))) = Len(s) - n
    BY <1>1
<1>3. SubSeq(s, n + 1, Len(s))[Len(s) - n] = s[Len(s)]
    BY <1>1
<1>4. SubSeq(s, n + 1, Len(s)) # <<>>
    <2>1. Len(<<>>) = 0
        OBVIOUS
    <2>2. Len(SubSeq(s, n + 1, Len(s))) # 0
        BY <1>1, <1>2
    <2> QED
        BY ONLY <2>1, <2>2
<1> QED
    BY <1>2, <1>3, <1>4

LEMMA LastOfTail ==
    ASSUME NEW T, NEW s \in Seq(T), s # <<>>, Tail(s) # <<>>
    PROVE  Tail(s)[Len(Tail(s))] = s[Len(s)]
<1>1. Len(s) \in Nat /\ Len(s) > 0 /\ Tail(s) \in Seq(T) /\ Len(Tail(s)) = Len(s) - 1
    OBVIOUS
<1>2. Len(Tail(s)) > 0
    BY <1>1
<1>3. \A i \in 1 .. Len(s) - 1 : Tail(s)[i] = s[i + 1]
    BY <1>1
<1>4. Tail(s)[Len(s) - 1] = s[Len(s)]
    BY <1>1, <1>2, <1>3
<1> QED
    BY <1>1, <1>4

LEMMA MarkedBehind ==
    ASSUME NEW f \in Files, Marked(f), NEW lines \in Lines, NEW cut \in BOOLEAN,
           cut => lines # <<>> /\ lines[Len(lines)] = Garbage
    PROVE  Marked(Behind(f, lines, cut))
<1>0. f.lines \in Lines /\ f \in [there : BOOLEAN, lines : Lines, cut : BOOLEAN]
    BY DEF Files
<1>1. CASE lines = <<>>
    <2>1. Behind(f, lines, cut).cut = f.cut /\ Behind(f, lines, cut).lines = f.lines
        BY <1>0, <1>1 DEF Behind
    <2> QED
        BY <2>1 DEF Marked
<1>2. CASE lines # <<>> /\ cut /\ ~f.cut
    <2>1. Behind(f, lines, cut).lines = f.lines \o lines
        BY <1>2 DEF Behind, File
    <2>2. f.lines \o lines # <<>> /\ (f.lines \o lines)[Len(f.lines \o lines)] = lines[Len(lines)]
        BY <1>0, <1>2 DEF Lines
    <2> QED
        BY <1>2, <2>1, <2>2 DEF Marked
<1>3. CASE lines # <<>> /\ cut /\ f.cut
    <2>1. Behind(f, lines, cut).lines = f.lines \o Tail(lines)
        BY <1>3 DEF Behind, File
    <2>2. f.lines # <<>> /\ f.lines[Len(f.lines)] = Garbage /\ lines[Len(lines)] = Garbage
        BY <1>3 DEF Marked
    <2>3. lines \in Seq(Rows \cup {Garbage}) /\ f.lines \in Seq(Rows \cup {Garbage})
        BY <1>0 DEF Lines
    <2>4. CASE Tail(lines) = <<>>
        <3>1. f.lines \o Tail(lines) = f.lines
            BY <2>3, <2>4, ConcatEmptySeq
        <3> QED
            BY <2>1, <2>2, <3>1 DEF Marked
    <2>5. CASE Tail(lines) # <<>>
        <3>1. Tail(lines) \in Seq(Rows \cup {Garbage}) /\ Tail(lines)[Len(Tail(lines))] = lines[Len(lines)]
            BY <1>3, <2>3, <2>5, LastOfTail
        <3>2. /\ f.lines \o Tail(lines) # <<>>
              /\ (f.lines \o Tail(lines))[Len(f.lines \o Tail(lines))] = Tail(lines)[Len(Tail(lines))]
            BY <2>3, <2>5, <3>1, LastOfConcat
        <3> QED
            BY <2>1, <2>2, <3>1, <3>2 DEF Marked
    <2> QED
        BY <2>4, <2>5
<1>4. CASE lines # <<>> /\ ~cut
    BY <1>4 DEF Behind, File, Marked
<1> QED
    BY <1>1, <1>2, <1>3, <1>4

LEMMA MarkedWithoutLeading ==
    ASSUME NEW f \in Files, Marked(f), NEW n \in Nat
    PROVE  Marked(WithoutLeading(f, n))
<1> SUFFICES ASSUME f.cut /\ n < Len(f.lines)
             PROVE  /\ SubSeq(f.lines, n + 1, Len(f.lines)) # <<>>
                    /\ SubSeq(f.lines, n + 1, Len(f.lines))[Len(SubSeq(f.lines, n + 1, Len(f.lines)))] = Garbage
    BY DEF WithoutLeading, Marked, Files
<1>1. f.lines \in Lines /\ f.lines[Len(f.lines)] = Garbage
    BY DEF Files, Marked
<1>2. f.lines \in Seq(Rows \cup {Garbage})
    BY <1>1 DEF Lines
<1> QED
    BY <1>1, <1>2, LastOfRest

LEMMA MarkedParts ==
    ASSUME NEW lines \in Lines, NEW part \in PartsOf(lines)
    PROVE  part.cut => part.lines # <<>> /\ part.lines[Len(part.lines)] = Garbage
<1>1. CASE \E n \in 0 .. Len(lines) : part = [lines |-> SubSeq(lines, 1, n), cut |-> FALSE]
    BY <1>1
<1>2. CASE \E n \in 0 .. Len(lines) - 1 : part = [lines |-> SubSeq(lines, 1, n) \o <<Garbage>>, cut |-> TRUE]
    <2>1. PICK n \in 0 .. Len(lines) - 1 : part = [lines |-> SubSeq(lines, 1, n) \o <<Garbage>>, cut |-> TRUE]
        BY <1>2
    <2>2. Len(lines) \in Nat /\ Garbage \in Rows \cup {Garbage}
        BY DEF Lines
    <2>3. SubSeq(lines, 1, n) \in Seq(Rows \cup {Garbage}) /\ <<Garbage>> \in Seq(Rows \cup {Garbage})
        BY <2>2 DEF Lines
    <2>4. /\ SubSeq(lines, 1, n) \o <<Garbage>> # <<>>
          /\ (SubSeq(lines, 1, n) \o <<Garbage>>)[Len(SubSeq(lines, 1, n) \o <<Garbage>>)] = Garbage
        BY <2>3
    <2> QED
        BY <2>1, <2>4
<1> QED
    BY <1>1, <1>2 DEF PartsOf

LEMMA MarkedRestored == ASSUME Shapes, Cuts PROVE Marked(Restored)
<1>1. cache \in Files /\ aside \in Files /\ cache.lines \in Lines /\ cache.cut \in BOOLEAN
    BY DEF Shapes, Files
<1>2. Marked(Behind(aside, cache.lines, cache.cut))
    <2>1. cache.cut => cache.lines # <<>> /\ cache.lines[Len(cache.lines)] = Garbage
        BY DEF Cuts, Marked
    <2> QED
        BY <1>1, <2>1, MarkedBehind DEF Cuts
<1> QED
    BY <1>2 DEF Restored, PutBack, Cuts

LEMMA MarkedHalfBack ==
    ASSUME Shapes, Cuts, NEW part \in PartsOf(cache.lines)
    PROVE  Marked(Behind(aside, part.lines, part.cut))
<1>1. aside \in Files /\ cache.lines \in Lines
    BY DEF Shapes, Files
<1>2. part.lines \in Lines /\ part.cut \in BOOLEAN
    BY <1>1, RowsOfParts
<1> QED
    BY <1>1, <1>2, MarkedParts, MarkedBehind DEF Cuts

LEMMA NoFileIsMarked == Marked(NoFile)
BY DEF NoFile, Marked

LEMMA CutsKeep == IInv /\ Cuts /\ [OBNext]_outboxVars => Cuts'
<1> SUFFICES ASSUME IInv, Cuts, [OBNext]_outboxVars PROVE Cuts'
    OBVIOUS
<1>0. Shapes /\ cache \in Files /\ aside \in Files
    BY DEF IInv, Shapes
<1>1. ASSUME NEW n \in 1 .. 2, WriteMany(n) PROVE Cuts'
    <2> DEFINE longer == Behind(cache, NextRows(n), FALSE)
               total == pendingRows + n
    <2>1. NextRows(n) \in Lines
        BY <1>0, <1>1, NextRowsAreNew DEF WriteMany
    <2>2. longer \in Files /\ longer.there /\ Marked(longer)
        BY <1>0, <2>1, RowsBehind, MarkedBehind DEF Cuts
    <2>3. Overflows(total) => total - MaxPending \in Nat
        BY <1>0, OiOutboxAssumption DEF Overflows, Shapes
    <2>4. cache' = longer \/ (Overflows(total) /\ cache' = WithoutLeading(longer, total - MaxPending))
        BY <1>1 DEF WriteMany
    <2> HIDE DEF longer, total
    <2>5. Marked(cache)'
        BY <2>2, <2>3, <2>4, MarkedWithoutLeading
    <2> QED
        BY <1>1, <2>5 DEF WriteMany, Cuts
<1>2. ASSUME NEW n \in 1 .. 2, WriteFails(n) PROVE Cuts'
    <2>1. NextRows(n) \in Lines
        BY <1>0, <1>2, NextRowsAreNew DEF WriteFails
    <2>2. PICK lines \in Lines, cut \in BOOLEAN :
             /\ cut => lines # <<>> /\ lines[Len(lines)] = Garbage
             /\ cache' = Behind(cache, lines, cut)
        <3>1. CASE \E part \in PartsOf(NextRows(n)) : cache' = Behind(cache, part.lines, part.cut)
            BY <2>1, <3>1, RowsOfParts, MarkedParts
        <3>2. CASE cache' = Behind(cache, NextRows(n), FALSE)
            BY <2>1, <3>2
        <3> QED
            BY <1>2, <3>1, <3>2 DEF WriteFails
    <2>3. Marked(cache)'
        BY <1>0, <2>2, MarkedBehind DEF Cuts
    <2> QED
        BY <1>2, <2>3 DEF WriteFails, Cuts
<1>3. CASE FlushBegins
    BY <1>3, NoFileIsMarked DEF FlushBegins, Cuts, diskVars
<1>4. CASE FlushEnds
    BY <1>4, NoFileIsMarked DEF FlushEnds, Cuts
<1>5. CASE FlushFails \/ Reopen
    <2>1. cache' = Restored /\ aside' = NoFile
        BY <1>5 DEF FlushFails, Reopen, Restored
    <2> QED
        BY <1>0, <2>1, MarkedRestored, NoFileIsMarked DEF Cuts
<1>6. CASE FlushFailsForGood \/ ReopenFails
    <2>1. PICK part \in PartsOf(cache.lines) : aside' = Behind(aside, part.lines, part.cut)
        BY <1>6 DEF FlushFailsForGood, ReopenFails
    <2>2. cache' = cache
        BY <1>6 DEF FlushFailsForGood, ReopenFails
    <2> QED
        BY <1>0, <2>1, <2>2, MarkedHalfBack DEF Cuts
<1>7. CASE \/ \E before \in Cutoffs : Prune(before)
           \/ RenameFails \/ BatchStored \/ Crash \/ Read \/ UNCHANGED outboxVars
    <2>1. UNCHANGED <<cache, aside>>
        BY <1>7 DEF Prune, RenameFails, BatchStored, Crash, Read, outboxVars, diskVars
    <2> QED
        BY <2>1 DEF Cuts
<1> QED
    BY <1>1, <1>2, <1>3, <1>4, <1>5, <1>6, <1>7 DEF OBNext

LEMMA ReadOnPrunes == \A lines, prune : ReadOn(lines, prune) => flush'.prune = prune
BY DEF ReadOn

LEMMA BoundsKeep == IInv /\ Bounds /\ [OBNext]_outboxVars => Bounds'
<1> SUFFICES ASSUME IInv, Bounds, [OBNext]_outboxVars PROVE Bounds'
    OBVIOUS
<1>0. /\ MaxRow \in Nat /\ Mishaps \in Nat /\ NoFlush.prune = 0
      /\ pruneBefore \in Nat /\ flush.prune \in Nat /\ pruned \in Nat
    BY OiOutboxAssumption DEF NoFlush, IInv, Shapes, Flushes
<1>1. mishaps' \in 0 .. Mishaps
    <2>1. mishaps' = mishaps \/ Mishap \/ (mishaps + 1 < Mishaps /\ mishaps' = mishaps + 2)
        BY DEF OBNext, WriteMany, WriteFails, Prune, FlushBegins, RenameFails, BatchStored, FlushEnds, FlushFails,
               FlushFailsForGood, Crash, Reopen, ReopenFails, Read, outboxVars
    <2> QED
        BY <1>0, <2>1 DEF Bounds, Mishap
<1>2. pruned' <= MaxRow
    <2>1. pruned' \in {pruned, flush.prune}
        BY DEF OBNext, WriteMany, WriteFails, Prune, FlushBegins, RenameFails, BatchStored, FlushEnds, FlushFails,
               FlushFailsForGood, Crash, Reopen, ReopenFails, Read, outboxVars, databaseVars
    <2> QED
        BY <2>1 DEF Bounds
<1>3. pruneBefore' <= MaxRow
    <2>1. CASE \E before \in Cutoffs : Prune(before)
        BY <1>0, <2>1, OiOutboxAssumption DEF Prune
    <2>2. CASE pruneBefore' \in {0, pruneBefore, flush.prune}
        BY <1>0, <2>2 DEF Bounds
    <2>3. ~(\E before \in Cutoffs : Prune(before)) => pruneBefore' \in {0, pruneBefore, flush.prune}
        BY DEF OBNext, WriteMany, WriteFails, FlushBegins, RenameFails, BatchStored, FlushEnds, FlushFails,
               FlushFailsForGood, Crash, Reopen, ReopenFails, Read, outboxVars, memoryVars
    <2> QED
        BY <2>1, <2>2, <2>3
<1>4. flush'.prune <= MaxRow
    <2>1. CASE FlushBegins \/ BatchStored
        <3>1. flush'.prune \in {pruneBefore, flush.prune}
            BY <2>1, ReadOnPrunes DEF FlushBegins, BatchStored
        <3> QED
            BY <3>1 DEF Bounds
    <2>2. CASE RenameFails
        <3>1. flush'.prune = 0
            BY <2>2 DEF RenameFails, NoFlush
        <3> QED
            BY <1>0, <3>1
    <2>3. CASE flush' \in {flush, NoFlush}
        BY <1>0, <2>3 DEF Bounds
    <2>4. FlushBegins \/ BatchStored \/ RenameFails \/ flush' \in {flush, NoFlush}
        BY DEF OBNext, WriteMany, WriteFails, Prune, FlushEnds, FlushFails,
               FlushFailsForGood, Crash, Reopen, ReopenFails, Read, outboxVars, memoryVars
    <2> QED
        BY <2>1, <2>2, <2>3, <2>4
<1> QED
    BY <1>1, <1>2, <1>3, <1>4 DEF Bounds

LEMMA LossesKeep == IInv /\ Losses /\ [OBNext]_outboxVars => Losses'
<1> SUFFICES ASSUME IInv, Losses, [OBNext]_outboxVars PROVE Losses'
    OBVIOUS
<1>0. Shapes /\ cache \in Files /\ aside \in Files /\ cache.lines \in Lines /\ aside.lines \in Lines
    BY DEF IInv, Shapes, Files
<1>1. ASSUME NEW n \in 1 .. 2, WriteMany(n) PROVE Losses'
    <2> DEFINE longer == Behind(cache, NextRows(n), FALSE)
    <2>1. NextRows(n) \in Lines
        BY <1>0, <1>1, NextRowsAreNew DEF WriteMany
    <2>2. longer.lines \in Lines
        BY <1>0, <2>1, RowsBehind DEF Files
    <2> HIDE DEF longer
    <2>3. trimmed' \subseteq trimmed \cup RowsIn(longer.lines)
        BY <1>1 DEF WriteMany, longer
    <2>4. wrecked' = wrecked \cup JoinedTo(cache, NextRows(n))
        BY <1>1 DEF WriteMany
    <2> QED
        BY <2>1, <2>2, <2>3, <2>4, LinesHoldRows DEF Losses
<1>2. ASSUME NEW n \in 1 .. 2, WriteFails(n) PROVE Losses'
    <2>1. NextRows(n) \in Lines
        BY <1>0, <1>2, NextRowsAreNew DEF WriteFails
    <2>2. PICK lines \in Lines : wrecked' = wrecked \cup JoinedTo(cache, lines)
        <3>1. CASE \E part \in PartsOf(NextRows(n)) : wrecked' = wrecked \cup JoinedTo(cache, part.lines)
            BY <2>1, <3>1, RowsOfParts
        <3>2. CASE wrecked' = wrecked \cup JoinedTo(cache, NextRows(n))
            BY <2>1, <3>2
        <3> QED
            BY <1>2, <3>1, <3>2 DEF WriteFails
    <2> QED
        BY <1>2, <2>2, LinesHoldRows DEF WriteFails, Losses
<1>3. CASE FlushBegins
    <2>1. trimmed' = trimmed /\ wrecked' \subseteq wrecked \cup RowsIn(aside.lines)
        BY <1>3 DEF FlushBegins
    <2> QED
        BY <1>0, <2>1, LinesHoldRows DEF Losses
<1>4. CASE FlushFails \/ Reopen
    <2>1. trimmed' = trimmed /\ wrecked' = wrecked \cup JoinedTo(aside, cache.lines)
        BY <1>4 DEF FlushFails, Reopen
    <2> QED
        BY <1>0, <2>1, LinesHoldRows DEF Losses
<1>5. CASE \/ \E before \in Cutoffs : Prune(before)
           \/ RenameFails \/ BatchStored \/ FlushEnds \/ FlushFailsForGood \/ Crash \/ ReopenFails
           \/ Read \/ UNCHANGED outboxVars
    <2>1. UNCHANGED <<trimmed, wrecked>>
        BY <1>5 DEF Prune, RenameFails, BatchStored, FlushEnds, FlushFailsForGood, Crash, ReopenFails, Read, outboxVars
    <2> QED
        BY <2>1 DEF Losses
<1> QED
    BY <1>1, <1>2, <1>3, <1>4, <1>5 DEF OBNext

LEMMA TypesBegin == OBInit => Cuts /\ Bounds /\ Losses
<1>1. OBInit => Cuts
    BY NoFileIsMarked DEF OBInit, Cuts
<1>2. OBInit => Bounds
    BY OiOutboxAssumption DEF OBInit, Bounds, NoFlush
<1> QED
    BY <1>1, <1>2 DEF OBInit, Losses

LEMMA TypesSuffice == IInv /\ WindowSoFar /\ Cuts /\ Bounds /\ Losses => OBTypeOK
<1> SUFFICES ASSUME IInv, WindowSoFar, Cuts, Bounds, Losses PROVE OBTypeOK
    OBVIOUS
<1>1. \A f \in {cache, aside} :
          /\ f.there \in BOOLEAN /\ f.cut \in BOOLEAN
          /\ f.lines \in Seq(Rows \cup {Garbage})
          /\ f.lines # <<>> => f.there
          /\ f.cut => f.lines # <<>> /\ f.lines[Len(f.lines)] = Garbage
    BY DEF IInv, Shapes, Files, Lines, Cuts, Marked
<1>2. /\ pendingRows \in Nat /\ flushingRows \in Nat /\ up \in BOOLEAN
      /\ flush.at \in {"idle", "writing", "pruning", "stuck"} /\ flush.batch \subseteq Rows
      /\ flush.unread \in Seq(Rows \cup {Garbage})
    BY DEF IInv, Shapes, Flushes, Lines
<1>3. /\ pruneBefore \in 0 .. MaxRow /\ flush.prune \in 0 .. MaxRow /\ pruned \in 0 .. MaxRow
      /\ written \in 0 .. MaxRow /\ mishaps \in 0 .. Mishaps
    BY OiOutboxAssumption DEF IInv, Shapes, Flushes, Bounds
<1>4. stored \subseteq Rows /\ acked \subseteq Rows /\ trimmed \subseteq Rows /\ wrecked \subseteq Rows
    BY AckedAreRows DEF IInv, Shapes, Losses
<1>5. /\ reader.at \in {"idle", "cache", "aside", "remote", "done"}
      /\ reader.owed \subseteq Rows /\ reader.got \subseteq Rows /\ reader.moved \in BOOLEAN
    BY DEF WindowSoFar
<1> QED
    BY <1>1, <1>2, <1>3, <1>4, <1>5 DEF OBTypeOK

\* Every variable of the outbox keeps its type.
THEOREM OBTypeCorrect == OBSpec => []OBTypeOK
BY InitHolds, StepsKeep, InitWindow, StepsKeepWindow, TypesBegin, CutsKeep, BoundsKeep, LossesKeep, TypesSuffice,
   PTL DEF OBSpec
=============================================================================
