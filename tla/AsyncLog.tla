------------------------------ MODULE AsyncLog ------------------------------
(***************************************************************************)
(* web/log: Logger and LogStream make a line, AsyncLog::append puts it     *)
(* into large buffers under _mutex, and a writer thread swaps the buffers  *)
(* out and appends them to a LogFile that rolls.                           *)
(*                                                                         *)
(* A buffer is the sequence of its lines, a unique_ptr to one a sequence   *)
(* that is empty when the pointer is null.  A line is a record: its number *)
(* n and its length len.  The section under _mutex of append and the one   *)
(* of the writer are one step each; what the writer does between them      *)
(* touches only its own variables.                                         *)
(*                                                                         *)
(* _thread is declared, and so started, before _mutex, _cond, _cur and     *)
(* _buffers; the model starts when all of them are there.                  *)
(***************************************************************************)
EXTENDS Integers, Sequences, FiniteSets, SequencesExt

CONSTANTS
    SmallSize,      \* kSmallSize: room of a LogStream
    LargeSize,      \* kLargeSize: room of a buffer of AsyncLog
    DropLimit,      \* the 25 buffers of writeThread
    RollSize,       \* _roll_size
    Messages,       \* what is logged: sequences of the lengths of its parts
    MaxLines        \* bound: lines logged

ASSUME LogAssumption ==
    /\ {SmallSize, LargeSize, DropLimit, RollSize, MaxLines} \subseteq Nat
    /\ SmallSize < LargeSize /\ DropLimit >= 2
    /\ Messages \subseteq Seq(Nat)

VARIABLES
    cur, next,      \* _cur and _next
    buffers,        \* _buffers
    buf1, buf2,     \* the writer's spare buffers
    buf_to_write,
    writer,         \* where the writer is: "while", "swap", "write", "reuse", "end"
    running,        \* _running
    files,          \* the log files, each the sequence of its lines
    logged,         \* number of lines logged
    dropped         \* the lines that were dropped

logVars == <<cur, next, buffers, buf1, buf2, buf_to_write, writer, running, files,
             logged, dropped>>

Null == <<>>
Length(lines) ==
    LET sum[i \in 0 .. Len(lines)] == IF i = 0 THEN 0 ELSE sum[i - 1] + lines[i].len
    IN  sum[Len(lines)]

\* LogBuffer::append: what does not fit is left out.
BufferAppend(buf, line) == IF LargeSize - Length(buf) > line.len THEN Append(buf, line) ELSE buf

\* LogStream::operator<<, whatever is inserted: a part that does not fit into
\* what the LogBuffer<kSmallSize> has left is left out.
Inserted(used, len) == IF SmallSize - used > len THEN used + len ELSE used

\* Logger: the parts of a message, then the "\n" of ~Logger.
LineLength(parts) ==
    LET used[i \in 0 .. Len(parts)] == IF i = 0 THEN 0 ELSE Inserted(used[i - 1], parts[i])
    IN  Inserted(used[Len(parts)], 1)

LogInit ==
    /\ cur = << <<>> >> /\ next = << <<>> >>
    /\ buf1 = << <<>> >> /\ buf2 = << <<>> >>
    /\ buffers = <<>> /\ buf_to_write = <<>>
    /\ writer = "while" /\ running = TRUE
    /\ files = << <<>> >>
    /\ logged = 0 /\ dropped = {}

\* AsyncLog::append, from any thread
append(parts) ==
    /\ logged < MaxLines
    /\ logged' = logged + 1
    /\ LET line == [n |-> logged + 1, len |-> LineLength(parts)]
       IN  \/ /\ LargeSize - Length(cur[1]) > line.len
              /\ cur' = <<BufferAppend(cur[1], line)>>
              /\ UNCHANGED <<next, buffers>>
           \/ /\ LargeSize - Length(cur[1]) <= line.len
              /\ buffers' = buffers \o cur
              /\ cur' = <<BufferAppend(IF next # Null THEN next[1] ELSE <<>>, line)>>
              /\ next' = Null
    /\ UNCHANGED <<buf1, buf2, buf_to_write, writer, running, files, dropped>>

\* stop(), up to the join
stop ==
    /\ running /\ running' = FALSE
    /\ UNCHANGED <<cur, next, buffers, buf1, buf2, buf_to_write, writer, files, logged, dropped>>

-----------------------------------------------------------------------------
(* writeThread                                                             *)

WriterLoop ==
    /\ writer = "while"
    /\ writer' = IF running THEN "swap" ELSE "end"
    /\ UNCHANGED <<cur, next, buffers, buf1, buf2, buf_to_write, running, files, logged, dropped>>

\* The section under _mutex.  wait_for ends by itself, so there is nothing to
\* wait for here.
WriterSwap ==
    /\ writer = "swap"
    /\ buf_to_write' = buffers \o cur
    /\ buffers' = <<>>
    /\ cur' = buf1 /\ buf1' = Null
    /\ IF next = Null THEN next' = buf2 /\ buf2' = Null ELSE UNCHANGED <<next, buf2>>
    /\ writer' = "write"
    /\ UNCHANGED <<running, files, logged, dropped>>

\* LogFile::append of one buffer: FileWriter::append, then rollFile when the
\* file has become too long.
FileAppend(fs, lines) ==
    LET file == Last(fs) \o lines
        all == Front(fs) \o <<file>>
    IN  IF Length(file) > RollSize THEN Append(all, <<>>) ELSE all

\* ... of the buffers of a batch, one after the other.
FileAppends(fs, batch) ==
    LET after[i \in 0 .. Len(batch)] ==
            IF i = 0 THEN fs ELSE FileAppend(after[i - 1], batch[i])
    IN  after[Len(batch)]

\* The numbers of the lines in buffers or files; notes have none.
Numbers(bufs) == (UNION {{bufs[i][j].n : j \in DOMAIN bufs[i]} : i \in DOMAIN bufs}) \ {0}

\* The batch goes to the file; of too many buffers only two, after a note.
WriterWrite ==
    /\ writer = "write"
    /\ LET many == Len(buf_to_write) > DropLimit
           kept == IF many THEN SubSeq(buf_to_write, 1, 2) ELSE buf_to_write
           lost == SubSeq(buf_to_write, Len(kept) + 1, Len(buf_to_write))
           note == IF many THEN << <<[n |-> 0, len |-> 1]>> >> ELSE <<>>
       IN  /\ files' = FileAppends(files, note \o kept)
           /\ dropped' = dropped \cup Numbers(lost)
           /\ buf_to_write' = kept
    /\ writer' = "reuse"
    /\ UNCHANGED <<cur, next, buffers, buf1, buf2, running, logged>>

\* Mutant of WriterReuse: without reset().
WriterReuseFull ==
    /\ writer = "reuse"
    /\ LET some == SubSeq(buf_to_write, 1, Min({2, Len(buf_to_write)}))
           rest == IF buf1 = Null THEN Front(some) ELSE some
       IN  /\ buf1' = IF buf1 = Null THEN <<Last(some)>> ELSE buf1
           /\ buf2' = IF buf2 = Null THEN <<Last(rest)>> ELSE buf2
    /\ buf_to_write' = <<>>
    /\ writer' = "while"
    /\ UNCHANGED <<cur, next, buffers, running, files, logged, dropped>>

\* The spare buffers are taken back from the batch, from its end, and reset;
\* then output.flush().
WriterReuse ==
    /\ writer = "reuse"
    /\ LET some == SubSeq(buf_to_write, 1, Min({2, Len(buf_to_write)}))
           rest == IF buf1 = Null /\ some # <<>> THEN Front(some) ELSE some
       IN  /\ buf1' = IF buf1 = Null /\ some # <<>> THEN << <<>> >> ELSE buf1
           /\ buf2' = IF buf2 = Null /\ rest # <<>> THEN << <<>> >> ELSE buf2
    /\ buf_to_write' = <<>>
    /\ writer' = "while"
    /\ UNCHANGED <<cur, next, buffers, running, files, logged, dropped>>

LogWriter == WriterLoop \/ WriterSwap \/ WriterWrite \/ WriterReuse
LogNext == (\E parts \in Messages : append(parts)) \/ stop \/ LogWriter

LogSpec == LogInit /\ [][LogNext]_logVars

-----------------------------------------------------------------------------
\* The writer never moves from a null buffer: after each swap append
\* finds a _cur, and the batch always has the buffers that the two assertions
\* of writeThread ask for, although one, two or many were swapped out and some
\* were dropped.
BuffersSuffice ==
    /\ cur # Null
    /\ writer = "swap" => buf1 # Null /\ (next = Null => buf2 # Null)
    /\ writer = "reuse" =>
        Len(buf_to_write) >= (IF buf1 = Null THEN 1 ELSE 0) + (IF buf2 = Null THEN 1 ELSE 0)

\* The files, then the buffers on their way there, in this order.
AllBuffers ==
    files \o (IF writer = "write" THEN buf_to_write ELSE <<>>) \o (buffers \o cur)

\* From one line to every later one, of the same buffer or of a later one,
\* the numbers rise.
Rising(bufs) ==
    \A i, k \in DOMAIN bufs : \A j \in DOMAIN bufs[i], l \in DOMAIN bufs[k] :
        /\ i < k \/ (i = k /\ j < l)
        /\ bufs[i][j].n # 0 /\ bufs[k][l].n # 0
        => bufs[i][j].n < bufs[k][l].n

\* Every line is in the files or on its way there once, in the order of the
\* calls of append, across swaps, reused buffers and rolled files, except for
\* the lines that were dropped for there being too many buffers; and the
\* writer has the buffers it needs all the time.
LinesInOrder ==
    /\ Rising(AllBuffers)
    /\ Numbers(AllBuffers) = (1 .. logged) \ dropped
    /\ BuffersSuffice

\* Line n needs no more care.
Written(n) == n \in dropped \/ \E f \in DOMAIN files : \E i \in DOMAIN files[f] : files[f][i].n = n

=============================================================================
