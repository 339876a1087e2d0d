------------------------------- MODULE Buffer -------------------------------
(***************************************************************************)
(* The byte buffer of a connection (web/base/Buffer.cpp): a vector with a  *)
(* read and a write index.  Bytes are numbered in the order they come in.  *)
(* A store behind the end of the vector is lost, but the index moves.      *)
(***************************************************************************)
EXTENDS Integers, Sequences, SequencesExt

CONSTANTS
    kCheapPrepend,      \* bytes kept free in front
    InitialSize,        \* kInitialSize
    ExtraSize,          \* sizeof(buf), sizeof(extrabuf): the second iovec
    MaxBytes            \* bound: bytes that come in

ASSUME BufferAssumption ==
    /\ kCheapPrepend \in Nat /\ InitialSize \in Nat
    /\ ExtraSize \in Nat \ {0} /\ MaxBytes \in Nat

VARIABLES
    buffer,             \* [bytes, reader, writer]: _buffer, _readerIndex, _writerIndex
    given,              \* bytes that came in (history)
    taken               \* bytes taken out (history)

bufferVars == <<buffer, given, taken>>

Free == 0               \* a place never written

BufferInit ==
    /\ buffer = [bytes |-> [i \in 1 .. kCheapPrepend + InitialSize |-> Free],
                 reader |-> kCheapPrepend, writer |-> kCheapPrepend]
    /\ given = 0 /\ taken = 0

size(b) == Len(b.bytes)
writableBytes(b) == size(b) - b.writer
readableBytes(b) == b.writer - b.reader
prependableBytes(b) == b.reader

toString(b) == SubSeq(b.bytes, b.reader + 1, b.writer)

-----------------------------------------------------------------------------
(* Taking out.                                                             *)

retrieveAll(b) == [b EXCEPT !.reader = kCheapPrepend, !.writer = kCheapPrepend]

\* retrieve(len), also behind retrieveUntil and retrieveAsString.
retrieve(b, len) ==
    IF len < readableBytes(b) THEN [b EXCEPT !.reader = @ + len] ELSE retrieveAll(b)

-----------------------------------------------------------------------------
(* Putting in.                                                             *)

\* data stored from place at on
Store(bytes, at, data) ==
    [i \in DOMAIN bytes |-> IF i - at \in DOMAIN data THEN data[i - at] ELSE bytes[i]]

\* makeSpace(len): the vector grows to what is needed, or the content moves
\* to the front.
makeSpace(b, len) ==
    IF writableBytes(b) + prependableBytes(b) < len + kCheapPrepend
    THEN [b EXCEPT !.bytes = [i \in 1 .. b.writer + len |->
                                IF i \in DOMAIN @ THEN @[i] ELSE Free]]
    ELSE [bytes |-> Store(b.bytes, kCheapPrepend, toString(b)),
          reader |-> kCheapPrepend,
          writer |-> kCheapPrepend + readableBytes(b)]

\* Mutant of ensureWritable: what lies in front counts as room.
ensureWritableAnywhere(b, len) ==
    IF writableBytes(b) + prependableBytes(b) < len THEN makeSpace(b, len) ELSE b

ensureWritable(b, len) == IF writableBytes(b) < len THEN makeSpace(b, len) ELSE b

\* std::copy to beginWrite(), then hasWritten().
Stored(b, data) ==
    [bytes |-> Store(b.bytes, b.writer, data), reader |-> b.reader,
     writer |-> b.writer + Len(data)]

\* The four forms of append.
bufferAppend(b, data) == Stored(ensureWritable(b, Len(data)), data)

\* readv fills the room behind the write index, then the array on the stack,
\* which is appended.
ReadIn(b, data) ==
    LET writable == writableBytes(b)
    IN  IF Len(data) <= writable
        THEN Stored(b, data)
        ELSE bufferAppend(Stored(b, SubSeq(data, 1, writable)),
                          SubSeq(data, writable + 1, Len(data)))

\* What one readv may bring: readFd leaves the array out when there is room
\* enough without, readFdET does not.
readFdLimit(b) ==
    writableBytes(b) + (IF writableBytes(b) < ExtraSize THEN ExtraSize ELSE 0)
readFdETLimit(b) == writableBytes(b) + ExtraSize

-----------------------------------------------------------------------------
(* The calls.  A read that fails or finds the end changes nothing.         *)

Incoming(len) == [i \in 1 .. len |-> given + i]

AppendData(len) ==
    /\ len \in 0 .. MaxBytes - given
    /\ buffer' = bufferAppend(buffer, Incoming(len))
    /\ given' = given + len
    /\ UNCHANGED taken

readFd(len) ==
    /\ len \in 0 .. MaxBytes - given /\ len <= readFdLimit(buffer)
    /\ buffer' = ReadIn(buffer, Incoming(len))
    /\ given' = given + len
    /\ UNCHANGED taken

\* readFdET reads until there is no more, here first and then again second
\* bytes; when it ends on an error or at the end of the stream it returns -1
\* or 0, and what came before stays in the buffer all the same.
readFdET(first, second) ==
    LET b == ReadIn(buffer, Incoming(first))
        more == [i \in 1 .. second |-> given + first + i]
    IN  /\ first > 0 /\ first <= readFdETLimit(buffer)
        /\ second <= readFdETLimit(b)
        /\ first + second <= MaxBytes - given
        /\ buffer' = IF second = 0 THEN b ELSE ReadIn(b, more)
        /\ given' = given + first + second
        /\ UNCHANGED taken

Retrieve(len) ==
    /\ len \in 0 .. readableBytes(buffer)
    /\ buffer' = retrieve(buffer, len)
    /\ taken' = taken + len
    /\ UNCHANGED given

\* retrieveAll, retrieveAllToStr.
RetrieveAll ==
    /\ buffer' = retrieveAll(buffer)
    /\ taken' = taken + readableBytes(buffer)
    /\ UNCHANGED given

\* writeFd: the socket takes len bytes; writeFdET goes on until it is full or
\* the buffer is empty, and takes pieces of which len and more are two.
writeFd(len, more) ==
    /\ len \in 1 .. readableBytes(buffer)
    /\ more \in 0 .. readableBytes(buffer) - len
    /\ buffer' = IF more = 0 THEN retrieve(buffer, len)
                 ELSE retrieve(retrieve(buffer, len), more)
    /\ taken' = taken + len + more
    /\ UNCHANGED given

BufferNext ==
    \/ \E len \in 0 .. MaxBytes : AppendData(len) \/ readFd(len) \/ Retrieve(len)
    \/ \E len, more \in 0 .. MaxBytes : readFdET(len, more) \/ writeFd(len, more)
    \/ RetrieveAll

BufferSpec == BufferInit /\ [][BufferNext]_bufferVars

-----------------------------------------------------------------------------
\* The buffer is a queue: however it grows, moves its content or takes part
\* of a read from the stack, its readable bytes are the ones given and not yet
\* taken, in order, and the indices stay as Buffer.h draws them.
BufferIsQueue ==
    /\ kCheapPrepend <= buffer.reader /\ buffer.reader <= buffer.writer
    /\ buffer.writer <= size(buffer)
    /\ toString(buffer) = [i \in 1 .. given - taken |-> taken + i]

=============================================================================
