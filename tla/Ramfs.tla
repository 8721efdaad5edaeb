------------------------------- MODULE Ramfs -------------------------------
(***************************************************************************)
(* The contents of a file of kernel/src/fs/type/ramfs.c: a record is a     *)
(* list of chunks, and an open file keeps its offset and the chunk that    *)
(* the offset is in.  One process has the file open, and may open it       *)
(* again.                                                                  *)
(***************************************************************************)
EXTENDS Naturals, Sequences

CONSTANTS Byte,          \* the values of a byte
          CHUNK_SIZE,
          MaxSize,       \* bound on the size of the file, and on an offset to read at
          MaxRead        \* bound on the bytes of a read or a write

ASSUME RamfsAssumption == CHUNK_SIZE \in Nat \ {0}

VARIABLES
    chunks,   \* r->chunks: the used bytes of each chunk
    private,  \* file->private: the number of a chunk, or NoChunk
    offset,   \* file->offset
    size,     \* inode->size
    got,      \* what the last read returned
    ramfault, \* a panic() or a BUG_ON() of ramfs.c was reached
    behind    \* history: a read left the current chunk behind, and the file was
              \* neither opened nor sought in since

ramVars == <<chunks, private, offset, size, got, ramfault, behind>>

NoChunk == 0

RamfsTypeOK ==
    /\ \A c \in DOMAIN chunks : chunks[c] \in Seq(Byte) /\ Len(chunks[c]) <= CHUNK_SIZE
    /\ private \in {NoChunk} \cup DOMAIN chunks
    /\ offset \in 0 .. MaxSize + MaxRead
    /\ got \in Seq(Byte)
    /\ ramfault \in BOOLEAN /\ behind \in BOOLEAN

RamfsInit ==
    /\ chunks = <<>>
    /\ private = NoChunk
    /\ offset = 0
    /\ size = 0
    /\ got = <<>>
    /\ ramfault = FALSE
    /\ behind = FALSE
-----------------------------------------------------------------------------
\* list_next(), and the chunk that a position behind chunk c is in.
list_next(cs, c) == IF c < Len(cs) THEN c + 1 ELSE NoChunk

\* Mutant: at the end of a chunk, the position stays in it.
CurrentSame(cs, c, off) == c

Current(cs, c, off) == IF off % CHUNK_SIZE # 0 THEN c ELSE list_next(cs, c)

Lesser(a, b) == IF a < b THEN a ELSE b

\* chunk_read(): at most len bytes of chunk c from off on.
chunk_read(c, len, off) == SubSeq(chunks[c], off + 1, Lesser(off + len, Len(chunks[c])))

\* chunk_write() of as much of bytes as fits.
Fitting(bytes, off) == SubSeq(bytes, 1, Lesser(Len(bytes), CHUNK_SIZE - off))
chunk_write(chunk, bytes, off) ==
    SubSeq(chunk, 1, off) \o Fitting(bytes, off)
        \o SubSeq(chunk, off + Len(Fitting(bytes, off)) + 1, Len(chunk))

\* The turns of the loop of record_read(), from chunk c on with out read so far.
\* The current chunk is only set when all that was asked for is read:
\* list_is_last() holds of the head of a list and of no chunk.
ReadLoop(len) ==
    LET loop[c \in 0 .. Len(chunks), out \in Seq(Byte), cur \in 0 .. Len(chunks)] ==
            IF c = NoChunk \/ Len(out) = len
            THEN [got |-> out, private |-> cur]
            ELSE LET all == out \o chunk_read(c, len - Len(out),
                                              (offset + Len(out)) % CHUNK_SIZE)
                 IN  loop[list_next(chunks, c), all,
                          IF Len(all) = len THEN Current(chunks, c, offset + len)
                                            ELSE cur]
    IN  loop[private, <<>>, private]

\* A read that comes to the end of the file before it has all it asked for
\* leaves the current chunk where it is.  That is right if the end is inside it.
StopsInChunk(len) ==
    \/ private = NoChunk
    \/ offset + len <= size
    \/ private = Len(chunks) /\ size % CHUNK_SIZE # 0

\* ramfs_file_read(), with record_read().  Only the first chunk is read from
\* another place than its start, where chunk_read() could find too few bytes.
record_read(len) ==
    /\ offset <= MaxSize
    /\ ramfault' = (private # NoChunk /\ offset % CHUNK_SIZE > Len(chunks[private]))
    /\ behind' = (behind \/ ~StopsInChunk(len))
    /\ \E r \in {ReadLoop(len)} :
          /\ got' = r.got
          /\ private' = r.private
          /\ offset' = offset + Len(r.got)
    /\ UNCHANGED <<chunks, size>>

\* The turns of the loop of record_write(): a chunk is added where there is none.
WriteLoop(bytes) ==
    LET loop[cs \in Seq(Seq(Byte)), c \in 0 .. Len(bytes) + Len(chunks),
             rest \in Seq(Byte), grown \in Nat] ==
            LET off == (offset + Len(bytes) - Len(rest)) % CHUNK_SIZE
                all == IF c = NoChunk THEN Append(cs, <<>>) ELSE cs
                at == IF c = NoChunk THEN Len(all) ELSE c
                new == [all EXCEPT ![at] = chunk_write(@, rest, off)]
                left == SubSeq(rest, Len(Fitting(rest, off)) + 1, Len(rest))
                more == grown + Len(new[at]) - Len(all[at])
            IN  IF left # <<>>
                THEN loop[new, list_next(new, at), left, more]
                ELSE [chunks |-> new, grown |-> more,
                      private |-> Current(new, at, offset + Len(bytes))]
    IN  loop[chunks, private, bytes, 0]

\* ramfs_file_write(), with record_write() and the bookkeeping of the size.
record_write(bytes) ==
    /\ offset + Len(bytes) <= MaxSize
    /\ \E w \in {WriteLoop(bytes)} :
          /\ chunks' = w.chunks
          /\ private' = w.private
          /\ size' = size + w.grown
    /\ offset' = offset + Len(bytes)
    /\ UNCHANGED <<got, ramfault, behind>>

\* ramfs_file_open().
ramfs_file_open ==
    /\ private' = IF chunks = <<>> THEN NoChunk ELSE 1
    /\ offset' = 0
    /\ behind' = FALSE
    /\ UNCHANGED <<chunks, size, got, ramfault>>

\* ramfs_file_seek() from the start of the file (any other whence panics at once).
\* It panics beyond the end of the file, and also at an end that
\* is the end of a chunk.
ramfs_file_seek(off) ==
    \E c \in {off \div CHUNK_SIZE + 1} :
        /\ IF c \in DOMAIN chunks /\ off % CHUNK_SIZE <= Len(chunks[c])
           THEN private' = c /\ offset' = off /\ behind' = FALSE /\ UNCHANGED ramfault
           ELSE ramfault' = TRUE /\ UNCHANGED <<private, offset, behind>>
        /\ UNCHANGED <<chunks, size, got>>
-----------------------------------------------------------------------------
RamfsNext ==
    /\ ~ramfault
    /\ \/ \E len \in 1 .. MaxRead : record_read(len)
       \/ \E n \in 1 .. MaxRead : \E bytes \in [1 .. n -> Byte] : record_write(bytes)
       \/ ramfs_file_open
       \/ \E off \in 0 .. MaxSize : ramfs_file_seek(off)

RamfsSpec == RamfsInit /\ [][RamfsNext]_ramVars
-----------------------------------------------------------------------------

\* The chunks of a record and the current chunk of an open file implement a flat
\* file: every read, write, seek and open does to the bytes and the position
\* what it would do there, until a read leaves the current chunk behind.
Flat == INSTANCE FlatFile WITH content <- IF chunks = <<>> THEN <<>>
                                          ELSE [i \in 1 .. size |->
                                                  chunks[((i - 1) \div CHUNK_SIZE) + 1]
                                                        [((i - 1) % CHUNK_SIZE) + 1]],
                               pos <- offset

RamfsIsFlat == Flat!Init /\ [][~behind => [Flat!Next]_Flat!vars]_ramVars
=============================================================================
