----------------------------- MODULE RingBuffer -----------------------------
(***************************************************************************)
(* The ring buffers of kernel/inc/common/ringbuff.h, as records: `front`   *)
(* and `back` are offsets from the start of the storage, `size` is its     *)
(* length (one more than the capacity) and `cells` its contents.  Elements *)
(* are one byte long, as in both of the kernel's ring buffers.  A cell   *)
(* that holds no data is NoData; the code leaves the old byte there, which *)
(* must never be read.                                                     *)
(***************************************************************************)
EXTENDS Integers, Sequences

NoData == "none"

ringbuff_init(size) ==
    [size |-> size, front |-> 0, back |-> 0, cells |-> [i \in 1 .. size |-> NoData]]

\* MIN() of common/math.h.
Least(m, n) == IF m < n THEN m ELSE n

chunksize_read(rb) ==
    IF rb.front <= rb.back THEN rb.back - rb.front ELSE rb.size - rb.front

\* One slot stays free, so that front = back means empty.
chunksize_write(rb) ==
    IF rb.front <= rb.back
    THEN rb.size - rb.back - (IF rb.front = 0 THEN 1 ELSE 0)
    ELSE rb.front - rb.back - 1

\* Neither front nor back ever points to the end of the storage.
advance(pos, amt, rb) == IF pos + amt = rb.size THEN 0 ELSE pos + amt

ringbuff_is_empty(rb) == rb.front = rb.back

\* The code does not look across the wrap: a buffer whose free slot is the last
\* one of the storage is not reported as full.
ringbuff_is_full(rb) == rb.front = rb.back + 1

ringbuff_space_used(rb) ==
    IF rb.front <= rb.back THEN rb.back - rb.front
                           ELSE (rb.size - rb.front) + rb.back

ringbuff_space_left(rb) ==
    (IF rb.back < rb.front THEN rb.front - rb.back
                           ELSE (rb.size - rb.back) + rb.front) - 1
-----------------------------------------------------------------------------
\* cells with the elements after the first `pos` replaced by data.
Store(cells, pos, data) ==
    SubSeq(cells, 1, pos) \o data \o SubSeq(cells, pos + Len(data) + 1, Len(cells))

read_chunk(rb, len) ==
    LET amt == Least(len, chunksize_read(rb))
    IN  [rb   |-> [rb EXCEPT !.front = advance(@, amt, rb),
                             !.cells = Store(@, rb.front, [i \in 1 .. amt |-> NoData])],
         data |-> SubSeq(rb.cells, rb.front + 1, rb.front + amt)]

\* Mutant: the data behind the wrap is copied first.
ringbuff_readSwapped(rb, len) ==
    LET Rest(one) == LET two == read_chunk(one.rb, len - Len(one.data))
                     IN  [two EXCEPT !.data = @ \o one.data]
        one == read_chunk(rb, len)
    IN  IF len > Len(one.data) /\ ~ringbuff_is_empty(one.rb) THEN Rest(one) ELSE one

\* Up to len elements: those before the wrap, then those behind it.
ringbuff_read(rb, len) ==
    LET Rest(one) == LET two == read_chunk(one.rb, len - Len(one.data))
                     IN  [two EXCEPT !.data = one.data \o @]
        one == read_chunk(rb, len)
    IN  IF len > Len(one.data) /\ ~ringbuff_is_empty(one.rb) THEN Rest(one) ELSE one

write_chunk(rb, data) ==
    LET amt == Least(Len(data), chunksize_write(rb))
    IN  [rb  |-> [rb EXCEPT !.back  = advance(@, amt, rb),
                            !.cells = Store(@, rb.back, SubSeq(data, 1, amt))],
         amt |-> amt]

\* As much of the data as fits.
ringbuff_write(rb, data) ==
    LET one == write_chunk(rb, data)
        two == write_chunk(one.rb, SubSeq(data, one.amt + 1, Len(data)))
    IN  IF Len(data) > one.amt /\ ~ringbuff_is_full(one.rb)
        THEN [rb |-> two.rb, amt |-> one.amt + two.amt] ELSE one
-----------------------------------------------------------------------------
\* The data in the buffer, oldest first.
Contents(rb) ==
    IF rb.front <= rb.back
    THEN SubSeq(rb.cells, rb.front + 1, rb.back)
    ELSE SubSeq(rb.cells, rb.front + 1, rb.size) \o SubSeq(rb.cells, 1, rb.back)

\* The indices are inside the storage and the spaces add up to the capacity.
RingSound(rb) ==
    /\ rb.front \in 0 .. rb.size - 1
    /\ rb.back \in 0 .. rb.size - 1
    /\ ringbuff_space_used(rb) + ringbuff_space_left(rb) = rb.size - 1
=============================================================================
