-------------------------------- MODULE Buf --------------------------------
(***************************************************************************)
(* The buffers of src/src/base/buf.c, buf-type-linear.c and                *)
(* buf-type-vector.c: a record that operators take and return.  mem is the *)
(* used part of the memory: bytes in a linear buffer, iovecs (each the     *)
(* bytes it points to) in a vector one.  alloc is counted in the same      *)
(* units.  With the mode "prefix" the first PrefixLen bytes, or the first  *)
(* iovec, hold the size of the whole message, which is written when the    *)
(* buffer is sent.                                                         *)
(*                                                                         *)
(* An operator that can fail returns [r, b], r being "OK" or the error.    *)
(* Running out of memory is not modelled.                                  *)
(***************************************************************************)
EXTENDS Naturals, Sequences, FiniteSets, SequencesExt

CONSTANT PrefixLen   \* SID_BUF_SIZE_PREFIX_LEN

ASSUME PrefixLenAssumption == PrefixLen \in Nat \ {0}

\* A byte is told by where it belongs: the k-th byte of message (or of the
\* size) m.
Byte(t, k, m)   == [t |-> t, at |-> k, of |-> m]
DataBytes(m, a, b) == [k \in 1..(b - a + 1) |-> Byte("data", a + k - 1, m)]
SizeBytes(n)    == [k \in 1..PrefixLen |-> Byte("size", k, n)]

Ok(b)     == [r |-> "OK", b |-> b]
Err(e, b) == [r |-> e, b |-> b]

Used(b) == Len(b.mem)

\* What the prefix takes of mem.
PrefixUnits(b) == IF b.type = "linear" THEN PrefixLen ELSE 1
Skip(b) == IF b.mode = "prefix" THEN PrefixUnits(b) ELSE 0

Count(b) == IF Used(b) = 0 THEN 0 ELSE Used(b) - Skip(b)

\* Memory only grows, to a multiple of alloc_step, unless the size is forced.
Realloc(b, needed, force) ==
    LET step == IF force THEN 1 ELSE b.step
        size == IF needed % step = 0 THEN needed ELSE needed + step - (needed % step)
    IN  IF ~force /\ b.alloc >= needed THEN Ok(b)
        ELSE IF step = 0 THEN Err("EXFULL", b)
        ELSE IF b.limit /= 0 /\ size > b.limit THEN Err("EOVERFLOW", b)
        ELSE Ok([b EXCEPT !.alloc = size,
                          !.mem = SubSeq(@, 1, IF size < Len(@) THEN size ELSE Len(@))])

Blank(type, mode, init, step, limit) ==
    [type |-> type, mode |-> mode, init |-> init, step |-> step, limit |-> limit,
     alloc |-> 0, mem |-> <<>>, mark |-> [set |-> FALSE, pos |-> 0]]

Unmarked(b) == [b EXCEPT !.mark = [set |-> FALSE, pos |-> 0]]

\* sid_buf_reset, and what sid_buf_create does with a blank buffer.
Reset(b) == Realloc([Unmarked(b) EXCEPT !.mem = <<>>], b.init + Skip(b), TRUE).b

Create(type, mode, init, step, limit) == Reset(Blank(type, mode, init, step, limit))

\* The prefix that an empty buffer starts with; its content is set on writing.
Start(b) ==
    IF Used(b) > 0 \/ b.mode = "plain" THEN b.mem
    ELSE IF b.type = "linear" THEN SizeBytes(0) ELSE <<SizeBytes(0)>>

\* Data is appended byte by byte, or as one iovec more.
LinearAdd(b, data) ==
    LET mem == Start(b) \o data
        a   == Realloc(b, Len(mem), FALSE)
    IN  IF a.r = "OK" THEN Ok([a.b EXCEPT !.mem = mem]) ELSE a

VectorAdd(b, data) ==
    LET mem == Append(Start(b), data)
        a   == Realloc(b, Len(mem), FALSE)
    IN  IF a.r = "OK" THEN Ok([a.b EXCEPT !.mem = mem]) ELSE a

\* sid_buf_add, sid_buf_add_fmt: with hold the caller gets a pointer to what
\* was added and the buffer is marked there.  A marked buffer takes no more.
Add(b, data, hold) ==
    LET a == IF b.type = "linear" THEN LinearAdd(b, data) ELSE VectorAdd(b, data)
    IN  IF b.mark.set THEN Err("EBUSY", b)
        ELSE IF a.r = "OK" /\ hold
        THEN Ok([a.b EXCEPT !.mark = [set |-> TRUE, pos |-> Count(b)]])
        ELSE a

\* sid_buf_get_data_from: marks the buffer.  A buffer that is marked already
\* only moves its mark for position 0 (pos is compared with mark.set).
GetDataFrom(b, pos) ==
    IF pos > Count(b) THEN Err("ERANGE", b)
    ELSE Ok(IF ~b.mark.set \/ pos < 1
            THEN [b EXCEPT !.mark = [set |-> TRUE, pos |-> pos]] ELSE b)

DataFrom(b, pos) == SubSeq(b.mem, Skip(b) + pos + 1, Used(b))

\* A position is given back: the mark goes if it is not before it.
Released(b, pos) == IF b.mark.set /\ pos <= b.mark.pos THEN Unmarked(b) ELSE b

\* sid_buf_rewind to an absolute position also gives up what follows.  An
\* empty buffer is left as it is.
Rewind(b, pos) ==
    IF Count(b) = 0 THEN (IF pos = 0 THEN Ok(b) ELSE Err("ERANGE", b))
    ELSE IF pos > Count(b) THEN Err("ERANGE", b)
    ELSE Ok([Released(b, pos) EXCEPT !.mem = SubSeq(@, 1, pos + Skip(b))])

-----------------------------------------------------------------------------
\* EXPECTED: the size a linear buffer has read, 0 as long as it has not.
\* A prefix that is not made of the bytes of one size reads as rubbish, of
\* which it is enough to know that it is not the size of what follows.
Expected(b) ==
    IF Used(b) < PrefixLen THEN 0
    ELSE IF SubSeq(b.mem, 1, PrefixLen) = SizeBytes(b.mem[1].of) THEN b.mem[1].of
    ELSE PrefixLen - 1

IsComplete(b) == b.mode = "plain" \/ (Used(b) > 0 /\ Used(b) = Expected(b))

\* The most that one read takes.  A plain buffer that is full grows first.
Room(b) ==
    IF b.mode = "plain" /\ Used(b) = b.alloc
    THEN Realloc(b, b.alloc + b.step, FALSE).b.alloc - Used(b)
    ELSE b.alloc - Used(b)

\* Fault: the buffer is made to fit as soon as anything of the size is there.
AfterReadEager(b, bytes) ==
    LET n == [b EXCEPT !.mem = @ \o bytes]
    IN  IF Used(b) = 0 THEN Realloc(n, Expected(n), FALSE) ELSE Ok(n)

\* _buffer_linear_read_with_size_prefix and _read_plain when read() returned
\* bytes: the read that completes the prefix makes the buffer fit.
AfterRead(b, bytes) ==
    LET full == IF b.mode = "plain" /\ Used(b) = b.alloc
                THEN Realloc(b, b.alloc + b.step, FALSE).b ELSE b
        n    == [full EXCEPT !.mem = @ \o bytes]
    IN  IF b.mode = "plain" \/ Expected(n) = 0 THEN Ok(n)
        ELSE IF Expected(n) < PrefixLen THEN Err("EBADE", n)
        ELSE IF Used(b) < PrefixLen THEN Realloc(n, Expected(n), FALSE)
        ELSE Ok(n)

\* The same when read() returned 0: end of file, premature in mid message.
AfterEof(b) == IF b.mode = "prefix" /\ Used(b) > 0 /\ Used(b) /= Expected(b)
               THEN "EBADMSG" ELSE "EOF"

\* What sid_buf_write offers the kernel at pos; nothing: -ENODATA.
LinearWritable(b, pos) == SubSeq(b.mem, pos + 1, Used(b))

\* The bytes before the i-th iovec, and the iovec that has the byte after p others.
Offset(iov, i) ==
    LET before[k \in 0..Len(iov)] == IF k = 0 THEN 0 ELSE before[k - 1] + Len(iov[k])
    IN  before[i - 1]

Reached(iov, p) == CHOOSE i \in 1..Len(iov) : Offset(iov, i) <= p /\ p < Offset(iov, i + 1)

\* What writev sends: the rest of the iovec that pos falls into, and all that follow it.
BytesFrom(iov, pos) ==
    [k \in 1..(Offset(iov, Len(iov) + 1) - pos) |->
        LET i == Reached(iov, pos + k - 1) IN iov[i][pos + k - Offset(iov, i)]]

\* Fault: what an earlier write sent of an iovec is sent again.
VectorWritableWhole(b, pos) ==
    IF pos >= Offset(b.mem, Used(b) + 1) THEN <<>>
    ELSE BytesFrom(b.mem, Offset(b.mem, Reached(b.mem, pos)))

VectorWritable(b, pos) == BytesFrom(b.mem, pos)

Writable(b, pos) == IF b.type = "linear" THEN LinearWritable(b, pos) ELSE VectorWritable(b, pos)

\* _update_size_prefix: a linear buffer's before each write, a vector's
\* before the first one.
LinearPrefix(b) == [b EXCEPT !.mem = SizeBytes(Used(b)) \o SubSeq(@, PrefixLen + 1, Len(@))]

VectorPrefix(b, pos) ==
    IF pos > 0 THEN b ELSE [b EXCEPT !.mem[1] = SizeBytes(Offset(b.mem, Used(b) + 1))]

SetPrefix(b, pos) ==
    IF b.mode = "plain" \/ Used(b) = 0 THEN b
    ELSE IF b.type = "linear" THEN LinearPrefix(b) ELSE VectorPrefix(b, pos)
=============================================================================
