--------------------------- MODULE ChannelProofs ---------------------------
(***************************************************************************)
(* What Channel promises, for any sizes of prefix, headers and bodies, any *)
(* number of messages and any capacity of the kernel.                      *)
(*                                                                         *)
(* The argument: everything ever sent is one stream in which message i     *)
(* begins at off[i].  The receiver has taken the messages it delivered and *)
(* what its buffer holds, the kernel holds what follows, and the sender    *)
(* has written up to there.  The receiving buffer never has room for more  *)
(* than the message it is for, so that no read goes past its end.          *)
(***************************************************************************)
EXTENDS Channel, SequenceTheorems, TLAPS

AnyByte == [t : {"data", "size", "fd", "suffix"}, at : Nat, of : Nat]

Prefixed == link /= "external"
Prefix == IF Prefixed THEN PrefixLen ELSE 0

\* The bytes of message i without and with the one of the descriptor.
Body(i) == Prefix + sent[i].len
Size(i) == Body(i) + (IF sent[i].fd THEN 1 ELSE 0)

\* The j-th byte of message i.
MsgByte(i, j) ==
    IF j <= Prefix THEN Byte("size", j, Body(i))
    ELSE IF j <= Body(i) THEN Byte("data", j - Prefix, i)
    ELSE Byte("fd", 1, i)

\* The message that is being sent, and the one that is being received.
Newest == Len(sent)
Current == Len(got) + 1

-----------------------------------------------------------------------------
(***************************************************************************)
(* The inductive invariant.                                                *)
(***************************************************************************)

BufFields == {"type", "mode", "init", "step", "limit", "alloc", "mem", "mark"}

\* A buffer without limit.
Shape(b, type, mode, init, step) ==
    /\ DOMAIN b = BufFields
    /\ b.type = type /\ b.mode = mode /\ b.init = init /\ b.step = step /\ b.limit = 0
    /\ b.alloc \in Nat
    /\ b.mark \in [set : BOOLEAN, pos : Nat]

Types ==
    /\ link \in Links
    /\ sent \in Seq([len : Nat, fd : BOOLEAN])
    /\ \A i \in 1..Len(sent) : sent[i].len >= Header /\ (sent[i].fd => Prefixed)
    /\ ~Prefixed => Len(sent) <= 1
    /\ phase \in {"idle", "write", "fd", "closed"}
    /\ rphase \in {"read", "fd", "over"}
    /\ verdict \in {"none", "gone", "answered", "EOF", "EBADMSG", "EBADF"}
    /\ rphase /= "over" => verdict = "none"
    /\ wire \in Seq(AnyByte) /\ pos \in Nat
    /\ got \in Seq([data : Seq(AnyByte), fd : BOOLEAN])

\* What is composed in gen_buf is marked, and gone before the next message.
Composing ==
    /\ Shape(gen, "linear", "plain", 0, ExtLen)
    /\ gen.mem \in Seq(AnyByte)
    /\ gen.mark.pos = 0 /\ (gen.mem = <<>> => ~gen.mark.set)
    /\ phase = "idle" => gen.mem = <<>>

\* The buffer that is sent from: the message, but for a prefix that is written with its
\* first byte.
LinearMsg(b) ==
    /\ b.mem \in Seq(AnyByte) /\ Len(b.mem) = Body(Newest)
    /\ \A k \in (Prefix + 1)..Body(Newest) : b.mem[k] = MsgByte(Newest, k)

VectorMsg(b, p) ==
    LET n == sent[Newest].len - HdrLen
        P == b.mem[1]
    IN  /\ b.mem \in Seq(Seq(AnyByte))
        /\ b.mem = IF n = 0 THEN <<P, DataBytes(Newest, 1, HdrLen)>>
                   ELSE <<P, DataBytes(Newest, 1, HdrLen), DataBytes(Newest, HdrLen + 1, HdrLen + 1),
                          DataBytes(Newest, HdrLen + 2, HdrLen + n)>>
        /\ Len(P) = PrefixLen
        /\ p > 0 => P = SizeBytes(Body(Newest))

Sending ==
    /\ phase \in {"idle", "write", "fd"} => Shape(tx, TxBuf(link).type, TxBuf(link).mode, TxBuf(link).init, 1)
                                            /\ ~tx.mark.set
    /\ phase = "idle" => tx.mem = <<>>
    /\ phase \in {"write", "fd"} =>
          /\ sent /= <<>>
          /\ link /= "reply" => LinearMsg(tx)
          /\ link = "reply" => VectorMsg(tx, pos)
    /\ phase = "write" => pos <= Body(Newest)
    /\ phase = "fd" => sent[Newest].fd

\* Where the messages begin in the stream.
Layout(off) ==
    /\ off \in [1..(Newest + 1) -> Nat] /\ off[1] = 0
    /\ \A i \in 1..Newest : off[i + 1] = off[i] + Size(i)
    /\ \A i \in 1..Newest, j \in 1..(Newest + 1) : i < j => off[i] + Size(i) <= off[j]

Taken(off) == off[Current] + Len(rx.mem)
WrittenTo(off) == Taken(off) + Len(wire)

\* What the kernel holds follows what the receiver has, up to what the sender wrote.
Stream(off) ==
    /\ Current <= Newest + 1
    /\ \A k \in 1..Len(rx.mem) : rx.mem[k] = MsgByte(Current, k)
    /\ \A k \in 1..Len(wire), i \in 1..Newest : \A j \in 1..Size(i) :
          Taken(off) + k = off[i] + j => wire[k] = MsgByte(i, j)
    /\ sent = <<>> => WrittenTo(off) = 0
    /\ sent /= <<>> =>
          /\ phase = "write" => WrittenTo(off) = off[Newest] + pos
          /\ phase = "fd" => WrittenTo(off) = off[Newest] + Body(Newest)
          /\ phase = "idle" => WrittenTo(off) = off[Newest] + Size(Newest)
          /\ phase = "closed" =>
                /\ off[Newest] <= WrittenTo(off) /\ WrittenTo(off) <= off[Newest] + Size(Newest)
                /\ Prefixed /\ tx.mem = <<>> => WrittenTo(off) = off[Newest] + Size(Newest)

\* The receiving buffer: no room for more than the message it is for.
Receiving ==
    /\ Shape(rx, "linear", RxBuf(link).mode, RxBuf(link).init, RxBuf(link).step)
    /\ rx.mem \in Seq(AnyByte)
    /\ Len(rx.mem) <= rx.alloc
    /\ rphase = "read" => ~rx.mark.set
    /\ ~Prefixed => got = <<>> /\ rphase = "read"
    /\ Prefixed /\ Len(rx.mem) < PrefixLen => rx.alloc = PrefixLen + rx.init
    /\ Prefixed /\ Len(rx.mem) >= PrefixLen =>
          Current <= Newest /\ rx.alloc = Body(Current)
    /\ Prefixed /\ rphase = "read" => Len(rx.mem) < rx.alloc
    /\ rphase = "fd" => /\ Len(rx.mem) = Body(Current) /\ Current <= Newest
                        /\ sent[Current].fd

\* The sender ended before the descriptor of its last message; nothing more comes.
CutOff == phase = "closed" /\ wire = <<>> /\ Prefixed /\ rphase = "read" /\ rx.mem = <<>> /\ Len(got) = Newest

Underway == \E off : Layout(off) /\ (Stream(off) \/ CutOff)

IndInv ==
    /\ Types /\ Composing /\ Sending
    /\ rphase /= "over" => Receiving /\ Underway
    /\ DeliveredExactly /\ EndIsTrue
-----------------------------------------------------------------------------
(***************************************************************************)
(* Bytes and buffers.                                                      *)
(***************************************************************************)

\* Sequences of anything, element by element.
LEMMA ConcatAt ==
  ASSUME NEW S, NEW s \in Seq(S), NEW t \in Seq(S)
  PROVE  /\ s \o t \in Seq(S) /\ Len(s \o t) = Len(s) + Len(t) /\ Len(s) \in Nat /\ Len(t) \in Nat
         /\ \A k \in 1..Len(s) : (s \o t)[k] = s[k]
         /\ \A k \in 1..Len(t) : (s \o t)[Len(s) + k] = t[k]
<1>1. s \o t \in Seq(S) /\ Len(s \o t) = Len(s) + Len(t) /\ Len(s) \in Nat /\ Len(t) \in Nat
  OBVIOUS
<1>2. \A k \in 1..Len(s) : (s \o t)[k] = s[k]
  OBVIOUS
<1>3. \A k \in 1..Len(t) : (s \o t)[Len(s) + k] = t[k]
  <2> TAKE k \in 1..Len(t)
  <2>1. Len(s) + k \in 1..(Len(s) + Len(t)) /\ ~(Len(s) + k <= Len(s)) /\ Len(s) + k - Len(s) = k
    BY <1>1
  <2> QED BY <1>1, <2>1, ConcatProperties
<1> QED BY <1>1, <1>2, <1>3

\* A cut of a sequence, element by element.
LEMMA SubAt ==
  ASSUME NEW S, NEW s \in Seq(S), NEW a \in Nat, NEW b \in Nat, a >= 1, b >= a - 1, b <= Len(s)
  PROVE  /\ SubSeq(s, a, b) \in Seq(S) /\ Len(SubSeq(s, a, b)) = b - a + 1
         /\ \A k \in 1..(b - a + 1) : SubSeq(s, a, b)[k] = s[a + k - 1]
<1>1. Len(s) \in Nat /\ (a <= b \/ b = a - 1)
  OBVIOUS
<1>2. CASE a <= b
  <2>1. a \in 1..Len(s) /\ b \in 1..Len(s)
    BY <1>1, <1>2
  <2> QED BY <1>2, <2>1, SubSeqProperties
<1>3. CASE b = a - 1
  <2>1. SubSeq(s, a, b) = <<>>
    BY <1>3
  <2>2. b - a + 1 = 0
    BY <1>3
  <2> QED BY <2>1, <2>2
<1> QED BY <1>1, <1>2, <1>3

\* The data of message m from byte a to byte b.
LEMMA DataFacts ==
  ASSUME NEW m \in Nat, NEW a \in Nat, NEW b \in Nat, a >= 1, b >= a - 1
  PROVE  /\ DataBytes(m, a, b) \in Seq(AnyByte) /\ Len(DataBytes(m, a, b)) = b - a + 1
         /\ \A k \in 1..(b - a + 1) : DataBytes(m, a, b)[k] = Byte("data", a + k - 1, m)
<1> DEFINE n == b - a + 1
           d == [k \in 1..n |-> Byte("data", a + k - 1, m)]
<1>1. n \in Nat
  OBVIOUS
<1>2. \A k \in 1..n : Byte("data", a + k - 1, m) \in AnyByte
  BY DEF Byte, AnyByte
<1>3. d \in Seq(AnyByte) /\ Len(d) = n
  BY <1>1, <1>2, IsASeq, LenProperties
<1> QED BY <1>3 DEF DataBytes

\* The bytes of a length.
LEMMA SizeFacts ==
  ASSUME NEW n \in Nat
  PROVE  /\ SizeBytes(n) \in Seq(AnyByte) /\ Len(SizeBytes(n)) = PrefixLen
         /\ \A k \in 1..PrefixLen : SizeBytes(n)[k] = Byte("size", k, n)
<1>1. \A k \in 1..PrefixLen : Byte("size", k, n) \in AnyByte
  BY PrefixLenAssumption DEF Byte, AnyByte
<1> QED BY <1>1, PrefixLenAssumption, IsASeq, LenProperties DEF SizeBytes

\* sid_buf_add without a pointer in return, and the memory it asks for.
Grown(b, needed) == Realloc(b, needed, FALSE)

Added(b, data) == Add(b, data, FALSE).b

\* Memory is what was asked for and not less; what it holds stays.
LEMMA ReallocFacts ==
  ASSUME NEW b, DOMAIN b = BufFields, b.limit = 0, b.alloc \in Nat, b.step \in Nat \ {0},
         Len(b.mem) \in Nat, SubSeq(b.mem, 1, Len(b.mem)) = b.mem,
         NEW needed \in Nat, needed >= Len(b.mem),
         NEW a, a = Grown(b, needed)
  PROVE  /\ a.r = "OK" /\ DOMAIN a.b = BufFields
         /\ a.b.type = b.type /\ a.b.mode = b.mode /\ a.b.init = b.init /\ a.b.step = b.step
         /\ a.b.limit = 0 /\ a.b.mark = b.mark /\ a.b.mem = b.mem
         /\ a.b.alloc \in Nat /\ a.b.alloc >= needed
         /\ b.alloc >= needed => a.b = b
         /\ b.step = 1 /\ b.alloc < needed => a.b.alloc = needed
<1> DEFINE st == b.step
           size == IF needed % st = 0 THEN needed ELSE needed + st - (needed % st)
<1>1. /\ needed % st \in 0..(st - 1)
      /\ st = 1 => needed % st = 0
  OBVIOUS
<1>2. size \in Nat /\ size >= needed /\ (st = 1 => size = needed)
  <2>1. CASE needed % st = 0
    BY <2>1
  <2>2. CASE needed % st # 0
    BY <1>1, <2>2
  <2> QED BY <2>1, <2>2
<1>3. CASE b.alloc >= needed
  <2>1. a.r = "OK" /\ a.b = b
    BY <1>3 DEF Grown, Realloc, Ok
  <2>2. ~(b.alloc < needed)
    BY <1>3
  <2> QED BY <1>3, <2>1, <2>2, Zenon
<1>4. CASE ~(b.alloc >= needed)
  <2> DEFINE c == [b EXCEPT !.alloc = size,
                            !.mem = SubSeq(@, 1, IF size < Len(@) THEN size ELSE Len(@))]
  <2>1. a.r = "OK" /\ a.b = c
    BY <1>4 DEF Grown, Realloc, Ok
  <2> HIDE DEF size
  <2>2. SubSeq(b.mem, 1, IF size < Len(b.mem) THEN size ELSE Len(b.mem)) = b.mem
    <3>1. ~(size < Len(b.mem))
      BY <1>2
    <3> QED BY <3>1
  <2>3. /\ DOMAIN c = BufFields /\ c.alloc = size /\ c.mem = b.mem
        /\ c.type = b.type /\ c.mode = b.mode /\ c.init = b.init /\ c.step = b.step
        /\ c.limit = 0 /\ c.mark = b.mark
    BY <2>2 DEF BufFields
  <2> HIDE DEF c
  <2> QED BY <1>2, <1>4, <2>1, <2>3
<1> QED BY <1>3, <1>4

\* sid_buf_reset.
LEMMA ResetFacts ==
  ASSUME NEW b, DOMAIN b = BufFields, b.limit = 0, b.init \in Nat,
         NEW c, c = Reset(b)
  PROVE  /\ DOMAIN c = BufFields
         /\ c.type = b.type /\ c.mode = b.mode /\ c.init = b.init /\ c.step = b.step /\ c.limit = 0
         /\ c.alloc = b.init + Skip(b) /\ c.alloc \in Nat /\ c.mem = <<>>
         /\ c.mark = [set |-> FALSE, pos |-> 0] /\ c.mark \in [set : BOOLEAN, pos : Nat]
<1> DEFINE x == [Unmarked(b) EXCEPT !.mem = <<>>]
           n == b.init + Skip(b)
           size == IF n % 1 = 0 THEN n ELSE n + 1 - (n % 1)
           y == [x EXCEPT !.alloc = size, !.mem = SubSeq(@, 1, IF size < Len(@) THEN size ELSE Len(@))]
<1>1. Skip(b) \in Nat
  BY PrefixLenAssumption DEF Skip, PrefixUnits
<1>2. n \in Nat /\ size = n
  BY <1>1
<1>3. /\ DOMAIN x = BufFields /\ x.mem = <<>> /\ x.mark = [set |-> FALSE, pos |-> 0] /\ x.limit = 0
      /\ x.type = b.type /\ x.mode = b.mode /\ x.init = b.init /\ x.step = b.step
  BY DEF Unmarked, BufFields
<1> HIDE DEF x
<1>4. Realloc(x, n, TRUE).b = y
  BY <1>3 DEF Realloc, Ok
<1>5. SubSeq(x.mem, 1, IF size < Len(x.mem) THEN size ELSE Len(x.mem)) = <<>>
  <2>1. Len(x.mem) = 0 /\ ~(size < 0)
    BY <1>2, <1>3
  <2> HIDE DEF size
  <2> QED BY <1>3, <2>1
<1> HIDE DEF size
<1>6. /\ DOMAIN y = BufFields /\ y.alloc = size /\ y.mem = <<>> /\ y.mark = x.mark /\ y.limit = 0
      /\ y.type = b.type /\ y.mode = b.mode /\ y.init = b.init /\ y.step = b.step
  BY <1>3, <1>5 DEF BufFields
<1> HIDE DEF y
<1>7. c = y
  BY <1>4 DEF Reset, x
<1>8. c.mark = [set |-> FALSE, pos |-> 0] /\ c.mark \in [set : BOOLEAN, pos : Nat]
  <2>1. c.mark = [set |-> FALSE, pos |-> 0]
    BY <1>3, <1>6, <1>7, Zenon
  <2>2. [set |-> FALSE, pos |-> 0] \in [set : BOOLEAN, pos : Nat]
    OBVIOUS
  <2> QED BY <2>1, <2>2, Zenon
<1>9. c.alloc = n /\ c.alloc \in Nat
  BY <1>2, <1>6, <1>7
<1> QED BY <1>6, <1>7, <1>8, <1>9

\* sid_buf_create.
LEMMA CreateFacts ==
  ASSUME NEW type \in {"linear", "vector"}, NEW mode \in {"plain", "prefix"}, NEW init \in Nat,
         NEW step, NEW c, c = Create(type, mode, init, step, 0)
  PROVE  /\ Shape(c, type, mode, init, step) /\ c.mem = <<>> /\ ~c.mark.set /\ c.mark.pos = 0
         /\ c.alloc = init + (IF mode = "plain" THEN 0 ELSE IF type = "linear" THEN PrefixLen ELSE 1)
<1> DEFINE b == Blank(type, mode, init, step, 0)
<1>1. /\ DOMAIN b = BufFields /\ b.limit = 0 /\ b.init = init /\ b.type = type /\ b.mode = mode
      /\ b.step = step
  BY DEF Blank, BufFields
<1> HIDE DEF b
<1>2. c = Reset(b)
  BY DEF Create, b
<1>3. Skip(b) = IF mode = "plain" THEN 0 ELSE IF type = "linear" THEN PrefixLen ELSE 1
  BY <1>1 DEF Skip, PrefixUnits
<1>4. /\ DOMAIN c = BufFields
      /\ c.type = type /\ c.mode = mode /\ c.init = init /\ c.step = step /\ c.limit = 0
      /\ c.alloc = init + Skip(b) /\ c.alloc \in Nat /\ c.mem = <<>>
      /\ c.mark = [set |-> FALSE, pos |-> 0] /\ c.mark \in [set : BOOLEAN, pos : Nat]
  BY <1>1, <1>2, ResetFacts
<1>5. ~c.mark.set /\ c.mark.pos = 0
  BY <1>4
<1> QED BY <1>3, <1>4, <1>5 DEF Shape

\* What is before the data that is added.
LEMMA StartFacts ==
  ASSUME NEW b, b.type = "linear", b.mode \in {"plain", "prefix"}, b.mem \in Seq(AnyByte)
  PROVE  /\ Start(b) \in Seq(AnyByte)
         /\ b.mem /= <<>> \/ b.mode = "plain" => Start(b) = b.mem
         /\ b.mem = <<>> /\ b.mode = "prefix" => Start(b) = SizeBytes(0)
         /\ Len(Start(b)) >= Len(b.mem)
<1>1. SizeBytes(0) \in Seq(AnyByte)
  BY SizeFacts
<1>2. Len(b.mem) \in Nat /\ (Used(b) > 0 <=> b.mem /= <<>>)
  BY EmptySeq, LenProperties DEF Used
<1>3. CASE b.mem /= <<>> \/ b.mode = "plain"
  BY <1>2, <1>3 DEF Start
<1>4. CASE b.mem = <<>> /\ b.mode = "prefix"
  <2>1. Start(b) = SizeBytes(0)
    BY <1>2, <1>4 DEF Start
  <2>2. Len(SizeBytes(0)) \in Nat /\ Len(b.mem) = 0
    BY <1>1, <1>4, LenProperties
  <2> QED BY <1>1, <1>4, <2>1, <2>2
<1> QED BY <1>3, <1>4

\* c is the linear buffer b with the bytes of data after what it holds.
AddedTo(b, c, data, mode, init, step) ==
    /\ Shape(c, "linear", mode, init, step) /\ c.mark = b.mark
    /\ c.mem = Start(b) \o data /\ c.mem \in Seq(AnyByte) /\ Len(c.mem) = Len(Start(b)) + Len(data)
    /\ b.alloc >= Len(Start(b)) + Len(data) => c.alloc = b.alloc

\* sid_buf_add to a linear buffer that is not marked.
LEMMA AddFacts ==
  ASSUME NEW b, NEW mode \in {"plain", "prefix"}, NEW init, NEW step \in Nat \ {0},
         Shape(b, "linear", mode, init, step), ~b.mark.set,
         b.mem \in Seq(AnyByte), NEW data \in Seq(AnyByte), NEW c, c = Added(b, data)
  PROVE  AddedTo(b, c, data, mode, init, step)
<1> DEFINE mem == Start(b) \o data
<1>1. Start(b) \in Seq(AnyByte) /\ Len(Start(b)) >= Len(b.mem)
  BY StartFacts DEF Shape
<1>2. mem \in Seq(AnyByte) /\ Len(mem) = Len(Start(b)) + Len(data)
  BY <1>1, ConcatProperties
<1>3. Len(Start(b)) \in Nat /\ Len(data) \in Nat /\ Len(b.mem) \in Nat /\ Len(mem) \in Nat
  BY <1>1, <1>2, LenProperties
<1> HIDE DEF mem
<1>4. Len(mem) >= Len(b.mem)
  BY <1>1, <1>2, <1>3
<1>5. DOMAIN b = BufFields /\ b.limit = 0 /\ b.alloc \in Nat /\ b.step \in Nat \ {0}
  BY DEF Shape
<1>0. SubSeq(b.mem, 1, Len(b.mem)) = b.mem
  BY SubSeqFull
<1> PICK a : a = Grown(b, Len(mem))
  OBVIOUS
<1>6. /\ a.r = "OK" /\ DOMAIN a.b = BufFields
      /\ a.b.type = b.type /\ a.b.mode = b.mode /\ a.b.init = b.init /\ a.b.step = b.step
      /\ a.b.limit = 0 /\ a.b.mark = b.mark /\ a.b.alloc \in Nat
      /\ b.alloc >= Len(mem) => a.b = b
  BY <1>0, <1>3, <1>4, <1>5, ReallocFacts
<1>7. c = [a.b EXCEPT !.mem = mem]
  <2>1. b.type = "linear"
    BY DEF Shape
  <2>2. LinearAdd(b, data) = Ok([a.b EXCEPT !.mem = mem])
    BY <1>6 DEF LinearAdd, mem, Grown
  <2> QED BY <2>1, <2>2 DEF Added, Add, Ok
<1>8. /\ DOMAIN c = BufFields /\ c.mem = mem /\ c.alloc = a.b.alloc /\ c.mark = b.mark
      /\ c.type = b.type /\ c.mode = b.mode /\ c.init = b.init /\ c.step = b.step /\ c.limit = 0
  BY <1>6, <1>7 DEF BufFields
<1>9. Shape(c, "linear", mode, init, step)
  BY <1>6, <1>8 DEF Shape
<1>10. b.alloc >= Len(Start(b)) + Len(data) => c.alloc = b.alloc
  BY <1>2, <1>6, <1>8
<1> QED BY <1>2, <1>8, <1>9, <1>10 DEF mem, AddedTo

\* The same for a vector buffer: one part more.
LEMMA VectorAddFacts ==
  ASSUME NEW b, NEW init, Shape(b, "vector", "prefix", init, 1), ~b.mark.set,
         b.mem \in Seq(Seq(AnyByte)), NEW data \in Seq(AnyByte), NEW c, c = Added(b, data)
  PROVE  /\ Shape(c, "vector", "prefix", init, 1) /\ ~c.mark.set
         /\ c.mem \in Seq(Seq(AnyByte))
         /\ b.mem = <<>> => c.mem = <<SizeBytes(0), data>>
         /\ b.mem /= <<>> => c.mem = Append(b.mem, data)
<1> DEFINE mem == Append(Start(b), data)
<1>1. Len(b.mem) \in Nat /\ (Used(b) > 0 <=> b.mem /= <<>>)
  BY EmptySeq, LenProperties DEF Used
<1>2. /\ Start(b) = IF b.mem = <<>> THEN <<SizeBytes(0)>> ELSE b.mem
      /\ Start(b) \in Seq(Seq(AnyByte)) /\ Len(Start(b)) >= Len(b.mem)
  <2>1. Start(b) = IF b.mem = <<>> THEN <<SizeBytes(0)>> ELSE b.mem
    BY <1>1 DEF Start, Shape
  <2>2. SizeBytes(0) \in Seq(AnyByte)
    BY SizeFacts
  <2>3. <<SizeBytes(0)>> \in Seq(Seq(AnyByte)) /\ Len(<<SizeBytes(0)>>) = 1
    BY <2>2
  <2> QED BY <1>1, <2>1, <2>3
<1>3. mem \in Seq(Seq(AnyByte)) /\ Len(mem) = Len(Start(b)) + 1 /\ Len(mem) \in Nat
  BY <1>2, AppendProperties, LenProperties
<1>4. b.mem = <<>> => mem = <<SizeBytes(0), data>>
  <2>1. SizeBytes(0) \in Seq(AnyByte)
    BY SizeFacts
  <2>2. \A p \in Seq(AnyByte) : Append(<<p>>, data) = <<p, data>>
    <3> TAKE p \in Seq(AnyByte)
    <3> DEFINE u == Append(<<p>>, data)
               w == <<p, data>>
    <3>1. <<p>> \in Seq(Seq(AnyByte)) /\ Len(<<p>>) = 1 /\ <<p>>[1] = p
      OBVIOUS
    <3>2. u \in Seq(Seq(AnyByte)) /\ Len(u) = 2 /\ u[1] = p /\ u[2] = data
      BY <3>1, AppendProperties
    <3>3. w \in Seq(Seq(AnyByte)) /\ Len(w) = 2 /\ w[1] = p /\ w[2] = data
      OBVIOUS
    <3> HIDE DEF u, w
    <3>4. \A k \in 1..Len(u) : u[k] = w[k]
      BY <3>2, <3>3
    <3>5. u = w
      BY <3>2, <3>3, <3>4, SeqEqual
    <3> QED BY <3>5 DEF u, w
  <2> QED BY <1>2, <2>2
<1>5. b.mem /= <<>> => mem = Append(b.mem, data)
  BY <1>2
<1> HIDE DEF mem
<1>6. Len(mem) >= Len(b.mem)
  <2>1. Len(Start(b)) \in Nat
    BY <1>2, LenProperties
  <2> QED BY <1>1, <1>2, <1>3, <2>1
<1>7. DOMAIN b = BufFields /\ b.limit = 0 /\ b.alloc \in Nat /\ b.step \in Nat \ {0}
  BY DEF Shape
<1>0. SubSeq(b.mem, 1, Len(b.mem)) = b.mem
  BY SubSeqFull
<1> PICK a : a = Grown(b, Len(mem))
  OBVIOUS
<1>8. /\ a.r = "OK" /\ DOMAIN a.b = BufFields
      /\ a.b.type = b.type /\ a.b.mode = b.mode /\ a.b.init = b.init /\ a.b.step = b.step
      /\ a.b.limit = 0 /\ a.b.mark = b.mark /\ a.b.alloc \in Nat
  <2> PICK needed : needed = Len(mem)
    OBVIOUS
  <2>1. needed \in Nat /\ needed >= Len(b.mem) /\ a = Grown(b, needed)
    BY <1>3, <1>6
  <2>2. Len(b.mem) \in Nat
    BY <1>1
  <2> QED BY ONLY <1>0, <1>7, <2>1, <2>2, ReallocFacts
<1>9. c = [a.b EXCEPT !.mem = mem]
  <2>1. b.type = "vector"
    BY DEF Shape
  <2>2. VectorAdd(b, data) = Ok([a.b EXCEPT !.mem = mem])
    BY <1>8 DEF VectorAdd, mem, Grown
  <2> QED BY <2>1, <2>2 DEF Added, Add, Ok
<1>10. /\ DOMAIN c = BufFields /\ c.mem = mem /\ c.alloc = a.b.alloc /\ c.mark = b.mark
       /\ c.type = b.type /\ c.mode = b.mode /\ c.init = b.init /\ c.step = b.step /\ c.limit = 0
  BY <1>8, <1>9 DEF BufFields
<1>11. Shape(c, "vector", "prefix", init, 1) /\ ~c.mark.set
  BY <1>8, <1>10 DEF Shape
<1> QED BY <1>3, <1>4, <1>5, <1>10, <1>11

\* sid_buf_get_data_from the beginning: the mark is set there.
LEMMA MarkFacts ==
  ASSUME NEW b, NEW type, NEW mode, NEW init, NEW step, Shape(b, type, mode, init, step),
         Count(b) \in Nat, NEW c, c = GetDataFrom(b, 0).b
  PROVE  /\ Shape(c, type, mode, init, step) /\ c.mem = b.mem /\ c.alloc = b.alloc
         /\ c.mark.set /\ c.mark.pos = 0
<1> DEFINE x == [b EXCEPT !.mark = [set |-> TRUE, pos |-> 0]]
           k == [set |-> TRUE, pos |-> 0]
<1>1. c = x
  <2>1. ~(0 > Count(b))
    OBVIOUS
  <2> QED BY <2>1 DEF GetDataFrom, Ok
<1>2. /\ DOMAIN x = BufFields /\ x.type = b.type /\ x.mode = b.mode /\ x.init = b.init /\ x.step = b.step
      /\ x.limit = b.limit /\ x.alloc = b.alloc /\ x.mem = b.mem /\ x.mark = k
  BY DEF BufFields, Shape
<1> HIDE DEF x
<1>3. k \in [set : BOOLEAN, pos : Nat] /\ k.set /\ k.pos = 0
  OBVIOUS
<1> HIDE DEF k
<1> QED BY <1>1, <1>2, <1>3 DEF Shape

\* The buffers of the two ends.
LEMMA RxFacts ==
  ASSUME NEW l \in Links, NEW b, b = RxBuf(l)
  PROVE  /\ Shape(b, "linear", b.mode, b.init, b.step) /\ b.mem = <<>> /\ ~b.mark.set
         /\ b.init \in Nat /\ b.step \in Nat \ {0}
         /\ l = "external" => b.mode = "plain" /\ b.alloc = ExtLen
         /\ l /= "external" => /\ b.mode = "prefix" /\ b.step = 1 /\ b.alloc = PrefixLen + b.init
                               /\ b.init = IF l = "lane" THEN CmdLen ELSE 0
<1> USE LenAssumption, PrefixLenAssumption
<1>1. CASE l = "external"
  <2>1. b = Create("linear", "plain", ExtLen, ExtLen, 0)
    BY <1>1 DEF RxBuf
  <2>2. Shape(b, "linear", "plain", ExtLen, ExtLen) /\ b.mem = <<>> /\ ~b.mark.set /\ b.alloc = ExtLen + 0
    BY <2>1, CreateFacts
  <2> QED BY <1>1, <2>2 DEF Shape
<1>2. CASE l = "lane"
  <2>1. b = Create("linear", "prefix", CmdLen, 1, 0)
    BY <1>2 DEF RxBuf
  <2>2. Shape(b, "linear", "prefix", CmdLen, 1) /\ b.mem = <<>> /\ ~b.mark.set /\ b.alloc = CmdLen + PrefixLen
    BY <2>1, CreateFacts
  <2> QED BY <1>2, <2>2 DEF Shape
<1>3. CASE l /= "external" /\ l /= "lane"
  <2>1. b = Create("linear", "prefix", 0, 1, 0)
    BY <1>3 DEF RxBuf
  <2>2. Shape(b, "linear", "prefix", 0, 1) /\ b.mem = <<>> /\ ~b.mark.set /\ b.alloc = 0 + PrefixLen
    BY <2>1, CreateFacts
  <2> QED BY <1>3, <2>2 DEF Shape
<1> QED BY <1>1, <1>2, <1>3

\* The buffer a link is sent from, as it is created.
LEMMA TxFacts ==
  ASSUME NEW l \in Links, NEW b, b = TxBuf(l)
  PROVE  /\ Shape(b, b.type, b.mode, b.init, 1) /\ b.mem = <<>> /\ ~b.mark.set /\ b.init \in Nat
         /\ b.type = IF l = "reply" THEN "vector" ELSE "linear"
         /\ b.mode = IF l = "external" THEN "plain" ELSE "prefix"
<1> USE LenAssumption, PrefixLenAssumption
<1>1. CASE l = "external"
  <2>1. b = Create("linear", "plain", 0, 1, 0)
    BY <1>1 DEF TxBuf
  <2>2. Shape(b, "linear", "plain", 0, 1) /\ b.mem = <<>> /\ ~b.mark.set
    BY <2>1, CreateFacts
  <2> QED BY <1>1, <2>2 DEF Shape
<1>2. CASE l = "lane"
  <2>1. b = Create("linear", "prefix", CmdLen, 1, 0)
    BY <1>2 DEF TxBuf
  <2>2. Shape(b, "linear", "prefix", CmdLen, 1) /\ b.mem = <<>> /\ ~b.mark.set
    BY <2>1, CreateFacts
  <2> QED BY <1>2, <2>2 DEF Shape
<1>3. CASE l = "request"
  <2>1. b = Create("linear", "prefix", 0, 1, 0)
    BY <1>3 DEF TxBuf
  <2>2. Shape(b, "linear", "prefix", 0, 1) /\ b.mem = <<>> /\ ~b.mark.set
    BY <2>1, CreateFacts
  <2> QED BY <1>3, <2>2 DEF Shape
<1>4. CASE l = "reply"
  <2>1. b = Create("vector", "prefix", 1, 1, 0)
    BY <1>4 DEF TxBuf
  <2>2. Shape(b, "vector", "prefix", 1, 1) /\ b.mem = <<>> /\ ~b.mark.set
    BY <2>1, CreateFacts
  <2> QED BY <1>4, <2>2 DEF Shape
<1> QED BY <1>1, <1>2, <1>3, <1>4 DEF Links

\* A linear buffer has bytes from + 1 to from + n of message m after its prefix.
PrefixOf(mode) == IF mode = "prefix" THEN PrefixLen ELSE 0

Holds(mem, mode, m, from, n) ==
    /\ mem \in Seq(AnyByte) /\ Len(mem) = PrefixOf(mode) + n
    /\ \A k \in 1..n : mem[PrefixOf(mode) + k] = Byte("data", from + k, m)

\* Bytes from + 1 to from + n of message m.
Piece(d, m, from, n) ==
    d \in Seq(AnyByte) /\ Len(d) = n /\ \A k \in 1..n : d[k] = Byte("data", from + k, m)

\* The bytes of a message from one position to another.
LEMMA PieceFacts ==
  ASSUME NEW m \in Nat, NEW from \in Nat, NEW n \in Nat
  PROVE  Piece(DataBytes(m, from + 1, from + n), m, from, n)
<1> DEFINE lo == from + 1
           hi == from + n
           d == DataBytes(m, lo, hi)
<1>1. /\ lo \in Nat /\ hi \in Nat /\ lo >= 1 /\ hi >= lo - 1 /\ hi - lo + 1 = n
      /\ \A k \in 1..n : lo + k - 1 = from + k
  OBVIOUS
<1>2. d \in Seq(AnyByte) /\ Len(d) = hi - lo + 1 /\ \A k \in 1..(hi - lo + 1) : d[k] = Byte("data", lo + k - 1, m)
  <2> HIDE DEF lo, hi
  <2> QED BY ONLY m \in Nat, <1>1, DataFacts
<1>3. d \in Seq(AnyByte) /\ Len(d) = n /\ \A k \in 1..n : d[k] = Byte("data", from + k, m)
  <2> HIDE DEF d, lo, hi
  <2> QED BY <1>1, <1>2
<1> QED BY <1>3 DEF Piece

\* What follows is added to what is there.
LEMMA AddHolds ==
  ASSUME NEW b, NEW mode \in {"plain", "prefix"}, NEW init, NEW step \in Nat \ {0},
         Shape(b, "linear", mode, init, step), ~b.mark.set, b.mem \in Seq(AnyByte),
         NEW m \in Nat, NEW from \in Nat, NEW a \in Nat, NEW l \in Nat,
         Holds(Start(b), mode, m, from, a), NEW d, Piece(d, m, from + a, l),
         NEW c, c = Added(b, d)
  PROVE  /\ Shape(c, "linear", mode, init, step) /\ ~c.mark.set /\ c.mark = b.mark
         /\ Holds(c.mem, mode, m, from, a + l) /\ c.mem \in Seq(AnyByte)
<1> DEFINE s == Start(b)
           p == PrefixOf(mode)
           n == a + l
<1>3. d \in Seq(AnyByte) /\ Len(d) = n - a /\ \A k \in 1..(n - a) : d[k] = Byte("data", from + a + k, m)
  <2>1. n - a = l
    OBVIOUS
  <2> HIDE DEF n
  <2> QED BY <2>1 DEF Piece
<1>0. n \in Nat
  OBVIOUS
<1> HIDE DEF n
<1>4. p \in Nat
  BY PrefixLenAssumption DEF PrefixOf
<1>5. s \in Seq(AnyByte) /\ Len(s) = p + a /\ \A k \in 1..a : s[p + k] = Byte("data", from + k, m)
  BY DEF Holds
<1>6. /\ Shape(c, "linear", mode, init, step) /\ c.mark = b.mark
      /\ c.mem = s \o d /\ c.mem \in Seq(AnyByte) /\ Len(c.mem) = Len(s) + Len(d)
  <2>1. d \in Seq(AnyByte)
    BY <1>3
  <2>2. AddedTo(b, c, d, mode, init, step)
    BY ONLY Shape(b, "linear", mode, init, step), ~b.mark.set, b.mem \in Seq(AnyByte),
            mode \in {"plain", "prefix"}, step \in Nat \ {0}, c = Added(b, d), <2>1, AddFacts
  <2> QED BY ONLY <2>2 DEF AddedTo
<1> HIDE DEF s, p
<1>7. Len(c.mem) = p + n
  BY <1>0, <1>3, <1>4, <1>5, <1>6
<1>8. \A k \in 1..n : c.mem[p + k] = Byte("data", from + k, m)
  <2> TAKE k \in 1..n
  <2>1. CASE k <= a
    <3>1. p + k \in 1..Len(s)
      BY <1>0, <1>4, <1>5, <2>1
    <3>2. c.mem[p + k] = s[p + k]
      BY <1>3, <1>5, <1>6, <3>1, ConcatProperties
    <3> QED BY <1>0, <1>5, <2>1, <3>2
  <2>2. CASE k > a
    <3>1. p + k = Len(s) + (k - a) /\ k - a \in 1..(n - a)
      <4>1. Len(s) = p + a
        BY <1>5
      <4> QED BY <1>0, <1>4, <2>2, <4>1
    <3>2. c.mem[Len(s) + (k - a)] = d[k - a]
      <4>1. \A x \in 1..Len(d) : (s \o d)[Len(s) + x] = d[x]
        <5>1. s \in Seq(AnyByte) /\ d \in Seq(AnyByte)
          BY <1>3, <1>5
        <5> QED BY ONLY <5>1, ConcatAt
      <4>2. k - a \in 1..Len(d)
        BY <1>3, <3>1
      <4> QED BY <1>6, <4>1, <4>2
    <3>3. d[k - a] = Byte("data", from + a + (k - a), m) /\ from + a + (k - a) = from + k
      BY <1>0, <1>3, <3>1
    <3> QED BY <3>1, <3>2, <3>3
  <2>3. k <= a \/ k > a
    BY <1>0
  <2> QED BY <2>1, <2>2, <2>3
<1> QED BY <1>6, <1>7, <1>8 DEF Holds, p, n

\* How an empty buffer starts, and one that is not empty.
LEMMA StartEmpty ==
  ASSUME NEW b, b.type = "linear", NEW mode \in {"plain", "prefix"}, b.mode = mode, b.mem = <<>>,
         NEW m \in Nat, NEW from \in Nat
  PROVE  Holds(Start(b), mode, m, from, 0)
<1>1. <<>> \in Seq(AnyByte) /\ Len(<<>>) = 0
  OBVIOUS
<1>2. CASE mode = "plain"
  <2>1. Start(b) = <<>>
    BY <1>1, <1>2, StartFacts
  <2> QED BY <1>1, <1>2, <2>1 DEF Holds, PrefixOf
<1>3. CASE mode = "prefix"
  <2>1. Start(b) = SizeBytes(0)
    BY <1>1, <1>3, StartFacts
  <2>2. SizeBytes(0) \in Seq(AnyByte) /\ Len(SizeBytes(0)) = PrefixLen
    BY SizeFacts
  <2> QED BY <1>3, <2>1, <2>2, PrefixLenAssumption DEF Holds, PrefixOf
<1> QED BY <1>2, <1>3

\* A buffer that holds data is not prefixed again when more is added.
LEMMA StartHolds ==
  ASSUME NEW b, b.type = "linear", NEW mode \in {"plain", "prefix"}, b.mode = mode,
         NEW m \in Nat, NEW from \in Nat, NEW n \in Nat \ {0}, Holds(b.mem, mode, m, from, n)
  PROVE  Holds(Start(b), mode, m, from, n)
<1>1. b.mem \in Seq(AnyByte) /\ b.mem /= <<>>
  BY PrefixLenAssumption DEF Holds, PrefixOf
<1>2. Start(b) = b.mem
  BY <1>1, StartFacts
<1> QED BY <1>2

\* What a plain buffer holds is the data.
LEMMA HoldsPlain ==
  ASSUME NEW mem, NEW m \in Nat, NEW from \in Nat, NEW n \in Nat, Holds(mem, "plain", m, from, n),
         NEW lo, lo = from + 1, NEW hi, hi = from + n
  PROVE  mem = DataBytes(m, lo, hi)
<1> DEFINE d == DataBytes(m, lo, hi)
<1>1. lo \in Nat /\ hi \in Nat /\ lo >= 1 /\ hi >= lo - 1 /\ hi - lo + 1 = n
  OBVIOUS
<1>2. d \in Seq(AnyByte) /\ Len(d) = hi - lo + 1 /\ \A k \in 1..(hi - lo + 1) : d[k] = Byte("data", lo + k - 1, m)
  BY ONLY m \in Nat, <1>1, DataFacts
<1>3. mem \in Seq(AnyByte) /\ Len(mem) = n /\ \A k \in 1..n : mem[k] = Byte("data", from + k, m)
  BY DEF Holds, PrefixOf
<1> HIDE DEF d
<1>4. \A k \in 1..n : lo + k - 1 = from + k
  OBVIOUS
<1>5. \A k \in 1..Len(mem) : mem[k] = d[k]
  BY <1>1, <1>2, <1>3, <1>4
<1>6. mem = d
  <2>1. mem \in Seq(AnyByte) /\ d \in Seq(AnyByte) /\ Len(mem) = Len(d)
    BY <1>1, <1>2, <1>3
  <2> QED BY ONLY <1>5, <2>1, SeqEqual
<1> QED BY <1>6 DEF d

\* The body of a lane's message in gen_buf.
LEMMA GenFacts ==
  ASSUME NEW g, Shape(g, "linear", "plain", 0, ExtLen), ~g.mark.set, g.mark.pos = 0, g.mem = <<>>,
         NEW m \in Nat, NEW n \in Nat \ {0}, Header \in Nat,
         NEW x, x = Composed(g, m, n), NEW d, d = DataBytes(m, Header + 1, Header + n)
  PROVE  /\ Shape(x, "linear", "plain", 0, ExtLen) /\ x.mark.set /\ x.mark.pos = 0
         /\ x.mem \in Seq(AnyByte) /\ x.mem /= <<>> /\ DataFrom(x, Count(g)) = d
<1> USE LenAssumption
<1> DEFINE d1 == DataBytes(m, Header + 1, Header + 1)
           d2 == DataBytes(m, Header + 2, Header + n)
           h == Added(g, d1)
           i == Added(h, d2)
<1>1. g.mem \in Seq(AnyByte) /\ g.type = "linear" /\ g.mode = "plain" /\ Used(g) = 0 /\ Count(g) = 0
  BY DEF Shape, Used, Count
<1>2. Holds(Start(g), "plain", m, Header, 0)
  BY <1>1, StartEmpty
<1>3. /\ Shape(h, "linear", "plain", 0, ExtLen) /\ ~h.mark.set /\ h.mark = g.mark
      /\ Holds(h.mem, "plain", m, Header, 1) /\ h.mem \in Seq(AnyByte)
  <2>1. 0 \in Nat /\ 1 \in Nat /\ Header + 0 = Header /\ 0 + 1 = 1 /\ "plain" \in {"plain", "prefix"}
    OBVIOUS
  <2>2. Piece(d1, m, Header, 1)
    BY ONLY m \in Nat, Header \in Nat, <2>1, PieceFacts
  <2>3. Piece(d1, m, Header + 0, 1)
    BY <2>1, <2>2
  <2> HIDE DEF d1
  <2>4. /\ Shape(h, "linear", "plain", 0, ExtLen) /\ ~h.mark.set /\ h.mark = g.mark
        /\ Holds(h.mem, "plain", m, Header, 0 + 1) /\ h.mem \in Seq(AnyByte)
    BY ONLY Shape(g, "linear", "plain", 0, ExtLen), ~g.mark.set, m \in Nat, Header \in Nat,
               LenAssumption, <1>1, <1>2, <2>1, <2>3, AddHolds
  <2> HIDE DEF h
  <2> QED BY <2>1, <2>4
<1> HIDE DEF h
<1>4. h.type = "linear" /\ h.mode = "plain"
  BY <1>3 DEF Shape
<1>5. Holds(Start(h), "plain", m, Header, 1)
  <2>1. 1 \in Nat \ {0} /\ "plain" \in {"plain", "prefix"}
    OBVIOUS
  <2> QED BY ONLY m \in Nat, Header \in Nat, <1>3, <1>4, <2>1, StartHolds
<1>6. /\ Shape(i, "linear", "plain", 0, ExtLen) /\ ~i.mark.set /\ i.mark = h.mark
      /\ Holds(i.mem, "plain", m, Header, n) /\ i.mem \in Seq(AnyByte)
  <2>1. /\ 1 \in Nat /\ n - 1 \in Nat /\ Header + 1 \in Nat /\ 1 + (n - 1) = n /\ "plain" \in {"plain", "prefix"}
        /\ (Header + 1) + 1 = Header + 2 /\ (Header + 1) + (n - 1) = Header + n
    OBVIOUS
  <2>2. Piece(DataBytes(m, (Header + 1) + 1, (Header + 1) + (n - 1)), m, Header + 1, n - 1)
    BY ONLY m \in Nat, <2>1, PieceFacts
  <2>3. Piece(d2, m, Header + 1, n - 1)
    BY <2>1, <2>2
  <2> HIDE DEF d2
  <2>4. /\ Shape(i, "linear", "plain", 0, ExtLen) /\ ~i.mark.set /\ i.mark = h.mark
        /\ Holds(i.mem, "plain", m, Header, 1 + (n - 1)) /\ i.mem \in Seq(AnyByte)
    BY ONLY m \in Nat, Header \in Nat, LenAssumption, <1>3, <1>5, <2>1, <2>3, AddHolds
  <2> HIDE DEF i
  <2> QED BY <2>1, <2>4
<1> HIDE DEF i
<1>7. i.mem = d /\ Len(i.mem) = n
  <2>1. i.mem = d
    <3>1. n \in Nat
      OBVIOUS
    <3> QED BY ONLY m \in Nat, Header \in Nat, d = DataBytes(m, Header + 1, Header + n), <1>6, <3>1, HoldsPlain
  <2>2. Len(i.mem) = n
    BY <1>6 DEF Holds, PrefixOf
  <2> QED BY <2>1, <2>2
<1>8. Used(i) = n /\ Skip(i) = 0 /\ Count(i) = n
  BY <1>6, <1>7 DEF Used, Skip, Shape, Count
<1>9. x = GetDataFrom(i, 0).b
  BY <1>1 DEF Composed, Added, h, i
<1>10. /\ Shape(x, "linear", "plain", 0, ExtLen) /\ x.mem = i.mem /\ x.mark.set /\ x.mark.pos = 0
  <2>1. Count(i) \in Nat
    BY <1>8
  <2> QED BY ONLY <1>6, <1>9, <2>1, MarkFacts
<1>11. DataFrom(x, 0) = SubSeq(x.mem, 1, Len(x.mem))
  BY <1>10 DEF DataFrom, Used, Skip, Shape
<1>12. SubSeq(x.mem, 1, Len(x.mem)) = x.mem
  BY ONLY <1>6, <1>10, SubSeqFull
<1>13. x.mem /= <<>>
  BY <1>7, <1>10
<1> QED BY <1>1, <1>6, <1>7, <1>10, <1>11, <1>12, <1>13

\* The header of a message in a linear buffer, if it has one.
LEMMA HeadFacts ==
  ASSUME NEW b, NEW mode \in {"plain", "prefix"}, NEW init, Shape(b, "linear", mode, init, 1),
         ~b.mark.set, b.mem = <<>>, NEW m \in Nat, Header \in Nat,
         NEW h, h = IF Header = 0 THEN b ELSE Added(b, DataBytes(m, 1, Header))
  PROVE  /\ Shape(h, "linear", mode, init, 1) /\ ~h.mark.set /\ h.mem \in Seq(AnyByte)
         /\ Holds(Start(h), mode, m, 0, Header)
         /\ Header /= 0 \/ mode = "plain" => Holds(h.mem, mode, m, 0, Header)
<1>1. b.mem \in Seq(AnyByte) /\ b.type = "linear" /\ b.mode = mode
  BY DEF Shape
<1>2. Holds(Start(b), mode, m, 0, 0)
  BY <1>1, StartEmpty
<1>3. CASE Header = 0
  <2>1. mode = "plain" => Start(b) = b.mem
    BY <1>1, StartFacts
  <2>2. h = b
    BY <1>3
  <2> QED BY ONLY Shape(b, "linear", mode, init, 1), ~b.mark.set, <1>1, <1>2, <1>3, <2>1, <2>2
<1>4. CASE Header /= 0
  <2> DEFINE d == DataBytes(m, 1, Header)
  <2>1. h = Added(b, d)
    BY <1>4
  <2>2. /\ 0 \in Nat /\ 1 \in Nat /\ 1 \in Nat \ {0} /\ 0 + Header = Header /\ 0 + 1 = 1 /\ 0 + 0 = 0
        /\ Header \in Nat \ {0}
    BY <1>4
  <2>3. Piece(DataBytes(m, 0 + 1, 0 + Header), m, 0, Header)
    BY ONLY m \in Nat, Header \in Nat, <2>2, PieceFacts
  <2>4. Piece(d, m, 0 + 0, Header)
    BY <2>2, <2>3
  <2> HIDE DEF d
  <2>5. /\ Shape(h, "linear", mode, init, 1) /\ ~h.mark.set /\ h.mark = b.mark
        /\ Holds(h.mem, mode, m, 0, 0 + Header) /\ h.mem \in Seq(AnyByte)
    BY ONLY Shape(b, "linear", mode, init, 1), ~b.mark.set, mode \in {"plain", "prefix"}, m \in Nat,
            Header \in Nat, <1>1, <1>2, <2>1, <2>2, <2>4, AddHolds
  <2>6. Holds(h.mem, mode, m, 0, Header) /\ h.type = "linear" /\ h.mode = mode
    BY <2>2, <2>5 DEF Shape
  <2>7. Holds(Start(h), mode, m, 0, Header)
    BY ONLY mode \in {"plain", "prefix"}, m \in Nat, <2>2, <2>6, StartHolds
  <2> QED BY ONLY <2>5, <2>6, <2>7
<1> QED BY <1>3, <1>4

\* What follows the header, in one piece or in two.
LEMMA BodyFacts ==
  ASSUME NEW h, NEW mode \in {"plain", "prefix"}, NEW init, Shape(h, "linear", mode, init, 1),
         ~h.mark.set, h.mem \in Seq(AnyByte), NEW m \in Nat, Header \in Nat,
         Holds(Start(h), mode, m, 0, Header), NEW n \in Nat \ {0},
         NEW c, c = Added(h, DataBytes(m, Header + 1, Header + n)) \/ c = Parts(h, m, n)
  PROVE  /\ Shape(c, "linear", mode, init, 1) /\ ~c.mark.set /\ Holds(c.mem, mode, m, 0, Header + n)
<1>0. /\ 0 \in Nat /\ 1 \in Nat /\ 1 \in Nat \ {0} /\ 0 + Header = Header /\ n \in Nat /\ n - 1 \in Nat
      /\ Header + 1 \in Nat /\ Header + 1 \in Nat \ {0} /\ 0 + (Header + 1) = Header + 1
      /\ (Header + 1) + 1 = Header + 2 /\ (Header + 1) + (n - 1) = Header + n
  OBVIOUS
<1>1. CASE c = Added(h, DataBytes(m, Header + 1, Header + n))
  <2> DEFINE d == DataBytes(m, Header + 1, Header + n)
  <2>1. Piece(d, m, Header, n)
    BY ONLY m \in Nat, Header \in Nat, <1>0, PieceFacts
  <2>2. Piece(d, m, 0 + Header, n) /\ c = Added(h, d)
    BY <1>0, <1>1, <2>1
  <2> HIDE DEF d
  <2> QED BY ONLY Shape(h, "linear", mode, init, 1), ~h.mark.set, h.mem \in Seq(AnyByte),
               mode \in {"plain", "prefix"}, m \in Nat, Header \in Nat,
               Holds(Start(h), mode, m, 0, Header), <1>0, <2>2, AddHolds
<1>2. CASE c = Parts(h, m, n)
  <2> DEFINE d1 == DataBytes(m, Header + 1, Header + 1)
             d2 == DataBytes(m, Header + 2, Header + n)
             i == Added(h, d1)
  <2>1. Piece(d1, m, Header, 1)
    BY ONLY m \in Nat, Header \in Nat, <1>0, PieceFacts
  <2>2. Piece(d1, m, 0 + Header, 1)
    BY <1>0, <2>1
  <2>3. Piece(DataBytes(m, (Header + 1) + 1, (Header + 1) + (n - 1)), m, Header + 1, n - 1)
    BY ONLY m \in Nat, <1>0, PieceFacts
  <2>4. Piece(d2, m, 0 + (Header + 1), n - 1)
    BY <1>0, <2>3
  <2>5. c = Added(i, d2)
    BY <1>2 DEF Parts, Added
  <2> HIDE DEF d1, d2
  <2>6. /\ Shape(i, "linear", mode, init, 1) /\ ~i.mark.set
        /\ Holds(i.mem, mode, m, 0, Header + 1) /\ i.mem \in Seq(AnyByte)
    BY ONLY Shape(h, "linear", mode, init, 1), ~h.mark.set, h.mem \in Seq(AnyByte),
            mode \in {"plain", "prefix"}, m \in Nat, Header \in Nat,
            Holds(Start(h), mode, m, 0, Header), <1>0, <2>2, AddHolds
  <2> HIDE DEF i
  <2>7. i.type = "linear" /\ i.mode = mode
    BY <2>6 DEF Shape
  <2>8. Holds(Start(i), mode, m, 0, Header + 1)
    BY ONLY mode \in {"plain", "prefix"}, m \in Nat, <1>0, <2>6, <2>7, StartHolds
  <2> DEFINE a == Header + 1
             l == n - 1
  <2>9. a \in Nat /\ l \in Nat /\ a + l = Header + n /\ Piece(d2, m, 0 + a, l) /\ Holds(Start(i), mode, m, 0, a)
    BY <1>0, <2>4, <2>8
  <2> HIDE DEF a, l
  <2>10. /\ Shape(c, "linear", mode, init, 1) /\ ~c.mark.set /\ Holds(c.mem, mode, m, 0, a + l)
    <3>1. 0 \in Nat /\ 1 \in Nat \ {0}
      OBVIOUS
    <3>2. Shape(i, "linear", mode, init, 1) /\ ~i.mark.set /\ i.mem \in Seq(AnyByte)
      BY <2>6
    <3>3. a \in Nat /\ l \in Nat /\ Piece(d2, m, 0 + a, l) /\ Holds(Start(i), mode, m, 0, a)
      BY <2>9
    <3> QED BY ONLY mode \in {"plain", "prefix"}, m \in Nat, <2>5, <3>1, <3>2, <3>3, AddHolds
  <2> QED BY <2>9, <2>10
<1> QED BY <1>1, <1>2

\* The parts of a vector.
LEMMA AppendThird ==
  ASSUME NEW p \in Seq(AnyByte), NEW q \in Seq(AnyByte), NEW r \in Seq(AnyByte)
  PROVE  Append(<<p, q>>, r) = <<p, q, r>>
<1> DEFINE S == Seq(AnyByte)
           u == Append(<<p, q>>, r)
           w == <<p, q, r>>
<1>0. p \in S /\ q \in S /\ r \in S
  OBVIOUS
<1> HIDE DEF S
<1>1. <<p, q>> \in Seq(S) /\ Len(<<p, q>>) = 2 /\ <<p, q>>[1] = p /\ <<p, q>>[2] = q
  BY ONLY <1>0
<1>2. u \in Seq(S) /\ Len(u) = 3 /\ u[1] = p /\ u[2] = q /\ u[3] = r
  BY ONLY <1>0, <1>1, AppendProperties
<1>3. w \in Seq(S) /\ Len(w) = 3 /\ w[1] = p /\ w[2] = q /\ w[3] = r
  BY ONLY <1>0
<1> HIDE DEF u, w
<1>4. \A k \in 1..Len(u) : u[k] = w[k]
  BY <1>2, <1>3
<1>5. u = w
  BY <1>2, <1>3, <1>4, SeqEqual
<1> QED BY <1>5 DEF u, w

\* The provers do not append to a tuple by themselves.
LEMMA AppendFourth ==
  ASSUME NEW p \in Seq(AnyByte), NEW q \in Seq(AnyByte), NEW r \in Seq(AnyByte), NEW s \in Seq(AnyByte)
  PROVE  Append(<<p, q, r>>, s) = <<p, q, r, s>>
<1> DEFINE S == Seq(AnyByte)
           u == Append(<<p, q, r>>, s)
           w == <<p, q, r, s>>
<1>0. p \in S /\ q \in S /\ r \in S /\ s \in S
  OBVIOUS
<1> HIDE DEF S
<1>1. <<p, q, r>> \in Seq(S) /\ Len(<<p, q, r>>) = 3 /\ <<p, q, r>>[1] = p /\ <<p, q, r>>[2] = q /\ <<p, q, r>>[3] = r
  BY ONLY <1>0
<1>2. u \in Seq(S) /\ Len(u) = 4 /\ u[1] = p /\ u[2] = q /\ u[3] = r /\ u[4] = s
  BY ONLY <1>0, <1>1, AppendProperties
<1>3. w \in Seq(S) /\ Len(w) = 4 /\ w[1] = p /\ w[2] = q /\ w[3] = r /\ w[4] = s
  BY ONLY <1>0
<1> HIDE DEF u, w
<1>4. \A k \in 1..Len(u) : u[k] = w[k]
  BY <1>2, <1>3
<1>5. u = w
  BY <1>2, <1>3, <1>4, SeqEqual
<1> QED BY <1>5 DEF u, w

\* A reply.
Reply(mem, m, n) ==
    /\ mem \in Seq(Seq(AnyByte))
    /\ n = 0 => mem = <<SizeBytes(0), DataBytes(m, 1, HdrLen)>>
    /\ n > 0 => mem = <<SizeBytes(0), DataBytes(m, 1, HdrLen), DataBytes(m, HdrLen + 1, HdrLen + 1),
                        DataBytes(m, HdrLen + 2, HdrLen + n)>>

\* What a reply is composed of: the prefix, the header and the parts of the body.
LEMMA ReplyFacts ==
  ASSUME NEW b, NEW init, Shape(b, "vector", "prefix", init, 1), ~b.mark.set, b.mem = <<>>,
         NEW m \in Nat, NEW n \in Nat, Header = HdrLen,
         NEW h, h = Added(b, DataBytes(m, 1, Header)), NEW c, c = IF n = 0 THEN h ELSE Parts(h, m, n)
  PROVE  Shape(c, "vector", "prefix", init, 1) /\ ~c.mark.set /\ Reply(c.mem, m, n)
<1> DEFINE d0 == SizeBytes(0)
           d1 == DataBytes(m, 1, Header)
           d2 == DataBytes(m, Header + 1, Header + 1)
           d3 == DataBytes(m, Header + 2, Header + n)
           i == Added(h, d2)
<1>0. Header \in Nat
  BY LenAssumption
<1>1. d0 \in Seq(AnyByte) /\ d1 \in Seq(AnyByte) /\ d2 \in Seq(AnyByte) /\ (n > 0 => d3 \in Seq(AnyByte))
  <2>1. d0 \in Seq(AnyByte)
    BY SizeFacts
  <2>2. 1 \in Nat /\ 1 >= 1 /\ Header >= 1 - 1 /\ Header + 1 >= 1 /\ Header + 1 >= (Header + 1) - 1 /\ Header + 1 \in Nat
    BY <1>0
  <2>3. d1 \in Seq(AnyByte)
    BY ONLY m \in Nat, <1>0, <2>2, DataFacts
  <2>4. d2 \in Seq(AnyByte)
    BY ONLY m \in Nat, <1>0, <2>2, DataFacts
  <2>5. ASSUME n > 0 PROVE d3 \in Seq(AnyByte)
    <3>1. Header + 2 \in Nat /\ Header + n \in Nat /\ Header + 2 >= 1 /\ Header + n >= (Header + 2) - 1
      BY <1>0, <2>5
    <3> QED BY ONLY m \in Nat, <3>1, DataFacts
  <2> QED BY <2>1, <2>3, <2>4, <2>5
<1>2. b.mem \in Seq(Seq(AnyByte)) /\ h = Added(b, d1)
  OBVIOUS
<1>3. n > 0 => c = Added(i, d3)
  <2> SUFFICES ASSUME n > 0 PROVE c = Added(i, d3)
    OBVIOUS
  <2>1. ~(n = 0)
    OBVIOUS
  <2>2. c = Parts(h, m, n)
    BY ONLY <2>1, c = IF n = 0 THEN h ELSE Parts(h, m, n)
  <2> QED BY ONLY <2>2 DEF Parts, Added
<1>4. n = 0 => c = h
  OBVIOUS
<1> HIDE DEF d0, d1, d2, d3
<1>5. Shape(h, "vector", "prefix", init, 1) /\ ~h.mark.set /\ h.mem \in Seq(Seq(AnyByte)) /\ h.mem = <<d0, d1>>
  BY ONLY Shape(b, "vector", "prefix", init, 1), ~b.mark.set, b.mem = <<>>, <1>1, <1>2, VectorAddFacts DEF d0
<1>6. h.mem /= <<>>
  BY ONLY <1>1, <1>5
<1>7. Shape(i, "vector", "prefix", init, 1) /\ ~i.mark.set /\ i.mem \in Seq(Seq(AnyByte)) /\ i.mem = Append(h.mem, d2)
  <2>1. Shape(h, "vector", "prefix", init, 1) /\ ~h.mark.set /\ h.mem \in Seq(Seq(AnyByte)) /\ d2 \in Seq(AnyByte)
    BY <1>1, <1>5
  <2>2. i = Added(h, d2)
    OBVIOUS
  <2> HIDE DEF i
  <2> QED BY ONLY <1>6, <2>1, <2>2, VectorAddFacts
<1> HIDE DEF i
<1>8. i.mem = <<d0, d1, d2>>
  BY ONLY <1>1, <1>5, <1>7, AppendThird
<1>9. i.mem /= <<>>
  BY ONLY <1>1, <1>8
<1>10. CASE n = 0
  BY <1>4, <1>5, <1>10 DEF d0, d1, Reply
<1>11. CASE n > 0
  <2>1. Shape(c, "vector", "prefix", init, 1) /\ ~c.mark.set /\ c.mem \in Seq(Seq(AnyByte)) /\ c.mem = Append(i.mem, d3)
    BY ONLY <1>1, <1>3, <1>7, <1>9, <1>11, VectorAddFacts
  <2>2. c.mem = <<d0, d1, d2, d3>>
    <3>1. d0 \in Seq(AnyByte) /\ d1 \in Seq(AnyByte) /\ d2 \in Seq(AnyByte) /\ d3 \in Seq(AnyByte)
      BY <1>1, <1>11
    <3>2. Append(<<d0, d1, d2>>, d3) = <<d0, d1, d2, d3>>
      BY ONLY <3>1, AppendFourth
    <3> QED BY ONLY <1>8, <2>1, <3>2
  <2>3. ~(n = 0)
    BY <1>11
  <2> QED BY <2>1, <2>2, <2>3 DEF d0, d1, d2, d3, Reply
<1> QED BY <1>10, <1>11

\* Where the parts of a vector begin; it has four at the most.
LEMMA OffsetFacts ==
  ASSUME NEW iov \in Seq(Seq(AnyByte)), Len(iov) <= 4
  PROVE  /\ Offset(iov, 1) = 0
         /\ \A i \in 1..Len(iov) : Offset(iov, i + 1) = Offset(iov, i) + Len(iov[i])
<1> DEFINE n == Len(iov)
           L(i) == Len(iov[i])
           w == [k \in 0..n |-> IF k = 0 THEN 0 ELSE IF k = 1 THEN L(1) ELSE IF k = 2 THEN L(1) + L(2)
                                ELSE IF k = 3 THEN L(1) + L(2) + L(3) ELSE L(1) + L(2) + L(3) + L(4)]
           F(g) == [k \in 0..n |-> IF k = 0 THEN 0 ELSE g[k - 1] + L(k)]
           f == CHOOSE g : g = F(g)
<1>1. n \in Nat /\ \A k \in 1..n : L(k) \in Nat
  OBVIOUS
<1>2. w = F(w)
  <2> HIDE DEF L, n
  <2>1. \A k \in 0..n : w[k] = IF k = 0 THEN 0 ELSE w[k - 1] + L(k)
    <3> TAKE k \in 0..n
    <3>1. k \in {0, 1, 2, 3, 4}
      <4>1. n <= 4
        BY DEF n
      <4> QED BY <1>1, <4>1
    <3>2. CASE k = 0
      BY <3>2
    <3>3. CASE k = 1
      <4>1. 0 \in 0..n /\ 1 \in 0..n /\ L(1) \in Nat
        BY <1>1, <3>3
      <4> QED BY <3>3, <4>1
    <3>4. CASE k = 2
      <4>1. 1 \in 0..n /\ 2 \in 0..n
        BY <1>1, <3>4
      <4> QED BY <3>4, <4>1
    <3>5. CASE k = 3
      <4>1. 2 \in 0..n /\ 3 \in 0..n
        BY <1>1, <3>5
      <4> QED BY <3>5, <4>1
    <3>6. CASE k = 4
      <4>1. 3 \in 0..n /\ 4 \in 0..n
        BY <1>1, <3>6
      <4> QED BY <3>6, <4>1
    <3> QED BY <3>1, <3>2, <3>3, <3>4, <3>5, <3>6
  <2>2. w = [k \in 0..n |-> w[k]]
    OBVIOUS
  <2> HIDE DEF w
  <2> QED BY <2>1, <2>2
<1>3. f = F(f)
  <2> HIDE DEF w, n, L
  <2> QED BY <1>2
<1>4. \A i \in Nat : Offset(iov, i) = f[i - 1]
  BY DEF Offset
<1> HIDE DEF f, n, L
<1>5. \A k \in 0..n : f[k] = IF k = 0 THEN 0 ELSE f[k - 1] + L(k)
  BY <1>3
<1>6. Offset(iov, 1) = 0
  <2>1. Offset(iov, 1) = f[1 - 1] /\ 1 - 1 = 0 /\ 0 \in 0..n
    BY <1>1, <1>4
  <2> QED BY <1>5, <2>1
<1>7. \A i \in 1..n : Offset(iov, i + 1) = Offset(iov, i) + L(i)
  <2> TAKE i \in 1..n
  <2>1. i \in Nat /\ i + 1 \in Nat /\ i + 1 - 1 = i /\ i \in 0..n /\ i /= 0
    BY <1>1
  <2>2. Offset(iov, i + 1) = f[i + 1 - 1] /\ Offset(iov, i) = f[i - 1]
    BY <1>4, <2>1
  <2>3. f[i] = f[i - 1] + L(i)
    BY <1>5, <2>1
  <2> QED BY <2>1, <2>2, <2>3
<1> QED BY <1>6, <1>7 DEF n, L

\* The part that has byte q, told by where it begins.
Inside(iov, i, q) == Offset(iov, i) < q /\ q <= Offset(iov, i + 1)
OnlyIn(iov, i, q) == Inside(iov, i, q) /\ \A j \in 1..Len(iov) : j /= i => ~Inside(iov, j, q)

Gathered(w, iov, at, total) ==
    /\ at <= total => Len(w) = total - at
    /\ w = [k \in 1..(total - at) |-> w[k]]
    /\ \A k \in 1..(total - at), i \in 1..Len(iov) :
          OnlyIn(iov, i, at + k) => w[k] = iov[i][at + k - Offset(iov, i)]

\* Every byte of a vector behind at, if it is in one of the parts, is gathered at its place.
LEMMA BytesAt ==
  ASSUME NEW iov \in Seq(Seq(AnyByte)), Len(iov) <= 4, NEW at \in Nat,
         NEW total, total = Offset(iov, Len(iov) + 1), NEW w, w = BytesFrom(iov, at),
         total \in Nat, \A i \in 1..(Len(iov) + 1) : Offset(iov, i) \in Nat
  PROVE  Gathered(w, iov, at, total)
<1>1. w = [k \in 1..(total - at) |-> iov[Reached(iov, at + k - 1)][at + k - Offset(iov, Reached(iov, at + k - 1))]]
  BY DEF BytesFrom
<1>2. ASSUME at <= total PROVE Len(w) = total - at
  <2>1. total - at \in Nat
    BY <1>2
  <2> QED BY <1>1, <2>1, LenProperties
<1>3. ASSUME NEW k \in 1..(total - at), NEW i \in 1..Len(iov),
             Offset(iov, i) < at + k, at + k <= Offset(iov, i + 1),
             \A j \in 1..Len(iov) : j /= i => ~(Offset(iov, j) < at + k /\ at + k <= Offset(iov, j + 1))
      PROVE  w[k] = iov[i][at + k - Offset(iov, i)]
  <2> DEFINE p == at + k - 1
  <2>0. Len(iov) \in Nat /\ p \in Nat /\ at + k = p + 1
    <3>1. Len(iov) \in Nat
      BY ONLY iov \in Seq(Seq(AnyByte)), LenProperties
    <3>2. k \in Nat /\ k >= 1
      BY ONLY k \in 1..(total - at), at \in Nat, total \in Nat
    <3> QED BY ONLY <3>1, <3>2, at \in Nat
  <2> HIDE DEF p
  <2>1. \A j \in 1..Len(iov) : /\ Offset(iov, j) <= p <=> Offset(iov, j) < at + k
                               /\ p < Offset(iov, j + 1) <=> at + k <= Offset(iov, j + 1)
    <3> TAKE j \in 1..Len(iov)
    <3>1. j \in 1..(Len(iov) + 1) /\ j + 1 \in 1..(Len(iov) + 1)
      BY <2>0
    <3>2. Offset(iov, j) \in Nat /\ Offset(iov, j + 1) \in Nat
      BY <3>1
    <3>3. \A u \in Nat : (u <= p <=> u < p + 1) /\ (p < u <=> p + 1 <= u)
      BY ONLY <2>0
    <3> QED BY ONLY <2>0, <3>2, <3>3
  <2>2. Offset(iov, i) <= p /\ p < Offset(iov, i + 1)
    BY <1>3, <2>1
  <2>3. Reached(iov, p) = i
    <3>1. \A j \in 1..Len(iov) : Offset(iov, j) <= p /\ p < Offset(iov, j + 1) => j = i
      BY <1>3, <2>1
    <3> QED BY <2>2, <3>1 DEF Reached
  <2> QED BY <1>1, <2>3 DEF p
<1>4. w = [k \in 1..(total - at) |-> w[k]]
  BY <1>1
<1> QED BY <1>2, <1>3, <1>4 DEF Gathered, OnlyIn, Inside

(***************************************************************************)
(* Messages.                                                               *)
(***************************************************************************)

\* What precedes the data of a message on each link.
LEMMA HeaderFacts ==
  ASSUME Types
  PROVE  /\ Header \in Nat /\ Prefix \in Nat
         /\ Prefixed => Header >= 1 /\ Prefix = PrefixLen /\ Prefix >= 1
         /\ ~Prefixed => Header = 0 /\ Prefix = 0
         /\ link = "lane" => Header = CmdLen
         /\ link \in {"request", "reply"} => Header = HdrLen
<1> USE LenAssumption, PrefixLenAssumption
<1>1. link \in {"lane", "request", "reply", "external"}
  BY DEF Types, Links
<1>2. CASE link = "lane"
  BY <1>2 DEF Header, Prefixed, Prefix
<1>3. CASE link = "external"
  BY <1>3 DEF Header, Prefixed, Prefix
<1>4. CASE link \in {"request", "reply"}
  BY <1>4 DEF Header, Prefixed, Prefix
<1> QED BY <1>1, <1>2, <1>3, <1>4

\* The lengths of a message.
LEMMA MsgFacts ==
  ASSUME Types, NEW i \in 1..Len(sent)
  PROVE  /\ sent[i].len \in Nat /\ sent[i].fd \in BOOLEAN /\ sent[i].len >= Header
         /\ Body(i) = Prefix + sent[i].len /\ Body(i) \in Nat /\ Size(i) \in Nat
         /\ (sent[i].fd => Prefixed /\ Size(i) = Body(i) + 1)
         /\ (~sent[i].fd => Size(i) = Body(i)) /\ Body(i) <= Size(i)
         /\ Prefixed => Body(i) > PrefixLen
<1>1. sent[i] \in [len : Nat, fd : BOOLEAN]
  <2>1. sent \in Seq([len : Nat, fd : BOOLEAN])
    BY DEF Types
  <2> QED BY ONLY i \in 1..Len(sent), <2>1, ElementOfSeq, Zenon
<1>2. sent[i].len \in Nat /\ sent[i].fd \in BOOLEAN
  BY <1>1
<1>3. sent[i].len >= Header /\ (sent[i].fd => Prefixed)
  <2>1. \A k \in 1..Len(sent) : sent[k].len >= Header /\ (sent[k].fd => Prefixed)
    BY DEF Types
  <2> QED BY ONLY i \in 1..Len(sent), <2>1, Zenon
<1>4. Body(i) = Prefix + sent[i].len /\ Body(i) \in Nat
  BY <1>2, HeaderFacts DEF Body
<1>5. Size(i) = Body(i) + (IF sent[i].fd THEN 1 ELSE 0)
  BY DEF Size
<1>6. /\ (sent[i].fd => Size(i) = Body(i) + 1) /\ (~sent[i].fd => Size(i) = Body(i))
      /\ Size(i) \in Nat /\ Body(i) <= Size(i)
  <2> HIDE DEF Body
  <2>1. CASE sent[i].fd
    BY <1>4, <1>5, <2>1
  <2>2. CASE ~sent[i].fd
    BY <1>4, <1>5, <2>2
  <2> QED BY <2>1, <2>2
<1>7. Prefixed => Body(i) > PrefixLen
  <2>1. Prefixed => Header >= 1 /\ Prefix = PrefixLen /\ Header \in Nat /\ Prefix \in Nat
    BY HeaderFacts
  <2> QED BY <1>2, <1>3, <1>4, <2>1, PrefixLenAssumption
<1> QED BY <1>2, <1>3, <1>4, <1>6, <1>7

\* The bytes of a message: prefix, data, and the byte that carries the descriptor.
LEMMA MsgByteFacts ==
  ASSUME Types, NEW i \in 1..Len(sent), NEW j \in 1..Size(i)
  PROVE  /\ MsgByte(i, j) \in AnyByte
         /\ j <= Prefix => MsgByte(i, j) = Byte("size", j, Body(i))
         /\ j > Prefix /\ j <= Body(i) => MsgByte(i, j) = Byte("data", j - Prefix, i)
         /\ j > Body(i) => MsgByte(i, j) = Byte("fd", 1, i)
<1>1. /\ Body(i) \in Nat /\ Size(i) \in Nat /\ Body(i) >= Prefix /\ Prefix \in Nat /\ i \in Nat /\ j \in Nat
  <2>1. sent[i].len \in Nat /\ Body(i) = Prefix + sent[i].len /\ Body(i) \in Nat /\ Size(i) \in Nat
    BY MsgFacts
  <2>2. Prefix \in Nat
    BY HeaderFacts
  <2> QED BY <2>1, <2>2
<1>2. CASE j <= Prefix
  <2>1. MsgByte(i, j) = Byte("size", j, Body(i)) /\ ~(j > Prefix) /\ ~(j > Body(i))
    BY <1>1, <1>2 DEF MsgByte
  <2>2. Byte("size", j, Body(i)) \in AnyByte
    BY <1>1 DEF Byte, AnyByte
  <2> QED BY ONLY <1>2, <2>1, <2>2
<1>3. CASE j > Prefix /\ j <= Body(i)
  <2>1. MsgByte(i, j) = Byte("data", j - Prefix, i) /\ ~(j <= Prefix) /\ ~(j > Body(i))
    BY <1>1, <1>3 DEF MsgByte
  <2>2. j - Prefix \in Nat
    BY <1>1, <1>3
  <2>3. Byte("data", j - Prefix, i) \in AnyByte
    BY <1>1, <2>2 DEF Byte, AnyByte
  <2> QED BY ONLY <1>3, <2>1, <2>3
<1>4. CASE j > Body(i)
  <2>1. MsgByte(i, j) = Byte("fd", 1, i) /\ ~(j <= Prefix) /\ ~(j <= Body(i))
    BY <1>1, <1>4 DEF MsgByte
  <2>2. Byte("fd", 1, i) \in AnyByte
    BY <1>1 DEF Byte, AnyByte
  <2> QED BY ONLY <1>4, <2>1, <2>2
<1>5. j <= Prefix \/ (j > Prefix /\ j <= Body(i)) \/ j > Body(i)
  BY <1>1
<1> QED BY <1>2, <1>3, <1>4, <1>5

\* What is sent from a linear buffer: the message, from where the last write ended.
LEMMA LinearRest ==
  ASSUME NEW y, y.type = "linear", y.mem \in Seq(AnyByte), NEW p \in Nat, p <= Len(y.mem)
  PROVE  /\ Writable(y, p) \in Seq(AnyByte) /\ Len(Writable(y, p)) = Len(y.mem) - p
         /\ \A k \in 1..(Len(y.mem) - p) : Writable(y, p)[k] = y.mem[p + k]
<1> DEFINE L == Len(y.mem)
           a == p + 1
<1>1. L \in Nat /\ a \in Nat /\ a >= 1 /\ L >= a - 1 /\ L <= Len(y.mem) /\ L - a + 1 = L - p
      /\ \A k \in 1..(L - p) : a + k - 1 = p + k
  OBVIOUS
<1>2. Writable(y, p) = SubSeq(y.mem, a, L)
  BY DEF Writable, LinearWritable, Used
<1> HIDE DEF L, a
<1>3. /\ SubSeq(y.mem, a, L) \in Seq(AnyByte) /\ Len(SubSeq(y.mem, a, L)) = L - a + 1
      /\ \A k \in 1..(L - a + 1) : SubSeq(y.mem, a, L)[k] = y.mem[a + k - 1]
  BY ONLY y.mem \in Seq(AnyByte), <1>1, SubAt
<1>4. /\ Writable(y, p) \in Seq(AnyByte) /\ Len(Writable(y, p)) = L - p
      /\ \A k \in 1..(L - p) : Writable(y, p)[k] = y.mem[p + k]
  BY ONLY <1>1, <1>2, <1>3
<1> QED BY <1>4 DEF L

\* x is b with the size in its first bytes.
Prefilled(x, b, mode, init) ==
    /\ Shape(x, "linear", mode, init, 1) /\ x.mark = b.mark
    /\ x.mem \in Seq(AnyByte) /\ Len(x.mem) = Len(b.mem)
    /\ \A k \in 1..PrefixLen : x.mem[k] = Byte("size", k, Len(b.mem))
    /\ \A k \in (PrefixLen + 1)..Len(b.mem) : x.mem[k] = b.mem[k]

\* The size goes over the first bytes; the others are as they were.
LEMMA LinearPrefixFacts ==
  ASSUME NEW b, NEW mode, NEW init, Shape(b, "linear", mode, init, 1), b.mem \in Seq(AnyByte),
         Len(b.mem) >= PrefixLen, NEW x, x = LinearPrefix(b)
  PROVE  Prefilled(x, b, mode, init)
<1> DEFINE L == Len(b.mem)
           s == SizeBytes(L)
           t == SubSeq(b.mem, PrefixLen + 1, L)
<1>0. L \in Nat /\ PrefixLen \in Nat /\ L >= PrefixLen
  BY PrefixLenAssumption
<1>1. s \in Seq(AnyByte) /\ Len(s) = PrefixLen /\ \A k \in 1..PrefixLen : s[k] = Byte("size", k, L)
  <2> HIDE DEF L
  <2> QED BY ONLY <1>0, SizeFacts
<1>2. /\ t \in Seq(AnyByte) /\ Len(t) = L - PrefixLen
      /\ \A k \in 1..(L - PrefixLen) : t[k] = b.mem[PrefixLen + k]
  <2> DEFINE a == PrefixLen + 1
  <2>1. a \in Nat /\ a >= 1 /\ L >= a - 1 /\ L <= Len(b.mem) /\ L - a + 1 = L - PrefixLen
        /\ \A k \in 1..(L - PrefixLen) : a + k - 1 = PrefixLen + k
    BY <1>0
  <2> HIDE DEF L
  <2>2. t = SubSeq(b.mem, a, L)
    OBVIOUS
  <2> HIDE DEF a, t
  <2>3. /\ SubSeq(b.mem, a, L) \in Seq(AnyByte) /\ Len(SubSeq(b.mem, a, L)) = L - a + 1
        /\ \A k \in 1..(L - a + 1) : SubSeq(b.mem, a, L)[k] = b.mem[a + k - 1]
    BY ONLY b.mem \in Seq(AnyByte), <1>0, <2>1, SubAt
  <2> QED BY ONLY <2>1, <2>2, <2>3
<1>3. x = [b EXCEPT !.mem = s \o t]
  BY DEF LinearPrefix, Used
<1> HIDE DEF s, t, L
<1>4. /\ s \o t \in Seq(AnyByte) /\ Len(s \o t) = Len(s) + Len(t)
      /\ \A k \in 1..Len(s) : (s \o t)[k] = s[k]
      /\ \A k \in 1..Len(t) : (s \o t)[Len(s) + k] = t[k]
  <2>1. s \in Seq(AnyByte) /\ t \in Seq(AnyByte)
    BY <1>1, <1>2
  <2> QED BY ONLY <2>1, ConcatAt
<1>5. /\ DOMAIN x = BufFields /\ x.type = b.type /\ x.mode = b.mode /\ x.init = b.init /\ x.step = b.step
      /\ x.limit = b.limit /\ x.alloc = b.alloc /\ x.mem = s \o t /\ x.mark = b.mark
  BY <1>3 DEF BufFields, Shape
<1>6. Shape(x, "linear", mode, init, 1)
  BY <1>5 DEF Shape
<1>7. Len(x.mem) = L
  BY <1>0, <1>1, <1>2, <1>4, <1>5
<1>8. \A k \in 1..PrefixLen : x.mem[k] = Byte("size", k, L)
  BY <1>0, <1>1, <1>4, <1>5
<1>9. \A k \in (PrefixLen + 1)..L : x.mem[k] = b.mem[k]
  <2> TAKE k \in (PrefixLen + 1)..L
  <2>1. k - PrefixLen \in 1..(L - PrefixLen) /\ PrefixLen + (k - PrefixLen) = k
    BY <1>0
  <2>2. t[k - PrefixLen] = b.mem[PrefixLen + (k - PrefixLen)]
    BY <1>2, <2>1
  <2>3. (s \o t)[Len(s) + (k - PrefixLen)] = t[k - PrefixLen]
    BY <1>2, <1>4, <2>1
  <2> QED BY <1>1, <1>5, <2>1, <2>2, <2>3
<1> QED BY <1>1, <1>4, <1>5, <1>6, <1>7, <1>8, <1>9 DEF L, Prefilled

\* What is written of a linear buffer from position p is the message from there on.
LEMMA LinearWrite ==
  ASSUME Types, Newest \in 1..Len(sent), NEW b, NEW mode, mode = IF Prefixed THEN "prefix" ELSE "plain",
         NEW init, Shape(b, "linear", mode, init, 1), LinearMsg(b),
         NEW p \in Nat, p <= Body(Newest), NEW x, x = SetPrefix(b, p), NEW w, w = Writable(x, p)
  PROVE  /\ Shape(x, "linear", mode, init, 1) /\ x.mark = b.mark /\ LinearMsg(x)
         /\ Len(Writable(b, p)) = Body(Newest) - p
         /\ w \in Seq(AnyByte) /\ Len(w) = Body(Newest) - p
         /\ \A k \in 1..(Body(Newest) - p) : w[k] = MsgByte(Newest, p + k)
<1> DEFINE N == Newest
           L == Body(Newest)
<1>1. L \in Nat /\ Size(N) \in Nat /\ L <= Size(N) /\ (Prefixed => L > PrefixLen)
  BY MsgFacts
<1>2. b.mem \in Seq(AnyByte) /\ Len(b.mem) = L /\ \A k \in (Prefix + 1)..L : b.mem[k] = MsgByte(N, k)
  BY DEF LinearMsg
<1>3. b.type = "linear" /\ b.mode = mode
  BY DEF Shape
<1>4. /\ Prefix \in Nat /\ (Prefixed => Prefix = PrefixLen /\ Prefix >= 1) /\ (~Prefixed => Prefix = 0)
  BY HeaderFacts
<1>5. \A k \in 1..L : k <= Prefix => MsgByte(N, k) = Byte("size", k, L)
  <2> TAKE k \in 1..L
  <2>1. k \in 1..Size(N)
    BY <1>1
  <2> QED BY <2>1, MsgByteFacts
<1> HIDE DEF N, L
<1>6. /\ Shape(x, "linear", mode, init, 1) /\ x.mark = b.mark /\ x.mem \in Seq(AnyByte) /\ Len(x.mem) = L
      /\ \A k \in 1..L : x.mem[k] = MsgByte(N, k)
  <2>1. CASE ~Prefixed
    <3>1. mode = "plain" /\ Prefix = 0
      BY <1>4, <2>1
    <3>2. x = b
      BY <1>3, <3>1 DEF SetPrefix
    <3> QED BY <1>2, <3>1, <3>2
  <2>2. CASE Prefixed
    <3>1. mode = "prefix" /\ Prefix = PrefixLen /\ L > PrefixLen /\ PrefixLen \in Nat
      BY <1>1, <1>4, <2>2, PrefixLenAssumption
    <3>2. Used(b) /= 0
      BY <1>1, <1>2, <3>1 DEF Used
    <3>3. x = LinearPrefix(b)
      BY <1>3, <3>1, <3>2 DEF SetPrefix
    <3>4. Len(b.mem) >= PrefixLen
      BY <1>1, <1>2, <3>1
    <3>5. /\ Shape(x, "linear", mode, init, 1) /\ x.mark = b.mark
          /\ x.mem \in Seq(AnyByte) /\ Len(x.mem) = Len(b.mem)
          /\ \A k \in 1..PrefixLen : x.mem[k] = Byte("size", k, Len(b.mem))
          /\ \A k \in (PrefixLen + 1)..Len(b.mem) : x.mem[k] = b.mem[k]
      <4>1. b.mem \in Seq(AnyByte)
        BY <1>2
      <4>2. Prefilled(x, b, mode, init)
        BY ONLY Shape(b, "linear", mode, init, 1), <3>3, <3>4, <4>1, LinearPrefixFacts
      <4> QED BY ONLY <4>2 DEF Prefilled
    <3>6. ASSUME NEW k \in 1..L PROVE x.mem[k] = MsgByte(N, k)
      <4>1. k <= PrefixLen \/ k \in (PrefixLen + 1)..L
        BY <1>1, <3>1
      <4>2. CASE k <= PrefixLen
        <5>1. k \in 1..PrefixLen
          BY <1>1, <4>2
        <5> QED BY <1>2, <1>5, <3>1, <3>5, <5>1, <4>2
      <4>3. CASE k \in (PrefixLen + 1)..L
        BY <1>2, <3>1, <3>5, <4>3
      <4> QED BY <4>1, <4>2, <4>3
    <3> QED BY <1>2, <3>5, <3>6
  <2> QED BY <2>1, <2>2
<1>7. x.type = "linear"
  BY <1>6 DEF Shape
<1>8. Len(Writable(b, p)) = L - p
  <2>1. p <= Len(b.mem) /\ b.mem \in Seq(AnyByte)
    BY <1>2 DEF L
  <2>2. Len(Writable(b, p)) = Len(b.mem) - p
    BY ONLY p \in Nat, <1>3, <2>1, LinearRest
  <2> QED BY <1>2, <2>2
<1>9. w \in Seq(AnyByte) /\ Len(w) = L - p /\ \A k \in 1..(L - p) : w[k] = MsgByte(N, p + k)
  <2>1. p <= Len(x.mem) /\ x.mem \in Seq(AnyByte) /\ p <= L
    BY <1>6 DEF L
  <2>2. /\ w \in Seq(AnyByte) /\ Len(w) = Len(x.mem) - p
        /\ \A k \in 1..(Len(x.mem) - p) : w[k] = x.mem[p + k]
    BY ONLY p \in Nat, w = Writable(x, p), <1>7, <2>1, LinearRest
  <2>3. \A k \in 1..(L - p) : p + k \in 1..L
    BY <1>1, <2>1
  <2> QED BY <1>6, <2>2, <2>3
<1>10. LinearMsg(x)
  <2>1. \A k \in (Prefix + 1)..L : k \in 1..L
    BY <1>1, <1>4
  <2> QED BY <1>6, <2>1 DEF LinearMsg, N, L
<1> QED BY <1>6, <1>8, <1>9, <1>10 DEF N, L

\* The parts of a reply with n bytes after its header.
Vector(iov, m, n) ==
    /\ iov \in Seq(Seq(AnyByte)) /\ Len(iov) = IF n = 0 THEN 2 ELSE 4
    /\ Len(iov[1]) = PrefixLen
    /\ Piece(iov[2], m, 0, HdrLen)
    /\ n > 0 => Piece(iov[3], m, HdrLen, 1) /\ Piece(iov[4], m, HdrLen + 1, n - 1)

\* Where the parts of a reply begin.
LEMMA VectorOffsets ==
  ASSUME NEW iov, NEW m \in Nat, NEW n \in Nat, Vector(iov, m, n)
  PROVE  /\ iov \in Seq(Seq(AnyByte)) /\ Len(iov) \in {2, 4} /\ (n = 0 => Len(iov) = 2) /\ (n > 0 => Len(iov) = 4)
         /\ Len(iov) <= 4
         /\ Offset(iov, 1) = 0 /\ Offset(iov, 2) = PrefixLen /\ Offset(iov, 3) = PrefixLen + HdrLen
         /\ n > 0 => Offset(iov, 4) = PrefixLen + HdrLen + 1 /\ Offset(iov, 5) = PrefixLen + HdrLen + n
         /\ Offset(iov, Len(iov) + 1) = PrefixLen + HdrLen + n
         /\ \A i \in 1..(Len(iov) + 1) : Offset(iov, i) \in Nat
<1> USE LenAssumption, PrefixLenAssumption
<1>1. /\ iov \in Seq(Seq(AnyByte)) /\ Len(iov) = (IF n = 0 THEN 2 ELSE 4) /\ Len(iov[1]) = PrefixLen
      /\ Len(iov[2]) = HdrLen /\ (n > 0 => Len(iov[3]) = 1 /\ Len(iov[4]) = n - 1)
  BY DEF Vector, Piece
<1>2. Len(iov) \in {2, 4} /\ Len(iov) <= 4 /\ (n > 0 => Len(iov) = 4) /\ (n = 0 => Len(iov) = 2)
  BY <1>1
<1>3. /\ Offset(iov, 1) = 0
      /\ \A i \in 1..Len(iov) : Offset(iov, i + 1) = Offset(iov, i) + Len(iov[i])
  BY ONLY <1>1, <1>2, OffsetFacts
<1>4. Offset(iov, 1 + 1) = Offset(iov, 1) + Len(iov[1]) /\ Offset(iov, 2 + 1) = Offset(iov, 2) + Len(iov[2])
  BY ONLY <1>2, <1>3
<1>5. Offset(iov, 2) = PrefixLen /\ Offset(iov, 3) = PrefixLen + HdrLen
  <2>1. 1 + 1 = 2 /\ 2 + 1 = 3
    OBVIOUS
  <2> QED BY ONLY LenAssumption, PrefixLenAssumption, <1>1, <1>3, <1>4, <2>1
<1>6. n > 0 => Offset(iov, 4) = PrefixLen + HdrLen + 1 /\ Offset(iov, 5) = PrefixLen + HdrLen + n
  <2> SUFFICES ASSUME n > 0 PROVE Offset(iov, 4) = PrefixLen + HdrLen + 1 /\ Offset(iov, 5) = PrefixLen + HdrLen + n
    OBVIOUS
  <2>1. 3 \in 1..Len(iov) /\ 4 \in 1..Len(iov) /\ 3 + 1 = 4 /\ 4 + 1 = 5
    BY <1>2
  <2>2. Offset(iov, 3 + 1) = Offset(iov, 3) + Len(iov[3]) /\ Offset(iov, 4 + 1) = Offset(iov, 4) + Len(iov[4])
    BY ONLY <1>3, <2>1
  <2>3. Len(iov[3]) = 1 /\ Len(iov[4]) = n - 1
    BY <1>1
  <2>4. Offset(iov, 4) = PrefixLen + HdrLen + 1
    BY ONLY <1>5, <2>1, <2>2, <2>3
  <2>5. Offset(iov, 5) = PrefixLen + HdrLen + 1 + (n - 1)
    BY ONLY <2>1, <2>2, <2>3, <2>4
  <2> QED BY <2>4, <2>5
<1>7. CASE n = 0
  <2>1. Len(iov) + 1 = 3 /\ PrefixLen + HdrLen + n = PrefixLen + HdrLen
    <3>1. Len(iov) = 2
      BY ONLY <1>2, <1>7, Zenon
    <3> QED BY ONLY LenAssumption, PrefixLenAssumption, <1>7, <3>1
  <2>2. \A i \in 1..(Len(iov) + 1) : i = 1 \/ i = 2 \/ i = 3
    BY <2>1
  <2>3. Offset(iov, Len(iov) + 1) = PrefixLen + HdrLen + n
    BY ONLY <1>5, <2>1
  <2>4. \A i \in 1..(Len(iov) + 1) : Offset(iov, i) \in Nat
    BY <1>3, <1>5, <2>2
  <2> QED BY <1>1, <1>2, <1>3, <1>5, <1>6, <2>3, <2>4
<1>8. CASE n > 0
  <2>1. Len(iov) + 1 = 5
    <3>1. Len(iov) = 4
      BY ONLY <1>2, <1>8, Zenon
    <3> QED BY ONLY <3>1
  <2>2. \A i \in 1..(Len(iov) + 1) : i = 1 \/ i = 2 \/ i = 3 \/ i = 4 \/ i = 5
    BY <2>1
  <2>3. Offset(iov, Len(iov) + 1) = PrefixLen + HdrLen + n
    BY ONLY <1>6, <1>8, <2>1
  <2>4. \A i \in 1..(Len(iov) + 1) : Offset(iov, i) \in Nat
    BY <1>3, <1>5, <1>6, <1>8, <2>2
  <2> QED BY <1>1, <1>2, <1>3, <1>5, <1>6, <2>3, <2>4
<1> QED BY <1>7, <1>8

Rest(w, iov, m, p, L) ==
    /\ Len(w) = L - p /\ w = [k \in 1..(L - p) |-> w[k]]
    /\ \A k \in 1..(L - p) :
          w[k] = IF p + k <= PrefixLen THEN iov[1][p + k] ELSE Byte("data", p + k - PrefixLen, m)

\* Each byte of a reply is in one of its parts.
LEMMA VectorBytes ==
  ASSUME NEW iov, NEW m \in Nat, NEW n \in Nat, Vector(iov, m, n),
         NEW L, L = PrefixLen + HdrLen + n, NEW p \in Nat, p <= L, NEW w, w = BytesFrom(iov, p)
  PROVE  Rest(w, iov, m, p, L)
<1> USE LenAssumption, PrefixLenAssumption
<1>1. /\ iov \in Seq(Seq(AnyByte)) /\ Len(iov) \in {2, 4} /\ (n = 0 => Len(iov) = 2) /\ (n > 0 => Len(iov) = 4)
      /\ Len(iov) <= 4
      /\ Offset(iov, 1) = 0 /\ Offset(iov, 2) = PrefixLen /\ Offset(iov, 3) = PrefixLen + HdrLen
      /\ n > 0 => Offset(iov, 4) = PrefixLen + HdrLen + 1 /\ Offset(iov, 5) = PrefixLen + HdrLen + n
      /\ Offset(iov, Len(iov) + 1) = PrefixLen + HdrLen + n
      /\ \A i \in 1..(Len(iov) + 1) : Offset(iov, i) \in Nat
  BY ONLY m \in Nat, n \in Nat, Vector(iov, m, n), VectorOffsets
<1>0. L \in Nat
  OBVIOUS
<1>2. /\ Piece(iov[2], m, 0, HdrLen)
      /\ n > 0 => Piece(iov[3], m, HdrLen, 1) /\ Piece(iov[4], m, HdrLen + 1, n - 1)
  BY DEF Vector
<1>3. /\ p <= L => Len(w) = L - p
      /\ w = [k \in 1..(L - p) |-> w[k]]
      /\ \A k \in 1..(L - p), i \in 1..Len(iov) :
            OnlyIn(iov, i, p + k) => w[k] = iov[i][p + k - Offset(iov, i)]
  <2>1. L = Offset(iov, Len(iov) + 1)
    BY ONLY L = PrefixLen + HdrLen + n, <1>1
  <2>2. iov \in Seq(Seq(AnyByte)) /\ Len(iov) <= 4 /\ \A i \in 1..(Len(iov) + 1) : Offset(iov, i) \in Nat
    BY ONLY <1>1
  <2>3. Gathered(w, iov, p, L)
    BY ONLY p \in Nat, w = BytesFrom(iov, p), <1>0, <2>1, <2>2, BytesAt
  <2> QED BY ONLY <2>3 DEF Gathered
<1>4. ASSUME NEW k \in 1..(L - p)
      PROVE  w[k] = IF p + k <= PrefixLen THEN iov[1][p + k] ELSE Byte("data", p + k - PrefixLen, m)
  <2> DEFINE q == p + k
             O(i) == Offset(iov, i)
             In(i) == Inside(iov, i, q)
  <2>0. q \in Nat /\ q >= 1 /\ q <= PrefixLen + HdrLen + n
    BY <1>0
  <2>1. \A i \in 1..Len(iov) : In(i) /\ (\A j \in 1..Len(iov) : j /= i => ~In(j)) => w[k] = iov[i][q - O(i)]
    <3>1. \A i \in 1..Len(iov) : OnlyIn(iov, i, p + k) => w[k] = iov[i][p + k - Offset(iov, i)]
      BY ONLY k \in 1..(L - p), <1>3, Zenon
    <3> SUFFICES ASSUME NEW i \in 1..Len(iov), In(i), \A j \in 1..Len(iov) : j /= i => ~In(j)
                 PROVE  w[k] = iov[i][q - O(i)]
      OBVIOUS
    <3>2. OnlyIn(iov, i, p + k)
      BY DEF OnlyIn
    <3>3. w[k] = iov[i][p + k - Offset(iov, i)]
      BY ONLY i \in 1..Len(iov), <3>1, <3>2, Zenon
    <3>4. O(i) \in Nat
      <4>1. i \in 1..(Len(iov) + 1)
        BY <1>1
      <4> QED BY ONLY <1>1, <4>1
    <3>5. p + k - Offset(iov, i) = q - O(i)
      BY <1>0, <3>4
    <3> QED BY ONLY <3>3, <3>5
  <2>2. 1 \in 1..Len(iov) /\ 2 \in 1..Len(iov) /\ (n > 0 => 3 \in 1..Len(iov) /\ 4 \in 1..Len(iov))
    <3>1. Len(iov) \in {2, 4} /\ (n > 0 => Len(iov) = 4)
      BY ONLY <1>1
    <3>2. 1 \in 1..2 /\ 2 \in 1..2 /\ 1 \in 1..4 /\ 2 \in 1..4 /\ 3 \in 1..4 /\ 4 \in 1..4
      OBVIOUS
    <3>3. CASE Len(iov) = 2
      BY ONLY <3>1, <3>2, <3>3
    <3>4. CASE Len(iov) = 4
      BY ONLY <3>2, <3>4
    <3> QED BY ONLY <3>1, <3>3, <3>4
  <2>3. /\ In(1) <=> q <= PrefixLen
        /\ In(2) <=> PrefixLen < q /\ q <= PrefixLen + HdrLen
        /\ n > 0 => /\ In(3) <=> PrefixLen + HdrLen < q /\ q <= PrefixLen + HdrLen + 1
                    /\ In(4) <=> PrefixLen + HdrLen + 1 < q
    <3>1. 1 + 1 = 2 /\ 2 + 1 = 3 /\ 3 + 1 = 4 /\ 4 + 1 = 5
      OBVIOUS
    <3>2. /\ O(1) = 0 /\ O(2) = PrefixLen /\ O(3) = PrefixLen + HdrLen
          /\ n > 0 => O(4) = PrefixLen + HdrLen + 1 /\ O(5) = PrefixLen + HdrLen + n
      BY <1>1
    <3> HIDE DEF q
    <3>3. In(1) <=> q <= PrefixLen
      BY ONLY PrefixLenAssumption, LenAssumption, n \in Nat, <2>0, <3>1, <3>2 DEF Inside
    <3>4. In(2) <=> PrefixLen < q /\ q <= PrefixLen + HdrLen
      BY ONLY PrefixLenAssumption, LenAssumption, n \in Nat, <2>0, <3>1, <3>2 DEF Inside
    <3>5. n > 0 => (In(3) <=> PrefixLen + HdrLen < q /\ q <= PrefixLen + HdrLen + 1)
      BY ONLY PrefixLenAssumption, LenAssumption, n \in Nat, <2>0, <3>1, <3>2 DEF Inside
    <3>6. n > 0 => (In(4) <=> PrefixLen + HdrLen + 1 < q)
      BY ONLY PrefixLenAssumption, LenAssumption, n \in Nat, <2>0, <3>1, <3>2 DEF Inside
    <3> QED BY <3>3, <3>4, <3>5, <3>6
  <2>4. \A j \in 1..Len(iov) : j = 1 \/ j = 2 \/ (n > 0 /\ j = 3) \/ (n > 0 /\ j = 4)
    <3>1. n = 0 \/ n > 0
      OBVIOUS
    <3>2. CASE n = 0
      <4>1. Len(iov) = 2
        BY ONLY <1>1, <3>2
      <4> QED BY ONLY <4>1
    <3>3. CASE n > 0
      <4>1. Len(iov) = 4
        BY ONLY <1>1, <3>3
      <4> QED BY ONLY <3>3, <4>1
    <3> QED BY <3>1, <3>2, <3>3
  <2>5. O(1) = 0 /\ O(2) = PrefixLen /\ O(3) = PrefixLen + HdrLen /\ (n > 0 => O(4) = PrefixLen + HdrLen + 1)
    BY <1>1
  <2> HIDE DEF In, O, q
  <2>6. CASE q <= PrefixLen
    <3>1. In(1) /\ \A j \in 1..Len(iov) : j /= 1 => ~In(j)
      BY <2>0, <2>3, <2>4, <2>6
    <3>2. w[k] = iov[1][q - O(1)] /\ q - O(1) = q
      BY <2>0, <2>1, <2>2, <2>5, <3>1
    <3> QED BY <2>6, <3>2 DEF q
  <2>7. CASE PrefixLen < q /\ q <= PrefixLen + HdrLen
    <3>1. In(2) /\ \A j \in 1..Len(iov) : j /= 2 => ~In(j)
      BY <2>0, <2>3, <2>4, <2>7
    <3>2. w[k] = iov[2][q - PrefixLen]
      BY <2>1, <2>2, <2>5, <3>1
    <3>3. q - PrefixLen \in 1..HdrLen /\ 0 + (q - PrefixLen) = q - PrefixLen /\ ~(q <= PrefixLen)
      BY <2>0, <2>7
    <3>4. iov[2][q - PrefixLen] = Byte("data", 0 + (q - PrefixLen), m)
      BY <1>2, <3>3 DEF Piece
    <3> QED BY <3>2, <3>3, <3>4 DEF q
  <2>8. CASE PrefixLen + HdrLen < q /\ q <= PrefixLen + HdrLen + 1
    <3>0. n > 0
      BY <2>0, <2>8
    <3>1. In(3) /\ \A j \in 1..Len(iov) : j /= 3 => ~In(j)
      BY <2>0, <2>3, <2>4, <2>8, <3>0
    <3>2. w[k] = iov[3][q - (PrefixLen + HdrLen)]
      BY <2>1, <2>2, <2>5, <3>0, <3>1
    <3>3. /\ q - (PrefixLen + HdrLen) \in 1..1 /\ HdrLen + (q - (PrefixLen + HdrLen)) = q - PrefixLen
          /\ ~(q <= PrefixLen)
      BY <2>0, <2>8
    <3>4. iov[3][q - (PrefixLen + HdrLen)] = Byte("data", HdrLen + (q - (PrefixLen + HdrLen)), m)
      BY <1>2, <3>0, <3>3 DEF Piece
    <3> QED BY <3>2, <3>3, <3>4 DEF q
  <2>9. CASE PrefixLen + HdrLen + 1 < q
    <3>0. n > 0
      BY <2>0, <2>9
    <3>1. In(4) /\ \A j \in 1..Len(iov) : j /= 4 => ~In(j)
      BY <2>0, <2>3, <2>4, <2>9, <3>0
    <3>2. w[k] = iov[4][q - (PrefixLen + HdrLen + 1)]
      BY <2>1, <2>2, <2>5, <3>0, <3>1
    <3>3. /\ q - (PrefixLen + HdrLen + 1) \in 1..(n - 1)
          /\ HdrLen + 1 + (q - (PrefixLen + HdrLen + 1)) = q - PrefixLen /\ ~(q <= PrefixLen)
      BY <2>0, <2>9
    <3>4. iov[4][q - (PrefixLen + HdrLen + 1)] = Byte("data", HdrLen + 1 + (q - (PrefixLen + HdrLen + 1)), m)
      BY <1>2, <3>0, <3>3 DEF Piece
    <3> QED BY <3>2, <3>3, <3>4 DEF q
  <2>10. \/ q <= PrefixLen \/ (PrefixLen < q /\ q <= PrefixLen + HdrLen)
         \/ (PrefixLen + HdrLen < q /\ q <= PrefixLen + HdrLen + 1) \/ PrefixLen + HdrLen + 1 < q
    BY <2>0
  <2> QED BY <2>6, <2>7, <2>8, <2>9, <2>10
<1> QED BY <1>3, <1>4 DEF Rest

\* The reply being sent has the parts of its message.
LEMMA VectorMsgParts ==
  ASSUME Types, Newest \in 1..Len(sent), link = "reply", NEW b, NEW p, VectorMsg(b, p),
         NEW n, n = sent[Newest].len - HdrLen
  PROVE  n \in Nat /\ Body(Newest) = PrefixLen + HdrLen + n /\ Vector(b.mem, Newest, n)
<1> USE LenAssumption, PrefixLenAssumption
<1> DEFINE m == Newest
           d1 == DataBytes(m, 1, HdrLen)
           d2 == DataBytes(m, HdrLen + 1, HdrLen + 1)
           d3 == DataBytes(m, HdrLen + 2, HdrLen + n)
           P == b.mem[1]
<1>1. m \in Nat /\ n \in Nat /\ Body(m) = PrefixLen + HdrLen + n
  <2>1. Prefixed
    BY DEF Prefixed
  <2>2. Header = HdrLen /\ Prefix = PrefixLen
    BY <2>1, HeaderFacts
  <2>3. sent[m].len \in Nat /\ sent[m].len >= Header /\ Body(m) = Prefix + sent[m].len
    BY MsgFacts
  <2>4. m \in Nat
    OBVIOUS
  <2> HIDE DEF m
  <2>5. n = sent[m].len - HdrLen
    BY DEF m
  <2> QED BY ONLY LenAssumption, PrefixLenAssumption, <2>2, <2>3, <2>4, <2>5
<1>2. b.mem \in Seq(Seq(AnyByte)) /\ Len(P) = PrefixLen
      /\ b.mem = IF n = 0 THEN <<P, d1>> ELSE <<P, d1, d2, d3>>
  BY DEF VectorMsg
<1>3. Piece(d1, m, 0, HdrLen)
  <2>1. 0 + 1 = 1 /\ 0 + HdrLen = HdrLen /\ 0 \in Nat /\ HdrLen \in Nat
    OBVIOUS
  <2> HIDE DEF m
  <2>2. Piece(DataBytes(m, 0 + 1, 0 + HdrLen), m, 0, HdrLen)
    BY ONLY <1>1, <2>1, PieceFacts
  <2> QED BY ONLY <2>1, <2>2
<1>4. Piece(d2, m, HdrLen, 1)
  <2>1. HdrLen \in Nat /\ 1 \in Nat
    OBVIOUS
  <2> HIDE DEF m
  <2> QED BY ONLY <1>1, <2>1, PieceFacts
<1>5. n > 0 => Piece(d3, m, HdrLen + 1, n - 1)
  <2> HIDE DEF m
  <2> SUFFICES ASSUME n > 0 PROVE Piece(d3, m, HdrLen + 1, n - 1)
    OBVIOUS
  <2>1. HdrLen + 1 \in Nat /\ n - 1 \in Nat /\ (HdrLen + 1) + 1 = HdrLen + 2 /\ (HdrLen + 1) + (n - 1) = HdrLen + n
    BY <1>1
  <2>2. Piece(DataBytes(m, (HdrLen + 1) + 1, (HdrLen + 1) + (n - 1)), m, HdrLen + 1, n - 1)
    BY ONLY <1>1, <2>1, PieceFacts
  <2> QED BY ONLY <2>1, <2>2
<1> HIDE DEF d1, d2, d3, P, m
<1>6. CASE n = 0
  <2>1. b.mem = <<P, d1>>
    BY ONLY <1>2, <1>6
  <2>2. Len(b.mem) = 2 /\ b.mem[2] = d1
    BY ONLY <2>1
  <2> QED BY <1>1, <1>2, <1>3, <1>6, <2>2 DEF Vector, P, m
<1>7. CASE n > 0
  <2>0. ~(n = 0)
    BY <1>7
  <2>1. b.mem = <<P, d1, d2, d3>>
    BY ONLY <1>2, <2>0
  <2>2. Len(b.mem) = 4 /\ b.mem[2] = d1 /\ b.mem[3] = d2 /\ b.mem[4] = d3
    BY ONLY <2>1
  <2> QED BY <1>1, <1>2, <1>3, <1>4, <1>5, <1>7, <2>0, <2>2 DEF Vector, P, m
<1>8. n = 0 \/ n > 0
  BY <1>1
<1> QED BY <1>6, <1>7, <1>8

\* The first part of a vector is set.
LEMMA FirstPart ==
  ASSUME NEW iov \in Seq(Seq(AnyByte)), Len(iov) >= 1, NEW s \in Seq(AnyByte),
         NEW y, y = [iov EXCEPT ![1] = s]
  PROVE  /\ y \in Seq(Seq(AnyByte)) /\ Len(y) = Len(iov) /\ y[1] = s
         /\ \A k \in 2..Len(iov) : y[k] = iov[k]
<1> DEFINE S == Seq(AnyByte)
<1>1. iov \in Seq(S) /\ s \in S
  OBVIOUS
<1> HIDE DEF S
<1>2. y \in Seq(S) /\ Len(y) = Len(iov)
  BY ONLY Len(iov) >= 1, y = [iov EXCEPT ![1] = s], <1>1, ExceptSeq
<1>3. y[1] = s /\ \A k \in 2..Len(iov) : y[k] = iov[k]
  BY <1>1, LenProperties
<1> QED BY <1>2, <1>3 DEF S

\* What is written of a vector buffer from position p is the message from there on.
LEMMA VectorWrite ==
  ASSUME Types, Newest \in 1..Len(sent), link = "reply", NEW b, NEW init,
         Shape(b, "vector", "prefix", init, 1), NEW p \in Nat, p <= Body(Newest), VectorMsg(b, p),
         NEW x, x = SetPrefix(b, p), NEW w, w = Writable(x, p)
  PROVE  /\ Shape(x, "vector", "prefix", init, 1) /\ x.mark = b.mark /\ \A q : VectorMsg(x, q)
         /\ Len(Writable(b, p)) = Body(Newest) - p
         /\ w \in Seq(AnyByte) /\ Len(w) = Body(Newest) - p
         /\ \A k \in 1..(Body(Newest) - p) : w[k] = MsgByte(Newest, p + k)
<1> USE LenAssumption, PrefixLenAssumption
<1> DEFINE m == Newest
           L == Body(Newest)
           n == sent[Newest].len - HdrLen
           d1 == DataBytes(m, 1, HdrLen)
           d2 == DataBytes(m, HdrLen + 1, HdrLen + 1)
           d3 == DataBytes(m, HdrLen + 2, HdrLen + n)
           P == b.mem[1]
<1>1. n \in Nat /\ L = PrefixLen + HdrLen + n /\ Vector(b.mem, m, n) /\ m \in Nat /\ L \in Nat /\ p <= L
  <2>1. n \in Nat /\ L = PrefixLen + HdrLen + n /\ Vector(b.mem, m, n)
    BY VectorMsgParts
  <2> HIDE DEF n
  <2> QED BY <2>1
<1>2. /\ b.mem \in Seq(Seq(AnyByte)) /\ Len(P) = PrefixLen /\ (p > 0 => P = SizeBytes(L))
      /\ b.mem = IF n = 0 THEN <<P, d1>> ELSE <<P, d1, d2, d3>>
  BY DEF VectorMsg
<1>3. SizeBytes(L) \in Seq(AnyByte) /\ Len(SizeBytes(L)) = PrefixLen /\ \A k \in 1..PrefixLen : SizeBytes(L)[k] = Byte("size", k, L)
  BY ONLY <1>1, SizeFacts
<1>4. b.type = "vector" /\ b.mode = "prefix"
  BY DEF Shape
<1>5. Prefixed /\ Prefix = PrefixLen
  <2>1. Prefixed
    BY DEF Prefixed
  <2> QED BY <2>1, HeaderFacts
<1>6. \A k \in 1..L : MsgByte(m, k) \in AnyByte
                      /\ MsgByte(m, k) = IF k <= PrefixLen THEN Byte("size", k, L) ELSE Byte("data", k - PrefixLen, m)
  <2> TAKE k \in 1..L
  <2>1. Size(m) \in Nat /\ L <= Size(m)
    BY MsgFacts
  <2>2. k \in 1..Size(m) /\ k <= L /\ (k > Prefix \/ k <= Prefix)
    BY <1>1, <1>5, <2>1
  <2>3. /\ MsgByte(m, k) \in AnyByte
        /\ k <= Prefix => MsgByte(m, k) = Byte("size", k, Body(m))
        /\ k > Prefix /\ k <= Body(m) => MsgByte(m, k) = Byte("data", k - Prefix, m)
    BY <2>2, MsgByteFacts
  <2>4. (k > PrefixLen) = ~(k <= PrefixLen)
    OBVIOUS
  <2> QED BY ONLY <1>5, <2>2, <2>3, <2>4
<1>12. \A q : VectorMsg(b, q) <=>
           /\ b.mem \in Seq(Seq(AnyByte)) /\ Len(P) = PrefixLen /\ (q > 0 => P = SizeBytes(L))
           /\ b.mem = IF n = 0 THEN <<P, d1>> ELSE <<P, d1, d2, d3>>
  BY DEF VectorMsg
<1>13. \A q : VectorMsg(x, q) <=>
           /\ x.mem \in Seq(Seq(AnyByte)) /\ Len(x.mem[1]) = PrefixLen /\ (q > 0 => x.mem[1] = SizeBytes(L))
           /\ x.mem = IF n = 0 THEN <<x.mem[1], d1>> ELSE <<x.mem[1], d1, d2, d3>>
  BY DEF VectorMsg
<1>14. \A y : VectorMsg(y, 1) => Vector(y.mem, m, n)
  BY VectorMsgParts
<1> HIDE DEF L, n, m, d1, d2, d3, P
<1>7. /\ Len(b.mem) \in {2, 4} /\ (n = 0 => Len(b.mem) = 2) /\ (n > 0 => Len(b.mem) = 4)
      /\ Offset(b.mem, Len(b.mem) + 1) = L
  BY ONLY <1>1, VectorOffsets
<1>8. Used(b) /= 0
  BY ONLY <1>7 DEF Used
<1>9. /\ Shape(x, "vector", "prefix", init, 1) /\ x.mark = b.mark /\ x.mem[1] = SizeBytes(L)
      /\ x.mem \in Seq(Seq(AnyByte)) /\ Len(x.mem) = Len(b.mem) /\ \A k \in 2..Len(b.mem) : x.mem[k] = b.mem[k]
  <2>1. CASE p > 0
    <3>1. x = b
      BY <1>4, <1>8, <2>1 DEF SetPrefix, VectorPrefix
    <3> QED BY <1>2, <2>1, <3>1 DEF P
  <2>2. CASE ~(p > 0)
    <3> DEFINE y == [b.mem EXCEPT ![1] = SizeBytes(L)]
    <3>1. x = [b EXCEPT !.mem = y]
      <4>1. x = [b EXCEPT !.mem[1] = SizeBytes(Offset(b.mem, Used(b) + 1))]
        BY ONLY x = SetPrefix(b, p), <1>4, <1>8, <2>2 DEF SetPrefix, VectorPrefix
      <4>2. Offset(b.mem, Used(b) + 1) = L
        BY ONLY <1>7 DEF Used
      <4> QED BY ONLY <4>1, <4>2
    <3>2. Len(b.mem) >= 1
      <4>1. Len(b.mem) \in {2, 4}
        BY ONLY <1>7
      <4> QED BY ONLY <4>1
    <3>3. /\ y \in Seq(Seq(AnyByte)) /\ Len(y) = Len(b.mem) /\ y[1] = SizeBytes(L)
          /\ \A k \in 2..Len(b.mem) : y[k] = b.mem[k]
      BY ONLY <1>2, <1>3, <3>2, FirstPart
    <3> HIDE DEF y
    <3>4. /\ DOMAIN x = BufFields /\ x.type = b.type /\ x.mode = b.mode /\ x.init = b.init /\ x.step = b.step
          /\ x.limit = b.limit /\ x.alloc = b.alloc /\ x.mem = y /\ x.mark = b.mark
      BY <3>1 DEF BufFields, Shape
    <3>5. Shape(x, "vector", "prefix", init, 1)
      BY <3>4 DEF Shape
    <3> QED BY <3>3, <3>4, <3>5
  <2> QED BY <2>1, <2>2
<1>10. x.mem = IF n = 0 THEN <<x.mem[1], d1>> ELSE <<x.mem[1], d1, d2, d3>>
  <2> DEFINE y == x.mem
  <2>1. CASE n = 0
    <3>1. b.mem = <<P, d1>>
      BY ONLY <1>2, <2>1
    <3>2. Len(b.mem) = 2 /\ b.mem[2] = d1
      BY ONLY <3>1
    <3>3. y \in Seq(Seq(AnyByte)) /\ Len(y) = 2 /\ y[2] = d1
      BY ONLY <1>9, <3>2
    <3>4. y = <<y[1], y[2]>>
      BY ONLY <3>3
    <3> QED BY ONLY <2>1, <3>3, <3>4
  <2>2. CASE n > 0
    <3>0. ~(n = 0)
      BY <1>1, <2>2
    <3>1. b.mem = <<P, d1, d2, d3>>
      BY ONLY <1>2, <3>0
    <3>2. Len(b.mem) = 4 /\ b.mem[2] = d1 /\ b.mem[3] = d2 /\ b.mem[4] = d3
      BY ONLY <3>1
    <3>3. y \in Seq(Seq(AnyByte)) /\ Len(y) = 4 /\ y[2] = d1 /\ y[3] = d2 /\ y[4] = d3
      BY ONLY <1>9, <3>2
    <3>4. y = <<y[1], y[2], y[3], y[4]>>
      BY ONLY <3>3
    <3> QED BY ONLY <3>0, <3>3, <3>4
  <2>3. n = 0 \/ n > 0
    BY <1>1
  <2> QED BY ONLY <2>1, <2>2, <2>3
<1>11. \A q : VectorMsg(x, q)
  BY ONLY <1>3, <1>9, <1>10, <1>13
<1>15. Vector(x.mem, m, n)
  BY <1>11, <1>14
<1>16. Len(Writable(b, p)) = L - p
  <2>1. Writable(b, p) = BytesFrom(b.mem, p)
    BY <1>4 DEF Writable, VectorWritable
  <2>2. Rest(Writable(b, p), b.mem, m, p, L)
    BY ONLY p \in Nat, <1>1, <2>1, VectorBytes
  <2> QED BY ONLY <2>2 DEF Rest
<1>17. /\ Len(w) = L - p /\ w = [k \in 1..(L - p) |-> w[k]]
       /\ \A k \in 1..(L - p) :
             w[k] = IF p + k <= PrefixLen THEN x.mem[1][p + k] ELSE Byte("data", p + k - PrefixLen, m)
  <2>1. w = BytesFrom(x.mem, p)
    BY <1>9 DEF Writable, VectorWritable, Shape
  <2>2. Rest(w, x.mem, m, p, L)
    BY ONLY p \in Nat, <1>1, <1>15, <2>1, VectorBytes
  <2> QED BY ONLY <2>2 DEF Rest
<1>18. \A k \in 1..(L - p) : w[k] = MsgByte(m, p + k) /\ w[k] \in AnyByte
  <2> TAKE k \in 1..(L - p)
  <2>1. p + k \in 1..L /\ (p + k) - PrefixLen = p + k - PrefixLen
    BY <1>1
  <2>2. w[k] = IF p + k <= PrefixLen THEN Byte("size", p + k, L) ELSE Byte("data", p + k - PrefixLen, m)
    <3>1. CASE p + k <= PrefixLen
      <4>1. p + k \in 1..PrefixLen
        BY <2>1, <3>1
      <4> QED BY ONLY k \in 1..(L - p), <1>3, <1>9, <1>17, <3>1, <4>1
    <3>2. CASE ~(p + k <= PrefixLen)
      BY ONLY k \in 1..(L - p), <1>17, <3>2
    <3> QED BY <3>1, <3>2
  <2>3. /\ MsgByte(m, p + k) \in AnyByte
        /\ MsgByte(m, p + k) = IF p + k <= PrefixLen THEN Byte("size", p + k, L) ELSE Byte("data", (p + k) - PrefixLen, m)
    BY ONLY <1>6, <2>1
  <2> QED BY ONLY <2>1, <2>2, <2>3
<1>19. w \in Seq(AnyByte)
  <2>1. L - p \in Nat
    BY <1>1
  <2>2. w \in [1..(L - p) -> AnyByte]
    BY ONLY <1>17, <1>18
  <2> QED BY ONLY <2>1, <2>2, IsASeq
<1> QED BY <1>9, <1>11, <1>16, <1>17, <1>18, <1>19 DEF L, m

(***************************************************************************)
(* What a step leaves alone.                                               *)
(***************************************************************************)

\* The messages are what they were while nothing is composed.
LEMMA Frame ==
  ASSUME UNCHANGED <<link, sent>>
  PROVE  /\ Prefix' = Prefix /\ Prefixed' = Prefixed /\ Newest' = Newest /\ Header' = Header /\ Suffix' = Suffix
         /\ \A i : Body(i)' = Body(i) /\ Size(i)' = Size(i) /\ Data(i)' = Data(i)
         /\ \A i, j : MsgByte(i, j)' = MsgByte(i, j)
<1>0. link' = link /\ sent' = sent
  OBVIOUS
<1>1. Prefix' = Prefix /\ Prefixed' = Prefixed /\ Newest' = Newest /\ Header' = Header /\ Suffix' = Suffix
  BY <1>0 DEF Prefix, Prefixed, Newest, Header, Suffix
<1>2. \A i : Body(i)' = Body(i)
  BY <1>0, <1>1 DEF Body
<1>3. \A i : Size(i)' = Size(i)
  BY <1>0, <1>2 DEF Size
<1>4. \A i, j : MsgByte(i, j)' = MsgByte(i, j)
  BY <1>1, <1>2 DEF MsgByte
<1>5. \A i : Data(i)' = Data(i)
  BY <1>0 DEF Data
<1> QED BY <1>1, <1>2, <1>3, <1>4, <1>5

\* So is the place of each in the stream.
LEMMA FrameLayout ==
  ASSUME UNCHANGED <<link, sent>>, NEW off, Layout(off)
  PROVE  Layout(off)'
<1>1. Newest' = Newest /\ \A i : Size(i)' = Size(i)
  BY Frame
<1> QED BY <1>1 DEF Layout

\* The receiver leaves the sender alone.
LEMMA FrameSender ==
  ASSUME UNCHANGED <<link, sent, phase, gen, tx, pos>>, Composing, Sending
  PROVE  Composing' /\ Sending'
<1>0. link' = link /\ sent' = sent /\ phase' = phase /\ gen' = gen /\ tx' = tx /\ pos' = pos
  OBVIOUS
<1>1. /\ Prefix' = Prefix /\ Newest' = Newest /\ (\A i : Body(i)' = Body(i))
      /\ (\A i, j : MsgByte(i, j)' = MsgByte(i, j))
  BY Frame
<1>2. Composing'
  BY <1>0 DEF Composing, Shape
<1>3. LinearMsg(tx)' = LinearMsg(tx) /\ VectorMsg(tx, pos)' = VectorMsg(tx, pos)
  BY <1>0, <1>1 DEF LinearMsg, VectorMsg
<1>4. Sending'
  BY <1>0, <1>1, <1>3 DEF Sending, Shape, TxBuf, Create
<1> QED BY <1>2, <1>4

\* A step of the sender leaves the receiver as it is.
LEMMA FrameReceiver ==
  ASSUME UNCHANGED <<link, sent, rx, rphase, got>>, Receiving
  PROVE  Receiving'
<1>0. link' = link /\ sent' = sent /\ rx' = rx /\ rphase' = rphase /\ got' = got
  OBVIOUS
<1>1. Prefixed' = Prefixed /\ Newest' = Newest /\ (\A i : Body(i)' = Body(i)) /\ Current' = Current
  BY <1>0, Frame DEF Current
<1> QED BY <1>0, <1>1 DEF Receiving, Shape, RxBuf, Create

\* How far the stream goes.
LEMMA Bounds ==
  ASSUME Types, Sending, Receiving, NEW off, Layout(off), Stream(off)
  PROVE  /\ Newest \in Nat /\ Newest = Len(sent) /\ Current \in 1..(Newest + 1)
         /\ \A i \in 1..(Newest + 1) : off[i] \in Nat
         /\ Len(rx.mem) \in Nat /\ Len(wire) \in Nat /\ Taken(off) \in Nat /\ WrittenTo(off) \in Nat
         /\ WrittenTo(off) <= off[Newest + 1]
         /\ WrittenTo(off) > off[Current] => Current <= Newest
<1>1. Newest \in Nat /\ Newest = Len(sent) /\ Len(got) \in Nat /\ Len(rx.mem) \in Nat /\ Len(wire) \in Nat /\ pos \in Nat
  <2>1. sent \in Seq([len : Nat, fd : BOOLEAN]) /\ wire \in Seq(AnyByte) /\ pos \in Nat
        /\ got \in Seq([data : Seq(AnyByte), fd : BOOLEAN])
    BY DEF Types
  <2>2. rx.mem \in Seq(AnyByte)
    BY DEF Receiving
  <2> QED BY <2>1, <2>2, LenProperties DEF Newest
<1>2. Current \in 1..(Newest + 1)
  <2>1. Current <= Newest + 1
    BY DEF Stream
  <2> QED BY <1>1, <2>1 DEF Current
<1>3. /\ \A i \in 1..(Newest + 1) : off[i] \in Nat
      /\ off[1] = 0 /\ \A i \in 1..Newest : off[i + 1] = off[i] + Size(i)
  BY DEF Layout
<1>4. off[Current] \in Nat
  BY <1>2, <1>3
<1>5. Taken(off) \in Nat /\ WrittenTo(off) \in Nat
  BY <1>1, <1>4 DEF Taken, WrittenTo
<1> DEFINE W == WrittenTo(off)
<1>6. WrittenTo(off) <= off[Newest + 1]
  <2>1. CASE sent = <<>>
    <3>1. Newest = 0 /\ W = 0
      BY <1>1, <2>1 DEF Stream
    <3> HIDE DEF W
    <3> QED BY <1>3, <3>1 DEF W
  <2>2. CASE sent /= <<>>
    <3>1. Newest >= 1
      BY <1>1, <2>2, EmptySeq DEF Types
    <3>2. Newest \in 1..Len(sent) /\ Newest \in 1..Newest /\ Newest \in 1..(Newest + 1)
      BY <1>1, <3>1
    <3>3. Body(Newest) \in Nat /\ Size(Newest) \in Nat /\ Body(Newest) <= Size(Newest)
      BY <3>2, MsgFacts
    <3>4. off[Newest + 1] = off[Newest] + Size(Newest) /\ off[Newest] \in Nat
      BY <1>3, <3>2
    <3>5. /\ phase = "write" => W = off[Newest] + pos
          /\ phase = "fd" => W = off[Newest] + Body(Newest)
          /\ phase = "idle" => W = off[Newest] + Size(Newest)
          /\ phase = "closed" => W <= off[Newest] + Size(Newest)
      BY <2>2 DEF Stream
    <3>6. phase = "write" => pos <= Body(Newest)
      BY DEF Sending
    <3>7. phase \in {"idle", "write", "fd", "closed"}
      BY DEF Types
    <3>8. W \in Nat
      BY <1>5
    <3> HIDE DEF W
    <3>9. W <= off[Newest] + Size(Newest)
      BY ONLY <1>1, <3>3, <3>4, <3>5, <3>6, <3>7, <3>8
    <3> QED BY <3>4, <3>9 DEF W
  <2> QED BY <2>1, <2>2
<1>7. W > off[Current] => Current <= Newest
  <2> SUFFICES ASSUME W > off[Current], ~(Current <= Newest) PROVE FALSE
    OBVIOUS
  <2>1. Current = Newest + 1
    BY <1>1, <1>2
  <2>2. W \in Nat /\ W <= off[Current] /\ off[Current] \in Nat
    BY <1>4, <1>5, <1>6, <2>1
  <2> HIDE DEF W
  <2> QED BY <2>2
<1> QED BY <1>1, <1>2, <1>3, <1>5, <1>6, <1>7

(***************************************************************************)
(* The sender.                                                             *)
(***************************************************************************)

\* What was received stays as it was sent.
LEMMA SenderHistory ==
  ASSUME Types, DeliveredExactly, EndIsTrue, UNCHANGED <<link, verdict, got>>, phase /= "closed",
         \A i \in 1..Len(sent) : sent'[i] = sent[i], Len(sent') \in Nat, Len(sent') >= Len(sent),
         sent' = <<>> => sent = <<>>, sent = <<>> /\ sent' /= <<>> => sent'[1].len \in Nat
  PROVE  DeliveredExactly' /\ EndIsTrue'
<1>0. link' = link /\ verdict' = verdict /\ got' = got /\ Suffix' = Suffix
  BY DEF Suffix
<1>1. verdict \notin {"EBADMSG", "EBADE", "EBADF", "EOF", "EXFULL", "EOVERFLOW"}
  BY DEF EndIsTrue
<1>2. EndIsTrue'
  BY <1>0, <1>1 DEF EndIsTrue
<1>3. ASSUME NEW i \in DOMAIN got, link = "external"
      PROVE  \E n \in 0..(IF sent' = <<>> THEN 0 ELSE sent'[1].len) : got[i].data = DataBytes(1, 1, n) \o Suffix
  <2>1. PICK n \in 0..(IF sent = <<>> THEN 0 ELSE sent[1].len) : got[i].data = DataBytes(1, 1, n) \o Suffix
    BY <1>3 DEF DeliveredExactly
  <2>2. CASE sent = <<>>
    <3>1. n = 0
      BY <2>1, <2>2
    <3>2. CASE sent' = <<>>
      BY <2>1, <3>1, <3>2
    <3>3. CASE sent' /= <<>>
      <4>1. 0 \in 0..sent'[1].len
        BY <2>2, <3>3
      <4> QED BY <2>1, <3>1, <3>3, <4>1
    <3> QED BY <3>2, <3>3
  <2>3. CASE sent /= <<>>
    <3>1. 1 \in 1..Len(sent) /\ sent' /= <<>>
      <4>1. Len(sent) \in Nat /\ Len(sent) /= 0
        BY <2>3, EmptySeq, LenProperties DEF Types
      <4> QED BY <2>3, <4>1
    <3>2. sent'[1] = sent[1]
      BY <3>1
    <3> QED BY <2>1, <2>3, <3>1, <3>2
  <2> QED BY <2>2, <2>3
<1>4. ASSUME NEW i \in DOMAIN got, link /= "external"
      PROVE  /\ i <= Len(sent') /\ got[i].data = Data(i)' /\ (got[i].fd => sent'[i].fd)
             /\ ~(sent'[i].fd /\ ~got[i].fd)
  <2>1. /\ i <= Len(sent) /\ got[i].data = Data(i) /\ (got[i].fd => sent[i].fd)
        /\ ~(sent[i].fd /\ ~got[i].fd)
    BY <1>4 DEF DeliveredExactly
  <2>2. i \in 1..Len(sent) /\ Len(sent) \in Nat
    <3>1. DOMAIN got = 1..Len(got) /\ Len(got) \in Nat /\ Len(sent) \in Nat
      BY LenProperties DEF Types
    <3> QED BY <2>1, <3>1
  <2>3. sent'[i] = sent[i] /\ i <= Len(sent')
    BY <2>2
  <2>4. Data(i)' = Data(i)
    BY <2>3 DEF Data
  <2> QED BY <2>1, <2>3, <2>4
<1>5. DeliveredExactly'
  <2> SUFFICES ASSUME NEW i \in DOMAIN got
               PROVE  IF link = "external"
                      THEN \E n \in 0..(IF sent' = <<>> THEN 0 ELSE sent'[1].len) : got[i].data = DataBytes(1, 1, n) \o Suffix
                      ELSE /\ i <= Len(sent') /\ got[i].data = Data(i)' /\ (got[i].fd => sent'[i].fd)
                           /\ (sent'[i].fd /\ ~got[i].fd => i = Len(sent') /\ phase' = "closed")
    BY <1>0 DEF DeliveredExactly
  <2>1. CASE link = "external"
    BY <1>3, <2>1
  <2>2. CASE link /= "external"
    BY <1>4, <2>2
  <2> QED BY <2>1, <2>2
<1> QED BY <1>2, <1>5

\* More of a message goes out.
LEMMA WireGrows ==
  ASSUME Types, Sending, Receiving, NEW off, Layout(off), Stream(off), sent /= <<>>,
         NEW p \in Nat, WrittenTo(off) = off[Newest] + p, NEW s \in Seq(AnyByte), p + Len(s) <= Size(Newest),
         \A k \in 1..Len(s) : s[k] = MsgByte(Newest, p + k), wire' = wire \o s
  PROVE  /\ wire' \in Seq(AnyByte) /\ Len(wire') = Len(wire) + Len(s)
         /\ \A k \in 1..Len(wire'), i \in 1..Newest : \A j \in 1..Size(i) :
               Taken(off) + k = off[i] + j => wire'[k] = MsgByte(i, j)
<1>1. /\ Newest \in Nat /\ Newest = Len(sent) /\ (\A i \in 1..(Newest + 1) : off[i] \in Nat)
      /\ Len(wire) \in Nat /\ Taken(off) \in Nat
  BY Bounds
<1>2. wire \in Seq(AnyByte)
  BY DEF Types
<1>3. /\ wire' \in Seq(AnyByte) /\ Len(wire') = Len(wire) + Len(s) /\ Len(s) \in Nat
      /\ \A k \in 1..Len(wire) : wire'[k] = wire[k]
      /\ \A k \in 1..Len(s) : wire'[Len(wire) + k] = s[k]
  BY ONLY wire' = wire \o s, s \in Seq(AnyByte), <1>2, ConcatAt
<1>4. Newest >= 1 /\ Newest \in 1..Newest /\ Newest \in 1..(Newest + 1) /\ off[Newest] \in Nat
  <2>1. Newest >= 1
    BY <1>1, EmptySeq DEF Types
  <2> QED BY <1>1, <2>1
<1>5. Taken(off) + Len(wire) = off[Newest] + p
  BY DEF WrittenTo
<1>6. \A i \in 1..Newest : i < Newest => off[i] + Size(i) <= off[Newest]
  BY <1>4 DEF Layout
<1>7. \A i \in 1..Newest : Size(i) \in Nat
  BY <1>1, MsgFacts
<1>8. \A k \in 1..Len(wire), i \in 1..Newest : \A j \in 1..Size(i) :
         Taken(off) + k = off[i] + j => wire[k] = MsgByte(i, j)
  BY DEF Stream
<1>9. ASSUME NEW k \in 1..Len(wire'), NEW i \in 1..Newest, NEW j \in 1..Size(i), Taken(off) + k = off[i] + j
      PROVE  wire'[k] = MsgByte(i, j)
  <2>0. k \in Nat /\ i \in Nat /\ j \in Nat /\ off[i] \in Nat
    BY <1>1, <1>3, <1>7
  <2>1. CASE k <= Len(wire)
    <3>1. k \in 1..Len(wire)
      BY <1>1, <1>3, <2>1
    <3> QED BY <1>3, <1>8, <1>9, <3>1
  <2>2. CASE k > Len(wire)
    <3> DEFINE q == k - Len(wire)
    <3>1. q \in 1..Len(s) /\ k = Len(wire) + q
      BY <1>1, <1>3, <2>2
    <3>2. off[i] + j = off[Newest] + p + q
      BY <1>1, <1>4, <1>5, <1>9, <3>1, <2>0
    <3> HIDE DEF q
    <3>0. q \in Nat /\ q >= 1
      <4>1. Len(s) \in Nat
        BY <1>3
      <4> QED BY ONLY <3>1, <4>1
    <3>3. i = Newest
      <4> SUFFICES ASSUME i < Newest PROVE FALSE
        BY <1>1
      <4>1. off[i] + Size(i) <= off[Newest] /\ Size(i) \in Nat /\ j <= Size(i)
        BY <1>6, <1>7
      <4>2. \A o, z, u, a, b, y \in Nat : o + y = u + a + b /\ b >= 1 /\ y <= z => ~(o + z <= u)
        OBVIOUS
      <4> QED BY ONLY p \in Nat, <1>4, <2>0, <3>0, <3>2, <4>1, <4>2
    <3>4. j = p + q
      <4>1. \A u, a, b, y \in Nat : u + y = u + a + b => y = a + b
        OBVIOUS
      <4> QED BY ONLY p \in Nat, <1>4, <2>0, <3>0, <3>2, <3>3, <4>1
    <3>5. wire'[k] = s[q]
      BY <1>3, <3>1
    <3> QED BY <3>1, <3>3, <3>4, <3>5
  <2>3. k <= Len(wire) \/ k > Len(wire)
    BY <1>1, <2>0
  <2> QED BY <2>1, <2>2, <2>3
<1> QED BY <1>3, <1>9

\* What one write has to offer, and what it does to the buffer.
LEMMA WriteFacts ==
  ASSUME Types, Sending, phase = "write", NEW x, x = SetPrefix(tx, pos), NEW w, w = Writable(x, pos)
  PROVE  /\ Newest \in 1..Len(sent) /\ Body(Newest) \in Nat /\ pos \in Nat /\ pos <= Body(Newest)
         /\ Shape(x, TxBuf(link).type, TxBuf(link).mode, TxBuf(link).init, 1) /\ ~x.mark.set
         /\ link /= "reply" => LinearMsg(x)
         /\ link = "reply" => \A q : VectorMsg(x, q)
         /\ Len(Writable(tx, pos)) = Body(Newest) - pos
         /\ w \in Seq(AnyByte) /\ Len(w) = Body(Newest) - pos
         /\ \A k \in 1..(Body(Newest) - pos) : w[k] = MsgByte(Newest, pos + k)
<1>1. sent /= <<>> /\ pos <= Body(Newest) /\ ~tx.mark.set
      /\ Shape(tx, TxBuf(link).type, TxBuf(link).mode, TxBuf(link).init, 1)
      /\ (link /= "reply" => LinearMsg(tx)) /\ (link = "reply" => VectorMsg(tx, pos))
  BY DEF Sending
<1>2. pos \in Nat /\ link \in Links
  BY DEF Types
<1>3. Newest \in 1..Len(sent)
  <2>1. Len(sent) \in Nat /\ Len(sent) /= 0
    BY <1>1, EmptySeq, LenProperties DEF Types
  <2> QED BY <2>1 DEF Newest
<1>4. Body(Newest) \in Nat
  BY <1>3, MsgFacts
<1> DEFINE b == TxBuf(link)
<1>5. /\ b.type = (IF link = "reply" THEN "vector" ELSE "linear")
      /\ b.mode = (IF link = "external" THEN "plain" ELSE "prefix")
  BY <1>2, TxFacts
<1> HIDE DEF b
<1>6. CASE link /= "reply"
  <2> DEFINE mode == b.mode
  <2>1. b.type = "linear" /\ mode = IF Prefixed THEN "prefix" ELSE "plain"
    BY <1>5, <1>6 DEF Prefixed
  <2> HIDE DEF mode
  <2>2. Shape(tx, "linear", mode, b.init, 1)
    BY <1>1, <2>1 DEF b, mode
  <2>3. LinearMsg(tx)
    BY <1>1, <1>6
  <2>4. /\ Shape(x, "linear", mode, b.init, 1) /\ x.mark = tx.mark /\ LinearMsg(x)
        /\ Len(Writable(tx, pos)) = Body(Newest) - pos
        /\ w \in Seq(AnyByte) /\ Len(w) = Body(Newest) - pos
        /\ \A k \in 1..(Body(Newest) - pos) : w[k] = MsgByte(Newest, pos + k)
    BY ONLY Types, x = SetPrefix(tx, pos), w = Writable(x, pos), <1>1, <1>2, <1>3, <2>1, <2>2, <2>3, LinearWrite
  <2>5. Shape(x, TxBuf(link).type, TxBuf(link).mode, TxBuf(link).init, 1)
    BY <2>1, <2>4 DEF b, mode
  <2> QED BY <1>1, <1>2, <1>3, <1>4, <1>6, <2>4, <2>5
<1>7. CASE link = "reply"
  <2>1. b.type = "vector" /\ b.mode = "prefix"
    BY <1>5, <1>7
  <2>2. Shape(tx, "vector", "prefix", b.init, 1)
    BY <1>1, <2>1 DEF b
  <2>3. VectorMsg(tx, pos)
    BY <1>1, <1>7
  <2>4. /\ Shape(x, "vector", "prefix", b.init, 1) /\ x.mark = tx.mark /\ (\A q : VectorMsg(x, q))
        /\ Len(Writable(tx, pos)) = Body(Newest) - pos
        /\ w \in Seq(AnyByte) /\ Len(w) = Body(Newest) - pos
        /\ \A k \in 1..(Body(Newest) - pos) : w[k] = MsgByte(Newest, pos + k)
    BY ONLY Types, x = SetPrefix(tx, pos), w = Writable(x, pos), <1>1, <1>2, <1>3, <1>7, <2>2, <2>3, VectorWrite
  <2>5. Shape(x, TxBuf(link).type, TxBuf(link).mode, TxBuf(link).init, 1)
    BY <2>1, <2>4 DEF b
  <2> QED BY <1>1, <1>2, <1>3, <1>4, <1>7, <2>4, <2>5
<1> QED BY <1>6, <1>7

\* A step of the sender that sends.
LEMMA SenderStream ==
  ASSUME UNCHANGED <<link, sent, rx, got>>, NEW off, Layout(off), Stream(off), sent /= <<>>,
         Len(wire') \in Nat,
         \A k \in 1..Len(wire'), i \in 1..Newest : \A j \in 1..Size(i) :
            Taken(off) + k = off[i] + j => wire'[k] = MsgByte(i, j),
         NEW W, W = Taken(off) + Len(wire'),
         /\ phase' = "write" => W = off[Newest] + pos'
         /\ phase' = "fd" => W = off[Newest] + Body(Newest)
         /\ phase' = "idle" => W = off[Newest] + Size(Newest)
         /\ phase' = "closed" =>
               /\ off[Newest] <= W /\ W <= off[Newest] + Size(Newest)
               /\ Prefixed /\ tx'.mem = <<>> => W = off[Newest] + Size(Newest)
  PROVE  Layout(off)' /\ Stream(off)'
<1>0. link' = link /\ sent' = sent /\ rx' = rx /\ got' = got
  OBVIOUS
<1>1. /\ Prefixed' = Prefixed /\ Newest' = Newest /\ (\A i : Body(i)' = Body(i) /\ Size(i)' = Size(i))
      /\ (\A i, j : MsgByte(i, j)' = MsgByte(i, j))
  BY Frame
<1>2. Current' = Current /\ Taken(off)' = Taken(off) /\ WrittenTo(off)' = W
  BY <1>0 DEF Current, Taken, WrittenTo
<1>3. Layout(off)'
  BY FrameLayout
<1>4. Current <= Newest + 1 /\ \A k \in 1..Len(rx.mem) : rx.mem[k] = MsgByte(Current, k)
  BY DEF Stream
<1>5. Stream(off)'
  <2>1. Current' <= Newest' + 1
    BY <1>1, <1>2, <1>4
  <2>2. \A k \in 1..Len(rx'.mem) : rx'.mem[k] = MsgByte(Current, k)'
    BY <1>0, <1>1, <1>2, <1>4
  <2>3. \A k \in 1..Len(wire'), i \in 1..Newest' : \A j \in 1..Size(i)' :
           Taken(off)' + k = off[i] + j => wire'[k] = MsgByte(i, j)'
    BY <1>1, <1>2
  <2> QED BY <1>0, <1>1, <1>2, <2>1, <2>2, <2>3 DEF Stream
<1> QED BY <1>3, <1>5

\* The buffer that is sent from, before and after a step.
LEMMA FrameMsg ==
  ASSUME UNCHANGED <<link, sent>>, NEW x, tx' = x
  PROVE  LinearMsg(tx)' = LinearMsg(x) /\ VectorMsg(tx, pos)' = VectorMsg(x, pos')
<1>1. /\ Prefix' = Prefix /\ Newest' = Newest /\ (\A i : Body(i)' = Body(i))
      /\ (\A i, j : MsgByte(i, j)' = MsgByte(i, j))
  BY Frame
<1>2. sent' = sent
  OBVIOUS
<1> QED BY <1>1, <1>2 DEF LinearMsg, VectorMsg

\* A write, of all or of a part, puts the next bytes of the message on the wire.
LEMMA WriteStep ==
  ASSUME IndInv, Write
  PROVE  IndInv'
<1> PICK x : x = SetPrefix(tx, pos)
  OBVIOUS
<1> PICK w : w = Writable(x, pos)
  OBVIOUS
<1>0. Types /\ Composing /\ Sending /\ Receiving /\ Underway /\ DeliveredExactly /\ EndIsTrue
  BY DEF IndInv, Write
<1>1. /\ phase = "write" /\ rphase /= "over" /\ tx' = x
      /\ UNCHANGED <<link, sent, phase, gen, rx, rphase, verdict, got>>
  BY DEF Write
<1>2. PICK n \in 1..Len(w) : wire' = wire \o SubSeq(w, 1, n) /\ pos' = pos + n
  BY DEF Write
<1>3. /\ Newest \in 1..Len(sent) /\ Body(Newest) \in Nat /\ pos \in Nat /\ pos <= Body(Newest)
      /\ Shape(x, TxBuf(link).type, TxBuf(link).mode, TxBuf(link).init, 1) /\ ~x.mark.set
      /\ link /= "reply" => LinearMsg(x)
      /\ link = "reply" => \A q : VectorMsg(x, q)
      /\ w \in Seq(AnyByte) /\ Len(w) = Body(Newest) - pos
      /\ \A k \in 1..(Body(Newest) - pos) : w[k] = MsgByte(Newest, pos + k)
  BY ONLY x = SetPrefix(tx, pos), w = Writable(x, pos), <1>0, <1>1, WriteFacts
<1> DEFINE s == SubSeq(w, 1, n)
<1>4. n \in Nat /\ n >= 1 /\ n <= Body(Newest) - pos /\ n <= Len(w)
  BY <1>3
<1>5. s \in Seq(AnyByte) /\ Len(s) = n /\ \A k \in 1..n : s[k] = MsgByte(Newest, pos + k)
  <2>1. 1 \in Nat /\ 1 >= 1 /\ n >= 1 - 1 /\ n - 1 + 1 = n /\ \A k \in 1..n : 1 + k - 1 = k
    BY <1>4
  <2>2. s \in Seq(AnyByte) /\ Len(s) = n - 1 + 1 /\ \A k \in 1..(n - 1 + 1) : s[k] = w[1 + k - 1]
    BY ONLY <1>3, <1>4, <2>1, SubAt
  <2> HIDE DEF s
  <2>3. \A k \in 1..n : k \in 1..(Body(Newest) - pos)
    BY ONLY <1>3, <1>4
  <2> QED BY ONLY <1>3, <2>1, <2>2, <2>3
<1> HIDE DEF s
<1>6. /\ Prefix' = Prefix /\ Newest' = Newest /\ (\A i : Body(i)' = Body(i)) /\ Prefixed' = Prefixed
      /\ Header' = Header /\ (\A i, j : MsgByte(i, j)' = MsgByte(i, j))
  BY <1>1, Frame
<1>7. PICK off : Layout(off) /\ Stream(off)
  <2>1. ~CutOff
    BY <1>1 DEF CutOff
  <2> QED BY <1>0, <2>1 DEF Underway
<1>8. Size(Newest) \in Nat /\ Body(Newest) <= Size(Newest) /\ sent /= <<>>
  <2>1. Size(Newest) \in Nat /\ Body(Newest) <= Size(Newest)
    BY <1>0, <1>3, MsgFacts
  <2>2. sent /= <<>>
    BY <1>3
  <2> QED BY <2>1, <2>2
<1>9. WrittenTo(off) = off[Newest] + pos
  BY <1>1, <1>7, <1>8 DEF Stream
<1>10. /\ wire' \in Seq(AnyByte) /\ Len(wire') = Len(wire) + n
       /\ \A k \in 1..Len(wire'), i \in 1..Newest : \A j \in 1..Size(i) :
             Taken(off) + k = off[i] + j => wire'[k] = MsgByte(i, j)
  <2>1. pos + Len(s) <= Size(Newest) /\ \A k \in 1..Len(s) : s[k] = MsgByte(Newest, pos + k)
    <3>1. pos + Len(s) <= Size(Newest)
      <4>1. Len(s) = n /\ pos \in Nat /\ Body(Newest) \in Nat
        BY ONLY <1>3, <1>5
      <4> QED BY ONLY <1>4, <1>8, <4>1
    <3> QED BY ONLY <1>5, <3>1
  <2>2. wire' = wire \o s
    BY <1>2 DEF s
  <2>3. s \in Seq(AnyByte) /\ pos \in Nat
    BY <1>3, <1>5
  <2>4. /\ wire' \in Seq(AnyByte) /\ Len(wire') = Len(wire) + Len(s)
        /\ \A k \in 1..Len(wire'), i \in 1..Newest : \A j \in 1..Size(i) :
              Taken(off) + k = off[i] + j => wire'[k] = MsgByte(i, j)
    BY ONLY <1>0, <1>7, <1>8, <1>9, <2>1, <2>2, <2>3, WireGrows
  <2> QED BY <1>5, <2>4
<1>11. Len(wire) \in Nat /\ Taken(off) \in Nat /\ off[Newest] \in Nat
  <2>1. Newest \in Nat /\ (\A i \in 1..(Newest + 1) : off[i] \in Nat) /\ Len(wire) \in Nat /\ Taken(off) \in Nat
    BY <1>0, <1>7, Bounds
  <2> QED BY <1>3, <2>1
<1>12. Layout(off)' /\ Stream(off)'
  <2> DEFINE W == Taken(off) + Len(wire')
  <2>1. phase' = "write" /\ W = off[Newest] + pos' /\ Len(wire') \in Nat
    <3>1. phase' = "write" /\ pos' = pos + n /\ Len(wire') = Len(wire) + n /\ pos \in Nat
      BY <1>1, <1>2, <1>3, <1>10
    <3>2. Taken(off) + Len(wire) = off[Newest] + pos
      BY ONLY <1>9 DEF WrittenTo
    <3> QED BY ONLY <1>4, <1>11, <3>1, <3>2
  <2> HIDE DEF W
  <2>2. UNCHANGED <<link, sent, rx, got>>
    BY <1>1
  <2>3. W = Taken(off) + Len(wire')
    BY DEF W
  <2> QED BY ONLY <1>7, <1>8, <1>10, <2>1, <2>2, <2>3, SenderStream
<1>13. Types'
  <2>1. pos' \in Nat /\ wire' \in Seq(AnyByte)
    BY <1>2, <1>3, <1>4, <1>10
  <2> QED BY ONLY <1>0, <1>1, <1>6, <2>1 DEF Types
<1>14. Composing'
  BY <1>0, <1>1 DEF Composing, Shape
<1>15. Sending'
  <2>1. /\ link /= "reply" => LinearMsg(tx)'
        /\ link = "reply" => VectorMsg(tx, pos)'
    <3>1. UNCHANGED <<link, sent>>
      BY <1>1
    <3> QED BY ONLY <1>1, <1>3, <3>1, FrameMsg
  <2>2. phase' = "write" /\ sent' /= <<>> /\ link' = link
    BY <1>1, <1>8
  <2>3. Shape(tx', TxBuf(link').type, TxBuf(link').mode, TxBuf(link').init, 1) /\ ~tx'.mark.set
    BY ONLY <1>1, <1>3, <2>2
  <2>4. pos' <= Body(Newest)'
    BY ONLY <1>2, <1>3, <1>4, <1>6
  <2> QED BY ONLY <2>1, <2>2, <2>3, <2>4 DEF Sending
<1>16. Receiving'
  BY <1>0, <1>1, FrameReceiver
<1>17. DeliveredExactly' /\ EndIsTrue'
  <2>1. Len(sent) \in Nat
    BY <1>0 DEF Types
  <2> QED BY <1>0, <1>1, <1>8, <2>1, SenderHistory
<1> QED BY <1>12, <1>13, <1>14, <1>15, <1>16, <1>17 DEF IndInv, Underway

\* sid_buf_reset keeps the shape.
LEMMA ResetShape ==
  ASSUME NEW b, NEW type, NEW mode, NEW init \in Nat, NEW step, Shape(b, type, mode, init, step),
         NEW c, c = Reset(b)
  PROVE  /\ Shape(c, type, mode, init, step) /\ c.mem = <<>> /\ ~c.mark.set
         /\ c.alloc = init + Skip(b)
<1>1. DOMAIN b = BufFields /\ b.limit = 0 /\ b.init \in Nat /\ b.init = init /\ b.type = type /\ b.mode = mode /\ b.step = step
  BY DEF Shape
<1>2. /\ DOMAIN c = BufFields
      /\ c.type = b.type /\ c.mode = b.mode /\ c.init = b.init /\ c.step = b.step /\ c.limit = 0
      /\ c.alloc = b.init + Skip(b) /\ c.alloc \in Nat /\ c.mem = <<>>
      /\ c.mark = [set |-> FALSE, pos |-> 0] /\ c.mark \in [set : BOOLEAN, pos : Nat]
  BY ONLY c = Reset(b), <1>1, ResetFacts
<1>3. ~c.mark.set
  BY <1>2
<1> QED BY <1>1, <1>2, <1>3 DEF Shape

\* gen_buf goes back to its beginning.
LEMMA RewindFacts ==
  ASSUME NEW g, Shape(g, "linear", "plain", 0, ExtLen), g.mem \in Seq(AnyByte), g.mark.pos = 0,
         g.mem = <<>> => ~g.mark.set, NEW c, c = Rewind(g, 0).b
  PROVE  Shape(c, "linear", "plain", 0, ExtLen) /\ c.mem = <<>> /\ ~c.mark.set /\ c.mark.pos = 0
<1>1. Len(g.mem) \in Nat /\ Skip(g) = 0 /\ Count(g) = Len(g.mem)
  BY DEF Shape, Skip, Count, Used
<1>2. CASE g.mem = <<>>
  <2>1. c = g
    BY <1>1, <1>2 DEF Rewind, Ok
  <2> QED BY <1>2, <2>1
<1>3. CASE g.mem /= <<>>
  <2>1. Count(g) /= 0 /\ ~(0 > Count(g))
    BY <1>1, <1>3, EmptySeq
  <2> DEFINE r == Released(g, 0)
  <2>2. c = [r EXCEPT !.mem = SubSeq(@, 1, 0 + Skip(g))]
    BY <2>1 DEF Rewind, Ok
  <2>3. /\ DOMAIN r = BufFields /\ r.type = g.type /\ r.mode = g.mode /\ r.init = g.init /\ r.step = g.step
        /\ r.limit = g.limit /\ r.alloc = g.alloc /\ r.mem = g.mem
        /\ r.mark \in [set : BOOLEAN, pos : Nat] /\ r.mark.pos = 0 /\ ~r.mark.set
    <3>1. CASE g.mark.set
      <4> DEFINE k == [set |-> FALSE, pos |-> 0]
      <4>1. r = [g EXCEPT !.mark = k]
        BY <3>1 DEF Released, Unmarked
      <4>2. k \in [set : BOOLEAN, pos : Nat] /\ k.pos = 0 /\ ~k.set
        OBVIOUS
      <4> HIDE DEF k, r
      <4>3. /\ DOMAIN r = BufFields /\ r.type = g.type /\ r.mode = g.mode /\ r.init = g.init /\ r.step = g.step
            /\ r.limit = g.limit /\ r.alloc = g.alloc /\ r.mem = g.mem /\ r.mark = k
        BY <4>1 DEF BufFields, Shape
      <4> QED BY <4>2, <4>3
    <3>2. CASE ~g.mark.set
      <4>1. r = g
        BY <3>2 DEF Released
      <4> HIDE DEF r
      <4> QED BY <3>2, <4>1 DEF Shape
    <3> QED BY <3>1, <3>2
  <2> HIDE DEF r
  <2>4. SubSeq(g.mem, 1, 0 + Skip(g)) = <<>>
    BY <1>1
  <2>5. /\ DOMAIN c = BufFields /\ c.type = r.type /\ c.mode = r.mode /\ c.init = r.init /\ c.step = r.step
        /\ c.limit = r.limit /\ c.alloc = r.alloc /\ c.mem = <<>> /\ c.mark = r.mark
    BY <2>2, <2>3, <2>4 DEF BufFields
  <2> QED BY <2>3, <2>5 DEF Shape
<1> QED BY <1>2, <1>3

\* The buffers after a message was sent.
LEMMA FinishFacts ==
  ASSUME Types, Composing, Sending, phase \in {"write", "fd"}, Finish, UNCHANGED <<link, sent>>
  PROVE  /\ Composing' /\ Sending' /\ tx'.mem = <<>>
         /\ Prefixed => phase' = "idle"
         /\ ~Prefixed => phase' = "closed"
<1>0. link' = link /\ sent' = sent
  OBVIOUS
<1>1. /\ tx' = Reset(tx) /\ gen' = Rewind(gen, 0).b
      /\ (Prefixed => phase' = "idle") /\ (~Prefixed => phase' = "closed")
  BY DEF Finish, Prefixed
<1>2. Shape(tx, TxBuf(link).type, TxBuf(link).mode, TxBuf(link).init, 1)
  BY DEF Sending
<1>3. TxBuf(link).init \in Nat
  BY TxFacts DEF Types
<1>4. Shape(tx', TxBuf(link).type, TxBuf(link).mode, TxBuf(link).init, 1) /\ tx'.mem = <<>> /\ ~tx'.mark.set
  BY ONLY <1>1, <1>2, <1>3, ResetShape
<1>5. /\ Shape(gen, "linear", "plain", 0, ExtLen) /\ gen.mem \in Seq(AnyByte) /\ gen.mark.pos = 0
      /\ gen.mem = <<>> => ~gen.mark.set
  BY DEF Composing
<1>6. Shape(gen', "linear", "plain", 0, ExtLen) /\ gen'.mem = <<>> /\ ~gen'.mark.set /\ gen'.mark.pos = 0
  BY ONLY <1>1, <1>5, RewindFacts
<1>7. Composing'
  BY ONLY <1>6 DEF Composing, Shape
<1>8. phase' \in {"idle", "closed"}
  BY ONLY <1>1
<1>9. Sending'
  BY ONLY <1>0, <1>4, <1>8 DEF Sending
<1> QED BY <1>1, <1>4, <1>7, <1>9

\* The last byte of the buffer is out: the descriptor follows, or the next message.
LEMMA WriteAllDoneStep ==
  ASSUME IndInv, WriteAllDone
  PROVE  IndInv'
<1>0. Types /\ Composing /\ Sending /\ DeliveredExactly /\ EndIsTrue /\ (rphase /= "over" => Receiving /\ Underway)
  BY DEF IndInv
<1>1. /\ phase = "write" /\ Writable(tx, pos) = <<>>
      /\ (IF Last(sent).fd THEN phase' = "fd" /\ UNCHANGED <<gen, tx>> ELSE Finish)
      /\ UNCHANGED <<link, sent, pos, wire, rx, rphase, verdict, got>>
  BY DEF WriteAllDone
<1>2. /\ Newest \in 1..Len(sent) /\ Body(Newest) \in Nat /\ pos \in Nat /\ pos <= Body(Newest)
      /\ Len(Writable(tx, pos)) = Body(Newest) - pos
  BY ONLY <1>0, <1>1, WriteFacts
<1>3. pos = Body(Newest)
  <2>1. Len(Writable(tx, pos)) = 0
    BY <1>1
  <2> QED BY ONLY <1>2, <2>1
<1>4. Last(sent) = sent[Newest] /\ sent /= <<>>
  BY <1>2 DEF Last, Newest
<1>5. /\ (sent[Newest].fd => Prefixed /\ Size(Newest) = Body(Newest) + 1)
      /\ (~sent[Newest].fd => Size(Newest) = Body(Newest)) /\ Size(Newest) \in Nat
  BY <1>0, <1>2, MsgFacts
<1>6. /\ Prefix' = Prefix /\ Newest' = Newest /\ (\A i : Body(i)' = Body(i)) /\ Prefixed' = Prefixed
      /\ Header' = Header /\ (\A i, j : MsgByte(i, j)' = MsgByte(i, j))
  BY <1>1, Frame
<1>7. /\ Composing' /\ Sending'
      /\ \/ phase' = "fd" /\ sent[Newest].fd
         \/ phase' = "idle" /\ ~sent[Newest].fd
         \/ phase' = "closed" /\ ~Prefixed /\ ~sent[Newest].fd
  <2>1. CASE sent[Newest].fd
    <3>1. phase' = "fd" /\ gen' = gen /\ tx' = tx /\ link' = link /\ sent' = sent /\ pos' = pos
      BY <1>1, <1>4, <2>1
    <3>2. Composing'
      BY <1>0, <3>1 DEF Composing, Shape
    <3>3. /\ (link /= "reply" => LinearMsg(tx)) /\ (link = "reply" => VectorMsg(tx, pos))
          /\ Shape(tx, TxBuf(link).type, TxBuf(link).mode, TxBuf(link).init, 1) /\ ~tx.mark.set
      BY <1>0, <1>1 DEF Sending
    <3>4. LinearMsg(tx)' = LinearMsg(tx) /\ VectorMsg(tx, pos)' = VectorMsg(tx, pos)
      BY <3>1, <1>6 DEF LinearMsg, VectorMsg
    <3>5. Sending'
      BY ONLY <1>4, <1>6, <2>1, <3>1, <3>3, <3>4 DEF Sending
    <3> QED BY <2>1, <3>1, <3>2, <3>5
  <2>2. CASE ~sent[Newest].fd
    <3>1. Finish /\ UNCHANGED <<link, sent>> /\ phase \in {"write", "fd"}
      BY <1>1, <1>4, <2>2
    <3>2. Composing' /\ Sending' /\ (Prefixed => phase' = "idle") /\ (~Prefixed => phase' = "closed")
      BY ONLY <1>0, <3>1, FinishFacts
    <3> QED BY <2>2, <3>2
  <2> QED BY <2>1, <2>2
<1>8. ASSUME rphase' /= "over" PROVE Receiving' /\ Underway'
  <2>0. rphase /= "over" /\ Receiving /\ Underway
    BY <1>0, <1>1, <1>8
  <2>1. PICK off : Layout(off) /\ Stream(off)
    <3>1. ~CutOff
      BY <1>1 DEF CutOff
    <3> QED BY <2>0, <3>1 DEF Underway
  <2>2. Receiving'
    BY <1>1, <2>0, FrameReceiver
  <2>3. WrittenTo(off) = off[Newest] + pos
    BY <1>1, <1>4, <2>1 DEF Stream
  <2>4. /\ Newest \in Nat /\ (\A i \in 1..(Newest + 1) : off[i] \in Nat) /\ Len(wire) \in Nat /\ Taken(off) \in Nat
    BY <1>0, <2>0, <2>1, Bounds
  <2>5. off[Newest] \in Nat
    BY <1>2, <2>4
  <2> DEFINE W == Taken(off) + Len(wire')
  <2>6. W = off[Newest] + Body(Newest) /\ Len(wire') \in Nat
    <3>1. wire' = wire
      BY <1>1
    <3> QED BY ONLY <1>3, <2>3, <2>4, <3>1 DEF WrittenTo
  <2>7. W = Taken(off) + Len(wire')
    OBVIOUS
  <2> HIDE DEF W
  <2>8. /\ phase' = "write" => W = off[Newest] + pos'
        /\ phase' = "fd" => W = off[Newest] + Body(Newest)
        /\ phase' = "idle" => W = off[Newest] + Size(Newest)
        /\ phase' = "closed" =>
              /\ off[Newest] <= W /\ W <= off[Newest] + Size(Newest)
              /\ Prefixed /\ tx'.mem = <<>> => W = off[Newest] + Size(Newest)
    BY ONLY <1>2, <1>5, <1>7, <2>5, <2>6
  <2>9. \A k \in 1..Len(wire'), i \in 1..Newest : \A j \in 1..Size(i) :
           Taken(off) + k = off[i] + j => wire'[k] = MsgByte(i, j)
    BY <1>1, <2>1 DEF Stream
  <2>10. UNCHANGED <<link, sent, rx, got>>
    BY <1>1
  <2>11. Layout(off)' /\ Stream(off)'
    BY ONLY <1>4, <2>1, <2>6, <2>7, <2>8, <2>9, <2>10, SenderStream
  <2> QED BY <2>2, <2>11 DEF Underway
<1>9. Types'
  BY <1>0, <1>1, <1>6, <1>7 DEF Types
<1>10. DeliveredExactly' /\ EndIsTrue'
  <2>1. Len(sent) \in Nat
    BY <1>0 DEF Types
  <2> QED BY <1>0, <1>1, <1>4, <2>1, SenderHistory
<1> QED BY <1>7, <1>8, <1>9, <1>10 DEF IndInv

\* The descriptor goes with a byte of its own, behind the message.
LEMMA SendFdStep ==
  ASSUME IndInv, SendFd
  PROVE  IndInv'
<1>0. Types /\ Composing /\ Sending /\ DeliveredExactly /\ EndIsTrue /\ Receiving /\ Underway
  BY DEF IndInv, SendFd
<1>1. /\ phase = "fd" /\ rphase /= "over" /\ wire' = Append(wire, Byte("fd", 1, Len(sent))) /\ Finish
      /\ UNCHANGED <<link, sent, pos, rx, rphase, verdict, got>>
  BY DEF SendFd
<1>2. sent /= <<>> /\ sent[Newest].fd
  BY <1>0, <1>1 DEF Sending
<1>3. Newest \in 1..Len(sent) /\ Newest \in Nat
  <2>1. Len(sent) \in Nat /\ Len(sent) /= 0
    BY <1>0, <1>2, EmptySeq, LenProperties DEF Types
  <2> QED BY <2>1 DEF Newest
<1>4. Prefixed /\ Size(Newest) = Body(Newest) + 1 /\ Body(Newest) \in Nat /\ Size(Newest) \in Nat
  BY <1>0, <1>2, <1>3, MsgFacts
<1>5. /\ Prefix' = Prefix /\ Newest' = Newest /\ (\A i : Body(i)' = Body(i)) /\ Prefixed' = Prefixed /\ Header' = Header
  BY <1>1, Frame
<1>6. Composing' /\ Sending' /\ phase' = "idle"
  <2>1. UNCHANGED <<link, sent>> /\ phase \in {"write", "fd"}
    BY <1>1
  <2> QED BY ONLY <1>0, <1>1, <1>4, <2>1, FinishFacts
<1>7. PICK off : Layout(off) /\ Stream(off)
  <2>1. ~CutOff
    BY <1>1 DEF CutOff
  <2> QED BY <1>0, <2>1 DEF Underway
<1>8. WrittenTo(off) = off[Newest] + Body(Newest)
  BY <1>1, <1>2, <1>7 DEF Stream
<1> DEFINE B == Body(Newest)
           y == Byte("fd", 1, Newest)
           s == <<y>>
<1>9. y = MsgByte(Newest, B + 1) /\ y \in AnyByte
  <2>1. B + 1 \in 1..Size(Newest) /\ B + 1 > B
    BY <1>4
  <2> HIDE DEF B
  <2> QED BY <1>0, <1>3, <2>1, MsgByteFacts DEF B
<1> HIDE DEF y
<1>10. s \in Seq(AnyByte) /\ Len(s) = 1 /\ s[1] = y
  BY <1>9
<1>11. wire' = wire \o s /\ wire \in Seq(AnyByte)
  <2>1. wire \in Seq(AnyByte)
    BY <1>0 DEF Types
  <2>2. wire' = Append(wire, y)
    BY <1>1 DEF y, Newest
  <2>3. Append(wire, y) = wire \o <<y>>
    BY ONLY <1>9, <2>1, AppendIsConcat
  <2> QED BY ONLY <2>1, <2>2, <2>3
<1> HIDE DEF s
<1>12. /\ wire' \in Seq(AnyByte) /\ Len(wire') = Len(wire) + 1
       /\ \A k \in 1..Len(wire'), i \in 1..Newest : \A j \in 1..Size(i) :
             Taken(off) + k = off[i] + j => wire'[k] = MsgByte(i, j)
  <2>1. B + Len(s) <= Size(Newest) /\ \A k \in 1..Len(s) : s[k] = MsgByte(Newest, B + k)
    BY <1>4, <1>9, <1>10
  <2>2. B \in Nat /\ WrittenTo(off) = off[Newest] + B
    BY <1>4, <1>8
  <2> HIDE DEF B
  <2>3. /\ wire' \in Seq(AnyByte) /\ Len(wire') = Len(wire) + Len(s)
        /\ \A k \in 1..Len(wire'), i \in 1..Newest : \A j \in 1..Size(i) :
              Taken(off) + k = off[i] + j => wire'[k] = MsgByte(i, j)
    BY ONLY <1>0, <1>2, <1>7, <1>10, <1>11, <2>1, <2>2, WireGrows
  <2> QED BY <1>10, <2>3
<1>13. Len(wire) \in Nat /\ Taken(off) \in Nat /\ off[Newest] \in Nat
  <2>1. (\A i \in 1..(Newest + 1) : off[i] \in Nat) /\ Len(wire) \in Nat /\ Taken(off) \in Nat
    BY <1>0, <1>7, Bounds
  <2> QED BY <1>3, <2>1
<1>14. Layout(off)' /\ Stream(off)'
  <2> DEFINE W == Taken(off) + Len(wire')
  <2>1. phase' = "idle" /\ W = off[Newest] + Size(Newest) /\ Len(wire') \in Nat
    <3>1. Len(wire') = Len(wire) + 1
      BY <1>12
    <3>2. Taken(off) + Len(wire) = off[Newest] + Body(Newest)
      BY ONLY <1>8 DEF WrittenTo
    <3> QED BY ONLY <1>4, <1>6, <1>13, <3>1, <3>2
  <2>3. W = Taken(off) + Len(wire')
    OBVIOUS
  <2> HIDE DEF W
  <2>2. UNCHANGED <<link, sent, rx, got>>
    BY <1>1
  <2> QED BY ONLY <1>2, <1>7, <1>12, <2>1, <2>2, <2>3, SenderStream
<1>15. Types'
  BY <1>0, <1>1, <1>5, <1>6, <1>12 DEF Types
<1>16. Receiving'
  BY <1>0, <1>1, FrameReceiver
<1>17. DeliveredExactly' /\ EndIsTrue'
  <2>1. Len(sent) \in Nat
    BY <1>0 DEF Types
  <2> QED BY <1>0, <1>1, <1>2, <2>1, SenderHistory
<1> QED BY <1>6, <1>14, <1>15, <1>16, <1>17 DEF IndInv, Underway

\* A sender that ends leaves what it wrote, which may be the beginning of a message.
LEMMA SenderEndsStep ==
  ASSUME IndInv, SenderEnds
  PROVE  IndInv'
<1>0. Types /\ Composing /\ Sending /\ DeliveredExactly /\ EndIsTrue /\ (rphase /= "over" => Receiving /\ Underway)
  BY DEF IndInv
<1>1. /\ phase /= "closed" /\ phase' = "closed"
      /\ UNCHANGED <<link, sent, gen, tx, pos, wire, rx, rphase, verdict, got>>
  BY DEF SenderEnds
<1>2. /\ Prefix' = Prefix /\ Newest' = Newest /\ (\A i : Body(i)' = Body(i)) /\ Prefixed' = Prefixed /\ Header' = Header
  BY <1>1, Frame
<1>3. Composing'
  BY <1>0, <1>1 DEF Composing, Shape
<1>4. Sending'
  BY <1>1 DEF Sending
<1>5. Types'
  BY <1>0, <1>1, <1>2 DEF Types
<1>6. DeliveredExactly' /\ EndIsTrue'
  <2>1. Len(sent) \in Nat
    BY <1>0 DEF Types
  <2>2. sent' = sent /\ sent' = <<>> => sent = <<>>
    BY <1>1
  <2>3. ~(sent = <<>> /\ sent' /= <<>>)
    BY <1>1
  <2> QED BY <1>0, <1>1, <2>1, <2>2, <2>3, SenderHistory
<1>7. ASSUME rphase' /= "over" PROVE Receiving' /\ Underway'
  <2>0. rphase /= "over" /\ Receiving /\ Underway
    BY <1>0, <1>1, <1>7
  <2>1. PICK off : Layout(off) /\ Stream(off)
    <3>1. ~CutOff
      BY <1>1 DEF CutOff
    <3> QED BY <2>0, <3>1 DEF Underway
  <2>2. Receiving'
    BY <1>1, <2>0, FrameReceiver
  <2>3. CASE sent = <<>>
    <3>1. Layout(off)'
      BY <1>1, <2>1, FrameLayout
    <3>2. Current' = Current /\ Taken(off)' = Taken(off) /\ WrittenTo(off)' = WrittenTo(off)
          /\ rx' = rx /\ wire' = wire /\ sent' = sent
      BY <1>1 DEF Current, Taken, WrittenTo
    <3>3. (\A i : Size(i)' = Size(i)) /\ (\A i, j : MsgByte(i, j)' = MsgByte(i, j))
      BY <1>1, Frame
    <3>4. Stream(off)'
      <4>1. Current' <= Newest' + 1
        BY <1>2, <2>1, <3>2 DEF Stream
      <4>2. \A k \in 1..Len(rx'.mem) : rx'.mem[k] = MsgByte(Current, k)'
        BY <2>1, <3>2, <3>3 DEF Stream
      <4>3. \A k \in 1..Len(wire'), i \in 1..Newest' : \A j \in 1..Size(i)' :
               Taken(off)' + k = off[i] + j => wire'[k] = MsgByte(i, j)'
        BY <1>2, <2>1, <3>2, <3>3 DEF Stream
      <4>4. WrittenTo(off)' = 0
        BY <2>1, <2>3, <3>2 DEF Stream
      <4> QED BY <2>3, <3>2, <4>1, <4>2, <4>3, <4>4 DEF Stream
    <3> QED BY <2>2, <3>1, <3>4 DEF Underway
  <2>4. CASE sent /= <<>>
    <3>1. Newest \in 1..Len(sent) /\ Newest \in Nat
      <4>1. Len(sent) \in Nat /\ Len(sent) /= 0
        BY <1>0, <2>4, EmptySeq, LenProperties DEF Types
      <4> QED BY <4>1 DEF Newest
    <3>2. Body(Newest) \in Nat /\ Size(Newest) \in Nat /\ Body(Newest) <= Size(Newest) /\ (Prefixed => Body(Newest) > PrefixLen)
      BY <1>0, <3>1, MsgFacts
    <3>3. /\ Newest \in Nat /\ (\A i \in 1..(Newest + 1) : off[i] \in Nat) /\ Len(wire) \in Nat /\ Taken(off) \in Nat
      BY <1>0, <2>0, <2>1, Bounds
    <3>4. off[Newest] \in Nat
      BY <3>1, <3>3
    <3>5. /\ phase = "write" => WrittenTo(off) = off[Newest] + pos /\ pos <= Body(Newest)
          /\ phase = "fd" => WrittenTo(off) = off[Newest] + Body(Newest)
          /\ phase = "idle" => WrittenTo(off) = off[Newest] + Size(Newest)
          /\ phase \in {"idle", "write", "fd"} /\ pos \in Nat
      BY <1>0, <1>1, <2>1, <2>4 DEF Stream, Sending, Types
    <3>6. Prefixed /\ phase \in {"write", "fd"} => tx.mem /= <<>>
      <4> SUFFICES ASSUME Prefixed, phase \in {"write", "fd"}, tx.mem = <<>> PROVE FALSE
        OBVIOUS
      <4>1. CASE link /= "reply"
        <5>1. Len(tx.mem) = Body(Newest)
          BY <1>0, <4>1 DEF Sending, LinearMsg
        <5> QED BY <3>2, <5>1, PrefixLenAssumption
      <4>2. CASE link = "reply"
        <5>1. VectorMsg(tx, pos)
          BY <1>0, <4>2 DEF Sending
        <5>2. PICK n : n = sent[Newest].len - HdrLen
          OBVIOUS
        <5>3. n \in Nat /\ Newest \in Nat /\ Vector(tx.mem, Newest, n)
          BY ONLY <1>0, <3>1, <4>2, <5>1, <5>2, VectorMsgParts
        <5>4. Len(tx.mem) \in {2, 4}
          BY ONLY <5>3, VectorOffsets
        <5> QED BY <5>4
      <4> QED BY <4>1, <4>2
    <3> DEFINE W == Taken(off) + Len(wire')
    <3>7. wire' = wire /\ tx' = tx /\ Len(wire') \in Nat /\ W = WrittenTo(off) /\ W \in Nat
      BY <1>1, <3>3 DEF WrittenTo
    <3>8. W = Taken(off) + Len(wire')
      OBVIOUS
    <3> HIDE DEF W
    <3>9. /\ phase' = "write" => W = off[Newest] + pos'
          /\ phase' = "fd" => W = off[Newest] + Body(Newest)
          /\ phase' = "idle" => W = off[Newest] + Size(Newest)
          /\ phase' = "closed" =>
                /\ off[Newest] <= W /\ W <= off[Newest] + Size(Newest)
                /\ Prefixed /\ tx'.mem = <<>> => W = off[Newest] + Size(Newest)
      <4>1. off[Newest] <= W /\ W <= off[Newest] + Size(Newest)
        BY ONLY <3>2, <3>4, <3>5, <3>7
      <4>2. Prefixed /\ tx'.mem = <<>> => W = off[Newest] + Size(Newest)
        BY ONLY <3>5, <3>6, <3>7
      <4> QED BY ONLY <1>1, <4>1, <4>2
    <3>10. \A k \in 1..Len(wire'), i \in 1..Newest : \A j \in 1..Size(i) :
             Taken(off) + k = off[i] + j => wire'[k] = MsgByte(i, j)
      BY <2>1, <3>7 DEF Stream
    <3>11. UNCHANGED <<link, sent, rx, got>>
      BY <1>1
    <3>12. Layout(off)' /\ Stream(off)'
      BY ONLY <2>1, <2>4, <3>7, <3>8, <3>9, <3>10, <3>11, SenderStream
    <3> QED BY <2>2, <3>12 DEF Underway
  <2> QED BY <2>3, <2>4
<1> QED BY <1>3, <1>4, <1>5, <1>6, <1>7 DEF IndInv

\* What a message is composed of.
Compositions(g, h, x, m, n) ==
    /\ g = IF link = "lane" /\ n > 0 THEN Composed(gen, m, n) ELSE gen
    /\ h = IF Header = 0 THEN tx ELSE Added(tx, DataBytes(m, 1, Header))
    /\ x = IF n = 0 THEN h
           ELSE IF link = "lane" THEN Added(h, DataFrom(g, Count(gen))) ELSE Parts(h, m, n)

\* The three ways to compose a message: by way of gen_buf, in parts, and without a prefix.
LEMMA ComposeFacts ==
  ASSUME Types, Composing, Sending, phase = "idle", NEW n \in Nat, NEW m \in Nat,
         NEW g, NEW h, NEW x, Compositions(g, h, x, m, n)
  PROVE  /\ Shape(g, "linear", "plain", 0, ExtLen) /\ g.mem \in Seq(AnyByte) /\ g.mark.pos = 0
         /\ g.mem = <<>> => ~g.mark.set
         /\ Shape(x, TxBuf(link).type, TxBuf(link).mode, TxBuf(link).init, 1) /\ ~x.mark.set
         /\ link /= "reply" => Holds(x.mem, IF Prefixed THEN "prefix" ELSE "plain", m, 0, Header + n)
         /\ link = "reply" => Reply(x.mem, m, n)
<1>a. g = IF link = "lane" /\ n > 0 THEN Composed(gen, m, n) ELSE gen
  BY DEF Compositions
<1>b. h = IF Header = 0 THEN tx ELSE Added(tx, DataBytes(m, 1, Header))
  BY DEF Compositions
<1>c. x = IF n = 0 THEN h
          ELSE IF link = "lane" THEN Added(h, DataFrom(g, Count(gen))) ELSE Parts(h, m, n)
  BY DEF Compositions
<1>0. Header \in Nat /\ (Prefixed => Header /= 0) /\ (~Prefixed => Header = 0) /\ link \in Links
      /\ (link = "reply" => Header = HdrLen)
  BY HeaderFacts DEF Types
<1>1. /\ Shape(gen, "linear", "plain", 0, ExtLen) /\ gen.mem \in Seq(AnyByte) /\ gen.mark.pos = 0
      /\ gen.mem = <<>> /\ ~gen.mark.set
  BY DEF Composing
<1>2. Shape(tx, TxBuf(link).type, TxBuf(link).mode, TxBuf(link).init, 1) /\ ~tx.mark.set /\ tx.mem = <<>>
  BY DEF Sending
<1>3. n = 0 \/ n > 0
  OBVIOUS
<1>4. /\ Shape(g, "linear", "plain", 0, ExtLen) /\ g.mem \in Seq(AnyByte) /\ g.mark.pos = 0
      /\ (g.mem = <<>> => ~g.mark.set)
      /\ (link = "lane" /\ n > 0 => DataFrom(g, Count(gen)) = DataBytes(m, Header + 1, Header + n))
  <2>1. CASE link = "lane" /\ n > 0
    <3>1. g = Composed(gen, m, n) /\ n \in Nat \ {0}
      BY <1>a, <2>1
    <3>2. PICK d : d = DataBytes(m, Header + 1, Header + n)
      OBVIOUS
    <3>3. /\ Shape(g, "linear", "plain", 0, ExtLen) /\ g.mark.set /\ g.mark.pos = 0
          /\ g.mem \in Seq(AnyByte) /\ g.mem /= <<>> /\ DataFrom(g, Count(gen)) = d
      BY ONLY m \in Nat, <1>0, <1>1, <3>1, <3>2, GenFacts
    <3> QED BY ONLY <3>2, <3>3
  <2>2. CASE ~(link = "lane" /\ n > 0)
    <3>1. g = gen
      BY <1>a, <2>2
    <3> QED BY ONLY <1>1, <2>2, <3>1
  <2> QED BY <2>1, <2>2
<1> DEFINE b == TxBuf(link)
<1>5. /\ b.type = (IF link = "reply" THEN "vector" ELSE "linear")
      /\ b.mode = (IF link = "external" THEN "plain" ELSE "prefix")
  BY <1>0, TxFacts
<1>6. CASE link /= "reply"
  <2> DEFINE mode == b.mode
  <2>1. b.type = "linear" /\ mode \in {"plain", "prefix"} /\ mode = IF Prefixed THEN "prefix" ELSE "plain"
    BY <1>5, <1>6 DEF Prefixed
  <2>2. Header /= 0 \/ mode = "plain"
    BY <1>0, <2>1
  <2>3. Shape(tx, "linear", mode, b.init, 1)
    BY <1>2, <2>1
  <2> HIDE DEF b, mode
  <2>4. /\ Shape(h, "linear", mode, b.init, 1) /\ ~h.mark.set /\ h.mem \in Seq(AnyByte)
        /\ Holds(Start(h), mode, m, 0, Header) /\ Holds(h.mem, mode, m, 0, Header)
    BY ONLY m \in Nat, <1>b, <1>0, <1>2, <2>1, <2>2, <2>3, HeadFacts
  <2>5. Shape(x, "linear", mode, b.init, 1) /\ ~x.mark.set /\ Holds(x.mem, mode, m, 0, Header + n)
    <3>1. CASE n = 0
      <4>1. x = h /\ Header + n = Header
        BY <1>0, <1>c, <3>1
      <4> QED BY ONLY <2>4, <4>1
    <3>2. CASE n > 0
      <4>1. x = Added(h, DataBytes(m, Header + 1, Header + n)) \/ x = Parts(h, m, n)
        <5>1. ~(n = 0)
          BY <3>2
        <5>2. x = IF link = "lane" THEN Added(h, DataFrom(g, Count(gen))) ELSE Parts(h, m, n)
          BY <1>c, <5>1
        <5> QED BY ONLY <1>4, <3>2, <5>2
      <4>2. n \in Nat \ {0}
        BY <3>2
      <4> QED BY ONLY m \in Nat, <1>0, <2>1, <2>4, <4>1, <4>2, BodyFacts
    <3> QED BY <1>3, <3>1, <3>2
  <2>6. Shape(x, TxBuf(link).type, TxBuf(link).mode, TxBuf(link).init, 1)
    BY <2>1, <2>5 DEF b, mode
  <2>7. Holds(x.mem, IF Prefixed THEN "prefix" ELSE "plain", m, 0, Header + n)
    BY ONLY <2>1, <2>5
  <2> QED BY ONLY <1>4, <1>6, <2>5, <2>6, <2>7
<1>7. CASE link = "reply"
  <2>1. b.type = "vector" /\ b.mode = "prefix" /\ Header = HdrLen /\ Header /= 0
    BY <1>0, <1>5, <1>7 DEF Prefixed
  <2>2. Shape(tx, "vector", "prefix", b.init, 1)
    BY <1>2, <2>1
  <2>3. h = Added(tx, DataBytes(m, 1, Header)) /\ x = IF n = 0 THEN h ELSE Parts(h, m, n)
    BY <1>b, <1>c, <1>7, <2>1
  <2> HIDE DEF b
  <2>4. Shape(x, "vector", "prefix", b.init, 1) /\ ~x.mark.set /\ Reply(x.mem, m, n)
    BY ONLY m \in Nat, n \in Nat, <1>2, <2>1, <2>2, <2>3, ReplyFacts
  <2>5. Shape(x, TxBuf(link).type, TxBuf(link).mode, TxBuf(link).init, 1)
    BY <2>1, <2>4 DEF b
  <2> QED BY ONLY <1>4, <1>7, <2>4, <2>5
<1> QED BY <1>6, <1>7

\* A composed message is at the end of the stream, none of its bytes written.
LEMMA ComposeStep ==
  ASSUME IndInv, NEW n \in Bodies, NEW fd \in BOOLEAN, Compose(n, fd)
  PROVE  IndInv'
<1>0. /\ Types /\ Composing /\ Sending /\ DeliveredExactly /\ EndIsTrue /\ (rphase /= "over" => Receiving /\ Underway)
      /\ n \in Nat
  BY LenAssumption DEF IndInv
<1> DEFINE N == Newest
<1>1. N = Len(sent) /\ N \in Nat /\ sent \in Seq([len : Nat, fd : BOOLEAN])
  BY <1>0 DEF Types, Newest
<1> PICK m : m = Len(sent) + 1
  OBVIOUS
<1> PICK g : g = IF link = "lane" /\ n > 0 THEN Composed(gen, m, n) ELSE gen
  OBVIOUS
<1> PICK h : h = IF Header = 0 THEN tx ELSE Added(tx, DataBytes(m, 1, Header))
  OBVIOUS
<1> PICK x : x = IF n = 0 THEN h
                 ELSE IF link = "lane" THEN Added(h, DataFrom(g, Count(gen))) ELSE Parts(h, m, n)
  OBVIOUS
<1> PICK r : r = [len |-> Header + n, fd |-> fd]
  OBVIOUS
<1>2. /\ phase = "idle" /\ Again /\ (fd => link \in {"lane", "reply"})
      /\ sent' = Append(sent, r) /\ gen' = g /\ tx' = x /\ pos' = 0 /\ phase' = "write"
      /\ UNCHANGED <<link, wire, rx, rphase, verdict, got>>
  BY DEF Compose, Added
<1>3. m \in Nat /\ m = N + 1
  BY <1>1
<1>4. Header \in Nat /\ Prefix \in Nat /\ (Prefixed => Prefix = PrefixLen /\ Header >= 1)
      /\ (~Prefixed => Prefix = 0) /\ (link = "reply" => Header = HdrLen)
  BY <1>0, HeaderFacts
<1>5. r \in [len : Nat, fd : BOOLEAN] /\ r.len = Header + n /\ r.fd = fd /\ r.len \in Nat /\ r.len >= Header
  BY <1>0, <1>4
<1>6. /\ sent' \in Seq([len : Nat, fd : BOOLEAN]) /\ Len(sent') = m /\ sent'[m] = r
      /\ \A i \in 1..N : sent'[i] = sent[i]
  <2> DEFINE S == [len : Nat, fd : BOOLEAN]
  <2>1. sent \in Seq(S) /\ r \in S
    BY <1>1, <1>5
  <2> HIDE DEF S
  <2>2. /\ sent' \in Seq(S) /\ Len(sent') = Len(sent) + 1 /\ sent'[Len(sent) + 1] = r
        /\ \A i \in 1..Len(sent) : sent'[i] = sent[i]
    BY ONLY <1>2, <2>1, AppendProperties
  <2> QED BY <1>1, <1>3, <2>2 DEF S
<1> HIDE DEF N
<1>7. /\ Shape(g, "linear", "plain", 0, ExtLen) /\ g.mem \in Seq(AnyByte) /\ g.mark.pos = 0
      /\ g.mem = <<>> => ~g.mark.set
      /\ Shape(x, TxBuf(link).type, TxBuf(link).mode, TxBuf(link).init, 1) /\ ~x.mark.set
      /\ link /= "reply" => Holds(x.mem, IF Prefixed THEN "prefix" ELSE "plain", m, 0, Header + n)
      /\ link = "reply" => Reply(x.mem, m, n)
  <2>1. Compositions(g, h, x, m, n)
    BY DEF Compositions
  <2>2. phase = "idle" /\ Types /\ Composing /\ Sending /\ n \in Nat /\ m \in Nat
    BY <1>0, <1>2, <1>3
  <2> QED BY ONLY <2>1, <2>2, ComposeFacts
<1>8. /\ Prefix' = Prefix /\ Prefixed' = Prefixed /\ Header' = Header /\ Newest' = m /\ link' = link
  BY <1>2, <1>6 DEF Prefix, Prefixed, Header, Newest
<1>9. \A i \in 1..N : Body(i)' = Body(i) /\ Size(i)' = Size(i) /\ \A j : MsgByte(i, j)' = MsgByte(i, j)
  <2> TAKE i \in 1..N
  <2>1. Body(i)' = Body(i)
    BY <1>6, <1>8 DEF Body
  <2>2. Size(i)' = Size(i)
    BY <1>6, <2>1 DEF Size
  <2>3. \A j : MsgByte(i, j)' = MsgByte(i, j)
    BY <1>8, <2>1 DEF MsgByte
  <2> QED BY <2>1, <2>2, <2>3
<1>10. Body(m)' = Prefix + (Header + n) /\ Body(m)' \in Nat /\ Size(m)' \in Nat /\ Size(m)' >= Body(m)'
  <2>1. Body(m)' = Prefix + r.len
    BY <1>6, <1>8 DEF Body
  <2>2. Size(m)' = Body(m)' + (IF r.fd THEN 1 ELSE 0)
    BY <1>6 DEF Size
  <2>3. CASE r.fd
    BY <1>0, <1>4, <1>5, <2>1, <2>2, <2>3
  <2>4. CASE ~r.fd
    BY <1>0, <1>4, <1>5, <2>1, <2>2, <2>4
  <2> QED BY <2>3, <2>4
<1>11. Types'
  <2>1. \A i \in 1..Len(sent') : sent'[i].len >= Header' /\ (sent'[i].fd => Prefixed')
    <3> TAKE i \in 1..Len(sent')
    <3>1. CASE i \in 1..N
      <4>1. i \in 1..Len(sent) /\ sent'[i] = sent[i]
        BY <1>1, <1>6, <3>1
      <4>2. sent[i].len >= Header /\ (sent[i].fd => Prefixed)
        BY <1>0, <4>1, MsgFacts
      <4> QED BY <1>8, <4>1, <4>2
    <3>2. CASE i = m
      <4>1. fd => Prefixed
        BY <1>2 DEF Prefixed
      <4> QED BY <1>5, <1>6, <1>8, <3>2, <4>1
    <3>3. i \in 1..N \/ i = m
      BY <1>1, <1>3, <1>6
    <3> QED BY <3>1, <3>2, <3>3
  <2>2. ~Prefixed => Len(sent') <= 1
    BY <1>1, <1>2, <1>3, <1>6 DEF Again, Prefixed
  <2> QED BY <1>0, <1>2, <1>6, <1>8, <2>1, <2>2 DEF Types
<1>12. Composing'
  BY ONLY <1>2, <1>7 DEF Composing
<1>13. Sending'
  <2>1. ASSUME link /= "reply" PROVE LinearMsg(tx)'
    <3> DEFINE mode == IF Prefixed THEN "prefix" ELSE "plain"
    <3>1. Holds(x.mem, mode, m, 0, Header + n)
      BY <1>7, <2>1
    <3>2. PrefixOf(mode) = Prefix
      BY <1>4 DEF PrefixOf
    <3> HIDE DEF mode
    <3>3. /\ x.mem \in Seq(AnyByte) /\ Len(x.mem) = Prefix + (Header + n)
          /\ \A k \in 1..(Header + n) : x.mem[Prefix + k] = Byte("data", 0 + k, m)
      BY ONLY <3>1, <3>2 DEF Holds
    <3>4. \A k \in (Prefix + 1)..Body(m)' : x.mem[k] = MsgByte(m, k)'
      <4> TAKE k \in (Prefix + 1)..Body(m)'
      <4>1. k - Prefix \in 1..(Header + n) /\ Prefix + (k - Prefix) = k /\ 0 + (k - Prefix) = k - Prefix
            /\ ~(k <= Prefix) /\ k <= Body(m)'
        BY <1>0, <1>4, <1>10
      <4>2. x.mem[k] = Byte("data", k - Prefix, m)
        BY ONLY <3>3, <4>1
      <4>3. MsgByte(m, k)' = Byte("data", k - Prefix, m)
        BY <1>8, <4>1 DEF MsgByte
      <4> QED BY <4>2, <4>3
    <3>5. Len(x.mem) = Body(m)' /\ x.mem \in Seq(AnyByte)
      BY ONLY <1>10, <3>3
    <3> QED BY <1>2, <1>8, <3>4, <3>5 DEF LinearMsg
  <2>2. ASSUME link = "reply" PROVE VectorMsg(tx, pos)'
    <3>1. Reply(x.mem, m, n) /\ Header = HdrLen
      BY <1>4, <1>7, <2>2
    <3>2. sent'[m].len - HdrLen = n
      BY <1>0, <1>4, <1>5, <1>6, <3>1
    <3>3. Len(SizeBytes(0)) = PrefixLen
      BY SizeFacts
    <3>4. x.mem \in Seq(Seq(AnyByte)) /\ x.mem[1] = SizeBytes(0)
      <4>1. n = 0 \/ n > 0
        BY <1>0
      <4> QED BY ONLY <3>1, <4>1 DEF Reply
    <3>5. x.mem = IF n = 0 THEN <<x.mem[1], DataBytes(m, 1, HdrLen)>>
                  ELSE <<x.mem[1], DataBytes(m, 1, HdrLen), DataBytes(m, HdrLen + 1, HdrLen + 1),
                         DataBytes(m, HdrLen + 2, HdrLen + n)>>
      <4>1. CASE n = 0
        BY ONLY <3>1, <3>4, <4>1 DEF Reply
      <4>2. CASE n > 0
        <5>1. ~(n = 0)
          BY <4>2
        <5> QED BY ONLY <3>1, <3>4, <4>2, <5>1 DEF Reply
      <4> QED BY <1>0, <4>1, <4>2
    <3>6. ~(pos' > 0)
      BY <1>2
    <3> QED BY ONLY <1>2, <1>8, <3>2, <3>3, <3>4, <3>5, <3>6 DEF VectorMsg
  <2>3. phase' = "write" /\ link' = link /\ sent' /= <<>> /\ pos' <= Body(Newest)'
    <3>1. sent' /= <<>>
      BY <1>1, <1>3, <1>6
    <3>2. pos' <= Body(Newest)'
      BY <1>2, <1>8, <1>10
    <3> QED BY <1>2, <3>1, <3>2
  <2>4. Shape(tx', TxBuf(link').type, TxBuf(link').mode, TxBuf(link').init, 1) /\ ~tx'.mark.set
    BY ONLY <1>2, <1>7, <2>3
  <2> QED BY ONLY <2>1, <2>2, <2>3, <2>4 DEF Sending
<1>14. DeliveredExactly' /\ EndIsTrue'
  <2>1. /\ \A i \in 1..Len(sent) : sent'[i] = sent[i]
        /\ Len(sent') \in Nat /\ Len(sent') >= Len(sent) /\ sent' /= <<>>
    BY <1>1, <1>3, <1>6
  <2>2. sent = <<>> => sent'[1].len \in Nat
    BY <1>1, <1>3, <1>5, <1>6
  <2>3. phase /= "closed" /\ UNCHANGED <<link, verdict, got>>
    BY <1>2
  <2> QED BY ONLY <1>0, <2>1, <2>2, <2>3, SenderHistory
<1>15. ASSUME rphase' /= "over" PROVE Receiving' /\ Underway'
  <2>0. rphase /= "over" /\ Receiving /\ Underway
    BY <1>0, <1>2, <1>15
  <2>1. PICK off : Layout(off) /\ Stream(off)
    <3>1. ~CutOff
      BY <1>2 DEF CutOff
    <3> QED BY <2>0, <3>1 DEF Underway
  <2>2. rx' = rx /\ rphase' = rphase /\ got' = got /\ wire' = wire /\ Current' = Current
    BY <1>2 DEF Current
  <2>3. /\ Current \in 1..(N + 1) /\ (\A i \in 1..(N + 1) : off[i] \in Nat)
        /\ Len(rx.mem) \in Nat /\ Len(wire) \in Nat /\ Taken(off) \in Nat /\ WrittenTo(off) \in Nat
        /\ (WrittenTo(off) > off[Current] => Current <= N)
    BY <1>0, <2>0, <2>1, Bounds DEF N
  <2>4. Len(rx.mem) > 0 => Current \in 1..N
    <3>1. off[Current] \in Nat /\ WrittenTo(off) = off[Current] + Len(rx.mem) + Len(wire)
      BY <2>3 DEF WrittenTo, Taken
    <3> QED BY <1>1, <2>3, <3>1
  <2>5. Receiving'
    <3>1. /\ Shape(rx, "linear", RxBuf(link).mode, RxBuf(link).init, RxBuf(link).step)
          /\ rx.mem \in Seq(AnyByte) /\ Len(rx.mem) <= rx.alloc
          /\ rphase = "read" => ~rx.mark.set
          /\ ~Prefixed => got = <<>> /\ rphase = "read"
          /\ Prefixed /\ Len(rx.mem) < PrefixLen => rx.alloc = PrefixLen + rx.init
          /\ Prefixed /\ Len(rx.mem) >= PrefixLen => Current <= N /\ rx.alloc = Body(Current)
          /\ Prefixed /\ rphase = "read" => Len(rx.mem) < rx.alloc
          /\ rphase = "fd" => Len(rx.mem) = Body(Current) /\ Current <= N /\ sent[Current].fd
      BY <2>0 DEF Receiving, N
    <3>2. Current <= N => Current \in 1..N /\ Current <= m
      BY <1>1, <1>3, <2>3
    <3>3. Current <= N => Body(Current)' = Body(Current) /\ sent'[Current] = sent[Current]
      BY <1>6, <1>9, <2>2, <3>2
    <3> QED BY ONLY <1>8, <2>2, <3>1, <3>2, <3>3 DEF Receiving
  <2>6. PICK off2 : off2 = [i \in 1..(m + 1) |-> IF i <= m THEN off[i] ELSE off[m] + Size(m)']
    OBVIOUS
  <2>7. /\ \A i \in 1..m : i \in 1..(m + 1) /\ off2[i] = off[i] /\ off[i] \in Nat
        /\ off2[m + 1] = off[m] + Size(m)' /\ off[m] \in Nat /\ m \in 1..m
    <3>1. m \in 1..(N + 1) /\ m \in 1..m /\ m + 1 \in 1..(m + 1) /\ ~(m + 1 <= m) /\ m = N + 1
      BY <1>1, <1>3
    <3>2. \A i \in 1..m : i \in 1..(m + 1) /\ i <= m /\ i \in 1..(N + 1)
      BY <1>1, <1>3
    <3> QED BY <2>3, <2>6, <3>1, <3>2
  <2>8. /\ off[1] = 0 /\ (\A i \in 1..N : off[i + 1] = off[i] + Size(i))
        /\ (\A i \in 1..N, j \in 1..(N + 1) : i < j => off[i] + Size(i) <= off[j])
    BY <2>1 DEF Layout, N
  <2>9. \A i \in 1..N : Size(i) \in Nat
    BY <1>0, <1>1, MsgFacts
  <2>10. Layout(off2)'
    <3>1. off2 \in [1..(m + 1) -> Nat]
      <4>1. \A i \in 1..(m + 1) : (IF i <= m THEN off[i] ELSE off[m] + Size(m)') \in Nat
        <5> TAKE i \in 1..(m + 1)
        <5>1. CASE i <= m
          <6>1. i \in 1..m
            BY <1>3, <5>1
          <6> QED BY <2>7, <5>1, <6>1
        <5>2. CASE ~(i <= m)
          BY <1>10, <2>7, <5>2
        <5> QED BY <5>1, <5>2
      <4> QED BY <2>6, <4>1
    <3>2. off2[1] = 0
      <4>1. 1 \in 1..m
        BY <1>1, <1>3
      <4> QED BY <2>7, <2>8, <4>1
    <3>3. \A i \in 1..m : off2[i + 1] = off2[i] + Size(i)'
      <4> TAKE i \in 1..m
      <4>1. CASE i \in 1..N
        <5>1. i \in 1..m /\ i + 1 \in 1..m
          BY <1>1, <1>3, <4>1
        <5> QED BY <1>9, <2>7, <2>8, <4>1, <5>1
      <4>2. CASE i = m
        BY <2>7, <4>2
      <4>3. i \in 1..N \/ i = m
        BY <1>1, <1>3
      <4> QED BY <4>1, <4>2, <4>3
    <3>4. \A i \in 1..m, j \in 1..(m + 1) : i < j => off2[i] + Size(i)' <= off2[j]
      <4> SUFFICES ASSUME NEW i \in 1..m, NEW j \in 1..(m + 1), i < j PROVE off2[i] + Size(i)' <= off2[j]
        OBVIOUS
      <4>0. off2[i] = off[i] /\ off[i] \in Nat
        BY <2>7
      <4>1. CASE j <= m
        <5>1. i \in 1..N /\ j \in 1..m /\ j \in 1..(N + 1)
          BY <1>1, <1>3, <4>1
        <5>2. off[i] + Size(i) <= off[j] /\ Size(i)' = Size(i) /\ off2[j] = off[j]
          BY <1>9, <2>7, <2>8, <5>1
        <5> QED BY <4>0, <5>2
      <4>2. CASE j = m + 1 /\ i \in 1..N
        <5>1. m \in 1..(N + 1) /\ i < m
          BY <1>1, <1>3, <4>2
        <5>2. off[i] + Size(i) <= off[m] /\ Size(i)' = Size(i) /\ Size(i) \in Nat
          BY <1>9, <2>8, <2>9, <4>2, <5>1
        <5>3. off2[j] = off[m] + Size(m)' /\ off[m] \in Nat
          BY <2>7, <4>2
        <5> QED BY ONLY <1>10, <4>0, <5>2, <5>3
      <4>3. CASE j = m + 1 /\ i = m
        <5>1. off2[j] = off[m] + Size(m)' /\ off2[i] = off[m] /\ off[m] \in Nat
          BY <2>7, <4>3
        <5> QED BY ONLY <1>10, <4>3, <5>1
      <4>4. j <= m \/ (j = m + 1 /\ i \in 1..N) \/ (j = m + 1 /\ i = m)
        BY <1>1, <1>3
      <4> QED BY <4>1, <4>2, <4>3, <4>4
    <3> QED BY ONLY <1>8, <3>1, <3>2, <3>3, <3>4 DEF Layout
  <2>11. off2[Current] = off[Current] /\ off2[m] = off[m]
    <3>1. Current \in 1..m
      BY <1>3, <2>3
    <3> QED BY <2>7, <3>1
  <2>12. Taken(off2)' = Taken(off) /\ WrittenTo(off2)' = WrittenTo(off)
    BY <2>2, <2>11 DEF Taken, WrittenTo
  <2>13. WrittenTo(off) = off[m]
    <3>1. CASE sent = <<>>
      <4>1. N = 0 /\ m = 1
        BY <1>1, <1>3, <3>1
      <4>2. WrittenTo(off) = 0
        BY <2>1, <3>1 DEF Stream
      <4> QED BY <2>8, <4>1, <4>2
    <3>2. CASE sent /= <<>>
      <4>1. N \in 1..N
        BY <1>1, <3>2, EmptySeq
      <4>2. WrittenTo(off) = off[N] + Size(N)
        BY <1>2, <2>1, <3>2 DEF Stream, N
      <4> QED BY <1>3, <2>8, <4>1, <4>2
    <3> QED BY <3>1, <3>2
  <2>14. Stream(off2)'
    <3>1. Current' <= Newest' + 1
      BY <1>1, <1>3, <1>8, <2>2, <2>3
    <3>2. \A k \in 1..Len(rx'.mem) : rx'.mem[k] = MsgByte(Current, k)'
      <4>1. \A k \in 1..Len(rx.mem) : rx.mem[k] = MsgByte(Current, k)
        BY <2>1 DEF Stream
      <4>2. \A k \in 1..Len(rx.mem) : Current \in 1..N
        BY <2>3, <2>4
      <4>3. \A k \in 1..Len(rx.mem) : MsgByte(Current, k)' = MsgByte(Current, k)
        BY <1>9, <2>2, <4>2
      <4> QED BY <2>2, <4>1, <4>3
    <3>3. \A k \in 1..Len(wire'), i \in 1..Newest' : \A j \in 1..Size(i)' :
             Taken(off2)' + k = off2[i] + j => wire'[k] = MsgByte(i, j)'
      <4> SUFFICES ASSUME NEW k \in 1..Len(wire), NEW i \in 1..m, NEW j \in 1..Size(i)', Taken(off) + k = off2[i] + j
                   PROVE  wire[k] = MsgByte(i, j)'
        BY <1>8, <2>2, <2>12
      <4>1. CASE i \in 1..N
        <5>1. off2[i] = off[i] /\ Size(i)' = Size(i) /\ MsgByte(i, j)' = MsgByte(i, j)
          BY <1>9, <2>7, <4>1
        <5>2. \A k1 \in 1..Len(wire), i1 \in 1..N : \A j1 \in 1..Size(i1) :
                 Taken(off) + k1 = off[i1] + j1 => wire[k1] = MsgByte(i1, j1)
          BY <2>1 DEF Stream, N
        <5> QED BY <4>1, <5>1, <5>2
      <4>2. CASE i = m
        <5>1. Taken(off) + Len(wire) = off[m] /\ off2[i] = off[m]
          BY <2>11, <2>13, <4>2 DEF WrittenTo
        <5>2. off[m] \in Nat /\ Len(wire) \in Nat /\ Taken(off) \in Nat /\ j \in Nat /\ j >= 1
          BY <1>10, <2>3, <2>7, <4>2
        <5> QED BY ONLY k \in 1..Len(wire), Taken(off) + k = off2[i] + j, <5>1, <5>2
      <4>3. i \in 1..N \/ i = m
        BY <1>1, <1>3
      <4> QED BY <4>1, <4>2, <4>3
    <3>4. sent' /= <<>> /\ phase' = "write" /\ WrittenTo(off2)' = off2[Newest'] + pos'
      <4>1. sent' /= <<>>
        BY <1>1, <1>3, <1>6
      <4>2. WrittenTo(off2)' = off2[m] + 0
        BY <2>7, <2>11, <2>12, <2>13
      <4> QED BY <1>2, <1>8, <4>1, <4>2
    <3> QED BY ONLY <3>1, <3>2, <3>3, <3>4 DEF Stream
  <2> QED BY <2>5, <2>10, <2>14 DEF Underway
<1> QED BY <1>11, <1>12, <1>13, <1>14, <1>15 DEF IndInv

(***************************************************************************)
(* The receiver.                                                           *)
(***************************************************************************)

\* What the receiver takes next belongs to its message.
LEMMA NextBytes ==
  ASSUME NEW off, Stream(off), NEW c, c = Current, c \in 1..Newest, Size(c) \in Nat, off[c] \in Nat,
         Len(rx.mem) \in Nat, NEW n \in Nat, n <= Len(wire), Len(wire) \in Nat, Len(rx.mem) + n <= Size(c)
  PROVE  \A k \in 1..n : wire[k] = MsgByte(c, Len(rx.mem) + k)
<1> PICK L : L = Len(rx.mem)
  OBVIOUS
<1>1. \A k \in 1..Len(wire), i \in 1..Newest : \A j \in 1..Size(i) :
         Taken(off) + k = off[i] + j => wire[k] = MsgByte(i, j)
  BY DEF Stream
<1>2. Taken(off) = off[c] + L
  BY DEF Taken
<1> TAKE k \in 1..n
<1>3. k \in 1..Len(wire) /\ L + k \in 1..Size(c) /\ Taken(off) + k = off[c] + (L + k)
  <2>1. k \in Nat /\ k >= 1 /\ k <= n /\ L \in Nat /\ L + n <= Size(c)
    OBVIOUS
  <2> QED BY ONLY <2>1, <1>2, off[c] \in Nat, Size(c) \in Nat, n \in Nat, n <= Len(wire), Len(wire) \in Nat
<1>4. wire[k] = MsgByte(c, L + k)
  BY ONLY <1>1, <1>3, c \in 1..Newest
<1> QED BY <1>4

\* A step of the receiver that takes n bytes.
LEMMA ReceiverStream ==
  ASSUME UNCHANGED <<link, sent, phase, gen, tx, pos>>, NEW off, Layout(off), Stream(off),
         wire \in Seq(AnyByte), NEW n \in Nat, n <= Len(wire), wire' = SubSeq(wire, n + 1, Len(wire)),
         Taken(off) \in Nat, Taken(off)' = Taken(off) + n, Current' <= Newest + 1,
         NEW c, c = Current', \A k \in 1..Len(rx'.mem) : rx'.mem[k] = MsgByte(c, k)
  PROVE  Layout(off)' /\ Stream(off)' /\ wire' \in Seq(AnyByte) /\ Len(wire') = Len(wire) - n
<1>0. link' = link /\ sent' = sent /\ phase' = phase /\ tx' = tx /\ pos' = pos
  OBVIOUS
<1>1. /\ Prefixed' = Prefixed /\ Newest' = Newest /\ (\A i : Body(i)' = Body(i) /\ Size(i)' = Size(i))
      /\ (\A i, j : MsgByte(i, j)' = MsgByte(i, j))
  BY Frame
<1>2. Layout(off)'
  BY FrameLayout
<1>3. Len(wire) \in Nat
  OBVIOUS
<1>4. /\ wire' \in Seq(AnyByte) /\ Len(wire') = Len(wire) - n
      /\ \A k \in 1..(Len(wire) - n) : wire'[k] = wire[n + k]
  <2> DEFINE W == Len(wire)
             a == n + 1
  <2>1. W \in Nat /\ a \in Nat /\ a >= 1 /\ W >= a - 1 /\ W <= Len(wire) /\ W - a + 1 = W - n
        /\ \A k \in 1..(W - n) : a + k - 1 = n + k
    BY <1>3
  <2>2. wire' = SubSeq(wire, a, W)
    OBVIOUS
  <2> HIDE DEF W, a
  <2>3. /\ SubSeq(wire, a, W) \in Seq(AnyByte) /\ Len(SubSeq(wire, a, W)) = W - a + 1
        /\ \A k \in 1..(W - a + 1) : SubSeq(wire, a, W)[k] = wire[a + k - 1]
    BY ONLY wire \in Seq(AnyByte), <2>1, SubAt
  <2> QED BY ONLY <2>1, <2>2, <2>3 DEF W
<1>5. WrittenTo(off)' = WrittenTo(off)
  <2>1. WrittenTo(off)' = Taken(off)' + Len(wire')
    BY DEF WrittenTo
  <2>2. WrittenTo(off) = Taken(off) + Len(wire)
    BY DEF WrittenTo
  <2> QED BY ONLY Taken(off) \in Nat, n \in Nat, Taken(off)' = Taken(off) + n, <1>3, <1>4, <2>1, <2>2
<1>6. Stream(off)'
  <2>1. Current' <= Newest' + 1
    BY <1>1
  <2>2. \A k \in 1..Len(rx'.mem) : rx'.mem[k] = MsgByte(Current, k)'
    BY <1>1 DEF MsgByte
  <2>3. ASSUME NEW k \in 1..Len(wire'), NEW i \in 1..Newest', NEW j \in 1..Size(i)',
               Taken(off)' + k = off[i] + j
        PROVE  wire'[k] = MsgByte(i, j)'
    <3>1. k \in 1..(Len(wire) - n) /\ n + k \in 1..Len(wire)
      BY ONLY k \in 1..Len(wire'), n \in Nat, <1>3, <1>4
    <3>2. i \in 1..Newest /\ j \in 1..Size(i)
      BY <1>1
    <3>3. Taken(off) + (n + k) = off[i] + j
      <4>1. k \in Nat /\ Taken(off) + (n + k) = Taken(off)' + k
        BY ONLY k \in 1..(Len(wire) - n), <1>3, Taken(off) \in Nat, n \in Nat, Taken(off)' = Taken(off) + n, <3>1
      <4> QED BY <2>3, <4>1
    <3>4. \A k1 \in 1..Len(wire), i1 \in 1..Newest : \A j1 \in 1..Size(i1) :
             Taken(off) + k1 = off[i1] + j1 => wire[k1] = MsgByte(i1, j1)
      BY DEF Stream
    <3>5. wire[n + k] = MsgByte(i, j)
      BY ONLY <3>1, <3>2, <3>3, <3>4
    <3> QED BY ONLY <1>1, <1>4, <3>1, <3>5
  <2>4. /\ sent = <<>> => WrittenTo(off) = 0
        /\ sent /= <<>> =>
              /\ phase = "write" => WrittenTo(off) = off[Newest] + pos
              /\ phase = "fd" => WrittenTo(off) = off[Newest] + Body(Newest)
              /\ phase = "idle" => WrittenTo(off) = off[Newest] + Size(Newest)
              /\ phase = "closed" =>
                    /\ off[Newest] <= WrittenTo(off) /\ WrittenTo(off) <= off[Newest] + Size(Newest)
                    /\ Prefixed /\ tx.mem = <<>> => WrittenTo(off) = off[Newest] + Size(Newest)
    BY DEF Stream
  <2>5. Body(Newest)' = Body(Newest) /\ Size(Newest)' = Size(Newest)
    BY <1>0, <1>1 DEF Body, Size
  <2> QED BY ONLY <1>0, <1>1, <1>5, <2>1, <2>2, <2>3, <2>4, <2>5 DEF Stream
<1> QED BY <1>2, <1>4, <1>6

\* A receiving buffer never has room for more than its message.
LEMMA RoomFacts ==
  ASSUME Types, Receiving, Prefixed, NEW c, c = Current, c \in 1..Len(sent)
  PROVE  /\ rx.alloc \in Nat /\ rx.alloc <= Body(c) /\ rx.init \in Nat /\ PrefixLen + rx.init <= Body(c)
         /\ Body(c) \in Nat /\ Body(c) > PrefixLen /\ Len(rx.mem) \in Nat /\ Len(rx.mem) <= rx.alloc
         /\ PrefixLen \in Nat /\ PrefixLen >= 1
<1>1. link \in Links /\ PrefixLen \in Nat /\ PrefixLen >= 1
  BY PrefixLenAssumption DEF Types
<1>2. Body(c) \in Nat /\ Body(c) > PrefixLen /\ Body(c) = Prefix + sent[c].len /\ sent[c].len >= Header /\ sent[c].len \in Nat
  BY MsgFacts
<1>3. Header \in Nat /\ Prefix = PrefixLen /\ (link = "lane" => Header = CmdLen)
  BY HeaderFacts
<1>4. RxBuf(link).init = (IF link = "lane" THEN CmdLen ELSE 0) /\ RxBuf(link).init \in Nat
  BY <1>1, RxFacts DEF Prefixed
<1>5. /\ rx.init = RxBuf(link).init /\ rx.alloc \in Nat /\ rx.mem \in Seq(AnyByte) /\ Len(rx.mem) <= rx.alloc
      /\ Len(rx.mem) < PrefixLen => rx.alloc = PrefixLen + rx.init
      /\ Len(rx.mem) >= PrefixLen => rx.alloc = Body(Current)
  BY DEF Receiving, Shape
<1>6. Len(rx.mem) \in Nat
  BY <1>5
<1>7. PrefixLen + rx.init <= Body(c)
  <2>1. rx.init <= Header /\ rx.init \in Nat
    BY <1>3, <1>4, <1>5
  <2> QED BY ONLY <1>1, <1>2, <1>3, <2>1
<1>8. Len(rx.mem) < PrefixLen \/ Len(rx.mem) >= PrefixLen
  BY <1>1, <1>6
<1> QED BY <1>1, <1>2, <1>4, <1>5, <1>6, <1>7, <1>8

\* The size of the message, once the prefix is there.
LEMMA ExpectedFacts ==
  ASSUME Types, Prefixed, NEW c \in 1..Len(sent), NEW b, b.mem \in Seq(AnyByte), Len(b.mem) <= Body(c),
         \A k \in 1..Len(b.mem) : b.mem[k] = MsgByte(c, k)
  PROVE  Expected(b) = IF Len(b.mem) < PrefixLen THEN 0 ELSE Body(c)
<1> DEFINE L == Len(b.mem)
           B == Body(c)
<1>1. L \in Nat /\ PrefixLen \in Nat /\ PrefixLen >= 1 /\ Used(b) = L
  BY PrefixLenAssumption DEF Used
<1>2. CASE L < PrefixLen
  BY <1>1, <1>2 DEF Expected
<1>3. CASE ~(L < PrefixLen)
  <2>1. Body(c) \in Nat /\ Size(c) \in Nat /\ Body(c) <= Size(c) /\ Prefix = PrefixLen
    BY MsgFacts, HeaderFacts
  <2>2. \A k \in 1..PrefixLen : k \in 1..L /\ k \in 1..Size(c) /\ k <= Prefix
    BY <1>1, <1>3, <2>1
  <2>3. \A k \in 1..PrefixLen : b.mem[k] = Byte("size", k, B)
    BY <2>2, MsgByteFacts
  <2>4. 1 \in 1..PrefixLen
    BY <1>1
  <2> HIDE DEF L, B
  <2>5. b.mem[1].of = B
    <3>1. b.mem[1] = Byte("size", 1, B)
      BY ONLY <2>3, <2>4
    <3>2. \A m : Byte("size", 1, m).of = m
      BY DEF Byte
    <3> QED BY ONLY <3>1, <3>2
  <2> DEFINE s == SubSeq(b.mem, 1, PrefixLen)
             t == SizeBytes(B)
  <2>6. s \in Seq(AnyByte) /\ Len(s) = PrefixLen /\ \A k \in 1..PrefixLen : s[k] = b.mem[k]
    <3>1. 1 \in Nat /\ 1 >= 1 /\ PrefixLen >= 1 - 1 /\ PrefixLen <= Len(b.mem) /\ PrefixLen - 1 + 1 = PrefixLen
          /\ \A k \in 1..PrefixLen : 1 + k - 1 = k
      BY <1>1, <1>3 DEF L
    <3>2. s \in Seq(AnyByte) /\ Len(s) = PrefixLen - 1 + 1 /\ \A k \in 1..(PrefixLen - 1 + 1) : s[k] = b.mem[1 + k - 1]
      BY ONLY b.mem \in Seq(AnyByte), <1>1, <3>1, SubAt
    <3> HIDE DEF s
    <3> QED BY ONLY <3>1, <3>2
  <2>7. t \in Seq(AnyByte) /\ Len(t) = PrefixLen /\ \A k \in 1..PrefixLen : t[k] = Byte("size", k, B)
    BY <2>1, SizeFacts DEF B
  <2> HIDE DEF s, t
  <2>8. \A k \in 1..Len(s) : s[k] = t[k]
    BY ONLY <2>3, <2>6, <2>7
  <2>9. s = t
    BY ONLY <2>6, <2>7, <2>8, SeqEqual
  <2>10. SubSeq(b.mem, 1, PrefixLen) = SizeBytes(b.mem[1].of)
    BY <2>5, <2>9 DEF s, t
  <2>11. Expected(b) = B
    BY ONLY <1>1, <1>3, <2>5, <2>10 DEF Expected
  <2> QED BY <1>3, <2>11 DEF B, L
<1> QED BY <1>2, <1>3

\* The buffer b holds the first bytes of message c and has the room of rx.
Partial(b, c) ==
    /\ Shape(b, "linear", "prefix", rx.init, 1) /\ ~b.mark.set
    /\ b.mem \in Seq(AnyByte) /\ Len(b.mem) <= Body(c)
    /\ \A k \in 1..Len(b.mem) : b.mem[k] = MsgByte(c, k)
    /\ Len(b.mem) < PrefixLen => b.alloc = PrefixLen + rx.init
    /\ Len(b.mem) >= PrefixLen => b.alloc = Body(c)

\* A read of bytes that belong to the message.
LEMMA AfterReadFacts ==
  ASSUME Types, Receiving, Prefixed, rphase = "read", NEW c, c = Current, c \in 1..Len(sent),
         \A k \in 1..Len(rx.mem) : rx.mem[k] = MsgByte(c, k),
         NEW s \in Seq(AnyByte), Len(rx.mem) + Len(s) <= rx.alloc,
         \A k \in 1..Len(s) : s[k] = MsgByte(c, Len(rx.mem) + k),
         NEW a, a = AfterRead(rx, s)
  PROVE  a.r = "OK" /\ Partial(a.b, c) /\ Len(a.b.mem) = Len(rx.mem) + Len(s)
<1> DEFINE y == [rx EXCEPT !.mem = @ \o s]
           L == Len(rx.mem)
           n == Len(s)
           B == Body(c)
<1>1. /\ rx.alloc \in Nat /\ rx.alloc <= B /\ rx.init \in Nat /\ PrefixLen + rx.init <= B
      /\ B \in Nat /\ B > PrefixLen /\ L \in Nat /\ L <= rx.alloc /\ PrefixLen \in Nat /\ PrefixLen >= 1
  BY RoomFacts
<1>2. /\ Shape(rx, "linear", "prefix", rx.init, 1) /\ rx.mem \in Seq(AnyByte) /\ ~rx.mark.set
      /\ (L < PrefixLen => rx.alloc = PrefixLen + rx.init) /\ (L >= PrefixLen => rx.alloc = B)
  <2>1. RxBuf(link).mode = "prefix" /\ RxBuf(link).step = 1
    BY RxFacts DEF Types, Prefixed
  <2>2. /\ Shape(rx, "linear", RxBuf(link).mode, RxBuf(link).init, RxBuf(link).step)
        /\ rx.mem \in Seq(AnyByte) /\ ~rx.mark.set
        /\ (L < PrefixLen => rx.alloc = PrefixLen + rx.init) /\ (L >= PrefixLen => rx.alloc = B)
    BY DEF Receiving
  <2> QED BY <2>1, <2>2 DEF Shape
<1>3. n \in Nat
  OBVIOUS
<1>4. /\ DOMAIN y = BufFields /\ y.type = "linear" /\ y.mode = "prefix" /\ y.init = rx.init /\ y.step = 1
      /\ y.limit = 0 /\ y.alloc = rx.alloc /\ y.mem = rx.mem \o s /\ y.mark = rx.mark
      /\ rx.mode = "prefix" /\ rx.mark \in [set : BOOLEAN, pos : Nat]
  BY <1>2 DEF Shape, BufFields
<1>5. a = (IF Expected(y) = 0 THEN Ok(y)
           ELSE IF Expected(y) < PrefixLen THEN Err("EBADE", y)
           ELSE IF Used(rx) < PrefixLen THEN Grown(y, Expected(y))
           ELSE Ok(y))
  BY <1>4 DEF AfterRead, Grown
<1> HIDE DEF y
<1>6. /\ y.mem \in Seq(AnyByte) /\ Len(y.mem) = L + n
      /\ \A k \in 1..(L + n) : y.mem[k] = MsgByte(c, k)
  <2>1. /\ rx.mem \o s \in Seq(AnyByte) /\ Len(rx.mem \o s) = Len(rx.mem) + Len(s)
        /\ \A k \in 1..Len(rx.mem) : (rx.mem \o s)[k] = rx.mem[k]
        /\ \A k \in 1..Len(s) : (rx.mem \o s)[Len(rx.mem) + k] = s[k]
    BY ONLY <1>2, s \in Seq(AnyByte), ConcatAt
  <2>2. ASSUME NEW k \in 1..(L + n) PROVE y.mem[k] = MsgByte(c, k)
    <3>1. CASE k <= L
      <4>1. k \in 1..Len(rx.mem)
        BY <1>1, <1>3, <3>1
      <4> QED BY <1>4, <2>1, <4>1
    <3>2. CASE k > L
      <4> PICK q : q = k - L
        OBVIOUS
      <4>1. q \in 1..Len(s) /\ k = Len(rx.mem) + q
        BY <1>1, <1>3, <3>2
      <4> QED BY <1>4, <2>1, <4>1
    <3> QED BY <1>1, <1>3, <3>1, <3>2
  <2> QED BY <1>4, <2>1, <2>2
<1>7. L + n <= B /\ L + n <= rx.alloc
  BY <1>1, <1>3
<1>8. Expected(y) = IF L + n < PrefixLen THEN 0 ELSE B
  <2>1. Len(y.mem) <= Body(c) /\ \A k \in 1..Len(y.mem) : y.mem[k] = MsgByte(c, k)
    BY <1>6, <1>7
  <2> QED BY ONLY Types, Prefixed, c \in 1..Len(sent), <1>6, <2>1, ExpectedFacts
<1> HIDE DEF B, L, n
<1>9. /\ a.r = "OK" /\ DOMAIN a.b = BufFields /\ a.b.type = "linear" /\ a.b.mode = "prefix"
      /\ a.b.init = rx.init /\ a.b.step = 1 /\ a.b.limit = 0 /\ a.b.mark = rx.mark /\ a.b.mem = y.mem
      /\ a.b.alloc \in Nat
      /\ (L + n < PrefixLen => a.b.alloc = PrefixLen + rx.init)
      /\ (L + n >= PrefixLen => a.b.alloc = B)
  <2>1. CASE L + n < PrefixLen
    <3>1. a = Ok(y)
      BY <1>5, <1>8, <2>1
    <3>2. a.r = "OK" /\ a.b = y
      BY <3>1 DEF Ok
    <3>3. L < PrefixLen /\ ~(L + n >= PrefixLen)
      BY <1>1, <1>3, <2>1 DEF L, n
    <3> QED BY <1>1, <1>2, <1>4, <3>2, <3>3
  <2>2. CASE ~(L + n < PrefixLen) /\ L < PrefixLen
    <3>1. Expected(y) = B /\ ~(B = 0) /\ ~(B < PrefixLen) /\ Used(rx) < PrefixLen
      BY <1>1, <1>8, <2>2 DEF Used, L
    <3>2. a = Grown(y, B)
      BY <1>5, <3>1
    <3>3. /\ y.step \in Nat \ {0} /\ y.alloc \in Nat /\ Len(y.mem) \in Nat /\ B >= Len(y.mem)
          /\ SubSeq(y.mem, 1, Len(y.mem)) = y.mem
      <4>1. SubSeq(y.mem, 1, Len(y.mem)) = y.mem
        BY ONLY <1>6, SubSeqFull
      <4>2. Len(y.mem) \in Nat /\ B >= Len(y.mem)
        BY <1>1, <1>3, <1>6, <1>7
      <4>3. y.step \in Nat \ {0} /\ y.alloc \in Nat
        BY ONLY <1>1, <1>4
      <4> QED BY ONLY <4>1, <4>2, <4>3
    <3>4. /\ a.r = "OK" /\ DOMAIN a.b = BufFields
          /\ a.b.type = y.type /\ a.b.mode = y.mode /\ a.b.init = y.init /\ a.b.step = y.step
          /\ a.b.limit = 0 /\ a.b.mark = y.mark /\ a.b.mem = y.mem
          /\ a.b.alloc \in Nat /\ a.b.alloc >= B
          /\ y.alloc >= B => a.b = y
          /\ y.step = 1 /\ y.alloc < B => a.b.alloc = B
      <4>1. DOMAIN y = BufFields /\ y.limit = 0 /\ B \in Nat
        BY <1>1, <1>4
      <4> QED BY ONLY <3>2, <3>3, <4>1, ReallocFacts
    <3>5. a.b.alloc = B
      <4>1. CASE y.alloc >= B
        BY <1>1, <1>4, <3>4, <4>1
      <4>2. CASE y.alloc < B
        BY <1>4, <3>4, <4>2
      <4> QED BY <1>1, <1>4, <4>1, <4>2
    <3> QED BY <1>4, <2>2, <3>4, <3>5
  <2>3. CASE ~(L < PrefixLen)
    <3>1. ~(L + n < PrefixLen) /\ L >= PrefixLen
      BY <1>1, <1>3, <2>3
    <3>2. Expected(y) = B /\ ~(B = 0) /\ ~(B < PrefixLen) /\ ~(Used(rx) < PrefixLen)
      BY <1>1, <1>8, <2>3, <3>1 DEF Used, L
    <3>3. a = Ok(y)
      BY <1>5, <3>2
    <3>4. a.r = "OK" /\ a.b = y
      BY <3>3 DEF Ok
    <3> QED BY <1>1, <1>2, <1>4, <3>1, <3>4
  <2> QED BY <2>1, <2>2, <2>3
<1>10. Partial(a.b, c)
  <2>1. Shape(a.b, "linear", "prefix", rx.init, 1)
    BY <1>4, <1>9 DEF Shape
  <2>2. ~a.b.mark.set /\ a.b.mem \in Seq(AnyByte) /\ Len(a.b.mem) = L + n
        /\ \A k \in 1..Len(a.b.mem) : a.b.mem[k] = MsgByte(c, k)
    BY <1>2, <1>6, <1>9
  <2>3. Len(a.b.mem) <= Body(c)
    BY <1>7, <2>2 DEF B
  <2> QED BY ONLY <1>9, <2>1, <2>2, <2>3 DEF Partial, B
<1> QED BY <1>6, <1>9, <1>10 DEF L, n

\* The data of a whole message.
LEMMA WholeData ==
  ASSUME Types, Prefixed, NEW c \in 1..Len(sent), NEW b, b.type = "linear", b.mode = "prefix",
         b.mem \in Seq(AnyByte), Len(b.mem) = Body(c), \A k \in 1..Len(b.mem) : b.mem[k] = MsgByte(c, k)
  PROVE  /\ DataFrom(b, 0) = Data(c) /\ DataFrom(b, 0) \in Seq(AnyByte) /\ Count(b) = sent[c].len /\ Count(b) /= 0
         /\ (WantsFd(b) <=> sent[c].fd)
<1> DEFINE B == Body(c)
           n == sent[c].len
           lo == PrefixLen + 1
           s == SubSeq(b.mem, lo, B)
           t == DataBytes(c, 1, n)
<1>1. /\ B \in Nat /\ n \in Nat /\ B = PrefixLen + n /\ n >= 1 /\ PrefixLen \in Nat /\ PrefixLen >= 1
      /\ Prefix = PrefixLen /\ Size(c) \in Nat /\ B <= Size(c) /\ c \in Nat
  <2>1. B \in Nat /\ n \in Nat /\ B = Prefix + n /\ B > PrefixLen /\ Size(c) \in Nat /\ B <= Size(c)
    BY MsgFacts
  <2>2. Prefix = PrefixLen /\ PrefixLen \in Nat /\ PrefixLen >= 1
    BY HeaderFacts, PrefixLenAssumption
  <2>3. c \in Nat
    BY DEF Types
  <2> HIDE DEF B, n
  <2> QED BY <2>1, <2>2, <2>3
<1>2. Skip(b) = PrefixLen /\ Used(b) = B
  BY DEF Skip, PrefixUnits, Used
<1> HIDE DEF B, n
<1>3. DataFrom(b, 0) = s
  <2>1. PrefixLen + 0 + 1 = lo
    BY <1>1
  <2> QED BY <1>2, <2>1 DEF DataFrom
<1>4. Count(b) = n /\ n /= 0
  BY <1>1, <1>2 DEF Count
<1>5. s \in Seq(AnyByte) /\ Len(s) = n /\ \A k \in 1..n : s[k] = b.mem[PrefixLen + k]
  <2>1. /\ lo \in Nat /\ lo >= 1 /\ B >= lo - 1 /\ B <= Len(b.mem) /\ B - lo + 1 = n
        /\ \A k \in 1..n : lo + k - 1 = PrefixLen + k
    BY <1>1 DEF B
  <2> HIDE DEF lo
  <2>2. s \in Seq(AnyByte) /\ Len(s) = B - lo + 1 /\ \A k \in 1..(B - lo + 1) : s[k] = b.mem[lo + k - 1]
    BY ONLY b.mem \in Seq(AnyByte), <1>1, <2>1, SubAt
  <2> HIDE DEF s
  <2> QED BY ONLY <2>1, <2>2
<1>6. t \in Seq(AnyByte) /\ Len(t) = n /\ \A k \in 1..n : t[k] = Byte("data", k, c)
  <2>1. 1 \in Nat /\ 1 >= 1 /\ n >= 1 - 1 /\ n - 1 + 1 = n /\ \A k \in 1..n : 1 + k - 1 = k
    BY <1>1
  <2>2. t \in Seq(AnyByte) /\ Len(t) = n - 1 + 1 /\ \A k \in 1..(n - 1 + 1) : t[k] = Byte("data", 1 + k - 1, c)
    BY ONLY <1>1, <2>1, DataFacts
  <2> HIDE DEF t
  <2> QED BY ONLY <2>1, <2>2
<1> HIDE DEF s, t, lo
<1>7. \A k \in 1..n : s[k] = t[k]
  <2> TAKE k \in 1..n
  <2> PICK j : j = PrefixLen + k
    OBVIOUS
  <2>1. j \in 1..B /\ j \in 1..Size(c) /\ j > Prefix /\ j <= B /\ j - Prefix = k
    BY <1>1
  <2>2. b.mem[j] = MsgByte(c, j)
    BY <2>1 DEF B
  <2>3. MsgByte(c, j) = Byte("data", j - Prefix, c)
    BY <2>1, MsgByteFacts DEF B
  <2> QED BY <1>5, <1>6, <2>1, <2>2, <2>3
<1>8. s = t
  <2>1. Len(s) = Len(t) /\ \A k \in 1..Len(s) : s[k] = t[k]
    BY <1>5, <1>6, <1>7
  <2> QED BY ONLY <1>5, <1>6, <2>1, SeqEqual
<1>9. DataFrom(b, 0) = Data(c)
  BY <1>3, <1>8 DEF Data, t, n
<1>10. DataFrom(b, 0)[1].of = c
  <2>1. 1 \in 1..n
    BY <1>1
  <2>2. DataFrom(b, 0)[1] = Byte("data", 1, c)
    BY <1>3, <1>6, <1>8, <2>1
  <2>3. \A m : Byte("data", 1, m).of = m
    BY DEF Byte
  <2> QED BY ONLY <2>2, <2>3
<1>11. WantsFd(b) <=> sent[c].fd
  <2>1. c \in DOMAIN sent
    BY DEF Types
  <2> QED BY ONLY <1>10, <2>1 DEF WantsFd
<1> QED BY <1>3, <1>4, <1>5, <1>9, <1>11 DEF n

\* A complete message is marked and has no suffix.
LEMMA CompleteFacts ==
  ASSUME Types, Prefixed, NEW c \in 1..Len(sent), NEW b, Partial(b, c), Len(b.mem) = Body(c),
         NEW d, d = Complete(b)
  PROVE  /\ Shape(d, "linear", "prefix", rx.init, 1) /\ d.mem = b.mem /\ d.alloc = Body(c)
<1> PICK z : z = <<>>
  OBVIOUS
<1> PICK init : init = rx.init
  OBVIOUS
<1>1. Suffix = z /\ z \in Seq(AnyByte) /\ Len(z) = 0
  BY DEF Suffix, Prefixed
<1>2. /\ Shape(b, "linear", "prefix", init, 1) /\ ~b.mark.set /\ b.mem \in Seq(AnyByte)
      /\ b.type = "linear" /\ b.mode = "prefix" /\ (Len(b.mem) >= PrefixLen => b.alloc = Body(c))
  BY DEF Partial, Shape
<1>3. Body(c) \in Nat /\ Body(c) > PrefixLen /\ PrefixLen \in Nat /\ PrefixLen >= 1
  BY MsgFacts, PrefixLenAssumption
<1>4. b.alloc = Body(c) /\ b.mem /= <<>>
  <2>1. Len(b.mem) >= PrefixLen /\ Len(b.mem) /= 0
    BY <1>3
  <2> QED BY <1>2, <2>1
<1>5. Start(b) = b.mem
  BY <1>2, <1>4, StartFacts
<1> PICK e : e = Added(b, z)
  OBVIOUS
<1>6. /\ Shape(e, "linear", "prefix", init, 1) /\ e.mark = b.mark
      /\ e.mem = Start(b) \o z /\ (b.alloc >= Len(Start(b)) + Len(z) => e.alloc = b.alloc)
  <2>1. 1 \in Nat \ {0} /\ "prefix" \in {"plain", "prefix"} /\ e = Added(b, z)
    OBVIOUS
  <2>2. Shape(b, "linear", "prefix", init, 1) /\ ~b.mark.set /\ b.mem \in Seq(AnyByte) /\ z \in Seq(AnyByte)
    BY <1>1, <1>2
  <2>3. AddedTo(b, e, z, "prefix", init, 1)
    BY ONLY <2>1, <2>2, AddFacts
  <2> QED BY ONLY <2>3 DEF AddedTo
<1>7. e.mem = b.mem /\ e.alloc = Body(c)
  <2>1. b.mem \o z = b.mem
    BY <1>2, ConcatEmptySeq
  <2>2. b.alloc >= Len(Start(b)) + Len(z)
    BY <1>1, <1>3, <1>4, <1>5
  <2> QED BY <1>4, <1>5, <1>6, <2>1, <2>2
<1>8. d = GetDataFrom(e, 0).b
  BY <1>1 DEF Complete, Added
<1>9. Count(e) \in Nat
  <2>1. Used(e) = Body(c) /\ Skip(e) = PrefixLen
    BY <1>6, <1>7 DEF Used, Skip, PrefixUnits, Shape
  <2> QED BY <1>3, <2>1 DEF Count
<1>10. Shape(d, "linear", "prefix", init, 1) /\ d.mem = e.mem /\ d.alloc = e.alloc
  <2>1. Shape(e, "linear", "prefix", init, 1)
    BY <1>6
  <2> QED BY ONLY <1>8, <1>9, <2>1, MarkFacts
<1> QED BY <1>7, <1>10

\* The receiver takes message r: the callback has it, the buffer is reset.
LEMMA DeliverFacts ==
  ASSUME Types, DeliveredExactly, EndIsTrue, Prefixed, rphase /= "over", NEW c, c = Current, c \in 1..Len(sent),
         UNCHANGED <<link, sent, phase, gen, tx, pos>>,
         NEW r, r \in [data : Seq(AnyByte), fd : BOOLEAN], r.data = Data(c), r.fd => sent[c].fd,
         sent[c].fd /\ ~r.fd => c = Len(sent) /\ phase = "closed",
         got' = Append(got, r),
         rphase' = IF link = "reply" THEN "over" ELSE "read",
         verdict' = IF link = "reply" THEN "answered" ELSE verdict
  PROVE  /\ got' \in Seq([data : Seq(AnyByte), fd : BOOLEAN]) /\ Len(got') = Len(got) + 1 /\ Current' = c + 1
         /\ DeliveredExactly' /\ EndIsTrue' /\ c \in Nat
         /\ rphase' \in {"read", "over"} /\ verdict' \in {"none", "answered"}
         /\ (rphase' /= "over" => verdict' = "none" /\ rphase' = "read")
<1>0. link' = link /\ sent' = sent /\ phase' = phase /\ verdict = "none" /\ link /= "external"
  BY DEF Types, Prefixed
<1> DEFINE S == [data : Seq(AnyByte), fd : BOOLEAN]
<1>1. got \in Seq(S) /\ r \in S
  BY DEF Types
<1> HIDE DEF S
<1>2. /\ got' \in Seq(S) /\ Len(got') = Len(got) + 1 /\ got'[Len(got) + 1] = r
      /\ \A i \in 1..Len(got) : got'[i] = got[i]
  BY ONLY <1>1, got' = Append(got, r), AppendProperties
<1>3. Len(got) \in Nat /\ DOMAIN got = 1..Len(got) /\ DOMAIN got' = 1..Len(got') /\ c = Len(got) + 1
  BY <1>1, <1>2, LenProperties DEF Current
<1>4. Current' = c + 1
  BY <1>2, <1>3 DEF Current
<1>5. \A i : Data(i)' = Data(i)
  BY <1>0 DEF Data
<1>6. DeliveredExactly'
  <2> SUFFICES ASSUME NEW i \in DOMAIN got'
               PROVE  /\ i <= Len(sent) /\ got'[i].data = Data(i) /\ (got'[i].fd => sent[i].fd)
                      /\ (sent[i].fd /\ ~got'[i].fd => i = Len(sent) /\ phase = "closed")
    BY <1>0, <1>5 DEF DeliveredExactly
  <2>1. CASE i \in 1..Len(got)
    <3>1. got'[i] = got[i] /\ i \in DOMAIN got
      BY <1>2, <1>3, <2>1
    <3>2. /\ i <= Len(sent) /\ got[i].data = Data(i) /\ (got[i].fd => sent[i].fd)
          /\ (sent[i].fd /\ ~got[i].fd => i = Len(sent) /\ phase = "closed")
      BY <1>0, <3>1 DEF DeliveredExactly
    <3> QED BY <3>1, <3>2
  <2>2. CASE i = c
    <3>1. got'[i] = r
      BY <1>2, <1>3, <2>2
    <3>2. i <= Len(sent)
      <4>1. Len(sent) \in Nat
        BY DEF Types
      <4> QED BY <2>2, <4>1
    <3> QED BY <2>2, <3>1, <3>2
  <2>3. i \in 1..Len(got) \/ i = c
    BY <1>2, <1>3
  <2> QED BY <2>1, <2>2, <2>3
<1>7. verdict' \in {"none", "answered"} /\ (rphase' /= "over" => verdict' = "none" /\ rphase' = "read")
      /\ rphase' \in {"read", "over"}
  BY <1>0
<1>8. EndIsTrue'
  BY <1>7 DEF EndIsTrue
<1>9. c \in Nat
  BY <1>3
<1> QED BY <1>2, <1>4, <1>6, <1>7, <1>8, <1>9 DEF S

\* A buffer that has more of the message, or all of it.
LEMMA MoreReceiving ==
  ASSUME Types, Receiving, Prefixed, UNCHANGED <<link, sent, got>>, NEW c, c = Current, c \in 1..Len(sent),
         NEW b, rx' = b, Shape(b, "linear", "prefix", rx.init, 1), b.mem \in Seq(AnyByte), Len(b.mem) <= Body(c),
         Len(b.mem) < PrefixLen => b.alloc = PrefixLen + rx.init,
         Len(b.mem) >= PrefixLen => b.alloc = Body(c),
         \/ rphase' = "read" /\ ~b.mark.set /\ Len(b.mem) /= Body(c)
         \/ rphase' = "fd" /\ Len(b.mem) = Body(c) /\ sent[c].fd
  PROVE  Receiving'
<1>0. link' = link /\ sent' = sent /\ got' = got
  OBVIOUS
<1>1. Prefixed' = Prefixed /\ Newest' = Newest /\ (\A i : Body(i)' = Body(i)) /\ Current' = c
  BY <1>0, Frame DEF Current
<1>2. RxBuf(link).mode = "prefix" /\ RxBuf(link).step = 1 /\ RxBuf(link).init = rx.init
  <2>1. RxBuf(link).mode = "prefix" /\ RxBuf(link).step = 1
    BY RxFacts DEF Types, Prefixed
  <2>2. RxBuf(link).init = rx.init
    BY DEF Receiving, Shape
  <2> QED BY <2>1, <2>2
<1>3. /\ PrefixLen + rx.init <= Body(c) /\ Body(c) \in Nat /\ rx.init \in Nat /\ PrefixLen \in Nat
  BY ONLY Types, Receiving, Prefixed, c = Current, c \in 1..Len(sent), RoomFacts
<1>4. Shape(rx', "linear", RxBuf(link').mode, RxBuf(link').init, RxBuf(link').step)
  BY ONLY rx' = b, Shape(b, "linear", "prefix", rx.init, 1), <1>0, <1>2
<1>5. b.init = rx.init /\ Len(b.mem) \in Nat
  BY DEF Shape
<1>6. Len(b.mem) <= b.alloc /\ (Len(b.mem) /= Body(c) => Len(b.mem) < b.alloc)
  <2>1. CASE Len(b.mem) < PrefixLen
    BY <1>3, <1>5, <2>1
  <2>2. CASE Len(b.mem) >= PrefixLen
    BY <1>3, <1>5, <2>2
  <2> QED BY <1>3, <1>5, <2>1, <2>2
<1>7. c <= Newest
  BY DEF Newest, Types
<1>8. rphase' = "read" => ~b.mark.set /\ Len(b.mem) < b.alloc
  BY <1>6
<1>9. rphase' = "fd" => Len(b.mem) = Body(c) /\ sent[c].fd
  OBVIOUS
<1>10. Body(c)' = Body(c)
  BY <1>1
<1>11. Prefixed' /\ rx' = b /\ b.mem \in Seq(AnyByte) /\ c <= Newest'
       /\ (Len(b.mem) < PrefixLen => b.alloc = PrefixLen + b.init) /\ (Len(b.mem) >= PrefixLen => b.alloc = Body(c)')
  BY <1>1, <1>5, <1>7, <1>10
<1>12. Body(Current)' = Body(c)
  BY <1>0, <1>1, <1>10 DEF Body
<1> QED BY ONLY <1>0, <1>1, <1>4, <1>6, <1>8, <1>9, <1>11, <1>12, <1>10 DEF Receiving

\* An empty buffer for the next one.
LEMMA EmptyReceiving ==
  ASSUME Types, Receiving, Prefixed, UNCHANGED <<link, sent>>, rphase' = "read",
         NEW b, Shape(b, "linear", "prefix", rx.init, 1), rx' = Reset(b)
  PROVE  Receiving' /\ rx'.mem = <<>>
<1>0. link' = link /\ sent' = sent
  OBVIOUS
<1>1. Prefixed'
  BY <1>0 DEF Prefixed
<1> PICK init : init = rx.init
  OBVIOUS
<1>2. RxBuf(link).mode = "prefix" /\ RxBuf(link).step = 1 /\ RxBuf(link).init = init /\ init \in Nat
  <2>1. RxBuf(link).mode = "prefix" /\ RxBuf(link).step = 1 /\ RxBuf(link).init \in Nat
    BY RxFacts DEF Types, Prefixed
  <2>2. RxBuf(link).init = init
    BY DEF Receiving, Shape
  <2> QED BY <2>1, <2>2
<1> PICK e : e = Reset(b)
  OBVIOUS
<1>3. Shape(e, "linear", "prefix", init, 1) /\ e.mem = <<>> /\ ~e.mark.set /\ e.alloc = init + Skip(b)
  <2>1. Shape(b, "linear", "prefix", init, 1)
    OBVIOUS
  <2> QED BY ONLY <1>2, <2>1, e = Reset(b), ResetShape
<1>4. Skip(b) = PrefixLen /\ PrefixLen \in Nat /\ PrefixLen >= 1
  BY PrefixLenAssumption DEF Skip, PrefixUnits, Shape
<1>5. Len(e.mem) = 0 /\ e.mem \in Seq(AnyByte) /\ e.init = init
  BY <1>3 DEF Shape
<1>6. e.alloc = PrefixLen + e.init /\ Len(e.mem) < e.alloc /\ Len(e.mem) <= e.alloc /\ ~(Len(e.mem) >= PrefixLen)
  BY ONLY <1>2, <1>3, <1>4, <1>5
<1>7. Shape(rx', "linear", RxBuf(link').mode, RxBuf(link').init, RxBuf(link').step) /\ rx' = e
  BY <1>0, <1>2, <1>3
<1>8. rphase' = "read" /\ rphase' /= "fd"
  OBVIOUS
<1>9. Receiving'
  BY ONLY <1>1, <1>3, <1>5, <1>6, <1>7, <1>8 DEF Receiving
<1> QED BY <1>3, <1>7, <1>9

\* The receiver leaves the sender as it is.
LEMMA ReceiverTypes ==
  ASSUME Types, UNCHANGED <<link, sent, phase, gen, tx, pos>>, wire' \in Seq(AnyByte),
         got' \in Seq([data : Seq(AnyByte), fd : BOOLEAN]), rphase' \in {"read", "fd", "over"},
         verdict' \in {"none", "gone", "answered", "EOF", "EBADMSG", "EBADF"},
         rphase' /= "over" => verdict' = "none"
  PROVE  Types'
<1>1. link' = link /\ sent' = sent /\ phase' = phase /\ pos' = pos /\ Header' = Header /\ Prefixed' = Prefixed
  BY DEF Header, Prefixed
<1> QED BY <1>1 DEF Types

\* What a read of a message does.
LEMMA ReadFacts ==
  ASSUME IndInv, Read, Prefixed, NEW c, c = Current
  PROVE  \E n, off, b :
            /\ n \in 1..Len(wire)
            /\ Layout(off) /\ Stream(off) /\ wire' = SubSeq(wire, n + 1, Len(wire))
            /\ c \in 1..Len(sent) /\ Taken(off) \in Nat /\ off[c] \in Nat /\ Taken(off) = off[c] + Len(rx.mem)
            /\ Partial(b, c) /\ Len(b.mem) = Len(rx.mem) + n /\ Received(b)
<1>0. Types /\ Sending /\ Receiving /\ Underway
  BY DEF IndInv, Read
<1>1. PICK n \in 1..Len(wire) :
         /\ n <= Room(rx) /\ wire' = SubSeq(wire, n + 1, Len(wire))
         /\ \E a \in {AfterRead(rx, SubSeq(wire, 1, n))} : IF a.r = "OK" THEN Received(a.b) ELSE Fails(a.r)
  BY DEF Read
<1>2. rphase = "read"
  BY DEF Read
<1> PICK s : s = SubSeq(wire, 1, n)
  OBVIOUS
<1> PICK a : a = AfterRead(rx, s)
  OBVIOUS
<1>3. IF a.r = "OK" THEN Received(a.b) ELSE Fails(a.r)
  BY <1>1
<1>4. wire \in Seq(AnyByte) /\ Len(wire) \in Nat /\ n \in Nat /\ n >= 1 /\ n <= Len(wire)
  BY <1>0 DEF Types
<1>5. PICK off : Layout(off) /\ Stream(off)
  <2>1. ~CutOff
    BY <1>4 DEF CutOff
  <2> QED BY <1>0, <2>1 DEF Underway
<1>6. /\ Newest = Len(sent) /\ Newest \in Nat /\ Current \in 1..(Newest + 1)
      /\ (\A i \in 1..(Newest + 1) : off[i] \in Nat)
      /\ Len(rx.mem) \in Nat /\ Taken(off) \in Nat /\ (WrittenTo(off) > off[Current] => Current <= Newest)
  BY ONLY <1>0, <1>5, Bounds
<1>7. off[c] \in Nat /\ Taken(off) = off[c] + Len(rx.mem)
  BY <1>6 DEF Taken
<1>8. c \in 1..Len(sent) /\ c \in 1..Newest
  <2>1. WrittenTo(off) = off[c] + Len(rx.mem) + Len(wire)
    BY <1>7 DEF WrittenTo
  <2>2. WrittenTo(off) > off[c]
    BY ONLY <1>4, <1>6, <1>7, <2>1
  <2> QED BY <1>6, <2>2
<1>9. /\ rx.alloc \in Nat /\ rx.alloc <= Body(c) /\ Body(c) \in Nat /\ Len(rx.mem) <= rx.alloc
  BY ONLY <1>0, <1>8, Prefixed, c = Current, RoomFacts
<1>10. n <= rx.alloc - Len(rx.mem)
  <2>1. rx.mode = "prefix"
    <3>1. RxBuf(link).mode = "prefix"
      BY <1>0, RxFacts DEF Types, Prefixed
    <3> QED BY <1>0, <3>1 DEF Receiving, Shape
  <2>2. Room(rx) = rx.alloc - Len(rx.mem)
    BY <2>1 DEF Room, Used
  <2> QED BY <1>1, <2>2
<1>11. Size(c) \in Nat /\ Body(c) <= Size(c)
  BY <1>0, <1>8, MsgFacts
<1>12. Len(rx.mem) + n <= rx.alloc /\ Len(rx.mem) + n <= Size(c)
  BY ONLY <1>4, <1>6, <1>9, <1>10, <1>11
<1>13. \A k \in 1..n : wire[k] = MsgByte(c, Len(rx.mem) + k)
  BY ONLY c = Current, <1>4, <1>5, <1>6, <1>7, <1>8, <1>11, <1>12, NextBytes
<1>14. s \in Seq(AnyByte) /\ Len(s) = n /\ \A k \in 1..n : s[k] = wire[k]
  <2>1. 1 \in Nat /\ 1 >= 1 /\ n >= 1 - 1 /\ n - 1 + 1 = n /\ \A k \in 1..n : 1 + k - 1 = k
    BY <1>4
  <2>2. s \in Seq(AnyByte) /\ Len(s) = n - 1 + 1 /\ \A k \in 1..(n - 1 + 1) : s[k] = wire[1 + k - 1]
    BY ONLY s = SubSeq(wire, 1, n), <1>4, <2>1, SubAt
  <2> QED BY ONLY <2>1, <2>2
<1>15. \A k \in 1..Len(rx.mem) : rx.mem[k] = MsgByte(c, k)
  BY <1>5 DEF Stream
<1>16. a.r = "OK" /\ Partial(a.b, c) /\ Len(a.b.mem) = Len(rx.mem) + Len(s)
  <2>1. \A k \in 1..Len(s) : s[k] = MsgByte(c, Len(rx.mem) + k)
    BY ONLY <1>13, <1>14
  <2>2. Len(rx.mem) + Len(s) <= rx.alloc /\ s \in Seq(AnyByte)
    BY ONLY <1>12, <1>14
  <2>3. Types /\ Receiving
    BY <1>0
  <2> QED BY ONLY Prefixed, c = Current, a = AfterRead(rx, s), <1>2, <1>8, <1>15, <2>1, <2>2, <2>3, AfterReadFacts
<1>17. Received(a.b) /\ Len(a.b.mem) = Len(rx.mem) + n /\ wire' = SubSeq(wire, n + 1, Len(wire))
  BY <1>1, <1>3, <1>14, <1>16
<1> QED BY ONLY n \in 1..Len(wire), <1>5, <1>6, <1>7, <1>8, <1>16, <1>17

\* A read from a prefixed link, which completes the prefix, the message, or neither.
LEMMA ReadPrefixedStep ==
  ASSUME IndInv, Read, Prefixed
  PROVE  IndInv'
<1>0. Types /\ Composing /\ Sending /\ Receiving /\ Underway /\ DeliveredExactly /\ EndIsTrue
  BY DEF IndInv, Read
<1>1. rphase = "read" /\ UNCHANGED <<link, sent, phase, gen, tx, pos>>
  BY DEF Read
<1> PICK c : c = Current
  OBVIOUS
<1>2. PICK n, off, b :
            /\ n \in 1..Len(wire)
            /\ Layout(off) /\ Stream(off) /\ wire' = SubSeq(wire, n + 1, Len(wire))
            /\ c \in 1..Len(sent) /\ Taken(off) \in Nat /\ off[c] \in Nat /\ Taken(off) = off[c] + Len(rx.mem)
            /\ Partial(b, c) /\ Len(b.mem) = Len(rx.mem) + n /\ Received(b)
  BY ONLY IndInv, Read, Prefixed, c = Current, ReadFacts
<1>3. wire \in Seq(AnyByte) /\ Len(wire) \in Nat /\ n \in Nat /\ n >= 1 /\ n <= Len(wire)
      /\ rx.mem \in Seq(AnyByte) /\ Len(rx.mem) \in Nat
  <2>1. wire \in Seq(AnyByte) /\ rx.mem \in Seq(AnyByte)
    BY <1>0 DEF Types, Receiving
  <2>2. n \in 1..Len(wire)
    BY <1>2
  <2> QED BY ONLY <2>1, <2>2, LenProperties
<1>4. /\ Shape(b, "linear", "prefix", rx.init, 1) /\ ~b.mark.set
      /\ b.mem \in Seq(AnyByte) /\ Len(b.mem) <= Body(c)
      /\ \A k \in 1..Len(b.mem) : b.mem[k] = MsgByte(c, k)
      /\ Len(b.mem) < PrefixLen => b.alloc = PrefixLen + rx.init
      /\ Len(b.mem) >= PrefixLen => b.alloc = Body(c)
      /\ b.type = "linear" /\ b.mode = "prefix"
  BY <1>2 DEF Partial, Shape
<1>5. Composing' /\ Sending'
  BY <1>0, <1>1, FrameSender
<1>6. Newest = Len(sent) /\ Body(c) \in Nat /\ Size(c) \in Nat /\ Body(c) <= Size(c) /\ Body(c) > PrefixLen
      /\ PrefixLen \in Nat /\ PrefixLen >= 1
  BY <1>0, <1>2, MsgFacts, PrefixLenAssumption DEF Newest
<1>7. IsComplete(b) <=> Len(b.mem) = Body(c)
  <2>1. Expected(b) = IF Len(b.mem) < PrefixLen THEN 0 ELSE Body(c)
    BY ONLY Prefixed, <1>0, <1>2, <1>4, ExpectedFacts
  <2>2. Len(b.mem) \in Nat /\ b.mode /= "plain"
    BY <1>4
  <2> QED BY ONLY <1>6, <2>1, <2>2 DEF IsComplete, Used
<1>8. got \in Seq([data : Seq(AnyByte), fd : BOOLEAN]) /\ verdict = "none" /\ link /= "external" /\ Len(got) \in Nat
  BY <1>0, <1>1 DEF Types, Prefixed
<1>9. ASSUME NEW d, d.mem = b.mem, rx' = d, got' = got PROVE Layout(off)' /\ Stream(off)' /\ wire' \in Seq(AnyByte)
  <2>1. Current' = c /\ c \in Nat
    BY <1>2, <1>9 DEF Current
  <2>2. Taken(off)' = Taken(off) + n
    <3>1. Taken(off)' = off[c] + Len(b.mem)
      BY <1>9, <2>1 DEF Taken
    <3> QED BY ONLY <1>2, <1>3, <3>1
  <2>3. Current' <= Newest + 1
    BY <1>2, <1>6, <2>1 DEF Types
  <2>4. \A k \in 1..Len(rx'.mem) : rx'.mem[k] = MsgByte(c, k)
    BY <1>4, <1>9
  <2>5. c = Current'
    BY <2>1
  <2>6. wire \in Seq(AnyByte) /\ n \in Nat /\ n <= Len(wire) /\ wire' = SubSeq(wire, n + 1, Len(wire))
        /\ Layout(off) /\ Stream(off) /\ Taken(off) \in Nat
    BY <1>2, <1>3
  <2> QED BY ONLY <1>1, <2>2, <2>3, <2>4, <2>5, <2>6, ReceiverStream
<1>10. CASE ~IsComplete(b)
  <2>1. rx' = b /\ rphase' = "read" /\ verdict' = verdict /\ got' = got
    BY <1>1, <1>2, <1>10 DEF Received
  <2>2. Layout(off)' /\ Stream(off)' /\ wire' \in Seq(AnyByte)
    BY <1>9, <2>1
  <2>3. Receiving'
    <3>1. UNCHANGED <<link, sent, got>> /\ Len(b.mem) /= Body(c) /\ Types /\ Receiving
      BY <1>0, <1>1, <1>7, <1>10, <2>1
    <3> QED BY ONLY Prefixed, c = Current, <1>2, <1>4, <2>1, <3>1, MoreReceiving
  <2>4. Types'
    BY <1>0, <1>1, <1>8, <2>1, <2>2, ReceiverTypes
  <2>5. DeliveredExactly' /\ EndIsTrue'
    <3>1. link' = link /\ sent' = sent /\ phase' = phase /\ tx' = tx /\ Suffix' = Suffix /\ (\A i : Data(i)' = Data(i))
      BY <1>1, Frame
    <3>2. DeliveredExactly'
      BY <1>0, <2>1, <3>1 DEF DeliveredExactly
    <3>3. EndIsTrue'
      BY <1>8, <2>1 DEF EndIsTrue
    <3> QED BY <3>2, <3>3
  <2> QED BY <1>5, <2>2, <2>3, <2>4, <2>5 DEF IndInv, Underway
<1>11. CASE IsComplete(b)
  <2> PICK d : d = Complete(b)
    OBVIOUS
  <2>1. Len(b.mem) = Body(c)
    BY <1>7, <1>11
  <2>2. Shape(d, "linear", "prefix", rx.init, 1) /\ d.mem = b.mem /\ d.alloc = Body(c)
    BY ONLY Prefixed, d = Complete(b), <1>0, <1>2, <2>1, CompleteFacts
  <2>3. Count(b) /= 0
    BY ONLY Prefixed, <1>0, <1>2, <1>4, <2>1, WholeData
  <2>4. d.type = "linear" /\ d.mode = "prefix" /\ d.mem \in Seq(AnyByte) /\ Len(d.mem) = Body(c)
        /\ \A k \in 1..Len(d.mem) : d.mem[k] = MsgByte(c, k)
    BY <1>4, <2>1, <2>2 DEF Shape
  <2>5. DataFrom(d, 0) = Data(c) /\ DataFrom(d, 0) \in Seq(AnyByte) /\ (WantsFd(d) <=> sent[c].fd)
    BY ONLY Prefixed, <1>0, <1>2, <2>4, WholeData
  <2>6. IF WantsFd(d) THEN rx' = d /\ rphase' = "fd" /\ UNCHANGED <<verdict, got>> ELSE Deliver(d, FALSE)
    BY <1>2, <1>4, <1>11, <2>3 DEF Received
  <2>7. CASE sent[c].fd
    <3>1. rx' = d /\ rphase' = "fd" /\ verdict' = verdict /\ got' = got
      BY <2>5, <2>6, <2>7
    <3>2. Layout(off)' /\ Stream(off)' /\ wire' \in Seq(AnyByte)
      BY <1>9, <2>2, <3>1
    <3>3. Receiving'
      <4>1. UNCHANGED <<link, sent, got>> /\ Types /\ Receiving /\ c \in 1..Len(sent)
        BY <1>0, <1>1, <1>2, <3>1
      <4>2. Len(d.mem) <= Body(c) /\ ~(Len(d.mem) < PrefixLen) /\ d.mem \in Seq(AnyByte)
        BY <1>6, <2>4
      <4>3. rphase' = "fd" /\ Len(d.mem) = Body(c) /\ sent[c].fd
        BY <2>4, <2>7, <3>1
      <4> QED BY ONLY Prefixed, c = Current, <2>2, <3>1, <4>1, <4>2, <4>3, MoreReceiving
    <3>4. Types'
      BY <1>0, <1>1, <1>8, <3>1, <3>2, ReceiverTypes
    <3>5. DeliveredExactly' /\ EndIsTrue'
      <4>1. link' = link /\ sent' = sent /\ phase' = phase /\ tx' = tx /\ Suffix' = Suffix /\ (\A i : Data(i)' = Data(i))
        BY <1>1, Frame
      <4>2. DeliveredExactly'
        BY <1>0, <3>1, <4>1 DEF DeliveredExactly
      <4>3. EndIsTrue'
        BY <1>8, <3>1 DEF EndIsTrue
      <4> QED BY <4>2, <4>3
    <3> QED BY <1>5, <3>2, <3>3, <3>4, <3>5 DEF IndInv, Underway
  <2>8. CASE ~sent[c].fd
    <3> PICK r : r = [data |-> DataFrom(d, 0), fd |-> FALSE]
      OBVIOUS
    <3>1. /\ got' = Append(got, r) /\ rx' = Reset(d) /\ rphase' = (IF link = "reply" THEN "over" ELSE "read")
          /\ verdict' = (IF link = "reply" THEN "answered" ELSE verdict)
      BY <2>5, <2>6, <2>8 DEF Deliver
    <3>2. r \in [data : Seq(AnyByte), fd : BOOLEAN] /\ r.data = Data(c) /\ ~r.fd
      BY <2>5
    <3>3. /\ got' \in Seq([data : Seq(AnyByte), fd : BOOLEAN]) /\ Len(got') = Len(got) + 1 /\ Current' = c + 1
          /\ DeliveredExactly' /\ EndIsTrue' /\ c \in Nat
          /\ rphase' \in {"read", "over"} /\ verdict' \in {"none", "answered"}
          /\ (rphase' /= "over" => verdict' = "none" /\ rphase' = "read")
      <4>1. rphase /= "over" /\ c \in 1..Len(sent)
        BY <1>1, <1>2
      <4> QED BY ONLY Prefixed, c = Current, <1>0, <1>1, <2>8, <3>1, <3>2, <4>1, DeliverFacts
    <3>4. rx'.mem = <<>>
      <4>1. rx.init \in Nat
        BY ONLY Prefixed, c = Current, <1>0, <1>2, RoomFacts
      <4> PICK init : init = rx.init
        OBVIOUS
      <4>2. init \in Nat /\ Shape(d, "linear", "prefix", init, 1) /\ rx' = Reset(d)
        BY <2>2, <3>1, <4>1
      <4> QED BY ONLY <4>2, ResetShape
    <3>5. Layout(off)' /\ Stream(off)' /\ wire' \in Seq(AnyByte)
      <4>1. Size(c) = Body(c) /\ off[c + 1] = off[c] + Size(c)
        <5>1. Size(c) = Body(c)
          BY <1>0, <1>2, <2>8, MsgFacts
        <5>2. off[c + 1] = off[c] + Size(c)
          BY <1>2, <1>6 DEF Layout
        <5> QED BY <5>1, <5>2
      <4>2. Taken(off)' = Taken(off) + n
        <5>1. Taken(off)' = off[c + 1] + Len(rx'.mem)
          BY <3>3 DEF Taken
        <5>2. Len(rx'.mem) = 0
          BY <3>4
        <5>3. Taken(off) = off[c] + Len(rx.mem) /\ off[c] \in Nat /\ Body(c) = Len(rx.mem) + n
          BY <1>2, <2>1
        <5> QED BY ONLY <1>3, <1>6, <4>1, <5>1, <5>2, <5>3
      <4>3. Current' <= Newest + 1
        BY <1>0, <1>2, <1>6, <3>3 DEF Types
      <4> PICK c2 : c2 = Current'
        OBVIOUS
      <4>4. \A k \in 1..Len(rx'.mem) : rx'.mem[k] = MsgByte(c2, k)
        BY <3>4
      <4>5. wire \in Seq(AnyByte) /\ n \in Nat /\ n <= Len(wire) /\ wire' = SubSeq(wire, n + 1, Len(wire))
            /\ Layout(off) /\ Stream(off) /\ Taken(off) \in Nat
        BY <1>2, <1>3
      <4> QED BY ONLY c2 = Current', <1>1, <4>2, <4>3, <4>4, <4>5, ReceiverStream
    <3>6. rphase' /= "over" => Receiving'
      <4>1. UNCHANGED <<link, sent>> /\ Types /\ Receiving /\ rx' = Reset(d)
        BY <1>0, <1>1, <3>1
      <4> QED BY ONLY Prefixed, <2>2, <3>3, <4>1, EmptyReceiving
    <3>7. Types'
      BY <1>0, <1>1, <3>3, <3>5, ReceiverTypes
    <3> QED BY <1>5, <3>3, <3>5, <3>6, <3>7 DEF IndInv, Underway
  <2> QED BY <2>7, <2>8
<1> QED BY <1>10, <1>11

\* The receiving buffer of an external program's output.
LEMMA PlainRx ==
  ASSUME Types, Receiving, ~Prefixed
  PROVE  /\ Shape(rx, "linear", "plain", rx.init, rx.step) /\ rx.step \in Nat \ {0} /\ rx.mem \in Seq(AnyByte)
         /\ rx.mode = "plain" /\ rx.type = "linear" /\ Len(rx.mem) \in Nat /\ Len(rx.mem) <= rx.alloc /\ rx.alloc \in Nat
         /\ got = <<>> /\ rphase = "read" /\ ~rx.mark.set /\ Current = 1
<1>1. RxBuf(link).mode = "plain" /\ RxBuf(link).step \in Nat \ {0}
  BY RxFacts DEF Types, Prefixed
<1>2. /\ Shape(rx, "linear", RxBuf(link).mode, RxBuf(link).init, RxBuf(link).step)
      /\ rx.mem \in Seq(AnyByte) /\ Len(rx.mem) <= rx.alloc
      /\ got = <<>> /\ rphase = "read" /\ ~rx.mark.set
  BY DEF Receiving
<1>3. Current = 1
  BY <1>2 DEF Current
<1>4. Len(rx.mem) \in Nat
  BY <1>2
<1> QED BY <1>1, <1>2, <1>3, <1>4 DEF Shape

\* A read of what an external command prints.
LEMMA ReadPlainStep ==
  ASSUME IndInv, Read, ~Prefixed
  PROVE  IndInv'
<1>0. Types /\ Composing /\ Sending /\ Receiving /\ Underway /\ DeliveredExactly /\ EndIsTrue
  BY DEF IndInv, Read
<1>1. UNCHANGED <<link, sent, phase, gen, tx, pos>>
  BY DEF Read
<1>2. PICK n \in 1..Len(wire) :
         /\ n <= Room(rx) /\ wire' = SubSeq(wire, n + 1, Len(wire))
         /\ \E a \in {AfterRead(rx, SubSeq(wire, 1, n))} : IF a.r = "OK" THEN Received(a.b) ELSE Fails(a.r)
  BY DEF Read
<1> PICK s : s = SubSeq(wire, 1, n)
  OBVIOUS
<1> PICK a : a = AfterRead(rx, s)
  OBVIOUS
<1>3. IF a.r = "OK" THEN Received(a.b) ELSE Fails(a.r)
  BY <1>2
<1>4. /\ Shape(rx, "linear", "plain", rx.init, rx.step) /\ rx.step \in Nat \ {0} /\ rx.mem \in Seq(AnyByte)
      /\ rx.mode = "plain" /\ rx.type = "linear" /\ Len(rx.mem) \in Nat /\ Len(rx.mem) <= rx.alloc /\ rx.alloc \in Nat
      /\ got = <<>> /\ rphase = "read" /\ ~rx.mark.set /\ Current = 1
  BY ONLY <1>0, ~Prefixed, PlainRx
<1>5. wire \in Seq(AnyByte) /\ Len(wire) \in Nat /\ n \in Nat /\ n >= 1 /\ n <= Len(wire)
  BY <1>0 DEF Types
<1>6. PICK off : Layout(off) /\ Stream(off)
  <2>1. ~CutOff
    BY <1>5 DEF CutOff
  <2> QED BY <1>0, <2>1 DEF Underway
<1>7. /\ Newest = Len(sent) /\ Newest \in Nat
      /\ (\A i \in 1..(Newest + 1) : off[i] \in Nat)
      /\ Taken(off) \in Nat /\ WrittenTo(off) <= off[Newest + 1] /\ (WrittenTo(off) > off[Current] => Current <= Newest)
  BY ONLY <1>0, <1>6, Bounds
<1> DEFINE L == Len(rx.mem)
<1>8. off[1] \in Nat /\ Taken(off) = off[1] + L /\ WrittenTo(off) = off[1] + L + Len(wire)
  <2>1. off[1] \in Nat
    BY <1>7
  <2> QED BY <1>4, <2>1 DEF Taken, WrittenTo
<1>9. Newest = 1 /\ 1 \in 1..Len(sent)
  <2>1. 1 <= Newest
    BY ONLY <1>4, <1>5, <1>7, <1>8
  <2>2. Len(sent) <= 1
    BY <1>0 DEF Types
  <2> QED BY <1>7, <2>1, <2>2
<1>10. Size(1) \in Nat /\ off[2] = off[1] + Size(1)
  <2>1. Size(1) \in Nat
    BY <1>0, <1>9, MsgFacts
  <2>2. 1 \in 1..Newest /\ 1 + 1 = 2
    BY <1>9
  <2>3. off[1 + 1] = off[1] + Size(1)
    BY <1>6, <2>2 DEF Layout
  <2> QED BY <2>1, <2>2, <2>3
<1>11. L + n <= Size(1)
  <2>1. WrittenTo(off) <= off[2]
    <3>1. Newest + 1 = 2
      BY <1>9
    <3> QED BY <1>7, <3>1
  <2> QED BY ONLY <1>4, <1>5, <1>8, <1>10, <2>1
<1>12. \A k \in 1..n : wire[k] = MsgByte(1, L + k)
  <2>1. Stream(off) /\ 1 = Current /\ 1 \in 1..Newest
    BY <1>4, <1>6, <1>9
  <2> QED BY ONLY <1>4, <1>5, <1>8, <1>10, <1>11, <2>1, NextBytes
<1>13. s \in Seq(AnyByte) /\ Len(s) = n /\ \A k \in 1..n : s[k] = wire[k]
  <2>1. 1 \in Nat /\ 1 >= 1 /\ n >= 1 - 1 /\ n - 1 + 1 = n /\ \A k \in 1..n : 1 + k - 1 = k
    BY <1>5
  <2>2. s \in Seq(AnyByte) /\ Len(s) = n - 1 + 1 /\ \A k \in 1..(n - 1 + 1) : s[k] = wire[1 + k - 1]
    BY ONLY s = SubSeq(wire, 1, n), <1>5, <2>1, SubAt
  <2> QED BY ONLY <2>1, <2>2
<1> PICK f : f = IF Len(rx.mem) = rx.alloc THEN Grown(rx, rx.alloc + rx.step).b ELSE rx
  OBVIOUS
<1>14. /\ Shape(f, "linear", "plain", rx.init, rx.step) /\ f.mem = rx.mem /\ f.mark = rx.mark
       /\ n <= f.alloc - L
  <2>1. CASE L = rx.alloc
    <3> PICK g : g = Grown(rx, rx.alloc + rx.step)
      OBVIOUS
    <3> PICK needed : needed = rx.alloc + rx.step
      OBVIOUS
    <3>1. needed \in Nat /\ needed >= Len(rx.mem) /\ g = Grown(rx, needed)
      BY <1>4
    <3>2. SubSeq(rx.mem, 1, Len(rx.mem)) = rx.mem
      BY ONLY <1>4, SubSeqFull
    <3>3. DOMAIN rx = BufFields /\ rx.limit = 0 /\ rx.alloc \in Nat /\ rx.step \in Nat \ {0} /\ Len(rx.mem) \in Nat
      BY <1>4 DEF Shape
    <3>4. /\ DOMAIN g.b = BufFields
          /\ g.b.type = rx.type /\ g.b.mode = rx.mode /\ g.b.init = rx.init /\ g.b.step = rx.step
          /\ g.b.limit = 0 /\ g.b.mark = rx.mark /\ g.b.mem = rx.mem
          /\ g.b.alloc \in Nat
      BY ONLY <3>1, <3>2, <3>3, ReallocFacts
    <3>5. f = g.b
      BY <2>1
    <3>6. Room(rx) = g.b.alloc - L
      BY <1>4, <2>1 DEF Room, Used, Grown
    <3>7. Shape(f, "linear", "plain", rx.init, rx.step)
      BY <1>4, <3>4, <3>5 DEF Shape
    <3> QED BY <1>2, <3>4, <3>5, <3>6, <3>7
  <2>2. CASE L /= rx.alloc
    <3>1. f = rx /\ Room(rx) = rx.alloc - L
      BY <2>2 DEF Room, Used
    <3> QED BY <1>2, <1>4, <3>1
  <2> QED BY <2>1, <2>2
<1> DEFINE y == [f EXCEPT !.mem = @ \o s]
<1>15. a.r = "OK" /\ a.b = y
  <2>1. f = IF rx.mode = "plain" /\ Used(rx) = rx.alloc THEN Realloc(rx, rx.alloc + rx.step, FALSE).b ELSE rx
    BY <1>4 DEF Used, Grown
  <2>2. a = Ok(y)
    BY <1>4, <2>1 DEF AfterRead
  <2> HIDE DEF y
  <2> QED BY ONLY <2>2 DEF Ok
<1>16. /\ DOMAIN y = BufFields /\ y.type = "linear" /\ y.mode = "plain" /\ y.init = rx.init /\ y.step = rx.step
       /\ y.limit = 0 /\ y.alloc = f.alloc /\ y.mem = rx.mem \o s /\ y.mark = rx.mark /\ f.alloc \in Nat
       /\ rx.mark \in [set : BOOLEAN, pos : Nat]
  BY <1>4, <1>14 DEF Shape, BufFields
<1> HIDE DEF y
<1>17. rx' = y /\ rphase' = "read" /\ verdict' = verdict /\ got' = got
  BY <1>3, <1>4, <1>15, <1>16 DEF Received
<1>18. /\ y.mem \in Seq(AnyByte) /\ Len(y.mem) = L + n
       /\ \A k \in 1..Len(y.mem) : y.mem[k] = MsgByte(1, k)
  <2>1. /\ rx.mem \o s \in Seq(AnyByte) /\ Len(rx.mem \o s) = Len(rx.mem) + Len(s)
        /\ \A k \in 1..Len(rx.mem) : (rx.mem \o s)[k] = rx.mem[k]
        /\ \A k \in 1..Len(s) : (rx.mem \o s)[Len(rx.mem) + k] = s[k]
    <3>1. rx.mem \in Seq(AnyByte) /\ s \in Seq(AnyByte)
      BY <1>4, <1>13
    <3> QED BY ONLY <3>1, ConcatAt
  <2>0. \A k \in 1..Len(rx.mem) : rx.mem[k] = MsgByte(1, k)
    BY <1>4, <1>6 DEF Stream
  <2>2. ASSUME NEW k \in 1..(L + n) PROVE y.mem[k] = MsgByte(1, k)
    <3>1. CASE k <= L
      <4>1. k \in 1..Len(rx.mem)
        BY <1>4, <1>5, <3>1
      <4> QED BY <1>16, <2>0, <2>1, <4>1
    <3>2. CASE k > L
      <4> PICK q : q = k - L
        OBVIOUS
      <4>1. q \in 1..n /\ k = L + q
        BY <1>4, <1>5, <3>2
      <4> QED BY <1>12, <1>13, <1>16, <2>1, <4>1
    <3> QED BY <1>4, <1>5, <3>1, <3>2
  <2> QED BY <1>13, <1>16, <2>1, <2>2
<1> HIDE DEF L
<1>19. Layout(off)' /\ Stream(off)' /\ wire' \in Seq(AnyByte)
  <2>1. Current' = 1
    BY <1>4, <1>17 DEF Current
  <2>2. Taken(off)' = Taken(off) + n
    <3>1. Taken(off)' = off[1] + Len(y.mem)
      BY <1>17, <2>1 DEF Taken
    <3>2. L \in Nat
      BY <1>4 DEF L
    <3> QED BY ONLY <1>5, <1>8, <1>18, <3>1, <3>2
  <2>3. Current' <= Newest + 1 /\ 1 = Current'
    BY <1>9, <2>1
  <2>4. \A k \in 1..Len(rx'.mem) : rx'.mem[k] = MsgByte(1, k)
    BY <1>17, <1>18
  <2>5. wire' = SubSeq(wire, n + 1, Len(wire)) /\ Taken(off) \in Nat
    BY <1>2, <1>7
  <2> QED BY ONLY <1>1, <1>5, <1>6, <2>2, <2>3, <2>4, <2>5, ReceiverStream
<1>20. Receiving'
  <2>1. link' = link /\ sent' = sent
    BY <1>1
  <2>2. ~Prefixed'
    BY <2>1 DEF Prefixed
  <2>3. RxBuf(link).mode = "plain" /\ RxBuf(link).init = rx.init /\ RxBuf(link).step = rx.step
    <3>1. RxBuf(link).mode = "plain"
      BY <1>0, RxFacts DEF Types, Prefixed
    <3> QED BY <1>0, <3>1 DEF Receiving, Shape
  <2>4. Shape(y, "linear", "plain", rx.init, rx.step)
    BY <1>16 DEF Shape
  <2>5. Shape(rx', "linear", RxBuf(link').mode, RxBuf(link').init, RxBuf(link').step)
    BY ONLY <1>17, <2>1, <2>3, <2>4
  <2>6. Len(y.mem) <= y.alloc
    <3>1. L \in Nat
      BY <1>4 DEF L
    <3> QED BY ONLY <1>5, <1>14, <1>16, <1>18, <3>1
  <2>7. ~y.mark.set
    BY <1>4, <1>16
  <2> QED BY ONLY <1>4, <1>17, <1>18, <2>2, <2>5, <2>6, <2>7 DEF Receiving
<1>21. Types'
  <2>1. verdict = "none" /\ got \in Seq([data : Seq(AnyByte), fd : BOOLEAN])
    BY <1>0, <1>4 DEF Types
  <2> QED BY <1>0, <1>1, <1>17, <1>19, <2>1, ReceiverTypes
<1>22. Composing' /\ Sending'
  BY <1>0, <1>1, FrameSender
<1>23. DeliveredExactly' /\ EndIsTrue'
  <2>1. got' = <<>>
    BY <1>4, <1>17
  <2>2. verdict' = "none"
    BY <1>0, <1>4, <1>17 DEF Types
  <2> QED BY <2>1, <2>2 DEF DeliveredExactly, EndIsTrue
<1> QED BY <1>19, <1>20, <1>21, <1>22, <1>23 DEF IndInv, Underway

\* A read.
LEMMA ReadStep ==
  ASSUME IndInv, Read
  PROVE  IndInv'
  BY ReadPrefixedStep, ReadPlainStep

\* Nothing is delivered: what was is still what was sent.
LEMMA SameHistory ==
  ASSUME DeliveredExactly, UNCHANGED <<link, sent, phase, got>>
  PROVE  DeliveredExactly'
<1>1. link' = link /\ sent' = sent /\ phase' = phase /\ got' = got /\ Suffix' = Suffix /\ (\A i : Data(i)' = Data(i))
  BY Frame
<1> QED BY <1>1 DEF DeliveredExactly

\* There is always room for the next byte.
LEMMA HasRoom ==
  ASSUME Types, Receiving, rphase = "read"
  PROVE  Room(rx) /= 0
<1>1. CASE Prefixed
  <2>1. rx.mode = "prefix" /\ Len(rx.mem) < rx.alloc /\ rx.alloc \in Nat /\ rx.mem \in Seq(AnyByte)
    <3>1. RxBuf(link).mode = "prefix"
      BY <1>1, RxFacts DEF Types, Prefixed
    <3> QED BY <1>1, <3>1 DEF Receiving, Shape
  <2>2. Room(rx) = rx.alloc - Len(rx.mem) /\ Len(rx.mem) \in Nat
    BY <2>1 DEF Room, Used
  <2> QED BY <2>1, <2>2
<1>2. CASE ~Prefixed
  <2>1. /\ Shape(rx, "linear", "plain", rx.init, rx.step) /\ rx.step \in Nat \ {0} /\ rx.mem \in Seq(AnyByte)
        /\ rx.mode = "plain" /\ Len(rx.mem) \in Nat /\ Len(rx.mem) <= rx.alloc /\ rx.alloc \in Nat
    BY ONLY Types, Receiving, <1>2, PlainRx
  <2>2. CASE Len(rx.mem) = rx.alloc
    <3> PICK needed : needed = rx.alloc + rx.step
      OBVIOUS
    <3> PICK g : g = Grown(rx, needed)
      OBVIOUS
    <3>1. needed \in Nat /\ needed >= Len(rx.mem) /\ g = Grown(rx, needed) /\ needed > Len(rx.mem)
      BY <2>1, <2>2
    <3>2. SubSeq(rx.mem, 1, Len(rx.mem)) = rx.mem
      BY ONLY <2>1, SubSeqFull
    <3>3. DOMAIN rx = BufFields /\ rx.limit = 0 /\ rx.alloc \in Nat /\ rx.step \in Nat \ {0} /\ Len(rx.mem) \in Nat
      BY <2>1 DEF Shape
    <3>4. g.b.alloc \in Nat /\ g.b.alloc >= needed
      BY ONLY <3>1, <3>2, <3>3, ReallocFacts
    <3>5. Room(rx) = g.b.alloc - Len(rx.mem)
      BY <2>1, <2>2 DEF Room, Used, Grown
    <3> QED BY ONLY <2>1, <3>1, <3>4, <3>5
  <2>3. CASE Len(rx.mem) /= rx.alloc
    <3>1. Room(rx) = rx.alloc - Len(rx.mem)
      BY <2>3 DEF Room, Used
    <3> QED BY <2>1, <2>3, <3>1
  <2> QED BY <2>2, <2>3
<1> QED BY <1>1, <1>2

\* The end of what an external program prints.
LEMMA PlainEof ==
  ASSUME IndInv, ReadEof, ~Prefixed
  PROVE  IndInv'
<1>0. Types /\ Composing /\ Sending /\ Receiving /\ Underway /\ DeliveredExactly /\ EndIsTrue
  BY DEF IndInv, ReadEof
<1>1. rphase = "read" /\ UNCHANGED <<link, sent, phase, gen, tx, pos, wire>>
  BY DEF ReadEof
<1>2. wire = <<>> /\ phase = "closed"
  <2>1. Room(rx) /= 0
    BY ONLY <1>0, <1>1, HasRoom
  <2> QED BY <2>1 DEF ReadEof
<1>3. /\ Shape(rx, "linear", "plain", rx.init, rx.step) /\ rx.step \in Nat \ {0} /\ rx.mem \in Seq(AnyByte)
      /\ rx.mode = "plain" /\ rx.type = "linear" /\ Len(rx.mem) \in Nat
      /\ got = <<>> /\ ~rx.mark.set /\ Current = 1
  BY ONLY <1>0, ~Prefixed, PlainRx
<1> PICK d : d = Complete(rx)
  OBVIOUS
<1>4. /\ got' = Append(got, [data |-> DataFrom(d, 0), fd |-> FALSE])
      /\ rphase' = "over" /\ verdict' = "EOF"
  BY <1>3 DEF ReadEof
<1>5. PICK off : Layout(off) /\ Stream(off)
  <2>1. ~CutOff
    BY DEF CutOff
  <2> QED BY <1>0, <2>1 DEF Underway
<1> DEFINE L == Len(rx.mem)
<1>6. Prefix = 0 /\ link = "external"
  BY DEF Prefix, Prefixed
<1>7. L \in 0..(IF sent = <<>> THEN 0 ELSE sent[1].len)
  <2>1. WrittenTo(off) = off[1] + L
    <3>1. WrittenTo(off) = off[1] + L + Len(wire) /\ Len(wire) = 0
      BY <1>2, <1>3 DEF WrittenTo, Taken
    <3>2. off[1] \in Nat
      BY <1>5 DEF Layout
    <3> QED BY <1>3, <3>1, <3>2
  <2>2. off[1] = 0
    BY <1>5 DEF Layout
  <2>3. CASE sent = <<>>
    <3>1. WrittenTo(off) = 0
      BY <1>5, <2>3 DEF Stream
    <3> QED BY ONLY <1>3, <2>1, <2>2, <2>3, <3>1
  <2>4. CASE sent /= <<>>
    <3>1. Newest = 1 /\ 1 \in 1..Len(sent)
      <4>1. Len(sent) \in Nat /\ Len(sent) /= 0 /\ Len(sent) <= 1
        BY <1>0, <2>4, EmptySeq, LenProperties DEF Types
      <4>2. Len(sent) = 1
        <5>1. \A l \in Nat : l /= 0 /\ l <= 1 => l = 1
          OBVIOUS
        <5> QED BY ONLY <4>1, <5>1
      <4> QED BY ONLY <4>2 DEF Newest
    <3>2. Size(1) = Body(1) /\ Body(1) = Prefix + sent[1].len /\ sent[1].len \in Nat
      BY <1>0, <3>1, MsgFacts
    <3>3. WrittenTo(off) <= off[1] + Size(1)
      BY <1>2, <1>5, <2>4, <3>1 DEF Stream
    <3> QED BY ONLY <1>3, <1>6, <2>1, <2>2, <2>4, <3>2, <3>3
  <2> QED BY <2>3, <2>4
<1>8. rx.mem = DataBytes(1, 1, L)
  <2> DEFINE t == DataBytes(1, 1, L)
  <2>1. t \in Seq(AnyByte) /\ Len(t) = L /\ \A k \in 1..L : t[k] = Byte("data", k, 1)
    <3>1. 1 \in Nat /\ 1 >= 1 /\ L >= 1 - 1 /\ L - 1 + 1 = L /\ L \in Nat /\ \A k \in 1..L : 1 + k - 1 = k
      BY <1>3
    <3> HIDE DEF L
    <3>2. t \in Seq(AnyByte) /\ Len(t) = L - 1 + 1 /\ \A k \in 1..(L - 1 + 1) : t[k] = Byte("data", 1 + k - 1, 1)
      BY ONLY <3>1, DataFacts
    <3> HIDE DEF t
    <3> QED BY ONLY <3>1, <3>2
  <2> HIDE DEF t
  <2>2. \A k \in 1..L : rx.mem[k] = Byte("data", k, 1)
    <3> TAKE k \in 1..L
    <3>1. rx.mem[k] = MsgByte(1, k)
      BY <1>3, <1>5 DEF Stream
    <3>2. sent /= <<>>
      BY <1>3, <1>7
    <3>3. 1 \in 1..Len(sent)
      <4>1. Len(sent) \in Nat /\ Len(sent) /= 0
        BY <1>0, <3>2, EmptySeq, LenProperties DEF Types
      <4> QED BY <4>1
    <3>4. Size(1) = Body(1) /\ Body(1) = Prefix + sent[1].len /\ sent[1].len \in Nat
      BY <1>0, <3>3, MsgFacts
    <3>5. k \in 1..Size(1) /\ k > Prefix /\ k <= Body(1) /\ k - Prefix = k
      BY <1>3, <1>6, <1>7, <3>2, <3>4
    <3>6. MsgByte(1, k) = Byte("data", k - Prefix, 1)
      BY <1>0, <3>3, <3>5, MsgByteFacts
    <3> QED BY <3>1, <3>5, <3>6
  <2>3. \A k \in 1..Len(rx.mem) : rx.mem[k] = t[k]
    BY <2>1, <2>2
  <2>4. rx.mem = t
    BY ONLY <1>3, <2>1, <2>3, SeqEqual
  <2> QED BY <2>4 DEF t
<1> PICK z : z = Suffix
  OBVIOUS
<1>9. z \in Seq(AnyByte) /\ Len(z) = 1
  <2>1. Byte("suffix", 1, 0) \in AnyByte
    BY DEF Byte, AnyByte
  <2> QED BY <1>6, <2>1 DEF Suffix
<1> PICK e : e = Added(rx, z)
  OBVIOUS
<1>10. Shape(e, "linear", "plain", rx.init, rx.step) /\ e.mem = rx.mem \o z /\ e.mem \in Seq(AnyByte)
  <2>1. Start(rx) = rx.mem
    BY <1>3, StartFacts
  <2> PICK init, step : init = rx.init /\ step = rx.step
    OBVIOUS
  <2>2. /\ "plain" \in {"plain", "prefix"} /\ step \in Nat \ {0} /\ Shape(rx, "linear", "plain", init, step)
        /\ ~rx.mark.set /\ rx.mem \in Seq(AnyByte) /\ z \in Seq(AnyByte) /\ e = Added(rx, z)
    BY <1>3, <1>9
  <2>3. AddedTo(rx, e, z, "plain", init, step)
    BY ONLY <2>2, AddFacts
  <2> QED BY ONLY <2>1, <2>3, init = rx.init, step = rx.step DEF AddedTo
<1>11. d.mem = e.mem /\ d.mode = "plain"
  <2>1. d = GetDataFrom(e, 0).b
    BY DEF Complete, Added
  <2>2. Count(e) \in Nat
    <3>1. Skip(e) = 0 /\ Used(e) \in Nat
      BY <1>10 DEF Skip, Used, Shape
    <3> QED BY <3>1 DEF Count
  <2> PICK init, step : init = rx.init /\ step = rx.step
    OBVIOUS
  <2>3. Shape(e, "linear", "plain", init, step)
    BY <1>10
  <2>4. Shape(d, "linear", "plain", init, step) /\ d.mem = e.mem
    BY ONLY <2>1, <2>2, <2>3, MarkFacts
  <2> QED BY <2>4 DEF Shape
<1>12. DataFrom(d, 0) = e.mem
  <2>1. DataFrom(d, 0) = SubSeq(d.mem, 1, Len(d.mem))
    BY <1>11 DEF DataFrom, Skip, Used
  <2>2. SubSeq(e.mem, 1, Len(e.mem)) = e.mem
    BY ONLY <1>10, SubSeqFull
  <2> QED BY <1>11, <2>1, <2>2
<1> PICK r : r = [data |-> DataFrom(d, 0), fd |-> FALSE]
  OBVIOUS
<1>13. r.data = DataBytes(1, 1, L) \o Suffix /\ r \in [data : Seq(AnyByte), fd : BOOLEAN]
  <2>1. r \in [data : Seq(AnyByte), fd : BOOLEAN] /\ r.data = e.mem
    BY <1>10, <1>12
  <2> QED BY <1>8, <1>10, <2>1
<1> HIDE DEF L
<1>14. got' = <<r>> /\ got' \in Seq([data : Seq(AnyByte), fd : BOOLEAN])
  <2>1. got' = Append(<<>>, r)
    BY <1>3, <1>4
  <2> DEFINE S == [data : Seq(AnyByte), fd : BOOLEAN]
  <2>2. r \in S
    BY <1>13
  <2> HIDE DEF S
  <2>3. Append(<<>>, r) = <<r>> /\ <<r>> \in Seq(S)
    BY ONLY <2>2
  <2> QED BY <2>1, <2>3 DEF S
<1>15. DeliveredExactly'
  <2>1. link' = link /\ sent' = sent /\ Suffix' = Suffix
    BY <1>1 DEF Suffix
  <2>2. \A i \in DOMAIN got' : got'[i] = r
    <3>1. DOMAIN <<r>> = 1..1 /\ <<r>>[1] = r
      OBVIOUS
    <3>2. \A i \in 1..1 : i = 1
      OBVIOUS
    <3> QED BY ONLY <1>14, <3>1, <3>2
  <2>3. ASSUME NEW i \in DOMAIN got'
        PROVE  \E n \in 0..(IF sent' = <<>> THEN 0 ELSE sent'[1].len) : got'[i].data = DataBytes(1, 1, n) \o Suffix'
    <3>1. got'[i].data = DataBytes(1, 1, L) \o Suffix'
      BY <1>13, <2>1, <2>2
    <3>2. L \in 0..(IF sent' = <<>> THEN 0 ELSE sent'[1].len)
      BY <1>7, <2>1
    <3> QED BY ONLY <3>1, <3>2
  <2> QED BY <1>6, <2>1, <2>3 DEF DeliveredExactly
<1>16. EndIsTrue'
  BY <1>1, <1>2, <1>4, <1>6 DEF EndIsTrue
<1>17. Types'
  <2>1. wire' \in Seq(AnyByte) /\ UNCHANGED <<link, sent, phase, gen, tx, pos>>
    BY <1>0, <1>1 DEF Types
  <2> QED BY <1>0, <1>4, <1>14, <2>1, ReceiverTypes
<1>18. Composing' /\ Sending'
  BY <1>0, <1>1, FrameSender
<1> QED BY <1>4, <1>15, <1>16, <1>17, <1>18 DEF IndInv

\* The end of a stream of messages: an error in mid message, nothing missing otherwise.
LEMMA PrefixedEof ==
  ASSUME IndInv, ReadEof, Prefixed
  PROVE  IndInv'
<1>0. Types /\ Composing /\ Sending /\ Receiving /\ Underway /\ DeliveredExactly /\ EndIsTrue
  BY DEF IndInv, ReadEof
<1>1. rphase = "read" /\ UNCHANGED <<link, sent, phase, gen, tx, pos, wire>>
  BY DEF ReadEof
<1>2. wire = <<>> /\ phase = "closed" /\ Len(wire) = 0
  <2>1. Room(rx) /= 0
    BY ONLY <1>0, <1>1, HasRoom
  <2> QED BY <2>1 DEF ReadEof
<1>3. rx.mode = "prefix" /\ rx.mem \in Seq(AnyByte) /\ Len(rx.mem) \in Nat /\ Len(rx.mem) < rx.alloc
  <2>1. RxBuf(link).mode = "prefix"
    BY <1>0, RxFacts DEF Types, Prefixed
  <2> QED BY <1>0, <1>1, <2>1 DEF Receiving, Shape
<1>4. rphase' = "over" /\ verdict' = AfterEof(rx) /\ got' = got
  BY <1>3 DEF ReadEof, Fails
<1> DEFINE L == Len(rx.mem)
<1>5. Len(got) \in Nat /\ Len(sent) \in Nat /\ Newest = Len(sent) /\ DOMAIN sent = 1..Len(sent)
      /\ got \in Seq([data : Seq(AnyByte), fd : BOOLEAN])
  BY <1>0, LenProperties DEF Types, Newest
<1>6. ASSUME L > 0 PROVE verdict' = "EBADMSG" /\ Len(got) < Len(sent)
  <2>1. PICK off : Layout(off) /\ Stream(off)
    <3>1. ~CutOff
      BY <1>6 DEF CutOff
    <3> QED BY <1>0, <3>1 DEF Underway
  <2>2. /\ Current \in 1..(Newest + 1) /\ (\A i \in 1..(Newest + 1) : off[i] \in Nat)
        /\ (WrittenTo(off) > off[Current] => Current <= Newest)
    BY ONLY <1>0, <2>1, Bounds
  <2>3. WrittenTo(off) > off[Current]
    <3>1. off[Current] \in Nat /\ WrittenTo(off) = off[Current] + L + Len(wire)
      BY <2>2 DEF WrittenTo, Taken
    <3> QED BY ONLY <1>2, <1>3, <1>6, <3>1
  <2> PICK c : c = Current
    OBVIOUS
  <2>4. c \in 1..Len(sent) /\ c = Len(got) + 1
    BY <1>5, <2>2, <2>3 DEF Current
  <2>5. rx.alloc \in Nat /\ rx.alloc <= Body(c) /\ Body(c) \in Nat /\ PrefixLen \in Nat
    BY ONLY Prefixed, c = Current, <1>0, <2>4, RoomFacts
  <2>6. \A k \in 1..Len(rx.mem) : rx.mem[k] = MsgByte(c, k)
    BY <2>1 DEF Stream
  <2>7. Len(rx.mem) <= Body(c) /\ Len(rx.mem) /= Body(c)
    BY ONLY <1>3, <2>5
  <2>8. Expected(rx) = IF Len(rx.mem) < PrefixLen THEN 0 ELSE Body(c)
    BY ONLY Prefixed, <1>0, <1>3, <2>4, <2>6, <2>7, ExpectedFacts
  <2>9. L /= Expected(rx)
    BY <1>3, <1>6, <2>5, <2>7, <2>8
  <2>10. AfterEof(rx) = "EBADMSG"
    BY <1>3, <1>6, <2>9 DEF AfterEof, Used
  <2> QED BY <1>4, <1>5, <2>4, <2>10
<1>7. ASSUME L = 0 PROVE verdict' = "EOF" /\ \A i \in DOMAIN sent : Written(i) => i <= Len(got)
  <2>1. verdict' = "EOF"
    BY <1>3, <1>4, <1>7 DEF AfterEof, Used
  <2>2. CASE CutOff
    <3>1. Len(got) = Len(sent)
      BY <1>5, <2>2 DEF CutOff
    <3> QED BY <1>5, <2>1, <3>1
  <2>3. CASE ~CutOff
    <3>1. PICK off : Layout(off) /\ Stream(off)
      BY <1>0, <2>3 DEF Underway
    <3>2. /\ Current \in 1..(Newest + 1) /\ (\A i \in 1..(Newest + 1) : off[i] \in Nat)
      BY ONLY <1>0, <3>1, Bounds
    <3> PICK c : c = Current
      OBVIOUS
    <3>3. WrittenTo(off) = off[c] /\ off[c] \in Nat /\ c \in Nat /\ c = Len(got) + 1
      <4>1. off[c] \in Nat /\ WrittenTo(off) = off[c] + L + Len(wire)
        BY <3>2 DEF WrittenTo, Taken
      <4>2. c = Len(got) + 1
        BY DEF Current
      <4> QED BY ONLY <1>2, <1>3, <1>5, <1>7, <4>1, <4>2
    <3> SUFFICES ASSUME NEW i \in DOMAIN sent, Written(i), ~(i <= Len(got)) PROVE FALSE
      BY <2>1
    <3>4. i \in Nat /\ c <= i /\ i <= Newest /\ c \in 1..Newest /\ Newest \in Nat /\ Newest \in 1..Newest /\ Newest >= 1
      BY <1>5, <3>3
    <3>5. \A k \in 1..Newest : Size(k) \in Nat /\ Size(k) > 0
      <4> TAKE k \in 1..Newest
      <4>1. Size(k) \in Nat /\ Body(k) \in Nat /\ Body(k) <= Size(k) /\ Body(k) > PrefixLen
        BY <1>0, <1>5, MsgFacts
      <4> QED BY ONLY <4>1, PrefixLenAssumption
    <3>6. off[Newest] \in Nat /\ (c < Newest => off[c] + Size(c) <= off[Newest])
      <4>1. Newest \in 1..(Newest + 1)
        BY <3>4
      <4>2. c < Newest => off[c] + Size(c) <= off[Newest]
        BY <3>1, <3>4, <4>1 DEF Layout
      <4> QED BY <3>2, <4>1, <4>2
    <3>7. sent /= <<>>
      BY <1>5, <3>4
    <3>8. off[Newest] <= WrittenTo(off) /\ (tx.mem = <<>> => WrittenTo(off) = off[Newest] + Size(Newest))
      BY <1>2, <3>1, <3>7 DEF Stream
    <3>9. CASE c < Newest
      <4>1. Size(c) \in Nat /\ Size(c) > 0
        BY <3>4, <3>5
      <4> QED BY ONLY <3>3, <3>6, <3>8, <3>9, <4>1
    <3>10. CASE c = Newest
      <4>1. i = Newest /\ tx.mem = <<>>
        BY <1>5, <3>4, <3>10 DEF Written
      <4>2. Size(Newest) \in Nat /\ Size(Newest) > 0
        BY <3>4, <3>5
      <4> QED BY ONLY <3>3, <3>6, <3>8, <3>10, <4>1, <4>2
    <3> QED BY <3>4, <3>9, <3>10
  <2> QED BY <2>2, <2>3
<1>8. L > 0 \/ L = 0
  BY <1>3
<1>9. EndIsTrue' /\ verdict' \in {"EOF", "EBADMSG"}
  <2>1. phase' = "closed" /\ sent' = sent /\ got' = got /\ tx' = tx
    BY <1>1, <1>2, <1>4
  <2>2. CASE L > 0
    BY <1>6, <2>1, <2>2 DEF EndIsTrue
  <2>3. CASE L = 0
    <3>1. \A i : Written(i)' = Written(i)
      BY <2>1 DEF Written
    <3>2. \A i \in DOMAIN sent' : Written(i)' => i <= Len(got')
      BY <1>7, <2>1, <2>3, <3>1
    <3>3. verdict' = "EOF"
      BY <1>7, <2>3
    <3> QED BY ONLY <2>1, <3>2, <3>3 DEF EndIsTrue
  <2> QED BY <1>8, <2>2, <2>3
<1>10. Types'
  <2>1. wire' \in Seq(AnyByte) /\ UNCHANGED <<link, sent, phase, gen, tx, pos>>
    BY <1>0, <1>1 DEF Types
  <2> QED BY <1>0, <1>4, <1>5, <1>9, <2>1, ReceiverTypes
<1>11. Composing' /\ Sending'
  BY <1>0, <1>1, FrameSender
<1>12. DeliveredExactly'
  BY <1>0, <1>1, <1>4, SameHistory
<1> QED BY <1>4, <1>9, <1>10, <1>11, <1>12 DEF IndInv

\* The end of the stream.
LEMMA ReadEofStep ==
  ASSUME IndInv, ReadEof
  PROVE  IndInv'
  BY PlainEof, PrefixedEof

\* The byte that carries the descriptor completes the message, or the sender is gone before it.
LEMMA RecvFdStep ==
  ASSUME IndInv, RecvFd
  PROVE  IndInv'
<1>0. Types /\ Composing /\ Sending /\ Receiving /\ Underway /\ DeliveredExactly /\ EndIsTrue
  BY DEF IndInv, RecvFd
<1>1. rphase = "fd" /\ rphase /= "over" /\ UNCHANGED <<link, sent, phase, gen, tx, pos>>
  BY DEF RecvFd
<1>2. PICK off : Layout(off) /\ Stream(off)
  <2>1. ~CutOff
    BY <1>1 DEF CutOff
  <2> QED BY <1>0, <2>1 DEF Underway
<1> PICK c : c = Current
  OBVIOUS
<1>3. /\ Newest \in Nat /\ Newest = Len(sent) /\ Current \in 1..(Newest + 1)
      /\ (\A i \in 1..(Newest + 1) : off[i] \in Nat) /\ Taken(off) \in Nat /\ Len(wire) \in Nat /\ Len(rx.mem) \in Nat
  BY ONLY <1>0, <1>2, Bounds
<1>4. Prefixed /\ Len(rx.mem) = Body(c) /\ c \in 1..Len(sent) /\ sent[c].fd
  <2>1. Prefixed /\ Len(rx.mem) = Body(c) /\ c <= Newest /\ sent[c].fd
    BY <1>0, <1>1 DEF Receiving
  <2> QED BY <1>3, <2>1
<1>5. Body(c) \in Nat /\ Size(c) = Body(c) + 1
  BY <1>0, <1>4, MsgFacts
<1>6. off[c] \in Nat /\ Taken(off) = off[c] + Len(rx.mem) /\ WrittenTo(off) = Taken(off) + Len(wire)
      /\ off[c + 1] = off[c] + Size(c) /\ Newest \in 1..(Newest + 1) /\ off[Newest] \in Nat
  <2>1. off[c] \in Nat /\ Taken(off) = off[c] + Len(rx.mem) /\ WrittenTo(off) = Taken(off) + Len(wire)
    BY <1>3 DEF Taken, WrittenTo
  <2>2. c \in 1..Newest
    BY <1>3, <1>4
  <2>3. off[c + 1] = off[c] + Size(c)
    BY <1>2, <2>2 DEF Layout
  <2>4. Newest \in 1..(Newest + 1)
    BY <1>3, <1>4
  <2> QED BY <1>3, <2>1, <2>3, <2>4
<1>7. Shape(rx, "linear", "prefix", rx.init, 1) /\ rx.type = "linear" /\ rx.mode = "prefix" /\ rx.mem \in Seq(AnyByte)
  <2>1. RxBuf(link).mode = "prefix" /\ RxBuf(link).step = 1
    BY <1>0, <1>4, RxFacts DEF Types, Prefixed
  <2> QED BY <1>0, <2>1 DEF Receiving, Shape
<1>8. DataFrom(rx, 0) = Data(c) /\ DataFrom(rx, 0) \in Seq(AnyByte)
  <2>1. \A k \in 1..Len(rx.mem) : rx.mem[k] = MsgByte(c, k)
    BY <1>2 DEF Stream
  <2> QED BY ONLY <1>0, <1>4, <1>7, <2>1, WholeData
<1>9. Composing' /\ Sending'
  BY <1>0, <1>1, FrameSender
<1>10. wire \in Seq(AnyByte)
  BY <1>0 DEF Types
<1>11. ASSUME rx' = Reset(rx) PROVE rx'.mem = <<>> /\ Len(rx'.mem) = 0
  <2>1. rx.init \in Nat
    BY ONLY c = Current, <1>0, <1>4, RoomFacts
  <2> PICK init : init = rx.init
    OBVIOUS
  <2>2. init \in Nat /\ Shape(rx, "linear", "prefix", init, 1) /\ rx' = Reset(rx)
    BY <1>7, <1>11, <2>1
  <2>3. rx'.mem = <<>>
    BY ONLY <2>2, ResetShape
  <2> QED BY <2>3
<1>12. CASE wire /= <<>> /\ wire' = Tail(wire) /\ Deliver(rx, Head(wire).t = "fd")
  <2>1. Len(wire) >= 1 /\ 1 \in 1..Len(wire) /\ Head(wire) = wire[1]
    <3>1. Len(wire) /= 0
      BY <1>10, <1>12, EmptySeq
    <3>2. Len(wire) >= 1 /\ 1 \in 1..Len(wire)
      BY ONLY <1>3, <3>1
    <3>3. Head(wire) = wire[1]
      BY ONLY <1>10, <3>2
    <3> QED BY <3>2, <3>3
  <2>2. wire[1] = MsgByte(c, Body(c) + 1)
    <3>1. /\ Stream(off) /\ c = Current /\ c \in 1..Newest /\ Size(c) \in Nat /\ off[c] \in Nat
          /\ Len(rx.mem) \in Nat /\ 1 \in Nat /\ 1 <= Len(wire) /\ Len(wire) \in Nat /\ Len(rx.mem) + 1 <= Size(c)
      BY <1>2, <1>3, <1>4, <1>5, <1>6, <2>1
    <3>2. \A k \in 1..1 : wire[k] = MsgByte(c, Len(rx.mem) + k)
      BY ONLY <3>1, NextBytes
    <3> QED BY <1>4, <3>2
  <2>3. Head(wire).t = "fd"
    <3>1. Body(c) + 1 \in 1..Size(c) /\ Body(c) + 1 > Body(c)
      BY <1>5
    <3>2. MsgByte(c, Body(c) + 1) = Byte("fd", 1, c)
      BY <1>0, <1>4, <3>1, MsgByteFacts
    <3>3. \A m : Byte("fd", 1, m).t = "fd"
      BY DEF Byte
    <3> QED BY ONLY <2>1, <2>2, <3>2, <3>3
  <2> PICK r : r = [data |-> DataFrom(rx, 0), fd |-> Head(wire).t = "fd"]
    OBVIOUS
  <2>4. /\ got' = Append(got, r) /\ rx' = Reset(rx) /\ rphase' = (IF link = "reply" THEN "over" ELSE "read")
        /\ verdict' = (IF link = "reply" THEN "answered" ELSE verdict)
    BY <1>12 DEF Deliver
  <2>5. r \in [data : Seq(AnyByte), fd : BOOLEAN] /\ r.data = Data(c) /\ r.fd
    BY <1>8, <2>3
  <2>6. /\ got' \in Seq([data : Seq(AnyByte), fd : BOOLEAN]) /\ Len(got') = Len(got) + 1 /\ Current' = c + 1
        /\ DeliveredExactly' /\ EndIsTrue' /\ c \in Nat
        /\ rphase' \in {"read", "over"} /\ verdict' \in {"none", "answered"}
        /\ (rphase' /= "over" => verdict' = "none" /\ rphase' = "read")
    BY ONLY c = Current, <1>0, <1>1, <1>4, <2>4, <2>5, DeliverFacts
  <2>7. rx'.mem = <<>> /\ Len(rx'.mem) = 0
    BY <1>11, <2>4
  <2>8. Layout(off)' /\ Stream(off)' /\ wire' \in Seq(AnyByte)
    <3>1. Taken(off)' = Taken(off) + 1
      <4>1. Taken(off)' = off[c + 1] + Len(rx'.mem)
        BY <2>6 DEF Taken
      <4>2. \A o, y, z \in Nat : o + (y + 1) + 0 = o + y + 1
        OBVIOUS
      <4>3. Taken(off) = off[c] + Body(c) /\ off[c + 1] = off[c] + (Body(c) + 1) /\ off[c] \in Nat
        BY <1>4, <1>5, <1>6
      <4> QED BY ONLY <1>5, <2>7, <4>1, <4>2, <4>3
    <3>2. Current' <= Newest + 1
      BY <1>3, <1>4, <2>6
    <3> PICK c2 : c2 = Current'
      OBVIOUS
    <3>3. \A k \in 1..Len(rx'.mem) : rx'.mem[k] = MsgByte(c2, k)
      BY <2>7
    <3>4. wire' = SubSeq(wire, 1 + 1, Len(wire)) /\ 1 \in Nat /\ 1 <= Len(wire)
      <4>1. 1 \in Nat /\ 1 + 1 = 2 /\ 1 <= Len(wire)
        BY <2>1
      <4>2. Tail(wire) = SubSeq(wire, 2, Len(wire))
        BY ONLY <1>10, <1>12, TailIsSubSeq
      <4> QED BY <1>12, <4>1, <4>2
    <3>5. Layout(off) /\ Stream(off) /\ Taken(off) \in Nat
      BY <1>2, <1>3
    <3> QED BY ONLY c2 = Current', <1>1, <1>10, <3>1, <3>2, <3>3, <3>4, <3>5, ReceiverStream
  <2>9. rphase' /= "over" => Receiving'
    <3>1. UNCHANGED <<link, sent>> /\ Types /\ Receiving /\ rx' = Reset(rx) /\ Prefixed
      BY <1>0, <1>1, <1>4, <2>4
    <3> QED BY ONLY <1>7, <2>6, <3>1, EmptyReceiving
  <2>10. Types'
    BY <1>0, <1>1, <2>6, <2>8, ReceiverTypes
  <2> QED BY <1>9, <2>6, <2>8, <2>9, <2>10 DEF IndInv, Underway
<1>13. CASE wire = <<>> /\ phase = "closed" /\ link = "reply" /\ Fails("EBADF") /\ wire' = wire
  <2>1. rphase' = "over" /\ verdict' = "EBADF" /\ got' = got
    BY <1>13 DEF Fails
  <2>2. got' \in Seq([data : Seq(AnyByte), fd : BOOLEAN]) /\ wire' \in Seq(AnyByte)
    BY <1>0, <1>13, <2>1 DEF Types
  <2>3. Types'
    BY <1>0, <1>1, <2>1, <2>2, ReceiverTypes
  <2>4. EndIsTrue'
    BY <1>1, <1>13, <2>1 DEF EndIsTrue
  <2>5. DeliveredExactly'
    BY <1>0, <1>1, <2>1, SameHistory
  <2> QED BY <1>9, <2>1, <2>3, <2>4, <2>5 DEF IndInv
<1>14. CASE wire = <<>> /\ phase = "closed" /\ link /= "reply" /\ Deliver(rx, FALSE) /\ wire' = wire
  <2>1. c = Len(sent)
    <3> SUFFICES ASSUME c /= Len(sent) PROVE FALSE
      OBVIOUS
    <3>1. c \in 1..Newest /\ c < Newest /\ Len(wire) = 0 /\ sent /= <<>>
      BY <1>3, <1>4, <1>14
    <3>2. off[c] + Size(c) <= off[Newest]
      BY <1>2, <1>6, <3>1 DEF Layout
    <3>3. off[Newest] <= WrittenTo(off)
      BY <1>2, <1>14, <3>1 DEF Stream
    <3> QED BY ONLY <1>4, <1>5, <1>6, <3>1, <3>2, <3>3
  <2> PICK r : r = [data |-> DataFrom(rx, 0), fd |-> FALSE]
    OBVIOUS
  <2>2. /\ got' = Append(got, r) /\ rx' = Reset(rx) /\ rphase' = (IF link = "reply" THEN "over" ELSE "read")
        /\ verdict' = (IF link = "reply" THEN "answered" ELSE verdict)
    BY <1>14 DEF Deliver
  <2>3. r \in [data : Seq(AnyByte), fd : BOOLEAN] /\ r.data = Data(c) /\ ~r.fd
    BY <1>8
  <2>4. phase = "closed"
    BY <1>14
  <2>5. /\ got' \in Seq([data : Seq(AnyByte), fd : BOOLEAN]) /\ Len(got') = Len(got) + 1 /\ Current' = c + 1
        /\ DeliveredExactly' /\ EndIsTrue' /\ c \in Nat
        /\ rphase' \in {"read", "over"} /\ verdict' \in {"none", "answered"}
        /\ (rphase' /= "over" => verdict' = "none" /\ rphase' = "read")
    BY ONLY c = Current, <1>0, <1>1, <1>4, <2>1, <2>2, <2>3, <2>4, DeliverFacts
  <2>6. rx'.mem = <<>>
    BY <1>11, <2>2
  <2>7. rphase' = "read"
    BY <1>14, <2>2
  <2>8. Receiving'
    <3>1. UNCHANGED <<link, sent>> /\ Types /\ Receiving /\ rx' = Reset(rx) /\ Prefixed
      BY <1>0, <1>1, <1>4, <2>2
    <3> QED BY ONLY <1>7, <2>7, <3>1, EmptyReceiving
  <2>9. Layout(off)'
    BY <1>1, <1>2, FrameLayout
  <2>10. CutOff'
    <3>1. Prefixed' /\ Newest' = Newest
      BY <1>1, <1>4, Frame
    <3>2. Len(got') = Newest
      <4>1. c = Len(got) + 1
        BY DEF Current
      <4> QED BY <1>3, <2>1, <2>5, <4>1
    <3>3. phase' = "closed" /\ wire' = <<>>
      BY <1>1, <1>14
    <3> QED BY <2>6, <2>7, <3>1, <3>2, <3>3 DEF CutOff
  <2>11. Types'
    <3>1. wire' \in Seq(AnyByte)
      BY <1>10, <1>14
    <3> QED BY <1>0, <1>1, <2>5, <3>1, ReceiverTypes
  <2> QED BY <1>9, <2>5, <2>8, <2>9, <2>10, <2>11 DEF IndInv, Underway
<1> QED BY <1>12, <1>13, <1>14 DEF RecvFd

\* A receiver that ends claims nothing.
LEMMA ReceiverEndsStep ==
  ASSUME IndInv, ReceiverEnds
  PROVE  IndInv'
<1>0. Types /\ Composing /\ Sending /\ DeliveredExactly /\ EndIsTrue
  BY DEF IndInv
<1>1. /\ rphase' = "over" /\ verdict' = "gone" /\ got' = got /\ wire' = wire
      /\ UNCHANGED <<link, sent, phase, gen, tx, pos>>
  BY DEF ReceiverEnds
<1>2. Composing' /\ Sending'
  BY <1>0, <1>1, FrameSender
<1>3. Types'
  <2>1. wire' \in Seq(AnyByte) /\ got' \in Seq([data : Seq(AnyByte), fd : BOOLEAN])
    BY <1>0, <1>1 DEF Types
  <2> QED BY <1>0, <1>1, <2>1, ReceiverTypes
<1>4. DeliveredExactly'
  BY <1>0, <1>1, SameHistory
<1>5. EndIsTrue'
  BY <1>1 DEF EndIsTrue
<1> QED BY <1>1, <1>2, <1>3, <1>4, <1>5 DEF IndInv

-----------------------------------------------------------------------------
(***************************************************************************)
(* The theorems.                                                           *)
(***************************************************************************)

\* The invariant holds initially.
LEMMA InitInd == Init => IndInv
<1> SUFFICES ASSUME Init PROVE IndInv
  OBVIOUS
<1>1. /\ link \in Links /\ sent = <<>> /\ phase = "idle" /\ tx = TxBuf(link) /\ pos = 0 /\ wire = <<>>
      /\ rx = RxBuf(link) /\ rphase = "read" /\ verdict = "none" /\ got = <<>>
      /\ gen = Create("linear", "plain", 0, ExtLen, 0)
  BY DEF Init
<1>2. Types
  <2>1. Len(sent) = 0 /\ Len(sent) <= 1 /\ sent \in Seq([len : Nat, fd : BOOLEAN]) /\ wire \in Seq(AnyByte)
        /\ got \in Seq([data : Seq(AnyByte), fd : BOOLEAN])
    BY <1>1
  <2>2. \A i \in 1..Len(sent) : sent[i].len >= Header /\ (sent[i].fd => Prefixed)
    BY <2>1
  <2> QED BY ONLY <1>1, <2>1, <2>2 DEF Types
<1>3. Composing
  <2>1. "linear" \in {"linear", "vector"} /\ "plain" \in {"plain", "prefix"} /\ 0 \in Nat
    OBVIOUS
  <2>2. Shape(gen, "linear", "plain", 0, ExtLen) /\ gen.mem = <<>> /\ ~gen.mark.set /\ gen.mark.pos = 0
    BY ONLY <1>1, <2>1, CreateFacts
  <2> QED BY <2>2 DEF Composing
<1>4. Sending
  <2>1. Shape(tx, tx.type, tx.mode, tx.init, 1) /\ tx.mem = <<>> /\ ~tx.mark.set
    BY ONLY <1>1, TxFacts
  <2> QED BY <1>1, <2>1 DEF Sending
<1>5. Receiving
  <2>1. /\ Shape(rx, "linear", rx.mode, rx.init, rx.step) /\ rx.mem = <<>> /\ ~rx.mark.set /\ rx.init \in Nat
        /\ link = "external" => rx.alloc = ExtLen
        /\ link /= "external" => rx.alloc = PrefixLen + rx.init
    BY ONLY <1>1, RxFacts
  <2>2. Len(rx.mem) = 0 /\ rx.mem \in Seq(AnyByte) /\ PrefixLen \in Nat /\ PrefixLen >= 1 /\ rx.alloc \in Nat
    BY <2>1, PrefixLenAssumption DEF Shape
  <2>3. Len(rx.mem) <= rx.alloc /\ ~(Len(rx.mem) >= PrefixLen) /\ (Prefixed => Len(rx.mem) < rx.alloc)
    <3>1. CASE Prefixed
      <4>1. rx.alloc = PrefixLen + rx.init
        BY <2>1, <3>1 DEF Prefixed
      <4> QED BY ONLY <2>1, <2>2, <4>1
    <3>2. CASE ~Prefixed
      BY <2>2, <3>2
    <3> QED BY <3>1, <3>2
  <2>4. Prefixed => rx.alloc = PrefixLen + rx.init
    BY <2>1 DEF Prefixed
  <2> QED BY ONLY <1>1, <2>1, <2>2, <2>3, <2>4 DEF Receiving
<1>6. Underway
  <2> DEFINE off == [i \in 1..1 |-> 0]
  <2>1. Newest = 0 /\ Current = 1 /\ Len(wire) = 0 /\ off[1] = 0
    BY <1>1 DEF Newest, Current
  <2>2. off \in [1..(Newest + 1) -> Nat]
    BY <2>1
  <2>3. rx.mem = <<>> /\ Len(rx.mem) = 0
    BY <1>1, RxFacts
  <2> HIDE DEF off
  <2>4. Layout(off)
    BY <2>1, <2>2 DEF Layout
  <2>5. WrittenTo(off) = 0
    BY <2>1, <2>3 DEF WrittenTo, Taken
  <2>6. Stream(off)
    BY <1>1, <2>1, <2>3, <2>5 DEF Stream
  <2> QED BY <2>4, <2>6 DEF Underway
<1>7. DeliveredExactly /\ EndIsTrue
  BY <1>1 DEF DeliveredExactly, EndIsTrue
<1> QED BY <1>2, <1>3, <1>4, <1>5, <1>6, <1>7 DEF IndInv

\* A step that changes nothing.
LEMMA Stutter ==
  ASSUME IndInv, UNCHANGED vars
  PROVE  IndInv'
<1>0. /\ link' = link /\ sent' = sent /\ phase' = phase /\ gen' = gen /\ tx' = tx /\ pos' = pos /\ wire' = wire
      /\ rx' = rx /\ rphase' = rphase /\ verdict' = verdict /\ got' = got
  BY DEF vars
<1>1. Types /\ Composing /\ Sending /\ DeliveredExactly /\ EndIsTrue /\ (rphase /= "over" => Receiving /\ Underway)
  BY DEF IndInv
<1>2. Types'
  BY <1>0, <1>1 DEF Types, Header, Prefixed
<1>3. Composing' /\ Sending'
  BY <1>0, <1>1, FrameSender
<1>4. DeliveredExactly'
  BY <1>0, <1>1, SameHistory
<1>5. EndIsTrue'
  BY <1>0, <1>1 DEF EndIsTrue, Written
<1>6. Receiving => Receiving'
  BY <1>0, FrameReceiver
<1>7. Underway => Underway'
  <2>1. /\ Prefixed' = Prefixed /\ Newest' = Newest /\ (\A i : Body(i)' = Body(i) /\ Size(i)' = Size(i))
        /\ (\A i, j : MsgByte(i, j)' = MsgByte(i, j))
    BY <1>0, Frame
  <2>2. CutOff => CutOff'
    BY <1>0, <2>1 DEF CutOff
  <2>3. ASSUME NEW off, Stream(off) PROVE Stream(off)'
    <3>1. Current' = Current /\ Taken(off)' = Taken(off) /\ WrittenTo(off)' = WrittenTo(off)
      BY <1>0 DEF Current, Taken, WrittenTo
    <3> QED BY <1>0, <2>1, <2>3, <3>1 DEF Stream
  <2>4. ASSUME NEW off, Layout(off) PROVE Layout(off)'
    BY <1>0, <2>4, FrameLayout
  <2> QED BY <2>2, <2>3, <2>4 DEF Underway
<1> QED BY <1>0, <1>1, <1>2, <1>3, <1>4, <1>5, <1>6, <1>7 DEF IndInv

\* Every step preserves the invariant.
LEMMA NextInd == IndInv /\ [Next]_vars => IndInv'
<1> SUFFICES ASSUME IndInv, [Next]_vars PROVE IndInv'
  OBVIOUS
<1>1. ASSUME NEW n \in Bodies, NEW fd \in BOOLEAN, Compose(n, fd) PROVE IndInv'
  BY <1>1, ComposeStep
<1>2. CASE Write
  BY <1>2, WriteStep
<1>3. CASE WriteAllDone
  BY <1>3, WriteAllDoneStep
<1>4. CASE SendFd
  BY <1>4, SendFdStep
<1>5. CASE SenderEnds
  BY <1>5, SenderEndsStep
<1>6. CASE Read
  BY <1>6, ReadStep
<1>7. CASE ReadEof
  BY <1>7, ReadEofStep
<1>8. CASE RecvFd
  BY <1>8, RecvFdStep
<1>9. CASE ReceiverEnds
  BY <1>9, ReceiverEndsStep
<1>10. CASE UNCHANGED vars
  BY <1>10, Stutter
<1> QED BY <1>1, <1>2, <1>3, <1>4, <1>5, <1>6, <1>7, <1>8, <1>9, <1>10 DEF Next, Send, Recv

\* The buffers of both ends, the kernel's bytes and the histories fit together at all times.
THEOREM Invariance == Spec => []IndInv
  BY InitInd, NextInd, PTL DEF Spec

\* _chan_buf_recv, _on_connection_event and sid_ifc_req take the messages one by one, in
\* order, byte for byte and each with its descriptor, for any sizes and any way the kernel
\* cuts and glues what is written.
THEOREM ExactDelivery == Spec => []DeliveredExactly
<1>1. IndInv => DeliveredExactly
  BY DEF IndInv
<1> QED BY <1>1, Invariance, PTL

\* A receiver fails only when the sender ended in mid message, and at a clean end of file
\* it has all that was written.
THEOREM TrueEnd == Spec => []EndIsTrue
<1>1. IndInv => EndIsTrue
  BY DEF IndInv
<1> QED BY <1>1, Invariance, PTL
=============================================================================
