------------------------------ MODULE Channel ------------------------------
(***************************************************************************)
(* Messages on their way through a stream socket or a pipe: what           *)
(* _chan_buf_send and _chan_buf_recv (wrk-ctl.c), sid_ifc_req (ifc.c),     *)
(* _on_connection_event and _send_out_cmd_resbuf (ubr.c) do with the       *)
(* buffers of Buf.  The kernel may cut a write or a read short anywhere    *)
(* and glues messages together; a message may be followed by one byte that *)
(* carries a file descriptor, which only recvmsg can take (a plain read    *)
(* that swallows the byte loses the descriptor); either end may go away.   *)
(*                                                                         *)
(* link says which of the four uses this is.  The sender has seen EAGAIN   *)
(* or EINTR when it does not move although it could: both only make the    *)
(* loops go round again.                                                   *)
(***************************************************************************)
EXTENDS Buf

CONSTANTS
    CmdLen,       \* sizeof(worker_channel_cmd_t), the least an internal lane carries
    HdrLen,       \* SID_IFC_MSG_HEADER_SIZE
    ExtLen,       \* WORKER_EXT_CHANNEL_MIN_BUF_SIZE
    Bodies,       \* how many bytes may follow a header
    MaxMessages,  \* messages one sender sends
    Capacity      \* bytes the kernel holds

ASSUME LenAssumption ==
    /\ CmdLen \in Nat \ {0} /\ HdrLen \in Nat \ {0} /\ ExtLen \in Nat \ {0}
    /\ Bodies \subseteq Nat

VARIABLES
    link,    \* "lane", "request", "reply" or "external"
    sent,    \* history: [len, fd] of each message the sender has begun
    phase,   \* the sender: "idle", "write", "fd" or "closed"
    gen,     \* the sender's gen_buf
    tx,      \* the buffer that is sent: tx_buf, res_buf, the request
    pos,     \* how much of it is written (sid_buf_write_all)
    wire,    \* bytes in the kernel
    rx,      \* the buffer that receives: rx_buf, conn->buf, rsl->buf
    rphase,  \* the receiver: "read", "fd" or "over"
    verdict, \* why the receiver is over
    got      \* history: [data, fd] of each message the receiver has taken

vars == <<link, sent, phase, gen, tx, pos, wire, rx, rphase, verdict, got>>

Links == {"lane", "request", "reply", "external"}

\* The header of a message, and the sizes of the two buffers.  A receiver
\* starts with no more room than the smallest message of its link needs.
Header == CASE link = "lane" -> CmdLen [] link = "external" -> 0 [] OTHER -> HdrLen

\* Fault: the receiving buffers of internal lanes start as large as those of
\* external ones.
RxBufLarge(l) ==
    IF l = "external" THEN Create("linear", "plain", ExtLen, ExtLen, 0)
    ELSE Create("linear", "prefix", CmdLen + ExtLen, 1, 0)

RxBuf(l) ==
    CASE l = "external" -> Create("linear", "plain", ExtLen, ExtLen, 0)
      [] l = "lane"     -> Create("linear", "prefix", CmdLen, 1, 0)
      [] OTHER          -> Create("linear", "prefix", 0, 1, 0)

TxBuf(l) ==
    CASE l = "external" -> Create("linear", "plain", 0, 1, 0)
      [] l = "lane"     -> Create("linear", "prefix", CmdLen, 1, 0)
      [] l = "request"  -> Create("linear", "prefix", 0, 1, 0)
      [] l = "reply"    -> Create("vector", "prefix", 1, 1, 0)

\* What is appended to the data of a complete message (lvm.c: a NUL).
Suffix == IF link = "external" THEN <<Byte("suffix", 1, 0)>> ELSE <<>>

Init ==
    /\ link \in Links
    /\ sent = <<>>
    /\ phase = "idle"
    /\ gen = Create("linear", "plain", 0, ExtLen, 0)
    /\ tx = TxBuf(link)
    /\ pos = 0
    /\ wire = <<>>
    /\ rx = RxBuf(link)
    /\ rphase = "read"
    /\ verdict = "none"
    /\ got = <<>>

-----------------------------------------------------------------------------
(***************************************************************************)
(* The sender.                                                             *)
(***************************************************************************)

\* One round for requests, replies and what an external program prints; a
\* lane carries any number of messages.
Again == Len(sent) < (IF link = "lane" THEN MaxMessages ELSE 1)

\* The body of a message in gen_buf: internal_msg_header and command id, one
\* add each, then sid_buf_get_data_from.
Composed(g, m, n) ==
    LET h == Add(g, DataBytes(m, Header + 1, Header + 1), FALSE).b
        i == Add(h, DataBytes(m, Header + 2, Header + n), FALSE).b
    IN  GetDataFrom(i, Count(g)).b

\* What follows the header of a request (device number and environment) or of
\* a reply, added part by part.
Parts(b, m, n) ==
    Add(Add(b, DataBytes(m, Header + 1, Header + 1), FALSE).b,
        DataBytes(m, Header + 2, Header + n), FALSE).b

\* A message is put together: the header, then the parts; a lane copies what
\* was composed in gen_buf.
Compose(n, fd) ==
    LET m == Len(sent) + 1
        g == IF link = "lane" /\ n > 0 THEN Composed(gen, m, n) ELSE gen
        h == IF Header = 0 THEN tx ELSE Add(tx, DataBytes(m, 1, Header), FALSE).b
    IN  /\ phase = "idle" /\ Again
        /\ fd => link \in {"lane", "reply"}
        /\ sent' = Append(sent, [len |-> Header + n, fd |-> fd])
        /\ gen' = g
        /\ tx' = IF n = 0 THEN h
                 ELSE IF link = "lane" THEN Add(h, DataFrom(g, Count(gen)), FALSE).b
                 ELSE Parts(h, m, n)
        /\ pos' = 0
        /\ phase' = "write"
        /\ UNCHANGED <<link, wire, rx, rphase, verdict, got>>

\* One round of sid_buf_write_all.
Write ==
    /\ phase = "write" /\ rphase /= "over"
    /\ tx' = SetPrefix(tx, pos)
    /\ \E w \in {Writable(SetPrefix(tx, pos), pos)} : \E n \in 1..Len(w) :
          /\ Len(wire) + n <= Capacity
          /\ wire' = wire \o SubSeq(w, 1, n)
          /\ pos' = pos + n
    /\ UNCHANGED <<link, sent, phase, gen, rx, rphase, verdict, got>>

\* _chan_buf_send resets its buffer, and whoever composed in gen_buf goes
\* back to where that began.  An external program exits.
Finish ==
    /\ tx' = Reset(tx)
    /\ gen' = Rewind(gen, 0).b
    /\ phase' = IF link = "external" THEN "closed" ELSE "idle"

\* -ENODATA: all is written, the byte with the descriptor comes next.
WriteAllDone ==
    /\ phase = "write" /\ Writable(tx, pos) = <<>>
    /\ IF Last(sent).fd THEN phase' = "fd" /\ UNCHANGED <<gen, tx>> ELSE Finish
    /\ UNCHANGED <<link, sent, pos, wire, rx, rphase, verdict, got>>

\* sid_comms_unix_send with a descriptor.
SendFd ==
    /\ phase = "fd" /\ rphase /= "over"
    /\ Len(wire) < Capacity
    /\ wire' = Append(wire, Byte("fd", 1, Len(sent)))
    /\ Finish
    /\ UNCHANGED <<link, sent, pos, rx, rphase, verdict, got>>

\* The receiver is gone (EPIPE), or the sender ends, wherever it is.
SenderEnds ==
    /\ phase /= "closed"
    /\ phase' = "closed"
    /\ UNCHANGED <<link, sent, gen, tx, pos, wire, rx, rphase, verdict, got>>

-----------------------------------------------------------------------------
(***************************************************************************)
(* The receiver.                                                           *)
(***************************************************************************)

\* The message whose header the buffer holds asks for a descriptor: the
\* command of a lane's message is DATA_EXT, the client asked for a dump.
WantsFd(b) == LET m == DataFrom(b, 0)[1].of IN m \in DOMAIN sent /\ sent[m].fd

\* The callback gets the data, then the buffer is reset.  The client, and the
\* proxy of an external worker, have what they wanted.
Deliver(b, fd) ==
    /\ got' = Append(got, [data |-> DataFrom(b, 0), fd |-> fd])
    /\ rx' = Reset(b)
    /\ rphase' = IF link = "reply" THEN "over" ELSE "read"
    /\ verdict' = IF link = "reply" THEN "answered" ELSE verdict

Fails(e) ==
    /\ rphase' = "over" /\ verdict' = e
    /\ rx' = Reset(rx)
    /\ UNCHANGED got

\* A complete message is given its suffix and is marked by sid_buf_get_data.
Complete(b) == GetDataFrom(Add(b, Suffix, FALSE).b, 0).b

\* sid_buf_read returned n > 0: more is to come, or the message is complete.
Received(b) ==
    IF b.mode = "plain" \/ ~IsComplete(b)
    THEN rx' = b /\ UNCHANGED <<rphase, verdict, got>>
    ELSE IF Count(b) = 0 THEN Fails("EBADMSG")
    ELSE \E d \in {Complete(b)} :
            IF WantsFd(d)
            THEN rx' = d /\ rphase' = "fd" /\ UNCHANGED <<verdict, got>>
            ELSE Deliver(d, FALSE)

Read ==
    /\ rphase = "read" /\ ~(rx.mode = "prefix" /\ IsComplete(rx))
    /\ \E n \in 1..Len(wire) :
          /\ n <= Room(rx)
          /\ wire' = SubSeq(wire, n + 1, Len(wire))
          /\ \E a \in {AfterRead(rx, SubSeq(wire, 1, n))} :
                IF a.r = "OK" THEN Received(a.b) ELSE Fails(a.r)
    /\ UNCHANGED <<link, sent, phase, gen, tx, pos>>

\* read() returned 0: the sender is gone, or there was no room to read into.
\* What an external program printed is complete now.
ReadEof ==
    /\ rphase = "read"
    /\ \/ wire = <<>> /\ phase = "closed"
       \/ wire /= <<>> /\ Room(rx) = 0
    /\ IF rx.mode = "plain"
       THEN \E d \in {Complete(rx)} :
               /\ got' = Append(got, [data |-> DataFrom(d, 0), fd |-> FALSE])
               /\ rx' = Reset(d) /\ rphase' = "over" /\ verdict' = "EOF"
       ELSE Fails(AfterEof(rx))
    /\ UNCHANGED <<link, sent, phase, gen, tx, pos, wire>>

\* sid_comms_unix_recv, again until there is a byte or the end: the lane goes
\* on without a descriptor (fd_pass is -1), the client gives up.
RecvFd ==
    /\ rphase = "fd"
    /\ \/ /\ wire /= <<>>
          /\ wire' = Tail(wire)
          /\ Deliver(rx, Head(wire).t = "fd")
       \/ /\ wire = <<>> /\ phase = "closed"
          /\ IF link = "reply" THEN Fails("EBADF") ELSE Deliver(rx, FALSE)
          /\ UNCHANGED wire
    /\ UNCHANGED <<link, sent, phase, gen, tx, pos>>

\* The receiver ends, wherever it is.
ReceiverEnds ==
    /\ rphase /= "over"
    /\ rphase' = "over" /\ verdict' = "gone"
    /\ UNCHANGED <<link, sent, phase, gen, tx, pos, wire, rx, got>>

-----------------------------------------------------------------------------
Send  == Write \/ WriteAllDone \/ SendFd
Recv  == Read \/ ReadEof \/ RecvFd

Next ==
    \/ \E n \in Bodies, fd \in BOOLEAN : Compose(n, fd)
    \/ Send \/ Recv
    \/ SenderEnds \/ ReceiverEnds

Spec == Init /\ [][Next]_vars

\* Both sides keep at it: the loops of sid_buf_write_all and sid_ifc_req, and
\* the event loops, which report a readable descriptor until it is read.
FairSpec == Spec /\ WF_vars(Send) /\ WF_vars(Recv)

-----------------------------------------------------------------------------
(***************************************************************************)
(* Properties.                                                             *)
(***************************************************************************)

\* How the bytes of message i look to the callback.
Data(i) == DataBytes(i, 1, sent[i].len)

\* Message i is written to its last byte, descriptor included: the buffer it
\* was sent from is reset.
Written(i) == i < Len(sent) \/ (i = Len(sent) /\ tx.mem = <<>>)

\* The receiver takes the messages one by one, in order, byte for byte as
\* they were added to the sender's buffer, and each with the descriptor sent
\* with it, however the kernel cuts and glues.  Only a sender that ended
\* before the descriptor was sent leaves a message without it, and only what
\* an external program printed may be cut off.
DeliveredExactly ==
    \A i \in DOMAIN got :
        IF link = "external"
        THEN \E n \in 0..(IF sent = <<>> THEN 0 ELSE sent[1].len) :
                got[i].data = DataBytes(1, 1, n) \o Suffix
        ELSE /\ i <= Len(sent)
             /\ got[i].data = Data(i)
             /\ got[i].fd => sent[i].fd
             /\ sent[i].fd /\ ~got[i].fd => i = Len(sent) /\ phase = "closed"

\* The receiver gives up only on a sender that ended, with an error exactly
\* when it did so in the middle of a message; at a clean end of file nothing
\* that was written is missing.
EndIsTrue ==
    /\ verdict \in {"EBADMSG", "EBADE", "EBADF", "EOF"} => phase = "closed"
    /\ verdict \notin {"EBADE", "EXFULL", "EOVERFLOW"}
    /\ verdict = "EOF" /\ link /= "external" =>
          \A i \in DOMAIN sent : Written(i) => i <= Len(got)
    /\ verdict = "EBADMSG" => Len(got) < Len(sent)

\* Every message arrives unless one of the two sides ends.
AllArrive ==
    \A i \in 1..MaxMessages :
        Len(sent) >= i ~> Len(got) >= i \/ phase = "closed" \/ rphase = "over"
=============================================================================
