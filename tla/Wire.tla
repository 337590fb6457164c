-------------------------------- MODULE Wire --------------------------------
(***************************************************************************)
(* One direction of a connection below the message level: network.cpp      *)
(* writes a packet as its length and its bytes, write and read move as     *)
(* many bytes as the kernel likes, and either end loops until it has them  *)
(* all.  The streams up and down and the pipes of SctpServer are built     *)
(* like this.  The process of the writer may end in the middle of a        *)
(* message; the bytes it has written still arrive, then end of file.  The  *)
(* reader may close its end too; then writes fail, sooner or later.        *)
(*                                                                         *)
(* A message is the items a handler appends, the header it prepends last,  *)
(* and whether it ciphers the items and adds an HMAC to them before that.  *)
(***************************************************************************)
EXTENDS Security

CONSTANTS
    Messages,
    Capacity,       \* bytes the kernel holds between the two ends
    MaxMessages     \* bound on the messages of a behaviour

ASSUME CapacityAssumption == Capacity \in Nat \ {0}

VARIABLES
    out,            \* write_stream: the bytes still to write
    stream,         \* the bytes in the kernel
    in,             \* read_stream: the bytes read into the buffer
    phase,          \* read_sctp_pkt: reading the length, the body, or ended
    need,           \* remaining_bytes of the reader
    sent, rcvd,     \* the messages handed to snd, those the handlers extract
    open            \* the writer's end is open

wireVars == <<out, stream, in, phase, need, sent, rcvd, open>>

\* The packet as the items are appended to it.
Appended(items) ==
    LET P[i \in 0 .. Len(items)] ==
            IF i = 0 THEN NewPacket ELSE AppendItem(P[i - 1], items[i])
    IN  P

\* A handler clears the packet, appends its items, ciphers what is there, adds
\* an HMAC to the cipher text and prepends the header.
Build(m) ==
    LET plain == Appended(m.items)[Len(m.items)]
        secret == IF m.enc THEN Enc(plain) ELSE plain
    IN  PrependItem(IF m.hmac THEN AddHmac(secret) ELSE secret, m.hdr)

\* What write_stream writes of each message: its length and its bytes.
Frames == [m \in Messages |-> Contents(PrependLen(Build(m)))]

\* The widths of the items tell their receiver what to extract.
IsItem(item) == item = Item(item.val, item.width) /\ item.width \in Nat \ {0}
Widths(items) == [i \in 1 .. Len(items) |-> items[i].width]

\* A message of any layout that fits the buffer; the type in the header tells
\* the handler, and with it the layout.
IsMessage(m) ==
    /\ m = [hdr |-> m.hdr, items |-> m.items, hmac |-> m.hmac, enc |-> m.enc]
    /\ IsItem(m.hdr)
    /\ m.items \in Seq({m.items[i] : i \in DOMAIN m.items})
    /\ \A i \in DOMAIN m.items : IsItem(m.items[i])
    /\ m.hmac \in BOOLEAN /\ m.enc \in BOOLEAN
    /\ LenWidth + Build(m).len <= BufSize

SameLayout(m, k) ==
    /\ m.hdr.width = k.hdr.width /\ Widths(m.items) = Widths(k.items)
    /\ m.hmac = k.hmac /\ m.enc = k.enc

ASSUME MessagesAssumption ==
    /\ \A m \in Messages : IsMessage(m)
    /\ \A m, k \in Messages : m.hdr.val = k.hdr.val => SameLayout(m, k)

WireInit ==
    /\ out = <<>> /\ stream = <<>> /\ in = <<>>
    /\ phase = "len" /\ need = LenWidth
    /\ sent = <<>> /\ rcvd = <<>> /\ open = TRUE

----------------------------------------------------------------------------
\* SctpClient::snd, SctpServer::snd: one message at a time.
Snd(m) ==
    /\ open
    /\ out = <<>>
    /\ Len(sent) < MaxMessages
    /\ out' = Frames[m]
    /\ sent' = Append(sent, m)
    /\ UNCHANGED <<stream, in, phase, need, rcvd, open>>

\* One write of k bytes, and the loop around it.
Write(k) ==
    /\ k <= Len(out)
    /\ Len(stream) + k <= Capacity
    /\ stream' = stream \o SubSeq(out, 1, k)
    /\ out' = SubSeq(out, k + 1, Len(out))
    /\ UNCHANGED <<in, phase, need, sent, rcvd, open>>

\* write returns -1 (SIGPIPE is ignored): snd prints the error and returns.
WriteFails ==
    /\ phase = "eof" /\ out # <<>>
    /\ out' = <<>>
    /\ UNCHANGED <<stream, in, phase, need, sent, rcvd, open>>

\* close, or the end of the process.
Close ==
    /\ open
    /\ open' = FALSE
    /\ out' = <<>>
    /\ UNCHANGED <<stream, in, phase, need, sent, rcvd>>

----------------------------------------------------------------------------
(* What a receiver makes of a packet                                       *)

\* The packet as a handler that expects items of these widths extracts them,
\* and what its extract_item calls return.
AfterItems(p, widths) ==
    LET After[i \in 0 .. Len(widths)] ==
            IF i = 0 THEN p ELSE AfterExtract(After[i - 1], widths[i])
    IN  After
ItemsOf(p, widths) ==
    [i \in 1 .. Len(widths) |-> Extracted(AfterItems(p, widths)[i - 1], widths[i])]

\* The handler of message m finds its header, its HMAC and its items: it
\* extracts the header, checks the HMAC, deciphers and extracts.
Reads(p, m) ==
    LET body == AfterExtract(p, m.hdr.width)
        bare == IF m.hmac THEN RemHmac(body) ELSE body
        plain == IF m.enc THEN Dec(bare) ELSE bare
    IN  /\ Extracted(p, m.hdr.width) = BytesOf(m.hdr)
        /\ m.hmac => HmacCheck(body)
        /\ m.enc => CanDec(bare)
        /\ ItemsOf(plain, Widths(m.items)) =
             [i \in 1 .. Len(m.items) |-> BytesOf(m.items[i])]

\* What it makes of the packet; other bytes are items nobody sent.
Garbage == [hdr |-> Item(Num(0), 1), items |-> <<>>, hmac |-> FALSE, enc |-> FALSE]
MessageOf(p) ==
    IF \E m \in Messages : Reads(p, m)
    THEN CHOOSE m \in Messages : Reads(p, m) ELSE Garbage

----------------------------------------------------------------------------
\* The int at the start of the buffer; other bytes are read as some number.
LenBytes(n) == BytesOf(Item(Num(n), LenWidth))
LenOf(bytes) ==
    IF \E n \in 1 .. BufSize : bytes = LenBytes(n)
    THEN CHOOSE n \in 1 .. BufSize : bytes = LenBytes(n) ELSE BufSize

\* Mutations: a short read of the body is taken for all of it; the count of
\* the bytes to read is not set again for the next length.
ReadDoneShort(buf, n) ==
    CASE n # 0 /\ phase = "len" -> in' = buf /\ need' = n /\ UNCHANGED <<phase, rcvd>>
      [] n = 0 /\ phase = "len" ->
           in' = <<>> /\ need' = LenOf(buf) /\ phase' = "body" /\ UNCHANGED rcvd
      [] phase = "body" ->
           /\ in' = <<>> /\ need' = LenWidth /\ phase' = "len"
           /\ rcvd' = Append(rcvd, MessageOf(Filled(buf)))

ReadDoneNoReset(buf, n) ==
    CASE n # 0 -> in' = buf /\ need' = n /\ UNCHANGED <<phase, rcvd>>
      [] n = 0 /\ phase = "len" ->
           in' = <<>> /\ need' = LenOf(buf) /\ phase' = "body" /\ UNCHANGED rcvd
      [] n = 0 /\ phase = "body" ->
           /\ in' = <<>> /\ need' = 0 /\ phase' = "len"
           /\ rcvd' = Append(rcvd, MessageOf(Filled(buf)))

\* What follows a read that leaves the bytes buf in the buffer and n to read.
ReadDone(buf, n) ==
    CASE n # 0 -> in' = buf /\ need' = n /\ UNCHANGED <<phase, rcvd>>
      [] n = 0 /\ phase = "len" ->
           in' = <<>> /\ need' = LenOf(buf) /\ phase' = "body" /\ UNCHANGED rcvd
      [] n = 0 /\ phase = "body" ->
           /\ in' = <<>> /\ need' = LenWidth /\ phase' = "len"
           /\ rcvd' = Append(rcvd, MessageOf(Filled(buf)))

\* One read of k bytes, and the loop around it.
Read(k) ==
    /\ phase # "eof"
    /\ k <= need /\ k <= Len(stream)
    /\ stream' = SubSeq(stream, k + 1, Len(stream))
    /\ ReadDone(in \o SubSeq(stream, 1, k), need - k)
    /\ UNCHANGED <<out, sent, open>>

\* Mutation: the end of the stream is not noticed inside a message.
ReadEofBetween ==
    /\ phase = "len"
    /\ stream = <<>> /\ ~open
    /\ phase' = "eof" /\ in' = <<>>
    /\ UNCHANGED <<out, stream, need, sent, rcvd, open>>

\* read returns 0: so does rcv, whatever it has read of the message.
ReadEof ==
    /\ phase # "eof"
    /\ stream = <<>> /\ ~open
    /\ phase' = "eof" /\ in' = <<>>
    /\ UNCHANGED <<out, stream, need, sent, rcvd, open>>

\* The reader closes its end, or ends; what it has read in part is gone.
Leave ==
    /\ phase # "eof"
    /\ phase' = "eof" /\ in' = <<>>
    /\ UNCHANGED <<out, stream, need, sent, rcvd, open>>

Reader == (\E k \in 1 .. Capacity : Read(k)) \/ ReadEof
Writer == (\E k \in 1 .. Capacity : Write(k)) \/ WriteFails

WireFinished == phase = "eof" /\ ~open /\ UNCHANGED wireVars

WireNext ==
    \/ \E m \in Messages : Snd(m)
    \/ Writer \/ Reader \/ Close \/ Leave
    \/ WireFinished

WireSpec == WireInit /\ [][WireNext]_wireVars

\* Both loops go on while they can; the reader serves its connection for ever.
WireLiveSpec == WireSpec /\ WF_wireVars(Reader) /\ WF_wireVars(Writer)

----------------------------------------------------------------------------
WireTypeOK ==
    /\ Len(stream) \in 0 .. Capacity
    /\ phase \in {"len", "body", "eof"} /\ need \in 1 .. BufSize
    /\ sent \in Seq(Messages) /\ open \in BOOLEAN
    /\ rcvd \in Seq(Messages)

\* The bytes of the messages ms after the first k.
Train(ms, k) ==
    LET T[i \in 0 .. Len(ms) - k] ==
            IF i = 0 THEN <<>> ELSE T[i - 1] \o Frames[ms[k + i]]
    IN  T[Len(ms) - k]

\* All that is under way, with the length the reader has already taken.
UnderWay ==
    (IF phase = "body" THEN LenBytes(Len(in) + need) ELSE <<>>)
       \o in \o stream \o out

\* The reader never loses its place, although neither end marks where a message
\* begins (network.cpp:169-193): with what it has in the buffer the bytes under
\* way are those of the messages it has not received, each after its length;
\* when the writer has gone, of as many of them as it got to write.
InStep ==
    phase # "eof" =>
       /\ phase = "len" => Len(in) + need = LenWidth
       /\ phase = "body" => Len(in) + need \in 1 .. BufSize
       /\ Len(rcvd) <= Len(sent)
       /\ Len(UnderWay) <= Len(Train(sent, Len(rcvd)))
       /\ UnderWay = SubSeq(Train(sent, Len(rcvd)), 1, Len(UnderWay))
       /\ open => UnderWay = Train(sent, Len(rcvd))

C == INSTANCE Channel

\* Whatever the reads and writes are, the two ends exchange whole messages in
\* order: what a handler extracts is what the other end's handler appended, and
\* none of the HMACs it checks on the way fails (packet.cpp, security.cpp,
\* network.cpp:105-193).
ImplementsChannel == C!Spec

\* While both ends are there every message arrives, although the kernel takes
\* and gives less than a message at a time (network.cpp:105-193).
Delivered ==
    \A i \in 1 .. MaxMessages :
       Len(sent) >= i ~> (Len(rcvd) >= i \/ ~open \/ phase = "eof")

\* The reader notices when the writer has gone, although that may be in the
\* middle of a length or of a body (network.cpp:169-193).
EndNoticed == ~open ~> phase = "eof"
=============================================================================
