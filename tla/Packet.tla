------------------------------- MODULE Packet -------------------------------
(***************************************************************************)
(* Packet of packet.cpp: a buffer of BufSize bytes, a position and a       *)
(* length.  Both ends of a message agree on the items in it and on their   *)
(* order, and on nothing else: no item carries its type.                   *)
(*                                                                         *)
(* An item is a value of a fixed width; a byte is a value and the place of *)
(* the byte in it, so that bytes read as an item again only when they are  *)
(* all of its bytes, in order.  A header (GTP, S1AP) is one wide item, a   *)
(* string an int followed by its characters.                               *)
(***************************************************************************)
EXTENDS Naturals, Sequences

CONSTANTS
    BufSize,        \* BUF_SIZE, 1024
    LenWidth        \* sizeof(int), 4

ASSUME BufSizeAssumption == BufSize \in Nat
ASSUME LenWidthAssumption == LenWidth \in 1 .. BufSize

\* Values carry their kind: a number, or what Security makes of bytes.
Num(n) == <<"num", n>>
Zero == <<Num(0), 0>>
Item(val, width) == [val |-> val, width |-> width]
BytesOf(item) == [i \in 1 .. item.width |-> <<item.val, i>>]

NewPacket == [data |-> [i \in 1 .. BufSize |-> Zero], ptr |-> 0, len |-> 0]

\* The buffer with the sequence s written after the first at bytes.
Overwrite(data, at, s) ==
    SubSeq(data, 1, at) \o s \o SubSeq(data, at + Len(s) + 1, BufSize)

AppendItem(p, item) ==
    [data |-> Overwrite(p.data, p.ptr, BytesOf(item)),
     ptr |-> p.ptr + item.width, len |-> p.len + item.width]

Contents(p) == SubSeq(p.data, 1, p.len)

\* prepend_item, prepend_gtp_hdr, prepend_s1ap_hdr and prepend_len: the contents move up.
PrependItem(p, item) ==
    [data |-> Overwrite(NewPacket.data, 0, BytesOf(item) \o Contents(p)),
     ptr |-> p.ptr + item.width, len |-> p.len + item.width]

\* Mutation: the length counts its own bytes.
PrependLenTotal(p) == PrependItem(p, Item(Num(p.len + LenWidth), LenWidth))

PrependLen(p) == PrependItem(p, Item(Num(p.len), LenWidth))

\* What extract_item copies out of the buffer, and the packet after it.
Extracted(p, width) == SubSeq(p.data, p.ptr + 1, p.ptr + width)
AfterExtract(p, width) == [p EXCEPT !.ptr = @ + width]

\* The packet a receive makes of the bytes it has read.
Filled(bytes) ==
    [data |-> Overwrite(NewPacket.data, 0, bytes), ptr |-> 0, len |-> Len(bytes)]

\* truncate: what has been extracted goes.
Truncate(p) == Filled(SubSeq(p.data, p.ptr + 1, p.len))
=============================================================================
