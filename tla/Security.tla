------------------------------ MODULE Security ------------------------------
(***************************************************************************)
(* Crypt and Integrity of security.cpp, as far as the packet goes.  Both   *)
(* classes have a key of their own, the same in every process: the keys    *)
(* k_nas_enc and k_nas_int that the handlers pass have no effect.  The     *)
(* HMAC and the cipher text of some bytes are values of their own, equal   *)
(* only for equal bytes, and no byte of theirs says anything alone.        *)
(***************************************************************************)
EXTENDS Packet

CONSTANTS
    HmacLen,        \* HMAC_LEN, 20
    BlockLen        \* the block of AES, 16

ASSUME HmacLenAssumption == HmacLen \in Nat \ {0}
ASSUME BlockLenAssumption == BlockLen \in Nat \ {0}

Hmac(bytes) == BytesOf(Item(<<"hmac", bytes>>, HmacLen))

\* The padding fills the last block and is a whole block when none is open.
CipherLen(n) == (n \div BlockLen + 1) * BlockLen
Cipher(bytes) == BytesOf(Item(<<"cipher", bytes>>, CipherLen(Len(bytes))))

\* Crypt::enc, Integrity::add_hmac: the cipher text in place of the contents,
\* the HMAC before them.
Enc(p) == Filled(Cipher(Contents(p)))
AddHmac(p) == PrependItem(p, Item(<<"hmac", Contents(p)>>, HmacLen))

\* Mutation: the HMAC is extracted and left in the packet.
RemHmacKept(p) == AfterExtract(p, HmacLen)

\* Integrity::rem_hmac and hmac_check of a packet after its header.
RemHmac(p) == Truncate(AfterExtract(p, HmacLen))
HmacCheck(p) == Extracted(p, HmacLen) = Hmac(Contents(RemHmac(p)))

\* Crypt::dec.  The library refuses what is not a cipher text.
CanDec(p) ==
    LET text == Contents(Truncate(p))
    IN  /\ text # <<>>
        /\ text[1][1][1] = "cipher"
        /\ text = Cipher(text[1][1][2])
Dec(p) == Filled(Contents(Truncate(p))[1][1][2])
=============================================================================
