------------------------------- MODULE MCWire -------------------------------
(***************************************************************************)
(* Messages of the four layouts the handlers use: plain items (the attach  *)
(* request), with an HMAC (the security mode command), ciphered with an    *)
(* HMAC, where the items fill a block (attach accept) or leave one open    *)
(* (the detach complete).                                                  *)
(***************************************************************************)
EXTENDS Wire

Message(type, items, hmac, enc) ==
    [hdr |-> Item(Num(type), 1), items |-> items, hmac |-> hmac, enc |-> enc]

MCMessages ==
    {Message(1, <<Item(Num(31), 1), Item(Num(32), 2), Item(Num(33), 1)>>, FALSE, FALSE),
     Message(2, <<Item(Num(31), 1)>>, TRUE, FALSE),
     Message(3, <<Item(Num(31), 1), Item(Num(32), 1)>>, TRUE, TRUE),
     Message(5, <<Item(Num(34), 1)>>, TRUE, TRUE)}
=============================================================================
