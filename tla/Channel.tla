------------------------------ MODULE Channel ------------------------------
(***************************************************************************)
(* What a connection promises: whole messages, in order, none twice and    *)
(* none invented.  When the sender goes, what it sent last may be lost.    *)
(***************************************************************************)
EXTENDS Naturals, Sequences

CONSTANT Messages

VARIABLES
    sent, rcvd,     \* the messages so far
    open            \* the sender's end is there

vars == <<sent, rcvd, open>>

Init == sent = <<>> /\ rcvd = <<>> /\ open = TRUE

Send(m) ==
    /\ open
    /\ sent' = Append(sent, m)
    /\ UNCHANGED <<rcvd, open>>

Deliver ==
    /\ Len(rcvd) < Len(sent)
    /\ rcvd' = Append(rcvd, sent[Len(rcvd) + 1])
    /\ UNCHANGED <<sent, open>>

Close == open /\ open' = FALSE /\ UNCHANGED <<sent, rcvd>>

Next == (\E m \in Messages : Send(m)) \/ Deliver \/ Close

Spec == Init /\ [][Next]_vars
=============================================================================
