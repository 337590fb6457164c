---------------------------- MODULE Registration ----------------------------
(***************************************************************************)
(* What the AMF promises about the ids it gives to subscribers, whatever   *)
(* fails around it: an id is given to a subscriber that asks for one, the  *)
(* id a subscriber learns is its own, and while the subscriber knows it    *)
(* the AMF neither removes it nor gives it to somebody else.               *)
(***************************************************************************)
EXTENDS Naturals

CONSTANTS
    Subscribers,
    Ids,
    None            \* the owner of an id nobody has, no subscriber

VARIABLES
    owner,          \* the subscriber of each id
    stage,          \* what a subscriber is doing
    id              \* the id a subscriber has learnt last

vars == <<owner, stage, id>>

Stages == {"out", "asking", "known", "leaving"}

TypeOK ==
    /\ owner \in [Ids -> Subscribers \cup {None}]
    /\ stage \in [Subscribers -> Stages]
    /\ id \in [Subscribers -> Ids]

InUse(i) ==
    /\ owner[i] # None
    /\ stage[owner[i]] = "known" /\ id[owner[i]] = i

Init ==
    /\ owner = [i \in Ids |-> None]
    /\ stage = [n \in Subscribers |-> "out"]
    /\ id \in [Subscribers -> Ids]

Goto(n, from, to) == stage[n] = from /\ stage' = [stage EXCEPT ![n] = to]

Ask(n) == Goto(n, "out", "asking") /\ UNCHANGED <<owner, id>>

Assign(n, i) ==
    /\ stage[n] = "asking" /\ owner[i] = None
    /\ owner' = [owner EXCEPT ![i] = n]
    /\ UNCHANGED <<stage, id>>

Learn(n, i) ==
    /\ Goto(n, "asking", "known")
    /\ owner[i] = n
    /\ id' = [id EXCEPT ![n] = i]
    /\ UNCHANGED owner

Leave(n) == Goto(n, "known", "leaving") /\ UNCHANGED <<owner, id>>

Remove(i) ==
    /\ ~InUse(i)
    /\ owner' = [owner EXCEPT ![i] = None]
    /\ UNCHANGED <<stage, id>>

\* The subscriber is done, or gives up.
End(n) ==
    /\ stage' = [stage EXCEPT ![n] = "out"]
    /\ UNCHANGED <<owner, id>>

Next ==
    \/ \E n \in Subscribers : Ask(n) \/ Leave(n) \/ End(n)
    \/ \E n \in Subscribers, i \in Ids : Assign(n, i) \/ Learn(n, i)
    \/ \E i \in Ids : Remove(i)

Spec == Init /\ [][Next]_vars
=============================================================================
