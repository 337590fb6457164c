----------------------------- MODULE MCHandover -----------------------------
(***************************************************************************)
(* Handover as the runs check it, with what a comment of the code says of  *)
(* it and the code does not do.                                            *)
(***************************************************************************)
EXTENDS Handover

\* amf.cpp:1007: "give your uplink id to target ran".  ran.cpp:396: it "will be
\* used after HO".
TargetHasUplink ==
    \A n \in Ues : (InHandover(n) /\ ho[n].tgt = 3) => s1_id[ho[n].ul] = Imsi(n)
=============================================================================
