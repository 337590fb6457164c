-------------------------------- MODULE Ausf --------------------------------
(***************************************************************************)
(* The authentication server keeps no state: it turns the subscriber's key *)
(* into an authentication vector (ausf.cpp, handle_autninfo_req) and the   *)
(* RAN simulator computes the same values from the challenge               *)
(* (ran.cpp, authenticate).  Row n of the database has key n; the AUSF     *)
(* takes both its key and its random number from member "key" of the       *)
(* UDM's answer.                                                           *)
(***************************************************************************)
EXTENDS Platform

PlmnId == 11        \* Telecom::get_plmn_id(1, 1)

DbKey(imsi) == imsi - 1

\* The subscriber's response to a challenge, and the key both sides derive.
AutnResponse(key, rand_num) == key + (rand_num + 1) + rand_num
KAsme(res, rand_num) == (res + 2) + (res + 3) + (rand_num + 1) + PlmnId

AuthVector(imsi) ==
    LET key == DbKey(imsi)
        rand_num == DbKey(imsi)
        xres == AutnResponse(key, rand_num)
    IN  [rand_num |-> rand_num, xres |-> xres, autn_num |-> xres + 1,
         k_asme |-> KAsme(xres, rand_num)]
=============================================================================
