-------------------------------- MODULE Udm --------------------------------
(***************************************************************************)
(* The unified data manager: the UE contexts of every control-plane        *)
(* process live here, in one map keyed by GUTI, and the location rows live *)
(* in the database behind it.  Each operator below is one REST handler of  *)
(* udm.cpp; a handler runs under uectx_mux and so is one atomic step.  A   *)
(* context is created by operator[] on first use with the zeros of its     *)
(* constructor, which is why the map is total here.                        *)
(*                                                                         *)
(* A handler that only reads is the expression the caller evaluates: the   *)
(* record udm_ctx[guti].                                                   *)
(***************************************************************************)
EXTENDS Platform

VARIABLES
    udm_ctx,        \* Udm::ue_ctx
    loc_info        \* rows of table loc_info, per IMSI (it has no key)

udmVars == <<udm_ctx, loc_info>>

CtxCount == 1       \* UeContext::count; bearer is 0
CtxDir == 1         \* UeContext::dir

NoUdmContext ==
    [imsi |-> 0, mme_s1ap_ue_id |-> 0, xres |-> 0, k_asme |-> 0,
     k_nas_enc |-> 0, k_nas_int |-> 0, s11_cteid_amf |-> 0,
     s11_cteid_mme |-> 0, s11_cteid_upf |-> 0, s11_cteid_sgw |-> 0,
     s1_uteid_ul |-> 0, s1_uteid_dl |-> 0, ip_addr |-> 0, tau_timer |-> 0,
     emm_state |-> 0, ecm_state |-> 0]

UdmInit ==
    /\ udm_ctx = [g \in Imsis |-> NoUdmContext]
    /\ loc_info = [i \in Imsis |-> 0]

\* Mutation: the key leaves out the counter of the context.
NasKeyNoCount(ctx) == ctx.k_asme + 1 + CtxDir

\* The algorithms the AMF selects are both number 1, so the two NAS keys agree.
NasKey(ctx) == ctx.k_asme + 1 + CtxCount + CtxDir

UpdateInitialAttachInit(guti, imsi, mme_s1ap_ue_id) ==
    /\ udm_ctx' = [udm_ctx EXCEPT ![guti] =
                       [@ EXCEPT !.imsi = imsi,
                                 !.mme_s1ap_ue_id = mme_s1ap_ue_id]]
    /\ UNCHANGED loc_info

UpdateInitialAttach(guti, xres, k_asme) ==
    /\ udm_ctx' = [udm_ctx EXCEPT ![guti] =
                       [@ EXCEPT !.xres = xres, !.k_asme = k_asme]]
    /\ UNCHANGED loc_info

SetCrypt(guti) ==
    /\ udm_ctx' = [udm_ctx EXCEPT ![guti].k_nas_enc = NasKey(udm_ctx[guti])]
    /\ UNCHANGED loc_info

SetIntegrity(guti) ==
    /\ udm_ctx' = [udm_ctx EXCEPT ![guti].k_nas_int = NasKey(udm_ctx[guti])]
    /\ UNCHANGED loc_info

\* Mutation: the old location row is not deleted.
DeleteLocInfoSkipped(imsi) == UNCHANGED udmVars

\* Udm::set_loc_info is two statements under two separate locks.
DeleteLocInfo(imsi) ==
    /\ loc_info' = [loc_info EXCEPT ![imsi] = 0]
    /\ UNCHANGED udm_ctx

InsertLocInfo(imsi) ==
    /\ loc_info' = [loc_info EXCEPT ![imsi] = @ + 1]
    /\ UNCHANGED udm_ctx

HandleCreateSessionBegin(guti, s11_cteid_amf) ==
    /\ udm_ctx' = [udm_ctx EXCEPT ![guti].s11_cteid_amf = s11_cteid_amf]
    /\ UNCHANGED loc_info

\* Mutation: the UE's address is not stored.
CreateSessionNoAddress(guti, s11_cteid_upf, ip_addr, s1_uteid_ul, tau_timer) ==
    /\ udm_ctx' = [udm_ctx EXCEPT ![guti] =
                       [@ EXCEPT !.s11_cteid_upf = s11_cteid_upf,
                                 !.ip_addr = 0,
                                 !.s1_uteid_ul = s1_uteid_ul,
                                 !.tau_timer = tau_timer]]
    /\ UNCHANGED loc_info

HandleCreateSessionEnd(guti, s11_cteid_upf, ip_addr, s1_uteid_ul, tau_timer) ==
    /\ udm_ctx' = [udm_ctx EXCEPT ![guti] =
                       [@ EXCEPT !.s11_cteid_upf = s11_cteid_upf,
                                 !.ip_addr = ip_addr,
                                 !.s1_uteid_ul = s1_uteid_ul,
                                 !.tau_timer = tau_timer]]
    /\ UNCHANGED loc_info

\* Mutation: the downlink teid of the attach complete is not stored.
UpdateAttachCompleteNoTeid(guti, s1_uteid_dl) ==
    /\ udm_ctx' = [udm_ctx EXCEPT ![guti].emm_state = 1]
    /\ UNCHANGED loc_info

UpdateAttachComplete(guti, s1_uteid_dl) ==
    /\ udm_ctx' = [udm_ctx EXCEPT ![guti] =
                       [@ EXCEPT !.s1_uteid_dl = s1_uteid_dl, !.emm_state = 1]]
    /\ UNCHANGED loc_info

HandleModifyBearer(guti) ==
    /\ udm_ctx' = [udm_ctx EXCEPT ![guti].ecm_state = 1]
    /\ UNCHANGED loc_info

RequestSmfCreateSession(guti, imsi, s11_cteid_mme) ==
    /\ udm_ctx' = [udm_ctx EXCEPT ![guti] =
                       [@ EXCEPT !.imsi = imsi,
                                 !.s11_cteid_mme = s11_cteid_mme]]
    /\ UNCHANGED loc_info

\* The handler takes its arguments out of a JSON object, where a member that
\* is missing reads 0.
JsonMember(req, name) == IF name \in DOMAIN req THEN req[name] ELSE 0

UpdateSmfCreateSession(req) ==
    /\ udm_ctx' = [udm_ctx EXCEPT ![req.guti] =
                       [@ EXCEPT !.s11_cteid_sgw = JsonMember(req, "s11_cteid_sgw"),
                                 !.ip_addr = JsonMember(req, "ue_ip_addr"),
                                 !.s1_uteid_ul = JsonMember(req, "s1_uteid_ul"),
                                 !.tau_timer = JsonMember(req, "tau_timer")]]
    /\ UNCHANGED loc_info

UdmContexts ==
    [imsi : {0} \cup Imsis, mme_s1ap_ue_id : MmeIds, xres : Nat, k_asme : Nat,
     k_nas_enc : Nat, k_nas_int : Nat, s11_cteid_amf : Teids,
     s11_cteid_mme : Teids, s11_cteid_upf : Teids, s11_cteid_sgw : Teids,
     s1_uteid_ul : Teids, s1_uteid_dl : Teids, ip_addr : Addresses,
     tau_timer : Nat, emm_state : {0, 1}, ecm_state : {0, 1}]

UdmTypeOK ==
    /\ udm_ctx \in [Imsis -> UdmContexts]
    /\ loc_info \in [Imsis -> Nat]
=============================================================================
