--------------------------- MODULE FailureProofs ---------------------------
(***************************************************************************)
(* What calls that fail between the servers do not break, for every number *)
(* of subscribers, workers and failing calls, whatever is lost or late on  *)
(* N4 and if the AMF is killed: no UE gets past an authentication that the *)
(* UDM could not check, a detach request names the GUTI of its sender, and *)
(* no process but the UPF ends itself.                                     *)
(*                                                                         *)
(* The invariant is FailInv.  All it says of a subscriber is local to the  *)
(* subscriber (Away), and most steps of a handler, whether the call of the *)
(* step answers or not, only move the handler on (Onward).                 *)
(***************************************************************************)
EXTENDS ConversationProofs, Failures

USE UeCountAssumption, WorkerCountAssumption, IdSpaceAssumption

----------------------------------------------------------------------------
(* Types                                                                   *)

\* A handler that goes on to a step without a promise of its own.
LEMMA GotoType ==
    ASSUME AmfTypeOK, NEW w \in Workers, NEW pc \in OpenPcs, AmfGoto(w, pc),
           UNCHANGED <<ue_count, s1amf_id>>, amf_ctx' \in [Imsis -> AmfContexts]
    PROVE  AmfTypeOK'
<1>1. FitsPc([amf[w] EXCEPT !.pc = pc])
  BY AmfStateType, IdentityTypes
<1>. QED  BY <1>1, AmfUpdateType DEF AmfGoto, AmfTypeOK

\* A handler that returns.
LEMMA ReturnType ==
    ASSUME AmfTypeOK, NEW w \in Workers, AmfReturn(w), UNCHANGED ue_count,
           s1amf_id' \in [MmeIds -> {0} \cup Imsis],
           amf_ctx' \in [Imsis -> AmfContexts]
    PROVE  AmfTypeOK'
BY AmfStateType, AmfUpdateType DEF AmfReturn, AmfTypeOK

\* A handler that keeps the GUTI and perhaps another IMSI.
LEMMA LocalsType ==
    ASSUME AmfTypeOK, NEW w \in Workers, NEW pc \in OpenPcs,
           NEW g \in {0} \cup Imsis, NEW i \in {0} \cup Imsis,
           \/ amf' = [amf EXCEPT ![w] = [@ EXCEPT !.guti = g, !.pc = pc]]
           \/ amf' = [amf EXCEPT ![w] = [@ EXCEPT !.guti = g, !.imsi = i, !.pc = pc]],
           UNCHANGED <<ue_count, s1amf_id>>, amf_ctx' \in [Imsis -> AmfContexts]
    PROVE  AmfTypeOK'
<1>1. /\ FitsPc([amf[w] EXCEPT !.guti = g, !.pc = pc])
      /\ FitsPc([amf[w] EXCEPT !.guti = g, !.imsi = i, !.pc = pc])
  BY AmfStateType
<1>. QED  BY <1>1, AmfUpdateType DEF AmfTypeOK

\* The vectors a challenge may be made of when calls fail.
LEMMA VectorTypes ==
    /\ \A i \in Imsis : LET v == AuthVector(i)
                        IN  /\ v.xres \in Nat /\ v.k_asme \in Nat
                            /\ v.autn_num \in Nat /\ v.rand_num \in Nat
    /\ \A v \in {NoVector, AuthVector(1)} :
          /\ v.xres \in Nat /\ v.k_asme \in Nat
          /\ v.autn_num \in Nat /\ v.rand_num \in Nat
<1>1. ASSUME NEW i \in Imsis
      PROVE  LET v == AuthVector(i)
             IN  /\ v.xres \in Nat /\ v.k_asme \in Nat
                 /\ v.autn_num \in Nat /\ v.rand_num \in Nat
  <2>1. DbKey(i) \in Nat
    BY IdentityTypes
  <2>. QED  BY <2>1 DEF AuthVector, AutnResponse, KAsme, PlmnId
<1>2. 1 \in Imsis
  BY DEF Imsis
<1>. QED  BY <1>1, <1>2 DEF NoVector

\* A challenge that is sent, from whatever vector.
LEMMA ChallengeType ==
    ASSUME ServerTypeOK, AmfTypeOK, NEW w \in Workers, NEW a \in Nat, NEW r \in Nat,
           SendDown(w, [DownlinkMessage(1, amf[w].id) EXCEPT !.autn = a, !.rand_num = r])
    PROVE  down' \in [Ues -> Seq(DownlinkMessages)]
<1>1. amf[w].id \in MmeIds
  BY AmfStateType
<1>. QED  BY <1>1, DownlinkMessageType, SendDownType

\* The calls of the first half of an attach that fail, and those that change
\* nothing but the handler.
LEMMA AttachFailsType ==
    ASSUME AmfParts, NEW w \in Workers,
           \/ AttachInitFails(w) \/ AuthenticateFails(w)
           \/ UpdateInitialAttachFails(w) \/ SetAuthFails(w)
           \/ SetCryptFails(w) \/ SetIntegrityFails(w)
    PROVE  AmfParts'
<1> USE DEF AmfParts
<1>0. /\ amf[w].guti \in {0} \cup Imsis /\ amf[w].imsi \in {0} \cup Imsis
      /\ GutiOf(w) \in {0} \cup Imsis
  BY AmfStateType
<1>c. /\ s1amf_id \in [MmeIds -> {0} \cup Imsis] /\ amf_ctx \in [Imsis -> AmfContexts]
      /\ \A g \in Imsis : udm_ctx[g] \in UdmContexts
      /\ \A g : [amf_ctx EXCEPT ![g].present = TRUE] \in [Imsis -> AmfContexts]
  <2>1. /\ s1amf_id \in [MmeIds -> {0} \cup Imsis] /\ amf_ctx \in [Imsis -> AmfContexts]
        /\ \A g \in Imsis : udm_ctx[g] \in UdmContexts
    BY DEF AmfTypeOK, UdmTypeOK
  <2>2. ASSUME NEW g
        PROVE  [amf_ctx EXCEPT ![g].present = TRUE] \in [Imsis -> AmfContexts]
    BY <2>1 DEF AmfContexts
  <2>. QED  BY <2>1, <2>2
<1>d. ASSUME UNCHANGED <<exited, smfVars, localFrame>>,
             UdmTypeOK', AmfTypeOK', down' \in [Ues -> Seq(DownlinkMessages)]
      PROVE  AmfParts'
  <2>1. PlatformTypeOK' /\ SmfTypeOK'
    BY <1>d DEF PlatformTypeOK, SmfTypeOK, smfVars
  <2>2. UpfTypeOK'
    BY <1>d DEF UpfTypeOK, localFrame, unusedByAmf, upfVars
  <2>3. ServerTypeOK'
    BY <1>d DEF ServerTypeOK, localFrame, unusedByAmf
  <2>. QED  BY <1>d, <2>1, <2>2, <2>3
<1>e. ASSUME UNCHANGED udmVars PROVE UdmTypeOK'
  BY <1>e DEF UdmTypeOK, udmVars
<1>i. ASSUME UNCHANGED down PROVE down' \in [Ues -> Seq(DownlinkMessages)]
  BY <1>i DEF ServerTypeOK
<1>j. {"security_cmd", "integrity", "security_send"} \subseteq OpenPcs
  BY DEF OpenPcs, AmfPcs
<1>1. CASE AttachInitFails(w)
  <2> DEFINE r == [amf[w] EXCEPT !.pc = "attach_auth"]
  <2>1. r \in AmfStates
    BY AmfStateType DEF AmfStates, AmfPcs
  <2>2. r.imsi # 0 /\ r.pc = "attach_auth"
    BY <1>1, AmfStateType DEF AttachInitFails, AmfAt, AmfTypeOK, AmfStates
  <2>3. FitsPc(r)
    BY <2>1, <2>2 DEF FitsPc
  <2>4. amf' = [amf EXCEPT ![w] = r] /\ amf_ctx' \in [Imsis -> AmfContexts]
    BY <1>1, <1>c DEF AttachInitFails, AmfGoto
  <2>5. AmfTypeOK'
    BY <1>1, <2>3, <2>4, AmfUpdateType DEF AttachInitFails, AmfTypeOK
  <2>. QED  BY <1>1, <1>d, <1>e, <1>i, <2>5 DEF AttachInitFails
<1>2. CASE AuthenticateFails(w)
  <2>1. PICK v \in {NoVector, AuthVector(1)} :
           /\ UpdateInitialAttach(amf[w].guti, v.xres, v.k_asme)
           /\ SendDown(w, [DownlinkMessage(1, amf[w].id) EXCEPT
                             !.autn = v.autn_num, !.rand_num = v.rand_num])
    BY <1>2 DEF AuthenticateFails
  <2>2. v.xres \in Nat /\ v.k_asme \in Nat /\ v.autn_num \in Nat /\ v.rand_num \in Nat
    BY VectorTypes
  <2> DEFINE c == [udm_ctx[amf[w].guti] EXCEPT !.xres = v.xres, !.k_asme = v.k_asme]
  <2>3. amf[w].guti \in Imsis => c \in UdmContexts
    BY <1>c, <2>2, UdmUpdateTypes
  <2>4. udm_ctx' = [udm_ctx EXCEPT ![amf[w].guti] = c] /\ UNCHANGED loc_info
    BY <2>1 DEF UpdateInitialAttach
  <2>5. UdmTypeOK'
    BY <2>3, <2>4, UdmHandlerType
  <2>6. down' \in [Ues -> Seq(DownlinkMessages)]
    BY <2>1, <2>2, ChallengeType
  <2>7. AmfTypeOK'
    BY <1>2, <1>c, ReturnType DEF AuthenticateFails
  <2>. QED  BY <1>2, <1>d, <2>5, <2>6, <2>7 DEF AuthenticateFails
<1>3. CASE UpdateInitialAttachFails(w)
  <2> DEFINE v == AuthVector(amf[w].imsi)
  <2>1. amf[w].imsi \in Imsis
    BY <1>0, <1>3 DEF UpdateInitialAttachFails, AmfAt, AmfTypeOK
  <2>2. v.autn_num \in Nat /\ v.rand_num \in Nat
    BY <2>1, VectorTypes
  <2>3. SendDown(w, [DownlinkMessage(1, amf[w].id) EXCEPT
                       !.autn = v.autn_num, !.rand_num = v.rand_num])
    BY <1>3 DEF UpdateInitialAttachFails
  <2> HIDE DEF v
  <2>4. down' \in [Ues -> Seq(DownlinkMessages)]
    BY <2>2, <2>3, ChallengeType
  <2>5. AmfTypeOK'
    BY <1>3, <1>c, ReturnType DEF UpdateInitialAttachFails
  <2>. QED  BY <1>3, <1>d, <1>e, <2>4, <2>5 DEF UpdateInitialAttachFails
<1>4. CASE SetAuthFails(w)
  <2>1. CASE amf[w].arg = 0
    <3>1. AmfTypeOK'
      BY <1>4, <1>c, <1>j, <2>1, GotoType DEF SetAuthFails
    <3>. QED  BY <1>4, <1>d, <1>e, <1>i, <3>1 DEF SetAuthFails
  <2>2. CASE amf[w].arg # 0
    <3>0. /\ s1amf_id' = [s1amf_id EXCEPT ![amf[w].id] = 0]
          /\ amf_ctx' = [amf_ctx EXCEPT ![GutiOf(w)] = NoAmfContext]
          /\ NoAmfContext \in AmfContexts
      BY <1>4, <2>2, AmfContextTypes DEF SetAuthFails
    <3>1. /\ s1amf_id' \in [MmeIds -> {0} \cup Imsis]
          /\ amf_ctx' \in [Imsis -> AmfContexts]
      BY <1>c, <3>0
    <3>2. AmfTypeOK'
      BY <1>4, <2>2, <3>1, ReturnType DEF SetAuthFails
    <3>. QED  BY <1>4, <1>d, <1>e, <1>i, <3>2 DEF SetAuthFails
  <2>. QED  BY <2>1, <2>2
<1>5. CASE SetCryptFails(w)
  <2>0. /\ amf' = [amf EXCEPT ![w] = [@ EXCEPT !.guti = GutiOf(w), !.pc = "integrity"]]
        /\ UNCHANGED <<ue_count, s1amf_id, amf_ctx>>
    BY <1>5 DEF SetCryptFails
  <2>1. AmfTypeOK'
    BY <1>0, <1>c, <1>j, <2>0, LocalsType
  <2>. QED  BY <1>5, <1>d, <1>e, <1>i, <2>1 DEF SetCryptFails
<1>6. CASE SetIntegrityFails(w)
  <2>1. amf_ctx' \in [Imsis -> AmfContexts]
    BY <1>6, <1>c DEF SetIntegrityFails
  <2>2. AmfTypeOK'
    BY <1>6, <1>j, <2>1, GotoType DEF SetIntegrityFails
  <2>. QED  BY <1>6, <1>d, <1>e, <1>i, <2>2 DEF SetIntegrityFails
<1>. QED  BY <1>1, <1>2, <1>3, <1>4, <1>5, <1>6

\* The calls of the second half of an attach and of the other handlers.
LEMMA SessionFailsType ==
    ASSUME AmfParts, NEW w \in Workers,
           \/ LocationUpdateFails(w) \/ SetLocInfoFails(w)
           \/ CreateSessionBeginFails(w) \/ CreateSessionEndFails(w)
           \/ AttachCompleteFails(w) \/ ModifyBearerBeginFails(w)
           \/ SmfCallFails(w)
    PROVE  AmfParts'
<1> USE DEF AmfParts
<1>0. /\ amf[w].guti \in {0} \cup Imsis /\ amf[w].imsi \in {0} \cup Imsis
      /\ GutiOf(w) \in {0} \cup Imsis /\ amf[w].id \in MmeIds
  BY AmfStateType
<1>c. /\ s1amf_id \in [MmeIds -> {0} \cup Imsis] /\ amf_ctx \in [Imsis -> AmfContexts]
      /\ \A g \in Imsis : udm_ctx[g] \in UdmContexts
  BY DEF AmfTypeOK, UdmTypeOK
<1>d. ASSUME UNCHANGED <<exited, localFrame>>,
             UdmTypeOK', SmfTypeOK', AmfTypeOK', down' \in [Ues -> Seq(DownlinkMessages)]
      PROVE  AmfParts'
  <2>1. PlatformTypeOK'
    BY <1>d DEF PlatformTypeOK
  <2>2. UpfTypeOK'
    BY <1>d DEF UpfTypeOK, localFrame, unusedByAmf, upfVars
  <2>3. ServerTypeOK'
    BY <1>d DEF ServerTypeOK, localFrame, unusedByAmf
  <2>. QED  BY <1>d, <2>1, <2>2, <2>3
<1>e. ASSUME UNCHANGED udmVars PROVE UdmTypeOK'
  BY <1>e DEF UdmTypeOK, udmVars
<1>g. ASSUME UNCHANGED smfVars PROVE SmfTypeOK'
  BY <1>g DEF SmfTypeOK, smfVars
<1>i. ASSUME UNCHANGED down PROVE down' \in [Ues -> Seq(DownlinkMessages)]
  BY <1>i DEF ServerTypeOK
<1>j. {"loc_delete", "session", "session_end", "modify", "modify_end"} \subseteq OpenPcs
  BY DEF OpenPcs, AmfPcs
<1>m. /\ smf[w] \in SmfStates
      /\ smf[w].guti \in {0} \cup Imsis /\ smf[w].ip \in Addresses
      /\ smf[w].ul \in Teids
  BY DEF SmfTypeOK, SmfStates
<1>1. CASE LocationUpdateFails(w)
  <2>0. /\ amf' = [amf EXCEPT ![w] = [@ EXCEPT !.guti = GutiOf(w), !.imsi = 0,
                                               !.pc = "loc_delete"]]
        /\ UNCHANGED <<ue_count, s1amf_id, amf_ctx>>
    BY <1>1 DEF LocationUpdateFails
  <2>1. AmfTypeOK'
    BY <1>0, <1>c, <1>j, <2>0, LocalsType
  <2>. QED  BY <1>1, <1>d, <1>e, <1>g, <1>i, <2>1 DEF LocationUpdateFails
<1>2. CASE SetLocInfoFails(w)
  <2>1. PICK apn \in {0, 1} :
           /\ UNCHANGED udmVars \/ InsertLocInfo(amf[w].imsi)
           /\ amf_ctx' = [amf_ctx EXCEPT ![amf[w].guti] =
                              [@ EXCEPT !.present = TRUE, !.apn_in_use = apn]]
    BY <1>2 DEF SetLocInfoFails
  <2>2. UdmTypeOK'
    <3> DEFINE i == amf[w].imsi
    <3>1. CASE InsertLocInfo(i)
      <4>1. /\ loc_info' = [loc_info EXCEPT ![i] = loc_info[i] + 1]
            /\ UNCHANGED udm_ctx
        BY <3>1 DEF InsertLocInfo
      <4>2. i \in Imsis => loc_info[i] + 1 \in Nat
        BY DEF UdmTypeOK
      <4> HIDE DEF i
      <4>. QED  BY <4>1, <4>2 DEF UdmTypeOK
    <3>. QED  BY <1>e, <2>1, <3>1
  <2>3. amf_ctx' \in [Imsis -> AmfContexts]
    BY <1>c, <2>1 DEF AmfContexts
  <2>4. AmfTypeOK'
    BY <1>2, <1>j, <2>3, GotoType DEF SetLocInfoFails
  <2>. QED  BY <1>2, <1>d, <1>g, <1>i, <2>2, <2>4 DEF SetLocInfoFails
<1>3. CASE CreateSessionBeginFails(w)
  <2> DEFINE g == GutiOf(w)
             t == GetS11CteidAmf(g)
             c == [udm_ctx[g] EXCEPT !.s11_cteid_amf = t]
             d == [amf_ctx[g] EXCEPT !.present = TRUE, !.s11_cteid_amf = t]
  <2>1. g \in Imsis /\ t \in Teids
    BY <1>0, <1>3, IdentityTypes DEF CreateSessionBeginFails
  <2>2. c \in UdmContexts
    BY <1>c, <2>1, UdmUpdateTypes
  <2>3. \/ udm_ctx' = [udm_ctx EXCEPT ![g] = c] /\ UNCHANGED loc_info
        \/ UNCHANGED udmVars
    BY <1>3 DEF CreateSessionBeginFails, HandleCreateSessionBegin
  <2>4. UdmTypeOK'
    BY <1>e, <2>2, <2>3, UdmHandlerType
  <2>5. SmfTypeOK'
    <3>1. CallSmf(w, "create", g, 0, 0) /\ UNCHANGED timeouts
      BY <1>3 DEF CreateSessionBeginFails
    <3>2. g \in {0} \cup Imsis /\ "create" \in N4Types
      BY <2>1 DEF N4Types
    <3> HIDE DEF g
    <3>. QED  BY <3>1, <3>2, SmfCallType, IdentityTypes
  <2>6. d \in AmfContexts
    BY <2>1, AmfContextTypes
  <2>7. amf_ctx' = [amf_ctx EXCEPT ![g] = d]
    BY <1>3 DEF CreateSessionBeginFails
  <2>8. amf_ctx' \in [Imsis -> AmfContexts]
    BY <1>c, <2>6, <2>7
  <2>9. /\ amf' = [amf EXCEPT ![w] = [@ EXCEPT !.guti = GutiOf(w),
                                               !.pc = "session_end"]]
        /\ UNCHANGED <<ue_count, s1amf_id>>
    BY <1>3 DEF CreateSessionBeginFails
  <2>10. AmfTypeOK'
    BY <1>0, <1>j, <2>8, <2>9, LocalsType
  <2>. QED  BY <1>3, <1>d, <1>i, <2>4, <2>5, <2>10 DEF CreateSessionBeginFails
<1>4. CASE CreateSessionEndFails(w)
  <2>1. SmfTypeOK'
    BY <1>4, SmfCallType DEF CreateSessionEndFails
  <2>2. down' \in [Ues -> Seq(DownlinkMessages)]
    BY <1>0, <1>4, <1>m, DownlinkMessageType, SendDownType DEF CreateSessionEndFails
  <2>3. AmfTypeOK'
    BY <1>4, <1>c, ReturnType DEF CreateSessionEndFails
  <2>. QED  BY <1>4, <1>d, <1>e, <2>1, <2>2, <2>3 DEF CreateSessionEndFails
<1>5. CASE AttachCompleteFails(w)
  <2>1. AmfTypeOK'
    BY <1>5, <1>c, <1>j, GotoType DEF AttachCompleteFails
  <2>. QED  BY <1>5, <1>d, <1>e, <1>g, <1>i, <2>1 DEF AttachCompleteFails
<1>6. CASE ModifyBearerBeginFails(w)
  <2>1. SmfTypeOK'
    <3>1. CallSmf(w, "modify", GutiOf(w), 0, 0) /\ UNCHANGED timeouts
      BY <1>6 DEF ModifyBearerBeginFails
    <3>2. "modify" \in N4Types
      BY DEF N4Types
    <3>. QED  BY <1>0, <3>1, <3>2, SmfCallType, IdentityTypes
  <2>2. /\ amf' = [amf EXCEPT ![w] = [@ EXCEPT !.guti = GutiOf(w),
                                               !.pc = "modify_end"]]
        /\ UNCHANGED <<ue_count, s1amf_id, amf_ctx>>
    BY <1>6 DEF ModifyBearerBeginFails
  <2>3. AmfTypeOK'
    BY <1>0, <1>c, <1>j, <2>2, LocalsType
  <2>. QED  BY <1>6, <1>d, <1>e, <1>i, <2>1, <2>3 DEF ModifyBearerBeginFails
<1>7. CASE SmfCallFails(w)
  <2>1. PICK ul \in Teids : smf' = [smf EXCEPT ![w] = Unread(w, ul)]
    BY <1>7, IdentityTypes DEF SmfCallFails
  <2>2. Unread(w, ul) \in SmfStates
    BY <1>m, IdentityTypes DEF Unread, IdleSmf, SmfStates, SmfPcs
  <2>3. Unread(w, ul).pc = "done"
    BY DEF Unread, IdleSmf
  <2>4. UNCHANGED timeouts
    BY <1>7 DEF SmfCallFails
  <2>5. SmfTypeOK'
    BY <2>1, <2>2, <2>3, <2>4 DEF SmfTypeOK
  <2>6. AmfTypeOK'
    BY <1>7 DEF SmfCallFails, AmfTypeOK, amfVars
  <2>. QED  BY <1>7, <1>d, <1>e, <1>i, <2>5, <2>6 DEF SmfCallFails
<1>. QED  BY <1>1, <1>2, <1>3, <1>4, <1>5, <1>6, <1>7

\* The calls of the SMF that fail.
LEMMA SmfFailsType ==
    ASSUME PlatformTypeOK, UdmTypeOK, UpfTypeOK, SmfTypeOK, NEW w \in Workers,
           RequestFails(w) \/ UpdateCreateFails(w)
    PROVE  PlatformTypeOK' /\ UdmTypeOK' /\ UpfTypeOK' /\ SmfTypeOK'
<1>0. /\ smf[w] \in SmfStates /\ smf[w].guti \in {0} \cup Imsis
      /\ smf[w].typ \in N4Types
      /\ smf[w].imsi \in {0} \cup Imsis /\ smf[w].asked \in Teids
  BY DEF SmfTypeOK, SmfStates
<1>a. \A g \in Imsis : udm_ctx[g] \in UdmContexts
  BY DEF UdmTypeOK
<1>1. CASE RequestFails(w)
  <2>1. PlatformTypeOK'
    BY <1>1 DEF RequestFails, PlatformTypeOK
  <2>2. UdmTypeOK'
    <3> DEFINE c == [udm_ctx[smf[w].guti] EXCEPT !.imsi = smf[w].imsi,
                                                 !.s11_cteid_mme = smf[w].asked]
    <3>1. smf[w].guti \in Imsis => c \in UdmContexts
      BY <1>0, <1>a, UdmUpdateTypes
    <3>2. \/ udm_ctx' = [udm_ctx EXCEPT ![smf[w].guti] = c] /\ UNCHANGED loc_info
          \/ UNCHANGED udmVars
      BY <1>1 DEF RequestFails, RequestSmfCreateSession
    <3>3. UNCHANGED udmVars => UdmTypeOK'
      BY DEF UdmTypeOK, udmVars
    <3>. QED  BY <3>1, <3>2, <3>3, UdmHandlerType
  <2>3. UpfTypeOK'
    <3>1. SendN4(w, smf[w].typ, 0, 0, 0) /\ UNCHANGED <<upfTables, upf, n4_rsp, losses>>
      BY <1>1 DEF RequestFails, AskUpfForZero
    <3>. QED  BY <1>0, <3>1, SendN4Type, IdentityTypes
  <2>4. SmfTypeOK'
    <3> DEFINE r == [smf[w] EXCEPT !.pc = "wait", !.asked = 0]
    <3>1. r \in SmfStates /\ r.guti = smf[w].guti
      BY <1>0, IdentityTypes DEF SmfStates, SmfPcs
    <3>2. smf' = [smf EXCEPT ![w] = r] /\ smf[w].guti # 0 /\ UNCHANGED timeouts
      BY <1>1 DEF RequestFails, AskUpfForZero
    <3> HIDE DEF r
    <3>. QED  BY <3>1, <3>2 DEF SmfTypeOK
  <2>. QED  BY <2>1, <2>2, <2>3, <2>4
<1>2. CASE UpdateCreateFails(w)
  <2>1. PlatformTypeOK' /\ UdmTypeOK'
    BY <1>2 DEF UpdateCreateFails, PlatformTypeOK, UdmTypeOK, udmVars
  <2>2. UpfTypeOK'
    BY <1>2 DEF UpdateCreateFails, UpfTypeOK, upfTables, n4Vars
  <2>3. SmfTypeOK'
    <3> DEFINE r == [smf[w] EXCEPT !.pc = "done", !.res = TRUE, !.teid = smf[w].asked]
    <3>1. r \in SmfStates /\ r.pc = "done"
      BY <1>0 DEF SmfStates, SmfPcs
    <3>2. smf' = [smf EXCEPT ![w] = r] /\ UNCHANGED timeouts
      BY <1>2 DEF UpdateCreateFails
    <3> HIDE DEF r
    <3>. QED  BY <3>1, <3>2 DEF SmfTypeOK
  <2>. QED  BY <2>1, <2>2, <2>3
<1>. QED  BY <1>1, <1>2

\* Every step keeps every type, whether its call fails or not.
LEMMA FailNextType == TypeOK /\ [FailNext]_failVars => TypeOK'
<1> SUFFICES ASSUME TypeOK, [FailNext]_failVars PROVE TypeOK'
  OBVIOUS
<1>1. CASE [Next]_vars
  BY <1>1, NextType
<1>2. ASSUME NEW w \in Workers, AmfFails(w) PROVE TypeOK'
  <2>1. AmfParts'
    BY <1>2, AttachFailsType, SessionFailsType DEF AmfFails, AmfParts, TypeOK
  <2>2. RanTypeOK'
    BY <1>2 DEF AmfFails, TypeOK, RanTypeOK, ranVars
  <2>. QED  BY <2>1, <2>2 DEF AmfParts, TypeOK
<1>3. ASSUME NEW w \in Workers, SmfFails(w) PROVE TypeOK'
  <2>1. PlatformTypeOK' /\ UdmTypeOK' /\ UpfTypeOK' /\ SmfTypeOK'
    BY <1>3, SmfFailsType DEF SmfFails, TypeOK
  <2>2. ServerTypeOK' /\ AmfTypeOK' /\ RanTypeOK'
    BY <1>3 DEF SmfFails, TypeOK, ServerTypeOK, AmfTypeOK, RanTypeOK, serverVars,
                linkVars, amfVars, ranVars
  <2>. QED  BY <2>1, <2>2 DEF TypeOK
<1>. QED  BY <1>1, <1>2, <1>3 DEF FailNext, failVars

\* No answer that is missing puts a value of another type anywhere.
THEOREM FailTypesHold == FailSpec => []TypeOK
<1>1. FailInit => TypeOK
  BY InitType DEF FailInit
<1>. QED  BY <1>1, FailNextType, PTL DEF FailSpec

----------------------------------------------------------------------------
(* What a step with a failing call leaves alone                            *)

\* A call that fails is its worker's own, and no connection moves.
LEMMA FailSteps ==
    ASSUME TypeOK, NEW w \in Workers, AmfFails(w)
    PROVE  /\ UNCHANGED <<ran, up, exited, backlog, pipe, conns, ue_count>>
           /\ \A x \in Workers \ {w} : amf'[x] = amf[x] /\ smf'[x] = smf[x]
           /\ \/ UNCHANGED amf
              \/ amf'[w].pc = "idle"
              \/ amf[w].pc # "idle" /\ amf'[w].ue = amf[w].ue
           /\ \/ UNCHANGED s1amf_id
              \/ s1amf_id' = [s1amf_id EXCEPT ![amf[w].id] = 0]
<1>0. /\ amf \in [Workers -> AmfStates] /\ smf \in [Workers -> SmfStates]
      /\ amf[w] \in AmfStates
  BY DEF TypeOK, AmfTypeOK, SmfTypeOK
<1>1. UNCHANGED <<ran, up, exited, backlog, pipe, conns, ue_count>>
  BY DEF AmfFails, AttachInitFails, AuthenticateFails, UpdateInitialAttachFails,
         SetAuthFails, SetCryptFails, SetIntegrityFails, LocationUpdateFails,
         SetLocInfoFails, CreateSessionBeginFails, CreateSessionEndFails,
         AttachCompleteFails, ModifyBearerBeginFails, SmfCallFails, localFrame,
         unusedByAmf, amfVars, ranVars
<1>2. \/ UNCHANGED s1amf_id
      \/ s1amf_id' = [s1amf_id EXCEPT ![amf[w].id] = 0]
  BY DEF AmfFails, AttachInitFails, AuthenticateFails, UpdateInitialAttachFails,
         SetAuthFails, SetCryptFails, SetIntegrityFails, LocationUpdateFails,
         SetLocInfoFails, CreateSessionBeginFails, CreateSessionEndFails,
         AttachCompleteFails, ModifyBearerBeginFails, SmfCallFails, amfVars
<1>3. UNCHANGED smf \/ \E r : smf' = [smf EXCEPT ![w] = r]
  BY DEF AmfFails, AttachInitFails, AuthenticateFails, UpdateInitialAttachFails,
         SetAuthFails, SetCryptFails, SetIntegrityFails, LocationUpdateFails,
         SetLocInfoFails, CreateSessionBeginFails, CreateSessionEndFails,
         AttachCompleteFails, ModifyBearerBeginFails, SmfCallFails, smfVars, CallSmf,
         ReturnFromSmf
<1>4. UNCHANGED amf \/ \E r : amf' = [amf EXCEPT ![w] = r]
  BY DEF AmfFails, AttachInitFails, AuthenticateFails, UpdateInitialAttachFails,
         SetAuthFails, SetCryptFails, SetIntegrityFails, LocationUpdateFails,
         SetLocInfoFails, CreateSessionBeginFails, CreateSessionEndFails,
         AttachCompleteFails, ModifyBearerBeginFails, SmfCallFails, amfVars, AmfGoto,
         AmfReturn
<1> DEFINE Stays == \/ UNCHANGED amf
                    \/ amf'[w].pc = "idle"
                    \/ amf[w].pc # "idle" /\ amf'[w].ue = amf[w].ue
<1>a. ASSUME amf[w].pc # "idle", NEW pc, NEW g,
             \/ amf' = [amf EXCEPT ![w] = [@ EXCEPT !.guti = g, !.pc = pc]]
             \/ amf' = [amf EXCEPT ![w] = [@ EXCEPT !.guti = g, !.imsi = 0, !.pc = pc]]
      PROVE  Stays
  BY <1>0, <1>a DEF AmfStates
<1>b. ASSUME amf[w].pc # "idle", NEW pc, AmfGoto(w, pc)
      PROVE  Stays
  BY <1>0, <1>b DEF AmfGoto, AmfStates
<1>c. ASSUME AmfReturn(w)
      PROVE  Stays
  BY <1>0, <1>c DEF AmfReturn, IdleAmf
<1>5. Stays
  <2>1. CASE AttachInitFails(w) \/ SetIntegrityFails(w) \/ SetLocInfoFails(w)
             \/ AttachCompleteFails(w)
    BY <2>1, <1>b DEF AttachInitFails, SetIntegrityFails, SetLocInfoFails,
                      AttachCompleteFails, AmfAt
  <2>2. CASE AuthenticateFails(w) \/ UpdateInitialAttachFails(w)
             \/ CreateSessionEndFails(w)
    BY <2>2, <1>c DEF AuthenticateFails, UpdateInitialAttachFails,
                      CreateSessionEndFails
  <2>3. CASE SetAuthFails(w)
    BY <2>3, <1>b, <1>c DEF SetAuthFails, AmfAt
  <2>4. CASE SetCryptFails(w) \/ LocationUpdateFails(w)
    BY <2>4, <1>a DEF SetCryptFails, LocationUpdateFails, AmfAt
  <2>5. CASE CreateSessionBeginFails(w) \/ ModifyBearerBeginFails(w)
    <3>1. /\ amf[w].pc # "idle"
          /\ \E g, pc : amf' = [amf EXCEPT ![w] = [@ EXCEPT !.guti = g, !.pc = pc]]
      BY <2>5 DEF CreateSessionBeginFails, ModifyBearerBeginFails, AmfAt
    <3>. QED  BY <3>1, <1>a
  <2>6. CASE SmfCallFails(w)
    BY <2>6 DEF SmfCallFails, amfVars
  <2>. QED  BY <2>1, <2>2, <2>3, <2>4, <2>5, <2>6 DEF AmfFails
<1>6. \A x \in Workers \ {w} : amf'[x] = amf[x] /\ smf'[x] = smf[x]
  BY <1>0, <1>3, <1>4
<1>. QED  BY <1>1, <1>2, <1>5, <1>6

\* No connection is lost or served twice because a call fails.
LEMMA FailPlacement ==
    ASSUME TypeOK, Placement, [FailNext]_failVars
    PROVE  Placement'
<1>1. CASE [Next]_vars
  BY <1>1, PlacementStep
<1>2. ASSUME NEW w \in Workers, AmfFails(w) PROVE Placement'
  <2>1. /\ UNCHANGED <<ran, backlog, pipe, conns>>
        /\ \A x \in Workers : \/ amf'[x] = amf[x]
                              \/ amf'[x].pc = "idle"
                              \/ amf[x].pc # "idle" /\ amf'[x].ue = amf[x].ue
    BY <1>2, FailSteps
  <2>2. \A x \in Workers, m \in Ues : AtWorker(x, m)' => AtWorker(x, m)
    BY <2>1 DEF AtWorker
  <2>. QED  BY <2>1, <2>2, StayPlacement
<1>3. ASSUME NEW w \in Workers, SmfFails(w) PROVE Placement'
  <2>1. UNCHANGED <<backlog, pipe, conns, amf, ran>>
    BY <1>3 DEF SmfFails, serverVars, amfVars, ranVars
  <2>. QED  BY <2>1, StayPlacement DEF AtWorker
<1>. QED  BY <1>1, <1>2, <1>3 DEF FailNext, failVars

\* The ids the counter has not come to stay free.
LEMMA FailFreshIds ==
    ASSUME TypeOK, FreshIds, [FailNext]_failVars
    PROVE  FreshIds'
<1>0. s1amf_id \in [MmeIds -> {0} \cup Imsis]
  BY DEF TypeOK, AmfTypeOK
<1>1. CASE [Next]_vars
  BY <1>1, FreshIdsStep
<1>2. ASSUME NEW w \in Workers, AmfFails(w) PROVE FreshIds'
  <2>1. /\ UNCHANGED ue_count
        /\ \/ UNCHANGED s1amf_id
           \/ s1amf_id' = [s1amf_id EXCEPT ![amf[w].id] = 0]
    BY <1>2, FailSteps
  <2>. QED  BY <1>0, <2>1 DEF FreshIds
<1>3. ASSUME NEW w \in Workers, SmfFails(w) PROVE FreshIds'
  BY <1>3 DEF SmfFails, amfVars, FreshIds
<1>. QED  BY <1>1, <1>2, <1>3 DEF FailNext, failVars

\* What has not wrapped now had not wrapped before.
LEMMA FailWrapsOnce ==
    ASSUME TypeOK, [FailNext]_failVars, NoWrap'
    PROVE  NoWrap
<1>1. CASE [Next]_vars
  BY <1>1, WrapsOnce
<1>2. ASSUME NEW w \in Workers, AmfFails(w) PROVE NoWrap
  BY <1>2, FailSteps DEF NoWrap
<1>3. ASSUME NEW w \in Workers, SmfFails(w) PROVE NoWrap
  BY <1>3 DEF SmfFails, amfVars, NoWrap
<1>. QED  BY <1>1, <1>2, <1>3 DEF FailNext, failVars

----------------------------------------------------------------------------
(* The invariant is local to a subscriber                                  *)

\* A step that is not for m.
Away(m) ==
    /\ ran'[m] = ran[m] /\ up'[m] = up[m] /\ down'[m] = down[m]
    /\ udm_ctx'[Guti(m)].xres = udm_ctx[Guti(m)].xres
    /\ \A id \in MmeIds : s1amf_id[id] = Guti(m) => s1amf_id'[id] = Guti(m)
    /\ \A x \in Workers : Serves(x, m) \/ Serves(x, m)' => amf'[x] = amf[x]
    /\ exited \subseteq exited'

\* It leaves the subscriber's part of the invariant true.
LEMMA AwayKept ==
    ASSUME TypeOK, NEW m \in Ues, FailedSubscriberOK(m), Away(m)
    PROVE  FailedSubscriberOK(m)'
<1>0. /\ ran[m].mme_s1ap_ue_id \in MmeIds
      /\ down[m] # <<>> => down[m][1].mme \in MmeIds
      /\ \A x \in Workers : amf[x].id \in MmeIds
  <2>1. ran[m] \in RanContexts /\ down[m] \in Seq(DownlinkMessages)
    BY DEF TypeOK, RanTypeOK, ServerTypeOK
  <2>2. down[m] # <<>> => down[m][1] \in DownlinkMessages
    BY <2>1, QueueType
  <2>. QED  BY <2>1, <2>2, AmfStateType DEF TypeOK, RanContexts, DownlinkMessages
<1>1. FailedUplinkOK(m)'
  <2>1. \A i \in DOMAIN up'[m] : UplinkItem(m, up[m][i])'
    BY DEF FailedSubscriberOK, FailedUplinkOK, UplinkItem, Away
  <2>2. UplinkShape(m) => UplinkShape(m)'
    BY DEF UplinkShape, Away, Running, Just
  <2>3. ran[m].pc = "failed" /\ up[m] = <<>> => ran'[m].pc = "failed" /\ up'[m] = <<>>
    BY DEF Away
  <2>. QED  BY <2>1, <2>2, <2>3 DEF FailedSubscriberOK, FailedUplinkOK
<1>2. FailedDownlinkOK(m)'
  <2>1. down[m] # <<>> /\ FailedChallengeOK(m, down[m][1]) =>
           FailedChallengeOK(m, down[m][1])'
    BY <1>0 DEF FailedChallengeOK, Away
  <2>. QED  BY <2>1 DEF FailedSubscriberOK, FailedDownlinkOK, Away, Just
<1>3. FailedIdOK(m)'
  <2>1. \A x \in Workers : Serves(x, m)' <=> Serves(x, m)
    BY DEF Away, Serves
  <2>2. Refused(m)' <=> Refused(m)
    BY <2>1 DEF Refused, Quiescent, BeingServed, Away
  <2>. QED  BY <1>0, <2>2 DEF FailedSubscriberOK, FailedIdOK, IdInUse, HasAnId, Away
<1>4. /\ ran'[m].pc \in {"data", "detach"} => ran'[m].guti = Guti(m)
      /\ Authenticated(m)' => HoldsResponse(m)'
  BY DEF FailedSubscriberOK, Authenticated, HoldsResponse, Away
<1>5. ASSUME NEW x \in Workers, Serves(x, m)' PROVE FailedServiceOK(x, m)'
  <2>1. amf'[x] = amf[x] /\ FailedServiceOK(x, m)
    BY <1>5 DEF Away, Serves, FailedSubscriberOK
  <2>. QED
    BY <1>0, <2>1 DEF FailedServiceOK, Away, Running, Quiescent, HoldsResponse,
                      ServesComplete, RemovesFor
<1>. QED  BY <1>1, <1>2, <1>3, <1>4, <1>5 DEF FailedSubscriberOK

----------------------------------------------------------------------------
(* The simulator                                                           *)

\* While the simulator reads an answer no handler runs for it but the two
\* removals that follow the answer to a detach.
LEMMA FailedWhileAnswered ==
    ASSUME TypeOK, NEW n \in Ues, FailedSubscriberOK(n),
           ran[n].pc \in {"autn", "security", "session"}, down[n] # <<>>,
           up[n] = <<>>
    PROVE  ~BeingServed(n)
<1>1. ASSUME NEW x \in Workers, Serves(x, n) PROVE FALSE
  <2>1. amf[x].pc \in AmfPcs
    BY AmfStateType DEF TypeOK, AmfStates
  <2>2. FailedServiceOK(x, n)
    BY <1>1 DEF FailedSubscriberOK
  <2>. QED
    BY <1>1, <2>1, <2>2
       DEF Serves, FailedServiceOK, AmfPcs, AttachPcs, AutnPcs, SessionPcs,
           CompletePcs, DetachPcs, RemPcs, ServesComplete, RemovesFor, Quiescent
<1>. QED  BY <1>1 DEF BeingServed

\* What a handler for n may be doing, by what the simulator does.
LEMMA FailedServiceByPc ==
    ASSUME TypeOK, NEW n \in Ues, NEW x \in Workers, Serves(x, n),
           FailedServiceOK(x, n)
    PROVE  /\ ran[n].pc \in {"start", "done"} =>
                 amf[x].pc \in RemPcs /\ RemovesFor(x, n)
           /\ ran[n].pc = "data" => amf[x].pc \in CompletePcs /\ ServesComplete(x, n)
           /\ ran[n].pc = "detach" /\ down[n] # <<>> =>
                 amf[x].pc \in RemPcs /\ RemovesFor(x, n)
<1>1. amf[x].pc \in AmfPcs
  BY AmfStateType DEF TypeOK, AmfStates
<1>. QED
  BY <1>1 DEF Serves, FailedServiceOK, AmfPcs, AttachPcs, AutnPcs, SessionPcs,
              CompletePcs, DetachPcs, RemPcs, ServesComplete, RemovesFor, Quiescent

\* A handler the simulator does not wait for goes on being right.
LEMMA FailedServiceStays ==
    ASSUME NEW n \in Ues, NEW x \in Workers, FailedServiceOK(x, n),
           ran'[n].pc # "failed", UNCHANGED <<amf, s1amf_id>>,
           \/ amf[x].pc \in RemPcs /\ RemovesFor(x, n)'
           \/ amf[x].pc \in CompletePcs /\ ServesComplete(x, n)'
    PROVE  FailedServiceOK(x, n)'
BY DEF FailedServiceOK, AttachPcs, AutnPcs, SessionPcs, CompletePcs, DetachPcs, RemPcs

\* What a step of a thread finds.
FailedRanPremises ==
    /\ TypeOK /\ Placement
    /\ \A m \in Ues : FailedSubscriberOK(m)
    /\ UNCHANGED <<exited, udmVars, smfVars, amfVars>>

\* When no worker serves the subscriber only its own part is to be shown.
LEMMA FailedUnserved ==
    ASSUME NEW n, ~BeingServed(n), UNCHANGED amf,
           FailedUplinkOK(n)', FailedDownlinkOK(n)', FailedIdOK(n)',
           (ran[n].pc \in {"data", "detach"} => ran[n].guti = Guti(n))',
           (Authenticated(n) => HoldsResponse(n))'
    PROVE  FailedSubscriberOK(n)'
BY DEF FailedSubscriberOK, BeingServed, Serves

\* conn_mme: the thread of the simulator connects.
LEMMA FailedConnMme ==
    ASSUME FailedRanPremises, NEW n \in Ues, ConnMme(n)
    PROVE  FailedSubscriberOK(n)'
<1>0. /\ ran[n] \in RanContexts /\ ran[n].pc = "connect"
      /\ ran' = [ran EXCEPT ![n].pc = "start"] /\ ran \in [Ues -> RanContexts]
      /\ UNCHANGED <<up, down, s1amf_id, udm_ctx, amf, exited>>
  BY DEF FailedRanPremises, TypeOK, RanTypeOK, ConnMme, RanGoto, linkVars, udmVars,
         amfVars
<1>1. ran'[n] = [ran[n] EXCEPT !.pc = "start"]
  BY <1>0
<1>2. ~BeingServed(n)
  BY <1>0 DEF FailedRanPremises, Placement, ServesOwn, Homes, AtWorker, BeingServed,
              Serves
<1>3. FailedSubscriberOK(n)
  BY DEF FailedRanPremises
<1>4. ran'[n].pc = "start" /\ ran'[n].mme_s1ap_ue_id = ran[n].mme_s1ap_ue_id
  BY <1>0, <1>1 DEF RanContexts
<1>5. down[n] = <<>> /\ up[n] = <<>>
  BY <1>0, <1>3 DEF FailedSubscriberOK, FailedDownlinkOK, FailedUplinkOK, UplinkShape
<1>6. FailedUplinkOK(n)'
  BY <1>0, <1>3, <1>4, <1>5
     DEF FailedSubscriberOK, FailedUplinkOK, UplinkShape, UplinkItem
<1>7. FailedDownlinkOK(n)' /\ FailedIdOK(n)' /\ ~Authenticated(n)'
  BY <1>0, <1>4, <1>5 DEF FailedDownlinkOK, FailedIdOK, IdInUse, HasAnId, Authenticated
<1>. QED  BY <1>0, <1>2, <1>4, <1>6, <1>7, FailedUnserved

\* simulate: the time is up before the next attach.
LEMMA FailedTimeExceeded ==
    ASSUME FailedRanPremises, NEW n \in Ues, TimeExceeded(n)
    PROVE  FailedSubscriberOK(n)'
<1>0. /\ ran[n] \in RanContexts /\ ran[n].pc = "start"
      /\ ran' = [ran EXCEPT ![n].pc = "done"] /\ ran \in [Ues -> RanContexts]
      /\ UNCHANGED <<up, down, s1amf_id, udm_ctx, amf, exited>>
  BY DEF FailedRanPremises, TypeOK, RanTypeOK, TimeExceeded, RanGoto, udmVars, amfVars
<1>1. FailedSubscriberOK(n)
  BY DEF FailedRanPremises
<1>2. ran'[n].pc = "done" /\ ran'[n].mme_s1ap_ue_id = ran[n].mme_s1ap_ue_id
  BY <1>0 DEF RanContexts
<1>3. down[n] = <<>> /\ up[n] = <<>>
  BY <1>0, <1>1 DEF FailedSubscriberOK, FailedDownlinkOK, FailedUplinkOK, UplinkShape
<1>4. FailedUplinkOK(n)'
  BY <1>0, <1>1, <1>2, <1>3
     DEF FailedSubscriberOK, FailedUplinkOK, UplinkShape, UplinkItem
<1>5. FailedDownlinkOK(n)' /\ FailedIdOK(n)' /\ ~Authenticated(n)'
  BY <1>0, <1>2, <1>3 DEF FailedDownlinkOK, FailedIdOK, IdInUse, HasAnId, Authenticated
<1>6. ASSUME NEW x \in Workers, Serves(x, n)' PROVE FailedServiceOK(x, n)'
  <2>1. Serves(x, n) /\ FailedServiceOK(x, n)
    BY <1>0, <1>1, <1>6 DEF Serves, FailedSubscriberOK
  <2>2. amf[x].pc \in RemPcs /\ RemovesFor(x, n)
    BY <1>0, <2>1, FailedServiceByPc DEF FailedRanPremises
  <2>3. RemovesFor(x, n)'
    BY <1>0, <1>2, <2>2 DEF RemovesFor
  <2>. QED  BY <1>0, <1>2, <2>1, <2>2, <2>3, FailedServiceStays
<1>. QED  BY <1>2, <1>4, <1>5, <1>6 DEF FailedSubscriberOK

\* The first message of an attach; the removals of the last detach may still run.
LEMMA FailedInitialAttach ==
    ASSUME FailedRanPremises, NEW n \in Ues, RanInitialAttach(n)
    PROVE  FailedSubscriberOK(n)'
<1> DEFINE m == [typ |-> 1, mme |-> 0, arg |-> Imsi(n)]
<1>0. /\ ran[n] \in RanContexts /\ ran[n].pc = "start"
      /\ ran' = [ran EXCEPT ![n] = [@ EXCEPT !.pc = "autn",
                                             !.cycles = ran[n].cycles + 1]]
      /\ ran \in [Ues -> RanContexts] /\ up' = [up EXCEPT ![n] = Append(@, m)]
      /\ up \in [Ues -> Seq(UplinkMessages)]
      /\ UNCHANGED <<down, s1amf_id, udm_ctx, amf, exited>>
  BY DEF FailedRanPremises, TypeOK, RanTypeOK, ServerTypeOK, RanInitialAttach, SendUp,
         udmVars, amfVars
<1>1. FailedSubscriberOK(n)
  BY DEF FailedRanPremises
<1>2. ran'[n].pc = "autn" /\ ran'[n].mme_s1ap_ue_id = ran[n].mme_s1ap_ue_id
  BY <1>0 DEF RanContexts
<1>3. down[n] = <<>> /\ up[n] = <<>>
  BY <1>0, <1>1 DEF FailedSubscriberOK, FailedDownlinkOK, FailedUplinkOK, UplinkShape
<1>4. up'[n] # <<>> /\ Just(up'[n], 1) /\ DOMAIN up'[n] = {1} /\ up'[n][1] = m
  <2>1. up'[n] = <<m>>
    BY <1>0, <1>3, FirstOne
  <2>. QED  BY <2>1, FirstOne DEF Just
<1>5. FailedUplinkOK(n)'
  BY <1>2, <1>4 DEF FailedUplinkOK, UplinkShape, UplinkItem
<1>6. FailedDownlinkOK(n)' /\ FailedIdOK(n)' /\ ~Authenticated(n)'
  BY <1>0, <1>2, <1>3 DEF FailedDownlinkOK, FailedIdOK, IdInUse, HasAnId, Authenticated
<1>7. ASSUME NEW x \in Workers, Serves(x, n)' PROVE FailedServiceOK(x, n)'
  <2>1. Serves(x, n) /\ FailedServiceOK(x, n)
    BY <1>0, <1>1, <1>7 DEF Serves, FailedSubscriberOK
  <2>2. amf[x].pc \in RemPcs /\ RemovesFor(x, n)
    BY <1>0, <2>1, FailedServiceByPc DEF FailedRanPremises
  <2>3. RemovesFor(x, n)'
    BY <1>0, <1>2, <1>4, <2>2 DEF RemovesFor
  <2>. QED  BY <1>0, <1>2, <2>1, <2>2, <2>3, FailedServiceStays
<1>. QED  BY <1>2, <1>5, <1>6, <1>7 DEF FailedSubscriberOK

\* A challenge that the key of the UE explains has the response of its vector.
LEMMA ExplainedChallenge ==
    ASSUME NEW n \in Ues, NEW m, FailedChallengeOK(n, m),
           m.autn = AutnResponse(RanKey(n), m.rand_num) + 1
    PROVE  AutnResponse(RanKey(n), m.rand_num) = Vector(n).xres
<1>0. n \in Nat
  BY DEF Ues
<1>1. PICK v \in {NoVector, AuthVector(1), Vector(n)} :
         m.autn = v.autn_num /\ m.rand_num = v.rand_num
  BY DEF FailedChallengeOK
<1>2. CASE v = NoVector
  BY <1>0, <1>1, <1>2 DEF NoVector, AutnResponse, RanKey
<1>3. CASE v = AuthVector(1)
  <2>1. m.rand_num = 0 /\ m.autn = 2
    BY <1>1, <1>3 DEF AuthVector, DbKey, AutnResponse
  <2>2. n = 0
    BY <1>0, <2>1 DEF AutnResponse, RanKey
  <2>. QED  BY <2>1, <2>2 DEF AutnResponse, RanKey, Vector, AuthVector, DbKey, Imsi
<1>4. CASE v = Vector(n)
  BY <1>0, <1>1, <1>4 DEF AutnResponse, RanKey, Vector, AuthVector, DbKey, Imsi
<1>. QED  BY <1>1, <1>2, <1>3, <1>4

\* The challenge is answered with the response of the subscriber's own vector,
\* or not at all: the thread ends.
LEMMA FailedAuthenticate ==
    ASSUME FailedRanPremises, NEW n \in Ues, RanAuthenticate(n)
    PROVE  FailedSubscriberOK(n)'
<1> DEFINE c == Head(down[n])
           res == AutnResponse(RanKey(n), c.rand_num)
           m == [typ |-> 2, mme |-> c.mme, arg |-> res]
<1>0. /\ ran[n] \in RanContexts /\ ran[n].pc = "autn" /\ down[n] # <<>>
      /\ down' = [down EXCEPT ![n] = Tail(@)]
      /\ ran \in [Ues -> RanContexts] /\ up \in [Ues -> Seq(UplinkMessages)]
      /\ down \in [Ues -> Seq(DownlinkMessages)]
      /\ UNCHANGED <<s1amf_id, udm_ctx, amf, exited>>
  BY DEF FailedRanPremises, TypeOK, RanTypeOK, ServerTypeOK, RanAuthenticate, Received,
         udmVars, amfVars
<1>1. FailedSubscriberOK(n)
  BY DEF FailedRanPremises
<1>2. up[n] = <<>> /\ Just(down[n], 1) /\ FailedChallengeOK(n, down[n][1])
  BY <1>0, <1>1 DEF FailedSubscriberOK, FailedDownlinkOK
<1>3. c = down[n][1] /\ down'[n] = <<>>
  BY <1>0, <1>2, JustOne
<1>4. ~BeingServed(n)
  BY <1>0, <1>1, <1>2, FailedWhileAnswered DEF FailedRanPremises
<1>5. CASE c.autn = res + 1
  <2>1. res = Vector(n).xres
    BY <1>2, <1>3, <1>5, ExplainedChallenge
  <2>2. /\ \E k : ran' = [ran EXCEPT ![n] = [@ EXCEPT !.mme_s1ap_ue_id = c.mme,
                                     !.k_asme = k, !.pc = "security"]]
        /\ up' = [up EXCEPT ![n] = Append(@, m)]
    BY <1>5 DEF RanAuthenticate, SendUp
  <2> HIDE DEF c, res
  <2>3. ran'[n].pc = "security" /\ ran'[n].mme_s1ap_ue_id = c.mme
    BY <1>0, <2>2 DEF RanContexts
  <2>4. up'[n] # <<>> /\ Just(up'[n], 2) /\ DOMAIN up'[n] = {1} /\ up'[n][1] = m
    <3>1. up'[n] = <<m>>
      BY <1>0, <1>2, <2>2, FirstOne
    <3>. QED  BY <3>1, FirstOne DEF Just
  <2>5. FailedUplinkOK(n)'
    BY <2>1, <2>3, <2>4 DEF FailedUplinkOK, UplinkShape, UplinkItem
  <2>6. FailedDownlinkOK(n)' /\ ~Authenticated(n)'
    BY <1>3, <2>3 DEF FailedDownlinkOK, Authenticated
  <2>7. FailedIdOK(n)'
    BY <1>0, <1>2, <1>3, <2>3 DEF FailedIdOK, FailedChallengeOK
  <2>. QED  BY <1>0, <1>4, <2>3, <2>5, <2>6, <2>7, FailedUnserved
<1>6. CASE c.autn # res + 1
  <2>1. /\ ran' = [ran EXCEPT ![n] = [@ EXCEPT !.mme_s1ap_ue_id = c.mme,
                                               !.pc = "failed"]]
        /\ UNCHANGED up
    BY <1>6 DEF RanAuthenticate
  <2> HIDE DEF c, res
  <2>2. ran'[n].pc = "failed"
    BY <1>0, <2>1 DEF RanContexts
  <2>3. FailedUplinkOK(n)'
    <3>1. DOMAIN up'[n] = {} /\ up'[n] = <<>>
      BY <1>2, <2>1
    <3>. QED  BY <2>2, <3>1 DEF FailedUplinkOK
  <2>4. FailedDownlinkOK(n)' /\ ~Authenticated(n)' /\ FailedIdOK(n)'
    BY <1>3, <2>2 DEF FailedDownlinkOK, Authenticated, FailedIdOK, IdInUse, HasAnId
  <2>. QED  BY <1>0, <1>4, <2>2, <2>3, <2>4, FailedUnserved
<1>. QED  BY <1>5, <1>6

\* set_security: the command came from an AMF whose UDM has the response.
LEMMA FailedSetSecurity ==
    ASSUME FailedRanPremises, NEW n \in Ues, SetSecurity(n)
    PROVE  FailedSubscriberOK(n)'
<1> DEFINE m == [typ |-> 3, mme |-> ran[n].mme_s1ap_ue_id, arg |-> 1]
<1>0. /\ ran[n] \in RanContexts /\ ran[n].pc = "security" /\ down[n] # <<>>
      /\ down' = [down EXCEPT ![n] = Tail(@)]
      /\ ran' = [ran EXCEPT ![n] =
                     [@ EXCEPT !.k_nas = ran[n].k_asme + RanAlgo + RanCount + 1,
                               !.pc = "session"]]
      /\ up' = [up EXCEPT ![n] = Append(@, m)]
      /\ ran \in [Ues -> RanContexts] /\ up \in [Ues -> Seq(UplinkMessages)]
      /\ down \in [Ues -> Seq(DownlinkMessages)]
      /\ UNCHANGED <<s1amf_id, udm_ctx, amf, exited>>
  BY DEF FailedRanPremises, TypeOK, RanTypeOK, ServerTypeOK, SetSecurity, Received,
         SendUp, udmVars, amfVars
<1>1. FailedSubscriberOK(n)
  BY DEF FailedRanPremises
<1>2. up[n] = <<>> /\ Just(down[n], 2)
  BY <1>0, <1>1 DEF FailedSubscriberOK, FailedDownlinkOK
<1>3. down'[n] = <<>>
  BY <1>0, <1>2, JustOne
<1>4. /\ ran'[n].pc = "session" /\ ran'[n].mme_s1ap_ue_id = ran[n].mme_s1ap_ue_id
  BY <1>0 DEF RanContexts
<1>5. up'[n] # <<>> /\ Just(up'[n], 3) /\ DOMAIN up'[n] = {1} /\ up'[n][1] = m
  <2>1. up'[n] = <<m>>
    BY <1>0, <1>2, FirstOne
  <2>. QED  BY <2>1, FirstOne DEF Just
<1>6. FailedUplinkOK(n)'
  BY <1>4, <1>5 DEF FailedUplinkOK, UplinkShape, UplinkItem
<1>7. FailedDownlinkOK(n)' /\ HoldsResponse(n)'
  BY <1>0, <1>1, <1>3 DEF FailedDownlinkOK, FailedSubscriberOK, Authenticated,
                          HoldsResponse
<1>8. FailedIdOK(n)'
  BY <1>0, <1>1, <1>4
     DEF FailedSubscriberOK, FailedIdOK, IdInUse, HasAnId, Refused, Quiescent
<1>9. ~BeingServed(n)
  BY <1>0, <1>1, <1>2, FailedWhileAnswered DEF FailedRanPremises
<1>. QED  BY <1>0, <1>4, <1>6, <1>7, <1>8, <1>9, FailedUnserved

\* set_eps_session: whatever else the answer has, it has the UE's own GUTI.
LEMMA FailedSetEpsSession ==
    ASSUME FailedRanPremises, NEW n \in Ues, SetEpsSession(n)
    PROVE  FailedSubscriberOK(n)'
<1> DEFINE c == Head(down[n])
           m == [typ |-> 4, mme |-> ran[n].mme_s1ap_ue_id, arg |-> c.ul]
<1>0. /\ ran[n] \in RanContexts /\ ran[n].pc = "session" /\ down[n] # <<>>
      /\ down' = [down EXCEPT ![n] = Tail(@)]
      /\ ran' = [ran EXCEPT ![n] =
                     [@ EXCEPT !.guti = c.guti, !.s1_uteid_ul = c.ul,
                               !.s1_uteid_dl = c.ul, !.ip_addr = c.ip,
                               !.pc = "data"]]
      /\ up' = [up EXCEPT ![n] = Append(@, m)]
      /\ ran \in [Ues -> RanContexts] /\ up \in [Ues -> Seq(UplinkMessages)]
      /\ down \in [Ues -> Seq(DownlinkMessages)]
      /\ UNCHANGED <<s1amf_id, udm_ctx, amf, exited>>
  BY DEF FailedRanPremises, TypeOK, RanTypeOK, ServerTypeOK, SetEpsSession, Received,
         SendUp, udmVars, amfVars
<1>1. FailedSubscriberOK(n)
  BY DEF FailedRanPremises
<1>2. up[n] = <<>> /\ Just(down[n], 3) /\ down[n][1].guti = Guti(n)
  BY <1>0, <1>1 DEF FailedSubscriberOK, FailedDownlinkOK
<1>3. c = down[n][1] /\ down'[n] = <<>>
  BY <1>0, <1>2, JustOne
<1> HIDE DEF c
<1>4. /\ ran'[n].pc = "data" /\ ran'[n].mme_s1ap_ue_id = ran[n].mme_s1ap_ue_id
      /\ ran'[n].guti = Guti(n)
  BY <1>0, <1>2, <1>3 DEF RanContexts
<1>5. up'[n] # <<>> /\ Just(up'[n], 4) /\ DOMAIN up'[n] = {1} /\ up'[n][1] = m
  <2>1. up'[n] = <<m>>
    BY <1>0, <1>2, FirstOne
  <2>. QED  BY <2>1, FirstOne DEF Just
<1>6. FailedUplinkOK(n)'
  BY <1>4, <1>5 DEF FailedUplinkOK, UplinkShape, UplinkItem
<1>7. FailedDownlinkOK(n)' /\ HoldsResponse(n)'
  BY <1>0, <1>1, <1>3 DEF FailedDownlinkOK, FailedSubscriberOK, Authenticated,
                          HoldsResponse
<1>8. FailedIdOK(n)'
  BY <1>0, <1>1, <1>4
     DEF FailedSubscriberOK, FailedIdOK, IdInUse, HasAnId, Refused
<1>9. ~BeingServed(n)
  BY <1>0, <1>1, <1>2, FailedWhileAnswered DEF FailedRanPremises
<1>. QED  BY <1>0, <1>4, <1>6, <1>7, <1>8, <1>9, FailedUnserved

\* The detach request, with the GUTI of the accept, may follow the attach
\* complete at once.
LEMMA FailedRanDetach ==
    ASSUME FailedRanPremises, NEW n \in Ues, RanDetach(n)
    PROVE  FailedSubscriberOK(n)'
<1> DEFINE m == [typ |-> 5, mme |-> ran[n].mme_s1ap_ue_id, arg |-> ran[n].guti]
<1>0. /\ ran[n] \in RanContexts /\ ran[n].pc = "data"
      /\ ran' = [ran EXCEPT ![n].pc = "detach"]
      /\ up' = [up EXCEPT ![n] = Append(@, m)]
      /\ ran \in [Ues -> RanContexts] /\ up \in [Ues -> Seq(UplinkMessages)]
      /\ up' \in [Ues -> Seq(UplinkMessages)]
      /\ UNCHANGED <<down, s1amf_id, udm_ctx, amf, exited>>
  <2>1. RanThread(n) /\ ServerTypeOK /\ RanTypeOK
    BY DEF RanThread, FailedRanPremises, TypeOK
  <2>2. ServerTypeOK'
    BY <2>1, RanThreadType
  <2>. QED
    BY <2>1, <2>2 DEF FailedRanPremises, RanTypeOK, ServerTypeOK, RanDetach, RanGoto,
                      SendUp, udmVars, amfVars
<1>1. FailedSubscriberOK(n)
  BY DEF FailedRanPremises
<1>2. /\ ran'[n].pc = "detach" /\ ran'[n].mme_s1ap_ue_id = ran[n].mme_s1ap_ue_id
      /\ ran'[n].guti = ran[n].guti /\ ran[n].guti = Guti(n)
  BY <1>0, <1>1 DEF RanContexts, FailedSubscriberOK
<1>3. down[n] = <<>> /\ (up[n] = <<>> \/ Just(up[n], 4))
  BY <1>0, <1>1 DEF FailedSubscriberOK, FailedDownlinkOK, FailedUplinkOK, UplinkShape
<1>4. up'[n] = Append(up[n], m) /\ up[n] \in Seq(UplinkMessages)
      /\ up'[n] \in Seq(UplinkMessages)
  BY <1>0
<1>5. UplinkItem(n, m)'
  BY <1>2 DEF UplinkItem
<1>6. FailedDownlinkOK(n)' /\ FailedIdOK(n)' /\ HoldsResponse(n)'
  BY <1>0, <1>1, <1>2, <1>3
     DEF FailedSubscriberOK, FailedDownlinkOK, FailedIdOK, IdInUse, HasAnId, Refused,
         Authenticated, HoldsResponse
<1>7. CASE up[n] = <<>>
  <2>1. Just(up'[n], 5) /\ DOMAIN up'[n] = {1} /\ up'[n][1] = m
    <3>1. up'[n] = <<m>>
      BY <1>4, <1>7, FirstOne
    <3>. QED  BY <3>1, FirstOne DEF Just
  <2>2. FailedUplinkOK(n)'
    BY <1>2, <1>5, <2>1 DEF FailedUplinkOK, UplinkShape
  <2>3. ASSUME NEW x \in Workers, Serves(x, n)' PROVE FailedServiceOK(x, n)'
    <3>1. Serves(x, n) /\ FailedServiceOK(x, n)
      BY <1>0, <1>1, <2>3 DEF Serves, FailedSubscriberOK
    <3>2. amf[x].pc \in CompletePcs /\ ServesComplete(x, n)
      BY <1>0, <3>1, FailedServiceByPc DEF FailedRanPremises
    <3>3. ServesComplete(x, n)'
      BY <1>0, <1>2, <2>1, <3>2 DEF ServesComplete
    <3>. QED  BY <1>0, <1>2, <3>1, <3>2, <3>3, FailedServiceStays
  <2>. QED  BY <1>2, <1>6, <2>2, <2>3 DEF FailedSubscriberOK
<1>8. CASE Just(up[n], 4)
  <2>1. Len(up[n]) = 1 /\ up[n][1].typ = 4 /\ 1 \in DOMAIN up[n] /\ up[n] # <<>>
    BY <1>4, <1>8, JustOne DEF Just
  <2>2. UplinkItem(n, up[n][1])'
    BY <1>0, <1>1, <1>2, <2>1 DEF FailedSubscriberOK, FailedUplinkOK, UplinkItem
  <2>3. /\ Len(up'[n]) = 2 /\ up'[n][1] = up[n][1] /\ up'[n][2] = m
        /\ \A i \in DOMAIN up'[n] : i = 1 \/ i = 2
    <3>1. m \in UplinkMessages
      <4>1. /\ Guti(n) \in Imsis /\ Imsis \subseteq Nat
            /\ ran[n].mme_s1ap_ue_id \in MmeIds
        BY <1>0, OwnFacts, IdentityTypes DEF RanContexts
      <4>2. UplinkBody[5] = {0} \cup Imsis
        BY DEF UplinkBody
      <4>3. ran[n].guti \in Imsis /\ ran[n].guti \in Nat
        BY <1>2, <4>1
      <4>4. m \in [typ : 1 .. 10, mme : MmeIds, arg : Nat] /\ m.arg \in UplinkBody[m.typ]
        BY <4>1, <4>2, <4>3
      <4>. QED  BY <4>4, Zenon DEF UplinkMessages
    <3>. QED  BY <1>4, <2>1, <3>1, SecondOne
  <2>4. FailedUplinkOK(n)'
    BY <1>2, <1>5, <2>1, <2>2, <2>3 DEF FailedUplinkOK, UplinkShape
  <2>5. ~BeingServed(n)
    <3>1. ASSUME NEW x \in Workers, Serves(x, n) PROVE FALSE
      <4>1. FailedServiceOK(x, n)
        BY <1>1, <3>1 DEF FailedSubscriberOK
      <4>. QED  BY <1>0, <2>1, <3>1, <4>1, FailedServiceByPc
                   DEF FailedRanPremises, ServesComplete
    <3>. QED  BY <3>1 DEF BeingServed
  <2>. QED  BY <1>0, <1>2, <1>6, <2>4, <2>5, FailedUnserved
<1>. QED  BY <1>3, <1>7, <1>8

\* The answer to the detach arrives before the removals have ended.
LEMMA FailedDetachAccepted ==
    ASSUME FailedRanPremises, NEW n \in Ues, DetachAccepted(n)
    PROVE  FailedSubscriberOK(n)'
<1>0. /\ ran[n] \in RanContexts /\ ran[n].pc = "detach" /\ down[n] # <<>>
      /\ down' = [down EXCEPT ![n] = Tail(@)]
      /\ ran' = [ran EXCEPT ![n].pc = "start"]
      /\ ran \in [Ues -> RanContexts] /\ down \in [Ues -> Seq(DownlinkMessages)]
      /\ UNCHANGED <<up, s1amf_id, udm_ctx, amf, exited>>
  BY DEF FailedRanPremises, TypeOK, RanTypeOK, ServerTypeOK, DetachAccepted, Received,
         RanGoto, udmVars, amfVars
<1>1. FailedSubscriberOK(n)
  BY DEF FailedRanPremises
<1>2. up[n] = <<>> /\ Just(down[n], 5)
  BY <1>0, <1>1 DEF FailedSubscriberOK, FailedDownlinkOK
<1>3. down'[n] = <<>>
  BY <1>0, <1>2, JustOne
<1>4. ran'[n].pc = "start" /\ ran'[n].mme_s1ap_ue_id = ran[n].mme_s1ap_ue_id
  BY <1>0 DEF RanContexts
<1>5. FailedUplinkOK(n)'
  BY <1>0, <1>1, <1>2, <1>4
     DEF FailedSubscriberOK, FailedUplinkOK, UplinkShape, UplinkItem
<1>6. FailedDownlinkOK(n)' /\ FailedIdOK(n)' /\ ~Authenticated(n)'
  BY <1>0, <1>3, <1>4 DEF FailedDownlinkOK, FailedIdOK, IdInUse, HasAnId, Authenticated
<1>7. ASSUME NEW x \in Workers, Serves(x, n)' PROVE FailedServiceOK(x, n)'
  <2>1. Serves(x, n) /\ FailedServiceOK(x, n)
    BY <1>0, <1>1, <1>7 DEF Serves, FailedSubscriberOK
  <2>2. amf[x].pc \in RemPcs /\ RemovesFor(x, n)
    BY <1>0, <2>1, FailedServiceByPc DEF FailedRanPremises
  <2>3. RemovesFor(x, n)'
    BY <1>0, <1>4, <2>2 DEF RemovesFor
  <2>. QED  BY <1>0, <1>4, <2>1, <2>2, <2>3, FailedServiceStays
<1>. QED  BY <1>4, <1>5, <1>6, <1>7 DEF FailedSubscriberOK

\* When the AMF is gone the thread fails, wherever its handler was.
LEMMA FailedConnLost ==
    ASSUME FailedRanPremises, NEW n \in Ues, ConnLost(n)
    PROVE  FailedSubscriberOK(n)'
<1>0. /\ ran[n] \in RanContexts /\ ~Running("amf") /\ down[n] = <<>>
      /\ ran' = [ran EXCEPT ![n].pc = "failed"] /\ ran \in [Ues -> RanContexts]
      /\ ran[n].pc \in {"autn", "security", "session", "detach"}
      /\ UNCHANGED <<up, down, s1amf_id, udm_ctx, amf, exited>>
  BY DEF FailedRanPremises, TypeOK, RanTypeOK, ConnLost, RanGoto, udmVars, amfVars
<1>1. FailedSubscriberOK(n)
  BY DEF FailedRanPremises
<1>2. /\ ran'[n].pc = "failed" /\ ran'[n].mme_s1ap_ue_id = ran[n].mme_s1ap_ue_id
      /\ ~Running("amf")'
  BY <1>0 DEF RanContexts, Running
<1>3. FailedUplinkOK(n)'
  BY <1>0, <1>1, <1>2 DEF FailedSubscriberOK, FailedUplinkOK, UplinkShape, UplinkItem
<1>4. FailedDownlinkOK(n)' /\ FailedIdOK(n)' /\ ~Authenticated(n)'
  BY <1>0, <1>2 DEF FailedDownlinkOK, FailedIdOK, IdInUse, HasAnId, Authenticated
<1>5. ASSUME NEW x \in Workers, Serves(x, n)' PROVE FailedServiceOK(x, n)'
  <2>1. Serves(x, n) /\ FailedServiceOK(x, n)
    BY <1>0, <1>1, <1>5 DEF Serves, FailedSubscriberOK
  <2>. QED
    BY <1>0, <1>2, <2>1
       DEF FailedServiceOK, ServesComplete, RemovesFor, Quiescent, HoldsResponse
<1>. QED  BY <1>2, <1>3, <1>4, <1>5 DEF FailedSubscriberOK

\* Every step of a simulator thread keeps its own subscriber's part.
LEMMA FailedRanThread ==
    ASSUME FailedRanPremises, NEW n \in Ues, RanThread(n)
    PROVE  FailedSubscriberOK(n)'
BY FailedConnMme, FailedTimeExceeded, FailedInitialAttach, FailedAuthenticate,
   FailedSetSecurity, FailedSetEpsSession, FailedRanDetach, FailedDetachAccepted,
   FailedConnLost DEF RanThread

\* A step of the simulator keeps the whole agreement.
LEMMA FailedRanStep ==
    ASSUME TypeOK, Placement, FailedAgreement, NEW n \in Ues, RanStep(n)
    PROVE  FailedAgreement'
<1>1. FailedRanPremises /\ RanThread(n)
  <2>1. UNCHANGED exited
    BY RanThreadType DEF RanStep, TypeOK
  <2>. QED  BY <2>1 DEF FailedRanPremises, RanStep, FailedAgreement
<1>2. FailedSubscriberOK(n)'
  BY <1>1, FailedRanThread
<1>3. ASSUME NEW m \in Ues \ {n} PROVE FailedSubscriberOK(m)'
  <2>1. Away(m)
    BY <1>1, RanSteps DEF FailedRanPremises, Away, udmVars, amfVars
  <2>. QED  BY <2>1, AwayKept DEF FailedAgreement
<1>4. \A x \in Workers : FailedCallOK(x)'
  BY <1>1 DEF FailedAgreement, FailedCallOK, FailedRanPremises, smfVars, amfVars
<1>5. OnlyUpfExits'
  BY <1>1 DEF FailedRanPremises, FailedAgreement, OnlyUpfExits
<1>. QED  BY <1>2, <1>3, <1>4, <1>5 DEF FailedAgreement

----------------------------------------------------------------------------
(* What a step of a worker owes                                            *)

\* A step that writes nothing but what belongs to n, the subscriber that worker
\* w serves before or after it; a free id may be given to n.
OnlyFor(w, n) ==
    /\ UNCHANGED ran
    /\ \A m \in Ues \ {n} : /\ up'[m] = up[m] /\ down'[m] = down[m]
                            /\ udm_ctx'[Guti(m)].xres = udm_ctx[Guti(m)].xres
    /\ \A id \in MmeIds : \/ s1amf_id'[id] = s1amf_id[id]
                          \/ s1amf_id[id] \in {0, Guti(n)}
    /\ \A x \in Workers \ {w} : amf'[x] = amf[x] /\ smf'[x] = smf[x]
    /\ amf'[w].pc = "idle" \/ amf'[w].ue = n

\* Only the parts of n and of w are to be shown, since no other worker serves n.
LEMMA FailedWorkerStep ==
    ASSUME TypeOK, Placement, FailedAgreement, NEW w \in Workers, NEW n \in Ues,
           n \in ToSet(conns[w]), amf[w].pc # "idle" => amf[w].ue = n,
           OnlyFor(w, n), UNCHANGED exited,
           FailedUplinkOK(n)', FailedDownlinkOK(n)', FailedIdOK(n)',
           Authenticated(n)' => HoldsResponse(n)',
           amf'[w].pc = "idle" \/ FailedServiceOK(w, n)', FailedCallOK(w)'
    PROVE  FailedAgreement'
<1>1. ASSUME NEW m \in Ues \ {n} PROVE FailedSubscriberOK(m)'
  <2>1. \A x \in Workers : Serves(x, m) \/ Serves(x, m)' => x # w
    BY DEF OnlyFor, Serves
  <2>2. Guti(m) # Guti(n) /\ Guti(m) # 0
    BY OwnFacts
  <2>3. \A id \in MmeIds : s1amf_id[id] = Guti(m) => s1amf_id'[id] = Guti(m)
    BY <2>2 DEF OnlyFor
  <2>4. Away(m)
    BY <2>1, <2>3 DEF Away, OnlyFor
  <2>. QED  BY <2>4, AwayKept DEF FailedAgreement
<1>2. ASSUME NEW x \in Workers, Serves(x, n)' PROVE FailedServiceOK(x, n)'
  <2>1. CASE x = w
    BY <1>2, <2>1 DEF Serves
  <2>2. CASE x # w
    <3>1. Serves(x, n)
      BY <1>2, <2>2 DEF OnlyFor, Serves
    <3>2. AtWorker(x, n) /\ AtWorker(w, n)
      BY <3>1 DEF Placement, ServesOwn, AtWorker, Serves
    <3>. QED  BY <2>2, <3>2 DEF Placement, Homes
  <2>. QED  BY <2>1, <2>2
<1>3. FailedSubscriberOK(n)'
  BY <1>2 DEF FailedSubscriberOK, FailedAgreement, OnlyFor
<1>4. ASSUME NEW x \in Workers \ {w} PROVE FailedCallOK(x)'
  BY DEF FailedCallOK, FailedAgreement, OnlyFor
<1>5. OnlyUpfExits'
  BY DEF FailedAgreement, OnlyUpfExits
<1>. QED  BY <1>1, <1>3, <1>4, <1>5 DEF FailedAgreement

\* Worker w runs a handler for n; the step takes no message from a UE.
Handling(w, n) ==
    /\ TypeOK /\ Placement /\ FailedAgreement /\ w \in Workers /\ n \in Ues
    /\ amf[w].pc # "idle" /\ amf[w].ue = n
    /\ UNCHANGED <<ran, up>>
    /\ \A x \in Workers \ {w} : amf'[x] = amf[x] /\ smf'[x] = smf[x]
    /\ amf'[w].pc = "idle" \/ amf'[w].ue = n

\* The parts of the invariant that a handler for n is about.
LEMMA HandlingFacts ==
    ASSUME NEW w, NEW n, Handling(w, n)
    PROVE  /\ TypeOK /\ w \in Workers /\ n \in Ues /\ Serves(w, n) /\ BeingServed(n)
           /\ FailedSubscriberOK(n) /\ FailedServiceOK(w, n) /\ FailedCallOK(w)
           /\ n \in ToSet(conns[w]) /\ ~Refused(n) /\ amf[w].id \in MmeIds
           /\ amf \in [Workers -> AmfStates] /\ amf[w] \in AmfStates
           /\ Guti(n) \in Imsis /\ Guti(n) # 0
<1>1. /\ TypeOK /\ w \in Workers /\ n \in Ues /\ Serves(w, n) /\ BeingServed(n)
      /\ FailedSubscriberOK(n) /\ FailedCallOK(w) /\ n \in ToSet(conns[w])
  BY DEF Handling, Serves, BeingServed, FailedAgreement, Placement, ServesOwn
<1>2. FailedServiceOK(w, n) /\ ~Refused(n)
  BY <1>1 DEF FailedSubscriberOK, Refused
<1>3. /\ amf[w].id \in MmeIds /\ amf \in [Workers -> AmfStates] /\ amf[w] \in AmfStates
  BY <1>1, AmfStateType DEF TypeOK, AmfTypeOK
<1>. QED  BY <1>1, <1>2, <1>3, OwnFacts

\* A handler of a running AMF works while its UE waits, and finds the UE's GUTI.
LEMMA HandlingPhase ==
    ASSUME NEW w, NEW n, Handling(w, n), Running("amf")
    PROVE  /\ amf[w].pc \in AttachPcs => ran[n].pc = "autn" /\ Quiescent(n)
           /\ amf[w].pc \in AutnPcs => ran[n].pc = "security" /\ Quiescent(n)
           /\ amf[w].pc \in SessionPcs => ran[n].pc = "session" /\ Quiescent(n)
           /\ amf[w].pc \in CompletePcs => ServesComplete(w, n)
           /\ amf[w].pc \in DetachPcs => ran[n].pc = "detach" /\ Quiescent(n)
           /\ amf[w].pc \in RemPcs => RemovesFor(w, n)
           /\ amf[w].pc \notin {"attach"} \cup RemPcs => GutiOf(w) = Guti(n)
           /\ Guti(n) # 0
BY HandlingFacts DEF FailedServiceOK, GutiOf

\* The handler answers its UE, takes an id from it, or does neither; the rest
\* of what its step must keep.
LEMMA FailedHandlerStep ==
    ASSUME NEW w, NEW n, Handling(w, n), UNCHANGED exited,
           \A m \in Ues \ {n} : down'[m] = down[m],
           \A g \in Imsis \ {Guti(n)} : udm_ctx'[g].xres = udm_ctx[g].xres,
           \A id \in MmeIds : \/ s1amf_id'[id] = s1amf_id[id]
                              \/ s1amf_id[id] \in {0, Guti(n)},
           FailedDownlinkOK(n)', FailedIdOK(n)',
           Authenticated(n)' => HoldsResponse(n)',
           amf'[w].pc = "idle" \/ FailedServiceOK(w, n)', FailedCallOK(w)'
    PROVE  FailedAgreement'
<1>1. OnlyFor(w, n)
  BY OwnFacts DEF OnlyFor, Handling
<1>2. FailedUplinkOK(n)'
  <2>1. FailedUplinkOK(n) /\ UNCHANGED <<ran, up>>
    BY HandlingFacts DEF Handling, FailedSubscriberOK
  <2>2. \A i \in DOMAIN up'[n] : UplinkItem(n, up[n][i])'
    BY <2>1 DEF FailedUplinkOK, UplinkItem
  <2>3. UplinkShape(n) => UplinkShape(n)'
    BY <2>1 DEF UplinkShape, Just, Running
  <2>. QED  BY <2>1, <2>2, <2>3 DEF FailedUplinkOK
<1>. QED  BY <1>1, <1>2, HandlingFacts, FailedWorkerStep DEF Handling

----------------------------------------------------------------------------
(* The steps that only move a handler on                                   *)

\* No answer is sent, no id given or taken, and no response written.
Onward ==
    /\ UNCHANGED <<down, s1amf_id, exited>>
    /\ \A g \in Imsis : udm_ctx'[g].xres = udm_ctx[g].xres

\* The handler of w for n returns, stands, or goes on within what it does.
MovesOn(w, n) ==
    \/ amf'[w].pc = "idle"
    \/ amf'[w] = amf[w]
    \/ /\ amf'[w].id = amf[w].id
       /\ \/ /\ amf[w].pc = "attach_init" /\ amf'[w].pc = "attach_auth"
             /\ amf'[w].imsi = amf[w].imsi /\ amf'[w].guti = amf[w].guti
          \/ /\ amf[w].pc \in AutnPcs /\ HoldsResponse(n)
             /\ amf'[w].pc \in AutnPcs \ {"autn"}
          \/ amf[w].pc \in SessionPcs /\ amf'[w].pc \in SessionPcs
          \/ amf[w].pc \in CompletePcs /\ amf'[w].pc \in CompletePcs
          \/ amf[w].pc \in DetachPcs /\ amf'[w].pc = "detach_end"

\* Such a step keeps the agreement if the call it may make is the handler's.
LEMMA FailedOnward ==
    ASSUME NEW w, NEW n, Handling(w, n), Onward, MovesOn(w, n), FailedCallOK(w)'
    PROVE  FailedAgreement'
<1>0. /\ FailedSubscriberOK(n) /\ FailedServiceOK(w, n) /\ ~Refused(n)
      /\ n \in Ues /\ w \in Workers /\ UNCHANGED <<ran, up, down, s1amf_id, exited>>
      /\ amf[w] \in AmfStates /\ Guti(n) \in Imsis
  BY HandlingFacts DEF Handling, Onward
<1>1. HoldsResponse(n)' <=> HoldsResponse(n)
  BY <1>0 DEF Onward, HoldsResponse
<1>2. FailedDownlinkOK(n)'
  BY <1>0 DEF FailedSubscriberOK, FailedDownlinkOK, FailedChallengeOK, Just
<1>3. FailedIdOK(n)' /\ (Authenticated(n)' => HoldsResponse(n)')
  BY <1>0, <1>1 DEF FailedSubscriberOK, FailedIdOK, IdInUse, HasAnId, Authenticated
<1>4. amf'[w].pc = "idle" \/ FailedServiceOK(w, n)'
  <2>1. CASE amf'[w] = amf[w]
    BY <1>0, <1>1, <2>1
       DEF FailedServiceOK, ServesComplete, RemovesFor, Quiescent, Running
  <2>a. ASSUME amf'[w].id = amf[w].id,
               Running("amf")' <=> Running("amf"), Quiescent(n)' <=> Quiescent(n)
        PROVE  s1amf_id'[amf'[w].id] = s1amf_id[amf[w].id]
    BY <1>0, <2>a
  <2>b. (Running("amf")' <=> Running("amf")) /\ (Quiescent(n)' <=> Quiescent(n))
    BY <1>0 DEF Running, Quiescent
  <2>2. CASE /\ amf'[w].id = amf[w].id
             /\ amf[w].pc = "attach_init" /\ amf'[w].pc = "attach_auth"
             /\ amf'[w].imsi = amf[w].imsi /\ amf'[w].guti = amf[w].guti
    BY <1>0, <2>a, <2>b, <2>2
       DEF FailedServiceOK, AttachPcs, AutnPcs, SessionPcs, CompletePcs, DetachPcs,
           RemPcs
  <2>3. CASE /\ amf'[w].id = amf[w].id
             /\ amf[w].pc \in AutnPcs /\ HoldsResponse(n)
             /\ amf'[w].pc \in AutnPcs \ {"autn"}
    BY <1>0, <1>1, <2>a, <2>b, <2>3
       DEF FailedServiceOK, AttachPcs, AutnPcs, SessionPcs, CompletePcs, DetachPcs,
           RemPcs
  <2>4. CASE /\ amf'[w].id = amf[w].id
             /\ amf[w].pc \in SessionPcs /\ amf'[w].pc \in SessionPcs
    BY <1>0, <2>a, <2>b, <2>4
       DEF FailedServiceOK, AttachPcs, AutnPcs, SessionPcs, CompletePcs, DetachPcs,
           RemPcs
  <2>5. CASE /\ amf'[w].id = amf[w].id
             /\ amf[w].pc \in CompletePcs /\ amf'[w].pc \in CompletePcs
    <3>1. ServesComplete(w, n)'
      BY <1>0, <2>5 DEF FailedServiceOK, ServesComplete
    <3>. QED
      BY <1>0, <2>a, <2>b, <2>5, <3>1
         DEF FailedServiceOK, AttachPcs, AutnPcs, SessionPcs, CompletePcs, DetachPcs,
             RemPcs
  <2>6. CASE /\ amf'[w].id = amf[w].id
             /\ amf[w].pc \in DetachPcs /\ amf'[w].pc = "detach_end"
    BY <1>0, <2>a, <2>b, <2>6
       DEF FailedServiceOK, AttachPcs, AutnPcs, SessionPcs, CompletePcs, DetachPcs,
           RemPcs
  <2>. QED  BY <2>1, <2>2, <2>3, <2>4, <2>5, <2>6 DEF MovesOn
<1>. QED
  BY <1>0, <1>2, <1>3, <1>4, FailedHandlerStep DEF Onward

\* None of the other handlers of the UDM writes a response.
LEMMA ResponsesKept ==
    ASSUME TypeOK, NEW g, NEW a, NEW b, NEW c, NEW d,
           \/ UNCHANGED udm_ctx
           \/ UpdateInitialAttachInit(g, a, b)
           \/ SetCrypt(g) \/ SetIntegrity(g)
           \/ DeleteLocInfo(a) \/ InsertLocInfo(a)
           \/ HandleCreateSessionBegin(g, a)
           \/ HandleCreateSessionEnd(g, a, b, c, d)
           \/ UpdateAttachComplete(g, a) \/ HandleModifyBearer(g)
           \/ RequestSmfCreateSession(g, a, b)
    PROVE  \A k \in Imsis : udm_ctx'[k].xres = udm_ctx[k].xres
<1> DEFINE Kept == \A k \in Imsis : udm_ctx'[k].xres = udm_ctx[k].xres
<1>0. /\ udm_ctx \in [Imsis -> UdmContexts]
      /\ \A k \in Imsis : udm_ctx[k] \in UdmContexts
  BY DEF TypeOK, UdmTypeOK
<1>1. CASE UpdateInitialAttachInit(g, a, b)
  BY <1>0, <1>1 DEF UpdateInitialAttachInit, UdmContexts
<1>2. CASE SetCrypt(g)
  BY <1>0, <1>2 DEF SetCrypt, UdmContexts
<1>3. CASE SetIntegrity(g)
  BY <1>0, <1>3 DEF SetIntegrity, UdmContexts
<1>4. CASE HandleCreateSessionBegin(g, a)
  BY <1>0, <1>4 DEF HandleCreateSessionBegin, UdmContexts
<1>5. CASE HandleCreateSessionEnd(g, a, b, c, d)
  BY <1>0, <1>5 DEF HandleCreateSessionEnd, UdmContexts
<1>6. CASE UpdateAttachComplete(g, a)
  BY <1>0, <1>6 DEF UpdateAttachComplete, UdmContexts
<1>7. CASE HandleModifyBearer(g)
  BY <1>0, <1>7 DEF HandleModifyBearer, UdmContexts
<1>8. CASE RequestSmfCreateSession(g, a, b)
  BY <1>0, <1>8 DEF RequestSmfCreateSession, UdmContexts
<1>. QED  BY <1>1, <1>2, <1>3, <1>4, <1>5, <1>6, <1>7, <1>8
         DEF DeleteLocInfo, InsertLocInfo

CallPcs == {"session_end", "modify_end", "detach_end"}

\* A handler that is not in a call of the SMF, nor makes one.
LEMMA FailedLocalStep ==
    ASSUME NEW w, NEW n, Handling(w, n), Onward, MovesOn(w, n),
           amf[w].pc \notin CallPcs, UNCHANGED smf
    PROVE  FailedAgreement'
<1>1. smf'[w].pc = "idle"
  BY HandlingFacts DEF FailedCallOK, CallPcs
<1>. QED  BY <1>1, FailedOnward DEF FailedCallOK

\* A handler that returns, from a call or not.
LEMMA FailedReturn ==
    ASSUME NEW w, NEW n, Handling(w, n), Onward, AmfReturn(w),
           \/ ReturnFromSmf(w)
           \/ amf[w].pc \notin CallPcs /\ UNCHANGED smf
    PROVE  FailedAgreement'
<1>1. amf'[w].pc = "idle"
  BY HandlingFacts DEF AmfReturn, IdleAmf
<1>2. smf'[w].pc = "idle"
  BY HandlingFacts, SmfReturned DEF FailedCallOK, CallPcs
<1>. QED  BY <1>1, <1>2, FailedOnward DEF MovesOn, FailedCallOK

\* A handler that calls the SMF for its own subscriber.
LEMMA FailedCall ==
    ASSUME NEW w, NEW n, Handling(w, n), Onward, MovesOn(w, n), amf'[w].ue = n,
           NEW typ, NEW i, NEW t, CallSmf(w, typ, Guti(n), i, t),
           \/ amf'[w].pc = "session_end" /\ typ = "create"
           \/ amf'[w].pc = "modify_end" /\ typ = "modify"
           \/ amf'[w].pc = "detach_end" /\ typ = "release"
    PROVE  FailedAgreement'
<1>1. /\ smf'[w].pc = "call" /\ smf'[w].typ = typ /\ smf'[w].guti = Guti(n)
  BY HandlingFacts, CalledSmf
<1>. QED  BY <1>1, FailedOnward DEF FailedCallOK

\* The context of the UDM is created, or is not.
LEMMA FailedAttachInit ==
    ASSUME NEW w, NEW n, Handling(w, n), Running("amf"),
           AttachInit(w) \/ AttachInitFails(w)
    PROVE  FailedAgreement'
<1>1. /\ amf[w].pc = "attach_init" /\ AmfGoto(w, "attach_auth")
      /\ UNCHANGED <<exited, smf, down, s1amf_id>>
      /\ \/ UNCHANGED udm_ctx
         \/ UpdateInitialAttachInit(amf[w].guti, amf[w].imsi, amf[w].id)
  BY DEF AttachInit, AttachInitFails, AmfAt, smfVars, udmVars
<1>2. Onward
  BY <1>1, ResponsesKept, HandlingFacts DEF Onward
<1>3. MovesOn(w, n)
  BY <1>1, GotoFields, HandlingFacts DEF MovesOn
<1>. QED  BY <1>1, <1>2, <1>3, FailedLocalStep DEF CallPcs

\* The comparison succeeds, and so the UDM has the response.
LEMMA FailedAccepted ==
    ASSUME NEW w, NEW n, Handling(w, n), Running("amf"), HandleAutn(w),
           udm_ctx[GutiOf(w)].xres = amf[w].arg
    PROVE  FailedAgreement'
<1>1. amf[w].pc = "autn" /\ GutiOf(w) = Guti(n) /\ Guti(n) # 0 /\ HoldsResponse(n)
  BY HandlingFacts, HandlingPhase
     DEF HandleAutn, AmfAt, FailedServiceOK, AutnPcs, HoldsResponse, RemPcs
<1>2. AmfGoto(w, "security_cmd") /\ UNCHANGED <<exited, smf, udm_ctx, down, s1amf_id>>
  BY <1>1 DEF HandleAutn, IfKnown, udmVars, smfVars
<1>3. Onward
  BY <1>2 DEF Onward
<1>4. MovesOn(w, n)
  BY <1>1, <1>2, GotoFields, HandlingFacts DEF MovesOn, AutnPcs
<1>. QED  BY <1>1, <1>2, <1>3, <1>4, FailedLocalStep DEF CallPcs

\* The keys of the security mode command, set or not.
LEMMA FailedKeys ==
    ASSUME NEW w, NEW n, Handling(w, n), Running("amf"),
           \/ SecurityModeCmd(w) \/ SetCryptFails(w)
           \/ SetIntegrityContext(w) \/ SetIntegrityFails(w)
    PROVE  FailedAgreement'
<1>0. amf[w].pc \in {"security_cmd", "integrity"}
  BY DEF SecurityModeCmd, SetCryptFails, SetIntegrityContext, SetIntegrityFails, AmfAt
<1>1. GutiOf(w) = Guti(n) /\ Guti(n) # 0 /\ HoldsResponse(n)
  BY <1>0, HandlingFacts, HandlingPhase DEF FailedServiceOK, AutnPcs, RemPcs
<1>2. /\ UNCHANGED <<exited, smf, down, s1amf_id>>
      /\ \/ UNCHANGED udm_ctx \/ SetCrypt(Guti(n)) \/ SetIntegrity(amf[w].guti)
      /\ \/ amf' = [amf EXCEPT ![w] = [@ EXCEPT !.guti = Guti(n), !.pc = "integrity"]]
         \/ AmfGoto(w, "security_send")
  BY <1>1 DEF SecurityModeCmd, SetCryptFails, SetIntegrityContext, SetIntegrityFails,
              IfKnown, smfVars, udmVars
<1>3. Onward
  BY <1>2, ResponsesKept, HandlingFacts DEF Onward
<1>4. amf'[w].id = amf[w].id /\ amf'[w].pc \in {"integrity", "security_send"}
  BY <1>2, HandlingFacts DEF AmfGoto, AmfStates
<1>5. MovesOn(w, n)
  BY <1>0, <1>1, <1>4 DEF MovesOn, AutnPcs
<1>. QED  BY <1>0, <1>2, <1>3, <1>5, FailedLocalStep DEF CallPcs

\* The security mode complete: the command was refused, or the location is
\* updated, with whatever IMSI the UDM answered.
LEMMA FailedLocation ==
    ASSUME NEW w, NEW n, Handling(w, n), Running("amf"),
           \/ SecurityModeComplete(w) \/ LocationUpdate(w) \/ LocationUpdateFails(w)
           \/ LocationDelete(w) \/ LocationInsert(w) \/ SetLocInfoFails(w)
    PROVE  FailedAgreement'
<1>1. /\ amf[w].pc \in {"security_complete", "location", "loc_delete", "loc_insert"}
      /\ GutiOf(w) = Guti(n) /\ Guti(n) # 0
  BY HandlingPhase
     DEF SecurityModeComplete, LocationUpdate, LocationUpdateFails, LocationDelete,
         LocationInsert, SetLocInfoFails, AmfAt, RemPcs
<1>2. /\ UNCHANGED <<exited, smf, down, s1amf_id>>
      /\ \/ UNCHANGED udm_ctx
         \/ DeleteLocInfo(amf[w].imsi) \/ InsertLocInfo(amf[w].imsi)
      /\ \/ AmfReturn(w)
         \/ \E pc \in {"location", "loc_insert", "session"} : AmfGoto(w, pc)
         \/ \E i : amf' = [amf EXCEPT ![w] = [@ EXCEPT !.guti = Guti(n), !.imsi = i,
                                                       !.pc = "loc_delete"]]
  BY <1>1 DEF SecurityModeComplete, LocationUpdate, LocationUpdateFails, LocationDelete,
              LocationInsert, SetLocInfoFails, IfKnown, smfVars, udmVars
<1>3. Onward
  BY <1>2, ResponsesKept, HandlingFacts DEF Onward
<1>4. CASE AmfReturn(w)
  BY <1>1, <1>2, <1>3, <1>4, FailedReturn DEF CallPcs
<1>5. CASE ~AmfReturn(w)
  <2>1. /\ amf'[w].id = amf[w].id
        /\ amf'[w].pc \in {"location", "loc_insert", "session", "loc_delete"}
    BY <1>2, <1>5, HandlingFacts DEF AmfGoto, AmfStates
  <2>2. MovesOn(w, n)
    BY <1>1, <2>1 DEF MovesOn, SessionPcs
  <2>. QED  BY <1>1, <1>2, <1>3, <2>2, FailedLocalStep DEF CallPcs
<1>. QED  BY <1>4, <1>5

\* The calls of the SMF are for the GUTI the handler found or was told, whatever
\* IMSI and teid go with it.
LEMMA FailedCalls ==
    ASSUME NEW w, NEW n, Handling(w, n), Running("amf"),
           \/ CreateSessionBegin(w) \/ CreateSessionBeginFails(w)
           \/ ModifyBearerBegin(w) \/ ModifyBearerBeginFails(w) \/ DetachBegin(w)
    PROVE  FailedAgreement'
<1>1. /\ GutiOf(w) = Guti(n) /\ Guti(n) # 0
      /\ amf[w].pc \in {"session", "modify", "detach"}
      /\ amf[w].pc = "detach" => amf[w].arg = Guti(n)
  BY HandlingFacts, HandlingPhase
     DEF CreateSessionBegin, CreateSessionBeginFails, ModifyBearerBegin,
         ModifyBearerBeginFails, DetachBegin, AmfAt, RemPcs, FailedServiceOK, DetachPcs
<1>2. /\ UNCHANGED <<exited, down, s1amf_id>>
      /\ \/ UNCHANGED udm_ctx
         \/ \E t : HandleCreateSessionBegin(Guti(n), t)
         \/ HandleModifyBearer(Guti(n))
  BY <1>1 DEF CreateSessionBegin, CreateSessionBeginFails, ModifyBearerBegin,
              ModifyBearerBeginFails, DetachBegin, IfKnown, udmVars
<1>3. Onward
  BY <1>2, ResponsesKept, HandlingFacts DEF Onward
<1>a. ASSUME NEW typ, NEW i, NEW t, NEW pc, CallSmf(w, typ, Guti(n), i, t),
             amf' = [amf EXCEPT ![w] = [@ EXCEPT !.guti = Guti(n), !.pc = pc]],
             \/ amf[w].pc = "session" /\ pc = "session_end" /\ typ = "create"
             \/ amf[w].pc = "modify" /\ pc = "modify_end" /\ typ = "modify"
             \/ amf[w].pc = "detach" /\ pc = "detach_end" /\ typ = "release"
      PROVE  FailedAgreement'
  <2>1. amf'[w].pc = pc /\ amf'[w].ue = n /\ amf'[w].id = amf[w].id
    BY <1>a, HandlingFacts DEF Handling, AmfStates
  <2>2. MovesOn(w, n)
    BY <1>a, <2>1 DEF MovesOn, SessionPcs, CompletePcs, DetachPcs
  <2>. QED  BY <1>3, <1>a, <2>1, <2>2, FailedCall
<1>4. CASE CreateSessionBegin(w)
  <2>1. /\ CallSmf(w, "create", Guti(n), udm_ctx[Guti(n)].imsi, GetS11CteidAmf(Guti(n)))
        /\ amf' = [amf EXCEPT ![w] = [@ EXCEPT !.guti = Guti(n), !.pc = "session_end"]]
        /\ amf[w].pc = "session"
    BY <1>1, <1>4 DEF CreateSessionBegin, IfKnown, AmfAt
  <2>. QED  BY <1>a, <2>1
<1>5. CASE CreateSessionBeginFails(w)
  <2>1. /\ CallSmf(w, "create", Guti(n), 0, 0)
        /\ amf' = [amf EXCEPT ![w] = [@ EXCEPT !.guti = Guti(n), !.pc = "session_end"]]
        /\ amf[w].pc = "session"
    BY <1>1, <1>5 DEF CreateSessionBeginFails, AmfAt
  <2>. QED  BY <1>a, <2>1
<1>6. CASE ModifyBearerBegin(w) \/ ModifyBearerBeginFails(w)
  <2>1. /\ CallSmf(w, "modify", Guti(n), 0, 0)
        /\ amf' = [amf EXCEPT ![w] = [@ EXCEPT !.guti = Guti(n), !.pc = "modify_end"]]
        /\ amf[w].pc = "modify"
    BY <1>1, <1>6 DEF ModifyBearerBegin, ModifyBearerBeginFails, IfKnown, AmfAt
  <2>. QED  BY <1>a, <2>1
<1>7. CASE DetachBegin(w)
  <2>1. /\ CallSmf(w, "release", Guti(n), 0, 0)
        /\ amf' = [amf EXCEPT ![w] = [@ EXCEPT !.guti = Guti(n), !.pc = "detach_end"]]
        /\ amf[w].pc = "detach"
    BY <1>1, <1>7 DEF DetachBegin, IfKnown, AmfAt
  <2>. QED  BY <1>a, <2>1
<1>. QED  BY <1>4, <1>5, <1>6, <1>7

\* The attach complete, the answer to a modify, and the last removal.
LEMMA FailedLocal ==
    ASSUME NEW w, NEW n, Handling(w, n), Running("amf"),
           \/ AttachComplete(w) \/ AttachCompleteFails(w)
           \/ ModifyBearerEnd(w) \/ RemUectx(w)
    PROVE  FailedAgreement'
<1>1. CASE AttachComplete(w) \/ AttachCompleteFails(w)
  <2>1. amf[w].pc = "attach_complete" /\ GutiOf(w) # 0
    BY <1>1, HandlingPhase DEF AttachComplete, AttachCompleteFails, AmfAt, RemPcs
  <2>2. /\ AmfGoto(w, "modify") /\ UNCHANGED <<exited, smf, down, s1amf_id>>
        /\ UNCHANGED udm_ctx \/ UpdateAttachComplete(GutiOf(w), amf[w].arg)
    BY <1>1, <2>1 DEF AttachComplete, AttachCompleteFails, IfKnown, smfVars, udmVars
  <2>3. Onward
    BY <2>2, ResponsesKept, HandlingFacts DEF Onward
  <2>4. MovesOn(w, n)
    BY <2>1, <2>2, GotoFields, HandlingFacts DEF MovesOn, CompletePcs
  <2>. QED  BY <2>1, <2>2, <2>3, <2>4, FailedLocalStep DEF CallPcs
<1>2. CASE ModifyBearerEnd(w) \/ RemUectx(w)
  <2>1. /\ AmfReturn(w) /\ UNCHANGED <<exited, udm_ctx, down, s1amf_id>>
        /\ ReturnFromSmf(w) \/ (amf[w].pc = "rem_uectx" /\ UNCHANGED smf)
    BY <1>2 DEF ModifyBearerEnd, RemUectx, AmfAt, smfVars, udmVars
  <2>2. Onward
    BY <2>1 DEF Onward
  <2>. QED  BY <2>1, <2>2, FailedReturn DEF CallPcs
<1>. QED  BY <1>1, <1>2

\* The call of the SMF itself fails: the handler goes on with its own GUTI.
LEMMA FailedSmfCall ==
    ASSUME NEW w, NEW n, Handling(w, n), SmfCallFails(w)
    PROVE  FailedAgreement'
<1>1. PICK ul : smf' = [smf EXCEPT ![w] = Unread(w, ul)]
  BY DEF SmfCallFails
<1>2. /\ smf'[w].pc = "done" /\ smf'[w].typ = smf[w].typ
      /\ smf'[w].guti = smf[w].guti /\ smf[w].pc # "idle"
  BY <1>1, HandlingFacts DEF TypeOK, SmfTypeOK, Unread, IdleSmf, SmfCallFails
<1>3. Onward /\ MovesOn(w, n) /\ UNCHANGED amf
  BY DEF SmfCallFails, Onward, MovesOn, amfVars, udmVars
<1>4. FailedCallOK(w)'
  BY <1>2, <1>3, HandlingFacts DEF FailedCallOK
<1>. QED  BY <1>3, <1>4, FailedOnward

----------------------------------------------------------------------------
(* The answers                                                             *)

\* An answer sent into an empty downlink is all there is on it.
LEMMA FailedSent ==
    ASSUME NEW w, NEW n, Handling(w, n), down[n] = <<>>, NEW m, SendDown(w, m)
    PROVE  /\ down'[n] # <<>> /\ down'[n][1] = m /\ Just(down'[n], m.typ)
           /\ \A k \in Ues \ {n} : down'[k] = down[k]
<1>1. /\ down' = [down EXCEPT ![n] = Append(@, m)] /\ n \in Ues
      /\ down \in [Ues -> Seq(DownlinkMessages)]
  BY HandlingFacts DEF Handling, SendDown, TypeOK, ServerTypeOK
<1>2. down'[n] = <<m>> /\ \A k \in Ues \ {n} : down'[k] = down[k]
  BY <1>1, FirstOne
<1>. QED  BY <1>2, FirstOne DEF Just

\* The challenge: of the subscriber's own vector, stored or not, or of no key.
LEMMA FailedChallenge ==
    ASSUME NEW w, NEW n, Handling(w, n), Running("amf"),
           AttachAuth(w) \/ AuthenticateFails(w) \/ UpdateInitialAttachFails(w)
    PROVE  FailedAgreement'
<1>1. /\ amf[w].pc = "attach_auth" /\ AmfReturn(w)
      /\ UNCHANGED <<exited, smf, s1amf_id>>
  BY DEF AttachAuth, AuthenticateFails, UpdateInitialAttachFails, AmfAt, smfVars
<1>2. /\ ran[n].pc = "autn" /\ Quiescent(n) /\ s1amf_id[amf[w].id] = Guti(n)
      /\ amf[w].imsi = Imsi(n) /\ amf[w].guti = Guti(n) /\ amf[w].id # 0
  BY <1>1, HandlingFacts, HandlingPhase DEF FailedServiceOK, AttachPcs, RemPcs
<1> DEFINE m(v) == [DownlinkMessage(1, amf[w].id) EXCEPT
                      !.autn = v.autn_num, !.rand_num = v.rand_num]
<1>3. \E v \in {NoVector, AuthVector(1), Vector(n)} :
         /\ SendDown(w, m(v))
         /\ UNCHANGED udm_ctx \/ UpdateInitialAttach(Guti(n), v.xres, v.k_asme)
  BY <1>2 DEF AttachAuth, AuthenticateFails, UpdateInitialAttachFails, Vector, udmVars
<1>4. PICK v \in {NoVector, AuthVector(1), Vector(n)} :
         /\ SendDown(w, m(v))
         /\ UNCHANGED udm_ctx \/ UpdateInitialAttach(Guti(n), v.xres, v.k_asme)
  BY <1>3
<1>5. /\ m(v).typ = 1 /\ m(v).mme = amf[w].id
      /\ m(v).autn = v.autn_num /\ m(v).rand_num = v.rand_num
  BY DEF DownlinkMessage
<1> HIDE DEF m
<1>6. /\ down'[n] # <<>> /\ down'[n][1] = m(v) /\ Just(down'[n], 1)
      /\ \A k \in Ues \ {n} : down'[k] = down[k]
  BY <1>2, <1>4, <1>5, FailedSent DEF Quiescent
<1>7. \A g \in Imsis \ {Guti(n)} : udm_ctx'[g].xres = udm_ctx[g].xres
  <2>1. udm_ctx \in [Imsis -> UdmContexts]
    BY HandlingFacts DEF TypeOK, UdmTypeOK
  <2>. QED  BY <1>4, <2>1 DEF UpdateInitialAttach
<1>8. UNCHANGED <<ran, up>> /\ n \in Ues
  BY DEF Handling
<1>9. FailedDownlinkOK(n)'
  <2>1. /\ down'[n][1].mme = amf[w].id /\ down'[n][1].autn = v.autn_num
        /\ down'[n][1].rand_num = v.rand_num
    BY <1>5, <1>6
  <2>2. s1amf_id'[down'[n][1].mme] = Guti(n) /\ down'[n][1].mme # 0
    BY <1>1, <1>2, <2>1
  <2>3. FailedChallengeOK(n, down[n][1])'
    BY <2>1, <2>2 DEF FailedChallengeOK
  <2>. QED  BY <1>2, <1>6, <1>8, <2>3 DEF FailedDownlinkOK, Quiescent
<1>10. FailedIdOK(n)' /\ ~Authenticated(n)'
  BY <1>2, <1>8 DEF FailedIdOK, IdInUse, HasAnId, Authenticated
<1>11. amf'[w].pc = "idle" /\ FailedCallOK(w)'
  BY <1>1, HandlingFacts DEF FailedCallOK, AmfReturn, IdleAmf
<1>. QED
  BY <1>1, <1>6, <1>7, <1>9, <1>10, <1>11, FailedHandlerStep

\* The security mode command follows a response the UDM holds.
LEMMA FailedCommand ==
    ASSUME NEW w, NEW n, Handling(w, n), Running("amf"), SendSecurityModeCmd(w)
    PROVE  FailedAgreement'
<1> DEFINE m == DownlinkMessage(2, amf[w].id)
<1>1. /\ amf[w].pc = "security_send" /\ AmfReturn(w) /\ SendDown(w, m)
      /\ UNCHANGED <<exited, smf, s1amf_id, udm_ctx>>
  BY DEF SendSecurityModeCmd, AmfAt, smfVars, udmVars
<1>2. /\ ran[n].pc = "security" /\ Quiescent(n) /\ HoldsResponse(n)
  BY <1>1, HandlingFacts, HandlingPhase DEF FailedServiceOK, AutnPcs
<1>3. m.typ = 2
  BY DEF DownlinkMessage
<1> HIDE DEF m
<1>4. /\ down'[n] # <<>> /\ Just(down'[n], 2)
      /\ \A k \in Ues \ {n} : down'[k] = down[k]
  BY <1>1, <1>2, <1>3, FailedSent DEF Quiescent
<1>5. UNCHANGED <<ran, up>> /\ n \in Ues
  BY DEF Handling
<1>6. FailedDownlinkOK(n)' /\ HoldsResponse(n)'
  BY <1>1, <1>2, <1>4, <1>5 DEF FailedDownlinkOK, Quiescent, HoldsResponse
<1>7. FailedIdOK(n)'
  <2>1. FailedIdOK(n) /\ ~Refused(n) /\ IdInUse(n)
    BY <1>2, HandlingFacts DEF FailedSubscriberOK, IdInUse, HasAnId
  <2>. QED  BY <1>1, <1>5, <2>1 DEF FailedIdOK
<1>8. amf'[w].pc = "idle" /\ FailedCallOK(w)'
  BY <1>1, HandlingFacts DEF FailedCallOK, AmfReturn, IdleAmf
<1>. QED
  BY <1>1, <1>4, <1>6, <1>7, <1>8, FailedHandlerStep

\* The accept carries the GUTI the handler called the SMF with, whatever else
\* is missing from it.
LEMMA FailedAccept ==
    ASSUME NEW w, NEW n, Handling(w, n), Running("amf"),
           CreateSessionEnd(w) \/ CreateSessionEndFails(w)
    PROVE  FailedAgreement'
<1> DEFINE m == [DownlinkMessage(3, amf[w].id) EXCEPT
                   !.guti = smf[w].guti, !.ul = smf[w].ul, !.ip = smf[w].ip]
<1>1. /\ amf[w].pc = "session_end" /\ smf[w].pc = "done"
      /\ AmfReturn(w) /\ ReturnFromSmf(w) /\ SendDown(w, m)
      /\ UNCHANGED <<exited, s1amf_id>>
      /\ \/ UNCHANGED udm_ctx
         \/ HandleCreateSessionEnd(smf[w].guti, smf[w].teid, smf[w].ip, smf[w].ul,
                                   smf[w].tau_timer)
  BY DEF CreateSessionEnd, CreateSessionEndFails, AmfAt, udmVars
<1>2. /\ ran[n].pc = "session" /\ Quiescent(n) /\ smf[w].guti = Guti(n)
  BY <1>1, HandlingFacts, HandlingPhase DEF Handling, FailedCallOK, SessionPcs
<1>3. m.typ = 3 /\ m.guti = Guti(n)
  BY <1>2 DEF DownlinkMessage
<1> HIDE DEF m
<1>4. /\ down'[n] # <<>> /\ Just(down'[n], 3) /\ down'[n][1] = m
      /\ \A k \in Ues \ {n} : down'[k] = down[k]
  BY <1>1, <1>2, <1>3, FailedSent DEF Quiescent
<1>5. UNCHANGED <<ran, up>> /\ n \in Ues
  BY DEF Handling
<1>6. \A g \in Imsis : udm_ctx'[g].xres = udm_ctx[g].xres
  BY <1>1, ResponsesKept, HandlingFacts
<1>7. FailedDownlinkOK(n)'
  BY <1>2, <1>3, <1>4, <1>5 DEF FailedDownlinkOK, Quiescent
<1>8. HoldsResponse(n)'
  BY <1>2, <1>6, HandlingFacts DEF FailedSubscriberOK, Authenticated, HoldsResponse
<1>9. FailedIdOK(n)'
  <2>1. FailedIdOK(n) /\ ~Refused(n) /\ IdInUse(n)
    BY <1>2, HandlingFacts DEF FailedSubscriberOK, IdInUse, HasAnId
  <2>. QED  BY <1>1, <1>5, <2>1 DEF FailedIdOK
<1>10. amf'[w].pc = "idle" /\ FailedCallOK(w)'
  BY <1>1, HandlingFacts, SmfReturned DEF FailedCallOK, AmfReturn, IdleAmf
<1>. QED
  BY <1>1, <1>4, <1>6, <1>7, <1>8, <1>9, <1>10, FailedHandlerStep

\* A release that succeeds is answered; one that does not is not.
LEMMA FailedDetach ==
    ASSUME NEW w, NEW n, Handling(w, n), Running("amf"), DetachEnd(w)
    PROVE  FailedAgreement'
<1> DEFINE m == DownlinkMessage(5, amf[w].id)
<1>1. /\ amf[w].pc = "detach_end" /\ ReturnFromSmf(w)
      /\ UNCHANGED <<exited, s1amf_id, udm_ctx>>
      /\ \/ SendDown(w, m) /\ AmfGoto(w, "rem_itfid")
         \/ AmfReturn(w) /\ UNCHANGED down
  BY DEF DetachEnd, AmfAt, udmVars
<1>2. CASE AmfReturn(w) /\ UNCHANGED down
  <2>1. Onward
    BY <1>1, <1>2 DEF Onward
  <2>. QED  BY <1>1, <1>2, <2>1, FailedReturn
<1>3. CASE SendDown(w, m) /\ AmfGoto(w, "rem_itfid")
  <2>1. /\ ran[n].pc = "detach" /\ Quiescent(n) /\ s1amf_id[amf[w].id] = Guti(n)
    BY <1>1, HandlingFacts, HandlingPhase DEF FailedServiceOK, DetachPcs, RemPcs
  <2>2. m.typ = 5
    BY DEF DownlinkMessage
  <2> HIDE DEF m
  <2>3. /\ down'[n] # <<>> /\ Just(down'[n], 5)
        /\ \A k \in Ues \ {n} : down'[k] = down[k]
    BY <1>3, <2>1, <2>2, FailedSent DEF Quiescent
  <2>4. UNCHANGED <<ran, up>> /\ n \in Ues
    BY DEF Handling
  <2>5. FailedDownlinkOK(n)' /\ FailedIdOK(n)'
    BY <2>1, <2>3, <2>4 DEF FailedDownlinkOK, Quiescent, FailedIdOK, IdInUse, HasAnId
  <2>6. HoldsResponse(n)'
    BY <1>1, <2>1, HandlingFacts DEF FailedSubscriberOK, Authenticated, HoldsResponse
  <2>7. /\ amf'[w].pc = "rem_itfid" /\ amf'[w].ue = n /\ amf'[w].id = amf[w].id
    BY <1>3, HandlingFacts DEF Handling, AmfGoto, AmfStates
  <2>8. FailedServiceOK(w, n)'
    <3>1. RemovesFor(w, n)'
      BY <1>1, <2>1, <2>3, <2>4, <2>7 DEF RemovesFor
    <3>. QED
      BY <2>1, <2>4, <2>7, <3>1
         DEF FailedServiceOK, AttachPcs, AutnPcs, SessionPcs, CompletePcs, DetachPcs,
             RemPcs
  <2>9. FailedCallOK(w)'
    BY <1>1, HandlingFacts, SmfReturned DEF FailedCallOK
  <2>. QED
    BY <1>1, <2>3, <2>5, <2>6, <2>8, <2>9, FailedHandlerStep
<1>. QED  BY <1>1, <1>2, <1>3

----------------------------------------------------------------------------
(* The ids                                                                 *)

\* The new id is one that nobody has.
LEMMA FailedNewId ==
    ASSUME NEW w, NEW n, Handling(w, n), Running("amf"), InitialAttach(w), FreshIds, NoWrap'
    PROVE  FailedAgreement'
<1> DEFINE id == ue_count + 1
<1>0. /\ amf[w].pc = "attach" /\ ue_count \in Nat /\ ue_count + 1 < IdSpace
      /\ UNCHANGED <<ran, up, down, udm_ctx, smf, exited>>
  BY HandlingFacts DEF Handling, InitialAttach, AmfAt, localFrame, udmVars, smfVars,
                       NoWrap, TypeOK, AmfTypeOK
<1>1. (ue_count + 1) % IdSpace = id /\ id \in MmeIds
  BY <1>0, NextId, HandlingFacts
<1>2. ran[n].pc = "autn" /\ Quiescent(n) /\ amf[w].arg = Imsi(n)
  BY <1>0, HandlingFacts, HandlingPhase DEF FailedServiceOK, AttachPcs
<1>3. s1amf_id[id] = 0 /\ id # 0
  BY <1>0, <1>1 DEF FreshIds
<1>4. /\ s1amf_id' = [s1amf_id EXCEPT ![id] = Guti(n)]
      /\ amf' = [amf EXCEPT ![w] = [@ EXCEPT !.id = id, !.guti = Guti(n),
                                    !.imsi = Imsi(n), !.pc = "attach_init"]]
  BY <1>1, <1>2 DEF InitialAttach, Guti
<1>5. /\ amf'[w].pc = "attach_init" /\ amf'[w].ue = n /\ amf'[w].id = id
      /\ amf'[w].guti = Guti(n) /\ amf'[w].imsi = Imsi(n)
  BY <1>4, HandlingFacts DEF Handling, AmfStates
<1>6. /\ s1amf_id'[id] = Guti(n)
      /\ \A k \in MmeIds : s1amf_id'[k] = s1amf_id[k] \/ s1amf_id[k] \in {0, Guti(n)}
  <2>1. s1amf_id \in [MmeIds -> {0} \cup Imsis]
    BY HandlingFacts DEF TypeOK, AmfTypeOK
  <2>. QED  BY <1>1, <1>3, <1>4, <2>1
<1>7. FailedDownlinkOK(n)' /\ FailedIdOK(n)' /\ ~Authenticated(n)'
  BY <1>0, <1>2
     DEF FailedDownlinkOK, FailedIdOK, IdInUse, HasAnId, Authenticated, Quiescent
<1>8. FailedServiceOK(w, n)'
  BY <1>0, <1>2, <1>3, <1>5, <1>6
     DEF FailedServiceOK, Quiescent, AttachPcs, AutnPcs, SessionPcs, CompletePcs,
         DetachPcs, RemPcs
<1>9. FailedCallOK(w)'
  BY <1>0, HandlingFacts DEF FailedCallOK
<1>. QED
  BY <1>0, <1>6, <1>7, <1>8, <1>9, FailedHandlerStep

\* An id is removed: the subscriber it was given to has it no longer, or waits
\* for an answer that does not come.
LEMMA FailedRemoval ==
    ASSUME NEW w, NEW n, Handling(w, n), s1amf_id[amf[w].id] = Guti(n),
           s1amf_id' = [s1amf_id EXCEPT ![amf[w].id] = 0],
           UNCHANGED <<exited, smf, udm_ctx, down>>, smf[w].pc = "idle",
           ~(ran[n].pc = "autn" /\ down[n] # <<>>),
           ~IdInUse(n) \/ Refused(n)',
           amf'[w].pc = "idle" \/ FailedServiceOK(w, n)'
    PROVE  FailedAgreement'
<1>0. UNCHANGED <<ran, up>> /\ n \in Ues
  BY DEF Handling
<1>1. \A k \in MmeIds : s1amf_id'[k] = s1amf_id[k] \/ s1amf_id[k] \in {0, Guti(n)}
  <2>1. s1amf_id \in [MmeIds -> {0} \cup Imsis]
    BY HandlingFacts DEF TypeOK, AmfTypeOK
  <2>. QED  BY <2>1, HandlingFacts
<1>2. FailedDownlinkOK(n)'
  BY <1>0, HandlingFacts DEF FailedSubscriberOK, FailedDownlinkOK, Just
<1>3. FailedIdOK(n)'
  BY <1>0 DEF FailedIdOK, IdInUse, HasAnId
<1>4. Authenticated(n)' => HoldsResponse(n)'
  BY <1>0, HandlingFacts DEF FailedSubscriberOK, Authenticated, HoldsResponse
<1>5. FailedCallOK(w)'
  BY DEF FailedCallOK
<1>. QED
  BY <1>1, <1>2, <1>3, <1>4, <1>5, FailedHandlerStep

\* handle_autn: a response that is refused, or that the AMF could not compare.
LEMMA FailedRefusal ==
    ASSUME NEW w, NEW n, Handling(w, n), Running("amf"),
           \/ HandleAutn(w) /\ udm_ctx[GutiOf(w)].xres # amf[w].arg
           \/ SetAuthFails(w)
    PROVE  FailedAgreement'
<1>1. /\ amf[w].pc = "autn" /\ UNCHANGED <<smf, udm_ctx, down>>
      /\ HandleAutn(w) \/ SetAuthFails(w)
  BY DEF HandleAutn, SetAuthFails, AmfAt, udmVars, smfVars
<1>2. /\ ran[n].pc = "security" /\ Quiescent(n) /\ amf[w].arg = Vector(n).xres
      /\ GutiOf(w) = Guti(n) /\ GutiOf(w) # 0
  BY <1>1, HandlingFacts, HandlingPhase DEF FailedServiceOK, AutnPcs, RemPcs
<1>3. amf[w].arg # 0
  <2>1. n \in Nat
    BY HandlingFacts DEF Ues
  <2>. QED  BY <1>2, <2>1 DEF Vector, AuthVector, AutnResponse, DbKey, Imsi
<1>4. /\ s1amf_id' = [s1amf_id EXCEPT ![amf[w].id] = 0]
      /\ AmfReturn(w) /\ UNCHANGED exited
  BY <1>1, <1>2, <1>3 DEF HandleAutn, SetAuthFails, IfKnown
<1>5. amf'[w].pc = "idle" /\ smf[w].pc = "idle"
  BY <1>1, <1>4, HandlingFacts DEF FailedCallOK, AmfReturn, IdleAmf
<1>6. Refused(n)'
  <2>1. ASSUME NEW x \in Workers, Serves(x, n)' PROVE FALSE
    <3>1. x # w /\ Serves(x, n)
      BY <1>5, <2>1 DEF Serves, Handling
    <3>2. AtWorker(x, n) /\ AtWorker(w, n) /\ n \in Ues
      BY <3>1 DEF Handling, Placement, ServesOwn, AtWorker, Serves
    <3>. QED  BY <3>1, <3>2 DEF Handling, Placement, Homes
  <2>. QED
    BY <1>1, <1>2, <2>1 DEF Handling, Refused, Quiescent, BeingServed
<1>. QED
  BY <1>1, <1>2, <1>4, <1>5, <1>6, FailedRemoval DEF GutiOf

\* rem_itfid follows the answer to the detach, or what the UE did upon it.
LEMMA FailedRemItfid ==
    ASSUME NEW w, NEW n, Handling(w, n), Running("amf"), RemItfid(w)
    PROVE  FailedAgreement'
<1>1. /\ amf[w].pc = "rem_itfid" /\ AmfGoto(w, "rem_uectx")
      /\ s1amf_id' = [s1amf_id EXCEPT ![amf[w].id] = 0]
      /\ UNCHANGED <<exited, smf, udm_ctx, down>>
  BY DEF RemItfid, AmfAt, udmVars, smfVars
<1>2. RemovesFor(w, n) /\ s1amf_id[amf[w].id] = Guti(n)
  BY <1>1, HandlingPhase DEF RemPcs, RemovesFor
<1>3. ~IdInUse(n) /\ ~(ran[n].pc = "autn" /\ down[n] # <<>>)
  BY <1>2, HandlingFacts
     DEF RemovesFor, IdInUse, HasAnId, FailedSubscriberOK, FailedDownlinkOK
<1>4. smf[w].pc = "idle"
  BY <1>1, HandlingFacts DEF FailedCallOK
<1>5. amf'[w].pc = "rem_uectx"
  BY <1>1, HandlingFacts DEF AmfGoto, AmfStates
<1>6. FailedServiceOK(w, n)'
  <2>1. RemovesFor(w, n)'
    BY <1>1, <1>2, <1>5 DEF RemovesFor, Handling
  <2>2. ran[n].pc = "failed" => ~Running("amf")
    BY HandlingFacts DEF FailedServiceOK
  <2>. QED
    BY <1>1, <1>5, <2>1, <2>2
       DEF Handling, FailedServiceOK, AttachPcs, AutnPcs, SessionPcs, CompletePcs,
           DetachPcs, RemPcs, Running
<1>. QED
  BY <1>1, <1>2, <1>3, <1>4, <1>6, FailedRemoval

----------------------------------------------------------------------------
(* A message arrives                                                       *)

\* What a message starts is the handler its sender waits for, with the id the
\* table has for the sender; a UE whose response was refused sends none.
LEMMA FailedDelivery ==
    ASSUME TypeOK, Placement, FailedAgreement, NEW w \in Workers, NEW n \in Ues,
           n \in ToSet(conns[w]), Delivers(w, n),
           \A x \in Workers \ {w} : amf'[x] = amf[x]
    PROVE  FailedAgreement'
<1> DEFINE m == Head(up[n])
<1>0. /\ up \in [Ues -> Seq(UplinkMessages)] /\ up[n] \in Seq(UplinkMessages)
      /\ amf \in [Workers -> AmfStates] /\ ran[n] \in RanContexts
      /\ amf[w].pc = "idle" /\ Running("amf") /\ up[n] # <<>>
      /\ UNCHANGED <<exited, udm_ctx, smf, ran, down, s1amf_id>>
      /\ FailedSubscriberOK(n) /\ FailedCallOK(w)
  BY DEF TypeOK, ServerTypeOK, AmfTypeOK, RanTypeOK, Delivers, FailedAgreement
<1>1. up'[n] = Tail(up[n]) /\ \A k \in Ues \ {n} : up'[k] = up[k]
  BY <1>0 DEF Delivers
<1>2. down[n] = <<>> /\ smf[w].pc = "idle"
  BY <1>0 DEF FailedSubscriberOK, FailedDownlinkOK, FailedCallOK
<1>3. \/ ran[n].pc = "autn" /\ Just(up[n], 1)
      \/ ran[n].pc = "security" /\ Just(up[n], 2)
      \/ ran[n].pc = "session" /\ Just(up[n], 3)
      \/ ran[n].pc = "data" /\ Just(up[n], 4)
      \/ ran[n].pc = "detach" /\ Just(up[n], 5)
      \/ ran[n].pc = "detach" /\ Len(up[n]) = 2 /\ up[n][1].typ = 4 /\ up[n][2].typ = 5
  BY <1>0 DEF FailedSubscriberOK, FailedUplinkOK, UplinkShape
<1>4. m = up[n][1] /\ 1 \in DOMAIN up[n]
  BY <1>0, <1>3, JustOne, FirstOfTwo
<1>5. UplinkItem(n, m)
  BY <1>0, <1>4 DEF FailedSubscriberOK, FailedUplinkOK
<1>6. /\ ran[n].pc # "autn" => /\ ran[n].mme_s1ap_ue_id # 0
                               /\ s1amf_id[ran[n].mme_s1ap_ue_id] = Guti(n)
  <2>1. ~Refused(n)
    BY <1>0 DEF Refused, Quiescent
  <2>. QED
    BY <1>0, <1>2, <1>3, <2>1
       DEF FailedSubscriberOK, FailedIdOK, IdInUse, HasAnId
<1> HIDE DEF m
<1>7. /\ HandlerOf(m) # "idle" => /\ amf'[w].pc = HandlerOf(m) /\ amf'[w].ue = n
                                  /\ amf'[w].id = m.mme /\ amf'[w].arg = m.arg
      /\ HandlerOf(m) = "idle" => amf'[w].pc = "idle"
  BY <1>0 DEF m, Delivers, IdleAmf
<1>8. FailedDownlinkOK(n)' /\ FailedIdOK(n)'
  BY <1>0, <1>2, <1>3, <1>6 DEF FailedDownlinkOK, FailedIdOK, IdInUse, HasAnId
<1>9. Authenticated(n)' => HoldsResponse(n)'
  BY <1>0 DEF FailedSubscriberOK, Authenticated, HoldsResponse
<1>10. OnlyFor(w, n) /\ FailedCallOK(w)'
  BY <1>0, <1>1, <1>2, <1>7 DEF OnlyFor, FailedCallOK
<1>11. FailedUplinkOK(n)' /\ (amf'[w].pc = "idle" \/ FailedServiceOK(w, n)')
  <2>1. CASE \E typ : Just(up[n], typ)
    <3>1. up'[n] = <<>> /\ DOMAIN up'[n] = {}
      BY <1>0, <1>1, <2>1, JustOne
    <3>2. Quiescent(n)'
      BY <1>0, <1>2, <3>1 DEF Quiescent
    <3>3. FailedUplinkOK(n)'
      BY <1>0, <1>3, <3>1 DEF FailedUplinkOK, UplinkShape, Just
    <3>4. \/ /\ HandlerOf(m) = "attach" /\ m.arg = Imsi(n) /\ ran[n].pc = "autn"
          \/ /\ m.mme = ran[n].mme_s1ap_ue_id /\ ran[n].pc # "autn"
             /\ \/ /\ HandlerOf(m) = "autn" /\ m.arg = Vector(n).xres
                   /\ ran[n].pc = "security"
                \/ HandlerOf(m) = "security_complete" /\ ran[n].pc = "session"
                \/ HandlerOf(m) = "attach_complete" /\ ran[n].pc = "data"
                \/ /\ HandlerOf(m) = "detach" /\ m.arg = Guti(n)
                   /\ ran[n].pc = "detach"
      BY <1>3, <1>4, <1>5, <1>6, <2>1 DEF HandlerOf, UplinkItem, Just
    <3>5. FailedServiceOK(w, n)'
      <4>1. CASE HandlerOf(m) = "attach" /\ m.arg = Imsi(n) /\ ran[n].pc = "autn"
        BY <1>0, <1>7, <3>2, <4>1
           DEF FailedServiceOK, AttachPcs, AutnPcs, SessionPcs, CompletePcs, DetachPcs,
               RemPcs
      <4>2. CASE ~(HandlerOf(m) = "attach" /\ m.arg = Imsi(n) /\ ran[n].pc = "autn")
        <5>1. s1amf_id'[amf'[w].id] = Guti(n) /\ HandlerOf(m) # "idle"
          BY <1>0, <1>6, <1>7, <3>4, <4>2
        <5>2. HandlerOf(m) = "attach_complete" => ServesComplete(w, n)'
          BY <1>0, <1>2, <3>1, <3>4, <4>2 DEF ServesComplete
        <5>. QED
          BY <1>0, <1>7, <3>2, <3>4, <4>2, <5>1, <5>2
             DEF FailedServiceOK, AttachPcs, AutnPcs, SessionPcs, CompletePcs,
                 DetachPcs, RemPcs
      <4>. QED  BY <4>1, <4>2
    <3>. QED  BY <3>3, <3>5
  <2>2. CASE /\ ran[n].pc = "detach" /\ Len(up[n]) = 2
             /\ up[n][1].typ = 4 /\ up[n][2].typ = 5
    <3>1. /\ Len(up'[n]) = 1 /\ up'[n][1] = up[n][2] /\ 2 \in DOMAIN up[n]
          /\ \A k \in DOMAIN up'[n] : k = 1
      BY <1>0, <1>1, <2>2, FirstOfTwo
    <3>2. Just(up'[n], 5)
      BY <2>2, <3>1 DEF Just
    <3>3. FailedUplinkOK(n)'
      <4>1. UplinkItem(n, up[n][2])
        BY <1>0, <3>1 DEF FailedSubscriberOK, FailedUplinkOK
      <4>2. ASSUME NEW k \in DOMAIN up'[n] PROVE UplinkItem(n, up[n][k])'
        <5>1. up'[n][k] = up[n][2]
          BY <3>1
        <5>. QED  BY <1>0, <4>1, <5>1 DEF UplinkItem
      <4>3. UplinkShape(n)'
        BY <1>0, <2>2, <3>2 DEF UplinkShape
      <4>. QED  BY <4>2, <4>3 DEF FailedUplinkOK
    <3>4. HandlerOf(m) = "attach_complete" /\ m.mme = ran[n].mme_s1ap_ue_id
      BY <1>4, <1>5, <1>6, <2>2 DEF HandlerOf, UplinkItem
    <3>5. ServesComplete(w, n)'
      BY <1>0, <1>2, <2>2, <3>2 DEF ServesComplete
    <3>6. s1amf_id'[amf'[w].id] = Guti(n)
      BY <1>0, <1>6, <1>7, <2>2, <3>4
    <3>7. FailedServiceOK(w, n)'
      BY <1>0, <1>7, <2>2, <3>4, <3>5, <3>6
         DEF FailedServiceOK, AttachPcs, AutnPcs, SessionPcs, CompletePcs, DetachPcs,
             RemPcs
    <3>. QED  BY <3>3, <3>7
  <2>. QED  BY <1>3, <2>1, <2>2
<1>. QED
  BY <1>0, <1>8, <1>9, <1>10, <1>11, FailedWorkerStep

----------------------------------------------------------------------------
(* Every step                                                              *)

\* A step that nobody sees keeps the agreement.
LEMMA FailedNobody ==
    ASSUME TypeOK, FailedAgreement, OnlyUpfExits', exited \subseteq exited',
           UNCHANGED <<ran, up, down, udm_ctx, s1amf_id, amf, smf>>
    PROVE  FailedAgreement'
<1>1. ASSUME NEW m \in Ues PROVE FailedSubscriberOK(m)'
  <2>1. Away(m)
    BY DEF Away
  <2>. QED  BY <2>1, AwayKept DEF FailedAgreement
<1>2. \A x \in Workers : FailedCallOK(x)'
  BY DEF FailedAgreement, FailedCallOK
<1>. QED  BY <1>1, <1>2 DEF FailedAgreement

\* A step of an AMF worker whose calls all succeed.
LEMMA FailedAmfStep ==
    ASSUME TypeOK, Placement, FreshIds, FailedAgreement, NoWrap',
           NEW w \in Workers, AmfStep(w)
    PROVE  FailedAgreement'
<1>0. AmfWorker(w) /\ UNCHANGED ran /\ amf[w].ue \in Ues
  BY AmfStateType DEF AmfStep, ranVars, TypeOK
<1>1. CASE AmfSelect(w) \/ AmfClose(w)
  <2>1. UNCHANGED <<ran, up, down, udm_ctx, s1amf_id, amf, smf, exited>>
    BY <1>0, <1>1 DEF AmfSelect, AmfClose, Select, CloseConn, linkVars, udmVars, smfVars,
                      amfVars
  <2>2. OnlyUpfExits'
    BY <2>1 DEF FailedAgreement, OnlyUpfExits
  <2>. QED  BY <2>1, <2>2, FailedNobody
<1>2. CASE HandleUe(w)
  <2>1. \E i \in DOMAIN conns[w] : Delivers(w, conns[w][i])
    BY <1>0, <1>2 DEF HandleUe, Delivers, AmfAt, udmVars, smfVars
  <2>2. conns[w] \in Seq(Ues)
    BY DEF TypeOK, ServerTypeOK
  <2>3. PICK n \in ToSet(conns[w]) : Delivers(w, n)
    BY <2>1 DEF ToSet
  <2>4. n \in Ues
    BY <2>2, <2>3 DEF ToSet
  <2>5. \A x \in Workers \ {w} : amf'[x] = amf[x]
    BY <1>0, WorkerSteps
  <2>. QED  BY <2>3, <2>4, <2>5, FailedDelivery
<1>3. CASE ~AmfSelect(w) /\ ~AmfClose(w) /\ ~HandleUe(w)
  <2>1. PICK n \in Ues : n = amf[w].ue
    BY <1>0
  <2>2. amf[w].pc # "idle" /\ Running("amf")
    BY <1>0, <1>3 DEF AmfWorker, InitialAttach, AttachInit, AttachAuth, HandleAutn,
       SecurityModeCmd, SetIntegrityContext, SendSecurityModeCmd,
       SecurityModeComplete, LocationUpdate, LocationDelete, LocationInsert,
       CreateSessionBegin, CreateSessionEnd, AttachComplete, ModifyBearerBegin,
       ModifyBearerEnd, DetachBegin, DetachEnd, RemItfid, RemUectx, AmfAt
  <2>3. UNCHANGED up
    BY <1>0, <1>3 DEF AmfWorker, InitialAttach, AttachInit, AttachAuth, HandleAutn,
       SecurityModeCmd, SetIntegrityContext, SendSecurityModeCmd,
       SecurityModeComplete, LocationUpdate, LocationDelete, LocationInsert,
       CreateSessionBegin, CreateSessionEnd, AttachComplete, ModifyBearerBegin,
       ModifyBearerEnd, DetachBegin, DetachEnd, RemItfid, RemUectx, localFrame
  <2>4. Handling(w, n)
    BY <1>0, <1>3, <2>1, <2>2, <2>3, WorkerSteps DEF Handling
  <2>5. CASE HandleAutn(w)
    BY <2>2, <2>4, <2>5, FailedAccepted, FailedRefusal
  <2>6. CASE ~HandleAutn(w)
    <3>1. \/ InitialAttach(w) \/ AttachInit(w) \/ AttachAuth(w)
          \/ SecurityModeCmd(w) \/ SetIntegrityContext(w) \/ SendSecurityModeCmd(w)
          \/ SecurityModeComplete(w) \/ LocationUpdate(w) \/ LocationDelete(w)
          \/ LocationInsert(w) \/ CreateSessionBegin(w) \/ CreateSessionEnd(w)
          \/ AttachComplete(w) \/ ModifyBearerBegin(w) \/ ModifyBearerEnd(w)
          \/ DetachBegin(w) \/ DetachEnd(w) \/ RemItfid(w) \/ RemUectx(w)
      BY <1>0, <1>3, <2>6 DEF AmfWorker
    <3>. QED
      BY <2>2, <2>4, <3>1, FailedNewId, FailedAttachInit, FailedChallenge, FailedKeys,
         FailedCommand, FailedLocation, FailedCalls, FailedAccept, FailedLocal,
         FailedDetach, FailedRemItfid
  <2>. QED  BY <2>5, <2>6
<1>. QED  BY <1>1, <1>2, <1>3

\* A step of an AMF worker in which a call fails.
LEMMA FailedAmfFails ==
    ASSUME TypeOK, Placement, FailedAgreement, NEW w \in Workers, AmfFails(w)
    PROVE  FailedAgreement'
<1>1. /\ UNCHANGED <<ran, up>>
      /\ \A x \in Workers \ {w} : amf'[x] = amf[x] /\ smf'[x] = smf[x]
      /\ \/ UNCHANGED amf
         \/ amf'[w].pc = "idle"
         \/ amf[w].pc # "idle" /\ amf'[w].ue = amf[w].ue
  BY FailSteps
<1>2. Running("amf") /\ amf[w].pc # "idle"
  <2>1. smf[w].pc \in {"call", "done"} => amf[w].pc # "idle"
    BY DEF FailedAgreement, FailedCallOK
  <2>. QED
    BY <2>1 DEF AmfFails, AttachInitFails, AuthenticateFails, UpdateInitialAttachFails,
         SetAuthFails, SetCryptFails, SetIntegrityFails, LocationUpdateFails,
         SetLocInfoFails, CreateSessionBeginFails, CreateSessionEndFails,
         AttachCompleteFails, ModifyBearerBeginFails, SmfCallFails, AmfAt
<1>3. PICK n \in Ues : n = amf[w].ue
  BY AmfStateType DEF TypeOK
<1>4. Handling(w, n)
  BY <1>1, <1>2, <1>3 DEF Handling
<1>. QED
  BY <1>2, <1>4, FailedAttachInit, FailedChallenge, FailedRefusal, FailedKeys,
     FailedLocation, FailedCalls, FailedAccept, FailedLocal, FailedSmfCall DEF AmfFails

\* A step of an SMF worker, whether its calls succeed or fail.
LEMMA FailedSmfStep ==
    ASSUME TypeOK, Placement, FailedAgreement, NEW w \in Workers,
           SmfStep(w) \/ SmfFails(w)
    PROVE  FailedAgreement'
<1>0. /\ SmfWorker(w) \/ RequestFails(w) \/ UpdateCreateFails(w)
      /\ UNCHANGED <<ran, up, down, s1amf_id, amf>>
      /\ smf \in [Workers -> SmfStates] /\ smf[w] \in SmfStates
      /\ udm_ctx \in [Imsis -> UdmContexts] /\ FailedCallOK(w)
  BY DEF SmfStep, SmfFails, linkVars, amfVars, ranVars, TypeOK, FailedAgreement,
         SmfTypeOK, UdmTypeOK
<1>1. PICK n \in Ues : n = amf[w].ue
  BY AmfStateType DEF TypeOK
<1>2. smf[w].pc # "idle"
  BY <1>0 DEF SmfWorker, RequestCreate, RequestModify, RequestRelease, RcvAnswer,
              RcvTimeout, UpdateCreate, RequestFails, UpdateCreateFails
<1>3. /\ smf[w].guti = Guti(n) /\ smf[w].guti # 0 /\ amf[w].pc # "idle"
      /\ smf[w].pc = "update" => smf[w].typ = "create"
  BY <1>0, <1>1, <1>2, OwnFacts DEF FailedCallOK
<1>4. /\ UNCHANGED exited
      /\ smf'[w].typ = smf[w].typ /\ smf'[w].guti = smf[w].guti
      /\ smf'[w].pc = "update" => smf[w].typ = "create"
      /\ \A x \in Workers \ {w} : smf'[x] = smf[x]
      /\ \A g \in Imsis : udm_ctx'[g].xres = udm_ctx[g].xres
  <2>1. CASE SmfWorker(w)
    <3>1. /\ UNCHANGED exited
          /\ smf'[w].typ = smf[w].typ /\ smf'[w].guti = smf[w].guti
          /\ smf'[w].pc = "update" => smf[w].typ = "create"
          /\ \A x \in Workers \ {w} : smf'[x] = smf[x]
          /\ \/ UNCHANGED udm_ctx
             \/ \E t : udm_ctx' = [udm_ctx EXCEPT ![smf[w].guti] =
                           [@ EXCEPT !.imsi = smf[w].imsi, !.s11_cteid_mme = t]]
             \/ \E t, a, u, v : udm_ctx' = [udm_ctx EXCEPT ![smf[w].guti] =
                           [@ EXCEPT !.s11_cteid_sgw = t, !.ip_addr = a,
                                     !.s1_uteid_ul = u, !.tau_timer = v]]
      BY <1>3, <2>1, SmfCallKept
    <3>a. ASSUME NEW g \in Imsis PROVE udm_ctx[g] \in UdmContexts
      BY <1>0
    <3>2. ASSUME NEW t, udm_ctx' = [udm_ctx EXCEPT ![smf[w].guti] =
                           [@ EXCEPT !.imsi = smf[w].imsi, !.s11_cteid_mme = t]]
          PROVE  \A g \in Imsis : udm_ctx'[g].xres = udm_ctx[g].xres
      BY <1>0, <3>a, <3>2 DEF UdmContexts
    <3>3. ASSUME NEW t, NEW a, NEW u, NEW v,
                 udm_ctx' = [udm_ctx EXCEPT ![smf[w].guti] =
                           [@ EXCEPT !.s11_cteid_sgw = t, !.ip_addr = a,
                                     !.s1_uteid_ul = u, !.tau_timer = v]]
          PROVE  \A g \in Imsis : udm_ctx'[g].xres = udm_ctx[g].xres
      BY <1>0, <3>a, <3>3 DEF UdmContexts
    <3>4. \A g \in Imsis : udm_ctx'[g].xres = udm_ctx[g].xres
      <4>1. CASE UNCHANGED udm_ctx
        BY <4>1
      <4>2. CASE \E t : udm_ctx' = [udm_ctx EXCEPT ![smf[w].guti] =
                           [@ EXCEPT !.imsi = smf[w].imsi, !.s11_cteid_mme = t]]
        BY <4>2, <3>2
      <4>3. CASE \E t, a, u, v : udm_ctx' = [udm_ctx EXCEPT ![smf[w].guti] =
                           [@ EXCEPT !.s11_cteid_sgw = t, !.ip_addr = a,
                                     !.s1_uteid_ul = u, !.tau_timer = v]]
        BY <4>3, <3>3
      <4>. QED  BY <3>1, <4>1, <4>2, <4>3
    <3>. QED  BY <3>1, <3>4
  <2>2. CASE RequestFails(w)
    <3>1. /\ smf' = [smf EXCEPT ![w] = [@ EXCEPT !.pc = "wait", !.asked = 0]]
          /\ UNCHANGED exited
          /\ \/ UNCHANGED udm_ctx
             \/ RequestSmfCreateSession(smf[w].guti, smf[w].imsi, smf[w].asked)
      BY <2>2 DEF RequestFails, AskUpfForZero, udmVars
    <3>2. \A g \in Imsis : udm_ctx'[g].xres = udm_ctx[g].xres
      BY <3>1, ResponsesKept
    <3>. QED  BY <1>0, <3>1, <3>2 DEF SmfStates
  <2>3. CASE UpdateCreateFails(w)
    <3>1. /\ smf' = [smf EXCEPT ![w] = [@ EXCEPT !.pc = "done", !.res = TRUE,
                                                 !.teid = smf[w].asked]]
          /\ UNCHANGED <<exited, udm_ctx>>
      BY <2>3 DEF UpdateCreateFails, udmVars
    <3>. QED  BY <1>0, <3>1 DEF SmfStates
  <2>. QED  BY <1>0, <2>1, <2>2, <2>3
<1>5. Handling(w, n)
  BY <1>0, <1>1, <1>3, <1>4 DEF Handling
<1>6. Onward /\ MovesOn(w, n)
  BY <1>0, <1>4 DEF Onward, MovesOn
<1>7. FailedCallOK(w)'
  BY <1>0, <1>2, <1>4 DEF FailedCallOK
<1>. QED  BY <1>5, <1>6, <1>7, FailedOnward

\* Every step keeps the agreement, while the counter has not wrapped.
LEMMA FailedStep ==
    ASSUME TypeOK, Placement, FreshIds, FailedAgreement, NoWrap', [FailNext]_failVars
    PROVE  FailedAgreement'
<1>a. ASSUME OnlyUpfExits', exited \subseteq exited',
             UNCHANGED <<udmVars, smfVars, linkVars, amfVars, ranVars>>
      PROVE  FailedAgreement'
  BY <1>a, FailedNobody DEF udmVars, smfVars, linkVars, amfVars, ranVars
<1>b. UNCHANGED exited \/ exited' = exited \cup {"upf"} => OnlyUpfExits'
  BY DEF FailedAgreement, OnlyUpfExits
<1>1. ASSUME NEW n \in Ues, RanStep(n) PROVE FailedAgreement'
  BY <1>1, FailedRanStep
<1>2. CASE AcceptStep
  BY <1>2, <1>a, <1>b DEF AcceptStep, Accept, smfVars, linkVars
<1>3. ASSUME NEW w \in Workers, AmfStep(w) PROVE FailedAgreement'
  BY <1>3, FailedAmfStep
<1>4. ASSUME NEW w \in Workers, SmfStep(w) \/ SmfFails(w) PROVE FailedAgreement'
  BY <1>4, FailedSmfStep
<1>5. ASSUME NEW t \in UpfThreads, UpfStep(t) PROVE FailedAgreement'
  <2>1. UNCHANGED exited \/ exited' = exited \cup {"upf"}
    BY <1>5, UpfExits DEF UpfStep
  <2>. QED  BY <1>5, <1>a, <1>b, <2>1 DEF UpfStep
<1>6. CASE Lose
  BY <1>6, <1>a, <1>b DEF Lose, LoseRequest, LoseReply
<1>7. CASE AmfCrash
  <2>1. OnlyUpfExits' /\ exited \subseteq exited'
    BY <1>7 DEF AmfCrash, Exit, FailedAgreement, OnlyUpfExits
  <2>. QED  BY <1>7, <1>a, <2>1 DEF AmfCrash
<1>8. CASE UNCHANGED vars
  BY <1>8, <1>a, <1>b DEF vars
<1>9. ASSUME NEW w \in Workers, AmfFails(w) PROVE FailedAgreement'
  BY <1>9, FailedAmfFails
<1>. QED
  BY <1>1, <1>2, <1>3, <1>4, <1>5, <1>6, <1>7, <1>8, <1>9
     DEF FailNext, Next, Finished, failVars

\* At the start nobody has said anything.
LEMMA FailedAgreementInit == FailInit => FailedAgreement
<1>. SUFFICES ASSUME FailInit PROVE FailedAgreement
  OBVIOUS
<1>0. /\ \A n \in Ues : ran[n] = NewRan /\ up[n] = <<>> /\ down[n] = <<>>
      /\ \A w \in Workers : amf[w] = IdleAmf /\ smf[w] = IdleSmf
      /\ exited = {}
  BY DEF FailInit, Init, RanInit, ServerInit, AmfInit, SmfInit
<1>1. ASSUME NEW n \in Ues PROVE FailedSubscriberOK(n)
  <2>1. ran[n].pc = "connect" /\ DOMAIN up[n] = {}
    BY <1>0 DEF NewRan
  <2>2. FailedUplinkOK(n) /\ FailedDownlinkOK(n) /\ FailedIdOK(n)
    BY <1>0, <2>1
       DEF FailedUplinkOK, UplinkShape, FailedDownlinkOK, FailedIdOK, IdInUse, HasAnId
  <2>3. \A w \in Workers : ~Serves(w, n)
    BY <1>0 DEF Serves, IdleAmf
  <2>. QED  BY <2>1, <2>2, <2>3 DEF FailedSubscriberOK, Authenticated
<1>2. \A w \in Workers : FailedCallOK(w)
  BY <1>0 DEF FailedCallOK, IdleSmf
<1>. QED  BY <1>0, <1>1, <1>2 DEF FailedAgreement, OnlyUpfExits

\* The invariant is inductive, given the types and the fresh ids.
LEMMA FailInvStep == TypeOK /\ FreshIds /\ FailInv /\ [FailNext]_failVars => FailInv'
  BY FailPlacement, FailedStep, FailWrapsOnce DEF FailInv

----------------------------------------------------------------------------
(* What the run checks on a small instance, for every number of            *)
(* subscribers, of workers, of threads and of calls that fail              *)

\* A failing call breaks neither the turns of a subscriber nor its ids nor the
\* comparison of its response (amf.cpp, handle_ue to rem_uectx, each "TODO:
\* handle error" passed with whatever the missing answer leaves).
THEOREM FailConversation == FailSpec => []FailInv
<1>1. FailInit => FailInv
  BY PlacementInit, FailedAgreementInit DEF FailInv, FailInit
<1>2. FailSpec => []FreshIds
  <2>1. FailInit => FreshIds
    BY FreshIdsInit DEF FailInit
  <2>2. TypeOK /\ FreshIds /\ [FailNext]_failVars => FreshIds'
    BY FailFreshIds
  <2>. QED  BY <2>1, <2>2, FailTypesHold, PTL DEF FailSpec
<1>3. TypeOK /\ FreshIds /\ FailInv /\ [FailNext]_failVars => FailInv'
  BY FailInvStep
<1>. QED  BY <1>1, <1>2, <1>3, FailTypesHold, PTL DEF FailSpec

\* The AMF fails closed (amf.cpp:291): whichever calls fail, a UE that is past
\* its authentication gave the response the UDM holds.
THEOREM AuthenticationFailsClosed == FailSpec => [](NoWrap => FailsClosed)
<1>1. FailInv => (NoWrap => FailsClosed)
  BY DEF FailInv, FailedAgreement, FailedSubscriberOK, Authenticated, HoldsResponse,
         FailsClosed
<1>. QED  BY <1>1, FailConversation, PTL

\* The comment at amf.cpp:1156 stays true when calls fail: the GUTI inside a
\* detach request is the one its header's id leads to.
THEOREM FailedDetachGuti == FailSpec => [](NoWrap => DetachGutiMatches)
<1>1. TypeOK /\ FailInv => (NoWrap => DetachGutiMatches)
  <2>. SUFFICES ASSUME TypeOK, FailedAgreement, NEW w \in Workers, amf[w].pc = "detach"
                PROVE  amf[w].arg = GutiOf(w)
    BY DEF FailInv, DetachGutiMatches
  <2>1. PICK n \in Ues : n = amf[w].ue
    BY AmfStateType DEF TypeOK
  <2>2. FailedServiceOK(w, n)
    BY <2>1 DEF FailedAgreement, FailedSubscriberOK, Serves
  <2>. QED  BY <2>2 DEF FailedServiceOK, DetachPcs, RemPcs, GutiOf
<1>. QED  BY <1>1, FailConversation, FailTypesHold, PTL

\* No answer that is missing ends the AMF, the SMF, the AUSF or the UDM.
THEOREM FailuresEndNothing == FailSpec => [](NoWrap => OnlyUpfExits)
<1>1. FailInv => (NoWrap => OnlyUpfExits)
  BY DEF FailInv, FailedAgreement
<1>. QED  BY <1>1, FailConversation, PTL
=============================================================================
