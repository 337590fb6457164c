------------------------------ MODULE Failures ------------------------------
(***************************************************************************)
(* The core when calls between the servers fail.  send_and_receive returns *)
(* false for a connection that breaks, a status that is not 200 or a body  *)
(* that is not JSON; its callers print that, if anything, and read 0 for   *)
(* every member of the answer (rest_utils.cpp:65, the "TODO: handle error" *)
(* of amf.cpp and smf.cpp).  The callee may have run or not; where all the *)
(* caller does is ignore the answer, only "not" makes a difference.        *)
(*                                                                         *)
(* Not distinguished are a call whose answer only feeds the HMAC and the   *)
(* cipher, which use keys of their own, and the keys a UE derives from a   *)
(* security mode command with zeros: no property here is about keys.  The  *)
(* row that a location update for IMSI 0 inserts is left out.              *)
(***************************************************************************)
EXTENDS Conversation

CONSTANT MaxRestFailures    \* bound on the calls that fail in a behaviour

ASSUME MaxRestFailuresAssumption == MaxRestFailures \in Nat

VARIABLE failed     \* the subscribers whose calls have failed, in order

failVars == <<vars, failed>>

\* One more call fails, of the handler that worker w of the AMF is in.
Fail(w) ==
    /\ Len(failed) < MaxRestFailures
    /\ failed' = Append(failed, amf[w].ue)

----------------------------------------------------------------------------
(* Calls of the AMF to the UDM and the AUSF                                *)

\* Mutation: the error of a connection is not noticed and the call waited for.
AttachInitUnnoticed(w) ==
    /\ AmfAt(w, "attach_init") /\ Fail(w)
    /\ AmfGoto(w, "waits")
    /\ UNCHANGED <<exited, udmVars, smfVars, down, ue_count, s1amf_id, amf_ctx,
                   localFrame>>

AttachInitFails(w) ==
    /\ AmfAt(w, "attach_init") /\ Fail(w)
    /\ amf_ctx' = [amf_ctx EXCEPT ![amf[w].guti].present = TRUE]
    /\ AmfGoto(w, "attach_auth")
    /\ UNCHANGED <<exited, udmVars, smfVars, down, ue_count, s1amf_id, localFrame>>

NoVector == [rand_num |-> 0, xres |-> 0, autn_num |-> 0, k_asme |-> 0]

\* No answer of the AUSF, or the one it makes of a key and a random number of 0
\* when its own call to the UDM has failed: stored and sent like any other.
AuthenticateFails(w) ==
    /\ AmfAt(w, "attach_auth") /\ Fail(w)
    /\ \E v \in {NoVector, AuthVector(1)} :
          /\ UpdateInitialAttach(amf[w].guti, v.xres, v.k_asme)
          /\ SendDown(w, [DownlinkMessage(1, amf[w].id) EXCEPT
                            !.autn = v.autn_num, !.rand_num = v.rand_num])
    /\ AmfReturn(w)
    /\ UNCHANGED <<exited, smfVars, ue_count, s1amf_id, amf_ctx, localFrame>>

\* The challenge is sent although the UDM does not know its response.
UpdateInitialAttachFails(w) ==
    /\ AmfAt(w, "attach_auth") /\ Fail(w)
    /\ LET v == AuthVector(amf[w].imsi)
       IN  SendDown(w, [DownlinkMessage(1, amf[w].id) EXCEPT
                          !.autn = v.autn_num, !.rand_num = v.rand_num])
    /\ AmfReturn(w)
    /\ UNCHANGED <<exited, udmVars, smfVars, ue_count, s1amf_id, amf_ctx,
                   localFrame>>

\* The response is compared with 0.
SetAuthFails(w) ==
    /\ AmfAt(w, "autn") /\ Fail(w) /\ GutiOf(w) # 0
    /\ IF amf[w].arg = 0
       THEN AmfGoto(w, "security_cmd") /\ UNCHANGED <<s1amf_id, amf_ctx>>
       ELSE /\ s1amf_id' = [s1amf_id EXCEPT ![amf[w].id] = 0]
            /\ amf_ctx' = [amf_ctx EXCEPT ![GutiOf(w)] = NoAmfContext]
            /\ AmfReturn(w)
    /\ UNCHANGED <<exited, udmVars, smfVars, down, ue_count, localFrame>>

\* A key the UDM has not set: set_crypt_context, set_integrity_context.
SetCryptFails(w) ==
    /\ AmfAt(w, "security_cmd") /\ Fail(w) /\ GutiOf(w) # 0
    /\ amf' = [amf EXCEPT ![w] = [@ EXCEPT !.guti = GutiOf(w),
                                           !.pc = "integrity"]]
    /\ UNCHANGED <<exited, udmVars, smfVars, down, ue_count, s1amf_id, amf_ctx,
                   localFrame>>

SetIntegrityFails(w) ==
    /\ AmfAt(w, "integrity") /\ Fail(w)
    /\ amf_ctx' = [amf_ctx EXCEPT ![amf[w].guti].present = TRUE]
    /\ AmfGoto(w, "security_send")
    /\ UNCHANGED <<exited, udmVars, smfVars, down, ue_count, s1amf_id, localFrame>>

\* The location of IMSI 0 is updated.
LocationUpdateFails(w) ==
    /\ AmfAt(w, "location") /\ Fail(w) /\ GutiOf(w) # 0
    /\ amf' = [amf EXCEPT ![w] = [@ EXCEPT !.guti = GutiOf(w), !.imsi = 0,
                                           !.pc = "loc_delete"]]
    /\ UNCHANGED <<exited, udmVars, smfVars, down, ue_count, s1amf_id, amf_ctx,
                   localFrame>>

\* The call to the AUSF fails before or after it has updated the location, or
\* the AUSF's to the UDM does, which it does not tell the AMF.
SetLocInfoFails(w) ==
    /\ Running("amf") /\ Fail(w)
    /\ \E apn \in {0, 1} :
          /\ \/ amf[w].pc = "loc_delete" /\ UNCHANGED udmVars
             \/ amf[w].pc = "loc_insert" /\ apn = 0 /\ InsertLocInfo(amf[w].imsi)
          /\ amf_ctx' = [amf_ctx EXCEPT ![amf[w].guti] =
                             [@ EXCEPT !.present = TRUE, !.apn_in_use = apn]]
    /\ AmfGoto(w, "session")
    /\ UNCHANGED <<exited, smfVars, down, ue_count, s1amf_id, localFrame>>

\* The session is asked for with IMSI 0 and teid 0.
CreateSessionBeginFails(w) ==
    /\ AmfAt(w, "session") /\ Fail(w) /\ GutiOf(w) # 0
    /\ LET guti == GutiOf(w)
           teid == GetS11CteidAmf(guti)
       IN  /\ HandleCreateSessionBegin(guti, teid) \/ UNCHANGED udmVars
           /\ amf_ctx' = [amf_ctx EXCEPT ![guti] = [@ EXCEPT !.present = TRUE,
                                                       !.s11_cteid_amf = teid]]
           /\ CallSmf(w, "create", guti, 0, 0)
           /\ amf' = [amf EXCEPT ![w] =
                          [@ EXCEPT !.guti = guti, !.pc = "session_end"]]
    /\ UNCHANGED <<exited, timeouts, down, ue_count, s1amf_id, localFrame>>

CreateSessionEndFails(w) ==
    /\ AmfAt(w, "session_end") /\ smf[w].pc = "done" /\ Fail(w)
    /\ SendDown(w, [DownlinkMessage(3, amf[w].id) EXCEPT
                      !.guti = smf[w].guti, !.ul = smf[w].ul, !.ip = smf[w].ip])
    /\ ReturnFromSmf(w)
    /\ AmfReturn(w)
    /\ UNCHANGED <<exited, udmVars, timeouts, ue_count, s1amf_id, amf_ctx,
                   localFrame>>

AttachCompleteFails(w) ==
    /\ AmfAt(w, "attach_complete") /\ Fail(w) /\ GutiOf(w) # 0
    /\ AmfGoto(w, "modify")
    /\ UNCHANGED <<exited, udmVars, smfVars, down, ue_count, s1amf_id, amf_ctx,
                   localFrame>>

ModifyBearerBeginFails(w) ==
    /\ AmfAt(w, "modify") /\ Fail(w) /\ GutiOf(w) # 0
    /\ CallSmf(w, "modify", GutiOf(w), 0, 0)
    /\ amf' = [amf EXCEPT ![w] = [@ EXCEPT !.guti = GutiOf(w),
                                           !.pc = "modify_end"]]
    /\ UNCHANGED <<exited, udmVars, timeouts, down, ue_count, s1amf_id, amf_ctx,
                   localFrame>>

----------------------------------------------------------------------------
(* Calls of the AMF to the SMF                                             *)

\* Mutation: the GUTI is read from the answer whether it is there or not.
UnreadNoGuti(w, ul) == [IdleSmf EXCEPT !.pc = "done", !.typ = smf[w].typ, !.ul = ul]

\* What the AMF goes on with.  For a create the GUTI stays the handler's own,
\* the address empty and the teids uninitialised; the other two results false.
\* The S11 teid, which nothing reads after that, is taken as 0.
Unread(w, ul) ==
    [IdleSmf EXCEPT !.pc = "done", !.typ = smf[w].typ, !.guti = smf[w].guti,
                    !.ul = ul]

\* The SMF never gets the call, or has run all of it.
SmfCallFails(w) ==
    /\ Running("amf") /\ Fail(w)
    /\ smf[w].pc \in {"call", "done"}
    /\ \E ul \in IF smf[w].typ = "create" THEN Teids ELSE {0} :
          smf' = [smf EXCEPT ![w] = Unread(w, ul)]
    /\ UNCHANGED <<exited, udmVars, timeouts, down, amfVars, localFrame>>

----------------------------------------------------------------------------
(* Calls of the SMF to the UDM                                             *)

\* The N4 request goes out with zeros for what the UDM would have answered.
AskUpfForZero(w) ==
    /\ SendN4(w, smf[w].typ, 0, 0, 0)
    /\ smf' = [smf EXCEPT ![w] = [@ EXCEPT !.pc = "wait", !.asked = 0]]

\* Mutation: the members that are missing are left uninitialised.
RequestFailsUninitialised(w) ==
    /\ Running("smf") /\ smf[w].pc = "call" /\ smf[w].guti # 0 /\ Fail(w)
    /\ \E t \in Teids :
          /\ SendN4(w, smf[w].typ, t, 0, 0)
          /\ smf' = [smf EXCEPT ![w] = [@ EXCEPT !.pc = "wait", !.asked = t]]
    /\ UNCHANGED <<exited, udmVars, timeouts, upfTables, upf, n4_rsp, losses>>

RequestFails(w) ==
    /\ Running("smf") /\ smf[w].pc = "call" /\ smf[w].guti # 0 /\ Fail(w)
    /\ AskUpfForZero(w)
    /\ \/ UNCHANGED udmVars
       \/ /\ smf[w].typ = "create"
          /\ RequestSmfCreateSession(smf[w].guti, smf[w].imsi, smf[w].asked)
    /\ UNCHANGED <<exited, timeouts, upfTables, upf, n4_rsp, losses>>

\* What the UPF granted is not stored.
UpdateCreateFails(w) ==
    /\ Running("smf") /\ smf[w].pc = "update" /\ Fail(w)
    /\ smf' = [smf EXCEPT ![w] = [@ EXCEPT !.pc = "done", !.res = TRUE,
                                           !.teid = smf[w].asked]]
    /\ UNCHANGED <<exited, udmVars, timeouts, upfTables, upf, n4Vars>>

SmfFails(w) ==
    /\ RequestFails(w) \/ UpdateCreateFails(w)
    /\ UNCHANGED <<serverVars, linkVars, amfVars, ranVars>>

----------------------------------------------------------------------------
AmfFails(w) ==
    /\ \/ AttachInitFails(w) \/ AuthenticateFails(w)
       \/ UpdateInitialAttachFails(w) \/ SetAuthFails(w)
       \/ SetCryptFails(w) \/ SetIntegrityFails(w)
       \/ LocationUpdateFails(w) \/ SetLocInfoFails(w)
       \/ CreateSessionBeginFails(w) \/ CreateSessionEndFails(w)
       \/ AttachCompleteFails(w) \/ ModifyBearerBeginFails(w)
       \/ SmfCallFails(w)
    /\ UNCHANGED ranVars

FailInit == Init /\ failed = <<>>

FailNext ==
    \/ Next /\ UNCHANGED failed
    \/ \E w \in Workers : AmfFails(w)
    \/ \E w \in Workers : SmfFails(w)

\* The threads run while they can; no call need fail.
FailSpec == FailInit /\ [][FailNext]_failVars /\ Fairness

----------------------------------------------------------------------------
\* amf.cpp:291: whatever call fails, no UE gets past the authentication unless
\* the UDM holds the response to its challenge.
FailsClosed ==
    \A n \in Ues : ran[n].pc \in {"session", "data", "detach"} =>
       udm_ctx[Guti(n)].xres = Vector(n).xres

----------------------------------------------------------------------------
(* What is left of the agreement of Conversation when calls fail: the turns *)
(* of a subscriber, its ids and its response, but neither the session nor   *)
(* the keys.  Of the rest only what FailsClosed, DetachGutiMatches and      *)
(* OnlyUpfExits need.                                                       *)

\* A challenge is the subscriber's own, or one no key explains but that of
\* subscriber 0, whose own it is.
FailedChallengeOK(n, m) ==
    /\ m.mme # 0 /\ s1amf_id[m.mme] = Guti(n)
    /\ \E v \in {NoVector, AuthVector(1), Vector(n)} :
          m.autn = v.autn_num /\ m.rand_num = v.rand_num

\* A UE that ends because of its challenge has sent nothing.
FailedUplinkOK(n) ==
    /\ \A i \in DOMAIN up[n] : UplinkItem(n, up[n][i])
    /\ UplinkShape(n) \/ (ran[n].pc = "failed" /\ up[n] = <<>>)

FailedDownlinkOK(n) ==
    down[n] # <<>> =>
       /\ up[n] = <<>>
       /\ \/ ran[n].pc = "autn" /\ Just(down[n], 1) /\ FailedChallengeOK(n, down[n][1])
          \/ ran[n].pc = "security" /\ Just(down[n], 2)
          \/ ran[n].pc = "session" /\ Just(down[n], 3) /\ down[n][1].guti = Guti(n)
          \/ ran[n].pc = "detach" /\ Just(down[n], 5)

\* The response was refused and the UE waits in vain (amf.cpp, handle_autn).
Refused(n) == ran[n].pc = "security" /\ Quiescent(n) /\ ~BeingServed(n)

FailedIdOK(n) ==
    IdInUse(n) /\ ~Refused(n) =>
       /\ ran[n].mme_s1ap_ue_id # 0
       /\ s1amf_id[ran[n].mme_s1ap_ue_id] = Guti(n)

HoldsResponse(n) == udm_ctx[Guti(n)].xres = Vector(n).xres

\* The UE is past its authentication, or has been told so.
Authenticated(n) ==
    \/ ran[n].pc \in {"session", "data", "detach"}
    \/ ran[n].pc = "security" /\ down[n] # <<>>

\* A UE whose thread has ended is served by an AMF that is gone, if at all.
FailedServiceOK(w, n) ==
    /\ ran[n].pc = "failed" => ~Running("amf")
    /\ amf[w].pc \in AttachPcs =>
          /\ ran[n].pc \in {"autn", "failed"} /\ Quiescent(n)
          /\ amf[w].pc = "attach" => amf[w].arg = Imsi(n)
          /\ amf[w].pc # "attach" =>
                /\ amf[w].imsi = Imsi(n) /\ amf[w].guti = Guti(n)
                /\ amf[w].id # 0
    /\ amf[w].pc \in AutnPcs =>
          /\ ran[n].pc \in {"security", "failed"} /\ Quiescent(n)
          /\ amf[w].pc = "autn" => amf[w].arg = Vector(n).xres
          /\ amf[w].pc # "autn" => HoldsResponse(n)
    /\ amf[w].pc \in SessionPcs => ran[n].pc \in {"session", "failed"} /\ Quiescent(n)
    /\ amf[w].pc \in CompletePcs => ServesComplete(w, n)
    /\ amf[w].pc \in DetachPcs =>
          /\ ran[n].pc \in {"detach", "failed"} /\ Quiescent(n)
          /\ amf[w].pc = "detach" => amf[w].arg = Guti(n)
    /\ amf[w].pc \in RemPcs => RemovesFor(w, n)
    /\ amf[w].pc \notin {"attach"} \cup RemPcs => s1amf_id[amf[w].id] = Guti(n)

FailedSubscriberOK(n) ==
    /\ FailedUplinkOK(n) /\ FailedDownlinkOK(n) /\ FailedIdOK(n)
    /\ ran[n].pc \in {"data", "detach"} => ran[n].guti = Guti(n)
    /\ Authenticated(n) => HoldsResponse(n)
    /\ \A w \in Workers : Serves(w, n) => FailedServiceOK(w, n)

FailedCallOK(w) ==
    smf[w].pc # "idle" =>
       /\ smf[w].guti = Guti(amf[w].ue)
       /\ smf[w].pc = "update" => smf[w].typ = "create"
       /\ \/ amf[w].pc = "session_end" /\ smf[w].typ = "create"
          \/ amf[w].pc = "modify_end" /\ smf[w].typ = "modify"
          \/ amf[w].pc = "detach_end" /\ smf[w].typ = "release"

FailedAgreement ==
    /\ \A n \in Ues : FailedSubscriberOK(n)
    /\ \A w \in Workers : FailedCallOK(w)
    /\ OnlyUpfExits

\* The invariant behind the three, whichever calls fail.
FailInv == Placement /\ (NoWrap => FailedAgreement)

----------------------------------------------------------------------------
\* The zeros of a call that failed are the teid of subscriber 0, and its only:
\* while the UPF runs, a session whose own calls have not failed is not harmed
\* by those of another unless it is subscriber 0's.
FailureContained ==
    \A n \in Ues : (Running("upf") /\ HasSession(n) /\ n # 0 /\ n \notin ToSet(failed)) =>
       /\ ran[n].guti = Guti(n) /\ ran[n].ip_addr = IpAddr(Imsi(n))
       /\ s11_id[Teid(n)] = Imsi(n) /\ s1_id[ran[n].s1_uteid_ul] = Imsi(n)
       /\ sgi_id[ran[n].ip_addr] = Imsi(n) /\ upf_ctx[Imsi(n)].present

\* Nobody retries and nobody waits for an answer that will not come: every
\* worker of the AMF comes back to its connections (amf_server.cpp, handle_ue).
WorkersFreed ==
    \A w \in Workers :
       amf[w].pc # "idle" ~> (amf[w].pc = "idle" \/ ~Running("amf"))
=============================================================================
