-------------------------------- MODULE Amf --------------------------------
(***************************************************************************)
(* The access and mobility function: the workers of its N2 server run the  *)
(* handlers of amf.cpp.  A handler is a chain of blocking REST calls to    *)
(* the UDM, the AUSF and the SMF; one action below is one such call, with  *)
(* the local code that follows it up to the next call or critical section. *)
(* A worker serves nobody else while it waits for an answer.               *)
(*                                                                         *)
(* Every handler finds its UE again by the mme_s1ap_ue_id in the header of *)
(* the message, through s1amf_id; an id without an entry ends the process. *)
(***************************************************************************)
EXTENDS Smf, Ausf, SctpServer

VARIABLES
    ue_count,       \* initial attaches so far; the code keeps it mod IdSpace
    s1amf_id,       \* mme_s1ap_ue_id -> GUTI, 0 when there is no entry
    amf_ctx,        \* Amf::ue_ctx, what the AMF itself still stores
    amf             \* the workers

amfVars == <<ue_count, s1amf_id, amf_ctx, amf>>

NoAmfContext == [present |-> FALSE, apn_in_use |-> 0, s11_cteid_amf |-> 0,
                 ecm_state |-> 0]

\* ue, id and arg are the connection, the id and the body of the message being
\* served; guti and imsi are locals of the handler.
IdleAmf == [pc |-> "idle", ue |-> 0, id |-> 0, arg |-> 0, guti |-> 0, imsi |-> 0]

AmfInit ==
    /\ ue_count = 0
    /\ s1amf_id = [i \in MmeIds |-> 0]
    /\ amf_ctx = [g \in Imsis |-> NoAmfContext]
    /\ amf = [w \in Workers |-> IdleAmf]

\* Amf::get_guti(pkt), which each handler calls again.
GutiOf(w) == s1amf_id[amf[w].id]

AmfAt(w, pc) == Running("amf") /\ amf[w].pc = pc
AmfGoto(w, pc) == amf' = [amf EXCEPT ![w].pc = pc]
AmfReturn(w) == amf' = [amf EXCEPT ![w] = IdleAmf]

\* A handler's first lines: find the GUTI, exit if there is none, else go on.
\* vars are the variables the rest of the action changes.
IfKnown(w, Rest, vars) ==
    IF GutiOf(w) = 0 THEN Exit("amf") /\ UNCHANGED vars
                     ELSE Rest /\ UNCHANGED exited

DownlinkMessage(typ, id) ==
    [typ |-> typ, mme |-> id, guti |-> 0, autn |-> 0, rand_num |-> 0,
     ul |-> 0, ip |-> 0]

SendDown(w, m) == down' = [down EXCEPT ![amf[w].ue] = Append(@, m)]

unusedByAmf == <<upfVars, timeouts, backlog, turn, pipe, conns, closed>>

\* What the actions that only talk to the UDM leave alone.
localFrame == <<ready, up, unusedByAmf>>

----------------------------------------------------------------------------
\* The worker waits in select only between two messages.
AmfSelect(w) ==
    /\ amf[w].pc = "idle"
    /\ Select(w)
    /\ UNCHANGED <<exited, udmVars, upfVars, smfVars, amfVars>>

AmfClose(w) ==
    /\ amf[w].pc = "idle"
    /\ \E i \in DOMAIN conns[w] : CloseConn(w, i, conns[w][i])
    /\ UNCHANGED <<exited, udmVars, upfVars, smfVars, amfVars>>

\* handle_ue: without an id only an initial attach is served, with one the
\* message type alone selects the handler.
HandlerOf(m) ==
    IF m.mme = 0
    THEN IF m.typ = 1 THEN "attach" ELSE "idle"
    ELSE CASE m.typ = 2 -> "autn"
           [] m.typ = 3 -> "security_complete"
           [] m.typ = 4 -> "attach_complete"
           [] m.typ = 5 -> "detach"
           [] OTHER -> "idle"

HandleUe(w) ==
    /\ AmfAt(w, "idle")
    /\ \E i \in DOMAIN conns[w] :
          LET n == conns[w][i]
              m == Head(up[n])
          IN  /\ IsNext(w, i, n)
              /\ up[n] # <<>>
              /\ amf' = [amf EXCEPT ![w] =
                           IF HandlerOf(m) = "idle" THEN IdleAmf
                           ELSE [pc |-> HandlerOf(m), ue |-> n, id |-> m.mme,
                                 arg |-> m.arg, guti |-> 0, imsi |-> 0]]
              /\ up' = [up EXCEPT ![n] = Tail(@)]
              /\ Served(w, n)
    /\ UNCHANGED <<exited, udmVars, smfVars, upfVars, backlog, turn, pipe,
                   conns, closed, down, ue_count, s1amf_id, amf_ctx>>

----------------------------------------------------------------------------
(* handle_initial_attach                                                   *)

\* Mutations: the increment of the counter is lost; the id is not entered.
InitialAttachLostCount(w) ==
    /\ AmfAt(w, "attach")
    /\ LET id == (ue_count + 1) % IdSpace
           guti == GetGuti(amf[w].arg)
       IN  /\ s1amf_id' = [s1amf_id EXCEPT ![id] = guti]
           /\ amf' = [amf EXCEPT ![w] =
                          [@ EXCEPT !.id = id, !.guti = guti,
                                    !.imsi = amf[w].arg, !.pc = "attach_init"]]
    /\ UNCHANGED <<exited, udmVars, smfVars, down, ue_count, amf_ctx, localFrame>>

InitialAttachNoEntry(w) ==
    /\ AmfAt(w, "attach")
    /\ ue_count' = ue_count + 1
    /\ amf' = [amf EXCEPT ![w] =
                   [@ EXCEPT !.id = (ue_count + 1) % IdSpace,
                             !.guti = GetGuti(amf[w].arg),
                             !.imsi = amf[w].arg, !.pc = "attach_init"]]
    /\ UNCHANGED <<exited, udmVars, smfVars, down, s1amf_id, amf_ctx, localFrame>>

\* A new id for every attach, entered in the table under s1amfid_mux.
InitialAttach(w) ==
    /\ AmfAt(w, "attach")
    /\ LET id == (ue_count + 1) % IdSpace
           guti == GetGuti(amf[w].arg)
       IN  /\ ue_count' = ue_count + 1
           /\ s1amf_id' = [s1amf_id EXCEPT ![id] = guti]
           /\ amf' = [amf EXCEPT ![w] =
                          [@ EXCEPT !.id = id, !.guti = guti,
                                    !.imsi = amf[w].arg, !.pc = "attach_init"]]
    /\ UNCHANGED <<exited, udmVars, smfVars, down, amf_ctx, localFrame>>

\* Then, outside any lock, ue_ctx[guti].nw_type creates the local context.
AttachInit(w) ==
    /\ AmfAt(w, "attach_init")
    /\ UpdateInitialAttachInit(amf[w].guti, amf[w].imsi, amf[w].id)
    /\ amf_ctx' = [amf_ctx EXCEPT ![amf[w].guti].present = TRUE]
    /\ AmfGoto(w, "attach_auth")
    /\ UNCHANGED <<exited, smfVars, down, ue_count, s1amf_id, localFrame>>

\* Fetch a vector, store its response and key, send the challenge.
AttachAuth(w) ==
    /\ AmfAt(w, "attach_auth")
    /\ LET v == AuthVector(amf[w].imsi)
       IN  /\ UpdateInitialAttach(amf[w].guti, v.xres, v.k_asme)
           /\ SendDown(w, [DownlinkMessage(1, amf[w].id) EXCEPT
                             !.autn = v.autn_num, !.rand_num = v.rand_num])
    /\ AmfReturn(w)
    /\ UNCHANGED <<exited, smfVars, ue_count, s1amf_id, amf_ctx, localFrame>>

----------------------------------------------------------------------------
(* handle_autn and handle_security_mode_cmd                                *)

\* Mutation: the result of the comparison is ignored.
HandleAutnAny(w) ==
    /\ AmfAt(w, "autn")
    /\ IfKnown(w, AmfGoto(w, "security_cmd") /\ UNCHANGED <<s1amf_id, amf_ctx>>,
         <<s1amf_id, amf_ctx, amf>>)
    /\ UNCHANGED <<udmVars, smfVars, down, ue_count, localFrame>>

\* A wrong response drops the UE's entries and answers nothing.
HandleAutn(w) ==
    /\ AmfAt(w, "autn")
    /\ IfKnown(w,
         IF udm_ctx[GutiOf(w)].xres = amf[w].arg
         THEN AmfGoto(w, "security_cmd") /\ UNCHANGED <<s1amf_id, amf_ctx>>
         ELSE /\ s1amf_id' = [s1amf_id EXCEPT ![amf[w].id] = 0]
              /\ amf_ctx' = [amf_ctx EXCEPT ![GutiOf(w)] = NoAmfContext]
              /\ AmfReturn(w),
         <<s1amf_id, amf_ctx, amf>>)
    /\ UNCHANGED <<udmVars, smfVars, down, ue_count, localFrame>>

SecurityModeCmd(w) ==
    /\ AmfAt(w, "security_cmd")
    /\ IfKnown(w,
         /\ SetCrypt(GutiOf(w))
         /\ amf' = [amf EXCEPT ![w] =
                        [@ EXCEPT !.guti = GutiOf(w), !.pc = "integrity"]],
         <<udmVars, amf>>)
    /\ UNCHANGED <<smfVars, down, ue_count, s1amf_id, amf_ctx, localFrame>>

\* The local copy of the keys that set_integrity_context also writes is never
\* read; only the creation of the context remains of it.
SetIntegrityContext(w) ==
    /\ AmfAt(w, "integrity")
    /\ SetIntegrity(amf[w].guti)
    /\ amf_ctx' = [amf_ctx EXCEPT ![amf[w].guti].present = TRUE]
    /\ AmfGoto(w, "security_send")
    /\ UNCHANGED <<exited, smfVars, down, ue_count, s1amf_id, localFrame>>

SendSecurityModeCmd(w) ==
    /\ AmfAt(w, "security_send")
    /\ SendDown(w, DownlinkMessage(2, amf[w].id))
    /\ AmfReturn(w)
    /\ UNCHANGED <<exited, udmVars, smfVars, ue_count, s1amf_id, amf_ctx,
                   localFrame>>

----------------------------------------------------------------------------
(* handle_security_mode_complete, handle_location_update and               *)
(* handle_create_session                                                   *)

\* The check of the message's HMAC uses a key that is the same everywhere and
\* never fails; a result of 0 is the simulator refusing the command.
SecurityModeComplete(w) ==
    /\ AmfAt(w, "security_complete")
    /\ IfKnown(w,
         IF amf[w].arg = 0 THEN AmfReturn(w) ELSE AmfGoto(w, "location"),
         amf)
    /\ UNCHANGED <<udmVars, smfVars, down, ue_count, s1amf_id, amf_ctx,
                   localFrame>>

LocationUpdate(w) ==
    /\ AmfAt(w, "location")
    /\ IfKnown(w,
         amf' = [amf EXCEPT ![w] =
                     [@ EXCEPT !.guti = GutiOf(w),
                               !.imsi = udm_ctx[GutiOf(w)].imsi,
                               !.pc = "loc_delete"]],
         amf)
    /\ UNCHANGED <<udmVars, smfVars, down, ue_count, s1amf_id, amf_ctx,
                   localFrame>>

LocationDelete(w) ==
    /\ AmfAt(w, "loc_delete")
    /\ DeleteLocInfo(amf[w].imsi)
    /\ AmfGoto(w, "loc_insert")
    /\ UNCHANGED <<exited, smfVars, down, ue_count, s1amf_id, amf_ctx,
                   localFrame>>

\* The answer carries default_apn = 1 whoever the subscriber is.
LocationInsert(w) ==
    /\ AmfAt(w, "loc_insert")
    /\ InsertLocInfo(amf[w].imsi)
    /\ amf_ctx' = [amf_ctx EXCEPT ![amf[w].guti] =
                       [@ EXCEPT !.present = TRUE, !.apn_in_use = 1]]
    /\ AmfGoto(w, "session")
    /\ UNCHANGED <<exited, smfVars, down, ue_count, s1amf_id, localFrame>>

\* set_upf_info, the local context, HandleCreateSessionBegin at the UDM, and
\* CreateSMContext at the SMF with what the UDM answered.
CreateSessionBegin(w) ==
    /\ AmfAt(w, "session")
    /\ IfKnown(w,
         LET guti == GutiOf(w)
             teid == GetS11CteidAmf(guti)
         IN  /\ HandleCreateSessionBegin(guti, teid)
             /\ amf_ctx' = [amf_ctx EXCEPT ![guti] =
                                [@ EXCEPT !.present = TRUE,
                                          !.s11_cteid_amf = teid]]
             /\ CallSmf(w, "create", guti, udm_ctx[guti].imsi, teid)
             /\ amf' = [amf EXCEPT ![w] =
                            [@ EXCEPT !.guti = guti, !.pc = "session_end"]],
         <<udmVars, smf, amf_ctx, amf>>)
    /\ UNCHANGED <<timeouts, down, ue_count, s1amf_id, localFrame>>

\* Store the SMF's response at the UDM and accept the attach.
CreateSessionEnd(w) ==
    /\ AmfAt(w, "session_end")
    /\ smf[w].pc = "done"
    /\ HandleCreateSessionEnd(smf[w].guti, smf[w].teid, smf[w].ip, smf[w].ul,
                              smf[w].tau_timer)
    /\ SendDown(w, [DownlinkMessage(3, amf[w].id) EXCEPT
                      !.guti = smf[w].guti, !.ul = smf[w].ul, !.ip = smf[w].ip])
    /\ ReturnFromSmf(w)
    /\ AmfReturn(w)
    /\ UNCHANGED <<exited, timeouts, ue_count, s1amf_id, amf_ctx, localFrame>>

----------------------------------------------------------------------------
(* handle_attach_complete and handle_modify_bearer                         *)

\* Mutation: the attach complete is not followed by a modify bearer.
AttachCompleteNoModify(w) ==
    /\ AmfAt(w, "attach_complete")
    /\ IfKnown(w,
         /\ UpdateAttachComplete(GutiOf(w), amf[w].arg)
         /\ AmfReturn(w),
         <<udmVars, amf>>)
    /\ UNCHANGED <<smfVars, down, ue_count, s1amf_id, amf_ctx, localFrame>>

AttachComplete(w) ==
    /\ AmfAt(w, "attach_complete")
    /\ IfKnown(w,
         /\ UpdateAttachComplete(GutiOf(w), amf[w].arg)
         /\ AmfGoto(w, "modify"),
         <<udmVars, amf>>)
    /\ UNCHANGED <<smfVars, down, ue_count, s1amf_id, amf_ctx, localFrame>>

ModifyBearerBegin(w) ==
    /\ AmfAt(w, "modify")
    /\ IfKnown(w,
         LET guti == GutiOf(w)
         IN  /\ HandleModifyBearer(guti)
             /\ CallSmf(w, "modify", guti, 0, 0)
             /\ amf' = [amf EXCEPT ![w] =
                            [@ EXCEPT !.guti = guti, !.pc = "modify_end"]],
         <<udmVars, smf, amf>>)
    /\ UNCHANGED <<timeouts, down, ue_count, s1amf_id, amf_ctx, localFrame>>

ModifyBearerEnd(w) ==
    /\ AmfAt(w, "modify_end")
    /\ smf[w].pc = "done"
    /\ amf_ctx' = IF smf[w].res
                  THEN [amf_ctx EXCEPT ![amf[w].guti] =
                            [@ EXCEPT !.present = TRUE, !.ecm_state = 1]]
                  ELSE amf_ctx
    /\ ReturnFromSmf(w)
    /\ AmfReturn(w)
    /\ UNCHANGED <<exited, udmVars, timeouts, down, ue_count, s1amf_id,
                   localFrame>>

----------------------------------------------------------------------------
(* handle_detach                                                           *)

\* The GUTI found by the id is replaced by the one in the packet.
DetachBegin(w) ==
    /\ AmfAt(w, "detach")
    /\ IfKnown(w,
         /\ CallSmf(w, "release", amf[w].arg, 0, 0)
         /\ amf' = [amf EXCEPT ![w] =
                        [@ EXCEPT !.guti = amf[w].arg, !.pc = "detach_end"]],
         <<smf, amf>>)
    /\ UNCHANGED <<udmVars, timeouts, down, ue_count, s1amf_id, amf_ctx,
                   localFrame>>

\* Mutation: the entries are removed but the UE gets no answer.
DetachEndSilent(w) ==
    /\ AmfAt(w, "detach_end")
    /\ smf[w].pc = "done"
    /\ ReturnFromSmf(w)
    /\ IF smf[w].res THEN AmfGoto(w, "rem_itfid") ELSE AmfReturn(w)
    /\ UNCHANGED <<exited, udmVars, down, timeouts, ue_count, s1amf_id, amf_ctx,
                   localFrame>>

\* A refused release ends the handler without an answer to the UE.
DetachEnd(w) ==
    /\ AmfAt(w, "detach_end")
    /\ smf[w].pc = "done"
    /\ ReturnFromSmf(w)
    /\ IF smf[w].res
       THEN SendDown(w, DownlinkMessage(5, amf[w].id)) /\ AmfGoto(w, "rem_itfid")
       ELSE AmfReturn(w) /\ UNCHANGED down
    /\ UNCHANGED <<exited, udmVars, timeouts, ue_count, s1amf_id, amf_ctx,
                   localFrame>>

\* Mutation: the detach leaves the id in the table.
RemItfidSkipped(w) ==
    /\ AmfAt(w, "rem_itfid")
    /\ AmfGoto(w, "rem_uectx")
    /\ UNCHANGED <<exited, udmVars, smfVars, down, ue_count, s1amf_id, amf_ctx,
                   localFrame>>

RemItfid(w) ==
    /\ AmfAt(w, "rem_itfid")
    /\ s1amf_id' = [s1amf_id EXCEPT ![amf[w].id] = 0]
    /\ AmfGoto(w, "rem_uectx")
    /\ UNCHANGED <<exited, udmVars, smfVars, down, ue_count, amf_ctx, localFrame>>

RemUectx(w) ==
    /\ AmfAt(w, "rem_uectx")
    /\ amf_ctx' = [amf_ctx EXCEPT ![amf[w].guti] = NoAmfContext]
    /\ AmfReturn(w)
    /\ UNCHANGED <<exited, udmVars, smfVars, down, ue_count, s1amf_id, localFrame>>

AmfWorker(w) ==
    \/ AmfSelect(w) \/ AmfClose(w) \/ HandleUe(w)
    \/ InitialAttach(w) \/ AttachInit(w) \/ AttachAuth(w)
    \/ HandleAutn(w) \/ SecurityModeCmd(w) \/ SetIntegrityContext(w)
    \/ SendSecurityModeCmd(w)
    \/ SecurityModeComplete(w) \/ LocationUpdate(w) \/ LocationDelete(w)
    \/ LocationInsert(w) \/ CreateSessionBegin(w) \/ CreateSessionEnd(w)
    \/ AttachComplete(w) \/ ModifyBearerBegin(w) \/ ModifyBearerEnd(w)
    \/ DetachBegin(w) \/ DetachEnd(w) \/ RemItfid(w) \/ RemUectx(w)

AmfPcs == {"idle", "attach", "attach_init", "attach_auth", "autn",
           "security_cmd", "integrity", "security_send", "security_complete",
           "location", "loc_delete", "loc_insert", "session", "session_end",
           "attach_complete", "modify", "modify_end", "detach", "detach_end",
           "rem_itfid", "rem_uectx"}

AmfContexts == [present : BOOLEAN, apn_in_use : {0, 1}, s11_cteid_amf : Teids,
                ecm_state : {0, 1}]

AmfStates == [pc : AmfPcs, ue : Ues, id : MmeIds, arg : Nat,
              guti : {0} \cup Imsis, imsi : {0} \cup Imsis]

AmfTypeOK ==
    /\ ue_count \in Nat
    /\ s1amf_id \in [MmeIds -> {0} \cup Imsis]
    /\ amf_ctx \in [Imsis -> AmfContexts]
    /\ amf \in [Workers -> AmfStates]
    /\ \A w \in Workers :
          /\ amf[w].pc = "attach" => amf[w].arg \in Imsis
          /\ amf[w].pc \in {"attach_init", "attach_auth"} => amf[w].imsi # 0
          /\ amf[w].pc = "attach_complete" => amf[w].arg \in Teids
          /\ amf[w].pc = "detach" => amf[w].arg \in {0} \cup Imsis
=============================================================================
