-------------------------------- MODULE Smf --------------------------------
(***************************************************************************)
(* The session management function.  Worker w serves the REST calls of     *)
(* worker w of the AMF, one at a time, and keeps one UDP socket to the UPF *)
(* for its whole life (smf_server.cpp, handle_s11_traffic).  A request to  *)
(* the UPF is one sendto and one recvfrom with a receive timeout of five   *)
(* seconds (udp_client.cpp); the next datagram of the socket is taken as   *)
(* the answer, whatever it is, and a timeout leaves an empty packet.       *)
(*                                                                         *)
(* Timeouts are bounded by MaxTimeouts while the UPF runs.                 *)
(***************************************************************************)
EXTENDS Udm, Upf

CONSTANT MaxTimeouts    \* bound on the receive timeouts of a behaviour

ASSUME MaxTimeoutsAssumption == MaxTimeouts \in Nat

GTimer == 100           \* g_timer

VARIABLES
    smf,            \* the workers
    timeouts        \* receive timeouts so far

smfVars == <<smf, timeouts>>

\* pc "idle": no call; "done": the response is ready for the AMF.
\* asked is the teid of the outstanding N4 request (of its session, for a
\* create); teid, ip and ul are what the answer was read as.
IdleSmf == [pc |-> "idle", typ |-> "create", guti |-> 0, imsi |-> 0,
            asked |-> 0, teid |-> 0, ip |-> 0, ul |-> 0, tau_timer |-> 0,
            res |-> FALSE]

SmfInit ==
    /\ smf = [w \in Workers |-> IdleSmf]
    /\ timeouts = 0

\* The REST calls of the AMF: the arguments that matter to the handler.
CallSmf(w, typ, guti, imsi, s11_cteid_mme) ==
    smf' = [smf EXCEPT ![w] =
              [IdleSmf EXCEPT !.pc = "call", !.typ = typ, !.guti = guti,
                              !.imsi = imsi, !.asked = s11_cteid_mme]]

ReturnFromSmf(w) == smf' = [smf EXCEPT ![w] = IdleSmf]

\* Mutation: every request leaves by the socket of worker 0.
SendN4FromFirst(w, typ, teid, imsi, dl) ==
    n4_req' = Append(n4_req, [typ |-> typ, w |-> 0, teid |-> teid,
                              imsi |-> imsi, dl |-> dl])

SendN4(w, typ, teid, imsi, dl) ==
    n4_req' = Append(n4_req, [typ |-> typ, w |-> w, teid |-> teid,
                              imsi |-> imsi, dl |-> dl])

----------------------------------------------------------------------------
\* Mutation: the teid is taken from the UDM, as the other two handlers do.
RequestCreateStored(w) ==
    /\ Running("smf")
    /\ smf[w].pc = "call" /\ smf[w].typ = "create"
    /\ IF smf[w].guti = 0
       THEN Exit("smf") /\ UNCHANGED <<smf, udmVars, n4_req>>
       ELSE /\ RequestSmfCreateSession(smf[w].guti, smf[w].imsi, smf[w].asked)
            /\ SendN4(w, "create", udm_ctx[smf[w].guti].s11_cteid_sgw,
                      smf[w].imsi, 0)
            /\ smf' = [smf EXCEPT ![w].pc = "wait"]
            /\ UNCHANGED exited
    /\ UNCHANGED <<timeouts, upfTables, upf, n4_rsp, losses>>

\* handle_create_session up to upf_client.snd: record the request at the UDM
\* and ask the UPF.
RequestCreate(w) ==
    /\ Running("smf")
    /\ smf[w].pc = "call" /\ smf[w].typ = "create"
    /\ IF smf[w].guti = 0
       THEN Exit("smf") /\ UNCHANGED <<smf, udmVars, n4_req>>
       ELSE /\ RequestSmfCreateSession(smf[w].guti, smf[w].imsi, smf[w].asked)
            /\ SendN4(w, "create", smf[w].asked, smf[w].imsi, 0)
            /\ smf' = [smf EXCEPT ![w].pc = "wait"]
            /\ UNCHANGED exited
    /\ UNCHANGED <<timeouts, upfTables, upf, n4_rsp, losses>>

\* handle_modify_bearer: the teids come from the UDM, read without its lock.
RequestModify(w) ==
    /\ Running("smf")
    /\ smf[w].pc = "call" /\ smf[w].typ = "modify"
    /\ IF smf[w].guti = 0
       THEN Exit("smf") /\ UNCHANGED <<smf, n4_req>>
       ELSE LET ctx == udm_ctx[smf[w].guti]
            IN  /\ SendN4(w, "modify", ctx.s11_cteid_sgw, 0, ctx.s1_uteid_dl)
                /\ smf' = [smf EXCEPT ![w] =
                               [@ EXCEPT !.pc = "wait",
                                         !.asked = ctx.s11_cteid_sgw]]
                /\ UNCHANGED exited
    /\ UNCHANGED <<timeouts, udmVars, upfTables, upf, n4_rsp, losses>>

\* handle_detach: the teid comes from the UDM, read without its lock.
RequestRelease(w) ==
    /\ Running("smf")
    /\ smf[w].pc = "call" /\ smf[w].typ = "release"
    /\ IF smf[w].guti = 0
       THEN Exit("smf") /\ UNCHANGED <<smf, n4_req>>
       ELSE LET ctx == udm_ctx[smf[w].guti]
            IN  /\ SendN4(w, "release", ctx.s11_cteid_sgw, 0, 0)
                /\ smf' = [smf EXCEPT ![w] =
                               [@ EXCEPT !.pc = "wait",
                                         !.asked = ctx.s11_cteid_sgw]]
                /\ UNCHANGED exited
    /\ UNCHANGED <<timeouts, udmVars, upfTables, upf, n4_rsp, losses>>

----------------------------------------------------------------------------
\* The answer is read by position.  The body of a create starts with a teid,
\* the byte true reads as teid 1 followed by an empty address and teid 0; the
\* first byte of a create read as a result is true unless its teid is 0 (the code
\* reads the low byte, so a teid that is a multiple of 256 reads false as well;
\* the model's teids are below 256).
ReadAsCreate(m) ==
    IF m.typ = "create" THEN [teid |-> m.teid, ip |-> m.ip, ul |-> m.teid]
                        ELSE [teid |-> 1, ip |-> 0, ul |-> 0]
ReadAsResult(m) == m.typ = "create" => m.teid # 0

EmptyCreate == [teid |-> 0, ip |-> 0, ul |-> 0]

\* handle_create_session goes on to the UDM; handle_modify_bearer copies the
\* result; handle_detach returns early on a false one and leaves the member of
\* its response uninitialised, so the AMF may read either value.
TakeAnswer(w, create, result) ==
    CASE smf[w].typ = "create" ->
           smf' = [smf EXCEPT ![w] =
                       [@ EXCEPT !.pc = "update", !.teid = create.teid,
                                 !.ip = create.ip, !.ul = create.ul]]
      [] smf[w].typ = "modify" ->
           smf' = [smf EXCEPT ![w] = [@ EXCEPT !.pc = "done", !.res = result]]
      [] smf[w].typ = "release" ->
           \E b \in IF result THEN {TRUE} ELSE BOOLEAN :
              smf' = [smf EXCEPT ![w] = [@ EXCEPT !.pc = "done", !.res = b]]

RcvAnswer(w) ==
    /\ Running("smf")
    /\ smf[w].pc = "wait"
    /\ n4_rsp[w] # <<>>
    /\ LET m == Head(n4_rsp[w])
       IN  TakeAnswer(w, ReadAsCreate(m), ReadAsResult(m))
    /\ n4_rsp' = [n4_rsp EXCEPT ![w] = Tail(@)]
    /\ UNCHANGED <<exited, timeouts, udmVars, upfTables, upf, n4_req, losses>>

\* No datagram within five seconds.
RcvTimeout(w) ==
    /\ Running("smf")
    /\ smf[w].pc = "wait"
    /\ n4_rsp[w] = <<>>
    /\ \/ timeouts < MaxTimeouts /\ timeouts' = timeouts + 1
       \/ ~Running("upf") /\ UNCHANGED timeouts
    /\ TakeAnswer(w, EmptyCreate, FALSE)
    /\ UNCHANGED <<exited, udmVars, upfTables, upf, n4Vars>>

\* The second half of handle_create_session: store what the UPF granted, build
\* the response.  The request calls its timer "g_timer".
UpdateCreate(w) ==
    /\ Running("smf")
    /\ smf[w].pc = "update"
    /\ UpdateSmfCreateSession([guti |-> smf[w].guti, ue_ip_addr |-> smf[w].ip,
                               s11_cteid_sgw |-> smf[w].teid,
                               s1_uteid_ul |-> smf[w].ul, g_timer |-> GTimer])
    /\ smf' = [smf EXCEPT ![w] =
                   [@ EXCEPT !.pc = "done", !.res = TRUE,
                             !.teid = smf[w].asked,
                             !.tau_timer = udm_ctx'[smf[w].guti].tau_timer]]
    /\ UNCHANGED <<exited, timeouts, upfTables, upf, n4Vars>>

SmfWorker(w) ==
    \/ RequestCreate(w) \/ RequestModify(w) \/ RequestRelease(w)
    \/ RcvAnswer(w) \/ RcvTimeout(w) \/ UpdateCreate(w)

SmfPcs == {"idle", "call", "wait", "update", "done"}

SmfStates == [pc : SmfPcs, typ : N4Types, guti : {0} \cup Imsis,
              imsi : {0} \cup Imsis, asked : Teids, teid : Teids,
              ip : Addresses, ul : Teids, tau_timer : Nat, res : BOOLEAN]

SmfTypeOK ==
    /\ smf \in [Workers -> SmfStates]
    /\ \A w \in Workers : smf[w].pc \in {"wait", "update"} => smf[w].guti # 0
    /\ timeouts \in 0 .. MaxTimeouts
=============================================================================
