----------------------------- MODULE Refinement -----------------------------
(***************************************************************************)
(* How the core implements the two abstract specifications.                *)
(***************************************************************************)
EXTENDS Core

RegistrationOwner ==
    [i \in MmeIds |-> IF s1amf_id[i] = 0 THEN UeCount ELSE s1amf_id[i] - 1]

StageOf(pc) ==
    CASE pc = "autn" -> "asking"
      [] pc \in {"security", "session", "data"} -> "known"
      [] pc = "detach" -> "leaving"
      [] OTHER -> "out"

RegistrationStage == [n \in Ues |-> StageOf(ran[n].pc)]
RegistrationId == [n \in Ues |-> ran[n].mme_s1ap_ue_id]

R == INSTANCE Registration WITH
        Subscribers <- Ues, Ids <- MmeIds, None <- UeCount,
        owner <- RegistrationOwner,
        stage <- RegistrationStage,
        id <- RegistrationId

\* The id table of the AMF (amf.cpp:163-169, 1196, 1240) and the id in each
\* simulator thread implement Registration, whatever is lost, late or misread
\* on N4, however the workers interleave, and if the AMF is killed.
ImplementsRegistration == R!Spec

PhaseOf(pc) ==
    CASE pc \in {"autn", "security", "session"} -> "attaching"
      [] pc = "data" -> "attached"
      [] pc = "detach" -> "detaching"
      [] pc \in {"done", "failed"} -> "gone"
      [] OTHER -> "detached"

\* A release is on its way through the tables from its answer on.
Removing(n) ==
    \E t \in UpfThreads : /\ upf[t].pc \in {"d_s11", "d_s1", "d_sgi", "d_rem"}
                          /\ upf[t].imsi = Imsi(n)

Entries(n) ==
    {s11_id[Teid(n)] = Imsi(n), s1_id[Teid(n)] = Imsi(n),
     sgi_id[IpAddr(Imsi(n))] = Imsi(n), upf_ctx[Imsi(n)].present}

BearerOf(n) ==
    CASE Removing(n) -> "closing"
      [] ~Removing(n) /\ Entries(n) = {FALSE} -> "none"
      [] ~Removing(n) /\ Entries(n) = {TRUE} ->
           IF upf_ctx[Imsi(n)].enodeb THEN "active" ELSE "open"
      [] OTHER -> "opening"

SessionPhase == [n \in Ues |-> PhaseOf(ran[n].pc)]
SessionBearer == [n \in Ues |-> BearerOf(n)]

S == INSTANCE Session WITH
        Subscribers <- Ues,
        phase <- SessionPhase,
        bearer <- SessionBearer

\* Without faults, and with one thread on N4, attach and detach of amf.cpp,
\* smf.cpp, upf.cpp and ran.cpp together implement Session.
ImplementsSession == S!Spec
=============================================================================
