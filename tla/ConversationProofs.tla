------------------------- MODULE ConversationProofs -------------------------
(***************************************************************************)
(* ConvInv holds in every reachable state, for every value of the          *)
(* constants: however many subscribers and workers there are, whatever is  *)
(* lost, late or misread on N4, and if the AMF is killed.  One lemma shows *)
(* for each component what its step makes of the subscriber it works for.  *)
(* Before them come where connections are (Placement), what the steps of   *)
(* one subscriber leave alone of the others, and how the two streams of a  *)
(* connection grow and shrink.                                             *)
(***************************************************************************)
EXTENDS Conversation, CoreProofs

USE UeCountAssumption, WorkerCountAssumption, IdSpaceAssumption

----------------------------------------------------------------------------
(* Sequences as sets of their elements                                     *)

\* The elements of a queue with one more at its end.
LEMMA ToSetAppend ==
    ASSUME NEW S, NEW s \in Seq(S), NEW e \in S
    PROVE  ToSet(Append(s, e)) = ToSet(s) \cup {e}
<1>1. /\ Len(s) \in Nat /\ DOMAIN s = 1 .. Len(s)
      /\ DOMAIN Append(s, e) = 1 .. (Len(s) + 1)
      /\ Append(s, e)[Len(s) + 1] = e
      /\ \A i \in 1 .. Len(s) : Append(s, e)[i] = s[i]
  OBVIOUS
<1>. QED  BY <1>1 DEF ToSet

\* The elements of a queue are its first one and those of the rest.
LEMMA ToSetTail ==
    ASSUME NEW S, NEW s \in Seq(S), s # <<>>
    PROVE  /\ ToSet(s) = {Head(s)} \cup ToSet(Tail(s))
           /\ Head(s) \in ToSet(s)
<1>1. /\ Len(s) \in Nat /\ Len(s) > 0 /\ DOMAIN s = 1 .. Len(s) /\ Head(s) = s[1]
      /\ DOMAIN Tail(s) = 1 .. (Len(s) - 1)
      /\ \A i \in 1 .. (Len(s) - 1) : Tail(s)[i] = s[i + 1]
  BY EmptySeq, HeadTailProperties
<1>2. \A i \in DOMAIN s : i = 1 \/ (i - 1 \in DOMAIN Tail(s) /\ s[i] = Tail(s)[i - 1])
  BY <1>1
<1>3. \A i \in DOMAIN Tail(s) : i + 1 \in DOMAIN s /\ Tail(s)[i] = s[i + 1]
  BY <1>1
<1>4. Head(s) \in ToSet(s)
  BY <1>1 DEF ToSet
<1>5. ASSUME NEW x \in ToSet(s) PROVE x \in {Head(s)} \cup ToSet(Tail(s))
  <2>1. PICK i \in DOMAIN s : x = s[i]
    BY DEF ToSet
  <2>2. CASE i = 1
    BY <1>1, <2>1, <2>2
  <2>3. CASE i # 1
    BY <1>2, <2>1, <2>3, Zenon DEF ToSet
  <2>. QED  BY <2>2, <2>3
<1>6. ToSet(Tail(s)) \subseteq ToSet(s)
  BY <1>3 DEF ToSet
<1>. QED  BY <1>4, <1>5, <1>6

\* Removing an element of a queue adds none.
LEMMA ToSetRemoveAt ==
    ASSUME NEW S, NEW s \in Seq(S), NEW i \in DOMAIN s
    PROVE  ToSet(RemoveAt(s, i)) \subseteq ToSet(s)
<1> DEFINE a == SubSeq(s, 1, i - 1)
           b == SubSeq(s, i + 1, Len(s))
<1>1. /\ Len(s) \in Nat /\ DOMAIN s = 1 .. Len(s) /\ i \in 1 .. Len(s)
      /\ \A j \in 1 .. Len(s) : s[j] \in S
  OBVIOUS
<1>2. /\ a \in Seq(S) /\ Len(a) = i - 1 /\ \A j \in 1 .. (i - 1) : a[j] = s[j]
      /\ b \in Seq(S) /\ Len(b) = Len(s) - i
      /\ \A j \in 1 .. (Len(s) - i) : b[j] = s[i + j]
  BY <1>1, SubSeqProperties
<1> HIDE DEF a, b
<1>3. /\ DOMAIN (a \o b) = 1 .. (Len(a) + Len(b))
      /\ \A j \in 1 .. (Len(a) + Len(b)) :
            (a \o b)[j] = IF j <= Len(a) THEN a[j] ELSE b[j - Len(a)]
  BY <1>2, ConcatProperties
<1>4. ASSUME NEW j \in DOMAIN (a \o b) PROVE \E k \in DOMAIN s : (a \o b)[j] = s[k]
  <2>1. CASE j <= Len(a)
    BY <1>1, <1>2, <1>3, <2>1
  <2>2. CASE j > Len(a)
    <3>1. j - Len(a) \in 1 .. Len(b)
      BY <1>1, <1>2, <1>3, <2>2
    <3>2. (a \o b)[j] = b[j - Len(a)]
      BY <1>2, <1>3, <2>2
    <3>3. \A k \in 1 .. Len(b) : b[k] = s[i + k] /\ i + k \in 1 .. Len(s)
      BY <1>1, <1>2
    <3>. QED  BY <1>1, <3>1, <3>2, <3>3
  <2>3. Len(a) \in Nat /\ Len(b) \in Nat /\ j \in Nat
    <3>1. Len(a) \in Nat /\ Len(b) \in Nat
      BY <1>2
    <3>. QED  BY <1>3, <3>1
  <2>. QED  BY <2>1, <2>2, <2>3
<1>5. RemoveAt(s, i) = a \o b
  BY DEF RemoveAt, a, b
<1>. QED  BY <1>4, <1>5 DEF ToSet

----------------------------------------------------------------------------
(* What a step leaves alone                                                *)

\* A worker of the AMF changes no other worker's state and no other worker's
\* call; it stays with the connection it serves until its handler returns.
LEMMA WorkerSteps ==
    ASSUME TypeOK, NEW w \in Workers, AmfWorker(w)
    PROVE  /\ \A x \in Workers \ {w} : amf'[x] = amf[x] /\ smf'[x] = smf[x]
           /\ \/ HandleUe(w)
              \/ amf'[w].pc = "idle"
              \/ amf[w].pc # "idle" /\ amf'[w].ue = amf[w].ue
<1>0. /\ amf \in [Workers -> AmfStates] /\ smf \in [Workers -> SmfStates]
      /\ amf[w] \in AmfStates
  BY DEF TypeOK, AmfTypeOK, SmfTypeOK
<1>e. \/ UNCHANGED amf
      \/ \E r : amf' = [amf EXCEPT ![w] = r]
  BY DEF AmfWorker, AmfSelect, AmfClose, HandleUe, InitialAttach, AttachInit,
         AttachAuth, HandleAutn, SecurityModeCmd, SetIntegrityContext,
         SendSecurityModeCmd, SecurityModeComplete, LocationUpdate, LocationDelete,
         LocationInsert, CreateSessionBegin, CreateSessionEnd, AttachComplete,
         ModifyBearerBegin, ModifyBearerEnd, DetachBegin, DetachEnd, RemItfid,
         RemUectx, IfKnown, AmfGoto, AmfReturn, amfVars
<1>f. \/ UNCHANGED smf
      \/ \E r : smf' = [smf EXCEPT ![w] = r]
  BY DEF AmfWorker, AmfSelect, AmfClose, HandleUe, InitialAttach, AttachInit,
         AttachAuth, HandleAutn, SecurityModeCmd, SetIntegrityContext,
         SendSecurityModeCmd, SecurityModeComplete, LocationUpdate, LocationDelete,
         LocationInsert, CreateSessionBegin, CreateSessionEnd, AttachComplete,
         ModifyBearerBegin, ModifyBearerEnd, DetachBegin, DetachEnd, RemItfid,
         RemUectx, IfKnown, CallSmf, ReturnFromSmf, smfVars
<1>1. \A x \in Workers \ {w} : amf'[x] = amf[x] /\ smf'[x] = smf[x]
  BY <1>0, <1>e, <1>f
<1> DEFINE Stays == \/ HandleUe(w)
                    \/ amf'[w].pc = "idle"
                    \/ amf[w].pc # "idle" /\ amf'[w].ue = amf[w].ue
<1>. SUFFICES Stays
  BY <1>1
<1>2. CASE AmfSelect(w) \/ AmfClose(w) \/ HandleUe(w)
  BY <1>2 DEF AmfSelect, AmfClose, amfVars
<1>a. ASSUME amf[w].pc # "idle", NEW g, NEW pc,
             amf' = [amf EXCEPT ![w] = [@ EXCEPT !.guti = g, !.pc = pc]]
      PROVE  Stays
  BY <1>0, <1>a DEF AmfStates
<1>b. ASSUME amf[w].pc # "idle", NEW pc, AmfGoto(w, pc)
      PROVE  Stays
  BY <1>0, <1>b DEF AmfGoto, AmfStates
<1>c. ASSUME AmfReturn(w)
      PROVE  Stays
  BY <1>0, <1>c DEF AmfReturn, IdleAmf
<1>d. ASSUME amf[w].pc # "idle", UNCHANGED amf
      PROVE  Stays
  BY <1>d
<1>3. CASE InitialAttach(w)
  <2>1. \E id, g, i : amf' = [amf EXCEPT ![w] =
            [@ EXCEPT !.id = id, !.guti = g, !.imsi = i, !.pc = "attach_init"]]
    BY <1>3 DEF InitialAttach
  <2>. QED  BY <1>0, <1>3, <2>1 DEF InitialAttach, AmfAt, AmfStates
<1>7. CASE LocationUpdate(w)
  <2>1. \/ UNCHANGED amf
        \/ \E g, i : amf' = [amf EXCEPT ![w] =
                         [@ EXCEPT !.guti = g, !.imsi = i, !.pc = "loc_delete"]]
    BY <1>7 DEF LocationUpdate, IfKnown
  <2>2. amf[w].pc # "idle"
    BY <1>7 DEF LocationUpdate, AmfAt
  <2>3. CASE \E g, i : amf' = [amf EXCEPT ![w] =
                         [@ EXCEPT !.guti = g, !.imsi = i, !.pc = "loc_delete"]]
    BY <1>0, <2>2, <2>3 DEF AmfStates
  <2>. QED  BY <1>d, <2>1, <2>2, <2>3
<1>4. CASE SecurityModeCmd(w) \/ CreateSessionBegin(w) \/ ModifyBearerBegin(w)
           \/ DetachBegin(w)
  BY <1>4, <1>a, <1>d DEF SecurityModeCmd, CreateSessionBegin, ModifyBearerBegin,
                          DetachBegin, IfKnown, AmfAt
<1>5. CASE AttachInit(w) \/ AttachAuth(w) \/ HandleAutn(w) \/ SetIntegrityContext(w)
           \/ SendSecurityModeCmd(w) \/ SecurityModeComplete(w)
           \/ LocationDelete(w) \/ LocationInsert(w)
  BY <1>5, <1>b, <1>c, <1>d
     DEF AttachInit, AttachAuth, HandleAutn, SetIntegrityContext,
         SendSecurityModeCmd, SecurityModeComplete, LocationDelete,
         LocationInsert, IfKnown, AmfAt
<1>6. CASE CreateSessionEnd(w) \/ AttachComplete(w) \/ ModifyBearerEnd(w)
           \/ DetachEnd(w) \/ RemItfid(w) \/ RemUectx(w)
  BY <1>6, <1>b, <1>c, <1>d
     DEF CreateSessionEnd, AttachComplete, ModifyBearerEnd, DetachEnd, RemItfid,
         RemUectx, IfKnown, AmfAt
<1>. QED  BY <1>2, <1>3, <1>4, <1>5, <1>6, <1>7 DEF AmfWorker

\* Where the N2 server keeps its connections is changed by accept, by select
\* and by close only.
LEMMA HandlersKeepPlaces ==
    ASSUME NEW w \in Workers, AmfWorker(w), ~AmfSelect(w), ~AmfClose(w)
    PROVE  UNCHANGED <<backlog, pipe, conns>>
BY DEF AmfWorker, HandleUe, InitialAttach, AttachInit, AttachAuth, HandleAutn,
       SecurityModeCmd, SetIntegrityContext, SendSecurityModeCmd,
       SecurityModeComplete, LocationUpdate, LocationDelete, LocationInsert,
       CreateSessionBegin, CreateSessionEnd, AttachComplete, ModifyBearerBegin,
       ModifyBearerEnd, DetachBegin, DetachEnd, RemItfid, RemUectx, localFrame,
       unusedByAmf

\* A thread of the simulator touches nobody else's state and, once connected,
\* does not connect again.
LEMMA RanSteps ==
    ASSUME TypeOK, NEW n \in Ues, RanThread(n)
    PROVE  /\ \A m \in Ues \ {n} : /\ ran'[m] = ran[m]
                                  /\ up'[m] = up[m] /\ down'[m] = down[m]
           /\ ran'[n].pc # "connect"
<1>0. /\ ran \in [Ues -> RanContexts] /\ ran[n] \in RanContexts
      /\ up \in [Ues -> Seq(UplinkMessages)] /\ down \in [Ues -> Seq(DownlinkMessages)]
  BY DEF TypeOK, RanTypeOK, ServerTypeOK
<1>1. \E r : ran' = [ran EXCEPT ![n] = r]
  BY DEF RanThread, ConnMme, TimeExceeded, RanInitialAttach, RanAuthenticate,
         SetSecurity, SetEpsSession, RanDetach, DetachAccepted, ConnLost, RanGoto
<1>2. UNCHANGED up \/ \E r : up' = [up EXCEPT ![n] = r]
  BY DEF RanThread, ConnMme, TimeExceeded, RanInitialAttach, RanAuthenticate,
         SetSecurity, SetEpsSession, RanDetach, DetachAccepted, ConnLost, SendUp,
         linkVars
<1>3. UNCHANGED down \/ \E r : down' = [down EXCEPT ![n] = r]
  BY DEF RanThread, ConnMme, TimeExceeded, RanInitialAttach, RanAuthenticate,
         SetSecurity, SetEpsSession, RanDetach, DetachAccepted, ConnLost, Received,
         linkVars
<1>4. ran'[n].pc # "connect"
  <2>1. CASE \E pc \in RanPcs \ {"connect"} : RanGoto(n, pc)
    BY <1>0, <2>1 DEF RanGoto, RanContexts
  <2>2. CASE ConnMme(n) \/ TimeExceeded(n) \/ RanDetach(n) \/ DetachAccepted(n)
             \/ ConnLost(n)
    BY <2>1, <2>2 DEF ConnMme, TimeExceeded, RanDetach, DetachAccepted, ConnLost,
                      RanPcs
  <2>3. CASE RanInitialAttach(n)
    BY <1>0, <2>3 DEF RanInitialAttach, RanContexts
  <2>5. CASE SetSecurity(n)
    BY <1>0, <2>5 DEF SetSecurity, RanContexts
  <2>6. CASE SetEpsSession(n)
    BY <1>0, <2>6 DEF SetEpsSession, RanContexts
  <2>4. CASE RanAuthenticate(n)
    <3>1. \E i, k : \/ ran' = [ran EXCEPT ![n] = [@ EXCEPT !.mme_s1ap_ue_id = i,
                                           !.k_asme = k, !.pc = "security"]]
                    \/ ran' = [ran EXCEPT ![n] = [@ EXCEPT !.mme_s1ap_ue_id = i,
                                           !.pc = "failed"]]
      BY <2>4 DEF RanAuthenticate
    <3>. QED  BY <1>0, <3>1 DEF RanContexts
  <2>. QED  BY <2>2, <2>3, <2>4, <2>5, <2>6 DEF RanThread
<1>. QED  BY <1>0, <1>1, <1>2, <1>3, <1>4

----------------------------------------------------------------------------
(* Placement                                                               *)

\* At the start there is no connection.
LEMMA PlacementInit == Init => Placement
<1>1. ToSet(<<>>) = {}
  BY DEF ToSet
<1>. QED
  BY <1>1 DEF Init, ServerInit, AmfInit, IdleAmf, Placement, BacklogDistinct, Homes,
              ServesOwn, AtWorker

\* A new connection (ran.cpp, conn_mme) is nowhere else yet.
LEMMA ConnectPlacement ==
    ASSUME TypeOK, Placement, NEW n \in Ues, ConnMme(n), UNCHANGED amf
    PROVE  Placement'
<1>0. /\ backlog \in Seq(Ues) /\ ran \in [Ues -> RanContexts]
      /\ backlog' = Append(backlog, n) /\ ran[n].pc = "connect"
      /\ UNCHANGED <<pipe, conns>>
  BY DEF TypeOK, ServerTypeOK, RanTypeOK, ConnMme
<1>1. ToSet(backlog') = ToSet(backlog) \cup {n}
  BY <1>0, ToSetAppend
<1>2. n \notin ToSet(backlog) /\ \A w \in Workers : ~AtWorker(w, n)
  BY <1>0 DEF Placement, Homes
<1>3. BacklogDistinct'
  <2>1. /\ Len(backlog) \in Nat /\ DOMAIN backlog = 1 .. Len(backlog)
        /\ DOMAIN backlog' = 1 .. (Len(backlog) + 1)
        /\ backlog'[Len(backlog) + 1] = n
        /\ \A i \in 1 .. Len(backlog) : backlog'[i] = backlog[i]
    BY <1>0
  <2>2. \A i \in DOMAIN backlog : backlog[i] # n
    BY <1>2 DEF ToSet
  <2>. QED  BY <2>1, <2>2 DEF Placement, BacklogDistinct
<1>4. \A m \in Ues : /\ m # n => ran'[m] = ran[m]
                     /\ ran'[n].pc # "connect"
  BY RanSteps DEF RanThread
<1>5. \A w \in Workers, m \in Ues : AtWorker(w, m)' <=> AtWorker(w, m)
  BY <1>0 DEF AtWorker
<1>6. Homes'
  <2>1. \A m \in Ues : m \in ToSet(backlog') => ran'[m].pc # "connect"
    BY <1>1, <1>4 DEF Placement, Homes
  <2>2. ASSUME NEW w \in Workers, NEW m \in Ues, AtWorker(w, m)
        PROVE  /\ ran'[m].pc # "connect" /\ m \notin ToSet(backlog')
               /\ \A x \in Workers : AtWorker(x, m) => x = w
    BY <1>1, <1>2, <1>4, <2>2 DEF Placement, Homes
  <2>. QED  BY <1>5, <2>1, <2>2 DEF Homes
<1>7. ServesOwn'
  BY <1>0 DEF Placement, ServesOwn
<1>. QED  BY <1>3, <1>6, <1>7 DEF Placement

\* accept moves a connection from the backlog to one worker (sctp_server.cpp).
LEMMA AcceptPlacement ==
    ASSUME TypeOK, Placement, Accept, UNCHANGED <<amf, ran>>
    PROVE  Placement'
<1> DEFINE n == Head(backlog)
<1>0. /\ backlog \in Seq(Ues) /\ backlog # <<>> /\ backlog' = Tail(backlog)
      /\ pipe \in [Workers -> Seq(Ues)] /\ turn \in Workers
      /\ pipe' = [pipe EXCEPT ![turn] = Append(@, n)] /\ UNCHANGED conns
      /\ n \in Ues
  BY QueueType DEF TypeOK, ServerTypeOK, Accept
<1>1. ToSet(backlog) = {n} \cup ToSet(backlog') /\ n \in ToSet(backlog)
  BY <1>0, ToSetTail
<1>2. n \notin ToSet(backlog') /\ BacklogDistinct'
  <2>1. /\ Len(backlog) \in Nat /\ DOMAIN backlog = 1 .. Len(backlog)
        /\ DOMAIN backlog' = 1 .. (Len(backlog) - 1) /\ backlog[1] = n
        /\ \A i \in 1 .. (Len(backlog) - 1) : backlog'[i] = backlog[i + 1]
        /\ Len(backlog) > 0
    BY <1>0, EmptySeq, HeadTailProperties
  <2>2. \A i \in DOMAIN backlog' : /\ i + 1 \in DOMAIN backlog /\ i + 1 # 1
                                   /\ 1 \in DOMAIN backlog
                                   /\ backlog'[i] = backlog[i + 1]
    BY <2>1
  <2>3. \A i \in DOMAIN backlog' : backlog'[i] # n
    BY <2>1, <2>2 DEF Placement, BacklogDistinct
  <2>4. BacklogDistinct'
    BY <2>1, <2>2 DEF Placement, BacklogDistinct
  <2>. QED  BY <2>3, <2>4 DEF ToSet
<1>3. \A w \in Workers : ToSet(pipe'[w]) = IF w = turn THEN ToSet(pipe[w]) \cup {n}
                                                      ELSE ToSet(pipe[w])
  <2>1. ToSet(Append(pipe[turn], n)) = ToSet(pipe[turn]) \cup {n}
    BY <1>0, ToSetAppend
  <2>. QED  BY <1>0, <2>1
<1>4. \A w \in Workers, m \in Ues :
         AtWorker(w, m)' <=> (AtWorker(w, m) \/ (w = turn /\ m = n))
  <2>1. SUFFICES ASSUME NEW w \in Workers, NEW m \in Ues
                 PROVE  AtWorker(w, m)' <=> (AtWorker(w, m) \/ (w = turn /\ m = n))
    OBVIOUS
  <2>2. AtWorker(w, m)' <=> m \in ToSet(pipe'[w]) \/ m \in ToSet(conns[w])
    BY <1>0 DEF AtWorker
  <2>3. AtWorker(w, m) <=> m \in ToSet(pipe[w]) \/ m \in ToSet(conns[w])
    BY DEF AtWorker
  <2> HIDE DEF n
  <2>. QED  BY <1>3, <2>2, <2>3
<1>5. \A w \in Workers : ~AtWorker(w, n)
  BY <1>0, <1>1 DEF Placement, Homes
<1>6. Homes'
  <2>1. \A m \in Ues : m \in ToSet(backlog') => ran[m].pc # "connect"
    BY <1>1 DEF Placement, Homes
  <2>2. ASSUME NEW w \in Workers, NEW m \in Ues, AtWorker(w, m)'
        PROVE  /\ ran[m].pc # "connect" /\ m \notin ToSet(backlog')
               /\ \A x \in Workers : AtWorker(x, m)' => x = w
    BY <1>0, <1>1, <1>2, <1>4, <1>5, <2>2 DEF Placement, Homes
  <2>. QED  BY <2>1, <2>2 DEF Homes
<1>7. ServesOwn'
  BY <1>0 DEF Placement, ServesOwn
<1>. QED  BY <1>2, <1>6, <1>7 DEF Placement

\* Nobody is at a worker that was not before, and the served stay.
LEMMA StayPlacement ==
    ASSUME Placement, UNCHANGED backlog,
           \A m \in Ues : ran'[m].pc = "connect" => ran[m].pc = "connect",
           \A w \in Workers, m \in Ues : AtWorker(w, m)' => AtWorker(w, m),
           \A w \in Workers : amf'[w].pc # "idle" =>
              \/ amf'[w].ue \in ToSet(conns'[w])
              \/ /\ amf[w].pc # "idle" /\ amf'[w].ue = amf[w].ue
                 /\ ToSet(conns[w]) \subseteq ToSet(conns'[w])
    PROVE  Placement'
<1>1. BacklogDistinct'
  BY DEF Placement, BacklogDistinct
<1>2. Homes'
  <2>1. \A m \in Ues : m \in ToSet(backlog') => ran'[m].pc # "connect"
    BY DEF Placement, Homes
  <2>2. ASSUME NEW w \in Workers, NEW m \in Ues, AtWorker(w, m)'
        PROVE  /\ ran'[m].pc # "connect" /\ m \notin ToSet(backlog')
               /\ \A x \in Workers : AtWorker(x, m)' => x = w
    BY <2>2 DEF Placement, Homes
  <2>. QED  BY <2>1, <2>2 DEF Homes
<1>3. ServesOwn'
  BY DEF Placement, ServesOwn
<1>. QED  BY <1>1, <1>2, <1>3 DEF Placement

\* A worker keeps its connections and serves one of them.
LEMMA AmfPlacement ==
    ASSUME TypeOK, Placement, NEW w \in Workers, AmfWorker(w), UNCHANGED ran
    PROVE  Placement'
<1>0. /\ pipe \in [Workers -> Seq(Ues)] /\ conns \in [Workers -> Seq(Ues)]
      /\ amf \in [Workers -> AmfStates]
  BY DEF TypeOK, ServerTypeOK, AmfTypeOK
<1>1. CASE AmfSelect(w)
  <2>0. UNCHANGED <<amf, backlog>>
    BY <1>1 DEF AmfSelect, Select, amfVars
  <2>1. CASE pipe[w] = <<>>
    <3>1. UNCHANGED <<pipe, conns>>
      BY <1>1, <2>1 DEF AmfSelect, Select
    <3>. QED  BY <2>0, <3>1, StayPlacement DEF AtWorker
  <2>2. CASE pipe[w] # <<>>
    <3>1. /\ conns' = [conns EXCEPT ![w] = Append(@, Head(pipe[w]))]
          /\ pipe' = [pipe EXCEPT ![w] = Tail(@)]
      BY <1>1, <2>2 DEF AmfSelect, Select
    <3>2. /\ ToSet(pipe[w]) = {Head(pipe[w])} \cup ToSet(Tail(pipe[w]))
          /\ Head(pipe[w]) \in Ues
      BY <1>0, <2>2, ToSetTail, QueueType
    <3>3. ToSet(Append(conns[w], Head(pipe[w]))) = ToSet(conns[w]) \cup {Head(pipe[w])}
      BY <1>0, <3>2, ToSetAppend
    <3>4. /\ \A x \in Workers : x # w => conns'[x] = conns[x] /\ pipe'[x] = pipe[x]
          /\ ToSet(conns'[w]) = ToSet(conns[w]) \cup {Head(pipe[w])}
          /\ ToSet(pipe'[w]) \subseteq ToSet(pipe[w])
          /\ Head(pipe[w]) \in ToSet(pipe[w])
      BY <1>0, <3>1, <3>2, <3>3
    <3>5. \A x \in Workers, m \in Ues : AtWorker(x, m)' => AtWorker(x, m)
      BY <3>4 DEF AtWorker
    <3>. QED  BY <2>0, <3>4, <3>5, StayPlacement
  <2>. QED  BY <2>1, <2>2
<1>2. CASE AmfClose(w)
  <2>1. PICK i \in DOMAIN conns[w] : conns' = [conns EXCEPT ![w] = RemoveAt(@, i)]
    BY <1>2 DEF AmfClose, CloseConn
  <2>2. UNCHANGED <<amf, backlog, pipe>> /\ amf[w].pc = "idle"
    BY <1>2 DEF AmfClose, CloseConn, amfVars
  <2>3. ToSet(RemoveAt(conns[w], i)) \subseteq ToSet(conns[w])
    BY <1>0, ToSetRemoveAt
  <2>4. /\ \A x \in Workers : x # w => conns'[x] = conns[x]
        /\ ToSet(conns'[w]) \subseteq ToSet(conns[w])
    BY <1>0, <2>1, <2>3
  <2>5. \A x \in Workers, m \in Ues : AtWorker(x, m)' => AtWorker(x, m)
    BY <2>2, <2>4 DEF AtWorker
  <2>. QED  BY <2>2, <2>4, <2>5, StayPlacement
<1>3. CASE ~AmfSelect(w) /\ ~AmfClose(w)
  <2>1. UNCHANGED <<backlog, pipe, conns>>
    BY <1>3, HandlersKeepPlaces
  <2>2. HandleUe(w) /\ amf'[w].pc # "idle" => amf'[w].ue \in ToSet(conns[w])
    <3>1. SUFFICES ASSUME HandleUe(w), amf'[w].pc # "idle"
                   PROVE  amf'[w].ue \in ToSet(conns[w])
      OBVIOUS
    <3>2. PICK i \in DOMAIN conns[w] : \E m :
             amf' = [amf EXCEPT ![w] =
                       IF HandlerOf(m) = "idle" THEN IdleAmf
                       ELSE [pc |-> HandlerOf(m), ue |-> conns[w][i], id |-> m.mme,
                             arg |-> m.arg, guti |-> 0, imsi |-> 0]]
      BY <3>1 DEF HandleUe
    <3>3. PICK m :
             amf' = [amf EXCEPT ![w] =
                       IF HandlerOf(m) = "idle" THEN IdleAmf
                       ELSE [pc |-> HandlerOf(m), ue |-> conns[w][i], id |-> m.mme,
                             arg |-> m.arg, guti |-> 0, imsi |-> 0]]
      BY <3>2
    <3>4. amf'[w].ue = conns[w][i]
      BY <1>0, <3>1, <3>3 DEF IdleAmf
    <3>. QED  BY <3>4 DEF ToSet
  <2>3. \A x \in Workers : amf'[x].pc # "idle" =>
           \/ amf'[x].ue \in ToSet(conns[x])
           \/ amf[x].pc # "idle" /\ amf'[x].ue = amf[x].ue
    BY <2>2, WorkerSteps
  <2>4. \A x \in Workers, m \in Ues : AtWorker(x, m)' => AtWorker(x, m)
    BY <2>1 DEF AtWorker
  <2>. QED  BY <2>1, <2>3, <2>4, StayPlacement
<1>. QED  BY <1>1, <1>2, <1>3

\* A connection is in one place and a worker serves its own connections only,
\* whatever happens (sctp_server.h, accept_clients and worker_func).
LEMMA PlacementStep ==
    ASSUME TypeOK, Placement, [Next]_vars
    PROVE  Placement'
<1>a. ASSUME UNCHANGED <<serverVars, amfVars, ranVars>> PROVE Placement'
  <2>1. UNCHANGED <<backlog, pipe, conns, amf, ran>>
    BY <1>a DEF serverVars, amfVars, ranVars
  <2>. QED  BY <2>1, StayPlacement DEF AtWorker
<1>1. ASSUME NEW n \in Ues, RanStep(n) PROVE Placement'
  <2>1. UNCHANGED amf /\ RanThread(n)
    BY <1>1 DEF RanStep, amfVars
  <2>2. CASE ConnMme(n)
    BY <2>1, <2>2, ConnectPlacement
  <2>3. CASE ~ConnMme(n)
    <3>1. UNCHANGED <<backlog, pipe, conns>>
      BY <2>1, <2>3 DEF RanThread, TimeExceeded, RanInitialAttach, RanAuthenticate,
         SetSecurity, SetEpsSession, RanDetach, DetachAccepted, ConnLost, serverVars
    <3>2. \A m \in Ues : ran'[m].pc = "connect" => ran[m].pc = "connect"
      BY <2>1, RanSteps
    <3>. QED  BY <2>1, <3>1, <3>2, StayPlacement DEF AtWorker
  <2>. QED  BY <2>2, <2>3
<1>2. CASE AcceptStep
  BY <1>2, AcceptPlacement DEF AcceptStep, amfVars, ranVars
<1>3. ASSUME NEW w \in Workers, AmfStep(w) PROVE Placement'
  BY <1>3, AmfPlacement DEF AmfStep, ranVars
<1>4. ASSUME NEW w \in Workers, SmfStep(w) PROVE Placement'
  BY <1>4, <1>a DEF SmfStep
<1>5. ASSUME NEW t \in UpfThreads, UpfStep(t) PROVE Placement'
  BY <1>5, <1>a DEF UpfStep
<1>6. CASE Lose \/ AmfCrash \/ UNCHANGED vars
  BY <1>6, <1>a DEF Lose, AmfCrash, vars
<1>. QED  BY <1>1, <1>2, <1>3, <1>4, <1>5, <1>6 DEF Next, Finished

----------------------------------------------------------------------------
(* Subscribers are told apart by everything that is named after them       *)

\* The GUTI and the IMSI of a subscriber are its own.
LEMMA OwnFacts ==
    /\ \A n \in Ues : /\ Imsi(n) \in Imsis /\ Guti(n) \in Imsis /\ Guti(n) # 0
                      /\ Guti(n) = Imsi(n) /\ GetGuti(Imsi(n)) = Guti(n)
    /\ \A n, m \in Ues : Guti(n) = Guti(m) => n = m
    /\ \A n, m \in Ues : Imsi(n) = Imsi(m) => n = m
BY DEF Ues, Imsis, Imsi, Guti, GetGuti

\* What a subscriber's part of the invariant reads is as it was; the AMF may be
\* gone, but it does not come back, and an id may be given to the subscriber.
Untouched(m) ==
    /\ ran'[m] = ran[m] /\ up'[m] = up[m] /\ down'[m] = down[m]
    /\ udm_ctx'[Guti(m)] = udm_ctx[Guti(m)]
    /\ loc_info'[Imsi(m)] = loc_info[Imsi(m)]
    /\ \A id \in MmeIds : s1amf_id[id] = Guti(m) => s1amf_id'[id] = Guti(m)
    /\ exited \subseteq exited'

\* A step that leaves alone what a subscriber's part of the invariant reads
\* leaves the part true.
LEMMA SubscriberFrame ==
    ASSUME TypeOK, NEW m \in Ues, SubscriberOK(m), Untouched(m)
    PROVE  SubscriberOK(m)'
<1>0. /\ ran[m].mme_s1ap_ue_id \in MmeIds
      /\ down[m] # <<>> => down[m][1].mme \in MmeIds
  <2>1. ran[m] \in RanContexts /\ down[m] \in Seq(DownlinkMessages)
    BY DEF TypeOK, RanTypeOK, ServerTypeOK
  <2>2. down[m] # <<>> => down[m][1] \in DownlinkMessages
    BY <2>1, QueueType
  <2>. QED  BY <2>1, <2>2 DEF RanContexts, DownlinkMessages
<1>1. UplinkOK(m)'
  <2>1. \A i \in DOMAIN up'[m] : UplinkItem(m, up[m][i])'
    BY DEF SubscriberOK, UplinkOK, UplinkItem, Untouched
  <2>2. UplinkShape(m)'
    BY DEF SubscriberOK, UplinkOK, UplinkShape, Untouched, Running, Just
  <2>. QED  BY <2>1, <2>2 DEF UplinkOK
<1>2. DownlinkOK(m)'
  BY <1>0 DEF SubscriberOK, DownlinkOK, Untouched, Just, ChallengeOK, AcceptOK
<1>3. IdOK(m)' /\ UeOK(m)'
  BY <1>0 DEF SubscriberOK, IdOK, IdInUse, HasAnId, UeOK, Untouched
<1>4. UdmOK(m)'
  BY DEF SubscriberOK, UdmOK, HasAnId, Challenged, Untouched
<1>. QED  BY <1>1, <1>2, <1>3, <1>4 DEF SubscriberOK

\* A handler for a subscriber whose state does not change goes on being right.
LEMMA ServiceFrame ==
    ASSUME TypeOK, NEW x \in Workers, ServiceOK(x),
           amf'[x] = amf[x], smf'[x] = smf[x],
           amf[x].pc # "idle" => Untouched(amf[x].ue)
    PROVE  ServiceOK(x)'
<1> DEFINE n == amf[x].ue
<1>0. amf[x].id \in MmeIds
  BY AmfStateType DEF TypeOK
<1>1. CallOK(x)'
  BY DEF ServiceOK, CallOK
<1>2. CASE amf[x].pc = "idle"
  BY <1>1, <1>2 DEF ServiceOK, WorkerOK, AttachPcs, AutnPcs, SessionPcs, CompletePcs,
                    DetachPcs, RemPcs
<1>3. CASE amf[x].pc # "idle"
  <2>1. Untouched(n) /\ WorkerOK(x)
    BY <1>3 DEF ServiceOK
  <2>2. amf[x].pc \in AttachPcs => ServesAttach(x, n)'
    BY <1>0, <2>1 DEF WorkerOK, ServesAttach, Quiescent, Untouched
  <2>3. amf[x].pc \in AutnPcs => ServesAutn(x, n)'
    BY <2>1 DEF WorkerOK, ServesAutn, Quiescent, Untouched
  <2>4. amf[x].pc \in SessionPcs => ServesSession(x, n)'
    BY <2>1 DEF WorkerOK, ServesSession, Quiescent, Untouched
  <2>5. amf[x].pc \in CompletePcs => ServesComplete(x, n)'
    BY <2>1 DEF WorkerOK, ServesComplete, Untouched
  <2>6. amf[x].pc \in DetachPcs => ServesDetach(x, n)'
    BY <1>0, <2>1 DEF WorkerOK, ServesDetach, Quiescent, Untouched
  <2>7. amf[x].pc \in RemPcs => RemovesFor(x, n)'
    BY <1>0, <2>1 DEF WorkerOK, RemovesFor, Untouched
  <2>8. /\ Running("amf")' => Running("amf")
        /\ ran'[n] = ran[n]
    BY <2>1 DEF Running, Untouched
  <2>9. WorkerOK(x)'
    BY <2>1, <2>2, <2>3, <2>4, <2>5, <2>6, <2>7, <2>8 DEF WorkerOK
  <2>. QED  BY <1>1, <2>9 DEF ServiceOK
<1>. QED  BY <1>2, <1>3

----------------------------------------------------------------------------
(* Short streams                                                           *)

\* A stream with one message: its head is that message, and nothing follows.
LEMMA JustOne ==
    ASSUME NEW S, NEW s \in Seq(S), NEW typ, Just(s, typ)
    PROVE  /\ s # <<>> /\ Head(s) = s[1] /\ Tail(s) = <<>> /\ 1 \in DOMAIN s
           /\ Head(s) \in S
<1>1. Len(s) = 1 /\ s # <<>> /\ 1 \in DOMAIN s
  <2>1. Len(s) = 1 /\ DOMAIN s = 1 .. Len(s)
    BY LenProperties DEF Just
  <2>2. s # <<>>
    BY <2>1, EmptySeq
  <2>. QED  BY <2>1, <2>2
<1>2. Head(s) \in S /\ Tail(s) \in Seq(S) /\ Len(Tail(s)) = 0
  BY <1>1, HeadTailProperties
<1>3. Tail(s) = <<>>
  BY <1>2, EmptySeq
<1>. QED  BY <1>1, <1>2, <1>3

\* A message sent into an empty stream is all there is.
LEMMA FirstOne ==
    ASSUME NEW m
    PROVE  /\ Append(<<>>, m) = <<m>> /\ Len(<<m>>) = 1 /\ <<m>>[1] = m
           /\ DOMAIN <<m>> = {1} /\ <<m>> # <<>>
OBVIOUS

\* A message sent behind another one: the stream then has the two.
LEMMA SecondOne ==
    ASSUME NEW S, NEW s \in Seq(S), Len(s) = 1, NEW m \in S
    PROVE  LET q == Append(s, m)
           IN  /\ Len(q) = 2 /\ q[1] = s[1] /\ q[2] = m /\ q # <<>>
               /\ \A i \in DOMAIN q : i = 1 \/ i = 2
<1>1. /\ Append(s, m) \in Seq(S) /\ Append(s, m)[2] = m
      /\ Append(s, m)[1] = s[1] /\ Len(Append(s, m)) = 2
  <2>1. Append(s, m) \in Seq(S) /\ Len(Append(s, m)) = Len(s) + 1
    BY AppendProperties
  <2>2. Append(s, m)[2] = m /\ Append(s, m)[1] = s[1]
    OBVIOUS
  <2>. QED  BY <2>1, <2>2
<1>2. DOMAIN Append(s, m) = 1 .. 2
  BY <1>1, LenProperties
<1>3. Append(s, m) # <<>>
  BY <1>1
<1>. QED  BY <1>1, <1>2, <1>3

\* Taking the first of two messages leaves the second.
LEMMA FirstOfTwo ==
    ASSUME NEW S, NEW s \in Seq(S), Len(s) = 2
    PROVE  /\ s # <<>> /\ Head(s) = s[1] /\ Head(s) \in S
           /\ Tail(s) \in Seq(S) /\ Len(Tail(s)) = 1 /\ Tail(s)[1] = s[2]
           /\ \A i \in DOMAIN Tail(s) : i = 1
           /\ 1 \in DOMAIN s /\ 2 \in DOMAIN s
<1>1. s # <<>> /\ 1 \in DOMAIN s /\ 2 \in DOMAIN s /\ Head(s) = s[1]
  OBVIOUS
<1>2. Head(s) \in S /\ Tail(s) \in Seq(S) /\ Len(Tail(s)) = 1 /\ Tail(s)[1] = s[2]
  <2>1. PICK t : t = Tail(s)
    OBVIOUS
  <2>2. Head(s) \in S /\ t \in Seq(S) /\ Len(t) = Len(s) - 1
        /\ \A i \in 1 .. Len(t) : t[i] = s[i + 1]
    BY <1>1, <2>1, HeadTailProperties, Zenon
  <2>3. Len(t) = 1 /\ t[1] = s[2]
    BY <2>2, SMT
  <2>. QED  BY <2>1, <2>2, <2>3, Zenon
<1>3. \A i \in DOMAIN Tail(s) : i = 1
  <2>1. DOMAIN Tail(s) = 1 .. 1
    BY <1>2, LenProperties
  <2>. QED  BY <2>1
<1>. QED  BY <1>1, <1>2, <1>3

----------------------------------------------------------------------------
(* The simulator                                                           *)

\* No worker is inside a handler for n.
NotServed(n) == \A x \in Workers : amf[x].pc # "idle" => amf[x].ue # n

\* While the simulator reads an answer no handler runs for it but the two
\* removals that follow the answer to a detach.
LEMMA WhileAnswered ==
    ASSUME TypeOK, NEW n \in Ues, \A x \in Workers : ServiceOK(x),
           ran[n].pc \in {"autn", "security", "session"}, down[n] # <<>>,
           up[n] = <<>>
    PROVE  NotServed(n)
<1>1. ASSUME NEW x \in Workers, amf[x].pc # "idle", amf[x].ue = n PROVE FALSE
  <2>1. amf[x].pc \in AmfPcs
    BY AmfStateType DEF TypeOK, AmfStates
  <2>2. WorkerOK(x)
    BY DEF ServiceOK
  <2>. QED
    BY <1>1, <2>1, <2>2
       DEF WorkerOK, AmfPcs, AttachPcs, AutnPcs, SessionPcs, CompletePcs, DetachPcs,
           RemPcs, ServesAttach, ServesAutn, ServesSession, ServesComplete,
           ServesDetach, RemovesFor, Quiescent
<1>. QED  BY <1>1 DEF NotServed

\* A handler of the removals, or of the attach complete, stays right if what it
\* asks of its subscriber is still so.
LEMMA RemovalStays ==
    ASSUME NEW x \in Workers, ServiceOK(x), amf[x].pc \in RemPcs,
           amf'[x] = amf[x], smf'[x] = smf[x], RemovesFor(x, amf[x].ue)'
    PROVE  ServiceOK(x)'
BY DEF ServiceOK, WorkerOK, CallOK, AttachPcs, AutnPcs, SessionPcs, CompletePcs,
       DetachPcs, RemPcs

\* The handler of an attach complete, which the simulator does not wait for, is
\* not disturbed by a step of the simulator.
LEMMA CompleteStays ==
    ASSUME NEW x \in Workers, ServiceOK(x), amf[x].pc \in CompletePcs,
           amf'[x] = amf[x], smf'[x] = smf[x], ServesComplete(x, amf[x].ue)',
           Running("amf")' => Running("amf"),
           ran'[amf[x].ue].mme_s1ap_ue_id = ran[amf[x].ue].mme_s1ap_ue_id
    PROVE  ServiceOK(x)'
BY DEF ServiceOK, WorkerOK, CallOK, AttachPcs, AutnPcs, SessionPcs, CompletePcs,
       DetachPcs, RemPcs

\* What a handler for n may be doing, by what the simulator does.
LEMMA ServiceByPc ==
    ASSUME TypeOK, NEW x \in Workers, ServiceOK(x), amf[x].pc # "idle",
           NEW n \in Ues, n = amf[x].ue
    PROVE  /\ ran[n].pc \in {"start", "done"} =>
                 amf[x].pc \in RemPcs /\ RemovesFor(x, n)
           /\ ran[n].pc = "data" => amf[x].pc \in CompletePcs /\ ServesComplete(x, n)
           /\ ran[n].pc = "detach" /\ down[n] # <<>> =>
                 amf[x].pc \in RemPcs /\ RemovesFor(x, n)
<1>1. amf[x].pc \in AmfPcs
  BY AmfStateType DEF TypeOK, AmfStates
<1>2. WorkerOK(x)
  BY DEF ServiceOK
<1>. QED
  BY <1>1, <1>2
     DEF WorkerOK, AmfPcs, AttachPcs, AutnPcs, SessionPcs, CompletePcs, DetachPcs,
         RemPcs, ServesAttach, ServesAutn, ServesSession, ServesComplete,
         ServesDetach, RemovesFor, Quiescent

\* What a step of thread n must keep: the subscriber's part of the invariant,
\* and that of the handlers that run for it.
KeptFor(n) ==
    /\ SubscriberOK(n)'
    /\ \A x \in Workers : amf[x].pc # "idle" /\ amf[x].ue = n => ServiceOK(x)'

RanPremises ==
    /\ TypeOK /\ Placement
    /\ \A m \in Ues : SubscriberOK(m)
    /\ \A x \in Workers : ServiceOK(x)
    /\ UNCHANGED <<exited, udmVars, smfVars, amfVars>>

\* When no worker serves the subscriber only its own part is to be shown.
LEMMA UnservedKept ==
    ASSUME NEW n, NotServed(n), SubscriberOK(n)'
    PROVE  KeptFor(n)
BY DEF NotServed, KeptFor

\* conn_mme: the thread of the simulator connects.
LEMMA ConnMmeKeeps ==
    ASSUME RanPremises, NEW n \in Ues, ConnMme(n)
    PROVE  KeptFor(n)
<1>0. /\ ran[n] \in RanContexts /\ ran[n].pc = "connect"
      /\ ran' = [ran EXCEPT ![n].pc = "start"] /\ ran \in [Ues -> RanContexts]
      /\ UNCHANGED <<up, down, s1amf_id, udm_ctx, loc_info, amf, smf, exited>>
  BY DEF RanPremises, TypeOK, RanTypeOK, ConnMme, RanGoto, linkVars, udmVars,
         smfVars, amfVars
<1>1. ran'[n] = [ran[n] EXCEPT !.pc = "start"]
  BY <1>0
<1>2. NotServed(n)
  BY <1>0 DEF RanPremises, Placement, ServesOwn, Homes, AtWorker, NotServed
<1>3. SubscriberOK(n)
  BY DEF RanPremises
<1>4. ran'[n].pc = "start" /\ ran'[n].mme_s1ap_ue_id = ran[n].mme_s1ap_ue_id
  BY <1>0, <1>1 DEF RanContexts
<1>5. down[n] = <<>> /\ up[n] = <<>>
  BY <1>0, <1>3 DEF SubscriberOK, DownlinkOK, UplinkOK, UplinkShape
<1>6. UplinkOK(n)'
  BY <1>0, <1>3, <1>4, <1>5 DEF SubscriberOK, UplinkOK, UplinkShape, UplinkItem
<1>7. DownlinkOK(n)' /\ IdOK(n)' /\ UeOK(n)' /\ UdmOK(n)'
  BY <1>0, <1>4, <1>5 DEF DownlinkOK, IdOK, UeOK, UdmOK, IdInUse, HasAnId, Challenged
<1>. QED  BY <1>2, <1>6, <1>7, UnservedKept DEF SubscriberOK

\* simulate: the time is up before the next attach.
LEMMA TimeExceededKeeps ==
    ASSUME RanPremises, NEW n \in Ues, TimeExceeded(n)
    PROVE  KeptFor(n)
<1>0. /\ ran[n] \in RanContexts /\ ran[n].pc = "start"
      /\ ran' = [ran EXCEPT ![n].pc = "done"] /\ ran \in [Ues -> RanContexts]
      /\ UNCHANGED <<up, down, s1amf_id, udm_ctx, loc_info, amf, smf, exited>>
  BY DEF RanPremises, TypeOK, RanTypeOK, TimeExceeded, RanGoto, udmVars, smfVars,
         amfVars
<1>1. ran'[n] = [ran[n] EXCEPT !.pc = "done"]
  BY <1>0
<1>2. SubscriberOK(n)
  BY DEF RanPremises
<1>3. ran'[n].pc = "done" /\ ran'[n].mme_s1ap_ue_id = ran[n].mme_s1ap_ue_id
  BY <1>0, <1>1 DEF RanContexts
<1>4. down[n] = <<>> /\ up[n] = <<>>
  BY <1>0, <1>2 DEF SubscriberOK, DownlinkOK, UplinkOK, UplinkShape
<1>5. UplinkOK(n)'
  BY <1>0, <1>2, <1>3, <1>4 DEF SubscriberOK, UplinkOK, UplinkShape, UplinkItem
<1>6. DownlinkOK(n)' /\ IdOK(n)' /\ UeOK(n)' /\ UdmOK(n)'
  BY <1>0, <1>3, <1>4 DEF DownlinkOK, IdOK, UeOK, UdmOK, IdInUse, HasAnId, Challenged
<1>7. ASSUME NEW x \in Workers, amf[x].pc # "idle", amf[x].ue = n
      PROVE  ServiceOK(x)'
  <2>1. ServiceOK(x) /\ amf[x].pc \in RemPcs /\ RemovesFor(x, n)
    BY <1>0, <1>7, ServiceByPc DEF RanPremises
  <2>2. RemovesFor(x, n)'
    BY <1>0, <1>3, <2>1 DEF RemovesFor
  <2>. QED  BY <1>0, <1>7, <2>1, <2>2, RemovalStays
<1>. QED  BY <1>5, <1>6, <1>7 DEF SubscriberOK, KeptFor

\* The first message of an attach; the removals of the last detach may still run.
LEMMA RanInitialAttachKeeps ==
    ASSUME RanPremises, NEW n \in Ues, RanInitialAttach(n)
    PROVE  KeptFor(n)
<1> DEFINE m == [typ |-> 1, mme |-> 0, arg |-> Imsi(n)]
<1>0. /\ ran[n] \in RanContexts /\ ran[n].pc = "start"
      /\ ran' = [ran EXCEPT ![n] = [@ EXCEPT !.pc = "autn",
                                             !.cycles = ran[n].cycles + 1]]
      /\ ran \in [Ues -> RanContexts] /\ up' = [up EXCEPT ![n] = Append(@, m)]
      /\ up \in [Ues -> Seq(UplinkMessages)]
      /\ UNCHANGED <<down, s1amf_id, udm_ctx, loc_info, amf, smf, exited>>
  BY DEF RanPremises, TypeOK, RanTypeOK, ServerTypeOK, RanInitialAttach, SendUp,
         udmVars, smfVars, amfVars
<1>1. SubscriberOK(n)
  BY DEF RanPremises
<1>2. ran'[n].pc = "autn" /\ ran'[n].mme_s1ap_ue_id = ran[n].mme_s1ap_ue_id
  BY <1>0 DEF RanContexts
<1>3. down[n] = <<>> /\ up[n] = <<>>
  BY <1>0, <1>1 DEF SubscriberOK, DownlinkOK, UplinkOK, UplinkShape
<1>4. up'[n] = <<m>> /\ up'[n] # <<>> /\ Just(up'[n], 1) /\ DOMAIN up'[n] = {1}
      /\ up'[n][1] = m
  <2>1. up'[n] = <<m>>
    BY <1>0, <1>3, FirstOne
  <2>. QED  BY <2>1, FirstOne DEF Just
<1>5. UplinkOK(n)'
  BY <1>2, <1>4 DEF UplinkOK, UplinkShape, UplinkItem
<1>6. DownlinkOK(n)' /\ IdOK(n)' /\ UeOK(n)' /\ UdmOK(n)'
  BY <1>0, <1>2, <1>3 DEF DownlinkOK, IdOK, UeOK, UdmOK, IdInUse, HasAnId, Challenged
<1>7. ASSUME NEW x \in Workers, amf[x].pc # "idle", amf[x].ue = n
      PROVE  ServiceOK(x)'
  <2>1. ServiceOK(x) /\ amf[x].pc \in RemPcs /\ RemovesFor(x, n)
    BY <1>0, <1>7, ServiceByPc DEF RanPremises
  <2>2. RemovesFor(x, n)'
    BY <1>0, <1>2, <1>4, <2>1 DEF RemovesFor
  <2>. QED  BY <1>0, <1>7, <2>1, <2>2, RemovalStays
<1>. QED  BY <1>5, <1>6, <1>7 DEF SubscriberOK, KeptFor

\* The challenge is the one the subscriber's own key explains.
LEMMA RanAuthenticateKeeps ==
    ASSUME RanPremises, NEW n \in Ues, RanAuthenticate(n)
    PROVE  KeptFor(n)
<1> DEFINE c == Head(down[n])
           res == AutnResponse(RanKey(n), c.rand_num)
           m == [typ |-> 2, mme |-> c.mme, arg |-> res]
<1>0. /\ ran[n] \in RanContexts /\ ran[n].pc = "autn" /\ down[n] # <<>>
      /\ down' = [down EXCEPT ![n] = Tail(@)]
      /\ ran \in [Ues -> RanContexts] /\ up \in [Ues -> Seq(UplinkMessages)]
      /\ down \in [Ues -> Seq(DownlinkMessages)]
      /\ UNCHANGED <<s1amf_id, udm_ctx, loc_info, amf, smf, exited>>
  BY DEF RanPremises, TypeOK, RanTypeOK, ServerTypeOK, RanAuthenticate, Received,
         udmVars, smfVars, amfVars
<1>1. SubscriberOK(n)
  BY DEF RanPremises
<1>2. up[n] = <<>> /\ Just(down[n], 1) /\ ChallengeOK(n, down[n][1])
  BY <1>0, <1>1 DEF SubscriberOK, DownlinkOK
<1>3. c = down[n][1] /\ down'[n] = <<>> /\ c \in DownlinkMessages
  BY <1>0, <1>2, JustOne
<1>4. res = Vector(n).xres /\ c.autn = res + 1 /\ KAsme(res, c.rand_num) = Vector(n).k_asme
  BY <1>2, <1>3 DEF ChallengeOK, Vector, AuthVector, AutnResponse, RanKey, DbKey, Imsi, Ues
<1> HIDE DEF c, res
<1>5. /\ ran' = [ran EXCEPT ![n] = [@ EXCEPT !.mme_s1ap_ue_id = c.mme,
                                    !.k_asme = KAsme(res, c.rand_num),
                                    !.pc = "security"]]
      /\ up' = [up EXCEPT ![n] = Append(@, m)]
  BY <1>4 DEF RanAuthenticate, SendUp, c, res
<1>6. /\ ran'[n].pc = "security" /\ ran'[n].mme_s1ap_ue_id = c.mme
      /\ ran'[n].k_asme = Vector(n).k_asme
  BY <1>0, <1>4, <1>5 DEF RanContexts
<1>7. up'[n] = <<m>> /\ up'[n] # <<>> /\ Just(up'[n], 2) /\ DOMAIN up'[n] = {1}
      /\ up'[n][1] = m
  <2>1. up'[n] = <<m>>
    BY <1>0, <1>2, <1>5, FirstOne
  <2>. QED  BY <2>1, FirstOne DEF Just
<1>8. UplinkOK(n)'
  BY <1>4, <1>6, <1>7 DEF UplinkOK, UplinkShape, UplinkItem
<1>9. DownlinkOK(n)' /\ UeOK(n)'
  BY <1>3, <1>6 DEF DownlinkOK, UeOK, HasAnId
<1>10. IdOK(n)'
  BY <1>0, <1>2, <1>3, <1>6 DEF IdOK, ChallengeOK
<1>11. UdmOK(n)'
  BY <1>0, <1>1, <1>2, <1>3, <1>6
     DEF SubscriberOK, UdmOK, ChallengeOK, HasAnId, Challenged
<1>12. NotServed(n)
  BY <1>0, <1>2, WhileAnswered DEF RanPremises
<1>. QED  BY <1>8, <1>9, <1>10, <1>11, <1>12, UnservedKept DEF SubscriberOK

\* set_security: the command is answered, with the keys derived from K_ASME.
LEMMA SetSecurityKeeps ==
    ASSUME RanPremises, NEW n \in Ues, SetSecurity(n)
    PROVE  KeptFor(n)
<1> DEFINE m == [typ |-> 3, mme |-> ran[n].mme_s1ap_ue_id, arg |-> 1]
<1>0. /\ ran[n] \in RanContexts /\ ran[n].pc = "security" /\ down[n] # <<>>
      /\ down' = [down EXCEPT ![n] = Tail(@)]
      /\ ran' = [ran EXCEPT ![n] =
                     [@ EXCEPT !.k_nas = ran[n].k_asme + RanAlgo + RanCount + 1,
                               !.pc = "session"]]
      /\ up' = [up EXCEPT ![n] = Append(@, m)]
      /\ ran \in [Ues -> RanContexts] /\ up \in [Ues -> Seq(UplinkMessages)]
      /\ down \in [Ues -> Seq(DownlinkMessages)]
      /\ UNCHANGED <<s1amf_id, udm_ctx, loc_info, amf, smf, exited>>
  BY DEF RanPremises, TypeOK, RanTypeOK, ServerTypeOK, SetSecurity, Received, SendUp,
         udmVars, smfVars, amfVars
<1>1. SubscriberOK(n)
  BY DEF RanPremises
<1>2. up[n] = <<>> /\ Just(down[n], 2)
  BY <1>0, <1>1 DEF SubscriberOK, DownlinkOK
<1>3. down'[n] = <<>>
  BY <1>0, <1>2, JustOne
<1>4. /\ ran'[n].pc = "session" /\ ran'[n].mme_s1ap_ue_id = ran[n].mme_s1ap_ue_id
      /\ ran'[n].k_asme = ran[n].k_asme
      /\ ran'[n].k_nas = ran[n].k_asme + RanAlgo + RanCount + 1
  BY <1>0 DEF RanContexts
<1>5. ran'[n].k_nas = NasKeyOf(n)
  <2>1. ran[n].k_asme = Vector(n).k_asme /\ ran[n].k_asme \in Nat
    BY <1>0, <1>1 DEF SubscriberOK, UeOK, HasAnId, RanContexts
  <2>. QED  BY <1>4, <2>1 DEF NasKeyOf, RanAlgo, RanCount
<1>6. up'[n] = <<m>> /\ up'[n] # <<>> /\ Just(up'[n], 3) /\ DOMAIN up'[n] = {1}
      /\ up'[n][1] = m
  <2>1. up'[n] = <<m>>
    BY <1>0, <1>2, FirstOne
  <2>. QED  BY <2>1, FirstOne DEF Just
<1>7. UplinkOK(n)'
  BY <1>4, <1>6 DEF UplinkOK, UplinkShape, UplinkItem
<1>8. DownlinkOK(n)' /\ IdOK(n)' /\ UeOK(n)'
  BY <1>0, <1>1, <1>3, <1>4, <1>5
     DEF SubscriberOK, DownlinkOK, IdOK, IdInUse, UeOK, HasAnId
<1>9. UdmOK(n)'
  BY <1>0, <1>1, <1>3, <1>4 DEF SubscriberOK, UdmOK, HasAnId, Challenged
<1>10. NotServed(n)
  BY <1>0, <1>2, WhileAnswered DEF RanPremises
<1>. QED  BY <1>7, <1>8, <1>9, <1>10, UnservedKept DEF SubscriberOK

\* set_eps_session: what the simulator stores is what the UDM has.
LEMMA SetEpsSessionKeeps ==
    ASSUME RanPremises, NEW n \in Ues, SetEpsSession(n)
    PROVE  KeptFor(n)
<1> DEFINE c == Head(down[n])
           m == [typ |-> 4, mme |-> ran[n].mme_s1ap_ue_id, arg |-> c.ul]
<1>0. /\ ran[n] \in RanContexts /\ ran[n].pc = "session" /\ down[n] # <<>>
      /\ down' = [down EXCEPT ![n] = Tail(@)]
      /\ ran' = [ran EXCEPT ![n] =
                     [@ EXCEPT !.guti = c.guti, !.s1_uteid_ul = c.ul,
                               !.s1_uteid_dl = c.ul, !.ip_addr = c.ip,
                               !.pc = "data"]]
      /\ up' = [up EXCEPT ![n] = Append(@, m)]
      /\ ran \in [Ues -> RanContexts] /\ up \in [Ues -> Seq(UplinkMessages)]
      /\ down \in [Ues -> Seq(DownlinkMessages)]
      /\ UNCHANGED <<s1amf_id, udm_ctx, loc_info, amf, smf, exited>>
  BY DEF RanPremises, TypeOK, RanTypeOK, ServerTypeOK, SetEpsSession, Received, SendUp,
         udmVars, smfVars, amfVars
<1>1. SubscriberOK(n)
  BY DEF RanPremises
<1>2. up[n] = <<>> /\ Just(down[n], 3) /\ AcceptOK(n, down[n][1])
  BY <1>0, <1>1 DEF SubscriberOK, DownlinkOK
<1>3. c = down[n][1] /\ down'[n] = <<>>
  BY <1>0, <1>2, JustOne
<1> HIDE DEF c
<1>4. /\ ran'[n].pc = "data" /\ ran'[n].mme_s1ap_ue_id = ran[n].mme_s1ap_ue_id
      /\ ran'[n].k_asme = ran[n].k_asme /\ ran'[n].k_nas = ran[n].k_nas
      /\ ran'[n].guti = c.guti /\ ran'[n].ip_addr = c.ip
      /\ ran'[n].s1_uteid_ul = c.ul
  BY <1>0 DEF RanContexts
<1>5. up'[n] = <<m>> /\ up'[n] # <<>> /\ Just(up'[n], 4) /\ DOMAIN up'[n] = {1}
      /\ up'[n][1] = m
  <2>1. up'[n] = <<m>>
    BY <1>0, <1>2, FirstOne
  <2>. QED  BY <2>1, FirstOne DEF Just
<1>6. UplinkOK(n)'
  BY <1>4, <1>5 DEF UplinkOK, UplinkShape, UplinkItem
<1>7. DownlinkOK(n)' /\ IdOK(n)' /\ UeOK(n)'
  BY <1>0, <1>1, <1>2, <1>3, <1>4
     DEF SubscriberOK, DownlinkOK, IdOK, IdInUse, UeOK, HasAnId, AcceptOK
<1>8. UdmOK(n)'
  BY <1>0, <1>1, <1>2, <1>3, <1>4
     DEF SubscriberOK, UdmOK, HasAnId, Challenged, AcceptOK
<1>9. NotServed(n)
  BY <1>0, <1>2, WhileAnswered DEF RanPremises
<1>. QED  BY <1>6, <1>7, <1>8, <1>9, UnservedKept DEF SubscriberOK

\* The detach request may follow the attach complete at once.
LEMMA RanDetachKeeps ==
    ASSUME RanPremises, NEW n \in Ues, RanDetach(n)
    PROVE  KeptFor(n)
<1> DEFINE m == [typ |-> 5, mme |-> ran[n].mme_s1ap_ue_id, arg |-> ran[n].guti]
<1>0. /\ ran[n] \in RanContexts /\ ran[n].pc = "data"
      /\ ran' = [ran EXCEPT ![n].pc = "detach"]
      /\ up' = [up EXCEPT ![n] = Append(@, m)]
      /\ ran \in [Ues -> RanContexts] /\ up \in [Ues -> Seq(UplinkMessages)]
      /\ up' \in [Ues -> Seq(UplinkMessages)]
      /\ UNCHANGED <<down, s1amf_id, udm_ctx, loc_info, amf, smf, exited>>
  <2>1. RanThread(n) /\ ServerTypeOK /\ RanTypeOK
    BY DEF RanThread, RanPremises, TypeOK
  <2>2. ServerTypeOK'
    BY <2>1, RanThreadType
  <2>. QED
    BY <2>1, <2>2 DEF RanPremises, RanTypeOK, ServerTypeOK, RanDetach, RanGoto, SendUp,
                      udmVars, smfVars, amfVars
<1>1. SubscriberOK(n)
  BY DEF RanPremises
<1>2. /\ ran'[n].pc = "detach" /\ ran'[n].mme_s1ap_ue_id = ran[n].mme_s1ap_ue_id
      /\ ran'[n].guti = ran[n].guti /\ ran[n].guti = Guti(n)
  BY <1>0, <1>1 DEF RanContexts, SubscriberOK, UeOK
<1>3. down[n] = <<>> /\ (up[n] = <<>> \/ Just(up[n], 4))
  BY <1>0, <1>1 DEF SubscriberOK, DownlinkOK, UplinkOK, UplinkShape
<1>4. up'[n] = Append(up[n], m) /\ up[n] \in Seq(UplinkMessages)
      /\ up'[n] \in Seq(UplinkMessages)
  BY <1>0
<1>5. UplinkItem(n, m)'
  BY <1>2 DEF UplinkItem
<1>6. CASE up[n] = <<>>
  <2>1. Just(up'[n], 5) /\ DOMAIN up'[n] = {1} /\ up'[n][1] = m
    <3>1. up'[n] = <<m>>
      BY <1>4, <1>6, FirstOne
    <3>. QED  BY <3>1, FirstOne DEF Just
  <2>2. UplinkOK(n)'
    BY <1>2, <1>5, <2>1 DEF UplinkOK, UplinkShape
  <2>3. UplinkOK(n)' /\ (up[n] = <<>> => Just(up'[n], 5))
    BY <2>1, <2>2
  <2>4. ASSUME NEW x \in Workers, amf[x].pc # "idle", amf[x].ue = n
        PROVE  ServiceOK(x)'
    <3>1. ServiceOK(x) /\ amf[x].pc \in CompletePcs /\ ServesComplete(x, n)
      BY <1>0, <2>4, ServiceByPc DEF RanPremises
    <3>2. ServesComplete(x, n)'
      BY <1>0, <1>2, <2>1, <3>1 DEF ServesComplete
    <3>. QED  BY <1>0, <1>2, <2>4, <3>1, <3>2, CompleteStays DEF Running
  <2>5. DownlinkOK(n)' /\ IdOK(n)' /\ UeOK(n)' /\ UdmOK(n)'
    BY <1>0, <1>1, <1>2, <1>3
       DEF SubscriberOK, DownlinkOK, IdOK, IdInUse, UeOK, UdmOK, HasAnId, Challenged
  <2>. QED  BY <2>2, <2>4, <2>5 DEF SubscriberOK, KeptFor
<1>7. CASE Just(up[n], 4)
  <2>1. Len(up[n]) = 1 /\ up[n][1].typ = 4 /\ 1 \in DOMAIN up[n] /\ up[n] # <<>>
    BY <1>4, <1>7, JustOne DEF Just
  <2>2. UplinkItem(n, up[n][1])'
    BY <1>0, <1>1, <1>2, <2>1 DEF SubscriberOK, UplinkOK, UplinkItem
  <2>3. /\ Len(up'[n]) = 2 /\ up'[n][1] = up[n][1] /\ up'[n][2] = m
        /\ \A i \in DOMAIN up'[n] : i = 1 \/ i = 2
    <3>1. m \in UplinkMessages
      <4>1. /\ Guti(n) \in Imsis /\ Imsis \subseteq Nat
            /\ ran[n].mme_s1ap_ue_id \in MmeIds
        BY <1>0, OwnFacts, IdentityTypes DEF RanContexts
      <4>2. UplinkBody[5] = {0} \cup Imsis
        BY DEF UplinkBody
      <4>3. ran[n].guti \in Imsis /\ ran[n].guti \in Nat
        BY <1>2, <4>1
      <4>4. m \in [typ : 1 .. 10, mme : MmeIds, arg : Nat] /\ m.arg \in UplinkBody[m.typ]
        BY <4>1, <4>2, <4>3
      <4>. QED  BY <4>4, Zenon DEF UplinkMessages
    <3>. QED  BY <1>4, <2>1, <3>1, SecondOne
  <2>4. UplinkOK(n)'
    BY <1>2, <1>5, <2>1, <2>2, <2>3 DEF UplinkOK, UplinkShape
  <2>5. NotServed(n)
    <3>1. ASSUME NEW x \in Workers, amf[x].pc # "idle", amf[x].ue = n PROVE FALSE
      BY <1>0, <2>1, <3>1, ServiceByPc DEF RanPremises, ServesComplete
    <3>. QED  BY <3>1 DEF NotServed
  <2>6. DownlinkOK(n)' /\ IdOK(n)' /\ UeOK(n)' /\ UdmOK(n)'
    BY <1>0, <1>1, <1>2, <1>3
       DEF SubscriberOK, DownlinkOK, IdOK, IdInUse, UeOK, UdmOK, HasAnId, Challenged
  <2>. QED  BY <2>4, <2>5, <2>6, UnservedKept DEF SubscriberOK
<1>. QED  BY <1>3, <1>6, <1>7

\* The answer to the detach arrives before the removals have ended.
LEMMA DetachAcceptedKeeps ==
    ASSUME RanPremises, NEW n \in Ues, DetachAccepted(n)
    PROVE  KeptFor(n)
<1>0. /\ ran[n] \in RanContexts /\ ran[n].pc = "detach" /\ down[n] # <<>>
      /\ down' = [down EXCEPT ![n] = Tail(@)]
      /\ ran' = [ran EXCEPT ![n].pc = "start"]
      /\ ran \in [Ues -> RanContexts] /\ down \in [Ues -> Seq(DownlinkMessages)]
      /\ UNCHANGED <<up, s1amf_id, udm_ctx, loc_info, amf, smf, exited>>
  BY DEF RanPremises, TypeOK, RanTypeOK, ServerTypeOK, DetachAccepted, Received,
         RanGoto, udmVars, smfVars, amfVars
<1>1. SubscriberOK(n)
  BY DEF RanPremises
<1>2. up[n] = <<>> /\ Just(down[n], 5)
  BY <1>0, <1>1 DEF SubscriberOK, DownlinkOK
<1>3. down'[n] = <<>>
  BY <1>0, <1>2, JustOne
<1>4. ran'[n].pc = "start" /\ ran'[n].mme_s1ap_ue_id = ran[n].mme_s1ap_ue_id
  BY <1>0 DEF RanContexts
<1>5. UplinkOK(n)'
  BY <1>0, <1>1, <1>2, <1>4 DEF SubscriberOK, UplinkOK, UplinkShape, UplinkItem
<1>6. DownlinkOK(n)' /\ IdOK(n)' /\ UeOK(n)' /\ UdmOK(n)'
  BY <1>0, <1>3, <1>4 DEF DownlinkOK, IdOK, UeOK, UdmOK, IdInUse, HasAnId, Challenged
<1>7. ASSUME NEW x \in Workers, amf[x].pc # "idle", amf[x].ue = n
      PROVE  ServiceOK(x)'
  <2>1. ServiceOK(x) /\ amf[x].pc \in RemPcs /\ RemovesFor(x, n)
    BY <1>0, <1>7, ServiceByPc DEF RanPremises
  <2>2. RemovesFor(x, n)'
    BY <1>0, <1>4, <2>1 DEF RemovesFor
  <2>. QED  BY <1>0, <1>7, <2>1, <2>2, RemovalStays
<1>. QED  BY <1>5, <1>6, <1>7 DEF SubscriberOK, KeptFor

\* When the AMF is gone the thread fails, wherever its handler was.
LEMMA ConnLostKeeps ==
    ASSUME RanPremises, NEW n \in Ues, ConnLost(n)
    PROVE  KeptFor(n)
<1>0. /\ ran[n] \in RanContexts /\ ~Running("amf") /\ down[n] = <<>>
      /\ ran' = [ran EXCEPT ![n].pc = "failed"] /\ ran \in [Ues -> RanContexts]
      /\ ran[n].pc \in {"autn", "security", "session", "detach"}
      /\ UNCHANGED <<up, down, s1amf_id, udm_ctx, loc_info, amf, smf, exited>>
  BY DEF RanPremises, TypeOK, RanTypeOK, ConnLost, RanGoto, udmVars, smfVars, amfVars
<1>1. SubscriberOK(n)
  BY DEF RanPremises
<1>2. /\ ran'[n].pc = "failed" /\ ran'[n].mme_s1ap_ue_id = ran[n].mme_s1ap_ue_id
      /\ ~Running("amf")'
  BY <1>0 DEF RanContexts, Running
<1>3. UplinkOK(n)'
  BY <1>0, <1>1, <1>2 DEF SubscriberOK, UplinkOK, UplinkShape, UplinkItem
<1>4. DownlinkOK(n)' /\ IdOK(n)' /\ UeOK(n)' /\ UdmOK(n)'
  BY <1>0, <1>2 DEF DownlinkOK, IdOK, UeOK, UdmOK, IdInUse, HasAnId, Challenged
<1>5. ASSUME NEW x \in Workers, amf[x].pc # "idle", amf[x].ue = n
      PROVE  ServiceOK(x)'
  <2>1. WorkerOK(x) /\ CallOK(x)
    BY DEF RanPremises, ServiceOK
  <2>2. CallOK(x)'
    BY <1>0, <2>1 DEF CallOK
  <2>3. WorkerOK(x)'
    BY <1>0, <1>2, <1>5, <2>1
       DEF WorkerOK, ServesAttach, ServesAutn, ServesSession, ServesComplete,
           ServesDetach, RemovesFor, Quiescent
  <2>. QED  BY <2>2, <2>3 DEF ServiceOK
<1>. QED  BY <1>3, <1>4, <1>5 DEF SubscriberOK, KeptFor

\* Every step of a simulator thread keeps its subscriber and its worker.
LEMMA RanThreadKeeps ==
    ASSUME RanPremises, NEW n \in Ues, RanThread(n)
    PROVE  KeptFor(n)
BY ConnMmeKeeps, TimeExceededKeeps, RanInitialAttachKeeps, RanAuthenticateKeeps,
   SetSecurityKeeps, SetEpsSessionKeeps, RanDetachKeeps, DetachAcceptedKeeps,
   ConnLostKeeps DEF RanThread

----------------------------------------------------------------------------
(* The invariant is local to the subscriber a step is for                  *)

\* If everybody else is untouched and the subscriber is kept, all agree again.
LEMMA OneSubscriber ==
    ASSUME TypeOK, Agreement, NEW n \in Ues, KeptFor(n), OnlyUpfExits',
           \A m \in Ues \ {n} : Untouched(m),
           \A x \in Workers : amf'[x] = amf[x] /\ smf'[x] = smf[x]
    PROVE  Agreement'
<1>1. \A m \in Ues : SubscriberOK(m)'
  BY SubscriberFrame DEF Agreement, KeptFor
<1>2. ASSUME NEW x \in Workers PROVE ServiceOK(x)'
  <2>1. amf[x].ue \in Ues
    BY AmfStateType DEF TypeOK
  <2>. QED  BY <2>1, ServiceFrame DEF Agreement, KeptFor
<1>. QED  BY <1>1, <1>2 DEF Agreement

\* A step of worker w, which serves n: the others go on as they were.
LEMMA OneWorker ==
    ASSUME TypeOK, Placement, Agreement, OnlyUpfExits',
           NEW w \in Workers, NEW n \in Ues, n \in ToSet(conns[w]),
           amf[w].pc # "idle" => amf[w].ue = n,
           \A m \in Ues \ {n} : Untouched(m), SubscriberOK(n)', ServiceOK(w)',
           \A x \in Workers \ {w} : amf'[x] = amf[x] /\ smf'[x] = smf[x]
    PROVE  Agreement'
<1>1. \A m \in Ues : SubscriberOK(m)'
  BY SubscriberFrame DEF Agreement
<1>2. ASSUME NEW x \in Workers \ {w} PROVE ServiceOK(x)'
  <2>1. amf[x].ue \in Ues
    BY AmfStateType DEF TypeOK
  <2>2. amf[x].pc # "idle" => amf[x].ue # n
    BY DEF Placement, ServesOwn, Homes, AtWorker
  <2>. QED  BY <2>1, <2>2, ServiceFrame DEF Agreement
<1>. QED  BY <1>1, <1>2 DEF Agreement

\* A step of the simulator keeps the whole agreement.
LEMMA RanStepAgrees ==
    ASSUME TypeOK, Placement, Agreement, NEW n \in Ues, RanStep(n)
    PROVE  Agreement'
<1>1. RanPremises /\ RanThread(n)
  <2>1. UNCHANGED exited
    BY RanThreadType DEF RanStep, TypeOK
  <2>. QED  BY <2>1 DEF RanPremises, RanStep, Agreement
<1>2. KeptFor(n)
  BY <1>1, RanThreadKeeps
<1>3. \A m \in Ues \ {n} : Untouched(m)
  BY <1>1, RanSteps DEF RanPremises, Untouched, udmVars, amfVars
<1>4. \A x \in Workers : amf'[x] = amf[x] /\ smf'[x] = smf[x]
  BY <1>1 DEF RanPremises, smfVars, amfVars
<1>5. OnlyUpfExits'
  BY <1>1 DEF RanPremises, Agreement, OnlyUpfExits
<1>. QED  BY <1>2, <1>3, <1>4, <1>5, OneSubscriber

----------------------------------------------------------------------------
(* The AMF: what a handler finds                                           *)

\* Worker w runs a handler for n; the step leaves the simulator alone.
Handles(w, n) ==
    /\ TypeOK /\ w \in Workers /\ n \in Ues
    /\ amf[w].pc # "idle" /\ amf[w].ue = n /\ Running("amf")
    /\ SubscriberOK(n) /\ ServiceOK(w)
    /\ UNCHANGED <<ran, up>>

\* What its step must keep; the process does not exit.
HandlerKeeps(w, n) ==
    /\ SubscriberOK(n)' /\ ServiceOK(w)'
    /\ \A m \in Ues \ {n} : Untouched(m)
    /\ UNCHANGED exited

\* Where the simulator waits while a handler of a running AMF works.
LEMMA HandlerPhase ==
    ASSUME NEW w, NEW n, Handles(w, n)
    PROVE  /\ amf[w].pc \in AttachPcs => ran[n].pc = "autn" /\ Quiescent(n)
           /\ amf[w].pc \in AutnPcs => ran[n].pc = "security" /\ Quiescent(n)
           /\ amf[w].pc \in SessionPcs => ran[n].pc = "session" /\ Quiescent(n)
           /\ amf[w].pc \in CompletePcs => ran[n].pc \in {"data", "detach"} /\ down[n] = <<>>
           /\ amf[w].pc \in DetachPcs => ran[n].pc = "detach" /\ Quiescent(n)
<1>1. ran[n].pc # "failed"
  BY DEF Handles, SubscriberOK, UplinkOK, UplinkShape
<1>. QED
  BY <1>1 DEF Handles, ServiceOK, WorkerOK, ServesAttach, ServesAutn, ServesSession,
              ServesComplete, ServesDetach

\* The id in the header of any message but the first is the subscriber's: the
\* lookup that ends the process when it fails does not fail.
LEMMA HandlerId ==
    ASSUME NEW w, NEW n, Handles(w, n),
           amf[w].pc \in AutnPcs \cup SessionPcs \cup CompletePcs \cup DetachPcs
    PROVE  /\ IdInUse(n) /\ amf[w].id = ran[n].mme_s1ap_ue_id /\ amf[w].id # 0
           /\ GutiOf(w) = Guti(n) /\ GutiOf(w) # 0 /\ s1amf_id[amf[w].id] = Guti(n)
<1>1. IdInUse(n)
  BY HandlerPhase DEF IdInUse, HasAnId, Quiescent
<1>2. amf[w].id = ran[n].mme_s1ap_ue_id
  BY DEF Handles, ServiceOK, WorkerOK
<1>. QED  BY <1>1, <1>2, OwnFacts DEF Handles, SubscriberOK, IdOK, GutiOf

\* The next step of a handler changes nothing but the program counter.
LEMMA GotoFields ==
    ASSUME TypeOK, NEW w \in Workers, NEW pc, AmfGoto(w, pc)
    PROVE  /\ amf'[w].pc = pc /\ amf'[w].ue = amf[w].ue /\ amf'[w].id = amf[w].id
           /\ amf'[w].arg = amf[w].arg /\ amf'[w].guti = amf[w].guti
           /\ amf'[w].imsi = amf[w].imsi
<1>1. amf \in [Workers -> AmfStates] /\ amf[w] \in AmfStates
  BY DEF TypeOK, AmfTypeOK
<1>. QED  BY <1>1 DEF AmfGoto, AmfStates

\* A handler that has returned owes nothing.
LEMMA Returned ==
    ASSUME TypeOK, NEW w \in Workers, AmfReturn(w), smf'[w].pc = "idle"
    PROVE  ServiceOK(w)'
<1>1. amf'[w].pc = "idle"
  <2>1. amf \in [Workers -> AmfStates]
    BY DEF TypeOK, AmfTypeOK
  <2>. QED  BY <2>1 DEF AmfReturn, IdleAmf
<1>. QED
  BY <1>1 DEF ServiceOK, WorkerOK, CallOK, AttachPcs, AutnPcs, SessionPcs, CompletePcs,
              DetachPcs, RemPcs

\* Outside a call the worker of the SMF is idle.
LEMMA NoCall ==
    ASSUME NEW w, ServiceOK(w),
           amf[w].pc \notin {"session_end", "modify_end", "detach_end"}
    PROVE  smf[w].pc = "idle"
BY DEF ServiceOK, CallOK

\* An answer sent into an empty downlink is all there is on it.
LEMMA SentDown ==
    ASSUME TypeOK, NEW w, NEW n, Handles(w, n), down[n] = <<>>, NEW m, SendDown(w, m)
    PROVE  /\ down'[n] # <<>> /\ down'[n][1] = m /\ Just(down'[n], m.typ)
           /\ \A k \in Ues \ {n} : down'[k] = down[k]
<1>1. /\ down' = [down EXCEPT ![n] = Append(@, m)] /\ n \in Ues
      /\ down \in [Ues -> Seq(DownlinkMessages)]
  BY DEF Handles, SendDown, TypeOK, ServerTypeOK
<1>2. down'[n] = <<m>> /\ \A k \in Ues \ {n} : down'[k] = down[k]
  BY <1>1, FirstOne
<1>. QED  BY <1>2, FirstOne DEF Just

\* A handler writes the records of its own subscriber, so the others do not
\* see it; an id it enters was free.
LEMMA OthersUntouched ==
    ASSUME NEW n \in Ues, UNCHANGED <<ran, up, exited>>,
           \A k \in Ues \ {n} : down'[k] = down[k],
           \A g \in Imsis \ {Guti(n)} : udm_ctx'[g] = udm_ctx[g],
           \A g \in Imsis \ {Imsi(n)} : loc_info'[g] = loc_info[g],
           \A id \in MmeIds : \/ s1amf_id'[id] = s1amf_id[id]
                              \/ s1amf_id[id] \in {0, Guti(n)}
    PROVE  \A m \in Ues \ {n} : Untouched(m)
BY OwnFacts DEF Untouched

\* Only the UDM's record of n changes, or one answer is sent to n.
LEMMA SubscriberAfter ==
    ASSUME NEW w, NEW n, Handles(w, n), UNCHANGED exited,
           IdInUse(n)' => IdInUse(n) /\ s1amf_id'[ran[n].mme_s1ap_ue_id] = Guti(n),
           DownlinkOK(n)', UdmOK(n)'
    PROVE  SubscriberOK(n)'
<1>1. SubscriberOK(n) /\ UNCHANGED <<ran, up, exited>>
  BY DEF Handles
<1>2. UplinkOK(n)'
  <2>1. \A i \in DOMAIN up'[n] : UplinkItem(n, up[n][i])'
    BY <1>1 DEF SubscriberOK, UplinkOK, UplinkItem
  <2>2. UplinkShape(n)'
    BY <1>1 DEF SubscriberOK, UplinkOK, UplinkShape, Running, Just
  <2>. QED  BY <2>1, <2>2 DEF UplinkOK
<1>3. IdOK(n)' /\ UeOK(n)'
  BY <1>1 DEF SubscriberOK, IdOK, UeOK, HasAnId
<1>. QED  BY <1>2, <1>3 DEF SubscriberOK

----------------------------------------------------------------------------
(* The AMF: attach                                                         *)

\* handle_initial_attach: the new id is the subscriber's (amf.cpp:163-169).
LEMMA InitialAttachKeeps ==
    ASSUME NEW w, NEW n, Handles(w, n), InitialAttach(w), FreshIds, NoWrap'
    PROVE  HandlerKeeps(w, n)
<1> DEFINE id == ue_count + 1
<1>0. /\ TypeOK /\ w \in Workers /\ n \in Ues /\ amf[w].pc = "attach"
      /\ SubscriberOK(n) /\ ServiceOK(w) /\ amf[w].ue = n
      /\ ue_count \in Nat /\ ue_count + 1 < IdSpace
      /\ UNCHANGED <<ran, up, down, udm_ctx, loc_info, smf, exited>>
  BY DEF Handles, InitialAttach, AmfAt, localFrame, udmVars, smfVars, NoWrap, TypeOK,
         AmfTypeOK
<1>1. (ue_count + 1) % IdSpace = id /\ id \in MmeIds
  BY <1>0, NextId
<1>2. ran[n].pc = "autn" /\ Quiescent(n) /\ amf[w].arg = Imsi(n)
  BY <1>0, HandlerPhase DEF ServiceOK, WorkerOK, ServesAttach, AttachPcs
<1>3. s1amf_id[id] = 0 /\ id # 0
  BY <1>0, <1>1 DEF FreshIds
<1>4. /\ s1amf_id' = [s1amf_id EXCEPT ![id] = Guti(n)]
      /\ amf' = [amf EXCEPT ![w] = [@ EXCEPT !.id = id, !.guti = Guti(n),
                                    !.imsi = Imsi(n), !.pc = "attach_init"]]
  BY <1>1, <1>2 DEF InitialAttach, Guti
<1>5. /\ amf'[w].pc = "attach_init" /\ amf'[w].ue = n /\ amf'[w].id = id
      /\ amf'[w].guti = Guti(n) /\ amf'[w].imsi = Imsi(n)
  <2>1. amf \in [Workers -> AmfStates] /\ amf[w] \in AmfStates
    BY <1>0 DEF TypeOK, AmfTypeOK
  <2>. QED  BY <1>0, <1>4, <2>1 DEF AmfStates
<1>6. /\ s1amf_id'[id] = Guti(n)
      /\ \A k \in MmeIds : s1amf_id'[k] = s1amf_id[k] \/ s1amf_id[k] \in {0, Guti(n)}
  <2>1. s1amf_id \in [MmeIds -> {0} \cup Imsis]
    BY <1>0 DEF TypeOK, AmfTypeOK
  <2>. QED  BY <1>1, <1>3, <1>4, <2>1
<1>7. SubscriberOK(n)'
  <2>1. ~IdInUse(n)' /\ DownlinkOK(n)' /\ UdmOK(n)'
    BY <1>0, <1>2 DEF IdInUse, HasAnId, DownlinkOK, UdmOK, Challenged, Quiescent
  <2>. QED  BY <1>0, <2>1, SubscriberAfter
<1>8. ServiceOK(w)'
  <2>1. smf'[w].pc = "idle"
    BY <1>0, NoCall
  <2>2. ServesAttach(w, n)'
    BY <1>0, <1>2, <1>3, <1>5, <1>6 DEF ServesAttach, Quiescent
  <2>. QED
    BY <1>5, <2>1, <2>2 DEF ServiceOK, WorkerOK, CallOK, AttachPcs, AutnPcs,
                            SessionPcs, CompletePcs, DetachPcs, RemPcs
<1>9. \A m \in Ues \ {n} : Untouched(m)
  BY <1>0, <1>6, OthersUntouched
<1>. QED  BY <1>0, <1>7, <1>8, <1>9 DEF HandlerKeeps

\* handle_initial_attach: the UDM's context gets the IMSI and the id.
LEMMA AttachInitKeeps ==
    ASSUME NEW w, NEW n, Handles(w, n), AttachInit(w)
    PROVE  HandlerKeeps(w, n)
<1>0. /\ TypeOK /\ w \in Workers /\ n \in Ues /\ amf[w].pc = "attach_init"
      /\ SubscriberOK(n) /\ ServiceOK(w) /\ amf[w].ue = n
      /\ AmfGoto(w, "attach_auth")
      /\ UNCHANGED <<ran, up, down, s1amf_id, loc_info, smf, exited>>
  BY DEF Handles, AttachInit, AmfAt, localFrame, smfVars, UpdateInitialAttachInit
<1>1. /\ ran[n].pc = "autn" /\ Quiescent(n) /\ amf[w].imsi = Imsi(n)
      /\ amf[w].guti = Guti(n) /\ amf[w].id # 0 /\ s1amf_id[amf[w].id] = Guti(n)
  BY <1>0, HandlerPhase DEF ServiceOK, WorkerOK, ServesAttach, AttachPcs
<1>2. udm_ctx' = [udm_ctx EXCEPT ![Guti(n)] =
                     [@ EXCEPT !.imsi = Imsi(n), !.mme_s1ap_ue_id = amf[w].id]]
  BY <1>1 DEF AttachInit, UpdateInitialAttachInit
<1>3. /\ udm_ctx'[Guti(n)].imsi = Imsi(n)
      /\ udm_ctx'[Guti(n)].mme_s1ap_ue_id = amf[w].id
      /\ \A g \in Imsis \ {Guti(n)} : udm_ctx'[g] = udm_ctx[g]
  <2>1. /\ udm_ctx \in [Imsis -> UdmContexts] /\ Guti(n) \in Imsis
        /\ udm_ctx[Guti(n)] \in UdmContexts
    BY <1>0, OwnFacts DEF TypeOK, UdmTypeOK
  <2>. QED  BY <1>2, <2>1 DEF UdmContexts
<1>4. /\ amf'[w].pc = "attach_auth" /\ amf'[w].ue = n /\ amf'[w].id = amf[w].id
      /\ amf'[w].guti = amf[w].guti /\ amf'[w].imsi = amf[w].imsi
  BY <1>0, GotoFields
<1>5. SubscriberOK(n)'
  <2>1. ~IdInUse(n)' /\ DownlinkOK(n)' /\ UdmOK(n)'
    BY <1>0, <1>1 DEF IdInUse, HasAnId, DownlinkOK, UdmOK, Challenged, Quiescent
  <2>. QED  BY <1>0, <2>1, SubscriberAfter
<1>6. ServiceOK(w)'
  <2>1. smf'[w].pc = "idle"
    BY <1>0, NoCall
  <2>2. ServesAttach(w, n)'
    BY <1>0, <1>1, <1>3, <1>4 DEF ServesAttach, Quiescent
  <2>. QED
    BY <1>4, <2>1, <2>2 DEF ServiceOK, WorkerOK, CallOK, AttachPcs, AutnPcs,
                            SessionPcs, CompletePcs, DetachPcs, RemPcs
<1>7. \A m \in Ues \ {n} : Untouched(m)
  BY <1>0, <1>3, OthersUntouched
<1>. QED  BY <1>0, <1>5, <1>6, <1>7 DEF HandlerKeeps

\* The challenge is made of the vector whose response and key the UDM now has,
\* and names the id the table has for the subscriber.
LEMMA AttachAuthKeeps ==
    ASSUME NEW w, NEW n, Handles(w, n), AttachAuth(w)
    PROVE  HandlerKeeps(w, n)
<1> DEFINE m == [DownlinkMessage(1, amf[w].id) EXCEPT
                   !.autn = Vector(n).autn_num, !.rand_num = Vector(n).rand_num]
<1>0. /\ TypeOK /\ w \in Workers /\ n \in Ues /\ amf[w].pc = "attach_auth"
      /\ SubscriberOK(n) /\ ServiceOK(w) /\ amf[w].ue = n
      /\ AmfReturn(w)
      /\ UNCHANGED <<ran, up, s1amf_id, loc_info, smf, exited>>
  BY DEF Handles, AttachAuth, AmfAt, localFrame, smfVars, UpdateInitialAttach
<1>1. /\ ran[n].pc = "autn" /\ Quiescent(n) /\ amf[w].imsi = Imsi(n)
      /\ amf[w].guti = Guti(n) /\ amf[w].id # 0 /\ s1amf_id[amf[w].id] = Guti(n)
      /\ udm_ctx[Guti(n)].imsi = Imsi(n)
      /\ udm_ctx[Guti(n)].mme_s1ap_ue_id = amf[w].id
  BY <1>0, HandlerPhase DEF ServiceOK, WorkerOK, ServesAttach, AttachPcs
<1>2. /\ udm_ctx' = [udm_ctx EXCEPT ![Guti(n)] =
                     [@ EXCEPT !.xres = Vector(n).xres, !.k_asme = Vector(n).k_asme]]
      /\ SendDown(w, m)
  BY <1>1 DEF AttachAuth, UpdateInitialAttach, Vector
<1>3. m.typ = 1 /\ m.mme = amf[w].id /\ m.autn = Vector(n).autn_num
      /\ m.rand_num = Vector(n).rand_num
  BY DEF DownlinkMessage
<1> HIDE DEF m
<1>4. /\ down'[n] # <<>> /\ down'[n][1] = m /\ Just(down'[n], 1)
      /\ \A k \in Ues \ {n} : down'[k] = down[k]
  BY <1>0, <1>1, <1>2, <1>3, SentDown DEF Quiescent
<1>5. /\ udm_ctx'[Guti(n)].imsi = Imsi(n)
      /\ udm_ctx'[Guti(n)].mme_s1ap_ue_id = amf[w].id
      /\ udm_ctx'[Guti(n)].xres = Vector(n).xres
      /\ udm_ctx'[Guti(n)].k_asme = Vector(n).k_asme
      /\ \A g \in Imsis \ {Guti(n)} : udm_ctx'[g] = udm_ctx[g]
  <2>1. /\ udm_ctx \in [Imsis -> UdmContexts] /\ Guti(n) \in Imsis
        /\ udm_ctx[Guti(n)] \in UdmContexts
    BY <1>0, OwnFacts DEF TypeOK, UdmTypeOK
  <2>. QED  BY <1>1, <1>2, <2>1 DEF UdmContexts
<1>6. SubscriberOK(n)'
  <2>1. ~IdInUse(n)'
    BY <1>0, <1>1 DEF IdInUse, HasAnId
  <2>2. DownlinkOK(n)'
    BY <1>0, <1>1, <1>3, <1>4, <1>5 DEF DownlinkOK, ChallengeOK, Quiescent
  <2>3. UdmOK(n)'
    BY <1>0, <1>1, <1>5 DEF UdmOK, HasAnId
  <2>. QED  BY <1>0, <2>1, <2>2, <2>3, SubscriberAfter
<1>7. ServiceOK(w)'
  BY <1>0, NoCall, Returned
<1>8. \A k \in Ues \ {n} : Untouched(k)
  BY <1>0, <1>4, <1>5, OthersUntouched
<1>. QED  BY <1>0, <1>6, <1>7, <1>8 DEF HandlerKeeps

----------------------------------------------------------------------------
(* The AMF: authentication and security mode                               *)

\* A response to the subscriber's own challenge is never refused.
LEMMA HandleAutnKeeps ==
    ASSUME NEW w, NEW n, Handles(w, n), HandleAutn(w)
    PROVE  HandlerKeeps(w, n)
<1>0. /\ TypeOK /\ w \in Workers /\ n \in Ues /\ amf[w].pc = "autn"
      /\ SubscriberOK(n) /\ ServiceOK(w) /\ amf[w].ue = n
      /\ UNCHANGED <<ran, up, down, udm_ctx, loc_info, smf>>
  BY DEF Handles, HandleAutn, AmfAt, localFrame, smfVars, udmVars
<1>1. /\ ran[n].pc = "security" /\ Quiescent(n) /\ amf[w].arg = Vector(n).xres
      /\ amf[w].id = ran[n].mme_s1ap_ue_id /\ GutiOf(w) = Guti(n) /\ GutiOf(w) # 0
      /\ s1amf_id[ran[n].mme_s1ap_ue_id] = Guti(n)
  BY <1>0, HandlerPhase, HandlerId
     DEF ServiceOK, WorkerOK, ServesAutn, AutnPcs
<1>2. udm_ctx[GutiOf(w)].xres = amf[w].arg
  BY <1>0, <1>1 DEF SubscriberOK, UdmOK, HasAnId
<1>3. AmfGoto(w, "security_cmd") /\ UNCHANGED <<s1amf_id, exited>>
  BY <1>1, <1>2 DEF HandleAutn, IfKnown
<1>4. /\ amf'[w].pc = "security_cmd" /\ amf'[w].ue = n /\ amf'[w].id = amf[w].id
  BY <1>0, <1>3, GotoFields
<1>5. SubscriberOK(n)'
  <2>1. DownlinkOK(n)' /\ UdmOK(n)'
    BY <1>0, <1>1 DEF DownlinkOK, SubscriberOK, UdmOK, HasAnId, Challenged, Quiescent
  <2>2. IdInUse(n)' => IdInUse(n)
    BY <1>0 DEF IdInUse, HasAnId
  <2>. QED  BY <1>0, <1>1, <1>3, <2>1, <2>2, SubscriberAfter
<1>6. ServiceOK(w)'
  <2>1. smf'[w].pc = "idle"
    BY <1>0, NoCall
  <2>2. ServesAutn(w, n)'
    BY <1>0, <1>1, <1>4 DEF ServesAutn, Quiescent
  <2>. QED
    BY <1>0, <1>1, <1>4, <2>1, <2>2 DEF ServiceOK, WorkerOK, CallOK, AttachPcs,
                                   AutnPcs, SessionPcs, CompletePcs, DetachPcs, RemPcs
<1>7. \A m \in Ues \ {n} : Untouched(m)
  BY <1>0, <1>3, OthersUntouched
<1>. QED  BY <1>3, <1>5, <1>6, <1>7 DEF HandlerKeeps

\* Both NAS keys are derived from the key of the challenge.
LEMMA SecurityModeCmdKeeps ==
    ASSUME NEW w, NEW n, Handles(w, n), SecurityModeCmd(w)
    PROVE  HandlerKeeps(w, n)
<1>0. /\ TypeOK /\ w \in Workers /\ n \in Ues /\ amf[w].pc = "security_cmd"
      /\ SubscriberOK(n) /\ ServiceOK(w) /\ amf[w].ue = n
      /\ UNCHANGED <<ran, up, down, s1amf_id, smf>>
  BY DEF Handles, SecurityModeCmd, AmfAt, localFrame, smfVars
<1>1. /\ ran[n].pc = "security" /\ Quiescent(n)
      /\ amf[w].id = ran[n].mme_s1ap_ue_id /\ GutiOf(w) = Guti(n) /\ GutiOf(w) # 0
      /\ s1amf_id[ran[n].mme_s1ap_ue_id] = Guti(n)
  BY <1>0, HandlerPhase, HandlerId DEF AutnPcs
<1>2. /\ udm_ctx' = [udm_ctx EXCEPT ![Guti(n)].k_nas_enc = NasKey(udm_ctx[Guti(n)])]
      /\ amf' = [amf EXCEPT ![w] = [@ EXCEPT !.guti = Guti(n), !.pc = "integrity"]]
      /\ UNCHANGED <<loc_info, exited>>
  BY <1>1 DEF SecurityModeCmd, IfKnown, SetCrypt
<1>3. /\ udm_ctx \in [Imsis -> UdmContexts] /\ Guti(n) \in Imsis
      /\ udm_ctx[Guti(n)] \in UdmContexts
  BY <1>0, OwnFacts DEF TypeOK, UdmTypeOK
<1>4. NasKey(udm_ctx[Guti(n)]) = NasKeyOf(n)
  <2>1. udm_ctx[Guti(n)].k_asme = Vector(n).k_asme /\ udm_ctx[Guti(n)].k_asme \in Nat
    BY <1>0, <1>1, <1>3 DEF SubscriberOK, UdmOK, HasAnId, UdmContexts
  <2>. QED  BY <2>1 DEF NasKey, NasKeyOf, CtxCount, CtxDir
<1>5. /\ udm_ctx'[Guti(n)].k_nas_enc = NasKeyOf(n)
      /\ udm_ctx'[Guti(n)].imsi = udm_ctx[Guti(n)].imsi
      /\ udm_ctx'[Guti(n)].xres = udm_ctx[Guti(n)].xres
      /\ udm_ctx'[Guti(n)].k_asme = udm_ctx[Guti(n)].k_asme
      /\ udm_ctx'[Guti(n)].mme_s1ap_ue_id = udm_ctx[Guti(n)].mme_s1ap_ue_id
      /\ \A g \in Imsis \ {Guti(n)} : udm_ctx'[g] = udm_ctx[g]
  BY <1>2, <1>3, <1>4 DEF UdmContexts
<1>6. /\ amf'[w].pc = "integrity" /\ amf'[w].ue = n /\ amf'[w].id = amf[w].id
      /\ amf'[w].guti = Guti(n)
  <2>1. amf \in [Workers -> AmfStates] /\ amf[w] \in AmfStates
    BY <1>0 DEF TypeOK, AmfTypeOK
  <2>. QED  BY <1>0, <1>2, <2>1 DEF AmfStates
<1>7. SubscriberOK(n)'
  <2>1. DownlinkOK(n)' /\ UdmOK(n)'
    BY <1>0, <1>1, <1>5
       DEF DownlinkOK, SubscriberOK, UdmOK, HasAnId, Challenged, Quiescent
  <2>2. IdInUse(n)' => IdInUse(n)
    BY <1>0 DEF IdInUse, HasAnId
  <2>. QED  BY <1>0, <1>1, <1>2, <2>1, <2>2, SubscriberAfter
<1>8. ServiceOK(w)'
  <2>1. smf'[w].pc = "idle"
    BY <1>0, NoCall
  <2>2. ServesAutn(w, n)'
    BY <1>0, <1>1, <1>5, <1>6 DEF ServesAutn, Quiescent
  <2>. QED
    BY <1>0, <1>1, <1>6, <2>1, <2>2 DEF ServiceOK, WorkerOK, CallOK, AttachPcs,
                                   AutnPcs, SessionPcs, CompletePcs, DetachPcs, RemPcs
<1>9. \A m \in Ues \ {n} : Untouched(m)
  BY <1>0, <1>2, <1>5, OthersUntouched
<1>. QED  BY <1>2, <1>7, <1>8, <1>9 DEF HandlerKeeps

\* set_integrity_context: the second NAS key is derived at the UDM.
LEMMA SetIntegrityContextKeeps ==
    ASSUME NEW w, NEW n, Handles(w, n), SetIntegrityContext(w)
    PROVE  HandlerKeeps(w, n)
<1>0. /\ TypeOK /\ w \in Workers /\ n \in Ues /\ amf[w].pc = "integrity"
      /\ SubscriberOK(n) /\ ServiceOK(w) /\ amf[w].ue = n
      /\ AmfGoto(w, "security_send")
      /\ UNCHANGED <<ran, up, down, s1amf_id, smf, loc_info, exited>>
  BY DEF Handles, SetIntegrityContext, SetIntegrity, AmfAt, localFrame, smfVars
<1>1. /\ ran[n].pc = "security" /\ Quiescent(n) /\ amf[w].guti = Guti(n)
      /\ amf[w].id = ran[n].mme_s1ap_ue_id
      /\ s1amf_id[ran[n].mme_s1ap_ue_id] = Guti(n)
      /\ udm_ctx[Guti(n)].k_nas_enc = NasKeyOf(n)
  BY <1>0, HandlerPhase, HandlerId DEF AutnPcs, ServiceOK, WorkerOK, ServesAutn
<1>2. udm_ctx' = [udm_ctx EXCEPT ![Guti(n)].k_nas_int = NasKey(udm_ctx[Guti(n)])]
  BY <1>1 DEF SetIntegrityContext, SetIntegrity
<1>3. /\ udm_ctx \in [Imsis -> UdmContexts] /\ Guti(n) \in Imsis
      /\ udm_ctx[Guti(n)] \in UdmContexts
  BY <1>0, OwnFacts DEF TypeOK, UdmTypeOK
<1>4. NasKey(udm_ctx[Guti(n)]) = NasKeyOf(n)
  <2>1. udm_ctx[Guti(n)].k_asme = Vector(n).k_asme /\ udm_ctx[Guti(n)].k_asme \in Nat
    BY <1>0, <1>1, <1>3 DEF SubscriberOK, UdmOK, HasAnId, UdmContexts
  <2>. QED  BY <2>1 DEF NasKey, NasKeyOf, CtxCount, CtxDir
<1>5. /\ udm_ctx'[Guti(n)].k_nas_int = NasKeyOf(n)
      /\ udm_ctx'[Guti(n)].k_nas_enc = NasKeyOf(n)
      /\ udm_ctx'[Guti(n)].imsi = udm_ctx[Guti(n)].imsi
      /\ udm_ctx'[Guti(n)].xres = udm_ctx[Guti(n)].xres
      /\ udm_ctx'[Guti(n)].k_asme = udm_ctx[Guti(n)].k_asme
      /\ udm_ctx'[Guti(n)].mme_s1ap_ue_id = udm_ctx[Guti(n)].mme_s1ap_ue_id
      /\ \A g \in Imsis \ {Guti(n)} : udm_ctx'[g] = udm_ctx[g]
  BY <1>1, <1>2, <1>3, <1>4 DEF UdmContexts
<1>6. /\ amf'[w].pc = "security_send" /\ amf'[w].ue = n /\ amf'[w].id = amf[w].id
      /\ amf'[w].guti = Guti(n)
  BY <1>0, <1>1, GotoFields
<1>7. SubscriberOK(n)'
  <2>1. DownlinkOK(n)' /\ UdmOK(n)'
    BY <1>0, <1>1, <1>5
       DEF DownlinkOK, SubscriberOK, UdmOK, HasAnId, Challenged, Quiescent
  <2>2. IdInUse(n)' => IdInUse(n)
    BY <1>0 DEF IdInUse, HasAnId
  <2>. QED  BY <1>0, <1>1, <2>1, <2>2, SubscriberAfter
<1>8. ServiceOK(w)'
  <2>1. smf'[w].pc = "idle"
    BY <1>0, NoCall
  <2>2. ServesAutn(w, n)'
    BY <1>0, <1>1, <1>5, <1>6 DEF ServesAutn, Quiescent
  <2>. QED
    BY <1>0, <1>1, <1>6, <2>1, <2>2 DEF ServiceOK, WorkerOK, CallOK, AttachPcs,
                                   AutnPcs, SessionPcs, CompletePcs, DetachPcs, RemPcs
<1>9. \A m \in Ues \ {n} : Untouched(m)
  BY <1>0, <1>5, OthersUntouched
<1>. QED  BY <1>0, <1>7, <1>8, <1>9 DEF HandlerKeeps

\* The command leaves only when the UDM has the keys.
LEMMA SendSecurityModeCmdKeeps ==
    ASSUME NEW w, NEW n, Handles(w, n), SendSecurityModeCmd(w)
    PROVE  HandlerKeeps(w, n)
<1> DEFINE m == DownlinkMessage(2, amf[w].id)
<1>0. /\ TypeOK /\ w \in Workers /\ n \in Ues /\ amf[w].pc = "security_send"
      /\ SubscriberOK(n) /\ ServiceOK(w) /\ amf[w].ue = n
      /\ AmfReturn(w) /\ SendDown(w, m)
      /\ UNCHANGED <<ran, up, s1amf_id, smf, udm_ctx, loc_info, exited>>
  BY DEF Handles, SendSecurityModeCmd, AmfAt, localFrame, smfVars, udmVars
<1>1. /\ ran[n].pc = "security" /\ Quiescent(n)
      /\ s1amf_id[ran[n].mme_s1ap_ue_id] = Guti(n)
      /\ udm_ctx[Guti(n)].k_nas_enc = NasKeyOf(n)
      /\ udm_ctx[Guti(n)].k_nas_int = NasKeyOf(n)
  BY <1>0, HandlerPhase, HandlerId DEF AutnPcs, ServiceOK, WorkerOK, ServesAutn
<1>2. m.typ = 2
  BY DEF DownlinkMessage
<1> HIDE DEF m
<1>3. /\ down'[n] # <<>> /\ Just(down'[n], 2)
      /\ \A k \in Ues \ {n} : down'[k] = down[k]
  BY <1>0, <1>1, <1>2, SentDown DEF Quiescent
<1>4. SubscriberOK(n)'
  <2>1. DownlinkOK(n)'
    BY <1>0, <1>1, <1>3 DEF DownlinkOK, Quiescent
  <2>2. UdmOK(n)'
    BY <1>0, <1>1 DEF SubscriberOK, UdmOK, HasAnId, Challenged
  <2>3. IdInUse(n)' => IdInUse(n)
    BY <1>0, <1>1 DEF IdInUse, HasAnId
  <2>. QED  BY <1>0, <1>1, <2>1, <2>2, <2>3, SubscriberAfter
<1>5. ServiceOK(w)'
  BY <1>0, NoCall, Returned
<1>6. \A k \in Ues \ {n} : Untouched(k)
  BY <1>0, <1>3, OthersUntouched
<1>. QED  BY <1>0, <1>4, <1>5, <1>6 DEF HandlerKeeps

----------------------------------------------------------------------------
(* The AMF: location update and session                                    *)

\* handle_security_mode_complete: the id is known and the result is true.
LEMMA SecurityModeCompleteKeeps ==
    ASSUME NEW w, NEW n, Handles(w, n), SecurityModeComplete(w)
    PROVE  HandlerKeeps(w, n)
<1>0. /\ TypeOK /\ w \in Workers /\ n \in Ues /\ amf[w].pc = "security_complete"
      /\ SubscriberOK(n) /\ ServiceOK(w) /\ amf[w].ue = n
      /\ UNCHANGED <<ran, up, down, s1amf_id, udm_ctx, loc_info, smf>>
  BY DEF Handles, SecurityModeComplete, AmfAt, localFrame, smfVars, udmVars
<1>1. /\ ran[n].pc = "session" /\ Quiescent(n)
      /\ amf[w].id = ran[n].mme_s1ap_ue_id /\ GutiOf(w) = Guti(n) /\ GutiOf(w) # 0
      /\ s1amf_id[ran[n].mme_s1ap_ue_id] = Guti(n)
  BY <1>0, HandlerPhase, HandlerId DEF SessionPcs
<1>2. (AmfReturn(w) \/ AmfGoto(w, "location")) /\ UNCHANGED exited
  BY <1>1 DEF SecurityModeComplete, IfKnown
<1>3. SubscriberOK(n)'
  <2>1. DownlinkOK(n)' /\ UdmOK(n)'
    BY <1>0, <1>1 DEF DownlinkOK, SubscriberOK, UdmOK, HasAnId, Challenged, Quiescent
  <2>2. IdInUse(n)' => IdInUse(n)
    BY <1>0 DEF IdInUse, HasAnId
  <2>. QED  BY <1>0, <1>1, <1>2, <2>1, <2>2, SubscriberAfter
<1>4. smf'[w].pc = "idle"
  BY <1>0, NoCall
<1>5. CASE AmfReturn(w)
  <2>1. ServiceOK(w)'
    BY <1>0, <1>4, <1>5, Returned
  <2>. QED  BY <1>0, <1>2, <1>3, <2>1, OthersUntouched DEF HandlerKeeps
<1>6. CASE AmfGoto(w, "location")
  <2>1. /\ amf'[w].pc = "location" /\ amf'[w].ue = n /\ amf'[w].id = amf[w].id
    BY <1>0, <1>6, GotoFields
  <2>2. ServesSession(w, n)'
    BY <1>0, <1>1, <2>1 DEF ServesSession, Quiescent
  <2>3. ServiceOK(w)'
    BY <1>0, <1>1, <1>4, <2>1, <2>2 DEF ServiceOK, WorkerOK, CallOK, AttachPcs,
                                   AutnPcs, SessionPcs, CompletePcs, DetachPcs, RemPcs
  <2>. QED  BY <1>0, <1>2, <1>3, <2>3, OthersUntouched DEF HandlerKeeps
<1>. QED  BY <1>2, <1>5, <1>6

\* handle_location_update: the IMSI read from the UDM is the subscriber's.
LEMMA LocationUpdateKeeps ==
    ASSUME NEW w, NEW n, Handles(w, n), LocationUpdate(w)
    PROVE  HandlerKeeps(w, n)
<1>0. /\ TypeOK /\ w \in Workers /\ n \in Ues /\ amf[w].pc = "location"
      /\ SubscriberOK(n) /\ ServiceOK(w) /\ amf[w].ue = n
      /\ UNCHANGED <<ran, up, down, s1amf_id, udm_ctx, loc_info, smf>>
  BY DEF Handles, LocationUpdate, AmfAt, localFrame, smfVars, udmVars
<1>1. /\ ran[n].pc = "session" /\ Quiescent(n)
      /\ amf[w].id = ran[n].mme_s1ap_ue_id /\ GutiOf(w) = Guti(n) /\ GutiOf(w) # 0
      /\ s1amf_id[ran[n].mme_s1ap_ue_id] = Guti(n)
  BY <1>0, HandlerPhase, HandlerId DEF SessionPcs
<1>2. udm_ctx[Guti(n)].imsi = Imsi(n)
  BY <1>0, <1>1 DEF SubscriberOK, UdmOK, HasAnId
<1>3. /\ amf' = [amf EXCEPT ![w] = [@ EXCEPT !.guti = Guti(n), !.imsi = Imsi(n),
                                             !.pc = "loc_delete"]]
      /\ UNCHANGED exited
  BY <1>1, <1>2 DEF LocationUpdate, IfKnown
<1>4. /\ amf'[w].pc = "loc_delete" /\ amf'[w].ue = n /\ amf'[w].id = amf[w].id
      /\ amf'[w].guti = Guti(n) /\ amf'[w].imsi = Imsi(n)
  <2>1. amf \in [Workers -> AmfStates] /\ amf[w] \in AmfStates
    BY <1>0 DEF TypeOK, AmfTypeOK
  <2>. QED  BY <1>0, <1>3, <2>1 DEF AmfStates
<1>5. SubscriberOK(n)'
  <2>1. DownlinkOK(n)' /\ UdmOK(n)'
    BY <1>0, <1>1 DEF DownlinkOK, SubscriberOK, UdmOK, HasAnId, Challenged, Quiescent
  <2>2. IdInUse(n)' => IdInUse(n)
    BY <1>0 DEF IdInUse, HasAnId
  <2>. QED  BY <1>0, <1>1, <1>3, <2>1, <2>2, SubscriberAfter
<1>6. ServiceOK(w)'
  <2>1. smf'[w].pc = "idle"
    BY <1>0, NoCall
  <2>2. ServesSession(w, n)'
    BY <1>0, <1>1, <1>4 DEF ServesSession, Quiescent
  <2>. QED
    BY <1>0, <1>1, <1>4, <2>1, <2>2 DEF ServiceOK, WorkerOK, CallOK, AttachPcs,
                                   AutnPcs, SessionPcs, CompletePcs, DetachPcs, RemPcs
<1>7. \A m \in Ues \ {n} : Untouched(m)
  BY <1>0, <1>3, OthersUntouched
<1>. QED  BY <1>3, <1>5, <1>6, <1>7 DEF HandlerKeeps

\* The two statements on the location table leave one row between them.
LEMMA LocationDeleteKeeps ==
    ASSUME NEW w, NEW n, Handles(w, n), LocationDelete(w)
    PROVE  HandlerKeeps(w, n)
<1>0. /\ TypeOK /\ w \in Workers /\ n \in Ues /\ amf[w].pc = "loc_delete"
      /\ SubscriberOK(n) /\ ServiceOK(w) /\ amf[w].ue = n
      /\ AmfGoto(w, "loc_insert")
      /\ UNCHANGED <<ran, up, down, s1amf_id, udm_ctx, smf, exited>>
  BY DEF Handles, LocationDelete, DeleteLocInfo, AmfAt, localFrame, smfVars
<1>1. /\ ran[n].pc = "session" /\ Quiescent(n)
      /\ amf[w].imsi = Imsi(n) /\ amf[w].guti = Guti(n)
      /\ amf[w].id = ran[n].mme_s1ap_ue_id
      /\ s1amf_id[ran[n].mme_s1ap_ue_id] = Guti(n)
  BY <1>0, HandlerPhase, HandlerId DEF SessionPcs, ServiceOK, WorkerOK, ServesSession
<1>2. /\ loc_info'[Imsi(n)] = 0
      /\ \A g \in Imsis \ {Imsi(n)} : loc_info'[g] = loc_info[g]
  <2>1. loc_info \in [Imsis -> Nat] /\ Imsi(n) \in Imsis
    BY <1>0, OwnFacts DEF TypeOK, UdmTypeOK
  <2>2. loc_info' = [loc_info EXCEPT ![Imsi(n)] = 0]
    BY <1>1 DEF LocationDelete, DeleteLocInfo
  <2>. QED  BY <2>1, <2>2
<1>3. /\ amf'[w].pc = "loc_insert" /\ amf'[w].ue = n /\ amf'[w].id = amf[w].id
      /\ amf'[w].guti = Guti(n) /\ amf'[w].imsi = Imsi(n)
  BY <1>0, <1>1, GotoFields
<1>4. SubscriberOK(n)'
  <2>1. DownlinkOK(n)' /\ UdmOK(n)'
    BY <1>0, <1>1 DEF DownlinkOK, SubscriberOK, UdmOK, HasAnId, Challenged, Quiescent
  <2>2. IdInUse(n)' => IdInUse(n)
    BY <1>0 DEF IdInUse, HasAnId
  <2>. QED  BY <1>0, <1>1, <2>1, <2>2, SubscriberAfter
<1>5. ServiceOK(w)'
  <2>1. smf'[w].pc = "idle"
    BY <1>0, NoCall
  <2>2. ServesSession(w, n)'
    BY <1>0, <1>1, <1>2, <1>3 DEF ServesSession, Quiescent
  <2>. QED
    BY <1>0, <1>1, <1>3, <2>1, <2>2 DEF ServiceOK, WorkerOK, CallOK, AttachPcs,
                                   AutnPcs, SessionPcs, CompletePcs, DetachPcs, RemPcs
<1>6. \A m \in Ues \ {n} : Untouched(m)
  BY <1>0, <1>2, OthersUntouched
<1>. QED  BY <1>0, <1>4, <1>5, <1>6 DEF HandlerKeeps

\* handle_location_update: the one location of the subscriber is entered.
LEMMA LocationInsertKeeps ==
    ASSUME NEW w, NEW n, Handles(w, n), LocationInsert(w)
    PROVE  HandlerKeeps(w, n)
<1>0. /\ TypeOK /\ w \in Workers /\ n \in Ues /\ amf[w].pc = "loc_insert"
      /\ SubscriberOK(n) /\ ServiceOK(w) /\ amf[w].ue = n
      /\ AmfGoto(w, "session")
      /\ UNCHANGED <<ran, up, down, s1amf_id, udm_ctx, smf, exited>>
  BY DEF Handles, LocationInsert, InsertLocInfo, AmfAt, localFrame, smfVars
<1>1. /\ ran[n].pc = "session" /\ Quiescent(n)
      /\ amf[w].imsi = Imsi(n) /\ loc_info[Imsi(n)] = 0
      /\ amf[w].id = ran[n].mme_s1ap_ue_id
      /\ s1amf_id[ran[n].mme_s1ap_ue_id] = Guti(n)
  BY <1>0, HandlerPhase, HandlerId DEF SessionPcs, ServiceOK, WorkerOK, ServesSession
<1>2. /\ loc_info'[Imsi(n)] = 1
      /\ \A g \in Imsis \ {Imsi(n)} : loc_info'[g] = loc_info[g]
  <2>1. loc_info \in [Imsis -> Nat] /\ Imsi(n) \in Imsis
    BY <1>0, OwnFacts DEF TypeOK, UdmTypeOK
  <2>2. loc_info' = [loc_info EXCEPT ![Imsi(n)] = 0 + 1]
    BY <1>1 DEF LocationInsert, InsertLocInfo
  <2>. QED  BY <2>1, <2>2
<1>3. amf'[w].pc = "session" /\ amf'[w].ue = n /\ amf'[w].id = amf[w].id
  BY <1>0, GotoFields
<1>4. SubscriberOK(n)'
  <2>1. DownlinkOK(n)' /\ UdmOK(n)'
    BY <1>0, <1>1 DEF DownlinkOK, SubscriberOK, UdmOK, HasAnId, Challenged, Quiescent
  <2>2. IdInUse(n)' => IdInUse(n)
    BY <1>0 DEF IdInUse, HasAnId
  <2>. QED  BY <1>0, <1>1, <2>1, <2>2, SubscriberAfter
<1>5. ServiceOK(w)'
  <2>1. smf'[w].pc = "idle"
    BY <1>0, NoCall
  <2>2. ServesSession(w, n)'
    BY <1>0, <1>1, <1>2, <1>3 DEF ServesSession, Quiescent
  <2>. QED
    BY <1>0, <1>1, <1>3, <2>1, <2>2 DEF ServiceOK, WorkerOK, CallOK, AttachPcs,
                                   AutnPcs, SessionPcs, CompletePcs, DetachPcs, RemPcs
<1>6. \A m \in Ues \ {n} : Untouched(m)
  BY <1>0, <1>2, OthersUntouched
<1>. QED  BY <1>0, <1>4, <1>5, <1>6 DEF HandlerKeeps

\* A call to the SMF hands over its arguments.
LEMMA CalledSmf ==
    ASSUME TypeOK, NEW w \in Workers, NEW typ, NEW g, NEW i, NEW t,
           CallSmf(w, typ, g, i, t)
    PROVE  smf'[w].pc = "call" /\ smf'[w].typ = typ /\ smf'[w].guti = g /\ smf'[w].imsi = i
<1>1. smf \in [Workers -> SmfStates]
  BY DEF TypeOK, SmfTypeOK
<1>. QED  BY <1>1 DEF CallSmf, IdleSmf

\* After the return from the SMF its worker is free.
LEMMA SmfReturned ==
    ASSUME TypeOK, NEW w \in Workers, ReturnFromSmf(w)
    PROVE  smf'[w].pc = "idle"
<1>1. smf \in [Workers -> SmfStates]
  BY DEF TypeOK, SmfTypeOK
<1>. QED  BY <1>1 DEF ReturnFromSmf, IdleSmf

\* handle_create_session: the SMF is called for the subscriber's own GUTI.
LEMMA CreateSessionBeginKeeps ==
    ASSUME NEW w, NEW n, Handles(w, n), CreateSessionBegin(w)
    PROVE  HandlerKeeps(w, n)
<1> DEFINE teid == GetS11CteidAmf(Guti(n))
<1>0. /\ TypeOK /\ w \in Workers /\ n \in Ues /\ amf[w].pc = "session"
      /\ SubscriberOK(n) /\ ServiceOK(w) /\ amf[w].ue = n
      /\ UNCHANGED <<ran, up, down, s1amf_id>>
  BY DEF Handles, CreateSessionBegin, AmfAt, localFrame
<1>1. /\ ran[n].pc = "session" /\ Quiescent(n) /\ loc_info[Imsi(n)] = 1
      /\ amf[w].id = ran[n].mme_s1ap_ue_id /\ GutiOf(w) = Guti(n) /\ GutiOf(w) # 0
      /\ s1amf_id[ran[n].mme_s1ap_ue_id] = Guti(n)
  BY <1>0, HandlerPhase, HandlerId DEF SessionPcs, ServiceOK, WorkerOK, ServesSession
<1>2. udm_ctx[Guti(n)].imsi = Imsi(n)
  BY <1>0, <1>1 DEF SubscriberOK, UdmOK, HasAnId
<1>3. /\ udm_ctx' = [udm_ctx EXCEPT ![Guti(n)].s11_cteid_amf = teid]
      /\ CallSmf(w, "create", Guti(n), Imsi(n), teid)
      /\ amf' = [amf EXCEPT ![w] = [@ EXCEPT !.guti = Guti(n), !.pc = "session_end"]]
      /\ UNCHANGED <<loc_info, exited>>
  BY <1>1, <1>2 DEF CreateSessionBegin, IfKnown, HandleCreateSessionBegin
<1>4. /\ udm_ctx'[Guti(n)].imsi = udm_ctx[Guti(n)].imsi
      /\ udm_ctx'[Guti(n)].xres = udm_ctx[Guti(n)].xres
      /\ udm_ctx'[Guti(n)].k_asme = udm_ctx[Guti(n)].k_asme
      /\ udm_ctx'[Guti(n)].mme_s1ap_ue_id = udm_ctx[Guti(n)].mme_s1ap_ue_id
      /\ udm_ctx'[Guti(n)].k_nas_enc = udm_ctx[Guti(n)].k_nas_enc
      /\ udm_ctx'[Guti(n)].k_nas_int = udm_ctx[Guti(n)].k_nas_int
      /\ \A g \in Imsis \ {Guti(n)} : udm_ctx'[g] = udm_ctx[g]
  <2>1. /\ udm_ctx \in [Imsis -> UdmContexts] /\ Guti(n) \in Imsis
        /\ udm_ctx[Guti(n)] \in UdmContexts
    BY <1>0, OwnFacts DEF TypeOK, UdmTypeOK
  <2>. QED  BY <1>3, <2>1 DEF UdmContexts
<1>5. /\ amf'[w].pc = "session_end" /\ amf'[w].ue = n /\ amf'[w].id = amf[w].id
      /\ amf'[w].guti = Guti(n)
  <2>1. amf \in [Workers -> AmfStates] /\ amf[w] \in AmfStates
    BY <1>0 DEF TypeOK, AmfTypeOK
  <2>. QED  BY <1>0, <1>3, <2>1 DEF AmfStates
<1>6. SubscriberOK(n)'
  <2>1. DownlinkOK(n)' /\ UdmOK(n)'
    BY <1>0, <1>1, <1>4
       DEF DownlinkOK, SubscriberOK, UdmOK, HasAnId, Challenged, Quiescent
  <2>2. IdInUse(n)' => IdInUse(n)
    BY <1>0 DEF IdInUse, HasAnId
  <2>. QED  BY <1>0, <1>1, <1>3, <2>1, <2>2, SubscriberAfter
<1>7. ServiceOK(w)'
  <2>1. smf'[w].pc = "call" /\ smf'[w].typ = "create" /\ smf'[w].guti = Guti(n) /\ smf'[w].imsi = Imsi(n)
    BY <1>0, <1>3, CalledSmf
  <2>2. ServesSession(w, n)'
    BY <1>0, <1>1, <1>3, <1>5 DEF ServesSession, Quiescent
  <2>. QED
    BY <1>0, <1>1, <1>5, <2>1, <2>2 DEF ServiceOK, WorkerOK, CallOK, AttachPcs,
                                   AutnPcs, SessionPcs, CompletePcs, DetachPcs, RemPcs
<1>8. \A m \in Ues \ {n} : Untouched(m)
  BY <1>0, <1>3, <1>4, OthersUntouched
<1>. QED  BY <1>3, <1>6, <1>7, <1>8 DEF HandlerKeeps

\* What the UE is told of its session is what the UDM has just stored.
LEMMA CreateSessionEndKeeps ==
    ASSUME NEW w, NEW n, Handles(w, n), CreateSessionEnd(w)
    PROVE  HandlerKeeps(w, n)
<1> DEFINE m == [DownlinkMessage(3, amf[w].id) EXCEPT
                   !.guti = smf[w].guti, !.ul = smf[w].ul, !.ip = smf[w].ip]
<1>0. /\ TypeOK /\ w \in Workers /\ n \in Ues /\ amf[w].pc = "session_end"
      /\ SubscriberOK(n) /\ ServiceOK(w) /\ amf[w].ue = n /\ smf[w].pc = "done"
      /\ AmfReturn(w) /\ ReturnFromSmf(w) /\ SendDown(w, m)
      /\ UNCHANGED <<ran, up, s1amf_id, loc_info, exited>>
  BY DEF Handles, CreateSessionEnd, HandleCreateSessionEnd, AmfAt, localFrame
<1>1. /\ ran[n].pc = "session" /\ Quiescent(n) /\ loc_info[Imsi(n)] = 1
      /\ s1amf_id[ran[n].mme_s1ap_ue_id] = Guti(n) /\ smf[w].guti = Guti(n)
  BY <1>0, HandlerPhase, HandlerId
     DEF SessionPcs, ServiceOK, WorkerOK, ServesSession, CallOK
<1>2. udm_ctx' = [udm_ctx EXCEPT ![Guti(n)] =
                    [@ EXCEPT !.s11_cteid_upf = smf[w].teid, !.ip_addr = smf[w].ip,
                              !.s1_uteid_ul = smf[w].ul,
                              !.tau_timer = smf[w].tau_timer]]
  BY <1>1 DEF CreateSessionEnd, HandleCreateSessionEnd
<1>3. m.typ = 3 /\ m.guti = Guti(n) /\ m.ul = smf[w].ul /\ m.ip = smf[w].ip
  BY <1>1 DEF DownlinkMessage
<1> HIDE DEF m
<1>4. /\ down'[n] # <<>> /\ down'[n][1] = m /\ Just(down'[n], 3)
      /\ \A k \in Ues \ {n} : down'[k] = down[k]
  BY <1>0, <1>1, <1>3, SentDown DEF Quiescent
<1>5. /\ udm_ctx'[Guti(n)].ip_addr = smf[w].ip
      /\ udm_ctx'[Guti(n)].s1_uteid_ul = smf[w].ul
      /\ udm_ctx'[Guti(n)].imsi = udm_ctx[Guti(n)].imsi
      /\ udm_ctx'[Guti(n)].xres = udm_ctx[Guti(n)].xres
      /\ udm_ctx'[Guti(n)].k_asme = udm_ctx[Guti(n)].k_asme
      /\ udm_ctx'[Guti(n)].mme_s1ap_ue_id = udm_ctx[Guti(n)].mme_s1ap_ue_id
      /\ udm_ctx'[Guti(n)].k_nas_enc = udm_ctx[Guti(n)].k_nas_enc
      /\ udm_ctx'[Guti(n)].k_nas_int = udm_ctx[Guti(n)].k_nas_int
      /\ \A g \in Imsis \ {Guti(n)} : udm_ctx'[g] = udm_ctx[g]
  <2>1. /\ udm_ctx \in [Imsis -> UdmContexts] /\ Guti(n) \in Imsis
        /\ udm_ctx[Guti(n)] \in UdmContexts
    BY <1>0, OwnFacts DEF TypeOK, UdmTypeOK
  <2>. QED  BY <1>2, <2>1 DEF UdmContexts
<1>6. SubscriberOK(n)'
  <2>1. DownlinkOK(n)'
    BY <1>0, <1>1, <1>3, <1>4, <1>5 DEF DownlinkOK, AcceptOK, Quiescent
  <2>2. UdmOK(n)'
    BY <1>0, <1>1, <1>5 DEF SubscriberOK, UdmOK, HasAnId, Challenged
  <2>3. IdInUse(n)' => IdInUse(n)
    BY <1>0, <1>1 DEF IdInUse, HasAnId
  <2>. QED  BY <1>0, <1>1, <2>1, <2>2, <2>3, SubscriberAfter
<1>7. ServiceOK(w)'
  BY <1>0, SmfReturned, Returned
<1>8. \A k \in Ues \ {n} : Untouched(k)
  BY <1>0, <1>4, <1>5, OthersUntouched
<1>. QED  BY <1>0, <1>6, <1>7, <1>8 DEF HandlerKeeps

----------------------------------------------------------------------------
(* The AMF: attach complete                                                *)

\* While the attach complete is handled its sender has gone on, and may detach.
LEMMA AttachCompleteKeeps ==
    ASSUME NEW w, NEW n, Handles(w, n), AttachComplete(w)
    PROVE  HandlerKeeps(w, n)
<1>0. /\ TypeOK /\ w \in Workers /\ n \in Ues /\ amf[w].pc = "attach_complete"
      /\ SubscriberOK(n) /\ ServiceOK(w) /\ amf[w].ue = n
      /\ UNCHANGED <<ran, up, down, s1amf_id, smf>>
  BY DEF Handles, AttachComplete, AmfAt, localFrame, smfVars
<1>1. /\ ran[n].pc \in {"data", "detach"} /\ down[n] = <<>> /\ ServesComplete(w, n)
      /\ amf[w].id = ran[n].mme_s1ap_ue_id /\ GutiOf(w) = Guti(n) /\ GutiOf(w) # 0
      /\ s1amf_id[ran[n].mme_s1ap_ue_id] = Guti(n)
  BY <1>0, HandlerPhase, HandlerId DEF CompletePcs, ServiceOK, WorkerOK
<1>2. /\ udm_ctx' = [udm_ctx EXCEPT ![Guti(n)] =
                       [@ EXCEPT !.s1_uteid_dl = amf[w].arg, !.emm_state = 1]]
      /\ AmfGoto(w, "modify") /\ UNCHANGED <<loc_info, exited>>
  BY <1>1 DEF AttachComplete, IfKnown, UpdateAttachComplete
<1>3. /\ udm_ctx'[Guti(n)].ip_addr = udm_ctx[Guti(n)].ip_addr
      /\ udm_ctx'[Guti(n)].s1_uteid_ul = udm_ctx[Guti(n)].s1_uteid_ul
      /\ udm_ctx'[Guti(n)].imsi = udm_ctx[Guti(n)].imsi
      /\ udm_ctx'[Guti(n)].xres = udm_ctx[Guti(n)].xres
      /\ udm_ctx'[Guti(n)].k_asme = udm_ctx[Guti(n)].k_asme
      /\ udm_ctx'[Guti(n)].mme_s1ap_ue_id = udm_ctx[Guti(n)].mme_s1ap_ue_id
      /\ udm_ctx'[Guti(n)].k_nas_enc = udm_ctx[Guti(n)].k_nas_enc
      /\ udm_ctx'[Guti(n)].k_nas_int = udm_ctx[Guti(n)].k_nas_int
      /\ \A g \in Imsis \ {Guti(n)} : udm_ctx'[g] = udm_ctx[g]
  <2>1. /\ udm_ctx \in [Imsis -> UdmContexts] /\ Guti(n) \in Imsis
        /\ udm_ctx[Guti(n)] \in UdmContexts
    BY <1>0, OwnFacts DEF TypeOK, UdmTypeOK
  <2>. QED  BY <1>2, <2>1 DEF UdmContexts
<1>4. amf'[w].pc = "modify" /\ amf'[w].ue = n /\ amf'[w].id = amf[w].id
  BY <1>0, <1>2, GotoFields
<1>5. SubscriberOK(n)'
  <2>1. DownlinkOK(n)' /\ UdmOK(n)'
    BY <1>0, <1>1, <1>2, <1>3
       DEF DownlinkOK, SubscriberOK, UdmOK, HasAnId, Challenged
  <2>2. IdInUse(n)' => IdInUse(n)
    BY <1>0 DEF IdInUse, HasAnId
  <2>. QED  BY <1>0, <1>1, <1>2, <2>1, <2>2, SubscriberAfter
<1>6. ServiceOK(w)'
  <2>1. smf'[w].pc = "idle"
    BY <1>0, NoCall
  <2>2. ServesComplete(w, n)'
    BY <1>0, <1>1 DEF ServesComplete
  <2>. QED
    BY <1>0, <1>1, <1>4, <2>1, <2>2 DEF ServiceOK, WorkerOK, CallOK, AttachPcs,
                                   AutnPcs, SessionPcs, CompletePcs, DetachPcs, RemPcs
<1>7. \A m \in Ues \ {n} : Untouched(m)
  BY <1>0, <1>2, <1>3, OthersUntouched
<1>. QED  BY <1>2, <1>5, <1>6, <1>7 DEF HandlerKeeps

\* handle_modify_bearer: the SMF is called for the subscriber's own GUTI.
LEMMA ModifyBearerBeginKeeps ==
    ASSUME NEW w, NEW n, Handles(w, n), ModifyBearerBegin(w)
    PROVE  HandlerKeeps(w, n)
<1>0. /\ TypeOK /\ w \in Workers /\ n \in Ues /\ amf[w].pc = "modify"
      /\ SubscriberOK(n) /\ ServiceOK(w) /\ amf[w].ue = n
      /\ UNCHANGED <<ran, up, down, s1amf_id>>
  BY DEF Handles, ModifyBearerBegin, AmfAt, localFrame
<1>1. /\ ran[n].pc \in {"data", "detach"} /\ down[n] = <<>> /\ ServesComplete(w, n)
      /\ amf[w].id = ran[n].mme_s1ap_ue_id /\ GutiOf(w) = Guti(n) /\ GutiOf(w) # 0
      /\ s1amf_id[ran[n].mme_s1ap_ue_id] = Guti(n)
  BY <1>0, HandlerPhase, HandlerId DEF CompletePcs, ServiceOK, WorkerOK
<1>2. /\ udm_ctx' = [udm_ctx EXCEPT ![Guti(n)].ecm_state = 1]
      /\ CallSmf(w, "modify", Guti(n), 0, 0)
      /\ amf' = [amf EXCEPT ![w] = [@ EXCEPT !.guti = Guti(n), !.pc = "modify_end"]]
      /\ UNCHANGED <<loc_info, exited>>
  BY <1>1 DEF ModifyBearerBegin, IfKnown, HandleModifyBearer
<1>3. /\ udm_ctx'[Guti(n)].ip_addr = udm_ctx[Guti(n)].ip_addr
      /\ udm_ctx'[Guti(n)].s1_uteid_ul = udm_ctx[Guti(n)].s1_uteid_ul
      /\ udm_ctx'[Guti(n)].imsi = udm_ctx[Guti(n)].imsi
      /\ udm_ctx'[Guti(n)].xres = udm_ctx[Guti(n)].xres
      /\ udm_ctx'[Guti(n)].k_asme = udm_ctx[Guti(n)].k_asme
      /\ udm_ctx'[Guti(n)].mme_s1ap_ue_id = udm_ctx[Guti(n)].mme_s1ap_ue_id
      /\ udm_ctx'[Guti(n)].k_nas_enc = udm_ctx[Guti(n)].k_nas_enc
      /\ udm_ctx'[Guti(n)].k_nas_int = udm_ctx[Guti(n)].k_nas_int
      /\ \A g \in Imsis \ {Guti(n)} : udm_ctx'[g] = udm_ctx[g]
  <2>1. /\ udm_ctx \in [Imsis -> UdmContexts] /\ Guti(n) \in Imsis
        /\ udm_ctx[Guti(n)] \in UdmContexts
    BY <1>0, OwnFacts DEF TypeOK, UdmTypeOK
  <2>. QED  BY <1>2, <2>1 DEF UdmContexts
<1>4. amf'[w].pc = "modify_end" /\ amf'[w].ue = n /\ amf'[w].id = amf[w].id
  <2>1. amf \in [Workers -> AmfStates] /\ amf[w] \in AmfStates
    BY <1>0 DEF TypeOK, AmfTypeOK
  <2>. QED  BY <1>0, <1>2, <2>1 DEF AmfStates
<1>5. SubscriberOK(n)'
  <2>1. DownlinkOK(n)' /\ UdmOK(n)'
    BY <1>0, <1>1, <1>2, <1>3
       DEF DownlinkOK, SubscriberOK, UdmOK, HasAnId, Challenged
  <2>2. IdInUse(n)' => IdInUse(n)
    BY <1>0 DEF IdInUse, HasAnId
  <2>. QED  BY <1>0, <1>1, <1>2, <2>1, <2>2, SubscriberAfter
<1>6. ServiceOK(w)'
  <2>1. smf'[w].pc = "call" /\ smf'[w].typ = "modify" /\ smf'[w].guti = Guti(n)
    BY <1>0, <1>2, CalledSmf
  <2>2. ServesComplete(w, n)'
    BY <1>0, <1>1 DEF ServesComplete
  <2>. QED
    BY <1>0, <1>1, <1>4, <2>1, <2>2 DEF ServiceOK, WorkerOK, CallOK, AttachPcs,
                                   AutnPcs, SessionPcs, CompletePcs, DetachPcs, RemPcs
<1>7. \A m \in Ues \ {n} : Untouched(m)
  BY <1>0, <1>2, <1>3, OthersUntouched
<1>. QED  BY <1>2, <1>5, <1>6, <1>7 DEF HandlerKeeps

\* handle_modify_bearer: the answer changes only the local context.
LEMMA ModifyBearerEndKeeps ==
    ASSUME NEW w, NEW n, Handles(w, n), ModifyBearerEnd(w)
    PROVE  HandlerKeeps(w, n)
<1>0. /\ TypeOK /\ w \in Workers /\ n \in Ues /\ amf[w].pc = "modify_end"
      /\ SubscriberOK(n) /\ ServiceOK(w) /\ amf[w].ue = n
      /\ AmfReturn(w) /\ ReturnFromSmf(w)
      /\ UNCHANGED <<ran, up, down, s1amf_id, udm_ctx, loc_info, exited>>
  BY DEF Handles, ModifyBearerEnd, AmfAt, localFrame, udmVars
<1>1. /\ ran[n].pc \in {"data", "detach"} /\ down[n] = <<>>
      /\ s1amf_id[ran[n].mme_s1ap_ue_id] = Guti(n)
  BY <1>0, HandlerPhase, HandlerId DEF CompletePcs
<1>2. SubscriberOK(n)'
  <2>1. DownlinkOK(n)' /\ UdmOK(n)'
    BY <1>0, <1>1 DEF DownlinkOK, SubscriberOK, UdmOK, HasAnId, Challenged
  <2>2. IdInUse(n)' => IdInUse(n)
    BY <1>0 DEF IdInUse, HasAnId
  <2>. QED  BY <1>0, <1>1, <2>1, <2>2, SubscriberAfter
<1>3. ServiceOK(w)'
  BY <1>0, SmfReturned, Returned
<1>. QED  BY <1>0, <1>2, <1>3, OthersUntouched DEF HandlerKeeps

----------------------------------------------------------------------------
(* The AMF: detach                                                         *)

\* handle_detach: the GUTI of the packet is the one found by the id.
LEMMA DetachBeginKeeps ==
    ASSUME NEW w, NEW n, Handles(w, n), DetachBegin(w)
    PROVE  HandlerKeeps(w, n)
<1>0. /\ TypeOK /\ w \in Workers /\ n \in Ues /\ amf[w].pc = "detach"
      /\ SubscriberOK(n) /\ ServiceOK(w) /\ amf[w].ue = n
      /\ UNCHANGED <<ran, up, down, s1amf_id, udm_ctx, loc_info>>
  BY DEF Handles, DetachBegin, AmfAt, localFrame, udmVars
<1>1. /\ ran[n].pc = "detach" /\ Quiescent(n) /\ amf[w].arg = Guti(n)
      /\ amf[w].id = ran[n].mme_s1ap_ue_id /\ GutiOf(w) # 0
      /\ s1amf_id[ran[n].mme_s1ap_ue_id] = Guti(n)
  BY <1>0, HandlerPhase, HandlerId DEF DetachPcs, ServiceOK, WorkerOK, ServesDetach
<1>2. /\ CallSmf(w, "release", Guti(n), 0, 0)
      /\ amf' = [amf EXCEPT ![w] = [@ EXCEPT !.guti = Guti(n), !.pc = "detach_end"]]
      /\ UNCHANGED exited
  BY <1>1 DEF DetachBegin, IfKnown
<1>3. amf'[w].pc = "detach_end" /\ amf'[w].ue = n /\ amf'[w].id = amf[w].id
  <2>1. amf \in [Workers -> AmfStates] /\ amf[w] \in AmfStates
    BY <1>0 DEF TypeOK, AmfTypeOK
  <2>. QED  BY <1>0, <1>2, <2>1 DEF AmfStates
<1>4. SubscriberOK(n)'
  <2>1. DownlinkOK(n)' /\ UdmOK(n)'
    BY <1>0, <1>1 DEF DownlinkOK, UdmOK, HasAnId, Challenged, Quiescent
  <2>2. IdInUse(n)' => IdInUse(n)
    BY <1>0 DEF IdInUse, HasAnId
  <2>. QED  BY <1>0, <1>1, <1>2, <2>1, <2>2, SubscriberAfter
<1>5. ServiceOK(w)'
  <2>1. smf'[w].pc = "call" /\ smf'[w].typ = "release" /\ smf'[w].guti = Guti(n)
    BY <1>0, <1>2, CalledSmf
  <2>2. ServesDetach(w, n)'
    BY <1>0, <1>1, <1>3 DEF ServesDetach, Quiescent
  <2>. QED
    BY <1>0, <1>1, <1>3, <2>1, <2>2 DEF ServiceOK, WorkerOK, CallOK, AttachPcs,
                                   AutnPcs, SessionPcs, CompletePcs, DetachPcs, RemPcs
<1>6. \A m \in Ues \ {n} : Untouched(m)
  BY <1>0, <1>2, OthersUntouched
<1>. QED  BY <1>2, <1>4, <1>5, <1>6 DEF HandlerKeeps

\* A release that succeeds is answered before the entries are removed.
LEMMA DetachEndKeeps ==
    ASSUME NEW w, NEW n, Handles(w, n), DetachEnd(w)
    PROVE  HandlerKeeps(w, n)
<1> DEFINE m == DownlinkMessage(5, amf[w].id)
<1>0. /\ TypeOK /\ w \in Workers /\ n \in Ues /\ amf[w].pc = "detach_end"
      /\ SubscriberOK(n) /\ ServiceOK(w) /\ amf[w].ue = n /\ ReturnFromSmf(w)
      /\ UNCHANGED <<ran, up, s1amf_id, udm_ctx, loc_info, exited>>
  BY DEF Handles, DetachEnd, AmfAt, localFrame, udmVars
<1>1. /\ ran[n].pc = "detach" /\ Quiescent(n)
      /\ amf[w].id = ran[n].mme_s1ap_ue_id
      /\ s1amf_id[ran[n].mme_s1ap_ue_id] = Guti(n)
  BY <1>0, HandlerPhase, HandlerId DEF DetachPcs
<1>2. smf'[w].pc = "idle"
  BY <1>0, SmfReturned
<1>3. CASE SendDown(w, m) /\ AmfGoto(w, "rem_itfid")
  <2>1. m.typ = 5
    BY DEF DownlinkMessage
  <2> HIDE DEF m
  <2>2. /\ down'[n] # <<>> /\ Just(down'[n], 5)
        /\ \A k \in Ues \ {n} : down'[k] = down[k]
    BY <1>0, <1>1, <1>3, <2>1, SentDown DEF Quiescent
  <2>3. amf'[w].pc = "rem_itfid" /\ amf'[w].ue = n /\ amf'[w].id = amf[w].id
    BY <1>0, <1>3, GotoFields
  <2>4. SubscriberOK(n)'
    <3>1. DownlinkOK(n)' /\ UdmOK(n)'
      BY <1>0, <1>1, <2>2 DEF DownlinkOK, UdmOK, HasAnId, Challenged, Quiescent
    <3>2. ~IdInUse(n)'
      BY <1>0, <1>1, <2>2 DEF IdInUse, HasAnId
    <3>. QED  BY <1>0, <3>1, <3>2, SubscriberAfter
  <2>5. ServiceOK(w)'
    <3>1. RemovesFor(w, n)'
      BY <1>0, <1>1, <2>2, <2>3 DEF RemovesFor
    <3>. QED
      BY <1>2, <2>3, <3>1 DEF ServiceOK, WorkerOK, CallOK, AttachPcs, AutnPcs,
                              SessionPcs, CompletePcs, DetachPcs, RemPcs
  <2>6. \A k \in Ues \ {n} : Untouched(k)
    BY <1>0, <2>2, OthersUntouched
  <2>. QED  BY <1>0, <2>4, <2>5, <2>6 DEF HandlerKeeps
<1>4. CASE AmfReturn(w) /\ UNCHANGED down
  <2>1. SubscriberOK(n)'
    <3>1. DownlinkOK(n)' /\ UdmOK(n)'
      BY <1>0, <1>1, <1>4 DEF DownlinkOK, UdmOK, HasAnId, Challenged, Quiescent
    <3>2. IdInUse(n)' => IdInUse(n)
      BY <1>0, <1>4 DEF IdInUse, HasAnId
    <3>. QED  BY <1>0, <1>1, <3>1, <3>2, SubscriberAfter
  <2>2. ServiceOK(w)'
    BY <1>0, <1>2, <1>4, Returned
  <2>. QED  BY <1>0, <1>4, <2>1, <2>2, OthersUntouched DEF HandlerKeeps
<1>. QED  BY <1>3, <1>4 DEF DetachEnd

\* When its id is removed the subscriber no longer has it, whatever it does by
\* then; a challenge with a new id cannot have been sent to it yet.
LEMMA RemItfidKeeps ==
    ASSUME NEW w, NEW n, Handles(w, n), RemItfid(w)
    PROVE  HandlerKeeps(w, n)
<1>0. /\ TypeOK /\ w \in Workers /\ n \in Ues /\ amf[w].pc = "rem_itfid"
      /\ SubscriberOK(n) /\ ServiceOK(w) /\ amf[w].ue = n
      /\ AmfGoto(w, "rem_uectx") /\ s1amf_id' = [s1amf_id EXCEPT ![amf[w].id] = 0]
      /\ UNCHANGED <<ran, up, down, udm_ctx, loc_info, smf, exited>>
  BY DEF Handles, RemItfid, AmfAt, localFrame, udmVars, smfVars
<1>1. RemovesFor(w, n) /\ s1amf_id[amf[w].id] = Guti(n)
  BY <1>0 DEF ServiceOK, WorkerOK, RemovesFor, RemPcs
<1>2. ~IdInUse(n) /\ ~HasAnId(n) /\ ~Challenged(n)
  BY <1>0, <1>1 DEF RemovesFor, IdInUse, HasAnId, Challenged, SubscriberOK, DownlinkOK
<1>3. SubscriberOK(n)'
  <2>1. DownlinkOK(n)'
    BY <1>0, <1>2 DEF DownlinkOK, SubscriberOK, AcceptOK, Challenged
  <2>2. UdmOK(n)'
    BY <1>0 DEF SubscriberOK, UdmOK, HasAnId, Challenged
  <2>3. ~IdInUse(n)'
    BY <1>0, <1>2 DEF IdInUse, HasAnId
  <2>. QED  BY <1>0, <2>1, <2>2, <2>3, SubscriberAfter
<1>4. amf'[w].pc = "rem_uectx" /\ amf'[w].ue = n
  BY <1>0, GotoFields
<1>5. ServiceOK(w)'
  <2>1. smf'[w].pc = "idle"
    BY <1>0, NoCall
  <2>2. RemovesFor(w, n)'
    BY <1>0, <1>1, <1>4 DEF RemovesFor
  <2>. QED
    BY <1>4, <2>1, <2>2 DEF ServiceOK, WorkerOK, CallOK, AttachPcs, AutnPcs,
                            SessionPcs, CompletePcs, DetachPcs, RemPcs
<1>6. \A id \in MmeIds : s1amf_id'[id] = s1amf_id[id] \/ s1amf_id[id] \in {0, Guti(n)}
  <2>1. s1amf_id \in [MmeIds -> {0} \cup Imsis] /\ amf[w].id \in MmeIds
    BY <1>0, AmfStateType DEF TypeOK, AmfTypeOK
  <2>. QED  BY <1>0, <1>1, <2>1
<1>7. \A m \in Ues \ {n} : Untouched(m)
  BY <1>0, <1>6, OthersUntouched
<1>. QED  BY <1>0, <1>3, <1>5, <1>7 DEF HandlerKeeps

\* rem_uectx: the local context goes, and the handler ends.
LEMMA RemUectxKeeps ==
    ASSUME NEW w, NEW n, Handles(w, n), RemUectx(w)
    PROVE  HandlerKeeps(w, n)
<1>0. /\ TypeOK /\ w \in Workers /\ n \in Ues /\ amf[w].pc = "rem_uectx"
      /\ SubscriberOK(n) /\ ServiceOK(w) /\ amf[w].ue = n /\ AmfReturn(w)
      /\ UNCHANGED <<ran, up, down, s1amf_id, udm_ctx, loc_info, smf, exited>>
  BY DEF Handles, RemUectx, AmfAt, localFrame, udmVars, smfVars
<1>1. \A m \in Ues : Untouched(m)
  BY <1>0 DEF Untouched
<1>2. SubscriberOK(n)'
  BY <1>0, <1>1, SubscriberFrame
<1>3. ServiceOK(w)'
  BY <1>0, NoCall, Returned
<1>. QED  BY <1>0, <1>1, <1>2, <1>3 DEF HandlerKeeps

----------------------------------------------------------------------------
(* The AMF: a message arrives                                              *)

Delivers(w, n) ==
    /\ amf[w].pc = "idle" /\ Running("amf") /\ up[n] # <<>>
    /\ amf' = [amf EXCEPT ![w] =
                 IF HandlerOf(Head(up[n])) = "idle" THEN IdleAmf
                 ELSE [pc |-> HandlerOf(Head(up[n])), ue |-> n,
                       id |-> Head(up[n]).mme, arg |-> Head(up[n]).arg,
                       guti |-> 0, imsi |-> 0]]
    /\ up' = [up EXCEPT ![n] = Tail(@)]
    /\ UNCHANGED <<exited, udm_ctx, loc_info, smf, ran, down, s1amf_id>>

\* What a message starts is the handler its sender waits for, with the id the
\* table has for the sender, and it is the sender's turn no longer.
LEMMA HandleUeKeeps ==
    ASSUME TypeOK, NEW w \in Workers, NEW n \in Ues, Delivers(w, n),
           SubscriberOK(n), ServiceOK(w)
    PROVE  SubscriberOK(n)' /\ ServiceOK(w)' /\ \A m \in Ues \ {n} : Untouched(m)
<1> USE DEF Delivers
<1> DEFINE m == Head(up[n])
<1>0. /\ up \in [Ues -> Seq(UplinkMessages)] /\ up[n] \in Seq(UplinkMessages)
      /\ amf \in [Workers -> AmfStates] /\ ran[n] \in RanContexts
  BY DEF TypeOK, ServerTypeOK, AmfTypeOK, RanTypeOK
<1>1. up'[n] = Tail(up[n]) /\ \A k \in Ues \ {n} : up'[k] = up[k]
  BY <1>0
<1>2. down[n] = <<>> /\ smf[w].pc = "idle"
  BY NoCall DEF SubscriberOK, DownlinkOK
<1>3. \/ ran[n].pc = "autn" /\ Just(up[n], 1)
      \/ ran[n].pc = "security" /\ Just(up[n], 2)
      \/ ran[n].pc = "session" /\ Just(up[n], 3)
      \/ ran[n].pc = "data" /\ Just(up[n], 4)
      \/ ran[n].pc = "detach" /\ Just(up[n], 5)
      \/ ran[n].pc = "detach" /\ Len(up[n]) = 2 /\ up[n][1].typ = 4 /\ up[n][2].typ = 5
  BY DEF SubscriberOK, UplinkOK, UplinkShape
<1>4. m = up[n][1] /\ 1 \in DOMAIN up[n]
  BY <1>0, <1>3, JustOne, FirstOfTwo
<1>5. UplinkItem(n, m)
  BY <1>4 DEF SubscriberOK, UplinkOK
<1>6. \A k \in Ues \ {n} : Untouched(k)
  BY <1>1 DEF Untouched
<1>7. /\ ran[n].pc # "autn" => /\ ran[n].mme_s1ap_ue_id # 0
                               /\ s1amf_id[ran[n].mme_s1ap_ue_id] = Guti(n)
  BY <1>2, <1>3 DEF SubscriberOK, IdOK, IdInUse, HasAnId
<1> HIDE DEF m
<1>8. /\ HandlerOf(m) # "idle" => /\ amf'[w].pc = HandlerOf(m) /\ amf'[w].ue = n
                                  /\ amf'[w].id = m.mme /\ amf'[w].arg = m.arg
  BY <1>0 DEF m
<1>9. DownlinkOK(n)' /\ IdOK(n)' /\ UeOK(n)' /\ UdmOK(n)'
  BY <1>2 DEF SubscriberOK, DownlinkOK, IdOK, IdInUse, UeOK, UdmOK, HasAnId, Challenged
<1>10. CASE \E typ : Just(up[n], typ)
  <2>1. up'[n] = <<>>
    BY <1>0, <1>1, <1>10, JustOne
  <2>2. Quiescent(n)'
    BY <1>2, <2>1 DEF Quiescent
  <2>3. UplinkOK(n)'
    <3>1. DOMAIN up'[n] = {}
      BY <2>1
    <3>. QED  BY <1>3, <2>1, <3>1 DEF UplinkOK, UplinkShape, Just
  <2>4. CASE ran[n].pc = "autn" /\ Just(up[n], 1)
    <3>1. HandlerOf(m) = "attach" /\ m.arg = Imsi(n)
      BY <1>4, <1>5, <2>4 DEF HandlerOf, UplinkItem, Just
    <3>2. ServesAttach(w, n)'
      BY <1>8, <2>2, <2>4, <3>1 DEF ServesAttach
    <3>3. ServiceOK(w)'
      BY <1>2, <1>8, <3>1, <3>2 DEF ServiceOK, WorkerOK, CallOK, AttachPcs,
                                    AutnPcs, SessionPcs, CompletePcs, DetachPcs, RemPcs
    <3>. QED  BY <1>6, <1>9, <2>3, <3>3 DEF SubscriberOK
  <2>5. CASE ran[n].pc = "security" /\ Just(up[n], 2)
    <3>1. /\ HandlerOf(m) = "autn" /\ m.arg = Vector(n).xres
          /\ m.mme = ran[n].mme_s1ap_ue_id
      BY <1>4, <1>5, <1>7, <2>5 DEF HandlerOf, UplinkItem, Just
    <3>2. ServesAutn(w, n)'
      BY <1>8, <2>2, <2>5, <3>1 DEF ServesAutn, Vector
    <3>3. ServiceOK(w)'
      BY <1>2, <1>8, <3>1, <3>2 DEF ServiceOK, WorkerOK, CallOK, AttachPcs,
                                    AutnPcs, SessionPcs, CompletePcs, DetachPcs, RemPcs
    <3>. QED  BY <1>6, <1>9, <2>3, <3>3 DEF SubscriberOK
  <2>6. CASE ran[n].pc = "session" /\ Just(up[n], 3)
    <3>1. /\ HandlerOf(m) = "security_complete" /\ m.mme = ran[n].mme_s1ap_ue_id
      BY <1>4, <1>5, <1>7, <2>6 DEF HandlerOf, UplinkItem, Just
    <3>2. ServesSession(w, n)'
      BY <1>8, <2>2, <2>6, <3>1 DEF ServesSession
    <3>3. ServiceOK(w)'
      BY <1>2, <1>8, <3>1, <3>2 DEF ServiceOK, WorkerOK, CallOK, AttachPcs,
                                    AutnPcs, SessionPcs, CompletePcs, DetachPcs, RemPcs
    <3>. QED  BY <1>6, <1>9, <2>3, <3>3 DEF SubscriberOK
  <2>7. CASE ran[n].pc = "data" /\ Just(up[n], 4)
    <3>1. /\ HandlerOf(m) = "attach_complete" /\ m.mme = ran[n].mme_s1ap_ue_id
      BY <1>4, <1>5, <1>7, <2>7 DEF HandlerOf, UplinkItem, Just
    <3>2. ServesComplete(w, n)'
      BY <1>2, <2>1, <2>7 DEF ServesComplete
    <3>3. ServiceOK(w)'
      BY <1>2, <1>8, <3>1, <3>2 DEF ServiceOK, WorkerOK, CallOK, AttachPcs,
                                    AutnPcs, SessionPcs, CompletePcs, DetachPcs, RemPcs
    <3>. QED  BY <1>6, <1>9, <2>3, <3>3 DEF SubscriberOK
  <2>8. CASE ran[n].pc = "detach" /\ Just(up[n], 5)
    <3>1. /\ HandlerOf(m) = "detach" /\ m.mme = ran[n].mme_s1ap_ue_id
          /\ m.arg = Guti(n)
      BY <1>4, <1>5, <1>7, <2>8 DEF HandlerOf, UplinkItem, Just
    <3>2. ServesDetach(w, n)'
      BY <1>7, <1>8, <2>2, <2>8, <3>1 DEF ServesDetach
    <3>3. ServiceOK(w)'
      BY <1>2, <1>8, <3>1, <3>2 DEF ServiceOK, WorkerOK, CallOK, AttachPcs,
                                    AutnPcs, SessionPcs, CompletePcs, DetachPcs, RemPcs
    <3>. QED  BY <1>6, <1>9, <2>3, <3>3 DEF SubscriberOK
  <2>. QED  BY <1>3, <1>10, <2>4, <2>5, <2>6, <2>7, <2>8 DEF Just
<1>11. CASE /\ ran[n].pc = "detach" /\ Len(up[n]) = 2
            /\ up[n][1].typ = 4 /\ up[n][2].typ = 5
  <2>1. /\ Len(up'[n]) = 1 /\ up'[n][1] = up[n][2] /\ 2 \in DOMAIN up[n]
        /\ \A k \in DOMAIN up'[n] : k = 1
    BY <1>0, <1>1, <1>11, FirstOfTwo
  <2>2. Just(up'[n], 5)
    BY <1>11, <2>1 DEF Just
  <2>3. UplinkOK(n)'
    <3>1. UplinkItem(n, up[n][2])
      BY <2>1 DEF SubscriberOK, UplinkOK
    <3>2. ASSUME NEW k \in DOMAIN up'[n] PROVE UplinkItem(n, up[n][k])'
      <4>1. up'[n][k] = up[n][2]
        BY <2>1
      <4>. QED  BY <3>1, <4>1 DEF UplinkItem
    <3>3. UplinkShape(n)'
      BY <1>11, <2>2 DEF UplinkShape
    <3>. QED  BY <3>2, <3>3 DEF UplinkOK
  <2>4. /\ HandlerOf(m) = "attach_complete" /\ m.mme = ran[n].mme_s1ap_ue_id
    BY <1>4, <1>5, <1>7, <1>11 DEF HandlerOf, UplinkItem
  <2>5. ServesComplete(w, n)'
    BY <1>2, <1>11, <2>2 DEF ServesComplete
  <2>6. ServiceOK(w)'
    BY <1>2, <1>8, <2>4, <2>5 DEF ServiceOK, WorkerOK, CallOK, AttachPcs,
                                  AutnPcs, SessionPcs, CompletePcs, DetachPcs, RemPcs
  <2>. QED  BY <1>6, <1>9, <2>3, <2>6 DEF SubscriberOK
<1>. QED  BY <1>3, <1>10, <1>11

\* Every step of a handler keeps its subscriber and touches no other.
LEMMA HandlerStepKeeps ==
    ASSUME NEW w, NEW n, Handles(w, n), FreshIds, NoWrap', AmfWorker(w)
    PROVE  HandlerKeeps(w, n)
<1>1. ~AmfSelect(w) /\ ~AmfClose(w) /\ ~HandleUe(w)
  BY DEF Handles, AmfSelect, AmfClose, HandleUe, AmfAt
<1>. QED
  BY <1>1, InitialAttachKeeps, AttachInitKeeps, AttachAuthKeeps, HandleAutnKeeps,
     SecurityModeCmdKeeps, SetIntegrityContextKeeps, SendSecurityModeCmdKeeps,
     SecurityModeCompleteKeeps, LocationUpdateKeeps, LocationDeleteKeeps,
     LocationInsertKeeps, CreateSessionBeginKeeps, CreateSessionEndKeeps,
     AttachCompleteKeeps, ModifyBearerBeginKeeps, ModifyBearerEndKeeps,
     DetachBeginKeeps, DetachEndKeeps, RemItfidKeeps, RemUectxKeeps DEF AmfWorker

\* A step that touches no subscriber and no handler keeps the agreement.
LEMMA NobodyTouched ==
    ASSUME TypeOK, Agreement, OnlyUpfExits', exited \subseteq exited',
           UNCHANGED <<ran, up, down, udm_ctx, loc_info, s1amf_id, amf, smf>>
    PROVE  Agreement'
<1>1. \A m \in Ues : Untouched(m)
  BY DEF Untouched
<1>2. \A m \in Ues : SubscriberOK(m)'
  BY <1>1, SubscriberFrame DEF Agreement
<1>3. ASSUME NEW x \in Workers PROVE ServiceOK(x)'
  <2>1. amf[x].ue \in Ues
    BY AmfStateType DEF TypeOK
  <2>. QED  BY <1>1, <2>1, ServiceFrame DEF Agreement
<1>. QED  BY <1>2, <1>3 DEF Agreement

\* A step of an AMF worker keeps the whole agreement.
LEMMA AmfStepAgrees ==
    ASSUME TypeOK, Placement, FreshIds, Agreement, NoWrap',
           NEW w \in Workers, AmfStep(w)
    PROVE  Agreement'
<1>0. AmfWorker(w) /\ UNCHANGED ran /\ amf[w] \in AmfStates /\ amf[w].ue \in Ues
      /\ ServiceOK(w)
  BY AmfStateType DEF AmfStep, ranVars, TypeOK, Agreement
<1>1. CASE AmfSelect(w) \/ AmfClose(w)
  <2>1. UNCHANGED <<ran, up, down, udm_ctx, loc_info, s1amf_id, amf, smf, exited>>
    BY <1>0, <1>1 DEF AmfSelect, AmfClose, Select, CloseConn, linkVars, udmVars, smfVars,
                      amfVars
  <2>2. OnlyUpfExits'
    BY <2>1 DEF Agreement, OnlyUpfExits
  <2>. QED  BY <2>1, <2>2, NobodyTouched
<1>2. CASE HandleUe(w)
  <2>1. \E i \in DOMAIN conns[w] : Delivers(w, conns[w][i])
    BY <1>0, <1>2 DEF HandleUe, Delivers, AmfAt, udmVars, smfVars
  <2>2. conns[w] \in Seq(Ues)
    BY DEF TypeOK, ServerTypeOK
  <2>3. PICK n \in ToSet(conns[w]) : Delivers(w, n)
    BY <2>1 DEF ToSet
  <2>4. n \in Ues
    BY <2>2, <2>3 DEF ToSet
  <2>5. SubscriberOK(n)' /\ ServiceOK(w)' /\ \A m \in Ues \ {n} : Untouched(m)
    BY <1>0, <2>3, <2>4, HandleUeKeeps DEF Agreement
  <2>6. OnlyUpfExits' /\ amf[w].pc = "idle"
    BY <2>3 DEF Delivers, Agreement, OnlyUpfExits
  <2>7. \A x \in Workers \ {w} : amf'[x] = amf[x] /\ smf'[x] = smf[x]
    BY <1>0, WorkerSteps
  <2>. QED  BY <2>3, <2>4, <2>5, <2>6, <2>7, OneWorker
<1>3. CASE ~AmfSelect(w) /\ ~AmfClose(w) /\ ~HandleUe(w)
  <2>1. PICK n \in Ues : n = amf[w].ue
    BY <1>0
  <2>2. Handles(w, n)
    <3>1. amf[w].pc # "idle" /\ Running("amf")
      BY <1>0, <1>3 DEF AmfWorker, InitialAttach, AttachInit, AttachAuth, HandleAutn,
         SecurityModeCmd, SetIntegrityContext, SendSecurityModeCmd,
         SecurityModeComplete, LocationUpdate, LocationDelete, LocationInsert,
         CreateSessionBegin, CreateSessionEnd, AttachComplete, ModifyBearerBegin,
         ModifyBearerEnd, DetachBegin, DetachEnd, RemItfid, RemUectx, AmfAt
    <3>2. UNCHANGED up
      BY <1>0, <1>3 DEF AmfWorker, InitialAttach, AttachInit, AttachAuth, HandleAutn,
         SecurityModeCmd, SetIntegrityContext, SendSecurityModeCmd,
         SecurityModeComplete, LocationUpdate, LocationDelete, LocationInsert,
         CreateSessionBegin, CreateSessionEnd, AttachComplete, ModifyBearerBegin,
         ModifyBearerEnd, DetachBegin, DetachEnd, RemItfid, RemUectx, localFrame
    <3>. QED  BY <1>0, <2>1, <3>1, <3>2 DEF Handles, Agreement
  <2>3. HandlerKeeps(w, n)
    BY <1>0, <2>2, HandlerStepKeeps
  <2>4. OnlyUpfExits'
    BY <2>3 DEF HandlerKeeps, Agreement, OnlyUpfExits
  <2>5. \A x \in Workers \ {w} : amf'[x] = amf[x] /\ smf'[x] = smf[x]
    BY <1>0, WorkerSteps
  <2>6. n \in ToSet(conns[w])
    BY <2>1, <2>2 DEF Handles, Placement, ServesOwn
  <2>. QED  BY <2>1, <2>3, <2>4, <2>5, <2>6, OneWorker DEF HandlerKeeps
<1>. QED  BY <1>1, <1>2, <1>3

----------------------------------------------------------------------------
(* The SMF                                                                 *)

\* A worker of the SMF keeps the call it works on, and writes the context of
\* the call's own subscriber only, in a call that creates a session.
LEMMA SmfCallKept ==
    ASSUME TypeOK, NEW w \in Workers, SmfWorker(w), smf[w].guti # 0,
           smf[w].pc = "update" => smf[w].typ = "create"
    PROVE  /\ smf[w].pc # "idle" /\ UNCHANGED <<exited, loc_info>>
           /\ smf'[w].typ = smf[w].typ /\ smf'[w].guti = smf[w].guti
           /\ smf'[w].imsi = smf[w].imsi
           /\ smf'[w].pc = "update" => smf[w].typ = "create"
           /\ \A x \in Workers \ {w} : smf'[x] = smf[x]
           /\ \/ UNCHANGED udm_ctx
              \/ /\ smf[w].typ = "create"
                 /\ \/ \E t : udm_ctx' = [udm_ctx EXCEPT ![smf[w].guti] =
                           [@ EXCEPT !.imsi = smf[w].imsi, !.s11_cteid_mme = t]]
                    \/ \E t, a, u, v : udm_ctx' = [udm_ctx EXCEPT ![smf[w].guti] =
                           [@ EXCEPT !.s11_cteid_sgw = t, !.ip_addr = a,
                                     !.s1_uteid_ul = u, !.tau_timer = v]]
<1>0. smf \in [Workers -> SmfStates] /\ smf[w] \in SmfStates
  BY DEF TypeOK, SmfTypeOK
<1> DEFINE Kept == /\ smf'[w].typ = smf[w].typ /\ smf'[w].guti = smf[w].guti
                   /\ smf'[w].imsi = smf[w].imsi
                   /\ smf'[w].pc = "update" => smf[w].typ = "create"
                   /\ \A x \in Workers \ {w} : smf'[x] = smf[x]
<1>a. ASSUME NEW c, NEW b, TakeAnswer(w, c, b) PROVE Kept
  <2>1. CASE smf[w].typ = "create"
    <3>1. smf' = [smf EXCEPT ![w] = [@ EXCEPT !.pc = "update", !.teid = c.teid,
                                              !.ip = c.ip, !.ul = c.ul]]
      BY <1>a, <2>1 DEF TakeAnswer
    <3>. QED  BY <1>0, <2>1, <3>1 DEF SmfStates
  <2>2. CASE smf[w].typ # "create"
    <3>1. smf[w].typ \in {"modify", "release"}
      BY <1>0, <2>2 DEF SmfStates, N4Types
    <3>2. PICK d : smf' = [smf EXCEPT ![w] = [@ EXCEPT !.pc = "done", !.res = d]]
      BY <1>a, <3>1 DEF TakeAnswer
    <3>. QED  BY <1>0, <3>2 DEF SmfStates
  <2>. QED  BY <2>1, <2>2
<1>1. CASE RequestCreate(w)
  <2>1. smf' = [smf EXCEPT ![w].pc = "wait"] /\ smf[w].pc = "call"
        /\ smf[w].typ = "create" /\ UNCHANGED <<exited, loc_info>>
    BY <1>1 DEF RequestCreate, RequestSmfCreateSession
  <2>2. \E t : udm_ctx' = [udm_ctx EXCEPT ![smf[w].guti] =
                           [@ EXCEPT !.imsi = smf[w].imsi, !.s11_cteid_mme = t]]
    BY <1>1 DEF RequestCreate, RequestSmfCreateSession
  <2>3. Kept
    BY <1>0, <2>1 DEF SmfStates
  <2>. QED  BY <2>1, <2>2, <2>3
<1>2. CASE RequestModify(w) \/ RequestRelease(w)
  <2>1. /\ \E a : smf' = [smf EXCEPT ![w] = [@ EXCEPT !.pc = "wait", !.asked = a]]
        /\ smf[w].pc = "call" /\ UNCHANGED <<exited, udm_ctx, loc_info>>
    BY <1>2 DEF RequestModify, RequestRelease, udmVars
  <2>2. Kept
    BY <1>0, <2>1 DEF SmfStates
  <2>. QED  BY <2>1, <2>2
<1>3. CASE RcvAnswer(w) \/ RcvTimeout(w)
  <2>1. /\ \E c, b : TakeAnswer(w, c, b)
        /\ smf[w].pc = "wait" /\ UNCHANGED <<exited, udm_ctx, loc_info>>
    BY <1>3 DEF RcvAnswer, RcvTimeout, udmVars
  <2>2. Kept
    BY <1>a, <2>1
  <2>. QED  BY <2>1, <2>2
<1>4. CASE UpdateCreate(w)
  <2>1. /\ \E t, r : smf' = [smf EXCEPT ![w] =
                        [@ EXCEPT !.pc = "done", !.res = TRUE, !.teid = t,
                                  !.tau_timer = r]]
        /\ smf[w].pc = "update" /\ UNCHANGED <<exited, loc_info>>
    BY <1>4 DEF UpdateCreate, UpdateSmfCreateSession
  <2>2. \E t, a, u, v : udm_ctx' = [udm_ctx EXCEPT ![smf[w].guti] =
                           [@ EXCEPT !.s11_cteid_sgw = t, !.ip_addr = a,
                                     !.s1_uteid_ul = u, !.tau_timer = v]]
    BY <1>4 DEF UpdateCreate, UpdateSmfCreateSession
  <2>3. Kept
    BY <1>0, <2>1 DEF SmfStates
  <2>. QED  BY <2>1, <2>2, <2>3
<1>. QED  BY <1>1, <1>2, <1>3, <1>4 DEF SmfWorker

\* The AMF's handler waits for the answer, and its subscriber for the handler:
\* what a create writes at the UDM nobody relies on yet.
LEMMA SmfStepAgrees ==
    ASSUME TypeOK, Placement, Agreement, NEW w \in Workers, SmfStep(w)
    PROVE  Agreement'
<1>0. /\ SmfWorker(w) /\ UNCHANGED <<ran, up, down, s1amf_id, amf>>
      /\ amf[w].ue \in Ues /\ ServiceOK(w) /\ smf[w] \in SmfStates
      /\ udm_ctx \in [Imsis -> UdmContexts]
  BY AmfStateType DEF SmfStep, linkVars, amfVars, ranVars, TypeOK, Agreement, SmfTypeOK,
                      UdmTypeOK
<1>1. PICK n \in Ues : n = amf[w].ue
  BY <1>0
<1>2. smf[w].pc # "idle"
  BY <1>0 DEF SmfWorker, RequestCreate, RequestModify, RequestRelease, RcvAnswer,
              RcvTimeout, UpdateCreate
<1>3. /\ smf[w].guti = Guti(n) /\ smf[w].guti # 0
      /\ smf[w].pc = "update" => smf[w].typ = "create"
      /\ smf[w].typ = "create" => amf[w].pc = "session_end" /\ smf[w].imsi = Imsi(n)
      /\ amf[w].pc \in {"session_end", "modify_end", "detach_end"}
  BY <1>0, <1>1, <1>2, OwnFacts DEF ServiceOK, CallOK
<1>4. /\ UNCHANGED <<exited, loc_info>> /\ smf'[w].typ = smf[w].typ
      /\ smf'[w].guti = smf[w].guti /\ smf'[w].imsi = smf[w].imsi
      /\ smf'[w].pc = "update" => smf[w].typ = "create"
      /\ \A x \in Workers \ {w} : smf'[x] = smf[x]
      /\ \/ UNCHANGED udm_ctx
         \/ /\ smf[w].typ = "create"
            /\ \/ \E t : udm_ctx' = [udm_ctx EXCEPT ![smf[w].guti] =
                      [@ EXCEPT !.imsi = smf[w].imsi, !.s11_cteid_mme = t]]
               \/ \E t, a, u, v : udm_ctx' = [udm_ctx EXCEPT ![smf[w].guti] =
                      [@ EXCEPT !.s11_cteid_sgw = t, !.ip_addr = a,
                                !.s1_uteid_ul = u, !.tau_timer = v]]
  BY <1>0, <1>3, SmfCallKept
<1>5. \A g \in Imsis \ {Guti(n)} : udm_ctx'[g] = udm_ctx[g]
  BY <1>0, <1>3, <1>4
<1>6. \A m \in Ues \ {n} : Untouched(m)
  BY <1>0, <1>4, <1>5, OthersUntouched
<1>7. SubscriberOK(n) /\ SubscriberOK(n)'
  <2>1. SubscriberOK(n)
    BY DEF Agreement
  <2>2. CASE UNCHANGED udm_ctx
    <3>1. Untouched(n)
      BY <1>0, <1>4, <2>2 DEF Untouched
    <3>. QED  BY <2>1, <3>1, SubscriberFrame
  <2>3. CASE ~UNCHANGED udm_ctx
    <3>1. /\ ran[n].pc \in {"session", "failed"} /\ up[n] = <<>> /\ down[n] = <<>>
      BY <1>0, <1>1, <1>3, <1>4, <2>3
         DEF ServiceOK, WorkerOK, ServesSession, SessionPcs, Quiescent
    <3>2. /\ udm_ctx'[Guti(n)].imsi \in {Imsi(n), udm_ctx[Guti(n)].imsi}
          /\ udm_ctx'[Guti(n)].xres = udm_ctx[Guti(n)].xres
          /\ udm_ctx'[Guti(n)].k_asme = udm_ctx[Guti(n)].k_asme
          /\ udm_ctx'[Guti(n)].mme_s1ap_ue_id = udm_ctx[Guti(n)].mme_s1ap_ue_id
          /\ udm_ctx'[Guti(n)].k_nas_enc = udm_ctx[Guti(n)].k_nas_enc
          /\ udm_ctx'[Guti(n)].k_nas_int = udm_ctx[Guti(n)].k_nas_int
      <4>1. udm_ctx[Guti(n)] \in UdmContexts /\ Guti(n) \in Imsis
        BY <1>0, OwnFacts
      <4>2. CASE \E t : udm_ctx' = [udm_ctx EXCEPT ![smf[w].guti] =
                     [@ EXCEPT !.imsi = smf[w].imsi, !.s11_cteid_mme = t]]
        <5>1. PICK t : udm_ctx' = [udm_ctx EXCEPT ![smf[w].guti] =
                     [@ EXCEPT !.imsi = smf[w].imsi, !.s11_cteid_mme = t]]
          BY <4>2
        <5>2. udm_ctx'[Guti(n)] = [udm_ctx[Guti(n)] EXCEPT !.imsi = Imsi(n),
                                                           !.s11_cteid_mme = t]
          BY <1>0, <1>3, <1>4, <2>3, <4>1, <5>1
        <5>. QED  BY <4>1, <5>2 DEF UdmContexts
      <4>3. CASE \E t, a, u, v : udm_ctx' = [udm_ctx EXCEPT ![smf[w].guti] =
                     [@ EXCEPT !.s11_cteid_sgw = t, !.ip_addr = a,
                               !.s1_uteid_ul = u, !.tau_timer = v]]
        <5>1. PICK t, a, u, v : udm_ctx' = [udm_ctx EXCEPT ![smf[w].guti] =
                     [@ EXCEPT !.s11_cteid_sgw = t, !.ip_addr = a,
                               !.s1_uteid_ul = u, !.tau_timer = v]]
          BY <4>3
        <5>2. udm_ctx'[Guti(n)] = [udm_ctx[Guti(n)] EXCEPT
                   !.s11_cteid_sgw = t, !.ip_addr = a, !.s1_uteid_ul = u,
                   !.tau_timer = v]
          BY <1>0, <1>3, <4>1, <5>1
        <5>. QED  BY <4>1, <5>2 DEF UdmContexts
      <4>. QED  BY <1>4, <2>3, <4>2, <4>3
    <3>3. UplinkOK(n)'
      <4>1. DOMAIN up'[n] = {}
        BY <1>0, <3>1
      <4>. QED
        BY <1>0, <1>4, <2>1, <3>1, <4>1
           DEF SubscriberOK, UplinkOK, UplinkShape, Running
    <3>4. DownlinkOK(n)' /\ IdOK(n)' /\ UeOK(n)'
      BY <1>0, <2>1, <3>1 DEF SubscriberOK, DownlinkOK, IdOK, IdInUse, HasAnId, UeOK
    <3>5. UdmOK(n)'
      BY <1>0, <2>1, <3>1, <3>2 DEF SubscriberOK, UdmOK, HasAnId, Challenged
    <3>. QED  BY <2>1, <3>3, <3>4, <3>5 DEF SubscriberOK
  <2>. QED  BY <2>2, <2>3
<1>8. ServiceOK(w)'
  <2>1. CallOK(w)'
    BY <1>0, <1>2, <1>4 DEF ServiceOK, CallOK
  <2>2. amf[w].pc = "session_end" => ServesSession(w, n)'
    BY <1>0, <1>1, <1>4
       DEF ServiceOK, WorkerOK, ServesSession, SessionPcs, Quiescent
  <2>3. amf[w].pc = "modify_end" => ServesComplete(w, n)'
    BY <1>0, <1>1 DEF ServiceOK, WorkerOK, ServesComplete, CompletePcs
  <2>4. amf[w].pc = "detach_end" => ServesDetach(w, n)'
    BY <1>0, <1>1 DEF ServiceOK, WorkerOK, ServesDetach, DetachPcs, Quiescent
  <2>5. WorkerOK(w)'
    BY <1>0, <1>1, <1>3, <1>4, <2>2, <2>3, <2>4
       DEF ServiceOK, WorkerOK, AttachPcs, AutnPcs, SessionPcs, CompletePcs, DetachPcs,
           RemPcs, Running
  <2>. QED  BY <2>1, <2>5 DEF ServiceOK
<1>9. n \in ToSet(conns[w]) /\ OnlyUpfExits'
  BY <1>1, <1>3, <1>4 DEF Placement, ServesOwn, Agreement, OnlyUpfExits
<1>. QED  BY <1>0, <1>1, <1>4, <1>6, <1>7, <1>8, <1>9, OneWorker

----------------------------------------------------------------------------
(* The invariant                                                           *)

\* A step of the UPF ends no process but the UPF.
LEMMA UpfExits ==
    ASSUME NEW t, UpfThread(t)
    PROVE  UNCHANGED exited \/ exited' = exited \cup {"upf"}
BY DEF UpfThread, UpfReceive, UpfSend, CreateS11, CreateS1, CreateSgi, CreateContext,
       UpfLookup, ModifyContext, DetachContext, DetachS11, DetachS1, DetachSgi,
       RemUpfContext, Exit

\* Every step of the core keeps the agreement, while the counter has not wrapped.
LEMMA AgreementStep ==
    ASSUME TypeOK, Placement, FreshIds, Agreement, NoWrap', [Next]_vars
    PROVE  Agreement'
<1>a. ASSUME OnlyUpfExits', exited \subseteq exited',
             UNCHANGED <<udmVars, smfVars, linkVars, amfVars, ranVars>>
      PROVE  Agreement'
  BY <1>a, NobodyTouched DEF udmVars, smfVars, linkVars, amfVars, ranVars
<1>b. UNCHANGED exited \/ exited' = exited \cup {"upf"} => OnlyUpfExits'
  BY DEF Agreement, OnlyUpfExits
<1>1. ASSUME NEW n \in Ues, RanStep(n) PROVE Agreement'
  BY <1>1, RanStepAgrees
<1>2. CASE AcceptStep
  BY <1>2, <1>a, <1>b DEF AcceptStep, Accept, smfVars, linkVars
<1>3. ASSUME NEW w \in Workers, AmfStep(w) PROVE Agreement'
  BY <1>3, AmfStepAgrees
<1>4. ASSUME NEW w \in Workers, SmfStep(w) PROVE Agreement'
  BY <1>4, SmfStepAgrees
<1>5. ASSUME NEW t \in UpfThreads, UpfStep(t) PROVE Agreement'
  <2>1. UNCHANGED exited \/ exited' = exited \cup {"upf"}
    BY <1>5, UpfExits DEF UpfStep
  <2>. QED  BY <1>5, <1>a, <1>b, <2>1 DEF UpfStep
<1>6. CASE Lose
  BY <1>6, <1>a, <1>b DEF Lose, LoseRequest, LoseReply
<1>7. CASE AmfCrash
  <2>1. OnlyUpfExits' /\ exited \subseteq exited'
    BY <1>7 DEF AmfCrash, Exit, Agreement, OnlyUpfExits
  <2>. QED  BY <1>7, <1>a, <2>1 DEF AmfCrash
<1>8. CASE UNCHANGED vars
  BY <1>8, <1>a, <1>b DEF vars
<1>. QED  BY <1>1, <1>2, <1>3, <1>4, <1>5, <1>6, <1>7, <1>8 DEF Next, Finished

\* At the start nobody has said anything.
LEMMA AgreementInit == Init => Agreement
<1>. SUFFICES ASSUME Init PROVE Agreement
  OBVIOUS
<1>0. /\ \A n \in Ues : /\ ran[n] = NewRan /\ up[n] = <<>> /\ down[n] = <<>>
      /\ \A w \in Workers : amf[w] = IdleAmf /\ smf[w] = IdleSmf
      /\ exited = {}
  BY DEF Init, RanInit, ServerInit, AmfInit, SmfInit
<1>1. ASSUME NEW n \in Ues PROVE SubscriberOK(n)
  <2>1. ran[n].pc = "connect" /\ DOMAIN up[n] = {}
    BY <1>0 DEF NewRan
  <2>. QED
    BY <1>0, <2>1 DEF SubscriberOK, UplinkOK, UplinkShape, DownlinkOK, IdOK, IdInUse,
                      UeOK, UdmOK, HasAnId, Challenged
<1>2. ASSUME NEW w \in Workers PROVE ServiceOK(w)
  BY <1>0 DEF ServiceOK, WorkerOK, CallOK, IdleAmf, IdleSmf, AttachPcs, AutnPcs,
              SessionPcs, CompletePcs, DetachPcs, RemPcs
<1>. QED  BY <1>0, <1>1, <1>2 DEF Agreement, OnlyUpfExits

\* The counter only grows, so what has not wrapped now had not wrapped before.
LEMMA WrapsOnce ==
    ASSUME TypeOK, [Next]_vars, NoWrap'
    PROVE  NoWrap
<1>0. ue_count \in Nat /\ IdSpace \in Nat
  BY DEF TypeOK, AmfTypeOK
<1>1. ue_count' \in {ue_count, ue_count + 1}
  BY IdSteps DEF InitialAttach
<1>. QED  BY <1>0, <1>1 DEF NoWrap

\* The invariant is inductive, given the types and the fresh ids.
LEMMA ConvStep == TypeOK /\ FreshIds /\ ConvInv /\ [Next]_vars => ConvInv'
  BY PlacementStep, AgreementStep, WrapsOnce DEF ConvInv

\* The invariant behind IdNeverReused, in every reachable state: the ids the
\* counter (amf.cpp:166) has not come to yet are not in use.
THEOREM NextIdsFree == Spec => []FreshIds
<1>1. TypeOK /\ FreshIds /\ [Next]_vars => FreshIds'
  BY FreshIdsStep
<1>. QED  BY <1>1, FreshIdsInit, TypeCorrect, PTL DEF Spec

\* The conversation: a subscriber, the streams of its connection and the worker
\* that serves it agree at every step of attach and detach (amf.cpp, handle_ue
\* to rem_uectx; ran.cpp; the calls of smf.cpp and udm.cpp between them).
THEOREM ConversationAgrees == Spec => []ConvInv
<1>1. Init => ConvInv
  BY PlacementInit, AgreementInit DEF ConvInv
<1>2. TypeOK /\ FreshIds /\ ConvInv /\ [Next]_vars => ConvInv'
  BY ConvStep
<1>. QED  BY <1>1, <1>2, TypeCorrect, NextIdsFree, PTL DEF Spec

----------------------------------------------------------------------------
(* What the runs check on small instances, for every number of subscribers, *)
(* of workers, of threads, of losses and of timeouts                        *)

\* Every id the simulator may still send leads the AMF to its own subscriber
\* (amf.cpp:166 to rem_itfid), until the counter has gone round once.
THEOREM BindingSound == Spec => [](NoWrap => AmfBindingSound)
<1>1. ConvInv => (NoWrap => AmfBindingSound)
  BY DEF ConvInv, Agreement, SubscriberOK, IdOK, IdInUse, AmfBindingSound
<1>. QED  BY <1>1, ConversationAgrees, PTL

\* The comment at amf.cpp:1156 is true: the GUTI inside a detach request is the
\* one its header's id leads to.
THEOREM DetachGuti == Spec => [](NoWrap => DetachGutiMatches)
<1>1. TypeOK /\ ConvInv => (NoWrap => DetachGutiMatches)
  BY DEF ConvInv, Agreement, ServiceOK, WorkerOK, DetachPcs, ServesDetach, GutiOf,
         DetachGutiMatches
<1>. QED  BY <1>1, ConversationAgrees, TypeCorrect, PTL

\* Both ends hold the same NAS keys from the security mode command on
\* (ran.cpp, authenticate; udm.cpp, the two key handlers).
THEOREM KeysAgree == Spec => [](NoWrap => KeyAgreement)
<1>1. ConvInv => (NoWrap => KeyAgreement)
  BY DEF ConvInv, Agreement, SubscriberOK, UeOK, UdmOK, KeyAgreement
<1>. QED  BY <1>1, ConversationAgrees, PTL

\* The UDM's record of a session is the one the simulator was given, whatever
\* was lost or late on the way to the UPF.
THEOREM UdmAgrees == Spec => [](NoWrap => UdmAgreesWithUe)
<1>1. ConvInv => (NoWrap => UdmAgreesWithUe)
  BY DEF ConvInv, Agreement, SubscriberOK, UdmOK, HasAnId, HasSession, UdmAgreesWithUe
<1>. QED  BY <1>1, ConversationAgrees, PTL

\* No assertion of the AMF, the SMF, the AUSF or the UDM ever ends it: the UPF
\* alone asserts what a lost or a late datagram can make false.
THEOREM OthersNeverExit == Spec => [](NoWrap => OnlyUpfExits)
<1>1. ConvInv => (NoWrap => OnlyUpfExits)
  BY DEF ConvInv, Agreement
<1>. QED  BY <1>1, ConversationAgrees, PTL
=============================================================================
