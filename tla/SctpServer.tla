----------------------------- MODULE SctpServer -----------------------------
(***************************************************************************)
(* The N2 server of the AMF.  One thread accepts connections and hands     *)
(* them to the workers in turn, through a pipe; each worker waits in       *)
(* select for its pipe and its connections and serves the readable ones in *)
(* the order it got them.  A connection belongs to one worker for ever.    *)
(*                                                                         *)
(* A connection is named by the simulator thread that opened it; each is a *)
(* pair of reliable FIFO streams.                                          *)
(***************************************************************************)
EXTENDS Platform, SequencesExt

VARIABLES
    backlog,    \* connections waiting for accept
    turn,       \* accept_clients: the worker that gets the next connection
    pipe,       \* connections on their way to each worker
    conns,      \* conn_fds of each worker, in its order
    ready,      \* descriptors of the current round of select not yet served
    closed,     \* connections whose client end is closed
    up, down    \* the streams: to the AMF, to the simulator

serverVars == <<backlog, turn, pipe, conns, ready>>
linkVars == <<closed, up, down>>

\* S1AP messages: header fields msg_type and mme_s1ap_ue_id, and the items of
\* the body the receiver uses.
\* The body of a message to the AMF by its type: the IMSI, the response to the
\* challenge, a Boolean as a number, the downlink teid, the GUTI; of a handover,
\* 7 and 10, the number of a RAN or a teid.  Type 6 does not exist, 8 and 9 come
\* from the target of a handover.
UplinkBody == <<Imsis, Nat, {0, 1}, Teids, {0} \cup Imsis,
                {}, Teids, {}, {}, Teids>>
UplinkMessages ==
    {m \in [typ : 1 .. 10, mme : MmeIds, arg : Nat] : m.arg \in UplinkBody[m.typ]}
DownlinkMessages == [typ : {1, 2, 3, 5}, mme : MmeIds, guti : {0} \cup Imsis,
                     autn : Nat, rand_num : Nat, ul : Teids, ip : Addresses]

ServerInit ==
    /\ backlog = <<>>
    /\ turn = 0
    /\ pipe = [w \in Workers |-> <<>>]
    /\ conns = [w \in Workers |-> <<>>]
    /\ ready = [w \in Workers |-> {}]
    /\ closed = {}
    /\ up = [n \in Ues |-> <<>>]
    /\ down = [n \in Ues |-> <<>>]

Readable(n) == up[n] # <<>> \/ n \in closed

\* Mutation: the turn does not wrap around.
AcceptNoWrap ==
    /\ Running("amf")
    /\ backlog # <<>>
    /\ backlog' = Tail(backlog)
    /\ pipe' = [pipe EXCEPT ![turn] = Append(@, Head(backlog))]
    /\ turn' = turn + 1
    /\ UNCHANGED <<conns, ready, linkVars>>

\* accept_clients: one connection to the worker whose turn it is.
Accept ==
    /\ Running("amf")
    /\ backlog # <<>>
    /\ backlog' = Tail(backlog)
    /\ pipe' = [pipe EXCEPT ![turn] = Append(@, Head(backlog))]
    /\ turn' = (turn + 1) % WorkerCount
    /\ UNCHANGED <<conns, ready, linkVars>>

\* worker_func: a round of select.  The number of connections to look at is
\* fixed before the pipe is read, so a new one waits for the next round.
Select(w) ==
    /\ Running("amf")
    /\ ready[w] = {}
    /\ LET readable == {n \in ToSet(conns[w]) : Readable(n)}
       IN  /\ pipe[w] # <<>> \/ readable # {}
           /\ ready' = [ready EXCEPT ![w] = readable]
    /\ IF pipe[w] = <<>>
       THEN UNCHANGED <<pipe, conns>>
       ELSE /\ conns' = [conns EXCEPT ![w] = Append(@, Head(pipe[w]))]
            /\ pipe' = [pipe EXCEPT ![w] = Tail(@)]
    /\ UNCHANGED <<backlog, turn, linkVars>>

\* The loop over conn_fds comes to descriptor i next, of connection n.
IsNext(w, i, n) ==
    /\ i \in DOMAIN conns[w]
    /\ n = conns[w][i] /\ n \in ready[w]
    /\ \A j \in 1 .. (i - 1) : conns[w][j] \notin ready[w]

Served(w, n) == ready' = [ready EXCEPT ![w] = @ \ {n}]

\* Mutation: the closed descriptor stays in conn_fds.
CloseConnKept(w, i, n) ==
    /\ Running("amf")
    /\ IsNext(w, i, n)
    /\ up[n] = <<>>
    /\ Served(w, n)
    /\ UNCHANGED <<backlog, turn, pipe, conns, linkVars>>

\* handle_ue reads end of file and returns 0: close and forget the connection.
CloseConn(w, i, n) ==
    /\ Running("amf")
    /\ IsNext(w, i, n)
    /\ up[n] = <<>>
    /\ conns' = [conns EXCEPT ![w] = RemoveAt(@, i)]
    /\ Served(w, n)
    /\ UNCHANGED <<backlog, turn, pipe, linkVars>>

ServerTypeOK ==
    /\ backlog \in Seq(Ues)
    /\ turn \in Workers
    /\ pipe \in [Workers -> Seq(Ues)]
    /\ conns \in [Workers -> Seq(Ues)]
    /\ ready \in [Workers -> SUBSET Ues]
    /\ closed \subseteq Ues
    /\ up \in [Ues -> Seq(UplinkMessages)]
    /\ down \in [Ues -> Seq(DownlinkMessages)]
=============================================================================
