-------------------------------- MODULE Rmi ---------------------------------
(***************************************************************************)
(* The RMI of qvi-rmi.cc: the server (quo-vadisd), its service loop and    *)
(* its RPCs, and the sockets of its clients.                               *)
(*                                                                         *)
(* ZeroMQ is external.  A ZMQ_REQ socket alternates strictly between       *)
(* sending and receiving.  A request waits in the client's pipe until the  *)
(* server is reachable, even across a restart of the server, and from then *)
(* on in the server's socket, where it is lost when the server stops.  The *)
(* server closes with a linger period of 0, so replies may be lost too.    *)
(***************************************************************************)
EXTENDS Integers, FiniteSets

CONSTANTS
    Clients,      \* the qvi_rmi_client objects
    Threads,      \* threads of the node's processes, named by their IDs
    Cpusets,      \* the cpusets in use
    Refused,      \* cpusets the OS does not bind to, the empty one for instance
    Outdated,     \* clients whose version is not the server's
    MayStall,     \* can a server that is up take longer than the timeout?
    MaxStarts     \* bound on the number of times the server is started

ASSUME RmiAssumption ==
    /\ Refused \subseteq Cpusets /\ Outdated \subseteq Clients
    /\ MayStall \in BOOLEAN /\ MaxStarts \in Nat \ {0}

VARIABLES
    zsock,     \* client -> what its socket does next: "none", "send", "recv", "closed"
    pipe,      \* client -> the request in its pipe
    inbox,     \* client -> its request in the server's socket
    reply,     \* client -> the reply on its way back
    server,    \* where the server is in its loop: "check", "poll", or "down"
    signaled,  \* g_server_shutdown_signaled
    nstarts,   \* number of times the server was started
    cpubind    \* thread -> the cpuset the OS binds it to

sockets == <<zsock, pipe>>
daemon == <<server, signaled, nstarts>>
rmi_vars == <<zsock, pipe, inbox, reply, server, signaled, nstarts, cpubind>>

Fids == {"HELLO", "GET_CPUBIND", "SET_CPUBIND", "QUERY", "SERVER_SHUTDOWN"}
NoCpuset == "no cpuset"
NoMsg == [fid |-> "NONE"]
Request(fid, who, cpuset) == [fid |-> fid, who |-> who, cpuset |-> cpuset]
Reply(fid, rc, cpuset) == [fid |-> fid, rc |-> rc, cpuset |-> cpuset]
Codes == {"SUCCESS", "ERR", "ERR_RPC", "ERR_NOT_SUPPORTED", "RES_UNAVAILABLE"}

RmiInit ==
    /\ zsock = [c \in Clients |-> "none"]
    /\ pipe = [c \in Clients |-> NoMsg]
    /\ inbox = [c \in Clients |-> NoMsg]
    /\ reply = [c \in Clients |-> NoMsg]
    /\ server = "check" /\ signaled = FALSE /\ nstarts = 1
    /\ cpubind \in [Threads -> Cpusets \ Refused]

-----------------------------------------------------------------------------
(* The client's side.                                                      *)

(* The socket has ZMQ_REQ_RELAXED set: it sends whatever it waits for. *)
Faulty_can_send(c) == zsock[c] \in {"send", "recv"}

(* zmq_send() fails with EFSM while the socket waits for a reply. *)
can_send(c) == zsock[c] = "send"

(* zmq_send() of a packed request. *)
rpc_req(c, msg) ==
    /\ zsock' = [zsock EXCEPT ![c] = "recv"]
    /\ pipe' = [pipe EXCEPT ![c] = msg]

(* zmq_msg_recv() returns a reply. *)
Received(c) ==
    /\ zsock[c] = "recv" /\ reply[c] # NoMsg
    /\ reply' = [reply EXCEPT ![c] = NoMsg]

(* The socket has no ZMQ_RCVTIMEO: it waits for as long as it takes. *)
Faulty_recv_blocks(c) == FALSE

(* zmq_msg_recv() fails with EAGAIN after ZMQ_RCVTIMEO milliseconds.  The  *)
(* socket still waits for the reply.                                       *)
RecvTimesOut(c) ==
    /\ zsock[c] = "recv" /\ reply[c] = NoMsg
    /\ MayStall \/ server = "down"

(* The socket stays open. *)
Faulty_zsocket_close(c) == reply' = [reply EXCEPT ![c] = NoMsg] /\ UNCHANGED zsock

(* zmq_close(): the request in the pipe lingers, a late reply is dropped. *)
zsocket_close(c) ==
    /\ zsock' = [zsock EXCEPT ![c] = "closed"]
    /\ reply' = [reply EXCEPT ![c] = NoMsg]

(* The I/O thread of the client sends the request to the server. *)
Transmit(c) ==
    /\ server # "down" /\ pipe[c] # NoMsg
    /\ inbox' = [inbox EXCEPT ![c] = pipe[c]]
    /\ pipe' = [pipe EXCEPT ![c] = NoMsg]
    /\ UNCHANGED <<zsock, reply, daemon, cpubind>>

-----------------------------------------------------------------------------
(* The server's side.                                                      *)

(* SIGTERM, SIGINT or SIGHUP. *)
server_signal_handler ==
    /\ server # "down" /\ ~signaled
    /\ signaled' = TRUE
    /\ UNCHANGED <<sockets, inbox, reply, server, nstarts, cpubind>>

(* The loop is left and the server's socket closed: requests it has not    *)
(* read and replies it has not flushed are discarded.                      *)
StopsWith(replies) ==
    /\ server' = "down"
    /\ inbox' = [c \in Clients |-> NoMsg]
    /\ \E lost \in SUBSET Clients :
          reply' = [c \in Clients |-> IF c \in lost THEN NoMsg ELSE replies[c]]

(* The top of the loop in m_recv_msg. *)
CheckSignal ==
    /\ server = "check"
    /\ IF signaled
       THEN StopsWith(reply)
       ELSE server' = "poll" /\ UNCHANGED <<inbox, reply>>
    /\ UNCHANGED <<sockets, signaled, nstarts, cpubind>>

(* An interrupted poll is resumed without a look at the signal. *)
Faulty_poll_resumes ==
    /\ server = "poll"
    /\ \A c \in Clients : inbox[c] = NoMsg
    /\ UNCHANGED rmi_vars

(* zmq_poll() times out, or is interrupted by a signal. *)
PollAgain ==
    /\ server = "poll"
    /\ signaled \/ \A c \in Clients : inbox[c] = NoMsg
    /\ server' = "check"
    /\ UNCHANGED <<sockets, inbox, reply, signaled, nstarts, cpubind>>

(* The codes the RPCs answer with.  "QUERY" stands for the five that only  *)
(* ask about the node; what they tell matters to no property, except that  *)
(* they may refuse, as get_intrinsic_hwpool does for QV_SCOPE_SYSTEM.      *)
s_rpc_hello(c) == IF c \in Outdated THEN "ERR_NOT_SUPPORTED" ELSE "SUCCESS"
s_rpc_set_cpubind(m) == IF m.cpuset \in Refused THEN "ERR_NOT_SUPPORTED" ELSE "SUCCESS"
s_rpc_query == {"SUCCESS", "ERR_NOT_SUPPORTED"}

(* What the server may pack for request m of client c. *)
Answers(c, m) ==
    CASE m.fid = "HELLO"       -> {Reply(m.fid, s_rpc_hello(c), NoCpuset)}
      [] m.fid = "GET_CPUBIND" -> {Reply(m.fid, "SUCCESS", cpubind[m.who])}
      [] m.fid = "SET_CPUBIND" -> {Reply(m.fid, s_rpc_set_cpubind(m), NoCpuset)}
      [] m.fid = "QUERY"       -> {Reply(m.fid, code, NoCpuset) : code \in s_rpc_query}
      [] m.fid = "SERVER_SHUTDOWN" -> {Reply(m.fid, "SUCCESS", NoCpuset)}

(* task_set_cpubind_from_cpuset: the effect a request has on the node. *)
Effect(m) ==
    IF m.fid = "SET_CPUBIND" /\ m.cpuset \notin Refused
    THEN cpubind' = [cpubind EXCEPT ![m.who] = m.cpuset]
    ELSE UNCHANGED cpubind

(* The reply to a client that has closed its socket goes nowhere. *)
Sent(c, answer) ==
    IF zsock[c] = "closed" THEN reply ELSE [reply EXCEPT ![c] = answer]

(* m_rpc_dispatch of a request that zmq_poll() announced.  A shutdown      *)
(* request is answered, and then ends the loop.                            *)
m_rpc_dispatch(c) ==
    /\ server = "poll" /\ inbox[c] # NoMsg
    /\ Effect(inbox[c])
    /\ \E answer \in Answers(c, inbox[c]) :
          IF inbox[c].fid = "SERVER_SHUTDOWN"
          THEN StopsWith(Sent(c, answer))
          ELSE /\ server' = "check"
               /\ inbox' = [inbox EXCEPT ![c] = NoMsg]
               /\ reply' = Sent(c, answer)
    /\ UNCHANGED <<sockets, signaled, nstarts>>

(* A new server is started on the same port. *)
start ==
    /\ server = "down" /\ nstarts < MaxStarts
    /\ server' = "check" /\ signaled' = FALSE /\ nstarts' = nstarts + 1
    /\ UNCHANGED <<sockets, inbox, reply, cpubind>>

ServerLoop == CheckSignal \/ PollAgain \/ \E c \in Clients : m_rpc_dispatch(c)

-----------------------------------------------------------------------------
RmiTypeOK ==
    /\ zsock \in [Clients -> {"none", "send", "recv", "closed"}]
    /\ LET Requests == [fid : Fids, who : Threads, cpuset : Cpusets \cup {NoCpuset}]
       IN  pipe \in [Clients -> Requests \cup {NoMsg}]
           /\ inbox \in [Clients -> Requests \cup {NoMsg}]
    /\ reply \in [Clients -> {NoMsg} \cup
                     [fid : Fids, rc : Codes, cpuset : Cpusets \cup {NoCpuset}]]
    /\ server \in {"check", "poll", "down"} /\ signaled \in BOOLEAN
    /\ nstarts \in 1..MaxStarts
    /\ cpubind \in [Threads -> Cpusets \ Refused]

(* A client and the server are never at cross purposes: at most one        *)
(* request or reply of a client exists, and none while its socket is ready *)
(* to send.  (The strict alternation that lets rpc_rep take the next reply *)
(* for the answer to the last request.)                                    *)
OneOutstanding ==
    \A c \in Clients :
        LET messages == {q \in {"pipe", "inbox", "reply"} :
                           CASE q = "pipe"  -> pipe[c] # NoMsg
                             [] q = "inbox" -> inbox[c] # NoMsg
                             [] q = "reply" -> reply[c] # NoMsg}
        IN  /\ Cardinality(messages) <= 1
            /\ zsock[c] \in {"none", "send"} => messages = {}
            /\ zsock[c] = "closed" => reply[c] = NoMsg

(* A server that was told to stop leaves its loop, whatever its clients do *)
(* (the poll's timeout of 1000 ms, the continue after EINTR).              *)
ShutdownHonoured == signaled ~> server = "down"

=============================================================================
