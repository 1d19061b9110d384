-------------------------------- MODULE Task --------------------------------
(***************************************************************************)
(* qvi_task: a client of the server that binds the thread that uses it and *)
(* keeps the stack of the bindings it has made.  Every scope of a process  *)
(* has a group, and every process or MPI group a task of its own, so one   *)
(* thread uses as many tasks as it has scopes, one call at a time.         *)
(***************************************************************************)
EXTENDS Rmi, Sequences, SequencesExt

CONSTANTS
    owner,     \* task -> the thread that creates and uses it
    pool,      \* task -> the cpuset of the scope it belongs to
    Admins,    \* clients that may ask the server to shut down
    MaxOps     \* task -> bound on the number of calls on it

Tasks == Clients

ASSUME TaskAssumption ==
    /\ owner \in [Tasks -> Threads] /\ pool \in [Tasks -> Cpusets]
    /\ Admins \subseteq Tasks /\ MaxOps \in [Tasks -> Nat]

VARIABLES
    pc,           \* task -> where the call on it is
    m_stack,      \* task -> its bind stack
    m_connected,  \* task -> the client's flag
    rc,           \* task -> what the last call on it returned
    nops,         \* task -> number of calls made on it
    nesting       \* thread -> the pushes it has not popped yet and the binding
                  \* each of them replaced (history)

task_vars == <<pc, m_stack, m_connected, rc, nops, nesting>>
vars == <<rmi_vars, task_vars>>
not_sockets == <<inbox, daemon, cpubind>>

Init ==
    /\ RmiInit
    /\ pc = [t \in Tasks |-> "new"]
    /\ m_stack = [t \in Tasks |-> <<>>]
    /\ m_connected = [t \in Tasks |-> FALSE]
    /\ rc = [t \in Tasks |-> "SUCCESS"]
    /\ nops = [t \in Tasks |-> 0]
    /\ nesting = [h \in Threads |-> <<>>]

Waiting == {"hello", "init", "push", "pop", "query"}
Goto(t, label) == pc' = [pc EXCEPT ![t] = label]
Return(t, label, code) == Goto(t, label) /\ rc' = [rc EXCEPT ![t] = code]
bind_top(t) == Last(m_stack[t])

(* The thread of the task is not inside another call of the library. *)
Free(t) == \A u \in Tasks : owner[u] = owner[t] => pc[u] \notin Waiting \cup {"closing"}

(* The application calls an operation of the task. *)
Called(t) ==
    /\ pc[t] = "idle" /\ Free(t) /\ nops[t] < MaxOps[t]
    /\ nops' = [nops EXCEPT ![t] = @ + 1]

(* rpc_req fails at once, or the call goes on to wait for the reply. *)
Requests(t, label, msg) ==
    \/ /\ can_send(t)
       /\ rpc_req(t, msg)
       /\ Goto(t, label)
       /\ UNCHANGED <<reply, not_sockets, rc>>
    \/ /\ ~can_send(t)
       /\ Return(t, "idle", "ERR_RPC")
       /\ UNCHANGED rmi_vars

(* rpc_rep returns code: the one in the reply, or that of the timeout. *)
Replied(t, code) ==
    \/ Received(t) /\ code = reply[t].rc
    \/ RecvTimesOut(t) /\ code = "ERR_RPC" /\ UNCHANGED reply

(* The socket may send again once it has received. *)
AfterReply(t) == IF reply[t] # NoMsg THEN "send" ELSE "recv"

-----------------------------------------------------------------------------
(* No session of a server is discovered; the constructor of a group throws. *)
DiscoveryFails(t) ==
    /\ pc[t] = "new" /\ Free(t) /\ server = "down"
    /\ Return(t, "gone", "RES_UNAVAILABLE")
    /\ UNCHANGED <<rmi_vars, m_stack, m_connected, nops, nesting>>

(* The constructor of a group connects its task to the server.             *)
connect_to_server(t) ==
    /\ pc[t] = "new" /\ Free(t)
    /\ zsock' = [zsock EXCEPT ![t] = "recv"]
    /\ pipe' = [pipe EXCEPT ![t] = Request("HELLO", owner[t], NoCpuset)]
    /\ Goto(t, "hello")
    /\ UNCHANGED <<reply, not_sockets, m_stack, m_connected, rc, nops, nesting>>

(* A failed hello: the group's constructor throws.  The destructor of a    *)
(* client that is not connected leaves the socket as it is.                *)
HelloFails(t, code) ==
    /\ code # "SUCCESS"
    /\ Return(t, "gone", code)
    /\ zsock' = [zsock EXCEPT ![t] = AfterReply(t)]
    /\ UNCHANGED <<pipe, m_connected>>

(* The topology cannot be loaded when the server that answered has stopped *)
(* and taken its file away, whether or not another one is up since (the    *)
(* model does not tell which one answered): the constructor throws and the *)
(* client is destroyed.                                                    *)
TopologyFails(t) ==
    /\ server = "down" \/ nstarts > 1
    /\ Return(t, "closing", "RES_UNAVAILABLE")
    /\ zsock' = [zsock EXCEPT ![t] = "closed"]
    /\ m_connected' = [m_connected EXCEPT ![t] = TRUE]
    /\ UNCHANGED pipe

(* The hello succeeds; m_init_bind_stack asks for the current binding. *)
HelloSucceeds(t) ==
    /\ rpc_req(t, Request("GET_CPUBIND", owner[t], NoCpuset))
    /\ m_connected' = [m_connected EXCEPT ![t] = TRUE]
    /\ Goto(t, "init")
    /\ UNCHANGED rc

HelloReturns(t) ==
    /\ pc[t] = "hello"
    /\ \E code \in Codes :
          /\ Replied(t, code)
          /\ \/ HelloFails(t, code)
             \/ code = "SUCCESS" /\ (TopologyFails(t) \/ HelloSucceeds(t))
    /\ UNCHANGED <<not_sockets, m_stack, nops, nesting>>

(* The bitmap is pushed whether or not the server has filled it in. *)
Faulty_init_ignores_code(t) ==
    /\ pc[t] = "init"
    /\ \E code \in Codes : Replied(t, code) /\ Return(t, "idle", code)
    /\ zsock' = [zsock EXCEPT ![t] = AfterReply(t)]
    /\ m_stack' = [m_stack EXCEPT ![t] =
                     Append(@, IF reply[t] # NoMsg THEN reply[t].cpuset ELSE NoCpuset)]
    /\ UNCHANGED <<pipe, not_sockets, m_connected, nops, nesting>>

(* The current binding becomes the bottom of the stack; without it the     *)
(* constructor throws and the client is destroyed.                         *)
m_init_bind_stack(t) ==
    /\ pc[t] = "init"
    /\ \/ /\ Received(t) /\ reply[t].rc = "SUCCESS"
          /\ zsock' = [zsock EXCEPT ![t] = "send"]
          /\ m_stack' = [m_stack EXCEPT ![t] = Append(@, reply[t].cpuset)]
          /\ Return(t, "idle", "SUCCESS")
       \/ /\ RecvTimesOut(t)
          /\ zsocket_close(t)
          /\ Return(t, "closing", "ERR_RPC")
          /\ UNCHANGED m_stack
    /\ UNCHANGED <<pipe, not_sockets, m_connected, nops, nesting>>

-----------------------------------------------------------------------------
(* History: the thread's pushes, while they nest. *)
Pushes(t) == nesting' = [nesting EXCEPT ![owner[t]] =
                           Append(@, [task |-> t, over |-> cpubind[owner[t]]])]
Unpushes(t) == nesting' = [nesting EXCEPT ![owner[t]] = IF @ = <<>> THEN @ ELSE Front(@)]
Unnests(t) == nesting' = [nesting EXCEPT ![owner[t]] = <<>>]
IsInnermost(t) == nesting[owner[t]] # <<>> /\ Last(nesting[owner[t]]).task = t

bind_push(t) ==
    /\ Called(t)
    /\ Requests(t, "push", Request("SET_CPUBIND", owner[t], pool[t]))
    /\ IF can_send(t) THEN Pushes(t) ELSE UNCHANGED nesting
    /\ UNCHANGED <<m_stack, m_connected>>

(* The cpuset is on the stack even when the server did not bind to it. *)
Faulty_push_returns(t) ==
    /\ pc[t] = "push"
    /\ \E code \in Codes : Replied(t, code) /\ Return(t, "idle", code)
    /\ zsock' = [zsock EXCEPT ![t] = AfterReply(t)]
    /\ m_stack' = [m_stack EXCEPT ![t] = Append(@, pool[t])]
    /\ UNCHANGED <<pipe, not_sockets, m_connected, nops, nesting>>

(* The cpuset goes onto the stack once the server has bound the thread. *)
PushReturns(t) ==
    /\ pc[t] = "push"
    /\ \E code \in Codes :
          /\ Replied(t, code)
          /\ Return(t, "idle", code)
          /\ IF code = "SUCCESS"
             THEN m_stack' = [m_stack EXCEPT ![t] = Append(@, pool[t])] /\ UNCHANGED nesting
             ELSE UNCHANGED m_stack /\ Unpushes(t)
    /\ zsock' = [zsock EXCEPT ![t] = AfterReply(t)]
    /\ UNCHANGED <<pipe, not_sockets, m_connected, nops>>

(* The thread is bound to the cpuset that leaves the stack. *)
Faulty_bind_pop(t) ==
    /\ Called(t)
    /\ Len(m_stack[t]) > 1
    /\ m_stack' = [m_stack EXCEPT ![t] = Front(@)]
    /\ Requests(t, "pop", Request("SET_CPUBIND", owner[t], bind_top(t)))
    /\ UNCHANGED <<m_connected, nesting>>

(* The stack is popped first, whether or not its new top can be restored. *)
bind_pop(t) ==
    /\ Called(t)
    /\ m_stack' = [m_stack EXCEPT ![t] = IF @ = <<>> THEN @ ELSE Front(@)]
    /\ IF Len(m_stack[t]) > 1
       THEN Requests(t, "pop", Request("SET_CPUBIND", owner[t], Last(Front(m_stack[t]))))
       ELSE Return(t, "idle", "ERR") /\ UNCHANGED rmi_vars
    /\ IF Len(m_stack[t]) > 1 /\ can_send(t) THEN UNCHANGED nesting ELSE Unnests(t)
    /\ UNCHANGED m_connected

PopReturns(t) ==
    /\ pc[t] = "pop"
    /\ \E code \in Codes :
          /\ Replied(t, code)
          /\ Return(t, "idle", code)
          /\ IF code = "SUCCESS" /\ IsInnermost(t) THEN Unpushes(t) ELSE Unnests(t)
    /\ zsock' = [zsock EXCEPT ![t] = AfterReply(t)]
    /\ UNCHANGED <<pipe, not_sockets, m_stack, m_connected, nops>>

(* Any of the RPCs that only ask: get_intrinsic_hwpool, get_obj_depth,     *)
(* get_nobjs_in_cpuset, get_device_in_cpuset and get_cpuset_for_nobjs.     *)
query(t) ==
    /\ Called(t)
    /\ Requests(t, "query", Request("QUERY", owner[t], NoCpuset))
    /\ UNCHANGED <<m_stack, m_connected, nesting>>

QueryReturns(t) ==
    /\ pc[t] = "query"
    /\ \E code \in Codes : Replied(t, code) /\ Return(t, "idle", code)
    /\ zsock' = [zsock EXCEPT ![t] = AfterReply(t)]
    /\ UNCHANGED <<pipe, not_sockets, m_stack, m_connected, nops, nesting>>

(* The client does not wait for the reply to a shutdown message. *)
send_shutdown_message(t) ==
    /\ t \in Admins
    /\ Called(t)
    /\ \/ /\ can_send(t)
          /\ rpc_req(t, Request("SERVER_SHUTDOWN", owner[t], NoCpuset))
          /\ Return(t, "idle", "SUCCESS")
          /\ UNCHANGED <<reply, not_sockets>>
       \/ /\ ~can_send(t)
          /\ Return(t, "idle", "ERR_RPC")
          /\ UNCHANGED rmi_vars
    /\ UNCHANGED <<m_stack, m_connected, nesting>>

-----------------------------------------------------------------------------
(* The scope is freed: the client closes its socket and destroys its       *)
(* context, which waits until the socket is closed and the requests in the *)
(* pipe are gone.                                                          *)
destroy(t) ==
    /\ pc[t] = "idle" /\ Free(t)
    /\ Goto(t, "closing")
    /\ zsocket_close(t)
    /\ UNCHANGED <<pipe, not_sockets, m_stack, m_connected, rc, nops, nesting>>

zctx_destroy(t) ==
    /\ pc[t] = "closing"
    /\ zsock[t] = "closed" /\ pipe[t] = NoMsg
    /\ Goto(t, "gone")
    /\ UNCHANGED <<rmi_vars, m_stack, m_connected, rc, nops, nesting>>

(* The steps of a call that the application has made. *)
InCall(t) ==
    \/ HelloReturns(t) \/ m_init_bind_stack(t)
    \/ PushReturns(t) \/ PopReturns(t) \/ QueryReturns(t)
    \/ zctx_destroy(t)

Next ==
    \/ \E t \in Tasks :
          \/ DiscoveryFails(t) \/ connect_to_server(t) \/ bind_push(t) \/ bind_pop(t) \/ query(t)
          \/ send_shutdown_message(t) \/ destroy(t)
          \/ InCall(t)
    \/ /\ ServerLoop \/ start \/ server_signal_handler \/ \E t \in Tasks : Transmit(t)
       /\ UNCHANGED task_vars

Spec == Init /\ [][Next]_vars

(* A thread inside a call goes on (and its receive times out), the I/O     *)
(* threads transmit, and a server that is up runs its loop.  Nobody has to *)
(* call, to signal, or to start a server.                                  *)
FairSpec ==
    /\ Spec
    /\ \A t \in Tasks : WF_vars(InCall(t)) /\ WF_vars(Transmit(t) /\ UNCHANGED task_vars)
    /\ WF_vars(ServerLoop /\ UNCHANGED task_vars)

-----------------------------------------------------------------------------
TypeOK ==
    /\ RmiTypeOK
    /\ pc \in [Tasks -> Waiting \cup {"new", "idle", "closing", "gone"}]
    /\ m_stack \in [Tasks -> Seq(Cpusets)]
    /\ m_connected \in [Tasks -> BOOLEAN]
    /\ rc \in [Tasks -> Codes]
    /\ nops \in [Tasks -> Nat] /\ \A t \in Tasks : nops[t] <= MaxOps[t]
    /\ nesting \in [Threads -> Seq([task : Tasks, over : Cpusets])]

(* No other scope of the task's thread has a task of its own. *)
OnlyTask(t) == \A u \in Tasks \ {t} : owner[u] = owner[t] => pc[u] = "new"

(* The top of the stack, which qv_bind_string reports, is the binding the  *)
(* thread really has between two calls, whatever failed before: a refused  *)
(* push, an unmatched pop, a server that stopped and was started again.    *)
(* Except after a timeout (the socket never gets ready again), and if the  *)
(* thread has just one scope.                                              *)
TopIsBinding ==
    \A t \in Tasks :
        (pc[t] = "idle" /\ can_send(t) /\ m_stack[t] # <<>> /\ OnlyTask(t))
            => bind_top(t) = cpubind[owner[t]]

(* Stack semantics: popping the innermost push of a thread restores the    *)
(* binding that push replaced.                                             *)
PopRestores ==
    [][\A t \in Tasks :
         (pc[t] = "pop" /\ pc'[t] = "idle" /\ rc'[t] = "SUCCESS" /\ IsInnermost(t))
            => cpubind[owner[t]] = Last(nesting[owner[t]]).over]_vars

(* A call that waits for the server returns, even if the server is gone    *)
(* ("To avoid hangs in faulty connections, set a timeout").                *)
CallsReturn == \A t \in Tasks : pc[t] \in Waiting ~> pc[t] \notin Waiting

(* The destructor of a client returns, though a request that timed out may *)
(* still be in its pipe: unless the server stays down for ever, the pipe   *)
(* is emptied, be it by a later server.                                    *)
DestroyReturns ==
    \A t \in Tasks : pc[t] = "closing" ~> (pc[t] = "gone" \/ [](server = "down"))

=============================================================================
