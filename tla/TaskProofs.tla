----------------------------- MODULE TaskProofs -------------------------------
(***************************************************************************)
(* The bind stack tells the truth, for every number of tasks, threads,     *)
(* cpusets and restarts of the server.  The argument: a client and the     *)
(* server never have more than one message between them, the message       *)
(* belongs to the call the client waits in, and so what it does to the     *)
(* thread's binding is what the stack is about to record.                  *)
(***************************************************************************)
EXTENDS Task, FiniteSetTheorems, SequenceTheorems, TLAPS

Bindable == Cpusets \ Refused
Frame == [task : Tasks, over : Cpusets]
RequestMsg == [fid : Fids, who : Threads, cpuset : Cpusets \cup {NoCpuset}]
ReplyMsg == [fid : Fids, rc : Codes, cpuset : Cpusets \cup {NoCpuset}]

(* One message at a time, and none that the socket does not wait for. *)
Alternates(t) ==
    /\ pipe[t] = NoMsg \/ inbox[t] = NoMsg
    /\ pipe[t] = NoMsg \/ reply[t] = NoMsg
    /\ inbox[t] = NoMsg \/ reply[t] = NoMsg
    /\ zsock[t] \in {"none", "send"} =>
          pipe[t] = NoMsg /\ inbox[t] = NoMsg /\ reply[t] = NoMsg
    /\ zsock[t] = "closed" => reply[t] = NoMsg

(* The socket's state in each state of the call. *)
SocketFits(t) ==
    /\ pc[t] = "new" => zsock[t] = "none"
    /\ pc[t] \in Waiting => zsock[t] = "recv"
    /\ pc[t] = "idle" => zsock[t] \in {"send", "recv"}

(* The RPC the call waits for. *)
Awaited == [label \in Waiting |->
              CASE label = "hello" -> "HELLO"
                [] label = "init"  -> "GET_CPUBIND"
                [] label \in {"push", "pop"} -> "SET_CPUBIND"
                [] label = "query" -> "QUERY"]

(* A request on its way is about the thread of its task; while the task    *)
(* waits, it is the request of the call the task is in.                    *)
RequestFits(t, m) ==
    m # NoMsg =>
        /\ m.who = owner[t]
        /\ m.fid = "SET_CPUBIND" => m.cpuset \in Cpusets
        /\ pc[t] \in Waiting => m.fid = Awaited[pc[t]]
        /\ pc[t] = "push" => m.cpuset = pool[t]
        /\ pc[t] = "pop" => m.cpuset = bind_top(t)

(* So is a reply; one that reports a binding reports one that was made. *)
ReplyFits(t) ==
    (reply[t] # NoMsg /\ pc[t] \in Waiting) =>
        /\ reply[t].fid = Awaited[pc[t]]
        /\ pc[t] = "init" => reply[t].cpuset \in Bindable
        /\ pc[t] = "push" /\ reply[t].rc = "SUCCESS" => pool[t] \in Bindable

(* Nothing is on the stack that the thread could not be bound to again. *)
StackFits(t) ==
    /\ m_stack[t] \in Seq(Bindable)
    /\ pc[t] = "pop" => m_stack[t] # <<>>

InSync(t) == m_stack[t] # <<>> => bind_top(t) = cpubind[owner[t]]

(* What the thread is bound to, in each state of the only task it has. *)
BindingFits(t) ==
    OnlyTask(t) =>
        /\ pc[t] = "idle" /\ can_send(t) => InSync(t)
        /\ pc[t] = "query" => InSync(t)
        /\ pc[t] = "init" /\ reply[t] # NoMsg => reply[t].cpuset = cpubind[owner[t]]
        /\ pc[t] = "push" /\ (pipe[t] # NoMsg \/ inbox[t] # NoMsg) => InSync(t)
        /\ pc[t] = "push" /\ reply[t] # NoMsg =>
              IF reply[t].rc = "SUCCESS" THEN cpubind[owner[t]] = pool[t] ELSE InSync(t)
        /\ pc[t] = "pop" /\ reply[t] # NoMsg => InSync(t)

(* The i-th of the thread's open pushes replaced the binding that lies     *)
(* under it on the stack.  During a push the stack has not grown yet, and  *)
(* during a pop it has already shrunk.                                     *)
Nested(t, shift) ==
    LET frames == nesting[owner[t]]
    IN  \A i \in 1..Len(frames) :
            LET j == Len(m_stack[t]) - Len(frames) + i - shift
            IN  j >= 1 => frames[i].over = m_stack[t][j]

NestingFits(t) ==
    OnlyTask(t) =>
        /\ pc[t] \in {"new", "hello", "init"} => nesting[owner[t]] = <<>>
        /\ (pc[t] = "idle" /\ can_send(t)) \/ pc[t] = "query" => Nested(t, 1)
        /\ pc[t] \in {"push", "pop"} => Nested(t, 0)

TaskInv(t) ==
    /\ Alternates(t) /\ SocketFits(t)
    /\ RequestFits(t, pipe[t]) /\ RequestFits(t, inbox[t]) /\ ReplyFits(t)
    /\ StackFits(t) /\ BindingFits(t) /\ NestingFits(t)

IInv == TypeOK /\ \A t \in Tasks : TaskInv(t)

-----------------------------------------------------------------------------
(* Facts about sequences and messages.                                     *)

LEMMA FrontFacts ==
    ASSUME NEW S, NEW s \in Seq(S), s # <<>>
    PROVE  /\ Front(s) \in Seq(S) /\ Len(Front(s)) = Len(s) - 1
           /\ \A i \in 1..Len(s) - 1 : Front(s)[i] = s[i]
           /\ Len(s) \in Nat \ {0} /\ Last(s) \in S
<1>1. Len(s) \in Nat \ {0} /\ \A i \in 1..Len(s) : s[i] \in S
  BY EmptySeq, ElementOfSeq
<1>2. Last(s) \in S
  BY <1>1 DEF Last
<1>. DEFINE n == Len(s) - 1
            f == SubSeq(s, 1, n)
<1>3. n \in Nat /\ \A i \in 1..n : s[i] \in S
  BY <1>1
<1>. HIDE DEF n
<1>4. /\ f \in Seq(S)
      /\ Len(f) = IF 1 <= n THEN n - 1 + 1 ELSE 0
      /\ \A i \in 1..n - 1 + 1 : f[i] = s[1 + i - 1]
  BY <1>3, SubSeqProperties
<1>. HIDE DEF f
<1>5. Len(f) = n
  BY <1>3, <1>4
<1>6. \A i \in 1..n : f[i] = s[i]
  BY <1>3, <1>4
<1>. QED
  BY <1>1, <1>2, <1>4, <1>5, <1>6 DEF f, n, Front

LEMMA AwaitedFacts ==
    /\ Awaited["hello"] = "HELLO" /\ Awaited["init"] = "GET_CPUBIND"
    /\ Awaited["push"] = "SET_CPUBIND" /\ Awaited["pop"] = "SET_CPUBIND"
    /\ Awaited["query"] = "QUERY"
BY DEF Awaited, Waiting

(* The types the proofs use, without the LET. *)
LEMMA Types ==
    TypeOK <=>
        /\ zsock \in [Tasks -> {"none", "send", "recv", "closed"}]
        /\ pipe \in [Tasks -> RequestMsg \cup {NoMsg}]
        /\ inbox \in [Tasks -> RequestMsg \cup {NoMsg}]
        /\ reply \in [Tasks -> ReplyMsg \cup {NoMsg}]
        /\ server \in {"check", "poll", "down"} /\ signaled \in BOOLEAN
        /\ nstarts \in 1..MaxStarts
        /\ cpubind \in [Threads -> Bindable]
        /\ pc \in [Tasks -> Waiting \cup {"new", "idle", "closing", "gone"}]
        /\ m_stack \in [Tasks -> Seq(Cpusets)]
        /\ m_connected \in [Tasks -> BOOLEAN]
        /\ rc \in [Tasks -> Codes]
        /\ nops \in [Tasks -> Nat] /\ \A t \in Tasks : nops[t] <= MaxOps[t]
        /\ nesting \in [Threads -> Seq(Frame)]
BY DEF TypeOK, RmiTypeOK, RequestMsg, ReplyMsg, Bindable, Frame, Tasks

LEMMA TypesPrime ==
    TypeOK' <=>
        /\ zsock' \in [Tasks -> {"none", "send", "recv", "closed"}]
        /\ pipe' \in [Tasks -> RequestMsg \cup {NoMsg}]
        /\ inbox' \in [Tasks -> RequestMsg \cup {NoMsg}]
        /\ reply' \in [Tasks -> ReplyMsg \cup {NoMsg}]
        /\ server' \in {"check", "poll", "down"} /\ signaled' \in BOOLEAN
        /\ nstarts' \in 1..MaxStarts
        /\ cpubind' \in [Threads -> Bindable]
        /\ pc' \in [Tasks -> Waiting \cup {"new", "idle", "closing", "gone"}]
        /\ m_stack' \in [Tasks -> Seq(Cpusets)]
        /\ m_connected' \in [Tasks -> BOOLEAN]
        /\ rc' \in [Tasks -> Codes]
        /\ nops' \in [Tasks -> Nat] /\ \A t \in Tasks : nops'[t] <= MaxOps[t]
        /\ nesting' \in [Threads -> Seq(Frame)]
BY DEF TypeOK, RmiTypeOK, RequestMsg, ReplyMsg, Bindable, Frame, Tasks

LEMMA InitOK == Init => IInv
<1>. SUFFICES ASSUME Init PROVE IInv
  OBVIOUS
<1>1. TypeOK
  <2>1. RmiTypeOK
    <3>1. nstarts \in 1..MaxStarts
      BY RmiAssumption DEF Init, RmiInit
    <3>. QED
      BY <3>1 DEF Init, RmiInit, RmiTypeOK
  <2>2. m_stack \in [Tasks -> Seq(Cpusets)] /\ nesting \in [Threads -> Seq(Frame)]
    BY EmptySeq DEF Init
  <2>3. nops \in [Tasks -> Nat] /\ \A t \in Tasks : nops[t] <= MaxOps[t]
    BY TaskAssumption DEF Init
  <2>. QED
    BY <2>1, <2>2, <2>3 DEF Init, TypeOK, Codes, Frame
<1>2. ASSUME NEW t \in Tasks PROVE TaskInv(t)
  <2>1. Alternates(t) /\ SocketFits(t)
    BY <1>2 DEF Init, RmiInit, Alternates, SocketFits, Tasks, Waiting
  <2>2. RequestFits(t, pipe[t]) /\ RequestFits(t, inbox[t]) /\ ReplyFits(t)
    BY <1>2 DEF Init, RmiInit, RequestFits, ReplyFits, Tasks
  <2>3. StackFits(t)
    BY <1>2, EmptySeq DEF Init, StackFits
  <2>4. BindingFits(t) /\ NestingFits(t)
    BY <1>2, TaskAssumption DEF Init, RmiInit, BindingFits, NestingFits, Tasks
  <2>. QED
    BY <2>1, <2>2, <2>3, <2>4 DEF TaskInv
<1>. QED
  BY <1>1, <1>2 DEF IInv

-----------------------------------------------------------------------------
(* What a step of task t leaves alone. *)
StepOf(t) ==
    /\ UNCHANGED <<inbox, cpubind>>
    /\ \A u \in Tasks \ {t} :
          /\ zsock'[u] = zsock[u] /\ pipe'[u] = pipe[u] /\ reply'[u] = reply[u]
          /\ pc'[u] = pc[u] /\ m_stack'[u] = m_stack[u]
    /\ \A h \in Threads \ {owner[t]} : nesting'[h] = nesting[h]
    /\ pc'[t] # "new"

(* A step of task t disturbs no other task: either the other has a thread  *)
(* of its own, or it is not the only task of its thread.                   *)
LEMMA ClientFrame ==
    ASSUME IInv, NEW t \in Tasks, StepOf(t), TypeOK', TaskInv(t)'
    PROVE  IInv'
<1>. USE DEF StepOf
<1>. SUFFICES ASSUME NEW u \in Tasks, u # t PROVE TaskInv(u)'
  BY DEF IInv
<1>0. TaskInv(u)
  BY DEF IInv
<1>1. OnlyTask(u)' => OnlyTask(u) /\ owner[u] \in Threads \ {owner[t]}
  BY TaskAssumption DEF OnlyTask
<1>2. Alternates(u)' /\ SocketFits(u)'
  BY <1>0 DEF TaskInv, Alternates, SocketFits
<1>3. RequestFits(u, pipe[u])' /\ RequestFits(u, inbox[u])' /\ ReplyFits(u)'
  BY <1>0 DEF TaskInv, RequestFits, ReplyFits, bind_top
<1>4. StackFits(u)'
  BY <1>0 DEF TaskInv, StackFits
<1>5. BindingFits(u)'
  BY <1>0, <1>1 DEF TaskInv, BindingFits, InSync, bind_top, can_send
<1>6. NestingFits(u)'
  <2>1. SUFFICES ASSUME OnlyTask(u)' PROVE NestingFits(u)'
    BY DEF NestingFits
  <2>2. nesting'[owner[u]] = nesting[owner[u]] /\ NestingFits(u) /\ OnlyTask(u)
    BY <1>0, <1>1, <2>1 DEF TaskInv
  <2>3. \A shift \in {0, 1} : Nested(u, shift)' <=> Nested(u, shift)
    BY <2>2 DEF Nested
  <2>. QED
    BY <2>2, <2>3 DEF NestingFits, can_send
<1>. QED
  BY <1>2, <1>3, <1>4, <1>5, <1>6 DEF TaskInv

(* Messages may be lost: nothing is claimed about a call without one. *)
LEMMA LoseOK ==
    ASSUME IInv, TypeOK', UNCHANGED <<zsock, pipe, cpubind, task_vars>>,
           \A u \in Tasks : inbox'[u] \in {inbox[u], NoMsg} /\ reply'[u] \in {reply[u], NoMsg}
    PROVE  IInv'
<1>. SUFFICES ASSUME NEW u \in Tasks PROVE TaskInv(u)'
  BY DEF IInv
<1>0. TaskInv(u)
  BY DEF IInv
<1>. USE DEF task_vars
<1>1. Alternates(u)' /\ SocketFits(u)'
  BY <1>0 DEF TaskInv, Alternates, SocketFits
<1>2. RequestFits(u, pipe[u])' /\ RequestFits(u, inbox[u])' /\ ReplyFits(u)'
  BY <1>0 DEF TaskInv, RequestFits, ReplyFits, bind_top
<1>3. StackFits(u)'
  BY <1>0 DEF TaskInv, StackFits
<1>4. BindingFits(u)'
  BY <1>0 DEF TaskInv, BindingFits, InSync, bind_top, can_send, OnlyTask
<1>5. NestingFits(u)'
  BY <1>0 DEF TaskInv, NestingFits, Nested, can_send, OnlyTask
<1>. QED
  BY <1>1, <1>2, <1>3, <1>4, <1>5 DEF TaskInv

LEMMA TransmitOK ==
    ASSUME IInv, NEW c \in Tasks, Transmit(c), UNCHANGED task_vars PROVE IInv'
<1>. USE DEF task_vars
<1>0. TypeOK /\ TypeOK'
  BY Types, TypesPrime DEF IInv, Transmit, daemon, Tasks
<1>. SUFFICES ASSUME NEW u \in Tasks PROVE TaskInv(u)'
  BY <1>0 DEF IInv
<1>1. TaskInv(u)
  BY DEF IInv
<1>2. /\ UNCHANGED <<zsock, reply, cpubind>>
      /\ IF u = c THEN pipe[u] # NoMsg /\ inbox'[u] = pipe[u] /\ pipe'[u] = NoMsg
                  ELSE inbox'[u] = inbox[u] /\ pipe'[u] = pipe[u]
  BY <1>0, Types DEF Transmit
<1>3. Alternates(u)' /\ SocketFits(u)'
  BY <1>1, <1>2 DEF TaskInv, Alternates, SocketFits
<1>4. RequestFits(u, pipe[u])' /\ RequestFits(u, inbox[u])' /\ ReplyFits(u)'
  BY <1>1, <1>2 DEF TaskInv, RequestFits, ReplyFits, bind_top
<1>5. StackFits(u)'
  BY <1>1 DEF TaskInv, StackFits
<1>6. BindingFits(u)'
  BY <1>1, <1>2 DEF TaskInv, BindingFits, InSync, bind_top, can_send, OnlyTask
<1>7. NestingFits(u)'
  BY <1>1, <1>2 DEF TaskInv, NestingFits, Nested, can_send, OnlyTask
<1>. QED
  BY <1>3, <1>4, <1>5, <1>6, <1>7 DEF TaskInv

(* What the server answers, and what it does to the thread's binding. *)
LEMMA AnswerFacts ==
    ASSUME TypeOK, NEW c \in Tasks, NEW m \in RequestMsg, NEW answer \in Answers(c, m)
    PROVE  /\ answer \in ReplyMsg /\ answer.fid = m.fid
           /\ m.fid = "GET_CPUBIND" => answer.cpuset = cpubind[m.who]
           /\ m.fid = "SET_CPUBIND" => (answer.rc = "SUCCESS" <=> m.cpuset \notin Refused)
<1>0. m.fid \in Fids /\ m.who \in Threads /\ cpubind[m.who] \in Cpusets
  BY Types DEF RequestMsg, Bindable
<1>1. CASE m.fid = "HELLO"
  BY <1>1 DEF Answers, Reply, s_rpc_hello, ReplyMsg, Codes, Fids
<1>2. CASE m.fid = "GET_CPUBIND"
  BY <1>0, <1>2 DEF Answers, Reply, ReplyMsg, Codes, Fids
<1>3. CASE m.fid = "SET_CPUBIND"
  BY <1>3 DEF Answers, Reply, s_rpc_set_cpubind, ReplyMsg, Codes, Fids
<1>4. CASE m.fid = "QUERY"
  BY <1>4 DEF Answers, Reply, s_rpc_query, ReplyMsg, Codes, Fids
<1>5. CASE m.fid = "SERVER_SHUTDOWN"
  BY <1>5 DEF Answers, Reply, ReplyMsg, Codes, Fids
<1>. QED
  BY <1>0, <1>1, <1>2, <1>3, <1>4, <1>5 DEF Fids

LEMMA EffectFacts ==
    ASSUME TypeOK, NEW m \in RequestMsg, Effect(m),
           m.fid = "SET_CPUBIND" => m.cpuset \in Cpusets
    PROVE  /\ cpubind' \in [Threads -> Bindable]
           /\ \A h \in Threads : h # m.who => cpubind'[h] = cpubind[h]
           /\ IF m.fid = "SET_CPUBIND" /\ m.cpuset \notin Refused
              THEN cpubind'[m.who] = m.cpuset ELSE cpubind'[m.who] = cpubind[m.who]
<1>1. m.who \in Threads /\ cpubind \in [Threads -> Bindable]
  BY Types DEF RequestMsg
<1>. QED
  BY <1>1 DEF Effect, Bindable

(* A request is answered, whatever else the server loses: the one place    *)
(* where a binding changes, by the message of the task's own call.         *)
LEMMA AnswerOK ==
    ASSUME IInv, TypeOK', NEW c \in Tasks, inbox[c] # NoMsg, Effect(inbox[c]),
           NEW answer \in Answers(c, inbox[c]),
           UNCHANGED <<zsock, pipe, task_vars>>,
           inbox'[c] = NoMsg,
           reply'[c] \in {NoMsg, answer}, zsock[c] = "closed" => reply'[c] = NoMsg,
           \A u \in Tasks \ {c} :
               inbox'[u] \in {inbox[u], NoMsg} /\ reply'[u] \in {reply[u], NoMsg}
    PROVE  IInv'
<1>. USE DEF task_vars
<1>. SUFFICES ASSUME NEW u \in Tasks PROVE TaskInv(u)'
  BY DEF IInv
<1>0. TypeOK /\ TaskInv(u) /\ TaskInv(c)
  BY DEF IInv
<1>. DEFINE m == inbox[c]
<1>1. /\ m \in RequestMsg /\ m.who = owner[c]
      /\ m.fid = "SET_CPUBIND" => m.cpuset \in Cpusets
      /\ zsock[c] \notin {"none", "send"} /\ pc[c] # "new"
      /\ pipe[c] = NoMsg /\ reply[c] = NoMsg
  BY <1>0, Types DEF TaskInv, Alternates, SocketFits, RequestFits
<1>2. /\ answer \in ReplyMsg /\ answer.fid = m.fid
      /\ m.fid = "GET_CPUBIND" => answer.cpuset = cpubind[m.who]
      /\ m.fid = "SET_CPUBIND" => (answer.rc = "SUCCESS" <=> m.cpuset \notin Refused)
  BY <1>0, <1>1, AnswerFacts
<1>3. /\ \A h \in Threads : h # m.who => cpubind'[h] = cpubind[h]
      /\ IF m.fid = "SET_CPUBIND" /\ m.cpuset \notin Refused
         THEN cpubind'[m.who] = m.cpuset ELSE cpubind'[m.who] = cpubind[m.who]
  BY <1>0, <1>1, EffectFacts
<1>4. owner[u] \in Threads /\ owner[c] \in Threads
      /\ cpubind[owner[u]] \in Bindable /\ pool[u] \in Cpusets
  BY <1>0, Types, TaskAssumption DEF Tasks
<1>. HIDE DEF m
<1>5. Alternates(u)' /\ SocketFits(u)'
  BY <1>0, <1>1 DEF TaskInv, Alternates, SocketFits
<1>6. RequestFits(u, pipe[u])' /\ RequestFits(u, inbox[u])'
  BY <1>0 DEF TaskInv, RequestFits, bind_top
<1>7. ReplyFits(u)'
  <2>1. CASE u # c
    BY <1>0, <2>1 DEF TaskInv, ReplyFits
  <2>2. CASE u = c
    <3>1. RequestFits(u, m)
      BY <1>0, <2>2 DEF TaskInv, m
    <3>. QED
      BY <1>1, <1>2, <1>4, <2>2, <3>1, AwaitedFacts DEF m, RequestFits, ReplyFits, Bindable
  <2>. QED
    BY <2>1, <2>2
<1>8. StackFits(u)'
  BY <1>0 DEF TaskInv, StackFits
<1>9. BindingFits(u)'
  <2>. SUFFICES ASSUME OnlyTask(u) PROVE BindingFits(u)'
    BY DEF BindingFits, OnlyTask
  <2>1. CASE u # c
    <3>1. cpubind'[owner[u]] = cpubind[owner[u]]
      BY <1>1, <1>3, <1>4, <2>1 DEF OnlyTask
    <3>. QED
      BY <1>0, <2>1, <3>1 DEF TaskInv, BindingFits, InSync, bind_top, can_send
  <2>2. CASE u = c
    <3>1. RequestFits(u, m) /\ StackFits(u)
      BY <1>0, <2>2 DEF TaskInv, m
    <3>2. m_stack[u] # <<>> => bind_top(u) \in Bindable
      BY <3>1, FrontFacts DEF StackFits, bind_top
    <3>3. pc[u] = "query" => InSync(u)'
      BY <1>0, <1>1, <1>3, <2>2, <3>1, AwaitedFacts
         DEF m, RequestFits, TaskInv, BindingFits, InSync, bind_top, Waiting
    <3>4. pc[u] = "init" /\ reply'[u] # NoMsg => reply'[u].cpuset = cpubind'[owner[u]]
      BY <1>1, <1>2, <1>3, <2>2, <3>1, AwaitedFacts DEF m, RequestFits, Waiting
    <3>5. pc[u] = "push" /\ reply'[u] # NoMsg =>
             IF reply'[u].rc = "SUCCESS" THEN cpubind'[owner[u]] = pool[u] ELSE InSync(u)'
      BY <1>0, <1>1, <1>2, <1>3, <2>2, <3>1, AwaitedFacts
         DEF m, RequestFits, TaskInv, BindingFits, InSync, bind_top, Waiting
    <3>6. pc[u] = "pop" => InSync(u)'
      BY <1>1, <1>3, <2>2, <3>1, <3>2, AwaitedFacts
         DEF m, RequestFits, InSync, bind_top, Waiting, Bindable
    <3>. QED
      BY <1>1, <2>2, <3>3, <3>4, <3>5, <3>6 DEF BindingFits, can_send
  <2>. QED
    BY <2>1, <2>2
<1>10. NestingFits(u)'
  BY <1>0 DEF TaskInv, NestingFits, Nested, can_send, OnlyTask
<1>. QED
  BY <1>5, <1>6, <1>7, <1>8, <1>9, <1>10 DEF TaskInv

(* A server that stops keeps no request, and some replies. *)
LEMMA StopFacts ==
    ASSUME NEW replies \in [Tasks -> ReplyMsg \cup {NoMsg}], StopsWith(replies)
    PROVE  /\ server' = "down"
           /\ inbox' = [c \in Tasks |-> NoMsg]
           /\ reply' \in [Tasks -> ReplyMsg \cup {NoMsg}]
           /\ \A c \in Tasks : reply'[c] \in {replies[c], NoMsg}
BY DEF StopsWith, Tasks

LEMMA DispatchOK ==
    ASSUME IInv, NEW c \in Tasks, m_rpc_dispatch(c), UNCHANGED task_vars PROVE IInv'
<1>. USE DEF sockets, task_vars
<1>0. TypeOK /\ TaskInv(c)
  BY DEF IInv
<1>1. PICK answer \in Answers(c, inbox[c]) :
         IF inbox[c].fid = "SERVER_SHUTDOWN"
         THEN StopsWith(Sent(c, answer))
         ELSE /\ server' = "check"
              /\ inbox' = [inbox EXCEPT ![c] = NoMsg]
              /\ reply' = Sent(c, answer)
  BY DEF m_rpc_dispatch
<1>2. /\ inbox[c] # NoMsg /\ Effect(inbox[c]) /\ inbox[c] \in RequestMsg
      /\ inbox[c].fid = "SET_CPUBIND" => inbox[c].cpuset \in Cpusets
      /\ UNCHANGED <<zsock, pipe, signaled, nstarts>>
      /\ zsock[c] = "closed" => reply[c] = NoMsg
  BY <1>0, Types DEF m_rpc_dispatch, TaskInv, Alternates, RequestFits
<1>3. answer \in ReplyMsg /\ cpubind' \in [Threads -> Bindable]
  BY <1>0, <1>2, AnswerFacts, EffectFacts
<1>. DEFINE sent == Sent(c, answer)
<1>4. /\ sent \in [Tasks -> ReplyMsg \cup {NoMsg}]
      /\ \A u \in Tasks \ {c} : sent[u] = reply[u]
      /\ sent[c] \in {NoMsg, answer}
      /\ zsock[c] = "closed" => sent[c] = NoMsg
  BY <1>0, <1>2, <1>3, Types DEF Sent
<1>. HIDE DEF sent
<1>5. /\ inbox' \in [Tasks -> RequestMsg \cup {NoMsg}]
      /\ reply' \in [Tasks -> ReplyMsg \cup {NoMsg}]
      /\ server' \in {"check", "down"}
      /\ inbox'[c] = NoMsg /\ reply'[c] \in {NoMsg, sent[c]}
      /\ \A u \in Tasks \ {c} :
            inbox'[u] \in {inbox[u], NoMsg} /\ reply'[u] \in {sent[u], NoMsg}
  <2>1. CASE inbox[c].fid = "SERVER_SHUTDOWN"
    BY <1>1, <1>4, <2>1, StopFacts DEF sent
  <2>2. CASE inbox[c].fid # "SERVER_SHUTDOWN"
    BY <1>0, <1>1, <1>4, <2>2, Types DEF sent
  <2>. QED
    BY <2>1, <2>2
<1>6. TypeOK'
  BY <1>0, <1>2, <1>3, <1>5, Types, TypesPrime
<1>7. /\ reply'[c] \in {NoMsg, answer}
      /\ zsock[c] = "closed" => reply'[c] = NoMsg
      /\ \A u \in Tasks \ {c} :
            inbox'[u] \in {inbox[u], NoMsg} /\ reply'[u] \in {reply[u], NoMsg}
  BY <1>4, <1>5
<1>. QED
  <2>1. inbox'[c] = NoMsg /\ UNCHANGED <<zsock, pipe, task_vars>>
    BY <1>2, <1>5
  <2>. QED
    BY <1>1, <1>2, <1>6, <1>7, <2>1, AnswerOK

LEMMA CheckSignalOK == ASSUME IInv, CheckSignal, UNCHANGED task_vars PROVE IInv'
<1>. USE DEF sockets, task_vars
<1>1. TypeOK /\ UNCHANGED <<zsock, pipe, cpubind, signaled, nstarts>>
  BY DEF IInv, CheckSignal
<1>2. CASE StopsWith(reply)
  <2>1. /\ server' = "down" /\ inbox' = [c \in Tasks |-> NoMsg]
        /\ reply' \in [Tasks -> ReplyMsg \cup {NoMsg}]
        /\ \A c \in Tasks : reply'[c] \in {reply[c], NoMsg}
    BY <1>1, <1>2, Types, StopFacts
  <2>2. TypeOK'
    BY <1>1, <2>1, Types, TypesPrime
  <2>. QED
    BY <1>1, <2>1, <2>2, LoseOK
<1>3. CASE server' = "poll" /\ UNCHANGED <<inbox, reply>>
  <2>1. TypeOK'
    BY <1>1, <1>3, Types, TypesPrime
  <2>. QED
    BY <1>1, <1>3, <2>1, LoseOK
<1>. QED
  BY <1>2, <1>3 DEF CheckSignal

(* The other steps of the server leave the messages alone. *)
LEMMA ServerOK ==
    ASSUME IInv, PollAgain \/ start \/ server_signal_handler, UNCHANGED task_vars PROVE IInv'
<1>. USE DEF sockets, task_vars
<1>1. TypeOK /\ UNCHANGED <<zsock, pipe, inbox, reply, cpubind>>
  BY DEF IInv, PollAgain, start, server_signal_handler
<1>2. server' \in {"check", "poll", "down"} /\ signaled' \in BOOLEAN /\ nstarts' \in 1..MaxStarts
  <2>1. CASE start
    <3>1. nstarts \in 1..MaxStarts
      BY <1>1, Types
    <3>2. nstarts' \in 1..MaxStarts
      BY <2>1, <3>1, RmiAssumption DEF start
    <3>. QED
      BY <2>1, <3>2 DEF start
  <2>2. CASE PollAgain \/ server_signal_handler
    BY <1>1, <2>2, Types DEF PollAgain, server_signal_handler
  <2>. QED
    BY <2>1, <2>2
<1>3. TypeOK'
  BY <1>1, <1>2, Types, TypesPrime
<1>. QED
  BY <1>1, <1>3, LoseOK

-----------------------------------------------------------------------------
(* The steps of the tasks. *)

LEMMA RequestFacts ==
    ASSUME NEW t \in Tasks, NEW fid \in Fids, NEW cpuset \in Cpusets \cup {NoCpuset}
    PROVE  LET m == Request(fid, owner[t], cpuset)
           IN  m \in RequestMsg /\ m.fid = fid /\ m.who = owner[t] /\ m.cpuset = cpuset
BY TaskAssumption DEF Request, RequestMsg

(* A task that waits for nothing, and is in no state the stack is claimed  *)
(* for, has little to satisfy.                                             *)
LEMMA RestsOK ==
    ASSUME IInv, NEW t \in Tasks, TypeOK', StepOf(t), pc'[t] \in {"idle", "closing", "gone"},
           pc'[t] = "idle" => zsock'[t] = "recv",
           m_stack'[t] \in Seq(Bindable),
           Alternates(t)', RequestFits(t, pipe[t])', RequestFits(t, inbox[t])'
    PROVE  IInv'
<1>1. SocketFits(t)' /\ ReplyFits(t)' /\ StackFits(t)' /\ BindingFits(t)' /\ NestingFits(t)'
  BY DEF SocketFits, ReplyFits, StackFits, BindingFits, NestingFits, Waiting, can_send
<1>. QED
  BY <1>1, ClientFrame DEF TaskInv

LEMMA DiscoveryFailsOK == ASSUME IInv, NEW t \in Tasks, DiscoveryFails(t) PROVE IInv'
<1>. USE DEF DiscoveryFails, rmi_vars, Return, Goto
<1>1. TypeOK /\ TaskInv(t) /\ pc'[t] = "gone"
  BY Types DEF IInv
<1>2. TypeOK'
  BY <1>1, Types, TypesPrime DEF Codes
<1>3. StepOf(t)
  BY <1>1, Types DEF StepOf
<1>4. m_stack'[t] \in Seq(Bindable) /\ Alternates(t)'
  BY <1>1 DEF TaskInv, StackFits, Alternates
<1>5. RequestFits(t, pipe[t])' /\ RequestFits(t, inbox[t])'
  BY <1>1 DEF TaskInv, RequestFits, Waiting
<1>. QED
  BY <1>1, <1>2, <1>3, <1>4, <1>5, RestsOK

LEMMA ConnectOK == ASSUME IInv, NEW t \in Tasks, connect_to_server(t) PROVE IInv'
<1>. USE DEF connect_to_server, not_sockets, daemon, Goto
<1>. DEFINE m == Request("HELLO", owner[t], NoCpuset)
<1>0. m \in RequestMsg /\ m.fid = "HELLO" /\ m.who = owner[t]
  BY RequestFacts DEF Fids
<1>. HIDE DEF m
<1>1. TypeOK /\ TaskInv(t)
  BY DEF IInv
<1>2. pc'[t] = "hello" /\ zsock'[t] = "recv" /\ pipe'[t] = m
  BY <1>1, Types DEF m
<1>3. TypeOK'
  BY <1>0, <1>1, Types, TypesPrime DEF m, Waiting
<1>4. StepOf(t)
  BY <1>1, Types DEF StepOf
<1>5. Alternates(t)' /\ SocketFits(t)'
  BY <1>1, <1>2 DEF TaskInv, Alternates, SocketFits
<1>6. RequestFits(t, pipe[t])' /\ RequestFits(t, inbox[t])' /\ ReplyFits(t)'
  BY <1>0, <1>1, <1>2, AwaitedFacts DEF TaskInv, Alternates, SocketFits, RequestFits, ReplyFits
<1>7. StackFits(t)' /\ BindingFits(t)'
  BY <1>1, <1>2 DEF TaskInv, StackFits, BindingFits
<1>8. NestingFits(t)'
  BY <1>1, <1>2, <1>4 DEF TaskInv, NestingFits, OnlyTask, StepOf
<1>. QED
  BY <1>3, <1>4, <1>5, <1>6, <1>7, <1>8, ClientFrame DEF TaskInv

(* rpc_req fails: the call returns, and the socket still cannot send. *)
LEMMA CallFailsOK ==
    ASSUME IInv, NEW t \in Tasks, Called(t), ~can_send(t), NEW code \in Codes,
           Return(t, "idle", code), UNCHANGED <<rmi_vars, m_connected>>,
           m_stack' \in [Tasks -> Seq(Cpusets)], nesting' \in [Threads -> Seq(Frame)],
           \A u \in Tasks \ {t} : m_stack'[u] = m_stack[u],
           \A h \in Threads \ {owner[t]} : nesting'[h] = nesting[h],
           m_stack'[t] \in Seq(Bindable)
    PROVE  IInv'
<1>. USE DEF Called, Return, Goto, rmi_vars
<1>1. TypeOK /\ TaskInv(t) /\ pc[t] = "idle" /\ pc'[t] = "idle"
  BY Types DEF IInv
<1>2. TypeOK'
  <2>1. nops' \in [Tasks -> Nat] /\ \A u \in Tasks : nops'[u] <= MaxOps[u]
    BY <1>1, Types, TaskAssumption
  <2>. QED
    BY <1>1, <2>1, Types, TypesPrime
<1>3. StepOf(t)
  BY <1>1, Types DEF StepOf
<1>4. zsock'[t] = "recv" /\ Alternates(t)'
  BY <1>1 DEF TaskInv, Alternates, SocketFits, can_send
<1>5. RequestFits(t, pipe[t])' /\ RequestFits(t, inbox[t])'
  BY <1>1 DEF TaskInv, RequestFits, Waiting
<1>. QED
  BY <1>1, <1>2, <1>3, <1>4, <1>5, RestsOK

(* rpc_req succeeds: the request is the only message of the task. *)
LEMMA SendFacts ==
    ASSUME IInv, NEW t \in Tasks, Called(t), can_send(t),
           NEW m \in RequestMsg, NEW label \in {"push", "pop", "query", "idle"},
           rpc_req(t, m), Goto(t, label),
           UNCHANGED <<reply, not_sockets, m_connected>>, rc' \in [Tasks -> Codes],
           m_stack' \in [Tasks -> Seq(Cpusets)], nesting' \in [Threads -> Seq(Frame)],
           \A u \in Tasks \ {t} : m_stack'[u] = m_stack[u],
           \A h \in Threads \ {owner[t]} : nesting'[h] = nesting[h]
    PROVE  /\ TypeOK' /\ StepOf(t)
           /\ pc[t] = "idle" /\ pc'[t] = label /\ zsock'[t] = "recv"
           /\ pipe'[t] = m /\ inbox'[t] = NoMsg /\ reply'[t] = NoMsg
           /\ Alternates(t)' /\ SocketFits(t)' /\ ReplyFits(t)' /\ RequestFits(t, inbox[t])'
           /\ OnlyTask(t)' => OnlyTask(t)
<1>. USE DEF Called, Goto, rpc_req, not_sockets, daemon
<1>1. TypeOK /\ TaskInv(t) /\ pc[t] = "idle" /\ zsock[t] = "send"
  BY DEF IInv, can_send
<1>2. TypeOK'
  <2>1. nops' \in [Tasks -> Nat] /\ \A u \in Tasks : nops'[u] <= MaxOps[u]
    BY <1>1, Types, TaskAssumption
  <2>. QED
    BY <1>1, <2>1, Types, TypesPrime DEF Waiting
<1>3. StepOf(t)
  BY <1>1, Types DEF StepOf
<1>4. pc'[t] = label /\ zsock'[t] = "recv" /\ pipe'[t] = m /\ inbox'[t] = NoMsg /\ reply'[t] = NoMsg
  BY <1>1, Types DEF TaskInv, Alternates
<1>5. Alternates(t)' /\ SocketFits(t)' /\ ReplyFits(t)' /\ RequestFits(t, inbox[t])'
  BY <1>4 DEF Alternates, SocketFits, ReplyFits, RequestFits
<1>6. OnlyTask(t)' => OnlyTask(t)
  BY <1>3 DEF OnlyTask, StepOf
<1>. QED
  BY <1>1, <1>2, <1>3, <1>4, <1>5, <1>6

LEMMA QueryOK == ASSUME IInv, NEW t \in Tasks, query(t) PROVE IInv'
<1>. DEFINE m == Request("QUERY", owner[t], NoCpuset)
<1>0. m \in RequestMsg /\ m.fid = "QUERY" /\ m.who = owner[t]
  BY RequestFacts DEF Fids
<1>. HIDE DEF m
<1>1. TypeOK /\ TaskInv(t) /\ Called(t) /\ UNCHANGED <<m_stack, m_connected, nesting>>
  BY DEF IInv, query
<1>2. CASE ~can_send(t) /\ Return(t, "idle", "ERR_RPC") /\ UNCHANGED rmi_vars
  BY <1>1, <1>2, Types, CallFailsOK DEF Codes, TaskInv, StackFits
<1>3. CASE can_send(t) /\ rpc_req(t, m) /\ Goto(t, "query")
           /\ UNCHANGED <<reply, not_sockets, rc>>
  <2>1. /\ TypeOK' /\ StepOf(t)
        /\ pc[t] = "idle" /\ pc'[t] = "query" /\ zsock'[t] = "recv"
        /\ pipe'[t] = m
        /\ Alternates(t)' /\ SocketFits(t)' /\ ReplyFits(t)' /\ RequestFits(t, inbox[t])'
        /\ OnlyTask(t)' => OnlyTask(t)
    <3>1. rc' \in [Tasks -> Codes] /\ m_stack' \in [Tasks -> Seq(Cpusets)]
          /\ nesting' \in [Threads -> Seq(Frame)]
      BY <1>1, <1>3, Types
    <3>. QED
      BY <1>0, <1>1, <1>3, <3>1, SendFacts
  <2>2. RequestFits(t, pipe[t])' /\ StackFits(t)'
    BY <1>0, <1>1, <2>1, AwaitedFacts DEF RequestFits, TaskInv, StackFits
  <2>3. BindingFits(t)'
    BY <1>1, <1>3, <2>1 DEF TaskInv, BindingFits, InSync, bind_top, StepOf
  <2>4. NestingFits(t)'
    BY <1>1, <1>3, <2>1 DEF TaskInv, NestingFits, Nested
  <2>. QED
    BY <2>1, <2>2, <2>3, <2>4, ClientFrame DEF TaskInv
<1>. QED
  BY <1>2, <1>3 DEF query, Requests, m

LEMMA ShutdownOK == ASSUME IInv, NEW t \in Tasks, send_shutdown_message(t) PROVE IInv'
<1>. DEFINE m == Request("SERVER_SHUTDOWN", owner[t], NoCpuset)
<1>0. m \in RequestMsg /\ m.fid = "SERVER_SHUTDOWN" /\ m.who = owner[t]
  BY RequestFacts DEF Fids
<1>. HIDE DEF m
<1>1. TypeOK /\ TaskInv(t) /\ Called(t) /\ UNCHANGED <<m_stack, m_connected, nesting>>
  BY DEF IInv, send_shutdown_message
<1>2. CASE ~can_send(t) /\ Return(t, "idle", "ERR_RPC") /\ UNCHANGED rmi_vars
  BY <1>1, <1>2, Types, CallFailsOK DEF Codes, TaskInv, StackFits
<1>3. CASE can_send(t) /\ rpc_req(t, m) /\ Return(t, "idle", "SUCCESS")
           /\ UNCHANGED <<reply, not_sockets>>
  <2>1. /\ TypeOK' /\ StepOf(t) /\ pc'[t] = "idle" /\ zsock'[t] = "recv" /\ pipe'[t] = m
        /\ Alternates(t)' /\ RequestFits(t, inbox[t])'
    <3>1. rc' \in [Tasks -> Codes] /\ m_stack' \in [Tasks -> Seq(Cpusets)]
          /\ nesting' \in [Threads -> Seq(Frame)] /\ Goto(t, "idle")
      BY <1>1, <1>3, Types DEF Return, Codes
    <3>. QED
      BY <1>0, <1>1, <1>3, <3>1, SendFacts
  <2>2. RequestFits(t, pipe[t])' /\ m_stack'[t] \in Seq(Bindable)
    BY <1>0, <1>1, <2>1 DEF RequestFits, TaskInv, StackFits, Waiting
  <2>. QED
    BY <2>1, <2>2, RestsOK
<1>. QED
  BY <1>2, <1>3 DEF send_shutdown_message, m

LEMMA DestroyOK == ASSUME IInv, NEW t \in Tasks, destroy(t) \/ zctx_destroy(t) PROVE IInv'
<1>1. TypeOK /\ TaskInv(t) /\ m_stack' = m_stack
  BY DEF IInv, destroy, zctx_destroy
<1>2. /\ pc[t] \notin Waiting /\ pc'[t] \in {"closing", "gone"}
      /\ UNCHANGED <<pipe, inbox>> /\ reply'[t] \in {reply[t], NoMsg}
      /\ zsock'[t] = "closed"
      /\ zsock[t] # "closed" => reply'[t] = NoMsg
  BY <1>1, Types DEF destroy, zctx_destroy, zsocket_close, Goto, not_sockets, rmi_vars, Waiting
<1>3. TypeOK'
  BY <1>1, Types, TypesPrime
     DEF destroy, zctx_destroy, zsocket_close, Goto, not_sockets, rmi_vars, daemon
<1>4. StepOf(t)
  BY <1>1, Types DEF StepOf, destroy, zctx_destroy, zsocket_close, Goto, not_sockets, rmi_vars
<1>5. Alternates(t)' /\ m_stack'[t] \in Seq(Bindable)
  BY <1>1, <1>2 DEF TaskInv, Alternates, StackFits
<1>6. RequestFits(t, pipe[t])' /\ RequestFits(t, inbox[t])'
  BY <1>1, <1>2 DEF TaskInv, RequestFits, Waiting
<1>. QED
  BY <1>2, <1>3, <1>4, <1>5, <1>6, RestsOK

(* A push opens a frame over the binding the top of the stack records. *)
LEMMA PushOK == ASSUME IInv, NEW t \in Tasks, bind_push(t) PROVE IInv'
<1>. DEFINE m == Request("SET_CPUBIND", owner[t], pool[t])
            frame == [task |-> t, over |-> cpubind[owner[t]]]
<1>0. /\ m \in RequestMsg /\ m.fid = "SET_CPUBIND" /\ m.who = owner[t]
      /\ m.cpuset = pool[t] /\ pool[t] \in Cpusets
  BY RequestFacts, TaskAssumption DEF Fids
<1>. HIDE DEF m
<1>1. TypeOK /\ TaskInv(t) /\ Called(t) /\ UNCHANGED <<m_stack, m_connected>>
  BY DEF IInv, bind_push
<1>2. CASE ~can_send(t) /\ Return(t, "idle", "ERR_RPC") /\ UNCHANGED <<rmi_vars, nesting>>
  BY <1>1, <1>2, Types, CallFailsOK DEF Codes, TaskInv, StackFits
<1>3. CASE can_send(t) /\ rpc_req(t, m) /\ Goto(t, "push")
           /\ UNCHANGED <<reply, not_sockets, rc>> /\ Pushes(t)
  <2>1. /\ owner[t] \in Threads /\ nesting[owner[t]] \in Seq(Frame)
        /\ frame \in Frame /\ frame.over = cpubind[owner[t]]
    BY <1>1, Types, TaskAssumption DEF Frame, Bindable
  <2>. HIDE DEF frame
  <2>2. nesting' = [nesting EXCEPT ![owner[t]] = Append(@, frame)]
    BY <1>3 DEF Pushes, frame
  <2>3. nesting' \in [Threads -> Seq(Frame)]
        /\ \A h \in Threads \ {owner[t]} : nesting'[h] = nesting[h]
    <3>1. Append(nesting[owner[t]], frame) \in Seq(Frame)
      BY <2>1, AppendProperties
    <3>. QED
      BY <1>1, <2>1, <2>2, <3>1, Types
  <2>4. /\ TypeOK' /\ StepOf(t)
        /\ pc[t] = "idle" /\ pc'[t] = "push" /\ zsock'[t] = "recv"
        /\ pipe'[t] = m /\ reply'[t] = NoMsg
        /\ Alternates(t)' /\ SocketFits(t)' /\ ReplyFits(t)' /\ RequestFits(t, inbox[t])'
        /\ OnlyTask(t)' => OnlyTask(t)
    <3>1. rc' \in [Tasks -> Codes] /\ m_stack' \in [Tasks -> Seq(Cpusets)]
      BY <1>1, <1>3, Types
    <3>. QED
      BY <1>0, <1>1, <1>3, <2>3, <3>1, SendFacts
  <2>5. RequestFits(t, pipe[t])' /\ StackFits(t)'
    BY <1>0, <1>1, <2>4, AwaitedFacts DEF RequestFits, TaskInv, StackFits
  <2>6. OnlyTask(t) => InSync(t) /\ Nested(t, 1)
    BY <1>1, <1>3, <2>4 DEF TaskInv, BindingFits, NestingFits
  <2>7. BindingFits(t)'
    BY <1>1, <2>4, <2>6 DEF BindingFits, InSync, bind_top, StepOf
  <2>8. OnlyTask(t) => Nested(t, 0)'
    <3>. SUFFICES ASSUME OnlyTask(t) PROVE Nested(t, 0)'
      OBVIOUS
    <3>. DEFINE old == nesting[owner[t]]
                new == nesting'[owner[t]]
                n == Len(m_stack[t])
    <3>1. /\ Len(new) = Len(old) + 1 /\ Len(old) \in Nat
          /\ \A i \in 1..Len(old) : new[i] = old[i]
          /\ new[Len(old) + 1] = frame
      <4>1. new = Append(old, frame)
        BY <1>1, <2>1, <2>2, Types
      <4>. QED
        BY <2>1, <4>1, AppendProperties, LenProperties
    <3>2. n \in Nat /\ (n >= 1 => m_stack[t][n] = cpubind[owner[t]])
      <4>1. m_stack[t] \in Seq(Cpusets)
        BY <1>1, Types
      <4>2. n \in Nat /\ (n >= 1 => m_stack[t] # <<>>)
        BY <4>1, LenProperties, EmptySeq
      <4>. QED
        BY <2>6, <4>2 DEF InSync, bind_top, Last
    <3>3. \A i \in 1..Len(old) : LET j == n - Len(old) + i - 1
                                 IN  j >= 1 => old[i].over = m_stack[t][j]
      BY <2>6 DEF Nested
    <3>. HIDE DEF old, new, n
    <3>4. \A i \in 1..Len(new) : LET j == n - Len(new) + i - 0
                                 IN  j >= 1 => new[i].over = m_stack[t][j]
      <4>. SUFFICES ASSUME NEW i \in 1..Len(new), n - Len(new) + i >= 1
                    PROVE  new[i].over = m_stack[t][n - Len(new) + i]
        BY <3>1, <3>2
      <4>1. CASE i = Len(old) + 1
        BY <2>1, <3>1, <3>2, <4>1
      <4>2. CASE i \in 1..Len(old)
        BY <3>1, <3>2, <3>3, <4>2
      <4>. QED
        BY <3>1, <4>1, <4>2
    <3>. QED
      BY <1>1, <3>4 DEF Nested, old, new, n
  <2>9. NestingFits(t)'
    BY <2>4, <2>8 DEF NestingFits
  <2>. QED
    BY <2>4, <2>5, <2>7, <2>9, ClientFrame DEF TaskInv
<1>. QED
  BY <1>2, <1>3 DEF bind_push, Requests, m

(* A pop takes the top off the stack and asks for what lies under it.      *)
(* Without anything under it no request is made, and no push is open.      *)
LEMMA PopOK == ASSUME IInv, NEW t \in Tasks, bind_pop(t) PROVE IInv'
<1>. DEFINE s == m_stack[t]
            m == Request("SET_CPUBIND", owner[t], Last(Front(s)))
<1>1. /\ TypeOK /\ TaskInv(t) /\ Called(t) /\ UNCHANGED m_connected
      /\ m_stack' = [m_stack EXCEPT ![t] = IF @ = <<>> THEN @ ELSE Front(@)]
  BY DEF IInv, bind_pop
<1>2. /\ s \in Seq(Bindable) /\ Len(s) \in Nat /\ (s = <<>> <=> Len(s) = 0)
      /\ m_stack'[t] = IF s = <<>> THEN s ELSE Front(s)
      /\ \A u \in Tasks \ {t} : m_stack'[u] = m_stack[u]
  <2>1. s \in Seq(Bindable)
    BY <1>1 DEF TaskInv, StackFits
  <2>. QED
    BY <1>1, <2>1, Types, EmptySeq, LenProperties
<1>3. s # <<>> => /\ Front(s) \in Seq(Bindable) /\ Len(Front(s)) = Len(s) - 1
                  /\ \A i \in 1..Len(s) - 1 : Front(s)[i] = s[i]
  BY <1>2, FrontFacts
<1>4. m_stack' \in [Tasks -> Seq(Cpusets)] /\ m_stack'[t] \in Seq(Bindable)
  <2>1. m_stack'[t] \in Seq(Bindable)
    BY <1>2, <1>3
  <2>2. m_stack'[t] \in Seq(Cpusets)
    BY <2>1, SeqMonotonic DEF Bindable
  <2>. QED
    BY <1>1, <2>1, <2>2, Types
<1>5. ASSUME Unnests(t)
      PROVE  /\ nesting' \in [Threads -> Seq(Frame)] /\ nesting'[owner[t]] = <<>>
             /\ \A h \in Threads \ {owner[t]} : nesting'[h] = nesting[h]
  BY <1>1, <1>5, Types, TaskAssumption, EmptySeq DEF Unnests
<1>. HIDE DEF s
<1>6. CASE Len(s) <= 1
  <2>1. Return(t, "idle", "ERR") /\ UNCHANGED rmi_vars /\ Unnests(t)
    BY <1>2, <1>6 DEF bind_pop, s
  <2>2. CASE ~can_send(t)
    BY <1>1, <1>2, <1>4, <1>5, <2>1, <2>2, CallFailsOK DEF Codes
  <2>3. CASE can_send(t)
    <3>. USE DEF Called, Return, Goto, rmi_vars
    <3>1. pc[t] = "idle" /\ pc'[t] = "idle" /\ m_stack'[t] = <<>>
      <4>1. m_stack'[t] = <<>>
        BY <1>2, <1>3, <1>4, <1>6, EmptySeq
      <4>. QED
        BY <1>1, <2>1, <4>1, Types
    <3>2. TypeOK'
      <4>1. nops' \in [Tasks -> Nat] /\ \A u \in Tasks : nops'[u] <= MaxOps[u]
        BY <1>1, Types, TaskAssumption
      <4>2. pc' \in [Tasks -> Waiting \cup {"new", "idle", "closing", "gone"}]
            /\ rc' \in [Tasks -> Codes]
        BY <1>1, <2>1, Types DEF Codes
      <4>. QED
        BY <1>1, <1>4, <1>5, <2>1, <4>1, <4>2, Types, TypesPrime
    <3>3. StepOf(t)
      BY <1>1, <1>2, <1>5, <2>1, <3>1, Types DEF StepOf
    <3>4. Alternates(t)' /\ SocketFits(t)' /\ ReplyFits(t)'
      BY <1>1, <2>1, <3>1 DEF TaskInv, Alternates, SocketFits, ReplyFits, Waiting
    <3>5. RequestFits(t, pipe[t])' /\ RequestFits(t, inbox[t])'
      BY <1>1, <2>1, <3>1 DEF TaskInv, RequestFits, Waiting
    <3>6. StackFits(t)' /\ BindingFits(t)'
      BY <1>4, <3>1 DEF StackFits, BindingFits, InSync
    <3>7. NestingFits(t)'
      <4>1. nesting'[owner[t]] = <<>> /\ Len(nesting'[owner[t]]) = 0
        BY <1>5, <2>1
      <4>. QED
        BY <3>1, <4>1 DEF NestingFits, Nested
    <3>. QED
      BY <3>2, <3>3, <3>4, <3>5, <3>6, <3>7, ClientFrame DEF TaskInv
  <2>. QED
    BY <2>2, <2>3
<1>7. CASE Len(s) > 1
  <2>0. s # <<>> /\ Front(s) # <<>> /\ m_stack'[t] = Front(s) /\ Last(Front(s)) \in Bindable
    <3>1. s # <<>> /\ Front(s) # <<>> /\ m_stack'[t] = Front(s)
      BY <1>2, <1>3, <1>7, EmptySeq
    <3>. QED
      BY <1>3, <3>1, FrontFacts
  <2>1. m \in RequestMsg /\ m.fid = "SET_CPUBIND" /\ m.who = owner[t] /\ m.cpuset = Last(Front(s))
    BY <2>0, RequestFacts DEF Fids, Bindable
  <2>. HIDE DEF m
  <2>2. Requests(t, "pop", m) /\ (IF can_send(t) THEN UNCHANGED nesting ELSE Unnests(t))
    BY <1>7 DEF bind_pop, s, m
  <2>3. CASE ~can_send(t)
    BY <1>1, <1>2, <1>4, <1>5, <2>2, <2>3, CallFailsOK DEF Requests, Codes
  <2>4. CASE can_send(t)
    <3>1. /\ rpc_req(t, m) /\ Goto(t, "pop")
          /\ UNCHANGED <<reply, not_sockets, rc, nesting>>
      BY <2>2, <2>4 DEF Requests
    <3>2. /\ TypeOK' /\ StepOf(t)
          /\ pc[t] = "idle" /\ pc'[t] = "pop" /\ zsock'[t] = "recv"
          /\ pipe'[t] = m /\ reply'[t] = NoMsg
          /\ Alternates(t)' /\ SocketFits(t)' /\ ReplyFits(t)' /\ RequestFits(t, inbox[t])'
          /\ OnlyTask(t)' => OnlyTask(t)
      <4>1. rc' \in [Tasks -> Codes] /\ nesting' \in [Threads -> Seq(Frame)]
        BY <1>1, <3>1, Types
      <4>. QED
        BY <1>1, <1>2, <1>4, <2>1, <2>4, <3>1, <4>1, SendFacts
    <3>3. RequestFits(t, pipe[t])' /\ StackFits(t)'
      BY <1>4, <2>0, <2>1, <3>2, AwaitedFacts DEF RequestFits, StackFits, bind_top, Bindable
    <3>4. BindingFits(t)'
      BY <3>2 DEF BindingFits
    <3>5. OnlyTask(t) => Nested(t, 1)
      BY <1>1, <2>4, <3>2 DEF TaskInv, NestingFits
    <3>6. OnlyTask(t) => Nested(t, 0)'
      <4>. SUFFICES ASSUME OnlyTask(t) PROVE Nested(t, 0)'
        OBVIOUS
      <4>. DEFINE frames == nesting[owner[t]]
      <4>1. \A i \in 1..Len(frames) : LET j == Len(s) - Len(frames) + i - 1
                                      IN  j >= 1 => frames[i].over = s[j]
        BY <3>5 DEF Nested, s
      <4>2. Len(frames) \in Nat
        <5>1. frames \in Seq(Frame)
          BY <1>1, Types, TaskAssumption
        <5>. QED
          BY <5>1, LenProperties
      <4>. HIDE DEF frames
      <4>3. \A i \in 1..Len(frames) : LET j == Len(Front(s)) - Len(frames) + i - 0
                                      IN  j >= 1 => frames[i].over = Front(s)[j]
        <5>. SUFFICES ASSUME NEW i \in 1..Len(frames), Len(s) - 1 - Len(frames) + i >= 1
                      PROVE  frames[i].over = Front(s)[Len(s) - 1 - Len(frames) + i]
          BY <1>2, <1>3, <2>0, <4>2
        <5>. QED
          BY <1>2, <1>3, <2>0, <4>1, <4>2
      <4>. QED
        BY <2>0, <3>1, <4>3 DEF Nested, frames
    <3>7. NestingFits(t)'
      BY <3>2, <3>6 DEF NestingFits
    <3>. QED
      BY <3>2, <3>3, <3>4, <3>7, ClientFrame DEF TaskInv
  <2>. QED
    BY <2>3, <2>4
<1>. QED
  BY <1>2, <1>6, <1>7

(* rpc_rep returns with the reply, or without one after the timeout: then  *)
(* the socket is of no use any more.                                       *)
LEMMA ReturnFacts ==
    ASSUME IInv, NEW t \in Tasks, pc[t] \in {"push", "pop", "query"},
           NEW code \in Codes, Replied(t, code), Return(t, "idle", code),
           zsock' = [zsock EXCEPT ![t] = AfterReply(t)],
           UNCHANGED <<pipe, not_sockets, m_connected, nops>>,
           m_stack' \in [Tasks -> Seq(Cpusets)], nesting' \in [Threads -> Seq(Frame)],
           \A u \in Tasks \ {t} : m_stack'[u] = m_stack[u],
           \A h \in Threads \ {owner[t]} : nesting'[h] = nesting[h]
    PROVE  /\ TypeOK' /\ StepOf(t) /\ pc'[t] = "idle"
           /\ Alternates(t)' /\ SocketFits(t)' /\ ReplyFits(t)'
           /\ RequestFits(t, pipe[t])' /\ RequestFits(t, inbox[t])'
           /\ OnlyTask(t)' => OnlyTask(t)
           /\ can_send(t)' => reply[t] # NoMsg /\ code = reply[t].rc
           /\ code = "SUCCESS" => reply[t] # NoMsg /\ reply[t].rc = "SUCCESS"
<1>. USE DEF Return, Goto, not_sockets, daemon
<1>1. TypeOK /\ TaskInv(t) /\ pc[t] \in Waiting /\ zsock[t] = "recv"
  BY DEF IInv, TaskInv, SocketFits, Waiting
<1>2. /\ reply' \in [Tasks -> ReplyMsg \cup {NoMsg}] /\ reply'[t] = NoMsg
      /\ \A u \in Tasks \ {t} : reply'[u] = reply[u]
      /\ reply[t] # NoMsg => code = reply[t].rc
      /\ reply[t] = NoMsg => code = "ERR_RPC"
  BY <1>1, Types DEF Replied, Received, RecvTimesOut
<1>3. pc'[t] = "idle" /\ zsock'[t] = IF reply[t] # NoMsg THEN "send" ELSE "recv"
  BY <1>1, Types DEF AfterReply
<1>4. TypeOK'
  <2>1. zsock' \in [Tasks -> {"none", "send", "recv", "closed"}]
        /\ pc' \in [Tasks -> Waiting \cup {"new", "idle", "closing", "gone"}]
        /\ rc' \in [Tasks -> Codes]
    BY <1>1, Types DEF AfterReply
  <2>. QED
    BY <1>1, <1>2, <2>1, Types, TypesPrime
<1>5. StepOf(t)
  BY <1>1, <1>2, Types DEF StepOf
<1>6. Alternates(t)' /\ SocketFits(t)' /\ ReplyFits(t)'
  BY <1>1, <1>2, <1>3 DEF TaskInv, Alternates, SocketFits, ReplyFits, Waiting
<1>7. RequestFits(t, pipe[t])' /\ RequestFits(t, inbox[t])'
  BY <1>1, <1>3 DEF TaskInv, RequestFits, Waiting
<1>8. OnlyTask(t)' => OnlyTask(t)
  BY <1>5 DEF OnlyTask, StepOf
<1>9. can_send(t)' => reply[t] # NoMsg
  BY <1>3 DEF can_send
<1>. QED
  BY <1>2, <1>3, <1>4, <1>5, <1>6, <1>7, <1>8, <1>9

LEMMA QueryReturnsOK == ASSUME IInv, NEW t \in Tasks, QueryReturns(t) PROVE IInv'
<1>1. PICK code \in Codes : Replied(t, code) /\ Return(t, "idle", code)
  BY DEF QueryReturns
<1>2. /\ TypeOK /\ TaskInv(t) /\ pc[t] = "query"
      /\ UNCHANGED <<pipe, not_sockets, m_stack, m_connected, nops, nesting>>
      /\ zsock' = [zsock EXCEPT ![t] = AfterReply(t)]
  BY DEF IInv, QueryReturns
<1>3. m_stack \in [Tasks -> Seq(Cpusets)] /\ nesting \in [Threads -> Seq(Frame)]
  BY <1>2, Types
<1>4. /\ TypeOK' /\ StepOf(t) /\ pc'[t] = "idle"
      /\ Alternates(t)' /\ SocketFits(t)' /\ ReplyFits(t)'
      /\ RequestFits(t, pipe[t])' /\ RequestFits(t, inbox[t])'
      /\ OnlyTask(t)' => OnlyTask(t)
  BY <1>1, <1>2, <1>3, ReturnFacts
<1>5. StackFits(t)'
  BY <1>2, <1>4 DEF TaskInv, StackFits
<1>6. BindingFits(t)'
  BY <1>2, <1>4 DEF TaskInv, BindingFits, InSync, bind_top, StepOf
<1>7. NestingFits(t)'
  BY <1>2, <1>4 DEF TaskInv, NestingFits, Nested
<1>. QED
  BY <1>4, <1>5, <1>6, <1>7, ClientFrame DEF TaskInv

(* The innermost frame is closed. *)
LEMMA UnpushFacts ==
    ASSUME TypeOK, NEW t \in Tasks, Unpushes(t)
    PROVE  /\ nesting' \in [Threads -> Seq(Frame)]
           /\ \A h \in Threads \ {owner[t]} : nesting'[h] = nesting[h]
           /\ LET old == nesting[owner[t]]
                  new == nesting'[owner[t]]
              IN  /\ Len(old) \in Nat
                  /\ Len(new) = IF old = <<>> THEN 0 ELSE Len(old) - 1
                  /\ old # <<>> => Len(old) >= 1
                  /\ \A i \in 1..Len(new) : new[i] = old[i]
<1>. DEFINE old == nesting[owner[t]]
            new == IF old = <<>> THEN old ELSE Front(old)
<1>1. owner[t] \in Threads /\ old \in Seq(Frame) /\ nesting \in [Threads -> Seq(Frame)]
  BY Types, TaskAssumption
<1>2. nesting' = [nesting EXCEPT ![owner[t]] = new]
  BY <1>1 DEF Unpushes
<1>. HIDE DEF old
<1>3. /\ new \in Seq(Frame) /\ Len(old) \in Nat
      /\ Len(new) = IF old = <<>> THEN 0 ELSE Len(old) - 1
      /\ old # <<>> => Len(old) >= 1
      /\ \A i \in 1..Len(new) : new[i] = old[i]
  <2>1. CASE old = <<>>
    <3>1. new = <<>> /\ Len(new) = 0 /\ Len(old) = 0 /\ new \in Seq(Frame)
      BY <2>1, EmptySeq
    <3>. QED
      BY <2>1, <3>1
  <2>2. CASE old # <<>>
    <3>1. new = Front(old)
      BY <2>2
    <3>. HIDE DEF new
    <3>2. /\ new \in Seq(Frame) /\ Len(new) = Len(old) - 1 /\ Len(old) \in Nat \ {0}
          /\ \A i \in 1..Len(old) - 1 : new[i] = old[i]
      BY <1>1, <2>2, <3>1, FrontFacts
    <3>. QED
      BY <2>2, <3>2
  <2>. QED
    BY <2>1, <2>2
<1>. HIDE DEF new
<1>4. nesting' \in [Threads -> Seq(Frame)] /\ nesting'[owner[t]] = new
      /\ \A h \in Threads \ {owner[t]} : nesting'[h] = nesting[h]
  BY <1>1, <1>2, <1>3
<1>. QED
  BY <1>3, <1>4 DEF old

(* Closing the frame of a call puts the others back over their bindings. *)
LEMMA UnpushNested ==
    ASSUME TypeOK, NEW t \in Tasks, Unpushes(t), m_stack'[t] = m_stack[t], Nested(t, 0)
    PROVE  Nested(t, 1)'
<1>. DEFINE old == nesting[owner[t]]
            new == nesting'[owner[t]]
            s == m_stack[t]
<1>1. /\ Len(old) \in Nat
      /\ Len(new) = IF old = <<>> THEN 0 ELSE Len(old) - 1
      /\ old # <<>> => Len(old) >= 1
      /\ \A i \in 1..Len(new) : new[i] = old[i]
  BY UnpushFacts
<1>2. Len(s) \in Nat
  <2>1. s \in Seq(Cpusets)
    BY Types
  <2>. QED
    BY <2>1, LenProperties
<1>3. \A i \in 1..Len(old) : LET j == Len(s) - Len(old) + i - 0
                             IN  j >= 1 => old[i].over = s[j]
  BY DEF Nested
<1>. HIDE DEF old, new, s
<1>4. ASSUME NEW i \in 1..Len(new), Len(s) - Len(new) + i - 1 >= 1
      PROVE  new[i].over = s[Len(s) - Len(new) + i - 1]
  <2>0. old # <<>>
    BY <1>1, <1>4
  <2>1. Len(new) = Len(old) - 1 /\ i \in 1..Len(old) /\ new[i] = old[i]
    BY <1>1, <1>4, <2>0
  <2>2. Len(s) - Len(new) + i - 1 = Len(s) - Len(old) + i - 0
    <3>1. Len(old) \in Nat /\ i \in Int
      BY <1>1, <2>1
    <3>. QED
      BY <1>2, <2>1, <3>1
  <2>. QED
    BY <1>3, <1>4, <2>1, <2>2
<1>. QED
  BY <1>4 DEF Nested, old, new, s

(* All of the thread's frames are forgotten. *)
LEMMA UnnestFacts ==
    ASSUME TypeOK, NEW t \in Tasks, Unnests(t)
    PROVE  /\ nesting' \in [Threads -> Seq(Frame)]
           /\ \A h \in Threads \ {owner[t]} : nesting'[h] = nesting[h]
           /\ Nested(t, 1)'
<1>1. owner[t] \in Threads /\ nesting \in [Threads -> Seq(Frame)]
  BY Types, TaskAssumption
<1>2. /\ nesting' \in [Threads -> Seq(Frame)] /\ nesting'[owner[t]] = <<>>
      /\ \A h \in Threads \ {owner[t]} : nesting'[h] = nesting[h]
  BY <1>1, EmptySeq DEF Unnests
<1>3. Len(nesting'[owner[t]]) = 0
  BY <1>2
<1>. QED
  BY <1>2, <1>3 DEF Nested

LEMMA PopReturnsOK == ASSUME IInv, NEW t \in Tasks, PopReturns(t) PROVE IInv'
<1>1. PICK code \in Codes :
         /\ Replied(t, code) /\ Return(t, "idle", code)
         /\ IF code = "SUCCESS" /\ IsInnermost(t) THEN Unpushes(t) ELSE Unnests(t)
  BY DEF PopReturns
<1>2. /\ TypeOK /\ TaskInv(t) /\ pc[t] = "pop"
      /\ UNCHANGED <<pipe, not_sockets, m_stack, m_connected, nops>>
      /\ zsock' = [zsock EXCEPT ![t] = AfterReply(t)]
  BY DEF IInv, PopReturns
<1>3. m_stack' \in [Tasks -> Seq(Cpusets)] /\ nesting' \in [Threads -> Seq(Frame)]
      /\ \A h \in Threads \ {owner[t]} : nesting'[h] = nesting[h]
  BY <1>1, <1>2, Types, UnpushFacts, UnnestFacts
<1>4. /\ TypeOK' /\ StepOf(t) /\ pc'[t] = "idle"
      /\ Alternates(t)' /\ SocketFits(t)' /\ ReplyFits(t)'
      /\ RequestFits(t, pipe[t])' /\ RequestFits(t, inbox[t])'
      /\ OnlyTask(t)' => OnlyTask(t)
      /\ can_send(t)' => reply[t] # NoMsg
  BY <1>1, <1>2, <1>3, ReturnFacts
<1>5. StackFits(t)'
  BY <1>2, <1>4 DEF TaskInv, StackFits
<1>6. BindingFits(t)'
  BY <1>2, <1>4 DEF TaskInv, BindingFits, InSync, bind_top, StepOf
<1>7. NestingFits(t)'
  <2>1. OnlyTask(t) => Nested(t, 0)
    BY <1>2 DEF TaskInv, NestingFits
  <2>2. OnlyTask(t) => Nested(t, 1)'
    BY <1>1, <1>2, <2>1, UnpushNested, UnnestFacts
  <2>. QED
    BY <1>4, <2>2 DEF NestingFits
<1>. QED
  BY <1>4, <1>5, <1>6, <1>7, ClientFrame DEF TaskInv

LEMMA PushReturnsOK == ASSUME IInv, NEW t \in Tasks, PushReturns(t) PROVE IInv'
<1>. DEFINE s == m_stack[t]
<1>1. PICK code \in Codes :
         /\ Replied(t, code) /\ Return(t, "idle", code)
         /\ IF code = "SUCCESS"
            THEN m_stack' = [m_stack EXCEPT ![t] = Append(@, pool[t])] /\ UNCHANGED nesting
            ELSE UNCHANGED m_stack /\ Unpushes(t)
  BY DEF PushReturns
<1>2. /\ TypeOK /\ TaskInv(t) /\ pc[t] = "push"
      /\ UNCHANGED <<pipe, not_sockets, m_connected, nops>>
      /\ zsock' = [zsock EXCEPT ![t] = AfterReply(t)]
  BY DEF IInv, PushReturns
<1>3. /\ s \in Seq(Bindable) /\ s \in Seq(Cpusets) /\ Len(s) \in Nat /\ pool[t] \in Cpusets
      /\ m_stack \in [Tasks -> Seq(Cpusets)] /\ nesting \in [Threads -> Seq(Frame)]
  <2>1. s \in Seq(Bindable) /\ s \in Seq(Cpusets)
    BY <1>2, Types DEF TaskInv, StackFits
  <2>. QED
    BY <1>2, <2>1, Types, TaskAssumption, LenProperties
<1>. HIDE DEF s
<1>4. /\ m_stack' \in [Tasks -> Seq(Cpusets)] /\ nesting' \in [Threads -> Seq(Frame)]
      /\ \A u \in Tasks \ {t} : m_stack'[u] = m_stack[u]
      /\ \A h \in Threads \ {owner[t]} : nesting'[h] = nesting[h]
      /\ code = "SUCCESS" => m_stack'[t] = Append(s, pool[t])
  <2>1. Append(s, pool[t]) \in Seq(Cpusets)
    BY <1>3, AppendProperties
  <2>. QED
    BY <1>1, <1>2, <1>3, <2>1, UnpushFacts DEF s
<1>5. /\ TypeOK' /\ StepOf(t) /\ pc'[t] = "idle"
      /\ Alternates(t)' /\ SocketFits(t)' /\ ReplyFits(t)'
      /\ RequestFits(t, pipe[t])' /\ RequestFits(t, inbox[t])'
      /\ OnlyTask(t)' => OnlyTask(t)
      /\ can_send(t)' => reply[t] # NoMsg /\ code = reply[t].rc
      /\ code = "SUCCESS" => reply[t] # NoMsg /\ reply[t].rc = "SUCCESS"
  BY <1>1, <1>2, <1>4, ReturnFacts
<1>6. OnlyTask(t) => Nested(t, 0)
  BY <1>2 DEF TaskInv, NestingFits
<1>7. CASE code # "SUCCESS"
  <2>1. UNCHANGED m_stack /\ Unpushes(t)
    BY <1>1, <1>7
  <2>2. StackFits(t)'
    BY <1>2, <1>5, <2>1 DEF TaskInv, StackFits
  <2>3. BindingFits(t)'
    BY <1>2, <1>5, <1>7, <2>1 DEF TaskInv, BindingFits, InSync, bind_top, StepOf
  <2>4. OnlyTask(t) => Nested(t, 1)'
    BY <1>2, <1>6, <2>1, UnpushNested
  <2>5. NestingFits(t)'
    BY <1>5, <2>4 DEF NestingFits
  <2>. QED
    BY <1>5, <2>2, <2>3, <2>5, ClientFrame DEF TaskInv
<1>8. CASE code = "SUCCESS"
  <2>. DEFINE new == Append(s, pool[t])
  <2>1. pool[t] \in Bindable
    BY <1>2, <1>5, <1>8 DEF TaskInv, ReplyFits, Waiting
  <2>2. /\ new \in Seq(Bindable) /\ Len(new) = Len(s) + 1 /\ new[Len(s) + 1] = pool[t]
        /\ \A i \in 1..Len(s) : new[i] = s[i]
    BY <1>3, <2>1, AppendProperties
  <2>3. m_stack'[t] = new /\ UNCHANGED nesting
    BY <1>1, <1>4, <1>8
  <2>. HIDE DEF new
  <2>4. StackFits(t)'
    BY <1>5, <2>2, <2>3 DEF StackFits
  <2>5. OnlyTask(t) => cpubind'[owner[t]] = pool[t]
    BY <1>2, <1>5, <1>8 DEF TaskInv, BindingFits, StepOf
  <2>6. BindingFits(t)'
    <3>1. Last(new) = pool[t]
      BY <1>3, <2>2 DEF Last
    <3>. QED
      BY <1>5, <2>3, <2>5, <3>1 DEF BindingFits, InSync, bind_top
  <2>7. OnlyTask(t) => Nested(t, 1)'
    <3>. SUFFICES ASSUME OnlyTask(t) PROVE Nested(t, 1)'
      OBVIOUS
    <3>. DEFINE frames == nesting[owner[t]]
    <3>1. Len(frames) \in Nat
      <4>1. frames \in Seq(Frame)
        BY <1>3, TaskAssumption
      <4>. QED
        BY <4>1, LenProperties
    <3>2. \A i \in 1..Len(frames) : LET j == Len(s) - Len(frames) + i - 0
                                    IN  j >= 1 => frames[i].over = s[j]
      BY <1>6 DEF Nested, s
    <3>. HIDE DEF frames
    <3>3. ASSUME NEW i \in 1..Len(frames), Len(new) - Len(frames) + i - 1 >= 1
          PROVE  frames[i].over = new[Len(new) - Len(frames) + i - 1]
      <4>. DEFINE j == Len(s) - Len(frames) + i - 0
      <4>1. j = Len(new) - Len(frames) + i - 1 /\ j \in 1..Len(s)
        BY <1>3, <2>2, <3>1, <3>3
      <4>2. frames[i].over = s[j]
        BY <3>2, <3>3, <4>1
      <4>. QED
        BY <2>2, <4>1, <4>2
    <3>. QED
      BY <2>3, <3>3 DEF Nested, frames
  <2>8. NestingFits(t)'
    BY <1>5, <2>7 DEF NestingFits
  <2>. QED
    BY <1>5, <2>4, <2>6, <2>8, ClientFrame DEF TaskInv
<1>. QED
  BY <1>7, <1>8

(* The hello has been answered, or not: in the one case where the task     *)
(* goes on, the next request is on its way.                                *)
LEMMA HelloReturnsOK == ASSUME IInv, NEW t \in Tasks, HelloReturns(t) PROVE IInv'
<1>. USE DEF not_sockets, daemon, Goto, Return
<1>. DEFINE m == Request("GET_CPUBIND", owner[t], NoCpuset)
<1>0. m \in RequestMsg /\ m.fid = "GET_CPUBIND" /\ m.who = owner[t]
  BY RequestFacts DEF Fids
<1>. HIDE DEF m
<1>1. PICK code \in Codes :
         /\ Replied(t, code)
         /\ \/ HelloFails(t, code)
            \/ code = "SUCCESS" /\ (TopologyFails(t) \/ HelloSucceeds(t))
  BY DEF HelloReturns
<1>2. /\ TypeOK /\ TaskInv(t) /\ pc[t] = "hello" /\ zsock[t] = "recv"
      /\ UNCHANGED <<not_sockets, m_stack, nops, nesting>>
  BY DEF IInv, HelloReturns, TaskInv, SocketFits, Waiting
<1>3. /\ reply' \in [Tasks -> ReplyMsg \cup {NoMsg}] /\ reply'[t] = NoMsg
      /\ \A u \in Tasks \ {t} : reply'[u] = reply[u]
      /\ code = "SUCCESS" => reply[t] # NoMsg
  BY <1>1, <1>2, Types DEF Replied, Received, RecvTimesOut
<1>4. m_stack'[t] \in Seq(Bindable)
  BY <1>2 DEF TaskInv, StackFits
<1>5. CASE HelloFails(t, code)
  <2>1. /\ UNCHANGED <<pipe, m_connected>> /\ pc'[t] = "gone"
        /\ zsock'[t] = IF reply[t] # NoMsg THEN "send" ELSE "recv"
    BY <1>2, <1>5, Types DEF HelloFails, AfterReply
  <2>2. TypeOK'
    <3>1. zsock' \in [Tasks -> {"none", "send", "recv", "closed"}]
          /\ pc' \in [Tasks -> Waiting \cup {"new", "idle", "closing", "gone"}]
          /\ rc' \in [Tasks -> Codes]
      BY <1>2, <1>5, Types DEF HelloFails, AfterReply
    <3>. QED
      BY <1>2, <1>3, <2>1, <3>1, Types, TypesPrime
  <2>3. StepOf(t)
    BY <1>2, <1>3, <1>5, <2>1, Types DEF StepOf, HelloFails
  <2>4. Alternates(t)'
    BY <1>2, <1>3, <2>1 DEF TaskInv, Alternates
  <2>5. RequestFits(t, pipe[t])' /\ RequestFits(t, inbox[t])'
    BY <1>2, <2>1 DEF TaskInv, RequestFits, Waiting
  <2>. QED
    BY <1>4, <2>1, <2>2, <2>3, <2>4, <2>5, RestsOK
<1>6. CASE code = "SUCCESS" /\ TopologyFails(t)
  <2>1. UNCHANGED pipe /\ pc'[t] = "closing" /\ zsock'[t] = "closed"
    BY <1>2, <1>6, Types DEF TopologyFails
  <2>2. TypeOK'
    <3>1. zsock' \in [Tasks -> {"none", "send", "recv", "closed"}]
          /\ pc' \in [Tasks -> Waiting \cup {"new", "idle", "closing", "gone"}]
          /\ rc' \in [Tasks -> Codes] /\ m_connected' \in [Tasks -> BOOLEAN]
      BY <1>2, <1>6, Types DEF TopologyFails, Codes
    <3>. QED
      BY <1>2, <1>3, <2>1, <3>1, Types, TypesPrime
  <2>3. StepOf(t)
    BY <1>2, <1>3, <1>6, <2>1, Types DEF StepOf, TopologyFails
  <2>4. Alternates(t)'
    BY <1>2, <1>3, <2>1 DEF TaskInv, Alternates
  <2>5. RequestFits(t, pipe[t])' /\ RequestFits(t, inbox[t])'
    BY <1>2, <2>1 DEF TaskInv, RequestFits, Waiting
  <2>. QED
    BY <1>4, <2>1, <2>2, <2>3, <2>4, <2>5, RestsOK
<1>7. CASE code = "SUCCESS" /\ HelloSucceeds(t)
  <2>1. /\ pipe' = [pipe EXCEPT ![t] = m] /\ zsock' = [zsock EXCEPT ![t] = "recv"]
        /\ pc' = [pc EXCEPT ![t] = "init"] /\ UNCHANGED rc
        /\ m_connected' = [m_connected EXCEPT ![t] = TRUE]
    BY <1>7 DEF HelloSucceeds, rpc_req, m
  <2>2. pipe'[t] = m /\ zsock'[t] = "recv" /\ pc'[t] = "init"
    BY <1>2, <2>1, Types
  <2>3. TypeOK'
    <3>1. /\ zsock' \in [Tasks -> {"none", "send", "recv", "closed"}]
          /\ pipe' \in [Tasks -> RequestMsg \cup {NoMsg}]
          /\ pc' \in [Tasks -> Waiting \cup {"new", "idle", "closing", "gone"}]
          /\ m_connected' \in [Tasks -> BOOLEAN]
      BY <1>0, <1>2, <2>1, Types DEF Waiting
    <3>. QED
      BY <1>2, <1>3, <2>1, <3>1, Types, TypesPrime
  <2>4. StepOf(t)
    BY <1>2, <1>3, <2>1, <2>2, Types DEF StepOf
  <2>5. Alternates(t)' /\ SocketFits(t)' /\ ReplyFits(t)'
    BY <1>2, <1>3, <1>7, <2>2 DEF TaskInv, Alternates, SocketFits, ReplyFits
  <2>6. RequestFits(t, pipe[t])' /\ RequestFits(t, inbox[t])'
    BY <1>0, <1>2, <1>3, <1>7, <2>2, AwaitedFacts DEF TaskInv, Alternates, RequestFits
  <2>7. StackFits(t)' /\ BindingFits(t)'
    BY <1>3, <1>4, <2>2 DEF StackFits, BindingFits
  <2>8. NestingFits(t)'
    BY <1>2, <2>2, <2>4 DEF TaskInv, NestingFits, OnlyTask, StepOf
  <2>. QED
    BY <2>3, <2>4, <2>5, <2>6, <2>7, <2>8, ClientFrame DEF TaskInv
<1>. QED
  BY <1>1, <1>5, <1>6, <1>7

(* The bottom of the stack is the binding the server has reported, which   *)
(* nobody but this task could have changed since.                          *)
LEMMA InitStackOK == ASSUME IInv, NEW t \in Tasks, m_init_bind_stack(t) PROVE IInv'
<1>. USE DEF not_sockets, daemon, Goto, Return
<1>. DEFINE s == m_stack[t]
            bottom == reply[t].cpuset
<1>1. /\ TypeOK /\ TaskInv(t) /\ pc[t] = "init" /\ zsock[t] = "recv"
      /\ UNCHANGED <<pipe, not_sockets, m_connected, nops, nesting>>
  BY DEF IInv, m_init_bind_stack, TaskInv, SocketFits, Waiting
<1>2. s \in Seq(Bindable)
  BY <1>1 DEF TaskInv, StackFits
<1>. HIDE DEF s, bottom
<1>3. CASE /\ Received(t) /\ zsock' = [zsock EXCEPT ![t] = "send"]
           /\ m_stack' = [m_stack EXCEPT ![t] = Append(@, reply[t].cpuset)]
           /\ Return(t, "idle", "SUCCESS")
  <2>1. /\ reply[t] # NoMsg /\ reply'[t] = NoMsg
        /\ reply' \in [Tasks -> ReplyMsg \cup {NoMsg}]
        /\ \A u \in Tasks \ {t} : reply'[u] = reply[u]
    BY <1>1, <1>3, Types DEF Received
  <2>2. bottom \in Bindable
    BY <1>1, <2>1 DEF TaskInv, ReplyFits, bottom, Waiting
  <2>3. /\ Append(s, bottom) \in Seq(Bindable) /\ Append(s, bottom) \in Seq(Cpusets)
        /\ Last(Append(s, bottom)) = bottom
    <3>1. /\ Append(s, bottom) \in Seq(Bindable)
          /\ Len(Append(s, bottom)) = Len(s) + 1 /\ Append(s, bottom)[Len(s) + 1] = bottom
      BY <1>2, <2>2, AppendProperties
    <3>2. Append(s, bottom) \in Seq(Cpusets)
      BY <3>1, SeqMonotonic DEF Bindable
    <3>. QED
      BY <3>1, <3>2 DEF Last
  <2>4. m_stack'[t] = Append(s, bottom) /\ pc'[t] = "idle" /\ zsock'[t] = "send"
    BY <1>1, <1>3, Types DEF s, bottom
  <2>5. TypeOK'
    <3>1. /\ m_stack' \in [Tasks -> Seq(Cpusets)]
          /\ zsock' \in [Tasks -> {"none", "send", "recv", "closed"}]
          /\ pc' \in [Tasks -> Waiting \cup {"new", "idle", "closing", "gone"}]
          /\ rc' \in [Tasks -> Codes]
      BY <1>1, <1>3, <2>3, Types DEF s, bottom, Codes
    <3>. QED
      BY <1>1, <2>1, <3>1, Types, TypesPrime
  <2>6. StepOf(t)
    BY <1>1, <1>3, <2>1, <2>4, Types DEF StepOf
  <2>7. Alternates(t)' /\ SocketFits(t)' /\ ReplyFits(t)'
    BY <1>1, <2>1, <2>4 DEF TaskInv, Alternates, SocketFits, ReplyFits, Waiting
  <2>8. RequestFits(t, pipe[t])' /\ RequestFits(t, inbox[t])' /\ StackFits(t)'
    BY <1>1, <2>3, <2>4 DEF TaskInv, RequestFits, StackFits, Waiting
  <2>9. OnlyTask(t)' => OnlyTask(t)
    BY <2>6 DEF OnlyTask, StepOf
  <2>10. BindingFits(t)'
    BY <1>1, <2>1, <2>3, <2>4, <2>6, <2>9
       DEF TaskInv, BindingFits, InSync, bind_top, bottom, StepOf
  <2>11. NestingFits(t)'
    <3>1. OnlyTask(t)' => nesting'[owner[t]] = <<>>
      BY <1>1, <2>9 DEF TaskInv, NestingFits
    <3>2. OnlyTask(t)' => Nested(t, 1)'
      BY <3>1 DEF Nested
    <3>. QED
      BY <2>4, <3>2 DEF NestingFits
  <2>. QED
    BY <2>5, <2>6, <2>7, <2>8, <2>10, <2>11, ClientFrame DEF TaskInv
<1>4. CASE zsocket_close(t) /\ Return(t, "closing", "ERR_RPC") /\ UNCHANGED m_stack
  <2>1. /\ pc'[t] = "closing" /\ zsock'[t] = "closed" /\ reply'[t] = NoMsg
        /\ m_stack'[t] \in Seq(Bindable)
    BY <1>1, <1>2, <1>4, Types DEF zsocket_close, s
  <2>2. TypeOK'
    BY <1>1, <1>4, Types, TypesPrime DEF zsocket_close, Codes
  <2>3. StepOf(t)
    BY <1>1, <1>4, <2>1, Types DEF StepOf, zsocket_close
  <2>4. Alternates(t)'
    BY <1>1, <2>1 DEF TaskInv, Alternates
  <2>5. RequestFits(t, pipe[t])' /\ RequestFits(t, inbox[t])'
    BY <1>1, <2>1 DEF TaskInv, RequestFits, Waiting
  <2>. QED
    BY <2>1, <2>2, <2>3, <2>4, <2>5, RestsOK
<1>. QED
  BY <1>3, <1>4 DEF m_init_bind_stack

-----------------------------------------------------------------------------
(* The invariant is inductive: one case per action. *)
LEMMA NextOK == IInv /\ [Next]_vars => IInv'
<1>. SUFFICES ASSUME IInv, [Next]_vars PROVE IInv'
  OBVIOUS
<1>1. ASSUME NEW t \in Tasks,
             \/ DiscoveryFails(t) \/ connect_to_server(t) \/ bind_push(t) \/ bind_pop(t)
             \/ query(t) \/ send_shutdown_message(t) \/ destroy(t)
      PROVE  IInv'
  BY <1>1, DiscoveryFailsOK, ConnectOK, PushOK, PopOK, QueryOK, ShutdownOK, DestroyOK
<1>2. ASSUME NEW t \in Tasks, InCall(t) PROVE IInv'
  BY <1>2, HelloReturnsOK, InitStackOK, PushReturnsOK, PopReturnsOK, QueryReturnsOK, DestroyOK
     DEF InCall
<1>3. ASSUME UNCHANGED task_vars,
             ServerLoop \/ start \/ server_signal_handler \/ \E t \in Tasks : Transmit(t)
      PROVE  IInv'
  BY <1>3, CheckSignalOK, ServerOK, DispatchOK, TransmitOK DEF ServerLoop, Tasks
<1>4. CASE UNCHANGED vars
  <2>1. /\ UNCHANGED <<zsock, pipe, inbox, reply, server, signaled, nstarts, cpubind>>
        /\ UNCHANGED task_vars /\ TypeOK
    BY <1>4 DEF vars, rmi_vars, IInv
  <2>2. TypeOK'
    BY <2>1, Types, TypesPrime DEF task_vars
  <2>. QED
    BY <2>1, <2>2, LoseOK
<1>. QED
  BY <1>1, <1>2, <1>3, <1>4 DEF Next

(* The inductive invariant holds in every state, with any number of tasks, *)
(* threads and restarts of the server.                                     *)
THEOREM Invariance == Spec => []IInv
BY InitOK, NextOK, PTL DEF Spec

(* Every variable of the clients, the server and the tasks keeps its type; *)
(* in particular no thread is ever bound to a cpuset the OS refuses.       *)
THEOREM TypeCorrect == Spec => []TypeOK
<1>1. IInv => TypeOK
  BY DEF IInv
<1>. QED
  BY <1>1, Invariance, PTL

(* A client never has more than one message between it and the server, and *)
(* none while its socket may send: the alternation rpc_req and rpc_rep     *)
(* rely on, through timeouts, lost replies, shutdowns and restarts.        *)
THEOREM StrictAlternation == Spec => []OneOutstanding
<1>1. IInv => OneOutstanding
  <2>. SUFFICES ASSUME IInv, NEW c \in Clients
                PROVE  LET messages == {q \in {"pipe", "inbox", "reply"} :
                                          CASE q = "pipe"  -> pipe[c] # NoMsg
                                            [] q = "inbox" -> inbox[c] # NoMsg
                                            [] q = "reply" -> reply[c] # NoMsg}
                       IN  /\ Cardinality(messages) <= 1
                           /\ zsock[c] \in {"none", "send"} => messages = {}
                           /\ zsock[c] = "closed" => reply[c] = NoMsg
    BY DEF OneOutstanding
  <2>. DEFINE messages == {q \in {"pipe", "inbox", "reply"} :
                              CASE q = "pipe"  -> pipe[c] # NoMsg
                                [] q = "inbox" -> inbox[c] # NoMsg
                                [] q = "reply" -> reply[c] # NoMsg}
  <2>1. Alternates(c)
    BY DEF IInv, TaskInv, Tasks
  <2>2. messages \subseteq {"pipe", "inbox", "reply"}
        /\ ("pipe" \in messages <=> pipe[c] # NoMsg)
        /\ ("inbox" \in messages <=> inbox[c] # NoMsg)
        /\ ("reply" \in messages <=> reply[c] # NoMsg)
    OBVIOUS
  <2>. HIDE DEF messages
  <2>3. messages \in {{}, {"pipe"}, {"inbox"}, {"reply"}}
    BY <2>1, <2>2 DEF Alternates
  <2>4. Cardinality(messages) <= 1
    <3>1. \A q : Cardinality({q}) = 1
      BY FS_Singleton
    <3>2. Cardinality(messages) \in {0, 1}
      BY <2>3, <3>1, FS_EmptySet
    <3>. QED
      BY <3>2
  <2>5. zsock[c] \in {"none", "send"} => messages = {}
    BY <2>1, <2>2 DEF Alternates
  <2>6. zsock[c] = "closed" => reply[c] = NoMsg
    BY <2>1 DEF Alternates
  <2>. QED
    BY <2>4, <2>5, <2>6 DEF messages
<1>. QED
  BY <1>1, Invariance, PTL

(* The reply a call finds in its socket is the answer to its own request,  *)
(* never to an earlier one that timed out: rpc_rep does not compare.       *)
RepliesMatch ==
    \A t \in Tasks : pc[t] \in Waiting /\ reply[t] # NoMsg => reply[t].fid = Awaited[pc[t]]

(* The same, as a theorem of the specification. *)
THEOREM RepliesAnswerTheCall == Spec => []RepliesMatch
<1>1. IInv => RepliesMatch
  BY DEF IInv, TaskInv, ReplyFits, RepliesMatch
<1>. QED
  BY <1>1, Invariance, PTL

(* The top of the bind stack is what the thread is bound to, for a thread  *)
(* with one scope whose calls have not timed out.                          *)
THEOREM StackTellsTheTruth == Spec => []TopIsBinding
<1>1. IInv => TopIsBinding
  BY DEF IInv, TaskInv, BindingFits, InSync, TopIsBinding
<1>. QED
  BY <1>1, Invariance, PTL

(* qv_scope_bind_pop restores what the matching push has replaced, if      *)
(* every thread uses the task of one scope only.  (With two it may not.)   *)
THEOREM PopsRestore ==
    ASSUME \A t, u \in Tasks : owner[t] = owner[u] => t = u
    PROVE  Spec => PopRestores
<1>1. ASSUME IInv, [Next]_vars, NEW t \in Tasks,
             pc[t] = "pop", pc'[t] = "idle", rc'[t] = "SUCCESS", IsInnermost(t)
      PROVE  cpubind[owner[t]] = Last(nesting[owner[t]]).over
  <2>1. TypeOK /\ TaskInv(t) /\ OnlyTask(t)
    BY <1>1 DEF IInv, OnlyTask
  <2>2. PopReturns(t)
    <3>1. CASE UNCHANGED pc
      BY <1>1, <3>1
    <3>2. CASE \E u \in Tasks :
                  \/ DiscoveryFails(u) \/ connect_to_server(u) \/ bind_push(u) \/ bind_pop(u)
                  \/ query(u) \/ send_shutdown_message(u) \/ destroy(u) \/ InCall(u)
      <4>1. PICK u \in Tasks :
                  \/ DiscoveryFails(u) \/ connect_to_server(u) \/ bind_push(u) \/ bind_pop(u)
                  \/ query(u) \/ send_shutdown_message(u) \/ destroy(u) \/ InCall(u)
        BY <3>2
      <4>2. \E label : pc' = [pc EXCEPT ![u] = label]
        BY <4>1
           DEF DiscoveryFails, connect_to_server, bind_push, bind_pop, query, Requests,
               send_shutdown_message, destroy, InCall, HelloReturns, HelloFails, TopologyFails,
               HelloSucceeds, m_init_bind_stack, PushReturns, PopReturns, QueryReturns,
               zctx_destroy, Return, Goto
      <4>3. u = t
        BY <1>1, <2>1, <4>2, Types
      <4>. QED
        BY <1>1, <4>1, <4>3
           DEF DiscoveryFails, connect_to_server, bind_push, bind_pop, query, Called,
               send_shutdown_message, destroy, InCall, HelloReturns, m_init_bind_stack,
               PushReturns, QueryReturns, zctx_destroy
    <3>. QED
      BY <1>1, <3>1, <3>2 DEF Next, vars, task_vars
  <2>3. reply[t] # NoMsg
    <3>1. PICK code \in Codes : Replied(t, code) /\ rc' = [rc EXCEPT ![t] = code]
      BY <2>2 DEF PopReturns, Return
    <3>2. code = "SUCCESS"
      BY <1>1, <2>1, <3>1, Types
    <3>. QED
      BY <3>1, <3>2 DEF Replied, Received
  <2>. DEFINE frames == nesting[owner[t]]
              s == m_stack[t]
  <2>4. s # <<>> /\ Last(s) = cpubind[owner[t]]
    BY <1>1, <2>1, <2>3 DEF TaskInv, StackFits, BindingFits, InSync, bind_top
  <2>5. s \in Seq(Cpusets) /\ frames \in Seq(Frame) /\ frames # <<>>
    BY <1>1, <2>1, Types, TaskAssumption DEF IsInnermost
  <2>6. Len(s) \in Nat \ {0} /\ Len(frames) \in Nat \ {0}
    BY <2>4, <2>5, EmptySeq
  <2>7. \A i \in 1..Len(frames) : LET j == Len(s) - Len(frames) + i - 0
                                  IN  j >= 1 => frames[i].over = s[j]
    BY <1>1, <2>1 DEF TaskInv, NestingFits, Nested
  <2>. HIDE DEF frames, s
  <2>8. frames[Len(frames)].over = s[Len(s)]
    <3>1. Len(s) - Len(frames) + Len(frames) - 0 = Len(s) /\ Len(frames) \in 1..Len(frames)
      BY <2>6
    <3>. QED
      BY <2>6, <2>7, <3>1
  <2>. QED
    BY <2>4, <2>8 DEF Last, frames, s
<1>2. IInv /\ [Next]_vars =>
        [\A t \in Tasks :
           (pc[t] = "pop" /\ pc'[t] = "idle" /\ rc'[t] = "SUCCESS" /\ IsInnermost(t))
              => cpubind[owner[t]] = Last(nesting[owner[t]]).over]_vars
  BY <1>1
<1>. QED
  BY <1>2, Invariance, PTL DEF Spec, PopRestores

=============================================================================
