------------------------------- MODULE Session -------------------------------
(***************************************************************************)
(* How the ranks of an MPI job on one node come to have a server: the part *)
(* of qvi_mpi's constructor that starts the daemon, the connection of each *)
(* rank's first task, and the life of a daemon (quo-vadisd.cc), of which   *)
(* other jobs or users may start more at any moment.                       *)
(*                                                                         *)
(* The node's representative asks only itself for QV_PORT: the             *)
(* communicator of the representatives is split off the node's, and so has *)
(* a single member.  Sessions are discovered by looking for processes with *)
(* the daemon's name; a process has it from its exec to its end.           *)
(*                                                                         *)
(* A port is a text until qvi_stoi has read it, and Malformed is one that  *)
(* cannot be read, in an environment or on a command line.  (--port=1=2,   *)
(* which the daemon can read and the others cannot, counts as Malformed.)  *)
(***************************************************************************)
EXTENDS Integers, FiniteSets

CONSTANTS
    Ranks,            \* the ranks on the node
    rep,              \* the representative, rank 0 of the node's communicator
    Users, me,        \* the users of the node, and the one who runs the job
    Ports,            \* the port numbers in use
    DefaultPort,      \* 57550
    QVI_PORT_UNSET,   \* not a port
    Malformed,        \* no number
    env,              \* rank -> the value of QV_PORT in its environment
    Daemons           \* PIDs of daemons; bounds how many are ever started

ASSUME SessionAssumption ==
    /\ rep \in Ranks /\ me \in Users /\ "none" \notin Users
    /\ DefaultPort \in Ports /\ QVI_PORT_UNSET \notin Ports \cup {Malformed}
    /\ Malformed \notin Ports /\ Daemons \subseteq Nat \ {0}
    /\ env \in [Ranks -> Ports \cup {QVI_PORT_UNSET, Malformed}]

VARIABLES
    dpc,         \* daemon -> where it is in start() of quo-vadisd.cc
    dport,       \* daemon -> its port
    duser,       \* daemon -> the user it runs as
    signaled,    \* daemon -> was it told to stop?
    created,     \* daemon -> created_session_dir
    sdir,        \* port -> the owner of its session directory, or "none"
    topo,        \* the daemons whose topology file (m_topo_file) exists
    robbed,      \* daemons whose file the clean-up of another took (history)
    rpc,         \* rank -> where it is in the constructor of its group
    target,      \* rank -> the port it says hello to (portno, a local variable)
    hwtopo_path, \* rank -> the daemon whose file the reply names, or 0 (local)
    disturbed    \* has a daemon been stopped or met with the directory of
                 \* another user, has a call failed, was a port unreadable
                 \* or a process too slow? (history)

daemons == <<dpc, dport, duser, signaled, created>>
files == <<sdir, topo, robbed>>
ranks == <<rpc, target, hwtopo_path>>
vars == <<dpc, dport, duser, signaled, created, sdir, topo, robbed,
          rpc, target, hwtopo_path, disturbed>>

(* Process numbers are given out in order. *)
Unborn == {d \in Daemons : dpc[d] = "none" /\ \A e \in Daemons : e < d => dpc[e] # "none"}
Starting == {"running", "mkdir", "export", "bind"}
Bound == {"serve", "cleanup", "rmdir", "close"}

(* qvi_running: the processes with the name of the daemon. *)
Running == {d \in Daemons : dpc[d] \in Starting \cup Bound}

(* A directory may be what a daemon that was killed has left behind, of    *)
(* any user; so may be files in it, which no hello names.                  *)
Init ==
    /\ dpc = [d \in Daemons |-> "none"]
    /\ dport = [d \in Daemons |-> DefaultPort]
    /\ duser = [d \in Daemons |-> me]
    /\ signaled = [d \in Daemons |-> FALSE]
    /\ created = [d \in Daemons |-> FALSE]
    /\ sdir \in [Ports -> Users \cup {"none"}]
    /\ topo = {} /\ robbed = {}
    /\ rpc = [r \in Ranks |-> IF r = rep THEN "start" ELSE "barrier"]
    /\ target = [r \in Ranks |-> QVI_PORT_UNSET]
    /\ hwtopo_path = [r \in Ranks |-> 0]
    /\ disturbed = FALSE

-----------------------------------------------------------------------------
(* The daemon. *)

Goto(d, label) == dpc' = [dpc EXCEPT ![d] = label]

(* qvi_panic_log_error: _exit() without destructors or clean-up. *)
Panics(d) == Goto(d, "gone") /\ UNCHANGED <<created, files>>

(* A child process that is to become daemon d. *)
Forks(d, user, portno) ==
    /\ dpc' = [dpc EXCEPT ![d] = "forked"]
    /\ duser' = [duser EXCEPT ![d] = user]
    /\ dport' = [dport EXCEPT ![d] = portno]
    /\ UNCHANGED <<signaled, created, files>>

(* Another job's representative, or a user. *)
StartedByOthers ==
    /\ \E d \in Unborn, user \in Users, portno \in Ports \cup {Malformed} : Forks(d, user, portno)
    /\ UNCHANGED <<ranks, disturbed>>

(* The exec, which fails if the daemon is not in PATH. *)
Exec(d) ==
    /\ dpc[d] = "forked"
    /\ \/ Goto(d, "running") /\ UNCHANGED disturbed
       \/ Goto(d, "gone") /\ disturbed' = TRUE
    /\ UNCHANGED <<dport, duser, signaled, created, files, ranks>>

(* parse_args or determine_connection_info cannot read the port. *)
BadPort(d) ==
    /\ dpc[d] = "running" /\ dport[d] = Malformed
    /\ Goto(d, "gone")
    /\ UNCHANGED <<dport, duser, signaled, created, files, ranks, disturbed>>

(* The directory can be read and written (0755) by the user who made it. *)
Usable(d) == sdir[dport[d]] = duser[d]

(* The directory is another user's, and no daemon of that user is there. *)
LeftOver(d) ==
    /\ ~Usable(d)
    /\ \A e \in Running : dport[e] = dport[d] => duser[e] # sdir[dport[d]]

(* A daemon takes an existing directory for its own. *)
Faulty_session_dir_exists(d) ==
    /\ dpc[d] = "running" /\ dport[d] # Malformed
    /\ Goto(d, IF Usable(d) THEN "export" ELSE "mkdir")
    /\ created' = [created EXCEPT ![d] = Usable(d)]
    /\ UNCHANGED <<dport, duser, signaled, files, ranks, disturbed>>

(* make_session_dir: a directory that is usable is used. *)
session_dir_exists(d) ==
    /\ dpc[d] = "running" /\ dport[d] # Malformed
    /\ Goto(d, IF Usable(d) THEN "export" ELSE "mkdir")
    /\ UNCHANGED <<dport, duser, signaled, created, files, ranks, disturbed>>

(* make_session_dir: mkdir() fails if there is a directory, another user's *)
(* or one that has appeared since.                                         *)
make_session_dir(d) ==
    /\ dpc[d] = "mkdir"
    /\ \/ /\ sdir[dport[d]] = "none"
          /\ sdir' = [sdir EXCEPT ![dport[d]] = duser[d]]
          /\ created' = [created EXCEPT ![d] = TRUE]
          /\ Goto(d, "export") /\ UNCHANGED <<topo, robbed, disturbed>>
       \/ /\ sdir[dport[d]] # "none" /\ Panics(d)
          /\ disturbed' = (disturbed \/ LeftOver(d))
    /\ UNCHANGED <<dport, duser, signaled, ranks>>

(* The topology is written to a file of the daemon's own (topo_fname has   *)
(* its PID) in the directory, if that is still usable.  (There are two,    *)
(* with and without SMT; they come and go together.)                       *)
export_hwtopo(d) ==
    /\ dpc[d] = "export"
    /\ \/ /\ Usable(d)
          /\ topo' = topo \cup {d}
          /\ Goto(d, "bind") /\ UNCHANGED <<created, sdir, robbed>>
       \/ ~Usable(d) /\ Panics(d)
    /\ UNCHANGED <<dport, duser, signaled, ranks, disturbed>>

(* qvi_rmall: the files of a port, whoever wrote them. *)
FilesOn(portno) == {d \in topo : dport[d] = portno}

PortTaken(portno) == \E e \in Daemons : dport[e] = portno /\ dpc[e] \in Bound

(* A daemon that cannot bind cleans up before it exits. *)
Faulty_start_rmi_server(d) ==
    /\ dpc[d] = "bind"
    /\ IF PortTaken(dport[d])
       THEN /\ Goto(d, "gone")
            /\ topo' = IF created[d] THEN topo \ FilesOn(dport[d]) ELSE topo
            /\ sdir' = [sdir EXCEPT ![dport[d]] = IF created[d] THEN "none" ELSE @]
       ELSE Goto(d, "serve") /\ UNCHANGED <<sdir, topo>>
    /\ UNCHANGED <<dport, duser, signaled, created, robbed, ranks, disturbed>>

(* start_rmi_server: the port is bound, unless it is in use. *)
start_rmi_server(d) ==
    /\ dpc[d] = "bind"
    /\ IF PortTaken(dport[d])
       THEN Panics(d)
       ELSE Goto(d, "serve") /\ UNCHANGED <<created, files>>
    /\ UNCHANGED <<dport, duser, signaled, ranks, disturbed>>

(* The service loop is left. *)
LeaveLoop(d) ==
    /\ dpc[d] = "serve" /\ signaled[d]
    /\ Goto(d, "cleanup")
    /\ UNCHANGED <<dport, duser, signaled, created, files, ranks, disturbed>>

(* The daemon that made the directory removes all that is in it ... *)
cleanup(d) ==
    /\ dpc[d] = "cleanup"
    /\ \/ /\ created[d]
          /\ topo' = topo \ FilesOn(dport[d])
          /\ robbed' = robbed \cup ((FilesOn(dport[d]) \cap Running) \ {d})
          /\ Goto(d, "rmdir")
       \/ ~created[d] /\ Goto(d, "close") /\ UNCHANGED <<topo, robbed>>
    /\ UNCHANGED <<dport, duser, signaled, created, sdir, ranks, disturbed>>

(* ... and then the directory, which fails if a file has appeared in it. *)
rmdir(d) ==
    /\ dpc[d] = "rmdir"
    /\ sdir' = [sdir EXCEPT ![dport[d]] = IF FilesOn(dport[d]) = {} THEN "none" ELSE @]
    /\ Goto(d, "close")
    /\ UNCHANGED <<dport, duser, signaled, created, topo, robbed, ranks, disturbed>>

(* The destructor of the server closes its socket, and then the destructor *)
(* of qvi_hwloc unlinks the daemon's own file; nobody can see the order.   *)
close_server(d) ==
    /\ dpc[d] = "close"
    /\ Goto(d, "gone")
    /\ topo' = topo \ {d}
    /\ UNCHANGED <<dport, duser, signaled, created, sdir, robbed, ranks, disturbed>>

(* A signal or a shutdown message; during the start it is only noted. *)
Signal(d) ==
    /\ dpc[d] \in Starting \cup {"serve"} /\ ~signaled[d]
    /\ signaled' = [signaled EXCEPT ![d] = TRUE]
    /\ disturbed' = TRUE
    /\ UNCHANGED <<dpc, dport, duser, created, files, ranks>>

Crash(d) ==
    /\ d \in Running
    /\ Goto(d, "gone")
    /\ disturbed' = TRUE
    /\ UNCHANGED <<dport, duser, signaled, created, files, ranks>>

DaemonStep(d) ==
    \/ Exec(d) \/ BadPort(d) \/ session_dir_exists(d) \/ make_session_dir(d)
    \/ export_hwtopo(d) \/ start_rmi_server(d)
    \/ LeaveLoop(d) \/ cleanup(d) \/ rmdir(d) \/ close_server(d)

-----------------------------------------------------------------------------
(* The ranks. *)

Rank(r, label) == rpc' = [rpc EXCEPT ![r] = label]
Uses(r, portno) == target' = [target EXCEPT ![r] = portno]
Loads(r, d) == hwtopo_path' = [hwtopo_path EXCEPT ![r] = d]

(* discover_impl: daemons whose port is the one that is asked for, or any. *)
discover_impl(portno) ==
    {d \in Running : dport[d] \in (IF portno = QVI_PORT_UNSET THEN Ports ELSE {portno})}

(* The ports that qvi_stoi is to read: QV_PORT's, and of each daemon. *)
TextsRead(r) == {env[r]} \cup {dport[d] : d \in Running}

(* Giving up is premature if a process is about to become such a daemon. *)
NotDiscovered(portno) ==
    /\ discover_impl(portno) = {} /\ \A d \in Running : dport[d] # Malformed
    /\ disturbed' = (disturbed \/ \E d \in Daemons : dpc[d] = "forked"
                                                    /\ portno \in {dport[d], QVI_PORT_UNSET})

(* qvi_stoi throws.  The representative leaves m_start_daemons, and does   *)
(* not come to the barrier; the error of a later discovery is returned.    *)
PortUnreadable(r) ==
    /\ rpc[r] \in {"start", "discover", "discover any"}
    /\ Malformed \in TextsRead(r)
    /\ Rank(r, IF rpc[r] = "start" THEN "threw" ELSE "failed")
    /\ disturbed' = TRUE
    /\ UNCHANGED <<daemons, files, target, hwtopo_path>>

(* m_start_daemons of the representative; 16 ms are little time.  *)
Discover(r) ==
    /\ rpc[r] = "start" /\ env[r] # Malformed
    /\ \/ discover_impl(env[r]) # {} /\ Rank(r, "barrier")
       \/ /\ discover_impl(env[r]) = {} /\ \A d \in Running : dport[d] # Malformed
          /\ Rank(r, "fork")
    /\ UNCHANGED <<daemons, files, target, hwtopo_path, disturbed>>

(* The default port is forgotten. *)
Faulty_start_port(r) == env[r]

start_port(r) == IF env[r] = QVI_PORT_UNSET THEN DefaultPort ELSE env[r]

(* After an error the representative does not go on to the barrier. *)
Faulty_start_quo_vadisd(r) ==
    /\ rpc[r] = "fork"
    /\ \/ /\ \E d \in Unborn : Forks(d, me, start_port(r))
          /\ Rank(r, "barrier") /\ UNCHANGED disturbed
       \/ /\ Rank(r, "failed") /\ disturbed' = TRUE
          /\ UNCHANGED <<daemons, files>>
    /\ UNCHANGED <<target, hwtopo_path>>

(* The error of a failed fork is kept until after the barrier. *)
qvi_start_quo_vadisd(r) ==
    /\ rpc[r] = "fork"
    /\ \/ /\ \E d \in Unborn : Forks(d, me, start_port(r))
          /\ Rank(r, "barrier") /\ UNCHANGED disturbed
       \/ /\ Rank(r, "barrier, error") /\ disturbed' = TRUE
          /\ UNCHANGED <<daemons, files>>
    /\ UNCHANGED <<target, hwtopo_path>>

sleepy_node_barrier ==
    /\ \A r \in Ranks : rpc[r] \in {"barrier", "barrier, error"}
    /\ rpc' = [r \in Ranks |-> IF rpc[r] = "barrier" THEN "discover" ELSE "failed"]
    /\ UNCHANGED <<daemons, files, target, hwtopo_path, disturbed>>

(* Only the requested port is looked for. *)
Faulty_discover_port(r) ==
    /\ rpc[r] = "discover" /\ env[r] # Malformed
    /\ \/ /\ discover_impl(env[r]) # {}
          /\ \E d \in discover_impl(env[r]) : Uses(r, dport[d])
          /\ Rank(r, "hello") /\ UNCHANGED disturbed
       \/ NotDiscovered(env[r]) /\ Rank(r, "failed") /\ UNCHANGED target
    /\ UNCHANGED <<daemons, files, hwtopo_path>>

(* qvi_rmi_client::discover looks for the port of the environment first ... *)
discover_port(r) ==
    /\ rpc[r] = "discover" /\ env[r] # Malformed
    /\ \/ /\ env[r] # QVI_PORT_UNSET /\ discover_impl(env[r]) # {}
          /\ Uses(r, env[r]) /\ Rank(r, "hello") /\ UNCHANGED disturbed
       \/ /\ env[r] # QVI_PORT_UNSET /\ NotDiscovered(env[r])
          /\ Rank(r, "discover any") /\ UNCHANGED target
       \/ /\ env[r] = QVI_PORT_UNSET
          /\ Rank(r, "discover any") /\ UNCHANGED <<target, disturbed>>
    /\ UNCHANGED <<daemons, files, hwtopo_path>>

(* ... and then for any. *)
discover_any(r) ==
    /\ rpc[r] = "discover any"
    /\ \/ /\ \E d \in discover_impl(QVI_PORT_UNSET) : Uses(r, dport[d])
          /\ Rank(r, "hello") /\ UNCHANGED disturbed
       \/ NotDiscovered(QVI_PORT_UNSET) /\ Rank(r, "failed") /\ UNCHANGED target
    /\ UNCHANGED <<daemons, files, hwtopo_path>>

(* The hello is answered with the name of the server's file, or times out, *)
(* early or because nobody is there.                                       *)
Hello(r) ==
    /\ rpc[r] = "hello"
    /\ Uses(r, QVI_PORT_UNSET)
    /\ \/ /\ \E d \in Daemons : /\ dport[d] = target[r] /\ dpc[d] = "serve"
                              /\ Loads(r, d)
          /\ Rank(r, "load") /\ UNCHANGED disturbed
       \/ /\ Rank(r, "failed") /\ UNCHANGED hwtopo_path
          /\ disturbed' = (\/ disturbed
                           \/ \E d \in Daemons : /\ dport[d] = target[r]
                                                /\ dpc[d] \in {"forked", "serve"} \cup Starting)
    /\ UNCHANGED <<daemons, files>>

(* The file that was named may be gone by now. *)
topology_load(r) ==
    /\ rpc[r] = "load"
    /\ Rank(r, IF hwtopo_path[r] \in topo THEN "connected" ELSE "failed")
    /\ Loads(r, 0)
    /\ UNCHANGED <<daemons, files, target, disturbed>>

RankStep(r) ==
    \/ PortUnreadable(r) \/ Discover(r) \/ qvi_start_quo_vadisd(r)
    \/ discover_port(r) \/ discover_any(r) \/ Hello(r) \/ topology_load(r)

Next ==
    \/ StartedByOthers
    \/ \E d \in Daemons : DaemonStep(d) \/ Signal(d) \/ Crash(d)
    \/ sleepy_node_barrier
    \/ \E r \in Ranks : RankStep(r)

Spec == Init /\ [][Next]_vars

(* Processes run.  Nobody has to start, to signal or to kill a daemon. *)
Fairness ==
    /\ \A d \in Daemons : WF_vars(DaemonStep(d))
    /\ WF_vars(sleepy_node_barrier) /\ \A r \in Ranks : WF_vars(RankStep(r))

FairSpec == Spec /\ Fairness

-----------------------------------------------------------------------------
TypeOK ==
    /\ dpc \in [Daemons -> {"none", "forked", "gone"} \cup Starting \cup Bound]
    /\ dport \in [Daemons -> Ports \cup {Malformed}] /\ duser \in [Daemons -> Users]
    /\ signaled \in [Daemons -> BOOLEAN] /\ created \in [Daemons -> BOOLEAN]
    /\ sdir \in [Ports -> Users \cup {"none"}]
    /\ topo \subseteq Daemons /\ robbed \subseteq Daemons
    /\ rpc \in [Ranks -> {"start", "fork", "barrier", "barrier, error", "discover", "discover any",
                          "hello", "load", "connected", "failed", "threw"}]
    /\ target \in [Ranks -> Ports \cup {QVI_PORT_UNSET}]
    /\ hwtopo_path \in [Ranks -> Daemons \cup {0}]
    /\ disturbed \in BOOLEAN

(* A daemon that serves has its own topology file, the one its hello       *)
(* names, in place, however many are started, stopped and killed on the    *)
(* port and whoever made the directory.  The one exception: the daemon     *)
(* that made the directory was stopped and has taken the files of the      *)
(* others with it (qvi_rmall in cleanup).                                  *)
ServerHasTopology ==
    \A d \in Daemons :
        dpc[d] = "serve" =>
            \/ d \in topo
            \/ /\ d \in robbed
               /\ \E e \in Daemons \ {d} : created[e] /\ signaled[e] /\ dport[e] = dport[d]

(* No two daemons would remove the same directory, stops and crashes       *)
(* included: no creator is left when another makes the directory.  (The    *)
(* files in it may well be of others: ServerHasTopology's exception.)      *)
OneRemover ==
    \A d, e \in Daemons :
        (/\ d # e /\ dport[d] = dport[e] /\ created[d] /\ created[e]
         /\ dpc[d] \in Starting \cup {"serve", "cleanup", "rmdir"})
        => dpc[e] \notin Starting \cup {"serve", "cleanup", "rmdir"}

(* Every rank gets through the constructor, connected or with an error,    *)
(* whatever fails, unless the representative leaves it by an exception:    *)
(* m_start_daemons brings every other error to the barrier.                *)
StartupReturns ==
    <>(rpc[rep] = "threw" \/ \A r \in Ranks : rpc[r] \in {"connected", "failed"})

(* "See if any errors happened above, but all barrier to avoid hangs"      *)
(* (m_start_daemons): no rank waits for ever in the constructor.  Not so   *)
(* if the representative cannot read a port.                               *)
StartupNeverHangs ==
    <>(\A r \in Ranks : rpc[r] \in {"connected", "failed", "threw"})

(* Without a fault from outside every rank gets a connection, although     *)
(* daemons race for the port and for the directory, and although QV_PORT   *)
(* may not be the same for all ranks.  A port that cannot be read          *)
(* (qvi_stoi) and a directory left over by another user (mkdir fails on    *)
(* it, and the daemon panics in make_session_dir) count as faults.         *)
EveryoneConnects == <>(disturbed \/ \A r \in Ranks : rpc[r] = "connected")

=============================================================================
