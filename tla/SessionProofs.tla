---------------------------- MODULE SessionProofs -----------------------------
(***************************************************************************)
(* What the session directory can be relied on for, for every number of    *)
(* ranks, users, ports and daemons, and whatever value of QV_PORT each     *)
(* rank has: the daemon that serves has its own topology file in place     *)
(* unless the one that made the directory has taken it along, and only one *)
(* daemon would remove a directory.                                        *)
(***************************************************************************)
EXTENDS Session, TLAPS

(* A daemon that made its directory is past make_session_dir ... *)
Owning == {"export", "bind", "serve", "cleanup", "rmdir"}
CreatorsAreLate == \A d \in Daemons : created[d] => dpc[d] \in Owning \cup {"close", "gone"}

(* ... has a port that could be read ... *)
PortsAreRead == \A d \in Daemons : dpc[d] \in Owning \cup {"mkdir"} => dport[d] \in Ports

(* ... and until it has removed the directory, it is there: nobody else    *)
(* removes it, and no other makes it.                                      *)
DirectoryStays ==
    \A d \in Daemons : created[d] /\ dpc[d] \in Owning => sdir[dport[d]] # "none"

OneOwner ==
    \A d, e \in Daemons :
        /\ created[d] /\ dpc[d] \in Owning
        /\ created[e] /\ dpc[e] \in Owning
        /\ dport[d] = dport[e]
        => d = e

(* The loop is left only by a daemon that was told to stop, and only one   *)
(* that made the directory goes on to remove it.                           *)
LeftByStop ==
    \A d \in Daemons :
        /\ dpc[d] \in {"cleanup", "rmdir", "close"} => signaled[d]
        /\ dpc[d] = "rmdir" => created[d]

(* A file that was exported is there until its daemon unlinks it, or until *)
(* another that made the directory, and was stopped, removes it.           *)
Taken(d) ==
    /\ d \in robbed
    /\ \E e \in Daemons \ {d} : created[e] /\ signaled[e] /\ dport[e] = dport[d]

FilesKept ==
    \A d \in Daemons : dpc[d] \in {"bind", "serve", "cleanup"} => d \in topo \/ Taken(d)

IInv ==
    /\ TypeOK /\ CreatorsAreLate /\ PortsAreRead /\ DirectoryStays
    /\ OneOwner /\ LeftByStop /\ FilesKept

-----------------------------------------------------------------------------
(* Every port a rank starts a daemon on is a port, or cannot be read. *)
LEMMA StartPortIsPort ==
    \A r \in Ranks : start_port(r) \in Ports \cup {Malformed}
BY SessionAssumption DEF start_port

LEMMA InitOK == Init => IInv
<1>. SUFFICES ASSUME Init PROVE IInv
  OBVIOUS
<1>1. TypeOK
  BY SessionAssumption DEF Init, TypeOK, Starting, Bound
<1>2. CreatorsAreLate /\ PortsAreRead /\ DirectoryStays /\ OneOwner /\ LeftByStop /\ FilesKept
  BY DEF Init, CreatorsAreLate, PortsAreRead, DirectoryStays, OneOwner, LeftByStop, FilesKept,
     Owning
<1>. QED
  BY <1>1, <1>2 DEF IInv

(* A child that is to become a daemon: it has made no directory yet, so it *)
(* is nobody's witness that files were taken.                              *)
LEMMA ForksOK ==
    ASSUME IInv, NEW d \in Unborn, NEW user \in Users, NEW portno \in Ports \cup {Malformed},
           Forks(d, user, portno),
           rpc' \in [Ranks -> {"start", "fork", "barrier", "barrier, error", "discover", "discover any",
                               "hello", "load", "connected", "failed", "threw"}],
           UNCHANGED <<target, hwtopo_path, disturbed>>
    PROVE  IInv'
<1>1. TypeOK'
  BY DEF Forks, Unborn, files, IInv, TypeOK, Starting, Bound
<1>2. d \in Daemons /\ ~created[d] /\ dpc[d] = "none"
  BY DEF Unborn, IInv, CreatorsAreLate, Owning
<1>3. CreatorsAreLate' /\ PortsAreRead'
  BY <1>2 DEF Forks, IInv, TypeOK, CreatorsAreLate, PortsAreRead, Owning
<1>4. DirectoryStays' /\ OneOwner'
  BY <1>2 DEF Forks, files, IInv, TypeOK, DirectoryStays, OneOwner, Owning
<1>5. LeftByStop'
  BY <1>2 DEF Forks, IInv, TypeOK, LeftByStop
<1>6. FilesKept'
  <2>1. ASSUME NEW f \in Daemons, dpc'[f] \in {"bind", "serve", "cleanup"}
        PROVE  f \in topo' \/ Taken(f)'
    <3>1. f # d /\ dpc'[f] = dpc[f] /\ dport'[f] = dport[f]
      BY <1>2, <2>1 DEF Forks, IInv, TypeOK
    <3>2. \A e \in Daemons : created[e] => dport'[e] = dport[e]
      BY <1>2 DEF Forks, IInv, TypeOK
    <3>. QED
      BY <2>1, <3>1, <3>2 DEF Forks, files, IInv, FilesKept, Taken
  <2>. QED
    BY <2>1 DEF FilesKept
<1>. QED
  BY <1>1, <1>3, <1>4, <1>5, <1>6 DEF IInv

(* No file is lost as long as a daemon comes to the bind with its file,    *)
(* and what was once taken stays so.                                       *)
LEMMA FilesKeptOK ==
    ASSUME IInv, UNCHANGED <<dport, robbed>>,
           \A e \in Daemons : created[e] /\ signaled[e] => created'[e] /\ signaled'[e],
           \A f \in Daemons : dpc'[f] \in {"bind", "serve", "cleanup"} =>
               \/ f \in topo'
               \/ dpc[f] \in {"bind", "serve", "cleanup"} /\ f \notin topo
    PROVE  FilesKept'
<1>1. ASSUME NEW f \in Daemons, dpc'[f] \in {"bind", "serve", "cleanup"}, f \notin topo'
      PROVE  Taken(f)'
  <2>1. Taken(f)
    BY <1>1 DEF IInv, FilesKept
  <2>. QED
    BY <2>1 DEF Taken
<1>. QED
  BY <1>1 DEF FilesKept

(* A daemon that ends without its clean-up, by an error, by                *)
(* qvi_panic_log_error or a crash, leaves the files as they are: no other  *)
(* loses anything.                                                         *)
LEMMA GoneOK ==
    ASSUME IInv, NEW d \in Daemons, Goto(d, "gone"), disturbed' \in BOOLEAN,
           UNCHANGED <<dport, duser, signaled, created, files, ranks>>
    PROVE  IInv'
<1>1. TypeOK'
  BY DEF Goto, files, ranks, IInv, TypeOK, Starting, Bound
<1>2. CreatorsAreLate' /\ PortsAreRead' /\ DirectoryStays' /\ OneOwner' /\ LeftByStop'
  BY DEF Goto, files, IInv, TypeOK, CreatorsAreLate, PortsAreRead, DirectoryStays, OneOwner,
     LeftByStop, Owning
<1>3. FilesKept'
  BY FilesKeptOK DEF Goto, files, IInv, TypeOK
<1>. QED
  BY <1>1, <1>2, <1>3 DEF IInv

(* A daemon that goes on, and leaves everything else as it is: what holds  *)
(* at its new place has to hold already.                                   *)
LEMMA GoesOnOK ==
    ASSUME IInv, NEW d \in Daemons, UNCHANGED <<dport, duser, signaled, created, files, ranks, disturbed>>,
           NEW label \in Starting \cup Bound, Goto(d, label),
           created[d] => dpc[d] \in Owning /\ label \in Owning \cup {"close"},
           dport[d] \in Ports \/ label = "running",
           label \in {"cleanup", "close"} => signaled[d], label # "rmdir",
           label \in {"bind", "serve", "cleanup"} => dpc[d] \in {"bind", "serve", "cleanup"}
    PROVE  IInv'
<1>1. TypeOK'
  BY DEF Goto, files, ranks, IInv, TypeOK
<1>2. CreatorsAreLate' /\ PortsAreRead' /\ LeftByStop'
  BY DEF Goto, IInv, TypeOK, CreatorsAreLate, PortsAreRead, LeftByStop, Owning
<1>3. DirectoryStays' /\ OneOwner'
  BY DEF Goto, files, IInv, TypeOK, DirectoryStays, OneOwner
<1>4. FilesKept'
  BY FilesKeptOK DEF Goto, files, IInv, TypeOK
<1>. QED
  BY <1>1, <1>2, <1>3, <1>4 DEF IInv

LEMMA ExecOK == ASSUME IInv, NEW d \in Daemons, Exec(d) PROVE IInv'
<1>1. CASE Goto(d, "running") /\ UNCHANGED disturbed
  BY <1>1, GoesOnOK DEF Exec, Starting, IInv, CreatorsAreLate, Owning
<1>2. CASE Goto(d, "gone") /\ disturbed' = TRUE
  BY <1>2, GoneOK DEF Exec
<1>. QED
  BY <1>1, <1>2 DEF Exec

LEMMA BadPortOK == ASSUME IInv, NEW d \in Daemons, BadPort(d) PROVE IInv'
BY GoneOK DEF BadPort, IInv, TypeOK

LEMMA SessionDirExistsOK == ASSUME IInv, NEW d \in Daemons, session_dir_exists(d) PROVE IInv'
<1>1. dport[d] \in Ports /\ ~created[d]
  BY DEF session_dir_exists, IInv, TypeOK, CreatorsAreLate, Owning
<1>. QED
  BY <1>1, GoesOnOK DEF session_dir_exists, Starting

(* mkdir() succeeds only where there is no directory, so where no creator  *)
(* is left that would still remove one.                                    *)
LEMMA MakeSessionDirOK == ASSUME IInv, NEW d \in Daemons, make_session_dir(d) PROVE IInv'
<1>1. CASE /\ sdir[dport[d]] = "none"
           /\ sdir' = [sdir EXCEPT ![dport[d]] = duser[d]]
           /\ created' = [created EXCEPT ![d] = TRUE]
           /\ dpc' = [dpc EXCEPT ![d] = "export"]
           /\ UNCHANGED <<topo, robbed, disturbed>>
  <2>0. dpc[d] = "mkdir" /\ dport[d] \in Ports /\ UNCHANGED <<dport, duser, signaled, ranks>>
    BY DEF make_session_dir, IInv, PortsAreRead
  <2>1. TypeOK'
    BY <1>1, <2>0 DEF ranks, IInv, TypeOK, Starting, Bound
  <2>2. CreatorsAreLate' /\ PortsAreRead' /\ LeftByStop'
    BY <1>1, <2>0 DEF IInv, TypeOK, CreatorsAreLate, PortsAreRead, LeftByStop, Owning
  <2>3. \A e \in Daemons : e # d => created'[e] = created[e] /\ dpc'[e] = dpc[e]
    BY <1>1 DEF IInv, TypeOK
  <2>4. DirectoryStays'
    <3>0. duser[d] # "none"
      <4>1. duser[d] \in Users
        BY DEF IInv, TypeOK
      <4>2. "none" \notin Users
        BY SessionAssumption
      <4>. QED
        BY <4>1, <4>2, Zenon
    <3>1. sdir'[dport[d]] # "none"
      BY <1>1, <2>0, <3>0 DEF IInv, TypeOK
    <3>2. ASSUME NEW e \in Daemons, created'[e], dpc'[e] \in Owning
          PROVE  sdir'[dport[e]] # "none"
      <4>1. dport[e] \in Ports /\ (e # d => sdir[dport[e]] # "none")
        BY <2>0, <2>3, <3>2 DEF IInv, PortsAreRead, DirectoryStays
      <4>. QED
        BY <1>1, <3>1, <4>1 DEF IInv, TypeOK
    <3>. QED
      BY <2>0, <3>2 DEF DirectoryStays
  <2>5. OneOwner'
    <3>1. ASSUME NEW e \in Daemons, created[e], dpc[e] \in Owning
          PROVE  dport[e] # dport[d]
      BY <1>1, <3>1 DEF IInv, DirectoryStays
    <3>. QED
      BY <2>0, <2>3, <3>1 DEF IInv, OneOwner
  <2>6. FilesKept'
    BY <1>1, <2>0, <2>3, FilesKeptOK DEF IInv, TypeOK
  <2>. QED
    BY <2>1, <2>2, <2>4, <2>5, <2>6 DEF IInv
<1>2. CASE Panics(d) /\ disturbed' = (disturbed \/ LeftOver(d))
  <2>1. disturbed' \in BOOLEAN
    BY <1>2
  <2>. QED
    BY <1>2, <2>1, GoneOK DEF make_session_dir, Panics
<1>. QED
  BY <1>1, <1>2 DEF make_session_dir, Goto

LEMMA ExportOK == ASSUME IInv, NEW d \in Daemons, export_hwtopo(d) PROVE IInv'
<1>1. CASE /\ topo' = topo \cup {d}
           /\ dpc' = [dpc EXCEPT ![d] = "bind"] /\ UNCHANGED <<created, sdir, robbed>>
  <2>0. dpc[d] = "export" /\ UNCHANGED <<dport, duser, signaled, ranks, disturbed>>
    BY DEF export_hwtopo
  <2>1. TypeOK'
    BY <1>1, <2>0 DEF ranks, IInv, TypeOK, Starting, Bound
  <2>2. CreatorsAreLate' /\ PortsAreRead' /\ LeftByStop'
    BY <1>1, <2>0 DEF IInv, TypeOK, CreatorsAreLate, PortsAreRead, LeftByStop, Owning
  <2>3. DirectoryStays' /\ OneOwner'
    BY <1>1, <2>0 DEF IInv, TypeOK, DirectoryStays, OneOwner, Owning
  <2>4. FilesKept'
    BY <1>1, <2>0, FilesKeptOK DEF IInv, TypeOK
  <2>. QED
    BY <2>1, <2>2, <2>3, <2>4 DEF IInv
<1>2. CASE Panics(d)
  BY <1>2, GoneOK DEF export_hwtopo, Panics, IInv, TypeOK
<1>. QED
  BY <1>1, <1>2 DEF export_hwtopo, Goto

LEMMA StartServerOK == ASSUME IInv, NEW d \in Daemons, start_rmi_server(d) PROVE IInv'
<1>1. CASE Goto(d, "serve") /\ UNCHANGED <<created, files>>
  BY <1>1, GoesOnOK DEF start_rmi_server, Bound, IInv, PortsAreRead, Owning
<1>2. CASE Panics(d)
  BY <1>2, GoneOK DEF start_rmi_server, Panics, IInv, TypeOK
<1>. QED
  BY <1>1, <1>2 DEF start_rmi_server

LEMMA LeaveLoopOK == ASSUME IInv, NEW d \in Daemons, LeaveLoop(d) PROVE IInv'
BY GoesOnOK DEF LeaveLoop, Bound, IInv, PortsAreRead, Owning

(* The one that removes the files was stopped, and is the witness that     *)
(* they were taken.                                                        *)
LEMMA CleanupOK == ASSUME IInv, NEW d \in Daemons, cleanup(d) PROVE IInv'
<1>0. /\ dpc[d] = "cleanup" /\ dport[d] \in Ports
      /\ UNCHANGED <<dport, duser, signaled, created, sdir, ranks, disturbed>>
  BY DEF cleanup, IInv, PortsAreRead, Owning
<1>1. CASE /\ created[d]
           /\ topo' = topo \ FilesOn(dport[d])
           /\ robbed' = robbed \cup ((FilesOn(dport[d]) \cap Running) \ {d})
           /\ dpc' = [dpc EXCEPT ![d] = "rmdir"]
  <2>1. TypeOK'
    BY <1>0, <1>1 DEF ranks, IInv, TypeOK, Starting, Bound, Running
  <2>2. CreatorsAreLate' /\ PortsAreRead' /\ LeftByStop'
    BY <1>0, <1>1 DEF IInv, TypeOK, CreatorsAreLate, PortsAreRead, LeftByStop, Owning
  <2>3. DirectoryStays' /\ OneOwner'
    BY <1>0, <1>1 DEF IInv, TypeOK, DirectoryStays, OneOwner, Owning
  <2>4. FilesKept'
    <3>1. ASSUME NEW f \in Daemons, dpc'[f] \in {"bind", "serve", "cleanup"}
          PROVE  f \in topo' \/ Taken(f)'
      <4>1. f # d /\ dpc[f] = dpc'[f]
        BY <1>0, <1>1, <3>1 DEF IInv, TypeOK
      <4>2. CASE Taken(f)
        BY <1>0, <1>1, <4>2 DEF Taken
      <4>3. CASE f \in topo /\ f \notin FilesOn(dport[d])
        BY <1>1, <4>3
      <4>4. CASE f \in FilesOn(dport[d])
        <5>1. f \in Running
          BY <3>1, <4>1 DEF Running, Starting, Bound
        <5>2. signaled[d] /\ dport[f] = dport[d]
          BY <1>0, <4>4 DEF IInv, LeftByStop, FilesOn
        <5>. QED
          BY <1>0, <1>1, <4>1, <4>4, <5>1, <5>2 DEF Taken
      <4>. QED
        BY <3>1, <4>1, <4>2, <4>3, <4>4 DEF IInv, FilesKept
    <3>. QED
      BY <3>1 DEF FilesKept
  <2>. QED
    BY <2>1, <2>2, <2>3, <2>4 DEF IInv
<1>2. CASE ~created[d] /\ Goto(d, "close") /\ UNCHANGED <<topo, robbed>>
  BY <1>0, <1>2, GoesOnOK DEF files, Bound, IInv, LeftByStop
<1>. QED
  BY <1>1, <1>2 DEF cleanup, Goto

(* What is removed is the remover's own: no other creator has its port. *)
LEMMA RmdirOK == ASSUME IInv, NEW d \in Daemons, rmdir(d) PROVE IInv'
<1>0. /\ dpc[d] = "rmdir" /\ dport[d] \in Ports
      /\ dpc' = [dpc EXCEPT ![d] = "close"]
      /\ UNCHANGED <<dport, duser, signaled, created, topo, robbed, ranks, disturbed>>
  BY DEF rmdir, Goto, IInv, PortsAreRead, Owning
<1>1. TypeOK'
  BY <1>0 DEF rmdir, ranks, IInv, TypeOK, Starting, Bound
<1>2. CreatorsAreLate' /\ PortsAreRead' /\ LeftByStop'
  BY <1>0 DEF IInv, TypeOK, CreatorsAreLate, PortsAreRead, LeftByStop, Owning
<1>3. DirectoryStays'
  <2>1. ASSUME NEW e \in Daemons, created'[e], dpc'[e] \in Owning
        PROVE  sdir'[dport'[e]] # "none"
    <3>1. e # d /\ dpc[e] = dpc'[e] /\ created[e] /\ dport[e] \in Ports
      BY <1>0, <2>1 DEF IInv, TypeOK, PortsAreRead, Owning
    <3>2. dport[e] # dport[d]
      BY <1>0, <2>1, <3>1 DEF IInv, LeftByStop, OneOwner, Owning
    <3>. QED
      BY <1>0, <2>1, <3>1, <3>2 DEF rmdir, IInv, TypeOK, DirectoryStays
  <2>. QED
    BY <2>1 DEF DirectoryStays
<1>4. OneOwner'
  BY <1>0 DEF IInv, TypeOK, OneOwner, Owning
<1>5. FilesKept'
  BY <1>0, FilesKeptOK DEF IInv, TypeOK
<1>. QED
  BY <1>1, <1>2, <1>3, <1>4, <1>5 DEF IInv

(* A daemon that closes unlinks its own file only. *)
LEMMA CloseOK == ASSUME IInv, NEW d \in Daemons, close_server(d) PROVE IInv'
<1>0. /\ dpc' = [dpc EXCEPT ![d] = "gone"] /\ topo' = topo \ {d}
      /\ UNCHANGED <<dport, duser, signaled, created, sdir, robbed, ranks, disturbed>>
  BY DEF close_server, Goto
<1>1. TypeOK'
  BY <1>0 DEF ranks, IInv, TypeOK, Starting, Bound
<1>2. CreatorsAreLate' /\ PortsAreRead' /\ DirectoryStays' /\ OneOwner' /\ LeftByStop'
  BY <1>0 DEF IInv, TypeOK, CreatorsAreLate, PortsAreRead, DirectoryStays, OneOwner, LeftByStop,
     Owning
<1>3. FilesKept'
  BY <1>0, FilesKeptOK DEF IInv, TypeOK
<1>. QED
  BY <1>1, <1>2, <1>3 DEF IInv

LEMMA SignalOK == ASSUME IInv, NEW d \in Daemons, Signal(d) PROVE IInv'
<1>0. /\ signaled' = [signaled EXCEPT ![d] = TRUE] /\ disturbed' = TRUE
      /\ UNCHANGED <<dpc, dport, duser, created, files, ranks>>
  BY DEF Signal
<1>1. TypeOK'
  BY <1>0 DEF files, ranks, IInv, TypeOK
<1>2. CreatorsAreLate' /\ PortsAreRead' /\ DirectoryStays' /\ OneOwner' /\ LeftByStop'
  BY <1>0 DEF files, IInv, TypeOK, CreatorsAreLate, PortsAreRead, DirectoryStays, OneOwner,
     LeftByStop
<1>3. FilesKept'
  BY <1>0, FilesKeptOK DEF files, IInv, TypeOK
<1>. QED
  BY <1>1, <1>2, <1>3 DEF IInv

LEMMA CrashOK == ASSUME IInv, NEW d \in Daemons, Crash(d) PROVE IInv'
BY GoneOK DEF Crash

(* What a rank does leaves the daemons and their directories alone, but    *)
(* for the child the representative forks.                                 *)
LEMMA RankOK == ASSUME IInv, NEW r \in Ranks, RankStep(r) PROVE IInv'
<1>. DEFINE States == {"start", "fork", "barrier", "barrier, error", "discover", "discover any",
                       "hello", "load", "connected", "failed", "threw"}
<1>1. ASSUME UNCHANGED <<daemons, files>>, rpc' \in [Ranks -> States],
             target' \in [Ranks -> Ports \cup {QVI_PORT_UNSET}],
             hwtopo_path' \in [Ranks -> Daemons \cup {0}], disturbed' \in BOOLEAN
      PROVE  IInv'
  BY <1>1 DEF IInv, TypeOK, CreatorsAreLate, PortsAreRead, DirectoryStays, OneOwner, LeftByStop,
              FilesKept, Taken, daemons, files
<1>2. CASE PortUnreadable(r)
  BY <1>1, <1>2 DEF PortUnreadable, Rank, IInv, TypeOK
<1>3. CASE Discover(r)
  BY <1>1, <1>3 DEF Discover, Rank, IInv, TypeOK
<1>4. CASE qvi_start_quo_vadisd(r)
  <2>1. CASE UNCHANGED <<daemons, files>> /\ Rank(r, "barrier, error") /\ disturbed' = TRUE
    BY <1>1, <1>4, <2>1 DEF qvi_start_quo_vadisd, Rank, IInv, TypeOK
  <2>2. CASE \E d \in Unborn : Forks(d, me, start_port(r)) /\ Rank(r, "barrier") /\ UNCHANGED disturbed
    <3>1. rpc' \in [Ranks -> States] /\ UNCHANGED <<target, hwtopo_path, disturbed>>
      BY <1>4, <2>2 DEF qvi_start_quo_vadisd, Rank, IInv, TypeOK
    <3>. QED
      BY <2>2, <3>1, ForksOK, StartPortIsPort, SessionAssumption
  <2>. QED
    BY <1>4, <2>1, <2>2 DEF qvi_start_quo_vadisd
<1>5. CASE discover_port(r)
  <2>1. disturbed' \in BOOLEAN
    BY <1>5 DEF discover_port, NotDiscovered, IInv, TypeOK
  <2>. QED
    BY <1>1, <1>5, <2>1, SessionAssumption DEF discover_port, Rank, Uses, IInv, TypeOK
<1>6. CASE discover_any(r)
  <2>1. disturbed' \in BOOLEAN
    BY <1>6 DEF discover_any, NotDiscovered, IInv, TypeOK
  <2>. QED
    BY <1>1, <1>6, <2>1 DEF discover_any, discover_impl, Running, Rank, Uses, IInv, TypeOK
<1>7. CASE Hello(r)
  <2>1. disturbed' \in BOOLEAN
    BY <1>7 DEF Hello, IInv, TypeOK
  <2>. QED
    BY <1>1, <1>7, <2>1 DEF Hello, Rank, Uses, Loads, IInv, TypeOK
<1>8. CASE topology_load(r)
  BY <1>1, <1>8 DEF topology_load, Rank, Loads, IInv, TypeOK
<1>. QED
  BY <1>2, <1>3, <1>4, <1>5, <1>6, <1>7, <1>8 DEF RankStep

(* The invariant is inductive: one case per action. *)
LEMMA NextOK == IInv /\ [Next]_vars => IInv'
<1>. SUFFICES ASSUME IInv, [Next]_vars PROVE IInv'
  OBVIOUS
<1>1. CASE StartedByOthers
  BY <1>1, ForksOK DEF StartedByOthers, ranks, IInv, TypeOK
<1>2. ASSUME NEW d \in Daemons, DaemonStep(d) PROVE IInv'
  BY <1>2, ExecOK, BadPortOK, SessionDirExistsOK, MakeSessionDirOK, ExportOK, StartServerOK,
     LeaveLoopOK, CleanupOK, RmdirOK, CloseOK DEF DaemonStep
<1>3. ASSUME NEW d \in Daemons, Signal(d) \/ Crash(d) PROVE IInv'
  BY <1>3, SignalOK, CrashOK
<1>4. CASE sleepy_node_barrier
  BY <1>4 DEF sleepy_node_barrier, IInv, TypeOK, CreatorsAreLate, PortsAreRead, DirectoryStays,
              OneOwner, LeftByStop, FilesKept, Taken, daemons, files
<1>5. ASSUME NEW r \in Ranks, RankStep(r) PROVE IInv'
  BY <1>5, RankOK
<1>6. CASE UNCHANGED vars
  BY <1>6 DEF vars, IInv, TypeOK, CreatorsAreLate, PortsAreRead, DirectoryStays, OneOwner,
              LeftByStop, FilesKept, Taken
<1>. QED
  BY <1>1, <1>2, <1>3, <1>4, <1>5, <1>6 DEF Next

(* The inductive invariant holds in every state, with any number of        *)
(* daemons racing for a port and its directory.                            *)
THEOREM Invariance == Spec => []IInv
BY InitOK, NextOK, PTL DEF Spec

(* Every variable keeps its type; in particular a rank only ever uses the  *)
(* port of a daemon, or the one its environment names, and loads the file  *)
(* of a daemon.                                                            *)
THEOREM TypeCorrect == Spec => []TypeOK
<1>1. IInv => TypeOK
  BY DEF IInv
<1>. QED
  BY <1>1, Invariance, PTL

(* A daemon that serves has its own topology file, the one of its PID, in  *)
(* place, through all stops and crashes, unless the clean-up of another    *)
(* that made the directory and was stopped has taken it.                   *)
THEOREM ServersHaveTopology == Spec => []ServerHasTopology
<1>1. IInv => ServerHasTopology
  BY DEF IInv, FilesKept, Taken, ServerHasTopology
<1>. QED
  BY <1>1, Invariance, PTL

(* At most one of the daemons on a port would remove the directory in its  *)
(* cleanup, however they are started, stopped and killed.                  *)
THEOREM AtMostOneRemover == Spec => []OneRemover
<1>1. IInv => OneRemover
  BY DEF IInv, CreatorsAreLate, OneOwner, OneRemover, Owning, Starting
<1>. QED
  BY <1>1, Invariance, PTL

=============================================================================
