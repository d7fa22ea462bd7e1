--------------------------- MODULE SingleInstance ----------------------------
(***************************************************************************)
(* Starting and stopping mlink-daemon processes around daemon.json:        *)
(*   mlink-daemon/src/lifecycle.rs   ensure_single_instance and the file   *)
(*   mlink-daemon/src/bootstrap.rs   bind_and_prepare, await_shutdown      *)
(*                                                                         *)
(* Every system call on the file is a step of its own.  A process is its   *)
(* pid; the port is in the file too but nothing here depends on it.  Every *)
(* daemon binds the same port when MLINK_DAEMON_PORT is set (fixed), and a *)
(* port of the kernel's choice otherwise.                                  *)
(***************************************************************************)
EXTENDS Integers, FiniteSets

CONSTANTS
    Procs,       \* processes, by pid
    MaxReuse     \* bound: dead pids that other programs get

\* What a file can be: absent, unparseable, or naming a process.
Missing  == [there |-> FALSE, pid |-> {}]
Corrupt  == [there |-> TRUE, pid |-> {}]
Named(p) == [there |-> TRUE, pid |-> {p}]
Contents == {Missing, Corrupt} \cup {Named(p) : p \in Procs}

VARIABLES
    fixed,     \* MLINK_DAEMON_PORT is set
    at,        \* where a process is
    read,      \* the file as it read it
    file,      \* daemon.json
    tmp,       \* daemon.json.tmp
    others,    \* pids of dead daemons that other programs have now
    kept,      \* history: daemon.json is one that remove_daemon_info left in place
    overlap    \* history: a process started while another started or cleaned up

vars == <<fixed, at, read, file, tmp, others, kept, overlap>>

Starting == {"check", "decide", "remove", "bind", "write", "rename"}
Running  == {p \in Procs : at[p] \in Starting \cup {"serve", "cleanup"}}
Serving  == {p \in Procs : at[p] = "serve"}

TypeOK ==
    /\ fixed \in BOOLEAN
    /\ at \in [Procs -> Starting \cup {"new", "serve", "cleanup", "refused", "failed",
                                       "gone", "killed"}]
    /\ read \in [Procs -> Contents]
    /\ file \in Contents /\ tmp \in Contents
    /\ others \in SUBSET Procs /\ kept \in BOOLEAN /\ overlap \in BOOLEAN

\* Some earlier version may have left anything.
Init ==
    /\ fixed \in BOOLEAN
    /\ at = [p \in Procs |-> "new"] /\ read = [p \in Procs |-> Missing]
    /\ file \in {Missing, Corrupt} /\ tmp = Missing
    /\ others = {} /\ kept = FALSE /\ overlap = FALSE

Goto(p, where) == at' = [at EXCEPT ![p] = where] /\ UNCHANGED fixed

-----------------------------------------------------------------------------
Start(p) ==
    /\ at[p] = "new" /\ Goto(p, "check")
    /\ overlap' = (overlap \/ \E q \in Procs : at[q] \in Starting \cup {"cleanup"})
    /\ UNCHANGED <<read, file, tmp, others, kept>>

\* ensure_single_instance: fs::read.
Check(p) ==
    /\ at[p] = "check"
    /\ read' = [read EXCEPT ![p] = file]
    /\ Goto(p, IF file = Missing THEN "bind" ELSE "decide")
    /\ UNCHANGED <<file, tmp, others, kept, overlap>>

\* kill(pid, 0) says that some process has the pid.
pid_alive(q) == q \in Running \cup others

\* Unparseable, alive or stale.
Decide(p) ==
    /\ at[p] = "decide"
    /\ Goto(p, IF \E q \in read[p].pid : pid_alive(q) THEN "refused" ELSE "remove")
    /\ UNCHANGED <<read, file, tmp, others, kept, overlap>>

\* The file is removed, whatever it is by now, or stays with a warning.
remove_daemon_info ==
    /\ file' \in {Missing, file}
    /\ kept' = (file' # Missing)

Remove(p) ==
    /\ at[p] = "remove" /\ Goto(p, "bind")
    /\ remove_daemon_info
    /\ UNCHANGED <<read, tmp, others, overlap>>

\* build_state, then TcpListener::bind.
Bind(p) ==
    /\ at[p] = "bind"
    /\ Goto(p, IF fixed /\ \E q \in Procs : at[q] \in {"write", "rename", "serve", "cleanup"}
               THEN "failed" ELSE "write")
    /\ UNCHANGED <<read, file, tmp, others, kept, overlap>>

\* write_daemon_info: the sibling file, the same for every process ...
Write(p) ==
    /\ at[p] = "write" /\ Goto(p, "rename")
    /\ tmp' = Named(p)
    /\ UNCHANGED <<read, file, others, kept, overlap>>

\* ... then rename, which fails when another process has renamed it away.
Rename(p) ==
    /\ at[p] = "rename"
    /\ Goto(p, IF tmp = Missing THEN "failed" ELSE "serve")
    /\ file' = IF tmp = Missing THEN file ELSE tmp
    /\ tmp' = Missing
    /\ kept' = (kept /\ tmp = Missing)
    /\ UNCHANGED <<read, others, overlap>>

\* ctrl-c or SIGTERM in await_shutdown, or the server's own end.
Stop(p) ==
    /\ at[p] = "serve" /\ Goto(p, "cleanup")
    /\ UNCHANGED <<read, file, tmp, others, kept, overlap>>

\* Whosever file it is.
Cleanup(p) ==
    /\ at[p] = "cleanup" /\ Goto(p, "gone")
    /\ remove_daemon_info
    /\ UNCHANGED <<read, tmp, others, overlap>>

\* fs::read, build_state, bind, fs::write or rename fails: run returns.
IoError(p) ==
    /\ at[p] \in {"check", "bind", "write", "rename"} /\ Goto(p, "failed")
    /\ UNCHANGED <<read, file, tmp, others, kept, overlap>>

\* kill -9
Kill(p) ==
    /\ p \in Running /\ Goto(p, "killed")
    /\ UNCHANGED <<read, file, tmp, others, kept, overlap>>

\* Another program gets the pid of a daemon that is gone.
PidReused(p) ==
    /\ at[p] \in {"gone", "killed", "failed"} /\ p \notin others
    /\ Cardinality(others) < MaxReuse
    /\ others' = others \cup {p}
    /\ UNCHANGED <<fixed, at, read, file, tmp, kept, overlap>>

Step(p) == \/ Check(p) \/ Decide(p) \/ Remove(p) \/ Bind(p) \/ Write(p)
           \/ Rename(p) \/ Cleanup(p)

Next == \E p \in Procs : Start(p) \/ Step(p) \/ Stop(p) \/ IoError(p) \/ Kill(p)
                        \/ PidReused(p)

Spec == Init /\ [][Next]_vars

-----------------------------------------------------------------------------
\* Daemons none of which starts while another starts or cleans up exclude
\* each other, however they end, and daemon.json names the one that serves:
\* a kill at any step, a reused pid and a shutdown during a check included.
OneDaemon ==
    ~overlap => \A p, q \in Serving : p = q /\ file = Named(p)

\* What a crashed daemon left is gone before the next one binds, so that a
\* crash of that one before write_daemon_info leaves no old pid to be read.  It
\* stays when remove_daemon_info fails, which startup does not find out; then it
\* names no daemon that runs.
StaleIsCleared ==
    ~overlap => \A p \in Procs : at[p] \in {"bind", "write", "rename"} =>
        (file = Missing \/ kept) /\ file.pid \cap Running = {}

\* ensure_single_instance returns Ok only when a daemon "can safely claim the
\* slot" (lifecycle.rs): two daemons never serve at once.
SlotIsClaimedOnce == \A p, q \in Serving : p = q
=============================================================================
