-------------------------------- MODULE Xpcd --------------------------------
(***************************************************************************)
(* xpcd: the manager process (main.cc), the launch of the bootstrap job    *)
(* (job.cc) and the clearing of the job's descriptors (procutil.c).        *)
(*                                                                         *)
(* Two processes run: the manager, whose program counter is mpc, and the   *)
(* subprocess it forks, whose stage is child.  They share the waitfd pipe, *)
(* which holds the subprocess back until the manager has attached a filter *)
(* to it.  The kernel is modelled by what the calls need of it: descriptor *)
(* tables, the pipe, signal dispositions, and a kernel queue with a signal *)
(* filter and a process filter.  The environment may interrupt or terminate*)
(* the manager and kill the subprocess at any moment, and any call that    *)
(* allocates may fail.                                                     *)
(***************************************************************************)
EXTENDS Integers, Sequences

CONSTANTS InheritedSets,  \* descriptors xpcd may be started with
          OpenMax,        \* the descriptor limit (RLIMIT_NOFILE)
          NDebug          \* compiled with NDEBUG, which removes assert(...)

ASSUME InheritedAssumption == \A S \in InheritedSets : S \subseteq Nat
ASSUME OpenMaxAssumption == OpenMax \in Nat
ASSUME NDebugAssumption == NDebug \in BOOLEAN

\* The descriptors close_fds_except tries are FirstFd .. FdBound - 1.
FirstFd == 3
FdBound == 1023

NoFd == -1

VARIABLES
    mpc,         \* where the manager is
    fate,        \* the signal that killed it and where it was then
    should_exit, \* Manager::should_exit
    sigint,      \* the manager's disposition of SIGINT
    interrupted, \* history: SIGINT was sent to a living manager
    watched,     \* the kernel queue has the SIGINT filter
    proc,        \* the PROC filter of the subprocess: "none", "on", "done"
    active,      \* notes the queue has not delivered yet
    batch,       \* kev[]: events returned by kevent, not dispatched yet
    seen,        \* history: notes passed to Job::event_cb
    mfds, cfds,  \* open descriptors of the manager and of the subprocess
    kq,          \* Manager::kq
    rd, wr,      \* waitfd[0], waitfd[1]
    piped,       \* pipe(waitfd) succeeded
    bytes,       \* bytes in the pipe
    child        \* stage of the subprocess

pipevars == <<rd, wr, piped, bytes>>
kvars == <<watched, proc, active>>
childvars == <<cfds, child>>
mvars == <<mpc, fate, should_exit, sigint, batch, seen, mfds, kq>>
vars == <<mvars, interrupted, kvars, pipevars, childvars>>

Ended == mpc \in {"exited", "killed"}
Starting == {"kqueue", "watch", "ignore"}
Launching == {"pipe", "fork", "attach", "close_rd", "write", "close_wr"}
Running == {"loop", "dispatch"}
Signals == {"SIGINT", "SIGTERM", "SIGPIPE"}

\* The subprocess: waiting for the byte, past it, running the program, and over:
\* by exit(-errno) after a failed execve, or any other way.
Waiting == child = "blocked"
Begun == child \in {"setup", "exec", "running"}
ChildAlive == Waiting \/ Begun

Notes == {"FORK", "EXIT"}
Event == {{"SIGNAL"}} \cup SUBSET Notes

ManagerTypes ==
    /\ mpc \in Starting \cup Launching \cup Running \cup {"exited", "killed"}
    /\ fate \in [sig : Signals \cup {"none"},
                 at : Starting \cup Launching \cup Running \cup {"none"}]
    /\ should_exit \in BOOLEAN
    /\ sigint \in {"default", "ignored"}
    /\ batch \in Seq(Event)
    /\ seen \subseteq Notes
    /\ mfds \subseteq Nat
    /\ kq \in Int

QueueTypes ==
    /\ interrupted \in BOOLEAN
    /\ watched \in BOOLEAN
    /\ proc \in {"none", "on", "done"}
    /\ active \subseteq {"SIGNAL"} \cup Notes

PipeTypes ==
    /\ rd \in Int
    /\ wr \in Int
    /\ piped \in BOOLEAN
    /\ bytes \in 0 .. 1

ChildTypes ==
    /\ cfds \subseteq Nat
    /\ child \in {"none", "blocked", "setup", "exec", "running", "failed", "over"}

TypeOK ==
    /\ ManagerTypes
    /\ QueueTypes
    /\ PipeTypes
    /\ ChildTypes

Init ==
    /\ mpc = "kqueue"
    /\ fate = [sig |-> "none", at |-> "none"]
    /\ should_exit = FALSE
    /\ sigint = "default"
    /\ interrupted = FALSE
    /\ watched = FALSE
    /\ proc = "none"
    /\ active = {}
    /\ batch = <<>>
    /\ seen = {}
    /\ mfds \in InheritedSets
    /\ cfds = {}
    /\ kq = NoFd
    /\ rd = NoFd /\ wr = NoFd
    /\ piped = FALSE
    /\ bytes = 0
    /\ child = "none"

-----------------------------------------------------------------------------
(* The kernel *)

\* A new descriptor is the lowest number that is free, below the limit.
FreeFds(S) == {n \in 0 .. OpenMax - 1 : n \notin S}
Lowest(S) == CHOOSE n \in S : \A m \in S : n <= m

\* The manager's process is gone: its descriptors are closed.
Exit ==
    /\ mpc' = "exited"
    /\ mfds' = {}
    /\ UNCHANGED fate

Killed(sig) ==
    /\ mpc' = "killed"
    /\ mfds' = {}
    /\ fate' = [sig |-> sig, at |-> mpc]

\* A note of the subprocess activates the PROC filter.
Noted(n) == active' = IF proc = "on" /\ ~Ended THEN active \cup {n} ELSE active

PipeHasReader == rd \in mfds \/ (ChildAlive /\ rd \in cfds)

-----------------------------------------------------------------------------
(* Manager::main up to the main loop *)

\* kq = kqueue()
main_kqueue ==
    /\ mpc = "kqueue"
    /\ \/ /\ FreeFds(mfds) # {}
          /\ kq' = Lowest(FreeFds(mfds))
          /\ mfds' = mfds \cup {kq'}
          /\ mpc' = "watch"
          /\ UNCHANGED fate
       \/ /\ Exit
          /\ UNCHANGED kq
    /\ UNCHANGED <<should_exit, sigint, batch, seen, interrupted, kvars, pipevars,
                   childvars>>

\* Mutant: the signal is ignored before it is watched.
kqueue_signal_reversed ==
    /\ \/ /\ mpc = "watch"
          /\ sigint' = "ignored"
          /\ mpc' = "ignore"
          /\ UNCHANGED watched
       \/ /\ mpc = "ignore"
          /\ watched' = TRUE
          /\ mpc' = "pipe"
          /\ UNCHANGED sigint
    /\ UNCHANGED <<fate, should_exit, batch, seen, mfds, kq, interrupted, proc,
                   active, pipevars, childvars>>

\* Mutant: the disposition is never changed.
kqueue_signal_unignored ==
    /\ mpc \in {"watch", "ignore"}
    /\ watched' = TRUE
    /\ mpc' = "pipe"
    /\ UNCHANGED <<fate, should_exit, sigint, batch, seen, mfds, kq, interrupted, proc,
                   active, pipevars, childvars>>

\* kqueue_signal(kq, SIGINT): first the filter, then, inside an assert, the
\* disposition.
kqueue_signal ==
    /\ \/ /\ mpc = "watch"
          /\ \/ watched' = TRUE /\ mpc' = "ignore" /\ UNCHANGED <<fate, mfds>>
             \/ Exit /\ UNCHANGED watched
          /\ UNCHANGED sigint
       \/ /\ mpc = "ignore"
          /\ sigint' = IF NDebug THEN sigint ELSE "ignored"
          /\ mpc' = "pipe"
          /\ UNCHANGED <<watched, fate, mfds>>
    /\ UNCHANGED <<should_exit, batch, seen, kq, interrupted, proc,
                   active, pipevars, childvars>>

-----------------------------------------------------------------------------
(* Job::exec, called by Domain::bootstrap_sys, which ignores its result *)

\* pipe(waitfd), unchecked: when it fails waitfd keeps what was on the stack,
\* which may be the number of an open descriptor.
exec_pipe ==
    /\ mpc = "pipe"
    /\ mpc' = "fork"
    /\ \/ LET free == FreeFds(mfds)
              r    == Lowest(free)
              rest == free \ {r}
          IN  /\ free # {} /\ rest # {}
              /\ rd' = r /\ wr' = Lowest(rest)
              /\ mfds' = mfds \cup {rd', wr'}
              /\ piped' = TRUE
       \/ /\ rd' \in mfds \cup {NoFd} /\ wr' \in mfds \cup {NoFd}
          /\ UNCHANGED <<piped, mfds>>
    /\ UNCHANGED <<fate, should_exit, sigint, batch, seen, kq, interrupted, kvars,
                   bytes, childvars>>

\* fork(): the subprocess gets a copy of every descriptor but the kernel queue.
\* A failure is -1, which the test i < -1 does not catch: it is the parent's
\* branch that goes on, with pid -1.
exec_fork ==
    /\ mpc = "fork"
    /\ mpc' = "attach"
    /\ \/ child' = "blocked" /\ cfds' = mfds \ {kq}
       \/ UNCHANGED childvars
    /\ UNCHANGED <<fate, should_exit, sigint, batch, seen, mfds, kq, interrupted,
                   kvars, pipevars>>

\* kevent(EV_ADD EVFILT_PROC) on the subprocess.  It fails for pid -1, may fail
\* for want of memory, and for a subprocess that is over it fails or reports the
\* exit at once, as the kernel has it.  On failure exec returns.
exec_attach ==
    /\ mpc = "attach"
    /\ \/ /\ child # "none"
          /\ proc' = "on"
          /\ active' = IF ChildAlive THEN active ELSE active \cup {"EXIT"}
          /\ mpc' = "close_rd"
       \/ /\ mpc' = "loop"
          /\ UNCHANGED <<proc, active>>
    /\ UNCHANGED <<fate, should_exit, sigint, batch, seen, mfds, kq, interrupted,
                   watched, pipevars, childvars>>

\* Mutant: the read end stays open in the manager.
exec_close_rd_missing ==
    /\ mpc = "close_rd"
    /\ mpc' = "write"
    /\ UNCHANGED <<fate, should_exit, sigint, batch, seen, mfds, kq, interrupted, kvars,
                   pipevars, childvars>>

\* close(waitfd[0])
exec_close_rd ==
    /\ mpc = "close_rd"
    /\ mfds' = mfds \ {rd}
    /\ mpc' = "write"
    /\ UNCHANGED <<fate, should_exit, sigint, batch, seen, kq, interrupted, kvars,
                   pipevars, childvars>>

\* Mutant: the byte is not written.
exec_write_missing ==
    /\ mpc = "write"
    /\ mpc' = "close_wr"
    /\ UNCHANGED <<fate, should_exit, sigint, batch, seen, mfds, kq, interrupted, kvars,
                   pipevars, childvars>>

\* write(waitfd[1], "0", 1): without a reader the manager gets SIGPIPE, which it
\* does not ignore; a bad descriptor is logged.
exec_write ==
    /\ mpc = "write"
    /\ IF piped /\ ~PipeHasReader
       THEN /\ Killed("SIGPIPE")
            /\ UNCHANGED bytes
       ELSE /\ mpc' = "close_wr"
            /\ bytes' = IF piped THEN bytes + 1 ELSE bytes
            /\ UNCHANGED <<fate, mfds>>
    /\ UNCHANGED <<should_exit, sigint, batch, seen, kq, interrupted, kvars,
                   rd, wr, piped, childvars>>

\* close(waitfd[1])
exec_close_wr ==
    /\ mpc = "close_wr"
    /\ mfds' = mfds \ {wr}
    /\ mpc' = "loop"
    /\ UNCHANGED <<fate, should_exit, sigint, batch, seen, kq, interrupted, kvars,
                   pipevars, childvars>>

-----------------------------------------------------------------------------
(* The main loop *)

\* The events kevent returns for the notes in S: one for the signal filter, one
\* for the process filter with all its notes; kev[5] has room for both.
Events(S) == {S \cap {"SIGNAL"}, S \cap Notes} \ {{}}

Batches(S) == {b \in UNION {[1 .. n -> Events(S)] : n \in 1 .. 2} :
                 /\ \A e \in Events(S) : \E i \in DOMAIN b : b[i] = e
                 /\ \A i, j \in DOMAIN b : b[i] = b[j] => i = j}

\* kevent(kq, NULL, 0, kev, 5, NULL) blocks until a filter is active and takes
\* what is active; NOTE_EXIT ends the process filter.  It fails when its
\* descriptor is gone.
main_kevent ==
    /\ mpc = "loop"
    /\ ~should_exit
    /\ IF kq \in mfds
       THEN /\ active # {}
            /\ batch' \in Batches(active)
            /\ active' = {}
            /\ proc' = IF "EXIT" \in active THEN "done" ELSE proc
            /\ mpc' = "dispatch"
            /\ UNCHANGED <<fate, mfds>>
       ELSE /\ Exit
            /\ UNCHANGED <<batch, active, proc>>
    /\ UNCHANGED <<should_exit, sigint, seen, kq, interrupted, watched, pipevars,
                   childvars>>

\* kevent returns -1 with EINTR, which only the branch for 0 provides for.
main_kevent_interrupted ==
    /\ mpc = "loop"
    /\ ~should_exit
    /\ Exit
    /\ UNCHANGED <<should_exit, sigint, batch, seen, kq, interrupted, kvars, pipevars,
                   childvars>>

\* while (!should_exit) is left: main returns.
main_return ==
    /\ mpc = "loop"
    /\ should_exit
    /\ Exit
    /\ UNCHANGED <<should_exit, sigint, batch, seen, kq, interrupted, kvars, pipevars,
                   childvars>>

\* Mutant: the loop over kev[] ends one event early.
main_dispatch_short ==
    /\ mpc = "dispatch"
    /\ batch' = Tail(batch)
    /\ IF Len(batch) = 1
       THEN UNCHANGED <<should_exit, seen>>
       ELSE /\ should_exit' = (should_exit \/ Head(batch) = {"SIGNAL"})
            /\ seen' = IF Head(batch) = {"SIGNAL"} THEN seen ELSE seen \cup Head(batch)
    /\ mpc' = IF Len(batch) = 1 THEN "loop" ELSE "dispatch"
    /\ UNCHANGED <<fate, sigint, mfds, kq, interrupted, kvars, pipevars, childvars>>

\* handler->event_cb of the next event: Manager::event_cb for the signal,
\* Job::event_cb, which only logs, for the subprocess.
main_dispatch ==
    /\ mpc = "dispatch"
    /\ batch' = Tail(batch)
    /\ should_exit' = (should_exit \/ Head(batch) = {"SIGNAL"})
    /\ seen' = IF Head(batch) = {"SIGNAL"} THEN seen ELSE seen \cup Head(batch)
    /\ mpc' = IF Len(batch) = 1 THEN "loop" ELSE "dispatch"
    /\ UNCHANGED <<fate, sigint, mfds, kq, interrupted, kvars, pipevars, childvars>>

-----------------------------------------------------------------------------
(* The subprocess *)

\* Mutant: the subprocess does not wait for the byte.
exec_child_read_nowait ==
    /\ child = "blocked"
    /\ cfds' = cfds \ {rd}
    /\ child' = "setup"
    /\ UNCHANGED <<mvars, interrupted, kvars, pipevars>>

\* read(waitfd[0], &dispose, 1), unchecked, and close(waitfd[0]).  The pipe never
\* ends for the subprocess, which holds its write end.  A read of something else
\* may return at once; one of a closed descriptor does.
exec_child_read ==
    /\ child = "blocked"
    /\ piped => bytes > 0
    /\ bytes' = IF piped THEN bytes - 1 ELSE bytes
    /\ cfds' = cfds \ {rd}
    /\ child' = "setup"
    /\ UNCHANGED <<mvars, interrupted, kvars, rd, wr, piped>>

\* setup_subproc calls close_fds_except with nothing to keep: the job is not
\* is_bootstrap.
close_fds_except ==
    /\ child = "setup"
    /\ cfds' = {f \in cfds : f < FirstFd \/ f >= FdBound}
    /\ child' = "exec"
    /\ UNCHANGED <<mvars, interrupted, kvars, pipevars>>

\* execve: argv has no terminating NULL, so that even a program that exists may
\* fail to start; a failure is logged and the subprocess exits.
setup_subproc_execve ==
    /\ child = "exec"
    /\ \/ /\ child' = "running"
          /\ UNCHANGED <<active, cfds>>
       \/ /\ child' = "failed"
          /\ cfds' = {}
          /\ Noted("EXIT")
    /\ UNCHANGED <<mvars, interrupted, watched, proc, pipevars>>

-----------------------------------------------------------------------------
(* The environment *)

\* SIGINT for the manager: noted by the filter, and fatal unless ignored.
interrupt ==
    /\ ~Ended
    /\ interrupted' = TRUE
    /\ active' = IF watched THEN active \cup {"SIGNAL"} ELSE active
    /\ IF sigint = "default" THEN Killed("SIGINT") ELSE UNCHANGED <<mpc, mfds, fate>>
    /\ UNCHANGED <<should_exit, sigint, batch, seen, kq, watched, proc, pipevars,
                   childvars>>

\* SIGTERM for the manager, which no filter watches.
terminate ==
    /\ ~Ended
    /\ Killed("SIGTERM")
    /\ UNCHANGED <<should_exit, sigint, batch, seen, kq, interrupted, kvars, pipevars,
                   childvars>>

\* The subprocess is killed, or its program ends.
child_over ==
    /\ ChildAlive
    /\ child' = "over"
    /\ cfds' = {}
    /\ Noted("EXIT")
    /\ UNCHANGED <<mvars, interrupted, watched, proc, pipevars>>

\* The program forks.
child_forks ==
    /\ child = "running"
    /\ Noted("FORK")
    /\ UNCHANGED <<mvars, interrupted, watched, proc, pipevars, childvars>>

-----------------------------------------------------------------------------

Exec == exec_pipe \/ exec_fork \/ exec_attach \/ exec_close_rd \/ exec_write
        \/ exec_close_wr

Manager == main_kqueue \/ kqueue_signal \/ Exec \/ main_kevent \/ main_return
           \/ main_dispatch

Subprocess == exec_child_read \/ close_fds_except \/ setup_subproc_execve

Environment == interrupt \/ terminate \/ main_kevent_interrupted \/ child_over
               \/ child_forks

Next == Manager \/ Subprocess \/ Environment

Spec == Init /\ [][Next]_vars

\* Both processes are scheduled.  The environment owes nothing, and neither does
\* a read of a descriptor that is not the pipe.
FairSpec ==
    /\ Spec
    /\ WF_vars(Manager)
    /\ WF_vars(Subprocess /\ (Waiting => piped))

-----------------------------------------------------------------------------
(* Properties *)

\* A SIGINT that does not kill the manager on the way up is turned into an orderly
\* shutdown: after kqueue_signal has returned, SIGINT never kills (main.cc, the
\* comment on the signal's disposition in kqueue_signal).
OrderlySigint == fate.sig = "SIGINT" => fate.at \in Starting

\* No SIGINT is lost: whenever it comes, between two steps of kqueue_signal, while
\* the job is launched or during a dispatch, the manager ends.
SigintStops == interrupted ~> Ended

\* The barrier: as long as the pipe was made, the subprocess gets past its read
\* only after the PROC filter is attached, so that no fork of the job's program
\* and no exit goes unnoted (job.cc, exec).
BeginsWatched == Begun /\ piped => proc # "none"

\* The exit of a watched subprocess is reported to Job::event_cb unless the
\* manager ends first, however it falls among forks, signals and batches.
ExitReported == (proc # "none" /\ child \in {"failed", "over"}) ~> ("EXIT" \in seen \/ Ended)

\* A subprocess that waits on the pipe is let go, unless the manager ends or fails
\* to attach the filter: exec then returns and leaves it waiting.
ChildReleased ==
    (Waiting /\ piped) ~> (~Waiting \/ Ended \/ (mpc \in Running /\ proc = "none"))

\* The write that lets the subprocess begin is fatal to the manager only if the
\* subprocess was killed while it waited: one that runs cannot close the read end
\* too early.
PipeSignalMeansDeadChild ==
    fate.sig = "SIGPIPE" => child = "over" /\ bytes = 0

\* The descriptors of a launch do not outlive it in the manager: once the filter
\* is attached and exec has returned, both ends of waitfd are closed there and
\* the kernel queue is not.
LaunchClosesPipe ==
    mpc \in Running /\ piped /\ proc # "none" => rd \notin mfds /\ wr \notin mfds /\ kq \in mfds

-----------------------------------------------------------------------------
(* The inductive invariant behind them, in parts *)

\* Past kqueue_signal, SIGINT is ignored.
Armed == ~NDebug /\ mpc \in Launching \cup Running => sigint = "ignored"

\* Before the fork there is no subprocess, no filter on it and no byte; inside
\* exec, past the attach, there are the first two.
LaunchOrder ==
    /\ mpc \in Starting \cup {"pipe", "fork"} =>
          child = "none" /\ bytes = 0 /\ proc = "none"
    /\ mpc \in Starting \cup {"pipe"} => ~piped
    /\ mpc = "attach" => proc = "none"
    /\ active \cap Notes # {} => proc # "none"
    /\ mpc \in {"close_rd", "write", "close_wr"} => child # "none" /\ proc # "none"
    /\ mpc = "dispatch" => batch # <<>>

\* Who has which end of a pipe that was made.
PipeEnds ==
    /\ mpc \in {"watch", "ignore", "pipe"} => kq \in mfds
    /\ piped =>
          /\ rd # wr /\ rd # kq /\ wr # kq
          /\ mpc \in {"fork", "attach", "close_rd"} => {rd, wr, kq} \subseteq mfds
          /\ mpc = "write" => rd \notin mfds /\ {wr, kq} \subseteq mfds
          /\ mpc = "close_wr" => rd \notin mfds /\ kq \in mfds
          /\ Waiting => rd \in cfds

\* The pipe holds the subprocess back until the manager's write, which comes
\* after the attach.
Barrier ==
    piped =>
       /\ mpc \in {"attach", "close_rd", "write"} =>
             bytes = 0 /\ child \in {"none", "blocked", "over"}
       /\ Begun \/ bytes > 0 => proc # "none"

IInv ==
    /\ TypeOK
    /\ Armed
    /\ LaunchOrder
    /\ PipeEnds
    /\ Barrier
    /\ ~NDebug => OrderlySigint
    /\ PipeSignalMeansDeadChild
    /\ LaunchClosesPipe

-----------------------------------------------------------------------------
(* What the comment in a header says *)

\* procutil.h on close_fds_except: it closes all descriptors of number 3 or above,
\* so that the job's program starts with the standard ones only.
DescriptorsClosed == child = "running" => \A f \in cfds : f < FirstFd

=============================================================================
