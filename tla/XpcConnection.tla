---------------------------- MODULE XpcConnection ----------------------------
(***************************************************************************)
(* Connections over D-Bus (xpc_dbus.c): xpc_connection_create_mach_service *)
(* with setup_xpc, xpc_connection_send_message, and the release of a       *)
(* connection, in several processes whose threads share conn_bus.          *)
(*                                                                         *)
(* The session bus is external: a queue of owners for each name, of which  *)
(* the first receives the messages; no listener allows its replacement, so *)
(* a second request is queued.  The bus notices the end of a process later.*)
(* Whether a peer answers is up to it: the repository has no receiver.     *)
(***************************************************************************)
EXTENDS Integers, Sequences

CONSTANTS Threads,
          ProcOf,   \* the process of each thread
          Names,    \* bus names
          Conns,    \* addresses malloc can return for a connection
          None

Processes == {ProcOf[t] : t \in Threads}

ASSUME ProcOfAssumption == ProcOf \in [Threads -> Processes]

ASSUME NoneAssumption == None \notin Processes \cup Conns \cup Names

VARIABLES
    proc,      \* a process is "up", "ended", or "gone" once the bus knows
    conn_bus,  \* the static conn_bus of a process is not NULL
    pc,        \* where a thread is
    arg,       \* the connection it makes or sends on
    conn,      \* the struct _xpc_connection_s at each address
    owners,    \* the bus: the queue of owners of each name
    call,      \* the method call a blocked thread waits for
    granted    \* history: the names a process was ever made owner of

vars == <<proc, conn_bus, pc, arg, conn, owners, call, granted>>

NoConn == [st |-> "free", proc |-> None, name |-> None, listener |-> FALSE,
           passive |-> FALSE, bus |-> FALSE]

NoCall == [st |-> "none", to |-> None]

Creating == {"setup", "get", "request", "granted", "refused"}

TypeOK ==
    /\ proc \in [Processes -> {"up", "ended", "gone"}]
    /\ conn_bus \in [Processes -> BOOLEAN]
    /\ pc \in [Threads -> {"idle", "blocked", "dead"} \cup Creating]
    /\ arg \in [Threads -> Conns \cup {None}]
    /\ conn \in [Conns -> [st : {"free", "making", "ready"},
                           proc : Processes \cup {None},
                           name : Names \cup {None}, listener : BOOLEAN,
                           passive : BOOLEAN, bus : BOOLEAN]]
    /\ owners \in [Names -> Seq(Processes)]
    /\ call \in [Threads -> [st : {"none", "queued", "over"}, to : {None}]
                            \cup [st : {"at"}, to : Processes]]
    /\ granted \in [Processes -> SUBSET Names]

Init ==
    /\ proc = [p \in Processes |-> "up"]
    /\ conn_bus = [p \in Processes |-> FALSE]
    /\ pc = [t \in Threads |-> "idle"]
    /\ arg = [t \in Threads |-> None]
    /\ conn = [c \in Conns |-> NoConn]
    /\ owners = [n \in Names |-> <<>>]
    /\ call = [t \in Threads |-> NoCall]
    /\ granted = [p \in Processes |-> {}]

Name(t) == conn[arg[t]].name

\* The primary owner of a name.
Owner(n) == IF owners[n] = <<>> THEN None ELSE owners[n][1]

Goto(t, where) == pc' = [pc EXCEPT ![t] = where]

\* exit(1), abort or a fatal signal: every thread of the process is over and its
\* memory is gone.
Ends(p) ==
    /\ proc' = [proc EXCEPT ![p] = "ended"]
    /\ pc' = [t \in Threads |-> IF ProcOf[t] = p THEN "dead" ELSE pc[t]]
    /\ arg' = [t \in Threads |-> IF ProcOf[t] = p THEN None ELSE arg[t]]
    /\ conn' = [c \in Conns |-> IF conn[c].proc = p THEN NoConn ELSE conn[c]]
    /\ call' = [t \in Threads |-> IF ProcOf[t] = p THEN NoCall ELSE call[t]]
    /\ conn_bus' = [conn_bus EXCEPT ![p] = FALSE]

-----------------------------------------------------------------------------
(* xpc_connection_create_mach_service *)

\* malloc and the fields set before setup_xpc.  passive is set for a listener
\* only; for another connection it holds what was in the memory.
create_begin(t, c, n, listener) ==
    /\ pc[t] = "idle"
    /\ conn[c].st = "free"
    /\ \E junk \in BOOLEAN :
          conn' = [conn EXCEPT ![c] =
                     [st |-> "making", proc |-> ProcOf[t], name |-> n,
                      listener |-> listener,
                      passive |-> IF listener THEN TRUE ELSE junk,
                      bus |-> FALSE]]
    /\ arg' = [arg EXCEPT ![t] = c]
    /\ Goto(t, "setup")
    /\ UNCHANGED <<proc, conn_bus, owners, call, granted>>

\* Where a thread goes when setup_xpc has returned, whatever it returned.
AfterSetup(t) == IF conn[arg[t]].listener THEN "request" ELSE "granted"

\* setup_xpc up to the call of dbus_bus_get.
setup_test(t) ==
    /\ pc[t] = "setup"
    /\ Goto(t, IF conn_bus[ProcOf[t]] THEN AfterSetup(t) ELSE "get")
    /\ UNCHANGED <<proc, conn_bus, arg, conn, owners, call, granted>>

\* dbus_bus_get returns a connection, or sets an error; -1 is not looked at.
setup_get(t) ==
    /\ pc[t] = "get"
    /\ \E ok \in BOOLEAN : conn_bus' = [conn_bus EXCEPT ![ProcOf[t]] = ok]
    /\ Goto(t, AfterSetup(t))
    /\ UNCHANGED <<proc, arg, conn, owners, call, granted>>

\* dbus_bus_get returns NULL and sets no error: exit(1).
setup_exit(t) ==
    /\ pc[t] = "get"
    /\ Ends(ProcOf[t])
    /\ UNCHANGED <<owners, granted>>

\* dbus_bus_request_name without a bus, or failing: exit(1).
request_fails(t) ==
    /\ pc[t] = "request"
    /\ Ends(ProcOf[t])
    /\ UNCHANGED <<owners, granted>>

\* Mutant: the request carries DBUS_NAME_FLAG_ALLOW_REPLACEMENT as well, so that
\* the next REPLACE_EXISTING takes the name away.
request_name_replaceable(t) ==
    LET p == ProcOf[t]
        n == Name(t)
    IN  /\ pc[t] = "request"
        /\ conn_bus[p]
        /\ \/ /\ Owner(n) # p
              /\ owners' = [owners EXCEPT ![n] = <<p>> \o @]
              /\ granted' = [granted EXCEPT ![p] = @ \cup {n}]
              /\ Goto(t, "granted")
           \/ /\ Owner(n) = p
              /\ Goto(t, "refused")
              /\ UNCHANGED <<owners, granted>>
        /\ UNCHANGED <<proc, conn_bus, arg, conn, call>>

\* The bus: the first who asks becomes PRIMARY_OWNER, who asks again is
\* ALREADY_OWNER, everyone else is IN_QUEUE.
request_name(t) ==
    LET p == ProcOf[t]
        n == Name(t)
    IN  /\ pc[t] = "request"
        /\ conn_bus[p]
        /\ \/ /\ owners[n] = <<>>
              /\ owners' = [owners EXCEPT ![n] = <<p>>]
              /\ granted' = [granted EXCEPT ![p] = @ \cup {n}]
              /\ Goto(t, "granted")
           \/ /\ owners[n] # <<>>
              /\ owners' = [owners EXCEPT ![n] =
                    IF \E i \in DOMAIN @ : @[i] = p THEN @ ELSE Append(@, p)]
              /\ Goto(t, "refused")
              /\ UNCHANGED granted
        /\ UNCHANGED <<proc, conn_bus, arg, conn, call>>

\* Mutant: the creator gets NULL, and stays in the queue of the name.
request_refused_null(t) ==
    /\ pc[t] = "refused"
    /\ conn' = [conn EXCEPT ![arg[t]] = NoConn]
    /\ arg' = [arg EXCEPT ![t] = None]
    /\ Goto(t, "idle")
    /\ UNCHANGED <<proc, conn_bus, owners, call, granted>>

\* Any reply but PRIMARY_OWNER: exit(1).
request_refused(t) ==
    /\ pc[t] = "refused"
    /\ Ends(ProcOf[t])
    /\ UNCHANGED <<owners, granted>>

\* res->conn = conn_bus; return res
create_end(t) ==
    /\ pc[t] = "granted"
    /\ conn' = [conn EXCEPT ![arg[t]].st = "ready",
                            ![arg[t]].bus = conn_bus[ProcOf[t]]]
    /\ arg' = [arg EXCEPT ![t] = None]
    /\ Goto(t, "idle")
    /\ UNCHANGED <<proc, conn_bus, owners, call, granted>>

\* xpc_release of a connection: xpc_object_destroy frees it and does nothing
\* about its name.  No other thread of the process is using it.
xpc_release(t, c) ==
    /\ pc[t] = "idle"
    /\ conn[c].st = "ready"
    /\ conn[c].proc = ProcOf[t]
    /\ \A u \in Threads : arg[u] # c
    /\ conn' = [conn EXCEPT ![c] = NoConn]
    /\ UNCHANGED <<proc, conn_bus, pc, arg, owners, call, granted>>

-----------------------------------------------------------------------------
(* xpc_connection_send_message.  A passive connection and a message that   *)
(* cannot be serialised are refused with a log entry, and nothing changes. *)

xpc_connection_send_message(t, c) ==
    /\ pc[t] = "idle"
    /\ conn[c].st = "ready"
    /\ conn[c].proc = ProcOf[t]
    /\ ~conn[c].passive
    /\ \/ /\ conn[c].bus
          /\ Goto(t, "blocked")
          /\ arg' = [arg EXCEPT ![t] = c]
          /\ call' = [call EXCEPT ![t] = [NoCall EXCEPT !.st = "queued"]]
          /\ UNCHANGED <<proc, conn_bus, conn>>
       \* libdbus asserts that it is given a connection
       \/ ~conn[c].bus /\ Ends(ProcOf[t])
    /\ UNCHANGED <<owners, granted>>

\* Mutant: the call is made with DBUS_TIMEOUT_INFINITE instead of -1.
send_return_infinite(t) ==
    /\ pc[t] = "blocked"
    /\ call[t].st = "over"
    /\ call' = [call EXCEPT ![t] = NoCall]
    /\ arg' = [arg EXCEPT ![t] = None]
    /\ Goto(t, "idle")
    /\ UNCHANGED <<proc, conn_bus, conn, owners, granted>>

\* A reply, an error or the default timeout lets the sender go.  It then reads
\* its own message, drops the result, and frees neither message.
send_return(t) ==
    /\ pc[t] = "blocked"
    /\ call' = [call EXCEPT ![t] = NoCall]
    /\ arg' = [arg EXCEPT ![t] = None]
    /\ Goto(t, "idle")
    /\ UNCHANGED <<proc, conn_bus, conn, owners, granted>>

-----------------------------------------------------------------------------
(* The bus and the environment *)

\* The bus hands the message to the first owner, or answers ServiceUnknown.
bus_route(t) ==
    /\ call[t].st = "queued"
    /\ call' = [call EXCEPT ![t] =
          IF Owner(Name(t)) = None THEN [NoCall EXCEPT !.st = "over"]
          ELSE [st |-> "at", to |-> Owner(Name(t))]]
    /\ UNCHANGED <<proc, conn_bus, pc, arg, conn, owners, granted>>

peer_answers(t) ==
    /\ call[t].st = "at"
    /\ proc[call[t].to] = "up"
    /\ call' = [call EXCEPT ![t] = [NoCall EXCEPT !.st = "over"]]
    /\ UNCHANGED <<proc, conn_bus, pc, arg, conn, owners, granted>>

\* A queue without the one place of a process in it.
Without(s, p) ==
    LET k == CHOOSE i \in DOMAIN s : s[i] = p
    IN  IF \E i \in DOMAIN s : s[i] = p
        THEN [j \in 1 .. Len(s) - 1 |-> IF j < k THEN s[j] ELSE s[j + 1]]
        ELSE s

\* The bus notices the end of a process: its names pass to the next in the queue
\* and who waits for its answer gets NoReply.
bus_disconnect(p) ==
    /\ proc[p] = "ended"
    /\ proc' = [proc EXCEPT ![p] = "gone"]
    /\ owners' = [n \in Names |-> Without(owners[n], p)]
    /\ call' = [t \in Threads |-> IF call[t].to = p THEN [NoCall EXCEPT !.st = "over"]
                                  ELSE call[t]]
    /\ UNCHANGED <<conn_bus, pc, arg, conn, granted>>

killed(p) ==
    /\ proc[p] = "up"
    /\ Ends(p)
    /\ UNCHANGED <<owners, granted>>

-----------------------------------------------------------------------------

Create(t) ==
    \/ setup_test(t) \/ setup_get(t) \/ setup_exit(t)
    \/ request_name(t) \/ request_fails(t) \/ request_refused(t) \/ create_end(t)

Next ==
    \/ \E t \in Threads, c \in Conns, n \in Names, l \in BOOLEAN :
          create_begin(t, c, n, l)
    \/ \E t \in Threads : Create(t) \/ send_return(t) \/ bus_route(t) \/ peer_answers(t)
    \/ \E t \in Threads, c \in Conns :
          xpc_connection_send_message(t, c) \/ xpc_release(t, c)
    \/ \E p \in Processes : bus_disconnect(p) \/ killed(p)

Spec == Init /\ [][Next]_vars

\* A thread inside a call of the library goes on; libdbus ends the wait after the
\* default timeout; peers and the environment owe nothing.
FairSpec == Spec /\ \A t \in Threads : WF_vars(Create(t)) /\ WF_vars(send_return(t))

-----------------------------------------------------------------------------
(* Properties *)

\* c is a listener for n that its process has been given.
Listens(c, n) ==
    conn[c].st = "ready" /\ conn[c].listener /\ conn[c].name = n

\* A process that has a listener for a name, or is about to get it, is the one
\* the bus sends the messages for that name to: it cannot lose the name to
\* another listener while it lives.  There is one listener connection at most for a
\* name, in all processes and all threads of a process together (xpc_dbus.c,
\* xpc_connection_create_mach_service).
ListenerOwnsName ==
    /\ TypeOK
    /\ \A c \in Conns, n \in Names : Listens(c, n) => Owner(n) = conn[c].proc
    /\ \A t \in Threads : pc[t] = "granted" /\ conn[arg[t]].listener
                             => Owner(Name(t)) = ProcOf[t]
    /\ \A c, d \in Conns, n \in Names : Listens(c, n) /\ Listens(d, n) => c = d

\* A message is with a process that was made owner of the name, or with one that
\* was refused it and is ending: it is never answered by a process that has
\* nothing to do with the name.
DeliveredToOwner ==
    \A t \in Threads : call[t].st = "at" =>
       \/ Name(t) \in granted[call[t].to]
       \/ proc[call[t].to] # "up"
       \/ \E u \in Threads : /\ ProcOf[u] = call[t].to
                             /\ pc[u] = "refused"
                             /\ Name(u) = Name(t)

\* passive tells whether a connection is a listener (xpc_dbus.c:16).
PassiveIsListener ==
    \A c \in Conns : conn[c].st = "ready" => conn[c].passive = conn[c].listener

\* Refinement: listeners come and go as NameService says.
Registry == INSTANCE NameService
    WITH Nobody <- None,
         listener <- [n \in Names |->
                        IF \E c \in Conns : Listens(c, n)
                        THEN conn[CHOOSE c \in Conns : Listens(c, n)].proc
                        ELSE None]
ImplementsRegistry == Registry!Spec

\* Every call of the library comes back or ends the process: a sender does not
\* wait for ever, not even for itself, and neither does who creates a connection.
CallsEnd == \A t \in Threads : pc[t] # "idle" ~> pc[t] \in {"idle", "dead"}

-----------------------------------------------------------------------------
(* The invariant that makes ListenerOwnsName inductive *)

\* A connection belongs to a process that is up.
UpHolds ==
    \A c \in Conns : conn[c].st # "free" =>
       /\ conn[c].proc \in Processes
       /\ conn[c].name \in Names
       /\ proc[conn[c].proc] = "up"

\* What a thread is doing and the connection it does it with go together.
ThreadArgs ==
    \A t \in Threads :
       /\ pc[t] # "dead" => proc[ProcOf[t]] = "up"
       /\ pc[t] \in Creating => /\ arg[t] \in Conns
                                /\ conn[arg[t]].st = "making"
                                /\ conn[arg[t]].proc = ProcOf[t]
       /\ pc[t] = "blocked" => /\ arg[t] \in Conns
                               /\ conn[arg[t]].st = "ready"
                               /\ conn[arg[t]].proc = ProcOf[t]
       /\ pc[t] \in {"idle", "dead"} => arg[t] = None
       /\ call[t].st # "none" => pc[t] = "blocked"

\* No two threads make the same connection.
OwnMaking ==
    \A t, u \in Threads :
       pc[t] \in Creating /\ pc[u] \in Creating /\ arg[t] = arg[u] => t = u

\* c is a listener for n, or the thread that makes it has been given the name.
Holds(c, n) ==
    /\ conn[c].listener /\ conn[c].name = n
    /\ \/ conn[c].st = "ready"
       \/ \E t \in Threads : pc[t] = "granted" /\ arg[t] = c

OneHolder ==
    \A c, d \in Conns, n \in Names :
       Holds(c, n) => Owner(n) = conn[c].proc /\ (Holds(d, n) => c = d)

IInv == TypeOK /\ UpHolds /\ ThreadArgs /\ OwnMaking /\ OneHolder

\* What DeliveredToOwner says of who a message is with.
Entitled(p, n) ==
    \/ n \in granted[p]
    \/ proc[p] # "up"
    \/ \E u \in Threads : ProcOf[u] = p /\ pc[u] = "refused" /\ Name(u) = n

\* It holds of everyone in the queue of a name, so whoever is the first.
QueueEntitled ==
    \A n \in Names : \A k \in DOMAIN owners[n] : Entitled(owners[n][k], n)

=============================================================================
