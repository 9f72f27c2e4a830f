------------------------- MODULE XpcConnectionProofs -------------------------
(***************************************************************************)
(* IInv is an inductive invariant of XpcConnection, and XpcConnection      *)
(* implements NameService, for any processes, threads, names and           *)
(* connections.                                                            *)
(***************************************************************************)
EXTENDS XpcConnection, TLAPS

-----------------------------------------------------------------------------
(* Sequences of owners *)

\* Who leaves a queue leaves a queue, with the same first if it was another.
LEMMA WithoutFacts ==
    ASSUME NEW S, NEW s \in Seq(S), NEW p
    PROVE  /\ Without(s, p) \in Seq(S)
           /\ s # <<>> /\ s[1] # p => Without(s, p) # <<>> /\ Without(s, p)[1] = s[1]
  <1>1. CASE \E i \in DOMAIN s : s[i] = p
    <2> DEFINE k == CHOOSE i \in DOMAIN s : s[i] = p
    <2>1. k \in 1 .. Len(s) /\ s[k] = p
      BY <1>1
    <2> HIDE DEF k
    <2> DEFINE f == [j \in 1 .. Len(s) - 1 |-> IF j < k THEN s[j] ELSE s[j + 1]]
    <2>2. Without(s, p) = f
      BY <1>1 DEF Without, k
    <2>3. Len(s) \in Nat /\ Len(s) >= 1
      BY <2>1
    <2>4. f \in [1 .. Len(s) - 1 -> S]
      BY <2>3
    <2>5. f \in Seq(S)
      BY <2>3, <2>4
    <2>6. ASSUME s[1] # p PROVE f # <<>> /\ f[1] = s[1]
      <3>1. k # 1 /\ Len(s) >= 2
        BY <2>1, <2>6
      <3>2. 1 \in 1 .. Len(s) - 1 /\ 1 < k
        BY <2>1, <2>3, <3>1
      <3>3. f[1] = s[1]
        BY <3>2
      <3>4. Len(f) = Len(s) - 1
        BY <2>3, <2>4
      <3> HIDE DEF f
      <3>5. f # <<>>
        BY <3>1, <3>4, <2>5
      <3> QED
        BY <3>3, <3>5
    <2> QED
      BY <2>2, <2>5, <2>6
  <1>2. CASE ~ \E i \in DOMAIN s : s[i] = p
    BY <1>2 DEF Without
  <1> QED
    BY <1>1, <1>2

-----------------------------------------------------------------------------

\* The initial states satisfy the invariant.
LEMMA InitIInv == Init => IInv
  <1> SUFFICES ASSUME Init PROVE IInv
    OBVIOUS
  <1>1. TypeOK
    BY ProcOfAssumption DEF Init, TypeOK, NoConn, NoCall
  <1>2. UpHolds /\ OwnMaking
    BY DEF Init, UpHolds, OwnMaking, NoConn, Creating
  <1>3. ThreadArgs
    BY ProcOfAssumption DEF Init, ThreadArgs, Creating, NoCall
  <1>4. OneHolder
    BY DEF Init, OneHolder, Holds, NoConn
  <1> QED
    BY <1>1, <1>2, <1>3, <1>4 DEF IInv

-----------------------------------------------------------------------------
(* One lemma per action *)

\* create_begin takes a connection that nobody has.
LEMMA CreateBeginStep ==
    ASSUME IInv, NEW t \in Threads, NEW c \in Conns, NEW n \in Names,
           NEW listener \in BOOLEAN, create_begin(t, c, n, listener)
    PROVE  IInv'
  <1>0. TypeOK /\ UpHolds /\ ThreadArgs /\ OwnMaking /\ OneHolder
    BY DEF IInv
  <1>1. PICK junk \in BOOLEAN :
           conn' = [conn EXCEPT ![c] =
                     [st |-> "making", proc |-> ProcOf[t], name |-> n,
                      listener |-> listener,
                      passive |-> IF listener THEN TRUE ELSE junk,
                      bus |-> FALSE]]
    BY DEF create_begin
  <1>2. /\ pc[t] = "idle" /\ conn[c].st = "free"
        /\ arg' = [arg EXCEPT ![t] = c]
        /\ pc' = [pc EXCEPT ![t] = "setup"]
        /\ UNCHANGED <<proc, conn_bus, owners, call, granted>>
    BY DEF create_begin, Goto
  <1>3. \A u \in Threads : arg[u] # c
    BY <1>0, <1>2, NoneAssumption DEF ThreadArgs, TypeOK, Creating
  <1>4. ProcOf[t] \in Processes /\ proc[ProcOf[t]] = "up"
    BY <1>0, <1>2, ProcOfAssumption DEF ThreadArgs
  <1>5. TypeOK'
    BY <1>0, <1>1, <1>2, <1>4 DEF TypeOK, Creating
  <1>6. UpHolds'
    BY <1>0, <1>1, <1>2, <1>4 DEF UpHolds, TypeOK
  <1>7. ThreadArgs'
    BY <1>0, <1>1, <1>2, <1>3, <1>4 DEF ThreadArgs, TypeOK, Creating
  <1>8. OwnMaking'
    BY <1>0, <1>2, <1>3 DEF OwnMaking, TypeOK, Creating
  <1>9. \A d \in Conns, m \in Names : Holds(d, m)' => Holds(d, m) /\ d # c
    BY <1>0, <1>1, <1>2, <1>3 DEF Holds, TypeOK
  <1>10. OneHolder'
    BY <1>0, <1>1, <1>2, <1>9 DEF OneHolder, Owner, TypeOK
  <1> QED
    BY <1>5, <1>6, <1>7, <1>8, <1>10 DEF IInv

\* setup_xpc moves the thread on; a connection that is no listener is granted
\* without a name.
LEMMA SetupStep ==
    ASSUME IInv, NEW t \in Threads, setup_test(t) \/ setup_get(t)
    PROVE  IInv'
  <1>0. TypeOK /\ UpHolds /\ ThreadArgs /\ OwnMaking /\ OneHolder
    BY DEF IInv
  <1>1. /\ pc[t] \in {"setup", "get"}
        /\ UNCHANGED <<proc, arg, conn, owners, call, granted>>
    BY DEF setup_test, setup_get
  <1>2. PICK where \in {"get", "request", "granted"} :
           /\ pc' = [pc EXCEPT ![t] = where]
           /\ where = "granted" => ~conn[arg[t]].listener
    BY DEF setup_test, setup_get, Goto, AfterSetup
  <1>3. conn_bus' \in [Processes -> BOOLEAN]
    BY <1>0 DEF setup_test, setup_get, TypeOK
  <1>4. TypeOK'
    BY <1>0, <1>1, <1>2, <1>3 DEF TypeOK, Creating
  <1>5. UpHolds'
    BY <1>0, <1>1 DEF UpHolds
  <1>6. ThreadArgs'
    BY <1>0, <1>1, <1>2 DEF ThreadArgs, TypeOK, Creating
  <1>7. OwnMaking'
    BY <1>0, <1>1, <1>2 DEF OwnMaking, TypeOK, Creating
  <1>8. \A d \in Conns, m \in Names : Holds(d, m)' => Holds(d, m)
    BY <1>0, <1>1, <1>2 DEF Holds, TypeOK
  <1>9. OneHolder'
    BY <1>0, <1>1, <1>8 DEF OneHolder, Owner
  <1> QED
    BY <1>4, <1>5, <1>6, <1>7, <1>9 DEF IInv

\* The end of a process takes its threads and connections, and no others.
LEMMA EndsStep ==
    ASSUME IInv, NEW p \in Processes, Ends(p), UNCHANGED <<owners, granted>>
    PROVE  IInv'
  <1>0. TypeOK /\ UpHolds /\ ThreadArgs /\ OwnMaking /\ OneHolder
    BY DEF IInv
  <1>1. p # None
    BY NoneAssumption
  <1>2. NoConn.st = "free" /\ NoConn \in
             [st : {"free", "making", "ready"}, proc : Processes \cup {None},
              name : Names \cup {None}, listener : BOOLEAN,
              passive : BOOLEAN, bus : BOOLEAN]
    BY DEF NoConn
  <1>3. TypeOK'
    <2>1. /\ proc' \in [Processes -> {"up", "ended", "gone"}]
          /\ conn_bus' \in [Processes -> BOOLEAN]
      BY <1>0 DEF Ends, TypeOK
    <2>2. /\ pc' \in [Threads -> {"idle", "blocked", "dead"} \cup Creating]
          /\ arg' \in [Threads -> Conns \cup {None}]
      BY <1>0 DEF Ends, TypeOK
    <2>3. conn' \in [Conns -> [st : {"free", "making", "ready"},
                           proc : Processes \cup {None},
                           name : Names \cup {None}, listener : BOOLEAN,
                           passive : BOOLEAN, bus : BOOLEAN]]
      BY <1>0, <1>2 DEF Ends, TypeOK
    <2>4. call' \in [Threads -> [st : {"none", "queued", "over"}, to : {None}]
                            \cup [st : {"at"}, to : Processes]]
      BY <1>0 DEF Ends, TypeOK, NoCall
    <2> QED
      BY <1>0, <2>1, <2>2, <2>3, <2>4 DEF TypeOK
  <1>4. UpHolds'
    BY <1>0, <1>2 DEF Ends, UpHolds, TypeOK
  <1>5. ThreadArgs'
    <2> SUFFICES ASSUME NEW t \in Threads
                 PROVE  /\ pc'[t] # "dead" => proc'[ProcOf[t]] = "up"
                        /\ pc'[t] \in Creating => /\ arg'[t] \in Conns
                                /\ conn'[arg'[t]].st = "making"
                                /\ conn'[arg'[t]].proc = ProcOf[t]
                        /\ pc'[t] = "blocked" => /\ arg'[t] \in Conns
                                /\ conn'[arg'[t]].st = "ready"
                                /\ conn'[arg'[t]].proc = ProcOf[t]
                        /\ pc'[t] \in {"idle", "dead"} => arg'[t] = None
                        /\ call'[t].st # "none" => pc'[t] = "blocked"
      BY DEF ThreadArgs
    <2>1. CASE ProcOf[t] = p
      BY <2>1 DEF Ends, NoCall, Creating
    <2>2. CASE ProcOf[t] # p
      <3>1. pc'[t] = pc[t] /\ arg'[t] = arg[t] /\ call'[t] = call[t]
        BY <2>2 DEF Ends
      <3>2. proc'[ProcOf[t]] = proc[ProcOf[t]]
        BY <1>0, <2>2, ProcOfAssumption DEF Ends, TypeOK
      <3>3. arg[t] \in Conns /\ conn[arg[t]].proc # p => conn'[arg[t]] = conn[arg[t]]
        BY DEF Ends
      <3> QED
        BY <1>0, <2>2, <3>1, <3>2, <3>3 DEF ThreadArgs, Creating
    <2> QED
      BY <2>1, <2>2
  <1>6. OwnMaking'
    BY <1>0 DEF Ends, OwnMaking, Creating
  <1>7. \A c \in Conns, n \in Names : Holds(c, n)' => Holds(c, n) /\ conn'[c] = conn[c]
    BY <1>0, <1>2 DEF Ends, Holds, NoConn
  <1>8. OneHolder'
    BY <1>0, <1>7 DEF OneHolder, Owner
  <1> QED
    BY <1>3, <1>4, <1>5, <1>6, <1>8 DEF IInv

\* The bus gives a name only when nobody holds it.
LEMMA RequestStep ==
    ASSUME IInv, NEW t \in Threads, request_name(t)
    PROVE  IInv'
  <1>0. TypeOK /\ UpHolds /\ ThreadArgs /\ OwnMaking /\ OneHolder
    BY DEF IInv
  <1> DEFINE p == ProcOf[t]
  <1>1. /\ pc[t] = "request"
        /\ UNCHANGED <<proc, conn_bus, arg, conn, call>>
    BY DEF request_name
  <1>n. PICK n \in Names : n = Name(t)
    BY <1>0, <1>1 DEF ThreadArgs, UpHolds, Creating, Name
  <1>2. p \in Processes /\ arg[t] \in Conns
        /\ conn[arg[t]].proc = p /\ conn[arg[t]].name = n
    BY <1>0, <1>1, <1>n, ProcOfAssumption DEF ThreadArgs, UpHolds, Creating, Name
  <1>3. UpHolds'
    BY <1>0, <1>1 DEF UpHolds
  <1>4. CASE /\ owners[n] = <<>>
             /\ owners' = [owners EXCEPT ![n] = <<p>>]
             /\ granted' = [granted EXCEPT ![p] = @ \cup {n}]
             /\ pc' = [pc EXCEPT ![t] = "granted"]
    <2> HIDE DEF p
    <2>1. TypeOK'
      BY <1>0, <1>1, <1>2, <1>4 DEF TypeOK, Creating
    <2>2. ThreadArgs'
      BY <1>0, <1>1, <1>4 DEF ThreadArgs, TypeOK, Creating
    <2>3. OwnMaking'
      BY <1>0, <1>1, <1>4 DEF OwnMaking, TypeOK, Creating
    <2>4. \A c \in Conns, m \in Names :
             Holds(c, m)' => Holds(c, m) \/ (c = arg[t] /\ m = n)
      BY <1>0, <1>1, <1>2, <1>4 DEF Holds, TypeOK
    <2>5. \A c \in Conns : ~Holds(c, n)
      <3> SUFFICES ASSUME NEW c \in Conns, Holds(c, n) PROVE FALSE
        OBVIOUS
      <3>1. Owner(n) = conn[c].proc
        BY <1>0, <1>2 DEF OneHolder
      <3>2. conn[c].st # "free"
        BY <1>0 DEF Holds, ThreadArgs, Creating
      <3> QED
        BY <1>0, <1>4, <3>1, <3>2, NoneAssumption DEF Owner, UpHolds
    <2>6. \A m \in Names : m # n => Owner(m)' = Owner(m)
      BY <1>0, <1>4 DEF Owner, TypeOK
    <2>7. Owner(n)' = p
      BY <1>0, <1>2, <1>4 DEF Owner, TypeOK
    <2>8. OneHolder'
      <3> SUFFICES ASSUME NEW c \in Conns, NEW d \in Conns, NEW m \in Names, Holds(c, m)'
                   PROVE  Owner(m)' = conn[c].proc /\ (Holds(d, m)' => c = d)
        BY <1>1 DEF OneHolder
      <3>1. CASE m = n
        BY <1>2, <2>4, <2>5, <2>7, <3>1
      <3>2. CASE m # n
        BY <1>0, <2>4, <2>6, <3>2 DEF OneHolder
      <3> QED
        BY <3>1, <3>2
    <2> QED
      BY <1>3, <2>1, <2>2, <2>3, <2>8 DEF IInv
  <1>5. CASE /\ owners[n] # <<>>
             /\ owners' = [owners EXCEPT ![n] =
                    IF \E i \in DOMAIN @ : @[i] = p THEN @ ELSE Append(@, p)]
             /\ pc' = [pc EXCEPT ![t] = "refused"]
             /\ UNCHANGED granted
    <2> HIDE DEF p
    <2>1. owners' \in [Names -> Seq(Processes)]
      BY <1>0, <1>2, <1>5 DEF TypeOK
    <2>2. TypeOK'
      BY <1>0, <1>1, <1>5, <2>1 DEF TypeOK, Creating
    <2>3. ThreadArgs'
      BY <1>0, <1>1, <1>5 DEF ThreadArgs, TypeOK, Creating
    <2>4. OwnMaking'
      BY <1>0, <1>1, <1>5 DEF OwnMaking, TypeOK, Creating
    <2>5. \A c \in Conns, m \in Names : Holds(c, m)' => Holds(c, m)
      BY <1>0, <1>1, <1>5 DEF Holds, TypeOK
    <2>6. \A m \in Names : Owner(m)' = Owner(m)
      <3>1. owners[n] \in Seq(Processes)
        BY <1>0, <1>2 DEF TypeOK
      <3>2. Append(owners[n], p) # <<>> /\ Append(owners[n], p)[1] = owners[n][1]
        BY <1>2, <1>5, <3>1
      <3> QED
        BY <1>0, <1>5, <3>2 DEF Owner, TypeOK
    <2>7. OneHolder'
      BY <1>0, <1>1, <2>5, <2>6 DEF OneHolder
    <2> QED
      BY <1>3, <2>2, <2>3, <2>4, <2>7 DEF IInv
  <1> QED
    BY <1>n, <1>4, <1>5 DEF request_name, Goto

\* A granted connection becomes ready: the same holder.
LEMMA CreateEndStep ==
    ASSUME IInv, NEW t \in Threads, create_end(t)
    PROVE  IInv'
  <1>0. TypeOK /\ UpHolds /\ ThreadArgs /\ OwnMaking /\ OneHolder
    BY DEF IInv
  <1>1. /\ pc[t] = "granted"
        /\ conn' = [conn EXCEPT ![arg[t]].st = "ready",
                                ![arg[t]].bus = conn_bus[ProcOf[t]]]
        /\ arg' = [arg EXCEPT ![t] = None]
        /\ pc' = [pc EXCEPT ![t] = "idle"]
        /\ UNCHANGED <<proc, conn_bus, owners, call, granted>>
    BY DEF create_end, Goto
  <1>2. arg[t] \in Conns /\ conn[arg[t]].st = "making" /\ conn_bus[ProcOf[t]] \in BOOLEAN
    BY <1>0, <1>1, ProcOfAssumption DEF ThreadArgs, Creating, TypeOK
  <1>3. \A c \in Conns :
           /\ c # arg[t] => conn'[c] = conn[c]
           /\ conn'[c].proc = conn[c].proc
           /\ conn'[c].name = conn[c].name
           /\ conn'[c].listener = conn[c].listener
    BY <1>0, <1>1, <1>2 DEF TypeOK
  <1>4. conn'[arg[t]].st = "ready"
    BY <1>0, <1>1, <1>2 DEF TypeOK
  <1>5. \A u \in Threads : u # t /\ pc[u] \in Creating => arg[u] # arg[t]
    BY <1>0, <1>1 DEF OwnMaking, Creating
  <1>6. TypeOK'
    <2> DEFINE Conn == [st : {"free", "making", "ready"}, proc : Processes \cup {None},
                        name : Names \cup {None}, listener : BOOLEAN,
                        passive : BOOLEAN, bus : BOOLEAN]
    <2>0. conn \in [Conns -> Conn]
      BY <1>0 DEF TypeOK
    <2>1. conn' \in [Conns -> Conn]
      <3>1. conn' = [conn EXCEPT ![arg[t]] =
                       [conn[arg[t]] EXCEPT !.st = "ready", !.bus = conn_bus[ProcOf[t]]]]
        BY <1>1, <1>2, <2>0
      <3>2. conn[arg[t]] \in Conn
        BY <1>2, <2>0
      <3>3. [conn[arg[t]] EXCEPT !.st = "ready", !.bus = conn_bus[ProcOf[t]]] \in Conn
        BY <1>2, <3>2
      <3> HIDE DEF Conn
      <3> QED
        BY <2>0, <3>1, <3>3
    <2>2. /\ arg' \in [Threads -> Conns \cup {None}]
          /\ pc' \in [Threads -> {"idle", "blocked", "dead"} \cup Creating]
      BY <1>0, <1>1 DEF TypeOK
    <2> QED
      BY <1>0, <1>1, <2>1, <2>2 DEF TypeOK
  <1>7. UpHolds'
    BY <1>0, <1>1, <1>2, <1>3 DEF UpHolds
  <1>8. ThreadArgs'
    BY <1>0, <1>1, <1>2, <1>3, <1>5 DEF ThreadArgs, TypeOK, Creating
  <1>9. OwnMaking'
    BY <1>0, <1>1 DEF OwnMaking, TypeOK, Creating
  <1>10. \A c \in Conns, n \in Names : Holds(c, n)' => Holds(c, n)
    BY <1>0, <1>1, <1>3 DEF Holds, TypeOK
  <1>11. OneHolder'
    <2>1. \A n \in Names : Owner(n)' = Owner(n)
      BY <1>1 DEF Owner
    <2> SUFFICES ASSUME NEW c \in Conns, NEW d \in Conns, NEW n \in Names, Holds(c, n)'
                 PROVE  Owner(n)' = conn'[c].proc /\ (Holds(d, n)' => c = d)
      BY DEF OneHolder
    <2>2. Owner(n) = conn[c].proc /\ (Holds(d, n) => c = d)
      BY <1>0, <1>10 DEF OneHolder
    <2> QED
      BY <1>3, <1>10, <2>1, <2>2
  <1> QED
    BY <1>6, <1>7, <1>8, <1>9, <1>11 DEF IInv

\* A released connection holds nothing; its name stays with the process.
LEMMA ReleaseStep ==
    ASSUME IInv, NEW t \in Threads, NEW c \in Conns, xpc_release(t, c)
    PROVE  IInv'
  <1>0. TypeOK /\ UpHolds /\ ThreadArgs /\ OwnMaking /\ OneHolder
    BY DEF IInv
  <1>1. /\ \A u \in Threads : arg[u] # c
        /\ conn' = [conn EXCEPT ![c] = NoConn]
        /\ UNCHANGED <<proc, conn_bus, pc, arg, owners, call, granted>>
    BY DEF xpc_release
  <1>2. TypeOK'
    BY <1>0, <1>1 DEF TypeOK, NoConn
  <1>3. UpHolds'
    BY <1>0, <1>1 DEF UpHolds, TypeOK, NoConn
  <1>4. ThreadArgs' /\ OwnMaking'
    BY <1>0, <1>1 DEF ThreadArgs, OwnMaking, TypeOK
  <1>5. \A d \in Conns, n \in Names : Holds(d, n)' => Holds(d, n) /\ d # c
    BY <1>0, <1>1 DEF Holds, TypeOK, NoConn
  <1>6. OneHolder'
    BY <1>0, <1>1, <1>5 DEF OneHolder, Owner, TypeOK
  <1> QED
    BY <1>2, <1>3, <1>4, <1>6 DEF IInv

\* A send blocks its thread, or, without a bus, ends the process.
LEMMA SendStep ==
    ASSUME IInv, NEW t \in Threads, NEW c \in Conns, xpc_connection_send_message(t, c)
    PROVE  IInv'
  <1>0. TypeOK /\ UpHolds /\ ThreadArgs /\ OwnMaking /\ OneHolder
    BY DEF IInv
  <1>1. CASE Ends(ProcOf[t])
    BY <1>1, EndsStep, ProcOfAssumption DEF xpc_connection_send_message
  <1>2. CASE /\ pc' = [pc EXCEPT ![t] = "blocked"]
             /\ arg' = [arg EXCEPT ![t] = c]
             /\ call' = [call EXCEPT ![t] = [NoCall EXCEPT !.st = "queued"]]
             /\ UNCHANGED <<proc, conn_bus, conn>>
    <2>1. /\ pc[t] = "idle" /\ conn[c].st = "ready" /\ conn[c].proc = ProcOf[t]
          /\ UNCHANGED <<owners, granted>>
      BY DEF xpc_connection_send_message
    <2>2. TypeOK'
      BY <1>0, <1>2, <2>1 DEF TypeOK, NoCall
    <2>3. UpHolds'
      BY <1>0, <1>2 DEF UpHolds
    <2>4. ThreadArgs'
      BY <1>0, <1>2, <2>1 DEF ThreadArgs, TypeOK, Creating
    <2>5. OwnMaking'
      BY <1>0, <1>2 DEF OwnMaking, TypeOK, Creating
    <2>6. \A d \in Conns, n \in Names : Holds(d, n)' => Holds(d, n)
      BY <1>0, <1>2 DEF Holds, TypeOK
    <2>7. OneHolder'
      BY <1>0, <1>2, <2>1, <2>6 DEF OneHolder, Owner
    <2> QED
      BY <2>2, <2>3, <2>4, <2>5, <2>7 DEF IInv
  <1> QED
    BY <1>1, <1>2 DEF xpc_connection_send_message, Goto

\* The sender goes on.
LEMMA SendReturnStep ==
    ASSUME IInv, NEW t \in Threads, send_return(t)
    PROVE  IInv'
  <1>0. TypeOK /\ UpHolds /\ ThreadArgs /\ OwnMaking /\ OneHolder
    BY DEF IInv
  <1>1. /\ pc[t] = "blocked"
        /\ call' = [call EXCEPT ![t] = NoCall]
        /\ arg' = [arg EXCEPT ![t] = None]
        /\ pc' = [pc EXCEPT ![t] = "idle"]
        /\ UNCHANGED <<proc, conn_bus, conn, owners, granted>>
    BY DEF send_return, Goto
  <1>2. TypeOK'
    BY <1>0, <1>1 DEF TypeOK, NoCall
  <1>3. UpHolds'
    BY <1>0, <1>1 DEF UpHolds
  <1>4. ThreadArgs'
    BY <1>0, <1>1 DEF ThreadArgs, TypeOK, Creating, NoCall
  <1>5. OwnMaking'
    BY <1>0, <1>1 DEF OwnMaking, TypeOK, Creating
  <1>6. \A d \in Conns, n \in Names : Holds(d, n)' => Holds(d, n)
    BY <1>0, <1>1 DEF Holds, TypeOK
  <1>7. OneHolder'
    BY <1>0, <1>1, <1>6 DEF OneHolder, Owner
  <1> QED
    BY <1>2, <1>3, <1>4, <1>5, <1>7 DEF IInv

\* The bus moves the message of a blocked thread, or its answer.
LEMMA RouteStep ==
    ASSUME IInv, NEW t \in Threads, bus_route(t) \/ peer_answers(t)
    PROVE  IInv'
  <1>0. TypeOK /\ UpHolds /\ ThreadArgs /\ OwnMaking /\ OneHolder
    BY DEF IInv
  <1>1. UNCHANGED <<proc, conn_bus, pc, arg, conn, owners, granted>>
    BY DEF bus_route, peer_answers
  <1>2. pc[t] = "blocked"
    BY <1>0 DEF bus_route, peer_answers, ThreadArgs
  <1>3. Name(t) \in Names
    BY <1>0, <1>2 DEF ThreadArgs, UpHolds, Name
  <1>4. PICK a \in [st : {"none", "queued", "over"}, to : {None}]
                    \cup [st : {"at"}, to : Processes] :
           call' = [call EXCEPT ![t] = a]
    <2>1. owners[Name(t)] \in Seq(Processes)
      BY <1>0, <1>3 DEF TypeOK
    <2>2. Owner(Name(t)) # None => Owner(Name(t)) \in Processes
      BY <2>1 DEF Owner
    <2>3. [NoCall EXCEPT !.st = "over"] \in [st : {"none", "queued", "over"}, to : {None}]
      BY DEF NoCall
    <2> QED
      BY <2>2, <2>3 DEF bus_route, peer_answers
  <1>5. TypeOK'
    BY <1>0, <1>1, <1>4 DEF TypeOK
  <1>6. UpHolds' /\ OwnMaking'
    BY <1>0, <1>1 DEF UpHolds, OwnMaking
  <1>7. ThreadArgs'
    BY <1>0, <1>1, <1>2, <1>4 DEF ThreadArgs, TypeOK
  <1>8. OneHolder'
    BY <1>0, <1>1 DEF OneHolder, Owner, Holds
  <1> QED
    BY <1>5, <1>6, <1>7, <1>8 DEF IInv

\* The bus forgets a process that holds nothing any more.
LEMMA DisconnectStep ==
    ASSUME IInv, NEW p \in Processes, bus_disconnect(p)
    PROVE  IInv'
  <1>0. TypeOK /\ UpHolds /\ ThreadArgs /\ OwnMaking /\ OneHolder
    BY DEF IInv
  <1>1. /\ proc[p] = "ended"
        /\ proc' = [proc EXCEPT ![p] = "gone"]
        /\ owners' = [n \in Names |-> Without(owners[n], p)]
        /\ call' = [t \in Threads |-> IF call[t].to = p
                                      THEN [NoCall EXCEPT !.st = "over"]
                                      ELSE call[t]]
        /\ UNCHANGED <<conn_bus, pc, arg, conn, granted>>
    BY DEF bus_disconnect
  <1>2. \A n \in Names : owners[n] \in Seq(Processes)
    BY <1>0 DEF TypeOK
  <1>3. owners' \in [Names -> Seq(Processes)]
    BY <1>1, <1>2, WithoutFacts
  <1>4. TypeOK'
    BY <1>0, <1>1, <1>3 DEF TypeOK, NoCall
  <1>5. UpHolds'
    BY <1>0, <1>1 DEF UpHolds, TypeOK
  <1>6. ThreadArgs'
    <2>1. \A t \in Threads : pc[t] # "dead" => ProcOf[t] # p /\ proc'[ProcOf[t]] = "up"
      BY <1>0, <1>1, ProcOfAssumption DEF ThreadArgs, TypeOK
    <2>2. \A t \in Threads : call[t].to = p => call[t].st # "none"
      BY <1>0, NoneAssumption DEF TypeOK
    <2>3. \A t \in Threads : call'[t].st # "none" => call[t].st # "none"
      BY <1>1, <2>2 DEF NoCall
    <2> QED
      BY <1>0, <1>1, <2>1, <2>3 DEF ThreadArgs
  <1>7. OwnMaking'
    BY <1>0, <1>1 DEF OwnMaking
  <1>8. \A c \in Conns, n \in Names : Holds(c, n)' <=> Holds(c, n)
    BY <1>1 DEF Holds
  <1>9. \A c \in Conns, n \in Names : Holds(c, n) => conn[c].proc \in Processes \ {p}
    BY <1>0, <1>1 DEF Holds, UpHolds, ThreadArgs, Creating
  <1>10. \A n \in Names : Owner(n) \in Processes \ {p} => Owner(n)' = Owner(n)
    BY <1>1, <1>2, WithoutFacts, NoneAssumption DEF Owner
  <1>11. OneHolder'
    BY <1>0, <1>1, <1>8, <1>9, <1>10 DEF OneHolder
  <1> QED
    BY <1>4, <1>5, <1>6, <1>7, <1>11 DEF IInv

\* Every step of the processes, the bus and the environment preserves IInv.
LEMMA NextIInv == IInv /\ [Next]_vars => IInv'
  <1> SUFFICES ASSUME IInv, [Next]_vars PROVE IInv'
    OBVIOUS
  <1>0. \A t \in Threads : ProcOf[t] \in Processes
    BY ProcOfAssumption
  <1>1. ASSUME NEW t \in Threads, NEW c \in Conns, NEW n \in Names, NEW l \in BOOLEAN,
               create_begin(t, c, n, l)
        PROVE  IInv'
    BY <1>1, CreateBeginStep
  <1>2. ASSUME NEW t \in Threads, Create(t) PROVE IInv'
    <2>1. CASE setup_exit(t) \/ request_fails(t) \/ request_refused(t)
      BY <1>0, <2>1, EndsStep DEF setup_exit, request_fails, request_refused
    <2> QED
      BY <1>2, <2>1, SetupStep, RequestStep, CreateEndStep DEF Create
  <1>3. ASSUME NEW t \in Threads, send_return(t) \/ bus_route(t) \/ peer_answers(t)
        PROVE  IInv'
    BY <1>3, SendReturnStep, RouteStep
  <1>4. ASSUME NEW t \in Threads, NEW c \in Conns,
               xpc_connection_send_message(t, c) \/ xpc_release(t, c)
        PROVE  IInv'
    BY <1>4, SendStep, ReleaseStep
  <1>5. ASSUME NEW p \in Processes, bus_disconnect(p) \/ killed(p) PROVE IInv'
    BY <1>5, DisconnectStep, EndsStep DEF killed
  <1>6. CASE UNCHANGED vars
    BY <1>6 DEF IInv, TypeOK, UpHolds, ThreadArgs, OwnMaking, OneHolder, Holds, Owner, vars
  <1> QED
    BY <1>1, <1>2, <1>3, <1>4, <1>5, <1>6 DEF Next

-----------------------------------------------------------------------------

\* IInv holds at every moment, however threads, processes, the bus and kills
\* interleave.
THEOREM Invariance == Spec => []IInv
  BY InitIInv, NextIInv, PTL DEF Spec

\* A process that has a listener for a name, or is about to get it, owns the name,
\* and there is one listener connection at most for it.
THEOREM ListenersOwn == Spec => []ListenerOwnsName
  <1>1. IInv => ListenerOwnsName
    <2> SUFFICES ASSUME IInv PROVE ListenerOwnsName
      OBVIOUS
    <2>1. \A c \in Conns, n \in Names : Listens(c, n) => Holds(c, n)
      BY DEF Listens, Holds
    <2>2. \A t \in Threads : pc[t] = "granted" =>
             arg[t] \in Conns /\ Name(t) \in Names /\ conn[arg[t]].proc = ProcOf[t]
      BY DEF IInv, ThreadArgs, UpHolds, Creating, Name
    <2>3. \A t \in Threads : pc[t] = "granted" /\ conn[arg[t]].listener
                               => Holds(arg[t], Name(t))
      BY DEF Holds, Name
    <2> QED
      BY <2>1, <2>2, <2>3 DEF IInv, OneHolder, ListenerOwnsName
  <1> QED
    BY <1>1, Invariance, PTL

-----------------------------------------------------------------------------
(* Who is in the queue of a name *)

\* Who leaves a queue leaves those who were in it.
LEMMA WithoutKeeps ==
    ASSUME NEW S, NEW s \in Seq(S), NEW p
    PROVE  \A j \in DOMAIN Without(s, p) : \E k \in DOMAIN s : Without(s, p)[j] = s[k]
  <1>1. CASE \E k \in DOMAIN s : s[k] = p
    <2> DEFINE k == CHOOSE i \in DOMAIN s : s[i] = p
    <2>1. Without(s, p) = [j \in 1 .. Len(s) - 1 |-> IF j < k THEN s[j] ELSE s[j + 1]]
      BY <1>1 DEF Without
    <2>2. k \in 1 .. Len(s) /\ Len(s) \in Nat
      BY <1>1
    <2> HIDE DEF k
    <2>3. ASSUME NEW j \in 1 .. Len(s) - 1
          PROVE  \E i \in 1 .. Len(s) : (IF j < k THEN s[j] ELSE s[j + 1]) = s[i]
      <3>1. j \in 1 .. Len(s) /\ j + 1 \in 1 .. Len(s)
        BY <2>2
      <3> QED
        BY <3>1
    <2> QED
      BY <2>1, <2>3
  <1>2. CASE ~ \E k \in DOMAIN s : s[k] = p
    BY <1>2 DEF Without
  <1> QED
    BY <1>1, <1>2

\* Ending a process takes nobody's entitlement: its own is that it has ended.
LEMMA EndsKeepsEntitled ==
    ASSUME IInv, NEW q \in Processes, Ends(q), UNCHANGED granted,
           NEW p \in Processes, NEW n \in Names, Entitled(p, n)
    PROVE  Entitled(p, n)'
  <1>1. CASE p = q
    BY <1>1 DEF IInv, TypeOK, Ends, Entitled
  <1>2. CASE p # q
    <2>1. proc'[p] = proc[p]
      BY <1>2 DEF IInv, TypeOK, Ends
    <2>2. ASSUME NEW u \in Threads, ProcOf[u] = p, pc[u] = "refused", Name(u) = n
          PROVE  pc'[u] = "refused" /\ Name(u)' = n
      <3>1. arg[u] \in Conns /\ conn[arg[u]].proc = p
        BY <2>2 DEF IInv, ThreadArgs, Creating
      <3>2. pc'[u] = pc[u] /\ arg'[u] = arg[u]
        BY <1>2, <2>2 DEF Ends
      <3>3. conn'[arg[u]] = conn[arg[u]]
        BY <1>2, <3>1 DEF Ends
      <3> QED
        BY <2>2, <3>2, <3>3 DEF Name
    <2> QED
      BY <2>1, <2>2 DEF Entitled
  <1> QED
    BY <1>1, <1>2

\* No step of anyone takes an entitlement: a name once granted stays granted, a
\* process stays ended, and a refused thread can only end its process.
LEMMA EntitledStays ==
    ASSUME IInv, [Next]_vars, NEW p \in Processes, NEW n \in Names, Entitled(p, n)
    PROVE  Entitled(p, n)'
  <1>0. TypeOK /\ ThreadArgs
    BY DEF IInv
  <1> DEFINE Refused(u) == ProcOf[u] = p /\ pc[u] = "refused" /\ Name(u) = n
  \* What is enough of a step that ends no process.
  <1>1. ASSUME proc[p] # "up" => proc'[p] # "up",
               granted[p] \subseteq granted'[p],
               \A u \in Threads : pc[u] = "refused" =>
                  pc'[u] = "refused" /\ arg'[u] = arg[u] /\ conn'[arg[u]] = conn[arg[u]]
        PROVE  Entitled(p, n)'
    <2>1. \A u \in Threads : Refused(u) => Refused(u)'
      BY <1>1 DEF Name
    <2> QED
      BY <1>1, <2>1 DEF Entitled
  <1>2. ASSUME NEW q \in Processes, Ends(q), UNCHANGED granted PROVE Entitled(p, n)'
    BY <1>2, EndsKeepsEntitled
  <1>3. ASSUME NEW t \in Threads, NEW c \in Conns, NEW m \in Names, NEW l \in BOOLEAN,
               create_begin(t, c, m, l)
        PROVE  Entitled(p, n)'
    <2>1. \A u \in Threads : pc[u] = "refused" =>
             pc'[u] = "refused" /\ arg'[u] = arg[u] /\ conn'[arg[u]] = conn[arg[u]]
      BY <1>0, <1>3 DEF create_begin, Goto, TypeOK, ThreadArgs, Creating
    <2> QED
      BY <1>1, <1>3, <2>1 DEF create_begin
  <1>4. ASSUME NEW t \in Threads, setup_test(t) \/ setup_get(t) \/ create_end(t)
        PROVE  Entitled(p, n)'
    <2>1. \A u \in Threads : pc[u] = "refused" => pc'[u] = "refused" /\ arg'[u] = arg[u]
      BY <1>0, <1>4 DEF setup_test, setup_get, create_end, Goto, TypeOK
    <2>2. \A u \in Threads : pc[u] = "refused" => conn'[arg[u]] = conn[arg[u]]
      <3>1. CASE create_end(t)
        <4>1. \A u \in Threads : pc[u] = "refused" => arg[u] # arg[t] /\ arg[u] \in Conns
          BY <1>0, <3>1 DEF create_end, IInv, OwnMaking, ThreadArgs, Creating
        <4> QED
          BY <1>0, <3>1, <4>1 DEF create_end, TypeOK
      <3> QED
        BY <1>4, <3>1 DEF setup_test, setup_get
    <2>3. UNCHANGED <<proc, granted>>
      BY <1>4 DEF setup_test, setup_get, create_end
    <2> QED
      BY <1>1, <2>1, <2>2, <2>3
  <1>5. ASSUME NEW t \in Threads, request_name(t) PROVE Entitled(p, n)'
    <2>1. pc[t] = "request" /\ UNCHANGED <<proc, arg, conn>>
      BY <1>5 DEF request_name
    <2>2. \A u \in Threads : pc[u] = "refused" => pc'[u] = "refused"
      BY <1>0, <1>5, <2>1 DEF request_name, Goto, TypeOK
    <2>3. granted[p] \subseteq granted'[p]
      <3>1. granted' = granted \/ granted' = [granted EXCEPT ![ProcOf[t]] = @ \cup {Name(t)}]
        BY <1>5 DEF request_name
      <3> QED
        BY <1>0, <3>1 DEF TypeOK
    <2> QED
      BY <1>1, <2>1, <2>2, <2>3
  <1>6. ASSUME NEW t \in Threads, send_return(t) \/ bus_route(t) \/ peer_answers(t)
        PROVE  Entitled(p, n)'
    <2>1. \A u \in Threads : pc[u] = "refused" => pc'[u] = "refused" /\ arg'[u] = arg[u]
      BY <1>0, <1>6 DEF send_return, bus_route, peer_answers, Goto, TypeOK
    <2>2. UNCHANGED <<proc, granted, conn>>
      BY <1>6 DEF send_return, bus_route, peer_answers
    <2> QED
      BY <1>1, <2>1, <2>2
  <1>7. ASSUME NEW t \in Threads, NEW c \in Conns, xpc_connection_send_message(t, c)
        PROVE  Entitled(p, n)'
    <2>1. UNCHANGED granted /\ pc[t] = "idle"
      BY <1>7 DEF xpc_connection_send_message
    <2>2. CASE Ends(ProcOf[t])
      BY <1>2, <2>1, <2>2, ProcOfAssumption
    <2>3. CASE Goto(t, "blocked") /\ arg' = [arg EXCEPT ![t] = c] /\ UNCHANGED <<proc, conn>>
      <3>1. \A u \in Threads : pc[u] = "refused" => pc'[u] = "refused" /\ arg'[u] = arg[u]
        BY <1>0, <2>1, <2>3 DEF Goto, TypeOK
      <3> QED
        BY <1>1, <2>1, <2>3, <3>1
    <2> QED
      BY <1>7, <2>2, <2>3 DEF xpc_connection_send_message
  <1>8. ASSUME NEW t \in Threads, NEW c \in Conns, xpc_release(t, c) PROVE Entitled(p, n)'
    <2>1. UNCHANGED <<proc, granted, pc, arg>> /\ conn' = [conn EXCEPT ![c] = NoConn]
          /\ \A u \in Threads : arg[u] # c
      BY <1>8 DEF xpc_release
    <2>2. \A u \in Threads : conn'[arg[u]] = conn[arg[u]]
      BY <1>0, <2>1 DEF TypeOK
    <2> QED
      BY <1>1, <2>1, <2>2
  <1>9. ASSUME NEW q \in Processes, bus_disconnect(q) PROVE Entitled(p, n)'
    <2>1. UNCHANGED <<granted, pc, arg, conn>> /\ proc' = [proc EXCEPT ![q] = "gone"]
      BY <1>9 DEF bus_disconnect
    <2>2. proc[p] # "up" => proc'[p] # "up"
      BY <1>0, <2>1 DEF TypeOK
    <2> QED
      BY <1>1, <2>1, <2>2
  <1>10. ASSUME NEW q \in Processes, killed(q) PROVE Entitled(p, n)'
    BY <1>2, <1>10 DEF killed
  <1>11. ASSUME NEW t \in Threads, setup_exit(t) \/ request_fails(t) \/ request_refused(t)
         PROVE  Entitled(p, n)'
    BY <1>2, <1>11, ProcOfAssumption DEF setup_exit, request_fails, request_refused
  <1>12. ASSUME NEW t \in Threads, Create(t) PROVE Entitled(p, n)'
    BY <1>4, <1>5, <1>11, <1>12 DEF Create
  <1>13. ASSUME UNCHANGED vars PROVE Entitled(p, n)'
    BY <1>1, <1>13 DEF vars
  <1> QED
    BY <1>3, <1>6, <1>7, <1>8, <1>9, <1>10, <1>12, <1>13 DEF Next

\* Whoever joins the queue of a name is granted it or is the process of a refused
\* thread.
LEMMA QueueStep ==
    ASSUME IInv, [Next]_vars, QueueEntitled
    PROVE  QueueEntitled'
  <1>0. TypeOK /\ ThreadArgs /\ UpHolds
    BY DEF IInv
  \* What is enough of a step that adds nobody.
  <1>1. ASSUME \A n \in Names : \A k \in DOMAIN owners'[n] :
                  \E j \in DOMAIN owners[n] : owners'[n][k] = owners[n][j]
        PROVE  QueueEntitled'
    <2> SUFFICES ASSUME NEW n \in Names, NEW k \in DOMAIN owners'[n]
                 PROVE  Entitled(owners[n][k], n)'
      BY DEF QueueEntitled
    <2>1. PICK j \in DOMAIN owners[n] : owners'[n][k] = owners[n][j]
      BY <1>1
    <2>2. PICK p \in Processes : p = owners[n][j]
      BY <1>0 DEF TypeOK
    <2>3. Entitled(p, n)
      BY <2>2 DEF QueueEntitled
    <2>4. Entitled(p, n)'
      BY <2>2, <2>3, EntitledStays
    <2>5. p = owners'[n][k]
      BY <2>1, <2>2
    <2> QED
      BY <2>4, <2>5 DEF Entitled
  <1>2. ASSUME UNCHANGED owners PROVE QueueEntitled'
    BY <1>1, <1>2
  <1>3. ASSUME NEW t \in Threads, request_name(t) PROVE QueueEntitled'
    <2> DEFINE p == ProcOf[t]
    <2>1. pc[t] = "request" /\ UNCHANGED <<proc, arg, conn>>
      BY <1>3 DEF request_name
    <2>2. PICK m \in Names : m = Name(t)
      BY <1>0, <2>1 DEF ThreadArgs, UpHolds, Creating, Name
    <2>3. p \in Processes
      BY ProcOfAssumption
    <2>4. Entitled(p, m)'
      <3>1. CASE m \in granted'[p]
        BY <3>1 DEF Entitled
      <3>2. CASE pc'[t] = "refused"
        BY <2>1, <2>2, <3>2 DEF Entitled, Name
      <3> QED
        BY <1>0, <1>3, <2>2, <2>3, <3>1, <3>2 DEF request_name, Goto, TypeOK
    <2>5. \A n \in Names : n # m => owners'[n] = owners[n]
      BY <1>0, <1>3, <2>2 DEF request_name, TypeOK
    <2>6. \A k \in DOMAIN owners'[m] :
             owners'[m][k] = p \/ \E j \in DOMAIN owners[m] : owners'[m][k] = owners[m][j]
      <3>1. owners[m] \in Seq(Processes)
        BY <1>0 DEF TypeOK
      <3>2. owners'[m] \in {<<p>>, owners[m], Append(owners[m], p)}
        BY <1>0, <1>3, <2>2 DEF request_name, TypeOK
      <3>3. CASE owners'[m] = <<p>>
        BY <3>3
      <3>4. CASE owners'[m] = owners[m]
        BY <3>4
      <3>5. CASE owners'[m] = Append(owners[m], p)
        <4> SUFFICES ASSUME NEW k \in DOMAIN Append(owners[m], p)
                     PROVE  \/ Append(owners[m], p)[k] = p
                            \/ k \in DOMAIN owners[m] /\ Append(owners[m], p)[k] = owners[m][k]
          BY <3>5
        <4> QED
          BY <2>3, <3>1
      <3> QED
        BY <3>2, <3>3, <3>4, <3>5
    <2> SUFFICES ASSUME NEW n \in Names, NEW k \in DOMAIN owners'[n]
                 PROVE  Entitled(owners[n][k], n)'
      BY DEF QueueEntitled
    <2>7. CASE n = m /\ owners'[n][k] = p
      BY <2>4, <2>7 DEF Entitled
    <2>8. ASSUME NEW j \in DOMAIN owners[n], owners'[n][k] = owners[n][j]
          PROVE  Entitled(owners[n][k], n)'
      <3>1. PICK q \in Processes : q = owners[n][j]
        BY <1>0 DEF TypeOK
      <3>2. Entitled(q, n)
        BY <3>1 DEF QueueEntitled
      <3>3. Entitled(q, n)'
        BY <3>2, EntitledStays
      <3>4. q = owners'[n][k]
        BY <2>8, <3>1
      <3> QED
        BY <3>3, <3>4 DEF Entitled
    <2> QED
      BY <2>5, <2>6, <2>7, <2>8
  <1>4. ASSUME NEW q \in Processes, bus_disconnect(q) PROVE QueueEntitled'
    <2>1. \A n \in Names : owners[n] \in Seq(Processes) /\ owners'[n] = Without(owners[n], q)
      BY <1>0, <1>4 DEF bus_disconnect, TypeOK
    <2> QED
      BY <1>1, <2>1, WithoutKeeps
  <1>5. ASSUME NEW t \in Threads, Create(t) PROVE QueueEntitled'
    BY <1>2, <1>3, <1>5
       DEF Create, setup_test, setup_get, setup_exit, request_fails, request_refused, create_end
  <1>6. ASSUME NEW t \in Threads, send_return(t) \/ bus_route(t) \/ peer_answers(t)
        PROVE  QueueEntitled'
    BY <1>2, <1>6 DEF send_return, bus_route, peer_answers
  <1>7. ASSUME NEW t \in Threads, NEW c \in Conns,
               xpc_connection_send_message(t, c) \/ xpc_release(t, c)
        PROVE  QueueEntitled'
    BY <1>2, <1>7 DEF xpc_connection_send_message, xpc_release
  <1>8. ASSUME NEW t \in Threads, NEW c \in Conns, NEW n \in Names, NEW l \in BOOLEAN,
               create_begin(t, c, n, l)
        PROVE  QueueEntitled'
    BY <1>2, <1>8 DEF create_begin
  <1>9. ASSUME NEW q \in Processes, killed(q) PROVE QueueEntitled'
    BY <1>2, <1>9 DEF killed
  <1>10. ASSUME UNCHANGED vars PROVE QueueEntitled'
    BY <1>2, <1>10 DEF vars
  <1> QED
    BY <1>4, <1>5, <1>6, <1>7, <1>8, <1>9, <1>10 DEF Next

\* A message is handed to the first in the queue, and stays with it.
LEMMA DeliveryStep ==
    ASSUME IInv, [Next]_vars, QueueEntitled, DeliveredToOwner
    PROVE  DeliveredToOwner'
  <1>0. TypeOK /\ ThreadArgs /\ UpHolds
    BY DEF IInv
  <1> SUFFICES ASSUME NEW t \in Threads, call'[t].st = "at"
               PROVE  Entitled(call[t].to, Name(t))'
    BY DEF DeliveredToOwner, Entitled
  <1>1. ASSUME call'[t] = call[t], Name(t)' = Name(t)
        PROVE  Entitled(call[t].to, Name(t))'
    <2>1. PICK p \in Processes : p = call[t].to
      BY <1>0, <1>1 DEF TypeOK
    <2>2. PICK n \in Names : n = Name(t)
      BY <1>0, <1>1 DEF ThreadArgs, UpHolds, Name
    <2>3. Entitled(p, n)
      BY <1>1, <2>1, <2>2 DEF DeliveredToOwner, Entitled
    <2>4. Entitled(p, n)'
      BY <2>3, EntitledStays
    <2>5. call'[t].to = p /\ Name(t)' = n
      BY <1>1, <2>1, <2>2
    <2> QED
      BY <2>4, <2>5 DEF Entitled
  <1>2. ASSUME NEW u \in Threads, bus_route(u) PROVE Entitled(call[t].to, Name(t))'
    <2>0. UNCHANGED <<arg, conn>> /\ Name(t)' = Name(t)
      BY <1>2 DEF bus_route, Name
    <2>1. CASE t # u
      BY <1>0, <1>1, <1>2, <2>0, <2>1 DEF bus_route, TypeOK
    <2>2. CASE t = u
      <3>1. PICK n \in Names : n = Name(t)
        BY <1>0, <1>2, <2>2 DEF bus_route, ThreadArgs, UpHolds, Name
      <3>2. owners[n] # <<>> /\ call'[t].to = owners[n][1]
        BY <1>0, <1>2, <2>2, <3>1 DEF bus_route, Owner, NoCall, TypeOK
      <3>3. 1 \in DOMAIN owners[n] /\ owners[n][1] \in Processes
        BY <1>0, <3>2 DEF TypeOK
      <3>4. PICK p \in Processes : p = owners[n][1]
        BY <3>3
      <3>5. Entitled(p, n)
        BY <3>3, <3>4 DEF QueueEntitled
      <3>6. Entitled(p, n)'
        BY <3>5, EntitledStays
      <3>7. call'[t].to = p /\ Name(t)' = n
        BY <2>0, <3>1, <3>2, <3>4
      <3> QED
        BY <3>6, <3>7 DEF Entitled
    <2> QED
      BY <2>1, <2>2
  <1>3. ASSUME call'[t] = call[t],
               arg'[t] = arg[t],
               conn'[arg[t]] = conn[arg[t]]
        PROVE  Entitled(call[t].to, Name(t))'
    BY <1>1, <1>3 DEF Name
  <1>4. ASSUME NEW q \in Processes, Ends(q) PROVE Entitled(call[t].to, Name(t))'
    <2>1. ProcOf[t] # q
      BY <1>4 DEF Ends, NoCall
    <2>2. call'[t] = call[t] /\ arg'[t] = arg[t]
      BY <1>4, <2>1 DEF Ends
    <2>3. conn'[arg[t]] = conn[arg[t]]
      BY <1>0, <1>4, <2>1, <2>2 DEF Ends, ThreadArgs
    <2> QED
      BY <1>3, <2>2, <2>3
  <1>5. ASSUME NEW u \in Threads, NEW c \in Conns, NEW n \in Names, NEW l \in BOOLEAN,
               create_begin(u, c, n, l)
        PROVE  Entitled(call[t].to, Name(t))'
    <2>1. call'[t] = call[t] /\ pc[u] = "idle" /\ conn[c].st = "free"
      BY <1>5 DEF create_begin
    <2>2. t # u /\ arg[t] # c /\ arg[t] \in Conns
      BY <1>0, <2>1 DEF ThreadArgs
    <2>3. arg'[t] = arg[t] /\ conn'[arg[t]] = conn[arg[t]]
      BY <1>0, <1>5, <2>2 DEF create_begin, TypeOK
    <2> QED
      BY <1>3, <2>1, <2>3
  <1>6. ASSUME NEW u \in Threads, create_end(u) PROVE Entitled(call[t].to, Name(t))'
    <2>1. call'[t] = call[t] /\ pc[u] = "granted"
      BY <1>6 DEF create_end
    <2>2. arg[t] # arg[u] /\ t # u /\ arg[t] \in Conns
      BY <1>0, <2>1 DEF ThreadArgs, Creating
    <2>3. arg'[t] = arg[t] /\ conn'[arg[t]] = conn[arg[t]]
      BY <1>0, <1>6, <2>2 DEF create_end, TypeOK
    <2> QED
      BY <1>3, <2>1, <2>3
  <1>7. ASSUME NEW u \in Threads, setup_test(u) \/ setup_get(u) \/ request_name(u)
        PROVE  Entitled(call[t].to, Name(t))'
    BY <1>3, <1>7 DEF setup_test, setup_get, request_name
  <1>8. ASSUME NEW u \in Threads, setup_exit(u) \/ request_fails(u) \/ request_refused(u)
        PROVE  Entitled(call[t].to, Name(t))'
    BY <1>4, <1>8, ProcOfAssumption DEF setup_exit, request_fails, request_refused
  <1>9. ASSUME NEW u \in Threads, send_return(u) PROVE Entitled(call[t].to, Name(t))'
    <2>1. t # u
      BY <1>0, <1>9 DEF send_return, TypeOK, NoCall
    <2> QED
      BY <1>0, <1>3, <1>9, <2>1 DEF send_return, TypeOK
  <1>10. ASSUME NEW u \in Threads, peer_answers(u) PROVE Entitled(call[t].to, Name(t))'
    <2>1. t # u
      BY <1>0, <1>10 DEF peer_answers, TypeOK, NoCall
    <2> QED
      BY <1>0, <1>3, <1>10, <2>1 DEF peer_answers, TypeOK
  <1>11. ASSUME NEW u \in Threads, NEW c \in Conns, xpc_connection_send_message(u, c)
         PROVE  Entitled(call[t].to, Name(t))'
    <2>1. CASE Ends(ProcOf[u])
      BY <1>4, <2>1, ProcOfAssumption
    <2>2. CASE /\ arg' = [arg EXCEPT ![u] = c]
               /\ call' = [call EXCEPT ![u] = [NoCall EXCEPT !.st = "queued"]]
               /\ UNCHANGED conn
      <3>1. t # u
        BY <1>0, <2>2 DEF TypeOK, NoCall
      <3> QED
        BY <1>0, <1>3, <2>2, <3>1 DEF TypeOK
    <2> QED
      BY <1>11, <2>1, <2>2 DEF xpc_connection_send_message
  <1>12. ASSUME NEW u \in Threads, NEW c \in Conns, xpc_release(u, c)
         PROVE  Entitled(call[t].to, Name(t))'
    BY <1>0, <1>3, <1>12 DEF xpc_release, TypeOK
  <1>13. ASSUME NEW q \in Processes, bus_disconnect(q)
         PROVE  Entitled(call[t].to, Name(t))'
    <2>1. call'[t] = call[t]
      BY <1>13 DEF bus_disconnect, NoCall
    <2> QED
      BY <1>3, <1>13, <2>1 DEF bus_disconnect
  <1>14. ASSUME NEW q \in Processes, killed(q) PROVE Entitled(call[t].to, Name(t))'
    BY <1>4, <1>14 DEF killed
  <1>15. ASSUME UNCHANGED vars PROVE Entitled(call[t].to, Name(t))'
    BY <1>3, <1>15 DEF vars
  <1>16. ASSUME NEW u \in Threads, Create(u) PROVE Entitled(call[t].to, Name(t))'
    BY <1>6, <1>7, <1>8, <1>16 DEF Create
  <1> QED
    BY <1>2, <1>5, <1>9, <1>10, <1>11, <1>12, <1>13, <1>14, <1>15, <1>16 DEF Next

\* A message is never with a process that has nothing to do with the name it was
\* sent to, however late the bus notices the end of an owner.
THEOREM Delivery == Spec => []DeliveredToOwner
  <1>1. Init => QueueEntitled /\ DeliveredToOwner
    BY DEF Init, QueueEntitled, DeliveredToOwner, NoCall
  <1>2. IInv /\ QueueEntitled /\ DeliveredToOwner /\ [Next]_vars
          => QueueEntitled' /\ DeliveredToOwner'
    BY QueueStep, DeliveryStep
  <1> QED
    BY <1>1, <1>2, Invariance, PTL DEF Spec

-----------------------------------------------------------------------------
(* The refinement *)

\* What the refinement mapping gives for a name.
Bar(n) == IF \E c \in Conns : Listens(c, n)
          THEN conn[CHOOSE c \in Conns : Listens(c, n)].proc
          ELSE None

\* There is one listener at most for a name: it does not matter which is chosen.
LEMMA BarNow ==
    ASSUME IInv, NEW n \in Names
    PROVE  /\ \A c \in Conns : Listens(c, n) => Bar(n) = conn[c].proc
           /\ (\A c \in Conns : ~Listens(c, n)) => Bar(n) = None
  <1>1. \A c, d \in Conns : Listens(c, n) /\ Listens(d, n) => c = d
    BY DEF IInv, OneHolder, Listens, Holds
  <1> QED
    BY <1>1 DEF Bar

\* The same after a step.
LEMMA BarNext ==
    ASSUME IInv', NEW n \in Names
    PROVE  /\ \A c \in Conns : Listens(c, n)' => Bar(n)' = conn'[c].proc
           /\ (\A c \in Conns : ~Listens(c, n)') => Bar(n)' = None
  <1>1. \A c, d \in Conns : Listens(c, n)' /\ Listens(d, n)' => c = d
    BY DEF IInv, OneHolder, Listens, Holds
  <1> QED
    BY <1>1 DEF Bar

\* A step that changes no listener changes nothing in the abstract specification.
LEMMA SameListeners ==
    ASSUME IInv, IInv',
           \A c \in Conns, n \in Names :
              /\ Listens(c, n)' <=> Listens(c, n)
              /\ Listens(c, n) => conn'[c].proc = conn[c].proc
    PROVE  \A n \in Names : Bar(n)' = Bar(n)
  <1> SUFFICES ASSUME NEW n \in Names PROVE Bar(n)' = Bar(n)
    OBVIOUS
  <1>1. CASE \E c \in Conns : Listens(c, n)
    BY <1>1, BarNow, BarNext
  <1>2. CASE \A c \in Conns : ~Listens(c, n)
    BY <1>2, BarNow, BarNext
  <1> QED
    BY <1>1, <1>2

\* The end of a process takes all of its names from it.
LEMMA EndsLeaves ==
    ASSUME IInv, IInv', NEW p \in Processes, Ends(p)
    PROVE  \A n \in Names : Bar(n)' = IF Bar(n) = p THEN None ELSE Bar(n)
  <1>1. \A c \in Conns, n \in Names :
           /\ Listens(c, n)' <=> Listens(c, n) /\ conn[c].proc # p
           /\ conn[c].proc # p => conn'[c] = conn[c]
    BY DEF IInv, TypeOK, Ends, Listens, NoConn
  <1> SUFFICES ASSUME NEW n \in Names
               PROVE  Bar(n)' = IF Bar(n) = p THEN None ELSE Bar(n)
    OBVIOUS
  <1>2. CASE \E c \in Conns : Listens(c, n) /\ conn[c].proc # p
    BY <1>1, <1>2, BarNow, BarNext
  <1>3. CASE \A c \in Conns : Listens(c, n) => conn[c].proc = p
    BY <1>1, <1>3, BarNow, BarNext
  <1> QED
    BY <1>2, <1>3

\* A listener comes when its connection is handed out, for a name that nobody
\* listened to.
LEMMA CreateEndListens ==
    ASSUME IInv, IInv', NEW t \in Threads, create_end(t)
    PROVE  \/ \A n \in Names : Bar(n)' = Bar(n)
           \/ \E m \in Names : /\ Bar(m) = None
                               /\ \A n \in Names :
                                     Bar(n)' = IF n = m THEN ProcOf[t] ELSE Bar(n)
  <1>0. TypeOK /\ UpHolds /\ ThreadArgs /\ OneHolder
    BY DEF IInv
  <1>1. /\ pc[t] = "granted"
        /\ conn' = [conn EXCEPT ![arg[t]].st = "ready",
                                ![arg[t]].bus = conn_bus[ProcOf[t]]]
    BY DEF create_end
  <1>2. PICK a \in Conns : a = arg[t]
    BY <1>0, <1>1 DEF ThreadArgs, Creating
  <1>3. conn[a].st = "making" /\ conn[a].proc = ProcOf[t]
    BY <1>0, <1>1, <1>2 DEF ThreadArgs, Creating
  <1>4. PICK m \in Names : m = conn[a].name
    BY <1>0, <1>3 DEF UpHolds
  <1>5. \A c \in Conns :
           /\ c # a => conn'[c] = conn[c]
           /\ conn'[c].proc = conn[c].proc
           /\ conn'[c].name = conn[c].name
           /\ conn'[c].listener = conn[c].listener
    BY <1>0, <1>1, <1>2 DEF TypeOK
  <1>6. conn'[a].st = "ready"
    BY <1>0, <1>1, <1>2 DEF TypeOK
  <1>7. CASE ~conn[a].listener
    <2>1. \A c \in Conns, n \in Names : Listens(c, n)' <=> Listens(c, n)
      BY <1>3, <1>5, <1>7 DEF Listens
    <2> QED
      BY <1>5, <2>1, SameListeners
  <1>8. CASE conn[a].listener
    <2>1. Listens(a, m)' /\ Holds(a, m)
      BY <1>1, <1>2, <1>4, <1>5, <1>6, <1>8 DEF Listens, Holds
    <2>2. \A c \in Conns : ~Listens(c, m)
      BY <1>0, <1>3, <2>1 DEF OneHolder, Holds, Listens
    <2>3. Bar(m) = None
      BY <2>2, BarNow
    <2>4. Bar(m)' = ProcOf[t]
      BY <1>3, <1>5, <2>1, BarNext
    <2>5. ASSUME NEW n \in Names, n # m PROVE Bar(n)' = Bar(n)
      <3>1. \A c \in Conns : /\ Listens(c, n)' <=> Listens(c, n)
                             /\ Listens(c, n) => conn'[c].proc = conn[c].proc
        BY <1>4, <1>5, <2>5 DEF Listens
      <3>2. CASE \E c \in Conns : Listens(c, n)
        BY <3>1, <3>2, BarNow, BarNext
      <3>3. CASE \A c \in Conns : ~Listens(c, n)
        BY <3>1, <3>3, BarNow, BarNext
      <3> QED
        BY <3>2, <3>3
    <2> QED
      BY <2>3, <2>4, <2>5
  <1> QED
    BY <1>7, <1>8

\* A listener that is released leaves its one name.
LEMMA ReleaseLeaves ==
    ASSUME IInv, IInv', NEW t \in Threads, NEW c \in Conns, xpc_release(t, c)
    PROVE  \/ \A n \in Names : Bar(n)' = Bar(n)
           \/ \E m \in Names : /\ Bar(m) = ProcOf[t]
                               /\ \A n \in Names :
                                     Bar(n)' = IF n = m THEN None ELSE Bar(n)
  <1>0. TypeOK /\ UpHolds /\ OneHolder
    BY DEF IInv
  <1>1. /\ conn[c].st = "ready" /\ conn[c].proc = ProcOf[t]
        /\ conn' = [conn EXCEPT ![c] = NoConn]
    BY DEF xpc_release
  <1>2. PICK m \in Names : m = conn[c].name
    BY <1>0, <1>1 DEF UpHolds
  <1>3. \A d \in Conns, n \in Names : /\ Listens(d, n)' <=> Listens(d, n) /\ d # c
                                      /\ d # c => conn'[d] = conn[d]
    BY <1>0, <1>1 DEF Listens, TypeOK, NoConn
  <1>4. ASSUME NEW n \in Names, ~Listens(c, n) PROVE Bar(n)' = Bar(n)
    <2>1. CASE \E d \in Conns : Listens(d, n)
      BY <1>3, <1>4, <2>1, BarNow, BarNext
    <2>2. CASE \A d \in Conns : ~Listens(d, n)
      BY <1>3, <2>2, BarNow, BarNext
    <2> QED
      BY <2>1, <2>2
  <1>5. CASE conn[c].listener
    <2>1. Listens(c, m)
      BY <1>1, <1>2, <1>5 DEF Listens
    <2>2. \A d \in Conns : Listens(d, m) => d = c
      BY <1>0, <2>1 DEF OneHolder, Holds, Listens
    <2>3. Bar(m) = ProcOf[t]
      BY <1>1, <2>1, BarNow
    <2>4. Bar(m)' = None
      BY <1>3, <2>2, BarNext
    <2>5. \A n \in Names : n # m => ~Listens(c, n)
      BY <1>2 DEF Listens
    <2> QED
      BY <1>4, <2>3, <2>4, <2>5
  <1>6. CASE ~conn[c].listener
    BY <1>4, <1>6 DEF Listens
  <1> QED
    BY <1>5, <1>6

\* Every other step keeps the listeners.
LEMMA OthersKeep ==
    ASSUME IInv, IInv',
           NEW t \in Threads,
           \/ \E c \in Conns, n \in Names, l \in BOOLEAN : create_begin(t, c, n, l)
           \/ setup_test(t) \/ setup_get(t) \/ request_name(t) \/ send_return(t)
           \/ bus_route(t) \/ peer_answers(t)
    PROVE  \A n \in Names : Bar(n)' = Bar(n)
  <1>1. CASE UNCHANGED conn
    <2>1. \A c \in Conns, n \in Names : Listens(c, n)' <=> Listens(c, n)
      BY <1>1 DEF Listens
    <2> QED
      BY <1>1, <2>1, SameListeners
  <1>2. ASSUME NEW c \in Conns, NEW n \in Names, NEW l \in BOOLEAN, create_begin(t, c, n, l)
        PROVE  \A m \in Names : Bar(m)' = Bar(m)
    <2>1. /\ conn[c].st = "free" /\ conn'[c].st = "making"
          /\ \A d \in Conns : d # c => conn'[d] = conn[d]
      BY <1>2 DEF create_begin, IInv, TypeOK
    <2>2. \A d \in Conns, m \in Names :
             /\ Listens(d, m)' <=> Listens(d, m)
             /\ Listens(d, m) => conn'[d].proc = conn[d].proc
      BY <2>1 DEF Listens
    <2> QED
      BY <2>2, SameListeners
  <1> QED
    BY <1>1, <1>2 DEF setup_test, setup_get, request_name, send_return, bus_route, peer_answers

\* What a step does to the listeners, in the words of the abstract specification.
LEMMA NextListeners ==
    ASSUME IInv, IInv', [Next]_vars
    PROVE  \/ \A n \in Names : Bar(n)' = Bar(n)
           \/ \E p \in Processes, m \in Names :
                 /\ Bar(m) = None
                 /\ \A n \in Names : Bar(n)' = IF n = m THEN p ELSE Bar(n)
           \/ \E p \in Processes, S \in SUBSET Names :
                 /\ \A n \in S : Bar(n) = p
                 /\ \A n \in Names : Bar(n)' = IF n \in S THEN None ELSE Bar(n)
  <1> DEFINE Goal ==
           \/ \A n \in Names : Bar(n)' = Bar(n)
           \/ \E p \in Processes, m \in Names :
                 /\ Bar(m) = None
                 /\ \A n \in Names : Bar(n)' = IF n = m THEN p ELSE Bar(n)
           \/ \E p \in Processes, S \in SUBSET Names :
                 /\ \A n \in S : Bar(n) = p
                 /\ \A n \in Names : Bar(n)' = IF n \in S THEN None ELSE Bar(n)
  <1>1. ASSUME NEW p \in Processes, Ends(p) PROVE Goal
    <2>1. PICK S \in SUBSET Names : S = {n \in Names : Bar(n) = p}
      OBVIOUS
    <2>2. /\ \A n \in S : Bar(n) = p
          /\ \A n \in Names : Bar(n)' = IF n \in S THEN None ELSE Bar(n)
      BY <1>1, <2>1, EndsLeaves
    <2> QED
      BY <2>2
  <1>2. ASSUME NEW t \in Threads, create_end(t) PROVE Goal
    BY <1>2, CreateEndListens, ProcOfAssumption
  <1>3. ASSUME NEW t \in Threads, NEW c \in Conns, xpc_release(t, c) PROVE Goal
    <2>1. CASE \A n \in Names : Bar(n)' = Bar(n)
      BY <2>1
    <2>2. ASSUME NEW m \in Names, Bar(m) = ProcOf[t],
                 \A n \in Names : Bar(n)' = IF n = m THEN None ELSE Bar(n)
          PROVE  Goal
      <3>1. /\ \A n \in {m} : Bar(n) = ProcOf[t]
            /\ \A n \in Names : Bar(n)' = IF n \in {m} THEN None ELSE Bar(n)
        BY <2>2
      <3> QED
        BY <3>1, ProcOfAssumption
    <2> QED
      BY <1>3, <2>1, <2>2, ReleaseLeaves
  <1>4. ASSUME NEW t \in Threads, NEW c \in Conns, xpc_connection_send_message(t, c)
        PROVE  Goal
    <2>1. CASE Ends(ProcOf[t])
      BY <1>1, <2>1, ProcOfAssumption
    <2>2. CASE UNCHANGED conn
      <3>1. \A d \in Conns, n \in Names : Listens(d, n)' <=> Listens(d, n)
        BY <2>2 DEF Listens
      <3> QED
        BY <2>2, <3>1, SameListeners
    <2> QED
      BY <1>4, <2>1, <2>2 DEF xpc_connection_send_message
  <1>5. ASSUME NEW t \in Threads,
               \/ \E c \in Conns, n \in Names, l \in BOOLEAN : create_begin(t, c, n, l)
               \/ setup_test(t) \/ setup_get(t) \/ request_name(t) \/ send_return(t)
               \/ bus_route(t) \/ peer_answers(t)
        PROVE  Goal
    BY <1>5, OthersKeep
  <1>6. ASSUME NEW t \in Threads, setup_exit(t) \/ request_fails(t) \/ request_refused(t)
        PROVE  Goal
    BY <1>1, <1>6, ProcOfAssumption DEF setup_exit, request_fails, request_refused
  <1>7. ASSUME NEW p \in Processes, bus_disconnect(p) PROVE Goal
    <2>1. UNCHANGED conn
      BY <1>7 DEF bus_disconnect
    <2>2. \A d \in Conns, n \in Names : Listens(d, n)' <=> Listens(d, n)
      BY <2>1 DEF Listens
    <2> QED
      BY <2>1, <2>2, SameListeners
  <1>8. ASSUME UNCHANGED vars PROVE Goal
    <2>1. UNCHANGED conn
      BY <1>8 DEF vars
    <2>2. \A d \in Conns, n \in Names : Listens(d, n)' <=> Listens(d, n)
      BY <2>1 DEF Listens
    <2> QED
      BY <2>1, <2>2, SameListeners
  <1> HIDE DEF Goal
  <1> SUFFICES Goal
    BY DEF Goal
  <1>9. ASSUME NEW t \in Threads,
               Create(t) \/ send_return(t) \/ bus_route(t) \/ peer_answers(t)
        PROVE  Goal
    BY <1>2, <1>5, <1>6, <1>9 DEF Create
  <1>10. ASSUME NEW t \in Threads, NEW c \in Conns, NEW n \in Names, NEW l \in BOOLEAN,
                create_begin(t, c, n, l)
         PROVE  Goal
    BY <1>5, <1>10
  <1>11. ASSUME NEW p \in Processes, bus_disconnect(p) \/ killed(p) PROVE Goal
    BY <1>1, <1>7, <1>11 DEF killed
  <1> QED
    BY <1>3, <1>4, <1>8, <1>9, <1>10, <1>11 DEF Next

\* Listeners come and go as NameService says, whatever processes, threads, the bus
\* and kills do, and whichever connection the mapping chooses.
THEOREM Implements == Spec => ImplementsRegistry
  <1> DEFINE bar == [n \in Names |-> Bar(n)]
  <1>1. Init => Registry!Init
    <2> SUFFICES ASSUME Init PROVE Registry!Init
      OBVIOUS
    <2>1. \A c \in Conns, n \in Names : ~Listens(c, n)
      BY DEF Init, NoConn, Listens
    <2> QED
      BY <2>1 DEF Registry!Init
  <1>2. ASSUME IInv, IInv', [Next]_vars PROVE [Registry!Next]_bar
    <2>1. CASE \A n \in Names : Bar(n)' = Bar(n)
      BY <2>1
    <2>2. ASSUME NEW p \in Processes, NEW m \in Names, Bar(m) = None,
                 \A n \in Names : Bar(n)' = IF n = m THEN p ELSE Bar(n)
          PROVE  Registry!Listen(p, m)
      <3>1. bar[m] = None /\ bar' = [bar EXCEPT ![m] = p]
        BY <2>2
      <3> QED
        BY <3>1 DEF Registry!Listen, Bar
    <2>3. ASSUME NEW p \in Processes, NEW S \in SUBSET Names,
                 \A n \in S : Bar(n) = p,
                 \A n \in Names : Bar(n)' = IF n \in S THEN None ELSE Bar(n)
          PROVE  Registry!Leave(p, S)
      <3>1. /\ \A n \in S : bar[n] = p
            /\ bar' = [n \in Names |-> IF n \in S THEN None ELSE bar[n]]
        BY <2>3
      <3> QED
        BY <3>1 DEF Registry!Leave, Bar
    <2> QED
      BY <1>2, <2>1, <2>2, <2>3, NextListeners DEF Registry!Next
  <1>3. IInv /\ IInv' /\ [Next]_vars => [Registry!Next]_bar
    BY <1>2
  <1> QED
    BY <1>1, <1>3, Invariance, PTL DEF Spec, ImplementsRegistry, Registry!Spec, Bar

=============================================================================
