----------------------------- MODULE XpcdProofs -----------------------------
(***************************************************************************)
(* IInv is an inductive invariant of Xpcd, for every set of inherited      *)
(* descriptors, every descriptor limit and both kinds of build.            *)
(***************************************************************************)
EXTENDS Xpcd, SequenceTheorems, TLAPS

\* For the induction facts alone, which do not depend on a recursion.
Nats == INSTANCE NatFacts WITH Base <- 0, Step <- +

\* The lowest of a set of descriptors is one of them (kqueue, pipe).
LEMMA LowestFacts ==
    ASSUME NEW S, S \subseteq Nat, S # {}
    PROVE  Lowest(S) \in S
  <1>1. PICK x \in S : \A y \in S : x <= y
    BY Nats!LeastNat
  <1> QED
    BY <1>1 DEF Lowest

\* Descriptors that can be given out are free.
LEMMA FreeFacts ==
    ASSUME NEW S
    PROVE  /\ FreeFds(S) \subseteq Nat
           /\ \A n \in FreeFds(S) : n \notin S
  BY OpenMaxAssumption DEF FreeFds

\* The batches kevent can return are not empty and hold well-formed events.
LEMMA BatchFacts ==
    ASSUME NEW S, S \subseteq {"SIGNAL"} \cup Notes, S # {}, NEW b \in Batches(S)
    PROVE  b \in Seq(Event) /\ b # <<>>
  <1>1. Events(S) \subseteq Event
    <2>1. S \cap {"SIGNAL"} = {} \/ S \cap {"SIGNAL"} = {"SIGNAL"}
      OBVIOUS
    <2> QED
      BY <2>1 DEF Events, Event
  <1>2. PICK n \in 1 .. 2 : b \in [1 .. n -> Events(S)]
    BY DEF Batches
  <1>3. b \in [1 .. n -> Event]
    BY <1>1, <1>2
  <1>4. b \in Seq(Event) /\ Len(b) = n
    BY <1>2, <1>3
  <1> QED
    BY <1>4

\* The initial states satisfy the invariant.
LEMMA InitIInv == Init => IInv
  <1> SUFFICES ASSUME Init PROVE IInv
    OBVIOUS
  <1>1. should_exit \in BOOLEAN /\ interrupted \in BOOLEAN
    BY DEF Init
  <1>2. watched \in BOOLEAN /\ piped \in BOOLEAN
    BY DEF Init
  <1>3. mfds \subseteq Nat
    BY InheritedAssumption DEF Init
  <1>4. kq \in Int /\ rd \in Int /\ wr \in Int
    BY DEF Init, NoFd
  <1>5. /\ mpc \in Starting
        /\ fate \in [sig : Signals \cup {"none"},
                     at : Starting \cup Launching \cup Running \cup {"none"}]
        /\ sigint \in {"default", "ignored"}
        /\ batch \in Seq(Event)
        /\ seen \subseteq Notes
    BY DEF Init, Starting
  <1>6. QueueTypes /\ ChildTypes
    BY <1>1, <1>2 DEF Init, QueueTypes, ChildTypes
  <1>7. bytes \in 0 .. 1
    BY DEF Init
  <1>8. ManagerTypes
    BY <1>1, <1>3, <1>4, <1>5 DEF ManagerTypes
  <1>9. PipeTypes
    BY <1>2, <1>4, <1>7 DEF PipeTypes
  <1> QED
    BY <1>6, <1>8, <1>9
    DEF Init, IInv, TypeOK, Armed, LaunchOrder, PipeEnds, Barrier,
        OrderlySigint, PipeSignalMeansDeadChild, LaunchClosesPipe, Starting,
        Launching, Running, Begun, Waiting

-----------------------------------------------------------------------------
(* One lemma per action *)

USE DEF mvars, kvars, pipevars, childvars, Starting, Launching, Running, Signals,
        Ended, Begun, Waiting, ChildAlive

\* kqueue() gives the manager a descriptor, or main returns.
LEMMA KqueueStep == IInv /\ main_kqueue => IInv'
  <1> SUFFICES ASSUME IInv, main_kqueue PROVE IInv'
    OBVIOUS
  <1> USE DEF IInv, TypeOK
  <1>0. FreeFds(mfds) # {} => Lowest(FreeFds(mfds)) \in Nat
    BY LowestFacts, FreeFacts
  <1>1. ManagerTypes'
    <2>1. CASE FreeFds(mfds) # {} /\ kq' = Lowest(FreeFds(mfds)) /\ mfds' = mfds \cup {kq'}
               /\ mpc' = "watch" /\ UNCHANGED fate
      <3>0. kq' \in Nat
        BY <1>0, <2>1
      <3>1. kq' \in Int /\ mfds' \subseteq Nat
        <4>1. kq' \in Int
          BY <3>0
        <4>2. mfds \subseteq Nat /\ mfds' = mfds \cup {kq'}
          BY <2>1 DEF ManagerTypes
        <4> QED
          BY ONLY <3>0, <4>1, <4>2
      <3> QED
        BY <2>1, <3>1 DEF main_kqueue, ManagerTypes
    <2>2. CASE Exit /\ UNCHANGED kq
      BY <2>2 DEF main_kqueue, Exit, ManagerTypes
    <2> QED
      BY <2>1, <2>2 DEF main_kqueue
  <1>2. QueueTypes'
    BY <1>0 DEF main_kqueue, Exit, QueueTypes, Notes
  <1>3. PipeTypes'
    BY <1>0 DEF main_kqueue, Exit, PipeTypes, ManagerTypes, NoFd, Barrier
  <1>4. ChildTypes'
    BY <1>0 DEF main_kqueue, Exit, ChildTypes, ManagerTypes
  <1>5. Armed' /\ LaunchOrder' /\ (~NDebug => OrderlySigint)'
    BY <1>0 DEF main_kqueue, Exit, Armed, LaunchOrder, OrderlySigint
  <1>6. PipeEnds' /\ LaunchClosesPipe'
    BY <1>0 DEF main_kqueue, Exit, PipeEnds, LaunchClosesPipe, LaunchOrder
  <1>7. Barrier'
    BY <1>0 DEF main_kqueue, Exit, Barrier, LaunchOrder
  <1>8. PipeSignalMeansDeadChild'
    BY <1>0 DEF main_kqueue, Exit, PipeSignalMeansDeadChild, Barrier, PipeEnds, LaunchOrder
  <1> QED
    BY <1>1, <1>2, <1>3, <1>4, <1>5, <1>6, <1>7, <1>8

\* kqueue_signal watches SIGINT, then ignores it.
LEMMA SignalStep == IInv /\ kqueue_signal => IInv'
  <1> SUFFICES ASSUME IInv, kqueue_signal PROVE IInv'
    OBVIOUS
  <1> USE DEF IInv, TypeOK
  <1>1. ManagerTypes'
    BY DEF kqueue_signal, Exit, ManagerTypes, QueueTypes
  <1>2. QueueTypes'
    BY DEF kqueue_signal, Exit, QueueTypes, Notes
  <1>3. PipeTypes'
    BY DEF kqueue_signal, Exit, PipeTypes, ManagerTypes, NoFd, Barrier
  <1>4. ChildTypes'
    BY DEF kqueue_signal, Exit, ChildTypes, ManagerTypes
  <1>5. Armed' /\ LaunchOrder' /\ (~NDebug => OrderlySigint)'
    BY DEF kqueue_signal, Exit, Armed, LaunchOrder, OrderlySigint
  <1>6. PipeEnds' /\ LaunchClosesPipe'
    BY DEF kqueue_signal, Exit, PipeEnds, LaunchClosesPipe, LaunchOrder
  <1>7. Barrier'
    BY DEF kqueue_signal, Exit, Barrier, LaunchOrder
  <1>8. PipeSignalMeansDeadChild'
    BY DEF kqueue_signal, Exit, PipeSignalMeansDeadChild, Barrier, PipeEnds, LaunchOrder
  <1> QED
    BY <1>1, <1>2, <1>3, <1>4, <1>5, <1>6, <1>7, <1>8

\* pipe(waitfd) gives two fresh descriptors, different from the queue's, or leaves
\* waitfd as it was.
LEMMA PipeStep == IInv /\ exec_pipe => IInv'
  <1> SUFFICES ASSUME IInv, exec_pipe PROVE IInv'
    OBVIOUS
  <1> USE DEF IInv, TypeOK
  <1>0. LET free == FreeFds(mfds)
            r    == Lowest(free)
            rest == free \ {r}
        IN  free # {} /\ rest # {} =>
               /\ r \in Nat /\ Lowest(rest) \in Nat
               /\ r \notin mfds /\ Lowest(rest) \notin mfds /\ r # Lowest(rest)
    <2> DEFINE free == FreeFds(mfds)
               rest == free \ {Lowest(free)}
    <2>1. free \subseteq Nat /\ (\A n \in free : n \notin mfds) /\ rest \subseteq free
      BY FreeFacts
    <2>2. free # {} => Lowest(free) \in free
      BY <2>1, LowestFacts
    <2>3. rest # {} => Lowest(rest) \in rest
      BY <2>1, LowestFacts
    <2> QED
      BY <2>1, <2>2, <2>3
  <1>1. ManagerTypes'
    BY <1>0 DEF exec_pipe, ManagerTypes, QueueTypes
  <1>2. QueueTypes'
    BY <1>0 DEF exec_pipe, QueueTypes, Notes
  <1>3. PipeTypes'
    <2>1. rd' \in Int /\ wr' \in Int
      <3>1. NoFd \in Int
        BY DEF NoFd
      <3>2. \A n \in mfds \cup {NoFd} : n \in Int
        BY <3>1 DEF ManagerTypes
      <3>3. \/ rd' \in mfds \cup {NoFd} /\ wr' \in mfds \cup {NoFd}
            \/ rd' \in Nat /\ wr' \in Nat
        BY <1>0 DEF exec_pipe
      <3> QED
        BY <3>2, <3>3
    <2>2. piped' \in BOOLEAN /\ bytes' \in 0 .. 1
      BY DEF exec_pipe, PipeTypes
    <2> QED
      BY <2>1, <2>2 DEF PipeTypes
  <1>4. ChildTypes'
    BY <1>0 DEF exec_pipe, ChildTypes, ManagerTypes
  <1>5. Armed' /\ LaunchOrder' /\ (~NDebug => OrderlySigint)'
    BY <1>0 DEF exec_pipe, Armed, LaunchOrder, OrderlySigint
  <1>6. PipeEnds' /\ LaunchClosesPipe'
    BY <1>0 DEF exec_pipe, PipeEnds, LaunchClosesPipe, LaunchOrder
  <1>7. Barrier'
    BY <1>0 DEF exec_pipe, Barrier, LaunchOrder
  <1>8. PipeSignalMeansDeadChild'
    BY <1>0 DEF exec_pipe, PipeSignalMeansDeadChild, Barrier, PipeEnds, LaunchOrder
  <1> QED
    BY <1>1, <1>2, <1>3, <1>4, <1>5, <1>6, <1>7, <1>8

\* The subprocess starts behind the barrier, with the read end.
LEMMA ForkStep == IInv /\ exec_fork => IInv'
  <1> SUFFICES ASSUME IInv, exec_fork PROVE IInv'
    OBVIOUS
  <1> USE DEF IInv, TypeOK
  <1>1. ManagerTypes'
    BY DEF exec_fork, ManagerTypes, QueueTypes
  <1>2. QueueTypes'
    BY DEF exec_fork, QueueTypes, Notes
  <1>3. PipeTypes'
    BY DEF exec_fork, PipeTypes, ManagerTypes, NoFd, Barrier
  <1>4. ChildTypes'
    BY DEF exec_fork, ChildTypes, ManagerTypes
  <1>5. Armed' /\ LaunchOrder' /\ (~NDebug => OrderlySigint)'
    BY DEF exec_fork, Armed, LaunchOrder, OrderlySigint
  <1>6. PipeEnds' /\ LaunchClosesPipe'
    BY DEF exec_fork, PipeEnds, LaunchClosesPipe, LaunchOrder
  <1>7. Barrier'
    BY DEF exec_fork, Barrier, LaunchOrder
  <1>8. PipeSignalMeansDeadChild'
    BY DEF exec_fork, PipeSignalMeansDeadChild, Barrier, PipeEnds, LaunchOrder
  <1> QED
    BY <1>1, <1>2, <1>3, <1>4, <1>5, <1>6, <1>7, <1>8

\* The filter is attached before anything is written, or exec returns.
LEMMA AttachStep == IInv /\ exec_attach => IInv'
  <1> SUFFICES ASSUME IInv, exec_attach PROVE IInv'
    OBVIOUS
  <1> USE DEF IInv, TypeOK
  <1>1. ManagerTypes'
    BY DEF exec_attach, ManagerTypes, QueueTypes
  <1>2. QueueTypes'
    BY DEF exec_attach, QueueTypes, Notes
  <1>3. PipeTypes'
    BY DEF exec_attach, PipeTypes, ManagerTypes, NoFd, Barrier
  <1>4. ChildTypes'
    BY DEF exec_attach, ChildTypes, ManagerTypes
  <1>5. Armed' /\ LaunchOrder' /\ (~NDebug => OrderlySigint)'
    BY DEF exec_attach, Armed, LaunchOrder, OrderlySigint
  <1>6. PipeEnds' /\ LaunchClosesPipe'
    BY DEF exec_attach, PipeEnds, LaunchClosesPipe, LaunchOrder
  <1>7. Barrier'
    BY DEF exec_attach, Barrier, LaunchOrder
  <1>8. PipeSignalMeansDeadChild'
    BY DEF exec_attach, PipeSignalMeansDeadChild, Barrier, PipeEnds, LaunchOrder
  <1> QED
    BY <1>1, <1>2, <1>3, <1>4, <1>5, <1>6, <1>7, <1>8

\* The manager closes the read end.
LEMMA CloseReadStep == IInv /\ exec_close_rd => IInv'
  <1> SUFFICES ASSUME IInv, exec_close_rd PROVE IInv'
    OBVIOUS
  <1> USE DEF IInv, TypeOK
  <1>1. ManagerTypes'
    BY DEF exec_close_rd, ManagerTypes, QueueTypes
  <1>2. QueueTypes'
    BY DEF exec_close_rd, QueueTypes, Notes
  <1>3. PipeTypes'
    BY DEF exec_close_rd, PipeTypes, ManagerTypes, NoFd, Barrier
  <1>4. ChildTypes'
    BY DEF exec_close_rd, ChildTypes, ManagerTypes
  <1>5. Armed' /\ LaunchOrder' /\ (~NDebug => OrderlySigint)'
    BY DEF exec_close_rd, Armed, LaunchOrder, OrderlySigint
  <1>6. PipeEnds' /\ LaunchClosesPipe'
    BY DEF exec_close_rd, PipeEnds, LaunchClosesPipe, LaunchOrder
  <1>7. Barrier'
    BY DEF exec_close_rd, Barrier, LaunchOrder
  <1>8. PipeSignalMeansDeadChild'
    BY DEF exec_close_rd, PipeSignalMeansDeadChild, Barrier, PipeEnds, LaunchOrder
  <1> QED
    BY <1>1, <1>2, <1>3, <1>4, <1>5, <1>6, <1>7, <1>8

\* The write opens the barrier, or kills the manager when nobody is left to read.
LEMMA WriteStep == IInv /\ exec_write => IInv'
  <1> SUFFICES ASSUME IInv, exec_write PROVE IInv'
    OBVIOUS
  <1> USE DEF IInv, TypeOK
  <1>1. ManagerTypes'
    <2>1. fate' = fate \/ fate' = [sig |-> "SIGPIPE", at |-> mpc]
      BY DEF exec_write, Killed
    <2>2. mpc \in Starting \cup Launching \cup Running
      BY DEF exec_write, ManagerTypes
    <2>3. fate' \in [sig : Signals \cup {"none"},
                    at : Starting \cup Launching \cup Running \cup {"none"}]
      BY <2>1, <2>2 DEF ManagerTypes
    <2>4. /\ mpc' \in Starting \cup Launching \cup Running \cup {"exited", "killed"}
          /\ mfds' \subseteq Nat
      BY <2>2 DEF exec_write, Killed, ManagerTypes
    <2> QED
      BY <2>3, <2>4 DEF exec_write, ManagerTypes
  <1>2. QueueTypes'
    BY DEF exec_write, Killed, PipeHasReader, QueueTypes, Notes
  <1>3. PipeTypes'
    BY DEF exec_write, Killed, PipeHasReader, PipeTypes, ManagerTypes, NoFd, Barrier
  <1>4. ChildTypes'
    BY DEF exec_write, Killed, PipeHasReader, ChildTypes, ManagerTypes
  <1>5. Armed' /\ LaunchOrder' /\ (~NDebug => OrderlySigint)'
    BY DEF exec_write, Killed, PipeHasReader, Armed, LaunchOrder, OrderlySigint
  <1>6. PipeEnds' /\ LaunchClosesPipe'
    BY DEF exec_write, Killed, PipeHasReader, PipeEnds, LaunchClosesPipe, LaunchOrder
  <1>7. Barrier'
    BY DEF exec_write, Killed, PipeHasReader, Barrier, LaunchOrder
  <1>8. PipeSignalMeansDeadChild'
    BY DEF exec_write, Killed, PipeHasReader, PipeSignalMeansDeadChild, Barrier, PipeEnds, LaunchOrder
  <1> QED
    BY <1>1, <1>2, <1>3, <1>4, <1>5, <1>6, <1>7, <1>8

\* The manager closes the write end.
LEMMA CloseWriteStep == IInv /\ exec_close_wr => IInv'
  <1> SUFFICES ASSUME IInv, exec_close_wr PROVE IInv'
    OBVIOUS
  <1> USE DEF IInv, TypeOK
  <1>1. ManagerTypes'
    BY DEF exec_close_wr, ManagerTypes, QueueTypes
  <1>2. QueueTypes'
    BY DEF exec_close_wr, QueueTypes, Notes
  <1>3. PipeTypes'
    BY DEF exec_close_wr, PipeTypes, ManagerTypes, NoFd, Barrier
  <1>4. ChildTypes'
    BY DEF exec_close_wr, ChildTypes, ManagerTypes
  <1>5. Armed' /\ LaunchOrder' /\ (~NDebug => OrderlySigint)'
    BY DEF exec_close_wr, Armed, LaunchOrder, OrderlySigint
  <1>6. PipeEnds' /\ LaunchClosesPipe'
    BY DEF exec_close_wr, PipeEnds, LaunchClosesPipe, LaunchOrder
  <1>7. Barrier'
    BY DEF exec_close_wr, Barrier, LaunchOrder
  <1>8. PipeSignalMeansDeadChild'
    BY DEF exec_close_wr, PipeSignalMeansDeadChild, Barrier, PipeEnds, LaunchOrder
  <1> QED
    BY <1>1, <1>2, <1>3, <1>4, <1>5, <1>6, <1>7, <1>8

\* kevent hands the active notes over, or fails.
LEMMA KeventStep == IInv /\ main_kevent => IInv'
  <1> SUFFICES ASSUME IInv, main_kevent PROVE IInv'
    OBVIOUS
  <1> USE DEF IInv, TypeOK
  <1>0. active # {} => \A b \in Batches(active) : b \in Seq(Event) /\ b # <<>>
    BY BatchFacts DEF TypeOK, QueueTypes
  <1>1. ManagerTypes'
    BY <1>0 DEF main_kevent, Exit, ManagerTypes, QueueTypes
  <1>2. QueueTypes'
    BY <1>0 DEF main_kevent, Exit, QueueTypes, Notes
  <1>3. PipeTypes'
    BY <1>0 DEF main_kevent, Exit, PipeTypes, ManagerTypes, NoFd, Barrier
  <1>4. ChildTypes'
    BY <1>0 DEF main_kevent, Exit, ChildTypes, ManagerTypes
  <1>5. Armed' /\ LaunchOrder' /\ (~NDebug => OrderlySigint)'
    BY <1>0 DEF main_kevent, Exit, Armed, LaunchOrder, OrderlySigint
  <1>6. PipeEnds' /\ LaunchClosesPipe'
    <2>1. proc' # "none" => proc # "none"
      BY DEF main_kevent, LaunchOrder, Notes
    <2> QED
      BY <2>1 DEF main_kevent, Exit, PipeEnds, LaunchClosesPipe
  <1>7. Barrier'
    BY <1>0 DEF main_kevent, Exit, Barrier, LaunchOrder
  <1>8. PipeSignalMeansDeadChild'
    BY <1>0 DEF main_kevent, Exit, PipeSignalMeansDeadChild, Barrier, PipeEnds, LaunchOrder
  <1> QED
    BY <1>1, <1>2, <1>3, <1>4, <1>5, <1>6, <1>7, <1>8

\* kevent is interrupted and the manager exits.
LEMMA KeventInterruptedStep == IInv /\ main_kevent_interrupted => IInv'
  <1> SUFFICES ASSUME IInv, main_kevent_interrupted PROVE IInv'
    OBVIOUS
  <1> USE DEF IInv, TypeOK
  <1>1. ManagerTypes'
    BY DEF main_kevent_interrupted, Exit, ManagerTypes, QueueTypes
  <1>2. QueueTypes'
    BY DEF main_kevent_interrupted, Exit, QueueTypes, Notes
  <1>3. PipeTypes'
    BY DEF main_kevent_interrupted, Exit, PipeTypes, ManagerTypes, NoFd, Barrier
  <1>4. ChildTypes'
    BY DEF main_kevent_interrupted, Exit, ChildTypes, ManagerTypes
  <1>5. Armed' /\ LaunchOrder' /\ (~NDebug => OrderlySigint)'
    BY DEF main_kevent_interrupted, Exit, Armed, LaunchOrder, OrderlySigint
  <1>6. PipeEnds' /\ LaunchClosesPipe'
    BY DEF main_kevent_interrupted, Exit, PipeEnds, LaunchClosesPipe, LaunchOrder
  <1>7. Barrier'
    BY DEF main_kevent_interrupted, Exit, Barrier, LaunchOrder
  <1>8. PipeSignalMeansDeadChild'
    BY DEF main_kevent_interrupted, Exit, PipeSignalMeansDeadChild, Barrier, PipeEnds, LaunchOrder
  <1> QED
    BY <1>1, <1>2, <1>3, <1>4, <1>5, <1>6, <1>7, <1>8

\* The main loop ends.
LEMMA ReturnStep == IInv /\ main_return => IInv'
  <1> SUFFICES ASSUME IInv, main_return PROVE IInv'
    OBVIOUS
  <1> USE DEF IInv, TypeOK
  <1>1. ManagerTypes'
    BY DEF main_return, Exit, ManagerTypes, QueueTypes
  <1>2. QueueTypes'
    BY DEF main_return, Exit, QueueTypes, Notes
  <1>3. PipeTypes'
    BY DEF main_return, Exit, PipeTypes, ManagerTypes, NoFd, Barrier
  <1>4. ChildTypes'
    BY DEF main_return, Exit, ChildTypes, ManagerTypes
  <1>5. Armed' /\ LaunchOrder' /\ (~NDebug => OrderlySigint)'
    BY DEF main_return, Exit, Armed, LaunchOrder, OrderlySigint
  <1>6. PipeEnds' /\ LaunchClosesPipe'
    BY DEF main_return, Exit, PipeEnds, LaunchClosesPipe, LaunchOrder
  <1>7. Barrier'
    BY DEF main_return, Exit, Barrier, LaunchOrder
  <1>8. PipeSignalMeansDeadChild'
    BY DEF main_return, Exit, PipeSignalMeansDeadChild, Barrier, PipeEnds, LaunchOrder
  <1> QED
    BY <1>1, <1>2, <1>3, <1>4, <1>5, <1>6, <1>7, <1>8

\* One event is dispatched; the rest is a shorter batch.
LEMMA DispatchStep == IInv /\ main_dispatch => IInv'
  <1> SUFFICES ASSUME IInv, main_dispatch PROVE IInv'
    OBVIOUS
  <1> USE DEF IInv, TypeOK
  <1>0. /\ Head(batch) \in Event
        /\ Tail(batch) \in Seq(Event)
        /\ Len(batch) # 1 => Tail(batch) # <<>>
    <2>1. batch \in Seq(Event) /\ batch # <<>>
      BY DEF TypeOK, ManagerTypes, main_dispatch, LaunchOrder
    <2>2. /\ Head(batch) \in Event
          /\ Tail(batch) \in Seq(Event)
          /\ Len(Tail(batch)) = Len(batch) - 1
          /\ Len(batch) \in Nat \ {0}
      BY <2>1, HeadTailProperties, EmptySeq
    <2>3. Len(batch) # 1 => Len(Tail(batch)) # 0
      BY <2>2
    <2>4. Len(<<>>) = 0
      BY EmptySeq
    <2> QED
      BY <2>2, <2>3, <2>4
  <1>00. Head(batch) # {"SIGNAL"} => Head(batch) \subseteq Notes
    BY <1>0 DEF Event
  <1>1. ManagerTypes'
    BY <1>0, <1>00 DEF main_dispatch, ManagerTypes, QueueTypes
  <1>2. QueueTypes'
    BY <1>0, <1>00 DEF main_dispatch, QueueTypes, Notes
  <1>3. PipeTypes'
    BY <1>0, <1>00 DEF main_dispatch, PipeTypes, ManagerTypes, NoFd, Barrier
  <1>4. ChildTypes'
    BY <1>0, <1>00 DEF main_dispatch, ChildTypes, ManagerTypes
  <1>5. Armed' /\ LaunchOrder' /\ (~NDebug => OrderlySigint)'
    BY <1>0, <1>00 DEF main_dispatch, Armed, LaunchOrder, OrderlySigint
  <1>6. PipeEnds' /\ LaunchClosesPipe'
    BY <1>0, <1>00 DEF main_dispatch, PipeEnds, LaunchClosesPipe, LaunchOrder
  <1>7. Barrier'
    BY <1>0, <1>00 DEF main_dispatch, Barrier, LaunchOrder
  <1>8. PipeSignalMeansDeadChild'
    BY <1>0, <1>00 DEF main_dispatch, PipeSignalMeansDeadChild, Barrier, PipeEnds, LaunchOrder
  <1> QED
    BY <1>1, <1>2, <1>3, <1>4, <1>5, <1>6, <1>7, <1>8

\* The subprocess gets past the barrier.
LEMMA ChildReadStep == IInv /\ exec_child_read => IInv'
  <1> SUFFICES ASSUME IInv, exec_child_read PROVE IInv'
    OBVIOUS
  <1> USE DEF IInv, TypeOK
  <1>1. ManagerTypes'
    BY DEF exec_child_read, ManagerTypes, QueueTypes
  <1>2. QueueTypes'
    BY DEF exec_child_read, QueueTypes, Notes
  <1>3. PipeTypes'
    BY DEF exec_child_read, PipeTypes, ManagerTypes, NoFd, Barrier
  <1>4. ChildTypes'
    BY DEF exec_child_read, ChildTypes, ManagerTypes
  <1>5. Armed' /\ LaunchOrder' /\ (~NDebug => OrderlySigint)'
    BY DEF exec_child_read, Armed, LaunchOrder, OrderlySigint
  <1>6. PipeEnds' /\ LaunchClosesPipe'
    BY DEF exec_child_read, PipeEnds, LaunchClosesPipe, LaunchOrder
  <1>7. Barrier'
    BY DEF exec_child_read, Barrier, LaunchOrder
  <1>8. PipeSignalMeansDeadChild'
    BY DEF exec_child_read, PipeSignalMeansDeadChild, Barrier, PipeEnds, LaunchOrder
  <1> QED
    BY <1>1, <1>2, <1>3, <1>4, <1>5, <1>6, <1>7, <1>8

\* The subprocess closes its descriptors.
LEMMA CloseFdsStep == IInv /\ close_fds_except => IInv'
  <1> SUFFICES ASSUME IInv, close_fds_except PROVE IInv'
    OBVIOUS
  <1> USE DEF IInv, TypeOK
  <1>1. ManagerTypes'
    BY DEF close_fds_except, ManagerTypes, QueueTypes
  <1>2. QueueTypes'
    BY DEF close_fds_except, QueueTypes, Notes
  <1>3. PipeTypes'
    BY DEF close_fds_except, PipeTypes, ManagerTypes, NoFd, Barrier
  <1>4. ChildTypes'
    BY DEF close_fds_except, ChildTypes, ManagerTypes
  <1>5. Armed' /\ LaunchOrder' /\ (~NDebug => OrderlySigint)'
    BY DEF close_fds_except, Armed, LaunchOrder, OrderlySigint
  <1>6. PipeEnds' /\ LaunchClosesPipe'
    BY DEF close_fds_except, PipeEnds, LaunchClosesPipe, LaunchOrder
  <1>7. Barrier'
    BY DEF close_fds_except, Barrier, LaunchOrder
  <1>8. PipeSignalMeansDeadChild'
    BY DEF close_fds_except, PipeSignalMeansDeadChild, Barrier, PipeEnds, LaunchOrder
  <1> QED
    BY <1>1, <1>2, <1>3, <1>4, <1>5, <1>6, <1>7, <1>8

\* The program starts, or the subprocess exits.
LEMMA ExecveStep == IInv /\ setup_subproc_execve => IInv'
  <1> SUFFICES ASSUME IInv, setup_subproc_execve PROVE IInv'
    OBVIOUS
  <1> USE DEF IInv, TypeOK
  <1>1. ManagerTypes'
    BY DEF setup_subproc_execve, Noted, ManagerTypes, QueueTypes
  <1>2. QueueTypes'
    BY DEF setup_subproc_execve, Noted, QueueTypes, Notes
  <1>3. PipeTypes'
    BY DEF setup_subproc_execve, Noted, PipeTypes, ManagerTypes, NoFd, Barrier
  <1>4. ChildTypes'
    BY DEF setup_subproc_execve, Noted, ChildTypes, ManagerTypes
  <1>5. Armed' /\ LaunchOrder' /\ (~NDebug => OrderlySigint)'
    BY DEF setup_subproc_execve, Noted, Armed, LaunchOrder, OrderlySigint
  <1>6. PipeEnds' /\ LaunchClosesPipe'
    BY DEF setup_subproc_execve, Noted, PipeEnds, LaunchClosesPipe, LaunchOrder
  <1>7. Barrier'
    BY DEF setup_subproc_execve, Noted, Barrier, LaunchOrder
  <1>8. PipeSignalMeansDeadChild'
    BY DEF setup_subproc_execve, Noted, PipeSignalMeansDeadChild, Barrier, PipeEnds, LaunchOrder
  <1> QED
    BY <1>1, <1>2, <1>3, <1>4, <1>5, <1>6, <1>7, <1>8

\* SIGINT arrives.
LEMMA InterruptStep == IInv /\ interrupt => IInv'
  <1> SUFFICES ASSUME IInv, interrupt PROVE IInv'
    OBVIOUS
  <1> USE DEF IInv, TypeOK
  <1>1. ManagerTypes'
    <2>1. fate' = fate \/ fate' = [sig |-> "SIGINT", at |-> mpc]
      BY DEF interrupt, Killed
    <2>2. mpc \in Starting \cup Launching \cup Running
      BY DEF interrupt, ManagerTypes
    <2>3. fate' \in [sig : Signals \cup {"none"},
                    at : Starting \cup Launching \cup Running \cup {"none"}]
      BY <2>1, <2>2 DEF ManagerTypes
    <2>4. /\ mpc' \in Starting \cup Launching \cup Running \cup {"exited", "killed"}
          /\ mfds' \subseteq Nat
      BY <2>2 DEF interrupt, Killed, ManagerTypes
    <2> QED
      BY <2>3, <2>4 DEF interrupt, ManagerTypes
  <1>2. QueueTypes'
    BY DEF interrupt, Killed, QueueTypes, Notes
  <1>3. PipeTypes'
    BY DEF interrupt, Killed, PipeTypes, ManagerTypes, NoFd, Barrier
  <1>4. ChildTypes'
    BY DEF interrupt, Killed, ChildTypes, ManagerTypes
  <1>5. Armed' /\ LaunchOrder' /\ (~NDebug => OrderlySigint)'
    <2>1. Armed' /\ LaunchOrder'
      BY DEF interrupt, Killed, Armed, LaunchOrder, Notes
    <2>2. ASSUME ~NDebug
          PROVE  OrderlySigint'
      <3>1. CASE sigint = "default"
        <4>1. mpc \in Starting
          BY <2>2, <3>1 DEF Armed, interrupt, ManagerTypes
        <4>2. fate' = [sig |-> "SIGINT", at |-> mpc]
          BY <3>1 DEF interrupt, Killed
        <4> QED
          BY <4>1, <4>2 DEF OrderlySigint
      <3>2. CASE sigint # "default"
        BY <2>2, <3>2 DEF interrupt, OrderlySigint
      <3> QED
        BY <3>1, <3>2
    <2> QED
      BY <2>1, <2>2
  <1>6. PipeEnds' /\ LaunchClosesPipe'
    BY DEF interrupt, Killed, PipeEnds, LaunchClosesPipe, LaunchOrder
  <1>7. Barrier'
    BY DEF interrupt, Killed, Barrier, LaunchOrder
  <1>8. PipeSignalMeansDeadChild'
    BY DEF interrupt, Killed, PipeSignalMeansDeadChild, Barrier, PipeEnds, LaunchOrder
  <1> QED
    BY <1>1, <1>2, <1>3, <1>4, <1>5, <1>6, <1>7, <1>8

\* SIGTERM arrives.
LEMMA TerminateStep == IInv /\ terminate => IInv'
  <1> SUFFICES ASSUME IInv, terminate PROVE IInv'
    OBVIOUS
  <1> USE DEF IInv, TypeOK
  <1>1. ManagerTypes'
    BY DEF terminate, Killed, ManagerTypes, QueueTypes
  <1>2. QueueTypes'
    BY DEF terminate, Killed, QueueTypes, Notes
  <1>3. PipeTypes'
    BY DEF terminate, Killed, PipeTypes, ManagerTypes, NoFd, Barrier
  <1>4. ChildTypes'
    BY DEF terminate, Killed, ChildTypes, ManagerTypes
  <1>5. Armed' /\ LaunchOrder' /\ (~NDebug => OrderlySigint)'
    BY DEF terminate, Killed, Armed, LaunchOrder, OrderlySigint
  <1>6. PipeEnds' /\ LaunchClosesPipe'
    BY DEF terminate, Killed, PipeEnds, LaunchClosesPipe, LaunchOrder
  <1>7. Barrier'
    BY DEF terminate, Killed, Barrier, LaunchOrder
  <1>8. PipeSignalMeansDeadChild'
    BY DEF terminate, Killed, PipeSignalMeansDeadChild, Barrier, PipeEnds, LaunchOrder
  <1> QED
    BY <1>1, <1>2, <1>3, <1>4, <1>5, <1>6, <1>7, <1>8

\* The subprocess ends.
LEMMA ChildOverStep == IInv /\ child_over => IInv'
  <1> SUFFICES ASSUME IInv, child_over PROVE IInv'
    OBVIOUS
  <1> USE DEF IInv, TypeOK
  <1>1. ManagerTypes'
    BY DEF child_over, Noted, ManagerTypes, QueueTypes
  <1>2. QueueTypes'
    BY DEF child_over, Noted, QueueTypes, Notes
  <1>3. PipeTypes'
    BY DEF child_over, Noted, PipeTypes, ManagerTypes, NoFd, Barrier
  <1>4. ChildTypes'
    BY DEF child_over, Noted, ChildTypes, ManagerTypes
  <1>5. Armed' /\ LaunchOrder' /\ (~NDebug => OrderlySigint)'
    BY DEF child_over, Noted, Armed, LaunchOrder, OrderlySigint
  <1>6. PipeEnds' /\ LaunchClosesPipe'
    BY DEF child_over, Noted, PipeEnds, LaunchClosesPipe, LaunchOrder
  <1>7. Barrier'
    BY DEF child_over, Noted, Barrier, LaunchOrder
  <1>8. PipeSignalMeansDeadChild'
    BY DEF child_over, Noted, PipeSignalMeansDeadChild, Barrier, PipeEnds, LaunchOrder
  <1> QED
    BY <1>1, <1>2, <1>3, <1>4, <1>5, <1>6, <1>7, <1>8

\* The program forks.
LEMMA ChildForksStep == IInv /\ child_forks => IInv'
  <1> SUFFICES ASSUME IInv, child_forks PROVE IInv'
    OBVIOUS
  <1> USE DEF IInv, TypeOK
  <1>1. ManagerTypes'
    BY DEF child_forks, Noted, ManagerTypes, QueueTypes
  <1>2. QueueTypes'
    BY DEF child_forks, Noted, QueueTypes, Notes
  <1>3. PipeTypes'
    BY DEF child_forks, Noted, PipeTypes, ManagerTypes, NoFd, Barrier
  <1>4. ChildTypes'
    BY DEF child_forks, Noted, ChildTypes, ManagerTypes
  <1>5. Armed' /\ LaunchOrder' /\ (~NDebug => OrderlySigint)'
    BY DEF child_forks, Noted, Armed, LaunchOrder, OrderlySigint
  <1>6. PipeEnds' /\ LaunchClosesPipe'
    BY DEF child_forks, Noted, PipeEnds, LaunchClosesPipe, LaunchOrder
  <1>7. Barrier'
    BY DEF child_forks, Noted, Barrier, LaunchOrder
  <1>8. PipeSignalMeansDeadChild'
    BY DEF child_forks, Noted, PipeSignalMeansDeadChild, Barrier, PipeEnds, LaunchOrder
  <1> QED
    BY <1>1, <1>2, <1>3, <1>4, <1>5, <1>6, <1>7, <1>8

\* Every step of the manager, the subprocess and the environment preserves IInv.
LEMMA NextIInv == IInv /\ [Next]_vars => IInv'
  <1> SUFFICES ASSUME IInv, [Next]_vars PROVE IInv'
    OBVIOUS
  <1>1. CASE Manager
    <2>1. CASE Exec
      BY <2>1, PipeStep, ForkStep, AttachStep, CloseReadStep, WriteStep, CloseWriteStep
      DEF Exec
    <2> QED
      BY <1>1, <2>1, KqueueStep, SignalStep, KeventStep, ReturnStep, DispatchStep
      DEF Manager
  <1>2. CASE Subprocess
    BY <1>2, ChildReadStep, CloseFdsStep, ExecveStep DEF Subprocess
  <1>3. CASE Environment
    BY <1>3, InterruptStep, TerminateStep, KeventInterruptedStep, ChildOverStep,
       ChildForksStep DEF Environment
  <1>4. CASE UNCHANGED vars
    <2> USE <1>4 DEF IInv, TypeOK, vars, mvars, kvars, pipevars, childvars
    <2>1. ManagerTypes' /\ QueueTypes'
      BY DEF ManagerTypes, QueueTypes
    <2>2. PipeTypes' /\ ChildTypes'
      BY DEF PipeTypes, ChildTypes
    <2>3. Armed' /\ LaunchOrder' /\ (~NDebug => OrderlySigint)'
      BY DEF Armed, LaunchOrder, OrderlySigint
    <2>4. PipeEnds' /\ LaunchClosesPipe'
      BY DEF PipeEnds, LaunchClosesPipe, Waiting
    <2>5. Barrier' /\ PipeSignalMeansDeadChild'
      BY DEF Barrier, PipeSignalMeansDeadChild, Begun
    <2> QED
      BY <2>1, <2>2, <2>3, <2>4, <2>5
  <1> QED
    BY <1>1, <1>2, <1>3, <1>4 DEF Next

-----------------------------------------------------------------------------

\* IInv holds at every moment of every run of xpcd, however the manager, the
\* subprocess it forks, signals and failing calls interleave.
THEOREM Invariance == Spec => []IInv
  BY InitIInv, NextIInv, PTL DEF Spec

\* Every variable keeps its type; in particular the pipe never holds more than
\* the one byte exec writes, nor fewer than none.
THEOREM TypeCorrect == Spec => []TypeOK
  <1>1. IInv => TypeOK
    BY DEF IInv
  <1> QED
    BY <1>1, Invariance, PTL

\* In a build with assertions SIGINT never kills a manager that has returned from
\* kqueue_signal.
THEOREM SigintIsOrderly == ~NDebug => (Spec => []OrderlySigint)
  <1> SUFFICES ASSUME ~NDebug PROVE Spec => []OrderlySigint
    OBVIOUS
  <1>1. IInv => OrderlySigint
    BY DEF IInv
  <1> QED
    BY <1>1, Invariance, PTL

\* The waitfd barrier works: whenever the pipe was made, the subprocess is past
\* its read only if the manager has attached the PROC filter to it.
THEOREM BarrierHolds == Spec => []BeginsWatched
  <1>1. IInv => BeginsWatched
    BY DEF IInv, Barrier, BeginsWatched
  <1> QED
    BY <1>1, Invariance, PTL

\* The manager dies of SIGPIPE in exec only when the subprocess was killed before
\* it had its byte.
THEOREM PipeSignal == Spec => []PipeSignalMeansDeadChild
  <1>1. IInv => PipeSignalMeansDeadChild
    BY DEF IInv
  <1> QED
    BY <1>1, Invariance, PTL

\* A launch that attached its filter leaves neither end of waitfd open in the
\* manager, and does not close the kernel queue.
THEOREM LaunchTidies == Spec => []LaunchClosesPipe
  <1>1. IInv => LaunchClosesPipe
    BY DEF IInv
  <1> QED
    BY <1>1, Invariance, PTL

=============================================================================
