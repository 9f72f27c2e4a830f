---------------------------- MODULE XpcctlProofs ----------------------------
(***************************************************************************)
(* IInv is an inductive invariant of Xpcctl, for every directory tree,     *)
(* every property list and all arguments.                                  *)
(***************************************************************************)
EXTENDS Xpcctl, SequenceTheorems, TLAPS

-----------------------------------------------------------------------------
(* Directories and what is below them *)

\* Below(P) is the least closed set that holds P.
LEMMA BelowFacts ==
    ASSUME NEW P \in SUBSET Nodes
    PROVE  /\ P \subseteq Below(P)
           /\ Below(P) \subseteq Nodes
           /\ Closed(Below(P))
           /\ \A S \in SUBSET Nodes : P \subseteq S /\ Closed(S) => Below(P) \subseteq S
  <1>1. P \subseteq Below(P) /\ Below(P) \subseteq Nodes
    BY DEF Below
  <1>2. \A S \in SUBSET Nodes : P \subseteq S /\ Closed(S) => Below(P) \subseteq S
    BY DEF Below
  <1>3. ASSUME NEW n \in Below(P), Kind[n] = "dir", NEW e \in Entries[n], ~e.hidden
        PROVE  e.node \in Below(P)
    <2>1. e.node \in Nodes
      BY <1>1, <1>3, TreeAssumption DEF Entry
    <2>2. ASSUME NEW S \in SUBSET Nodes, P \subseteq S, Closed(S) PROVE e.node \in S
      BY <1>3, <2>2 DEF Below, Closed
    <2> QED
      BY <2>1, <2>2 DEF Below
  <1> QED
    BY <1>1, <1>2, <1>3 DEF Closed

\* What is below a node that is loaded is below what its loading leaves to be done.
LEMMA BelowLoaded ==
    ASSUME NEW P \in SUBSET Nodes, NEW Q \in SUBSET Nodes, NEW x \in Nodes,
           P \subseteq Q \cup {x},
           Kind[x] = "dir" => Shown(Entries[x]) \subseteq Q
    PROVE  Below(P) \subseteq Below(Q) \cup {x}
  <1>1. Q \subseteq Below(Q) /\ Below(Q) \subseteq Nodes /\ Closed(Below(Q))
    BY BelowFacts
  <1>2. Closed(Below(Q) \cup {x})
    BY <1>1 DEF Closed, Shown
  <1>3. Below(Q) \cup {x} \in SUBSET Nodes /\ P \subseteq Below(Q) \cup {x}
    BY <1>1
  <1> QED
    BY <1>2, <1>3, BelowFacts

\* A directory is in a closed set with what its names show.
LEMMA ClosedShown ==
    ASSUME NEW S, Closed(S), NEW n \in S, Kind[n] = "dir"
    PROVE  Shown(Entries[n]) \subseteq S
  BY DEF Closed, Shown

\* What a stack shows.
LEMMA ShownAppend ==
    ASSUME NEW s \in Seq(SUBSET Entry), NEW E \in SUBSET Entry
    PROVE  ShownIn(Append(s, E)) = ShownIn(s) \cup Shown(E)
  <1>1. DOMAIN Append(s, E) = DOMAIN s \cup {Len(s) + 1} /\ Len(s) \in Nat
    OBVIOUS
  <1>2. \A d \in DOMAIN s : Append(s, E)[d] = s[d]
    OBVIOUS
  <1>3. Append(s, E)[Len(s) + 1] = E
    OBVIOUS
  <1>4. {Shown(Append(s, E)[d]) : d \in DOMAIN Append(s, E)}
          = {Shown(s[d]) : d \in DOMAIN s} \cup {Shown(E)}
    BY <1>1, <1>2, <1>3
  <1> QED
    BY <1>4 DEF ShownIn

LEMMA ShownInNodes ==
    ASSUME NEW s \in Seq(SUBSET Entry)
    PROVE  ShownIn(s) \subseteq Nodes
  BY DEF ShownIn, Shown, Entry

\* The stack is the directory at its top on what is below it.
LEMMA UpperFacts ==
    ASSUME stack \in Seq(SUBSET Entry), stack # <<>>
    PROVE  /\ Upper \in Seq(SUBSET Entry)
           /\ stack[Len(stack)] \in SUBSET Entry
           /\ stack = Append(Upper, stack[Len(stack)])
  <1>1. Len(stack) \in Nat /\ Len(stack) > 0
    BY EmptySeq
  <1>2. Upper \in Seq(SUBSET Entry) /\ Len(Upper) = Len(stack) - 1
    <2>1. \A d \in 1 .. Len(stack) - 1 : stack[d] \in SUBSET Entry
      BY <1>1
    <2>2. PICK m \in Nat : m = Len(stack) - 1
      BY <1>1
    <2>3. SubSeq(stack, 1, m) \in Seq(SUBSET Entry) /\ Len(SubSeq(stack, 1, m)) = m
      <3>1. Len(SubSeq(stack, 1, m)) = IF 1 <= m THEN m - 1 + 1 ELSE 0
        BY <2>1, <2>2, SubSeqProperties, 1 \in Int, m \in Int
      <3>2. SubSeq(stack, 1, m) \in Seq(SUBSET Entry)
        BY <2>1, <2>2, SubSeqProperties, 1 \in Int, m \in Int
      <3>3. (IF 1 <= m THEN m - 1 + 1 ELSE 0) = m
        OBVIOUS
      <3> QED
        BY <3>1, <3>2, <3>3
    <2> QED
      BY <2>2, <2>3 DEF Upper
  <1>3. \A d \in 1 .. Len(stack) - 1 : Upper[d] = stack[d]
    BY <1>1 DEF Upper
  <1>4. stack[Len(stack)] \in SUBSET Entry
    BY <1>1
  <1>5. Len(Append(Upper, stack[Len(stack)])) = Len(stack)
    BY <1>1, <1>2
  <1>6. \A d \in 1 .. Len(stack) : Append(Upper, stack[Len(stack)])[d] = stack[d]
    BY <1>1, <1>2, <1>3
  <1>7. Append(Upper, stack[Len(stack)]) \in Seq(SUBSET Entry)
    BY <1>2, <1>4
  <1> QED
    BY <1>2, <1>4, <1>5, <1>6, <1>7, SeqEqual

-----------------------------------------------------------------------------
(* Every list is sent *)

\* Loading a node puts no list out of reach and none within it that is not below
\* the arguments.
LEMMA LoadMissed ==
    ASSUME TypeOK, NothingMissed, pc = "load", UNCHANGED <<argv, handed>>,
           NEW n \in Nodes, NEW s \in Seq(SUBSET Entry), load(n, s),
           NEW A \in SUBSET Nodes, A = {argv'[a] : a \in i' .. Len(argv')},
           Pending = A \cup ShownIn(s) \cup {n}
    PROVE  NothingMissed'
  <1> DEFINE P == A \cup ShownIn(s) \cup {n}
  <1>1. {argv[a] : a \in DOMAIN argv} \in SUBSET Nodes
    BY DEF TypeOK
  <1>2. Closed(Within) /\ Within \subseteq Nodes
    BY <1>1, BelowFacts DEF Within
  <1>3. P \subseteq Within /\ n \in Within
    BY DEF NothingMissed
  <1>4. ASSUME NEW Q \in SUBSET Nodes, Pending' = Q, P \subseteq Q \cup {n},
               Kind[n] = "dir" => Shown(Entries[n]) \subseteq Q,
               Kind[n] = "plist" => n \in Q,
               Q \subseteq Within, pc' # "done"
        PROVE  NothingMissed'
    <2>1. P \in SUBSET Nodes
      BY <1>2, <1>3
    <2>2. Below(P) \subseteq Below(Q) \cup {n} /\ Q \subseteq Below(Q)
      BY <1>4, <2>1, BelowLoaded, BelowFacts
    <2>3. ListsIn(Within) \subseteq Sent \cup Below(Q)
      BY <1>4, <2>2 DEF NothingMissed, ListsIn
    <2>4. Within' = Within /\ Sent' = Sent
      BY DEF Within, Sent
    <2>5. ListsIn(Within)' = ListsIn(Within) /\ Below(Pending)' = Below(Q)
      BY <1>4, <2>4 DEF ListsIn, Below
    <2> QED
      BY <1>4, <2>3, <2>4, <2>5 DEF NothingMissed
  <1>5. ShownIn(s) \subseteq Nodes /\ ShownIn(stack)' = ShownIn(stack')
    BY ShownInNodes DEF ShownIn
  <1>6. CASE Kind[n] \in {"gone", "other", "bad", "closed"}
    <2>1. stack' = s /\ pc' = pc
      BY <1>6 DEF load
    <2>2. Pending' = A \cup ShownIn(s)
      BY <2>1, <1>5 DEF Pending
    <2> QED
      BY <1>3, <1>4, <1>5, <1>6, <2>1, <2>2
  <1>7. CASE Kind[n] = "dir"
    <2>1. stack' = Append(s, Entries[n]) /\ pc' = pc
      BY <1>7 DEF load
    <2>2. Entries[n] \in SUBSET Entry
      BY <1>7, TreeAssumption
    <2>3. Pending' = A \cup ShownIn(s) \cup Shown(Entries[n])
      BY <2>1, <2>2, <1>5, ShownAppend DEF Pending
    <2>4. Shown(Entries[n]) \subseteq Within
      BY <1>2, <1>3, <1>7, ClosedShown
    <2> QED
      BY <1>2, <1>3, <1>4, <1>5, <1>7, <2>1, <2>3, <2>4
  <1>8. CASE Kind[n] = "plist"
    <2>1. stack' = s /\ pc' = "validate" /\ file' = n
      BY <1>8 DEF load
    <2>2. Pending' = A \cup ShownIn(s) \cup {n}
      BY <2>1, <1>5 DEF Pending
    <2> QED
      BY <1>2, <1>3, <1>4, <1>8, <2>1, <2>2
  <1> QED
    BY <1>6, <1>7, <1>8 DEF load

LEMMA MissedStep ==
    ASSUME IInv, [Next]_vars
    PROVE  NothingMissed'
  <1> USE DEF IInv
  <1>0. Within' = Within
    BY DEF Next, vars, walk, main_arg, main_end, loaddir, loaddir_hidden, loaddir_entry,
           validate, validate_added, validate_raises, validate_end, cb_sockets,
           cb_sockets_end, newXPCObject, loadfile_nobus, loadfile_send, Within
  <1>1. ASSUME main_arg PROVE NothingMissed'
    <2>1. stack = <<>> /\ i \in DOMAIN argv /\ argv \in Seq(Nodes) /\ Len(argv) \in Nat
      BY <1>1 DEF main_arg, TypeOK
    <2>2. PICK n \in Nodes : n = argv[i]
      BY <2>1
    <2>3. PICK A \in SUBSET Nodes : A = {argv[a] : a \in i + 1 .. Len(argv)}
      <3>1. {argv[a] : a \in i + 1 .. Len(argv)} \in SUBSET Nodes
        BY <2>1
      <3> QED
        BY <3>1
    <2>4. i .. Len(argv) = {i} \cup (i + 1 .. Len(argv))
      BY <2>1
    <2>5. {argv[a] : a \in i .. Len(argv)} = {n} \cup A
      BY <2>2, <2>3, <2>4
    <2>6. Pending = A \cup ShownIn(stack) \cup {n}
      BY <1>1, <2>5 DEF Pending, main_arg
    <2>7. load(n, stack) /\ pc = "load" /\ i' = i + 1 /\ UNCHANGED <<argv, handed>>
      BY <1>1, <2>2 DEF main_arg
    <2>8. A = {argv'[a] : a \in i' .. Len(argv')}
      BY <2>3, <2>7
    <2>9. stack \in Seq(SUBSET Entry)
      BY DEF TypeOK
    <2> QED
      BY <2>6, <2>7, <2>8, <2>9, LoadMissed
  <1>2. ASSUME loaddir PROVE NothingMissed'
    <2>1. /\ pc = "load" /\ stack # <<>> /\ UNCHANGED <<argv, i, handed>>
          /\ stack \in Seq(SUBSET Entry) /\ argv \in Seq(Nodes) /\ i \in Nat
      <3>1. stack \in Seq(SUBSET Entry) /\ argv \in Seq(Nodes) /\ i \in Nat
        BY DEF TypeOK
      <3> QED
        BY <1>2, <3>1 DEF loaddir, loaddir_hidden, loaddir_entry
    <2>2. PICK top \in SUBSET Entry : top = stack[Len(stack)]
      BY <2>1, UpperFacts
    <2>3. Upper \in Seq(SUBSET Entry) /\ ShownIn(stack) = ShownIn(Upper) \cup Shown(top)
      BY <2>1, <2>2, UpperFacts, ShownAppend
    <2>4. PICK A \in SUBSET Nodes : A = {argv[a] : a \in i .. Len(argv)}
      <3>1. {argv[a] : a \in i .. Len(argv)} \in SUBSET Nodes
        BY <2>1 DEF TypeOK
      <3> QED
        BY <3>1
    <2>5. A = {argv'[a] : a \in i' .. Len(argv')}
      BY <2>1, <2>4
    <2>6. Pending = A \cup ShownIn(Upper) \cup Shown(top)
      BY <2>1, <2>3, <2>4 DEF Pending
    <2>7. ASSUME pc' = pc, Pending' = Pending PROVE NothingMissed'
      <3>1. Sent' = Sent /\ ListsIn(Within)' = ListsIn(Within) /\ Below(Pending)' = Below(Pending)
        BY <1>0, <2>1, <2>7 DEF Sent, ListsIn, Below
      <3> QED
        BY <1>0, <2>7, <3>1 DEF NothingMissed
    <2>8. ASSUME NEW e \in top, loaddir_hidden(e) PROVE NothingMissed'
      <3>1. stack' = Append(Upper, top \ {e}) /\ pc' = pc /\ e.hidden
        BY <2>2, <2>8 DEF loaddir_hidden
      <3>2. Shown(top \ {e}) = Shown(top)
        BY <3>1 DEF Shown
      <3>3. ShownIn(stack') = ShownIn(Upper) \cup Shown(top \ {e})
        BY <2>3, <3>1, ShownAppend
      <3>4. ShownIn(stack)' = ShownIn(stack')
        BY DEF ShownIn
      <3>5. Pending' = A \cup ShownIn(Upper) \cup Shown(top)
        BY <2>1, <2>5, <3>1, <3>2, <3>3, <3>4 DEF Pending
      <3> QED
        BY <2>6, <2>7, <3>1, <3>5
    <2>9. ASSUME NEW e \in top, loaddir_entry(e) PROVE NothingMissed'
      <3>1. PICK n \in Nodes : n = e.node
        BY DEF Entry
      <3>2. PICK s \in Seq(SUBSET Entry) : s = Append(Upper, top \ {e})
        <4>1. Append(Upper, top \ {e}) \in Seq(SUBSET Entry)
          BY <2>3
        <4> QED
          BY <4>1
      <3>3. load(n, s) /\ ~e.hidden
        BY <2>2, <2>9, <3>1, <3>2 DEF loaddir_entry
      <3>4. Shown(top) = Shown(top \ {e}) \cup {n}
        BY <3>1, <3>3 DEF Shown
      <3>5. ShownIn(s) = ShownIn(Upper) \cup Shown(top \ {e})
        BY <2>3, <3>2, ShownAppend
      <3>6. Pending = A \cup ShownIn(s) \cup {n}
        BY <2>6, <3>4, <3>5
      <3> QED
        BY <2>1, <2>5, <3>3, <3>6, LoadMissed
    <2>10. ASSUME top = {}, stack' = Upper, pc' = pc PROVE NothingMissed'
      <3>1. Shown(top) = {}
        BY <2>10 DEF Shown
      <3>2. ShownIn(stack)' = ShownIn(Upper)
        BY <2>10 DEF ShownIn
      <3>3. Pending' = A \cup ShownIn(Upper)
        BY <2>1, <2>5, <2>10, <3>2 DEF Pending
      <3> QED
        BY <2>6, <2>7, <2>10, <3>1, <3>3
    <2> QED
      BY <1>2, <2>2, <2>8, <2>9, <2>10 DEF loaddir
  <1>3. ASSUME main_end PROVE NothingMissed'
    <2>1. /\ pc = "load" /\ stack = <<>> /\ i > Len(argv) /\ UNCHANGED <<argv, i, stack, handed>>
          /\ pc' = "done" /\ i \in Nat /\ Len(argv) \in Nat
      BY <1>3 DEF main_end, walk, TypeOK
    <2>2. {argv[a] : a \in i .. Len(argv)} = {} /\ ShownIn(stack) = {}
      BY <2>1 DEF ShownIn
    <2>3. Pending = {} /\ Pending' = {}
      BY <2>1, <2>2 DEF Pending, ShownIn
    <2>4. Sent' = Sent /\ ListsIn(Within)' = ListsIn(Within) /\ Below(Pending)' = Below(Pending)
      BY <1>0, <2>1, <2>3 DEF Sent, ListsIn, Below
    <2> QED
      BY <1>0, <2>3, <2>4 DEF NothingMissed
  <1>4. ASSUME UNCHANGED <<argv, i, stack, file, handed>>,
               pc \notin {"load", "done"}, pc' \notin {"load", "done"}
        PROVE  NothingMissed'
    <2>1. Pending' = Pending
      BY <1>4 DEF Pending
    <2>2. Sent' = Sent /\ ListsIn(Within)' = ListsIn(Within) /\ Below(Pending)' = Below(Pending)
      BY <1>0, <1>4, <2>1 DEF Sent, ListsIn, Below
    <2> QED
      BY <1>0, <1>4, <2>1, <2>2 DEF NothingMissed
  <1>5. ASSUME NEW k \in left, validate(k) PROVE NothingMissed'
    BY <1>4, <1>5 DEF validate, walk
  <1>6. ASSUME validate_added \/ validate_raises \/ validate_end PROVE NothingMissed'
    BY <1>4, <1>6 DEF validate_added, validate_raises, validate_end, walk, list
  <1>7. ASSUME NEW n \in sockets, cb_sockets(n) PROVE NothingMissed'
    <2>1. ASSUME NEW x, process_socket(x) PROVE pc' \in {pc, "aborted"}
      BY <2>1 DEF process_socket
    <2>2. UNCHANGED <<argv, i, stack, file, handed>> /\ pc = "sockets"
      BY <1>7 DEF cb_sockets, walk
    <2>3. pc' \in {pc, "aborted"}
      BY <1>7, <2>1 DEF cb_sockets
    <2> QED
      BY <1>4, <2>2, <2>3
  <1>8. ASSUME cb_sockets_end \/ newXPCObject \/ loadfile_nobus PROVE NothingMissed'
    BY <1>4, <1>8 DEF cb_sockets_end, newXPCObject, loadfile_nobus, walk, list
  <1>9. ASSUME loadfile_send PROVE NothingMissed'
    <2>1. /\ pc = "send" /\ handed' = Append(handed, file) /\ pc' = "load"
          /\ UNCHANGED <<argv, i, stack, file>> /\ handed \in Seq(Nodes)
          /\ file \in Nodes /\ Kind[file] = "plist"
      BY <1>9 DEF loadfile_send, walk, list, TypeOK, ListInHand, InList
    <2>2. PICK n \in Nodes : n = file
      BY <2>1
    <2>3. PICK Q \in SUBSET Nodes : Q = {argv[a] : a \in i .. Len(argv)} \cup ShownIn(stack)
      <3>1. {argv[a] : a \in i .. Len(argv)} \cup ShownIn(stack) \in SUBSET Nodes
        <4>1. stack \in Seq(SUBSET Entry) /\ argv \in Seq(Nodes) /\ i \in Nat \ {0}
          BY DEF TypeOK
        <4>2. ShownIn(stack) \subseteq Nodes
          BY <4>1, ShownInNodes
        <4>3. \A a \in i .. Len(argv) : argv[a] \in Nodes
          BY <4>1
        <4> QED
          BY <4>2, <4>3
      <3> QED
        BY <3>1
    <2>4. Pending = Q \cup {n} /\ Pending' = Q
      BY <2>1, <2>2, <2>3 DEF Pending, ShownIn
    <2>5. Below(Q \cup {n}) \subseteq Below(Q) \cup {n}
      BY <2>1, <2>2, BelowLoaded
    <2>6. Sent' = Sent \cup {n}
      BY <2>1, <2>2 DEF Sent
    <2>7. ListsIn(Within)' = ListsIn(Within) /\ Below(Pending)' = Below(Q)
      BY <1>0, <2>4 DEF ListsIn, Below
    <2>8. n \in ListsIn(Within)
      BY <2>1, <2>2, <2>4 DEF NothingMissed, ListsIn
    <2>9. Below(Pending) = Below(Q \cup {n})
      BY <2>4
    <2>10. ListsIn(Within) \subseteq Sent \cup Below(Q) \cup {n}
      BY <2>5, <2>9 DEF NothingMissed
    <2>11. Q \subseteq Within /\ Sent \subseteq ListsIn(Within)
      BY <2>4 DEF NothingMissed
    <2>12. Pending' \subseteq Within' /\ pc' # "done"
      BY <1>0, <2>1, <2>4, <2>11
    <2>13. Sent' \subseteq ListsIn(Within)'
      BY <2>6, <2>7, <2>8, <2>11
    <2>14. ListsIn(Within)' \subseteq Sent' \cup Below(Pending)'
      BY <2>6, <2>7, <2>10
    <2> QED
      BY <2>12, <2>13, <2>14 DEF NothingMissed
  <1>10. ASSUME UNCHANGED vars PROVE NothingMissed'
    <2>1. Pending' = Pending /\ pc' = pc
      BY <1>10 DEF vars, walk, list, Pending, ShownIn
    <2>2. Sent' = Sent /\ ListsIn(Within)' = ListsIn(Within) /\ Below(Pending)' = Below(Pending)
      BY <1>0, <1>10, <2>1 DEF vars, Sent, ListsIn, Below
    <2> QED
      BY <1>0, <2>1, <2>2 DEF NothingMissed
  <1> QED
    BY <1>1, <1>2, <1>3, <1>5, <1>6, <1>7, <1>8, <1>9, <1>10 DEF Next

-----------------------------------------------------------------------------
(* The list in hand *)

\* Loading a node leaves a list in hand as it should be.
LEMMA LoadHand ==
    ASSUME IInv, pc = "load", NEW n \in Nodes, NEW s \in Seq(SUBSET Entry), load(n, s)
    PROVE  /\ stack' \in Seq(SUBSET Entry)
           /\ pc' \in {"load", "validate"}
           /\ file' \in Nodes \cup {"none"} /\ r' \in {0, -1} /\ mine' \in Nat
           /\ mutated' \in BOOLEAN
           /\ failed' \in BOOLEAN
           /\ ListInHand'
           /\ MutatedExplained'
           /\ SocketOnce'
  <1>1. TypeOK /\ ListInHand /\ MutatedExplained
    BY DEF IInv
  <1>2. CASE Kind[n] \in {"gone", "other", "bad", "closed"}
    <2>1. stack' = s /\ UNCHANGED <<pc, list>>
      BY <1>2 DEF load
    <2> QED
      BY <1>1, <2>1 DEF list, TypeOK, ListInHand, MutatedExplained, SocketOnce, InList
  <1>3. CASE Kind[n] = "dir"
    <2>1. stack' = Append(s, Entries[n]) /\ UNCHANGED <<pc, list>>
      BY <1>3 DEF load
    <2>2. Append(s, Entries[n]) \in Seq(SUBSET Entry)
      BY <1>3, TreeAssumption
    <2> QED
      BY <1>1, <2>1, <2>2 DEF list, TypeOK, ListInHand, MutatedExplained, SocketOnce, InList
  <1>4. CASE Kind[n] = "plist"
    <2>1. /\ stack' = s /\ pc' = "validate" /\ file' = n
          /\ left' = DOMAIN Plist[n] /\ sockets' = {} /\ r' = 0
          /\ mutated' = FALSE /\ failed' = FALSE /\ mine' = 0
      BY <1>4 DEF load
    <2>2. ListInHand'
      BY <1>4, <2>1 DEF ListInHand
    <2>3. MutatedExplained'
      BY <2>1 DEF MutatedExplained
    <2>4. SoundSockets(Plist[n]) => "Sockets" \in DOMAIN Plist[n]
      BY DEF SoundSockets, SocketsOf
    <2>5. SocketOnce'
      BY <2>1, <2>4 DEF SocketOnce
    <2> QED
      BY <2>1, <2>2, <2>3, <2>5
  <1> QED
    BY <1>2, <1>3, <1>4 DEF load

\* main_arg and loaddir load a node, or change only the stack and the position.
LEMMA Walked ==
    ASSUME IInv, main_arg \/ loaddir \/ main_end
    PROVE  TypeOK' /\ ListInHand' /\ MutatedExplained' /\ SocketOnce'
  <1>0. TypeOK /\ ListInHand /\ MutatedExplained /\ SocketOnce
    BY DEF IInv
  <1>1. /\ pc = "load" /\ UNCHANGED <<argv, handed>> /\ i' \in {i, i + 1}
        /\ i' = i + 1 => i <= Len(argv)
    <2>1. i \in Nat /\ i # i + 1
      BY <1>0 DEF TypeOK
    <2> QED
      BY <2>1 DEF main_arg, main_end, loaddir, loaddir_hidden, loaddir_entry, walk
  <1>2. /\ (argv \in Seq(Nodes) /\ i \in 1 .. Len(argv) + 1)'
        /\ (handed \in Seq(Nodes))'
    <2>1. argv' = argv /\ i' \in 1 .. Len(argv) + 1
      BY <1>0, <1>1 DEF TypeOK
    <2> QED
      BY <1>0, <1>1, <2>1 DEF TypeOK
  <1> DEFINE Goal == TypeOK' /\ ListInHand' /\ MutatedExplained' /\ SocketOnce'
  <1>3. ASSUME NEW n \in Nodes, NEW s \in Seq(SUBSET Entry), load(n, s) PROVE Goal
    BY <1>1, <1>2, <1>3, LoadHand DEF TypeOK
  <1>4. ASSUME stack' \in Seq(SUBSET Entry), UNCHANGED list, pc' \in {"load", "done"}
        PROVE  Goal
    <2>1. TypeOK'
      BY <1>0, <1>2, <1>4 DEF TypeOK, list
    <2> QED
      BY <1>0, <1>1, <1>4, <2>1
         DEF list, ListInHand, MutatedExplained, SocketOnce, InList
  <1>5. CASE main_arg
    <2>1. argv[i] \in Nodes /\ stack \in Seq(SUBSET Entry) /\ load(argv[i], stack)
      BY <1>0, <1>5 DEF main_arg, TypeOK
    <2> QED
      BY <1>2, <1>3, <2>1
  <1>6. CASE loaddir
    <2>1. stack \in Seq(SUBSET Entry) /\ stack # <<>>
      BY <1>0, <1>6 DEF TypeOK, loaddir
    <2>2. PICK top \in SUBSET Entry : top = stack[Len(stack)]
      BY <2>1, UpperFacts
    <2>3. Upper \in Seq(SUBSET Entry)
      BY <2>1, UpperFacts
    <2>4. ASSUME NEW e \in top, loaddir_hidden(e) PROVE Goal
      <3>1. stack' = Append(Upper, top \ {e}) /\ UNCHANGED <<pc, list>>
        BY <2>2, <2>4 DEF loaddir_hidden
      <3>2. Append(Upper, top \ {e}) \in Seq(SUBSET Entry)
        BY <2>3
      <3> QED
        BY <1>1, <1>4, <3>1, <3>2
    <2>5. ASSUME NEW e \in top, loaddir_entry(e) PROVE Goal
      <3>1. e.node \in Nodes /\ Append(Upper, top \ {e}) \in Seq(SUBSET Entry)
        BY <2>3 DEF Entry
      <3> QED
        BY <1>3, <2>2, <2>5, <3>1 DEF loaddir_entry
    <2>6. ASSUME stack' = Upper, UNCHANGED <<pc, list>> PROVE Goal
      BY <1>1, <1>4, <2>3, <2>6
    <2> QED
      BY <1>2, <1>6, <2>2, <2>4, <2>5, <2>6 DEF loaddir
  <1>7. CASE main_end
    BY <1>0, <1>2, <1>4, <1>7 DEF main_end, walk, TypeOK
  <1> QED
    BY <1>5, <1>6, <1>7

\* The callbacks return 0 or -1, and 0 for what a sound list holds.
LEMMA ProgargsFacts ==
    ASSUME NEW v
    PROVE  cb_progargs(v) \in {0, -1}
  BY DEF cb_progargs

\* A step of the enumeration, or the end of it, keeps what is said of the list.
LEMMA Validated ==
    ASSUME IInv,
           \/ \E k \in left : validate(k)
           \/ validate_added \/ validate_raises \/ validate_end \/ cb_sockets_end
    PROVE  TypeOK' /\ ListInHand' /\ MutatedExplained' /\ SocketOnce'
  <1>0. TypeOK /\ ListInHand /\ MutatedExplained /\ SocketOnce
    BY DEF IInv
  <1>1. /\ UNCHANGED <<argv, i, stack, file, mutated, failed, mine, handed>>
        /\ pc \in {"validate", "sockets"} /\ left' \subseteq left /\ r' \in {0, -1}
        /\ pc' \in {"validate", "sockets", "convert", "aborted"}
        /\ pc' = "aborted" => mutated
    <2>1. r \in {0, -1}
      BY <1>0 DEF TypeOK
    <2>2. ASSUME NEW k \in left, validate(k) PROVE <1>1
      BY <2>1, <2>2, ProgargsFacts DEF validate, walk, Stop, Continue
    <2>3. CASE validate_added \/ validate_raises \/ validate_end \/ cb_sockets_end
      BY <2>1, <2>3
         DEF validate_added, validate_raises, validate_end, cb_sockets_end,
             walk, list, Stop, Continue
    <2> QED
      BY <2>2, <2>3
  <1>2. TypeOK'
    BY <1>0, <1>1 DEF TypeOK
  <1>3. MutatedExplained'
    BY <1>0, <1>1 DEF MutatedExplained
  <1>4. ListInHand'
    <2>1. pc' = "sockets" => /\ "Sockets" \in DOMAIN Plist[file]
                             /\ Value("Sockets").cls = "dict"
                             /\ sockets' = DOMAIN Value("Sockets").items
      <3>1. ASSUME NEW k \in left, validate(k), pc' = "sockets"
            PROVE  /\ k = "Sockets" /\ Value("Sockets").cls = "dict"
                   /\ sockets' = DOMAIN Value("Sockets").items
        BY <3>1 DEF validate, IsKind, Schema
      <3>2. ASSUME NEW k \in left PROVE k \in DOMAIN Plist[file]
        BY <1>0 DEF ListInHand
      <3>3. validate_added \/ validate_raises \/ validate_end \/ cb_sockets_end
               => pc' # "sockets"
        BY DEF validate_added, validate_raises, validate_end, cb_sockets_end
      <3> QED
        BY <3>1, <3>2, <3>3
    <2>2. UNCHANGED Value("Sockets")
      BY <1>1 DEF Value
    <2> QED
      BY <1>0, <1>1, <2>1, <2>2 DEF ListInHand, InList
  <1>5. SocketOnce'
    <2> SUFFICES ASSUME pc' \in InList, SoundSockets(Plist[file]), ~failed
                 PROVE  /\ r' = 0
                        /\ pc' = "validate" => IF "Sockets" \in left' THEN mine = 0 /\ ~mutated
                                               ELSE mine = 1
                        /\ pc' = "sockets" =>
                              IF sockets' = {} THEN mine = 1
                              ELSE mine = 0 /\ sockets' = DOMAIN SocketsOf(Plist[file])
                        /\ pc' \in {"convert", "send"} => mine = 1
      BY <1>1 DEF SocketOnce
    <2>1. /\ r = 0
          /\ pc = "validate" => IF "Sockets" \in left THEN mine = 0 /\ ~mutated ELSE mine = 1
          /\ pc = "sockets" => IF sockets = {} THEN mine = 1
                               ELSE mine = 0 /\ sockets = DOMAIN SocketsOf(Plist[file])
      BY <1>0, <1>1 DEF SocketOnce, InList
    <2>2. ASSUME NEW k \in left, validate(k)
          PROVE  /\ r' = 0
                 /\ k # "Sockets" => pc' = "validate" /\ left' = left \ {k}
                 /\ k = "Sockets" => /\ pc' = "sockets"
                                     /\ sockets' = DOMAIN SocketsOf(Plist[file])
      <3>1. k \in DOMAIN Schema /\ IsKind(Value(k), Schema[k])
        BY <1>0, <2>2 DEF ListInHand, SoundSockets, WellFormed, Value
      <3>2. k \in DOMAIN Plist[file]
        BY <1>0 DEF ListInHand
      <3>3. k = "ProgramArguments" => cb_progargs(Value(k)) = 0
        BY <3>2 DEF SoundSockets, WellFormed, Value
      <3>4. k = "Sockets" => Value(k).items = SocketsOf(Plist[file])
        BY <3>1, <3>2 DEF SocketsOf, Value, IsKind, Schema
      <3> QED
        BY <2>1, <2>2, <3>1, <3>3, <3>4 DEF validate, Continue
    <2>3. CASE \E k \in left : validate(k)
      <3>1. PICK k \in left : validate(k)
        BY <2>3
      <3>2. pc = "validate"
        BY <3>1 DEF validate
      <3>3. CASE k = "Sockets"
        <4>1. sockets' # {}
          BY <2>2, <3>1, <3>3 DEF SoundSockets
        <4> QED
          BY <2>1, <2>2, <3>1, <3>2, <3>3, <4>1
      <3>4. CASE k # "Sockets"
        BY <2>1, <2>2, <3>1, <3>2, <3>4
      <3> QED
        BY <3>3, <3>4
    <2>4. CASE validate_added
      <3>1. pc = "validate" /\ mutated /\ left' = {} /\ r' = r /\ pc' = pc
        BY <2>4 DEF validate_added, Stop
      <3> QED
        BY <2>1, <3>1
    <2>5. CASE validate_end
      BY <2>1, <2>5 DEF validate_end, list
    <2>6. CASE validate_raises
      BY <2>6 DEF validate_raises, InList
    <2>7. CASE cb_sockets_end
      <3>1. pc = "sockets" /\ sockets = {} /\ pc' = "validate" /\ left' = left \ {"Sockets"} /\ r' = r
        BY <2>1, <2>7 DEF cb_sockets_end, Continue
      <3> QED
        BY <2>1, <3>1
    <2> QED
      BY <2>3, <2>4, <2>5, <2>6, <2>7
  <1> QED
    BY <1>2, <1>3, <1>4, <1>5

\* What process_socket does to the counts, when it adds the environment and when it
\* ends xpcctl.
LEMMA ProcessFacts ==
    ASSUME TypeOK, NEW v, process_socket(v)
    PROVE  /\ r' \in {0, -1} /\ mutated' \in BOOLEAN /\ failed' \in BOOLEAN /\ mine' \in Nat
           /\ pc' \in {pc, "aborted"}
           /\ mutated' /\ ~mutated => v.cls = "dict" /\ Secure(v) /\ ~HasEnv
           /\ pc' # pc => v.cls = "dict" /\ Raises(v)
           /\ GoodSocket(v) /\ ~failed' /\ pc' = pc /\ pc # "aborted" => r' = 0 /\ mine' = mine + 1
           /\ failed => failed'
  <1>1. mine \in Nat /\ r \in {0, -1}
    BY DEF TypeOK
  <1>2. mutated \in BOOLEAN /\ failed \in BOOLEAN
    BY DEF TypeOK
  <1>3. CASE v.cls # "dict" \/ Raises(v) \/ UnknownType(v)
    <2>1. /\ r' \in {0, -1} /\ UNCHANGED <<mutated, failed, mine>>
          /\ pc' \in {pc, "aborted"} /\ (pc' # pc => v.cls = "dict" /\ Raises(v))
      BY <1>1, <1>3 DEF process_socket
    <2>2. GoodSocket(v) => pc' = "aborted"
      BY <1>3 DEF process_socket, GoodSocket
    <2> QED
      BY <1>1, <1>2, <2>1, <2>2
  <1>4. CASE v.cls = "dict" /\ ~Raises(v) /\ ~UnknownType(v)
    <2>1. mutated' = (mutated \/ (Secure(v) /\ ~HasEnv)) /\ pc' = pc
      BY <1>4 DEF process_socket
    <2>2. mutated' \in BOOLEAN /\ (mutated' /\ ~mutated => Secure(v) /\ ~HasEnv)
      BY <1>2, <2>1
    <2>3. \/ ~Unix(v) /\ r' = 0 /\ UNCHANGED <<failed, mine>>
          \/ r' = 0 /\ mine' = mine + 1 /\ UNCHANGED failed
          \/ r' = -1 /\ failed' = TRUE /\ UNCHANGED mine
      BY <1>4 DEF process_socket
    <2>4. r' \in {0, -1} /\ mine' \in Nat
      BY <1>1, <2>3
    <2>5. failed' \in BOOLEAN /\ (failed => failed')
      BY <1>2, <2>3
    <2>6. GoodSocket(v) /\ ~failed' => r' = 0 /\ mine' = mine + 1
      BY <2>3 DEF GoodSocket
    <2> QED
      BY <1>4, <2>1, <2>2, <2>4, <2>5, <2>6
  <1> QED
    BY <1>3, <1>4

\* An exception of process_socket is for a value of the wrong class.
LEMMA RaisesFacts ==
    ASSUME NEW v \in SocketDicts(Plist[file]), Raises(v)
    PROVE  MessageMisses(Plist[file])
  <1>1. CASE \E k \in {"SockType", "SecureSocketWithKey", "SockPathName"} :
                Has(v, k) /\ ~IsString(v.items[k])
    BY <1>1 DEF MessageMisses
  <1>2. CASE ~\E k \in {"SockType", "SecureSocketWithKey", "SockPathName"} :
                Has(v, k) /\ ~IsString(v.items[k])
    <2>1. Secure(v) /\ Env \in DOMAIN Plist[file] /\ Value(Env).cls # "dict"
      BY <1>2 DEF Raises, Secure
    <2> QED
      BY <2>1 DEF MessageMisses, Value
  <1> QED
    BY <1>1, <1>2

LEMMA Enumerated ==
    ASSUME IInv, NEW n \in sockets, cb_sockets(n)
    PROVE  TypeOK' /\ ListInHand' /\ MutatedExplained' /\ SocketOnce'
  <1>0. TypeOK /\ ListInHand /\ MutatedExplained /\ SocketOnce
    BY DEF IInv
  <1> DEFINE v == Value("Sockets").items[n]
             w == v.elems[1]
  <1>1. /\ UNCHANGED <<argv, i, stack, file, left, handed>>
        /\ pc = "sockets" /\ sockets' \subseteq sockets
    BY DEF cb_sockets, walk
  <1>2. /\ "Sockets" \in DOMAIN Plist[file] /\ n \in DOMAIN SocketsOf(Plist[file])
        /\ v = SocketsOf(Plist[file])[n]
    BY <1>0, <1>1 DEF ListInHand, SocketsOf, Value
  <1>3. \/ v.cls = "array" /\ v.elems # <<>> /\ process_socket(w)
        \/ v.cls = "dict" /\ process_socket(v) /\ sockets' = {}
        \/ v.cls # "dict" /\ UNCHANGED <<pc, r, mutated, failed, mine>>
    BY DEF cb_sockets
  <1>4. \/ \E x : process_socket(x) /\ (x.cls = "dict" => x \in SocketDicts(Plist[file]))
        \/ UNCHANGED <<pc, r, mutated, failed, mine>>
    <2>1. v.cls = "array" /\ v.elems # <<>> /\ w.cls = "dict" => w \in SocketDicts(Plist[file])
      BY <1>2 DEF SocketDicts
    <2>2. v.cls = "dict" => v \in SocketDicts(Plist[file])
      BY <1>2 DEF SocketDicts
    <2> QED
      BY <1>3, <2>1, <2>2
  <1>5. /\ r' \in {0, -1} /\ mutated' \in BOOLEAN /\ failed' \in BOOLEAN /\ mine' \in Nat
        /\ pc' \in {"sockets", "aborted"}
    BY <1>0, <1>1, <1>4, ProcessFacts DEF TypeOK
  <1>6. TypeOK'
    BY <1>0, <1>1, <1>5 DEF TypeOK
  <1>7. ListInHand'
    BY <1>0, <1>1, <1>5 DEF ListInHand, InList, Value
  <1>8. MutatedExplained'
    <2>1. ASSUME mutated', ~mutated PROVE AddsEnv(Plist[file])
      <3>1. PICK x : process_socket(x) /\ (x.cls = "dict" => x \in SocketDicts(Plist[file]))
        BY <1>4, <2>1
      <3>2. x.cls = "dict" /\ Secure(x) /\ ~HasEnv
        BY <1>0, <2>1, <3>1, ProcessFacts
      <3> QED
        BY <3>1, <3>2 DEF AddsEnv, HasEnv
    <2>2. ASSUME pc' = "aborted" PROVE MessageMisses(Plist[file])
      <3>1. PICK x : process_socket(x) /\ (x.cls = "dict" => x \in SocketDicts(Plist[file]))
        BY <1>1, <1>4, <2>2
      <3>2. x.cls = "dict" /\ Raises(x)
        BY <1>0, <1>1, <2>2, <3>1, ProcessFacts
      <3> QED
        BY <3>1, <3>2, RaisesFacts
    <2> QED
      BY <1>0, <1>1, <2>1, <2>2 DEF MutatedExplained
  <1>9. SocketOnce'
    <2> SUFFICES ASSUME SoundSockets(Plist[file]), ~failed', pc' = pc
                 PROVE  r' = 0 /\ sockets' = {} /\ mine' = 1
      BY <1>1, <1>5 DEF SocketOnce, InList
    <2>1. GoodSocket(v)
      BY <1>2 DEF SoundSockets
    <2>2. process_socket(v) /\ sockets' = {}
      BY <1>3, <2>1 DEF GoodSocket
    <2>3. failed => failed'
      BY <1>0, <2>2, ProcessFacts
    <2>4. mine = 0
      BY <1>0, <1>1, <2>3 DEF SocketOnce, InList
    <2> QED
      BY <1>0, <1>1, <2>1, <2>2, <2>4, ProcessFacts
  <1> QED
    BY <1>6, <1>7, <1>8, <1>9

LEMMA HandedOver ==
    ASSUME IInv, newXPCObject \/ loadfile_send \/ loadfile_nobus
    PROVE  TypeOK' /\ ListInHand' /\ MutatedExplained' /\ SocketOnce'
  <1>0. TypeOK /\ ListInHand /\ MutatedExplained /\ SocketOnce
    BY DEF IInv
  <1>1. UNCHANGED <<argv, i, stack, file, left, sockets, r, mutated, failed, mine>>
    BY DEF newXPCObject, loadfile_send, loadfile_nobus, walk, list
  <1>4. /\ pc \in {"convert", "send"} /\ pc' \in {"send", "load", "aborted", "nobus"}
        /\ handed' \in {handed, Append(handed, file)}
        /\ pc' = "send" => pc = "convert"
    BY DEF newXPCObject, loadfile_send, loadfile_nobus
  <1>5. file \in Nodes /\ handed \in Seq(Nodes)
    BY <1>0, <1>4 DEF ListInHand, InList, TypeOK
  <1>6. TypeOK'
    <2>1. handed' \in Seq(Nodes)
      <3>1. Append(handed, file) \in Seq(Nodes)
        BY <1>5
      <3> QED
        BY <1>4, <1>5, <3>1
    <2>2. pc' \in {"load", "validate", "sockets", "convert", "send", "done", "aborted", "nobus"}
      BY <1>4
    <2> QED
      BY <1>0, <1>1, <2>1, <2>2 DEF TypeOK
  <1>7. ListInHand' /\ SocketOnce'
    BY <1>0, <1>1, <1>4 DEF ListInHand, SocketOnce, InList
  <1>8. MutatedExplained'
    <2>1. pc' = "aborted" => ~Encodable(Whole(file))
      BY DEF newXPCObject, loadfile_send, loadfile_nobus
    <2> QED
      BY <1>0, <1>1, <2>1 DEF MutatedExplained
  <1> QED
    BY <1>6, <1>7, <1>8

-----------------------------------------------------------------------------
(* The theorems *)

LEMMA InitIInv == Init => IInv
  <1> SUFFICES ASSUME Init PROVE IInv
    OBVIOUS
  <1>1. argv \in Seq(Nodes) /\ Len(argv) \in Nat
    BY TreeAssumption DEF Init
  <1>2. TypeOK
    <2>1. stack \in Seq(SUBSET Entry) /\ handed \in Seq(Nodes)
      BY EmptySeq DEF Init
    <2>2. i \in 1 .. Len(argv) + 1
      BY <1>1 DEF Init
    <2>3. mine \in Nat
      BY DEF Init
    <2> QED
      BY <1>1, <2>1, <2>2, <2>3 DEF Init, TypeOK
  <1>3. ListInHand /\ MutatedExplained /\ SocketOnce
    BY DEF Init, ListInHand, MutatedExplained, SocketOnce, InList
  <1>4. NothingMissed
    <2>1. {argv[a] : a \in i .. Len(argv)} = {argv[a] : a \in DOMAIN argv}
      BY <1>1 DEF Init
    <2>2. ShownIn(stack) = {} /\ Sent = {}
      BY DEF Init, ShownIn, Sent
    <2>3. Pending = {argv[a] : a \in DOMAIN argv}
      BY <2>1, <2>2 DEF Init, Pending
    <2>4. Below(Pending) = Within
      BY <2>3 DEF Within
    <2>5. Pending \in SUBSET Nodes
      BY <1>1, <2>3
    <2>6. Pending \subseteq Below(Pending)
      BY <2>5, BelowFacts
    <2>7. Pending \subseteq Within /\ ListsIn(Within) \subseteq Below(Pending)
      BY <2>4, <2>6 DEF ListsIn
    <2>8. pc # "done"
      BY DEF Init
    <2> QED
      BY <2>2, <2>7, <2>8 DEF NothingMissed
  <1> QED
    BY <1>2, <1>3, <1>4 DEF IInv

LEMMA NextIInv == IInv /\ [Next]_vars => IInv'
  <1> SUFFICES ASSUME IInv, [Next]_vars PROVE IInv'
    OBVIOUS
  <1> DEFINE Goal == TypeOK' /\ ListInHand' /\ MutatedExplained' /\ SocketOnce'
  <1>1. NothingMissed'
    BY MissedStep
  <1>2. ASSUME main_arg \/ loaddir \/ main_end PROVE Goal
    BY <1>2, Walked
  <1>3. ASSUME \/ \E k \in left : validate(k)
               \/ validate_added \/ validate_raises \/ validate_end \/ cb_sockets_end
        PROVE  Goal
    BY <1>3, Validated
  <1>4. ASSUME NEW n \in sockets, cb_sockets(n) PROVE Goal
    BY <1>4, Enumerated
  <1>5. ASSUME newXPCObject \/ loadfile_send \/ loadfile_nobus PROVE Goal
    BY <1>5, HandedOver
  <1>6. ASSUME UNCHANGED vars PROVE Goal
    BY <1>6 DEF vars, walk, list, IInv, TypeOK, ListInHand, MutatedExplained,
                SocketOnce, Value
  <1> QED
    BY <1>1, <1>2, <1>3, <1>4, <1>5, <1>6 DEF Next, IInv

\* IInv holds in every state xpcctl can be in.
THEOREM Invariance == Spec => []IInv
  BY InitIInv, NextIInv, PTL DEF Spec

\* When xpcctl is done, it has sent the property lists below its arguments.
THEOREM AllSent == Spec => []EveryListSent
  <1>1. IInv => EveryListSent
    <2> SUFFICES ASSUME IInv, pc = "done" PROVE Sent = ListsIn(Within)
      BY DEF EveryListSent, Sent, ListsIn
    <2>1. Below({}) \subseteq {}
      BY BelowFacts DEF Closed
    <2> QED
      BY <2>1 DEF IInv, NothingMissed
  <1> QED
    BY <1>1, Invariance, PTL

\* A sound list goes out with one descriptor.
THEOREM OneSocket == Spec => []SocketOpened
  <1>1. IInv => SocketOpened
    BY DEF IInv, SocketOnce, SocketOpened, SoundSockets, InList
  <1> QED
    BY <1>1, Invariance, PTL

\* What a list that ends xpcctl holds: a value, at any depth, that has no XPC type, or
\* a socket that process_socket cannot take.
THEOREM Aborts == Spec => []AbortExplained
  <1>1. IInv => AbortExplained
    <2> SUFFICES ASSUME IInv, pc = "aborted" PROVE AbortExplained
      BY DEF AbortExplained
    <2>1. CASE ~Encodable(Whole(file))
      BY <2>1 DEF Encodable, HoldsUntyped, AbortExplained
    <2>2. CASE AddsEnv(Plist[file]) \/ MessageMisses(Plist[file])
      BY <2>2 DEF AddsEnv, MessageMisses, Has, IsString, AbortExplained
    <2> QED
      BY <2>1, <2>2 DEF IInv, MutatedExplained
  <1> QED
    BY <1>1, Invariance, PTL

=============================================================================
