------------------------------- MODULE Xpcctl -------------------------------
(***************************************************************************)
(* xpcctl: loading property lists (Main.m).  One process walks its         *)
(* arguments, files and directories; for each property list it validates   *)
(* the entries, opens the sockets among them, turns the list into an XPC   *)
(* object (the newXPCObject methods of XPC.m) and sends that.              *)
(*                                                                         *)
(* The enumeration order of an NSDictionary and of readdir is arbitrary,   *)
(* and socket and unlink may fail.  Values are records with a class cls,   *)
(* and trees: an array has its elements in elems, a dictionary its values  *)
(* by key in items, a string its text; "oddnumber" is an NSNumber whose    *)
(* objCType newXPCObject does not know.  A message that the class of a     *)
(* value does not understand raises an exception, which ends the process;  *)
(* a list that is mutated while it is enumerated may raise one, or not.    *)
(***************************************************************************)
EXTENDS Integers, Sequences, FiniteSets

CONSTANTS Kind,     \* of each node: "plist", "bad" (unreadable, unparsable or
                    \* not a dictionary), "dir", "closed", "gone" or "other"
          Entries,  \* of each directory: records of a node and whether its
                    \* name begins with a dot
          Plist,    \* of each property list: its entries by key
          Args,     \* the possible values of argv
          MaxDepth, \* bound on the nesting of directories
          MaxNesting  \* bound on the nesting of the values in a list

Nodes == DOMAIN Kind

Entry == [node : Nodes, hidden : BOOLEAN]

\* What the file system holds: directories of files, property lists, and
\* arguments that name files.
ASSUME TreeAssumption ==
    /\ \A n \in Nodes : Kind[n] \in {"plist", "bad", "dir", "closed", "gone", "other"}
    /\ \A n \in Nodes : Kind[n] = "dir" => Entries[n] \subseteq Entry
    /\ Args \subseteq Seq(Nodes)
    /\ MaxDepth \in Nat

\* A whole property list, which is a dictionary.
Whole(n) == [cls |-> "dict", items |-> Plist[n]]

\* What is in a value, one level down.
Held(v) ==
    CASE v.cls = "array" -> {v.elems[a] : a \in DOMAIN v.elems}
      [] v.cls = "dict" -> {v.items[k] : k \in DOMAIN v.items}
      [] OTHER -> {}

\* The value and all that is in it, at every level.
Parts(v) ==
    LET level[d \in 0 .. MaxNesting] ==
            IF d = 0 THEN {v} ELSE UNION {Held(x) : x \in level[d - 1]}
    IN  UNION {level[d] : d \in 0 .. MaxNesting}

\* No list is nested deeper than MaxNesting.
ASSUME NestingAssumption ==
    /\ MaxNesting \in Nat
    /\ \A n \in Nodes : Kind[n] = "plist" =>
          \A x \in Parts(Whole(n)) : Held(x) \subseteq Parts(Whole(n))

\* What process_socket adds to a list replaces nothing that matters: there is no
\* FileDescriptor in it, and the variables of an environment are strings.
ASSUME AdditionAssumption ==
    \A n \in Nodes : Kind[n] = "plist" =>
       /\ \A x \in Parts(Whole(n)) : x.cls = "dict" => "FileDescriptor" \notin DOMAIN x.items
       /\ "UserEnvironmentVariables" \in DOMAIN Plist[n] =>
             \A x \in Held(Plist[n]["UserEnvironmentVariables"]) : x.cls = "string"

VARIABLES
    argv, i,  \* the arguments, and the next one to load
    stack,    \* for each loaddir under way, what readdir has still to return
    pc, file,
    left,     \* keys that validate has still to enumerate
    sockets,  \* entries that cb_sockets has still to enumerate
    r,        \* what validate returns if it stops now
    mutated,  \* the list was changed while validate enumerates it
    failed,   \* history: a system call failed for this list
    mine,     \* FileDescriptor values put into this list
    handed    \* the files handed to xpc_connection_send_message, in order

walk == <<argv, i, stack>>
list == <<file, left, sockets, r, mutated, failed, mine>>
vars == <<walk, pc, list, handed>>

TypeOK ==
    /\ argv \in Seq(Nodes) /\ i \in 1 .. Len(argv) + 1
    /\ stack \in Seq(SUBSET Entry)
    /\ pc \in {"load", "validate", "sockets", "convert", "send", "done", "aborted", "nobus"}
    /\ file \in Nodes \cup {"none"}
    /\ r \in {0, -1}
    /\ mutated \in BOOLEAN /\ failed \in BOOLEAN
    /\ mine \in Nat
    /\ handed \in Seq(Nodes)

Init ==
    /\ argv \in Args /\ i = 1 /\ stack = <<>>
    /\ pc = "load" /\ file = "none"
    /\ left = {} /\ sockets = {} /\ r = 0
    /\ mutated = FALSE /\ failed = FALSE /\ mine = 0
    /\ handed = <<>>

-----------------------------------------------------------------------------
(* load, loaddir, loadfile up to parsefile *)

\* load(n), after the caller's place is saved in i' and in s.
load(n, s) ==
    \/ /\ Kind[n] \in {"gone", "other", "bad", "closed"}
       /\ stack' = s
       /\ UNCHANGED <<pc, list>>
    \/ /\ Kind[n] = "dir"
       /\ Len(s) < MaxDepth
       /\ stack' = Append(s, Entries[n])
       /\ UNCHANGED <<pc, list>>
    \/ /\ Kind[n] = "plist"
       /\ stack' = s
       /\ pc' = "validate" /\ file' = n
       /\ left' = DOMAIN Plist[n] /\ sockets' = {} /\ r' = 0
       /\ mutated' = FALSE /\ failed' = FALSE /\ mine' = 0

main_arg ==
    /\ pc = "load" /\ stack = <<>> /\ i <= Len(argv)
    /\ i' = i + 1
    /\ load(argv[i], stack)
    /\ UNCHANGED <<argv, handed>>

main_end ==
    /\ pc = "load" /\ stack = <<>> /\ i > Len(argv)
    /\ pc' = "done"
    /\ UNCHANGED <<walk, list, handed>>

Upper == SubSeq(stack, 1, Len(stack) - 1)

\* Mutant: the directory is left at the first name that begins with a dot.
loaddir_hidden_break(e) ==
    /\ e.hidden
    /\ stack' = Append(Upper, {})
    /\ UNCHANGED <<argv, i, pc, list>>

loaddir_hidden(e) ==
    /\ e.hidden
    /\ stack' = Append(Upper, stack[Len(stack)] \ {e})
    /\ UNCHANGED <<argv, i, pc, list>>

\* Mutant: names that begin with a dot are loaded too.
loaddir_entry_any(e) ==
    /\ load(e.node, Append(Upper, stack[Len(stack)] \ {e}))
    /\ UNCHANGED <<argv, i>>

loaddir_entry(e) ==
    /\ ~e.hidden
    /\ load(e.node, Append(Upper, stack[Len(stack)] \ {e}))
    /\ UNCHANGED <<argv, i>>

loaddir ==
    /\ pc = "load" /\ stack # <<>>
    /\ \/ \E e \in stack[Len(stack)] : loaddir_hidden(e) \/ loaddir_entry(e)
       \/ /\ stack[Len(stack)] = {}
          /\ stack' = Upper
          /\ UNCHANGED <<argv, i, pc, list>>
    /\ UNCHANGED handed

-----------------------------------------------------------------------------
(* validate *)

\* The entries of the table, with the class each asks for.
Schema ==
    [Label |-> "string", Disabled |-> "number", UserName |-> "string",
     GroupName |-> "string", inetdCompatibility |-> "dict", Program |-> "string",
     ProgramArguments |-> "array", ServiceIPC |-> "number", Sockets |-> "dict"]

Required == {"Label"}

IsKind(v, cls) == v.cls = cls \/ (cls = "number" /\ v.cls = "oddnumber")

cb_progargs(v) == IF \A a \in DOMAIN v.elems : v.elems[a].cls = "string" THEN 0 ELSE -1

Value(k) == Plist[file][k]

\* The enumeration stops, with result x.
Stop(x) == left' = {} /\ r' = x

\* Mutant: a callback's result of 0 stops the enumeration, as in cb_sockets.
Continue_le(k, x) == IF x <= 0 THEN Stop(x) ELSE left' = left \ {k} /\ r' = x

\* After a callback that returned x.
Continue(k, x) == IF x < 0 THEN Stop(x) ELSE left' = left \ {k} /\ r' = x

validate(k) ==
    /\ pc = "validate" /\ k \in left
    /\ \/ /\ k \notin DOMAIN Schema
          /\ Stop(r)
          /\ UNCHANGED <<pc, sockets>>
       \/ /\ k \in DOMAIN Schema /\ ~IsKind(Value(k), Schema[k])
          /\ Stop(-1)
          /\ UNCHANGED <<pc, sockets>>
       \/ /\ k \in DOMAIN Schema /\ IsKind(Value(k), Schema[k])
          /\ IF k = "Sockets"
             THEN pc' = "sockets" /\ sockets' = DOMAIN Value(k).items
                  /\ r' = 0 /\ UNCHANGED left
             ELSE /\ IF k = "ProgramArguments" THEN Continue(k, cb_progargs(Value(k)))
                     ELSE left' = left \ {k} /\ UNCHANGED r
                  /\ UNCHANGED <<pc, sockets>>
    /\ UNCHANGED <<walk, file, mutated, failed, mine, handed>>

\* The enumeration meets the environment that process_socket added, which is not
\* in the table.
validate_added ==
    /\ pc = "validate" /\ mutated /\ left # {}
    /\ Stop(r)
    /\ UNCHANGED <<walk, pc, file, sockets, mutated, failed, mine, handed>>

\* The enumeration of a list that was changed raises an exception.
validate_raises ==
    /\ pc = "validate" /\ mutated
    /\ pc' = "aborted"
    /\ UNCHANGED <<walk, list, handed>>

\* parsefile does not look at the result.
validate_end ==
    /\ pc = "validate" /\ left = {}
    /\ pc' = "convert"
    /\ UNCHANGED <<walk, list, handed>>

-----------------------------------------------------------------------------
(* Sockets *)

Env == "UserEnvironmentVariables"

Has(v, k) == k \in DOMAIN v.items

IsString(v) == v.cls = "string"

SockTypes == {"dgram", "seqpacket", "stream"}

UnknownType(v) ==
    Has(v, "SockType") /\ IsString(v.items["SockType"])
       /\ v.items["SockType"].text \notin SockTypes

Secure(v) == Has(v, "SecureSocketWithKey")

Unix(v) == Secure(v) \/ Has(v, "SockPathName")

HasEnv == Env \in DOMAIN Plist[file] \/ mutated

\* process_socket sends a message to a value whose class it has not looked at: it
\* takes the type, the key and the path for strings, and the environment, if the
\* list has one of its own, for a dictionary.
Raises(v) ==
    IF Has(v, "SockType") /\ ~IsString(v.items["SockType"]) THEN TRUE
    ELSE IF UnknownType(v) THEN FALSE
    ELSE IF Secure(v)
         THEN \/ ~IsString(v.items["SecureSocketWithKey"])
              \/ Env \in DOMAIN Plist[file] /\ Value(Env).cls # "dict"
         ELSE Has(v, "SockPathName") /\ ~IsString(v.items["SockPathName"])

\* process_socket on v.  A secure socket is put into the environment of the job,
\* which is added to the list if it is not there.
process_socket(v) ==
    IF v.cls # "dict"
    THEN r' = -1 /\ UNCHANGED <<pc, mutated, failed, mine>>
    ELSE IF Raises(v)
    THEN pc' = "aborted" /\ UNCHANGED <<r, mutated, failed, mine>>
    ELSE IF UnknownType(v)
    THEN r' = -1 /\ UNCHANGED <<pc, mutated, failed, mine>>
    ELSE /\ mutated' = (mutated \/ (Secure(v) /\ ~HasEnv))
         /\ \/ ~Unix(v) /\ r' = 0 /\ UNCHANGED <<failed, mine>>
            \/ Unix(v) /\ r' = 0 /\ mine' = mine + 1 /\ UNCHANGED failed
            \* socket or unlink fails
            \/ Unix(v) /\ r' = -1 /\ failed' = TRUE /\ UNCHANGED mine
         /\ UNCHANGED pc

\* One entry of the dictionary of sockets.  process_socket never returns more
\* than 0, so the loop over an array stops after its first element, and the
\* enumeration of the dictionary after an entry that is a dictionary; an array
\* does not stop it, for its loop has a stop of its own.
cb_sockets(n) ==
    LET v == Value("Sockets").items[n]
    IN  /\ pc = "sockets" /\ n \in sockets
        /\ \/ /\ v.cls = "array" /\ v.elems # <<>>
              /\ process_socket(v.elems[1])
              /\ sockets' = sockets \ {n}
           \/ /\ v.cls = "dict"
              /\ process_socket(v)
              /\ sockets' = {}
           \/ /\ v.cls \notin {"array", "dict"} \/ (v.cls = "array" /\ v.elems = <<>>)
              /\ sockets' = sockets \ {n}
              /\ UNCHANGED <<pc, r, mutated, failed, mine>>
        /\ UNCHANGED <<walk, file, left, handed>>

cb_sockets_end ==
    /\ pc = "sockets" /\ sockets = {}
    /\ pc' = "validate"
    /\ Continue("Sockets", r)
    /\ UNCHANGED <<walk, file, sockets, mutated, failed, mine, handed>>

-----------------------------------------------------------------------------
(* newXPCObject and the rest of loadfile *)

\* Mutant: an entry of a dictionary is not asked whether it responds.
Encodable_unasked(v) ==
    \A x \in Parts(v) : x.cls \notin {"oddnumber", "date"}

\* newXPCObject converts the arrays and dictionaries in a list down to the last
\* level.  A number it has no type for gives NULL, which the caller inserts all
\* the same; a date, which does not respond to newXPCObject, is left out of a
\* dictionary, and in an array is sent it all the same.  The strings and descriptors
\* that process_socket has added are encodable (AdditionAssumption).
Encodable(v) ==
    \A x \in Parts(v) :
       /\ x.cls # "oddnumber"
       /\ x.cls = "array" => \A y \in Held(x) : y.cls # "date"

newXPCObject ==
    /\ pc = "convert"
    /\ pc' = IF Encodable(Whole(file)) THEN "send" ELSE "aborted"
    /\ UNCHANGED <<walk, list, handed>>

\* The first connection finds no session bus: exit(1), or libdbus aborts when the
\* message is sent (see XpcConnection).
loadfile_nobus ==
    /\ pc = "send" /\ handed = <<>>
    /\ pc' = "nobus"
    /\ UNCHANGED <<walk, list, handed>>

\* Connect and send; the object, the connection and the descriptors stay.
loadfile_send ==
    /\ pc = "send"
    /\ handed' = Append(handed, file)
    /\ pc' = "load"
    /\ UNCHANGED <<walk, list>>

Next ==
    \/ main_arg \/ loaddir \/ main_end
    \/ \E k \in left : validate(k)
    \/ validate_added \/ validate_raises \/ validate_end
    \/ \E n \in sockets : cb_sockets(n)
    \/ cb_sockets_end
    \/ newXPCObject \/ loadfile_send \/ loadfile_nobus

Spec == Init /\ [][Next]_vars

\* The process is scheduled; reading and sending come back (see XpcConnection).
FairSpec == Spec /\ WF_vars(Next)

-----------------------------------------------------------------------------
(* Properties *)

\* S holds, with a directory, what its names without a dot name.
Closed(S) ==
    \A n \in S : Kind[n] = "dir" => \A e \in Entries[n] : ~e.hidden => e.node \in S

\* What is in every closed set that holds P: the nodes at or below those of P.
Below(P) == LET over == {S \in SUBSET Nodes : P \subseteq S /\ Closed(S)}
            IN  {n \in Nodes : \A S \in over : n \in S}

\* The nodes that loading the arguments loads, from the directory structure:
\* names with a dot, and what cannot be opened, are left out.
Within == Below({argv[a] : a \in DOMAIN argv})

\* When xpcctl is done it has handed over every property list below its arguments,
\* valid or not, and nothing else, in whatever order the directories were read
\* (Main.m, load and loaddir).  That it is really sent is not implied: see
\* PassiveIsListener in XpcConnection.
EveryListSent ==
    pc = "done" =>
       {handed[a] : a \in DOMAIN handed} = {n \in Within : Kind[n] = "plist"}

\* The entries agree with the schema, and so do the arguments.
WellFormed(p) ==
    /\ DOMAIN p \subseteq DOMAIN Schema
    /\ Required \subseteq DOMAIN p
    /\ \A k \in DOMAIN p : IsKind(p[k], Schema[k])
    /\ "ProgramArguments" \in DOMAIN p => cb_progargs(p["ProgramArguments"]) = 0

SocketsOf(p) ==
    IF "Sockets" \in DOMAIN p /\ p["Sockets"].cls = "dict" THEN p["Sockets"].items ELSE <<>>

\* A socket with a path and no unknown type.
GoodSocket(v) == v.cls = "dict" /\ Unix(v) /\ ~UnknownType(v)

\* A well-formed list whose sockets are sound goes out with a descriptor, in
\* whatever order the entries are enumerated, unless a system call failed; with
\* one only, if no entry is an array (validate, cb_sockets).
SocketOpened ==
    LET p == Plist[file]
        s == SocketsOf(p)
    IN  pc = "send" /\ WellFormed(p) /\ ~failed /\ DOMAIN s # {}
          /\ (\A n \in DOMAIN s : GoodSocket(s[n]))
        => mine = 1

\* Somewhere in the list, at any depth, is a number that has no XPC type, or an
\* array with a date in it.
HoldsUntyped(n) ==
    \E x \in Parts(Whole(n)) :
       x.cls = "oddnumber" \/ (x.cls = "array" /\ \E y \in Held(x) : y.cls = "date")

\* The dictionaries that process_socket may be given.
SocketDicts(p) ==
    LET s == SocketsOf(p)
        first == {IF s[n].cls = "array" /\ s[n].elems # <<>> THEN s[n].elems[1] ELSE s[n] :
                     n \in DOMAIN s}
    IN  {v \in first : v.cls = "dict"}

\* A list can end xpcctl only by what it holds: a value that cannot be converted, a
\* socket with another value where a string belongs, or a secure socket without an
\* environment that is a dictionary; an environment is then added while the list
\* is enumerated (newXPCObject, process_socket).  In particular a date in a
\* dictionary does not, nor a key not in the table, nor a wrong class anywhere else.
AbortExplained ==
    pc = "aborted" =>
       LET p == Plist[file]
       IN  \/ HoldsUntyped(file)
           \/ \E v \in SocketDicts(p) :
                 \/ \E k \in DOMAIN v.items :
                       /\ k \in {"SockType", "SecureSocketWithKey", "SockPathName"}
                       /\ v.items[k].cls # "string"
                 \/ Secure(v) /\ ~(Env \in DOMAIN p /\ p[Env].cls = "dict")

\* Loading ends.
Ends == <>(pc \in {"done", "aborted", "nobus"})

-----------------------------------------------------------------------------
(* The invariant that makes the safety properties inductive *)

InList == {"validate", "sockets", "convert", "send"}

\* A property list is in hand, and what is still to be enumerated is in it.
ListInHand ==
    /\ pc \in InList => file \in Nodes /\ Kind[file] = "plist"
    /\ left # {} => left \subseteq DOMAIN Plist[file]
    /\ pc = "sockets" => /\ "Sockets" \in DOMAIN Plist[file]
                         /\ Value("Sockets").cls = "dict"
                         /\ sockets \subseteq DOMAIN Value("Sockets").items

\* What AbortExplained says of the sockets of a list.
AddsEnv(p) == \E v \in SocketDicts(p) : Secure(v) /\ Env \notin DOMAIN p

MessageMisses(p) ==
    \E v \in SocketDicts(p) :
       \/ \E k \in {"SockType", "SecureSocketWithKey", "SockPathName"} :
             Has(v, k) /\ ~IsString(v.items[k])
       \/ Secure(v) /\ Env \in DOMAIN p /\ p[Env].cls # "dict"

MutatedExplained ==
    /\ mutated => AddsEnv(Plist[file])
    /\ pc = "aborted" => \/ ~Encodable(Whole(file))
                         \/ AddsEnv(Plist[file]) \/ MessageMisses(Plist[file])

SoundSockets(p) ==
    /\ WellFormed(p)
    /\ DOMAIN SocketsOf(p) # {}
    /\ \A n \in DOMAIN SocketsOf(p) : GoodSocket(SocketsOf(p)[n])

\* Where a sound list stands: its one socket is opened when the enumeration gets
\* to "Sockets", and nothing stops the enumeration before.
SocketOnce ==
    pc \in InList /\ SoundSockets(Plist[file]) /\ ~failed =>
       /\ r = 0
       /\ pc = "validate" => IF "Sockets" \in left THEN mine = 0 /\ ~mutated ELSE mine = 1
       /\ pc = "sockets" => IF sockets = {} THEN mine = 1
                            ELSE mine = 0 /\ sockets = DOMAIN SocketsOf(Plist[file])
       /\ pc \in {"convert", "send"} => mine = 1

\* The nodes of the entries in S whose names have no dot.
Shown(S) == {e.node : e \in {x \in S : ~x.hidden}}

ShownIn(s) == UNION {Shown(s[d]) : d \in DOMAIN s}

\* The nodes xpcctl still has to load, or is loading, or was when it ended.
Pending ==
    {argv[a] : a \in i .. Len(argv)}
    \cup ShownIn(stack)
    \cup IF pc \in {"load", "done"} THEN {} ELSE {file}

Sent == {handed[a] : a \in DOMAIN handed}

ListsIn(S) == {n \in S : Kind[n] = "plist"}

\* Nothing is loaded but what is below the arguments, and each list that is there
\* is sent or below what is still to be loaded.
NothingMissed ==
    /\ Pending \subseteq Within
    /\ Sent \subseteq ListsIn(Within)
    /\ ListsIn(Within) \subseteq Sent \cup Below(Pending)
    /\ pc = "done" => Pending = {}

IInv ==
    /\ TypeOK
    /\ ListInHand /\ MutatedExplained /\ SocketOnce /\ NothingMissed

=============================================================================
