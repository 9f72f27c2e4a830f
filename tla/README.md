# A TLA+ model of OpenXPC

OpenXPC is a reimplementation of Apple's XPC on D-Bus: a library of
reference-counted objects and of connections that carry them (`libOpenXPC`), a
provisional manager daemon (`xpcd`) and a client that loads property lists
(`xpcctl`).  This directory models the parts that carry the program's own logic,
checks them with TLC on small instances, and proves the most important results
with TLAPS for every instance.

## 1. The system

| Component | State it keeps | Operations | Interacts with |
|---|---|---|---|
| Object store (`xpc_type.c`, `xpc_array.c`, `xpc_dictionary.c`, `xpc_misc.c`) | for each object: type, `xo_refcnt`, `xo_size`, the tail queue of its pairs or elements | create, set/append/get, typed setters and getters, apply, retain, release, destroy | called by everything else, from any thread; only `xo_refcnt` is updated atomically |
| Conversions (`xpc_copy`, `xpc_hash`, the typed getters, `xpc_copy_description`, `append_xpc`, `deserialise_*`) | none | copy, hash, read, describe, serialise, deserialise | walk the object store, produce and read D-Bus messages |
| Connections (`xpc_dbus.c`) | `conn_bus`, one per process; name, bus and `passive` of each connection | create (connect, request the name), send | libdbus, the bus, other processes |
| Manager (`xpcd/main.cc`) | `kq`, `should_exit`, the disposition of SIGINT, the batch of events being dispatched | set-up, bootstrap, the event loop, `event_cb` | kernel queue; jobs |
| Job (`xpcd/job.cc`, `procutil.c`) | `waitfd`, the subprocess | `exec` (pipe, fork, attach a filter, release the subprocess), `setup_subproc`, `event_cb` | shares a pipe with the subprocess; the manager's kernel queue |
| Bridge (`xpcctl/XPC.m`) | none | `newXPCObject` of the Foundation classes | builds trees in the object store |
| Loader (`xpcctl/Main.m`) | a property list, the descriptors of its sockets, the directories it is in | validate, process sockets, load files and directories | bridge, connections |
| Tail queues (`compat_queue.h`) | heads and links | insert, remove, replace, concatenate, the loops | the pairs and elements of containers |
| `libsbuf` | a buffer, its owner, its drain, an error, a section | append, print, drain, extend, trim, sections, finish, delete | descriptions are printed into a buffer that extends itself |
| `log.c` | none | expand `%m`, format, print | used by all programs |

What is hard in it:

* **Ownership.**  Setting a value into a container retains it, but destroying the
  container destroys the value without a look at its count.  The typed setters
  and the deserialiser set values they never release, the Foundation bridge
  releases them.  `get_value` lends a pointer without a reference.  Overwriting a
  key neither releases nor retains.  That this works at all depends on what
  callers do, and in which order, on several threads.
* **Two processes and signals.**  `Job::exec` and the subprocess meet on a pipe;
  either may be killed at any moment, every call may fail and most failures are
  not tested for.  SIGINT may arrive between any two calls.
* **Agreement between tables.**  `xpc_dbus_type`, `append_xpc` and
  `deserialise_object` must agree on the wire type of every XPC type at every
  depth; `xpc_copy` and `xpc_hash` have type lists of their own.
* **Names, threads and a bus that notices late.**  All threads of a process share
  `conn_bus` and its names, a name outlives the listener connection that asked for
  it, who is refused a name is queued for it, and a sender blocks.
* **Orders nobody chose.**  `validate` enumerates a dictionary, may stop early and
  may change what it enumerates; a destructor's loop frees the element it stands
  on; a drain takes as much of a buffer as it likes, or fails.
* **Failures that are ignored**, in `setup_xpc`, `xpc_copy` and `newXPCObject`.

`PROJECT.json` lists these hazards one by one, at the lines where they bite, with
the properties that would catch them.

### What makes each part correct

* Object store: no use after free, each object freed once, exact counts, no
  leaks, no object revived after its last release.
* Conversions: what arrives is what was sent; a copy equals its original; equal
  objects have equal hashes.
* Manager and job: no signal is lost, the job runs only when it is watched, its
  exit is reported, the pipe is closed when the launch is over.
* Connections: at most one listener for a name, which keeps it while it lives; a
  message goes to a process that has to do with its name; a blocked sender is let go.
* Tail queues: the links of a queue stand for one sequence, forwards and backwards;
  each macro does to it what its name says, and nothing to other queues.
* String buffers: the string and its terminator stay inside the buffer, nothing is
  lost, doubled or reordered on the way to the drain, blocks are freed once, sections
  are measured exactly.
* Loader: a well-formed list opens its socket in whatever order it is read, only a
  few kinds of lists can end it early, every list below the arguments and nothing
  else is handed on, and loading ends.

## 2. Modules

| Module | What it is |
|---|---|
| `XpcObject` | the object store and its callers |
| `MCXpcObject` | symmetry sets for TLC |
| `XpcObjectProofs` | the theorems about it |
| `XpcValue` | copy, hash, getters, descriptions and serialisation as operators |
| `XpcValueSpec` | the objects callers build, the reference definitions, the properties |
| `MCXpcValue` | the values that are tried |
| `XpcValueProofs` | the theorems about it |
| `Xpcd` | the manager, the job's subprocess, the kernel and the environment |
| `MCXpcd` | the inherited descriptors that are tried |
| `XpcdProofs` | the theorems about it |
| `ListSpec` | what tail queues promise: sequences, and what each macro does to them |
| `Tailq` | the macros and the loops, link by link; it implements `ListSpec` |
| `MCTailq` | what the links of fresh elements hold |
| `TailqProofs` | the theorems about it |
| `NameService` | what listeners promise: one per name, which hands over through nobody |
| `XpcConnection` | connections in processes and threads, and the bus; it implements `NameService` |
| `MCXpcConnection` | which thread is in which process |
| `XpcConnectionProofs` | the theorems about it |
| `Sbuf` | one string buffer, its drain and its caller |
| `MCSbuf` | the strings that are appended |
| `SbufProofs` | the theorems about it |
| `Xpcctl` | the loader: arguments, directories, property lists, sockets |
| `MCXpcctl` | a directory tree with property lists |
| `XpcctlProofs` | the theorems about it |
| `NatFacts` | least elements, induction on natural numbers, stated of sets, and recursion on them, for the proofs |

`XpcObject` takes dictionaries and arrays as sequences: that is `ListSpec`, which
`Tailq` implements.  `Xpcctl` takes a connection as something that either ends the
process or takes the message: that is what `XpcConnection` shows.

### XpcObject

`xtype`, `refcnt`, `size` and `list` are the fields of `struct xpc_object`; an
address whose `xtype` is `"free"` can be given out again by malloc.  A *handle*
is a reference a caller owns; `path[h]` is the chain of pointers the caller read
out of it with `get_value`, and is dropped with the reference.  Handles may
belong to one thread or to many: every step of every handle may come between any
two steps of the others.  `stack[h]` holds the frames of the recursive
`xpc_object_destroy` that the release of `h` started; each iteration of a
destroy loop is a step of its own.

| Action | Code |
|---|---|
| `xpc_prim_create`, `xpc_dictionary_create`, `xpc_array_create` | the creators, through `_xpc_prim_create_flags` |
| `newXPCObject_dict`, `newXPCObject_array` | one pair or element of the bridge: create elsewhere, set, release |
| `deserialise_dict`, `deserialise_arr` | one pair or element of the deserialiser: set, no release |
| `xpc_dictionary_set_typed`, `xpc_array_append_typed`, `xpc_array_set_typed` | the typed setters: create, set, no release |
| `xpc_dictionary_get_value`, `xpc_array_get_value` | the getters, with the bound tests of the code |
| `xpc_retain`, `xpc_release` | the atomic updates and the test on the new value |
| `destroy_child`, `free_object` | the loops and the end of `xpc_object_destroy` |

Callers are limited to what the callers in the repository do.  `Practices` names
three ways of going beyond it, each checked by a run of its own.  Accesses to one
container by two threads at once are outside the model: the code has no lock, so
callers must serialise them.

`xo_refcnt` is a `uint32_t`; the model counts modulo `RefMod`, and the assumption
`RefModAssumption` says that there are never so many references at once.

### XpcValue

A value is a record: type, the bytes of the union (or the string or data it
points to) and the pairs or elements.  A word is two digits of `HalfBits` bits, so
that a bool or a descriptor can leave the other half as it was on the stack (`Junk`);
a hash is the set of its bits that are one.  `NULL` and `Crash` are results.
libdbus is modelled by what the code relies on: an array is a list of variants, a
variant declares a signature, and a call that appends bytes outside an array is
refused.  `deserialise_message` hands its iterator to `deserialise_object` by
value; the model takes it as the pointer that the parameter's type requires.

The functions of the code that call themselves for the elements of a container are
recursive functions of the depth: `Values[n]` are the values nested at most n deep, and
`AtDepth` makes of the body of a function (`copy_with`, `hash_with`, `append_with`, ...),
which is given the function for the elements, the function on the values of each depth.
`xpc_apply_fun` is the loop of `xpc_dictionary_apply_fun` and `xpc_array_apply_fun`: it
hands on what the applier made of `udata`.

`XpcValueSpec` has one variable, an object as calls of the constructors and setters build
it (`SetPair`, `AppendElement`, `Nest`), and states each property of it.

`get_value` is the union as the typed getters read it, `dictionary_get` and
`array_get` look an entry up first, with the tests of the code: a getter answers
its default for no object, an entry that is missing or one of another type, except
that of a double, which crashes on `NULL`, and except that an array answers at index
0 only, as its `xo_size` stays 0.  `xpc_copy_description_level`
is the list of the entries it prints, each with its padding, its label, its type and its
text, and `xpc_copy_description` the list of the physical lines that these make: keys and
strings are printed as they are, so that a newline in one makes further lines, raw ones,
and a quotation mark in a key may end its label early.  `DescriptionShowsStructure` is
therefore stated of objects without these (`Legible`); with them it is false.

### Xpcd

`mpc` is where the manager is; each system call is a step, and each that can fail
has a step for the failure.  `child` is the stage of the subprocess.  `mfds` and
`cfds` are the two descriptor tables, `rd` and `wr` are `waitfd`, `bytes` what is
in the pipe.  `watched`, `proc` and `active` are the kernel queue: the signal
filter, the process filter, the notes not yet delivered.  `fate`, `interrupted`
and `seen` are history.

| Action | Code |
|---|---|
| `main_kqueue`, `kqueue_signal` | `Manager::main` up to line 90; filter and disposition are two steps |
| `exec_pipe` ... `exec_close_wr` | `Job::exec` in the parent, one step per call |
| `main_kevent`, `main_kevent_interrupted`, `main_dispatch`, `main_return` | the main loop; a batch is dispatched event by event, in any order of the filters |
| `exec_child_read`, `close_fds_except`, `setup_subproc_execve` | the subprocess |
| `interrupt`, `terminate`, `child_over`, `child_forks` | the environment |

`pipe` is not checked by the code, so when it fails `waitfd` holds what was on
the stack: the model takes any open descriptor or none.  `NDebug` says whether
`assert` is compiled in.  A kernel queue is not inherited by a subprocess.

### Tailq and ListSpec

A field that holds an element (`tqh_first`, `tqe_next`) is `next` of its owner; a
field that holds the address of such a field (`tqh_last`, `tqe_prev`) holds that
owner, in `last` and `prev`.  `on[e]` is the queue an element was put into, as its
callers know it; `call` is the macro invoked last, which both modules have, so that
the refinement is about each macro and not only about what some macro might do.

| Action | Code |
|---|---|
| `TAILQ_INSERT_HEAD`, `_TAIL`, `_AFTER`, `_BEFORE`, `TAILQ_REMOVE`, `TAILQ_REPLACE`, `TAILQ_CONCAT` | the macros |
| `TAILQ_FOREACH`, `foreach_next`, `loop_end` | the searches, `apply` and the hash, one step per iteration |
| `TAILQ_FOREACH_SAFE`, `drain_body`, `drain_next` | the destructors' loops; between the body and the increment, and between iterations, other queues are worked on, and the freed element may be put into one |

The queue a loop is on is left alone by everyone else: the code has no lock, and
callers must serialise accesses to one container.

### XpcConnection and NameService

`proc` says whether a process is up, has ended, or has ended and the bus knows;
`conn_bus` is the static of each process, `pc` and `arg` where each thread is, `conn`
the `struct _xpc_connection_s` at each address, `owners` the queue of owners of each
name on the bus, `call` the method call a blocked thread waits for.

| Action | Code |
|---|---|
| `create_begin`, `setup_test`, `setup_get`, `setup_exit` | the creator up to the return of `setup_xpc`: the test of `conn_bus` and the call of `dbus_bus_get` are two steps, and failure is not looked at |
| `request_name`, `request_fails`, `request_refused`, `create_end` | the name of a listener; all replies but PRIMARY_OWNER end the process |
| `xpc_connection_send_message`, `send_return` | the blocking call, from the tests to the return |
| `xpc_release` | destroying a connection, which leaves its name |
| `bus_route`, `peer_answers`, `bus_disconnect`, `killed` | external: libdbus, the bus, peers, signals |

### Sbuf

`text` is the string in `s_buf`, `s_size`, `s_error`, `s_sect_len` and `flags` are the
fields of `struct sbuf`.  A call that loops is taken apart (`pc`, `todo`): each byte of
`sbuf_bcat`, each attempt of `sbuf_vprintf`, each drain of `sbuf_finish` is a step.
`sent`, `out`, `marks`, `cut` and `loose` are history: what the caller appended, what
the drain was given, where each section started, and the two ways in which the code
loses track without an error.

A `vsnprintf` that fails returns a negative value, which `sbuf_vprintf` takes for a
length: it passes the test for room, is added to `s_len` and `s_sect_len`, and the call
returns 0 (`print_unformatted`).  What `s_len` is below 0 is `under`, and `s_len` itself
`Len(text) - under`; bytes and terminators are then stored in front of `s_buf`
(`before`).  `torn` says that a format has failed while the string was empty.  The model
takes -1 for every negative value, which is what the C libraries return.

| Action | Code |
|---|---|
| `sbuf_new`, `sbuf_clear`, `sbuf_delete`, `sbuf_set_drain`, `sbuf_setpos`, `sbuf_trim` | the functions of that name |
| `sbuf_bcat`, `sbuf_bcpy`, `put_byte`, `put_byte_before`, `put_byte_drained`, `put_byte_extended`, `put_byte_full`, `put_byte_fails`, `put_end` | appending, byte by byte |
| `sbuf_vprintf`, `print_fits`, `print_unformatted`, `print_drained`, `print_extended`, `print_full`, `print_fails` | the attempts to print |
| `sbuf_finish`, `finish_drained`, `finish_fails`, `finish_end` | finishing |
| `sbuf_start_section`, `sbuf_end_section`, `end_section` | sections, with their padding |

The assertions are compiled in with `DEBUG` only and then only print: the caller of
the model respects those that say how to call.

### Xpcctl

`stack` holds, for each `loaddir` under way, what `readdir` has still to return; `left`
and `sockets` what the two enumerations have still to meet, in any order.  Values are
trees: records with a class, and with the elements of an array, the entries of a
dictionary or the text of a string; an `"oddnumber"` is a number whose type
`newXPCObject` does not know.  `Parts` is what is in a value at every level.  `mine`
counts the descriptors put into the list in hand; the table of open descriptors is not
modelled.

Sending a value a message that its class does not have raises an exception, which
nothing catches.  `newXPCObject` goes down the containers of a list to the last level:
there an odd number is `NULL`, which is inserted all the same, and a date is left out of
a dictionary but not of an array (`Encodable`).  `process_socket` takes the type, the
key and the path of a socket for strings and the environment for a dictionary, in the
order of the code (`Raises`).  What it adds to a list is assumed to replace nothing that
matters (`AdditionAssumption`).

| Action | Code |
|---|---|
| `main_arg`, `main_end`, `loaddir` | `main`, `load`, `loaddir` |
| `validate`, `validate_added`, `validate_raises`, `validate_end` | the enumeration of a list, with its early stops; a list that was changed meanwhile shows the new key, or raises an exception, or neither |
| `cb_sockets`, `cb_sockets_end` | the sockets, with `process_socket`, the calls of it that fail and the messages that raise exceptions |
| `newXPCObject`, `loadfile_send`, `loadfile_nobus` | the rest of `loadfile` |

## 3. Runs

| Run | Bounds | Shows |
|---|---|---|
| `object` | 4 objects, 2 handles, 1 key, `Practices = {}` | safety of the store: valid handles, sole ownership, exact counts, no leak, no revival; once callers let go, the heap empties |
| `object_practices` | 4 objects, 3 handles, 2 keys, overwriting and indexing, symmetry | these leak, but break neither handles nor size fields |
| `object_borrowed` | 3 objects, 2 handles, retaining a borrowed value | **violation** of `HandleSafe` |
| `value` | every object of at most 4 parts (`MaxParts`) and 4 levels (`MaxDepth`), 18 leaves and empty containers, 3 keys, words of 6 bits | copy, hash, getters, descriptions and round trip against reference definitions |
| `xpcd` | two sets of inherited descriptors, limit 1030, one interrupted or killed life of the manager | the launch, the loop, the signals and the pipe |
| `xpcd_ndebug` | as above, `NDebug` | **violation** of `OrderlySigint` |
| `xpcd_descriptors` | descriptor 1023 inherited, limit 1030 | **violation** of `DescriptorsClosed` |
| `tailq` | 2 heads, 3 elements, fresh links of 6 kinds | links well-formed, loops on course, `ListSpec` implemented, destructors empty their queue |
| `connection` | 2 threads in one process and 1 in another, 1 name, 3 connections | one listener per name, which owns it; delivery; `NameService` implemented; every call ends |
| `connection_passive` | 3 processes of a thread, 1 connection | **violation** of `PassiveIsListener` |
| `sbuf` | strings of 1 and 3 characters, 3 in all, four kinds of buffers from 2 bytes, 2 nested sections, paddings 1 and 2, `s_len` from -1 | inside the buffer, nothing lost, blocks accounted for, sections exact, calls return |
| `xpcctl` | 12 property lists nested up to 4 levels, 2 nested directories that list themselves, 10 argument lists | every list is handed on, sockets opened, aborts explained, loading ends |

The types of the variables are part of `Integrity`, `WellLinked`
and `ListenerOwnsName`; those of `XpcObject`, `Xpcd`, `Xpcctl` and `XpcValueSpec` are proved (section 4), as are
the inductive invariants, which TLC checked on these instances before.

Why the bounds are enough to meet the interesting cases: four objects allow a
container in a container with two siblings, or a container with a value that is
set while another tree is destroyed; three handles (`object_practices`) allow two
holders of one object and a third that builds or destroys; two keys tell a new key
from one that exists.  `value` reaches a container in a container in a container, siblings of
different types, and dictionaries set in every order.  In `Xpcd` everything but
the descriptors is finite by itself; a limit of 1030 and the inherited
descriptors 7, 1022 and 1025 put some inside, at the edge of and above the range
that is cleared.  Three elements give a queue a first, a middle and a last one, or
leave one for the other queue.  In `MCTailq` the links of all fresh elements hold the
same, and one element stands for all of them, which are alike.  Two threads and a
process more are the least in which a race for `conn_bus`, a refusal between processes
and a sender to itself all occur; three connections let a listener, one being refused
and a sender exist at once.  Buffers of `Sbuf` start at 2 or 3 bytes and the sizes
double or round up from there, so that every string meets the end of the buffer; a
section inside a section, with text before both, is within three characters, with
a format that fails before, between and after them.  The lists
of `MCXpcctl` are one of the repository's tests and one of each kind the code tells
apart; seven of them may end xpcctl, each for one cause that `AbortExplained` names, and
the other five resemble them and never do.  None is deeper than `MaxNesting`, which the
assumption `NestingAssumption` checks.  The four kinds of buffers of `MCSbuf` pair each
choice of struct, memory and extension with each other one.  They grow once, from 2 or 3
bytes to 4, through either branch of `sbuf_extendsize`; that growing works at every size
is proved.

**Fairness.**  `XpcObject` assumes weak fairness of `xpc_object_destroy` only: the
loops wait for nothing.  Callers owe nothing.  `Xpcd` assumes weak fairness of the
manager and of the subprocess, two processes the system schedules; a read of
something that is not the pipe may block for ever and has none, and neither has
the environment.  `xpcd` and `value` do not check deadlock: the
manager may end and the subprocess may wait for ever, and values are bounded.
`Tailq` assumes weak fairness of the steps of a loop, which waits for nothing.
`XpcConnection` assumes it of each thread inside a creator, whose calls have a time
limit of libdbus, and of `send_return`: the code passes -1, libdbus's default timeout,
so the wait ends even if nobody answers.  Peers, the bus's notice of an end, and kills
are owed nothing.  In `Sbuf` the loops are fair and the faults (a drain or malloc that
fails) are not part of what is fair, so no call relies on one to return.  `Xpcctl` is
one process that is scheduled.  `connection` and `xpcctl` do not check deadlock: all
processes may have ended.

### Disagreements between the code and its documentation

1. `object_borrowed`: a value that a caller took out of a container and retained
   is freed with the container (`xpc_misc.c:57` and `:73`).
2. `xpcd_ndebug`: with `NDEBUG` the call of `signal` disappears with the `assert`
   around it (`main.cc:47`), against the comment above it.
3. `connection_passive`: `passive` is never set for a connection that is not a
   listener (`xpc_dbus.c:176`), so that sending on it may be refused.
4. `xpcd_descriptors`: `close_fds_except` stops at 1022 (`procutil.c:25`), although
   `procutil.h` says all descriptors of number 3 or above; the job's program gets the
   others.

Runs that pass also record losses that a caller should know of: `xo_size` of an
array stays 0 (`SizeField`), a copied array is empty and copying a dictionary with
a null, a double or a descriptor crashes (`CopyIsFaithful`), dates, nulls and
doubles change type on the wire and data cannot be sent (`RoundTrip`), the hash of a bool depends on the stack (`HashTravels`), a
failed attach leaves the subprocess waiting (`ChildReleased`), one whose `execve` fails
writes nothing to the pipe although `launchd.hh:79` says it would (`setup_subproc_execve`), an array's getters
answer at index 0 only (`GettersTravel`), a newline in a key or a string makes lines of a
description that look like entries (`DescriptionShowsStructure`).  `sbuf_vprintf` reports success for a text it
cut off when malloc failed or could not format (`NothingLost`, `cut`), and after the latter
may store a byte in front of the buffer (`Integrity`, `torn`); `sbuf_trim`, `sbuf_clear` and
a format that fails in a section lose track of its length (`SectionExact`, `loose`).  An unmatched key ends
`validate` with 0, so that only a list all of whose keys are known is sure to get its
socket, and the loop over the sockets stops after the first dictionary (`SocketOpened`); the list is sent whatever
the verdict was (`EveryListSent`); a secure socket without an environment changes the
dictionary under its enumeration, and a socket's values of a wrong class raise exceptions
(`AbortExplained`).

## 4. Proofs

Each proof module shows `Spec => []IInv` by one lemma per action (or per group of
actions that write the same state), and gets each property from `IInv`.

**XpcObjectProofs**, for any sets of objects and keys, any finite set of handles,
any `RefMod` above the number of handles plus two, and the callers of the
repository (`Practices = {}`).  `HandleSafe` is not inductive: that a handle is
valid after a destroy step needs to know that what is destroyed is owned by the
destroyer alone.  `IInv` therefore says who owns what: an allocated object is held
by handles, or linked once in one container, or on one destruction stack, never
two of these (`SoleOwner`); a borrowed pointer is linked in the object it was read
from (`BorrowedIsLinked`); the count of a held object is the number of its
handles (`CountExact`), so that the release that reaches zero is the last handle's.
`NoLeak` says that what is allocated is in every set that encloses the roots: with the
objects that are held or being destroyed, what is linked in a member.  What a
caller never releases is a handle held for ever and no leak in this sense: the object
that `xpc_connection_send_message` deserialises (`xpc_dbus.c:227`) and the object and
connection of `loadfile` (`Main.m:293`) are such roots.  It is proved
backwards: a set that encloses the roots after a step encloses them before it
(`free_object` apart, where it is one object short), so it has what was allocated then.
A setter could leave its value outside if its container were outside; but the container is
the end of a chain of borrowed pointers that starts at a handle (`ChainEnclosed`).
Theorems: `Invariance`, `TypeCorrect`, `SingleOwnership`, `NoUseAfterFree`,
`ExactCount`, `SizesDescribe`, `DecisionIsFinal`, `NothingLeaks`.

**XpcdProofs**, for any sets of inherited descriptors, any limit and both kinds of
build.  `BeginsWatched` needs the barrier: while the manager is before its write
the pipe is empty and the subprocess has not got past its read (`Barrier`), and
past the attach the filter exists (`LaunchOrder`).  `PipeSignalMeansDeadChild` and
`LaunchClosesPipe` need to know which process has which end (`PipeEnds`).
Theorems: `Invariance`, `TypeCorrect`, `SigintIsOrderly`, `BarrierHolds`,
`PipeSignal`, `LaunchTidies`.

**XpcConnectionProofs**, for any processes, threads, names and connections.
`ListenerOwnsName` is not inductive: that the owner stays needs to know that a
connection belongs to a process that is up (`UpHolds`), so that the bus forgets only
processes that hold nothing, and that there is one listener needs to know that a name
counts as held from the moment the bus grants it, before the connection is handed out
(`OneHolder`), and that no two threads make the same connection (`ThreadArgs`,
`OwnMaking`).  The refinement of `NameService` follows the same way: each action is
shown to leave the listeners alone, to add one for a name that nobody listened to
(`create_end`), or to take a set of names from one process (`xpc_release`, and every
action that ends a process); `BarNow` and `BarNext` say that the choice of a
connection in the mapping is no choice.  `DeliveredToOwner` follows a message from the
bus to the queue: who is in the queue of owners of a name was granted it, is no longer
up, or has a thread that was refused it and is about to exit (`QueueEntitled`), and a
process leaves that last condition only by ending.
Theorems: `Invariance`, `ListenersOwn`, `Delivery`, `Implements`.

**TailqProofs**, for any heads, any finite set of elements and whatever the links of
fresh elements hold.  `Content` chooses a sequence that the links stand for; the proof
first shows that there is at most one (`OneSequence`), so that a state can be described
by the function `L` of its sequences (`Shape`).  Each splice of links is then a
lemma about one queue (`InsertChain`, `RemoveChain`, `ReplaceChain`, `ConcatChain`), with
`FrameChain` for the other queues: as every element knows its queue and every place of a
queue is its head or one of its elements, what is written for one queue is not a link of
another.  The four ways to insert are one lemma (`InsertStep`), used with four places.
`LoopOnCourse` needs `WellLinked`, for the element after the current one; and the loop
of a destructor stays on course because the element it keeps in `tmp` is the first of what
is left, which only this loop changes.  The refinement of `ListSpec` comes out of the
same lemmas: each macro takes `L` to what its name says, and each loop step changes no
sequence, but for the removal in a destructor.
Theorems: `Invariance`, `Linked`, `Loops`, `Implements`.

**SbufProofs**, for any strings, sizes, extensions and paddings that the assumptions
allow.  Every property is about calls that have returned, and the loops break all of
them on the way; `IInv` says how.  With `todo`, what the call has still to append, what
was sent is what the drain got, then the buffer, then `todo` (`Conserved`); a section
counts all but `todo` (`Measured`), and each saved length but the first is the
distance between two starts (`Nested`), which is what closing a section adds up.
`Short` says how far a failed format gets: `s_len` is below 0 only while there is no
string and after one has failed on an empty one; so `Integrity` holds of every other
state, and these are the exceptions it names.  That
the buffer is large enough after `sbuf_extend` needs the loop of `sbuf_extendsize`:
`Newsize` is a recursive function, of which induction on a set of numbers (`AllNat`) shows
that it exceeds any size in the end.
Theorems: `Invariance`, `InsideBuffer`, `Faithful`, `Accounted`, `Sectioned`.

**XpcctlProofs**, for any tree of files, cyclic or not, any arguments and any lists, of
values nested to any depth up to `MaxNesting`.
`Within` is the least set that holds the arguments and, with a directory, what its
names without a dot name; what can be said of it without induction is that it is in
every closed set that holds the arguments.  `NothingMissed` relates it to what is under
way: each list is handed on already or below what is pending, and nothing else was
handed on, so that nothing is missing when nothing is pending.  `SocketOnce` follows a
sound list through the enumerations in whatever order they run: nothing stops them
before `Sockets` is met, and the first entry opens the one socket.  `MutatedExplained`
remembers why a list may be changed under its enumeration, or an exception raised, until
the loader has ended: each cause is a property of the list alone.
Theorems: `Invariance`, `AllSent`, `OneSocket`, `Aborts`.

**XpcValueProofs**, for values of any depth and size, any names and contents, words of
any width and whatever the stack holds.  The invariant is `TypeOK`: what callers build is
a value, and in particular no dictionary has a key twice, because `set_value` replaces
the pair that is there.  Everything else is said of all values of a depth, by induction
on the depth.  That needs two things.  A recursive function is what its definition says:
`NatFacts` shows it once for any base and any step (`Unfold`), and each function is an
instance of it (`CopyAt`, `HashAt`, ...).  And a loop over the elements has a closed form:
the dictionary that is filled key by key has each element under its own key, in order,
unless one of them is fatal (`SetAllIs`, `AppendAllIs`, `LoseAllIs`), and the exclusive or
of the hashes has the bits that an odd number of elements have (`XorAllIs`), a number that
does not change when the elements are permuted (`OddBitsPermuted`).  `Sent` then shows the
type tables to agree, `ReceivedIs` what arrives of a value, and the properties compare
that with the reference definitions.  The entries of a description are a concatenation:
`FlattenIs` says where each part of one is, and `DescribeNested`, from it, where the lines of
each element are and how they are padded.  Read back, the line an element belongs to is then
that of its container (`ElementPlaced`), wherever in the text the lines of the container
are, which is what the induction on the depth needs (`ReadStep`).  The lines are the entries
where nothing that is printed breaks one (`PrintedSame`).
Theorems: `TypeCorrect`, `RoundTripCorrect`, `HashTravelsCorrect`,
`HashIgnoresOrderCorrect`, `CopyIsFaithfulCorrect`, `GettersTravelCorrect`,
`DescriptionShowsStructureCorrect`.

The assumptions are those named in the modules (`ASSUME`): heads, elements and `NULL` are
distinct and elements finite (`Tailq`; an element is a block of memory); an extension is
positive, lengths are natural numbers and paddings positive (`Sbuf`; a padding of 1 or less
appends nothing, and 1 stands for all of these); nodes are of the kinds `loadfile` and
`loaddir` tell apart, no list is nested deeper than `MaxNesting`, no list holds a
`FileDescriptor` of its own and environments hold strings (`Xpcctl`); a word has bits, keys
are strings of bytes and what callers start from are values (`XpcValue`, `XpcValueSpec`).
What the code calls may fail wherever its actions have a step for the failure: system calls,
`malloc`, drains and `vsnprintf`.  That a `vsnprintf` which succeeds returns the length of
one and the same string at every attempt, that a drain takes at least one byte or fails, and
that libdbus and the bus do what the external actions in the tables above say, is assumed.

Only model-checked: the liveness properties (`HeapDrains`, `SigintStops`,
`ExitReported`, `ChildReleased`, `DrainEmpties`, `CallsEnd`, `CallsReturn`, `Ends`),
because they rest on fairness.

## 5. Not modelled, and the plan

Next:

1. Ownership of payloads: `free(xo)` releases neither strings nor data nor descriptors.
2. Containers created with values, whose `xo_size` would be counted twice.

Not modelled: `log.c`, which keeps no state and whose callers use its result as an
error number only; `xpc_equal`, `xpc_data_get_bytes` and `xpc_array_dup_fd`, which
return a constant; UUIDs, endpoints and `ld2xpc`, which are not in the default build;
the `Domain` and `SocketGroup` records, which are written and never read; the other
queues of `compat_queue.h` and its reverse loops, which nothing uses; running out of
memory in the creators, which no caller survives.
