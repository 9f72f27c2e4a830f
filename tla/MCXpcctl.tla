------------------------------ MODULE MCXpcctl ------------------------------
(* Property lists of several kinds in a directory tree, for TLC.           *)
EXTENDS Xpcctl, TLC

Text(t) == [cls |-> "string", text |-> t]
Str == Text("other")
Num == [cls |-> "number"]
Odd == [cls |-> "oddnumber"]
Date == [cls |-> "date"]
Arr(s) == [cls |-> "array", elems |-> s]
Dict(f) == [cls |-> "dict", items |-> f]
Empty == Dict([k \in {} |-> Str])

Sock == Dict([SockPathName |-> Str])
Typed(t) == Dict([SockType |-> t, SockPathName |-> Str])
Keyed == Dict([SecureSocketWithKey |-> Str])

Job(s) == [Label |-> Str, Sockets |-> Dict(s)]

\* "session" is test/org.freedesktop.dbus-session.plist.  From "session" on, each list
\* ends xpcctl for one reason, in some order of its entries at least; "several" has
\* a date that does not, and "badargs" a secure socket.
Lists ==
    [several |-> [Label |-> Str, ProgramArguments |-> Arr(<<Str>>),
                  Sockets |-> Dict([a |-> Typed(Text("dgram")),
                                    b |-> Dict([SockPathName |-> Str, Since |-> Date])])],
     arrays  |-> Job([a |-> Arr(<<Sock, Str>>), b |-> Typed(Text("raw")),
                      c |-> Arr(<<>>), d |-> Str]),
     foreign |-> [OnDemand |-> Date, Program |-> Str, Disabled |-> Str,
                  Sockets |-> Dict([a |-> Empty])],
     badargs |-> [Label |-> Str, ProgramArguments |-> Arr(<<Str, Num>>),
                  Sockets |-> Dict([a |-> Keyed]), UserEnvironmentVariables |-> Empty],
     mixed   |-> [Label |-> Str, ProgramArguments |-> Arr(<<Num, Str>>),
                  Sockets |-> Dict([a |-> Sock, b |-> Arr(<<Typed(Text("raw"))>>)])],
     session |-> [Label |-> Str, ServiceIPC |-> Num,
                  ProgramArguments |-> Arr(<<Str, Str, Str>>),
                  Sockets |-> Dict([unix_domain_listener |-> Keyed])],
     dates   |-> Job([a |-> Dict([Since |-> Arr(<<Num, Date>>)])]),
     odd     |-> [Label |-> Str, inetdCompatibility |-> Dict([a |-> Arr(<<Str, Dict([b |-> Odd])>>)])],
     type    |-> Job([a |-> Typed(Num), b |-> Sock]),
     path    |-> Job([a |-> Dict([SockType |-> Text("raw"), SockPathName |-> Num]),
                      b |-> Arr(<<Dict([SockPathName |-> Arr(<<>>)])>>)]),
     key     |-> Job([a |-> Dict([SecureSocketWithKey |-> Num, SockPathName |-> Str])]),
     env     |-> [Label |-> Str, Sockets |-> Dict([a |-> Keyed]),
                  UserEnvironmentVariables |-> Arr(<<>>)]]

Node(n) == [node |-> n, hidden |-> FALSE]
Dot(n) == [node |-> n, hidden |-> TRUE]

Kinds ==
    [d1 |-> "dir", d2 |-> "dir", d3 |-> "closed", junk |-> "bad", fifo |-> "other",
     lost |-> "gone"] @@ [n \in DOMAIN Lists |-> "plist"]

Tree ==
    [d1 |-> {Dot("d1"), Node("d2"), Node("several"), Node("foreign"), Node("fifo"),
             Node("d3")},
     d2 |-> {Dot("d2"), Dot("d1"), Node("arrays"), Node("junk")}]

Arguments ==
    {<<"session", "d1", "lost">>, <<"d1", "badargs", "foreign", "several">>,
     <<"arrays", "mixed", "d2">>, <<>>}
     \cup {<<n, "several">> : n \in {"odd", "dates", "type", "path", "key", "env"}}

=============================================================================
