----------------------------- MODULE MCXpcValue -----------------------------
(***************************************************************************)
(* Every object that at most MaxParts - 1 calls build from these values.   *)
(***************************************************************************)
EXTENDS XpcValueSpec

\* One key and one string have a newline.
MCNames == {<<>>, <<1>>, <<10, 1>>}

\* The half words tried as content and as stack residue.
Halves == {0, 1}

Leaves ==
    {xpc_null_create, xpc_double_create(<<1, 1>>), xpc_data_create(<<1>>)}
    \cup {_xpc_prim_create("bool", <<b, j>>) : b \in {0, 1}, j \in Halves}
    \cup {xpc_int64_create(<<a, b>>) : a, b \in Halves}
    \cup {xpc_uint64_create(<<1, 0>>), xpc_date_create(<<1, 0>>),
          xpc_string_create(<<>>), xpc_string_create(<<1, 10>>), xpc_fd_create(1)}

MCGiven == Leaves \cup {xpc_dictionary_create, xpc_array_create}

=============================================================================
