------------------------------- MODULE MCSbuf -------------------------------
(* String buffers of a few bytes, for TLC. *)
EXTENDS Sbuf

\* Buffers of four kinds, in which each pair of the three choices occurs.
MCKinds ==
    {<<TRUE, TRUE, TRUE>>, <<TRUE, FALSE, FALSE>>, <<FALSE, TRUE, FALSE>>, <<FALSE, FALSE, TRUE>>}

MCStrings == {<<" ">>, <<"x", " ", "x">>}

=============================================================================
