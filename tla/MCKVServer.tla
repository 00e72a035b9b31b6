----------------------------- MODULE MCKVServer -----------------------------
(***************************************************************************)
(* Small instances of KVServer for TLC.                                    *)
(***************************************************************************)
EXTENDS KVServer

MCTokens == {"a", "b", "x", "y", ""}

\* Two keys that no text operation confuses ...
MCKeys == {<<"a">>, <<"b">>}
\* ... and a key with a ':' in it beside the key it is cut to.
MCColonKeys == {<<"a">>, <<"a", "b">>}

\* A value with a ':' and the value an empty input line becomes.
MCColon == [toks |-> <<"x", "y">>, nl |-> FALSE]
MCEmpty == [toks |-> <<"">>, nl |-> TRUE]
MCTwoValues == {MCColon, MCEmpty}
\* The line of the key a with this value starts like a line of the key a:b.
MCLikeKey == {[toks |-> <<"b">>, nl |-> FALSE]}
=============================================================================
