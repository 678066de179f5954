----------------------------- MODULE MCSocket -----------------------------
(* One program that calls and waits, one with two asynchronous clients that *)
(* share two descriptors; the calls and what a query finds.                 *)
EXTENDS Socket

MCCalls == {<<"query", "q", "max", "off">>, <<"setIndexedDirectories", "a", "b">>}
MCHitLists ==
    {<<[uri |-> "file", props |-> 0], [uri |-> "file", props |-> 1]>>, <<[uri |-> "file", props |-> 0]>>}

MCGarbage == {None, 1}
=============================================================================
