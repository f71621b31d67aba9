----------------------------- MODULE MCMessages -----------------------------
EXTENDS Messages

(* A last group that is not full, and a code that is listed twice.         *)
MCFiles == {<<"a", "b", "c">>, <<"a", "b", "a">>, <<"a", "b">>}
=============================================================================
