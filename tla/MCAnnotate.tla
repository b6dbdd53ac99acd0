----------------------------- MODULE MCAnnotate -----------------------------
(* Paths of at most three components over "s", "o" and "a": the source    *)
(* directory /s, the root, and /o (the current directory), and source     *)
(* files under /s, at the root and in /o/s.                               *)
EXTENDS Annotate

MCDirs == {<< >>, <<"s">>, <<"o">>}
MCSourceFiles == {<<"s", "a">>, <<"a">>, <<"o", "s", "a">>}
MCNames == MCSourceFiles \cup {NoName}
MCCwd == <<"o">>
====
