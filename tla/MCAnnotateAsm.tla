---------------------------- MODULE MCAnnotateAsm ----------------------------
(* Three functions in address order: two adjacent ones of two instructions *)
(* and one of one instruction after a gap.  Source lines: a label whose     *)
(* name is hex digits ("add:"), a line with hex, a blank and '<' but no     *)
(* final ':', and a plain line.  max_objdump_exec is 2, so two selected     *)
(* symbols take one objdump run each, and three take the whole image.      *)
EXTENDS AnnotateAsm

MCFuncs == << [vma |-> 1, size |-> 2], [vma |-> 3, size |-> 2], [vma |-> 6, size |-> 1] >>
MCCount == (1 :> 2 @@ 2 :> 0 @@ 3 :> 1 @@ 4 :> 1 @@ 5 :> 0 @@ 6 :> 1 @@ 7 :> 0 @@ 8 :> 0)
MCPreamble == << [chars |-> << >>, addr |-> 0], [chars |-> <<"D", "i", ":">>, addr |-> 0] >>
MCSourceLines == { <<"a", "d", "d", ":">>, <<"1", " ", "<", "x">>, <<"i", "n", "t">> }
====
