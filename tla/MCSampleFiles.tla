---------------------------- MODULE MCSampleFiles ----------------------------
(* Three contexts, one of them with an image find_cookie() cannot name,     *)
(* two counters and a budget of one descriptor: one context alone can      *)
(* exhaust the budget, and every second open hits EMFILE.                   *)
EXTENDS SampleFiles

CONSTANTS s1, s2, s3

MCSfiles == {s1, s2, s3}
MCResolvable == {s1, s2}
MCCounters == {0, 1}
=============================================================================
