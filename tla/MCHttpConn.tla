----------------------------- MODULE MCHttpConn -----------------------------
(* Requests and scripts for the runs of HttpConn.                          *)
EXTENDS HttpConnImpl

\* A URI below "/" whose file is as given.
Target(content) ==
  [method |-> "GET", slash |-> TRUE, dots |-> FALSE, path |-> "other", content |-> content]

Ask(keep, target) == [keep |-> keep, good |-> TRUE, target |-> target]

Big   == Ask(TRUE, Target("file"))
Last  == Ask(FALSE, Target("file"))
Small == Ask(TRUE, Target("missing"))
Bad   == [Small EXCEPT !.good = FALSE]
\* "/?..", which only the route of "/" serves, and the directory itself.
Index == Ask(FALSE, [Target("error") EXCEPT !.dots = TRUE, !.path = "/"])
Root  == Ask(TRUE, [Target("dir") EXCEPT !.path = "/"])

AllScripts == [1 .. 2 -> {Big, Last, Small, Bad}] \cup {<<Index, Root>>, <<Small, Big, Last>>, <<Small, Last, Small>>}
Served     == [1 .. 3 -> {Big, Last, Small}]
=============================================================================
