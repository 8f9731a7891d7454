------------------------------- MODULE Router -------------------------------
(***************************************************************************)
(* How main.cpp and framework/aishttpd turn a request into a response: the *)
(* pre-route that serves ./public, the routes behind it, showFile and its  *)
(* errors. A target says what the code asks of the method and the URI:     *)
(*   method   the method                                                   *)
(*   slash    the URI begins with '/'                                      *)
(*   dots     it contains ".."                                             *)
(*   path     its path, without the query                                  *)
(*   content  what opening the file finds: "file", "dir", "missing" or     *)
(*            "error"                                                      *)
(* Both routers of main.cpp are the same one, so the Host field does not   *)
(* matter.                                                                 *)
(***************************************************************************)

Targets ==
  [method : STRING, slash : BOOLEAN, dots : BOOLEAN, path : STRING,
   content : {"file", "dir", "missing", "error"}]

\* A text body that showFile's errors, abort and redirect set.
Text(code) == [code |-> code, body |-> "buf"]

\* Req::showFile. Opening a directory works, reading it will not.
ShowFile(content) ==
  CASE content = "missing" -> Text(404)
    [] content = "error"   -> Text(500)
    [] OTHER               -> [code |-> 200, body |-> content]

\* The routes that setHttpRouters adds, both for GET.
Routes == {"/", "/index"}

\* Router::invoke
Respond(t) ==
  CASE t.slash /\ ~t.dots       -> ShowFile(t.content)
    [] t.path \notin Routes     -> Text(404)
    [] t.method # "GET"         -> Text(405)
    [] t.path = "/"             -> ShowFile(t.content)
    [] OTHER                    -> Text(302)
=============================================================================
