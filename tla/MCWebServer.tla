---------------------------- MODULE MCWebServer -----------------------------
(* Requests and symmetry for model checking WebServer.                      *)
EXTENDS WebServer

GetRequest == {[method |-> "GET", url |-> "command"]}
GetOrPost == GetRequest \cup {[method |-> "POST", url |-> "command"]}

\* Connections and sockets are interchangeable (safety runs only).
Symmetry == Permutations(Conn) \cup Permutations(Fd)
=============================================================================
