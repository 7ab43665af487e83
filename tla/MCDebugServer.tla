--------------------------- MODULE MCDebugServer ---------------------------
(* Small instances of DebugServer.                                         *)
EXTENDS DebugServer, TLC

CONSTANTS s1, s2, client1, client2, start, mark

Servers == {s1, s2}
OneServer == {s1}
Two == {client1, client2}
Profiler == {start, mark}
OneCommand == {mark}

\* Clients are interchangeable, and so are the objects, and the commands that
\* receive() answers by giving their name back.
Symmetry == Permutations(Client) \cup Permutations(Server) \cup Permutations(Answered)
=============================================================================
