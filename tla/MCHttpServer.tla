---------------------------- MODULE MCHttpServer ----------------------------
(* One client sends a GET, a GET that asks to close, a POST, or a          *)
(* malformed request (as the body of a GET is one to httplib, which does   *)
(* not read it); the other one only connects.                              *)
EXTENDS HttpServer

CONSTANTS c1, c2

MCConns == {c1, c2}

MCMessages ==
  [c \in MCConns |-> IF c = c2 THEN {} ELSE
    {<<"get", "blank">>, <<"get", "close", "blank">>, <<"post", "blank", "body">>,
     <<"junk", "blank">>}]
=============================================================================
