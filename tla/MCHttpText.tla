----------------------------- MODULE MCHttpText -----------------------------
(* CR LF, NUL, space, %, &, +, -, ., /, 2B, :, =, ?, a, --b and a byte     *)
(* above 127.                                                              *)
EXTENDS HttpText

MCPieces ==
  {<<c>> : c \in {NUL, Space, Percent, Ampersand, Plus, Dash, Dot, Slash, Colon, Equals,
                  Question, 97, 200}}
    \cup {CRLF, <<50, 66>>, <<Dash, Dash, 98>>}
=============================================================================
