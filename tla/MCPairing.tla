------------------------------ MODULE MCPairing ------------------------------
EXTENDS Pairing, TLC

CONSTANTS p, q, b, a, t, c1, c2

\* p and q: requests to pair; b: the listener of Telegram; a: a request to PUT /api/config;
\* t: a tool call
TheDoors ==
  [w \in Workers |-> CASE w \in {p, q} -> "gateway" [] w = b -> "telegram"
                       [] w = a -> "api" [] w = t -> "tools"]

TheVisitors == ("gateway" :> {c1}) @@ ("telegram" :> {c1, c2})
=============================================================================
