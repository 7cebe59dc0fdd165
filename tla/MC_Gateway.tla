---------------------------- MODULE MC_Gateway ----------------------------
(* Gateway with three orders of one user, who looks at the market too, and *)
(* a request without a token.                                              *)
EXTENDS Gateway, TLC

CONSTANTS order1, order2, order3, look, anon, user1, ip, orders, market

Request(path, method, upstream, token) ==
  [path |-> path, method |-> method, upstream |-> upstream, token |-> token,
   user |-> user1, bot |-> FALSE, ip |-> ip]

RequestDef ==
  [r \in Reqs |->
     CASE r = look -> Request("public", "GET", market, "valid")
       [] r = anon -> Request("orders", "GET", orders, "none")
       [] OTHER -> Request("orders", "POST", orders, "valid")]

Alike == Permutations({order1, order2, order3})
=============================================================================
