--------------------------- MODULE MCDynamicGraph ---------------------------
(* A ticker s with two nodes above it, c and, above c, d.  The pipeline    *)
(* x <- y hangs on s; e hangs on c.  c asks for y, which raises c and so d *)
(* and e, and for e, which reads c itself.  d asks for e, and for z, which *)
(* has come to read w while w reads z.  Without a cycle no layer is above  *)
(* the number of nodes, so MaxLayer is reached on a cycle only.            *)
EXTENDS DynamicGraph, TLC

CONSTANTS s, c, d, x, y, e, z, w

Reads(ns) == [k \in 1..Len(ns) |-> [node |-> ns[k], active |-> TRUE]]

MCDeclared == (s :> <<>>) @@ (c :> Reads(<<s>>)) @@ (d :> Reads(<<c>>))
              @@ (x :> Reads(<<s>>)) @@ (y :> Reads(<<x>>)) @@ (e :> Reads(<<c>>))
              @@ (z :> Reads(<<s, w>>)) @@ (w :> Reads(<<z>>))
MCInitial == <<s, c, d>>
MCLayer == [n \in Node |-> CASE n = c -> 1 [] n = d -> 2 [] OTHER -> 0]
MCAdds == [n \in Node |-> CASE n = c -> {y, e} [] n = d -> {e, z} [] OTHER -> {}]
MCRemoves == [n \in Node |-> CASE n = s -> {x, c} [] n = d -> {e} [] OTHER -> {}]

(* Errors in every phase. *)
MCFails == {<<"setup", y>>, <<"start", c>>, <<"start", x>>, <<"cycle", d>>,
            <<"setup", c>>, <<"stop", x>>, <<"teardown", x>>}
=============================================================================
