------------------------------- MODULE Overlay -------------------------------
(* Writing over what is there: f where f says something, else g.           *)
Over(f, g) ==
  [x \in DOMAIN f \cup DOMAIN g |-> IF x \in DOMAIN f THEN f[x] ELSE g[x]]
=============================================================================
