-------------------------------- MODULE Maps --------------------------------
(***************************************************************************)
(* Functions with finite domains as the code's maps and sets of files.       *)
(***************************************************************************)

\* f, with value at key.
Put(f, key, value) == [x \in DOMAIN f \cup {key} |-> IF x = key THEN value ELSE f[x]]

\* f, and what g has besides.
Over(f, g) == [x \in DOMAIN f \cup DOMAIN g |-> IF x \in DOMAIN f THEN f[x] ELSE g[x]]
=============================================================================
