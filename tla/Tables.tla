-------------------------------- MODULE Tables --------------------------------
(***************************************************************************)
(* Tables of the kernel and of the program (open files, links, the map of  *)
(* a registry) as functions with a changing domain.                        *)
(***************************************************************************)
EXTENDS FiniteSetsExt, Functions

\* Table f with entry y under key x, new or in place of an old one.
With(f, x, y) == [z \in (DOMAIN f) \cup {x} |-> IF z = x THEN y ELSE f[z]]

\* Table f without an entry under key x.
Without(f, x) == Restrict(f, DOMAIN f \ {x})

=============================================================================
