--------------------------- MODULE MCSerialization ---------------------------
(* Small instances of Serialization.  The cells of addresses take values that
   are also address families. *)
EXTENDS Serialization

MCWords == {2, 3}
MCAddresses4 == {<<2>>, <<10>>}
MCAddresses6 == {<<10, 3>>}
MCFds == {4, 5}

=============================================================================
