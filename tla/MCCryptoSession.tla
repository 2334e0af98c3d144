--------------------------- MODULE MCCryptoSession ---------------------------
(* Small instances of CryptoSession. *)
EXTENDS CryptoSession

CONSTANTS client, server

MCBoth == {client, server}
MCServer == {server}
MCNobody == {}

\* The code as it stands and repaired; repaired only.
MCBuilds == {TRUE, FALSE}
MCRepaired == {TRUE}

\* Any verdict on either key; each end's key known to the other.
MCAny == [MCBoth -> BOOLEAN]
MCFriends == [MCBoth -> {TRUE}]

=============================================================================
