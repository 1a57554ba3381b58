------------------------- MODULE MCInterfaceConfig --------------------------
EXTENDS InterfaceConfig

Entry(logical, physical) == [logical |-> logical, physical |-> physical]

\* The name of veth0-peer is cut before "-peer": its peer would be itself.
MCNames == {"GE-1", "veth0", "veth0-peer"}
MCPeer == [n \in MCNames |-> IF n = "GE-1" THEN "GE-1" ELSE "veth0-peer"]

\* A map to the link of the same name; a link and its peer, in both orders;
\* a name twice.
MCFiles == {<<>>,
            <<Entry("GE-1", "GE-1")>>,
            <<Entry("GE-1", "veth0"), Entry("GE-1", "veth0-peer")>>,
            <<Entry("GE-1", "veth0-peer"), Entry("veth0", "veth0"), Entry("GE-1", "GE-1")>>}

ShippedFiles == {<<Entry("GE-1", "veth0")>>}
=============================================================================
