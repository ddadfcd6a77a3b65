---------------------------- MODULE MCIntegrations ----------------------------
(* Two clients, two workspaces, three packages of one plugin.              *)
EXTENDS Integrations, TLC

MCVersions == {1, 2}
MCCaps == {"echo", "record"}
MCDeclared == [echo |-> [permissions |-> {"read"}, effects |-> FALSE],
               record |-> [permissions |-> {"read", "write"}, effects |-> TRUE]]

\* Version 1, a republished version 1 with other content, and a version 2 that asks for
\* more, clashes with the republished one over a capability, and needs the connector.
MCPackages ==
  { [digest |-> "p1", version |-> 1, caps |-> [echo |-> 1], risk |-> "LOW",
     signature |-> "SHA256_PIN", needs |-> FALSE],
    [digest |-> "p1b", version |-> 1, caps |-> [echo |-> 2], risk |-> "HIGH",
     signature |-> "KEY", needs |-> FALSE],
    [digest |-> "p2", version |-> 2, caps |-> [echo |-> 2, record |-> 1], risk |-> "CRITICAL",
     signature |-> "KEY", needs |-> TRUE] }

\* Nothing the server's patterns admit, the mapped tool, the mapped tool twice, and the
\* mapped tool with a malformed schema.
MCListings ==
  LET Tool(name, wellFormed) == [name |-> name, wellFormed |-> wellFormed]
  IN  { <<Tool("other", FALSE)>>, <<Tool("mapped", TRUE)>>,
        <<Tool("mapped", TRUE), Tool("mapped", FALSE)>>, <<Tool("mapped", FALSE)>> }

MCPermissions == {"read"}
MCEvents == [remote |-> 3, plugin |-> 3]
Symmetry == Permutations(Clients)
=============================================================================
