------------------------- MODULE MCCapabilityGateway -------------------------
\* Small instances of CapabilityGateway for TLC.
EXTENDS CapabilityGateway, TLC

Ask(capability, key, arguments) ==
    [capability |-> capability, key |-> key, arguments |-> arguments]

\* Retries of a write, the same key with other arguments, and a second key.
Writes == {Ask("write", "k1", "a"), Ask("write", "k1", "b"), Ask("write", "k2", "a")}

\* One request for every way through the policy.
Mixed ==
    {Ask("write", "k1", "a"), Ask("write", NoKey, "a"), Ask("guarded", NoKey, "a"),
     Ask("read", NoKey, "a"), Ask("denied", NoKey, "a")}

AllRequests == Writes \cup Mixed

Symmetry == Permutations(Calls)

================================================================================
