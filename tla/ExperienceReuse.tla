------------------------------ MODULE ExperienceReuse ------------------------------
(***************************************************************************)
(* Whether a past experience may seed a new candidate: the assessment of        *)
(* experience/service.py.  An experience and the query of a task are records of  *)
(* the facts the assessment compares; scores are hundredths.                     *)
(***************************************************************************)
EXTENDS Integers, FiniteSets

\* world: the repository and what is installed now; query: what the task asks for; e: the
\* experience as it is stored now (it may have been retracted).
HardReasons(world, query, e) ==
    {r \in {"EXPERIENCE_RETRACTED", "REPOSITORY_MISMATCH", "PROTECTED_SIDE_EFFECT_STATE",
            "INVALID_DIGEST", "ARCHITECTURE_MAJOR_INCOMPATIBLE", "POLICY_INCOMPATIBLE",
            "VERIFIER_INCOMPATIBLE", "SKILL_NOT_REQUESTED", "CAPABILITY_NOT_ALLOWED",
            "CAPABILITY_DENIED", "SKILL_OR_PLUGIN_UNAVAILABLE", "CAPABILITY_UNAVAILABLE",
            "VERIFIER_UNAVAILABLE", "FAILURES_EXCLUDED", "SOURCE_COMMIT_NOT_ANCESTOR",
            "SOURCE_COMMIT_MISSING", "MAX_AGE_EXCEEDED"} :
       \/ r = "EXPERIENCE_RETRACTED" /\ e.retracted
       \/ r = "REPOSITORY_MISMATCH" /\ e.repository # world.repository
       \/ r = "PROTECTED_SIDE_EFFECT_STATE" /\ e.protected
       \/ r = "INVALID_DIGEST" /\ ~e.digestsValid
       \/ r = "ARCHITECTURE_MAJOR_INCOMPATIBLE" /\ e.major # world.major
       \/ r = "POLICY_INCOMPATIBLE" /\ e.policy # world.policy
       \/ r = "VERIFIER_INCOMPATIBLE" /\ e.verifier # world.verifier
       \/ r = "SKILL_NOT_REQUESTED" /\ ~(e.skills \subseteq query.skills)
       \/ r = "CAPABILITY_NOT_ALLOWED" /\ ~(e.allowed \subseteq query.allowed)
       \/ r = "CAPABILITY_DENIED" /\ e.allowed \cap query.denied # {}
       \/ r = "SKILL_OR_PLUGIN_UNAVAILABLE" /\ ~(e.skills \subseteq world.skills)
       \/ r = "CAPABILITY_UNAVAILABLE" /\ ~(e.allowed \subseteq world.capabilities)
       \/ r = "VERIFIER_UNAVAILABLE" /\ ~(e.verifiers \subseteq world.verifiers)
       \/ r = "FAILURES_EXCLUDED" /\ e.polarity = "NEGATIVE" /\ ~query.failures
       \/ r = "SOURCE_COMMIT_NOT_ANCESTOR" /\ world.head = "DIVERGED"
       \/ r = "SOURCE_COMMIT_MISSING" /\ world.head = "MISSING"
       \/ r = "MAX_AGE_EXCEEDED" /\ query.maxAge > 0 /\ e.age > query.maxAge}

\* The four scores.  environment = 0.6 commit + 0.4 manifest; version weighs architecture,
\* policy and verifier, the runtime and the prompt, context and tools.
Freshness(e) ==
    IF e.age <= 30 THEN 100 ELSE IF e.age <= 90 THEN 95
    ELSE IF e.age <= 180 THEN 90 ELSE 80
Environment(world) ==
    LET commit == IF world.head = "SAME" THEN 100 ELSE IF world.head = "AHEAD" THEN 90 ELSE 0
        manifest == IF world.manifest = "SAME" THEN 100
                    ELSE IF world.manifest = "CONTENT" THEN 80 ELSE 60
    IN (60 * commit + 40 * manifest) \div 100
Version(world, query, e, provider) ==
    LET architecture == IF e.major = world.major /\ e.minor = world.minor THEN 100 ELSE 85
        governed == IF e.policy = world.policy /\ e.verifier = world.verifier THEN 100 ELSE 0
        runtime == IF provider = "none" THEN 80 ELSE IF e.provider = provider THEN 75 ELSE 50
        same == {f \in {"promptSame", "contextSame", "toolsSame"} : query[f]}
        shape == (50 * 3 + 50 * Cardinality(same)) \div 3
    IN (35 * architecture + 30 * governed + 20 * runtime + 15 * shape) \div 100

\* The fourth root of the product is at least t.
FinalAtLeast(world, query, e, provider, t) ==
    e.semantic * Environment(world) * Version(world, query, e, provider) * Freshness(e)
      >= t * t * t * t
ReplayEligible(world, query, e, provider) ==
    /\ HardReasons(world, query, e) = {}
    /\ e.trust = "HIGH" /\ e.polarity = "POSITIVE"
    /\ e.semantic >= 60 /\ Environment(world) >= 90
    /\ Version(world, query, e, provider) >= 85 /\ Freshness(e) >= 80
    /\ FinalAtLeast(world, query, e, provider, 75)
NegativeEligible(world, query, e, provider) ==
    /\ HardReasons(world, query, e) = {}
    /\ e.trust = "MEDIUM" /\ e.polarity = "NEGATIVE" /\ e.taxonomy
    /\ e.semantic >= 55 /\ Environment(world) >= 75
    /\ FinalAtLeast(world, query, e, provider, 65)
Disposition(world, query, e, provider) ==
    IF HardReasons(world, query, e) # {} THEN "REJECTED"
    ELSE IF \/ ReplayEligible(world, query, e, provider)
            \/ NegativeEligible(world, query, e, provider) THEN "ACCEPTED"
    ELSE "DOWNRANKED"
=====================================================================================
