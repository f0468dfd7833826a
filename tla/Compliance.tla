----------------------------- MODULE Compliance ------------------------------
(***************************************************************************)
(* What a license key grants, and what the compliance reports and checks   *)
(* of the platform make of its switches.                                   *)
(* Modelled from crates/agentland-oss-common/src/license.rs,               *)
(* crates/agentland-policy/src/compliance.rs and                           *)
(* crates/agentland-keygen/src/main.rs.                                    *)
(*                                                                         *)
(* A field that may be missing is a sequence of at most one value. A key   *)
(* is a payload [readable, tier, agents, policy, pii, identity, expires],  *)
(* or <<>> where none is given.                                            *)
(***************************************************************************)
EXTENDS Integers, Sequences

CONSTANT
    Unlimited      \* u32::MAX

ASSUME ComplianceAssumption == Unlimited \in Nat

-----------------------------------------------------------------------------
(* Licenses                                                                *)

License(tier, agents, days, policy, pii, compliance, identity) ==
    [tier |-> tier, agents |-> agents, days |-> days, policy |-> policy, pii |-> pii,
     compliance |-> compliance, identity |-> identity]

Community == License("community", 5, 7, FALSE, FALSE, FALSE, FALSE)

\* What each tier that a key may name stands for.
TierDefaults ==
    [starter    |-> License("starter", 25, 30, TRUE, FALSE, FALSE, FALSE),
     growth     |-> License("growth", 100, 90, TRUE, TRUE, TRUE, FALSE),
     enterprise |-> License("enterprise", Unlimited, 365, TRUE, TRUE, TRUE, TRUE)]

Or(given, default) == IF given = <<>> THEN default ELSE given[1]

IsValid(key) ==
    /\ key # <<>>
    /\ key.readable
    /\ key.expires \in {"never", "later"}
    /\ key.tier \in DOMAIN TierDefaults

\* What is not valid is the community tier; a key may override four fields.
ValidateLicense(key) ==
    IF ~ IsValid(key) THEN Community
    ELSE LET d == TierDefaults[key.tier]
         IN [d EXCEPT !.agents = Or(key.agents, @), !.policy = Or(key.policy, @),
                      !.pii = Or(key.pii, @), !.identity = Or(key.identity, @)]

\* A generated key overrides the number of agents, with zero when it is not
\* told, and nothing else.
GenerateKey(tier, agents, expires) ==
    [readable |-> TRUE, tier |-> tier, agents |-> <<agents>>, expires |-> expires,
     policy |-> <<>>, pii |-> <<>>, identity |-> <<>>]

-----------------------------------------------------------------------------
(* Reports                                                                 *)

PassOr(other, enabled) == IF enabled THEN "pass" ELSE other

\* Faulty variant: two of the switches are taken for each other.
Soc2Swapped(audit, policy, pii, mtls) ==
    [access     |-> PassOr("warn", mtls),
     monitoring |-> PassOr("fail", audit),
     data       |-> PassOr("warn", policy),
     change     |-> PassOr("warn", pii)]

\* Controls CC6.1, CC7.2, CC6.7 and CC8.1
Soc2(audit, policy, pii, mtls) ==
    [access     |-> PassOr("warn", mtls),
     monitoring |-> PassOr("fail", audit),
     data       |-> PassOr("warn", pii),
     change     |-> PassOr("warn", policy)]

\* Articles 12, 14, 9 and 15
EuAiAct(audit, policy, pii, budget) ==
    [records    |-> PassOr("fail", audit),
     oversight  |-> PassOr("fail", policy),
     data       |-> PassOr("warn", pii),
     robustness |-> PassOr("warn", budget)]

-----------------------------------------------------------------------------
(* Checks                                                                  *)

Needs(switches, days, agents) == [switches |-> switches, days |-> days, agents |-> agents]

\* The requirements of a framework; no limit of agents is <<>>.
Requirements ==
    [Soc2    |-> Needs({"audit", "policy"}, 90, <<>>),
     EuAiAct |-> Needs({"pii", "audit", "policy"}, 180, <<>>),
     Hipaa   |-> Needs({"pii", "audit", "policy"}, 365, <<50>>)]

\* is_compliant: every check passes in the state [on, days, agents].
IsCompliant(framework, state) ==
    LET r == Requirements[framework] IN
    /\ r.switches \subseteq state.on
    /\ state.days >= r.days
    /\ state.agents =< Or(r.agents, state.agents)
=============================================================================
