------------------------------ MODULE Platform -------------------------------
(***************************************************************************)
(* The platform server: what its license switches on at the start, the     *)
(* tags that its hook gives to events of overlapping log tasks, the        *)
(* budget that these tasks charge under two locks, and the rules that are  *)
(* loaded again while they run.                                            *)
(* Modelled from crates/agentland-server/src/main.rs and api.rs and        *)
(* crates/agentland-policy/src/hook.rs, engine.rs, budget.rs and pii.rs.   *)
(*                                                                         *)
(* An event is told apart by its agent, its tokens and its cost, the       *)
(* fields that rules read, and what its URL, tags and payload hold: a text *)
(* is the set of what the patterns of mask_pii can find in it. A field is  *)
(* <<"text", s>> or <<"number", n>>; one that is missing or unknown is the *)
(* empty text. In the server as it is composed the routes of this module   *)
(* are only reached through platform_router (see the README).              *)
(***************************************************************************)
EXTENDS Compliance, FiniteSets, FiniteSetsExt, Functions, SequencesExt

CONSTANTS
    Events,       \* the calls of compliance_tag
    Agents,       \* agent identifiers
    Contents,     \* what an event may hold
    LicenseKeys,  \* the values of AGENTLAND_LICENSE_KEY
    ConfigFiles,  \* the configuration, from file and environment together
    ApiKeys,      \* the values of AGENTLAND_API_KEY
    TierLimits,   \* the limits of a tier
    Documents,    \* what a reload may be given
    ReloadTokens, \* the tokens a caller may present
    MaxReloads    \* bound of the model: how many reloads and tenants there are

Units == {"tokens", "cost"}
NoLimit == [u \in Units |-> <<>>]
NoUse == [u \in Units |-> 0]

Limits == [Units -> Seq(Nat)]
Sections == [limit : Limits, agent : [Agents -> Limits]]

ASSUME PlatformAssumption ==
    /\ IsFiniteSet(Events)
    /\ \A c \in Contents : c.agent \in Agents /\ c.amount \in [Units -> Nat]
    /\ \A file \in ConfigFiles : file.section \in Sections
    /\ TierLimits \in [{"community"} \cup DOMAIN TierDefaults -> Limits]
    /\ MaxReloads \in Nat

VARIABLES
    key,        \* the license key
    audited,    \* whether there was a pool at the start
    ca,         \* whether there is a certificate authority
    settings,   \* the platform section of the configuration
    apiKey,     \* AGENTLAND_API_KEY
    rules,      \* PolicyEngine.rules
    reloads,    \* how many reloads were asked for
    tenants,    \* how many tenants were created besides the default one
    task,       \* where the call of compliance_tag for an event stands
    total,      \* BudgetTracker.global_usage
    usage       \* BudgetTracker.usage

vars == <<key, audited, ca, settings, apiKey, rules, reloads, tenants, task, total, usage>>
boot == <<key, audited, ca, settings, apiKey>>

-----------------------------------------------------------------------------
(* The start                                                               *)

Info == ValidateLicense(key)

DefaultSection == [limit |-> NoLimit, agent |-> [a \in Agents |-> NoLimit]]

\* PlatformConfig::load: one value that cannot be read discards them all, the
\* limits with them.
LoadConfig(file) == IF file.readable THEN file.section ELSE DefaultSection

\* pii_enabled of the hook is the switch of the policies.
HookScans == Info.policy

GlobalLimit ==
    [u \in Units |-> IF settings.limit[u] # <<>> THEN settings.limit[u]
                     ELSE TierLimits[Info.tier][u]]

\* An agent has a cost limit only if it has a token limit as well.
AgentLimit(a) ==
    IF settings.agent[a].tokens = <<>> THEN NoLimit ELSE settings.agent[a]

Idle == [at |-> "idle"]
Tags == {"pass", "warn", "pii", "block", "over", "refused"}

TypeOK ==
    /\ key \in LicenseKeys
    /\ audited \in BOOLEAN
    /\ ca \in BOOLEAN
    /\ settings \in Sections
    /\ apiKey \in ApiKeys
    /\ rules \in {<<>>} \cup {d[1].rules : d \in Documents \ {<<>>}}
    /\ reloads \in 0 .. MaxReloads
    /\ tenants \in 0 .. MaxReloads
    /\ task \in [Events -> {Idle} \cup
                 [at : {"global", "agent", "done"}, tag : Tags, of : Contents]]
    /\ total \in [Units -> Nat]
    /\ usage \in [Agents -> [Units -> Nat]]

Init ==
    /\ key \in LicenseKeys
    /\ audited \in BOOLEAN
    /\ ca \in IF Info.identity THEN BOOLEAN ELSE {FALSE}
    /\ settings \in {LoadConfig(file) : file \in ConfigFiles}
    /\ apiKey \in ApiKeys
    /\ rules = <<>>
    /\ reloads = 0
    /\ tenants = 0
    /\ task = [e \in Events |-> Idle]
    /\ total = NoUse
    /\ usage = [a \in Agents |-> NoUse]

-----------------------------------------------------------------------------
(* The rules                                                               *)

Empty == <<"text", "">>

FieldValue(content, field) ==
    IF field \in DOMAIN content.fields THEN content.fields[field] ELSE Empty

AreNumbers(v, w) == v[1] = "number" /\ w[1] = "number"

\* A text contains itself and the empty text; a pattern is the set of the
\* values that it matches, empty when it cannot be compiled.
Matches(content, c) ==
    LET v == FieldValue(content, c.field)
        w == c.value
    IN CASE c.operator = "equals"       -> v = w
         [] c.operator = "not_equals"   -> v # w
         [] c.operator = "contains"     -> w \in {v, Empty}
         [] c.operator = "greater_than" -> AreNumbers(v, w) /\ v[2] > w[2]
         [] c.operator = "less_than"    -> AreNumbers(v, w) /\ v[2] < w[2]
         [] c.operator = "matches"      -> v \in w

Hits(rule, content) == rule.enabled /\ \A c \in rule.conditions : Matches(content, c)

\* The action of the first rule that hits.
Decision(content) ==
    LET hits == {i \in DOMAIN rules : Hits(rules[i], content)}
    IN IF hits = {} THEN "allow" ELSE rules[Min(hits)].action

\* load_rules_from_yaml, load_rules_from_file: all the rules, or an error and
\* the rules as they were.
LoadRules(document) == IF document.ok THEN document.rules ELSE rules

-----------------------------------------------------------------------------
(* compliance_tag                                                          *)

Task(e, content, at, tag) == task' = [task EXCEPT ![e] = [at |-> at, tag |-> tag, of |-> content]]

Fits(limit, used, amount) ==
    \A u \in Units : limit[u] # <<>> => used[u] + amount[u] =< limit[u][1]

Charge(used, amount) == [u \in Units |-> used[u] + amount[u]]

\* The rules are read under the lock; a block ends the call.
Evaluate(e) ==
    /\ task[e] = Idle
    /\ \E content \in Contents :
          LET d == Decision(content) IN
          IF d = "block" THEN Task(e, content, "done", "block")
          ELSE Task(e, content, "global", IF d = "alert" THEN "warn" ELSE "pass")
    /\ UNCHANGED <<boot, rules, reloads, tenants, total, usage>>

Content(e) == task[e].of

\* Under the lock of global_usage.
ChargeGlobal(e) ==
    /\ task[e].at = "global"
    /\ IF Fits(GlobalLimit, total, Content(e).amount)
       THEN /\ total' = Charge(total, Content(e).amount)
            /\ Task(e, Content(e), "agent", task[e].tag)
       ELSE UNCHANGED total /\ Task(e, Content(e), "done", "over")
    /\ UNCHANGED <<boot, rules, reloads, tenants, usage>>

PiiPatterns == {"ssn", "credit_card", "email", "phone", "ip"}

\* mask_pii: whatever a pattern finds is replaced by a label.
MaskPii(text) == text \ PiiPatterns

\* Faulty variant: the payload is searched instead of the tags.
HasPiiInPayload(content) ==
    HookScans /\ \E text \in {content.url, content.payload} : MaskPii(text) # text

\* has_pii looks into the URL and the tags, and not into the payload.
HasPii(content) ==
    HookScans /\ \E text \in {content.url, content.tags} : MaskPii(text) # text

\* Faulty variant: an agent that is refused is charged all the same.
ChargeAgentAlways(e) ==
    LET content == Content(e) IN
    /\ task[e].at = "agent"
    /\ usage' = [usage EXCEPT ![content.agent] = Charge(@, content.amount)]
    /\ Task(e, content, "done",
            IF ~ Fits(AgentLimit(content.agent), usage[content.agent], content.amount) THEN "refused"
            ELSE IF HasPii(content) THEN "pii" ELSE task[e].tag)
    /\ UNCHANGED <<boot, rules, reloads, tenants, total>>

\* Under the lock of usage, and then the scan. The tags "over" and "refused"
\* are both written warn:budget-exceeded.
ChargeAgent(e) ==
    LET content == Content(e) IN
    /\ task[e].at = "agent"
    /\ IF Fits(AgentLimit(content.agent), usage[content.agent], content.amount)
       THEN /\ usage' = [usage EXCEPT ![content.agent] = Charge(@, content.amount)]
            /\ Task(e, content, "done", IF HasPii(content) THEN "pii" ELSE task[e].tag)
       ELSE UNCHANGED usage /\ Task(e, content, "done", "refused")
    /\ UNCHANGED <<boot, rules, reloads, tenants, total>>

-----------------------------------------------------------------------------
(* The routes of the platform                                              *)

\* require_api_key; without a key in the environment everybody may call.
Authorized(token) == apiKey = <<>> \/ token = apiKey

\* rules_yaml has priority; what cannot be read or parsed changes nothing.
ReloadPolicies ==
    /\ reloads < MaxReloads
    /\ reloads' = reloads + 1
    /\ \E token \in ReloadTokens, yaml, file \in Documents :
          LET document == IF yaml # <<>> THEN yaml ELSE file IN
          rules' = IF Authorized(token) /\ document # <<>> THEN LoadRules(document[1]) ELSE rules
    /\ UNCHANGED <<boot, tenants, task, total, usage>>

\* Tenants have no part in any decision.
CreateTenant ==
    /\ tenants < MaxReloads
    /\ \E token \in ReloadTokens : Authorized(token)
    /\ tenants' = tenants + 1
    /\ UNCHANGED <<boot, rules, reloads, task, total, usage>>

HasBudget == GlobalLimit # NoLimit

Soc2Report == Soc2(audited, Info.policy, Info.pii, ca)
EuReport == EuAiAct(audited, Info.policy, Info.pii, HasBudget)

-----------------------------------------------------------------------------
Tagging(e) == Evaluate(e) \/ ChargeGlobal(e) \/ ChargeAgent(e)

Next == (\E e \in Events : Tagging(e)) \/ ReloadPolicies \/ CreateTenant

Spec == Init /\ [][Next]_vars

-----------------------------------------------------------------------------
(* Properties                                                              *)

Stage(at) == {e \in Events : task[e].at = at}
Tagged(tags) == {e \in Stage("done") : task[e].tag \in tags}
Amount(events, u) == SumFunctionOnSet([e \in events |-> Content(e).amount[u]], events)
Of(a) == {e \in Events : task[e] # Idle /\ Content(e).agent = a}

Charged == {"pass", "warn", "pii"}

(* Tags and ledgers agree at all times: an agent is charged for its events *)
(* that were tagged neither blocked nor over budget, everybody for these,  *)
(* for those that their agent's limit refused, and for those between the   *)
(* two locks; and no ledger is above its limit, however many tasks         *)
(* overlap (budget.rs:58-106, hook.rs:98-117).                             *)
LedgersMatchTags ==
    \A u \in Units :
        /\ total[u] = Amount(Tagged(Charged \cup {"refused"}) \cup Stage("agent"), u)
        /\ \A a \in Agents :
              /\ usage[a][u] = Amount(Tagged(Charged) \cap Of(a), u)
              /\ AgentLimit(a)[u] # <<>> => usage[a][u] =< AgentLimit(a)[u][1]
        /\ GlobalLimit[u] # <<>> => total[u] =< GlobalLimit[u][1]

\* The keys that agentland-keygen writes override no switch.
Overrides == IsValid(key) /\ <<key.policy, key.pii, key.identity>> # << <<>>, <<>>, <<>> >>

(* What the SOC 2 report says of data protection is true of the tags: when *)
(* it passes for a license without overrides, no event with personal data  *)
(* in what the hook reads was tagged as clean or merely alerted. An        *)
(* override of policy_enabled switches the scan off and leaves the report  *)
(* as it was (main.rs:191, api.rs:253; compliance.rs:76-85).               *)
MaskingIsDone ==
    Soc2Report.data = "pass" /\ ~ Overrides =>
        \A e \in Tagged({"pass", "warn"}) :
            (Content(e).url \cup Content(e).tags) \cap PiiPatterns = {}

State(agents) ==
    [on |-> {s \in {"audit", "policy", "pii"} :
               CASE s = "audit" -> audited [] s = "policy" -> Info.policy [] OTHER -> Info.pii},
     days |-> Info.days, agents |-> agents]

(* The two ways of compliance.rs to judge one system agree: what the check *)
(* calls compliant passes the controls on the same switches in the report  *)
(* of its framework; and a system that is compliant with the stricter      *)
(* framework is so with the weaker ones                                    *)
(* (compliance.rs:49-181, 253-446).                                        *)
ReportsAgree ==
    \A agents \in {0, 50, 51} :
        LET st == State(agents) IN
        /\ IsCompliant("Soc2", st) => Soc2Report.monitoring = "pass" /\ Soc2Report.change = "pass"
        /\ IsCompliant("EuAiAct", st) =>
              \A c \in DOMAIN EuReport \ {"robustness"} : EuReport[c] = "pass"
        /\ IsCompliant("Hipaa", st) => IsCompliant("EuAiAct", st)
        /\ IsCompliant("EuAiAct", st) => IsCompliant("Soc2", st)
=============================================================================
