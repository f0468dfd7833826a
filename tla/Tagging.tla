------------------------------- MODULE Tagging ------------------------------
(***************************************************************************)
(* How the policies of the proxy turn an event into a compliance tag.      *)
(* Modelled from crates/agentland-proxy/src/policy/engine.rs, types.rs,    *)
(* loader.rs and pii.rs.                                                   *)
(*                                                                         *)
(* Text is told apart by what the patterns of PiiDetector match in it: a   *)
(* string is a set of matches [kind, digits], where the digits matter for  *)
(* an SSN alone. A policy entry is                                         *)
(*   [id, named : what its id contains, enabled, rules : Seq of rules],    *)
(* a rule [scan : kinds to scan for, class : an agent or "*", tokens and   *)
(* cost : the daily limits it sets, monthly : the monthly limit it sets,   *)
(* severity : a word], and the file of the policies                        *)
(*   [state : "missing", "broken" or "read", policies : Seq of entries].   *)
(***************************************************************************)
EXTENDS Integers, Sequences, SequencesExt

Severities == {"low", "medium", "high", "critical"}

\* The class of the limits of all agents together.
Everyone == <<"*">>

-----------------------------------------------------------------------------
(* The text of an event                                                    *)

Patterns == {"email", "phone", "ssn", "credit_card", "ip_address"}

\* is_valid_ssn: area, group and serial of a number that can be given out.
IsValidSsn(digits) ==
    /\ digits[1] \notin {0, 666} /\ digits[1] < 900
    /\ digits[2] # 0
    /\ digits[3] # 0

\* Only the pattern of an SSN has a validator.
Validates(kind, digits) == kind = "ssn" => IsValidSsn(digits)

\* scan_text_with_path: a kind is found when one of its matches is valid.
ScanText(matches) ==
    {kind \in Patterns : \E m \in matches : m.kind = kind /\ Validates(kind, m.digits)}

\* scan_json over the strings of a payload: the kinds found in any of them.
ScanJson(strings) == UNION {ScanText(strings[i]) : i \in DOMAIN strings}

\* An event without a payload is scanned by its tags.
Scanned(event) == IF event.payload = <<>> THEN event.tags ELSE ScanJson(event.payload)

-----------------------------------------------------------------------------
(* The policies                                                            *)

\* load_from_file: a file that is missing has no policies.
LoadFromFile(file) ==
    [ok |-> file.state # "broken",
     policies |-> IF file.state = "read" THEN file.policies ELSE <<>>]

\* At startup a file that cannot be parsed leaves the engine without policies.
EngineConfig(file) == IF LoadFromFile(file).ok THEN LoadFromFile(file).policies ELSE <<>>

\* A list of entries as the YAML schema has them.
IsPolicyList(policies) ==
    /\ policies \in Seq(Range(policies))
    /\ \A i \in DOMAIN policies :
          policies[i].enabled \in BOOLEAN /\ policies[i].rules \in Seq(Range(policies[i].rules))

Some(rules, P(_)) == \E i \in DOMAIN rules : P(rules[i])

IsPii(entry) ==
    entry.named = "pii" \/ Some(entry.rules, LAMBDA r : r.scan # {})

IsBudget(entry) ==
    entry.named = "budget" \/ Some(entry.rules, LAMBDA r : r.tokens # <<>> \/ r.cost # <<>>)

\* extract_budget_policy also takes the entries with a monthly limit alone.
IsBudgetPolicy(entry) ==
    IsBudget(entry) \/ Some(entry.rules, LAMBDA r : r.monthly # <<>>)

Decision(rule, action) == [rule |-> rule, action |-> action]

\* parse_severity
ParseSeverity(word) == IF word \in Severities THEN word ELSE "high"

\* An alert when a kind that some rule asks for is there, with the severity
\* of the first rule, high when it has none.
ScanFor(entry) == UNION {entry.rules[i].scan : i \in DOMAIN entry.rules}

EvaluatePii(entry, event) ==
    LET first == entry.rules[1].severity
    IN IF ScanFor(entry) \cap Scanned(event) = {} THEN <<>>
       ELSE << Decision(entry.id, IF first = <<>> THEN "high" ELSE ParseSeverity(first[1])) >>

\* check_budget sees neither the entry nor the other entries.
EvaluateBudget(verdict) ==
    IF verdict = "allow" THEN <<>> ELSE << Decision("budget-cap", verdict) >>

\* Faulty variant: the entries that are switched off are evaluated as well.
EvaluateAll(config, event, verdict) ==
    LET entry(acc, e) ==
          acc \o (IF IsPii(e) THEN EvaluatePii(e, event) ELSE <<>>)
              \o (IF IsBudget(e) THEN EvaluateBudget(verdict) ELSE <<>>)
    IN FoldLeft(entry, <<>>, config)

\* evaluate_inner
Evaluate(config, event, verdict) ==
    LET entry(acc, e) ==
          IF ~ e.enabled THEN acc
          ELSE acc \o (IF IsPii(e) THEN EvaluatePii(e, event) ELSE <<>>)
                   \o (IF IsBudget(e) THEN EvaluateBudget(verdict) ELSE <<>>)
    IN FoldLeft(entry, <<>>, config)

-----------------------------------------------------------------------------
(* Decisions                                                               *)

ComplianceStatus(action) ==
    CASE action \in {"allow", "low"} -> "pass"
      [] action \in {"redact", "medium", "high"} -> "warn"
      [] OTHER -> "block"

Rank(action) ==
    CASE action = "allow" -> 0
      [] action = "low" -> 1
      [] action = "medium" -> 2
      [] action = "high" -> 3
      [] action \in {"critical", "redact"} -> 4
      [] action = "block" -> 5

\* max_by_key takes the last of the highest.
Worst(decisions) ==
    CHOOSE i \in DOMAIN decisions :
        \A j \in DOMAIN decisions :
            Rank(decisions[j].action) =< Rank(decisions[i].action)
              /\ (j > i => Rank(decisions[j].action) < Rank(decisions[i].action))

NoTag == [status |-> "audit", rule |-> "none"]
PassAll == [status |-> "pass", rule |-> "all"]

\* compute_compliance_tag
ComplianceTag(decisions) ==
    IF decisions = <<>> THEN NoTag
    ELSE LET worst == decisions[Worst(decisions)] IN
         IF worst.action = "allow" THEN PassAll
         ELSE [status |-> ComplianceStatus(worst.action), rule |-> worst.rule]

\* PolicyHook::compliance_tag of the engine; its check_request never refuses.
HookTag(config, event, verdict) == ComplianceTag(Evaluate(config, event, verdict))

-----------------------------------------------------------------------------
(* Limits                                                                  *)

NoLimits == [tokens |-> <<>>, cost |-> <<>>]

Overlay(old, rule) ==
    [tokens |-> IF rule.tokens = <<>> THEN old.tokens ELSE rule.tokens,
     cost   |-> IF rule.cost = <<>> THEN old.cost ELSE rule.cost]

\* extract_budget_policy: the rules in order, the later over the earlier;
\* the limits of a class that no rule names are NoLimits.
ExtractBudgetPolicy(config, class) ==
    LET entry(acc, e) ==
          IF ~ e.enabled \/ ~ IsBudgetPolicy(e) THEN acc
          ELSE FoldLeft(LAMBDA l, r : IF r.class = class THEN Overlay(l, r) ELSE l, acc, e.rules)
    IN FoldLeft(entry, NoLimits, config)
=============================================================================
