--------------------------- MODULE PlatformProofs ---------------------------
(***************************************************************************)
(* Proofs about Platform: its type invariant, that tags and ledgers agree  *)
(* and no ledger is above its limit, and what the reports say of the tags  *)
(* and of each other.                                                      *)
(***************************************************************************)
EXTENDS Platform, DataFacts

-----------------------------------------------------------------------------
(* The inductive invariant                                                 *)

\* What a call has behind it: it only waits for a lock when no rule blocked it,
\* and was not tagged as clean without the scan.
StagesSound ==
    \A e \in Events :
        /\ task[e].at \in {"global", "agent"} => task[e].tag \in {"pass", "warn"}
        /\ task[e].at = "done" /\ task[e].tag \in {"pass", "warn"} => ~ HasPii(Content(e))

IInv == TypeOK /\ StagesSound /\ LedgersMatchTags

-----------------------------------------------------------------------------
(* The types                                                               *)

Calls == [at : {"global", "agent", "done"}, tag : Tags, of : Contents]

\* The types at the start.
LEMMA InitTypes == Init => TypeOK
<1> SUFFICES ASSUME Init PROVE TypeOK
  OBVIOUS
<1>1. \A e \in Events : task[e] = Idle
  BY DEF Init
<1>2. NoLimit \in Limits
  BY DEF NoLimit, Limits
<1>3. DefaultSection \in Sections
  BY <1>2 DEF DefaultSection, Sections
<1>4. settings \in Sections
  BY <1>3, PlatformAssumption DEF Init, LoadConfig
<1>5. total \in [Units -> Nat] /\ usage \in [Agents -> [Units -> Nat]]
  BY DEF Init, NoUse
<1>6. key \in LicenseKeys /\ audited \in BOOLEAN /\ ca \in BOOLEAN /\ apiKey \in ApiKeys
  BY DEF Init
<1>7. rules = <<>> /\ reloads \in 0 .. MaxReloads /\ tenants \in 0 .. MaxReloads
  BY PlatformAssumption DEF Init
<1>8. task \in [Events -> {Idle}]
  BY DEF Init
<1> QED BY <1>4, <1>5, <1>6, <1>7, <1>8 DEF TypeOK

\* A charge keeps the type of a ledger.
LEMMA ChargeType ==
  ASSUME NEW used \in [Units -> Nat], NEW amount \in [Units -> Nat]
  PROVE  Charge(used, amount) \in [Units -> Nat]
BY DEF Charge

\* Every step of a hook keeps the types.
LEMMA TypeKept == TypeOK /\ StagesSound /\ [Next]_vars => TypeOK'
<1> SUFFICES ASSUME TypeOK, StagesSound, [Next]_vars PROVE TypeOK'
  OBVIOUS
<1>0. /\ task \in [Events -> {Idle} \cup Calls]
      /\ total \in [Units -> Nat] /\ usage \in [Agents -> [Units -> Nat]]
      /\ \A c \in Contents : c.agent \in Agents /\ c.amount \in [Units -> Nat]
  BY PlatformAssumption DEF TypeOK, Calls
<1>1. ASSUME NEW e \in Events, Evaluate(e) PROVE TypeOK'
  <2>1. task' \in [Events -> {Idle} \cup Calls]
    BY <1>0, <1>1 DEF Evaluate, Task, Calls, Tags
  <2> QED BY <1>1, <2>1 DEF Evaluate, boot, TypeOK, Calls
<1>2. ASSUME NEW e \in Events, ChargeGlobal(e) PROVE TypeOK'
  <2>1. task[e] \in Calls
    BY <1>0, <1>2 DEF ChargeGlobal, Idle
  <2>2. Content(e) \in Contents /\ task[e].tag \in Tags
    BY <2>1 DEF Content, Calls
  <2>3. total' \in [Units -> Nat]
    BY <1>0, <1>2, <2>2, ChargeType DEF ChargeGlobal
  <2>4. task' \in [Events -> {Idle} \cup Calls]
    BY <1>0, <1>2, <2>2 DEF ChargeGlobal, Task, Calls, Tags
  <2> QED BY <1>2, <2>3, <2>4 DEF ChargeGlobal, boot, TypeOK, Calls
<1>3. ASSUME NEW e \in Events, ChargeAgent(e) PROVE TypeOK'
  <2>1. task[e] \in Calls
    BY <1>0, <1>3 DEF ChargeAgent, Idle
  <2>2. Content(e) \in Contents /\ task[e].tag \in Tags
    BY <2>1 DEF Content, Calls
  <2>3. usage' \in [Agents -> [Units -> Nat]]
    <3>1. Charge(usage[Content(e).agent], Content(e).amount) \in [Units -> Nat]
      BY <1>0, <2>2, ChargeType
    <3> QED BY <1>0, <1>3, <3>1 DEF ChargeAgent
  <2>4. task' \in [Events -> {Idle} \cup Calls]
    BY <1>0, <1>3, <2>2 DEF ChargeAgent, Task, Calls, Tags
  <2> QED BY <1>3, <2>3, <2>4 DEF ChargeAgent, boot, TypeOK, Calls
<1>4. CASE ReloadPolicies
  <2>1. rules' \in {<<>>} \cup {d[1].rules : d \in Documents \ {<<>>}}
    BY <1>4 DEF ReloadPolicies, LoadRules, TypeOK
  <2>2. reloads' \in 0 .. MaxReloads
    BY <1>4, PlatformAssumption DEF ReloadPolicies, TypeOK
  <2> QED BY <1>4, <2>1, <2>2 DEF ReloadPolicies, boot, TypeOK
<1>5. CASE CreateTenant
  <2>1. tenants' \in 0 .. MaxReloads
    BY <1>5, PlatformAssumption DEF CreateTenant, TypeOK
  <2> QED BY <1>5, <2>1 DEF CreateTenant, boot, TypeOK
<1>6. CASE UNCHANGED vars
  BY <1>6 DEF vars, TypeOK
<1> QED BY <1>1, <1>2, <1>3, <1>4, <1>5, <1>6 DEF Next, Tagging

\* Where a call goes, action by action.
LEMMA CallSteps ==
  ASSUME TypeOK, StagesSound, [Next]_vars
  PROVE  \/ UNCHANGED <<task, total, usage>>
         \/ \E e \in Events :
              /\ \A d \in Events \ {e} : task'[d] = task[d]
              /\ task'[e] \in Calls
              /\ Evaluate(e) \/ ChargeGlobal(e) \/ ChargeAgent(e)
<1> USE DEF TypeOK
<1>1. ASSUME NEW e \in Events, Tagging(e)
      PROVE  (\A d \in Events \ {e} : task'[d] = task[d]) /\ task'[e] \in Calls
  <2>1. \E content \in Contents, at \in {"global", "agent", "done"}, tag \in Tags :
           Task(e, content, at, tag)
    <3>1. CASE Evaluate(e)
      BY <3>1 DEF Evaluate, Tags
    <3>2. CASE ChargeGlobal(e)
      <4>1. task[e] \in Calls
        BY <3>2 DEF ChargeGlobal, Idle, Calls
      <4> QED BY <3>2, <4>1 DEF ChargeGlobal, Calls, Content, Tags
    <3>3. CASE ChargeAgent(e)
      <4>1. task[e] \in Calls
        BY <3>3 DEF ChargeAgent, Idle, Calls
      <4> QED BY <3>3, <4>1 DEF ChargeAgent, Calls, Content, Tags
    <3> QED BY <1>1, <3>1, <3>2, <3>3 DEF Tagging
  <2> QED BY <2>1 DEF Task, Calls
<1> QED BY <1>1 DEF Next, Tagging, ReloadPolicies, CreateTenant, vars

\* No license, and with it no switch, changes while the server runs.
LEMMA BootFixed == [Next]_vars => UNCHANGED boot
BY DEF Next, Tagging, Evaluate, ChargeGlobal, ChargeAgent, ReloadPolicies, CreateTenant, vars, boot

\* A call stands at a lock only when no rule has blocked it before.
LEMMA StagesKept == TypeOK /\ StagesSound /\ [Next]_vars => StagesSound'
<1> SUFFICES ASSUME TypeOK, StagesSound, [Next]_vars PROVE StagesSound'
  OBVIOUS
<1>1. HookScans' = HookScans
  BY BootFixed DEF HookScans, Info, boot
<1>2. \A c \in Contents : HasPii(c)' = HasPii(c)
  BY <1>1 DEF HasPii
<1>3. CASE UNCHANGED task
  BY <1>1, <1>3 DEF StagesSound, HasPii, Content
<1>4. ASSUME NEW e \in Events, \A d \in Events \ {e} : task'[d] = task[d],
             task'[e] \in Calls, Evaluate(e) \/ ChargeGlobal(e) \/ ChargeAgent(e)
      PROVE  StagesSound'
  <2>1. ASSUME NEW d \in Events, d # e
        PROVE  /\ task'[d].at \in {"global", "agent"} => task'[d].tag \in {"pass", "warn"}
               /\ task'[d].at = "done" /\ task'[d].tag \in {"pass", "warn"} => ~ HasPii(Content(d))'
    BY <1>1, <1>4, <2>1 DEF StagesSound, HasPii, Content
  <2>2. /\ task'[e].at \in {"global", "agent"} => task'[e].tag \in {"pass", "warn"}
        /\ task'[e].at = "done" /\ task'[e].tag \in {"pass", "warn"} => ~ HasPii(Content(e))'
    <3>0. task \in [Events -> {Idle} \cup Calls]
      BY DEF TypeOK, Calls
    <3>1. CASE Evaluate(e)
      BY <3>0, <3>1 DEF Evaluate, Task
    <3>2. CASE ChargeGlobal(e)
      BY <3>0, <3>2 DEF ChargeGlobal, Task, StagesSound
    <3>3. CASE ChargeAgent(e)
      <4>1. \/ task'[e] = [at |-> "done", tag |-> "refused", of |-> Content(e)]
            \/ task'[e] = [at |-> "done", tag |-> IF HasPii(Content(e)) THEN "pii" ELSE task[e].tag,
                           of |-> Content(e)]
        BY <3>0, <3>3 DEF ChargeAgent, Task
      <4>2. Content(e)' = Content(e)
        BY <4>1 DEF Content
      <4>3. HasPii(Content(e))' <=> HasPii(Content(e))
        BY <1>1, <4>2 DEF HasPii
      <4> QED BY <4>1, <4>3
    <3> QED BY <1>4, <3>1, <3>2, <3>3
  <2> QED BY <2>1, <2>2 DEF StagesSound
<1> QED BY <1>3, <1>4, CallSteps

-----------------------------------------------------------------------------
(* The ledgers                                                             *)

\* The usage that the calls of a set stand for.
AmountIn(calls, S, u) == SumFunctionOnSet([e \in S |-> calls[e].of.amount[u]], S)

\* The amount that tags put on a ledger is a number.
LEMMA AmountType ==
  ASSUME NEW S \in SUBSET Events, NEW u \in Units, NEW calls, \A e \in S : calls[e] \in Calls
  PROVE  AmountIn(calls, S, u) \in Nat
<1> DEFINE f == [e \in S |-> calls[e].of.amount[u]]
<1>1. IsFiniteSet(S)
  BY PlatformAssumption, FS_Subset
<1>2. \A e \in S : f[e] \in Nat
  BY PlatformAssumption DEF Calls
<1> HIDE DEF f
<1>3. SumFunctionOnSet(f, S) \in Nat
  BY <1>1, <1>2, SumRemove
<1> QED BY <1>3 DEF AmountIn, f

\* Only what the calls of the set hold counts.
LEMMA AmountSame ==
  ASSUME NEW S \in SUBSET Events, NEW u \in Units, NEW calls, NEW others,
         \A e \in S : others[e].of = calls[e].of
  PROVE  AmountIn(others, S, u) = AmountIn(calls, S, u)
<1> DEFINE f == [e \in S |-> calls[e].of.amount[u]]
           g == [e \in S |-> others[e].of.amount[u]]
<1>1. f = g
  OBVIOUS
<1> QED BY <1>1 DEF AmountIn

\* One more call adds its amount.
LEMMA AmountMore ==
  ASSUME NEW S \in SUBSET Events, NEW x \in Events \ S, NEW u \in Units,
         \A e \in S : task'[e].of = task[e].of, \A e \in S \cup {x} : task'[e] \in Calls
  PROVE  AmountIn(task', S \cup {x}, u) = AmountIn(task, S, u) + task'[x].of.amount[u]
<1> DEFINE f == [e \in S |-> task[e].of.amount[u]]
           g == [e \in S \cup {x} |-> task'[e].of.amount[u]]
<1>1. IsFiniteSet(S)
  BY PlatformAssumption, FS_Subset
<1>2. \A e \in S \cup {x} : g[e] \in Nat
  BY PlatformAssumption DEF Calls
<1>3. \A e \in S : g[e] = f[e]
  OBVIOUS
<1>4. g[x] = task'[x].of.amount[u]
  OBVIOUS
<1>5. AmountIn(task', S \cup {x}, u) = SumFunctionOnSet(g, S \cup {x})
  BY DEF AmountIn
<1>6. AmountIn(task, S, u) = SumFunctionOnSet(f, S)
  BY DEF AmountIn
<1> HIDE DEF f, g
<1>7. SumFunctionOnSet(g, S \cup {x}) = SumFunctionOnSet(g, S) + g[x]
  BY <1>1, <1>2, SumAdd
<1>8. SumFunctionOnSet(g, S) = SumFunctionOnSet(f, S)
  BY <1>1, <1>3, SumSame
<1> QED BY <1>4, <1>5, <1>6, <1>7, <1>8

\* The calls that everybody is charged for, and those that an agent is.
ForAll == Tagged(Charged \cup {"refused"}) \cup Stage("agent")
ForAgent(a) == Tagged(Charged) \cap Of(a)

\* LedgersMatchTags, in these words.
LEMMA LedgerWords ==
  LedgersMatchTags <=>
    \A u \in Units :
      /\ total[u] = AmountIn(task, ForAll, u)
      /\ GlobalLimit[u] # <<>> => total[u] =< GlobalLimit[u][1]
      /\ \A a \in Agents :
           /\ usage[a][u] = AmountIn(task, ForAgent(a), u)
           /\ AgentLimit(a)[u] # <<>> => usage[a][u] =< AgentLimit(a)[u][1]
BY DEF LedgersMatchTags, Amount, AmountIn, ForAll, ForAgent, Content

\* The limits of a license are numbers.
LEMMA LimitTypes ==
  TypeOK => /\ \A u \in Units : GlobalLimit[u] # <<>> => GlobalLimit[u][1] \in Nat
            /\ \A a \in Agents, u \in Units :
                 AgentLimit(a)[u] # <<>> => AgentLimit(a)[u][1] \in Nat
<1> SUFFICES ASSUME TypeOK
             PROVE  /\ \A u \in Units : GlobalLimit[u] # <<>> => GlobalLimit[u][1] \in Nat
                    /\ \A a \in Agents, u \in Units :
                         AgentLimit(a)[u] # <<>> => AgentLimit(a)[u][1] \in Nat
  OBVIOUS
<1>1. \A l \in Limits, u \in Units : l[u] # <<>> => l[u][1] \in Nat
  BY DEF Limits
<1>2. settings.limit \in Limits /\ settings.agent \in [Agents -> Limits]
  BY DEF TypeOK, Sections
<1>3. TierLimits[Info.tier] \in Limits
  <2>1. \A t \in DOMAIN TierDefaults : TierDefaults[t].tier = t
    BY DEF TierDefaults, License
  <2>2. Info.tier \in {"community"} \cup DOMAIN TierDefaults
    <3>1. CASE IsValid(key)
      <4> DEFINE d == TierDefaults[key.tier]
      <4>1. key.tier \in DOMAIN TierDefaults
        BY <3>1 DEF IsValid
      <4>2. d = [tier |-> d.tier, agents |-> d.agents, days |-> d.days, policy |-> d.policy,
                 pii |-> d.pii, compliance |-> d.compliance, identity |-> d.identity]
        BY <4>1 DEF TierDefaults, License
      <4> HIDE DEF d
      <4>3. Info.tier = d.tier
        BY <3>1, <4>2 DEF Info, ValidateLicense, d
      <4> QED BY <2>1, <4>1, <4>3 DEF d
    <3>2. CASE ~ IsValid(key)
      BY <3>2 DEF Info, ValidateLicense, Community, License
    <3> QED BY <3>1, <3>2
  <2> QED BY <2>2, PlatformAssumption
<1>4. NoLimit \in Limits
  BY DEF NoLimit, Limits
<1>5. \A u \in Units : GlobalLimit[u] = settings.limit[u] \/ GlobalLimit[u] = TierLimits[Info.tier][u]
  BY DEF GlobalLimit
<1>6. \A a \in Agents : AgentLimit(a) \in Limits
  BY <1>2, <1>4 DEF AgentLimit
<1>7. \A u \in Units : GlobalLimit[u] # <<>> => GlobalLimit[u][1] \in Nat
  BY <1>1, <1>2, <1>3, <1>5
<1> QED BY <1>1, <1>6, <1>7

\* At the start the ledgers are empty and so are the tags.
LEMMA InitLedgers == Init => StagesSound /\ LedgersMatchTags
<1> SUFFICES ASSUME Init PROVE StagesSound /\ LedgersMatchTags
  OBVIOUS
<1>1. \A e \in Events : task[e] = Idle
  BY DEF Init
<1>2. StagesSound
  BY <1>1 DEF StagesSound, Idle
<1>3. ForAll = {} /\ \A a \in Agents : ForAgent(a) = {}
  BY <1>1 DEF ForAll, ForAgent, Tagged, Stage, Idle
<1>4. \A u \in Units : AmountIn(task, {}, u) = 0
  BY SumEmpty DEF AmountIn
<1>5. \A u \in Units, a \in Agents : usage[a][u] = 0
  BY DEF Init, NoUse
<1>6. \A n \in Nat : 0 =< n
  OBVIOUS
<1>7. TypeOK
  BY InitTypes
<1>8. ASSUME NEW u \in Units
      PROVE  /\ total[u] = AmountIn(task, ForAll, u)
             /\ GlobalLimit[u] # <<>> => total[u] =< GlobalLimit[u][1]
             /\ \A a \in Agents :
                  /\ usage[a][u] = AmountIn(task, ForAgent(a), u)
                  /\ AgentLimit(a)[u] # <<>> => usage[a][u] =< AgentLimit(a)[u][1]
  <2>1. GlobalLimit[u] # <<>> => GlobalLimit[u][1] \in Nat
    BY <1>7, LimitTypes
  <2>2. \A a \in Agents : AgentLimit(a)[u] # <<>> => AgentLimit(a)[u][1] \in Nat
    BY <1>7, LimitTypes
  <2>3. total[u] = 0 /\ AmountIn(task, ForAll, u) = 0
    <3>1. AmountIn(task, {}, u) = 0 /\ total[u] = 0
      BY <1>4 DEF Init, NoUse
    <3> QED BY <1>3, <3>1
  <2>4. \A a \in Agents : usage[a][u] = 0 /\ AmountIn(task, ForAgent(a), u) = 0
    BY <1>3, <1>4, <1>5
  <2>5. GlobalLimit[u] # <<>> => total[u] =< GlobalLimit[u][1]
    BY <2>1, <2>3
  <2>6. \A a \in Agents : AgentLimit(a)[u] # <<>> => usage[a][u] =< AgentLimit(a)[u][1]
    BY <2>2, <2>4
  <2> QED BY <2>3, <2>4, <2>5, <2>6
<1>9. LedgersMatchTags
  BY <1>8, LedgerWords
<1> QED BY <1>2, <1>9

\* Who is charged for the other calls does not change with a step of e.
LEMMA OthersStay ==
  ASSUME NEW e \in Events, \A d \in Events \ {e} : task'[d] = task[d]
  PROVE  /\ ForAll' \ {e} = ForAll \ {e}
         /\ \A a \in Agents : ForAgent(a)' \ {e} = ForAgent(a) \ {e}
         /\ \A S \in SUBSET (Events \ {e}), u \in Units : AmountIn(task', S, u) = AmountIn(task, S, u)
<1>1. \A d \in Events \ {e} : /\ d \in ForAll' <=> d \in ForAll
                              /\ \A a \in Agents : d \in ForAgent(a)' <=> d \in ForAgent(a)
  BY DEF ForAll, ForAgent, Tagged, Stage, Of, Content
<1>2. /\ ForAll \subseteq Events /\ ForAll' \subseteq Events
      /\ \A a \in Agents : ForAgent(a) \subseteq Events /\ ForAgent(a)' \subseteq Events
  BY DEF ForAll, ForAgent, Tagged, Stage
<1>3. \A S \in SUBSET (Events \ {e}), u \in Units : AmountIn(task', S, u) = AmountIn(task, S, u)
  BY AmountSame
<1> QED BY <1>1, <1>2, <1>3

\* Every step keeps ledgers and tags in agreement.
LEMMA LedgersKept == IInv /\ [Next]_vars => LedgersMatchTags'
<1> SUFFICES ASSUME IInv, [Next]_vars PROVE LedgersMatchTags'
  OBVIOUS
<1> USE DEF IInv
<1>0. /\ GlobalLimit' = GlobalLimit /\ \A a \in Agents : AgentLimit(a)' = AgentLimit(a)
      /\ task \in [Events -> {Idle} \cup Calls]
  BY BootFixed DEF boot, GlobalLimit, AgentLimit, Info, TypeOK, Calls
<1>1. \A u \in Units :
        /\ total[u] = AmountIn(task, ForAll, u)
        /\ GlobalLimit[u] # <<>> => total[u] =< GlobalLimit[u][1]
        /\ \A a \in Agents :
             /\ usage[a][u] = AmountIn(task, ForAgent(a), u)
             /\ AgentLimit(a)[u] # <<>> => usage[a][u] =< AgentLimit(a)[u][1]
  BY LedgerWords
<1>2. SUFFICES ASSUME NEW u \in Units
               PROVE  /\ total'[u] = AmountIn(task', ForAll', u)
                      /\ GlobalLimit[u] # <<>> => total'[u] =< GlobalLimit[u][1]
                      /\ \A a \in Agents :
                           /\ usage'[a][u] = AmountIn(task', ForAgent(a)', u)
                           /\ AgentLimit(a)[u] # <<>> => usage'[a][u] =< AgentLimit(a)[u][1]
  <2>1. LedgersMatchTags' <=>
          \A u \in Units :
            /\ total'[u] = AmountIn(task', ForAll', u)
            /\ GlobalLimit'[u] # <<>> => total'[u] =< GlobalLimit'[u][1]
            /\ \A a \in Agents :
                 /\ usage'[a][u] = AmountIn(task', ForAgent(a)', u)
                 /\ AgentLimit(a)'[u] # <<>> => usage'[a][u] =< AgentLimit(a)'[u][1]
    BY DEF LedgersMatchTags, Amount, AmountIn, ForAll, ForAgent, Content
  <2> QED BY <1>0, <2>1
<1>3. CASE UNCHANGED <<task, total, usage>>
  <2>1. ForAll' = ForAll /\ \A a \in Agents : ForAgent(a)' = ForAgent(a)
    BY <1>3 DEF ForAll, ForAgent, Tagged, Stage, Of, Content
  <2> QED BY <1>1, <1>3, <2>1
<1>4. ASSUME NEW e \in Events, \A d \in Events \ {e} : task'[d] = task[d],
             task'[e] \in Calls, Evaluate(e) \/ ChargeGlobal(e) \/ ChargeAgent(e)
      PROVE  /\ total'[u] = AmountIn(task', ForAll', u)
             /\ GlobalLimit[u] # <<>> => total'[u] =< GlobalLimit[u][1]
             /\ \A a \in Agents :
                  /\ usage'[a][u] = AmountIn(task', ForAgent(a)', u)
                  /\ AgentLimit(a)[u] # <<>> => usage'[a][u] =< AgentLimit(a)[u][1]
  <2> DEFINE c == Content(e)
  <2>1. /\ ForAll' \ {e} = ForAll \ {e}
        /\ \A a \in Agents : ForAgent(a)' \ {e} = ForAgent(a) \ {e}
        /\ \A S \in SUBSET (Events \ {e}) : AmountIn(task', S, u) = AmountIn(task, S, u)
    BY <1>4, OthersStay
  <2>2. /\ ForAll \subseteq Events /\ ForAll' \subseteq Events
        /\ \A a \in Agents : ForAgent(a) \subseteq Events /\ ForAgent(a)' \subseteq Events
    BY DEF ForAll, ForAgent, Tagged, Stage
  <2>3. ASSUME e \notin ForAll, e \notin ForAll'
        PROVE  AmountIn(task', ForAll', u) = AmountIn(task, ForAll, u)
    BY <2>1, <2>2, <2>3
  <2>4. ASSUME NEW a \in Agents, e \notin ForAgent(a), e \notin ForAgent(a)'
        PROVE  AmountIn(task', ForAgent(a)', u) = AmountIn(task, ForAgent(a), u)
    BY <2>1, <2>2, <2>4
  <2>5. CASE Evaluate(e)
    <3>1. /\ task[e] = Idle /\ UNCHANGED <<total, usage>>
          /\ task'[e].at = "global" \/ (task'[e].at = "done" /\ task'[e].tag = "block")
      BY <1>0, <2>5 DEF Evaluate, Task
    <3>2. e \notin ForAll /\ e \notin ForAll'
      BY <3>1 DEF ForAll, Tagged, Stage, Idle, Charged
    <3>3. \A a \in Agents : e \notin ForAgent(a) /\ e \notin ForAgent(a)'
      BY <3>1 DEF ForAgent, Tagged, Stage, Idle, Charged
    <3> QED BY <1>1, <2>3, <2>4, <3>1, <3>2, <3>3
  <2>6. CASE ChargeGlobal(e)
    <3>1. task[e].at = "global" /\ task[e] \in Calls /\ c \in Contents /\ c.amount \in [Units -> Nat]
      BY <1>0, <2>6, PlatformAssumption DEF ChargeGlobal, Idle, Calls, Content
    <3>2. usage' = usage
      BY <2>6 DEF ChargeGlobal
    <3>3. \A a \in Agents : e \notin ForAgent(a)
      BY <3>1 DEF ForAgent, Tagged, Stage
    <3>4. e \notin ForAll
      BY <3>1 DEF ForAll, Tagged, Stage
    <3>5. CASE Fits(GlobalLimit, total, c.amount)
      <4>1. /\ total' = Charge(total, c.amount) /\ task'[e].at = "agent" /\ task'[e].of = c
        BY <1>0, <2>6, <3>5 DEF ChargeGlobal, Task
      <4>2. e \in ForAll' /\ \A a \in Agents : e \notin ForAgent(a)'
        BY <4>1 DEF ForAll, ForAgent, Tagged, Stage
      <4>3. ForAll' = ForAll \cup {e} /\ ForAll \in SUBSET Events /\ e \in Events \ ForAll
        BY <2>1, <2>2, <3>4, <4>2
      <4>4. /\ \A d \in ForAll : task'[d].of = task[d].of
            /\ \A d \in ForAll \cup {e} : task'[d] \in Calls
        <5>1. \A d \in ForAll : task[d] \in Calls
          BY <1>0 DEF ForAll, Tagged, Stage, Idle
        <5> QED BY <1>4, <4>3, <5>1
      <4>5. AmountIn(task', ForAll \cup {e}, u) = AmountIn(task, ForAll, u) + task'[e].of.amount[u]
        BY <1>4, <4>3, <4>4, AmountMore
      <4>6. total'[u] = total[u] + c.amount[u]
        BY <4>1 DEF Charge
      <4>7. GlobalLimit[u] # <<>> => total[u] + c.amount[u] =< GlobalLimit[u][1]
        BY <3>5 DEF Fits
      <4> QED BY <1>1, <2>4, <3>2, <3>3, <4>1, <4>2, <4>3, <4>5, <4>6, <4>7
    <3>6. CASE ~ Fits(GlobalLimit, total, c.amount)
      <4>1. total' = total /\ task'[e].at = "done" /\ task'[e].tag = "over"
        BY <1>0, <2>6, <3>6 DEF ChargeGlobal, Task
      <4>2. e \notin ForAll' /\ \A a \in Agents : e \notin ForAgent(a)'
        BY <4>1 DEF ForAll, ForAgent, Tagged, Stage, Charged
      <4> QED BY <1>1, <2>3, <2>4, <3>2, <3>3, <3>4, <4>1, <4>2
    <3> QED BY <3>5, <3>6
  <2>7. CASE ChargeAgent(e)
    <3>1. /\ task[e].at = "agent" /\ task[e] \in Calls /\ task[e].of = c
          /\ c \in Contents /\ c.agent \in Agents /\ c.amount \in [Units -> Nat]
      BY <1>0, <2>7, PlatformAssumption DEF ChargeAgent, Idle, Calls, Content
    <3>2. total' = total /\ task'[e].at = "done" /\ task'[e].of = c
      BY <1>0, <2>7 DEF ChargeAgent, Task
    <3>3. task[e].tag \in {"pass", "warn"}
      BY <3>1 DEF StagesSound
    <3>4. \A a \in Agents : e \notin ForAgent(a)
      BY <3>1 DEF ForAgent, Tagged, Stage
    <3>5. e \in ForAll
      BY <3>1 DEF ForAll, Stage
    <3>6. ASSUME e \in ForAll'
          PROVE  AmountIn(task', ForAll', u) = AmountIn(task, ForAll, u)
      <4>1. ForAll' = ForAll
        BY <2>1, <3>5, <3>6
      <4>2. \A d \in ForAll : task'[d].of = task[d].of
        BY <1>4, <2>2, <3>1, <3>2
      <4>3. AmountIn(task', ForAll, u) = AmountIn(task, ForAll, u)
        BY <2>2, <4>2, AmountSame
      <4> QED BY <4>1, <4>3
    <3>7. PICK b \in Agents : b = c.agent
      BY <3>1
    <3>8. CASE Fits(AgentLimit(b), usage[b], c.amount)
      <4>1. /\ usage' = [usage EXCEPT ![b] = Charge(@, c.amount)]
            /\ task'[e].tag \in Charged
        BY <1>0, <2>7, <3>3, <3>7, <3>8 DEF ChargeAgent, Task, Charged
      <4>2. e \in ForAll' /\ e \in ForAgent(b)'
        BY <3>2, <3>7, <4>1 DEF ForAll, ForAgent, Tagged, Stage, Of, Content, Idle
      <4>3. \A a \in Agents \ {b} : e \notin ForAgent(a)'
        BY <3>2, <3>7 DEF ForAgent, Of, Content
      <4>4. /\ ForAgent(b)' = ForAgent(b) \cup {e}
            /\ ForAgent(b) \in SUBSET Events /\ e \in Events \ ForAgent(b)
        BY <2>1, <2>2, <3>4, <4>2
      <4>5. /\ \A d \in ForAgent(b) : task'[d].of = task[d].of
            /\ \A d \in ForAgent(b) \cup {e} : task'[d] \in Calls
        <5>1. \A d \in ForAgent(b) : task[d] \in Calls
          BY <1>0 DEF ForAgent, Tagged, Stage, Idle
        <5> QED BY <1>4, <4>4, <5>1
      <4>6. AmountIn(task', ForAgent(b) \cup {e}, u)
              = AmountIn(task, ForAgent(b), u) + task'[e].of.amount[u]
        BY <4>4, <4>5, AmountMore
      <4>7. /\ usage'[b][u] = usage[b][u] + c.amount[u]
            /\ \A a \in Agents \ {b} : usage'[a] = usage[a]
        BY <4>1 DEF Charge, TypeOK
      <4>8. AgentLimit(b)[u] # <<>> => usage[b][u] + c.amount[u] =< AgentLimit(b)[u][1]
        BY <3>8 DEF Fits
      <4>9. ASSUME NEW a \in Agents
            PROVE  /\ usage'[a][u] = AmountIn(task', ForAgent(a)', u)
                   /\ AgentLimit(a)[u] # <<>> => usage'[a][u] =< AgentLimit(a)[u][1]
        <5>1. CASE a = b
          <6>1. usage[b][u] = AmountIn(task, ForAgent(b), u)
            BY <1>1
          <6> HIDE DEF c
          <6> QED BY <3>2, <4>4, <4>6, <4>7, <4>8, <5>1, <6>1
        <5>2. CASE a # b
          BY <1>1, <2>4, <3>4, <4>3, <4>7, <5>2
        <5> QED BY <5>1, <5>2
      <4> QED BY <1>1, <3>2, <3>6, <4>2, <4>9
    <3>9. CASE ~ Fits(AgentLimit(b), usage[b], c.amount)
      <4>1. usage' = usage /\ task'[e].tag = "refused"
        BY <1>0, <2>7, <3>7, <3>9 DEF ChargeAgent, Task
      <4>2. e \in ForAll' /\ \A a \in Agents : e \notin ForAgent(a)'
        BY <3>2, <4>1 DEF ForAll, ForAgent, Tagged, Stage, Charged
      <4> QED BY <1>1, <2>4, <3>2, <3>4, <3>6, <4>1, <4>2
    <3> QED BY <3>8, <3>9
  <2> QED BY <1>4, <2>5, <2>6, <2>7
<1> QED BY <1>3, <1>4, CallSteps

\* The calls of the hook and its ledgers are always well formed and in step.
THEOREM InductiveInvariant == Spec => []IInv
<1>1. Init => IInv
  BY InitTypes, InitLedgers DEF IInv
<1>2. IInv /\ [Next]_vars => IInv'
  BY TypeKept, StagesKept, LedgersKept DEF IInv
<1> QED BY <1>1, <1>2, PTL DEF Spec

\* The calls of the hook, its ledgers and its tags have their types.
THEOREM TypeCorrect == Spec => []TypeOK
<1>1. IInv => TypeOK
  BY DEF IInv
<1> QED BY <1>1, InductiveInvariant, PTL

\* Tags and ledgers agree at all times and no ledger is above its limit, however
\* many log tasks overlap between the two locks of the tracker.
THEOREM LedgersAlwaysMatch == Spec => []LedgersMatchTags
<1>1. IInv => LedgersMatchTags
  BY DEF IInv
<1> QED BY <1>1, InductiveInvariant, PTL

-----------------------------------------------------------------------------
(* Reports                                                                 *)

\* Without overrides a license that masks personal data switches the scan on.
LEMMA MaskingScans == ~ Overrides /\ Info.pii => HookScans
<1> SUFFICES ASSUME ~ Overrides, Info.pii PROVE HookScans
  OBVIOUS
<1>1. CASE IsValid(key)
  <2> DEFINE d == TierDefaults[key.tier]
  <2>1. key.policy = <<>> /\ key.pii = <<>>
    BY <1>1 DEF Overrides
  <2>2. key.tier \in DOMAIN TierDefaults
    BY <1>1 DEF IsValid
  <2>3. /\ d = [tier |-> d.tier, agents |-> d.agents, days |-> d.days, policy |-> d.policy,
                pii |-> d.pii, compliance |-> d.compliance, identity |-> d.identity]
        /\ d.pii => d.policy
    BY <2>2 DEF TierDefaults, License
  <2> HIDE DEF d
  <2>4. Info.policy = d.policy /\ Info.pii = d.pii
    BY <1>1, <2>1, <2>3 DEF Info, ValidateLicense, Or, d
  <2> QED BY <2>3, <2>4 DEF HookScans
<1>2. CASE ~ IsValid(key)
  BY <1>2 DEF Info, ValidateLicense, Community, License
<1> QED BY <1>1, <1>2

\* What was tagged as clean or alerted was scanned, and had nothing to mask.
LEMMA MaskingFollows == IInv => MaskingIsDone
<1> SUFFICES ASSUME IInv, Soc2Report.data = "pass", ~ Overrides,
                    NEW e \in Tagged({"pass", "warn"})
             PROVE  (Content(e).url \cup Content(e).tags) \cap PiiPatterns = {}
  BY DEF MaskingIsDone
<1>1. Info.pii
  BY DEF Soc2Report, Soc2, PassOr
<1>2. HookScans
  BY <1>1, MaskingScans
<1>3. ~ HasPii(Content(e))
  BY DEF IInv, StagesSound, Tagged, Stage
<1>4. \A text \in {Content(e).url, Content(e).tags} : text \ PiiPatterns = text
  BY <1>2, <1>3 DEF HasPii, MaskPii
<1> QED BY <1>4

\* When the SOC 2 report passes data protection for a license without overrides,
\* nothing with personal data in its URL or tags was tagged as clean or merely
\* alerted.
THEOREM MaskingAlwaysDone == Spec => []MaskingIsDone
BY MaskingFollows, InductiveInvariant, PTL

\* Each framework of the checks is as strict as the ones that follow it.
LEMMA FrameworksAreOrdered ==
  ASSUME NEW st, st.days \in Nat, st.agents \in Nat
  PROVE  /\ IsCompliant("Hipaa", st) => IsCompliant("EuAiAct", st)
         /\ IsCompliant("EuAiAct", st) => IsCompliant("Soc2", st)
BY DEF IsCompliant, Requirements, Needs, Or

\* The days of a license are a number.
LEMMA DaysType == Info.days \in Nat
<1>1. CASE IsValid(key)
  <2> DEFINE d == TierDefaults[key.tier]
  <2>1. key.tier \in DOMAIN TierDefaults
    BY <1>1 DEF IsValid
  <2>2. /\ d = [tier |-> d.tier, agents |-> d.agents, days |-> d.days, policy |-> d.policy,
                pii |-> d.pii, compliance |-> d.compliance, identity |-> d.identity]
        /\ d.days \in Nat
    BY <2>1 DEF TierDefaults, License
  <2> HIDE DEF d
  <2>3. Info.days = d.days
    BY <1>1, <2>2 DEF Info, ValidateLicense, d
  <2> QED BY <2>2, <2>3
<1>2. CASE ~ IsValid(key)
  BY <1>2 DEF Info, ValidateLicense, Community, License
<1> QED BY <1>1, <1>2

\* The verdicts that the checks and the reports read off the same switches agree,
\* and a system compliant with the stricter framework is so with the weaker ones.
THEOREM ReportsAlwaysAgree == Spec => []ReportsAgree
<1>1. TypeOK => ReportsAgree
  <2> SUFFICES ASSUME TypeOK, NEW agents \in {0, 50, 51}
               PROVE  LET st == State(agents) IN
                      /\ IsCompliant("Soc2", st) =>
                            Soc2Report.monitoring = "pass" /\ Soc2Report.change = "pass"
                      /\ IsCompliant("EuAiAct", st) =>
                            \A c \in DOMAIN EuReport \ {"robustness"} : EuReport[c] = "pass"
                      /\ IsCompliant("Hipaa", st) => IsCompliant("EuAiAct", st)
                      /\ IsCompliant("EuAiAct", st) => IsCompliant("Soc2", st)
    BY DEF ReportsAgree
  <2> DEFINE st == State(agents)
  <2>1. /\ "audit" \in st.on => audited
        /\ "policy" \in st.on => Info.policy
        /\ "pii" \in st.on => Info.pii
    BY DEF State
  <2>2. st.days \in Nat /\ st.agents \in Nat
    BY DaysType DEF State
  <2>3. /\ IsCompliant("Soc2", st) => {"audit", "policy"} \subseteq st.on
        /\ IsCompliant("EuAiAct", st) => {"pii", "audit", "policy"} \subseteq st.on
    BY DEF IsCompliant, Requirements, Needs
  <2> HIDE DEF st
  <2>4. IsCompliant("Soc2", st) => Soc2Report.monitoring = "pass" /\ Soc2Report.change = "pass"
    BY <2>1, <2>3 DEF Soc2Report, Soc2, PassOr
  <2>5. IsCompliant("EuAiAct", st) =>
          \A c \in DOMAIN EuReport \ {"robustness"} : EuReport[c] = "pass"
    BY <2>1, <2>3 DEF EuReport, EuAiAct, PassOr
  <2> QED BY <2>2, <2>4, <2>5, FrameworksAreOrdered DEF st
<1> QED BY <1>1, TypeCorrect, PTL
=============================================================================
