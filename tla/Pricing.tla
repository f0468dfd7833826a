------------------------------- MODULE Pricing ------------------------------
(***************************************************************************)
(* The lookup of the price of a model: three exact tiers, then one pass    *)
(* over each of two hash maps, whose order differs from process to         *)
(* process, for the longest name that begins the query and the shortest    *)
(* one that the query begins.                                              *)
(* Modelled from crates/agentland-common/src/models/pricing.rs.            *)
(*                                                                         *)
(* A name is a sequence of characters. A price is told apart by the map    *)
(* and the name it was found under.                                        *)
(***************************************************************************)
EXTENDS Integers, Sequences, FiniteSets

CONSTANTS
    Chars,       \* the characters of names
    Slash,       \* the one that ends the prefix of a provider
    Boundary,    \* those that end a part of a name, a dash and a dot
    Exact,       \* the names of the map exact
    Stripped,    \* the names of the map stripped
    Queries,     \* the models that are looked up
    Families     \* the queries that provider_fallback knows by a keyword

Pending == [from |-> "pending"]
Nothing == [from |-> "nothing"]
Fallback == [from |-> "family"]

ASSUME PricingAssumption ==
    /\ Exact \subseteq Seq(Chars) /\ IsFiniteSet(Exact)
    /\ Stripped \subseteq Seq(Chars) /\ IsFiniteSet(Stripped)
    /\ Queries \subseteq Seq(Chars)

VARIABLES
    query,      \* the model whose price is wanted
    map,        \* the map of the pass: "exact", "stripped", or "none" outside of one
    left,       \* the names of this map that are still to come
    forward,    \* best_forward
    reverse,    \* best_reverse
    price       \* Pending, or what was returned

lookupVars == <<query, map, left, forward, reverse, price>>

Maps == {"exact", "stripped"}
Keys(m) == IF m = "exact" THEN Exact ELSE Stripped
Entry(m, key) == [from |-> m, key |-> key]
Entries == [from : Maps, key : Exact \cup Stripped]

LookupTypeOK ==
    /\ query \in Queries
    /\ map \in Maps \cup {"none"}
    /\ left \subseteq Exact \cup Stripped
    /\ forward \in Entries \cup {Nothing}
    /\ reverse \in Entries \cup {Nothing}
    /\ price \in Entries \cup {Pending, Nothing, Fallback}

LookupInit ==
    /\ query \in Queries
    /\ map = "none"
    /\ left = {}
    /\ forward = Nothing
    /\ reverse = Nothing
    /\ price = Pending

-----------------------------------------------------------------------------
StartsWith(name, key) == Len(key) =< Len(name) /\ \A i \in 1 .. Len(key) : name[i] = key[i]

\* key goes on after the query with a new part
Continues(key, name) ==
    /\ Len(name) < Len(key)
    /\ StartsWith(key, name)
    /\ key[Len(name) + 1] \in Boundary

\* What follows the last slash is looked up when it is not empty.
IsBare(name, bare) ==
    /\ bare # <<>>
    /\ \A i \in 1 .. Len(bare) : bare[i] # Slash
    /\ \E n \in 1 .. Len(name) :
         /\ name[n] = Slash
         /\ n + Len(bare) = Len(name)
         /\ \A i \in 1 .. Len(bare) : bare[i] = name[n + i]

Unanswered == price = Pending /\ map = "none"

\* Tier 1
ExactHit ==
    /\ Unanswered
    /\ query \in Exact
    /\ price' = Entry("exact", query)
    /\ UNCHANGED <<query, map, left, forward, reverse>>

\* Tier 2
BareHit ==
    /\ Unanswered
    /\ query \notin Exact
    /\ \E bare \in Exact : IsBare(query, bare) /\ price' = Entry("exact", bare)
    /\ UNCHANGED <<query, map, left, forward, reverse>>

HasBare == \E bare \in Exact : IsBare(query, bare)

\* Tier 3
StrippedHit ==
    /\ Unanswered
    /\ query \notin Exact
    /\ ~ HasBare
    /\ query \in Stripped
    /\ price' = Entry("stripped", query)
    /\ UNCHANGED <<query, map, left, forward, reverse>>

\* Tier 4: the pass over the first map begins.
BeginScan ==
    /\ Unanswered
    /\ query \notin Exact \cup Stripped
    /\ ~ HasBare
    /\ map' = "exact"
    /\ left' = Exact
    /\ UNCHANGED <<query, forward, reverse, price>>

Longer(key, best) == best = Nothing \/ Len(best.key) < Len(key)
Shorter(key, best) == best = Nothing \/ Len(best.key) > Len(key)

\* Faulty variant: the last of the names that match is kept.
ScanLast(key) ==
    /\ price = Pending
    /\ map \in Maps
    /\ key \in left
    /\ left' = left \ {key}
    /\ forward' = IF StartsWith(query, key) THEN Entry(map, key) ELSE forward
    /\ reverse' = IF Continues(key, query) THEN Entry(map, key) ELSE reverse
    /\ UNCHANGED <<query, map, price>>

\* One turn of either loop, with whichever name the map yields.
Scan(key) ==
    /\ price = Pending
    /\ map \in Maps
    /\ key \in left
    /\ left' = left \ {key}
    /\ forward' = IF StartsWith(query, key) /\ Longer(key, forward)
                  THEN Entry(map, key) ELSE forward
    /\ reverse' = IF Continues(key, query) /\ Shorter(key, reverse)
                  THEN Entry(map, key) ELSE reverse
    /\ UNCHANGED <<query, map, price>>

NextMap ==
    /\ price = Pending
    /\ map = "exact"
    /\ left = {}
    /\ map' = "stripped"
    /\ left' = Stripped
    /\ UNCHANGED <<query, forward, reverse, price>>

\* The more specific query wins, then tier 5.
EndScan ==
    /\ price = Pending
    /\ map = "stripped"
    /\ left = {}
    /\ price' = IF forward # Nothing THEN forward
                ELSE IF reverse # Nothing THEN reverse
                ELSE IF query \in Families THEN Fallback
                ELSE Nothing
    /\ map' = "none"
    /\ UNCHANGED <<query, left, forward, reverse>>

LookupNext ==
    \/ ExactHit \/ BareHit \/ StrippedHit
    \/ BeginScan \/ NextMap \/ EndScan
    \/ \E key \in left : Scan(key)

LookupSpec == LookupInit /\ [][LookupNext]_lookupVars

-----------------------------------------------------------------------------
(* What the comment on the five tiers promises                             *)

Beginnings == {e \in Entries : e.key \in Keys(e.from) /\ StartsWith(query, e.key)}
Continuations == {e \in Entries : e.key \in Keys(e.from) /\ Continues(e.key, query)}

\* Of two names that are as good, one of the map exact is preferred.
Yields(e, p) == e.from = "exact" => p.from = "exact"

Longest(p) ==
    /\ p \in Beginnings
    /\ \A e \in Beginnings :
          Len(e.key) < Len(p.key) \/ (Len(e.key) = Len(p.key) /\ Yields(e, p))

Shortest(p) ==
    /\ p \in Continuations
    /\ \A e \in Continuations :
          Len(e.key) > Len(p.key) \/ (Len(e.key) = Len(p.key) /\ Yields(e, p))

\* A price is justified when no tier above its own has an answer, and within
\* its own no name is better.
Justified(p) ==
    IF query \in Exact THEN p = Entry("exact", query)
    ELSE IF HasBare THEN \E bare \in Exact : IsBare(query, bare) /\ p = Entry("exact", bare)
    ELSE IF query \in Stripped THEN p = Entry("stripped", query)
    ELSE IF Beginnings # {} THEN Longest(p)
    ELSE IF Continuations # {} THEN Shortest(p)
    ELSE p = IF query \in Families THEN Fallback ELSE Nothing

(* Whatever the order in which the maps yield their names, the price that  *)
(* is returned is that of the tier and the name which the comment on       *)
(* lookup_pricing names (pricing.rs:193-206).                              *)
PriceIsJustified == price # Pending => Justified(price)

(* The order of the maps makes a difference only among names that continue *)
(* the query and are equally long: in all other cases every process finds  *)
(* the same price (pricing.rs:232, 258).                                   *)
PriceIsUnique ==
    \A p, q \in Entries \cup {Nothing, Fallback} :
        Justified(p) /\ Justified(q) /\ p # q =>
            p \in Continuations /\ q \in Continuations /\ Len(p.key) = Len(q.key)
=============================================================================
