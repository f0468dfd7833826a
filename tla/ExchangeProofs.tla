--------------------------- MODULE ExchangeProofs ---------------------------
(***************************************************************************)
(* Proofs about Exchange, for any requests, any answers that a provider    *)
(* can mean, any policies and texts, any table of prices, and any number   *)
(* of spoiled lines.                                                       *)
(*                                                                         *)
(* In turn: the lookup of a price; the decisions of the policies and the   *)
(* tag; the parsers, each of which makes two passes over a stream that are *)
(* shown to be one over its lines; the streams that arrive whole, read     *)
(* part by part; what can be read of any stream; the exchange.             *)
(***************************************************************************)
EXTENDS Exchange, DataFacts

-----------------------------------------------------------------------------
(* Prices: entries of the table                                            *)

\* An entry is told by its map and its name, and is none of the other prices.
LEMMA EntryFacts ==
  /\ \A m \in Maps, key \in Exact \cup Stripped :
        Entry(m, key) \in Entries /\ Entry(m, key).from = m /\ Entry(m, key).key = key
  /\ \A e \in Entries :
        /\ e.from \in Maps /\ e.key \in Exact \cup Stripped /\ Len(e.key) \in Nat
        /\ e = Entry(e.from, e.key)
        /\ e # Nothing /\ e # Fallback /\ e # Pending
  /\ Nothing # Fallback /\ Nothing # Pending /\ Fallback # Pending
BY PricingAssumption DEF Entry, Entries, Maps, Nothing, Fallback, Pending

-----------------------------------------------------------------------------
(* The inductive invariant                                                 *)

\* What the passes have seen so far.
Seen == {e \in Entries :
           /\ e.key \in Keys(e.from)
           /\ IF e.from = map THEN e.key \notin left ELSE e.from = "exact"}

\* f is the longest of the names in D that begin the query, those of the map
\* exact first.
ForwardBest(f, D) ==
    IF f = Nothing THEN \A e \in D : ~ StartsWith(query, e.key)
    ELSE /\ f \in D /\ StartsWith(query, f.key)
         /\ \A e \in D : StartsWith(query, e.key) =>
               Len(e.key) < Len(f.key) \/ (Len(e.key) = Len(f.key) /\ Yields(e, f))

\* r is the shortest of the names in D that the query begins, likewise.
ReverseBest(r, D) ==
    IF r = Nothing THEN \A e \in D : ~ Continues(e.key, query)
    ELSE /\ r \in D /\ Continues(r.key, query)
         /\ \A e \in D : Continues(e.key, query) =>
               Len(e.key) > Len(r.key) \/ (Len(e.key) = Len(r.key) /\ Yields(e, r))

\* A pass is under way only where no tier above has an answer, and both
\* candidates are the best of what it has seen.
ScanInv ==
    map # "none" =>
        /\ price = Pending
        /\ left \subseteq Keys(map)
        /\ query \notin Exact \cup Stripped
        /\ ~ HasBare
        /\ ForwardBest(forward, Seen)
        /\ ReverseBest(reverse, Seen)

\* Outside of a pass there are no candidates before the price is known.
FreshInv == map = "none" /\ price = Pending => forward = Nothing /\ reverse = Nothing

LookupInv == LookupTypeOK /\ ScanInv /\ FreshInv /\ PriceIsJustified

-----------------------------------------------------------------------------
(* One turn of the loop                                                    *)

\* Looking at one more name keeps the best one that begins the query.
LEMMA ForwardTurn ==
  ASSUME NEW D \in SUBSET Entries, NEW m \in Maps, NEW key \in Exact \cup Stripped,
         NEW f \in Entries \cup {Nothing},
         m = "exact" => \A e \in D : e.from = "exact",
         ForwardBest(f, D)
  PROVE  ForwardBest(IF StartsWith(query, key) /\ Longer(key, f) THEN Entry(m, key) ELSE f,
                     D \cup {Entry(m, key)})
<1> DEFINE x == Entry(m, key)
<1>1. x \in Entries /\ x.from = m /\ x.key = key /\ x # Nothing /\ Len(key) \in Nat
  BY EntryFacts
<1>2. \A e \in D : e.from \in Maps /\ Len(e.key) \in Nat
  BY EntryFacts
<1>3. m # "exact" => \A e : Yields(x, e)
  BY <1>1 DEF Yields
<1>4. m = "exact" => \A e \in D \cup {x} : e.from = "exact"
  BY <1>1
<1> HIDE DEF x
<1>5. CASE StartsWith(query, key) /\ Longer(key, f)
  <2>1. \A e \in D : StartsWith(query, e.key) => Len(e.key) < Len(key)
    BY <1>1, <1>2, <1>5, EntryFacts DEF ForwardBest, Longer
  <2>2. ForwardBest(x, D \cup {x})
    BY <1>1, <1>5, <2>1 DEF ForwardBest, Yields
  <2> QED BY <1>5, <2>2 DEF x
<1>6. CASE ~ StartsWith(query, key)
  <2>1. ForwardBest(f, D \cup {x})
    BY <1>1, <1>6 DEF ForwardBest
  <2> QED BY <1>6, <2>1 DEF x
<1>7. CASE StartsWith(query, key) /\ ~ Longer(key, f)
  <2>1. f # Nothing /\ f \in D /\ Len(f.key) >= Len(key) /\ Len(f.key) \in Nat
    BY <1>1, <1>2, <1>7 DEF Longer, ForwardBest
  <2>2. Yields(x, f)
    BY <1>3, <1>4, <2>1 DEF Yields
  <2>3. ForwardBest(f, D \cup {x})
    BY <1>1, <2>1, <2>2 DEF ForwardBest
  <2> QED BY <1>7, <2>3 DEF x
<1> QED BY <1>5, <1>6, <1>7

\* Looking at one more name keeps the best one that the query begins.
LEMMA ReverseTurn ==
  ASSUME NEW D \in SUBSET Entries, NEW m \in Maps, NEW key \in Exact \cup Stripped,
         NEW r \in Entries \cup {Nothing},
         m = "exact" => \A e \in D : e.from = "exact",
         ReverseBest(r, D)
  PROVE  ReverseBest(IF Continues(key, query) /\ Shorter(key, r) THEN Entry(m, key) ELSE r,
                     D \cup {Entry(m, key)})
<1> DEFINE x == Entry(m, key)
<1>1. x \in Entries /\ x.from = m /\ x.key = key /\ x # Nothing /\ Len(key) \in Nat
  BY EntryFacts
<1>2. \A e \in D : e.from \in Maps /\ Len(e.key) \in Nat
  BY EntryFacts
<1>3. m # "exact" => \A e : Yields(x, e)
  BY <1>1 DEF Yields
<1>4. m = "exact" => \A e \in D \cup {x} : e.from = "exact"
  BY <1>1
<1> HIDE DEF x
<1>5. CASE Continues(key, query) /\ Shorter(key, r)
  <2>1. \A e \in D : Continues(e.key, query) => Len(e.key) > Len(key)
    BY <1>1, <1>2, <1>5, EntryFacts DEF ReverseBest, Shorter
  <2>2. ReverseBest(x, D \cup {x})
    BY <1>1, <1>5, <2>1 DEF ReverseBest, Yields
  <2> QED BY <1>5, <2>2 DEF x
<1>6. CASE ~ Continues(key, query)
  <2>1. ReverseBest(r, D \cup {x})
    BY <1>1, <1>6 DEF ReverseBest
  <2> QED BY <1>6, <2>1 DEF x
<1>7. CASE Continues(key, query) /\ ~ Shorter(key, r)
  <2>1. r # Nothing /\ r \in D /\ Len(r.key) =< Len(key) /\ Len(r.key) \in Nat
    BY <1>1, <1>2, <1>7 DEF Shorter, ReverseBest
  <2>2. Yields(x, r)
    BY <1>3, <1>4, <2>1 DEF Yields
  <2>3. ReverseBest(r, D \cup {x})
    BY <1>1, <2>1, <2>2 DEF ReverseBest
  <2> QED BY <1>7, <2>3 DEF x
<1> QED BY <1>5, <1>6, <1>7

-----------------------------------------------------------------------------
(* Types                                                                   *)

\* The initial state is well typed.
LEMMA TypeInit == LookupInit => LookupTypeOK
BY DEF LookupInit, LookupTypeOK

\* Every step keeps the types.
LEMMA TypeStep == LookupTypeOK /\ [LookupNext]_lookupVars => LookupTypeOK'
<1> SUFFICES ASSUME LookupTypeOK, [LookupNext]_lookupVars PROVE LookupTypeOK'
  OBVIOUS
<1> USE DEF LookupTypeOK
<1>1. CASE ExactHit
  BY <1>1, EntryFacts DEF ExactHit, Maps
<1>2. CASE BareHit
  BY <1>2, EntryFacts DEF BareHit, Maps
<1>3. CASE StrippedHit
  BY <1>3, EntryFacts DEF StrippedHit, Maps
<1>4. CASE BeginScan
  BY <1>4 DEF BeginScan, Maps
<1>5. CASE NextMap
  BY <1>5 DEF NextMap, Maps
<1>6. CASE EndScan
  BY <1>6 DEF EndScan
<1>7. ASSUME NEW key \in left, Scan(key) PROVE LookupTypeOK'
  BY <1>7, EntryFacts DEF Scan
<1>8. CASE UNCHANGED lookupVars
  BY <1>8 DEF lookupVars
<1> QED BY <1>1, <1>2, <1>3, <1>4, <1>5, <1>6, <1>7, <1>8 DEF LookupNext

-----------------------------------------------------------------------------
(* The passes                                                              *)

\* Nothing has been seen when the first pass begins.
LEMMA SeenAtFirst ==
  ASSUME map = "exact", left = Exact
  PROVE  Seen = {}
BY DEF Seen, Keys

\* The turn for one name adds this one to what was seen.
LEMMA SeenGrows ==
  ASSUME LookupTypeOK, map \in Maps, left \subseteq Keys(map), NEW key \in left,
         map' = map, left' = left \ {key}
  PROVE  Seen' = Seen \cup {Entry(map, key)}
<1>1. /\ Entry(map, key) \in Entries
      /\ Entry(map, key).from = map /\ Entry(map, key).key = key
  BY EntryFacts DEF LookupTypeOK
<1>2. \A e \in Entries : e.from = map /\ e.key = key => e = Entry(map, key)
  BY EntryFacts
<1> QED BY <1>1, <1>2 DEF Seen

\* All that was seen in the first pass is of the map exact.
LEMMA SeenOfExact == map = "exact" => \A e \in Seen : e.from = "exact"
BY DEF Seen

\* After the last pass everything has been seen.
LEMMA SeenAtLast ==
  ASSUME map = "stripped", left = {}
  PROVE  Seen = {e \in Entries : e.key \in Keys(e.from)}
BY EntryFacts DEF Seen, Maps

\* Changing over to the second map changes nothing in what was seen.
LEMMA SeenAcross ==
  ASSUME map = "exact", left = {}, map' = "stripped", left' = Stripped
  PROVE  Seen' = Seen
<1>1. \A e \in Entries : e.from = "exact" \/ e.from = "stripped"
  BY EntryFacts DEF Maps
<1>2. \A e \in Entries : e \in Seen <=> e.from = "exact" /\ e.key \in Keys(e.from)
  BY <1>1 DEF Seen
<1>3. \A e \in Entries : e \in Seen' <=> e.from = "exact" /\ e.key \in Keys(e.from)
  BY <1>1 DEF Seen, Keys
<1> QED BY <1>2, <1>3 DEF Seen

\* A turn of the loop keeps the candidates the best of what was seen.
LEMMA ScanStep ==
  ASSUME LookupTypeOK, ScanInv, NEW key \in left, Scan(key)
  PROVE  ScanInv'
<1> USE DEF LookupTypeOK, ScanInv
<1>1. /\ map \in Maps /\ map # "none" /\ map' = map
      /\ left' = left \ {key} /\ query' = query /\ price' = price
  BY DEF Scan, Maps
<1>2. Seen' = Seen \cup {Entry(map, key)}
  BY <1>1, SeenGrows
<1>3. Seen \in SUBSET Entries
  BY DEF Seen
<1> DEFINE f == IF StartsWith(query, key) /\ Longer(key, forward)
                THEN Entry(map, key) ELSE forward
           r == IF Continues(key, query) /\ Shorter(key, reverse)
                THEN Entry(map, key) ELSE reverse
<1>4. ForwardBest(f, Seen \cup {Entry(map, key)})
  BY <1>1, <1>3, SeenOfExact, ForwardTurn
<1>5. ReverseBest(r, Seen \cup {Entry(map, key)})
  BY <1>1, <1>3, SeenOfExact, ReverseTurn
<1>6. forward' = f /\ reverse' = r
  BY DEF Scan
<1> HIDE DEF f, r
<1>7. ForwardBest(forward, Seen)'
  BY <1>1, <1>2, <1>4, <1>6 DEF ForwardBest
<1>8. ReverseBest(reverse, Seen)'
  BY <1>1, <1>2, <1>5, <1>6 DEF ReverseBest
<1>9. HasBare' = HasBare /\ Keys(map)' = Keys(map)
  BY <1>1 DEF HasBare, Keys
<1> QED BY <1>1, <1>7, <1>8, <1>9

-----------------------------------------------------------------------------
(* What is returned                                                        *)

\* The best of all names is what the comment on the tiers asks for.
LEMMA BestIsJustified ==
  ASSUME LookupTypeOK, ScanInv, EndScan
  PROVE  Justified(price')
<1> USE DEF LookupTypeOK, ScanInv
<1>1. map = "stripped" /\ map # "none" /\ left = {}
  BY DEF EndScan
<1>2. Seen = {e \in Entries : e.key \in Keys(e.from)}
  BY <1>1, SeenAtLast
<1>3. /\ query \notin Exact \cup Stripped /\ ~ HasBare
      /\ ForwardBest(forward, Seen) /\ ReverseBest(reverse, Seen)
  BY <1>1
<1>4. forward # Nothing => Beginnings # {} /\ Longest(forward)
  BY <1>2, <1>3 DEF ForwardBest, Longest, Beginnings
<1>5. forward = Nothing => Beginnings = {}
  BY <1>2, <1>3 DEF ForwardBest, Beginnings
<1>6. reverse # Nothing => Continuations # {} /\ Shortest(reverse)
  BY <1>2, <1>3 DEF ReverseBest, Shortest, Continuations
<1>7. reverse = Nothing => Continuations = {}
  BY <1>2, <1>3 DEF ReverseBest, Continuations
<1> QED BY <1>3, <1>4, <1>5, <1>6, <1>7 DEF EndScan, Justified

\* A price is justified by the query alone, which never changes.
LEMMA JustifiedStays ==
  ASSUME query' = query, NEW p
  PROVE  Justified(p)' <=> Justified(p)
BY DEF Justified, HasBare, Longest, Shortest, Beginnings, Continuations

\* The initial state satisfies the invariant.
LEMMA InvInit == LookupInit => LookupInv
<1> SUFFICES ASSUME LookupInit PROVE LookupInv
  OBVIOUS
<1> QED BY TypeInit DEF LookupInit, LookupInv, ScanInv, FreshInv, PriceIsJustified

\* Every step keeps the invariant.
LEMMA InvStep == LookupInv /\ [LookupNext]_lookupVars => LookupInv'
<1> SUFFICES ASSUME LookupInv, [LookupNext]_lookupVars PROVE LookupInv'
  OBVIOUS
<1>0. LookupTypeOK /\ ScanInv /\ FreshInv /\ PriceIsJustified /\ LookupTypeOK'
  BY TypeStep DEF LookupInv
<1>q. query' = query
  BY DEF LookupNext, lookupVars, ExactHit, BareHit, StrippedHit, BeginScan, NextMap,
         EndScan, Scan
<1>1. CASE ExactHit
  <2>1. Justified(Entry("exact", query))
    BY <1>1 DEF ExactHit, Justified
  <2>2. PriceIsJustified'
    BY <1>1, <1>q, <2>1, JustifiedStays DEF ExactHit, PriceIsJustified
  <2> QED BY <1>0, <1>1, <2>2, EntryFacts
             DEF ExactHit, Unanswered, LookupInv, ScanInv, FreshInv, Maps
<1>2. CASE BareHit
  <2>1. PICK bare \in Exact : IsBare(query, bare) /\ price' = Entry("exact", bare)
    BY <1>2 DEF BareHit
  <2>2. Justified(price')
    BY <1>2, <2>1 DEF BareHit, Justified, HasBare
  <2>3. PriceIsJustified'
    BY <1>q, <2>2, JustifiedStays DEF PriceIsJustified
  <2>4. price' # Pending
    BY <2>1, EntryFacts DEF Maps
  <2> QED BY <1>0, <1>2, <2>3, <2>4 DEF BareHit, Unanswered, LookupInv, ScanInv, FreshInv
<1>3. CASE StrippedHit
  <2>1. Justified(Entry("stripped", query))
    BY <1>3 DEF StrippedHit, Justified
  <2>2. PriceIsJustified'
    BY <1>3, <1>q, <2>1, JustifiedStays DEF StrippedHit, PriceIsJustified
  <2> QED BY <1>0, <1>3, <2>2, EntryFacts
             DEF StrippedHit, Unanswered, LookupInv, ScanInv, FreshInv, Maps
<1>4. CASE BeginScan
  <2>1. /\ map' = "exact" /\ left' = Exact /\ price' = Pending
        /\ forward' = Nothing /\ reverse' = Nothing
        /\ query \notin Exact \cup Stripped /\ ~ HasBare
    BY <1>0, <1>4 DEF BeginScan, Unanswered, FreshInv
  <2>2. Seen' = {}
    BY <2>1 DEF Seen, Keys
  <2>3. ScanInv'
    BY <1>q, <2>1, <2>2 DEF ScanInv, ForwardBest, ReverseBest, HasBare, Keys
  <2> QED BY <1>0, <2>1, <2>3 DEF LookupInv, FreshInv, PriceIsJustified
<1>5. CASE NextMap
  <2>1. /\ map = "exact" /\ left = {} /\ map' = "stripped" /\ left' = Stripped
        /\ forward' = forward /\ reverse' = reverse /\ price' = price
    BY <1>5 DEF NextMap
  <2>2. Seen' = Seen
    BY <2>1, SeenAcross
  <2>3. ScanInv'
    BY <1>0, <1>q, <2>1, <2>2 DEF ScanInv, ForwardBest, ReverseBest, HasBare, Keys
  <2> QED BY <1>0, <1>5, <2>1, <2>3 DEF NextMap, LookupInv, FreshInv, PriceIsJustified
<1>6. CASE EndScan
  <2>1. PriceIsJustified'
    BY <1>0, <1>6, <1>q, BestIsJustified, JustifiedStays DEF PriceIsJustified
  <2>2. price' # Pending
    BY <1>0, <1>6, EntryFacts DEF EndScan, LookupTypeOK
  <2> QED BY <1>0, <1>6, <2>1, <2>2 DEF EndScan, LookupInv, ScanInv, FreshInv
<1>7. ASSUME NEW key \in left, Scan(key) PROVE LookupInv'
  <2>1. ScanInv'
    BY <1>0, <1>7, ScanStep
  <2> QED BY <1>0, <1>7, <2>1 DEF Scan, LookupInv, FreshInv, PriceIsJustified, Maps
<1>8. CASE UNCHANGED lookupVars
  <2>1. ScanInv'
    BY <1>0, <1>8 DEF lookupVars, ScanInv, ForwardBest, ReverseBest, HasBare, Keys, Seen
  <2>2. PriceIsJustified'
    BY <1>0, <1>8, JustifiedStays DEF lookupVars, PriceIsJustified
  <2> QED BY <1>0, <1>8, <2>1, <2>2 DEF lookupVars, LookupInv, FreshInv
<1> QED BY <1>1, <1>2, <1>3, <1>4, <1>5, <1>6, <1>7, <1>8 DEF LookupNext

\* Whatever the names of the table, the query and the order in which the hash
\* maps yield their names, the price that is returned is the one which the
\* comment on lookup_pricing names.
THEOREM PriceAlwaysJustified == LookupSpec => []PriceIsJustified
<1>1. LookupInv => PriceIsJustified
  BY DEF LookupInv
<1> QED BY <1>1, InvInit, InvStep, PTL DEF LookupSpec

-----------------------------------------------------------------------------
(* Where the order of the maps matters                                     *)

\* Two names are the same when their characters are.
LEMMA SameName ==
  ASSUME NEW a \in Seq(Chars), NEW b \in Seq(Chars), Len(a) = Len(b),
         \A i \in 1 .. Len(a) : a[i] = b[i]
  PROVE  a = b
OBVIOUS

\* What follows the last slash of a name is one name.
LEMMA BareIsUnique ==
  ASSUME NEW name \in Seq(Chars), NEW a \in Seq(Chars), NEW b \in Seq(Chars),
         IsBare(name, a), IsBare(name, b)
  PROVE  a = b
<1>1. PICK n \in 1 .. Len(name) :
        /\ name[n] = Slash
        /\ n + Len(a) = Len(name)
        /\ \A i \in 1 .. Len(a) : a[i] = name[n + i]
  BY DEF IsBare
<1>2. PICK k \in 1 .. Len(name) :
        /\ name[k] = Slash
        /\ k + Len(b) = Len(name)
        /\ \A i \in 1 .. Len(b) : b[i] = name[k + i]
  BY DEF IsBare
<1>3. /\ n \in Nat /\ k \in Nat /\ Len(name) \in Nat /\ Len(a) \in Nat /\ Len(b) \in Nat
      /\ \A i \in 1 .. Len(a) : a[i] # Slash
      /\ \A i \in 1 .. Len(b) : b[i] # Slash
  BY DEF IsBare
<1>4. ~ n < k
  <2>1. SUFFICES ASSUME n < k PROVE FALSE
    OBVIOUS
  <2>2. k - n \in 1 .. Len(a) /\ n + (k - n) = k
    BY <1>1, <1>2, <1>3, <2>1
  <2>3. a[k - n] = name[k]
    BY <1>1, <2>2
  <2> QED BY <1>2, <1>3, <2>2, <2>3
<1>5. ~ k < n
  <2>1. SUFFICES ASSUME k < n PROVE FALSE
    OBVIOUS
  <2>2. n - k \in 1 .. Len(b) /\ k + (n - k) = n
    BY <1>1, <1>2, <1>3, <2>1
  <2>3. b[n - k] = name[n]
    BY <1>2, <2>2
  <2> QED BY <1>1, <1>3, <2>2, <2>3
<1>6. n = k
  BY <1>3, <1>4, <1>5
<1>7. Len(a) = Len(b) /\ \A i \in 1 .. Len(a) : a[i] = b[i]
  BY <1>1, <1>2, <1>3, <1>6
<1> QED BY <1>7, SameName

\* There is one longest beginning of the query: names of one length that
\* begin it are equal, and the map exact is preferred.
LEMMA LongestIsUnique ==
  ASSUME LookupTypeOK, NEW p, NEW q, Longest(p), Longest(q)
  PROVE  p = q
<1>1. p \in Entries /\ q \in Entries /\ StartsWith(query, p.key) /\ StartsWith(query, q.key)
  BY DEF Longest, Beginnings
<1>2. /\ p.from \in Maps /\ q.from \in Maps
      /\ p.key \in Seq(Chars) /\ q.key \in Seq(Chars) /\ query \in Seq(Chars)
      /\ Len(p.key) \in Nat /\ Len(q.key) \in Nat
      /\ p = Entry(p.from, p.key) /\ q = Entry(q.from, q.key)
  BY <1>1, EntryFacts, PricingAssumption DEF LookupTypeOK
<1>3. Len(p.key) = Len(q.key) /\ Yields(p, q) /\ Yields(q, p)
  BY <1>2 DEF Longest
<1>4. p.from = q.from
  BY <1>2, <1>3 DEF Yields, Maps
<1>5. p.key = q.key
  BY <1>1, <1>2, <1>3, SameName DEF StartsWith
<1> QED BY <1>2, <1>4, <1>5

\* Two prices that both are justified are one price, or two equally long
\* names that continue the query.
LEMMA JustifiedPrices == LookupTypeOK => PriceIsUnique
<1> SUFFICES ASSUME LookupTypeOK,
                    NEW p \in Entries \cup {Nothing, Fallback},
                    NEW q \in Entries \cup {Nothing, Fallback},
                    Justified(p), Justified(q), p # q
             PROVE  p \in Continuations /\ q \in Continuations /\ Len(p.key) = Len(q.key)
  BY DEF PriceIsUnique
<1>1. query \notin Exact
  BY DEF Justified
<1>2. ~ HasBare
  <2>1. SUFFICES ASSUME HasBare PROVE FALSE
    OBVIOUS
  <2>2. PICK a \in Exact : IsBare(query, a) /\ p = Entry("exact", a)
    BY <1>1, <2>1 DEF Justified
  <2>3. PICK b \in Exact : IsBare(query, b) /\ q = Entry("exact", b)
    BY <1>1, <2>1 DEF Justified
  <2>4. a \in Seq(Chars) /\ b \in Seq(Chars) /\ query \in Seq(Chars)
    BY PricingAssumption DEF LookupTypeOK
  <2>5. a = b
    BY <2>2, <2>3, <2>4, BareIsUnique
  <2> QED BY <2>2, <2>3, <2>5
<1>3. query \notin Stripped
  BY <1>1, <1>2 DEF Justified
<1>4. Beginnings = {}
  BY <1>1, <1>2, <1>3, LongestIsUnique DEF Justified
<1>5. Continuations # {}
  BY <1>1, <1>2, <1>3, <1>4 DEF Justified
<1>6. Shortest(p) /\ Shortest(q)
  BY <1>1, <1>2, <1>3, <1>4, <1>5 DEF Justified
<1>7. p \in Continuations /\ q \in Continuations
  BY <1>6 DEF Shortest
<1>8. Len(p.key) \in Nat /\ Len(q.key) \in Nat
  BY <1>7, EntryFacts DEF Continuations
<1> QED BY <1>6, <1>7, <1>8 DEF Shortest

\* One model has two prices in two processes only when its own name is not
\* in the table, nothing in it begins this name, and several names of one
\* length go on from it.
THEOREM PricesDifferOnlyInTies == LookupSpec => []PriceIsUnique
BY TypeInit, TypeStep, JustifiedPrices, PTL DEF LookupSpec

-----------------------------------------------------------------------------
(* The decisions of the policies                                           *)

\* One turn of the loop in evaluate_inner.
Decide(acc, e, event, verd) ==
    IF ~ e.enabled THEN acc
    ELSE acc \o (IF IsPii(e) THEN EvaluatePii(e, event) ELSE <<>>)
             \o (IF IsBudget(e) THEN EvaluateBudget(verd) ELSE <<>>)

\* The loop of evaluate_inner, written out.
LEMMA EvaluateUnfolds ==
  ASSUME NEW c, NEW event, NEW verd
  PROVE  Evaluate(c, event, verd) =
           (CHOOSE g : g = [s \in SUBSET DOMAIN c |->
              IF s = {} THEN <<>> ELSE Decide(g[s \ {Max(s)}], c[Max(s)], event, verd)])[DOMAIN c]
BY DEF Evaluate, FoldLeft, MapThenFoldSet, Decide

Levels == Severities \cup {"block"}
Decisions(c) == [rule : {c[i].id : i \in DOMAIN c} \cup {"budget-cap"}, action : Levels]

\* A decision is one of those that a list of policies can lead to.
LEMMA OneDecision ==
  ASSUME NEW c, NEW id \in {c[i].id : i \in DOMAIN c} \cup {"budget-cap"}, NEW level \in Levels
  PROVE  << Decision(id, level) >> \in Seq(Decisions(c))
BY DEF Decisions, Decision

\* So are those of an entry about personal data.
LEMMA PiiDecides ==
  ASSUME NEW c, NEW i \in DOMAIN c, NEW event
  PROVE  EvaluatePii(c[i], event) \in Seq(Decisions(c))
<1>1. c[i].id \in {c[j].id : j \in DOMAIN c} \cup {"budget-cap"}
  OBVIOUS
<1>2. \A w : ParseSeverity(w) \in Levels /\ "high" \in Levels
  BY DEF ParseSeverity, Levels, Severities
<1>3. <<>> \in Seq(Decisions(c))
  OBVIOUS
<1> QED BY <1>1, <1>2, <1>3, OneDecision DEF EvaluatePii

\* And those of an entry about the budget.
LEMMA BudgetDecides ==
  ASSUME NEW c, NEW verd \in {"allow", "high", "block"}
  PROVE  EvaluateBudget(verd) \in Seq(Decisions(c))
<1>1. verd # "allow" => verd \in Levels
  BY DEF Levels, Severities
<1>2. <<>> \in Seq(Decisions(c))
  OBVIOUS
<1> QED BY <1>1, <1>2, OneDecision DEF EvaluateBudget

\* The loop has a run: what is decided after each entry.
LEMMA EvaluateRuns ==
  ASSUME NEW c, IsPolicyList(c), NEW event, NEW verd \in {"allow", "high", "block"}
  PROVE  \E h \in [0 .. Len(c) -> Seq(Decisions(c))] :
           /\ h[0] = <<>>
           /\ \A i \in 1 .. Len(c) : h[i] = Decide(h[i - 1], c[i], event, verd)
           /\ Evaluate(c, event, verd) = h[Len(c)]
<1> DEFINE A == Seq(Decisions(c))
           E == Range(c)
           F == [x \in A \X E |-> Decide(x[1], x[2], event, verd)]
           G(g) == g = [s \in SUBSET DOMAIN c |->
                     IF s = {} THEN <<>> ELSE Decide(g[s \ {Max(s)}], c[Max(s)], event, verd)]
<1>1. c \in Seq(E) /\ DOMAIN c = 1 .. Len(c) /\ Len(c) \in Nat
  BY DEF IsPolicyList
<1>2. \A a \in A, e \in E : Decide(a, e, event, verd) \in A
  <2> SUFFICES ASSUME NEW a \in A, NEW i \in DOMAIN c
               PROVE  Decide(a, c[i], event, verd) \in A
    BY DEF Range
  <2>1. EvaluatePii(c[i], event) \in A /\ EvaluateBudget(verd) \in A /\ <<>> \in A
    BY PiiDecides, BudgetDecides
  <2> HIDE DEF A
  <2>2. \A x, y \in A : x \o y \in A
    BY DEF A
  <2> QED BY <2>1, <2>2 DEF Decide
<1>3. F \in [A \X E -> A] /\ <<>> \in A /\ \A a \in A, e \in E : F[<<a, e>>] = Decide(a, e, event, verd)
  BY <1>2
<1> HIDE DEF A, E, F
<1>4. PICK g : Finds(g, A, E, F, <<>>, c)
  BY <1>1, <1>3, FoldSolution DEF Steps
<1>5. G(g)
  BY <1>1, <1>3, <1>4 DEF Finds
<1>6. PICK f : f = CHOOSE x : G(x)
  OBVIOUS
<1>7. G(f)
  BY <1>5, <1>6
<1>8. Follows(f, A, E, F, <<>>, c)
  BY <1>1, <1>3, <1>7 DEF Follows
<1>9. PICK h : Run(h, f[DOMAIN c], A, F, <<>>, c)
  BY <1>1, <1>3, <1>8, FoldRuns DEF Steps
<1>10. h \in [0 .. Len(c) -> A] /\ h[0] = <<>> /\ h[Len(c)] = f[DOMAIN c]
  BY <1>9 DEF Run
<1>11. \A i \in 1 .. Len(c) : h[i] = Decide(h[i - 1], c[i], event, verd)
  <2> SUFFICES ASSUME NEW i \in 1 .. Len(c) PROVE h[i] = Decide(h[i - 1], c[i], event, verd)
    OBVIOUS
  <2>1. h[i - 1] \in A /\ c[i] \in E
    BY <1>1, <1>10
  <2> QED BY <1>3, <1>9, <2>1 DEF Run
<1>12. Evaluate(c, event, verd) = h[Len(c)]
  BY <1>6, <1>10, EvaluateUnfolds
<1> QED BY <1>10, <1>11, <1>12 DEF A

\* What an entry that is in force says.
Says(e, event, verd) ==
    (IF IsPii(e) THEN Range(EvaluatePii(e, event)) ELSE {})
      \cup (IF IsBudget(e) THEN Range(EvaluateBudget(verd)) ELSE {})

\* What is in two lists in a row.
LEMMA RangeOfConcat ==
  ASSUME NEW S, NEW s \in Seq(S), NEW t \in Seq(S)
  PROVE  Range(s \o t) = Range(s) \cup Range(t)
<1>1. s \o t \in Seq(S) /\ DOMAIN (s \o t) = 1 .. Len(s) + Len(t)
      /\ DOMAIN s = 1 .. Len(s) /\ DOMAIN t = 1 .. Len(t) /\ Len(s) \in Nat /\ Len(t) \in Nat
  OBVIOUS
<1>2. ASSUME NEW i \in DOMAIN s PROVE s[i] \in Range(s \o t)
  <2>1. i \in DOMAIN (s \o t) /\ (s \o t)[i] = s[i]
    BY <1>1
  <2> QED BY <2>1 DEF Range
<1>3. ASSUME NEW i \in DOMAIN t PROVE t[i] \in Range(s \o t)
  <2>1. Len(s) + i \in DOMAIN (s \o t) /\ (s \o t)[Len(s) + i] = t[i]
    BY <1>1
  <2> QED BY <2>1 DEF Range
<1>4. ASSUME NEW i \in DOMAIN (s \o t) PROVE (s \o t)[i] \in Range(s) \cup Range(t)
  <2>1. CASE i =< Len(s)
    <3>1. i \in DOMAIN s /\ (s \o t)[i] = s[i]
      BY <1>1, <2>1
    <3> QED BY <3>1 DEF Range
  <2>2. CASE ~ (i =< Len(s))
    <3>1. i - Len(s) \in DOMAIN t /\ (s \o t)[i] = t[i - Len(s)]
      BY <1>1, <2>2
    <3> QED BY <3>1 DEF Range
  <2> QED BY <2>1, <2>2
<1>5. \A r \in Range(s) \cup Range(t) : r \in Range(s \o t)
  BY <1>2, <1>3 DEF Range
<1>6. \A r \in Range(s \o t) : r \in Range(s) \cup Range(t)
  BY <1>4 DEF Range
<1> QED BY <1>5, <1>6

\* One turn adds what the entry says, when it is in force.
LEMMA DecideAdds ==
  ASSUME NEW c, NEW i \in DOMAIN c, NEW acc \in Seq(Decisions(c)), NEW event,
         NEW verd \in {"allow", "high", "block"}
  PROVE  Range(Decide(acc, c[i], event, verd)) =
           Range(acc) \cup IF c[i].enabled THEN Says(c[i], event, verd) ELSE {}
<1> DEFINE p == IF IsPii(c[i]) THEN EvaluatePii(c[i], event) ELSE <<>>
           b == IF IsBudget(c[i]) THEN EvaluateBudget(verd) ELSE <<>>
           S == Decisions(c)
<1>1. <<>> \in Seq(S) /\ Range(<<>>) = {}
  BY DEF Range
<1>2. p \in Seq(S) /\ b \in Seq(S) /\ acc \in Seq(S)
  BY <1>1, PiiDecides, BudgetDecides
<1>3. Range(p) \cup Range(b) = Says(c[i], event, verd)
  BY <1>1 DEF Says
<1>4. Decide(acc, c[i], event, verd) = IF c[i].enabled THEN acc \o p \o b ELSE acc
  BY DEF Decide
<1> HIDE DEF p, b, S
<1>5. acc \o p \in Seq(S) /\ Range(acc \o p) = Range(acc) \cup Range(p)
  BY <1>2, RangeOfConcat
<1>6. Range((acc \o p) \o b) = Range(acc \o p) \cup Range(b)
  <2>1. PICK q : q = acc \o p
    OBVIOUS
  <2>2. Range(q \o b) = Range(q) \cup Range(b)
    <3>1. q \in Seq(S) /\ b \in Seq(S)
      BY <1>2, <1>5, <2>1
    <3> QED BY <3>1, RangeOfConcat
  <2> QED BY <2>1, <2>2
<1> QED BY <1>3, <1>4, <1>5, <1>6

\* The decisions are what the entries in force say.
LEMMA EvaluateSays ==
  ASSUME NEW c, IsPolicyList(c), NEW event, NEW verd \in {"allow", "high", "block"}
  PROVE  /\ Evaluate(c, event, verd) \in Seq(Decisions(c))
         /\ Range(Evaluate(c, event, verd)) =
              UNION {Says(c[i], event, verd) : i \in {j \in DOMAIN c : c[j].enabled}}
<1>0. DOMAIN c = 1 .. Len(c) /\ Len(c) \in Nat
  BY DEF IsPolicyList
<1>1. PICK h \in [0 .. Len(c) -> Seq(Decisions(c))] :
           /\ h[0] = <<>>
           /\ \A i \in 1 .. Len(c) : h[i] = Decide(h[i - 1], c[i], event, verd)
           /\ Evaluate(c, event, verd) = h[Len(c)]
  BY EvaluateRuns
<1> DEFINE Said(n) == UNION {Says(c[i], event, verd) : i \in {j \in 1 .. n : c[j].enabled}}
           B == {n \in Nat : n =< Len(c) => Range(h[n]) = Said(n)}
<1>2. 0 \in B
  <2>1. 1 .. 0 = {} /\ Range(<<>>) = {}
    BY DEF Range
  <2> QED BY <1>1, <2>1
<1>3. ASSUME NEW n \in B PROVE n + 1 \in B
  <2>1. n \in Nat /\ n + 1 \in Nat /\ (n + 1) - 1 = n
    OBVIOUS
  <2> SUFFICES ASSUME n + 1 =< Len(c) PROVE Range(h[n + 1]) = Said(n + 1)
    BY <2>1
  <2>2. n =< Len(c) /\ n + 1 \in DOMAIN c /\ n \in 0 .. Len(c)
    BY <1>0, <2>1
  <2>3. Range(h[n]) = Said(n) /\ h[n] \in Seq(Decisions(c))
    BY <1>1, <2>2
  <2>4. h[n + 1] = Decide(h[n], c[n + 1], event, verd)
    BY <1>0, <1>1, <2>1, <2>2
  <2>5. Range(h[n + 1]) = Said(n) \cup IF c[n + 1].enabled THEN Says(c[n + 1], event, verd) ELSE {}
    BY <2>2, <2>3, <2>4, DecideAdds
  <2>6. 1 .. n + 1 = (1 .. n) \cup {n + 1}
    BY <2>1
  <2> QED BY <2>5, <2>6
<1>4. B = Nat
  <2> HIDE DEF B
  <2>1. B \in SUBSET Nat
    BY DEF B
  <2> QED BY <1>2, <1>3, <2>1, NatSetInduction
<1>5. PICK n \in Nat : n = Len(c)
  BY <1>0
<1>6. Range(h[n]) = Said(n)
  <2>1. n \in B
    <3> HIDE DEF B
    <3> QED BY <1>4
  <2> QED BY <1>5, <2>1
<1> QED BY <1>0, <1>1, <1>5, <1>6

-----------------------------------------------------------------------------
(* The worst decision and the tag                                          *)

\* Of some decisions there is one that is worst.
LEMMA WorstExists ==
  ASSUME NEW D, NEW d \in Seq(D), d # <<>>, \A x \in D : Rank(x.action) \in 1 .. 5
  PROVE  /\ Worst(d) \in DOMAIN d
         /\ \A j \in DOMAIN d : Rank(d[j].action) =< Rank(d[Worst(d)].action)
<1> DEFINE R(i) == Rank(d[i].action)
           Top(i) == \A j \in DOMAIN d : R(j) =< R(i) /\ (j > i => R(j) < R(i))
<1>0. Len(d) \in Nat /\ DOMAIN d = 1 .. Len(d) /\ DOMAIN d # {} /\ \A i \in DOMAIN d : R(i) \in 1 .. 5
  OBVIOUS
<1> HIDE DEF R
<1>1. PICK m : m \in {R(i) : i \in DOMAIN d} /\ \A r \in {R(i) : i \in DOMAIN d} : r =< m
  <2>1. {R(i) : i \in DOMAIN d} \in SUBSET (1 .. 5) /\ {R(i) : i \in DOMAIN d} # {} /\ 5 \in Nat
    BY <1>0
  <2> QED BY <2>1, MaxOfNumbers
<1>2. PICK k : k \in {i \in DOMAIN d : R(i) = m} /\ \A i \in {j \in DOMAIN d : R(j) = m} : i =< k
  <2>1. {i \in DOMAIN d : R(i) = m} \in SUBSET (1 .. Len(d)) /\ {i \in DOMAIN d : R(i) = m} # {}
    BY <1>0, <1>1
  <2> QED BY <1>0, <2>1, MaxOfNumbers
<1>3. k \in DOMAIN d /\ Top(k)
  <2> SUFFICES ASSUME NEW j \in DOMAIN d PROVE R(j) =< R(k) /\ (j > k => R(j) < R(k))
    BY <1>2
  <2>1. R(j) =< m /\ R(k) = m /\ R(j) \in Int /\ m \in Int /\ j \in Int /\ k \in Int
    BY <1>0, <1>1, <1>2
  <2>2. R(j) = m => j =< k
    BY <1>2
  <2> QED BY <2>1, <2>2
<1>4. Worst(d) = CHOOSE i \in DOMAIN d : Top(i)
  BY DEF Worst, R
<1>5. Worst(d) \in DOMAIN d /\ Top(Worst(d))
  BY <1>3, <1>4
<1> QED BY <1>5 DEF R

\* The order of the levels is that of their status.
LEMMA Ranks ==
  /\ \A a \in Levels : Rank(a) \in 1 .. 5 /\ a # "allow"
  /\ \A a, b \in Levels : Rank(a) =< Rank(b) =>
        Level(ComplianceStatus(a)) =< Level(ComplianceStatus(b))
  /\ \A a \in Levels : /\ ComplianceStatus(a) \in {"pass", "warn", "block"}
                       /\ Level(ComplianceStatus(a)) \in Int
<1>1. Level("audit") = 1 /\ Level("pass") = 2 /\ Level("warn") = 3 /\ Level("block") = 4
  BY DEF Level, Statuses
<1>2. /\ Rank("low") = 1 /\ Rank("medium") = 2 /\ Rank("high") = 3
      /\ Rank("critical") = 4 /\ Rank("block") = 5
  BY DEF Rank
<1>3. /\ ComplianceStatus("low") = "pass" /\ ComplianceStatus("medium") = "warn"
      /\ ComplianceStatus("high") = "warn" /\ ComplianceStatus("critical") = "block"
      /\ ComplianceStatus("block") = "block"
  BY DEF ComplianceStatus
<1>4. Levels = {"low", "medium", "high", "critical", "block"}
  BY DEF Levels, Severities
<1> QED BY <1>1, <1>2, <1>3, <1>4

\* The tag has the status of one of the decisions, and of none a lower one.
LEMMA TagOfDecisions ==
  ASSUME NEW c, NEW d \in Seq(Decisions(c))
  PROVE  /\ \/ d = <<>> /\ ComplianceTag(d) = NoTag
            \/ \E x \in Range(d) : ComplianceTag(d).status = ComplianceStatus(x.action)
         /\ \A x \in Range(d) : Level(ComplianceTag(d).status) >= Level(ComplianceStatus(x.action))
<1>1. \A x \in Decisions(c) : x.action \in Levels
  BY DEF Decisions
<1>2. CASE d = <<>>
  BY <1>2 DEF ComplianceTag, Range
<1>3. CASE d # <<>>
  <2>1. \A x \in Decisions(c) : Rank(x.action) \in 1 .. 5
    BY <1>1, Ranks
  <2>2. /\ Worst(d) \in DOMAIN d
        /\ \A j \in DOMAIN d : Rank(d[j].action) =< Rank(d[Worst(d)].action)
    BY <1>3, <2>1, WorstExists
  <2>3. PICK w \in Range(d) : w = d[Worst(d)]
    BY <2>2 DEF Range
  <2>4. w.action \in Levels
    BY <1>1, <2>2, <2>3
  <2>5. ComplianceTag(d).status = ComplianceStatus(w.action)
    BY <1>3, <2>3, <2>4, Ranks DEF ComplianceTag
  <2>6. ASSUME NEW x \in Range(d)
        PROVE  Level(ComplianceTag(d).status) >= Level(ComplianceStatus(x.action))
    <3>1. x.action \in Levels /\ Rank(x.action) =< Rank(w.action)
      BY <1>1, <2>2, <2>3 DEF Range
    <3>2. Level(ComplianceStatus(x.action)) =< Level(ComplianceStatus(w.action))
      BY <2>4, <3>1, Ranks
    <3>3. Level(ComplianceStatus(x.action)) \in Int /\ Level(ComplianceStatus(w.action)) \in Int
      BY <2>4, <3>1, Ranks
    <3> QED BY <2>5, <3>2, <3>3
  <2> QED BY <2>5, <2>6
<1> QED BY <1>2, <1>3

-----------------------------------------------------------------------------
(* What the scan sees                                                      *)

\* The kinds that are really in a text, and those in plain sight.
Real(t) == {i \in DOMAIN t : t[i].kind = "ssn" => IsValidSsn(t[i].digits)}
Written(t) == {t[i].kind : i \in Real(t)}
Plain(t) == {t[i].kind : i \in {j \in Real(t) : ~ t[j].late /\ ~ t[j].split}}

\* What the scan sees of a text: a stream hides and shows, a body is plain.
LEMMA ScanSees ==
  ASSUME NEW a, a.streaming \in BOOLEAN, NEW t \in Texts
  PROVE  IF a.streaming
         THEN /\ Plain(t) \subseteq Scanned(Event(a, t))
              /\ Scanned(Event(a, t)) \subseteq Plain(t) \cup {"phone"}
         ELSE Scanned(Event(a, t)) = Written(t)
<1>1. \A i \in DOMAIN t : t[i].kind \in Patterns
  BY ExchangeAssumption
<1>2. \A i \in DOMAIN t : Match(t[i]).kind = t[i].kind /\ Match(t[i]).digits = t[i].digits
  BY DEF Match
<1>3. CASE a.streaming
  <2> DEFINE m == {Match(t[i]) : i \in {j \in DOMAIN t : ~ t[j].late /\ ~ t[j].split}}
             p == IF a.protocol = "openai" THEN {[kind |-> "phone", digits |-> <<>>]} ELSE {}
  <2>1. Event(a, t).payload = << m \cup p >>
    BY <1>3 DEF Event, Payload
  <2>2. Scanned(Event(a, t)) = ScanText(m \cup p)
    <3> HIDE DEF m, p
    <3> QED BY <2>1 DEF Scanned, ScanJson
  <2>3. \A i \in Real(t) : Validates(t[i].kind, t[i].digits)
    BY DEF Real, Validates
  <2>4. Plain(t) \subseteq ScanText(m \cup p)
    <3> SUFFICES ASSUME NEW i \in Real(t), ~ t[i].late /\ ~ t[i].split
                 PROVE  t[i].kind \in ScanText(m \cup p)
      BY DEF Plain
    <3>1. i \in DOMAIN t /\ Match(t[i]) \in m \cup p
      BY DEF Real
    <3> HIDE DEF m, p
    <3> QED BY <1>1, <1>2, <2>3, <3>1 DEF ScanText
  <2>5. ScanText(m \cup p) \subseteq Plain(t) \cup {"phone"}
    <3> SUFFICES ASSUME NEW x \in m, Validates(x.kind, x.digits) PROVE x.kind \in Plain(t)
      BY DEF ScanText
    <3>1. PICK i \in DOMAIN t : x = Match(t[i]) /\ ~ t[i].late /\ ~ t[i].split
      OBVIOUS
    <3>2. i \in Real(t)
      BY <1>2, <3>1 DEF Real, Validates
    <3> QED BY <1>2, <3>1, <3>2 DEF Plain
  <2> QED BY <1>3, <2>2, <2>4, <2>5
<1>4. CASE ~ a.streaming
  <2> DEFINE p == [i \in DOMAIN t |-> {Match(t[i])}]
  <2>1. Event(a, t).payload = p /\ Event(a, t).tags = {}
    BY <1>4 DEF Event, Payload
  <2>2. Scanned(Event(a, t)) = ScanJson(p)
    <3>1. p = <<>> => DOMAIN p = {} /\ ScanJson(p) = {}
      BY DEF ScanJson
    <3> HIDE DEF p
    <3> QED BY <2>1, <3>1 DEF Scanned
  <2>3. ASSUME NEW i \in DOMAIN t
        PROVE  ScanText(p[i]) = IF Validates(t[i].kind, t[i].digits) THEN {t[i].kind} ELSE {}
    <3>1. p[i] = {Match(t[i])}
      BY <2>3
    <3> QED BY <1>1, <1>2, <3>1 DEF ScanText
  <2>4. \A i \in DOMAIN t : i \in Real(t) <=> Validates(t[i].kind, t[i].digits)
    BY DEF Real, Validates
  <2>5. ScanJson(p) = UNION {ScanText(p[i]) : i \in DOMAIN t}
    BY DEF ScanJson
  <2>6. Real(t) \subseteq DOMAIN t
    BY DEF Real
  <2> HIDE DEF p
  <2>7. \A i \in DOMAIN t : ScanText(p[i]) = IF i \in Real(t) THEN {t[i].kind} ELSE {}
    BY <2>3, <2>4
  <2>8. UNION {ScanText(p[i]) : i \in DOMAIN t} = {t[i].kind : i \in Real(t)}
    <3>1. ASSUME NEW i \in DOMAIN t, NEW k \in ScanText(p[i])
          PROVE  k \in {t[j].kind : j \in Real(t)}
      BY <2>7, <3>1
    <3>2. ASSUME NEW i \in Real(t) PROVE t[i].kind \in ScanText(p[i])
      BY <2>6, <2>7, <3>2
    <3> QED BY <2>6, <3>1, <3>2
  <2> QED BY <1>4, <2>2, <2>5, <2>8 DEF Written
<1> QED BY <1>3, <1>4

-----------------------------------------------------------------------------
(* The limits                                                              *)

\* One turn of the loops in extract_budget_policy.
LayRule(l, r, class) == IF r.class = class THEN Overlay(l, r) ELSE l

LayRules(acc, rules, class) ==
    (CHOOSE g : g = [s \in SUBSET DOMAIN rules |->
        IF s = {} THEN acc ELSE LayRule(g[s \ {Max(s)}], rules[Max(s)], class)])[DOMAIN rules]

LayEntry(acc, e, class) ==
    IF ~ e.enabled \/ ~ IsBudgetPolicy(e) THEN acc ELSE LayRules(acc, e.rules, class)

\* The loop of extract_budget_policy, written out.
LEMMA ExtractUnfolds ==
  ASSUME NEW c, NEW class
  PROVE  ExtractBudgetPolicy(c, class) =
           (CHOOSE g : g = [s \in SUBSET DOMAIN c |->
              IF s = {} THEN NoLimits ELSE LayEntry(g[s \ {Max(s)}], c[Max(s)], class)])[DOMAIN c]
BY DEF ExtractBudgetPolicy, FoldLeft, MapThenFoldSet, LayRule, LayRules, LayEntry

\* Rules that set no limit leave no limits.
LEMMA NoRuleNoLimits ==
  ASSUME NEW c, NEW class, c \in Seq(Range(c)),
         \A i \in DOMAIN c : c[i].tokens = <<>> /\ c[i].cost = <<>>
  PROVE  LayRules(NoLimits, c, class) = NoLimits
<1> DEFINE A == {NoLimits}
           E == Range(c)
           F == [x \in A \X E |-> LayRule(x[1], x[2], class)]
           G(g) == g = [s \in SUBSET DOMAIN c |->
                     IF s = {} THEN NoLimits ELSE LayRule(g[s \ {Max(s)}], c[Max(s)], class)]
<1>1. c \in Seq(E) /\ DOMAIN c = 1 .. Len(c) /\ Len(c) \in Nat /\ NoLimits \in A
  OBVIOUS
<1>2. \A a \in A, e \in E : LayRule(a, e, class) \in A
  BY DEF LayRule, Overlay, NoLimits, Range
<1>3. F \in [A \X E -> A] /\ \A a \in A, e \in E : F[<<a, e>>] = LayRule(a, e, class)
  BY <1>2
<1> HIDE DEF A, E, F
<1>4. PICK g : Finds(g, A, E, F, NoLimits, c)
  BY <1>1, <1>3, FoldSolution DEF Steps
<1>5. G(g)
  BY <1>1, <1>3, <1>4 DEF Finds
<1>6. PICK f : f = CHOOSE x : G(x)
  OBVIOUS
<1>7. G(f)
  BY <1>5, <1>6
<1>8. Follows(f, A, E, F, NoLimits, c)
  BY <1>1, <1>3, <1>7 DEF Follows
<1>9. PICK h : Run(h, f[DOMAIN c], A, F, NoLimits, c)
  BY <1>1, <1>3, <1>8, FoldRuns DEF Steps
<1>10. f[DOMAIN c] \in A
  BY <1>1, <1>9 DEF Run
<1> QED BY <1>6, <1>10 DEF A, LayRules

\* A class has limits only where an entry in force is one of the budget.
LEMMA LimitsNeedBudget ==
  ASSUME NEW c, NEW class, IsPolicyList(c),
         \A i \in DOMAIN c : c[i].enabled => ~ IsBudget(c[i])
  PROVE  ExtractBudgetPolicy(c, class) = NoLimits
<1> DEFINE A == {NoLimits}
           E == Range(c)
           F == [x \in A \X E |-> LayEntry(x[1], x[2], class)]
           G(g) == g = [s \in SUBSET DOMAIN c |->
                     IF s = {} THEN NoLimits ELSE LayEntry(g[s \ {Max(s)}], c[Max(s)], class)]
<1>1. c \in Seq(E) /\ DOMAIN c = 1 .. Len(c) /\ Len(c) \in Nat /\ NoLimits \in A
  BY DEF IsPolicyList
<1>2. \A a \in A, e \in E : LayEntry(a, e, class) \in A
  <2> SUFFICES ASSUME NEW i \in DOMAIN c, c[i].enabled
               PROVE  LayRules(NoLimits, c[i].rules, class) = NoLimits
    BY DEF LayEntry, Range
  <2>1. \A k \in DOMAIN c[i].rules : c[i].rules[k].tokens = <<>> /\ c[i].rules[k].cost = <<>>
    BY DEF IsBudget, Some
  <2> QED BY <2>1, NoRuleNoLimits DEF IsPolicyList
<1>3. F \in [A \X E -> A] /\ \A a \in A, e \in E : F[<<a, e>>] = LayEntry(a, e, class)
  BY <1>2
<1> HIDE DEF A, E, F
<1>4. PICK g : Finds(g, A, E, F, NoLimits, c)
  BY <1>1, <1>3, FoldSolution DEF Steps
<1>5. G(g)
  BY <1>1, <1>3, <1>4 DEF Finds
<1>6. PICK f : f = CHOOSE x : G(x)
  OBVIOUS
<1>7. G(f)
  BY <1>5, <1>6
<1>8. Follows(f, A, E, F, NoLimits, c)
  BY <1>1, <1>3, <1>7 DEF Follows
<1>9. PICK h : Run(h, f[DOMAIN c], A, F, NoLimits, c)
  BY <1>1, <1>3, <1>8, FoldRuns DEF Steps
<1>10. f[DOMAIN c] \in A
  BY <1>1, <1>9 DEF Run
<1> QED BY <1>6, <1>10, ExtractUnfolds DEF A

InForce(c) == {i \in DOMAIN c : c[i].enabled}
Alarms(c, kinds) == {Alarm(c[i]) : i \in {j \in InForce(c) : ScanFor(c[j]) \cap kinds # {}}}

\* TagIsWorst, of its parts.
TagSound(c, a, t, verd, tg) ==
    LET over == IF verd = "block" THEN {"block"} ELSE {} IN
    /\ \A s \in Alarms(c, IF a.streaming THEN Plain(t) ELSE Written(t)) \cup over :
          Level(tg.status) >= Level(s)
    /\ tg = NoTag \/ tg.status \in
          Alarms(c, Written(t) \cup (IF a.streaming THEN {"phone"} ELSE {})) \cup over
            \cup (IF verd = "high" THEN {"warn"} ELSE {})

\* An entry about personal data speaks when a kind it asks for is seen,
\* and then with its own alarm.
LEMMA PiiSays ==
  ASSUME NEW e, NEW event
  PROVE  IF ScanFor(e) \cap Scanned(event) = {} THEN Range(EvaluatePii(e, event)) = {}
         ELSE \E x : /\ Range(EvaluatePii(e, event)) = {x}
                     /\ ComplianceStatus(x.action) = Alarm(e)
<1> DEFINE words == e.rules[1].severity
           x == Decision(e.id, IF words = <<>> THEN "high" ELSE ParseSeverity(words[1]))
<1>1. CASE ScanFor(e) \cap Scanned(event) = {}
  BY <1>1 DEF EvaluatePii, Range
<1>2. CASE ScanFor(e) \cap Scanned(event) # {}
  <2>1. EvaluatePii(e, event) = << x >>
    BY <1>2 DEF EvaluatePii
  <2>2. ComplianceStatus(x.action) = Alarm(e)
    BY DEF Alarm, Decision
  <2> HIDE DEF x
  <2>3. Range(<< x >>) = {x}
    BY DEF Range
  <2> QED BY <1>2, <2>1, <2>2, <2>3
<1> QED BY <1>1, <1>2

\* What is said of the budget.
LEMMA BudgetSays ==
  /\ Range(EvaluateBudget("allow")) = {}
  /\ \A verd \in {"high", "block"} :
        Range(EvaluateBudget(verd)) = {Decision("budget-cap", verd)}
  /\ ComplianceStatus(Decision("budget-cap", "high").action) = "warn"
  /\ ComplianceStatus(Decision("budget-cap", "block").action) = "block"
<1>1. \A verd \in {"high", "block"} :
         Range(<< Decision("budget-cap", verd) >>) = {Decision("budget-cap", verd)}
  BY DEF Range
<1> QED BY <1>1 DEF EvaluateBudget, Range, ComplianceStatus, Decision

\* The tag for one list of policies, one text and one verdict.
LEMMA TagIsSound ==
  ASSUME NEW c, IsPolicyList(c), NEW a, a.streaming \in BOOLEAN, NEW t \in Texts,
         NEW verd \in {"allow", "high", "block"},
         verd = "block" => \E class : ExtractBudgetPolicy(c, class) # NoLimits
  PROVE  TagSound(c, a, t, verd, HookTag(c, Event(a, t), verd))
<1> DEFINE event == Event(a, t)
           d == Evaluate(c, event, verd)
           tg == HookTag(c, event, verd)
           over == IF verd = "block" THEN {"block"} ELSE {}
           seen == IF a.streaming THEN Plain(t) ELSE Written(t)
           shown == Written(t) \cup (IF a.streaming THEN {"phone"} ELSE {})
<1>1. /\ d \in Seq(Decisions(c))
      /\ Range(d) = UNION {Says(c[i], event, verd) : i \in InForce(c)}
  BY EvaluateSays DEF InForce
<1>2. seen \subseteq Scanned(event) /\ Scanned(event) \subseteq shown
  <2>1. Plain(t) \subseteq Written(t)
    BY DEF Plain, Written
  <2> QED BY <2>1, ScanSees
<1>3. tg = ComplianceTag(d)
  BY DEF HookTag
<1> HIDE DEF event, d, tg, seen, shown
<1>4. ASSUME NEW i \in InForce(c), ScanFor(c[i]) \cap seen # {}
      PROVE  Level(tg.status) >= Level(Alarm(c[i]))
  <2>1. IsPii(c[i])
    BY <1>4 DEF IsPii, Some, ScanFor
  <2>2. PICK x : Range(EvaluatePii(c[i], event)) = {x} /\ ComplianceStatus(x.action) = Alarm(c[i])
    BY <1>2, <1>4, PiiSays
  <2>3. x \in Range(d)
    BY <1>1, <2>1, <2>2 DEF Says
  <2> QED BY <1>1, <1>3, <2>2, <2>3, TagOfDecisions
<1>5. ASSUME verd = "block" PROVE Level(tg.status) >= Level("block")
  <2>1. PICK i \in InForce(c) : IsBudget(c[i])
    BY <1>5, LimitsNeedBudget DEF InForce
  <2>2. Decision("budget-cap", "block") \in Range(d)
    BY <1>1, <1>5, <2>1, BudgetSays DEF Says
  <2> QED BY <1>1, <1>3, <2>2, BudgetSays, TagOfDecisions
<1>6. ASSUME NEW i \in InForce(c), NEW x \in Says(c[i], event, verd)
      PROVE  ComplianceStatus(x.action) \in
               Alarms(c, shown) \cup over \cup (IF verd = "high" THEN {"warn"} ELSE {})
  <2>1. CASE x \in Range(EvaluatePii(c[i], event))
    <3>1. ScanFor(c[i]) \cap Scanned(event) # {} /\ ComplianceStatus(x.action) = Alarm(c[i])
      BY <2>1, PiiSays
    <3>2. ScanFor(c[i]) \cap shown # {}
      BY <1>2, <3>1
    <3> QED BY <3>1, <3>2 DEF Alarms
  <2>2. CASE x \in Range(EvaluateBudget(verd))
    BY <2>2, BudgetSays
  <2> QED BY <1>6, <2>1, <2>2 DEF Says
<1>7. \/ tg = NoTag
      \/ tg.status \in Alarms(c, shown) \cup over \cup (IF verd = "high" THEN {"warn"} ELSE {})
  <2>1. \/ tg = NoTag
        \/ \E x \in Range(d) : tg.status = ComplianceStatus(x.action)
    BY <1>1, <1>3, TagOfDecisions
  <2> QED BY <1>1, <1>6, <2>1
<1> QED BY <1>4, <1>5, <1>7 DEF TagSound, Alarms, event, tg, seen, shown

\* The event that is logged has the tag that is due.
LEMMA LogEventTags == ASSUME IsAnswer(answer), LogEvent PROVE TagIsWorst'
<1>1. PICK file \in Files : config' = EngineConfig(file)
  BY DEF LogEvent
<1>2. IsPolicyList(config')
  <2>1. IsPolicyList(<<>>)
    BY DEF IsPolicyList
  <2> QED BY <1>1, <2>1, ExchangeAssumption DEF EngineConfig, LoadFromFile
<1>3. /\ text' \in Texts /\ verdict' \in Verdicts(config') /\ answer' = answer
      /\ tag' = HookTag(config', Event(answer, text'), verdict') /\ answer.streaming \in BOOLEAN
  BY DEF LogEvent, IsAnswer
<1>4. PICK c, t, v : c = config' /\ t = text' /\ v = verdict'
  OBVIOUS
<1>5. v \in {"allow", "high", "block"} /\ (v = "block" => \E class : ExtractBudgetPolicy(c, class) # NoLimits)
  BY <1>3, <1>4 DEF Verdicts
<1>6. PICK a : a = answer
  OBVIOUS
<1>7. TagSound(c, a, t, v, HookTag(c, Event(a, t), v))
  BY <1>2, <1>3, <1>4, <1>5, <1>6, TagIsSound
<1>8. TagSound(config', answer', text', verdict', tag')
  BY <1>3, <1>4, <1>6, <1>7
<1> QED BY <1>8 DEF TagIsWorst, TagSound, Alarms, InForce, Active, Plain, Written, Real

-----------------------------------------------------------------------------
(* Numbers                                                                 *)

\* A number below the modulus is its own remainder.
LEMMA ModSmall == ASSUME NEW m \in Nat, NEW x \in Nat, x < m PROVE x % m = x
OBVIOUS

\* What fits an i32 is kept by the cast.
LEMMA WrapOfFitting == ASSUME NEW n \in Int, Fits(n) PROVE Wrap(n) = n
<1>1. IntMax \in Nat
  BY WireAssumption
<1>2. PICK m \in Nat, x \in Nat : m = 2 * (IntMax + 1) /\ x = n + IntMax + 1 /\ x < m
  BY <1>1 DEF Fits
<1>3. x % m = x
  BY <1>2, ModSmall
<1> QED BY <1>1, <1>2, <1>3 DEF Wrap

-----------------------------------------------------------------------------
(* Joining names                                                           *)

JoinStep(acc, name) == IF Contains(acc, name) THEN acc ELSE Append(acc, name)
JoinF(T) == [x \in Seq(T) \X T |-> JoinStep(x[1], x[2])]

\* Names that are joined are names.
LEMMA JoinSteps ==
  ASSUME NEW T
  PROVE  /\ Steps(JoinF(T), Seq(T), T)
         /\ \A acc \in Seq(T), name \in T : JoinF(T)[<<acc, name>>] = JoinStep(acc, name)
<1>1. \A acc \in Seq(T), name \in T : JoinStep(acc, name) \in Seq(T)
  BY DEF JoinStep
<1> QED BY <1>1 DEF JoinF, Steps

\* The loop of Join, written out.
LEMMA JoinUnfolds ==
  ASSUME NEW names, NEW more
  PROVE  Join(names, more) =
           (CHOOSE g : g = [s \in SUBSET DOMAIN more |->
              IF s = {} THEN names ELSE JoinStep(g[s \ {Max(s)}], more[Max(s)])])[DOMAIN more]
BY DEF Join, FoldLeft, MapThenFoldSet, JoinStep

\* Join is the fold by JoinF.
LEMMA JoinValue ==
  ASSUME NEW T, NEW names \in Seq(T), NEW more \in Seq(T)
  PROVE  Join(names, more) = Value(JoinF(T), names, more)
<1> DEFINE G(g) == g = [s \in SUBSET DOMAIN more |->
                     IF s = {} THEN names ELSE JoinStep(g[s \ {Max(s)}], more[Max(s)])]
<1>1. DOMAIN more = 1 .. Len(more)
  OBVIOUS
<1>2. PICK A : A = Seq(T)
  OBVIOUS
<1>3. Steps(JoinF(T), A, T) /\ names \in A
      /\ \A acc \in A, name \in T : JoinF(T)[<<acc, name>>] = JoinStep(acc, name)
  BY <1>2, JoinSteps
<1>4. PICK g : Finds(g, A, T, JoinF(T), names, more)
  BY <1>3, FoldSolution
<1>5. G(g)
  BY <1>1, <1>3, <1>4 DEF Finds
<1>6. PICK f : f = CHOOSE x : G(x)
  OBVIOUS
<1>7. G(f)
  BY <1>5, <1>6
<1>8. Follows(f, A, T, JoinF(T), names, more)
  BY <1>1, <1>3, <1>7 DEF Follows
<1>9. f[DOMAIN more] = Value(JoinF(T), names, more)
  BY <1>3, <1>8, ValueIs
<1> QED BY <1>6, <1>9, JoinUnfolds

\* To join two lists in a row is to join the one and then the other.
LEMMA JoinFacts ==
  ASSUME NEW T, NEW names \in Seq(T), NEW s \in Seq(T)
  PROVE  /\ Join(names, s) \in Seq(T)
         /\ Join(names, <<>>) = names
         /\ \A t \in Seq(T) : Join(names, s \o t) = Join(Join(names, s), t)
<1>1. PICK A, F : A = Seq(T) /\ F = JoinF(T)
  OBVIOUS
<1>2. Steps(F, A, T) /\ names \in A
  BY <1>1, JoinSteps
<1>3. PICK j : j = Join(names, s)
  OBVIOUS
<1>4. j = Value(F, names, s)
  BY <1>1, <1>3, JoinValue
<1>5. j \in A
  BY <1>2, <1>4, ValueType
<1>6. Join(names, <<>>) = names
  <2>0. PICK e : e = <<>>
    OBVIOUS
  <2>1. e \in Seq(T) /\ e = <<>>
    BY <2>0
  <2>2. Join(names, e) = Value(F, names, e)
    BY <1>1, <2>1, JoinValue
  <2>3. Value(F, names, <<>>) = names
    BY <1>2, ValueEmpty
  <2> QED BY <2>1, <2>2, <2>3
<1>7. ASSUME NEW t \in Seq(T) PROVE Join(names, s \o t) = Join(j, t)
  <2>0. PICK st : st = s \o t
    OBVIOUS
  <2>1. st \in Seq(T) /\ st = s \o t
    BY <2>0
  <2>2. Join(names, st) = Value(F, names, st)
    BY <1>1, <2>1, JoinValue
  <2>3. Join(j, t) = Value(F, j, t)
    BY <1>1, <1>5, JoinValue
  <2>4. Value(F, names, s \o t) = Value(F, Value(F, names, s), t)
    BY <1>2, ValueConcat, SMT
  <2> QED BY <1>4, <2>1, <2>2, <2>3, <2>4
<1> QED BY <1>1, <1>3, <1>5, <1>6, <1>7

-----------------------------------------------------------------------------
(* What an answer can say                                                  *)

ToolsOf(a) == UNION {Range(a.choices[i].tools) : i \in DOMAIN a.choices}
ReasonsOf(a) == {a.choices[i].reason : i \in DOMAIN a.choices} \cup {<<>>}
UsagesOf(a) == {Usage(a.input, 0, a.input), Usage(a.input, a.output, a.input + a.output)}
UsageNow(a) == {<<>>} \cup {<< u >> : u \in UsagesOf(a)}
Cast(u) ==
    IF u = <<>> THEN <<>>
    ELSE << Usage(Wrap(u[1].input), Wrap(u[1].output), Wrap(u[1].total)) >>
UsageRead(a) == {Cast(u) : u \in UsageNow(a)}
Parts(a) == [reason : ReasonsOf(a), tools : Seq(ToolsOf(a))]
ChoicesNow(a) == {<<>>} \cup {<< c >> : c \in Parts(a)}

\* The JSON of its stream, in either protocol.
Chunks(a) ==
    [ok : {TRUE}, model : {<<a.model>>}, usage : UsageNow(a), choices : ChoicesNow(a)]
Fields(a) ==
    [ok : {TRUE}, model : {<<>>, <<a.model>>}, input : {<<>>, <<a.input>>},
     tools : Seq(ToolsOf(a)), reason : ReasonsOf(a), output : {<<>>, <<a.output>>}]

IsSane(a) == a.input \in Nat /\ a.output \in Nat /\ a.input + a.output =< IntMax

\* The fields of what an answer says.
LEMMA FieldTypes ==
  ASSUME NEW a
  PROVE  /\ \A j \in Chunks(a) : /\ j.ok = TRUE /\ j.model = <<a.model>>
                                 /\ j.usage \in UsageNow(a) /\ j.choices \in ChoicesNow(a)
         /\ \A c \in Parts(a) : c.reason \in ReasonsOf(a) /\ c.tools \in Seq(ToolsOf(a))
         /\ \A j \in Fields(a) : /\ j.ok = TRUE /\ j.model \in {<<>>, <<a.model>>}
                                 /\ j.input \in {<<>>, <<a.input>>} /\ j.output \in {<<>>, <<a.output>>}
                                 /\ j.tools \in Seq(ToolsOf(a)) /\ j.reason \in ReasonsOf(a)
         /\ <<>> \in ReasonsOf(a) /\ <<>> \in Seq(ToolsOf(a)) /\ <<>> \in UsageNow(a)
         /\ <<>> \in ChoicesNow(a)
<1>1. <<>> \in ReasonsOf(a) /\ <<>> \in Seq(ToolsOf(a)) /\ <<>> \in UsageNow(a) /\ <<>> \in ChoicesNow(a)
  BY DEF ReasonsOf, UsageNow, ChoicesNow
<1>2. \A j \in Chunks(a) : /\ j.ok = TRUE /\ j.model = <<a.model>>
                           /\ j.usage \in UsageNow(a) /\ j.choices \in ChoicesNow(a)
  BY DEF Chunks
<1>3. \A c \in Parts(a) : c.reason \in ReasonsOf(a) /\ c.tools \in Seq(ToolsOf(a))
  BY DEF Parts
<1>4. \A j \in Fields(a) : /\ j.ok = TRUE /\ j.model \in {<<>>, <<a.model>>}
                           /\ j.input \in {<<>>, <<a.input>>} /\ j.output \in {<<>>, <<a.output>>}
                           /\ j.tools \in Seq(ToolsOf(a)) /\ j.reason \in ReasonsOf(a)
  BY DEF Fields
<1> QED BY <1>1, <1>2, <1>3, <1>4

-----------------------------------------------------------------------------
(* The parser of OpenAI                                                    *)

\* What it may have read.
Readings(a) ==
    [model : {<<>>, <<a.model>>}, usage : UsageRead(a), reason : ReasonsOf(a),
     tools : Seq(ToolsOf(a))]

\* The fields of a reading.
LEMMA ReadingTypes ==
  ASSUME NEW a
  PROVE  /\ \A r \in Readings(a) : /\ r.model \in {<<>>, <<a.model>>} /\ r.usage \in UsageRead(a)
                                   /\ r.reason \in ReasonsOf(a) /\ r.tools \in Seq(ToolsOf(a))
         /\ NoReading \in Readings(a)
<1>1. <<>> \in UsageRead(a)
  BY FieldTypes DEF UsageRead, Cast
<1>2. NoReading \in Readings(a)
  BY <1>1, FieldTypes DEF Readings, NoReading
<1> QED BY <1>2 DEF Readings

\* The usage that is read last is kept.
LEMMA UsageKept ==
  ASSUME NEW old, NEW u
  PROVE  NextUsage(old, u) = IF u = <<>> THEN old ELSE Cast(u)
BY DEF NextUsage, Cast

\* The counts of a sane answer are kept by the casts.
LEMMA CastOfSane ==
  ASSUME NEW a, IsSane(a), NEW u \in UsageNow(a)
  PROVE  Cast(u) = u
<1>1. ASSUME NEW x \in UsagesOf(a), u = << x >> PROVE Cast(u) = u
  <2>1. x.input \in Nat /\ x.output \in Nat /\ x.total \in Nat
        /\ x.input =< IntMax /\ x.output =< IntMax /\ x.total =< IntMax
        /\ x = Usage(x.input, x.output, x.total)
    BY WireAssumption DEF UsagesOf, Usage, IsSane
  <2>2. Wrap(x.input) = x.input /\ Wrap(x.output) = x.output /\ Wrap(x.total) = x.total
    <3>1. Fits(x.input) /\ Fits(x.output) /\ Fits(x.total)
      BY <2>1, WireAssumption DEF Fits
    <3> QED BY <2>1, <3>1, WrapOfFitting
  <2>3. u # <<>> /\ u[1] = x
    BY <1>1
  <2> QED BY <1>1, <2>1, <2>2, <2>3 DEF Cast
<1>2. u = <<>> \/ \E x \in UsagesOf(a) : u = << x >>
  BY DEF UsageNow
<1> QED BY <1>1, <1>2 DEF Cast

\* What a choice adds to a reading.
LEMMA OneChoice ==
  ASSUME NEW a, NEW r \in Readings(a), NEW c \in Parts(a)
  PROVE  /\ ReadChoice(r, c) \in Readings(a)
         /\ ReadChoice(r, c).model = r.model /\ ReadChoice(r, c).usage = r.usage
         /\ ReadChoice(r, c).reason = Latest(r.reason, c.reason)
         /\ ReadChoice(r, c).tools = Join(r.tools, c.tools)
<1>1. Latest(r.reason, c.reason) \in ReasonsOf(a)
  BY FieldTypes, ReadingTypes DEF Latest
<1>2. Join(r.tools, c.tools) \in Seq(ToolsOf(a))
  <2>1. r.tools \in Seq(ToolsOf(a)) /\ c.tools \in Seq(ToolsOf(a))
    BY FieldTypes, ReadingTypes
  <2> QED BY <2>1, JoinFacts
<1> QED BY <1>1, <1>2 DEF ReadChoice, Readings

ChoiceF(a) == [x \in Readings(a) \X Parts(a) |-> ReadChoice(x[1], x[2])]

\* A choice makes a reading of a reading.
LEMMA ChoiceSteps ==
  ASSUME NEW a
  PROVE  /\ Steps(ChoiceF(a), Readings(a), Parts(a))
         /\ \A r \in Readings(a), c \in Parts(a) : ChoiceF(a)[<<r, c>>] = ReadChoice(r, c)
<1>1. \A r \in Readings(a), c \in Parts(a) : ReadChoice(r, c) \in Readings(a)
  BY OneChoice
<1> QED BY <1>1 DEF ChoiceF, Steps

\* The loop over the choices of a chunk, written out.
LEMMA ChoicesUnfold ==
  ASSUME NEW base, NEW cs
  PROVE  FoldLeft(ReadChoice, base, cs) =
           (CHOOSE g : g = [s \in SUBSET DOMAIN cs |->
              IF s = {} THEN base ELSE ReadChoice(g[s \ {Max(s)}], cs[Max(s)])])[DOMAIN cs]
BY DEF FoldLeft, MapThenFoldSet

\* It is the fold by ChoiceF.
LEMMA ChoicesValue ==
  ASSUME NEW a, NEW base \in Readings(a), NEW cs \in Seq(Parts(a))
  PROVE  FoldLeft(ReadChoice, base, cs) = Value(ChoiceF(a), base, cs)
<1> DEFINE G(g) == g = [s \in SUBSET DOMAIN cs |->
                     IF s = {} THEN base ELSE ReadChoice(g[s \ {Max(s)}], cs[Max(s)])]
<1>1. DOMAIN cs = 1 .. Len(cs)
  OBVIOUS
<1>2. PICK A, E, F : A = Readings(a) /\ E = Parts(a) /\ F = ChoiceF(a)
  OBVIOUS
<1>3. Steps(F, A, E) /\ base \in A /\ cs \in Seq(E)
      /\ \A r \in A, c \in E : F[<<r, c>>] = ReadChoice(r, c)
  BY <1>2, ChoiceSteps
<1>4. PICK g : Finds(g, A, E, F, base, cs)
  BY <1>3, FoldSolution
<1>5. G(g)
  BY <1>1, <1>3, <1>4 DEF Finds
<1>6. PICK f : f = CHOOSE x : G(x)
  OBVIOUS
<1>7. G(f)
  BY <1>5, <1>6
<1>8. Follows(f, A, E, F, base, cs)
  BY <1>1, <1>3, <1>7 DEF Follows
<1>9. f[DOMAIN cs] = Value(F, base, cs)
  BY <1>3, <1>8, ValueIs
<1> QED BY <1>2, <1>6, <1>9, ChoicesUnfold

\* A chunk has one choice or none.
LEMMA OneChunk ==
  ASSUME NEW a, NEW r \in Readings(a), NEW j \in Chunks(a)
  PROVE  /\ ReadChunk(r, j) \in Readings(a)
         /\ ReadChunk(r, j).model = <<a.model>>
         /\ ReadChunk(r, j).usage = IF j.usage = <<>> THEN r.usage ELSE Cast(j.usage)
         /\ j.choices = <<>> => /\ ReadChunk(r, j).reason = r.reason
                                /\ ReadChunk(r, j).tools = r.tools
         /\ \A c \in Parts(a) : j.choices = << c >> =>
               /\ ReadChunk(r, j).reason = Latest(r.reason, c.reason)
               /\ ReadChunk(r, j).tools = Join(r.tools, c.tools)
<1> DEFINE base == [r EXCEPT !.usage = NextUsage(r.usage, j.usage), !.model = Latest(r.model, j.model)]
<1>0. j.ok = TRUE /\ j.model = <<a.model>> /\ j.usage \in UsageNow(a) /\ j.choices \in ChoicesNow(a)
  BY FieldTypes
<1>1. Latest(r.model, j.model) = <<a.model>>
  BY <1>0 DEF Latest
<1>2. NextUsage(r.usage, j.usage) = IF j.usage = <<>> THEN r.usage ELSE Cast(j.usage)
  BY <1>0, UsageKept
<1>10. Cast(j.usage) \in UsageRead(a)
  BY <1>0 DEF UsageRead
<1>3. /\ base \in Readings(a) /\ base.model = <<a.model>>
      /\ base.usage = IF j.usage = <<>> THEN r.usage ELSE Cast(j.usage)
      /\ base.reason = r.reason /\ base.tools = r.tools
  BY <1>0, <1>1, <1>2, <1>10, ReadingTypes DEF Readings
<1>4. ReadChunk(r, j) = FoldLeft(ReadChoice, base, j.choices)
  BY FieldTypes DEF ReadChunk
<1> HIDE DEF base
<1>5. PICK b \in Readings(a) : b = base
  BY <1>3
<1>6. CASE j.choices = <<>>
  <2>0. PICK cs : cs = j.choices
    OBVIOUS
  <2>1. cs \in Seq(Parts(a)) /\ cs = <<>>
    BY <1>6, <2>0
  <2>2. FoldLeft(ReadChoice, b, cs) = Value(ChoiceF(a), b, cs)
    BY <2>1, ChoicesValue
  <2>3. Value(ChoiceF(a), b, <<>>) = b
    BY ChoiceSteps, ValueEmpty
  <2> QED BY <1>3, <1>4, <1>5, <1>6, <2>0, <2>1, <2>2, <2>3
<1>7. ASSUME NEW c \in Parts(a), j.choices = << c >>
      PROVE  ReadChunk(r, j) = ReadChoice(b, c)
  <2>0. PICK cs : cs = << c >>
    OBVIOUS
  <2>1. cs \in Seq(Parts(a))
    BY <2>0
  <2>2. FoldLeft(ReadChoice, b, cs) = Value(ChoiceF(a), b, cs)
    BY <2>1, ChoicesValue
  <2>3. Value(ChoiceF(a), b, << c >>) = ChoiceF(a)[<<b, c>>]
    BY ChoiceSteps, ValueOfOne
  <2> QED BY <1>4, <1>5, <1>7, <2>0, <2>2, <2>3, ChoiceSteps
<1>8. ASSUME NEW c \in Parts(a), j.choices = << c >>
      PROVE  /\ ReadChunk(r, j) \in Readings(a)
             /\ ReadChunk(r, j).model = <<a.model>>
             /\ ReadChunk(r, j).usage = IF j.usage = <<>> THEN r.usage ELSE Cast(j.usage)
             /\ ReadChunk(r, j).reason = Latest(r.reason, c.reason)
             /\ ReadChunk(r, j).tools = Join(r.tools, c.tools)
  BY <1>3, <1>5, <1>7, <1>8, OneChoice
<1>9. \/ j.choices = <<>>
      \/ \E c \in Parts(a) : j.choices = << c >>
  BY FieldTypes DEF ChoicesNow
<1> QED BY <1>6, <1>8, <1>9

Json(a) == {Bad} \cup IF a.protocol = "openai" THEN Chunks(a) ELSE Fields(a)
EventNames == {"message_start", "content_block_start", "message_delta", "message_stop"}

\* The lines that may arrive.
Lines(a) ==
    {OtherLine, DoneLine} \cup {DataLine(j) : j \in Json(a)} \cup {EventLine(n) : n \in EventNames}

\* What kinds of lines there are.
LEMMA LineTypes ==
  ASSUME NEW a, NEW l \in Lines(a)
  PROVE  \/ l.kind = "other"
         \/ l.kind = "done"
         \/ l.kind = "data" /\ l.json \in Json(a)
         \/ l.kind = "event" /\ l.name \in EventNames
BY DEF Lines, OtherLine, DoneLine, DataLine, EventLine

DataStep(acc, line) == IF line.kind = "data" THEN Append(acc, line.json) ELSE acc
DataF(a) == [x \in Seq(Json(a)) \X Lines(a) |-> DataStep(x[1], x[2])]

\* A line adds its JSON to those before it.
LEMMA DataSteps ==
  ASSUME NEW a
  PROVE  /\ Steps(DataF(a), Seq(Json(a)), Lines(a))
         /\ \A acc \in Seq(Json(a)), l \in Lines(a) : DataF(a)[<<acc, l>>] = DataStep(acc, l)
<1>1. \A acc \in Seq(Json(a)), l \in Lines(a) : DataStep(acc, l) \in Seq(Json(a))
  BY LineTypes DEF DataStep
<1> QED BY <1>1 DEF DataF, Steps

\* The loop of parse_sse_data_lines, written out.
LEMMA DataUnfolds ==
  ASSUME NEW lines
  PROVE  DataLines(lines) =
           (CHOOSE g : g = [s \in SUBSET DOMAIN lines |->
              IF s = {} THEN <<>> ELSE DataStep(g[s \ {Max(s)}], lines[Max(s)])])[DOMAIN lines]
BY DEF DataLines, FoldLeft, MapThenFoldSet, DataStep

\* It is the fold by DataF.
LEMMA DataValue ==
  ASSUME NEW a, NEW lines \in Seq(Lines(a))
  PROVE  DataLines(lines) = Value(DataF(a), <<>>, lines)
<1> DEFINE G(g) == g = [s \in SUBSET DOMAIN lines |->
                     IF s = {} THEN <<>> ELSE DataStep(g[s \ {Max(s)}], lines[Max(s)])]
<1>1. DOMAIN lines = 1 .. Len(lines)
  OBVIOUS
<1>2. PICK A, E, F, base : A = Seq(Json(a)) /\ E = Lines(a) /\ F = DataF(a) /\ base = <<>>
  OBVIOUS
<1>3. Steps(F, A, E) /\ base \in A /\ lines \in Seq(E)
      /\ \A r \in A, l \in E : F[<<r, l>>] = DataStep(r, l)
  BY <1>2, DataSteps
<1>4. PICK g : Finds(g, A, E, F, base, lines)
  BY <1>3, FoldSolution
<1>5. G(g)
  BY <1>1, <1>2, <1>3, <1>4 DEF Finds
<1>6. PICK f : f = CHOOSE x : G(x)
  OBVIOUS
<1>7. G(f)
  BY <1>5, <1>6
<1>8. Follows(f, A, E, F, base, lines)
  BY <1>1, <1>2, <1>3, <1>7 DEF Follows
<1>9. f[DOMAIN lines] = Value(F, base, lines)
  BY <1>3, <1>8, ValueIs
<1> QED BY <1>2, <1>6, <1>9, DataUnfolds

ChunkF(a) == [x \in Readings(a) \X Json(a) |-> ReadChunk(x[1], x[2])]

\* A chunk makes a reading of a reading.
LEMMA ChunkSteps ==
  ASSUME NEW a, a.protocol = "openai"
  PROVE  /\ Steps(ChunkF(a), Readings(a), Json(a))
         /\ \A r \in Readings(a), j \in Json(a) :
               ChunkF(a)[<<r, j>>] = ReadChunk(r, j) /\ ReadChunk(r, j) \in Readings(a)
<1>1. \A r \in Readings(a), j \in Json(a) : ReadChunk(r, j) \in Readings(a)
  <2>1. \A r \in Readings(a), j \in Chunks(a) : ReadChunk(r, j) \in Readings(a)
    BY OneChunk
  <2>2. \A r : ReadChunk(r, Bad) = r
    BY DEF ReadChunk, Bad
  <2> QED BY <2>1, <2>2 DEF Json
<1> QED BY <1>1 DEF ChunkF, Steps

\* The loop of parse_streaming_chunks, written out.
LEMMA ChunksUnfold ==
  ASSUME NEW js
  PROVE  ReadChunks(js) =
           (CHOOSE g : g = [s \in SUBSET DOMAIN js |->
              IF s = {} THEN NoReading ELSE ReadChunk(g[s \ {Max(s)}], js[Max(s)])])[DOMAIN js]
BY DEF ReadChunks, FoldLeft, MapThenFoldSet

\* It is the fold by ChunkF.
LEMMA ChunksValue ==
  ASSUME NEW a, a.protocol = "openai", NEW js \in Seq(Json(a))
  PROVE  ReadChunks(js) = Value(ChunkF(a), NoReading, js)
<1> DEFINE G(g) == g = [s \in SUBSET DOMAIN js |->
                     IF s = {} THEN NoReading ELSE ReadChunk(g[s \ {Max(s)}], js[Max(s)])]
<1>1. DOMAIN js = 1 .. Len(js)
  OBVIOUS
<1>2. PICK A, E, F : A = Readings(a) /\ E = Json(a) /\ F = ChunkF(a)
  OBVIOUS
<1>3. Steps(F, A, E) /\ NoReading \in A /\ js \in Seq(E)
      /\ \A r \in A, j \in E : F[<<r, j>>] = ReadChunk(r, j)
  BY <1>2, ChunkSteps, ReadingTypes
<1>4. PICK g : Finds(g, A, E, F, NoReading, js)
  BY <1>3, FoldSolution
<1>5. G(g)
  BY <1>1, <1>3, <1>4 DEF Finds
<1>6. PICK f : f = CHOOSE x : G(x)
  OBVIOUS
<1>7. G(f)
  BY <1>5, <1>6
<1>8. Follows(f, A, E, F, NoReading, js)
  BY <1>1, <1>3, <1>7 DEF Follows
<1>9. f[DOMAIN js] = Value(F, NoReading, js)
  BY <1>3, <1>8, ValueIs
<1> QED BY <1>2, <1>6, <1>9, ChunksUnfold

-----------------------------------------------------------------------------
\* The two passes of the parser are one over the lines.
ReadLine(r, line) == IF line.kind = "data" THEN ReadChunk(r, line.json) ELSE r
LineF(a) == [x \in Readings(a) \X Lines(a) |-> ReadLine(x[1], x[2])]

\* So does a line.
LEMMA LineSteps ==
  ASSUME NEW a, a.protocol = "openai"
  PROVE  /\ Steps(LineF(a), Readings(a), Lines(a))
         /\ \A r \in Readings(a), l \in Lines(a) : LineF(a)[<<r, l>>] = ReadLine(r, l)
<1>1. \A r \in Readings(a), l \in Lines(a) : ReadLine(r, l) \in Readings(a)
  BY LineTypes, ChunkSteps DEF ReadLine
<1> QED BY <1>1 DEF LineF, Steps

\* To collect the chunks and then to read them is to read line by line.
LEMMA OpenAiReads ==
  ASSUME NEW a, a.protocol = "openai", NEW lines \in Seq(Lines(a))
  PROVE  ReadChunks(DataLines(lines)) = Value(LineF(a), NoReading, lines)
<1>1. PICK A, B, E, J, D, H, C, base :
          /\ A = Seq(Json(a)) /\ B = Readings(a) /\ E = Lines(a) /\ J = Json(a)
          /\ D = DataF(a) /\ H = LineF(a) /\ C = ChunkF(a) /\ base = <<>>
  OBVIOUS
<1>2. /\ Steps(D, A, E) /\ Steps(H, B, E) /\ Steps(C, B, J) /\ NoReading \in B
      /\ \A acc \in A, l \in E : D[<<acc, l>>] = DataStep(acc, l)
      /\ \A r \in B, l \in E : H[<<r, l>>] = ReadLine(r, l)
      /\ \A r \in B, j \in J : C[<<r, j>>] = ReadChunk(r, j)
      /\ base \in A /\ lines \in Seq(E) /\ A = Seq(J)
  <2>1. Steps(D, A, E) /\ \A acc \in A, l \in E : D[<<acc, l>>] = DataStep(acc, l)
    BY <1>1, DataSteps
  <2>2. Steps(H, B, E) /\ \A r \in B, l \in E : H[<<r, l>>] = ReadLine(r, l)
    BY <1>1, LineSteps
  <2>3. Steps(C, B, J) /\ \A r \in B, j \in J : C[<<r, j>>] = ReadChunk(r, j)
    BY <1>1, ChunkSteps
  <2> QED BY <1>1, <2>1, <2>2, <2>3, ReadingTypes
<1> DEFINE p == [acc \in A |-> Value(C, NoReading, acc)]
<1>3. Carries(p, D, A, H, B, E)
  <2>1. p \in [A -> B]
    <3>1. \A acc \in Seq(J) : Value(C, NoReading, acc) \in B
      BY <1>2, ValueType
    <3> QED BY <1>2, <3>1
  <2>2. ASSUME NEW acc \in A, NEW l \in E PROVE p[D[<<acc, l>>]] = H[<<p[acc], l>>]
    <3>1. p[acc] \in B /\ p[acc] = Value(C, NoReading, acc)
      BY <2>1
    <3>2. CASE l.kind = "data"
      <4>1. l.json \in J
        BY <1>1, <3>2, LineTypes
      <4>2. D[<<acc, l>>] = Append(acc, l.json)
        BY <1>2, <3>2 DEF DataStep
      <4>3. PICK j \in J : j = l.json
        BY <4>1
      <4>5. acc \in Seq(J)
        BY <1>2
      <4>6. Append(acc, j) \in Seq(J)
        BY <4>5
      <4>4. Value(C, NoReading, Append(acc, j)) = C[<<Value(C, NoReading, acc), j>>]
        BY <1>2, <4>5, ValueAppend
      <4> QED BY <1>2, <3>1, <3>2, <4>2, <4>3, <4>4, <4>6 DEF ReadLine
    <3>3. CASE l.kind # "data"
      BY <1>2, <3>1, <3>3 DEF DataStep, ReadLine
    <3> QED BY <3>2, <3>3
  <2> HIDE DEF p
  <2> QED BY <2>1, <2>2 DEF Carries
<1>4. p[Value(D, base, lines)] = Value(H, p[base], lines)
  <2> HIDE DEF p
  <2> QED BY <1>2, <1>3, ValueCarries
<1>5. p[base] = NoReading
  <2>1. Value(C, NoReading, <<>>) = NoReading
    BY <1>2, ValueEmpty
  <2> QED BY <1>1, <1>2, <2>1
<1>6. PICK d : d = DataLines(lines)
  OBVIOUS
<1>7. d = Value(D, base, lines) /\ d \in A
  <2>1. d = Value(D, base, lines)
    BY <1>1, <1>6, DataValue
  <2> QED BY <1>2, <2>1, ValueType
<1>8. p[d] = Value(C, NoReading, d)
  BY <1>7
<1>9. ReadChunks(d) = Value(C, NoReading, d)
  BY <1>1, <1>7, ChunksValue
<1> QED BY <1>1, <1>4, <1>5, <1>6, <1>7, <1>8, <1>9

-----------------------------------------------------------------------------
(* The parser of Anthropic                                                 *)

Pended == {<<>>} \cup {<< n >> : n \in EventNames}
Happened(a) == [name : EventNames, json : Json(a)]
Events(a) == [event : Pended, found : Seq(Happened(a))]

\* What may have been gathered.
Gathering(a) ==
    [model : {<<>>, <<a.model>>}, input : {<<>>, <<a.input>>}, output : {<<>>, <<a.output>>},
     reason : ReasonsOf(a), tools : Seq(ToolsOf(a))]

\* The fields of what was gathered.
LEMMA GatheringTypes ==
  ASSUME NEW a
  PROVE  /\ \A g \in Gathering(a) :
               /\ g.model \in {<<>>, <<a.model>>} /\ g.input \in {<<>>, <<a.input>>}
               /\ g.output \in {<<>>, <<a.output>>}
               /\ g.reason \in ReasonsOf(a) /\ g.tools \in Seq(ToolsOf(a))
         /\ Gathered \in Gathering(a)
BY FieldTypes DEF Gathering, Gathered

\* An event gathers what an answer says.
LEMMA OneEvent ==
  ASSUME NEW a, a.protocol = "anthropic", NEW g \in Gathering(a), NEW e \in Happened(a)
  PROVE  ReadEvent(g, e) \in Gathering(a)
<1>1. e.json = Bad \/ e.json \in Fields(a)
  BY DEF Happened, Json
<1>2. CASE e.json = Bad
  BY <1>2 DEF ReadEvent, Bad
<1>3. CASE e.json \in Fields(a)
  <2>1. /\ Latest(g.model, e.json.model) \in {<<>>, <<a.model>>}
        /\ Latest(g.input, e.json.input) \in {<<>>, <<a.input>>}
        /\ Latest(g.output, e.json.output) \in {<<>>, <<a.output>>}
        /\ Latest(g.reason, e.json.reason) \in ReasonsOf(a)
    BY <1>3, FieldTypes, GatheringTypes DEF Latest
  <2>2. Join(g.tools, e.json.tools) \in Seq(ToolsOf(a))
    <3>1. g.tools \in Seq(ToolsOf(a)) /\ e.json.tools \in Seq(ToolsOf(a))
      BY <1>3, FieldTypes, GatheringTypes
    <3> QED BY <3>1, JoinFacts
  <2> QED BY <2>1, <2>2 DEF ReadEvent, Gathering
<1> QED BY <1>1, <1>2, <1>3

EventF(a) == [x \in Gathering(a) \X Happened(a) |-> ReadEvent(x[1], x[2])]

\* An event makes such a record of such a record.
LEMMA EventSteps ==
  ASSUME NEW a, a.protocol = "anthropic"
  PROVE  /\ Steps(EventF(a), Gathering(a), Happened(a))
         /\ \A g \in Gathering(a), e \in Happened(a) : EventF(a)[<<g, e>>] = ReadEvent(g, e)
<1>1. \A g \in Gathering(a), e \in Happened(a) : ReadEvent(g, e) \in Gathering(a)
  BY OneEvent
<1> QED BY <1>1 DEF EventF, Steps

\* The loop of accumulate_streaming_events, written out.
LEMMA EventsUnfold ==
  ASSUME NEW es
  PROVE  FoldLeft(ReadEvent, Gathered, es) =
           (CHOOSE g : g = [s \in SUBSET DOMAIN es |->
              IF s = {} THEN Gathered ELSE ReadEvent(g[s \ {Max(s)}], es[Max(s)])])[DOMAIN es]
BY DEF FoldLeft, MapThenFoldSet

\* It is the fold by EventF.
LEMMA EventsValue ==
  ASSUME NEW a, a.protocol = "anthropic", NEW es \in Seq(Happened(a))
  PROVE  FoldLeft(ReadEvent, Gathered, es) = Value(EventF(a), Gathered, es)
<1> DEFINE G(g) == g = [s \in SUBSET DOMAIN es |->
                     IF s = {} THEN Gathered ELSE ReadEvent(g[s \ {Max(s)}], es[Max(s)])]
<1>1. DOMAIN es = 1 .. Len(es)
  OBVIOUS
<1>2. PICK A, E, F : A = Gathering(a) /\ E = Happened(a) /\ F = EventF(a)
  OBVIOUS
<1>3. Steps(F, A, E) /\ Gathered \in A /\ es \in Seq(E)
      /\ \A r \in A, e \in E : F[<<r, e>>] = ReadEvent(r, e)
  BY <1>2, EventSteps, GatheringTypes
<1>4. PICK g : Finds(g, A, E, F, Gathered, es)
  BY <1>3, FoldSolution
<1>5. G(g)
  BY <1>1, <1>3, <1>4 DEF Finds
<1>6. PICK f : f = CHOOSE x : G(x)
  OBVIOUS
<1>7. G(f)
  BY <1>5, <1>6
<1>8. Follows(f, A, E, F, Gathered, es)
  BY <1>1, <1>3, <1>7 DEF Follows
<1>9. f[DOMAIN es] = Value(F, Gathered, es)
  BY <1>3, <1>8, ValueIs
<1> QED BY <1>2, <1>6, <1>9, EventsUnfold

NoEvents == [event |-> <<>>, found |-> <<>>]
SseF(a) == [x \in Events(a) \X Lines(a) |-> SseLine(x[1], x[2])]

\* The event that a data line makes of the one that is pending.
EventOf(pending, line) ==
    [name |-> pending[1], json |-> IF line.kind = "done" THEN Bad ELSE line.json]

\* A data line with the name before it is an event of the answer.
LEMMA EventHappened ==
  ASSUME NEW a, NEW p \in Pended, p # <<>>, NEW l \in Lines(a), l.kind \in {"data", "done"}
  PROVE  EventOf(p, l) \in Happened(a)
<1>1. p[1] \in EventNames
  BY DEF Pended
<1>2. l.kind = "done" \/ l.json \in Json(a)
  BY LineTypes
<1>3. Bad \in Json(a)
  BY DEF Json
<1> QED BY <1>1, <1>2, <1>3 DEF EventOf, Happened

\* A line names the next event or completes it.
LEMMA SseSteps ==
  ASSUME NEW a
  PROVE  /\ Steps(SseF(a), Events(a), Lines(a))
         /\ \A acc \in Events(a), l \in Lines(a) : SseF(a)[<<acc, l>>] = SseLine(acc, l)
         /\ NoEvents \in Events(a)
<1>1. ASSUME NEW acc \in Events(a), NEW l \in Lines(a) PROVE SseLine(acc, l) \in Events(a)
  <2>0. acc.event \in Pended /\ acc.found \in Seq(Happened(a)) /\ <<>> \in Pended
    BY DEF Events, Pended
  <2>1. CASE l.kind = "event"
    <3>1. << l.name >> \in Pended
      BY <2>1, LineTypes DEF Pended
    <3> QED BY <2>1, <3>1 DEF SseLine, Events
  <2>2. CASE l.kind \in {"data", "done"}
    <3>1. acc.event # <<>> => Append(acc.found, EventOf(acc.event, l)) \in Seq(Happened(a))
      <4> SUFFICES ASSUME acc.event # <<>>
                   PROVE  Append(acc.found, EventOf(acc.event, l)) \in Seq(Happened(a))
        OBVIOUS
      <4>1. EventOf(acc.event, l) \in Happened(a)
        BY <2>0, <2>2, EventHappened
      <4> QED BY <2>0, <4>1
    <3>2. SseLine(acc, l) = [event |-> <<>>,
                             found |-> IF acc.event = <<>> THEN acc.found
                                       ELSE Append(acc.found, EventOf(acc.event, l))]
      BY <2>2 DEF SseLine, EventOf
    <3> QED BY <2>0, <3>1, <3>2 DEF Events
  <2>3. CASE l.kind = "other"
    BY <2>3 DEF SseLine
  <2> QED BY <2>1, <2>2, <2>3, LineTypes
<1>2. NoEvents \in Events(a)
  BY DEF NoEvents, Events, Pended
<1> QED BY <1>1, <1>2 DEF SseF, Steps

\* The loop of parse_sse_events, written out.
LEMMA SseUnfolds ==
  ASSUME NEW lines
  PROVE  SseEvents(lines) =
           (CHOOSE g : g = [s \in SUBSET DOMAIN lines |->
              IF s = {} THEN NoEvents
              ELSE SseLine(g[s \ {Max(s)}], lines[Max(s)])])[DOMAIN lines].found
BY DEF SseEvents, FoldLeft, MapThenFoldSet, NoEvents

\* It is the fold by SseF.
LEMMA SseValue ==
  ASSUME NEW a, NEW lines \in Seq(Lines(a))
  PROVE  SseEvents(lines) = Value(SseF(a), NoEvents, lines).found
<1> DEFINE G(g) == g = [s \in SUBSET DOMAIN lines |->
                     IF s = {} THEN NoEvents ELSE SseLine(g[s \ {Max(s)}], lines[Max(s)])]
<1>1. DOMAIN lines = 1 .. Len(lines)
  OBVIOUS
<1>2. PICK A, E, F : A = Events(a) /\ E = Lines(a) /\ F = SseF(a)
  OBVIOUS
<1>3. Steps(F, A, E) /\ NoEvents \in A /\ lines \in Seq(E)
      /\ \A r \in A, l \in E : F[<<r, l>>] = SseLine(r, l)
  BY <1>2, SseSteps
<1>4. PICK g : Finds(g, A, E, F, NoEvents, lines)
  BY <1>3, FoldSolution
<1>5. G(g)
  BY <1>1, <1>3, <1>4 DEF Finds
<1>6. PICK f : f = CHOOSE x : G(x)
  OBVIOUS
<1>7. G(f)
  BY <1>5, <1>6
<1>8. Follows(f, A, E, F, NoEvents, lines)
  BY <1>1, <1>3, <1>7 DEF Follows
<1>9. f[DOMAIN lines] = Value(F, NoEvents, lines)
  BY <1>3, <1>8, ValueIs
<1> QED BY <1>2, <1>6, <1>9, SseUnfolds

\* The two passes of this parser are one over the lines as well.
States(a) == [event : Pended, read : Gathering(a)]
Start == [event |-> <<>>, read |-> Gathered]

ReadSse(acc, line) ==
    CASE line.kind = "event" -> [event |-> << line.name >>, read |-> acc.read]
      [] line.kind \in {"data", "done"} ->
           [event |-> <<>>,
            read |-> IF acc.event = <<>> THEN acc.read
                     ELSE ReadEvent(acc.read, EventOf(acc.event, line))]
      [] OTHER -> acc

StateF(a) == [x \in States(a) \X Lines(a) |-> ReadSse(x[1], x[2])]

\* A line makes a state of a state.
LEMMA StateSteps ==
  ASSUME NEW a, a.protocol = "anthropic"
  PROVE  /\ Steps(StateF(a), States(a), Lines(a))
         /\ \A acc \in States(a), l \in Lines(a) : StateF(a)[<<acc, l>>] = ReadSse(acc, l)
         /\ Start \in States(a)
<1>1. ASSUME NEW acc \in States(a), NEW l \in Lines(a) PROVE ReadSse(acc, l) \in States(a)
  <2>0. acc.event \in Pended /\ acc.read \in Gathering(a) /\ <<>> \in Pended
    BY DEF States, Pended
  <2>1. CASE l.kind = "event"
    <3>1. << l.name >> \in Pended
      BY <2>1, LineTypes DEF Pended
    <3> QED BY <2>0, <2>1, <3>1 DEF ReadSse, States
  <2>2. CASE l.kind \in {"data", "done"}
    <3>1. acc.event # <<>> => ReadEvent(acc.read, EventOf(acc.event, l)) \in Gathering(a)
      <4> SUFFICES ASSUME acc.event # <<>>
                   PROVE  ReadEvent(acc.read, EventOf(acc.event, l)) \in Gathering(a)
        OBVIOUS
      <4>1. EventOf(acc.event, l) \in Happened(a)
        BY <2>0, <2>2, EventHappened
      <4> QED BY <2>0, <4>1, OneEvent
    <3>2. ReadSse(acc, l) = [event |-> <<>>,
                             read |-> IF acc.event = <<>> THEN acc.read
                                      ELSE ReadEvent(acc.read, EventOf(acc.event, l))]
      BY <2>2 DEF ReadSse
    <3> QED BY <2>0, <3>1, <3>2 DEF States
  <2>3. CASE l.kind = "other"
    BY <2>3 DEF ReadSse
  <2> QED BY <2>1, <2>2, <2>3, LineTypes
<1>2. Start \in States(a)
  BY GatheringTypes DEF Start, States, Pended
<1> QED BY <1>1, <1>2 DEF StateF, Steps

\* What is read at last of what was gathered.
ReadingOf(g) ==
    [model |-> g.model, reason |-> g.reason, tools |-> g.tools, usage |-> UsageOf(g.input, g.output)]

\* To collect the events and then to read them is to read line by line.
LEMMA AnthropicReads ==
  ASSUME NEW a, a.protocol = "anthropic", NEW lines \in Seq(Lines(a))
  PROVE  ReadEvents(SseEvents(lines)) = ReadingOf(Value(StateF(a), Start, lines).read)
<1>1. PICK A, B, E, J, R, D, H, C :
          /\ A = Events(a) /\ B = States(a) /\ E = Lines(a) /\ J = Happened(a) /\ R = Gathering(a)
          /\ D = SseF(a) /\ H = StateF(a) /\ C = EventF(a)
  OBVIOUS
<1>2. /\ Steps(D, A, E) /\ Steps(H, B, E) /\ Steps(C, R, J) /\ Gathered \in R
      /\ \A acc \in A, l \in E : D[<<acc, l>>] = SseLine(acc, l)
      /\ \A s \in B, l \in E : H[<<s, l>>] = ReadSse(s, l)
      /\ \A g \in R, e \in J : C[<<g, e>>] = ReadEvent(g, e)
      /\ NoEvents \in A /\ Start \in B /\ lines \in Seq(E)
      /\ A = [event : Pended, found : Seq(J)] /\ B = [event : Pended, read : R]
  <2>1. Steps(D, A, E) /\ (\A acc \in A, l \in E : D[<<acc, l>>] = SseLine(acc, l)) /\ NoEvents \in A
    BY <1>1, SseSteps
  <2>2. Steps(H, B, E) /\ (\A s \in B, l \in E : H[<<s, l>>] = ReadSse(s, l)) /\ Start \in B
    BY <1>1, StateSteps
  <2>3. Steps(C, R, J) /\ \A g \in R, e \in J : C[<<g, e>>] = ReadEvent(g, e)
    BY <1>1, EventSteps
  <2> QED BY <1>1, <2>1, <2>2, <2>3, GatheringTypes DEF Events, States
<1> DEFINE p == [acc \in A |-> [event |-> acc.event, read |-> Value(C, Gathered, acc.found)]]
<1>3. Carries(p, D, A, H, B, E)
  <2>0. \A acc \in A : acc.event \in Pended /\ acc.found \in Seq(J)
    BY <1>2
  <2>1. p \in [A -> B]
    <3>1. \A es \in Seq(J) : Value(C, Gathered, es) \in R
      BY <1>2, ValueType
    <3> QED BY <1>2, <2>0, <3>1
  <2>2. ASSUME NEW acc \in A, NEW l \in E PROVE p[D[<<acc, l>>]] = H[<<p[acc], l>>]
    <3>1. /\ p[acc] \in B /\ p[acc].event = acc.event
          /\ p[acc].read = Value(C, Gathered, acc.found) /\ D[<<acc, l>>] \in A
      BY <1>2, <2>1 DEF Steps
    <3>2. /\ p[D[<<acc, l>>]] = [event |-> SseLine(acc, l).event,
                                 read |-> Value(C, Gathered, SseLine(acc, l).found)]
          /\ H[<<p[acc], l>>] = ReadSse(p[acc], l)
      BY <1>2, <3>1
    <3> HIDE DEF p
    <3>3. CASE l.kind = "event"
      <4>1. SseLine(acc, l) = [acc EXCEPT !.event = << l.name >>]
        BY <3>3 DEF SseLine
      <4>2. SseLine(acc, l).event = << l.name >> /\ SseLine(acc, l).found = acc.found
        BY <1>2, <4>1
      <4>3. ReadSse(p[acc], l) = [event |-> << l.name >>, read |-> p[acc].read]
        BY <3>3 DEF ReadSse
      <4> QED BY <3>1, <3>2, <4>2, <4>3
    <3>4. CASE l.kind \in {"data", "done"}
      <4>1. SseLine(acc, l) = [event |-> <<>>,
                               found |-> IF acc.event = <<>> THEN acc.found
                                         ELSE Append(acc.found, EventOf(acc.event, l))]
        BY <3>4 DEF SseLine, EventOf
      <4>2. ReadSse(p[acc], l) = [event |-> <<>>,
                                  read |-> IF acc.event = <<>> THEN p[acc].read
                                           ELSE ReadEvent(p[acc].read, EventOf(acc.event, l))]
        BY <3>1, <3>4 DEF ReadSse
      <4>3. CASE acc.event = <<>>
        BY <3>1, <3>2, <4>1, <4>2, <4>3
      <4>4. CASE acc.event # <<>>
        <5>1. PICK e \in J : e = EventOf(acc.event, l)
          <6>1. EventOf(acc.event, l) \in J
            BY <1>1, <2>0, <3>4, <4>4, EventHappened
          <6> QED BY <6>1
        <5>2. PICK es \in Seq(J) : es = acc.found
          BY <2>0
        <5>3. Value(C, Gathered, Append(es, e)) = C[<<Value(C, Gathered, es), e>>]
          BY <1>2, ValueAppend
        <5>4. Value(C, Gathered, es) \in R
          BY <1>2, ValueType
        <5> QED BY <1>2, <3>1, <3>2, <4>1, <4>2, <4>4, <5>1, <5>2, <5>3, <5>4
      <4> QED BY <4>3, <4>4
    <3>5. CASE l.kind = "other"
      <4>1. SseLine(acc, l) = acc /\ ReadSse(p[acc], l) = p[acc]
        BY <3>5 DEF SseLine, ReadSse
      <4>2. D[<<acc, l>>] = acc
        BY <1>2, <4>1
      <4> QED BY <3>2, <4>1, <4>2
    <3> QED BY <1>1, <3>3, <3>4, <3>5, LineTypes
  <2> HIDE DEF p
  <2> QED BY <2>1, <2>2 DEF Carries
<1>4. p[Value(D, NoEvents, lines)] = Value(H, p[NoEvents], lines)
  <2> HIDE DEF p
  <2>1. PICK q, none : q = p /\ none = NoEvents
    OBVIOUS
  <2>2. Steps(D, A, E) /\ Steps(H, B, E) /\ Carries(q, D, A, H, B, E) /\ none \in A /\ lines \in Seq(E)
    BY <1>2, <1>3, <2>1
  <2>3. q[Value(D, none, lines)] = Value(H, q[none], lines)
    BY <2>2, ValueCarries
  <2> QED BY <2>1, <2>3
<1>5. p[NoEvents] = Start
  <2>1. Value(C, Gathered, <<>>) = Gathered
    BY <1>2, ValueEmpty
  <2>2. NoEvents.event = <<>> /\ NoEvents.found = <<>>
    BY DEF NoEvents
  <2> QED BY <1>2, <2>1, <2>2 DEF Start
<1>6. PICK d : d = Value(D, NoEvents, lines)
  OBVIOUS
<1>7. d \in A /\ SseEvents(lines) = d.found
  <2>1. d \in A
    BY <1>2, <1>6, ValueType
  <2> QED BY <1>1, <1>6, <2>1, SseValue
<1>8. Value(H, Start, lines).read = Value(C, Gathered, d.found)
  <2>1. p[d].read = Value(C, Gathered, d.found)
    BY <1>7
  <2> HIDE DEF p
  <2> QED BY <1>4, <1>5, <1>6, <2>1
<1>9. FoldLeft(ReadEvent, Gathered, d.found) = Value(C, Gathered, d.found)
  <2>1. PICK es \in Seq(J) : es = d.found
    BY <1>2, <1>7
  <2>2. FoldLeft(ReadEvent, Gathered, es) = Value(C, Gathered, es)
    BY <1>1, EventsValue
  <2> QED BY <2>1, <2>2
<1>10. ReadEvents(d.found) = ReadingOf(FoldLeft(ReadEvent, Gathered, d.found))
  BY DEF ReadEvents, ReadingOf
<1> QED BY <1>1, <1>7, <1>8, <1>9, <1>10

-----------------------------------------------------------------------------
(* A stream of OpenAI that arrives whole                                   *)

\* What a choice of an answer says is said by the answer.
LEMMA ChoiceTypes ==
  ASSUME NEW a, IsAnswer(a), NEW c \in Range(a.choices)
  PROVE  c.reason \in ReasonsOf(a) /\ c.tools \in Seq(ToolsOf(a))
<1>1. PICK i \in DOMAIN a.choices : c = a.choices[i]
  BY DEF Range
<1>2. c.tools \in Seq(Range(c.tools))
  BY <1>1 DEF IsAnswer
<1>3. Range(c.tools) \in SUBSET ToolsOf(a)
  BY <1>1 DEF ToolsOf
<1>4. PICK t, R : t = c.tools /\ R = Range(c.tools)
  OBVIOUS
<1>5. t \in Seq(ToolsOf(a))
  BY <1>2, <1>3, <1>4
<1> QED BY <1>1, <1>4, <1>5 DEF ReasonsOf

\* A line of the script, and what it adds.
LEMMA ChunkLine ==
  ASSUME NEW a, a.protocol = "openai", NEW u \in UsageNow(a), NEW cs \in ChoicesNow(a)
  PROVE  /\ Chunk(a, u, cs) \in Lines(a)
         /\ \A r \in Readings(a) : LET v == LineF(a)[<<r, Chunk(a, u, cs)>>] IN
               /\ v \in Readings(a) /\ v.model = <<a.model>>
               /\ v.usage = IF u = <<>> THEN r.usage ELSE Cast(u)
               /\ cs = <<>> => v.reason = r.reason /\ v.tools = r.tools
               /\ \A c \in Parts(a) : cs = << c >> =>
                     v.reason = Latest(r.reason, c.reason) /\ v.tools = Join(r.tools, c.tools)
<1>1. PICK j : j = [ok |-> TRUE, model |-> <<a.model>>, usage |-> u, choices |-> cs]
  OBVIOUS
<1>2. j \in Chunks(a) /\ j \in Json(a) /\ j.usage = u /\ j.choices = cs
  BY <1>1 DEF Chunks, Json
<1>3. PICK l : l = Chunk(a, u, cs)
  OBVIOUS
<1>4. l.kind = "data" /\ l.json = j /\ l \in Lines(a)
  BY <1>1, <1>2, <1>3 DEF Chunk, DataLine, Lines
<1>5. ASSUME NEW r \in Readings(a)
      PROVE  LET v == LineF(a)[<<r, l>>] IN
             /\ v \in Readings(a) /\ v.model = <<a.model>>
             /\ v.usage = IF u = <<>> THEN r.usage ELSE Cast(u)
             /\ cs = <<>> => v.reason = r.reason /\ v.tools = r.tools
             /\ \A c \in Parts(a) : cs = << c >> =>
                   v.reason = Latest(r.reason, c.reason) /\ v.tools = Join(r.tools, c.tools)
  <2>1. LineF(a)[<<r, l>>] = ReadChunk(r, j)
    BY <1>4, LineSteps DEF ReadLine
  <2> QED BY <1>2, <2>1, OneChunk
<1> QED BY <1>3, <1>4, <1>5

ToolLine(a, tool) == Chunk(a, Partial(a), << [reason |-> <<>>, tools |-> <<tool>>] >>)
ToolScript(a, tools) == [i \in DOMAIN tools |-> ToolLine(a, tools[i])]
LastLine(a, c) == Chunk(a, Partial(a), << [reason |-> c.reason, tools |-> <<>>] >>)

\* What is reported with every chunk.
LEMMA PartialUsage ==
  ASSUME NEW a
  PROVE  Partial(a) \in UsageNow(a) /\ (a.reports = "never" => Partial(a) = <<>>)
BY DEF Partial, UsageNow, UsagesOf

\* The line of a tool adds this tool.
LEMMA ToolLineReads ==
  ASSUME NEW a, a.protocol = "openai", NEW tool \in ToolsOf(a)
  PROVE  /\ ToolLine(a, tool) \in Lines(a)
         /\ \A r \in Readings(a) : LET v == LineF(a)[<<r, ToolLine(a, tool)>>] IN
               /\ v \in Readings(a)
               /\ v.reason = r.reason /\ v.tools = Join(r.tools, << tool >>)
               /\ a.reports = "never" => v.usage = r.usage
<1>0. PICK q : q = << tool >>
  OBVIOUS
<1>1. PICK c : c = [reason |-> <<>>, tools |-> q]
  OBVIOUS
<1>2. c \in Parts(a) /\ c.reason = <<>> /\ c.tools = q
  <2>1. q \in Seq(ToolsOf(a))
    BY <1>0
  <2> QED BY <1>1, <2>1, FieldTypes DEF Parts
<1>3. << c >> \in ChoicesNow(a)
  BY <1>2 DEF ChoicesNow
<1>4. PICK u \in UsageNow(a), cs \in ChoicesNow(a) : u = Partial(a) /\ cs = << c >>
  BY <1>3, PartialUsage
<1>5. \A x : Latest(x, <<>>) = x
  BY DEF Latest
<1>6. PICK l : l = Chunk(a, u, cs)
  OBVIOUS
<1>7. /\ l \in Lines(a)
      /\ \A r \in Readings(a) : LET v == LineF(a)[<<r, l>>] IN
            /\ v \in Readings(a)
            /\ v.usage = IF u = <<>> THEN r.usage ELSE Cast(u)
            /\ v.reason = r.reason /\ v.tools = Join(r.tools, q)
  BY <1>2, <1>4, <1>5, <1>6, ChunkLine
<1>8. ToolLine(a, tool) = l
  BY <1>0, <1>1, <1>4, <1>6 DEF ToolLine
<1> QED BY <1>0, <1>4, <1>7, <1>8, PartialUsage

\* The last line of a choice adds its reason.
LEMMA LastLineReads ==
  ASSUME NEW a, IsAnswer(a), a.protocol = "openai", NEW d \in Range(a.choices)
  PROVE  /\ LastLine(a, d) \in Lines(a)
         /\ \A r \in Readings(a) : LET v == LineF(a)[<<r, LastLine(a, d)>>] IN
               /\ v \in Readings(a) /\ v.model = <<a.model>>
               /\ v.reason = Latest(r.reason, d.reason) /\ v.tools = r.tools
               /\ a.reports = "never" => v.usage = r.usage
<1>1. PICK c : c = [reason |-> d.reason, tools |-> <<>>]
  OBVIOUS
<1>2. c \in Parts(a) /\ c.reason = d.reason /\ c.tools = <<>>
  BY <1>1, ChoiceTypes, FieldTypes DEF Parts
<1>3. << c >> \in ChoicesNow(a)
  BY <1>2 DEF ChoicesNow
<1>4. LastLine(a, d) = Chunk(a, Partial(a), << c >>)
  BY <1>1 DEF LastLine
<1>5. \A r \in Readings(a) : Join(r.tools, <<>>) = r.tools
  <2>1. \A r \in Readings(a) : r.tools \in Seq(ToolsOf(a))
    BY ReadingTypes
  <2> QED BY <2>1, JoinFacts, FieldTypes
<1> QED BY <1>2, <1>3, <1>4, <1>5, PartialUsage, ChunkLine

\* What the lines of some tools add.
AddsTools(a, tools, s) ==
    /\ s \in Seq(Lines(a))
    /\ \A r \in Readings(a) : LET v == Value(LineF(a), r, s) IN
          /\ v \in Readings(a) /\ v.reason = r.reason /\ v.tools = Join(r.tools, tools)
          /\ a.reports = "never" => v.usage = r.usage

\* The lines of some tools add them all, by induction over the tools.
LEMMA ToolScriptReads ==
  ASSUME NEW a, a.protocol = "openai", NEW tools \in Seq(ToolsOf(a))
  PROVE  AddsTools(a, tools, ToolScript(a, tools))
<1> DEFINE P == {t \in Seq(ToolsOf(a)) : AddsTools(a, t, ToolScript(a, t))}
<1>0. PICK T, L, B, F : T = ToolsOf(a) /\ L = Lines(a) /\ B = Readings(a) /\ F = LineF(a)
  OBVIOUS
<1>1. Steps(F, B, L) /\ \A r \in B : r.tools \in Seq(T)
  BY <1>0, LineSteps, ReadingTypes
<1>2. <<>> \in P
  <2>1. ToolScript(a, <<>>) = <<>>
    BY DEF ToolScript
  <2>2. \A r \in B : Value(F, r, <<>>) = r
    BY <1>1, ValueEmpty
  <2>3. \A r \in B : Join(r.tools, <<>>) = r.tools
    BY <1>0, <1>1, FieldTypes, JoinFacts
  <2>4. PICK e : e = <<>>
    OBVIOUS
  <2>5. e \in Seq(L) /\ e \in Seq(T) /\ ToolScript(a, e) = e
    BY <2>1, <2>4
  <2>6. \A r \in B : Value(F, r, e) = r /\ Join(r.tools, e) = r.tools
    BY <2>2, <2>3, <2>4
  <2>7. AddsTools(a, e, e)
    BY <1>0, <2>5, <2>6 DEF AddsTools
  <2> QED BY <1>0, <2>4, <2>5, <2>7
<1>3. ASSUME NEW t \in P, NEW x \in T PROVE Append(t, x) \in P
  <2>1. t \in Seq(T) /\ AddsTools(a, t, ToolScript(a, t))
    BY <1>0
  <2>2. PICK s, tx : s = ToolScript(a, t) /\ tx = Append(t, x)
    OBVIOUS
  <2>3. s \in Seq(L)
    BY <1>0, <2>1, <2>2 DEF AddsTools
  <2>4. PICK l \in L : l = ToolLine(a, x)
    BY <1>0, ToolLineReads
  <2>5. ToolScript(a, tx) = Append(s, l)
    <3>1. PICK n \in Nat : n = Len(t)
      BY <2>1
    <3>2. DOMAIN t = 1 .. n /\ DOMAIN tx = 1 .. n + 1 /\ tx[n + 1] = x
          /\ \A i \in 1 .. n : tx[i] = t[i]
      BY <2>1, <2>2, <3>1
    <3>3. ToolScript(a, tx) = [i \in 1 .. n + 1 |-> ToolLine(a, tx[i])]
      BY <3>2 DEF ToolScript
    <3>4. s = [i \in 1 .. n |-> ToolLine(a, t[i])]
      BY <2>2, <3>2 DEF ToolScript
    <3>5. Len(s) = n
      BY <2>3, <3>4
    <3>6. PICK u : u = Append(s, l)
      OBVIOUS
    <3>7. u \in Seq(L) /\ Len(u) = n + 1 /\ u[n + 1] = l /\ \A i \in 1 .. n : u[i] = s[i]
      BY <2>3, <3>5, <3>6
    <3>8. u = [i \in 1 .. n + 1 |-> u[i]]
      BY <3>7
    <3>9. \A i \in 1 .. n + 1 : u[i] = ToolLine(a, tx[i])
      BY <2>4, <3>2, <3>4, <3>7
    <3> QED BY <3>3, <3>6, <3>8, <3>9
  <2>6. ASSUME NEW r \in B
        PROVE  LET v == Value(F, r, Append(s, l)) IN
               /\ v \in B /\ v.reason = r.reason /\ v.tools = Join(r.tools, tx)
               /\ a.reports = "never" => v.usage = r.usage
    <3>1. PICK w : w = Value(F, r, s)
      OBVIOUS
    <3>2. /\ w \in B /\ w.reason = r.reason /\ w.tools = Join(r.tools, t)
          /\ a.reports = "never" => w.usage = r.usage
      BY <1>0, <2>1, <2>2, <3>1 DEF AddsTools
    <3>3. Value(F, r, Append(s, l)) = F[<<w, l>>]
      BY <1>1, <2>3, <3>1, ValueAppend
    <3>4. LET v == F[<<w, l>>] IN
          /\ v \in B /\ v.reason = w.reason /\ v.tools = Join(w.tools, << x >>)
          /\ a.reports = "never" => v.usage = w.usage
      BY <1>0, <2>4, <3>2, ToolLineReads
    <3>5. Join(r.tools, tx) = Join(Join(r.tools, t), << x >>)
      <4>1. PICK q : q = << x >>
        OBVIOUS
      <4>2. q \in Seq(T) /\ tx = t \o q
        BY <2>1, <2>2, <4>1
      <4>3. PICK rt \in Seq(T) : rt = r.tools
        BY <1>1
      <4>4. Join(rt, t \o q) = Join(Join(rt, t), q)
        BY <2>1, <4>2, JoinFacts
      <4> QED BY <4>1, <4>2, <4>3, <4>4
    <3> QED BY <3>2, <3>3, <3>4, <3>5
  <2>7. Append(s, l) \in Seq(L)
    BY <2>3
  <2>8. tx \in Seq(T)
    BY <2>1, <2>2
  <2> QED BY <1>0, <2>2, <2>5, <2>6, <2>7, <2>8 DEF AddsTools
<1>4. P = Seq(T)
  <2>1. P \in SUBSET Seq(T)
    BY <1>0
  <2> HIDE DEF P
  <2> QED BY <1>2, <1>3, <2>1, SeqSetInduction
<1>5. tools \in P
  <2> HIDE DEF P
  <2> QED BY <1>0, <1>4
<1> QED BY <1>5

\* What the lines of one choice add.
AddsChoice(a, c, s) ==
    /\ s \in Seq(Lines(a))
    /\ \A r \in Readings(a) : LET v == Value(LineF(a), r, s) IN
          /\ v \in Readings(a) /\ v.model = <<a.model>>
          /\ v.reason = Latest(r.reason, c.reason) /\ v.tools = Join(r.tools, c.tools)
          /\ a.reports = "never" => v.usage = r.usage

\* The lines of a choice add its tools and its reason.
LEMMA ChoiceScriptReads ==
  ASSUME NEW a, IsAnswer(a), a.protocol = "openai", NEW c \in Range(a.choices)
  PROVE  AddsChoice(a, c, ChoiceScript(a, c))
<1>0. PICK L, B, F, s, t, l : /\ L = Lines(a) /\ B = Readings(a) /\ F = LineF(a)
                              /\ s = ToolScript(a, c.tools) /\ t = c.tools /\ l = LastLine(a, c)
  OBVIOUS
<1>1. Steps(F, B, L)
  BY <1>0, LineSteps
<1>2. AddsTools(a, t, s)
  BY <1>0, ChoiceTypes, ToolScriptReads
<1>3. /\ l \in L
      /\ \A r \in B : LET v == F[<<r, l>>] IN
            /\ v \in B /\ v.model = <<a.model>>
            /\ v.reason = Latest(r.reason, c.reason) /\ v.tools = r.tools
            /\ a.reports = "never" => v.usage = r.usage
  BY <1>0, LastLineReads
<1>4. s \in Seq(L)
  BY <1>0, <1>2 DEF AddsTools
<1>5. ChoiceScript(a, c) = Append(s, l)
  <2>1. ChoiceScript(a, c) = s \o << l >>
    BY <1>0 DEF ChoiceScript, ToolScript, ToolLine, LastLine
  <2> QED BY <1>3, <1>4, <2>1
<1>6. ASSUME NEW r \in B
      PROVE  LET v == Value(F, r, Append(s, l)) IN
             /\ v \in B /\ v.model = <<a.model>>
             /\ v.reason = Latest(r.reason, c.reason) /\ v.tools = Join(r.tools, c.tools)
             /\ a.reports = "never" => v.usage = r.usage
  <2>1. PICK w : w = Value(F, r, s)
    OBVIOUS
  <2>2. /\ w \in B /\ w.reason = r.reason /\ w.tools = Join(r.tools, t)
        /\ a.reports = "never" => w.usage = r.usage
    BY <1>0, <1>2, <2>1 DEF AddsTools
  <2>3. Value(F, r, Append(s, l)) = F[<<w, l>>]
    BY <1>1, <1>3, <1>4, <2>1, ValueAppend
  <2> QED BY <1>0, <1>3, <2>2, <2>3
<1>7. Append(s, l) \in Seq(L)
  BY <1>3, <1>4
<1> QED BY <1>0, <1>5, <1>6, <1>7 DEF AddsChoice

ScriptStep(a, acc, c) == acc \o ChoiceScript(a, c)
ScriptF(a) == [x \in Seq(Lines(a)) \X Range(a.choices) |-> ScriptStep(a, x[1], x[2])]

\* The lines of a choice follow those before it.
LEMMA ScriptSteps ==
  ASSUME NEW a, IsAnswer(a), a.protocol = "openai"
  PROVE  /\ Steps(ScriptF(a), Seq(Lines(a)), Range(a.choices))
         /\ \A acc \in Seq(Lines(a)), c \in Range(a.choices) :
               ScriptF(a)[<<acc, c>>] = ScriptStep(a, acc, c)
<1>1. \A acc \in Seq(Lines(a)), c \in Range(a.choices) : ScriptStep(a, acc, c) \in Seq(Lines(a))
  <2> SUFFICES ASSUME NEW acc \in Seq(Lines(a)), NEW c \in Range(a.choices)
               PROVE  acc \o ChoiceScript(a, c) \in Seq(Lines(a))
    BY DEF ScriptStep
  <2>1. ChoiceScript(a, c) \in Seq(Lines(a))
    BY ChoiceScriptReads DEF AddsChoice
  <2> QED BY <2>1
<1> QED BY <1>1 DEF ScriptF, Steps

ChoicesScript(a, cs) == FoldLeft(LAMBDA acc, c : acc \o ChoiceScript(a, c), <<>>, cs)

\* The lines of all choices, written out.
LEMMA ScriptUnfolds ==
  ASSUME NEW a, NEW cs
  PROVE  ChoicesScript(a, cs) =
           (CHOOSE g : g = [s \in SUBSET DOMAIN cs |->
              IF s = {} THEN <<>> ELSE ScriptStep(a, g[s \ {Max(s)}], cs[Max(s)])])[DOMAIN cs]
BY DEF ChoicesScript, FoldLeft, MapThenFoldSet, ScriptStep

\* They are the fold by ScriptF.
LEMMA ScriptValue ==
  ASSUME NEW a, IsAnswer(a), a.protocol = "openai", NEW cs \in Seq(Range(a.choices))
  PROVE  ChoicesScript(a, cs) = Value(ScriptF(a), <<>>, cs)
<1> DEFINE G(g) == g = [s \in SUBSET DOMAIN cs |->
                     IF s = {} THEN <<>> ELSE ScriptStep(a, g[s \ {Max(s)}], cs[Max(s)])]
<1>1. DOMAIN cs = 1 .. Len(cs)
  OBVIOUS
<1>2. PICK A, E, F, base : A = Seq(Lines(a)) /\ E = Range(a.choices) /\ F = ScriptF(a) /\ base = <<>>
  OBVIOUS
<1>3. Steps(F, A, E) /\ base \in A /\ cs \in Seq(E)
      /\ \A r \in A, c \in E : F[<<r, c>>] = ScriptStep(a, r, c)
  BY <1>2, ScriptSteps
<1>4. PICK g : Finds(g, A, E, F, base, cs)
  BY <1>3, FoldSolution
<1>5. G(g)
  BY <1>1, <1>2, <1>3, <1>4 DEF Finds
<1>6. PICK f : f = CHOOSE x : G(x)
  OBVIOUS
<1>7. G(f)
  BY <1>5, <1>6
<1>8. Follows(f, A, E, F, base, cs)
  BY <1>1, <1>2, <1>3, <1>7 DEF Follows
<1>9. f[DOMAIN cs] = Value(F, base, cs)
  BY <1>3, <1>8, ValueIs
<1> QED BY <1>2, <1>6, <1>9, ScriptUnfolds

ToolsStep(acc, c) == acc \o c.tools
ToolsF(a) == [x \in Seq(ToolsOf(a)) \X Range(a.choices) |-> ToolsStep(x[1], x[2])]

\* The tools of a choice follow those before it.
LEMMA ToolsSteps ==
  ASSUME NEW a, IsAnswer(a)
  PROVE  /\ Steps(ToolsF(a), Seq(ToolsOf(a)), Range(a.choices))
         /\ \A acc \in Seq(ToolsOf(a)), c \in Range(a.choices) :
               ToolsF(a)[<<acc, c>>] = ToolsStep(acc, c)
<1>1. \A acc \in Seq(ToolsOf(a)), c \in Range(a.choices) : ToolsStep(acc, c) \in Seq(ToolsOf(a))
  BY ChoiceTypes DEF ToolsStep
<1> QED BY <1>1 DEF ToolsF, Steps, ToolsStep

\* The tools of all choices, written out.
LEMMA ToolsUnfold ==
  ASSUME NEW cs
  PROVE  AllTools(cs) =
           (CHOOSE g : g = [s \in SUBSET DOMAIN cs |->
              IF s = {} THEN <<>> ELSE ToolsStep(g[s \ {Max(s)}], cs[Max(s)])])[DOMAIN cs]
BY DEF AllTools, FoldLeft, MapThenFoldSet, ToolsStep

\* They are the fold by ToolsF.
LEMMA ToolsValue ==
  ASSUME NEW a, IsAnswer(a), NEW cs \in Seq(Range(a.choices))
  PROVE  AllTools(cs) = Value(ToolsF(a), <<>>, cs)
<1> DEFINE G(g) == g = [s \in SUBSET DOMAIN cs |->
                     IF s = {} THEN <<>> ELSE ToolsStep(g[s \ {Max(s)}], cs[Max(s)])]
<1>1. DOMAIN cs = 1 .. Len(cs)
  OBVIOUS
<1>2. PICK A, E, F, base : A = Seq(ToolsOf(a)) /\ E = Range(a.choices) /\ F = ToolsF(a) /\ base = <<>>
  OBVIOUS
<1>3. Steps(F, A, E) /\ base \in A /\ cs \in Seq(E)
      /\ \A r \in A, c \in E : F[<<r, c>>] = ToolsStep(r, c)
  BY <1>2, ToolsSteps
<1>4. PICK g : Finds(g, A, E, F, base, cs)
  BY <1>3, FoldSolution
<1>5. G(g)
  BY <1>1, <1>2, <1>3, <1>4 DEF Finds
<1>6. PICK f : f = CHOOSE x : G(x)
  OBVIOUS
<1>7. G(f)
  BY <1>5, <1>6
<1>8. Follows(f, A, E, F, base, cs)
  BY <1>1, <1>2, <1>3, <1>7 DEF Follows
<1>9. f[DOMAIN cs] = Value(F, base, cs)
  BY <1>3, <1>8, ValueIs
<1> QED BY <1>2, <1>6, <1>9, ToolsUnfold

\* What the lines of some choices say.
SaysChoices(a, cs, s, all) ==
    /\ s \in Seq(Lines(a)) /\ all \in Seq(ToolsOf(a))
    /\ LET v == Value(LineF(a), NoReading, s) IN
       /\ v \in Readings(a) /\ v.tools = Join(<<>>, all)
       /\ v.reason \in {cs[i].reason : i \in DOMAIN cs} \cup {<<>>}
       /\ cs # <<>> => v.model = <<a.model>> /\ v.reason \in {cs[i].reason : i \in DOMAIN cs}
       /\ cs = <<>> => v = NoReading
       /\ Len(cs) = 1 => v.reason = cs[1].reason
       /\ a.reports = "never" => v.usage = <<>>

\* No choice says nothing.
LEMMA NoChoiceSays ==
  ASSUME NEW a, a.protocol = "openai"
  PROVE  SaysChoices(a, <<>>, <<>>, <<>>)
<1>1. PICK e : e = <<>>
  OBVIOUS
<1>2. e \in Seq(Lines(a)) /\ e \in Seq(ToolsOf(a)) /\ Len(e) = 0
  BY <1>1
<1>3. Value(LineF(a), NoReading, <<>>) = NoReading
  BY LineSteps, ReadingTypes, ValueEmpty
<1>4. NoReading.tools = e /\ NoReading.reason = e /\ NoReading.usage = e
  BY <1>1 DEF NoReading
<1>5. Join(e, e) = e
  BY <1>1, <1>2, JoinFacts
<1>6. SaysChoices(a, e, e, e)
  BY <1>1, <1>2, <1>3, <1>4, <1>5, ReadingTypes DEF SaysChoices
<1> QED BY <1>1, <1>6

\* One more choice says its tools and its reason.
LEMMA OneMoreSays ==
  ASSUME NEW a, IsAnswer(a), a.protocol = "openai",
         NEW cs \in Seq(Range(a.choices)), NEW c \in Range(a.choices),
         NEW s, NEW all, SaysChoices(a, cs, s, all)
  PROVE  SaysChoices(a, Append(cs, c), s \o ChoiceScript(a, c), all \o c.tools)
<1>0. PICK L, B, F, T : L = Lines(a) /\ B = Readings(a) /\ F = LineF(a) /\ T = ToolsOf(a)
  OBVIOUS
<1>1. Steps(F, B, L) /\ NoReading \in B
  BY <1>0, LineSteps, ReadingTypes
<1>2. PICK t, u, d, st, alls, csc :
         /\ t = ChoiceScript(a, c) /\ u = Value(F, NoReading, s) /\ d = c.tools
         /\ st = s \o t /\ alls = all \o d /\ csc = Append(cs, c)
  OBVIOUS
<1>3. AddsChoice(a, c, t)
  BY <1>2, ChoiceScriptReads
<1>4. /\ s \in Seq(L) /\ all \in Seq(T) /\ u \in B /\ u.tools = Join(<<>>, all)
      /\ u.reason \in {cs[i].reason : i \in DOMAIN cs} \cup {<<>>}
      /\ cs # <<>> => u.model = <<a.model>> /\ u.reason \in {cs[i].reason : i \in DOMAIN cs}
      /\ cs = <<>> => u = NoReading
      /\ a.reports = "never" => u.usage = <<>>
  BY <1>0, <1>2 DEF SaysChoices
<1>5. t \in Seq(L) /\ d \in Seq(T)
  BY <1>0, <1>2, <1>3, ChoiceTypes DEF AddsChoice
<1>6. st \in Seq(L) /\ alls \in Seq(T)
  BY <1>2, <1>4, <1>5
<1>7. PICK v : v = Value(F, u, t)
  OBVIOUS
<1>8. /\ v \in B /\ v.model = <<a.model>>
      /\ v.reason = Latest(u.reason, c.reason) /\ v.tools = Join(u.tools, d)
      /\ a.reports = "never" => v.usage = u.usage
  BY <1>0, <1>2, <1>3, <1>4, <1>7 DEF AddsChoice
<1>9. Value(F, NoReading, st) = v
  <2>1. Value(F, NoReading, s \o t) = Value(F, Value(F, NoReading, s), t)
    BY <1>1, <1>4, <1>5, ValueConcat, SMT
  <2> QED BY <1>2, <1>7, <2>1
<1>10. v.tools = Join(<<>>, alls)
  <2>1. PICK e : e = <<>>
    OBVIOUS
  <2>2. e \in Seq(T)
    BY <2>1
  <2>3. Join(e, all \o d) = Join(Join(e, all), d)
    BY <1>4, <1>5, <2>2, JoinFacts
  <2> QED BY <1>2, <1>4, <1>8, <2>1, <2>3
<1>11. /\ csc # <<>> /\ Len(csc) = Len(cs) + 1 /\ csc[Len(csc)] = c /\ Len(csc) \in DOMAIN csc
       /\ \A i \in DOMAIN cs : i \in DOMAIN csc /\ csc[i] = cs[i]
       /\ (Len(csc) = 1 => cs = <<>> /\ csc[1] = c)
  <2>1. PICK n \in Nat : n = Len(cs)
    OBVIOUS
  <2>2. /\ csc \in Seq(Range(a.choices)) /\ Len(csc) = n + 1 /\ csc[n + 1] = c
        /\ \A i \in 1 .. n : csc[i] = cs[i]
    BY <1>2, <2>1
  <2> QED BY <2>1, <2>2
<1>12. v.reason \in {csc[i].reason : i \in DOMAIN csc}
  <2>1. CASE c.reason # <<>>
    BY <1>8, <1>11, <2>1 DEF Latest
  <2>2. CASE c.reason = <<>> /\ cs # <<>>
    <3>1. v.reason = u.reason
      BY <1>8, <2>2 DEF Latest
    <3>2. PICK i \in DOMAIN cs : u.reason = cs[i].reason
      BY <1>4, <2>2
    <3> QED BY <1>11, <3>1, <3>2
  <2>3. CASE c.reason = <<>> /\ cs = <<>>
    <3>1. u.reason = <<>>
      BY <1>4, <2>3 DEF NoReading
    <3>2. v.reason = c.reason
      BY <1>8, <2>3, <3>1 DEF Latest
    <3> QED BY <1>11, <3>2
  <2> QED BY <2>1, <2>2, <2>3
<1>13. Len(csc) = 1 => v.reason = csc[1].reason
  <2> SUFFICES ASSUME Len(csc) = 1 PROVE v.reason = c.reason
    BY <1>11
  <2>1. u.reason = <<>>
    BY <1>4, <1>11 DEF NoReading
  <2> QED BY <1>8, <2>1 DEF Latest
<1> QED BY <1>0, <1>2, <1>4, <1>6, <1>8, <1>9, <1>10, <1>11, <1>12, <1>13 DEF SaysChoices

\* By induction over the choices.
LEMMA ChoicesSay ==
  ASSUME NEW a, IsAnswer(a), a.protocol = "openai", NEW cs \in Seq(Range(a.choices))
  PROVE  SaysChoices(a, cs, ChoicesScript(a, cs), AllTools(cs))
<1>0. PICK E, F, H, A, B, e : /\ E = Range(a.choices) /\ F = ScriptF(a) /\ H = ToolsF(a)
                              /\ A = Seq(Lines(a)) /\ B = Seq(ToolsOf(a)) /\ e = <<>>
  OBVIOUS
<1>1. /\ Steps(F, A, E) /\ Steps(H, B, E) /\ e \in A /\ e \in B
      /\ \A acc \in A, c \in E : F[<<acc, c>>] = acc \o ChoiceScript(a, c)
      /\ \A acc \in B, c \in E : H[<<acc, c>>] = acc \o c.tools
  <2>1. Steps(F, A, E) /\ \A acc \in A, c \in E : F[<<acc, c>>] = acc \o ChoiceScript(a, c)
    BY <1>0, ScriptSteps DEF ScriptStep
  <2>2. Steps(H, B, E) /\ \A acc \in B, c \in E : H[<<acc, c>>] = acc \o c.tools
    BY <1>0, ToolsSteps DEF ToolsStep
  <2>3. e \in A /\ e \in B
    BY <1>0
  <2> QED BY <2>1, <2>2, <2>3
<1> DEFINE P == {x \in Seq(E) : SaysChoices(a, x, Value(F, e, x), Value(H, e, x))}
<1>2. <<>> \in P
  <2>1. Value(F, e, <<>>) = e /\ Value(H, e, <<>>) = e
    BY <1>1, ValueEmpty
  <2>2. e \in Seq(E)
    BY <1>0
  <2> QED BY <1>0, <2>1, <2>2, NoChoiceSays
<1>3. ASSUME NEW x \in P, NEW c \in E PROVE Append(x, c) \in P
  <2>1. PICK s, all : s = Value(F, e, x) /\ all = Value(H, e, x)
    OBVIOUS
  <2>2. x \in Seq(E) /\ SaysChoices(a, x, s, all)
    BY <2>1
  <2>3. s \in A /\ all \in B
    BY <1>1, <2>1, <2>2, ValueType
  <2>4. Value(F, e, Append(x, c)) = F[<<Value(F, e, x), c>>]
    BY <1>1, <2>2, ValueAppend
  <2>5. Value(H, e, Append(x, c)) = H[<<Value(H, e, x), c>>]
    BY <1>1, <2>2, ValueAppend
  <2>6. SaysChoices(a, Append(x, c), s \o ChoiceScript(a, c), all \o c.tools)
    BY <1>0, <2>2, OneMoreSays
  <2>7. Append(x, c) \in Seq(E)
    BY <2>2
  <2> QED BY <1>1, <2>1, <2>3, <2>4, <2>5, <2>6, <2>7
<1>4. P = Seq(E)
  <2>1. P \in SUBSET Seq(E)
    OBVIOUS
  <2> HIDE DEF P
  <2> QED BY <1>2, <1>3, <2>1, SeqSetInduction
<1>5. SaysChoices(a, cs, Value(F, e, cs), Value(H, e, cs))
  <2>1. cs \in P
    <3> HIDE DEF P
    <3> QED BY <1>0, <1>4
  <2> QED BY <2>1
<1> QED BY <1>0, <1>5, ScriptValue, ToolsValue

\* What the parser makes of the whole.
LEMMA OpenAiWhole ==
  ASSUME NEW a, IsAnswer(a), a.protocol = "openai"
  PROVE  /\ OpenAiScript(a) \in Seq(Lines(a))
         /\ LET v == Value(LineF(a), NoReading, OpenAiScript(a)) IN
            /\ v \in Readings(a) /\ v.tools = Join(<<>>, AllTools(a.choices))
            /\ v.usage = IF a.reports = "never" THEN <<>>
                         ELSE Cast(<< Usage(a.input, a.output, a.input + a.output) >>)
            /\ a.choices # <<>> => /\ v.model = <<a.model>>
                                   /\ v.reason \in {a.choices[i].reason : i \in DOMAIN a.choices}
            /\ Len(a.choices) = 1 => v.reason = a.choices[1].reason
<1>0. PICK L, B, F, cs : L = Lines(a) /\ B = Readings(a) /\ F = LineF(a) /\ cs = a.choices
  OBVIOUS
<1>1. /\ Steps(F, B, L) /\ NoReading \in B
      /\ \A r \in B, l \in L : F[<<r, l>>] = ReadLine(r, l)
  BY <1>0, LineSteps, ReadingTypes
<1>2. PICK s, all : s = ChoicesScript(a, cs) /\ all = AllTools(cs)
  OBVIOUS
<1>3. SaysChoices(a, cs, s, all)
  <2>1. cs \in Seq(Range(a.choices))
    BY <1>0 DEF IsAnswer
  <2> QED BY <1>2, <2>1, ChoicesSay
<1>4. PICK u : u = Value(F, NoReading, s)
  OBVIOUS
<1>5. /\ s \in Seq(L) /\ u \in B /\ u.tools = Join(<<>>, all)
      /\ cs # <<>> => u.model = <<a.model>> /\ u.reason \in {cs[i].reason : i \in DOMAIN cs}
      /\ Len(cs) = 1 => u.reason = cs[1].reason
      /\ a.reports = "never" => u.usage = <<>>
  BY <1>0, <1>3, <1>4 DEF SaysChoices
<1>6. PICK done : done = DoneLine
  OBVIOUS
<1>7. done \in L /\ \A r \in B : F[<<r, done>>] = r
  <2>1. done \in L /\ done.kind = "done"
    BY <1>0, <1>6 DEF Lines, DoneLine
  <2> QED BY <1>1, <2>1 DEF ReadLine
<1>8. PICK x : x = Usage(a.input, a.output, a.input + a.output)
  OBVIOUS
<1>9. PICK ux : ux = << x >>
  OBVIOUS
<1>10. PICK last : last = Chunk(a, ux, <<>>)
  OBVIOUS
<1>11. /\ last \in L
       /\ \A r \in B : LET v == F[<<r, last>>] IN
             /\ v \in B /\ v.model = <<a.model>> /\ v.usage = Cast(ux)
             /\ v.reason = r.reason /\ v.tools = r.tools
  <2>1. ux \in UsageNow(a) /\ ux # <<>>
    BY <1>8, <1>9 DEF UsageNow, UsagesOf
  <2>2. PICK e : e = <<>>
    OBVIOUS
  <2>3. e \in ChoicesNow(a)
    BY <2>2, FieldTypes
  <2> QED BY <1>0, <1>10, <2>1, <2>2, <2>3, ChunkLine
<1>12. PICK w, sm : /\ w = IF a.reports = "never" THEN u ELSE F[<<u, last>>]
                    /\ sm = IF a.reports = "never" THEN s ELSE Append(s, last)
  OBVIOUS
<1>13. sm \in Seq(L) /\ w = Value(F, NoReading, sm)
  <2>1. Value(F, NoReading, Append(s, last)) = F[<<Value(F, NoReading, s), last>>]
    BY <1>1, <1>5, <1>11, ValueAppend
  <2>2. Append(s, last) \in Seq(L)
    BY <1>5, <1>11
  <2> QED BY <1>4, <1>5, <1>12, <2>1, <2>2
<1>14. /\ w \in B /\ w.tools = u.tools /\ w.reason = u.reason
       /\ w.model = IF a.reports = "never" THEN u.model ELSE <<a.model>>
       /\ w.usage = IF a.reports = "never" THEN <<>> ELSE Cast(ux)
  BY <1>5, <1>11, <1>12
<1>15. OpenAiScript(a) = Append(sm, done)
  <2>1. OpenAiScript(a) = s \o (IF a.reports = "never" THEN <<>> ELSE << last >>) \o << done >>
    BY <1>0, <1>2, <1>6, <1>8, <1>9, <1>10 DEF OpenAiScript, ChoicesScript
  <2>2. s \o <<>> = s
    BY <1>5
  <2>3. s \o << last >> = Append(s, last)
    BY <1>5, <1>11
  <2>4. OpenAiScript(a) = sm \o << done >>
    BY <1>12, <2>1, <2>2, <2>3
  <2> QED BY <1>7, <1>13, <2>4
<1>16. Value(F, NoReading, Append(sm, done)) = F[<<Value(F, NoReading, sm), done>>]
  BY <1>1, <1>7, <1>13, ValueAppend
<1>17. Value(F, NoReading, OpenAiScript(a)) = w
  BY <1>7, <1>13, <1>14, <1>15, <1>16
<1>18. OpenAiScript(a) \in Seq(L)
  BY <1>7, <1>13, <1>15
<1> QED BY <1>0, <1>2, <1>5, <1>8, <1>9, <1>14, <1>17, <1>18

\* The reading of a stream that arrives whole.
IsWhole(a, r) ==
    /\ r.model \in {<<>>, <<a.model>>}
    /\ r.tools = Join(<<>>, AllTools(a.choices))
    /\ IsSane(a) => r.usage = IF a.reports = "never" THEN <<>>
                              ELSE << Usage(a.input, a.output, a.input + a.output) >>
    /\ a.choices # <<>> => /\ r.model = <<a.model>>
                           /\ r.reason \in {a.choices[i].reason : i \in DOMAIN a.choices}
    /\ Len(a.choices) = 1 => r.reason = a.choices[1].reason

\* A stream of OpenAI that arrives whole says all that was meant.
LEMMA OpenAiIsWhole ==
  ASSUME NEW a, IsAnswer(a), a.protocol = "openai"
  PROVE  /\ OpenAiScript(a) \in Seq(Lines(a))
         /\ IsWhole(a, ReadChunks(DataLines(OpenAiScript(a))))
<1>1. PICK s \in Seq(Lines(a)) : s = OpenAiScript(a)
  BY OpenAiWhole
<1>2. PICK v : v = Value(LineF(a), NoReading, s)
  OBVIOUS
<1>3. ReadChunks(DataLines(s)) = v
  BY <1>2, OpenAiReads
<1>5. PICK x : x = << Usage(a.input, a.output, a.input + a.output) >>
  OBVIOUS
<1>6. IsSane(a) => Cast(x) = x
  BY <1>5, CastOfSane DEF UsageNow, UsagesOf
<1>4. v \in Readings(a) /\ IsWhole(a, v)
  BY <1>1, <1>2, <1>5, <1>6, OpenAiWhole, ReadingTypes DEF IsWhole
<1> QED BY <1>1, <1>3, <1>4

-----------------------------------------------------------------------------
(* A stream of Anthropic that arrives whole                                *)

Pair(n, j) == << EventLine(n), DataLine(j) >>

\* An event with its data.
LEMMA PairReads ==
  ASSUME NEW a, a.protocol = "anthropic", NEW s \in Seq(Lines(a)), NEW n \in EventNames,
         NEW j \in Fields(a)
  PROVE  LET g == Value(StateF(a), Start, s).read IN
         /\ g \in Gathering(a)
         /\ s \o Pair(n, j) \in Seq(Lines(a))
         /\ Value(StateF(a), Start, s \o Pair(n, j)) =
              [event |-> <<>>, read |-> ReadEvent(g, [name |-> n, json |-> j])]
<1>0. PICK L, B, F : L = Lines(a) /\ B = States(a) /\ F = StateF(a)
  OBVIOUS
<1>1. /\ Steps(F, B, L) /\ Start \in B
      /\ \A st \in B, l \in L : F[<<st, l>>] = ReadSse(st, l) /\ F[<<st, l>>] \in B
  <2>1. Steps(F, B, L) /\ Start \in B /\ \A st \in B, l \in L : F[<<st, l>>] = ReadSse(st, l)
    BY <1>0, StateSteps
  <2> QED BY <2>1 DEF Steps
<1>2. PICK l, d : l = EventLine(n) /\ d = DataLine(j)
  OBVIOUS
<1>3. /\ l \in L /\ l.kind = "event" /\ l.name = n
      /\ d \in L /\ d.kind = "data" /\ d.json = j
  <2>1. j \in Json(a)
    BY DEF Json
  <2> QED BY <1>0, <1>2, <2>1 DEF Lines, EventLine, DataLine
<1>4. PICK st : st = Value(F, Start, s)
  OBVIOUS
<1>5. st \in B /\ st.read \in Gathering(a)
  <2>1. st \in B
    BY <1>0, <1>1, <1>4, ValueType
  <2> QED BY <1>0, <2>1 DEF States
<1>6. PICK sl : sl = Append(s, l)
  OBVIOUS
<1>7. sl \in Seq(L) /\ Append(sl, d) \in Seq(L) /\ s \o Pair(n, j) = Append(sl, d)
  <2>1. s \in Seq(L)
    BY <1>0
  <2>2. s \o << l, d >> = Append(Append(s, l), d)
    BY <1>3, <2>1
  <2> QED BY <1>2, <1>3, <1>6, <2>1, <2>2 DEF Pair
<1>8. PICK mid \in B : mid = F[<<st, l>>] /\ mid.event = << n >> /\ mid.read = st.read
  <2>1. F[<<st, l>>] = [event |-> << n >>, read |-> st.read] /\ F[<<st, l>>] \in B
    BY <1>1, <1>3, <1>5 DEF ReadSse
  <2> QED BY <2>1
<1>9. Value(F, Start, sl) = mid
  <2>1. Value(F, Start, Append(s, l)) = F[<<Value(F, Start, s), l>>]
    BY <1>0, <1>1, <1>3, ValueAppend
  <2> QED BY <1>4, <1>6, <1>8, <2>1
<1>10. Value(F, Start, Append(sl, d)) = F[<<Value(F, Start, sl), d>>]
  BY <1>1, <1>3, <1>7, ValueAppend
<1>11. F[<<mid, d>>] = [event |-> <<>>, read |-> ReadEvent(st.read, [name |-> n, json |-> j])]
  <2>1. F[<<mid, d>>] = ReadSse(mid, d)
    BY <1>1, <1>3
  <2>2. mid.event # <<>> /\ mid.event[1] = n
    BY <1>8
  <2>3. EventOf(mid.event, d) = [name |-> n, json |-> j]
    BY <1>3, <2>2 DEF EventOf
  <2>4. ReadSse(mid, d) = [event |-> <<>>, read |-> ReadEvent(mid.read, EventOf(mid.event, d))]
    BY <1>3, <2>2 DEF ReadSse
  <2> QED BY <1>8, <2>1, <2>3, <2>4
<1> QED BY <1>0, <1>4, <1>5, <1>7, <1>9, <1>10, <1>11

Block(tool) == Pair("content_block_start", [NoFields EXCEPT !.tools = <<tool>>])

\* The data of a block.
LEMMA BlockFields ==
  ASSUME NEW a, NEW tool \in ToolsOf(a)
  PROVE  [NoFields EXCEPT !.tools = <<tool>>] \in Fields(a)
<1>1. PICK q \in Seq(ToolsOf(a)) : q = <<tool>>
  <2>1. <<tool>> \in Seq(ToolsOf(a))
    OBVIOUS
  <2> QED BY <2>1
<1>2. [NoFields EXCEPT !.tools = q] \in Fields(a)
  BY FieldTypes DEF NoFields, Fields
<1> QED BY <1>1, <1>2

BlockStep(acc, tool) == acc \o Block(tool)
BlockF(a) == [x \in Seq(Lines(a)) \X ToolsOf(a) |-> BlockStep(x[1], x[2])]
Blocks(tools) == FoldLeft(LAMBDA acc, tool : acc \o Block(tool), <<>>, tools)

\* A block follows those before it.
LEMMA BlockSteps ==
  ASSUME NEW a, a.protocol = "anthropic"
  PROVE  /\ Steps(BlockF(a), Seq(Lines(a)), ToolsOf(a))
         /\ \A acc \in Seq(Lines(a)), tool \in ToolsOf(a) :
               BlockF(a)[<<acc, tool>>] = BlockStep(acc, tool)
<1>1. \A acc \in Seq(Lines(a)), tool \in ToolsOf(a) : BlockStep(acc, tool) \in Seq(Lines(a))
  <2>1. "content_block_start" \in EventNames
    BY DEF EventNames
  <2> QED BY <2>1, BlockFields, PairReads DEF BlockStep, Block
<1> QED BY <1>1 DEF BlockF, Steps

\* The blocks of all tools, written out.
LEMMA BlocksUnfold ==
  ASSUME NEW tools
  PROVE  Blocks(tools) =
           (CHOOSE g : g = [s \in SUBSET DOMAIN tools |->
              IF s = {} THEN <<>> ELSE BlockStep(g[s \ {Max(s)}], tools[Max(s)])])[DOMAIN tools]
BY DEF Blocks, FoldLeft, MapThenFoldSet, BlockStep

\* They are the fold by BlockF.
LEMMA BlocksValue ==
  ASSUME NEW a, a.protocol = "anthropic", NEW tools \in Seq(ToolsOf(a))
  PROVE  Blocks(tools) = Value(BlockF(a), <<>>, tools)
<1> DEFINE G(g) == g = [s \in SUBSET DOMAIN tools |->
                     IF s = {} THEN <<>> ELSE BlockStep(g[s \ {Max(s)}], tools[Max(s)])]
<1>1. DOMAIN tools = 1 .. Len(tools)
  OBVIOUS
<1>2. PICK A, E, F, base : A = Seq(Lines(a)) /\ E = ToolsOf(a) /\ F = BlockF(a) /\ base = <<>>
  OBVIOUS
<1>3. Steps(F, A, E) /\ base \in A /\ tools \in Seq(E)
      /\ \A r \in A, c \in E : F[<<r, c>>] = BlockStep(r, c)
  BY <1>2, BlockSteps
<1>4. PICK g : Finds(g, A, E, F, base, tools)
  BY <1>3, FoldSolution
<1>5. G(g)
  BY <1>1, <1>2, <1>3, <1>4 DEF Finds
<1>6. PICK f : f = CHOOSE x : G(x)
  OBVIOUS
<1>7. G(f)
  BY <1>5, <1>6
<1>8. Follows(f, A, E, F, base, tools)
  BY <1>1, <1>2, <1>3, <1>7 DEF Follows
<1>9. f[DOMAIN tools] = Value(F, base, tools)
  BY <1>3, <1>8, ValueIs
<1> QED BY <1>2, <1>6, <1>9, BlocksUnfold

\* Three lists in a row.
LEMMA ConcatAgain ==
  ASSUME NEW S, NEW r \in Seq(S), NEW s \in Seq(S), NEW t \in Seq(S)
  PROVE  r \o (s \o t) = (r \o s) \o t
OBVIOUS

Opening(a) == [NoFields EXCEPT !.model = <<a.model>>, !.input = <<a.input>>]
Closing(a) == [NoFields EXCEPT !.reason = a.choices[1].reason, !.output = <<a.output>>]

\* The data of the first and of the last events.
LEMMA EndFields ==
  ASSUME NEW a, a.choices[1].reason \in ReasonsOf(a)
  PROVE  Opening(a) \in Fields(a) /\ Closing(a) \in Fields(a) /\ NoFields \in Fields(a)
<1>1. <<>> \in ReasonsOf(a) /\ <<>> \in Seq(ToolsOf(a))
  BY FieldTypes
<1> QED BY <1>1 DEF Opening, Closing, NoFields, Fields

Opened(a, tools) ==
    [model |-> <<a.model>>, input |-> <<a.input>>, output |-> <<>>, reason |-> <<>>,
     tools |-> Join(<<>>, tools)]

\* The first event says the model and the input.
LEMMA OpeningReads ==
  ASSUME NEW a, a.protocol = "anthropic", a.choices[1].reason \in ReasonsOf(a)
  PROVE  /\ Pair("message_start", Opening(a)) \in Seq(Lines(a))
         /\ Value(StateF(a), Start, Pair("message_start", Opening(a))) =
              [event |-> <<>>, read |-> Opened(a, <<>>)]
<1>1. PICK e, p, j, n : e = <<>> /\ p = Pair("message_start", Opening(a)) /\ j = Opening(a)
                        /\ n = "message_start"
  OBVIOUS
<1>2. e \in Seq(Lines(a)) /\ n \in EventNames /\ j \in Fields(a) /\ p = Pair(n, j)
  BY <1>1, EndFields DEF EventNames
<1>3. Value(StateF(a), Start, <<>>) = Start
  BY StateSteps, ValueEmpty
<1>4. LET g == Value(StateF(a), Start, e).read IN
      /\ e \o p \in Seq(Lines(a))
      /\ Value(StateF(a), Start, e \o p) =
           [event |-> <<>>, read |-> ReadEvent(g, [name |-> n, json |-> j])]
  BY <1>2, PairReads
<1>5. e \o p = p
  BY <1>1 DEF Pair
<1>6. ReadEvent(Gathered, [name |-> n, json |-> j]) = Opened(a, <<>>)
  <2>1. j.ok = TRUE /\ j.model = <<a.model>> /\ j.input = <<a.input>>
    BY <1>1 DEF Opening, NoFields
  <2>2. Join(<<>>, <<>>) = <<>>
    <3>1. e \in Seq(ToolsOf(a))
      BY <1>1
    <3>2. Join(e, e) = e
      BY <1>1, <3>1, JoinFacts
    <3> QED BY <1>1, <3>2
  <2>3. ReadEvent(Gathered, [name |-> n, json |-> j]) =
          [Gathered EXCEPT !.model = Latest(Gathered.model, j.model),
                           !.input = Latest(Gathered.input, j.input)]
    BY <1>1, <2>1 DEF ReadEvent
  <2>4. Latest(Gathered.model, j.model) = <<a.model>> /\ Latest(Gathered.input, j.input) = <<a.input>>
    BY <2>1 DEF Latest
  <2> QED BY <2>2, <2>3, <2>4 DEF Gathered, Opened
<1>7. Value(StateF(a), Start, e).read = Gathered
  BY <1>1, <1>3 DEF Start
<1> QED BY <1>1, <1>4, <1>5, <1>6, <1>7

\* What the blocks of some tools add to the opening.
SaysBlocks(a, tools, s) ==
    LET p == Pair("message_start", Opening(a)) IN
    /\ s \in Seq(Lines(a)) /\ p \o s \in Seq(Lines(a))
    /\ Value(StateF(a), Start, p \o s) = [event |-> <<>>, read |-> Opened(a, tools)]

\* One more block says one more tool.
LEMMA OneBlockSays ==
  ASSUME NEW a, a.protocol = "anthropic", a.choices[1].reason \in ReasonsOf(a),
         NEW t \in Seq(ToolsOf(a)), NEW x \in ToolsOf(a), NEW s, SaysBlocks(a, t, s)
  PROVE  SaysBlocks(a, Append(t, x), s \o Block(x))
<1>1. PICK p, j, n, b, ps, sb, tx, q :
         /\ p = Pair("message_start", Opening(a)) /\ j = [NoFields EXCEPT !.tools = <<x>>]
         /\ n = "content_block_start" /\ b = Block(x) /\ ps = p \o s /\ sb = s \o b
         /\ tx = Append(t, x) /\ q = <<x>>
  OBVIOUS
<1>2. /\ s \in Seq(Lines(a)) /\ ps \in Seq(Lines(a)) /\ p \in Seq(Lines(a))
      /\ Value(StateF(a), Start, ps) = [event |-> <<>>, read |-> Opened(a, t)]
      /\ j \in Fields(a) /\ n \in EventNames /\ b = Pair(n, j)
  <2>1. p \in Seq(Lines(a))
    BY <1>1, OpeningReads
  <2>2. j \in Fields(a) /\ n \in EventNames
    BY <1>1, BlockFields DEF EventNames
  <2> QED BY <1>1, <2>1, <2>2 DEF SaysBlocks, Block
<1>3. b \in Seq(Lines(a))
  <2>1. j \in Json(a)
    BY <1>2 DEF Json
  <2>2. EventLine(n) \in Lines(a) /\ DataLine(j) \in Lines(a)
    BY <1>2, <2>1 DEF Lines
  <2> QED BY <1>2, <2>2 DEF Pair
<1>4. LET g == Value(StateF(a), Start, ps).read IN
      /\ ps \o b \in Seq(Lines(a))
      /\ Value(StateF(a), Start, ps \o b) =
           [event |-> <<>>, read |-> ReadEvent(g, [name |-> n, json |-> j])]
  BY <1>2, PairReads
<1>5. p \o sb = ps \o b /\ sb \in Seq(Lines(a))
  BY <1>1, <1>2, <1>3, ConcatAgain
<1>6. ReadEvent(Opened(a, t), [name |-> n, json |-> j]) = Opened(a, tx)
  <2>1. j.ok = TRUE /\ j.tools = q
    BY <1>1 DEF NoFields
  <2>2. Join(Join(<<>>, t), q) = Join(<<>>, tx)
    <3>1. PICK e : e = <<>>
      OBVIOUS
    <3>2. e \in Seq(ToolsOf(a)) /\ q \in Seq(ToolsOf(a)) /\ tx = t \o q
      BY <1>1, <3>1
    <3>3. Join(e, t \o q) = Join(Join(e, t), q)
      BY <3>2, JoinFacts
    <3> QED BY <3>1, <3>2, <3>3
  <2>3. ReadEvent(Opened(a, t), [name |-> n, json |-> j]) =
          [Opened(a, t) EXCEPT !.tools = Join(Opened(a, t).tools, j.tools)]
    BY <1>1, <2>1 DEF ReadEvent
  <2>4. Opened(a, t).tools = Join(<<>>, t)
    BY DEF Opened
  <2>5. [Opened(a, t) EXCEPT !.tools = Join(<<>>, tx)] = Opened(a, tx)
    BY DEF Opened
  <2> QED BY <2>1, <2>2, <2>3, <2>4, <2>5
<1>7. Value(StateF(a), Start, p \o sb) = [event |-> <<>>, read |-> Opened(a, tx)]
  BY <1>2, <1>4, <1>5, <1>6
<1> QED BY <1>1, <1>4, <1>5, <1>7 DEF SaysBlocks

\* By induction over the tools.
LEMMA BlocksSay ==
  ASSUME NEW a, a.protocol = "anthropic", a.choices[1].reason \in ReasonsOf(a),
         NEW tools \in Seq(ToolsOf(a))
  PROVE  SaysBlocks(a, tools, Blocks(tools))
<1>0. PICK E, F, A, e : E = ToolsOf(a) /\ F = BlockF(a) /\ A = Seq(Lines(a)) /\ e = <<>>
  OBVIOUS
<1>1. /\ Steps(F, A, E) /\ e \in A
      /\ \A acc \in A, x \in E : F[<<acc, x>>] = acc \o Block(x)
  <2>1. Steps(F, A, E) /\ \A acc \in A, x \in E : F[<<acc, x>>] = acc \o Block(x)
    BY <1>0, BlockSteps DEF BlockStep
  <2>2. e \in A
    BY <1>0
  <2> QED BY <2>1, <2>2
<1> DEFINE P == {x \in Seq(E) : SaysBlocks(a, x, Value(F, e, x))}
<1>2. <<>> \in P
  <2>1. Value(F, e, <<>>) = e
    BY <1>1, ValueEmpty
  <2>2. e \in Seq(E)
    BY <1>0
  <2>3. SaysBlocks(a, e, e)
    <3>1. PICK p : p = Pair("message_start", Opening(a))
      OBVIOUS
    <3>2. /\ p \in Seq(Lines(a))
          /\ Value(StateF(a), Start, p) = [event |-> <<>>, read |-> Opened(a, e)]
      BY <1>0, <3>1, OpeningReads
    <3>3. p \o e = p
      BY <1>0, <3>2
    <3> QED BY <1>0, <1>1, <3>1, <3>2, <3>3 DEF SaysBlocks
  <2> QED BY <1>0, <2>1, <2>2, <2>3
<1>3. ASSUME NEW t \in P, NEW x \in E PROVE Append(t, x) \in P
  <2>1. PICK s : s = Value(F, e, t)
    OBVIOUS
  <2>2. t \in Seq(E) /\ SaysBlocks(a, t, s)
    BY <2>1
  <2>3. s \in A
    BY <1>1, <2>1, <2>2, ValueType
  <2>4. Value(F, e, Append(t, x)) = F[<<Value(F, e, t), x>>]
    BY <1>1, <2>2, ValueAppend
  <2>5. SaysBlocks(a, Append(t, x), s \o Block(x))
    BY <1>0, <2>2, OneBlockSays
  <2>6. Append(t, x) \in Seq(E)
    BY <2>2
  <2> QED BY <1>1, <2>1, <2>3, <2>4, <2>5, <2>6
<1>4. P = Seq(E)
  <2>1. P \in SUBSET Seq(E)
    OBVIOUS
  <2> HIDE DEF P
  <2> QED BY <1>2, <1>3, <2>1, SeqSetInduction
<1>5. SaysBlocks(a, tools, Value(F, e, tools))
  <2>1. tools \in P
    <3> HIDE DEF P
    <3> QED BY <1>0, <1>4
  <2> QED BY <2>1
<1> QED BY <1>0, <1>5, BlocksValue

\* Sequences with the same elements are equal.
LEMMA SameElements ==
  ASSUME NEW S, NEW p \in Seq(S), NEW q \in Seq(S), Len(p) = Len(q),
         \A i \in 1 .. Len(p) : p[i] = q[i]
  PROVE  p = q
OBVIOUS

\* Where the elements of two sequences in a row are.
LEMMA RowPlaces ==
  ASSUME NEW S, NEW p \in Seq(S), NEW q \in Seq(S)
  PROVE  /\ p \o q \in Seq(S) /\ Len(p \o q) = Len(p) + Len(q)
         /\ \A i \in 1 .. Len(p) : (p \o q)[i] = p[i]
         /\ \A i \in 1 .. Len(q) : (p \o q)[Len(p) + i] = q[i]
OBVIOUS

\* Two pairs in a row.
LEMMA FourInARow ==
  ASSUME NEW w, NEW x, NEW y, NEW z
  PROVE  << w, x >> \o << y, z >> = << w, x, y, z >>
<1>1. PICK S : S = {w, x, y, z}
  OBVIOUS
<1>2. PICK p, q, r : p = << w, x >> /\ q = << y, z >> /\ r = << w, x, y, z >>
  OBVIOUS
<1>3. p \in Seq(S) /\ q \in Seq(S) /\ r \in Seq(S)
  BY <1>1, <1>2
<1>5. Len(p) = 2 /\ p[1] = w /\ p[2] = x
  BY <1>2
<1>6. Len(q) = 2 /\ q[1] = y /\ q[2] = z
  BY <1>2
<1>7. Len(r) = 4 /\ r[1] = w /\ r[2] = x /\ r[3] = y /\ r[4] = z
  BY <1>2
<1>8. PICK pq : pq = p \o q
  OBVIOUS
<1>9. /\ pq \in Seq(S) /\ Len(pq) = Len(p) + Len(q)
      /\ \A i \in 1 .. Len(p) : pq[i] = p[i]
      /\ \A i \in 1 .. Len(q) : pq[Len(p) + i] = q[i]
  BY <1>3, <1>8, RowPlaces
<1>10. Len(pq) = 4 /\ pq[1] = w /\ pq[2] = x /\ pq[3] = y /\ pq[4] = z
  <2>1. Len(pq) = 4 /\ 1 \in 1 .. 2 /\ 2 \in 1 .. 2 /\ 2 + 1 = 3 /\ 2 + 2 = 4
    BY <1>5, <1>6, <1>9
  <2> QED BY <2>1, <1>5, <1>6, <1>9
<1>11. \A i \in 1 .. 4 : pq[i] = r[i]
  <2>1. \A i \in 1 .. 4 : i = 1 \/ i = 2 \/ i = 3 \/ i = 4
    OBVIOUS
  <2> QED BY <1>7, <1>10, <2>1
<1>12. pq = r
  BY <1>3, <1>7, <1>9, <1>10, <1>11, SameElements
<1> QED BY <1>2, <1>8, <1>12

\* A stream of Anthropic that arrives whole says all that was meant.
LEMMA AnthropicWhole ==
  ASSUME NEW a, IsAnswer(a), a.protocol = "anthropic"
  PROVE  /\ AnthropicScript(a) \in Seq(Lines(a))
         /\ IsWhole(a, ReadEvents(SseEvents(AnthropicScript(a))))
<1>1. PICK c : c = a.choices[1]
  OBVIOUS
<1>2. Len(a.choices) = 1 /\ a.choices \in Seq(Range(a.choices)) /\ 1 \in DOMAIN a.choices
      /\ c \in Range(a.choices) /\ a.reports = "end"
  BY <1>1 DEF IsAnswer, Range
<1>3. c.reason \in ReasonsOf(a) /\ c.tools \in Seq(ToolsOf(a))
  BY <1>2, ChoiceTypes
<1>4. PICK t, s, p, r : /\ t = c.tools /\ s = Blocks(t) /\ p = Pair("message_start", Opening(a))
                        /\ r = c.reason
  OBVIOUS
<1>5. PICK ps : ps = p \o s
  OBVIOUS
<1>6. /\ ps \in Seq(Lines(a)) /\ s \in Seq(Lines(a))
      /\ Value(StateF(a), Start, ps) = [event |-> <<>>, read |-> Opened(a, t)]
  BY <1>1, <1>3, <1>4, <1>5, BlocksSay DEF SaysBlocks
<1>7. PICK j, k, n, m : /\ j = Closing(a) /\ k = NoFields
                        /\ n = "message_delta" /\ m = "message_stop"
  OBVIOUS
<1>8. j \in Fields(a) /\ k \in Fields(a) /\ n \in EventNames /\ m \in EventNames
  BY <1>1, <1>3, <1>7, EndFields DEF EventNames
<1>9. PICK psj : psj = ps \o Pair(n, j)
  OBVIOUS
<1>10. PICK g : g = ReadEvent(Opened(a, t), [name |-> n, json |-> j])
  OBVIOUS
<1>11. /\ psj \in Seq(Lines(a))
       /\ Value(StateF(a), Start, psj) = [event |-> <<>>, read |-> g]
  <2>1. LET h == Value(StateF(a), Start, ps).read IN
        /\ ps \o Pair(n, j) \in Seq(Lines(a))
        /\ Value(StateF(a), Start, ps \o Pair(n, j)) =
             [event |-> <<>>, read |-> ReadEvent(h, [name |-> n, json |-> j])]
    BY <1>6, <1>8, PairReads
  <2> QED BY <1>6, <1>9, <1>10, <2>1
<1>12. /\ psj \o Pair(m, k) \in Seq(Lines(a))
       /\ Value(StateF(a), Start, psj \o Pair(m, k)).read = g
  <2>1. LET h == Value(StateF(a), Start, psj).read IN
        /\ psj \o Pair(m, k) \in Seq(Lines(a))
        /\ Value(StateF(a), Start, psj \o Pair(m, k)) =
             [event |-> <<>>, read |-> ReadEvent(h, [name |-> m, json |-> k])]
    BY <1>8, <1>11, PairReads
  <2>2. ReadEvent(g, [name |-> m, json |-> k]) = g
    BY <1>7 DEF ReadEvent
  <2> QED BY <1>11, <2>1, <2>2
<1>13. /\ g.model = <<a.model>> /\ g.input = <<a.input>> /\ g.output = <<a.output>>
       /\ g.reason = r /\ g.tools = Join(<<>>, t)
  <2>1. j.ok = TRUE /\ j.reason = r /\ j.output = <<a.output>>
    BY <1>1, <1>4, <1>7 DEF Closing, NoFields
  <2>2. g = [Opened(a, t) EXCEPT !.reason = Latest(Opened(a, t).reason, j.reason),
                                 !.output = Latest(Opened(a, t).output, j.output)]
    BY <1>7, <1>10, <2>1 DEF ReadEvent
  <2>3. Latest(Opened(a, t).reason, j.reason) = r
    BY <2>1 DEF Latest, Opened
  <2>4. Latest(Opened(a, t).output, j.output) = <<a.output>>
    BY <2>1 DEF Latest, Opened
  <2> QED BY <2>2, <2>3, <2>4 DEF Opened
<1>14. AnthropicScript(a) = psj \o Pair(m, k)
  <2>1. AnthropicScript(a) =
          Pair("message_start", Opening(a)) \o Blocks(c.tools)
            \o << EventLine("message_delta"), DataLine(Closing(a)),
                  EventLine("message_stop"), DataLine(NoFields) >>
    BY <1>1 DEF AnthropicScript, Pair, Opening, Closing, Blocks, Block
  <2>2. PICK w, x, y, z : /\ w = EventLine(n) /\ x = DataLine(j) /\ y = EventLine(m)
                          /\ z = DataLine(k)
    OBVIOUS
  <2>3. ps \o << w, x, y, z >> = (ps \o << w, x >>) \o << y, z >>
    <3>1. << w, x >> \o << y, z >> = << w, x, y, z >>
      BY FourInARow
    <3>2. PICK S : S = {w, x, y, z} \cup Lines(a)
      OBVIOUS
    <3>3. ps \in Seq(S) /\ << w, x >> \in Seq(S) /\ << y, z >> \in Seq(S)
      BY <1>6, <3>2
    <3>4. PICK wx, yz : wx = << w, x >> /\ yz = << y, z >>
      OBVIOUS
    <3>5. ps \o (wx \o yz) = (ps \o wx) \o yz
      BY <3>3, <3>4, ConcatAgain
    <3> QED BY <3>1, <3>4, <3>5
  <2> QED BY <1>4, <1>5, <1>7, <1>9, <2>1, <2>2, <2>3 DEF Pair
<1>15. ASSUME IsSane(a)
       PROVE  UsageOf(g.input, g.output) = << Usage(a.input, a.output, a.input + a.output) >>
  <2>1. /\ a.input \in Int /\ a.output \in Int /\ a.input + a.output \in Int
        /\ Fits(a.input) /\ Fits(a.output) /\ Fits(a.input + a.output)
    BY <1>15, WireAssumption DEF IsSane, Fits
  <2>2. Wrap(a.input) = a.input /\ Wrap(a.output) = a.output
        /\ Wrap(a.input + a.output) = a.input + a.output
    BY <2>1, WrapOfFitting
  <2> QED BY <1>13, <2>2 DEF UsageOf
<1>16. Join(<<>>, AllTools(a.choices)) = Join(<<>>, t)
  <2>1. AllTools(a.choices) = t
    <3>1. PICK cs, e : cs = a.choices /\ e = <<>>
      OBVIOUS
    <3>2. cs = << c >> /\ cs \in Seq(Range(a.choices)) /\ e \in Seq(ToolsOf(a))
      BY <1>1, <1>2, <3>1
    <3>3. AllTools(cs) = Value(ToolsF(a), e, cs)
      BY <3>1, <3>2, ToolsValue
    <3>4. Value(ToolsF(a), e, << c >>) = ToolsF(a)[<<e, c>>]
      BY <1>2, <3>2, ToolsSteps, ValueOfOne
    <3>5. ToolsF(a)[<<e, c>>] = e \o t
      BY <1>2, <1>4, <3>2, ToolsSteps DEF ToolsStep
    <3>6. e \o t = t
      BY <1>3, <1>4, <3>1
    <3> QED BY <3>1, <3>2, <3>3, <3>4, <3>5, <3>6
  <2> QED BY <2>1
<1>17. PICK w \in Seq(Lines(a)) : w = AnthropicScript(a)
  BY <1>12, <1>14
<1>18. ReadEvents(SseEvents(w)) = ReadingOf(g)
  BY <1>12, <1>14, <1>17, AnthropicReads
<1>19. IsWhole(a, ReadingOf(g))
  <2>1. a.choices # <<>> /\ r \in {a.choices[i].reason : i \in DOMAIN a.choices}
    BY <1>1, <1>2, <1>4
  <2> QED BY <1>1, <1>2, <1>4, <1>13, <1>15, <1>16, <2>1 DEF IsWhole, ReadingOf
<1> QED BY <1>17, <1>18, <1>19

-----------------------------------------------------------------------------
(* What the proxy may hear                                                 *)

\* A remainder lies below the modulus.
LEMMA ModRange ==
  ASSUME NEW m \in Nat, NEW x \in Int, 0 < m
  PROVE  x % m \in Int /\ 0 =< x % m /\ x % m < m
OBVIOUS

\* The cast of a number fits an i32.
LEMMA WrapFits == ASSUME NEW n \in Int PROVE Wrap(n) \in Int /\ Fits(Wrap(n))
<1>1. IntMax \in Nat
  BY WireAssumption
<1>2. PICK m \in Nat, x \in Int : m = 2 * (IntMax + 1) /\ x = n + IntMax + 1 /\ 0 < m
  BY <1>1
<1>3. PICK r \in Int : r = x % m /\ 0 =< r /\ r < m
  BY <1>2, ModRange
<1> QED BY <1>1, <1>2, <1>3 DEF Wrap, Fits

\* Counts that fit, and are those of the answer when this is sane.
IsCount(a, u) ==
    /\ u.input \in Int /\ u.output \in Int /\ u.total \in Int
    /\ Fits(u.input) /\ Fits(u.output) /\ Fits(u.total)
    /\ IsSane(a) => /\ u.input = a.input /\ u.output \in {0, a.output}
                    /\ u.total = u.input + u.output
                    /\ a.protocol = "anthropic" => u.output = a.output

IsHeard(a, r) ==
    /\ r.usage = <<>> \/ \E u : IsCount(a, u) /\ r.usage = << u >>
    /\ Range(r.tools) \subseteq ToolsOf(a)

\* Nothing is heard in nothing.
LEMMA NothingHeard ==
  ASSUME NEW a
  PROVE  IsHeard(a, NoReading) /\ NoReading.model = <<>>
BY DEF IsHeard, NoReading, Range

\* Three numbers and their casts.
LEMMA SaneCount ==
  ASSUME NEW a, IsSane(a), NEW n \in {a.input, a.output, a.input + a.output}
  PROVE  n \in Int /\ Fits(n) /\ Wrap(n) = n
<1>1. n \in Int /\ Fits(n)
  BY WireAssumption DEF IsSane, Fits
<1> QED BY <1>1, WrapOfFitting

\* Whatever the parser of OpenAI reads is heard.
LEMMA OpenAiHeard ==
  ASSUME NEW a, IsAnswer(a), a.protocol = "openai", NEW r \in Readings(a)
  PROVE  IsHeard(a, r) /\ r.model \in {<<>>, <<a.model>>}
<1>1. r.usage \in UsageRead(a) /\ r.tools \in Seq(ToolsOf(a)) /\ r.model \in {<<>>, <<a.model>>}
  BY ReadingTypes
<1>2. PICK u \in UsageNow(a) : r.usage = Cast(u)
  BY <1>1 DEF UsageRead
<1>3. ASSUME NEW x \in UsagesOf(a), u = << x >>
      PROVE  \E c : IsCount(a, c) /\ r.usage = << c >>
  <2>1. u # <<>> /\ u[1] = x
    BY <1>3
  <2>2. PICK c : c = Usage(Wrap(x.input), Wrap(x.output), Wrap(x.total))
    OBVIOUS
  <2>3. r.usage = << c >>
    BY <1>2, <2>1, <2>2 DEF Cast
  <2>4. x.input \in Int /\ x.output \in Int /\ x.total \in Int
    BY DEF UsagesOf, Usage, IsAnswer
  <2>5. /\ Wrap(x.input) \in Int /\ Fits(Wrap(x.input)) /\ Wrap(x.output) \in Int
        /\ Fits(Wrap(x.output)) /\ Wrap(x.total) \in Int /\ Fits(Wrap(x.total))
    BY <2>4, WrapFits
  <2>6. /\ c.input = Wrap(x.input) /\ c.output = Wrap(x.output) /\ c.total = Wrap(x.total)
    BY <2>2 DEF Usage
  <2>7. ASSUME IsSane(a)
        PROVE  c.input = a.input /\ c.output \in {0, a.output} /\ c.total = c.input + c.output
    <3>1. Cast(u) = u
      BY <2>7, CastOfSane
    <3>2. c = x
      BY <1>2, <1>3, <2>3, <3>1
    <3> QED BY <2>7, <3>2 DEF UsagesOf, Usage, IsSane
  <2>8. IsCount(a, c)
    BY <2>5, <2>6, <2>7 DEF IsCount
  <2> QED BY <2>3, <2>8
<1>4. u = <<>> => r.usage = <<>>
  BY <1>2 DEF Cast
<1>5. u = <<>> \/ \E x \in UsagesOf(a) : u = << x >>
  BY DEF UsageNow
<1>6. PICK t, T : t = r.tools /\ T = ToolsOf(a)
  OBVIOUS
<1>7. Range(t) \subseteq T
  BY <1>1, <1>6, RangeOfSeq
<1> QED BY <1>1, <1>3, <1>4, <1>5, <1>6, <1>7 DEF IsHeard

\* Whatever the parser of Anthropic gathers is heard.
LEMMA AnthropicHeard ==
  ASSUME NEW a, IsAnswer(a), a.protocol = "anthropic", NEW g \in Gathering(a)
  PROVE  IsHeard(a, ReadingOf(g)) /\ ReadingOf(g).model \in {<<>>, <<a.model>>}
<1>1. /\ g.model \in {<<>>, <<a.model>>} /\ g.input \in {<<>>, <<a.input>>}
      /\ g.output \in {<<>>, <<a.output>>} /\ g.tools \in Seq(ToolsOf(a))
  BY GatheringTypes
<1>2. g.input = <<>> \/ g.output = <<>> => UsageOf(g.input, g.output) = <<>>
  BY DEF UsageOf
<1>3. ASSUME g.input = <<a.input>>, g.output = <<a.output>>
      PROVE  \E c : IsCount(a, c) /\ UsageOf(g.input, g.output) = << c >>
  <2>1. PICK i, o : i = Wrap(a.input) /\ o = Wrap(a.output)
    OBVIOUS
  <2>2. i \in Int /\ o \in Int /\ Fits(i) /\ Fits(o)
    <3>1. a.input \in Int /\ a.output \in Int
      BY DEF IsAnswer
    <3> QED BY <2>1, <3>1, WrapFits
  <2>3. Wrap(i + o) \in Int /\ Fits(Wrap(i + o))
    BY <2>2, WrapFits
  <2>4. PICK c : c = Usage(i, o, Wrap(i + o))
    OBVIOUS
  <2>5. UsageOf(g.input, g.output) = << c >>
    BY <1>3, <2>1, <2>4 DEF UsageOf
  <2>6. IsSane(a) => i = a.input /\ o = a.output /\ Wrap(i + o) = i + o
    BY <2>1, SaneCount
  <2>7. IsCount(a, c)
    BY <2>2, <2>3, <2>4, <2>6 DEF IsCount, Usage
  <2> QED BY <2>5, <2>7
<1>4. PICK t, T : t = g.tools /\ T = ToolsOf(a)
  OBVIOUS
<1>5. Range(t) \subseteq T
  BY <1>1, <1>4, RangeOfSeq
<1>6. /\ ReadingOf(g).model = g.model /\ ReadingOf(g).tools = g.tools
      /\ ReadingOf(g).usage = UsageOf(g.input, g.output)
  BY DEF ReadingOf
<1>7. UsageOf(g.input, g.output) = <<>>
      \/ \E c : IsCount(a, c) /\ UsageOf(g.input, g.output) = << c >>
  BY <1>1, <1>2, <1>3
<1> QED BY <1>1, <1>4, <1>5, <1>6, <1>7 DEF IsHeard

\* Whatever lines arrive.
LEMMA StreamIsHeard ==
  ASSUME NEW a, IsAnswer(a), a.protocol \in Chatting, NEW lines \in Seq(Lines(a)), NEW asked
  PROVE  LET r == ReadStream(a.protocol, lines, asked) IN
         IsHeard(a, r) /\ r.model \in {<<asked>>, <<a.model>>}
<1>1. PICK h : h = IF a.protocol = "openai" THEN ReadChunks(DataLines(lines))
                   ELSE ReadEvents(SseEvents(lines))
  OBVIOUS
<1>2. ReadStream(a.protocol, lines, asked) = [h EXCEPT !.model = Latest(<<asked>>, h.model)]
  BY <1>1 DEF ReadStream
<1>3. CASE a.protocol = "openai"
  <2>1. Value(LineF(a), NoReading, lines) \in Readings(a)
    BY <1>3, LineSteps, ReadingTypes, ValueType
  <2>2. h = Value(LineF(a), NoReading, lines)
    BY <1>1, <1>3, OpenAiReads
  <2>3. h = [h EXCEPT !.model = h.model] /\ h \in Readings(a)
    BY <2>1, <2>2 DEF Readings
  <2>4. IsHeard(a, h) /\ h.model \in {<<>>, <<a.model>>}
    BY <1>3, <2>3, OpenAiHeard
  <2>5. PICK r : r = [h EXCEPT !.model = Latest(<<asked>>, h.model)]
    OBVIOUS
  <2>6. r.model = Latest(<<asked>>, h.model) /\ r.usage = h.usage /\ r.tools = h.tools
    BY <2>3, <2>5 DEF Readings
  <2> QED BY <1>2, <2>4, <2>5, <2>6 DEF IsHeard, Latest
<1>4. CASE a.protocol = "anthropic"
  <2>1. PICK v \in States(a) : v = Value(StateF(a), Start, lines)
    BY <1>4, StateSteps, ValueType
  <2>2. h = ReadingOf(v.read)
    BY <1>1, <1>4, <2>1, AnthropicReads
  <2>3. v.read \in Gathering(a)
    BY DEF States
  <2>4. IsHeard(a, h) /\ h.model \in {<<>>, <<a.model>>}
    BY <1>4, <2>2, <2>3, AnthropicHeard
  <2>5. PICK r : r = [h EXCEPT !.model = Latest(<<asked>>, h.model)]
    OBVIOUS
  <2>6. r.model = Latest(<<asked>>, h.model) /\ r.usage = h.usage /\ r.tools = h.tools
    BY <2>2, <2>5 DEF ReadingOf
  <2> QED BY <1>2, <2>4, <2>5, <2>6 DEF IsHeard, Latest
<1> QED BY <1>3, <1>4 DEF Chatting

\* The tools of all choices.
LEMMA ToolsType ==
  ASSUME NEW a, IsAnswer(a)
  PROVE  AllTools(a.choices) \in Seq(ToolsOf(a))
<1>1. PICK cs, e : cs = a.choices /\ e = <<>>
  OBVIOUS
<1>2. cs \in Seq(Range(a.choices)) /\ e \in Seq(ToolsOf(a))
  BY <1>1 DEF IsAnswer
<1>3. AllTools(cs) = Value(ToolsF(a), e, cs)
  BY <1>1, <1>2, ToolsValue
<1> QED BY <1>1, <1>2, <1>3, ToolsSteps, ValueType

\* A body that is read.
LEMMA BodyIsHeard ==
  ASSUME NEW a, IsAnswer(a), a.protocol \in Chatting
  PROVE  LET r == ReadBody(a.protocol, Body(a)) IN
         /\ IsHeard(a, r) /\ r.model \in {<<>>, <<a.model>>}
         /\ IsSane(a) => /\ r.model = <<a.model>>
                         /\ r.usage = IF a.reports = "never" THEN <<>>
                                      ELSE << Usage(a.input, a.output, a.input + a.output) >>
                         /\ r.reason = IF a.choices = <<>> THEN <<>> ELSE a.choices[1].reason
                         /\ r.tools = AllTools(a.choices)
<1>1. PICK b, r : b = Body(a) /\ r = ReadBody(a.protocol, b)
  OBVIOUS
<1>2. /\ b.model = a.model /\ b.choices = a.choices
      /\ b.usage = IF a.reports = "never" THEN <<>>
                   ELSE << Usage(a.input, a.output, a.input + a.output) >>
  BY <1>1 DEF Body
<1>3. PICK x : x = Usage(a.input, a.output, a.input + a.output)
  OBVIOUS
<1>4. /\ x.input = a.input /\ x.output = a.output /\ x.total = a.input + a.output
      /\ x.input \in Int /\ x.output \in Int /\ x.total \in Int
      /\ [x EXCEPT !.total = Wrap(x.total)] = Usage(a.input, a.output, Wrap(a.input + a.output))
  BY <1>3 DEF Usage, IsAnswer
<1>5. PICK y : y = Usage(a.input, a.output, Wrap(a.input + a.output))
  OBVIOUS
<1>6. PICK t, T : t = AllTools(a.choices) /\ T = ToolsOf(a)
  OBVIOUS
<1>7. Range(t) \subseteq T
  BY <1>6, ToolsType, RangeOfSeq
<1>8. PICK bad : bad = (b.usage # <<>> /\ ~ (/\ Fits(b.usage[1].input) /\ Fits(b.usage[1].output)
                                             /\ a.protocol = "openai" => Fits(b.usage[1].total)))
  OBVIOUS
<1>9. CASE bad
  <2>1. r = NoReading
    BY <1>1, <1>8, <1>9 DEF ReadBody
  <2>2. ~ IsSane(a)
    <3> SUFFICES ASSUME IsSane(a) PROVE FALSE
      OBVIOUS
    <3>1. b.usage # <<>> => b.usage[1] = x
      BY <1>2, <1>3
    <3>2. Fits(a.input) /\ Fits(a.output) /\ Fits(a.input + a.output)
      BY SaneCount
    <3> QED BY <1>4, <1>8, <1>9, <3>1, <3>2
  <2> QED BY <1>1, <2>1, <2>2, NothingHeard
<1>10. CASE ~ bad
  <2>1. r = [model |-> <<b.model>>,
             usage |-> IF b.usage = <<>> THEN <<>>
                       ELSE << [b.usage[1] EXCEPT !.total = Wrap(b.usage[1].total)] >>,
             reason |-> IF b.choices = <<>> THEN <<>> ELSE b.choices[1].reason,
             tools |-> AllTools(b.choices)]
    BY <1>1, <1>8, <1>10 DEF ReadBody
  <2>2. /\ r.model = <<a.model>> /\ r.tools = t
        /\ r.reason = IF a.choices = <<>> THEN <<>> ELSE a.choices[1].reason
    BY <1>2, <1>6, <2>1
  <2>3. CASE a.reports = "never"
    <3>1. r.usage = <<>>
      BY <1>2, <2>1, <2>3
    <3> QED BY <1>1, <1>6, <1>7, <2>2, <2>3, <3>1 DEF IsHeard
  <2>4. CASE a.reports # "never"
    <3>1. b.usage # <<>> /\ b.usage[1] = x
      BY <1>2, <1>3, <2>4
    <3>2. r.usage = << y >>
      BY <1>4, <1>5, <2>1, <3>1
    <3>3. Fits(a.input) /\ Fits(a.output)
      BY <1>4, <1>8, <1>10, <3>1
    <3>4. IsSane(a) => Wrap(a.input + a.output) = a.input + a.output
      BY SaneCount
    <3>5. IsCount(a, y)
      <4>1. y.input = a.input /\ y.output = a.output /\ y.total = Wrap(a.input + a.output)
        BY <1>5 DEF Usage
      <4>2. Wrap(a.input + a.output) \in Int /\ Fits(Wrap(a.input + a.output))
        BY <1>4, WrapFits
      <4> QED BY <1>4, <3>3, <3>4, <4>1, <4>2 DEF IsCount
    <3>6. IsSane(a) => y = x
      BY <1>3, <1>5, <3>4
    <3> QED BY <1>1, <1>2, <1>3, <1>6, <1>7, <2>2, <2>4, <3>2, <3>5, <3>6 DEF IsHeard
  <2> QED BY <2>3, <2>4
<1> QED BY <1>9, <1>10

\* What a provider sends.
LEMMA ScriptType ==
  ASSUME NEW a, IsAnswer(a)
  PROVE  Script(a) \in Seq(Lines(a))
<1>1. OtherLine \in Lines(a)
  BY DEF Lines
<1>2. << OtherLine >> \in Seq(Lines(a))
  BY <1>1
<1>3. a.protocol = "openai" => OpenAiScript(a) \in Seq(Lines(a))
  BY OpenAiIsWhole
<1>4. a.protocol = "anthropic" => AnthropicScript(a) \in Seq(Lines(a))
  BY AnthropicWhole
<1> QED BY <1>2, <1>3, <1>4 DEF Script

\* A stream that arrives whole.
LEMMA WholeIsHeard ==
  ASSUME NEW a, IsAnswer(a), a.protocol \in Chatting, NEW asked
  PROVE  LET r == ReadStream(a.protocol, Script(a), asked) IN
         /\ IsSane(a) => r.usage = IF a.reports = "never" THEN <<>>
                                   ELSE << Usage(a.input, a.output, a.input + a.output) >>
         /\ r.tools = Join(<<>>, AllTools(a.choices))
         /\ a.choices # <<>> => /\ r.model = <<a.model>>
                                /\ r.reason \in {a.choices[i].reason : i \in DOMAIN a.choices}
         /\ Len(a.choices) = 1 => r.reason = a.choices[1].reason
<1>1. PICK s : s = Script(a)
  OBVIOUS
<1>2. PICK h : h = IF a.protocol = "openai" THEN ReadChunks(DataLines(s))
                   ELSE ReadEvents(SseEvents(s))
  OBVIOUS
<1>3. PICK r : r = [h EXCEPT !.model = Latest(<<asked>>, h.model)]
  OBVIOUS
<1>4. ReadStream(a.protocol, s, asked) = r
  BY <1>2, <1>3 DEF ReadStream
<1>5. IsWhole(a, h)
  BY <1>1, <1>2, OpenAiIsWhole, AnthropicWhole DEF Script, Chatting
<1>6. r.model = Latest(<<asked>>, h.model) /\ r.usage = h.usage /\ r.tools = h.tools /\ r.reason = h.reason
  <2>1. s \in Seq(Lines(a))
    BY <1>1, ScriptType
  <2>2. CASE a.protocol = "openai"
    <3>1. Value(LineF(a), NoReading, s) \in Readings(a)
      BY <2>1, <2>2, LineSteps, ReadingTypes, ValueType
    <3>2. h \in Readings(a)
      BY <1>2, <2>1, <2>2, <3>1, OpenAiReads
    <3> QED BY <1>3, <3>2 DEF Readings
  <2>3. CASE a.protocol = "anthropic"
    <3>1. h = ReadingOf(Value(StateF(a), Start, s).read)
      BY <1>2, <2>1, <2>3, AnthropicReads
    <3> QED BY <1>3, <3>1 DEF ReadingOf
  <2> QED BY <2>2, <2>3 DEF Chatting
<1>7. a.choices # <<>> => r.model = <<a.model>>
  BY <1>5, <1>6 DEF IsWhole, Latest
<1> QED BY <1>1, <1>4, <1>5, <1>6, <1>7 DEF IsWhole

-----------------------------------------------------------------------------
(* The exchange                                                            *)

\* What arrives is what the provider sends, when nothing is spoiled.
WireInv ==
    /\ wire \in Seq(Lines(answer))
    /\ stage = "sending" =>
          /\ answer.streaming
          /\ Len(wire) =< Len(Script(answer))
          /\ faults =< MaxFaults
          /\ faults = 0 => \A i \in 1 .. Len(wire) : wire[i] = Script(answer)[i]
    /\ stage = "sent" =>
          IF answer.streaming THEN faults = 0 => wire = Script(answer) ELSE wire = <<>>

\* The counts of a whole answer.
IsExact(r) ==
    Understood /\ faults = 0 /\ Sane /\ answer.reports # "never" =>
        r.usage = << Usage(answer.input, answer.output, answer.input + answer.output) >>

\* A whole stream is read as its body would be.
IsAsBody(r) ==
    answer.streaming /\ answer.choices # <<>> /\ Understood /\ faults = 0 /\ Sane =>
        LET body == ReadBody(answer.protocol, Body(answer)) IN
        /\ r.model = body.model
        /\ r.usage = body.usage
        /\ r.tools = Join(<<>>, body.tools)
        /\ r.reason \in Reasons
        /\ Len(answer.choices) = 1 => r.reason = body.reason

IsSound(r) ==
    /\ IsHeard(answer, r)
    /\ r.model \in {<<>>, <<answer.model>>, <<request.body.model>>}
    /\ IsExact(r)
    /\ IsAsBody(r)

\* A reading is sound, and before it nothing has been looked up.
ReadInv == IF IsRead THEN IsSound(reading) ELSE reading = NoReading /\ LookupInit

CountInv == (stage # "done" => counted = 0) /\ CountIsReported

ExchangeInv ==
    /\ TypeOK
    /\ MayAnswer(request, answer)
    /\ WireInv
    /\ ReadInv
    /\ CountInv
    /\ TagIsWorst
    /\ LookupInv

-----------------------------------------------------------------------------
\* The answer of a state is one that a provider can mean.
LEMMA AnswerFacts ==
  ASSUME answer \in Answers
  PROVE  /\ IsAnswer(answer) /\ answer.input \in Nat /\ answer.output \in Nat
         /\ answer.streaming \in BOOLEAN /\ answer.model \in Queries
         /\ Sane <=> IsSane(answer)
         /\ Script(answer) \in Seq(Lines(answer)) /\ Len(Script(answer)) \in Nat
<1>1. IsAnswer(answer)
  BY ExchangeAssumption
<1>2. /\ answer.input \in Nat /\ answer.output \in Nat
      /\ answer.streaming \in BOOLEAN /\ answer.model \in Queries
  BY <1>1 DEF IsAnswer
<1>3. Sane <=> IsSane(answer)
  BY <1>2 DEF Sane, IsSane
<1>4. Script(answer) \in Seq(Lines(answer))
  BY <1>1, ScriptType
<1>5. Len(Script(answer)) \in Nat
  BY <1>4
<1> QED BY <1>1, <1>2, <1>3, <1>4, <1>5

\* The body alone says whether a protocol of chats streams.
LEMMA StreamingOfBody ==
  ASSUME NEW r, ProtocolOf(r).kind \in Chatting
  PROVE  ProtocolOf(r).streaming <=> IsStreaming(r.body)
BY DEF ProtocolOf, Refine, Protocol

\* What is read is sound.
LEMMA ReadAnswerSound ==
  ASSUME TypeOK, MayAnswer(request, answer), WireInv, stage = "sent"
  PROVE  IsSound(ReadAnswer)
<1>0. /\ IsAnswer(answer) /\ answer.streaming \in BOOLEAN /\ wire \in Seq(Lines(answer))
      /\ Sane <=> IsSane(answer)
  BY AnswerFacts DEF TypeOK, WireInv
<1>1. PICK a, w, p, r, asked :
         /\ a = answer /\ w = wire /\ p = ProtocolOf(request) /\ r = ReadAnswer
         /\ asked = request.body.model
  OBVIOUS
<1>2. p.kind = a.protocol
  BY <1>1 DEF MayAnswer, UpstreamUrl
<1>3. CASE a.protocol \notin Chatting
  <2>1. r = NoReading
    BY <1>1, <1>2, <1>3 DEF ReadAnswer
  <2>2. ~ Understood
    BY <1>1, <1>3 DEF Understood
  <2> QED BY <1>1, <2>1, <2>2, NothingHeard DEF IsSound, IsExact, IsAsBody
<1>4. CASE a.protocol \in Chatting /\ p.streaming
  <2>1. r = ReadStream(a.protocol, w, asked)
    BY <1>1, <1>2, <1>4 DEF ReadAnswer
  <2>2. IsHeard(a, r) /\ r.model \in {<<asked>>, <<a.model>>}
    BY <1>0, <1>1, <1>4, <2>1, StreamIsHeard
  <2>3. IsStreaming(request.body)
    BY <1>1, <1>2, <1>4, StreamingOfBody
  <2>7. PICK g : g = ReadStream(a.protocol, Script(a), asked)
    OBVIOUS
  <2>8. /\ IsSane(a) => g.usage = IF a.reports = "never" THEN <<>>
                                  ELSE << Usage(a.input, a.output, a.input + a.output) >>
        /\ g.tools = Join(<<>>, AllTools(a.choices))
        /\ a.choices # <<>> => /\ g.model = <<a.model>>
                               /\ g.reason \in {a.choices[i].reason : i \in DOMAIN a.choices}
        /\ Len(a.choices) = 1 => g.reason = a.choices[1].reason
    <3>1. IsAnswer(a)
      BY <1>0, <1>1
    <3> QED BY <1>4, <2>7, <3>1, WholeIsHeard
  <2>4. ASSUME Understood, faults = 0, Sane
        PROVE  a.streaming /\ r = g /\ IsSane(a)
    <3>1. a.streaming
      BY <1>0, <1>1, <2>3, <2>4 DEF Understood
    <3>2. w = Script(a)
      BY <1>1, <2>4, <3>1 DEF WireInv
    <3> QED BY <1>0, <1>1, <2>1, <2>4, <2>7, <3>1, <3>2
  <2>5. IsExact(r)
    BY <1>1, <2>4, <2>8 DEF IsExact
  <2>6. IsAsBody(r)
    <3> SUFFICES ASSUME answer.choices # <<>>, Understood, faults = 0, Sane
                 PROVE  LET body == ReadBody(answer.protocol, Body(answer)) IN
                        /\ r.model = body.model
                        /\ r.usage = body.usage
                        /\ r.tools = Join(<<>>, body.tools)
                        /\ r.reason \in Reasons
                        /\ Len(answer.choices) = 1 => r.reason = body.reason
      BY DEF IsAsBody
    <3>1. PICK b : b = ReadBody(a.protocol, Body(a))
      OBVIOUS
    <3>2. /\ b.model = <<a.model>> /\ b.tools = AllTools(a.choices)
          /\ b.reason = a.choices[1].reason
          /\ b.usage = IF a.reports = "never" THEN <<>>
                       ELSE << Usage(a.input, a.output, a.input + a.output) >>
      BY <1>0, <1>1, <1>4, <3>1, BodyIsHeard
    <3>3. /\ r.tools = Join(<<>>, AllTools(a.choices)) /\ r.model = <<a.model>>
          /\ r.reason \in {a.choices[i].reason : i \in DOMAIN a.choices}
          /\ Len(a.choices) = 1 => r.reason = a.choices[1].reason
      BY <2>4, <2>8, <1>1
    <3> QED BY <1>1, <2>4, <2>8, <3>1, <3>2, <3>3 DEF Reasons
  <2> QED BY <1>1, <2>2, <2>5, <2>6 DEF IsSound
<1>5. CASE a.protocol \in Chatting /\ ~ p.streaming
  <2>1. r = IF a.streaming THEN NoReading ELSE ReadBody(a.protocol, Body(a))
    BY <1>1, <1>2, <1>5 DEF ReadAnswer
  <2>2. ~ IsStreaming(request.body)
    BY <1>1, <1>2, <1>5, StreamingOfBody
  <2>3. IsHeard(a, r) /\ r.model \in {<<>>, <<a.model>>}
    BY <1>0, <1>1, <1>5, <2>1, NothingHeard, BodyIsHeard
  <2>4. a.streaming => ~ Understood
    BY <1>0, <1>1, <2>2 DEF Understood
  <2>5. IsExact(r)
    BY <1>0, <1>1, <1>5, <2>1, <2>4, BodyIsHeard DEF IsExact
  <2>6. IsAsBody(r)
    BY <1>1, <2>4 DEF IsAsBody
  <2> QED BY <1>1, <2>3, <2>5, <2>6 DEF IsSound
<1> QED BY <1>3, <1>4, <1>5

-----------------------------------------------------------------------------
\* The initial state satisfies the invariant.
LEMMA ExchangeInit == Init => ExchangeInv
<1> SUFFICES ASSUME Init PROVE ExchangeInv
  OBVIOUS
<1> USE DEF Init
<1>1. /\ answer \in Answers /\ request \in Requests /\ MayAnswer(request, answer)
      /\ LookupInit /\ LookupInv
  BY InvInit
<1>2. /\ answer.input \in Nat /\ answer.output \in Nat /\ answer.streaming \in BOOLEAN
      /\ Len(Script(answer)) \in Nat
  BY <1>1, AnswerFacts
<1>3. TypeOK
  <2>1. faults \in 0 .. Len(Script(answer)) + MaxFaults /\ counted \in 0 .. CountMax
    BY <1>2, ExchangeAssumption
  <2>2. Range(reading.usage) = {}
    BY DEF NoReading, Range
  <2>3. LookupTypeOK
    BY <1>1 DEF LookupInv
  <2> QED BY <1>1, <1>2, <2>1, <2>2, <2>3 DEF TypeOK, NoTag
<1>4. WireInv
  <2>1. PICK w : w = wire
    OBVIOUS
  <2>2. w = <<>> /\ w \in Seq(Lines(answer)) /\ Len(w) = 0
    BY <2>1
  <2>3. stage = "sending" => answer.streaming
    OBVIOUS
  <2>4. stage = "sent" => ~ answer.streaming
    OBVIOUS
  <2>5. 0 =< MaxFaults
    BY ExchangeAssumption
  <2> QED BY <1>2, <2>1, <2>2, <2>3, <2>4, <2>5 DEF WireInv
<1>5. ReadInv /\ TagIsWorst
  BY <1>1 DEF ReadInv, IsRead, TagIsWorst
<1>6. CountInv
  BY <1>2 DEF CountInv, CountIsReported
<1> QED BY <1>1, <1>3, <1>4, <1>5, <1>6 DEF ExchangeInv

-----------------------------------------------------------------------------
(* While the lines arrive                                                  *)

\* A price stays justified when nothing is looked up.
LEMMA LookupKept ==
  ASSUME LookupInv, UNCHANGED lookupVars
  PROVE  LookupInv' /\ LookupTypeOK' /\ (LookupInit => LookupInit')
<1>1. LookupInv'
  BY InvStep
<1>2. LookupInit => LookupInit'
  BY DEF LookupInit, lookupVars
<1> QED BY <1>1, <1>2 DEF LookupInv

\* Only the wire, the stage and the faults change while lines arrive.
LEMMA WireSteps ==
  ASSUME ExchangeInv, ~ IsRead, stage' \in {"sending", "sent"}, WireInv',
         faults' \in 0 .. Len(Script(answer)) + MaxFaults,
         UNCHANGED <<request, answer, logged, lookupVars>>
  PROVE  ExchangeInv'
<1> USE DEF ExchangeInv
<1>1. /\ request' = request /\ answer' = answer /\ reading' = reading /\ text' = text
      /\ config' = config /\ verdict' = verdict /\ tag' = tag /\ counted' = counted
      /\ UNCHANGED lookupVars
  BY DEF logged
<1>2. LookupInv' /\ LookupTypeOK' /\ (LookupInit => LookupInit')
  BY <1>1, LookupKept
<1>3. reading = NoReading /\ LookupInit /\ counted = 0
  BY DEF ReadInv, CountInv, IsRead
<1>4. TypeOK'
  BY <1>1, <1>2 DEF TypeOK
<1>5. MayAnswer(request, answer)'
  BY <1>1 DEF MayAnswer
<1>6. ~ IsRead' /\ stage' # "done"
  BY DEF IsRead
<1>7. ReadInv'
  BY <1>1, <1>2, <1>3, <1>6 DEF ReadInv
<1>8. CountInv'
  <2>1. answer.input \in Nat /\ answer.output \in Nat
    BY AnswerFacts DEF TypeOK
  <2> QED BY <1>1, <1>3, <1>6, <2>1 DEF CountInv, CountIsReported
<1>9. TagIsWorst'
  BY <1>6 DEF TagIsWorst
<1> QED BY <1>2, <1>4, <1>5, <1>7, <1>8, <1>9

\* What is known of a wire while lines arrive.
LEMMA SendingFacts ==
  ASSUME ExchangeInv, stage = "sending"
  PROVE  /\ wire \in Seq(Lines(answer)) /\ Script(answer) \in Seq(Lines(answer))
         /\ Len(wire) \in Nat /\ Len(Script(answer)) \in Nat /\ Len(wire) =< Len(Script(answer))
         /\ answer.streaming /\ faults \in Nat /\ faults =< MaxFaults /\ MaxFaults \in Nat
         /\ faults = 0 => \A i \in 1 .. Len(wire) : wire[i] = Script(answer)[i]
<1>1. /\ wire \in Seq(Lines(answer)) /\ Len(wire) =< Len(Script(answer)) /\ answer.streaming
      /\ faults =< MaxFaults
      /\ faults = 0 => \A i \in 1 .. Len(wire) : wire[i] = Script(answer)[i]
  BY DEF ExchangeInv, WireInv
<1>2. Script(answer) \in Seq(Lines(answer)) /\ Len(Script(answer)) \in Nat
  BY AnswerFacts DEF ExchangeInv, TypeOK
<1>3. faults \in Nat /\ MaxFaults \in Nat
  BY <1>2, ExchangeAssumption DEF ExchangeInv, TypeOK
<1>4. Len(wire) \in Nat
  BY <1>1
<1> QED BY <1>1, <1>2, <1>3, <1>4

\* One more element behind the others.
LEMMA OneMore ==
  ASSUME NEW S, NEW s \in Seq(S), NEW x \in S
  PROVE  /\ Append(s, x) \in Seq(S) /\ Len(Append(s, x)) = Len(s) + 1
         /\ \A i \in 1 .. Len(s) : Append(s, x)[i] = s[i]
         /\ Append(s, x)[Len(s) + 1] = x
OBVIOUS

\* A line that arrives is the next of the script.
LEMMA SendLineKeeps == ExchangeInv /\ SendLine => ExchangeInv'
<1> SUFFICES ASSUME ExchangeInv, SendLine PROVE ExchangeInv'
  OBVIOUS
<1>1. PICK w, s, S, n : /\ w = wire /\ s = Script(answer) /\ S = Lines(answer)
                        /\ n = Len(wire)
  OBVIOUS
<1>2. /\ w \in Seq(S) /\ s \in Seq(S) /\ n = Len(w) /\ n \in Nat /\ Len(s) \in Nat
      /\ answer.streaming /\ faults \in Nat /\ faults =< MaxFaults /\ MaxFaults \in Nat
      /\ faults = 0 => \A i \in 1 .. n : w[i] = s[i]
  BY <1>1, SendingFacts DEF SendLine
<1>3. PICK x : x = s[n + 1]
  OBVIOUS
<1>4. n < Len(s) /\ wire' = Append(w, x) /\ stage = "sending" /\ stage' = stage
      /\ faults' = faults /\ answer' = answer
  BY <1>1, <1>3 DEF SendLine, Receive
<1>5. x \in S
  BY <1>2, <1>3, <1>4
<1>6. PICK v : v = Append(w, x)
  OBVIOUS
<1>7. /\ v \in Seq(S) /\ Len(v) = n + 1
      /\ \A i \in 1 .. n : v[i] = w[i]
      /\ v[n + 1] = x
  BY <1>2, <1>5, <1>6, OneMore
<1>8. faults = 0 => \A i \in 1 .. Len(v) : v[i] = s[i]
  BY <1>2, <1>3, <1>7
<1>9. WireInv'
  BY <1>1, <1>2, <1>4, <1>6, <1>7, <1>8 DEF WireInv
<1>10. faults' \in 0 .. Len(Script(answer)) + MaxFaults
  BY <1>1, <1>2, <1>4
<1>11. ~ IsRead /\ stage' \in {"sending", "sent"}
  BY <1>4 DEF IsRead
<1> QED BY <1>9, <1>10, <1>11, WireSteps DEF SendLine

\* A spoiled line is a fault.
LEMMA SpoilLineKeeps == ExchangeInv /\ SpoilLine => ExchangeInv'
<1> SUFFICES ASSUME ExchangeInv, SpoilLine PROVE ExchangeInv'
  OBVIOUS
<1>1. PICK w, s, S, n : /\ w = wire /\ s = Script(answer) /\ S = Lines(answer)
                        /\ n = Len(wire)
  OBVIOUS
<1>2. /\ w \in Seq(S) /\ n = Len(w) /\ n \in Nat /\ Len(s) \in Nat
      /\ answer.streaming /\ faults \in Nat /\ MaxFaults \in Nat
  BY <1>1, SendingFacts DEF SpoilLine
<1>3. OtherLine \in S /\ DataLine(Bad) \in S
  BY <1>1 DEF Lines, Json
<1>4. PICK x \in S : wire' = Append(w, x)
  BY <1>1, <1>3 DEF SpoilLine, Receive
<1>5. /\ n < Len(s) /\ stage = "sending" /\ stage' = stage /\ faults < MaxFaults
      /\ faults' = faults + 1 /\ answer' = answer
  BY <1>1 DEF SpoilLine
<1>6. PICK v : v = Append(w, x)
  OBVIOUS
<1>7. v \in Seq(S) /\ Len(v) = n + 1
  BY <1>2, <1>6, OneMore
<1>8. faults' # 0 /\ faults' =< MaxFaults /\ faults' \in 0 .. Len(s) + MaxFaults
  BY <1>2, <1>5
<1>9. WireInv'
  BY <1>1, <1>2, <1>4, <1>5, <1>6, <1>7, <1>8 DEF WireInv
<1>10. ~ IsRead /\ stage' \in {"sending", "sent"}
  BY <1>5 DEF IsRead
<1> QED BY <1>1, <1>8, <1>9, <1>10, WireSteps DEF SpoilLine

\* A stream that ends without a fault has arrived whole.
LEMMA EndStreamKeeps == ExchangeInv /\ EndStream => ExchangeInv'
<1> SUFFICES ASSUME ExchangeInv, EndStream PROVE ExchangeInv'
  OBVIOUS
<1>1. PICK w, s, S, n : /\ w = wire /\ s = Script(answer) /\ S = Lines(answer)
                        /\ n = Len(wire)
  OBVIOUS
<1>2. /\ w \in Seq(S) /\ s \in Seq(S) /\ n = Len(w) /\ n \in Nat /\ Len(s) \in Nat /\ n =< Len(s)
      /\ answer.streaming /\ faults \in Nat /\ faults =< MaxFaults /\ MaxFaults \in Nat
      /\ faults = 0 => \A i \in 1 .. n : w[i] = s[i]
  BY <1>1, SendingFacts DEF EndStream
<1>3. /\ stage = "sending" /\ stage' = "sent" /\ wire' = wire /\ answer' = answer
      /\ faults' = faults + Len(s) - n
  BY <1>1 DEF EndStream
<1>4. faults' \in 0 .. Len(s) + MaxFaults
  BY <1>2, <1>3
<1>5. faults' = 0 => w = s
  <2> SUFFICES ASSUME faults' = 0 PROVE w = s
    OBVIOUS
  <2>1. faults = 0 /\ n = Len(s)
    BY <1>2, <1>3
  <2> QED BY <1>2, <2>1, SameElements
<1>6. WireInv'
  BY <1>1, <1>2, <1>3, <1>5 DEF WireInv
<1>7. ~ IsRead /\ stage' \in {"sending", "sent"}
  BY <1>3 DEF IsRead
<1> QED BY <1>1, <1>4, <1>6, <1>7, WireSteps DEF EndStream

-----------------------------------------------------------------------------
(* What is made of them                                                    *)

\* What is said of a reading stays true while nothing arrives.
LEMMA SoundKept ==
  ASSUME request' = request, answer' = answer, faults' = faults, NEW r
  PROVE  IsSound(r) => IsSound(r)'
BY DEF IsSound, IsExact, IsAsBody, Understood, Sane, Reasons

\* The numbers of a sound reading fit an i32.
LEMMA SoundFits ==
  ASSUME NEW a, NEW r, IsHeard(a, r)
  PROVE  \A u \in Range(r.usage) : Fits(u.input) /\ Fits(u.output) /\ Fits(u.total)
<1>1. CASE r.usage = <<>>
  BY <1>1 DEF Range
<1>2. ASSUME NEW u, IsCount(a, u), r.usage = << u >>
      PROVE  \A v \in Range(r.usage) : Fits(v.input) /\ Fits(v.output) /\ Fits(v.total)
  <2>1. Range(<< u >>) = {u}
    BY DEF Range
  <2> QED BY <1>2, <2>1 DEF IsCount
<1> QED BY <1>1, <1>2 DEF IsHeard

\* A lookup that has not begun is in its initial state.
LEMMA LookupStarts == LookupInit' => LookupInv'
BY InvInit, PTL

\* What is read is sound, and its model is a name that can be looked up.
LEMMA ReadKeeps == ExchangeInv /\ Read => ExchangeInv'
<1> SUFFICES ASSUME ExchangeInv, Read PROVE ExchangeInv'
  OBVIOUS
<1> USE DEF ExchangeInv
<1>1. /\ stage = "sent" /\ stage' = "priced" /\ reading' = ReadAnswer /\ wire' = <<>>
      /\ request' = request /\ answer' = answer /\ faults' = faults /\ text' = text
      /\ config' = config /\ verdict' = verdict /\ tag' = tag /\ counted' = counted
      /\ map' = map /\ left' = left /\ forward' = forward /\ reverse' = reverse
      /\ price' = price
      /\ query' = IF reading'.model = <<>> THEN query ELSE reading'.model[1]
  BY DEF Read
<1>2. ~ IsRead /\ IsRead' /\ stage' # "done"
  BY <1>1 DEF IsRead
<1>3. LookupInit /\ counted = 0
  BY <1>1, <1>2 DEF ReadInv, CountInv
<1>4. IsSound(ReadAnswer)
  BY <1>1, ReadAnswerSound
<1>5. PICK r : r = ReadAnswer
  OBVIOUS
<1>6. IsSound(r) /\ reading' = r
  BY <1>1, <1>4, <1>5
<1>7. IsSound(r)'
  BY <1>1, <1>6, SoundKept
<1>8. ReadInv'
  <2>1. IsSound(reading)'
    BY <1>1, <1>6, <1>7 DEF IsSound, IsExact, IsAsBody, Understood, Sane, Reasons
  <2> QED BY <1>2, <2>1 DEF ReadInv
<1>9. query' \in Queries
  <2>1. r.model \in {<<>>, <<answer.model>>, <<request.body.model>>}
    BY <1>6 DEF IsSound
  <2>2. answer.model \in Queries /\ request.body.model \in Queries /\ query \in Queries
    BY <1>3, AnswerFacts, ExchangeAssumption DEF TypeOK, LookupInit
  <2> QED BY <1>1, <1>6, <2>1, <2>2
<1>10. LookupInit'
  BY <1>1, <1>3, <1>9 DEF LookupInit
<1>11. LookupInv' /\ LookupTypeOK'
  <2>1. LookupInv'
    BY <1>10, LookupStarts
  <2> QED BY <2>1 DEF LookupInv
<1>12. TypeOK'
  <2>1. IsHeard(answer, r)
    BY <1>6 DEF IsSound
  <2>2. \A u \in Range(reading'.usage) : Fits(u.input) /\ Fits(u.output) /\ Fits(u.total)
    BY <1>6, <2>1, SoundFits
  <2> QED BY <1>1, <1>11, <2>2 DEF TypeOK
<1>13. WireInv'
  <2>1. PICK w : w = <<>>
    OBVIOUS
  <2>2. w \in Seq(Lines(answer))
    BY <2>1
  <2> QED BY <1>1, <2>1, <2>2 DEF WireInv
<1>14. CountInv'
  <2>1. answer.input \in Nat /\ answer.output \in Nat
    BY AnswerFacts DEF TypeOK
  <2> QED BY <1>1, <1>3, <2>1 DEF CountInv, CountIsReported
<1>15. TagIsWorst'
  BY <1>2 DEF TagIsWorst
<1>16. MayAnswer(request, answer)'
  BY <1>1 DEF MayAnswer
<1> QED BY <1>8, <1>11, <1>12, <1>13, <1>14, <1>15, <1>16

\* Where only the price changes.
LEMMA PriceSteps ==
  ASSUME ExchangeInv, [LookupNext]_lookupVars,
         UNCHANGED <<request, answer, stage, wire, faults, logged>>,
         ~ IsRead => UNCHANGED lookupVars
  PROVE  ExchangeInv'
<1> USE DEF ExchangeInv
<1>1. /\ request' = request /\ answer' = answer /\ stage' = stage /\ wire' = wire
      /\ faults' = faults /\ reading' = reading /\ text' = text /\ config' = config
      /\ verdict' = verdict /\ tag' = tag /\ counted' = counted
  BY DEF logged
<1>2. LookupInv' /\ LookupTypeOK'
  <2>1. LookupInv'
    BY InvStep
  <2> QED BY <2>1 DEF LookupInv
<1>3. TypeOK'
  BY <1>1, <1>2 DEF TypeOK
<1>4. WireInv'
  BY <1>1 DEF WireInv
<1>5. IsRead' <=> IsRead
  BY <1>1 DEF IsRead
<1>6. ReadInv'
  <2>1. CASE IsRead
    <3>1. IsSound(reading)
      BY <2>1 DEF ReadInv
    <3>2. IsSound(reading)'
      BY <1>1, <3>1 DEF IsSound, IsExact, IsAsBody, Understood, Sane, Reasons
    <3> QED BY <1>5, <2>1, <3>2 DEF ReadInv
  <2>2. CASE ~ IsRead
    <3>1. LookupInit => LookupInit'
      BY <2>2, LookupKept
    <3> QED BY <1>1, <1>5, <2>2, <3>1 DEF ReadInv
  <2> QED BY <2>1, <2>2
<1>7. CountInv'
  BY <1>1 DEF CountInv, CountIsReported, Sane, Understood
<1>8. TagIsWorst'
  BY <1>1 DEF TagIsWorst, Active
<1>9. MayAnswer(request, answer)'
  BY <1>1 DEF MayAnswer
<1> QED BY <1>2, <1>3, <1>4, <1>6, <1>7, <1>8, <1>9

\* The lookup changes the price alone.
LEMMA LookUpKeeps == ExchangeInv /\ LookUp => ExchangeInv'
BY PriceSteps DEF LookUp, IsRead

\* So does a step that changes nothing.
LEMMA NothingKeeps == ExchangeInv /\ UNCHANGED vars => ExchangeInv'
BY PriceSteps DEF vars, logged

\* The tokens that are counted for a sound reading.
LEMMA CountOfReading ==
  ASSUME ExchangeInv, stage = "priced",
         NEW n, n = Saturating(counted + IF HasUsage THEN AsUnsigned(reading.usage[1].total) ELSE 0)
  PROVE  /\ n \in 0 .. CountMax
         /\ Sane => n =< answer.input + answer.output
         /\ Sane /\ faults = 0 /\ Understood /\ answer.reports # "never" =>
               n = answer.input + answer.output
<1>1. IsSound(reading) /\ counted = 0
  BY DEF ExchangeInv, ReadInv, IsRead, CountInv
<1>2. /\ answer.input \in Nat /\ answer.output \in Nat /\ IntMax \in Nat /\ CountMax \in Nat
      /\ CountMax > 2 * (IntMax + 1)
      /\ Sane <=> IsSane(answer)
  BY AnswerFacts, WireAssumption, ExchangeAssumption DEF ExchangeInv, TypeOK
<1>3. PICK i, o : i = answer.input /\ o = answer.output
  OBVIOUS
<1>8. i \in Nat /\ o \in Nat
  BY <1>2, <1>3
<1>4. Sane => i + o =< IntMax
  BY <1>3 DEF Sane
<1>5. CASE reading.usage = <<>>
  <2>1. n = 0
    BY <1>1, <1>2, <1>5 DEF HasUsage, Saturating
  <2>2. ~ (Sane /\ faults = 0 /\ Understood /\ answer.reports # "never")
    BY <1>1, <1>5 DEF IsSound, IsExact
  <2> QED BY <1>2, <2>1, <2>2
<1>6. ASSUME NEW u, IsCount(answer, u), reading.usage = << u >>
      PROVE  /\ n \in 0 .. CountMax
             /\ Sane => n =< i + o
             /\ Sane /\ faults = 0 /\ Understood /\ answer.reports # "never" => n = i + o
  <2>1. HasUsage /\ reading.usage[1] = u
    BY <1>6 DEF HasUsage
  <2>2. PICK t : t = u.total
    OBVIOUS
  <2>3. n = Saturating(0 + AsUnsigned(t))
    BY <1>1, <2>1, <2>2
  <2>4. t \in Int /\ t >= - IntMax - 1 /\ t =< IntMax
    BY <1>6, <2>2 DEF IsCount, Fits
  <2>5. n = IF t < 0 THEN t + CountMax + 1 ELSE t
    <3>1. PICK m : m = AsUnsigned(t)
      OBVIOUS
    <3>2. m = IF t < 0 THEN t + CountMax + 1 ELSE t
      BY <3>1 DEF AsUnsigned
    <3>3. m \in Int /\ 0 + m = m /\ ~ m > CountMax
      BY <1>2, <2>4, <3>2
    <3>4. Saturating(m) = m
      BY <3>3 DEF Saturating
    <3> QED BY <2>3, <3>1, <3>2, <3>3, <3>4
  <2>6. Sane => t = i \/ t = i + o
    <3> SUFFICES ASSUME Sane PROVE t = i \/ t = i + o
      OBVIOUS
    <3>1. u.input = i /\ (u.output = 0 \/ u.output = o) /\ u.total = u.input + u.output
      BY <1>2, <1>3, <1>6 DEF IsCount
    <3> QED BY <1>8, <2>2, <3>1
  <2>8. n \in 0 .. CountMax
    BY <1>2, <2>4, <2>5
  <2>9. Sane => n =< i + o
    BY <1>8, <2>4, <2>5, <2>6
  <2>7. Sane /\ faults = 0 /\ Understood /\ answer.reports # "never" => t = i + o
    <3> SUFFICES ASSUME Sane, faults = 0, Understood, answer.reports # "never"
                 PROVE  t = i + o
      OBVIOUS
    <3>1. reading.usage = << Usage(i, o, i + o) >>
      BY <1>1, <1>3 DEF IsSound, IsExact
    <3> QED BY <2>1, <2>2, <3>1 DEF Usage
  <2>10. Sane /\ faults = 0 /\ Understood /\ answer.reports # "never" => n = i + o
    BY <1>8, <2>4, <2>5, <2>7
  <2> QED BY <2>8, <2>9, <2>10
<1>7. reading.usage = <<>> \/ \E u : IsCount(answer, u) /\ reading.usage = << u >>
  BY <1>1 DEF IsSound, IsHeard
<1> QED BY <1>3, <1>5, <1>6, <1>7

\* The event is logged with its count and its tag.
LEMMA LogEventKeeps == ExchangeInv /\ LogEvent => ExchangeInv'
<1> SUFFICES ASSUME ExchangeInv, LogEvent PROVE ExchangeInv'
  OBVIOUS
<1> USE DEF ExchangeInv
<1>1. /\ stage = "priced" /\ stage' = "done" /\ request' = request /\ answer' = answer
      /\ wire' = wire /\ faults' = faults /\ reading' = reading /\ UNCHANGED lookupVars
      /\ text' \in Texts /\ verdict' \in {"allow", "high", "block"}
      /\ config' \in {EngineConfig(file) : file \in Files}
      /\ tag' = HookTag(config', Event(answer, text'), verdict')
      /\ counted' = Saturating(counted + IF HasUsage THEN AsUnsigned(reading.usage[1].total) ELSE 0)
  BY DEF LogEvent, Verdicts
<1>2. IsAnswer(answer) /\ answer.input \in Nat /\ answer.output \in Nat
  BY AnswerFacts DEF TypeOK
<1>3. TagIsWorst'
  BY <1>2, LogEventTags
<1>4. LookupInv' /\ LookupTypeOK'
  BY <1>1, LookupKept
<1>5. PICK n : n = Saturating(counted + IF HasUsage THEN AsUnsigned(reading.usage[1].total) ELSE 0)
  OBVIOUS
<1>6. /\ counted' = n /\ n \in 0 .. CountMax
      /\ Sane => n =< answer.input + answer.output
      /\ Sane /\ faults = 0 /\ Understood /\ answer.reports # "never" =>
            n = answer.input + answer.output
  BY <1>1, <1>5, CountOfReading
<1>7. CountInv'
  <2>1. CountMax \in Nat
    BY ExchangeAssumption
  <2> QED BY <1>1, <1>2, <1>6, <2>1 DEF CountInv, CountIsReported, Sane, Understood
<1>8. TypeOK'
  <2>1. tag'.status \in {"audit", "pass", "warn", "block"}
    BY <1>1 DEF HookTag, ComplianceTag, NoTag, PassAll, ComplianceStatus
  <2> QED BY <1>1, <1>4, <1>6, <2>1 DEF TypeOK
<1>9. WireInv'
  BY <1>1 DEF WireInv
<1>10. IsRead /\ IsRead'
  BY <1>1 DEF IsRead
<1>11. ReadInv'
  <2>1. IsSound(reading)
    BY <1>10 DEF ReadInv
  <2>2. IsSound(reading)'
    BY <1>1, <2>1 DEF IsSound, IsExact, IsAsBody, Understood, Sane, Reasons
  <2> QED BY <1>10, <2>2 DEF ReadInv
<1>12. MayAnswer(request, answer)'
  BY <1>1 DEF MayAnswer
<1> QED BY <1>3, <1>4, <1>7, <1>8, <1>9, <1>11, <1>12

-----------------------------------------------------------------------------
(* The theorems                                                            *)

\* Every step keeps the invariant.
LEMMA ExchangeStep == ExchangeInv /\ [Next]_vars => ExchangeInv'
BY SendLineKeeps, SpoilLineKeeps, EndStreamKeeps, ReadKeeps, LookUpKeeps, LogEventKeeps,
   NothingKeeps DEF Next

\* The invariant holds in every state.
THEOREM ExchangeAlwaysInv == Spec => []ExchangeInv
BY ExchangeInit, ExchangeStep, PTL DEF Spec

\* What is said of a sound reading is what the runs check of it.
LEMMA SoundReadings == ExchangeInv => StreamReadsAsBody /\ NothingInvented
<1> SUFFICES ASSUME ExchangeInv, IsRead PROVE StreamReadsAsBody /\ NothingInvented
  BY DEF StreamReadsAsBody, NothingInvented
<1>1. IsSound(reading)
  BY DEF ExchangeInv, ReadInv
<1>2. StreamReadsAsBody
  BY <1>1 DEF IsSound, IsAsBody, StreamReadsAsBody
<1>3. NothingInvented
  <2> SUFFICES ASSUME Sane
               PROVE  /\ Range(reading.tools) \subseteq ToolsOf(answer)
                      /\ \A u \in Range(reading.usage) :
                            /\ u.input = answer.input
                            /\ u.output \in {0, answer.output}
                            /\ u.total = u.input + u.output
                            /\ answer.protocol = "anthropic" => u.output = answer.output
                      /\ reading.model \in {<<>>, <<answer.model>>, <<request.body.model>>}
    BY DEF NothingInvented, ToolsOf
  <2>1. IsSane(answer)
    BY AnswerFacts DEF ExchangeInv, TypeOK
  <2>2. IsHeard(answer, reading) /\ reading.model \in {<<>>, <<answer.model>>, <<request.body.model>>}
    BY <1>1 DEF IsSound
  <2>3. CASE reading.usage = <<>>
    <3>1. Range(reading.usage) = {}
      BY <2>3 DEF Range
    <3> QED BY <2>2, <3>1 DEF IsHeard
  <2>4. ASSUME NEW c, IsCount(answer, c), reading.usage = << c >>
        PROVE  \A u \in Range(reading.usage) :
                  /\ u.input = answer.input
                  /\ u.output \in {0, answer.output}
                  /\ u.total = u.input + u.output
                  /\ answer.protocol = "anthropic" => u.output = answer.output
    <3>1. Range(<< c >>) = {c}
      BY DEF Range
    <3> QED BY <2>1, <2>4, <3>1 DEF IsCount
  <2> QED BY <2>2, <2>3, <2>4 DEF IsHeard
<1> QED BY <1>2, <1>3

\* The types of all variables are kept: the numbers of a reading fit an i32
\* and the count a u64.
THEOREM ExchangeTypeCorrect == Spec => []TypeOK
<1>1. ExchangeInv => TypeOK
  BY DEF ExchangeInv
<1> QED BY <1>1, ExchangeAlwaysInv, PTL

\* For all requests, answers and policies: a stream that arrives whole is
\* recorded as the same answer would be when it is not streamed.
THEOREM StreamAlwaysReadsAsBody == Spec => []StreamReadsAsBody
BY ExchangeAlwaysInv, SoundReadings, PTL

\* Whatever lines are spoiled or missing, nothing is recorded that was not
\* meant.
THEOREM NothingEverInvented == Spec => []NothingInvented
BY ExchangeAlwaysInv, SoundReadings, PTL

\* The budget counts no more tokens than were reported unless their sum is
\* no i32, and all of them when the answer arrives whole.
THEOREM CountAlwaysReported == Spec => []CountIsReported
<1>1. ExchangeInv => CountIsReported
  BY DEF ExchangeInv, CountInv
<1> QED BY <1>1, ExchangeAlwaysInv, PTL

\* The tag of every event is as bad as the worst of what the policies in
\* force found, and no worse.
THEOREM TagAlwaysWorst == Spec => []TagIsWorst
<1>1. ExchangeInv => TagIsWorst
  BY DEF ExchangeInv
<1> QED BY <1>1, ExchangeAlwaysInv, PTL

\* The price looked up for a reading is the one that the comment on
\* lookup_pricing names.
THEOREM ExchangePriceJustified == Spec => []PriceIsJustified
<1>1. ExchangeInv => PriceIsJustified
  BY DEF ExchangeInv, LookupInv
<1> QED BY <1>1, ExchangeAlwaysInv, PTL
=============================================================================
