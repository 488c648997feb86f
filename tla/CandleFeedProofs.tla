--------------------------- MODULE CandleFeedProofs ---------------------------
(***************************************************************************)
(* What the data feed promises about the stored candles, proved for every  *)
(* set of symbols and runners, every page size, rewind and horizon: no     *)
(* unexplained hole, nothing that Verify would stop on, and an update      *)
(* that catches up and does nothing when it is run again.                  *)
(***************************************************************************)
EXTENDS CandleFeed, FiniteSetTheorems, WellFoundedInduction, TLAPS

-----------------------------------------------------------------------------
(***************************************************************************)
(* The least and the greatest bar or symbol of a set                       *)
(***************************************************************************)
LEMMA MinIsLeast ==
  ASSUME NEW S \in SUBSET Nat, S # {}
  PROVE  /\ Min(S) \in S
         /\ \A y \in S : Min(S) <= y
<1>1. PICK x \in S : \A y \in S : ~(<<y, x>> \in OpToRel(<, Nat))
  BY NatLessThanWellFounded, WFMin, Zenon
<1>2. \A y \in S : ~(y < x)
  BY <1>1 DEF OpToRel
<1>3. \E m \in S : \A y \in S : m <= y
  BY <1>2
<1> QED BY <1>3 DEF Min

LEMMA MaxIsGreatest ==
  ASSUME NEW S \in SUBSET Nat, S # {}, NEW n \in Nat, \A x \in S : x <= n
  PROVE  /\ Max(S) \in S
         /\ \A y \in S : Max(S) >= y
<1> DEFINE T == {n - x : x \in S}
<1>1. T \in SUBSET Nat /\ T # {}
  OBVIOUS
<1>2. Min(T) \in T /\ \A y \in T : Min(T) <= y
  BY <1>1, MinIsLeast
<1>3. PICK m \in S : Min(T) = n - m
  BY <1>2
<1>4. \A y \in S : m >= y
  <2> TAKE y \in S
  <2>1. n - m <= n - y
    BY <1>2, <1>3
  <2> QED BY <2>1
<1>5. \E k \in S : \A y \in S : k >= y
  BY <1>4
<1> QED BY <1>5 DEF Max

-----------------------------------------------------------------------------
(***************************************************************************)
(* The inductive invariant                                                 *)
(***************************************************************************)
\* A runner that reads has a symbol, and a page that was offered from its cursor on.
PageInv ==
  /\ page = [p \in Runners |-> page[p]]
  /\ \A p \in Runners :
       /\ pc[p] = "idle" <=> job[p] = "none"
       /\ Reading(p) => todo[p] # {}
       /\ pc[p] = "store" => DOMAIN page[p] # {} /\ DOMAIN page[p] \subseteq cursor[p] .. clock
       /\ \A b \in DOMAIN page[p] : page[p][b] \in {"bad", "partial", "v1", "v2"}

\* Nothing is stored before it is closed.
ClosedInv == \A s \in Symbols : \A b \in Have(s) : b < clock

Explained(s, b) == b \in Have(s) \/ b \in passed[s]

\* Below a stored bar every bar is stored or was gone past.
HoleInv == \A s \in Symbols : \A c \in Have(s) : \A b \in Bars : b < c => Explained(s, b)

\* A cursor has nothing unexplained behind it but the bar that was open when it went by,
\* and that one closes at most once before the symbol is done.
CursorInv ==
  \A p \in Runners : Reading(p) =>
    \A b \in Bars : b < cursor[p] =>
      \/ Explained(Min(todo[p]), b)
      \/ b >= clock
      \/ moved[p] /\ b + 1 = clock

\* The row that SyncMarkets writes for a listed symbol.
Row(l) == IF l = "trading" THEN "active" ELSE "inactive"

RowsWritten(written) ==
  \A s \in written : listing[s] # "absent" => market[s] = Row(listing[s])

\* The table markets says what the exchange says.
MarketsInStep ==
  /\ RowsWritten(Symbols)
  /\ \A s \in Symbols : listing[s] = "absent" => market[s] # "active"

\* What UpdateCatchesUp says of the bars below k.
CaughtUpTo(s, k) ==
  \A b \in Bars :
    /\ b < k /\ b < clock
    /\ \A a \in Have(s) : b + Rewind > a
    /\ b >= Oldest
    /\ offered[s][b] \in {"v1", "v2"}
    => bars[s][b] = offered[s][b]

CaughtUp(s) == CaughtUpTo(s, clock)

\* How far an update has come that nothing has disturbed.
UpdateInv(p) ==
  /\ listed[p] = listing
  /\ pc[p] = "upsert" => RowsWritten(Symbols \ todo[p])
  /\ pc[p] = "delist" =>
       /\ RowsWritten(Symbols)
       /\ \A s \in todo[p] : listing[s] = "absent"
       /\ \A s \in Active : listing[s] = "absent" => s \in todo[p]
  /\ pc[p] \in {"symbols", "fetch", "store"} =>
       /\ MarketsInStep
       /\ \A s \in Symbols \ todo[p] : listing[s] = "trading" => CaughtUp(s)
  /\ Reading(p) => CaughtUpTo(Min(todo[p]), cursor[p])
  /\ pc[p] = "store" => page[p] = FetchOHLCV(Min(todo[p]), cursor[p])

QuietInv ==
  \A p \in Runners : quiet[p] /\ job[p] = "update" => UpdateInv(p)

\* An update that runs when the last one was quiet: it asks for what is stored already.
RepeatInv(p) ==
  /\ listed[p] = listing
  /\ pc[p] = "upsert" => \A s \in todo[p] : listing[s] # "absent"
  /\ pc[p] = "delist" => todo[p] = {}
  /\ pc[p] \in {"symbols", "fetch", "store"} => todo[p] \subseteq Active
  /\ Reading(p) =>
       \A b \in Bars : b >= cursor[p] => \A a \in Have(Min(todo[p])) : b + Rewind > a
  /\ pc[p] = "store" =>
       \A b \in DOMAIN page[p] : b < clock => page[p][b] = offered[Min(todo[p])][b]

FreshInv ==
  fresh =>
    /\ MarketsInStep
    /\ \A s \in Symbols : listing[s] = "trading" => CaughtUp(s)
    /\ \A p \in Runners : job[p] # "backfill" /\ (job[p] = "update" => RepeatInv(p))

IInv ==
  /\ TypeOK
  /\ PageInv
  /\ ClosedInv
  /\ HoleInv
  /\ CursorInv
  /\ QuietInv
  /\ FreshInv

-----------------------------------------------------------------------------
(***************************************************************************)
(* What the steps work with: the symbol, the cursor and the page           *)
(***************************************************************************)
LEMMA CurrentSymbol ==
  ASSUME TypeOK, NEW p \in Runners, todo[p] # {}
  PROVE  /\ Min(todo[p]) \in todo[p]
         /\ Min(todo[p]) \in Symbols
<1>1. todo[p] \in SUBSET Symbols
  BY DEF TypeOK
<1>2. todo[p] \in SUBSET Nat
  BY <1>1, FeedAssumption
<1> QED BY <1>1, <1>2, MinIsLeast

LEMMA LatestBar ==
  ASSUME NEW s \in Symbols, Have(s) # {}
  PROVE  /\ MaxOpenTime(s) \in Have(s)
         /\ \A b \in Have(s) : b <= MaxOpenTime(s)
<1>1. Have(s) \in SUBSET Nat /\ LastBar \in Nat /\ \A b \in Have(s) : b <= LastBar
  BY FeedAssumption DEF Have, Bars
<1>2. Max(Have(s)) \in Have(s) /\ \A b \in Have(s) : Max(Have(s)) >= b
  BY <1>1, MaxIsGreatest
<1> QED BY <1>1, <1>2 DEF MaxOpenTime

LEMMA OldestIsPast ==
  ASSUME TypeOK
  PROVE  Oldest \in Nat /\ Oldest <= clock /\ clock \in Nat
  BY FeedAssumption DEF TypeOK, Oldest, Bars

\* Where a symbol is begun: what is below is stored, or older than a backfill reaches;
\* an update goes back so far that the last Rewind bars are read again, and no further.
LEMMA SinceStarts ==
  ASSUME TypeOK, NEW p \in Runners, NEW s \in Symbols
  PROVE  /\ Since(p, s) \in Nat
         /\ \A b \in Bars : b < Since(p, s) =>
              \/ b < Oldest /\ (job[p] # "update" \/ Have(s) = {})
              \/ \E c \in Have(s) : b <= c
         /\ Have(s) = {} => Since(p, s) = Oldest
         /\ job[p] = "update" /\ Have(s) # {} => \A b \in Bars :
              /\ b >= Since(p, s) => \A a \in Have(s) : b + Rewind > a
              /\ b < Since(p, s) => \E a \in Have(s) : b + Rewind <= a
<1>1. Oldest \in Nat
  BY OldestIsPast
<1>2. CASE Have(s) = {}
  BY <1>1, <1>2 DEF Since
<1>3. CASE Have(s) # {} /\ job[p] = "update"
  <2> DEFINE m == MaxOpenTime(s)
  <2>1. m \in Have(s) /\ m \in Nat /\ \A b \in Have(s) : b \in Nat /\ b <= m
    BY <1>3, LatestBar DEF Have, Bars
  <2>2. Since(p, s) = IF m + 1 >= Rewind THEN m + 1 - Rewind ELSE 0
    BY <1>3 DEF Since, Rewound
  <2>3. Rewind \in Nat /\ Rewind > 0
    BY FeedAssumption
  <2> HIDE DEF m
  <2>4. Since(p, s) \in Nat
    BY <2>1, <2>2, <2>3
  <2>5. \A b \in Nat : b < Since(p, s) => b <= m /\ b + Rewind <= m
    BY <2>1, <2>2, <2>3
  <2>6. \A b \in Nat : b >= Since(p, s) => b + Rewind > m
    BY <2>1, <2>2, <2>3
  <2>7. \A b \in Nat : b >= Since(p, s) => \A a \in Have(s) : b + Rewind > a
    BY <2>1, <2>3, <2>6
  <2> QED BY <1>3, <2>1, <2>4, <2>5, <2>7 DEF Bars
<1>4. CASE Have(s) # {} /\ job[p] # "update"
  <2> DEFINE m == MaxOpenTime(s)
  <2>1. m \in Have(s) /\ m \in Nat
    BY <1>4, LatestBar DEF Have, Bars
  <2>2. Since(p, s) = Max({Oldest, m + 1})
    BY <1>4 DEF Since, Resume
  <2> HIDE DEF m
  <2>3. Max({Oldest, m + 1}) \in {Oldest, m + 1}
    <3>1. {Oldest, m + 1} \in SUBSET Nat /\ {Oldest, m + 1} # {}
      BY <1>1, <2>1
    <3>2. \A x \in {Oldest, m + 1} : x <= Oldest + m + 1
      BY <1>1, <2>1
    <3>3. Oldest + m + 1 \in Nat
      BY <1>1, <2>1
    <3> QED BY <3>1, <3>2, <3>3, MaxIsGreatest
  <2>4. Since(p, s) = Oldest \/ Since(p, s) = m + 1
    BY <2>2, <2>3
  <2> QED BY <1>1, <1>4, <2>1, <2>4 DEF Bars
<1> QED BY <1>2, <1>3, <1>4

\* A page is the first bars on offer from the cursor on: none of them is left out below
\* its last one, and a page that is not full has all of them.
LEMMA PageOfOffers ==
  ASSUME TypeOK, NEW s \in Symbols, NEW k \in Nat, NEW got, got = FetchOHLCV(s, k)
  PROVE  /\ DOMAIN got \subseteq k .. clock
         /\ \A b \in DOMAIN got :
              /\ got[b] = Offered(s, b)
              /\ got[b] \in {"bad", "partial", "v1", "v2"}
              /\ b < clock => got[b] = offered[s][b]
         /\ \A c \in DOMAIN got : \A b \in k .. c :
              Offered(s, b) # "none" => b \in DOMAIN got
         /\ DOMAIN got = {} \/ IsShort(got) =>
              \A b \in k .. clock : Offered(s, b) # "none" => b \in DOMAIN got
<1> DEFINE there == {b \in k .. clock : Offered(s, b) # "none"}
           below(b) == {a \in there : a < b}
           first == {b \in there : Cardinality(below(b)) < PageSize}
<1>1. DOMAIN got = first /\ \A b \in first : got[b] = Offered(s, b)
  BY Zenon DEF FetchOHLCV
<1>2. clock \in Nat /\ PageSize \in Nat /\ PageSize > 0 /\ clock <= LastBar /\ LastBar \in Nat
  BY FeedAssumption DEF TypeOK, Bars
<1>3. there \in SUBSET Nat /\ there \subseteq k .. clock /\ IsFiniteSet(there)
  <2>1. IsFiniteSet(k .. clock)
    BY <1>2, FS_Interval
  <2>2. there \in SUBSET (k .. clock)
    OBVIOUS
  <2>3. IsFiniteSet(there)
    BY <2>1, <2>2, FS_Subset
  <2> QED BY <1>2, <2>2, <2>3
<1>4. \A b \in there : IsFiniteSet(below(b)) /\ Cardinality(below(b)) \in Nat
  <2> TAKE b \in there
  <2>1. below(b) \in SUBSET there
    OBVIOUS
  <2> QED BY <1>3, <2>1, FS_Subset, FS_CardinalityType
<1>5. \A b \in first :
        /\ got[b] = Offered(s, b)
        /\ got[b] \in {"bad", "partial", "v1", "v2"}
        /\ b < clock => got[b] = offered[s][b]
  <2> SUFFICES ASSUME NEW b \in first
               PROVE  /\ Offered(s, b) \in {"bad", "partial", "v1", "v2"}
                      /\ b < clock => Offered(s, b) = offered[s][b]
    BY <1>1
  <2>1. b \in there /\ b \in Bars
    BY <1>2 DEF Bars
  <2>2. offered[s][b] \in Offer
    BY <2>1 DEF TypeOK
  <2> HIDE DEF first
  <2> QED BY <1>2, <2>1, <2>2 DEF Offered, Offer, Bars
<1>6. \A c \in first : \A b \in k .. c : Offered(s, b) # "none" => b \in first
  <2> SUFFICES ASSUME NEW c \in first, NEW b \in k .. c, Offered(s, b) # "none"
               PROVE  b \in there /\ Cardinality(below(b)) < PageSize
    OBVIOUS
  <2>1. b \in there /\ b <= c /\ c \in there
    BY <1>2
  <2>2. below(b) \in SUBSET below(c)
    BY <1>3, <2>1
  <2>3. Cardinality(below(b)) <= Cardinality(below(c))
    BY <1>4, <2>1, <2>2, FS_Subset
  <2>4. Cardinality(below(c)) < PageSize
    OBVIOUS
  <2> HIDE DEF below, there
  <2> QED BY <1>2, <1>4, <2>1, <2>3, <2>4
<1>7. ASSUME first = {} \/ Cardinality(first) < PageSize, there \ first # {}
      PROVE  FALSE
  <2> DEFINE m == Min(there \ first)
  <2>1. m \in there \ first /\ \A y \in there \ first : m <= y
    <3>1. there \ first \in SUBSET Nat
      BY <1>3
    <3> HIDE DEF there, first
    <3> QED BY <1>7, <3>1, MinIsLeast
  <2>2. below(m) \in SUBSET first
    <3> SUFFICES ASSUME NEW a \in below(m) PROVE a \in first
      OBVIOUS
    <3>1. a \in there /\ a < m /\ a \in Nat /\ m \in Nat
      BY <1>3, <2>1
    <3> HIDE DEF below, there, first, m
    <3> QED BY <2>1, <3>1
  <2>3. IsFiniteSet(first) /\ Cardinality(first) < PageSize
    <3>1. first \in SUBSET there
      OBVIOUS
    <3> HIDE DEF there, first
    <3> QED BY <1>2, <1>3, <1>7, <3>1, FS_Subset, FS_EmptySet
  <2>4. Cardinality(below(m)) < PageSize
    <3> HIDE DEF below, first, m
    <3>1. Cardinality(below(m)) <= Cardinality(first)
      BY <2>2, <2>3, FS_Subset
    <3>2. Cardinality(first) \in Nat
      BY <2>3, FS_CardinalityType
    <3>3. Cardinality(below(m)) \in Nat
      BY <1>4, <2>1
    <3> QED BY <1>2, <2>3, <3>1, <3>2, <3>3
  <2> QED BY <2>1, <2>4
<1>8. DOMAIN got = {} \/ IsShort(got) =>
        \A b \in k .. clock : Offered(s, b) # "none" => b \in first
  <2>1. DOMAIN got = {} \/ IsShort(got) => there \ first = {}
    <3> HIDE DEF there, first
    <3> QED BY <1>1, <1>7 DEF IsShort
  <2>2. \A b \in k .. clock : Offered(s, b) # "none" => b \in there
    OBVIOUS
  <2> HIDE DEF there, first
  <2> QED BY <2>1, <2>2
<1>9. first \subseteq k .. clock
  OBVIOUS
<1> HIDE DEF first
<1> QED BY <1>1, <1>5, <1>6, <1>8, <1>9

-----------------------------------------------------------------------------
(***************************************************************************)
(* Types and pages                                                         *)
(***************************************************************************)
LEMMA InitTypes == Init => TypeOK /\ PageInv
<1> SUFFICES ASSUME Init PROVE TypeOK /\ PageInv
  OBVIOUS
<1>1. clock \in Bars
  BY FeedAssumption DEF Init, Bars
<1>2. offered \in [Symbols -> [Bars -> Offer]] /\ bars \in [Symbols -> [Bars -> Stored]]
  BY DEF Init, Offer, Stored
<1>3. \A p \in Runners : DOMAIN page[p] = {}
  BY Zenon DEF Init, NoPage
<1>4. TypeOK
  BY <1>1, <1>2, <1>3 DEF Init, TypeOK, Listing
<1>5. PageInv
  BY <1>3 DEF Init, PageInv, Reading
<1> QED BY <1>4, <1>5

LEMMA TickTypes ==
  ASSUME TypeOK, PageInv, Tick
  PROVE  TypeOK' /\ PageInv'
<1>1. clock \in Nat /\ clock' = clock + 1 /\ clock \in Bars /\ clock' \in Bars
  BY FeedAssumption DEF TypeOK, Tick, Bars
<1>2. offered' \in [Symbols -> [Bars -> Offer]]
  <2>1. PICK final \in [Symbols -> {"v1", "bad", "none"}] :
          offered' = [s \in Symbols |-> [offered[s] EXCEPT ![clock] = final[s]]]
    BY DEF Tick
  <2>2. \A s \in Symbols : final[s] \in Offer /\ offered[s] \in [Bars -> Offer]
    BY <2>1 DEF TypeOK, Offer
  <2>3. \A s \in Symbols : [offered[s] EXCEPT ![clock] = final[s]] \in [Bars -> Offer]
    BY <1>1, <2>2
  <2> QED BY <2>1, <2>3
<1>3. quiet' \in [Runners -> BOOLEAN] /\ fresh' \in BOOLEAN /\ moved' \in [Runners -> BOOLEAN]
  <2>1. quiet' \in [Runners -> BOOLEAN] /\ fresh' \in BOOLEAN
    BY Zenon DEF Tick, Disturbed
  <2>2. moved' = [p \in Runners |-> Reading(p)]
    BY Zenon DEF Tick
  <2>3. \A p \in Runners : Reading(p) \in BOOLEAN
    BY DEF Reading
  <2> QED BY <2>1, <2>2, <2>3, Zenon
<1>4. UNCHANGED <<listing, storeVars, runnerVars, passed>>
  BY DEF Tick
<1>5. TypeOK'
  BY <1>1, <1>2, <1>3, <1>4 DEF TypeOK, storeVars, runnerVars
<1>6. PageInv'
  BY <1>1, <1>4 DEF TypeOK, PageInv, Reading, runnerVars
<1> QED BY <1>5, <1>6

LEMMA OddityTypes ==
  ASSUME TypeOK, PageInv, NEW s \in Symbols,
         (\E b \in Bars : Correct(s, b)) \/ (\E l \in Listing : Relist(s, l))
  PROVE  TypeOK' /\ PageInv'
<1>1. UNCHANGED <<clock, moved, storeVars, runnerVars, passed>>
  BY DEF Correct, Relist
<1>2. offered' \in [Symbols -> [Bars -> Offer]] /\ listing' \in [Symbols -> Listing]
  <2>1. ASSUME NEW b \in Bars, Correct(s, b)
        PROVE  offered' \in [Symbols -> [Bars -> Offer]] /\ UNCHANGED listing
    BY <2>1 DEF TypeOK, Correct, Offer
  <2>2. ASSUME NEW l \in Listing, Relist(s, l)
        PROVE  UNCHANGED offered /\ listing' \in [Symbols -> Listing]
    BY <2>2 DEF TypeOK, Relist
  <2> QED BY <2>1, <2>2 DEF TypeOK
<1>3. quiet' \in [Runners -> BOOLEAN] /\ fresh' \in BOOLEAN
  BY Zenon DEF Correct, Relist, Disturbed
<1>4. TypeOK'
  BY <1>1, <1>2, <1>3 DEF TypeOK, storeVars, runnerVars
<1>5. PageInv'
  BY <1>1 DEF PageInv, Reading, runnerVars
<1> QED BY <1>4, <1>5

\* The two observers of quiet, whichever way a step leaves them.
LEMMA WroteTypes ==
  ASSUME TypeOK, NEW p \in Runners, Wrote(p)
  PROVE  quiet' \in [Runners -> BOOLEAN] /\ fresh' \in BOOLEAN
  BY Zenon DEF Wrote

LEMMA BeginTypes ==
  ASSUME TypeOK, PageInv, NEW p \in Runners, NEW what \in Jobs[p], Begin(p, what)
  PROVE  TypeOK' /\ PageInv'
<1>1. what \in {"update", "backfill"}
  BY FeedAssumption
<1>2. job' \in [Runners -> {"none", "update", "backfill"}]
  BY <1>1 DEF TypeOK, Begin
<1>3. quiet' \in [Runners -> BOOLEAN] /\ fresh' \in BOOLEAN
  BY Zenon DEF TypeOK, Begin, Alone
<1>4. /\ pc' \in [Runners -> {"idle", "upsert", "delist", "symbols", "fetch", "store"}]
      /\ listed' \in [Runners -> [Symbols -> Listing]]
      /\ todo' \in [Runners -> SUBSET Symbols]
  BY DEF TypeOK, Begin, Goto, FetchMarkets
<1>5. UNCHANGED <<moved, exchangeVars, storeVars, cursor, page, passed>>
  BY DEF Begin
<1>6. TypeOK'
  BY <1>2, <1>3, <1>4, <1>5 DEF TypeOK, exchangeVars, storeVars
<1>7. PageInv'
  <2>1. /\ pc' = [pc EXCEPT ![p] = "upsert"] /\ job' = [job EXCEPT ![p] = what]
        /\ \A q \in Runners \ {p} : todo'[q] = todo[q]
    BY DEF TypeOK, Begin, Goto
  <2>2. ~Reading(p)' /\ pc'[p] # "idle" /\ pc'[p] # "store" /\ job'[p] = what
    BY <2>1 DEF TypeOK, Reading
  <2>3. \A q \in Runners \ {p} : pc'[q] = pc[q] /\ job'[q] = job[q] /\ Reading(q)' = Reading(q)
    BY <2>1 DEF TypeOK, Reading
  <2>4. UNCHANGED <<clock, cursor, page>>
    BY <1>5 DEF exchangeVars
  <2> QED BY <1>1, <2>1, <2>2, <2>3, <2>4 DEF PageInv
<1> QED BY <1>6, <1>7

LEMMA SyncTypes ==
  ASSUME TypeOK, PageInv, NEW p \in Runners,
         UpsertMarket(p) \/ ListActive(p) \/ MarkDelisted(p) \/ ChooseSymbols(p)
  PROVE  TypeOK' /\ PageInv'
<1>1. UNCHANGED <<moved, exchangeVars, bars, job, listed, cursor, page, passed>>
  BY DEF UpsertMarket, ListActive, MarkDelisted, ChooseSymbols, storeVars
<1>2. quiet' \in [Runners -> BOOLEAN] /\ fresh' \in BOOLEAN
  <2>1. CASE Wrote(p)
    BY <2>1, WroteTypes
  <2>2. CASE UNCHANGED <<quiet, fresh>>
    BY <2>2, Zenon DEF TypeOK
  <2> QED BY <2>1, <2>2 DEF UpsertMarket, ListActive, MarkDelisted, ChooseSymbols
<1>3. market' \in [Symbols -> {"unknown", "active", "inactive", "delisted"}]
  BY DEF TypeOK, UpsertMarket, ListActive, MarkDelisted, ChooseSymbols, UpsertMarketRow,
         DelistMarketRow, storeVars
<1>4. todo' \in [Runners -> SUBSET Symbols] /\ \A q \in Runners \ {p} : todo'[q] = todo[q]
  <2>1. \E rest \in SUBSET Symbols : todo' = [todo EXCEPT ![p] = rest]
    <3>1. CASE UpsertMarket(p) \/ MarkDelisted(p)
      BY <3>1 DEF TypeOK, UpsertMarket, MarkDelisted
    <3>2. CASE ListActive(p)
      BY <3>2 DEF ListActive, ToDelist, Active
    <3>3. CASE ChooseSymbols(p)
      BY <3>3 DEF ChooseSymbols, Active
    <3> QED BY <3>1, <3>2, <3>3
  <2> QED BY <2>1 DEF TypeOK
<1>5. /\ pc' \in [Runners -> {"idle", "upsert", "delist", "symbols", "fetch", "store"}]
      /\ \A q \in Runners \ {p} : pc'[q] = pc[q]
      /\ pc[p] \in {"upsert", "delist"} /\ pc'[p] \in {"upsert", "delist", "symbols"}
  BY DEF TypeOK, UpsertMarket, ListActive, MarkDelisted, ChooseSymbols, Goto
<1>6. TypeOK'
  BY <1>1, <1>2, <1>3, <1>4, <1>5 DEF TypeOK, exchangeVars
<1>7. PageInv'
  BY <1>1, <1>4, <1>5 DEF TypeOK, PageInv, Reading, exchangeVars
<1> QED BY <1>6, <1>7

LEMMA StartSymbolTypes ==
  ASSUME TypeOK, PageInv, NEW p \in Runners, StartSymbol(p)
  PROVE  TypeOK' /\ PageInv'
<1> DEFINE s == Min(todo[p])
<1>1. s \in Symbols /\ s \in todo[p]
  BY CurrentSymbol DEF StartSymbol
<1>2. Since(p, s) \in Nat
  BY <1>1, SinceStarts
<1>3. /\ pc[p] = "symbols" /\ todo[p] # {}
      /\ pc' = [pc EXCEPT ![p] = "fetch"]
      /\ cursor' = [cursor EXCEPT ![p] = Since(p, s)]
      /\ moved' = [moved EXCEPT ![p] = FALSE]
      /\ UNCHANGED <<exchangeVars, storeVars, job, listed, todo, page, quiet, fresh>>
  BY DEF StartSymbol, Goto
<1>4. passed' \in [Symbols -> SUBSET Bars]
  BY <1>1 DEF TypeOK, StartSymbol
<1> HIDE DEF s
<1>5. moved' \in [Runners -> BOOLEAN]
  BY <1>3, Zenon DEF TypeOK
<1>6. TypeOK'
  BY <1>2, <1>3, <1>4, <1>5 DEF TypeOK, exchangeVars, storeVars
<1>7. PageInv'
  BY <1>3 DEF TypeOK, PageInv, Reading, exchangeVars
<1> QED BY <1>6, <1>7

LEMMA FetchPageTypes ==
  ASSUME TypeOK, PageInv, NEW p \in Runners, FetchPage(p)
  PROVE  TypeOK' /\ PageInv'
<1> DEFINE s == Min(todo[p])
           got == FetchOHLCV(s, cursor[p])
<1>1. pc[p] = "fetch" /\ todo[p] # {}
  BY DEF FetchPage, PageInv, Reading
<1>2. s \in Symbols /\ s \in todo[p] /\ cursor[p] \in Nat /\ clock \in Bars
  BY <1>1, CurrentSymbol DEF TypeOK
<1>3. /\ DOMAIN got \subseteq cursor[p] .. clock
      /\ \A b \in DOMAIN got : got[b] \in {"bad", "partial", "v1", "v2"}
  <2> HIDE DEF s
  <2>1. got = FetchOHLCV(s, cursor[p])
    BY DEF got
  <2> HIDE DEF got
  <2> QED BY <1>2, <2>1, PageOfOffers
<1>4. DOMAIN got \subseteq Bars
  <2> HIDE DEF got
  <2> QED BY <1>2, <1>3, FeedAssumption DEF Bars
<1>5. UNCHANGED <<moved, exchangeVars, storeVars, job, listed, passed, quiet, fresh>>
  BY DEF FetchPage
<1>6. CASE SymbolDone(p) /\ UNCHANGED page
  <2>1. /\ pc' = [pc EXCEPT ![p] = "symbols"]
        /\ todo' = [todo EXCEPT ![p] = @ \ {s}]
        /\ cursor' = [cursor EXCEPT ![p] = 0]
    BY <1>6 DEF SymbolDone, Goto
  <2> HIDE DEF s, got
  <2>2. TypeOK'
    BY <1>5, <1>6, <2>1 DEF TypeOK, exchangeVars, storeVars
  <2>3. PageInv'
    BY <1>1, <1>5, <1>6, <2>1 DEF TypeOK, PageInv, Reading, exchangeVars
  <2> QED BY <2>2, <2>3
<1>7. CASE /\ DOMAIN got # {} /\ page' = [page EXCEPT ![p] = got]
           /\ Goto(p, "store") /\ UNCHANGED <<todo, cursor>>
  <2>1. pc' = [pc EXCEPT ![p] = "store"]
    BY <1>7 DEF Goto
  <2> HIDE DEF s, got
  <2>2. \A q \in Runners : page'[q] = IF q = p THEN got ELSE page[q]
    BY <1>7 DEF PageInv
  <2>3. TypeOK'
    BY <1>4, <1>5, <1>7, <2>1, <2>2 DEF TypeOK, exchangeVars, storeVars
  <2>4. page' = [q \in Runners |-> page'[q]]
    BY <1>7 DEF PageInv
  <2>5. PageInv'
    BY <1>1, <1>3, <1>5, <1>7, <2>1, <2>2, <2>4 DEF TypeOK, PageInv, Reading, exchangeVars
  <2> QED BY <2>3, <2>5
<1> QED BY <1>6, <1>7 DEF FetchPage

\* What a page leaves in the tables: its closed and well formed bars, and a note of the
\* others up to its last one.
LEMMA StoredPage ==
  ASSUME TypeOK, PageInv, NEW p \in Runners, StorePage(p),
         NEW s, s = Min(todo[p]), NEW got, got = page[p]
  PROVE  /\ s \in Symbols /\ s \in todo[p]
         /\ Max(DOMAIN got) \in DOMAIN got /\ \A b \in DOMAIN got : b <= Max(DOMAIN got)
         /\ DOMAIN got \subseteq cursor[p] .. clock /\ DOMAIN got \subseteq Bars
         /\ \A b \in Clean(got) : b < clock /\ b \in DOMAIN got /\ got[b] \in {"partial", "v1", "v2"}
         /\ bars' \in [Symbols -> [Bars -> Stored]]
         /\ \A r \in Symbols \ {s} : bars'[r] = bars[r] /\ passed'[r] = passed[r]
         /\ \A b \in Bars : bars'[s][b] = IF b \in Clean(got) THEN got[b] ELSE bars[s][b]
         /\ passed' \in [Symbols -> SUBSET Bars]
         /\ \A b \in Bars : b \in passed'[s] <=>
              \/ b \in passed[s]
              \/ b \in cursor[p] .. Max(DOMAIN got) /\ b < clock /\ b \notin Clean(got)
<1>1. pc[p] = "store" /\ todo[p] # {} /\ DOMAIN got # {} /\ DOMAIN got \subseteq cursor[p] .. clock
  BY DEF StorePage, PageInv, Reading
<1>2. s \in Symbols /\ s \in todo[p]
  BY <1>1, CurrentSymbol
<1>3. cursor[p] \in Nat /\ clock \in Nat /\ clock <= LastBar /\ LastBar \in Nat
  BY FeedAssumption DEF TypeOK, Bars
<1>4. DOMAIN got \in SUBSET Nat /\ (\A b \in DOMAIN got : b <= clock) /\ DOMAIN got \subseteq Bars
  BY <1>1, <1>3 DEF Bars
<1>5. Max(DOMAIN got) \in DOMAIN got /\ \A b \in DOMAIN got : b <= Max(DOMAIN got)
  <2>1. Max(DOMAIN got) \in DOMAIN got /\ \A b \in DOMAIN got : Max(DOMAIN got) >= b
    BY <1>1, <1>3, <1>4, MaxIsGreatest
  <2> QED BY <1>4, <2>1
<1>6. \A b \in Clean(got) : b < clock /\ b \in DOMAIN got /\ got[b] \in {"partial", "v1", "v2"}
  BY DEF Clean, IsClosed, PageInv
<1>7. bars' = [bars EXCEPT ![s] = [b \in Bars |-> IF b \in Clean(got) THEN got[b] ELSE bars[s][b]]]
  BY DEF StorePage, UpsertCandles
<1>8. passed' = [passed EXCEPT ![s] = passed[s] \union
                   {b \in cursor[p] .. Max(DOMAIN got) : IsClosed(b) /\ b \notin Clean(got)}]
  BY DEF StorePage
<1>9. bars \in [Symbols -> [Bars -> Stored]] /\ passed \in [Symbols -> SUBSET Bars]
  BY DEF TypeOK
<1>10. /\ bars' \in [Symbols -> [Bars -> Stored]]
       /\ \A r \in Symbols \ {s} : bars'[r] = bars[r]
       /\ \A b \in Bars : bars'[s][b] = IF b \in Clean(got) THEN got[b] ELSE bars[s][b]
  <2>1. [b \in Bars |-> IF b \in Clean(got) THEN got[b] ELSE bars[s][b]] \in [Bars -> Stored]
    BY <1>2, <1>6, <1>9 DEF Stored
  <2> QED BY <1>2, <1>7, <1>9, <2>1
<1>11. /\ passed' \in [Symbols -> SUBSET Bars]
       /\ \A r \in Symbols \ {s} : passed'[r] = passed[r]
       /\ \A b \in Bars : b \in passed'[s] <=>
            \/ b \in passed[s]
            \/ b \in cursor[p] .. Max(DOMAIN got) /\ b < clock /\ b \notin Clean(got)
  <2> DEFINE gone == {b \in cursor[p] .. Max(DOMAIN got) : IsClosed(b) /\ b \notin Clean(got)}
  <2>1. gone \in SUBSET Bars
    <3>1. Max(DOMAIN got) \in Nat /\ Max(DOMAIN got) <= clock
      BY <1>4, <1>5
    <3> QED BY <1>3, <3>1 DEF Bars
  <2>2. \A b \in Bars : b \in gone <=>
          b \in cursor[p] .. Max(DOMAIN got) /\ b < clock /\ b \notin Clean(got)
    BY DEF IsClosed
  <2>3. passed' = [passed EXCEPT ![s] = passed[s] \union gone]
    BY <1>8
  <2> HIDE DEF gone
  <2> QED BY <1>2, <1>9, <2>1, <2>2, <2>3
<1> QED BY <1>1, <1>2, <1>4, <1>5, <1>6, <1>10, <1>11

LEMMA StorePageTypes ==
  ASSUME TypeOK, PageInv, NEW p \in Runners, StorePage(p)
  PROVE  TypeOK' /\ PageInv'
<1> DEFINE s == Min(todo[p])
           got == page[p]
<1>1. /\ s \in Symbols
      /\ Max(DOMAIN got) \in DOMAIN got /\ DOMAIN got \subseteq Bars
      /\ bars' \in [Symbols -> [Bars -> Stored]] /\ passed' \in [Symbols -> SUBSET Bars]
  BY StoredPage
<1>2. UNCHANGED <<moved, exchangeVars, market, job, listed>>
  BY DEF StorePage
<1>3. quiet' \in [Runners -> BOOLEAN] /\ fresh' \in BOOLEAN
  BY WroteTypes DEF StorePage
<1>4. /\ page' = [page EXCEPT ![p] = NoPage]
      /\ pc[p] = "store"
  BY DEF StorePage
<1>5. page' = [q \in Runners |-> page'[q]]
      /\ \A q \in Runners : page'[q] = IF q = p THEN NoPage ELSE page[q]
  BY <1>4 DEF PageInv
<1>6. DOMAIN NoPage = {}
  BY Zenon DEF NoPage
<1>7. \/ /\ pc' = [pc EXCEPT ![p] = "symbols"]
         /\ todo' = [todo EXCEPT ![p] = @ \ {s}]
         /\ cursor' = [cursor EXCEPT ![p] = 0]
      \/ /\ pc' = [pc EXCEPT ![p] = "fetch"]
         /\ cursor' = [cursor EXCEPT ![p] = Max(DOMAIN got) + 1]
         /\ UNCHANGED todo
  BY DEF StorePage, SymbolDone, Goto, NextCursor
<1>8. Max(DOMAIN got) + 1 \in Nat
  BY <1>1, FeedAssumption DEF Bars
<1>9. todo[p] # {}
  BY <1>4 DEF PageInv, Reading
<1> HIDE DEF s, got
<1>10. /\ pc' \in [Runners -> {"idle", "upsert", "delist", "symbols", "fetch", "store"}]
       /\ todo' \in [Runners -> SUBSET Symbols]
       /\ cursor' \in [Runners -> Nat]
       /\ \A q \in Runners \ {p} : pc'[q] = pc[q] /\ todo'[q] = todo[q] /\ cursor'[q] = cursor[q]
       /\ pc'[p] \in {"symbols", "fetch"} /\ (pc'[p] = "fetch" => todo'[p] = todo[p])
  <2>1. /\ pc \in [Runners -> {"idle", "upsert", "delist", "symbols", "fetch", "store"}]
        /\ todo \in [Runners -> SUBSET Symbols]
        /\ cursor \in [Runners -> Nat]
    BY DEF TypeOK
  <2>2. CASE /\ pc' = [pc EXCEPT ![p] = "symbols"]
             /\ todo' = [todo EXCEPT ![p] = @ \ {s}]
             /\ cursor' = [cursor EXCEPT ![p] = 0]
    BY <2>1, <2>2
  <2>3. CASE /\ pc' = [pc EXCEPT ![p] = "fetch"]
             /\ cursor' = [cursor EXCEPT ![p] = Max(DOMAIN got) + 1]
             /\ UNCHANGED todo
    BY <1>8, <2>1, <2>3
  <2> QED BY <1>7, <2>2, <2>3
<1>11. TypeOK'
  BY <1>1, <1>2, <1>3, <1>5, <1>6, <1>10 DEF TypeOK, exchangeVars
<1>12. PageInv'
  <2>1. \A q \in Runners : job'[q] = job[q] /\ clock' = clock
    BY <1>2 DEF exchangeVars
  <2>2. \A q \in Runners \ {p} : page'[q] = page[q]
    BY <1>5
  <2>3. page'[p] = NoPage
    BY <1>5
  <2> SUFFICES ASSUME NEW q \in Runners
               PROVE  /\ pc'[q] = "idle" <=> job'[q] = "none"
                      /\ pc'[q] \in {"fetch", "store"} => todo'[q] # {}
                      /\ pc'[q] = "store" =>
                           DOMAIN page'[q] # {} /\ DOMAIN page'[q] \subseteq cursor'[q] .. clock'
                      /\ \A b \in DOMAIN page'[q] : page'[q][b] \in {"bad", "partial", "v1", "v2"}
    BY <1>5, Zenon DEF PageInv, Reading
  <2>4. CASE q = p
    BY <1>4, <1>6, <1>9, <1>10, <2>1, <2>3, <2>4 DEF PageInv
  <2>5. CASE q # p
    BY <1>10, <2>1, <2>2, <2>5 DEF PageInv, Reading
  <2> QED BY <2>4, <2>5
<1> QED BY <1>11, <1>12

LEMMA LeaveTypes ==
  ASSUME TypeOK, PageInv, NEW p \in Runners, Finish(p) \/ Stop(p)
  PROVE  TypeOK' /\ PageInv'
<1>1. /\ pc' = [pc EXCEPT ![p] = "idle"]
      /\ job' = [job EXCEPT ![p] = "none"]
      /\ listed' = [listed EXCEPT ![p] = [s \in Symbols |-> "absent"]]
      /\ todo' = [todo EXCEPT ![p] = {}]
      /\ cursor' = [cursor EXCEPT ![p] = 0]
      /\ page' = [page EXCEPT ![p] = NoPage]
  BY DEF Finish, Stop, Leave, Goto
<1>2. UNCHANGED <<moved, exchangeVars, storeVars, passed, quiet>>
  BY DEF Finish, Stop
<1>3. fresh' \in BOOLEAN
  <2>1. CASE Finish(p)
    BY <2>1, Zenon DEF Finish
  <2>2. CASE Stop(p)
    BY <2>2, Zenon DEF TypeOK, Stop
  <2> QED BY <2>1, <2>2
<1>4. page' = [q \in Runners |-> page'[q]]
      /\ \A q \in Runners : page'[q] = IF q = p THEN NoPage ELSE page[q]
  BY <1>1 DEF PageInv
<1>5. DOMAIN NoPage = {}
  BY Zenon DEF NoPage
<1>6. TypeOK'
  BY <1>1, <1>2, <1>3, <1>4, <1>5 DEF TypeOK, exchangeVars, storeVars, Listing
<1>7. PageInv'
  BY <1>1, <1>2, <1>4, <1>5 DEF TypeOK, PageInv, Reading, exchangeVars
<1> QED BY <1>6, <1>7

\* Every step keeps the types, and gives a runner that reads its symbol and its page.
LEMMA TypesKept ==
  ASSUME TypeOK, PageInv, [Next]_vars
  PROVE  TypeOK' /\ PageInv'
<1>1. CASE UNCHANGED vars
  BY <1>1 DEF vars, exchangeVars, storeVars, runnerVars, TypeOK, PageInv, Reading
<1>2. CASE Tick
  BY <1>2, TickTypes
<1>3. ASSUME NEW s \in Symbols,
             (\E b \in Bars : Correct(s, b)) \/ (\E l \in Listing : Relist(s, l))
      PROVE  TypeOK' /\ PageInv'
  BY <1>3, OddityTypes
<1>4. ASSUME NEW p \in Runners, (\E what \in Jobs[p] : Begin(p, what)) \/ Run(p) \/ Stop(p)
      PROVE  TypeOK' /\ PageInv'
  BY <1>4, BeginTypes, SyncTypes, StartSymbolTypes, FetchPageTypes, StorePageTypes, LeaveTypes
     DEF Run
<1> QED BY <1>1, <1>2, <1>3, <1>4 DEF Next

-----------------------------------------------------------------------------
(***************************************************************************)
(* Holes                                                                   *)
(***************************************************************************)
\* A row is never deleted, and a page adds its clean bars.
LEMMA RowsAfterPage ==
  ASSUME TypeOK, PageInv, NEW p \in Runners, StorePage(p),
         NEW s, s = Min(todo[p]), NEW got, got = page[p]
  PROVE  /\ Have(s)' = Have(s) \union Clean(got)
         /\ \A r \in Symbols \ {s} : Have(r)' = Have(r)
<1>1. DOMAIN got \subseteq Bars
  BY StoredPage
<1>2. \A b \in Clean(got) : b \in DOMAIN got /\ got[b] \in {"partial", "v1", "v2"}
  BY StoredPage
<1>3. \A r \in Symbols \ {s} : bars'[r] = bars[r]
  BY StoredPage
<1>4. \A b \in Bars : bars'[s][b] = IF b \in Clean(got) THEN got[b] ELSE bars[s][b]
  BY StoredPage
<1>5. \A b \in Bars : bars'[s][b] # "none" <=> (bars[s][b] # "none" \/ b \in Clean(got))
  <2> TAKE b \in Bars
  <2>1. CASE b \in Clean(got)
    BY <1>2, <1>4, <2>1
  <2>2. CASE b \notin Clean(got)
    BY <1>4, <2>2
  <2> QED BY <2>1, <2>2
<1>6. Have(s)' = Have(s) \union Clean(got)
  BY <1>1, <1>2, <1>5 DEF Have
<1>7. \A r \in Symbols \ {s} : Have(r)' = Have(r)
  BY <1>3 DEF Have
<1> QED BY <1>6, <1>7

\* Only a page changes rows; the clock and the notes of what was gone past only grow.
LEMMA OtherSteps ==
  ASSUME TypeOK, [Next]_vars
  PROVE  \/ \E p \in Runners : StorePage(p)
         \/ /\ UNCHANGED bars
            /\ clock' \in {clock, clock + 1}
            /\ \A s \in Symbols : passed[s] \subseteq passed'[s]
<1> DEFINE Still == /\ UNCHANGED bars
                    /\ clock' \in {clock, clock + 1}
                    /\ \A s \in Symbols : passed[s] \subseteq passed'[s]
<1>1. CASE UNCHANGED vars
  BY <1>1 DEF vars, exchangeVars, storeVars
<1>2. CASE Tick
  BY <1>2 DEF Tick, storeVars
<1>3. ASSUME NEW s \in Symbols,
             (\E b \in Bars : Correct(s, b)) \/ (\E l \in Listing : Relist(s, l))
      PROVE  Still
  BY <1>3 DEF Correct, Relist, storeVars
<1>4. ASSUME NEW p \in Runners,
             \/ \E what \in Jobs[p] : Begin(p, what)
             \/ UpsertMarket(p) \/ ListActive(p) \/ MarkDelisted(p) \/ ChooseSymbols(p)
             \/ FetchPage(p) \/ Finish(p) \/ Stop(p)
      PROVE  Still
  BY <1>4 DEF Begin, UpsertMarket, ListActive, MarkDelisted, ChooseSymbols, FetchPage, Finish, Stop,
              exchangeVars, storeVars
<1>5. ASSUME NEW p \in Runners, StartSymbol(p) PROVE Still
  BY <1>5 DEF TypeOK, StartSymbol, exchangeVars, storeVars
<1> QED BY <1>1, <1>2, <1>3, <1>4, <1>5 DEF Next, Run

LEMMA Growing ==
  ASSUME TypeOK, PageInv, [Next]_vars
  PROVE  /\ clock <= clock' /\ clock \in Nat
         /\ \A s \in Symbols : Have(s) \subseteq Have(s)' /\ passed[s] \subseteq passed'[s]
<1>1. clock \in Nat
  BY FeedAssumption DEF TypeOK, Bars
<1>2. ASSUME NEW p \in Runners, StorePage(p)
      PROVE  /\ clock' = clock
             /\ \A s \in Symbols : Have(s) \subseteq Have(s)' /\ passed[s] \subseteq passed'[s]
  <2>1. clock' = clock
    BY <1>2 DEF StorePage, exchangeVars
  <2>2. \A s \in Symbols : Have(s) \subseteq Have(s)'
    BY <1>2, RowsAfterPage
  <2>3. passed \in [Symbols -> SUBSET Bars]
    BY DEF TypeOK
  <2>4. \A s \in Symbols : passed[s] \subseteq passed'[s]
    BY <1>2, <2>3, StoredPage
  <2> QED BY <2>1, <2>2, <2>4
<1>3. CASE /\ UNCHANGED bars /\ clock' \in {clock, clock + 1}
           /\ \A s \in Symbols : passed[s] \subseteq passed'[s]
  BY <1>1, <1>3 DEF Have
<1> QED BY <1>1, <1>2, <1>3, OtherSteps

LEMMA ClosedKept ==
  ASSUME TypeOK, PageInv, ClosedInv, [Next]_vars
  PROVE  ClosedInv'
<1>1. ASSUME NEW p \in Runners, StorePage(p) PROVE ClosedInv'
  <2>1. PICK s, got : s = Min(todo[p]) /\ got = page[p]
    OBVIOUS
  <2>2. clock' = clock
    BY <1>1 DEF StorePage, exchangeVars
  <2>3. /\ Have(s)' = Have(s) \union Clean(got)
        /\ \A r \in Symbols \ {s} : Have(r)' = Have(r)
    BY <1>1, <2>1, RowsAfterPage
  <2>4. \A b \in Clean(got) : b < clock
    BY <1>1, <2>1, StoredPage
  <2> QED BY <2>2, <2>3, <2>4 DEF ClosedInv
<1>2. CASE UNCHANGED bars
  <2>1. \A s \in Symbols : Have(s)' = Have(s) /\ Have(s) \subseteq Nat
    BY <1>2, FeedAssumption DEF Have, Bars
  <2>2. clock \in Nat /\ clock' \in Nat /\ clock <= clock'
    <3>1. clock' \in Bars /\ clock \in Bars
      BY TypesKept DEF TypeOK
    <3> QED BY <3>1, Growing, FeedAssumption DEF Bars
  <2> QED BY <2>1, <2>2 DEF ClosedInv
<1> QED BY <1>1, <1>2, OtherSteps

LEMMA HolesKept ==
  ASSUME TypeOK, PageInv, HoleInv, CursorInv, [Next]_vars
  PROVE  HoleInv'
<1> SUFFICES ASSUME NEW r \in Symbols, NEW c \in Have(r)', NEW b \in Bars, b < c
             PROVE  b \in Have(r)' \/ b \in passed'[r]
  BY DEF HoleInv, Explained
<1>1. CASE c \in Have(r)
  <2>1. b \in Have(r) \/ b \in passed[r]
    BY <1>1 DEF HoleInv, Explained
  <2> QED BY <2>1, Growing
<1>2. CASE c \notin Have(r)
  <2>1. c \in Bars /\ b \in Nat /\ c \in Nat
    BY FeedAssumption DEF Have, Bars
  <2>2. PICK p \in Runners : StorePage(p)
    BY <1>2, OtherSteps DEF Have
  <2>3. PICK s, got : s = Min(todo[p]) /\ got = page[p]
    OBVIOUS
  <2>4. r = s /\ c \in Clean(got)
    BY <1>2, <2>2, <2>3, RowsAfterPage
  <2>5. c < clock /\ c \in DOMAIN got /\ c <= Max(DOMAIN got)
    BY <2>2, <2>3, <2>4, StoredPage
  <2>6. cursor[p] \in Nat /\ clock \in Nat /\ Max(DOMAIN got) \in Nat
    <3>1. Max(DOMAIN got) \in Bars
      BY <2>2, <2>3, StoredPage
    <3> QED BY <3>1, FeedAssumption DEF TypeOK, Bars
  <2>7. CASE b < cursor[p]
    <3>1. Reading(p)
      BY <2>2 DEF StorePage, Reading
    <3>2. ~(b >= clock) /\ b + 1 # clock
      BY <2>1, <2>5, <2>6
    <3>3. Explained(s, b)
      BY <2>3, <2>7, <3>1, <3>2 DEF CursorInv
    <3> QED BY <2>4, <3>3, Growing DEF Explained
  <2>8. CASE b >= cursor[p]
    <3>1. b \in cursor[p] .. Max(DOMAIN got) /\ b < clock
      BY <2>1, <2>5, <2>6, <2>8
    <3>2. b \in Clean(got) => b \in Have(s)'
      BY <2>2, <2>3, RowsAfterPage
    <3>3. b \notin Clean(got) => b \in passed'[s]
      BY <2>2, <2>3, <3>1, StoredPage
    <3> QED BY <2>4, <3>2, <3>3
  <2> QED BY <2>1, <2>6, <2>7, <2>8
<1> QED BY <1>1, <1>2

-----------------------------------------------------------------------------
(***************************************************************************)
(* What a runner leaves to the others                                      *)
(***************************************************************************)
RunnerStep(p) == (\E what \in Jobs[p] : Begin(p, what)) \/ Run(p) \/ Stop(p)

Untouched(q) ==
  /\ pc'[q] = pc[q] /\ job'[q] = job[q] /\ listed'[q] = listed[q]
  /\ todo'[q] = todo[q] /\ cursor'[q] = cursor[q] /\ page'[q] = page[q]
  /\ moved'[q] = moved[q]

LEMMA RunnersApart ==
  ASSUME TypeOK, PageInv, NEW p \in Runners, RunnerStep(p), NEW q \in Runners, q # p
  PROVE  Untouched(q) /\ UNCHANGED exchangeVars
<1> USE DEF Untouched, TypeOK, PageInv, Goto
<1>1. ASSUME NEW what \in Jobs[p], Begin(p, what) PROVE Untouched(q) /\ UNCHANGED exchangeVars
  BY <1>1 DEF Begin
<1>2. CASE UpsertMarket(p)
  BY <1>2 DEF UpsertMarket
<1>3. CASE ListActive(p)
  BY <1>3 DEF ListActive
<1>4. CASE MarkDelisted(p)
  BY <1>4 DEF MarkDelisted
<1>5. CASE ChooseSymbols(p)
  BY <1>5 DEF ChooseSymbols
<1>6. CASE StartSymbol(p)
  BY <1>6 DEF StartSymbol
<1>7. CASE FetchPage(p)
  BY <1>7 DEF FetchPage, SymbolDone
<1>8. CASE StorePage(p)
  BY <1>8 DEF StorePage, SymbolDone
<1>9. CASE Finish(p) \/ Stop(p)
  BY <1>9 DEF Finish, Stop, Leave
<1> QED BY <1>1, <1>2, <1>3, <1>4, <1>5, <1>6, <1>7, <1>8, <1>9 DEF RunnerStep, Run

LEMMA NextSteps ==
  ASSUME [Next]_vars
  PROVE  \/ UNCHANGED vars
         \/ Tick
         \/ \E s \in Symbols : (\E b \in Bars : Correct(s, b)) \/ (\E l \in Listing : Relist(s, l))
         \/ \E p \in Runners : RunnerStep(p)
  BY DEF Next, RunnerStep

-----------------------------------------------------------------------------
(***************************************************************************)
(* Cursors                                                                 *)
(***************************************************************************)
\* What CursorInv says of one runner.
CursorOK(q) ==
  Reading(q) =>
    \A b \in Bars : b < cursor[q] =>
      \/ Explained(Min(todo[q]), b)
      \/ b >= clock
      \/ moved[q] /\ b + 1 = clock

\* What is explained stays so.
LEMMA ExplainedKept ==
  ASSUME TypeOK, PageInv, [Next]_vars, NEW s \in Symbols, NEW b, Explained(s, b)
  PROVE  Explained(s, b)'
  BY Growing DEF Explained

\* A runner that is not concerned, while the clock stands.
LEMMA CursorUntouched ==
  ASSUME TypeOK, PageInv, [Next]_vars, NEW q \in Runners, CursorOK(q), Untouched(q), clock' = clock
  PROVE  CursorOK(q)'
<1> SUFFICES ASSUME Reading(q)', NEW b \in Bars, b < cursor[q]
             PROVE  \/ Explained(Min(todo[q]), b)'
                    \/ b >= clock
                    \/ moved[q] /\ b + 1 = clock
  BY DEF CursorOK, Untouched
<1>1. Reading(q)
  BY DEF Reading, Untouched
<1>2. PICK s : s = Min(todo[q]) /\ s \in Symbols
  BY <1>1, CurrentSymbol DEF PageInv
<1>3. s = Min(todo[q])'
  BY <1>2 DEF Untouched
<1>4. Explained(s, b) \/ b >= clock \/ (moved[q] /\ b + 1 = clock)
  BY <1>1, <1>2 DEF CursorOK
<1>5. Explained(s, b) => Explained(s, b)'
  BY <1>2, ExplainedKept
<1>6. Explained(s, b)' => Explained(Min(todo[q]), b)'
  BY <1>3 DEF Explained
<1> QED BY <1>4, <1>5, <1>6

\* The bar that closes was open when the cursor went by, and none closed before.
LEMMA CursorTick ==
  ASSUME TypeOK, PageInv, [Next]_vars, NEW q \in Runners, CursorOK(q), Tick
  PROVE  CursorOK(q)'
<1>1. /\ Reading(q)' <=> Reading(q)
      /\ UNCHANGED <<todo, cursor>> /\ clock' = clock + 1
      /\ Reading(q) => ~moved[q] /\ moved'[q]
  BY DEF Tick, Reading, runnerVars
<1> SUFFICES ASSUME Reading(q), NEW b \in Bars, b < cursor[q]
             PROVE  Explained(Min(todo[q]), b)' \/ b >= clock + 1 \/ b = clock
  BY <1>1, FeedAssumption DEF CursorOK, TypeOK, Bars
<1>2. PICK s : s = Min(todo[q]) /\ s \in Symbols
  BY CurrentSymbol DEF PageInv
<1>3. Explained(s, b) \/ b >= clock
  BY <1>1, <1>2 DEF CursorOK
<1>4. Explained(s, b) => Explained(Min(todo[q]), b)'
  <2>1. s = Min(todo[q])'
    BY <1>1, <1>2
  <2>2. Explained(s, b) => Explained(s, b)'
    BY <1>2, ExplainedKept
  <2> QED BY <2>1, <2>2 DEF Explained
<1>5. b \in Nat /\ clock \in Nat
  BY FeedAssumption DEF TypeOK, Bars
<1> QED BY <1>3, <1>4, <1>5

\* A symbol is begun with nothing unexplained behind the cursor.
LEMMA CursorStarts ==
  ASSUME TypeOK, PageInv, HoleInv, [Next]_vars, NEW p \in Runners, StartSymbol(p)
  PROVE  CursorOK(p)'
<1>1. PICK s : s = Min(todo[p]) /\ s \in Symbols
  BY CurrentSymbol DEF StartSymbol
<1>2. /\ pc[p] = "symbols"
      /\ cursor' = [cursor EXCEPT ![p] = Since(p, s)]
      /\ passed' = [passed EXCEPT ![s] = @ \union
           (IF job[p] = "backfill" \/ Have(s) = {} THEN {b \in Bars : b < Oldest} ELSE {})]
      /\ UNCHANGED todo
  BY <1>1 DEF StartSymbol
<1>3. job[p] \in {"update", "backfill"}
  BY <1>2 DEF TypeOK, PageInv
<1>4. s = Min(todo[p])' /\ cursor'[p] = Since(p, s)
  BY <1>1, <1>2 DEF TypeOK
<1>5. SUFFICES ASSUME NEW b \in Bars, b < Since(p, s) PROVE Explained(s, b)'
  BY <1>4 DEF CursorOK, Explained
<1>6. CASE b < Oldest /\ (job[p] # "update" \/ Have(s) = {})
  BY <1>1, <1>2, <1>3, <1>6 DEF TypeOK, Explained
<1>7. CASE \E c \in Have(s) : b <= c
  <2>1. Explained(s, b)
    BY <1>1, <1>7 DEF HoleInv, Explained, Have, Bars
  <2> QED BY <1>1, <2>1, ExplainedKept
<1> QED BY <1>1, <1>5, <1>6, <1>7, SinceStarts

\* The page is behind the cursor now; all its bars are accounted for but one that is open.
LEMMA CursorAdvances ==
  ASSUME TypeOK, PageInv, [Next]_vars, NEW p \in Runners, CursorOK(p), StorePage(p)
  PROVE  CursorOK(p)'
<1>1. PICK s, got : s = Min(todo[p]) /\ got = page[p]
  OBVIOUS
<1>2. CASE pc'[p] = "symbols"
  BY <1>2 DEF CursorOK, Reading
<1>3. CASE cursor' = [cursor EXCEPT ![p] = Max(DOMAIN got) + 1] /\ UNCHANGED todo
  <2>1. s = Min(todo[p])' /\ cursor'[p] = Max(DOMAIN got) + 1 /\ s \in Symbols
    BY <1>1, <1>3, StoredPage DEF TypeOK
  <2>2. clock' = clock /\ moved' = moved /\ Reading(p)
    BY DEF StorePage, exchangeVars, Reading
  <2>3. Max(DOMAIN got) \in Nat /\ cursor[p] \in Nat /\ clock \in Nat
    <3>1. Max(DOMAIN got) \in Bars
      BY <1>1, StoredPage
    <3> QED BY <3>1, FeedAssumption DEF TypeOK, Bars
  <2>4. ASSUME NEW b \in Bars, b < Max(DOMAIN got) + 1
        PROVE  Explained(s, b)' \/ b >= clock \/ (moved[p] /\ b + 1 = clock)
    <3>1. b \in Nat
      BY FeedAssumption DEF Bars
    <3>2. CASE b < cursor[p]
      BY <1>1, <2>1, <2>2, <3>2, ExplainedKept DEF CursorOK
    <3>3. CASE b >= cursor[p] /\ b < clock
      <4>1. b \in cursor[p] .. Max(DOMAIN got)
        BY <2>3, <2>4, <3>1, <3>3
      <4>2. b \in Clean(got) => b \in Have(s)'
        BY <1>1, RowsAfterPage
      <4>3. b \notin Clean(got) => b \in passed'[s]
        BY <1>1, <3>3, <4>1, StoredPage
      <4> QED BY <4>2, <4>3 DEF Explained
    <3> QED BY <2>3, <3>1, <3>2, <3>3
  <2> QED BY <2>1, <2>2, <2>4 DEF CursorOK, Explained
<1> QED BY <1>1, <1>2, <1>3 DEF StorePage, SymbolDone, Goto, NextCursor, TypeOK

LEMMA CursorsKept ==
  ASSUME TypeOK, PageInv, HoleInv, CursorInv, [Next]_vars
  PROVE  CursorInv'
<1> SUFFICES ASSUME NEW q \in Runners PROVE CursorOK(q)'
  BY DEF CursorInv, CursorOK
<1>1. CursorOK(q)
  BY DEF CursorInv, CursorOK
<1>2. CASE UNCHANGED vars
  BY <1>1, <1>2, CursorUntouched DEF vars, exchangeVars, runnerVars, Untouched
<1>3. CASE Tick
  BY <1>1, <1>3, CursorTick
<1>4. ASSUME NEW s \in Symbols,
             (\E b \in Bars : Correct(s, b)) \/ (\E l \in Listing : Relist(s, l))
      PROVE  CursorOK(q)'
  <2>1. clock' = clock /\ Untouched(q)
    BY <1>4 DEF Correct, Relist, runnerVars, Untouched
  <2> QED BY <1>1, <2>1, CursorUntouched
<1>5. ASSUME NEW p \in Runners, RunnerStep(p), p # q
      PROVE  CursorOK(q)'
  <2>1. clock' = clock /\ Untouched(q)
    BY <1>5, RunnersApart DEF exchangeVars
  <2> QED BY <1>1, <2>1, CursorUntouched
<1>6. ASSUME RunnerStep(q) PROVE CursorOK(q)'
  <2>1. CASE StartSymbol(q)
    BY <2>1, CursorStarts
  <2>2. CASE StorePage(q)
    BY <1>1, <2>2, CursorAdvances
  <2>3. CASE FetchPage(q)
    <3>1. /\ UNCHANGED <<clock, moved, bars, passed>> /\ Reading(q)
          /\ Reading(q)' => UNCHANGED <<todo, cursor>>
      BY <2>3 DEF FetchPage, SymbolDone, Goto, Reading, TypeOK, exchangeVars, storeVars
    <3> QED BY <1>1, <3>1 DEF CursorOK, Explained, Have
  <2>4. CASE \/ \E what \in Jobs[q] : Begin(q, what)
             \/ UpsertMarket(q) \/ ListActive(q) \/ MarkDelisted(q) \/ ChooseSymbols(q)
             \/ Finish(q) \/ Stop(q)
    <3>1. ~Reading(q)'
      BY <2>4 DEF Begin, UpsertMarket, ListActive, MarkDelisted, ChooseSymbols, Finish, Stop,
                  Leave, Goto, Reading, TypeOK
    <3> QED BY <3>1 DEF CursorOK
  <2> QED BY <1>6, <2>1, <2>2, <2>3, <2>4 DEF RunnerStep, Run
<1> QED BY <1>2, <1>3, <1>4, <1>5, <1>6, NextSteps

-----------------------------------------------------------------------------
(***************************************************************************)
(* An update that nothing disturbs                                         *)
(***************************************************************************)
\* What the invariants say of the tables depends on the tables and the exchange alone.
LEMMA TablesUnchanged ==
  ASSUME UNCHANGED <<exchangeVars, storeVars>>
  PROVE  /\ \A s : Have(s)' = Have(s)
         /\ \A s, k : FetchOHLCV(s, k)' = FetchOHLCV(s, k)
         /\ \A W : RowsWritten(W) => RowsWritten(W)'
         /\ MarketsInStep => MarketsInStep'
         /\ Active' = Active
         /\ \A s, k : CaughtUpTo(s, k) => CaughtUpTo(s, k)'
         /\ \A s : CaughtUp(s) => CaughtUp(s)'
<1> USE DEF exchangeVars, storeVars
<1>1. \A s : Have(s)' = Have(s)
  BY DEF Have
<1>2. \A s, k : FetchOHLCV(s, k)' = FetchOHLCV(s, k)
  BY DEF FetchOHLCV, Offered
<1>3. \A W : RowsWritten(W) => RowsWritten(W)'
  BY DEF RowsWritten
<1>4. MarketsInStep => MarketsInStep'
  BY <1>3 DEF MarketsInStep
<1>5. Active' = Active
  BY DEF Active
<1>6. Oldest' = Oldest
  BY DEF Oldest
<1>7. \A s, k : CaughtUpTo(s, k) => CaughtUpTo(s, k)'
  BY <1>1, <1>6 DEF CaughtUpTo
<1>8. \A s : CaughtUp(s) => CaughtUp(s)'
  <2> TAKE s
  <2>1. PICK k : k = clock
    OBVIOUS
  <2> QED BY <1>7, <2>1 DEF CaughtUp
<1> QED BY <1>1, <1>2, <1>3, <1>4, <1>5, <1>7, <1>8

LEMMA UpdateUntouched ==
  ASSUME NEW q \in Runners, UpdateInv(q), Untouched(q), UNCHANGED <<exchangeVars, storeVars>>
  PROVE  UpdateInv(q)'
<1>1. PICK s, k, w : s = Min(todo[q]) /\ k = cursor[q] /\ w = Symbols \ todo[q]
  OBVIOUS
<1>2. s = Min(todo[q])' /\ k = cursor'[q] /\ w = Symbols \ todo'[q]
  BY <1>1 DEF Untouched
<1>3. listed'[q] = listing'
  BY DEF UpdateInv, Untouched, exchangeVars
<1>4. pc'[q] = "upsert" => RowsWritten(w)'
  BY <1>1, TablesUnchanged DEF UpdateInv, Untouched
<1>5. pc'[q] = "delist" =>
        /\ RowsWritten(Symbols)'
        /\ \A r \in todo'[q] : listing'[r] = "absent"
        /\ \A r \in Active' : listing'[r] = "absent" => r \in todo'[q]
  <2>1. RowsWritten(Symbols) => RowsWritten(Symbols)'
    BY TablesUnchanged
  <2>2. Active' = Active /\ listing' = listing
    BY TablesUnchanged DEF exchangeVars
  <2> QED BY <2>1, <2>2 DEF UpdateInv, Untouched
<1>6. pc'[q] \in {"symbols", "fetch", "store"} =>
        /\ MarketsInStep'
        /\ \A r \in w : listing'[r] = "trading" => CaughtUp(r)'
  BY <1>1, TablesUnchanged DEF UpdateInv, Untouched, exchangeVars
<1>7. Reading(q)' => CaughtUpTo(s, k)'
  BY <1>1, TablesUnchanged DEF UpdateInv, Untouched, Reading
<1>8. pc'[q] = "store" => page'[q] = FetchOHLCV(s, k)'
  BY <1>1, TablesUnchanged DEF UpdateInv, Untouched
<1> QED BY <1>2, <1>3, <1>4, <1>5, <1>6, <1>7, <1>8 DEF UpdateInv

\* Another runner's step leaves the tables alone, or ends the quiet.
LEMMA QuietOrDisturbed ==
  ASSUME TypeOK, NEW p \in Runners, RunnerStep(p), NEW q \in Runners, q # p, quiet'[q]
  PROVE  quiet[q] /\ UNCHANGED storeVars
<1>1. CASE Wrote(p)
  BY <1>1 DEF Wrote
<1>2. ASSUME NEW what \in Jobs[p], Begin(p, what) PROVE quiet[q] /\ UNCHANGED storeVars
  BY <1>2 DEF Begin, TypeOK
<1>3. CASE ListActive(p) \/ ChooseSymbols(p) \/ StartSymbol(p) \/ FetchPage(p) \/ Finish(p) \/ Stop(p)
  BY <1>3 DEF ListActive, ChooseSymbols, StartSymbol, FetchPage, Finish, Stop
<1>4. UpsertMarket(p) \/ MarkDelisted(p) \/ StorePage(p) => Wrote(p)
  BY DEF UpsertMarket, MarkDelisted, StorePage
<1> QED BY <1>1, <1>2, <1>3, <1>4 DEF RunnerStep, Run

LEMMA CaughtUpWhole ==
  ASSUME TypeOK, NEW s \in Symbols, NEW k \in Nat, CaughtUpTo(s, k),
         \A b \in k .. clock : b < clock => offered[s][b] \notin {"v1", "v2"}
  PROVE  CaughtUp(s)
<1> SUFFICES ASSUME NEW b \in Bars, b < clock, offered[s][b] \in {"v1", "v2"}, ~(b < k)
             PROVE  FALSE
  BY DEF CaughtUp, CaughtUpTo
<1> QED BY FeedAssumption DEF TypeOK, Bars

QuietOK(q) == quiet[q] /\ job[q] = "update" => UpdateInv(q)

\* SyncMarkets writes a row for every listed symbol, marks the active ones that are gone,
\* and leaves the update with the symbols that trade.
LEMMA QuietBegins ==
  ASSUME TypeOK, NEW p \in Runners, NEW what \in Jobs[p], Begin(p, what)
  PROVE  QuietOK(p)'
<1>1. /\ pc'[p] = "upsert" /\ listed'[p] = listing /\ UNCHANGED listing
      /\ todo'[p] = {s \in Symbols : listing[s] # "absent"}
  BY DEF TypeOK, Begin, Goto, FetchMarkets, exchangeVars
<1>2. RowsWritten(Symbols \ todo[p])'
  BY <1>1 DEF RowsWritten
<1> QED BY <1>1, <1>2 DEF QuietOK, UpdateInv, Reading

LEMMA QuietUpserts ==
  ASSUME TypeOK, NEW p \in Runners, UpdateInv(p), UpsertMarket(p)
  PROVE  UpdateInv(p)'
<1>1. PICK s \in todo[p] : /\ market' = [market EXCEPT ![s] = Row(listed[p][s])]
                          /\ todo' = [todo EXCEPT ![p] = @ \ {s}]
  BY DEF UpsertMarket, UpsertMarketRow, Row
<1>2. pc[p] = "upsert" /\ UNCHANGED <<pc, listed, listing>> /\ listed[p] = listing
  BY DEF UpsertMarket, UpdateInv, exchangeVars
<1>3. s \in Symbols /\ todo[p] \in SUBSET Symbols
  BY DEF TypeOK
<1>4. todo'[p] = todo[p] \ {s}
  BY <1>1 DEF TypeOK
<1>5. RowsWritten(Symbols \ todo[p])
  BY <1>2 DEF UpdateInv
<1>6. RowsWritten(Symbols \ todo[p])'
  BY <1>1, <1>2, <1>3, <1>4, <1>5 DEF RowsWritten, TypeOK
<1> QED BY <1>2, <1>6 DEF UpdateInv, Reading

LEMMA QuietListsActive ==
  ASSUME TypeOK, NEW p \in Runners, UpdateInv(p), ListActive(p)
  PROVE  UpdateInv(p)'
<1>1. /\ pc[p] = "upsert" /\ pc'[p] = "delist" /\ todo[p] = {}
      /\ todo'[p] = {s \in Active : listing[s] = "absent"}
      /\ UNCHANGED <<exchangeVars, storeVars, listed>> /\ listed[p] = listing
  BY DEF ListActive, ToDelist, Goto, TypeOK, UpdateInv
<1>2. RowsWritten(Symbols)
  BY <1>1 DEF UpdateInv
<1>3. RowsWritten(Symbols)' /\ Active' = Active
  BY <1>1, <1>2, TablesUnchanged
<1> QED BY <1>1, <1>3 DEF UpdateInv, Reading, exchangeVars

LEMMA QuietDelists ==
  ASSUME TypeOK, NEW p \in Runners, UpdateInv(p), MarkDelisted(p)
  PROVE  UpdateInv(p)'
<1>1. PICK s \in todo[p] : /\ market' = [market EXCEPT ![s] = "delisted"]
                          /\ todo' = [todo EXCEPT ![p] = @ \ {s}]
  BY DEF MarkDelisted, DelistMarketRow
<1>2. pc[p] = "delist" /\ UNCHANGED <<pc, listed, listing>> /\ listed[p] = listing
  BY DEF MarkDelisted, UpdateInv, exchangeVars
<1>3. s \in Symbols /\ todo'[p] = todo[p] \ {s} /\ listing[s] = "absent"
  BY <1>1, <1>2 DEF TypeOK, UpdateInv
<1>4. \A r \in Symbols : market'[r] = IF r = s THEN "delisted" ELSE market[r]
  BY <1>1 DEF TypeOK
<1>5. RowsWritten(Symbols)'
  BY <1>2, <1>3, <1>4 DEF RowsWritten, UpdateInv
<1>6. \A r \in Active' : listing'[r] = "absent" => r \in todo'[p]
  BY <1>2, <1>3, <1>4 DEF Active, UpdateInv
<1> QED BY <1>2, <1>3, <1>5, <1>6 DEF UpdateInv, Reading

LEMMA QuietChooses ==
  ASSUME TypeOK, NEW p \in Runners, UpdateInv(p), job[p] = "update", ChooseSymbols(p)
  PROVE  UpdateInv(p)'
<1>1. /\ pc[p] = "delist" /\ pc'[p] = "symbols" /\ todo[p] = {}
      /\ todo'[p] = Active
      /\ UNCHANGED <<exchangeVars, storeVars, listed>> /\ listed[p] = listing
  BY DEF ChooseSymbols, Goto, TypeOK, UpdateInv
<1>2. MarketsInStep
  BY <1>1 DEF UpdateInv, MarketsInStep, Active
<1>3. MarketsInStep'
  BY <1>1, <1>2, TablesUnchanged
<1>4. \A s \in Symbols \ Active : listing[s] # "trading"
  BY <1>2 DEF MarketsInStep, RowsWritten, Row, Active
<1> QED BY <1>1, <1>3, <1>4 DEF UpdateInv, Reading, exchangeVars

\* Behind the first cursor are only bars that an update is not asked to read again.
LEMMA QuietStarts ==
  ASSUME TypeOK, NEW p \in Runners, UpdateInv(p), job[p] = "update", StartSymbol(p)
  PROVE  UpdateInv(p)'
<1>1. PICK s, k : s = Min(todo[p]) /\ s \in Symbols /\ k = Since(p, s)
  BY CurrentSymbol DEF StartSymbol
<1>2. /\ pc[p] = "symbols" /\ pc'[p] = "fetch" /\ cursor'[p] = k
      /\ UNCHANGED <<exchangeVars, storeVars, listed, todo>>
  BY <1>1 DEF StartSymbol, Goto, TypeOK
<1>3. k \in Nat /\ Oldest \in Nat
  BY <1>1, SinceStarts, OldestIsPast
<1>4. CaughtUpTo(s, k)
  <2> SUFFICES ASSUME NEW b \in Bars, b < k, \A a \in Have(s) : b + Rewind > a, b >= Oldest
               PROVE  FALSE
    BY DEF CaughtUpTo
  <2>1. b \in Nat /\ Rewind \in Nat /\ \A a \in Have(s) : a \in Nat
    BY FeedAssumption DEF Bars, Have
  <2>2. CASE Have(s) = {}
    <3>1. k = Oldest
      BY <1>1, <2>2, SinceStarts
    <3> QED BY <1>3, <2>1, <3>1
  <2>3. CASE Have(s) # {}
    <3>1. \E a \in Have(s) : b + Rewind <= a
      BY <1>1, <2>3, SinceStarts
    <3> QED BY <2>1, <3>1
  <2> QED BY <2>2, <2>3
<1>5. CaughtUpTo(s, k)' /\ MarketsInStep' /\ listed'[p] = listing'
  BY <1>2, <1>4, TablesUnchanged DEF UpdateInv, exchangeVars
<1>6. \A r \in Symbols \ todo[p] : listing[r] = "trading" => CaughtUp(r)'
  BY <1>2, TablesUnchanged DEF UpdateInv
<1>7. s = Min(todo[p])' /\ k = cursor'[p]
  BY <1>1, <1>2
<1> QED BY <1>2, <1>5, <1>6, <1>7 DEF UpdateInv, Reading, exchangeVars

\* A symbol is done when the cursor is past the clock or nothing is on offer any more.
LEMMA QuietFetches ==
  ASSUME TypeOK, PageInv, NEW p \in Runners, UpdateInv(p), FetchPage(p)
  PROVE  UpdateInv(p)'
<1>1. PICK s, k, got : s = Min(todo[p]) /\ k = cursor[p] /\ got = FetchOHLCV(s, k)
  OBVIOUS
<1>2. /\ pc[p] = "fetch" /\ listed[p] = listing
      /\ UNCHANGED <<exchangeVars, storeVars, listed>>
  BY DEF FetchPage, UpdateInv
<1>3. s \in Symbols /\ s \in todo[p] /\ k \in Nat
  BY <1>1, <1>2, CurrentSymbol DEF PageInv, Reading, TypeOK
<1>4. MarketsInStep' /\ listed'[p] = listing'
  BY <1>2, TablesUnchanged DEF UpdateInv, exchangeVars
<1>5. CaughtUpTo(s, k)
  BY <1>1, <1>2 DEF UpdateInv, Reading
<1>6. \A r \in Symbols \ todo[p] : listing[r] = "trading" => CaughtUp(r)
  BY <1>2 DEF UpdateInv
<1>7. CASE SymbolDone(p) /\ (k > clock \/ DOMAIN got = {})
  <2>1. pc'[p] = "symbols" /\ todo'[p] = todo[p] \ {s}
    BY <1>1, <1>7 DEF SymbolDone, Goto, TypeOK
  <2>2. \A b \in k .. clock : b < clock => offered[s][b] \notin {"v1", "v2"}
    <3>1. CASE k > clock
      BY <1>3, <3>1, FeedAssumption DEF TypeOK, Bars
    <3>2. CASE DOMAIN got = {}
      <4>1. \A b \in k .. clock : Offered(s, b) = "none"
        BY <1>1, <1>3, <3>2, PageOfOffers
      <4> QED BY <1>3, <4>1, FeedAssumption DEF Offered, TypeOK, Bars
    <3> QED BY <1>7, <3>1, <3>2
  <2>3. CaughtUp(s)
    BY <1>3, <1>5, <2>2, CaughtUpWhole
  <2>4. \A r \in Symbols \ todo'[p] : listing'[r] = "trading" => CaughtUp(r)'
    BY <1>2, <1>6, <2>1, <2>3, TablesUnchanged DEF exchangeVars
  <2> QED BY <1>4, <2>1, <2>4 DEF UpdateInv, Reading
<1>8. CASE page' = [page EXCEPT ![p] = got] /\ Goto(p, "store") /\ UNCHANGED <<todo, cursor>>
  <2>1. pc'[p] = "store" /\ page'[p] = got
    BY <1>8 DEF Goto, TypeOK, PageInv
  <2>2. s = Min(todo[p])' /\ k = cursor'[p]
    BY <1>1, <1>8
  <2>3. got = FetchOHLCV(s, k)'
    BY <1>1, <1>2, TablesUnchanged
  <2>4. CaughtUpTo(s, k)'
    BY <1>2, <1>5, TablesUnchanged
  <2>5. \A r \in Symbols \ todo'[p] : listing'[r] = "trading" => CaughtUp(r)'
    BY <1>2, <1>6, <1>8, TablesUnchanged DEF exchangeVars
  <2> QED BY <1>4, <2>1, <2>2, <2>3, <2>4, <2>5 DEF UpdateInv, Reading
<1> QED BY <1>1, <1>7, <1>8 DEF FetchPage

\* A page brings the symbol up to its last bar, and up to the clock when it is not full.
LEMMA PageCatchesUp ==
  ASSUME TypeOK, PageInv, NEW p \in Runners, StorePage(p),
         NEW s, s = Min(todo[p]), NEW got, got = page[p], NEW k \in Nat
  PROVE  /\ got = FetchOHLCV(s, cursor[p]) /\ CaughtUpTo(s, cursor[p])
         /\ k <= Max(DOMAIN got) + 1 \/ IsShort(got)
         => CaughtUpTo(s, k)'
<1>0. \A x \in Bars : bars'[s][x] = IF x \in Clean(got) THEN got[x] ELSE bars[s][x]
  BY StoredPage
<1> SUFFICES ASSUME got = FetchOHLCV(s, cursor[p]), CaughtUpTo(s, cursor[p]),
                    k <= Max(DOMAIN got) + 1 \/ IsShort(got)
             PROVE  CaughtUpTo(s, k)'
  OBVIOUS
<1>1. clock' = clock /\ Oldest' = Oldest /\ offered' = offered
  BY DEF StorePage, exchangeVars, Oldest
<1>2. Have(s) \subseteq Have(s)'
  BY RowsAfterPage
<1>3. SUFFICES ASSUME NEW b \in Bars, b < k, b < clock, \A a \in Have(s) : b + Rewind > a,
                      b >= Oldest, offered[s][b] \in {"v1", "v2"}
               PROVE  bars'[s][b] = offered[s][b]
  BY <1>1, <1>2 DEF CaughtUpTo
<1>4. s \in Symbols /\ cursor[p] \in Nat /\ b \in Nat /\ clock \in Nat
  <2>1. s \in Symbols
    BY StoredPage, Zenon
  <2> QED BY <2>1, FeedAssumption DEF TypeOK, Bars
<1>5. bars'[s][b] = IF b \in Clean(got) THEN got[b] ELSE bars[s][b]
  BY <1>0
<1>6. CASE b < cursor[p]
  <2>1. bars[s][b] = offered[s][b]
    BY <1>3, <1>6 DEF CaughtUpTo
  <2>2. DOMAIN got \subseteq cursor[p] .. clock
    BY StoredPage
  <2>3. b \notin Clean(got)
    BY <1>4, <1>6, <2>2 DEF Clean
  <2> QED BY <1>5, <2>1, <2>3
<1>7. CASE b >= cursor[p]
  <2>1. Offered(s, b) # "none"
    BY <1>3, <1>4 DEF Offered
  <2>2. b \in DOMAIN got
    <3>1. CASE IsShort(got)
      <4>1. b \in cursor[p] .. clock
        BY <1>3, <1>4, <1>7
      <4> QED BY <1>4, <2>1, <3>1, <4>1, PageOfOffers
    <3>2. CASE k <= Max(DOMAIN got) + 1
      <4>1. Max(DOMAIN got) \in DOMAIN got /\ DOMAIN got \subseteq Bars
        BY StoredPage
      <4>2. Max(DOMAIN got) \in Nat
        BY <4>1, FeedAssumption DEF Bars
      <4>3. b \in cursor[p] .. Max(DOMAIN got)
        BY <1>3, <1>4, <1>7, <3>2, <4>2
      <4> QED BY <1>4, <2>1, <4>1, <4>3, PageOfOffers
    <3> QED BY <3>1, <3>2
  <2>3. got[b] = offered[s][b]
    BY <1>3, <1>4, <2>2, PageOfOffers
  <2>4. b \in Clean(got)
    BY <1>3, <2>2, <2>3 DEF Clean, IsClosed
  <2> QED BY <1>5, <2>3, <2>4
<1> QED BY <1>4, <1>6, <1>7

LEMMA QuietStores ==
  ASSUME TypeOK, PageInv, NEW p \in Runners, UpdateInv(p), StorePage(p)
  PROVE  UpdateInv(p)'
<1>1. PICK s, got : s = Min(todo[p]) /\ got = page[p]
  OBVIOUS
<1>2. pc[p] = "store" /\ UNCHANGED <<exchangeVars, market, listed>>
  BY DEF StorePage
<1>3. s \in Symbols /\ s \in todo[p] /\ Max(DOMAIN got) \in DOMAIN got /\ DOMAIN got \subseteq Bars
  BY <1>1, StoredPage
<1>4. MarketsInStep' /\ listed'[p] = listing'
  <2>1. MarketsInStep /\ listed[p] = listing
    BY <1>2 DEF UpdateInv
  <2>2. UNCHANGED <<listing, market, listed>>
    BY <1>2 DEF exchangeVars
  <2> QED BY <2>1, <2>2 DEF MarketsInStep, RowsWritten
<1>5. CaughtUpTo(s, cursor[p]) /\ got = FetchOHLCV(s, cursor[p])
  BY <1>1, <1>2 DEF UpdateInv, Reading
<1>6. \A r \in Symbols \ todo[p] : listing'[r] = "trading" => CaughtUp(r)'
  <2> SUFFICES ASSUME NEW r \in Symbols \ todo[p], listing[r] = "trading" PROVE CaughtUp(r)'
    BY <1>2 DEF exchangeVars
  <2>1. CaughtUp(r)
    BY <1>2 DEF UpdateInv
  <2>2. Have(r)' = Have(r) /\ bars'[r] = bars[r]
    BY <1>1, <1>3, RowsAfterPage, StoredPage
  <2>3. clock' = clock /\ offered' = offered /\ Oldest' = Oldest
    BY <1>2 DEF exchangeVars, Oldest
  <2> QED BY <2>1, <2>2, <2>3 DEF CaughtUp, CaughtUpTo
<1>7. CASE IsShort(got) /\ SymbolDone(p)
  <2>1. pc'[p] = "symbols" /\ todo'[p] = todo[p] \ {s}
    BY <1>1, <1>7 DEF SymbolDone, Goto, TypeOK
  <2>2. PICK k \in Nat : k = clock
    BY FeedAssumption DEF TypeOK, Bars
  <2>3. CaughtUpTo(s, k)'
    BY <1>1, <1>5, <1>7, PageCatchesUp
  <2>4. CaughtUp(s)'
    BY <1>2, <2>2, <2>3 DEF CaughtUp, exchangeVars
  <2> QED BY <1>4, <1>6, <2>1, <2>4 DEF UpdateInv, Reading
<1>8. CASE cursor' = [cursor EXCEPT ![p] = Max(DOMAIN got) + 1] /\ Goto(p, "fetch") /\ UNCHANGED todo
  <2>1. PICK k \in Nat : k = Max(DOMAIN got) + 1
    BY <1>3, FeedAssumption DEF Bars
  <2>2. pc'[p] = "fetch" /\ cursor'[p] = k /\ s = Min(todo[p])'
    BY <1>1, <1>8, <2>1 DEF Goto, TypeOK
  <2>3. CaughtUpTo(s, k)'
    <3>1. k <= Max(DOMAIN got) + 1
      BY <2>1
    <3> QED BY <1>1, <1>5, <3>1, PageCatchesUp
  <2> QED BY <1>4, <1>6, <1>8, <2>2, <2>3 DEF UpdateInv, Reading
<1> QED BY <1>1, <1>7, <1>8 DEF StorePage, NextCursor

LEMMA QuietKept ==
  ASSUME TypeOK, PageInv, QuietInv, [Next]_vars
  PROVE  QuietInv'
<1> SUFFICES ASSUME NEW q \in Runners PROVE QuietOK(q)'
  BY DEF QuietInv, QuietOK
<1>1. QuietOK(q)
  BY DEF QuietInv, QuietOK
<1>2. CASE UNCHANGED vars
  <2>1. UNCHANGED <<exchangeVars, storeVars>> /\ Untouched(q) /\ UNCHANGED <<quiet, job>>
    BY <1>2 DEF vars, runnerVars, Untouched
  <2> QED BY <1>1, <2>1, UpdateUntouched DEF QuietOK
<1>3. ASSUME Tick \/ \E s \in Symbols : \/ \E b \in Bars : Correct(s, b)
                                      \/ \E l \in Listing : Relist(s, l)
      PROVE  QuietOK(q)'
  <2>1. Disturbed
    BY <1>3 DEF Tick, Correct, Relist
  <2>2. quiet'[q] = FALSE
    BY <2>1, Zenon DEF Disturbed
  <2> QED BY <2>2 DEF QuietOK
<1>4. ASSUME NEW p \in Runners, RunnerStep(p), p # q
      PROVE  QuietOK(q)'
  <2>1. Untouched(q) /\ UNCHANGED exchangeVars
    BY <1>4, RunnersApart
  <2>2. quiet'[q] => quiet[q] /\ UNCHANGED storeVars
    BY <1>4, QuietOrDisturbed
  <2>3. job'[q] = job[q]
    BY <2>1 DEF Untouched
  <2> QED BY <1>1, <2>1, <2>2, <2>3, UpdateUntouched DEF QuietOK
<1>5. ASSUME RunnerStep(q) PROVE QuietOK(q)'
  <2>1. ASSUME NEW what \in Jobs[q], Begin(q, what) PROVE QuietOK(q)'
    BY <2>1, QuietBegins
  <2>2. CASE Finish(q) \/ Stop(q)
    <3>1. job'[q] = "none"
      BY <2>2 DEF Finish, Stop, Leave, TypeOK
    <3> QED BY <3>1 DEF QuietOK
  <2>3. CASE Run(q) /\ ~Finish(q)
    <3>1. quiet'[q] => quiet[q]
      BY <2>3 DEF Run, UpsertMarket, ListActive, MarkDelisted, ChooseSymbols, StartSymbol, FetchPage,
                  StorePage, Wrote, TypeOK
    <3>2. UNCHANGED job
      BY <2>3 DEF Run, UpsertMarket, ListActive, MarkDelisted, ChooseSymbols, StartSymbol, FetchPage,
                  StorePage
    <3>3. UpdateInv(q) /\ job[q] = "update" => UpdateInv(q)'
      BY <2>3, QuietUpserts, QuietListsActive, QuietDelists, QuietChooses, QuietStarts, QuietFetches,
         QuietStores DEF Run
    <3> QED BY <1>1, <3>1, <3>2, <3>3 DEF QuietOK
  <2> QED BY <1>5, <2>1, <2>2, <2>3 DEF RunnerStep
<1> QED BY <1>2, <1>3, <1>4, <1>5, NextSteps

-----------------------------------------------------------------------------
(***************************************************************************)
(* An update that is run again                                             *)
(***************************************************************************)
\* What FreshInv says of one runner.
FreshOK(q) == job[q] # "backfill" /\ (job[q] = "update" => RepeatInv(q))

LEMMA ActiveTrades ==
  ASSUME TypeOK, MarketsInStep, NEW s \in Symbols
  PROVE  s \in Active <=> listing[s] = "trading"
  BY DEF TypeOK, MarketsInStep, RowsWritten, Row, Active, Listing

LEMMA RepeatUntouched ==
  ASSUME NEW q \in Runners, RepeatInv(q), Untouched(q), UNCHANGED <<exchangeVars, storeVars>>
  PROVE  RepeatInv(q)'
<1>1. PICK s : s = Min(todo[q])
  OBVIOUS
<1>2. s = Min(todo[q])' /\ Have(s)' = Have(s) /\ Active' = Active
  BY <1>1, TablesUnchanged DEF Untouched
<1>3. UNCHANGED <<clock, listing, offered>>
  BY DEF exchangeVars
<1>4. Reading(q)' => \A b \in Bars : b >= cursor'[q] => \A a \in Have(s)' : b + Rewind > a
  BY <1>1, <1>2 DEF RepeatInv, Untouched, Reading
<1>5. pc'[q] = "store" => \A b \in DOMAIN page'[q] : b < clock' => page'[q][b] = offered'[s][b]
  BY <1>1, <1>3 DEF RepeatInv, Untouched
<1>6. /\ listed'[q] = listing'
      /\ pc'[q] = "upsert" => \A r \in todo'[q] : listing'[r] # "absent"
      /\ pc'[q] = "delist" => todo'[q] = {}
      /\ pc'[q] \in {"symbols", "fetch", "store"} => todo'[q] \subseteq Active'
  BY <1>2, <1>3 DEF RepeatInv, Untouched
<1> QED BY <1>2, <1>4, <1>5, <1>6 DEF RepeatInv

\* Whatever step keeps the quiet keeps the tables, too.
LEMMA FreshSteps ==
  ASSUME TypeOK, NEW p \in Runners, RunnerStep(p), fresh'
  PROVE  /\ UNCHANGED storeVars
         /\ fresh \/ (Finish(p) /\ job[p] = "update" /\ quiet[p] /\ Alone(p))
<1>1. CASE Wrote(p)
  BY <1>1 DEF Wrote
<1>2. ASSUME NEW what \in Jobs[p], Begin(p, what) PROVE UNCHANGED storeVars /\ fresh
  BY <1>2 DEF Begin
<1>3. CASE ListActive(p) \/ ChooseSymbols(p) \/ StartSymbol(p) \/ FetchPage(p) \/ Stop(p)
  BY <1>3 DEF ListActive, ChooseSymbols, StartSymbol, FetchPage, Stop
<1>4. CASE Finish(p)
  BY <1>4 DEF Finish
<1>5. UpsertMarket(p) \/ MarkDelisted(p) \/ StorePage(p) => Wrote(p)
  BY DEF UpsertMarket, MarkDelisted, StorePage
<1> QED BY <1>1, <1>2, <1>3, <1>4, <1>5 DEF RunnerStep, Run

\* The symbols of an update that is run again, and where it starts each of them.
LEMMA RepeatSyncs ==
  ASSUME TypeOK, MarketsInStep, NEW p \in Runners, RepeatInv(p), UNCHANGED storeVars,
         job[p] = "update",
         UpsertMarket(p) \/ ListActive(p) \/ MarkDelisted(p) \/ ChooseSymbols(p)
  PROVE  RepeatInv(p)'
<1>1. UNCHANGED <<exchangeVars, listed>> /\ listed[p] = listing
  BY DEF UpsertMarket, ListActive, MarkDelisted, ChooseSymbols, RepeatInv
<1>2. Active' = Active
  BY <1>1, TablesUnchanged
<1>3. CASE UpsertMarket(p)
  <2>1. pc[p] = "upsert" /\ pc' = pc /\ todo'[p] \subseteq todo[p]
    BY <1>3 DEF UpsertMarket, TypeOK
  <2> QED BY <1>1, <2>1 DEF RepeatInv, Reading, exchangeVars
<1>4. CASE ListActive(p)
  <2>1. pc'[p] = "delist" /\ todo'[p] = {s \in Active : listing[s] = "absent"}
    BY <1>1, <1>4 DEF ListActive, ToDelist, Goto, TypeOK
  <2>2. todo'[p] = {}
    BY <2>1 DEF MarketsInStep, Active
  <2> QED BY <1>1, <2>1, <2>2 DEF RepeatInv, Reading, exchangeVars
<1>5. CASE MarkDelisted(p)
  BY <1>5 DEF MarkDelisted, RepeatInv
<1>6. CASE ChooseSymbols(p)
  <2>1. pc'[p] = "symbols" /\ todo'[p] = Active
    BY <1>6 DEF ChooseSymbols, Goto, TypeOK
  <2> QED BY <1>1, <1>2, <2>1 DEF RepeatInv, Reading, exchangeVars
<1> QED BY <1>3, <1>4, <1>5, <1>6

LEMMA RepeatStarts ==
  ASSUME TypeOK, NEW p \in Runners, RepeatInv(p), job[p] = "update", StartSymbol(p)
  PROVE  RepeatInv(p)'
<1>1. PICK s, k : s = Min(todo[p]) /\ s \in Symbols /\ k = Since(p, s)
  BY CurrentSymbol DEF StartSymbol
<1>2. /\ pc[p] = "symbols" /\ pc'[p] = "fetch" /\ cursor'[p] = k
      /\ UNCHANGED <<exchangeVars, storeVars, listed, todo>>
  BY <1>1 DEF StartSymbol, Goto, TypeOK
<1>3. \A b \in Bars : b >= k => \A a \in Have(s) : b + Rewind > a
  BY <1>1, SinceStarts
<1>4. s = Min(todo[p])' /\ Have(s)' = Have(s) /\ Active' = Active
  BY <1>1, <1>2, TablesUnchanged
<1> QED BY <1>2, <1>3, <1>4 DEF RepeatInv, Reading, exchangeVars

LEMMA RepeatFetches ==
  ASSUME TypeOK, PageInv, NEW p \in Runners, RepeatInv(p), FetchPage(p)
  PROVE  RepeatInv(p)'
<1>1. PICK s, k, got : s = Min(todo[p]) /\ k = cursor[p] /\ got = FetchOHLCV(s, k)
  OBVIOUS
<1>2. pc[p] = "fetch" /\ UNCHANGED <<exchangeVars, storeVars, listed>>
  BY DEF FetchPage
<1>3. s \in Symbols /\ k \in Nat
  BY <1>1, <1>2, CurrentSymbol DEF PageInv, Reading, TypeOK
<1>4. Have(s)' = Have(s) /\ Active' = Active
  BY <1>2, TablesUnchanged
<1>5. CASE SymbolDone(p)
  <2>1. pc'[p] = "symbols" /\ todo'[p] \subseteq todo[p]
    BY <1>5 DEF SymbolDone, Goto, TypeOK
  <2> QED BY <1>2, <1>4, <2>1 DEF RepeatInv, Reading, exchangeVars
<1>6. CASE page' = [page EXCEPT ![p] = got] /\ Goto(p, "store") /\ UNCHANGED <<todo, cursor>>
  <2>1. pc'[p] = "store" /\ page'[p] = got /\ s = Min(todo[p])'
    BY <1>1, <1>6 DEF Goto, TypeOK, PageInv
  <2>2. \A b \in DOMAIN got : b < clock => got[b] = offered[s][b]
    BY <1>1, <1>3, PageOfOffers
  <2>3. \A b \in Bars : b >= k => \A a \in Have(s) : b + Rewind > a
    BY <1>1, <1>2 DEF RepeatInv, Reading
  <2> QED BY <1>1, <1>2, <1>4, <1>6, <2>1, <2>2, <2>3 DEF RepeatInv, Reading, exchangeVars
<1> QED BY <1>1, <1>5, <1>6 DEF FetchPage

LEMMA RepeatStores ==
  ASSUME TypeOK, PageInv, NEW p \in Runners, RepeatInv(p), UNCHANGED storeVars, StorePage(p)
  PROVE  RepeatInv(p)'
<1>1. PICK s, got : s = Min(todo[p]) /\ got = page[p]
  OBVIOUS
<1>2. pc[p] = "store" /\ UNCHANGED <<exchangeVars, listed>>
  BY DEF StorePage
<1>3. Have(s)' = Have(s) /\ Active' = Active
  BY <1>2, TablesUnchanged
<1>4. CASE SymbolDone(p)
  <2>1. pc'[p] = "symbols" /\ todo'[p] \subseteq todo[p]
    BY <1>4 DEF SymbolDone, Goto, TypeOK
  <2> QED BY <1>2, <1>3, <2>1 DEF RepeatInv, Reading, exchangeVars
<1>5. CASE cursor' = [cursor EXCEPT ![p] = Max(DOMAIN got) + 1] /\ Goto(p, "fetch") /\ UNCHANGED todo
  <2>1. pc'[p] = "fetch" /\ cursor'[p] = Max(DOMAIN got) + 1 /\ s = Min(todo[p])'
    BY <1>1, <1>5 DEF Goto, TypeOK
  <2>2. Max(DOMAIN got) \in DOMAIN got /\ DOMAIN got \subseteq cursor[p] .. clock
    BY <1>1, StoredPage
  <2>3. cursor[p] \in Nat /\ Max(DOMAIN got) >= cursor[p] /\ Max(DOMAIN got) \in Nat
    BY <2>2, FeedAssumption DEF TypeOK, Bars
  <2>4. \A b \in Bars : b >= cursor[p] => \A a \in Have(s) : b + Rewind > a
    BY <1>1, <1>2 DEF RepeatInv, Reading
  <2>5. \A b \in Bars : b >= Max(DOMAIN got) + 1 => \A a \in Have(s) : b + Rewind > a
    BY <2>3, <2>4, FeedAssumption DEF Bars
  <2> QED BY <1>2, <1>3, <1>5, <2>1, <2>5 DEF RepeatInv, Reading, exchangeVars
<1> QED BY <1>1, <1>4, <1>5 DEF StorePage, NextCursor

\* The update that ends without a disturbance leaves everything in step.
LEMMA FreshAtLast ==
  ASSUME TypeOK, PageInv, QuietInv, NEW p \in Runners, Finish(p),
         job[p] = "update", quiet[p], Alone(p)
  PROVE  FreshInv'
<1>1. pc[p] = "symbols" /\ todo[p] = {} /\ UNCHANGED <<exchangeVars, storeVars>>
  BY DEF Finish
<1>2. MarketsInStep /\ \A s \in Symbols : listing[s] = "trading" => CaughtUp(s)
  BY <1>1 DEF QuietInv, UpdateInv
<1>3. MarketsInStep' /\ \A s \in Symbols : listing'[s] = "trading" => CaughtUp(s)'
  BY <1>1, <1>2, TablesUnchanged DEF exchangeVars
<1>4. \A q \in Runners : job'[q] = "none"
  BY DEF Finish, Leave, Alone, TypeOK, PageInv
<1> QED BY <1>3, <1>4 DEF FreshInv

LEMMA FreshKept ==
  ASSUME TypeOK, PageInv, QuietInv, FreshInv, [Next]_vars
  PROVE  FreshInv'
<1>1. CASE UNCHANGED vars
  <2>1. UNCHANGED <<exchangeVars, storeVars>> /\ UNCHANGED <<fresh, job>>
    BY <1>1 DEF vars, runnerVars
  <2>2. \A q \in Runners : Untouched(q)
    BY <1>1 DEF vars, runnerVars, Untouched
  <2>3. MarketsInStep => MarketsInStep'
    BY <2>1, TablesUnchanged
  <2>4. \A s : CaughtUp(s) => CaughtUp(s)'
    BY <2>1, TablesUnchanged
  <2>5. \A q \in Runners : RepeatInv(q) => RepeatInv(q)'
    BY <2>1, <2>2, RepeatUntouched
  <2> QED BY <2>1, <2>3, <2>4, <2>5 DEF FreshInv, exchangeVars
<1>2. ASSUME Tick \/ \E s \in Symbols : \/ \E b \in Bars : Correct(s, b)
                                      \/ \E l \in Listing : Relist(s, l)
      PROVE  FreshInv'
  <2>1. Disturbed
    BY <1>2 DEF Tick, Correct, Relist
  <2>2. fresh' = FALSE
    BY <2>1, Zenon DEF Disturbed
  <2> QED BY <2>2 DEF FreshInv
<1>3. ASSUME NEW p \in Runners, RunnerStep(p), fresh' PROVE FreshInv'
  <2>1. UNCHANGED <<exchangeVars, storeVars>>
    <3>1. UNCHANGED exchangeVars
      BY <1>3 DEF RunnerStep, Run, Begin, UpsertMarket, ListActive, MarkDelisted, ChooseSymbols,
                  StartSymbol, FetchPage, StorePage, Finish, Stop
    <3> QED BY <1>3, <3>1, FreshSteps
  <2>2. CASE ~fresh
    BY <1>3, <2>2, FreshSteps, FreshAtLast
  <2>3. CASE fresh
    <3>1. /\ MarketsInStep
          /\ \A s \in Symbols : listing[s] = "trading" => CaughtUp(s)
          /\ \A q \in Runners : FreshOK(q)
      BY <2>3 DEF FreshInv, FreshOK
    <3>2. MarketsInStep' /\ \A s \in Symbols : listing'[s] = "trading" => CaughtUp(s)'
      BY <2>1, <3>1, TablesUnchanged DEF exchangeVars
    <3>3. \A q \in Runners \ {p} : FreshOK(q)'
      <4> TAKE q \in Runners \ {p}
      <4>1. Untouched(q)
        BY <1>3, RunnersApart
      <4>2. RepeatInv(q) => RepeatInv(q)'
        BY <2>1, <4>1, RepeatUntouched
      <4> QED BY <3>1, <4>1, <4>2 DEF FreshOK, Untouched
    <3>4. FreshOK(p)'
      <4>1. ASSUME NEW what \in Jobs[p], Begin(p, what) PROVE FreshOK(p)'
        <5>1. what = "update"
          BY <1>3, <4>1 DEF Begin
        <5>2. /\ pc'[p] = "upsert" /\ job'[p] = what /\ listed'[p] = listing /\ UNCHANGED listing
              /\ todo'[p] = {s \in Symbols : listing[s] # "absent"}
          BY <4>1 DEF Begin, Goto, FetchMarkets, TypeOK, exchangeVars
        <5> QED BY <5>1, <5>2 DEF FreshOK, RepeatInv, Reading
      <4>2. CASE Finish(p) \/ Stop(p)
        <5>1. job'[p] = "none"
          BY <4>2 DEF Finish, Stop, Leave, TypeOK
        <5> QED BY <5>1 DEF FreshOK
      <4>3. CASE Run(p) /\ ~Finish(p)
        <5>1. UNCHANGED job
          BY <4>3 DEF Run, UpsertMarket, ListActive, MarkDelisted, ChooseSymbols, StartSymbol,
                      FetchPage, StorePage
        <5>2. RepeatInv(p) /\ job[p] = "update" => RepeatInv(p)'
          BY <2>1, <3>1, <4>3, RepeatSyncs, RepeatStarts, RepeatFetches, RepeatStores DEF Run
        <5> QED BY <3>1, <5>1, <5>2 DEF FreshOK
      <4> QED BY <1>3, <4>1, <4>2, <4>3 DEF RunnerStep
    <3>5. \A q \in Runners : FreshOK(q)'
      BY <3>3, <3>4
    <3> QED BY <3>2, <3>5 DEF FreshInv, FreshOK
  <2> QED BY <2>2, <2>3
<1>4. CASE ~fresh'
  BY <1>4 DEF FreshInv
<1> QED BY <1>1, <1>2, <1>3, <1>4, NextSteps

\* The row that a repeated update writes is there already.
LEMMA RepeatedUpsert ==
  ASSUME TypeOK, MarketsInStep, NEW p \in Runners, RepeatInv(p), UpsertMarket(p)
  PROVE  market' = market
<1>1. PICK s \in todo[p] : market' = [market EXCEPT ![s] = Row(listed[p][s])]
  BY DEF UpsertMarket, UpsertMarketRow, Row
<1>2. s \in Symbols /\ listed[p] = listing /\ listing[s] # "absent"
  BY DEF TypeOK, UpsertMarket, RepeatInv
<1>3. market[s] = Row(listing[s])
  BY <1>2 DEF MarketsInStep, RowsWritten
<1> QED BY <1>1, <1>2, <1>3 DEF TypeOK

\* So are the bars of its pages, as far as a backfill reaches.
LEMMA RepeatedPage ==
  ASSUME TypeOK, PageInv, MarketsInStep, NEW p \in Runners, RepeatInv(p), StorePage(p),
         \A s \in Symbols : listing[s] = "trading" => CaughtUp(s),
         NEW r \in Symbols, NEW b \in Oldest .. LastBar
  PROVE  bars'[r][b] = bars[r][b]
<1>1. PICK s, got : s = Min(todo[p]) /\ got = page[p]
  OBVIOUS
<1>2. s \in Symbols /\ s \in todo[p] /\ DOMAIN got \subseteq cursor[p] .. clock
  BY <1>1, StoredPage
<1>3. CASE r # s
  BY <1>1, <1>3, StoredPage
<1>4. b \in Bars /\ b >= Oldest
  BY OldestIsPast, FeedAssumption DEF Bars
<1>5. CASE r = s /\ b \notin Clean(got)
  BY <1>1, <1>4, <1>5, StoredPage
<1>6. CASE r = s /\ b \in Clean(got)
  <2>1. bars'[s][b] = got[b] /\ b < clock /\ b \in DOMAIN got
    BY <1>1, <1>4, <1>6, StoredPage
  <2>2. got[b] = offered[s][b] /\ got[b] \in {"partial", "v1", "v2"}
    BY <1>1, <1>6, <2>1, StoredPage DEF RepeatInv, StorePage
  <2>3. offered[s][b] \in {"v1", "v2"}
    BY <1>2, <1>4, <2>2 DEF TypeOK, Offer
  <2>4. \A a \in Have(s) : b + Rewind > a
    <3>1. b >= cursor[p]
      BY <1>2, <2>1, FeedAssumption DEF TypeOK, Bars
    <3> QED BY <1>1, <1>4, <3>1 DEF RepeatInv, Reading, StorePage
  <2>5. CaughtUp(s)
    <3>1. s \in Active
      BY <1>2 DEF RepeatInv, StorePage
    <3> QED BY <1>2, <3>1, ActiveTrades
  <2>6. bars[s][b] = offered[s][b]
    BY <1>4, <2>1, <2>3, <2>4, <2>5 DEF CaughtUp, CaughtUpTo
  <2> QED BY <1>6, <2>1, <2>2, <2>6
<1> QED BY <1>3, <1>5, <1>6

-----------------------------------------------------------------------------
(***************************************************************************)
(* The theorems                                                            *)
(***************************************************************************)
LEMMA InitInv == Init => IInv
<1> SUFFICES ASSUME Init PROVE IInv
  OBVIOUS
<1>1. \A s \in Symbols : Have(s) = {}
  BY DEF Init, Have
<1>2. \A p \in Runners : pc[p] = "idle" /\ job[p] = "none"
  BY DEF Init
<1>3. ClosedInv /\ HoleInv
  BY <1>1 DEF ClosedInv, HoleInv
<1>4. CursorInv /\ QuietInv
  BY <1>2 DEF CursorInv, QuietInv, Reading
<1>5. fresh = FALSE
  BY Zenon DEF Init
<1>6. FreshInv
  BY <1>5 DEF FreshInv
<1> QED BY <1>3, <1>4, <1>6, InitTypes DEF IInv

\* Types, pages, holes, cursors, quiet and repeated updates: every step of every runner and
\* of the exchange keeps them.
THEOREM Inductive == Spec => []IInv
<1>1. IInv /\ [Next]_vars => IInv'
  BY TypesKept, ClosedKept, HolesKept, CursorsKept, QuietKept, FreshKept DEF IInv
<1> QED BY InitInv, <1>1, PTL DEF Spec

\* The tables, the runners' places and what they hold have their types.
THEOREM TypeCorrect == Spec => []TypeOK
<1>1. IInv => TypeOK
  BY DEF IInv
<1> QED BY <1>1, Inductive, PTL

\* Interrupted, repeated and concurrent runs leave no hole behind between two stored bars
\* that was not refused or not offered when a run went past it, or too old for a backfill.
THEOREM HolesAreExplained == Spec => []NoUnexplainedHole
<1>1. IInv => NoUnexplainedHole
  BY DEF IInv, HoleInv, Explained, NoUnexplainedHole, Have
<1> QED BY <1>1, Inductive, PTL

\* Step 3 of a daily run never stops on what the feed itself has stored.
THEOREM StoredBarsVerify == Spec => []VerifyPasses
<1>1. IInv => VerifyPasses
  <2> SUFFICES ASSUME IInv, NEW s \in Active PROVE Clean([b \in Have(s) |-> bars[s][b]]) = Have(s)
    BY DEF VerifyPasses, Verify
  <2>1. s \in Symbols
    BY DEF Active
  <2>2. \A b \in Have(s) : b < clock /\ bars[s][b] # "bad"
    BY <2>1 DEF IInv, ClosedInv, TypeOK, Have, Stored
  <2> DEFINE rows == [b \in Have(s) |-> bars[s][b]]
  <2>3. DOMAIN rows = Have(s) /\ \A b \in Have(s) : rows[b] = bars[s][b]
    OBVIOUS
  <2> HIDE DEF rows
  <2>4. Clean(rows) = Have(s)
    BY <2>2, <2>3 DEF Clean, IsClosed
  <2> QED BY <2>4 DEF rows
<1> QED BY <1>1, Inductive, PTL

\* A whole update that nothing disturbed leaves the symbols that trade active, no others,
\* and their last Rewind bars and all that follow as the exchange has them.
THEOREM UndisturbedUpdateCatchesUp == Spec => []UpdateCatchesUp
<1>1. IInv => UpdateCatchesUp
  <2> SUFFICES ASSUME IInv, fresh PROVE UpdateCatchesUp
    BY DEF UpdateCatchesUp
  <2>1. TypeOK /\ MarketsInStep /\ \A s \in Symbols : listing[s] = "trading" => CaughtUp(s)
    BY DEF IInv, FreshInv
  <2>2. \A s \in Symbols : s \in Active <=> listing[s] = "trading"
    BY <2>1, ActiveTrades
  <2>3. Active = {s \in Symbols : listing[s] = "trading"}
    BY <2>2 DEF Active
  <2>4. \A s \in Active : CaughtUp(s)
    BY <2>1, <2>3
  <2>5. clock \in Nat /\ Bars \subseteq Nat
    BY <2>1, FeedAssumption DEF TypeOK, Bars
  <2>6. \A s \in Active : \A b \in Bars :
          /\ b < clock
          /\ \A a \in Have(s) : b + Rewind > a
          /\ b >= Oldest
          /\ offered[s][b] \in {"v1", "v2"}
          => bars[s][b] = offered[s][b]
    BY <2>4 DEF CaughtUp, CaughtUpTo
  <2> QED BY <2>3, <2>6 DEF UpdateCatchesUp
<1> QED BY <1>1, Inductive, PTL

\* Running Update again with no new bar changes no row, from its first request to its end,
\* and neither does an update that stops halfway.
THEOREM RepeatedUpdateChangesNothing == Spec => UpdateIsIdempotent
<1>1. IInv /\ [Next]_vars =>
        [fresh /\ (\A p \in Runners : job[p] # "backfill")
           => /\ market' = market
              /\ \A s \in Symbols : \A b \in Oldest .. LastBar : bars'[s][b] = bars[s][b]]_vars
  <2> SUFFICES ASSUME IInv, [Next]_vars, fresh
               PROVE  /\ market' = market
                      /\ \A s \in Symbols : \A b \in Oldest .. LastBar : bars'[s][b] = bars[s][b]
    OBVIOUS
  <2>1. /\ TypeOK /\ PageInv /\ MarketsInStep
        /\ \A s \in Symbols : listing[s] = "trading" => CaughtUp(s)
        /\ \A p \in Runners : FreshOK(p)
    BY DEF IInv, FreshInv, FreshOK
  <2>2. \A p \in Runners : pc[p] # "idle" => RepeatInv(p)
    BY <2>1 DEF TypeOK, PageInv, FreshOK
  <2>3. ASSUME NEW p \in Runners, UpsertMarket(p) PROVE UNCHANGED <<market, bars>>
    BY <2>1, <2>2, <2>3, RepeatedUpsert DEF UpsertMarket
  <2>4. ASSUME NEW p \in Runners, MarkDelisted(p) PROVE FALSE
    BY <2>2, <2>4 DEF MarkDelisted, RepeatInv
  <2>5. ASSUME NEW p \in Runners, StorePage(p)
        PROVE  /\ market' = market
               /\ \A s \in Symbols : \A b \in Oldest .. LastBar : bars'[s][b] = bars[s][b]
    BY <2>1, <2>2, <2>5, RepeatedPage DEF StorePage
  <2>6. ASSUME NEW p \in Runners, RunnerStep(p),
               ~UpsertMarket(p), ~MarkDelisted(p), ~StorePage(p)
        PROVE  UNCHANGED <<market, bars>>
    BY <2>6 DEF RunnerStep, Run, Begin, ListActive, ChooseSymbols, StartSymbol, FetchPage, Finish,
                Stop, storeVars
  <2>7. CASE \/ UNCHANGED vars \/ Tick
             \/ \E s \in Symbols : (\E b \in Bars : Correct(s, b)) \/ (\E l \in Listing : Relist(s, l))
    BY <2>7 DEF vars, Tick, Correct, Relist, storeVars
  <2> QED BY <2>3, <2>4, <2>5, <2>6, <2>7, NextSteps
<1> QED BY <1>1, Inductive, PTL DEF Spec, UpdateIsIdempotent

=============================================================================
