-------------------------- MODULE DebugInfoProofs --------------------------
(***************************************************************************)
(* Proofs about stab_binsearch, for every table of every size, and about   *)
(* debuginfo_eip, for every table a compiler lays out.                     *)
(***************************************************************************)
EXTENDS DebugInfo, WellFoundedInduction, TLAPS

Bounds ==
  /\ stabs \in [Index -> [n_type : Types, n_value : Addrs]]
  /\ type \in Types /\ addr0 \in Addrs /\ addr \in Addrs
  /\ left0 \in Index /\ right0 \in left0..(NStabs - 1)
  /\ l \in (left0 - 1)..(right0 + 1) /\ r \in (left0 - 1)..right0
  /\ left \in (left0 - 1)..right0 /\ right \in (left0 - 1)..right0
  /\ any_matches \in BOOLEAN /\ pc \in {"loop", "done"}
  /\ pc = "loop" => left0 <= l /\ left0 <= left /\ right = r

\* What the turns of the loop so far have established.
Narrowed ==
  /\ l <= r + 1 /\ left <= l
  /\ addr = addr0 \/ (addr = addr0 + 1 /\ \E i \in Matches : stabs[i].n_value = addr0)
  /\ \A i \in Matches : i < l => i <= left /\ stabs[i].n_value <= addr0
  /\ \A i \in Matches : i > r => stabs[i].n_value > addr0
  /\ \/ (left \in Matches /\ stabs[left].n_value <= addr0 /\ left <= r)
     \/ \A i \in Matches : l <= i
  /\ r = right0 \/ r + 1 \in Matches
  /\ ~any_matches => r = right0 /\ \A i \in Matches : l <= i

Correct == addr0 < ADDR_MAX /\ ~NextIsTaken =>
             /\ pc = "loop" => Narrowed
             /\ pc = "done" => Contains

\* true_m lies between l and r.
LEMMA Middle ==
  ASSUME NEW a \in Int, NEW b \in Int, a <= b
  PROVE  (a + b) \div 2 \in a..b
OBVIOUS

\* A search begins.
Starting ==
  /\ stabs \in [Index -> [n_type : Types, n_value : Addrs]]
  /\ type \in Types /\ addr0 \in Addrs
  /\ left0 \in Index /\ right0 \in left0..(NStabs - 1)
  /\ l = left0 /\ r = right0 /\ addr = addr0 /\ any_matches = FALSE
  /\ left = left0 /\ right = right0 /\ pc = "loop"

\* It holds at first, and each turn of the loop preserves it.
LEMMA BoundsStart == Starting => Bounds
<1> SUFFICES ASSUME Starting PROVE Bounds
  OBVIOUS
<1>1. left0 \in Int /\ right0 \in Int /\ left0 <= right0
  BY StabAssumption DEF Starting, Index
<1>2. any_matches \in BOOLEAN /\ pc \in {"loop", "done"}
  BY Zenon DEF Starting
<1> QED BY <1>1, <1>2, SMTT(30) DEF Starting, Bounds

LEMMA BoundsInit == Init => Bounds
<1>1. Init => Starting
  BY DEF Init, Starting
<1> QED BY <1>1, BoundsStart

LEMMA BoundsStep == Bounds /\ [Next]_vars => Bounds'
<1> SUFFICES ASSUME Bounds, [Next]_vars PROVE Bounds'
  OBVIOUS
<1> USE StabAssumption DEF Bounds, Index, args
<1>0. /\ left0 \in Int /\ right0 \in Int /\ l \in Int /\ r \in Int
      /\ Looping => true_m \in l..r
  BY Middle DEF Looping, true_m
<1>1. CASE Skip
  BY <1>1, <1>0 DEF Skip, Looping
<1>2. CASE Below
  BY <1>2, <1>0 DEF Below, Looping
<1>3. CASE Above
  BY <1>3, <1>0 DEF Above, Looping
<1>4. CASE Exact
  BY <1>4, <1>0 DEF Exact, Looping, Addrs
<1>5. CASE NotFound
  BY <1>5, <1>0 DEF NotFound
<1>6. CASE Finish
  BY <1>6, <1>0 DEF Finish
<1>7. CASE UNCHANGED vars
  BY <1>7 DEF vars
<1> QED BY <1>1, <1>2, <1>3, <1>4, <1>5, <1>6, <1>7 DEF Next

\* The bounds of the region hold in every state, so stab_binsearch reads no entry
\* outside the region it is given, sorted or not.
THEOREM BoundsInvariant == Spec => []Bounds
BY BoundsInit, BoundsStep, PTL DEF Spec

LEMMA BoundsTypes == Bounds => TypeOK
<1> SUFFICES ASSUME Bounds PROVE TypeOK
  OBVIOUS
<1>1. /\ left0 \in Int /\ right0 \in Int /\ l \in Int /\ r \in Int
      /\ Looping => true_m \in l..r
  BY StabAssumption, Middle DEF Looping, true_m, Bounds, Index
<1> QED BY <1>1, StabAssumption DEF Bounds, TypeOK, InRegion, Index, Looping

\* The type invariant, which says that the reads are in bounds.
THEOREM TypeCorrect == Spec => []TypeOK
BY BoundsTypes, BoundsInvariant, PTL

-----------------------------------------------------------------------------
\* The search narrows the region to the entry that contains the address: one lemma
\* for each turn of the loop.
Turn == /\ Bounds /\ Sorted /\ addr0 < ADDR_MAX /\ ~NextIsTaken
        /\ Narrowed /\ Looping

\* What a turn of the loop works with.
LEMMA TurnFacts ==
  ASSUME Turn
  PROVE  /\ left0 \in Int /\ right0 \in Int /\ l \in Int /\ r \in Int /\ true_m \in l..r
         /\ left0 <= l /\ r <= right0 /\ left \in Int /\ addr0 \in Int /\ addr \in Int
         /\ Matches \subseteq left0..right0
         /\ \A i \in left0..right0 : Match(i) <=> i \in Matches
         /\ \A i \in Matches : stabs[i].n_value \in Int
         /\ \A i, j \in Matches : i <= j => stabs[i].n_value <= stabs[j].n_value
<1> USE DEF Turn
<1>1. /\ left0 \in Int /\ right0 \in Int /\ l \in Int /\ r \in Int
      /\ left0 <= l /\ r <= right0 /\ left \in Int /\ addr0 \in Int /\ addr \in Int
      /\ left0..right0 \subseteq Index
  BY StabAssumption DEF Bounds, Index, Addrs, Looping
<1>2. true_m \in l..r
  BY <1>1, Middle DEF Looping, true_m
<1>3. /\ Matches \subseteq left0..right0
      /\ \A i \in left0..right0 : Match(i) <=> i \in Matches
  BY DEF Matches
<1>4. \A i \in Matches : stabs[i].n_value \in Int
  BY <1>1, <1>3, StabAssumption DEF Bounds, Addrs
<1>5. \A i, j \in Matches : i <= j => stabs[i].n_value <= stabs[j].n_value
  BY <1>3 DEF Sorted
<1> QED BY <1>1, <1>2, <1>3, <1>4, <1>5

LEMMA SkipNarrows ==
  ASSUME Turn, Skip PROVE Narrowed'
<1>1. Matches' = Matches /\ UNCHANGED <<args, r, addr, any_matches, left>>
  BY DEF Skip, args, Matches, Match
<1>2. l' = true_m + 1 /\ \A i \in Matches : i < l \/ i >= l'
  BY TurnFacts DEF Skip
<1> QED BY <1>1, <1>2, TurnFacts DEF Turn, Narrowed, args

LEMMA BelowNarrows ==
  ASSUME Turn, Below PROVE Narrowed'
<1>1. Matches' = Matches /\ UNCHANGED <<args, r, addr>> /\ any_matches'
  BY DEF Below, args, Matches, Match
<1>2. PICK m \in l..true_m : Found(m) /\ stabs[m].n_value < addr /\ left' = m
  BY DEF Below
<1>3. m \in Matches /\ \A i \in Matches : i <= m \/ i > true_m
  BY <1>2, TurnFacts DEF Found
<1>4. stabs[m].n_value <= addr0
  BY <1>2, <1>3, TurnFacts DEF Turn, Narrowed
<1>5. \A i \in Matches : i < l' => i <= m /\ stabs[i].n_value <= addr0
  BY <1>3, <1>4, TurnFacts DEF Below
<1> QED BY <1>1, <1>2, <1>3, <1>4, <1>5, TurnFacts DEF Turn, Narrowed, args, Below

LEMMA AboveNarrows ==
  ASSUME Turn, Above PROVE Narrowed'
<1>1. Matches' = Matches /\ UNCHANGED <<args, l, addr, left>> /\ any_matches'
  BY DEF Above, args, Matches, Match
<1>2. PICK m \in l..true_m : Found(m) /\ stabs[m].n_value > addr /\ r' = m - 1
  BY DEF Above
<1>3. m \in Matches /\ stabs[m].n_value > addr0
  BY <1>2, TurnFacts DEF Found, Turn, Narrowed
<1>4. \A i \in Matches : i > r' => stabs[i].n_value > addr0
  BY <1>2, <1>3, TurnFacts
<1>5. left # m \/ \A i \in Matches : l <= i
  BY <1>3, TurnFacts DEF Turn, Narrowed
<1> QED BY <1>1, <1>2, <1>3, <1>4, <1>5, TurnFacts DEF Turn, Narrowed, args

LEMMA ExactNarrows ==
  ASSUME Turn, Exact PROVE Narrowed'
<1>1. Matches' = Matches /\ UNCHANGED <<args, r>> /\ any_matches'
  BY DEF Exact, args, Matches, Match
<1>2. PICK m \in l..true_m : /\ Found(m) /\ stabs[m].n_value = addr
                             /\ left' = m /\ l' = m
  BY DEF Exact
<1>3. m \in Matches
  BY <1>2, TurnFacts DEF Found
<1>4. addr = addr0
  BY <1>2, <1>3 DEF Turn, Narrowed, NextIsTaken
<1>5. addr' = addr0 + 1
  BY <1>4, TurnFacts, StabAssumption DEF Exact, Turn
<1> QED BY <1>1, <1>2, <1>3, <1>4, <1>5, TurnFacts DEF Turn, Narrowed, args

\* How the loop leaves the region.
LEMMA NotFoundBrackets ==
  ASSUME Bounds, Narrowed, l = r + 1, NotFound PROVE Contains'
<1>1. Matches' = Matches
  BY DEF NotFound, args, Matches, Match
<1>2. \A i \in Matches : i \in Int /\ i <= right0
  BY StabAssumption DEF Matches, Bounds, Index
<1>3. Matches = {}
  BY <1>2 DEF Narrowed, NotFound, Bounds, Index
<1> QED BY <1>1, <1>3 DEF Contains

LEMMA FinishBrackets ==
  ASSUME Bounds, Narrowed, l = r + 1, Finish PROVE Contains'
<1>1. Matches' = Matches /\ UNCHANGED <<args, right>>
  BY DEF Finish, args, Matches, Match
<1>2. /\ left0 \in Int /\ right0 \in Int /\ l \in Int /\ r \in Int /\ left \in Int
      /\ right = r /\ left0 <= left /\ r <= right0
      /\ Matches \subseteq left0..right0
      /\ \A i \in left0..right0 : Match(i) <=> i \in Matches
  BY StabAssumption DEF Bounds, Index, Finish, Matches
<1> SUFFICES ASSUME NEW i \in Matches, Containing(i) PROVE Region(i)'
  BY <1>1 DEF Contains, Containing, args
<1>3. i <= r /\ stabs[i].n_value <= addr0 /\ stabs[i].n_value \in Int /\ addr0 \in Int
  <2>1. stabs[i].n_value <= addr0 /\ stabs[i].n_value \in Int /\ addr0 \in Int
    BY <1>2, StabAssumption DEF Containing, Bounds, Index, Addrs
  <2> QED BY <1>2, <2>1 DEF Narrowed
<1>4. left = i
  BY <1>2, <1>3 DEF Narrowed, Containing
<1>5. \A j \in Matches : j > i => j > r
  BY <1>2, <1>4 DEF Narrowed
<1>6. left' = i
  BY <1>2, <1>3, <1>4, <1>5 DEF Finish
<1> QED BY <1>1, <1>2, <1>3, <1>5, <1>6 DEF Region, Narrowed, args

LEMMA NarrowedStart == Starting => Narrowed
<1> SUFFICES ASSUME Starting PROVE Narrowed
  OBVIOUS
<1>1. left0 \in Int /\ right0 \in Int /\ left0 <= right0 /\ addr0 \in Int
  BY StabAssumption DEF Starting, Index, Addrs
<1> QED BY <1>1 DEF Starting, Narrowed, Matches

\* Each turn keeps it, and the end of the loop brackets the entry.
LEMMA SearchStep ==
  ASSUME Bounds, Sorted, Correct, [Next]_vars
  PROVE  Sorted' /\ Correct'
<1>1. Bounds'
  BY BoundsStep
<1>2. UNCHANGED <<args>>
  BY DEF Next, Skip, Below, Above, Exact, NotFound, Finish, vars
<1>3. Sorted' /\ (NextIsTaken <=> NextIsTaken') /\ UNCHANGED addr0
  BY <1>2 DEF args, Sorted, Match, NextIsTaken, Matches
<1>4. SUFFICES ASSUME addr0 < ADDR_MAX, ~NextIsTaken
               PROVE  (pc' = "loop" => Narrowed') /\ (pc' = "done" => Contains')
  BY <1>1, <1>3 DEF Correct
<1>5. CASE Skip
  BY <1>4, <1>5, SkipNarrows DEF Skip, Turn, Correct, Looping
<1>6. CASE Below
  BY <1>4, <1>6, BelowNarrows DEF Below, Turn, Correct, Looping
<1>7. CASE Above
  BY <1>4, <1>7, AboveNarrows DEF Above, Turn, Correct, Looping
<1>8. CASE Exact
  BY <1>4, <1>8, ExactNarrows DEF Exact, Turn, Correct, Looping
<1>9. ASSUME NotFound \/ Finish PROVE Narrowed /\ l = r + 1 /\ pc' = "done"
  BY <1>4, <1>9 DEF NotFound, Finish, Correct, Narrowed, Bounds, Index
<1>10. CASE NotFound
  BY <1>9, <1>10, NotFoundBrackets
<1>11. CASE Finish
  BY <1>9, <1>11, FinishBrackets
<1>12. CASE UNCHANGED vars
  BY <1>4, <1>12 DEF vars, args, Correct, Narrowed, Contains, Containing, Region, Matches, Match
<1> QED BY <1>5, <1>6, <1>7, <1>8, <1>10, <1>11, <1>12 DEF Next

\* For every sorted table and every address below the largest, the search brackets
\* the entry that contains the address, unless the table holds entries at both
\* that address and the next one (which addr++ mistakes for a match).
THEOREM SearchCorrect == Spec => []ContainsUnlessNext
<1> DEFINE IInv == Bounds /\ Sorted /\ Correct
<1>1. Init => IInv
  <2>1. Init => Starting /\ Sorted
    BY DEF Init, Starting
  <2> QED BY <2>1, BoundsStart, NarrowedStart DEF Correct, Starting
<1>2. IInv /\ [Next]_vars => IInv'
  BY BoundsStep, SearchStep
<1>3. IInv => ContainsUnlessNext
  BY DEF Correct, ContainsUnlessNext, Contains
<1> QED BY <1>1, <1>2, <1>3, PTL DEF Spec

-----------------------------------------------------------------------------
(* An address below every entry of the type *)

None == \A i \in Matches : stabs[i].n_value > addr0

\* Nothing raises addr or the left end of the region, and whatever moves the right end
\* moves it below all entries of the type.
Empty == None =>
  /\ pc = "loop" => addr = addr0 /\ left = left0 /\ \A i \in Matches : l <= i
  /\ pc = "done" => \A i \in left..right : i < left0 \/ ~Match(i)

LEMMA EmptyStart == Starting => Empty
<1> SUFFICES ASSUME Starting PROVE Empty
  OBVIOUS
<1>1. pc = "loop" /\ addr = addr0 /\ left = left0 /\ l = left0
  BY Zenon DEF Starting
<1>2. \A i \in Matches : left0 <= i
  <2>1. left0 \in Int /\ right0 \in Int
    BY StabAssumption DEF Starting, Index
  <2> QED BY <2>1 DEF Matches
<1> QED BY <1>1, <1>2 DEF Empty

LEMMA EmptyStep == Bounds /\ Empty /\ [Next]_vars => Empty'
<1> SUFFICES ASSUME Bounds, Empty, [Next]_vars PROVE Empty'
  OBVIOUS
<1>0. UNCHANGED <<stabs, type, addr0, left0, right0>>
  BY DEF Next, Skip, Below, Above, Exact, NotFound, Finish, vars, args
<1>1. Matches' = Matches /\ (None' <=> None) /\ \A i : Match(i)' <=> Match(i)
  BY <1>0 DEF Matches, Match, None
<1> SUFFICES ASSUME None PROVE Empty'
  BY <1>1 DEF Empty
<1>2. /\ left0 \in Int /\ right0 \in Int /\ l \in Int /\ r \in Int /\ left \in Int /\ right \in Int
      /\ addr0 \in Int /\ r <= right0 /\ right <= right0
      /\ pc = "loop" => left0 <= l /\ right = r
  BY StabAssumption DEF Bounds, Index, Addrs
<1>3. ASSUME NEW i \in left0..right0, Match(i)
      PROVE  i \in Matches /\ stabs[i].n_value > addr0 /\ stabs[i].n_value \in Int
  BY <1>3, <1>2, StabAssumption DEF None, Matches, Bounds, Index, Addrs
<1>4. ASSUME Looping, NEW m \in l..true_m, Found(m)
      PROVE  m \in Matches /\ stabs[m].n_value > addr
  <2>1. true_m \in l..r /\ addr = addr0
    BY <1>2, <1>4, Middle DEF Looping, true_m, Empty
  <2>2. m \in left0..right0 /\ Match(m)
    BY <1>2, <1>4, <2>1 DEF Looping, Found
  <2> QED BY <2>1, <2>2, <1>3
<1>5. ASSUME Looping, NEW m \in l..true_m, Found(m)
      PROVE  stabs[m].n_value \in Int /\ addr \in Int
  <2>1. m \in left0..right0 /\ Match(m)
    BY <1>4, <1>5 DEF Matches, Found
  <2> QED BY <2>1, <1>2, <1>3, <1>5 DEF Empty, Looping
<1>6. CASE Skip
  <2>1. /\ pc = "loop" /\ pc' = "loop" /\ addr' = addr /\ left' = left /\ l' = true_m + 1
        /\ \A i \in l..true_m : ~Match(i)
    BY <1>6 DEF Skip, Looping
  <2>2. true_m \in Int
    BY <1>2, <1>6, Middle DEF Skip, Looping, true_m
  <2>3. \A i \in Matches : true_m + 1 <= i
    <3> SUFFICES ASSUME NEW i \in Matches PROVE true_m + 1 <= i
      OBVIOUS
    <3>1. i \in Int /\ Match(i) /\ l <= i
      BY <1>2, <2>1 DEF Matches, Empty
    <3> QED BY <1>2, <2>1, <2>2, <3>1
  <2> QED BY <1>0, <1>1, <2>1, <2>3 DEF Empty
<1>7. CASE Below \/ Exact
  <2>1. PICK m \in l..true_m : Looping /\ Found(m) /\ (stabs[m].n_value < addr \/ stabs[m].n_value = addr)
    BY <1>7 DEF Below, Exact
  <2> QED BY <1>4, <1>5, <2>1
<1>8. CASE Above
  BY <1>0, <1>1, <1>8 DEF Above, Looping, Empty
<1>9. CASE NotFound
  <2>1. pc' = "done" /\ left' = left /\ right' = left - 1
    BY <1>9 DEF NotFound
  <2> QED BY <1>2, <2>1 DEF Empty
<1>10. CASE Finish
  <2>1. /\ pc = "loop" /\ l > r /\ pc' = "done" /\ right' = right /\ right = r /\ left = left0
        /\ \A i \in Matches : l <= i
    BY <1>2, <1>10 DEF Finish, Empty
  <2>2. \A i \in left0..right : ~Match(i)
    BY <1>2, <1>3, <2>1
  <2>3. left' = right \/ left' \in left..right
    BY <1>10 DEF Finish
  <2>4. \A i \in left'..right' : i < left0 \/ ~Match(i)
    BY <1>2, <2>1, <2>2, <2>3
  <2> QED BY <1>0, <1>1, <2>1, <2>4 DEF Empty
<1>11. CASE UNCHANGED vars
  BY <1>0, <1>1, <1>11 DEF vars, Empty
<1> QED BY <1>6, <1>7, <1>8, <1>9, <1>10, <1>11 DEF Next

-----------------------------------------------------------------------------
(* Where a search ends, sorted or not *)

Ended ==
  /\ pc = "loop" => right >= left0 \/ Match(left0)
  /\ any_matches => Matches # {}
  /\ pc = "loop" /\ ~any_matches => left = left0 /\ r = right0 /\ \A i \in Matches : l <= i
  /\ pc = "done" => /\ left >= left0 \/ Match(left0)
                    /\ Matches # {} => left <= right
                    /\ Matches = {} => left = left0 /\ left > right
                    /\ None /\ ~Match(left0) => left = left0

LEMMA EndedStart == Starting => Ended
<1> SUFFICES ASSUME Starting PROVE Ended
  OBVIOUS
<1>1. left0 \in Int /\ right0 \in Int /\ left0 <= right0
  BY StabAssumption DEF Starting, Index
<1>2. pc = "loop" /\ any_matches = FALSE /\ left = left0 /\ right = right0 /\ r = right0 /\ l = left0
  BY Zenon DEF Starting
<1>3. \A i \in Matches : left0 <= i
  BY <1>1 DEF Matches
<1> QED BY <1>1, <1>2, <1>3 DEF Ended

LEMMA EndedStep == Bounds /\ Empty /\ Ended /\ [Next]_vars => Ended'
<1> SUFFICES ASSUME Bounds, Empty, Ended, [Next]_vars PROVE Ended'
  OBVIOUS
<1>0. UNCHANGED <<stabs, type, addr0, left0, right0>>
  BY DEF Next, Skip, Below, Above, Exact, NotFound, Finish, vars, args
<1>1. Matches' = Matches /\ (None' <=> None) /\ \A i : Match(i)' <=> Match(i)
  BY <1>0 DEF Matches, Match, None
<1>2. /\ left0 \in Int /\ right0 \in Int /\ l \in Int /\ r \in Int /\ left \in Int /\ right \in Int
      /\ r <= right0 /\ right <= right0 /\ left0 <= right0
      /\ pc = "loop" => left0 <= l /\ left0 <= left /\ right = r
  BY StabAssumption DEF Bounds, Index
<1>3. Looping => true_m \in l..r
  BY <1>2, Middle DEF Looping, true_m
<1>4. \A i \in Matches : i \in left0..right0 /\ Match(i)
  BY DEF Matches
<1>5. CASE Skip
  <2>1. /\ pc = "loop" /\ pc' = "loop" /\ l' = true_m + 1 /\ \A i \in l..true_m : ~Match(i)
        /\ UNCHANGED <<r, any_matches, left, right>>
    BY <1>5 DEF Skip, Looping
  <2>2. ~any_matches => \A i \in Matches : l' <= i
    <3> SUFFICES ASSUME ~any_matches, NEW i \in Matches PROVE true_m + 1 <= i
      BY <2>1
    <3>1. l <= i /\ i \in Int /\ true_m \in Int /\ Match(i)
      BY <1>2, <1>3, <1>4, <1>5, <2>1 DEF Ended, Skip
    <3> QED
      BY <1>2, <2>1, <3>1
  <2> QED
    BY <1>0, <1>1, <2>1, <2>2 DEF Ended
<1>6. ASSUME NEW m \in l..true_m, Looping, Found(m)
      PROVE  m \in Matches /\ m \in Int /\ m >= left0 /\ (m > left0 \/ Match(left0))
  BY <1>2, <1>3, <1>6 DEF Found, Matches, Looping
<1>7. CASE Below \/ Exact
  <2>1. PICK m \in l..true_m : Looping /\ Found(m)
    BY <1>7 DEF Below, Exact
  <2>2. pc = "loop" /\ pc' = "loop" /\ any_matches' /\ right' = right
    BY <1>7 DEF Below, Exact, Looping
  <2> QED
    BY <1>0, <1>1, <1>6, <2>1, <2>2 DEF Ended
<1>8. CASE Above
  <2>1. PICK m \in l..true_m : Looping /\ Found(m) /\ right' = m - 1
    BY <1>8 DEF Above
  <2>2. pc' = "loop" /\ any_matches'
    BY <1>8 DEF Above, Looping
  <2>3. right' >= left0 \/ Match(left0)
    BY <1>2, <1>6, <2>1
  <2> QED
    BY <1>0, <1>1, <1>6, <2>1, <2>2, <2>3 DEF Ended
<1>9. CASE NotFound
  <2>1. /\ pc = "loop" /\ l > r /\ ~any_matches /\ pc' = "done"
        /\ right' = left - 1 /\ UNCHANGED <<left, any_matches>>
    BY <1>9 DEF NotFound
  <2>2. left = left0 /\ Matches = {}
    BY <1>2, <1>4, <2>1 DEF Ended
  <2> QED
    BY <1>0, <1>1, <1>2, <2>1, <2>2 DEF Ended
<1>10. CASE Finish
  <2>1. /\ pc = "loop" /\ l > r /\ any_matches /\ pc' = "done" /\ UNCHANGED <<right, any_matches>>
        /\ Matches # {} /\ (right >= left0 \/ Match(left0)) /\ right = r /\ left0 <= left
    BY <1>2, <1>10 DEF Finish, Ended
  <2>2. \/ right <= left /\ left' = right
        \/ /\ left' \in left..right
           /\ left' = left \/ Match(left')
    BY <1>10 DEF Finish
  <2>3. left' <= right /\ (left' >= left0 \/ Match(left0))
    BY <1>2, <2>1, <2>2
  <2>4. ASSUME None, ~Match(left0) PROVE left' = left0
    <3>1. left = left0 /\ (\A i \in Matches : l <= i) /\ right >= left0
      BY <2>1, <2>4 DEF Empty
    <3>2. CASE right <= left /\ left' = right
      BY <1>2, <3>1, <3>2
    <3>3. CASE left' \in left..right /\ Match(left')
      <4>1. left' \in Matches
        BY <1>2, <3>1, <3>3 DEF Matches
      <4> QED
        BY <1>2, <2>1, <3>1, <3>3, <4>1
    <3> QED
      BY <2>2, <3>1, <3>2, <3>3
  <2> QED
    BY <1>0, <1>1, <2>1, <2>3, <2>4 DEF Ended
<1>11. CASE UNCHANGED vars
  BY <1>0, <1>1, <1>11 DEF vars, Ended
<1> QED
  BY <1>5, <1>7, <1>8, <1>9, <1>10, <1>11 DEF Next

-----------------------------------------------------------------------------
(* The table *)

LEMMA Smallest ==
  ASSUME NEW S \in SUBSET Nat, S # {}
  PROVE  \E k \in S : \A m \in S : k <= m
<1> DEFINE Lesser == OpToRel(<, Nat)
<1>1. IsWellFoundedOn(Lesser, Nat)
  BY NatLessThanWellFounded
<1>2. \A m, k \in Nat : m < k => <<m, k>> \in Lesser
  BY DEF OpToRel
<1> HIDE DEF Lesser
<1>3. PICK k \in S : \A m \in S : ~(<<m, k>> \in Lesser)
  BY <1>1, WFMin
<1>4. \A m \in S : ~(m < k)
  BY <1>2, <1>3
<1> QED
  BY <1>4

\* Last finds the last of a set of indexes.
LEMMA LastIs ==
  ASSUME NEW S \in SUBSET Int, NEW i \in S, \A j \in S : j <= i
  PROVE  Last(S) = i
<1>1. \A j \in S : i >= j
  OBVIOUS
<1>2. \A k \in S : (\A j \in S : k >= j) => k = i
  OBVIOUS
<1>3. (CHOOSE k \in S : \A j \in S : k >= j) = i
  BY <1>1, <1>2
<1> QED
  BY <1>3 DEF Last, Max

LEMMA Latest ==
  ASSUME NEW b \in Int, NEW S \in SUBSET Int, S # {}, \A j \in S : j <= b
  PROVE  \E i \in S : \A j \in S : j <= i
<1> DEFINE T == {b - j : j \in S}
<1>1. \A j \in S : b - j \in Nat
  OBVIOUS
<1>2. T \in SUBSET Nat /\ T # {}
  BY <1>1
<1>3. PICK k \in T : \A m \in T : k <= m
  <2> HIDE DEF T
  <2> QED
    BY <1>2, Smallest
<1>4. PICK i \in S : k = b - i
  OBVIOUS
<1>5. \A j \in S : b - i <= b - j
  BY <1>3, <1>4
<1>6. \A j \in S : j <= i
  BY <1>5
<1> QED
  BY <1>6

LEMMA LastNone == Last({}) = -1
BY DEF Last

\* The function of an entry, among entries of these types.
LEMMA FunctionInIs ==
  ASSUME NEW s, NEW i \in Nat
  PROVE  LET f == FunctionIn(s, i)
         IN  \/ f = -1 /\ \A j \in 0..i : s[j] = N_FUN => \E k \in j..i : s[k] = N_SO
             \/ /\ f \in 0..i /\ s[f] = N_FUN /\ \A k \in f..i : s[k] # N_SO
                /\ \A j \in (f + 1)..i : s[j] = N_FUN => \E k \in j..i : s[k] = N_SO
<1> DEFINE S == {j \in 0..i : s[j] = N_FUN /\ \A k \in j..i : s[k] # N_SO}
<1>1. FunctionIn(s, i) = Last(S)
  BY DEF FunctionIn
<1>2. CASE S = {}
  BY <1>1, <1>2, LastNone
<1>3. CASE S # {}
  <2>1. i \in Int /\ S \in SUBSET Int /\ \A j \in S : j <= i
    OBVIOUS
  <2>2. PICK f \in S : \A j \in S : j <= f
    <3> HIDE DEF S
    <3> QED
      BY <1>3, <2>1, Latest
  <2>3. Last(S) = f
    <3> HIDE DEF S
    <3> QED
      BY <2>1, <2>2, LastIs
  <2>4. f \in 0..i /\ s[f] = N_FUN /\ \A k \in f..i : s[k] # N_SO
    OBVIOUS
  <2>5. \A j \in (f + 1)..i : s[j] = N_FUN => \E k \in j..i : s[k] = N_SO
    <3> SUFFICES ASSUME NEW j \in (f + 1)..i, s[j] = N_FUN, \A k \in j..i : s[k] # N_SO PROVE FALSE
      OBVIOUS
    <3>1. j \in S
      BY <2>4
    <3> QED
      BY <2>2, <2>4, <3>1
  <2> QED
    BY <1>1, <2>3, <2>4, <2>5
<1> QED
  BY <1>2, <1>3

\* What the layout of the table comes to.
Table ==
  /\ stabs \in [Index -> [n_type : Types, n_value : Addrs]]
  /\ Kind(0) \notin Searched
  /\ \A i \in Index : Kind(i) \in Searched => StartOf(i) \in ULIM..ADDR_MAX
  /\ \A i, j \in Index : Kind(i) \in Searched /\ Kind(j) \in Searched /\ i < j =>
       StartOf(i) <= StartOf(j)
  /\ \A i \in Index : Kind(i) = N_PSYM /\ FunctionOf(i) # -1 =>
       \A k \in (FunctionOf(i) + 1)..i : Kind(k) = N_PSYM

LEMMA Types_differ == /\ N_FUN # N_SLINE /\ N_FUN # N_SO /\ N_SLINE # N_SO /\ N_SOL # N_SO
                      /\ N_PSYM # N_FUN /\ N_PSYM # N_SO /\ N_PSYM # N_SLINE /\ N_SOL # N_SLINE
                      /\ N_FUN \in Searched /\ N_SLINE \in Searched /\ N_SO \in Searched
BY DEF N_FUN, N_SLINE, N_SO, N_SOL, N_PSYM, Searched

LEMMA Laid == DebugInit => Table
<1> SUFFICES ASSUME DebugInit PROVE Table
  OBVIOUS
<1>1. PICK s \in Shapes : \E start \in Layouts(s) : stabs = LaidOut(s, start)
  BY DEF DebugInit
<1>2. PICK start \in Layouts(s) : stabs = LaidOut(s, start)
  BY <1>1
<1> DEFINE F(i) == FunctionIn(s, i)
           D    == {i \in Index : s[i] \in Searched}
<1>3. /\ s \in [Index -> Types] /\ s[0] \notin Searched
      /\ \A i \in Index : s[i] = N_PSYM /\ F(i) # -1 => \A k \in (F(i) + 1)..i : s[k] = N_PSYM
      /\ ULIM \in 1..ADDR_MAX /\ ADDR_MAX \in Nat /\ NStabs \in Nat /\ 0 \in Index
  BY DebugAssumption, StabAssumption DEF Index
<1>4. /\ start \in [D -> ULIM..ADDR_MAX]
      /\ \A i, j \in D : i < j => start[i] <= start[j]
  BY DEF Layouts
<1>5. \A i \in Index : i \in Nat /\ 0..i \subseteq Index
  BY <1>3 DEF Index
<1>6. ASSUME NEW i \in Index
      PROVE  F(i) = -1 \/ (F(i) \in 0..i /\ F(i) \in Index /\ s[F(i)] = N_FUN /\ F(i) \in D)
  <2>1. i \in Nat /\ 0..i \subseteq Index
    BY <1>5
  <2> QED
    BY <2>1, FunctionInIs, Types_differ
<1>7. ASSUME NEW i \in Index
      PROVE  /\ stabs[i].n_type = s[i]
             /\ s[i] \notin Searched => stabs[i].n_value = 0
             /\ s[i] = N_SLINE /\ F(i) # -1 => stabs[i].n_value = start[i] - start[F(i)]
             /\ s[i] \in Searched /\ (s[i] # N_SLINE \/ F(i) = -1) => stabs[i].n_value = start[i]
  <2>1. stabs[i] = [n_type  |-> s[i],
                    n_value |-> IF s[i] \notin Searched THEN 0
                                ELSE IF s[i] = N_SLINE /\ F(i) # -1
                                THEN start[i] - start[F(i)]
                                ELSE start[i]]
    BY <1>2 DEF LaidOut
  <2>2. N_SLINE \in Searched
    BY Types_differ
  <2> QED
    BY <2>1, <2>2
<1>8. ASSUME NEW i \in Index, s[i] = N_SLINE, F(i) # -1
      PROVE  start[F(i)] <= start[i] /\ F(i) \in Index /\ stabs[F(i)].n_value = start[F(i)]
  <2>1. i \in D /\ F(i) \in D /\ F(i) \in 0..i /\ F(i) # i /\ i \in Nat /\ F(i) \in Index /\ s[F(i)] = N_FUN
    BY <1>5, <1>6, <1>8, Types_differ
  <2>2. F(i) < i
    BY <2>1
  <2>3. stabs[F(i)].n_value = start[F(i)]
    BY <1>7, <2>1, Types_differ
  <2> QED
    BY <1>4, <2>1, <2>2, <2>3
<1>9. stabs \in [Index -> [n_type : Types, n_value : Addrs]]
  <2>1. ASSUME NEW i \in Index PROVE stabs[i] \in [n_type : Types, n_value : Addrs]
    <3>1. s[i] \in Types
      BY <1>3
    <3>2. stabs[i].n_value \in Addrs
      <4>1. CASE s[i] \notin Searched
        BY <1>3, <1>7, <4>1 DEF Addrs
      <4>2. CASE s[i] = N_SLINE /\ F(i) # -1
        <5>1. i \in D /\ F(i) \in D
          BY <1>6, <4>2, Types_differ
        <5>2. start[i] \in ULIM..ADDR_MAX /\ start[F(i)] \in ULIM..ADDR_MAX /\ start[F(i)] <= start[i]
          BY <1>4, <1>8, <4>2, <5>1
        <5>3. start[i] - start[F(i)] \in 0..ADDR_MAX
          BY <1>3, <5>2
        <5> QED
          BY <1>7, <4>2, <5>3 DEF Addrs
      <4>3. CASE s[i] \in Searched /\ (s[i] # N_SLINE \/ F(i) = -1)
        <5>1. i \in D
          BY <4>3
        <5>2. start[i] \in 0..ADDR_MAX
          BY <1>3, <1>4, <5>1
        <5> QED
          BY <1>7, <4>3, <5>2 DEF Addrs
      <4> QED
        BY <4>1, <4>2, <4>3
    <3>3. stabs[i] = [n_type |-> stabs[i].n_type, n_value |-> stabs[i].n_value]
      BY <1>2 DEF LaidOut
    <3> QED
      BY <1>7, <3>1, <3>2, <3>3
  <2>2. stabs = [i \in Index |-> stabs[i]]
    BY <1>2 DEF LaidOut
  <2> QED
    BY <2>1, <2>2
<1>10. [j \in Index |-> Kind(j)] = s
  BY <1>3, <1>7 DEF Kind
<1>11. \A i : FunctionOf(i) = F(i)
  BY <1>10 DEF FunctionOf
<1>12. ASSUME NEW i \in Index, s[i] \in Searched PROVE StartOf(i) = start[i] /\ i \in D
  <2>1. i \in D /\ Kind(i) = s[i] /\ start[i] \in Int
    BY <1>3, <1>4, <1>7, <1>12 DEF Kind
  <2>2. CASE s[i] = N_SLINE /\ F(i) # -1
    <3>1. F(i) \in D
      BY <1>6, <2>2
    <3>2. start[F(i)] \in Int
      BY <1>3, <1>4, <3>1
    <3>3. StartOf(i) = (start[i] - start[F(i)]) + start[F(i)]
      BY <1>7, <1>8, <1>11, <2>1, <2>2 DEF StartOf
    <3> QED
      BY <2>1, <3>2, <3>3
  <2>3. CASE s[i] # N_SLINE \/ F(i) = -1
    <3>1. StartOf(i) = start[i] + 0
      BY <1>7, <1>11, <1>12, <2>1, <2>3 DEF StartOf
    <3> QED
      BY <2>1, <3>1
  <2> QED
    BY <2>2, <2>3
<1>13. \A i \in Index : Kind(i) = s[i]
  BY <1>7 DEF Kind
<1>14. \A i \in Index : Kind(i) \in Searched => StartOf(i) \in ULIM..ADDR_MAX
  BY <1>4, <1>12, <1>13
<1>15. \A i, j \in Index : Kind(i) \in Searched /\ Kind(j) \in Searched /\ i < j =>
         StartOf(i) <= StartOf(j)
  BY <1>4, <1>12, <1>13
<1>16. \A i \in Index : Kind(i) = N_PSYM /\ FunctionOf(i) # -1 =>
         \A k \in (FunctionOf(i) + 1)..i : Kind(k) = N_PSYM
  <2> SUFFICES ASSUME NEW i \in Index, s[i] = N_PSYM, F(i) # -1, NEW k \in (F(i) + 1)..i
               PROVE  Kind(k) = N_PSYM
    BY <1>11, <1>13
  <2>1. k \in Index
    BY <1>5, <1>6
  <2>2. s[k] = N_PSYM
    BY <1>3
  <2> QED
    BY <1>13, <2>1, <2>2
<1> QED
  BY <1>3, <1>9, <1>13, <1>14, <1>15, <1>16 DEF Table

\* The functions of the entries, as the table tells them.
LEMMA FunctionIs ==
  ASSUME Table, NEW i \in Index
  PROVE  /\ i \in Nat /\ \A j \in 0..i : j \in Index
         /\ \A f \in 0..i : /\ Kind(f) = N_FUN /\ \A k \in f..i : Kind(k) # N_SO
                            /\ \A k \in (f + 1)..i : Kind(k) # N_FUN
                            => FunctionOf(i) = f
         /\ \A j \in 0..i : Kind(j) = N_SO /\ (\A k \in j..i : Kind(k) # N_FUN) => FunctionOf(i) = -1
         /\ FunctionOf(i) # -1 => /\ FunctionOf(i) \in 0..i /\ Kind(FunctionOf(i)) = N_FUN
                                  /\ \A k \in FunctionOf(i)..i : Kind(k) # N_SO
<1> DEFINE s == [j \in Index |-> Kind(j)]
           F == FunctionIn(s, i)
<1>1. i \in Nat /\ \A j \in 0..i : j \in Index /\ s[j] = Kind(j)
  <2>1. i \in Nat /\ \A j \in 0..i : j \in Index
    BY StabAssumption DEF Index
  <2> QED
    BY <2>1
<1>2. FunctionOf(i) = F
  BY DEF FunctionOf
<1>3. \/ F = -1 /\ \A j \in 0..i : s[j] = N_FUN => \E k \in j..i : s[k] = N_SO
      \/ /\ F \in 0..i /\ s[F] = N_FUN /\ \A k \in F..i : s[k] # N_SO
         /\ \A j \in (F + 1)..i : s[j] = N_FUN => \E k \in j..i : s[k] = N_SO
  <2> HIDE DEF s
  <2> QED
    BY <1>1, FunctionInIs
<1> HIDE DEF F, s
<1>4. \/ F = -1 /\ \A j \in 0..i : Kind(j) = N_FUN => \E k \in j..i : Kind(k) = N_SO
      \/ /\ F \in 0..i /\ Kind(F) = N_FUN /\ \A k \in F..i : Kind(k) # N_SO
         /\ \A j \in (F + 1)..i : Kind(j) = N_FUN => \E k \in j..i : Kind(k) = N_SO
  <2>1. \A j \in 0..i : \A k \in j..i : k \in 0..i
    BY <1>1
  <2>2. CASE F = -1
    BY <1>1, <1>3, <2>1, <2>2
  <2>3. CASE F # -1
    <3>1. F \in 0..i /\ \A j \in (F + 1)..i : j \in 0..i
      BY <1>1, <1>3, <2>3
    <3> QED
      BY <1>1, <1>3, <2>1, <2>3, <3>1
  <2> QED
    BY <2>2, <2>3
<1>5. ASSUME NEW f \in 0..i, Kind(f) = N_FUN, \A k \in f..i : Kind(k) # N_SO,
             \A k \in (f + 1)..i : Kind(k) # N_FUN
      PROVE  F = f
  <2>1. F # -1
    BY <1>4, <1>5
  <2>2. F \in 0..i /\ Kind(F) = N_FUN /\ \A j \in (F + 1)..i : Kind(j) = N_FUN => \E k \in j..i : Kind(k) = N_SO
    BY <1>4, <2>1
  <2>3. ~(f < F)
    BY <1>1, <1>5, <2>2
  <2>4. ~(F < f)
    <3> SUFFICES ASSUME F < f PROVE FALSE
      OBVIOUS
    <3>1. f \in (F + 1)..i
      BY <1>1, <2>2
    <3> QED
      BY <1>5, <2>2, <3>1
  <2> QED
    BY <1>1, <2>2, <2>3, <2>4
<1>6. ASSUME NEW j \in 0..i, Kind(j) = N_SO, \A k \in j..i : Kind(k) # N_FUN
      PROVE  F = -1
  <2> SUFFICES ASSUME F \in 0..i, Kind(F) = N_FUN, \A k \in F..i : Kind(k) # N_SO PROVE FALSE
    BY <1>4
  <2>1. CASE j <= F
    BY <1>1, <1>6, <2>1
  <2>2. CASE F < j
    BY <1>1, <1>6, <2>2
  <2> QED
    BY <1>1, <2>1, <2>2
<1> QED
  BY <1>1, <1>2, <1>4, <1>5, <1>6

-----------------------------------------------------------------------------
(* What a search in the table finds *)

\* The addresses for which the searches are right.
Good == eip0 < ADDR_MAX /\ ~InARow

\* What lies behind an entry starts above the address.
Beyond(b) == \A j \in Index : j > b /\ Kind(j) \in Searched => StartOf(j) > eip0

LEMMA Numbers ==
  ASSUME Table, eip0 \in ULIM..ADDR_MAX
  PROVE  /\ NStabs \in Nat \ {0} /\ ULIM \in 1..ADDR_MAX /\ ADDR_MAX \in Nat /\ eip0 \in Nat /\ eip0 <= ADDR_MAX
         /\ \A i : i \in Index <=> i \in Nat /\ i < NStabs
         /\ \A i \in Index : stabs[i].n_value \in 0..ADDR_MAX
         /\ \A i \in Index : Kind(i) \in Searched => StartOf(i) \in Nat /\ StartOf(i) >= ULIM
<1>1. NStabs \in Nat \ {0} /\ ULIM \in 1..ADDR_MAX /\ ADDR_MAX \in Nat
  BY StabAssumption, DebugAssumption
<1>2. \A i \in Index : stabs[i].n_value \in 0..ADDR_MAX
  BY DEF Table, Addrs
<1>3. \A i \in Index : Kind(i) \in Searched => StartOf(i) \in ULIM..ADDR_MAX
  BY DEF Table
<1> QED
  BY <1>1, <1>2, <1>3 DEF Index

\* Files and functions are given by their address, and lines outside functions.
LEMMA Plain ==
  ASSUME Table, eip0 \in ULIM..ADDR_MAX, NEW i \in Index, Kind(i) # N_SLINE \/ FunctionOf(i) = -1
  PROVE  StartOf(i) = stabs[i].n_value
<1>1. stabs[i].n_value \in Int /\ StartOf(i) = stabs[i].n_value + 0
  BY Numbers DEF StartOf
<1> QED
  BY <1>1

\* Where the search has left the region it returns: in the region it was given, though
\* perhaps one entry to its left.
LEMMA Ranged ==
  ASSUME Table, Bounds, Ended, type \in Searched, pc = "done", left <= right
  PROVE  left \in Index /\ right \in left..right0 /\ right \in Index /\ right0 \in Index
<1>1. NStabs \in Nat \ {0} /\ left0 \in Nat /\ right0 \in left0..(NStabs - 1)
      /\ left \in (left0 - 1)..right0 /\ right \in (left0 - 1)..right0
  BY StabAssumption DEF Bounds, Index
<1>2. left0 # 0 \/ left >= left0
  BY <1>1 DEF Ended, Match, Kind, Table
<1> QED
  BY <1>1, <1>2 DEF Index

\* The search for the file or the function: either all of the type start above the
\* address, or the region is that of the last that does not.
LEMMA Brackets ==
  ASSUME Table, eip0 \in ULIM..ADDR_MAX, Good, Bounds, Empty, Ended, Correct, pc = "done",
         type \in {N_SO, N_FUN}, addr0 = eip0, Kind(left0) # type, Beyond(right0)
  PROVE  \/ /\ left = left0 /\ \A i \in left0..right0 : Kind(i) = type => StartOf(i) > eip0
            /\ \A i \in left..right : Kind(i) # type
            /\ (\E i \in left0..right0 : Kind(i) = type) <=> left <= right
         \/ /\ left \in (left0 + 1)..right0 /\ Kind(left) = type /\ StartOf(left) <= eip0
            /\ right \in left..right0 /\ \A i \in (left + 1)..right : Kind(i) # type
            /\ Beyond(right)
<1>1. NStabs \in Nat \ {0} /\ left0 \in Nat /\ right0 \in left0..(NStabs - 1)
      /\ left \in (left0 - 1)..right0 /\ right \in (left0 - 1)..right0
  BY StabAssumption DEF Bounds, Index
<1>2. type \in Searched /\ type # N_SLINE
  BY Types_differ
<1>3. \A i \in Index : Kind(i) = type => StartOf(i) = stabs[i].n_value /\ StartOf(i) \in Nat
  BY <1>2, Numbers, Plain
<1>4. \A i : i \in Matches <=> i \in left0..right0 /\ Kind(i) = type
  BY DEF Matches, Match, Kind
<1>5. \A i \in left0..right0 : i \in Index
  BY <1>1 DEF Index
<1>6. \A i \in Matches : i \in Index /\ stabs[i].n_value = StartOf(i) /\ StartOf(i) \in Nat
  BY <1>3, <1>4, <1>5
<1>7. ~NextIsTaken
  <2> SUFFICES ASSUME NEW i \in Matches, NEW j \in Matches,
                      stabs[i].n_value = addr0, stabs[j].n_value = addr0 + 1
               PROVE  FALSE
    BY DEF NextIsTaken
  <2>1. i \in Places(type) /\ j \in Places(type) /\ StartOf(i) = eip0 /\ StartOf(j) = eip0 + 1
    BY <1>4, <1>6 DEF Places
  <2> QED
    BY <1>2, <2>1 DEF Good, InARow
<1>8. Contains
  BY <1>7 DEF Correct, Good
<1>9. Matches # {} <=> left <= right
  BY <1>1 DEF Ended
<1>10. CASE None
  <2>1. left = left0
    BY <1>10 DEF Ended, Match, Kind
  <2>2. \A i \in left0..right0 : Kind(i) = type => StartOf(i) > eip0
    BY <1>4, <1>6, <1>10 DEF None
  <2>3. \A i \in left..right : Kind(i) # type
    BY <1>1, <1>10, <2>1 DEF Empty, Match, Kind
  <2>4. (\E i \in left0..right0 : Kind(i) = type) <=> left <= right
    BY <1>4, <1>9
  <2> QED
    BY <2>1, <2>2, <2>3, <2>4
<1>11. CASE ~None
  <2> DEFINE S == {i \in Matches : stabs[i].n_value <= addr0}
  <2>1. S # {}
    BY <1>6, <1>11, Numbers DEF None
  <2>2. S \in SUBSET Int /\ right0 \in Int /\ \A j \in S : j <= right0
    BY <1>1, <1>4
  <2>3. PICK i \in S : \A j \in S : j <= i
    <3> HIDE DEF S
    <3> QED
      BY <2>1, <2>2, Latest
  <2>4. Containing(i) /\ i \in Matches
    BY <2>3 DEF Containing
  <2>5. Region(i)
    BY <1>8, <2>4 DEF Contains, Good
  <2>6. left = i /\ i \in left0..right0 /\ Kind(i) = type /\ StartOf(i) <= eip0 /\ i # left0
    BY <1>4, <1>6, <2>4, <2>5 DEF Containing, Region
  <2>7. left <= right
    BY <1>9, <2>4
  <2>8. \A k \in (left + 1)..right : Kind(k) # type
    <3> SUFFICES ASSUME NEW k \in (left + 1)..right, Kind(k) = type PROVE FALSE
      OBVIOUS
    <3>1. k \in Matches /\ k > i
      BY <1>1, <1>4, <2>6
    <3> QED
      BY <1>1, <2>5, <3>1 DEF Region
  <2>9. Beyond(right)
    <3>1. CASE right = right0
      BY <3>1
    <3>2. CASE right + 1 \in Matches
      <4>1. right + 1 \in Index /\ Kind(right + 1) = type /\ right + 1 > i
        BY <1>1, <1>4, <1>6, <2>6, <2>7, <3>2
      <4>2. right + 1 \notin S
        BY <1>1, <2>3, <2>6, <4>1
      <4>3. StartOf(right + 1) > eip0 /\ StartOf(right + 1) \in Nat
        BY <1>6, <3>2, <4>2, Numbers
      <4> SUFFICES ASSUME NEW j \in Index, j > right, Kind(j) \in Searched PROVE StartOf(j) > eip0
        BY DEF Beyond
      <4>4. j = right + 1 \/ right + 1 < j
        BY <1>1 DEF Index
      <4>5. StartOf(right + 1) <= StartOf(j)
        BY <1>2, <4>1, <4>3, <4>4 DEF Table
      <4> QED
        BY <4>3, <4>5, Numbers
    <3> QED
      BY <2>5, <3>1, <3>2 DEF Region
  <2> QED
    BY <1>1, <2>6, <2>7, <2>8, <2>9
<1> QED
  BY <1>10, <1>11

\* What a reader of the table finds.
LEMMA ReaderIs ==
  ASSUME Table, eip0 \in ULIM..ADDR_MAX, NEW t \in Searched
  PROVE  \/ Reader(t) = -1
         \/ /\ Reader(t) \in Index /\ Kind(Reader(t)) = t /\ StartOf(Reader(t)) <= eip0
            /\ \A j \in Index : Kind(j) = t /\ StartOf(j) <= eip0 => j <= Reader(t)
<1> DEFINE S == {i \in Places(t) : StartOf(i) <= eip0}
<1>1. Reader(t) = Last(S)
  BY DEF Reader
<1>2. CASE S = {}
  BY <1>1, <1>2, LastNone
<1>3. CASE S # {}
  <2>1. S \in SUBSET Int /\ NStabs \in Int /\ \A j \in S : j <= NStabs
    BY Numbers DEF Places
  <2>2. PICK i \in S : \A j \in S : j <= i
    <3> HIDE DEF S
    <3> QED
      BY <1>3, <2>1, Latest
  <2>3. Last(S) = i
    <3> HIDE DEF S
    <3> QED
      BY <2>1, <2>2, LastIs
  <2> QED
    BY <1>1, <2>2, <2>3 DEF Places
<1> QED
  BY <1>2, <1>3

LEMMA ReaderAt ==
  ASSUME Table, eip0 \in ULIM..ADDR_MAX, NEW t \in Searched, NEW i \in Index, Kind(i) = t,
         StartOf(i) <= eip0, \A j \in Index : j > i /\ Kind(j) = t => StartOf(j) > eip0
  PROVE  Reader(t) = i
<1> DEFINE S == {k \in Places(t) : StartOf(k) <= eip0}
<1>1. i \in S /\ S \in SUBSET Int
  BY Numbers DEF Places
<1>2. \A j \in S : j <= i
  <2> SUFFICES ASSUME NEW j \in S, j > i PROVE FALSE
    BY <1>1
  <2>1. j \in Index /\ Kind(j) = t /\ StartOf(j) <= eip0
    BY DEF Places
  <2>2. StartOf(j) > eip0 /\ StartOf(j) \in Int /\ eip0 \in Int
    BY <2>1, Numbers
  <2> QED
    BY <2>1, <2>2
<1>3. Last(S) = i
  <2> HIDE DEF S
  <2> QED
    BY <1>1, <1>2, LastIs
<1> QED
  BY <1>3 DEF Reader

-----------------------------------------------------------------------------
(* How the searches build on each other *)

\* The search for the file has succeeded.
Filed ==
  /\ lfile \in Index /\ Kind(lfile) = N_SO /\ StartOf(lfile) <= eip0
  /\ rfile \in lfile..(NStabs - 1)
  /\ \A k \in (lfile + 1)..rfile : Kind(k) # N_SO
  /\ Beyond(rfile)

Opening == [file |-> UNKNOWN, line |-> 0, fn_name |-> UNKNOWN, fn_addr |-> eip0, fn_narg |-> 0]

\* The line is searched for in a function,
LineOfFunction ==
  /\ lfun \in (lfile + 1)..rfile /\ Kind(lfun) = N_FUN /\ StartOf(lfun) <= eip0
  /\ rfun \in lfun..rfile
  /\ \A k \in (lfun + 1)..rfun : Kind(k) # N_FUN
  /\ Beyond(rfun)
  /\ left0 = lfun /\ right0 = rfun /\ addr0 = eip0 - StartOf(lfun)
  /\ info = [Opening EXCEPT !.fn_name = Named(lfun, UNKNOWN), !.fn_addr = StartOf(lfun)]

\* in a file without functions,
LineOfFile ==
  /\ \A k \in lfile..rfile : Kind(k) # N_FUN
  /\ left0 = lfile /\ right0 = rfile /\ addr0 = eip0
  /\ info = Opening

\* or in a file whose functions all start above the address, for which the search for
\* the function returns the entry of the file.
LineOfNothing ==
  /\ \E k \in (lfile + 1)..rfile : Kind(k) = N_FUN
  /\ \A k \in (lfile + 1)..rfile : Kind(k) = N_FUN => StartOf(k) > eip0
  /\ left0 = lfile /\ right0 \in lfile..rfile
  /\ \A k \in lfile..right0 : Kind(k) # N_FUN
  /\ info.fn_addr <= eip0 /\ (info.fn_name # UNKNOWN => Kind(info.fn_name) # N_FUN)
  /\ info = [Opening EXCEPT !.fn_name = info.fn_name, !.fn_addr = info.fn_addr]

DebugInv ==
  /\ Table /\ eip0 \in ULIM..ADDR_MAX /\ Bounds /\ Empty /\ Ended
  /\ type \in Searched /\ step \in {"start", "file", "function", "line", "done"}
  /\ step = "start" => pc = "loop"
  /\ step \in {"start", "file"} =>
       type = N_SO /\ addr0 = eip0 /\ left0 = 0 /\ right0 = NStabs - 1 /\ info = Opening
  /\ step = "function" =>
       /\ type = N_FUN /\ addr0 = eip0 /\ left0 = lfile /\ right0 = rfile /\ lfile # 0 /\ info = Opening
  /\ step = "line" => type = N_SLINE
  /\ Good =>
       /\ Sorted /\ Correct
       /\ step \in {"function", "line"} => Filed
       /\ step = "line" => LineOfFunction \/ LineOfFile \/ LineOfNothing
  /\ step = "done" => RightPlace

\* The functions of the entries in the region of a file.
LEMMA InFile ==
  ASSUME Table, Filed, NEW i \in lfile..rfile
  PROVE  /\ i \in Index
         /\ (\A k \in lfile..i : Kind(k) # N_FUN) => FunctionOf(i) = -1
         /\ \A f \in (lfile + 1)..i : /\ Kind(f) = N_FUN /\ \A k \in (f + 1)..i : Kind(k) # N_FUN
                                      => FunctionOf(i) = f
<1>1. /\ lfile \in Nat /\ rfile \in Nat /\ i \in Index /\ i \in Nat /\ lfile \in 0..i /\ lfile \in Index
      /\ \A k \in (lfile + 1)..rfile : Kind(k) # N_SO
  BY StabAssumption DEF Filed, Index
<1>2. Kind(lfile) = N_SO
  BY DEF Filed
<1>3. ASSUME NEW f \in (lfile + 1)..i, Kind(f) = N_FUN, \A k \in (f + 1)..i : Kind(k) # N_FUN
      PROVE  FunctionOf(i) = f
  <2>1. f \in 0..i /\ \A k \in f..i : Kind(k) # N_SO
    BY <1>1
  <2> QED
    BY <1>1, <1>3, <2>1, FunctionIs
<1> QED
  BY <1>1, <1>2, <1>3, FunctionIs

LEMMA ReadersFile ==
  ASSUME Table, eip0 \in ULIM..ADDR_MAX, Filed
  PROVE  Reader(N_SO) = lfile /\ lfile # -1
<1>1. lfile \in Index /\ Kind(lfile) = N_SO /\ StartOf(lfile) <= eip0 /\ N_SO \in Searched /\ lfile \in Nat /\ rfile \in Nat
  BY Types_differ, Numbers DEF Filed
<1>2. ASSUME NEW j \in Index, j > lfile, Kind(j) = N_SO PROVE StartOf(j) > eip0
  <2>1. j \in Nat /\ ~(j \in (lfile + 1)..rfile)
    BY <1>2, Numbers DEF Filed
  <2>2. j > rfile
    BY <1>1, <1>2, <2>1
  <2> QED
    BY <1>1, <1>2, <2>2 DEF Filed, Beyond
<1> QED
  BY <1>1, <1>2, ReaderAt

\* The function the lines are searched for in is the reader's.
LEMMA FunctionRead ==
  ASSUME Table, eip0 \in ULIM..ADDR_MAX, Filed, LineOfFunction
  PROVE  Reader(N_FUN) = lfun
<1>1. /\ lfun \in (lfile + 1)..rfile /\ Kind(lfun) = N_FUN /\ StartOf(lfun) <= eip0
      /\ rfun \in lfun..rfile /\ \A k \in (lfun + 1)..rfun : Kind(k) # N_FUN
  BY DEF LineOfFunction
<1>2. /\ lfile \in Nat /\ rfile \in Nat /\ lfun \in Nat /\ rfun \in Nat /\ lfun \in Index
      /\ N_FUN \in Searched
  <2>1. lfile \in Nat /\ rfile \in Nat
    BY Numbers DEF Filed
  <2> QED
    BY <1>1, <2>1, InFile, Types_differ
<1>3. ASSUME NEW j \in Index, j > lfun, Kind(j) = N_FUN PROVE StartOf(j) > eip0
  <2>1. j \in Nat /\ ~(j \in (lfun + 1)..rfun)
    BY <1>1, <1>3, Numbers
  <2>2. j > rfun
    BY <1>2, <1>3, <2>1
  <2>3. Beyond(rfun)
    BY DEF LineOfFunction
  <2> QED
    BY <1>2, <1>3, <2>2, <2>3 DEF Beyond
<1> QED
  BY <1>1, <1>2, <1>3, ReaderAt

\* The lines in the region, and what they are given relative to.
Base == IF LineOfFunction THEN StartOf(lfun) ELSE 0

LEMMA Lines ==
  ASSUME Table, eip0 \in ULIM..ADDR_MAX, Bounds, Filed, LineOfFunction \/ LineOfFile \/ LineOfNothing
  PROVE  /\ Base \in Int
         /\ \A i \in left0..right0 : i \in Index /\ (Kind(i) = N_SLINE => StartOf(i) = stabs[i].n_value + Base)
<1>1. lfile \in Nat /\ rfile \in Nat /\ N_FUN # N_SLINE /\ N_FUN \in Searched
  BY Types_differ, Numbers DEF Filed
<1>2. CASE LineOfFunction
  <2>1. /\ lfun \in (lfile + 1)..rfile /\ lfun \in Nat /\ Kind(lfun) = N_FUN /\ rfun \in Nat /\ rfun <= rfile
        /\ left0 = lfun /\ right0 = rfun /\ Base = StartOf(lfun)
        /\ \A k \in (lfun + 1)..rfun : Kind(k) # N_FUN
    BY <1>1, <1>2 DEF LineOfFunction, Base
  <2>2. lfun \in Index /\ StartOf(lfun) = stabs[lfun].n_value
    <3>1. lfun \in Index
      BY <1>1, <2>1, InFile
    <3> QED
      BY <1>1, <2>1, <3>1, Plain
  <2>3. ASSUME NEW i \in left0..right0
        PROVE  i \in Index /\ (Kind(i) = N_SLINE => StartOf(i) = stabs[i].n_value + Base)
    <3>1. i \in lfile..rfile /\ lfun \in (lfile + 1)..i /\ \A k \in (lfun + 1)..i : Kind(k) # N_FUN
      BY <1>1, <2>1
    <3>2. i \in Index /\ FunctionOf(i) = lfun
      BY <2>1, <3>1, InFile
    <3>3. lfun # -1
      BY <2>1
    <3> QED
      BY <2>1, <2>2, <3>2, <3>3 DEF StartOf
  <2>4. Base \in Int
    BY <1>1, <2>1, <2>2, Numbers
  <2> QED
    BY <2>3, <2>4
<1>3. CASE ~LineOfFunction
  <2>1. left0 = lfile /\ right0 \in lfile..rfile /\ \A k \in lfile..right0 : Kind(k) # N_FUN
    <3>1. lfile <= rfile
      BY <1>1 DEF Filed
    <3> QED
      BY <1>1, <1>3, <3>1 DEF LineOfFile, LineOfNothing
  <2>2. Base = 0
    BY <1>3 DEF Base
  <2>3. ASSUME NEW i \in left0..right0
        PROVE  i \in Index /\ (Kind(i) = N_SLINE => StartOf(i) = stabs[i].n_value + Base)
    <3>1. i \in lfile..rfile /\ \A k \in lfile..i : Kind(k) # N_FUN
      BY <1>1, <2>1
    <3>2. i \in Index /\ FunctionOf(i) = -1
      BY <3>1, InFile
    <3>3. StartOf(i) = stabs[i].n_value /\ stabs[i].n_value \in Int
      BY <3>2, Plain, Numbers
    <3> QED
      BY <2>2, <3>2, <3>3
  <2> QED
    BY <2>2, <2>3
<1> QED
  BY <1>2, <1>3

LEMMA SortedLines ==
  ASSUME Table, eip0 \in ULIM..ADDR_MAX, Bounds, Filed, LineOfFunction \/ LineOfFile \/ LineOfNothing,
         type = N_SLINE
  PROVE  Sorted
<1> SUFFICES ASSUME NEW i \in left0..right0, NEW j \in left0..right0, i <= j, Match(i), Match(j)
             PROVE  stabs[i].n_value <= stabs[j].n_value
  BY DEF Sorted
<1>1. /\ i \in Index /\ j \in Index /\ Kind(i) = N_SLINE /\ Kind(j) = N_SLINE
      /\ StartOf(i) = stabs[i].n_value + Base /\ StartOf(j) = stabs[j].n_value + Base
      /\ Base \in Int
  BY Lines DEF Match, Kind
<1>2. /\ stabs[i].n_value \in Int /\ stabs[j].n_value \in Int /\ i \in Int /\ j \in Int
      /\ N_SLINE \in Searched
  BY <1>1, Numbers, Types_differ
<1>3. i = j \/ i < j
  BY <1>2
<1>4. CASE i < j
  <2>1. StartOf(i) <= StartOf(j)
    BY <1>1, <1>2, <1>4 DEF Table
  <2> QED
    BY <1>1, <1>2, <2>1
<1> QED
  BY <1>2, <1>3, <1>4

\* Files and functions come in order, whatever the region.
LEMMA SortedPlain ==
  ASSUME Table, eip0 \in ULIM..ADDR_MAX, Bounds, type \in {N_SO, N_FUN}
  PROVE  Sorted
<1> SUFFICES ASSUME NEW i \in left0..right0, NEW j \in left0..right0, i <= j, Match(i), Match(j)
             PROVE  stabs[i].n_value <= stabs[j].n_value
  BY DEF Sorted
<1>1. left0 \in Nat /\ right0 \in left0..(NStabs - 1) /\ NStabs \in Nat
  BY StabAssumption DEF Bounds, Index
<1>2. i \in Index /\ j \in Index /\ i \in Int /\ j \in Int
  BY <1>1 DEF Index
<1>3. Kind(i) = type /\ Kind(j) = type /\ type # N_SLINE /\ type \in Searched
  BY Types_differ DEF Match, Kind
<1>4. /\ StartOf(i) = stabs[i].n_value /\ StartOf(j) = stabs[j].n_value
      /\ stabs[i].n_value \in Int
  BY <1>2, <1>3, Plain, Numbers
<1>5. i = j \/ i < j
  BY <1>2
<1>6. CASE i < j
  BY <1>2, <1>3, <1>4, <1>6 DEF Table
<1> QED
  BY <1>4, <1>5, <1>6

\* The line the reader finds is in the region, and the search finds it.
LEMMA LineFound ==
  ASSUME Table, eip0 \in ULIM..ADDR_MAX, Bounds, Ended, Good, Filed, Correct, type = N_SLINE, pc = "done",
         LineOfFunction \/ LineOfFile, Reader(N_SLINE) >= left0, Reader(N_SLINE) # -1
  PROVE  left = Reader(N_SLINE) /\ left <= right
<1> DEFINE L == Reader(N_SLINE)
<1>0. N_SLINE \in Searched
  BY Types_differ
<1>1. /\ L \in Index /\ Kind(L) = N_SLINE /\ StartOf(L) <= eip0
      /\ \A j \in Index : Kind(j) = N_SLINE /\ StartOf(j) <= eip0 => j <= L
  BY <1>0, ReaderIs
<1>2. /\ left0 \in Nat /\ right0 \in Nat /\ L \in Nat /\ eip0 \in Nat /\ eip0 <= ADDR_MAX /\ ADDR_MAX \in Nat
      /\ StartOf(L) \in Nat /\ Base \in Int
  BY <1>0, <1>1, Numbers, Lines DEF Bounds, Index
<1>3. Beyond(right0) /\ addr0 = eip0 - Base /\ Base >= 0
  <2>1. CASE LineOfFunction
    <3>1. Beyond(right0) /\ addr0 = eip0 - Base /\ Base = StartOf(lfun)
      BY <2>1 DEF LineOfFunction, Base
    <3>2. lfun \in Index /\ Kind(lfun) \in Searched
      <4>1. lfun \in lfile..rfile /\ Kind(lfun) = N_FUN
        BY <2>1 DEF LineOfFunction, Filed, Index
      <4> QED
        BY <4>1, InFile, Types_differ
    <3> QED
      BY <3>1, <3>2, Numbers
  <2>2. CASE ~LineOfFunction
    <3>1. Base = 0 /\ addr0 = eip0 /\ right0 = rfile
      BY <2>2 DEF LineOfFile, Base
    <3> QED
      BY <1>2, <3>1 DEF Filed
  <2> QED
    BY <2>1, <2>2
<1>4. L <= right0
  BY <1>0, <1>1, <1>2, <1>3 DEF Beyond
<1>5. L \in Matches
  BY <1>1, <1>2, <1>4 DEF Matches, Match, Kind
<1>6. ASSUME NEW i \in Matches
      PROVE  /\ i \in Index /\ i \in left0..right0 /\ Kind(i) = N_SLINE /\ stabs[i].n_value \in Int
             /\ StartOf(i) = stabs[i].n_value + Base
  <2>1. i \in left0..right0 /\ Kind(i) = N_SLINE
    BY DEF Matches, Match, Kind
  <2>2. i \in Index /\ StartOf(i) = stabs[i].n_value + Base
    BY <2>1, Lines
  <2> QED
    BY <2>1, <2>2, Numbers
<1>7. ~NextIsTaken
  <2> SUFFICES ASSUME NEW i \in Matches, NEW j \in Matches,
                      stabs[i].n_value = addr0, stabs[j].n_value = addr0 + 1
               PROVE  FALSE
    BY DEF NextIsTaken
  <2>1. StartOf(i) = addr0 + Base /\ StartOf(j) = (addr0 + 1) + Base
    BY <1>6
  <2>2. StartOf(i) = eip0 /\ StartOf(j) = eip0 + 1
    BY <1>2, <1>3, <2>1
  <2>3. i \in Places(N_SLINE) /\ j \in Places(N_SLINE)
    BY <1>6 DEF Places
  <2> QED
    BY <1>0, <2>2, <2>3 DEF Good, InARow
<1>8. Contains /\ addr0 < ADDR_MAX
  <2>1. addr0 < ADDR_MAX
    BY <1>2, <1>3 DEF Good
  <2> QED
    BY <1>7, <2>1 DEF Correct
<1>9. Containing(L)
  <2>1. stabs[L].n_value <= addr0
    BY <1>1, <1>2, <1>3, <1>5, <1>6
  <2>2. ASSUME NEW j \in Matches, stabs[j].n_value <= addr0 PROVE j <= L
    <3>1. StartOf(j) <= eip0
      BY <1>2, <1>3, <1>6, <2>2
    <3> QED
      BY <1>1, <1>6, <3>1
  <2> QED
    BY <1>5, <2>1, <2>2 DEF Containing
<1>10. Region(L)
  BY <1>5, <1>8, <1>9 DEF Contains
<1>11. left <= right
  BY <1>5 DEF Ended
<1> QED
  BY <1>10, <1>11 DEF Region

-----------------------------------------------------------------------------
(* What debuginfo_eip fills in *)

LEMMA RightParameters ==
  ASSUME Table, eip0 \in ULIM..ADDR_MAX, Filed, LineOfFunction, Reader(N_SLINE) \in (lfun + 1)..rfun,
         Kind(Reader(N_SLINE)) = N_SLINE
  PROVE  fn_narg = Cardinality({j \in Places(N_PSYM) : FunctionOf(j) = lfun})
<1> DEFINE L == Reader(N_SLINE)
           S == {j \in (lfun + 1)..(rfun - 1) : \A k \in (lfun + 1)..j : Kind(k) = N_PSYM}
           P == {j \in Places(N_PSYM) : FunctionOf(j) = lfun}
<1>1. /\ lfile \in Nat /\ rfile \in Nat /\ lfun \in (lfile + 1)..rfile /\ rfun \in lfun..rfile
      /\ Kind(lfun) = N_FUN /\ N_PSYM # N_FUN /\ N_PSYM # N_SLINE
      /\ L \in (lfun + 1)..rfun /\ Kind(L) = N_SLINE /\ L \in Nat
      /\ \A k \in (lfun + 1)..rfun : Kind(k) # N_FUN
  BY Numbers, Types_differ DEF Filed, LineOfFunction
<1>2. ASSUME NEW j \in S PROVE j \in P
  <2>1. /\ j \in (lfun + 1)..(rfun - 1) /\ Kind(j) = N_PSYM /\ j \in lfile..rfile /\ lfun \in (lfile + 1)..j
        /\ \A k \in (lfun + 1)..j : Kind(k) # N_FUN
    BY <1>1
  <2>2. j \in Index /\ FunctionOf(j) = lfun
    BY <1>1, <2>1, InFile
  <2> QED
    BY <2>1, <2>2 DEF Places
<1>3. ASSUME NEW j \in P PROVE j \in S
  <2>1. j \in Index /\ j \in Nat /\ Kind(j) = N_PSYM /\ FunctionOf(j) = lfun /\ lfun # -1
    BY <1>1, Numbers DEF Places
  <2>2. lfun \in 0..j /\ \A k \in (lfun + 1)..j : Kind(k) = N_PSYM
    BY <2>1, FunctionIs DEF Table
  <2>3. lfun # j
    BY <1>1, <2>1
  <2>4. ~(L <= j)
    BY <1>1, <2>1, <2>2
  <2>5. j \in (lfun + 1)..(rfun - 1)
    BY <1>1, <2>1, <2>2, <2>3, <2>4
  <2> QED
    BY <2>2, <2>5
<1>4. S = P
  BY <1>2, <1>3
<1> QED
  BY <1>4 DEF fn_narg

LEMMA RightFileName ==
  ASSUME Table, eip0 \in ULIM..ADDR_MAX, Filed, NEW i \in Index, i > lfile, Kind(i) = N_SLINE
  PROVE  /\ file_name(i) >= lfile
         /\ file_name(i) = Last({j \in Places(N_SO) \cup Places(N_SOL) : j < i})
<1> DEFINE S == {j \in lfile..i : Kind(j) = N_SOL \/ (Kind(j) = N_SO /\ stabs[j].n_value # 0)}
           P == {j \in Places(N_SO) \cup Places(N_SOL) : j < i}
<1>1. /\ lfile \in Index /\ lfile \in Nat /\ i \in Nat /\ Kind(lfile) = N_SO /\ N_SO # N_SLINE /\ N_SOL # N_SLINE
      /\ N_SO \in Searched
  BY Numbers, Types_differ DEF Filed
<1>2. \A j \in lfile..i : j \in Index
  <2>1. i < NStabs /\ NStabs \in Nat
    BY Numbers
  <2> QED
    BY <1>1, <2>1 DEF Index
<1>3. ASSUME NEW j \in Index, Kind(j) = N_SO PROVE stabs[j].n_value # 0
  BY <1>1, <1>3, Numbers, Plain
<1>4. lfile \in S
  BY <1>1, <1>3
<1>5. S \in SUBSET Int /\ i \in Int /\ \A j \in S : j <= i
  BY <1>1
<1>6. PICK f \in S : \A j \in S : j <= f
  <2> HIDE DEF S
  <2> QED
    BY <1>4, <1>5, Latest
<1>7. Last(S) = f
  <2> HIDE DEF S
  <2> QED
    BY <1>5, <1>6, LastIs
<1>8. f >= lfile /\ f \in P
  BY <1>1, <1>2, <1>6 DEF Places
<1>9. \A j \in P : j \in Int /\ j <= f
  <2> SUFFICES ASSUME NEW j \in P PROVE j \in Int /\ j <= f
    OBVIOUS
  <2>1. j \in Index /\ j \in Nat /\ j < i /\ (Kind(j) = N_SO \/ Kind(j) = N_SOL)
    BY Numbers DEF Places
  <2>2. CASE j < lfile
    BY <1>1, <1>8, <2>1, <2>2, <1>5, <1>6
  <2>3. CASE j >= lfile
    <3>1. j \in S
      BY <1>1, <1>3, <2>1, <2>3
    <3> QED
      BY <1>6, <2>1, <3>1
  <2> QED
    BY <1>1, <2>1, <2>2, <2>3
<1>10. Last(P) = f
  <2> HIDE DEF P
  <2> QED
    BY <1>8, <1>9, LastIs
<1> QED
  BY <1>7, <1>8, <1>10 DEF file_name

\* Which of the three searches for the line it is, and where the line is.
LEMMA InWhich ==
  ASSUME Table, eip0 \in ULIM..ADDR_MAX, Bounds, Filed, Good, LineOfFunction \/ LineOfFile \/ LineOfNothing
  PROVE  /\ InFunction => /\ LineOfFunction /\ Reader(N_FUN) = lfun
                          /\ Reader(N_SLINE) \in (lfun + 1)..rfun /\ stabs[lfun].n_value = StartOf(lfun)
         /\ InAssembly => LineOfFile /\ Reader(N_SLINE) > lfile
<1>1. Reader(N_SO) = lfile /\ lfile \in Nat /\ rfile \in Nat /\ lfile <= rfile
  BY ReadersFile, Numbers DEF Filed
<1>2. N_FUN \in Searched /\ N_SLINE \in Searched /\ N_FUN # N_SLINE /\ Beyond(rfile) /\ eip0 \in Nat
  BY Types_differ, Numbers DEF Filed
<1>3. ASSUME InFunction
      PROVE  /\ LineOfFunction /\ Reader(N_FUN) = lfun
             /\ Reader(N_SLINE) \in (lfun + 1)..rfun /\ stabs[lfun].n_value = StartOf(lfun)
  <2> DEFINE F == Reader(N_FUN)
             L == Reader(N_SLINE)
  <2>1. F # -1 /\ L # -1 /\ F > lfile /\ L > F
    <3>1. F > lfile /\ L > F
      BY <1>1, <1>3 DEF InFunction
    <3>2. F = -1 \/ F \in Index
      BY <1>2, ReaderIs
    <3>3. F # -1
      BY <1>1, <3>1
    <3> QED
      BY <3>1, <3>2, <3>3, Numbers
  <2>2. /\ F \in Index /\ F \in Nat /\ Kind(F) = N_FUN /\ StartOf(F) <= eip0 /\ StartOf(F) \in Nat
        /\ \A j \in Index : Kind(j) = N_FUN /\ StartOf(j) <= eip0 => j <= F
        /\ L \in Index /\ L \in Nat /\ StartOf(L) <= eip0 /\ StartOf(L) \in Nat /\ Kind(L) = N_SLINE
    <3> HIDE DEF F, L
    <3>1. /\ F \in Index /\ Kind(F) = N_FUN /\ StartOf(F) <= eip0
          /\ \A j \in Index : Kind(j) = N_FUN /\ StartOf(j) <= eip0 => j <= F
      BY <1>2, <2>1, ReaderIs DEF F
    <3>2. L \in Index /\ StartOf(L) <= eip0 /\ Kind(L) = N_SLINE
      BY <1>2, <2>1, ReaderIs DEF L
    <3> QED
      BY <1>2, <3>1, <3>2, Numbers
  <2> HIDE DEF F, L
  <2>3. F \in (lfile + 1)..rfile
    BY <1>1, <1>2, <2>1, <2>2 DEF Beyond
  <2>4. ~LineOfFile
    BY <1>1, <2>2, <2>3 DEF LineOfFile
  <2>5. ~LineOfNothing
    BY <1>2, <2>2, <2>3 DEF LineOfNothing
  <2>6. LineOfFunction
    BY <2>4, <2>5
  <2>7. /\ lfun \in (lfile + 1)..rfile /\ Kind(lfun) = N_FUN /\ StartOf(lfun) <= eip0 /\ rfun \in lfun..rfile
        /\ \A k \in (lfun + 1)..rfun : Kind(k) # N_FUN
        /\ Beyond(rfun)
    BY <2>6 DEF LineOfFunction
  <2>8. lfun \in Index
    BY <1>1, <2>7, InFile
  <2>9. lfun <= F /\ ~(F > rfun)
    BY <1>2, <2>2, <2>7, <2>8 DEF Beyond
  <2>10. F = lfun
    BY <1>1, <2>2, <2>7, <2>9
  <2>11. L <= rfun
    BY <1>2, <2>2, <2>7, <1>1 DEF Beyond
  <2>12. stabs[lfun].n_value = StartOf(lfun)
    BY <1>2, <2>7, <2>8, Plain
  <2> QED
    BY <1>1, <2>1, <2>2, <2>6, <2>7, <2>10, <2>11, <2>12 DEF F, L
<1>4. ASSUME InAssembly PROVE LineOfFile /\ Reader(N_SLINE) > lfile
  <2>1. /\ Reader(N_SLINE) > lfile
        /\ \A i \in Places(N_FUN) : i > lfile => \E j \in Places(N_SO) : lfile < j /\ j < i
    BY <1>1, <1>4 DEF InAssembly
  <2>2. ASSUME NEW k \in (lfile + 1)..rfile, Kind(k) = N_FUN PROVE FALSE
    <3>1. k \in Index /\ k \in Places(N_FUN)
      BY <1>1, <2>2, InFile DEF Places
    <3>2. PICK j \in Places(N_SO) : lfile < j /\ j < k
      BY <1>1, <2>1, <3>1
    <3>3. j \in (lfile + 1)..rfile /\ Kind(j) = N_SO
      BY <1>1, <3>2, Numbers DEF Places
    <3> QED
      BY <3>3 DEF Filed
  <2>3. ~LineOfFunction
    BY <2>2 DEF LineOfFunction
  <2>4. ~LineOfNothing
    BY <2>2 DEF LineOfNothing
  <2> QED
    BY <2>1, <2>3, <2>4
<1> QED
  BY <1>3, <1>4

-----------------------------------------------------------------------------
(* The steps of debuginfo_eip *)

FunctionStarts ==
  /\ Starting /\ Table /\ eip0 \in ULIM..ADDR_MAX
  /\ step = "function" /\ type = N_FUN /\ addr0 = eip0 /\ left0 = lfile /\ right0 = rfile /\ lfile # 0
  /\ info = Opening
  /\ Good => Filed

LineStarts ==
  /\ Starting /\ Table /\ eip0 \in ULIM..ADDR_MAX
  /\ step = "line" /\ type = N_SLINE
  /\ Good => Filed /\ (LineOfFunction \/ LineOfFile \/ LineOfNothing)

LEMMA Begins == Starting => Bounds /\ Empty /\ Ended /\ Correct
BY BoundsStart, EmptyStart, EndedStart, NarrowedStart DEF Correct, Starting

LEMMA FunctionBegins == FunctionStarts => DebugInv
<1> SUFFICES ASSUME FunctionStarts PROVE DebugInv
  OBVIOUS
<1>1. Bounds /\ Empty /\ Ended /\ Correct
  BY Begins DEF FunctionStarts
<1>2. Sorted
  BY <1>1, SortedPlain DEF FunctionStarts
<1> QED
  BY <1>1, <1>2, Types_differ DEF FunctionStarts, DebugInv

LEMMA LineBegins == LineStarts => DebugInv
<1> SUFFICES ASSUME LineStarts PROVE DebugInv
  OBVIOUS
<1>1. Bounds /\ Empty /\ Ended /\ Correct
  BY Begins DEF LineStarts
<1>2. Good => Sorted
  BY <1>1, SortedLines DEF LineStarts
<1> QED
  BY <1>1, <1>2, Types_differ DEF LineStarts, DebugInv

LEMMA Begun == /\ FunctionStarts' => DebugInv'
               /\ LineStarts' => DebugInv'
<1>1. FunctionStarts => DebugInv
  BY FunctionBegins
<1>2. LineStarts => DebugInv
  BY LineBegins
<1> QED
  BY <1>1, <1>2, PTL

LEMMA DebugBegins == DebugInit => DebugInv
<1> SUFFICES ASSUME DebugInit PROVE DebugInv
  OBVIOUS
<1>1. Table /\ eip0 \in ULIM..ADDR_MAX
  BY Laid DEF DebugInit
<1>2. Starting
  <2>1. NStabs \in Nat \ {0} /\ eip0 \in Addrs /\ 0 \in Index /\ NStabs - 1 \in 0..(NStabs - 1)
    BY <1>1, Numbers DEF Addrs, Index
  <2>2. N_SO \in Types
    BY Types_differ, DebugAssumption
  <2> QED
    BY <1>1, <2>1, <2>2, Zenon DEF DebugInit, Starting, Table
<1>3. Bounds /\ Empty /\ Ended /\ Correct
  BY <1>2, Begins
<1>4. /\ type = N_SO /\ addr0 = eip0 /\ left0 = 0 /\ right0 = NStabs - 1 /\ info = Opening
      /\ pc = "loop" /\ step = "start"
  BY Zenon DEF DebugInit, Opening
<1>5. Sorted
  BY <1>1, <1>3, <1>4, SortedPlain
<1> QED
  BY <1>1, <1>3, <1>4, <1>5, Types_differ DEF DebugInv

\* debuginfo_eip writes neither to the table nor to the address.
LEMMA Unmoved ==
  ASSUME UNCHANGED <<stabs, eip0>>
  PROVE  /\ Table' <=> Table
         /\ Good' <=> Good
         /\ \A i : StartOf(i)' = StartOf(i) /\ Kind(i)' = Kind(i)
         /\ \A b : Beyond(b)' <=> Beyond(b)
         /\ \A t : Reader(t)' = Reader(t)
         /\ Opening' = Opening
<1>1. \A i : Kind(i)' = Kind(i)
  BY DEF Kind
<1>2. \A i : FunctionOf(i)' = FunctionOf(i)
  BY <1>1 DEF FunctionOf
<1>3. \A i : StartOf(i)' = StartOf(i)
  BY <1>1, <1>2 DEF StartOf
<1>4. Table' <=> Table
  BY <1>1, <1>2, <1>3 DEF Table
<1>5. Good' <=> Good
  BY <1>1, <1>3 DEF Good, InARow, Places
<1>6. \A b : Beyond(b)' <=> Beyond(b)
  BY <1>1, <1>3 DEF Beyond
<1>7. \A t : Reader(t)' = Reader(t)
  BY <1>1, <1>3 DEF Reader, Places
<1> QED
  BY <1>1, <1>3, <1>4, <1>5, <1>6, <1>7 DEF Opening

LEMMA CheckStep == DebugInv /\ check => DebugInv'
<1> SUFFICES ASSUME DebugInv, check PROVE DebugInv'
  OBVIOUS
<1>1. /\ step = "start" /\ UNCHANGED vars /\ UNCHANGED <<eip0, strings, lfile, rfile, lfun, rfun, info>>
      /\ step' = "file" \/ (step' = "done" /\ strings = "no terminator")
  BY DEF check, Returns
<1>2. UNCHANGED <<stabs, type, addr0, left0, right0, l, r, addr, any_matches, left, right, pc>>
  BY <1>1 DEF vars, args
<1>3. /\ Bounds' /\ Empty' /\ Ended' /\ (Sorted' <=> Sorted) /\ (Correct' <=> Correct)
  BY <1>2 DEF DebugInv, Bounds, Empty, Ended, Sorted, Correct, None, Matches, Match, Narrowed, NextIsTaken,
               Contains, Containing, Region
<1>4. /\ Table' /\ (Good' <=> Good) /\ Opening' = Opening /\ eip0' \in ULIM..ADDR_MAX
  BY <1>1, <1>2, Unmoved DEF DebugInv
<1>5. step' = "done" => RightPlace'
  <2> SUFFICES ASSUME step' = "done" PROVE RightPlace'
    OBVIOUS
  <2>1. strings' # "in order" /\ eip0' = eip0 /\ info' = info /\ info = Opening
    BY <1>1 DEF DebugInv
  <2>2. eip0' \in Int
    <3>1. eip0' = eip0 /\ eip0 \in Nat
      BY <1>1, Numbers DEF DebugInv
    <3> QED
      BY <3>1
  <2>3. ~Answers'
    BY <2>1 DEF Answers
  <2>4. info'.fn_addr = eip0'
    BY <2>1 DEF Opening
  <2>5. RightLine' /\ RightFile' /\ RightFunction'
    BY <2>3, Zenon DEF RightLine, RightFile, RightFunction
  <2>6. OffsetFits'
    BY <2>2, <2>4 DEF OffsetFits
  <2> QED
    BY <2>5, <2>6 DEF RightPlace
<1> QED
  BY <1>1, <1>2, <1>3, <1>4, <1>5 DEF DebugInv

LEMMA SearchingStep == DebugInv /\ search => DebugInv'
<1> SUFFICES ASSUME DebugInv, search PROVE DebugInv'
  OBVIOUS
<1>1. /\ step \in {"file", "function", "line"} /\ Next
      /\ UNCHANGED <<eip0, strings, lfile, rfile, lfun, rfun, info, ret, step>>
  BY DEF search, debug
<1>2. UNCHANGED <<stabs, type, addr0, left0, right0>>
  BY <1>1 DEF Next, Skip, Below, Above, Exact, NotFound, Finish, args
<1>3. Bounds' /\ Empty' /\ Ended'
  BY <1>1, BoundsStep, EmptyStep, EndedStep DEF DebugInv
<1>4. Good => Sorted' /\ Correct'
  BY <1>1, SearchStep DEF DebugInv
<1>5. /\ Table' /\ (Good' <=> Good) /\ Opening' = Opening
      /\ \A i : StartOf(i)' = StartOf(i) /\ Kind(i)' = Kind(i)
      /\ \A b : Beyond(b)' <=> Beyond(b)
  BY <1>1, <1>2, Unmoved DEF DebugInv
<1>6. Filed' <=> Filed
  BY <1>1, <1>2, <1>5 DEF Filed
<1>7. (LineOfFunction \/ LineOfFile \/ LineOfNothing) => (LineOfFunction \/ LineOfFile \/ LineOfNothing)'
  <2>1. LineOfFunction => LineOfFunction'
    BY <1>1, <1>2, <1>5 DEF LineOfFunction, Named
  <2>2. LineOfFile => LineOfFile'
    BY <1>1, <1>2, <1>5 DEF LineOfFile
  <2>3. LineOfNothing => LineOfNothing'
    BY <1>1, <1>2, <1>5 DEF LineOfNothing
  <2> QED
    BY <2>1, <2>2, <2>3
<1> QED
  BY <1>1, <1>2, <1>3, <1>4, <1>5, <1>6, <1>7 DEF DebugInv

LEMMA FileStep == DebugInv /\ file => DebugInv'
<1> SUFFICES ASSUME DebugInv, file PROVE DebugInv'
  OBVIOUS
<1>1. /\ step = "file" /\ pc = "done" /\ UNCHANGED <<eip0, strings, info>>
      /\ type = N_SO /\ addr0 = eip0 /\ left0 = 0 /\ right0 = NStabs - 1 /\ info = Opening
  BY DEF file, DebugInv
<1>2. CASE left = 0
  <2>1. step' = "done" /\ UNCHANGED vars
    BY <1>2 DEF file, Returns
  <2>2. UNCHANGED <<stabs, type, addr0, left0, right0, l, r, addr, any_matches, left, right, pc>>
    BY <2>1 DEF vars, args
  <2>3. /\ Bounds' /\ Empty' /\ Ended' /\ (Sorted' <=> Sorted) /\ (Correct' <=> Correct)
    BY <2>2 DEF DebugInv, Bounds, Empty, Ended, Sorted, Correct, None, Matches, Match, Narrowed, NextIsTaken,
                 Contains, Containing, Region
  <2>4. /\ Table' /\ (Good' <=> Good) /\ Opening' = Opening /\ eip0' \in ULIM..ADDR_MAX
        /\ \A t : Reader(t)' = Reader(t)
    BY <1>1, <2>2, Unmoved DEF DebugInv
  <2>5. Good => Reader(N_SO) = -1
    <3> SUFFICES ASSUME Good, Reader(N_SO) # -1 PROVE FALSE
      OBVIOUS
    <3>1. N_SO \in Searched /\ NStabs \in Nat \ {0} /\ Kind(left0) # type
      BY <1>1, Types_differ, StabAssumption DEF DebugInv, Table
    <3>2. Beyond(right0)
      BY <1>1, Numbers DEF Beyond, DebugInv
    <3>3. \A i \in left0..right0 : Kind(i) = N_SO => StartOf(i) > eip0
      BY <1>1, <1>2, <3>1, <3>2, Brackets DEF DebugInv
    <3>4. /\ Reader(N_SO) \in Index /\ Kind(Reader(N_SO)) = N_SO /\ StartOf(Reader(N_SO)) <= eip0
      BY <3>1, ReaderIs DEF DebugInv
    <3>5. Reader(N_SO) \in left0..right0
      BY <1>1, <3>4 DEF Index
    <3>6. StartOf(Reader(N_SO)) \in Int /\ eip0 \in Int
      BY <3>1, <3>4, Numbers DEF DebugInv
    <3> QED
      BY <3>3, <3>4, <3>5, <3>6
  <2>6. Good' => ~InFunction' /\ ~InAssembly'
    <3>1. Good' => Reader(N_SO)' = -1
      BY <2>4, <2>5
    <3> QED
      BY <3>1 DEF InFunction, InAssembly
  <2>7. info'.fn_addr = eip0' /\ eip0' \in Int
    BY <1>1, Numbers DEF DebugInv, Opening
  <2>8. RightPlace'
    <3>1. ~(Answers' /\ InFunction') /\ ~(Answers' /\ InAssembly')
      BY <2>6 DEF Answers, Good
    <3>2. RightLine' /\ RightFile'
      BY <3>1, Zenon DEF RightLine, RightFile
    <3>3. OffsetFits'
      BY <2>7 DEF OffsetFits
    <3>4. RightFunction'
      BY <1>1 DEF RightFunction, Opening
    <3> QED
      BY <3>2, <3>3, <3>4 DEF RightPlace
  <2> QED
    BY <1>1, <2>1, <2>2, <2>3, <2>4, <2>8 DEF DebugInv
<1>3. CASE left # 0
  <2>1. /\ lfile' = left /\ rfile' = right /\ Searches(N_FUN, left, right, eip0) /\ step' = "function"
    BY <1>1, <1>3 DEF file
  <2>2. /\ stabs' = stabs /\ type' = N_FUN /\ addr0' = eip0 /\ left0' = left /\ right0' = right
        /\ l' = left /\ r' = right /\ addr' = eip0 /\ any_matches' = FALSE
        /\ left' = left /\ right' = right /\ pc' = "loop"
    BY <2>1 DEF Searches
  <2>3. left <= right
    BY <1>1, <1>3 DEF DebugInv, Ended
  <2>4. left \in Index /\ right \in left..right0 /\ right \in Index /\ right0 = NStabs - 1 /\ NStabs \in Nat
    BY <1>1, <2>3, Ranged, StabAssumption DEF DebugInv
  <2>5. /\ Table' /\ (Good' <=> Good) /\ Opening' = Opening
        /\ \A i : StartOf(i)' = StartOf(i) /\ Kind(i)' = Kind(i)
        /\ \A b : Beyond(b)' <=> Beyond(b)
    BY <1>1, <2>2, Unmoved DEF DebugInv
  <2>6. N_FUN \in Types /\ eip0 \in Addrs
    BY Types_differ, DebugAssumption, Numbers DEF DebugInv, Addrs
  <2>7. Starting'
    BY <1>1, <2>2, <2>4, <2>5, <2>6, Zenon DEF Starting, Table
  <2>8. Good => Filed'
    <3> SUFFICES ASSUME Good PROVE Filed'
      OBVIOUS
    <3>1. Kind(left0) # type /\ Beyond(right0)
      BY <1>1, Types_differ, Numbers DEF DebugInv, Table, Beyond
    <3>2. /\ Kind(left) = type /\ StartOf(left) <= eip0
          /\ \A i \in (left + 1)..right : Kind(i) # type
          /\ Beyond(right)
      <4>1. left # left0
        BY <1>1, <1>3
      <4> QED
        BY <1>1, <3>1, <4>1, Brackets DEF DebugInv
    <3> QED
      BY <1>1, <2>1, <2>4, <2>5, <3>2 DEF Filed
  <2>9. FunctionStarts'
    BY <1>1, <1>3, <2>1, <2>2, <2>5, <2>7, <2>8 DEF FunctionStarts, DebugInv
  <2> QED
    BY <2>9, Begun
<1> QED
  BY <1>2, <1>3

\* What the search for the function has left.
LEMMA FunctionSearched ==
  ASSUME DebugInv, step = "function", pc = "done", Good
  PROVE  /\ Filed /\ lfile \in Nat /\ rfile \in Nat /\ left0 = lfile /\ right0 = rfile /\ eip0 \in Nat
         /\ \/ /\ left = lfile /\ \A i \in lfile..rfile : Kind(i) = N_FUN => StartOf(i) > eip0
               /\ \A i \in left..right : Kind(i) # N_FUN
               /\ (\E i \in lfile..rfile : Kind(i) = N_FUN) <=> left <= right
            \/ /\ left \in (lfile + 1)..rfile /\ Kind(left) = N_FUN /\ StartOf(left) <= eip0
               /\ right \in left..rfile /\ \A i \in (left + 1)..right : Kind(i) # N_FUN
               /\ Beyond(right)
<1>1. type = N_FUN /\ addr0 = eip0 /\ left0 = lfile /\ right0 = rfile /\ Filed
  BY DEF DebugInv
<1>2. Kind(left0) # type /\ Beyond(right0) /\ lfile \in Nat /\ rfile \in Nat /\ eip0 \in Nat
  BY <1>1, Types_differ, Numbers DEF Filed, DebugInv
<1> QED
  BY <1>1, <1>2, Brackets DEF DebugInv

LEMMA FunctionStep == DebugInv /\ function => DebugInv'
<1> SUFFICES ASSUME DebugInv, function PROVE DebugInv'
  OBVIOUS
<1>1. /\ step = "function" /\ pc = "done" /\ left <= right /\ UNCHANGED <<eip0, strings, lfile, rfile>>
      /\ lfun' = left /\ rfun' = right /\ step' = "line"
      /\ Searches(N_SLINE, left, right, (eip0 - stabs[left].n_value) % (ADDR_MAX + 1))
  BY DEF function
<1>2. info' = [info EXCEPT !.fn_name = Named(left, @), !.fn_addr = stabs[left].n_value]
  BY DEF function
<1> DEFINE a == (eip0 - stabs[left].n_value) % (ADDR_MAX + 1)
<1>3. /\ stabs' = stabs /\ type' = N_SLINE /\ addr0' = a /\ left0' = left /\ right0' = right
      /\ l' = left /\ r' = right /\ addr' = a /\ any_matches' = FALSE
      /\ left' = left /\ right' = right /\ pc' = "loop"
  BY <1>1 DEF Searches
<1>4. left \in Index /\ right \in left..right0 /\ right0 = rfile /\ left0 = lfile
  BY <1>1, Ranged DEF DebugInv
<1>5. /\ eip0 \in Nat /\ eip0 <= ADDR_MAX /\ ADDR_MAX \in Nat /\ stabs[left].n_value \in 0..ADDR_MAX
      /\ left \in Nat /\ right \in left..(NStabs - 1)
  <2>1. right0 \in Nat /\ right0 <= NStabs - 1 /\ NStabs \in Nat
    BY StabAssumption DEF DebugInv, Bounds, Index
  <2> QED
    BY <1>4, <2>1, Numbers DEF DebugInv
<1>6. a \in Addrs
  <2>1. eip0 - stabs[left].n_value \in Int /\ ADDR_MAX + 1 > 0
    BY <1>5
  <2> HIDE DEF a
  <2>2. a \in 0..ADDR_MAX
    BY <1>5, <2>1 DEF a
  <2> QED
    BY <2>2 DEF Addrs
<1>7. /\ Table' /\ (Good' <=> Good) /\ Opening' = Opening /\ eip0' \in ULIM..ADDR_MAX
      /\ \A i : StartOf(i)' = StartOf(i) /\ Kind(i)' = Kind(i)
      /\ \A b : Beyond(b)' <=> Beyond(b)
  BY <1>1, <1>3, Unmoved DEF DebugInv
<1>8. Starting'
  <2>1. N_SLINE \in Types
    BY Types_differ, DebugAssumption
  <2> HIDE DEF a
  <2> QED
    BY <1>3, <1>4, <1>5, <1>6, <1>7, <2>1, Zenon DEF Starting, Table
<1>9. Good => Filed' /\ (LineOfFunction \/ LineOfNothing)'
  <2> SUFFICES ASSUME Good PROVE Filed' /\ (LineOfFunction \/ LineOfNothing)'
    OBVIOUS
  <2>1. /\ Filed /\ lfile \in Nat /\ rfile \in Nat
        /\ \/ /\ left = lfile /\ \A i \in lfile..rfile : Kind(i) = N_FUN => StartOf(i) > eip0
              /\ \A i \in left..right : Kind(i) # N_FUN
              /\ (\E i \in lfile..rfile : Kind(i) = N_FUN) <=> left <= right
           \/ /\ left \in (lfile + 1)..rfile /\ Kind(left) = N_FUN /\ StartOf(left) <= eip0
              /\ right \in left..rfile /\ \A i \in (left + 1)..right : Kind(i) # N_FUN
              /\ Beyond(right)
    BY <1>1, FunctionSearched
  <2>2. Filed'
    BY <1>1, <1>7, <2>1 DEF Filed
  <2>3. info = Opening
    BY <1>1 DEF DebugInv
  <2>4. info' = [Opening EXCEPT !.fn_name = Named(left, UNKNOWN), !.fn_addr = stabs[left].n_value]
    BY <1>2, <2>3 DEF Opening
  <2>6. (Kind(left) = N_FUN \/ Kind(left) = N_SO) => StartOf(left) = stabs[left].n_value /\ StartOf(left) \in Nat
    BY <1>4, Plain, Numbers, Types_differ DEF DebugInv
  <2>7. CASE Kind(left) = N_FUN
    <3>1. /\ left \in (lfile + 1)..rfile /\ StartOf(left) <= eip0
          /\ right \in left..rfile /\ \A i \in (left + 1)..right : Kind(i) # N_FUN
          /\ Beyond(right)
      BY <2>1, <2>7, Types_differ DEF Filed
    <3>2. a = eip0 - StartOf(left)
      <4>1. eip0 - StartOf(left) \in 0..ADDR_MAX
        BY <1>5, <2>6, <2>7, <3>1
      <4>2. \A x \in 0..ADDR_MAX : x % (ADDR_MAX + 1) = x
        BY <1>5
      <4> QED
        BY <2>6, <2>7, <4>1, <4>2
    <3>3. info' = [Opening EXCEPT !.fn_name = Named(left, UNKNOWN), !.fn_addr = StartOf(left)]
      BY <2>4, <2>6, <2>7
    <3>4. LineOfFunction'
      <4> HIDE DEF a
      <4> QED
        BY <1>1, <1>3, <1>7, <2>7, <3>1, <3>2, <3>3 DEF LineOfFunction, Named
    <3> QED
      BY <2>2, <3>4
  <2>8. CASE Kind(left) # N_FUN
    <3>1. /\ left = lfile /\ \A i \in lfile..rfile : Kind(i) = N_FUN => StartOf(i) > eip0
          /\ \A i \in left..right : Kind(i) # N_FUN
          /\ \E i \in lfile..rfile : Kind(i) = N_FUN
      BY <1>1, <2>1, <2>8
    <3>2. Kind(lfile) = N_SO /\ N_SO # N_FUN /\ StartOf(lfile) <= eip0
      BY <2>1, Types_differ DEF Filed
    <3>3. \E k \in (lfile + 1)..rfile : Kind(k) = N_FUN
      <4>1. PICK i \in lfile..rfile : Kind(i) = N_FUN
        BY <3>1
      <4>2. i # lfile
        BY <3>2, <4>1
      <4>3. i \in (lfile + 1)..rfile
        BY <2>1, <4>2
      <4> QED
        BY <4>1, <4>3
    <3>4. \A k \in (lfile + 1)..rfile : Kind(k) = N_FUN => StartOf(k) > eip0
      BY <2>1, <3>1
    <3>5. info'.fn_addr = StartOf(left) /\ info' = [Opening EXCEPT !.fn_name = info'.fn_name, !.fn_addr = info'.fn_addr]
      BY <2>4, <2>6, <3>1, <3>2 DEF Opening
    <3>8. info'.fn_name # UNKNOWN => stabs'[info'.fn_name].n_type # N_FUN
      <4>1. info'.fn_name = UNKNOWN \/ info'.fn_name = left
        BY <2>4 DEF Opening, Named
      <4> QED
        BY <1>3, <2>8, <4>1 DEF Kind
    <3>6. right \in lfile..rfile
      BY <1>4, <3>1
    <3>7. LineOfNothing'
      <4>1. (info.fn_name # UNKNOWN => Kind(info.fn_name) # N_FUN)'
        BY <3>8 DEF Kind, UNKNOWN
      <4> QED
        BY <1>1, <1>3, <1>7, <3>1, <3>2, <3>3, <3>4, <3>5, <3>6, <4>1 DEF LineOfNothing
    <3> QED
      BY <2>2, <3>7
  <2> QED
    BY <2>7, <2>8
<1>10. LineStarts'
  BY <1>1, <1>3, <1>7, <1>8, <1>9 DEF LineStarts
<1> QED
  BY <1>10, Begun

LEMMA NoFunctionStep == DebugInv /\ no_function => DebugInv'
<1> SUFFICES ASSUME DebugInv, no_function PROVE DebugInv'
  OBVIOUS
<1>1. /\ step = "function" /\ pc = "done" /\ left > right /\ UNCHANGED <<eip0, strings, lfile, rfile, info>>
      /\ lfun' = left /\ rfun' = right /\ step' = "line"
      /\ Searches(N_SLINE, lfile, rfile, eip0)
  BY DEF no_function
<1>2. /\ stabs' = stabs /\ type' = N_SLINE /\ addr0' = eip0 /\ left0' = lfile /\ right0' = rfile
      /\ l' = lfile /\ r' = rfile /\ addr' = eip0 /\ any_matches' = FALSE
      /\ left' = lfile /\ right' = rfile /\ pc' = "loop"
  BY <1>1 DEF Searches
<1>3. lfile \in Index /\ rfile \in lfile..(NStabs - 1) /\ eip0 \in Addrs
  BY <1>1, Numbers DEF DebugInv, Bounds, Addrs
<1>4. /\ Table' /\ (Good' <=> Good) /\ Opening' = Opening /\ eip0' \in ULIM..ADDR_MAX
      /\ \A i : StartOf(i)' = StartOf(i) /\ Kind(i)' = Kind(i)
      /\ \A b : Beyond(b)' <=> Beyond(b)
  BY <1>1, <1>2, Unmoved DEF DebugInv
<1>5. Starting'
  <2>1. N_SLINE \in Types
    BY Types_differ, DebugAssumption
  <2> QED
    BY <1>2, <1>3, <1>4, <2>1, Zenon DEF Starting, Table
<1>6. Good => Filed' /\ LineOfFile'
  <2> SUFFICES ASSUME Good PROVE Filed' /\ LineOfFile'
    OBVIOUS
  <2>1. /\ Filed /\ lfile \in Nat /\ rfile \in Nat
        /\ \/ (\E i \in lfile..rfile : Kind(i) = N_FUN) <=> left <= right
           \/ left \in (lfile + 1)..rfile /\ right \in left..rfile
    BY <1>1, FunctionSearched
  <2>2. ~(left <= right)
    <3>1. left \in Int /\ right \in Int
      BY StabAssumption DEF DebugInv, Bounds, Index
    <3> QED
      BY <1>1, <3>1
  <2>3. \A k \in lfile..rfile : Kind(k) # N_FUN
    BY <2>1, <2>2
  <2>4. info' = Opening'
    BY <1>1, <1>4 DEF DebugInv
  <2>5. Filed'
    BY <1>1, <1>4, <2>1 DEF Filed
  <2>6. LineOfFile'
    BY <1>1, <1>2, <1>4, <2>3, <2>4 DEF LineOfFile
  <2> QED
    BY <2>5, <2>6
<1>7. LineStarts'
  BY <1>1, <1>2, <1>4, <1>5, <1>6 DEF LineStarts
<1> QED
  BY <1>7, Begun

LEMMA LineStep == DebugInv /\ line => DebugInv'
<1> SUFFICES ASSUME DebugInv, line PROVE DebugInv'
  OBVIOUS
<1>1. /\ step = "line" /\ pc = "done" /\ step' = "done" /\ UNCHANGED vars
      /\ UNCHANGED <<eip0, strings, lfile, rfile, lfun, rfun>>
  BY DEF line, Returns
<1>2. UNCHANGED <<stabs, type, addr0, left0, right0, l, r, addr, any_matches, left, right, pc>>
  BY <1>1 DEF vars, args
<1>3. /\ Bounds' /\ Empty' /\ Ended' /\ (Sorted' <=> Sorted) /\ (Correct' <=> Correct)
  BY <1>2 DEF DebugInv, Bounds, Empty, Ended, Sorted, Correct, None, Matches, Match, Narrowed, NextIsTaken,
               Contains, Containing, Region
<1>4. /\ Table' /\ (Good' <=> Good) /\ eip0' \in ULIM..ADDR_MAX
      /\ \A i : Kind(i)' = Kind(i)
      /\ \A t : Reader(t)' = Reader(t)
  BY <1>1, <1>2, Unmoved DEF DebugInv
<1>5. Good => RightPlace'
  <2> SUFFICES ASSUME Good PROVE RightPlace'
    OBVIOUS
  <2>1. /\ Table /\ eip0 \in ULIM..ADDR_MAX /\ Bounds /\ Ended /\ Correct /\ Filed /\ type = N_SLINE
        /\ LineOfFunction \/ LineOfFile \/ LineOfNothing
    BY <1>1 DEF DebugInv
  <2>2. /\ InFunction' <=> InFunction
        /\ InAssembly' <=> InAssembly
        /\ Places(N_PSYM)' = Places(N_PSYM) /\ Places(N_SO)' = Places(N_SO) /\ Places(N_SOL)' = Places(N_SOL)
        /\ \A i : FunctionOf(i)' = FunctionOf(i)
    BY <1>4 DEF InFunction, InAssembly, Places, FunctionOf
  <2>3. info.fn_addr <= eip0
    <3>1. eip0 \in Int /\ Opening.fn_addr = eip0
      BY <2>1, Numbers DEF Opening
    <3>2. CASE LineOfFunction
      <4>1. lfun \in lfile..rfile /\ Kind(lfun) \in Searched /\ StartOf(lfun) <= eip0
        BY <2>1, <3>2, Types_differ, Numbers DEF LineOfFunction, Filed
      <4>2. StartOf(lfun) \in Int
        BY <2>1, <4>1, InFile, Numbers
      <4>3. info.fn_addr = StartOf(lfun)
        BY <3>2 DEF LineOfFunction, Opening
      <4> QED
        BY <3>1, <4>1, <4>2, <4>3
    <3>3. CASE LineOfFile
      BY <3>1, <3>3 DEF LineOfFile
    <3>4. CASE LineOfNothing
      BY <3>1, <3>4 DEF LineOfNothing
    <3> QED
      BY <2>1, <3>2, <3>3, <3>4
  <2>4. info'.fn_addr = info.fn_addr
    <3>1. info = [Opening EXCEPT !.fn_name = info.fn_name, !.fn_addr = info.fn_addr]
      BY <2>1 DEF LineOfFunction, LineOfFile, LineOfNothing, Opening
    <3>2. \/ info' = info
          \/ info' = [info EXCEPT !.line = left, !.fn_narg = fn_narg,
                        !.file = IF file_name(left) >= lfile THEN Named(file_name(left), @) ELSE @]
      BY DEF line
    <3> QED
      BY <3>1, <3>2 DEF Opening
  <2>5. OffsetFits'
    BY <1>1, <2>3, <2>4 DEF OffsetFits
  <2>8. RightFunction'
    <3>1. info'.fn_name = info.fn_name
      <4>1. info = [Opening EXCEPT !.fn_name = info.fn_name, !.fn_addr = info.fn_addr]
        BY <2>1 DEF LineOfFunction, LineOfFile, LineOfNothing, Opening
      <4>2. \/ info' = info
            \/ info' = [info EXCEPT !.line = left, !.fn_narg = fn_narg,
                          !.file = IF file_name(left) >= lfile THEN Named(file_name(left), @) ELSE @]
        BY DEF line
      <4> QED
        BY <4>1, <4>2 DEF Opening
    <3>2. info.fn_name # UNKNOWN /\ Kind(info.fn_name) = N_FUN => info.fn_name = Reader(N_FUN)
      <4>1. CASE LineOfFunction
        <5>1. info.fn_name = UNKNOWN \/ info.fn_name = lfun
          BY <4>1 DEF LineOfFunction, Opening, Named
        <5>2. Reader(N_FUN) = lfun
          BY <2>1, <4>1, FunctionRead
        <5> QED
          BY <5>1, <5>2
      <4>2. CASE LineOfFile
        BY <4>2 DEF LineOfFile, Opening
      <4>3. CASE LineOfNothing
        BY <4>3 DEF LineOfNothing
      <4> QED
        BY <2>1, <4>1, <4>2, <4>3
    <3>3. (info.fn_name # UNKNOWN /\ Kind(info.fn_name) = N_FUN => info.fn_name = Reader(N_FUN))'
      <4>1. Reader(N_FUN)' = Reader(N_FUN) /\ stabs' = stabs
        BY <1>2, <1>4
      <4> HIDE DEF Reader
      <4> QED
        BY <3>1, <3>2, <4>1 DEF Kind, UNKNOWN
    <3> QED
      BY <3>3 DEF RightFunction
  <2>6. CASE ~InFunction /\ ~InAssembly
    <3>1. RightLine' /\ RightFile'
      BY <2>2, <2>6, Zenon DEF RightLine, RightFile
    <3> QED
      BY <2>5, <2>8, <3>1 DEF RightPlace
  <2>7. CASE InFunction \/ InAssembly
    <3> DEFINE L == Reader(N_SLINE)
    <3>1. /\ InFunction => /\ LineOfFunction /\ Reader(N_FUN) = lfun
                           /\ L \in (lfun + 1)..rfun /\ stabs[lfun].n_value = StartOf(lfun)
          /\ InAssembly => LineOfFile /\ L > lfile
      BY <2>1, InWhich
    <3>2. lfile \in Nat /\ rfile \in Nat /\ N_SLINE \in Searched
      BY <2>1, Numbers, Types_differ DEF Filed
    <3>3. L > lfile /\ L >= left0 /\ (LineOfFunction \/ LineOfFile)
      <4>1. InFunction => lfun \in (lfile + 1)..rfile /\ left0 = lfun /\ rfun \in lfun..rfile
        BY <3>1 DEF LineOfFunction
      <4>2. InAssembly => left0 = lfile
        BY <3>1 DEF LineOfFile
      <4>3. L \in Int
        BY <2>1, <3>2, ReaderIs, Numbers
      <4> HIDE DEF L
      <4> QED
        BY <2>7, <3>1, <3>2, <4>1, <4>2, <4>3
    <3>4. L # -1
      <4> HIDE DEF L
      <4> QED
        BY <3>2, <3>3
    <3>5. left = L /\ left <= right
      BY <1>1, <2>1, <3>3, <3>4, LineFound
    <3>6. L \in Index /\ Kind(L) = N_SLINE
      <4>1. L \in Index /\ Kind(L) = N_SLINE
        BY <2>1, <3>2, <3>4, ReaderIs
      <4> QED
        BY <4>1
    <3>7. left \in Int /\ right \in Int
      BY StabAssumption DEF DebugInv, Bounds, Index
    <3>8. /\ info' = [info EXCEPT !.line = left, !.fn_narg = fn_narg,
                       !.file = IF file_name(left) >= lfile THEN Named(file_name(left), @) ELSE @]
          /\ ret' = 0
      BY <3>5, <3>7 DEF line, Returns
    <3> DEFINE P == {j \in Places(N_SO) \cup Places(N_SOL) : j < L}
    <3>9. file_name(L) >= lfile /\ file_name(L) = Last(P)
      BY <2>1, <3>3, <3>6, RightFileName
    <3> HIDE DEF L, P
    <3>10. /\ info'.line = L /\ info'.fn_narg = fn_narg /\ info'.fn_name = info.fn_name
           /\ strings = "in order" => info'.file = Last(P)
      <4>1. info = [Opening EXCEPT !.fn_name = info.fn_name, !.fn_addr = info.fn_addr]
        BY <2>1 DEF LineOfFunction, LineOfFile, LineOfNothing, Opening
      <4> QED
        BY <3>5, <3>8, <3>9, <4>1 DEF Opening, Named
    <3>11. Answers' => strings = "in order"
      BY <1>1 DEF Answers
    <3>12. L' = L /\ P' = P
      BY <1>4, <2>2 DEF L, P
    <3>13. RightFile'
      BY <3>10, <3>11, <3>12 DEF RightFile, L, P
    <3>14. InFunction /\ Answers' =>
             /\ info.fn_name = lfun /\ info.fn_addr = StartOf(lfun)
             /\ fn_narg = Cardinality({j \in Places(N_PSYM) : FunctionOf(j) = lfun})
      <4> SUFFICES ASSUME InFunction, Answers' 
                   PROVE  /\ info.fn_name = lfun /\ info.fn_addr = StartOf(lfun)
                          /\ fn_narg = Cardinality({j \in Places(N_PSYM) : FunctionOf(j) = lfun})
        OBVIOUS
      <4>1. info = [Opening EXCEPT !.fn_name = Named(lfun, UNKNOWN), !.fn_addr = StartOf(lfun)]
        BY <3>1 DEF LineOfFunction
      <4>2. info.fn_name = lfun /\ info.fn_addr = StartOf(lfun)
        BY <3>11, <4>1 DEF Opening, Named
      <4>3. fn_narg = Cardinality({j \in Places(N_PSYM) : FunctionOf(j) = lfun})
        BY <2>1, <3>1, <3>6, RightParameters DEF L
      <4> QED
        BY <4>2, <4>3
    <3>15. InAssembly => info.fn_name = UNKNOWN /\ info.fn_addr = eip0
      BY <3>1 DEF LineOfFile, Opening
    <3>16. InFunction /\ Answers' =>
             /\ ret' = 0 /\ info'.line = Reader(N_SLINE)' /\ info'.fn_name = Reader(N_FUN)'
             /\ info'.fn_addr = stabs'[Reader(N_FUN)'].n_value
             /\ info'.fn_narg = Cardinality({j \in Places(N_PSYM)' : FunctionOf(j)' = Reader(N_FUN)'})
      <4> SUFFICES ASSUME InFunction, Answers'
                   PROVE  /\ ret' = 0 /\ info'.line = Reader(N_SLINE)' /\ info'.fn_name = Reader(N_FUN)'
                          /\ info'.fn_addr = stabs'[Reader(N_FUN)'].n_value
                          /\ info'.fn_narg = Cardinality({j \in Places(N_PSYM)' : FunctionOf(j)' = Reader(N_FUN)'})
        OBVIOUS
      <4>1. Reader(N_FUN)' = lfun /\ Reader(N_SLINE)' = L /\ stabs' = stabs
        BY <1>2, <1>4, <3>1 DEF L
      <4>2. {j \in Places(N_PSYM)' : FunctionOf(j)' = Reader(N_FUN)'} = {j \in Places(N_PSYM) : FunctionOf(j) = lfun}
        BY <2>2, <4>1
      <4>3. ret' = 0 /\ info'.line = L /\ info'.fn_name = lfun
        BY <3>8, <3>10, <3>14
      <4>4. info'.fn_addr = stabs[lfun].n_value
        BY <2>4, <3>1, <3>14
      <4>5. info'.fn_narg = Cardinality({j \in Places(N_PSYM) : FunctionOf(j) = lfun})
        BY <3>10, <3>14
      <4> QED
        BY <4>1, <4>2, <4>3, <4>4, <4>5
    <3>17. InAssembly => ret' = 0 /\ info'.line = Reader(N_SLINE)' /\ info'.fn_name = UNKNOWN /\ info'.fn_addr = eip0'
      BY <1>1, <1>4, <2>4, <3>8, <3>10, <3>15 DEF L
    <3>18. RightLine'
      BY <2>2, <3>16, <3>17, Zenon DEF RightLine
    <3> QED
      BY <2>5, <2>8, <3>13, <3>18 DEF RightPlace
  <2> QED
    BY <2>6, <2>7
<1>6. ~Good => RightPlace'
  <2> SUFFICES ASSUME ~Good PROVE RightPlace'
    OBVIOUS
  <2>1. ~Answers' /\ ~(eip0' < ADDR_MAX /\ ~InARow')
    BY <1>4 DEF Answers, Good
  <2> QED
    BY <2>1, Zenon DEF RightPlace, RightLine, RightFile, RightFunction, OffsetFits
<1> QED
  BY <1>1, <1>2, <1>3, <1>4, <1>5, <1>6 DEF DebugInv

LEMMA DebugSteps == DebugInv /\ [DebugNext]_<<vars, debug>> => DebugInv'
<1> SUFFICES ASSUME DebugInv, [DebugNext]_<<vars, debug>> PROVE DebugInv'
  OBVIOUS
<1>1. CASE UNCHANGED <<vars, debug>>
  <2>1. /\ UNCHANGED <<stabs, type, addr0, left0, right0, l, r, addr, any_matches, left, right, pc>>
        /\ UNCHANGED <<eip0, strings, lfile, rfile, lfun, rfun, info, ret, step>>
    BY <1>1 DEF vars, args, debug
  <2>2. /\ Bounds' /\ Empty' /\ Ended' /\ (Sorted' <=> Sorted) /\ (Correct' <=> Correct)
    BY <2>1 DEF DebugInv, Bounds, Empty, Ended, Sorted, Correct, None, Matches, Match, Narrowed, NextIsTaken,
                 Contains, Containing, Region
  <2>3. /\ Table' /\ (Good' <=> Good) /\ Opening' = Opening
        /\ \A i : StartOf(i)' = StartOf(i) /\ Kind(i)' = Kind(i)
        /\ \A b : Beyond(b)' <=> Beyond(b)
        /\ \A t : Reader(t)' = Reader(t)
    BY <2>1, Unmoved DEF DebugInv
  <2>4. Filed' <=> Filed
    BY <2>1, <2>3 DEF Filed
  <2>5. (LineOfFunction \/ LineOfFile \/ LineOfNothing)' <=> (LineOfFunction \/ LineOfFile \/ LineOfNothing)
    <3>1. LineOfFunction' <=> LineOfFunction
      BY <2>1, <2>3 DEF LineOfFunction, Named
    <3>2. LineOfFile' <=> LineOfFile
      BY <2>1, <2>3 DEF LineOfFile
    <3>3. LineOfNothing' <=> LineOfNothing
      BY <2>1, <2>3 DEF LineOfNothing
    <3> QED
      BY <3>1, <3>2, <3>3
  <2>6. RightPlace' <=> RightPlace
    <3>1. /\ InFunction' <=> InFunction
          /\ InAssembly' <=> InAssembly
          /\ \A t : Places(t)' = Places(t)
          /\ \A i : FunctionOf(i)' = FunctionOf(i)
          /\ InARow' <=> InARow
      <4>1. \A t : Places(t)' = Places(t)
        BY <2>3 DEF Places
      <4>2. \A i : FunctionOf(i)' = FunctionOf(i)
        BY <2>3 DEF FunctionOf
      <4>3. InFunction' <=> InFunction
        BY <2>3 DEF InFunction
      <4>4. InAssembly' <=> InAssembly
        BY <2>3, <4>1 DEF InAssembly
      <4>5. InARow' <=> InARow
        BY <2>1, <2>3, <4>1 DEF InARow
      <4> QED
        BY <4>1, <4>2, <4>3, <4>4, <4>5
    <3>2. Answers' <=> Answers
      BY <2>1, <3>1 DEF Answers
    <3>3. RightLine' <=> RightLine
      BY <2>1, <2>3, <3>1, <3>2 DEF RightLine
    <3>4. RightFile' <=> RightFile
      BY <2>1, <2>3, <3>1, <3>2 DEF RightFile
    <3>5. OffsetFits' <=> OffsetFits
      BY <2>1, <3>1 DEF OffsetFits
    <3>6. RightFunction' <=> RightFunction
      BY <2>1, <2>3, <3>2 DEF RightFunction, Kind
    <3> QED
      BY <3>3, <3>4, <3>5, <3>6 DEF RightPlace
  <2> QED
    BY <2>1, <2>2, <2>3, <2>4, <2>5, <2>6 DEF DebugInv
<1>2. CASE DebugNext
  BY <1>2, CheckStep, SearchingStep, FileStep, FunctionStep, NoFunctionStep, LineStep DEF DebugNext
<1> QED
  BY <1>1, <1>2

\* For every table a compiler lays out and every address: what debuginfo_eip returns is
\* the line, function, file and parameters a reader of the table finds, unless entries
\* have both the address and the next one (module DebugInfo, RightPlace).
THEOREM PlacesRight == DebugSpec => []RightPlace
<1>1. DebugInv => RightPlace
  <2>1. ASSUME DebugInv, step # "done" PROVE RightPlace
    BY <2>1, Zenon DEF RightPlace, RightLine, RightFile, RightFunction, OffsetFits, Answers
  <2> QED
    BY <2>1 DEF DebugInv
<1> QED
  BY <1>1, DebugBegins, DebugSteps, PTL DEF DebugSpec

\* All three searches stay within the table and the region they are given (module
\* StabSearch, TypeOK).
THEOREM SearchesInBounds == DebugSpec => []TypeOK
<1>1. DebugInv => TypeOK
  BY BoundsTypes DEF DebugInv
<1> QED
  BY <1>1, DebugBegins, DebugSteps, PTL DEF DebugSpec

=============================================================================
