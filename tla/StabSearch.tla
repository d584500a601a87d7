----------------------------- MODULE StabSearch -----------------------------
(***************************************************************************)
(* stab_binsearch of kern/kdebug.c: the binary search for the last entry   *)
(* of one type, among the symbol-table entries of all types, whose value   *)
(* is not above an address.  One action is one turn of its outer loop.     *)
(***************************************************************************)
EXTENDS Integers

CONSTANTS
  NStabs,      \* entries of the table
  Types,       \* values of n_type
  ADDR_MAX     \* the largest uintptr_t

Addrs == 0..ADDR_MAX

ASSUME StabAssumption == NStabs \in Nat \ {0} /\ ADDR_MAX \in Nat

VARIABLES
  stabs,                     \* the table
  type, addr0, left0, right0,   \* the arguments: type, addr and the region
  l, r, addr, any_matches,   \* locals; addr is the parameter, which is changed
  left, right,               \* *region_left and *region_right
  pc                         \* "loop" or "done"

args == <<stabs, type, addr0, left0, right0>>
vars == <<args, l, r, addr, any_matches, left, right, pc>>

Index    == 0..(NStabs - 1)
Match(i) == stabs[i].n_type = type

\* The entries of the wanted type are arranged in increasing order.
Sorted == \A i, j \in left0..right0 :
            i <= j /\ Match(i) /\ Match(j) => stabs[i].n_value <= stabs[j].n_value

Init == /\ stabs \in [Index -> [n_type : Types, n_value : Addrs]]
        /\ type \in Types /\ addr0 \in Addrs
        /\ left0 \in Index /\ right0 \in left0..(NStabs - 1)
        /\ Sorted
        /\ l = left0 /\ r = right0 /\ addr = addr0 /\ any_matches = FALSE
        /\ left = left0 /\ right = right0
        /\ pc = "loop"

-----------------------------------------------------------------------------
true_m_Half == l + (r \div 2)       \* a slip: the halving binds to r alone

true_m == (l + r) \div 2

\* m is where the scan down from true_m stops: the last entry of the type.
Found(m) == /\ m \in l..true_m
            /\ Match(m)
            /\ \A i \in (m + 1)..true_m : ~Match(i)

Looping == pc = "loop" /\ l <= r

\* No entry of the type in l..true_m.
Skip ==
  /\ Looping
  /\ \A i \in l..true_m : ~Match(i)
  /\ l' = true_m + 1
  /\ UNCHANGED <<args, r, addr, any_matches, left, right, pc>>

\* Slips: the middle taken for the entry found; the middle left in the region.
Below_Middle ==
  /\ Looping
  /\ \E m \in l..true_m : Found(m) /\ stabs[m].n_value < addr
  /\ left' = true_m /\ l' = true_m + 1
  /\ any_matches' = TRUE
  /\ UNCHANGED <<args, r, addr, right, pc>>
Below_Stays ==
  /\ Looping
  /\ \E m \in l..true_m : Found(m) /\ stabs[m].n_value < addr /\ left' = m
  /\ l' = true_m
  /\ any_matches' = TRUE
  /\ UNCHANGED <<args, r, addr, right, pc>>

Below ==
  /\ Looping
  /\ \E m \in l..true_m : Found(m) /\ stabs[m].n_value < addr /\ left' = m
  /\ l' = true_m + 1
  /\ any_matches' = TRUE
  /\ UNCHANGED <<args, r, addr, right, pc>>

\* A slip: the entry too large stays in the region.
Above_Keeps ==
  /\ Looping
  /\ \E m \in l..true_m : /\ Found(m) /\ stabs[m].n_value > addr
                          /\ right' = m /\ r' = m - 1
  /\ any_matches' = TRUE
  /\ UNCHANGED <<args, l, addr, left, pc>>

Above ==
  /\ Looping
  /\ \E m \in l..true_m : /\ Found(m) /\ stabs[m].n_value > addr
                          /\ right' = m - 1 /\ r' = m - 1
  /\ any_matches' = TRUE
  /\ UNCHANGED <<args, l, addr, left, pc>>

\* The value is addr: from here on look for the next larger one.
Exact ==
  /\ Looping
  /\ \E m \in l..true_m : /\ Found(m) /\ stabs[m].n_value = addr
                          /\ left' = m /\ l' = m
  /\ addr' = IF addr = ADDR_MAX THEN 0 ELSE addr + 1
  /\ any_matches' = TRUE
  /\ UNCHANGED <<args, r, right, pc>>

NotFound ==
  /\ pc = "loop" /\ l > r /\ ~any_matches
  /\ right' = left - 1
  /\ pc' = "done"
  /\ UNCHANGED <<args, l, r, addr, any_matches, left>>

\* Scan down from *region_right to the last entry of the type, but not below
\* *region_left.
Finish ==
  /\ pc = "loop" /\ l > r /\ any_matches
  /\ IF right <= left THEN left' = right
     ELSE \E i \in left..right : /\ i = left \/ Match(i)
                                 /\ \A j \in (i + 1)..right : ~Match(j)
                                 /\ left' = i
  /\ l' = left'
  /\ pc' = "done"
  /\ UNCHANGED <<args, r, addr, any_matches, right>>

Next == Skip \/ Below \/ Above \/ Exact \/ NotFound \/ Finish

Spec == Init /\ [][Next]_vars

-----------------------------------------------------------------------------
(* Properties *)

\* No entry outside the region is ever read, whatever the table holds: not by the
\* scan down from true_m, not by the last loop.
InRegion ==
  /\ l \in (left0 - 1)..(right0 + 1) /\ r \in (left0 - 1)..right0
  /\ left \in (left0 - 1)..right0 /\ right \in (left0 - 1)..right0
  /\ Looping => l..true_m \subseteq left0..right0
  /\ pc = "loop" /\ l > r => (left + 1)..right \subseteq left0..right0

TypeOK ==
  /\ stabs \in [Index -> [n_type : Types, n_value : Addrs]]
  /\ type \in Types /\ addr0 \in Addrs /\ addr \in Addrs
  /\ left0 \in Index /\ right0 \in left0..(NStabs - 1)
  /\ InRegion
  /\ any_matches \in BOOLEAN /\ pc \in {"loop", "done"}

Matches == {i \in left0..right0 : Match(i)}

\* The last entry of the type at or below the address, which "contains" it.
Containing(i) == /\ i \in Matches /\ stabs[i].n_value <= addr0
                 /\ \A j \in Matches : stabs[j].n_value <= addr0 => j <= i

\* The region is that of the entry i: from it up to just before the next one, or to the
\* end of what is searched if i is the last.
Region(i) == /\ left = i /\ left <= right
             /\ \A j \in Matches : j > i => j > right
             /\ right = right0 \/ right + 1 \in Matches

\* The comment on stab_binsearch: it "finds the single stab entry of type `type'
\* that contains that address", and brackets it.
Contains == pc = "done" /\ addr0 < ADDR_MAX => \A i \in Matches : Containing(i) => Region(i)

\* What does hold of the code: it does so unless entries have both the address
\* and the next one for their value, for addr++ then finds the second as well.
NextIsTaken == \E i, j \in Matches : stabs[i].n_value = addr0 /\ stabs[j].n_value = addr0 + 1
ContainsUnlessNext == NextIsTaken \/ Contains

=============================================================================
