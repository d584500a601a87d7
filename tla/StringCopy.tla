----------------------------- MODULE StringCopy -----------------------------
(***************************************************************************)
(* The functions of lib/string.c that write memory.  One action is one     *)
(* turn of a loop, or one string instruction's repetition: a rep movsl     *)
(* moves four bytes at a time, from low addresses to high ones or, with    *)
(* std, the other way.                                                     *)
(***************************************************************************)
EXTENDS Strings

CONSTANTS
  N            \* bytes of memory

Address == 0..(N - 1)
Byte    == 0..255

ASSUME CopyAssumption == N \in Nat \ {0}

VARIABLES
  mem,
  fn, dst, src, n, c,  \* the call: the function and its arguments
  d, s, left,          \* dst and src as they are moved on, and what is left of n
  by,               \* bytes moved at a time
  back,                \* DF: downwards
  at,                  \* "turn" or "returned"
  mem0                 \* history: memory at the call

call == <<fn, dst, src, n, c, mem0>>
copy == <<call, mem, d, s, left, by, back, at>>

Aligned4(a) == a % 4 = 0

Moving    == {"memmove", "memcpy"}
OfStrings == {"strcpy", "strcat", "strncpy", "strlcpy"}

-----------------------------------------------------------------------------
(* Entry *)

\* A slip: always upwards.
Overlaps_Not == FALSE

\* memmove's condition to go downwards.
Overlaps == src < dst /\ src + n > dst

memmove_width ==
  IF back THEN IF Aligned4(src + n) /\ Aligned4(dst + n) /\ Aligned4(n) THEN 4 ELSE 1
          ELSE IF Aligned4(src) /\ Aligned4(dst) /\ Aligned4(n) THEN 4 ELSE 1

\* memcpy calls memmove.  Its downward pointers here are just above the bytes to move
\* next; the code's edi and esi are `by' below them.
enter_memmove ==
  /\ fn \in Moving
  /\ back = Overlaps /\ by = memmove_width
  /\ s = (IF back THEN src + n ELSE src) /\ d = (IF back THEN dst + n ELSE dst)
  /\ left = n

enter_memset ==
  /\ fn = "memset"
  /\ back = FALSE /\ by = (IF Aligned4(dst) /\ Aligned4(n) THEN 4 ELSE 1)
  /\ d = dst /\ s = src /\ left = n

enter_str ==
  /\ fn \in OfStrings
  /\ back = FALSE /\ by = 1
  /\ d = dst + (IF fn = "strcat" THEN strlen(mem, dst) ELSE 0) /\ s = src /\ left = n

\* The string at an address has so many characters before its NUL.
HasLength(m, a, k) == a + k \in Address /\ m[a + k] = 0 /\ \A j \in 0..(k - 1) : m[a + j] # 0

\* What a caller sees to: what is read and written is in memory, strings end, and no
\* character of one is written over before it is read.
Fitting(k) ==
  /\ k.fn \in Moving \cup {"memset"} \cup OfStrings
  /\ k.mem \in [Address -> Byte] /\ k.dst \in Address /\ k.src \in Address /\ k.n \in 0..N /\ k.c \in Int
  /\ k.fn \in Moving => k.src + k.n <= N
  /\ k.fn \notin {"strcpy", "strcat"} => k.dst + k.n <= N
  /\ k.fn \in OfStrings =>
       \E len, o \in 0..N :
         /\ HasLength(k.mem, k.src, len)
         /\ IF k.fn = "strcat" THEN HasLength(k.mem, k.dst, o) ELSE o = 0
         /\ k.fn \in {"strcpy", "strcat"} => k.dst + o + len < N
         /\ ~(k.src < k.dst + o /\ k.dst + o <= k.src + len)

Fits == Fitting([fn |-> fn, mem |-> mem, dst |-> dst, src |-> src, n |-> n, c |-> c])

Enter == mem0 = mem /\ at = "turn" /\ (enter_memmove \/ enter_memset \/ enter_str)

-----------------------------------------------------------------------------

Turn(f) == at = "turn" /\ fn \in f
Ends    == at' = "returned" /\ UNCHANGED <<call, mem, d, s, left, by, back>>
Goes    == UNCHANGED <<call, by, back, at>>

\* The bytes at `from' to so many at `to', at once.
Bytes(from, to, many) ==
  [a \in Address |-> IF a \in to..(to + many - 1) THEN mem[from + (a - to)] ELSE mem[a]]

move_down ==
  /\ Turn(Moving) /\ back
  /\ IF left = 0 THEN Ends
     ELSE /\ mem' = Bytes(s - by, d - by, by)
          /\ s' = s - by /\ d' = d - by /\ left' = left - by
          /\ Goes

move_up ==
  /\ Turn(Moving) /\ ~back
  /\ IF left = 0 THEN Ends
     ELSE /\ mem' = Bytes(s, d, by)
          /\ s' = s + by /\ d' = d + by /\ left' = left - by
          /\ Goes

\* c in every byte of the word that stosl stores.
set ==
  /\ Turn({"memset"})
  /\ IF left = 0 THEN Ends
     ELSE /\ mem' = [a \in Address |-> IF a \in d..(d + by - 1) THEN c % 256 ELSE mem[a]]
          /\ d' = d + by /\ left' = left - by
          /\ UNCHANGED s /\ Goes

\* strcat is strlen and strcpy.
strcpy ==
  /\ Turn({"strcpy", "strcat"})
  /\ mem' = [mem EXCEPT ![d] = mem[s]]
  /\ d' = d + 1 /\ s' = s + 1
  /\ at' = IF mem[s] = 0 THEN "returned" ELSE "turn"
  /\ UNCHANGED <<call, left, by, back>>

strncpy ==
  /\ Turn({"strncpy"})
  /\ IF left = 0 THEN Ends
     ELSE /\ mem' = [mem EXCEPT ![d] = mem[s]]
          /\ d' = d + 1 /\ s' = IF mem'[s] # 0 THEN s + 1 ELSE s
          /\ left' = left - 1
          /\ Goes

\* A slip: no room is kept for the NUL.
strlcpy_Full ==
  /\ Turn({"strlcpy"})
  /\ IF left = 0 THEN Ends
     ELSE IF mem[s] # 0
     THEN /\ mem' = [mem EXCEPT ![d] = mem[s]]
          /\ d' = d + 1 /\ s' = s + 1 /\ left' = left - 1
          /\ Goes
     ELSE /\ mem' = [mem EXCEPT ![d] = 0]
          /\ at' = "returned"
          /\ UNCHANGED <<call, d, s, left, by, back>>

\* --size > 0 is tested before every character, so left is the code's size + 1.
strlcpy ==
  /\ Turn({"strlcpy"})
  /\ IF left = 0 THEN Ends
     ELSE IF left > 1 /\ mem[s] # 0
     THEN /\ mem' = [mem EXCEPT ![d] = mem[s]]
          /\ d' = d + 1 /\ s' = s + 1 /\ left' = left - 1
          /\ Goes
     ELSE /\ mem' = [mem EXCEPT ![d] = 0]
          /\ at' = "returned"
          /\ UNCHANGED <<call, d, s, left, by, back>>

CopyNext == move_down \/ move_up \/ set \/ strcpy \/ strncpy \/ strlcpy

CopySpec == (Fits /\ Enter) /\ [][CopyNext]_copy

-----------------------------------------------------------------------------
(* Properties *)

\* memmove's promise: afterwards the n bytes at dst are those that were at src, however
\* the two overlap, by the byte or by the word; and no other byte has changed.
Moved == at = "returned" /\ fn \in Moving =>
           mem = [a \in Address |-> IF a \in dst..(dst + n - 1) THEN mem0[src + (a - dst)]
                                                               ELSE mem0[a]]

\* The length of the string at an address, without its NUL; when the function was called.
Length(m, a) == CHOOSE k \in 0..(N - 1 - a) : HasLength(m, a, k)
Length0(a)   == Length(mem0, a)

\* The copy of a string to `to', ended by a NUL; no other byte changes.
Copied(to, len) ==
  mem = [a \in Address |-> IF a \in to..(to + len - 1) THEN mem0[src + (a - to)]
                          ELSE IF a = to + len THEN 0 ELSE mem0[a]]

\* What the other functions leave in memory: strncpy fills its n bytes, with zeros if
\* need be, and need not end the string; strlcpy ends it within its n bytes.
Written ==
  at = "returned" =>
    /\ fn = "memset" =>
         mem = [a \in Address |-> IF a \in dst..(dst + n - 1) THEN c % 256 ELSE mem0[a]]
    /\ fn = "strcpy" => Copied(dst, Length0(src))
    /\ fn = "strcat" => Copied(dst + Length0(dst), Length0(src))
    /\ fn = "strlcpy" =>
         IF n = 0 THEN mem = mem0
         ELSE Copied(dst, IF Length0(src) < n THEN Length0(src) ELSE n - 1)
    /\ fn = "strncpy" =>
         mem = [a \in Address |-> IF a \notin dst..(dst + n - 1) THEN mem0[a]
                                 ELSE IF a - dst < Length0(src) THEN mem0[src + (a - dst)] ELSE 0]

=============================================================================
