----------------------------- MODULE KbdProofs -----------------------------
(***************************************************************************)
(* The modifiers follow the keys, for every keyboard, any number of keys   *)
(* held and of bytes on the wire.                                          *)
(***************************************************************************)
EXTENDS Kbd, KbdMapProofs

-----------------------------------------------------------------------------
(* What is on the wire *)

\* A byte completes a key if it is not the prefix; esc: the prefix came before it.
KeyOf(code, esc) == [code |-> code, ext |-> esc]

\* One byte takes the keys that are down from D to E.  A prefix changes nothing; a make
\* code stands for a key that is down then, unless it is a fake shift; a break code for
\* the only modifier that is not down any more.
ByteOK(data, esc, D, E) ==
  /\ data \in Byte
  /\ D \subseteq Keys /\ E \subseteq Keys
  /\ data = E0 => ~esc /\ E = D
  /\ data < 128 => /\ KeyOf(data, esc) \in E \/ (esc /\ data = 42)
                   /\ \A k \in D \ E : ModifierOf(k) = {}
  /\ data >= 128 /\ data # E0 => D \subseteq E \cup {KeyOf(data - 128, esc)}

\* All bytes of w do, which begins with the keys D down, after a prefix if esc.
EscAt(w, esc, k)  == IF k = 1 THEN esc ELSE w[k - 1].data = E0
DownAt(w, D, k)   == IF k = 0 THEN D ELSE w[k].down
WireOK(w, esc, D) ==
  \A k \in 1..Len(w) : ByteOK(w[k].data, EscAt(w, esc, k), DownAt(w, D, k - 1), DownAt(w, D, k))

Codes == [data : Byte, down : SUBSET Keys]

\* w leaves the keys E down and no prefix behind.
Leaves(w, esc, D, E) ==
  DownAt(w, D, Len(w)) = E /\ ~EscAt(w, esc, Len(w) + 1)

LEMMA Joined ==
  ASSUME NEW w \in Seq(Codes), NEW g \in Seq(Codes), NEW esc \in BOOLEAN,
         NEW D \in SUBSET Keys, NEW E \in SUBSET Keys, NEW F \in SUBSET Keys,
         WireOK(w, esc, D), Leaves(w, esc, D, E),
         WireOK(g, FALSE, E), Leaves(g, FALSE, E, F)
  PROVE  /\ w \o g \in Seq(Codes)
         /\ WireOK(w \o g, esc, D)
         /\ Leaves(w \o g, esc, D, F)
<1> DEFINE v == w \o g
           m == Len(w)
<1>1. /\ v \in Seq(Codes) /\ Len(v) = m + Len(g) /\ m \in Nat /\ Len(g) \in Nat
      /\ \A k \in 1..m : v[k] = w[k]
      /\ \A k \in 1..Len(g) : v[m + k] = g[k]
  OBVIOUS
<1> HIDE DEF v, m
<1>2. \A k \in 1..(m + 1) : EscAt(v, esc, k) = EscAt(w, esc, k)
  BY <1>1 DEF EscAt
<1>3. \A k \in 0..m : DownAt(v, D, k) = DownAt(w, D, k)
  BY <1>1 DEF DownAt
<1>4. \A k \in 1..(Len(g) + 1) : EscAt(v, esc, m + k) = EscAt(g, FALSE, k)
  <2> SUFFICES ASSUME NEW k \in 1..(Len(g) + 1)
               PROVE  EscAt(v, esc, m + k) = EscAt(g, FALSE, k)
    OBVIOUS
  <2>1. CASE k = 1
    <3>1. EscAt(v, esc, m + 1) = EscAt(w, esc, m + 1)
      BY <1>1, <1>2
    <3>2. EscAt(w, esc, m + 1) = FALSE
      BY DEF Leaves, EscAt, m
    <3> QED
      BY <2>1, <3>1, <3>2 DEF EscAt
  <2>2. CASE k # 1
    <3>1. k - 1 \in 1..Len(g) /\ m + k # 1 /\ m + k - 1 = m + (k - 1)
      BY <1>1, <2>2
    <3> QED
      BY <1>1, <2>2, <3>1 DEF EscAt
  <2> QED
    BY <2>1, <2>2
<1>5. \A k \in 0..Len(g) : DownAt(v, D, m + k) = DownAt(g, E, k)
  <2> SUFFICES ASSUME NEW k \in 0..Len(g) PROVE DownAt(v, D, m + k) = DownAt(g, E, k)
    OBVIOUS
  <2>1. CASE k = 0
    BY <1>1, <1>3, <2>1 DEF Leaves, DownAt, m
  <2>2. CASE k # 0
    BY <1>1, <2>2 DEF DownAt
  <2> QED
    BY <2>1, <2>2
<1>6. WireOK(v, esc, D)
  <2> SUFFICES ASSUME NEW k \in 1..Len(v)
               PROVE  ByteOK(v[k].data, EscAt(v, esc, k), DownAt(v, D, k - 1), DownAt(v, D, k))
    BY DEF WireOK
  <2>1. CASE k \in 1..m
    <3>1. k - 1 \in 0..m /\ k \in 0..m /\ k \in 1..(m + 1) /\ k \in 1..Len(w)
      BY <1>1, <2>1 DEF m
    <3> QED
      BY <1>1, <1>2, <1>3, <2>1, <3>1 DEF WireOK
  <2>2. CASE k \notin 1..m
    <3> DEFINE j == k - m
    <3>1. j \in 1..Len(g) /\ j - 1 \in 0..Len(g) /\ j \in 0..Len(g) /\ j \in 1..(Len(g) + 1)
          /\ k = m + j /\ k - 1 = m + (j - 1)
      BY <1>1, <2>2
    <3> HIDE DEF j
    <3>2. ByteOK(g[j].data, EscAt(g, FALSE, j), DownAt(g, E, j - 1), DownAt(g, E, j))
      BY <3>1 DEF WireOK
    <3> QED
      BY <1>1, <1>4, <1>5, <3>1, <3>2
  <2> QED
    BY <2>1, <2>2
<1>7. Leaves(v, esc, D, F)
  <2>1. Len(g) \in 0..Len(g) /\ Len(g) + 1 \in 1..(Len(g) + 1) /\ Len(v) + 1 = m + (Len(g) + 1)
    BY <1>1
  <2> QED
    BY <1>1, <1>4, <1>5, <2>1 DEF Leaves
<1> QED
  BY <1>1, <1>6, <1>7 DEF v

\* What is sent when a key goes down, repeats, or comes up.
LEMMA OneCode ==
  ASSUME NEW d \in Byte, d # E0, NEW E \in SUBSET Keys, held \in SUBSET Keys,
         ByteOK(d, FALSE, held, E)
  PROVE  LET g == Sent(<<d>>, E)
         IN  g \in Seq(Codes) /\ WireOK(g, FALSE, held) /\ Leaves(g, FALSE, held, E)
<1> DEFINE g == Sent(<<d>>, E)
<1>2. Len(g) = 1 /\ g[1] = [data |-> d, down |-> E] /\ g \in Seq(Codes)
  BY DEF Sent, Codes
<1> HIDE DEF g
<1>3. WireOK(g, FALSE, held)
  <2>1. EscAt(g, FALSE, 1) = FALSE /\ DownAt(g, held, 0) = held /\ DownAt(g, held, 1) = E
    BY <1>2 DEF EscAt, DownAt
  <2>2. ByteOK(g[1].data, EscAt(g, FALSE, 1), DownAt(g, held, 0), DownAt(g, held, 1))
    BY <1>2 DEF ByteOK, KeyOf, EscAt, DownAt
  <2>3. \A k \in 1..Len(g) : k = 1 /\ k - 1 = 0
    BY <1>2
  <2> QED
    BY <2>2, <2>3 DEF WireOK
<1>4. Leaves(g, FALSE, held, E)
  BY <1>2 DEF Leaves, EscAt, DownAt
<1> QED
  BY <1>2, <1>3, <1>4 DEF g

LEMMA TwoCodes ==
  ASSUME NEW d \in Byte, d # E0, NEW E \in SUBSET Keys, held \in SUBSET Keys,
         ByteOK(d, TRUE, held, E)
  PROVE  LET g == Sent(<<E0, d>>, E)
         IN  g \in Seq(Codes) /\ WireOK(g, FALSE, held) /\ Leaves(g, FALSE, held, E)
<1> DEFINE g == Sent(<<E0, d>>, E)
<1>0. E0 \in Byte
  BY DEF E0, Byte
<1>1. Len(g) = 2 /\ g[1] = [data |-> E0, down |-> held] /\ g[2] = [data |-> d, down |-> E]
      /\ g \in Seq(Codes)
  BY <1>0 DEF Sent, Codes
<1> HIDE DEF g
<1>2. ByteOK(E0, FALSE, held, held)
  BY <1>0 DEF ByteOK, E0
<1>3. WireOK(g, FALSE, held)
  <2>1. /\ EscAt(g, FALSE, 1) = FALSE /\ EscAt(g, FALSE, 2) = TRUE
        /\ DownAt(g, held, 0) = held /\ DownAt(g, held, 1) = held /\ DownAt(g, held, 2) = E
    BY <1>1 DEF EscAt, DownAt
  <2>2. ByteOK(g[1].data, EscAt(g, FALSE, 1), DownAt(g, held, 0), DownAt(g, held, 1))
    BY <1>1, <1>2 DEF ByteOK, KeyOf, EscAt, DownAt
  <2>3. ByteOK(g[2].data, EscAt(g, FALSE, 2), DownAt(g, held, 1), DownAt(g, held, 2))
    <3>1. g[1].data = E0 /\ g[1].down = held /\ g[2].data = d /\ g[2].down = E
      BY <1>1
    <3> QED
      BY <2>1, <3>1
  <2>4. \A k \in 1..Len(g) : (k = 1 /\ k - 1 = 0) \/ (k = 2 /\ k - 1 = 1)
    <3>1. Len(g) = 2
      BY <1>1
    <3> QED
      BY <3>1
  <2> QED
    BY <2>2, <2>3, <2>4 DEF WireOK
<1>4. Leaves(g, FALSE, held, E)
  BY <1>1 DEF Leaves, EscAt, DownAt
<1> QED
  BY <1>1, <1>3, <1>4 DEF g

LEMMA Parted ==
  ASSUME NEW cs \in Seq(Byte), NEW ds \in Seq(Byte), ds # <<>>, NEW E
  PROVE  Sent(cs \o ds, E) = Sent(cs, held) \o Sent(ds, E)
<1> DEFINE a == Sent(cs \o ds, E)
           b == Sent(cs, held) \o Sent(ds, E)
<1>1. Len(cs \o ds) = Len(cs) + Len(ds) /\ Len(cs) \in Nat /\ Len(ds) \in Nat \ {0}
  OBVIOUS
<1>2. Len(a) = Len(cs) + Len(ds) /\ Len(b) = Len(cs) + Len(ds)
  BY <1>1 DEF Sent
<1>3. ASSUME NEW k \in 1..(Len(cs) + Len(ds)) PROVE a[k] = b[k]
  <2>1. CASE k <= Len(cs)
    BY <1>1, <2>1 DEF Sent
  <2>2. CASE ~(k <= Len(cs))
    <3>1. PICK j \in 1..Len(ds) : k = Len(cs) + j
      <4>1. k - Len(cs) \in 1..Len(ds) /\ k = Len(cs) + (k - Len(cs))
        BY <1>1, <2>2
      <4> QED
        BY <4>1
    <3>2. (cs \o ds)[k] = ds[j]
      BY <1>1, <3>1
    <3>3. b[k] = Sent(ds, E)[j] /\ (k = Len(cs \o ds) <=> j = Len(ds))
      BY <1>1, <3>1 DEF Sent
    <3>4. a[k] = [data |-> (cs \o ds)[k], down |-> IF k = Len(cs \o ds) THEN E ELSE held]
      BY <1>1 DEF Sent
    <3>5. Sent(ds, E)[j] = [data |-> ds[j], down |-> IF j = Len(ds) THEN E ELSE held]
      BY DEF Sent
    <3> QED
      BY <3>2, <3>3, <3>4, <3>5
  <2> QED
    BY <2>1, <2>2
<1> DEFINE n == Len(cs) + Len(ds)
<1>4. a = [k \in 1..n |-> a[k]] /\ b = [k \in 1..n |-> b[k]]
  BY <1>1 DEF Sent
<1> HIDE DEF a, b
<1>5. [k \in 1..n |-> a[k]] = [k \in 1..n |-> b[k]]
  BY <1>3
<1>6. a = b
  BY <1>4, <1>5
<1> QED
  BY <1>6 DEF a, b

-----------------------------------------------------------------------------
(* The decoder *)

\* Only the extended Delete key gives KEY_DEL.
LEMMA RowsWithoutDel ==
  /\ \A i \in 1..84 : NormalRows[i] < 128 /\ ShiftRows[i] < 128
  /\ \A i \in 1..54 : CtlRows[i] # KEY_DEL /\ CtlRows[i] < 240
BY SMTT(120) DEF NormalRows, ShiftRows, CtlRows, KEY_DEL

LEMMA NavDel == \A d \in Nat : NavKey(d) = KEY_DEL => d = 211
<1>1. \A i \in 1..12 : NavRows[i] = KEY_DEL => i = 12
  BY SMTT(60) DEF NavRows, KEY_DEL
<1> QED BY <1>1 DEF NavKey, NO, KEY_DEL

LEMMA DelCode ==
  ASSUME NEW code \in Nat, NEW sh,
         CapsCase(charcode(sh, code)) = KEY_DEL \/ charcode(sh, code) = KEY_DEL
  PROVE  code = 211
<1> DEFINE char == charcode(sh, code)
<1>1. normalmap(code) = KEY_DEL => code = 211
  BY RowsWithoutDel, NavDel DEF normalmap, KEY_DEL, KEY_HOME
<1>2. shiftmap(code) = KEY_DEL => code = 211
  BY <1>1, RowsWithoutDel DEF shiftmap, KEY_DEL
<1>3. ctlmap(code) = KEY_DEL => code = 211
  BY RowsWithoutDel, NavDel DEF ctlmap, KEY_DEL, KEY_HOME
<1>4. char \in Byte
  BY MapsBytes DEF charcode
<1> HIDE DEF char
<1>5. CapsCase(char) = KEY_DEL => char = KEY_DEL
  BY <1>4 DEF CapsCase, IsLower, IsUpper, KEY_DEL, Byte
<1> QED
  BY <1>1, <1>2, <1>3, <1>5 DEF char, charcode

LEMMA NoModifier ==
  /\ \A data : shiftcode(data) \subseteq Modifiers /\ togglecode(data) \cap Modifiers = {}
  /\ shiftcode(170) = {}
  /\ \A data : "E0ESC" \notin shiftcode(data) /\ "E0ESC" \notin togglecode(data)
BY DEF shiftcode, togglecode, ShiftKeys, Modifiers, Locks

\* The keys that are down account for the modifiers.
Backed(sh, D) == \A m \in Modifiers \cap sh : \E k \in D : m \in ModifierOf(k)

LEMMA Decoded ==
  ASSUME NEW sh \in SUBSET Flags, NEW data \in Byte, NEW D, NEW E,
         NEW esc \in BOOLEAN, esc <=> "E0ESC" \in sh,
         ByteOK(data, esc, D, E), Backed(sh, D)
  PROVE  LET r == Decode(sh, data)
         IN  /\ "E0ESC" \in r.shift <=> data = E0
             /\ Backed(r.shift, E)
             /\ r.reboot => /\ {"CTL", "ALT"} \subseteq r.shift
                            /\ [code |-> 83, ext |-> TRUE] \in E
<1> DEFINE r == Decode(sh, data)
<1>1. CASE data = E0
  <2>1. r = [shift |-> sh \cup {"E0ESC"}, c |-> NO, reboot |-> FALSE]
    BY <1>1 DEF Decode, Escaped
  <2>2. E = D
    BY <1>1 DEF ByteOK
  <2>3. r.shift = sh \cup {"E0ESC"} /\ r.reboot = FALSE
    BY <2>1
  <2> HIDE DEF r
  <2>4. Backed(r.shift, E)
    BY <2>2, <2>3 DEF Backed, Modifiers
  <2> QED
    BY <1>1, <2>3, <2>4 DEF r
<1>2. CASE data # E0 /\ data >= 128
  <2> DEFINE up  == IF esc THEN data ELSE data - 128
             key == KeyOf(data - 128, esc)
  <2>1. r = [shift |-> sh \ (shiftcode(up) \cup {"E0ESC"}), c |-> NO, reboot |-> FALSE]
    BY <1>2 DEF Decode, Released
  <2>2. r.shift = sh \ (shiftcode(up) \cup {"E0ESC"}) /\ r.reboot = FALSE
    BY <2>1
  <2>3. D \subseteq E \cup {key}
    BY <1>2 DEF ByteOK
  <2>4. ModifierOf(key) = shiftcode(up)
    <3>1. key.ext = esc /\ key.code = data - 128
      BY DEF KeyOf
    <3>2. (IF key.ext THEN key.code + 128 ELSE key.code) = up
      BY <1>2, <3>1 DEF Byte
    <3> QED
      BY <3>2 DEF ModifierOf
  <2> HIDE DEF r, up, key
  <2>5. Backed(r.shift, E)
    <3> SUFFICES ASSUME NEW m \in Modifiers, m \in r.shift
                 PROVE  \E k \in E : m \in ModifierOf(k)
      BY DEF Backed
    <3>1. PICK k \in D : m \in ModifierOf(k)
      BY <2>2 DEF Backed
    <3>2. k # key
      BY <2>2, <2>4, <3>1
    <3> QED
      BY <2>3, <3>1, <3>2
  <2> QED
    BY <1>2, <2>2, <2>5 DEF r
<1>3. CASE data # E0 /\ data < 128
  <2> DEFINE code == IF "E0ESC" \in sh THEN data + 128 ELSE data
             now  == (((sh \ {"E0ESC"}) \cup shiftcode(code)) \ togglecode(code))
                       \cup (togglecode(code) \ ((sh \ {"E0ESC"}) \cup shiftcode(code)))
             char == charcode(now, code)
             c    == IF "CAPSLOCK" \in now THEN CapsCase(char) ELSE char
             key  == KeyOf(data, esc)
  <2>1. r = [shift |-> now, c |-> c, reboot |-> {"CTL", "ALT"} \subseteq now /\ c = KEY_DEL]
    BY <1>3 DEF Decode, Pressed, Unescaped, ResetKeys, Byte
  <2>2. code \in Nat
    BY DEF Byte
  <2>3. /\ key \in E \/ (esc /\ data = 42)
        /\ \A k \in D \ E : ModifierOf(k) = {}
    BY <1>3 DEF ByteOK
  <2>4. ModifierOf(key) = shiftcode(code)
    <3>1. key.ext = esc /\ key.code = data
      BY DEF KeyOf
    <3> QED
      BY <3>1 DEF ModifierOf
  <2>5. esc /\ data = 42 => shiftcode(code) = {}
    BY NoModifier
  <2>6. code = 211 => key = [code |-> 83, ext |-> TRUE] /\ data = 83
    <3>1. code = 211 => esc = TRUE /\ data = 83
      BY <1>3 DEF Byte
    <3> QED
      BY <3>1 DEF KeyOf
  <2> HIDE DEF code, now, key, r
  <2>7. r.shift = now /\ r.reboot = ({"CTL", "ALT"} \subseteq now /\ c = KEY_DEL)
    BY <2>1
  <2>8. r.reboot => {"CTL", "ALT"} \subseteq now /\ code = 211
    <3>1. c = KEY_DEL => code = 211
      BY <2>2, DelCode DEF c, char
    <3> QED
      BY <2>7, <3>1
  <2> HIDE DEF c
  <2>9. "E0ESC" \notin now
    BY NoModifier DEF now
  <2>10. \A m \in Modifiers : m \in now => m \in sh \/ m \in shiftcode(code)
    BY NoModifier DEF now
  <2>11. Backed(now, E)
    <3> SUFFICES ASSUME NEW m \in Modifiers, m \in now
                 PROVE  \E k \in E : m \in ModifierOf(k)
      BY DEF Backed
    <3>1. CASE m \in sh
      <4>1. PICK k \in D : m \in ModifierOf(k)
        BY <3>1 DEF Backed
      <4> QED
        BY <2>3, <4>1
    <3>2. CASE m \in shiftcode(code)
      BY <2>3, <2>4, <2>5, <3>2
    <3> QED
      BY <2>10, <3>1, <3>2
  <2>12. code = 211 => [code |-> 83, ext |-> TRUE] \in E
    <3> SUFFICES ASSUME code = 211 PROVE [code |-> 83, ext |-> TRUE] \in E
      OBVIOUS
    <3>1. key = [code |-> 83, ext |-> TRUE] /\ data = 83
      BY <2>6
    <3>2. key \in E
      BY <2>3, <3>1
    <3> QED
      BY <3>1, <3>2, Zenon
  <2>13. r.reboot => {"CTL", "ALT"} \subseteq r.shift /\ [code |-> 83, ext |-> TRUE] \in E
    BY <2>7, <2>8, <2>12
  <2>14. "E0ESC" \notin r.shift /\ Backed(r.shift, E)
    BY <2>7, <2>9, <2>11
  <2> QED
    BY <1>3, <2>13, <2>14 DEF r
<1> QED
  BY <1>1, <1>2, <1>3 DEF Byte

LEMMA Taken ==
  ASSUME NEW w \in Seq(Codes), w # <<>>, NEW esc \in BOOLEAN,
         NEW D \in SUBSET Keys, NEW E \in SUBSET Keys,
         WireOK(w, esc, D), Leaves(w, esc, D, E),
         NEW next \in BOOLEAN, next <=> Head(w).data = E0
  PROVE  /\ Head(w) \in Codes /\ Tail(w) \in Seq(Codes)
         /\ ByteOK(Head(w).data, esc, D, Head(w).down)
         /\ WireOK(Tail(w), next, Head(w).down)
         /\ Leaves(Tail(w), next, Head(w).down, E)
<1> DEFINE t == Tail(w)
           H == Head(w).down
<1>1. /\ Len(w) \in Nat \ {0} /\ Head(w) = w[1] /\ Head(w) \in Codes
      /\ t \in Seq(Codes) /\ Len(t) = Len(w) - 1 /\ Len(t) \in Nat
      /\ \A k \in 1..Len(t) : t[k] = w[k + 1]
  OBVIOUS
<1> HIDE DEF t
<1>2. ByteOK(Head(w).data, esc, D, Head(w).down)
  <2>1. ByteOK(w[1].data, EscAt(w, esc, 1), DownAt(w, D, 0), DownAt(w, D, 1))
    <3>1. 1 \in 1..Len(w) /\ 1 - 1 = 0
      BY <1>1
    <3> QED
      BY <3>1 DEF WireOK
  <2>2. EscAt(w, esc, 1) = esc /\ DownAt(w, D, 0) = D /\ DownAt(w, D, 1) = w[1].down
    BY DEF EscAt, DownAt
  <2> QED
    BY <1>1, <2>1, <2>2
<1>3. \A k \in 1..(Len(t) + 1) : EscAt(t, next, k) = EscAt(w, esc, k + 1)
  <2> SUFFICES ASSUME NEW k \in 1..(Len(t) + 1)
               PROVE  EscAt(t, next, k) = EscAt(w, esc, k + 1)
    OBVIOUS
  <2>1. k + 1 # 1 /\ k + 1 - 1 = k
    BY <1>1
  <2>2. EscAt(w, esc, k + 1) = (w[k].data = E0)
    BY <2>1 DEF EscAt
  <2>3. CASE k = 1
    BY <1>1, <2>2, <2>3 DEF EscAt
  <2>4. CASE k # 1
    <3>1. t[k - 1] = w[k]
      <4>1. k - 1 \in 1..Len(t) /\ k - 1 + 1 = k
        BY <1>1, <2>4
      <4> QED
        BY <1>1, <4>1
    <3> QED
      BY <2>2, <2>4, <3>1 DEF EscAt
  <2> QED
    BY <2>3, <2>4
<1>4. \A k \in 0..Len(t) : DownAt(t, H, k) = DownAt(w, D, k + 1)
  <2> SUFFICES ASSUME NEW k \in 0..Len(t) PROVE DownAt(t, H, k) = DownAt(w, D, k + 1)
    OBVIOUS
  <2>1. DownAt(w, D, k + 1) = w[k + 1].down
    BY <1>1 DEF DownAt
  <2>2. CASE k = 0
    BY <1>1, <2>1, <2>2 DEF DownAt
  <2>3. CASE k # 0
    <3>1. k \in 1..Len(t)
      BY <1>1, <2>3
    <3> QED
      BY <1>1, <2>1, <2>3, <3>1 DEF DownAt
  <2> QED
    BY <2>2, <2>3
<1>5. WireOK(t, next, H)
  <2> SUFFICES ASSUME NEW k \in 1..Len(t)
               PROVE  ByteOK(t[k].data, EscAt(t, next, k), DownAt(t, H, k - 1), DownAt(t, H, k))
    BY DEF WireOK
  <2>1. /\ k \in 1..(Len(t) + 1) /\ k - 1 \in 0..Len(t) /\ k \in 0..Len(t)
        /\ k + 1 \in 1..Len(w) /\ k - 1 + 1 = k /\ k + 1 - 1 = k
    BY <1>1
  <2>2. ByteOK(w[k + 1].data, EscAt(w, esc, k + 1), DownAt(w, D, k), DownAt(w, D, k + 1))
    BY <2>1 DEF WireOK
  <2>3. DownAt(t, H, k - 1) = DownAt(w, D, k) /\ DownAt(t, H, k) = DownAt(w, D, k + 1)
    BY <1>4, <2>1
  <2> QED
    BY <1>1, <1>3, <2>1, <2>2, <2>3
<1>6. Leaves(t, next, H, E)
  <2>1. Len(t) \in 0..Len(t) /\ Len(t) + 1 \in 1..(Len(t) + 1) /\ Len(t) + 1 = Len(w)
    BY <1>1
  <2> QED
    BY <1>3, <1>4, <2>1 DEF Leaves
<1> QED
  BY <1>1, <1>2, <1>5, <1>6 DEF t

-----------------------------------------------------------------------------
(* The invariant *)

KbdInv ==
  /\ held \in SUBSET Keys /\ down \in SUBSET Keys
  /\ wire \in Seq(Codes) /\ shift \in SUBSET Flags
  /\ out \in [c : Byte, reboot : BOOLEAN]
  /\ \E esc \in BOOLEAN : /\ esc <=> "E0ESC" \in shift
                          /\ WireOK(wire, esc, down)
                          /\ Leaves(wire, esc, down, held)
  /\ NoStuckModifier
  /\ ResetNeedsChord

LEMMA Keyed ==
  ASSUME NEW k \in Keys
  PROVE  /\ k.code \in 1..127 /\ k.ext \in BOOLEAN /\ KeyOf(k.code, k.ext) = k
         /\ k.code \in Byte /\ k.code # E0
         /\ k.code + 128 \in Byte /\ k.code + 128 # E0
<1>1. k \in [code : 1..127, ext : BOOLEAN] /\ k.code # E0 - 128
  BY KeysAssumption
<1>2. k = [code |-> k.code, ext |-> k.ext] /\ k.code \in 1..127 /\ k.ext \in BOOLEAN
  BY <1>1
<1> QED
  BY <1>1, <1>2 DEF KeyOf, E0, Byte

\* The codes of one key keep the wire in order.
LEMMA Wired ==
  ASSUME NEW d \in Byte, d # E0, NEW k \in Keys, NEW E \in SUBSET Keys,
         held \in SUBSET Keys, ByteOK(d, k.ext, held, E)
  PROVE  LET g == Sent(IF k.ext THEN <<E0, d>> ELSE <<d>>, E)
         IN  g \in Seq(Codes) /\ WireOK(g, FALSE, held) /\ Leaves(g, FALSE, held, E)
<1>1. CASE k.ext
  <2>1. ByteOK(d, TRUE, held, E)
    <3>1. k.ext = TRUE
      BY <1>1, Keyed
    <3> QED
      BY <3>1
  <2> QED
    BY <1>1, <2>1, TwoCodes
<1>2. CASE ~k.ext
  <2>1. ByteOK(d, FALSE, held, E)
    <3>1. k.ext = FALSE
      BY <1>2, Keyed
    <3> QED
      BY <3>1
  <2> QED
    BY <1>2, <2>1, OneCode
<1> QED
  BY <1>1, <1>2

LEMMA ByteSeqs ==
  ASSUME NEW a \in Byte, NEW b \in Byte
  PROVE  /\ <<a>> \in Seq(Byte) /\ <<a>> # <<>>
         /\ <<a, b>> \in Seq(Byte) /\ <<a, b>> # <<>>
OBVIOUS

LEMMA KeyCodes ==
  ASSUME NEW k \in Keys
  PROVE  /\ Make(k) \in Seq(Byte) /\ Make(k) # <<>>
         /\ Break(k) \in Seq(Byte)
         /\ <<E0, 42>> \in Seq(Byte) /\ <<E0, 42>> # <<>> /\ <<E0, 170>> \in Seq(Byte)
<1>1. E0 \in Byte /\ 42 \in Byte /\ 170 \in Byte
  BY DEF E0, Byte
<1>2. <<E0, 42>> \in Seq(Byte) /\ <<E0, 42>> # <<>> /\ <<E0, 170>> \in Seq(Byte)
  BY <1>1, ByteSeqs
<1>3. Make(k) \in Seq(Byte) /\ Make(k) # <<>>
  BY <1>1, Keyed, ByteSeqs DEF Make
<1>4. Break(k) \in Seq(Byte)
  BY <1>1, Keyed, ByteSeqs DEF Break
<1> QED
  BY <1>2, <1>3, <1>4

LEMMA NothingJoined == \A s \in Seq(Byte) : <<>> \o s = s /\ s \o <<>> = s
OBVIOUS

\* A touch of the keyboard that sends g.
LEMMA Touched ==
  ASSUME KbdInv, NEW g \in Seq(Codes), NEW E \in SUBSET Keys,
         WireOK(g, FALSE, held), Leaves(g, FALSE, held, E),
         held' = E, wire' = wire \o g, UNCHANGED <<shift, out, down>>
  PROVE  KbdInv'
<1>1. PICK esc \in BOOLEAN : /\ esc <=> "E0ESC" \in shift
                             /\ WireOK(wire, esc, down)
                             /\ Leaves(wire, esc, down, held)
  BY DEF KbdInv
<1>2. /\ wire \o g \in Seq(Codes)
      /\ WireOK(wire \o g, esc, down)
      /\ Leaves(wire \o g, esc, down, E)
  <2>1. wire \in Seq(Codes) /\ down \in SUBSET Keys /\ held \in SUBSET Keys
    BY DEF KbdInv
  <2> QED
    BY <1>1, <2>1, Joined
<1> QED
  BY <1>1, <1>2 DEF KbdInv, NoStuckModifier, ResetNeedsChord

LEMMA Pressing ==
  ASSUME KbdInv, NEW k \in Keys, Press(k)
  PROVE  KbdInv'
<1> DEFINE E == held \cup {k}
           g == Sent(Make(k), E)
<1>0. held \in SUBSET Keys /\ E \in SUBSET Keys
  BY DEF KbdInv
<1>1. g \in Seq(Codes) /\ WireOK(g, FALSE, held) /\ Leaves(g, FALSE, held, E)
  <2>1. ByteOK(k.code, k.ext, held, E)
    BY <1>0, Keyed DEF ByteOK
  <2> QED
    BY <1>0, <2>1, Keyed, Wired DEF Make
<1>2. CASE ~(Navigation(k) /\ LShift \in held)
  <2>1. MakeCodes(k) = Make(k)
    <3>1. MakeCodes(k) = <<>> \o Make(k)
      BY <1>2 DEF MakeCodes
    <3> QED
      BY <3>1, KeyCodes, NothingJoined
  <2> HIDE DEF g
  <2> QED
    BY <1>0, <1>1, <2>1, Touched DEF Press, g
<1>3. CASE Navigation(k) /\ LShift \in held
  <2> DEFINE f == Sent(<<E0, 170>>, held)
  <2>1. f \in Seq(Codes) /\ WireOK(f, FALSE, held) /\ Leaves(f, FALSE, held, held)
    <3>1. 170 \in Byte /\ 170 # E0 /\ ByteOK(170, TRUE, held, held)
      BY <1>0 DEF ByteOK, KeyOf, Byte, E0
    <3> QED
      BY <1>0, <3>1, TwoCodes
  <2>2. Sent(MakeCodes(k), E) = f \o g
    <3>1. MakeCodes(k) = <<E0, 170>> \o Make(k)
      BY <1>3 DEF MakeCodes
    <3>2. Sent(<<E0, 170>> \o Make(k), E) = Sent(<<E0, 170>>, held) \o Sent(Make(k), E)
      <4> DEFINE cs == <<E0, 170>>
                 ds == Make(k)
      <4>1. cs \in Seq(Byte) /\ ds \in Seq(Byte) /\ ds # <<>>
        BY KeyCodes
      <4> HIDE DEF cs, ds
      <4>2. Sent(cs \o ds, E) = Sent(cs, held) \o Sent(ds, E)
        BY <4>1, Parted
      <4> QED
        BY <4>2 DEF cs, ds
    <3> QED
      BY <3>1, <3>2
  <2> HIDE DEF f, g
  <2>3. f \o g \in Seq(Codes) /\ WireOK(f \o g, FALSE, held) /\ Leaves(f \o g, FALSE, held, E)
    BY <1>0, <1>1, <2>1, Joined
  <2> QED
    BY <1>0, <2>2, <2>3, Touched DEF Press
<1> QED
  BY <1>2, <1>3

LEMMA Repeating ==
  ASSUME KbdInv, NEW k \in Keys, Repeat(k)
  PROVE  KbdInv'
<1> DEFINE g == Sent(Make(k), held)
<1>0. held \in SUBSET Keys /\ k \in held
  BY DEF KbdInv, Repeat
<1>1. g \in Seq(Codes) /\ WireOK(g, FALSE, held) /\ Leaves(g, FALSE, held, held)
  <2>1. ByteOK(k.code, k.ext, held, held)
    BY <1>0, Keyed DEF ByteOK
  <2> QED
    BY <1>0, <2>1, Keyed, Wired DEF Make
<1> HIDE DEF g
<1> QED
  BY <1>0, <1>1, Touched DEF Repeat, g

LEMMA Releasing ==
  ASSUME KbdInv, NEW k \in Keys, Release(k)
  PROVE  KbdInv'
<1> DEFINE E == held \ {k}
<1>0. held \in SUBSET Keys /\ E \in SUBSET Keys
  BY DEF KbdInv
<1>1. ASSUME NEW F \in SUBSET Keys, held \subseteq F \cup {k}
      PROVE  LET g == Sent(Break(k), F)
             IN  g \in Seq(Codes) /\ WireOK(g, FALSE, held) /\ Leaves(g, FALSE, held, F)
  <2>1. ByteOK(k.code + 128, k.ext, held, F)
    <3>1. k.code + 128 - 128 = k.code /\ ~(k.code + 128 < 128)
      BY Keyed
    <3>2. KeyOf(k.code + 128 - 128, k.ext) = k
      BY <3>1, Keyed
    <3> QED
      BY <1>0, <1>1, <3>1, <3>2, Keyed DEF ByteOK
  <2> QED
    BY <1>0, <1>1, <2>1, Keyed, Wired DEF Break
<1>2. CASE ~(Navigation(k) /\ LShift \in held)
  <2>1. BreakCodes(k) = Break(k)
    <3>1. BreakCodes(k) = Break(k) \o <<>>
      BY <1>2 DEF BreakCodes
    <3> QED
      BY <3>1, KeyCodes, NothingJoined
  <2> QED
    BY <1>0, <1>1, <2>1, Touched DEF Release
<1>3. CASE Navigation(k) /\ LShift \in held
  <2> DEFINE f == Sent(<<E0, 42>>, E)
             g == Sent(Break(k), held)
  <2>1. f \in Seq(Codes) /\ WireOK(f, FALSE, held) /\ Leaves(f, FALSE, held, E)
    <3>1. ModifierOf(k) = {}
      BY <1>3, Keyed DEF Navigation, ModifierOf, shiftcode, ShiftKeys, Modifiers
    <3>2. 42 \in Byte /\ 42 # E0 /\ ByteOK(42, TRUE, held, E)
      BY <1>0, <3>1 DEF ByteOK, Byte, E0
    <3> QED
      BY <1>0, <3>2, TwoCodes
  <2>2. Sent(BreakCodes(k), E) = g \o f
    <3>1. BreakCodes(k) = Break(k) \o <<E0, 42>>
      BY <1>3 DEF BreakCodes
    <3>2. Sent(Break(k) \o <<E0, 42>>, E) = Sent(Break(k), held) \o Sent(<<E0, 42>>, E)
      <4> DEFINE cs == Break(k)
                 ds == <<E0, 42>>
      <4>1. cs \in Seq(Byte) /\ ds \in Seq(Byte) /\ ds # <<>>
        BY KeyCodes
      <4> HIDE DEF cs, ds
      <4>2. Sent(cs \o ds, E) = Sent(cs, held) \o Sent(ds, E)
        BY <4>1, Parted
      <4> QED
        BY <4>2 DEF cs, ds
    <3> QED
      BY <3>1, <3>2
  <2>3. g \in Seq(Codes) /\ WireOK(g, FALSE, held) /\ Leaves(g, FALSE, held, held)
    BY <1>0, <1>1
  <2> HIDE DEF f, g
  <2>4. g \o f \in Seq(Codes) /\ WireOK(g \o f, FALSE, held) /\ Leaves(g \o f, FALSE, held, E)
    BY <1>0, <2>1, <2>3, Joined
  <2> QED
    BY <1>0, <2>2, <2>4, Touched DEF Release
<1> QED
  BY <1>2, <1>3

LEMMA Decoding ==
  ASSUME KbdInv, kbd_proc_data
  PROVE  KbdInv'
<1> DEFINE data == Head(wire).data
           r    == Decode(shift, data)
<1>1. PICK esc \in BOOLEAN : /\ esc <=> "E0ESC" \in shift
                             /\ WireOK(wire, esc, down)
                             /\ Leaves(wire, esc, down, held)
  BY DEF KbdInv
<1>2. PICK next \in BOOLEAN : next <=> data = E0
  OBVIOUS
<1>3. /\ Head(wire) \in Codes /\ Tail(wire) \in Seq(Codes)
      /\ ByteOK(data, esc, down, Head(wire).down)
      /\ WireOK(Tail(wire), next, Head(wire).down)
      /\ Leaves(Tail(wire), next, Head(wire).down, held)
  BY <1>1, <1>2, Taken DEF KbdInv, kbd_proc_data
<1>4. data \in Byte /\ Head(wire).down \in SUBSET Keys
  BY <1>3 DEF Codes
<1>5. /\ "E0ESC" \in r.shift <=> data = E0
      /\ Backed(r.shift, Head(wire).down)
      /\ r.reboot => /\ {"CTL", "ALT"} \subseteq r.shift
                     /\ [code |-> 83, ext |-> TRUE] \in Head(wire).down
  BY <1>1, <1>3, <1>4, Decoded DEF KbdInv, NoStuckModifier, Backed
<1>6. r.shift \in SUBSET Flags /\ r.c \in Byte /\ r.reboot \in BOOLEAN
  BY <1>4, DecodeType DEF KbdInv
<1> HIDE DEF r, data
<1>7. /\ shift' = r.shift /\ out' = [c |-> r.c, reboot |-> r.reboot]
      /\ down' = Head(wire).down /\ wire' = Tail(wire) /\ held' = held
  BY DEF kbd_proc_data, r, data
<1>8. NoStuckModifier'
  BY <1>5, <1>7 DEF NoStuckModifier, Backed
<1>9. ResetNeedsChord'
  <2>1. out'.reboot = r.reboot
    BY <1>7
  <2>2. "CTL" \in Modifiers /\ "ALT" \in Modifiers
    BY DEF Modifiers
  <2> QED
    BY <1>5, <1>7, <2>1, <2>2 DEF ResetNeedsChord, Backed
<1>10. \E e \in BOOLEAN : /\ e <=> "E0ESC" \in shift'
                          /\ WireOK(wire', e, down')
                          /\ Leaves(wire', e, down', held')
  BY <1>2, <1>3, <1>5, <1>7
<1>11. out' \in [c : Byte, reboot : BOOLEAN]
  BY <1>6, <1>7
<1> QED
  BY <1>3, <1>4, <1>6, <1>7, <1>8, <1>9, <1>10, <1>11 DEF KbdInv

LEMMA KbdInvariant == Spec => []KbdInv
<1>1. Init => KbdInv
  <2> SUFFICES ASSUME Init PROVE KbdInv
    OBVIOUS
  <2>1. wire = <<>> /\ held = {} /\ shift = {} /\ down = {} /\ out = [c |-> NO, reboot |-> FALSE]
    BY DEF Init
  <2>2. WireOK(wire, FALSE, down)
    BY <2>1 DEF WireOK
  <2>3. Leaves(wire, FALSE, down, held)
    BY <2>1 DEF Leaves, EscAt, DownAt
  <2>4. \E esc \in BOOLEAN : /\ esc <=> "E0ESC" \in shift
                             /\ WireOK(wire, esc, down)
                             /\ Leaves(wire, esc, down, held)
    BY <2>1, <2>2, <2>3
  <2>5. out \in [c : Byte, reboot : BOOLEAN] /\ ~out.reboot
    BY <2>1 DEF Byte, NO
  <2> QED
    BY <2>1, <2>4, <2>5 DEF KbdInv, NoStuckModifier, ResetNeedsChord
<1>2. KbdInv /\ [Next]_vars => KbdInv'
  <2> SUFFICES ASSUME KbdInv, [Next]_vars PROVE KbdInv'
    OBVIOUS
  <2>1. CASE UNCHANGED vars
    BY <2>1 DEF vars, KbdInv, NoStuckModifier, ResetNeedsChord
  <2>2. CASE Next
    BY <2>2, Pressing, Repeating, Releasing, Decoding DEF Next
  <2> QED
    BY <2>1, <2>2
<1> QED
  BY <1>1, <1>2, PTL DEF Spec

\* No modifier of kbd_proc_data is ever stuck: for every keyboard, however many keys are
\* held and however far the decoder lags behind the keys.
THEOREM NeverStuck == Spec => []NoStuckModifier
<1>1. KbdInv => NoStuckModifier
  BY DEF KbdInv
<1> QED
  BY <1>1, KbdInvariant, PTL

\* kbd_proc_data resets the machine for nothing less than Ctrl-Alt-Del.
THEOREM AlwaysChord == Spec => []ResetNeedsChord
<1>1. KbdInv => ResetNeedsChord
  BY DEF KbdInv
<1> QED
  BY <1>1, KbdInvariant, PTL

\* No escape is pending in kbd_proc_data once the wire is empty.
THEOREM NeverStale == Spec => []NoStaleEscape
<1>1. KbdInv => NoStaleEscape
  BY DEF KbdInv, NoStaleEscape, Leaves, EscAt
<1> QED
  BY <1>1, KbdInvariant, PTL

\* shift stays a set of flags, the characters of kbd_proc_data fit a byte.
THEOREM KbdTypes == Spec => []TypeOK
<1>1. KbdInv => TypeOK
  <2> SUFFICES ASSUME KbdInv PROVE TypeOK
    OBVIOUS
  <2>1. \A i \in 1..Len(wire) : wire[i] \in Codes
    BY DEF KbdInv
  <2>2. \A i \in 1..Len(wire) : wire[i].data \in Byte /\ wire[i].down \subseteq Keys
    BY <2>1 DEF Codes
  <2>3. out.c \in Byte /\ out.reboot \in BOOLEAN
    BY DEF KbdInv
  <2> QED
    BY <2>2, <2>3 DEF KbdInv, TypeOK
<1> QED
  BY <1>1, KbdInvariant, PTL

\* The rows of the letters: control codes, small letters and capitals.
LEMMA LetterRows ==
  \A d \in LetterScanCodes :
    /\ d \in Nat /\ d < 54
    /\ NormalRows[d + 1] \in 97..122
    /\ ShiftRows[d + 1] = NormalRows[d + 1] - 32
    /\ CtlRows[d + 1] = NormalRows[d + 1] - 96
BY SMTT(120) DEF LetterScanCodes, NormalRows, ShiftRows, CtlRows

LEMMA LetterKeys ==
  \A d \in LetterScanCodes : shiftcode(d) = {} /\ togglecode(d) = {}
BY DEF LetterScanCodes, shiftcode, togglecode, ShiftKeys, ToggleKeys, Modifiers, Locks

\* kbd_proc_data gives a letter the case Shift and Caps Lock say together, and its control
\* code under Ctrl, in every state of the modifiers.
THEOREM AlwaysCase == Spec => []LetterCase
<1>1. KbdInv => LetterCase
  <2> SUFFICES ASSUME KbdInv, "E0ESC" \notin shift, NEW d \in LetterScanCodes
               PROVE  LET c     == Decode(shift, d).c
                          lower == NormalRows[d + 1]
                      IN  IF "CTL" \in shift THEN c = lower - 96
                          ELSE IF ("SHIFT" \in shift) # ("CAPSLOCK" \in shift) THEN c = lower - 32
                          ELSE c = lower
    BY DEF LetterCase
  <2> DEFINE lower == NormalRows[d + 1]
             char  == charcode(shift, d)
             c     == IF "CAPSLOCK" \in shift THEN CapsCase(char) ELSE char
  <2>1. d \in Nat /\ d < 54 /\ shiftcode(d) = {} /\ togglecode(d) = {}
    BY LetterRows, LetterKeys
  <2>2. Decode(shift, d) = [shift |-> shift, c |-> c,
                            reboot |-> {"CTL", "ALT"} \subseteq shift /\ c = KEY_DEL]
    <3>1. ((shift \ {"E0ESC"}) \cup {}) = shift
      OBVIOUS
    <3>2. (shift \ {}) \cup ({} \ shift) = shift
      OBVIOUS
    <3> QED
      BY <2>1, <3>1, <3>2 DEF Decode, Pressed, Unescaped, ResetKeys, E0
  <2> HIDE DEF c
  <2>3. Decode(shift, d).c = c
    BY <2>2
  <2>4. lower \in 97..122 /\ shiftmap(d) = lower - 32 /\ ctlmap(d) = lower - 96
        /\ normalmap(d) = lower
    BY <2>1, LetterRows DEF shiftmap, ctlmap, normalmap
  <2> HIDE DEF lower
  <2>5. CASE "CTL" \in shift
    <3>1. char = lower - 96
      BY <2>4, <2>5 DEF charcode
    <3>2. c = lower - 96
      BY <2>4, <3>1 DEF c, CapsCase, IsLower, IsUpper
    <3> QED
      BY <2>3, <2>5, <3>2 DEF lower
  <2>6. CASE "CTL" \notin shift /\ "SHIFT" \in shift
    <3>1. char = lower - 32
      BY <2>4, <2>6 DEF charcode
    <3>2. c = IF "CAPSLOCK" \in shift THEN lower ELSE lower - 32
      BY <2>4, <3>1 DEF c, CapsCase, IsLower, IsUpper
    <3> QED
      BY <2>3, <2>6, <3>2 DEF lower
  <2>7. CASE "CTL" \notin shift /\ "SHIFT" \notin shift
    <3>1. char = lower
      BY <2>4, <2>7 DEF charcode
    <3>2. c = IF "CAPSLOCK" \in shift THEN lower - 32 ELSE lower
      BY <2>4, <3>1 DEF c, CapsCase, IsLower, IsUpper
    <3> QED
      BY <2>3, <2>7, <3>2 DEF lower
  <2> QED
    BY <2>5, <2>6, <2>7
<1> QED
  BY <1>1, KbdInvariant, PTL

=============================================================================
