-------------------------- MODULE PluginCalls_proofs --------------------------
(***************************************************************************)
(* Proofs about PluginCalls: which commands are refused, that what leaves  *)
(* means what was asked, and that what is told is what the meter did.      *)
(* They rest on what the helpers on bytes, digits and dates compute for    *)
(* every input.                                                            *)
(***************************************************************************)
EXTENDS PluginCalls, WellFoundedInduction, SequenceTheorems, TLAPS

Bytes == 0..255

-----------------------------------------------------------------------------
(* Induction *)

\* Induction on the naturals for a set of them, from the least-element form.
LEMMA NatSetInduction ==
  ASSUME NEW S, 0 \in S, \A n \in Nat : n \in S => n + 1 \in S
  PROVE  Nat \subseteq S
<1> DEFINE R == {ss \in Nat \X Nat : ss[1] < ss[2]}
           T == Nat \ S
<1>1. IsWellFoundedOn(R, Nat)
  BY NatLessThanWellFounded DEF OpToRel
<1>2. SUFFICES ASSUME T # {} PROVE FALSE
  OBVIOUS
<1>3. PICK x \in T : \A y \in T : ~(<<y, x>> \in R)
  <2> HIDE DEF R
  <2> QED
    BY <1>1, <1>2, WFMin
<1>4. x \in Nat \ {0}
  OBVIOUS
<1>5. x - 1 \in Nat /\ <<x - 1, x>> \in R
  BY <1>4
<1>6. x - 1 \in S
  BY <1>3, <1>5
<1> QED
  BY <1>4, <1>5, <1>6

-----------------------------------------------------------------------------
(* The checksum *)

LEMMA ByteMod == \A x \in Int : x % 256 \in Bytes
  BY DEF Bytes

LEMMA ByteIsInt == \A x \in Bytes, y \in Int : x + y \in Int
  BY DEF Bytes

\* The running totals of a byte string, which TotalMod256 takes the last of.
Totals(t, b) ==
    /\ t \in [0..Len(b) -> Bytes]
    /\ t[0] = 0
    /\ \A i \in 1..Len(b) : t[i] = (t[i - 1] + b[i]) % 256

\* The recursion of TotalMod256 has a solution, and it is a byte at every step.
LEMMA TotalsOf ==
  ASSUME NEW b \in Seq(Int)
  PROVE  \E t : Totals(t, b) /\ TotalMod256(b) = t[Len(b)]
<1> DEFINE n == Len(b)
           Solves(t, k) == t = [i \in 0..k |-> IF i = 0 THEN 0 ELSE (t[i - 1] + b[i]) % 256]
           c == CHOOSE t : Solves(t, n)
           Built == {k \in Nat : k <= n => \E t \in [0..k -> Bytes] : Solves(t, k)}
           Bounded == {k \in Nat : k <= n => c[k] \in Bytes}
<1>1. n \in Nat /\ \A i \in 1..n : b[i] \in Int
  OBVIOUS
<1>2. 0 \in Built
  <2>1. [i \in 0..0 |-> 0] \in [0..0 -> Bytes] /\ Solves([i \in 0..0 |-> 0], 0)
    BY DEF Bytes
  <2> QED
    BY <2>1
<1>3. ASSUME NEW k \in Nat, k \in Built PROVE k + 1 \in Built
  <2>1. SUFFICES ASSUME k + 1 <= n PROVE \E t \in [0..(k + 1) -> Bytes] : Solves(t, k + 1)
    <3> HIDE DEF Solves
    <3> QED
      BY <1>1
  <2>2. PICK t \in [0..k -> Bytes] : Solves(t, k)
    BY <1>1, <1>3, <2>1
  <2> DEFINE u == [i \in 0..(k + 1) |-> IF i = k + 1 THEN (t[k] + b[k + 1]) % 256 ELSE t[i]]
  <2>3. t[k] \in Bytes /\ b[k + 1] \in Int
    <3> HIDE DEF Solves
    <3> QED
      BY <1>1, <2>1, <2>2
  <2>4. (t[k] + b[k + 1]) % 256 \in Bytes
    BY <2>3, ByteMod, ByteIsInt
  <2>5. u \in [0..(k + 1) -> Bytes]
    <3> HIDE DEF Solves
    <3>1. \A i \in 0..(k + 1) : i # k + 1 => t[i] \in Bytes
      BY <2>2
    <3> QED
      BY <2>4, <3>1
  <2>6. ASSUME NEW i \in 0..(k + 1)
        PROVE  u[i] = IF i = 0 THEN 0 ELSE (u[i - 1] + b[i]) % 256
    <3>1. CASE i = k + 1
      BY <3>1
    <3>2. CASE i # k + 1
      <4>1. i \in 0..k /\ u[i] = t[i]
        BY <3>2
      <4>2. t[i] = IF i = 0 THEN 0 ELSE (t[i - 1] + b[i]) % 256
        BY <2>2, <4>1
      <4>3. i # 0 => u[i - 1] = t[i - 1]
        BY <4>1
      <4> QED
        BY <4>1, <4>2, <4>3
    <3> QED
      BY <3>1, <3>2
  <2>7. Solves(u, k + 1)
    BY <2>6
  <2> QED
    BY <2>5, <2>7
<1>4. Nat \subseteq Built
  <2> HIDE DEF Built
  <2> QED
    BY <1>2, <1>3, NatSetInduction
<1>5. \E t : Solves(t, n)
  BY <1>1, <1>4
<1>6. Solves(c, n)
  <2> HIDE DEF Solves
  <2> QED
    BY <1>5
<1>7. c[0] = 0 /\ \A i \in 1..n : c[i] = (c[i - 1] + b[i]) % 256
  <2> HIDE DEF c
  <2>1. \A i \in 0..n : c[i] = IF i = 0 THEN 0 ELSE (c[i - 1] + b[i]) % 256
    BY <1>6
  <2> QED
    BY <1>1, <2>1
<1>8. DOMAIN c = 0..n /\ c = [i \in 0..n |-> c[i]]
  <2> HIDE DEF c
  <2> QED
    BY <1>6
<1>9. 0 \in Bounded
  BY <1>7 DEF Bytes
<1>10. ASSUME NEW k \in Nat, k \in Bounded PROVE k + 1 \in Bounded
  <2> HIDE DEF c, Solves
  <2>1. SUFFICES ASSUME k + 1 <= n PROVE c[k + 1] \in Bytes
    OBVIOUS
  <2>2. k <= n /\ k + 1 \in 1..n
    BY <1>1, <2>1
  <2>3. c[k] \in Bytes /\ b[k + 1] \in Int
    BY <1>1, <1>10, <2>2
  <2>4. c[k + 1] = (c[k] + b[k + 1]) % 256
    BY <1>7, <2>2
  <2> QED
    BY <2>3, <2>4, ByteMod, ByteIsInt
<1>11. \A k \in 0..n : c[k] \in Bytes
  <2>1. Nat \subseteq Bounded
    <3> HIDE DEF Bounded
    <3> QED
      BY <1>9, <1>10, NatSetInduction
  <2> QED
    BY <1>1, <2>1
<1>12. Totals(c, b)
  <2> HIDE DEF c
  <2> QED
    BY <1>7, <1>8, <1>11 DEF Totals
<1>13. TotalMod256(b) = c[n]
  BY DEF TotalMod256
<1> QED
  BY <1>12, <1>13

LEMMA TotalIsByte == ASSUME NEW b \in Seq(Int) PROVE TotalMod256(b) \in Bytes
  BY TotalsOf DEF Totals

LEMMA ModOnce ==
  /\ \A y \in 0..255 : y % 256 = y
  /\ \A y \in 256..510 : y % 256 = y - 256
  OBVIOUS

LEMMA ByteSum ==
  ASSUME NEW p \in Bytes, NEW q \in Bytes
  PROVE  /\ p + q < 256 => (p + q) % 256 = p + q
         /\ p + q >= 256 => (p + q) % 256 = p + q - 256
<1>1. p \in 0..255 /\ q \in 0..255
  BY DEF Bytes
<1>2. CASE p + q < 256
  <2>1. p + q \in 0..255
    BY <1>1, <1>2
  <2> QED
    BY <1>2, <2>1, ModOnce
<1>3. CASE p + q >= 256
  <2>1. p + q \in 256..510
    BY <1>1, <1>3
  <2> QED
    BY <1>1, <1>3, <2>1, ModOnce
<1> QED
  BY <1>1, <1>2, <1>3

LEMMA ByteSumsDiffer ==
  ASSUME NEW p \in Bytes, NEW q \in Bytes, NEW y \in Bytes, p # q
  PROVE  (p + y) % 256 # (q + y) % 256 /\ (y + p) % 256 # (y + q) % 256
<1>1. p \in 0..255 /\ q \in 0..255 /\ y \in 0..255
  BY DEF Bytes
<1>2. /\ p + y < 256 => (p + y) % 256 = p + y
      /\ p + y >= 256 => (p + y) % 256 = p + y - 256
      /\ q + y < 256 => (q + y) % 256 = q + y
      /\ q + y >= 256 => (q + y) % 256 = q + y - 256
  BY ByteSum
<1>3. (p + y) % 256 # (q + y) % 256
  BY <1>1, <1>2
<1>4. p + y = y + p /\ q + y = y + q
  BY <1>1
<1> QED
  BY <1>3, <1>4

LEMMA ByteShift ==
  ASSUME NEW p \in Bytes, NEW d \in 1..255
  PROVE  (p + d) % 256 \in Bytes /\ (p + d) % 256 # p
<1>1. p \in 0..255 /\ d \in Bytes /\ p + d \in Int
  BY DEF Bytes
<1>2. /\ p + d < 256 => (p + d) % 256 = p + d
      /\ p + d >= 256 => (p + d) % 256 = p + d - 256
  BY <1>1, ByteSum
<1>3. (p + d) % 256 # p
  BY <1>1, <1>2
<1> QED
  BY <1>1, <1>3, ByteMod

\* Changing one byte of a string changes its checksum.
LEMMA OneByteOff ==
  ASSUME NEW a \in Seq(Bytes), NEW i \in 1..Len(a), NEW x \in Bytes, x # a[i]
  PROVE  TotalMod256([a EXCEPT ![i] = x]) # TotalMod256(a)
<1> DEFINE e == [a EXCEPT ![i] = x]
           n == Len(a)
<1>1. Bytes \subseteq Int /\ a \in Seq(Int)
  <2>1. Bytes \subseteq Int
    BY DEF Bytes
  <2> QED
    BY <2>1, SeqMonotonic
<1>2. /\ e \in Seq(Bytes) /\ e \in Seq(Int) /\ Len(e) = n
      /\ \A j \in 1..n : e[j] = IF j = i THEN x ELSE a[j]
  <2>1. e \in Seq(Bytes) /\ Len(e) = n /\ \A j \in 1..n : e[j] = IF j = i THEN x ELSE a[j]
    BY ExceptSeq
  <2> QED
    BY <1>1, <2>1, SeqMonotonic
<1> HIDE DEF e
<1>3. PICK t : Totals(t, a) /\ TotalMod256(a) = t[n]
  BY <1>1, TotalsOf
<1>4. PICK u : Totals(u, e) /\ TotalMod256(e) = u[n]
  BY <1>2, TotalsOf
<1>5. n \in Nat /\ i \in 1..n /\ \A j \in 1..n : a[j] \in Bytes /\ e[j] \in Bytes
  BY <1>2
<1> HIDE DEF n
<1>6. /\ \A j \in 0..n : t[j] \in Bytes /\ u[j] \in Bytes
      /\ t[0] = 0 /\ u[0] = 0
      /\ \A j \in 1..n : t[j] = (t[j - 1] + a[j]) % 256 /\ u[j] = (u[j - 1] + e[j]) % 256
  <2>1. Totals(t, a) /\ Totals(u, e) /\ Len(a) = n /\ Len(e) = n
    BY <1>2, <1>3, <1>4 DEF n
  <2>2. t \in [0..n -> Bytes] /\ u \in [0..n -> Bytes] /\ t[0] = 0 /\ u[0] = 0
    BY <2>1 DEF Totals
  <2>3. \A j \in 1..n : t[j] = (t[j - 1] + a[j]) % 256
    BY <2>1, Zenon DEF Totals
  <2>4. \A j \in 1..n : u[j] = (u[j - 1] + e[j]) % 256
    BY <2>1, Zenon DEF Totals
  <2> QED
    BY <2>2, <2>3, <2>4
<1>7. \A p, q, y \in Bytes : p # q => (p + y) % 256 # (q + y) % 256 /\ (y + p) % 256 # (y + q) % 256
  BY ByteSumsDiffer
<1> DEFINE Apart == {k \in Nat : k <= n => (t[k] = u[k] <=> k < i)}
<1>8. 0 \in Apart
  BY <1>5, <1>6
<1>9. ASSUME NEW k \in Nat, k \in Apart PROVE k + 1 \in Apart
  <2>1. SUFFICES ASSUME k + 1 <= n PROVE t[k + 1] = u[k + 1] <=> k + 1 < i
    BY <1>5
  <2>2. k \in 0..n /\ k + 1 \in 1..n /\ (k + 1) - 1 = k /\ (t[k] = u[k] <=> k < i)
    BY <1>5, <1>9, <2>1
  <2>3. t[k + 1] = (t[k] + a[k + 1]) % 256 /\ u[k + 1] = (u[k] + e[k + 1]) % 256
    BY <1>6, <2>2
  <2>4. t[k] \in Bytes /\ u[k] \in Bytes /\ a[k + 1] \in Bytes /\ e[k + 1] \in Bytes
    BY <1>5, <1>6, <2>2
  <2>5. CASE k + 1 = i
    <3>1. t[k] = u[k] /\ e[k + 1] = x /\ x # a[k + 1]
      BY <1>2, <1>5, <2>2, <2>5 DEF n
    <3>2. t[k + 1] # u[k + 1]
      BY <1>7, <2>3, <2>4, <3>1
    <3> QED
      BY <2>5, <3>2, <1>5
  <2>6. CASE k + 1 # i
    <3>1. e[k + 1] = a[k + 1]
      BY <1>2, <2>2, <2>6 DEF n
    <3>2. t[k] = u[k] => t[k + 1] = u[k + 1]
      BY <2>3, <3>1
    <3>3. t[k] # u[k] => t[k + 1] # u[k + 1]
      BY <1>7, <2>3, <2>4, <3>1
    <3>4. k < i <=> k + 1 < i
      BY <1>5, <2>6
    <3> QED
      BY <2>2, <3>2, <3>3, <3>4
  <2> QED
    BY <2>5, <2>6
<1>10. Nat \subseteq Apart
  <2> HIDE DEF Apart
  <2> QED
    BY <1>8, <1>9, NatSetInduction
<1>11. t[n] # u[n]
  BY <1>5, <1>10
<1> QED
  BY <1>3, <1>4, <1>11 DEF e

\* A frame with any one byte off is dropped: decodeResponseData returns null for
\* it, so handleUp tells the engine nothing.  (A frame that comes to start with 0
\* is taken for a DLMS answer, which has no checksum; Received leaves it out.)
THEOREM OneByteOffDropped ==
  ASSUME NEW b \in Seq(Bytes), wellFramed(b), Noise \subseteq 1..255,
         NEW f \in Received(b) \ {b}
  PROVE  decodeResponseData(f) = None
<1> DEFINE n == Len(b)
<1>1. PICK i \in DOMAIN b, d \in Noise : f = [b EXCEPT ![i] = (@ + d) % 256] /\ f[1] # 0
  BY DEF Received
<1>2. n \in Nat /\ n > 8 /\ DOMAIN b = 1..n /\ \A j \in 1..n : b[j] \in Bytes
  BY DEF wellFramed
<1> DEFINE x == (b[i] + d) % 256
<1>3. x \in Bytes /\ x # b[i]
  <2>1. b[i] \in Bytes /\ d \in 1..255
    BY <1>2
  <2> QED
    BY <2>1, ByteShift
<1>4. f \in Seq(Bytes) /\ Len(f) = n /\ \A j \in 1..n : f[j] = IF j = i THEN x ELSE b[j]
  <2>1. f = [b EXCEPT ![i] = x]
    BY <1>1
  <2> HIDE DEF x
  <2> QED
    BY <1>2, <1>3, <2>1, ExceptSeq
<1> HIDE DEF x
<1>5. ~wellFramed(f)
  <2>1. CASE i = 1
    <3>1. f[1] # HEADER_BYTE
      BY <1>2, <1>3, <1>4, <2>1 DEF wellFramed, At
    <3> QED
      BY <3>1 DEF wellFramed, At
  <2>2. CASE i = n
    <3>1. f[n] # END_BYTE
      BY <1>2, <1>3, <1>4, <2>2 DEF wellFramed, Last
    <3> QED
      BY <1>4, <3>1 DEF wellFramed, Last
  <2> DEFINE body == SubSeq(b, 1, n - 2)
             heard == SubSeq(f, 1, n - 2)
  <2>3. /\ body \in Seq(Bytes) /\ Len(body) = n - 2 /\ \A j \in 1..(n - 2) : body[j] = b[j]
        /\ heard \in Seq(Bytes) /\ Len(heard) = n - 2 /\ \A j \in 1..(n - 2) : heard[j] = f[j]
    BY <1>2, <1>4
  <2>4. CASE i = n - 1
    <3>1. \A j \in 1..(n - 2) : heard[j] = body[j]
      <4> TAKE j \in 1..(n - 2)
      <4> HIDE DEF heard, body, n
      <4>1. j \in 1..n /\ j # i
        BY <1>2, <2>4
      <4> QED
        BY <1>4, <2>3, <4>1
    <3>2. heard = body
      <4> HIDE DEF heard, body
      <4> QED
        BY <2>3, <3>1, SeqEqual
    <3>3. f[n - 1] # b[n - 1]
      BY <1>2, <1>3, <1>4, <2>4
    <3> QED
      BY <1>4, <3>2, <3>3 DEF wellFramed, checksumHolds
  <2>5. CASE i \in 1..(n - 2)
    <3> DEFINE e == [body EXCEPT ![i] = x]
    <3>1. e \in Seq(Bytes) /\ Len(e) = n - 2
          /\ \A j \in 1..(n - 2) : e[j] = IF j = i THEN x ELSE body[j]
      <4> HIDE DEF body
      <4> QED
        BY <1>3, <2>3, <2>5, ExceptSeq
    <3>2. \A j \in 1..(n - 2) : heard[j] = e[j]
      <4> HIDE DEF e, heard, body
      <4> QED
        BY <1>2, <1>4, <2>3, <2>5, <3>1
    <3>3. heard = e
      <4> HIDE DEF e, heard, body
      <4> QED
        BY <2>3, <3>1, <3>2, SeqEqual
    <3>4. TotalMod256(heard) # TotalMod256(body)
      <4>1. x # body[i] /\ i \in 1..Len(body)
        BY <1>2, <1>3, <2>3, <2>5
      <4> HIDE DEF heard, body
      <4> QED
        BY <1>3, <2>3, <3>3, <4>1, OneByteOff
    <3>5. f[n - 1] = b[n - 1]
      BY <1>2, <1>4, <2>5
    <3> QED
      BY <1>4, <3>4, <3>5 DEF wellFramed, checksumHolds
  <2> QED
    BY <1>2, <2>1, <2>2, <2>4, <2>5
<1>6. At(f, 0) # 0
  BY <1>1 DEF At
<1> QED
  BY <1>5, <1>6 DEF decodeResponseData

-----------------------------------------------------------------------------
(* The helpers on byte strings *)

LEMMA ReverseOf ==
  ASSUME NEW S, NEW s \in Seq(S)
  PROVE  /\ Reverse(s) \in Seq(S) /\ Len(Reverse(s)) = Len(s)
         /\ \A i \in 1..Len(s) : Reverse(s)[i] = s[Len(s) - i + 1]
  BY DEF Reverse

LEMMA OnWireOf ==
  ASSUME NEW b \in Seq(Bytes)
  PROVE  OnWire(b) \in Seq(Bytes) /\ Len(OnWire(b)) = Len(b)
<1> DEFINE a == Apply(add33, b)
<1>1. Len(b) \in Nat /\ DOMAIN b = 1..Len(b) /\ \A i \in 1..Len(b) : b[i] \in Bytes
  OBVIOUS
<1>2. a = [i \in 1..Len(b) |-> (b[i] + 51) % 256]
  BY <1>1 DEF Apply, add33
<1>3. \A i \in 1..Len(b) : (b[i] + 51) % 256 \in Bytes
  BY <1>1, ByteMod, ByteIsInt
<1>4. a \in Seq(Bytes) /\ Len(a) = Len(b)
  BY <1>1, <1>2, <1>3
<1> HIDE DEF a
<1>5. Reverse(a) \in Seq(Bytes) /\ Len(Reverse(a)) = Len(b)
  BY <1>4, ReverseOf
<1> QED
  BY <1>5 DEF OnWire, a

\* padStart lengthens a text to the given length, or leaves it as it is.
LEMMA PadStartOf ==
  ASSUME NEW s \in Strings, NEW n \in Nat
  PROVE  /\ padStart(s, n) \in Strings
         /\ Len(padStart(s, n)) = IF Len(s) <= n THEN n ELSE Len(s)
         /\ \A i \in 1..Len(padStart(s, n)) :
               padStart(s, n)[i] = 0 \/ \E j \in 1..Len(s) : padStart(s, n)[i] = s[j]
         /\ \A j \in 1..Len(s) : \E i \in 1..Len(padStart(s, n)) : padStart(s, n)[i] = s[j]
<1> DEFINE k == IF Len(s) <= n THEN n - Len(s) ELSE 0
           z == [i \in 1..(n - Len(s)) |-> 0]
           p == z \o s
<1>1. Len(s) \in Nat /\ s \in Seq(0..17) /\ k \in Nat
  BY DEF Strings
<1>2. 1..(n - Len(s)) = 1..k
  BY <1>1
<1>3. z \in Seq(0..17) /\ Len(z) = k /\ \A i \in 1..k : z[i] = 0
  <2>1. z = [i \in 1..k |-> 0]
    BY <1>2
  <2> HIDE DEF k, z
  <2> QED
    BY <1>1, <2>1
<1> HIDE DEF k, z
<1>4. /\ p \in Seq(0..17) /\ Len(p) = k + Len(s)
      /\ \A i \in 1..(k + Len(s)) : p[i] = IF i <= k THEN z[i] ELSE s[i - k]
  BY <1>1, <1>3, ConcatProperties
<1> HIDE DEF p
<1>5. \A i \in 1..Len(p) : p[i] = 0 \/ \E j \in 1..Len(s) : p[i] = s[j]
  <2> TAKE i \in 1..Len(p)
  <2>1. CASE i <= k
    BY <1>1, <1>3, <1>4, <2>1
  <2>2. CASE ~(i <= k)
    <3>1. i - k \in 1..Len(s) /\ p[i] = s[i - k]
      BY <1>1, <1>4, <2>2
    <3> QED
      BY <3>1
  <2> QED
    BY <2>1, <2>2
<1>6. \A j \in 1..Len(s) : \E i \in 1..Len(p) : p[i] = s[j]
  <2> TAKE j \in 1..Len(s)
  <2>1. j + k \in 1..Len(p) /\ ~(j + k <= k) /\ (j + k) - k = j
    BY <1>1, <1>4
  <2>2. p[j + k] = s[j]
    BY <1>4, <2>1
  <2> QED
    BY <2>1, <2>2
<1>7. p = padStart(s, n)
  BY DEF padStart, p, z
<1>8. Len(p) = IF Len(s) <= n THEN n ELSE Len(s)
  BY <1>1, <1>4 DEF k
<1> QED
  BY <1>4, <1>5, <1>6, <1>7, <1>8 DEF Strings

LEMMA HalfOf == \A n \in Nat : n > 0 /\ n % 2 = 0 => n \div 2 \in Nat \ {0} /\ 2 * (n \div 2) = n
  OBVIOUS

LEMMA ByteOfDigits == \A x, y \in 0..15 : 16 * x + y \in Bytes
  BY DEF Bytes

LEMMA HexDigit == \A x \in 0..17 : x < 16 => x \in 0..15
  OBVIOUS

\* Which texts hexToBytes turns into bytes.
IsHex(hex) == hex # <<>> /\ Len(hex) % 2 = 0 /\ \A i \in 1..Len(hex) : hex[i] < 16

LEMMA HexToBytesOf ==
  ASSUME NEW hex \in Strings
  PROVE  /\ hexToBytes(hex) \in Seq(Bytes)
         /\ IsHex(hex) => Len(hexToBytes(hex)) = Len(hex) \div 2 /\ hexToBytes(hex) # NoBytes
         /\ ~IsHex(hex) => hexToBytes(hex) = NoBytes
<1> DEFINE k == Len(hex) \div 2
<1>1. Len(hex) \in Nat /\ DOMAIN hex = 1..Len(hex) /\ \A i \in 1..Len(hex) : hex[i] \in 0..17
  BY DEF Strings
<1>2. CASE IsHex(hex)
  <2>1. hexToBytes(hex) = [i \in 1..k |-> 16 * hex[2 * i - 1] + hex[2 * i]]
    BY <1>1, <1>2 DEF IsHex, hexToBytes
  <2>2. k \in Nat /\ k > 0 /\ 2 * k = Len(hex)
    <3>1. Len(hex) > 0 /\ Len(hex) % 2 = 0
      BY <1>1, <1>2, EmptySeq DEF IsHex, Strings
    <3>2. Len(hex) \in Nat
      BY <1>1
    <3>3. k \in Nat \ {0} /\ 2 * k = Len(hex)
      BY <3>1, <3>2, HalfOf, Zenon
    <3> HIDE DEF k
    <3> QED
      BY <3>3
  <2>3. \A i \in 1..k : 16 * hex[2 * i - 1] + hex[2 * i] \in Bytes
    <3> TAKE i \in 1..k
    <3>1. 2 * i - 1 \in 1..Len(hex) /\ 2 * i \in 1..Len(hex)
      <4> HIDE DEF k
      <4> QED
        BY <2>2
    <3>2. \A j \in 1..Len(hex) : hex[j] \in 0..15
      BY <1>1, <1>2, HexDigit DEF IsHex
    <3>3. hex[2 * i - 1] \in 0..15 /\ hex[2 * i] \in 0..15
      BY <3>1, <3>2
    <3> QED
      BY <3>3, ByteOfDigits
  <2>4. hexToBytes(hex) \in Seq(Bytes) /\ Len(hexToBytes(hex)) = k
    <3> HIDE DEF k
    <3> QED
      BY <2>1, <2>2, <2>3
  <2>5. hexToBytes(hex) # NoBytes
    <3> HIDE DEF k
    <3> QED
      BY <2>2, <2>4 DEF NoBytes
  <2> QED
    BY <1>2, <2>4, <2>5
<1>3. CASE ~IsHex(hex)
  <2>1. hexToBytes(hex) = NoBytes
    BY <1>1, <1>3 DEF IsHex, hexToBytes
  <2> QED
    BY <1>3, <2>1 DEF NoBytes
<1> QED
  BY <1>2, <1>3

-----------------------------------------------------------------------------
(* The frames *)

\* A frame is a byte string whose checksum holds.
LEMMA FrameOf ==
  ASSUME NEW address \in Seq(Bytes), NEW code \in Bytes, NEW di \in Seq(Bytes), NEW data \in Seq(Bytes)
  PROVE  /\ Frame(address, code, di, data) \in Seq(Bytes)
         /\ Frame(address, code, di, data) # <<>>
         /\ checksumHolds(Frame(address, code, di, data))
<1> DEFINE head == <<HEADER_BYTE>>
           mid  == <<HEADER_BYTE, code, (2 + Len(data)) % 256>>
           body == head \o address \o mid \o OnWire(di) \o data
           tail == <<TotalMod256(body), END_BYTE>>
           f    == body \o tail
<1>1. head \in Seq(Bytes) /\ mid \in Seq(Bytes)
  <2>1. HEADER_BYTE \in Bytes /\ 2 + Len(data) \in Int
    BY DEF HEADER_BYTE, Bytes
  <2>2. (2 + Len(data)) % 256 \in Bytes
    BY <2>1, ByteMod
  <2> QED
    BY <2>1, <2>2
<1> HIDE DEF head, mid
<1>2. body \in Seq(Bytes)
  <2>1. head \o address \in Seq(Bytes)
    BY <1>1, ConcatProperties
  <2>2. head \o address \o mid \in Seq(Bytes)
    BY <1>1, <2>1, ConcatProperties
  <2>3. head \o address \o mid \o OnWire(di) \in Seq(Bytes)
    BY <2>2, OnWireOf, ConcatProperties
  <2> QED
    BY <2>3, ConcatProperties
<1> HIDE DEF body
<1>3. tail \in Seq(Bytes) /\ Len(tail) = 2
  <2>1. Bytes \subseteq Int /\ END_BYTE \in Bytes
    BY DEF Bytes, END_BYTE
  <2>2. TotalMod256(body) \in Bytes
    BY <1>2, <2>1, SeqMonotonic, TotalIsByte
  <2> QED
    BY <2>1, <2>2
<1>4. tail[1] = TotalMod256(body)
  OBVIOUS
<1> HIDE DEF tail
<1>5. /\ f \in Seq(Bytes) /\ Len(f) = Len(body) + 2 /\ Len(body) \in Nat
      /\ \A i \in 1..(Len(body) + 2) : f[i] = IF i <= Len(body) THEN body[i] ELSE tail[i - Len(body)]
  <2>1. /\ f \in Seq(Bytes) /\ Len(f) = Len(body) + Len(tail)
        /\ \A i \in 1..(Len(body) + Len(tail)) :
              f[i] = IF i <= Len(body) THEN body[i] ELSE tail[i - Len(body)]
    BY <1>2, <1>3, ConcatProperties
  <2>2. Len(body) \in Nat
    BY <1>2, LenProperties
  <2> HIDE DEF f
  <2> QED
    BY <1>3, <2>1, <2>2
<1> DEFINE n == Len(body)
<1> HIDE DEF f
<1>6. SubSeq(f, 1, n) = body
  <2>1. n \in Nat /\ \A i \in 1..n : f[i] \in Bytes /\ f[i] = body[i]
    BY <1>5
  <2>2. /\ SubSeq(f, 1, n) \in Seq(Bytes) /\ Len(SubSeq(f, 1, n)) = n
        /\ \A i \in 1..n : SubSeq(f, 1, n)[i] = body[i]
    <3> HIDE DEF n
    <3>1. n - 1 + 1 = n /\ (1 <= n <=> n # 0) /\ \A i \in 1..n : 1 + i - 1 = i
      BY <2>1
    <3> QED
      BY <2>1, <3>1, SubSeqProperties
  <2> QED
    BY <1>2, <2>2, SeqEqual
<1>7. f[n + 1] = TotalMod256(body)
  <2>1. n + 1 \in 1..(n + 2) /\ ~(n + 1 <= n) /\ (n + 1) - n = 1
    BY <1>5
  <2> QED
    BY <1>4, <1>5, <2>1
<1>8. checksumHolds(f)
  <2>1. Len(f) - 2 = n /\ Len(f) - 1 = n + 1
    BY <1>5
  <2> QED
    BY <1>6, <1>7, <2>1 DEF checksumHolds
<1>9. f # <<>>
  BY <1>5
<1>10. f = Frame(address, code, di, data)
  BY DEF f, tail, body, mid, head, Frame
<1> QED
  BY <1>5, <1>8, <1>9, <1>10

LEMMA BcdByte == \A x \in 0..99 : toBcd(x) \in Bytes
<1> SUFFICES ASSUME NEW x \in 0..99 PROVE toBcd(x) \in Bytes
  OBVIOUS
<1>1. x \div 10 \in 0..9 /\ x % 10 \in 0..9
  OBVIOUS
<1> QED
  BY <1>1 DEF toBcd, Bytes

LEMMA PayloadParts ==
  ASSUME NEW p, isPayload(p)
  PROVE  /\ p.kind = "date" => setDatePayload(p)
         /\ p.kind = "time" => setTimePayload(p)
<1>1. p = None => p.kind = "none"
  BY DEF None
<1>2. setDatePayload(p) => p.kind = "date"
  BY DEF setDatePayload
<1>3. setTimePayload(p) => p.kind = "time"
  BY DEF setTimePayload
<1> QED
  BY <1>1, <1>2, <1>3 DEF isPayload

\* A date or time payload becomes digits of two decimals each.
LEMMA DateBytes ==
  ASSUME NEW p, isPayload(p), p.kind = "date"
  PROVE  encodeDateBytes(p) \in Seq(Bytes)
<1>1. p.year \in Nat /\ p.month \in 1..12 /\ p.day \in 1..31
  <2>1. setDatePayload(p)
    BY PayloadParts
  <2> QED
    BY <2>1 DEF setDatePayload
<1>2. fullYear(p.year) \in Nat
  <2>1. \A y \in Nat : fullYear(y) \in Nat
    BY DEF fullYear
  <2> QED
    BY <1>1, <2>1
<1>3. fullYear(p.year) % 100 \in 0..99
  BY <1>2
<1>4. weekdayOf(p) \in 0..99
  <2>1. \A y, m, d \in Int : DayNumber(y, m, d) \in Int
    BY DEF DayNumber
  <2>2. \A x \in Int : (x + 2) % 7 \in 0..99
    OBVIOUS
  <2> DEFINE y == fullYear(p.year)
             m == p.month
             d == p.day
  <2>3. y \in Int /\ m \in Int /\ d \in Int
    BY <1>1, <1>2, SMTT(30)
  <2> HIDE DEF y, m, d
  <2>4. DayNumber(y, m, d) \in Int
    BY <2>1, <2>3
  <2>5. Weekday(y, m, d) \in 0..99
    BY <2>2, <2>4 DEF Weekday
  <2> QED
    BY <2>5 DEF weekdayOf, y, m, d
<1>5. /\ toBcd(fullYear(p.year) % 100) \in Bytes /\ toBcd(p.month) \in Bytes
      /\ toBcd(p.day) \in Bytes /\ toBcd(weekdayOf(p)) \in Bytes
  <2>1. p.month \in 0..99 /\ p.day \in 0..99
    BY <1>1
  <2> QED
    BY <1>3, <1>4, <2>1, BcdByte
<1> QED
  BY <1>5 DEF encodeDateBytes

LEMMA TimeBytes ==
  ASSUME NEW p, isPayload(p), p.kind = "time"
  PROVE  encodeTimeBytes(p) \in Seq(Bytes)
<1>1. p.hour \in 0..99 /\ p.minute \in 0..99 /\ p.second \in 0..99
  <2>1. p.hour \in 0..23 /\ p.minute \in 0..59 /\ p.second \in 0..59
    <3>1. setTimePayload(p)
      BY PayloadParts
    <3> QED
      BY <3>1 DEF setTimePayload
  <2> QED
    BY <2>1
<1>2. toBcd(p.hour) \in Bytes /\ toBcd(p.minute) \in Bytes /\ toBcd(p.second) \in Bytes
  BY <1>1, BcdByte
<1> QED
  BY <1>2 DEF encodeTimeBytes

-----------------------------------------------------------------------------
(* What the ChirpStack plugin can encode *)

\* The parts of a command configuration are byte strings.
IsConfig(config) ==
    /\ config # None
    /\ config.controlCode \in Bytes
    /\ config.dataIdentifier \in Seq(Bytes)
    /\ config.rawWriteData \in Seq(Bytes)

LEMMA ConfigIsNotNone ==
  ASSUME NEW code, NEW di, NEW data, NEW password
  PROVE  Config(code, di, data, password) # None
<1>1. DOMAIN Config(code, di, data, password) # DOMAIN None
  BY DEF Config, None
<1> QED
  BY <1>1

LEMMA ConfigTyped ==
  ASSUME NEW code \in Bytes, NEW di \in Seq(Bytes), NEW data \in Seq(Bytes), NEW password
  PROVE  IsConfig(Config(code, di, data, password))
  BY ConfigIsNotNone DEF IsConfig, Config

LEMMA ReadingTyped == ASSUME NEW a \in Bytes, NEW b \in Bytes PROVE IsConfig(Reading(<<a, b>>))
<1>1. 1 \in Bytes /\ <<a, b>> \in Seq(Bytes) /\ <<>> \in Seq(Bytes)
  BY DEF Bytes
<1> QED
  BY <1>1, ConfigTyped DEF Reading

LEMMA WritingTyped ==
  ASSUME NEW a \in Bytes, NEW b \in Bytes, NEW data \in Seq(Bytes)
  PROVE  IsConfig(Writing(<<a, b>>, data))
<1>1. 4 \in Bytes /\ <<a, b>> \in Seq(Bytes)
  BY DEF Bytes
<1> QED
  BY <1>1, ConfigTyped DEF Writing

\* What stands in the way of a configuration for a command.
Unencodable(command, token, payload) ==
    \/ command \in TokenCommands /\ ~IsHex(token)
    \/ command = "SET_DATE" /\ payload.kind # "date"
    \/ command = "SET_TIME" /\ payload.kind # "time"
    \/ command \in {"READ_VERSION", "READ_POWER_LIMIT"}

LEMMA ConfigOf ==
  ASSUME NEW command \in Enqueueable, NEW phase \in PHASES, NEW token \in Strings,
         NEW payload, isPayload(payload)
  PROVE  IF Unencodable(command, token, payload)
         THEN determineCommandConfig(command, phase, token, payload) = None
         ELSE IsConfig(determineCommandConfig(command, phase, token, payload))
<1> DEFINE config == determineCommandConfig(command, phase, token, payload)
<1> USE DEF TokenCommands, GenerateTokenTypes
<1>1. CASE command \in TokenCommands
  <2>1. config = IF hexToBytes(token) = NoBytes THEN None
                 ELSE Config(0, <<161, 32>>, OnWire(hexToBytes(token)), FALSE)
    BY <1>1 DEF determineCommandConfig
  <2>2. Unencodable(command, token, payload) <=> ~IsHex(token)
    BY <1>1 DEF Unencodable
  <2>3. CASE IsHex(token)
    <3>1. hexToBytes(token) # NoBytes /\ OnWire(hexToBytes(token)) \in Seq(Bytes)
      BY <2>3, HexToBytesOf, OnWireOf
    <3>2. 0 \in Bytes /\ <<161, 32>> \in Seq(Bytes)
      BY DEF Bytes
    <3>3. IsConfig(Config(0, <<161, 32>>, OnWire(hexToBytes(token)), FALSE))
      BY <3>1, <3>2, ConfigTyped
    <3> HIDE DEF config
    <3> QED
      BY <2>1, <2>2, <2>3, <3>1, <3>3 DEF config
  <2>4. CASE ~IsHex(token)
    BY <2>1, <2>2, <2>4, HexToBytesOf
  <2> QED
    BY <2>3, <2>4
<1>2. CASE command \in ControlCommands
  <2>1. /\ command = "TURN_ON" => config = Writing(<<192, 61>>, <<150>>)
        /\ command = "TURN_OFF" => config = Writing(<<192, 60>>, <<53>>)
        /\ command \in {"TURN_ON", "TURN_OFF"}
        /\ ~Unencodable(command, token, payload)
    BY <1>2 DEF determineCommandConfig, ControlCommands, Unencodable
  <2>2. {192, 61, 60} \subseteq Bytes /\ <<150>> \in Seq(Bytes) /\ <<53>> \in Seq(Bytes)
    BY DEF Bytes
  <2>3. IsConfig(Writing(<<192, 61>>, <<150>>)) /\ IsConfig(Writing(<<192, 60>>, <<53>>))
    BY <2>2, WritingTyped
  <2> QED
    BY <2>1, <2>3
<1>3. CASE command = "SET_DATE"
  <2>1. config = IF payload.kind # "date" THEN None ELSE Writing(<<192, 16>>, encodeDateBytes(payload))
    BY <1>3 DEF determineCommandConfig
  <2>2. Unencodable(command, token, payload) <=> payload.kind # "date"
    BY <1>3 DEF Unencodable
  <2>3. CASE payload.kind = "date"
    <3>1. 192 \in Bytes /\ 16 \in Bytes /\ encodeDateBytes(payload) \in Seq(Bytes)
      BY <2>3, DateBytes DEF Bytes
    <3>2. IsConfig(Writing(<<192, 16>>, encodeDateBytes(payload)))
      BY <3>1, WritingTyped
    <3> QED
      BY <2>1, <2>2, <2>3, <3>2
  <2> QED
    BY <2>1, <2>2, <2>3
<1>4. CASE command = "SET_TIME"
  <2>1. config = IF payload.kind # "time" THEN None ELSE Writing(<<192, 17>>, encodeTimeBytes(payload))
    BY <1>4 DEF determineCommandConfig
  <2>2. Unencodable(command, token, payload) <=> payload.kind # "time"
    BY <1>4 DEF Unencodable
  <2>3. CASE payload.kind = "time"
    <3>1. 192 \in Bytes /\ 17 \in Bytes /\ encodeTimeBytes(payload) \in Seq(Bytes)
      BY <2>3, TimeBytes DEF Bytes
    <3>2. IsConfig(Writing(<<192, 17>>, encodeTimeBytes(payload)))
      BY <3>1, WritingTyped
    <3> QED
      BY <2>1, <2>2, <2>3, <3>2
  <2> QED
    BY <2>1, <2>2, <2>3
<1>5. CASE command \in ReadCommands
  <2>1. /\ command = "READ_CREDIT" => config = Reading(<<228, 33>>)
        /\ command = "READ_DATE" => config = Reading(<<192, 16>>)
        /\ command = "READ_TIME" => config = Reading(<<192, 17>>)
        /\ command = "READ_VOLTAGE" => config = Reading(<<182, 17 + PhaseNumber[phase]>>)
        /\ command = "READ_POWER" => config = Reading(<<182, 48 + PhaseNumber[phase]>>)
        /\ command = "READ_CURRENT" => config = Reading(<<182, 33 + PhaseNumber[phase]>>)
        /\ command \in {"READ_VERSION", "READ_POWER_LIMIT"} => config = None
    <3>1. command \in ReadCommands => command \notin TokenCommands
      BY DEF ReadCommands, PhaseSpecificReads
    <3>2. command = "READ_CREDIT" => config = Reading(<<228, 33>>)
      BY <1>5, <3>1 DEF determineCommandConfig
    <3>3. command = "READ_DATE" => config = Reading(<<192, 16>>)
      BY <1>5, <3>1 DEF determineCommandConfig
    <3>4. command = "READ_TIME" => config = Reading(<<192, 17>>)
      BY <1>5, <3>1 DEF determineCommandConfig
    <3>5. command = "READ_VOLTAGE" => config = Reading(<<182, 17 + PhaseNumber[phase]>>)
      BY <1>5, <3>1 DEF determineCommandConfig, readVoltageByPhase
    <3>6. command = "READ_POWER" => config = Reading(<<182, 48 + PhaseNumber[phase]>>)
      BY <1>5, <3>1 DEF determineCommandConfig, readPowerByPhase
    <3>7. command = "READ_CURRENT" => config = Reading(<<182, 33 + PhaseNumber[phase]>>)
      BY <1>5, <3>1 DEF determineCommandConfig, readCurrentByPhase
    <3>8. command \in {"READ_VERSION", "READ_POWER_LIMIT"} => config = None
      BY <1>5, <3>1 DEF determineCommandConfig
    <3> HIDE DEF config
    <3> QED
      BY <3>2, <3>3, <3>4, <3>5, <3>6, <3>7, <3>8
  <2>2. Unencodable(command, token, payload) <=> command \in {"READ_VERSION", "READ_POWER_LIMIT"}
    BY <1>5 DEF Unencodable, ReadCommands, PhaseSpecificReads
  <2>3. PhaseNumber[phase] \in 0..2
    BY DEF PhaseNumber, PHASES
  <2>4. {228, 33, 192, 16, 17, 182} \subseteq Bytes
        /\ \A k \in 0..2 : 17 + k \in Bytes /\ 48 + k \in Bytes /\ 33 + k \in Bytes
    BY DEF Bytes
  <2>5. /\ IsConfig(Reading(<<228, 33>>)) /\ IsConfig(Reading(<<192, 16>>))
        /\ IsConfig(Reading(<<192, 17>>)) /\ IsConfig(Reading(<<182, 17 + PhaseNumber[phase]>>))
        /\ IsConfig(Reading(<<182, 48 + PhaseNumber[phase]>>))
        /\ IsConfig(Reading(<<182, 33 + PhaseNumber[phase]>>))
    BY <2>3, <2>4, ReadingTyped
  <2> HIDE DEF config
  <2> QED
    BY <1>5, <2>1, <2>2, <2>5 DEF ReadCommands, PhaseSpecificReads, config
<1> QED
  BY <1>1, <1>2, <1>3, <1>4, <1>5 DEF Enqueueable, WriteCommands

\* A reference is a meter address if it fits six bytes and has hex digits only.
LEMMA AddressOf ==
  ASSUME NEW s \in Strings, s # <<>>
  PROVE  /\ hexToBytes(padStart(s, 12)) \in Seq(Bytes)
         /\ Len(hexToBytes(padStart(s, 12))) = 6 <=> Len(s) <= 12 /\ Range(s) \subseteq 0..15
<1> DEFINE p == padStart(s, 12)
           h == hexToBytes(p)
<1>1. /\ p \in Strings /\ Len(p) = IF Len(s) <= 12 THEN 12 ELSE Len(s)
      /\ \A i \in 1..Len(p) : p[i] = 0 \/ \E j \in 1..Len(s) : p[i] = s[j]
      /\ \A j \in 1..Len(s) : \E i \in 1..Len(p) : p[i] = s[j]
  <2>1. 12 \in Nat
    OBVIOUS
  <2> QED
    BY <2>1, PadStartOf
<1> HIDE DEF p
<1>2. /\ h \in Seq(Bytes)
      /\ IsHex(p) => Len(h) = Len(p) \div 2
      /\ ~IsHex(p) => Len(h) = 0
  <2>1. /\ h \in Seq(Bytes)
        /\ IsHex(p) => Len(h) = Len(p) \div 2 /\ h # NoBytes
        /\ ~IsHex(p) => h = NoBytes
    BY <1>1, HexToBytesOf
  <2>2. Len(NoBytes) = 0
    BY DEF NoBytes
  <2> HIDE DEF h
  <2> QED
    BY <2>1, <2>2
<1> HIDE DEF h
<1>3. Len(s) \in Nat /\ DOMAIN s = 1..Len(s) /\ \A j \in 1..Len(s) : s[j] \in 0..17
  BY DEF Strings
<1>4. Range(s) \subseteq 0..15 <=> \A j \in 1..Len(s) : s[j] < 16
  <2>1. \A x \in 0..17 : x \in 0..15 <=> x < 16
    OBVIOUS
  <2>2. Range(s) = {s[j] : j \in 1..Len(s)}
    BY <1>3 DEF Range
  <2>3. \A j \in 1..Len(s) : s[j] \in 0..15 <=> s[j] < 16
    BY <1>3, <2>1
  <2> QED
    BY <2>2, <2>3
<1>5. CASE Len(s) <= 12
  <2>1. Len(p) = 12
    BY <1>1, <1>5
  <2>2. p # <<>> /\ 12 % 2 = 0 /\ 12 \div 2 = 6
    BY <2>1
  <2>3. (\A i \in 1..Len(p) : p[i] < 16) <=> (\A j \in 1..Len(s) : s[j] < 16)
    <3>1. 0 < 16
      OBVIOUS
    <3> QED
      BY <1>1, <3>1
  <2>4. IsHex(p) <=> Range(s) \subseteq 0..15
    BY <1>4, <2>1, <2>2, <2>3 DEF IsHex
  <2>5. Len(h) = 6 <=> IsHex(p)
    <3>1. Len(p) \div 2 = 12 \div 2
      BY <2>1, Zenon
    <3>2. Len(p) \div 2 = 6
      BY <2>2, <3>1, Zenon
    <3>3. IsHex(p) => Len(h) = 6
      BY <1>2, <3>2, Zenon
    <3>4. ~IsHex(p) => Len(h) # 6
      BY <1>2
    <3> QED
      BY <3>3, <3>4
  <2>6. Len(h) = 6 <=> Len(s) <= 12 /\ Range(s) \subseteq 0..15
    BY <1>5, <2>4, <2>5
  <2> QED
    BY <1>2, <2>6 DEF h, p
<1>6. CASE ~(Len(s) <= 12)
  <2>1. Len(p) = Len(s) /\ Len(s) > 12
    BY <1>1, <1>3, <1>6
  <2>2. \A n \in Nat : n > 12 /\ n % 2 = 0 => n \div 2 # 6
    OBVIOUS
  <2>3. IsHex(p) => Len(p) % 2 = 0
    BY DEF IsHex
  <2>4. Len(p) \in Nat /\ Len(p) > 12
    BY <1>3, <2>1
  <2>5. Len(h) # 6
    <3>1. CASE IsHex(p)
      <4>1. Len(p) \div 2 # 6
        BY <2>2, <2>3, <2>4, <3>1
      <4> QED
        BY <1>2, <3>1, <4>1
    <3>2. CASE ~IsHex(p)
      BY <1>2, <3>2
    <3> QED
      BY <3>1, <3>2
  <2> QED
    BY <1>2, <1>6, <2>5 DEF h, p
<1> QED
  BY <1>5, <1>6

LEMMA DlmsBytes == encodeDlms \in Seq(Bytes) /\ encodeDlms # NoBytes
  BY DEF encodeDlms, NoBytes, Bytes

\* Whatever leaves the ChirpStack plugin is a byte string; nothing leaves for a
\* command without a configuration or a meter without an address.
LEMMA EncodedOf ==
  ASSUME NEW command \in Enqueueable, NEW phase \in PHASES, NEW token \in Strings,
         NEW payload, isPayload(payload), NEW reference \in Strings \ {<<>>}
  PROVE  LET bytes == encodeRequestData(reference, phase, command, token, payload)
             address == Len(reference) <= 12 /\ Range(reference) \subseteq 0..15
         IN  /\ bytes \in Seq(Bytes)
             /\ bytes = NoBytes <=> /\ command # "READ_POWER_LIMIT"
                                    /\ ~address \/ Unencodable(command, token, payload)
<1> DEFINE bytes == encodeRequestData(reference, phase, command, token, payload)
           address == hexToBytes(padStart(reference, 12))
           config == determineCommandConfig(command, phase, token, payload)
           data == IF config.requiresPassword
                   THEN OnWire(PasswordBytes) \o OnWire(config.rawWriteData)
                   ELSE config.rawWriteData
           frame == Frame(Reverse(address), config.controlCode, config.dataIdentifier, data)
<1>1. CASE command = "READ_POWER_LIMIT"
  <2>1. bytes = encodeDlms
    BY <1>1 DEF encodeRequestData
  <2> QED
    BY <1>1, <2>1, DlmsBytes
<1>2. CASE command # "READ_POWER_LIMIT"
  <2>1. bytes = IF Len(address) # 6 \/ config = None THEN NoBytes ELSE frame
    BY <1>2 DEF encodeRequestData
  <2>2. /\ address \in Seq(Bytes)
        /\ Len(address) = 6 <=> Len(reference) <= 12 /\ Range(reference) \subseteq 0..15
    BY AddressOf
  <2>3. IF Unencodable(command, token, payload) THEN config = None ELSE IsConfig(config)
    BY ConfigOf
  <2> HIDE DEF address, config
  <2>4. CASE ~Unencodable(command, token, payload)
    <3>1. /\ config # None /\ config.controlCode \in Bytes
          /\ config.dataIdentifier \in Seq(Bytes) /\ config.rawWriteData \in Seq(Bytes)
      BY <2>3, <2>4 DEF IsConfig
    <3>2. PasswordBytes \in Seq(Bytes)
      BY DEF PasswordBytes, Bytes
    <3>3. data \in Seq(Bytes)
      <4>1. OnWire(PasswordBytes) \in Seq(Bytes) /\ OnWire(config.rawWriteData) \in Seq(Bytes)
        BY <3>1, <3>2, OnWireOf
      <4>2. OnWire(PasswordBytes) \o OnWire(config.rawWriteData) \in Seq(Bytes)
        BY <4>1, ConcatProperties
      <4> QED
        BY <3>1, <4>2
    <3>4. Reverse(address) \in Seq(Bytes)
      BY <2>2, ReverseOf
    <3>5. frame \in Seq(Bytes) /\ frame # <<>>
      <4> HIDE DEF data
      <4> QED
        BY <3>1, <3>3, <3>4, FrameOf
    <3>6. <<>> \in Seq(Bytes)
      OBVIOUS
    <3> HIDE DEF bytes, frame
    <3>7. /\ bytes \in Seq(Bytes)
          /\ bytes = NoBytes <=> ~(Len(reference) <= 12 /\ Range(reference) \subseteq 0..15)
      BY <2>1, <2>2, <3>1, <3>5, <3>6 DEF NoBytes
    <3> QED
      BY <1>2, <2>4, <3>7 DEF bytes
  <2>5. CASE Unencodable(command, token, payload)
    <3>1. bytes = NoBytes
      BY <2>1, <2>3, <2>5
    <3>2. NoBytes \in Seq(Bytes)
      BY DEF NoBytes
    <3> QED
      BY <1>2, <2>5, <3>1, <3>2
  <2> QED
    BY <2>4, <2>5
<1> QED
  BY <1>1, <1>2

LEMMA ChirpstackCommands ==
  /\ supportedCommandTypes["calin-chirpstack"] \subseteq Enqueueable \ {"READ_VERSION"}
  /\ \A p \in Plugins \ {"calin-chirpstack"} : supportedCommandTypes[p] \subseteq Enqueueable \ {"READ_TIME", "SET_TIME"}
  BY DEF supportedCommandTypes, CommonCommands, Plugins, Enqueueable, ReadCommands,
         PhaseSpecificReads, ControlCommands, WriteCommands, TokenCommands, GenerateTokenTypes

\* hexToBytes takes the tokens that have an even number of hex digits.
LEMMA HexToken ==
  ASSUME NEW t \in Strings
  PROVE  IsHex(t) <=> t # <<>> /\ Len(t) % 2 = 0 /\ Range(t) \subseteq 0..15
<1>1. Len(t) \in Nat /\ DOMAIN t = 1..Len(t) /\ \A j \in 1..Len(t) : t[j] \in 0..17
  BY DEF Strings
<1>2. \A x \in 0..17 : x \in 0..15 <=> x < 16
  OBVIOUS
<1>3. Range(t) = {t[j] : j \in 1..Len(t)}
  BY <1>1 DEF Range
<1>4. \A j \in 1..Len(t) : t[j] \in 0..15 <=> t[j] < 16
  BY <1>1, <1>2
<1> QED
  BY <1>3, <1>4 DEF IsHex

LEMMA ChirpstackSends ==
  ASSUME NEW c, isCreate(c), c.commandType \in supportedCommandTypes["calin-chirpstack"]
  PROVE  /\ chirpstackSendOne(c) = None <=> ~Sendable("calin-chirpstack", c)
         /\ chirpstackSendOne(c) # None =>
               chirpstackSendOne(c).kind = "frame" /\ chirpstackSendOne(c).bytes \in Seq(Bytes)
<1> DEFINE bytes == encodeRequestData(c.reference, framePhase(c), c.commandType, c.token, c.payload)
<1>1. /\ c.commandType \in Enqueueable /\ c.commandType # "READ_VERSION"
      /\ c.token \in Strings /\ isPayload(c.payload) /\ c.reference \in Strings \ {<<>>}
  BY ChirpstackCommands DEF isCreate
<1>2. framePhase(c) \in PHASES
  BY DEF isCreate, framePhase, PHASES
<1>3. /\ bytes \in Seq(Bytes)
      /\ bytes = NoBytes <=> /\ c.commandType # "READ_POWER_LIMIT"
                             /\ \/ ~(Len(c.reference) <= 12 /\ Range(c.reference) \subseteq 0..15)
                                \/ Unencodable(c.commandType, c.token, c.payload)
  BY <1>1, <1>2, EncodedOf
<1>4. chirpstackSendOne(c) = IF bytes = NoBytes THEN None ELSE [kind |-> "frame", bytes |-> bytes]
  BY DEF chirpstackSendOne
<1>5. [kind |-> "frame", bytes |-> bytes].kind # None.kind
  BY DEF None
<1> HIDE DEF bytes
<1>6. chirpstackSendOne(c) = None <=> bytes = NoBytes
  BY <1>4, <1>5
<1>7. bytes = NoBytes <=> ~Sendable("calin-chirpstack", c)
  <2>1. c.commandType \in TokenCommands =>
          (IsHex(c.token) <=> c.token # <<>> /\ Len(c.token) % 2 = 0 /\ Range(c.token) \subseteq 0..15)
    BY <1>1, HexToken
  <2>2. "READ_POWER_LIMIT" \notin TokenCommands
    BY DEF TokenCommands, GenerateTokenTypes
  <2> QED
    BY <1>1, <1>3, <2>1, <2>2 DEF Sendable, Unencodable
<1> QED
  BY <1>3, <1>4, <1>6, <1>7

-----------------------------------------------------------------------------
(* Tokens *)

\* A bounded set of naturals that is not empty has a least and a greatest member.
LEMMA ExtremesOf ==
  ASSUME NEW n \in Nat, NEW S, S \subseteq 1..n, S # {}
  PROVE  Min(S) \in S /\ Max(S) \in S /\ \A y \in S : Min(S) <= y /\ y <= Max(S)
<1> DEFINE R == {ss \in Nat \X Nat : ss[1] < ss[2]}
           T == {n - i : i \in S}
<1>1. IsWellFoundedOn(R, Nat)
  BY NatLessThanWellFounded DEF OpToRel
<1>R. \A a, b \in Nat : <<a, b>> \in R <=> a < b
  OBVIOUS
<1>2. S \subseteq Nat /\ T \subseteq Nat /\ T # {} /\ \A i \in S : i \in 1..n
  <2>1. \A i \in S : i \in 1..n /\ i \in Nat /\ n - i \in Nat
    OBVIOUS
  <2>2. S \subseteq Nat /\ T \subseteq Nat
    BY <2>1
  <2>3. T # {}
    OBVIOUS
  <2> QED
    BY <2>1, <2>2, <2>3
<1>3. PICK x \in S : \A y \in S : ~(<<y, x>> \in R)
  <2> HIDE DEF R
  <2> QED
    BY <1>1, <1>2, WFMin
<1> HIDE DEF R
<1>4. \A y \in S : x <= y
  <2>1. \A y \in S : ~(y < x)
    BY <1>2, <1>3, <1>R
  <2> QED
    BY <1>2, <2>1
<1>5. Min(S) \in S /\ \A y \in S : Min(S) <= y
  BY <1>4 DEF Min
<1>6. PICK t \in T : \A y \in T : ~(<<y, t>> \in R)
  <2> HIDE DEF T
  <2> QED
    BY <1>1, <1>2, WFMin
<1>7. PICK z \in S : t = n - z
  OBVIOUS
<1>8. \A y \in S : ~(n - y < n - z)
  <2>1. \A y \in S : n - y \in T
    OBVIOUS
  <2>2. n - z \in Nat /\ \A y \in S : n - y \in Nat
    BY <1>2
  <2> HIDE DEF T
  <2> QED
    BY <1>6, <1>7, <1>R, <2>1, <2>2
<1>9. \A y \in S : z >= y
  <2> SUFFICES ASSUME NEW y \in S PROVE z >= y
    OBVIOUS
  <2>1. ~(n - y < n - z) /\ y \in 1..n /\ z \in 1..n
    BY <1>2, <1>8
  <2> QED
    BY <2>1
<1>10. Max(S) \in S /\ \A y \in S : Max(S) >= y
  BY <1>9 DEF Max
<1>11. \A a, b \in Nat : a >= b <=> b <= a
  OBVIOUS
<1> QED
  BY <1>2, <1>5, <1>10, <1>11

LEMMA TrimmedOf == ASSUME NEW key \in Strings PROVE trimmed(key) \in Strings
<1> DEFINE kept == {i \in DOMAIN key : key[i] # Blank}
<1>1. Len(key) \in Nat /\ DOMAIN key = 1..Len(key) /\ \A i \in 1..Len(key) : key[i] \in 0..17
  BY DEF Strings
<1>2. CASE kept = {}
  <2>1. trimmed(key) = <<>>
    BY <1>2 DEF trimmed
  <2> QED
    BY <2>1 DEF Strings
<1>3. CASE kept # {}
  <2>1. kept \subseteq 1..Len(key)
    BY <1>1
  <2>2. trimmed(key) = SubSeq(key, Min(kept), Max(kept))
    BY <1>3 DEF trimmed
  <2> HIDE DEF kept
  <2>3. Min(kept) \in 1..Len(key) /\ Max(kept) \in 1..Len(key)
    BY <1>1, <1>3, <2>1, ExtremesOf
  <2>4. \A a, b \in 1..Len(key) : SubSeq(key, a, b) \in Seq(0..17)
    <3> TAKE a, b \in 1..Len(key)
    <3> QED
      BY <1>1, SubSeqProperties DEF Strings
  <2> QED
    BY <2>2, <2>3, <2>4 DEF Strings
<1> QED
  BY <1>2, <1>3

\* A mint request names an operation of its own vendor and a digit's worth.
LEMMA GenerateOf ==
  ASSUME NEW p \in TokenPlugins, NEW id \in Strings, NEW r, isMint(r), r.amount \in 0..9,
         generate(p, id, r) # None
  PROVE  LET request == generate(p, id, r)
         IN  /\ \E t \in GenerateTokenTypes : request.path \in {V1mintPath[t], V2mintPath[t], t}
             /\ request.amount \in 0..9
             /\ request.meter \in Strings
<1> DEFINE request == generate(p, id, r)
<1>1. r.type \in GenerateTokenTypes /\ r.decoderKey \in Strings /\ 0 \in 0..9
  BY DEF isMint
<1>2. CASE p = "calin-api-v1"
  <2>1. request = CalinMint(V1mintPath, id, r)
    BY <1>2 DEF generate
  <2> QED
    BY <1>1, <2>1 DEF CalinMint, MintRequest
<1>3. CASE p = "calin-api-v2"
  <2>1. request = CalinMint(V2mintPath, id, r)
    BY <1>3 DEF generate
  <2> QED
    BY <1>1, <2>1 DEF CalinMint, MintRequest
<1>4. CASE p = "nxt-sts"
  <2>1. request = MintRequest(r.type, trimmed(r.decoderKey), r.amount)
    BY <1>4 DEF generate, nxtStsMint
  <2> QED
    BY <1>1, <2>1, TrimmedOf DEF MintRequest
<1> QED
  BY <1>2, <1>3, <1>4 DEF TokenPlugins

LEMMA VoucherOf ==
  ASSUME NEW request,
         \E t \in GenerateTokenTypes : request.path \in {V1mintPath[t], V2mintPath[t], t},
         request.amount \in 0..9, request.meter \in Strings
  PROVE  Voucher(request) \in Strings
<1> DEFINE type == CHOOSE t \in GenerateTokenTypes : request.path \in {V1mintPath[t], V2mintPath[t], t}
           head == <<TokenClass[type], request.amount>>
           pad  == IF Len(request.meter) % 2 = 0 THEN <<>> ELSE <<0>>
<1>1. type \in GenerateTokenTypes
  OBVIOUS
<1>2. Voucher(request) = head \o request.meter \o pad
  BY DEF Voucher
<1> HIDE DEF type
<1>3. TokenClass[type] \in 0..17 /\ request.amount \in 0..17
  BY <1>1 DEF TokenClass, GenerateTokenTypes
<1>4. head \in Strings /\ pad \in Strings
  <2>1. /\ \A a, b \in 0..17 : <<a, b>> \in Seq(0..17)
        /\ <<>> \in Seq(0..17) /\ <<0>> \in Seq(0..17)
    OBVIOUS
  <2> QED
    BY <1>3, <2>1 DEF Strings
<1> HIDE DEF head, pad
<1>5. head \o request.meter \in Strings
  BY <1>4, ConcatProperties DEF Strings
<1>6. head \o request.meter \o pad \in Strings
  BY <1>4, <1>5, ConcatProperties DEF Strings
<1> QED
  BY <1>2, <1>6

-----------------------------------------------------------------------------
(* What the HTTP plugins send *)

LEMMA TaskIsNotNone ==
  ASSUME NEW path, NEW item, NEW data
  PROVE  Task(path, item, data) # None /\ Task(path, item, data).kind = "task"
         /\ Task(path, item, data).path = path
<1>1. DOMAIN Task(path, item, data) # DOMAIN None
  BY DEF Task, None
<1> QED
  BY <1>1 DEF Task

LEMMA NoTokenOf ==
  ASSUME NEW c, c.token \in Strings
  PROVE  noToken(c) <=> Range(c.token) \ {Blank} = {}
<1>1. Range(c.token) = {c.token[i] : i \in DOMAIN c.token}
  BY DEF Range
<1> QED
  BY <1>1 DEF noToken

LEMMA UnformattableOf ==
  ASSUME NEW payload, isPayload(payload)
  PROVE  unformattable(payload) <=>
           ~(/\ payload.kind = "date"
             /\ payload.day <= DaysInMonth(fullYear(payload.year), payload.month))
<1>1. CASE payload.kind # "date"
  BY <1>1 DEF unformattable
<1>2. CASE payload.kind = "date"
  <2>2. payload.day \in 1..31
    <3>1. setDatePayload(payload)
      BY <1>2, PayloadParts
    <3> QED
      BY <3>1 DEF setDatePayload
  <2>3. PICK d \in 1..31 : d = payload.day
    BY <2>2
  <2>4. \A y, m : DaysInMonth(y, m) \in {28, 29, 30, 31}
    BY DEF DaysInMonth
  <2>5. \A k \in {28, 29, 30, 31} : d > k <=> ~(d <= k)
    OBVIOUS
  <2>6. rollsOver(fullYear(payload.year), payload.month, payload.day)
          <=> ~(payload.day <= DaysInMonth(fullYear(payload.year), payload.month))
    BY <2>3, <2>4, <2>5 DEF rollsOver
  <2> QED
    BY <1>2, <2>6 DEF unformattable
<1> QED
  BY <1>1, <1>2

HttpReads == {"READ_CREDIT", "READ_VOLTAGE", "READ_POWER", "READ_CURRENT", "READ_POWER_LIMIT",
              "READ_VERSION", "READ_DATE"}

LEMMA HttpCommands ==
  ASSUME NEW p \in Plugins \ {"calin-chirpstack"}, NEW k \in supportedCommandTypes[p]
  PROVE  k \in HttpReads \cup {"TURN_ON", "TURN_OFF", "SET_DATE"} \cup TokenCommands
  BY DEF supportedCommandTypes, CommonCommands, Plugins, ReadCommands, PhaseSpecificReads,
         ControlCommands, HttpReads

\* A command is in one of the tables of an HTTP plugin.
OneTable(k, reads, controls, writes) ==
    /\ k \in HttpReads => k \in reads /\ k \notin controls \cup writes \cup TokenCommands
    /\ k \in {"TURN_ON", "TURN_OFF"} => k \in controls /\ k \notin reads \cup writes \cup TokenCommands
    /\ k = "SET_DATE" => k \in writes /\ k \notin reads \cup controls \cup TokenCommands
    /\ k \in TokenCommands => k \notin reads \cup controls \cup writes

LEMMA TablesOf ==
  ASSUME NEW k
  PROVE  /\ OneTable(k, DOMAIN V1ReadMap, DOMAIN V1ControlMap, DOMAIN V1WriteMap)
         /\ OneTable(k, DOMAIN V2ReadMap, DOMAIN V2ControlMap, DOMAIN V2WriteMap)
<1>1. /\ DOMAIN V1ReadMap = HttpReads /\ DOMAIN V2ReadMap = HttpReads
      /\ DOMAIN V1ControlMap = {"TURN_ON", "TURN_OFF"} /\ DOMAIN V2ControlMap = {"TURN_ON", "TURN_OFF"}
      /\ DOMAIN V1WriteMap = {"SET_DATE"} /\ DOMAIN V2WriteMap = {"SET_DATE"}
  BY DEF V1ReadMap, V2ReadMap, V1ControlMap, V2ControlMap, V1WriteMap, V2WriteMap, HttpReads
<1>2. /\ HttpReads \cap TokenCommands = {} /\ {"TURN_ON", "TURN_OFF", "SET_DATE"} \cap TokenCommands = {}
      /\ HttpReads \cap {"TURN_ON", "TURN_OFF", "SET_DATE"} = {}
  BY DEF TokenCommands, GenerateTokenTypes, HttpReads
<1> QED
  BY <1>1, <1>2 DEF OneTable

\* The task of each command, over V1 and over V2.
LEMMA V1Tasks ==
  ASSUME NEW c
  PROVE  LET k == c.commandType
         IN  /\ k \in HttpReads => V1sendOne(c) = Task("READ", V1getReadDataItem(k, c.phase), None)
             /\ k \in {"TURN_ON", "TURN_OFF"} => V1sendOne(c) = Task("CONTROL", V1ControlMap[k], None)
             /\ k = "SET_DATE" => V1sendOne(c) = IF unformattable(c.payload) THEN None
                                  ELSE Task("WRITE", V1WriteMap[k], V1formatDate(c.payload))
             /\ k \in TokenCommands => V1sendOne(c) = IF noToken(c) THEN None
                                  ELSE Task("TOKEN", "Token", [kind |-> "token", token |-> c.token])
<1> DEFINE k == c.commandType
<1>1. OneTable(k, DOMAIN V1ReadMap, DOMAIN V1ControlMap, DOMAIN V1WriteMap)
  BY TablesOf
<1>2. CASE k \in HttpReads
  BY <1>1, <1>2 DEF V1sendOne, OneTable
<1>3. CASE k \in {"TURN_ON", "TURN_OFF"}
  BY <1>1, <1>3 DEF V1sendOne, OneTable
<1>4. CASE k = "SET_DATE"
  BY <1>1, <1>4 DEF V1sendOne, OneTable
<1>5. CASE k \in TokenCommands
  BY <1>1, <1>5 DEF V1sendOne, OneTable
<1> QED
  BY <1>2, <1>3, <1>4, <1>5

LEMMA V2Tasks ==
  ASSUME NEW c
  PROVE  LET k == c.commandType
         IN  /\ k \in HttpReads => V2sendOne(c) = Task("READ", V2ReadMap[k], None)
             /\ k \in {"TURN_ON", "TURN_OFF"} => V2sendOne(c) = Task("CONTROL", V2ControlMap[k], None)
             /\ k = "SET_DATE" => V2sendOne(c) = IF unformattable(c.payload) THEN None
                                  ELSE Task("WRITE", V2WriteMap[k], V2formatDate(c.payload))
             /\ k \in TokenCommands => V2sendOne(c) = IF noToken(c) THEN None
                   ELSE Task("TOKEN", TOKEN_DELIVERY_PROTOCOL_ID, [kind |-> "token", token |-> c.token])
<1> DEFINE k == c.commandType
<1>1. OneTable(k, DOMAIN V2ReadMap, DOMAIN V2ControlMap, DOMAIN V2WriteMap)
  BY TablesOf
<1>2. CASE k \in HttpReads
  BY <1>1, <1>2 DEF V2sendOne, OneTable
<1>3. CASE k \in {"TURN_ON", "TURN_OFF"}
  BY <1>1, <1>3 DEF V2sendOne, OneTable
<1>4. CASE k = "SET_DATE"
  BY <1>1, <1>4 DEF V2sendOne, OneTable
<1>5. CASE k \in TokenCommands
  BY <1>1, <1>5 DEF V2sendOne, OneTable
<1> QED
  BY <1>2, <1>3, <1>4, <1>5

\* An HTTP plugin hands over a task of the command's own kind, or refuses.
LEMMA HttpSends ==
  ASSUME NEW p \in Plugins \ {"calin-chirpstack"}, NEW c, isCreate(c),
         c.commandType \in supportedCommandTypes[p]
  PROVE  /\ sendOne(p, c) = None <=> ~Sendable(p, c)
         /\ sendOne(p, c) # None =>
               sendOne(p, c).kind = "task" /\ sendOne(p, c).path = taskType(c.commandType)
<1> DEFINE k == c.commandType
<1>1. k \in HttpReads \cup {"TURN_ON", "TURN_OFF", "SET_DATE"} \cup TokenCommands
  BY HttpCommands
<1>2. c.token \in Strings /\ isPayload(c.payload)
  BY DEF isCreate
<1>3. /\ HttpReads \cap TokenCommands = {} /\ {"TURN_ON", "TURN_OFF", "SET_DATE"} \cap TokenCommands = {}
  BY DEF TokenCommands, GenerateTokenTypes, HttpReads
<1>4. k \in HttpReads => k # "SET_DATE"
  BY DEF HttpReads
<1>5. /\ k \in HttpReads => taskType(k) = "READ"
      /\ k \in {"TURN_ON", "TURN_OFF"} => taskType(k) = "CONTROL"
      /\ k = "SET_DATE" => taskType(k) = "WRITE"
      /\ k \in TokenCommands => taskType(k) = "TOKEN"
  BY DEF taskType, ReadCommands, PhaseSpecificReads, ControlCommands, WriteCommands, TokenCommands,
         GenerateTokenTypes, HttpReads
<1>6. /\ k \in HttpReads => \E item : sendOne(p, c) = Task("READ", item, None)
      /\ k \in {"TURN_ON", "TURN_OFF"} => \E item : sendOne(p, c) = Task("CONTROL", item, None)
      /\ k = "SET_DATE" => \E item, data : sendOne(p, c) = IF unformattable(c.payload) THEN None
                                                            ELSE Task("WRITE", item, data)
      /\ k \in TokenCommands => \E item, data : sendOne(p, c) = IF noToken(c) THEN None
                                                                ELSE Task("TOKEN", item, data)
  <2>1. CASE p = "calin-api-v1"
    <3>1. sendOne(p, c) = V1sendOne(c)
      BY <2>1 DEF sendOne
    <3>2. k \in HttpReads => sendOne(p, c) = Task("READ", V1getReadDataItem(k, c.phase), None)
      BY <3>1, V1Tasks
    <3>3. k \in {"TURN_ON", "TURN_OFF"} => sendOne(p, c) = Task("CONTROL", V1ControlMap[k], None)
      BY <3>1, V1Tasks
    <3>4. k = "SET_DATE" => sendOne(p, c) = IF unformattable(c.payload) THEN None
                                ELSE Task("WRITE", V1WriteMap[k], V1formatDate(c.payload))
      BY <3>1, V1Tasks
    <3>5. k \in TokenCommands => sendOne(p, c) = IF noToken(c) THEN None
                                ELSE Task("TOKEN", "Token", [kind |-> "token", token |-> c.token])
      BY <3>1, V1Tasks
    <3> QED
      BY <3>2, <3>3, <3>4, <3>5
  <2>2. CASE p = "calin-api-v2"
    <3>1. sendOne(p, c) = V2sendOne(c)
      BY <2>2 DEF sendOne
    <3>2. k \in HttpReads => sendOne(p, c) = Task("READ", V2ReadMap[k], None)
      BY <3>1, V2Tasks
    <3>3. k \in {"TURN_ON", "TURN_OFF"} => sendOne(p, c) = Task("CONTROL", V2ControlMap[k], None)
      BY <3>1, V2Tasks
    <3>4. k = "SET_DATE" => sendOne(p, c) = IF unformattable(c.payload) THEN None
                                ELSE Task("WRITE", V2WriteMap[k], V2formatDate(c.payload))
      BY <3>1, V2Tasks
    <3>5. k \in TokenCommands => sendOne(p, c) = IF noToken(c) THEN None
                                ELSE Task("TOKEN", TOKEN_DELIVERY_PROTOCOL_ID, [kind |-> "token", token |-> c.token])
      BY <3>1, V2Tasks
    <3> QED
      BY <3>2, <3>3, <3>4, <3>5
  <2> QED
    BY <2>1, <2>2 DEF Plugins
<1>7. /\ ~(k \in TokenCommands) /\ k # "SET_DATE" => Sendable(p, c)
      /\ k = "SET_DATE" => (Sendable(p, c) <=> ~unformattable(c.payload))
      /\ k \in TokenCommands => (Sendable(p, c) <=> ~noToken(c))
  <2>1. noToken(c) <=> Range(c.token) \ {Blank} = {}
    BY <1>2, NoTokenOf
  <2>2. unformattable(c.payload) <=>
           ~(/\ c.payload.kind = "date"
             /\ c.payload.day <= DaysInMonth(fullYear(c.payload.year), c.payload.month))
    BY <1>2, UnformattableOf
  <2> QED
    BY <1>3, <2>1, <2>2 DEF Sendable
<1>8. CASE k \in HttpReads
  BY <1>3, <1>4, <1>5, <1>6, <1>7, <1>8, TaskIsNotNone
<1>9. CASE k \in {"TURN_ON", "TURN_OFF"}
  BY <1>3, <1>5, <1>6, <1>7, <1>9, TaskIsNotNone
<1>10. CASE k = "SET_DATE"
  BY <1>5, <1>6, <1>7, <1>10, TaskIsNotNone
<1>11. CASE k \in TokenCommands
  BY <1>5, <1>6, <1>7, <1>11, TaskIsNotNone
<1> QED
  BY <1>1, <1>8, <1>9, <1>10, <1>11

-----------------------------------------------------------------------------
(* What sendOne hands over, and what a status query ends in *)

\* What sendOne refuses is what cannot be sent, and what it hands over is typed.
LEMMA SendOneOf ==
  ASSUME NEW p \in Plugins, NEW c, isCreate(c), c.commandType \in supportedCommandTypes[p]
  PROVE  LET sent == sendOne(p, c)
         IN  /\ sent = None <=> ~Sendable(p, c)
             /\ \/ sent = None
                \/ sent.kind = "frame" /\ p = "calin-chirpstack" /\ sent.bytes \in Seq(0..255)
                \/ sent.kind = "task" /\ p # "calin-chirpstack" /\ sent.path = taskType(c.commandType)
<1>1. CASE p = "calin-chirpstack"
  <2>1. sendOne(p, c) = chirpstackSendOne(c)
    BY <1>1 DEF sendOne
  <2>2. /\ chirpstackSendOne(c) = None <=> ~Sendable(p, c)
        /\ chirpstackSendOne(c) # None =>
              chirpstackSendOne(c).kind = "frame" /\ chirpstackSendOne(c).bytes \in Seq(Bytes)
    BY <1>1, ChirpstackSends
  <2> QED
    BY <1>1, <2>1, <2>2 DEF Bytes
<1>2. CASE p # "calin-chirpstack"
  <2>1. /\ sendOne(p, c) = None <=> ~Sendable(p, c)
        /\ sendOne(p, c) # None =>
              sendOne(p, c).kind = "task" /\ sendOne(p, c).path = taskType(c.commandType)
    BY <1>2, HttpSends
  <2> QED
    BY <1>2, <2>1
<1> QED
  BY <1>1, <1>2

LEMMA WithOf ==
  ASSUME NEW event, NEW answer, NEW f \in DOMAIN event, f # "answer"
  PROVE  With(event, answer)[f] = event[f] /\ With(event, answer)["answer"] = answer
  BY DEF With

\* What a status query that ends the poll ends in.
LEMMA EventOf ==
  ASSUME NEW answer, fetchStatus(answer) # None
  PROVE  \/ \E response : fetchStatus(answer) = Delivered(response)
         \/ fetchStatus(answer) = DeliveryFailed(FALSE)
         \/ /\ fetchStatus(answer) = DeliveryFailed(answer.resultCode = 99)
            /\ plugin = "calin-api-v1" /\ answer.kind = "noResult"
<1> DEFINE event == fetchStatus(answer)
<1>1. CASE plugin = "calin-api-v1"
  <2>1. event = V1fetchStatus(answer, create.phase)
    BY <1>1 DEF fetchStatus
  <2>2. CASE answer.kind \in {"httpError", "transportError"}
    <3>1. event = IF V1pollFails(answer) THEN DeliveryFailed(FALSE) ELSE None
      BY <2>1, <2>2 DEF V1fetchStatus
    <3> QED
      BY <3>1
  <2>3. CASE answer.kind = "noResult"
    BY <1>1, <2>1, <2>3 DEF V1fetchStatus
  <2>4. CASE answer.kind \in {"done", "failed"}
    BY <2>1, <2>4 DEF V1fetchStatus
  <2>5. CASE answer.kind \notin {"httpError", "transportError", "noResult", "done", "failed"}
    <3>1. event = None
      BY <2>1, <2>5 DEF V1fetchStatus
    <3> QED
      BY <3>1
  <2> QED
    BY <2>2, <2>3, <2>4, <2>5
<1>2. CASE plugin # "calin-api-v1"
  <2>1. event = V2fetchStatus(answer, taskType(create.commandType))
    BY <1>2 DEF fetchStatus
  <2>2. CASE answer.kind \in {"error", "noResult"}
    BY <2>1, <2>2 DEF V2fetchStatus
  <2>3. CASE answer.kind \in {"done", "failed"}
    BY <2>1, <2>3 DEF V2fetchStatus
  <2>4. CASE answer.kind \notin {"error", "noResult", "done", "failed"}
    <3>1. event = None
      BY <2>1, <2>4 DEF V2fetchStatus
    <3> QED
      BY <3>1
  <2> QED
    BY <2>2, <2>3, <2>4
<1> QED
  BY <1>1, <1>2

\* A status query ends in a delivery or a failure, final only for result code 99
\* of a task V1 does not have.
LEMMA FetchStatusOf ==
  ASSUME NEW answer, fetchStatus(answer) # None
  PROVE  LET event == With(fetchStatus(answer), answer)
         IN  /\ event.kind \in {"DELIVERY_SUCCESSFUL", "DELIVERY_FAILED"}
             /\ event.kind = "DELIVERY_FAILED" /\ event.skipRetry =>
                   /\ plugin = "calin-api-v1"
                   /\ event.answer.kind = "noResult" /\ event.answer.resultCode = 99
<1> DEFINE event == fetchStatus(answer)
<1>1. \/ \E response : event = Delivered(response)
      \/ event = DeliveryFailed(FALSE)
      \/ /\ event = DeliveryFailed(answer.resultCode = 99)
         /\ plugin = "calin-api-v1" /\ answer.kind = "noResult"
  BY EventOf
<1> HIDE DEF event
<1>2. CASE \E response : event = Delivered(response)
  <2>1. "kind" \in DOMAIN event /\ event["kind"] = "DELIVERY_SUCCESSFUL"
    BY <1>2 DEF Delivered
  <2>2. With(event, answer)["kind"] = "DELIVERY_SUCCESSFUL"
    BY <2>1, WithOf
  <2> QED
    BY <2>2 DEF event
<1>3. ASSUME NEW final, event = DeliveryFailed(final)
      PROVE  /\ With(event, answer).kind = "DELIVERY_FAILED"
             /\ With(event, answer).skipRetry = final
             /\ With(event, answer).answer = answer
  <2>1. /\ {"kind", "skipRetry"} \subseteq DOMAIN event
        /\ event["kind"] = "DELIVERY_FAILED" /\ event["skipRetry"] = final
    BY <1>3 DEF DeliveryFailed
  <2>2. /\ With(event, answer)["kind"] = event["kind"]
        /\ With(event, answer)["skipRetry"] = event["skipRetry"]
        /\ With(event, answer)["answer"] = answer
    BY <2>1, WithOf
  <2> QED
    BY <2>1, <2>2
<1>4. CASE event = DeliveryFailed(FALSE)
  BY <1>3, <1>4 DEF event
<1>5. CASE /\ event = DeliveryFailed(answer.resultCode = 99)
           /\ plugin = "calin-api-v1" /\ answer.kind = "noResult"
  BY <1>3, <1>5 DEF event
<1> QED
  BY <1>1, <1>2, <1>4, <1>5

-----------------------------------------------------------------------------
(* The invariant *)

\* A command that waits is one its plugin takes, nothing has left for it, and one
\* that has left is one that can be sent.
Progress ==
    /\ pc \in {"new", "queued"} => wire = None
    /\ pc = "queued" => create.commandType \in supportedCommandTypes[plugin]
    /\ pc \in {"sent", "held", "executed"} => Sendable(plugin, create)

CallsInv == TypeOK /\ Progress /\ RefusalIsFinal

LEMMA CallsInit == Init => CallsInv
<1> SUFFICES ASSUME Init PROVE CallsInv
  OBVIOUS
<1> USE DEF Init
<1>1. TypeOK
  <2>1. isCreate(create) /\ 0 \in 0..MaxPolls
    BY CallsAssumption
  <2> QED
    BY <2>1 DEF TypeOK, Registrations, Outcomes, Pending, Asleep
<1>2. Progress
  BY DEF Progress
<1>3. RefusalIsFinal
  BY DEF RefusalIsFinal, Pending
<1> QED
  BY <1>1, <1>2, <1>3 DEF CallsInv

\* A step that ends a command which has left its plugin, or goes on with it,
\* other than by a refusal.
LEMMA AfterSend ==
  ASSUME CallsInv, pc \in {"sent", "held", "executed"}, UNCHANGED <<plugin, create, minted, device, wire>>,
         meter'.kind \in {"asleep", "done", "failed"}, polls' \in 0..MaxPolls,
         \/ UNCHANGED told /\ pc' \in {"sent", "held", "executed"}
         \/ /\ pc' = "ended"
            /\ told'.kind \in {"vendorError", "DELIVERY_FAILED", "DELIVERY_SUCCESSFUL"}
            /\ told'.kind = "vendorError" /\ told'.skipRetry =>
                  plugin = "calin-api-v1" \/ (plugin = "calin-chirpstack" /\ device = "unknown")
            /\ told'.kind = "DELIVERY_FAILED" /\ told'.skipRetry =>
                  plugin = "calin-api-v1" /\ told'.answer.kind = "noResult" /\ told'.answer.resultCode = 99
  PROVE  CallsInv'
<1>1. pc # "ended" /\ told.kind = "pending" /\ Sendable(plugin, create)
  BY DEF CallsInv, TypeOK, Progress
<1>2. (pc' # "ended" /\ told'.kind = "pending")
      \/ (pc' = "ended" /\ told'.kind \in {"vendorError", "DELIVERY_FAILED", "DELIVERY_SUCCESSFUL"})
  BY <1>1
<1>3. Sendable(plugin, create)'
  BY <1>1 DEF Sendable
<1>4. TypeOK'
  BY <1>2 DEF CallsInv, TypeOK, Outcomes
<1>5. Progress'
  BY <1>2, <1>3 DEF Progress
<1>6. RefusalIsFinal'
  <2>1. told'.kind # "refused"
    BY <1>2
  <2>2. told'.kind = "pending" => told'.kind \notin {"vendorError", "DELIVERY_FAILED"}
    OBVIOUS
  <2> QED
    BY <1>1, <1>2, <1>3, <2>1, <2>2 DEF RefusalIsFinal
<1> QED
  BY <1>4, <1>5, <1>6 DEF CallsInv

\* A step of a command that has not left its plugin, other than a refusal.
LEMMA BeforeSend ==
  ASSUME CallsInv, pc \in {"new", "queued"}, UNCHANGED <<plugin, device, polls>>, wire' = None,
         isCreate(create)', (minted = None \/ minted \in Mints)',
         meter'.kind \in {"asleep", "done", "failed"},
         \/ UNCHANGED told /\ pc' \in {"new", "queued"}
         \/ /\ pc' = "ended"
            /\ \/ told'.kind \in {"badRequest", "mintError"}
               \/ told'.kind = "DELIVERY_SUCCESSFUL" /\ meter'.kind # "asleep"
               \/ told' = Heard(create, "EXECUTION_SUCCESS", [kind |-> "networkJoined"])',
         pc' = "queued" => create'.commandType \in supportedCommandTypes[plugin]
  PROVE  CallsInv'
<1>1. pc # "ended" /\ told.kind = "pending"
  BY DEF CallsInv, TypeOK
<1>2. \/ pc' # "ended" /\ told'.kind = "pending"
      \/ pc' = "ended" /\ told'.kind \in {"badRequest", "mintError", "DELIVERY_SUCCESSFUL"}
  BY <1>1 DEF Heard
<1>3. TypeOK'
  BY <1>2 DEF CallsInv, TypeOK, Outcomes
<1>4. Progress'
  BY DEF Progress
<1>5. RefusalIsFinal'
  BY <1>2 DEF RefusalIsFinal
<1> QED
  BY <1>3, <1>4, <1>5 DEF CallsInv

\* Minting: the token becomes part of the command, which stays a command.
LEMMA GenerateTokenStep == ASSUME CallsInv, GenerateToken PROVE CallsInv'
<1> USE DEF GenerateToken
<1>1. /\ pc = "new" /\ wire' = None /\ UNCHANGED <<plugin, device, wire, meter, polls>>
      /\ minted = None /\ isCreate(create) /\ meter.kind \in {"asleep", "done", "failed"}
  BY DEF CallsInv, TypeOK, Progress
<1>2. PICK r \in Mints, p \in Plugins \cup TokenPlugins :
          /\ r.type = create.commandType
          /\ LET request == generate(p, create.reference, r)
             IN  IF p \notin TokenPlugins
                 THEN EndWith(BadRequest) /\ UNCHANGED <<create, minted>>
                 ELSE \E token \in IF request = None THEN {<<>>} ELSE {<<>>, Voucher(request)} :
                        IF mintFails(token)
                        THEN EndWith(MintError) /\ UNCHANGED <<create, minted>>
                        ELSE /\ create' = [create EXCEPT !.token = token]
                             /\ minted' = r
                             /\ UNCHANGED <<pc, told>>
  OBVIOUS
<1> DEFINE request == generate(p, create.reference, r)
<1>3. CASE p \notin TokenPlugins
  <2>1. EndWith(BadRequest) /\ UNCHANGED <<create, minted>>
    BY <1>2, <1>3
  <2>2. isCreate(create)' /\ pc' = "ended" /\ told'.kind = "badRequest"
    BY <1>1, <2>1 DEF EndWith, BadRequest
  <2> QED
    BY <1>1, <2>1, <2>2, BeforeSend
<1>4. CASE p \in TokenPlugins
  <2>1. PICK token \in IF request = None THEN {<<>>} ELSE {<<>>, Voucher(request)} :
             IF mintFails(token)
             THEN EndWith(MintError) /\ UNCHANGED <<create, minted>>
             ELSE /\ create' = [create EXCEPT !.token = token]
                  /\ minted' = r
                  /\ UNCHANGED <<pc, told>>
    BY <1>2, <1>4
  <2>2. CASE mintFails(token)
    <3>1. EndWith(MintError) /\ UNCHANGED <<create, minted>>
      BY <2>1, <2>2
    <3>2. isCreate(create)' /\ pc' = "ended" /\ told'.kind = "mintError"
      BY <1>1, <3>1 DEF EndWith, MintError
    <3> QED
      BY <1>1, <3>1, <3>2, BeforeSend
  <2>3. CASE ~mintFails(token)
    <3>1. create' = [create EXCEPT !.token = token] /\ minted' = r /\ UNCHANGED <<pc, told>>
      BY <2>1, <2>3
    <3>2. request # None /\ token = Voucher(request)
      <4>1. token # <<>>
        BY <2>3 DEF mintFails
      <4> HIDE DEF request
      <4> QED
        BY <2>1, <4>1
    <3>3. isMint(r) /\ r.amount \in 0..9 /\ create.reference \in Strings
      BY <1>1, CallsAssumption DEF isCreate
    <3>4. Voucher(request) \in Strings
      <4>1. /\ \E t \in GenerateTokenTypes : request.path \in {V1mintPath[t], V2mintPath[t], t}
            /\ request.amount \in 0..9
            /\ request.meter \in Strings
        BY <1>4, <3>2, <3>3, GenerateOf
      <4> HIDE DEF request
      <4> QED
        BY <4>1, VoucherOf
    <3> HIDE DEF request
    <3>5. isCreate(create')
      <4>1. /\ DOMAIN create' = DOMAIN create /\ create'.token = token
            /\ \A f \in DOMAIN create \ {"token"} : create'[f] = create[f]
        BY <1>1, <3>1 DEF isCreate
      <4>2. token \in Strings
        BY <3>2, <3>4
      <4> QED
        BY <1>1, <4>1, <4>2 DEF isCreate
    <3> QED
      BY <1>1, <3>1, <3>5, BeforeSend
  <2> QED
    BY <2>2, <2>3
<1> QED
  BY <1>3, <1>4

\* Registration goes on beside the command, until the command has ended.
LEMMA ProvisionStep == ASSUME CallsInv, Provision PROVE CallsInv'
<1>1. device' \in Registrations
  BY DEF Provision, CallsInv, TypeOK, Registrations, registerDevice, setApplicationKeyForDevice
<1>2. /\ UNCHANGED <<plugin, create, minted, pc, wire, meter, polls, told>> /\ pc # "ended"
  BY DEF Provision
<1>3. told.kind = "pending"
  BY <1>2 DEF CallsInv, TypeOK
<1>4. TypeOK'
  BY <1>1, <1>2 DEF CallsInv, TypeOK
<1>5. Progress'
  BY <1>2 DEF CallsInv, Progress, Sendable
<1>6. RefusalIsFinal'
  <2>1. Sendable(plugin, create)' <=> Sendable(plugin, create)
    BY <1>2 DEF Sendable
  <2> QED
    BY <1>2, <1>3, <2>1 DEF CallsInv, Progress, TypeOK, RefusalIsFinal
<1> QED
  BY <1>4, <1>5, <1>6 DEF CallsInv

LEMMA EnqueueStep == ASSUME CallsInv, Enqueue PROVE CallsInv'
<1>1. /\ pc = "new" /\ wire' = None /\ UNCHANGED <<plugin, create, minted, device, wire, meter, polls>>
      /\ isCreate(create) /\ (minted = None \/ minted \in Mints)
      /\ meter.kind \in {"asleep", "done", "failed"}
  BY DEF Enqueue, CallsInv, TypeOK, Progress
<1>2. \/ /\ pc' = "queued" /\ UNCHANGED told
         /\ create.commandType \in supportedCommandTypes[plugin]
      \/ pc' = "ended" /\ told'.kind = "badRequest"
  BY DEF Enqueue, EndWith, BadRequest
<1>3. isCreate(create)' /\ (minted = None \/ minted \in Mints)'
  BY <1>1
<1> QED
  BY <1>1, <1>2, <1>3, BeforeSend

\* sendOne refuses for good exactly what cannot be sent.
LEMMA SendOneStep == ASSUME CallsInv, SendOne PROVE CallsInv'
<1>1. /\ pc = "queued" /\ wire' = sendOne(plugin, create)
      /\ UNCHANGED <<plugin, create, minted, device, meter, polls>>
  BY DEF SendOne
<1>2. /\ plugin \in Plugins /\ isCreate(create) /\ told.kind = "pending"
      /\ create.commandType \in supportedCommandTypes[plugin]
  BY <1>1 DEF CallsInv, TypeOK, Progress
<1>3. /\ wire' = None <=> ~Sendable(plugin, create)
      /\ \/ wire' = None
         \/ wire'.kind = "frame" /\ plugin = "calin-chirpstack" /\ wire'.bytes \in Seq(0..255)
         \/ /\ wire'.kind = "task" /\ plugin # "calin-chirpstack"
            /\ wire'.path = taskType(create.commandType)
  BY <1>1, <1>2, SendOneOf, Zenon
<1>4. Sendable(plugin, create)' <=> Sendable(plugin, create)
  BY <1>1 DEF Sendable
<1>5. CASE wire' = None
  <2>1. pc' = "ended" /\ told' = Refused
    BY <1>5 DEF SendOne, EndWith
  <2>2. TypeOK'
    BY <1>1, <1>3, <2>1 DEF CallsInv, TypeOK, Refused, Outcomes
  <2>3. Progress'
    BY <2>1 DEF Progress
  <2>4. RefusalIsFinal'
    BY <1>3, <1>4, <1>5, <2>1 DEF RefusalIsFinal, Refused
  <2> QED
    BY <2>2, <2>3, <2>4 DEF CallsInv
<1>6. CASE wire' # None
  <2>1. pc' = "sent" /\ UNCHANGED told
    BY <1>6 DEF SendOne
  <2>2. TypeOK'
    BY <1>1, <1>2, <1>3, <2>1 DEF CallsInv, TypeOK
  <2>3. Progress'
    BY <1>3, <1>4, <1>6, <2>1 DEF Progress
  <2>4. RefusalIsFinal'
    BY <1>2, <1>3, <1>4, <1>6, <2>1 DEF RefusalIsFinal
  <2> QED
    BY <2>2, <2>3, <2>4 DEF CallsInv
<1> QED
  BY <1>5, <1>6

LEMMA VendorStep == ASSUME CallsInv, VendorTakes \/ VendorRefuses \/ Execute PROVE CallsInv'
<1>1. meter.kind \in {"asleep", "done", "failed"} /\ polls \in 0..MaxPolls
  BY DEF CallsInv, TypeOK
<1>2. CASE VendorTakes
  BY <1>1, <1>2, AfterSend DEF VendorTakes
<1>3. CASE VendorRefuses
  <2>1. /\ pc = "sent" /\ UNCHANGED <<plugin, create, minted, device, wire, meter, polls>>
        /\ pc' = "ended" /\ told'.kind = "vendorError"
        /\ told'.skipRetry => plugin = "calin-api-v1" \/ (plugin = "calin-chirpstack" /\ device = "unknown")
    BY <1>3 DEF VendorRefuses, EndWith, VendorError
  <2> QED
    BY <1>1, <2>1, AfterSend
<1>4. CASE Execute
  <2>1. /\ pc = "held" /\ pc' = "executed" /\ meter'.kind \in {"done", "failed"}
        /\ UNCHANGED <<plugin, create, minted, device, wire, polls, told>>
    BY <1>4 DEF Execute
  <2> QED
    BY <1>1, <2>1, AfterSend
<1> QED
  BY <1>2, <1>3, <1>4

LEMMA UplinkStep ==
  ASSUME CallsInv, HandleUp \/ HandleNack \/ GetRemoteStatus
  PROVE  CallsInv'
<1>1. meter.kind \in {"asleep", "done", "failed"} /\ polls \in 0..MaxPolls /\ MaxPolls \in Nat
  BY CallsAssumption DEF CallsInv, TypeOK
<1>2. CASE HandleUp
  <2>1. /\ pc = "executed" /\ UNCHANGED <<plugin, create, minted, device, wire, meter, polls>>
        /\ \/ UNCHANGED <<pc, told>>
           \/ pc' = "ended" /\ told'.kind = "DELIVERY_SUCCESSFUL"
    BY <1>2 DEF HandleUp, EndWith, Heard
  <2> QED
    BY <1>1, <2>1, AfterSend
<1>3. CASE HandleNack
  <2>1. /\ pc = "held" /\ UNCHANGED <<plugin, create, minted, device, wire, meter, polls>>
        /\ pc' = "ended" /\ told'.kind = "DELIVERY_FAILED" /\ told'.skipRetry = FALSE
    BY <1>3 DEF HandleNack, EndWith, DeliveryFailed
  <2> QED
    BY <1>1, <2>1, AfterSend
<1>4. CASE GetRemoteStatus
  <2>1. /\ pc \in {"held", "executed"} /\ UNCHANGED <<plugin, create, minted, device, wire, meter>>
        /\ \/ UNCHANGED <<pc, told>> /\ polls < MaxPolls /\ polls' = polls + 1
           \/ /\ pc' = "ended" /\ told'.kind = "DELIVERY_FAILED" /\ told'.skipRetry = FALSE
              /\ UNCHANGED polls
    BY <1>4 DEF GetRemoteStatus, EndWith, DeliveryFailed
  <2>2. polls' \in 0..MaxPolls
    BY <1>1, <2>1
  <2> QED
    BY <1>1, <2>1, <2>2, AfterSend
<1> QED
  BY <1>2, <1>3, <1>4

\* A report nobody asked for, or a join, before the command has left.
LEMMA UnsolicitedStep ==
  ASSUME CallsInv, HandleUpUnsolicited \/ HandleJoin
  PROVE  CallsInv'
<1>1. /\ pc = "new" /\ wire' = None /\ UNCHANGED <<plugin, create, minted, device, polls>> /\ pc' = "ended"
  BY DEF HandleUpUnsolicited, HandleJoin, EndWith, CallsInv, TypeOK, Progress
<1>2. isCreate(create)' /\ (minted = None \/ minted \in Mints)'
      /\ meter.kind \in {"asleep", "done", "failed"}
  BY <1>1 DEF CallsInv, TypeOK
<1>3. CASE HandleUpUnsolicited
  <2>1. meter'.kind = "done" /\ told'.kind = "DELIVERY_SUCCESSFUL"
    BY <1>3 DEF HandleUpUnsolicited, EndWith, Heard
  <2> QED
    BY <1>1, <1>2, <2>1, BeforeSend
<1>4. CASE HandleJoin
  <2>1. UNCHANGED meter /\ told' = Heard(create, "EXECUTION_SUCCESS", [kind |-> "networkJoined"])'
    BY <1>4 DEF HandleJoin, EndWith, Heard
  <2> QED
    BY <1>1, <1>2, <2>1, BeforeSend
<1> QED
  BY <1>3, <1>4

LEMMA FetchStatusStep == ASSUME CallsInv, FetchStatus PROVE CallsInv'
<1>1. /\ pc \in {"held", "executed"} /\ UNCHANGED <<plugin, create, minted, device, wire, meter>>
      /\ meter.kind \in {"asleep", "done", "failed"} /\ polls \in 0..MaxPolls /\ MaxPolls \in Nat
  BY CallsAssumption DEF FetchStatus, CallsInv, TypeOK
<1>2. PICK answer :
        IF fetchStatus(answer) = None
        THEN polls < MaxPolls /\ polls' = polls + 1 /\ UNCHANGED <<pc, told>>
        ELSE EndWith(With(fetchStatus(answer), answer)) /\ UNCHANGED polls
  BY DEF FetchStatus
<1>3. CASE fetchStatus(answer) = None
  <2>1. polls' \in 0..MaxPolls /\ UNCHANGED <<pc, told>>
    BY <1>1, <1>2, <1>3
  <2> QED
    BY <1>1, <2>1, AfterSend
<1>4. CASE fetchStatus(answer) # None
  <2>1. pc' = "ended" /\ told' = With(fetchStatus(answer), answer) /\ UNCHANGED polls
    BY <1>2, <1>4 DEF EndWith
  <2>2. /\ told'.kind \in {"DELIVERY_SUCCESSFUL", "DELIVERY_FAILED"}
        /\ told'.kind = "DELIVERY_FAILED" /\ told'.skipRetry =>
              plugin = "calin-api-v1" /\ told'.answer.kind = "noResult" /\ told'.answer.resultCode = 99
    <3>1. LET event == With(fetchStatus(answer), answer)
          IN  /\ event.kind \in {"DELIVERY_SUCCESSFUL", "DELIVERY_FAILED"}
              /\ event.kind = "DELIVERY_FAILED" /\ event.skipRetry =>
                    /\ plugin = "calin-api-v1"
                    /\ event.answer.kind = "noResult" /\ event.answer.resultCode = 99
      BY <1>4, FetchStatusOf
    <3> QED
      BY <2>1, <3>1
  <2> QED
    BY <1>1, <2>1, <2>2, AfterSend
<1> QED
  BY <1>3, <1>4

LEMMA CallsNext == ASSUME CallsInv, [Next]_vars PROVE CallsInv'
<1>1. CASE GenerateToken
  BY <1>1, GenerateTokenStep
<1>2. CASE Provision
  BY <1>2, ProvisionStep
<1>3. CASE Enqueue
  BY <1>3, EnqueueStep
<1>4. CASE SendOne
  BY <1>4, SendOneStep
<1>5. CASE VendorTakes \/ VendorRefuses \/ Execute
  BY <1>5, VendorStep
<1>6. CASE HandleUp \/ HandleNack \/ GetRemoteStatus
  BY <1>6, UplinkStep
<1>7. CASE HandleUpUnsolicited \/ HandleJoin
  BY <1>7, UnsolicitedStep
<1>8. CASE FetchStatus
  BY <1>8, FetchStatusStep
<1>9. CASE UNCHANGED vars
  <2>1. TypeOK' <=> TypeOK
    BY <1>9 DEF vars, TypeOK
  <2>2. Progress' <=> Progress
    BY <1>9 DEF vars, Progress, Sendable
  <2>3. RefusalIsFinal' <=> RefusalIsFinal
    BY <1>9 DEF vars, RefusalIsFinal, Heard, Sendable
  <2> QED
    BY <2>1, <2>2, <2>3 DEF CallsInv
<1> QED
  BY <1>1, <1>2, <1>3, <1>4, <1>5, <1>6, <1>7, <1>8, <1>9 DEF Next

\* The inductive invariant of one command on its way through a plugin: its types, what
\* has left the plugin at each stage, and what a refusal means (enqueue, sendOne and
\* fetchStatus of the three plugins).
THEOREM CallsInvariant == Spec => []CallsInv
<1>1. Init => CallsInv
  BY CallsInit
<1>2. CallsInv /\ [Next]_vars => CallsInv'
  BY CallsNext
<1> QED
  BY <1>1, <1>2, PTL DEF Spec

\* What leaves a plugin has the shape of its transport, a frame of the ChirpStack
\* plugin (encodeRequestData) is made of bytes, and a minted token stays a string of
\* digits the enqueue schema takes: for every command, token, date and reference.
THEOREM CallsTyped == Spec => []TypeOK
<1>1. CallsInv => TypeOK
  BY DEF CallsInv
<1> QED
  BY <1>1, CallsInvariant, PTL

\* sendOne throws with skipRetry for exactly the commands its transport cannot carry,
\* before anything leaves, and no other failure is final except an unregistered device
\* and result code 99 (parseError and fetchStatus of the plugins).
THEOREM CallsRefusalIsFinal == Spec => []RefusalIsFinal
<1>1. CallsInv => RefusalIsFinal
  BY DEF CallsInv
<1> QED
  BY <1>1, CallsInvariant, PTL

-----------------------------------------------------------------------------
(* Recursion over 0..n *)

Solution(t, V, v, n, g) ==
    t \in [0..n -> V] /\ t[0] = v /\ \A i \in 1..n : t[i] = g[<<t[i - 1], i>>]

\* A recursion whose step is a function has a solution.
LEMMA RecursionOf ==
  ASSUME NEW V, NEW v \in V, NEW n \in Nat, NEW g \in [V \X (1..n) -> V]
  PROVE  \E t : Solution(t, V, v, n, g)
<1> DEFINE Solves(t, k) == t[0] = v /\ \A i \in 1..k : t[i] = g[<<t[i - 1], i>>]
           Built == {k \in Nat : k <= n => \E t \in [0..k -> V] : Solves(t, k)}
<1>1. 0 \in Built
  <2>1. [i \in 0..0 |-> v] \in [0..0 -> V] /\ Solves([i \in 0..0 |-> v], 0)
    OBVIOUS
  <2> QED
    BY <2>1
<1>2. ASSUME NEW k \in Nat, k \in Built PROVE k + 1 \in Built
  <2>1. SUFFICES ASSUME k + 1 <= n PROVE \E t \in [0..(k + 1) -> V] : Solves(t, k + 1)
    <3> HIDE DEF Solves
    <3> QED
      OBVIOUS
  <2>2. PICK t \in [0..k -> V] : Solves(t, k)
    <3> HIDE DEF Solves
    <3>1. k <= n
      BY <2>1
    <3> QED
      BY <1>2, <3>1
  <2> DEFINE u == [i \in 0..(k + 1) |-> IF i = k + 1 THEN g[<<t[k], k + 1>>] ELSE t[i]]
  <2>3. t[k] \in V /\ k + 1 \in 1..n
    BY <2>1
  <2>4. g[<<t[k], k + 1>>] \in V
    BY <2>3
  <2>5. u \in [0..(k + 1) -> V]
    <3>1. \A i \in 0..(k + 1) : i # k + 1 => t[i] \in V
      OBVIOUS
    <3> QED
      BY <2>4, <3>1
  <2>6. u[0] = v
    BY <2>2
  <2>7. ASSUME NEW i \in 1..(k + 1) PROVE u[i] = g[<<u[i - 1], i>>]
    <3>1. CASE i = k + 1
      <4>1. u[i - 1] = t[k] /\ u[i] = g[<<t[k], k + 1>>]
        BY <3>1
      <4> QED
        BY <3>1, <4>1
    <3>2. CASE i # k + 1
      <4>1. i \in 1..k /\ u[i] = t[i] /\ u[i - 1] = t[i - 1]
        BY <3>2
      <4>2. t[i] = g[<<t[i - 1], i>>]
        BY <2>2, <4>1
      <4> QED
        BY <4>1, <4>2
    <3> QED
      BY <3>1, <3>2
  <2>8. Solves(u, k + 1)
    BY <2>6, <2>7
  <2> HIDE DEF u, Solves
  <2> QED
    BY <2>5, <2>8
<1>3. Nat \subseteq Built
  <2> HIDE DEF Built
  <2> QED
    BY <1>1, <1>2, NatSetInduction
<1> HIDE DEF Solves
<1>4. \E t \in [0..n -> V] : Solves(t, n)
  BY <1>3
<1> QED
  BY <1>4 DEF Solves, Solution

\* The sums SumTo takes the last of.
Sums(s, f, n) ==
    /\ s \in [0..n -> Int] /\ s[0] = 0
    /\ \A i \in 1..n : s[i] = s[i - 1] + f[i]

LEMMA SumToOf ==
  ASSUME NEW n \in Nat, NEW f \in [1..n -> Int]
  PROVE  \E s : Sums(s, f, n) /\ SumTo(f, n) = s[n]
<1> DEFINE g == [p \in Int \X (1..n) |-> p[1] + f[p[2]]]
           Step(s) == [i \in 0..n |-> IF i = 0 THEN 0 ELSE s[i - 1] + f[i]]
           c == CHOOSE s : s = Step(s)
<1>1. g \in [Int \X (1..n) -> Int] /\ \A x \in Int, i \in 1..n : g[<<x, i>>] = x + f[i]
  OBVIOUS
<1> HIDE DEF g
<1>2. PICK t \in [0..n -> Int] : t[0] = 0 /\ \A i \in 1..n : t[i] = g[<<t[i - 1], i>>]
  <2>1. 0 \in Int
    OBVIOUS
  <2>2. \E t : Solution(t, Int, 0, n, g)
    BY <1>1, <2>1, RecursionOf
  <2> QED
    BY <2>2 DEF Solution
<1>3. \A i \in 1..n : t[i - 1] \in Int /\ t[i] = t[i - 1] + f[i]
  <2>1. \A i \in 1..n : t[i - 1] \in Int
    OBVIOUS
  <2> QED
    BY <1>1, <1>2, <2>1
<1>4. t = Step(t)
  <2>1. \A i \in 0..n : t[i] = IF i = 0 THEN 0 ELSE t[i - 1] + f[i]
    BY <1>2, <1>3
  <2> QED
    BY <2>1
<1>5. c = Step(c)
  <2> HIDE DEF Step
  <2> QED
    BY <1>4
<1>6. SumTo(f, n) = c[n]
  BY DEF SumTo
<1> HIDE DEF c
<1>7. DOMAIN c = 0..n /\ \A i \in 0..n : c[i] = IF i = 0 THEN 0 ELSE c[i - 1] + f[i]
  BY <1>5
<1>8. c[0] = 0 /\ \A i \in 1..n : c[i] = c[i - 1] + f[i]
  BY <1>7
<1> DEFINE Whole == {k \in Nat : k <= n => c[k] \in Int}
<1>9. Nat \subseteq Whole
  <2>1. 0 \in Whole
    BY <1>8
  <2>2. ASSUME NEW k \in Nat, k \in Whole PROVE k + 1 \in Whole
    <3>1. SUFFICES ASSUME k + 1 <= n PROVE c[k + 1] \in Int
      OBVIOUS
    <3>2. c[k + 1] = c[k] + f[k + 1] /\ c[k] \in Int /\ f[k + 1] \in Int
      BY <1>8, <2>2, <3>1
    <3> QED
      BY <3>2
  <2> HIDE DEF Whole
  <2> QED
    BY <2>1, <2>2, NatSetInduction
<1>10. Sums(c, f, n)
  <2>1. \A k \in 0..n : c[k] \in Int
    BY <1>9
  <2>2. c = [i \in 0..n |-> c[i]]
    BY <1>5
  <2> QED
    BY <1>8, <2>1, <2>2 DEF Sums
<1> QED
  BY <1>6, <1>10

\* The digits of one more byte, and what is read of a byte string, last byte first.
Push(digits, byte) == appendNibble(appendNibble(digits, byte \div 16), byte % 16)

Read(r, b) == r[0] = 0 /\ \A i \in 1..Len(b) : r[i] = Push(r[i - 1], b[Len(b) - i + 1])

LEMMA BcdRead ==
  ASSUME NEW b \in Seq(Bytes)
  PROVE  \E r : Read(r, b) /\ bcdToInteger(b) = r[Len(b)]
<1> DEFINE n == Len(b)
           At2(i) == b[n - i + 1]
           next(d, i) == appendNibble(appendNibble(d, At2(i) \div 16), At2(i) % 16)
           g == [p \in Nat \X (1..n) |-> next(p[1], p[2])]
           Step(s) == [i \in 0..n |-> IF i = 0 THEN 0 ELSE next(s[i - 1], i)]
           c == CHOOSE s : s = Step(s)
<1>0. n \in Nat /\ \A i \in 1..n : b[i] \in Bytes
  OBVIOUS
<1>1. \A d \in Nat, i \in 1..n : next(d, i) \in Nat
  <2>1. \A d, x \in Nat : appendNibble(d, x) \in Nat
    BY DEF appendNibble
  <2>2. \A i \in 1..n : At2(i) \div 16 \in Nat /\ At2(i) % 16 \in Nat
    <3> TAKE i \in 1..n
    <3>1. n - i + 1 \in 1..n
      OBVIOUS
    <3>2. At2(i) \in 0..255
      BY <1>0, <3>1 DEF Bytes
    <3>3. \A x \in 0..255 : x \div 16 \in Nat /\ x % 16 \in Nat
      OBVIOUS
    <3> QED
      BY <3>2, <3>3, Zenon
  <2> HIDE DEF At2, n
  <2> QED
    BY <2>1, <2>2
<1>2. g \in [Nat \X (1..n) -> Nat] /\ \A d \in Nat, i \in 1..n : g[<<d, i>>] = next(d, i)
  <2> HIDE DEF next, n
  <2> QED
    BY <1>1
<1> HIDE DEF next, g
<1>3. PICK t \in [0..n -> Nat] : t[0] = 0 /\ \A i \in 1..n : t[i] = g[<<t[i - 1], i>>]
  <2> HIDE DEF n
  <2>1. 0 \in Nat
    OBVIOUS
  <2>2. \E t : Solution(t, Nat, 0, n, g)
    BY <1>0, <1>2, <2>1, RecursionOf
  <2> QED
    BY <2>2 DEF Solution
<1>4. \A i \in 1..n : t[i] = next(t[i - 1], i)
  <2> HIDE DEF n
  <2>1. \A i \in 1..n : t[i - 1] \in Nat
    BY <1>0
  <2> QED
    BY <1>2, <1>3, <2>1
<1>5. t = Step(t)
  <2> HIDE DEF n
  <2>1. \A i \in 0..n : t[i] = IF i = 0 THEN 0 ELSE next(t[i - 1], i)
    BY <1>0, <1>3, <1>4
  <2> QED
    BY <2>1
<1>6. c = Step(c)
  <2> HIDE DEF Step
  <2> QED
    BY <1>5
<1>7. bcdToInteger(b) = c[n]
  BY DEF bcdToInteger, next
<1> HIDE DEF c
<1>8. c[0] = 0 /\ \A i \in 1..n : c[i] = next(c[i - 1], i)
  <2> HIDE DEF n
  <2>1. \A i \in 0..n : c[i] = IF i = 0 THEN 0 ELSE next(c[i - 1], i)
    BY <1>6
  <2> QED
    BY <1>0, <2>1
<1>9. Read(c, b)
  BY <1>8 DEF Read, next, Push
<1> QED
  BY <1>7, <1>9

-----------------------------------------------------------------------------
(* Decimal digits *)

LEMMA FromToBcd == \A x \in 0..99 : fromBcd(toBcd(x)) = x
  BY DEF fromBcd, toBcd

\* Two more digits, as a byte of a frame holds them.
LEMMA PushBcd ==
  ASSUME NEW d \in Nat, NEW x \in 0..99
  PROVE  Push(d, toBcd(x)) = 100 * d + x
<1> DEFINE p == x \div 10
           q == x % 10
<1>1. p \in 0..9 /\ q \in 0..9 /\ x = 10 * p + q
  <2>1. \A y \in 0..99 : y \div 10 \in 0..9 /\ y % 10 \in 0..9 /\ y % 10 = y - 10 * (y \div 10)
    OBVIOUS
  <2>2. p \in 0..9 /\ q \in 0..9 /\ q = x - 10 * p
    BY <2>1
  <2> HIDE DEF p, q
  <2> QED
    BY <2>2
<1>2. toBcd(x) = 16 * p + q
  BY DEF toBcd
<1> HIDE DEF p, q
<1>3. toBcd(x) \div 16 = p /\ toBcd(x) % 16 = q
  <2>1. \A a, b \in 0..9 : (16 * a + b) \div 16 = a /\ (16 * a + b) % 16 = b
    OBVIOUS
  <2> QED
    BY <1>1, <1>2, <2>1
<1>4. \A a, b \in 0..9 : appendNibble(appendNibble(d, a), b) = 100 * d + 10 * a + b
  BY DEF appendNibble
<1>5. Push(d, toBcd(x)) = 100 * d + 10 * p + q
  BY <1>1, <1>3, <1>4, Zenon DEF Push
<1> QED
  BY <1>1, <1>5

LEMMA DivideBy100 == \A n \in Nat : \E q \in Nat, r \in 0..99 : n = 100 * q + r
<1> TAKE n \in Nat
<1>1. n \div 100 \in Nat /\ n % 100 \in 0..99 /\ n % 100 = n - 100 * (n \div 100)
  OBVIOUS
<1> DEFINE q == n \div 100
           r == n % 100
<1>2. n = 100 * q + r
  <2> HIDE DEF q, r
  <2>1. q \in Nat /\ r \in Nat /\ r = n - 100 * q
    BY <1>1 DEF q, r
  <2> QED
    BY <2>1
<1> QED
  BY <1>1, <1>2

\* The pairs of decimal digits of a number, from the last one.
Pairs(n, q, c, b, a) == n = 1000000 * q + 10000 * c + 100 * b + a

LEMMA PairsOf ==
  ASSUME NEW n \in Nat
  PROVE  \E q \in Nat, c, b, a \in 0..99 : Pairs(n, q, c, b, a)
<1>1. PICK x \in Nat, a \in 0..99 : n = 100 * x + a
  BY DivideBy100
<1>2. PICK y \in Nat, b \in 0..99 : x = 100 * y + b
  BY DivideBy100
<1>3. PICK q \in Nat, c \in 0..99 : y = 100 * q + c
  BY DivideBy100
<1>4. Pairs(n, q, c, b, a)
  BY <1>1, <1>2, <1>3, SMT DEF Pairs
<1> QED
  BY <1>4, Zenon

\* The value of a number's pairs of digits, as far as a register holds them.
LEMMA BcdDigits ==
  ASSUME NEW n \in Nat
  PROVE  LET pair(k) == (n \div k) % 100
         IN  /\ n < 10000 => n = 100 * pair(100) + pair(1)
             /\ n < 1000000 => n = 100 * (100 * pair(10000) + pair(100)) + pair(1)
             /\ n < 100000000 =>
                   n = 100 * (100 * (100 * pair(1000000) + pair(10000)) + pair(100)) + pair(1)
<1>1. PICK q \in Nat, c, b, a \in 0..99 : Pairs(n, q, c, b, a)
  BY PairsOf
<1>2. /\ (n \div 1) % 100 = a /\ (n \div 100) % 100 = b /\ (n \div 10000) % 100 = c
      /\ n \div 1000000 = q
  <2>1. /\ n \div 1 = 100 * (10000 * q + 100 * c + b) + a
        /\ n \div 100 = 100 * (100 * q + c) + b
        /\ n \div 10000 = 100 * q + c
        /\ n \div 1000000 = q
    BY <1>1, SMT DEF Pairs
  <2>2. \A x \in Nat, y \in 0..99 : (100 * x + y) % 100 = y
    BY SMT
  <2>3. 10000 * q + 100 * c + b \in Nat /\ 100 * q + c \in Nat
    BY SMT
  <2> QED
    BY <2>1, <2>2, <2>3, SMT
<1>3. n < 100000000 => q % 100 = q
  <2>1. n < 100000000 => q < 100
    BY <1>1, SMT DEF Pairs
  <2>2. \A x \in Nat : x < 100 => x % 100 = x
    BY SMT
  <2> QED
    BY <2>1, <2>2, SMT
<1>4. n < 1000000 => q = 0
  BY <1>1, SMT DEF Pairs
<1>5. n < 10000 => q = 0 /\ c = 0
  BY <1>1, SMT DEF Pairs
<1>6. n = 1000000 * q + 10000 * c + 100 * b + a
  BY <1>1, SMT DEF Pairs
<1> QED
  BY <1>2, <1>3, <1>4, <1>5, <1>6, SMT

PairAt(n, i) == (n \div <<1, 100, 10000, 1000000>>[i]) % 100

\* The bytes of a register.
LEMMA BcdBytesOf ==
  ASSUME NEW n \in Nat, NEW k \in 1..4
  PROVE  /\ BcdBytes(n, k) \in Seq(Bytes) /\ Len(BcdBytes(n, k)) = k
         /\ \A i \in 1..k : BcdBytes(n, k)[i] = toBcd(PairAt(n, i))
<1>1. \A i \in 1..4 : PairAt(n, i) \in 0..99
  <2>1. \A i \in 1..4 : <<1, 100, 10000, 1000000>>[i] \in {1, 100, 10000, 1000000}
    BY SMT
  <2>2. /\ n \div 1 \in Nat /\ n \div 100 \in Nat /\ n \div 10000 \in Nat /\ n \div 1000000 \in Nat
    BY SMT
  <2>3. \A x \in Nat : x % 100 \in 0..99
    BY SMT
  <2> QED
    BY <2>1, <2>2, <2>3, SMT DEF PairAt
<1>2. BcdBytes(n, k) = [i \in 1..k |-> toBcd(PairAt(n, i))]
  BY SMT DEF BcdBytes, PairAt
<1>3. \A i \in 1..k : toBcd(PairAt(n, i)) \in Bytes
  <2>1. \A i \in 1..k : i \in 1..4
    OBVIOUS
  <2> QED
    BY <1>1, <2>1, BcdByte
<1> QED
  BY <1>2, <1>3

\* Two digits after a number's.
Then(x, y) == 100 * x + y

\* What a register is written with is read back.
LEMMA RegisterRead ==
  ASSUME NEW n \in Nat
  PROVE  /\ n < 10000 => bcdToInteger(BcdBytes(n, 2)) = n
         /\ n < 1000000 => bcdToInteger(BcdBytes(n, 3)) = n
         /\ n < 100000000 => bcdToInteger(BcdBytes(n, 4)) = n
<1> DEFINE a == PairAt(n, 1)
           b == PairAt(n, 2)
           c == PairAt(n, 3)
           d == PairAt(n, 4)
<1>1. /\ n < 10000 => n = Then(b, a)
      /\ n < 1000000 => n = Then(Then(c, b), a)
      /\ n < 100000000 => n = Then(Then(Then(d, c), b), a)
  BY BcdDigits, SMT DEF PairAt, Then
<1>2. a \in 0..99 /\ b \in 0..99 /\ c \in 0..99 /\ d \in 0..99
  <2>1. n \div 1 \in Nat /\ n \div 100 \in Nat /\ n \div 10000 \in Nat /\ n \div 1000000 \in Nat
    BY SMT
  <2>2. \A x \in Nat : x % 100 \in 0..99
    BY SMT
  <2> QED
    BY <2>1, <2>2, SMT DEF PairAt
<1>3. ASSUME NEW k \in 2..4
      PROVE  /\ BcdBytes(n, k) \in Seq(Bytes) /\ Len(BcdBytes(n, k)) = k
             /\ BcdBytes(n, k)[1] = toBcd(a) /\ BcdBytes(n, k)[2] = toBcd(b)
             /\ k >= 3 => BcdBytes(n, k)[3] = toBcd(c)
             /\ k = 4 => BcdBytes(n, k)[4] = toBcd(d)
  <2>1. k \in 1..4
    OBVIOUS
  <2>2. /\ BcdBytes(n, k) \in Seq(Bytes) /\ Len(BcdBytes(n, k)) = k
        /\ \A i \in 1..k : BcdBytes(n, k)[i] = toBcd(PairAt(n, i))
    BY <2>1, BcdBytesOf
  <2> QED
    BY <2>2
<1> HIDE DEF a, b, c, d
<1>4. \A y \in 0..99 :
         /\ Push(0, toBcd(y)) = y
         /\ \A x \in Nat : Push(x, toBcd(y)) = Then(x, y) /\ Then(x, y) \in Nat
  <2>1. \A y \in 0..99, x \in Nat : Push(x, toBcd(y)) = Then(x, y)
    BY PushBcd DEF Then
  <2>2. 0 \in Nat /\ \A y \in 0..99 : Then(0, y) = y
    BY DEF Then
  <2>3. \A y \in 0..99 : Push(0, toBcd(y)) = Then(0, y)
    BY <2>1, <2>2, Zenon
  <2>4. \A y \in 0..99, x \in Nat : Then(x, y) \in Nat
    BY DEF Then
  <2> QED
    BY <2>1, <2>2, <2>3, <2>4, Zenon
<1>N. \A x \in 0..99 : x \in Nat
  OBVIOUS
<1>5. bcdToInteger(BcdBytes(n, 2)) = Then(b, a)
  <2> DEFINE s == BcdBytes(n, 2)
  <2>1. s \in Seq(Bytes) /\ Len(s) = 2 /\ s[1] = toBcd(a) /\ s[2] = toBcd(b)
    BY <1>3
  <2> HIDE DEF s
  <2>2. PICK r : Read(r, s) /\ bcdToInteger(s) = r[2]
    BY <2>1, BcdRead
  <2>3. /\ r[0] = 0
        /\ r[1] = Push(r[0], s[2])
        /\ r[2] = Push(r[1], s[1])
    BY <2>1, <2>2 DEF Read
  <2>4. r[1] = b /\ b \in Nat
    BY <1>2, <1>4, <1>N, <2>1, <2>3, Zenon
  <2>5. r[2] = Then(b, a) /\ Then(b, a) \in Nat
    BY <1>2, <1>4, <2>1, <2>3, <2>4, Zenon
  <2> QED
    BY <2>2, <2>5 DEF s
<1>6. bcdToInteger(BcdBytes(n, 3)) = Then(Then(c, b), a)
  <2> DEFINE s == BcdBytes(n, 3)
  <2>1. s \in Seq(Bytes) /\ Len(s) = 3 /\ s[1] = toBcd(a) /\ s[2] = toBcd(b) /\ s[3] = toBcd(c)
    BY <1>3
  <2> HIDE DEF s
  <2>2. PICK r : Read(r, s) /\ bcdToInteger(s) = r[3]
    BY <2>1, BcdRead
  <2>3. /\ r[0] = 0
        /\ r[1] = Push(r[0], s[3])
        /\ r[2] = Push(r[1], s[2])
        /\ r[3] = Push(r[2], s[1])
    BY <2>1, <2>2 DEF Read
  <2>4. r[1] = c /\ c \in Nat
    BY <1>2, <1>4, <1>N, <2>1, <2>3, Zenon
  <2>5. r[2] = Then(c, b) /\ Then(c, b) \in Nat
    BY <1>2, <1>4, <2>1, <2>3, <2>4, Zenon
  <2>6. r[3] = Then(Then(c, b), a) /\ Then(Then(c, b), a) \in Nat
    BY <1>2, <1>4, <2>1, <2>3, <2>5, Zenon
  <2> QED
    BY <2>2, <2>6 DEF s
<1>7. bcdToInteger(BcdBytes(n, 4)) = Then(Then(Then(d, c), b), a)
  <2> DEFINE s == BcdBytes(n, 4)
  <2>1. /\ s \in Seq(Bytes) /\ Len(s) = 4 /\ s[1] = toBcd(a) /\ s[2] = toBcd(b)
        /\ s[3] = toBcd(c) /\ s[4] = toBcd(d)
    BY <1>3
  <2> HIDE DEF s
  <2>2. PICK r : Read(r, s) /\ bcdToInteger(s) = r[4]
    BY <2>1, BcdRead
  <2>3. /\ r[0] = 0
        /\ r[1] = Push(r[0], s[4])
        /\ r[2] = Push(r[1], s[3])
        /\ r[3] = Push(r[2], s[2])
        /\ r[4] = Push(r[3], s[1])
    BY <2>1, <2>2 DEF Read
  <2>4. r[1] = d /\ d \in Nat
    BY <1>2, <1>4, <1>N, <2>1, <2>3, Zenon
  <2>5. r[2] = Then(d, c) /\ Then(d, c) \in Nat
    BY <1>2, <1>4, <2>1, <2>3, <2>4, Zenon
  <2>6. r[3] = Then(Then(d, c), b) /\ Then(Then(d, c), b) \in Nat
    BY <1>2, <1>4, <2>1, <2>3, <2>5, Zenon
  <2>7. r[4] = Then(Then(Then(d, c), b), a) /\ Then(Then(Then(d, c), b), a) \in Nat
    BY <1>2, <1>4, <2>1, <2>3, <2>6, Zenon
  <2> QED
    BY <2>2, <2>7 DEF s
<1> QED
  BY <1>1, <1>5, <1>6, <1>7, SMT

-----------------------------------------------------------------------------
(* Binary numbers *)

LEMMA DivideBy256 == \A n \in Nat : \E q \in Nat, r \in Bytes : n = 256 * q + r
<1> TAKE n \in Nat
<1> DEFINE q == n \div 256
           r == n % 256
<1>1. q \in Nat /\ r = n - 256 * q
  OBVIOUS
<1>2. r \in Bytes
  BY ByteMod
<1> HIDE DEF q, r
<1>3. n = 256 * q + r
  <2>1. r \in Int
    BY <1>2 DEF Bytes
  <2> QED
    BY <1>1, <2>1
<1> QED
  BY <1>1, <1>2, <1>3

\* The bytes of a number, from the last one.
Word(n, q, c, b, a) == n = 16777216 * q + 65536 * c + 256 * b + a

WordAt(n, i) == (n \div <<1, 256, 65536, 16777216>>[i]) % 256

LEMMA WordOf ==
  ASSUME NEW n \in Nat
  PROVE  \E q \in Nat, c, b, a \in Bytes : Word(n, q, c, b, a)
<1>1. PICK x \in Nat, a \in Bytes : n = 256 * x + a
  BY DivideBy256
<1>2. PICK y \in Nat, b \in Bytes : x = 256 * y + b
  BY DivideBy256
<1>3. PICK q \in Nat, c \in Bytes : y = 256 * q + c
  BY DivideBy256
<1>4. a \in 0..255 /\ b \in 0..255 /\ c \in 0..255
  BY DEF Bytes
<1>5. Word(n, q, c, b, a)
  BY <1>1, <1>2, <1>3, <1>4, SMT DEF Word
<1> QED
  BY <1>5, Zenon

\* A number of two bytes, and a counter, from the bytes BinaryBytes cuts it into.
LEMMA WordBytes ==
  ASSUME NEW n \in Nat
  PROVE  /\ \A i \in 1..4 : WordAt(n, i) \in Bytes
         /\ n < 65536 => n = WordAt(n, 1) + WordAt(n, 2) * 256
         /\ n <= 2147483647 =>
               /\ WordAt(n, 4) <= 127
               /\ n = WordAt(n, 1) + WordAt(n, 2) * 256 + WordAt(n, 3) * 65536 + WordAt(n, 4) * 16777216
<1>1. PICK q \in Nat, c, b, a \in Bytes : Word(n, q, c, b, a)
  BY WordOf
<1>2. a \in 0..255 /\ b \in 0..255 /\ c \in 0..255
  BY DEF Bytes
<1>3. n = 16777216 * q + 65536 * c + 256 * b + a
  BY <1>1, SMT DEF Word
<1>4. /\ (n \div 1) % 256 = a /\ (n \div 256) % 256 = b /\ (n \div 65536) % 256 = c
      /\ n \div 16777216 = q
  <2>1. /\ n \div 1 = 256 * (65536 * q + 256 * c + b) + a
        /\ n \div 256 = 256 * (256 * q + c) + b
        /\ n \div 65536 = 256 * q + c
        /\ n \div 16777216 = q
    BY <1>2, <1>3, SMT
  <2>2. \A x \in Nat, y \in 0..255 : (256 * x + y) % 256 = y
    BY SMT
  <2>3. 65536 * q + 256 * c + b \in Nat /\ 256 * q + c \in Nat
    BY <1>2, SMT
  <2> QED
    BY <1>2, <2>1, <2>2, <2>3, SMT
<1>5. n <= 2147483647 => q <= 127 /\ q % 256 = q
  <2>1. n <= 2147483647 => q <= 127
    BY <1>2, <1>3, SMT
  <2>2. \A x \in Nat : x <= 127 => x % 256 = x
    BY SMT
  <2> QED
    BY <2>1, <2>2, SMT
<1>6. n < 65536 => q = 0 /\ c = 0
  BY <1>2, <1>3, SMT
<1>7. WordAt(n, 1) = a /\ WordAt(n, 2) = b /\ WordAt(n, 3) = c /\ WordAt(n, 4) = q % 256
  BY <1>4, SMT DEF WordAt
<1>8. q % 256 \in Bytes
  BY ByteMod
<1>9. \A i \in 1..4 : WordAt(n, i) \in Bytes
  <2>1. \A i \in 1..4 : i = 1 \/ i = 2 \/ i = 3 \/ i = 4
    OBVIOUS
  <2> QED
    BY <1>7, <1>8, <2>1, Zenon
<1>10. n < 65536 => n = WordAt(n, 1) + WordAt(n, 2) * 256
  BY <1>2, <1>3, <1>6, <1>7, SMT
<1>11. n <= 2147483647 =>
         /\ WordAt(n, 4) <= 127
         /\ n = WordAt(n, 1) + WordAt(n, 2) * 256 + WordAt(n, 3) * 65536 + WordAt(n, 4) * 16777216
  BY <1>2, <1>3, <1>5, <1>7, SMT
<1> QED
  BY <1>9, <1>10, <1>11, SMT

LEMMA BinaryBytesOf ==
  ASSUME NEW n \in Nat, NEW k \in 1..4
  PROVE  /\ BinaryBytes(n, k) \in Seq(Bytes) /\ Len(BinaryBytes(n, k)) = k
         /\ \A i \in 1..k : BinaryBytes(n, k)[i] = WordAt(n, i)
<1>1. BinaryBytes(n, k) = [i \in 1..k |-> WordAt(n, i)]
  BY SMT DEF BinaryBytes, WordAt
<1>2. \A i \in 1..k : WordAt(n, i) \in Bytes
  <2>1. \A i \in 1..k : i \in 1..4
    OBVIOUS
  <2> QED
    BY <2>1, WordBytes, SMT
<1> QED
  BY <1>1, <1>2

LEMMA SubtractAdd == \A x \in Bytes : add33(x) \in Bytes /\ subtract33H(add33(x)) = x
<1> SUFFICES ASSUME NEW x \in Bytes PROVE add33(x) \in Bytes /\ subtract33H(add33(x)) = x
  OBVIOUS
<1>1. x \in 0..255
  BY DEF Bytes
<1>2. CASE x < 205
  <2>1. x + 51 \in 0..255
    BY <1>1, <1>2
  <2>2. (x + 51) % 256 = x + 51
    BY <2>1, ModOnce
  <2>3. x + 51 - 51 + 256 \in 256..510 /\ (x + 51 - 51 + 256) - 256 = x
    BY <1>1, <1>2
  <2> QED
    BY <2>1, <2>2, <2>3, ModOnce DEF add33, subtract33H, Bytes
<1>3. CASE x >= 205
  <2>1. x + 51 \in 256..510 /\ x + 51 - 256 \in 0..255
    BY <1>1, <1>3
  <2>2. (x + 51) % 256 = x - 205
    BY <1>1, <2>1, ModOnce
  <2>3. x - 205 - 51 + 256 = x /\ x - 205 \in 0..255
    BY <1>1, <1>3
  <2> QED
    BY <1>1, <2>2, <2>3, ModOnce DEF add33, subtract33H, Bytes
<1> QED
  BY <1>1, <1>2, <1>3

LEMMA CombineTwo ==
  ASSUME NEW field \in Seq(Bytes), Len(field) = 2, NEW x \in Bytes, NEW y \in Bytes,
         field[1] = add33(x), field[2] = add33(y)
  PROVE  reverseAndCombine(field) = x + y * 256
<1>1. subtract33H(field[1]) = x /\ subtract33H(field[2]) = y
  BY SubtractAdd
<1>2. x \in Int /\ y \in Int
  BY DEF Bytes
<1> QED
  BY <1>1, <1>2, SMT DEF reverseAndCombine

LEMMA CombineFour ==
  ASSUME NEW field \in Seq(Bytes), Len(field) = 4,
         NEW x \in Bytes, NEW y \in Bytes, NEW z \in Bytes, NEW w \in Bytes, w <= 127,
         field[1] = add33(x), field[2] = add33(y), field[3] = add33(z), field[4] = add33(w)
  PROVE  reverseAndCombine(field) = x + y * 256 + z * 65536 + w * 16777216
<1>1. /\ subtract33H(field[1]) = x /\ subtract33H(field[2]) = y
      /\ subtract33H(field[3]) = z /\ subtract33H(field[4]) = w
  BY SubtractAdd
<1>2. x \in Int /\ y \in Int /\ z \in Int /\ w \in Int
  BY DEF Bytes
<1> QED
  BY <1>1, <1>2, SMT DEF reverseAndCombine

-----------------------------------------------------------------------------
(* The calendar *)

\* The days of the first k years since 2000, and of the first n months of a year.
YearDays(k) == SumTo([i \in 1..k |-> IF isLeap(1999 + i) THEN 366 ELSE 365], k)
MonthDays(year, n) == SumTo([m \in 1..n |-> DaysInMonth(year, m)], n)

LEMMA YearsCounted ==
  ASSUME NEW k \in 0..99
  PROVE  YearDays(k) = 365 * k + (k + 3) \div 4
<1> DEFINE f == [i \in 1..k |-> IF isLeap(1999 + i) THEN 366 ELSE 365]
<1>1. f \in [1..k -> Int]
  OBVIOUS
<1>2. PICK s : Sums(s, f, k) /\ SumTo(f, k) = s[k]
  <2> HIDE DEF f
  <2> QED
    BY <1>1, SumToOf
<1>3. s[0] = 0 /\ \A i \in 1..k : s[i] = s[i - 1] + f[i]
  BY <1>2 DEF Sums
<1>4. \A i \in 1..k : f[i] = IF i % 4 = 1 THEN 366 ELSE 365
  <2> SUFFICES ASSUME NEW i \in 1..k PROVE f[i] = IF i % 4 = 1 THEN 366 ELSE 365
    OBVIOUS
  <2>1. i \in 1..99
    OBVIOUS
  <2>2. (1999 + i) % 4 = 0 <=> i % 4 = 1
    BY <2>1
  <2>3. (1999 + i) % 100 = 0 => i = 1
    BY <2>1
  <2>4. i = 1 => (1999 + i) % 400 = 0
    OBVIOUS
  <2>5. isLeap(1999 + i) <=> i % 4 = 1
    BY <2>2, <2>3, <2>4 DEF isLeap
  <2> QED
    BY <2>5
<1> HIDE DEF f
<1> DEFINE Right == {j \in Nat : j <= k => s[j] = 365 * j + (j + 3) \div 4}
<1>5. 0 \in Right
  BY <1>3
<1>6. ASSUME NEW j \in Nat, j \in Right PROVE j + 1 \in Right
  <2>1. SUFFICES ASSUME j + 1 <= k PROVE s[j + 1] = 365 * (j + 1) + (j + 1 + 3) \div 4
    OBVIOUS
  <2>2. j + 1 \in 1..k /\ s[j] = 365 * j + (j + 3) \div 4
    BY <1>6, <2>1
  <2>3. s[j + 1] = s[j] + IF (j + 1) % 4 = 1 THEN 366 ELSE 365
    BY <1>3, <1>4, <2>2
  <2>4. (j + 4) \div 4 = (j + 3) \div 4 + IF (j + 1) % 4 = 1 THEN 1 ELSE 0
    OBVIOUS
  <2> QED
    BY <2>2, <2>3, <2>4
<1>7. Nat \subseteq Right
  <2> HIDE DEF Right
  <2> QED
    BY <1>5, <1>6, NatSetInduction
<1> QED
  BY <1>2, <1>7 DEF f, YearDays

\* The days of the months before a month.
DaysBefore(leap, month) ==
    IF month <= 2 THEN 31 * (month - 1)
    ELSE (IF leap THEN 60 ELSE 59) + (153 * (month - 3) + 2) \div 5

LEMMA MonthsCounted ==
  ASSUME NEW year \in Nat, NEW month \in 1..12
  PROVE  MonthDays(year, month - 1) = DaysBefore(isLeap(year), month)
<1> DEFINE n == month - 1
           f == [m \in 1..n |-> DaysInMonth(year, m)]
           d == IF isLeap(year) THEN 60 ELSE 59
<1>1. n \in 0..11 /\ f \in [1..n -> Int]
  BY DEF DaysInMonth
<1>2. PICK s : Sums(s, f, n) /\ SumTo(f, n) = s[n]
  <2> HIDE DEF f, n
  <2> QED
    BY <1>1, SumToOf
<1>3. s[0] = 0 /\ \A i \in 1..n : s[i] = s[i - 1] + f[i]
  BY <1>2 DEF Sums
<1>4. \A i \in 1..n : f[i] = DaysInMonth(year, i)
  OBVIOUS
<1> HIDE DEF f, n
<1>5. 1 <= n => s[1] = 31
  <2>1. 1 <= n => s[1] = s[0] + f[1] /\ f[1] = 31
    BY <1>1, <1>3, <1>4 DEF DaysInMonth
  <2> QED
    BY <1>3, <2>1
<1>6. 2 <= n => s[2] = d
  <2>1. 2 <= n => s[2] = s[1] + f[2] /\ f[2] = d - 31
    BY <1>1, <1>3, <1>4, SMTT(30) DEF DaysInMonth
  <2> QED
    BY <1>1, <1>5, <2>1
<1>d. d \in Nat
  OBVIOUS
<1> HIDE DEF d
<1> DEFINE Right == {j \in Nat : j + 2 <= n => s[j + 2] = d + (153 * j + 2) \div 5}
<1>7. 0 \in Right
  BY <1>6, <1>d
<1>8. ASSUME NEW j \in Nat, j \in Right PROVE j + 1 \in Right
  <2>1. SUFFICES ASSUME j + 3 <= n PROVE s[j + 3] = d + (153 * (j + 1) + 2) \div 5
    OBVIOUS
  <2>2. j + 3 \in 1..n /\ j \in 0..8 /\ s[j + 2] = d + (153 * j + 2) \div 5
    BY <1>1, <1>8, <2>1
  <2>3. s[j + 3] = s[j + 2] + f[j + 3]
    BY <1>3, <2>2
  <2>4. f[j + 3] = IF j + 3 \in {4, 6, 9, 11} THEN 30 ELSE 31
    BY <1>4, <2>2 DEF DaysInMonth
  <2>5. (153 * (j + 1) + 2) \div 5 = (153 * j + 2) \div 5 + IF j + 3 \in {4, 6, 9, 11} THEN 30 ELSE 31
    BY <2>2
  <2> QED
    BY <1>d, <2>2, <2>3, <2>4, <2>5
<1>9. Nat \subseteq Right
  <2> HIDE DEF Right
  <2> QED
    BY <1>7, <1>8, NatSetInduction
<1>10. n >= 2 => s[n] = d + (153 * (n - 2) + 2) \div 5
  <2>1. n >= 2 => n - 2 \in Nat /\ (n - 2) + 2 = n
    BY <1>1
  <2>2. n >= 2 => n - 2 \in Right
    BY <1>9, <2>1
  <2> QED
    BY <1>1, <2>1, <2>2
<1>11. n < 2 => s[n] = 31 * n
  BY <1>1, <1>3, <1>5
<1>12. s[n] = DaysBefore(isLeap(year), month)
  BY <1>1, <1>10, <1>11 DEF DaysBefore, n, d
<1> QED
  BY <1>2, <1>12 DEF f, n, MonthDays

\* The years two digits stand for.
ThisCentury(year) == year \in 2000..2099

\* The weekday encodeDateBytes and the V1 adapter take from Date.UTC is the one
\* counted from a known Saturday.
THEOREM WeekdayCounted ==
  ASSUME NEW year, ThisCentury(year), NEW month \in 1..12, NEW day \in 1..31
  PROVE  Weekday(year, month, day) = CountedWeekday(year, month, day)
<1> DEFINE k == year - 2000
           years == YearDays(k)
           months == MonthDays(year, month - 1)
<1>1. k \in 0..99 /\ year = 2000 + k
  BY DEF ThisCentury
<1>2. years = 365 * k + (k + 3) \div 4
  <2> HIDE DEF k
  <2> QED
    BY <1>1, YearsCounted
<1>3. months = DaysBefore(isLeap(year), month)
  <2>1. year \in Nat
    BY <1>1
  <2> QED
    BY <2>1, MonthsCounted
<1>4. CountedWeekday(year, month, day) = (6 + years + months + day - 1) % 7
  BY DEF CountedWeekday, YearDays, MonthDays
<1>5. isLeap(year) <=> k % 4 = 0
  <2> HIDE DEF k
  <2>1. \A j \in 0..99 : /\ (2000 + j) % 4 = 0 <=> j % 4 = 0
                         /\ (2000 + j) % 100 = 0 => j = 0
                         /\ j = 0 => (2000 + j) % 400 = 0
    OBVIOUS
  <2> QED
    BY <1>1, <2>1 DEF isLeap
<1> HIDE DEF k, years, months
<1> DEFINE leap == IF k % 4 = 0 THEN 1 ELSE 0
           x == (153 * (month - 3) + 2) \div 5
<1>6. ASSUME month > 2
      PROVE  DayNumber(year, month, day) = years + months + day - 1 + 730426
  <2>1. (month + 9) % 12 = month - 3 /\ ~(month <= 2)
    BY <1>6
  <2>2. year \div 4 = 500 + k \div 4 /\ year \div 100 = 20 /\ year \div 400 = 5
    BY <1>1, SMT
  <2>3. k \div 4 + 1 = (k + 3) \div 4 + leap
    BY <1>1
  <2>4. months = 59 + leap + x
    BY <1>3, <1>5, <2>1 DEF DaysBefore
  <2>5. DayNumber(year, month, day) = 365 * (2000 + k) + (500 + k \div 4) - 20 + 5 + x + day
    BY <1>1, <2>1, <2>2, SMT DEF DayNumber
  <2>6. x \in Int /\ leap \in Int /\ k \div 4 \in Int /\ (k + 3) \div 4 \in Int
    BY <1>1
  <2> HIDE DEF x, leap
  <2> QED
    BY <1>1, <1>2, <2>3, <2>4, <2>5, <2>6, SMT
<1>7. ASSUME month <= 2
      PROVE  DayNumber(year, month, day) = years + months + day - 1 + 730426
  <2>1. (153 * ((month + 9) % 12) + 2) \div 5 = 275 + 31 * month
    BY <1>7
  <2>2. /\ (year - 1) \div 4 = 499 + (k + 3) \div 4
        /\ (year - 1) \div 400 - (year - 1) \div 100 = 0 - 15
    BY <1>1, SMT
  <2>3. months = 31 * (month - 1)
    BY <1>3, <1>7 DEF DaysBefore
  <2>4. DayNumber(year, month, day)
          = 365 * (1999 + k) + (499 + (k + 3) \div 4) - 15 + (275 + 31 * month) + day
    BY <1>1, <1>7, <2>1, <2>2, SMT DEF DayNumber
  <2>5. (k + 3) \div 4 \in Int
    BY <1>1
  <2> QED
    BY <1>1, <1>2, <2>3, <2>4, <2>5, SMT
<1>8. years \in Int /\ months \in Int
  BY <1>1, <1>2, <1>3 DEF DaysBefore
<1>9. \A n \in Int : (n - 1 + 730426 + 2) % 7 = (6 + n - 1) % 7
  BY SMT
<1>10. DayNumber(year, month, day) = years + months + day - 1 + 730426
  BY <1>6, <1>7, SMT
<1>11. Weekday(year, month, day) = (6 + (years + months + day) - 1) % 7
  <2> DEFINE v == years + months + day - 1 + 730426
  <2>1. v \in Int /\ v = DayNumber(year, month, day)
    BY <1>8, <1>10, SMT
  <2>2. (v + 2) % 7 = (6 + (years + months + day) - 1) % 7
    BY <1>8, <1>9, SMT
  <2>3. Weekday(year, month, day) = (v + 2) % 7
    <3> HIDE DEF v
    <3> QED
      BY <2>1 DEF Weekday
  <2> QED
    BY <2>2, <2>3, SMT
<1>12. 6 + (years + months + day) - 1 = 6 + years + months + day - 1
  BY <1>8
<1> QED
  BY <1>4, <1>11, <1>12

-----------------------------------------------------------------------------
(* The layout of a frame *)

LEMMA Appended ==
  ASSUME NEW S, NEW s \in Seq(S), NEW t \in Seq(S)
  PROVE  /\ s \o t \in Seq(S) /\ Len(s \o t) = Len(s) + Len(t)
         /\ \A i \in 1..Len(s) : (s \o t)[i] = s[i]
         /\ \A i \in 1..Len(t) : (s \o t)[Len(s) + i] = t[i]
<1> DEFINE u == s \o t
<1>1. /\ u \in Seq(S) /\ Len(u) = Len(s) + Len(t)
      /\ \A i \in 1..(Len(s) + Len(t)) : u[i] = IF i <= Len(s) THEN s[i] ELSE t[i - Len(s)]
  BY ConcatProperties
<1>2. Len(s) \in Nat /\ Len(t) \in Nat
  OBVIOUS
<1> HIDE DEF u
<1>3. \A i \in 1..Len(s) : u[i] = s[i]
  BY <1>1, <1>2
<1>4. \A i \in 1..Len(t) : u[Len(s) + i] = t[i]
  <2> TAKE i \in 1..Len(t)
  <2>1. Len(s) + i \in 1..(Len(s) + Len(t)) /\ ~(Len(s) + i <= Len(s)) /\ (Len(s) + i) - Len(s) = i
    BY <1>2
  <2> QED
    BY <1>1, <2>1
<1> QED
  BY <1>1, <1>3, <1>4 DEF u

\* u is s with t behind it.
Joins(S, u, s, t) ==
    /\ u \in Seq(S) /\ Len(u) = Len(s) + Len(t)
    /\ \A i \in 1..Len(s) : u[i] = s[i]
    /\ \A i \in 1..Len(t) : u[Len(s) + i] = t[i]

LEMMA JoinsOf ==
  ASSUME NEW S, NEW s \in Seq(S), NEW t \in Seq(S)
  PROVE  Joins(S, s \o t, s, t)
  BY Appended DEF Joins

\* A frame's body with its checksum and end byte.
Sealed(body) == body \o <<TotalMod256(body), END_BYTE>>

LEMMA SealedOf ==
  ASSUME NEW body \in Seq(Bytes)
  PROVE  /\ Sealed(body) \in Seq(Bytes) /\ Len(Sealed(body)) = Len(body) + 2
         /\ \A i \in 1..Len(body) : Sealed(body)[i] = body[i]
         /\ Last(Sealed(body)) = END_BYTE
         /\ checksumHolds(Sealed(body))
<1> DEFINE tail == <<TotalMod256(body), END_BYTE>>
           f == Sealed(body)
           n == Len(body)
<1>1. tail \in Seq(Bytes) /\ Len(tail) = 2 /\ tail[1] = TotalMod256(body) /\ tail[2] = END_BYTE
  <2>1. Bytes \subseteq Int /\ END_BYTE \in Bytes
    BY DEF Bytes, END_BYTE
  <2>2. TotalMod256(body) \in Bytes
    BY <2>1, SeqMonotonic, TotalIsByte
  <2> QED
    BY <2>1, <2>2
<1> HIDE DEF tail
<1>2. /\ f \in Seq(Bytes) /\ Len(f) = n + 2
      /\ \A i \in 1..n : f[i] = body[i]
      /\ \A i \in 1..2 : f[n + i] = tail[i]
  BY <1>1, Appended DEF Sealed, tail
<1>3. n \in Nat /\ f[n + 1] = TotalMod256(body) /\ f[n + 2] = END_BYTE
  BY <1>1, <1>2
<1> HIDE DEF f
<1>4. SubSeq(f, 1, n) = body
  <2>1. \A i \in 1..n : f[i] \in Bytes /\ f[i] = body[i]
    BY <1>2
  <2>2. /\ SubSeq(f, 1, n) \in Seq(Bytes) /\ Len(SubSeq(f, 1, n)) = n
        /\ \A i \in 1..n : SubSeq(f, 1, n)[i] = body[i]
    <3> HIDE DEF n
    <3>1. n - 1 + 1 = n /\ (1 <= n <=> n # 0) /\ \A i \in 1..n : 1 + i - 1 = i
      BY <1>3
    <3> QED
      BY <1>3, <2>1, <3>1, SubSeqProperties
  <2> QED
    BY <2>2, SeqEqual
<1>5. Len(f) - 2 = n /\ Len(f) - 1 = n + 1
  BY <1>2, <1>3
<1>6. checksumHolds(f)
  BY <1>3, <1>4, <1>5 DEF checksumHolds
<1>7. Last(f) = END_BYTE
  BY <1>2, <1>3 DEF Last
<1> QED
  BY <1>2, <1>6, <1>7 DEF f

LEMMA OnWireAt ==
  ASSUME NEW b \in Seq(Bytes)
  PROVE  \A i \in 1..Len(b) : OnWire(b)[i] = add33(b[Len(b) - i + 1])
<1> DEFINE a == Apply(add33, b)
<1>1. Len(b) \in Nat /\ DOMAIN b = 1..Len(b) /\ \A i \in 1..Len(b) : b[i] \in Bytes
  OBVIOUS
<1>2. a = [i \in 1..Len(b) |-> add33(b[i])]
  BY <1>1 DEF Apply
<1>3. \A i \in 1..Len(b) : add33(b[i]) \in Bytes
  BY <1>1, SubtractAdd
<1>4. a \in Seq(Bytes) /\ Len(a) = Len(b)
  BY <1>1, <1>2, <1>3
<1>5. \A i \in 1..Len(b) : Len(b) - i + 1 \in 1..Len(b)
  BY <1>1
<1>6. \A i \in 1..Len(b) : a[i] = add33(b[i])
  BY <1>2
<1> HIDE DEF a
<1>7. \A i \in 1..Len(b) : Reverse(a)[i] = a[Len(b) - i + 1]
  BY <1>4, ReverseOf
<1> QED
  BY <1>5, <1>6, <1>7 DEF OnWire, a

\* The bytes of a frame: the header, six of the address, the operation, the size, the
\* data identifier last byte first, the data and the seal.
IsFrame(f, address, code, di, data) ==
    /\ f \in Seq(Bytes) /\ Len(f) = 14 + Len(data)
    /\ f[1] = HEADER_BYTE /\ f[8] = HEADER_BYTE
    /\ \A i \in 1..6 : f[1 + i] = address[i]
    /\ f[9] = code /\ f[10] = (2 + Len(data)) % 256
    /\ f[11] = add33(di[2]) /\ f[12] = add33(di[1])
    /\ \A i \in 1..Len(data) : f[12 + i] = data[i]
    /\ Last(f) = END_BYTE /\ checksumHolds(f)

LEMMA FrameLayout ==
  ASSUME NEW address \in Seq(Bytes), Len(address) = 6, NEW code \in Bytes,
         NEW di \in Seq(Bytes), Len(di) = 2, NEW data \in Seq(Bytes)
  PROVE  IsFrame(Frame(address, code, di, data), address, code, di, data)
<1> DEFINE head == <<HEADER_BYTE>>
           mid  == <<HEADER_BYTE, code, (2 + Len(data)) % 256>>
           s1   == head \o address
           s2   == s1 \o mid
           s3   == s2 \o OnWire(di)
           body == s3 \o data
           f    == Sealed(body)
<1>1. /\ head \in Seq(Bytes) /\ Len(head) = 1 /\ head[1] = HEADER_BYTE
      /\ mid \in Seq(Bytes) /\ Len(mid) = 3
      /\ mid[1] = HEADER_BYTE /\ mid[2] = code /\ mid[3] = (2 + Len(data)) % 256
  <2>1. HEADER_BYTE \in Bytes /\ 2 + Len(data) \in Int
    BY DEF HEADER_BYTE, Bytes
  <2>2. (2 + Len(data)) % 256 \in Bytes
    BY <2>1, ByteMod
  <2> QED
    BY <2>1, <2>2
<1> HIDE DEF head, mid
<1>2. /\ s1 \in Seq(Bytes) /\ Len(s1) = 7 /\ s1[1] = HEADER_BYTE
      /\ \A i \in 1..6 : s1[1 + i] = address[i]
  <2>1. /\ s1 \in Seq(Bytes) /\ Len(s1) = Len(head) + Len(address)
        /\ \A i \in 1..Len(head) : s1[i] = head[i]
        /\ \A i \in 1..Len(address) : s1[Len(head) + i] = address[i]
    <3>1. Joins(Bytes, s1, head, address)
      BY <1>1, JoinsOf
    <3> QED
      BY <3>1, Zenon DEF Joins
  <2> HIDE DEF s1
  <2> QED
    BY <1>1, <2>1
<1> HIDE DEF s1
<1>3. /\ s2 \in Seq(Bytes) /\ Len(s2) = 10 /\ s2[1] = HEADER_BYTE
      /\ \A i \in 1..6 : s2[1 + i] = address[i]
      /\ s2[8] = HEADER_BYTE /\ s2[9] = code /\ s2[10] = (2 + Len(data)) % 256
  <2>1. /\ s2 \in Seq(Bytes) /\ Len(s2) = Len(s1) + Len(mid)
        /\ \A i \in 1..Len(s1) : s2[i] = s1[i]
        /\ \A i \in 1..Len(mid) : s2[Len(s1) + i] = mid[i]
    <3>1. Joins(Bytes, s2, s1, mid)
      BY <1>1, <1>2, JoinsOf
    <3> QED
      BY <3>1, Zenon DEF Joins
  <2> HIDE DEF s2
  <2>2. \A i \in 1..6 : 1 + i \in 1..7
    OBVIOUS
  <2>3. s2[7 + 1] = mid[1] /\ s2[7 + 2] = mid[2] /\ s2[7 + 3] = mid[3]
    BY <1>1, <1>2, <2>1
  <2> QED
    BY <1>1, <1>2, <2>1, <2>2, <2>3
<1> HIDE DEF s2
<1>4. OnWire(di) \in Seq(Bytes) /\ Len(OnWire(di)) = 2
      /\ OnWire(di)[1] = add33(di[2]) /\ OnWire(di)[2] = add33(di[1])
  <2>1. OnWire(di) \in Seq(Bytes) /\ Len(OnWire(di)) = 2
        /\ \A i \in 1..Len(di) : OnWire(di)[i] = add33(di[Len(di) - i + 1])
    BY OnWireOf, OnWireAt, Zenon
  <2>2. \A i \in 1..2 : OnWire(di)[i] = add33(di[2 - i + 1])
    BY <2>1, Zenon
  <2>3. 2 - 1 + 1 = 2 /\ 2 - 2 + 1 = 1 /\ 1 \in 1..2 /\ 2 \in 1..2
    OBVIOUS
  <2> QED
    BY <2>1, <2>2, <2>3, Zenon
<1>5. /\ s3 \in Seq(Bytes) /\ Len(s3) = 12 /\ \A i \in 1..10 : s3[i] = s2[i]
      /\ s3[11] = add33(di[2]) /\ s3[12] = add33(di[1])
  <2>1. /\ s3 \in Seq(Bytes) /\ Len(s3) = Len(s2) + Len(OnWire(di))
        /\ \A i \in 1..Len(s2) : s3[i] = s2[i]
        /\ \A i \in 1..Len(OnWire(di)) : s3[Len(s2) + i] = OnWire(di)[i]
    <3>1. Joins(Bytes, s3, s2, OnWire(di))
      BY <1>3, <1>4, JoinsOf
    <3> QED
      BY <3>1, Zenon DEF Joins
  <2> HIDE DEF s3
  <2>2. s3[10 + 1] = OnWire(di)[1] /\ s3[10 + 2] = OnWire(di)[2]
    BY <1>3, <1>4, <2>1
  <2> QED
    BY <1>3, <1>4, <2>1, <2>2
<1> HIDE DEF s3
<1>6. /\ body \in Seq(Bytes) /\ Len(body) = 12 + Len(data)
      /\ \A i \in 1..12 : body[i] = s3[i]
      /\ \A i \in 1..Len(data) : body[12 + i] = data[i]
  <2>1. Joins(Bytes, body, s3, data)
    BY <1>5, JoinsOf
  <2> HIDE DEF body
  <2> QED
    BY <1>5, <2>1 DEF Joins
<1> HIDE DEF body
<1>7. /\ f \in Seq(Bytes) /\ Len(f) = Len(body) + 2
      /\ \A i \in 1..Len(body) : f[i] = body[i]
      /\ Last(f) = END_BYTE /\ checksumHolds(f)
  BY <1>6, SealedOf
<1> HIDE DEF f
<1>8. Len(data) \in Nat /\ 12 \in Nat
  OBVIOUS
<1>9. \A i \in 1..12 : f[i] = s3[i]
  BY <1>6, <1>7, <1>8, SMTT(30)
<1>10. \A i \in 1..Len(data) : f[12 + i] = data[i]
  BY <1>6, <1>7, <1>8, SMTT(30)
<1>11. \A i \in 1..10 : f[i] = s2[i]
  BY <1>5, <1>9
<1>12. \A i \in 1..6 : f[1 + i] = address[i]
  <2>1. \A i \in 1..6 : 1 + i \in 1..10
    OBVIOUS
  <2> QED
    BY <1>3, <1>11, <2>1
<1>13. f = Frame(address, code, di, data)
  BY DEF f, Sealed, body, s3, s2, s1, mid, head, Frame
<1>14. IsFrame(f, address, code, di, data)
  BY <1>3, <1>5, <1>6, <1>7, <1>8, <1>9, <1>10, <1>11, <1>12, SMTT(30) DEF IsFrame
<1> QED
  BY <1>13, <1>14

LEMMA FieldOf ==
  ASSUME NEW b \in Seq(Bytes), NEW from \in Nat, NEW to \in Nat, from <= to, to <= Len(b)
  PROVE  /\ Field(b, from, to) \in Seq(Bytes) /\ Len(Field(b, from, to)) = to - from
         /\ \A i \in 1..(to - from) : Field(b, from, to)[i] = b[from + i]
<1>1. Field(b, from, to) = SubSeq(b, from + 1, to)
  BY DEF Field
<1>2. \A i \in (from + 1)..to : b[i] \in Bytes
  OBVIOUS
<1>3. /\ SubSeq(b, from + 1, to) \in Seq(Bytes) /\ Len(SubSeq(b, from + 1, to)) = to - from
      /\ \A i \in 1..(to - from) : SubSeq(b, from + 1, to)[i] = b[from + i]
  OBVIOUS
<1> QED
  BY <1>1, <1>3

\* What travels with 33H added is read as it was.
LEMMA PlainOf ==
  ASSUME NEW b \in Seq(Bytes), NEW from \in Nat, NEW to \in Nat, from <= to, to <= Len(b),
         NEW x \in Seq(Bytes), Len(x) = to - from,
         \A i \in 1..(to - from) : b[from + i] = add33(x[i])
  PROVE  Plain(b, from, to) = x
<1> DEFINE n == to - from
           field == Field(b, from, to)
<1>1. n \in Nat /\ field \in Seq(Bytes) /\ Len(field) = n /\ \A i \in 1..n : field[i] = b[from + i]
  <2>1. /\ Field(b, from, to) \in Seq(Bytes) /\ Len(Field(b, from, to)) = to - from
        /\ \A i \in 1..(to - from) : Field(b, from, to)[i] = b[from + i]
    BY FieldOf, Zenon
  <2>2. to - from \in Nat
    OBVIOUS
  <2> QED
    BY <2>1, <2>2, Zenon
<1> HIDE DEF field
<1>2. DOMAIN field = 1..n
  BY <1>1
<1>3. \A i \in 1..n : x[i] \in Bytes /\ subtract33H(field[i]) = x[i]
  BY <1>1, SubtractAdd
<1>4. Apply(subtract33H, field) = [i \in 1..n |-> subtract33H(field[i])]
  BY <1>2 DEF Apply
<1>5. x = [i \in 1..n |-> x[i]]
  OBVIOUS
<1>6. Apply(subtract33H, field) = x
  BY <1>3, <1>4, <1>5
<1> QED
  BY <1>6 DEF Plain, field

\* g is the n bytes of b behind the first ones.
IsField(g, b, from, n) ==
    g \in Seq(Bytes) /\ Len(g) = n /\ \A i \in 1..n : g[i] = b[from + i]

LEMMA FieldIs ==
  ASSUME NEW b \in Seq(Bytes), NEW from \in Nat, NEW n \in Nat, NEW to, to = from + n, to <= Len(b)
  PROVE  IsField(Field(b, from, to), b, from, n)
<1>1. to \in Nat /\ from <= to /\ to - from = n
  OBVIOUS
<1>2. /\ Field(b, from, to) \in Seq(Bytes) /\ Len(Field(b, from, to)) = to - from
      /\ \A i \in 1..(to - from) : Field(b, from, to)[i] = b[from + i]
  BY <1>1, FieldOf, Zenon
<1> QED
  BY <1>1, <1>2, Zenon DEF IsField

LEMMA ReverseTwice == ASSUME NEW S, NEW s \in Seq(S) PROVE Reverse(Reverse(s)) = s
<1> DEFINE r == Reverse(s)
           n == Len(s)
<1>1. r \in Seq(S) /\ Len(r) = n /\ \A i \in 1..n : r[i] = s[n - i + 1]
  BY ReverseOf
<1> HIDE DEF r
<1>2. Reverse(r) \in Seq(S) /\ Len(Reverse(r)) = Len(r)
      /\ \A i \in 1..Len(r) : Reverse(r)[i] = r[Len(r) - i + 1]
  BY <1>1, ReverseOf
<1>3. n \in Nat
  OBVIOUS
<1> HIDE DEF n
<1>4. \A i \in 1..n : n - i + 1 \in 1..n /\ n - (n - i + 1) + 1 = i
  BY <1>3
<1>5. \A i \in 1..n : Reverse(r)[i] = s[i]
  BY <1>1, <1>2, <1>4
<1>6. Len(Reverse(r)) = Len(s) /\ \A i \in 1..Len(s) : Reverse(r)[i] = s[i]
  BY <1>1, <1>2, <1>5 DEF n
<1>7. Reverse(r) = s
  BY <1>2, <1>6, SeqEqual
<1> QED
  BY <1>7 DEF r

\* What travels last byte first with 33H added is read as it was.
LEMMA HeardData ==
  ASSUME NEW f \in Seq(Bytes), NEW from \in Nat, NEW x \in Seq(Bytes),
         Len(f) = from + Len(x) + 2, \A i \in 1..Len(x) : f[from + i] = OnWire(x)[i]
  PROVE  Reverse(Plain(f, from, Len(f) - 2)) = x
<1> DEFINE r == Reverse(x)
           n == Len(x)
           to == Len(f) - 2
<1>1. r \in Seq(Bytes) /\ Len(r) = n /\ \A i \in 1..n : r[i] = x[n - i + 1]
  BY ReverseOf
<1>2. \A i \in 1..n : OnWire(x)[i] = add33(x[n - i + 1])
  BY OnWireAt, Zenon
<1> HIDE DEF r
<1>3. n \in Nat /\ to \in Nat /\ from <= to /\ to <= Len(f) /\ to - from = n
  OBVIOUS
<1>4. Len(r) = to - from /\ \A i \in 1..(to - from) : f[from + i] = add33(r[i])
  BY <1>1, <1>2, <1>3
<1> HIDE DEF to, n
<1>5. Plain(f, from, to) = r
  BY <1>1, <1>3, <1>4, PlainOf
<1>6. Reverse(r) = x
  BY ReverseTwice DEF r
<1> QED
  BY <1>5, <1>6 DEF to

\* How data goes into a frame of an operation: a write's behind the password.
DataOf(code, x) == IF code = 4 THEN OnWire(PasswordBytes) \o OnWire(x) ELSE OnWire(x)

LEMMA DataLayout ==
  ASSUME NEW code \in Bytes, NEW x \in Seq(Bytes)
  PROVE  LET k == IF code = 4 THEN 4 ELSE 0
             data == DataOf(code, x)
         IN  /\ data \in Seq(Bytes) /\ Len(data) = k + Len(x)
             /\ \A i \in 1..Len(x) : data[k + i] = OnWire(x)[i]
<1>1. PasswordBytes \in Seq(Bytes) /\ Len(PasswordBytes) = 4
  BY DEF PasswordBytes, Bytes
<1>2. /\ OnWire(x) \in Seq(Bytes) /\ Len(OnWire(x)) = Len(x)
      /\ OnWire(PasswordBytes) \in Seq(Bytes) /\ Len(OnWire(PasswordBytes)) = 4
  BY <1>1, OnWireOf
<1> DEFINE p == OnWire(PasswordBytes)
           w == OnWire(x)
           u == p \o w
<1>3. Joins(Bytes, u, p, w)
  BY <1>2, JoinsOf
<1>4. CASE code = 4
  <2>1. DataOf(code, x) = u
    BY <1>4 DEF DataOf
  <2> HIDE DEF u, p, w
  <2>2. p \in Seq(Bytes) /\ Len(p) = 4 /\ w \in Seq(Bytes) /\ Len(w) = Len(x)
    BY <1>2 DEF p, w
  <2>3. u \in Seq(Bytes) /\ Len(u) = 4 + Len(x) /\ \A i \in 1..Len(x) : u[4 + i] = w[i]
    BY <1>3, <2>2 DEF Joins
  <2> QED
    BY <1>4, <2>1, <2>3 DEF w
<1>5. CASE code # 4
  <2>1. DataOf(code, x) = w
    BY <1>5 DEF DataOf
  <2>2. \A i \in 1..Len(x) : 0 + i = i
    OBVIOUS
  <2> HIDE DEF w
  <2>3. w \in Seq(Bytes) /\ Len(w) = Len(x) /\ Len(x) \in Nat
    BY <1>2 DEF w
  <2> QED
    BY <1>5, <2>1, <2>2, <2>3 DEF w
<1> QED
  BY <1>4, <1>5

\* What a meter reads in a frame is what was put into it.
LEMMA MeterHearsOf ==
  ASSUME NEW address \in Seq(Bytes), Len(address) = 6, NEW code \in Bytes,
         NEW hi \in Bytes, NEW lo \in Bytes, NEW x \in Seq(Bytes),
         NEW f, f = Frame(Reverse(address), code, <<hi, lo>>, DataOf(code, x))
  PROVE  /\ MeterHears(f).address = address
         /\ MeterHears(f).path = code
         /\ MeterHears(f).item = FrameItem(lo + hi * 256)
         /\ MeterHears(f).data = IF code = 4 THEN Apply(fromBcd, x) ELSE x
         /\ f \in Seq(Bytes) /\ checksumHolds(f) /\ f[1] = HEADER_BYTE
         /\ Len(f) = 14 + Len(DataOf(code, x)) /\ At(f, 9) = (2 + Len(DataOf(code, x))) % 256
<1> DEFINE di == <<hi, lo>>
           data == DataOf(code, x)
           a == Reverse(address)
           k == IF code = 4 THEN 4 ELSE 0
<1>1. di \in Seq(Bytes) /\ Len(di) = 2 /\ di[1] = hi /\ di[2] = lo
  OBVIOUS
<1>2. a \in Seq(Bytes) /\ Len(a) = 6
  BY ReverseOf
<1>3. /\ data \in Seq(Bytes) /\ Len(data) = k + Len(x)
      /\ \A i \in 1..Len(x) : data[k + i] = OnWire(x)[i]
  BY DataLayout
<1> HIDE DEF di, data, a
<1>4. IsFrame(f, a, code, di, data)
  <2>1. f = Frame(a, code, di, data)
    BY DEF a, di, data
  <2> QED
    BY <1>1, <1>2, <1>3, <2>1, FrameLayout
<1>5. /\ f \in Seq(Bytes) /\ Len(f) = 14 + Len(data) /\ f[9] = code
      /\ f[10] = (2 + Len(data)) % 256 /\ f[1] = HEADER_BYTE
      /\ f[11] = add33(lo) /\ f[12] = add33(hi) /\ checksumHolds(f)
      /\ \A i \in 1..6 : f[1 + i] = a[i]
      /\ \A i \in 1..Len(data) : f[12 + i] = data[i]
  BY <1>1, <1>4, Zenon DEF IsFrame
<1>6. At(f, 8) = code /\ At(f, 9) = (2 + Len(data)) % 256
  <2>1. 8 + 1 = 9 /\ 9 + 1 = 10
    OBVIOUS
  <2> QED
    BY <1>5, <2>1, Zenon DEF At
<1>7. Len(data) \in Nat /\ Len(x) \in Nat /\ k \in {0, 4} /\ Len(f) = 14 + k + Len(x)
  BY <1>3, <1>5
<1>8. Reverse(Field(f, 1, 7)) = address
  <2>1. IsField(Field(f, 1, 7), f, 1, 6)
    <3>1. f \in Seq(Bytes) /\ 1 \in Nat /\ 6 \in Nat /\ 7 = 1 + 6 /\ 7 <= Len(f)
      BY <1>5, <1>7
    <3> QED
      BY <3>1, FieldIs
  <2> DEFINE g == Field(f, 1, 7)
  <2> HIDE DEF g
  <2>2. g \in Seq(Bytes) /\ Len(g) = 6 /\ \A i \in 1..6 : g[i] = a[i]
    BY <1>5, <2>1, Zenon DEF g, IsField
  <2>3. g = a
    BY <1>2, <2>2, SeqEqual
  <2>4. Reverse(a) = address
    BY ReverseTwice DEF a
  <2> QED
    BY <2>3, <2>4 DEF g
<1>9. reverseAndCombine(Field(f, 10, 12)) = lo + hi * 256
  <2>1. IsField(Field(f, 10, 12), f, 10, 2)
    <3>1. f \in Seq(Bytes) /\ 10 \in Nat /\ 2 \in Nat /\ 12 = 10 + 2 /\ 12 <= Len(f)
      BY <1>5, <1>7
    <3> QED
      BY <3>1, FieldIs
  <2> DEFINE g == Field(f, 10, 12)
  <2> HIDE DEF g
  <2>2. g \in Seq(Bytes) /\ Len(g) = 2 /\ g[1] = add33(lo) /\ g[2] = add33(hi)
    <3>1. 10 + 1 = 11 /\ 10 + 2 = 12 /\ 1 \in 1..2 /\ 2 \in 1..2
      OBVIOUS
    <3> QED
      BY <1>5, <2>1, <3>1, Zenon DEF g, IsField
  <2>3. reverseAndCombine(g) = lo + hi * 256
    BY <2>2, CombineTwo
  <2> QED
    BY <2>3 DEF g
<1>10. Reverse(Plain(f, 12 + k, Len(f) - 2)) = x
  <2>1. 12 + k \in Nat /\ Len(f) = (12 + k) + Len(x) + 2
    BY <1>7
  <2>2. \A i \in 1..Len(x) : f[(12 + k) + i] = OnWire(x)[i]
    <3> TAKE i \in 1..Len(x)
    <3>1. k + i \in 1..Len(data) /\ (12 + k) + i = 12 + (k + i)
      BY <1>3, <1>7
    <3> QED
      BY <1>3, <1>5, <3>1
  <2> HIDE DEF k
  <2> QED
    BY <1>5, <2>1, <2>2, HeardData
<1>11. 12 + k = IF At(f, 8) = 4 THEN 16 ELSE 12
  BY <1>6
<1> DEFINE heard == Reverse(Plain(f, IF At(f, 8) = 4 THEN 16 ELSE 12, Len(f) - 2))
<1>12. heard = x
  BY <1>10, <1>11, Zenon
<1>13. MeterHears(f) = [address |-> Reverse(Field(f, 1, 7)), path |-> At(f, 8),
                        item |-> FrameItem(reverseAndCombine(Field(f, 10, 12))),
                        data |-> IF At(f, 8) = 4 THEN Apply(fromBcd, heard) ELSE heard]
  BY DEF MeterHears
<1> HIDE DEF heard
<1>14. MeterHears(f) = [address |-> address, path |-> code, item |-> FrameItem(lo + hi * 256),
                        data |-> IF code = 4 THEN Apply(fromBcd, x) ELSE x]
  BY <1>6, <1>8, <1>9, <1>12, <1>13, Zenon
<1> QED
  BY <1>5, <1>6, <1>14 DEF data

-----------------------------------------------------------------------------
(* The frame of a command *)

MeterAddress(c) == hexToBytes(padStart(c.reference, 12))

CodeOf(c) == [READ |-> 1, CONTROL |-> 4, WRITE |-> 4, TOKEN |-> 0][taskType(c.commandType)]

DiOf(c) ==
    LET command == c.commandType
        phase   == PhaseNumber[framePhase(c)]
    IN  IF command \in TokenCommands THEN <<\hA1, \h20>>
        ELSE IF command \in {"SET_DATE", "READ_DATE"} THEN <<\hC0, \h10>>
        ELSE IF command \in {"SET_TIME", "READ_TIME"} THEN <<\hC0, \h11>>
        ELSE IF command = "TURN_ON"      THEN <<\hC0, \h3D>>
        ELSE IF command = "TURN_OFF"     THEN <<\hC0, \h3C>>
        ELSE IF command = "READ_CREDIT"  THEN <<\hE4, \h21>>
        ELSE IF command = "READ_VOLTAGE" THEN <<\hB6, \h11 + phase>>
        ELSE IF command = "READ_POWER"   THEN <<\hB6, \h30 + phase>>
        ELSE <<\hB6, \h21 + phase>>

RawOf(c) ==
    LET command == c.commandType
    IN  IF command \in TokenCommands THEN hexToBytes(c.token)
        ELSE IF command = "SET_DATE" THEN encodeDateBytes(c.payload)
        ELSE IF command = "SET_TIME" THEN encodeTimeBytes(c.payload)
        ELSE IF command = "TURN_ON"  THEN <<\h96>>
        ELSE IF command = "TURN_OFF" THEN <<\h35>>
        ELSE <<>>

\* The commands the ChirpStack plugin makes a CALIN frame of.
Framed(c) ==
    /\ isCreate(c)
    /\ c.commandType \in supportedCommandTypes["calin-chirpstack"] \ {"READ_POWER_LIMIT"}
    /\ chirpstackSendOne(c) # None

FrameReads == {"READ_VOLTAGE", "READ_CURRENT", "READ_POWER", "READ_CREDIT", "READ_DATE", "READ_TIME"}

LEMMA FramedCommands ==
  ASSUME NEW c, Framed(c)
  PROVE  c.commandType \in FrameReads \cup {"TURN_ON", "TURN_OFF", "SET_DATE", "SET_TIME"} \cup TokenCommands
  BY DEF Framed, supportedCommandTypes, CommonCommands, Plugins, ReadCommands, PhaseSpecificReads,
         ControlCommands, FrameReads

LEMMA CodeOfCommand ==
  ASSUME NEW c
  PROVE  /\ c.commandType \in FrameReads => CodeOf(c) = 1
         /\ c.commandType \in {"TURN_ON", "TURN_OFF", "SET_DATE", "SET_TIME"} => CodeOf(c) = 4
         /\ c.commandType \in TokenCommands => CodeOf(c) = 0
  BY DEF CodeOf, taskType, FrameReads, ReadCommands, PhaseSpecificReads, ControlCommands,
         WriteCommands, TokenCommands, GenerateTokenTypes

\* The data a configuration puts into its frame.
WireData(config) ==
    IF config.requiresPassword THEN OnWire(PasswordBytes) \o OnWire(config.rawWriteData)
    ELSE config.rawWriteData

LEMMA NothingOnWire == OnWire(<<>>) = <<>>
<1>1. <<>> \in Seq(Bytes) /\ Len(<<>>) = 0
  OBVIOUS
<1>2. OnWire(<<>>) \in Seq(Bytes) /\ Len(OnWire(<<>>)) = 0
  BY <1>1, OnWireOf
<1> QED
  BY <1>2, EmptySeq

LEMMA WireDataOf ==
  ASSUME NEW di, NEW x
  PROVE  /\ WireData(Reading(di)) = DataOf(1, <<>>)
         /\ WireData(Writing(di, x)) = DataOf(4, x)
         /\ WireData(Config(0, di, OnWire(x), FALSE)) = DataOf(0, x)
  BY NothingOnWire DEF WireData, Reading, Writing, Config, DataOf

\* The frame that leaves for a command.
LEMMA FrameSent ==
  ASSUME NEW c, Framed(c)
  PROVE  /\ MeterAddress(c) \in Seq(Bytes) /\ Len(MeterAddress(c)) = 6
         /\ \A code, di, x : code = CodeOf(c) /\ di = DiOf(c) /\ x = RawOf(c) =>
               chirpstackSendOne(c) = [kind |-> "frame", bytes |->
                                         Frame(Reverse(MeterAddress(c)), code, di, DataOf(code, x))]
         /\ c.commandType \in TokenCommands => IsHex(c.token)
         /\ c.commandType = "SET_DATE" => c.payload.kind = "date"
         /\ c.commandType = "SET_TIME" => c.payload.kind = "time"
<1> DEFINE k == c.commandType
           config == determineCommandConfig(k, framePhase(c), c.token, c.payload)
           a == MeterAddress(c)
           bytes == encodeRequestData(c.reference, framePhase(c), k, c.token, c.payload)
<1>1. /\ k \in FrameReads \cup {"TURN_ON", "TURN_OFF", "SET_DATE", "SET_TIME"} \cup TokenCommands
      /\ k # "READ_POWER_LIMIT" /\ k \in Enqueueable
      /\ c.token \in Strings /\ c.reference \in Strings /\ c.reference # <<>> /\ isPayload(c.payload)
      /\ framePhase(c) \in PHASES
  BY FramedCommands DEF Framed, isCreate, framePhase, PHASES
<1>2. a \in Seq(Bytes)
  BY <1>1, AddressOf DEF MeterAddress
<1>3. bytes # NoBytes /\ chirpstackSendOne(c) = [kind |-> "frame", bytes |-> bytes]
  BY DEF chirpstackSendOne, Framed
<1>4. /\ Len(a) = 6 /\ config # None
      /\ bytes = Frame(Reverse(a), config.controlCode, config.dataIdentifier, WireData(config))
  <2>1. bytes = IF Len(a) # 6 \/ config = None THEN NoBytes
                ELSE Frame(Reverse(a), config.controlCode, config.dataIdentifier, WireData(config))
    BY <1>1 DEF encodeRequestData, MeterAddress, WireData
  <2> HIDE DEF bytes, a, config
  <2> QED
    BY <1>3, <2>1
<1>5. /\ k \in TokenCommands => IsHex(c.token)
      /\ k = "SET_DATE" => c.payload.kind = "date"
      /\ k = "SET_TIME" => c.payload.kind = "time"
  <2>1. IF Unencodable(k, c.token, c.payload) THEN config = None ELSE IsConfig(config)
    BY <1>1, ConfigOf
  <2> HIDE DEF config
  <2> QED
    BY <1>4, <2>1 DEF Unencodable
<1> DEFINE Fits(cf) == /\ cf.controlCode = CodeOf(c) /\ cf.dataIdentifier = DiOf(c)
                       /\ WireData(cf) = DataOf(CodeOf(c), RawOf(c))
<1> HIDE DEF bytes, a
<1>6. Fits(config)
  <2>1. /\ k \in FrameReads => config = Reading(DiOf(c)) /\ RawOf(c) = <<>>
        /\ k \in {"TURN_ON", "TURN_OFF", "SET_DATE", "SET_TIME"} => config = Writing(DiOf(c), RawOf(c))
        /\ k \in TokenCommands => config = Config(0, DiOf(c), OnWire(RawOf(c)), FALSE)
    <3>1. CASE k \in FrameReads
      <4>1. k \notin TokenCommands
        BY <3>1 DEF FrameReads, TokenCommands, GenerateTokenTypes
      <4>2. RawOf(c) = <<>>
        BY <3>1, <4>1 DEF RawOf, FrameReads
      <4>3. k \in {"READ_CREDIT", "READ_DATE", "READ_TIME"} => config = Reading(DiOf(c))
        BY <3>1, <4>1 DEF determineCommandConfig, DiOf
      <4>4. k = "READ_VOLTAGE" => config = Reading(DiOf(c))
        BY <3>1, <4>1 DEF determineCommandConfig, DiOf, readVoltageByPhase
      <4>5. k = "READ_POWER" => config = Reading(DiOf(c))
        BY <3>1, <4>1 DEF determineCommandConfig, DiOf, readPowerByPhase
      <4>6. k = "READ_CURRENT" => config = Reading(DiOf(c))
        BY <3>1, <4>1 DEF determineCommandConfig, DiOf, readCurrentByPhase
      <4>7. config = Reading(DiOf(c))
        BY <3>1, <4>3, <4>4, <4>5, <4>6 DEF FrameReads
      <4>8. k \notin {"TURN_ON", "TURN_OFF", "SET_DATE", "SET_TIME"}
        BY <3>1 DEF FrameReads
      <4> HIDE DEF config
      <4> QED
        BY <4>1, <4>2, <4>7, <4>8
    <3>2. CASE k \in {"TURN_ON", "TURN_OFF", "SET_DATE", "SET_TIME"}
      <4>1. k \notin TokenCommands /\ k \notin FrameReads
        BY <3>2 DEF FrameReads, TokenCommands, GenerateTokenTypes
      <4>2. k = "TURN_ON" => config = Writing(DiOf(c), RawOf(c))
        BY <4>1 DEF determineCommandConfig, DiOf, RawOf
      <4>3. k = "TURN_OFF" => config = Writing(DiOf(c), RawOf(c))
        BY <4>1 DEF determineCommandConfig, DiOf, RawOf
      <4>4. k = "SET_DATE" => config = Writing(DiOf(c), RawOf(c))
        BY <1>5, <4>1 DEF determineCommandConfig, DiOf, RawOf
      <4>5. k = "SET_TIME" => config = Writing(DiOf(c), RawOf(c))
        BY <1>5, <4>1 DEF determineCommandConfig, DiOf, RawOf
      <4> HIDE DEF config
      <4> QED
        BY <3>2, <4>1, <4>2, <4>3, <4>4, <4>5
    <3>3. CASE k \in TokenCommands
      <4>1. k \notin {"TURN_ON", "TURN_OFF", "SET_DATE", "SET_TIME"} /\ k \notin FrameReads
        BY <3>3 DEF FrameReads, TokenCommands, GenerateTokenTypes
      <4>2. hexToBytes(c.token) # NoBytes
        BY <1>1, <1>5, <3>3, HexToBytesOf
      <4>3. config = Config(0, DiOf(c), OnWire(RawOf(c)), FALSE)
        <5>1. config = IF hexToBytes(c.token) = NoBytes THEN None
                       ELSE Config(0, <<161, 32>>, OnWire(hexToBytes(c.token)), FALSE)
          BY <3>3 DEF determineCommandConfig, TokenCommands, GenerateTokenTypes
        <5>2. DiOf(c) = <<161, 32>> /\ RawOf(c) = hexToBytes(c.token)
          BY <3>3 DEF DiOf, RawOf
        <5> HIDE DEF config
        <5> QED
          BY <4>2, <5>1, <5>2
      <4> HIDE DEF config
      <4> QED
        BY <3>3, <4>1, <4>3
    <3> QED
      BY <1>1, <3>1, <3>2, <3>3
  <2>2. \A di, x : Config(0, di, x, FALSE).controlCode = 0 /\ Config(0, di, x, FALSE).dataIdentifier = di
    BY DEF Config
  <2>3. \A di : Reading(di).controlCode = 1 /\ Reading(di).dataIdentifier = di
    BY DEF Reading, Config
  <2>4. \A di, x : Writing(di, x).controlCode = 4 /\ Writing(di, x).dataIdentifier = di
    BY DEF Writing, Config
  <2> HIDE DEF config
  <2>5. CASE k \in FrameReads
    <3>1. CodeOf(c) = 1 /\ WireData(config) = DataOf(1, RawOf(c))
      BY <2>1, <2>5, CodeOfCommand, WireDataOf
    <3> QED
      BY <2>1, <2>3, <2>5, <3>1
  <2>6. CASE k \in {"TURN_ON", "TURN_OFF", "SET_DATE", "SET_TIME"}
    <3>1. CodeOf(c) = 4 /\ WireData(config) = DataOf(4, RawOf(c))
      BY <2>1, <2>6, CodeOfCommand, WireDataOf
    <3> QED
      BY <2>1, <2>4, <2>6, <3>1
  <2>7. CASE k \in TokenCommands
    <3>1. CodeOf(c) = 0 /\ WireData(config) = DataOf(0, RawOf(c))
      BY <2>1, <2>7, CodeOfCommand, WireDataOf
    <3> QED
      BY <2>1, <2>2, <2>7, <3>1, ZenonT(40)
  <2> QED
    BY <1>1, <2>5, <2>6, <2>7
<1>7. \A code, di, x : code = CodeOf(c) /\ di = DiOf(c) /\ x = RawOf(c) =>
         bytes = Frame(Reverse(a), code, di, DataOf(code, x))
  <2> HIDE DEF config
  <2> QED
    BY <1>4, <1>6, Zenon
<1> QED
  BY <1>2, <1>3, <1>4, <1>5, <1>7 DEF a

-----------------------------------------------------------------------------
(* What a frame says to the meter *)

LEMMA DigitsOfByte == \A x, y \in 0..15 : (16 * x + y) \div 16 = x /\ (16 * x + y) % 16 = y
  OBVIOUS

\* The bytes of a hex string give its digits back.
LEMMA DigitsOf ==
  ASSUME NEW hex \in Strings, IsHex(hex)
  PROVE  LET bytes == hexToBytes(hex)
         IN  /\ Len(hex) = 2 * Len(bytes)
             /\ \A i \in 1..Len(bytes) : bytes[i] \div 16 = hex[2 * i - 1] /\ bytes[i] % 16 = hex[2 * i]
<1> DEFINE k == Len(hex) \div 2
           bytes == hexToBytes(hex)
<1>1. Len(hex) \in Nat /\ DOMAIN hex = 1..Len(hex) /\ \A i \in 1..Len(hex) : hex[i] \in 0..17
  BY DEF Strings
<1>2. bytes = [i \in 1..k |-> 16 * hex[2 * i - 1] + hex[2 * i]]
  BY <1>1 DEF IsHex, hexToBytes
<1>3. k \in Nat /\ 2 * k = Len(hex)
  <2>1. Len(hex) > 0 /\ Len(hex) % 2 = 0
    BY <1>1, EmptySeq DEF IsHex, Strings
  <2>2. Len(hex) \in Nat
    BY <1>1
  <2>3. k \in Nat \ {0} /\ 2 * k = Len(hex)
    BY <2>1, <2>2, HalfOf, Zenon
  <2> HIDE DEF k
  <2> QED
    BY <2>3
<1> HIDE DEF k
<1>4. \A j \in 1..Len(hex) : hex[j] \in 0..15
  BY <1>1, HexDigit DEF IsHex
<1>5. Len(bytes) = k
  <2>1. \A i \in 1..k : 2 * i - 1 \in 1..Len(hex) /\ 2 * i \in 1..Len(hex)
    BY <1>3
  <2>2. \A i \in 1..k : 16 * hex[2 * i - 1] + hex[2 * i] \in Bytes
    BY <1>4, <2>1, ByteOfDigits
  <2> QED
    BY <1>2, <1>3, <2>2
<1>6. \A i \in 1..k : bytes[i] \div 16 = hex[2 * i - 1] /\ bytes[i] % 16 = hex[2 * i]
  <2> TAKE i \in 1..k
  <2>1. 2 * i - 1 \in 1..Len(hex) /\ 2 * i \in 1..Len(hex)
    BY <1>3
  <2>2. hex[2 * i - 1] \in 0..15 /\ hex[2 * i] \in 0..15
    BY <1>4, <2>1
  <2>3. bytes[i] = 16 * hex[2 * i - 1] + hex[2 * i]
    BY <1>2
  <2> QED
    BY <2>2, <2>3, DigitsOfByte
<1> HIDE DEF bytes
<1>7. Len(hex) = 2 * Len(bytes) /\ \A i \in 1..Len(bytes) : bytes[i] \div 16 = hex[2 * i - 1] /\ bytes[i] % 16 = hex[2 * i]
  BY <1>3, <1>5, <1>6
<1> QED
  BY <1>7 DEF bytes

LEMMA PairOf ==
  ASSUME NEW p \in Seq(0..17), NEW m \in Nat, m > 0, m + 1 <= Len(p)
  PROVE  SubSeq(p, m, m + 1) = <<p[m], p[m + 1]>>
<1> DEFINE s == SubSeq(p, m, m + 1)
<1>1. m - 1 \in Nat /\ (m - 1) + 1 = m /\ m \in 1..Len(p) /\ m + 1 \in 1..Len(p)
  OBVIOUS
<1>2. p[m] \in 0..17 /\ p[m + 1] \in 0..17 /\ \A i \in m..(m + 1) : p[i] \in 0..17
  BY <1>1, SMTT(30)
<1>3. s \in Seq(0..17) /\ Len(s) = 2 /\ \A i \in 1..2 : s[i] = p[m + i - 1]
  <2>1. (m + 1) - m + 1 = 2 /\ m <= m + 1
    OBVIOUS
  <2> QED
    BY <1>1, <1>2, <2>1, SubSeqProperties
<1> HIDE DEF s
<1>4. m + 1 - 1 = m /\ m + 2 - 1 = m + 1
  OBVIOUS
<1>5. s[1] = p[m] /\ s[2] = p[m + 1]
  BY <1>3, <1>4
<1>6. s = <<p[m], p[m + 1]>>
  BY <1>2, <1>3, <1>5
<1> QED
  BY <1>6 DEF s

LEMMA AddressDigits ==
  ASSUME NEW c, isCreate(c), Len(MeterAddress(c)) = 6
  PROVE  \A i \in 1..6 : <<MeterAddress(c)[i] \div 16, MeterAddress(c)[i] % 16>>
                            = SubSeq(padStart(c.reference, 12), 2 * i - 1, 2 * i)
<1> DEFINE p == padStart(c.reference, 12)
           a == MeterAddress(c)
<1>1. p \in Strings
  <2>1. c.reference \in Strings /\ 12 \in Nat
    BY DEF isCreate
  <2> QED
    BY <2>1, PadStartOf
<1>2. a = hexToBytes(p)
  BY DEF MeterAddress
<1> HIDE DEF p, a
<1>3. Len(a) = 6
  BY DEF a
<1>4. IsHex(p)
  <2>1. Len(NoBytes) = 0
    BY DEF NoBytes
  <2> QED
    BY <1>1, <1>2, <1>3, <2>1, HexToBytesOf
<1>5. Len(p) = 2 * Len(a) /\ \A i \in 1..Len(a) : a[i] \div 16 = p[2 * i - 1] /\ a[i] % 16 = p[2 * i]
  BY <1>1, <1>2, <1>4, DigitsOf
<1>6. Len(p) = 12 /\ p \in Seq(0..17) /\ \A i \in 1..6 : a[i] \div 16 = p[2 * i - 1] /\ a[i] % 16 = p[2 * i]
  BY <1>1, <1>3, <1>5 DEF Strings
<1>7. ASSUME NEW i \in 1..6
      PROVE  <<a[i] \div 16, a[i] % 16>> = SubSeq(p, 2 * i - 1, 2 * i)
  <2> DEFINE m == 2 * i - 1
             s == SubSeq(p, m, m + 1)
  <2>1. m \in 1..11 /\ m + 1 = 2 * i
    OBVIOUS
  <2> HIDE DEF m
  <2>2. s = <<p[m], p[m + 1]>>
    <3>1. p \in Seq(0..17) /\ m \in Nat /\ m > 0 /\ m + 1 <= Len(p)
      BY <1>6, <2>1
    <3>2. SubSeq(p, m, m + 1) = <<p[m], p[m + 1]>>
      BY <3>1, PairOf, Zenon
    <3> QED
      BY <3>2 DEF s
  <2>3. p[m] = a[i] \div 16 /\ p[m + 1] = a[i] % 16
    BY <1>6, <2>1 DEF m
  <2> QED
    BY <2>1, <2>2, <2>3, Zenon DEF s, m
<1> QED
  BY <1>7 DEF a, p

\* What the meter takes the identifier of a command's frame for.
LEMMA DiItem ==
  ASSUME NEW c, Framed(c)
  PROVE  \E hi, lo \in Bytes :
            /\ DiOf(c) = <<hi, lo>>
            /\ FrameItem(lo + hi * 256)
                  = Item(Subject(c.commandType),
                         IF c.commandType \in {"READ_VOLTAGE", "READ_POWER", "READ_CURRENT"}
                         THEN framePhase(c) ELSE "-")
<1> DEFINE k == c.commandType
           ph == framePhase(c)
           n == PhaseNumber[ph]
           Fits(hi, lo, item) == /\ hi \in Bytes /\ lo \in Bytes /\ DiOf(c) = <<hi, lo>>
                                 /\ FrameItem(lo + hi * 256) = item
<1>1. /\ k \in FrameReads \cup {"TURN_ON", "TURN_OFF", "SET_DATE", "SET_TIME"} \cup TokenCommands
      /\ ph \in PHASES
  BY FramedCommands DEF Framed, isCreate, framePhase, PHASES
<1>2. ph \in {"A", "B", "C"} /\ n \in 0..2 /\ PhaseName[n + 1] = ph
  <2>1. ph \in {"A", "B", "C"}
    BY <1>1 DEF PHASES
  <2> HIDE DEF ph
  <2> QED
    BY <2>1 DEF PhaseNumber, PhaseName
<1>3. CASE k \in TokenCommands
  <2>1. DiOf(c) = <<161, 32>>
    BY <1>3 DEF DiOf
  <2>2. 161 \in Bytes /\ 32 \in Bytes /\ 32 + 161 * 256 = 41248
    BY DEF Bytes
  <2>3. FrameItem(41248) = Item("token", "-")
    BY DEF FrameItem
  <2>4. Subject(k) = "token" /\ k \notin {"READ_VOLTAGE", "READ_POWER", "READ_CURRENT"}
    BY <1>3 DEF Subject, TokenCommands, GenerateTokenTypes
  <2> QED
    BY <2>1, <2>2, <2>3, <2>4
<1> DEFINE others == {"SET_DATE", "READ_DATE", "SET_TIME", "READ_TIME", "TURN_ON", "TURN_OFF", "READ_CREDIT"}
<1>4. CASE k \in others
  <2>1. k \notin TokenCommands /\ k \notin {"READ_VOLTAGE", "READ_POWER", "READ_CURRENT"}
    BY <1>4 DEF TokenCommands, GenerateTokenTypes
  <2>2. /\ k \in {"SET_DATE", "READ_DATE"} => DiOf(c) = <<192, 16>> /\ Subject(k) = "date"
        /\ k \in {"SET_TIME", "READ_TIME"} => DiOf(c) = <<192, 17>> /\ Subject(k) = "time"
        /\ k = "TURN_ON" => DiOf(c) = <<192, 61>> /\ Subject(k) = "TURN_ON"
        /\ k = "TURN_OFF" => DiOf(c) = <<192, 60>> /\ Subject(k) = "TURN_OFF"
        /\ k = "READ_CREDIT" => DiOf(c) = <<228, 33>> /\ Subject(k) = "credit"
    BY <2>1 DEF DiOf, Subject
  <2>3. /\ {192, 16, 17, 61, 60, 228, 33} \subseteq Bytes
        /\ 16 + 192 * 256 = 49168 /\ 17 + 192 * 256 = 49169 /\ 61 + 192 * 256 = 49213
        /\ 60 + 192 * 256 = 49212 /\ 33 + 228 * 256 = 58401
    BY DEF Bytes
  <2>4. /\ FrameItem(49168) = Item("date", "-") /\ FrameItem(49169) = Item("time", "-")
        /\ FrameItem(49213) = Item("TURN_ON", "-") /\ FrameItem(49212) = Item("TURN_OFF", "-")
        /\ FrameItem(58401) = Item("credit", "-")
    BY DEF FrameItem
  <2>5. /\ k \in {"SET_DATE", "READ_DATE"} => Fits(192, 16, Item("date", "-"))
        /\ k \in {"SET_TIME", "READ_TIME"} => Fits(192, 17, Item("time", "-"))
        /\ k = "TURN_ON" => Fits(192, 61, Item("TURN_ON", "-"))
        /\ k = "TURN_OFF" => Fits(192, 60, Item("TURN_OFF", "-"))
        /\ k = "READ_CREDIT" => Fits(228, 33, Item("credit", "-"))
    BY <2>2, <2>3, <2>4
  <2>6. \E hi, lo : Fits(hi, lo, Item(Subject(k), "-"))
    <3> HIDE DEF Fits
    <3> QED
      BY <1>4, <2>2, <2>5
  <2> QED
    BY <2>1, <2>6
<1>5. CASE k \in {"READ_VOLTAGE", "READ_POWER", "READ_CURRENT"}
  <2>1. k \notin TokenCommands /\ k \notin others
    BY <1>5 DEF TokenCommands, GenerateTokenTypes
  <2>2. /\ k = "READ_VOLTAGE" => DiOf(c) = <<182, 17 + n>> /\ Subject(k) = "voltage"
        /\ k = "READ_POWER" => DiOf(c) = <<182, 48 + n>> /\ Subject(k) = "power"
        /\ k = "READ_CURRENT" => DiOf(c) = <<182, 33 + n>> /\ Subject(k) = "current"
    BY <2>1 DEF DiOf, Subject
  <2>3. 182 \in Bytes /\ 17 + n \in Bytes /\ 48 + n \in Bytes /\ 33 + n \in Bytes
    <3> HIDE DEF n
    <3> QED
      BY <1>2 DEF Bytes
  <2>4. /\ (17 + n) + 182 * 256 = 46609 + n /\ (48 + n) + 182 * 256 = 46640 + n
        /\ (33 + n) + 182 * 256 = 46625 + n
    <3> HIDE DEF n
    <3> QED
      BY <1>2
  <2>5. /\ FrameItem(46609 + n) = Item("voltage", PhaseName[n + 1])
        /\ FrameItem(46640 + n) = Item("power", PhaseName[n + 1])
        /\ FrameItem(46625 + n) = Item("current", PhaseName[n + 1])
    <3> HIDE DEF n
    <3>1. /\ 46609 + n \in 46609..46611 /\ (46609 + n) - 46608 = n + 1
          /\ 46625 + n \in 46625..46627 /\ (46625 + n) - 46624 = n + 1
          /\ 46640 + n \in 46640..46642 /\ (46640 + n) - 46639 = n + 1
      BY <1>2
    <3>2. /\ 46625 + n \notin 46609..46611 /\ 46640 + n \notin 46609..46611
          /\ 46640 + n \notin 46625..46627
      BY <1>2
    <3> QED
      BY <3>1, <3>2 DEF FrameItem
  <2> HIDE DEF n, ph
  <2>6. /\ k = "READ_VOLTAGE" => Fits(182, 17 + n, Item("voltage", ph))
        /\ k = "READ_POWER" => Fits(182, 48 + n, Item("power", ph))
        /\ k = "READ_CURRENT" => Fits(182, 33 + n, Item("current", ph))
    BY <1>2, <2>2, <2>3, <2>4, <2>5
  <2>7. \E hi, lo : Fits(hi, lo, Item(Subject(k), ph))
    <3> HIDE DEF Fits
    <3> QED
      BY <1>5, <2>2, <2>6
  <2> QED
    BY <1>5, <2>7 DEF ph
<1> QED
  BY <1>1, <1>3, <1>4, <1>5 DEF FrameReads

LEMMA DateParts ==
  ASSUME NEW p, isPayload(p), p.kind = "date"
  PROVE  /\ p.month \in 1..12 /\ p.day \in 1..31 /\ fullYear(p.year) \in Nat
         /\ fullYear(p.year) % 100 \in 0..99 /\ weekdayOf(p) \in 0..6
<1>1. p.year \in Nat /\ p.month \in 1..12 /\ p.day \in 1..31
  <2>1. setDatePayload(p)
    BY PayloadParts
  <2> QED
    BY <2>1 DEF setDatePayload
<1>2. fullYear(p.year) \in Nat
  <2>1. \A y \in Nat : fullYear(y) \in Nat
    BY DEF fullYear
  <2> QED
    BY <1>1, <2>1
<1>3. \A y \in Nat : y % 100 \in 0..99
  OBVIOUS
<1>4. weekdayOf(p) \in 0..6
  <2>1. \A y, m, d \in Int : DayNumber(y, m, d) \in Int
    BY DEF DayNumber
  <2>2. \A x \in Int : (x + 2) % 7 \in 0..6
    OBVIOUS
  <2> DEFINE y == fullYear(p.year)
             m == p.month
             d == p.day
  <2>3. y \in Int /\ m \in Int /\ d \in Int
    BY <1>1, <1>2, SMTT(30)
  <2> HIDE DEF y, m, d
  <2>4. DayNumber(y, m, d) \in Int
    BY <2>1, <2>3
  <2>5. Weekday(y, m, d) \in 0..6
    BY <2>2, <2>4 DEF Weekday
  <2> QED
    BY <2>5 DEF weekdayOf, y, m, d
<1> QED
  BY <1>1, <1>2, <1>3, <1>4

LEMMA DateCounted ==
  ASSUME NEW p, isPayload(p), p.kind = "date", ThisCentury(fullYear(p.year))
  PROVE  weekdayOf(p) = CountedWeekday(fullYear(p.year), p.month, p.day)
<1>1. p.month \in 1..12 /\ p.day \in 1..31
  BY DateParts
<1> QED
  BY <1>1, WeekdayCounted, Zenon DEF weekdayOf

\* The parts of a date or a time as the meter reads them.
LEMMA DateHeard ==
  ASSUME NEW p, isPayload(p), p.kind = "date"
  PROVE  LET heard == Apply(fromBcd, encodeDateBytes(p))
         IN  /\ DateAsAsked(p, heard[1], heard[2], heard[3], heard[4])
             /\ Len(encodeDateBytes(p)) = 4
<1> DEFINE y == fullYear(p.year) % 100
           w == weekdayOf(p)
           heard == Apply(fromBcd, encodeDateBytes(p))
<1>1. y \in 0..99 /\ p.month \in 0..99 /\ p.day \in 0..99 /\ w \in 0..99
  <2>1. \A x \in 1..12 : x \in 0..99
    OBVIOUS
  <2>2. \A x \in 1..31 : x \in 0..99
    OBVIOUS
  <2>3. \A x \in 0..6 : x \in 0..99
    OBVIOUS
  <2> QED
    BY <2>1, <2>2, <2>3, DateParts
<1>2. encodeDateBytes(p) = <<toBcd(y), toBcd(p.month), toBcd(p.day), toBcd(w)>>
  BY DEF encodeDateBytes
<1> HIDE DEF y, w
<1>3. heard[1] = y /\ heard[2] = p.month /\ heard[3] = p.day /\ heard[4] = w
  <2>1. /\ heard[1] = fromBcd(toBcd(y)) /\ heard[2] = fromBcd(toBcd(p.month))
        /\ heard[3] = fromBcd(toBcd(p.day)) /\ heard[4] = fromBcd(toBcd(w))
    BY <1>2 DEF Apply
  <2> QED
    BY <1>1, <2>1, FromToBcd
<1> HIDE DEF heard
<1>4. Len(encodeDateBytes(p)) = 4
  BY <1>2
<1>5. ThisCentury(fullYear(p.year)) => w = CountedWeekday(fullYear(p.year), p.month, p.day)
  BY DateCounted, Zenon DEF w
<1>6. DateAsAsked(p, y, p.month, p.day, w)
  BY <1>5, SMT DEF DateAsAsked, y, ThisCentury
<1> QED
  BY <1>3, <1>4, <1>6 DEF heard

LEMMA TimeHeard ==
  ASSUME NEW p, isPayload(p), p.kind = "time"
  PROVE  /\ Apply(fromBcd, encodeTimeBytes(p)) = <<p.hour, p.minute, p.second>>
         /\ Len(encodeTimeBytes(p)) = 3
<1> DEFINE heard == Apply(fromBcd, encodeTimeBytes(p))
<1>1. p.hour \in 0..99 /\ p.minute \in 0..99 /\ p.second \in 0..99
  <2>1. p.hour \in 0..23 /\ p.minute \in 0..59 /\ p.second \in 0..59
    <3>1. setTimePayload(p)
      BY PayloadParts
    <3> QED
      BY <3>1 DEF setTimePayload
  <2> QED
    BY <2>1
<1>2. encodeTimeBytes(p) = <<toBcd(p.hour), toBcd(p.minute), toBcd(p.second)>>
  BY DEF encodeTimeBytes
<1>3. heard = <<fromBcd(toBcd(p.hour)), fromBcd(toBcd(p.minute)), fromBcd(toBcd(p.second))>>
  BY <1>2 DEF Apply
<1>4. heard = <<p.hour, p.minute, p.second>>
  BY <1>1, <1>3, FromToBcd
<1> QED
  BY <1>2, <1>4

LEMMA RawTyped ==
  ASSUME NEW c, Framed(c)
  PROVE  /\ RawOf(c) \in Seq(Bytes)
         /\ c.commandType \notin TokenCommands => Len(RawOf(c)) <= 4
         /\ c.commandType \in FrameReads => RawOf(c) = <<>>
<1> DEFINE k == c.commandType
<1>1. /\ k \in FrameReads \cup {"TURN_ON", "TURN_OFF", "SET_DATE", "SET_TIME"} \cup TokenCommands
      /\ c.token \in Strings /\ isPayload(c.payload)
  BY FramedCommands DEF Framed, isCreate
<1>2. /\ k = "SET_DATE" => c.payload.kind = "date"
      /\ k = "SET_TIME" => c.payload.kind = "time"
  BY FrameSent
<1>3. CASE k \in TokenCommands
  <2>1. RawOf(c) = hexToBytes(c.token) /\ k \notin FrameReads
    BY <1>3 DEF RawOf, FrameReads, TokenCommands, GenerateTokenTypes
  <2> QED
    BY <1>1, <1>3, <2>1, HexToBytesOf
<1>4. CASE k \in FrameReads
  <2>1. k \notin TokenCommands /\ k \notin {"TURN_ON", "TURN_OFF", "SET_DATE", "SET_TIME"}
    BY <1>4 DEF FrameReads, TokenCommands, GenerateTokenTypes
  <2>2. RawOf(c) = <<>>
    BY <2>1 DEF RawOf
  <2> QED
    BY <2>2
<1>5. CASE k \in {"TURN_ON", "TURN_OFF", "SET_DATE", "SET_TIME"}
  <2>1. k \notin TokenCommands /\ k \notin FrameReads
    BY <1>5 DEF FrameReads, TokenCommands, GenerateTokenTypes
  <2>2. /\ k = "TURN_ON" => RawOf(c) = <<150>>
        /\ k = "TURN_OFF" => RawOf(c) = <<53>>
        /\ k = "SET_DATE" => RawOf(c) = encodeDateBytes(c.payload)
        /\ k = "SET_TIME" => RawOf(c) = encodeTimeBytes(c.payload)
    BY <2>1 DEF RawOf
  <2>3. /\ <<150>> \in Seq(Bytes) /\ <<53>> \in Seq(Bytes) /\ Len(<<150>>) <= 4 /\ Len(<<53>>) <= 4
    BY DEF Bytes
  <2>4. k = "SET_DATE" => encodeDateBytes(c.payload) \in Seq(Bytes) /\ Len(encodeDateBytes(c.payload)) = 4
    BY <1>1, <1>2, DateBytes, DateHeard
  <2>5. k = "SET_TIME" => encodeTimeBytes(c.payload) \in Seq(Bytes) /\ Len(encodeTimeBytes(c.payload)) = 3
    BY <1>1, <1>2, TimeBytes, TimeHeard
  <2> DEFINE y == RawOf(c)
  <2>6. y \in Seq(Bytes) /\ Len(y) <= 4
    <3> HIDE DEF y
    <3>1. 3 <= 4 /\ 4 <= 4
      OBVIOUS
    <3>2. CASE k = "TURN_ON"
      BY <2>2, <2>3, <3>2, Zenon DEF y
    <3>3. CASE k = "TURN_OFF"
      BY <2>2, <2>3, <3>3, Zenon DEF y
    <3>4. CASE k = "SET_DATE"
      BY <2>2, <2>4, <3>1, <3>4, Zenon DEF y
    <3>5. CASE k = "SET_TIME"
      BY <2>2, <2>5, <3>1, <3>5, Zenon DEF y
    <3> QED
      BY <1>5, <3>2, <3>3, <3>4, <3>5
  <2> QED
    BY <1>5, <2>1, <2>6
<1> QED
  BY <1>1, <1>3, <1>4, <1>5

\* The size byte counts the data and its identifier, as long as it can.
LEMMA SizeFits ==
  ASSUME NEW c, Framed(c), FitsFrame(c)
  PROVE  2 + Len(DataOf(CodeOf(c), RawOf(c))) < 256
<1> DEFINE n == Len(RawOf(c))
           data == DataOf(CodeOf(c), RawOf(c))
<1>1. RawOf(c) \in Seq(Bytes) /\ (c.commandType \notin TokenCommands => n <= 4)
  BY RawTyped
<1>2. CodeOf(c) \in {0, 1, 4} /\ (c.commandType \in TokenCommands => CodeOf(c) = 0)
  BY FramedCommands, CodeOfCommand
<1>3. CodeOf(c) \in Bytes
  BY <1>2 DEF Bytes
<1>4. Len(data) = (IF CodeOf(c) = 4 THEN 4 ELSE 0) + n
  BY <1>1, <1>3, DataLayout
<1>5. n \in Nat
  BY <1>1
<1> HIDE DEF data
<1>6. CASE c.commandType \in TokenCommands
  <2>1. RawOf(c) = hexToBytes(c.token) /\ IsHex(c.token) /\ c.token \in Strings
    BY <1>6, FrameSent DEF RawOf, Framed, isCreate
  <2>2. Len(c.token) = 2 * n
    BY <2>1, DigitsOf
  <2>3. Len(c.token) <= 506
    BY <1>6 DEF FitsFrame
  <2> HIDE DEF n
  <2> QED
    BY <1>2, <1>4, <1>5, <1>6, <2>2, <2>3 DEF data
<1>7. CASE c.commandType \notin TokenCommands
  <2> HIDE DEF n
  <2> QED
    BY <1>1, <1>4, <1>5, <1>7 DEF data
<1> QED
  BY <1>6, <1>7

\* The digits of a token as the meter hears them.
LEMMA TokenHeard ==
  ASSUME NEW token \in Strings, IsHex(token), NEW data, data = hexToBytes(token)
  PROVE  token = [i \in 1..(2 * Len(data)) |->
                    IF i % 2 = 1 THEN data[(i + 1) \div 2] \div 16 ELSE data[i \div 2] % 16]
<1> DEFINE f == [i \in 1..(2 * Len(data)) |->
                    IF i % 2 = 1 THEN data[(i + 1) \div 2] \div 16 ELSE data[i \div 2] % 16]
<1>1. /\ Len(token) = 2 * Len(data) /\ Len(data) \in Nat
      /\ \A i \in 1..Len(data) : data[i] \div 16 = token[2 * i - 1] /\ data[i] % 16 = token[2 * i]
  <2>1. data \in Seq(Bytes)
    BY HexToBytesOf
  <2>2. Len(data) \in Nat
    BY <2>1
  <2> QED
    BY <2>2, DigitsOf
<1> DEFINE n == Len(data)
<1>2. token = [i \in 1..(2 * n) |-> token[i]]
  BY <1>1 DEF Strings
<1> HIDE DEF n
<1>3. ASSUME NEW i \in 1..(2 * n)
      PROVE  token[i] = IF i % 2 = 1 THEN data[(i + 1) \div 2] \div 16 ELSE data[i \div 2] % 16
  <2>1. n \in Nat
    BY <1>1 DEF n
  <2>2. CASE i % 2 = 1
    <3>1. (i + 1) \div 2 \in 1..n /\ 2 * ((i + 1) \div 2) - 1 = i
      BY <2>1, <2>2
    <3> QED
      BY <1>1, <2>2, <3>1 DEF n
  <2>3. CASE i % 2 # 1
    <3>1. i \div 2 \in 1..n /\ 2 * (i \div 2) = i
      BY <2>1, <2>3
    <3> QED
      BY <1>1, <2>3, <3>1 DEF n
  <2> QED
    BY <2>2, <2>3
<1> QED
  BY <1>2, <1>3 DEF n

\* A frame that leaves for a command says what the caller asked.
LEMMA FrameMeans ==
  ASSUME NEW c, Framed(c), NEW b, b = chirpstackSendOne(c).bytes
  PROVE  /\ FrameAsAsked(c, b)
         /\ MeterHears(b).item
               = Item(Subject(c.commandType),
                      IF c.commandType \in {"READ_VOLTAGE", "READ_POWER", "READ_CURRENT"}
                      THEN framePhase(c) ELSE "-")
         /\ b # encodeDlms
<1> DEFINE k == c.commandType
           a == MeterAddress(c)
           code == CodeOf(c)
           x == RawOf(c)
           data == DataOf(code, x)
           heard == MeterHears(b)
<1>1. /\ k \in FrameReads \cup {"TURN_ON", "TURN_OFF", "SET_DATE", "SET_TIME"} \cup TokenCommands
      /\ c.token \in Strings /\ isPayload(c.payload) /\ isCreate(c)
  BY FramedCommands DEF Framed, isCreate
<1>2. /\ a \in Seq(Bytes) /\ Len(a) = 6
      /\ k \in TokenCommands => IsHex(c.token)
      /\ k = "SET_DATE" => c.payload.kind = "date"
      /\ k = "SET_TIME" => c.payload.kind = "time"
  BY FrameSent
<1>3. PICK hi, lo \in Bytes :
          /\ DiOf(c) = <<hi, lo>>
          /\ FrameItem(lo + hi * 256)
                = Item(Subject(k), IF k \in {"READ_VOLTAGE", "READ_POWER", "READ_CURRENT"}
                                   THEN framePhase(c) ELSE "-")
  BY DiItem
<1>4. b = Frame(Reverse(a), code, <<hi, lo>>, DataOf(code, x))
  <2>1. chirpstackSendOne(c) = [kind |-> "frame", bytes |-> Frame(Reverse(a), code, <<hi, lo>>, DataOf(code, x))]
    BY <1>3, FrameSent, Zenon
  <2> HIDE DEF a, code, x
  <2> QED
    BY <2>1
<1>5. x \in Seq(Bytes) /\ code \in {0, 1, 4} /\ code \in Bytes
  BY <1>1, CodeOfCommand, RawTyped DEF Bytes
<1> HIDE DEF a, code, x
<1>6. /\ heard.address = a /\ heard.path = code
      /\ heard.item = FrameItem(lo + hi * 256)
      /\ heard.data = IF code = 4 THEN Apply(fromBcd, x) ELSE x
      /\ b \in Seq(Bytes) /\ checksumHolds(b) /\ b[1] = HEADER_BYTE
      /\ Len(b) = 14 + Len(data) /\ At(b, 9) = (2 + Len(data)) % 256
  BY <1>2, <1>4, <1>5, MeterHearsOf
<1> HIDE DEF heard
<1>7. b # encodeDlms
  <2>1. encodeDlms[1] = 0
    BY DEF encodeDlms
  <2> QED
    BY <1>6, <2>1 DEF HEADER_BYTE
<1>8. FitsFrame(c) => Len(b) = 12 + At(b, 9)
  <2> SUFFICES ASSUME FitsFrame(c) PROVE Len(b) = 12 + At(b, 9)
    OBVIOUS
  <2>1. 2 + Len(data) < 256
    BY SizeFits DEF code, x
  <2>2. data \in Seq(Bytes)
    BY <1>5, DataLayout
  <2>3. Len(data) \in Nat
    BY <2>2
  <2> DEFINE n == Len(data)
  <2> HIDE DEF data
  <2>4. 2 + n \in 0..255 /\ n \in Nat
    <3>1. n \in Nat /\ 2 + n < 256
      BY <2>1, <2>3 DEF data
    <3> HIDE DEF n
    <3> QED
      BY <3>1
  <2> HIDE DEF n
  <2>5. (2 + n) % 256 = 2 + n
    BY <2>4, ModOnce
  <2>6. Len(b) = 14 + n /\ At(b, 9) = 2 + n
    BY <1>6, <2>5 DEF n
  <2> QED
    BY <2>4, <2>6
<1>9. \A i \in 1..6 : <<heard.address[i] \div 16, heard.address[i] % 16>>
                         = SubSeq(padStart(c.reference, 12), 2 * i - 1, 2 * i)
  BY <1>1, <1>2, <1>6, AddressDigits, Zenon DEF a
<1>10. heard.path = [READ |-> 1, CONTROL |-> 4, WRITE |-> 4, TOKEN |-> 0][taskType(k)]
  BY <1>6 DEF code, CodeOf
<1>11. k \in TokenCommands =>
          c.token = [i \in 1..(2 * Len(heard.data)) |->
                        IF i % 2 = 1 THEN heard.data[(i + 1) \div 2] \div 16
                        ELSE heard.data[i \div 2] % 16]
  <2> SUFFICES ASSUME k \in TokenCommands
               PROVE  c.token = [i \in 1..(2 * Len(heard.data)) |->
                                    IF i % 2 = 1 THEN heard.data[(i + 1) \div 2] \div 16
                                    ELSE heard.data[i \div 2] % 16]
    OBVIOUS
  <2>1. code = 0 /\ x = hexToBytes(c.token)
    BY CodeOfCommand DEF code, x, RawOf
  <2>2. heard.data = hexToBytes(c.token)
    BY <1>6, <2>1
  <2> QED
    BY <1>1, <1>2, <2>2, TokenHeard
<1>12. k \in {"SET_DATE", "SET_TIME"} => code = 4 /\ heard.data = Apply(fromBcd, x)
  BY <1>6, CodeOfCommand DEF code
<1>13. k = "SET_DATE" =>
          DateAsAsked(c.payload, heard.data[1], heard.data[2], heard.data[3], heard.data[4])
  <2>1. k = "SET_DATE" => x = encodeDateBytes(c.payload)
    BY DEF x, RawOf, TokenCommands, GenerateTokenTypes
  <2> QED
    BY <1>1, <1>2, <1>12, <2>1, DateHeard
<1>14. k = "SET_TIME" => heard.data = <<c.payload.hour, c.payload.minute, c.payload.second>>
  <2>1. k = "SET_TIME" => x = encodeTimeBytes(c.payload)
    BY DEF x, RawOf, TokenCommands, GenerateTokenTypes
  <2> QED
    BY <1>1, <1>2, <1>12, <2>1, TimeHeard
<1>15. FrameAsAsked(c, b)
  BY <1>6, <1>8, <1>9, <1>10, <1>11, <1>13, <1>14, Zenon DEF FrameAsAsked, heard, Bytes
<1> QED
  BY <1>3, <1>6, <1>7, <1>15 DEF heard

-----------------------------------------------------------------------------
(* What a minted token says *)

\* A mint request of a vendor, or of nxt-sts by the key: its operation is that of the
\* type asked for, and no other type has it.
LEMMA PathOf ==
  ASSUME NEW type \in GenerateTokenTypes, NEW path, path \in {V1mintPath[type], V2mintPath[type], type}
  PROVE  (CHOOSE t \in GenerateTokenTypes : path \in {V1mintPath[t], V2mintPath[t], t}) = type
<1>1. ASSUME NEW t \in GenerateTokenTypes, path \in {V1mintPath[t], V2mintPath[t], t} PROVE t = type
  BY <1>1 DEF GenerateTokenTypes, V1mintPath, V2mintPath
<1> QED
  BY <1>1

LEMMA GeneratedOf ==
  ASSUME NEW p \in TokenPlugins, NEW id, NEW r, isMint(r), generate(p, id, r) # None
  PROVE  LET request == generate(p, id, r)
         IN  /\ request.path \in {V1mintPath[r.type], V2mintPath[r.type], r.type}
             /\ request.amount = r.amount
             /\ \/ request.meter = id
                \/ request.meter = trimmed(r.decoderKey) /\ assertDecoderKey(r.decoderKey)
<1> DEFINE request == generate(p, id, r)
<1>1. r.type \notin {"TOP_UP_KWH", "SET_POWER_LIMIT"} => r.amount = 0
  BY DEF isMint
<1>2. CASE p = "calin-api-v1"
  <2>1. request = CalinMint(V1mintPath, id, r)
    BY <1>2 DEF generate
  <2> QED
    BY <1>1, <2>1 DEF CalinMint, MintRequest
<1>3. CASE p = "calin-api-v2"
  <2>1. request = CalinMint(V2mintPath, id, r)
    BY <1>3 DEF generate
  <2> QED
    BY <1>1, <2>1 DEF CalinMint, MintRequest
<1>4. CASE p = "nxt-sts"
  <2>1. /\ request = MintRequest(r.type, trimmed(r.decoderKey), r.amount)
        /\ assertDecoderKey(r.decoderKey)
    BY <1>4 DEF generate, nxtStsMint
  <2> QED
    BY <2>1 DEF MintRequest
<1> QED
  BY <1>2, <1>3, <1>4 DEF TokenPlugins

\* A decoder key stripped of its blanks is the one run of characters in it.
LEMMA KeyUnblanked ==
  ASSUME NEW key \in Strings, assertDecoderKey(key)
  PROVE  trimmed(key) \in Unblanked(key) /\ trimmed(key) \in Strings /\ Len(trimmed(key)) = 16
<1> DEFINE kept == {i \in DOMAIN key : key[i] # Blank}
           t == trimmed(key)
<1>1. Len(key) \in Nat /\ DOMAIN key = 1..Len(key) /\ \A i \in 1..Len(key) : key[i] \in 0..17
  BY DEF Strings
<1>2. t \in Strings /\ Len(t) = 16 /\ \A i \in 1..16 : t[i] < 16
  <2>1. t \in Strings
    BY TrimmedOf
  <2> HIDE DEF t
  <2>2. DOMAIN t = 1..Len(t)
    BY <2>1 DEF Strings
  <2>3. Len(t) = 16 /\ \A i \in DOMAIN t : t[i] < 16
    BY DEF assertDecoderKey, t
  <2> QED
    BY <2>1, <2>2, <2>3
<1>3. kept # {}
  <2>1. kept = {} => t = <<>>
    BY DEF trimmed
  <2>2. t # <<>>
    <3> HIDE DEF t
    <3> QED
      BY <1>2
  <2> QED
    BY <2>1, <2>2
<1> DEFINE lo == Min(kept)
           hi == Max(kept)
<1>4. t = SubSeq(key, lo, hi)
  BY <1>3 DEF trimmed
<1>5. kept \subseteq 1..Len(key)
  BY <1>1
<1> HIDE DEF kept, t
<1>6. lo \in kept /\ hi \in kept /\ \A y \in kept : lo <= y /\ y <= hi
  BY <1>1, <1>3, <1>5, ExtremesOf
<1>7. lo \in 1..Len(key) /\ hi \in 1..Len(key) /\ lo <= hi
  BY <1>5, <1>6
<1> HIDE DEF lo, hi
<1>8. /\ Len(t) = hi - lo + 1 /\ \A i \in 1..(hi - lo + 1) : t[i] = key[lo + i - 1]
  <2>1. \A i \in lo..hi : key[i] \in 0..17
    BY <1>1, <1>7
  <2> QED
    BY <1>1, <1>4, <1>7, <2>1, SubSeqProperties
<1>9. \A j \in lo..hi : j \in kept
  <2> TAKE j \in lo..hi
  <2>1. j \in 1..Len(key) /\ j - lo + 1 \in 1..(hi - lo + 1) /\ lo + (j - lo + 1) - 1 = j
    BY <1>1, <1>7
  <2>2. t[j - lo + 1] = key[j] /\ j - lo + 1 \in 1..16
    BY <1>2, <1>8, <2>1
  <2>3. key[j] < 16
    BY <1>2, <2>2
  <2> QED
    BY <1>1, <2>1, <2>3 DEF kept, Blank
<1>10. kept = lo..hi
  <2>1. \A y \in kept : y \in lo..hi
    BY <1>5, <1>6, <1>7
  <2> QED
    BY <1>9, <2>1
<1>11. <<lo, hi>> \in (DOMAIN key) \X (DOMAIN key)
  BY <1>1, <1>7
<1>12. t \in Unblanked(key)
  <2>1. {i \in DOMAIN key : key[i] # Blank} = <<lo, hi>>[1]..<<lo, hi>>[2]
        /\ t = SubSeq(key, <<lo, hi>>[1], <<lo, hi>>[2])
    BY <1>4, <1>10 DEF kept
  <2> DEFINE e == <<lo, hi>>
  <2> HIDE DEF e
  <2>2. e \in {d \in (DOMAIN key) \X (DOMAIN key) : {i \in DOMAIN key : key[i] # Blank} = d[1]..d[2]}
    BY <1>11, <2>1, Zenon DEF e
  <2> QED
    BY <2>1, <2>2, Zenon DEF Unblanked, e
<1> QED
  BY <1>2, <1>12 DEF t

\* The digits of a voucher: its kind, its amount, and whom it is for.
LEMMA VoucherDigits ==
  ASSUME NEW type \in GenerateTokenTypes, NEW request,
         request.path \in {V1mintPath[type], V2mintPath[type], type},
         request.amount \in 0..9, request.meter \in Strings
  PROVE  LET token == Voucher(request)
         IN  /\ token[1] = TokenClass[type] /\ token[2] = request.amount
             /\ IsPrefix(request.meter, SubSeq(token, 3, Len(token)))
<1> DEFINE token == Voucher(request)
           head == <<TokenClass[type], request.amount>>
           pad  == IF Len(request.meter) % 2 = 0 THEN <<>> ELSE <<0>>
           m == request.meter
           s == head \o m
           u == s \o pad
<1>1. token = u
  <2>1. (CHOOSE t \in GenerateTokenTypes : request.path \in {V1mintPath[t], V2mintPath[t], t}) = type
    BY PathOf
  <2> QED
    BY <2>1 DEF Voucher
<1>2. /\ head \in Seq(0..17) /\ Len(head) = 2 /\ head[1] = TokenClass[type] /\ head[2] = request.amount
      /\ pad \in Seq(0..17)
  <2>1. TokenClass[type] \in 0..17 /\ request.amount \in 0..17
    BY DEF TokenClass, GenerateTokenTypes
  <2>2. pad \in {<<>>, <<0>>} /\ <<>> \in Seq(0..17) /\ <<0>> \in Seq(0..17)
    OBVIOUS
  <2>3. pad \in Seq(0..17)
    BY <2>2
  <2>4. \A a, b \in 0..17 : <<a, b>> \in Seq(0..17) /\ Len(<<a, b>>) = 2 /\ <<a, b>>[1] = a /\ <<a, b>>[2] = b
    OBVIOUS
  <2> HIDE DEF pad
  <2> QED
    BY <2>1, <2>3, <2>4
<1> HIDE DEF head, pad
<1>3. /\ s \in Seq(0..17) /\ Len(s) = Len(head) + Len(m)
      /\ \A i \in 1..Len(head) : s[i] = head[i]
      /\ \A i \in 1..Len(m) : s[Len(head) + i] = m[i]
  <2>1. m \in Seq(0..17)
    BY DEF Strings
  <2> HIDE DEF m
  <2>2. Joins(0..17, s, head, m)
    BY <1>2, <2>1, JoinsOf
  <2> QED
    BY <2>2, Zenon DEF Joins
<1> HIDE DEF s
<1>4. /\ u \in Seq(0..17) /\ Len(u) = Len(s) + Len(pad)
      /\ \A i \in 1..Len(s) : u[i] = s[i]
  <2>1. Joins(0..17, u, s, pad)
    BY <1>2, <1>3, JoinsOf
  <2> QED
    BY <2>1, Zenon DEF Joins
<1> HIDE DEF u
<1>5. Len(m) \in Nat /\ Len(pad) \in Nat /\ m \in Seq(0..17)
  BY <1>2 DEF Strings
<1> HIDE DEF m
<1>6. /\ Len(u) = 2 + Len(m) + Len(pad) /\ u[1] = head[1] /\ u[2] = head[2]
      /\ \A i \in 1..Len(m) : u[2 + i] = m[i]
  <2>1. Len(s) = 2 + Len(m)
    BY <1>2, <1>3
  <2>2. \A i \in 1..Len(m) : s[2 + i] = m[i] /\ 2 + i \in 1..Len(s)
    BY <1>2, <1>3, <1>5, <2>1
  <2>3. 1 \in 1..Len(s) /\ 2 \in 1..Len(s) /\ 1 \in 1..Len(head) /\ 2 \in 1..Len(head)
    BY <1>2, <1>5, <2>1
  <2> QED
    <3>1. Len(u) = 2 + Len(m) + Len(pad)
      BY <1>4, <2>1
    <3>2. u[1] = head[1] /\ u[2] = head[2]
      <4>1. u[1] = s[1] /\ u[2] = s[2]
        BY <1>4, <2>3
      <4>2. s[1] = head[1] /\ s[2] = head[2]
        BY <1>3, <2>3
      <4> QED
        BY <4>1, <4>2
    <3>3. \A i \in 1..Len(m) : u[2 + i] = m[i]
      BY <1>4, <2>2, Zenon
    <3> QED
      BY <3>1, <3>2, <3>3
<1> DEFINE rest == SubSeq(u, 3, Len(u))
<1>7. /\ rest \in Seq(0..17) /\ Len(rest) = Len(m) + Len(pad)
      /\ \A i \in 1..Len(m) : rest[i] = m[i]
  <2>1. Len(u) \in Nat /\ Len(u) - 3 + 1 = Len(m) + Len(pad) /\ 3 \in Int
    BY <1>5, <1>6
  <2>2. \A i \in 3..Len(u) : u[i] \in 0..17
    BY <1>4, <2>1
  <2>3. /\ rest \in Seq(0..17) /\ Len(rest) = IF 3 <= Len(u) THEN Len(u) - 3 + 1 ELSE 0
        /\ \A i \in 1..(Len(u) - 3 + 1) : rest[i] = u[3 + i - 1]
    BY <2>1, <2>2, SubSeqProperties
  <2> HIDE DEF rest
  <2>4. Len(rest) = Len(m) + Len(pad)
    BY <1>5, <2>1, <2>3
  <2>5. \A i \in 1..Len(m) : i \in 1..(Len(m) + Len(pad)) /\ 3 + i - 1 = 2 + i
    BY <1>5
  <2> QED
    BY <1>6, <2>1, <2>3, <2>4, <2>5
<1> HIDE DEF rest
<1>8. IsPrefix(m, rest)
  <2> DEFINE a == SubSeq(m, 1, Len(m))
             b == SubSeq(rest, 1, Len(m))
  <2>1. Len(m) <= Len(rest)
    BY <1>5, <1>7
  <2>2. Len(m) - 1 + 1 = Len(m) /\ Len(m) \in Int /\ 1 \in Int /\ (1 <= Len(m) \/ Len(m) = 0)
        /\ \A i \in 1..Len(m) : 1 + i - 1 = i
    BY <1>5
  <2>3. \A i \in 1..Len(m) : m[i] \in 0..17 /\ rest[i] \in 0..17
    BY <1>5, <1>7
  <2>4. a \in Seq(0..17) /\ Len(a) = Len(m) /\ \A i \in 1..Len(m) : a[i] = m[i]
    BY <2>2, <2>3, SubSeqProperties, SMTT(30)
  <2>5. b \in Seq(0..17) /\ Len(b) = Len(m) /\ \A i \in 1..Len(m) : b[i] = rest[i]
    BY <2>2, <2>3, SubSeqProperties
  <2> HIDE DEF a, b
  <2>6. a = b
    BY <1>7, <2>4, <2>5, SeqEqual
  <2> QED
    BY <2>1, <2>6 DEF IsPrefix, a, b
<1> QED
  BY <1>1, <1>2, <1>6, <1>8 DEF rest, m

\* A token this service minted for a command says what was asked for.
LEMMA MintedToken ==
  ASSUME NEW p \in TokenPlugins, NEW c, isCreate(c), NEW r, isMint(r), r.amount \in 0..9,
         r.type = c.commandType, generate(p, c.reference, r) # None,
         c.token = Voucher(generate(p, c.reference, r))
  PROVE  TokenAsAsked(c, r)
<1> DEFINE request == generate(p, c.reference, r)
           type == c.commandType
           m == request.meter
<1>1. r.decoderKey \in Strings /\ type \in GenerateTokenTypes /\ c.reference \in Strings /\ c.reference # <<>>
  BY DEF isMint, isCreate
<1>2. /\ request.path \in {V1mintPath[type], V2mintPath[type], type}
      /\ request.amount = r.amount
      /\ \/ m = c.reference
         \/ m = trimmed(r.decoderKey) /\ assertDecoderKey(r.decoderKey)
  BY GeneratedOf
<1> HIDE DEF request
<1>3. m \in {c.reference} \cup Unblanked(r.decoderKey) /\ m \in Strings /\ Len(m) > 0
  <2>1. CASE m = c.reference
    <3>1. Len(c.reference) > 0
      BY <1>1, EmptySeq DEF Strings
    <3> QED
      BY <1>1, <2>1, <3>1
  <2>2. CASE m = trimmed(r.decoderKey) /\ assertDecoderKey(r.decoderKey)
    <3>1. trimmed(r.decoderKey) \in Unblanked(r.decoderKey) /\ trimmed(r.decoderKey) \in Strings
          /\ Len(trimmed(r.decoderKey)) = 16
      BY <1>1, <2>2, KeyUnblanked
    <3>2. 16 > 0
      OBVIOUS
    <3> QED
      BY <2>2, <3>1, <3>2
  <2> QED
    BY <1>2, <2>1, <2>2
<1>4. LET token == Voucher(request)
      IN  /\ token[1] = TokenClass[type] /\ token[2] = request.amount
          /\ IsPrefix(m, SubSeq(token, 3, Len(token)))
  BY <1>1, <1>2, <1>3, VoucherDigits
<1>5. c.token = Voucher(request)
  BY DEF request
<1> HIDE DEF m
<1> QED
  BY <1>2, <1>3, <1>4, <1>5 DEF TokenAsAsked, m

-----------------------------------------------------------------------------
(* What a task says to the vendor *)

\* The date of a task, as CommandAsAsked reads it.
TaskDate(p, data) ==
    DateAsAsked(p, data.year % 100, data.month, data.day,
                IF "weekday" \in DOMAIN data THEN data.weekday
                ELSE CountedWeekday(data.year, data.month, data.day))

TaskAsAsked(c, task, item) ==
    /\ task.kind = "task"
    /\ item.what = Subject(c.commandType)
    /\ c.commandType = "SET_DATE" => TaskDate(c.payload, task.data)
    /\ c.commandType \in TokenCommands => task.data.token = c.token

LEMMA SubjectOf ==
  ASSUME NEW k
  PROVE  /\ k \in TokenCommands => Subject(k) = "token"
         /\ k = "READ_VOLTAGE" => Subject(k) = "voltage"
         /\ k = "READ_CURRENT" => Subject(k) = "current"
         /\ k = "READ_POWER" => Subject(k) = "power"
         /\ k = "READ_CREDIT" => Subject(k) = "credit"
         /\ k = "READ_POWER_LIMIT" => Subject(k) = "powerLimit"
         /\ k = "READ_VERSION" => Subject(k) = "version"
         /\ k \in {"READ_DATE", "SET_DATE"} => Subject(k) = "date"
         /\ k \in {"READ_TIME", "SET_TIME"} => Subject(k) = "time"
         /\ k = "TURN_ON" => Subject(k) = "TURN_ON"
         /\ k = "TURN_OFF" => Subject(k) = "TURN_OFF"
<1>1. k \in TokenCommands => Subject(k) = "token"
  BY DEF Subject
<1>2. k \in {"READ_VOLTAGE", "READ_CURRENT", "READ_POWER", "READ_CREDIT", "READ_POWER_LIMIT", "READ_VERSION",
             "READ_DATE", "SET_DATE", "READ_TIME", "SET_TIME", "TURN_ON", "TURN_OFF"} => k \notin TokenCommands
  BY DEF TokenCommands, GenerateTokenTypes
<1> QED
  BY <1>1, <1>2 DEF Subject

\* The phases a command accepts an answer for.
LEMMA RequestedOf ==
  ASSUME NEW c, isCreate(c)
  PROVE  c.phase \in Requested(c) /\ framePhase(c) \in Requested(c)
  BY DEF Requested, framePhase

LEMMA ModTwice == \A x \in Nat : (x % 100) % 100 = x % 100
<1>1. \A y \in 0..99 : y % 100 = y
  OBVIOUS
<1>2. \A x \in Nat : x % 100 \in 0..99
  OBVIOUS
<1> QED
  BY <1>1, <1>2

LEMMA TaskDates ==
  ASSUME NEW p, isPayload(p), p.kind = "date"
  PROVE  TaskDate(p, V1formatDate(p)) /\ TaskDate(p, V2formatDate(p))
<1> DEFINE y == fullYear(p.year)
           w == CountedWeekday(y, p.month, p.day)
<1>1. y \in Nat /\ (y % 100) % 100 = y % 100
  BY DateParts, ModTwice
<1>2. ThisCentury(y) => Weekday(y, p.month, p.day) = w
  BY DateCounted DEF weekdayOf
<1>3. TaskDate(p, V1formatDate(p))
  <2>1. TaskDate(p, V1formatDate(p))
           <=> DateAsAsked(p, (y % 100) % 100, p.month, p.day, Weekday(y, p.month, p.day))
    BY DEF TaskDate, V1formatDate
  <2> HIDE DEF w
  <2>2. DateAsAsked(p, y % 100, p.month, p.day, Weekday(y, p.month, p.day))
    BY <1>2, SMT DEF DateAsAsked, ThisCentury, w
  <2> QED
    BY <1>1, <2>1, <2>2, Zenon
<1>4. TaskDate(p, V2formatDate(p))
  <2>1. TaskDate(p, V2formatDate(p)) <=> DateAsAsked(p, y % 100, p.month, p.day, w)
    BY DEF TaskDate, V2formatDate
  <2> HIDE DEF w
  <2>2. DateAsAsked(p, y % 100, p.month, p.day, w)
    BY SMT DEF DateAsAsked, w
  <2> QED
    BY <2>1, <2>2
<1> QED
  BY <1>3, <1>4

\* The vendor's name or id for each item, and what it stands for.
LEMMA V1Names ==
  /\ V1Item("Power") = Item("power", "-") /\ V1Item("Version") = Item("version", "-")
  /\ V1Item("Current Credit Register") = Item("credit", "-")
  /\ V1Item("Maximum power threshold") = Item("powerLimit", "-")
  /\ V1Item("Date") = Item("date", "-") /\ V1Item("Token") = Item("token", "-")
  /\ V1Item("Switch On") = Item("TURN_ON", "-") /\ V1Item("Switch Off") = Item("TURN_OFF", "-")
<1>1. V1Item("Power") = Item("power", "-") /\ V1Item("Version") = Item("version", "-")
  BY DEF V1Item
<1>2. V1Item("Current Credit Register") = Item("credit", "-")
  BY DEF V1Item
<1>3. V1Item("Maximum power threshold") = Item("powerLimit", "-")
  BY DEF V1Item
<1>4. V1Item("Date") = Item("date", "-") /\ V1Item("Token") = Item("token", "-")
  BY DEF V1Item
<1>5. V1Item("Switch On") = Item("TURN_ON", "-")
  BY DEF V1Item
<1>6. V1Item("Switch Off") = Item("TURN_OFF", "-")
  BY DEF V1Item
<1> QED
  BY <1>1, <1>2, <1>3, <1>4, <1>5, <1>6

LEMMA V1PhaseNames ==
  /\ V1Item("Voltage") = Item("voltage", "none") /\ V1Item("VoltageA") = Item("voltage", "A")
  /\ V1Item("VoltageB") = Item("voltage", "B") /\ V1Item("VoltageC") = Item("voltage", "C")
  /\ V1Item("Current") = Item("current", "none") /\ V1Item("CurrentA") = Item("current", "A")
  /\ V1Item("CurrentB") = Item("current", "B") /\ V1Item("CurrentC") = Item("current", "C")
<1>1. V1Item("Voltage") = Item("voltage", "none") /\ V1Item("VoltageA") = Item("voltage", "A")
  BY DEF V1Item
<1>2. V1Item("VoltageB") = Item("voltage", "B") /\ V1Item("VoltageC") = Item("voltage", "C")
  BY DEF V1Item
<1>3. V1Item("Current") = Item("current", "none") /\ V1Item("CurrentA") = Item("current", "A")
  BY DEF V1Item
<1>4. V1Item("CurrentB") = Item("current", "B") /\ V1Item("CurrentC") = Item("current", "C")
  BY DEF V1Item
<1> QED
  BY <1>1, <1>2, <1>3, <1>4

\* The data items of V1's tasks.
V1Items == {"Power", "Version", "Current Credit Register", "Maximum power threshold", "Date", "Token",
            "Switch On", "Switch Off", "Voltage", "VoltageA", "VoltageB", "VoltageC",
            "Current", "CurrentA", "CurrentB", "CurrentC"}

\* A read of a voltage or a current names the phase, or no phase.
LEMMA V1PhaseReads ==
  ASSUME NEW phase \in {"none", "A", "B", "C"}
  PROVE  /\ V1Item(V1getReadDataItem("READ_VOLTAGE", phase)) = Item("voltage", phase)
         /\ V1Item(V1getReadDataItem("READ_CURRENT", phase)) = Item("current", phase)
         /\ {V1getReadDataItem("READ_VOLTAGE", phase), V1getReadDataItem("READ_CURRENT", phase)} \subseteq V1Items
<1>1. "READ_VOLTAGE" \in PhaseSpecificReads /\ "READ_CURRENT" \in PhaseSpecificReads
  BY DEF PhaseSpecificReads
<1>2. CASE phase = "none"
  <2>1. /\ V1getReadDataItem("READ_VOLTAGE", phase) = "Voltage"
        /\ V1getReadDataItem("READ_CURRENT", phase) = "Current"
    BY <1>2 DEF V1getReadDataItem, V1ReadMap
  <2> QED
    BY <1>2, <2>1, V1PhaseNames DEF V1Items
<1>3. CASE phase # "none"
  <2>1. /\ V1getReadDataItem("READ_VOLTAGE", phase) = V1PhaseReadMap["READ_VOLTAGE"][phase]
        /\ V1getReadDataItem("READ_CURRENT", phase) = V1PhaseReadMap["READ_CURRENT"][phase]
    BY <1>1, <1>3 DEF V1getReadDataItem
  <2>2. /\ V1PhaseReadMap["READ_VOLTAGE"] = [A |-> "VoltageA", B |-> "VoltageB", C |-> "VoltageC"]
        /\ V1PhaseReadMap["READ_CURRENT"] = [A |-> "CurrentA", B |-> "CurrentB", C |-> "CurrentC"]
    BY DEF V1PhaseReadMap
  <2>a. CASE phase = "A"
    <3>1. /\ V1getReadDataItem("READ_VOLTAGE", phase) = "VoltageA"
          /\ V1getReadDataItem("READ_CURRENT", phase) = "CurrentA"
      BY <2>1, <2>2, <2>a
    <3> QED
      BY <2>a, <3>1, V1PhaseNames DEF V1Items
  <2>b. CASE phase = "B"
    <3>1. /\ V1getReadDataItem("READ_VOLTAGE", phase) = "VoltageB"
          /\ V1getReadDataItem("READ_CURRENT", phase) = "CurrentB"
      BY <2>1, <2>2, <2>b
    <3> QED
      BY <2>b, <3>1, V1PhaseNames DEF V1Items
  <2>c. CASE phase = "C"
    <3>1. /\ V1getReadDataItem("READ_VOLTAGE", phase) = "VoltageC"
          /\ V1getReadDataItem("READ_CURRENT", phase) = "CurrentC"
      BY <2>1, <2>2, <2>c
    <3> QED
      BY <2>c, <3>1, V1PhaseNames DEF V1Items
  <2> QED
    BY <1>3, <2>a, <2>b, <2>c
<1> QED
  BY <1>2, <1>3

LEMMA V1PlainReads ==
  ASSUME NEW phase
  PROVE  /\ V1getReadDataItem("READ_POWER", phase) = "Power"
         /\ V1getReadDataItem("READ_CREDIT", phase) = "Current Credit Register"
         /\ V1getReadDataItem("READ_POWER_LIMIT", phase) = "Maximum power threshold"
         /\ V1getReadDataItem("READ_VERSION", phase) = "Version"
         /\ V1getReadDataItem("READ_DATE", phase) = "Date"
<1>1. \A k \in {"READ_POWER", "READ_CREDIT", "READ_POWER_LIMIT", "READ_VERSION", "READ_DATE"} :
         k \notin PhaseSpecificReads /\ V1getReadDataItem(k, phase) = V1ReadMap[k]
  BY DEF PhaseSpecificReads, V1getReadDataItem
<1>2. /\ V1ReadMap["READ_POWER"] = "Power" /\ V1ReadMap["READ_CREDIT"] = "Current Credit Register"
      /\ V1ReadMap["READ_POWER_LIMIT"] = "Maximum power threshold"
      /\ V1ReadMap["READ_VERSION"] = "Version" /\ V1ReadMap["READ_DATE"] = "Date"
  BY DEF V1ReadMap
<1> QED
  BY <1>1, <1>2

LEMMA V2Ids ==
  /\ \A k \in HttpReads : V2Item(V2ReadMap[k]).what = Subject(k)
  /\ \A k \in {"TURN_ON", "TURN_OFF"} : V2Item(V2ControlMap[k]).what = Subject(k)
<1>1. /\ V2Item(39) = Item("credit", "-") /\ V2Item(5) = Item("voltage", "A")
      /\ V2Item(11) = Item("power", "-") /\ V2Item(8) = Item("current", "A")
  BY SMT DEF V2Item
<1>2. /\ V2Item(46) = Item("powerLimit", "-") /\ V2Item(45) = Item("version", "-")
      /\ V2Item(29) = Item("date", "-")
  BY SMT DEF V2Item
<1>3. V2Item(20000) = Item("TURN_ON", "-")
  BY SMT DEF V2Item
<1>4. V2Item(20001) = Item("TURN_OFF", "-")
  BY SMT DEF V2Item
<1>5. /\ V2ReadMap["READ_CREDIT"] = 39 /\ V2ReadMap["READ_VOLTAGE"] = 5 /\ V2ReadMap["READ_POWER"] = 11
      /\ V2ReadMap["READ_CURRENT"] = 8 /\ V2ReadMap["READ_POWER_LIMIT"] = 46
      /\ V2ReadMap["READ_VERSION"] = 45 /\ V2ReadMap["READ_DATE"] = 29
  BY SMT DEF V2ReadMap
<1>6. V2ControlMap["TURN_ON"] = 20000 /\ V2ControlMap["TURN_OFF"] = 20001
  BY SMT DEF V2ControlMap
<1>7. \A what, phase : Item(what, phase).what = what
  BY DEF Item
<1>8. /\ Subject("READ_CREDIT") = "credit" /\ Subject("READ_VOLTAGE") = "voltage"
      /\ Subject("READ_POWER") = "power" /\ Subject("READ_CURRENT") = "current"
      /\ Subject("READ_POWER_LIMIT") = "powerLimit" /\ Subject("READ_VERSION") = "version"
      /\ Subject("READ_DATE") = "date" /\ Subject("TURN_ON") = "TURN_ON" /\ Subject("TURN_OFF") = "TURN_OFF"
  BY SubjectOf
<1>9. /\ \A k \in {"READ_CREDIT", "READ_VOLTAGE", "READ_POWER", "READ_CURRENT"} :
            V2Item(V2ReadMap[k]).what = Subject(k)
      /\ \A k \in {"READ_POWER_LIMIT", "READ_VERSION", "READ_DATE"} : V2Item(V2ReadMap[k]).what = Subject(k)
  BY <1>1, <1>2, <1>5, <1>7, <1>8, SMT
<1>10. \A k \in {"TURN_ON", "TURN_OFF"} : V2Item(V2ControlMap[k]).what = Subject(k)
  BY <1>3, <1>4, <1>6, <1>7, <1>8, SMT
<1> QED
  BY <1>9, <1>10 DEF HttpReads

\* A task of an HTTP plugin for a command that can be sent.
LEMMA V1Means ==
  ASSUME NEW c, isCreate(c), c.commandType \in supportedCommandTypes["calin-api-v1"],
         NEW task, task = V1sendOne(c), task # None
  PROVE  /\ TaskAsAsked(c, task, V1Item(task.item))
         /\ V1Item(task.item).phase \in {c.phase, "-"}
         /\ task.item \in V1Items
<1> DEFINE k == c.commandType
<1>1. k \in HttpReads \cup {"TURN_ON", "TURN_OFF", "SET_DATE"} \cup TokenCommands
  BY HttpCommands DEF Plugins
<1>2. c.phase \in {"none", "A", "B", "C"} /\ isPayload(c.payload)
  BY DEF isCreate, PHASES
<1>3. \A path, item, data : LET t == Task(path, item, data)
                            IN  t.kind = "task" /\ t.path = path /\ t.item = item /\ t.data = data
  BY DEF Task
<1>d. /\ k \in HttpReads => k # "SET_DATE" /\ k \notin TokenCommands
      /\ k \in {"TURN_ON", "TURN_OFF"} => k # "SET_DATE" /\ k \notin TokenCommands
      /\ k = "SET_DATE" => k \notin TokenCommands
  BY DEF HttpReads, TokenCommands, GenerateTokenTypes
<1>4. CASE k \in HttpReads
  <2> DEFINE item == V1getReadDataItem(k, c.phase)
  <2>1. task.kind = "task" /\ task.item = item
    <3>1. task = Task("READ", V1getReadDataItem(k, c.phase), None)
      BY <1>4, V1Tasks
    <3> QED
      BY <3>1 DEF Task
  <2>2. (k = "READ_VOLTAGE" \/ k = "READ_CURRENT") => V1Item(item) = Item(Subject(k), c.phase)
    BY <1>2, V1PhaseReads, SubjectOf
  <2>3. k \in HttpReads \ {"READ_VOLTAGE", "READ_CURRENT"} => V1Item(item) = Item(Subject(k), "-")
    <3>1. /\ Subject("READ_POWER") = "power" /\ Subject("READ_CREDIT") = "credit"
          /\ Subject("READ_POWER_LIMIT") = "powerLimit" /\ Subject("READ_VERSION") = "version"
          /\ Subject("READ_DATE") = "date"
      BY SubjectOf
    <3>2. CASE k \in {"READ_POWER", "READ_CREDIT"}
      BY <3>1, <3>2, V1PlainReads, V1Names
    <3>3. CASE k \in {"READ_POWER_LIMIT", "READ_VERSION", "READ_DATE"}
      BY <3>1, <3>3, V1PlainReads, V1Names
    <3> QED
      BY <3>2, <3>3 DEF HttpReads
  <2>4. \E phase \in {c.phase, "-"} : V1Item(item) = Item(Subject(k), phase)
    <3> HIDE DEF item
    <3> QED
      BY <1>4, <2>2, <2>3
  <2>5. V1Item(item).what = Subject(k) /\ V1Item(item).phase \in {c.phase, "-"}
    BY <2>4 DEF Item
  <2>6. item \in V1Items
    <3>1. (k = "READ_VOLTAGE" \/ k = "READ_CURRENT") => item \in V1Items
      BY <1>2, V1PhaseReads
    <3>2. k \in HttpReads \ {"READ_VOLTAGE", "READ_CURRENT"} => item \in V1Items
      BY V1PlainReads DEF HttpReads, V1Items
    <3> QED
      BY <1>4, <3>1, <3>2
  <2> QED
    BY <1>4, <1>d, <2>1, <2>5, <2>6 DEF TaskAsAsked
<1>5. CASE k \in {"TURN_ON", "TURN_OFF"}
  <2>1. task.kind = "task" /\ task.item = V1ControlMap[k]
    <3>1. task = Task("CONTROL", V1ControlMap[k], None)
      BY <1>5, V1Tasks
    <3> QED
      BY <3>1 DEF Task
  <2>2. V1Item(V1ControlMap[k]) = Item(Subject(k), "-") /\ V1ControlMap[k] \in V1Items
    <3>1. V1ControlMap["TURN_ON"] = "Switch On" /\ V1ControlMap["TURN_OFF"] = "Switch Off"
      BY DEF V1ControlMap
    <3> QED
      BY <1>5, <3>1, SubjectOf, V1Names DEF V1Items
  <2> QED
    BY <1>5, <1>d, <2>1, <2>2 DEF TaskAsAsked, Item
<1>6. CASE k = "SET_DATE"
  <2>1. task.kind = "task" /\ task.item = "Date" /\ task.data = V1formatDate(c.payload)
        /\ ~unformattable(c.payload)
    <3>1. task = IF unformattable(c.payload) THEN None ELSE Task("WRITE", V1WriteMap[k], V1formatDate(c.payload))
      BY <1>6, V1Tasks
    <3>2. V1WriteMap[k] = "Date"
      BY <1>6 DEF V1WriteMap
    <3> QED
      BY <1>3, <3>1, <3>2
  <2>2. c.payload.kind = "date"
    BY <2>1 DEF unformattable
  <2>3. V1Item("Date") = Item(Subject(k), "-")
    BY <1>6, SubjectOf, V1Names
  <2> QED
    BY <1>2, <1>6, <1>d, <2>1, <2>2, <2>3, TaskDates DEF TaskAsAsked, Item, V1Items
<1>7. CASE k \in TokenCommands
  <2>1. task.kind = "task" /\ task.item = "Token" /\ task.data.token = c.token
    <3>1. task = IF noToken(c) THEN None ELSE Task("TOKEN", "Token", [kind |-> "token", token |-> c.token])
      BY <1>7, V1Tasks
    <3> QED
      BY <1>3, <3>1
  <2>2. V1Item("Token") = Item(Subject(k), "-")
    BY <1>7, SubjectOf, V1Names
  <2> QED
    BY <1>7, <1>d, <2>1, <2>2 DEF TaskAsAsked, Item, V1Items
<1> QED
  BY <1>1, <1>4, <1>5, <1>6, <1>7

LEMMA V2Means ==
  ASSUME NEW c, isCreate(c), c.commandType \in supportedCommandTypes["calin-api-v2"],
         NEW task, task = V2sendOne(c), task # None
  PROVE  TaskAsAsked(c, task, V2Item(task.item))
<1> DEFINE k == c.commandType
<1>1. k \in HttpReads \cup {"TURN_ON", "TURN_OFF", "SET_DATE"} \cup TokenCommands
  BY HttpCommands DEF Plugins
<1>2. isPayload(c.payload)
  BY DEF isCreate
<1>3. \A path, item, data : LET t == Task(path, item, data)
                            IN  t.kind = "task" /\ t.path = path /\ t.item = item /\ t.data = data
  BY DEF Task
<1>d. /\ k \in HttpReads => k # "SET_DATE" /\ k \notin TokenCommands
      /\ k \in {"TURN_ON", "TURN_OFF"} => k # "SET_DATE" /\ k \notin TokenCommands
      /\ k = "SET_DATE" => k \notin TokenCommands
  BY DEF HttpReads, TokenCommands, GenerateTokenTypes
<1>4. CASE k \in HttpReads
  <2> DEFINE item == V2ReadMap[k]
  <2>1. task.kind = "task" /\ task.item = item
    <3>1. task = Task("READ", V2ReadMap[k], None)
      BY <1>4, V2Tasks
    <3> QED
      BY <3>1 DEF Task
  <2>2. V2Item(item).what = Subject(k)
    BY <1>4, V2Ids
  <2> QED
    BY <1>4, <1>d, <2>1, <2>2 DEF TaskAsAsked
<1>5. CASE k \in {"TURN_ON", "TURN_OFF"}
  <2>1. task.kind = "task" /\ task.item = V2ControlMap[k]
    <3>1. task = Task("CONTROL", V2ControlMap[k], None)
      BY <1>5, V2Tasks
    <3> QED
      BY <3>1 DEF Task
  <2>2. V2Item(V2ControlMap[k]).what = Subject(k)
    BY <1>5, V2Ids
  <2> QED
    BY <1>5, <1>d, <2>1, <2>2 DEF TaskAsAsked
<1>6. CASE k = "SET_DATE"
  <2>1. task.kind = "task" /\ task.item = 10000 /\ task.data = V2formatDate(c.payload)
        /\ ~unformattable(c.payload)
    <3>1. task = IF unformattable(c.payload) THEN None ELSE Task("WRITE", V2WriteMap[k], V2formatDate(c.payload))
      BY <1>6, V2Tasks
    <3>2. V2WriteMap[k] = 10000
      BY <1>6 DEF V2WriteMap
    <3> QED
      BY <1>3, <3>1, <3>2, SMT
  <2>2. c.payload.kind = "date"
    BY <2>1, SMT DEF unformattable
  <2>3. V2Item(10000) = Item(Subject(k), "-")
    BY <1>6, SubjectOf, SMT DEF V2Item
  <2>4. TaskDate(c.payload, V2formatDate(c.payload))
    BY <1>2, <2>2, TaskDates
  <2> QED
    BY <1>6, <1>d, <2>1, <2>3, <2>4, SMT DEF TaskAsAsked, Item
<1>7. CASE k \in TokenCommands
  <2>1. task.kind = "task" /\ task.item = 30000 /\ task.data.token = c.token
    <3>1. task = IF noToken(c) THEN None
                 ELSE Task("TOKEN", TOKEN_DELIVERY_PROTOCOL_ID, [kind |-> "token", token |-> c.token])
      BY <1>7, V2Tasks
    <3> QED
      BY <1>3, <3>1, SMT DEF TOKEN_DELIVERY_PROTOCOL_ID
  <2>2. V2Item(30000) = Item(Subject(k), "-")
    BY <1>7, SubjectOf, SMT DEF V2Item
  <2> QED
    BY <1>7, <1>d, <2>1, <2>2, SMT DEF TaskAsAsked, Item
<1> QED
  BY <1>1, <1>4, <1>5, <1>6, <1>7

-----------------------------------------------------------------------------
(* Commands as asked *)

\* What has left is what sendOne makes of the command, and a minted token is the voucher
\* a vendor returned for the type of the command.
Sent == wire # None =>
    wire = sendOne(plugin, create) /\ create.commandType \in supportedCommandTypes[plugin]

Minted == minted # None =>
    /\ minted \in Mints /\ minted.type = create.commandType
    /\ \E p \in TokenPlugins : /\ generate(p, create.reference, minted) # None
                               /\ create.token = Voucher(generate(p, create.reference, minted))

LEMMA MintedMeans ==
  ASSUME isCreate(create), Minted, minted # None
  PROVE  TokenAsAsked(create, minted)
<1>1. isMint(minted) /\ minted.amount \in 0..9 /\ minted.type = create.commandType
  BY CallsAssumption DEF Minted
<1>2. PICK p \in TokenPlugins : /\ generate(p, create.reference, minted) # None
                                /\ create.token = Voucher(generate(p, create.reference, minted))
  BY DEF Minted
<1> QED
  BY <1>1, <1>2, MintedToken

\* The conjunct of CommandAsAsked about what is on the wire.
WireAsAsked ==
    /\ Asked.what = Subject(create.commandType)
    /\ plugin # "calin-api-v2" => Asked.phase \in Requested(create) \cup {"-"}
    /\ wire.kind = "frame" /\ Asked.what # "powerLimit" => FrameAsAsked(create, wire.bytes)
    /\ wire.kind = "task" /\ create.commandType = "SET_DATE" => TaskDate(create.payload, wire.data)
    /\ wire.kind = "task" /\ create.commandType \in TokenCommands => wire.data.token = create.token

\* The frame on the wire is that of a command, or the DLMS request.
LEMMA WireFrame ==
  ASSUME TypeOK, Sent, wire # None, plugin = "calin-chirpstack"
  PROVE  /\ wire = chirpstackSendOne(create) /\ wire.kind = "frame"
         /\ \/ create.commandType = "READ_POWER_LIMIT" /\ wire.bytes = encodeDlms
            \/ create.commandType # "READ_POWER_LIMIT" /\ Framed(create)
<1>1. wire = chirpstackSendOne(create) /\ wire.kind = "frame" /\ isCreate(create)
      /\ create.commandType \in supportedCommandTypes["calin-chirpstack"]
  BY DEF Sent, TypeOK, sendOne
<1>2. CASE create.commandType = "READ_POWER_LIMIT"
  <2> DEFINE bytes == encodeRequestData(create.reference, framePhase(create), create.commandType,
                                        create.token, create.payload)
  <2>1. wire = IF bytes = NoBytes THEN None ELSE [kind |-> "frame", bytes |-> bytes]
    BY <1>1 DEF chirpstackSendOne
  <2>2. bytes = encodeDlms
    BY <1>2 DEF encodeRequestData
  <2> HIDE DEF bytes
  <2>3. wire.bytes = bytes
    BY <2>1
  <2> QED
    BY <1>1, <1>2, <2>2, <2>3
<1>3. CASE create.commandType # "READ_POWER_LIMIT"
  BY <1>1, <1>3 DEF Framed
<1> QED
  BY <1>1, <1>2, <1>3

LEMMA WireMeans ==
  ASSUME TypeOK, Sent, wire # None
  PROVE  WireAsAsked
<1>1. plugin \in Plugins /\ isCreate(create) /\ wire = sendOne(plugin, create)
      /\ create.commandType \in supportedCommandTypes[plugin]
  BY DEF TypeOK, Sent
<1> DEFINE k == create.commandType
<1>2. CASE plugin = "calin-chirpstack"
  <2>1. wire = chirpstackSendOne(create) /\ wire.kind = "frame" /\ wire.kind # "task"
    BY <1>2, WireFrame
  <2>2. CASE k = "READ_POWER_LIMIT" /\ wire.bytes = encodeDlms
    <3>1. Asked = Item("powerLimit", "-")
      BY <2>1, <2>2 DEF Asked
    <3>2. Asked.what = "powerLimit" /\ Asked.phase = "-"
      BY <3>1 DEF Item
    <3>3. Subject(k) = "powerLimit"
      BY <2>2, SubjectOf
    <3> QED
      BY <2>1, <3>2, <3>3 DEF WireAsAsked
  <2>3. CASE k # "READ_POWER_LIMIT" /\ Framed(create)
    <3> DEFINE ph == IF k \in {"READ_VOLTAGE", "READ_POWER", "READ_CURRENT"} THEN framePhase(create) ELSE "-"
    <3>1. /\ FrameAsAsked(create, wire.bytes) /\ wire.bytes # encodeDlms
          /\ MeterHears(wire.bytes).item = Item(Subject(k), ph)
      BY <2>1, <2>3, FrameMeans
    <3>2. ph \in Requested(create) \cup {"-"}
      BY <1>1, RequestedOf
    <3> HIDE DEF ph
    <3>3. Asked = Item(Subject(k), ph)
      BY <2>1, <3>1 DEF Asked
    <3>4. Asked.what = Subject(k) /\ Asked.phase = ph
      BY <3>3 DEF Item
    <3> QED
      BY <2>1, <3>1, <3>2, <3>4 DEF WireAsAsked
  <2> QED
    BY <1>2, <2>2, <2>3, WireFrame
<1>3. CASE plugin = "calin-api-v1"
  <2>1. wire = V1sendOne(create)
    BY <1>1, <1>3 DEF sendOne
  <2>2. TaskAsAsked(create, wire, V1Item(wire.item)) /\ V1Item(wire.item).phase \in Requested(create) \cup {"-"}
    BY <1>1, <1>3, <2>1, V1Means, RequestedOf
  <2>3. Asked = V1Item(wire.item) /\ wire.kind # "frame"
    BY <1>3, <2>2 DEF Asked, TaskAsAsked
  <2> QED
    BY <2>2, <2>3 DEF WireAsAsked, TaskAsAsked
<1>4. CASE plugin = "calin-api-v2"
  <2>1. wire = V2sendOne(create)
    BY <1>1, <1>4 DEF sendOne
  <2>2. TaskAsAsked(create, wire, V2Item(wire.item))
    BY <1>1, <1>4, <2>1, V2Means
  <2>3. Asked = V2Item(wire.item) /\ wire.kind # "frame"
    BY <1>4, <2>2 DEF Asked, TaskAsAsked
  <2> QED
    BY <1>4, <2>2, <2>3 DEF WireAsAsked, TaskAsAsked
<1> QED
  BY <1>1, <1>2, <1>3, <1>4 DEF Plugins

LEMMA CommandMeans ==
  ASSUME TypeOK, Sent, Minted
  PROVE  CommandAsAsked
<1>1. isCreate(create)
  BY DEF TypeOK
<1>2. minted # None => TokenAsAsked(create, minted)
  BY <1>1, MintedMeans
<1>3. wire # None => WireAsAsked
  BY WireMeans
<1> QED
  BY <1>2, <1>3, Zenon DEF CommandAsAsked, WireAsAsked, TaskDate

\* Something has left for a command that is under way; the meter sleeps until the vendor
\* has the command, and finds out then only what it was asked for.
Measured ==
    /\ pc \in {"sent", "held", "executed"} => wire # None
    /\ pc \in {"new", "queued", "sent", "held"} => meter = Asleep
    /\ pc = "executed" => meter.kind # "asleep"
    /\ wire # None /\ meter.kind = "done" => meter.value \in Measurable(Asked)

Carried == Sent /\ Minted /\ Measured

LEMMA CarriedInit == Init => Carried
<1> SUFFICES ASSUME Init PROVE Carried
  OBVIOUS
<1>1. pc = "new" /\ wire = None /\ minted = None /\ meter = Asleep
  BY DEF Init
<1> QED
  BY <1>1 DEF Carried, Sent, Minted, Measured

\* A step that touches neither the command nor what has left for it.
LEMMA CarriedOn ==
  ASSUME Carried, UNCHANGED <<plugin, create, minted, wire>>,
         \/ UNCHANGED meter /\ (pc' = pc \/ pc' = "ended")
         \/ UNCHANGED meter /\ pc = "new" /\ pc' = "queued"
         \/ UNCHANGED meter /\ pc = "sent" /\ pc' = "held"
         \/ wire = None /\ pc' = "ended"
  PROVE  Carried'
<1>1. Sent'
  <2>1. sendOne(plugin, create)' = sendOne(plugin, create)
    OBVIOUS
  <2> QED
    BY <2>1 DEF Carried, Sent
<1>2. Minted'
  BY DEF Carried, Minted
<1>3. Asked' = Asked
  BY DEF Asked
<1>4. Measured'
  BY <1>3 DEF Carried, Measured
<1> QED
  BY <1>1, <1>2, <1>4 DEF Carried

LEMMA CarriedToken == ASSUME CallsInv, Carried, GenerateToken PROVE Carried'
<1> USE DEF GenerateToken
<1>1. /\ pc = "new" /\ wire = None /\ UNCHANGED <<plugin, device, wire, meter, polls>>
      /\ minted = None /\ isCreate(create)
  BY DEF CallsInv, TypeOK, Progress
<1>2. PICK r \in Mints, p \in Plugins \cup TokenPlugins :
          /\ r.type = create.commandType
          /\ LET request == generate(p, create.reference, r)
             IN  IF p \notin TokenPlugins
                 THEN EndWith(BadRequest) /\ UNCHANGED <<create, minted>>
                 ELSE \E token \in IF request = None THEN {<<>>} ELSE {<<>>, Voucher(request)} :
                        IF mintFails(token)
                        THEN EndWith(MintError) /\ UNCHANGED <<create, minted>>
                        ELSE /\ create' = [create EXCEPT !.token = token]
                             /\ minted' = r
                             /\ UNCHANGED <<pc, told>>
  OBVIOUS
<1> DEFINE request == generate(p, create.reference, r)
<1>3. CASE UNCHANGED <<create, minted>>
  <2>1. pc' = pc \/ pc' = "ended"
    BY <1>2 DEF EndWith
  <2> QED
    BY <1>1, <1>3, <2>1, CarriedOn
<1>4. CASE ~UNCHANGED <<create, minted>>
  <2>1. p \in TokenPlugins
    BY <1>2, <1>4
  <2>2. PICK token \in IF request = None THEN {<<>>} ELSE {<<>>, Voucher(request)} :
             /\ ~mintFails(token)
             /\ create' = [create EXCEPT !.token = token]
             /\ minted' = r
             /\ UNCHANGED <<pc, told>>
    BY <1>2, <1>4, <2>1
  <2>3. request # None /\ token = Voucher(request)
    <3>1. token # <<>>
      BY <2>2 DEF mintFails
    <3> HIDE DEF request
    <3> QED
      BY <2>2, <3>1
  <2> HIDE DEF request
  <2>4. /\ create'.token = token /\ create'.reference = create.reference
        /\ create'.commandType = create.commandType
    BY <1>1, <2>2 DEF isCreate
  <2>5. Minted'
    BY <1>2, <2>1, <2>2, <2>3, <2>4 DEF Minted, request
  <2>6. Sent' /\ Measured'
    BY <1>1, <2>2 DEF Carried, Sent, Measured
  <2> QED
    BY <2>5, <2>6 DEF Carried
<1> QED
  BY <1>3, <1>4

LEMMA CarriedSend == ASSUME CallsInv, Carried, SendOne PROVE Carried'
<1>1. /\ pc = "queued" /\ wire' = sendOne(plugin, create)
      /\ IF wire' = None THEN pc' = "ended" ELSE pc' = "sent"
      /\ UNCHANGED <<plugin, create, minted, device, meter, polls>>
  BY DEF SendOne, EndWith
<1>2. create.commandType \in supportedCommandTypes[plugin] /\ meter = Asleep
  BY <1>1 DEF CallsInv, Progress, Carried, Measured
<1>3. Sent'
  BY <1>1, <1>2 DEF Sent
<1>4. Minted'
  BY <1>1 DEF Carried, Minted
<1>5. Measured'
  BY <1>1, <1>2 DEF Carried, Measured, Asleep
<1> QED
  BY <1>3, <1>4, <1>5 DEF Carried

LEMMA CarriedExecute == ASSUME Carried, Execute PROVE Carried'
<1>1. pc = "held" /\ pc' = "executed" /\ UNCHANGED <<plugin, create, minted, wire>>
  BY DEF Execute
<1>2. (\E value \in Measurable(Asked) : meter' = [kind |-> "done", value |-> value])
      \/ meter' = [kind |-> "failed"]
  BY DEF Execute
<1>3. Sent'
  <2>1. sendOne(plugin, create)' = sendOne(plugin, create)
    BY <1>1
  <2> QED
    BY <1>1, <2>1 DEF Carried, Sent
<1>4. Minted'
  BY <1>1 DEF Carried, Minted
<1>5. Asked' = Asked
  BY <1>1 DEF Asked
<1>6. meter'.kind # "asleep" /\ (meter'.kind = "done" => meter'.value \in Measurable(Asked))
  BY <1>2
<1>7. Measured'
  BY <1>1, <1>5, <1>6 DEF Carried, Measured
<1> QED
  BY <1>3, <1>4, <1>7 DEF Carried

LEMMA CarriedNext == ASSUME CallsInv, Carried, [Next]_vars PROVE Carried'
<1>1. CASE GenerateToken
  BY <1>1, CarriedToken
<1>2. CASE SendOne
  BY <1>2, CarriedSend
<1>3. CASE Execute
  BY <1>3, CarriedExecute
<1>4. CASE Provision \/ UNCHANGED vars
  BY <1>4, CarriedOn DEF Provision, vars
<1>5. CASE Enqueue \/ VendorTakes \/ VendorRefuses
  <2>1. /\ UNCHANGED <<plugin, create, minted, wire, meter>>
        /\ \/ pc' = "ended"
           \/ pc = "new" /\ pc' = "queued"
           \/ pc = "sent" /\ pc' = "held"
    BY <1>5 DEF Enqueue, VendorTakes, VendorRefuses, EndWith
  <2> QED
    BY <2>1, CarriedOn
<1>6. CASE HandleUp \/ HandleJoin \/ HandleNack \/ GetRemoteStatus \/ FetchStatus
  <2>1. (pc' = pc \/ pc' = "ended") /\ UNCHANGED <<plugin, create, minted, wire, meter>>
    BY <1>6 DEF HandleUp, HandleJoin, HandleNack, GetRemoteStatus, FetchStatus, EndWith
  <2> QED
    BY <2>1, CarriedOn
<1>7. CASE HandleUpUnsolicited
  <2>1. /\ pc = "new" /\ pc' = "ended" /\ UNCHANGED <<plugin, create, minted, wire>>
    BY <1>7 DEF HandleUpUnsolicited, EndWith
  <2>2. wire = None
    BY <2>1 DEF CallsInv, Progress
  <2> QED
    BY <2>1, <2>2, CarriedOn
<1> QED
  BY <1>1, <1>2, <1>3, <1>4, <1>5, <1>6, <1>7 DEF Next

LEMMA CarriedAlways == Spec => [](CallsInv /\ Carried)
<1>1. Init => CallsInv /\ Carried
  BY CallsInit, CarriedInit
<1>2. (CallsInv /\ Carried) /\ [Next]_vars => (CallsInv /\ Carried)'
  BY CallsNext, CarriedNext
<1> QED
  BY <1>1, <1>2, PTL DEF Spec

\* Whatever leaves a plugin means to the meter or the vendor what the caller asked
\* (encodeRequestData and sendOne of the three plugins, generate of the token services):
\* the item and phase, the meter's address, the digits of the token, the date with the
\* weekday a calendar counts, the time, whatever the command, its token and its payload;
\* and a token minted on the way is of the kind and amount asked, for this meter.
THEOREM CommandsAsAsked == Spec => []CommandAsAsked
<1>1. CallsInv /\ Carried => CommandAsAsked
  BY CommandMeans DEF CallsInv, Carried
<1> QED
  BY <1>1, CarriedAlways, PTL

-----------------------------------------------------------------------------
(* What the HTTP plugins report *)

\* The commands an HTTP plugin sends.
HttpSent == HttpReads \cup {"TURN_ON", "TURN_OFF", "SET_DATE"} \cup TokenCommands

\* The vendor's text for an item, against what the meter found.
TextFits(p, command, what, text, value) ==
    /\ what = "credit" => text \in {Credit(value.value, TRUE), Text("garbage")}
    /\ what \in {"voltage", "power", "current", "powerLimit", "version"} =>
          value = Number(value.value) /\ text \in {value, Text("garbage"), Text("empty")}
    /\ what = "date" => text \in {Text("garbage"), Text("empty"), DateText(p, value)}
    /\ what = "TURN_OFF" => text # Text("Connected")
    /\ command = "SET_DATE" => text = Text("empty")

\* Agrees over HTTP.
HttpAgrees(p, data, value) ==
    /\ data.kind \in {"credit", "voltage", "power", "current", "powerLimit", "version"} =>
          data.value \in {None, Text("garbage"), Text("empty"), Number(value.value)}
    /\ data.kind = "date" =>
          /\ data.day = value.day /\ data.month = value.month
          /\ data.year = IF p = "calin-api-v1" THEN 2000 + (value.year % 100) ELSE fullYear(value.year)

\* Data told under its own name, or under the one Misnamed has for it.
Named(p, command, data, text) ==
    data.kind = Label(p, command) \/ Misnamed(p, command, text, data.kind)

\* A phase told is that of the item, or that of a request for the power.
UnderPhase(p, command, phase, data, requested) ==
    "phase" \in DOMAIN data =>
        data.phase = phase \/ (p = "calin-api-v1" /\ command = "READ_POWER" /\ data.phase = requested)

\* Data made of a vendor's text for an item of that phase.
Tells(p, command, phase, data, text, value, requested) ==
    /\ data # None
    /\ HttpAgrees(p, data, value)
    /\ Named(p, command, data, text)
    /\ UnderPhase(p, command, phase, data, requested)

\* A response made of a vendor's text.
Answered(p, command, phase, response, text, value, requested) ==
    /\ response.status = "EXECUTION_SUCCESS" =>
          Tells(p, command, phase, response.data, text, value, requested)
    /\ response.status = "EXECUTION_FAILURE" => text.kind \in {"garbage", "empty"}

LEMMA SuccessOf ==
  ASSUME NEW p, NEW command, NEW phase, NEW data, NEW text, NEW value, NEW requested,
         Tells(p, command, phase, data, text, value, requested)
  PROVE  Answered(p, command, phase, Success(data), text, value, requested)
<1>1. Success(data).status = "EXECUTION_SUCCESS" /\ Success(data).data = data
  BY DEF Success
<1> QED
  BY <1>1 DEF Answered

LEMMA FailureOf ==
  ASSUME NEW p, NEW command, NEW phase, NEW text, NEW value, NEW requested,
         text.kind \in {"garbage", "empty"}
  PROVE  Answered(p, command, phase, Failure, text, value, requested)
  BY DEF Answered, Failure

\* The command of an item an HTTP plugin asks for.
LEMMA CommandOf ==
  ASSUME NEW k \in HttpSent
  PROVE  /\ Subject(k) \in {"credit", "voltage", "power", "current", "powerLimit", "version"} => k \in HttpReads
         /\ Subject(k) = "power" => k = "READ_POWER"
         /\ Subject(k) = "date" => k \in {"READ_DATE", "SET_DATE"}
         /\ Subject(k) = "token" => k \in TokenCommands
         /\ Subject(k) = "TURN_ON" => k = "TURN_ON"
         /\ Subject(k) = "TURN_OFF" => k = "TURN_OFF"
<1>1. CASE k \in TokenCommands
  BY <1>1, SubjectOf
<1>2. CASE k \in HttpReads
  BY <1>2, SubjectOf DEF HttpReads
<1>3. CASE k \in {"TURN_ON", "TURN_OFF", "SET_DATE"}
  BY <1>3, SubjectOf
<1> QED
  BY <1>1, <1>2, <1>3 DEF HttpSent

\* What each command is told as.
LEMMA LabelOf ==
  ASSUME NEW p, NEW k
  PROVE  /\ k \in HttpReads \cup FrameReads \cup {"READ_POWER_LIMIT"} => Label(p, k) = Subject(k)
         /\ k \in TokenCommands =>
               Label(p, k) = IF p = "calin-chirpstack" THEN "token" ELSE "tokenAccepted"
         /\ k \in {"TURN_ON", "TURN_OFF", "SET_DATE", "SET_TIME"} /\ p = "calin-chirpstack" =>
               Label(p, k) = "onOffToggle"
         /\ p # "calin-chirpstack" =>
               /\ k = "TURN_ON" => Label(p, k) = "turnOnAccepted"
               /\ k = "TURN_OFF" => Label(p, k) = "turnOffAccepted"
               /\ k = "SET_DATE" => Label(p, k) = "dateAccepted"
<1>1. HttpReads \cup FrameReads \cup {"READ_POWER_LIMIT"} \subseteq ReadCommands
  BY DEF HttpReads, FrameReads, ReadCommands, PhaseSpecificReads
<1>2. \A c \in TokenCommands : c \notin ReadCommands
  BY DEF ReadCommands, PhaseSpecificReads, TokenCommands, GenerateTokenTypes
<1>3. \A c \in {"TURN_ON", "TURN_OFF", "SET_DATE", "SET_TIME"} : c \notin ReadCommands /\ c \notin TokenCommands
  BY DEF ReadCommands, PhaseSpecificReads, TokenCommands, GenerateTokenTypes
<1>4. k \in ReadCommands => Label(p, k) = Subject(k)
  BY DEF Label
<1>5. k \in TokenCommands => Label(p, k) = IF p = "calin-chirpstack" THEN "token" ELSE "tokenAccepted"
  BY <1>2 DEF Label
<1>6. k \in {"TURN_ON", "TURN_OFF", "SET_DATE", "SET_TIME"} /\ p = "calin-chirpstack" =>
         Label(p, k) = "onOffToggle"
  BY <1>3 DEF Label
<1>7. p # "calin-chirpstack" /\ k = "TURN_ON" => Label(p, k) = "turnOnAccepted"
  BY <1>3 DEF Label
<1>8. p # "calin-chirpstack" /\ k = "TURN_OFF" => Label(p, k) = "turnOffAccepted"
  BY <1>3 DEF Label
<1>9. p # "calin-chirpstack" /\ k = "SET_DATE" => Label(p, k) = "dateAccepted"
  BY <1>3 DEF Label
<1> QED
  BY <1>1, <1>4, <1>5, <1>6, <1>7, <1>8, <1>9

\* The number of a text is that of what the meter found, if it is one.
LEMMA NumberOf ==
  ASSUME NEW text, NEW value,
         \/ text \in {Credit(value.value, TRUE), Text("garbage")}
         \/ value = Number(value.value) /\ text \in {value, Text("garbage"), Text("empty")}
  PROVE  /\ toSafeNumberOrNull(text) \in {None, Number(value.value)}
         /\ toSafeNumberOrNull(text) = None => text.kind \in {"garbage", "empty"}
         /\ text.kind # "date"
<1>1. /\ \A n : Number(n).kind = "number" /\ Number(n).value = n /\ Number(n) # None
      /\ \A n, on : Credit(n, on).kind = "credit" /\ Credit(n, on).value = n
      /\ \A what : Text(what).kind = what
  BY DEF Number, Credit, Text, None
<1>2. \/ text.kind \in {"number", "credit"} /\ text.value = value.value
      \/ text.kind \in {"garbage", "empty"}
  <2>1. CASE text = Credit(value.value, TRUE)
    BY <2>1 DEF Credit
  <2>2. CASE text = value /\ value = Number(value.value)
    <3>1. value.kind = "number"
      BY <1>1, <2>2, Zenon
    <3> QED
      BY <2>2, <3>1
  <2>3. CASE text \in {Text("garbage"), Text("empty")}
    BY <2>3 DEF Text
  <2> QED
    BY <2>1, <2>2, <2>3
<1>3. CASE text.kind \in {"number", "credit"} /\ text.value = value.value
  <2>1. toSafeNumberOrNull(text) = Number(value.value)
    BY <1>3 DEF toSafeNumberOrNull
  <2> QED
    BY <1>1, <1>3, <2>1
<1>4. CASE text.kind \in {"garbage", "empty"}
  <2>1. toSafeNumberOrNull(text) = None
    BY <1>4 DEF toSafeNumberOrNull
  <2> QED
    BY <1>4, <2>1
<1> QED
  BY <1>2, <1>3, <1>4

\* Data with a value that is the number of the text.
LEMMA ValueAgrees ==
  ASSUME NEW p, NEW k \in HttpReads, NEW phase, NEW data, NEW text, NEW value, NEW requested,
         data.kind = Subject(k), data.kind # "none", data.kind # "date",
         data.value \in {None, Text("garbage"), Text("empty"), Number(value.value)},
         UnderPhase(p, k, phase, data, requested)
  PROVE  Tells(p, k, phase, data, text, value, requested)
<1>1. data # None /\ HttpAgrees(p, data, value)
  BY DEF None, HttpAgrees
<1>2. Named(p, k, data, text)
  BY LabelOf DEF Named
<1> QED
  BY <1>1, <1>2 DEF Tells

\* Data that says only what was done.
LEMMA WordAgrees ==
  ASSUME NEW p, NEW k, NEW phase, NEW text, NEW value, NEW requested,
         NEW word \in {"dateAccepted", "noDate", "turnOnAccepted", "turnOffAccepted", "tokenAccepted"},
         word = Label(p, k) \/ Misnamed(p, k, text, word)
  PROVE  Answered(p, k, phase, Success([kind |-> word]), text, value, requested)
<1> DEFINE data == [kind |-> word]
<1>1. data.kind = word /\ DOMAIN data = {"kind"}
  OBVIOUS
<1> HIDE DEF data
<1>2. data # None /\ HttpAgrees(p, data, value) /\ "phase" \notin DOMAIN data
  BY <1>1 DEF None, HttpAgrees
<1>3. Named(p, k, data, text)
  BY <1>1 DEF Named
<1>4. Answered(p, k, phase, Success(data), text, value, requested)
  BY <1>2, <1>3, SuccessOf DEF Tells, UnderPhase
<1> QED
  BY <1>4 DEF data

\* A clock reading as it is told.
LEMMA DateAgrees ==
  ASSUME NEW p, p # "calin-chirpstack", NEW phase, NEW text, NEW value, NEW requested, NEW data,
         data.kind = "date", "phase" \notin DOMAIN data, HttpAgrees(p, data, value)
  PROVE  Answered(p, "READ_DATE", phase, Success(data), text, value, requested)
<1>1. data # None
  BY DEF None
<1>2. Label(p, "READ_DATE") = "date"
  BY LabelOf, SubjectOf DEF HttpReads
<1>3. Named(p, "READ_DATE", data, text)
  BY <1>2 DEF Named
<1>4. UnderPhase(p, "READ_DATE", phase, data, requested)
  BY DEF UnderPhase
<1> QED
  BY <1>1, <1>3, <1>4, SuccessOf DEF Tells

\* The date of a text is the clock's, in the digits its vendor gives.
LEMMA DateHolds ==
  ASSUME NEW p, NEW value, NEW y, NEW m, NEW d,
         p = "calin-api-v1" => y = 2000 + (value.year % 100),
         p # "calin-api-v1" => y = fullYear(value.year),
         m = value.month, d = value.day
  PROVE  /\ DatePayload(y, m, d).kind = "date" /\ "phase" \notin DOMAIN DatePayload(y, m, d)
         /\ HttpAgrees(p, DatePayload(y, m, d), value)
<1> DEFINE data == DatePayload(y, m, d)
<1>1. /\ DOMAIN data = {"kind", "year", "month", "day"} /\ data.kind = "date"
      /\ data.year = y /\ data.month = m /\ data.day = d
  BY DEF DatePayload
<1> HIDE DEF data
<1>2. HttpAgrees(p, data, value) /\ "phase" \notin DOMAIN data
  BY <1>1 DEF HttpAgrees
<1> QED
  BY <1>1, <1>2 DEF data

\* A text of a clock that is no date, as it is told.
LEMMA NoDateAgrees ==
  ASSUME NEW p, p # "calin-chirpstack", NEW phase, NEW text, NEW value, NEW requested,
         text.kind # "date", ~(p = "calin-api-v1" /\ text = Text("empty"))
  PROVE  Answered(p, "READ_DATE", phase, Success(Text("noDate")), text, value, requested)
<1>1. Misnamed(p, "READ_DATE", text, "noDate")
  BY DEF Misnamed
<1>2. Answered(p, "READ_DATE", phase, Success([kind |-> "noDate"]), text, value, requested)
  BY <1>1, WordAgrees
<1> QED
  BY <1>2 DEF Text

\* The texts of a clock reading.
LEMMA ClockTexts ==
  ASSUME NEW p, NEW value, NEW text \in {Text("garbage"), Text("empty"), DateText(p, value)}
  PROVE  /\ text.kind = "date" =>
               /\ text = DateText(p, value)
               /\ text.year = IF p = "calin-api-v1" THEN value.year % 100 ELSE fullYear(value.year)
               /\ text.month = value.month /\ text.day = value.day
         /\ text = Text("empty") => text.kind # "date"
<1>1. Text("garbage").kind = "garbage" /\ Text("empty").kind = "empty"
  BY DEF Text
<1>2. /\ DateText(p, value).year = IF p = "calin-api-v1" THEN value.year % 100 ELSE fullYear(value.year)
      /\ DateText(p, value).month = value.month /\ DateText(p, value).day = value.day
  BY DEF DateText, DatePayload
<1> QED
  BY <1>1, <1>2

\* A measured value with its phase.
LEMMA MeasuredAgrees ==
  ASSUME NEW k \in {"READ_VOLTAGE", "READ_POWER", "READ_CURRENT"}, NEW item, NEW text, NEW value,
         NEW phase, NEW requested,
         toSafeNumberOrNull(text) \in {None, Number(value.value)},
         item \in DOMAIN dataItemToPhase => dataItemToPhase[item] = requested,
         phase = requested \/ k = "READ_POWER"
  PROVE  Answered("calin-api-v1", k, phase, Success(V1measured(Subject(k), item, text, requested)),
                  text, value, requested)
<1> DEFINE data == V1measured(Subject(k), item, text, requested)
<1>1. data.kind = Subject(k) /\ data.value = toSafeNumberOrNull(text) /\ data.phase = requested
  BY DEF V1measured
<1> HIDE DEF data
<1>2. Subject(k) \in {"voltage", "power", "current"} /\ k \in HttpReads
  BY SubjectOf DEF HttpReads
<1>3. UnderPhase("calin-api-v1", k, phase, data, requested)
  BY <1>1 DEF UnderPhase
<1>4. Tells("calin-api-v1", k, phase, data, text, value, requested)
  BY <1>1, <1>2, <1>3, ValueAgrees
<1>5. Answered("calin-api-v1", k, phase, Success(data), text, value, requested)
  BY <1>4, SuccessOf
<1> QED
  BY <1>5 DEF data

\* The phase of a V1 item is the one requested, if the item names one.
LEMMA V1PhaseOf ==
  ASSUME NEW item \in V1Items, NEW phase, V1Item(item).phase \in {phase, "-"},
         item \in DOMAIN dataItemToPhase
  PROVE  dataItemToPhase[item] = phase
<1>1. item \in {"VoltageA", "VoltageB", "VoltageC", "CurrentA", "CurrentB", "CurrentC"}
  BY DEF dataItemToPhase
<1>2. \A what, p : Item(what, p).phase = p
  BY DEF Item
<1>3. V1Item(item).phase = dataItemToPhase[item] /\ V1Item(item).phase # "-"
  <2>1. CASE item \in {"VoltageA", "VoltageB", "VoltageC"}
    BY <1>2, <2>1, V1PhaseNames DEF dataItemToPhase
  <2>2. CASE item \in {"CurrentA", "CurrentB", "CurrentC"}
    BY <1>2, <2>2, V1PhaseNames DEF dataItemToPhase
  <2> QED
    BY <1>1, <2>1, <2>2
<1> QED
  BY <1>3

\* What V1 makes of the text of a finished task (parseResponseData).
LEMMA V1Answered ==
  ASSUME NEW item \in V1Items, NEW k \in HttpSent, V1Item(item).what = Subject(k),
         NEW text, NEW value, NEW requested, V1Item(item).phase \in {requested, "-"},
         TextFits("calin-api-v1", k, V1Item(item).what, text, value)
  PROVE  Answered("calin-api-v1", k, V1Item(item).phase, V1parseResponseData(item, text, requested),
                  text, value, requested)
<1> DEFINE response == V1parseResponseData(item, text, requested)
           number   == toSafeNumberOrNull(text)
           what     == V1Item(item).what
           phase    == V1Item(item).phase
           Goal(r)  == Answered("calin-api-v1", k, phase, r, text, value, requested)
<1>1. \A w, p : Item(w, p).what = w /\ Item(w, p).phase = p
  BY DEF Item
<1>2. item \in DOMAIN dataItemToPhase => dataItemToPhase[item] = requested
  BY V1PhaseOf
<1>3. what \in {"credit", "voltage", "power", "current", "powerLimit", "version"} =>
         /\ number \in {None, Number(value.value)}
         /\ number = None => text.kind \in {"garbage", "empty"}
  BY NumberOf DEF TextFits
<1>a. ASSUME NEW data, what \in {"credit", "powerLimit", "version"}, data.kind = what,
             data.value \in {None, Text("garbage"), Text("empty"), Number(value.value)},
             "phase" \notin DOMAIN data
      PROVE  Goal(Success(data))
  <2>1. k \in HttpReads
    BY <1>a, CommandOf
  <2>2. UnderPhase("calin-api-v1", k, phase, data, requested)
    BY <1>a DEF UnderPhase
  <2>3. data.kind = Subject(k) /\ data.kind # "none" /\ data.kind # "date"
    BY <1>a
  <2> HIDE DEF phase, what
  <2>4. Tells("calin-api-v1", k, phase, data, text, value, requested)
    BY <1>a, <2>1, <2>2, <2>3, ValueAgrees
  <2> QED
    BY <2>4, SuccessOf
<1>b. ASSUME what \in {"voltage", "power", "current"}, phase # "-" \/ what = "power"
      PROVE  Goal(Success(V1measured(what, item, text, requested)))
  <2>1. what = Subject(k) /\ k \in HttpReads /\ (what = "power" => k = "READ_POWER")
    BY <1>b, CommandOf
  <2>2. k \in {"READ_VOLTAGE", "READ_POWER", "READ_CURRENT"}
    BY <1>b, <2>1, SubjectOf DEF HttpReads
  <2>3. phase = requested \/ k = "READ_POWER"
    BY <1>b, <2>1
  <2> HIDE DEF phase, what, number
  <2>4. Goal(Success(V1measured(Subject(k), item, text, requested)))
    BY <1>2, <1>3, <1>b, <2>2, <2>3, MeasuredAgrees DEF number
  <2> QED
    BY <2>1, <2>4
<1>c. ASSUME text.kind \in {"garbage", "empty"} PROVE Goal(Failure)
  BY <1>c, FailureOf
<1>4. CASE item = "Current Credit Register"
  <2>1. what = "credit"
    BY <1>1, <1>4, V1Names
  <2> DEFINE data == [kind |-> "credit", value |-> number, isOn |-> text.kind = "credit" /\ text.isOn]
  <2>2. response = IF number = None THEN Failure ELSE Success(data)
    BY <1>4 DEF V1parseResponseData
  <2>3. data.kind = "credit" /\ data.value = number /\ "phase" \notin DOMAIN data
    OBVIOUS
  <2> HIDE DEF data, number, response, what, Goal
  <2>4. Goal(Success(data))
    BY <1>3, <1>a, <2>1, <2>3
  <2>5. number = None => Goal(Failure)
    BY <1>3, <1>c, <2>1
  <2>6. Goal(response)
    BY <2>2, <2>4, <2>5
  <2> QED
    BY <2>6 DEF Goal, response
<1>5. CASE item \in {"Voltage", "VoltageA", "VoltageB", "VoltageC"}
  <2>1. what = "voltage" /\ phase # "-"
    BY <1>1, <1>5, V1PhaseNames
  <2>2. response = IF number = None THEN Failure ELSE Success(V1measured("voltage", item, text, requested))
    BY <1>5 DEF V1parseResponseData
  <2> HIDE DEF number, response, what, phase, Goal
  <2>3. Goal(Success(V1measured("voltage", item, text, requested)))
    BY <1>b, <2>1
  <2>4. number = None => Goal(Failure)
    BY <1>3, <1>c, <2>1
  <2>5. Goal(response)
    BY <2>2, <2>3, <2>4
  <2> QED
    BY <2>5 DEF Goal, response, phase
<1>6. CASE item = "Power"
  <2>1. what = "power"
    BY <1>1, <1>6, V1Names
  <2>2. response = Success(V1measured("power", item, text, requested))
    BY <1>6 DEF V1parseResponseData
  <2> HIDE DEF response, what, phase, Goal
  <2>3. Goal(response)
    BY <1>b, <2>1, <2>2
  <2> QED
    BY <2>3 DEF Goal, response, phase
<1>7. CASE item \in {"Current", "CurrentA", "CurrentB", "CurrentC"}
  <2>1. what = "current" /\ phase # "-"
    BY <1>1, <1>7, V1PhaseNames
  <2>2. response = Success(V1measured("current", item, text, requested))
    BY <1>7 DEF V1parseResponseData
  <2> HIDE DEF response, what, phase, Goal
  <2>3. Goal(response)
    BY <1>b, <2>1, <2>2
  <2> QED
    BY <2>3 DEF Goal, response, phase
<1>8. CASE item = "Maximum power threshold"
  <2>1. what = "powerLimit"
    BY <1>1, <1>8, V1Names
  <2> DEFINE data == [kind |-> "powerLimit", value |-> number]
  <2>2. response = Success(data)
    BY <1>8 DEF V1parseResponseData
  <2>3. data.kind = "powerLimit" /\ data.value = number /\ "phase" \notin DOMAIN data
    OBVIOUS
  <2> HIDE DEF data, number, response, what, phase, Goal
  <2>4. Goal(response)
    BY <1>3, <1>a, <2>1, <2>2, <2>3
  <2> QED
    BY <2>4 DEF Goal, response, phase
<1>9. CASE item = "Version"
  <2>1. what = "version"
    BY <1>1, <1>9, V1Names
  <2> DEFINE data == [kind |-> "version", value |-> text]
  <2>2. response = Success(data)
    BY <1>9 DEF V1parseResponseData
  <2>3. data.kind = "version" /\ data.value = text /\ "phase" \notin DOMAIN data
    OBVIOUS
  <2>4. text \in {Text("garbage"), Text("empty"), Number(value.value)}
    BY <2>1 DEF TextFits
  <2> HIDE DEF data, response, what, phase, Goal
  <2>5. Goal(response)
    BY <1>a, <2>1, <2>2, <2>3, <2>4
  <2> QED
    BY <2>5 DEF Goal, response, phase
<1>10. CASE item = "Date"
  <2>1. what = "date"
    BY <1>1, <1>10, V1Names
  <2>2. k \in {"READ_DATE", "SET_DATE"}
    BY <2>1, CommandOf
  <2>3. text \in {Text("garbage"), Text("empty"), DateText("calin-api-v1", value)}
    BY <2>1 DEF TextFits
  <2> DEFINE date == DatePayload(2000 + text.year, text.month, text.day)
  <2>4. response = Success(IF text = Text("empty") THEN [kind |-> "dateAccepted"]
                           ELSE IF text.kind # "date" THEN Text("noDate") ELSE date)
    BY <1>10 DEF V1parseResponseData
  <2>5. k = "SET_DATE" => text = Text("empty")
    BY DEF TextFits
  <2> HIDE DEF response, what, phase, date
  <2>6. text = Text("empty") => Goal(Success([kind |-> "dateAccepted"]))
    <3>1. CASE k = "SET_DATE"
      <4>1. "dateAccepted" = Label("calin-api-v1", k)
        BY <3>1, LabelOf
      <4> QED
        BY <4>1, WordAgrees
    <3>2. CASE k = "READ_DATE" /\ text = Text("empty")
      <4>1. Misnamed("calin-api-v1", k, text, "dateAccepted")
        BY <2>3, <3>2, ClockTexts DEF Misnamed
      <4> QED
        BY <4>1, WordAgrees
    <3> QED
      BY <2>2, <3>1, <3>2
  <2>7. text # Text("empty") => k = "READ_DATE"
    BY <2>2, <2>5
  <2>8. text # Text("empty") /\ text.kind # "date" => Goal(Success(Text("noDate")))
    BY <2>7, NoDateAgrees
  <2>9. text # Text("empty") /\ text.kind = "date" => Goal(Success(date))
    <3> SUFFICES ASSUME text # Text("empty"), text.kind = "date" PROVE Goal(Success(date))
      OBVIOUS
    <3>1. /\ text.year = value.year % 100 /\ text.month = value.month /\ text.day = value.day
      BY <2>3, ClockTexts
    <3>2. /\ date.kind = "date" /\ "phase" \notin DOMAIN date
          /\ HttpAgrees("calin-api-v1", date, value)
      <4> DEFINE y == 2000 + text.year
      <4>1. y = 2000 + (value.year % 100)
        BY <3>1
      <4> HIDE DEF y
      <4>2. /\ DatePayload(y, text.month, text.day).kind = "date"
            /\ "phase" \notin DOMAIN DatePayload(y, text.month, text.day)
            /\ HttpAgrees("calin-api-v1", DatePayload(y, text.month, text.day), value)
        BY <3>1, <4>1, DateHolds
      <4> QED
        BY <4>2 DEF y, date
    <3>3. Answered("calin-api-v1", "READ_DATE", phase, Success(date), text, value, requested)
      BY <3>2, DateAgrees
    <3> QED
      BY <2>7, <3>3
  <2> HIDE DEF Goal
  <2>10. Goal(response)
    BY <2>4, <2>6, <2>8, <2>9
  <2> QED
    BY <2>10 DEF Goal, response, phase
<1>11. CASE item \in {"Switch On", "Switch Off", "Token"}
  <2>1. \E w \in {"turnOnAccepted", "turnOffAccepted", "tokenAccepted"} :
           response = Success([kind |-> w]) /\ w = Label("calin-api-v1", k)
    <3>1. CASE item = "Switch On"
      <4>1. k = "TURN_ON"
        <5>1. Subject(k) = "TURN_ON"
          BY <1>1, <3>1, V1Names
        <5> QED
          BY <5>1, CommandOf
      <4>2. response = Success([kind |-> "turnOnAccepted"])
        BY <3>1 DEF V1parseResponseData
      <4> QED
        BY <4>1, <4>2, LabelOf
    <3>2. CASE item = "Switch Off"
      <4>1. k = "TURN_OFF"
        <5>1. Subject(k) = "TURN_OFF"
          BY <1>1, <3>2, V1Names
        <5> QED
          BY <5>1, CommandOf
      <4>2. response = Success([kind |-> "turnOffAccepted"])
        BY <3>2 DEF V1parseResponseData
      <4> QED
        BY <4>1, <4>2, LabelOf
    <3>3. CASE item = "Token"
      <4>1. k \in TokenCommands
        <5>1. Subject(k) = "token"
          BY <1>1, <3>3, V1Names
        <5> QED
          BY <5>1, CommandOf
      <4>2. response = Success([kind |-> "tokenAccepted"])
        BY <3>3 DEF V1parseResponseData
      <4> QED
        BY <4>1, <4>2, LabelOf
    <3> QED
      BY <1>11, <3>1, <3>2, <3>3
  <2> HIDE DEF response, what, phase
  <2>2. Goal(response)
    BY <2>1, WordAgrees
  <2> QED
    BY <2>2 DEF response, phase
<1> QED
  BY <1>4, <1>5, <1>6, <1>7, <1>8, <1>9, <1>10, <1>11 DEF V1Items

\* What V2 makes of the text of a finished task (parseResponseData): never a failure.
LEMMA V2Answered ==
  ASSUME NEW k \in HttpSent, NEW what, what = Subject(k),
         what \in {"credit", "voltage", "power", "current", "powerLimit", "version", "date", "token",
                   "TURN_ON", "TURN_OFF"},
         NEW text, NEW value, NEW phase, NEW requested, NEW taskOf, taskOf = taskType(k),
         TextFits("calin-api-v2", k, what, text, value)
  PROVE  Answered("calin-api-v2", k, phase, V2parseResponseData(V2Names[what], text, taskOf),
                  text, value, requested)
<1> DEFINE name     == V2Names[what]
           response == V2parseResponseData(name, text, taskOf)
           number   == toSafeNumberOrNull(text)
           Goal(r)  == Answered("calin-api-v2", k, phase, r, text, value, requested)
<1>a. ASSUME NEW data,
             what \in {"credit", "voltage", "power", "current", "powerLimit", "version"}, data.kind = what,
             data.value \in {None, Text("garbage"), Text("empty"), Number(value.value)},
             "phase" \notin DOMAIN data
      PROVE  Goal(Success(data))
  <2>1. k \in HttpReads
    BY <1>a, CommandOf
  <2>2. UnderPhase("calin-api-v2", k, phase, data, requested)
    BY <1>a DEF UnderPhase
  <2>3. data.kind = Subject(k) /\ data.kind # "none" /\ data.kind # "date"
    BY <1>a
  <2>4. Tells("calin-api-v2", k, phase, data, text, value, requested)
    BY <1>a, <2>1, <2>2, <2>3, ValueAgrees
  <2> QED
    BY <2>4, SuccessOf
<1>1. ASSUME NEW kind \in {"credit", "voltage", "power", "current", "powerLimit"}, what = kind
      PROVE  Goal(Success([kind |-> kind, value |-> number]))
  <2> DEFINE data == [kind |-> kind, value |-> number]
  <2>1. data.kind = kind /\ data.value = number /\ "phase" \notin DOMAIN data
    OBVIOUS
  <2>2. number \in {None, Number(value.value)}
    BY <1>1, NumberOf DEF TextFits
  <2> HIDE DEF data, number, Goal
  <2>3. Goal(Success(data))
    BY <1>1, <1>a, <2>1, <2>2
  <2> QED
    BY <2>3 DEF data
<1>2. CASE what \in {"credit", "voltage"}
  <2>1. /\ what = "credit" => name = "Current Credit Balance"
        /\ what = "voltage" => name = "Phase-A Voltage"
    <3>1. V2Names["credit"] = "Current Credit Balance" /\ V2Names["voltage"] = "Phase-A Voltage"
      BY DEF V2Names
    <3> QED
      BY <3>1
  <2>2. response = Success([kind |-> what, value |-> number])
    <3>1. CASE what = "credit"
      BY <2>1, <3>1 DEF V2parseResponseData
    <3>2. CASE what = "voltage"
      BY <2>1, <3>2 DEF V2parseResponseData
    <3> QED
      BY <1>2, <3>1, <3>2
  <2> QED
    BY <1>1, <1>2, <2>2
<1>3. CASE what \in {"power", "current"}
  <2>1. /\ what = "power" => name = "Power"
        /\ what = "current" => name = "Phase-A Current(A)"
    <3>1. V2Names["power"] = "Power" /\ V2Names["current"] = "Phase-A Current(A)"
      BY DEF V2Names
    <3> QED
      BY <3>1
  <2>2. response = Success([kind |-> what, value |-> number])
    <3>1. CASE what = "power"
      BY <2>1, <3>1 DEF V2parseResponseData
    <3>2. CASE what = "current"
      BY <2>1, <3>2 DEF V2parseResponseData
    <3> QED
      BY <1>3, <3>1, <3>2
  <2> QED
    BY <1>1, <1>3, <2>2
<1>4. CASE what = "powerLimit"
  <2>1. name = "Maximum power threshold"
    BY <1>4 DEF V2Names
  <2>2. response = Success([kind |-> what, value |-> number])
    BY <1>4, <2>1 DEF V2parseResponseData
  <2> QED
    BY <1>1, <1>4, <2>2
<1>5. CASE what = "version"
  <2> DEFINE data == [kind |-> "version", value |-> text]
  <2>1. name = "Meter Firmware Version"
    BY <1>5 DEF V2Names
  <2>2. response = Success(data)
    BY <2>1 DEF V2parseResponseData
  <2>3. data.kind = "version" /\ data.value = text /\ "phase" \notin DOMAIN data
    OBVIOUS
  <2>4. text \in {Text("garbage"), Text("empty"), Number(value.value)}
    BY <1>5 DEF TextFits
  <2> HIDE DEF data, response, Goal
  <2>5. Goal(response)
    BY <1>5, <1>a, <2>2, <2>3, <2>4
  <2> QED
    BY <2>5 DEF Goal, response
<1>6. CASE what = "date"
  <2>1. name = "Clock(time)"
    BY <1>6 DEF V2Names
  <2>2. k \in {"READ_DATE", "SET_DATE"}
    BY <1>6, CommandOf
  <2>3. text \in {Text("garbage"), Text("empty"), DateText("calin-api-v2", value)}
    BY <1>6 DEF TextFits
  <2>4. (k = "SET_DATE" => taskOf = "WRITE") /\ (k = "READ_DATE" => taskOf # "WRITE")
    BY DEF taskType, ReadCommands, PhaseSpecificReads, ControlCommands, WriteCommands, TokenCommands,
           GenerateTokenTypes
  <2>5. response = Success(IF taskOf = "WRITE" THEN [kind |-> "dateAccepted"]
                           ELSE IF text.kind = "date" THEN text ELSE Text("noDate"))
    BY <2>1 DEF V2parseResponseData
  <2> HIDE DEF response
  <2>6. k = "SET_DATE" => Goal(Success([kind |-> "dateAccepted"]))
    <3>1. k = "SET_DATE" => "dateAccepted" = Label("calin-api-v2", k)
      BY LabelOf
    <3> QED
      BY <3>1, WordAgrees
  <2>7. k = "READ_DATE" /\ text.kind # "date" => Goal(Success(Text("noDate")))
    BY NoDateAgrees
  <2>8. k = "READ_DATE" /\ text.kind = "date" => Goal(Success(text))
    <3> SUFFICES ASSUME k = "READ_DATE", text.kind = "date" PROVE Goal(Success(text))
      OBVIOUS
    <3>1. /\ text = DateText("calin-api-v2", value)
          /\ DateText("calin-api-v2", value) = DatePayload(fullYear(value.year), value.month, value.day)
      BY <2>3, ClockTexts DEF DateText
    <3>2. /\ DOMAIN text = {"kind", "year", "month", "day"}
          /\ text.year = fullYear(value.year) /\ text.month = value.month /\ text.day = value.day
      BY <3>1 DEF DatePayload
    <3>3. HttpAgrees("calin-api-v2", text, value)
      BY <3>2 DEF HttpAgrees
    <3>4. "phase" \notin DOMAIN text
      BY <3>2
    <3>5. Answered("calin-api-v2", "READ_DATE", phase, Success(text), text, value, requested)
      BY <3>3, <3>4, DateAgrees
    <3> QED
      BY <3>5
  <2> HIDE DEF Goal
  <2>9. Goal(response)
    BY <2>2, <2>4, <2>5, <2>6, <2>7, <2>8
  <2> QED
    BY <2>9 DEF Goal, response
<1>7. CASE what \in {"TURN_ON", "TURN_OFF"}
  <2>1. name = "Relay On/Off"
    <3>1. V2Names["TURN_ON"] = "Relay On/Off" /\ V2Names["TURN_OFF"] = "Relay On/Off"
      BY DEF V2Names
    <3> QED
      BY <1>7, <3>1
  <2>2. response = Success(Text(IF text = Text("Connected") THEN "turnOnAccepted" ELSE "turnOffAccepted"))
    BY <2>1 DEF V2parseResponseData
  <2>3. \E w \in {"turnOnAccepted", "turnOffAccepted"} :
           response = Success([kind |-> w]) /\ (w = Label("calin-api-v2", k) \/ Misnamed("calin-api-v2", k, text, w))
    <3> HIDE DEF response
    <3>1. \A w : Text(w) = [kind |-> w]
      BY DEF Text
    <3>2. CASE what = "TURN_ON"
      <4>1. k = "TURN_ON"
        BY <3>2, CommandOf
      <4>2. Label("calin-api-v2", k) = "turnOnAccepted"
        BY <4>1, LabelOf
      <4>3. text # Text("Connected") => Misnamed("calin-api-v2", k, text, "turnOffAccepted")
        BY <4>1 DEF Misnamed
      <4> QED
        BY <2>2, <3>1, <4>2, <4>3
    <3>3. CASE what = "TURN_OFF"
      <4>1. k = "TURN_OFF" /\ text # Text("Connected")
        BY <3>3, CommandOf DEF TextFits
      <4>2. Label("calin-api-v2", k) = "turnOffAccepted"
        BY <4>1, LabelOf
      <4> QED
        BY <2>2, <3>1, <4>1, <4>2
    <3> QED
      BY <1>7, <3>2, <3>3
  <2> QED
    BY <2>3, WordAgrees
<1>8. CASE what = "token"
  <2>1. name = "Token"
    BY <1>8 DEF V2Names
  <2>2. response = Success([kind |-> "tokenAccepted"])
    BY <2>1 DEF V2parseResponseData
  <2>3. "tokenAccepted" = Label("calin-api-v2", k)
    <3>1. k \in TokenCommands
      BY <1>8, CommandOf
    <3> QED
      BY <3>1, LabelOf
  <2> QED
    BY <2>2, <2>3, WordAgrees
<1> QED
  BY <1>2, <1>3, <1>4, <1>5, <1>6, <1>7, <1>8

\* The item an HTTP plugin's task asks for is that of its command, and V1 names the phase.
LEMMA TaskOnWire ==
  ASSUME CallsInv, Carried, plugin # "calin-chirpstack", wire # None
  PROVE  /\ Asked.what = Subject(create.commandType)
         /\ Asked.what \in DOMAIN V2Names
         /\ wire.path = taskType(create.commandType)
         /\ create.commandType \in HttpSent
         /\ plugin = "calin-api-v1" =>
               /\ wire.item \in V1Items
               /\ Asked = V1Item(wire.item) /\ V1Item(wire.item).phase \in {create.phase, "-"}
<1> DEFINE k == create.commandType
<1>1. /\ plugin \in Plugins \ {"calin-chirpstack"} /\ isCreate(create) /\ wire = sendOne(plugin, create)
      /\ k \in supportedCommandTypes[plugin]
      /\ wire.kind = "task" /\ wire.path = taskType(k)
  <2>1. TypeOK /\ Sent
    BY DEF CallsInv, Carried
  <2>2. wire.kind = "task" /\ wire.path = taskType(k)
    BY <2>1 DEF TypeOK
  <2> QED
    BY <2>1, <2>2 DEF TypeOK, Sent
<1>2. k \in HttpSent
  BY <1>1, HttpCommands DEF HttpSent
<1>3. Asked.what = Subject(k)
  BY CommandMeans, Zenon DEF CallsInv, Carried, CommandAsAsked
<1>4. Subject(k) \in {"credit", "voltage", "power", "current", "powerLimit", "version", "date", "token",
                      "TURN_ON", "TURN_OFF"}
  BY <1>2, SubjectOf DEF HttpReads, HttpSent
<1>5. DOMAIN V2Names = {"credit", "voltage", "power", "current", "powerLimit", "version", "date", "token",
                        "TURN_ON", "TURN_OFF"}
  BY DEF V2Names
<1>6. CASE plugin = "calin-api-v1"
  <2>1. wire = V1sendOne(create)
    BY <1>1, <1>6 DEF sendOne
  <2>2. wire.item \in V1Items /\ V1Item(wire.item).phase \in {create.phase, "-"}
    BY <1>1, <1>6, <2>1, V1Means
  <2>3. Asked = V1Item(wire.item)
    BY <1>1, <1>6 DEF Asked
  <2> QED
    BY <1>1, <1>2, <1>3, <1>4, <1>5, <2>2, <2>3
<1> QED
  BY <1>1, <1>2, <1>3, <1>4, <1>5, <1>6

\* What the meter found out is of the kind it was asked for.
LEMMA MeasuredOf ==
  ASSUME NEW item, NEW value \in Measurable(item)
  PROVE  /\ item.what \in {"voltage", "power", "current", "credit"} =>
               /\ \E n \in Nat : n < Capacity[item.what] /\ value = Number(n)
         /\ item.what \in {"powerLimit", "version"} => \E n \in Nat : value = Number(n)
         /\ item.what = "date" => value \in Dates
         /\ item.what = "time" => value = TimePayload(23, 59, 8)
<1>1. DOMAIN Capacity = {"voltage", "power", "current", "credit"}
  BY DEF Capacity
<1>2. Readings \subseteq Nat
  BY CallsAssumption
<1>3. CASE item.what \in DOMAIN Capacity
  <2>1. Measurable(item) = {Number(n) : n \in {r \in Readings : r < Capacity[item.what]}}
    BY <1>1, <1>3 DEF Measurable
  <2>2. PICK n \in Readings : n < Capacity[item.what] /\ value = Number(n)
    BY <2>1
  <2> HIDE DEF Capacity
  <2> QED
    BY <1>1, <1>2, <1>3, <2>2
<1>4. CASE item.what \in {"powerLimit", "version"}
  <2>1. Measurable(item) = {Number(n) : n \in Readings}
    BY <1>1, <1>4 DEF Measurable
  <2> QED
    BY <1>1, <1>2, <1>4, <2>1
<1>5. CASE item.what = "date"
  <2>1. Measurable(item) = Dates
    BY <1>1, <1>5 DEF Measurable
  <2> QED
    BY <1>1, <1>5, <2>1
<1>6. CASE item.what = "time"
  <2>1. Measurable(item) = {TimePayload(23, 59, 8)}
    BY <1>1, <1>6 DEF Measurable
  <2> QED
    BY <1>1, <1>6, <2>1
<1> QED
  BY <1>1, <1>3, <1>4, <1>5, <1>6

LEMMA TextsFit ==
  ASSUME CallsInv, Carried, plugin # "calin-chirpstack", wire # None, meter.kind = "done",
         NEW text \in Texts
  PROVE  TextFits(plugin, create.commandType, Asked.what, text, meter.value)
<1> DEFINE what  == Asked.what
           value == meter.value
           k     == create.commandType
<1>1. value \in Measurable(Asked)
  BY DEF Carried, Measured
<1>2. what \in {"voltage", "power", "current", "powerLimit", "version"} => value = Number(value.value)
  <2>1. \A n : Number(n) = Number(Number(n).value)
    BY DEF Number
  <2> HIDE DEF what, value
  <2>2. what \in {"voltage", "power", "current", "powerLimit", "version"} => \E n \in Nat : value = Number(n)
    BY <1>1, MeasuredOf DEF what
  <2> QED
    BY <2>1, <2>2
<1>3. /\ wire.path = "WRITE" <=> k = "SET_DATE"
      /\ k = "SET_DATE" => what = "date"
  <2>1. wire.path = taskType(k) /\ what = Subject(k) /\ k \in HttpSent
    BY TaskOnWire
  <2>2. k \in HttpReads \cup {"TURN_ON", "TURN_OFF"} \cup TokenCommands => taskType(k) # "WRITE"
    BY DEF taskType, ReadCommands, PhaseSpecificReads, ControlCommands, WriteCommands, TokenCommands,
           GenerateTokenTypes, HttpReads
  <2>3. k = "SET_DATE" => Subject(k) = "date" /\ taskType(k) = "WRITE"
    BY SubjectOf DEF taskType, ReadCommands, PhaseSpecificReads, ControlCommands, WriteCommands,
           TokenCommands, GenerateTokenTypes
  <2> HIDE DEF what
  <2> QED
    BY <2>1, <2>2, <2>3 DEF HttpSent
<1>a. /\ Text("garbage") # Text("Connected") /\ Text("empty") # Text("Connected")
      /\ Text("unknown") # Text("Connected") /\ Text("Disconnected") # Text("Connected")
  <2>1. \A w : Text(w).kind = w
    BY DEF Text
  <2> QED
    BY <2>1
<1>4. CASE wire.path = "WRITE"
  <2>1. text = Text("empty")
    BY <1>3, <1>4 DEF Texts
  <2> QED
    BY <1>3, <1>4, <2>1 DEF TextFits
<1>5. CASE wire.path # "WRITE" /\ what = "credit"
  <2>1. text \in {Credit(value.value, TRUE), Text("garbage")}
    BY <1>5 DEF Texts
  <2> QED
    BY <1>3, <1>5, <2>1 DEF TextFits
<1>6. CASE wire.path # "WRITE" /\ what \in {"TURN_ON", "token"}
  BY <1>3, <1>6 DEF TextFits
<1>7. CASE wire.path # "WRITE" /\ what = "TURN_OFF"
  <2>1. text \in {Text("Disconnected"), Text("unknown")}
    BY <1>7 DEF Texts
  <2> QED
    BY <1>3, <1>7, <1>a, <2>1 DEF TextFits
<1>8. CASE wire.path # "WRITE" /\ what = "date"
  <2>1. text \in {DateText(plugin, value), Text("garbage"), Text("empty")}
    BY <1>8 DEF Texts
  <2> QED
    BY <1>3, <1>8, <2>1 DEF TextFits
<1>9. CASE wire.path # "WRITE" /\ what \notin {"credit", "TURN_ON", "TURN_OFF", "token", "date"}
  <2>1. text \in {value, Text("garbage"), Text("empty")}
    BY <1>9 DEF Texts
  <2> HIDE DEF what, value, k
  <2>2. TextFits(plugin, k, what, text, value)
    BY <1>2, <1>3, <1>9, <2>1 DEF TextFits
  <2> QED
    BY <2>2 DEF what, value, k
<1> QED
  BY <1>4, <1>5, <1>6, <1>7, <1>8, <1>9

\* An answer that says a task is done or has failed is about what the meter did.
LEMMA AnswerOf ==
  ASSUME NEW answer \in Answers
  PROVE  /\ answer.kind = "done" =>
               meter.kind = "done" /\ answer.item = TaskItem /\ answer.text \in Texts
         /\ answer.kind = "failed" => meter.kind = "failed"
<1>1. ASSUME NEW body \in Bodies
      PROVE  /\ body.kind = "done" =>
                   meter.kind = "done" /\ body.item = TaskItem /\ body.text \in Texts
             /\ body.kind = "failed" => meter.kind = "failed"
  <2>1. CASE body \in [kind : {"noResult"}, resultCode : {0, 99}]
    BY <2>1
  <2>2. CASE meter.kind = "done" /\ body \in {[kind |-> "done", item |-> TaskItem, text |-> t] : t \in Texts}
    BY <2>2
  <2>3. CASE meter.kind = "failed" /\ body = [kind |-> "failed"]
    BY <2>3
  <2>4. CASE body = [kind |-> "processing"]
    BY <2>4
  <2> QED
    BY <2>1, <2>2, <2>3, <2>4 DEF Bodies
<1>2. CASE plugin = "calin-api-v1"
  <2>1. PICK reply \in Replies : answer = V1sendRequest(reply)
    BY <1>2 DEF Answers
  <2>2. CASE reply \in [kind : {"json"}, body : Bodies]
    <3>1. answer = reply.body /\ reply.body \in Bodies
      BY <2>1, <2>2 DEF V1sendRequest
    <3> QED
      BY <1>1, <3>1
  <2>3. CASE reply \in [kind : {"html", "notOk", "notJson", "unreachable", "timedOut"}]
    <3>1. answer.kind \in {"httpError", "transportError"}
      BY <2>1, <2>3 DEF V1sendRequest
    <3> QED
      BY <3>1
  <2> QED
    BY <2>1, <2>2, <2>3 DEF Replies
<1>3. CASE plugin # "calin-api-v1"
  <2>1. answer \in Bodies \/ answer = [kind |-> "error"]
    BY <1>3 DEF Answers
  <2> QED
    BY <1>1, <2>1
<1> QED
  BY <1>2, <1>3

\* A status query that ends in a delivery is answered with what the meter did.
LEMMA DeliveryOf ==
  ASSUME NEW answer, fetchStatus(answer) # None, fetchStatus(answer).kind = "DELIVERY_SUCCESSFUL"
  PROVE  \/ answer.kind = "failed" /\ fetchStatus(answer) = Delivered(Failure)
         \/ /\ answer.kind = "done"
            /\ fetchStatus(answer) =
                  Delivered(IF plugin = "calin-api-v1"
                            THEN V1parseResponseData(answer.item, answer.text, create.phase)
                            ELSE V2parseResponseData(answer.item, answer.text, taskType(create.commandType)))
<1> DEFINE event == fetchStatus(answer)
<1>1. \A final : DeliveryFailed(final).kind # "DELIVERY_SUCCESSFUL"
  BY DEF DeliveryFailed
<1>2. CASE plugin = "calin-api-v1"
  <2>1. event = V1fetchStatus(answer, create.phase)
    BY <1>2 DEF fetchStatus
  <2>2. answer.kind = "done" \/ answer.kind = "failed"
    <3>1. CASE answer.kind \in {"httpError", "transportError"}
      <4>1. event = IF V1pollFails(answer) THEN DeliveryFailed(FALSE) ELSE None
        BY <2>1, <3>1 DEF V1fetchStatus
      <4> HIDE DEF event
      <4>2. FALSE
        BY <1>1, <4>1 DEF event
      <4> QED
        BY <4>2
    <3>2. CASE answer.kind = "noResult"
      <4>1. event = DeliveryFailed(answer.resultCode = 99)
        BY <2>1, <3>2 DEF V1fetchStatus
      <4> QED
        BY <1>1, <4>1
    <3>3. CASE answer.kind \notin {"httpError", "transportError", "noResult", "done", "failed"}
      <4>1. event = None
        BY <2>1, <3>3 DEF V1fetchStatus
      <4> QED
        BY <4>1
    <3> QED
      BY <3>1, <3>2, <3>3
  <2>3. CASE answer.kind = "done"
    BY <1>2, <2>1, <2>3 DEF V1fetchStatus
  <2>4. CASE answer.kind = "failed"
    BY <2>1, <2>4 DEF V1fetchStatus
  <2> QED
    BY <2>2, <2>3, <2>4
<1>3. CASE plugin # "calin-api-v1"
  <2>1. event = V2fetchStatus(answer, taskType(create.commandType))
    BY <1>3 DEF fetchStatus
  <2>2. answer.kind = "done" \/ answer.kind = "failed"
    <3>1. CASE answer.kind \in {"error", "noResult"}
      <4>1. event = DeliveryFailed(FALSE)
        BY <2>1, <3>1 DEF V2fetchStatus
      <4> QED
        BY <1>1, <4>1
    <3>2. CASE answer.kind \notin {"error", "noResult", "done", "failed"}
      <4>1. event = None
        BY <2>1, <3>2 DEF V2fetchStatus
      <4> QED
        BY <4>1
    <3> QED
      BY <3>1, <3>2
  <2>3. CASE answer.kind = "done"
    BY <1>3, <2>1, <2>3 DEF V2fetchStatus
  <2>4. CASE answer.kind = "failed"
    BY <2>1, <2>4 DEF V2fetchStatus
  <2> QED
    BY <2>2, <2>3, <2>4
<1> QED
  BY <1>2, <1>3

\* What ReportTruthful says of a response, over HTTP.
HttpTruthful(response, answer) ==
    /\ response.status = "EXECUTION_SUCCESS" =>
          /\ meter.kind = "done"
          /\ Tells(plugin, create.commandType, Asked.phase, response.data, answer.text, meter.value, create.phase)
    /\ response.status = "EXECUTION_FAILURE" =>
          meter.kind = "failed" \/ (plugin = "calin-api-v1" /\ answer.text.kind \in {"garbage", "empty"})

LEMMA V2NeverFails ==
  ASSUME NEW name, NEW text, NEW taskOf
  PROVE  V2parseResponseData(name, text, taskOf).status = "EXECUTION_SUCCESS"
<1> DEFINE names == {"Current Credit Balance", "Phase-A Voltage", "Power", "Phase-A Current(A)",
                     "Maximum power threshold", "Meter Firmware Version", "Relay On/Off", "Clock(time)",
                     "Token"}
<1>1. \A data : Success(data).status = "EXECUTION_SUCCESS"
  BY DEF Success
<1>2. \E data : V2parseResponseData(name, text, taskOf) = Success(data)
  <2>1. CASE name \in {"Current Credit Balance", "Phase-A Voltage", "Power", "Phase-A Current(A)"}
    BY <2>1 DEF V2parseResponseData
  <2>2. CASE name \in {"Maximum power threshold", "Meter Firmware Version", "Relay On/Off"}
    BY <2>2 DEF V2parseResponseData
  <2>3. CASE name \in {"Clock(time)", "Token"}
    BY <2>3 DEF V2parseResponseData
  <2>4. CASE name \notin names
    BY <2>4 DEF V2parseResponseData
  <2> QED
    BY <2>1, <2>2, <2>3, <2>4
<1> QED
  BY <1>1, <1>2

LEMMA HttpResponse ==
  ASSUME CallsInv, Carried, plugin # "calin-chirpstack", wire # None, NEW answer \in Answers,
         fetchStatus(answer) # None, fetchStatus(answer).kind = "DELIVERY_SUCCESSFUL"
  PROVE  HttpTruthful(fetchStatus(answer).response, answer)
<1> DEFINE response == fetchStatus(answer).response
           value == meter.value
           k == create.commandType
<1>1. \A r : Delivered(r).response = r
  BY DEF Delivered
<1>2. CASE answer.kind = "failed" /\ fetchStatus(answer) = Delivered(Failure)
  <2>1. meter.kind = "failed" /\ response = Failure
    BY <1>1, <1>2, AnswerOf
  <2> QED
    BY <2>1 DEF HttpTruthful, Failure
<1>3. CASE answer.kind = "done" /\ fetchStatus(answer) =
             Delivered(IF plugin = "calin-api-v1"
                       THEN V1parseResponseData(answer.item, answer.text, create.phase)
                       ELSE V2parseResponseData(answer.item, answer.text, taskType(create.commandType)))
  <2>1. /\ meter.kind = "done" /\ answer.item = TaskItem /\ answer.text \in Texts
        /\ response = IF plugin = "calin-api-v1"
                      THEN V1parseResponseData(answer.item, answer.text, create.phase)
                      ELSE V2parseResponseData(answer.item, answer.text, taskType(create.commandType))
    BY <1>1, <1>3, AnswerOf
  <2>2. TextFits(plugin, k, Asked.what, answer.text, value)
    BY <2>1, TextsFit
  <2>a. k \in HttpSent /\ Asked.what = Subject(k)
    BY TaskOnWire
  <2> HIDE DEF response, value
  <2>3. Answered(plugin, k, Asked.phase, response, answer.text, value, create.phase)
    <3>1. CASE plugin = "calin-api-v1"
      <4>1. answer.item = wire.item
        BY <2>1, <3>1 DEF TaskItem
      <4>2. /\ wire.item \in V1Items /\ Asked = V1Item(wire.item)
            /\ V1Item(wire.item).phase \in {create.phase, "-"}
        BY <3>1, TaskOnWire
      <4> HIDE DEF k
      <4>3. Answered("calin-api-v1", k, V1Item(wire.item).phase,
                     V1parseResponseData(wire.item, answer.text, create.phase), answer.text, value, create.phase)
        <5>1. TextFits("calin-api-v1", k, V1Item(wire.item).what, answer.text, value)
          BY <2>2, <3>1, <4>2
        <5>2. V1Item(wire.item).what = Subject(k)
          BY <2>a, <4>2
        <5> QED
          BY <2>a, <4>2, <5>1, <5>2, V1Answered
      <4> QED
        BY <2>1, <3>1, <4>1, <4>2, <4>3
    <3>2. CASE plugin = "calin-api-v2"
      <4>1. answer.item = V2Names[Asked.what]
        BY <2>1, <3>2 DEF TaskItem
      <4>2. Asked.what \in {"credit", "voltage", "power", "current", "powerLimit", "version", "date", "token",
                            "TURN_ON", "TURN_OFF"}
        BY TaskOnWire DEF V2Names
      <4> DEFINE what  == Asked.what
                 phase == Asked.phase
      <4>b. /\ what = Subject(k)
            /\ what \in {"credit", "voltage", "power", "current", "powerLimit", "version", "date", "token",
                         "TURN_ON", "TURN_OFF"}
            /\ TextFits("calin-api-v2", k, what, answer.text, value)
        BY <2>2, <2>a, <3>2, <4>2
      <4> HIDE DEF what, phase
      <4>3. Answered("calin-api-v2", k, phase, V2parseResponseData(V2Names[what], answer.text, taskType(k)),
                     answer.text, value, create.phase)
        BY <2>a, <4>b, V2Answered
      <4> QED
        BY <2>1, <3>2, <4>1, <4>3 DEF what, phase
    <3> QED
      BY <3>1, <3>2 DEF CallsInv, TypeOK, Plugins
  <2>4. plugin # "calin-api-v1" => response.status # "EXECUTION_FAILURE"
    BY <2>1, V2NeverFails
  <2>5. HttpTruthful(response, answer)
    BY <2>1, <2>3, <2>4 DEF HttpTruthful, Answered, value
  <2> QED
    BY <2>5 DEF response
<1> QED
  BY <1>2, <1>3, DeliveryOf

\* A status query tells the engine of an execution only what the meter did.
LEMMA FetchTruthful ==
  ASSUME CallsInv, Carried, FetchStatus
  PROVE  ReportTruthful'
<1>1. /\ plugin # "calin-chirpstack" /\ wire # None /\ told.kind = "pending"
      /\ UNCHANGED <<plugin, create, minted, device, wire, meter>>
  BY DEF FetchStatus, CallsInv, TypeOK, Carried, Measured
<1>2. PICK answer \in Answers :
         IF fetchStatus(answer) = None
         THEN polls < MaxPolls /\ polls' = polls + 1 /\ UNCHANGED <<pc, told>>
         ELSE EndWith(With(fetchStatus(answer), answer)) /\ UNCHANGED polls
  BY DEF FetchStatus
<1>3. CASE fetchStatus(answer) = None
  <2>1. told'.kind = "pending"
    BY <1>1, <1>2, <1>3
  <2> QED
    BY <2>1 DEF ReportTruthful
<1>4. CASE fetchStatus(answer) # None
  <2> DEFINE event == fetchStatus(answer)
  <2>1. told' = With(event, answer)
    BY <1>2, <1>4 DEF EndWith
  <2>2. CASE \E response : event = Delivered(response)
    <3>1. {"kind", "response"} \subseteq DOMAIN event /\ event.kind = "DELIVERY_SUCCESSFUL"
      BY <2>2 DEF Delivered
    <3>2. HttpTruthful(event.response, answer)
      BY <1>1, <1>4, <3>1, HttpResponse
    <3>3. told'.response = event.response /\ told'.answer = answer
      BY <2>1, <3>1, WithOf
    <3> HIDE DEF event
    <3>4. HttpTruthful(told'.response, told'.answer)
      BY <3>2, <3>3
    <3>5. Asked' = Asked /\ meter' = meter
      BY <1>1 DEF Asked
    <3>6. Agrees(told.response.data, meter.value)' <=> HttpAgrees(plugin, told'.response.data, meter.value)
      BY <1>1 DEF Agrees, HttpAgrees
    <3>7. (\A name : Misnamed(plugin, create.commandType, told.answer.text, name)'
                      <=> Misnamed(plugin, create.commandType, told'.answer.text, name))
          /\ Label(plugin, create.commandType)' = Label(plugin, create.commandType)
      BY <1>1
    <3>8. told'.response.status = "EXECUTION_SUCCESS" =>
             /\ meter.kind = "done" /\ told'.response.data # None
             /\ HttpAgrees(plugin, told'.response.data, meter.value)
             /\ Named(plugin, create.commandType, told'.response.data, told'.answer.text)
             /\ UnderPhase(plugin, create.commandType, Asked.phase, told'.response.data, create.phase)
      BY <3>4 DEF HttpTruthful, Tells
    <3>9. told'.response.status = "EXECUTION_FAILURE" =>
             meter.kind = "failed" \/ (plugin = "calin-api-v1" /\ told'.answer.text.kind \in {"garbage", "empty"})
      BY <3>4 DEF HttpTruthful
    <3> QED
      BY <1>1, <3>5, <3>6, <3>7, <3>8, <3>9 DEF ReportTruthful, Named, UnderPhase
  <2>3. CASE \E final : event = DeliveryFailed(final)
    <3>1. "kind" \in DOMAIN event /\ event.kind = "DELIVERY_FAILED"
      BY <2>3 DEF DeliveryFailed
    <3>2. told'.kind = "DELIVERY_FAILED"
      BY <2>1, <3>1, WithOf
    <3> QED
      BY <3>2 DEF ReportTruthful
  <2> QED
    BY <1>4, <2>2, <2>3, EventOf
<1> QED
  BY <1>3, <1>4

-----------------------------------------------------------------------------
(* What an uplink is taken to say *)

\* The frame carries these bytes as its data, 33H added.
Carries(b, data) ==
    /\ data \in Seq(Bytes) /\ b \in Seq(Bytes) /\ Len(b) = 14 + Len(data)
    /\ \A i \in 1..Len(data) : b[12 + i] = add33(data[i])

\* From its byte o + 1 on, the data holds x; these are bytes [from, to) of the frame.
Holds(data, o, x, from, to) ==
    /\ o \in Nat /\ x \in Seq(Bytes) /\ o + Len(x) <= Len(data)
    /\ \A i \in 1..Len(x) : data[o + i] = x[i]
    /\ from = 12 + o /\ to = from + Len(x)

LEMMA PlainPart ==
  ASSUME NEW b, NEW data, Carries(b, data), NEW o, NEW x, NEW from, NEW to, Holds(data, o, x, from, to)
  PROVE  Plain(b, from, to) = x
<1>1. b \in Seq(Bytes) /\ Len(data) \in Nat /\ x \in Seq(Bytes) /\ Len(x) \in Nat
      /\ Len(b) = 14 + Len(data) /\ o \in Nat /\ o + Len(x) <= Len(data)
  BY DEF Carries, Holds
<1>2. /\ from = 12 + o /\ from \in Nat /\ to \in Nat /\ from <= to /\ to <= Len(b)
      /\ to - from = Len(x)
  BY <1>1 DEF Holds
<1>3. \A i \in 1..(to - from) : b[from + i] = add33(x[i])
  <2> SUFFICES \A i \in 1..Len(x) : b[from + i] = add33(x[i])
    BY <1>2
  <2> TAKE i \in 1..Len(x)
  <2>1. o + i \in 1..Len(data) /\ from + i = 12 + (o + i)
    BY <1>1, <1>2
  <2>2. b[12 + (o + i)] = add33(data[o + i])
    BY <2>1, Zenon DEF Carries
  <2>3. data[o + i] = x[i]
    BY Zenon DEF Holds
  <2> QED
    BY <2>1, <2>2, <2>3
<1> QED
  BY <1>1, <1>2, <1>3, PlainOf, Zenon

LEMMA AllPlain ==
  ASSUME NEW b, NEW data, Carries(b, data), NEW to \in Nat, to = 12 + Len(data)
  PROVE  Plain(b, 12, to) = data
<1>1. data \in Seq(Bytes) /\ Len(data) \in Nat
  BY DEF Carries
<1>2. Holds(data, 0, data, 12, to)
  BY <1>1 DEF Holds
<1> QED
  BY <1>2, PlainPart

LEMMA PlainOfFour ==
  ASSUME NEW b, NEW data, Carries(b, data), Len(data) = 4
  PROVE  Plain(b, 12, 16) = data
<1>1. 16 \in Nat /\ 16 = 12 + Len(data)
  OBVIOUS
<1> QED
  BY <1>1, AllPlain

LEMMA PlainOfTwo ==
  ASSUME NEW b, NEW data, Carries(b, data), Len(data) = 2
  PROVE  Plain(b, 12, 14) = data
<1>1. 14 \in Nat /\ 14 = 12 + Len(data)
  OBVIOUS
<1> QED
  BY <1>1, AllPlain

\* Byte k of the frame is byte i of the data.
Place(data, k, i) == i \in 1..Len(data) /\ k = 11 + i

LEMMA BytePart ==
  ASSUME NEW b, NEW data, Carries(b, data), NEW k, NEW i, Place(data, k, i)
  PROVE  subtract33H(At(b, k)) = data[i]
<1>1. i \in 1..Len(data) /\ data[i] \in Bytes /\ Len(data) \in Nat
  BY DEF Carries, Place
<1>2. k + 1 = 12 + i
  BY <1>1 DEF Place
<1>3. b[12 + i] = add33(data[i])
  BY <1>1 DEF Carries
<1> QED
  BY <1>1, <1>2, <1>3, SubtractAdd DEF At

\* Data with 33H added to each byte.
Added(data) == Apply(add33, data)

LEMMA AddedOf ==
  ASSUME NEW data \in Seq(Bytes)
  PROVE  /\ Added(data) \in Seq(Bytes) /\ Len(Added(data)) = Len(data)
         /\ \A i \in 1..Len(data) : Added(data)[i] = add33(data[i])
<1>1. Len(data) \in Nat /\ DOMAIN data = 1..Len(data) /\ \A i \in 1..Len(data) : data[i] \in Bytes
  OBVIOUS
<1>2. Added(data) = [i \in 1..Len(data) |-> add33(data[i])]
  BY <1>1 DEF Added, Apply
<1>3. \A i \in 1..Len(data) : add33(data[i]) \in Bytes
  BY <1>1, SubtractAdd
<1> QED
  BY <1>1, <1>2, <1>3

\* The data a meter sends for a measured value.
Measures(what, v) ==
    /\ what \in {"voltage", "power", "current", "credit"} =>
          \E n \in Nat : n < Capacity[what] /\ v = Number(n)
    /\ what = "date" => setDatePayload(v)
    /\ what = "time" => setTimePayload(v)

LEMMA RegisterOf ==
  ASSUME NEW what \in {"voltage", "power", "current", "credit"}, NEW v, Measures(what, v)
  PROVE  /\ v.value \in Nat
         /\ what = "voltage" => bcdToInteger(BcdBytes(v.value, 3)) = v.value
         /\ what \in {"power", "credit"} => bcdToInteger(BcdBytes(v.value, 4)) = v.value
         /\ what = "current" => bcdToInteger(BcdBytes(v.value, 2)) = v.value
<1>1. PICK n \in Nat : n < Capacity[what] /\ v = Number(n)
  BY DEF Measures
<1>2. v.value = n
  BY <1>1 DEF Number
<1>3. /\ Capacity["voltage"] = 1000000 /\ Capacity["power"] = 100000000
      /\ Capacity["current"] = 10000 /\ Capacity["credit"] = 100000000
  BY SMT DEF Capacity
<1>4. /\ n < 10000 => bcdToInteger(BcdBytes(n, 2)) = n
      /\ n < 1000000 => bcdToInteger(BcdBytes(n, 3)) = n
      /\ n < 100000000 => bcdToInteger(BcdBytes(n, 4)) = n
  BY RegisterRead, SMT
<1>5. CASE what = "voltage"
  BY <1>1, <1>2, <1>3, <1>4, <1>5, SMT
<1>6. CASE what \in {"power", "credit"}
  BY <1>1, <1>2, <1>3, <1>4, <1>6, SMT
<1>7. CASE what = "current"
  BY <1>1, <1>2, <1>3, <1>4, <1>7, SMT
<1> QED
  BY <1>5, <1>6, <1>7

\* The registers, in the data of their frames.
LEMMA RegisterData ==
  ASSUME NEW v, v.value \in Nat
  PROVE  /\ LET data == DataBytes("voltage", v)
            IN  /\ data \in Seq(Bytes) /\ Len(data) = 4
                /\ \A i \in 1..3 : data[1 + i] = BcdBytes(v.value, 3)[i]
         /\ DataBytes("power", v) = BcdBytes(v.value, 4)
         /\ DataBytes("current", v) = BcdBytes(v.value, 2)
         /\ LET data == DataBytes("credit", v)
            IN  /\ data \in Seq(Bytes) /\ Len(data) = 6
                /\ \A i \in 1..4 : data[i] = BcdBytes(v.value, 4)[i]
<1>1. \A k \in 1..4 : BcdBytes(v.value, k) \in Seq(Bytes) /\ Len(BcdBytes(v.value, k)) = k
  BY BcdBytesOf
<1>2. <<0>> \in Seq(Bytes) /\ Len(<<0>>) = 1 /\ <<1, 0>> \in Seq(Bytes) /\ Len(<<1, 0>>) = 2
  BY DEF Bytes
<1> DEFINE three == BcdBytes(v.value, 3)
           four  == BcdBytes(v.value, 4)
           zero  == <<0>>
           flags == <<1, 0>>
           u     == zero \o three
           w     == four \o flags
<1>3. /\ DataBytes("voltage", v) = u /\ DataBytes("credit", v) = w
      /\ DataBytes("power", v) = four /\ DataBytes("current", v) = BcdBytes(v.value, 2)
  BY DEF DataBytes
<1>4. three \in Seq(Bytes) /\ Len(three) = 3 /\ four \in Seq(Bytes) /\ Len(four) = 4
  BY <1>1
<1>5. Joins(Bytes, u, zero, three) /\ Joins(Bytes, w, four, flags)
  BY <1>2, <1>4, JoinsOf
<1>6. Len(zero) = 1 /\ Len(flags) = 2
  BY <1>2
<1> HIDE DEF u, w, three, four, zero, flags
<1>7. u \in Seq(Bytes) /\ Len(u) = 4 /\ \A i \in 1..3 : u[1 + i] = three[i]
  BY <1>4, <1>5, <1>6 DEF Joins
<1>8. w \in Seq(Bytes) /\ Len(w) = 6 /\ \A i \in 1..4 : w[i] = four[i]
  BY <1>4, <1>5, <1>6 DEF Joins
<1> QED
  BY <1>3, <1>7, <1>8 DEF three, four

LEMMA ClockData ==
  ASSUME NEW v
  PROVE  /\ setDatePayload(v) =>
              /\ DataBytes("date", v) \in Seq(Bytes) /\ Len(DataBytes("date", v)) = 4
              /\ DataBytes("date", v)[2] = toBcd(v.day) /\ DataBytes("date", v)[3] = toBcd(v.month)
              /\ DataBytes("date", v)[4] = toBcd(v.year % 100)
         /\ setTimePayload(v) =>
              /\ DataBytes("time", v) \in Seq(Bytes) /\ Len(DataBytes("time", v)) = 3
              /\ DataBytes("time", v)[1] = toBcd(v.second) /\ DataBytes("time", v)[2] = toBcd(v.minute)
              /\ DataBytes("time", v)[3] = toBcd(v.hour)
<1>1. ASSUME setDatePayload(v)
      PROVE  /\ DataBytes("date", v) \in Seq(Bytes) /\ Len(DataBytes("date", v)) = 4
             /\ DataBytes("date", v)[2] = toBcd(v.day) /\ DataBytes("date", v)[3] = toBcd(v.month)
             /\ DataBytes("date", v)[4] = toBcd(v.year % 100)
  <2>1. isPayload(v) /\ v.kind = "date" /\ v.year \in Nat
    BY <1>1 DEF isPayload, setDatePayload
  <2> DEFINE weekday == Weekday(fullYear(v.year), v.month, v.day)
  <2>2. v.month \in 1..12 /\ v.day \in 1..31 /\ weekday \in 0..6
    BY <2>1, DateParts DEF weekdayOf
  <2>3. v.month \in 0..99 /\ v.day \in 0..99 /\ weekday \in 0..99 /\ v.year % 100 \in 0..99
    <3> HIDE DEF weekday
    <3> QED
      BY <2>1, <2>2
  <2>4. toBcd(v.month) \in Bytes /\ toBcd(v.day) \in Bytes /\ toBcd(weekday) \in Bytes
        /\ toBcd(v.year % 100) \in Bytes
    BY <2>3, BcdByte, Zenon
  <2>5. DataBytes("date", v) = <<toBcd(weekday), toBcd(v.day), toBcd(v.month), toBcd(v.year % 100)>>
    BY DEF DataBytes
  <2> DEFINE w == toBcd(weekday)
             d == toBcd(v.day)
             m == toBcd(v.month)
             y == toBcd(v.year % 100)
             data == DataBytes("date", v)
  <2> HIDE DEF weekday, w, d, m, y, data
  <2>6. data = <<w, d, m, y>> /\ w \in Bytes /\ d \in Bytes /\ m \in Bytes /\ y \in Bytes
    BY <2>4, <2>5, Zenon DEF w, d, m, y, data
  <2>7. data \in Seq(Bytes) /\ Len(data) = 4 /\ data[2] = d /\ data[3] = m /\ data[4] = y
    BY <2>6
  <2> QED
    BY <2>7 DEF d, m, y, data
<1>2. ASSUME setTimePayload(v)
      PROVE  /\ DataBytes("time", v) \in Seq(Bytes) /\ Len(DataBytes("time", v)) = 3
             /\ DataBytes("time", v)[1] = toBcd(v.second) /\ DataBytes("time", v)[2] = toBcd(v.minute)
             /\ DataBytes("time", v)[3] = toBcd(v.hour)
  <2>1. v.hour \in 0..99 /\ v.minute \in 0..99 /\ v.second \in 0..99
    BY <1>2 DEF setTimePayload
  <2>2. toBcd(v.hour) \in Bytes /\ toBcd(v.minute) \in Bytes /\ toBcd(v.second) \in Bytes
    BY <2>1, BcdByte
  <2>3. DataBytes("time", v) = <<toBcd(v.second), toBcd(v.minute), toBcd(v.hour)>>
    BY DEF DataBytes
  <2> DEFINE h == toBcd(v.hour)
             m == toBcd(v.minute)
             s == toBcd(v.second)
             data == DataBytes("time", v)
  <2> HIDE DEF h, m, s, data
  <2>4. data = <<s, m, h>> /\ s \in Bytes /\ m \in Bytes /\ h \in Bytes
    BY <2>2, <2>3, Zenon DEF h, m, s, data
  <2>5. data \in Seq(Bytes) /\ Len(data) = 3 /\ data[1] = s /\ data[2] = m /\ data[3] = h
    BY <2>4
  <2> QED
    BY <2>5 DEF h, m, s, data
<1> QED
  BY <1>1, <1>2

\* The decoder of each item, and what it makes of the meter's data.
Reader(b, what, phase) ==
    IF what = "voltage"      THEN decodeReadVoltage(b, phase)
    ELSE IF what = "current" THEN decodeReadCurrent(b, phase)
    ELSE IF what = "power"   THEN decodeReadPower(b, phase)
    ELSE IF what = "credit"  THEN decodeReadCredit(b)
    ELSE IF what = "date"    THEN decodeReadDate(b)
    ELSE decodeReadTime(b)

FrameAgrees(data, value) ==
    /\ data.kind \in DOMAIN Capacity => data.value = value.value
    /\ data.kind = "powerLimit" => data.value = Reverse(BinaryBytes(value.value, 4))
    /\ data.kind = "report" => data = value
    /\ data.kind \in {"token", "onOffToggle"} => data.accepted
    /\ data.kind = "date" =>
          /\ data.day = toBcd(value.day) /\ data.month = toBcd(value.month)
          /\ data.year = toBcd(value.year % 100)
    /\ data.kind = "time" =>
          data = [kind |-> "time", hour |-> toBcd(value.hour), minute |-> toBcd(value.minute),
                  second |-> toBcd(value.second)]

ReadsAs(what, data, value, phase) ==
    /\ data # None /\ data.kind = what /\ FrameAgrees(data, value)
    /\ "phase" \in DOMAIN data => data.phase = phase /\ what \in {"voltage", "current", "power"}

LEMMA RegisterReads ==
  ASSUME NEW what \in {"voltage", "current", "power", "credit"}, NEW data, NEW value, NEW phase,
         data.kind = what, data.value = value.value,
         "phase" \in DOMAIN data => data.phase = phase /\ what # "credit"
  PROVE  ReadsAs(what, data, value, phase)
<1>1. data # None
  BY DEF None
<1> QED
  BY <1>1 DEF ReadsAs, FrameAgrees

LEMMA RegisterDecoded ==
  ASSUME NEW what \in {"voltage", "power", "current", "credit"}, NEW v, Measures(what, v),
         NEW b, NEW data, data = DataBytes(what, v), Carries(b, data), NEW phase
  PROVE  ReadsAs(what, Reader(b, what, phase), v, phase)
<1>1. v.value \in Nat
  BY RegisterOf
<1>2. CASE what = "voltage"
  <2>1. data \in Seq(Bytes) /\ Len(data) = 4 /\ \A i \in 1..3 : data[1 + i] = BcdBytes(v.value, 3)[i]
    BY <1>1, <1>2, RegisterData, Zenon
  <2>2. BcdBytes(v.value, 3) \in Seq(Bytes) /\ Len(BcdBytes(v.value, 3)) = 3
    BY <1>1, BcdBytesOf, SMTT(30)
  <2>3. Plain(b, 13, 16) = BcdBytes(v.value, 3)
    <3> DEFINE x == BcdBytes(v.value, 3)
    <3> HIDE DEF x
    <3>1. x \in Seq(Bytes) /\ Len(x) = 3 /\ \A i \in 1..3 : data[1 + i] = x[i]
      BY <2>1, <2>2 DEF x
    <3>2. Holds(data, 1, x, 13, 16)
      BY <2>1, <3>1 DEF Holds
    <3>3. Plain(b, 13, 16) = x
      BY <3>2, PlainPart
    <3> QED
      BY <3>3 DEF x
  <2>4. bcdToInteger(Plain(b, 13, 16)) = v.value
    BY <1>2, <2>3, RegisterOf, Zenon
  <2>5. Reader(b, what, phase) = [kind |-> "voltage", value |-> v.value, phase |-> phase]
    BY <1>2, <2>4, Zenon DEF Reader, decodeReadVoltage
  <2> QED
    BY <1>2, <2>5, RegisterReads
<1>3. CASE what = "power"
  <2>1. data = BcdBytes(v.value, 4) /\ data \in Seq(Bytes) /\ Len(data) = 4
    BY <1>1, <1>3, RegisterData, BcdBytesOf, SMTT(30)
  <2>2. Plain(b, 12, 16) = data
    BY <2>1, PlainOfFour
  <2>3. bcdToInteger(Plain(b, 12, 16)) = v.value
    BY <1>3, <2>1, <2>2, RegisterOf, Zenon
  <2>4. Reader(b, what, phase) = [kind |-> "power", value |-> v.value, phase |-> phase]
    BY <1>3, <2>3, Zenon DEF Reader, decodeReadPower
  <2> QED
    BY <1>3, <2>4, RegisterReads
<1>4. CASE what = "current"
  <2>1. data = BcdBytes(v.value, 2) /\ data \in Seq(Bytes) /\ Len(data) = 2
    BY <1>1, <1>4, RegisterData, BcdBytesOf, SMTT(30)
  <2>2. Plain(b, 12, 14) = data
    BY <2>1, PlainOfTwo
  <2>3. bcdToInteger(Plain(b, 12, 14)) = v.value
    BY <1>4, <2>1, <2>2, RegisterOf, Zenon
  <2>4. Reader(b, what, phase) = [kind |-> "current", value |-> v.value, phase |-> phase]
    BY <1>4, <2>3, Zenon DEF Reader, decodeReadCurrent
  <2> QED
    BY <1>4, <2>4, RegisterReads
<1>5. CASE what = "credit"
  <2>1. data \in Seq(Bytes) /\ Len(data) = 6 /\ \A i \in 1..4 : data[i] = BcdBytes(v.value, 4)[i]
    BY <1>1, <1>5, RegisterData, Zenon
  <2>2. BcdBytes(v.value, 4) \in Seq(Bytes) /\ Len(BcdBytes(v.value, 4)) = 4
    BY <1>1, BcdBytesOf, SMTT(30)
  <2>3. Plain(b, 12, 16) = BcdBytes(v.value, 4)
    <3> DEFINE x == BcdBytes(v.value, 4)
    <3> HIDE DEF x
    <3>1. x \in Seq(Bytes) /\ Len(x) = 4 /\ \A i \in 1..4 : data[i] = x[i]
      BY <2>1, <2>2 DEF x
    <3>2. Holds(data, 0, x, 12, 16)
      BY <2>1, <3>1 DEF Holds
    <3>3. Plain(b, 12, 16) = x
      BY <3>2, PlainPart
    <3> QED
      BY <3>3 DEF x
  <2>4. bcdToInteger(Plain(b, 12, 16)) = v.value
    BY <1>5, <2>3, RegisterOf, Zenon
  <2>5. Reader(b, what, phase).kind = "credit" /\ Reader(b, what, phase).value = v.value
        /\ "phase" \notin DOMAIN Reader(b, what, phase)
    BY <1>5, <2>4 DEF Reader, decodeReadCredit
  <2> QED
    BY <1>5, <2>5, RegisterReads
<1> QED
  BY <1>2, <1>3, <1>4, <1>5

LEMMA ClockDecoded ==
  ASSUME NEW what \in {"date", "time"}, NEW v, Measures(what, v),
         NEW b, NEW data, data = DataBytes(what, v), Carries(b, data), NEW phase
  PROVE  ReadsAs(what, Reader(b, what, phase), v, phase)
<1>1. CASE what = "date"
  <2>1. /\ data \in Seq(Bytes) /\ Len(data) = 4
        /\ data[2] = toBcd(v.day) /\ data[3] = toBcd(v.month) /\ data[4] = toBcd(v.year % 100)
    BY <1>1, ClockData, Zenon DEF Measures
  <2>2. /\ subtract33H(At(b, 13)) = data[2] /\ subtract33H(At(b, 14)) = data[3]
        /\ subtract33H(At(b, 15)) = data[4]
    <3>1. Place(data, 13, 2) /\ Place(data, 14, 3) /\ Place(data, 15, 4)
      BY <2>1 DEF Place
    <3> QED
      BY <3>1, BytePart
  <2>3. Reader(b, what, phase) = [kind |-> "date", day |-> toBcd(v.day), month |-> toBcd(v.month),
                                  year |-> toBcd(v.year % 100)]
    BY <1>1, <2>1, <2>2, Zenon DEF Reader, decodeReadDate
  <2>4. Reader(b, what, phase) # None
    BY <2>3 DEF None
  <2> QED
    BY <1>1, <2>3, <2>4 DEF ReadsAs, FrameAgrees, Capacity
<1>2. CASE what = "time"
  <2>1. /\ data \in Seq(Bytes) /\ Len(data) = 3
        /\ data[1] = toBcd(v.second) /\ data[2] = toBcd(v.minute) /\ data[3] = toBcd(v.hour)
    BY <1>2, ClockData, Zenon DEF Measures
  <2>2. /\ subtract33H(At(b, 12)) = data[1] /\ subtract33H(At(b, 13)) = data[2]
        /\ subtract33H(At(b, 14)) = data[3]
    <3>1. Place(data, 12, 1) /\ Place(data, 13, 2) /\ Place(data, 14, 3)
      BY <2>1 DEF Place
    <3> QED
      BY <3>1, BytePart
  <2>3. Reader(b, what, phase) = [kind |-> "time", hour |-> toBcd(v.hour), minute |-> toBcd(v.minute),
                                  second |-> toBcd(v.second)]
    BY <1>2, <2>1, <2>2, Zenon DEF Reader, decodeReadTime
  <2>4. Reader(b, what, phase) # None
    BY <2>3 DEF None
  <2> QED
    BY <1>2, <2>3, <2>4 DEF ReadsAs, FrameAgrees, Capacity
<1> QED
  BY <1>1, <1>2

LEMMA AddSubtract == \A y \in Bytes : subtract33H(y) \in Bytes /\ add33(subtract33H(y)) = y
<1> SUFFICES ASSUME NEW y \in Bytes
             PROVE  subtract33H(y) \in Bytes /\ add33(subtract33H(y)) = y
  OBVIOUS
<1>1. y \in Int /\ y >= 0 /\ y <= 255
  BY DEF Bytes
<1>2. CASE y >= 51
  <2>1. y + 205 >= 256 /\ y + 205 < 512
    BY <1>1, <1>2
  <2>2. (y - 51 + 256) % 256 = y - 51
    BY <1>1, <1>2, <2>1
  <2>3. ((y - 51) + 51) % 256 = y
    BY <1>1, <1>2
  <2> QED
    BY <1>1, <1>2, <2>2, <2>3 DEF add33, subtract33H, Bytes
<1>3. CASE y < 51
  <2>1. (y - 51 + 256) % 256 = y + 205
    BY <1>1, <1>3
  <2>2. ((y + 205) + 51) % 256 = y
    BY <1>1, <1>3
  <2> QED
    BY <1>1, <1>3, <2>1, <2>2 DEF add33, subtract33H, Bytes
<1> QED
  BY <1>1, <1>2, <1>3

\* The identifiers of the readings.
Reads(di, what, phase) ==
    /\ what = "voltage" => di = 46609 + PhaseNumber[phase]
    /\ what = "current" => di = 46625 + PhaseNumber[phase]
    /\ what = "power"   => di = 46640 + PhaseNumber[phase]
    /\ what = "credit"  => di = 58401
    /\ what = "date"    => di = 49168
    /\ what = "time"    => di = 49169

ReadItems == {"voltage", "current", "power", "credit", "date", "time"}

LEMMA ReadDi ==
  ASSUME NEW c, Framed(c), c.commandType \in FrameReads
  PROVE  \E hi, lo \in Bytes : /\ DiOf(c) = <<hi, lo>>
                               /\ Reads(lo + hi * 256, Subject(c.commandType), framePhase(c))
<1> DEFINE k == c.commandType
           ph == framePhase(c)
           n == PhaseNumber[ph]
           Fits(hi, lo) == /\ hi \in Bytes /\ lo \in Bytes /\ DiOf(c) = <<hi, lo>>
                           /\ Reads(lo + hi * 256, Subject(k), ph)
<1>1. ph \in {"A", "B", "C"} /\ n \in 0..2
  <2>1. ph \in {"A", "B", "C"}
    BY DEF Framed, isCreate, framePhase, PHASES
  <2> HIDE DEF ph
  <2> QED
    BY <2>1 DEF PhaseNumber
<1>2. k \notin TokenCommands /\ k \in FrameReads
  BY DEF TokenCommands, GenerateTokenTypes, FrameReads
<1>3. CASE k \in {"READ_CREDIT", "READ_DATE", "READ_TIME"}
  <2>1. /\ k = "READ_DATE" => DiOf(c) = <<192, 16>> /\ Subject(k) = "date"
        /\ k = "READ_TIME" => DiOf(c) = <<192, 17>> /\ Subject(k) = "time"
        /\ k = "READ_CREDIT" => DiOf(c) = <<228, 33>> /\ Subject(k) = "credit"
    BY <1>2, <1>3 DEF DiOf, Subject
  <2>2. {192, 16, 17, 228, 33} \subseteq Bytes
    BY DEF Bytes
  <2>3. Reads(16 + 192 * 256, "date", ph) /\ Reads(17 + 192 * 256, "time", ph)
        /\ Reads(33 + 228 * 256, "credit", ph)
    BY SMT DEF Reads
  <2>4. /\ k = "READ_DATE" => Fits(192, 16)
        /\ k = "READ_TIME" => Fits(192, 17)
        /\ k = "READ_CREDIT" => Fits(228, 33)
    BY <2>1, <2>2, <2>3, SMT
  <2> QED
    BY <1>3, <2>4
<1>4. CASE k \in {"READ_VOLTAGE", "READ_POWER", "READ_CURRENT"}
  <2>1. /\ k = "READ_VOLTAGE" => DiOf(c) = <<182, 17 + n>> /\ Subject(k) = "voltage"
        /\ k = "READ_POWER" => DiOf(c) = <<182, 48 + n>> /\ Subject(k) = "power"
        /\ k = "READ_CURRENT" => DiOf(c) = <<182, 33 + n>> /\ Subject(k) = "current"
    BY <1>2, <1>4 DEF DiOf, Subject
  <2>2. 182 \in Bytes /\ 17 + n \in Bytes /\ 48 + n \in Bytes /\ 33 + n \in Bytes
    <3> HIDE DEF n
    <3> QED
      BY <1>1 DEF Bytes
  <2>3. /\ Reads((17 + n) + 182 * 256, "voltage", ph) /\ Reads((48 + n) + 182 * 256, "power", ph)
        /\ Reads((33 + n) + 182 * 256, "current", ph)
    <3>1. /\ (17 + n) + 182 * 256 = 46609 + n /\ (48 + n) + 182 * 256 = 46640 + n
          /\ (33 + n) + 182 * 256 = 46625 + n
      <4> HIDE DEF n
      <4> QED
        BY <1>1, SMT
    <3> QED
      BY <3>1, SMT DEF Reads
  <2> HIDE DEF n, ph
  <2>4. /\ k = "READ_VOLTAGE" => Fits(182, 17 + n)
        /\ k = "READ_POWER" => Fits(182, 48 + n)
        /\ k = "READ_CURRENT" => Fits(182, 33 + n)
    BY <2>1, <2>2, <2>3, SMT
  <2>5. \E hi, lo : Fits(hi, lo)
    <3> HIDE DEF Fits
    <3> QED
      BY <1>4, <2>4
  <2> QED
    BY <2>5 DEF ph
<1> QED
  BY <1>2, <1>3, <1>4 DEF FrameReads

\* The identifier of a frame as the decoder reads it.
LEMMA IdentifierOf ==
  ASSUME NEW b \in Seq(Bytes), Len(b) >= 12, NEW lo \in Bytes, NEW hi \in Bytes,
         b[11] = add33(lo), b[12] = add33(hi)
  PROVE  reverseAndCombine(Field(b, 10, 12)) = lo + hi * 256
<1>1. IsField(Field(b, 10, 12), b, 10, 2)
  BY FieldIs
<1> DEFINE g == Field(b, 10, 12)
<1> HIDE DEF g
<1>2. g \in Seq(Bytes) /\ Len(g) = 2 /\ g[1] = add33(lo) /\ g[2] = add33(hi)
  BY <1>1 DEF IsField, g
<1>3. reverseAndCombine(g) = lo + hi * 256
  BY <1>2, CombineTwo
<1> QED
  BY <1>3 DEF g

LEMMA PhaseAt ==
  ASSUME NEW base \in Nat, NEW phase \in PHASES
  PROVE  (CHOOSE p \in PHASES : base + PhaseNumber[p] = base + PhaseNumber[phase]) = phase
<1>1. PhaseNumber["A"] = 0 /\ PhaseNumber["B"] = 1 /\ PhaseNumber["C"] = 2
  BY DEF PhaseNumber
<1>2. \A p \in PHASES : base + PhaseNumber[p] = base + PhaseNumber[phase] <=> p = phase
  BY <1>1 DEF PHASES
<1> QED
  BY <1>2

LEMMA ParsedOf ==
  ASSUME NEW b, NEW what \in ReadItems, NEW phase \in PHASES,
         Reads(reverseAndCombine(Field(b, 10, 12)), what, phase)
  PROVE  Parsed(b) = Reader(b, what, phase)
<1> DEFINE di == reverseAndCombine(Field(b, 10, 12))
           n == PhaseNumber[phase]
           phaseAt(base) == CHOOSE p \in PHASES : base + PhaseNumber[p] = di
<1>1. n \in 0..2
  BY DEF PHASES, PhaseNumber
<1>2. Parsed(b) = CASE di \in 46609..46611 -> decodeReadVoltage(b, phaseAt(46609))
                    [] di \in 46625..46627 -> decodeReadCurrent(b, phaseAt(46625))
                    [] di \in 46640..46642 -> decodeReadPower(b, phaseAt(46640))
                    [] di = 58401          -> decodeReadCredit(b)
                    [] di = 49425          -> decodeReadReport(b)
                    [] di = 49168          -> decodeReadDate(b)
                    [] di = 49169          -> decodeReadTime(b)
                    [] OTHER               -> None
  BY SMT DEF Parsed
<1>3. CASE what = "voltage"
  <2>1. di = 46609 + n
    BY <1>3, SMT DEF Reads
  <2>2. phaseAt(46609) = phase
    BY <2>1, PhaseAt, SMT
  <2>3. di \in 46609..46611 /\ di \notin 46625..46627 /\ di \notin 46640..46642
        /\ di \notin {58401, 49425, 49168, 49169}
    <3> HIDE DEF di, n
    <3> QED
      BY <1>1, <2>1, SMT
  <2> HIDE DEF di, phaseAt
  <2>4. Parsed(b) = decodeReadVoltage(b, phase)
    BY <1>2, <2>2, <2>3, SMT
  <2> QED
    BY <1>3, <2>4 DEF Reader
<1>4. CASE what = "current"
  <2>1. di = 46625 + n
    BY <1>4, SMT DEF Reads
  <2>2. phaseAt(46625) = phase
    BY <2>1, PhaseAt, SMT
  <2>3. di \in 46625..46627 /\ di \notin 46609..46611 /\ di \notin 46640..46642
        /\ di \notin {58401, 49425, 49168, 49169}
    <3> HIDE DEF di, n
    <3> QED
      BY <1>1, <2>1, SMT
  <2> HIDE DEF di, phaseAt
  <2>4. Parsed(b) = decodeReadCurrent(b, phase)
    BY <1>2, <2>2, <2>3, SMT
  <2> QED
    BY <1>4, <2>4 DEF Reader
<1>5. CASE what = "power"
  <2>1. di = 46640 + n
    BY <1>5, SMT DEF Reads
  <2>2. phaseAt(46640) = phase
    BY <2>1, PhaseAt, SMT
  <2>3. di \in 46640..46642 /\ di \notin 46609..46611 /\ di \notin 46625..46627
        /\ di \notin {58401, 49425, 49168, 49169}
    <3> HIDE DEF di, n
    <3> QED
      BY <1>1, <2>1, SMT
  <2> HIDE DEF di, phaseAt
  <2>4. Parsed(b) = decodeReadPower(b, phase)
    BY <1>2, <2>2, <2>3, SMT
  <2> QED
    BY <1>5, <2>4 DEF Reader
<1>6. CASE what \in {"credit", "date", "time"}
  <2>1. /\ what = "credit" => di = 58401
        /\ what = "date" => di = 49168
        /\ what = "time" => di = 49169
    BY SMT DEF Reads
  <2> HIDE DEF di, phaseAt
  <2>2. /\ what = "credit" => Parsed(b) = decodeReadCredit(b)
        /\ what = "date" => Parsed(b) = decodeReadDate(b)
        /\ what = "time" => Parsed(b) = decodeReadTime(b)
    BY <1>2, <2>1, SMT
  <2> QED
    BY <1>6, <2>2 DEF Reader
<1> QED
  BY <1>3, <1>4, <1>5, <1>6 DEF ReadItems

\* No item has the low byte that a refusal carries in its place.
LEMMA RefusalParsed ==
  ASSUME NEW b \in Seq(Bytes), Len(b) >= 12, b[11] = 0
  PROVE  Parsed(b) = None
<1> DEFINE hi == subtract33H(b[12])
           di == reverseAndCombine(Field(b, 10, 12))
<1>1. b[12] \in Bytes /\ hi \in Bytes /\ add33(hi) = b[12]
  BY AddSubtract
<1>2. 205 \in Bytes /\ add33(205) = 0
  BY DEF Bytes, add33
<1> HIDE DEF hi
<1>3. di = 205 + hi * 256
  BY <1>1, <1>2, IdentifierOf
<1> HIDE DEF di
<1>4. di \notin 46609..46611 /\ di \notin 46625..46627 /\ di \notin 46640..46642
      /\ di \notin {58401, 49425, 49168, 49169}
  BY <1>1, <1>3, SMT DEF Bytes
<1> QED
  BY <1>4, SMT DEF Parsed, di

\* The bytes of a command's frame that its answer repeats.
LEMMA FrameOnWire ==
  ASSUME NEW c, Framed(c), NEW w, w = chirpstackSendOne(c).bytes
  PROVE  /\ w \in Seq(Bytes) /\ Len(w) >= 14
         /\ w[1] = HEADER_BYTE /\ w[8] = HEADER_BYTE /\ w[9] = CodeOf(c)
         /\ w[11] = add33(DiOf(c)[2]) /\ w[12] = add33(DiOf(c)[1])
<1> DEFINE a == MeterAddress(c)
           code == CodeOf(c)
           x == RawOf(c)
           di == DiOf(c)
           data == DataOf(code, x)
<1>1. a \in Seq(Bytes) /\ Len(a) = 6
  BY FrameSent
<1>2. PICK hi, lo \in Bytes : di = <<hi, lo>>
  BY DiItem
<1>3. di \in Seq(Bytes) /\ Len(di) = 2
  <2> HIDE DEF di
  <2> QED
    BY <1>2
<1>4. w = Frame(Reverse(a), code, di, data)
  <2>1. chirpstackSendOne(c) = [kind |-> "frame", bytes |-> Frame(Reverse(a), code, di, data)]
    BY FrameSent, Zenon
  <2> HIDE DEF a, code, di, data
  <2> QED
    BY <2>1
<1>5. x \in Seq(Bytes) /\ code \in Bytes
  <2>1. code \in {0, 1, 4}
    BY FramedCommands, CodeOfCommand
  <2> HIDE DEF code
  <2>2. code \in Bytes
    BY <2>1 DEF Bytes
  <2> QED
    BY <2>2, RawTyped
<1> HIDE DEF a, code, x, di
<1>6. data \in Seq(Bytes) /\ Len(data) \in Nat
  BY <1>5, DataLayout
<1>7. Reverse(a) \in Seq(Bytes) /\ Len(Reverse(a)) = 6
  BY <1>1, ReverseOf
<1> HIDE DEF data
<1>8. IsFrame(w, Reverse(a), code, di, data)
  BY <1>3, <1>4, <1>5, <1>6, <1>7, FrameLayout
<1>9. /\ w \in Seq(Bytes) /\ Len(w) = 14 + Len(data) /\ w[1] = HEADER_BYTE /\ w[8] = HEADER_BYTE
      /\ w[9] = code /\ w[11] = add33(di[2]) /\ w[12] = add33(di[1])
  BY <1>8, Zenon DEF IsFrame
<1> QED
  BY <1>6, <1>9 DEF code, di

-----------------------------------------------------------------------------
(* The answer to a command's frame *)

\* An answer repeats the first eight bytes, then has its own code and data.
AnswerTo(w, code, tail) == Sealed((SubSeq(w, 1, 8) \o <<code>>) \o tail)

IsAnswer(b, code, tail) ==
    /\ b \in Seq(Bytes) /\ Len(b) = 11 + Len(tail)
    /\ b[1] = HEADER_BYTE /\ b[9] = code
    /\ \A i \in 1..Len(tail) : b[9 + i] = tail[i]
    /\ wellFramed(b)

LEMMA CodesAreBytes == DOMAIN ControlCodes = {129, 193, 132, 196, 128, 192} /\ DOMAIN ControlCodes \subseteq Bytes
  BY DEF ControlCodes, Bytes

LEMMA AnswerLayout ==
  ASSUME NEW w \in Seq(Bytes), Len(w) >= 14, w[1] = HEADER_BYTE, w[8] = HEADER_BYTE,
         NEW code \in DOMAIN ControlCodes, NEW tail \in Seq(Bytes),
         NEW b, b = AnswerTo(w, code, tail)
  PROVE  IsAnswer(b, code, tail)
<1> DEFINE head == SubSeq(w, 1, 8)
           one == <<code>>
           front == head \o one
           body == front \o tail
<1>1. head \in Seq(Bytes) /\ Len(head) = 8 /\ head[1] = w[1] /\ head[8] = w[8]
  OBVIOUS
<1>2. code \in Bytes /\ one \in Seq(Bytes) /\ Len(one) = 1 /\ one[1] = code
  BY CodesAreBytes
<1> HIDE DEF head, one
<1>3. Joins(Bytes, front, head, one)
  BY <1>1, <1>2, JoinsOf
<1> HIDE DEF front
<1>4. front \in Seq(Bytes) /\ Len(front) = 9 /\ front[1] = w[1] /\ front[8] = w[8] /\ front[9] = code
  BY <1>1, <1>2, <1>3 DEF Joins
<1>5. Joins(Bytes, body, front, tail)
  BY <1>4, JoinsOf
<1> HIDE DEF body
<1>6. /\ body \in Seq(Bytes) /\ Len(body) = 9 + Len(tail) /\ Len(tail) \in Nat
      /\ body[1] = w[1] /\ body[8] = w[8] /\ body[9] = code
      /\ \A i \in 1..Len(tail) : body[9 + i] = tail[i]
  BY <1>4, <1>5 DEF Joins
<1>7. b = Sealed(body)
  BY DEF AnswerTo, body, front, head, one
<1>8. /\ b \in Seq(Bytes) /\ Len(b) = Len(body) + 2
      /\ \A i \in 1..Len(body) : b[i] = body[i]
      /\ Last(b) = END_BYTE /\ checksumHolds(b)
  <2>1. /\ Sealed(body) \in Seq(Bytes) /\ Len(Sealed(body)) = Len(body) + 2
        /\ \A i \in 1..Len(body) : Sealed(body)[i] = body[i]
        /\ Last(Sealed(body)) = END_BYTE /\ checksumHolds(Sealed(body))
    BY <1>6, SealedOf, Zenon
  <2> QED
    BY <1>7, <2>1, Zenon
<1>9. Len(b) = 11 + Len(tail) /\ Len(b) > 8
  BY <1>6, <1>8
<1>10. b[1] = HEADER_BYTE /\ b[8] = HEADER_BYTE /\ b[9] = code
  BY <1>6, <1>8
<1>11. \A i \in 1..Len(tail) : b[9 + i] = tail[i]
  <2> TAKE i \in 1..Len(tail)
  <2>1. 9 + i \in 1..Len(body)
    BY <1>6
  <2> QED
    BY <1>6, <1>8, <2>1
<1>12. wellFramed(b)
  BY <1>8, <1>9, <1>10 DEF wellFramed, At
<1> QED
  BY <1>8, <1>9, <1>10, <1>11, <1>12 DEF IsAnswer

Refusal(what) == Accepted(what, FALSE)

\* What the decoder makes of an answer of each code.
LEMMA AnswerDecoded ==
  ASSUME NEW b, NEW code \in DOMAIN ControlCodes, NEW tail, IsAnswer(b, code, tail)
  PROVE  /\ code = 128 => decodeResponseData(b) = Accepted("token", TRUE)
         /\ code = 192 => decodeResponseData(b) = Refusal("token")
         /\ code = 132 => decodeResponseData(b) = Accepted("onOffToggle", TRUE)
         /\ code = 129 => decodeResponseData(b) = decodeReading(b, "READING_SUCCESS")
         /\ code = 193 => decodeResponseData(b) = decodeReading(b, "READING_FAILURE")
<1>1. At(b, 0) # 0 /\ wellFramed(b) /\ At(b, 8) = code
  BY DEF IsAnswer, At, HEADER_BYTE
<1>2. /\ ControlCodes[128] = "SEND_TOKEN_SUCCESS" /\ ControlCodes[192] = "SEND_TOKEN_FAILURE"
      /\ ControlCodes[132] = "WRITING_SUCCESS" /\ ControlCodes[196] = "WRITING_FAILURE"
      /\ ControlCodes[129] = "READING_SUCCESS" /\ ControlCodes[193] = "READING_FAILURE"
  BY SMT DEF ControlCodes
<1>3. ASSUME code = 128 PROVE decodeResponseData(b) = Accepted("token", TRUE)
  <2>1. ControlCodes[At(b, 8)] = "SEND_TOKEN_SUCCESS"
    BY <1>1, <1>2, <1>3, SMT
  <2> QED
    BY <1>1, <2>1, SMT DEF decodeResponseData
<1>4. ASSUME code = 192 PROVE decodeResponseData(b) = Refusal("token")
  <2>1. ControlCodes[At(b, 8)] = "SEND_TOKEN_FAILURE"
    BY <1>1, <1>2, <1>4, SMT
  <2> QED
    BY <1>1, <2>1, SMT DEF decodeResponseData, Refusal
<1>5. ASSUME code = 132 PROVE decodeResponseData(b) = Accepted("onOffToggle", TRUE)
  <2>1. ControlCodes[At(b, 8)] = "WRITING_SUCCESS"
    BY <1>1, <1>2, <1>5, SMT
  <2> QED
    BY <1>1, <2>1, SMT DEF decodeResponseData
<1>7. ASSUME code = 129 PROVE decodeResponseData(b) = decodeReading(b, "READING_SUCCESS")
  <2>1. ControlCodes[At(b, 8)] = "READING_SUCCESS"
    BY <1>1, <1>2, <1>7, SMT
  <2> QED
    BY <1>1, <2>1, SMT DEF decodeResponseData
<1>8. ASSUME code = 193 PROVE decodeResponseData(b) = decodeReading(b, "READING_FAILURE")
  <2>1. ControlCodes[At(b, 8)] = "READING_FAILURE"
    BY <1>1, <1>2, <1>8, SMT
  <2> QED
    BY <1>1, <2>1, SMT DEF decodeResponseData
<1> QED
  BY <1>3, <1>4, <1>5, <1>7, <1>8, Zenon

LEMMA RefusedWrite ==
  ASSUME NEW b, NEW tail, IsAnswer(b, 196, tail)
  PROVE  decodeResponseData(b) = Refusal("onOffToggle")
<1>1. At(b, 0) # 0 /\ wellFramed(b) /\ At(b, 8) = 196
  BY DEF IsAnswer, At, HEADER_BYTE
<1>2. ControlCodes[At(b, 8)] = "WRITING_FAILURE"
  BY <1>1, SMT DEF ControlCodes
<1> QED
  BY <1>1, <1>2, SMT DEF decodeResponseData, Refusal

\* A refused read has no item the decoder knows, so it is dropped.
LEMMA RefusalDropped ==
  ASSUME NEW b, NEW tail, IsAnswer(b, 193, tail), Len(tail) = 2, tail[2] = 0
  PROVE  decodeResponseData(b) = None
<1>1. b \in Seq(Bytes) /\ Len(b) = 13 /\ b[11] = 0
  BY DEF IsAnswer
<1>2. Parsed(b) = None
  <2>1. Len(b) >= 12
    BY <1>1
  <2> QED
    BY <1>1, <2>1, RefusalParsed, Zenon
<1>3. decodeReading(b, "READING_FAILURE") = None
  BY <1>2 DEF decodeReading
<1>4. decodeResponseData(b) = decodeReading(b, "READING_FAILURE")
  <2>1. 193 \in DOMAIN ControlCodes
    BY CodesAreBytes
  <2> QED
    BY <2>1, AnswerDecoded, Zenon
<1> QED
  BY <1>3, <1>4

\* The tail of a reading's answer: its size, the item as asked, the data with 33H added.
ReadTail(w, data) == <<2 + Len(Added(data))>> \o SubSeq(w, 11, 12) \o Added(data)

LEMMA ReadTailOf ==
  ASSUME NEW w \in Seq(Bytes), Len(w) >= 14, NEW data \in Seq(Bytes), Len(data) <= 6,
         NEW tail, tail = ReadTail(w, data)
  PROVE  /\ tail \in Seq(Bytes) /\ Len(tail) = 3 + Len(data)
         /\ tail[1] = 2 + Len(data) /\ tail[2] = w[11] /\ tail[3] = w[12]
         /\ \A i \in 1..Len(data) : tail[3 + i] = add33(data[i])
<1> DEFINE added == Added(data)
           one == <<2 + Len(added)>>
           two == SubSeq(w, 11, 12)
           front == one \o two
<1>0. Len(data) \in Nat /\ 2 + Len(data) \in Bytes
  <2>1. \A n \in Nat : n <= 6 => 2 + n \in Bytes
    BY DEF Bytes
  <2>2. Len(data) \in Nat
    OBVIOUS
  <2> QED
    BY <2>1, <2>2
<1>1. /\ added \in Seq(Bytes) /\ Len(added) = Len(data)
      /\ \A i \in 1..Len(data) : added[i] = add33(data[i])
  BY AddedOf, Zenon
<1> HIDE DEF added
<1>2. one \in Seq(Bytes) /\ Len(one) = 1 /\ one[1] = 2 + Len(data)
  BY <1>0, <1>1
<1>3. two \in Seq(Bytes) /\ Len(two) = 2 /\ two[1] = w[11] /\ two[2] = w[12]
  OBVIOUS
<1> HIDE DEF one, two
<1>4. Joins(Bytes, front, one, two)
  BY <1>2, <1>3, JoinsOf
<1>5. tail = front \o added
  BY DEF ReadTail, front, one, two, added
<1> HIDE DEF front
<1>6. /\ front \in Seq(Bytes) /\ Len(front) = 3 /\ front[1] = 2 + Len(data)
      /\ front[2] = w[11] /\ front[3] = w[12]
  BY <1>2, <1>3, <1>4 DEF Joins
<1>7. Joins(Bytes, tail, front, added)
  BY <1>1, <1>5, <1>6, JoinsOf
<1> QED
  BY <1>0, <1>1, <1>6, <1>7 DEF Joins

LEMMA UplinkOf ==
  ASSUME At(wire.bytes, 8) \in {0, 1, 4}
  PROVE  LET path == At(wire.bytes, 8)
         IN  /\ meter.kind = "failed" => Uplink = AnswerTo(wire.bytes, 192 + path, <<1, 0>>)
             /\ meter.kind # "failed" /\ path = 1 =>
                   Uplink = AnswerTo(wire.bytes, 128 + path, ReadTail(wire.bytes, DataBytes(Asked.what, meter.value)))
             /\ meter.kind # "failed" /\ path # 1 => Uplink = AnswerTo(wire.bytes, 128 + path, <<0>>)
<1> DEFINE path == At(wire.bytes, 8)
           reading == Apply(add33, DataBytes(Asked.what, meter.value))
           body(code, tail) == (SubSeq(wire.bytes, 1, 8) \o <<code>>) \o tail
           Answer(code, tail) == body(code, tail) \o <<TotalMod256(body(code, tail)), END_BYTE>>
<1>1. CASE meter.kind = "failed"
  <2>1. Uplink = Answer(192 + path, <<1, 0>>)
    BY <1>1, Zenon DEF Uplink
  <2> QED
    BY <1>1, <2>1, Zenon DEF AnswerTo, Sealed
<1>2. CASE meter.kind # "failed" /\ path = 1
  <2>1. Uplink = Answer(128 + path, <<2 + Len(reading)>> \o SubSeq(wire.bytes, 11, 12) \o reading)
    BY <1>2, Zenon DEF Uplink
  <2> QED
    BY <1>2, <2>1, Zenon DEF AnswerTo, Sealed, ReadTail, Added
<1>3. CASE meter.kind # "failed" /\ path # 1
  <2>1. Uplink = Answer(128 + path, <<0>>)
    BY <1>3, Zenon DEF Uplink
  <2> QED
    BY <1>3, <2>1, Zenon DEF AnswerTo, Sealed
<1> QED
  BY <1>1, <1>2, <1>3

LEMMA DataBytesOf ==
  ASSUME NEW what \in ReadItems, NEW v, Measures(what, v)
  PROVE  DataBytes(what, v) \in Seq(Bytes) /\ Len(DataBytes(what, v)) <= 6
<1> DEFINE data == DataBytes(what, v)
<1>1. what \in {"voltage", "power", "current", "credit"} =>
        /\ v.value \in Nat
        /\ \A k \in 1..4 : BcdBytes(v.value, k) \in Seq(Bytes) /\ Len(BcdBytes(v.value, k)) = k
  BY RegisterOf, BcdBytesOf
<1>2. CASE what = "voltage"
  <2>1. data \in Seq(Bytes) /\ Len(data) = 4
    BY <1>1, <1>2, RegisterData, Zenon
  <2> QED
    BY <2>1
<1>3. CASE what = "power"
  <2>1. data = BcdBytes(v.value, 4)
    BY <1>1, <1>3, RegisterData, Zenon
  <2>2. data \in Seq(Bytes) /\ Len(data) = 4
    BY <1>1, <1>3, <2>1
  <2> QED
    BY <2>2
<1>4. CASE what = "current"
  <2>1. data = BcdBytes(v.value, 2)
    BY <1>1, <1>4, RegisterData, Zenon
  <2>2. data \in Seq(Bytes) /\ Len(data) = 2
    BY <1>1, <1>4, <2>1
  <2> QED
    BY <2>2
<1>5. CASE what = "credit"
  <2>1. data \in Seq(Bytes) /\ Len(data) = 6
    BY <1>1, <1>5, RegisterData, Zenon
  <2> QED
    BY <2>1
<1>6. CASE what = "date"
  <2>1. data \in Seq(Bytes) /\ Len(data) = 4
    BY <1>6, ClockData, Zenon DEF Measures
  <2> QED
    BY <2>1
<1>7. CASE what = "time"
  <2>1. data \in Seq(Bytes) /\ Len(data) = 3
    BY <1>7, ClockData, Zenon DEF Measures
  <2> QED
    BY <2>1
<1> QED
  BY <1>2, <1>3, <1>4, <1>5, <1>6, <1>7 DEF ReadItems

\* An answered read is decoded as the meter measured it.
LEMMA ReadingDecoded ==
  ASSUME NEW w \in Seq(Bytes), Len(w) >= 14, NEW hi \in Bytes, NEW lo \in Bytes,
         w[11] = add33(lo), w[12] = add33(hi),
         NEW what \in ReadItems, NEW phase \in PHASES, Reads(lo + hi * 256, what, phase),
         NEW v, Measures(what, v),
         NEW tail, tail = ReadTail(w, DataBytes(what, v)), NEW b, IsAnswer(b, 129, tail)
  PROVE  \E data : /\ decodeResponseData(b) = Decoded("EXECUTION_SUCCESS", data, FALSE)
                   /\ ReadsAs(what, data, v, phase)
<1> DEFINE data == DataBytes(what, v)
<1>1. data \in Seq(Bytes) /\ Len(data) <= 6
  BY DataBytesOf
<1>2. /\ tail \in Seq(Bytes) /\ Len(tail) = 3 + Len(data)
      /\ tail[1] = 2 + Len(data) /\ tail[2] = w[11] /\ tail[3] = w[12]
      /\ \A i \in 1..Len(data) : tail[3 + i] = add33(data[i])
  <2>1. tail = ReadTail(w, data)
    OBVIOUS
  <2> HIDE DEF data
  <2> QED
    BY <1>1, <2>1, ReadTailOf
<1> HIDE DEF data
<1>3. Len(data) \in Nat /\ Len(tail) \in Nat
  BY <1>1, <1>2
<1>4. /\ b \in Seq(Bytes) /\ Len(b) = 11 + Len(tail)
      /\ \A i \in 1..Len(tail) : b[9 + i] = tail[i]
  BY DEF IsAnswer
<1>5. Len(b) = 14 + Len(data) /\ b[10] = 2 + Len(data) /\ b[11] = add33(lo) /\ b[12] = add33(hi)
  <2>1. 9 + 1 = 10 /\ 9 + 2 = 11 /\ 9 + 3 = 12 /\ {1, 2, 3} \subseteq 1..Len(tail)
    BY <1>2, <1>3
  <2> QED
    BY <1>2, <1>3, <1>4, <2>1
<1>6. Carries(b, data)
  <2>1. \A i \in 1..Len(data) : b[12 + i] = add33(data[i])
    <3> TAKE i \in 1..Len(data)
    <3>1. 3 + i \in 1..Len(tail) /\ 9 + (3 + i) = 12 + i
      BY <1>2, <1>3
    <3>2. b[9 + (3 + i)] = tail[3 + i]
      BY <1>4, <3>1, Zenon
    <3> QED
      BY <1>2, <3>1, <3>2
  <2> QED
    BY <1>1, <1>4, <1>5, <2>1 DEF Carries
<1>7. ReadsAs(what, Reader(b, what, phase), v, phase)
  <2>1. data = DataBytes(what, v)
    BY DEF data
  <2>2. CASE what \in {"voltage", "power", "current", "credit"}
    BY <1>6, <2>1, <2>2, RegisterDecoded
  <2>3. CASE what \in {"date", "time"}
    BY <1>6, <2>1, <2>3, ClockDecoded
  <2> QED
    BY <2>2, <2>3 DEF ReadItems
<1>8. Parsed(b) = Reader(b, what, phase)
  <2>1. Len(b) >= 12
    BY <1>3, <1>5
  <2>2. reverseAndCombine(Field(b, 10, 12)) = lo + hi * 256
    BY <1>4, <1>5, <2>1, IdentifierOf
  <2> QED
    BY <2>2, ParsedOf
<1>9. decodeReading(b, "READING_SUCCESS") = Decoded("EXECUTION_SUCCESS", Parsed(b), FALSE)
  <2>1. Parsed(b) # None /\ Parsed(b).kind # "report"
    BY <1>7, <1>8 DEF ReadsAs, ReadItems
  <2>2. ~(Len(b) < 12 + At(b, 9))
    BY <1>3, <1>5 DEF At
  <2>3. (Parsed(b).kind = "report") = FALSE
    BY <2>1
  <2> QED
    BY <2>1, <2>2, <2>3 DEF decodeReading
<1>10. decodeResponseData(b) = decodeReading(b, "READING_SUCCESS")
  <2>1. 129 \in DOMAIN ControlCodes
    BY CodesAreBytes
  <2> QED
    BY <2>1, AnswerDecoded, Zenon
<1> QED
  BY <1>7, <1>8, <1>9, <1>10

\* What an uplink may say of an execution.
FrameTold(status, data) ==
    /\ status = "EXECUTION_SUCCESS" =>
          /\ meter.kind = "done" /\ data # None /\ FrameAgrees(data, meter.value)
          /\ data.kind = Label("calin-chirpstack", create.commandType)
          /\ "phase" \in DOMAIN data => data.phase = Asked.phase
    /\ status = "EXECUTION_FAILURE" => meter.kind = "failed"

Told(decoded) ==
    decoded = None \/ \E status, data : decoded = Decoded(status, data, FALSE) /\ FrameTold(status, data)

LEMMA AcceptedTold ==
  ASSUME NEW what \in {"token", "onOffToggle"}, NEW accepted \in BOOLEAN,
         accepted => meter.kind = "done" /\ what = Label("calin-chirpstack", create.commandType),
         ~accepted => meter.kind = "failed"
  PROVE  Told(Accepted(what, accepted)) /\ (~accepted => Told(Refusal(what)))
<1> DEFINE data == [kind |-> what, accepted |-> accepted]
           status == IF accepted THEN "EXECUTION_SUCCESS" ELSE "EXECUTION_FAILURE"
<1>1. Accepted(what, accepted) = Decoded(status, data, FALSE)
  BY DEF Accepted
<1>2. data # None
  BY DEF None
<1>3. (accepted => FrameAgrees(data, meter.value)) /\ "phase" \notin DOMAIN data
  BY DEF FrameAgrees, Capacity
<1>4. FrameTold(status, data)
  BY <1>2, <1>3 DEF FrameTold
<1> QED
  BY <1>1, <1>4 DEF Told, Refusal

\* What the meter may have measured is what its frame has room for.
LEMMA MeasuresOf ==
  ASSUME NEW what \in ReadItems, NEW phase, NEW v \in Measurable(Item(what, phase))
  PROVE  Measures(what, v)
<1>1. Item(what, phase).what = what
  BY DEF Item
<1>2. what \in {"voltage", "power", "current", "credit"} =>
         \E n \in Nat : n < Capacity[what] /\ v = Number(n)
  BY <1>1, MeasuredOf, SMTT(30)
<1>3. what = "date" => setDatePayload(v)
  <2>1. what = "date" => v \in Dates
    BY <1>1, MeasuredOf, Zenon
  <2> QED
    BY <2>1, CallsAssumption
<1>4. what = "time" => setTimePayload(v)
  <2>1. what = "time" => v = TimePayload(23, 59, 8)
    BY <1>1, MeasuredOf, Zenon
  <2>2. setTimePayload(TimePayload(23, 59, 8))
    BY DEF setTimePayload, TimePayload
  <2> QED
    BY <2>1, <2>2
<1> QED
  BY <1>2, <1>3, <1>4 DEF Measures

LEMMA ReadSubjects ==
  ASSUME NEW k \in FrameReads
  PROVE  /\ Subject(k) \in ReadItems
         /\ k \notin {"TURN_ON", "TURN_OFF", "SET_DATE", "SET_TIME"} \cup TokenCommands
<1>1. k \notin {"TURN_ON", "TURN_OFF", "SET_DATE", "SET_TIME"} \cup TokenCommands
  BY DEF FrameReads, TokenCommands, GenerateTokenTypes
<1> QED
  BY <1>1, SubjectOf DEF FrameReads, ReadItems

\* The answer of a meter that has a frame command, and what it is taken to say.
LEMMA UplinkTold ==
  ASSUME CallsInv, Carried, plugin = "calin-chirpstack", pc = "executed",
         create.commandType # "READ_POWER_LIMIT"
  PROVE  /\ wire.bytes # encodeDlms
         /\ Uplink \in Seq(Bytes) /\ wellFramed(Uplink)
         /\ Told(decodeResponseData(Uplink))
<1> DEFINE k == create.commandType
           w == wire.bytes
           di == DiOf(create)
           phase == framePhase(create)
<1>1. wire # None /\ meter.kind \in {"done", "failed"}
  BY DEF CallsInv, TypeOK, Carried, Measured
<1>2. wire = chirpstackSendOne(create) /\ wire.kind = "frame" /\ Framed(create)
  BY <1>1, WireFrame DEF CallsInv, Carried
<1>3. /\ w \in Seq(Bytes) /\ Len(w) >= 14
      /\ w[1] = HEADER_BYTE /\ w[8] = HEADER_BYTE /\ w[9] = CodeOf(create)
      /\ w[11] = add33(di[2]) /\ w[12] = add33(di[1])
  BY <1>2, FrameOnWire
<1>4. /\ w # encodeDlms
      /\ MeterHears(w).item = Item(Subject(k), IF k \in {"READ_VOLTAGE", "READ_POWER", "READ_CURRENT"}
                                               THEN phase ELSE "-")
  BY <1>2, FrameMeans
<1>5. Asked = MeterHears(w).item
  BY <1>2, <1>4 DEF Asked
<1>6. k \in FrameReads \cup {"TURN_ON", "TURN_OFF", "SET_DATE", "SET_TIME"} \cup TokenCommands
  BY <1>2, FramedCommands
<1>7. /\ k \in FrameReads => At(w, 8) = 1
      /\ k \in {"TURN_ON", "TURN_OFF", "SET_DATE", "SET_TIME"} => At(w, 8) = 4
      /\ k \in TokenCommands => At(w, 8) = 0
  <2>1. At(w, 8) = CodeOf(create)
    BY <1>3 DEF At
  <2> QED
    BY <2>1, CodeOfCommand
<1>8. At(w, 8) \in {0, 1, 4}
  BY <1>6, <1>7
<1>9. {192, 193, 196, 128, 129, 132} \subseteq DOMAIN ControlCodes
  BY CodesAreBytes, SMT
<1> HIDE DEF w
<1>10. CASE meter.kind = "failed"
  <2> DEFINE tail == <<1, 0>>
  <2>1. tail \in Seq(Bytes) /\ Len(tail) = 2 /\ tail[2] = 0
    BY DEF Bytes
  <2>2. Uplink = AnswerTo(w, 192 + At(w, 8), tail)
    BY <1>8, <1>10, UplinkOf, Zenon DEF w
  <2> HIDE DEF tail
  <2>3. CASE k \in FrameReads
    <3>1. 192 + At(w, 8) = 193
      BY <1>7, <2>3, SMT
    <3>2. IsAnswer(Uplink, 193, tail)
      BY <1>3, <1>9, <2>1, <2>2, <3>1, AnswerLayout
    <3>3. decodeResponseData(Uplink) = None
      BY <2>1, <3>2, RefusalDropped
    <3> QED
      BY <1>4, <3>2, <3>3 DEF IsAnswer, Told, w
  <2>4. CASE k \in TokenCommands
    <3>1. 192 + At(w, 8) = 192
      BY <1>7, <2>4, SMT
    <3>2. IsAnswer(Uplink, 192, tail)
      BY <1>3, <1>9, <2>1, <2>2, <3>1, AnswerLayout
    <3>3. decodeResponseData(Uplink) = Refusal("token")
      BY <1>9, <3>2, AnswerDecoded, ZenonT(40)
    <3>4. Told(Refusal("token"))
      BY <1>10, AcceptedTold
    <3> QED
      BY <1>4, <3>2, <3>3, <3>4 DEF IsAnswer, w
  <2>5. CASE k \in {"TURN_ON", "TURN_OFF", "SET_DATE", "SET_TIME"}
    <3>1. 192 + At(w, 8) = 196
      BY <1>7, <2>5, SMT
    <3>2. IsAnswer(Uplink, 196, tail)
      BY <1>3, <1>9, <2>1, <2>2, <3>1, AnswerLayout
    <3>3. decodeResponseData(Uplink) = Refusal("onOffToggle")
      BY <3>2, RefusedWrite
    <3>4. Told(Refusal("onOffToggle"))
      BY <1>10, AcceptedTold
    <3> QED
      BY <1>4, <3>2, <3>3, <3>4 DEF IsAnswer, w
  <2> QED
    BY <1>6, <2>3, <2>4, <2>5
<1>11. CASE meter.kind = "done" /\ k \notin FrameReads
  <2> DEFINE tail == <<0>>
  <2>1. tail \in Seq(Bytes)
    BY DEF Bytes
  <2>2. Uplink = AnswerTo(w, 128 + At(w, 8), tail)
    <3>1. meter.kind # "failed" /\ At(w, 8) # 1
      BY <1>6, <1>7, <1>11, SMT
    <3> QED
      BY <1>8, <3>1, UplinkOf, Zenon DEF w
  <2> HIDE DEF tail
  <2>3. CASE k \in TokenCommands
    <3>1. 128 + At(w, 8) = 128
      BY <1>7, <2>3, SMT
    <3>2. IsAnswer(Uplink, 128, tail)
      BY <1>3, <1>9, <2>1, <2>2, <3>1, AnswerLayout
    <3>3. decodeResponseData(Uplink) = Accepted("token", TRUE)
      BY <1>9, <3>2, AnswerDecoded, Zenon
    <3>4. Told(Accepted("token", TRUE))
      <4>1. "token" = Label("calin-chirpstack", k)
        BY <2>3, LabelOf
      <4> QED
        BY <1>11, <4>1, AcceptedTold
    <3> QED
      BY <1>4, <3>2, <3>3, <3>4 DEF IsAnswer, w
  <2>4. CASE k \in {"TURN_ON", "TURN_OFF", "SET_DATE", "SET_TIME"}
    <3>1. 128 + At(w, 8) = 132
      BY <1>7, <2>4, SMT
    <3>2. IsAnswer(Uplink, 132, tail)
      BY <1>3, <1>9, <2>1, <2>2, <3>1, AnswerLayout
    <3>3. decodeResponseData(Uplink) = Accepted("onOffToggle", TRUE)
      BY <1>9, <3>2, AnswerDecoded, Zenon
    <3>4. Told(Accepted("onOffToggle", TRUE))
      <4>1. "onOffToggle" = Label("calin-chirpstack", k)
        BY <2>4, LabelOf
      <4> QED
        BY <1>11, <4>1, AcceptedTold
    <3> QED
      BY <1>4, <3>2, <3>3, <3>4 DEF IsAnswer, w
  <2> QED
    BY <1>6, <1>11, <2>3, <2>4
<1>12. CASE meter.kind = "done" /\ k \in FrameReads
  <2> DEFINE v == meter.value
             what == Subject(k)
             tail == ReadTail(w, DataBytes(what, v))
  <2>1. what \in ReadItems /\ phase \in PHASES
    BY <1>2, <1>12, ReadSubjects DEF Framed, isCreate, framePhase, PHASES
  <2>2. Asked.what = what /\ (what \in {"voltage", "current", "power"} => Asked.phase = phase)
    <3>1. \A w1, p1 : Item(w1, p1).what = w1 /\ Item(w1, p1).phase = p1
      BY DEF Item
    <3>2. Subject(k) \in {"voltage", "current", "power"} => k \in {"READ_VOLTAGE", "READ_POWER", "READ_CURRENT"}
      BY <1>12, SubjectOf DEF FrameReads
    <3> QED
      BY <1>4, <1>5, <3>1, <3>2
  <2>3. Measures(what, v)
    <3>1. v \in Measurable(Asked)
      BY <1>1, <1>12 DEF Carried, Measured
    <3>2. \E ph : Asked = Item(what, ph)
      BY <1>4, <1>5
    <3> HIDE DEF what, v
    <3> QED
      BY <2>1, <3>1, <3>2, MeasuresOf
  <2>4. DataBytes(what, v) \in Seq(Bytes) /\ Len(DataBytes(what, v)) <= 6
    BY <2>1, <2>3, DataBytesOf
  <2>5. tail \in Seq(Bytes)
    <3> DEFINE data == DataBytes(what, v)
    <3>1. data \in Seq(Bytes) /\ Len(data) <= 6
      BY <2>4
    <3> HIDE DEF data
    <3>2. ReadTail(w, data) \in Seq(Bytes)
      BY <1>3, <3>1, ReadTailOf
    <3> QED
      BY <3>2 DEF data
  <2>6. Uplink = AnswerTo(w, 128 + At(w, 8), tail)
    <3>1. meter.kind # "failed" /\ At(w, 8) = 1
      BY <1>7, <1>12, SMT
    <3> QED
      BY <1>8, <2>2, <3>1, UplinkOf, Zenon DEF w
  <2>7. 128 + At(w, 8) = 129
    BY <1>7, <1>12, SMT
  <2>8. IsAnswer(Uplink, 129, tail)
    <3> HIDE DEF tail
    <3> QED
      BY <1>3, <1>9, <2>5, <2>6, <2>7, AnswerLayout
  <2>9. PICK hi, lo \in Bytes : di = <<hi, lo>> /\ Reads(lo + hi * 256, what, phase)
    BY <1>2, <1>12, ReadDi
  <2>10. w[11] = add33(lo) /\ w[12] = add33(hi)
    <3>1. di[1] = hi /\ di[2] = lo
      <4> HIDE DEF di
      <4> QED
        BY <2>9
    <3> QED
      BY <1>3, <3>1, Zenon
  <2>11. PICK data : /\ decodeResponseData(Uplink) = Decoded("EXECUTION_SUCCESS", data, FALSE)
                     /\ ReadsAs(what, data, v, phase)
    <3> HIDE DEF what, v, phase
    <3>1. \E data : /\ decodeResponseData(Uplink) = Decoded("EXECUTION_SUCCESS", data, FALSE)
                    /\ ReadsAs(what, data, v, phase)
      BY <1>3, <2>1, <2>3, <2>8, <2>9, <2>10, ReadingDecoded, ZenonT(40)
    <3> QED
      BY <3>1
  <2>12. FrameTold("EXECUTION_SUCCESS", data)
    <3>1. Label("calin-chirpstack", k) = what
      BY <1>12, LabelOf
    <3> HIDE DEF what, v, phase
    <3> QED
      BY <1>12, <2>2, <2>11, <3>1 DEF FrameTold, ReadsAs, v
  <2> QED
    BY <1>4, <2>8, <2>11, <2>12, Zenon DEF IsAnswer, Told, w
<1> QED
  BY <1>1, <1>10, <1>11, <1>12

-----------------------------------------------------------------------------
(* What the engine hears of an uplink *)

\* The last bytes of a sequence are the part appended last.
LEMMA TailIs ==
  ASSUME NEW S, NEW s \in Seq(S), NEW t \in Seq(S), NEW u, Joins(S, u, s, t)
  PROVE  SubSeq(u, Len(s) + 1, Len(u)) = t
<1>1. /\ Len(s) \in Nat /\ Len(t) \in Nat /\ u \in Seq(S) /\ Len(u) = Len(s) + Len(t)
      /\ \A i \in 1..Len(t) : u[Len(s) + i] = t[i]
  BY DEF Joins
<1> DEFINE from == Len(s) + 1
           to == Len(u)
           v == SubSeq(u, from, to)
<1>2. v = [i \in 1..Len(t) |-> u[Len(s) + i]]
  <2>1. to - from + 1 = Len(t) /\ from \in 1..(Len(u) + 1)
    BY <1>1
  <2>2. v = [i \in 1..(to - from + 1) |-> u[from + i - 1]]
    BY <1>1
  <2>3. \A i \in 1..Len(t) : from + i - 1 = Len(s) + i
    BY <1>1
  <2> QED
    BY <2>1, <2>2, <2>3
<1>3. v = [i \in 1..Len(t) |-> t[i]]
  BY <1>1, <1>2
<1>4. t = [i \in 1..Len(t) |-> t[i]]
  OBVIOUS
<1> QED
  BY <1>3, <1>4

\* The DLMS answer starts with 0 and ends in the limit the meter measured.
LEMMA DlmsTold ==
  ASSUME CallsInv, Carried, plugin = "calin-chirpstack", pc = "executed",
         create.commandType = "READ_POWER_LIMIT", meter.kind = "done"
  PROVE  wire.bytes = encodeDlms /\ Told(decodeResponseData(DlmsUplink))
<1>1. wire # None /\ meter.value \in Measurable(Asked)
  BY DEF Carried, Measured
<1>2. wire.kind = "frame" /\ wire.bytes = encodeDlms
  BY <1>1, WireFrame DEF CallsInv, Carried
<1>3. Asked = Item("powerLimit", "-")
  BY <1>2 DEF Asked
<1>4. PICK n \in Nat : meter.value = Number(n)
  BY <1>1, <1>3, MeasuredOf DEF Item
<1>5. meter.value.value \in Nat
  BY <1>4 DEF Number
<1> DEFINE limit == BinaryBytes(meter.value.value, 4)
           back == Reverse(limit)
           head == <<0, 1, 0, 1, 0, \h66>>
           u == DlmsUplink
<1>6. back \in Seq(Bytes) /\ Len(back) = 4
  <2>1. 4 \in 1..4
    OBVIOUS
  <2>2. limit \in Seq(Bytes) /\ Len(limit) = 4
    BY <1>5, <2>1, BinaryBytesOf, Zenon
  <2> HIDE DEF limit
  <2> QED
    BY <2>2, ReverseOf
<1>7. head \in Seq(Bytes) /\ Len(head) = 6 /\ head[1] = 0
  BY SMT DEF Bytes
<1>8. u = head \o back
  BY DEF DlmsUplink
<1> HIDE DEF limit, head
<1>9. Joins(Bytes, u, head, back)
  BY <1>6, <1>7, <1>8, JoinsOf
<1> HIDE DEF u
<1>10. Len(u) = 10 /\ u[1] = 0
  BY <1>6, <1>7, <1>9 DEF Joins
<1>11. SubSeq(u, Len(u) - 3, Len(u)) = back
  <2>1. Len(u) - 3 = Len(head) + 1
    BY <1>7, <1>10
  <2> HIDE DEF back
  <2>2. SubSeq(u, Len(head) + 1, Len(u)) = back
    BY <1>6, <1>7, <1>9, TailIs, Zenon
  <2> QED
    BY <2>1, <2>2
<1> DEFINE data == [kind |-> "powerLimit", value |-> back]
<1>12. decodeResponseData(u) = Decoded("EXECUTION_SUCCESS", data, FALSE)
  <2>1. At(u, 0) = 0
    BY <1>10 DEF At
  <2> HIDE DEF back
  <2> QED
    BY <1>11, <2>1 DEF decodeResponseData, decodeDlms
<1>13. FrameAgrees(data, meter.value)
  BY DEF FrameAgrees, Capacity, limit
<1>14. data # None /\ "phase" \notin DOMAIN data
  BY DEF None
<1>15. FrameTold("EXECUTION_SUCCESS", data)
  <2>1. Label("calin-chirpstack", "READ_POWER_LIMIT") = "powerLimit"
    BY LabelOf, SubjectOf
  <2> QED
    BY <1>13, <1>14, <2>1 DEF FrameTold
<1> QED
  BY <1>2, <1>12, <1>15 DEF Told, u

\* A meter reference of 11 digits is what its device's identifier ends in.
LEMMA DeviceOf ==
  ASSUME NEW reference \in Strings, Len(reference) = 11
  PROVE  meterReference(devEui(reference)) = reference
<1> DEFINE zeros == [i \in 1..(16 - Len(reference)) |-> 0]
           u == zeros \o reference
<1>1. reference \in Seq(0..17) /\ zeros \in Seq(0..17) /\ Len(zeros) = 5
  <2>1. 1..(16 - Len(reference)) = 1..5
    OBVIOUS
  <2>2. zeros = [i \in 1..5 |-> 0]
    BY <2>1
  <2>3. reference \in Seq(0..17)
    BY DEF Strings
  <2> QED
    BY <2>2, <2>3
<1>2. devEui(reference) = u
  BY DEF devEui, padStart
<1> HIDE DEF zeros
<1>3. Joins(0..17, u, zeros, reference)
  BY <1>1, JoinsOf
<1> HIDE DEF u
<1>4. SubSeq(u, 6, Len(u)) = reference
  <2>1. 6 = Len(zeros) + 1
    BY <1>1
  <2>2. SubSeq(u, Len(zeros) + 1, Len(u)) = reference
    BY <1>1, <1>3, TailIs, Zenon
  <2> QED
    BY <2>1, <2>2
<1> QED
  BY <1>2, <1>4 DEF meterReference

\* What is heard of a decoded frame is true if the frame is.
LEMMA HeardTrue ==
  ASSUME NEW status, NEW data, isCreate(create), plugin' = "calin-chirpstack", create' = create,
         told' = Heard(create, status, data),
         (status = "EXECUTION_SUCCESS" =>
             /\ meter'.kind = "done" /\ data # None /\ FrameAgrees(data, meter'.value)
             /\ wire' = None => data.kind = "report"
             /\ wire' # None => data.kind = Label("calin-chirpstack", create.commandType)
             /\ "phase" \in DOMAIN data => data.phase = Asked'.phase),
         (status = "EXECUTION_FAILURE" => meter'.kind = "failed")
  PROVE  ReportTruthful'
<1>1. told'.response.status = status /\ told'.response.data = data
      /\ told'.device = meterReference(devEui(create.reference))
  BY DEF Heard
<1>2. Len(create'.reference) = 11 => told'.device = create'.reference
  BY <1>1, DeviceOf DEF isCreate
<1>3. status = "EXECUTION_SUCCESS" => Agrees(data, meter.value)'
  <2>1. Agrees(data, meter.value)' <=> FrameAgrees(data', meter'.value)
    BY DEF Agrees, FrameAgrees
  <2> QED
    BY <2>1
<1>4. Label(plugin, create.commandType)' = Label("calin-chirpstack", create.commandType)
  OBVIOUS
<1> QED
  BY <1>1, <1>2, <1>3, <1>4 DEF ReportTruthful

\* A frame with a byte off is dropped, so what is decoded is what was sent.
LEMMA HeardAsSent ==
  ASSUME NEW b \in Seq(Bytes), wellFramed(b), NEW f \in Received(b),
         decodeResponseData(f) # None
  PROVE  f = b
<1>1. Noise \subseteq 1..255
  BY CallsAssumption
<1> QED
  BY <1>1, OneByteOffDropped

\* An uplink with its ack tells the engine only what the meter did.
LEMMA HandleUpTruthful ==
  ASSUME CallsInv, Carried, HandleUp
  PROVE  ReportTruthful'
<1>1. /\ pc = "executed" /\ plugin = "calin-chirpstack" /\ told.kind = "pending" /\ isCreate(create)
      /\ UNCHANGED <<plugin, create, minted, device, wire, meter, polls>>
      /\ wire.bytes = encodeDlms => meter.kind = "done"
  BY DEF HandleUp, CallsInv, TypeOK
<1>2. PICK b \in IF wire.bytes = encodeDlms THEN {DlmsUplink} ELSE Received(Uplink) :
         IF decodeResponseData(b) = None THEN UNCHANGED <<pc, told>>
         ELSE EndWith(Heard(create, decodeResponseData(b).status, decodeResponseData(b).data))
  BY DEF HandleUp
<1> DEFINE decoded == decodeResponseData(b)
<1>3. CASE decoded = None
  <2>1. told'.kind = "pending"
    BY <1>1, <1>2, <1>3
  <2> QED
    BY <2>1 DEF ReportTruthful
<1>4. CASE decoded # None
  <2>1. Told(decoded)
    <3>1. CASE create.commandType = "READ_POWER_LIMIT"
      <4>1. wire # None
        BY <1>1 DEF Carried, Measured
      <4>2. wire.bytes = encodeDlms
        BY <1>1, <3>1, <4>1, WireFrame DEF CallsInv, Carried
      <4>3. b = DlmsUplink /\ Told(decodeResponseData(DlmsUplink))
        BY <1>1, <1>2, <3>1, <4>2, DlmsTold
      <4> QED
        BY <4>3
    <3>2. CASE create.commandType # "READ_POWER_LIMIT"
      <4>1. /\ wire.bytes # encodeDlms
            /\ Uplink \in Seq(Bytes) /\ wellFramed(Uplink)
            /\ Told(decodeResponseData(Uplink))
        BY <1>1, <3>2, UplinkTold
      <4>2. b = Uplink
        BY <1>2, <1>4, <4>1, HeardAsSent
      <4> QED
        BY <4>1, <4>2
    <3> QED
      BY <3>1, <3>2
  <2>2. PICK status, data : decoded = Decoded(status, data, FALSE) /\ FrameTold(status, data)
    BY <1>4, <2>1 DEF Told
  <2>3. decoded.status = status /\ decoded.data = data
    BY <2>2 DEF Decoded
  <2>4. told' = Heard(create, status, data)
    BY <1>2, <1>4, <2>3 DEF EndWith
  <2>5. Asked' = Asked
    BY <1>1 DEF Asked
  <2>6. FrameAgrees(data, meter.value) => FrameAgrees(data, meter'.value)
    BY <1>1
  <2>7. /\ status = "EXECUTION_SUCCESS" =>
              /\ meter'.kind = "done" /\ data # None /\ FrameAgrees(data, meter'.value)
              /\ wire' # None /\ data.kind = Label("calin-chirpstack", create.commandType)
              /\ "phase" \in DOMAIN data => data.phase = Asked'.phase
        /\ status = "EXECUTION_FAILURE" => meter'.kind = "failed"
    <3>1. wire' # None
      BY <1>1 DEF Carried, Measured
    <3> QED
      BY <1>1, <2>2, <2>5, <2>6, <3>1 DEF FrameTold
  <2> QED
    BY <1>1, <2>4, <2>7, HeardTrue
<1> QED
  BY <1>3, <1>4

\* A join is reported as such, and no other step is an execution heard of.
LEMMA QuietTruthful ==
  ASSUME ReportTruthful, CallsInv,
         \/ GenerateToken \/ Provision \/ Enqueue \/ SendOne \/ VendorTakes \/ VendorRefuses \/ Execute
         \/ HandleJoin \/ HandleNack \/ GetRemoteStatus \/ UNCHANGED vars
  PROVE  ReportTruthful'
<1>1. CASE HandleJoin
  <2>1. told'.response.data = [kind |-> "networkJoined"] /\ wire' = None
    BY <1>1 DEF HandleJoin, EndWith, Heard, CallsInv, Progress
  <2> QED
    BY <2>1 DEF ReportTruthful
<1>2. CASE UNCHANGED vars
  <2>1. UNCHANGED <<plugin, create, meter, wire, told>>
    BY <1>2 DEF vars
  <2>2. Asked' = Asked
    BY <2>1 DEF Asked
  <2>3. Agrees(told.response.data, meter.value)' <=> Agrees(told.response.data, meter.value)
    BY <2>1 DEF Agrees
  <2>4. /\ Label(plugin, create.commandType)' = Label(plugin, create.commandType)
        /\ Misnamed(plugin, create.commandType, told.answer.text, told.response.data.kind)'
              <=> Misnamed(plugin, create.commandType, told.answer.text, told.response.data.kind)
    BY <2>1
  <2> QED
    BY <2>1, <2>2, <2>3, <2>4 DEF ReportTruthful
<1>3. ASSUME \/ GenerateToken \/ Provision \/ Enqueue \/ SendOne \/ VendorTakes \/ VendorRefuses
             \/ Execute \/ HandleNack \/ GetRemoteStatus
      PROVE  told'.kind # "DELIVERY_SUCCESSFUL"
  <2>1. pc # "ended"
    BY <1>3 DEF GenerateToken, Provision, Enqueue, SendOne, VendorTakes, VendorRefuses, Execute,
                HandleNack, GetRemoteStatus
  <2>2. told.kind = "pending"
    BY <2>1 DEF CallsInv, TypeOK
  <2>3. \/ told' = told \/ told' = BadRequest \/ told' = MintError \/ told' = Refused
        \/ (\E final : told' = VendorError(final)) \/ (\E final : told' = DeliveryFailed(final))
    <3>1. CASE GenerateToken
      BY <3>1, Zenon DEF GenerateToken, EndWith
    <3>2. CASE Provision \/ Enqueue \/ SendOne \/ VendorTakes \/ Execute
      BY <3>2 DEF Provision, Enqueue, SendOne, VendorTakes, Execute, EndWith
    <3>3. CASE VendorRefuses
      BY <3>3, Zenon DEF VendorRefuses, EndWith
    <3>4. CASE HandleNack \/ GetRemoteStatus
      BY <3>4, Zenon DEF HandleNack, GetRemoteStatus, EndWith
    <3> QED
      BY <1>3, <3>1, <3>2, <3>3, <3>4
  <2> QED
    BY <2>2, <2>3 DEF BadRequest, MintError, Refused, VendorError, DeliveryFailed
<1> QED
  BY <1>1, <1>2, <1>3 DEF ReportTruthful

-----------------------------------------------------------------------------
(* A report nobody asked for *)

\* From its byte o + 1 on, u holds x.
Part(u, o, x) ==
    /\ u \in Seq(Bytes) /\ x \in Seq(Bytes) /\ o \in Nat /\ o + Len(x) <= Len(u)
    /\ \A i \in 1..Len(x) : u[o + i] = x[i]

LEMMA PartOf ==
  ASSUME NEW u, NEW s \in Seq(Bytes), NEW t \in Seq(Bytes), Joins(Bytes, u, s, t)
  PROVE  Part(u, Len(s), t) /\ u \in Seq(Bytes) /\ Len(u) = Len(s) + Len(t)
<1>1. Len(s) \in Nat /\ Len(t) \in Nat
  OBVIOUS
<1> QED
  BY <1>1 DEF Joins, Part

LEMMA PartKept ==
  ASSUME NEW u, NEW s \in Seq(Bytes), NEW t \in Seq(Bytes), Joins(Bytes, u, s, t),
         NEW o, NEW x, Part(s, o, x)
  PROVE  Part(u, o, x)
<1>0. x \in Seq(Bytes) /\ o \in Nat /\ o + Len(x) <= Len(s) /\ \A i \in 1..Len(x) : s[o + i] = x[i]
  BY DEF Part
<1>1. /\ Len(s) \in Nat /\ Len(t) \in Nat /\ Len(x) \in Nat
      /\ u \in Seq(Bytes) /\ Len(u) = Len(s) + Len(t)
      /\ \A i \in 1..Len(s) : u[i] = s[i]
  BY <1>0 DEF Joins
<1>2. \A i \in 1..Len(x) : u[o + i] = x[i]
  <2> TAKE i \in 1..Len(x)
  <2>1. o + i \in 1..Len(s)
    BY <1>0, <1>1
  <2> QED
    BY <1>0, <1>1, <2>1
<1>3. o + Len(x) <= Len(u)
  BY <1>0, <1>1
<1> QED
  BY <1>0, <1>1, <1>2, <1>3 DEF Part

\* The fields of a report, by the bytes of the data they start after.
ReportLayout(data, time, c1, a1, c2, a2, d, v, i, status) ==
    /\ data \in Seq(Bytes) /\ Len(data) = 33
    /\ Part(data, 1, time) /\ Part(data, 6, c1) /\ Part(data, 10, a1) /\ Part(data, 14, c2)
    /\ Part(data, 18, a2) /\ Part(data, 22, d) /\ Part(data, 26, v) /\ Part(data, 28, i)
    /\ data[33] = status

LEMMA ReportLaidOut ==
  ASSUME NEW time \in Seq(Bytes), Len(time) = 5, NEW c1 \in Seq(Bytes), Len(c1) = 4,
         NEW a1 \in Seq(Bytes), Len(a1) = 4, NEW c2 \in Seq(Bytes), Len(c2) = 4,
         NEW a2 \in Seq(Bytes), Len(a2) = 4, NEW d \in Seq(Bytes), Len(d) = 4,
         NEW v \in Seq(Bytes), Len(v) = 2, NEW i \in Seq(Bytes), Len(i) = 4, NEW status \in Bytes
  PROVE  ReportLayout(<<0>> \o time \o c1 \o a1 \o c2 \o a2 \o d \o v \o i \o <<status>>,
                      time, c1, a1, c2, a2, d, v, i, status)
<1> DEFINE u0 == <<0>>
           last == <<status>>
           u1 == u0 \o time
           u2 == u1 \o c1
           u3 == u2 \o a1
           u4 == u3 \o c2
           u5 == u4 \o a2
           u6 == u5 \o d
           u7 == u6 \o v
           u8 == u7 \o i
           u9 == u8 \o last
<1>0. u0 \in Seq(Bytes) /\ Len(u0) = 1 /\ last \in Seq(Bytes) /\ Len(last) = 1 /\ last[1] = status
  BY DEF Bytes
<1> HIDE DEF u0, last
<1>1. Joins(Bytes, u1, u0, time)
  BY <1>0, JoinsOf
<1> HIDE DEF u1
<1>2. /\ u1 \in Seq(Bytes) /\ Len(u1) = 6
      /\ Part(u1, 1, time)
  <2>1. Part(u1, Len(u0), time) /\ u1 \in Seq(Bytes) /\ Len(u1) = Len(u0) + Len(time)
    BY <1>0, <1>1, PartOf, Zenon
  <2> QED
    BY <1>0, <2>1
<1>3. Joins(Bytes, u2, u1, c1)
  BY <1>2, JoinsOf
<1> HIDE DEF u2
<1>4. /\ u2 \in Seq(Bytes) /\ Len(u2) = 10
      /\ Part(u2, 1, time) /\ Part(u2, 6, c1)
  <2>1. Part(u2, Len(u1), c1) /\ u2 \in Seq(Bytes) /\ Len(u2) = Len(u1) + Len(c1)
    BY <1>2, <1>3, PartOf, Zenon
  <2>2. /\ Part(u2, 1, time)
    BY <1>2, <1>3, PartKept, Zenon
  <2> QED
    BY <1>2, <2>1, <2>2
<1>5. Joins(Bytes, u3, u2, a1)
  BY <1>4, JoinsOf
<1> HIDE DEF u3
<1>6. /\ u3 \in Seq(Bytes) /\ Len(u3) = 14
      /\ Part(u3, 1, time) /\ Part(u3, 6, c1) /\ Part(u3, 10, a1)
  <2>1. Part(u3, Len(u2), a1) /\ u3 \in Seq(Bytes) /\ Len(u3) = Len(u2) + Len(a1)
    BY <1>4, <1>5, PartOf, Zenon
  <2>2. /\ Part(u3, 1, time) /\ Part(u3, 6, c1)
    BY <1>4, <1>5, PartKept, Zenon
  <2> QED
    BY <1>4, <2>1, <2>2
<1>7. Joins(Bytes, u4, u3, c2)
  BY <1>6, JoinsOf
<1> HIDE DEF u4
<1>8. /\ u4 \in Seq(Bytes) /\ Len(u4) = 18
      /\ Part(u4, 1, time) /\ Part(u4, 6, c1) /\ Part(u4, 10, a1) /\ Part(u4, 14, c2)
  <2>1. Part(u4, Len(u3), c2) /\ u4 \in Seq(Bytes) /\ Len(u4) = Len(u3) + Len(c2)
    BY <1>6, <1>7, PartOf, Zenon
  <2>2. /\ Part(u4, 1, time) /\ Part(u4, 6, c1) /\ Part(u4, 10, a1)
    BY <1>6, <1>7, PartKept, Zenon
  <2> QED
    BY <1>6, <2>1, <2>2
<1>9. Joins(Bytes, u5, u4, a2)
  BY <1>8, JoinsOf
<1> HIDE DEF u5
<1>10. /\ u5 \in Seq(Bytes) /\ Len(u5) = 22
      /\ Part(u5, 1, time) /\ Part(u5, 6, c1) /\ Part(u5, 10, a1) /\ Part(u5, 14, c2)
      /\ Part(u5, 18, a2)
  <2>1. Part(u5, Len(u4), a2) /\ u5 \in Seq(Bytes) /\ Len(u5) = Len(u4) + Len(a2)
    BY <1>8, <1>9, PartOf, Zenon
  <2>2. /\ Part(u5, 1, time) /\ Part(u5, 6, c1) /\ Part(u5, 10, a1) /\ Part(u5, 14, c2)
    BY <1>8, <1>9, PartKept, Zenon
  <2> QED
    BY <1>8, <2>1, <2>2
<1>11. Joins(Bytes, u6, u5, d)
  BY <1>10, JoinsOf
<1> HIDE DEF u6
<1>12. /\ u6 \in Seq(Bytes) /\ Len(u6) = 26
      /\ Part(u6, 1, time) /\ Part(u6, 6, c1) /\ Part(u6, 10, a1) /\ Part(u6, 14, c2)
      /\ Part(u6, 18, a2) /\ Part(u6, 22, d)
  <2>1. Part(u6, Len(u5), d) /\ u6 \in Seq(Bytes) /\ Len(u6) = Len(u5) + Len(d)
    BY <1>10, <1>11, PartOf, Zenon
  <2>2. /\ Part(u6, 1, time) /\ Part(u6, 6, c1) /\ Part(u6, 10, a1) /\ Part(u6, 14, c2)
        /\ Part(u6, 18, a2)
    BY <1>10, <1>11, PartKept, Zenon
  <2> QED
    BY <1>10, <2>1, <2>2
<1>13. Joins(Bytes, u7, u6, v)
  BY <1>12, JoinsOf
<1> HIDE DEF u7
<1>14. /\ u7 \in Seq(Bytes) /\ Len(u7) = 28
      /\ Part(u7, 1, time) /\ Part(u7, 6, c1) /\ Part(u7, 10, a1) /\ Part(u7, 14, c2)
      /\ Part(u7, 18, a2) /\ Part(u7, 22, d) /\ Part(u7, 26, v)
  <2>1. Part(u7, Len(u6), v) /\ u7 \in Seq(Bytes) /\ Len(u7) = Len(u6) + Len(v)
    BY <1>12, <1>13, PartOf, Zenon
  <2>2. /\ Part(u7, 1, time) /\ Part(u7, 6, c1) /\ Part(u7, 10, a1) /\ Part(u7, 14, c2)
        /\ Part(u7, 18, a2) /\ Part(u7, 22, d)
    BY <1>12, <1>13, PartKept, Zenon
  <2> QED
    BY <1>12, <2>1, <2>2
<1>15. Joins(Bytes, u8, u7, i)
  BY <1>14, JoinsOf
<1> HIDE DEF u8
<1>16. /\ u8 \in Seq(Bytes) /\ Len(u8) = 32
      /\ Part(u8, 1, time) /\ Part(u8, 6, c1) /\ Part(u8, 10, a1) /\ Part(u8, 14, c2)
      /\ Part(u8, 18, a2) /\ Part(u8, 22, d) /\ Part(u8, 26, v) /\ Part(u8, 28, i)
  <2>1. Part(u8, Len(u7), i) /\ u8 \in Seq(Bytes) /\ Len(u8) = Len(u7) + Len(i)
    BY <1>14, <1>15, PartOf, Zenon
  <2>2. /\ Part(u8, 1, time) /\ Part(u8, 6, c1) /\ Part(u8, 10, a1) /\ Part(u8, 14, c2)
        /\ Part(u8, 18, a2) /\ Part(u8, 22, d) /\ Part(u8, 26, v)
    BY <1>14, <1>15, PartKept, Zenon
  <2> QED
    BY <1>14, <2>1, <2>2
<1>17. Joins(Bytes, u9, u8, last)
  BY <1>16, <1>0, JoinsOf
<1> HIDE DEF u9
<1>18. /\ u9 \in Seq(Bytes) /\ Len(u9) = 33
      /\ Part(u9, 1, time) /\ Part(u9, 6, c1) /\ Part(u9, 10, a1) /\ Part(u9, 14, c2)
      /\ Part(u9, 18, a2) /\ Part(u9, 22, d) /\ Part(u9, 26, v) /\ Part(u9, 28, i)
      /\ Part(u9, 32, last)
  <2>1. Part(u9, Len(u8), last) /\ u9 \in Seq(Bytes) /\ Len(u9) = Len(u8) + Len(last)
    BY <1>16, <1>0, <1>17, PartOf, Zenon
  <2>2. /\ Part(u9, 1, time) /\ Part(u9, 6, c1) /\ Part(u9, 10, a1) /\ Part(u9, 14, c2)
        /\ Part(u9, 18, a2) /\ Part(u9, 22, d) /\ Part(u9, 26, v) /\ Part(u9, 28, i)
    BY <1>16, <1>0, <1>17, PartKept, Zenon
  <2> QED
    BY <1>16, <1>0, <2>1, <2>2
<1>19. u9[33] = status
  BY <1>0, <1>18 DEF Part
<1>20. ReportLayout(u9, time, c1, a1, c2, a2, d, v, i, status)
  BY <1>18, <1>19 DEF ReportLayout
<1> QED
  BY <1>20 DEF u9, u8, u7, u6, u5, u4, u3, u2, u1, u0, last

\* A field that carries x with 33H added to each byte.
Shifted(g, x) ==
    g \in Seq(Bytes) /\ x \in Seq(Bytes) /\ Len(g) = Len(x) /\ \A i \in 1..Len(x) : g[i] = add33(x[i])

LEMMA FieldShifted ==
  ASSUME NEW b, NEW data, Carries(b, data), NEW o, NEW x, NEW from, NEW to, Holds(data, o, x, from, to)
  PROVE  Shifted(Field(b, from, to), x)
<1>1. b \in Seq(Bytes) /\ Len(data) \in Nat /\ x \in Seq(Bytes) /\ Len(x) \in Nat
      /\ Len(b) = 14 + Len(data) /\ o \in Nat /\ o + Len(x) <= Len(data)
  BY DEF Carries, Holds
<1>2. /\ from = 12 + o /\ from \in Nat /\ to = from + Len(x) /\ to <= Len(b)
  BY <1>1 DEF Holds
<1>3. IsField(Field(b, from, to), b, from, Len(x))
  BY <1>1, <1>2, FieldIs, Zenon
<1> DEFINE g == Field(b, from, to)
<1>4. g \in Seq(Bytes) /\ Len(g) = Len(x) /\ \A i \in 1..Len(x) : g[i] = b[from + i]
  BY <1>3, Zenon DEF IsField
<1> HIDE DEF g
<1>5. \A i \in 1..Len(x) : g[i] = add33(x[i])
  <2> TAKE i \in 1..Len(x)
  <2>1. o + i \in 1..Len(data) /\ from + i = 12 + (o + i)
    BY <1>1, <1>2
  <2>2. b[12 + (o + i)] = add33(data[o + i])
    BY <2>1, Zenon DEF Carries
  <2>3. data[o + i] = x[i]
    BY Zenon DEF Holds
  <2>4. g[i] = b[from + i]
    BY <1>4
  <2> QED
    BY <2>1, <2>2, <2>3, <2>4
<1>6. Shifted(g, x)
  BY <1>1, <1>4, <1>5 DEF Shifted
<1> QED
  BY <1>6 DEF g

\* A counter is read from its four bytes, a voltage from its two.
LEMMA CounterRead ==
  ASSUME NEW n \in Counter, NEW g, Shifted(g, BinaryBytes(n, 4))
  PROVE  reverseAndCombine(g) = n
<1>0. n \in Nat /\ n <= 2147483647
  BY SMT DEF Counter
<1>1. n \in Nat /\ 4 \in 1..4
  BY <1>0, SMT
<1> DEFINE x == WordAt(n, 1)
           y == WordAt(n, 2)
           z == WordAt(n, 3)
           w == WordAt(n, 4)
           s == BinaryBytes(n, 4)
<1>2. /\ \A i \in 1..4 : WordAt(n, i) \in Bytes
      /\ w <= 127 /\ n = x + y * 256 + z * 65536 + w * 16777216
  BY <1>0, WordBytes, SMT
<1>3. x \in Bytes /\ y \in Bytes /\ z \in Bytes /\ w \in Bytes
  BY <1>2, SMT
<1>4. s \in Seq(Bytes) /\ Len(s) = 4 /\ s[1] = x /\ s[2] = y /\ s[3] = z /\ s[4] = w
  <2>1. s \in Seq(Bytes) /\ Len(s) = 4 /\ \A i \in 1..4 : s[i] = WordAt(n, i)
    BY <1>1, BinaryBytesOf, Zenon
  <2> HIDE DEF s
  <2> QED
    BY <2>1
<1> HIDE DEF x, y, z, w, s
<1>5. Shifted(g, s)
  BY DEF s
<1>6. /\ g \in Seq(Bytes) /\ Len(g) = 4 /\ g[1] = add33(x) /\ g[2] = add33(y)
      /\ g[3] = add33(z) /\ g[4] = add33(w)
  BY <1>4, <1>5 DEF Shifted
<1>7. reverseAndCombine(g) = x + y * 256 + z * 65536 + w * 16777216
  BY <1>2, <1>3, <1>6, CombineFour, SMT
<1> QED
  BY <1>2, <1>7, SMT

Word16 == {n \in Nat : n < 65536}

LEMMA VoltageRead ==
  ASSUME NEW n \in Word16, NEW g, Shifted(g, BinaryBytes(n, 2))
  PROVE  reverseAndCombine(g) = n
<1>0. n \in Nat /\ n < 65536
  BY SMT DEF Word16
<1>1. n \in Nat /\ 2 \in 1..4
  BY <1>0, SMT
<1> DEFINE x == WordAt(n, 1)
           y == WordAt(n, 2)
           s == BinaryBytes(n, 2)
<1>2. (\A i \in 1..4 : WordAt(n, i) \in Bytes) /\ n = x + y * 256
  BY <1>0, WordBytes, SMT
<1>3. x \in Bytes /\ y \in Bytes
  BY <1>2
<1>4. s \in Seq(Bytes) /\ Len(s) = 2 /\ s[1] = x /\ s[2] = y
  <2>1. s \in Seq(Bytes) /\ Len(s) = 2 /\ \A i \in 1..2 : s[i] = WordAt(n, i)
    BY <1>1, BinaryBytesOf, Zenon
  <2> HIDE DEF s
  <2> QED
    BY <2>1
<1> HIDE DEF x, y, s
<1>5. Shifted(g, s)
  BY DEF s
<1>6. g \in Seq(Bytes) /\ Len(g) = 2 /\ g[1] = add33(x) /\ g[2] = add33(y)
  BY <1>4, <1>5 DEF Shifted
<1>7. reverseAndCombine(g) = x + y * 256
  BY <1>3, <1>6, CombineTwo
<1> QED
  BY <1>2, <1>7

\* Bytes [from, to) of the frame are the n bytes of its data after the first o.
Span(o, n, from, to) == from = 12 + o /\ to = from + n

LEMMA HoldsPart ==
  ASSUME NEW data, NEW o, NEW x, Part(data, o, x), NEW n, Len(x) = n,
         NEW from, NEW to, Span(o, n, from, to)
  PROVE  Holds(data, o, x, from, to)
  BY DEF Part, Holds, Span

\* The data of a report, by its fields.
ReportBytes(r, status) ==
    <<0>> \o Reverse(r.freezeTime)
    \o BinaryBytes(r.consumption[1], 4) \o Reverse(r.remaining[1])
    \o BinaryBytes(r.consumption[2], 4) \o Reverse(r.remaining[2])
    \o BinaryBytes(r.intervalDemand, 4) \o BinaryBytes(r.voltage, 2)
    \o BinaryBytes(r.current, 4) \o <<status>>

LEMMA FunctionIsSeq ==
  ASSUME NEW S, NEW n \in Nat, NEW f \in [1..n -> S]
  PROVE  f \in Seq(S) /\ Len(f) = n
<1>1. f = [i \in 1..n |-> f[i]] /\ \A i \in 1..n : f[i] \in S
  OBVIOUS
<1> QED
  BY <1>1

LEMMA ReportFields ==
  ASSUME NEW r \in ReportData
  PROVE  /\ r.kind = "report" /\ "phase" \notin DOMAIN r
         /\ r.freezeTime \in Seq(Bytes) /\ Len(r.freezeTime) = 5
         /\ r.consumption = <<r.consumption[1], r.consumption[2]>>
         /\ r.consumption[1] \in Counter /\ r.consumption[2] \in Counter
         /\ r.remaining = <<r.remaining[1], r.remaining[2]>>
         /\ r.remaining[1] \in Seq(Bytes) /\ Len(r.remaining[1]) = 4
         /\ r.remaining[2] \in Seq(Bytes) /\ Len(r.remaining[2]) = 4
         /\ r.intervalDemand \in Counter /\ r.voltage \in Word16
         /\ r.current \in Counter
         /\ \E byte \in 0..255 : r.meterStatus = Bits(byte)
         /\ r = [kind |-> "report", freezeTime |-> r.freezeTime, consumption |-> r.consumption,
                 remaining |-> r.remaining, intervalDemand |-> r.intervalDemand,
                 voltage |-> r.voltage, current |-> r.current, meterStatus |-> r.meterStatus]
<1>1. /\ r.kind = "report" /\ "phase" \notin DOMAIN r
      /\ r.freezeTime \in [1..5 -> 0..255]
      /\ r.consumption \in Counter \X Counter
      /\ r.remaining \in Amount \X Amount
      /\ r.intervalDemand \in Counter /\ r.voltage \in Word16
      /\ r.current \in Counter
      /\ r.meterStatus \in {Bits(byte) : byte \in 0..255}
      /\ r = [kind |-> "report", freezeTime |-> r.freezeTime, consumption |-> r.consumption,
              remaining |-> r.remaining, intervalDemand |-> r.intervalDemand,
              voltage |-> r.voltage, current |-> r.current, meterStatus |-> r.meterStatus]
  BY SMT DEF ReportData, Word16
<1>2. \A f : f \in [1..5 -> 0..255] => f \in Seq(Bytes) /\ Len(f) = 5
  <2>1. 5 \in Nat /\ 0..255 = Bytes
    BY DEF Bytes
  <2> SUFFICES ASSUME NEW f \in [1..5 -> Bytes] PROVE f \in Seq(Bytes) /\ Len(f) = 5
    BY <2>1
  <2> DEFINE n == 5
  <2>2. n \in Nat /\ f \in [1..n -> Bytes]
    OBVIOUS
  <2> HIDE DEF n
  <2>3. f \in Seq(Bytes) /\ Len(f) = n
    BY <2>2, FunctionIsSeq, Zenon
  <2> QED
    BY <2>3 DEF n
<1>3. \A f : f \in Amount => f \in Seq(Bytes) /\ Len(f) = 4
  <2>1. 4 \in Nat /\ Amount = [1..4 -> Bytes]
    BY DEF Bytes, Amount
  <2> SUFFICES ASSUME NEW f \in [1..4 -> Bytes] PROVE f \in Seq(Bytes) /\ Len(f) = 4
    BY <2>1
  <2> QED
    BY <2>1, FunctionIsSeq, Zenon
<1>4. r.remaining = <<r.remaining[1], r.remaining[2]>> /\ r.remaining[1] \in Amount /\ r.remaining[2] \in Amount
  BY <1>1
<1>5. r.consumption = <<r.consumption[1], r.consumption[2]>>
      /\ r.consumption[1] \in Counter /\ r.consumption[2] \in Counter
  BY <1>1
<1>6. r.freezeTime \in Seq(Bytes) /\ Len(r.freezeTime) = 5
  BY <1>1, <1>2
<1>7. /\ r.remaining[1] \in Seq(Bytes) /\ Len(r.remaining[1]) = 4
      /\ r.remaining[2] \in Seq(Bytes) /\ Len(r.remaining[2]) = 4
  BY <1>3, <1>4
<1> QED
  BY <1>1, <1>4, <1>5, <1>6, <1>7, Zenon

\* The fields of a report's data as decodeReadReport cuts them out of its frame.
ReportRead(b, r, status) ==
    /\ Plain(b, 13, 18) = Reverse(r.freezeTime)
    /\ reverseAndCombine(Field(b, 18, 22)) = r.consumption[1]
    /\ Plain(b, 22, 26) = Reverse(r.remaining[1])
    /\ reverseAndCombine(Field(b, 26, 30)) = r.consumption[2]
    /\ Plain(b, 30, 34) = Reverse(r.remaining[2])
    /\ reverseAndCombine(Field(b, 34, 38)) = r.intervalDemand
    /\ reverseAndCombine(Field(b, 38, 40)) = r.voltage
    /\ reverseAndCombine(Field(b, 40, 44)) = r.current
    /\ subtract33H(At(b, 44)) = status

LEMMA ReportDataOf ==
  ASSUME NEW r \in ReportData, NEW status \in Bytes
  PROVE  ReportLayout(ReportBytes(r, status), Reverse(r.freezeTime), BinaryBytes(r.consumption[1], 4),
                      Reverse(r.remaining[1]), BinaryBytes(r.consumption[2], 4), Reverse(r.remaining[2]),
                      BinaryBytes(r.intervalDemand, 4), BinaryBytes(r.voltage, 2),
                      BinaryBytes(r.current, 4), status)
<1>1. 4 \in 1..4 /\ 2 \in 1..4
  OBVIOUS
<1>2. /\ r.consumption[1] \in Nat /\ r.consumption[2] \in Nat /\ r.intervalDemand \in Nat
      /\ r.voltage \in Nat /\ r.current \in Nat
  BY ReportFields, SMT DEF Counter, Word16
<1>3. \A n \in Nat : BinaryBytes(n, 4) \in Seq(Bytes) /\ Len(BinaryBytes(n, 4)) = 4
  BY <1>1, BinaryBytesOf, Zenon
<1>4. \A n \in Nat : BinaryBytes(n, 2) \in Seq(Bytes) /\ Len(BinaryBytes(n, 2)) = 2
  BY <1>1, BinaryBytesOf, Zenon
<1>5. /\ Reverse(r.freezeTime) \in Seq(Bytes) /\ Len(Reverse(r.freezeTime)) = 5
      /\ Reverse(r.remaining[1]) \in Seq(Bytes) /\ Len(Reverse(r.remaining[1])) = 4
      /\ Reverse(r.remaining[2]) \in Seq(Bytes) /\ Len(Reverse(r.remaining[2])) = 4
  BY ReportFields, ReverseOf, SMTT(30)
<1> DEFINE time == Reverse(r.freezeTime)
           c1 == BinaryBytes(r.consumption[1], 4)
           a1 == Reverse(r.remaining[1])
           c2 == BinaryBytes(r.consumption[2], 4)
           a2 == Reverse(r.remaining[2])
           d == BinaryBytes(r.intervalDemand, 4)
           v == BinaryBytes(r.voltage, 2)
           i == BinaryBytes(r.current, 4)
<1>6. /\ time \in Seq(Bytes) /\ Len(time) = 5 /\ c1 \in Seq(Bytes) /\ Len(c1) = 4
      /\ a1 \in Seq(Bytes) /\ Len(a1) = 4 /\ c2 \in Seq(Bytes) /\ Len(c2) = 4
      /\ a2 \in Seq(Bytes) /\ Len(a2) = 4 /\ d \in Seq(Bytes) /\ Len(d) = 4
      /\ v \in Seq(Bytes) /\ Len(v) = 2 /\ i \in Seq(Bytes) /\ Len(i) = 4
  BY <1>2, <1>3, <1>4, <1>5, Zenon
<1>7. ReportBytes(r, status) = <<0>> \o time \o c1 \o a1 \o c2 \o a2 \o d \o v \o i \o <<status>>
  BY DEF ReportBytes
<1> HIDE DEF time, c1, a1, c2, a2, d, v, i
<1>8. ReportLayout(<<0>> \o time \o c1 \o a1 \o c2 \o a2 \o d \o v \o i \o <<status>>,
                   time, c1, a1, c2, a2, d, v, i, status)
  BY <1>6, ReportLaidOut, Zenon
<1>9. ReportLayout(ReportBytes(r, status), time, c1, a1, c2, a2, d, v, i, status)
  BY <1>7, <1>8, Zenon
<1> QED
  BY <1>9, Zenon DEF time, c1, a1, c2, a2, d, v, i

LEMMA ReportParts ==
  ASSUME NEW b, NEW data, Carries(b, data), NEW r \in ReportData, NEW status \in Bytes,
         data = ReportBytes(r, status)
  PROVE  ReportRead(b, r, status)
<1> DEFINE time == Reverse(r.freezeTime)
           c1 == BinaryBytes(r.consumption[1], 4)
           a1 == Reverse(r.remaining[1])
           c2 == BinaryBytes(r.consumption[2], 4)
           a2 == Reverse(r.remaining[2])
           d == BinaryBytes(r.intervalDemand, 4)
           v == BinaryBytes(r.voltage, 2)
           i == BinaryBytes(r.current, 4)
<1>1. ReportLayout(data, time, c1, a1, c2, a2, d, v, i, status)
  BY ReportDataOf, Zenon
<1>2. Len(time) = 5 /\ Len(a1) = 4 /\ Len(a2) = 4
  BY ReportFields, ReverseOf, SMTT(30)
<1>3. Len(c1) = 4 /\ Len(c2) = 4 /\ Len(d) = 4 /\ Len(v) = 2 /\ Len(i) = 4
  <2>1. /\ r.consumption[1] \in Nat /\ r.consumption[2] \in Nat /\ r.intervalDemand \in Nat
        /\ r.voltage \in Nat /\ r.current \in Nat
    BY ReportFields, SMT DEF Counter, Word16
  <2>2. 4 \in 1..4 /\ 2 \in 1..4
    OBVIOUS
  <2> QED
    BY <2>1, <2>2, BinaryBytesOf, Zenon
<1> HIDE DEF time, c1, a1, c2, a2, d, v, i
<1>4. /\ Part(data, 1, time) /\ Part(data, 6, c1) /\ Part(data, 10, a1) /\ Part(data, 14, c2)
      /\ Part(data, 18, a2) /\ Part(data, 22, d) /\ Part(data, 26, v) /\ Part(data, 28, i)
      /\ data[33] = status /\ Len(data) = 33
  BY <1>1, Zenon DEF ReportLayout
<1>5. /\ Holds(data, 1, time, 13, 18) /\ Holds(data, 6, c1, 18, 22)
      /\ Holds(data, 10, a1, 22, 26) /\ Holds(data, 14, c2, 26, 30)
      /\ Holds(data, 18, a2, 30, 34) /\ Holds(data, 22, d, 34, 38)
      /\ Holds(data, 26, v, 38, 40) /\ Holds(data, 28, i, 40, 44)
  <2>1. /\ Span(1, 5, 13, 18) /\ Span(6, 4, 18, 22) /\ Span(10, 4, 22, 26) /\ Span(14, 4, 26, 30)
        /\ Span(18, 4, 30, 34) /\ Span(22, 4, 34, 38) /\ Span(26, 2, 38, 40) /\ Span(28, 4, 40, 44)
    BY DEF Span
  <2>2. /\ Holds(data, 1, time, 13, 18) /\ Holds(data, 10, a1, 22, 26)
        /\ Holds(data, 18, a2, 30, 34) /\ Holds(data, 6, c1, 18, 22)
    BY <1>2, <1>3, <1>4, <2>1, HoldsPart, Zenon
  <2>3. /\ Holds(data, 14, c2, 26, 30) /\ Holds(data, 22, d, 34, 38)
        /\ Holds(data, 26, v, 38, 40) /\ Holds(data, 28, i, 40, 44)
    BY <1>3, <1>4, <2>1, HoldsPart, Zenon
  <2> QED
    BY <2>2, <2>3
<1>6. Plain(b, 13, 18) = time /\ Plain(b, 22, 26) = a1 /\ Plain(b, 30, 34) = a2
  <2>1. Plain(b, 13, 18) = time
    BY <1>5, PlainPart
  <2>2. Plain(b, 22, 26) = a1
    BY <1>5, PlainPart
  <2>3. Plain(b, 30, 34) = a2
    BY <1>5, PlainPart
  <2> QED
    BY <2>1, <2>2, <2>3
<1>7. /\ Shifted(Field(b, 18, 22), c1) /\ Shifted(Field(b, 26, 30), c2)
      /\ Shifted(Field(b, 34, 38), d) /\ Shifted(Field(b, 38, 40), v)
      /\ Shifted(Field(b, 40, 44), i)
  BY <1>5, FieldShifted, Zenon
<1>8. /\ r.consumption[1] \in Counter /\ r.consumption[2] \in Counter
      /\ r.intervalDemand \in Counter /\ r.voltage \in Word16 /\ r.current \in Counter
  BY ReportFields, Zenon
<1>9. /\ reverseAndCombine(Field(b, 18, 22)) = r.consumption[1]
      /\ reverseAndCombine(Field(b, 26, 30)) = r.consumption[2]
      /\ reverseAndCombine(Field(b, 34, 38)) = r.intervalDemand
      /\ reverseAndCombine(Field(b, 40, 44)) = r.current
  BY <1>7, <1>8, CounterRead, Zenon DEF c1, c2, d, i
<1>10. reverseAndCombine(Field(b, 38, 40)) = r.voltage
  BY <1>7, <1>8, VoltageRead, Zenon DEF v
<1>11. subtract33H(At(b, 44)) = status
  <2>1. Place(data, 44, 33)
    BY <1>4 DEF Place
  <2> QED
    BY <1>4, <2>1, BytePart
<1> QED
  BY <1>6, <1>9, <1>10, <1>11, Zenon DEF ReportRead, time, a1, a2

LEMMA ReportDecoded ==
  ASSUME NEW b, NEW r \in ReportData, NEW status, ReportRead(b, r, status), Bits(status) = r.meterStatus
  PROVE  decodeReadReport(b) = r
<1>1. /\ Reverse(Plain(b, 13, 18)) = r.freezeTime
      /\ Reverse(Plain(b, 22, 26)) = r.remaining[1] /\ Reverse(Plain(b, 30, 34)) = r.remaining[2]
  BY ReportFields, ReverseTwice, SMTT(30) DEF ReportRead
<1>2. decodeReadReport(b) =
        [kind |-> "report", freezeTime |-> r.freezeTime,
         consumption |-> <<r.consumption[1], r.consumption[2]>>,
         remaining |-> <<r.remaining[1], r.remaining[2]>>,
         intervalDemand |-> r.intervalDemand, voltage |-> r.voltage, current |-> r.current,
         meterStatus |-> r.meterStatus]
  BY <1>1, Zenon DEF decodeReadReport, ReportRead
<1>3. /\ r.consumption = <<r.consumption[1], r.consumption[2]>>
      /\ r.remaining = <<r.remaining[1], r.remaining[2]>>
      /\ r = [kind |-> "report", freezeTime |-> r.freezeTime, consumption |-> r.consumption,
              remaining |-> r.remaining, intervalDemand |-> r.intervalDemand,
              voltage |-> r.voltage, current |-> r.current, meterStatus |-> r.meterStatus]
  BY ReportFields, Zenon
<1> QED
  BY <1>2, <1>3, Zenon

\* A report's frame carries its data, and its checksum holds.
LEMMA ReportFrame ==
  ASSUME NEW address \in Seq(Bytes), Len(address) = 6, NEW data \in Seq(Bytes), Len(data) = 33,
         NEW b, b = Frame(Reverse(address), 129, <<193, 17>>, Added(data))
  PROVE  /\ b \in Seq(Bytes) /\ wellFramed(b) /\ Carries(b, data)
         /\ Len(b) = 47 /\ b[10] = 35 /\ b[11] = add33(17) /\ b[12] = add33(193)
         /\ \E tail : IsAnswer(b, 129, tail)
<1> DEFINE di == <<193, 17>>
           added == Added(data)
           a == Reverse(address)
           code == 129
<1>1. di \in Seq(Bytes) /\ Len(di) = 2 /\ di[1] = 193 /\ di[2] = 17 /\ code \in Bytes
  BY SMT DEF Bytes
<1>2. a \in Seq(Bytes) /\ Len(a) = 6
  BY ReverseOf
<1>3. added \in Seq(Bytes) /\ Len(added) = 33 /\ \A i \in 1..33 : added[i] = add33(data[i])
  <2>1. /\ added \in Seq(Bytes) /\ Len(added) = Len(data)
        /\ \A i \in 1..Len(data) : added[i] = add33(data[i])
    BY AddedOf, Zenon
  <2> HIDE DEF added
  <2> QED
    BY <2>1, SMT
<1>4. b = Frame(a, code, di, added)
  OBVIOUS
<1> HIDE DEF di, added, a, code
<1>5. IsFrame(b, a, code, di, added)
  BY <1>1, <1>2, <1>3, <1>4, FrameLayout, Zenon
<1>6. /\ b \in Seq(Bytes) /\ Len(b) = 14 + Len(added) /\ b[1] = HEADER_BYTE /\ b[8] = HEADER_BYTE
      /\ b[9] = code /\ b[10] = (2 + Len(added)) % 256
      /\ b[11] = add33(di[2]) /\ b[12] = add33(di[1])
      /\ \A i \in 1..Len(added) : b[12 + i] = added[i]
      /\ Last(b) = END_BYTE /\ checksumHolds(b)
  BY <1>5, Zenon DEF IsFrame
<1>7. Len(b) = 47 /\ b[10] = 35 /\ b[11] = add33(17) /\ b[12] = add33(193)
  BY <1>1, <1>3, <1>6, SMT
<1>8. Carries(b, data)
  <2>1. Len(added) = Len(data) /\ \A i \in 1..Len(data) : b[12 + i] = add33(data[i])
    <3>1. Len(added) = 33 /\ Len(data) = 33
      BY <1>3
    <3>2. \A i \in 1..33 : b[12 + i] = add33(data[i])
      BY <1>3, <1>6, <3>1, ZenonT(40)
    <3> QED
      BY <3>1, <3>2
  <2> QED
    BY <1>6, <2>1, SMT DEF Carries
<1>9. wellFramed(b)
  <2>1. code \in DOMAIN ControlCodes
    BY CodesAreBytes, SMT DEF code
  <2> QED
    BY <1>6, <1>7, <2>1, SMT DEF wellFramed, At
<1> DEFINE tail == SubSeq(b, 10, 45)
<1>10. Len(tail) = 36 /\ \A i \in 1..36 : tail[i] = b[9 + i]
  BY <1>6, <1>7, SMT
<1>11. IsAnswer(b, 129, tail)
  BY <1>6, <1>7, <1>9, <1>10, SMT DEF IsAnswer, code
<1> QED
  BY <1>6, <1>7, <1>8, <1>9, <1>11

\* A report arrives as the meter sent it, and as one nobody asked for.
LEMMA ReportHeard ==
  ASSUME NEW c, isCreate(c), Len(hexToBytes(padStart(c.reference, 12))) = 6, NEW r \in ReportData
  PROVE  /\ ReportUplink(c, r) \in Seq(Bytes) /\ wellFramed(ReportUplink(c, r))
         /\ decodeResponseData(ReportUplink(c, r)) = Decoded("EXECUTION_SUCCESS", r, TRUE)
<1> DEFINE address == hexToBytes(padStart(c.reference, 12))
           status == CHOOSE byte \in 0..255 : Bits(byte) = r.meterStatus
           data == ReportBytes(r, status)
           b == ReportUplink(c, r)
<1>1. address \in Seq(Bytes) /\ Len(address) = 6
  BY AddressOf DEF isCreate
<1>2. status \in Bytes /\ Bits(status) = r.meterStatus
  <2>1. \E byte \in 0..255 : Bits(byte) = r.meterStatus
    BY ReportFields, Zenon
  <2>2. status \in 0..255 /\ Bits(status) = r.meterStatus
    BY <2>1, Zenon
  <2> HIDE DEF status
  <2> QED
    BY <2>2, SMT DEF Bytes
<1>3. b = Frame(Reverse(address), 129, <<193, 17>>, Added(data))
  BY SMT DEF ReportUplink, ReportBytes, Added
<1> HIDE DEF address, status, b
<1>4. data \in Seq(Bytes) /\ Len(data) = 33
  BY <1>2, ReportDataOf, Zenon DEF ReportLayout
<1> HIDE DEF data
<1>5. /\ b \in Seq(Bytes) /\ wellFramed(b) /\ Carries(b, data)
      /\ Len(b) = 47 /\ b[10] = 35 /\ b[11] = add33(17) /\ b[12] = add33(193)
      /\ \E tail : IsAnswer(b, 129, tail)
  BY <1>1, <1>3, <1>4, ReportFrame, SMT
<1>6. decodeReadReport(b) = r
  <2>1. ReportRead(b, r, status)
    BY <1>2, <1>5, ReportParts, Zenon DEF data
  <2> QED
    BY <1>2, <2>1, ReportDecoded, Zenon
<1>7. Parsed(b) = r
  <2>1. reverseAndCombine(Field(b, 10, 12)) = 17 + 193 * 256
    <3> DEFINE lo == 17
               hi == 193
    <3>1. lo \in Bytes /\ hi \in Bytes /\ Len(b) >= 12 /\ b[11] = add33(lo) /\ b[12] = add33(hi)
      BY <1>5, SMT DEF Bytes
    <3> HIDE DEF lo, hi
    <3>2. reverseAndCombine(Field(b, 10, 12)) = lo + hi * 256
      BY <1>5, <3>1, IdentifierOf
    <3> QED
      BY <3>2, SMT DEF lo, hi
  <2>2. Parsed(b) = decodeReadReport(b)
    BY <2>1, SMT DEF Parsed
  <2> QED
    BY <1>6, <2>2
<1>8. r # None /\ r.kind = "report"
  BY ReportFields, SMTT(30) DEF None
<1>9. decodeReading(b, "READING_SUCCESS") = Decoded("EXECUTION_SUCCESS", r, TRUE)
  <2>1. ~(Len(b) < 12 + At(b, 9))
    BY <1>5, SMT DEF At
  <2>2. Parsed(b) # None /\ (Parsed(b).kind = "report") = TRUE
    BY <1>7, <1>8
  <2>3. decodeReading(b, "READING_SUCCESS") = Decoded("EXECUTION_SUCCESS", Parsed(b), TRUE)
    BY <2>1, <2>2 DEF decodeReading
  <2> QED
    BY <1>7, <2>3
<1>10. decodeResponseData(b) = decodeReading(b, "READING_SUCCESS")
  <2>1. 129 \in DOMAIN ControlCodes
    BY CodesAreBytes, SMT
  <2>2. PICK tail : IsAnswer(b, 129, tail)
    BY <1>5
  <2> QED
    BY <2>1, <2>2, AnswerDecoded, Zenon
<1> QED
  BY <1>5, <1>9, <1>10 DEF b

LEMMA HandleUpUnsolicitedTruthful ==
  ASSUME CallsInv, HandleUpUnsolicited
  PROVE  ReportTruthful'
<1>1. /\ plugin = "calin-chirpstack" /\ isCreate(create)
      /\ Len(hexToBytes(padStart(create.reference, 12))) = 6
      /\ UNCHANGED <<plugin, create, minted, device, wire, polls>>
  BY DEF HandleUpUnsolicited, CallsInv, TypeOK
<1>2. PICK r \in Reports :
         /\ meter' = [kind |-> "done", value |-> r]
         /\ \E b \in Received(ReportUplink(create, r)) :
               LET decoded == decodeResponseData(b)
               IN  IF decoded = None \/ ~decoded.unsolicited THEN FALSE
                   ELSE EndWith(Heard(create, decoded.status, decoded.data))
  BY DEF HandleUpUnsolicited
<1>3. PICK b \in Received(ReportUplink(create, r)) :
         /\ decodeResponseData(b) # None
         /\ EndWith(Heard(create, decodeResponseData(b).status, decodeResponseData(b).data))
  BY <1>2
<1>4. r \in ReportData
  BY CallsAssumption
<1>5. /\ ReportUplink(create, r) \in Seq(Bytes) /\ wellFramed(ReportUplink(create, r))
      /\ decodeResponseData(ReportUplink(create, r)) = Decoded("EXECUTION_SUCCESS", r, TRUE)
  BY <1>1, <1>4, ReportHeard
<1>6. b = ReportUplink(create, r)
  BY <1>3, <1>5, HeardAsSent
<1>7. told' = Heard(create, "EXECUTION_SUCCESS", r)
  BY <1>3, <1>5, <1>6 DEF EndWith, Decoded
<1>8. r.kind = "report" /\ "phase" \notin DOMAIN r /\ r # None
  BY <1>4, ReportFields, SMTT(30) DEF None
<1>9. meter'.kind = "done" /\ meter'.value = r
  BY <1>2
<1>10. FrameAgrees(r, r)
  BY <1>8 DEF FrameAgrees, Capacity
<1>11. FrameAgrees(r, meter'.value)
  BY <1>9, <1>10
<1>12. wire' = None
  BY <1>1 DEF HandleUpUnsolicited, CallsInv, Progress
<1> QED
  BY <1>1, <1>7, <1>8, <1>9, <1>11, <1>12, HeardTrue

\* Whatever the caller is told of an execution is what the meter did, whatever frames or
\* answers came back (decodeResponseData of the ChirpStack plugin, fetchStatus of the two
\* HTTP plugins): no success the meter did not have, no failure it did not have unless the
\* vendor's text is no number, every reading as it was measured and of its own device, under
\* the phase that was read, and no reading or acknowledgement of another command's.  What
\* the code tells under another phase or name is listed in the statement: a power over CALIN
\* API V1 (the phase of the request) and the texts of Misnamed.  A frame with one byte off,
\* unless its first byte comes to be 0, is never told as something else.
THEOREM ReportsTruthful == Spec => []ReportTruthful
<1> DEFINE TruthInv == CallsInv /\ Carried /\ ReportTruthful
<1>1. Init => TruthInv
  <2>1. Init => ReportTruthful
    BY DEF Init, ReportTruthful, Pending
  <2> QED
    BY <2>1, CallsInit, CarriedInit
<1>2. TruthInv /\ [Next]_vars => TruthInv'
  <2> SUFFICES ASSUME CallsInv, Carried, ReportTruthful, [Next]_vars
               PROVE  ReportTruthful'
    BY CallsNext, CarriedNext
  <2>1. CASE HandleUp
    BY <2>1, HandleUpTruthful
  <2>2. CASE HandleUpUnsolicited
    BY <2>2, HandleUpUnsolicitedTruthful
  <2>3. CASE FetchStatus
    BY <2>3, FetchTruthful
  <2> QED
    BY <2>1, <2>2, <2>3, QuietTruthful DEF Next
<1> QED
  BY <1>1, <1>2, PTL DEF Spec
=============================================================================
